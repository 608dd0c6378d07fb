---------------------------- MODULE EstimateChecks ----------------------------
(***************************************************************************)
(* What the backend makes of an estimate file without any AI: it finds the *)
(* header of each sheet, takes the rows below it as items, checks every    *)
(* item, scores the findings, and compares two estimates.  The steps are   *)
(* those of analyzeEstimateFile, run once for every file of a request;     *)
(* EstimateIntake says how files get here.                                 *)
(*                                                                         *)
(* A row is a record of its cells.  Texts are members of small sets.       *)
(* An item of a workbook is named after its sheet as well, whose name      *)
(* normalizeDuplicateKey takes off again, up to the first dot there is:    *)
(* NameKey gives the normalised form of a name under the label of a sheet, *)
(* with what is left of a label that has a dot itself, and None if it is   *)
(* too short to be compared.  The columns are those of the header; "heads" *)
(* are the column titles recognised in the row.  Amounts are in            *)
(* thousandths of a som.                                                   *)
(***************************************************************************)
EXTENDS FileInspection, FiniteSets, FiniteSetsExt, Ranking

CONSTANTS Files,        (* estimate files                                     *)
          Names,        (* what is written in the name column                 *)
          Labels,       (* names of sheets, and NoLabel                       *)
          NameKey,      (* the normalised form of every name under a label    *)
          Summaries,    (* names isLikelySummary takes for a total, or blank  *)
          None,         (* no key                                             *)
          HeaderRows,   (* 50: rows searched for the header                   *)
          MaxRows,      (* MAX_EXCEL_ROWS_PER_SHEET                           *)
          MaxSheets,    (* MAX_EXCEL_SHEETS                                   *)
          HighPrice,    (* 1 000 000 som                                      *)
          HighTotal     (* 5 000 000 som                                      *)

Columns  == {"name", "unit", "quantity", "unitPrice", "total"}
Required == Columns \ {"unit"}

Blank == ""
Comma == ","
Dot   == "."

(* The rows of a CSV or XLS file are not named after a sheet.              *)
NoLabel == ""

IsList(s) == s \in Seq(ToSet(s))

(* How a number is written: its value, its decimals, the decimal mark, and *)
(* which mark groups the thousands how often; no number groups them by its *)
(* own decimal mark.                                                       *)
IsNumber(c) ==
    /\ c.value \in Int /\ {c.decimals, c.groups} \subseteq Nat
    /\ c.point \in {Comma, Dot}
    /\ c.decimals > 0 => c.group # c.point

IsRow(r) ==
    /\ r.heads \subseteq Columns /\ r.name \in Names
    /\ IsNumber(r.quantity) /\ IsNumber(r.price) /\ IsNumber(r.total)

(* A file opens or not, and has sheets that can be read or not; a CSV file *)
(* is one sheet, a PDF none.  Other formats and empty files are refused    *)
(* before they are analysed.                                               *)
ASSUME ChecksAssumption ==
    /\ {HeaderRows, MaxRows, MaxSheets} \subseteq Nat \ {0}
    /\ {HighPrice, HighTotal} \subseteq Nat
    /\ DOMAIN NameKey = Labels \X Names
    /\ NoLabel \in Labels /\ Summaries \subseteq Names
    /\ \A f \in Files :
        /\ f.kind \in Kinds /\ f.opens \in BOOLEAN /\ f.size \in Nat
        /\ f.head.magic \in Magics /\ f.entries \in Seq(Entries)
        /\ f.kind = "csv" => Len(f.sheets) = 1
        /\ f.kind \in {"csv", "xls"} => \A s \in ToSet(f.sheets) : s.readable
        /\ IsList(f.sheets) /\ \A s \in ToSet(f.sheets) :
             /\ s.readable \in BOOLEAN /\ s.label \in Labels
             /\ IsList(s.rows) /\ \A r \in ToSet(s.rows) : IsRow(r)

VARIABLES
    op,         \* "compare", "upload" or "batch"
    input,      \* the files, by side: the first and the last one of the request
    which,      \* the file at hand
    phase,      \* the step that is next
    sheet,      \* the sheet that is next
    rowOffset,  \* rows of the sheets before it
    items, findings,
    results,    \* what came of each file
    comparison

analysis == <<op, input, which, phase, sheet, rowOffset, items, findings, results, comparison>>

(* An upload has a new file only.                                          *)
Sides     == {"base", "new"}
FirstSide == IF "base" \in DOMAIN input THEN "base" ELSE "new"
NoComparison == [added |-> {}, removed |-> {}, changed |-> {}, delta |-> 0]

(* Findings name a row (or a sheet), and a duplicate its first row, prev.  *)
Finding(title, row, prev) == [title |-> title, row |-> row, prev |-> prev]
When(condition, finding)  == IF condition THEN <<finding>> ELSE <<>>

High   == {"ReadError", "NoRows", "NoColumns", "SheetUnread", "SheetTooLong",
           "NoItems", "NoQuantity", "NoPrice", "Mismatch"}
Medium == {"SheetSkipped", "NoUnit", "NoTotal", "LargeAmount", "Duplicate"}

-----------------------------------------------------------------------------
(* Numbers                                                                 *)

(* Blanks and the names of the currency are removed first.                 *)
Marks(c, mark) ==
    (IF c.group = mark THEN c.groups ELSE 0)
      + (IF c.decimals > 0 /\ c.point = mark THEN 1 ELSE 0)

Tens(n) == LET t[k \in 0..n] == IF k = 0 THEN 1 ELSE 10 * t[k - 1] IN t[n]

(* Without its marks, a number has its decimals for whole digits.          *)
Joined(c) == c.value * Tens(c.decimals)

parseNumber(c) ==
    LET commas == Marks(c, Comma)
        dots   == Marks(c, Dot)
        after  == IF c.decimals > 0 THEN c.decimals ELSE 3
    IN  CASE commas > 0 /\ dots = 0 /\ after > 2  -> Joined(c)
          [] commas > 1 /\ dots = 0 /\ after <= 2 -> 0
          [] commas = 0 /\ dots = 1 /\ after = 3  -> Joined(c)
          [] commas = 0 /\ dots > 1               -> 0
          [] OTHER                                -> c.value

-----------------------------------------------------------------------------
(* Rows to items                                                           *)

(* The header is the first of the rows with the most column titles.        *)
HeaderRow(rows) ==
    LET top == 1..Min({Len(rows), HeaderRows})
    IN  Min({i \in top : \A j \in top :
                Cardinality(rows[j].heads) <= Cardinality(rows[i].heads)})

requiredColumnsFound(rows) == Required \subseteq rows[HeaderRow(rows)].heads

(* Every row below the header whose name is neither blank nor a total.     *)
extractItems(rows, offset, label) ==
    LET header  == HeaderRow(rows)
        hasUnit == "unit" \in rows[header].heads
        kept    == Ascending({i \in DOMAIN rows : i > header /\ rows[i].name \notin Summaries})
        Item(i) == [row      |-> offset + i,
                    label    |-> label,
                    name     |-> rows[i].name,
                    unit     |-> IF hasUnit THEN rows[i].unit ELSE Blank,
                    quantity |-> parseNumber(rows[i].quantity),
                    price    |-> parseNumber(rows[i].price),
                    total    |-> parseNumber(rows[i].total)]
    IN  [k \in DOMAIN kept |-> Item(kept[k])]

(* The sheets of an XLS file are one table, with an empty row between      *)
(* them; whatever is beyond the limits is left out without a word.         *)
NoCell   == [value |-> 0, decimals |-> 0, point |-> Dot, group |-> Blank, groups |-> 0]
EmptyRow == [heads |-> {}, name |-> Blank, unit |-> Blank,
             quantity |-> NoCell, price |-> NoCell, total |-> NoCell]

readXLSRows(sheets) ==
    LET Part(n) == SubSeq(sheets[n].rows, 1, Min({Len(sheets[n].rows), MaxRows}))
                     \o (IF n < Len(sheets) THEN <<EmptyRow>> ELSE <<>>)
    IN  FlattenSeq([n \in 1..Min({Len(sheets), MaxSheets}) |-> Part(n)])

TableRows(f) == IF f.kind = "xls" THEN readXLSRows(f.sheets) ELSE f.sheets[1].rows

(* A name of fewer than four bytes has no key.                             *)
Keyed(item) == NameKey[<<item.label, item.name>>] # None
normalizeDuplicateKey(item) == <<NameKey[<<item.label, item.name>>], item.unit>>

-----------------------------------------------------------------------------
(* Checks                                                                  *)

(* Quantity times price is in millionths.  The tolerance is a hundredth of *)
(* a som or a ten-thousandth of the total, whichever is more.              *)
Expected(item)  == item.quantity * item.price
Tolerance(item) == Max({10000, item.total \div 10})
Abs(n) == IF n < 0 THEN -n ELSE n
(* Only totals that are too small (a mutant).                              *)
Understated(item) == Expected(item) - item.total * 1000 > Tolerance(item)

Mismatched(item) == Abs(Expected(item) - item.total * 1000) > Tolerance(item)

(* Earlier items that look the same, and the row a duplicate is told of.   *)
Alike(list, k) ==
    {j \in 1..(k - 1) : normalizeDuplicateKey(list[j]) = normalizeDuplicateKey(list[k])}
LastSeenAt(list, k) == list[Max(Alike(list, k))].row   \* a mutant
SeenAt(list, k) == list[Min(Alike(list, k))].row

validateItem(list, k) ==
    LET it == list[k]
    IN  When(it.unit = Blank, Finding("NoUnit", it.row, 0))
     \o When(it.quantity <= 0, Finding("NoQuantity", it.row, 0))
     \o When(it.price <= 0, Finding("NoPrice", it.row, 0))
     \o When(it.total <= 0, Finding("NoTotal", it.row, 0))
     \o When(it.quantity > 0 /\ it.price > 0 /\ it.total > 0 /\ Mismatched(it),
             Finding("Mismatch", it.row, 0))
     \o When(it.price > HighPrice \/ it.total > HighTotal, Finding("LargeAmount", it.row, 0))
     \o IF Keyed(it) /\ Alike(list, k) # {}
          THEN <<Finding("Duplicate", it.row, SeenAt(list, k))>>
          ELSE <<>>

validateItems(list) == FlattenSeq([k \in 1..Len(list) |-> validateItem(list, k)])

Titled(list, titles) == {k \in 1..Len(list) : list[k].title \in titles}

scoreFromFindings(list) ==
    Max({0, 100 - 12 * Cardinality(Titled(list, High)) - 6 * Cardinality(Titled(list, Medium))})

estimateStatus(list) == IF Titled(list, High) # {} THEN "review_required" ELSE "ready"

SumOver(S, Amount(_)) == MapThenSumSet(Amount, S)
sumItemsTotal(list) == SumOver(DOMAIN list, LAMBDA k : list[k].total)

-----------------------------------------------------------------------------
(* The analysis of a file                                                  *)

file == input[which]

NothingAnalysed ==
    /\ sheet = 1 /\ rowOffset = 0
    /\ items = <<>> /\ findings = <<>>
    /\ results = [s \in {} |-> <<>>]
    /\ comparison = NoComparison

(* The upload keeps the score and the status of what the analysis found.   *)
Result(list, found) ==
    [items |-> list, findings |-> found, total |-> sumItemsTotal(list),
     score |-> scoreFromFindings(found), status |-> estimateStatus(found)]

(* The files come one after the other, and may then be compared.           *)
Finish(list, found) ==
    /\ results' = [s \in DOMAIN results \cup {which} |->
                      IF s = which THEN Result(list, found) ELSE results[s]]
    /\ which' = "new"
    /\ phase' = IF which = "base" THEN "open" ELSE IF op = "compare" THEN "compare" ELSE "keep"
    /\ sheet' = 1 /\ rowOffset' = 0 /\ items' = <<>> /\ findings' = <<>>
    /\ UNCHANGED <<op, input, comparison>>

Fail(title) == Finish(<<>>, Append(findings, Finding(title, 0, 0)))

Continue(next) ==
    phase' = next /\ UNCHANGED <<op, input, which, results, comparison>>

OpenWorkbook ==
    /\ phase = "open" /\ IsWorkbook(file)
    /\ IF file.opens /\ Len(file.sheets) \in 1..MaxSheets
          THEN Continue("sheets") /\ UNCHANGED <<sheet, rowOffset, items, findings>>
          ELSE Fail("ReadError")

ReadTable ==
    /\ phase = "open" /\ file.kind \in {"csv", "xls"}
    /\ LET rows == TableRows(file) IN
       IF ~file.opens THEN Fail("ReadError")
       ELSE IF rows = <<>> THEN Fail("NoRows")
       ELSE IF ~requiredColumnsFound(rows) THEN Fail("NoColumns")
       ELSE /\ Continue("items")
            /\ items' = extractItems(rows, 0, NoLabel)
            /\ UNCHANGED <<sheet, rowOffset, findings>>

(* A PDF goes to the AI as it is.                                          *)
PassPDF == phase = "open" /\ file.kind = "pdf" /\ Finish(<<>>, <<>>)

(* The sheets of a workbook, one after the other; items are numbered       *)
(* across them.                                                            *)
AdvanceNever(rows) == 0   \* a mutant
Advance(rows) == IF rows = <<>> THEN 0 ELSE Len(rows) + 1

ReadSheet ==
    /\ phase = "sheets" /\ sheet <= Len(file.sheets)
    /\ Continue("sheets") /\ sheet' = sheet + 1
    /\ LET s    == file.sheets[sheet]
           rows == SubSeq(s.rows, 1, Min({Len(s.rows), MaxRows}))
           skip == rows # <<>> /\ ~requiredColumnsFound(rows)
       IN  IF ~s.readable
             THEN /\ findings' = Append(findings, Finding("SheetUnread", sheet, 0))
                  /\ UNCHANGED <<rowOffset, items>>
             ELSE /\ findings' = findings
                       \o When(Len(s.rows) > MaxRows, Finding("SheetTooLong", sheet, 0))
                       \o When(skip, Finding("SheetSkipped", sheet, 0))
                  /\ items' = IF skip \/ rows = <<>> THEN items
                                ELSE items \o extractItems(rows, rowOffset, s.label)
                  /\ rowOffset' = rowOffset + Advance(rows)

CloseWorkbook ==
    /\ phase = "sheets" /\ sheet > Len(file.sheets)
    /\ IF items = <<>> THEN Fail("ReadError")
                       ELSE Continue("items") /\ UNCHANGED <<sheet, rowOffset, items, findings>>

Checked(list, found) ==
    found \o validateItems(list) \o When(list = <<>>, Finding("NoItems", 0, 0))

CheckItems == phase = "items" /\ Finish(items, Checked(items, findings))

-----------------------------------------------------------------------------
(* The comparison                                                          *)

KeyedItems(list) == {k \in DOMAIN list : Keyed(list[k])}
Keys(list) == {normalizeDuplicateKey(list[k]) : k \in KeyedItems(list)}

(* More than a som apart.                                                  *)
Risen(old, now) == now.total - old.total > 1000   \* a mutant
Moved(old, now) == Abs(now.total - old.total) > 1000

(* The last item of a key stands for it.                                   *)
ByKey(list) ==
    [key \in Keys(list) |->
        list[Max({k \in DOMAIN list : normalizeDuplicateKey(list[k]) = key})]]

compareEstimateItems(base, new) ==
    LET old  == ByKey(base)
        now  == ByKey(new)
        Both == DOMAIN old \cap DOMAIN now
    IN  [added   |-> {now[key] : key \in DOMAIN now \ Both},
         removed |-> {old[key] : key \in DOMAIN old \ Both},
         changed |-> {[baseRow |-> old[key].row, newRow |-> now[key].row,
                       delta   |-> now[key].total - old[key].total] :
                         key \in {key \in Both : Moved(old[key], now[key])}},
         delta   |-> sumItemsTotal(new) - sumItemsTotal(base)]

Compare ==
    /\ phase = "compare"
    /\ comparison' = compareEstimateItems(results["base"].items, results["new"].items)
    /\ phase' = "keep"
    /\ UNCHANGED <<op, input, which, sheet, rowOffset, items, findings, results>>

AnalysisStep ==
    OpenWorkbook \/ ReadTable \/ PassPDF \/ ReadSheet \/ CloseWorkbook \/ CheckItems \/ Compare

-----------------------------------------------------------------------------
(* Properties                                                              *)

(* A table is one sheet, with the rows of an XLS file that are not cut off.*)
SheetsRead(f) ==
    IF IsWorkbook(f) THEN f.sheets ELSE <<[rows |-> TableRows(f), readable |-> f.opens]>>

Top(f, n) ==
    LET rows == SheetsRead(f)[n].rows
    IN  IF IsWorkbook(f) THEN SubSeq(rows, 1, Min({Len(rows), MaxRows})) ELSE rows

Recognised(f, n) ==
    SheetsRead(f)[n].readable /\ Top(f, n) # <<>> /\ requiredColumnsFound(Top(f, n))

(* The places <<sheet, row>> of a file that a reader would count: the rows *)
(* below the header of every sheet that was recognised, without the totals.*)
On(f, n) ==
    {<<n, i>> : i \in {i \in DOMAIN Top(f, n) : /\ Recognised(f, n)
                                               /\ i > HeaderRow(Top(f, n))
                                               /\ Top(f, n)[i].name \notin Summaries}}

Precedes(a, b) == a[1] < b[1] \/ (a[1] = b[1] /\ a[2] < b[2])

Places(f) == Ranked(UNION {On(f, n) : n \in DOMAIN SheetsRead(f)}, Precedes)

(* A number that can be read in one way only: "0.125" and "0,125" might    *)
(* have three decimals or a group of thousands, "1.234.567" has no decimal *)
(* mark to tell the groups by.                                             *)
Unambiguous(c) ==
    \/ Marks(c, Comma) > 0 /\ Marks(c, Dot) > 0
    \/ c.decimals < 3 /\ (c.group = Dot => c.groups < 2)

(* The rows of extractItems, numbered across the sheets by                 *)
(* analyzeExcelWorkbook: the items of a file are its countable rows in     *)
(* their order, with numbers that tell them apart and the amounts that are *)
(* written in them, so that a finding leads a reader to one row.           *)
ItemsAreTheRows ==
    \A s \in DOMAIN results :
        LET list  == results[s].items
            place == Places(input[s])
            Row(k) == SheetsRead(input[s])[place[k][1]].rows[place[k][2]]
            Written(c, n) == Unambiguous(c) => n = c.value
        IN  list # <<>> =>
            /\ Len(list) = Len(place)
            /\ \A k \in DOMAIN list :
                /\ k > 1 => list[k].row > list[k - 1].row
                /\ list[k].name = Row(k).name
                /\ Written(Row(k).quantity, list[k].quantity)
                /\ Written(Row(k).price, list[k].price)
                /\ Written(Row(k).total, list[k].total)

(* validateItems: of the items that share a name and a unit, however they  *)
(* are spelled and whichever sheet they are on, but for a sheet whose own  *)
(* name has a dot, which stays part of the names of its items, all but the *)
(* first have one finding each, which names that first one.                *)
DuplicatesExplained ==
    \A s \in DOMAIN results :
        LET list  == results[s].items
            found == results[s].findings
            dups  == Titled(found, {"Duplicate"})
            At(row) == CHOOSE k \in DOMAIN list : list[k].row = row
        IN  /\ Cardinality(dups) = Cardinality(KeyedItems(list)) - Cardinality(Keys(list))
            /\ \A d \in dups :
                /\ found[d].prev < found[d].row
                /\ normalizeDuplicateKey(list[At(found[d].prev)])
                     = normalizeDuplicateKey(list[At(found[d].row)])
                /\ \A e \in dups : found[e].row # found[d].prev

(* A sheet of a file that is not silently left out.                        *)
Reported(found, f, n) ==
    Top(f, n) = <<>> \/ Recognised(f, n) \/ Finding("SheetSkipped", n, 0) \in ToSet(found)

(* estimateStatus: a spreadsheet may be "ready" though a sheet of it was   *)
(* skipped, but nothing is left out in silence: it has items, no sheet was *)
(* unreadable or cut off, and each is empty, recognised (ItemsAreTheRows   *)
(* says that all its rows are items then), or named by the finding that it *)
(* was skipped; an XLS file, which is one table here, may be cut off       *)
(* without a finding.  Unless a row is reported to have no total, the      *)
(* budget is the sum of quantity times price over the items, but for the   *)
(* tolerance of each.                                                      *)
ReadyReconciles ==
    \A s \in DOMAIN results :
        LET r == results[s]
            E(k) == Expected(r.items[k])
            T(k) == Tolerance(r.items[k])
        IN  (r.status = "ready" /\ input[s].kind # "pdf") =>
            /\ r.items # <<>>
            /\ IsWorkbook(input[s]) =>
                 \A n \in DOMAIN input[s].sheets :
                    /\ input[s].sheets[n].readable /\ Len(input[s].sheets[n].rows) <= MaxRows
                    /\ Reported(r.findings, input[s], n)
            /\ Titled(r.findings, {"NoTotal"}) = {} =>
                 Abs(SumOver(DOMAIN r.items, E) - 1000 * r.total) <= SumOver(DOMAIN r.items, T)

(* compareEstimateItems: where neither file has a duplicate or a name too  *)
(* short to compare, what was added, removed and changed accounts for the  *)
(* difference of the budgets, but for a som per position left unmentioned. *)
DeltaExplained ==
    LET base == results["base"].items
        new  == results["new"].items
        Plain(list) == Cardinality(Keys(list)) = Len(list)
        Same == Cardinality(Keys(base) \cap Keys(new)) - Cardinality(comparison.changed)
        Listed == SumOver(comparison.added, LAMBDA i : i.total)
                    - SumOver(comparison.removed, LAMBDA i : i.total)
                    + SumOver(comparison.changed, LAMBDA c : c.delta)
    IN  (op = "compare" /\ phase = "done" /\ Plain(base) /\ Plain(new)) =>
            Abs(comparison.delta - Listed) <= 1000 * Same

=============================================================================
