--------------------------- MODULE MCEstimateChecks ---------------------------
(* Requests for model checking EstimateIntake: every table of up to two of *)
(* seven rows, and workbooks that take each branch of the reader, compared *)
(* under the usual settings; and single files that take each branch of the *)
(* inspection, under all the settings.                                     *)
EXTENDS EstimateIntake

(* "split" is a sheet whose name ends in " . b", and "b . concrete" a name *)
(* with a dot of its own: both dots stand for the mark between them.       *)
AllNames  == {"title", "", "concrete", "Concrete,", "b . concrete", "sand", "PVC", "total"}
AllLabels == {"", "plain", "split"}

Lower(name) == CASE name = "Concrete," -> "concrete" [] name = "PVC" -> "pvc" [] OTHER -> name
NameKeys ==
    [p \in AllLabels \X AllNames |->
        CASE p[1] = "split" -> "b . " \o Lower(p[2])
          [] p[1] = "" /\ p[2] = "b . concrete" -> "concrete"
          [] p[1] # "split" /\ p[2] \in {"", "PVC"} -> "none"
          [] OTHER -> Lower(p[2])]
Totals == {"", "total"}

(* Amounts: thousandths, decimals, decimal mark, mark of the thousands.    *)
Num(v, d, point, group, n) ==
    [value |-> v, decimals |-> d, point |-> point, group |-> group, groups |-> n]
N(v) == Num(v * 1000, 0, ".", " ", 0)

Row(heads, name, unit, q, p, t) ==
    [heads |-> heads, name |-> name, unit |-> unit, quantity |-> q, price |-> p, total |-> t]
Title(heads) == Row(heads, "title", "unit", N(0), N(0), N(0))

Heads     == Title(Columns)
NoUnits  == Title(Required)
NoTotals == Title(Columns \ {"total"})
Empty    == Row({}, "", "", N(0), N(0), N(0))
Sum      == Row({"total"}, "total", "", N(0), N(0), N(300))
Concrete == Row({}, "concrete", "m3", N(2), N(100), N(200))
Spelled  == Row({}, "Concrete,", "m3", N(1), N(100), Num(100500, 1, ",", " ", 0))
NearSand == Row({}, "sand", "m3", Num(500, 1, ",", " ", 0), Num(250500, 2, ".", " ", 0),
                Num(125260, 2, ",", " ", 0))
Sand     == Row({}, "sand", "m3", N(1), N(126), N(126))
Unpriced == Row({}, "sand", "", N(0), N(0), N(0))
Dear     == Row({}, "concrete", "m3", N(1), Num(1000500, 2, ",", ".", 1),
                Num(1000500, 2, ",", ".", 1))
Beam     == Row({}, "b . concrete", "m3", N(1), N(100), N(100))
Short    == Row({}, "PVC", "m", N(3), N(10), N(30))
Eighth   == Row({}, "sand", "t", Num(125, 3, ".", " ", 0), N(4), Num(500, 1, ".", " ", 0))
Million  == Row({}, "sand", "t", N(1), N(10), Num(1000000000, 0, ".", ".", 2))
Thousand == Row({}, "concrete", "t", N(1), Num(1000000, 0, ".", ",", 1), Num(1000000, 0, ".", ".", 1))

Body == {Sum, Concrete, Spelled, NearSand, Sand, Unpriced, Short}

Sheet(rows) == [label |-> "plain", rows |-> rows, readable |-> TRUE]
Split(rows) == [Sheet(rows) EXCEPT !.label = "split"]
Locked      == [Sheet(<<>>) EXCEPT !.readable = FALSE]

(* The entries of an archive: name, size, packed size, mentioned types.    *)
Part(name, size)   == [name |-> name, size |-> size, packed |-> size, types |-> {}, readable |-> TRUE]
Mentioning(types)  == [Part("types", 1) EXCEPT !.types = types]
XLSX == <<Mentioning({"sheet"}), Part("workbook", 2)>>
XLSM == <<Mentioning({"macroSheet", "vba"}), Part("workbook", 2), Part("vba", 1)>>
Bytes(magic, control) == [magic |-> magic, nul |-> FALSE, control |-> control, length |-> 100]
Magic == [xlsx |-> "zip", xlsm |-> "zip", xls |-> "ole", csv |-> "text", pdf |-> "pdf", other |-> "text"]

File(kind, sheets, opens) ==
    [kind |-> kind, size |-> 4, head |-> Bytes(Magic[kind], 2), unzips |-> kind \in {"xlsx", "xlsm"},
     entries |-> IF kind = "xlsx" THEN XLSX ELSE IF kind = "xlsm" THEN XLSM ELSE <<>>,
     opens |-> opens, sheets |-> sheets]
Book(kind, sheets) == File(kind, sheets, TRUE)
Broken(kind, n)    == File(kind, [k \in 1..n |-> Sheet(<<>>)], FALSE)
Table(rows)        == Book("csv", <<Sheet(rows)>>)

One == Sheet(<<Heads, Concrete>>)

Tables == {Table(<<Heads>> \o rows) : rows \in UNION {[1..n -> Body] : n \in 1..2}}
            \cup {Table(rows) : rows \in {<<>>, <<Heads>>, <<NoTotals, Concrete>>,
                    <<NoUnits, Concrete>>, <<Empty, NoTotals, Heads, Sand>>,
                    <<Empty, Empty, Empty, Heads, Sand>>, <<Heads, Dear, Short>>,
                    <<Heads, Eighth>>, <<Heads, Million>>, <<Heads, Thousand, Sum, Short>>,
                    <<Heads, Unpriced, Unpriced, Unpriced>>,
                    <<Heads, Beam, Concrete>>, <<Heads, Concrete, Spelled, Concrete>>}}
            \cup {Broken("csv", 1), Broken("xls", 0)}
            \cup {Book("xls", sheets) : sheets \in
                     {<<Sheet(<<>>)>>, <<Sheet(<<>>), Sheet(<<>>)>>,
                      <<Sheet(<<Heads, Concrete, Sum>>), Sheet(<<Heads, Spelled, Short>>)>>,
                      <<Sheet(<<Heads, Concrete, Concrete, Sand, Short>>), Sheet(<<Sand>>)>>,
                      <<One, Sheet(<<>>), Sheet(<<Sand>>), Sheet(<<NearSand>>)>>}}

Workbooks == {Book("xlsx", sheets) : sheets \in
                {<<>>, <<One, One, One, One>>, <<Locked, One>>, <<Sheet(<<>>), One>>,
                 <<Sheet(<<Heads, Concrete, Sum>>), Sheet(<<Heads, Spelled, Short>>)>>,
                 <<Sheet(<<NoTotals, Sand>>), Sheet(<<Heads, Sand>>)>>,
                 <<Sheet(<<Heads, Concrete, Sand, Short, Unpriced>>), One>>,
                 <<Sheet(<<Heads, Sum>>)>>, <<Sheet(<<Heads, Sand>>), Sheet(<<NoTotals, Sand>>)>>,
                 <<Split(<<Heads, Concrete, Short>>), Sheet(<<Heads, Beam, Spelled>>), Split(<<Heads, Beam, Short>>)>>,
                 <<Sheet(<<NoUnits, Sand>>), Sheet(<<Heads, NearSand>>), One>>}}
             \cup {Broken("xlsx", 0), Broken("pdf", 0)}

Readable == Tables \cup Workbooks \cup {Book("pdf", <<>>)}

(* What the inspection tells apart: archives that are fine, and archives   *)
(* that break one rule each, some only by an entry among others.           *)
Plain  == Book("xlsx", <<One>>)
Macros == Book("xlsm", <<One>>)
Archives ==
    {XLSX \o <<Part("part", n)>> : n \in {1, 5, 6, 9}}          \* room for 9, entries up to 5
      \cup {XLSX \o <<e>> : e \in {Part("archive", 1), Part("unsafe", 1), Part("vba", 1), Part("part", 0),
                 [Part("part", 4) EXCEPT !.packed = 1], [Part("part", 4) EXCEPT !.packed = 2],
                 [Part("part", 2) EXCEPT !.packed = 0],
                 [Mentioning({"sheet"}) EXCEPT !.size = 3], [Mentioning({"sheet"}) EXCEPT !.readable = FALSE],
                 Mentioning({"sheet", "vba"}), Mentioning({"macroSheet"})}}
      \cup {XLSX \o <<Part("part", n), Part("part", 5 - n)>> : n \in {1, 3}}
      \cup {XLSX \o <<Part("part", 3), Part("part", 5)>>, <<>>, <<Part("workbook", 1)>>, <<Mentioning({"sheet"})>>, XLSM,
            XLSM \o <<Mentioning({"sheet"})>>, XLSX \o <<Part("vba", 1), Part("part", 1)>>,
            XLSX \o <<Part("part", 1), Part("part", 1), Part("part", 1)>>,
            XLSX \o <<Part("part", 1), Part("part", 0)>>, XLSX \o <<Part("archive", 1), Part("archive", 1)>>}

Doubtful ==
    {[Plain EXCEPT !.entries = a] : a \in Archives} \cup {[Macros EXCEPT !.entries = a] : a \in Archives}
      \cup {[Plain EXCEPT !.unzips = FALSE], Macros}
      \cup {[f EXCEPT !.head = h] : f \in {Plain, Table(<<Heads, Sand>>), Book("xls", <<One>>), Book("pdf", <<>>)},
              h \in {Bytes("MZ", 0), Bytes("zip", 0), Bytes("pdf", 0), Bytes("ole", 0), Bytes("text", 3),
                     [Bytes("text", 0) EXCEPT !.nul = TRUE], [Bytes("text", 0) EXCEPT !.length = 0]}}
      \cup {[f EXCEPT !.size = n] : f \in {Plain, Book("pdf", <<>>), Book("other", <<>>)}, n \in {0, 4, 5, 6, 7}}

AllFiles == Readable \cup Doubtful

-----------------------------------------------------------------------------

Standard == [files |-> 4, expanded |-> 9, entry |-> 5, ratio |-> 2, nested |-> 0]
Switched(production, enabled, failOpen, scanner) ==
    [limits |-> Standard, xlsm |-> TRUE, production |-> production,
     enabled |-> enabled, failOpen |-> failOpen, scanner |-> scanner]
Usual == Switched(TRUE, "", "", TRUE)
Strict == [Usual EXCEPT !.xlsm = FALSE, !.limits = [Standard EXCEPT !.nested = -1, !.files = 0]]
Loose  == [Usual EXCEPT !.limits = [Standard EXCEPT !.nested = 1, !.files = 5]]

Ask(kind, base, new, consents, s) ==
    [op |-> kind, form |-> consents, settings |-> s,
     files |-> IF kind = "upload" THEN [new |-> new] ELSE [base |-> base, new |-> new]]

AllRequests ==
    {Ask("compare", a, b, Confirmations, Usual) : a, b \in Readable}
      \cup {Ask("batch", Plain, f, Confirmations, s) : f \in Doubtful, s \in {Usual, Strict, Loose}}
      \cup {Ask(o, f, Plain, Confirmations, Usual) : o \in {"compare", "upload"}, f \in Doubtful}
      \cup {Ask("upload", f, f, Confirmations, s) : f \in Doubtful, s \in {Usual, Strict, Loose}}
      \cup {Ask(o, Plain, Plain, Confirmations \ {c}, Usual) : 
              o \in {"compare", "upload", "batch"}, c \in Confirmations}
      \cup {Ask("upload", f, f, Confirmations, Switched(p, e, o, a)) : f \in {Plain, [Plain EXCEPT !.size = 6]},
              p, a \in BOOLEAN, e, o \in Switches}

=============================================================================
