---------------------------- MODULE EstimateIntake ----------------------------
(***************************************************************************)
(* How estimate files reach the analysis: the three handlers that take     *)
(* files (upload of one, comparison of two, a batch) ask for the consents, *)
(* save a file, have it inspected, store what is to stay and then analyse. *)
(* Whatever fails on the way, the files already saved are removed again,   *)
(* but for what was written of a report; and whoever removes them does not *)
(* know of a row whose commit was done but not answered.                   *)
(*                                                                         *)
(* That a file cannot be removed, which no handler notices, is left out.   *)
(*                                                                         *)
(* FileInspection says what the inspection lets through, EstimateChecks    *)
(* what the analysis makes of a file.  The files of a batch are analysed   *)
(* by the worker, after the request; see AnalysisBatch for the rest of it, *)
(* and UsageQuota for the quota that is reserved first.                    *)
(***************************************************************************)
EXTENDS EstimateChecks

CONSTANTS Requests,   (* requests: op, files by side, form and settings      *)
          MaxSize     (* MAX_UPLOAD_MB                                       *)

Confirmations == {"rights", "processing", "ai", "privacy", "terms"}

ASSUME IntakeAssumption ==
    /\ MaxSize \in Nat \ {0}
    /\ \A q \in Requests :
        /\ q.op \in {"compare", "upload", "batch"} /\ q.form \subseteq Confirmations
        /\ DOMAIN q.files = IF q.op = "upload" THEN {"new"} ELSE {"base", "new"}
        /\ \A s \in DOMAIN q.files : q.files[s] \in Files
        /\ {q.settings.enabled, q.settings.failOpen} \subseteq Switches
        /\ \A x \in DOMAIN DefaultLimits : q.settings.limits[x] \in Int

VARIABLES
    form,       \* the consents that the form confirms, in the current versions
    settings,   \* limits and antivirus, see FileInspection
    disk,       \* <<"temp", "kept" or "report", side>> of the files written
    stored,     \* the sides that a row of the database names
    fault,      \* "report" half written, or "answer" of a commit lost
    answers     \* what the scanner said of each file that passed

vars == <<analysis, form, settings, disk, stored, fault, answers>>

Init ==
    /\ \E q \in Requests : op = q.op /\ input = q.files /\ form = q.form /\ settings = q.settings
    /\ which = FirstSide /\ phase = "form"
    /\ NothingAnalysed
    /\ disk = {} /\ stored = {} /\ fault = "none" /\ answers = [s \in {} |-> ""]

(* A comparison and the scan of an upload use a temporary copy; a batch    *)
(* writes its files where they stay.                                       *)
Copy(s)  == <<IF op = "batch" THEN "kept" ELSE "temp", s>>
Temps    == {"temp"} \X Sides
Kept     == {"kept"} \X Sides
Report   == <<"report", "new">>

(* What the rows name: the row of an estimate its file and its report, the *)
(* rows of a batch its files; the row of a comparison names none.          *)
RowFiles == ({"kept"} \X stored) \cup (IF op = "upload" /\ stored # {} THEN {Report} ELSE {})

Own      == {"temp", "kept"} \X {which}
NoneOfThem == {}   \* a mutant
Earlier  == {"temp", "kept"} \X (DOMAIN input \ {which})

GoOn(next, side) ==
    /\ phase' = next /\ which' = side
    /\ UNCHANGED <<op, input, sheet, rowOffset, items, findings, results, comparison,
                   form, settings>>

Withdraw(files) == GoOn("refused", which) /\ disk' = disk \ files /\ UNCHANGED answers

Refuse == Withdraw(Own \cup Earlier) /\ UNCHANGED <<stored, fault>>

(* The commit is done, but its answer is an error.                         *)
LoseAnswer == stored' = DOMAIN input /\ fault' = "answer"

-----------------------------------------------------------------------------

requireUploadConsent == form = Confirmations

(* A batch asks for the size of all its files before it saves any.         *)
CheckForm ==
    /\ phase = "form"
    /\ IF requireUploadConsent /\ (op = "batch" => \A s \in DOMAIN input : input[s].size > 0)
         THEN GoOn("save", FirstSide) /\ UNCHANGED <<disk, stored, fault, answers>>
         ELSE Refuse

(* A file that is missing counts as empty.  The extension of an upload is  *)
(* left to the inspection.                                                 *)
Savable == file.size \in 1..MaxSize /\ (file.kind = "other" => op = "upload")

SaveFile ==
    /\ phase = "save" /\ Savable
    /\ disk' = disk \cup {Copy(which)}
    /\ GoOn("inspect", which) /\ UNCHANGED <<stored, fault, answers>>

(* The file cannot be accepted, or not be written.                         *)
SaveFails == phase = "save" /\ Refuse

(* Only the archive of a workbook takes so long that the inspection gives  *)
(* up; the scanner's silence is one of its answers.                        *)
InspectionTimesOut ==
    phase = "inspect" /\ IsWorkbook(file) /\ file.entries # <<>> /\ Refuse

InspectFile ==
    /\ phase = "inspect"
    /\ \E answer \in Answers(file, settings) :
        IF inspectUploadedFile(file, settings, answer)
          THEN /\ answers' = [s \in DOMAIN answers \cup {which} |->
                             IF s = which THEN answer ELSE answers[s]]
               /\ UNCHANGED <<disk, stored, fault>>
               /\ IF which # "new"     THEN GoOn("save", "new")
                  ELSE IF op = "compare" THEN GoOn("open", FirstSide)
                  ELSE GoOn("store", FirstSide)
          ELSE Refuse

(* An upload copies its file from the form once more; a batch enters its   *)
(* files in the database, for the worker to find.                          *)
Store ==
    /\ phase = "store"
    /\ disk' = disk \cup {<<"kept", s>> : s \in DOMAIN input}
    /\ stored' = IF op = "batch" THEN DOMAIN input ELSE stored
    /\ GoOn("open", FirstSide) /\ UNCHANGED <<fault, answers>>

StoreFails ==
    /\ phase = "store"
    /\ \/ Refuse
       \/ op = "batch" /\ Withdraw(Own \cup Earlier) /\ LoseAnswer

WriteReport ==
    /\ phase = "keep" /\ op = "upload"
    /\ disk' = disk \cup {Report}
    /\ GoOn("row", which) /\ UNCHANGED <<stored, fault, answers>>

(* Only the stored upload is removed then, and not what there is of the    *)
(* report, which is created before it is written.                          *)
ReportFails ==
    /\ phase = "keep" /\ op = "upload"
    /\ \E left \in SUBSET {Report} : disk' = (disk \ (Own \cup Earlier)) \cup left
    /\ GoOn("refused", which) /\ fault' = "report" /\ UNCHANGED <<stored, answers>>

(* The row of an upload or of a comparison; the temporary copies go.       *)
AboutToKeep == phase = IF op = "upload" THEN "row" ELSE "keep"

Keep ==
    /\ AboutToKeep
    /\ stored' = IF op = "upload" THEN DOMAIN input ELSE stored
    /\ disk' = disk \ Temps
    /\ GoOn("done", which) /\ UNCHANGED <<fault, answers>>

KeepFails ==
    /\ AboutToKeep /\ op # "batch"
    /\ Withdraw(Own \cup Earlier \cup {Report})
    /\ UNCHANGED <<stored, fault>> \/ (op = "upload" /\ LoseAnswer)

Analyse == AnalysisStep /\ UNCHANGED <<form, settings, disk, stored, fault, answers>>

Next ==
    \/ CheckForm \/ SaveFile \/ SaveFails \/ InspectFile \/ InspectionTimesOut
    \/ Store \/ StoreFails \/ Analyse \/ WriteReport \/ ReportFails \/ Keep \/ KeepFails

Spec == Init /\ [][Next]_vars

-----------------------------------------------------------------------------
(* Properties                                                              *)

(* The first bytes of each kind; a CSV file has none of the others' and    *)
(* "text" stands for any that is not known.                                *)
Signature == [xlsx |-> {"zip"}, xlsm |-> {"zip"}, xls |-> {"ole"}, pdf |-> {"pdf"},
              csv |-> {"text", "ole"}]

(* docs/UPLOAD_SECURITY.md: what a workbook has to be, said of the archive *)
(* as a whole rather than entry by entry, and of the sizes it declares.    *)
SoundArchive(f, limits) ==
    LET entries  == DOMAIN f.entries
        Named(n) == {k \in entries : f.entries[k].name = n}
        types    == f.entries[Max(Named("types"))].types
    IN  /\ Cardinality(entries) <= limits.files
        /\ SumOver(entries, LAMBDA k : f.entries[k].size) <= limits.expanded
        /\ \A k \in entries : /\ f.entries[k].size <= limits.entry
                              /\ f.entries[k].size <= limits.ratio * f.entries[k].packed
        /\ Cardinality(Named("archive")) <= limits.nested
        /\ Named("unsafe") = {} /\ Named("workbook") # {} /\ Named("types") # {}
        /\ f.kind = "xlsx" <=> "macroSheet" \notin types
        /\ f.kind = "xlsx" => Named("vba") = {}

(* Every handler: once a file is read, entered in the database or reported *)
(* on, all files of its request have passed, with consent: their content   *)
(* is what their extension says, a workbook stays within the limits, and   *)
(* the scanner found nothing; in production, unless the scan is switched   *)
(* off by name, it said so.  This holds whatever was inspected before.     *)
InspectedFirst ==
    phase \in {"store", "open", "sheets", "items", "compare", "keep", "row", "done"} =>
        /\ form = Confirmations
        /\ \A s \in DOMAIN input :
            LET f == input[s] IN
            /\ f.size \in 1..MaxSize
            /\ f.kind \in DOMAIN Signature /\ f.head.magic \in Signature[f.kind]
            /\ f.kind = "xlsm" => settings.xlsm
            /\ IsWorkbook(f) => SoundArchive(f, normalizeLimits(settings.limits))
            /\ s \in DOMAIN answers /\ answers[s] # "found"
            /\ settings.production /\ settings.enabled \in {"", "true"} => answers[s] = "clean"

(* The exits of the three handlers: of a request that is refused, wherever *)
(* it fails, no file stays on the disk, but for a report of an upload that *)
(* could not be written to its end; unless the answer of a commit is lost, *)
(* no file is removed that a row names; what is analysed is there until    *)
(* the analysis is over; and of a request that succeeds just those files   *)
(* stay that a row names, its report included.                             *)
NothingLeftBehind ==
    /\ phase = "refused" => disk = {} \/ (fault = "report" /\ stored = {} /\ disk = {Report})
    /\ fault # "answer" => RowFiles \subseteq disk
    /\ phase \in {"open", "sheets", "items"} => which \in {d[2] : d \in disk \cap
           (IF op = "compare" THEN Temps ELSE Kept)}
    /\ phase = "done" => disk = RowFiles /\ stored = IF op = "compare" THEN {} ELSE DOMAIN input

=============================================================================
