---------------------------- MODULE FileInspection ----------------------------
(***************************************************************************)
(* What a file has to pass before anything reads it (inspectUploadedFile): *)
(* Validate holds its content to its extension and an Office archive to    *)
(* the limits, entry after entry; ScanClamAV asks the virus scanner.       *)
(*                                                                         *)
(* A file has a kind (its extension), a size, its first bytes ("head")     *)
(* and, if it is a zip, the entries of its archive, each with the sizes    *)
(* that the archive declares for it: what it expands to is not looked at.  *)
(***************************************************************************)
EXTENDS Integers, Sequences, SequencesExt

CONSTANTS DefaultLimits,   (* of DefaultLimits(): files, expanded, entry, ratio, nested *)
          MaxTypes,        (* 2 MB, how much of [Content_Types].xml is read   *)
          ScanLimit        (* ANTIVIRUS_MAX_FILE_MB                           *)

Kinds    == {"xlsx", "xlsm", "xls", "csv", "pdf", "other"}
IsWorkbook(f) == f.kind \in {"xlsx", "xlsm"}

(* Entries by name; "types" is [Content_Types].xml, which mentions types.  *)
EntryNames == {"workbook", "vba", "types", "archive", "unsafe", "part"}
Mentions   == {"sheet", "macroSheet", "vba"}
Entries    == [name : EntryNames, size : Nat, packed : Nat, types : SUBSET Mentions,
               readable : BOOLEAN]

(* The first bytes that are known; "text" stands for all others.           *)
Magics == {"zip", "ole", "pdf", "MZ", "text"}

(* Of the settings, limits are numbers; xlsm and production are whether    *)
(* XLSM_POLICY allows XLSM files and APP_ENV is production; enabled and    *)
(* failOpen are ANTIVIRUS_ENABLED and ANTIVIRUS_FAIL_OPEN as they are      *)
(* written; scanner is whether CLAMAV_ADDRESS is given.                    *)
Switches == {"", "true", "false", "unclear"}

ASSUME InspectionAssumption ==
    /\ DOMAIN DefaultLimits = {"files", "expanded", "entry", "ratio", "nested"}
    /\ \A x \in DOMAIN DefaultLimits : DefaultLimits[x] \in Nat
    /\ MaxTypes \in Nat /\ ScanLimit \in Nat

normalizeLimits(l) ==
    [x \in DOMAIN DefaultLimits |->
        IF l[x] < 0 \/ (l[x] = 0 /\ x # "nested") THEN DefaultLimits[x] ELSE l[x]]

-----------------------------------------------------------------------------
(* Validate                                                                *)

(* Up to two of a hundred bytes, rounded down, may be control characters.  *)
validateCSV(f) ==
    /\ ~f.head.nul /\ f.head.magic \notin {"MZ", "zip", "pdf"}
    /\ f.head.length > 0 => (f.head.control * 100) \div f.head.length <= 2

EntryPasses(e, limits) ==
    /\ e.name # "unsafe"
    /\ e.size <= limits.entry
    /\ e.size > 0 => e.packed > 0 /\ e.size <= limits.ratio * e.packed
    /\ e.name = "types" => e.size <= MaxTypes /\ e.readable

(* Whether there is room for an entry is asked before it is added (a       *)
(* mutant).                                                                *)
ExpandedBefore(so, e) == so

Expanded(so, e) == so + e.size

(* What is known of the archive after one more entry.                      *)
NothingSeen == [passes |-> TRUE, expanded |-> 0, nested |-> 0,
                workbook |-> FALSE, vba |-> FALSE, types |-> {}]

See(seen, e, limits) ==
    LET nested == seen.nested + (IF e.name = "archive" THEN 1 ELSE 0)
    IN  [passes   |-> /\ seen.passes /\ EntryPasses(e, limits)
                      /\ Expanded(seen.expanded, e) <= limits.expanded
                      /\ nested <= limits.nested,
         expanded |-> seen.expanded + e.size,
         nested   |-> nested,
         workbook |-> seen.workbook \/ e.name = "workbook",
         vba      |-> seen.vba \/ e.name = "vba",
         types    |-> IF e.name = "types" THEN e.types ELSE seen.types]

validateOfficeArchive(f, limits) ==
    LET seen == FoldLeft(LAMBDA s, e : See(s, e, limits), NothingSeen, f.entries)
    IN  /\ f.unzips /\ Len(f.entries) \in 1..limits.files
        /\ seen.passes /\ seen.workbook
        /\ IF f.kind = "xlsx"
             THEN "sheet" \in seen.types /\ seen.types \cap {"macroSheet", "vba"} = {} /\ ~seen.vba
             ELSE "macroSheet" \in seen.types

Validate(f, settings) ==
    /\ f.size > 0
    /\ CASE f.kind = "csv" -> validateCSV(f)
         [] f.kind = "xls" -> f.head.magic = "ole"
         [] f.kind = "pdf" -> f.head.magic = "pdf"
         [] IsWorkbook(f)  -> /\ f.kind = "xlsm" => settings.xlsm
                              /\ f.head.magic = "zip"
                              /\ validateOfficeArchive(f, normalizeLimits(settings.limits))
         [] OTHER          -> FALSE

-----------------------------------------------------------------------------
(* The scanner                                                             *)

antivirusEnabled(settings) ==
    IF settings.enabled = "" THEN settings.production ELSE settings.enabled = "true"

antivirusFailOpen(settings) == settings.failOpen = "true" /\ ~settings.production

(* Without an address, or for a file beyond its limit, there is no answer. *)
ScanClamAV(f, settings) ==
    IF settings.scanner /\ f.size <= ScanLimit THEN {"clean", "found", "failed"} ELSE {"failed"}

(* The answers the file may get; "unasked" if the scanner is off.          *)
Answers(f, settings) ==
    IF antivirusEnabled(settings) THEN ScanClamAV(f, settings) ELSE {"unasked"}

inspectUploadedFile(f, settings, answer) ==
    /\ Validate(f, settings)
    /\ answer # "found"
    /\ answer = "failed" => antivirusFailOpen(settings)

=============================================================================
