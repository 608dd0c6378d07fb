------------------------- MODULE EstimateIntakeProofs -------------------------
(***************************************************************************)
(* Theorems of EstimateIntake for any requests, files, limits and          *)
(* settings.  What is on the disk follows from the phase of the request    *)
(* (DiskInv), and so does what has passed the inspection (PassedInv).      *)
(* That the inspection of an archive, which goes entry by entry, decides   *)
(* about the archive as a whole is a fact about the fold (SeenRight).      *)
(*                                                                         *)
(* What the analysis makes of a file follows from ChecksInv: while sheets  *)
(* are read, the items are the rows of the sheets so far (Sheetful), and   *)
(* every result is a failure, with a finding, or all rows of its file with *)
(* all findings of the checks.  The rest is about lists and sums.          *)
(***************************************************************************)
EXTENDS EstimateIntake, FiniteSetTheorems, SequenceTheorems, TLAPS

-----------------------------------------------------------------------------
(* The sides of a request                                                  *)

Phases == {"form", "save", "inspect", "store", "open", "sheets", "items", "compare",
           "keep", "row", "done", "refused"}

SidesInv ==
    /\ op \in {"compare", "upload", "batch"}
    /\ DOMAIN input = IF op = "upload" THEN {"new"} ELSE {"base", "new"}
    /\ \A s \in DOMAIN input : input[s] \in Files
    /\ which \in DOMAIN input
    /\ phase \in Phases

Analysed == {"open", "sheets", "items", "compare"}

(* The sides that were saved before the one at hand.                       *)
Before == DOMAIN input \ {"new"}

(* Where the files of a request are when it has saved those of the sides.  *)
Copies(sides) == {Copy(s) : s \in sides}

(* The files of a request that is analysed, and of an upload afterwards.   *)
Present == IF op = "compare" THEN Copies(DOMAIN input)
                             ELSE Copies(DOMAIN input) \cup ({"kept"} \X DOMAIN input)

(* What is on the disk, and which files have a row, in every phase.        *)
DiskInv ==
    /\ phase # "refused" => fault = "none"
    /\ phase = "row" => op = "upload"
    /\ phase \in {"form", "save", "inspect", "store"} => stored = {}
    /\ phase \in Analysed \cup {"keep", "row"} =>
          stored = IF op = "batch" THEN DOMAIN input ELSE {}
    /\ phase = "done" => stored = IF op = "compare" THEN {} ELSE DOMAIN input
    /\ phase = "refused" => /\ fault # "answer" => stored = {}
                            /\ fault # "report" => disk = {}
                            /\ disk \in {{}, {Report}}
    /\ phase = "form" => disk = {}
    /\ phase = "save" => disk = IF which = "base" THEN {} ELSE Copies(Before)
    /\ phase = "inspect" => disk = IF which = "base" THEN Copies({"base"}) ELSE Copies(DOMAIN input)
    /\ phase = "store" => disk = Copies(DOMAIN input) /\ op # "compare"
    /\ phase \in Analysed \cup {"keep"} => disk = Present
    /\ phase = "row" => disk = Present \cup {Report}
    /\ phase = "done" => disk = RowFiles

LEMMA AnalysisMoves ==
    ASSUME AnalysisStep
    PROVE  /\ op' = op /\ input' = input
           /\ which' \in {which, "new"}
           /\ phase \in Analysed /\ phase' \in Analysed \cup {"keep"}
<1> USE DEF Finish, Fail, Continue, Analysed
<1>1. CASE OpenWorkbook
  BY <1>1 DEF OpenWorkbook
<1>2. CASE ReadTable
  <2>1. \/ Fail("ReadError") \/ Fail("NoRows") \/ Fail("NoColumns") \/ Continue("items")
    BY <1>2 DEF ReadTable
  <2> QED BY <1>2, <2>1 DEF ReadTable
<1>3. CASE PassPDF
  BY <1>3 DEF PassPDF
<1>4. CASE ReadSheet
  <2>1. phase = "sheets" /\ Continue("sheets")
    BY <1>4 DEF ReadSheet
  <2> QED BY <2>1
<1>5. CASE CloseWorkbook
  BY <1>5 DEF CloseWorkbook
<1>6. CASE CheckItems
  <2>1. phase = "items" /\ \E list, found : Finish(list, found)
    BY <1>6 DEF CheckItems
  <2> QED BY <2>1
<1>7. CASE Compare
  BY <1>7 DEF Compare
<1> QED BY <1>1, <1>2, <1>3, <1>4, <1>5, <1>6, <1>7 DEF AnalysisStep

(* What every step does to the sides, the phase and the disk.              *)
LEMMA SidesInit == Init => SidesInv /\ DiskInv
<1> SUFFICES ASSUME Init PROVE SidesInv /\ DiskInv
  OBVIOUS
<1>1. PICK q \in Requests : op = q.op /\ input = q.files /\ form = q.form /\ settings = q.settings
  BY DEF Init
<1>2. /\ q.op \in {"compare", "upload", "batch"}
      /\ DOMAIN q.files = IF q.op = "upload" THEN {"new"} ELSE {"base", "new"}
      /\ \A s \in DOMAIN q.files : q.files[s] \in Files
  BY IntakeAssumption DEF IntakeAssumption
<1>3. which = FirstSide /\ phase = "form" /\ disk = {} /\ stored = {} /\ fault = "none"
  BY DEF Init
<1>4. SidesInv
  BY <1>1, <1>2, <1>3 DEF SidesInv, FirstSide, Phases
<1> QED BY <1>3, <1>4 DEF DiskInv, Analysed

LEMMA SidesStep ==
    ASSUME SidesInv, [Next]_vars
    PROVE  SidesInv' /\ op' = op /\ input' = input
<1> USE DEF SidesInv, GoOn, Withdraw, Refuse, FirstSide, Phases
<1>1. CASE CheckForm \/ SaveFile \/ SaveFails \/ InspectionTimesOut
  BY <1>1 DEF CheckForm, SaveFile, SaveFails, InspectionTimesOut
<1>2. CASE InspectFile
  <2>1. \/ GoOn("save", "new") \/ GoOn("open", FirstSide) \/ GoOn("store", FirstSide) \/ Refuse
    BY <1>2 DEF InspectFile
  <2> QED BY <2>1
<1>3. CASE Store \/ StoreFails \/ WriteReport \/ ReportFails \/ Keep \/ KeepFails
  BY <1>3 DEF Store, StoreFails, WriteReport, ReportFails, Keep, KeepFails
<1>4. CASE Analyse
  BY <1>4, AnalysisMoves DEF Analyse, Analysed
<1>5. CASE UNCHANGED vars
  BY <1>5 DEF vars, analysis
<1> QED BY <1>1, <1>2, <1>3, <1>4, <1>5 DEF Next

LEMMA DiskStep ==
    ASSUME SidesInv, DiskInv, [Next]_vars
    PROVE  DiskInv'
<1>0. /\ op' = op /\ input' = input
      /\ DOMAIN input = IF op = "upload" THEN {"new"} ELSE {"base", "new"}
      /\ which \in DOMAIN input /\ "new" \in DOMAIN input
      /\ op \in {"compare", "upload", "batch"}
      /\ phase \in Phases
  BY SidesStep DEF SidesInv
<1>01. /\ \A S : Copies(S)' = Copies(S)
       /\ Present' = Present /\ Before' = Before
  BY <1>0 DEF Copies, Copy, Present, Before
<1>02. /\ Copies(DOMAIN input) \subseteq {"temp", "kept"} \X DOMAIN input
       /\ Copies(Before) \subseteq {"temp", "kept"} \X DOMAIN input
       /\ Copies({"base"}) \subseteq {"temp", "kept"} \X {"base"}
       /\ Present \subseteq {"temp", "kept"} \X DOMAIN input
  BY DEF Copies, Copy, Present, Before
<1>03. Own \cup Earlier = {"temp", "kept"} \X DOMAIN input
  BY <1>0 DEF Own, Earlier
<1>04. phase # "done" /\ phase # "refused" => disk \subseteq ({"temp", "kept"} \X DOMAIN input) \cup {Report}
  <2>1. phase = "inspect" => disk \subseteq {"temp", "kept"} \X DOMAIN input
    BY <1>0, <1>02 DEF DiskInv
  <2> QED BY <1>02, <2>1, <1>0 DEF DiskInv, Analysed, Phases
<1>05. phase \notin {"row", "done", "refused"} => disk \subseteq {"temp", "kept"} \X DOMAIN input
  <2>1. phase = "inspect" => disk \subseteq {"temp", "kept"} \X DOMAIN input
    BY <1>0, <1>02 DEF DiskInv
  <2> QED BY <1>02, <2>1, <1>0 DEF DiskInv, Analysed, Phases
<1>1. ASSUME Refuse, phase \notin {"row", "done", "refused"}, stored = {} PROVE DiskInv'
  <2>1. phase' = "refused" /\ stored' = {} /\ disk' = disk \ (Own \cup Earlier)
    BY <1>1 DEF Refuse, Withdraw, GoOn
  <2>2. disk' = {}
    BY <1>03, <1>05, <1>1, <2>1
  <2> QED BY <2>1, <2>2 DEF DiskInv, Analysed
<1>3. CASE CheckForm
  <2>1. CASE GoOn("save", FirstSide) /\ UNCHANGED <<disk, stored, fault>>
    <3>1. /\ disk' = {} /\ stored' = {} /\ fault' = "none" /\ phase' = "save"
          /\ which' = "base" \/ Before = {}
      BY <1>0, <1>3, <2>1 DEF CheckForm, GoOn, DiskInv, FirstSide, Before
    <3>2. Before = {} => Copies(Before) = {}
      BY DEF Copies
    <3> QED BY <1>01, <3>1, <3>2 DEF DiskInv, Analysed
  <2> QED BY <1>1, <1>3, <2>1 DEF CheckForm, DiskInv
<1>4. CASE SaveFile
  <2>1. /\ phase = "save" /\ phase' = "inspect" /\ which' = which
        /\ stored' = {} /\ fault' = "none" /\ disk' = disk \cup {Copy(which)}
    BY <1>4 DEF SaveFile, GoOn, DiskInv
  <2>2. disk' = IF which = "base" THEN Copies({"base"}) ELSE Copies(DOMAIN input)
    <3>1. CASE which = "base"
      BY <2>1, <3>1 DEF DiskInv, Copies
    <3>2. CASE which = "new"
      <4>1. disk' = Copies(Before) \cup {Copy("new")}
        BY <2>1, <3>2 DEF DiskInv
      <4>2. DOMAIN input = Before \cup {"new"}
        BY <1>0 DEF Before
      <4> QED BY <3>2, <4>1, <4>2 DEF Copies
    <3> QED BY <1>0, <3>1, <3>2
  <2> QED BY <1>0, <1>01, <2>1, <2>2 DEF DiskInv, Analysed
<1>5. CASE InspectFile
  <2> DEFINE Same == disk' = disk /\ stored' = stored /\ fault' = fault
  <2>0. phase = "inspect" /\ stored = {} /\ fault = "none"
    BY <1>5 DEF InspectFile, DiskInv
  <2>1. CASE Same /\ phase' = "save" /\ which' = "new" /\ which # "new"
    <3>1. disk = Copies(Before)
      BY <1>0, <2>0, <2>1 DEF DiskInv, Before
    <3> QED BY <1>0, <1>01, <2>0, <2>1, <3>1 DEF DiskInv, Analysed
  <2>2. CASE Same /\ which = "new" /\ phase' = IF op = "compare" THEN "open" ELSE "store"
    <3>1. disk = Copies(DOMAIN input)
      BY <2>0, <2>2 DEF DiskInv
    <3>2. CASE op = "compare"
      <4>1. disk = Present
        BY <3>1, <3>2 DEF Present
      <4> QED BY <1>0, <1>01, <2>0, <2>2, <3>2, <4>1 DEF DiskInv, Analysed
    <3>3. CASE op # "compare"
      BY <1>0, <1>01, <2>0, <2>2, <3>1, <3>3 DEF DiskInv, Analysed
    <3> QED BY <3>2, <3>3
  <2>3. \/ /\ Same
           /\ IF which # "new" THEN GoOn("save", "new")
              ELSE IF op = "compare" THEN GoOn("open", FirstSide) ELSE GoOn("store", FirstSide)
        \/ Refuse
    BY <1>5 DEF InspectFile
  <2> QED BY <1>1, <2>0, <2>1, <2>2, <2>3 DEF GoOn
<1>6. CASE Store
  <2>1. /\ phase = "store" /\ phase' = "open" /\ disk' = disk \cup {<<"kept", s>> : s \in DOMAIN input}
        /\ stored' = (IF op = "batch" THEN DOMAIN input ELSE stored) /\ fault' = fault
    BY <1>6 DEF Store, GoOn
  <2>2. {<<"kept", s>> : s \in DOMAIN input} = {"kept"} \X DOMAIN input
    OBVIOUS
  <2>3. disk = Copies(DOMAIN input) /\ op # "compare" /\ stored = {} /\ fault = "none"
    BY <2>1 DEF DiskInv
  <2>4. disk' = Present
    BY <2>1, <2>2, <2>3 DEF Present
  <2> QED BY <1>0, <1>01, <2>1, <2>3, <2>4 DEF DiskInv, Analysed
<1>7. CASE SaveFails \/ InspectionTimesOut
  BY <1>1, <1>7 DEF SaveFails, InspectionTimesOut, DiskInv
<1>8. ASSUME phase' = "refused", disk' = {}, fault' = "answer" \/ stored' = {}
      PROVE  DiskInv'
  BY <1>8 DEF DiskInv, Analysed
<1>9. CASE StoreFails
  <2>1. /\ phase' = "refused" /\ disk' = disk \ (Own \cup Earlier) /\ phase = "store"
        /\ stored' = stored \/ fault' = "answer"
    BY <1>9 DEF StoreFails, Refuse, Withdraw, LoseAnswer, GoOn
  <2> QED BY <1>03, <1>05, <1>8, <2>1 DEF DiskInv
<1>10. CASE WriteReport
  <2>1. /\ phase = "keep" /\ op = "upload" /\ phase' = "row" /\ disk' = disk \cup {Report}
        /\ stored' = stored /\ fault' = fault
    BY <1>10 DEF WriteReport, GoOn
  <2>2. Report' = Report
    BY DEF Report
  <2> QED BY <1>0, <1>01, <2>1, <2>2 DEF DiskInv, Analysed
<1>11. CASE ReportFails
  <2>1. /\ phase = "keep" /\ op = "upload" /\ phase' = "refused" /\ fault' = "report"
        /\ stored' = stored
    BY <1>11 DEF ReportFails, GoOn
  <2>2. PICK left \in SUBSET {Report} : disk' = (disk \ (Own \cup Earlier)) \cup left
    BY <1>11 DEF ReportFails
  <2>3. disk' = left
    BY <1>03, <1>05, <2>1, <2>2
  <2>4. stored = {}
    BY <2>1 DEF DiskInv
  <2>5. disk' \in {{}, {Report}} /\ Report' = Report
    BY <2>3 DEF Report
  <2> QED BY <2>1, <2>4, <2>5 DEF DiskInv, Analysed
<1>12. CASE Keep
  <2>1. /\ phase = (IF op = "upload" THEN "row" ELSE "keep") /\ phase' = "done"
        /\ disk' = disk \ Temps /\ fault' = fault
        /\ stored' = IF op = "upload" THEN DOMAIN input ELSE stored
    BY <1>12 DEF Keep, AboutToKeep, GoOn
  <2>2. /\ fault' = "none"
        /\ stored' = IF op = "compare" THEN {} ELSE DOMAIN input
    BY <1>0, <2>1 DEF DiskInv
  <2>3. RowFiles' = IF op = "compare" THEN {}
                    ELSE IF op = "batch" THEN {"kept"} \X DOMAIN input
                    ELSE ({"kept"} \X DOMAIN input) \cup {Report}
    BY <1>0, <2>2 DEF RowFiles, Report
  <2>4. Copies(DOMAIN input) \ Temps = IF op = "batch" THEN {"kept"} \X DOMAIN input ELSE {}
    BY <1>0 DEF Copies, Copy, Temps, Sides
  <2>5. /\ ({"kept"} \X DOMAIN input) \ Temps = {"kept"} \X DOMAIN input
        /\ {Report} \ Temps = {Report}
    BY DEF Temps, Report
  <2>6. disk = IF op = "upload" THEN Present \cup {Report} ELSE Present
    BY <2>1 DEF DiskInv
  <2>7. disk' = RowFiles'
    <3>1. CASE op = "compare"
      <4>1. disk = Copies(DOMAIN input)
        BY <2>6, <3>1 DEF Present
      <4> QED BY <2>1, <2>3, <2>4, <3>1, <4>1
    <3>2. CASE op = "batch"
      <4>1. disk = Copies(DOMAIN input) \cup ({"kept"} \X DOMAIN input)
        BY <2>6, <3>2 DEF Present
      <4> QED BY <2>1, <2>3, <2>4, <2>5, <3>2, <4>1
    <3>3. CASE op = "upload"
      <4>1. disk = (Copies(DOMAIN input) \cup ({"kept"} \X DOMAIN input)) \cup {Report}
        BY <2>6, <3>3 DEF Present
      <4> QED BY <2>1, <2>3, <2>4, <2>5, <3>3, <4>1
    <3> QED BY <1>0, <3>1, <3>2, <3>3
  <2> QED BY <1>0, <2>1, <2>2, <2>7 DEF DiskInv, Analysed
<1>13. CASE KeepFails
  <2>1. /\ phase' = "refused" /\ disk' = disk \ (Own \cup Earlier \cup {Report})
        /\ phase \in {"keep", "row"} /\ op # "batch"
        /\ stored' = stored \/ fault' = "answer"
    BY <1>13 DEF KeepFails, AboutToKeep, Withdraw, LoseAnswer, GoOn
  <2>2. stored = {}
    BY <2>1 DEF DiskInv
  <2>3. disk' = {}
    BY <1>03, <1>04, <2>1
  <2> QED BY <1>8, <2>1, <2>2, <2>3
<1>14. CASE Analyse
  <2>1. /\ phase \in Analysed /\ phase' \in Analysed \cup {"keep"}
        /\ disk' = disk /\ stored' = stored /\ fault' = fault
    BY <1>14, AnalysisMoves DEF Analyse
  <2> QED BY <1>0, <1>01, <2>1 DEF DiskInv, Analysed
<1>15. CASE UNCHANGED vars
  <2>1. /\ phase' = phase /\ which' = which /\ disk' = disk /\ stored' = stored /\ fault' = fault
    BY <1>15 DEF vars, analysis
  <2>2. RowFiles' = RowFiles /\ Report' = Report
    BY <1>0, <2>1 DEF RowFiles, Report
  <2> QED BY <1>0, <1>01, <2>1, <2>2 DEF DiskInv
<1> QED BY <1>3, <1>4, <1>5, <1>6, <1>7, <1>9, <1>10, <1>11, <1>12, <1>13, <1>14, <1>15 DEF Next

(* Of a request that is refused, wherever it fails, no file stays on the   *)
(* disk, but for what there is of an upload's report that could not be     *)
(* written; unless the answer of a commit is lost no file is removed that  *)
(* a row names; what is analysed is there until the analysis is over; and  *)
(* of a request that succeeds just those files stay that a row names.      *)
THEOREM NothingStays == Spec => []NothingLeftBehind
<1>1. Init => SidesInv /\ DiskInv
  BY SidesInit
<1>2. SidesInv /\ DiskInv /\ [Next]_vars => (SidesInv /\ DiskInv)'
  BY SidesStep, DiskStep
<1>3. SidesInv /\ DiskInv => NothingLeftBehind
  <2> SUFFICES ASSUME SidesInv, DiskInv PROVE NothingLeftBehind
    OBVIOUS
  <2>1. phase = "refused" => disk = {} \/ (fault = "report" /\ stored = {} /\ disk = {Report})
    BY DEF DiskInv
  <2>2. ASSUME fault # "answer" PROVE RowFiles \subseteq disk
    <3>1. stored = {} => RowFiles = {}
      BY DEF RowFiles
    <3>2. CASE phase \in Analysed \cup {"keep"} /\ op = "batch"
      <4>1. RowFiles = {"kept"} \X DOMAIN input /\ disk = Present
        BY <3>2 DEF DiskInv, RowFiles
      <4> QED BY <3>2, <4>1 DEF Present
    <3>3. CASE phase = "done"
      BY <3>3 DEF DiskInv
    <3>4. CASE ~(phase \in Analysed \cup {"keep"} /\ op = "batch") /\ phase # "done"
      BY <2>2, <3>1, <3>4 DEF DiskInv, SidesInv, Phases, Analysed
    <3> QED BY <3>2, <3>3, <3>4
  <2>3. ASSUME phase \in {"open", "sheets", "items"}
        PROVE  which \in {d[2] : d \in disk \cap (IF op = "compare" THEN Temps ELSE Kept)}
    <3>1. which \in DOMAIN input /\ which \in Sides /\ disk = Present
      BY <2>3 DEF SidesInv, Sides, DiskInv, Analysed
    <3>2. CASE op = "compare"
      <4>1. <<"temp", which>> \in disk \cap Temps
        BY <3>1, <3>2 DEF Present, Copies, Copy, Temps
      <4> QED BY <3>2, <4>1
    <3>3. CASE op # "compare"
      <4>1. <<"kept", which>> \in disk \cap Kept
        BY <3>1, <3>3 DEF Present, Kept
      <4> QED BY <3>3, <4>1
    <3> QED BY <3>2, <3>3
  <2>4. phase = "done" => disk = RowFiles /\ stored = IF op = "compare" THEN {} ELSE DOMAIN input
    BY DEF DiskInv
  <2> QED BY <2>1, <2>2, <2>3, <2>4 DEF NothingLeftBehind
<1> QED BY <1>1, <1>2, <1>3, PTL DEF Spec

-----------------------------------------------------------------------------
(* Sums over finite sets.  MapThenSumSet is a fold, that is, a recursive   *)
(* function on the subsets of a set; that it is defined at all, and does   *)
(* not depend on the order of the elements, follows from a least subset    *)
(* that would be an exception.                                             *)

LEMMA LeastSubset ==
    ASSUME NEW S, IsFiniteSet(S), NEW Bad, Bad \subseteq SUBSET S, Bad # {}
    PROVE  \E T \in Bad : \A U \in Bad : U \subseteq T => U = T
<1>1. FiniteSubsetsOf(S) = SUBSET S
  BY FS_FiniteSubsetsOfFinite
<1>2. IsWellFoundedOn(StrictSubsetOrdering(S), SUBSET S)
  BY <1>1, FS_StrictSubsetOrderingWellFounded
<1>3. PICK T \in Bad : \A U \in Bad : ~ (<<U, T>> \in StrictSubsetOrdering(S))
  BY <1>2, WFMin
<1> QED BY <1>3 DEF StrictSubsetOrdering

First(s) == CHOOSE x \in s : TRUE

(* h is the sum of g over each subset of S.                                *)
Sums(h, g, S) ==
    h = [s \in SUBSET S |-> IF s = {} THEN 0 ELSE g[First(s)] + h[s \ {First(s)}]]

Total(g, S) == (CHOOSE h : Sums(h, g, S))[S]

LEMMA FirstIn == ASSUME NEW s, s # {} PROVE First(s) \in s
BY DEF First

LEMMA SumsAt ==
    ASSUME NEW S, NEW g, NEW h, Sums(h, g, S), NEW s \in SUBSET S
    PROVE  h[s] = IF s = {} THEN 0 ELSE g[First(s)] + h[s \ {First(s)}]
<1>1. h = [t \in SUBSET S |-> IF t = {} THEN 0 ELSE g[First(t)] + h[t \ {First(t)}]]
  BY DEF Sums
<1> DEFINE k == [t \in SUBSET S |-> IF t = {} THEN 0 ELSE g[First(t)] + h[t \ {First(t)}]]
<1>2. k[s] = IF s = {} THEN 0 ELSE g[First(s)] + h[s \ {First(s)}]
  OBVIOUS
<1>3. h = k
  BY <1>1
<1> HIDE DEF k
<1> QED BY <1>2, <1>3

LEMMA SumsAgree ==
    ASSUME NEW S, IsFiniteSet(S), NEW T \in SUBSET S, NEW g, NEW h, NEW k,
           Sums(h, g, S), Sums(k, g, T)
    PROVE  \A s \in SUBSET T : h[s] = k[s]
<1> DEFINE Bad == {s \in SUBSET T : h[s] # k[s]}
<1> SUFFICES ASSUME Bad # {} PROVE FALSE
  OBVIOUS
<1>1. IsFiniteSet(T)
  BY FS_Subset
<1>2. PICK s \in Bad : \A u \in Bad : u \subseteq s => u = s
  <2>1. Bad \subseteq SUBSET T
    OBVIOUS
  <2> HIDE DEF Bad
  <2> QED BY <1>1, <2>1, LeastSubset
<1>3. s \in SUBSET S /\ s \in SUBSET T
  OBVIOUS
<1>4. s # {}
  <2>1. s = {} => h[s] = 0
    BY <1>3, SumsAt
  <2>2. s = {} => k[s] = 0
    BY <1>3, SumsAt
  <2>3. h[s] # k[s]
    OBVIOUS
  <2> HIDE DEF Bad
  <2> QED BY <2>1, <2>2, <2>3
<1>5. First(s) \in s
  BY <1>4, FirstIn
<1>6. h[s \ {First(s)}] = k[s \ {First(s)}]
  BY <1>2, <1>5
<1>7. h[s] = g[First(s)] + h[s \ {First(s)}]
  <2>1. h[s] = IF s = {} THEN 0 ELSE g[First(s)] + h[s \ {First(s)}]
    <3> HIDE DEF Bad
    <3> QED BY <1>3, SumsAt
  <2> QED BY <1>4, <2>1
<1>8. k[s] = g[First(s)] + k[s \ {First(s)}]
  BY <1>3, <1>4, SumsAt
<1>9. h[s] # k[s]
  OBVIOUS
<1> QED BY <1>6, <1>7, <1>8, <1>9

LEMMA SumsExist ==
    ASSUME NEW S, IsFiniteSet(S), NEW g
    PROVE  \E h : Sums(h, g, S)
<1> DEFINE Bad == {T \in SUBSET S : ~ \E h : Sums(h, g, T)}
<1> SUFFICES ASSUME Bad # {} PROVE FALSE
  OBVIOUS
<1>1. PICK T \in Bad : \A U \in Bad : U \subseteq T => U = T
  <2>1. Bad \subseteq SUBSET S
    OBVIOUS
  <2> HIDE DEF Bad
  <2> QED BY <2>1, LeastSubset
<1> DEFINE H(U) == CHOOSE h : Sums(h, g, U)
<1>2. \A U \in SUBSET T : U # T => Sums(H(U), g, U)
  BY <1>1
<1>3. T \in SUBSET S /\ IsFiniteSet(T)
  BY FS_Subset
<1> DEFINE h == [s \in SUBSET T |-> IF s = {} THEN 0
                                    ELSE g[First(s)] + H(s \ {First(s)})[s \ {First(s)}]]
<1>4. ASSUME NEW s \in SUBSET T, s # T
      PROVE  h[s] = H(s)[s]
  <2>1. Sums(H(s), g, s)
    BY <1>2, <1>4
  <2> HIDE DEF H
  <2>2. H(s)[s] = IF s = {} THEN 0 ELSE g[First(s)] + H(s)[s \ {First(s)}]
    BY <2>1, SumsAt
  <2>3. CASE s = {}
    BY <2>2, <2>3
  <2>4. CASE s # {}
    <3>1. First(s) \in s
      BY <2>4, FirstIn
    <3>2. Sums(H(s \ {First(s)}), g, s \ {First(s)})
      BY <1>2, <3>1
    <3>3. IsFiniteSet(s)
      BY <1>3, FS_Subset
    <3>4. H(s)[s \ {First(s)}] = H(s \ {First(s)})[s \ {First(s)}]
      BY <2>1, <3>2, <3>3, SumsAgree
    <3>5. h[s] = g[First(s)] + H(s \ {First(s)})[s \ {First(s)}]
      BY <2>4
    <3> QED BY <2>2, <2>4, <3>4, <3>5
  <2> QED BY <2>3, <2>4
<1>5. ASSUME NEW s \in SUBSET T, s # {}
      PROVE  h[s \ {First(s)}] = H(s \ {First(s)})[s \ {First(s)}]
  <2>1. First(s) \in s
    BY <1>5, FirstIn
  <2> HIDE DEF h, H
  <2> QED BY <1>4, <2>1
<1>6. Sums(h, g, T)
  <2>1. h = [s \in SUBSET T |-> IF s = {} THEN 0 ELSE g[First(s)] + h[s \ {First(s)}]]
    <3>1. h = [s \in SUBSET T |-> h[s]]
      OBVIOUS
    <3>2. ASSUME NEW s \in SUBSET T
          PROVE  h[s] = IF s = {} THEN 0 ELSE g[First(s)] + h[s \ {First(s)}]
      <4>1. h[s] = IF s = {} THEN 0 ELSE g[First(s)] + H(s \ {First(s)})[s \ {First(s)}]
        OBVIOUS
      <4> HIDE DEF h, H
      <4> QED BY <1>5, <4>1
    <3> HIDE DEF h
    <3> QED BY <3>1, <3>2
  <2> HIDE DEF h
  <2> QED BY <2>1 DEF Sums
<1> QED BY <1>6

LEMMA TotalStep ==
    ASSUME NEW S, IsFiniteSet(S), NEW g
    PROVE  Total(g, S) = IF S = {} THEN 0 ELSE g[First(S)] + Total(g, S \ {First(S)})
<1> DEFINE h == CHOOSE k : Sums(k, g, S)
           k == CHOOSE j : Sums(j, g, S \ {First(S)})
<1>1. Sums(h, g, S)
  BY SumsExist
<1>2. IsFiniteSet(S \ {First(S)})
  BY FS_Subset
<1>3. Sums(k, g, S \ {First(S)})
  BY <1>2, SumsExist
<1>4. h[S \ {First(S)}] = k[S \ {First(S)}]
  <2> HIDE DEF h, k
  <2> QED BY <1>1, <1>3, SumsAgree
<1>5. h[S] = IF S = {} THEN 0 ELSE g[First(S)] + h[S \ {First(S)}]
  <2> HIDE DEF h
  <2> QED BY <1>1, SumsAt
<1>6. Total(g, S) = h[S] /\ Total(g, S \ {First(S)}) = k[S \ {First(S)}]
  BY DEF Total
<1> HIDE DEF h, k
<1> QED BY <1>4, <1>5, <1>6

LEMMA TotalInt ==
    ASSUME NEW S, IsFiniteSet(S), NEW g, \A x \in S : g[x] \in Int
    PROVE  Total(g, S) \in Int
<1> DEFINE Bad == {T \in SUBSET S : Total(g, T) \notin Int}
<1> SUFFICES ASSUME Bad # {} PROVE FALSE
  OBVIOUS
<1>1. PICK T \in Bad : \A U \in Bad : U \subseteq T => U = T
  <2>1. Bad \subseteq SUBSET S
    OBVIOUS
  <2> HIDE DEF Bad
  <2> QED BY <2>1, LeastSubset
<1>2. IsFiniteSet(T)
  BY FS_Subset
<1>3. Total(g, T) = IF T = {} THEN 0 ELSE g[First(T)] + Total(g, T \ {First(T)})
  BY <1>2, TotalStep
<1>4. T # {} => First(T) \in T
  BY FirstIn
<1>5. T # {} => Total(g, T \ {First(T)}) \in Int
  BY <1>1, <1>4
<1>6. T # {} => g[First(T)] \in Int
  BY <1>4
<1> QED BY <1>3, <1>5, <1>6

(* Any element may be added first.                                         *)
LEMMA TotalWithout ==
    ASSUME NEW S, IsFiniteSet(S), NEW g, \A x \in S : g[x] \in Int, NEW e \in S
    PROVE  Total(g, S) = g[e] + Total(g, S \ {e})
<1> DEFINE Bad == {T \in SUBSET S : \E x \in T : Total(g, T) # g[x] + Total(g, T \ {x})}
<1> SUFFICES ASSUME Bad # {} PROVE FALSE
  OBVIOUS
<1>1. PICK T \in Bad : \A U \in Bad : U \subseteq T => U = T
  <2>1. Bad \subseteq SUBSET S
    OBVIOUS
  <2> HIDE DEF Bad
  <2> QED BY <2>1, LeastSubset
<1>2. PICK x \in T : Total(g, T) # g[x] + Total(g, T \ {x})
  OBVIOUS
<1> DEFINE y == First(T)
<1>3. y \in T
  BY FirstIn
<1>4. IsFiniteSet(T) /\ IsFiniteSet(T \ {x}) /\ IsFiniteSet((T \ {x}) \ {y})
  BY FS_Subset
<1>5. Total(g, T) = g[y] + Total(g, T \ {y})
  BY <1>3, <1>4, TotalStep
<1>6. y # x
  BY <1>2, <1>5
<1> HIDE DEF y
<1>0. ASSUME NEW z \in T PROVE T \ {z} \in SUBSET S /\ T \ {z} \notin Bad
  <2>1. T \ {z} \subseteq T /\ T \ {z} # T
    OBVIOUS
  <2> QED BY <1>1, <2>1
<1>7. Total(g, T \ {y}) = g[x] + Total(g, (T \ {y}) \ {x})
  <2>1. T \ {y} \in SUBSET S /\ T \ {y} \notin Bad /\ x \in T \ {y}
    BY <1>0, <1>3, <1>6
  <2> QED BY <2>1
<1>8. Total(g, T \ {x}) = g[y] + Total(g, (T \ {x}) \ {y})
  <2>1. T \ {x} \in SUBSET S /\ T \ {x} \notin Bad /\ y \in T \ {x}
    BY <1>0, <1>3, <1>6
  <2> QED BY <2>1
<1>9. (T \ {x}) \ {y} = (T \ {y}) \ {x}
  OBVIOUS
<1>10. Total(g, (T \ {x}) \ {y}) \in Int /\ g[x] \in Int /\ g[y] \in Int
  <2>0. T \subseteq S
    OBVIOUS
  <2> HIDE DEF Bad
  <2>1. g[x] \in Int /\ g[y] \in Int /\ \A z \in (T \ {x}) \ {y} : g[z] \in Int
    BY <1>3, <2>0
  <2> QED BY <1>4, <2>1, TotalInt
<1>11. \A a, b, c \in Int : a + (b + c) = b + (a + c)
  OBVIOUS
<1>12. Total(g, T) = g[y] + (g[x] + Total(g, (T \ {x}) \ {y}))
  BY <1>5, <1>7, <1>9
<1>13. g[x] + Total(g, T \ {x}) = g[x] + (g[y] + Total(g, (T \ {x}) \ {y}))
  BY <1>8
<1> HIDE DEF Bad
<1> QED BY <1>2, <1>10, <1>11, <1>12, <1>13
-----------------------------------------------------------------------------
(* Going through the entries of an archive.  FoldLeft is a recursive       *)
(* function too, on sets of positions, which takes the last position out.  *)

(* The name keeps the inclusion out of the provers' sight.                 *)
Whole(S) == S \subseteq Int

LEMMA MaxIn ==
    ASSUME NEW S, IsFiniteSet(S), Whole(S), S # {}
    PROVE  Max(S) \in S /\ \A x \in S : x <= Max(S)
<1> SUFFICES \E m \in S : \A x \in S : m >= x
  BY DEF Max
<1> DEFINE Bad == {T \in SUBSET S : T # {} /\ ~ \E m \in T : \A x \in T : m >= x}
<1> SUFFICES ASSUME Bad # {} PROVE FALSE
  OBVIOUS
<1>1. PICK T \in Bad : \A U \in Bad : U \subseteq T => U = T
  <2>1. Bad \subseteq SUBSET S
    OBVIOUS
  <2> HIDE DEF Bad
  <2> QED BY <2>1, LeastSubset
<1>2. PICK x \in T : TRUE
  OBVIOUS
<1>0. x \in Int
  BY <1>2 DEF Whole
<1>3. T \ {x} # {}
  BY <1>0, <1>2
<1>4. PICK m \in T \ {x} : \A y \in T \ {x} : m >= y
  <2>1. T \ {x} \in SUBSET S /\ T \ {x} \subseteq T /\ T \ {x} # T
    BY <1>2
  <2>2. T \ {x} \notin Bad
    <3> HIDE DEF Bad
    <3> QED BY <1>1, <2>1
  <2> QED BY <1>3, <2>1, <2>2
<1>5. T \subseteq Int /\ ~ \E n \in T : \A y \in T : n >= y
  BY DEF Whole
<1>6. CASE x <= m
  BY <1>2, <1>4, <1>5, <1>6
<1>7. CASE ~ (x <= m)
  BY <1>2, <1>4, <1>5, <1>7
<1> QED BY <1>6, <1>7

Seens(h, es, limits, S) ==
    h = [s \in SUBSET S |-> IF s = {} THEN NothingSeen
                            ELSE See(h[s \ {Max(s)}], es[Max(s)], limits)]

SeenIn(es, limits, S) == (CHOOSE h : Seens(h, es, limits, S))[S]

LEMMA FoldIsSeenIn ==
    ASSUME NEW es, NEW limits
    PROVE  FoldLeft(LAMBDA s, e : See(s, e, limits), NothingSeen, es) = SeenIn(es, limits, DOMAIN es)
  BY DEF FoldLeft, MapThenFoldSet, SeenIn, Seens

LEMMA SeensAt ==
    ASSUME NEW S, NEW es, NEW limits, NEW h, Seens(h, es, limits, S), NEW s \in SUBSET S
    PROVE  h[s] = IF s = {} THEN NothingSeen ELSE See(h[s \ {Max(s)}], es[Max(s)], limits)
<1> DEFINE k == [t \in SUBSET S |-> IF t = {} THEN NothingSeen
                                    ELSE See(h[t \ {Max(t)}], es[Max(t)], limits)]
<1>1. h = k
  BY DEF Seens
<1>2. k[s] = IF s = {} THEN NothingSeen ELSE See(h[s \ {Max(s)}], es[Max(s)], limits)
  OBVIOUS
<1> HIDE DEF k
<1> QED BY <1>1, <1>2

LEMMA SeensAgree ==
    ASSUME NEW S, IsFiniteSet(S), Whole(S), NEW T \in SUBSET S, NEW es, NEW limits,
           NEW h, NEW k, Seens(h, es, limits, S), Seens(k, es, limits, T)
    PROVE  \A s \in SUBSET T : h[s] = k[s]
<1> DEFINE Bad == {s \in SUBSET T : h[s] # k[s]}
<1> SUFFICES ASSUME Bad # {} PROVE FALSE
  OBVIOUS
<1>1. IsFiniteSet(T)
  BY FS_Subset
<1>2. PICK s \in Bad : \A u \in Bad : u \subseteq s => u = s
  <2>1. Bad \subseteq SUBSET T
    OBVIOUS
  <2> HIDE DEF Bad
  <2> QED BY <1>1, <2>1, LeastSubset
<1>3. s \in SUBSET S /\ s \in SUBSET T /\ h[s] # k[s]
  OBVIOUS
<1>4. h[s] = IF s = {} THEN NothingSeen ELSE See(h[s \ {Max(s)}], es[Max(s)], limits)
  <2> HIDE DEF Bad
  <2> QED BY <1>3, SeensAt
<1>8. k[s] = IF s = {} THEN NothingSeen ELSE See(k[s \ {Max(s)}], es[Max(s)], limits)
  <2> HIDE DEF Bad
  <2> QED BY <1>3, SeensAt
<1>5. s # {}
  BY <1>3, <1>4, <1>8
<1>6. Max(s) \in s
  <2>1. IsFiniteSet(s) /\ Whole(s)
    BY <1>1, <1>3, FS_Subset DEF Whole
  <2> HIDE DEF Bad
  <2> QED BY <1>5, <2>1, MaxIn
<1>7. h[s \ {Max(s)}] = k[s \ {Max(s)}]
  BY <1>2, <1>6
<1> QED BY <1>3, <1>4, <1>7, <1>8

LEMMA SeensExist ==
    ASSUME NEW S, IsFiniteSet(S), Whole(S), NEW es, NEW limits
    PROVE  \E h : Seens(h, es, limits, S)
<1> DEFINE Bad == {T \in SUBSET S : ~ \E h : Seens(h, es, limits, T)}
<1> SUFFICES ASSUME Bad # {} PROVE FALSE
  OBVIOUS
<1>1. PICK T \in Bad : \A U \in Bad : U \subseteq T => U = T
  <2>1. Bad \subseteq SUBSET S
    OBVIOUS
  <2> HIDE DEF Bad
  <2> QED BY <2>1, LeastSubset
<1> DEFINE H(U) == CHOOSE h : Seens(h, es, limits, U)
           h    == [s \in SUBSET T |->
                      IF s = {} THEN NothingSeen
                      ELSE See(H(s \ {Max(s)})[s \ {Max(s)}], es[Max(s)], limits)]
<1>2. \A U \in SUBSET T : U # T => Seens(H(U), es, limits, U)
  BY <1>1
<1>3. T \in SUBSET S /\ IsFiniteSet(T) /\ Whole(T)
  BY FS_Subset DEF Whole
<1>4. ASSUME NEW s \in SUBSET T, s # {} PROVE Max(s) \in s /\ s \ {Max(s)} \in SUBSET T
  <2>1. IsFiniteSet(s) /\ Whole(s)
    BY <1>3, FS_Subset DEF Whole
  <2> HIDE DEF Bad
  <2> QED BY <1>4, <2>1, MaxIn
<1>5. ASSUME NEW s \in SUBSET T, s # T
      PROVE  h[s] = H(s)[s]
  <2>1. Seens(H(s), es, limits, s)
    BY <1>2, <1>5
  <2>2. h[s] = IF s = {} THEN NothingSeen
               ELSE See(H(s \ {Max(s)})[s \ {Max(s)}], es[Max(s)], limits)
    OBVIOUS
  <2> HIDE DEF H, h, Bad
  <2>3. H(s)[s] = IF s = {} THEN NothingSeen ELSE See(H(s)[s \ {Max(s)}], es[Max(s)], limits)
    BY <2>1, SeensAt
  <2>4. CASE s # {}
    <3>1. Max(s) \in s
      BY <1>4, <2>4
    <3>2. Seens(H(s \ {Max(s)}), es, limits, s \ {Max(s)})
      BY <1>2, <3>1
    <3>3. IsFiniteSet(s) /\ Whole(s) /\ s \ {Max(s)} \in SUBSET s
      BY <1>3, FS_Subset DEF Whole
    <3>4. H(s)[s \ {Max(s)}] = H(s \ {Max(s)})[s \ {Max(s)}]
      BY <2>1, <3>2, <3>3, SeensAgree
    <3> QED BY <2>2, <2>3, <2>4, <3>4
  <2> QED BY <2>2, <2>3, <2>4
<1>6. ASSUME NEW s \in SUBSET T
      PROVE  h[s] = IF s = {} THEN NothingSeen ELSE See(h[s \ {Max(s)}], es[Max(s)], limits)
  <2>1. h[s] = IF s = {} THEN NothingSeen
               ELSE See(H(s \ {Max(s)})[s \ {Max(s)}], es[Max(s)], limits)
    OBVIOUS
  <2>2. s # {} => h[s \ {Max(s)}] = H(s \ {Max(s)})[s \ {Max(s)}]
    <3> HIDE DEF h, H, Bad
    <3> QED BY <1>4, <1>5
  <2> HIDE DEF h, H, Bad
  <2> QED BY <2>1, <2>2
<1>7. Seens(h, es, limits, T)
  <2>1. h = [s \in SUBSET T |-> h[s]]
    OBVIOUS
  <2> HIDE DEF h, Bad
  <2> QED BY <1>6, <2>1 DEF Seens
<1> QED BY <1>7

LEMMA SeenStep ==
    ASSUME NEW S, IsFiniteSet(S), Whole(S), NEW es, NEW limits
    PROVE  SeenIn(es, limits, S) =
              IF S = {} THEN NothingSeen
              ELSE See(SeenIn(es, limits, S \ {Max(S)}), es[Max(S)], limits)
<1> DEFINE T == S \ {Max(S)}
           h == CHOOSE j : Seens(j, es, limits, S)
           k == CHOOSE j : Seens(j, es, limits, T)
<1>1. Seens(h, es, limits, S)
  BY SeensExist
<1>2. IsFiniteSet(T) /\ Whole(T) /\ T \in SUBSET S
  BY FS_Subset DEF Whole
<1>3. Seens(k, es, limits, T)
  <2> HIDE DEF T
  <2> QED BY <1>2, SeensExist
<1>4. SeenIn(es, limits, S) = h[S] /\ SeenIn(es, limits, T) = k[T]
  BY DEF SeenIn
<1> HIDE DEF h, k
<1>5. h[S] = IF S = {} THEN NothingSeen ELSE See(h[S \ {Max(S)}], es[Max(S)], limits)
  <2> HIDE DEF T
  <2>1. \A s \in SUBSET S : h[s] = IF s = {} THEN NothingSeen
                                   ELSE See(h[s \ {Max(s)}], es[Max(s)], limits)
    BY <1>1, SeensAt
  <2>2. S \in SUBSET S
    OBVIOUS
  <2> QED BY <2>1, <2>2
<1>6. h[T] = k[T]
  <2> HIDE DEF T
  <2> QED BY <1>1, <1>2, <1>3, SeensAgree
<1> QED BY <1>4, <1>5, <1>6

LEMMA SeeParts ==
    ASSUME NEW seen, NEW e, NEW limits
    PROVE  LET new == See(seen, e, limits)
               one == IF e.name = "archive" THEN 1 ELSE 0
           IN  /\ new.passes <=> /\ seen.passes /\ EntryPasses(e, limits)
                                 /\ seen.expanded + e.size <= limits.expanded
                                 /\ seen.nested + one <= limits.nested
               /\ new.expanded = seen.expanded + e.size
               /\ new.nested = seen.nested + one
               /\ new.workbook <=> (seen.workbook \/ e.name = "workbook")
               /\ new.vba <=> (seen.vba \/ e.name = "vba")
               /\ new.types = IF e.name = "types" THEN e.types ELSE seen.types
BY Zenon DEF See, Expanded

Named(es, S, n) == {k \in S : es[k].name = n}
Sizes(es)       == [k \in DOMAIN es |-> es[k].size]

(* What is known after the entries at S.                                   *)
SeenRight(es, limits, S) ==
    LET seen == SeenIn(es, limits, S)
    IN  /\ seen.expanded = Total(Sizes(es), S)
        /\ seen.nested = Cardinality(Named(es, S, "archive"))
        /\ seen.passes => \A k \in S : EntryPasses(es[k], limits)
        /\ seen.passes /\ S # {} => /\ seen.expanded <= limits.expanded
                                    /\ seen.nested <= limits.nested
        /\ seen.workbook => Named(es, S, "workbook") # {}
        /\ Named(es, S, "vba") # {} => seen.vba
        /\ seen.types = IF Named(es, S, "types") = {} THEN {}
                        ELSE es[Max(Named(es, S, "types"))].types

LEMMA SeenNothing ==
    ASSUME NEW es, NEW limits
    PROVE  SeenRight(es, limits, {})
<1>1. SeenIn(es, limits, {}) = NothingSeen
  BY FS_EmptySet, SeenStep DEF Whole
<1>2. Total(Sizes(es), {}) = 0
  BY FS_EmptySet, TotalStep
<1>3. \A n : Named(es, {}, n) = {}
  BY DEF Named
<1>4. /\ NothingSeen.passes /\ NothingSeen.expanded = 0 /\ NothingSeen.nested = 0
      /\ ~NothingSeen.workbook /\ ~NothingSeen.vba /\ NothingSeen.types = {}
  BY Zenon DEF NothingSeen
<1>5. \A k \in {} : EntryPasses(es[k], limits)
  OBVIOUS
<1> QED BY <1>1, <1>2, <1>3, <1>4, <1>5, FS_EmptySet DEF SeenRight

LEMMA SeenOneMore ==
    ASSUME NEW es \in Seq(Entries), NEW limits, NEW S, IsFiniteSet(S), Whole(S), S # {},
           S \subseteq DOMAIN es, SeenRight(es, limits, S \ {Max(S)})
    PROVE  SeenRight(es, limits, S)
<1> DEFINE m    == Max(S)
           T    == S \ {m}
           old  == SeenIn(es, limits, T)
           new  == SeenIn(es, limits, S)
           size == Sizes(es)
<1>1. m \in S /\ \A k \in S : k <= m
  BY MaxIn
<1>2. IsFiniteSet(T) /\ Whole(T) /\ T \subseteq S
  BY FS_Subset DEF Whole
<1>3. new = See(old, es[m], limits)
  BY SeenStep
<1>4. \A k \in S : es[k] \in Entries
  OBVIOUS
<1>5. \A k \in S : es[k].size \in Int /\ size[k] = es[k].size
  BY <1>4 DEF Entries, Sizes
<1>6. /\ old.expanded = Total(size, T)
      /\ old.nested = Cardinality(Named(es, T, "archive"))
      /\ old.passes => \A k \in T : EntryPasses(es[k], limits)
      /\ old.workbook => Named(es, T, "workbook") # {}
      /\ Named(es, T, "vba") # {} => old.vba
      /\ old.types = IF Named(es, T, "types") = {} THEN {}
                     ELSE es[Max(Named(es, T, "types"))].types
  BY DEF SeenRight
<1> HIDE DEF m, old, new, size
<1>7. \A n : Named(es, S, n) = Named(es, T, n) \cup (IF es[m].name = n THEN {m} ELSE {})
  BY <1>1 DEF Named
<1>8. \A n : m \notin Named(es, T, n) /\ Named(es, T, n) \subseteq T
  BY DEF Named
<1> HIDE DEF T
<1>9. \A n : IsFiniteSet(Named(es, T, n)) /\ IsFiniteSet(Named(es, S, n))
  <2>1. \A n : Named(es, S, n) \subseteq S
    BY DEF Named
  <2> QED BY <1>2, <1>8, <2>1, FS_Subset
<1> DEFINE one == IF es[m].name = "archive" THEN 1 ELSE 0
<1>10. /\ new.passes <=> /\ old.passes /\ EntryPasses(es[m], limits)
                         /\ old.expanded + es[m].size <= limits.expanded
                         /\ old.nested + one <= limits.nested
       /\ new.expanded = old.expanded + es[m].size
       /\ new.nested = old.nested + one
       /\ new.workbook <=> (old.workbook \/ es[m].name = "workbook")
       /\ new.vba <=> (old.vba \/ es[m].name = "vba")
       /\ new.types = IF es[m].name = "types" THEN es[m].types ELSE old.types
  BY <1>3, SeeParts
<1>11. new.expanded = Total(size, S)
  <2>1. Total(size, S) = size[m] + Total(size, T)
    BY <1>1, <1>5, TotalWithout DEF T
  <2>2. Total(size, T) \in Int
    BY <1>2, <1>5, TotalInt
  <2>3. size[m] \in Int /\ es[m].size = size[m]
    BY <1>1, <1>5
  <2>4. \A a, b \in Int : a + b = b + a
    OBVIOUS
  <2> QED BY <1>6, <1>10, <2>1, <2>2, <2>3, <2>4
<1>12. new.nested = Cardinality(Named(es, S, "archive"))
  <2>1. CASE es[m].name = "archive"
    BY <1>6, <1>7, <1>8, <1>9, <1>10, <2>1, FS_AddElement
  <2>2. CASE es[m].name # "archive"
    <3>1. Named(es, S, "archive") = Named(es, T, "archive")
      BY <1>7, <2>2
    <3>2. Cardinality(Named(es, T, "archive")) \in Nat
      BY <1>9, FS_CardinalityType
    <3> QED BY <1>6, <1>10, <2>2, <3>1, <3>2
  <2> QED BY <2>1, <2>2
<1>13. new.passes => \A k \in S : EntryPasses(es[k], limits)
  <2> SUFFICES ASSUME new.passes, NEW k \in S PROVE EntryPasses(es[k], limits)
    OBVIOUS
  <2>1. CASE k = m
    BY <1>10, <2>1
  <2>2. CASE k # m
    <3>1. k \in T
      BY <2>2 DEF T
    <3> QED BY <1>6, <1>10, <3>1
  <2> QED BY <2>1, <2>2
<1>14. new.passes => new.expanded <= limits.expanded /\ new.nested <= limits.nested
  BY <1>10
<1>15. new.workbook => Named(es, S, "workbook") # {}
  BY <1>6, <1>7, <1>10
<1>16. Named(es, S, "vba") # {} => new.vba
  BY <1>6, <1>7, <1>10
<1>17. new.types = IF Named(es, S, "types") = {} THEN {}
                   ELSE es[Max(Named(es, S, "types"))].types
  <2>1. CASE es[m].name = "types"
    <3> DEFINE N == Named(es, S, "types")
               x == Max(N)
    <3>1. N # {} /\ m \in N /\ N \subseteq S
      BY <1>1, <1>7, <2>1 DEF Named
    <3>2. IsFiniteSet(N) /\ Whole(N)
      BY <1>9, <3>1 DEF Whole
    <3>3. x \in N /\ m <= x
      <4> HIDE DEF N
      <4> QED BY <3>1, <3>2, MaxIn
    <3>4. x <= m /\ x \in Int /\ m \in Int
      BY <1>1, <3>1, <3>3 DEF Whole
    <3>5. x = m
      <4> HIDE DEF x, N
      <4> QED BY <3>3, <3>4
    <3> HIDE DEF x, N
    <3>6. new.types = es[x].types
      BY <1>10, <2>1, <3>5
    <3> QED BY <3>1, <3>6 DEF x, N
  <2>2. CASE es[m].name # "types"
    <3>1. Named(es, S, "types") = Named(es, T, "types")
      BY <1>7, <2>2
    <3> QED BY <1>6, <1>10, <2>2, <3>1
  <2> QED BY <2>1, <2>2
<1> QED
  <2>1. /\ new.passes /\ S # {} => new.expanded <= limits.expanded /\ new.nested <= limits.nested
    BY <1>14
  <2> USE DEF new, size
  <2> QED BY <1>11, <1>12, <1>13, <1>15, <1>16, <1>17, <2>1 DEF SeenRight

LEMMA SeenIsRight ==
    ASSUME NEW es \in Seq(Entries), NEW limits, NEW S, IsFiniteSet(S), Whole(S),
           S \subseteq DOMAIN es
    PROVE  SeenRight(es, limits, S)
<1> DEFINE Bad == {T \in SUBSET S : ~SeenRight(es, limits, T)}
<1> SUFFICES ASSUME Bad # {} PROVE FALSE
  OBVIOUS
<1>1. PICK T \in Bad : \A U \in Bad : U \subseteq T => U = T
  <2>1. Bad \subseteq SUBSET S
    OBVIOUS
  <2> HIDE DEF Bad
  <2> QED BY <2>1, LeastSubset
<1>2. T \subseteq S /\ ~SeenRight(es, limits, T)
  OBVIOUS
<1>3. IsFiniteSet(T) /\ Whole(T) /\ T \subseteq DOMAIN es
  BY <1>2, FS_Subset DEF Whole
<1>4. T # {}
  BY <1>2, SeenNothing
<1>5. Max(T) \in T
  <2> HIDE DEF Bad
  <2> QED BY <1>3, <1>4, MaxIn
<1>6. SeenRight(es, limits, T \ {Max(T)})
  <2>1. T \ {Max(T)} \in SUBSET S /\ T \ {Max(T)} \subseteq T /\ T \ {Max(T)} # T
    BY <1>2, <1>5
  <2>2. T \ {Max(T)} \notin Bad
    <3> HIDE DEF Bad
    <3> QED BY <1>1, <2>1
  <2> QED BY <2>1, <2>2
<1>7. SeenRight(es, limits, T)
  <2> HIDE DEF Bad
  <2> QED BY <1>3, <1>4, <1>6, SeenOneMore
<1> QED BY <1>2, <1>7

LEMMA SumOfSizes ==
    ASSUME NEW es
    PROVE  SumOver(DOMAIN es, LAMBDA k : es[k].size) = Total(Sizes(es), DOMAIN es)
<1>1. MapThenSumSet(LAMBDA k : es[k].size, DOMAIN es) = Total([k \in DOMAIN es |-> es[k].size], DOMAIN es)
  BY DEF MapThenSumSet, MapThenFoldSet, Total, Sums, First
<1> QED BY <1>1 DEF SumOver, Sizes

(* What decides entry by entry decides about the archive.                  *)
LEMMA ArchiveIsSound ==
    ASSUME NEW f, f.entries \in Seq(Entries), NEW limits,
           limits.files \in Nat, limits.ratio \in Nat,
           IsWorkbook(f), validateOfficeArchive(f, limits)
    PROVE  SoundArchive(f, limits)
<1> DEFINE es   == f.entries
           S    == DOMAIN es
           seen == SeenIn(es, limits, S)
<1>1. FoldLeft(LAMBDA s, e : See(s, e, limits), NothingSeen, f.entries) = seen
  BY FoldIsSeenIn
<1>2. /\ Len(es) \in 1..limits.files
      /\ seen.passes /\ seen.workbook
      /\ IF f.kind = "xlsx"
           THEN "sheet" \in seen.types /\ seen.types \cap {"macroSheet", "vba"} = {} /\ ~seen.vba
           ELSE "macroSheet" \in seen.types
  <2> DEFINE fold == FoldLeft(LAMBDA s, e : See(s, e, limits), NothingSeen, f.entries)
  <2>1. /\ Len(es) \in 1..limits.files
        /\ fold.passes /\ fold.workbook
        /\ IF f.kind = "xlsx"
             THEN "sheet" \in fold.types /\ fold.types \cap {"macroSheet", "vba"} = {} /\ ~fold.vba
             ELSE "macroSheet" \in fold.types
    BY Zenon DEF validateOfficeArchive
  <2>2. fold = seen
    BY <1>1
  <2> HIDE DEF seen, fold
  <2>3. /\ fold.passes = seen.passes /\ fold.workbook = seen.workbook
        /\ fold.types = seen.types /\ fold.vba = seen.vba
    BY <2>2
  <2> QED BY <2>1, <2>3, Zenon
<1>3. S = 1..Len(es) /\ Len(es) \in Nat
  OBVIOUS
<1>4. IsFiniteSet(S) /\ Cardinality(S) = Len(es)
  <2> HIDE DEF S, es
  <2>1. \A n \in Nat : IsFiniteSet(1..n) /\ Cardinality(1..n) = n
    <3> SUFFICES ASSUME NEW n \in Nat PROVE IsFiniteSet(1..n) /\ Cardinality(1..n) = n
      OBVIOUS
    <3>1. Cardinality(1..n) = IF 1 > n THEN 0 ELSE n - 1 + 1
      BY FS_Interval
    <3>2. IsFiniteSet(1..n)
      BY FS_Interval
    <3> QED BY <3>1, <3>2
  <2> QED BY <1>3, <2>1
<1>5. Whole(S)
  BY <1>3 DEF Whole
<1>6. SeenRight(es, limits, S)
  <2> HIDE DEF S
  <2> QED BY <1>4, <1>5, SeenIsRight DEF S
<1>7. \A k \in S : es[k] \in Entries
  OBVIOUS
<1>8. SumOver(S, LAMBDA k : f.entries[k].size) = Total(Sizes(es), S)
  BY SumOfSizes
<1>9. /\ seen.expanded = Total(Sizes(es), S)
      /\ seen.nested = Cardinality(Named(es, S, "archive"))
      /\ \A k \in S : EntryPasses(es[k], limits)
      /\ seen.expanded <= limits.expanded /\ seen.nested <= limits.nested
      /\ Named(es, S, "workbook") # {}
      /\ Named(es, S, "vba") # {} => seen.vba
      /\ seen.types = IF Named(es, S, "types") = {} THEN {}
                      ELSE es[Max(Named(es, S, "types"))].types
  <2>1. S # {}
    BY <1>2, <1>3
  <2> HIDE DEF S, es
  <2>2. SeenRight(es, limits, S) /\ seen.passes /\ seen.workbook
    BY <1>2, <1>6
  <2> QED BY <2>1, <2>2 DEF SeenRight
<1> HIDE DEF seen
<1>10. \A k \in S : /\ es[k].size <= limits.entry
                    /\ es[k].size <= limits.ratio * es[k].packed
                    /\ es[k].name # "unsafe"
  <2> SUFFICES ASSUME NEW k \in S
               PROVE  /\ es[k].size <= limits.entry
                      /\ es[k].size <= limits.ratio * es[k].packed
                      /\ es[k].name # "unsafe"
    OBVIOUS
  <2>1. es[k].size \in Nat /\ es[k].packed \in Nat
    BY <1>7 DEF Entries
  <2>2. EntryPasses(es[k], limits)
    BY <1>9
  <2>3. \A a, b \in Nat : a * b \in Nat
    OBVIOUS
  <2>4. limits.ratio * es[k].packed \in Nat
    BY <2>1, <2>3
  <2> HIDE DEF es
  <2> QED BY <2>1, <2>2, <2>4 DEF EntryPasses
<1>11. Named(es, S, "unsafe") = {}
  BY <1>10 DEF Named
<1>12. Named(es, S, "types") # {}
  BY <1>2, <1>9
<1>13. /\ f.kind = "xlsx" <=> "macroSheet" \notin es[Max(Named(es, S, "types"))].types
       /\ f.kind = "xlsx" => Named(es, S, "vba") = {}
  BY <1>2, <1>9, <1>12
<1>14. Cardinality(S) <= limits.files
  BY <1>2, <1>4
<1> QED
  <2> DEFINE N(n) == {k \in S : es[k].name = n}
  <2>1. \A n : Named(es, S, n) = N(n)
    BY DEF Named
  <2> HIDE DEF S, es
  <2> QED BY <1>8, <1>9, <1>10, <1>11, <1>12, <1>13, <1>14, <2>1 DEF SoundArchive, S, es
-----------------------------------------------------------------------------
(* What has passed the inspection                                          *)

SettingsInv ==
    /\ {settings.enabled, settings.failOpen} \subseteq Switches
    /\ \A x \in DOMAIN DefaultLimits : settings.limits[x] \in Int

Passed(s) ==
    /\ s \in DOMAIN input
    /\ input[s].size \in 1..MaxSize
    /\ answers[s] \in Answers(input[s], settings)
    /\ inspectUploadedFile(input[s], settings, answers[s])

PassedInv ==
    /\ \A s \in DOMAIN answers : Passed(s)
    /\ phase \notin {"form", "refused"} => form = Confirmations
    /\ phase \in {"form", "save", "inspect"} =>
          DOMAIN answers = IF which = "base" THEN {} ELSE IF phase = "form" THEN {} ELSE Before
    /\ phase = "inspect" => file.size \in 1..MaxSize
    /\ phase \in {"store", "keep", "row", "done"} \cup Analysed => DOMAIN answers = DOMAIN input

(* What no step changes.                                                   *)
LEMMA Fixed == ASSUME [Next]_vars PROVE settings' = settings /\ form' = form
<1> USE DEF GoOn, Withdraw, Refuse
<1>1. CASE CheckForm \/ SaveFile \/ SaveFails \/ InspectionTimesOut
  BY <1>1 DEF CheckForm, SaveFile, SaveFails, InspectionTimesOut
<1>2. CASE InspectFile
  <2>1. \/ GoOn("save", "new") \/ GoOn("open", FirstSide) \/ GoOn("store", FirstSide) \/ Refuse
    BY <1>2 DEF InspectFile
  <2> QED BY <2>1
<1>3. CASE Store \/ StoreFails \/ WriteReport \/ ReportFails \/ Keep \/ KeepFails
  BY <1>3 DEF Store, StoreFails, WriteReport, ReportFails, Keep, KeepFails
<1>4. CASE Analyse
  BY <1>4 DEF Analyse
<1>5. CASE UNCHANGED vars
  BY <1>5 DEF vars
<1> QED BY <1>1, <1>2, <1>3, <1>4, <1>5 DEF Next

LEMMA PassedInit == Init => SettingsInv /\ PassedInv
<1> SUFFICES ASSUME Init PROVE SettingsInv /\ PassedInv
  OBVIOUS
<1>1. PICK q \in Requests : settings = q.settings
  BY DEF Init
<1>2. SettingsInv
  BY <1>1, IntakeAssumption DEF IntakeAssumption, SettingsInv
<1>3. phase = "form" /\ answers = [s \in {} |-> ""]
  BY DEF Init
<1> QED BY <1>2, <1>3 DEF PassedInv, Analysed

LEMMA PassedStep ==
    ASSUME SidesInv, PassedInv, [Next]_vars
    PROVE  PassedInv'
<1>0. /\ input' = input /\ op' = op /\ settings' = settings /\ form' = form
      /\ DOMAIN input = IF op = "upload" THEN {"new"} ELSE {"base", "new"}
      /\ which \in DOMAIN input /\ "new" \in DOMAIN input
      /\ SidesInv' /\ Before' = Before
  BY SidesStep, Fixed DEF SidesInv, Before
<1>00. ASSUME answers' = answers PROVE \A s \in DOMAIN answers' : Passed(s)'
  BY <1>0, <1>00 DEF PassedInv, Passed
<1>1. ASSUME phase' = "refused" /\ answers' = answers PROVE PassedInv'
  <2>1. phase' = "refused" /\ answers' = answers
    BY <1>1
  <2> QED BY <1>00, <2>1 DEF PassedInv, Analysed
<1>10. ASSUME Refuse PROVE PassedInv'
  BY <1>1, <1>10 DEF Refuse, Withdraw, GoOn
<1>2. CASE CheckForm
  <2>1. CASE GoOn("save", FirstSide) /\ UNCHANGED answers /\ requireUploadConsent /\ phase = "form"
    <3>1. phase' = "save" /\ (which' = "base" \/ Before = {}) /\ DOMAIN answers = {} /\ form = Confirmations
      BY <1>0, <2>1 DEF GoOn, PassedInv, FirstSide, Before, requireUploadConsent
    <3> QED BY <1>0, <1>00, <2>1, <3>1 DEF PassedInv, Analysed
  <2> QED BY <1>10, <1>2, <2>1 DEF CheckForm
<1>3. CASE SaveFile
  <2>1. /\ phase = "save" /\ phase' = "inspect" /\ which' = which /\ answers' = answers
        /\ file.size \in 1..MaxSize
    BY <1>3 DEF SaveFile, GoOn, Savable
  <2>2. file' = file
    BY <1>0, <2>1 DEF file
  <2> QED BY <1>0, <1>00, <2>1, <2>2 DEF PassedInv, Analysed
<1>4. CASE InspectFile
  <2>1. PICK answer \in Answers(file, settings) :
           IF inspectUploadedFile(file, settings, answer)
             THEN /\ answers' = [s \in DOMAIN answers \cup {which} |->
                                   IF s = which THEN answer ELSE answers[s]]
                  /\ IF which # "new" THEN GoOn("save", "new")
                     ELSE IF op = "compare" THEN GoOn("open", FirstSide) ELSE GoOn("store", FirstSide)
             ELSE Refuse
    BY <1>4 DEF InspectFile
  <2>2. CASE /\ inspectUploadedFile(file, settings, answer)
             /\ answers' = [s \in DOMAIN answers \cup {which} |->
                              IF s = which THEN answer ELSE answers[s]]
             /\ IF which # "new" THEN GoOn("save", "new")
                ELSE IF op = "compare" THEN GoOn("open", FirstSide) ELSE GoOn("store", FirstSide)
    <3>1. phase = "inspect" /\ form = Confirmations /\ file.size \in 1..MaxSize
      BY <1>4 DEF InspectFile, PassedInv
    <3>2. DOMAIN answers = IF which = "base" THEN {} ELSE Before
      BY <3>1 DEF PassedInv
    <3>3. which \notin DOMAIN answers
      BY <1>0, <3>2 DEF Before
    <3>4. /\ DOMAIN answers' = DOMAIN answers \cup {which}
          /\ answers'[which] = answer
          /\ \A s \in DOMAIN answers : answers'[s] = answers[s]
      BY <2>2, <3>3
    <3>6. ASSUME NEW s \in DOMAIN answers' PROVE Passed(s)'
      <4>1. CASE s = which
        BY <1>0, <2>2, <3>1, <3>4, <4>1 DEF Passed, file
      <4>2. CASE s # which
        BY <1>0, <3>4, <3>6, <4>2 DEF Passed, PassedInv
      <4> QED BY <4>1, <4>2
    <3>7. CASE which # "new"
      <4>1. phase' = "save" /\ which' = "new" /\ DOMAIN answers' = Before
        BY <1>0, <2>2, <3>2, <3>4, <3>7 DEF GoOn, Before
      <4> QED BY <1>0, <3>1, <3>6, <4>1 DEF PassedInv, Analysed
    <3>8. CASE which = "new"
      <4>1. phase' \in {"open", "store"} /\ DOMAIN answers' = DOMAIN input
        BY <1>0, <2>2, <3>2, <3>4, <3>8 DEF GoOn, Before
      <4> QED BY <1>0, <3>1, <3>6, <4>1 DEF PassedInv, Analysed
    <3> QED BY <3>7, <3>8
  <2> QED BY <1>10, <2>1, <2>2
<1>5. CASE Store
  <2>1. phase = "store" /\ phase' = "open" /\ answers' = answers
    BY <1>5 DEF Store, GoOn
  <2> QED BY <1>0, <1>00, <2>1 DEF PassedInv, Analysed
<1>6. CASE SaveFails \/ InspectionTimesOut \/ StoreFails \/ ReportFails \/ KeepFails
  BY <1>1, <1>6 DEF SaveFails, InspectionTimesOut, StoreFails, ReportFails, KeepFails,
                    Refuse, Withdraw, GoOn
<1>7. CASE WriteReport \/ Keep
  <2>1. phase \in {"keep", "row"} /\ phase' \in {"row", "done"} /\ answers' = answers
    BY <1>7 DEF WriteReport, Keep, AboutToKeep, GoOn
  <2> QED BY <1>0, <1>00, <2>1 DEF PassedInv, Analysed
<1>8. CASE Analyse
  <2>1. phase \in Analysed /\ phase' \in Analysed \cup {"keep"} /\ answers' = answers
    BY <1>8, AnalysisMoves DEF Analyse
  <2> QED BY <1>0, <1>00, <2>1 DEF PassedInv, Analysed
<1>9. CASE UNCHANGED vars
  <2>1. phase' = phase /\ which' = which /\ answers' = answers
    BY <1>9 DEF vars, analysis
  <2> QED BY <1>0, <1>00, <2>1 DEF PassedInv, Analysed, file
<1> QED BY <1>2, <1>3, <1>4, <1>5, <1>6, <1>7, <1>8, <1>9 DEF Next

(* What passes the inspection is what InspectedFirst asks for.             *)
LEMMA WhatPasses ==
    ASSUME NEW f \in Files, SettingsInv, NEW answer \in Answers(f, settings),
           inspectUploadedFile(f, settings, answer)
    PROVE  /\ f.kind \in DOMAIN Signature /\ f.head.magic \in Signature[f.kind]
           /\ f.kind = "xlsm" => settings.xlsm
           /\ IsWorkbook(f) => SoundArchive(f, normalizeLimits(settings.limits))
           /\ answer # "found"
           /\ settings.production /\ settings.enabled \in {"", "true"} => answer = "clean"
<1>1. f.head.magic \in Magics /\ f.entries \in Seq(Entries) /\ f.kind \in Kinds
  BY ChecksAssumption DEF ChecksAssumption
<1>2. Validate(f, settings) /\ answer # "found" /\ (answer = "failed" => antivirusFailOpen(settings))
  BY DEF inspectUploadedFile
<1>3. f.kind \in DOMAIN Signature /\ f.head.magic \in Signature[f.kind]
  <2>1. CASE f.kind = "csv"
    <3>0. validateCSV(f)
      BY <1>2, <2>1 DEF Validate, IsWorkbook
    <3>1. f.head.magic \notin {"MZ", "zip", "pdf"}
      BY <3>0, Zenon DEF validateCSV
    <3>2. f.head.magic \in {"text", "ole"}
      BY <1>1, <3>1 DEF Magics
    <3> QED BY <2>1, <3>2 DEF Signature
  <2>2. CASE f.kind \in {"xls", "pdf"}
    BY <1>2, <2>2 DEF Validate, Signature, IsWorkbook
  <2>3. CASE f.kind \in {"xlsx", "xlsm"}
    BY <1>2, <2>3 DEF Validate, Signature, IsWorkbook
  <2>4. CASE f.kind = "other"
    BY <1>2, <2>4 DEF Validate, IsWorkbook
  <2> QED BY <1>1, <2>1, <2>2, <2>3, <2>4 DEF Kinds
<1>4. f.kind = "xlsm" => settings.xlsm
  BY <1>2 DEF Validate, IsWorkbook
<1>5. IsWorkbook(f) => SoundArchive(f, normalizeLimits(settings.limits))
  <2> SUFFICES ASSUME IsWorkbook(f) PROVE SoundArchive(f, normalizeLimits(settings.limits))
    OBVIOUS
  <2> DEFINE l == normalizeLimits(settings.limits)
  <2>1. validateOfficeArchive(f, l)
    BY <1>2 DEF Validate, IsWorkbook
  <2>2. l.files \in Nat /\ l.ratio \in Nat
    <3>1. \A x \in DOMAIN DefaultLimits : l[x] \in Nat
      BY InspectionAssumption DEF InspectionAssumption, normalizeLimits, SettingsInv
    <3> HIDE DEF l
    <3> QED BY <3>1, InspectionAssumption DEF InspectionAssumption
  <2> HIDE DEF l
  <2>3. SoundArchive(f, l)
    BY <1>1, <2>1, <2>2, ArchiveIsSound
  <2> QED BY <2>3 DEF l
<1>6. settings.production /\ settings.enabled \in {"", "true"} => answer = "clean"
  <2> SUFFICES ASSUME settings.production, settings.enabled \in {"", "true"} PROVE answer = "clean"
    OBVIOUS
  <2>1. antivirusEnabled(settings) /\ ~antivirusFailOpen(settings)
    BY DEF antivirusEnabled, antivirusFailOpen
  <2>2. answer \in {"clean", "found", "failed"}
    BY <2>1 DEF Answers, ScanClamAV
  <2> QED BY <1>2, <2>1, <2>2
<1> QED BY <1>2, <1>3, <1>4, <1>5, <1>6

(* Once a file is read, entered in the database or reported on, all files  *)
(* of its request have passed, with consent: their content is what their   *)
(* extension says, a workbook as a whole stays within the limits, and the  *)
(* scanner found nothing; in production it said so, unless it is off.      *)
THEOREM Inspected == Spec => []InspectedFirst
<1>1. Init => SidesInv /\ SettingsInv /\ PassedInv
  BY SidesInit, PassedInit
<1>2. SidesInv /\ SettingsInv /\ PassedInv /\ [Next]_vars => (SidesInv /\ SettingsInv /\ PassedInv)'
  <2>1. SettingsInv /\ [Next]_vars => SettingsInv'
    BY Fixed DEF SettingsInv
  <2> QED BY <2>1, SidesStep, PassedStep
<1>3. SidesInv /\ SettingsInv /\ PassedInv => InspectedFirst
  <2> SUFFICES ASSUME SidesInv, SettingsInv, PassedInv,
                      phase \in {"store", "keep", "row", "done"} \cup Analysed
               PROVE  InspectedFirst
    BY DEF InspectedFirst, Analysed
  <2>1. form = Confirmations /\ DOMAIN answers = DOMAIN input
    BY DEF PassedInv, Analysed
  <2>2. ASSUME NEW s \in DOMAIN input
        PROVE  LET f == input[s] IN
               /\ f.size \in 1..MaxSize
               /\ f.kind \in DOMAIN Signature /\ f.head.magic \in Signature[f.kind]
               /\ f.kind = "xlsm" => settings.xlsm
               /\ IsWorkbook(f) => SoundArchive(f, normalizeLimits(settings.limits))
               /\ s \in DOMAIN answers /\ answers[s] # "found"
               /\ settings.production /\ settings.enabled \in {"", "true"} => answers[s] = "clean"
    <3>1. Passed(s)
      BY <2>1, <2>2 DEF PassedInv
    <3>2. input[s] \in Files
      BY <2>2 DEF SidesInv
    <3>3. /\ input[s].size \in 1..MaxSize
          /\ answers[s] \in Answers(input[s], settings)
          /\ inspectUploadedFile(input[s], settings, answers[s])
      BY <3>1 DEF Passed
    <3> QED BY <2>1, <2>2, <3>2, <3>3, WhatPasses
  <2> QED BY <2>1, <2>2 DEF InspectedFirst
<1> QED BY <1>1, <1>2, <1>3, PTL DEF Spec

-----------------------------------------------------------------------------
(* Numbers and lists                                                       *)

LEMMA LeastNat ==
    ASSUME NEW Bad, Bad \subseteq Nat, Bad # {}
    PROVE  \E n \in Bad : \A m \in Bad : n <= m
<1>1. PICK last \in Bad : TRUE
  OBVIOUS
<1> DEFINE S       == 0..last
           UpTill(k) == Bad \cap (0..k)
           Starts  == {UpTill(k) : k \in Bad \cap S}
<1>2. PICK T \in Starts : \A U \in Starts : U \subseteq T => U = T
  <2>1. IsFiniteSet(S)
    BY <1>1, FS_Interval
  <2>2. last \in Bad \cap S
    BY <1>1
  <2>3. \A k \in Bad \cap S : UpTill(k) \subseteq S
    OBVIOUS
  <2> HIDE DEF S, UpTill
  <2>4. Starts \subseteq SUBSET S /\ Starts # {}
    BY <2>2, <2>3
  <2> HIDE DEF Starts
  <2> QED BY <2>1, <2>4, LeastSubset
<1>3. PICK n \in Bad \cap S : T = UpTill(n)
  OBVIOUS
<1>4. ASSUME NEW m \in Bad, m < n PROVE FALSE
  <2>1. UpTill(m) \in Starts /\ UpTill(m) \subseteq T
    BY <1>3, <1>4
  <2>2. UpTill(m) = T
    BY <1>2, <2>1
  <2>3. n \in T /\ n \notin UpTill(m)
    BY <1>3, <1>4
  <2> HIDE DEF UpTill
  <2> QED BY <2>2, <2>3
<1>5. \A m \in Bad : n <= m
  BY <1>4
<1> QED BY <1>3, <1>5

(* What holds at 0 and passes from each number to the next up to n, holds  *)
(* up to n.                                                                *)
LEMMA UpTo ==
    ASSUME NEW n \in Nat, NEW Good, 0 \in Good,
           \A k \in 0..(n - 1) : k \in Good => k + 1 \in Good
    PROVE  \A k \in 0..n : k \in Good
<1> DEFINE Bad == {k \in 0..n : k \notin Good}
<1> SUFFICES ASSUME Bad # {} PROVE FALSE
  OBVIOUS
<1>1. PICK k \in Bad : \A m \in Bad : k <= m
  <2>1. Bad \subseteq Nat
    OBVIOUS
  <2> HIDE DEF Bad
  <2> QED BY <2>1, LeastNat
<1>2. k \in 1..n /\ k \notin Good
  OBVIOUS
<1>3. k - 1 \in 0..(n - 1) /\ ~ (k <= k - 1) /\ (k - 1) + 1 = k
  BY <1>2
<1>4. k - 1 \in Good
  BY <1>1, <1>3
<1> QED BY <1>2, <1>3, <1>4

LEMMA MinIn ==
    ASSUME NEW S, S \subseteq Nat, S # {}
    PROVE  Min(S) \in S /\ \A x \in S : Min(S) <= x
<1>1. \E n \in S : \A m \in S : n <= m
  BY LeastNat
<1> QED BY <1>1 DEF Min

LEMMA ListDomain ==
    ASSUME NEW s, IsList(s)
    PROVE  Len(s) \in Nat /\ DOMAIN s = 1..Len(s)
BY LenProperties DEF IsList

LEMMA FunctionIsList ==
    ASSUME NEW s, NEW n \in Nat, s = [k \in 1..n |-> s[k]]
    PROVE  IsList(s) /\ Len(s) = n
<1> DEFINE Q == {s[k] : k \in 1..n}
<1>1. DOMAIN s = 1..n
  OBVIOUS
<1>2. ToSet(s) = Q
  BY <1>1 DEF ToSet
<1>3. s \in [1..n -> Q]
  OBVIOUS
<1> HIDE DEF Q
<1>4. s \in Seq(Q)
  BY <1>3
<1>5. Len(s) \in Nat /\ DOMAIN s = 1..Len(s)
  BY <1>4, LenProperties
<1>6. \A i, j \in Nat : 1..i = 1..j => i = j
  <2> SUFFICES ASSUME NEW i \in Nat, NEW j \in Nat, 1..i = 1..j PROVE i = j
    OBVIOUS
  <2>1. i # 0 => i \in 1..j
    OBVIOUS
  <2>2. j # 0 => j \in 1..i
    OBVIOUS
  <2> QED BY <2>1, <2>2
<1>7. Len(s) = n
  BY <1>1, <1>5, <1>6
<1> QED BY <1>2, <1>4, <1>7 DEF IsList

-----------------------------------------------------------------------------
(* Sorts.  In a total order on a finite set every element has a rank of    *)
(* its own, and the ranks are 0, 1, 2 and so on.                           *)

Orders(R, S) ==
    /\ \A x \in S : <<x, x>> \notin R
    /\ \A x, y \in S : x # y => <<x, y>> \in R \/ <<y, x>> \in R
    /\ \A x, y, z \in S : <<x, y>> \in R /\ <<y, z>> \in R => <<x, z>> \in R

Below(R, S, x) == {y \in S : <<y, x>> \in R}

InOrder(P, R, S) ==
    /\ DOMAIN P = 1..Cardinality(S)
    /\ \A k \in DOMAIN P : P[k] \in S
    /\ \A x \in S : \E k \in DOMAIN P : P[k] = x
    /\ \A j, k \in DOMAIN P : j < k => <<P[j], P[k]>> \in R
    /\ \A j, k \in DOMAIN P : P[j] = P[k] => j = k

LEMMA RanksDiffer ==
    ASSUME NEW S, IsFiniteSet(S), NEW R, Orders(R, S)
    PROVE  /\ \A x \in S : Cardinality(Below(R, S, x)) \in 0..(Cardinality(S) - 1)
           /\ \A x, y \in S : <<x, y>> \in R =>
                 Cardinality(Below(R, S, x)) < Cardinality(Below(R, S, y))
<1>0. Cardinality(S) \in Nat
  BY FS_CardinalityType
<1>1. \A x \in S : /\ IsFiniteSet(Below(R, S, x))
                   /\ Cardinality(Below(R, S, x)) \in Nat
  <2> SUFFICES ASSUME NEW x \in S
               PROVE  /\ IsFiniteSet(Below(R, S, x))
                      /\ Cardinality(Below(R, S, x)) \in Nat
    OBVIOUS
  <2>1. Below(R, S, x) \in SUBSET S
    BY DEF Below
  <2> QED BY <2>1, FS_Subset, FS_CardinalityType
<1>2. ASSUME NEW x \in S
      PROVE  Cardinality(Below(R, S, x)) \in 0..(Cardinality(S) - 1)
  <2>1. Below(R, S, x) \in SUBSET S /\ x \notin Below(R, S, x)
    BY DEF Below, Orders
  <2>2. Cardinality(Below(R, S, x)) <= Cardinality(S) /\ Cardinality(S) # Cardinality(Below(R, S, x))
    BY <2>1, FS_Subset
  <2> QED BY <1>0, <1>1, <2>2
<1>3. ASSUME NEW x \in S, NEW y \in S, <<x, y>> \in R
      PROVE  Cardinality(Below(R, S, x)) < Cardinality(Below(R, S, y))
  <2>1. Below(R, S, x) \in SUBSET Below(R, S, y)
    BY <1>3 DEF Below, Orders
  <2>2. x \in Below(R, S, y) /\ x \notin Below(R, S, x)
    BY <1>3 DEF Below, Orders
  <2>3. /\ Cardinality(Below(R, S, x)) <= Cardinality(Below(R, S, y))
        /\ Cardinality(Below(R, S, y)) # Cardinality(Below(R, S, x))
    BY <1>1, <2>1, <2>2, FS_Subset
  <2> QED BY <1>1, <2>3
<1> QED BY <1>2, <1>3

LEMMA RanksAll ==
    ASSUME NEW S, IsFiniteSet(S), NEW R, Orders(R, S)
    PROVE  \A k \in 1..Cardinality(S) : \E x \in S : Cardinality(Below(R, S, x)) = k - 1
<1> DEFINE n == Cardinality(S)
           rank == [x \in S |-> Cardinality(Below(R, S, x))]
           T == 0..(n - 1)
<1>1. n \in Nat
  BY FS_CardinalityType
<1>2. IsFiniteSet(T) /\ Cardinality(T) = n
  <2>1. 0 \in Int /\ n - 1 \in Int
    BY <1>1
  <2>2. IsFiniteSet(T) /\ Cardinality(T) = IF 0 > n - 1 THEN 0 ELSE (n - 1) - 0 + 1
    BY <2>1, FS_Interval
  <2> HIDE DEF T
  <2> QED BY <1>1, <2>2
<1>3. rank \in Injection(S, T)
  <2>1. rank \in [S -> T]
    BY RanksDiffer
  <2>2. \A x, y \in S : x # y => rank[x] # rank[y]
    <3> SUFFICES ASSUME NEW x \in S, NEW y \in S, x # y PROVE rank[x] # rank[y]
      OBVIOUS
    <3>1. rank[x] \in Int /\ rank[y] \in Int
      BY <1>1, <2>1
    <3>2. rank[x] < rank[y] \/ rank[y] < rank[x]
      BY RanksDiffer DEF Orders
    <3> HIDE DEF rank
    <3> QED BY <3>1, <3>2
  <2> HIDE DEF rank, T
  <2> QED BY <2>1, <2>2 DEF Injection, IsInjective
<1>4. rank \in Surjection(S, T)
  <2> HIDE DEF rank, T, n
  <2>1. Cardinality(S) = Cardinality(T)
    BY <1>2 DEF n
  <2> QED BY <1>2, <1>3, <2>1, FS_Injection
<1>5. ASSUME NEW k \in 1..n PROVE \E x \in S : rank[x] = k - 1
  <2>1. k - 1 \in T
    BY <1>1
  <2> HIDE DEF rank, T, n
  <2> QED BY <1>4, <2>1 DEF Surjection
<1> QED BY <1>5

LEMMA RankedInOrder ==
    ASSUME NEW S, IsFiniteSet(S), NEW R, Orders(R, S), NEW P,
           DOMAIN P = 1..Cardinality(S),
           \A k \in DOMAIN P :
               (\E x \in S : Cardinality(Below(R, S, x)) = k - 1) =>
                   P[k] \in S /\ Cardinality(Below(R, S, P[k])) = k - 1
    PROVE  InOrder(P, R, S)
<1> DEFINE n == Cardinality(S)
           rank(x) == Cardinality(Below(R, S, x))
<1>1. n \in Nat
  BY FS_CardinalityType
<1>2. \A k \in 1..n : P[k] \in S /\ rank(P[k]) = k - 1
  BY RanksAll
<1>3. DOMAIN P = 1..n
  OBVIOUS
<1>4. /\ \A x \in S : rank(x) \in 0..(n - 1)
      /\ \A x, y \in S : <<x, y>> \in R => rank(x) < rank(y)
  BY RanksDiffer
<1> HIDE DEF n, rank
<1>5. \A x, y \in S : rank(x) = rank(y) => x = y
  <2> SUFFICES ASSUME NEW x \in S, NEW y \in S, rank(x) = rank(y), x # y PROVE FALSE
    OBVIOUS
  <2>1. rank(x) \in Int /\ rank(y) \in Int
    BY <1>1, <1>4
  <2>2. rank(x) < rank(y) \/ rank(y) < rank(x)
    BY <1>4 DEF Orders
  <2> QED BY <2>1, <2>2
<1>6. ASSUME NEW x \in S PROVE \E k \in 1..n : P[k] = x
  <2>1. rank(x) + 1 \in 1..n /\ (rank(x) + 1) - 1 = rank(x)
    BY <1>1, <1>4
  <2> QED BY <1>2, <1>5, <2>1
<1>7. ASSUME NEW j \in 1..n, NEW k \in 1..n, j < k PROVE <<P[j], P[k]>> \in R
  <2>1. P[j] \in S /\ P[k] \in S /\ rank(P[j]) = j - 1 /\ rank(P[k]) = k - 1
    BY <1>2
  <2>2. j - 1 < k - 1 /\ ~ (k - 1 < j - 1) /\ j - 1 # k - 1
    BY <1>7
  <2>3. P[j] # P[k] /\ <<P[k], P[j]>> \notin R
    BY <1>4, <2>1, <2>2
  <2> QED BY <2>1, <2>3 DEF Orders
<1>8. ASSUME NEW j \in 1..n, NEW k \in 1..n, P[j] = P[k] PROVE j = k
  <2>1. j - 1 = k - 1
    BY <1>2, <1>8
  <2> QED BY <2>1
<1> QED BY <1>2, <1>3, <1>6, <1>7, <1>8 DEF InOrder, n

-----------------------------------------------------------------------------
(* One list after the other.                                               *)

FlatFold(f, n, seqs) ==
    f = [i \in 1..n |-> IF i = 1 THEN seqs[i] ELSE f[i - 1] \o seqs[i]]

Flat(seqs) == (CHOOSE f : FlatFold(f, Len(seqs), seqs))[Len(seqs)]

LEMMA FlattenIsFold ==
    ASSUME NEW seqs, Len(seqs) # 0
    PROVE  FlattenSeq(seqs) = Flat(seqs)
BY DEF FlattenSeq, Flat, FlatFold

LEMMA FlatFoldAt ==
    ASSUME NEW n \in Nat, NEW seqs, NEW f, FlatFold(f, n, seqs), NEW i \in 1..n
    PROVE  f[i] = IF i = 1 THEN seqs[i] ELSE f[i - 1] \o seqs[i]
<1> DEFINE g == [j \in 1..n |-> IF j = 1 THEN seqs[j] ELSE f[j - 1] \o seqs[j]]
<1>1. f = g
  BY DEF FlatFold
<1>2. g[i] = IF i = 1 THEN seqs[i] ELSE f[i - 1] \o seqs[i]
  OBVIOUS
<1> HIDE DEF g
<1> QED BY <1>1, <1>2

LEMMA FlatFoldNext ==
    ASSUME NEW n \in Nat, NEW seqs, NEW f, FlatFold(f, n, seqs),
           NEW k \in Nat, NEW i \in 1..n, i = k + 1
    PROVE  f[i] = IF k = 0 THEN seqs[i] ELSE f[k] \o seqs[i]
<1>1. f[i] = IF i = 1 THEN seqs[i] ELSE f[i - 1] \o seqs[i]
  BY FlatFoldAt
<1>2. i - 1 = k /\ (i = 1 <=> k = 0)
  OBVIOUS
<1> QED BY <1>1, <1>2

LEMMA FlatFoldExists ==
    ASSUME NEW n \in Nat, NEW seqs
    PROVE  \E f : FlatFold(f, n, seqs)
<1> DEFINE Good == {k \in 0..n : \E f : FlatFold(f, k, seqs)}
<1>1. 0 \in Good
  <2> DEFINE f == [i \in 1..0 |-> i]
  <2>1. \A i \in 1..0 : FALSE
    OBVIOUS
  <2>2. f = [i \in 1..0 |-> IF i = 1 THEN seqs[i] ELSE f[i - 1] \o seqs[i]]
    BY <2>1
  <2>3. FlatFold(f, 0, seqs)
    BY <2>2 DEF FlatFold
  <2> HIDE DEF f
  <2> QED BY <2>3
<1>2. ASSUME NEW k \in 0..(n - 1), k \in Good PROVE k + 1 \in Good
  <2>1. PICK f : FlatFold(f, k, seqs)
    BY <1>2
  <2> DEFINE g == [i \in 1..(k + 1) |->
                     IF i \in 1..k THEN f[i]
                     ELSE IF i = 1 THEN seqs[i] ELSE f[i - 1] \o seqs[i]]
  <2>2. \A i \in 1..k : f[i] = IF i = 1 THEN seqs[i] ELSE f[i - 1] \o seqs[i]
    BY <2>1, FlatFoldAt
  <2>3. \A i \in 1..(k + 1) : g[i] = IF i = 1 THEN seqs[i] ELSE f[i - 1] \o seqs[i]
    BY <2>2
  <2>4. \A i \in 1..(k + 1) : i # 1 => i - 1 \in 1..(k + 1) /\ i - 1 \in 1..k
    OBVIOUS
  <2>5. \A i \in 1..k : i \in 1..(k + 1)
    OBVIOUS
  <2>6. g = [i \in 1..(k + 1) |-> g[i]] /\ \A i \in 1..k : g[i] = f[i]
    BY <2>5
  <2> HIDE DEF g
  <2>7. \A i \in 1..(k + 1) : g[i] = IF i = 1 THEN seqs[i] ELSE g[i - 1] \o seqs[i]
    BY <2>3, <2>4, <2>6
  <2>8. FlatFold(g, k + 1, seqs)
    BY <2>6, <2>7 DEF FlatFold
  <2>9. k + 1 \in 0..n
    OBVIOUS
  <2> QED BY <2>8, <2>9
<1>3. n \in Good
  <2> HIDE DEF Good
  <2>1. n \in 0..n
    OBVIOUS
  <2> QED BY <1>1, <1>2, <2>1, UpTo
<1> QED BY <1>3

-----------------------------------------------------------------------------
(* Numbers as they are written.                                            *)

TensTable(t, n) == t = [k \in 0..n |-> IF k = 0 THEN 1 ELSE 10 * t[k - 1]]

LEMMA TensTableAt ==
    ASSUME NEW n \in Nat, NEW t, TensTable(t, n), NEW k \in 0..n
    PROVE  t[k] = IF k = 0 THEN 1 ELSE 10 * t[k - 1]
<1> DEFINE g == [j \in 0..n |-> IF j = 0 THEN 1 ELSE 10 * t[j - 1]]
<1>1. t = g
  BY DEF TensTable
<1>2. g[k] = IF k = 0 THEN 1 ELSE 10 * t[k - 1]
  OBVIOUS
<1> HIDE DEF g
<1> QED BY <1>1, <1>2

LEMMA TensTableExists ==
    ASSUME NEW n \in Nat
    PROVE  \E t : TensTable(t, n)
<1> DEFINE Good == {k \in 0..n : \E t : TensTable(t, k)}
<1>1. 0 \in Good
  <2> DEFINE t == [k \in 0..0 |-> 1]
  <2>1. t = [k \in 0..0 |-> IF k = 0 THEN 1 ELSE 10 * t[k - 1]]
    OBVIOUS
  <2>2. TensTable(t, 0)
    BY <2>1 DEF TensTable
  <2> HIDE DEF t
  <2> QED BY <2>2
<1>2. ASSUME NEW k \in 0..(n - 1), k \in Good PROVE k + 1 \in Good
  <2>1. PICK t : TensTable(t, k)
    BY <1>2
  <2> DEFINE g == [i \in 0..(k + 1) |-> IF i \in 0..k THEN t[i] ELSE 10 * t[i - 1]]
  <2>2. \A i \in 0..k : t[i] = IF i = 0 THEN 1 ELSE 10 * t[i - 1]
    BY <2>1, TensTableAt
  <2>3. \A i \in 0..(k + 1) : g[i] = IF i = 0 THEN 1 ELSE 10 * t[i - 1]
    BY <2>2
  <2>4. \A i \in 0..(k + 1) : i # 0 => i - 1 \in 0..(k + 1) /\ i - 1 \in 0..k
    OBVIOUS
  <2>5. \A i \in 0..k : i \in 0..(k + 1)
    OBVIOUS
  <2>6. g = [i \in 0..(k + 1) |-> g[i]] /\ \A i \in 0..k : g[i] = t[i]
    BY <2>5
  <2> HIDE DEF g
  <2>7. \A i \in 0..(k + 1) : g[i] = IF i = 0 THEN 1 ELSE 10 * g[i - 1]
    BY <2>3, <2>4, <2>6
  <2>8. TensTable(g, k + 1)
    BY <2>6, <2>7 DEF TensTable
  <2>9. k + 1 \in 0..n
    OBVIOUS
  <2> QED BY <2>8, <2>9
<1>3. n \in Good
  <2> HIDE DEF Good
  <2>1. n \in 0..n
    OBVIOUS
  <2> QED BY <1>1, <1>2, <2>1, UpTo
<1> QED BY <1>3

LEMMA TensWhole ==
    /\ \A n \in Nat : Tens(n) \in Nat
    /\ Tens(0) = 1
<1>1. ASSUME NEW n \in Nat PROVE Tens(n) \in Nat /\ (n = 0 => Tens(n) = 1)
  <2> DEFINE t == CHOOSE u : TensTable(u, n)
  <2>1. TensTable(t, n)
    BY TensTableExists
  <2>2. Tens(n) = t[n]
    BY DEF Tens, TensTable
  <2> HIDE DEF t
  <2> DEFINE Good == {k \in 0..n : t[k] \in Nat}
  <2>3. \A k \in 0..n : t[k] = IF k = 0 THEN 1 ELSE 10 * t[k - 1]
    BY <2>1, TensTableAt
  <2>4. 0 \in Good /\ n \in 0..n /\ 0 \in 0..n
    BY <2>3
  <2>5. ASSUME NEW k \in 0..(n - 1), k \in Good PROVE k + 1 \in Good
    <3>1. k + 1 \in 0..n /\ (k + 1) - 1 = k /\ k + 1 # 0
      OBVIOUS
    <3>2. t[k + 1] = 10 * t[k]
      BY <2>3, <3>1
    <3>3. t[k] \in Nat
      BY <2>5
    <3> QED BY <3>1, <3>2, <3>3
  <2>6. n \in Good
    <3> HIDE DEF Good
    <3> QED BY <2>4, <2>5, UpTo
  <2> QED BY <2>2, <2>3, <2>4, <2>6
<1> QED BY <1>1

LEMMA NumberRead ==
    ASSUME NEW c, IsNumber(c)
    PROVE  parseNumber(c) \in Int /\ (Unambiguous(c) => parseNumber(c) = c.value)
<1> DEFINE commas == Marks(c, Comma)
           dots   == Marks(c, Dot)
           after  == IF c.decimals > 0 THEN c.decimals ELSE 3
<1>1. /\ c.value \in Int /\ c.decimals \in Nat /\ c.groups \in Nat
      /\ c.point \in {Comma, Dot} /\ (c.decimals > 0 => c.group # c.point)
  BY DEF IsNumber
<1>2. commas \in Nat /\ dots \in Nat /\ after \in Nat
  BY <1>1 DEF Marks
<1>3. Joined(c) \in Int /\ (c.decimals = 0 => Joined(c) = c.value)
  <2>1. Tens(c.decimals) \in Int /\ (c.decimals = 0 => Tens(c.decimals) = 1)
    BY <1>1, TensWhole
  <2>2. \A v, t \in Int : v * t \in Int /\ v * 1 = v
    OBVIOUS
  <2> QED BY <1>1, <2>1, <2>2 DEF Joined
<1> DEFINE a == commas > 0 /\ dots = 0 /\ after > 2
           b == commas > 1 /\ dots = 0 /\ after <= 2
           d == commas = 0 /\ dots = 1 /\ after = 3
           e == commas = 0 /\ dots > 1
<1>4. parseNumber(c) = CASE a -> Joined(c) [] b -> 0 [] d -> Joined(c) [] e -> 0
                         [] OTHER -> c.value
  BY DEF parseNumber
<1>5. (a => ~b /\ ~d /\ ~e) /\ (b => ~d /\ ~e) /\ (d => ~e)
  <2> HIDE DEF commas, dots, after
  <2> QED BY <1>2
<1>6. ASSUME Unambiguous(c) PROVE ~b /\ ~e /\ ((a \/ d) => c.decimals = 0)
  <2>1. CASE Marks(c, Comma) > 0 /\ Marks(c, Dot) > 0
    <3> HIDE DEF commas, dots, after
    <3>1. commas > 0 /\ dots > 0
      BY <2>1 DEF commas, dots
    <3> QED BY <1>2, <3>1
  <2>2. CASE c.decimals < 3 /\ (c.group = Dot => c.groups < 2)
    <3>1. (a \/ d) => c.decimals = 0
      BY <1>1, <2>2
    <3>2. ~b
      BY <1>1, <2>2 DEF Marks
    <3>3. ~e
      BY <1>1, <2>2 DEF Marks
    <3> QED BY <3>1, <3>2, <3>3
  <2> QED BY <1>6, <2>1, <2>2 DEF Unambiguous
<1> HIDE DEF a, b, d, e
<1>7. /\ a => parseNumber(c) = Joined(c)
      /\ b => parseNumber(c) = 0
      /\ d => parseNumber(c) = Joined(c)
      /\ e => parseNumber(c) = 0
      /\ ~a /\ ~b /\ ~d /\ ~e => parseNumber(c) = c.value
  BY <1>4, <1>5
<1> QED BY <1>1, <1>3, <1>6, <1>7

-----------------------------------------------------------------------------
(* A set in an order: there is one way only to go through it.              *)

LEMMA OneOrder ==
    ASSUME NEW S, IsFiniteSet(S), NEW R, Orders(R, S),
           NEW P, InOrder(P, R, S), NEW Q, InOrder(Q, R, S)
    PROVE  \A k \in 1..Cardinality(S) : P[k] = Q[k]
<1> DEFINE n == Cardinality(S)
           Bad == {k \in 1..n : P[k] # Q[k]}
<1> SUFFICES ASSUME Bad # {} PROVE FALSE
  OBVIOUS
<1>1. n \in Nat
  BY FS_CardinalityType
<1>2. PICK k \in Bad : \A m \in Bad : k <= m
  <2>1. Bad \subseteq Nat
    OBVIOUS
  <2> HIDE DEF Bad
  <2> QED BY <2>1, LeastNat
<1>3. k \in 1..n /\ P[k] # Q[k]
  OBVIOUS
<1>4. \A j \in 1..n : j < k => P[j] = Q[j]
  BY <1>2
<1>5. /\ DOMAIN P = 1..n /\ DOMAIN Q = 1..n
      /\ P[k] \in S /\ Q[k] \in S
      /\ \A x \in S : (\E j \in 1..n : P[j] = x) /\ (\E j \in 1..n : Q[j] = x)
      /\ \A i, j \in 1..n : i < j => <<P[i], P[j]>> \in R /\ <<Q[i], Q[j]>> \in R
      /\ \A i, j \in 1..n : (P[i] = P[j] => i = j) /\ (Q[i] = Q[j] => i = j)
  BY <1>3 DEF InOrder
<1>6. PICK i \in 1..n, j \in 1..n : P[i] = Q[k] /\ Q[j] = P[k]
  BY <1>5
<1> HIDE DEF n, Bad
<1>7. k < i /\ k < j
  <2>1. i # k /\ j # k
    BY <1>3, <1>6
  <2>2. ~ (i < k) /\ ~ (j < k)
    <3>1. i < k => Q[i] = Q[k]
      BY <1>4, <1>6
    <3>2. j < k => P[j] = P[k]
      BY <1>4, <1>6
    <3> QED BY <1>3, <1>5, <2>1, <3>1, <3>2
  <2> QED BY <1>1, <1>3, <2>1, <2>2
<1>8. <<P[k], Q[k]>> \in R /\ <<Q[k], P[k]>> \in R
  BY <1>3, <1>5, <1>6, <1>7
<1> QED BY <1>5, <1>8 DEF Orders

Pairs(S) == \A p \in S : p = <<p[1], p[2]>> /\ p[1] \in Nat /\ p[2] \in Nat

(* e names the n places of S in their order.                               *)
Listing(e, n, S) ==
    /\ \A k \in 1..n : e[k] \in S
    /\ \A x \in S : \E k \in 1..n : e[k] = x
    /\ \A j, k \in 1..n : j < k => Precedes(e[j], e[k])

Lex(a, b, c, d) == a < c \/ (a = c /\ b < d)

LEMMA PlacesAreOrdered ==
    ASSUME NEW S, Pairs(S)
    PROVE  Orders({p \in S \X S : Precedes(p[1], p[2])}, S)
<1> DEFINE R == {p \in S \X S : Precedes(p[1], p[2])}
<1>1. \A x, y \in S : <<x, y>> \in R <=> Precedes(x, y)
  OBVIOUS
<1>2. \A x, y \in S : Precedes(x, y) <=> Lex(x[1], x[2], y[1], y[2])
  BY DEF Precedes, Lex
<1>3. \A x \in S : x[1] \in Nat /\ x[2] \in Nat
  BY DEF Pairs
<1>4. \A x, y \in S : x[1] = y[1] /\ x[2] = y[2] => x = y
  <2> SUFFICES ASSUME NEW x \in S, NEW y \in S, x[1] = y[1], x[2] = y[2] PROVE x = y
    OBVIOUS
  <2>1. x = <<x[1], x[2]>> /\ y = <<y[1], y[2]>>
    BY DEF Pairs
  <2> QED BY <2>1
<1> HIDE DEF R
<1>5. \A x \in S : <<x, x>> \notin R
  <2> SUFFICES ASSUME NEW x \in S PROVE ~Precedes(x, x)
    BY <1>1
  <2>1. x[1] \in Nat /\ x[2] \in Nat
    BY <1>3
  <2> QED BY <1>2, <2>1 DEF Lex
<1>6. \A x, y \in S : x # y => <<x, y>> \in R \/ <<y, x>> \in R
  <2> SUFFICES ASSUME NEW x \in S, NEW y \in S, x # y
               PROVE  Precedes(x, y) \/ Precedes(y, x)
    BY <1>1
  <2>1. ~(x[1] = y[1] /\ x[2] = y[2])
    BY <1>4
  <2>2. x[1] \in Nat /\ x[2] \in Nat /\ y[1] \in Nat /\ y[2] \in Nat
    BY <1>3
  <2>3. Lex(x[1], x[2], y[1], y[2]) \/ Lex(y[1], y[2], x[1], x[2])
    BY <2>1, <2>2 DEF Lex
  <2> QED BY <1>2, <2>3
<1>7. \A x, y, z \in S : <<x, y>> \in R /\ <<y, z>> \in R => <<x, z>> \in R
  <2> SUFFICES ASSUME NEW x \in S, NEW y \in S, NEW z \in S, Precedes(x, y), Precedes(y, z)
               PROVE  Precedes(x, z)
    BY <1>1
  <2>1. Lex(x[1], x[2], y[1], y[2]) /\ Lex(y[1], y[2], z[1], z[2])
    BY <1>2
  <2>2. /\ x[1] \in Nat /\ x[2] \in Nat /\ y[1] \in Nat /\ y[2] \in Nat
        /\ z[1] \in Nat /\ z[2] \in Nat
    BY <1>3
  <2>3. Lex(x[1], x[2], z[1], z[2])
    BY <2>1, <2>2 DEF Lex
  <2> QED BY <1>2, <2>3
<1> QED BY <1>5, <1>6, <1>7 DEF Orders, R

LEMMA CountedBy ==
    ASSUME NEW n \in Nat, NEW e, NEW S,
           \A k \in 1..n : e[k] \in S,
           \A x \in S : \E k \in 1..n : e[k] = x,
           \A j, k \in 1..n : j # k => e[j] # e[k]
    PROVE  IsFiniteSet(S) /\ Cardinality(S) = n
<1> DEFINE f == [k \in 1..n |-> e[k]]
<1>1. f \in [1..n -> S] /\ \A k \in 1..n : f[k] = e[k]
  OBVIOUS
<1> HIDE DEF f
<1>2. f \in Injection(1..n, S) /\ f \in Surjection(1..n, S)
  BY <1>1 DEF Injection, IsInjective, Surjection
<1>3. ExistsBijection(1..n, S)
  BY <1>2 DEF ExistsBijection, Bijection
<1>4. IsFiniteSet(1..n)
  BY FS_Interval
<1> QED BY <1>3, <1>4, FS_Bijection, FS_CountingElements

LEMMA ListingIsRanked ==
    ASSUME NEW S, Pairs(S), NEW n \in Nat, NEW e, Listing(e, n, S)
    PROVE  /\ DOMAIN Ranked(S, Precedes) = 1..n
           /\ Len(Ranked(S, Precedes)) = n
           /\ \A k \in 1..n : Ranked(S, Precedes)[k] = e[k]
<1> DEFINE R == {p \in S \X S : Precedes(p[1], p[2])}
           P == Ranked(S, Precedes)
           Q == [k \in 1..n |-> e[k]]
<1>1. \A x, y \in S : <<x, y>> \in R <=> Precedes(x, y)
  OBVIOUS
<1>2. Orders(R, S)
  BY PlacesAreOrdered
<1>3. \A x \in S : Below(R, S, x) = {y \in S : Precedes(y, x)}
  <2> HIDE DEF R
  <2> QED BY <1>1 DEF Below
<1>4. P = [k \in 1..Cardinality(S) |->
             CHOOSE x \in S : Cardinality({y \in S : Precedes(y, x)}) = k - 1]
  BY DEF Ranked
<1>5. /\ DOMAIN Q = 1..n
      /\ \A k \in 1..n : Q[k] = e[k] /\ Q[k] \in S
  BY DEF Listing
<1> HIDE DEF R, P, Q
<1>6. \A j, k \in 1..n : j < k => <<Q[j], Q[k]>> \in R
  BY <1>1, <1>5 DEF Listing
<1>7. \A j, k \in 1..n : j # k => e[j] # e[k]
  <2> SUFFICES ASSUME NEW j \in 1..n, NEW k \in 1..n, j # k, e[j] = e[k] PROVE FALSE
    OBVIOUS
  <2>1. j < k \/ k < j
    OBVIOUS
  <2>2. <<Q[j], Q[j]>> \in R
    BY <1>5, <1>6, <2>1
  <2> QED BY <1>2, <1>5, <2>2 DEF Orders
<1>8. IsFiniteSet(S) /\ Cardinality(S) = n
  <2>1. /\ \A k \in 1..n : e[k] \in S
        /\ \A x \in S : \E k \in 1..n : e[k] = x
    BY DEF Listing
  <2> QED BY <1>7, <2>1, CountedBy
<1>9. InOrder(Q, R, S)
  <2>1. \A x \in S : \E k \in 1..n : Q[k] = x
    BY <1>5 DEF Listing
  <2>2. \A j, k \in 1..n : Q[j] = Q[k] => j = k
    BY <1>5, <1>7
  <2> QED BY <1>5, <1>6, <1>8, <2>1, <2>2 DEF InOrder
<1>10. ASSUME NEW k \in 1..Cardinality(S),
              \E x \in S : Cardinality(Below(R, S, x)) = k - 1
       PROVE  P[k] \in S /\ Cardinality(Below(R, S, P[k])) = k - 1
  <2>1. \E x \in S : Cardinality({y \in S : Precedes(y, x)}) = k - 1
    BY <1>3, <1>10
  <2>2. P[k] \in S /\ Cardinality({y \in S : Precedes(y, P[k])}) = k - 1
    BY <1>4, <2>1
  <2> QED BY <1>3, <2>2
<1>11. DOMAIN P = 1..Cardinality(S)
  BY <1>4
<1>12. InOrder(P, R, S)
  BY <1>2, <1>8, <1>10, <1>11, RankedInOrder
<1>13. \A k \in 1..Cardinality(S) : P[k] = Q[k]
  BY <1>2, <1>8, <1>9, <1>12, OneOrder
<1>14. Len(P) = n
  <2> DEFINE h(k) == CHOOSE x \in S : Cardinality({y \in S : Precedes(y, x)}) = k - 1
  <2>1. P = [k \in 1..Cardinality(S) |-> h(k)]
    BY <1>4
  <2> HIDE DEF h
  <2>2. P = [k \in 1..n |-> P[k]]
    BY <1>8, <2>1
  <2> QED BY <2>2, FunctionIsList
<1> QED BY <1>5, <1>8, <1>11, <1>13, <1>14 DEF P

(* The places of one sheet after those of the sheets before.               *)
LEMMA ListingGrows ==
    ASSUME NEW S, NEW T, NEW n \in Nat, NEW m \in Nat, NEW e, NEW d,
           Listing(e, n, S), Listing(d, m, T),
           \A x \in S : \A y \in T : Precedes(x, y)
    PROVE  Listing([k \in 1..(n + m) |-> IF k <= n THEN e[k] ELSE d[k - n]], n + m, S \cup T)
<1> DEFINE f == [k \in 1..(n + m) |-> IF k <= n THEN e[k] ELSE d[k - n]]
<1>1. \A k \in 1..(n + m) : \/ k \in 1..n /\ f[k] = e[k]
                            \/ k - n \in 1..m /\ ~(k <= n) /\ f[k] = d[k - n]
  OBVIOUS
<1>2. \A k \in 1..n : k \in 1..(n + m) /\ f[k] = e[k]
  OBVIOUS
<1>3. \A k \in 1..m : n + k \in 1..(n + m) /\ f[n + k] = d[k]
  <2> SUFFICES ASSUME NEW k \in 1..m PROVE n + k \in 1..(n + m) /\ f[n + k] = d[k]
    OBVIOUS
  <2>1. n + k \in 1..(n + m) /\ ~ (n + k <= n) /\ (n + k) - n = k
    OBVIOUS
  <2> QED BY <2>1
<1> HIDE DEF f
<1>4. \A k \in 1..(n + m) : f[k] \in S \cup T
  BY <1>1 DEF Listing
<1>5. \A x \in S \cup T : \E k \in 1..(n + m) : f[k] = x
  BY <1>2, <1>3 DEF Listing
<1>6. ASSUME NEW j \in 1..(n + m), NEW k \in 1..(n + m), j < k
      PROVE  Precedes(f[j], f[k])
  <2>1. CASE k \in 1..n /\ f[k] = e[k]
    <3>1. j \in 1..n
      BY <1>6, <2>1
    <3> QED BY <1>2, <1>6, <2>1, <3>1 DEF Listing
  <2>2. CASE k - n \in 1..m /\ ~(k <= n) /\ f[k] = d[k - n]
    <3>1. CASE j \in 1..n /\ f[j] = e[j]
      BY <2>2, <3>1 DEF Listing
    <3>2. CASE j - n \in 1..m /\ ~(j <= n) /\ f[j] = d[j - n]
      <4>1. j - n < k - n
        BY <1>6
      <4> QED BY <2>2, <3>2, <4>1 DEF Listing
    <3> QED BY <1>1, <3>1, <3>2
  <2> QED BY <1>1, <2>1, <2>2
<1>7. Listing(f, n + m, S \cup T)
  BY <1>4, <1>5, <1>6 DEF Listing
<1> QED BY <1>7 DEF f

(* The positions that a filter leaves, in their order.                     *)
LEMMA AscendingLists ==
    ASSUME NEW S, IsFiniteSet(S), S \subseteq Nat
    PROVE  /\ Cardinality(S) \in Nat
           /\ DOMAIN Ascending(S) = 1..Cardinality(S)
           /\ \A k \in 1..Cardinality(S) : Ascending(S)[k] \in S
           /\ \A x \in S : \E k \in 1..Cardinality(S) : Ascending(S)[k] = x
           /\ \A j, k \in 1..Cardinality(S) : j < k => Ascending(S)[j] < Ascending(S)[k]
<1> DEFINE R == {p \in S \X S : p[1] < p[2]}
           P == Ascending(S)
<1>1. \A x, y \in S : <<x, y>> \in R <=> x < y
  OBVIOUS
<1>2. Orders(R, S)
  <2> HIDE DEF R
  <2> QED BY <1>1 DEF Orders
<1>3. \A x \in S : Below(R, S, x) = {y \in S : y < x}
  <2> HIDE DEF R
  <2> QED BY <1>1 DEF Below
<1>4. P = [k \in 1..Cardinality(S) |->
             CHOOSE x \in S : Cardinality({y \in S : y < x}) = k - 1]
  BY DEF Ascending, Ranked
<1> HIDE DEF R, P
<1>5. ASSUME NEW k \in 1..Cardinality(S),
             \E x \in S : Cardinality(Below(R, S, x)) = k - 1
      PROVE  P[k] \in S /\ Cardinality(Below(R, S, P[k])) = k - 1
  <2>1. \E x \in S : Cardinality({y \in S : y < x}) = k - 1
    BY <1>3, <1>5
  <2>2. P[k] \in S /\ Cardinality({y \in S : y < P[k]}) = k - 1
    BY <1>4, <2>1
  <2> QED BY <1>3, <2>2
<1>6. InOrder(P, R, S)
  <2>1. DOMAIN P = 1..Cardinality(S)
    BY <1>4
  <2> QED BY <1>2, <1>5, <2>1, RankedInOrder
<1>7. P = Ascending(S)
  BY DEF P
<1>8. Cardinality(S) \in Nat
  BY FS_CardinalityType
<1>9. \A j, k \in 1..Cardinality(S) : j < k => P[j] < P[k]
  BY <1>1, <1>6 DEF InOrder
<1> QED BY <1>6, <1>7, <1>8, <1>9 DEF InOrder

LEMMA Concatenated ==
    ASSUME NEW s, IsList(s), NEW t, IsList(t)
    PROVE  /\ IsList(s \o t) /\ Len(s \o t) = Len(s) + Len(t)
           /\ \A k \in 1..Len(s) : (s \o t)[k] = s[k]
           /\ \A k \in 1..Len(t) : (s \o t)[Len(s) + k] = t[k]
<1> DEFINE Q == ToSet(s) \cup ToSet(t)
<1>1. Len(s) \in Nat /\ DOMAIN s = 1..Len(s) /\ Len(t) \in Nat /\ DOMAIN t = 1..Len(t)
  BY ListDomain
<1>2. s \in Seq(Q) /\ t \in Seq(Q)
  <2>1. s \in [1..Len(s) -> ToSet(s)] /\ t \in [1..Len(t) -> ToSet(t)]
    BY <1>1, LenProperties DEF IsList
  <2>2. s \in [1..Len(s) -> Q] /\ t \in [1..Len(t) -> Q]
    BY <2>1
  <2> HIDE DEF Q
  <2> QED BY <1>1, <2>2
<1> HIDE DEF Q
<1>3. /\ s \o t \in Seq(Q) /\ Len(s \o t) = Len(s) + Len(t)
      /\ \A k \in 1..(Len(s) + Len(t)) : (s \o t)[k] = IF k <= Len(s) THEN s[k] ELSE t[k - Len(s)]
  BY <1>2, ConcatProperties
<1>4. IsList(s \o t)
  <2>1. s \o t = [k \in 1..Len(s \o t) |-> (s \o t)[k]] /\ Len(s \o t) \in Nat
    BY <1>3, LenProperties
  <2> QED BY <2>1, FunctionIsList
<1>5. \A k \in 1..Len(s) : (s \o t)[k] = s[k]
  BY <1>1, <1>3
<1>6. ASSUME NEW k \in 1..Len(t) PROVE (s \o t)[Len(s) + k] = t[k]
  <2>1. Len(s) + k \in 1..(Len(s) + Len(t)) /\ ~ (Len(s) + k <= Len(s)) /\ (Len(s) + k) - Len(s) = k
    BY <1>1
  <2> QED BY <1>3, <2>1
<1> QED BY <1>3, <1>4, <1>5, <1>6

(* t is made of n parts: part h has the places after p[h].                 *)
Laid(t, n, parts, p) ==
    /\ IsList(t)
    /\ \A h \in 1..n : p[h] \in Nat /\ p[h] + Len(parts[h]) <= Len(t)
    /\ \A h \in 1..n : \A k \in 1..Len(parts[h]) :
          p[h] + k \in 1..Len(t) /\ t[p[h] + k] = parts[h][k]
    /\ \A g, h \in 1..n : g < h => p[g] + Len(parts[g]) <= p[h]
    /\ \A i \in 1..Len(t) : \E h \in 1..n : \E k \in 1..Len(parts[h]) : i = p[h] + k

LEMMA LaidOneMore ==
    ASSUME NEW n \in Nat, NEW parts, NEW m \in Nat, m = n + 1,
           \A h \in 1..m : IsList(parts[h]),
           NEW t, NEW p, Laid(t, n, parts, p)
    PROVE  \E q : Laid(t \o parts[m], m, parts, q)
<1> DEFINE q == [h \in 1..m |-> IF h = m THEN Len(t) ELSE p[h]]
           u == t \o parts[m]
<1>1. \A h \in 1..m : h \in 1..n \/ h = m
  OBVIOUS
<1>2. m \in 1..m /\ \A h \in 1..n : h \in 1..m /\ h # m
  OBVIOUS
<1>3. q[m] = Len(t) /\ \A h \in 1..n : q[h] = p[h]
  BY <1>2
<1> HIDE DEF q
<1>4. IsList(t) /\ IsList(parts[m]) /\ \A h \in 1..m : Len(parts[h]) \in Nat
  BY <1>2, ListDomain DEF Laid
<1>5. Len(t) \in Nat /\ Len(parts[m]) \in Nat
  BY <1>4, ListDomain
<1>6. /\ IsList(u) /\ Len(u) = Len(t) + Len(parts[m])
      /\ \A k \in 1..Len(t) : u[k] = t[k]
      /\ \A k \in 1..Len(parts[m]) : u[Len(t) + k] = parts[m][k]
  BY <1>4, Concatenated
<1> HIDE DEF u
<1>7. \A k \in 1..Len(t) : k \in 1..Len(u)
  BY <1>5, <1>6
<1>8. \A k \in 1..Len(parts[m]) : Len(t) + k \in 1..Len(u)
  BY <1>5, <1>6
<1>9. ASSUME NEW h \in 1..m PROVE q[h] \in Nat /\ q[h] + Len(parts[h]) <= Len(u)
  <2>1. CASE h \in 1..n
    <3>1. q[h] = p[h] /\ p[h] \in Nat /\ Len(parts[h]) \in Nat /\ p[h] + Len(parts[h]) <= Len(t)
      BY <1>3, <1>4, <2>1 DEF Laid
    <3> QED BY <1>5, <1>6, <3>1
  <2>2. CASE h = m
    BY <1>3, <1>5, <1>6, <2>2
  <2> QED BY <1>1, <2>1, <2>2
<1>10. ASSUME NEW h \in 1..m, NEW k \in 1..Len(parts[h])
       PROVE  q[h] + k \in 1..Len(u) /\ u[q[h] + k] = parts[h][k]
  <2>1. CASE h \in 1..n
    <3>1. q[h] = p[h]
      BY <1>3, <2>1
    <3>2. p[h] + k \in 1..Len(t) /\ t[p[h] + k] = parts[h][k]
      BY <2>1 DEF Laid
    <3>3. p[h] + k \in 1..Len(u) /\ u[p[h] + k] = t[p[h] + k]
      BY ONLY <1>6, <1>7, <3>2
    <3> QED BY ONLY <3>1, <3>2, <3>3
  <2>2. CASE h = m
    BY <1>3, <1>6, <1>8, <2>2
  <2> QED BY <1>1, <2>1, <2>2
<1>11. ASSUME NEW g \in 1..m, NEW h \in 1..m, g < h
       PROVE  q[g] + Len(parts[g]) <= q[h]
  <2>1. CASE h \in 1..n
    <3>1. g \in 1..n
      BY <1>11, <2>1
    <3> QED BY <1>3, <1>11, <2>1, <3>1 DEF Laid
  <2>2. CASE h = m
    <3>1. g \in 1..n
      BY <1>11, <2>2
    <3>2. q[g] = p[g] /\ p[g] \in Nat /\ Len(parts[g]) \in Nat /\ q[h] = Len(t)
      BY <1>2, <1>3, <1>4, <2>2, <3>1 DEF Laid
    <3> QED BY <3>1, <3>2 DEF Laid
  <2> QED BY <1>1, <2>1, <2>2
<1>12. ASSUME NEW i \in 1..Len(u)
       PROVE  \E h \in 1..m : \E k \in 1..Len(parts[h]) : i = q[h] + k
  <2>1. CASE i \in 1..Len(t)
    <3>1. PICK h \in 1..n : \E k \in 1..Len(parts[h]) : i = p[h] + k
      BY <2>1 DEF Laid
    <3> QED BY <1>2, <1>3, <3>1
  <2>2. CASE i \notin 1..Len(t)
    <3>1. i - Len(t) \in 1..Len(parts[m]) /\ i = Len(t) + (i - Len(t))
      BY <1>5, <1>6, <2>2
    <3> QED BY <1>2, <1>3, <3>1
  <2> QED BY <2>1, <2>2
<1>13. Laid(u, m, parts, q)
  BY <1>6, <1>9, <1>10, <1>11, <1>12 DEF Laid
<1> QED BY <1>13 DEF u

LEMMA FlattenLaid ==
    ASSUME NEW n \in Nat, NEW parts, IsList(parts), Len(parts) = n,
           \A h \in 1..n : IsList(parts[h])
    PROVE  \E p : Laid(FlattenSeq(parts), n, parts, p)
<1>1. CASE n = 0
  <2>1. FlattenSeq(parts) = parts
    BY <1>1 DEF FlattenSeq
  <2>2. \A h \in 1..n : FALSE
    BY <1>1
  <2>3. \A i \in 1..Len(parts) : FALSE
    BY <1>1
  <2>4. Laid(parts, n, parts, parts)
    BY <2>2, <2>3 DEF Laid
  <2> QED BY <2>1, <2>4
<1>2. CASE n # 0
  <2> DEFINE f == CHOOSE g : FlatFold(g, n, parts)
  <2>1. FlatFold(f, n, parts)
    BY FlatFoldExists
  <2>5. FlattenSeq(parts) = f[n]
    BY <1>2, FlattenIsFold DEF Flat
  <2> HIDE DEF f
  <2> DEFINE Good == {k \in 0..n : k # 0 => \E p : Laid(f[k], k, parts, p)}
  <2>2. 0 \in Good
    OBVIOUS
  <2>3. ASSUME NEW k \in 0..(n - 1), k \in Good PROVE k + 1 \in Good
    <3>1. PICK m \in 1..n : m = k + 1
      OBVIOUS
    <3>2. k \in Nat /\ m \in Nat /\ \A h \in 1..m : h \in 1..n
      BY <3>1
    <3>3. f[m] = IF k = 0 THEN parts[m] ELSE f[k] \o parts[m]
      BY ONLY n \in Nat, k \in Nat, m \in 1..n, <2>1, <3>1, FlatFoldNext
    <3>4. \A h \in 1..m : IsList(parts[h])
      BY <3>2
    <3>5. CASE k = 0
      <4> DEFINE p == [h \in 1..m |-> 0]
      <4>1. m = 1 /\ 1 \in 1..m /\ p[1] = 0 /\ \A h \in 1..m : h = 1
        BY <3>1, <3>5
      <4>2. f[m] = parts[1] /\ IsList(parts[1])
        BY <3>3, <3>4, <3>5, <4>1
      <4> HIDE DEF p
      <4>3. Len(parts[1]) \in Nat
        BY <4>2, ListDomain
      <4>4. \A h \in 1..m : p[h] \in Nat /\ p[h] + Len(parts[h]) <= Len(f[m])
        BY <4>1, <4>2, <4>3
      <4>5. \A i \in 1..Len(f[m]) : i \in 1..Len(parts[1]) /\ i = p[1] + i
        BY <4>1, <4>2, <4>3
      <4>6. Laid(f[m], m, parts, p)
        BY <4>1, <4>2, <4>4, <4>5 DEF Laid
      <4> QED BY <3>1, <4>6
    <3>6. CASE k # 0
      <4>1. PICK p : Laid(f[k], k, parts, p)
        BY <2>3, <3>6
      <4>2. \E q : Laid(f[k] \o parts[m], m, parts, q)
        BY ONLY <3>1, <3>2, <3>4, <4>1, LaidOneMore, SMTT(30)
      <4>3. \E q : Laid(f[m], m, parts, q)
        BY ONLY <3>3, <3>6, <4>2
      <4>4. m \in Good
        BY <4>3
      <4> QED BY <3>1, <4>4
    <3> QED BY <3>5, <3>6
  <2>4. n \in Good
    <3> HIDE DEF Good
    <3>1. n \in 0..n
      OBVIOUS
    <3> QED BY <2>2, <2>3, <3>1, UpTo
  <2> QED BY <1>2, <2>4, <2>5
<1> QED BY <1>1, <1>2

-----------------------------------------------------------------------------
(* The items of a sheet.                                                   *)

Numbers(r) == IsNumber(r.quantity) /\ IsNumber(r.price) /\ IsNumber(r.total)
Rows(rows) == IsList(rows) /\ \A i \in DOMAIN rows : Numbers(rows[i])

(* item is what row r says.                                                *)
Shows(item, r) ==
    /\ item.row \in Nat /\ {item.quantity, item.price, item.total} \subseteq Int
    /\ item.name = r.name
    /\ Unambiguous(r.quantity) => item.quantity = r.quantity.value
    /\ Unambiguous(r.price)    => item.price = r.price.value
    /\ Unambiguous(r.total)    => item.total = r.total.value

(* The list has the rows at the places of S in their order, e, under       *)
(* growing numbers from low + 1 to high.                                   *)
Sheetful(list, f, S, low, high, e) ==
    /\ IsList(list) /\ Pairs(S) /\ Listing(e, Len(list), S)
    /\ \A k \in 1..Len(list) : /\ Shows(list[k], Top(f, e[k][1])[e[k][2]])
                               /\ low < list[k].row /\ list[k].row <= high
    /\ \A j, k \in 1..Len(list) : j < k => list[j].row < list[k].row

LEMMA OneSheet ==
    ASSUME NEW f, NEW n \in Nat, Rows(Top(f, n)), Recognised(f, n), NEW offset \in Nat, NEW label
    PROVE  \E e : Sheetful(extractItems(Top(f, n), offset, label), f, On(f, n), offset,
                           offset + Len(Top(f, n)), e)
<1> DEFINE rows   == Top(f, n)
           header == HeaderRow(rows)
           S      == {i \in DOMAIN rows : i > header /\ rows[i].name \notin Summaries}
           kept   == Ascending(S)
           list   == extractItems(rows, offset, label)
           e      == [k \in 1..Cardinality(S) |-> <<n, kept[k]>>]
<1>1. Len(rows) \in Nat /\ DOMAIN rows = 1..Len(rows)
  BY ListDomain DEF Rows
<1>2. IsFiniteSet(S) /\ S \subseteq Nat
  <2>1. S \in SUBSET (1..Len(rows)) /\ IsFiniteSet(1..Len(rows))
    BY <1>1, FS_Interval
  <2> HIDE DEF S, rows
  <2>2. IsFiniteSet(S)
    BY <2>1, FS_Subset
  <2> QED BY <1>1, <2>1, <2>2
<1>3. /\ DOMAIN list = DOMAIN kept
      /\ \A k \in DOMAIN kept :
            /\ list[k].row = offset + kept[k]
            /\ list[k].name = rows[kept[k]].name
            /\ list[k].quantity = parseNumber(rows[kept[k]].quantity)
            /\ list[k].price = parseNumber(rows[kept[k]].price)
            /\ list[k].total = parseNumber(rows[kept[k]].total)
      /\ list = [k \in DOMAIN kept |-> list[k]]
  <2> HIDE DEF rows
  <2> QED BY DEF extractItems
<1>4. On(f, n) = {<<n, i>> : i \in S}
  BY DEF On
<1>5. \A i \in S : i \in 1..Len(rows) /\ Numbers(rows[i])
  BY <1>1 DEF Rows
<1> HIDE DEF S, rows, header
<1>6. /\ Cardinality(S) \in Nat
      /\ DOMAIN kept = 1..Cardinality(S)
      /\ \A k \in 1..Cardinality(S) : kept[k] \in S
      /\ \A x \in S : \E k \in 1..Cardinality(S) : kept[k] = x
      /\ \A j, k \in 1..Cardinality(S) : j < k => kept[j] < kept[k]
  BY <1>2, AscendingLists
<1> HIDE DEF kept, list
<1>7. IsList(list) /\ Len(list) = Cardinality(S)
  BY <1>3, <1>6, FunctionIsList
<1>8. \A k \in 1..Len(list) : e[k] = <<n, kept[k]>> /\ e[k][1] = n /\ e[k][2] = kept[k]
  BY <1>7
<1> HIDE DEF e
<1>9. Pairs(On(f, n))
  BY <1>2, <1>4 DEF Pairs
<1>10. Listing(e, Len(list), On(f, n))
  <2>1. \A k \in 1..Len(list) : e[k] \in On(f, n)
    BY <1>4, <1>6, <1>7, <1>8
  <2>2. \A x \in On(f, n) : \E k \in 1..Len(list) : e[k] = x
    BY <1>4, <1>6, <1>7, <1>8, SMTT(30)
  <2>3. \A j, k \in 1..Len(list) : j < k => Precedes(e[j], e[k])
    BY <1>6, <1>7, <1>8 DEF Precedes
  <2> QED BY <2>1, <2>2, <2>3 DEF Listing
<1>11. ASSUME NEW k \in 1..Len(list)
       PROVE  /\ Shows(list[k], rows[kept[k]])
              /\ offset < list[k].row /\ list[k].row <= offset + Len(rows)
  <2>1. kept[k] \in 1..Len(rows) /\ Numbers(rows[kept[k]])
    BY <1>5, <1>6, <1>7
  <2>2. list[k].row = offset + kept[k]
    BY <1>3, <1>6, <1>7
  <2>3. list[k].row \in Nat /\ offset < list[k].row /\ list[k].row <= offset + Len(rows)
    BY <1>1, <2>1, <2>2
  <2>4. Shows(list[k], rows[kept[k]])
    BY <1>3, <1>6, <1>7, <2>1, <2>3, NumberRead, SMTT(30) DEF Shows, Numbers
  <2> QED BY <2>3, <2>4
<1>12. ASSUME NEW j \in 1..Len(list), NEW k \in 1..Len(list), j < k
       PROVE  list[j].row < list[k].row
  <2>1. list[j].row = offset + kept[j] /\ list[k].row = offset + kept[k]
    BY <1>3, <1>6, <1>7
  <2>2. kept[j] \in 1..Len(rows) /\ kept[k] \in 1..Len(rows) /\ kept[j] < kept[k]
    BY <1>5, <1>6, <1>7, <1>12
  <2> QED BY <2>1, <2>2
<1>13. \A k \in 1..Len(list) : Top(f, e[k][1])[e[k][2]] = rows[kept[k]]
  BY <1>8 DEF rows
<1>14. Sheetful(list, f, On(f, n), offset, offset + Len(rows), e)
  BY <1>7, <1>9, <1>10, <1>11, <1>12, <1>13 DEF Sheetful
<1> QED BY <1>14 DEF list, rows

LEMMA SheetfulGrows ==
    ASSUME NEW f, NEW a, NEW b, NEW S, NEW T, NEW e, NEW d,
           NEW low \in Nat, NEW mid \in Nat, NEW high \in Nat, low <= mid, mid <= high,
           Sheetful(a, f, S, low, mid, e), Sheetful(b, f, T, mid, high, d),
           \A x \in S : \A y \in T : Precedes(x, y)
    PROVE  \E g : Sheetful(a \o b, f, S \cup T, low, high, g)
<1> DEFINE n == Len(a)
           m == Len(b)
           c == a \o b
           g == [k \in 1..(n + m) |-> IF k <= n THEN e[k] ELSE d[k - n]]
<1>1. IsList(a) /\ IsList(b) /\ n \in Nat /\ m \in Nat
  BY ListDomain DEF Sheetful
<1>2. /\ IsList(c) /\ Len(c) = n + m
      /\ \A k \in 1..n : c[k] = a[k]
      /\ \A k \in 1..m : c[n + k] = b[k]
  BY <1>1, Concatenated
<1>3. Listing(g, n + m, S \cup T)
  BY <1>1, ListingGrows DEF Sheetful
<1>4. \A k \in 1..(n + m) : \/ k \in 1..n /\ c[k] = a[k] /\ g[k] = e[k]
                            \/ k - n \in 1..m /\ ~(k <= n) /\ c[k] = b[k - n] /\ g[k] = d[k - n]
  <2> SUFFICES ASSUME NEW k \in 1..(n + m)
               PROVE  \/ k \in 1..n /\ c[k] = a[k] /\ g[k] = e[k]
                      \/ k - n \in 1..m /\ ~(k <= n) /\ c[k] = b[k - n] /\ g[k] = d[k - n]
    OBVIOUS
  <2> HIDE DEF n, m, c
  <2>1. CASE k <= n
    BY <1>1, <1>2, <2>1
  <2>2. CASE ~(k <= n)
    <3>1. k - n \in 1..m /\ n + (k - n) = k
      BY <1>1, <2>2
    <3>2. c[n + (k - n)] = b[k - n]
      BY <1>2, <3>1
    <3> QED BY <2>2, <3>1, <3>2
  <2> QED BY <2>1, <2>2
<1> HIDE DEF n, m, c, g
<1>5. Pairs(S \cup T)
  BY DEF Sheetful, Pairs
<1>6. /\ \A k \in 1..n : /\ Shows(a[k], Top(f, e[k][1])[e[k][2]])
                         /\ low < a[k].row /\ a[k].row <= mid /\ a[k].row \in Nat
      /\ \A j, k \in 1..n : j < k => a[j].row < a[k].row
  BY DEF Sheetful, Shows, n
<1>7. /\ \A k \in 1..m : /\ Shows(b[k], Top(f, d[k][1])[d[k][2]])
                         /\ mid < b[k].row /\ b[k].row <= high /\ b[k].row \in Nat
      /\ \A j, k \in 1..m : j < k => b[j].row < b[k].row
  BY DEF Sheetful, Shows, m
<1>8. ASSUME NEW k \in 1..(n + m)
      PROVE  /\ Shows(c[k], Top(f, g[k][1])[g[k][2]])
             /\ low < c[k].row /\ c[k].row <= high
  <2>1. CASE k \in 1..n /\ c[k] = a[k] /\ g[k] = e[k]
    <3>1. low < a[k].row /\ a[k].row <= mid /\ a[k].row \in Nat
      BY <1>6, <2>1
    <3>2. low < a[k].row /\ a[k].row <= high
      BY <3>1
    <3> QED BY <1>6, <2>1, <3>2
  <2>2. CASE k - n \in 1..m /\ ~(k <= n) /\ c[k] = b[k - n] /\ g[k] = d[k - n]
    <3> DEFINE i == k - n
    <3>1. i \in 1..m
      BY <2>2
    <3> HIDE DEF i
    <3>2. mid < b[i].row /\ b[i].row <= high /\ b[i].row \in Nat
          /\ Shows(b[i], Top(f, d[i][1])[d[i][2]])
      BY <1>7, <3>1
    <3>3. low < b[i].row /\ b[i].row <= high
      BY <3>2
    <3> QED BY <2>2, <3>2, <3>3 DEF i
  <2> QED BY <1>4, <2>1, <2>2
<1>9. ASSUME NEW j \in 1..(n + m), NEW k \in 1..(n + m), j < k
      PROVE  c[j].row < c[k].row
  <2>1. CASE k \in 1..n /\ c[k] = a[k]
    <3>1. j \in 1..n
      BY <1>1, <1>9, <2>1
    <3>2. c[j] = a[j]
      BY <1>2, <3>1
    <3> QED BY <1>6, <1>9, <2>1, <3>1, <3>2
  <2>2. CASE k - n \in 1..m /\ ~(k <= n) /\ c[k] = b[k - n]
    <3>0. PICK i \in 1..m : i = k - n
      BY <2>2
    <3>1. CASE j \in 1..n /\ c[j] = a[j]
      <4>1. a[j].row <= mid /\ a[j].row \in Nat /\ mid < b[i].row /\ b[i].row \in Nat
        BY <1>6, <1>7, <3>1
      <4>2. a[j].row < b[i].row
        BY <4>1
      <4> QED BY <2>2, <3>0, <3>1, <4>2
    <3>2. CASE j - n \in 1..m /\ ~(j <= n) /\ c[j] = b[j - n]
      <4>1. j - n < i
        BY <1>1, <1>9, <3>0
      <4>2. b[j - n].row < b[i].row
        BY <1>7, <3>2, <4>1
      <4> QED BY <2>2, <3>0, <3>2, <4>2
    <3> QED BY <1>4, <3>1, <3>2
  <2> QED BY <1>4, <2>1, <2>2
<1>10. Sheetful(c, f, S \cup T, low, high, g)
  BY <1>2, <1>3, <1>5, <1>8, <1>9 DEF Sheetful
<1> QED BY <1>10 DEF c

LEMMA SheetfulWidens ==
    ASSUME NEW f, NEW a, NEW S, NEW e, NEW low \in Nat, NEW mid \in Nat, NEW high \in Nat,
           mid <= high, Sheetful(a, f, S, low, mid, e)
    PROVE  Sheetful(a, f, S, low, high, e)
<1>1. ASSUME NEW k \in 1..Len(a) PROVE a[k].row <= high
  <2>1. a[k].row \in Nat /\ a[k].row <= mid
    BY DEF Sheetful, Shows
  <2> QED BY <2>1
<1> QED BY <1>1 DEF Sheetful

LEMMA SheetfulEmpty ==
    ASSUME NEW f
    PROVE  Sheetful(<<>>, f, {}, 0, 0, <<>>)
<1>1. Len(<<>>) = 0 /\ IsList(<<>>)
  <2>1. <<>> \in Seq({}) /\ ToSet(<<>>) = {} /\ Len(<<>>) = 0
    BY DEF ToSet
  <2> QED BY <2>1 DEF IsList
<1>2. \A k \in 1..0 : FALSE
  OBVIOUS
<1> QED BY <1>1, <1>2 DEF Sheetful, Pairs, Listing

-----------------------------------------------------------------------------
(* The sheets of a file.                                                   *)

(* The places on the first n sheets.                                       *)
Upto(f, n) == UNION {On(f, m) : m \in 1..n}

(* What is found while the first n sheets are read: it is never about a    *)
(* duplicate, and none of it is serious only if, in a workbook, they were  *)
(* read to the end, or skipped with a finding.                             *)
ReadFound(found, f, n) ==
    /\ IsList(found)
    /\ \A x \in ToSet(found) : x.title \in {"SheetUnread", "SheetTooLong", "SheetSkipped"}
    /\ Titled(found, High) = {} /\ IsWorkbook(f) =>
          \A m \in 1..n : /\ f.sheets[m].readable /\ Len(f.sheets[m].rows) <= MaxRows
                         /\ Reported(found, f, m)

LEMMA FileTyped ==
    ASSUME NEW f \in Files
    PROVE  /\ f.opens \in BOOLEAN /\ IsList(f.sheets)
           /\ Len(f.sheets) \in Nat /\ DOMAIN f.sheets = 1..Len(f.sheets)
           /\ ToSet(f.sheets) = {f.sheets[m] : m \in 1..Len(f.sheets)}
           /\ f.kind = "csv" => Len(f.sheets) = 1
           /\ \A m \in 1..Len(f.sheets) :
                 /\ f.sheets[m].readable \in BOOLEAN
                 /\ Rows(f.sheets[m].rows)
                 /\ f.kind \in {"csv", "xls"} => f.sheets[m].readable
<1>1. /\ f.opens \in BOOLEAN
      /\ f.kind = "csv" => Len(f.sheets) = 1
      /\ f.kind \in {"csv", "xls"} => \A s \in ToSet(f.sheets) : s.readable
      /\ IsList(f.sheets)
      /\ \A s \in ToSet(f.sheets) :
            s.readable \in BOOLEAN /\ IsList(s.rows) /\ \A r \in ToSet(s.rows) : IsRow(r)
  BY ChecksAssumption DEF ChecksAssumption
<1>2. /\ Len(f.sheets) \in Nat /\ DOMAIN f.sheets = 1..Len(f.sheets)
      /\ ToSet(f.sheets) = {f.sheets[m] : m \in 1..Len(f.sheets)}
  BY <1>1, ListDomain DEF ToSet
<1>3. ASSUME NEW m \in 1..Len(f.sheets) PROVE Rows(f.sheets[m].rows)
  <2>1. IsList(f.sheets[m].rows) /\ \A r \in ToSet(f.sheets[m].rows) : IsRow(r)
    BY <1>1, <1>2
  <2> QED BY <2>1 DEF Rows, ToSet, IsRow, Numbers
<1> QED BY <1>1, <1>2, <1>3

LEMMA Beginning ==
    ASSUME NEW rows, Rows(rows), NEW n \in Nat
    PROVE  LET top == SubSeq(rows, 1, Min({Len(rows), n}))
           IN  /\ Rows(top) /\ Len(top) <= Len(rows)
               /\ \A i \in DOMAIN top : i \in DOMAIN rows /\ top[i] = rows[i]
<1> DEFINE m == Min({Len(rows), n})
           top == SubSeq(rows, 1, m)
<1>1. Len(rows) \in Nat /\ DOMAIN rows = 1..Len(rows) /\ IsList(rows)
  BY ListDomain DEF Rows
<1>2. m \in Nat /\ m <= Len(rows)
  <2>1. {Len(rows), n} \subseteq Nat /\ {Len(rows), n} # {}
    BY <1>1
  <2>2. m \in {Len(rows), n} /\ \A x \in {Len(rows), n} : m <= x
    BY <2>1, MinIn
  <2> HIDE DEF m
  <2> QED BY <1>1, <2>2
<1> HIDE DEF m
<1>3. /\ Len(top) = m /\ \A i \in 1..m : top[i] = rows[i]
      /\ top = [i \in 1..m |-> top[i]]
  <2>1. \A i \in 1..m : rows[i] \in ToSet(rows)
    BY <1>1, <1>2 DEF ToSet
  <2>2. /\ top \in Seq(ToSet(rows))
        /\ Len(top) = IF 1 <= m THEN m - 1 + 1 ELSE 0
        /\ \A i \in 1..(m - 1 + 1) : top[i] = rows[1 + i - 1]
    <3> HIDE DEF top
    <3> QED BY <1>2, <2>1, SubSeqProperties DEF top
  <2> HIDE DEF top
  <2>3. Len(top) = m /\ m - 1 + 1 = m /\ \A i \in 1..m : 1 + i - 1 = i
    BY <1>2, <2>2
  <2>4. top = [i \in 1..Len(top) |-> top[i]]
    BY <2>2, LenProperties
  <2> QED BY <2>2, <2>3, <2>4
<1>4. IsList(top)
  <2> HIDE DEF top
  <2> QED BY <1>2, <1>3, FunctionIsList
<1> HIDE DEF top
<1>5. DOMAIN top = 1..m /\ \A i \in 1..m : i \in 1..Len(rows)
  BY <1>1, <1>2, <1>3
<1>6. \A i \in DOMAIN top : i \in DOMAIN rows /\ top[i] = rows[i]
  BY <1>1, <1>3, <1>5
<1>7. Rows(top) /\ Len(top) <= Len(rows)
  BY <1>2, <1>3, <1>4, <1>6 DEF Rows
<1> QED BY <1>6, <1>7 DEF top, m

LEMMA EmptyIsARow == Numbers(EmptyRow)
BY DEF Numbers, EmptyRow, NoCell, IsNumber

LEMMA Singles ==
    /\ IsList(<<>>) /\ Len(<<>>) = 0
    /\ \A x : IsList(<<x>>) /\ Len(<<x>>) = 1 /\ <<x>>[1] = x
<1>1. <<>> \in Seq({}) /\ ToSet(<<>>) = {} /\ Len(<<>>) = 0
  BY DEF ToSet
<1>2. ASSUME NEW x PROVE IsList(<<x>>) /\ Len(<<x>>) = 1 /\ <<x>>[1] = x
  <2>1. <<x>> \in Seq({x}) /\ DOMAIN <<x>> = 1..1 /\ <<x>>[1] = x /\ Len(<<x>>) = 1
    OBVIOUS
  <2>2. ToSet(<<x>>) = {x}
    BY <2>1 DEF ToSet
  <2> QED BY <2>1, <2>2 DEF IsList
<1> QED BY <1>1, <1>2 DEF IsList

LEMMA RowsJoined ==
    ASSUME NEW s, Rows(s), NEW t, Rows(t)
    PROVE  Rows(s \o t)
<1>1. /\ IsList(s) /\ Len(s) \in Nat /\ DOMAIN s = 1..Len(s)
      /\ IsList(t) /\ Len(t) \in Nat /\ DOMAIN t = 1..Len(t)
  BY ListDomain DEF Rows
<1>2. /\ IsList(s \o t) /\ Len(s \o t) = Len(s) + Len(t)
      /\ \A k \in 1..Len(s) : (s \o t)[k] = s[k]
      /\ \A k \in 1..Len(t) : (s \o t)[Len(s) + k] = t[k]
  BY <1>1, Concatenated
<1>3. DOMAIN (s \o t) = 1..(Len(s) + Len(t))
  BY <1>2, ListDomain
<1>4. ASSUME NEW k \in 1..(Len(s) + Len(t)) PROVE Numbers((s \o t)[k])
  <2>1. CASE k \in 1..Len(s)
    BY <1>1, <1>2, <2>1 DEF Rows
  <2>2. CASE k \notin 1..Len(s)
    <3>1. PICK i \in 1..Len(t) : k = Len(s) + i
      <4>1. k - Len(s) \in 1..Len(t) /\ k = Len(s) + (k - Len(s))
        BY <1>1, <2>2
      <4> QED BY <4>1
    <3> QED BY <1>1, <1>2, <3>1 DEF Rows
  <2> QED BY <2>1, <2>2
<1> QED BY <1>2, <1>3, <1>4 DEF Rows

LEMMA TableTyped ==
    ASSUME NEW f \in Files, f.kind \in {"csv", "xls"}
    PROVE  Rows(TableRows(f))
<1>1. /\ IsList(f.sheets) /\ Len(f.sheets) \in Nat
      /\ \A m \in 1..Len(f.sheets) : Rows(f.sheets[m].rows)
  BY FileTyped
<1>2. CASE f.kind = "csv"
  <2>1. Len(f.sheets) = 1
    BY <1>2, FileTyped
  <2>2. TableRows(f) = f.sheets[1].rows
    BY <1>2 DEF TableRows
  <2> QED BY <1>1, <2>1, <2>2
<1>3. CASE f.kind = "xls"
  <2> DEFINE sheets  == f.sheets
             n       == Min({Len(sheets), MaxSheets})
             top(k)  == SubSeq(sheets[k].rows, 1, Min({Len(sheets[k].rows), MaxRows}))
             gap(k)  == IF k < Len(sheets) THEN <<EmptyRow>> ELSE <<>>
             parts   == [k \in 1..n |-> top(k) \o gap(k)]
  <2>1. TableRows(f) = FlattenSeq(parts)
    BY <1>3 DEF TableRows, readXLSRows
  <2>2. n \in Nat /\ n <= Len(sheets)
    <3>1. {Len(sheets), MaxSheets} \subseteq Nat /\ {Len(sheets), MaxSheets} # {}
      BY <1>1, ChecksAssumption DEF ChecksAssumption
    <3>2. n \in {Len(sheets), MaxSheets} /\ \A x \in {Len(sheets), MaxSheets} : n <= x
      BY <3>1, MinIn
    <3> HIDE DEF n
    <3> QED BY <3>1, <3>2
  <2> HIDE DEF n
  <2>3. ASSUME NEW k \in 1..n PROVE Rows(parts[k])
    <3>1. Rows(sheets[k].rows) /\ MaxRows \in Nat
      BY <1>1, <2>2, ChecksAssumption DEF ChecksAssumption
    <3>2. Rows(top(k))
      BY <3>1, Beginning
    <3>3. Rows(gap(k))
      <4>1. <<EmptyRow>> = [i \in 1..1 |-> EmptyRow] /\ <<>> = [i \in 1..0 |-> EmptyRow]
        OBVIOUS
      <4>2. IsList(<<EmptyRow>>) /\ IsList(<<>>)
        BY Singles
      <4>3. \A i \in DOMAIN <<EmptyRow>> : <<EmptyRow>>[i] = EmptyRow
        OBVIOUS
      <4> QED BY <4>2, <4>3, EmptyIsARow DEF Rows
    <3>4. parts[k] = top(k) \o gap(k)
      OBVIOUS
    <3> HIDE DEF parts, top, gap, sheets
    <3> QED BY <3>2, <3>3, <3>4, RowsJoined
  <2>4. IsList(parts) /\ Len(parts) = n
    <3>1. parts = [k \in 1..n |-> parts[k]]
      OBVIOUS
    <3> HIDE DEF parts
    <3> QED BY <2>2, <3>1, FunctionIsList
  <2> HIDE DEF parts, sheets
  <2>5. \E p : Laid(FlattenSeq(parts), n, parts, p)
    BY <2>2, <2>3, <2>4, FlattenLaid DEF Rows
  <2> DEFINE t == FlattenSeq(parts)
  <2> HIDE DEF t
  <2>6. PICK p : Laid(t, n, parts, p)
    BY <2>5 DEF t
  <2>7. IsList(t) /\ DOMAIN t = 1..Len(t)
    BY <2>6, ListDomain DEF Laid
  <2>8. ASSUME NEW i \in 1..Len(t) PROVE Numbers(t[i])
    <3>1. PICK h \in 1..n : \E k \in 1..Len(parts[h]) : i = p[h] + k
      BY <2>6 DEF Laid
    <3>2. PICK k \in 1..Len(parts[h]) : i = p[h] + k
      BY <3>1
    <3>3. t[i] = parts[h][k]
      BY <2>6, <3>2 DEF Laid
    <3>4. k \in DOMAIN parts[h]
      BY <2>3, ListDomain DEF Rows
    <3> QED BY <2>3, <3>3, <3>4 DEF Rows
  <2> QED BY <2>1, <2>7, <2>8 DEF Rows, t
<1> QED BY <1>2, <1>3

(* The sheets that are read, and the rows of each that are looked at.      *)
LEMMA SheetsTyped ==
    ASSUME NEW f \in Files, f.kind \in {"csv", "xls"} \/ IsWorkbook(f)
    PROVE  /\ DOMAIN SheetsRead(f) = 1..Len(SheetsRead(f)) /\ Len(SheetsRead(f)) \in Nat
           /\ Len(SheetsRead(f)) = IF IsWorkbook(f) THEN Len(f.sheets) ELSE 1
           /\ \A n \in 1..Len(SheetsRead(f)) :
                /\ Rows(Top(f, n))
                /\ \A i \in DOMAIN Top(f, n) : SheetsRead(f)[n].rows[i] = Top(f, n)[i]
<1>0. MaxRows \in Nat
  BY ChecksAssumption DEF ChecksAssumption
<1>1. CASE IsWorkbook(f)
  <2>1. SheetsRead(f) = f.sheets
    BY <1>1 DEF SheetsRead
  <2>2. ASSUME NEW n \in 1..Len(f.sheets)
        PROVE  /\ Rows(Top(f, n))
               /\ \A i \in DOMAIN Top(f, n) : f.sheets[n].rows[i] = Top(f, n)[i]
    <3>1. Rows(f.sheets[n].rows)
      BY FileTyped
    <3> DEFINE top == SubSeq(f.sheets[n].rows, 1, Min({Len(f.sheets[n].rows), MaxRows}))
    <3>2. Top(f, n) = top
      BY <1>1, <2>1 DEF Top
    <3>3. Rows(top) /\ \A i \in DOMAIN top : top[i] = f.sheets[n].rows[i]
      BY <1>0, <3>1, Beginning
    <3> HIDE DEF top
    <3> QED BY <3>2, <3>3
  <2> QED BY <1>1, <2>1, <2>2, FileTyped
<1>2. CASE ~IsWorkbook(f)
  <2> DEFINE s == [rows |-> TableRows(f), readable |-> f.opens]
  <2>1. SheetsRead(f) = <<s>>
    BY <1>2 DEF SheetsRead
  <2>2. Rows(TableRows(f))
    BY <1>2, TableTyped
  <2>3. /\ DOMAIN SheetsRead(f) = 1..1 /\ Len(SheetsRead(f)) = 1
        /\ SheetsRead(f)[1].rows = TableRows(f)
    BY <2>1
  <2>4. Top(f, 1) = TableRows(f)
    BY <1>2, <2>3 DEF Top
  <2>5. \A n \in 1..1 : n = 1
    OBVIOUS
  <2> QED BY <1>2, <2>2, <2>3, <2>4, <2>5
<1> QED BY <1>1, <1>2

-----------------------------------------------------------------------------
(* Findings.                                                               *)

LEMMA ToSetJoined ==
    ASSUME NEW s, IsList(s), NEW t, IsList(t)
    PROVE  IsList(s \o t) /\ ToSet(s \o t) = ToSet(s) \cup ToSet(t)
<1>1. /\ Len(s) \in Nat /\ DOMAIN s = 1..Len(s)
      /\ Len(t) \in Nat /\ DOMAIN t = 1..Len(t)
  BY ListDomain
<1>2. /\ IsList(s \o t) /\ Len(s \o t) = Len(s) + Len(t)
      /\ \A k \in 1..Len(s) : (s \o t)[k] = s[k]
      /\ \A k \in 1..Len(t) : (s \o t)[Len(s) + k] = t[k]
  BY Concatenated
<1>3. DOMAIN (s \o t) = 1..(Len(s) + Len(t))
  BY <1>2, ListDomain
<1>4. \A k \in 1..(Len(s) + Len(t)) : k \in 1..Len(s) \/ \E i \in 1..Len(t) : k = Len(s) + i
  <2> SUFFICES ASSUME NEW k \in 1..(Len(s) + Len(t)), k \notin 1..Len(s)
               PROVE  \E i \in 1..Len(t) : k = Len(s) + i
    OBVIOUS
  <2>1. k - Len(s) \in 1..Len(t) /\ k = Len(s) + (k - Len(s))
    BY <1>1
  <2> QED BY <2>1
<1>5. ASSUME NEW x \in ToSet(s \o t) PROVE x \in ToSet(s) \cup ToSet(t)
  <2>1. PICK k \in 1..(Len(s) + Len(t)) : x = (s \o t)[k]
    BY <1>3 DEF ToSet
  <2> QED BY <1>1, <1>2, <1>4, <2>1 DEF ToSet
<1>6. \A k \in 1..Len(s) : k \in 1..(Len(s) + Len(t))
  BY <1>1
<1>7. \A k \in 1..Len(t) : Len(s) + k \in 1..(Len(s) + Len(t))
  BY <1>1
<1>8. ToSet(s) \subseteq ToSet(s \o t)
  BY <1>1, <1>2, <1>3, <1>6 DEF ToSet
<1>9. ToSet(t) \subseteq ToSet(s \o t)
  BY <1>1, <1>2, <1>3, <1>7 DEF ToSet
<1> QED BY <1>2, <1>5, <1>8, <1>9

LEMMA WhenIsList ==
    ASSUME NEW c, NEW x
    PROVE  /\ IsList(When(c, x))
           /\ ToSet(When(c, x)) = IF c THEN {x} ELSE {}
           /\ Len(When(c, x)) = IF c THEN 1 ELSE 0
           /\ c => When(c, x)[1] = x
<1>1. CASE c
  <2>1. When(c, x) = <<x>>
    BY <1>1 DEF When
  <2>2. ToSet(<<x>>) = {x}
    BY DEF ToSet
  <2> QED BY <1>1, <2>1, <2>2, Singles
<1>2. CASE ~c
  <2>1. When(c, x) = <<>>
    BY <1>2 DEF When
  <2>2. ToSet(<<>>) = {}
    BY DEF ToSet
  <2> QED BY <1>2, <2>1, <2>2, Singles
<1> QED BY <1>1, <1>2

LEMMA AppendIsJoin ==
    ASSUME NEW s, IsList(s), NEW x
    PROVE  IsList(Append(s, x)) /\ ToSet(Append(s, x)) = ToSet(s) \cup {x}
<1>1. Append(s, x) = s \o <<x>>
  <2> DEFINE Q == ToSet(s) \cup {x}
  <2>1. Len(s) \in Nat /\ x \in Q
    BY ListDomain
  <2>2. s \in [1..Len(s) -> ToSet(s)]
    BY LenProperties DEF IsList
  <2>3. s \in [1..Len(s) -> Q]
    BY <2>2
  <2> HIDE DEF Q
  <2>4. s \in Seq(Q)
    BY <2>1, <2>3
  <2> QED BY <2>1, <2>4, AppendIsConcat
<1>2. IsList(<<x>>) /\ ToSet(<<x>>) = {x}
  BY Singles DEF ToSet
<1> QED BY <1>1, <1>2, ToSetJoined

LEMMA TitledNone ==
    ASSUME NEW s, IsList(s), NEW T
    PROVE  Titled(s, T) = {} <=> \A x \in ToSet(s) : x.title \notin T
BY ListDomain DEF Titled, ToSet

(* A file that is given up.                                                *)
LEMMA Given ==
    ASSUME NEW s, IsList(s), \A x \in ToSet(s) : x.title # "Duplicate",
           NEW title \in {"ReadError", "NoRows", "NoColumns"}
    PROVE  LET found == Append(s, Finding(title, 0, 0))
           IN  Titled(found, {"Duplicate"}) = {} /\ Titled(found, High) # {}
<1> DEFINE found == Append(s, Finding(title, 0, 0))
<1>1. IsList(found) /\ ToSet(found) = ToSet(s) \cup {Finding(title, 0, 0)}
  BY AppendIsJoin
<1>2. Finding(title, 0, 0).title = title
  BY DEF Finding
<1>3. title # "Duplicate" /\ title \in High
  BY DEF High
<1> HIDE DEF found
<1>4. Titled(found, {"Duplicate"}) = {}
  BY <1>1, <1>2, <1>3, TitledNone
<1>5. Titled(found, High) # {}
  BY <1>1, <1>2, <1>3, TitledNone
<1> QED BY <1>4, <1>5 DEF found

-----------------------------------------------------------------------------
(* The analysis.  While a file is read, the items so far are the rows of   *)
(* the sheets so far, and what was found says whether they were read to    *)
(* the end; what came of a file is either a failure, with a finding, or    *)
(* all its rows, checked.                                                  *)

IsSpreadsheet(f) == IsWorkbook(f) \/ f.kind \in {"csv", "xls"}

ItemsOf(list, f, n, high) == \E e : Sheetful(list, f, Upto(f, n), 0, high, e)

Complete(list, found, f) ==
    /\ IsSpreadsheet(f)
    /\ \E high \in Nat : ItemsOf(list, f, Len(SheetsRead(f)), high)
    /\ \E reads : ReadFound(reads, f, Len(f.sheets)) /\ found = Checked(list, reads)

Failed(list, found, f) ==
    /\ list = <<>> /\ Titled(found, {"Duplicate"}) = {}
    /\ f.kind = "pdf" \/ Titled(found, High) # {}

ResultInv(r, f) ==
    /\ Failed(r.items, r.findings, f) \/ Complete(r.items, r.findings, f)
    /\ r.total = sumItemsTotal(r.items)
    /\ r.status = estimateStatus(r.findings)

NothingYet == items = <<>> /\ findings = <<>> /\ sheet = 1 /\ rowOffset = 0

SheetsInv ==
    /\ IsWorkbook(file) /\ sheet \in 1..(Len(file.sheets) + 1) /\ rowOffset \in Nat
    /\ ItemsOf(items, file, sheet - 1, rowOffset)
    /\ ReadFound(findings, file, sheet - 1)

ItemsInv ==
    /\ IsSpreadsheet(file)
    /\ \E high \in Nat : ItemsOf(items, file, Len(SheetsRead(file)), high)
    /\ ReadFound(findings, file, Len(file.sheets))

ComparedInv ==
    /\ which = "new" /\ phase \in {"open", "sheets", "items"} /\ op # "upload" =>
          "base" \in DOMAIN results
    /\ phase \in {"compare", "keep", "done"} /\ op = "compare" => {"base", "new"} \subseteq DOMAIN results
    /\ phase \in {"keep", "done"} /\ op = "compare" =>
          comparison = compareEstimateItems(results["base"].items, results["new"].items)

ChecksInv ==
    /\ \A s \in DOMAIN results : s \in DOMAIN input /\ ResultInv(results[s], input[s])
    /\ phase \in {"form", "save", "inspect", "store", "open"} => NothingYet
    /\ phase = "sheets" => SheetsInv
    /\ phase = "items" => ItemsInv
    /\ ComparedInv

LEMMA ChecksInit == Init => ChecksInv
<1> SUFFICES ASSUME Init PROVE ChecksInv
  OBVIOUS
<1>1. phase = "form" /\ NothingAnalysed
  BY DEF Init
<1> QED BY <1>1 DEF ChecksInv, NothingAnalysed, NothingYet, ComparedInv

(* The next sheet, or the only one.                                        *)
LEMMA UptoNext ==
    ASSUME NEW f, NEW n \in Nat, NEW m \in Nat, m = n + 1
    PROVE  Upto(f, m) = Upto(f, n) \cup On(f, m)
<1>1. \A k \in 1..m : k \in 1..n \/ k = m
  OBVIOUS
<1>2. m \in 1..m /\ \A k \in 1..n : k \in 1..m
  OBVIOUS
<1> QED BY <1>1, <1>2 DEF Upto

LEMMA UptoFirst ==
    ASSUME NEW f
    PROVE  Upto(f, 0) = {} /\ Upto(f, 1) = On(f, 1)
<1>1. \A k \in 1..0 : FALSE
  OBVIOUS
<1>2. 1 \in 1..1 /\ \A k \in 1..1 : k = 1
  OBVIOUS
<1> QED BY <1>1, <1>2 DEF Upto

LEMMA FinishHolds ==
    ASSUME SidesInv, ChecksInv, phase \in {"open", "sheets", "items"}, NEW list, NEW found,
           Failed(list, found, file) \/ Complete(list, found, file), Finish(list, found)
    PROVE  ChecksInv'
<1>1. /\ op' = op /\ input' = input /\ comparison' = comparison
      /\ results' = [s \in DOMAIN results \cup {which} |->
                        IF s = which THEN Result(list, found) ELSE results[s]]
      /\ which' = "new"
      /\ phase' = IF which = "base" THEN "open" ELSE IF op = "compare" THEN "compare" ELSE "keep"
      /\ sheet' = 1 /\ rowOffset' = 0 /\ items' = <<>> /\ findings' = <<>>
  BY DEF Finish
<1>2. /\ Result(list, found).items = list /\ Result(list, found).findings = found
      /\ Result(list, found).total = sumItemsTotal(list)
      /\ Result(list, found).status = estimateStatus(found)
  BY DEF Result
<1>3. ResultInv(Result(list, found), file)
  BY <1>2 DEF ResultInv
<1>4. /\ DOMAIN results' = DOMAIN results \cup {which}
      /\ \A s \in DOMAIN results' :
            results'[s] = IF s = which THEN Result(list, found) ELSE results[s]
  BY <1>1
<1>5. \A s \in DOMAIN results' : s \in DOMAIN input' /\ ResultInv(results'[s], input'[s])
  BY <1>1, <1>3, <1>4 DEF ChecksInv, SidesInv, file
<1>6. NothingYet'
  BY <1>1 DEF NothingYet
<1>7. ComparedInv'
  <2>1. which \in {"base", "new"} /\ (which = "base" => op # "upload")
    BY DEF SidesInv
  <2>2. phase' \in {"open", "compare", "keep"} /\ (phase' = "keep" => op # "compare")
    BY <1>1
  <2>3. ComparedInv
    BY DEF ChecksInv
  <2>4. CASE which = "base"
    <3>1. phase' = "open" /\ "base" \in DOMAIN results'
      BY <1>1, <1>4, <2>4
    <3> QED BY <3>1 DEF ComparedInv
  <2>5. CASE which = "new"
    <3>1. phase' \in {"compare", "keep"} /\ (phase' = "keep" => op' # "compare")
      BY <1>1, <2>5
    <3>2. op = "compare" => {"base", "new"} \subseteq DOMAIN results'
      BY <1>4, <2>3, <2>5 DEF ComparedInv
    <3> QED BY <1>1, <3>1, <3>2 DEF ComparedInv
  <2> QED BY <2>1, <2>4, <2>5
<1>8. phase' \notin {"sheets", "items"}
  BY <1>1
<1> HIDE DEF ResultInv
<1> QED BY <1>5, <1>6, <1>7, <1>8 DEF ChecksInv

LEMMA FailHolds ==
    ASSUME SidesInv, ChecksInv, phase \in {"open", "sheets"},
           NEW title \in {"ReadError", "NoRows", "NoColumns"}, Fail(title)
    PROVE  ChecksInv'
<1>1. IsList(findings) /\ \A x \in ToSet(findings) : x.title # "Duplicate"
  <2>1. CASE phase = "open"
    <3>1. findings = <<>>
      BY <2>1 DEF ChecksInv, NothingYet
    <3>2. ToSet(<<>>) = {}
      BY DEF ToSet
    <3> QED BY <3>1, <3>2, Singles
  <2>2. CASE phase = "sheets"
    BY <2>2 DEF ChecksInv, SheetsInv, ReadFound
  <2> QED BY <2>1, <2>2
<1> DEFINE found == Append(findings, Finding(title, 0, 0))
<1>2. Failed(<<>>, found, file)
  BY <1>1, Given DEF Failed
<1>3. Finish(<<>>, found)
  BY DEF Fail
<1> HIDE DEF found
<1> QED BY <1>2, <1>3, FinishHolds

LEMMA OpenHolds ==
    ASSUME SidesInv, ChecksInv, OpenWorkbook
    PROVE  ChecksInv'
<1>1. phase = "open" /\ IsWorkbook(file) /\ file \in Files
  BY DEF OpenWorkbook, SidesInv, file
<1>2. CASE Fail("ReadError")
  BY <1>1, <1>2, FailHolds
<1>3. CASE Continue("sheets") /\ UNCHANGED <<sheet, rowOffset, items, findings>>
  <2>1. /\ op' = op /\ input' = input /\ which' = which /\ results' = results
        /\ comparison' = comparison /\ phase' = "sheets"
        /\ items' = <<>> /\ findings' = <<>> /\ sheet' = 1 /\ rowOffset' = 0
    BY <1>1, <1>3 DEF Continue, ChecksInv, NothingYet
  <2>2. Len(file.sheets) \in Nat /\ file' = file
    BY <1>1, <2>1, FileTyped DEF file
  <2>3. ItemsOf(<<>>, file, 0, 0)
    BY SheetfulEmpty, UptoFirst DEF ItemsOf
  <2>4. ReadFound(<<>>, file, 0)
    <3>1. ToSet(<<>>) = {} /\ \A m \in 1..0 : FALSE
      BY DEF ToSet
    <3> QED BY <3>1, Singles DEF ReadFound
  <2>5. SheetsInv'
    BY <1>1, <2>1, <2>2, <2>3, <2>4 DEF SheetsInv
  <2>6. ComparedInv'
    BY <1>1, <2>1 DEF ChecksInv, ComparedInv
  <2> QED BY <2>1, <2>5, <2>6 DEF ChecksInv
<1> QED BY <1>2, <1>3 DEF OpenWorkbook

LEMMA TableHolds ==
    ASSUME SidesInv, ChecksInv, ReadTable
    PROVE  ChecksInv'
<1>1. phase = "open" /\ file.kind \in {"csv", "xls"} /\ file \in Files
  BY DEF ReadTable, SidesInv, file
<1>2. CASE Fail("ReadError") \/ Fail("NoRows") \/ Fail("NoColumns")
  BY <1>1, <1>2, FailHolds
<1>3. CASE /\ file.opens /\ TableRows(file) # <<>> /\ requiredColumnsFound(TableRows(file))
           /\ Continue("items") /\ items' = extractItems(TableRows(file), 0, NoLabel)
           /\ UNCHANGED <<sheet, rowOffset, findings>>
  <2>1. /\ op' = op /\ input' = input /\ which' = which /\ results' = results
        /\ comparison' = comparison /\ phase' = "items"
        /\ items' = extractItems(TableRows(file), 0, NoLabel) /\ findings' = <<>>
    BY <1>1, <1>3 DEF Continue, ChecksInv, NothingYet
  <2>2. file' = file
    BY <2>1 DEF file
  <2>3. ~IsWorkbook(file)
    BY <1>1 DEF IsWorkbook
  <2>4. /\ Len(SheetsRead(file)) = 1 /\ SheetsRead(file)[1].readable = file.opens
        /\ Top(file, 1) = TableRows(file)
    <3> DEFINE s == [rows |-> TableRows(file), readable |-> file.opens]
    <3>1. SheetsRead(file) = <<s>> /\ s.rows = TableRows(file) /\ s.readable = file.opens
      BY <2>3 DEF SheetsRead
    <3> HIDE DEF s
    <3> QED BY <2>3, <3>1 DEF Top
  <2>5. Recognised(file, 1)
    BY <1>3, <2>4 DEF Recognised
  <2>6. Rows(Top(file, 1)) /\ Len(TableRows(file)) \in Nat
    BY <1>1, <2>4, TableTyped, ListDomain DEF Rows
  <2>7. PICK e : Sheetful(items', file, On(file, 1), 0, 0 + Len(TableRows(file)), e)
    BY <2>1, <2>4, <2>5, <2>6, OneSheet
  <2>8. Upto(file, 1) = On(file, 1)
    BY UptoFirst
  <2>9. \E high \in Nat : ItemsOf(items', file, Len(SheetsRead(file)), high)
    BY <2>4, <2>6, <2>7, <2>8 DEF ItemsOf
  <2>10. ReadFound(<<>>, file, Len(file.sheets))
    <3>1. ToSet(<<>>) = {}
      BY DEF ToSet
    <3> QED BY <2>3, <3>1, Singles DEF ReadFound
  <2>11. ItemsInv'
    BY <1>1, <2>1, <2>2, <2>9, <2>10 DEF ItemsInv, IsSpreadsheet
  <2>12. ComparedInv'
    BY <1>1, <2>1 DEF ChecksInv, ComparedInv
  <2> QED BY <2>1, <2>11, <2>12 DEF ChecksInv
<1> QED BY <1>2, <1>3 DEF ReadTable

LEMMA PDFHolds ==
    ASSUME SidesInv, ChecksInv, PassPDF
    PROVE  ChecksInv'
<1>1. phase = "open" /\ file.kind = "pdf" /\ Finish(<<>>, <<>>)
  BY DEF PassPDF
<1>2. Titled(<<>>, {"Duplicate"}) = {}
  <2>1. ToSet(<<>>) = {}
    BY DEF ToSet
  <2> QED BY <2>1, Singles, TitledNone
<1>3. Failed(<<>>, <<>>, file)
  BY <1>1, <1>2 DEF Failed
<1> QED BY <1>1, <1>3, FinishHolds

LEMMA CheckHolds ==
    ASSUME SidesInv, ChecksInv, CheckItems
    PROVE  ChecksInv'
<1>1. phase = "items" /\ Finish(items, Checked(items, findings)) /\ ItemsInv
  BY DEF CheckItems, ChecksInv
<1>2. Complete(items, Checked(items, findings), file)
  BY <1>1 DEF Complete, ItemsInv
<1> QED BY <1>1, <1>2, FinishHolds

LEMMA CloseHolds ==
    ASSUME SidesInv, ChecksInv, CloseWorkbook
    PROVE  ChecksInv'
<1>1. phase = "sheets" /\ sheet > Len(file.sheets) /\ SheetsInv /\ file \in Files
  BY DEF CloseWorkbook, ChecksInv, SidesInv, file
<1>2. CASE Fail("ReadError")
  BY <1>1, <1>2, FailHolds
<1>3. CASE Continue("items") /\ UNCHANGED <<sheet, rowOffset, items, findings>>
  <2>1. /\ op' = op /\ input' = input /\ which' = which /\ results' = results
        /\ comparison' = comparison /\ phase' = "items"
        /\ items' = items /\ findings' = findings
    BY <1>3 DEF Continue
  <2>2. file' = file /\ Len(file.sheets) \in Nat
    BY <1>1, <2>1, FileTyped DEF file
  <2>3. sheet - 1 = Len(file.sheets)
    BY <1>1, <2>2 DEF SheetsInv
  <2>4. SheetsRead(file) = file.sheets
    BY <1>1 DEF SheetsInv, SheetsRead
  <2>5. ItemsInv'
    BY <1>1, <2>1, <2>2, <2>3, <2>4 DEF SheetsInv, ItemsInv, IsSpreadsheet
  <2>6. ComparedInv'
    BY <1>1, <2>1 DEF ChecksInv, ComparedInv
  <2> QED BY <2>1, <2>5, <2>6 DEF ChecksInv
<1> QED BY <1>2, <1>3 DEF CloseWorkbook

LEMMA CompareHolds ==
    ASSUME SidesInv, ChecksInv, Compare
    PROVE  ChecksInv'
<1>1. /\ phase = "compare" /\ phase' = "keep"
      /\ comparison' = compareEstimateItems(results["base"].items, results["new"].items)
      /\ op' = op /\ input' = input /\ which' = which /\ results' = results
  BY DEF Compare
<1>2. ComparedInv'
  BY <1>1 DEF ChecksInv, ComparedInv
<1> QED BY <1>1, <1>2 DEF ChecksInv

LEMMA SheetHolds ==
    ASSUME SidesInv, ChecksInv, ReadSheet
    PROVE  ChecksInv'
<1> DEFINE n    == sheet
           s    == file.sheets[n]
           rows == SubSeq(s.rows, 1, Min({Len(s.rows), MaxRows}))
           skip == rows # <<>> /\ ~requiredColumnsFound(rows)
           long == When(Len(s.rows) > MaxRows, Finding("SheetTooLong", n, 0))
           told == When(skip, Finding("SheetSkipped", n, 0))
<1>1. /\ phase = "sheets" /\ n <= Len(file.sheets) /\ SheetsInv /\ file \in Files
      /\ op' = op /\ input' = input /\ which' = which /\ results' = results
      /\ comparison' = comparison /\ phase' = "sheets" /\ sheet' = n + 1
  BY DEF ReadSheet, Continue, ChecksInv, SidesInv, file
<1>2. /\ ~s.readable => /\ findings' = Append(findings, Finding("SheetUnread", n, 0))
                        /\ rowOffset' = rowOffset /\ items' = items
      /\ s.readable => /\ findings' = (findings \o long) \o told
                       /\ items' = IF skip \/ rows = <<>> THEN items
                                   ELSE items \o extractItems(rows, rowOffset, s.label)
                       /\ rowOffset' = rowOffset + Advance(rows)
  BY DEF ReadSheet
<1> HIDE DEF n
<1>3. /\ IsWorkbook(file) /\ n \in 1..Len(file.sheets) /\ Len(file.sheets) \in Nat
      /\ rowOffset \in Nat /\ n - 1 \in Nat /\ n = (n - 1) + 1 /\ n \in Nat
      /\ ItemsOf(items, file, n - 1, rowOffset)
      /\ ReadFound(findings, file, n - 1)
  <2>1. Len(file.sheets) \in Nat
    BY <1>1, FileTyped
  <2> QED BY <1>1, <2>1 DEF SheetsInv, n
<1>4. /\ Top(file, n) = rows
      /\ Recognised(file, n) <=> s.readable /\ rows # <<>> /\ ~skip
  BY <1>3 DEF Top, SheetsRead, Recognised
<1>5. Rows(rows) /\ Len(rows) \in Nat /\ MaxRows \in Nat /\ Len(s.rows) \in Nat
  <2>1. Rows(s.rows) /\ MaxRows \in Nat
    BY <1>1, <1>3, FileTyped, ChecksAssumption DEF ChecksAssumption
  <2>2. Rows(rows)
    BY <2>1, Beginning
  <2> HIDE DEF rows, s
  <2> QED BY <2>1, <2>2, ListDomain DEF Rows
<1> HIDE DEF rows, skip, long, told
<1>6. rowOffset' \in Nat /\ rowOffset <= rowOffset'
      /\ (s.readable /\ rows # <<>> => rowOffset + Len(rows) <= rowOffset')
  BY <1>2, <1>3, <1>5 DEF Advance
<1>7. PICK e : Sheetful(items, file, Upto(file, n - 1), 0, rowOffset, e)
  BY <1>3 DEF ItemsOf
<1>8. Upto(file, n) = Upto(file, n - 1) \cup On(file, n)
  BY <1>3, UptoNext
<1>9. ItemsOf(items', file, n, rowOffset')
  <2>1. CASE Recognised(file, n)
    <3>1. items' = items \o extractItems(rows, rowOffset, s.label)
      BY <1>2, <1>4, <2>1
    <3>2. PICK d : Sheetful(extractItems(rows, rowOffset, s.label), file, On(file, n), rowOffset,
                            rowOffset + Len(rows), d)
      BY <1>3, <1>4, <1>5, <2>1, OneSheet
    <3>3. rowOffset + Len(rows) \in Nat /\ rowOffset + Len(rows) <= rowOffset'
      BY <1>3, <1>4, <1>5, <1>6, <2>1
    <3>4. Sheetful(extractItems(rows, rowOffset, s.label), file, On(file, n), rowOffset, rowOffset', d)
      BY <1>3, <1>6, <3>2, <3>3, SheetfulWidens
    <3>5. \A x \in Upto(file, n - 1) : \A y \in On(file, n) : Precedes(x, y)
      <4> SUFFICES ASSUME NEW x \in Upto(file, n - 1), NEW y \in On(file, n) PROVE Precedes(x, y)
        OBVIOUS
      <4>1. PICK m \in 1..(n - 1) : x \in On(file, m)
        BY DEF Upto
      <4>2. x[1] = m /\ y[1] = n /\ m < n
        BY <1>3, <4>1 DEF On
      <4> QED BY <4>2 DEF Precedes
    <3>6. PICK high \in Nat : high = rowOffset'
      BY <1>6
    <3>7. 0 \in Nat /\ 0 <= rowOffset /\ rowOffset \in Nat /\ rowOffset <= high
      BY <1>3, <1>6, <3>6
    <3> DEFINE more == extractItems(rows, rowOffset, s.label)
               S    == Upto(file, n - 1)
               T    == On(file, n)
    <3>8. Sheetful(items, file, S, 0, rowOffset, e) /\ Sheetful(more, file, T, rowOffset, high, d)
      BY <1>7, <3>4, <3>6
    <3>9. \A x \in S : \A y \in T : Precedes(x, y)
      BY <3>5
    <3> HIDE DEF more, S, T
    <3>10. \E g : Sheetful(items \o more, file, S \cup T, 0, high, g)
      BY <3>7, <3>8, <3>9, SheetfulGrows
    <3>11. \E g : Sheetful(items', file, Upto(file, n), 0, rowOffset', g)
      BY <1>8, <3>1, <3>6, <3>10 DEF more, S, T
    <3> QED BY <3>11 DEF ItemsOf
  <2>2. CASE ~Recognised(file, n)
    <3>1. items' = items
      BY <1>2, <1>4, <2>2
    <3>2. On(file, n) = {}
      BY <2>2 DEF On
    <3>3. Upto(file, n) = Upto(file, n - 1)
      BY <1>8, <3>2
    <3>4. Sheetful(items, file, Upto(file, n - 1), 0, rowOffset', e)
      BY <1>3, <1>6, <1>7, SheetfulWidens
    <3> QED BY <3>1, <3>3, <3>4 DEF ItemsOf
  <2> QED BY <2>1, <2>2
<1>10. ReadFound(findings', file, n)
  <2> DEFINE Fine(m) == file.sheets[m].readable /\ Len(file.sheets[m].rows) <= MaxRows
  <2>1. /\ IsList(findings)
        /\ \A x \in ToSet(findings) : x.title \in {"SheetUnread", "SheetTooLong", "SheetSkipped"}
        /\ Titled(findings, High) = {} =>
              \A m \in 1..(n - 1) : Fine(m) /\ Reported(findings, file, m)
    BY <1>3 DEF ReadFound
  <2>2. \A m \in 1..n : m \in 1..(n - 1) \/ m = n
    BY <1>3
  <2>3. \A t : Finding(t, n, 0).title = t
    BY DEF Finding
  <2> HIDE DEF Fine
  <2>4. /\ IsList(findings') /\ ToSet(findings) \subseteq ToSet(findings')
        /\ \A x \in ToSet(findings') \ ToSet(findings) :
              x.title \in {"SheetUnread", "SheetTooLong", "SheetSkipped"}
        /\ Fine(n) \/ \E x \in ToSet(findings') : x.title \in High
        /\ s.readable => Reported(findings', file, n)
    <3>1. CASE ~s.readable
      <4>1. IsList(findings') /\ ToSet(findings') = ToSet(findings) \cup {Finding("SheetUnread", n, 0)}
        BY <1>2, <2>1, <3>1, AppendIsJoin
      <4> QED BY <2>3, <3>1, <4>1 DEF High
    <3>2. CASE s.readable
      <4> DEFINE a == IF Len(s.rows) > MaxRows THEN {Finding("SheetTooLong", n, 0)} ELSE {}
                 b == IF skip THEN {Finding("SheetSkipped", n, 0)} ELSE {}
      <4>1. IsList(long) /\ ToSet(long) = a /\ IsList(told) /\ ToSet(told) = b
        BY WhenIsList DEF long, told
      <4>2. findings' = (findings \o long) \o told
        BY <1>2, <3>2
      <4> HIDE DEF a, b
      <4>3. IsList(findings') /\ ToSet(findings') = (ToSet(findings) \cup a) \cup b
        <5>1. IsList(findings \o long) /\ ToSet(findings \o long) = ToSet(findings) \cup a
          BY <2>1, <4>1, ToSetJoined
        <5> QED BY <4>1, <4>2, <5>1, ToSetJoined
      <4>4. \A x \in a \cup b : x.title \in {"SheetTooLong", "SheetSkipped"}
        BY <2>3 DEF a, b
      <4>5. Fine(n) \/ \E x \in a : x.title \in High
        <5>1. CASE Len(s.rows) > MaxRows
          <6>1. Finding("SheetTooLong", n, 0) \in a
            BY <5>1 DEF a
          <6> QED BY <2>3, <6>1 DEF High
        <5>2. CASE ~(Len(s.rows) > MaxRows)
          <6>1. Len(s.rows) <= MaxRows
            BY <1>5, <5>2
          <6> QED BY <3>2, <6>1 DEF Fine
        <5> QED BY <5>1, <5>2
      <4>6. skip => Finding("SheetSkipped", n, 0) \in ToSet(findings')
        BY <4>3 DEF b
      <4>7. Reported(findings', file, n)
        BY <1>4, <3>2, <4>6 DEF Reported
      <4> QED BY <4>3, <4>4, <4>5, <4>7
    <3> QED BY <3>1, <3>2
  <2>5. ASSUME Titled(findings', High) = {}
        PROVE  \A m \in 1..n : Fine(m) /\ Reported(findings', file, m)
    <3>1. \A x \in ToSet(findings') : x.title \notin High
      BY <2>4, <2>5, TitledNone
    <3>2. Titled(findings, High) = {} /\ Fine(n)
      BY <2>1, <2>4, <3>1, TitledNone
    <3>3. Reported(findings', file, n)
      BY <2>4, <3>2 DEF Fine
    <3>4. \A m \in 1..(n - 1) : Reported(findings', file, m)
      BY <2>1, <2>4, <3>2 DEF Reported
    <3> QED BY <2>1, <2>2, <3>2, <3>3, <3>4
  <2>6. \A x \in ToSet(findings') : x.title \in {"SheetUnread", "SheetTooLong", "SheetSkipped"}
    BY <2>1, <2>4
  <2> QED BY <2>4, <2>5, <2>6 DEF ReadFound, Fine
<1>11. file' = file
  BY <1>1 DEF file
<1>12. SheetsInv'
  <2>1. sheet' = n + 1 /\ sheet' - 1 = n /\ sheet' \in 1..(Len(file.sheets) + 1)
    BY <1>1, <1>3
  <2> QED BY <1>3, <1>6, <1>9, <1>10, <1>11, <2>1 DEF SheetsInv
<1>13. ComparedInv'
  BY <1>1 DEF ChecksInv, ComparedInv
<1> QED BY <1>1, <1>12, <1>13 DEF ChecksInv

LEMMA ChecksStep ==
    ASSUME SidesInv, ChecksInv, [Next]_vars
    PROVE  ChecksInv'
<1>1. CASE Analyse
  BY <1>1, OpenHolds, TableHolds, PDFHolds, SheetHolds, CloseHolds, CheckHolds, CompareHolds
     DEF Analyse, AnalysisStep
<1>2. ASSUME NEW next, NEW side, GoOn(next, side),
             \/ /\ next \in {"save", "inspect", "store", "open"}
                /\ phase \in {"form", "save", "inspect", "store"}
                /\ next = "open" => side = "base" \/ op = "upload"
             \/ next = "refused"
             \/ next \in {"row", "done"} /\ phase = "keep"
             \/ next = "done" /\ phase = "row" /\ op = "upload"
      PROVE  ChecksInv'
  <2>1. /\ op' = op /\ input' = input /\ results' = results /\ comparison' = comparison
        /\ items' = items /\ findings' = findings /\ sheet' = sheet /\ rowOffset' = rowOffset
        /\ phase' = next /\ which' = side
    BY <1>2 DEF GoOn
  <2>2. \A x \in DOMAIN results' : x \in DOMAIN input' /\ ResultInv(results'[x], input'[x])
    BY <2>1 DEF ChecksInv
  <2>3. phase' \in {"form", "save", "inspect", "store", "open"} => NothingYet'
    BY <1>2, <2>1 DEF ChecksInv, NothingYet
  <2>4. ComparedInv'
    BY <1>2, <2>1 DEF ChecksInv, ComparedInv
  <2>5. phase' \notin {"sheets", "items"}
    BY <1>2, <2>1
  <2> QED BY <2>2, <2>3, <2>4, <2>5 DEF ChecksInv
<1>3. FirstSide = "base" \/ op = "upload"
  BY DEF SidesInv, FirstSide
<1>4. CASE GoOn("refused", which)
  BY <1>2, <1>4
<1>5. CASE CheckForm
  BY <1>2, <1>4, <1>5 DEF CheckForm, Refuse, Withdraw
<1>6. CASE SaveFile
  BY <1>2, <1>6 DEF SaveFile
<1>7. CASE SaveFails \/ InspectionTimesOut \/ StoreFails \/ ReportFails \/ KeepFails
  BY <1>4, <1>7 DEF SaveFails, InspectionTimesOut, StoreFails, ReportFails, KeepFails,
                    Refuse, Withdraw
<1>8. CASE InspectFile
  <2>1. \/ /\ phase = "inspect"
           /\ GoOn("save", "new") \/ GoOn("open", FirstSide) \/ GoOn("store", FirstSide)
        \/ GoOn("refused", which)
    BY <1>8 DEF InspectFile, Refuse, Withdraw
  <2> QED BY <1>2, <1>3, <1>4, <2>1
<1>9. CASE Store
  BY <1>2, <1>3, <1>9 DEF Store
<1>10. CASE WriteReport \/ Keep
  BY <1>2, <1>10 DEF WriteReport, Keep, AboutToKeep
<1>11. CASE UNCHANGED vars
  BY <1>11 DEF vars, analysis, ChecksInv, NothingYet, SheetsInv, ItemsInv, ComparedInv, file
<1> QED BY <1>1, <1>4, <1>5, <1>6, <1>7, <1>8, <1>9, <1>10, <1>11 DEF Next

LEMMA ItemsRight ==
    ASSUME SidesInv, ChecksInv
    PROVE  ItemsAreTheRows
<1> SUFFICES ASSUME NEW s \in DOMAIN results, results[s].items # <<>>
             PROVE  /\ Len(results[s].items) = Len(Places(input[s]))
                    /\ \A k \in DOMAIN results[s].items :
                        LET list  == results[s].items
                            place == Places(input[s])
                            r     == SheetsRead(input[s])[place[k][1]].rows[place[k][2]]
                        IN  /\ k > 1 => list[k].row > list[k - 1].row
                            /\ list[k].name = r.name
                            /\ Unambiguous(r.quantity) => list[k].quantity = r.quantity.value
                            /\ Unambiguous(r.price) => list[k].price = r.price.value
                            /\ Unambiguous(r.total) => list[k].total = r.total.value
  BY DEF ItemsAreTheRows
<1> DEFINE list  == results[s].items
           f     == input[s]
           place == Places(f)
           N     == Len(SheetsRead(f))
<1>1. f \in Files /\ Complete(list, results[s].findings, f)
  BY DEF ChecksInv, ResultInv, Failed, SidesInv
<1> HIDE DEF list, f
<1>2a. PICK high \in Nat : \E e : Sheetful(list, f, Upto(f, N), 0, high, e)
  BY <1>1 DEF Complete, ItemsOf
<1>2. PICK e : Sheetful(list, f, Upto(f, N), 0, high, e)
  BY <1>2a
<1>3. /\ DOMAIN SheetsRead(f) = 1..N /\ N \in Nat
      /\ \A n \in 1..N : \A i \in DOMAIN Top(f, n) : SheetsRead(f)[n].rows[i] = Top(f, n)[i]
  BY <1>1, SheetsTyped DEF Complete, IsSpreadsheet
<1> HIDE DEF N
<1>4. place = Ranked(Upto(f, N), Precedes)
  <2>1. UNION {On(f, n) : n \in DOMAIN SheetsRead(f)} = Upto(f, N)
    BY <1>3 DEF Upto
  <2>2. place = Ranked(UNION {On(f, n) : n \in DOMAIN SheetsRead(f)}, Precedes)
    BY DEF Places
  <2> HIDE DEF place
  <2> QED BY ONLY <2>1, <2>2
<1> HIDE DEF place
<1>5. IsList(list) /\ Len(list) \in Nat /\ DOMAIN list = 1..Len(list)
  BY <1>2, ListDomain DEF Sheetful
<1>6. Len(place) = Len(list) /\ \A k \in 1..Len(list) : place[k] = e[k]
  BY <1>2, <1>4, <1>5, ListingIsRanked DEF Sheetful
<1>7. ASSUME NEW k \in 1..Len(list)
      PROVE  Shows(list[k], SheetsRead(f)[place[k][1]].rows[place[k][2]])
  <2>1. e[k] \in Upto(f, N) /\ Shows(list[k], Top(f, e[k][1])[e[k][2]])
    BY <1>2 DEF Sheetful, Listing
  <2>2. PICK n \in 1..N : e[k] \in On(f, n)
    BY <2>1 DEF Upto
  <2>3. e[k][1] = n /\ e[k][2] \in DOMAIN Top(f, n)
    BY <2>2 DEF On
  <2> QED BY <1>3, <1>6, <2>1, <2>3
<1>8. ASSUME NEW k \in 1..Len(list), k > 1 PROVE list[k].row > list[k - 1].row
  <2>1. k - 1 \in 1..Len(list) /\ k - 1 < k
    BY <1>5, <1>8
  <2>2. list[k - 1].row < list[k].row /\ list[k].row \in Nat /\ list[k - 1].row \in Nat
    BY <1>2, <2>1 DEF Sheetful, Shows
  <2> QED BY <2>2
<1> QED BY <1>5, <1>6, <1>7, <1>8 DEF Shows, list, f, place

(* The items of a file are the rows that a reader would count.             *)
THEOREM ItemsAreRows == Spec => []ItemsAreTheRows
<1>1. Init => SidesInv /\ ChecksInv
  BY SidesInit, ChecksInit
<1>2. SidesInv /\ ChecksInv /\ [Next]_vars => (SidesInv /\ ChecksInv)'
  BY SidesStep, ChecksStep
<1>3. SidesInv /\ ChecksInv => ItemsAreTheRows
  BY ItemsRight
<1> QED BY <1>1, <1>2, <1>3, PTL DEF Spec

-----------------------------------------------------------------------------
(* What is found of each item.                                             *)

(* The item has a key and is not the first of its kind.                    *)
Again(list, k) == Keyed(list[k]) /\ Alike(list, k) # {}

Sound(it) ==
    /\ ~(it.quantity <= 0) /\ ~(it.price <= 0) /\ ~(it.total <= 0)
    /\ ~(it.quantity > 0 /\ it.price > 0 /\ it.total > 0 /\ Mismatched(it))

(* A duplicate is the last that is found of an item.                       *)
LEMMA ItemFindings ==
    ASSUME NEW list, NEW k
    PROVE  \E w : /\ IsList(w) /\ \A x \in ToSet(w) : x.title # "Duplicate"
                  /\ validateItem(list, k) =
                        w \o When(Again(list, k), Finding("Duplicate", list[k].row, SeenAt(list, k)))
                  /\ (\A x \in ToSet(w) : x.title \notin High \cup {"NoTotal"}) => Sound(list[k])
<1> DEFINE it == list[k]
           c1 == it.unit = Blank
           c2 == it.quantity <= 0
           c3 == it.price <= 0
           c4 == it.total <= 0
           c5 == it.quantity > 0 /\ it.price > 0 /\ it.total > 0 /\ Mismatched(it)
           c6 == it.price > HighPrice \/ it.total > HighTotal
           F(t) == Finding(t, it.row, 0)
           d    == When(Again(list, k), Finding("Duplicate", it.row, SeenAt(list, k)))
           w1 == When(c1, F("NoUnit"))
           w2 == w1 \o When(c2, F("NoQuantity"))
           w3 == w2 \o When(c3, F("NoPrice"))
           w4 == w3 \o When(c4, F("NoTotal"))
           w5 == w4 \o When(c5, F("Mismatch"))
           w6 == w5 \o When(c6, F("LargeAmount"))
<1>1. validateItem(list, k) = w6 \o d
  BY DEF validateItem, When, Again
<1>2. Sound(it) <=> ~c2 /\ ~c3 /\ ~c4 /\ ~c5
  BY DEF Sound
<1>3. \A t : F(t).title = t
  BY DEF Finding
<1> HIDE DEF it, c1, c2, c3, c4, c5, c6, F, d
<1>4. \A t : /\ IsList(When(c1, F(t))) /\ ToSet(When(c1, F(t))) = IF c1 THEN {F(t)} ELSE {}
             /\ IsList(When(c2, F(t))) /\ ToSet(When(c2, F(t))) = IF c2 THEN {F(t)} ELSE {}
             /\ IsList(When(c3, F(t))) /\ ToSet(When(c3, F(t))) = IF c3 THEN {F(t)} ELSE {}
             /\ IsList(When(c4, F(t))) /\ ToSet(When(c4, F(t))) = IF c4 THEN {F(t)} ELSE {}
             /\ IsList(When(c5, F(t))) /\ ToSet(When(c5, F(t))) = IF c5 THEN {F(t)} ELSE {}
             /\ IsList(When(c6, F(t))) /\ ToSet(When(c6, F(t))) = IF c6 THEN {F(t)} ELSE {}
  BY WhenIsList
<1> DEFINE s1 == IF c1 THEN {F("NoUnit")} ELSE {}
           s2 == IF c2 THEN {F("NoQuantity")} ELSE {}
           s3 == IF c3 THEN {F("NoPrice")} ELSE {}
           s4 == IF c4 THEN {F("NoTotal")} ELSE {}
           s5 == IF c5 THEN {F("Mismatch")} ELSE {}
           s6 == IF c6 THEN {F("LargeAmount")} ELSE {}
           v2 == When(c2, F("NoQuantity"))
           v3 == When(c3, F("NoPrice"))
           v4 == When(c4, F("NoTotal"))
           v5 == When(c5, F("Mismatch"))
           v6 == When(c6, F("LargeAmount"))
<1>5. /\ IsList(w1) /\ ToSet(w1) = s1 /\ IsList(v2) /\ ToSet(v2) = s2
      /\ IsList(v3) /\ ToSet(v3) = s3 /\ IsList(v4) /\ ToSet(v4) = s4
      /\ IsList(v5) /\ ToSet(v5) = s5 /\ IsList(v6) /\ ToSet(v6) = s6
  BY <1>4
<1>6. /\ w2 = w1 \o v2 /\ w3 = w2 \o v3 /\ w4 = w3 \o v4 /\ w5 = w4 \o v5 /\ w6 = w5 \o v6
  OBVIOUS
<1>7. /\ \A x \in s1 : x.title = "NoUnit"
      /\ \A x \in s2 : x.title = "NoQuantity"
      /\ \A x \in s3 : x.title = "NoPrice"
      /\ \A x \in s4 : x.title = "NoTotal"
      /\ \A x \in s5 : x.title = "Mismatch"
      /\ \A x \in s6 : x.title = "LargeAmount"
  BY <1>3
<1>8. (c2 => s2 # {}) /\ (c3 => s3 # {}) /\ (c4 => s4 # {}) /\ (c5 => s5 # {})
  OBVIOUS
<1> HIDE DEF w1, w2, w3, w4, w5, w6, v2, v3, v4, v5, v6, s1, s2, s3, s4, s5, s6
<1>9. IsList(w2) /\ ToSet(w2) = s1 \cup s2
  BY <1>5, <1>6, ToSetJoined
<1>10. IsList(w3) /\ ToSet(w3) = (s1 \cup s2) \cup s3
  BY <1>5, <1>6, <1>9, ToSetJoined
<1>11. IsList(w4) /\ ToSet(w4) = ((s1 \cup s2) \cup s3) \cup s4
  BY <1>5, <1>6, <1>10, ToSetJoined
<1>12. IsList(w5) /\ ToSet(w5) = (((s1 \cup s2) \cup s3) \cup s4) \cup s5
  BY <1>5, <1>6, <1>11, ToSetJoined
<1>13. IsList(w6) /\ ToSet(w6) = ((((s1 \cup s2) \cup s3) \cup s4) \cup s5) \cup s6
  BY <1>5, <1>6, <1>12, ToSetJoined
<1>14. \A x \in ToSet(w6) : x.title # "Duplicate"
  BY <1>7, <1>13
<1>15. ASSUME \A x \in ToSet(w6) : x.title \notin High \cup {"NoTotal"} PROVE Sound(it)
  <2>1. s2 = {} /\ s3 = {} /\ s4 = {} /\ s5 = {}
    BY <1>7, <1>13, <1>15 DEF High
  <2> QED BY <1>2, <1>8, <2>1
<1> QED BY <1>1, <1>13, <1>14, <1>15 DEF it, d

LEMMA Validated ==
    ASSUME NEW list, IsList(list)
    PROVE  \E parts, p : /\ Laid(validateItems(list), Len(list), parts, p)
                         /\ \A k \in 1..Len(list) : parts[k] = validateItem(list, k) /\ IsList(parts[k])
<1> DEFINE n     == Len(list)
           parts == [k \in 1..n |-> validateItem(list, k)]
<1>1. n \in Nat
  BY ListDomain
<1>2. validateItems(list) = FlattenSeq(parts)
  BY DEF validateItems
<1>3. parts = [k \in 1..n |-> parts[k]] /\ \A k \in 1..n : parts[k] = validateItem(list, k)
  OBVIOUS
<1> HIDE DEF parts, n
<1>4. ASSUME NEW k \in 1..n PROVE IsList(parts[k])
  <2>1. PICK w : /\ IsList(w)
                 /\ validateItem(list, k) =
                       w \o When(Again(list, k), Finding("Duplicate", list[k].row, SeenAt(list, k)))
    BY ItemFindings
  <2>2. IsList(When(Again(list, k), Finding("Duplicate", list[k].row, SeenAt(list, k))))
    BY WhenIsList
  <2> QED BY <1>3, <2>1, <2>2, ToSetJoined
<1>5. IsList(parts) /\ Len(parts) = n
  BY <1>1, <1>3, FunctionIsList
<1>6. \E p : Laid(FlattenSeq(parts), n, parts, p)
  BY <1>1, <1>4, <1>5, FlattenLaid
<1> QED BY <1>2, <1>3, <1>4, <1>6 DEF n

LEMMA CheckedParts ==
    ASSUME NEW list, IsList(list), NEW reads, IsList(reads)
    PROVE  /\ IsList(Checked(list, reads))
           /\ ToSet(Checked(list, reads)) =
                 (ToSet(reads) \cup ToSet(validateItems(list)))
                   \cup (IF list = <<>> THEN {Finding("NoItems", 0, 0)} ELSE {})
<1> DEFINE v == validateItems(list)
           w == When(list = <<>>, Finding("NoItems", 0, 0))
<1>1. Checked(list, reads) = (reads \o v) \o w
  BY DEF Checked
<1>2. IsList(v)
  BY Validated DEF Laid
<1>3. IsList(w) /\ ToSet(w) = IF list = <<>> THEN {Finding("NoItems", 0, 0)} ELSE {}
  BY WhenIsList
<1> HIDE DEF v, w
<1>4. IsList(reads \o v) /\ ToSet(reads \o v) = ToSet(reads) \cup ToSet(v)
  BY <1>2, ToSetJoined
<1>5. IsList((reads \o v) \o w) /\ ToSet((reads \o v) \o w) = ToSet(reads \o v) \cup ToSet(w)
  BY <1>3, <1>4, ToSetJoined
<1> QED BY <1>1, <1>3, <1>4, <1>5 DEF v

(* If nothing serious is found and no total is missing, every item adds up.*)
LEMMA ItemsAreSound ==
    ASSUME NEW list, IsList(list), NEW reads, IsList(reads),
           Titled(Checked(list, reads), High) = {},
           Titled(Checked(list, reads), {"NoTotal"}) = {},
           NEW k \in 1..Len(list)
    PROVE  Sound(list[k])
<1>1. \A x \in ToSet(validateItems(list)) : x.title \notin High \cup {"NoTotal"}
  <2>1. IsList(Checked(list, reads)) /\ ToSet(validateItems(list)) \subseteq ToSet(Checked(list, reads))
    BY CheckedParts
  <2> QED BY <2>1, TitledNone
<1>2. PICK parts, p : /\ Laid(validateItems(list), Len(list), parts, p)
                      /\ parts[k] = validateItem(list, k) /\ IsList(parts[k])
  BY Validated
<1>3. ToSet(parts[k]) \subseteq ToSet(validateItems(list))
  <2> DEFINE t == validateItems(list)
  <2>1. DOMAIN parts[k] = 1..Len(parts[k])
    BY <1>2, ListDomain
  <2>2. DOMAIN t = 1..Len(t)
    BY <1>2, ListDomain DEF Laid
  <2> HIDE DEF t
  <2>3. \A i \in 1..Len(parts[k]) : p[k] + i \in 1..Len(t) /\ t[p[k] + i] = parts[k][i]
    BY <1>2 DEF Laid, t
  <2>4. ToSet(parts[k]) \subseteq ToSet(t)
    BY <2>1, <2>2, <2>3 DEF ToSet
  <2> QED BY <2>4 DEF t
<1>4. PICK w : /\ IsList(w)
               /\ validateItem(list, k) =
                     w \o When(Again(list, k), Finding("Duplicate", list[k].row, SeenAt(list, k)))
               /\ (\A x \in ToSet(w) : x.title \notin High \cup {"NoTotal"}) => Sound(list[k])
  BY ItemFindings
<1>5. ToSet(w) \subseteq ToSet(parts[k])
  <2>1. IsList(When(Again(list, k), Finding("Duplicate", list[k].row, SeenAt(list, k))))
    BY WhenIsList
  <2> QED BY <1>2, <1>4, <2>1, ToSetJoined
<1> QED BY <1>1, <1>3, <1>4, <1>5

-----------------------------------------------------------------------------
(* Sums.                                                                   *)

LEMMA SumOfTotals ==
    ASSUME NEW list
    PROVE  sumItemsTotal(list) = Total([k \in DOMAIN list |-> list[k].total], DOMAIN list)
<1>1. MapThenSumSet(LAMBDA k : list[k].total, DOMAIN list)
        = Total([k \in DOMAIN list |-> list[k].total], DOMAIN list)
  BY ZenonT(60) DEF MapThenSumSet, MapThenFoldSet, Total, Sums, First
<1> QED BY <1>1 DEF sumItemsTotal, SumOver

LEMMA SumOfExpected ==
    ASSUME NEW list
    PROVE  SumOver(DOMAIN list, LAMBDA k : Expected(list[k]))
              = Total([k \in DOMAIN list |-> Expected(list[k])], DOMAIN list)
<1>1. MapThenSumSet(LAMBDA k : Expected(list[k]), DOMAIN list)
        = Total([k \in DOMAIN list |-> Expected(list[k])], DOMAIN list)
  BY ZenonT(60) DEF MapThenSumSet, MapThenFoldSet, Total, Sums, First
<1> QED BY <1>1 DEF SumOver

LEMMA SumOfTolerance ==
    ASSUME NEW list
    PROVE  SumOver(DOMAIN list, LAMBDA k : Tolerance(list[k]))
              = Total([k \in DOMAIN list |-> Tolerance(list[k])], DOMAIN list)
<1>1. MapThenSumSet(LAMBDA k : Tolerance(list[k]), DOMAIN list)
        = Total([k \in DOMAIN list |-> Tolerance(list[k])], DOMAIN list)
  BY ZenonT(60) DEF MapThenSumSet, MapThenFoldSet, Total, Sums, First
<1> QED BY <1>1 DEF SumOver

Within(x, b) == -b <= x /\ x <= b

(* Differences that are small make a sum that is small.                    *)
LEMMA TotalsClose ==
    ASSUME NEW S, IsFiniteSet(S), NEW e, NEW t, NEW b,
           \A x \in S : /\ e[x] \in Int /\ t[x] \in Int /\ b[x] \in Int
                        /\ Within(e[x] - 1000 * t[x], b[x])
    PROVE  Within(Total(e, S) - 1000 * Total(t, S), Total(b, S))
<1> DEFINE Close(T) == Within(Total(e, T) - 1000 * Total(t, T), Total(b, T))
           Bad == {T \in SUBSET S : ~Close(T)}
<1> SUFFICES ASSUME Bad # {} PROVE FALSE
  OBVIOUS
<1>1. PICK T \in Bad : \A U \in Bad : U \subseteq T => U = T
  <2>1. Bad \subseteq SUBSET S
    OBVIOUS
  <2> HIDE DEF Bad
  <2> QED BY <2>1, LeastSubset
<1>2. T \in SUBSET S /\ ~Close(T)
  OBVIOUS
<1>0. IsFiniteSet(T)
  BY <1>2, FS_Subset
<1>3. CASE T = {}
  <2>1. \A g : Total(g, T) = 0
    BY ONLY <1>0, <1>3, TotalStep
  <2> QED BY <1>2, <2>1 DEF Within
<1>4. CASE T # {}
  <2> DEFINE x == First(T)
             U == T \ {x}
  <2>1. x \in T /\ x \in S
    BY <1>2, <1>4, FirstIn
  <2>2. U \in SUBSET S /\ U \notin Bad
    <3>1. U \subseteq T /\ U # T
      BY <2>1
    <3> QED BY <1>1, <1>2, <3>1
  <2>3. Close(U) /\ IsFiniteSet(U)
    BY <1>0, <1>2, <2>2, FS_Subset
  <2>4. \A g : Total(g, T) = g[x] + Total(g, U)
    BY ONLY <1>0, <1>4, TotalStep DEF x, U
  <2>5. Total(e, U) \in Int /\ Total(t, U) \in Int /\ Total(b, U) \in Int
    BY <2>2, <2>3, TotalInt
  <2>6. /\ e[x] \in Int /\ t[x] \in Int /\ b[x] \in Int
        /\ Within(e[x] - 1000 * t[x], b[x])
    BY <2>1
  <2> HIDE DEF x, U, Bad
  <2>7. PICK ex \in Int, tx \in Int, bx \in Int, eu \in Int, tu \in Int, bu \in Int :
             /\ ex = e[x] /\ tx = t[x] /\ bx = b[x]
             /\ eu = Total(e, U) /\ tu = Total(t, U) /\ bu = Total(b, U)
    BY <2>5, <2>6, ZenonT(60)
  <2>8. Total(e, T) = ex + eu /\ Total(t, T) = tx + tu /\ Total(b, T) = bx + bu
    BY <2>4, <2>7
  <2>9. Within(ex - 1000 * tx, bx) /\ Within(eu - 1000 * tu, bu)
    BY <2>3, <2>6, <2>7
  <2>10. Within((ex + eu) - 1000 * (tx + tu), bx + bu)
    BY ONLY ex \in Int, tx \in Int, bx \in Int, eu \in Int, tu \in Int, bu \in Int, <2>9
       DEF Within
  <2> QED BY <1>2, <2>8, <2>10
<1> QED BY <1>3, <1>4

LEMMA AbsWithin ==
    ASSUME NEW n \in Int, NEW b \in Int
    PROVE  Abs(n) <= b <=> Within(n, b)
BY DEF Abs, Within

LEMMA ItemAddsUp ==
    ASSUME NEW it, it.quantity \in Int, it.price \in Int, it.total \in Int
    PROVE  /\ Expected(it) \in Int /\ Tolerance(it) \in Int
           /\ Sound(it) => Within(Expected(it) - 1000 * it.total, Tolerance(it))
<1>1. \A x, y \in Int : x * y \in Int
  OBVIOUS
<1>2. Expected(it) \in Int
  BY <1>1 DEF Expected
<1>3. Tolerance(it) \in Int
  <2> DEFINE S == {10000, it.total \div 10}
  <2>1. it.total \div 10 \in Int
    OBVIOUS
  <2>2. Whole(S) /\ S # {} /\ IsFiniteSet(S)
    <3>1. S = {10000} \cup {it.total \div 10}
      OBVIOUS
    <3>2. IsFiniteSet({10000})
      BY FS_EmptySet, FS_AddElement
    <3>3. IsFiniteSet(S)
      BY <3>1, <3>2, FS_AddElement
    <3> QED BY <2>1, <3>3 DEF Whole
  <2>3. Max(S) \in S
    <3> HIDE DEF S
    <3> QED BY <2>2, MaxIn
  <2> QED BY <2>1, <2>3 DEF Tolerance
<1>4. ASSUME Sound(it) PROVE Within(Expected(it) - 1000 * it.total, Tolerance(it))
  <2>1. it.quantity > 0 /\ it.price > 0 /\ it.total > 0
    BY <1>4 DEF Sound
  <2>2. ~Mismatched(it)
    BY <1>4, <2>1 DEF Sound
  <2>3. ~(Abs(Expected(it) - it.total * 1000) > Tolerance(it))
    BY <2>2 DEF Mismatched
  <2> DEFINE n == Expected(it) - it.total * 1000
  <2>4. n \in Int /\ n = Expected(it) - 1000 * it.total
    BY <1>2
  <2> HIDE DEF n
  <2>5. Abs(n) \in Int
    BY <2>4 DEF Abs
  <2>6. Abs(n) <= Tolerance(it)
    BY <1>3, <2>3, <2>5 DEF n
  <2> QED BY <1>3, <2>4, <2>6, AbsWithin
<1> QED BY <1>2, <1>3, <1>4

LEMMA Ready ==
    ASSUME SidesInv, ChecksInv
    PROVE  ReadyReconciles
<1> SUFFICES ASSUME NEW s \in DOMAIN results, results[s].status = "ready", input[s].kind # "pdf"
             PROVE  /\ results[s].items # <<>>
                    /\ IsWorkbook(input[s]) =>
                         \A n \in DOMAIN input[s].sheets :
                            /\ input[s].sheets[n].readable /\ Len(input[s].sheets[n].rows) <= MaxRows
                            /\ Reported(results[s].findings, input[s], n)
                    /\ Titled(results[s].findings, {"NoTotal"}) = {} =>
                         LET list == results[s].items
                         IN  Abs(SumOver(DOMAIN list, LAMBDA k : Expected(list[k])) - 1000 * results[s].total)
                               <= SumOver(DOMAIN list, LAMBDA k : Tolerance(list[k]))
  BY ZenonT(60) DEF ReadyReconciles
<1> DEFINE list  == results[s].items
           found == results[s].findings
           f     == input[s]
<1>1. /\ f \in Files
      /\ Failed(list, found, f) \/ Complete(list, found, f)
      /\ results[s].total = sumItemsTotal(list)
      /\ results[s].status = estimateStatus(found)
  BY DEF ChecksInv, ResultInv, SidesInv
<1>2. Titled(found, High) = {}
  BY <1>1 DEF estimateStatus
<1>3. f.kind # "pdf"
  OBVIOUS
<1> HIDE DEF list, found, f
<1>4. Complete(list, found, f)
  BY <1>1, <1>2, <1>3 DEF Failed
<1>5. PICK reads : ReadFound(reads, f, Len(f.sheets)) /\ found = Checked(list, reads)
  BY <1>4 DEF Complete
<1>6a. PICK high \in Nat : \E e : Sheetful(list, f, Upto(f, Len(SheetsRead(f))), 0, high, e)
  BY <1>4 DEF Complete, ItemsOf
<1>6. PICK e : Sheetful(list, f, Upto(f, Len(SheetsRead(f))), 0, high, e)
  BY <1>6a
<1>7. /\ IsList(list) /\ Len(list) \in Nat /\ DOMAIN list = 1..Len(list) /\ IsList(reads)
      /\ \A k \in 1..Len(list) : {list[k].quantity, list[k].price, list[k].total} \subseteq Int
  BY <1>5, <1>6, ListDomain DEF Sheetful, ReadFound, Shows
<1>8. /\ IsList(found) /\ ToSet(reads) \subseteq ToSet(found)
      /\ list = <<>> => Finding("NoItems", 0, 0) \in ToSet(found)
  BY <1>5, <1>7, CheckedParts
<1>9. list # <<>>
  <2>1. Finding("NoItems", 0, 0).title \in High
    BY DEF Finding, High
  <2> QED BY <1>2, <1>8, <2>1, TitledNone
<1>10. Titled(reads, High) = {}
  BY <1>2, <1>7, <1>8, TitledNone
<1>11. ASSUME IsWorkbook(f), NEW n \in DOMAIN f.sheets
       PROVE  /\ f.sheets[n].readable /\ Len(f.sheets[n].rows) <= MaxRows
              /\ Reported(found, f, n)
  <2>1. n \in 1..Len(f.sheets)
    BY <1>1, FileTyped
  <2>2. f.sheets[n].readable /\ Len(f.sheets[n].rows) <= MaxRows /\ Reported(reads, f, n)
    BY <1>5, <1>10, <1>11, <2>1 DEF ReadFound
  <2>3. Reported(found, f, n)
    <3>1. CASE Finding("SheetSkipped", n, 0) \in ToSet(reads)
      <4>1. Finding("SheetSkipped", n, 0) \in ToSet(found)
        BY <1>8, <3>1
      <4> QED BY <4>1, Zenon DEF Reported
    <3>2. CASE Top(f, n) = <<>> \/ Recognised(f, n)
      BY <3>2, Zenon DEF Reported
    <3>3. Finding("SheetSkipped", n, 0) \in ToSet(reads) \/ Top(f, n) = <<>> \/ Recognised(f, n)
      BY <2>2, Zenon DEF Reported
    <3> QED BY <3>1, <3>2, <3>3
  <2> QED BY <2>2, <2>3
<1>12. ASSUME Titled(found, {"NoTotal"}) = {}
       PROVE  Abs(SumOver(DOMAIN list, LAMBDA k : Expected(list[k])) - 1000 * results[s].total)
                <= SumOver(DOMAIN list, LAMBDA k : Tolerance(list[k]))
  <2> DEFINE S == DOMAIN list
             E == [k \in S |-> Expected(list[k])]
             T == [k \in S |-> list[k].total]
             B == [k \in S |-> Tolerance(list[k])]
  <2>1. IsFiniteSet(S)
    <3>1. IsFiniteSet(1..Len(list))
      BY <1>7, FS_Interval
    <3> QED BY <1>7, <3>1, Zenon
  <2>2. ASSUME NEW k \in S
        PROVE  /\ E[k] \in Int /\ T[k] \in Int /\ B[k] \in Int
               /\ Within(E[k] - 1000 * T[k], B[k])
    <3>1. Sound(list[k])
      BY <1>2, <1>5, <1>7, <1>12, ItemsAreSound
    <3>2. /\ list[k].quantity \in Int /\ list[k].price \in Int /\ list[k].total \in Int
          /\ E[k] = Expected(list[k]) /\ T[k] = list[k].total /\ B[k] = Tolerance(list[k])
      BY <1>7
    <3> HIDE DEF E, T, B, S
    <3> QED BY <3>1, <3>2, ItemAddsUp
  <2>3. /\ SumOver(DOMAIN list, LAMBDA k : Expected(list[k])) = Total(E, S)
        /\ SumOver(DOMAIN list, LAMBDA k : Tolerance(list[k])) = Total(B, S)
        /\ results[s].total = Total(T, S)
    BY <1>1, SumOfTotals, SumOfExpected, SumOfTolerance
  <2> HIDE DEF S, E, T, B
  <2>4. Total(E, S) \in Int /\ Total(T, S) \in Int /\ Total(B, S) \in Int
    BY <2>1, <2>2, TotalInt
  <2>5. Within(Total(E, S) - 1000 * Total(T, S), Total(B, S))
    BY <2>1, <2>2, TotalsClose
  <2>6. Abs(Total(E, S) - 1000 * Total(T, S)) <= Total(B, S)
    <3>1. Total(E, S) - 1000 * Total(T, S) \in Int
      BY <2>4
    <3> QED BY <2>4, <2>5, <3>1, AbsWithin
  <2> QED BY <2>3, <2>6
<1> QED BY <1>9, <1>11, <1>12 DEF list, found, f

-----------------------------------------------------------------------------
(* Duplicates.                                                             *)

LEMMA SameSize ==
    ASSUME NEW S, IsFiniteSet(S), NEW T, NEW f,
           \A x \in S : f[x] \in T,
           \A x, y \in S : f[x] = f[y] => x = y,
           \A z \in T : \E x \in S : f[x] = z
    PROVE  IsFiniteSet(T) /\ Cardinality(T) = Cardinality(S)
<1> DEFINE g == [x \in S |-> f[x]]
<1>1. g \in [S -> T] /\ \A x \in S : g[x] = f[x]
  OBVIOUS
<1> HIDE DEF g
<1>2. g \in Bijection(S, T)
  BY <1>1 DEF Bijection, Injection, Surjection, IsInjective
<1> QED BY <1>2, FS_Bijection DEF ExistsBijection

Repeated(list) == {k \in 1..Len(list) : Again(list, k)}

(* Of the items with a key, one for each key is the first.                 *)
LEMMA RepeatedCounted ==
    ASSUME NEW list, IsList(list)
    PROVE  /\ IsFiniteSet(Repeated(list)) /\ IsFiniteSet(KeyedItems(list)) /\ IsFiniteSet(Keys(list))
           /\ Cardinality(Repeated(list)) = Cardinality(KeyedItems(list)) - Cardinality(Keys(list))
<1> DEFINE n == Len(list)
           D == Repeated(list)
           K == KeyedItems(list)
           F == K \ D
           key == [k \in 1..n |-> normalizeDuplicateKey(list[k])]
<1>1. n \in Nat /\ DOMAIN list = 1..n
  BY ListDomain
<1>2. \A k \in 1..n : key[k] = normalizeDuplicateKey(list[k])
  OBVIOUS
<1>3. \A j, k \in 1..n : key[j] = key[k] => (Keyed(list[j]) <=> Keyed(list[k]))
  BY DEF normalizeDuplicateKey, Keyed
<1>4. /\ K \subseteq 1..n /\ D \subseteq K
      /\ \A k \in 1..n : k \in K <=> Keyed(list[k])
      /\ Keys(list) = {key[k] : k \in K}
  BY <1>1 DEF KeyedItems, Repeated, Again, Keys
<1>5. \A k \in K : k \in D <=> \E j \in 1..n : j < k /\ key[j] = key[k]
  <2> SUFFICES ASSUME NEW k \in K PROVE k \in D <=> \E j \in 1..n : j < k /\ key[j] = key[k]
    OBVIOUS
  <2>1. k \in 1..n /\ Keyed(list[k])
    BY <1>4
  <2>2. k \in D <=> Alike(list, k) # {}
    BY <2>1 DEF Repeated, Again
  <2>3. \A j \in 1..(k - 1) : j \in 1..n /\ j < k
    BY <1>1, <2>1
  <2>4. \A j \in 1..n : j < k => j \in 1..(k - 1)
    BY <1>1, <2>1
  <2>5. Alike(list, k) = {j \in 1..(k - 1) : normalizeDuplicateKey(list[j]) = normalizeDuplicateKey(list[k])}
    BY DEF Alike
  <2> HIDE DEF D, K, key
  <2> QED BY <1>2, <2>1, <2>2, <2>3, <2>4, <2>5
<1> HIDE DEF key, D, K
<1>6. IsFiniteSet(K) /\ IsFiniteSet(D)
  <2>1. IsFiniteSet(1..n)
    BY <1>1, FS_Interval
  <2>2. IsFiniteSet(K)
    BY <1>4, <2>1, FS_Subset
  <2> QED BY <1>4, <2>2, FS_Subset
<1>7. IsFiniteSet(F) /\ Cardinality(F) = Cardinality(K) - Cardinality(D)
  <2>1. K \cap D = D
    BY <1>4
  <2> QED BY <1>6, <2>1, FS_Difference
<1>8. \A z \in Keys(list) : \E k \in F : key[k] = z
  <2> SUFFICES ASSUME NEW z \in Keys(list) PROVE \E k \in F : key[k] = z
    OBVIOUS
  <2> DEFINE Z == {k \in K : key[k] = z}
  <2>1. Z \subseteq Nat /\ Z # {}
    <3>1. K \subseteq Nat
      BY <1>4
    <3>2. PICK k \in K : key[k] = z
      BY <1>4
    <3>3. k \in Z
      BY <3>2
    <3>4. Z \subseteq K
      OBVIOUS
    <3> QED BY <3>1, <3>3, <3>4
  <2>2. PICK k \in Z : \A j \in Z : k <= j
    <3> HIDE DEF Z
    <3> QED BY <2>1, LeastNat
  <2>3. k \in K /\ key[k] = z /\ k \in 1..n
    BY <1>4
  <2>4. ASSUME NEW j \in 1..n, j < k, key[j] = key[k] PROVE FALSE
    <3>1. j \in Z
      BY <1>3, <1>4, <2>3, <2>4
    <3>2. ~ (k <= j)
      BY <2>3, <2>4
    <3> QED BY <2>2, <3>1, <3>2
  <2> QED BY <1>5, <2>3, <2>4
<1>9. \A j, k \in F : key[j] = key[k] => j = k
  <2> SUFFICES ASSUME NEW j \in F, NEW k \in F, key[j] = key[k], j # k PROVE FALSE
    OBVIOUS
  <2>1. j \in 1..n /\ k \in 1..n
    BY <1>4
  <2>2. j < k \/ k < j
    BY <2>1
  <2> QED BY <1>5, <2>1, <2>2
<1>10. Cardinality(Keys(list)) = Cardinality(F) /\ IsFiniteSet(Keys(list))
  <2>1. \A k \in F : key[k] \in Keys(list)
    BY <1>4
  <2> HIDE DEF F
  <2> QED BY <1>7, <1>8, <1>9, <2>1, SameSize
<1>11. Cardinality(K) \in Int /\ Cardinality(D) \in Int
  BY <1>6, FS_CardinalityType
<1>12. Cardinality(D) = Cardinality(K) - Cardinality(Keys(list))
  BY <1>7, <1>10, <1>11
<1> QED BY <1>6, <1>10, <1>12 DEF D, K

(* The finding of a duplicate is the last that its item has.               *)
LEMMA PartDuplicates ==
    ASSUME NEW list, NEW k
    PROVE  LET part == validateItem(list, k)
           IN  /\ Len(part) \in Nat
               /\ \A m \in 1..Len(part) : part[m].title = "Duplicate" => Again(list, k) /\ m = Len(part)
               /\ Again(list, k) => /\ Len(part) \in 1..Len(part)
                                    /\ part[Len(part)] = Finding("Duplicate", list[k].row, SeenAt(list, k))
<1> DEFINE part == validateItem(list, k)
           dup  == Finding("Duplicate", list[k].row, SeenAt(list, k))
           d    == When(Again(list, k), dup)
<1>1. PICK w : /\ IsList(w) /\ \A x \in ToSet(w) : x.title # "Duplicate"
               /\ part = w \o d
  BY ItemFindings
<1>2. /\ IsList(d) /\ Len(d) = (IF Again(list, k) THEN 1 ELSE 0)
      /\ Again(list, k) => d[1] = dup
  BY WhenIsList
<1> HIDE DEF part, d, dup
<1>3. /\ Len(w) \in Nat /\ DOMAIN w = 1..Len(w) /\ Len(part) = Len(w) + Len(d)
      /\ \A m \in 1..Len(w) : part[m] = w[m]
      /\ \A m \in 1..Len(d) : part[Len(w) + m] = d[m]
  <2>0. IsList(w) /\ IsList(d)
    BY <1>1, <1>2
  <2>1. Len(w) \in Nat /\ DOMAIN w = 1..Len(w)
    BY <1>1, ListDomain
  <2>2. /\ Len(w \o d) = Len(w) + Len(d)
        /\ \A m \in 1..Len(w) : (w \o d)[m] = w[m]
        /\ \A m \in 1..Len(d) : (w \o d)[Len(w) + m] = d[m]
    BY ONLY <2>0, Concatenated
  <2> QED BY <1>1, <2>1, <2>2
<1>4. Len(part) \in Nat
  BY <1>2, <1>3
<1>5. ASSUME NEW m \in 1..Len(part), part[m].title = "Duplicate"
      PROVE  Again(list, k) /\ m = Len(part)
  <2>1. m \notin 1..Len(w)
    BY <1>1, <1>3, <1>5 DEF ToSet
  <2>2. CASE Again(list, k)
    BY <1>2, <1>3, <2>1, <2>2
  <2>3. CASE ~Again(list, k)
    <3>1. Len(part) = Len(w)
      BY <1>2, <1>3, <2>3
    <3> QED BY <2>1, <3>1
  <2> QED BY <2>2, <2>3
<1>6. ASSUME Again(list, k)
      PROVE  Len(part) \in 1..Len(part) /\ part[Len(part)] = dup
  <2>1. Len(d) = 1 /\ Len(part) = Len(w) + 1 /\ 1 \in 1..Len(d)
    BY <1>2, <1>3, <1>6
  <2> QED BY <1>2, <1>3, <1>6, <2>1
<1> QED BY <1>4, <1>5, <1>6 DEF part, dup

(* The findings of duplicates, one for each repeated item.                 *)
LEMMA DuplicatesFound ==
    ASSUME NEW list, IsList(list), NEW reads, IsList(reads),
           \A x \in ToSet(reads) : x.title # "Duplicate"
    PROVE  \E at : LET found == Checked(list, reads)
                       dups  == Titled(found, {"Duplicate"})
                   IN  /\ \A k \in Repeated(list) :
                             /\ at[k] \in dups
                             /\ found[at[k]] = Finding("Duplicate", list[k].row, SeenAt(list, k))
                       /\ \A j, k \in Repeated(list) : at[j] = at[k] => j = k
                       /\ \A d \in dups : \E k \in Repeated(list) : at[k] = d
<1> DEFINE n     == Len(list)
           found == Checked(list, reads)
           dups  == Titled(found, {"Duplicate"})
           v     == validateItems(list)
           w     == When(list = <<>>, Finding("NoItems", 0, 0))
           r     == Len(reads)
<1>1. PICK parts, p : /\ Laid(v, n, parts, p)
                      /\ \A k \in 1..n : parts[k] = validateItem(list, k) /\ IsList(parts[k])
  BY Validated
<1> DEFINE D  == Repeated(list)
           at == [k \in D |-> r + (p[k] + Len(parts[k]))]
<1>2. n \in Nat /\ r \in Nat /\ DOMAIN reads = 1..r
  BY ListDomain
<1>3. IsList(v) /\ Len(v) \in Nat
  BY <1>1, ListDomain DEF Laid
<1>4. IsList(w) /\ (\A x \in ToSet(w) : x.title # "Duplicate")
      /\ Len(w) \in Nat /\ DOMAIN w = 1..Len(w)
  <2>1. IsList(w) /\ ToSet(w) = IF list = <<>> THEN {Finding("NoItems", 0, 0)} ELSE {}
    BY WhenIsList
  <2>2. Finding("NoItems", 0, 0).title = "NoItems"
    BY DEF Finding
  <2> HIDE DEF w
  <2> QED BY <2>1, <2>2, ListDomain
<1>5. found = (reads \o v) \o w
  BY DEF Checked
<1> HIDE DEF v, w
<1>6. /\ IsList(reads \o v) /\ Len(reads \o v) = r + Len(v)
      /\ \A i \in 1..r : (reads \o v)[i] = reads[i]
      /\ \A i \in 1..Len(v) : (reads \o v)[r + i] = v[i]
  BY <1>3, Concatenated
<1> DEFINE u == reads \o v
<1> HIDE DEF u
<1>7. /\ IsList(u) /\ Len(u) = r + Len(v)
      /\ \A i \in 1..r : u[i] = reads[i]
      /\ \A i \in 1..Len(v) : u[r + i] = v[i]
  BY <1>6 DEF u
<1>8. /\ Len(u \o w) = Len(u) + Len(w)
      /\ \A i \in 1..Len(u) : (u \o w)[i] = u[i]
      /\ \A i \in 1..Len(w) : (u \o w)[Len(u) + i] = w[i]
  <2>1. IsList(u) /\ IsList(w)
    BY <1>4, <1>7
  <2> QED BY ONLY <2>1, Concatenated
<1>9. /\ Len(found) = (r + Len(v)) + Len(w)
      /\ \A i \in 1..r : found[i] = reads[i]
      /\ \A i \in 1..Len(v) : found[r + i] = v[i]
      /\ \A i \in 1..Len(w) : found[(r + Len(v)) + i] = w[i]
  <2>1. found = u \o w
    BY <1>5 DEF u
  <2>2. \A i \in 1..r : i \in 1..Len(u)
    BY <1>2, <1>3, <1>7
  <2>3. \A i \in 1..Len(v) : r + i \in 1..Len(u)
    BY <1>2, <1>3, <1>7
  <2> HIDE DEF found
  <2> QED BY <1>7, <1>8, <2>1, <2>2, <2>3
<1> HIDE DEF found, n, r
<1>10. ASSUME NEW k \in 1..n
       PROVE  /\ Len(parts[k]) \in Nat
              /\ \A m \in 1..Len(parts[k]) :
                    parts[k][m].title = "Duplicate" => Again(list, k) /\ m = Len(parts[k])
              /\ Again(list, k) =>
                    /\ Len(parts[k]) \in 1..Len(parts[k])
                    /\ parts[k][Len(parts[k])] = Finding("Duplicate", list[k].row, SeenAt(list, k))
  <2>1. parts[k] = validateItem(list, k)
    BY <1>1, <1>10
  <2> QED BY <2>1, PartDuplicates
<1>11. \A k \in D : k \in 1..n /\ Again(list, k)
  BY DEF Repeated, n
<1>12. \A k \in 1..n : Again(list, k) => k \in D
  BY DEF Repeated, n
<1>13. \A k \in D : at[k] = r + (p[k] + Len(parts[k]))
  OBVIOUS
<1> HIDE DEF D, at
<1>14. ASSUME NEW k \in D
       PROVE  /\ p[k] + Len(parts[k]) \in 1..Len(v)
              /\ at[k] \in dups
              /\ found[at[k]] = Finding("Duplicate", list[k].row, SeenAt(list, k))
  <2>1. k \in 1..n /\ Len(parts[k]) \in 1..Len(parts[k])
        /\ parts[k][Len(parts[k])] = Finding("Duplicate", list[k].row, SeenAt(list, k))
    BY <1>10, <1>11
  <2> DEFINE i == p[k] + Len(parts[k])
  <2>2. i \in 1..Len(v) /\ v[i] = parts[k][Len(parts[k])]
    BY <1>1, <2>1 DEF Laid
  <2>3. at[k] = r + i
    BY <1>13
  <2> HIDE DEF i
  <2>4. found[at[k]] = Finding("Duplicate", list[k].row, SeenAt(list, k))
    BY <1>9, <2>1, <2>2, <2>3
  <2>5. at[k] \in 1..Len(found)
    BY <1>2, <1>3, <1>4, <1>9, <2>2, <2>3
  <2>6. found[at[k]].title = "Duplicate"
    BY <2>4 DEF Finding
  <2> QED BY <2>2, <2>4, <2>5, <2>6 DEF Titled, i
<1>15. ASSUME NEW j \in D, NEW k \in D, at[j] = at[k], j # k PROVE FALSE
  <2>1. ASSUME NEW a \in D, NEW b \in D, a < b PROVE at[a] # at[b]
    <3>1. a \in 1..n /\ b \in 1..n /\ Len(parts[b]) \in 1..Len(parts[b])
      BY <1>10, <1>11
    <3>2. p[a] + Len(parts[a]) <= p[b]
      BY <1>1, <2>1, <3>1 DEF Laid
    <3>3. p[b] \in Nat /\ p[a] + Len(parts[a]) \in Nat
      BY <1>1, <1>3, <1>14, <3>1 DEF Laid
    <3>4. at[a] = r + (p[a] + Len(parts[a])) /\ at[b] = r + (p[b] + Len(parts[b]))
      BY <1>13
    <3> QED BY <1>2, <3>1, <3>2, <3>3, <3>4
  <2>2. j \in Nat /\ k \in Nat
    BY <1>11
  <2> QED BY <1>15, <2>1, <2>2
<1>16. ASSUME NEW d \in dups PROVE \E k \in D : at[k] = d
  <2>1. d \in 1..Len(found) /\ found[d].title = "Duplicate"
    BY DEF Titled
  <2>2. CASE d \in 1..r
    BY <1>2, <1>9, <2>1, <2>2 DEF ToSet
  <2>3. CASE d \in (r + 1)..(r + Len(v))
    <3>1. PICK i \in 1..Len(v) : d = r + i
      <4>1. d - r \in 1..Len(v) /\ d = r + (d - r)
        BY <1>2, <1>3, <2>3
      <4> QED BY <4>1
    <3>2. PICK k \in 1..n : \E m \in 1..Len(parts[k]) : i = p[k] + m
      BY <1>1 DEF Laid
    <3>3. PICK m \in 1..Len(parts[k]) : i = p[k] + m
      BY <3>2
    <3>4. v[i] = parts[k][m]
      BY <1>1, <3>3 DEF Laid
    <3>5. parts[k][m].title = "Duplicate"
      BY <1>9, <2>1, <3>1, <3>4
    <3>6. k \in D /\ m = Len(parts[k])
      BY <1>10, <1>12, <3>5
    <3> QED BY <1>13, <3>1, <3>3, <3>6
  <2>4. CASE d \notin 1..r /\ d \notin (r + 1)..(r + Len(v))
    <3>1. PICK i \in 1..Len(w) : d = (r + Len(v)) + i
      <4>1. d - (r + Len(v)) \in 1..Len(w) /\ d = (r + Len(v)) + (d - (r + Len(v)))
        BY <1>2, <1>3, <1>4, <1>9, <2>1, <2>4
      <4> QED BY <4>1
    <3> QED BY <1>4, <1>9, <2>1, <3>1 DEF ToSet
  <2> QED BY <2>2, <2>3, <2>4
<1> QED BY <1>14, <1>15, <1>16 DEF found, D

LEMMA Duplicates ==
    ASSUME ChecksInv
    PROVE  DuplicatesExplained
<1> SUFFICES ASSUME NEW s \in DOMAIN results
             PROVE  LET list  == results[s].items
                        found == results[s].findings
                        dups  == Titled(found, {"Duplicate"})
                        At(row) == CHOOSE k \in DOMAIN list : list[k].row = row
                    IN  /\ Cardinality(dups) = Cardinality(KeyedItems(list)) - Cardinality(Keys(list))
                        /\ \A d \in dups :
                            /\ found[d].prev < found[d].row
                            /\ normalizeDuplicateKey(list[At(found[d].prev)])
                                 = normalizeDuplicateKey(list[At(found[d].row)])
                            /\ \A e \in dups : found[e].row # found[d].prev
  BY DEF DuplicatesExplained
<1> DEFINE list  == results[s].items
           found == results[s].findings
           f     == input[s]
           dups  == Titled(found, {"Duplicate"})
           At(row) == CHOOSE k \in DOMAIN list : list[k].row = row
<1>1. Failed(list, found, f) \/ Complete(list, found, f)
  BY DEF ChecksInv, ResultInv
<1> HIDE DEF list, found, f
<1>2. CASE Failed(list, found, f)
  <2>1. list = <<>> /\ dups = {}
    BY <1>2 DEF Failed
  <2>2. KeyedItems(list) = {}
    BY <2>1 DEF KeyedItems
  <2>3. Keys(list) = {}
    BY <2>2 DEF Keys
  <2>4. Cardinality(dups) = Cardinality(KeyedItems(list)) - Cardinality(Keys(list))
    <3>1. Cardinality({}) = 0
      BY FS_EmptySet
    <3> HIDE DEF dups
    <3>2. /\ Cardinality(dups) = 0 /\ Cardinality(KeyedItems(list)) = 0
          /\ Cardinality(Keys(list)) = 0
      BY <2>1, <2>2, <2>3, <3>1
    <3> QED BY <3>2
  <2> QED BY <2>1, <2>4 DEF list, found
<1>3. CASE Complete(list, found, f)
  <2>1. PICK reads : ReadFound(reads, f, Len(f.sheets)) /\ found = Checked(list, reads)
    BY <1>3 DEF Complete
  <2>2a. PICK high \in Nat : \E e : Sheetful(list, f, Upto(f, Len(SheetsRead(f))), 0, high, e)
    BY <1>3 DEF Complete, ItemsOf
  <2>2. PICK e : Sheetful(list, f, Upto(f, Len(SheetsRead(f))), 0, high, e)
    BY <2>2a
  <2>3. /\ IsList(list) /\ Len(list) \in Nat /\ DOMAIN list = 1..Len(list)
        /\ \A j, k \in 1..Len(list) : j < k => list[j].row < list[k].row
        /\ \A k \in 1..Len(list) : list[k].row \in Nat
    BY <2>2, ListDomain DEF Sheetful, Shows
  <2>4. IsList(reads) /\ \A x \in ToSet(reads) : x.title # "Duplicate"
    BY <2>1 DEF ReadFound
  <2> DEFINE D == Repeated(list)
  <2>5. PICK at : /\ \A k \in D : /\ at[k] \in dups
                                  /\ found[at[k]] = Finding("Duplicate", list[k].row, SeenAt(list, k))
                  /\ \A j, k \in D : at[j] = at[k] => j = k
                  /\ \A d \in dups : \E k \in D : at[k] = d
    BY <2>1, <2>3, <2>4, DuplicatesFound
  <2> HIDE DEF dups
  <2>6. Cardinality(dups) = Cardinality(KeyedItems(list)) - Cardinality(Keys(list))
    <3>1. /\ IsFiniteSet(D)
          /\ Cardinality(D) = Cardinality(KeyedItems(list)) - Cardinality(Keys(list))
      BY <2>3, RepeatedCounted
    <3> HIDE DEF D
    <3>2. Cardinality(dups) = Cardinality(D)
      BY <2>5, <3>1, SameSize
    <3> QED BY <3>1, <3>2
  <2>7. \A k \in 1..Len(list) : At(list[k].row) = k
    <3> SUFFICES ASSUME NEW k \in 1..Len(list) PROVE At(list[k].row) = k
      OBVIOUS
    <3>1. ASSUME NEW j \in 1..Len(list), list[j].row = list[k].row PROVE j = k
      <4>1. list[j].row \in Nat /\ list[k].row \in Nat /\ ~(list[j].row < list[k].row)
            /\ ~(list[k].row < list[j].row)
        BY <2>3, <3>1
      <4>2. ~(j < k) /\ ~(k < j)
        BY <2>3, <4>1
      <4> QED BY <4>2
    <3> QED BY <2>3, <3>1
  <2> HIDE DEF At
  <2>8. ASSUME NEW k \in D
        PROVE  \E j \in 1..Len(list) : /\ j < k /\ j \notin D
                                       /\ SeenAt(list, k) = list[j].row
                                       /\ normalizeDuplicateKey(list[j]) = normalizeDuplicateKey(list[k])
    <3>1. k \in 1..Len(list) /\ Alike(list, k) # {}
      BY DEF Repeated, Again
    <3>2. Alike(list, k) \subseteq Nat
      BY DEF Alike
    <3> DEFINE j == Min(Alike(list, k))
    <3>3. j \in Alike(list, k) /\ \A i \in Alike(list, k) : j <= i
      BY <3>1, <3>2, MinIn
    <3>4. SeenAt(list, k) = list[j].row
      BY DEF SeenAt
    <3> HIDE DEF j
    <3>5. j \in 1..(k - 1) /\ normalizeDuplicateKey(list[j]) = normalizeDuplicateKey(list[k])
      BY <3>3 DEF Alike
    <3>6. j \in 1..Len(list) /\ j < k
      BY <2>3, <3>1, <3>5
    <3>7. Alike(list, j) = {}
      <4> SUFFICES ASSUME NEW i \in Alike(list, j) PROVE FALSE
        OBVIOUS
      <4>1. i \in 1..(j - 1) /\ normalizeDuplicateKey(list[i]) = normalizeDuplicateKey(list[j])
        BY DEF Alike
      <4>2. i \in 1..(k - 1) /\ ~(j <= i)
        BY <3>1, <3>5, <3>6, <4>1
      <4>3. i \in Alike(list, k)
        BY <3>5, <4>1, <4>2 DEF Alike
      <4> QED BY <3>3, <4>2, <4>3
    <3>8. j \notin D
      BY <3>7 DEF Repeated, Again
    <3> QED BY <3>4, <3>5, <3>6, <3>8
  <2>9. \A k \in D : k \in 1..Len(list)
    BY DEF Repeated
  <2> HIDE DEF D
  <2>10. ASSUME NEW d \in dups
         PROVE  /\ found[d].prev < found[d].row
                /\ normalizeDuplicateKey(list[At(found[d].prev)])
                     = normalizeDuplicateKey(list[At(found[d].row)])
                /\ \A x \in dups : found[x].row # found[d].prev
    <3>1. PICK k \in D : at[k] = d
      BY <2>5
    <3>2. PICK j \in 1..Len(list) :
             /\ j < k /\ j \notin D /\ SeenAt(list, k) = list[j].row
             /\ normalizeDuplicateKey(list[j]) = normalizeDuplicateKey(list[k])
      BY <2>8
    <3>0. \A t, a, b : Finding(t, a, b).row = a /\ Finding(t, a, b).prev = b
      BY DEF Finding
    <3>3. found[d].row = list[k].row /\ found[d].prev = list[j].row
      <4>1. found[d] = Finding("Duplicate", list[k].row, SeenAt(list, k))
        BY <2>5, <3>1
      <4> QED BY <3>0, <3>2, <4>1
    <3>4. list[j].row < list[k].row
      BY <2>3, <2>9, <3>2
    <3>5. At(found[d].prev) = j /\ At(found[d].row) = k
      BY <2>7, <2>9, <3>3
    <3>6. ASSUME NEW x \in dups PROVE found[x].row # found[d].prev
      <4>1. PICK i \in D : at[i] = x
        BY <2>5
      <4>2. found[x].row = list[i].row
        <5>1. found[x] = Finding("Duplicate", list[i].row, SeenAt(list, i))
          BY <2>5, <4>1
        <5> QED BY <3>0, <5>1
      <4>3. i # j /\ At(list[i].row) = i /\ At(list[j].row) = j
        BY <2>7, <2>9, <3>2
      <4> QED BY <3>3, <4>2, <4>3
    <3> QED BY <3>2, <3>3, <3>4, <3>5, <3>6
  <2> QED BY <2>6, <2>10 DEF list, found, dups, At
<1> QED BY <1>1, <1>2, <1>3

-----------------------------------------------------------------------------
(* More about sums.                                                        *)

(* A sum is the same under other names.                                    *)
LEMMA TotalRenamed ==
    ASSUME NEW S, IsFiniteSet(S), NEW T, NEW f, NEW h, NEW g,
           \A x \in S : f[x] \in T /\ h[x] = g[f[x]],
           \A x, y \in S : f[x] = f[y] => x = y,
           \A z \in T : \E x \in S : f[x] = z,
           \A z \in T : g[z] \in Int
    PROVE  Total(h, S) = Total(g, T)
<1> DEFINE Im(U) == {f[x] : x \in U}
           Bad == {U \in SUBSET S : Total(h, U) # Total(g, Im(U))}
<1>1. Im(S) = T
  OBVIOUS
<1> SUFFICES ASSUME Bad # {} PROVE FALSE
  <2>1. S \in SUBSET S
    OBVIOUS
  <2> QED BY <1>1, <2>1
<1>2. PICK U \in Bad : \A V \in Bad : V \subseteq U => V = U
  <2>1. Bad \subseteq SUBSET S
    OBVIOUS
  <2> HIDE DEF Bad
  <2> QED BY <2>1, LeastSubset
<1>3. U \in SUBSET S /\ Total(h, U) # Total(g, Im(U))
  OBVIOUS
<1>4. IsFiniteSet(U)
  BY <1>3, FS_Subset
<1>5. CASE U = {}
  <2>1. Im(U) = {}
    BY <1>5
  <2>2. \A e : Total(e, {}) = 0
    <3>1. IsFiniteSet({})
      BY FS_EmptySet
    <3> QED BY ONLY <3>1, TotalStep
  <2> HIDE DEF Im, Bad
  <2> QED BY <1>3, <1>5, <2>1, <2>2
<1>6. CASE U # {}
  <2> DEFINE x == First(U)
             V == U \ {x}
  <2>1. x \in U /\ x \in S
    BY <1>3, <1>6, FirstIn
  <2>2. V \in SUBSET S /\ V \notin Bad
    <3>1. V \subseteq U /\ V # U
      BY <2>1
    <3> QED BY <1>2, <1>3, <3>1
  <2>3. Total(h, V) = Total(g, Im(V))
    BY <2>2
  <2>4. Total(h, U) = h[x] + Total(h, V)
    BY ONLY <1>4, <1>6, TotalStep DEF x, V
  <2>5. Im(U) \ {f[x]} = Im(V)
    BY <1>3, <2>1
  <2>6. f[x] \in Im(U) /\ Im(U) \subseteq T /\ h[x] = g[f[x]]
    BY <1>3, <2>1
  <2>7. IsFiniteSet(Im(U))
    <3> DEFINE F == [y \in U |-> f[y]]
    <3>1. F \in Surjection(U, Im(U))
      BY DEF Surjection
    <3> HIDE DEF F, Im
    <3> QED BY <1>4, <3>1, FS_Surjection
  <2>8. Total(g, Im(U)) = g[f[x]] + Total(g, Im(U) \ {f[x]})
    <3>1. \A z \in Im(U) : g[z] \in Int
      BY <2>6
    <3> DEFINE W == Im(U)
               y == f[x]
    <3>2. IsFiniteSet(W) /\ y \in W /\ \A z \in W : g[z] \in Int
      BY <2>6, <2>7, <3>1
    <3> HIDE DEF W, y
    <3>3. Total(g, W) = g[y] + Total(g, W \ {y})
      BY ONLY <3>2, TotalWithout
    <3> QED BY <3>3 DEF W, y
  <2> HIDE DEF x, V, Im, Bad
  <2> QED BY <1>3, <2>3, <2>4, <2>5, <2>6, <2>8
<1> QED BY <1>5, <1>6

LEMMA TotalParts ==
    ASSUME NEW S, IsFiniteSet(S), NEW T \in SUBSET S, NEW g, \A x \in S : g[x] \in Int
    PROVE  Total(g, S) = Total(g, T) + Total(g, S \ T)
<1> DEFINE Bad == {U \in SUBSET S : Total(g, S) # Total(g, U) + Total(g, S \ U)}
<1> SUFFICES ASSUME Bad # {} PROVE FALSE
  OBVIOUS
<1>2. PICK U \in Bad : \A V \in Bad : V \subseteq U => V = U
  <2>1. Bad \subseteq SUBSET S
    OBVIOUS
  <2> HIDE DEF Bad
  <2> QED BY <2>1, LeastSubset
<1>3. U \in SUBSET S /\ Total(g, S) # Total(g, U) + Total(g, S \ U)
  OBVIOUS
<1>4. IsFiniteSet(U)
  BY <1>3, FS_Subset
<1>0. \A V \in SUBSET S : Total(g, V) \in Int /\ IsFiniteSet(V)
  <2> SUFFICES ASSUME NEW V \in SUBSET S PROVE Total(g, V) \in Int /\ IsFiniteSet(V)
    OBVIOUS
  <2>1. IsFiniteSet(V) /\ \A x \in V : g[x] \in Int
    BY FS_Subset
  <2> QED BY ONLY <2>1, TotalInt
<1>5. CASE U = {}
  <2>1. Total(g, {}) = 0 /\ S \ U = S /\ S \in SUBSET S
    <3>1. IsFiniteSet({})
      BY FS_EmptySet
    <3>2. Total(g, {}) = 0
      BY ONLY <3>1, TotalStep
    <3> QED BY <1>5, <3>2
  <2> HIDE DEF Bad
  <2>2. Total(g, S) \in Int
    BY <1>0, <2>1
  <2>3. Total(g, S) = 0 + Total(g, S)
    BY <2>2
  <2> QED BY <1>3, <1>5, <2>1, <2>3
<1>6. CASE U # {}
  <2> DEFINE x == First(U)
             V == U \ {x}
             W == S \ V
  <2>1. x \in U /\ x \in S
    BY <1>3, <1>6, FirstIn
  <2>2. V \in SUBSET S /\ V \notin Bad
    <3>1. V \subseteq U /\ V # U
      BY <2>1
    <3> QED BY <1>2, <1>3, <3>1
  <2>3. Total(g, S) = Total(g, V) + Total(g, W)
    BY <2>2
  <2>4. Total(g, U) = g[x] + Total(g, V)
    BY ONLY <1>4, <1>6, TotalStep DEF x, V
  <2>5. W \ {x} = S \ U /\ x \in W /\ W \in SUBSET S /\ S \ U \in SUBSET S
    BY <1>3, <2>1
  <2> HIDE DEF x, V, W, Bad
  <2>6. Total(g, W) = g[x] + Total(g, W \ {x})
    <3>1. IsFiniteSet(W) /\ x \in W /\ \A z \in W : g[z] \in Int
      BY <1>0, <2>5
    <3> QED BY ONLY <3>1, TotalWithout
  <2>7. PICK a \in Int, b \in Int, c \in Int : a = Total(g, V) /\ b = g[x] /\ c = Total(g, S \ U)
    BY <1>0, <2>1, <2>2, <2>5
  <2>8. Total(g, S) = a + (b + c) /\ Total(g, U) = b + a /\ Total(g, S \ U) = c
    BY <2>3, <2>4, <2>5, <2>6, <2>7
  <2>9. a + (b + c) = (b + a) + c
    OBVIOUS
  <2> QED BY <1>3, <2>8, <2>9
<1> QED BY <1>5, <1>6

LEMMA TotalDifference ==
    ASSUME NEW S, IsFiniteSet(S), NEW a, NEW b, NEW d,
           \A x \in S : a[x] \in Int /\ b[x] \in Int /\ d[x] = a[x] - b[x]
    PROVE  Total(d, S) = Total(a, S) - Total(b, S)
<1> DEFINE Bad == {U \in SUBSET S : Total(d, U) # Total(a, U) - Total(b, U)}
<1> SUFFICES ASSUME Bad # {} PROVE FALSE
  OBVIOUS
<1>2. PICK U \in Bad : \A V \in Bad : V \subseteq U => V = U
  <2>1. Bad \subseteq SUBSET S
    OBVIOUS
  <2> HIDE DEF Bad
  <2> QED BY <2>1, LeastSubset
<1>3. U \in SUBSET S /\ Total(d, U) # Total(a, U) - Total(b, U)
  OBVIOUS
<1>4. IsFiniteSet(U)
  BY <1>3, FS_Subset
<1>5. CASE U = {}
  <2>1. \A e : Total(e, U) = 0
    BY ONLY <1>4, <1>5, TotalStep
  <2> QED BY <1>3, <2>1
<1>6. CASE U # {}
  <2> DEFINE x == First(U)
             V == U \ {x}
  <2>1. x \in U /\ x \in S
    BY <1>3, <1>6, FirstIn
  <2>2. V \in SUBSET S /\ V \notin Bad
    <3>1. V \subseteq U /\ V # U
      BY <2>1
    <3> QED BY <1>2, <1>3, <3>1
  <2>3. Total(d, V) = Total(a, V) - Total(b, V)
    BY <2>2
  <2>4. \A e : Total(e, U) = e[x] + Total(e, V)
    BY ONLY <1>4, <1>6, TotalStep DEF x, V
  <2>5. Total(a, V) \in Int /\ Total(b, V) \in Int
    <3>1. IsFiniteSet(V) /\ \A y \in V : a[y] \in Int /\ b[y] \in Int
      BY <1>3, <1>4, <2>2, FS_Subset
    <3> HIDE DEF V
    <3> QED BY ONLY <3>1, TotalInt
  <2> HIDE DEF x, V, Bad
  <2>6. PICK ax \in Int, bx \in Int, av \in Int, bv \in Int :
             ax = a[x] /\ bx = b[x] /\ av = Total(a, V) /\ bv = Total(b, V)
    BY <2>1, <2>5
  <2>7. /\ Total(a, U) = ax + av /\ Total(b, U) = bx + bv
        /\ Total(d, U) = (ax - bx) + (av - bv)
    BY <2>1, <2>3, <2>4, <2>6
  <2>8. (ax - bx) + (av - bv) = (ax + av) - (bx + bv)
    OBVIOUS
  <2> QED BY <1>3, <2>7, <2>8
<1> QED BY <1>5, <1>6

LEMMA TotalBounded ==
    ASSUME NEW S, IsFiniteSet(S), NEW d, \A x \in S : d[x] \in Int /\ Within(d[x], 1000)
    PROVE  Within(Total(d, S), 1000 * Cardinality(S))
<1> DEFINE Bad == {U \in SUBSET S : ~Within(Total(d, U), 1000 * Cardinality(U))}
<1> SUFFICES ASSUME Bad # {} PROVE FALSE
  OBVIOUS
<1>2. PICK U \in Bad : \A V \in Bad : V \subseteq U => V = U
  <2>1. Bad \subseteq SUBSET S
    OBVIOUS
  <2> HIDE DEF Bad
  <2> QED BY <2>1, LeastSubset
<1>3. U \in SUBSET S /\ ~Within(Total(d, U), 1000 * Cardinality(U))
  OBVIOUS
<1>4. IsFiniteSet(U)
  BY <1>3, FS_Subset
<1>5. CASE U = {}
  <2>1. Total(d, U) = 0
    BY ONLY <1>4, <1>5, TotalStep
  <2>2. Cardinality(U) = 0
    BY <1>5, FS_EmptySet
  <2> QED BY <1>3, <2>1, <2>2 DEF Within
<1>6. CASE U # {}
  <2> DEFINE x == First(U)
             V == U \ {x}
  <2>1. x \in U /\ x \in S
    BY <1>3, <1>6, FirstIn
  <2>2. V \in SUBSET S /\ V \notin Bad
    <3>1. V \subseteq U /\ V # U
      BY <2>1
    <3> QED BY <1>2, <1>3, <3>1
  <2>3. Within(Total(d, V), 1000 * Cardinality(V))
    BY <2>2
  <2>4. Total(d, U) = d[x] + Total(d, V)
    BY ONLY <1>4, <1>6, TotalStep DEF x, V
  <2>5. IsFiniteSet(V) /\ Cardinality(V) = Cardinality(U) - 1
        /\ Cardinality(U) \in Nat /\ Cardinality(V) \in Nat
    <3>1. IsFiniteSet(V) /\ Cardinality(V) = Cardinality(U) - 1
      BY <1>4, <2>1, FS_RemoveElement
    <3> QED BY <1>4, <3>1, FS_CardinalityType
  <2>6. Total(d, V) \in Int
    <3>1. IsFiniteSet(V) /\ \A y \in V : d[y] \in Int
      BY <2>2, <2>5
    <3> HIDE DEF V
    <3> QED BY ONLY <3>1, TotalInt
  <2> HIDE DEF x, V, Bad
  <2>7. PICK dx \in Int, dv \in Int, n \in Nat, m \in Nat :
             dx = d[x] /\ dv = Total(d, V) /\ n = Cardinality(U) /\ m = Cardinality(V)
    BY <2>1, <2>5, <2>6
  <2>8. Total(d, U) = dx + dv /\ m = n - 1 /\ Within(dx, 1000) /\ Within(dv, 1000 * m)
    BY <2>1, <2>3, <2>4, <2>5, <2>7
  <2>9. Within(dx + dv, 1000 * n)
    BY ONLY dx \in Int, dv \in Int, n \in Nat, m \in Nat, <2>8 DEF Within
  <2> QED BY <1>3, <2>7, <2>8, <2>9
<1> QED BY <1>5, <1>6
-----------------------------------------------------------------------------
(* The comparison.                                                         *)

(* Items have numbers that tell them apart, and amounts.                   *)
Numbered(list) ==
    /\ IsList(list)
    /\ \A k \in 1..Len(list) : list[k].row \in Nat /\ list[k].total \in Int
    /\ \A j, k \in 1..Len(list) : list[j].row = list[k].row => j = k

LEMMA ResultNumbered ==
    ASSUME NEW r, NEW f, ResultInv(r, f)
    PROVE  Numbered(r.items)
<1> DEFINE list == r.items
<1>1. Failed(list, r.findings, f) \/ Complete(list, r.findings, f)
  BY DEF ResultInv
<1> HIDE DEF list
<1>2. CASE Failed(list, r.findings, f)
  <2>1. list = <<>> /\ Len(list) = 0 /\ IsList(list)
    BY <1>2 DEF Failed, IsList
  <2>2. \A k \in 1..0 : FALSE
    OBVIOUS
  <2> QED BY <2>1, <2>2 DEF Numbered, list
<1>3. CASE Complete(list, r.findings, f)
  <2>1a. PICK high \in Nat : \E e : Sheetful(list, f, Upto(f, Len(SheetsRead(f))), 0, high, e)
    BY <1>3 DEF Complete, ItemsOf
  <2>1. PICK e : Sheetful(list, f, Upto(f, Len(SheetsRead(f))), 0, high, e)
    BY <2>1a
  <2>2. /\ IsList(list) /\ Len(list) \in Nat
        /\ \A j, k \in 1..Len(list) : j < k => list[j].row < list[k].row
        /\ \A k \in 1..Len(list) : list[k].row \in Nat /\ list[k].total \in Int
    BY <2>1, ListDomain DEF Sheetful, Shows
  <2>3. ASSUME NEW j \in 1..Len(list), NEW k \in 1..Len(list), list[j].row = list[k].row
        PROVE  j = k
    <3>1. ~(list[j].row < list[k].row) /\ ~(list[k].row < list[j].row)
      BY <2>2, <2>3
    <3>2. ~(j < k) /\ ~(k < j)
      BY <2>2, <3>1
    <3> QED BY <2>2, <3>2
  <2> QED BY <2>2, <2>3 DEF Numbered, list
<1> QED BY <1>1, <1>2, <1>3

(* With as many keys as items, every item is the only one of its key.      *)
LEMMA PlainKeys ==
    ASSUME NEW list, IsList(list), Cardinality(Keys(list)) = Len(list)
    PROVE  /\ KeyedItems(list) = 1..Len(list)
           /\ \A j, k \in 1..Len(list) :
                 normalizeDuplicateKey(list[j]) = normalizeDuplicateKey(list[k]) => j = k
<1> DEFINE n == Len(list)
           K == KeyedItems(list)
           D == Repeated(list)
<1>1. n \in Nat /\ DOMAIN list = 1..n
  BY ListDomain
<1>2. /\ IsFiniteSet(D) /\ IsFiniteSet(K)
      /\ Cardinality(D) = Cardinality(K) - n
  BY RepeatedCounted
<1>3. K \in SUBSET (1..n) /\ IsFiniteSet(1..n) /\ Cardinality(1..n) = n
  <2>1. K \in SUBSET (1..n)
    BY <1>1 DEF KeyedItems
  <2>2. 1 \in Int /\ n \in Int
    BY <1>1
  <2>3. IsFiniteSet(1..n) /\ Cardinality(1..n) = IF 1 > n THEN 0 ELSE n - 1 + 1
    BY <2>2, FS_Interval
  <2> QED BY <1>1, <2>1, <2>3
<1> HIDE DEF n, K, D
<1>4. Cardinality(D) \in Nat /\ Cardinality(K) \in Nat
  BY <1>2, FS_CardinalityType
<1>5. Cardinality(K) <= n /\ (Cardinality(K) = n => K = 1..n)
  <2>1. /\ Cardinality(K) <= Cardinality(1..n)
        /\ Cardinality(K) = Cardinality(1..n) => K = 1..n
    BY <1>3, FS_Subset
  <2> QED BY <1>3, <2>1
<1>6. Cardinality(K) = n /\ Cardinality(D) = 0
  BY <1>1, <1>2, <1>4, <1>5
<1>7. K = 1..n /\ D = {}
  BY <1>2, <1>5, <1>6, FS_EmptySet
<1>8. ASSUME NEW j \in 1..n, NEW k \in 1..n, j < k,
             normalizeDuplicateKey(list[j]) = normalizeDuplicateKey(list[k])
      PROVE  FALSE
  <2>1. j \in 1..(k - 1)
    BY <1>1, <1>8
  <2>2. j \in Alike(list, k)
    BY <1>8, <2>1 DEF Alike
  <2>3. Keyed(list[k])
    BY <1>7 DEF K, KeyedItems
  <2>4. k \in D
    BY <2>2, <2>3 DEF D, Repeated, Again, n
  <2> QED BY <1>7, <2>4
<1>9. ASSUME NEW j \in 1..n, NEW k \in 1..n,
             normalizeDuplicateKey(list[j]) = normalizeDuplicateKey(list[k])
      PROVE  j = k
  <2>1. ~(j < k) /\ ~(k < j)
    BY <1>8, <1>9
  <2> QED BY <1>1, <2>1
<1> QED BY <1>7, <1>9 DEF n, K

(* Then the items by their keys have the rows and the sum of the list.     *)
LEMMA PlainItems ==
    ASSUME NEW list, Numbered(list), Cardinality(Keys(list)) = Len(list)
    PROVE  /\ DOMAIN ByKey(list) = Keys(list) /\ IsFiniteSet(Keys(list))
           /\ \A z \in Keys(list) : ByKey(list)[z].total \in Int
           /\ \A y, z \in Keys(list) : ByKey(list)[y].row = ByKey(list)[z].row => y = z
           /\ \A h : (\A z \in Keys(list) : h[z] = ByKey(list)[z].total) =>
                        sumItemsTotal(list) = Total(h, Keys(list))
<1> DEFINE n == Len(list)
           Z == Keys(list)
           b == ByKey(list)
           key == [k \in 1..n |-> normalizeDuplicateKey(list[k])]
           at == [z \in Z |-> CHOOSE k \in 1..n : key[k] = z]
<1>1. n \in Nat /\ DOMAIN list = 1..n /\ IsList(list)
  BY ListDomain DEF Numbered
<1>2. /\ KeyedItems(list) = 1..n
      /\ \A j, k \in 1..n : key[j] = key[k] => j = k
  <2>1. IsList(list) /\ Cardinality(Keys(list)) = Len(list)
    BY <1>1
  <2> QED BY ONLY <2>1, PlainKeys DEF n, key
<1>3. IsFiniteSet(Z)
  BY <1>1, RepeatedCounted
<1>4. /\ \A k \in 1..n : key[k] = normalizeDuplicateKey(list[k])
      /\ Z = {key[k] : k \in 1..n}
  BY <1>2 DEF Keys
<1>5. DOMAIN b = Z
  BY DEF ByKey
<1> HIDE DEF key, Z
<1>6. /\ \A z \in Z : at[z] \in 1..n /\ key[at[z]] = z
      /\ \A k \in 1..n : key[k] \in Z /\ at[key[k]] = k
  <2>1. \A z \in Z : at[z] = CHOOSE k \in 1..n : key[k] = z
    OBVIOUS
  <2> HIDE DEF at
  <2>2. \A z \in Z : at[z] \in 1..n /\ key[at[z]] = z
    BY <1>4, <2>1
  <2> QED BY <1>2, <1>4, <2>2
<1> HIDE DEF at
<1>7. ASSUME NEW z \in Z PROVE b[z] = list[at[z]]
  <2> DEFINE S == {k \in DOMAIN list : normalizeDuplicateKey(list[k]) = z}
  <2>1. S = {at[z]}
    BY <1>1, <1>2, <1>4, <1>6
  <2>2. b[z] = list[Max(S)]
    BY DEF ByKey, Z
  <2> HIDE DEF S
  <2>3. Whole(S) /\ S # {} /\ IsFiniteSet(S)
    <3>1. at[z] \in Int
      BY <1>6
    <3>2. IsFiniteSet({at[z]})
      BY FS_Singleton
    <3> QED BY <2>1, <3>1, <3>2 DEF Whole
  <2>4. Max(S) \in S
    BY <2>3, MaxIn
  <2> QED BY <2>1, <2>2, <2>4
<1> HIDE DEF b
<1>8. \A k \in 1..n : list[k].total \in Int
  BY DEF Numbered, n
<1>9. \A z \in Z : b[z].total \in Int
  BY <1>6, <1>7, <1>8
<1>10. ASSUME NEW y \in Z, NEW z \in Z, b[y].row = b[z].row PROVE y = z
  <2>1. at[y] = at[z]
    BY <1>6, <1>7, <1>10 DEF Numbered, n
  <2> QED BY <1>6, <2>1
<1>11. ASSUME NEW h, \A z \in Z : h[z] = b[z].total
       PROVE  sumItemsTotal(list) = Total(h, Z)
  <2> DEFINE g == [k \in DOMAIN list |-> list[k].total]
             T == 1..n
  <2>1. sumItemsTotal(list) = Total(g, T)
    BY <1>1, SumOfTotals
  <2>2. \A k \in T : g[k] = list[k].total
    BY <1>1
  <2> HIDE DEF g, T
  <2>3. /\ \A x \in Z : at[x] \in T /\ h[x] = g[at[x]]
        /\ \A x, y \in Z : at[x] = at[y] => x = y
        /\ \A k \in T : \E x \in Z : at[x] = k
        /\ \A k \in T : g[k] \in Int
    BY <1>6, <1>7, <1>8, <1>11, <2>2 DEF T
  <2>4. Total(h, Z) = Total(g, T)
    BY ONLY <1>3, <2>3, TotalRenamed
  <2> QED BY <2>1, <2>4
<1> QED BY <1>3, <1>5, <1>9, <1>10, <1>11 DEF Z, b

LEMMA SumOfAmounts ==
    ASSUME NEW A
    PROVE  /\ SumOver(A, LAMBDA i : i.total) = Total([i \in A |-> i.total], A)
           /\ SumOver(A, LAMBDA i : i.delta) = Total([i \in A |-> i.delta], A)
<1>1. MapThenSumSet(LAMBDA i : i.total, A) = Total([i \in A |-> i.total], A)
  BY ZenonT(60) DEF MapThenSumSet, MapThenFoldSet, Total, Sums, First
<1>2. MapThenSumSet(LAMBDA i : i.delta, A) = Total([i \in A |-> i.delta], A)
  BY ZenonT(60) DEF MapThenSumSet, MapThenFoldSet, Total, Sums, First
<1> QED BY <1>1, <1>2 DEF SumOver

(* Different keys have different items, so a set of items has their sum.   *)
LEMMA ListedTotal ==
    ASSUME NEW S, IsFiniteSet(S), NEW b, NEW h,
           \A z \in S : h[z] = b[z].total /\ h[z] \in Int,
           \A y, z \in S : b[y].row = b[z].row => y = z
    PROVE  SumOver({b[z] : z \in S}, LAMBDA i : i.total) = Total(h, S)
<1> DEFINE T == {b[z] : z \in S}
           g == [i \in T |-> i.total]
<1>1. SumOver(T, LAMBDA i : i.total) = Total(g, T)
  BY SumOfAmounts
<1>2. \A i \in T : g[i] = i.total
  OBVIOUS
<1>3. /\ \A z \in S : b[z] \in T
      /\ \A i \in T : \E z \in S : b[z] = i
  OBVIOUS
<1> HIDE DEF T, g
<1>4. /\ \A x \in S : b[x] \in T /\ h[x] = g[b[x]]
      /\ \A x, y \in S : b[x] = b[y] => x = y
      /\ \A i \in T : \E x \in S : b[x] = i
      /\ \A i \in T : g[i] \in Int
  BY <1>2, <1>3
<1>5. Total(h, S) = Total(g, T)
  BY ONLY IsFiniteSet(S), <1>4, TotalRenamed
<1> QED BY <1>1, <1>5 DEF T

LEMMA ChangedTotal ==
    ASSUME NEW S, IsFiniteSet(S), NEW c, NEW d,
           \A z \in S : d[z] = c[z].delta /\ d[z] \in Int,
           \A y, z \in S : c[y].newRow = c[z].newRow => y = z
    PROVE  /\ SumOver({c[z] : z \in S}, LAMBDA i : i.delta) = Total(d, S)
           /\ Cardinality({c[z] : z \in S}) = Cardinality(S)
<1> DEFINE T == {c[z] : z \in S}
           g == [i \in T |-> i.delta]
<1>1. SumOver(T, LAMBDA i : i.delta) = Total(g, T)
  BY SumOfAmounts
<1>2. \A i \in T : g[i] = i.delta
  OBVIOUS
<1>3. /\ \A z \in S : c[z] \in T
      /\ \A i \in T : \E z \in S : c[z] = i
  OBVIOUS
<1> HIDE DEF T, g
<1>4. /\ \A x \in S : c[x] \in T /\ d[x] = g[c[x]]
      /\ \A x, y \in S : c[x] = c[y] => x = y
      /\ \A i \in T : \E x \in S : c[x] = i
      /\ \A i \in T : g[i] \in Int
  BY <1>2, <1>3
<1>5. Total(d, S) = Total(g, T)
  BY ONLY IsFiniteSet(S), <1>4, TotalRenamed
<1>6. Cardinality(T) = Cardinality(S)
  <2>1. \A x \in S : c[x] \in T
    BY <1>4
  <2> QED BY ONLY IsFiniteSet(S), <1>4, <2>1, SameSize
<1> QED BY <1>1, <1>5, <1>6 DEF T
(* What a comparison tells of the budgets.                                 *)
Told(c) == SumOver(c.added, LAMBDA i : i.total) - SumOver(c.removed, LAMBDA i : i.total)
             + SumOver(c.changed, LAMBDA i : i.delta)

LEMMA DeltaAccounted ==
    ASSUME NEW base, NEW new, Numbered(base), Numbered(new),
           Cardinality(Keys(base)) = Len(base), Cardinality(Keys(new)) = Len(new)
    PROVE  LET c == compareEstimateItems(base, new)
           IN  Abs(c.delta - Told(c)) <=
                 1000 * (Cardinality(Keys(base) \cap Keys(new)) - Cardinality(c.changed))
<1> DEFINE old == ByKey(base)
           now == ByKey(new)
           O   == Keys(base)
           N   == Keys(new)
           B   == O \cap N
           M   == {z \in B : Moved(old[z], now[z])}
           C(z) == [baseRow |-> old[z].row, newRow |-> now[z].row,
                    delta   |-> now[z].total - old[z].total]
           f   == [z \in B |-> C(z)]
           c   == compareEstimateItems(base, new)
           to  == [z \in O |-> old[z].total]
           tn  == [z \in N |-> now[z].total]
           d   == [z \in B |-> now[z].total - old[z].total]
<1>1. /\ DOMAIN old = O /\ IsFiniteSet(O)
      /\ \A z \in O : old[z].total \in Int
      /\ \A y, z \in O : old[y].row = old[z].row => y = z
      /\ \A h : (\A z \in O : h[z] = old[z].total) => sumItemsTotal(base) = Total(h, O)
  BY ONLY Numbered(base), Cardinality(Keys(base)) = Len(base), PlainItems
<1>2. /\ DOMAIN now = N /\ IsFiniteSet(N)
      /\ \A z \in N : now[z].total \in Int
      /\ \A y, z \in N : now[y].row = now[z].row => y = z
      /\ \A h : (\A z \in N : h[z] = now[z].total) => sumItemsTotal(new) = Total(h, N)
  BY ONLY Numbered(new), Cardinality(Keys(new)) = Len(new), PlainItems
<1>3. /\ c.added = {now[z] : z \in N \ B} /\ c.removed = {old[z] : z \in O \ B}
      /\ c.changed = {C(z) : z \in M}
      /\ c.delta = sumItemsTotal(new) - sumItemsTotal(base)
  <2>1. DOMAIN old = O /\ DOMAIN now = N
    BY <1>1, <1>2
  <2> QED BY ONLY <2>1 DEF compareEstimateItems
<1>4. c.changed = {f[z] : z \in M}
  <2>1. \A z \in M : f[z] = C(z)
    OBVIOUS
  <2> HIDE DEF c, C, f, M
  <2> QED BY <1>3, <2>1
<1>5. /\ \A z \in O : to[z] = old[z].total /\ to[z] \in Int
      /\ \A z \in N : tn[z] = now[z].total /\ tn[z] \in Int
      /\ \A z \in B : d[z] = tn[z] - to[z] /\ d[z] = f[z].delta /\ f[z].newRow = now[z].row
  <2> HIDE DEF old, now, O, N
  <2> QED BY <1>1, <1>2
<1>6. M \in SUBSET B /\ B \in SUBSET O /\ B \in SUBSET N
  OBVIOUS
<1>7. \A z \in B \ M : d[z] \in Int /\ Within(d[z], 1000)
  <2> SUFFICES ASSUME NEW z \in B \ M PROVE d[z] \in Int /\ Within(d[z], 1000)
    OBVIOUS
  <2>1. ~Moved(old[z], now[z])
    OBVIOUS
  <2>2. z \in O /\ z \in N /\ z \in B
    OBVIOUS
  <2>3. to[z] \in Int /\ tn[z] \in Int /\ d[z] = tn[z] - to[z] /\ to[z] = old[z].total /\ tn[z] = now[z].total
    BY <1>5, <2>2
  <2> HIDE DEF old, now, O, N, to, tn, d, B, M
  <2>4. d[z] \in Int /\ Abs(d[z]) \in Int
    BY <2>3 DEF Abs
  <2>5. ~(Abs(d[z]) > 1000)
    BY <2>1, <2>3 DEF Moved
  <2>6. Abs(d[z]) <= 1000
    BY <2>4, <2>5
  <2> QED BY <2>4, <2>6, AbsWithin
<1> HIDE DEF old, now, M, C, f, to, tn, d, c, B, O, N
<1>8. \A U : U \subseteq O \/ U \subseteq N => IsFiniteSet(U)
  BY <1>1, <1>2, FS_Subset
<1>9. IsFiniteSet(B) /\ IsFiniteSet(M) /\ IsFiniteSet(B \ M) /\ IsFiniteSet(N \ B) /\ IsFiniteSet(O \ B)
  BY <1>6, <1>8
<1>10. SumOver(c.added, LAMBDA i : i.total) = Total(tn, N \ B)
  <2> DEFINE U == N \ B
  <2>1. /\ \A z \in U : tn[z] = now[z].total /\ tn[z] \in Int
        /\ \A y, z \in U : now[y].row = now[z].row => y = z
    BY <1>2, <1>5
  <2>2. IsFiniteSet(U) /\ c.added = {now[z] : z \in U}
    BY <1>3, <1>9
  <2> HIDE DEF U
  <2>3. SumOver({now[z] : z \in U}, LAMBDA i : i.total) = Total(tn, U)
    BY ONLY <2>1, <2>2, ListedTotal
  <2> QED BY <2>2, <2>3 DEF U
<1>11. SumOver(c.removed, LAMBDA i : i.total) = Total(to, O \ B)
  <2> DEFINE U == O \ B
  <2>1. /\ \A z \in U : to[z] = old[z].total /\ to[z] \in Int
        /\ \A y, z \in U : old[y].row = old[z].row => y = z
    BY <1>1, <1>5
  <2>2. IsFiniteSet(U) /\ c.removed = {old[z] : z \in U}
    BY <1>3, <1>9
  <2> HIDE DEF U
  <2>3. SumOver({old[z] : z \in U}, LAMBDA i : i.total) = Total(to, U)
    BY ONLY <2>1, <2>2, ListedTotal
  <2> QED BY <2>2, <2>3 DEF U
<1>12. \A z \in B : d[z] \in Int
  BY <1>5, <1>6
<1>13. /\ SumOver(c.changed, LAMBDA i : i.delta) = Total(d, M)
       /\ Cardinality(c.changed) = Cardinality(M)
  <2>1. /\ \A z \in M : d[z] = f[z].delta /\ d[z] \in Int
        /\ \A y, z \in M : f[y].newRow = f[z].newRow => y = z
    BY <1>2, <1>5, <1>6, <1>12
  <2>2. /\ SumOver({f[z] : z \in M}, LAMBDA i : i.delta) = Total(d, M)
        /\ Cardinality({f[z] : z \in M}) = Cardinality(M)
    BY ONLY <2>1, <1>9, ChangedTotal, ZenonT(60)
  <2> QED BY <1>4, <2>2
<1>14. sumItemsTotal(new) = Total(tn, B) + Total(tn, N \ B)
  <2>1. sumItemsTotal(new) = Total(tn, N)
    BY <1>2, <1>5
  <2>2. IsFiniteSet(N) /\ B \in SUBSET N /\ \A z \in N : tn[z] \in Int
    BY <1>2, <1>5, <1>6
  <2>3. Total(tn, N) = Total(tn, B) + Total(tn, N \ B)
    BY ONLY <2>2, TotalParts
  <2> QED BY <2>1, <2>3
<1>15. sumItemsTotal(base) = Total(to, B) + Total(to, O \ B)
  <2>1. sumItemsTotal(base) = Total(to, O)
    BY <1>1, <1>5
  <2>2. IsFiniteSet(O) /\ B \in SUBSET O /\ \A z \in O : to[z] \in Int
    BY <1>1, <1>5, <1>6
  <2>3. Total(to, O) = Total(to, B) + Total(to, O \ B)
    BY ONLY <2>2, TotalParts
  <2> QED BY <2>1, <2>3
<1>16. Total(d, B) = Total(tn, B) - Total(to, B)
  <2>1. IsFiniteSet(B) /\ \A z \in B : tn[z] \in Int /\ to[z] \in Int /\ d[z] = tn[z] - to[z]
    BY <1>5, <1>6, <1>9
  <2> QED BY ONLY <2>1, TotalDifference
<1>17. Total(d, B) = Total(d, M) + Total(d, B \ M)
  <2>1. IsFiniteSet(B) /\ M \in SUBSET B /\ \A z \in B : d[z] \in Int
    BY <1>6, <1>9, <1>12
  <2> QED BY ONLY <2>1, TotalParts
<1>18. Within(Total(d, B \ M), 1000 * Cardinality(B \ M))
  BY ONLY <1>7, <1>9, TotalBounded
<1>19. Cardinality(B \ M) = Cardinality(B) - Cardinality(M) /\ Cardinality(B \ M) \in Nat
  <2>1. B \cap M = M
    BY <1>6
  <2>2. Cardinality(B \ M) = Cardinality(B) - Cardinality(B \cap M)
    BY ONLY <1>9, FS_Difference
  <2> QED BY <1>9, <2>1, <2>2, FS_CardinalityType
<1>20. /\ Total(tn, B) \in Int /\ Total(tn, N \ B) \in Int
       /\ Total(to, B) \in Int /\ Total(to, O \ B) \in Int
       /\ Total(d, M) \in Int /\ Total(d, B \ M) \in Int
  <2>1. /\ \A z \in B : tn[z] \in Int /\ to[z] \in Int
        /\ \A z \in N \ B : tn[z] \in Int
        /\ \A z \in O \ B : to[z] \in Int
        /\ \A z \in M : d[z] \in Int
        /\ \A z \in B \ M : d[z] \in Int
    BY <1>5, <1>6, <1>12
  <2> QED BY ONLY <1>9, <2>1, TotalInt
<1>21. PICK a1 \in Int, a2 \in Int, b1 \in Int, b2 \in Int, d1 \in Int, d2 \in Int, k \in Nat :
          /\ a1 = Total(tn, B) /\ a2 = Total(tn, N \ B) /\ b1 = Total(to, B) /\ b2 = Total(to, O \ B)
          /\ d1 = Total(d, M) /\ d2 = Total(d, B \ M) /\ k = Cardinality(B \ M)
  BY <1>19, <1>20
<1>22. /\ c.delta = (a1 + a2) - (b1 + b2) /\ Told(c) = (a2 - b2) + d1
       /\ d1 + d2 = a1 - b1 /\ Within(d2, 1000 * k)
       /\ k = Cardinality(B) - Cardinality(c.changed)
  BY <1>3, <1>10, <1>11, <1>13, <1>14, <1>15, <1>16, <1>17, <1>18, <1>19, <1>21 DEF Told
<1>23. ((a1 + a2) - (b1 + b2)) - ((a2 - b2) + d1) = d2
  <2>1. d1 + d2 = a1 - b1
    BY <1>22
  <2> QED BY <2>1
<1>24. 1000 * k \in Int
  OBVIOUS
<1>25. Abs(d2) <= 1000 * k
  BY <1>22, <1>24, AbsWithin
<1>26. Abs(c.delta - Told(c)) <= 1000 * (Cardinality(B) - Cardinality(c.changed))
  BY <1>22, <1>23, <1>25
<1> QED BY <1>26 DEF c, B, O, N

LEMMA Delta ==
    ASSUME ChecksInv
    PROVE  DeltaExplained
<1> DEFINE base == results["base"].items
           new  == results["new"].items
<1> SUFFICES ASSUME op = "compare", phase = "done",
                    Cardinality(Keys(base)) = Len(base), Cardinality(Keys(new)) = Len(new)
             PROVE  Abs(comparison.delta - Told(comparison)) <=
                      1000 * (Cardinality(Keys(base) \cap Keys(new)) - Cardinality(comparison.changed))
  BY DEF DeltaExplained, Told
<1>1. /\ {"base", "new"} \subseteq DOMAIN results
      /\ comparison = compareEstimateItems(base, new)
  BY DEF ChecksInv, ComparedInv
<1>2. Numbered(base) /\ Numbered(new)
  <2>1. ResultInv(results["base"], input["base"]) /\ ResultInv(results["new"], input["new"])
    BY <1>1 DEF ChecksInv
  <2> QED BY <2>1, ResultNumbered
<1>3. Cardinality(Keys(base)) = Len(base) /\ Cardinality(Keys(new)) = Len(new)
  OBVIOUS
<1> HIDE DEF base, new
<1>4. LET c == compareEstimateItems(base, new)
      IN  Abs(c.delta - Told(c)) <=
            1000 * (Cardinality(Keys(base) \cap Keys(new)) - Cardinality(c.changed))
  BY ONLY <1>2, <1>3, DeltaAccounted
<1> QED BY <1>1, <1>4

(* A spreadsheet that is "ready" has items, no sheet of it was left out or *)
(* cut off without a finding, and it adds up.                              *)
THEOREM ReadyAddsUp == Spec => []ReadyReconciles
<1>1. Init => SidesInv /\ ChecksInv
  BY SidesInit, ChecksInit
<1>2. SidesInv /\ ChecksInv /\ [Next]_vars => (SidesInv /\ ChecksInv)'
  BY SidesStep, ChecksStep
<1>3. SidesInv /\ ChecksInv => ReadyReconciles
  BY Ready
<1> QED BY <1>1, <1>2, <1>3, PTL DEF Spec

(* Every item after the first of its name and unit has a finding, which    *)
(* names that first one.                                                   *)
THEOREM DuplicatesAreTold == Spec => []DuplicatesExplained
<1>1. Init => SidesInv /\ ChecksInv
  BY SidesInit, ChecksInit
<1>2. SidesInv /\ ChecksInv /\ [Next]_vars => (SidesInv /\ ChecksInv)'
  BY SidesStep, ChecksStep
<1>3. ChecksInv => DuplicatesExplained
  BY Duplicates
<1> QED BY <1>1, <1>2, <1>3, PTL DEF Spec

(* What was added, removed and changed accounts for the difference of two  *)
(* budgets, but for a som per position left unmentioned.                   *)
THEOREM DeltaIsExplained == Spec => []DeltaExplained
<1>1. Init => SidesInv /\ ChecksInv
  BY SidesInit, ChecksInit
<1>2. SidesInv /\ ChecksInv /\ [Next]_vars => (SidesInv /\ ChecksInv)'
  BY SidesStep, ChecksStep
<1>3. ChecksInv => DeltaExplained
  BY Delta
<1> QED BY <1>1, <1>2, <1>3, PTL DEF Spec

=============================================================================
