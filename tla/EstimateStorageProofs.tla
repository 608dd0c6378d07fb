------------------------- MODULE EstimateStorageProofs -------------------------
(***************************************************************************)
(* Theorems about the files of a batch and of direct uploads: who keeps    *)
(* them, who removes them and what the account is charged, for any number  *)
(* of files, deletions and cleanups, and any faults unless a theorem says  *)
(* otherwise.                                                              *)
(***************************************************************************)
EXTENDS EstimateStorage, FiniteSetTheorems, TLAPS

Midway == {"stat", "remove", "release"}

TypeInv ==
    /\ env \in FaultScenarios
    /\ status \in {"pending", "processing"} \cup Settled /\ attempts \in Nat
    /\ retired \in BOOLEAN
    /\ path \subseteq Files /\ link \subseteq Files
    /\ est \subseteq Documents /\ estPath \subseteq est
    /\ disk \subseteq Documents /\ storage \in Nat
    /\ wpc \in {"idle", "load", "next", "ensure", "save", "done"}
    /\ left \subseteq Files /\ snap \subseteq Files /\ at \in Files \cup {None}
    /\ wpc \in {"ensure", "save", "done"} => at \in Files
    /\ dpc \in [Deleters -> Midway \cup {"idle", "end"}]
    /\ target \in [Deleters -> Documents \cup {None}]
    /\ sized \in [Deleters -> BOOLEAN]
    /\ \A d \in Deleters : dpc[d] \in Midway => target[d] \in Documents
    /\ cpc \in [Cleaners -> {"idle", "next", "commit"}]
    /\ todo \in [Cleaners -> SUBSET Files] /\ seen \in [Cleaners -> SUBSET Files]
    /\ cur \in [Cleaners -> Files \cup {None}]
    /\ \A c \in Cleaners : cpc[c] = "commit" => cur[c] \in Files

(* Nobody but a cleanup takes a file from a batch, and it does so when the *)
(* batch has been settled for long.                                        *)
SourceInv ==
    /\ wpc # "idle" => status = "processing"
    /\ retired => status \in Settled
    /\ \A c \in Cleaners : cpc[c] # "idle" => retired
    /\ \A f \in Files \ path : retired
    /\ "early" \notin env =>
          \A d \in Deleters : dpc[d] \in Midway /\ target[d] \in Files => target[d] \notin path
    /\ "early" \notin env => SourcePreserved

(* A row gives up a file when the file is gone.                            *)
OwnerInv ==
    /\ \A c \in Cleaners : cpc[c] = "commit" => cur[c] \notin disk
    /\ \A f \in Files \ path : f \notin disk
    /\ \A f \in est \ estPath : f \notin disk
    /\ env = {} => \A f \in disk :
          f \in path \cup est \/ \E d \in Deleters : target[d] = f /\ dpc[d] \in {"stat", "remove"}

(* An upload is deleted once, and by the deletion that releases it.        *)
DeletionInv ==
    /\ \A u \in Uploads \cap est : u \in estPath /\ u \in disk
    /\ \A d \in Deleters : target[d] \in Uploads =>
          /\ dpc[d] \in Midway => target[d] \notin est
          /\ dpc[d] = "stat" => target[d] \in disk
          /\ dpc[d] = "remove" => sized[d]
    /\ \A c, d \in Deleters :
          dpc[c] \in Midway /\ dpc[d] \in Midway /\ target[c] = target[d]
            /\ target[c] \in Uploads => c = d
    /\ "early" \notin env =>
          \A d \in Deleters : (dpc[d] = "remove" /\ sized[d]) \/ dpc[d] = "release" =>
              target[d] \in Uploads

(* What the account is still charged for: the files of the batch, the      *)
(* uploads, and those whose deletion has not released them yet.            *)
Pending == {u \in Uploads : \E d \in Deleters : target[d] = u /\ dpc[d] \in Midway}
Charged == path \cup (est \cap Uploads) \cup Pending

ChargeInv ==
    /\ "early" \notin env => Cardinality(Charged) <= storage
    /\ env = {} => Cardinality(Charged) = storage

-----------------------------------------------------------------------------
(* The steps, by who takes them                                            *)

(* The worker, a deletion; each leaves the state of the others alone.       *)
WorkerStep ==
    \/ pgClaimNextAnalysisBatch \/ pgLoadAnalysisBatchFiles \/ FindEstimate
    \/ pgSaveEstimate \/ LinkFile \/ pgCompleteAnalysisBatch \/ pgFailAnalysisBatch
    \/ WorkerCrashes \/ \E f \in Files : TakeFile(f)

DeleterStep(d) ==
    \/ \E f \in Documents : pgDeleteEstimate(d, f)
    \/ StatFile(d) \/ RemoveFile(d) \/ ReleaseStorage(d) \/ DeleteStops(d)

LEMMA StepCases ==
    ASSUME [Next]_vars
    PROVE  \/ WorkerStep
           \/ RetentionPasses
           \/ \E d \in Deleters : DeleterStep(d)
           \/ \E c \in Cleaners : CleanerStep(c) \/ CleanupAborts(c)
           \/ UNCHANGED vars
BY Zenon DEF Next, WorkerStep, DeleterStep

LEMMA WorkerFrame ==
    ASSUME WorkerStep \/ RetentionPasses
    PROVE  UNCHANGED <<env, path, disk, storage, deleterVars, cleanerVars>>
BY DEF WorkerStep, pgClaimNextAnalysisBatch, pgLoadAnalysisBatchFiles, FindEstimate, pgSaveEstimate,
       LinkFile, pgCompleteAnalysisBatch, pgFailAnalysisBatch, WorkerCrashes, TakeFile, RetentionPasses,
       rowVars, batchVars

LEMMA DeleterFrame ==
    ASSUME NEW d \in Deleters, DeleterStep(d)
    PROVE  UNCHANGED <<env, batchVars, path, workerVars, cleanerVars>>
BY DEF DeleterStep, pgDeleteEstimate, StatFile, RemoveFile, ReleaseStorage, DeleteStops, rowVars

LEMMA CleanerFrame ==
    ASSUME NEW c \in Cleaners, CleanerStep(c) \/ CleanupAborts(c)
    PROVE  UNCHANGED <<env, batchVars, link, est, workerVars, deleterVars>>
BY DEF CleanerStep, CleanupAborts, CleanupEnds, CleanerStops, SelectExpired, RemoveExpired, CommitPurge,
       rowVars

-----------------------------------------------------------------------------
(* Types                                                                   *)

LEMMA LessType ==
    ASSUME NEW n \in Nat
    PROVE  Less(n) \in Nat
BY DEF Less

(* Every variable keeps its type, and a deletion or a cleanup that is at   *)
(* work knows the file it works on.                                        *)
THEOREM StorageTypes == Spec => []TypeInv
<1> USE StorageAssumption DEF Documents, Settled, Midway
<1>1. Init => TypeInv
  <2> SUFFICES ASSUME Init PROVE TypeInv
    OBVIOUS
  <2>1. storage \in Nat
    BY FS_CardinalityType DEF Init
  <2>2. sized \in [Deleters -> BOOLEAN] /\ retired \in BOOLEAN
    BY DEF Init
  <2> QED BY <2>1, <2>2 DEF Init, TypeInv
<1>2. TypeInv /\ [Next]_vars => TypeInv'
  <2> SUFFICES ASSUME TypeInv, [Next]_vars PROVE TypeInv'
    OBVIOUS
  <2>1. CASE WorkerStep
    <3>1. UNCHANGED <<env, path, disk, storage, deleterVars, cleanerVars>>
      BY <2>1, WorkerFrame
    <3>2. retired' \in BOOLEAN
      BY <2>1 DEF TypeInv, WorkerStep, pgClaimNextAnalysisBatch, pgLoadAnalysisBatchFiles, FindEstimate,
           pgSaveEstimate, LinkFile, pgCompleteAnalysisBatch, pgFailAnalysisBatch, WorkerCrashes, TakeFile,
           batchVars
    <3>3. /\ status' \in {"pending", "processing"} \cup Settled /\ attempts' \in Nat
          /\ wpc' \in {"idle", "load", "next", "ensure", "save", "done"}
          /\ left' \subseteq Files /\ snap' \subseteq Files /\ at' \in Files \cup {None}
          /\ wpc' \in {"ensure", "save", "done"} => at' \in Files
          /\ link' \subseteq Files /\ est' \subseteq Documents /\ estPath' \subseteq est'
      BY <2>1 DEF TypeInv, WorkerStep, pgClaimNextAnalysisBatch, pgLoadAnalysisBatchFiles, FindEstimate,
           pgSaveEstimate, LinkFile, pgCompleteAnalysisBatch, pgFailAnalysisBatch, WorkerCrashes, TakeFile,
           LinkTo, WorkerStops, batchVars, rowVars, workerVars, Claimable
    <3> QED BY <3>1, <3>2, <3>3 DEF TypeInv, deleterVars, cleanerVars
  <2>2. CASE RetentionPasses
    <3>1. retired' \in BOOLEAN
      BY <2>2 DEF RetentionPasses
    <3> QED BY <2>2, <3>1 DEF TypeInv, RetentionPasses, rowVars, workerVars, deleterVars, cleanerVars
  <2>3. ASSUME NEW d \in Deleters, DeleterStep(d) PROVE TypeInv'
    <3>1. UNCHANGED <<env, batchVars, path, workerVars, cleanerVars>>
      BY <2>3, DeleterFrame
    <3>2. sized' \in [Deleters -> BOOLEAN]
      <4>1. sized \in [Deleters -> BOOLEAN] /\ Sized(target[d]) \in BOOLEAN
        BY DEF TypeInv, Sized
      <4>2. UNCHANGED sized \/ sized' = [sized EXCEPT ![d] = Sized(target[d])]
        BY <2>3 DEF DeleterStep, pgDeleteEstimate, StatFile, RemoveFile, ReleaseStorage, DeleteStops
      <4> QED BY <4>1, <4>2, Zenon
    <3>3. /\ link' \subseteq Files /\ est' \subseteq Documents /\ estPath' \subseteq est'
          /\ disk' \subseteq Documents
      BY <2>3 DEF TypeInv, DeleterStep, pgDeleteEstimate, StatFile, RemoveFile, ReleaseStorage, DeleteStops,
           rowVars
    <3>4. storage' \in Nat
      BY <2>3, LessType DEF TypeInv, DeleterStep, pgDeleteEstimate, StatFile, RemoveFile, ReleaseStorage,
           DeleteStops
    <3>5. /\ dpc' \in [Deleters -> Midway \cup {"idle", "end"}]
          /\ target' \in [Deleters -> Documents \cup {None}]
          /\ \A e \in Deleters : dpc'[e] \in Midway => target'[e] \in Documents
      BY <2>3 DEF TypeInv, DeleterStep, pgDeleteEstimate, StatFile, RemoveFile, ReleaseStorage,
           DeleteStops
    <3> QED BY <3>1, <3>2, <3>3, <3>4, <3>5 DEF TypeInv, batchVars, workerVars, cleanerVars
  <2>4. ASSUME NEW c \in Cleaners, CleanerStep(c) \/ CleanupAborts(c) PROVE TypeInv'
    <3>1. UNCHANGED <<env, batchVars, link, est, workerVars, deleterVars>>
      BY <2>4, CleanerFrame
    <3>2. path' \subseteq Files /\ estPath' \subseteq est' /\ disk' \subseteq Documents /\ storage' \in Nat
      BY <2>4, LessType DEF TypeInv, CleanerStep, CleanupAborts, CleanupEnds, CleanerStops, SelectExpired,
           RemoveExpired, CommitPurge, rowVars
    <3>3. /\ cpc' \in [Cleaners -> {"idle", "next", "commit"}]
          /\ cur' \in [Cleaners -> Files \cup {None}]
          /\ \A e \in Cleaners : cpc'[e] = "commit" => cur'[e] \in Files
      BY <2>4 DEF TypeInv, CleanerStep, CleanupAborts, CleanupEnds, CleanerStops, SelectExpired,
           RemoveExpired, CommitPurge
    <3>4. todo' \in [Cleaners -> SUBSET Files] /\ seen' \in [Cleaners -> SUBSET Files]
      BY <2>4 DEF TypeInv, CleanerStep, CleanupAborts, CleanupEnds, CleanerStops, SelectExpired,
           RemoveExpired, CommitPurge, Expired
    <3> QED BY <3>1, <3>2, <3>3, <3>4 DEF TypeInv, batchVars, workerVars, deleterVars
  <2>5. CASE UNCHANGED vars
    BY <2>5 DEF TypeInv, vars, batchVars, rowVars, workerVars, deleterVars, cleanerVars
  <2> QED BY <2>1, <2>2, <2>3, <2>4, <2>5, StepCases
<1> QED BY <1>1, <1>2, PTL DEF Spec

-----------------------------------------------------------------------------
(* Who may remove a file                                                   *)

FilesInv == SourceInv /\ OwnerInv /\ DeletionInv

LEMMA FilesInit == StorageAssumption /\ Init => FilesInv
BY DEF StorageAssumption, Init, FilesInv, SourceInv, SourcePreserved, OwnerInv, DeletionInv, Documents,
       Settled, Midway

(* The worker is at a batch that is not settled: it stores rows for files  *)
(* of the batch and touches no file.                                       *)
LEMMA WorkerKeepsFiles ==
    ASSUME StorageAssumption, TypeInv, FilesInv, WorkerStep
    PROVE  FilesInv'
<1>1. UNCHANGED <<env, path, disk, storage, deleterVars, cleanerVars>>
  BY WorkerFrame
<1>2. /\ retired' = retired
      /\ wpc' # "idle" => status' = "processing"
      /\ ~retired
  BY DEF FilesInv, SourceInv, WorkerStep, pgClaimNextAnalysisBatch, pgLoadAnalysisBatchFiles, FindEstimate,
         pgSaveEstimate, LinkFile, pgCompleteAnalysisBatch, pgFailAnalysisBatch, WorkerCrashes, TakeFile,
         WorkerStops, batchVars, workerVars, Claimable, Settled
<1>3. \E g \in SUBSET Files : est' = est \cup g /\ estPath' = estPath \cup g
  <2>1. CASE pgSaveEstimate
    BY <2>1 DEF pgSaveEstimate, TypeInv
  <2>2. CASE ~pgSaveEstimate
    <3>1. est' = est \cup {} /\ estPath' = estPath \cup {}
      BY <2>2 DEF WorkerStep, pgClaimNextAnalysisBatch, pgLoadAnalysisBatchFiles, FindEstimate,
             LinkFile, pgCompleteAnalysisBatch, pgFailAnalysisBatch, WorkerCrashes, TakeFile, rowVars
    <3> QED BY <3>1
  <2> QED BY <2>1, <2>2
<1>4. SourceInv'
  BY <1>1, <1>2 DEF FilesInv, SourceInv, SourcePreserved, deleterVars, cleanerVars
<1>5. OwnerInv'
  BY <1>1, <1>3 DEF FilesInv, OwnerInv, deleterVars, cleanerVars
<1>6. DeletionInv'
  BY <1>1, <1>3 DEF FilesInv, DeletionInv, deleterVars, StorageAssumption
<1> QED BY <1>4, <1>5, <1>6 DEF FilesInv

(* A deletion gets the file of an estimate that no file of the batch is    *)
(* linked to any more.                                                     *)
LEMMA DeleterKeepsFiles ==
    ASSUME StorageAssumption, TypeInv, FilesInv, NEW d \in Deleters, DeleterStep(d)
    PROVE  FilesInv'
<1>1. UNCHANGED <<env, batchVars, path, workerVars, cleanerVars>>
  BY DeleterFrame
<1>2. CASE \E f \in Documents : pgDeleteEstimate(d, f)
  <2> PICK f \in Documents : pgDeleteEstimate(d, f)
    BY <1>2
  <2>0. /\ dpc \in [Deleters -> Midway \cup {"idle", "end"}]
        /\ target \in [Deleters -> Documents \cup {None}]
        /\ path \subseteq Files /\ link \subseteq Files /\ estPath \subseteq est
    BY DEF TypeInv
  <2>1. /\ dpc[d] = "idle" /\ f \in est
        /\ f \in Uploads \cup link \/ f \notin path \/ "early" \in env
        /\ est' = est \ {f} /\ estPath' = estPath \ {f}
        /\ target' = [target EXCEPT ![d] = f]
        /\ dpc' = [dpc EXCEPT ![d] = IF f \in estPath /\ ~SharedWithBatch(f) THEN "stat" ELSE "end"]
        /\ UNCHANGED <<disk, sized>>
    BY DEF pgDeleteEstimate
  <2>2. dpc'[d] = "stat" => f \in estPath /\ (f \in link => f \notin path)
    BY <2>0, <2>1 DEF SharedWithBatch
  <2>3. dpc'[d] # "stat" => dpc'[d] = "end" /\ (f \notin estPath \/ f \in path)
    BY <2>0, <2>1 DEF SharedWithBatch
  <2>4. \A e \in Deleters \ {d} : dpc'[e] = dpc[e] /\ target'[e] = target[e]
    BY <2>0, <2>1
  <2>5. target'[d] = f
    BY <2>0, <2>1
  <2>6. SourceInv'
    <3>1. "early" \notin env => \A e \in Deleters :
             dpc'[e] \in Midway /\ target'[e] \in Files => target'[e] \notin path
      BY <2>0, <2>1, <2>2, <2>3, <2>4, <2>5 DEF FilesInv, SourceInv, Midway, StorageAssumption
    <3> QED BY <1>1, <2>1, <3>1 DEF FilesInv, SourceInv, SourcePreserved, cleanerVars, workerVars, batchVars
  <2>7. OwnerInv'
    <3>1. \A g \in est' \ estPath' : g \notin disk
      BY <2>1 DEF FilesInv, OwnerInv
    <3>2. ASSUME env = {}, NEW g \in disk
          PROVE  g \in path \cup est' \/ \E e \in Deleters : target'[e] = g /\ dpc'[e] \in {"stat", "remove"}
      <4>1. CASE g = f
        BY <2>1, <2>3, <2>5, <3>2, <4>1 DEF FilesInv, OwnerInv
      <4>2. CASE g # f
        BY <2>1, <2>4, <3>2, <4>2 DEF FilesInv, OwnerInv
      <4> QED BY <4>1, <4>2
    <3> QED BY <1>1, <2>1, <3>1, <3>2 DEF FilesInv, OwnerInv, cleanerVars
  <2>8. DeletionInv'
    <3>1. \A u \in Uploads \cap est' : u \in estPath' /\ u \in disk
      BY <2>1 DEF FilesInv, DeletionInv
    <3>2. ASSUME NEW e \in Deleters, target'[e] \in Uploads
          PROVE  /\ dpc'[e] \in Midway => target'[e] \notin est'
                 /\ dpc'[e] = "stat" => target'[e] \in disk
                 /\ dpc'[e] = "remove" => sized[e]
      <4>1. CASE e = d
        BY <2>1, <2>2, <2>3, <2>5, <3>2, <4>1 DEF FilesInv, DeletionInv, Midway
      <4>2. CASE e # d
        BY <2>1, <2>4, <3>2, <4>2 DEF FilesInv, DeletionInv
      <4> QED BY <4>1, <4>2
    <3>3. \A e, c \in Deleters :
            dpc'[e] \in Midway /\ dpc'[c] \in Midway /\ target'[e] = target'[c]
              /\ target'[e] \in Uploads => e = c
      BY <2>1, <2>4, <2>5 DEF FilesInv, DeletionInv
    <3>4. "early" \notin env => \A e \in Deleters :
            (dpc'[e] = "remove" /\ sized[e]) \/ dpc'[e] = "release" => target'[e] \in Uploads
      BY <2>2, <2>3, <2>4 DEF FilesInv, DeletionInv
    <3> QED BY <1>1, <2>1, <3>1, <3>2, <3>3, <3>4 DEF DeletionInv
  <2> QED BY <2>6, <2>7, <2>8 DEF FilesInv
<1>3. CASE StatFile(d) \/ RemoveFile(d) \/ ReleaseStorage(d) \/ DeleteStops(d)
  <2>0. /\ dpc \in [Deleters -> Midway \cup {"idle", "end"}]
        /\ target \in [Deleters -> Documents \cup {None}]
        /\ sized \in [Deleters -> BOOLEAN]
        /\ dpc[d] \in Midway => target[d] \in Documents
    BY DEF TypeInv
  <2>1. /\ UNCHANGED <<est, estPath, target>>
        /\ dpc[d] \in Midway
        /\ \A e \in Deleters \ {d} : dpc'[e] = dpc[e] /\ sized'[e] = sized[e]
        /\ \/ /\ dpc[d] = "stat" /\ dpc'[d] = "remove" /\ (sized'[d] <=> target[d] \in disk)
              /\ UNCHANGED disk
           \/ /\ dpc[d] = "remove" /\ dpc'[d] = IF sized[d] THEN "release" ELSE "end"
              /\ disk' = disk \ {target[d]}
           \/ dpc'[d] = "end" /\ UNCHANGED disk /\ (dpc[d] = "release" \/ env # {})
    BY <1>3, <2>0 DEF StatFile, RemoveFile, ReleaseStorage, DeleteStops, rowVars, Midway, Sized
  <2>2. SourceInv'
    <3>1. "early" \notin env => \A e \in Deleters :
             dpc'[e] \in Midway /\ target'[e] \in Files => target'[e] \notin path
      BY <2>1 DEF FilesInv, SourceInv, Midway
    <3>2. \A f \in Files : f \notin disk' /\ f \in disk /\ "early" \notin env => f \notin path
      BY <2>1 DEF FilesInv, SourceInv
    <3>3. "early" \notin env => SourcePreserved'
      BY <1>1, <3>2 DEF FilesInv, SourceInv, SourcePreserved, batchVars
    <3> QED BY <1>1, <2>1, <3>1, <3>3 DEF FilesInv, SourceInv, cleanerVars, workerVars, batchVars
  <2>3. OwnerInv'
    <3>1. env = {} => \A g \in disk' :
          g \in path \cup est \/ \E e \in Deleters : target[e] = g /\ dpc'[e] \in {"stat", "remove"}
      BY <2>1 DEF FilesInv, OwnerInv, Midway
    <3>2. disk' \subseteq disk
      BY <2>1
    <3> QED BY <1>1, <2>1, <3>1, <3>2 DEF FilesInv, OwnerInv, cleanerVars
  <2>4. DeletionInv'
    <3>1. \A u \in Uploads \cap est : u \in estPath /\ u \in disk'
      BY <2>1 DEF FilesInv, DeletionInv, Midway
    <3>2. ASSUME NEW e \in Deleters, target[e] \in Uploads
          PROVE  /\ dpc'[e] \in Midway => target[e] \notin est
                 /\ dpc'[e] = "stat" => target[e] \in disk'
                 /\ dpc'[e] = "remove" => sized'[e]
      BY <2>1, <3>2 DEF FilesInv, DeletionInv, Midway
    <3>3. \A e, c \in Deleters :
            dpc'[e] \in Midway /\ dpc'[c] \in Midway /\ target[e] = target[c]
              /\ target[e] \in Uploads => e = c
      BY <2>1 DEF FilesInv, DeletionInv, Midway
    <3>4. ASSUME "early" \notin env, NEW e \in Deleters, (dpc'[e] = "remove" /\ sized'[e]) \/ dpc'[e] = "release"
          PROVE  target[e] \in Uploads
      <4>1. target[e] \in Files /\ dpc[e] \in Midway => target[e] \notin disk
        BY <3>4 DEF FilesInv, SourceInv, OwnerInv
      <4> QED BY <2>0, <2>1, <3>4, <4>1 DEF FilesInv, DeletionInv, Documents
    <3> QED BY <1>1, <2>1, <3>1, <3>2, <3>3, <3>4 DEF DeletionInv
  <2> QED BY <2>2, <2>3, <2>4 DEF FilesInv
<1> QED BY <1>2, <1>3 DEF DeleterStep

(* A cleanup gives up a row when the file is gone, and removes files of    *)
(* the batch only.                                                         *)
LEMMA CleanerKeepsFiles ==
    ASSUME StorageAssumption, TypeInv, FilesInv, NEW c \in Cleaners, CleanerStep(c) \/ CleanupAborts(c)
    PROVE  FilesInv'
<1>1. UNCHANGED <<env, batchVars, link, est, workerVars, deleterVars>>
  BY CleanerFrame
<1>2. cpc \in [Cleaners -> {"idle", "next", "commit"}] /\ cur \in [Cleaners -> Files \cup {None}]
  BY DEF TypeInv
<1>3. /\ retired
      /\ \A e \in Cleaners \ {c} : cpc'[e] = cpc[e] /\ cur'[e] = cur[e]
      /\ \/ /\ cpc'[c] # "commit"
            /\ UNCHANGED <<path, estPath, disk>>
         \/ /\ cpc'[c] = "commit" /\ cur'[c] \in Files
            /\ disk' = disk \ {cur'[c]}
            /\ UNCHANGED <<path, estPath>>
         \/ /\ cpc[c] = "commit" /\ cpc'[c] # "commit"
            /\ UNCHANGED disk
            /\ path' = path \ {cur[c]}
            /\ estPath' \in {estPath, estPath \ {cur[c]}}
  <2>1. cpc[c] # "idle" => retired
    BY DEF FilesInv, SourceInv
  <2>2. CASE SelectExpired(c)
    BY <1>2, <2>2 DEF SelectExpired, Expired, rowVars
  <2>3. CASE CleanupEnds(c) \/ CleanupAborts(c)
    BY <1>2, <2>1, <2>3 DEF CleanupEnds, CleanupAborts, CleanerStops, rowVars
  <2>4. CASE \E f \in Files : RemoveExpired(c, f)
    BY <1>2, <2>1, <2>4 DEF RemoveExpired, rowVars
  <2>5. CASE CommitPurge(c)
    <3>1. path \subseteq Files
      BY DEF TypeInv
    <3> QED BY <1>2, <2>1, <2>5, <3>1 DEF CommitPurge, StillOwned
  <2> QED BY <2>2, <2>3, <2>4, <2>5 DEF CleanerStep
<1>4. retired /\ status \in Settled
  BY <1>3 DEF FilesInv, SourceInv
<1>5. SourceInv'
  BY <1>1, <1>3, <1>4 DEF FilesInv, SourceInv, SourcePreserved, batchVars, workerVars, deleterVars
<1>6. OwnerInv'
  <2>1. disk' \subseteq disk
    BY <1>3
  <2>2. \A e \in Cleaners : cpc'[e] = "commit" => cur'[e] \notin disk'
    BY <1>3, <2>1 DEF FilesInv, OwnerInv
  <2>3. \A f \in Files \ path' : f \notin disk'
    BY <1>3, <2>1 DEF FilesInv, OwnerInv
  <2>4. \A f \in est \ estPath' : f \notin disk'
    BY <1>3, <2>1 DEF FilesInv, OwnerInv
  <2>5. env = {} => \A f \in disk' :
          f \in path' \cup est \/ \E d \in Deleters : target[d] = f /\ dpc[d] \in {"stat", "remove"}
    BY <1>3, <2>1 DEF FilesInv, OwnerInv
  <2> QED BY <1>1, <2>2, <2>3, <2>4, <2>5 DEF OwnerInv, deleterVars
<1>7. DeletionInv'
  <2>1. \A u \in Uploads : u \in disk => u \in disk'
    BY <1>3 DEF StorageAssumption
  <2>2. \A u \in Uploads : u \in estPath => u \in estPath'
    <3>1. cpc[c] = "commit" => cur[c] \in Files
      BY DEF TypeInv
    <3> QED BY <1>3, <3>1 DEF StorageAssumption
  <2> QED BY <1>1, <2>1, <2>2 DEF FilesInv, DeletionInv, deleterVars
<1> QED BY <1>5, <1>6, <1>7 DEF FilesInv

LEMMA FilesStep == StorageAssumption /\ TypeInv /\ FilesInv /\ [Next]_vars => FilesInv'
<1> SUFFICES ASSUME StorageAssumption, TypeInv, FilesInv, [Next]_vars PROVE FilesInv'
  OBVIOUS
<1>1. CASE RetentionPasses
  <2>1. UNCHANGED <<env, status, rowVars, disk, workerVars, deleterVars, cleanerVars>>
        /\ retired' = TRUE /\ status \in Settled
    BY <1>1 DEF RetentionPasses
  <2> QED BY <2>1 DEF FilesInv, SourceInv, OwnerInv, DeletionInv, SourcePreserved, rowVars, workerVars,
               deleterVars, cleanerVars
<1>2. CASE UNCHANGED vars
  BY <1>2 DEF FilesInv, SourceInv, OwnerInv, DeletionInv, SourcePreserved, vars, batchVars, rowVars,
       workerVars, deleterVars, cleanerVars
<1> QED BY <1>1, <1>2, StepCases, WorkerKeepsFiles, DeleterKeepsFiles, CleanerKeepsFiles

LEMMA FilesAlways == Spec => []FilesInv
<1>1. Init => FilesInv
  BY StorageAssumption, FilesInit
<1>2. TypeInv /\ FilesInv /\ [Next]_vars => FilesInv'
  BY StorageAssumption, FilesStep
<1> QED BY <1>1, <1>2, StorageTypes, PTL DEF Spec

(* Files are on disk for as long as their rows say and no longer: deleting *)
(* an estimate that is linked to a batch file preserves the file, only the *)
(* cleanup of a settled batch removes it, and nothing is left over unless  *)
(* a removal failed or a process died.                                     *)
THEOREM FilesHaveOwners == Spec => []FilesFollowRows
<1>1. FilesInv => FilesFollowRows
  BY DEF FilesInv, SourceInv, OwnerInv, FilesFollowRows
<1> QED BY <1>1, FilesAlways, PTL

-----------------------------------------------------------------------------
(* What the account is charged                                             *)

LEMMA ChargedFinite ==
    ASSUME StorageAssumption, TypeInv
    PROVE  /\ Charged \subseteq Documents
           /\ IsFiniteSet(Charged)
           /\ Cardinality(Charged) \in Nat
<1>1. Charged \subseteq Documents
  BY DEF TypeInv, Charged, Pending, Documents
<1>2. IsFiniteSet(Charged)
  BY <1>1, FS_Subset DEF StorageAssumption
<1> QED BY <1>1, <1>2, FS_CardinalityType

(* A step keeps what is charged for, or takes one file from it and from    *)
(* storage_bytes, or forgets to do the latter: that needs a fault.         *)
Kept     == Charged' = Charged /\ storage' = storage
Released == \E f \in Charged : Charged' = Charged \ {f} /\ storage' = Less(storage)
Lost     == env # {} /\ Charged' \subseteq Charged /\ storage' = storage

LEMMA ChargeKeeps ==
    ASSUME StorageAssumption, TypeInv, ChargeInv, env' = env, "early" \notin env, Kept \/ Released \/ Lost
    PROVE  ChargeInv'
<1>1. IsFiniteSet(Charged) /\ Cardinality(Charged) \in Nat
  BY ChargedFinite
<1>2. storage \in Nat
  BY DEF TypeInv
<1>3. CASE Kept
  BY <1>3 DEF Kept, ChargeInv
<1>4. CASE Released
  <2> PICK f \in Charged : Charged' = Charged \ {f} /\ storage' = Less(storage)
    BY <1>4 DEF Released
  <2>1. Cardinality(Charged \ {f}) = Cardinality(Charged) - 1
    BY <1>1, FS_RemoveElement
  <2>2. Cardinality(Charged \ {f}) \in Nat
    BY <1>1, FS_RemoveElement, FS_CardinalityType
  <2>3. Cardinality(Charged') = Cardinality(Charged \ {f})
    OBVIOUS
  <2> QED BY <1>1, <1>2, <2>1, <2>2, <2>3 DEF ChargeInv, Less
<1>5. CASE Lost
  <2>1. Cardinality(Charged') <= Cardinality(Charged) /\ Cardinality(Charged') \in Nat
    BY <1>1, <1>5, FS_Subset, FS_CardinalityType DEF Lost
  <2> QED BY <1>1, <1>2, <1>5, <2>1 DEF ChargeInv, Lost
<1> QED BY <1>3, <1>4, <1>5

LEMMA DeleterCharges ==
    ASSUME StorageAssumption, TypeInv, FilesInv, "early" \notin env,
           NEW d \in Deleters, DeleterStep(d)
    PROVE  Kept \/ Released \/ Lost
<1>0. /\ dpc \in [Deleters -> Midway \cup {"idle", "end"}]
      /\ target \in [Deleters -> Documents \cup {None}]
      /\ sized \in [Deleters -> BOOLEAN]
      /\ dpc[d] \in Midway => target[d] \in Documents
      /\ path \subseteq Files /\ link \subseteq Files
  BY DEF TypeInv
<1>1. path' = path
  BY DeleterFrame
<1>2. CASE \E f \in Documents : pgDeleteEstimate(d, f)
  <2> PICK f \in Documents : pgDeleteEstimate(d, f)
    BY <1>2
  <2>1. /\ dpc[d] = "idle" /\ f \in est /\ est' = est \ {f} /\ storage' = storage
        /\ target' = [target EXCEPT ![d] = f]
        /\ dpc' = [dpc EXCEPT ![d] = IF f \in estPath /\ ~SharedWithBatch(f) THEN "stat" ELSE "end"]
    BY DEF pgDeleteEstimate
  <2>2. \A e \in Deleters \ {d} : dpc'[e] = dpc[e] /\ target'[e] = target[e]
    BY <1>0, <2>1
  <2>3. CASE f \in Uploads
    <3>1. f \in estPath /\ ~SharedWithBatch(f)
      BY <1>0, <2>1, <2>3 DEF FilesInv, DeletionInv, SharedWithBatch, StorageAssumption
    <3>2. dpc'[d] = "stat" /\ target'[d] = f
      BY <1>0, <2>1, <3>1
    <3>3. Pending' = Pending \cup {f}
      BY <2>1, <2>2, <2>3, <3>2 DEF Pending, Midway
    <3>4. Charged' = Charged
      BY <1>1, <2>1, <2>3, <3>3 DEF Charged
    <3> QED BY <2>1, <3>4 DEF Kept
  <2>4. CASE f \notin Uploads
    <3>1. Pending' = Pending
      BY <1>0, <2>1, <2>2, <2>4 DEF Pending, Midway
    <3> QED BY <1>1, <2>1, <2>4, <3>1 DEF Kept, Charged
  <2> QED BY <2>3, <2>4
<1>3. CASE StatFile(d) \/ RemoveFile(d) \/ ReleaseStorage(d) \/ DeleteStops(d)
  <2>1. /\ est' = est /\ target' = target
        /\ dpc[d] \in Midway /\ dpc'[d] \in Midway \cup {"end"}
        /\ \A e \in Deleters \ {d} : dpc'[e] = dpc[e]
        /\ dpc'[d] = "end" =>
              \/ dpc[d] = "remove" /\ ~sized[d] /\ storage' = storage
              \/ dpc[d] = "release" /\ storage' = Less(storage)
              \/ env # {} /\ storage' = storage
        /\ dpc'[d] # "end" => storage' = storage
    BY <1>0, <1>3 DEF StatFile, RemoveFile, ReleaseStorage, DeleteStops, rowVars, Midway
  <2>2. CASE dpc'[d] # "end"
    <3>1. Pending' = Pending
      BY <2>1, <2>2 DEF Pending
    <3> QED BY <1>1, <2>1, <2>2, <3>1 DEF Kept, Charged
  <2>3. CASE dpc'[d] = "end"
    <3>1. target[d] \in Uploads => Pending' = Pending \ {target[d]}
      BY <2>1, <2>3 DEF Pending, FilesInv, DeletionInv, Midway
    <3>2. target[d] \notin Uploads => Pending' = Pending
      BY <2>1, <2>3 DEF Pending
    <3>3. target[d] \in Uploads => target[d] \notin path /\ target[d] \notin est /\ target[d] \in Pending
      BY <1>0, <2>1 DEF FilesInv, DeletionInv, StorageAssumption, Pending
    <3>4. target[d] \in Uploads => Charged' = Charged \ {target[d]} /\ target[d] \in Charged
      BY <1>1, <2>1, <3>1, <3>3 DEF Charged
    <3>5. target[d] \notin Uploads => Charged' = Charged
      BY <1>1, <2>1, <3>2 DEF Charged
    <3>6. CASE dpc[d] = "release" /\ storage' = Less(storage)
      <4>1. target[d] \in Uploads
        BY <3>6 DEF FilesInv, DeletionInv
      <4> QED BY <3>4, <3>6, <4>1 DEF Released
    <3>7. CASE dpc[d] = "remove" /\ ~sized[d] /\ storage' = storage
      <4>1. target[d] \notin Uploads
        BY <3>7 DEF FilesInv, DeletionInv
      <4> QED BY <3>5, <3>7, <4>1 DEF Kept
    <3>8. CASE env # {} /\ storage' = storage
      BY <3>4, <3>5, <3>8 DEF Lost
    <3> QED BY <2>1, <2>3, <3>6, <3>7, <3>8
  <2> QED BY <2>2, <2>3
<1> QED BY <1>2, <1>3 DEF DeleterStep

LEMMA ChargeStep == StorageAssumption /\ TypeInv /\ FilesInv /\ ChargeInv /\ [Next]_vars => ChargeInv'
<1> SUFFICES ASSUME StorageAssumption, TypeInv, FilesInv, ChargeInv, [Next]_vars PROVE ChargeInv'
  OBVIOUS
<1>1. env' = env
  BY StepCases, WorkerFrame, DeleterFrame, CleanerFrame DEF vars
<1>2. CASE "early" \in env
  BY <1>1, <1>2 DEF ChargeInv
<1>3. CASE "early" \notin env
  <2>1. CASE WorkerStep \/ RetentionPasses
    <3>1. UNCHANGED <<path, storage, deleterVars>>
      BY <2>1, WorkerFrame
    <3>2. est' \cap Uploads = est \cap Uploads
      <4>1. CASE est' = est
        BY <4>1
      <4>2. CASE pgSaveEstimate
        <5>1. est' = est \cup {at}
          BY <4>2 DEF pgSaveEstimate
        <5>2. at \notin Uploads
          BY DEF TypeInv, StorageAssumption, Documents
        <5> QED BY <5>1, <5>2
      <4>3. est' = est \/ pgSaveEstimate
        BY <2>1 DEF WorkerStep, pgClaimNextAnalysisBatch, pgLoadAnalysisBatchFiles, FindEstimate,
               LinkFile, pgCompleteAnalysisBatch, pgFailAnalysisBatch,
               WorkerCrashes, TakeFile, RetentionPasses, rowVars
      <4> QED BY <4>1, <4>2, <4>3
    <3>3. Kept
      BY <3>1, <3>2 DEF Kept, Charged, Pending, deleterVars
    <3> QED BY <1>1, <1>3, <3>3, ChargeKeeps
  <2>2. ASSUME NEW d \in Deleters, DeleterStep(d) PROVE ChargeInv'
    BY <1>1, <1>3, <2>2, DeleterCharges, ChargeKeeps
  <2>3. ASSUME NEW c \in Cleaners, CleanerStep(c) \/ CleanupAborts(c) PROVE ChargeInv'
    <3>1. UNCHANGED <<est, deleterVars>>
      BY <2>3, CleanerFrame
    <3>2. Pending' = Pending
      BY <3>1 DEF Pending, deleterVars
    <3>3. \/ UNCHANGED <<path, storage>>
          \/ \E f \in Files \cap path : path' = path \ {f} /\ storage' = Less(storage)
      BY <2>3 DEF TypeInv, CleanerStep, CleanupAborts, CleanupEnds, CleanerStops, SelectExpired,
             RemoveExpired, CommitPurge, StillOwned, rowVars
    <3>4. CASE UNCHANGED <<path, storage>>
      <4>1. Kept
        BY <3>1, <3>2, <3>4 DEF Kept, Charged
      <4> QED BY <1>1, <1>3, <4>1, ChargeKeeps
    <3>5. CASE \E f \in Files \cap path : path' = path \ {f} /\ storage' = Less(storage)
      <4> PICK f \in Files \cap path : path' = path \ {f} /\ storage' = Less(storage)
        BY <3>5
      <4>1. f \in Charged /\ Charged' = Charged \ {f}
        BY <3>1, <3>2 DEF Charged, Pending, StorageAssumption
      <4>2. Released
        BY <4>1 DEF Released
      <4> QED BY <1>1, <1>3, <4>2, ChargeKeeps
    <3> QED BY <3>3, <3>4, <3>5
  <2>4. CASE UNCHANGED vars
    BY <2>4 DEF ChargeInv, Charged, Pending, vars, rowVars, deleterVars
  <2> QED BY <2>1, <2>2, <2>3, <2>4, StepCases
<1> QED BY <1>2, <1>3

(* storage_bytes never counts less than what is retained, whatever fails,  *)
(* and exactly that when nothing has failed and no deletion is midway: no  *)
(* two of the cleanups and deletions release the same file.                *)
THEOREM RetainedCharged == Spec => []RetainedIsCharged
<1>1. Init => ChargeInv
  <2> SUFFICES ASSUME Init PROVE ChargeInv
    OBVIOUS
  <2>1. Charged = Documents
    BY DEF Init, Charged, Pending, Documents, Midway
  <2>2. Cardinality(Documents) \in Nat
    BY StorageAssumption, FS_CardinalityType DEF StorageAssumption
  <2> QED BY <2>1, <2>2 DEF Init, ChargeInv
<1>2. TypeInv /\ FilesInv /\ ChargeInv /\ [Next]_vars => ChargeInv'
  BY StorageAssumption, ChargeStep
<1>3. TypeInv /\ ChargeInv => RetainedIsCharged
  <2> SUFFICES ASSUME TypeInv, ChargeInv PROVE RetainedIsCharged
    OBVIOUS
  <2> DEFINE owned == path \cup (est \cap Uploads)
  <2>1. IsFiniteSet(Charged) /\ Cardinality(Charged) \in Nat
    BY StorageAssumption, ChargedFinite
  <2>2. IsFiniteSet(path) /\ IsFiniteSet(est \cap Uploads) /\ owned \in SUBSET Charged
    <3>1. path \in SUBSET Charged /\ est \cap Uploads \in SUBSET Charged
      BY DEF Charged
    <3> QED BY <2>1, <3>1, FS_Subset
  <2>3. path \cap (est \cap Uploads) = {}
    BY StorageAssumption DEF StorageAssumption, TypeInv
  <2>4. Cardinality(owned) = Cardinality(path) + Cardinality(est \cap Uploads)
    <3>1. Cardinality(owned) = Cardinality(path) + Cardinality(est \cap Uploads)
                                  - Cardinality(path \cap (est \cap Uploads))
      BY <2>2, FS_Union
    <3>2. Cardinality(path \cap (est \cap Uploads)) = 0
      BY <2>3, FS_EmptySet
    <3>3. Cardinality(path) \in Nat /\ Cardinality(est \cap Uploads) \in Nat
      BY <2>2, FS_CardinalityType
    <3> QED BY <3>1, <3>2, <3>3
  <2>5. Cardinality(owned) <= Cardinality(Charged) /\ Cardinality(owned) \in Nat
    <3>1. IsFiniteSet(owned)
      BY <2>1, <2>2, FS_Subset
    <3> QED BY <2>1, <2>2, <3>1, FS_Subset, FS_CardinalityType
  <2>6. (\A d \in Deleters : dpc[d] \in {"idle", "end"}) => Charged = owned
    BY DEF Charged, Pending, Midway
  <2>7. storage \in Nat
    BY DEF TypeInv
  <2> HIDE DEF owned
  <2> QED BY <2>1, <2>4, <2>5, <2>6, <2>7 DEF RetainedIsCharged, ChargeInv
<1> QED BY <1>1, <1>2, <1>3, StorageTypes, FilesAlways, PTL DEF Spec

=============================================================================
