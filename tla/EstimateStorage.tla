--------------------------- MODULE EstimateStorage ---------------------------
(***************************************************************************)
(* Who owns a stored file.  A batch file is on disk, in a row of           *)
(* analysis_batch_files and, once analysed, in the row of its estimate; a  *)
(* directly uploaded file belongs to its estimate alone.  The worker makes *)
(* the estimates (attempt after attempt), users delete estimates, and the  *)
(* cleanup of every worker process removes the files of settled batches.   *)
(* All three end in os.Remove and in account_storage_usage.                *)
(*                                                                         *)
(* One batch and one account; a file counts one unit of storage_bytes.     *)
(* That one worker at a time processes the batch is what AnalysisBatch     *)
(* shows (MutualExclusion, SettledIsFinal).                                *)
(***************************************************************************)
EXTENDS Integers, FiniteSets

CONSTANTS Files,           (* files of the batch                              *)
          Uploads,         (* directly uploaded files                         *)
          Deleters,        (* DELETE /v1/estimates/{id} requests              *)
          Cleaners,        (* worker processes, in their cleanup tick         *)
          MaxAttempts,     (* AI_BATCH_MAX_ATTEMPTS                           *)
          FaultScenarios,  (* sets of faults a behaviour may suffer           *)
          None             (* no file                                         *)

Documents == Files \cup Uploads

(* "crash": a process dies.  "io": removing a file or releasing its        *)
(* storage fails.  "early": a user deletes an estimate of the batch that   *)
(* is saved and not yet linked to its file.                                *)
Faults == {"crash", "io", "early"}

ASSUME StorageAssumption ==
    /\ IsFiniteSet(Documents)
    /\ Files \cap Uploads = {}
    /\ None \notin Documents
    /\ MaxAttempts \in Nat \ {0}
    /\ FaultScenarios \subseteq SUBSET Faults

VARIABLES
    env,        \* the faults of this behaviour, fixed at the start
    (* analysis_batches and analysis_batch_files *)
    status, attempts,
    retired,    \* completed_at is older than BATCH_FILE_RETENTION_DAYS
    path,       \* batch files whose file_path is set
    link,       \* batch files whose estimate_id is set
    (* estimates, keyed by the file they were made of *)
    est,        \* rows that exist
    estPath,    \* rows whose file_path is set
    (* the upload directory and account_storage_usage *)
    disk, storage,
    (* the worker at the batch *)
    wpc, left, at, snap,
    (* the deletions *)
    dpc, target, sized,
    (* the cleanups *)
    cpc, todo, cur, seen

batchVars   == <<status, attempts, retired>>
rowVars     == <<path, link, est, estPath>>
workerVars  == <<wpc, left, at, snap>>
deleterVars == <<dpc, target, sized>>
cleanerVars == <<cpc, todo, cur, seen>>
vars == <<env, batchVars, rowVars, disk, storage, workerVars, deleterVars, cleanerVars>>

Settled == {"completed", "failed"}

(* The batch has been created and the direct uploads are saved: every file *)
(* is stored and charged.                                                  *)
Init ==
    /\ env \in FaultScenarios
    /\ status = "pending" /\ attempts = 0 /\ retired = FALSE
    /\ path = Files /\ link = {}
    /\ est = Uploads /\ estPath = Uploads
    /\ disk = Documents
    /\ storage = Cardinality(Documents)
    /\ wpc = "idle" /\ left = {} /\ at = None /\ snap = {}
    /\ dpc = [d \in Deleters |-> "idle"]
    /\ target = [d \in Deleters |-> None]
    /\ sized = [d \in Deleters |-> FALSE]
    /\ cpc = [c \in Cleaners |-> "idle"]
    /\ todo = [c \in Cleaners |-> {}]
    /\ cur = [c \in Cleaners |-> None]
    /\ seen = [c \in Cleaners |-> {}]

-----------------------------------------------------------------------------
(* Broken variants of the definitions below, for mutation runs only.       *)

(* The deletion that takes every file for its own.                         *)
SharedNever(f)  == FALSE

(* The cleanup whose UPDATE has no AND file_path=$2, and the one whose      *)
(* query wants the estimate of the file.                                   *)
StillOwnedAlways(f) == TRUE
ExpiredLinked == IF status \in Settled /\ retired THEN path \cap link ELSE {}

-----------------------------------------------------------------------------
(* The worker: one attempt after the other, of which AnalysisBatch has the *)
(* claim, the lock and the report                                          *)

WorkerStops ==
    /\ wpc' = "idle" /\ left' = {} /\ at' = None /\ snap' = {}

Claimable == status \in {"pending", "processing"} /\ attempts < MaxAttempts

pgClaimNextAnalysisBatch ==
    /\ wpc = "idle"
    /\ Claimable
    /\ status' = "processing"
    /\ attempts' = attempts + 1
    /\ wpc' = "load"
    /\ UNCHANGED <<env, retired, rowVars, disk, storage, left, at, snap, deleterVars, cleanerVars>>

pgLoadAnalysisBatchFiles ==
    /\ wpc = "load"
    /\ snap' = link /\ left' = Files
    /\ wpc' = "next"
    /\ UNCHANGED <<env, batchVars, rowVars, disk, storage, at, deleterVars, cleanerVars>>

(* The status update of pgUpdateBatchFile also writes estimate_id, and the *)
(* foreign key refuses the id of an estimate that is gone.                 *)
LinkTo(f, linked) ==
    /\ linked => f \in est
    /\ link' = IF linked THEN link \cup {f} ELSE link \ {f}

TakeFile(f) ==
    /\ wpc = "next"
    /\ f \in left
    /\ at' = f /\ left' = left \ {f}
    /\ LinkTo(f, f \in snap)
    /\ wpc' = "ensure"
    /\ UNCHANGED <<env, batchVars, path, est, estPath, disk, storage, snap, deleterVars, cleanerVars>>

(* The estimate of an earlier attempt is taken as it is; otherwise the     *)
(* file is analysed.                                                       *)
FindEstimate ==
    /\ wpc = "ensure"
    /\ wpc' = IF at \in est THEN "done" ELSE "save"
    /\ UNCHANGED <<env, batchVars, rowVars, disk, storage, left, at, snap, deleterVars, cleanerVars>>

pgSaveEstimate ==
    /\ wpc = "save"
    /\ est' = est \cup {at}
    /\ estPath' = estPath \cup {at}
    /\ wpc' = "done"
    /\ UNCHANGED <<env, batchVars, path, link, disk, storage, left, at, snap, deleterVars, cleanerVars>>

LinkFile ==
    /\ wpc = "done"
    /\ LinkTo(at, TRUE)
    /\ wpc' = "next" /\ at' = None
    /\ UNCHANGED <<env, batchVars, path, est, estPath, disk, storage, left, snap, deleterVars, cleanerVars>>

pgCompleteAnalysisBatch ==
    /\ wpc = "next"
    /\ left = {}
    /\ status' = "completed"
    /\ WorkerStops
    /\ UNCHANGED <<env, attempts, retired, rowVars, disk, storage, deleterVars, cleanerVars>>

(* Any statement may fail, and those above do where the foreign key says   *)
(* no.                                                                     *)
pgFailAnalysisBatch ==
    /\ wpc # "idle"
    /\ status' = IF attempts >= MaxAttempts THEN "failed" ELSE "pending"
    /\ WorkerStops
    /\ UNCHANGED <<env, attempts, retired, rowVars, disk, storage, deleterVars, cleanerVars>>

WorkerCrashes ==
    /\ "crash" \in env
    /\ wpc # "idle"
    /\ WorkerStops
    /\ UNCHANGED <<env, batchVars, rowVars, disk, storage, deleterVars, cleanerVars>>

-----------------------------------------------------------------------------
(* A deletion                                                              *)

(* The EXISTS of pgDeleteEstimate: a batch file links to this estimate and *)
(* has the same, non-empty path.                                           *)
SharedWithBatch(f) == f \in link \cap path \cap estPath

(* The estimate's row is deleted, ON DELETE SET NULL clears the link, and  *)
(* the caller gets the path unless it is empty or shared.                  *)
pgDeleteEstimate(d, f) ==
    /\ dpc[d] = "idle"
    /\ f \in est
    /\ f \in Uploads \cup link \/ f \notin path \/ "early" \in env
    /\ est' = est \ {f} /\ estPath' = estPath \ {f} /\ link' = link \ {f}
    /\ target' = [target EXCEPT ![d] = f]
    /\ dpc' = [dpc EXCEPT ![d] = IF f \in estPath /\ ~SharedWithBatch(f) THEN "stat" ELSE "end"]
    /\ UNCHANGED <<env, batchVars, path, disk, storage, workerVars, sized, cleanerVars>>

(* os.Lstat finds the file, whose size is what will be released.           *)
Sized(f) == f \in disk

StatFile(d) ==
    /\ dpc[d] = "stat"
    /\ sized' = [sized EXCEPT ![d] = Sized(target[d])]
    /\ dpc' = [dpc EXCEPT ![d] = "remove"]
    /\ UNCHANGED <<env, batchVars, rowVars, disk, storage, workerVars, target, cleanerVars>>

RemoveFile(d) ==
    /\ dpc[d] = "remove"
    /\ disk' = disk \ {target[d]}
    /\ dpc' = [dpc EXCEPT ![d] = IF sized[d] THEN "release" ELSE "end"]
    /\ UNCHANGED <<env, batchVars, rowVars, storage, workerVars, target, sized, cleanerVars>>

(* GREATEST(storage_bytes - 1, 0)                                          *)
Less(n) == IF n > 0 THEN n - 1 ELSE 0

ReleaseStorage(d) ==
    /\ dpc[d] = "release"
    /\ storage' = Less(storage)
    /\ dpc' = [dpc EXCEPT ![d] = "end"]
    /\ UNCHANGED <<env, batchVars, rowVars, disk, workerVars, target, sized, cleanerVars>>

(* Removing or releasing fails and is logged, or the process dies.         *)
DeleteStops(d) ==
    /\ \/ "io" \in env /\ dpc[d] \in {"remove", "release"}
       \/ "crash" \in env /\ dpc[d] \in {"stat", "remove", "release"}
    /\ dpc' = [dpc EXCEPT ![d] = "end"]
    /\ UNCHANGED <<env, batchVars, rowVars, disk, storage, workerVars, target, sized, cleanerVars>>

-----------------------------------------------------------------------------
(* A cleanup                                                               *)

(* BATCH_FILE_RETENTION_DAYS pass after the batch has settled.             *)
RetentionPasses ==
    /\ status \in Settled
    /\ ~retired
    /\ retired' = TRUE
    /\ UNCHANGED <<env, status, attempts, rowVars, disk, storage, workerVars, deleterVars, cleanerVars>>

(* The rows the query of CleanupExpiredBatchFiles selects.                 *)
Expired == IF status \in Settled /\ retired THEN path ELSE {}

SelectExpired(c) ==
    /\ cpc[c] = "idle"
    /\ Expired # {}
    /\ todo' = [todo EXCEPT ![c] = Expired]
    /\ seen' = [seen EXCEPT ![c] = link]
    /\ cpc' = [cpc EXCEPT ![c] = "next"]
    /\ UNCHANGED <<env, batchVars, rowVars, disk, storage, workerVars, deleterVars, cur>>

(* removeStoredBatchFile is content with a file that is gone already.      *)
RemoveExpired(c, f) ==
    /\ cpc[c] = "next"
    /\ f \in todo[c]
    /\ disk' = disk \ {f}
    /\ cur' = [cur EXCEPT ![c] = f]
    /\ todo' = [todo EXCEPT ![c] = @ \ {f}]
    /\ cpc' = [cpc EXCEPT ![c] = "commit"]
    /\ UNCHANGED <<env, batchVars, rowVars, storage, workerVars, deleterVars, seen>>

(* RowsAffected() == 1 of the UPDATE that clears file_path: this cleanup   *)
(* is the first to do so.                                                  *)
StillOwned(f) == f \in path

CommitPurge(c) ==
    LET f == cur[c] IN
    /\ cpc[c] = "commit"
    /\ IF StillOwned(f)
         THEN /\ path' = path \ {f}
              /\ estPath' = IF f \in seen[c] THEN estPath \ {f} ELSE estPath
              /\ storage' = Less(storage)
         ELSE UNCHANGED <<path, estPath, storage>>
    /\ cur' = [cur EXCEPT ![c] = None]
    /\ cpc' = [cpc EXCEPT ![c] = "next"]
    /\ UNCHANGED <<env, batchVars, link, est, disk, workerVars, deleterVars, todo, seen>>

CleanerStops(c) ==
    /\ cpc' = [cpc EXCEPT ![c] = "idle"]
    /\ todo' = [todo EXCEPT ![c] = {}]
    /\ cur' = [cur EXCEPT ![c] = None]
    /\ seen' = [seen EXCEPT ![c] = {}]
    /\ UNCHANGED <<env, batchVars, rowVars, disk, storage, workerVars, deleterVars>>

CleanupEnds(c) == cpc[c] = "next" /\ todo[c] = {} /\ CleanerStops(c)

(* A removal or a statement fails, the two minutes are over, or the        *)
(* process dies.                                                           *)
CleanupAborts(c) == env \cap {"io", "crash"} # {} /\ cpc[c] # "idle" /\ CleanerStops(c)

-----------------------------------------------------------------------------

CleanerStep(c) ==
    \/ SelectExpired(c) \/ CommitPurge(c) \/ CleanupEnds(c)
    \/ \E f \in Files : RemoveExpired(c, f)

Next ==
    \/ pgClaimNextAnalysisBatch \/ pgLoadAnalysisBatchFiles \/ FindEstimate
    \/ pgSaveEstimate \/ LinkFile \/ pgCompleteAnalysisBatch \/ pgFailAnalysisBatch
    \/ WorkerCrashes \/ RetentionPasses
    \/ \E f \in Files : TakeFile(f)
    \/ \E d \in Deleters :
        \/ \E f \in Documents : pgDeleteEstimate(d, f)
        \/ StatFile(d) \/ RemoveFile(d) \/ ReleaseStorage(d) \/ DeleteStops(d)
    \/ \E c \in Cleaners : CleanerStep(c) \/ CleanupAborts(c)

Spec == Init /\ [][Next]_vars

(* Time passes, and every worker process cleans up every six hours.        *)
FairSpec ==
    /\ Spec
    /\ WF_vars(RetentionPasses)
    /\ \A c \in Cleaners : WF_vars(CleanerStep(c))

-----------------------------------------------------------------------------
(* Safety                                                                  *)

(* docs/DATA_RETENTION.md:31: a batch file is removed by the cleanup of a  *)
(* settled batch alone; deleting its estimate preserves it.                *)
SourcePreserved ==
    \A f \in Files : f \notin disk => status \in Settled /\ retired

(* Files are on disk for as long as their rows say, and no longer:         *)
(* docs/DATA_RETENTION.md:31, the source of a batch survives the deletion  *)
(* of an estimate that was linked to its file; and no deletion or cleanup  *)
(* leaves a file that nobody owns and nobody will remove, unless a removal *)
(* failed or a process died on the way.                                    *)
FilesFollowRows ==
    /\ "early" \notin env => SourcePreserved
    /\ env = {} =>
         \A f \in disk :
            \/ f \in path \cup est
            \/ \E d \in Deleters : target[d] = f /\ dpc[d] \in {"stat", "remove"}

(* docs/USAGE_QUOTAS.md:21: storage_bytes counts what is retained.  As     *)
(* long as processes die and removals fail it may count too much, never    *)
(* too little: two cleanups, or a cleanup and a deletion, do not release   *)
(* the same file twice.  Without faults it is exact whenever no deletion   *)
(* is in the middle.                                                       *)
RetainedIsCharged ==
    LET retained == Cardinality(path) + Cardinality(est \cap Uploads)
    IN  /\ "early" \notin env => retained <= storage
        /\ env = {} /\ (\A d \in Deleters : dpc[d] \in {"idle", "end"}) => storage = retained

(* The files of a settled batch are removed in the end, although several   *)
(* cleanups and deletions work on them at once.                            *)
FilesArePurged ==
    env = {} /\ status \in Settled ~> path = {} /\ Files \cap disk = {}

=============================================================================
