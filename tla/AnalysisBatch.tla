--------------------------- MODULE AnalysisBatch ---------------------------
(***************************************************************************)
(* The analysis-batch queue of the background worker: any number of worker *)
(* processes poll one PostgreSQL table, claim a batch with a lease, take   *)
(* the batch's advisory lock, turn every file into an estimate, ask the AI *)
(* provider about each of them and store one report.                       *)
(*                                                                         *)
(* One action is one database statement (or transaction) of a worker, so   *)
(* two workers interleave wherever the database lets them.  Time is the    *)
(* one bit that the code compares: whether a lease (locked_at) is younger  *)
(* than ten minutes.                                                       *)
(***************************************************************************)
EXTENDS Integers, FiniteSets

CONSTANTS Workers,         (* worker processes                                *)
          Batches,         (* ids of the batches users may submit             *)
          FileCount,       (* files of a batch                                *)
          MaxAttempts,     (* AI_BATCH_MAX_ATTEMPTS                           *)
          LockKeys,        (* values of hashtext(id)                          *)
          hashtext,        (* batch id -> key of its advisory lock            *)
          FaultScenarios,  (* sets of faults a behaviour may suffer           *)
          None             (* no worker, no batch                             *)

(* "crash": a worker process dies.  "slow": a lease grows ten minutes old  *)
(* while its claimant is alive.  "drop": the connection that holds an      *)
(* advisory lock is lost.  "ack": a commit succeeds and its answer is lost.*)
Faults == {"crash", "slow", "drop", "ack"}

ASSUME BatchAssumption ==
    /\ FileCount \in Nat \ {0}
    /\ MaxAttempts \in Nat \ {0}
    /\ hashtext \in [Batches -> LockKeys]
    /\ FaultScenarios \subseteq SUBSET Faults
    /\ None \notin Workers
    /\ None \notin Batches

Files == 1..FileCount

VARIABLES
    env,         \* the faults of this behaviour, fixed at the start
    (* analysis_batches *)
    status,      \* status, "none" before the row exists
    attempts,    \* attempts
    fresh,       \* locked_at is younger than ten minutes
    count,       \* completed_count
    report,      \* report: "none", "ai", or "rules" when a file fell back
    (* analysis_batch_files and the estimates made of them *)
    fileStatus,  \* status of each file
    linked,      \* files whose estimate_id is set
    saved,       \* files whose (stable) estimate row exists
    deleted,     \* history: files whose estimate the owner deleted and no
                 \* attempt has made and linked again
    (* PostgreSQL session state *)
    lock,        \* holder of each advisory lock
    (* worker processes *)
    pc, job,     \* where the worker is, and with which batch
    at,          \* the file it is at
    snap,        \* files it read as linked when it loaded the batch
    quality      \* quality of the report it is building

batchVars  == <<status, attempts, fresh, count, report>>
fileVars   == <<fileStatus, linked, saved, deleted>>
workerVars == <<pc, job, at, snap, quality>>
vars == <<env, batchVars, fileVars, lock, workerVars>>

(* Where a worker can be.  It owns the lock in Locked, and it may still    *)
(* change the batch in Active.                                             *)
Processing == {"load", "mark", "ensure", "done", "touch", "ai", "complete"}
Locked     == Processing \cup {"fail", "release"}
Active     == Processing \cup {"claimed", "fail"}
PCs        == {"idle", "claimed"} \cup Locked
Settled    == {"completed", "failed"}

TypeOK ==
    /\ env \in FaultScenarios
    /\ status \in [Batches -> {"none", "pending", "processing"} \cup Settled]
    /\ attempts \in [Batches -> 0..MaxAttempts]
    /\ fresh \in [Batches -> BOOLEAN]
    /\ count \in [Batches -> 0..FileCount]
    /\ report \in [Batches -> {"none", "ai", "rules"}]
    /\ fileStatus \in [Batches -> [Files -> {"pending", "processing"} \cup Settled]]
    /\ linked \in [Batches -> SUBSET Files]
    /\ saved \in [Batches -> SUBSET Files]
    /\ deleted \in [Batches -> SUBSET Files]
    /\ lock \in [LockKeys -> Workers \cup {None}]
    /\ pc \in [Workers -> PCs]
    /\ job \in [Workers -> Batches \cup {None}]
    /\ at \in [Workers -> Files]
    /\ snap \in [Workers -> SUBSET Files]
    /\ quality \in [Workers -> {"ai", "rules"}]
    /\ \A w \in Workers : pc[w] # "idle" => job[w] \in Batches

Init ==
    /\ env \in FaultScenarios
    /\ status = [b \in Batches |-> "none"]
    /\ attempts = [b \in Batches |-> 0]
    /\ fresh = [b \in Batches |-> FALSE]
    /\ count = [b \in Batches |-> 0]
    /\ report = [b \in Batches |-> "none"]
    /\ fileStatus = [b \in Batches |-> [f \in Files |-> "pending"]]
    /\ linked = [b \in Batches |-> {}]
    /\ saved = [b \in Batches |-> {}]
    /\ deleted = [b \in Batches |-> {}]
    /\ lock = [k \in LockKeys |-> None]
    /\ pc = [w \in Workers |-> "idle"]
    /\ job = [w \in Workers |-> None]
    /\ at = [w \in Workers |-> 1]
    /\ snap = [w \in Workers |-> {}]
    /\ quality = [w \in Workers |-> "ai"]

-----------------------------------------------------------------------------
(* Broken variants of the definitions below, for mutation runs only.       *)

(* The claim without its status, and the one without stale leases.         *)
ClaimableByLease(b) ==
    status[b] # "none" /\ ~fresh[b] /\ attempts[b] < MaxAttempts
ClaimablePending(b) == status[b] = "pending" /\ attempts[b] < MaxAttempts

(* The lock that everyone gets, and the lock that is never given back.     *)
LockAlwaysFree(k) == TRUE
UnlockForgotten(w) == UNCHANGED lock

(* The load that does not read estimate_id, and the loop one file short.   *)
LinksNotLoaded(b) == {}
LastFileButOne(w) == at[w] >= FileCount - 1

(* The attempt bound compared with > and a failure that always retries.    *)
StatusAfterFailureLate(b) ==
    IF attempts[b] > MaxAttempts THEN "failed" ELSE "pending"
StatusAfterFailureRetry(b) == "pending"

-----------------------------------------------------------------------------
(* Database statements                                                     *)

(* One transaction inserts the batch, its files and the audit entry.       *)
pgCreateAnalysisBatch(b) ==
    /\ status[b] = "none"
    /\ status' = [status EXCEPT ![b] = "pending"]
    /\ UNCHANGED <<env, attempts, fresh, count, report, fileVars, lock, workerVars>>

(* The WHERE clause of the claim.                                          *)
Claimable(b) ==
    /\ \/ status[b] = "pending"
       \/ status[b] = "processing" /\ ~fresh[b]
    /\ attempts[b] < MaxAttempts

(* pg_try_advisory_lock answers true.                                      *)
LockFree(k) == lock[k] = None

(* The estimate links a worker has in hand after loading the files.        *)
LoadedLinks(b) == linked[b]

LastFile(w) == at[w] = FileCount

StatusAfterFailure(b) ==
    IF attempts[b] >= MaxAttempts THEN "failed" ELSE "pending"

(* The UPDATE of pgFailAnalysisBatch: it asks neither who owns the batch   *)
(* nor which status the batch has.                                         *)
FailUpdate(b) ==
    /\ status' = [status EXCEPT ![b] = StatusAfterFailure(b)]
    /\ fresh' = [fresh EXCEPT ![b] = FALSE]
    /\ UNCHANGED <<attempts, count, report>>

(* The UPDATE of pgUpdateBatchFile: the link is overwritten with what the  *)
(* caller has, NULL when it has none; the foreign key refuses a link to an *)
(* estimate that is gone.                                                  *)
FileUpdate(b, f, st, link) ==
    /\ link => f \in saved[b]
    /\ fileStatus' = [fileStatus EXCEPT ![b][f] = st]
    /\ linked' = [linked EXCEPT ![b] = IF link THEN @ \cup {f} ELSE @ \ {f}]
    /\ UNCHANGED saved

(* DELETE FROM estimates, by the owner: ON DELETE SET NULL takes the link  *)
(* out of the batch file, whatever the batch or its worker is doing.       *)
pgDeleteEstimate(b, f) ==
    /\ f \in saved[b]
    /\ saved' = [saved EXCEPT ![b] = @ \ {f}]
    /\ linked' = [linked EXCEPT ![b] = @ \ {f}]
    /\ deleted' = [deleted EXCEPT ![b] = @ \cup {f}]
    /\ UNCHANGED <<env, batchVars, fileStatus, lock, workerVars>>

(* UPDATE ... SET status='completed', report=..., locked_at=NULL.          *)
CompleteUpdate(b, result) ==
    /\ status' = [status EXCEPT ![b] = "completed"]
    /\ count' = [count EXCEPT ![b] = FileCount]
    /\ report' = [report EXCEPT ![b] = result]
    /\ fresh' = [fresh EXCEPT ![b] = FALSE]
    /\ attempts' = attempts

-----------------------------------------------------------------------------
(* A worker                                                                *)

Goto(w, label) == pc' = [pc EXCEPT ![w] = label]

BackToIdle(w) ==
    /\ Goto(w, "idle")
    /\ job' = [job EXCEPT ![w] = None]
    /\ at' = [at EXCEPT ![w] = 1]
    /\ snap' = [snap EXCEPT ![w] = {}]
    /\ quality' = [quality EXCEPT ![w] = "ai"]

(* What the worker's own connection holds of the lock, it gives up.        *)
Unlock(w) ==
    lock' = [k \in LockKeys |-> IF lock[k] = w THEN None ELSE lock[k]]

(* FOR UPDATE SKIP LOCKED takes the oldest claimable row that no other     *)
(* transaction has locked at this instant, so any claimable row may be it. *)
pgClaimNextAnalysisBatch(w) ==
    /\ pc[w] = "idle"
    /\ \E b \in Batches :
        /\ Claimable(b)
        /\ status' = [status EXCEPT ![b] = "processing"]
        /\ attempts' = [attempts EXCEPT ![b] = @ + 1]
        /\ fresh' = [fresh EXCEPT ![b] = TRUE]
        /\ job' = [job EXCEPT ![w] = b]
        /\ Goto(w, "claimed")
        /\ UNCHANGED <<env, count, report, fileVars, lock, at, snap, quality>>

(* The claim has committed, and reading the batch back fails.              *)
ClaimReadFails(w) ==
    /\ pc[w] = "claimed"
    /\ BackToIdle(w)
    /\ UNCHANGED <<env, batchVars, fileVars, lock>>

LockAcquired(w) ==
    LET k == hashtext[job[w]] IN
    /\ pc[w] = "claimed"
    /\ LockFree(k)
    /\ lock' = [lock EXCEPT ![k] = w]
    /\ Goto(w, "load")
    /\ UNCHANGED <<env, batchVars, fileVars, job, at, snap, quality>>

(* It answers false: the worker moves on and leaves the claim as it is.    *)
LockBusy(w) ==
    /\ pc[w] = "claimed"
    /\ ~LockFree(hashtext[job[w]])
    /\ BackToIdle(w)
    /\ UNCHANGED <<env, batchVars, fileVars, lock>>

(* Taking the lock fails with an error: the attempt is failed, if the      *)
(* database can be reached for that.                                       *)
LockError(w) ==
    /\ pc[w] = "claimed"
    /\ FailUpdate(job[w]) \/ UNCHANGED batchVars
    /\ BackToIdle(w)
    /\ UNCHANGED <<env, fileVars, lock>>

pgLoadAnalysisBatchFiles(w) ==
    /\ pc[w] = "load"
    /\ snap' = [snap EXCEPT ![w] = LoadedLinks(job[w])]
    /\ Goto(w, "mark")
    /\ UNCHANGED <<env, batchVars, fileVars, lock, job, at, quality>>

MarkProcessing(w) ==
    /\ pc[w] = "mark"
    /\ FileUpdate(job[w], at[w], "processing", at[w] \in snap[w])
    /\ UNCHANGED deleted
    /\ Goto(w, "ensure")
    /\ UNCHANGED <<env, batchVars, lock, job, at, snap, quality>>

(* The estimate of an earlier attempt is found by its stable id, or the    *)
(* file is analysed and its estimate saved.                                *)
ensureBatchEstimate(w) ==
    /\ pc[w] = "ensure"
    /\ saved' = [saved EXCEPT ![job[w]] = @ \cup {at[w]}]
    /\ Goto(w, "done")
    /\ UNCHANGED <<env, batchVars, fileStatus, linked, deleted, lock, job, at, snap,
                   quality>>

(* It fails: the file is marked failed (an error of that is ignored).      *)
EnsureFails(w) ==
    /\ pc[w] = "ensure"
    /\ \/ FileUpdate(job[w], at[w], "failed", at[w] \in snap[w]) /\ UNCHANGED deleted
       \/ UNCHANGED fileVars
    /\ Goto(w, "fail")
    /\ UNCHANGED <<env, batchVars, lock, job, at, snap, quality>>

MarkCompleted(w) ==
    /\ pc[w] = "done"
    /\ FileUpdate(job[w], at[w], "completed", TRUE)
    /\ deleted' = [deleted EXCEPT ![job[w]] = @ \ {at[w]}]
    /\ Goto(w, "touch")
    /\ UNCHANGED <<env, batchVars, lock, job, at, snap, quality>>

(* The estimate that MarkProcessing or MarkCompleted would link was        *)
(* deleted meanwhile: the statement fails, and the attempt with it.        *)
LinkRefused(w) ==
    /\ \/ pc[w] = "mark" /\ at[w] \in snap[w]
       \/ pc[w] = "done"
    /\ at[w] \notin saved[job[w]]
    /\ Goto(w, "fail")
    /\ UNCHANGED <<env, batchVars, fileVars, lock, job, at, snap, quality>>

(* completed_count and locked_at are written whatever the status is.  The  *)
(* loop then takes the next file, or the AI analysis starts over at file 1.*)
pgTouchAnalysisBatch(w) ==
    /\ pc[w] = "touch"
    /\ count' = [count EXCEPT ![job[w]] = at[w]]
    /\ fresh' = [fresh EXCEPT ![job[w]] = TRUE]
    /\ IF LastFile(w)
         THEN at' = [at EXCEPT ![w] = 1] /\ Goto(w, "ai")
         ELSE at' = [at EXCEPT ![w] = @ + 1] /\ Goto(w, "mark")
    /\ UNCHANGED <<env, status, attempts, report, fileVars, lock, job, snap, quality>>

(* One input of analyzeBatchResilient: the provider's answer is used, or   *)
(* the rules stand in for it.                                              *)
InputDone(w, answered) ==
    /\ quality' = [quality EXCEPT ![w] = IF answered THEN @ ELSE "rules"]
    /\ IF LastFile(w)
         THEN at' = at /\ Goto(w, "complete")
         ELSE at' = [at EXCEPT ![w] = @ + 1] /\ pc' = pc
    /\ UNCHANGED <<env, batchVars, fileVars, lock, job, snap>>

AnalyzeInput(w) ==
    /\ pc[w] = "ai"
    /\ \E answered \in BOOLEAN : InputDone(w, answered)

(* The heartbeat that runs beside the provider call renews the lease ...   *)
pgHeartbeatAnalysisBatch(w) ==
    /\ pc[w] = "ai"
    /\ status[job[w]] = "processing"
    /\ fresh' = [fresh EXCEPT ![job[w]] = TRUE]
    /\ UNCHANGED <<env, status, attempts, count, report, fileVars, lock, workerVars>>

(* ... or finds the batch in another status, cancels the call, and the     *)
(* input falls back to the rules.                                          *)
HeartbeatLost(w) ==
    /\ pc[w] = "ai"
    /\ status[job[w]] # "processing"
    /\ InputDone(w, FALSE)

pgCompleteAnalysisBatch(w) ==
    /\ pc[w] = "complete"
    /\ CompleteUpdate(job[w], quality[w])
    /\ Goto(w, "release")
    /\ UNCHANGED <<env, fileVars, lock, job, at, snap, quality>>

(* The report is committed but the worker is told that it is not.          *)
CompleteAckLost(w) ==
    /\ "ack" \in env
    /\ pc[w] = "complete"
    /\ CompleteUpdate(job[w], quality[w])
    /\ Goto(w, "fail")
    /\ UNCHANGED <<env, fileVars, lock, job, at, snap, quality>>

(* A statement fails, the batch timeout expires or the process is asked to *)
(* stop: processClaimedAnalysisBatch returns an error.                     *)
ProcessingFails(w) ==
    /\ pc[w] \in Processing
    /\ Goto(w, "fail")
    /\ UNCHANGED <<env, batchVars, fileVars, lock, job, at, snap, quality>>

(* The error is recorded, or recording it fails too and is ignored.        *)
pgFailAnalysisBatch(w) ==
    /\ pc[w] = "fail"
    /\ FailUpdate(job[w]) \/ UNCHANGED batchVars
    /\ Goto(w, "release")
    /\ UNCHANGED <<env, fileVars, lock, job, at, snap, quality>>

(* The deferred release, after the batch was completed or failed.          *)
ReleaseLock(w) ==
    /\ pc[w] = "release"
    /\ Unlock(w)
    /\ BackToIdle(w)
    /\ UNCHANGED <<env, batchVars, fileVars>>

-----------------------------------------------------------------------------
(* The environment                                                         *)

(* Ten minutes pass since locked_at.  Unless workers may be slow, that     *)
(* needs a batch on which no worker is active.                             *)
LeaseExpires(b) ==
    /\ status[b] = "processing"
    /\ fresh[b]
    /\ "slow" \in env \/ \A w \in Workers : pc[w] \in Active => job[w] # b
    /\ fresh' = [fresh EXCEPT ![b] = FALSE]
    /\ UNCHANGED <<env, status, attempts, count, report, fileVars, lock, workerVars>>

(* The process dies and is restarted: PostgreSQL ends its session.         *)
Crash(w) ==
    /\ "crash" \in env
    /\ pc[w] # "idle"
    /\ Unlock(w)
    /\ BackToIdle(w)
    /\ UNCHANGED <<env, batchVars, fileVars>>

(* The connection that holds the lock is lost; the worker does not look.   *)
LockConnectionDrops(w) ==
    /\ "drop" \in env
    /\ pc[w] \in Locked
    /\ lock[hashtext[job[w]]] = w
    /\ Unlock(w)
    /\ UNCHANGED <<env, batchVars, fileVars, workerVars>>

-----------------------------------------------------------------------------

(* What the worker's program does next.                                    *)
Step(w) ==
    \/ LockAcquired(w) \/ LockBusy(w)
    \/ pgLoadAnalysisBatchFiles(w) \/ MarkProcessing(w) \/ ensureBatchEstimate(w)
    \/ MarkCompleted(w) \/ LinkRefused(w) \/ pgTouchAnalysisBatch(w)
    \/ AnalyzeInput(w) \/ HeartbeatLost(w)
    \/ pgCompleteAnalysisBatch(w) \/ pgFailAnalysisBatch(w) \/ ReleaseLock(w)

(* Errors of the database or the network that the program handles.         *)
Error(w) ==
    \/ ClaimReadFails(w) \/ LockError(w) \/ EnsureFails(w) \/ ProcessingFails(w)
    \/ CompleteAckLost(w)

Next ==
    \/ \E b \in Batches :
        \/ pgCreateAnalysisBatch(b) \/ LeaseExpires(b)
        \/ \E f \in Files : pgDeleteEstimate(b, f)
    \/ \E w \in Workers :
        \/ pgClaimNextAnalysisBatch(w) \/ Step(w) \/ Error(w)
        \/ pgHeartbeatAnalysisBatch(w) \/ Crash(w) \/ LockConnectionDrops(w)

Spec == Init /\ [][Next]_vars

(* A running worker polls and its program goes on: the provider call and   *)
(* every statement are bounded by AI_BATCH_TIMEOUT.  Time passes.  Nothing *)
(* makes users submit or delete, and nothing makes errors or faults happen.          *)
FairSpec ==
    /\ Spec
    /\ \A w \in Workers : WF_vars(pgClaimNextAnalysisBatch(w)) /\ WF_vars(Step(w))
    /\ \A b \in Batches : WF_vars(LeaseExpires(b))

-----------------------------------------------------------------------------
(* Safety                                                                  *)

(* ProcessNextAnalysisBatchSafe "prevents two workers from processing the  *)
(* same batch concurrently": as long as no lock connection is lost, however *)
(* slow the workers are and however often they crash.                      *)
MutualExclusion ==
    "drop" \notin env =>
        \A v, w \in Workers :
            pc[v] \in Locked /\ pc[w] \in Locked /\ job[v] = job[w] => v = w

(* The attempt counter and the status never disagree, whoever failed the   *)
(* attempt: a batch is given up only after its last attempt, and a batch   *)
(* in the queue still has one, so that the claim can pick it up.           *)
AttemptsDecideOutcome ==
    \A b \in Batches :
        /\ status[b] = "failed" => attempts[b] = MaxAttempts
        /\ status[b] = "pending" => attempts[b] < MaxAttempts

(* A stored report describes estimates that exist and that the batch's     *)
(* files still point to, also while a later attempt runs again: all but    *)
(* those the owner has deleted, before, while or after the report was      *)
(* made.  And as long as workers only crash, a batch that is completed has *)
(* been worked through: each file is completed, the counter shows all of   *)
(* them, and the report is there.                                          *)
ReportHasItsEstimates ==
    \A b \in Batches :
        /\ "drop" \notin env /\ report[b] # "none" =>
            /\ Files \ deleted[b] \subseteq linked[b]
            /\ linked[b] \subseteq saved[b]
        /\ env \subseteq {"crash"} /\ status[b] = "completed" =>
            /\ count[b] = FileCount /\ report[b] # "none"
            /\ \A f \in Files : fileStatus[b][f] = "completed"

(* pgUpdateBatchFile overwrites estimate_id with what a worker read when   *)
(* it loaded the batch: no retry unlinks the estimate of an earlier one.   *)
(* A link goes only with the estimate itself, when the owner deletes it.   *)
EstimateLinksKept ==
    [][ "drop" \notin env =>
          \A b \in Batches : linked[b] \cap saved'[b] \subseteq linked'[b] ]_vars

(* When workers crash but are not slower than their lease, a completed or  *)
(* failed batch keeps its status and its report for good: cleanup may      *)
(* delete its files and the owner may trust what it sees.                  *)
SettledIsFinal ==
    [][ env \subseteq {"crash"} =>
          \A b \in Batches : status[b] \in Settled =>
              status'[b] = status[b] /\ report'[b] = report[b] ]_vars

-----------------------------------------------------------------------------
(* Liveness                                                                *)

(* A batch that no worker has and no claim will ever pick up again.        *)
Stranded(b) ==
    /\ status[b] = "processing"
    /\ attempts[b] = MaxAttempts
    /\ \A w \in Workers : pc[w] \in Active => job[w] # b

(* Retries come to an end: every submitted batch is completed, failed, or  *)
(* has spent its last attempt on a worker that did not report back.        *)
EveryBatchSettlesOrStrands ==
    \A b \in Batches : status[b] = "pending" ~> status[b] \in Settled \/ Stranded(b)

(* No worker hangs with a batch: it comes back to poll, its lock released. *)
WorkersComeBack ==
    \A w \in Workers : pc[w] # "idle" ~> pc[w] = "idle" /\ \A k \in LockKeys : lock[k] # w

(* docs/backend-release-gates.md:11 "Worker status flow from queued to     *)
(* done": every submitted batch is eventually completed or failed.         *)
EveryBatchSettles ==
    \A b \in Batches : status[b] = "pending" ~> status[b] \in Settled

-----------------------------------------------------------------------------
(* Refinement                                                              *)

Runs(w, b) == pc[w] \in Processing \cup {"fail"} /\ job[w] = b

runnerOf ==
    [b \in Batches |-> IF \E w \in Workers : Runs(w, b)
                         THEN CHOOSE w \in Workers : Runs(w, b)
                         ELSE None]

Queue == INSTANCE BatchQueue
            WITH phase <- status, tries <- attempts, runner <- runnerOf, result <- report

(* Claim, lease, advisory lock and heartbeat together implement the        *)
(* abstract queue, when workers crash but are not slower than their lease. *)
QueueSpec == Queue!QueueSpec

=============================================================================
