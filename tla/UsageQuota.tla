----------------------------- MODULE UsageQuota -----------------------------
(***************************************************************************)
(* Usage accounting of one account: concurrent requests of the API reserve *)
(* quota, store a file, insert a row, and roll the reservation back when   *)
(* one of that fails; deletions and the worker's cleanup release storage.  *)
(*                                                                         *)
(* A reservation is one transaction under the account's advisory lock: it  *)
(* reads the counters FOR UPDATE, compares, adds and commits.  Those are   *)
(* separate actions here, as is every later step of a request, and the     *)
(* month may turn between any two of them.                                 *)
(***************************************************************************)
EXTENDS Integers, FiniteSetsExt

CONSTANTS Requests,        (* requests of the account                         *)
          Limits,          (* resource -> QUOTA_... limit                     *)
          Sizes,           (* sizes in bytes of an uploaded file              *)
          BatchFiles,      (* files of a batch upload                         *)
          MaxMonth,        (* months that are told apart                      *)
          MaxAttempts,     (* AI_BATCH_MAX_ATTEMPTS                           *)
          MaxChunks,       (* chunks of AI_ROWS_PER_CHUNK rows in a file      *)
          HttpAttempts,    (* AI_HTTP_MAX_ATTEMPTS                            *)
          FaultScenarios,  (* sets of faults a behaviour may suffer           *)
          None             (* no request                                      *)

Months    == 1..MaxMonth
Monthly   == {"files", "bytes", "ai", "batches"}
Resources == Monthly \cup {"storage"}
Kinds     == {"upload", "batch", "summary"}

(* "month": the month turns.  "crash": the API process dies.  "db": a      *)
(* refund fails.  "ack": a commit succeeds and its answer is lost.         *)
Faults == {"month", "crash", "db", "ack"}

ASSUME QuotaAssumption ==
    /\ Limits \in [Resources -> Nat]
    /\ Sizes \subseteq Nat \ {0}
    /\ BatchFiles \in Nat \ {0}
    /\ MaxMonth \in Nat \ {0}
    /\ MaxAttempts \in Nat \ {0}
    /\ MaxChunks \in Nat \ {0}
    /\ HttpAttempts \in Nat \ {0}
    /\ FaultScenarios \subseteq SUBSET Faults
    /\ IsFiniteSet(Requests)
    /\ None \notin Requests

VARIABLES
    env,         \* the faults of this behaviour, fixed at the start
    month,       \* the current UTC month
    (* account_usage_monthly, account_storage_usage and their locks *)
    used,        \* month -> monthly resource -> counter
    storage,     \* storage_bytes
    usageLock,   \* transaction that holds the advisory lock "usage|user"
    rowLock,     \* transaction that has read the rows FOR UPDATE
    (* requests *)
    pc,          \* where the request is, and later what became of its work
    tx,          \* progress of its current transaction
    period,      \* the month its transaction charges
    kind,        \* what it asks for
    usage,       \* the UsageDelta its deferred rollback would return
    (* what requests leave behind *)
    size,        \* bytes written to its file
    onDisk,      \* requests whose file exists
    rows,        \* requests whose estimate or batch row exists
    attempts,    \* attempts the worker has made at the batch
    calls,       \* HTTP requests sent to the external AI provider for it
    cached       \* the summary is in ai_reports

counters == <<used, storage>>
locks    == <<usageLock, rowLock>>
control  == <<pc, tx, period, kind, usage>>
work     == <<size, onDisk, rows, attempts, calls, cached>>
vars     == <<env, month, counters, locks, control, work>>

Charging  == {"reserve", "extra"}
Refunding == {"reduce", "undo", "release"}
Running   == Charging \cup Refunding \cup {"store", "persist", "unlink", "call"}
Kept      == {"done", "worked", "purge"}
PCs       == Running \cup Kept \cup {"idle", "gone", "failed", "dead"}

Deltas  == [Resources -> Nat]
NoUsage == [x \in Resources |-> 0]

TypeOK ==
    /\ env \in FaultScenarios
    /\ month \in Months
    /\ used \in [Months -> [Monthly -> Nat]]
    /\ storage \in Nat
    /\ usageLock \in Requests \cup {None}
    /\ rowLock \in Requests \cup {None}
    /\ pc \in [Requests -> PCs]
    /\ tx \in [Requests -> {"none", "locked", "checked"}]
    /\ period \in [Requests -> Months]
    /\ kind \in [Requests -> Kinds]
    /\ usage \in [Requests -> Deltas]
    /\ size \in [Requests -> Nat]
    /\ onDisk \subseteq Requests
    /\ rows \subseteq Requests
    /\ attempts \in [Requests -> 0..MaxAttempts]
    /\ calls \in [Requests -> Nat]
    /\ cached \in BOOLEAN

Init ==
    /\ env \in FaultScenarios
    /\ month = 1
    /\ used = [m \in Months |-> [x \in Monthly |-> 0]]
    /\ storage = 0
    /\ usageLock = None
    /\ rowLock = None
    /\ pc = [r \in Requests |-> "idle"]
    /\ tx = [r \in Requests |-> "none"]
    /\ period = [r \in Requests |-> 1]
    /\ kind = [r \in Requests |-> "upload"]
    /\ usage = [r \in Requests |-> NoUsage]
    /\ size = [r \in Requests |-> 0]
    /\ onDisk = {}
    /\ rows = {}
    /\ attempts = [r \in Requests |-> 0]
    /\ calls = [r \in Requests |-> 0]
    /\ cached = FALSE

-----------------------------------------------------------------------------
(* Broken variants of the definitions below, for mutation runs only.       *)

(* The check that compares before adding.                                  *)
QuotaExceededBefore(d) ==
    \/ \E x \in Monthly : d[x] > 0 /\ used[month][x] > Limits[x]
    \/ d["storage"] > 0 /\ storage > Limits["storage"] - d["storage"]

(* The deferred rollback that runs after success too, the reduction that   *)
(* is not subtracted from the reservation, the refusal that keeps the lock *)
(* and the decrement without GREATEST.                                     *)
AfterPersistUndo(r) == "undo"
ReducedUsageKept(r) == usage[r]
EndTxLocked(r) == rowLock' = (IF rowLock = r THEN None ELSE rowLock) /\ usageLock' = usageLock
MinusUnguarded(n, d) == n - d

(* A summary that fails gives its job back, though the provider was asked. *)
CallRefunded(r) ==
    /\ pc[r] = "call"
    /\ \E sent \in 0..MaxChunks * HttpAttempts :
        /\ calls' = [calls EXCEPT ![r] = @ + sent]
        /\ \/ cached' = cached /\ pc' = [pc EXCEPT ![r] = "undo"]
           \/ sent > 0 /\ cached' = TRUE /\ pc' = [pc EXCEPT ![r] = "done"]
    /\ UNCHANGED <<env, month, counters, locks, tx, period, kind, usage, size, onDisk, rows, attempts>>

-----------------------------------------------------------------------------
(* UsageDelta values                                                       *)

Usage(files, bytes, ai, batches) ==
    [x \in Resources |-> CASE x = "files"   -> files
                           [] x = "bytes"   -> bytes
                           [] x = "ai"      -> ai
                           [] x = "batches" -> batches
                           [] OTHER         -> bytes]

UsageOf(k, bytes) ==
    CASE k = "upload"  -> Usage(1, bytes, 0, 0)
      [] k = "batch"   -> Usage(BatchFiles, bytes, BatchFiles, 1)
      [] k = "summary" -> Usage(0, 0, 1, 0)

Bytes(n)   == Usage(0, n, 0, 0)
Storage(n) == [NoUsage EXCEPT !["storage"] = n]

(* GREATEST(n - d, 0)                                                      *)
Minus(n, d) == IF n > d THEN n - d ELSE 0

ReducedUsage(r) == [x \in Resources |-> IF x \in {"bytes", "storage"} THEN size[r] ELSE usage[r][x]]

(* What the transaction of request r adds or subtracts.                    *)
Delta(r) ==
    CASE pc[r] = "extra"   -> Bytes(Minus(size[r], usage[r]["bytes"]))
      [] pc[r] = "reduce"  -> Bytes(Minus(usage[r]["bytes"], size[r]))
      [] pc[r] = "release" -> Storage(size[r])
      [] OTHER             -> usage[r]

quotaExceeded(d) ==
    \/ \E x \in Monthly : d[x] > 0 /\ used[month][x] > Limits[x] - d[x]
    \/ d["storage"] > 0 /\ storage > Limits["storage"] - d["storage"]

Add(m, d) ==
    /\ used' = [used EXCEPT ![m] = [x \in Monthly |-> @[x] + d[x]]]
    /\ storage' = storage + d["storage"]

Subtract(m, d) ==
    /\ used' = [used EXCEPT ![m] = [x \in Monthly |-> Minus(@[x], d[x])]]
    /\ storage' = Minus(storage, d["storage"])

-----------------------------------------------------------------------------
(* Transactions of usage_quota.go                                          *)

Goto(r, label) == pc' = [pc EXCEPT ![r] = label]

(* Commit and rollback alike release the transaction's locks.              *)
EndTx(r) ==
    /\ rowLock' = IF rowLock = r THEN None ELSE rowLock
    /\ usageLock' = IF usageLock = r THEN None ELSE usageLock

(* pg_advisory_xact_lock                                                   *)
TakeUsageLock(r) ==
    /\ pc[r] \in Charging \cup Refunding
    /\ tx[r] = "none"
    /\ usageLock = None
    /\ usageLock' = r
    /\ tx' = [tx EXCEPT ![r] = "locked"]
    /\ UNCHANGED <<env, month, counters, rowLock, pc, period, kind, usage, work>>

(* SELECT ... FOR UPDATE of this month's row, and quotaExceeded says no.   *)
CheckUsage(r) ==
    /\ pc[r] \in Charging
    /\ tx[r] = "locked"
    /\ rowLock = None
    /\ ~quotaExceeded(Delta(r))
    /\ rowLock' = r
    /\ period' = [period EXCEPT ![r] = month]
    /\ tx' = [tx EXCEPT ![r] = "checked"]
    /\ UNCHANGED <<env, month, counters, usageLock, pc, kind, usage, work>>

(* The request has not reserved yet, or must give its file and its         *)
(* reservation back.                                                       *)
AfterRefusal(r) == IF pc[r] = "reserve" THEN "failed" ELSE "undo"

Refuse(r) ==
    /\ tx' = [tx EXCEPT ![r] = "none"]
    /\ EndTx(r)
    /\ Goto(r, AfterRefusal(r))
    /\ onDisk' = onDisk \ {r}
    /\ UNCHANGED <<env, month, counters, period, kind, usage, size, rows, attempts, calls, cached>>

QuotaRefused(r) ==
    /\ pc[r] \in Charging
    /\ tx[r] = "locked"
    /\ rowLock = None
    /\ quotaExceeded(Delta(r))
    /\ Refuse(r)

(* A statement of a charge or of the reduction fails, or the client left.  *)
TxFails(r) ==
    /\ pc[r] \in Charging \cup {"reduce"}
    /\ Refuse(r)

(* UPDATE and COMMIT of reserveAccountUsage                                *)
ChargeCommit(r) ==
    /\ tx[r] = "checked"
    /\ Add(period[r], Delta(r))
    /\ tx' = [tx EXCEPT ![r] = "none"]
    /\ EndTx(r)

Charge(r) ==
    /\ ChargeCommit(r)
    /\ usage' = [usage EXCEPT ![r] = IF pc[r] = "extra" THEN ReducedUsage(r) ELSE @]
    /\ Goto(r, CASE pc[r] = "extra"      -> "persist"
                 [] kind[r] = "summary" -> "call"
                 [] OTHER               -> "store")
    /\ UNCHANGED <<env, month, period, kind, work>>

(* The reservation is committed and reported as failed: the handler does   *)
(* not know that there is something to roll back.                          *)
ChargeAckLost(r) ==
    /\ "ack" \in env
    /\ ChargeCommit(r)
    /\ Goto(r, AfterRefusal(r))
    /\ onDisk' = onDisk \ {r}
    /\ UNCHANGED <<env, month, period, kind, usage, size, rows, attempts, calls, cached>>

(* The two UPDATEs and COMMIT of rollbackAccountUsage, which takes the     *)
(* month of now.                                                           *)
RefundCommit(r) ==
    /\ pc[r] \in Refunding
    /\ tx[r] = "locked"
    /\ rowLock = None
    /\ Subtract(month, Delta(r))
    /\ tx' = [tx EXCEPT ![r] = "none"]
    /\ EndTx(r)

Refund(r) ==
    /\ RefundCommit(r)
    /\ usage' = [usage EXCEPT ![r] = IF pc[r] = "reduce" THEN ReducedUsage(r) ELSE @]
    /\ Goto(r, CASE pc[r] = "reduce"  -> "persist"
                 [] pc[r] = "release" -> "gone"
                 [] OTHER             -> "failed")
    /\ UNCHANGED <<env, month, period, kind, work>>

(* The reduction is committed and reported as failed.                      *)
RefundAckLost(r) ==
    /\ "ack" \in env
    /\ pc[r] = "reduce"
    /\ RefundCommit(r)
    /\ Goto(r, "undo")
    /\ onDisk' = onDisk \ {r}
    /\ UNCHANGED <<env, month, period, kind, usage, size, rows, attempts, calls, cached>>

(* rollbackUsageBestEffort, releaseStorageUsageBestEffort: an error is     *)
(* logged, the counters stay.                                              *)
RefundFails(r) ==
    /\ "db" \in env
    /\ pc[r] \in {"undo", "release"}
    /\ tx' = [tx EXCEPT ![r] = "none"]
    /\ EndTx(r)
    /\ Goto(r, IF pc[r] = "release" THEN "gone" ELSE "failed")
    /\ UNCHANGED <<env, month, counters, period, kind, usage, work>>

-----------------------------------------------------------------------------
(* Handlers                                                                *)

(* EstimateUploadPostgres, AnalysisBatchCreate, generateAISummary.         *)
StartRequest(r) ==
    /\ pc[r] = "idle"
    /\ \E k \in Kinds, bytes \in Sizes :
        /\ k = "summary" => ~cached
        /\ kind' = [kind EXCEPT ![r] = k]
        /\ usage' = [usage EXCEPT ![r] = UsageOf(k, bytes)]
    /\ Goto(r, "reserve")
    /\ UNCHANGED <<env, month, counters, locks, tx, period, work>>

(* A cached summary is answered without a reservation.                     *)
SummaryFromCache(r) ==
    /\ pc[r] = "idle"
    /\ cached
    /\ kind' = [kind EXCEPT ![r] = "summary"]
    /\ Goto(r, "done")
    /\ UNCHANGED <<env, month, counters, locks, tx, period, usage, work>>

(* The file is written, and may prove larger or smaller than declared.     *)
StoreFile(r) ==
    /\ pc[r] = "store"
    /\ \E written \in Sizes :
        /\ size' = [size EXCEPT ![r] = written]
        /\ Goto(r, CASE written > usage[r]["bytes"] -> "extra"
                     [] written < usage[r]["bytes"] -> "reduce"
                     [] OTHER                       -> "persist")
    /\ onDisk' = onDisk \cup {r}
    /\ UNCHANGED <<env, month, counters, locks, tx, period, kind, usage, rows, attempts, calls, cached>>

(* Writing, inspecting, reporting or inserting fails: the file is removed  *)
(* and the deferred rollback runs.                                         *)
StoreFails(r) ==
    /\ pc[r] \in {"store", "persist"}
    /\ onDisk' = onDisk \ {r}
    /\ Goto(r, "undo")
    /\ UNCHANGED <<env, month, counters, locks, tx, period, kind, usage, size, rows, attempts, calls, cached>>

(* usageReserved = false: nothing is left to roll back.                    *)
AfterPersist(r) == "done"

(* pgSaveEstimate, pgCreateAnalysisBatch                                   *)
Persist(r) ==
    /\ pc[r] = "persist"
    /\ rows' = rows \cup {r}
    /\ Goto(r, AfterPersist(r))
    /\ UNCHANGED <<env, month, counters, locks, tx, period, kind, usage, size, onDisk, attempts, calls, cached>>

PersistAckLost(r) ==
    /\ "ack" \in env
    /\ pc[r] = "persist"
    /\ rows' = rows \cup {r}
    /\ onDisk' = onDisk \ {r}
    /\ Goto(r, "undo")
    /\ UNCHANGED <<env, month, counters, locks, tx, period, kind, usage, size, attempts, calls, cached>>

(* The HTTP requests an analysis of n files may take: every file goes to   *)
(* the provider chunk by chunk, a request that fails or is answered with a *)
(* retryable status is repeated, and a chunk that fails ends the file.     *)
RequestsFor(n) == 0..n * MaxChunks * HttpAttempts

(* The provider of a summary answers for every chunk and the answer is     *)
(* cached, or fails and the reservation stays charged.                     *)
CallProvider(r) ==
    /\ pc[r] = "call"
    /\ \E sent \in RequestsFor(1) :
        /\ calls' = [calls EXCEPT ![r] = @ + sent]
        /\ \/ cached' = cached
           \/ sent > 0 /\ cached' = TRUE
    /\ Goto(r, "done")
    /\ UNCHANGED <<env, month, counters, locks, tx, period, kind, usage, size, onDisk, rows, attempts>>

(* One attempt of the worker at the batch: it asks the provider about      *)
(* every file, and the batch is settled or goes back to the queue.         *)
BatchAttempt(r) ==
    /\ pc[r] = "done" /\ kind[r] = "batch"
    /\ attempts[r] < MaxAttempts
    /\ attempts' = [attempts EXCEPT ![r] = @ + 1]
    /\ \E sent \in RequestsFor(BatchFiles) : calls' = [calls EXCEPT ![r] = @ + sent]
    /\ \/ Goto(r, "worked")
       \/ attempts'[r] < MaxAttempts /\ pc' = pc
    /\ UNCHANGED <<env, month, counters, locks, tx, period, kind, usage, size, onDisk, rows, cached>>

(* CleanupExpiredBatchFiles removes the file of a settled batch, then      *)
(* clears its path and lowers the counter in a transaction that takes the  *)
(* row lock only.                                                          *)
PurgeFile(r) ==
    /\ pc[r] = "worked"
    /\ onDisk' = onDisk \ {r}
    /\ Goto(r, "purge")
    /\ UNCHANGED <<env, month, counters, locks, tx, period, kind, usage, size, rows, attempts, calls, cached>>

PurgeCommit(r) ==
    /\ pc[r] = "purge"
    /\ rowLock = None
    /\ storage' = Minus(storage, size[r])
    /\ Goto(r, "gone")
    /\ UNCHANGED <<env, month, used, locks, tx, period, kind, usage, work>>

(* EstimateDeleteWithUsage: the row goes first, then the file, then the    *)
(* storage it took.                                                        *)
DeleteEstimate(r) ==
    /\ pc[r] = "done" /\ kind[r] = "upload"
    /\ rows' = rows \ {r}
    /\ Goto(r, "unlink")
    /\ UNCHANGED <<env, month, counters, locks, tx, period, kind, usage, size, onDisk, attempts, calls, cached>>

UnlinkFile(r) ==
    /\ pc[r] = "unlink"
    /\ \/ onDisk' = onDisk \ {r} /\ Goto(r, "release")
       \/ onDisk' = onDisk /\ Goto(r, "gone")
    /\ UNCHANGED <<env, month, counters, locks, tx, period, kind, usage, size, rows, attempts, calls, cached>>

-----------------------------------------------------------------------------
(* The environment                                                         *)

MonthTurns ==
    /\ "month" \in env
    /\ month < MaxMonth
    /\ month' = month + 1
    /\ UNCHANGED <<env, counters, locks, control, work>>

(* The process of a request dies: its transaction is rolled back, its      *)
(* deferred calls never run.                                               *)
Crash(r) ==
    /\ "crash" \in env
    /\ pc[r] \in Running
    /\ Goto(r, "dead")
    /\ tx' = [tx EXCEPT ![r] = "none"]
    /\ EndTx(r)
    /\ UNCHANGED <<env, month, counters, period, kind, usage, work>>

-----------------------------------------------------------------------------

(* What the handler of a running request does next.                        *)
Step(r) ==
    \/ TakeUsageLock(r) \/ CheckUsage(r) \/ QuotaRefused(r) \/ Charge(r) \/ Refund(r)
    \/ StoreFile(r) \/ Persist(r) \/ CallProvider(r) \/ UnlinkFile(r)

Next ==
    \/ MonthTurns
    \/ \E r \in Requests :
        \/ StartRequest(r) \/ SummaryFromCache(r) \/ Step(r)
        \/ TxFails(r) \/ StoreFails(r) \/ RefundFails(r)
        \/ ChargeAckLost(r) \/ RefundAckLost(r) \/ PersistAckLost(r) \/ Crash(r)
        \/ BatchAttempt(r) \/ PurgeFile(r) \/ PurgeCommit(r) \/ DeleteEstimate(r)

Spec == Init /\ [][Next]_vars

(* Handlers run to their end; nothing makes users ask or the worker clean. *)
FairSpec == Spec /\ \A r \in Requests : WF_vars(Step(r))

-----------------------------------------------------------------------------
(* Safety                                                                  *)

(* docs/USAGE_QUOTAS.md:3 "The checks are performed atomically": however   *)
(* requests interleave, no counter of any month passes its limit.          *)
QuotaNeverExceeded ==
    /\ \A m \in Months, x \in Monthly : used[m][x] <= Limits[x]
    /\ storage <= Limits["storage"]

(* The files that estimates and batches refer to are paid for: after       *)
(* crashes, lost refunds and turns of the month, storage_bytes is at least *)
(* what the rows retain.                                                   *)
StorageCoversFiles ==
    "ack" \notin env =>
        storage >= MapThenSumSet(LAMBDA r : size[r], rows \cap onDisk)

Quiet == \A r \in Requests : pc[r] \notin Running \cup {"dead"}

(* Without faults, when no request runs, the counters are exactly what the *)
(* accepted work took: failed requests left nothing, deletions returned    *)
(* storage and nothing else.                                               *)
AccountingExact ==
    Quiet /\ env = {} =>
        /\ \A x \in Monthly : used[month][x] =
              MapThenSumSet(LAMBDA r : usage[r][x],
                            {r \in Requests : pc[r] \in Kept \cup {"gone"}})
        /\ storage = MapThenSumSet(LAMBDA r : size[r],
                                   onDisk \cup {r \in Requests : pc[r] = "purge"})

(* The most HTTP requests that one counted job may stand for: a job is     *)
(* counted per file, whatever its chunks, repetitions and attempts.        *)
RequestsPerJob == MaxAttempts * MaxChunks * HttpAttempts

(* generateAISummary, AnalysisBatchCreate: the provider is asked for       *)
(* nothing that was not counted as an AI job before, and what it was asked *)
(* for stays counted, whatever is refunded to whichever month and whoever  *)
(* dies.                                                                   *)
CallsAreCovered ==
    MapThenSumSet(LAMBDA r : calls[r], Requests) <=
        RequestsPerJob * MapThenSumSet(LAMBDA m : used[m]["ai"], Months)

(* docs/USAGE_QUOTAS.md:27 "If file saving, parsing, report generation or  *)
(* PostgreSQL persistence fails, the reservation is rolled back.": when    *)
(* all that was asked has failed, nothing is charged.                      *)
FailureCostsNothing ==
    (\A r \in Requests : pc[r] \in {"idle", "failed"}) =>
        \A m \in Months, x \in Monthly : used[m][x] = 0

(* The accounting implements the abstract ledger: check and addition act   *)
(* as one step although they are several statements.                       *)
Ledger == INSTANCE UsageLedger
LedgerSpec == Ledger!LedgerSpec

(* No request waits for ever for the account's lock, whoever was refused,  *)
(* failed or died while holding it.                                        *)
RequestsFinish ==
    \A r \in Requests : pc[r] \in Running ~> pc[r] \notin Running

=============================================================================
