------------------------ MODULE AnalysisBatchProofs ------------------------
(***************************************************************************)
(* Theorems about the analysis-batch queue, for any numbers of workers,    *)
(* batches, files and attempts, any hash of the batch ids to lock keys and *)
(* any combination of faults.                                              *)
(***************************************************************************)
EXTENDS AnalysisBatch, TLAPS

(* Every variable keeps its type, and the attempt counter its bound.       *)
THEOREM TypeCorrect == Spec => []TypeOK
<1> USE BatchAssumption DEF Files, Faults, Processing, Locked, Active, PCs, Settled
<1>1. Init => TypeOK
  BY DEF Init, TypeOK
<1>2. TypeOK /\ [Next]_vars => TypeOK'
  <2> SUFFICES ASSUME TypeOK, [Next]_vars
               PROVE  TypeOK'
    OBVIOUS
  <2> USE DEF TypeOK, batchVars, fileVars, workerVars, Goto, BackToIdle
  <2>1. ASSUME NEW b \in Batches, pgCreateAnalysisBatch(b)
        PROVE  TypeOK'
    BY <2>1 DEF pgCreateAnalysisBatch
  <2>10. ASSUME NEW b \in Batches, NEW f \in Files, pgDeleteEstimate(b, f)
         PROVE  TypeOK'
    BY <2>10 DEF pgDeleteEstimate
  <2>2. ASSUME NEW b \in Batches, LeaseExpires(b)
        PROVE  TypeOK'
    BY <2>2 DEF LeaseExpires
  <2>3. ASSUME NEW w \in Workers, pgClaimNextAnalysisBatch(w)
        PROVE  TypeOK'
    BY <2>3 DEF pgClaimNextAnalysisBatch, Claimable
  <2>4. ASSUME NEW w \in Workers, Step(w)
        PROVE  TypeOK'
    <3>1. CASE LockAcquired(w)
      BY <3>1 DEF LockAcquired
    <3>2. CASE LockBusy(w)
      BY <3>2 DEF LockBusy
    <3>3. CASE pgLoadAnalysisBatchFiles(w)
      BY <3>3 DEF pgLoadAnalysisBatchFiles, LoadedLinks
    <3>4. CASE MarkProcessing(w)
      BY <3>4 DEF MarkProcessing, FileUpdate
    <3>5. CASE ensureBatchEstimate(w)
      BY <3>5 DEF ensureBatchEstimate
    <3>6. CASE MarkCompleted(w)
      BY <3>6 DEF MarkCompleted, FileUpdate
    <3>7. CASE pgTouchAnalysisBatch(w)
      <4>1. at[w] \in 0..FileCount
        OBVIOUS
      <4>2. count' \in [Batches -> 0..FileCount]
        BY <3>7, <4>1 DEF pgTouchAnalysisBatch
      <4>3. at' \in [Workers -> 1..FileCount]
        <5>1. 1 \in 1..FileCount /\ (at[w] # FileCount => at[w] + 1 \in 1..FileCount)
          OBVIOUS
        <5>2. at' = [at EXCEPT ![w] = IF at[w] = FileCount THEN 1 ELSE at[w] + 1]
          BY <3>7, Zenon DEF pgTouchAnalysisBatch, LastFile
        <5> QED BY <5>1, <5>2
      <4>4. /\ pc[w] = "touch"
            /\ \/ pc' = [pc EXCEPT ![w] = "ai"]
               \/ pc' = [pc EXCEPT ![w] = "mark"]
        BY <3>7 DEF pgTouchAnalysisBatch, LastFile
      <4>5. \A v \in Workers : pc'[v] # "idle" => pc[v] # "idle"
        BY <4>4
      <4> QED BY <3>7, <4>2, <4>3, <4>4, <4>5 DEF pgTouchAnalysisBatch
    <3>8. CASE AnalyzeInput(w) \/ HeartbeatLost(w)
      <4>1. PICK answered \in BOOLEAN : pc[w] = "ai" /\ InputDone(w, answered)
        <5>1. CASE AnalyzeInput(w)
          BY <5>1, Zenon DEF AnalyzeInput
        <5>2. CASE HeartbeatLost(w)
          BY <5>2, Zenon DEF HeartbeatLost
        <5> QED BY <3>8, <5>1, <5>2
      <4>2. at' \in [Workers -> 1..FileCount]
        BY <4>1 DEF InputDone, LastFile
      <4>3. pc' \in [Workers -> PCs] /\ quality' \in [Workers -> {"ai", "rules"}]
        <5>1. pc' = pc \/ pc' = [pc EXCEPT ![w] = "complete"]
          BY <4>1 DEF InputDone
        <5>2. quality' = quality \/ quality' = [quality EXCEPT ![w] = "rules"]
          BY <4>1 DEF InputDone
        <5>3. pc' \in [Workers -> PCs]
          <6>1. pc \in [Workers -> PCs]
            OBVIOUS
          <6> QED BY ONLY <5>1, <6>1 DEF PCs, Locked
        <5>4. quality' \in [Workers -> {"ai", "rules"}]
          BY <5>2
        <5> QED BY <5>3, <5>4
      <4>4. \A v \in Workers : pc'[v] # "idle" => pc[v] # "idle"
        BY <4>1 DEF InputDone
      <4> QED BY <4>1, <4>2, <4>3, <4>4 DEF InputDone
    <3>9. CASE pgCompleteAnalysisBatch(w)
      BY <3>9 DEF pgCompleteAnalysisBatch, CompleteUpdate
    <3>10. CASE pgFailAnalysisBatch(w)
      <4>1. pc' = [pc EXCEPT ![w] = "release"] /\ pc[w] = "fail"
        BY <3>10, Zenon DEF pgFailAnalysisBatch
      <4>2. UNCHANGED <<env, fileVars, lock, job, at, snap, quality>>
        BY <3>10, Zenon DEF pgFailAnalysisBatch
      <4>3. /\ status' \in [Batches -> {"none", "pending", "processing", "completed", "failed"}]
            /\ fresh' \in [Batches -> BOOLEAN]
            /\ UNCHANGED <<attempts, count, report>>
        <5>1. CASE FailUpdate(job[w])
          <6>1. StatusAfterFailure(job[w]) \in {"failed", "pending"}
            BY DEF StatusAfterFailure
          <6>2. status' = [status EXCEPT ![job[w]] = StatusAfterFailure(job[w])]
            BY <5>1, Zenon DEF FailUpdate
          <6>3. /\ fresh' = [fresh EXCEPT ![job[w]] = FALSE]
                /\ UNCHANGED <<attempts, count, report>>
            BY <5>1, Zenon DEF FailUpdate
          <6>4. status \in [Batches -> {"none", "pending", "processing", "completed", "failed"}]
                /\ fresh \in [Batches -> BOOLEAN]
            OBVIOUS
          <6>5. status' \in [Batches -> {"none", "pending", "processing", "completed", "failed"}]
            BY <6>1, <6>2, <6>4
          <6>6. fresh' \in [Batches -> BOOLEAN]
            BY <6>3, <6>4
          <6> QED BY <6>3, <6>5, <6>6
        <5>2. CASE UNCHANGED batchVars
          BY <5>2
        <5> QED BY <3>10, <5>1, <5>2 DEF pgFailAnalysisBatch
      <4>4. \A v \in Workers : pc'[v] # "idle" => pc[v] # "idle"
        BY <4>1
      <4> QED BY <4>1, <4>2, <4>3, <4>4
    <3>11. CASE ReleaseLock(w)
      BY <3>11 DEF ReleaseLock, Unlock
    <3>12. CASE LinkRefused(w)
      BY <3>12 DEF LinkRefused
    <3> QED BY <2>4, <3>1, <3>2, <3>3, <3>4, <3>5, <3>6, <3>7, <3>8, <3>9,
               <3>10, <3>11, <3>12 DEF Step
  <2>5. ASSUME NEW w \in Workers, Error(w)
        PROVE  TypeOK'
    <3>1. CASE ClaimReadFails(w)
      BY <3>1 DEF ClaimReadFails
    <3>2. CASE LockError(w)
      <4>1. CASE UNCHANGED batchVars
        BY <3>2, <4>1 DEF LockError
      <4>2. CASE FailUpdate(job[w])
        BY <3>2, <4>2 DEF LockError, FailUpdate, StatusAfterFailure
      <4> QED BY <3>2, <4>1, <4>2 DEF LockError
    <3>3. CASE EnsureFails(w)
      <4>1. CASE UNCHANGED fileVars
        BY <3>3, <4>1 DEF EnsureFails
      <4>2. CASE /\ FileUpdate(job[w], at[w], "failed", at[w] \in snap[w])
                 /\ UNCHANGED deleted
        BY <3>3, <4>2 DEF EnsureFails, FileUpdate
      <4> QED BY <3>3, <4>1, <4>2 DEF EnsureFails
    <3>4. CASE ProcessingFails(w)
      BY <3>4 DEF ProcessingFails
    <3>5. CASE CompleteAckLost(w)
      BY <3>5 DEF CompleteAckLost, CompleteUpdate
    <3> QED BY <2>5, <3>1, <3>2, <3>3, <3>4, <3>5 DEF Error
  <2>6. ASSUME NEW w \in Workers, pgHeartbeatAnalysisBatch(w)
        PROVE  TypeOK'
    BY <2>6 DEF pgHeartbeatAnalysisBatch
  <2>7. ASSUME NEW w \in Workers, Crash(w)
        PROVE  TypeOK'
    BY <2>7 DEF Crash, Unlock
  <2>8. ASSUME NEW w \in Workers, LockConnectionDrops(w)
        PROVE  TypeOK'
    BY <2>8 DEF LockConnectionDrops, Unlock
  <2>9. CASE UNCHANGED vars
    BY <2>9 DEF vars
  <2> QED BY <2>1, <2>2, <2>3, <2>4, <2>5, <2>6, <2>7, <2>8, <2>9, <2>10 DEF Next
<1> QED BY <1>1, <1>2, PTL DEF Spec

-----------------------------------------------------------------------------

(* While no lock connection is lost, whoever is past the lock holds it.    *)
LockHeld ==
    "drop" \notin env =>
        \A w \in Workers : pc[w] \in Locked => lock[hashtext[job[w]]] = w

(* The actions that move a worker within Locked, or out of "idle" and      *)
(* "claimed" without touching a lock, keep the lock table.                 *)
LEMMA LockStep ==
    ASSUME TypeOK, NEW w \in Workers, lock' = lock, env' = env,
           \A v \in Workers : v # w => pc'[v] = pc[v] /\ job'[v] = job[v],
           pc'[w] \in Locked => pc[w] \in Locked /\ job'[w] = job[w],
           LockHeld
    PROVE  LockHeld'
BY DEF LockHeld

(* What one step does to the lock table and to the workers past the lock.  *)
LEMMA LockHeldInductive == TypeOK /\ LockHeld /\ [Next]_vars => LockHeld'
<1> SUFFICES ASSUME TypeOK, LockHeld, [Next]_vars
             PROVE  LockHeld'
  OBVIOUS
<1> USE BatchAssumption DEF Processing, Locked, PCs
<1>1. ASSUME NEW b \in Batches, pgCreateAnalysisBatch(b) \/ LeaseExpires(b)
      PROVE  LockHeld'
  BY <1>1 DEF LockHeld, pgCreateAnalysisBatch, LeaseExpires, workerVars
<1>9. ASSUME NEW b \in Batches, NEW f \in Files, pgDeleteEstimate(b, f)
      PROVE  LockHeld'
  BY <1>9 DEF LockHeld, pgDeleteEstimate, workerVars
<1>2. ASSUME NEW w \in Workers, pgClaimNextAnalysisBatch(w)
      PROVE  LockHeld'
  BY <1>2, LockStep DEF pgClaimNextAnalysisBatch, Goto, TypeOK
<1>3. ASSUME NEW w \in Workers, Step(w)
      PROVE  LockHeld'
  <2>1. CASE LockAcquired(w)
    BY <2>1 DEF LockAcquired, LockFree, LockHeld, Goto, TypeOK
  <2>2. CASE LockBusy(w)
    BY <2>2, LockStep DEF LockBusy, BackToIdle, Goto, TypeOK
  <2>3. CASE pgLoadAnalysisBatchFiles(w)
    BY <2>3, LockStep DEF pgLoadAnalysisBatchFiles, Goto, TypeOK
  <2>4. CASE MarkProcessing(w)
    BY <2>4, LockStep DEF MarkProcessing, Goto, TypeOK
  <2>5. CASE ensureBatchEstimate(w)
    BY <2>5, LockStep DEF ensureBatchEstimate, Goto, TypeOK
  <2>6. CASE MarkCompleted(w)
    BY <2>6, LockStep DEF MarkCompleted, Goto, TypeOK
  <2>7. CASE pgTouchAnalysisBatch(w)
    BY <2>7, LockStep DEF pgTouchAnalysisBatch, Goto, TypeOK
  <2>8. CASE AnalyzeInput(w) \/ HeartbeatLost(w)
    BY <2>8, LockStep DEF AnalyzeInput, HeartbeatLost, InputDone, Goto, TypeOK
  <2>9. CASE pgCompleteAnalysisBatch(w)
    BY <2>9, LockStep DEF pgCompleteAnalysisBatch, Goto, TypeOK
  <2>10. CASE pgFailAnalysisBatch(w)
    BY <2>10, LockStep DEF pgFailAnalysisBatch, Goto, TypeOK
  <2>11. CASE ReleaseLock(w)
    BY <2>11 DEF ReleaseLock, Unlock, BackToIdle, Goto, LockHeld, TypeOK
  <2>12. CASE LinkRefused(w)
    BY <2>12, LockStep DEF LinkRefused, Goto, TypeOK
  <2> QED BY <1>3, <2>1, <2>2, <2>3, <2>4, <2>5, <2>6, <2>7, <2>8, <2>9,
             <2>10, <2>11, <2>12 DEF Step
<1>4. ASSUME NEW w \in Workers, Error(w)
      PROVE  LockHeld'
  <2>1. CASE ClaimReadFails(w) \/ LockError(w)
    BY <2>1, LockStep DEF ClaimReadFails, LockError, BackToIdle, Goto, TypeOK
  <2>2. CASE EnsureFails(w) \/ ProcessingFails(w) \/ CompleteAckLost(w)
    BY <2>2, LockStep DEF EnsureFails, ProcessingFails, CompleteAckLost, Goto, TypeOK
  <2> QED BY <1>4, <2>1, <2>2 DEF Error
<1>5. ASSUME NEW w \in Workers, pgHeartbeatAnalysisBatch(w)
      PROVE  LockHeld'
  BY <1>5, LockStep DEF pgHeartbeatAnalysisBatch, workerVars
<1>6. ASSUME NEW w \in Workers, Crash(w)
      PROVE  LockHeld'
  BY <1>6 DEF Crash, Unlock, BackToIdle, Goto, LockHeld, TypeOK
<1>7. ASSUME NEW w \in Workers, LockConnectionDrops(w)
      PROVE  LockHeld'
  BY <1>7 DEF LockConnectionDrops, LockHeld
<1>8. CASE UNCHANGED vars
  BY <1>8 DEF vars, workerVars, LockHeld
<1> QED BY <1>1, <1>2, <1>3, <1>4, <1>5, <1>6, <1>7, <1>8, <1>9 DEF Next

(* Two workers never process the same batch at the same time, however slow *)
(* they are and whatever crashes, unless a lock connection is lost.        *)
THEOREM Exclusion == Spec => []MutualExclusion
<1>1. Init => LockHeld
  BY DEF Init, LockHeld, Locked, Processing
<1>2. TypeOK /\ LockHeld => MutualExclusion
  BY BatchAssumption DEF LockHeld, MutualExclusion
<1> QED BY <1>1, <1>2, TypeCorrect, LockHeldInductive, PTL DEF Spec

-----------------------------------------------------------------------------

(* The strengthening: a row that does not exist has used no attempt.       *)
AttemptsInv ==
    \A b \in Batches :
        /\ status[b] = "none" => attempts[b] = 0
        /\ status[b] = "failed" => attempts[b] = MaxAttempts
        /\ status[b] = "pending" => attempts[b] < MaxAttempts

(* A batch is given up only after its last attempt and queued only before  *)
(* it, whoever recorded the failure.                                       *)
THEOREM AttemptsDecide == Spec => []AttemptsDecideOutcome
<1>1. Init => AttemptsInv
  BY DEF Init, AttemptsInv
<1>2. TypeOK /\ AttemptsInv /\ [Next]_vars => AttemptsInv'
  <2> SUFFICES ASSUME TypeOK, AttemptsInv, [Next]_vars
               PROVE  AttemptsInv'
    OBVIOUS
  <2> USE BatchAssumption DEF AttemptsInv
  <2>1. ASSUME UNCHANGED <<status, attempts>>
        PROVE  AttemptsInv'
    BY <2>1
  <2>2. ASSUME NEW b \in Batches, FailUpdate(b)
        PROVE  AttemptsInv'
    <3>1. /\ attempts' = attempts
          /\ status' = [status EXCEPT ![b] = StatusAfterFailure(b)]
      BY <2>2 DEF FailUpdate
    <3>2. \A c \in Batches : attempts[c] \in Int /\ attempts[c] <= MaxAttempts
      BY DEF TypeOK
    <3>3. \A c \in Batches : status'[c] = IF c = b THEN StatusAfterFailure(b) ELSE status[c]
      BY <3>1 DEF TypeOK
    <3>4. StatusAfterFailure(b) = "failed" => attempts[b] = MaxAttempts
      BY <3>2 DEF StatusAfterFailure
    <3>5. StatusAfterFailure(b) # "failed" =>
            StatusAfterFailure(b) = "pending" /\ attempts[b] < MaxAttempts
      BY <3>2 DEF StatusAfterFailure
    <3> QED BY <3>1, <3>3, <3>4, <3>5
  <2>3. ASSUME NEW b \in Batches, pgCreateAnalysisBatch(b) \/ LeaseExpires(b)
        PROVE  AttemptsInv'
    <3>1. CASE LeaseExpires(b)
      BY <2>1, <3>1 DEF LeaseExpires
    <3>2. CASE pgCreateAnalysisBatch(b)
      BY <3>2 DEF pgCreateAnalysisBatch, TypeOK
    <3> QED BY <2>3, <3>1, <3>2
  <2>4. ASSUME NEW w \in Workers, pgClaimNextAnalysisBatch(w)
        PROVE  AttemptsInv'
    <3>1. PICK b \in Batches : /\ Claimable(b)
                               /\ attempts' = [attempts EXCEPT ![b] = @ + 1]
                               /\ status' = [status EXCEPT ![b] = "processing"]
      BY <2>4, Zenon DEF pgClaimNextAnalysisBatch
    <3> QED BY <3>1 DEF Claimable, TypeOK
  <2>5. ASSUME NEW w \in Workers, Step(w)
        PROVE  AttemptsInv'
    <3>1. CASE pgCompleteAnalysisBatch(w)
      <4>1. attempts' = attempts /\ status' = [status EXCEPT ![job[w]] = "completed"]
        BY <3>1, Zenon DEF pgCompleteAnalysisBatch, CompleteUpdate
      <4> QED BY <4>1 DEF TypeOK
    <3>2. CASE pgFailAnalysisBatch(w)
      <4>1. job[w] \in Batches
        BY <3>2 DEF pgFailAnalysisBatch, TypeOK
      <4> QED BY <2>1, <2>2, <3>2, <4>1 DEF pgFailAnalysisBatch, batchVars
    <3> QED BY <2>1, <2>5, <3>1, <3>2
        DEF Step, LockAcquired, LockBusy, pgLoadAnalysisBatchFiles, MarkProcessing,
            ensureBatchEstimate, MarkCompleted, LinkRefused, pgTouchAnalysisBatch,
            AnalyzeInput, HeartbeatLost, InputDone, ReleaseLock, batchVars
  <2>6. ASSUME NEW w \in Workers, Error(w)
        PROVE  AttemptsInv'
    <3>1. CASE CompleteAckLost(w)
      BY <3>1 DEF CompleteAckLost, CompleteUpdate, TypeOK
    <3>2. CASE LockError(w)
      <4>1. job[w] \in Batches
        BY <3>2 DEF LockError, TypeOK
      <4> QED BY <2>1, <2>2, <3>2, <4>1 DEF LockError, batchVars
    <3> QED BY <2>1, <2>6, <3>1, <3>2
        DEF Error, ClaimReadFails, EnsureFails, ProcessingFails, batchVars
  <2>7. ASSUME NEW w \in Workers,
               pgHeartbeatAnalysisBatch(w) \/ Crash(w) \/ LockConnectionDrops(w)
        PROVE  AttemptsInv'
    BY <2>1, <2>7 DEF pgHeartbeatAnalysisBatch, Crash, LockConnectionDrops, batchVars
  <2>8. CASE UNCHANGED vars
    BY <2>1, <2>8 DEF vars, batchVars
  <2>9. ASSUME NEW b \in Batches, NEW f \in Files, pgDeleteEstimate(b, f)
        PROVE  AttemptsInv'
    BY <2>1, <2>9 DEF pgDeleteEstimate, batchVars
  <2> QED BY <2>3, <2>4, <2>5, <2>6, <2>7, <2>8, <2>9 DEF Next
<1>3. AttemptsInv => AttemptsDecideOutcome
  BY DEF AttemptsInv, AttemptsDecideOutcome
<1> QED BY <1>1, <1>2, <1>3, TypeCorrect, PTL DEF Spec

-----------------------------------------------------------------------------

(* What holds of the claims while workers may crash but keep up with their *)
(* lease: a batch on which a worker is active is in processing, no other   *)
(* worker is active on it, and its lease is fresh.                         *)
ClaimInv ==
    env \subseteq {"crash"} =>
        \A w \in Workers : pc[w] \in Active =>
            /\ status[job[w]] = "processing"
            /\ fresh[job[w]]
            /\ \A v \in Workers : pc[v] \in Active /\ job[v] = job[w] => v = w

(* A step that leaves the batches alone and activates nobody keeps it.     *)
LEMMA ClaimQuiet ==
    ASSUME TypeOK, ClaimInv, env' = env, status' = status,
           \A b \in Batches : fresh[b] => fresh'[b],
           \A v \in Workers : pc'[v] \in Active => pc[v] \in Active /\ job'[v] = job[v]
    PROVE  ClaimInv'
<1> SUFFICES ASSUME env \subseteq {"crash"}, NEW w \in Workers, pc'[w] \in Active
             PROVE  /\ status[job'[w]] = "processing"
                    /\ fresh'[job'[w]]
                    /\ \A v \in Workers : pc'[v] \in Active /\ job'[v] = job'[w] => v = w
  BY DEF ClaimInv
<1>1. pc[w] \in Active /\ job'[w] = job[w] /\ job[w] \in Batches
  BY DEF TypeOK, Active, Processing
<1>2. status[job[w]] = "processing" /\ fresh[job[w]]
  BY <1>1 DEF ClaimInv
<1>3. ASSUME NEW v \in Workers, pc'[v] \in Active, job'[v] = job'[w] PROVE v = w
  BY <1>1, <1>3 DEF ClaimInv
<1> QED BY <1>1, <1>2, <1>3

(* A step by which an active worker gives its batch up keeps it.           *)
LEMMA ClaimGivenUp ==
    ASSUME TypeOK, ClaimInv, env' = env, NEW w \in Workers, pc[w] \in Active,
           pc'[w] \notin Active,
           \A b \in Batches : b # job[w] => status'[b] = status[b] /\ fresh'[b] = fresh[b],
           \A v \in Workers : v # w => pc'[v] = pc[v] /\ job'[v] = job[v]
    PROVE  ClaimInv'
<1> SUFFICES ASSUME env \subseteq {"crash"}, NEW u \in Workers, pc'[u] \in Active
             PROVE  /\ status'[job'[u]] = "processing"
                    /\ fresh'[job'[u]]
                    /\ \A v \in Workers : pc'[v] \in Active /\ job'[v] = job'[u] => v = u
  BY DEF ClaimInv
<1>1. u # w /\ pc[u] \in Active /\ job'[u] = job[u]
  OBVIOUS
<1>2. job[u] \in Batches /\ job[u] # job[w]
  BY <1>1 DEF ClaimInv, TypeOK, Active, Processing
<1>3. status'[job'[u]] = "processing" /\ fresh'[job'[u]]
  BY <1>1, <1>2 DEF ClaimInv
<1>4. ASSUME NEW v \in Workers, pc'[v] \in Active, job'[v] = job'[u] PROVE v = u
  BY <1>1, <1>4 DEF ClaimInv
<1> QED BY <1>3, <1>4

(* ClaimInv is inductive, given the types.                                 *)
LEMMA ClaimInductive == TypeOK /\ ClaimInv /\ [Next]_vars => ClaimInv'
<1> SUFFICES ASSUME TypeOK, ClaimInv, [Next]_vars
             PROVE  ClaimInv'
  OBVIOUS
<1> USE BatchAssumption DEF Active, Processing, Locked, PCs
<1>1. ASSUME NEW b \in Batches, pgCreateAnalysisBatch(b)
      PROVE  ClaimInv'
  BY <1>1 DEF pgCreateAnalysisBatch, ClaimInv, TypeOK, workerVars
<1>2. ASSUME NEW b \in Batches, LeaseExpires(b)
      PROVE  ClaimInv'
  BY <1>2 DEF LeaseExpires, ClaimInv, TypeOK, workerVars
<1>3. ASSUME NEW w \in Workers, pgClaimNextAnalysisBatch(w)
      PROVE  ClaimInv'
  <2> SUFFICES ASSUME env \subseteq {"crash"}
               PROVE  ClaimInv'
    BY <1>3 DEF ClaimInv, pgClaimNextAnalysisBatch
  <2>1. PICK b \in Batches : /\ Claimable(b)
                             /\ status' = [status EXCEPT ![b] = "processing"]
                             /\ fresh' = [fresh EXCEPT ![b] = TRUE]
                             /\ job' = [job EXCEPT ![w] = b]
                             /\ pc' = [pc EXCEPT ![w] = "claimed"]
    BY <1>3 DEF pgClaimNextAnalysisBatch, Goto
  <2>2. \A v \in Workers : pc[v] \in Active => job[v] # b
    BY <2>1 DEF Claimable, ClaimInv
  <2>3. env' = env /\ pc[w] = "idle"
    BY <1>3 DEF pgClaimNextAnalysisBatch
  <2>4. ASSUME NEW v \in Workers, pc'[v] \in Active, v # w
        PROVE  pc[v] \in Active /\ job'[v] = job[v] /\ job[v] # b /\ job[v] \in Batches
    BY <2>1, <2>2, <2>4 DEF TypeOK
  <2>5. pc'[w] = "claimed" /\ job'[w] = b /\ status'[b] = "processing" /\ fresh'[b]
    BY <2>1 DEF TypeOK
  <2>6. \A c \in Batches : c # b => status'[c] = status[c] /\ fresh'[c] = fresh[c]
    BY <2>1 DEF TypeOK
  <2> QED BY <2>4, <2>5, <2>6 DEF ClaimInv
<1>4. ASSUME NEW w \in Workers, Step(w)
      PROVE  ClaimInv'
  <2>1. CASE LockAcquired(w) \/ LockBusy(w) \/ ReleaseLock(w)
    BY <2>1, ClaimQuiet DEF LockAcquired, LockBusy, ReleaseLock, BackToIdle, Goto,
                            batchVars, TypeOK
  <2>2. CASE pgLoadAnalysisBatchFiles(w) \/ MarkProcessing(w) \/ ensureBatchEstimate(w)
             \/ MarkCompleted(w)
    BY <2>2, ClaimQuiet DEF pgLoadAnalysisBatchFiles, MarkProcessing, ensureBatchEstimate,
                            MarkCompleted, Goto, batchVars, TypeOK
  <2>3. CASE pgTouchAnalysisBatch(w)
    BY <2>3, ClaimQuiet DEF pgTouchAnalysisBatch, Goto, TypeOK
  <2>4. CASE AnalyzeInput(w) \/ HeartbeatLost(w)
    BY <2>4, ClaimQuiet DEF AnalyzeInput, HeartbeatLost, InputDone, Goto, batchVars, TypeOK
  <2>5. CASE pgCompleteAnalysisBatch(w)
    BY <2>5, ClaimGivenUp DEF pgCompleteAnalysisBatch, CompleteUpdate, Goto, TypeOK
  <2>6. CASE pgFailAnalysisBatch(w)
    BY <2>6, ClaimGivenUp DEF pgFailAnalysisBatch, FailUpdate, batchVars, Goto, TypeOK
  <2>7. CASE LinkRefused(w)
    BY <2>7, ClaimQuiet DEF LinkRefused, Goto, batchVars, TypeOK
  <2> QED BY <1>4, <2>1, <2>2, <2>3, <2>4, <2>5, <2>6, <2>7 DEF Step
<1>5. ASSUME NEW w \in Workers, Error(w)
      PROVE  ClaimInv'
  <2>1. CASE ClaimReadFails(w) \/ EnsureFails(w) \/ ProcessingFails(w)
    BY <2>1, ClaimQuiet DEF ClaimReadFails, EnsureFails, ProcessingFails, BackToIdle, Goto,
                            batchVars, TypeOK
  <2>2. CASE LockError(w)
    BY <2>2, ClaimGivenUp DEF LockError, FailUpdate, BackToIdle, Goto, batchVars, TypeOK
  <2>3. CASE CompleteAckLost(w)
    BY <2>3 DEF CompleteAckLost, ClaimInv
  <2> QED BY <1>5, <2>1, <2>2, <2>3 DEF Error
<1>6. ASSUME NEW w \in Workers, pgHeartbeatAnalysisBatch(w)
      PROVE  ClaimInv'
  BY <1>6, ClaimQuiet DEF pgHeartbeatAnalysisBatch, workerVars, TypeOK
<1>7. ASSUME NEW w \in Workers, Crash(w) \/ LockConnectionDrops(w)
      PROVE  ClaimInv'
  BY <1>7, ClaimQuiet DEF Crash, LockConnectionDrops, BackToIdle, Goto, batchVars,
                          workerVars, TypeOK
<1>8. CASE UNCHANGED vars
  BY <1>8 DEF vars, batchVars, workerVars, ClaimInv
<1>9. ASSUME NEW b \in Batches, NEW f \in Files, pgDeleteEstimate(b, f)
      PROVE  ClaimInv'
  BY <1>9 DEF pgDeleteEstimate, batchVars, workerVars, ClaimInv
<1> QED BY <1>1, <1>2, <1>3, <1>4, <1>5, <1>6, <1>7, <1>8, <1>9 DEF Next

(* As long as workers crash but keep up with their lease, a completed or   *)
(* failed batch keeps its status and its report for ever.                  *)
THEOREM SettledStays == Spec => SettledIsFinal
<1>1. Init => ClaimInv
  BY DEF Init, ClaimInv, Active, Processing
<1> DEFINE Kept(b) == status'[b] = status[b] /\ report'[b] = report[b]
           Final == env \subseteq {"crash"} =>
                      \A b \in Batches : status[b] \in Settled => Kept(b)
<1>2. TypeOK /\ ClaimInv /\ [Next]_vars => Final
  <2> SUFFICES ASSUME TypeOK, ClaimInv, [Next]_vars, env \subseteq {"crash"},
                      NEW c \in Batches, status[c] \in Settled
               PROVE  Kept(c)
    OBVIOUS
  <2> USE BatchAssumption DEF Settled
  <2>1. \A w \in Workers : pc[w] \in Active => job[w] # c
    BY DEF ClaimInv
  <2>2. ASSUME NEW b \in Batches, pgCreateAnalysisBatch(b) \/ LeaseExpires(b)
        PROVE  Kept(c)
    BY <2>2 DEF pgCreateAnalysisBatch, LeaseExpires, TypeOK
  <2>3. ASSUME NEW w \in Workers, pgClaimNextAnalysisBatch(w)
        PROVE  Kept(c)
    BY <2>3 DEF pgClaimNextAnalysisBatch, Claimable, TypeOK
  <2>4. ASSUME NEW w \in Workers, Step(w)
        PROVE  Kept(c)
    <3>1. CASE pgCompleteAnalysisBatch(w)
      BY <2>1, <3>1 DEF pgCompleteAnalysisBatch, CompleteUpdate, Active, Processing, TypeOK
    <3>2. CASE pgFailAnalysisBatch(w)
      BY <2>1, <3>2 DEF pgFailAnalysisBatch, FailUpdate, batchVars, Active, TypeOK
    <3> QED BY <2>4, <3>1, <3>2
        DEF Step, LockAcquired, LockBusy, pgLoadAnalysisBatchFiles, MarkProcessing,
            ensureBatchEstimate, MarkCompleted, LinkRefused, pgTouchAnalysisBatch,
            AnalyzeInput, HeartbeatLost, InputDone, ReleaseLock, batchVars
  <2>5. ASSUME NEW w \in Workers, Error(w)
        PROVE  Kept(c)
    <3>1. CASE LockError(w)
      BY <2>1, <3>1 DEF LockError, FailUpdate, batchVars, Active, TypeOK
    <3>2. CASE CompleteAckLost(w)
      BY <3>2 DEF CompleteAckLost
    <3> QED BY <2>5, <3>1, <3>2
        DEF Error, ClaimReadFails, EnsureFails, ProcessingFails, batchVars
  <2>6. ASSUME NEW w \in Workers,
               pgHeartbeatAnalysisBatch(w) \/ Crash(w) \/ LockConnectionDrops(w)
        PROVE  Kept(c)
    BY <2>6 DEF pgHeartbeatAnalysisBatch, Crash, LockConnectionDrops, batchVars
  <2>7. CASE UNCHANGED vars
    BY <2>7 DEF vars, batchVars
  <2>8. ASSUME NEW b \in Batches, NEW f \in Files, pgDeleteEstimate(b, f)
        PROVE  Kept(c)
    BY <2>8 DEF pgDeleteEstimate, batchVars
  <2> QED BY <2>2, <2>3, <2>4, <2>5, <2>6, <2>7, <2>8 DEF Next
<1>3. TypeOK /\ ClaimInv /\ [Next]_vars => [Final]_vars
  BY <1>2
<1> QED BY <1>1, <1>3, TypeCorrect, ClaimInductive, PTL DEF Spec, SettledIsFinal

-----------------------------------------------------------------------------

(* What a worker has in hand once it has loaded the files: at[w] is the    *)
(* file that comes next until "touch", and is done from then on.           *)
Loaded == Processing \ {"load"}

Passed(w) == IF pc[w] \in {"mark", "ensure", "done"} THEN 1..at[w] - 1
             ELSE IF pc[w] = "touch" THEN 1..at[w]
             ELSE IF pc[w] \in {"ai", "complete"} THEN Files
             ELSE {}

LinksOf(b) ==
    /\ linked[b] \subseteq saved[b]
    /\ report[b] # "none" => Files \subseteq linked[b] \cup deleted[b]

(* The links there are, are links a worker has read or has made since, so  *)
(* that overwriting a link never loses one; and of these only those to a   *)
(* deleted estimate are gone.                                              *)
HandOf(w) ==
    /\ pc[w] \in {"claimed", "load"} => at[w] = 1
    /\ pc[w] \in Loaded =>
        /\ linked[job[w]] \subseteq snap[w] \cup Passed(w)
        /\ snap[w] \cup Passed(w) \subseteq linked[job[w]] \cup deleted[job[w]]

LinkInv ==
    "drop" \notin env =>
        /\ \A b \in Batches : LinksOf(b)
        /\ \A w \in Workers : (pc[w] = "idle" => at[w] = 1) /\ HandOf(w)

(* While workers only crash, the files a worker has passed are completed   *)
(* and those of a completed batch too.                                     *)
DoneOf(b) ==
    status[b] = "completed" =>
        /\ count[b] = FileCount /\ report[b] # "none"
        /\ \A f \in Files : fileStatus[b][f] = "completed"

DoneInv ==
    env \subseteq {"crash"} =>
        /\ \A b \in Batches : DoneOf(b)
        /\ \A w \in Workers : \A f \in Passed(w) : fileStatus[job[w]][f] = "completed"

-----------------------------------------------------------------------------

(* The faults of a behaviour are fixed at its start.                       *)
LEMMA EnvFixed == [Next]_vars => env' = env
BY DEF Next, vars, pgCreateAnalysisBatch, pgDeleteEstimate, LinkRefused, LeaseExpires, pgClaimNextAnalysisBatch, Step,
    Error, LockAcquired, LockBusy, pgLoadAnalysisBatchFiles, MarkProcessing,
    ensureBatchEstimate, MarkCompleted, pgTouchAnalysisBatch, AnalyzeInput,
    HeartbeatLost, InputDone, pgCompleteAnalysisBatch, pgFailAnalysisBatch, ReleaseLock,
    ClaimReadFails, LockError, EnsureFails, ProcessingFails, CompleteAckLost,
    pgHeartbeatAnalysisBatch, Crash, LockConnectionDrops

(* A step of one worker that writes no file, estimate or report.           *)
LEMMA LinkQuiet ==
    ASSUME LinkInv, "drop" \notin env, UNCHANGED <<linked, saved, deleted, report>>,
           NEW w \in Workers,
           \A v \in Workers : v # w =>
               pc'[v] = pc[v] /\ job'[v] = job[v] /\ at'[v] = at[v] /\ snap'[v] = snap[v],
           pc'[w] = "idle" => at'[w] = 1,
           HandOf(w)'
    PROVE  LinkInv'
BY DEF LinkInv, LinksOf, HandOf, Passed, Files

(* A step of the worker that has the lock, and so the batch to itself.     *)
LEMMA LinkWritten ==
    ASSUME LinkInv, MutualExclusion, "drop" \notin env, env' = env,
           NEW w \in Workers, pc[w] \in Locked,
           \A v \in Workers : v # w =>
               pc'[v] = pc[v] /\ job'[v] = job[v] /\ at'[v] = at[v] /\ snap'[v] = snap[v],
           \A b \in Batches : b # job[w] =>
               /\ linked'[b] = linked[b] /\ saved'[b] = saved[b]
               /\ deleted'[b] = deleted[b] /\ report'[b] = report[b],
           TypeOK, pc'[w] # "idle", job'[w] = job[w],
           LinksOf(job[w])', HandOf(w)'
    PROVE  LinkInv'
<1> USE DEF LinkInv, Loaded, Processing, Locked
<1>1. ASSUME NEW b \in Batches PROVE LinksOf(b)'
  BY DEF LinksOf
<1>2. ASSUME NEW v \in Workers, v # w PROVE (pc[v] = "idle" => at[v] = 1)' /\ HandOf(v)'
  <2>1. HandOf(v) /\ (pc[v] = "idle" => at[v] = 1)
    OBVIOUS
  <2>2. UNCHANGED <<pc[v], job[v], at[v], snap[v]>>
    BY <1>2
  <2>3. CASE pc[v] \in Loaded
    <3>1. job[v] # job[w] /\ job[v] \in Batches
      BY <1>2, <2>3 DEF MutualExclusion, TypeOK
    <3> QED BY <2>1, <2>2, <3>1 DEF HandOf, Passed, Files
  <2>4. CASE pc[v] \notin Loaded
    BY <2>1, <2>2, <2>4 DEF HandOf
  <2> QED BY <2>3, <2>4
<1> QED BY <1>1, <1>2

LEMMA PassedAreFiles == TypeOK => \A w \in Workers : Passed(w) \subseteq Files
BY BatchAssumption DEF TypeOK, Passed, Files

(* What pgUpdateBatchFile does to the links, when the worker passes on the *)
(* link it has read and the foreign key lets it: nothing is unlinked.      *)
LinkRewritten(w, b) ==
    /\ linked'[b] = IF at[w] \in snap[w] THEN linked[b] \cup {at[w]} ELSE linked[b]
    /\ linked'[b] \subseteq saved[b] \cup linked[b]
    /\ \A c \in Batches : c # b => linked'[c] = linked[c]
    /\ UNCHANGED saved

LEMMA Rewrite ==
    ASSUME TypeOK, NEW w \in Workers, NEW b \in Batches, at[w] \in 1..FileCount,
           linked[b] \subseteq snap[w] \cup (1..at[w] - 1), NEW st,
           FileUpdate(b, at[w], st, at[w] \in snap[w])
    PROVE  LinkRewritten(w, b)
<1>1. /\ linked' = [linked EXCEPT ![b] = IF at[w] \in snap[w] THEN @ \cup {at[w]}
                                            ELSE @ \ {at[w]}]
      /\ at[w] \in snap[w] => at[w] \in saved[b]
      /\ UNCHANGED saved
  BY DEF FileUpdate
<1>2. at[w] \notin 1..at[w] - 1
  OBVIOUS
<1>3. linked'[b] = IF at[w] \in snap[w] THEN linked[b] \cup {at[w]} ELSE linked[b]
  BY <1>1, <1>2 DEF TypeOK
<1>4. \A c \in Batches : c # b => linked'[c] = linked[c]
  BY <1>1 DEF TypeOK
<1> QED BY <1>1, <1>3, <1>4 DEF LinkRewritten

(* LinkInv is inductive, given the types and the exclusion.                *)
LEMMA LinkInductive ==
    TypeOK /\ TypeOK' /\ MutualExclusion /\ LinkInv /\ [Next]_vars => LinkInv'
<1> SUFFICES ASSUME TypeOK, TypeOK', MutualExclusion, LinkInv, [Next]_vars, "drop" \notin env'
             PROVE  LinkInv'
  BY DEF LinkInv
<1>0. env' = env
  BY EnvFixed
<1> USE <1>0
<1>1. ASSUME UNCHANGED <<linked, saved, deleted, report, workerVars>> PROVE LinkInv'
  BY <1>1 DEF LinkInv, LinksOf, HandOf, Passed, Files, workerVars
<1>2. ASSUME NEW w \in Workers, BackToIdle(w), UNCHANGED <<linked, saved, deleted, report>>
      PROVE  LinkInv'
  BY <1>2, LinkQuiet DEF BackToIdle, Goto, HandOf, Loaded, Processing, TypeOK
<1>3. ASSUME NEW w \in Workers, pgClaimNextAnalysisBatch(w)
      PROVE  LinkInv'
  <2>1. UNCHANGED <<linked, saved, deleted, report, at, snap>> /\ pc[w] = "idle"
    BY <1>3 DEF pgClaimNextAnalysisBatch, fileVars
  <2>2. PICK b \in Batches : job' = [job EXCEPT ![w] = b] /\ pc' = [pc EXCEPT ![w] = "claimed"]
    BY <1>3 DEF pgClaimNextAnalysisBatch, Goto
  <2>3. at[w] = 1
    BY <2>1 DEF LinkInv
  <2>4. pc'[w] = "claimed"
    BY <2>2 DEF TypeOK
  <2> QED BY <2>1, <2>2, <2>3, <2>4, LinkQuiet DEF HandOf, Loaded, Processing, TypeOK
<1>4. ASSUME NEW w \in Workers, pc[w] \in Locked, HandOf(w)', UNCHANGED job,
             pc'[w] # "idle",
             \A v \in Workers : v # w => pc'[v] = pc[v] /\ at'[v] = at[v] /\ snap'[v] = snap[v],
             \/ UNCHANGED <<linked, saved, deleted, report>>
             \/ /\ LinksOf(job[w])'
                /\ \A b \in Batches : b # job[w] =>
                      /\ linked'[b] = linked[b] /\ saved'[b] = saved[b]
                      /\ deleted'[b] = deleted[b] /\ report'[b] = report[b]
      PROVE  LinkInv'
  BY <1>4, LinkQuiet, LinkWritten
<1>5. ASSUME NEW w \in Workers, Step(w)
      PROVE  LinkInv'
  <2> USE DEF Loaded, Processing, Locked, Goto
  <2> DEFINE b == job[w]
  <2>1. CASE LockAcquired(w)
    <3>1. at[w] = 1 /\ pc'[w] = "load" /\ pc[w] = "claimed"
      BY <2>1 DEF LockAcquired, TypeOK, LinkInv, HandOf
    <3> QED BY <2>1, <3>1, LinkQuiet DEF LockAcquired, fileVars, batchVars, HandOf, TypeOK
  <2>2. CASE LockBusy(w) \/ ReleaseLock(w)
    BY <2>2, <1>2 DEF LockBusy, ReleaseLock, fileVars, batchVars
  <2>3. CASE pgLoadAnalysisBatchFiles(w)
    <3>1. at'[w] = 1 /\ pc'[w] = "mark" /\ snap'[w] = linked'[job'[w]]
      BY <2>3 DEF pgLoadAnalysisBatchFiles, LoadedLinks, fileVars, TypeOK, LinkInv, HandOf
    <3>2. HandOf(w)'
      BY <3>1 DEF HandOf, Passed
    <3> QED BY <2>3, <3>1, <3>2, <1>4 DEF pgLoadAnalysisBatchFiles, fileVars, batchVars, TypeOK
  <2>4. CASE MarkProcessing(w)
    <3>1. /\ b \in Batches /\ pc[w] = "mark" /\ pc'[w] = "ensure" /\ at[w] \in 1..FileCount
          /\ linked[b] \subseteq snap[w] \cup (1..at[w] - 1)
          /\ snap[w] \cup (1..at[w] - 1) \subseteq linked[b] \cup deleted[b]
      BY <2>4 DEF MarkProcessing, TypeOK, Files, LinkInv, HandOf, Passed
    <3>2. /\ FileUpdate(b, at[w], "processing", at[w] \in snap[w])
          /\ UNCHANGED <<deleted, report, job, at, snap>>
      BY <2>4 DEF MarkProcessing, batchVars
    <3>3. LinkRewritten(w, b)
      BY <3>1, <3>2, Rewrite
    <3>4. HandOf(w)' /\ LinksOf(b)'
      BY <3>1, <3>2, <3>3 DEF LinkRewritten, HandOf, Passed, LinkInv, LinksOf
    <3> QED BY <2>4, <3>1, <3>2, <3>3, <3>4, <1>4 DEF MarkProcessing, LinkRewritten, TypeOK
  <2>5. CASE ensureBatchEstimate(w)
    <3>1. /\ b \in Batches /\ pc[w] = "ensure" /\ pc'[w] = "done"
          /\ saved' = [saved EXCEPT ![b] = @ \cup {at[w]}]
          /\ UNCHANGED <<linked, deleted, report, job, at, snap>>
      BY <2>5 DEF ensureBatchEstimate, TypeOK, batchVars
    <3>2. HandOf(w)' /\ LinksOf(b)'
      BY <3>1 DEF HandOf, Passed, LinkInv, LinksOf, TypeOK
    <3> QED BY <2>5, <3>1, <3>2, <1>4 DEF ensureBatchEstimate, TypeOK
  <2>6. CASE MarkCompleted(w)
    <3>1. /\ b \in Batches /\ pc[w] = "done" /\ pc'[w] = "touch" /\ at[w] \in 1..FileCount
          /\ linked[b] \subseteq snap[w] \cup (1..at[w] - 1)
          /\ snap[w] \cup (1..at[w] - 1) \subseteq linked[b] \cup deleted[b]
      BY <2>6 DEF MarkCompleted, TypeOK, Files, LinkInv, HandOf, Passed
    <3>2. /\ at[w] \in saved[b]
          /\ linked' = [linked EXCEPT ![b] = @ \cup {at[w]}]
          /\ deleted' = [deleted EXCEPT ![b] = @ \ {at[w]}]
          /\ UNCHANGED <<saved, report, job, at, snap>>
      BY <2>6 DEF MarkCompleted, FileUpdate, batchVars
    <3>3. linked'[b] = linked[b] \cup {at[w]} /\ deleted'[b] = deleted[b] \ {at[w]}
      BY <3>1, <3>2 DEF TypeOK
    <3>4. 1..at[w] = (1..at[w] - 1) \cup {at[w]}
      BY <3>1
    <3>5. HandOf(w)'
      <4>1. /\ linked'[b] \subseteq snap[w] \cup (1..at[w])
            /\ snap[w] \cup (1..at[w]) \subseteq linked'[b] \cup deleted'[b]
        BY <3>1, <3>3, <3>4
      <4> QED BY <3>1, <3>2, <4>1 DEF HandOf, Passed
    <3>6. LinksOf(b)'
      <4>1. /\ linked[b] \subseteq saved[b]
            /\ report[b] # "none" => Files \subseteq linked[b] \cup deleted[b]
        BY <3>1 DEF LinkInv, LinksOf
      <4> QED BY <3>2, <3>3, <4>1 DEF LinksOf
    <3>7. \A c \in Batches : c # b => linked'[c] = linked[c] /\ deleted'[c] = deleted[c]
      BY <3>2 DEF TypeOK
    <3> QED BY <2>6, <3>1, <3>2, <3>5, <3>6, <3>7, <1>4 DEF MarkCompleted, TypeOK
  <2>11. CASE LinkRefused(w)
    BY <2>11, <1>4 DEF LinkRefused, batchVars, fileVars, HandOf, TypeOK
  <2>7. CASE pgTouchAnalysisBatch(w)
    <3>1. /\ b \in Batches /\ pc[w] = "touch" /\ at[w] \in 1..FileCount
          /\ linked[b] \subseteq snap[w] \cup (1..at[w])
          /\ snap[w] \cup (1..at[w]) \subseteq linked[b] \cup deleted[b]
          /\ UNCHANGED <<linked, saved, deleted, report, job, snap>>
      BY <2>7 DEF pgTouchAnalysisBatch, TypeOK, Files, LinkInv, HandOf, Passed, fileVars
    <3>2. CASE LastFile(w)
      <4>1. pc' = [pc EXCEPT ![w] = "ai"] /\ at' = [at EXCEPT ![w] = 1] /\ at[w] = FileCount
        BY <2>7, <3>2 DEF pgTouchAnalysisBatch, LastFile
      <4>2. HandOf(w)'
        BY <3>1, <4>1 DEF HandOf, Passed, Files, TypeOK
      <4> QED BY <3>1, <4>1, <4>2, <1>4 DEF TypeOK
    <3>3. CASE ~LastFile(w)
      <4>1. pc' = [pc EXCEPT ![w] = "mark"] /\ at' = [at EXCEPT ![w] = at[w] + 1]
        BY <2>7, <3>3 DEF pgTouchAnalysisBatch
      <4>2. pc'[w] = "mark" /\ at'[w] = at[w] + 1 /\ at'[w] - 1 = at[w]
        BY <3>1, <4>1 DEF TypeOK
      <4>3. HandOf(w)'
        BY <3>1, <4>2 DEF HandOf, Passed
      <4> QED BY <3>1, <4>1, <4>3, <1>4 DEF TypeOK
    <3> QED BY <3>2, <3>3
  <2>8. CASE AnalyzeInput(w) \/ HeartbeatLost(w)
    <3>1. PICK answered \in BOOLEAN : pc[w] = "ai" /\ InputDone(w, answered)
      BY <2>8 DEF AnalyzeInput, HeartbeatLost
    <3>2. /\ UNCHANGED <<linked, saved, deleted, report, job, snap>>
          /\ pc'[w] \in {"ai", "complete"}
          /\ \A v \in Workers : v # w => pc'[v] = pc[v] /\ at'[v] = at[v]
      BY <3>1 DEF InputDone, fileVars, batchVars, TypeOK
    <3>3. HandOf(w)'
      BY <3>1, <3>2 DEF HandOf, Passed, Files, LinkInv
    <3> QED BY <3>1, <3>2, <3>3, <1>4
  <2>9. CASE pgCompleteAnalysisBatch(w)
    <3>1. /\ pc[w] = "complete" /\ pc'[w] = "release" /\ UNCHANGED <<linked, saved, deleted, job, at, snap>>
          /\ report' = [report EXCEPT ![b] = quality[w]]
      BY <2>9 DEF pgCompleteAnalysisBatch, CompleteUpdate, fileVars, TypeOK
    <3>2. b \in Batches /\ LinksOf(b)
      BY <3>1 DEF LinkInv, TypeOK
    <3>3. Files \subseteq linked[b] \cup deleted[b]
      BY <3>1 DEF LinkInv, HandOf, Passed
    <3> QED BY <2>9, <3>1, <3>2, <3>3, <1>4 DEF pgCompleteAnalysisBatch, HandOf, LinksOf, TypeOK
  <2>10. CASE pgFailAnalysisBatch(w)
    BY <2>10, <1>4 DEF pgFailAnalysisBatch, FailUpdate, batchVars, fileVars, HandOf, TypeOK
  <2> QED BY <1>5, <2>1, <2>2, <2>3, <2>4, <2>5, <2>6, <2>7, <2>8, <2>9, <2>10, <2>11
           DEF Step
<1>6. ASSUME NEW w \in Workers, Error(w)
      PROVE  LinkInv'
  <2> USE DEF Loaded, Processing, Locked, Goto
  <2> DEFINE b == job[w]
  <2>1. CASE ClaimReadFails(w) \/ LockError(w)
    BY <2>1, <1>2 DEF ClaimReadFails, LockError, FailUpdate, fileVars, batchVars
  <2>2. CASE EnsureFails(w)
    <3>1. /\ b \in Batches /\ pc[w] = "ensure" /\ pc'[w] = "fail" /\ at[w] \in 1..FileCount
          /\ linked[b] \subseteq snap[w] \cup (1..at[w] - 1)
          /\ snap[w] \cup (1..at[w] - 1) \subseteq linked[b] \cup deleted[b]
          /\ UNCHANGED <<report, job, at, snap>>
      BY <2>2 DEF EnsureFails, TypeOK, Files, LinkInv, HandOf, Passed, batchVars
    <3>2. CASE FileUpdate(b, at[w], "failed", at[w] \in snap[w]) /\ UNCHANGED deleted
      <4>1. LinkRewritten(w, b)
        BY <3>1, <3>2, Rewrite
      <4>2. HandOf(w)' /\ LinksOf(b)'
        BY <3>1, <3>2, <4>1 DEF LinkRewritten, HandOf, LinkInv, LinksOf
      <4> QED BY <2>2, <3>1, <3>2, <4>1, <4>2, <1>4 DEF EnsureFails, LinkRewritten, TypeOK
    <3>3. CASE UNCHANGED fileVars
      BY <2>2, <3>1, <3>3, <1>4 DEF EnsureFails, batchVars, fileVars, HandOf, TypeOK
    <3> QED BY <2>2, <3>2, <3>3 DEF EnsureFails
  <2>3. CASE ProcessingFails(w)
    BY <2>3, <1>4 DEF ProcessingFails, batchVars, fileVars, HandOf, TypeOK
  <2>4. CASE CompleteAckLost(w)
    <3>1. /\ pc[w] = "complete" /\ pc'[w] = "fail" /\ UNCHANGED <<linked, saved, deleted, job, at, snap>>
          /\ report' = [report EXCEPT ![b] = quality[w]]
      BY <2>4 DEF CompleteAckLost, CompleteUpdate, fileVars, TypeOK
    <3>2. b \in Batches /\ LinksOf(b)
      BY <3>1 DEF LinkInv, TypeOK
    <3>3. Files \subseteq linked[b] \cup deleted[b]
      BY <3>1 DEF LinkInv, HandOf, Passed
    <3> QED BY <2>4, <3>1, <3>2, <3>3, <1>4 DEF CompleteAckLost, HandOf, LinksOf, TypeOK
  <2> QED BY <1>6, <2>1, <2>2, <2>3, <2>4 DEF Error
<1>7. ASSUME NEW w \in Workers,
             pgHeartbeatAnalysisBatch(w) \/ Crash(w) \/ LockConnectionDrops(w)
      PROVE  LinkInv'
  BY <1>1, <1>2, <1>7 DEF pgHeartbeatAnalysisBatch, Crash, LockConnectionDrops, fileVars, batchVars
<1>10. ASSUME NEW b \in Batches, NEW f \in Files, pgDeleteEstimate(b, f)
       PROVE  LinkInv'
  <2>1. /\ linked' = [linked EXCEPT ![b] = @ \ {f}]
        /\ saved' = [saved EXCEPT ![b] = @ \ {f}]
        /\ deleted' = [deleted EXCEPT ![b] = @ \cup {f}]
        /\ UNCHANGED <<report, pc, job, at, snap>>
    BY <1>10 DEF pgDeleteEstimate, batchVars, workerVars
  <2>2. \A c \in Batches :
            /\ linked'[c] = IF c = b THEN linked[c] \ {f} ELSE linked[c]
            /\ saved'[c] = IF c = b THEN saved[c] \ {f} ELSE saved[c]
            /\ deleted'[c] = IF c = b THEN deleted[c] \cup {f} ELSE deleted[c]
    BY <2>1 DEF TypeOK
  <2>3. ASSUME NEW c \in Batches PROVE LinksOf(c)'
    <3>1. /\ linked[c] \subseteq saved[c]
          /\ report[c] # "none" => Files \subseteq linked[c] \cup deleted[c]
      BY DEF LinkInv, LinksOf
    <3>2. linked'[c] \subseteq saved'[c]
      BY <2>2, <3>1
    <3>3. Files \subseteq linked[c] \cup deleted[c] => Files \subseteq linked'[c] \cup deleted'[c]
      BY <2>2
    <3>4. report' = report
      BY <2>1
    <3> QED BY <3>1, <3>2, <3>3, <3>4 DEF LinksOf
  <2>4. ASSUME NEW w \in Workers PROVE HandOf(w)' /\ (pc[w] = "idle" => at[w] = 1)'
    <3>1. Passed(w)' = Passed(w)
      BY <2>1 DEF Passed, Files
    <3>2. HandOf(w) /\ (pc[w] = "idle" => at[w] = 1)
      BY DEF LinkInv
    <3>3. pc[w] \in Loaded => job[w] \in Batches
      BY DEF TypeOK, Loaded, Processing
    <3>4. pc[w] \in Loaded =>
            /\ linked'[job[w]] \subseteq snap[w] \cup Passed(w)
            /\ snap[w] \cup Passed(w) \subseteq linked'[job[w]] \cup deleted'[job[w]]
      BY <2>2, <3>2, <3>3 DEF HandOf
    <3> QED BY <2>1, <3>1, <3>2, <3>4 DEF HandOf
  <2> QED BY <2>3, <2>4 DEF LinkInv
<1>8. ASSUME NEW b \in Batches, pgCreateAnalysisBatch(b) \/ LeaseExpires(b)
      PROVE  LinkInv'
  BY <1>1, <1>8 DEF pgCreateAnalysisBatch, LeaseExpires, fileVars
<1>9. CASE UNCHANGED vars
  BY <1>1, <1>9 DEF vars, fileVars, batchVars
<1> QED BY <1>3, <1>5, <1>6, <1>7, <1>8, <1>9, <1>10 DEF Next

LEMMA LinksInvariant == Spec => []LinkInv
<1>1. Init => LinkInv
  BY DEF Init, LinkInv, LinksOf, HandOf, Loaded, Processing
<1> QED BY <1>1, LinkInductive, TypeCorrect, Exclusion, PTL DEF Spec

(* pgUpdateBatchFile overwrites estimate_id, yet no link to an estimate    *)
(* that is there is ever lost, as long as no lock connection is: however   *)
(* often attempts are repeated and whatever the owner deletes.             *)
THEOREM LinksKept == Spec => EstimateLinksKept
<1> DEFINE Grow == "drop" \notin env => \A b \in Batches : linked[b] \cap saved'[b] \subseteq linked'[b]
<1>1. TypeOK /\ LinkInv /\ [Next]_vars => Grow
  <2> SUFFICES ASSUME TypeOK, LinkInv, [Next]_vars, "drop" \notin env,
                      NEW b \in Batches
               PROVE  linked[b] \cap saved'[b] \subseteq linked'[b]
    OBVIOUS
  <2> USE DEF Loaded, Processing
  <2>1. ASSUME NEW w \in Workers, EnsureFails(w) \/ MarkProcessing(w)
        PROVE  linked[b] \cap saved'[b] \subseteq linked'[b]
    <3>1. /\ pc[w] \in {"mark", "ensure"} /\ job[w] \in Batches /\ at[w] \in 1..FileCount
          /\ \/ \E st \in {"processing", "failed"} :
                   FileUpdate(job[w], at[w], st, at[w] \in snap[w])
             \/ linked' = linked
      BY <2>1 DEF EnsureFails, MarkProcessing, TypeOK, Files, fileVars
    <3>2. linked[job[w]] \subseteq snap[w] \cup (1..at[w] - 1)
      BY <3>1 DEF LinkInv, HandOf, Passed
    <3>3. linked' = linked \/ LinkRewritten(w, job[w])
      BY <3>1, <3>2, Rewrite
    <3> QED BY <3>3 DEF LinkRewritten
  <2>2. ASSUME NEW w \in Workers, MarkCompleted(w)
        PROVE  linked[b] \cap saved'[b] \subseteq linked'[b]
    BY <2>2 DEF MarkCompleted, FileUpdate, TypeOK
  <2>3. ASSUME NEW w \in Workers, Step(w) \/ Error(w)
        PROVE  linked[b] \cap saved'[b] \subseteq linked'[b]
    BY <2>1, <2>2, <2>3
       DEF Step, Error, LinkRefused, LockAcquired, LockBusy, pgLoadAnalysisBatchFiles,
           ensureBatchEstimate, pgTouchAnalysisBatch, AnalyzeInput, HeartbeatLost,
           InputDone, pgCompleteAnalysisBatch, pgFailAnalysisBatch, ReleaseLock,
           ClaimReadFails, LockError, ProcessingFails, CompleteAckLost, fileVars
  <2>7. ASSUME NEW c \in Batches, NEW f \in Files, pgDeleteEstimate(c, f)
        PROVE  linked[b] \cap saved'[b] \subseteq linked'[b]
    BY <2>7 DEF pgDeleteEstimate, TypeOK
  <2>4. ASSUME NEW c \in Batches, pgCreateAnalysisBatch(c) \/ LeaseExpires(c)
        PROVE  linked' = linked
    BY <2>4 DEF pgCreateAnalysisBatch, LeaseExpires, fileVars
  <2>5. ASSUME NEW w \in Workers,
               \/ pgClaimNextAnalysisBatch(w) \/ pgHeartbeatAnalysisBatch(w)
               \/ Crash(w) \/ LockConnectionDrops(w)
        PROVE  linked' = linked
    BY <2>5 DEF pgClaimNextAnalysisBatch, pgHeartbeatAnalysisBatch, Crash,
                LockConnectionDrops, fileVars
  <2>6. CASE UNCHANGED vars
    BY <2>6 DEF vars, fileVars
  <2> QED BY <2>3, <2>4, <2>5, <2>6, <2>7 DEF Next
<1>2. TypeOK /\ LinkInv /\ [Next]_vars => [Grow]_vars
  BY <1>1
<1> QED BY <1>2, TypeCorrect, LinksInvariant, PTL DEF Spec, EstimateLinksKept

-----------------------------------------------------------------------------

(* A step of a worker that has the batch to itself: what it does to other  *)
(* batches is nothing.                                                     *)
LEMMA DoneWritten ==
    ASSUME TypeOK, ClaimInv, DoneInv, env \subseteq {"crash"}, NEW w \in Workers,
           pc[w] \in Active,
           \A v \in Workers : v # w => pc'[v] = pc[v] /\ job'[v] = job[v] /\ at'[v] = at[v],
           \A b \in Batches : b # job[w] =>
               /\ status'[b] = status[b] /\ count'[b] = count[b] /\ report'[b] = report[b]
               /\ fileStatus'[b] = fileStatus[b],
           NEW j \in Batches, j = job[w], DoneOf(j)',
           \A f \in Passed(w)' : fileStatus'[job'[w]][f] = "completed"
    PROVE  DoneInv'
<1>1. ASSUME NEW b \in Batches PROVE DoneOf(b)'
  BY DEF DoneInv, DoneOf
<1>2. ASSUME NEW v \in Workers, v # w, NEW f \in Passed(v)'
      PROVE  fileStatus'[job'[v]][f] = "completed"
  <2>1. f \in Passed(v)
    BY <1>2 DEF Passed, Files
  <2>2. pc[v] \in Active
    BY <2>1 DEF Passed, Active, Processing
  <2>3. job[v] # job[w] /\ job[v] \in Batches
    BY <1>2, <2>2 DEF ClaimInv, TypeOK, Active, Processing
  <2> QED BY <1>2, <2>1, <2>3 DEF DoneInv
<1> QED BY <1>1, <1>2 DEF DoneInv

(* A step that writes no batch and no file status, and takes no worker on. *)
LEMMA DoneQuiet ==
    ASSUME DoneInv, env' = env, UNCHANGED <<status, count, report, fileStatus>>,
           \A v \in Workers : \/ pc'[v] \notin Loaded
                              \/ UNCHANGED <<pc[v], job[v], at[v]>>
    PROVE  DoneInv'
BY DEF DoneInv, DoneOf, Passed, Files, Loaded, Processing

(* DoneInv is inductive, given the types, the claims and the links.        *)
LEMMA DoneInductive ==
    TypeOK /\ ClaimInv /\ LinkInv /\ DoneInv /\ [Next]_vars => DoneInv'
<1> SUFFICES ASSUME TypeOK, ClaimInv, LinkInv, DoneInv, [Next]_vars, env' \subseteq {"crash"}
             PROVE  DoneInv'
  BY DEF DoneInv
<1>0. env' = env
  BY EnvFixed
<1> USE <1>0 DEF Loaded, Processing, Active, Goto
<1>1. ASSUME NEW b \in Batches, pgCreateAnalysisBatch(b) \/ LeaseExpires(b)
      PROVE  DoneInv'
  <2>1. CASE LeaseExpires(b)
    BY <2>1, DoneQuiet DEF LeaseExpires, fileVars, workerVars
  <2>2. CASE pgCreateAnalysisBatch(b)
    <3>1. status'[b] # "completed" /\ \A c \in Batches : c # b => status'[c] = status[c]
      BY <2>2 DEF pgCreateAnalysisBatch, TypeOK
    <3>2. UNCHANGED <<count, report, fileStatus, pc, job, at>>
      BY <2>2 DEF pgCreateAnalysisBatch, fileVars, workerVars
    <3> QED BY <3>1, <3>2 DEF DoneInv, DoneOf, Passed, Files
  <2> QED BY <1>1, <2>1, <2>2
<1>2. ASSUME NEW w \in Workers, pgClaimNextAnalysisBatch(w)
      PROVE  DoneInv'
  <2>1. PICK b \in Batches : /\ status' = [status EXCEPT ![b] = "processing"]
                             /\ job' = [job EXCEPT ![w] = b]
                             /\ pc' = [pc EXCEPT ![w] = "claimed"]
    BY <1>2, Zenon DEF pgClaimNextAnalysisBatch, Goto
  <2>2. UNCHANGED <<count, report, fileStatus, at>>
    BY <1>2 DEF pgClaimNextAnalysisBatch, fileVars
  <2>3. ASSUME NEW c \in Batches PROVE DoneOf(c)'
    BY <2>1, <2>2 DEF DoneInv, DoneOf, TypeOK
  <2>4. ASSUME NEW v \in Workers, NEW f \in Passed(v)'
        PROVE  fileStatus'[job'[v]][f] = "completed"
    <3>1. v # w
      BY <2>1, <2>4 DEF Passed, TypeOK
    <3>2. pc'[v] = pc[v] /\ job'[v] = job[v] /\ f \in Passed(v)
      BY <2>1, <2>2, <2>4, <3>1 DEF Passed, Files
    <3> QED BY <2>2, <3>2 DEF DoneInv
  <2> QED BY <2>3, <2>4 DEF DoneInv
<1>3. ASSUME NEW w \in Workers, BackToIdle(w), UNCHANGED <<status, count, report, fileStatus>>
      PROVE  DoneInv'
  BY <1>3, DoneQuiet DEF BackToIdle, TypeOK
<1>4. ASSUME NEW w \in Workers, FailUpdate(job[w]), pc[w] \in Active, UNCHANGED fileStatus,
             pc'[w] \notin Loaded,
             \A v \in Workers : v # w => pc'[v] = pc[v] /\ job'[v] = job[v] /\ at'[v] = at[v]
      PROVE  DoneInv'
  <2>1. job[w] \in Batches
    BY <1>4 DEF TypeOK
  <2>2. status'[job[w]] # "completed"
    BY <1>4, <2>1 DEF FailUpdate, StatusAfterFailure, TypeOK
  <2>3. \A b \in Batches : b # job[w] =>
            /\ status'[b] = status[b] /\ count'[b] = count[b] /\ report'[b] = report[b]
            /\ fileStatus'[b] = fileStatus[b]
    BY <1>4 DEF FailUpdate, TypeOK
  <2>5. Passed(w)' = {}
    BY <1>4 DEF Passed
  <2> QED BY <1>4, <2>1, <2>2, <2>3, <2>5, DoneWritten DEF DoneOf
(* What is left of a batch's worker: it writes the status of one file, or  *)
(* completes the batch, or goes on with the next file.                     *)
<1>5. ASSUME NEW w \in Workers, pc[w] \in Loaded, UNCHANGED <<status, report, job>>,
             \A b \in Batches : b # job[w] =>
                 count'[b] = count[b] /\ fileStatus'[b] = fileStatus[b],
             \A v \in Workers : v # w => pc'[v] = pc[v] /\ at'[v] = at[v],
             \A f \in Passed(w)' : fileStatus'[job[w]][f] = "completed"
      PROVE  DoneInv'
  <2>1. job[w] \in Batches /\ status[job[w]] = "processing"
    BY <1>5 DEF TypeOK, ClaimInv
  <2> QED BY <1>5, <2>1, DoneWritten DEF DoneOf
<1>6. ASSUME NEW w \in Workers, Step(w)
      PROVE  DoneInv'
  <2> DEFINE b == job[w]
  <2>1. CASE LockAcquired(w) \/ pgLoadAnalysisBatchFiles(w)
    <3>1. CASE LockAcquired(w)
      BY <3>1, DoneQuiet DEF LockAcquired, fileVars, batchVars, TypeOK
    <3>2. CASE pgLoadAnalysisBatchFiles(w)
      <4>1. pc[w] = "load" /\ pc'[w] = "mark" /\ at[w] = 1
        BY <3>2 DEF pgLoadAnalysisBatchFiles, TypeOK, LinkInv, HandOf
      <4>2. UNCHANGED <<status, count, report, fileStatus, job, at>>
            /\ \A v \in Workers : v # w => pc'[v] = pc[v]
        BY <3>2 DEF pgLoadAnalysisBatchFiles, fileVars, batchVars
      <4>3. Passed(w)' = {}
        BY <4>1, <4>2 DEF Passed
      <4>4. \A v \in Workers : v # w => Passed(v)' = Passed(v)
        BY <4>2 DEF Passed, Files
      <4> QED BY <4>2, <4>3, <4>4 DEF DoneInv, DoneOf
    <3> QED BY <2>1, <3>1, <3>2
  <2>2. CASE LockBusy(w) \/ ReleaseLock(w)
    BY <2>2, <1>3 DEF LockBusy, ReleaseLock, fileVars, batchVars
  <2>3. CASE MarkProcessing(w)
    <3>1. /\ b \in Batches /\ pc[w] = "mark" /\ pc'[w] = "ensure" /\ at[w] \in 1..FileCount
          /\ UNCHANGED <<status, report, count, job, at>>
          /\ \A v \in Workers : v # w => pc'[v] = pc[v]
          /\ fileStatus' = [fileStatus EXCEPT ![b][at[w]] = "processing"]
      BY <2>3 DEF MarkProcessing, FileUpdate, batchVars, TypeOK, Files
    <3>2. ASSUME NEW f \in Passed(w)'
          PROVE  fileStatus'[b][f] = "completed"
      <4>1. f \in Passed(w) /\ f # at[w]
        BY <3>1, <3>2 DEF Passed
      <4> QED BY <3>1, <4>1, PassedAreFiles DEF DoneInv, TypeOK
    <3>3. \A c \in Batches : c # b => fileStatus'[c] = fileStatus[c]
      BY <3>1 DEF TypeOK
    <3> QED BY <3>1, <3>2, <3>3, <1>5
  <2>4. CASE ensureBatchEstimate(w)
    <3>1. /\ pc[w] = "ensure" /\ pc'[w] = "done"
          /\ UNCHANGED <<status, report, count, job, at, fileStatus>>
          /\ \A v \in Workers : v # w => pc'[v] = pc[v]
      BY <2>4 DEF ensureBatchEstimate, batchVars, TypeOK
    <3>2. Passed(w)' = Passed(w)
      BY <3>1 DEF Passed
    <3> QED BY <3>1, <3>2, <1>5 DEF DoneInv
  <2>5. CASE MarkCompleted(w)
    <3>1. /\ b \in Batches /\ pc[w] = "done" /\ pc'[w] = "touch" /\ at[w] \in 1..FileCount
          /\ UNCHANGED <<status, report, count, job, at>>
          /\ \A v \in Workers : v # w => pc'[v] = pc[v]
          /\ fileStatus' = [fileStatus EXCEPT ![b][at[w]] = "completed"]
      BY <2>5 DEF MarkCompleted, FileUpdate, batchVars, TypeOK, Files
    <3>2. ASSUME NEW f \in Passed(w)'
          PROVE  fileStatus'[b][f] = "completed"
      <4>0. Passed(w)' = 1..at[w] /\ Passed(w) = 1..at[w] - 1
        BY <3>1 DEF Passed
      <4>1. f \in Files /\ (f = at[w] \/ f \in Passed(w))
        BY <3>1, <3>2, <4>0, BatchAssumption DEF Files
      <4>2. f # at[w] => fileStatus[b][f] = "completed"
        BY <4>1 DEF DoneInv
      <4>3. fileStatus'[b] = [fileStatus[b] EXCEPT ![at[w]] = "completed"]
        BY <3>1 DEF TypeOK
      <4>4. DOMAIN fileStatus[b] = Files
        BY <3>1 DEF TypeOK
      <4> QED BY <4>1, <4>2, <4>3, <4>4
    <3>3. \A c \in Batches : c # b => fileStatus'[c] = fileStatus[c]
      BY <3>1 DEF TypeOK
    <3> QED BY <3>1, <3>2, <3>3, <1>5
  <2>6. CASE pgTouchAnalysisBatch(w)
    <3>1. /\ pc[w] = "touch" /\ at[w] \in 1..FileCount /\ b \in Batches
          /\ UNCHANGED <<status, report, job, fileStatus>>
          /\ \A c \in Batches : c # b => count'[c] = count[c]
          /\ \A v \in Workers : v # w => pc'[v] = pc[v] /\ at'[v] = at[v]
      BY <2>6 DEF pgTouchAnalysisBatch, fileVars, TypeOK, Files
    <3>2. \/ at[w] = FileCount /\ pc'[w] = "ai"
          \/ at'[w] = at[w] + 1 /\ pc'[w] = "mark"
      BY <2>6 DEF pgTouchAnalysisBatch, LastFile, TypeOK
    <3>3. Passed(w)' = Passed(w)
      BY <3>1, <3>2 DEF Passed, Files
    <3> QED BY <3>1, <3>3, <1>5 DEF DoneInv
  <2>7. CASE AnalyzeInput(w) \/ HeartbeatLost(w)
    <3>1. PICK answered \in BOOLEAN : pc[w] = "ai" /\ InputDone(w, answered)
      BY <2>7 DEF AnalyzeInput, HeartbeatLost
    <3>2. /\ UNCHANGED <<status, report, count, job, fileStatus>>
          /\ pc'[w] \in {"ai", "complete"}
          /\ \A v \in Workers : v # w => pc'[v] = pc[v] /\ at'[v] = at[v]
      BY <3>1 DEF InputDone, fileVars, batchVars, TypeOK
    <3>3. Passed(w)' = Passed(w)
      BY <3>1, <3>2 DEF Passed, Files
    <3> QED BY <3>1, <3>2, <3>3, <1>5 DEF DoneInv
  <2>8. CASE pgCompleteAnalysisBatch(w)
    <3>1. /\ pc[w] = "complete" /\ pc'[w] = "release" /\ b \in Batches
          /\ UNCHANGED <<fileStatus, job, at>>
          /\ CompleteUpdate(b, quality[w]) /\ quality[w] \in {"ai", "rules"}
          /\ \A v \in Workers : v # w => pc'[v] = pc[v]
      BY <2>8 DEF pgCompleteAnalysisBatch, fileVars, TypeOK
    <3>2. \A f \in Files : fileStatus[b][f] = "completed"
      BY <3>1 DEF DoneInv, Passed
    <3>3. DoneOf(b)'
      BY <3>1, <3>2 DEF CompleteUpdate, DoneOf, TypeOK
    <3>4. \A c \in Batches : c # b =>
              status'[c] = status[c] /\ count'[c] = count[c] /\ report'[c] = report[c]
      BY <3>1 DEF CompleteUpdate, TypeOK
    <3>5. Passed(w)' = {}
      BY <3>1 DEF Passed
    <3> QED BY <3>1, <3>3, <3>4, <3>5, DoneWritten
  <2>9. CASE pgFailAnalysisBatch(w)
    <3>1. CASE FailUpdate(job[w])
      BY <2>9, <3>1, <1>4 DEF pgFailAnalysisBatch, fileVars, TypeOK
    <3>2. CASE UNCHANGED batchVars
      BY <2>9, <3>2, DoneQuiet DEF pgFailAnalysisBatch, fileVars, batchVars, TypeOK
    <3> QED BY <2>9, <3>1, <3>2 DEF pgFailAnalysisBatch
  <2>10. CASE LinkRefused(w)
    BY <2>10, DoneQuiet DEF LinkRefused, fileVars, batchVars, TypeOK
  <2> QED BY <1>6, <2>1, <2>2, <2>3, <2>4, <2>5, <2>6, <2>7, <2>8, <2>9, <2>10 DEF Step
<1>7. ASSUME NEW w \in Workers, Error(w)
      PROVE  DoneInv'
  <2>1. CASE ClaimReadFails(w)
    BY <2>1, <1>3 DEF ClaimReadFails, fileVars, batchVars
  <2>2. CASE LockError(w)
    <3>1. CASE FailUpdate(job[w])
      BY <2>2, <3>1, <1>4 DEF LockError, BackToIdle, fileVars, TypeOK
    <3>2. CASE UNCHANGED batchVars
      BY <2>2, <3>2, <1>3 DEF LockError, fileVars, batchVars
    <3> QED BY <2>2, <3>1, <3>2 DEF LockError
  <2>3. CASE EnsureFails(w)
    <3>1. /\ pc[w] = "ensure" /\ pc'[w] = "fail" /\ UNCHANGED <<status, report, count, job, at>>
          /\ \A v \in Workers : v # w => pc'[v] = pc[v]
          /\ \A c \in Batches : c # job[w] => fileStatus'[c] = fileStatus[c]
      BY <2>3 DEF EnsureFails, FileUpdate, fileVars, batchVars, TypeOK
    <3>2. Passed(w)' = {}
      BY <3>1 DEF Passed
    <3> QED BY <3>1, <3>2, <1>5
  <2>4. CASE ProcessingFails(w)
    BY <2>4, DoneQuiet DEF ProcessingFails, fileVars, batchVars, TypeOK
  <2>5. CASE CompleteAckLost(w)
    BY <2>5 DEF CompleteAckLost
  <2> QED BY <1>7, <2>1, <2>2, <2>3, <2>4, <2>5 DEF Error
<1>8. ASSUME NEW w \in Workers,
             pgHeartbeatAnalysisBatch(w) \/ Crash(w) \/ LockConnectionDrops(w)
      PROVE  DoneInv'
  BY <1>3, <1>8, DoneQuiet
     DEF pgHeartbeatAnalysisBatch, Crash, LockConnectionDrops, fileVars, batchVars, workerVars
<1>9. CASE UNCHANGED vars
  BY <1>9, DoneQuiet DEF vars, fileVars, batchVars, workerVars
<1>10. ASSUME NEW b \in Batches, NEW f \in Files, pgDeleteEstimate(b, f)
       PROVE  DoneInv'
  BY <1>10, DoneQuiet DEF pgDeleteEstimate, batchVars, workerVars
<1> QED BY <1>1, <1>2, <1>6, <1>7, <1>8, <1>9, <1>10 DEF Next

(* A stored report describes estimates that exist and are linked, but for  *)
(* those the owner has deleted, as long as no lock connection is lost; and while workers only crash a completed *)
(* batch has been worked through, whatever was tried before.               *)
THEOREM ReportsAreWhole == Spec => []ReportHasItsEstimates
<1>1. Init => ClaimInv /\ DoneInv
  BY DEF Init, ClaimInv, DoneInv, DoneOf, Passed, Active, Processing
<1>2. TypeOK /\ LinkInv /\ DoneInv => ReportHasItsEstimates
  <2> SUFFICES ASSUME TypeOK, LinkInv, DoneInv, NEW b \in Batches
               PROVE  /\ "drop" \notin env /\ report[b] # "none" =>
                            /\ Files \ deleted[b] \subseteq linked[b]
                            /\ linked[b] \subseteq saved[b]
                      /\ env \subseteq {"crash"} /\ status[b] = "completed" =>
                            /\ count[b] = FileCount /\ report[b] # "none"
                            /\ \A f \in Files : fileStatus[b][f] = "completed"
    BY DEF ReportHasItsEstimates
  <2>1. "drop" \notin env => LinksOf(b)
    BY DEF LinkInv
  <2>3. env \subseteq {"crash"} => DoneOf(b)
    BY DEF DoneInv
  <2> QED BY <2>1, <2>3 DEF LinksOf, DoneOf
<1> QED BY <1>1, <1>2, TypeCorrect, LinksInvariant, ClaimInductive, DoneInductive, PTL
        DEF Spec

-----------------------------------------------------------------------------

(* With one active worker at most on each batch, runnerOf needs no choice. *)
RunnerKnown ==
    /\ runnerOf \in [Batches -> Workers \cup {None}]
    /\ \A b \in Batches, w \in Workers : runnerOf[b] = w <=> Runs(w, b)

LEMMA Runner == TypeOK /\ ClaimInv /\ env \subseteq {"crash"} => RunnerKnown
<1> SUFFICES ASSUME TypeOK, ClaimInv, env \subseteq {"crash"}, NEW b \in Batches
             PROVE  /\ runnerOf[b] \in Workers \cup {None}
                    /\ \A w \in Workers : runnerOf[b] = w <=> Runs(w, b)
  BY DEF RunnerKnown, runnerOf
<1>1. CASE \E w \in Workers : Runs(w, b)
  <2>1. runnerOf[b] = CHOOSE w \in Workers : Runs(w, b)
    BY <1>1 DEF runnerOf
  <2>2. runnerOf[b] \in Workers /\ Runs(runnerOf[b], b)
    BY <1>1, <2>1
  <2>3. \A w \in Workers : Runs(w, b) => w = runnerOf[b]
    BY <2>2 DEF Runs, ClaimInv, Active
  <2> QED BY <2>2, <2>3
<1>2. CASE ~\E w \in Workers : Runs(w, b)
  BY <1>2, BatchAssumption DEF runnerOf
<1> QED BY <1>1, <1>2

LEMMA RunnerNext == TypeOK' /\ ClaimInv' /\ (env \subseteq {"crash"})' => RunnerKnown'
BY Runner, PTL

(* What a step does to the runners: nothing, it gives one batch a runner,  *)
(* or it takes the runner from one.                                        *)
LEMMA SameRunners ==
    ASSUME RunnerKnown, RunnerKnown',
           \A w \in Workers, b \in Batches : Runs(w, b)' <=> Runs(w, b)
    PROVE  runnerOf' = runnerOf
<1>1. ASSUME NEW b \in Batches PROVE runnerOf'[b] = runnerOf[b]
  BY BatchAssumption DEF RunnerKnown
<1> QED BY <1>1 DEF RunnerKnown

LEMMA RunnerStarts ==
    ASSUME RunnerKnown, RunnerKnown', NEW j \in Batches, NEW u \in Workers, Runs(u, j)',
           \A w \in Workers, b \in Batches : b # j => (Runs(w, b)' <=> Runs(w, b))
    PROVE  runnerOf' = [runnerOf EXCEPT ![j] = u]
<1>1. ASSUME NEW b \in Batches, b # j PROVE runnerOf'[b] = runnerOf[b]
  BY <1>1, BatchAssumption DEF RunnerKnown
<1> QED BY <1>1 DEF RunnerKnown

LEMMA RunnerStops ==
    ASSUME RunnerKnown, RunnerKnown', NEW j \in Batches, \A w \in Workers : ~Runs(w, j)',
           \A w \in Workers, b \in Batches : b # j => (Runs(w, b)' <=> Runs(w, b))
    PROVE  runnerOf' = [runnerOf EXCEPT ![j] = None]
<1>1. ASSUME NEW b \in Batches, b # j PROVE runnerOf'[b] = runnerOf[b]
  BY <1>1, BatchAssumption DEF RunnerKnown
<1> QED BY <1>1 DEF RunnerKnown

(* Every step of the workers is one of the queue or changes nothing there. *)
LEMMA QueueStep ==
    TypeOK /\ TypeOK' /\ ClaimInv /\ ClaimInv' /\ env \subseteq {"crash"} /\ [Next]_vars
        => [Queue!QueueNext]_(Queue!queueVars)
<1> SUFFICES ASSUME TypeOK, TypeOK', ClaimInv, ClaimInv', env \subseteq {"crash"}, [Next]_vars
             PROVE  [Queue!QueueNext]_(Queue!queueVars)
  OBVIOUS
<1> USE BatchAssumption DEF Processing, Active, Goto, Runs
<1>0. RunnerKnown /\ RunnerKnown' /\ env' = env
  BY Runner, RunnerNext, EnvFixed
<1>1. ASSUME UNCHANGED <<status, attempts, report>>,
             \A w \in Workers, b \in Batches : Runs(w, b)' <=> Runs(w, b)
      PROVE  [Queue!QueueNext]_(Queue!queueVars)
  BY <1>0, <1>1, SameRunners DEF Queue!queueVars
<1>2. ASSUME NEW b \in Batches, pgCreateAnalysisBatch(b)
      PROVE  [Queue!QueueNext]_(Queue!queueVars)
  <2>1. runnerOf' = runnerOf
    BY <1>0, <1>2, SameRunners DEF pgCreateAnalysisBatch, workerVars
  <2>2. Queue!Submit(b)
    BY <1>2, <2>1 DEF pgCreateAnalysisBatch, Queue!Submit
  <2> QED BY <2>2 DEF Queue!QueueNext
<1>3. ASSUME NEW w \in Workers, pgClaimNextAnalysisBatch(w)
      PROVE  [Queue!QueueNext]_(Queue!queueVars)
  <2>1. PICK b \in Batches : /\ Claimable(b)
                             /\ status' = [status EXCEPT ![b] = "processing"]
                             /\ attempts' = [attempts EXCEPT ![b] = @ + 1]
                             /\ job' = [job EXCEPT ![w] = b]
                             /\ pc' = [pc EXCEPT ![w] = "claimed"]
    BY <1>3, Zenon DEF pgClaimNextAnalysisBatch
  <2>2. report' = report /\ pc[w] = "idle"
    BY <1>3 DEF pgClaimNextAnalysisBatch
  <2>3. \A v \in Workers : ~Runs(v, b)
    BY <2>1 DEF Claimable, ClaimInv
  <2>4. runnerOf[b] = None
    BY <1>0, <2>3 DEF RunnerKnown
  <2>5. runnerOf' = runnerOf
    BY <1>0, <2>1, <2>2, SameRunners DEF TypeOK
  <2>6. Queue!Take(b)
    BY <2>1, <2>2, <2>4, <2>5 DEF Queue!Take, Claimable
  <2> QED BY <2>6 DEF Queue!QueueNext
<1>4. ASSUME NEW w \in Workers, pc[w] \in Active, NEW b \in Batches, b = job[w],
             FailUpdate(b), pc'[w] \notin Active,
             \A v \in Workers : v # w => pc'[v] = pc[v] /\ job'[v] = job[v]
      PROVE  [Queue!QueueNext]_(Queue!queueVars)
  <2>1. status[b] = "processing" /\ attempts[b] \in Nat
    BY <1>4 DEF TypeOK, ClaimInv
  <2>2. \A v \in Workers : ~Runs(v, b)'
    BY <1>4 DEF ClaimInv
  <2>3. runnerOf' = [runnerOf EXCEPT ![b] = None]
    BY <1>0, <1>4, <2>1, <2>2, RunnerStops
  <2>4. StatusAfterFailure(b) = IF attempts[b] < MaxAttempts THEN "pending" ELSE "failed"
    BY <2>1 DEF StatusAfterFailure
  <2>5. Queue!GiveBack(b)
    BY <1>4, <2>1, <2>3, <2>4 DEF Queue!GiveBack, FailUpdate
  <2> QED BY <2>1, <2>5 DEF Queue!QueueNext
<1>5. ASSUME NEW w \in Workers, pc[w] \in Processing \cup {"fail"}, UNCHANGED batchVars,
             NEW b \in Batches, b = job[w], pc'[w] \notin Active,
             \A v \in Workers : v # w => pc'[v] = pc[v] /\ job'[v] = job[v]
      PROVE  [Queue!QueueNext]_(Queue!queueVars)
  <2>1. runnerOf[b] # None
    BY <1>0, <1>5 DEF TypeOK, RunnerKnown
  <2>2. \A v \in Workers : ~Runs(v, b)'
    BY <1>5 DEF ClaimInv
  <2>3. runnerOf' = [runnerOf EXCEPT ![b] = None]
    BY <1>0, <1>5, <2>1, <2>2, RunnerStops
  <2>4. Queue!Abandon(b)
    BY <1>5, <2>1, <2>3 DEF Queue!Abandon, batchVars
  <2> QED BY <2>1, <2>4 DEF Queue!QueueNext
<1>6. ASSUME NEW w \in Workers, Step(w)
      PROVE  [Queue!QueueNext]_(Queue!queueVars)
  <2> DEFINE b == job[w]
  <2>1. CASE LockAcquired(w)
    <3>1. /\ pc[w] = "claimed" /\ pc'[w] = "load" /\ UNCHANGED <<status, attempts, report, job>>
          /\ \A v \in Workers : v # w => pc'[v] = pc[v]
          /\ b \in Batches
      BY <2>1 DEF LockAcquired, batchVars, TypeOK
    <3>2. status[b] = "processing" /\ \A v \in Workers : ~Runs(v, b)
      BY <3>1 DEF ClaimInv
    <3>3. runnerOf[b] = None
      BY <1>0, <3>1, <3>2 DEF RunnerKnown
    <3>4. runnerOf' = [runnerOf EXCEPT ![b] = w]
      BY <1>0, <3>1, RunnerStarts
    <3>5. Queue!Start(b, w)
      BY <3>1, <3>2, <3>3, <3>4 DEF Queue!Start
    <3> QED BY <3>1, <3>5 DEF Queue!QueueNext
  <2>2. CASE LockBusy(w) \/ ReleaseLock(w)
    BY <2>2, <1>1 DEF LockBusy, ReleaseLock, BackToIdle, batchVars, TypeOK
  <2>3. CASE \/ pgLoadAnalysisBatchFiles(w) \/ MarkProcessing(w) \/ ensureBatchEstimate(w)
             \/ MarkCompleted(w) \/ LinkRefused(w)
    <3>1. /\ pc[w] \in Processing /\ pc'[w] \in Processing \cup {"fail"}
          /\ UNCHANGED <<status, attempts, report, job>>
          /\ \A v \in Workers : v # w => pc'[v] = pc[v]
      <4> USE DEF batchVars, TypeOK
      <4>1. CASE pgLoadAnalysisBatchFiles(w)
        BY <4>1 DEF pgLoadAnalysisBatchFiles
      <4>2. CASE MarkProcessing(w)
        BY <4>2 DEF MarkProcessing
      <4>3. CASE ensureBatchEstimate(w)
        BY <4>3 DEF ensureBatchEstimate
      <4>4. CASE MarkCompleted(w)
        BY <4>4 DEF MarkCompleted
      <4>5. CASE LinkRefused(w)
        BY <4>5 DEF LinkRefused
      <4> QED BY <2>3, <4>1, <4>2, <4>3, <4>4, <4>5
    <3> QED BY <3>1, <1>1
  <2>4. CASE pgTouchAnalysisBatch(w)
    <3>1. pc[w] = "touch" /\ pc'[w] \in {"ai", "mark"} /\ UNCHANGED <<status, attempts, report, job>>
          /\ \A v \in Workers : v # w => pc'[v] = pc[v]
      BY <2>4 DEF pgTouchAnalysisBatch, TypeOK
    <3> QED BY <3>1, <1>1
  <2>5. CASE AnalyzeInput(w) \/ HeartbeatLost(w)
    <3>1. PICK answered \in BOOLEAN : pc[w] = "ai" /\ InputDone(w, answered)
      BY <2>5 DEF AnalyzeInput, HeartbeatLost
    <3>2. pc'[w] \in {"ai", "complete"} /\ UNCHANGED <<status, attempts, report, job>>
          /\ \A v \in Workers : v # w => pc'[v] = pc[v]
      BY <3>1 DEF InputDone, batchVars, TypeOK
    <3> QED BY <3>1, <3>2, <1>1
  <2>6. CASE pgCompleteAnalysisBatch(w)
    <3>1. /\ pc[w] = "complete" /\ pc'[w] = "release" /\ job' = job /\ b \in Batches
          /\ CompleteUpdate(b, quality[w]) /\ quality[w] \in {"ai", "rules"}
          /\ \A v \in Workers : v # w => pc'[v] = pc[v]
      BY <2>6 DEF pgCompleteAnalysisBatch, TypeOK
    <3>2. status[b] = "processing" /\ \A v \in Workers : ~Runs(v, b)'
      BY <3>1 DEF ClaimInv
    <3>3. runnerOf[b] # None
      BY <1>0, <3>1 DEF RunnerKnown
    <3>4. runnerOf' = [runnerOf EXCEPT ![b] = None]
      BY <1>0, <3>1, <3>2, RunnerStops
    <3>5. Queue!Finish(b, quality[w])
      BY <3>1, <3>2, <3>3, <3>4 DEF Queue!Finish, CompleteUpdate
    <3> QED BY <3>1, <3>5 DEF Queue!QueueNext
  <2>7. CASE pgFailAnalysisBatch(w)
    <3>1. /\ pc[w] = "fail" /\ pc'[w] = "release"
          /\ FailUpdate(b) \/ UNCHANGED batchVars
          /\ b \in Batches
          /\ \A v \in Workers : v # w => pc'[v] = pc[v] /\ job'[v] = job[v]
      BY <2>7 DEF pgFailAnalysisBatch, TypeOK
    <3> QED BY <3>1, <1>4, <1>5
  <2> QED BY <1>6, <2>1, <2>2, <2>3, <2>4, <2>5, <2>6, <2>7 DEF Step
<1>7. ASSUME NEW w \in Workers, Error(w)
      PROVE  [Queue!QueueNext]_(Queue!queueVars)
  <2> DEFINE b == job[w]
  <2>1. CASE ClaimReadFails(w)
    BY <2>1, <1>1 DEF ClaimReadFails, BackToIdle, batchVars, TypeOK
  <2>2. CASE LockError(w)
    <3>1. /\ pc[w] = "claimed" /\ pc'[w] = "idle"
          /\ FailUpdate(b) \/ UNCHANGED batchVars
          /\ b \in Batches
          /\ \A v \in Workers : v # w => pc'[v] = pc[v] /\ job'[v] = job[v]
      BY <2>2 DEF LockError, BackToIdle, TypeOK
    <3> QED BY <3>1, <1>1, <1>4 DEF batchVars
  <2>3. CASE EnsureFails(w) \/ ProcessingFails(w)
    BY <2>3, <1>1 DEF EnsureFails, ProcessingFails, batchVars, TypeOK
  <2>4. CASE CompleteAckLost(w)
    BY <2>4 DEF CompleteAckLost
  <2> QED BY <1>7, <2>1, <2>2, <2>3, <2>4 DEF Error
<1>8. ASSUME NEW w \in Workers, Crash(w)
      PROVE  [Queue!QueueNext]_(Queue!queueVars)
  <2>1. /\ pc'[w] = "idle" /\ UNCHANGED batchVars /\ job[w] \in Batches
        /\ \A v \in Workers : v # w => pc'[v] = pc[v] /\ job'[v] = job[v]
    BY <1>8 DEF Crash, BackToIdle, TypeOK
  <2> QED BY <2>1, <1>1, <1>5 DEF batchVars
<1>9. ASSUME NEW w \in Workers, pgHeartbeatAnalysisBatch(w) \/ LockConnectionDrops(w)
      PROVE  [Queue!QueueNext]_(Queue!queueVars)
  BY <1>1, <1>9 DEF pgHeartbeatAnalysisBatch, LockConnectionDrops, batchVars, workerVars
<1>10. ASSUME NEW b \in Batches, LeaseExpires(b)
       PROVE  [Queue!QueueNext]_(Queue!queueVars)
  BY <1>1, <1>10 DEF LeaseExpires, workerVars
<1>11. CASE UNCHANGED vars
  BY <1>1, <1>11 DEF vars, batchVars, workerVars
<1>12. ASSUME NEW b \in Batches, NEW f \in Files, pgDeleteEstimate(b, f)
       PROVE  [Queue!QueueNext]_(Queue!queueVars)
  BY <1>1, <1>12 DEF pgDeleteEstimate, batchVars, workerVars
<1> QED BY <1>2, <1>3, <1>6, <1>7, <1>8, <1>9, <1>10, <1>11, <1>12 DEF Next

(* Claim, lease, advisory lock and heartbeat together implement the        *)
(* abstract queue, for any number of workers that crash at any moment but  *)
(* keep up with their lease.                                               *)
THEOREM QueueImplemented == Spec /\ env \subseteq {"crash"} => QueueSpec
<1>1. Init => ClaimInv
  BY DEF Init, ClaimInv, Active, Processing
<1>2. Init => Queue!QueueInit
  BY DEF Init, Queue!QueueInit, runnerOf, Runs, Processing
<1>3. env \subseteq {"crash"} /\ [Next]_vars => (env \subseteq {"crash"})'
  BY EnvFixed
<1> QED BY <1>1, <1>2, <1>3, TypeCorrect, ClaimInductive, QueueStep, PTL
        DEF Spec, QueueSpec, Queue!QueueSpec

=============================================================================
