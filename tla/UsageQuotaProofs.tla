------------------------- MODULE UsageQuotaProofs -------------------------
(***************************************************************************)
(* Theorems of UsageQuota for any number of requests, months, file sizes   *)
(* and any limits.  The argument: a transaction that has passed the check  *)
(* holds the row lock, so the counters it compared are the counters it     *)
(* adds to (CheckedFits).  Everything else only lowers them.               *)
(***************************************************************************)
EXTENDS UsageQuota, FiniteSetTheorems, TLAPS

-----------------------------------------------------------------------------
(* The arithmetic of UsageDelta values                                     *)

LEMMA UsageType ==
    ASSUME NEW f \in Nat, NEW n \in Nat, NEW a \in Nat, NEW b \in Nat
    PROVE  Usage(f, n, a, b) \in Deltas
BY DEF Usage, Deltas

LEMMA MinusType ==
    ASSUME NEW n \in Nat, NEW d \in Nat
    PROVE  /\ Minus(n, d) \in Nat
           /\ Minus(n, d) <= n
BY DEF Minus

LEMMA DeltaType ==
    ASSUME TypeOK, NEW r \in Requests
    PROVE  Delta(r) \in Deltas
<1>1. usage[r] \in Deltas /\ size[r] \in Nat
  BY DEF TypeOK
<1>2. usage[r]["bytes"] \in Nat
  BY <1>1 DEF Deltas, Resources, Monthly
<1>3. Bytes(Minus(size[r], usage[r]["bytes"])) \in Deltas
  BY <1>1, <1>2, MinusType, UsageType DEF Bytes
<1>4. Bytes(Minus(usage[r]["bytes"], size[r])) \in Deltas
  BY <1>1, <1>2, MinusType, UsageType DEF Bytes
<1>5. Storage(size[r]) \in Deltas
  BY <1>1 DEF Storage, Deltas, NoUsage
<1> QED BY <1>1, <1>3, <1>4, <1>5 DEF Delta

LEMMA ReducedType ==
    ASSUME TypeOK, NEW r \in Requests
    PROVE  ReducedUsage(r) \in Deltas
<1>1. usage[r] \in Deltas /\ size[r] \in Nat
  BY DEF TypeOK
<1> QED BY <1>1 DEF ReducedUsage, Deltas

LEMMA AddType ==
    ASSUME TypeOK, NEW m \in Months, NEW d \in Deltas, Add(m, d)
    PROVE  /\ used' \in [Months -> [Monthly -> Nat]]
           /\ storage' \in Nat
<1>1. \A x \in Monthly : d[x] \in Nat
  BY DEF Deltas, Resources
<1>2. d["storage"] \in Nat
  BY DEF Deltas, Resources
<1>3. used[m] \in [Monthly -> Nat] /\ used \in [Months -> [Monthly -> Nat]]
  BY DEF TypeOK
<1>4. [x \in Monthly |-> used[m][x] + d[x]] \in [Monthly -> Nat]
  BY <1>1, <1>3
<1>5. used' = [used EXCEPT ![m] = [x \in Monthly |-> used[m][x] + d[x]]]
  BY Zenon DEF Add
<1>6. used' \in [Months -> [Monthly -> Nat]]
  BY <1>3, <1>4, <1>5
<1>7. storage' \in Nat
  BY <1>2 DEF Add, TypeOK
<1> QED BY <1>6, <1>7

LEMMA SubtractType ==
    ASSUME TypeOK, NEW m \in Months, NEW d \in Deltas, Subtract(m, d)
    PROVE  /\ used' \in [Months -> [Monthly -> Nat]]
           /\ storage' \in Nat
           /\ storage' <= storage
           /\ \A n \in Months, x \in Monthly : used'[n][x] <= used[n][x]
           /\ \A n \in Months \ {m} : used'[n] = used[n]
<1>1. \A x \in Monthly : d[x] \in Nat
  BY DEF Deltas, Resources
<1>2. d["storage"] \in Nat
  BY DEF Deltas, Resources
<1>3. used[m] \in [Monthly -> Nat] /\ used \in [Months -> [Monthly -> Nat]]
  BY DEF TypeOK
<1> DEFINE lower == [x \in Monthly |-> Minus(used[m][x], d[x])]
<1>4. /\ lower \in [Monthly -> Nat]
      /\ \A x \in Monthly : lower[x] <= used[m][x]
  BY <1>1, <1>3, MinusType
<1>5. used' = [used EXCEPT ![m] = lower]
  BY Zenon DEF Subtract
<1> HIDE DEF lower
<1>6. used' \in [Months -> [Monthly -> Nat]]
  BY <1>3, <1>4, <1>5
<1>7. storage' \in Nat /\ storage' <= storage
  BY <1>2, MinusType DEF Subtract, TypeOK
<1>8. \A n \in Months \ {m} : used'[n] = used[n]
  BY <1>3, <1>5
<1>9. \A n \in Months, x \in Monthly : used'[n][x] <= used[n][x]
  <2> SUFFICES ASSUME NEW n \in Months, NEW x \in Monthly
               PROVE  used'[n][x] <= used[n][x]
    OBVIOUS
  <2>1. CASE n = m
    <3>1. used'[n] = lower
      BY <1>3, <1>5, <2>1
    <3> QED BY <1>4, <2>1, <3>1
  <2>2. CASE n # m
    <3>1. used'[n] = used[n] /\ used[n][x] \in Nat
      BY <1>3, <1>8, <2>2
    <3> QED BY <3>1
  <2> QED BY <2>1, <2>2
<1> QED BY <1>6, <1>7, <1>8, <1>9

-----------------------------------------------------------------------------
(* Type correctness                                                        *)

LEMMA TxTypes ==
    ASSUME TypeOK, NEW r \in Requests, EndTx(r), tx' = [tx EXCEPT ![r] = "none"]
    PROVE  /\ tx' \in [Requests -> {"none", "locked", "checked"}]
           /\ usageLock' \in Requests \cup {None}
           /\ rowLock' \in Requests \cup {None}
BY DEF TypeOK, EndTx

LEMMA RequestsType ==
    ASSUME QuotaAssumption, NEW n \in Nat, NEW sent \in RequestsFor(n)
    PROVE  sent \in Nat
<1>1. MaxChunks \in Nat /\ HttpAttempts \in Nat
  BY DEF QuotaAssumption
<1>2. n * MaxChunks \in Nat
  BY <1>1
<1>3. n * MaxChunks * HttpAttempts \in Nat
  BY <1>1, <1>2
<1> QED BY <1>3 DEF RequestsFor

LEMMA TypeStep == QuotaAssumption /\ TypeOK /\ [Next]_vars => TypeOK'
<1> SUFFICES ASSUME QuotaAssumption, TypeOK, [Next]_vars
             PROVE  TypeOK'
  OBVIOUS
<1> USE DEF PCs, Running, Kept, Charging, Refunding
<1>1. CASE UNCHANGED vars
  BY <1>1 DEF vars, counters, locks, control, work, TypeOK
<1>2. CASE MonthTurns
  BY <1>2 DEF MonthTurns, counters, locks, control, work, TypeOK, Months
<1>3. ASSUME NEW r \in Requests, StartRequest(r)
      PROVE  TypeOK'
  <2>1. PICK k \in Kinds, bytes \in Sizes :
           /\ kind' = [kind EXCEPT ![r] = k]
           /\ usage' = [usage EXCEPT ![r] = UsageOf(k, bytes)]
    BY <1>3, Zenon DEF StartRequest
  <2>2. bytes \in Nat /\ BatchFiles \in Nat
    BY DEF QuotaAssumption
  <2>3. Usage(1, bytes, 0, 0) \in Deltas
    BY <2>2, UsageType
  <2>4. Usage(BatchFiles, bytes, BatchFiles, 1) \in Deltas
    BY <2>2, UsageType
  <2>5. Usage(0, 0, 1, 0) \in Deltas
    BY UsageType
  <2>6. UsageOf(k, bytes) \in Deltas
    BY <2>3, <2>4, <2>5 DEF UsageOf, Kinds
  <2>7. usage' \in [Requests -> Deltas]
    BY <2>1, <2>6 DEF TypeOK
  <2> QED BY <1>3, <2>1, <2>7 DEF StartRequest, Goto, counters, locks, work, TypeOK
<1>4. ASSUME NEW r \in Requests, SummaryFromCache(r)
      PROVE  TypeOK'
  BY <1>4 DEF SummaryFromCache, Goto, Kinds, counters, locks, work, TypeOK
<1>5. ASSUME NEW r \in Requests, TakeUsageLock(r)
      PROVE  TypeOK'
  BY <1>5 DEF TakeUsageLock, counters, work, TypeOK
<1>6. ASSUME NEW r \in Requests, CheckUsage(r)
      PROVE  TypeOK'
  BY <1>6 DEF CheckUsage, counters, work, TypeOK
<1>7. ASSUME NEW r \in Requests, Refuse(r)
      PROVE  TypeOK'
  <2>1. /\ tx' = [tx EXCEPT ![r] = "none"]
        /\ EndTx(r)
    BY <1>7, Zenon DEF Refuse
  <2>2. /\ tx' \in [Requests -> {"none", "locked", "checked"}]
        /\ usageLock' \in Requests \cup {None}
        /\ rowLock' \in Requests \cup {None}
    BY <2>1, TxTypes
  <2> QED BY <1>7, <2>2 DEF Refuse, AfterRefusal, Goto, counters, TypeOK
<1>24. ASSUME NEW r \in Requests, ChargeCommit(r)
       PROVE  /\ tx' \in [Requests -> {"none", "locked", "checked"}]
              /\ usageLock' \in Requests \cup {None}
              /\ rowLock' \in Requests \cup {None}
              /\ used' \in [Months -> [Monthly -> Nat]]
              /\ storage' \in Nat
  <2>1. /\ tx' = [tx EXCEPT ![r] = "none"]
        /\ EndTx(r)
        /\ Add(period[r], Delta(r))
    BY <1>24, Zenon DEF ChargeCommit
  <2>2. /\ tx' \in [Requests -> {"none", "locked", "checked"}]
        /\ usageLock' \in Requests \cup {None}
        /\ rowLock' \in Requests \cup {None}
    BY <2>1, TxTypes
  <2>3. period[r] \in Months
    BY DEF TypeOK
  <2>4. used' \in [Months -> [Monthly -> Nat]] /\ storage' \in Nat
    BY <2>1, <2>3, DeltaType, AddType
  <2> QED BY <2>2, <2>4
<1>8. ASSUME NEW r \in Requests, Charge(r)
      PROVE  TypeOK'
  <2>1. usage' \in [Requests -> Deltas]
    BY <1>8, ReducedType DEF Charge, TypeOK
  <2>2. ChargeCommit(r)
    BY <1>8 DEF Charge
  <2> QED BY <1>8, <1>24, <2>1, <2>2 DEF Charge, Goto, work, TypeOK
<1>25. ASSUME NEW r \in Requests, ChargeAckLost(r)
       PROVE  TypeOK'
  <2>1. ChargeCommit(r)
    BY <1>25 DEF ChargeAckLost
  <2> QED BY <1>24, <1>25, <2>1 DEF ChargeAckLost, AfterRefusal, Goto, TypeOK
<1>9. ASSUME NEW r \in Requests, RefundCommit(r)
      PROVE  /\ tx' \in [Requests -> {"none", "locked", "checked"}]
             /\ usageLock' \in Requests \cup {None}
             /\ rowLock' \in Requests \cup {None}
             /\ used' \in [Months -> [Monthly -> Nat]]
             /\ storage' \in Nat
  <2>1. /\ tx' = [tx EXCEPT ![r] = "none"]
        /\ EndTx(r)
        /\ Subtract(month, Delta(r))
    BY <1>9, Zenon DEF RefundCommit
  <2>2. month \in Months
    BY DEF TypeOK
  <2> QED BY <2>1, <2>2, TxTypes, DeltaType, SubtractType
<1>10. ASSUME NEW r \in Requests, Refund(r)
       PROVE  TypeOK'
  <2>1. usage' \in [Requests -> Deltas]
    BY <1>10, ReducedType DEF Refund, TypeOK
  <2>2. RefundCommit(r)
    BY <1>10 DEF Refund
  <2> QED BY <1>9, <1>10, <2>1, <2>2 DEF Refund, Goto, work, TypeOK
<1>11. ASSUME NEW r \in Requests, RefundAckLost(r)
       PROVE  TypeOK'
  <2>1. RefundCommit(r)
    BY <1>11 DEF RefundAckLost
  <2> QED BY <1>9, <1>11, <2>1 DEF RefundAckLost, Goto, TypeOK
<1>12. ASSUME NEW r \in Requests, RefundFails(r)
       PROVE  TypeOK'
  <2>1. /\ tx' = [tx EXCEPT ![r] = "none"]
        /\ EndTx(r)
    BY <1>12, Zenon DEF RefundFails
  <2>2. /\ tx' \in [Requests -> {"none", "locked", "checked"}]
        /\ usageLock' \in Requests \cup {None}
        /\ rowLock' \in Requests \cup {None}
    BY <2>1, TxTypes
  <2> QED BY <1>12, <2>2 DEF RefundFails, Goto, counters, work, TypeOK
<1>13. ASSUME NEW r \in Requests, StoreFile(r)
       PROVE  TypeOK'
  <2>1. PICK written \in Sizes :
           /\ size' = [size EXCEPT ![r] = written]
           /\ Goto(r, CASE written > usage[r]["bytes"] -> "extra"
                        [] written < usage[r]["bytes"] -> "reduce"
                        [] OTHER                       -> "persist")
    BY <1>13, Zenon DEF StoreFile
  <2>2. size' \in [Requests -> Nat]
    BY <2>1 DEF TypeOK, QuotaAssumption
  <2>3. pc' \in [Requests -> PCs]
    BY <2>1 DEF Goto, TypeOK
  <2> QED BY <1>13, <2>2, <2>3 DEF StoreFile, counters, locks, TypeOK
<1>14. ASSUME NEW r \in Requests, StoreFails(r)
       PROVE  TypeOK'
  BY <1>14 DEF StoreFails, Goto, counters, locks, TypeOK
<1>15. ASSUME NEW r \in Requests, Persist(r)
       PROVE  TypeOK'
  BY <1>15 DEF Persist, AfterPersist, Goto, counters, locks, TypeOK
<1>16. ASSUME NEW r \in Requests, PersistAckLost(r)
       PROVE  TypeOK'
  BY <1>16 DEF PersistAckLost, Goto, counters, locks, TypeOK
<1>17. ASSUME NEW r \in Requests, CallProvider(r)
       PROVE  TypeOK'
  <2>1. calls' \in [Requests -> Nat]
    <3>1. PICK sent \in RequestsFor(1) : calls' = [calls EXCEPT ![r] = @ + sent]
      BY <1>17, Zenon DEF CallProvider
    <3>2. sent \in Nat
      BY RequestsType
    <3>3. calls[r] + sent \in Nat
      BY <3>2 DEF TypeOK
    <3> QED BY <3>1, <3>3 DEF TypeOK
  <2>2. cached' \in BOOLEAN
    BY <1>17, Zenon DEF CallProvider, TypeOK
  <2>3. pc' \in [Requests -> PCs]
    BY <1>17 DEF CallProvider, Goto, TypeOK
  <2> QED BY <1>17, <2>1, <2>2, <2>3 DEF CallProvider, counters, locks, TypeOK
<1>18. ASSUME NEW r \in Requests, BatchAttempt(r)
       PROVE  TypeOK'
  <2>1. attempts[r] + 1 \in 0..MaxAttempts
    BY <1>18 DEF BatchAttempt, TypeOK, QuotaAssumption
  <2>2. attempts' \in [Requests -> 0..MaxAttempts]
    BY <1>18, <2>1 DEF BatchAttempt, TypeOK
  <2>3. PICK sent \in RequestsFor(BatchFiles) : calls' = [calls EXCEPT ![r] = @ + sent]
    BY <1>18, Zenon DEF BatchAttempt
  <2>4. calls' \in [Requests -> Nat]
    <3>1. BatchFiles \in Nat
      BY DEF QuotaAssumption
    <3>2. sent \in Nat
      BY <3>1, RequestsType
    <3>3. calls[r] + sent \in Nat
      BY <3>2 DEF TypeOK
    <3> QED BY <2>3, <3>3 DEF TypeOK
  <2>5. pc' = pc \/ pc' = [pc EXCEPT ![r] = "worked"]
    BY <1>18 DEF BatchAttempt, Goto
  <2>6. pc' \in [Requests -> PCs]
    BY <2>5 DEF TypeOK, PCs, Kept
  <2> QED BY <1>18, <2>2, <2>4, <2>6 DEF BatchAttempt, counters, locks, TypeOK
<1>19. ASSUME NEW r \in Requests, PurgeFile(r)
       PROVE  TypeOK'
  BY <1>19 DEF PurgeFile, Goto, counters, locks, TypeOK
<1>20. ASSUME NEW r \in Requests, PurgeCommit(r)
       PROVE  TypeOK'
  <2>1. storage' \in Nat
    BY <1>20, MinusType DEF PurgeCommit, TypeOK
  <2> QED BY <1>20, <2>1 DEF PurgeCommit, Goto, locks, work, TypeOK
<1>21. ASSUME NEW r \in Requests, DeleteEstimate(r)
       PROVE  TypeOK'
  BY <1>21 DEF DeleteEstimate, Goto, counters, locks, TypeOK
<1>22. ASSUME NEW r \in Requests, UnlinkFile(r)
       PROVE  TypeOK'
  BY <1>22 DEF UnlinkFile, Goto, counters, locks, TypeOK
<1>23. ASSUME NEW r \in Requests, Crash(r)
       PROVE  TypeOK'
  <2>1. /\ tx' = [tx EXCEPT ![r] = "none"]
        /\ EndTx(r)
    BY <1>23, Zenon DEF Crash
  <2>2. /\ tx' \in [Requests -> {"none", "locked", "checked"}]
        /\ usageLock' \in Requests \cup {None}
        /\ rowLock' \in Requests \cup {None}
    BY <2>1, TxTypes
  <2> QED BY <1>23, <2>2 DEF Crash, Goto, counters, work, TypeOK
<1> QED
  BY <1>1, <1>2, <1>3, <1>4, <1>5, <1>6, <1>7, <1>8, <1>10, <1>11, <1>12, <1>13,
     <1>14, <1>15, <1>16, <1>17, <1>18, <1>19, <1>20, <1>21, <1>22, <1>23, <1>25
  DEF Next, Step, QuotaRefused, TxFails

LEMMA TypeInit == QuotaAssumption /\ Init => TypeOK
<1> SUFFICES ASSUME QuotaAssumption, Init PROVE TypeOK
  OBVIOUS
<1>1. 1 \in Months /\ 0 \in 0..MaxAttempts
  BY DEF Months, QuotaAssumption
<1>2. NoUsage \in Deltas
  BY DEF NoUsage, Deltas
<1> QED BY <1>1, <1>2 DEF Init, TypeOK, PCs, Running, Kept, Kinds

(* Every reachable state of the accounting is well typed: no counter goes  *)
(* below zero, as the CHECKs of usage_schema.sql require.                  *)
THEOREM TypeCorrect == Spec => []TypeOK
BY QuotaAssumption, TypeInit, TypeStep, PTL DEF Spec

-----------------------------------------------------------------------------
(* Check and addition act as one step                                      *)

Fits(m, d) ==
    /\ \A x \in Monthly : d[x] > 0 => used[m][x] + d[x] <= Limits[x]
    /\ d["storage"] > 0 => storage + d["storage"] <= Limits["storage"]

(* A transaction that has passed the check holds the row lock, and what it *)
(* is about to add still fits.                                             *)
CheckedFits ==
    \A r \in Requests : tx[r] = "checked" =>
        /\ pc[r] \in Charging
        /\ rowLock = r
        /\ Fits(period[r], Delta(r))

(* A step that is not the commit of a transaction or of a purge.           *)
NoCommit == UNCHANGED counters

(* What a step of request r must respect for the others' checks to stand:  *)
(* it changes no other request, and takes the row lock only when it is     *)
(* free.                                                                   *)
LeavesOthers(r) ==
    /\ \A q \in Requests \ {r} :
          /\ pc'[q] = pc[q] /\ tx'[q] = tx[q] /\ period'[q] = period[q]
          /\ usage'[q] = usage[q] /\ size'[q] = size[q]
    /\ rowLock' # rowLock => rowLock \in {r, None}

LEMMA DeltaKept ==
    ASSUME NEW q \in Requests,
           pc'[q] = pc[q], usage'[q] = usage[q], size'[q] = size[q]
    PROVE  Delta(q)' = Delta(q)
BY DEF Delta

LEMMA QuietStep ==
    ASSUME TypeOK, CheckedFits, NEW r \in Requests, LeavesOthers(r), NoCommit,
           tx'[r] # "checked"
    PROVE  CheckedFits'
<1> SUFFICES ASSUME NEW q \in Requests, tx'[q] = "checked"
             PROVE  /\ pc'[q] \in Charging
                    /\ rowLock' = q
                    /\ Fits(period[q], Delta(q))'
  BY DEF CheckedFits
<1>1. q # r
  OBVIOUS
<1>2. /\ pc'[q] = pc[q] /\ tx'[q] = tx[q] /\ period'[q] = period[q]
      /\ usage'[q] = usage[q] /\ size'[q] = size[q]
  BY <1>1 DEF LeavesOthers
<1>3. pc[q] \in Charging /\ rowLock = q /\ Fits(period[q], Delta(q))
  BY <1>2 DEF CheckedFits
<1>4. rowLock' = q
  BY <1>1, <1>3, QuotaAssumption DEF LeavesOthers, QuotaAssumption
<1>5. Delta(q)' = Delta(q)
  BY <1>2, DeltaKept
<1>6. Fits(period[q], Delta(q))'
  BY <1>2, <1>3, <1>5 DEF Fits, NoCommit, counters
<1> QED BY <1>2, <1>3, <1>4, <1>6

(* A commit leaves no transaction checked: it held the row lock, or found  *)
(* it free.                                                                *)
LEMMA CommitStep ==
    ASSUME TypeOK, CheckedFits, NEW r \in Requests, LeavesOthers(r),
           rowLock \in {r, None}, tx'[r] # "checked"
    PROVE  CheckedFits'
<1> SUFFICES ASSUME NEW q \in Requests, tx'[q] = "checked"
             PROVE  FALSE
  BY DEF CheckedFits
<1>1. q # r /\ tx[q] = "checked"
  BY DEF LeavesOthers
<1>2. rowLock = q
  BY <1>1 DEF CheckedFits
<1> QED BY <1>1, <1>2, QuotaAssumption DEF QuotaAssumption

(* The commits of transactions and of purges.                              *)
Commits(r) == ChargeCommit(r) \/ RefundCommit(r) \/ PurgeCommit(r)

(* Every step turns the month, is a check, is quiet, or is a commit.       *)
LEMMA StepKinds ==
    ASSUME TypeOK, CheckedFits, Next
    PROVE  \/ MonthTurns
           \/ \E r \in Requests : CheckUsage(r)
           \/ \E r \in Requests : LeavesOthers(r) /\ NoCommit /\ tx'[r] # "checked"
           \/ \E r \in Requests : LeavesOthers(r) /\ Commits(r) /\ tx'[r] # "checked"
<1> DEFINE Kind(r) ==
        \/ CheckUsage(r)
        \/ LeavesOthers(r) /\ NoCommit /\ tx'[r] # "checked"
        \/ LeavesOthers(r) /\ Commits(r) /\ tx'[r] # "checked"
<1> USE DEF TypeOK
<1>1. ASSUME NEW r \in Requests, StartRequest(r) \/ SummaryFromCache(r)
      PROVE  Kind(r)
  <2>1. tx[r] # "checked"
    BY <1>1 DEF CheckedFits, StartRequest, SummaryFromCache, Charging
  <2>2. NoCommit /\ tx'[r] # "checked"
    BY <1>1, <2>1 DEF StartRequest, SummaryFromCache, NoCommit
  <2>3. LeavesOthers(r)
    <3>1. CASE StartRequest(r)
      <4>1. PICK k \in Kinds, bytes \in Sizes : usage' = [usage EXCEPT ![r] = UsageOf(k, bytes)]
        BY <3>1, Zenon DEF StartRequest
      <4> QED BY <3>1, <4>1 DEF StartRequest, Goto, LeavesOthers, locks, work
    <3>2. CASE SummaryFromCache(r)
      BY <3>2 DEF SummaryFromCache, Goto, LeavesOthers, locks, work
    <3> QED BY <1>1, <3>1, <3>2
  <2> QED BY <2>2, <2>3
<1>2. ASSUME NEW r \in Requests, TakeUsageLock(r)
      PROVE  Kind(r)
  BY <1>2 DEF TakeUsageLock, LeavesOthers, NoCommit, work
<1>3. ASSUME NEW r \in Requests, Refuse(r)
      PROVE  Kind(r)
  BY <1>3 DEF Refuse, EndTx, Goto, LeavesOthers, NoCommit
<1>4. ASSUME NEW r \in Requests, Charge(r) \/ ChargeAckLost(r)
      PROVE  Kind(r)
  BY <1>4 DEF Charge, ChargeAckLost, ChargeCommit, Commits, EndTx, Goto, LeavesOthers, work
<1>5. ASSUME NEW r \in Requests, Refund(r) \/ RefundAckLost(r)
      PROVE  Kind(r)
  BY <1>5 DEF Refund, RefundAckLost, RefundCommit, Commits, EndTx, Goto, LeavesOthers, work
<1>6. ASSUME NEW r \in Requests, RefundFails(r) \/ Crash(r)
      PROVE  Kind(r)
  BY <1>6 DEF RefundFails, Crash, EndTx, Goto, LeavesOthers, NoCommit, work
<1>7. ASSUME NEW r \in Requests, StoreFile(r)
      PROVE  Kind(r)
  <2>1. tx[r] # "checked"
    BY <1>7 DEF CheckedFits, StoreFile, Charging
  <2>2. PICK written \in Sizes, label \in {"extra", "reduce", "persist"} :
           /\ size' = [size EXCEPT ![r] = written]
           /\ pc' = [pc EXCEPT ![r] = label]
    BY <1>7 DEF StoreFile, Goto
  <2> QED BY <1>7, <2>1, <2>2 DEF StoreFile, LeavesOthers, NoCommit, locks
<1>8. ASSUME NEW r \in Requests, StoreFails(r) \/ Persist(r) \/ PersistAckLost(r)
      PROVE  Kind(r)
  BY <1>8 DEF StoreFails, Persist, AfterPersist, PersistAckLost, CheckedFits, Charging,
              Goto, LeavesOthers, NoCommit, locks
<1>9. ASSUME NEW r \in Requests, CallProvider(r) \/ BatchAttempt(r) \/ PurgeFile(r)
      PROVE  Kind(r)
  BY <1>9 DEF CallProvider, BatchAttempt, PurgeFile, CheckedFits, Charging,
              Goto, LeavesOthers, NoCommit, locks
<1>10. ASSUME NEW r \in Requests, PurgeCommit(r)
       PROVE  Kind(r)
  BY <1>10 DEF PurgeCommit, Commits, CheckedFits, Charging, Goto, LeavesOthers, locks, work
<1>11. ASSUME NEW r \in Requests, DeleteEstimate(r) \/ UnlinkFile(r)
       PROVE  Kind(r)
  BY <1>11 DEF DeleteEstimate, UnlinkFile, CheckedFits, Charging,
               Goto, LeavesOthers, NoCommit, locks
<1>12. \/ MonthTurns
       \/ \E r \in Requests : Kind(r)
  <2> HIDE DEF Kind, TypeOK
  <2> QED BY <1>1, <1>2, <1>3, <1>4, <1>5, <1>6, <1>7, <1>8, <1>9, <1>10, <1>11
          DEF Next, Step, QuotaRefused, TxFails, Kind
<1> QED BY <1>12

LEMMA CheckStep ==
    ASSUME TypeOK, CheckedFits, NEW r \in Requests, CheckUsage(r)
    PROVE  CheckedFits'
<1>1. /\ pc' = pc /\ usage' = usage /\ size' = size /\ UNCHANGED counters
      /\ pc[r] \in Charging /\ rowLock = None /\ rowLock' = r
      /\ period' = [period EXCEPT ![r] = month]
      /\ tx' = [tx EXCEPT ![r] = "checked"]
      /\ ~quotaExceeded(Delta(r))
  BY Zenon DEF CheckUsage, work
<1>2. \A q \in Requests \ {r} : tx'[q] # "checked"
  <2> SUFFICES ASSUME NEW q \in Requests \ {r}, tx'[q] = "checked"
               PROVE  FALSE
    OBVIOUS
  <2>1. tx[q] = "checked"
    BY <1>1 DEF TypeOK
  <2> QED BY <1>1, <2>1, QuotaAssumption DEF CheckedFits, QuotaAssumption
<1>3. Delta(r)' = Delta(r)
  BY <1>1, DeltaKept
<1>4. period'[r] = month
  BY <1>1 DEF TypeOK
<1>5. Fits(month, Delta(r))
  <2>1. \A x \in Resources : Delta(r)[x] \in Nat /\ Limits[x] \in Nat
    BY DeltaType, QuotaAssumption DEF Deltas, QuotaAssumption
  <2>2. \A x \in Monthly : used[month][x] \in Nat
    BY DEF TypeOK
  <2> QED BY <1>1, <2>1, <2>2 DEF quotaExceeded, Fits, Resources, TypeOK
<1>6. Fits(period[r], Delta(r))'
  BY <1>1, <1>3, <1>4, <1>5 DEF Fits, counters
<1> QED BY <1>1, <1>2, <1>6 DEF CheckedFits

LEMMA CheckedInductive == TypeOK /\ CheckedFits /\ [Next]_vars => CheckedFits'
<1> SUFFICES ASSUME TypeOK, CheckedFits, [Next]_vars
             PROVE  CheckedFits'
  OBVIOUS
<1>1. CASE UNCHANGED vars
  BY <1>1, DeltaKept DEF vars, counters, locks, control, work, CheckedFits, Fits
<1>2. CASE MonthTurns
  BY <1>2, DeltaKept DEF MonthTurns, counters, locks, control, work, CheckedFits, Fits
<1>3. ASSUME NEW r \in Requests, CheckUsage(r)
      PROVE  CheckedFits'
  BY <1>3, CheckStep
<1>4. ASSUME NEW r \in Requests, LeavesOthers(r), NoCommit, tx'[r] # "checked"
      PROVE  CheckedFits'
  BY <1>4, QuietStep
<1>5. ASSUME NEW r \in Requests, LeavesOthers(r), Commits(r), tx'[r] # "checked"
      PROVE  CheckedFits'
  <2>1. rowLock \in {r, None}
    BY <1>5 DEF Commits, ChargeCommit, RefundCommit, PurgeCommit, CheckedFits
  <2> QED BY <1>5, <2>1, CommitStep
<1> QED BY <1>1, <1>2, <1>3, <1>4, <1>5, StepKinds

LEMMA ChargeRaises ==
    ASSUME TypeOK, CheckedFits, NEW r \in Requests, ChargeCommit(r)
    PROVE  Ledger!ChargeAccount(period[r])
<1> DEFINE m == period[r]
           d == Delta(r)
<1>1. Add(m, d) /\ tx[r] = "checked"
  BY DEF ChargeCommit
<1>2. Fits(m, d) /\ m \in Months
  BY <1>1 DEF CheckedFits, TypeOK
<1>3. \A x \in Resources : d[x] \in Nat /\ Limits[x] \in Nat
  BY DeltaType, QuotaAssumption DEF Deltas, QuotaAssumption
<1> HIDE DEF m, d
<1>4. used' = [used EXCEPT ![m] = [x \in Monthly |-> used[m][x] + d[x]]]
  BY <1>1, Zenon DEF Add
<1>5. \A n \in Months \ {m} : used'[n] = used[n]
  BY <1>2, <1>4 DEF TypeOK
<1>6. used'[m] = [x \in Monthly |-> used[m][x] + d[x]]
  BY <1>2, <1>4 DEF TypeOK
<1>7. \A x \in Monthly : Ledger!Raises(used[m][x], used'[m][x], Limits[x])
  <2> SUFFICES ASSUME NEW x \in Monthly
               PROVE  Ledger!Raises(used[m][x], used'[m][x], Limits[x])
    OBVIOUS
  <2>1. used'[m][x] = used[m][x] + d[x] /\ used[m][x] \in Nat
    BY <1>2, <1>6 DEF TypeOK
  <2>2. d[x] \in Nat /\ Limits[x] \in Nat /\ (d[x] > 0 => used[m][x] + d[x] <= Limits[x])
    BY <1>2, <1>3 DEF Fits, Resources
  <2> QED BY <2>1, <2>2 DEF Ledger!Raises
<1>8. Ledger!Raises(storage, storage', Limits["storage"])
  <2>1. d["storage"] \in Nat /\ Limits["storage"] \in Nat
    BY <1>3 DEF Resources
  <2> QED BY <1>1, <1>2, <2>1 DEF Add, Fits, TypeOK, Ledger!Raises
<1> QED BY <1>5, <1>7, <1>8 DEF Ledger!ChargeAccount, Ledger!OnlyMonth, m

LEMMA RefundLowers ==
    ASSUME TypeOK, NEW r \in Requests, RefundCommit(r) \/ PurgeCommit(r)
    PROVE  Ledger!RefundAccount(month)
<1>1. month \in Months
  BY DEF TypeOK
<1>2. CASE RefundCommit(r)
  <2>1. Subtract(month, Delta(r))
    BY <1>2 DEF RefundCommit
  <2>2. /\ used' \in [Months -> [Monthly -> Nat]]
        /\ storage' \in Nat /\ storage' <= storage
        /\ \A n \in Months, x \in Monthly : used'[n][x] <= used[n][x]
        /\ \A n \in Months \ {month} : used'[n] = used[n]
    BY <1>1, <2>1, DeltaType, SubtractType
  <2>3. \A x \in Monthly : used'[month][x] \in Nat
    BY <1>1, <2>2
  <2> QED BY <1>1, <2>2, <2>3 DEF Ledger!RefundAccount, Ledger!OnlyMonth, Ledger!Lowers
<1>3. CASE PurgeCommit(r)
  <2>1. storage' \in Nat /\ storage' <= storage
    BY <1>3, MinusType DEF PurgeCommit, TypeOK
  <2>2. used' = used /\ \A x \in Monthly : used[month][x] \in Nat
    BY <1>1, <1>3 DEF PurgeCommit, TypeOK
  <2> QED BY <2>1, <2>2 DEF Ledger!RefundAccount, Ledger!OnlyMonth, Ledger!Lowers
<1> QED BY <1>2, <1>3

LEMMA LedgerStep ==
    ASSUME TypeOK, CheckedFits, [Next]_vars
    PROVE  [Ledger!LedgerNext]_<<used, storage>>
<1>1. CASE UNCHANGED vars \/ MonthTurns
  BY <1>1 DEF MonthTurns, vars, counters
<1>2. ASSUME NEW r \in Requests, CheckUsage(r) \/ NoCommit
      PROVE  UNCHANGED <<used, storage>>
  BY <1>2 DEF CheckUsage, NoCommit, counters
<1>3. ASSUME NEW r \in Requests, Commits(r)
      PROVE  Ledger!LedgerNext
  <2>1. period[r] \in Months /\ month \in Months
    BY DEF TypeOK
  <2>2. CASE ChargeCommit(r)
    BY <2>1, <2>2, ChargeRaises DEF Ledger!LedgerNext
  <2>3. CASE RefundCommit(r) \/ PurgeCommit(r)
    BY <2>1, <2>3, RefundLowers DEF Ledger!LedgerNext
  <2> QED BY <1>3, <2>2, <2>3 DEF Commits
<1> QED BY <1>1, <1>2, <1>3, StepKinds

LEMMA SafetyInit == QuotaAssumption /\ Init => CheckedFits /\ QuotaNeverExceeded /\ Ledger!LedgerInit
<1> SUFFICES ASSUME QuotaAssumption, Init
             PROVE  CheckedFits /\ QuotaNeverExceeded /\ Ledger!LedgerInit
  OBVIOUS
<1>1. \A x \in Resources : 0 <= Limits[x]
  BY DEF QuotaAssumption
<1> QED BY <1>1 DEF Init, CheckedFits, QuotaNeverExceeded, Resources, Ledger!LedgerInit

(* docs/USAGE_QUOTAS.md:3: check and addition are atomic.  For any number  *)
(* of concurrent requests the counters change as the abstract ledger says. *)
THEOREM Atomic == Spec => LedgerSpec
<1>1. Spec => [](TypeOK /\ CheckedFits)
  BY QuotaAssumption, TypeInit, TypeStep, SafetyInit, CheckedInductive, PTL DEF Spec
<1>2. Init => Ledger!LedgerInit
  BY QuotaAssumption, SafetyInit
<1> QED BY <1>1, <1>2, LedgerStep, PTL DEF Spec, LedgerSpec, Ledger!LedgerSpec

(* A step of the ledger keeps every counter within its limit.              *)
LEMMA LedgerWithinLimits ==
    ASSUME TypeOK, TypeOK', QuotaNeverExceeded, [Ledger!LedgerNext]_<<used, storage>>
    PROVE  QuotaNeverExceeded'
<1>0. \A x \in Resources : Limits[x] \in Nat
  BY QuotaAssumption DEF QuotaAssumption
<1>00. /\ \A n \in Months, x \in Monthly : used[n][x] \in Nat /\ used'[n][x] \in Nat
       /\ storage \in Nat /\ storage' \in Nat
  BY DEF TypeOK
<1>1. CASE UNCHANGED <<used, storage>>
  BY <1>1 DEF QuotaNeverExceeded
<1>2. ASSUME NEW m \in Months, Ledger!ChargeAccount(m)
      PROVE  QuotaNeverExceeded'
  <2>1. ASSUME NEW n \in Months, NEW x \in Monthly
        PROVE  used'[n][x] <= Limits[x]
    <3>1. CASE n = m
      BY <1>0, <1>00, <1>2, <3>1 DEF Ledger!ChargeAccount, Ledger!Raises, QuotaNeverExceeded, Resources
    <3>2. CASE n # m
      BY <1>2, <3>2 DEF Ledger!ChargeAccount, Ledger!OnlyMonth, QuotaNeverExceeded
    <3> QED BY <3>1, <3>2
  <2>2. storage' <= Limits["storage"]
    BY <1>0, <1>00, <1>2 DEF Ledger!ChargeAccount, Ledger!Raises, QuotaNeverExceeded, Resources
  <2> QED BY <2>1, <2>2 DEF QuotaNeverExceeded
<1>3. ASSUME NEW m \in Months, Ledger!RefundAccount(m)
      PROVE  QuotaNeverExceeded'
  <2>1. ASSUME NEW n \in Months, NEW x \in Monthly
        PROVE  used'[n][x] <= Limits[x]
    <3>1. CASE n = m
      <4>1. used'[n][x] <= used[n][x] /\ used[n][x] <= Limits[x] /\ Limits[x] \in Nat
        BY <1>0, <1>3, <3>1 DEF Ledger!RefundAccount, Ledger!Lowers, QuotaNeverExceeded, Resources
      <4> QED BY <1>00, <4>1
    <3>2. CASE n # m
      BY <1>3, <3>2 DEF Ledger!RefundAccount, Ledger!OnlyMonth, QuotaNeverExceeded
    <3> QED BY <3>1, <3>2
  <2>2. storage' <= Limits["storage"]
    BY <1>0, <1>00, <1>3 DEF Ledger!RefundAccount, Ledger!Lowers, QuotaNeverExceeded, Resources
  <2> QED BY <2>1, <2>2 DEF QuotaNeverExceeded
<1> QED BY <1>1, <1>2, <1>3 DEF Ledger!LedgerNext

(* No counter of any month ever passes its limit, whatever faults happen.  *)
THEOREM WithinLimits == Spec => []QuotaNeverExceeded
<1>1. Spec => [](TypeOK /\ CheckedFits)
  BY QuotaAssumption, TypeInit, TypeStep, SafetyInit, CheckedInductive, PTL DEF Spec
<1>2. Init => QuotaNeverExceeded
  BY QuotaAssumption, SafetyInit
<1>3. ASSUME TypeOK, TypeOK', CheckedFits, QuotaNeverExceeded, [Next]_vars
      PROVE  QuotaNeverExceeded'
  BY <1>3, LedgerStep, LedgerWithinLimits
<1> QED BY <1>1, <1>2, <1>3, PTL DEF Spec

-----------------------------------------------------------------------------
(* Sums over finite sets.  MapThenSumSet is a fold, that is, a recursive   *)
(* function on the subsets of a set; that it is defined at all, and does   *)
(* not depend on the order of the elements, follows from a least subset    *)
(* that would be an exception.                                             *)

LEMMA LeastSubset ==
    ASSUME NEW S, IsFiniteSet(S), NEW Bad, Bad \subseteq SUBSET S, Bad # {}
    PROVE  \E T \in Bad : \A U \in Bad : U \subseteq T => U = T
<1>1. FiniteSubsetsOf(S) = SUBSET S
  BY FS_FiniteSubsetsOfFinite
<1>2. IsWellFoundedOn(StrictSubsetOrdering(S), SUBSET S)
  BY <1>1, FS_StrictSubsetOrderingWellFounded
<1>3. PICK T \in Bad : \A U \in Bad : ~ (<<U, T>> \in StrictSubsetOrdering(S))
  BY <1>2, WFMin
<1> QED BY <1>3 DEF StrictSubsetOrdering

First(s) == CHOOSE x \in s : TRUE

(* h is the sum of g over each subset of S.                                *)
Sums(h, g, S) ==
    h = [s \in SUBSET S |-> IF s = {} THEN 0 ELSE g[First(s)] + h[s \ {First(s)}]]

Total(g, S) == (CHOOSE h : Sums(h, g, S))[S]

LEMMA FirstIn == ASSUME NEW s, s # {} PROVE First(s) \in s
BY DEF First

LEMMA SumsAt ==
    ASSUME NEW S, NEW g, NEW h, Sums(h, g, S), NEW s \in SUBSET S
    PROVE  h[s] = IF s = {} THEN 0 ELSE g[First(s)] + h[s \ {First(s)}]
<1>1. h = [t \in SUBSET S |-> IF t = {} THEN 0 ELSE g[First(t)] + h[t \ {First(t)}]]
  BY DEF Sums
<1> DEFINE k == [t \in SUBSET S |-> IF t = {} THEN 0 ELSE g[First(t)] + h[t \ {First(t)}]]
<1>2. k[s] = IF s = {} THEN 0 ELSE g[First(s)] + h[s \ {First(s)}]
  OBVIOUS
<1>3. h = k
  BY <1>1
<1> HIDE DEF k
<1> QED BY <1>2, <1>3

LEMMA SumsAgree ==
    ASSUME NEW S, IsFiniteSet(S), NEW T \in SUBSET S, NEW g, NEW h, NEW k,
           Sums(h, g, S), Sums(k, g, T)
    PROVE  \A s \in SUBSET T : h[s] = k[s]
<1> DEFINE Bad == {s \in SUBSET T : h[s] # k[s]}
<1> SUFFICES ASSUME Bad # {} PROVE FALSE
  OBVIOUS
<1>1. IsFiniteSet(T)
  BY FS_Subset
<1>2. PICK s \in Bad : \A u \in Bad : u \subseteq s => u = s
  <2>1. Bad \subseteq SUBSET T
    OBVIOUS
  <2> HIDE DEF Bad
  <2> QED BY <1>1, <2>1, LeastSubset
<1>3. s \in SUBSET S /\ s \in SUBSET T
  OBVIOUS
<1>4. s # {}
  <2>1. s = {} => h[s] = 0
    BY <1>3, SumsAt
  <2>2. s = {} => k[s] = 0
    BY <1>3, SumsAt
  <2>3. h[s] # k[s]
    OBVIOUS
  <2> HIDE DEF Bad
  <2> QED BY <2>1, <2>2, <2>3
<1>5. First(s) \in s
  BY <1>4, FirstIn
<1>6. h[s \ {First(s)}] = k[s \ {First(s)}]
  BY <1>2, <1>5
<1>7. h[s] = g[First(s)] + h[s \ {First(s)}]
  <2>1. h[s] = IF s = {} THEN 0 ELSE g[First(s)] + h[s \ {First(s)}]
    <3> HIDE DEF Bad
    <3> QED BY <1>3, SumsAt
  <2> QED BY <1>4, <2>1
<1>8. k[s] = g[First(s)] + k[s \ {First(s)}]
  BY <1>3, <1>4, SumsAt
<1>9. h[s] # k[s]
  OBVIOUS
<1> QED BY <1>6, <1>7, <1>8, <1>9

LEMMA SumsExist ==
    ASSUME NEW S, IsFiniteSet(S), NEW g
    PROVE  \E h : Sums(h, g, S)
<1> DEFINE Bad == {T \in SUBSET S : ~ \E h : Sums(h, g, T)}
<1> SUFFICES ASSUME Bad # {} PROVE FALSE
  OBVIOUS
<1>1. PICK T \in Bad : \A U \in Bad : U \subseteq T => U = T
  <2>1. Bad \subseteq SUBSET S
    OBVIOUS
  <2> HIDE DEF Bad
  <2> QED BY <2>1, LeastSubset
<1> DEFINE H(U) == CHOOSE h : Sums(h, g, U)
<1>2. \A U \in SUBSET T : U # T => Sums(H(U), g, U)
  BY <1>1
<1>3. T \in SUBSET S /\ IsFiniteSet(T)
  BY FS_Subset
<1> DEFINE h == [s \in SUBSET T |-> IF s = {} THEN 0
                                    ELSE g[First(s)] + H(s \ {First(s)})[s \ {First(s)}]]
<1>4. ASSUME NEW s \in SUBSET T, s # T
      PROVE  h[s] = H(s)[s]
  <2>1. Sums(H(s), g, s)
    BY <1>2, <1>4
  <2> HIDE DEF H
  <2>2. H(s)[s] = IF s = {} THEN 0 ELSE g[First(s)] + H(s)[s \ {First(s)}]
    BY <2>1, SumsAt
  <2>3. CASE s = {}
    BY <2>2, <2>3
  <2>4. CASE s # {}
    <3>1. First(s) \in s
      BY <2>4, FirstIn
    <3>2. Sums(H(s \ {First(s)}), g, s \ {First(s)})
      BY <1>2, <3>1
    <3>3. IsFiniteSet(s)
      BY <1>3, FS_Subset
    <3>4. H(s)[s \ {First(s)}] = H(s \ {First(s)})[s \ {First(s)}]
      BY <2>1, <3>2, <3>3, SumsAgree
    <3>5. h[s] = g[First(s)] + H(s \ {First(s)})[s \ {First(s)}]
      BY <2>4
    <3> QED BY <2>2, <2>4, <3>4, <3>5
  <2> QED BY <2>3, <2>4
<1>5. ASSUME NEW s \in SUBSET T, s # {}
      PROVE  h[s \ {First(s)}] = H(s \ {First(s)})[s \ {First(s)}]
  <2>1. First(s) \in s
    BY <1>5, FirstIn
  <2> HIDE DEF h, H
  <2> QED BY <1>4, <2>1
<1>6. Sums(h, g, T)
  <2>1. h = [s \in SUBSET T |-> IF s = {} THEN 0 ELSE g[First(s)] + h[s \ {First(s)}]]
    <3>1. h = [s \in SUBSET T |-> h[s]]
      OBVIOUS
    <3>2. ASSUME NEW s \in SUBSET T
          PROVE  h[s] = IF s = {} THEN 0 ELSE g[First(s)] + h[s \ {First(s)}]
      <4>1. h[s] = IF s = {} THEN 0 ELSE g[First(s)] + H(s \ {First(s)})[s \ {First(s)}]
        OBVIOUS
      <4> HIDE DEF h, H
      <4> QED BY <1>5, <4>1
    <3> HIDE DEF h
    <3> QED BY <3>1, <3>2
  <2> HIDE DEF h
  <2> QED BY <2>1 DEF Sums
<1> QED BY <1>6

LEMMA TotalStep ==
    ASSUME NEW S, IsFiniteSet(S), NEW g
    PROVE  Total(g, S) = IF S = {} THEN 0 ELSE g[First(S)] + Total(g, S \ {First(S)})
<1> DEFINE h == CHOOSE k : Sums(k, g, S)
           k == CHOOSE j : Sums(j, g, S \ {First(S)})
<1>1. Sums(h, g, S)
  BY SumsExist
<1>2. IsFiniteSet(S \ {First(S)})
  BY FS_Subset
<1>3. Sums(k, g, S \ {First(S)})
  BY <1>2, SumsExist
<1>4. h[S \ {First(S)}] = k[S \ {First(S)}]
  <2> HIDE DEF h, k
  <2> QED BY <1>1, <1>3, SumsAgree
<1>5. h[S] = IF S = {} THEN 0 ELSE g[First(S)] + h[S \ {First(S)}]
  <2> HIDE DEF h
  <2> QED BY <1>1, SumsAt
<1>6. Total(g, S) = h[S] /\ Total(g, S \ {First(S)}) = k[S \ {First(S)}]
  BY DEF Total
<1> HIDE DEF h, k
<1> QED BY <1>4, <1>5, <1>6

LEMMA TotalNat ==
    ASSUME NEW S, IsFiniteSet(S), NEW g, \A x \in S : g[x] \in Nat
    PROVE  Total(g, S) \in Nat
<1> DEFINE Bad == {T \in SUBSET S : Total(g, T) \notin Nat}
<1> SUFFICES ASSUME Bad # {} PROVE FALSE
  OBVIOUS
<1>1. PICK T \in Bad : \A U \in Bad : U \subseteq T => U = T
  <2>1. Bad \subseteq SUBSET S
    OBVIOUS
  <2> HIDE DEF Bad
  <2> QED BY <2>1, LeastSubset
<1>2. IsFiniteSet(T)
  BY FS_Subset
<1>3. Total(g, T) = IF T = {} THEN 0 ELSE g[First(T)] + Total(g, T \ {First(T)})
  BY <1>2, TotalStep
<1>4. T # {} => First(T) \in T
  BY FirstIn
<1>5. T # {} => Total(g, T \ {First(T)}) \in Nat
  BY <1>1, <1>4
<1>6. T # {} => g[First(T)] \in Nat
  BY <1>4
<1> QED BY <1>3, <1>5, <1>6

(* Any element may be added first.                                         *)
LEMMA TotalWithout ==
    ASSUME NEW S, IsFiniteSet(S), NEW g, \A x \in S : g[x] \in Nat, NEW e \in S
    PROVE  Total(g, S) = g[e] + Total(g, S \ {e})
<1> DEFINE Bad == {T \in SUBSET S : \E x \in T : Total(g, T) # g[x] + Total(g, T \ {x})}
<1> SUFFICES ASSUME Bad # {} PROVE FALSE
  OBVIOUS
<1>1. PICK T \in Bad : \A U \in Bad : U \subseteq T => U = T
  <2>1. Bad \subseteq SUBSET S
    OBVIOUS
  <2> HIDE DEF Bad
  <2> QED BY <2>1, LeastSubset
<1>2. PICK x \in T : Total(g, T) # g[x] + Total(g, T \ {x})
  OBVIOUS
<1> DEFINE y == First(T)
<1>3. y \in T
  BY FirstIn
<1>4. IsFiniteSet(T) /\ IsFiniteSet(T \ {x}) /\ IsFiniteSet((T \ {x}) \ {y})
  BY FS_Subset
<1>5. Total(g, T) = g[y] + Total(g, T \ {y})
  BY <1>3, <1>4, TotalStep
<1>6. y # x
  BY <1>2, <1>5
<1> HIDE DEF y
<1>0. ASSUME NEW z \in T PROVE T \ {z} \in SUBSET S /\ T \ {z} \notin Bad
  <2>1. T \ {z} \subseteq T /\ T \ {z} # T
    OBVIOUS
  <2> QED BY <1>1, <2>1
<1>7. Total(g, T \ {y}) = g[x] + Total(g, (T \ {y}) \ {x})
  <2>1. T \ {y} \in SUBSET S /\ T \ {y} \notin Bad /\ x \in T \ {y}
    BY <1>0, <1>3, <1>6
  <2> QED BY <2>1
<1>8. Total(g, T \ {x}) = g[y] + Total(g, (T \ {x}) \ {y})
  <2>1. T \ {x} \in SUBSET S /\ T \ {x} \notin Bad /\ y \in T \ {x}
    BY <1>0, <1>3, <1>6
  <2> QED BY <2>1
<1>9. (T \ {x}) \ {y} = (T \ {y}) \ {x}
  OBVIOUS
<1>10. Total(g, (T \ {x}) \ {y}) \in Nat /\ g[x] \in Nat /\ g[y] \in Nat
  <2>1. g[x] \in Nat /\ g[y] \in Nat /\ \A z \in (T \ {x}) \ {y} : g[z] \in Nat
    BY <1>3
  <2> HIDE DEF Bad
  <2> QED BY <1>4, <2>1, TotalNat
<1> HIDE DEF Bad
<1> QED BY <1>2, <1>5, <1>7, <1>8, <1>9, <1>10

(* The sum grows with its terms and with its set.                          *)
LEMMA TotalAtMost ==
    ASSUME NEW S, IsFiniteSet(S), NEW g, NEW k, NEW c \in Nat,
           \A x \in S : g[x] \in Nat /\ k[x] \in Nat /\ g[x] <= c * k[x]
    PROVE  Total(g, S) <= c * Total(k, S)
<1> DEFINE Bad == {T \in SUBSET S : ~ (Total(g, T) <= c * Total(k, T))}
<1> SUFFICES ASSUME Bad # {} PROVE FALSE
  OBVIOUS
<1>1. PICK T \in Bad : \A U \in Bad : U \subseteq T => U = T
  <2>1. Bad \subseteq SUBSET S
    OBVIOUS
  <2> HIDE DEF Bad
  <2> QED BY <2>1, LeastSubset
<1>2. IsFiniteSet(T)
  BY FS_Subset
<1>3. /\ Total(g, T) = IF T = {} THEN 0 ELSE g[First(T)] + Total(g, T \ {First(T)})
      /\ Total(k, T) = IF T = {} THEN 0 ELSE k[First(T)] + Total(k, T \ {First(T)})
  BY <1>2, TotalStep
<1>4. T # {}
  BY <1>3
<1> DEFINE x == First(T)
           a == Total(g, T \ {x})
           b == Total(k, T \ {x})
<1>5. x \in T
  BY <1>4, FirstIn
<1>6. a <= c * b
  BY <1>1, <1>5
<1>7. a \in Nat /\ b \in Nat /\ g[x] \in Nat /\ k[x] \in Nat /\ g[x] <= c * k[x]
  <2>1. IsFiniteSet(T \ {x}) /\ (\A z \in T \ {x} : g[z] \in Nat) /\ (\A z \in T \ {x} : k[z] \in Nat)
    BY <1>2, FS_Subset
  <2>2. Total(g, T \ {x}) \in Nat /\ Total(k, T \ {x}) \in Nat
    <3> HIDE DEF x, Bad
    <3> QED BY <2>1, TotalNat
  <2> QED BY <1>5, <2>2
<1>8. Total(g, T) = g[x] + a /\ Total(k, T) = k[x] + b
  BY <1>3, <1>4
<1>9. ~ (Total(g, T) <= c * Total(k, T))
  OBVIOUS
<1> HIDE DEF x, a, b, Bad
<1>10. c * (k[x] + b) = c * k[x] + c * b /\ c * k[x] \in Nat /\ c * b \in Nat
  BY <1>7
<1> QED BY <1>6, <1>7, <1>8, <1>9, <1>10

LEMMA TotalSame ==
    ASSUME NEW S, IsFiniteSet(S), NEW g, NEW k, \A x \in S : g[x] = k[x]
    PROVE  Total(g, S) = Total(k, S)
<1> DEFINE Bad == {T \in SUBSET S : Total(g, T) # Total(k, T)}
<1> SUFFICES ASSUME Bad # {} PROVE FALSE
  OBVIOUS
<1>1. PICK T \in Bad : \A U \in Bad : U \subseteq T => U = T
  <2>1. Bad \subseteq SUBSET S
    OBVIOUS
  <2> HIDE DEF Bad
  <2> QED BY <2>1, LeastSubset
<1>2. IsFiniteSet(T)
  BY FS_Subset
<1>3. /\ Total(g, T) = IF T = {} THEN 0 ELSE g[First(T)] + Total(g, T \ {First(T)})
      /\ Total(k, T) = IF T = {} THEN 0 ELSE k[First(T)] + Total(k, T \ {First(T)})
  BY <1>2, TotalStep
<1>4. T # {} => First(T) \in T
  BY FirstIn
<1> QED BY <1>1, <1>3, <1>4

LEMMA TotalUpdate ==
    ASSUME NEW S, IsFiniteSet(S), NEW g, NEW k, NEW e \in S,
           \A x \in S : g[x] \in Nat /\ k[x] \in Nat,
           \A x \in S \ {e} : g[x] = k[x]
    PROVE  /\ Total(g, S) \in Nat /\ Total(k, S) \in Nat
           /\ g[e] <= Total(g, S) /\ k[e] <= Total(k, S)
           /\ Total(k, S) = Total(g, S) - g[e] + k[e]
<1>1. IsFiniteSet(S \ {e})
  BY FS_Subset
<1>2. Total(g, S \ {e}) = Total(k, S \ {e})
  BY <1>1, TotalSame
<1>3. Total(g, S) = g[e] + Total(g, S \ {e}) /\ Total(k, S) = k[e] + Total(k, S \ {e})
  BY TotalWithout
<1>4. Total(g, S \ {e}) \in Nat
  BY <1>1, TotalNat
<1> QED BY <1>2, <1>3, <1>4

LEMMA TotalPart ==
    ASSUME NEW S, IsFiniteSet(S), NEW T \in SUBSET S, NEW g, \A x \in S : g[x] \in Nat
    PROVE  Total(g, T) = Total([x \in S |-> IF x \in T THEN g[x] ELSE 0], S)
<1> DEFINE k == [x \in S |-> IF x \in T THEN g[x] ELSE 0]
           Bad == {U \in SUBSET S : Total(g, U \cap T) # Total(k, U)}
<1> SUFFICES ASSUME Bad # {} PROVE FALSE
  <2>1. S \cap T = T /\ S \in SUBSET S
    OBVIOUS
  <2>2. Bad = {} => Total(g, S \cap T) = Total(k, S)
    <3> HIDE DEF k
    <3> QED BY <2>1
  <2>3. Bad = {} => Total(g, T) = Total(k, S)
    BY <2>1, <2>2
  <2> QED BY <2>3
<1>1. PICK U \in Bad : \A V \in Bad : V \subseteq U => V = U
  <2>1. Bad \subseteq SUBSET S
    OBVIOUS
  <2> HIDE DEF Bad
  <2> QED BY <2>1, LeastSubset
<1>2. IsFiniteSet(U) /\ IsFiniteSet(U \cap T)
  BY FS_Subset
<1>3. \A x \in S : k[x] = IF x \in T THEN g[x] ELSE 0
  OBVIOUS
<1> HIDE DEF k
<1>4. U # {}
  <2>1. Total(k, {}) = 0 /\ Total(g, {}) = 0
    BY TotalStep, FS_EmptySet
  <2>2. {} \cap T = {}
    OBVIOUS
  <2> QED BY <2>1, <2>2
<1>5. PICK x \in U : TRUE
  BY <1>4
<1>6. Total(k, U) = k[x] + Total(k, U \ {x})
  <2>1. \A y \in U : k[y] \in Nat
    BY <1>3
  <2> HIDE DEF Bad
  <2> QED BY <1>2, <2>1, TotalWithout
<1>7. Total(g, (U \ {x}) \cap T) = Total(k, U \ {x})
  BY <1>1
<1>8. Total(k, U \ {x}) \in Nat
  <2>1. IsFiniteSet(U \ {x}) /\ \A y \in U \ {x} : k[y] \in Nat
    BY <1>2, <1>3, FS_Subset
  <2> HIDE DEF Bad
  <2> QED BY <2>1, TotalNat
<1>9. CASE x \in T
  <2>1. \A y \in U \cap T : g[y] \in Nat
    OBVIOUS
  <2>2. Total(g, U \cap T) = g[x] + Total(g, (U \cap T) \ {x})
    <3>1. x \in U \cap T
      BY <1>9
    <3> HIDE DEF Bad
    <3> QED BY <1>2, <2>1, <3>1, TotalWithout
  <2>3. (U \cap T) \ {x} = (U \ {x}) \cap T
    OBVIOUS
  <2>4. k[x] = g[x]
    BY <1>3, <1>9
  <2> QED BY <1>6, <1>7, <2>2, <2>3, <2>4
<1>10. CASE x \notin T
  <2>1. U \cap T = (U \ {x}) \cap T
    BY <1>10
  <2>2. k[x] = 0
    BY <1>3, <1>10
  <2> QED BY <1>6, <1>7, <1>8, <2>1, <2>2
<1> QED BY <1>9, <1>10

-----------------------------------------------------------------------------
(* The books                                                               *)

(* What is known of a request wherever it is: what its UsageDelta has come *)
(* to, and whether its file is on disk and its row stored.                 *)
Shape(r) ==
    /\ pc[r] = "idle" => usage[r] = NoUsage /\ kind[r] = "upload"
    /\ pc[r] \in {"idle", "reserve", "call", "store"} => size[r] = 0
    /\ usage[r]["storage"] = usage[r]["bytes"]
    /\ kind[r] = "summary" => usage[r]["bytes"] = 0 /\ size[r] = 0 /\ attempts[r] = 0
    /\ kind[r] = "summary" => pc[r] \in {"reserve", "call", "done", "failed", "dead"}
    /\ pc[r] \in {"persist", "done", "unlink", "release", "worked", "purge"} => usage[r]["bytes"] = size[r]
    /\ pc[r] = "extra" => usage[r]["bytes"] < size[r]
    /\ pc[r] = "reduce" => size[r] < usage[r]["bytes"]
    /\ r \in onDisk => pc[r] \in {"extra", "reduce", "persist", "done", "worked", "unlink", "gone", "dead"}
    /\ pc[r] \in {"extra", "reduce", "persist", "unlink", "worked"} => r \in onDisk
    /\ pc[r] = "done" /\ kind[r] # "summary" => r \in onDisk
    /\ "ack" \notin env /\ r \in rows =>
          pc[r] \in {"done", "worked"} \/ (pc[r] \in {"purge", "gone"} /\ r \notin onDisk)
    /\ pc[r] \in {"worked", "purge"} => kind[r] = "batch"
    /\ attempts[r] > 0 => pc[r] \in {"done", "worked", "purge", "gone"}
    /\ kind[r] = "upload" => attempts[r] = 0
    /\ pc[r] = "call" => kind[r] = "summary"

ShapeInv == \A r \in Requests : Shape(r)

(* Without faults the month never turns.                                   *)
MonthInv == env = {} => month = 1 /\ \A r \in Requests : period[r] = 1

(* The part of storage_bytes that is there for request r, and the part of  *)
(* the month's counter of resource x.                                      *)
Owed(r) ==
    CASE pc[r] \in {"store", "extra", "reduce", "persist", "undo"} -> usage[r]["storage"]
      [] pc[r] \in Kept \cup {"unlink", "release"} -> size[r]
      [] pc[r] = "gone" -> IF r \in onDisk THEN size[r] ELSE 0
      [] OTHER -> 0

Spent(r, x) == IF pc[r] \in {"idle", "reserve", "failed", "dead"} THEN 0 ELSE usage[r][x]

AllOwed     == [r \in Requests |-> Owed(r)]
AllSpent(x) == [r \in Requests |-> Spent(r, x)]

(* The account is charged for every request, and for nothing else while    *)
(* nothing fails.                                                          *)
BooksInv ==
    /\ "ack" \notin env => Total(AllOwed, Requests) <= storage
    /\ env = {} => /\ Total(AllOwed, Requests) = storage
                   /\ \A x \in Monthly : Total(AllSpent(x), Requests) = used[month][x]

(* A step of request r touches no other request.                           *)
Acts(r) ==
    \/ StartRequest(r) \/ SummaryFromCache(r) \/ Step(r)
    \/ TxFails(r) \/ StoreFails(r) \/ RefundFails(r)
    \/ ChargeAckLost(r) \/ RefundAckLost(r) \/ PersistAckLost(r) \/ Crash(r)
    \/ BatchAttempt(r) \/ PurgeFile(r) \/ PurgeCommit(r) \/ DeleteEstimate(r)

Untouched(q) ==
    /\ pc'[q] = pc[q] /\ kind'[q] = kind[q] /\ usage'[q] = usage[q] /\ size'[q] = size[q]
    /\ attempts'[q] = attempts[q] /\ calls'[q] = calls[q]
    /\ q \in onDisk' <=> q \in onDisk
    /\ q \in rows' <=> q \in rows

OnlyFor(r) == env' = env /\ month' = month /\ \A q \in Requests \ {r} : Untouched(q)

LEMMA ActsAlone ==
    ASSUME TypeOK, NEW r \in Requests, Acts(r)
    PROVE  OnlyFor(r)
<1>0. /\ pc \in [Requests -> PCs] /\ kind \in [Requests -> Kinds] /\ usage \in [Requests -> Deltas]
      /\ size \in [Requests -> Nat] /\ attempts \in [Requests -> 0..MaxAttempts]
      /\ calls \in [Requests -> Nat]
  BY DEF TypeOK
<1> USE <1>0 DEF OnlyFor, Untouched, Goto, work, counters, locks
<1>1. CASE StartRequest(r)
  <2>1. PICK k \in Kinds, bytes \in Sizes : kind' = [kind EXCEPT ![r] = k]
                                            /\ usage' = [usage EXCEPT ![r] = UsageOf(k, bytes)]
    BY <1>1, Zenon DEF StartRequest
  <2> QED BY <1>1, <2>1 DEF StartRequest
<1>2. CASE SummaryFromCache(r) \/ TakeUsageLock(r) \/ CheckUsage(r) \/ CallProvider(r) \/ UnlinkFile(r)
  BY <1>2 DEF SummaryFromCache, TakeUsageLock, CheckUsage, CallProvider, UnlinkFile
<1>3. CASE QuotaRefused(r) \/ TxFails(r)
  BY <1>3 DEF QuotaRefused, TxFails, Refuse
<1>4. CASE Charge(r) \/ ChargeAckLost(r) \/ Refund(r) \/ RefundAckLost(r) \/ RefundFails(r)
  BY <1>4 DEF Charge, ChargeAckLost, ChargeCommit, Refund, RefundAckLost, RefundFails, RefundCommit
<1>5. CASE StoreFile(r)
  <2>1. PICK written \in Sizes, label \in {"extra", "reduce", "persist"} :
           size' = [size EXCEPT ![r] = written] /\ pc' = [pc EXCEPT ![r] = label]
    BY <1>5 DEF StoreFile
  <2> QED BY <1>5, <2>1 DEF StoreFile
<1>6. CASE Persist(r) \/ StoreFails(r) \/ PersistAckLost(r) \/ Crash(r)
  BY <1>6 DEF Persist, AfterPersist, StoreFails, PersistAckLost, Crash
<1>7. CASE BatchAttempt(r) \/ PurgeFile(r) \/ PurgeCommit(r) \/ DeleteEstimate(r)
  BY <1>7 DEF BatchAttempt, PurgeFile, PurgeCommit, DeleteEstimate
<1> HIDE DEF OnlyFor
<1> QED BY <1>1, <1>2, <1>3, <1>4, <1>5, <1>6, <1>7 DEF Acts, Step

LEMMA NextActs ==
    ASSUME [Next]_vars
    PROVE  MonthTurns \/ (\E r \in Requests : Acts(r)) \/ UNCHANGED vars
BY Zenon DEF Next, Acts

(* The components of the UsageDeltas.                                      *)
LEMMA UsageParts ==
    ASSUME NEW f, NEW n, NEW a, NEW b
    PROVE  LET d == Usage(f, n, a, b)
           IN  /\ d["files"] = f /\ d["bytes"] = n /\ d["ai"] = a /\ d["batches"] = b
               /\ d["storage"] = n
BY DEF Usage, Resources, Monthly

LEMMA ReducedParts ==
    ASSUME NEW r \in Requests
    PROVE  LET d == ReducedUsage(r)
           IN  /\ d["bytes"] = size[r] /\ d["storage"] = size[r]
               /\ d["files"] = usage[r]["files"] /\ d["ai"] = usage[r]["ai"]
               /\ d["batches"] = usage[r]["batches"]
BY DEF ReducedUsage, Resources, Monthly

LEMMA ShapeStep ==
    ASSUME QuotaAssumption, TypeOK, CheckedFits, NEW r \in Requests, Shape(r), Acts(r)
    PROVE  Shape(r)'
<1>0. /\ pc \in [Requests -> PCs] /\ kind \in [Requests -> Kinds] /\ usage \in [Requests -> Deltas]
      /\ size \in [Requests -> Nat] /\ attempts \in [Requests -> 0..MaxAttempts]
      /\ usage[r]["bytes"] \in Nat /\ size[r] \in Nat /\ attempts[r] \in Nat
      /\ env' = env /\ kind[r] \in Kinds
  BY ActsAlone DEF TypeOK, QuotaAssumption, Deltas, Resources, Monthly, OnlyFor
<1> USE <1>0 DEF Goto, work, counters, locks, Kinds
<1>1. CASE StartRequest(r)
  <2>1. PICK k \in Kinds, bytes \in Sizes : kind' = [kind EXCEPT ![r] = k]
                                            /\ usage' = [usage EXCEPT ![r] = UsageOf(k, bytes)]
    BY <1>1, Zenon DEF StartRequest
  <2>2. /\ pc[r] = "idle" /\ pc'[r] = "reserve" /\ kind'[r] = k /\ usage'[r] = UsageOf(k, bytes)
        /\ UNCHANGED <<size, attempts, onDisk, rows>>
    BY <1>1, <2>1 DEF StartRequest
  <2>3. /\ k = "summary" => usage'[r]["bytes"] = 0
        /\ usage'[r]["storage"] = usage'[r]["bytes"]
    BY <2>1, <2>2, UsageParts DEF UsageOf
  <2> QED BY <2>2, <2>3 DEF Shape
<1>2. CASE SummaryFromCache(r)
  <2>1. NoUsage["bytes"] = 0 /\ NoUsage["storage"] = 0
    BY DEF NoUsage, Resources, Monthly
  <2> QED BY <1>2, <2>1 DEF SummaryFromCache, Shape
<1>3. CASE TakeUsageLock(r) \/ CheckUsage(r)
  BY <1>3 DEF TakeUsageLock, CheckUsage, Shape
<1>4. CASE QuotaRefused(r) \/ TxFails(r)
  <2>1. /\ pc[r] \in {"reserve", "extra", "reduce"} /\ pc'[r] = AfterRefusal(r)
        /\ onDisk' = onDisk \ {r}
        /\ UNCHANGED <<kind, usage, size, rows, attempts>>
    BY <1>4 DEF QuotaRefused, TxFails, Refuse, Charging
  <2> QED BY <2>1 DEF AfterRefusal, Shape
<1>5. CASE Charge(r)
  <2>1. pc[r] \in {"reserve", "extra"}
    BY <1>5 DEF Charge, ChargeCommit, CheckedFits, Charging
  <2>2. /\ UNCHANGED <<kind, size, onDisk, rows, attempts>>
        /\ usage'[r] = IF pc[r] = "extra" THEN ReducedUsage(r) ELSE usage[r]
        /\ pc'[r] = CASE pc[r] = "extra"     -> "persist"
                      [] kind[r] = "summary" -> "call"
                      [] OTHER               -> "store"
    BY <1>5 DEF Charge
  <2>3. CASE pc[r] = "extra"
    BY <2>2, <2>3, ReducedParts DEF Shape
  <2>4. CASE pc[r] = "reserve"
    BY <2>2, <2>4 DEF Shape
  <2> QED BY <2>1, <2>3, <2>4
<1>6. CASE Refund(r)
  <2>1. /\ UNCHANGED <<kind, size, onDisk, rows, attempts>>
        /\ pc[r] \in {"reduce", "undo", "release"}
        /\ usage'[r] = IF pc[r] = "reduce" THEN ReducedUsage(r) ELSE usage[r]
        /\ pc'[r] = CASE pc[r] = "reduce"  -> "persist"
                      [] pc[r] = "release" -> "gone"
                      [] OTHER             -> "failed"
    BY <1>6 DEF Refund, RefundCommit, Refunding
  <2>3. CASE pc[r] = "reduce"
    BY <2>1, <2>3, ReducedParts DEF Shape
  <2>4. CASE pc[r] # "reduce"
    BY <2>1, <2>4 DEF Shape
  <2> QED BY <2>3, <2>4
<1>7. CASE RefundAckLost(r)
  BY <1>7 DEF RefundAckLost, Shape
<1>8. CASE RefundFails(r)
  BY <1>8 DEF RefundFails, Shape
<1>9. CASE StoreFile(r)
  <2>1. PICK written \in Sizes :
           /\ size' = [size EXCEPT ![r] = written]
           /\ pc' = [pc EXCEPT ![r] = CASE written > usage[r]["bytes"] -> "extra"
                                        [] written < usage[r]["bytes"] -> "reduce"
                                        [] OTHER                       -> "persist"]
    BY <1>9, Zenon DEF StoreFile
  <2>2. written \in Nat
    BY DEF QuotaAssumption
  <2>3. /\ pc[r] = "store" /\ onDisk' = onDisk \cup {r}
        /\ UNCHANGED <<kind, usage, rows, attempts>>
    BY <1>9 DEF StoreFile
  <2> QED BY <2>1, <2>2, <2>3 DEF Shape
<1>10. CASE StoreFails(r)
  BY <1>10 DEF StoreFails, Shape
<1>11. CASE Persist(r)
  BY <1>11 DEF Persist, AfterPersist, Shape
<1>12. CASE PersistAckLost(r)
  BY <1>12 DEF PersistAckLost, Shape
<1>13. CASE CallProvider(r)
  <2>1. pc[r] = "call" /\ pc'[r] = "done"
        /\ UNCHANGED <<kind, usage, size, onDisk, rows, attempts>>
    BY <1>13 DEF CallProvider
  <2> QED BY <2>1 DEF Shape
<1>14. CASE BatchAttempt(r)
  <2>1. /\ pc[r] = "done" /\ kind[r] = "batch" /\ pc'[r] \in {"done", "worked"}
        /\ attempts'[r] = attempts[r] + 1
        /\ UNCHANGED <<kind, usage, size, onDisk, rows>>
    BY <1>14 DEF BatchAttempt
  <2> QED BY <2>1 DEF Shape
<1>15. CASE PurgeFile(r)
  BY <1>15 DEF PurgeFile, Shape
<1>16. CASE PurgeCommit(r)
  BY <1>16 DEF PurgeCommit, Shape
<1>17. CASE DeleteEstimate(r)
  BY <1>17 DEF DeleteEstimate, Shape
<1>18. CASE UnlinkFile(r)
  BY <1>18 DEF UnlinkFile, Shape
<1>19. CASE Crash(r)
  BY <1>19 DEF Crash, Running, Charging, Refunding, Shape
<1>20. CASE ChargeAckLost(r)
  <2>1. pc[r] \in {"reserve", "extra"}
    BY <1>20 DEF ChargeAckLost, ChargeCommit, CheckedFits, Charging
  <2>2. /\ UNCHANGED <<kind, usage, size, rows, attempts>>
        /\ pc'[r] = AfterRefusal(r) /\ onDisk' = onDisk \ {r} /\ "ack" \in env
    BY <1>20 DEF ChargeAckLost
  <2> QED BY <2>1, <2>2 DEF AfterRefusal, Shape
<1> QED BY <1>1, <1>2, <1>3, <1>4, <1>5, <1>6, <1>7, <1>8, <1>9, <1>10, <1>11, <1>12, <1>13, <1>14,
           <1>15, <1>16, <1>17, <1>18, <1>19, <1>20 DEF Acts, Step

(* The parts are numbers.                                                  *)
LEMMA PartTypes ==
    ASSUME TypeOK, NEW r \in Requests
    PROVE  Owed(r) \in Nat /\ \A x \in Monthly : Spent(r, x) \in Nat
<1>1. usage[r] \in Deltas /\ size[r] \in Nat
  BY DEF TypeOK
<1> QED BY <1>1 DEF Owed, Spent, Deltas, Resources

LEMMA NextPartTypes ==
    ASSUME TypeOK', NEW r \in Requests
    PROVE  Owed(r)' \in Nat /\ \A x \in Monthly : Spent(r, x)' \in Nat
<1>1. usage'[r] \in Deltas /\ size'[r] \in Nat
  BY DEF TypeOK
<1> QED BY <1>1 DEF Owed, Spent, Deltas, Resources

(* A step of r moves its part of storage_bytes in or out, or loses track   *)
(* of it, for which something must fail.                                   *)
LEMMA OwedStep ==
    ASSUME QuotaAssumption, TypeOK, CheckedFits, NEW r \in Requests, Shape(r), Acts(r),
           "ack" \notin env, Owed(r) <= storage
    PROVE  \/ storage' = storage - Owed(r) + Owed(r)'
           \/ env # {} /\ storage' = storage /\ Owed(r)' <= Owed(r)
<1>0. /\ pc \in [Requests -> PCs] /\ kind \in [Requests -> Kinds] /\ usage \in [Requests -> Deltas]
      /\ size \in [Requests -> Nat] /\ storage \in Nat
      /\ usage[r]["bytes"] \in Nat /\ usage[r]["storage"] \in Nat /\ size[r] \in Nat
  BY DEF TypeOK, Deltas, Resources, Monthly
<1>00. Owed(r) \in Nat
  BY PartTypes
<1> USE <1>0 DEF Goto, work, counters, locks, Kept
<1>1. CASE StartRequest(r)
  <2>1. /\ pc[r] = "idle" /\ pc'[r] = "reserve" /\ UNCHANGED storage
    BY <1>1 DEF StartRequest
  <2> QED BY <2>1 DEF Owed
<1>2. CASE SummaryFromCache(r)
  <2>1. /\ pc[r] = "idle" /\ pc'[r] = "done" /\ UNCHANGED <<size, storage>>
    BY <1>2 DEF SummaryFromCache
  <2> QED BY <2>1 DEF Owed, Shape
<1>3. CASE TakeUsageLock(r) \/ CheckUsage(r)
  <2>1. Owed(r)' = Owed(r) /\ storage' = storage
    BY <1>3 DEF TakeUsageLock, CheckUsage, Owed
  <2> QED BY <1>00, <2>1
<1>4. CASE QuotaRefused(r) \/ TxFails(r)
  <2>1. /\ pc[r] \in {"reserve", "extra", "reduce"} /\ pc'[r] = AfterRefusal(r)
        /\ UNCHANGED <<usage, size, storage>>
    BY <1>4 DEF QuotaRefused, TxFails, Refuse, Charging
  <2> QED BY <2>1 DEF AfterRefusal, Owed
<1>5. CASE Charge(r)
  <2>1. pc[r] \in {"reserve", "extra"} /\ storage' = storage + Delta(r)["storage"]
    BY <1>5 DEF Charge, ChargeCommit, CheckedFits, Charging, Add
  <2>2. /\ UNCHANGED size
        /\ pc[r] = "extra" => pc'[r] = "persist" /\ usage'[r] = ReducedUsage(r)
        /\ pc[r] = "reserve" => /\ usage'[r] = usage[r]
                               /\ pc'[r] = IF kind[r] = "summary" THEN "call" ELSE "store"
    <3>1. /\ UNCHANGED size
          /\ usage' = [usage EXCEPT ![r] = IF pc[r] = "extra" THEN ReducedUsage(r) ELSE @]
          /\ pc' = [pc EXCEPT ![r] = CASE pc[r] = "extra"     -> "persist"
                                       [] kind[r] = "summary" -> "call"
                                       [] OTHER               -> "store"]
      BY <1>5 DEF Charge
    <3>2. CASE pc[r] = "extra"
      <4>1. kind[r] # "summary"
        BY <3>2 DEF Shape
      <4> QED BY <3>1, <3>2, <4>1
    <3>3. CASE pc[r] = "reserve" /\ kind[r] = "summary"
      BY <3>1, <3>3
    <3>4. CASE pc[r] = "reserve" /\ kind[r] # "summary"
      BY <3>1, <3>4
    <3> QED BY <3>1, <3>2, <3>3, <3>4
  <2>3. CASE pc[r] = "extra"
    <3>1. Delta(r)["storage"] = size[r] - usage[r]["bytes"]
      <4>1. usage[r]["bytes"] < size[r]
        BY <2>3 DEF Shape
      <4>2. Delta(r)["storage"] = Minus(size[r], usage[r]["bytes"])
        BY <2>3, UsageParts DEF Delta, Bytes
      <4> QED BY <4>1, <4>2 DEF Minus
    <3>2. Owed(r) = usage[r]["bytes"]
      BY <2>3 DEF Owed, Shape
    <3>3. Owed(r)' = size[r]
      <4>1. pc'[r] = "persist" /\ usage'[r] = ReducedUsage(r)
        BY <2>2, <2>3
      <4>2. ReducedUsage(r)["storage"] = size[r]
        BY ReducedParts
      <4> QED BY <4>1, <4>2 DEF Owed
    <3>4. storage' = storage - usage[r]["bytes"] + size[r]
      BY <2>1, <3>1
    <3> QED BY <3>2, <3>3, <3>4
  <2>4. CASE pc[r] = "reserve"
    <3>1. Delta(r) = usage[r]
      BY <2>4 DEF Delta
    <3>2. kind[r] = "summary" => usage[r]["storage"] = 0
      BY DEF Shape
    <3> QED BY <2>1, <2>2, <2>4, <3>1, <3>2 DEF Owed
  <2> QED BY <2>1, <2>3, <2>4
<1>6. CASE Refund(r)
  <2>1. /\ UNCHANGED <<size, onDisk>>
        /\ pc[r] \in {"reduce", "undo", "release"}
        /\ usage'[r] = IF pc[r] = "reduce" THEN ReducedUsage(r) ELSE usage[r]
        /\ pc'[r] = CASE pc[r] = "reduce"  -> "persist"
                      [] pc[r] = "release" -> "gone"
                      [] OTHER             -> "failed"
        /\ storage' = Minus(storage, Delta(r)["storage"])
    BY <1>6 DEF Refund, RefundCommit, Refunding, Subtract
  <2>3. CASE pc[r] = "reduce"
    <3>1. Delta(r)["storage"] = usage[r]["bytes"] - size[r] /\ size[r] < usage[r]["bytes"]
      <4>1. size[r] < usage[r]["bytes"]
        BY <2>3 DEF Shape
      <4>2. Delta(r)["storage"] = Minus(usage[r]["bytes"], size[r])
        BY <2>3, UsageParts DEF Delta, Bytes
      <4> QED BY <4>1, <4>2 DEF Minus
    <3>2. Owed(r) = usage[r]["bytes"]
      BY <2>3 DEF Owed, Shape
    <3>3. Owed(r)' = size[r]
      BY <2>1, <2>3, ReducedParts DEF Owed
    <3> QED BY <2>1, <3>1, <3>2, <3>3 DEF Minus
  <2>4. CASE pc[r] = "undo"
    <3>1. Delta(r) = usage[r]
      BY <2>4 DEF Delta
    <3> QED BY <2>1, <2>4, <3>1 DEF Owed, Minus
  <2>5. CASE pc[r] = "release"
    <3>1. Delta(r)["storage"] = size[r]
      BY <2>5 DEF Delta, Storage, NoUsage, Resources
    <3>2. r \notin onDisk
      BY <2>5 DEF Shape
    <3> QED BY <2>1, <2>5, <3>1, <3>2 DEF Owed, Minus
  <2> QED BY <2>1, <2>3, <2>4, <2>5
<1>7. CASE ChargeAckLost(r) \/ RefundAckLost(r) \/ PersistAckLost(r)
  BY <1>7 DEF ChargeAckLost, RefundAckLost, PersistAckLost
<1>8. CASE RefundFails(r)
  <2>1. /\ env # {} /\ pc[r] \in {"undo", "release"} /\ pc'[r] = IF pc[r] = "release" THEN "gone" ELSE "failed"
        /\ UNCHANGED <<size, onDisk, storage>>
    BY <1>8 DEF RefundFails
  <2> QED BY <1>00, <2>1 DEF Owed
<1>9. CASE StoreFile(r)
  <2>1. PICK label \in {"extra", "reduce", "persist"} : pc' = [pc EXCEPT ![r] = label]
    BY <1>9 DEF StoreFile
  <2>2. pc[r] = "store" /\ UNCHANGED <<usage, storage>>
    BY <1>9 DEF StoreFile
  <2> QED BY <2>1, <2>2 DEF Owed
<1>10. CASE StoreFails(r)
  BY <1>10 DEF StoreFails, Owed
<1>11. CASE Persist(r)
  BY <1>11 DEF Persist, AfterPersist, Shape, Owed
<1>12. CASE CallProvider(r)
  <2>1. pc[r] = "call" /\ pc'[r] = "done" /\ UNCHANGED <<size, storage>>
    BY <1>12 DEF CallProvider
  <2> QED BY <2>1 DEF Owed, Shape
<1>13. CASE BatchAttempt(r)
  <2>1. pc[r] = "done" /\ pc'[r] \in {"done", "worked"} /\ UNCHANGED <<size, storage>>
    BY <1>13 DEF BatchAttempt
  <2> QED BY <2>1 DEF Owed
<1>14. CASE PurgeFile(r) \/ DeleteEstimate(r)
  BY <1>14 DEF PurgeFile, DeleteEstimate, Owed
<1>15. CASE PurgeCommit(r)
  <2>1. pc[r] = "purge" /\ pc'[r] = "gone" /\ storage' = Minus(storage, size[r]) /\ UNCHANGED <<size, onDisk>>
    BY <1>15 DEF PurgeCommit
  <2>2. r \notin onDisk
    BY <2>1 DEF Shape
  <2> QED BY <2>1, <2>2 DEF Owed, Minus
<1>16. CASE UnlinkFile(r)
  <2>1. /\ pc[r] = "unlink" /\ UNCHANGED <<size, storage>>
        /\ pc'[r] = "release" \/ (pc'[r] = "gone" /\ onDisk' = onDisk)
    BY <1>16 DEF UnlinkFile
  <2>2. r \in onDisk
    BY <2>1 DEF Shape
  <2> QED BY <2>1, <2>2 DEF Owed
<1>17. CASE Crash(r)
  <2>1. env # {} /\ pc'[r] = "dead" /\ UNCHANGED storage
    BY <1>17 DEF Crash
  <2> QED BY <1>00, <2>1 DEF Owed
<1> QED BY <1>1, <1>2, <1>3, <1>4, <1>5, <1>6, <1>7, <1>8, <1>9, <1>10, <1>11, <1>12, <1>13, <1>14,
           <1>15, <1>16, <1>17 DEF Acts, Step

(* The same for the counters of the month, when nothing fails.             *)
LEMMA SpentStep ==
    ASSUME QuotaAssumption, TypeOK, CheckedFits, NEW r \in Requests, Shape(r), Acts(r), env = {},
           month \in Months, period[r] = month, NEW x \in Monthly, Spent(r, x) <= used[month][x]
    PROVE  used'[month][x] = used[month][x] - Spent(r, x) + Spent(r, x)'
<1>0. /\ pc \in [Requests -> PCs] /\ kind \in [Requests -> Kinds] /\ usage \in [Requests -> Deltas]
      /\ size[r] \in Nat /\ usage[r][x] \in Nat /\ usage[r]["bytes"] \in Nat
      /\ used \in [Months -> [Monthly -> Nat]]
      /\ used[month] \in [Monthly -> Nat] /\ used[month][x] \in Nat
      /\ Spent(r, x) \in Nat /\ x \in {"files", "bytes", "ai", "batches"}
  BY PartTypes DEF TypeOK, Deltas, Resources, Monthly
<1>a. ASSUME used' = used, Spent(r, x)' = Spent(r, x)
      PROVE  used'[month][x] = used[month][x] - Spent(r, x) + Spent(r, x)'
  BY <1>0, <1>a
<1> USE <1>0 DEF Goto, work, counters, locks, Kept
<1>1. CASE StartRequest(r)
  <2>1. /\ pc[r] = "idle" /\ pc'[r] = "reserve" /\ used' = used
    BY <1>1 DEF StartRequest
  <2> QED BY <1>a, <2>1 DEF Spent
<1>2. CASE SummaryFromCache(r)
  <2>1. /\ pc[r] = "idle" /\ pc'[r] = "done" /\ UNCHANGED <<usage, used>>
    BY <1>2 DEF SummaryFromCache
  <2>2. usage[r][x] = 0
    BY <2>1 DEF Shape, NoUsage, Resources
  <2> QED BY <1>a, <2>1, <2>2 DEF Spent
<1>3. CASE TakeUsageLock(r) \/ CheckUsage(r)
  BY <1>a, <1>3 DEF TakeUsageLock, CheckUsage, Spent
<1>4. CASE QuotaRefused(r) \/ TxFails(r)
  <2>1. /\ pc[r] \in {"reserve", "extra", "reduce"} /\ pc'[r] = AfterRefusal(r)
        /\ UNCHANGED <<usage, used>>
    BY <1>4 DEF QuotaRefused, TxFails, Refuse, Charging
  <2> QED BY <1>a, <2>1 DEF AfterRefusal, Spent
<1>5. CASE Charge(r)
  <2>1. pc[r] \in {"reserve", "extra"} /\ Add(month, Delta(r))
    BY <1>5 DEF Charge, ChargeCommit, CheckedFits, Charging
  <2>2. used'[month][x] = used[month][x] + Delta(r)[x]
    <3>1. used' = [used EXCEPT ![month] = [y \in Monthly |-> used[month][y] + Delta(r)[y]]]
      BY <2>1, Zenon DEF Add
    <3> QED BY <3>1
  <2>3. CASE pc[r] = "extra"
    <3>1. kind[r] # "summary" /\ usage[r]["bytes"] < size[r]
      BY <2>3 DEF Shape
    <3>2. pc'[r] = "persist" /\ usage'[r] = ReducedUsage(r)
      BY <1>5, <2>3, <3>1 DEF Charge
    <3>3. Delta(r)[x] = IF x = "bytes" THEN size[r] - usage[r]["bytes"] ELSE 0
      <4>1. Delta(r) = Usage(0, Minus(size[r], usage[r]["bytes"]), 0, 0)
        BY <2>3 DEF Delta, Bytes
      <4>2. Minus(size[r], usage[r]["bytes"]) = size[r] - usage[r]["bytes"]
        BY <3>1 DEF Minus
      <4> QED BY <4>1, <4>2, UsageParts
    <3>4. Spent(r, x) = usage[r][x]
      BY <2>3 DEF Spent
    <3>5. Spent(r, x)' = IF x = "bytes" THEN size[r] ELSE usage[r][x]
      BY <3>2, ReducedParts DEF Spent
    <3> QED BY <2>2, <3>3, <3>4, <3>5
  <2>4. CASE pc[r] = "reserve"
    <3>1. Delta(r) = usage[r]
      BY <2>4 DEF Delta
    <3>2. pc'[r] \in {"call", "store"} /\ usage'[r] = usage[r]
      BY <1>5, <2>4 DEF Charge
    <3>3. Spent(r, x) = 0 /\ Spent(r, x)' = usage[r][x]
      BY <2>4, <3>2 DEF Spent
    <3> QED BY <2>2, <3>1, <3>3
  <2> QED BY <2>1, <2>3, <2>4
<1>6. CASE Refund(r)
  <2>1. /\ pc[r] \in {"reduce", "undo", "release"}
        /\ Subtract(month, Delta(r))
        /\ usage'[r] = IF pc[r] = "reduce" THEN ReducedUsage(r) ELSE usage[r]
        /\ pc'[r] = CASE pc[r] = "reduce"  -> "persist"
                      [] pc[r] = "release" -> "gone"
                      [] OTHER             -> "failed"
    BY <1>6 DEF Refund, RefundCommit, Refunding
  <2>2. used'[month][x] = Minus(used[month][x], Delta(r)[x])
    <3>1. used' = [used EXCEPT ![month] = [y \in Monthly |-> Minus(used[month][y], Delta(r)[y])]]
      BY <2>1, Zenon DEF Subtract
    <3> QED BY <3>1
  <2>3. CASE pc[r] = "reduce"
    <3>1. size[r] < usage[r]["bytes"]
      BY <2>3 DEF Shape
    <3>2. pc'[r] = "persist" /\ usage'[r] = ReducedUsage(r)
      BY <2>1, <2>3
    <3>3. Delta(r)[x] = IF x = "bytes" THEN usage[r]["bytes"] - size[r] ELSE 0
      <4>1. Delta(r) = Usage(0, Minus(usage[r]["bytes"], size[r]), 0, 0)
        BY <2>3 DEF Delta, Bytes
      <4>2. Minus(usage[r]["bytes"], size[r]) = usage[r]["bytes"] - size[r]
        BY <3>1 DEF Minus
      <4> QED BY <4>1, <4>2, UsageParts
    <3>4. Spent(r, x) = usage[r][x]
      BY <2>3 DEF Spent
    <3>5. Spent(r, x)' = IF x = "bytes" THEN size[r] ELSE usage[r][x]
      BY <3>2, ReducedParts DEF Spent
    <3> QED BY <2>2, <3>1, <3>3, <3>4, <3>5 DEF Minus
  <2>4. CASE pc[r] = "undo"
    <3>1. Delta(r) = usage[r]
      BY <2>4 DEF Delta
    <3>2. Spent(r, x) = usage[r][x] /\ Spent(r, x)' = 0
      BY <2>1, <2>4 DEF Spent
    <3> QED BY <2>2, <3>1, <3>2 DEF Minus
  <2>5. CASE pc[r] = "release"
    <3>1. Delta(r)[x] = 0
      BY <2>5 DEF Delta, Storage, NoUsage, Resources
    <3>2. Spent(r, x) = usage[r][x] /\ Spent(r, x)' = usage[r][x]
      BY <2>1, <2>5 DEF Spent
    <3> QED BY <2>2, <3>1, <3>2 DEF Minus
  <2> QED BY <2>1, <2>3, <2>4, <2>5
<1>7. CASE ChargeAckLost(r) \/ RefundAckLost(r) \/ PersistAckLost(r) \/ RefundFails(r) \/ Crash(r)
  BY <1>7 DEF ChargeAckLost, RefundAckLost, PersistAckLost, RefundFails, Crash
<1>8. CASE StoreFile(r)
  <2>1. PICK label \in {"extra", "reduce", "persist"} : pc' = [pc EXCEPT ![r] = label]
    BY <1>8 DEF StoreFile
  <2>2. pc[r] = "store" /\ UNCHANGED <<usage, used>>
    BY <1>8 DEF StoreFile
  <2> QED BY <1>a, <2>1, <2>2 DEF Spent
<1>9. CASE StoreFails(r) \/ Persist(r) \/ CallProvider(r)
  <2>1. pc[r] \in {"store", "persist", "call"} /\ pc'[r] \in {"undo", "done"} /\ UNCHANGED <<usage, used>>
    BY <1>9 DEF StoreFails, Persist, AfterPersist, CallProvider
  <2> QED BY <1>a, <2>1 DEF Spent
<1>10. CASE BatchAttempt(r) \/ PurgeFile(r) \/ PurgeCommit(r) \/ DeleteEstimate(r) \/ UnlinkFile(r)
  <2>1. /\ pc[r] \in {"done", "worked", "purge", "unlink"}
        /\ pc'[r] \in {"done", "worked", "purge", "gone", "unlink", "release"}
        /\ UNCHANGED <<usage, used>>
    BY <1>10 DEF BatchAttempt, PurgeFile, PurgeCommit, DeleteEstimate, UnlinkFile
  <2> QED BY <1>a, <2>1 DEF Spent
<1> QED BY <1>1, <1>2, <1>3, <1>4, <1>5, <1>6, <1>7, <1>8, <1>9, <1>10 DEF Acts, Step

LEMMA BooksInit == QuotaAssumption /\ Init => ShapeInv /\ MonthInv /\ BooksInv
<1> SUFFICES ASSUME QuotaAssumption, Init PROVE ShapeInv /\ MonthInv /\ BooksInv
  OBVIOUS
<1>1. NoUsage["bytes"] = 0 /\ NoUsage["storage"] = 0
  BY DEF NoUsage, Resources, Monthly
<1>2. ShapeInv
  BY <1>1 DEF Init, ShapeInv, Shape
<1>3. MonthInv
  BY DEF Init, MonthInv
<1>4. ASSUME NEW g, \A r \in Requests : g[r] = 0 PROVE Total(g, Requests) = 0
  <2> DEFINE none == [r \in Requests |-> IF r \in {} THEN g[r] ELSE 0]
  <2>1. Total(g, {}) = Total(none, Requests)
    <3>1. IsFiniteSet(Requests) /\ {} \in SUBSET Requests /\ \A r \in Requests : g[r] \in Nat
      BY <1>4 DEF QuotaAssumption
    <3> QED BY <3>1, TotalPart
  <2>2. Total(g, {}) = 0
    BY TotalStep, FS_EmptySet
  <2>3. Total(none, Requests) = Total(g, Requests)
    <3>1. \A r \in Requests : none[r] = g[r]
      BY <1>4
    <3> HIDE DEF none
    <3> QED BY <3>1, TotalSame DEF QuotaAssumption
  <2> QED BY <2>1, <2>2, <2>3
<1>5. Total(AllOwed, Requests) = 0
  <2>1. \A r \in Requests : AllOwed[r] = 0
    BY DEF Init, AllOwed, Owed, Kept
  <2> QED BY <1>4, <2>1
<1>6. \A x \in Monthly : Total(AllSpent(x), Requests) = 0
  <2>1. \A x \in Monthly : \A r \in Requests : AllSpent(x)[r] = 0
    BY DEF Init, AllSpent, Spent
  <2> QED BY <1>4, <2>1
<1>7. storage = 0 /\ \A x \in Monthly : used[month][x] = 0
  BY DEF Init, Months, QuotaAssumption
<1> QED BY <1>2, <1>3, <1>5, <1>6, <1>7 DEF BooksInv

LEMMA ShapeInductive == QuotaAssumption /\ TypeOK /\ CheckedFits /\ ShapeInv /\ [Next]_vars => ShapeInv'
<1> SUFFICES ASSUME QuotaAssumption, TypeOK, CheckedFits, ShapeInv, [Next]_vars PROVE ShapeInv'
  OBVIOUS
<1>1. CASE MonthTurns \/ UNCHANGED vars
  BY <1>1 DEF MonthTurns, vars, control, work, ShapeInv, Shape
<1>2. ASSUME NEW r \in Requests, Acts(r) PROVE ShapeInv'
  <2>1. Shape(r)'
    BY <1>2, ShapeStep DEF ShapeInv
  <2>2. ASSUME NEW q \in Requests \ {r} PROVE Shape(q)'
    <3>1. env' = env /\ Untouched(q)
      BY <1>2, ActsAlone DEF OnlyFor
    <3> QED BY <3>1 DEF Untouched, ShapeInv, Shape
  <2> QED BY <2>1, <2>2 DEF ShapeInv
<1> QED BY <1>1, <1>2, NextActs

LEMMA MonthInductive == TypeOK /\ MonthInv /\ [Next]_vars => MonthInv'
<1> SUFFICES ASSUME TypeOK, MonthInv, [Next]_vars PROVE MonthInv'
  OBVIOUS
<1>1. CASE MonthTurns \/ UNCHANGED vars
  BY <1>1 DEF MonthTurns, vars, control, MonthInv
<1>2. ASSUME NEW r \in Requests, Acts(r) PROVE MonthInv'
  <2>1. env' = env /\ month' = month
    BY <1>2, ActsAlone DEF OnlyFor
  <2>2. period' \in {period, [period EXCEPT ![r] = month]}
    BY <1>2 DEF Acts, Step, StartRequest, SummaryFromCache, TakeUsageLock, CheckUsage, QuotaRefused, TxFails,
           Refuse, Charge, ChargeAckLost, Refund, RefundAckLost, RefundFails, StoreFile, StoreFails, Persist, PersistAckLost,
           CallProvider, UnlinkFile, Crash, BatchAttempt, PurgeFile, PurgeCommit, DeleteEstimate
  <2> QED BY <2>1, <2>2 DEF TypeOK, MonthInv
<1> QED BY <1>1, <1>2, NextActs

LEMMA BooksInductive ==
    ASSUME QuotaAssumption, TypeOK, TypeOK', CheckedFits, ShapeInv, MonthInv, BooksInv, [Next]_vars
    PROVE  BooksInv'
<1>1. CASE MonthTurns \/ UNCHANGED vars
  <2>1. UNCHANGED <<env, storage, pc, usage, size, onDisk, used>> /\ (env = {} => month' = month)
    BY <1>1 DEF MonthTurns, vars, counters, control, work
  <2>2. AllOwed' = AllOwed /\ \A x : AllSpent(x)' = AllSpent(x)
    BY <2>1 DEF AllOwed, AllSpent, Owed, Spent
  <2> QED BY <2>1, <2>2 DEF BooksInv
<1>2. ASSUME NEW r \in Requests, Acts(r) PROVE BooksInv'
  <2>0. env' = env /\ month' = month /\ IsFiniteSet(Requests) /\ storage \in Nat
    BY <1>2, ActsAlone DEF OnlyFor, QuotaAssumption, TypeOK
  <2>1. "ack" \notin env => 
           /\ Total(AllOwed, Requests) \in Nat /\ Total(AllOwed', Requests) \in Nat
           /\ Owed(r) \in Nat /\ Owed(r)' \in Nat
           /\ Owed(r) <= Total(AllOwed, Requests)
           /\ Total(AllOwed', Requests) = Total(AllOwed, Requests) - Owed(r) + Owed(r)'
    <3>1. \A q \in Requests : AllOwed[q] \in Nat /\ AllOwed'[q] \in Nat
      BY PartTypes, NextPartTypes DEF AllOwed
    <3>2. \A q \in Requests \ {r} : AllOwed[q] = AllOwed'[q]
      <4> SUFFICES ASSUME NEW q \in Requests \ {r} PROVE Owed(q) = Owed(q)'
        BY DEF AllOwed
      <4>1. Untouched(q)
        BY <1>2, ActsAlone DEF OnlyFor
      <4> QED BY <4>1 DEF Owed, Untouched
    <3>3. AllOwed[r] = Owed(r) /\ AllOwed'[r] = Owed(r)'
      BY DEF AllOwed
    <3>4. IsFiniteSet(Requests)
      BY <2>0
    <3> DEFINE g == AllOwed
               k == AllOwed'
    <3>5. (\A q \in Requests : g[q] \in Nat /\ k[q] \in Nat) /\ (\A q \in Requests \ {r} : g[q] = k[q])
      BY <3>1, <3>2
    <3> HIDE DEF g, k
    <3>6. /\ Total(g, Requests) \in Nat /\ Total(k, Requests) \in Nat
          /\ g[r] <= Total(g, Requests)
          /\ Total(k, Requests) = Total(g, Requests) - g[r] + k[r]
      BY <3>4, <3>5, TotalUpdate
    <3>7. g = AllOwed /\ k = AllOwed' /\ Owed(r) \in Nat /\ Owed(r)' \in Nat
      BY <3>1, <3>3 DEF g, k
    <3> QED BY <3>3, <3>6, <3>7
  <2>2. "ack" \notin env' => Total(AllOwed', Requests) <= storage'
    <3>0. env' = env
      BY <2>0
    <3> SUFFICES ASSUME "ack" \notin env PROVE Total(AllOwed', Requests) <= storage'
      BY <3>0, Zenon
    <3>1. Owed(r) <= storage /\ Total(AllOwed, Requests) <= storage
      BY <2>0, <2>1 DEF BooksInv
    <3>2. \/ storage' = storage - Owed(r) + Owed(r)'
          \/ env # {} /\ storage' = storage /\ Owed(r)' <= Owed(r)
      BY <1>2, <3>1, OwedStep DEF ShapeInv
    <3> QED BY <2>0, <2>1, <3>1, <3>2
  <2>3. ASSUME env = {}
        PROVE  /\ Total(AllOwed', Requests) = storage'
               /\ \A x \in Monthly : Total(AllSpent(x)', Requests) = used'[month][x]
    <3>1. Total(AllOwed', Requests) = storage'
      <4>1. Total(AllOwed, Requests) = storage /\ Owed(r) <= storage
        BY <2>0, <2>1, <2>3 DEF BooksInv
      <4>2. storage' = storage - Owed(r) + Owed(r)'
        BY <1>2, <2>3, <4>1, OwedStep DEF ShapeInv
      <4> QED BY <2>0, <2>1, <2>3, <4>1, <4>2
    <3>2. ASSUME NEW x \in Monthly PROVE Total(AllSpent(x)', Requests) = used'[month][x]
      <4> DEFINE g == AllSpent(x)
                 k == AllSpent(x)'
      <4>0. IsFiniteSet(Requests) /\ r \in Requests
        BY <2>0
      <4>1. \A q \in Requests : g[q] \in Nat /\ k[q] \in Nat
        BY PartTypes, NextPartTypes DEF AllSpent
      <4>2. \A q \in Requests \ {r} : g[q] = k[q]
        <5> SUFFICES ASSUME NEW q \in Requests \ {r} PROVE Spent(q, x) = Spent(q, x)'
          BY DEF AllSpent
        <5>1. Untouched(q)
          BY <1>2, ActsAlone DEF OnlyFor
        <5> QED BY <5>1 DEF Spent, Untouched
      <4>3. g[r] = Spent(r, x) /\ k[r] = Spent(r, x)'
        BY DEF AllSpent
      <4>4. /\ Total(g, Requests) \in Nat
            /\ g[r] <= Total(g, Requests)
            /\ Total(k, Requests) = Total(g, Requests) - g[r] + k[r]
        BY <4>0, <4>1, <4>2, TotalUpdate
      <4>5. Total(g, Requests) = used[month][x]
        BY <2>3 DEF BooksInv, g
      <4>6. month \in Months /\ period[r] = month
        BY <2>3 DEF MonthInv, TypeOK
      <4>7. used'[month][x] = used[month][x] - Spent(r, x) + Spent(r, x)'
        BY <1>2, <2>3, <4>3, <4>4, <4>5, <4>6, SpentStep DEF ShapeInv
      <4>8. Total(k, Requests) = used'[month][x]
        BY <4>3, <4>4, <4>5, <4>7
      <4> QED BY <4>8 DEF k
    <3> QED BY <3>1, <3>2
  <2> QED BY <2>0, <2>2, <2>3 DEF BooksInv
<1> QED BY <1>1, <1>2, NextActs

LEMMA BooksAlways == Spec => [](TypeOK /\ ShapeInv /\ MonthInv /\ BooksInv)
<1>1. Spec => [](TypeOK /\ CheckedFits)
  BY QuotaAssumption, TypeInit, TypeStep, SafetyInit, CheckedInductive, PTL DEF Spec
<1>2. Init => ShapeInv /\ MonthInv /\ BooksInv
  BY QuotaAssumption, BooksInit
<1>3. TypeOK /\ CheckedFits /\ ShapeInv /\ [Next]_vars => ShapeInv'
  BY QuotaAssumption, ShapeInductive
<1>4. TypeOK /\ MonthInv /\ [Next]_vars => MonthInv'
  BY MonthInductive
<1>5. ASSUME TypeOK, TypeOK', CheckedFits, ShapeInv, MonthInv, BooksInv, [Next]_vars
      PROVE  BooksInv'
  BY <1>5, QuotaAssumption, BooksInductive
<1> QED BY <1>1, <1>2, <1>3, <1>4, <1>5, PTL DEF Spec

(* The community module's sum is the one the lemmas are about.             *)
LEMMA SumOfSizes == ASSUME NEW S PROVE MapThenSumSet(LAMBDA r : size[r], S) = Total(size, S)
  BY DEF MapThenSumSet, MapThenFoldSet, Total, Sums, First

LEMMA SumOfUsage ==
    ASSUME NEW S, NEW x
    PROVE  MapThenSumSet(LAMBDA r : usage[r][x], S) = Total([r \in S |-> usage[r][x]], S)
  BY DEF MapThenSumSet, MapThenFoldSet, Total, Sums, First

(* What the files that rows refer to take is part of what is owed.         *)
LEMMA BooksCoverFiles == TypeOK /\ ShapeInv /\ BooksInv => StorageCoversFiles
<1> SUFFICES ASSUME TypeOK, ShapeInv, BooksInv, "ack" \notin env
             PROVE  storage >= MapThenSumSet(LAMBDA r : size[r], rows \cap onDisk)
  BY DEF StorageCoversFiles
<1> DEFINE T == rows \cap onDisk
           k == [r \in Requests |-> IF r \in T THEN size[r] ELSE 0]
<1>1. /\ IsFiniteSet(Requests) /\ T \in SUBSET Requests /\ storage \in Nat
      /\ \A r \in Requests : size[r] \in Nat
  BY QuotaAssumption DEF QuotaAssumption, TypeOK
<1>2. MapThenSumSet(LAMBDA r : size[r], T) = Total(size, T)
  BY SumOfSizes
<1>3. Total(size, T) = Total(k, Requests)
  BY <1>1, TotalPart
<1>4. \A r \in Requests : k[r] \in Nat /\ AllOwed[r] \in Nat /\ k[r] <= AllOwed[r]
  <2> SUFFICES ASSUME NEW r \in Requests PROVE k[r] \in Nat /\ Owed(r) \in Nat /\ k[r] <= Owed(r)
    BY DEF AllOwed
  <2>1. Owed(r) \in Nat
    BY PartTypes
  <2>2. r \in T => pc[r] \in {"done", "worked"}
    BY DEF ShapeInv, Shape
  <2>3. r \in T => Owed(r) = size[r]
    BY <2>2 DEF Owed, Kept
  <2> QED BY <1>1, <2>1, <2>3
<1>5. Total(AllOwed, Requests) <= storage
  BY DEF BooksInv
<1> HIDE DEF T, k
<1>6. Total(k, Requests) \in Nat /\ Total(AllOwed, Requests) \in Nat
  BY <1>1, <1>4, TotalNat
<1>7. \A r \in Requests : k[r] <= 1 * AllOwed[r]
  BY <1>4
<1>8. Total(k, Requests) <= 1 * Total(AllOwed, Requests)
  BY <1>1, <1>4, <1>7, TotalAtMost
<1>9. storage >= Total(size, T)
  BY <1>1, <1>3, <1>5, <1>6, <1>8
<1> QED BY <1>2, <1>9 DEF T

(* The files that estimates and batches refer to are always paid for: after*)
(* any crashes, lost refunds and turns of the month, storage_bytes is at   *)
(* least what the rows retain (only a lost commit answer can break that).  *)
THEOREM StorageCovers == Spec => []StorageCoversFiles
<1>1. TypeOK /\ ShapeInv /\ BooksInv => StorageCoversFiles
  BY BooksCoverFiles
<1> QED BY <1>1, BooksAlways, PTL

LEMMA BooksExact == TypeOK /\ ShapeInv /\ MonthInv /\ BooksInv => AccountingExact
<1> SUFFICES ASSUME TypeOK, ShapeInv, MonthInv, BooksInv, Quiet, env = {} PROVE AccountingExact
  BY DEF AccountingExact
<1>0. /\ IsFiniteSet(Requests) /\ month \in Months
      /\ \A r \in Requests : size[r] \in Nat
      /\ \A r \in Requests : \A x \in Monthly : usage[r][x] \in Nat
      /\ \A r \in Requests : pc[r] \in Kept \cup {"idle", "gone", "failed"}
      /\ \A m \in Months : \A x \in Monthly : used[m][x] \in Nat
  BY QuotaAssumption DEF QuotaAssumption, TypeOK, Deltas, Resources, Quiet, PCs
<1>1. ASSUME NEW x \in Monthly
      PROVE  used[month][x] = MapThenSumSet(LAMBDA r : usage[r][x],
                                            {r \in Requests : pc[r] \in Kept \cup {"gone"}})
  <2> DEFINE T == {r \in Requests : pc[r] \in Kept \cup {"gone"}}
             g == [r \in Requests |-> usage[r][x]]
             t == [r \in T |-> usage[r][x]]
             k == [r \in Requests |-> IF r \in T THEN g[r] ELSE 0]
  <2>1. MapThenSumSet(LAMBDA r : usage[r][x], T) = Total(t, T)
    BY SumOfUsage
  <2>2. T \in SUBSET Requests /\ IsFiniteSet(T)
    BY <1>0, FS_Subset
  <2>3. \A r \in T : t[r] = g[r]
    BY <2>2
  <2>4. \A r \in Requests : g[r] \in Nat
    BY <1>0
  <2>5. \A r \in Requests : k[r] = AllSpent(x)[r]
    <3> SUFFICES ASSUME NEW r \in Requests
                 PROVE  (IF r \in T THEN usage[r][x] ELSE 0) = Spent(r, x)
      BY DEF AllSpent
    <3> QED BY <1>0 DEF Spent, Kept
  <2>6. Total(AllSpent(x), Requests) = used[month][x]
    BY DEF BooksInv
  <2> HIDE DEF t, g
  <2>7. Total(t, T) = Total(g, T)
    <3> HIDE DEF T
    <3> QED BY <2>2, <2>3, TotalSame
  <2>8. Total(g, T) = Total(k, Requests)
    <3> HIDE DEF T
    <3> QED BY <1>0, <2>2, <2>4, TotalPart
  <2>9. Total(k, Requests) = Total(AllSpent(x), Requests)
    <3> HIDE DEF T, k
    <3> QED BY <1>0, <2>5, TotalSame
  <2>10. MapThenSumSet(LAMBDA r : usage[r][x], T) = used[month][x]
    <3> HIDE DEF T, k
    <3> QED BY <2>1, <2>6, <2>7, <2>8, <2>9
  <2> QED BY <2>10
<1>2. storage = MapThenSumSet(LAMBDA r : size[r], onDisk \cup {r \in Requests : pc[r] = "purge"})
  <2> DEFINE T == onDisk \cup {r \in Requests : pc[r] = "purge"}
             k == [r \in Requests |-> IF r \in T THEN size[r] ELSE 0]
  <2>1. MapThenSumSet(LAMBDA r : size[r], T) = Total(size, T)
    BY SumOfSizes
  <2>2. T \in SUBSET Requests
    BY DEF TypeOK
  <2>3. Total(size, T) = Total(k, Requests)
    <3> HIDE DEF T
    <3> QED BY <1>0, <2>2, TotalPart
  <2>4. \A r \in Requests : k[r] = AllOwed[r]
    <3> SUFFICES ASSUME NEW r \in Requests
                 PROVE  (IF r \in T THEN size[r] ELSE 0) = Owed(r)
      BY DEF AllOwed
    <3>1. Shape(r) /\ pc[r] \in {"done", "worked", "purge", "idle", "gone", "failed"}
      BY <1>0 DEF ShapeInv, Kept
    <3>2. CASE pc[r] = "done" /\ kind[r] = "summary"
      BY <3>1, <3>2 DEF Owed, Kept, Shape
    <3>3. CASE pc[r] = "done" /\ kind[r] # "summary"
      BY <3>1, <3>3 DEF Owed, Kept, Shape
    <3>4. CASE pc[r] # "done"
      BY <3>1, <3>4 DEF Owed, Kept, Shape
    <3> QED BY <3>2, <3>3, <3>4
  <2>5. Total(k, Requests) = Total(AllOwed, Requests)
    <3> HIDE DEF T, k
    <3> QED BY <1>0, <2>4, TotalSame
  <2>6. Total(AllOwed, Requests) = storage
    BY DEF BooksInv
  <2>7. MapThenSumSet(LAMBDA r : size[r], T) = storage
    <3> HIDE DEF T, k
    <3> QED BY <2>1, <2>3, <2>5, <2>6
  <2> QED BY <2>7
<1> QED BY <1>1, <1>2 DEF AccountingExact

(* Without faults, when no request runs, the counters are exactly what the *)
(* accepted work took: a failed request left nothing, a deletion returned  *)
(* its storage and nothing else.                                           *)
THEOREM Exact == Spec => []AccountingExact
<1>1. TypeOK /\ ShapeInv /\ MonthInv /\ BooksInv => AccountingExact
  BY BooksExact
<1> QED BY <1>1, BooksAlways, PTL

-----------------------------------------------------------------------------
(* The calls of the provider                                               *)

(* The AI jobs counted in each month.                                      *)
Jobs == [m \in Months |-> used[m]["ai"]]

(* What is known of the calls made for a request.                          *)
Asked(r) ==
    /\ pc[r] \notin {"done", "worked", "purge", "gone"} => calls[r] = 0
    /\ kind[r] = "upload" => calls[r] = 0
    /\ kind[r] = "summary" =>
        /\ calls[r] <= MaxChunks * HttpAttempts
        /\ pc[r] \in {"reserve", "call"} \/ calls[r] > 0 => usage[r]["ai"] = 1
    /\ kind[r] = "batch" =>
        /\ usage[r]["ai"] = BatchFiles
        /\ calls[r] <= attempts[r] * (BatchFiles * MaxChunks * HttpAttempts)

(* What requests have spent is counted, in some month.                     *)
CoverInv ==
    /\ \A r \in Requests : Asked(r)
    /\ Total(AllSpent("ai"), Requests) <= Total(Jobs, Months)

LEMMA AskedStep ==
    ASSUME QuotaAssumption, TypeOK, TypeOK', CheckedFits, NEW r \in Requests, Shape(r), Asked(r), Acts(r)
    PROVE  Asked(r)'
<1>0. /\ pc \in [Requests -> PCs] /\ kind \in [Requests -> Kinds] /\ usage \in [Requests -> Deltas]
      /\ attempts \in [Requests -> 0..MaxAttempts] /\ calls \in [Requests -> Nat]
      /\ calls[r] \in Nat /\ attempts[r] \in Nat /\ kind[r] \in Kinds
  BY DEF TypeOK, QuotaAssumption
<1> USE <1>0 DEF Goto, work, counters, locks, Kinds
<1>1. CASE StartRequest(r)
  <2>1. PICK k \in Kinds, bytes \in Sizes : kind' = [kind EXCEPT ![r] = k]
                                            /\ usage' = [usage EXCEPT ![r] = UsageOf(k, bytes)]
    BY <1>1, Zenon DEF StartRequest
  <2>2. /\ pc[r] = "idle" /\ pc'[r] = "reserve" /\ kind'[r] = k /\ usage'[r] = UsageOf(k, bytes)
        /\ UNCHANGED <<attempts, calls>>
    BY <1>1, <2>1 DEF StartRequest
  <2>3. /\ k = "summary" => usage'[r]["ai"] = 1
        /\ k = "batch" => usage'[r]["ai"] = BatchFiles
    BY <2>1, <2>2, UsageParts DEF UsageOf
  <2>4. calls[r] = 0 /\ MaxChunks * HttpAttempts \in Nat
        /\ attempts[r] * (BatchFiles * MaxChunks * HttpAttempts) \in Nat
    BY <2>2 DEF Asked, QuotaAssumption
  <2> QED BY <2>2, <2>3, <2>4 DEF Asked
<1>2. CASE SummaryFromCache(r)
  <2>1. calls[r] = 0 /\ MaxChunks * HttpAttempts \in Nat
    BY <1>2 DEF SummaryFromCache, Asked, QuotaAssumption
  <2>2. pc'[r] = "done" /\ kind'[r] = "summary" /\ UNCHANGED <<calls, usage>>
    BY <1>2 DEF SummaryFromCache
  <2> QED BY <2>1, <2>2 DEF Asked
<1>3. CASE TakeUsageLock(r) \/ CheckUsage(r)
  BY <1>3 DEF TakeUsageLock, CheckUsage, Asked
<1>4. CASE QuotaRefused(r) \/ TxFails(r)
  <2>1. /\ pc[r] \in {"reserve", "extra", "reduce"} /\ pc'[r] = AfterRefusal(r)
        /\ UNCHANGED <<kind, usage, attempts, calls>>
    BY <1>4 DEF QuotaRefused, TxFails, Refuse, Charging
  <2> QED BY <2>1 DEF AfterRefusal, Asked
<1>5. CASE Charge(r)
  <2>1. pc[r] \in {"reserve", "extra"}
    BY <1>5 DEF Charge, ChargeCommit, CheckedFits, Charging
  <2>2. /\ UNCHANGED <<kind, attempts, calls>>
        /\ usage'[r]["ai"] = usage[r]["ai"]
        /\ pc'[r] \in {"persist", "call", "store"}
        /\ pc'[r] = "call" => pc[r] = "reserve"
    BY <1>5, <2>1, ReducedParts DEF Charge, Shape
  <2> QED BY <2>1, <2>2 DEF Asked
<1>6. CASE Refund(r)
  <2>1. /\ UNCHANGED <<kind, attempts, calls>>
        /\ pc[r] \in {"reduce", "undo", "release"} /\ pc'[r] \in {"persist", "gone", "failed"}
        /\ usage'[r]["ai"] = usage[r]["ai"]
    BY <1>6, ReducedParts DEF Refund, RefundCommit, Refunding
  <2> QED BY <2>1 DEF Asked
<1>7. CASE ChargeAckLost(r) \/ RefundAckLost(r) \/ RefundFails(r) \/ PersistAckLost(r) \/ StoreFails(r)
  <2>1. pc[r] \in {"reserve", "extra", "reduce", "undo", "release", "persist", "store"}
    BY <1>7 DEF ChargeAckLost, ChargeCommit, CheckedFits, Charging, RefundAckLost, RefundFails,
                PersistAckLost, StoreFails
  <2>2. UNCHANGED <<kind, usage, attempts, calls>> /\ pc'[r] \in {"failed", "undo", "gone"}
    BY <1>7 DEF ChargeAckLost, RefundAckLost, RefundFails, PersistAckLost, StoreFails, AfterRefusal
  <2> QED BY <2>1, <2>2 DEF Asked
<1>8. CASE StoreFile(r)
  <2>1. PICK label \in {"extra", "reduce", "persist"} : pc' = [pc EXCEPT ![r] = label]
    BY <1>8 DEF StoreFile
  <2>2. pc[r] = "store" /\ UNCHANGED <<kind, usage, attempts, calls>>
    BY <1>8 DEF StoreFile
  <2> QED BY <2>1, <2>2 DEF Asked
<1>9. CASE Persist(r)
  BY <1>9 DEF Persist, AfterPersist, Asked
<1>10. CASE CallProvider(r)
  <2>1. PICK sent \in RequestsFor(1) : calls' = [calls EXCEPT ![r] = @ + sent]
    BY <1>10 DEF CallProvider
  <2>2. pc[r] = "call" /\ pc'[r] = "done" /\ UNCHANGED <<kind, usage, attempts>>
    BY <1>10 DEF CallProvider
  <2>3. calls[r] = 0 /\ kind[r] = "summary" /\ usage[r]["ai"] = 1
    BY <2>2 DEF Asked, Shape
  <2>4. calls'[r] = sent /\ sent <= MaxChunks * HttpAttempts
    BY <2>1, <2>3 DEF RequestsFor, QuotaAssumption
  <2> QED BY <2>2, <2>3, <2>4 DEF Asked
<1>11. CASE BatchAttempt(r)
  <2> DEFINE all == BatchFiles * MaxChunks * HttpAttempts
  <2>1. PICK sent \in RequestsFor(BatchFiles) : calls' = [calls EXCEPT ![r] = @ + sent]
    BY <1>11 DEF BatchAttempt
  <2>2. /\ pc[r] = "done" /\ kind[r] = "batch" /\ pc'[r] \in {"done", "worked"}
        /\ attempts'[r] = attempts[r] + 1 /\ UNCHANGED <<kind, usage>>
    BY <1>11 DEF BatchAttempt
  <2>3. calls[r] <= attempts[r] * all /\ usage[r]["ai"] = BatchFiles
    BY <2>2 DEF Asked
  <2>4. calls'[r] = calls[r] + sent /\ sent \in Nat /\ sent <= all /\ all \in Nat
    BY <2>1 DEF RequestsFor, QuotaAssumption
  <2>5. (attempts[r] + 1) * all = attempts[r] * all + all /\ attempts[r] * all \in Nat
    BY <2>4
  <2>6. calls'[r] <= attempts'[r] * all
    <3> HIDE DEF all
    <3> QED BY <2>2, <2>3, <2>4, <2>5
  <2> QED BY <2>2, <2>3, <2>6 DEF Asked
<1>12. CASE PurgeFile(r) \/ PurgeCommit(r)
  BY <1>12 DEF PurgeFile, PurgeCommit, Asked
<1>13. CASE DeleteEstimate(r) \/ UnlinkFile(r)
  BY <1>13 DEF DeleteEstimate, UnlinkFile, Asked
<1>14. CASE Crash(r)
  BY <1>14 DEF Crash, Running, Charging, Refunding, Asked
<1> QED BY <1>1, <1>2, <1>3, <1>4, <1>5, <1>6, <1>7, <1>8, <1>9, <1>10, <1>11, <1>12, <1>13, <1>14
        DEF Acts, Step

(* A step changes the counters of one month at most, and takes no more off *)
(* the jobs than the request gives up.                                     *)
JobsMove(r, m) ==
    /\ \A q \in Months \ {m} : used'[q] = used[q]
    /\ used'[m]["ai"] >= used[m]["ai"] - Spent(r, "ai") + Spent(r, "ai")'

LEMMA JobsStep ==
    ASSUME QuotaAssumption, TypeOK, TypeOK', CheckedFits, NEW r \in Requests, Shape(r), Acts(r)
    PROVE  \E m \in Months : JobsMove(r, m)
<1>0. /\ pc \in [Requests -> PCs] /\ kind \in [Requests -> Kinds] /\ usage \in [Requests -> Deltas]
      /\ usage[r]["ai"] \in Nat /\ Spent(r, "ai") \in Nat /\ Spent(r, "ai")' \in Nat
      /\ used \in [Months -> [Monthly -> Nat]] /\ used[month]["ai"] \in Nat
      /\ used[period[r]]["ai"] \in Nat
      /\ month \in Months /\ period[r] \in Months /\ "ai" \in Monthly
  BY PartTypes, NextPartTypes DEF TypeOK, Deltas, Resources, Monthly
<1>a. ASSUME used' = used, Spent(r, "ai")' <= Spent(r, "ai") PROVE JobsMove(r, month)
  BY <1>0, <1>a DEF JobsMove
<1> USE <1>0 DEF Goto, work, counters, locks, Kept
<1>1. CASE StartRequest(r)
  BY <1>1, <1>a DEF StartRequest, Spent
<1>2. CASE SummaryFromCache(r)
  <2>1. pc[r] = "idle" /\ pc'[r] = "done" /\ UNCHANGED <<usage, used>>
    BY <1>2 DEF SummaryFromCache
  <2>2. usage[r]["ai"] = 0
    BY <2>1 DEF Shape, NoUsage, Resources
  <2> QED BY <1>a, <2>1, <2>2 DEF Spent
<1>3. CASE TakeUsageLock(r) \/ CheckUsage(r)
  BY <1>3, <1>a DEF TakeUsageLock, CheckUsage, Spent
<1>4. CASE QuotaRefused(r) \/ TxFails(r)
  <2>1. /\ pc[r] \in {"reserve", "extra", "reduce"} /\ pc'[r] = AfterRefusal(r)
        /\ UNCHANGED <<usage, used>>
    BY <1>4 DEF QuotaRefused, TxFails, Refuse, Charging
  <2> QED BY <1>a, <2>1 DEF AfterRefusal, Spent
<1>5. CASE Charge(r) \/ ChargeAckLost(r)
  <2>1. pc[r] \in {"reserve", "extra"} /\ Add(period[r], Delta(r))
    BY <1>5 DEF Charge, ChargeAckLost, ChargeCommit, CheckedFits, Charging
  <2>2. Delta(r)["ai"] = IF pc[r] = "reserve" THEN usage[r]["ai"] ELSE 0
    BY <2>1, UsageParts DEF Delta, Bytes
  <2>3. /\ \A q \in Months \ {period[r]} : used'[q] = used[q]
        /\ used'[period[r]]["ai"] = used[period[r]]["ai"] + Delta(r)["ai"]
    BY <2>1 DEF Add
  <2>4. Spent(r, "ai") = IF pc[r] = "reserve" THEN 0 ELSE usage[r]["ai"]
    BY <2>1 DEF Spent
  <2>5. usage'[r]["ai"] = usage[r]["ai"]
    BY <1>5, ReducedParts DEF Charge, ChargeAckLost
  <2>6. Spent(r, "ai")' <= usage[r]["ai"]
    BY <2>5 DEF Spent
  <2>7. JobsMove(r, period[r])
    BY <2>2, <2>3, <2>4, <2>6 DEF JobsMove
  <2> QED BY <2>7
<1>6. CASE Refund(r) \/ RefundAckLost(r)
  <2>1. pc[r] \in {"reduce", "undo", "release"} /\ Subtract(month, Delta(r))
    BY <1>6 DEF Refund, RefundAckLost, RefundCommit, Refunding
  <2>2. Delta(r)["ai"] = IF pc[r] = "undo" THEN usage[r]["ai"] ELSE 0
    BY <2>1, UsageParts DEF Delta, Bytes, Storage, NoUsage, Resources, Monthly
  <2>3. /\ \A q \in Months \ {month} : used'[q] = used[q]
        /\ used'[month]["ai"] = Minus(used[month]["ai"], Delta(r)["ai"])
    BY <2>1 DEF Subtract
  <2>4. Spent(r, "ai") = usage[r]["ai"]
    BY <2>1 DEF Spent
  <2>5. usage'[r]["ai"] = usage[r]["ai"]
    BY <1>6, ReducedParts DEF Refund, RefundAckLost
  <2>6. /\ Spent(r, "ai")' <= usage[r]["ai"]
        /\ pc[r] = "undo" => Spent(r, "ai")' = 0
    BY <1>6, <2>1, <2>5 DEF Spent, Refund, RefundAckLost
  <2>7. JobsMove(r, month)
    BY <2>2, <2>3, <2>4, <2>6 DEF JobsMove, Minus
  <2> QED BY <2>7
<1>7. CASE RefundFails(r) \/ Crash(r)
  <2>1. /\ UNCHANGED <<used, usage>>
        /\ \/ pc[r] = "release" /\ pc'[r] = "gone"
           \/ pc'[r] \in {"failed", "dead"}
    BY <1>7 DEF RefundFails, Crash
  <2> QED BY <1>a, <2>1 DEF Spent
<1>8. CASE StoreFile(r)
  <2>1. PICK label \in {"extra", "reduce", "persist"} : pc' = [pc EXCEPT ![r] = label]
    BY <1>8 DEF StoreFile
  <2>2. pc[r] = "store" /\ UNCHANGED <<usage, used>>
    BY <1>8 DEF StoreFile
  <2> QED BY <1>a, <2>1, <2>2 DEF Spent
<1>9. CASE StoreFails(r) \/ Persist(r) \/ PersistAckLost(r)
  BY <1>9, <1>a DEF StoreFails, Persist, PersistAckLost, AfterPersist, Spent
<1>10. CASE CallProvider(r)
  BY <1>10, <1>a DEF CallProvider, Spent
<1>11. CASE BatchAttempt(r)
  BY <1>11, <1>a DEF BatchAttempt, Spent
<1>12. CASE PurgeFile(r) \/ PurgeCommit(r)
  BY <1>12, <1>a DEF PurgeFile, PurgeCommit, Spent
<1>13. CASE DeleteEstimate(r) \/ UnlinkFile(r)
  BY <1>13, <1>a DEF DeleteEstimate, UnlinkFile, Spent
<1> QED BY <1>1, <1>2, <1>3, <1>4, <1>5, <1>6, <1>7, <1>8, <1>9, <1>10, <1>11, <1>12, <1>13 DEF Acts, Step

LEMMA CoverInductive ==
    ASSUME QuotaAssumption, TypeOK, TypeOK', CheckedFits, ShapeInv, CoverInv, [Next]_vars
    PROVE  CoverInv'
<1>0. IsFiniteSet(Requests) /\ IsFiniteSet(Months)
  BY FS_Interval DEF QuotaAssumption, Months
<1>1. CASE MonthTurns \/ UNCHANGED vars
  <2>1. UNCHANGED <<pc, kind, usage, attempts, calls, used>>
    BY <1>1 DEF MonthTurns, vars, counters, control, work
  <2>2. Jobs' = Jobs /\ AllSpent("ai")' = AllSpent("ai")
    BY <2>1 DEF Jobs, AllSpent, Spent
  <2>3. \A r \in Requests : Asked(r)'
    BY <2>1 DEF CoverInv, Asked
  <2> QED BY <2>2, <2>3 DEF CoverInv
<1>2. ASSUME NEW r \in Requests, Acts(r) PROVE CoverInv'
  <2>1. \A q \in Requests : Asked(q)'
    <3>1. Asked(r)'
      BY <1>2, AskedStep DEF CoverInv, ShapeInv
    <3>2. ASSUME NEW q \in Requests \ {r} PROVE Asked(q)'
      <4>1. Untouched(q)
        BY <1>2, ActsAlone DEF OnlyFor
      <4> QED BY <4>1 DEF Untouched, Asked, CoverInv
    <3> QED BY <3>1, <3>2
  <2> DEFINE g == AllSpent("ai")
             k == AllSpent("ai")'
             i == Jobs
             j == Jobs'
  <2>2. PICK m \in Months : JobsMove(r, m)
    BY <1>2, JobsStep DEF ShapeInv
  <2>3. \A q \in Requests : g[q] \in Nat /\ k[q] \in Nat
    BY PartTypes, NextPartTypes DEF AllSpent, Monthly
  <2>4. \A q \in Requests \ {r} : g[q] = k[q]
    <3> SUFFICES ASSUME NEW q \in Requests \ {r} PROVE Spent(q, "ai") = Spent(q, "ai")'
      BY DEF AllSpent
    <3>1. Untouched(q)
      BY <1>2, ActsAlone DEF OnlyFor
    <3> QED BY <3>1 DEF Spent, Untouched
  <2>5. g[r] = Spent(r, "ai") /\ k[r] = Spent(r, "ai")'
    BY DEF AllSpent
  <2>6. \A n \in Months : i[n] \in Nat /\ j[n] \in Nat /\ i[n] = used[n]["ai"] /\ j[n] = used'[n]["ai"]
    BY DEF Jobs, TypeOK, Monthly
  <2>7. (\A n \in Months \ {m} : i[n] = j[n]) /\ j[m] >= i[m] - g[r] + k[r]
    BY <2>2, <2>5, <2>6 DEF JobsMove
  <2>8. Total(g, Requests) <= Total(i, Months)
    BY DEF CoverInv
  <2>a. /\ \A n \in Months : i[n] \in Nat /\ j[n] \in Nat
        /\ \A n \in Months \ {m} : i[n] = j[n]
        /\ j[m] >= i[m] - g[r] + k[r]
    BY <2>6, <2>7
  <2> HIDE DEF g, k, i, j
  <2>9. /\ Total(g, Requests) \in Nat
        /\ Total(k, Requests) = Total(g, Requests) - g[r] + k[r]
    BY <1>0, <2>3, <2>4, TotalUpdate
  <2>10. /\ Total(i, Months) \in Nat
         /\ Total(j, Months) = Total(i, Months) - i[m] + j[m]
    BY <1>0, <2>a, TotalUpdate
  <2>11. g[r] \in Nat /\ k[r] \in Nat /\ i[m] \in Nat /\ j[m] \in Nat
    BY <2>3, <2>a
  <2>12. Total(k, Requests) <= Total(j, Months)
    BY <2>a, <2>8, <2>9, <2>10, <2>11
  <2> QED BY <2>1, <2>12 DEF CoverInv, k, j
<1> QED BY <1>1, <1>2, NextActs

LEMMA TotalZero ==
    ASSUME NEW S, IsFiniteSet(S), NEW g, \A x \in S : g[x] = 0
    PROVE  Total(g, S) = 0
<1>1. \A x \in S : g[x] \in Nat /\ g[x] <= 0 * g[x]
  OBVIOUS
<1>2. Total(g, S) \in Nat /\ Total(g, S) <= 0 * Total(g, S)
  BY <1>1, TotalNat, TotalAtMost
<1> QED BY <1>2

LEMMA CoverInit == QuotaAssumption /\ Init => CoverInv
<1> SUFFICES ASSUME QuotaAssumption, Init PROVE CoverInv
  OBVIOUS
<1>0. IsFiniteSet(Requests) /\ IsFiniteSet(Months)
  BY FS_Interval DEF QuotaAssumption, Months
<1>1. \A r \in Requests : Asked(r)
  BY DEF Init, Asked
<1>2. Total(AllSpent("ai"), Requests) = 0
  <2>1. \A r \in Requests : AllSpent("ai")[r] = 0
    BY DEF Init, AllSpent, Spent
  <2> QED BY <1>0, <2>1, TotalZero
<1>3. Total(Jobs, Months) = 0
  <2>1. \A m \in Months : Jobs[m] = 0
    BY DEF Init, Jobs, Monthly
  <2> QED BY <1>0, <2>1, TotalZero
<1> QED BY <1>1, <1>2, <1>3 DEF CoverInv

LEMMA Larger ==
    ASSUME NEW a \in Nat, NEW b \in Nat, a <= b, NEW c \in Nat
    PROVE  a * c <= b * c /\ c * a <= c * b
<1>1. b = a + (b - a) /\ b - a \in Nat
  OBVIOUS
<1>2. (b - a) * c \in Nat /\ a * c \in Nat
  BY <1>1
<1>3. b * c = a * c + (b - a) * c
  BY <1>1
<1>4. c * a = a * c /\ c * b = b * c
  OBVIOUS
<1> QED BY <1>2, <1>3, <1>4

LEMMA CallsPerJob ==
    ASSUME QuotaAssumption, TypeOK, NEW r \in Requests, Asked(r)
    PROVE  calls[r] <= RequestsPerJob * Spent(r, "ai")
<1>0. /\ calls[r] \in Nat /\ attempts[r] \in 0..MaxAttempts /\ kind[r] \in Kinds
      /\ Spent(r, "ai") \in Nat
      /\ MaxAttempts \in Nat \ {0} /\ MaxChunks \in Nat /\ HttpAttempts \in Nat /\ BatchFiles \in Nat
  BY PartTypes DEF TypeOK, QuotaAssumption, Monthly
<1> DEFINE once == MaxChunks * HttpAttempts
<1>1. once \in Nat /\ RequestsPerJob = MaxAttempts * once /\ RequestsPerJob \in Nat
  BY <1>0 DEF RequestsPerJob
<1>2. CASE calls[r] = 0
  BY <1>0, <1>1, <1>2
<1>3. CASE calls[r] > 0 /\ kind[r] = "summary"
  <2>1. Spent(r, "ai") = 1 /\ calls[r] <= once
    BY <1>0, <1>3 DEF Asked, Spent
  <2>2. 1 * once <= MaxAttempts * once
    <3> HIDE DEF once
    <3> QED BY <1>0, <1>1, Larger
  <2> HIDE DEF once
  <2> QED BY <1>0, <1>1, <2>1, <2>2
<1>4. CASE calls[r] > 0 /\ kind[r] = "batch"
  <2>1. Spent(r, "ai") = BatchFiles /\ calls[r] <= attempts[r] * (BatchFiles * MaxChunks * HttpAttempts)
    BY <1>0, <1>4 DEF Asked, Spent
  <2>2. BatchFiles * MaxChunks * HttpAttempts = BatchFiles * once /\ BatchFiles * once \in Nat
    BY <1>0, <1>1
  <2> HIDE DEF once
  <2>3. attempts[r] * (BatchFiles * once) <= MaxAttempts * (BatchFiles * once)
    BY <1>0, <2>2, Larger
  <2>4. MaxAttempts * (BatchFiles * once) = RequestsPerJob * BatchFiles
    BY <1>0, <1>1
  <2>5. /\ attempts[r] * (BatchFiles * once) \in Nat /\ RequestsPerJob * BatchFiles \in Nat
        /\ calls[r] <= attempts[r] * (BatchFiles * once)
    BY <1>0, <1>1, <2>1, <2>2
  <2>6. calls[r] <= RequestsPerJob * BatchFiles
    BY <1>0, <2>3, <2>4, <2>5
  <2> QED BY <2>1, <2>6
<1>5. kind[r] = "upload" => calls[r] = 0
  BY DEF Asked
<1> QED BY <1>0, <1>2, <1>3, <1>4, <1>5 DEF Kinds

LEMMA SumOfCalls ==
    /\ MapThenSumSet(LAMBDA r : calls[r], Requests) = Total(calls, Requests)
    /\ MapThenSumSet(LAMBDA m : used[m]["ai"], Months) = Total(Jobs, Months)
<1>1. MapThenSumSet(LAMBDA r : calls[r], Requests) = Total(calls, Requests)
  BY ZenonT(60) DEF MapThenSumSet, MapThenFoldSet, Total, Sums, First
<1>2. MapThenSumSet(LAMBDA m : used[m]["ai"], Months) = Total(Jobs, Months)
  BY ZenonT(60) DEF MapThenSumSet, MapThenFoldSet, Total, Sums, First, Jobs
<1> QED BY <1>1, <1>2

LEMMA CoverHolds == TypeOK /\ CoverInv => CallsAreCovered
<1> SUFFICES ASSUME TypeOK, CoverInv PROVE CallsAreCovered
  OBVIOUS
<1>0. IsFiniteSet(Requests) /\ IsFiniteSet(Months) /\ RequestsPerJob \in Nat
  BY QuotaAssumption, FS_Interval DEF QuotaAssumption, Months, RequestsPerJob
<1>1. \A r \in Requests : /\ calls[r] \in Nat /\ AllSpent("ai")[r] \in Nat
                          /\ calls[r] <= RequestsPerJob * AllSpent("ai")[r]
  BY QuotaAssumption, PartTypes, CallsPerJob DEF TypeOK, AllSpent, Monthly, CoverInv
<1>2. Total(calls, Requests) <= RequestsPerJob * Total(AllSpent("ai"), Requests)
  BY <1>0, <1>1, TotalAtMost
<1>3. \A m \in Months : Jobs[m] \in Nat
  BY DEF TypeOK, Jobs, Monthly
<1>4. /\ Total(calls, Requests) \in Nat /\ Total(AllSpent("ai"), Requests) \in Nat
      /\ Total(Jobs, Months) \in Nat
  BY <1>0, <1>1, <1>3, TotalNat
<1>5. RequestsPerJob * Total(AllSpent("ai"), Requests) <= RequestsPerJob * Total(Jobs, Months)
  BY <1>0, <1>4, Larger DEF CoverInv
<1>6. /\ RequestsPerJob * Total(AllSpent("ai"), Requests) \in Nat
      /\ RequestsPerJob * Total(Jobs, Months) \in Nat
  BY <1>0, <1>4
<1>7. Total(calls, Requests) <= RequestsPerJob * Total(Jobs, Months)
  BY <1>2, <1>4, <1>5, <1>6
<1> QED BY <1>7, SumOfCalls DEF CallsAreCovered

(* The provider is asked for nothing that is not counted as an AI job, and *)
(* every counted job stands for a bounded number of requests to it, under  *)
(* all faults: what has been asked is never refunded.                      *)
THEOREM Covered == Spec => []CallsAreCovered
<1>1. Spec => [](TypeOK /\ CheckedFits)
  BY QuotaAssumption, TypeInit, TypeStep, SafetyInit, CheckedInductive, PTL DEF Spec
<1>2. Init => CoverInv
  BY QuotaAssumption, CoverInit
<1>3. ASSUME TypeOK, TypeOK', CheckedFits, ShapeInv, CoverInv, [Next]_vars PROVE CoverInv'
  BY <1>3, QuotaAssumption, CoverInductive
<1>4. TypeOK /\ CoverInv => CallsAreCovered
  BY CoverHolds
<1> QED BY <1>1, <1>2, <1>3, <1>4, BooksAlways, PTL DEF Spec

=============================================================================
