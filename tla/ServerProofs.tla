------------------------------ MODULE ServerProofs ------------------------------
(***************************************************************************)
(* Proofs about LoginGuard, for any callers, actions, limits, windows and  *)
(* numbers of requests, and about Server, for any requests, workers,       *)
(* schemas and scenarios.  To the handlers, servers that come and go are   *)
(* nothing new, so what the first part shows of the limits holds across    *)
(* restarts; and the schema is safe wherever a process begins or ends.     *)
(***************************************************************************)
EXTENDS Server, TLAPS

-----------------------------------------------------------------------------
(* Limits and locks                                                        *)

USE GuardAssumption DEF Actions, Identities, Times

(* A time lies in the window it is taken to: authRateLimit and             *)
(* endpointRateLimit cut the clock down to a multiple of the window.       *)
LEMMA InWindow ==
    ASSUME NEW a \in Actions, NEW t \in Times
    PROVE  /\ WindowStart(a, t) \in Times
           /\ WindowStart(a, t) <= t
           /\ t < WindowStart(a, t) + Window[a]
<1> DEFINE w == Window[a]
<1>1. w \in Nat \ {0}
  OBVIOUS
<1>2. t % w \in 0 .. w - 1
  BY <1>1
<1>3. t % w <= t
  BY <1>1, <1>2, SMT
<1> QED
  BY <1>1, <1>2, <1>3 DEF WindowStart

LEMMA KeyTyped ==
    ASSUME TypeOK, NEW r \in Requests, pc[r] = "limit"
    PROVE  /\ Key(r) \in Keys
           /\ Key(r).action = local[r].action
           /\ Key(r).start = WindowStart(local[r].action, local[r].came)
<1>1. local[r] \in Known /\ local[r].identity \in Identities
  BY DEF TypeOK
<1>2. local[r].action \in Actions /\ local[r].came \in Times
  BY <1>1 DEF Known
<1>3. WindowStart(local[r].action, local[r].came) \in Times
  BY <1>2, InWindow
<1> QED
  BY <1>1, <1>2, <1>3 DEF Key, Keys

LEMMA BlankTyped == Blank \in Known
BY DEF Blank, Known

(* A handler that has answered, or goes on with nothing but its request.   *)
LEMMA GotoTyped ==
    ASSUME TypeOK, NEW r \in Requests, NEW place \in Places, NEW info \in Known,
           place = "limit" => info.identity \in Identities,
           Goto(r, place, info)
    PROVE  /\ pc' \in [Requests -> Places] /\ local' \in [Requests -> Known]
           /\ \A q \in Requests : (pc'[q] = "limit") => local'[q].identity \in Identities
<1>1. pc \in [Requests -> Places] /\ local \in [Requests -> Known]
  BY DEF TypeOK
<1>2. pc' = [pc EXCEPT ![r] = place] /\ local' = [local EXCEPT ![r] = info]
  BY DEF Goto
<1>3. ASSUME NEW q \in Requests, pc'[q] = "limit" PROVE local'[q].identity \in Identities
  <2>1. CASE q = r
    BY <1>1, <1>2, <1>3, <2>1
  <2>2. CASE q # r
    BY <1>1, <1>2, <1>3, <2>2 DEF TypeOK
  <2> QED BY <2>1, <2>2
<1> QED BY <1>1, <1>2, <1>3

(* What the steps of a login do to the places and to what was read.        *)
LEMMA AnswerTyped ==
    ASSUME TypeOK, NEW r \in Requests, Answer(r)
    PROVE  /\ pc' \in [Requests -> Places] /\ local' \in [Requests -> Known]
           /\ \A q \in Requests : (pc'[q] = "limit") => local'[q].identity \in Identities
BY GotoTyped, BlankTyped DEF Answer, Places

LEMMA HandleTyped ==
    ASSUME TypeOK, NEW r \in Requests, NEW a, Handle(r, a)
    PROVE  /\ pc' \in [Requests -> Places] /\ local' \in [Requests -> Known]
           /\ \A q \in Requests : (pc'[q] = "limit") => local'[q].identity \in Identities
BY GotoTyped, AnswerTyped, BlankTyped DEF Handle, Places

LEMMA TypeInit == Init => TypeOK
BY BlankTyped DEF Init, TypeOK, NoRow, Places

LEMMA TypeStep == TypeOK /\ [Next]_vars => TypeOK'
<1> SUFFICES ASSUME TypeOK, [Next]_vars PROVE TypeOK'
  OBVIOUS
<1>1. ASSUME NEW r \in Requests, NEW d \in demand, Arrive(r, d[1], d[2]) PROVE TypeOK'
  <2>1. d[1] \in Callers /\ d[2] \in Actions
    BY DEF TypeOK
  <2>2. ASSUME NEW i \in Identity(d[2], d[1])
        PROVE  i \in Identities /\ Asked(i, d[2]) \in Known /\ Asked(i, d[2]).identity = i
    <3>1. i \in Identities
      BY <2>1 DEF Identity
    <3> QED BY <2>1, <3>1 DEF Asked, Known, TypeOK
  <2>3. /\ pc' \in [Requests -> Places] /\ local' \in [Requests -> Known]
        /\ \A q \in Requests : (pc'[q] = "limit") => local'[q].identity \in Identities
    <3>1. CASE Limit[d[2]] < 1
      BY <1>1, <3>1, HandleTyped DEF Arrive
    <3>2. CASE ~(Limit[d[2]] < 1)
      <4>1. PICK i \in Identity(d[2], d[1]) : Goto(r, "limit", Asked(i, d[2]))
        BY <1>1, <3>2 DEF Arrive
      <4> QED BY <2>2, <4>1, GotoTyped DEF Places
    <3> QED BY <3>1, <3>2
  <2> QED BY <1>1, <2>3 DEF Arrive, TypeOK, limits, account
<1>2. ASSUME NEW r \in Requests, CountRequest(r) PROVE TypeOK'
  <2>1. Key(r) \in Keys
    BY <1>2, KeyTyped DEF CountRequest
  <2>2. /\ pc' \in [Requests -> Places] /\ local' \in [Requests -> Known]
        /\ \A q \in Requests : (pc'[q] = "limit") => local'[q].identity \in Identities
    BY <1>2, HandleTyped, AnswerTyped DEF CountRequest
  <2>3. Counted(Key(r)) \in [count : Nat, updated : Times]
    BY <2>1 DEF Counted, TypeOK
  <2>4. rows' \in [Keys -> [count : Nat, updated : Times]]
    BY <1>2, <2>1, <2>3 DEF CountRequest, TypeOK
  <2>5. served' \in [Keys -> Nat]
    BY <1>2, <2>1 DEF CountRequest, TypeOK
  <2> QED BY <1>2, <2>2, <2>4, <2>5 DEF CountRequest, TypeOK, account, bounds
<1>3. ASSUME NEW r \in Requests, LoginRead(r) PROVE TypeOK'
  <2>1. CASE Answer(r)
    BY <1>3, <2>1, AnswerTyped DEF LoginRead, TypeOK, limits, account, bounds
  <2>2. CASE ~Answer(r)
    <3>1. PICK place \in {"wrong", "right"} : pc' = [pc EXCEPT ![r] = place]
      BY <1>3, <2>2 DEF LoginRead
    <3>2. local' = [q \in Requests |->
                IF q = r THEN Noted(r, failed, Comparing # {})
                ELSE Noted(q, local[q].failed, local[q].overlapped \/ q \in Comparing)]
      BY <1>3, <2>2 DEF LoginRead
    <3>3. \A q \in Requests : local[q] \in Known
      BY DEF TypeOK
    <3>4. ASSUME NEW q \in Requests
          PROVE  local'[q] \in Known /\ local'[q].identity = local[q].identity
      <4>1. ASSUME NEW o \in BOOLEAN
            PROVE  /\ Noted(q, local[q].failed, o) \in Known
                   /\ Noted(q, local[q].failed, o).identity = local[q].identity
        BY <3>3 DEF Known, Noted
      <4>2. ASSUME NEW o \in BOOLEAN
            PROVE  Noted(r, failed, o) \in Known /\ Noted(r, failed, o).identity = local[r].identity
        BY <3>3 DEF Known, Noted, TypeOK
      <4>3. CASE q = r
        BY <3>2, <4>2, <4>3
      <4>4. CASE q # r
        <5>1. local'[q] = Noted(q, local[q].failed, local[q].overlapped \/ q \in Comparing)
          BY <3>2, <4>4
        <5>2. (local[q].overlapped \/ q \in Comparing) \in BOOLEAN
          OBVIOUS
        <5> QED BY <4>1, <5>1, <5>2
      <4> QED BY <4>3, <4>4
    <3>5. pc' \in [Requests -> Places]
      BY <3>1 DEF TypeOK, Places
    <3>6. local' \in [Requests -> Known]
      BY <3>2, <3>4
    <3>7. ASSUME NEW q \in Requests, pc'[q] = "limit" PROVE local'[q].identity \in Identities
      BY <3>1, <3>4, <3>7 DEF TypeOK
    <3> QED BY <1>3, <3>5, <3>6, <3>7 DEF LoginRead, TypeOK, limits, account, bounds
  <2> QED BY <2>1, <2>2
<1>4. ASSUME NEW r \in Requests, LoginFails(r) PROVE TypeOK'
  <2>1. local[r].failed \in 0 .. MaxLoginAttempts - 1
    BY DEF TypeOK, Known
  <2>2. failed' \in 0 .. MaxLoginAttempts - 1 /\ lockedUntil' \in Nat /\ alone' \in Nat
    BY <1>4, <2>1 DEF LoginFails, TooMany, TypeOK, account
  <2> QED BY <1>4, <2>2, AnswerTyped DEF LoginFails, TypeOK, limits, bounds
<1>5. ASSUME NEW r \in Requests, LoginClears(r) PROVE TypeOK'
  BY <1>5, AnswerTyped DEF LoginClears, Unlock, TypeOK, limits, bounds, account
<1>6. ASSUME CleanupLimits PROVE TypeOK'
  <2>1. rows' \in [Keys -> [count : Nat, updated : Times]]
    BY <1>6 DEF CleanupLimits, TypeOK, NoRow
  <2> QED BY <1>6, <2>1 DEF CleanupLimits, TypeOK, account, bounds
<1>7. ASSUME Clear PROVE TypeOK'
  BY <1>7 DEF Clear, Unlock, TypeOK, limits
<1>8. ASSUME Tick PROVE TypeOK'
  BY <1>8 DEF Tick, TypeOK, limits, account, bounds
<1>9. CASE UNCHANGED vars
  BY <1>9 DEF TypeOK, vars, limits, account, bounds
<1> QED BY <1>1, <1>2, <1>3, <1>4, <1>5, <1>6, <1>7, <1>8, <1>9 DEF Next

-----------------------------------------------------------------------------
(* The request limits                                                      *)

(* A window nobody can be counted in any more.                             *)
Closed(k) == k.start + Window[k.action] + Patience <= clock

(* While a window is open its row counts at least whom it let through, and *)
(* a row is not older than its window, so that none is removed before its  *)
(* window is closed.  Whoever waits for the limiter came not long ago.     *)
LimitInv ==
    /\ \A k \in Keys : served[k] <= Limit[k.action]
    /\ \A k \in Keys : ~Closed(k) => served[k] <= rows[k].count
    /\ \A k \in Keys : rows[k].count > 0 => k.start <= rows[k].updated
    /\ \A r \in Requests : pc[r] = "limit" =>
          local[r].came <= clock /\ clock <= local[r].came + Patience

LEMMA LimitInit == Init => LimitInv
BY DEF Init, LimitInv, NoRow, Keys

(* Steps that leave the rows alone and send nobody to the limiter.         *)
LEMMA LimitKept ==
    ASSUME LimitInv, TypeOK, UNCHANGED <<clock, limits>>,
           \A r \in Requests : pc'[r] = "limit" =>
                pc[r] = "limit" /\ local'[r].came = local[r].came
    PROVE  LimitInv'
BY DEF LimitInv, Closed, limits

LEMMA LimitStep == TypeOK /\ LimitInv /\ [Next]_vars => LimitInv'
<1> SUFFICES ASSUME TypeOK, LimitInv, [Next]_vars PROVE LimitInv'
  OBVIOUS
<1>0. /\ pc \in [Requests -> Places] /\ local \in [Requests -> Known]
      /\ rows \in [Keys -> [count : Nat, updated : Times]] /\ served \in [Keys -> Nat]
      /\ clock \in Times
  BY DEF TypeOK
<1>a. ASSUME NEW r \in Requests, NEW place \in Places \ {"limit"}, NEW info, Goto(r, place, info)
      PROVE  \A q \in Requests : pc'[q] = "limit" =>
                pc[q] = "limit" /\ local'[q].came = local[q].came
  BY <1>0, <1>a DEF Goto
<1>b. ASSUME NEW r \in Requests, Answer(r)
      PROVE  \A q \in Requests : pc'[q] = "limit" =>
                pc[q] = "limit" /\ local'[q].came = local[q].came
  BY <1>a, <1>b DEF Answer, Places
<1>c. ASSUME NEW r \in Requests, NEW a, Handle(r, a)
      PROVE  \A q \in Requests : pc'[q] = "limit" =>
                pc[q] = "limit" /\ local'[q].came = local[q].came
  BY <1>a, <1>b, <1>c DEF Handle, Places
<1>1. ASSUME NEW r \in Requests, NEW d \in demand, Arrive(r, d[1], d[2]) PROVE LimitInv'
  <2>1. CASE Limit[d[2]] < 1
    BY <1>1, <1>c, <2>1, LimitKept DEF Arrive, limits
  <2>2. CASE ~(Limit[d[2]] < 1)
    <3>1. PICK i \in Identity(d[2], d[1]) : Goto(r, "limit", Asked(i, d[2]))
      BY <1>1, <2>2 DEF Arrive
    <3>2. UNCHANGED <<clock, limits>>
      BY <1>1 DEF Arrive
    <3>3. ASSUME NEW q \in Requests, pc'[q] = "limit"
          PROVE  local'[q].came <= clock /\ clock <= local'[q].came + Patience
      <4>1. CASE q = r
        <5>1. local'[q].came = clock
          BY <1>0, <3>1, <4>1 DEF Goto, Asked
        <5> QED BY <1>0, <5>1
      <4>2. CASE q # r
        BY <1>0, <3>1, <3>3, <4>2 DEF Goto, LimitInv
      <4> QED BY <4>1, <4>2
    <3> QED BY <3>2, <3>3 DEF LimitInv, Closed, limits
  <2> QED BY <2>1, <2>2
<1>2. ASSUME NEW r \in Requests, CountRequest(r) PROVE LimitInv'
  <2> DEFINE k == Key(r)
  <2>1. /\ k \in Keys /\ k.action = local[r].action
        /\ k.start = WindowStart(local[r].action, local[r].came)
    BY <1>2, KeyTyped DEF CountRequest
  <2>2. local[r].action \in Actions /\ local[r].came \in Times
    BY <1>0 DEF Known
  <2>3. k.start \in Times /\ k.start <= local[r].came /\ local[r].came < k.start + Window[k.action]
    BY <2>1, <2>2, InWindow
  <2>4. local[r].came <= clock /\ clock <= local[r].came + Patience
    BY <1>2 DEF CountRequest, LimitInv
  <2>5. ~Closed(k)
    BY <1>0, <2>1, <2>2, <2>3, <2>4 DEF Closed
  <2>6. served[k] <= rows[k].count
    BY <2>1, <2>5 DEF LimitInv
  <2>7. UNCHANGED clock
    BY <1>2 DEF CountRequest
  <2>8. \A q \in Requests : pc'[q] = "limit" => pc[q] = "limit" /\ local'[q].came = local[q].came
    BY <1>2, <1>b, <1>c DEF CountRequest
  <2>9. \/ UNCHANGED <<rows, served>>
        \/ UNCHANGED served /\ rows' = [rows EXCEPT ![k] = Counted(k)]
        \/ /\ rows[k].count + 1 <= Limit[k.action]
           /\ served' = [served EXCEPT ![k] = @ + 1] /\ rows' = [rows EXCEPT ![k] = Counted(k)]
    BY <1>2, <2>1 DEF CountRequest
  <2>10. Counted(k).count = rows[k].count + 1 /\ Counted(k).updated = clock
    BY DEF Counted
  <2>11. rows[k].count \in Nat /\ served[k] \in Nat /\ Limit[k.action] \in Nat
    BY <1>0, <2>1, <2>2
  <2>12. CASE UNCHANGED <<rows, served>>
    BY <2>7, <2>8, <2>12, LimitKept DEF limits
  <2>13. ASSUME rows' = [rows EXCEPT ![k] = Counted(k)],
                \/ UNCHANGED served
                \/ rows[k].count + 1 <= Limit[k.action] /\ served' = [served EXCEPT ![k] = @ + 1]
         PROVE  LimitInv'
    <3>1. ASSUME NEW j \in Keys
          PROVE  /\ served'[j] <= Limit[j.action]
                 /\ ~Closed(j) => served'[j] <= rows'[j].count
                 /\ rows'[j].count > 0 => j.start <= rows'[j].updated
      <4>1. CASE j = k
        <5>1. rows'[j].count = rows[k].count + 1 /\ rows'[j].updated = clock
          BY <1>0, <2>1, <2>10, <2>13, <4>1
        <5>2. served'[j] = served[k] \/ (rows[k].count + 1 <= Limit[k.action] /\ served'[j] = served[k] + 1)
          BY <1>0, <2>1, <2>13, <4>1
        <5>3. served[k] <= Limit[k.action]
          BY <2>1 DEF LimitInv
        <5> QED BY <1>0, <2>2, <2>3, <2>4, <2>6, <2>11, <4>1, <5>1, <5>2, <5>3
      <4>2. CASE j # k
        <5>1. rows'[j] = rows[j] /\ served'[j] = served[j]
          BY <1>0, <2>1, <2>13, <4>2
        <5> QED BY <5>1 DEF LimitInv
      <4> QED BY <4>1, <4>2
    <3> QED BY <2>7, <2>8, <3>1 DEF LimitInv, Closed
  <2> HIDE DEF k
  <2> QED BY <2>9, <2>12, <2>13
<1>3. ASSUME NEW r \in Requests, LoginRead(r) PROVE LimitInv'
  <2>1. CASE Answer(r)
    BY <1>3, <1>b, <2>1, LimitKept DEF LoginRead
  <2>2. CASE ~Answer(r)
    <3>1. PICK place \in {"wrong", "right"} : pc' = [pc EXCEPT ![r] = place]
      BY <1>3, <2>2 DEF LoginRead
    <3>2. \A q \in Requests : local'[q].came = local[q].came
      <4>1. local' = [q \in Requests |->
                IF q = r THEN Noted(r, failed, Comparing # {})
                ELSE Noted(q, local[q].failed, local[q].overlapped \/ q \in Comparing)]
        BY <1>3, <2>2 DEF LoginRead
      <4> QED BY <4>1 DEF Noted
    <3> QED BY <1>0, <1>3, <3>1, <3>2, LimitKept DEF LoginRead
  <2> QED BY <2>1, <2>2
<1>4. ASSUME NEW r \in Requests, LoginFails(r) PROVE LimitInv'
  BY <1>4, <1>b, LimitKept DEF LoginFails
<1>5. ASSUME NEW r \in Requests, LoginClears(r) PROVE LimitInv'
  BY <1>5, <1>b, LimitKept DEF LoginClears
<1>6. ASSUME CleanupLimits PROVE LimitInv'
  <2>1. ASSUME NEW k \in Keys
        PROVE  /\ ~Closed(k) => served[k] <= rows'[k].count
               /\ rows'[k].count > 0 => k.start <= rows'[k].updated
    <3>1. k.start \in Times /\ k.action \in Actions /\ rows[k].updated \in Times
          /\ rows[k].count \in Nat /\ served[k] \in Nat
      BY <1>0 DEF Keys
    <3>2. CASE Outdated(k)
      <4>1. rows'[k].count = 0
        BY <1>6, <3>2 DEF CleanupLimits, NoRow
      <4>2. CASE rows[k].count = 0
        BY <3>1, <4>1, <4>2 DEF LimitInv
      <4>3. CASE rows[k].count > 0
        <5>1. k.start <= rows[k].updated
          BY <4>3 DEF LimitInv
        <5>2. Window[k.action] + Patience <= Retention /\ Window[k.action] \in Nat
          BY <3>1
        <5>3. Closed(k)
          BY <1>0, <3>1, <3>2, <5>1, <5>2 DEF Closed, Outdated
        <5> QED BY <4>1, <5>3
      <4> QED BY <3>1, <4>2, <4>3
    <3>3. CASE ~Outdated(k)
      <4>1. rows'[k] = rows[k]
        BY <1>6, <3>3 DEF CleanupLimits
      <4> QED BY <4>1 DEF LimitInv
    <3> QED BY <3>2, <3>3
  <2> QED BY <1>6, <2>1 DEF CleanupLimits, LimitInv, Closed
<1>7. ASSUME Clear PROVE LimitInv'
  BY <1>7, LimitKept DEF Clear
<1>8. ASSUME Tick PROVE LimitInv'
  <2>1. clock' = clock + 1 /\ UNCHANGED <<limits, pc, local>>
    BY <1>8 DEF Tick
  <2>2. ASSUME NEW k \in Keys, ~(Closed(k)') PROVE ~Closed(k)
    <3>1. k.start \in Times /\ k.action \in Actions
      BY DEF Keys
    <3>2. Window[k.action] \in Nat
      BY <3>1
    <3> QED BY <1>0, <2>1, <2>2, <3>1, <3>2 DEF Closed
  <2>3. ASSUME NEW r \in Requests, pc'[r] = "limit"
        PROVE  local'[r].came <= clock' /\ clock' <= local'[r].came + Patience
    <3>1. local[r].came \in Times
      BY <1>0 DEF Known
    <3>2. local[r].came <= clock /\ clock < local[r].came + Patience
      BY <1>8, <2>1, <2>3 DEF Tick, LimitInv
    <3> QED BY <1>0, <2>1, <3>1, <3>2
  <2> QED BY <2>1, <2>2, <2>3 DEF LimitInv, limits
<1>9. CASE UNCHANGED vars
  BY <1>9, LimitKept DEF vars
<1> QED BY <1>1, <1>2, <1>3, <1>4, <1>5, <1>6, <1>7, <1>8, <1>9 DEF Next

(* Every state is typed.                                                   *)
THEOREM TypeCorrect == Spec => []TypeOK
<1>1. Init => TypeOK
  BY TypeInit
<1>2. TypeOK /\ [Next]_vars => TypeOK'
  BY TypeStep
<1> QED BY <1>1, <1>2, PTL DEF Spec

(* However many callers and requests there are, whatever is cleaned up or  *)
(* fails: no window lets more than the limit through to the handler.       *)
THEOREM WithinLimit == Spec => []LimitPerWindow
<1>1. Init => LimitInv
  BY LimitInit
<1>2. TypeOK /\ LimitInv /\ [Next]_vars => LimitInv'
  BY LimitStep
<1>3. LimitInv => LimitPerWindow
  BY DEF LimitInv, LimitPerWindow
<1> QED BY <1>1, <1>2, <1>3, TypeCorrect, PTL DEF Spec

-----------------------------------------------------------------------------
(* The lock                                                                *)

(* Attempts under way together know it; the counter, and every count that  *)
(* is going to be written over it, is not below the number of failures     *)
(* that stood alone; and who compares a password while the account is      *)
(* locked was doing so, with another, when the lock was set.               *)
LockInv ==
    /\ alone <= failed
    /\ \A r \in Comparing : alone <= local[r].failed
    /\ \A r, q \in Comparing : r # q => local[r].overlapped
    /\ Locked => \A r \in Comparing : local[r].overlapped

LEMMA LockInit == Init => LockInv
BY DEF Init, LockInv, Comparing, Locked

(* Fewer attempts, none of them changed, and the account as it was.        *)
LEMMA LockKept ==
    ASSUME TypeOK, LockInv, UNCHANGED account, Locked' => Locked,
           Comparing' \subseteq Comparing,
           \A r \in Comparing' : local'[r] = local[r]
    PROVE  LockInv'
BY DEF LockInv, account

(* An attempt that ends leaves the others as they are.                     *)
LEMMA AnswerLeaves ==
    ASSUME TypeOK, NEW r \in Requests, Answer(r)
    PROVE  /\ Comparing' = Comparing \ {r}
           /\ \A q \in Comparing' : local'[q] = local[q]
<1>1. pc' = [pc EXCEPT ![r] = "idle"] /\ local' = [local EXCEPT ![r] = Blank]
  BY DEF Answer, Goto
<1>2. pc \in [Requests -> Places] /\ local \in [Requests -> Known]
  BY DEF TypeOK
<1> QED BY <1>1, <1>2 DEF Comparing

LEMMA HandleLeaves ==
    ASSUME TypeOK, NEW r \in Requests, r \notin Comparing, NEW a, Handle(r, a)
    PROVE  Comparing' = Comparing /\ \A q \in Comparing' : local'[q] = local[q]
<1>1. CASE Answer(r)
  BY <1>1, AnswerLeaves
<1>2. CASE Goto(r, "login", Blank)
  BY <1>2 DEF Goto, Comparing, TypeOK
<1> QED BY <1>1, <1>2 DEF Handle

(* The steps that may change the lock: after them LockInv holds again, and *)
(* if they moved a lock in force, the attempt had overlapped another.      *)
LEMMA FailsStep ==
    ASSUME TypeOK, LockInv, NEW r \in Requests, LoginFails(r)
    PROVE  /\ LockInv'
           /\ (Locked /\ lockedUntil' # lockedUntil) =>
                r \in Comparing /\ pc'[r] # pc[r] /\ local[r].overlapped
<1>1. Answer(r) /\ r \in Comparing /\ UNCHANGED clock
  BY DEF LoginFails, Comparing
<1>2. Comparing' = Comparing \ {r} /\ \A q \in Comparing' : local'[q] = local[q]
  BY <1>1, AnswerLeaves
<1>3. pc'[r] # pc[r]
  BY DEF LoginFails, Answer, Goto, TypeOK
<1>4. \A q \in Requests : local[q].failed \in 0 .. MaxLoginAttempts - 1
  BY DEF TypeOK, Known
<1>5. alone \in Nat /\ failed \in Nat /\ clock \in Nat /\ lockedUntil \in Nat
  BY DEF TypeOK
<1>6. alone <= local[r].failed
  BY <1>1 DEF LockInv
<1>7. \/ failed' = 0 /\ alone' = 0
      \/ /\ failed' = local[r].failed + 1 /\ UNCHANGED lockedUntil
         /\ alone' = (IF local[r].overlapped THEN alone ELSE alone + 1)
      \/ UNCHANGED account
  BY DEF LoginFails
<1>8. LockInv'
  <2>1. CASE UNCHANGED account
    BY <1>1, <1>2, <2>1, LockKept DEF Locked, account
  <2>2. CASE failed' = 0 /\ alone' = 0
    <3>1. \A q \in Comparing' : alone' <= local'[q].failed
      BY <1>2, <1>4, <2>2 DEF Comparing
    <3>2. \A q \in Comparing' : local'[q].overlapped
      BY <1>1, <1>2 DEF LockInv
    <3> QED BY <2>2, <3>1, <3>2 DEF LockInv
  <2>3. CASE /\ failed' = local[r].failed + 1 /\ UNCHANGED lockedUntil
             /\ alone' = (IF local[r].overlapped THEN alone ELSE alone + 1)
    <3>1. alone' <= failed'
      BY <1>4, <1>5, <1>6, <2>3
    <3>2. Locked' => Locked
      BY <1>1, <2>3 DEF Locked
    <3>3. CASE local[r].overlapped
      BY <1>2, <2>3, <3>1, <3>2, <3>3 DEF LockInv
    <3>4. CASE ~local[r].overlapped
      <4>1. Comparing' = {}
        BY <1>1, <1>2, <3>4 DEF LockInv
      <4> QED BY <3>1, <4>1 DEF LockInv
    <3> QED BY <3>3, <3>4
  <2> QED BY <1>7, <2>1, <2>2, <2>3
<1>9. Locked => local[r].overlapped
  BY <1>1 DEF LockInv
<1> QED BY <1>1, <1>3, <1>8, <1>9

LEMMA ClearsStep ==
    ASSUME TypeOK, LockInv, NEW r \in Requests, LoginClears(r)
    PROVE  /\ LockInv'
           /\ (Locked /\ lockedUntil' # lockedUntil) =>
                r \in Comparing /\ pc'[r] # pc[r] /\ local[r].overlapped
<1>1. Answer(r) /\ r \in Comparing /\ UNCHANGED clock
  BY DEF LoginClears, Comparing
<1>2. Comparing' = Comparing \ {r} /\ \A q \in Comparing' : local'[q] = local[q]
  BY <1>1, AnswerLeaves
<1>3. pc'[r] # pc[r]
  BY DEF LoginClears, Answer, Goto, TypeOK
<1>4. LockInv'
  <2>1. CASE UNCHANGED account
    BY <1>1, <1>2, <2>1, LockKept DEF Locked, account
  <2>2. CASE Unlock
    <3>1. \A q \in Requests : local[q].failed \in Nat
      BY DEF TypeOK, Known
    <3>2. ~Locked'
      BY <1>1, <2>2 DEF Locked, Unlock, TypeOK
    <3> QED BY <1>2, <2>2, <3>1, <3>2 DEF LockInv, Unlock, Comparing
  <2> QED BY <2>1, <2>2 DEF LoginClears
<1>5. Locked => local[r].overlapped
  BY <1>1 DEF LockInv
<1> QED BY <1>1, <1>3, <1>4, <1>5

LEMMA LockStep == TypeOK /\ LockInv /\ [Next]_vars => LockInv'
<1> SUFFICES ASSUME TypeOK, LockInv, [Next]_vars PROVE LockInv'
  OBVIOUS
<1>0. pc \in [Requests -> Places] /\ local \in [Requests -> Known]
  BY DEF TypeOK
<1>1. ASSUME NEW r \in Requests, NEW d \in demand, Arrive(r, d[1], d[2]) PROVE LockInv'
  <2>1. Comparing' = Comparing /\ \A q \in Comparing' : local'[q] = local[q]
    <3>1. CASE Limit[d[2]] < 1
      BY <1>1, <3>1, HandleLeaves DEF Arrive, Comparing
    <3>2. CASE ~(Limit[d[2]] < 1)
      BY <1>0, <1>1, <3>2 DEF Arrive, Goto, Comparing
    <3> QED BY <3>1, <3>2
  <2> QED BY <1>1, <2>1, LockKept DEF Arrive, Locked, account
<1>2. ASSUME NEW r \in Requests, CountRequest(r) PROVE LockInv'
  <2>1. r \notin Comparing
    BY <1>2 DEF CountRequest, Comparing
  <2>2. Comparing' = Comparing /\ \A q \in Comparing' : local'[q] = local[q]
    <3>1. Answer(r) \/ Handle(r, local[r].action)
      BY <1>2 DEF CountRequest
    <3>2. CASE Answer(r)
      BY <2>1, <3>2, AnswerLeaves
    <3>3. CASE Handle(r, local[r].action)
      BY <2>1, <3>3, HandleLeaves
    <3> QED BY <3>1, <3>2, <3>3
  <2> QED BY <1>2, <2>2, LockKept DEF CountRequest, Locked, account
<1>3. ASSUME NEW r \in Requests, LoginRead(r) PROVE LockInv'
  <2>1. r \notin Comparing /\ UNCHANGED <<clock, account>>
    BY <1>3 DEF LoginRead, Comparing
  <2>2. CASE Answer(r)
    BY <2>1, <2>2, AnswerLeaves, LockKept DEF Locked, account
  <2>3. CASE ~Answer(r)
    <3>1. PICK place \in {"wrong", "right"} : pc' = [pc EXCEPT ![r] = place]
      BY <1>3, <2>3 DEF LoginRead
    <3>2. /\ ~Locked
          /\ local' = [q \in Requests |->
                IF q = r THEN Noted(r, failed, Comparing # {})
                ELSE Noted(q, local[q].failed, local[q].overlapped \/ q \in Comparing)]
      BY <1>3, <2>3 DEF LoginRead, MayCompare
    <3>3. Comparing' = Comparing \cup {r}
      BY <1>0, <3>1 DEF Comparing
    <3>4. local'[r].failed = failed /\ (Comparing # {} => local'[r].overlapped)
      <4>1. local'[r] = Noted(r, failed, Comparing # {})
        BY <3>2
      <4>2. Noted(r, failed, Comparing # {}).overlapped = (Comparing # {})
        BY DEF Noted
      <4>3. Noted(r, failed, Comparing # {}).failed = failed
        BY DEF Noted
      <4> QED BY <4>1, <4>2, <4>3
    <3>5. ASSUME NEW q \in Comparing
          PROVE  local'[q].failed = local[q].failed /\ local'[q].overlapped
      <4>1. q \in Requests /\ q # r
        BY <2>1 DEF Comparing
      <4>2. local'[q] = Noted(q, local[q].failed, local[q].overlapped \/ q \in Comparing)
        BY <3>2, <4>1
      <4>3. local'[q].overlapped = (local[q].overlapped \/ q \in Comparing)
        BY <4>2 DEF Noted
      <4>4. local'[q].failed = local[q].failed
        BY <4>2 DEF Noted
      <4> QED BY <4>3, <4>4
    <3>6. ~Locked'
      BY <2>1, <3>2 DEF Locked, account
    <3>7. alone' = alone /\ failed' = failed
      BY <2>1 DEF account
    <3> QED BY <3>3, <3>4, <3>5, <3>6, <3>7 DEF LockInv
  <2> QED BY <2>2, <2>3
<1>4. ASSUME NEW r \in Requests, LoginFails(r) PROVE LockInv'
  BY <1>4, FailsStep
<1>5. ASSUME NEW r \in Requests, LoginClears(r) PROVE LockInv'
  BY <1>5, ClearsStep
<1>6. ASSUME CleanupLimits PROVE LockInv'
  BY <1>6, LockKept DEF CleanupLimits, Locked, account, Comparing
<1>7. ASSUME Clear PROVE LockInv'
  <2>1. \A q \in Requests : local[q].failed \in Nat
    BY <1>0 DEF Known
  <2>2. ~Locked'
    BY <1>7 DEF Clear, Unlock, Locked, TypeOK
  <2>3. Comparing' = Comparing /\ UNCHANGED local
    BY <1>7 DEF Clear, Comparing
  <2> QED BY <1>7, <2>1, <2>2, <2>3 DEF Clear, Unlock, LockInv, Comparing
<1>8. ASSUME Tick PROVE LockInv'
  BY <1>8, LockKept DEF Tick, Locked, account, Comparing, TypeOK
<1>9. CASE UNCHANGED vars
  BY <1>9, LockKept DEF vars, Locked, account, Comparing
<1> QED BY <1>1, <1>2, <1>3, <1>4, <1>5, <1>6, <1>7, <1>8, <1>9 DEF Next

(* Wrong passwords tried one after the other lock the account in time.     *)
THEOREM LockInTime == Spec => []LockComesInTime
<1>1. Init => LockInv
  BY LockInit
<1>2. TypeOK /\ LockInv /\ [Next]_vars => LockInv'
  BY LockStep
<1>3. TypeOK /\ LockInv => LockComesInTime
  BY DEF TypeOK, LockInv, LockComesInTime
<1> QED BY <1>1, <1>2, <1>3, TypeCorrect, PTL DEF Spec

(* A lock in force is moved by a clear or by an attempt that had begun     *)
(* before it.                                                              *)
THEOREM LockStands == Spec => LockHolds
<1>1. Init => LockInv
  BY LockInit
<1>2. TypeOK /\ LockInv /\ [Next]_vars => LockInv'
  BY LockStep
<1> DEFINE Moved ==
      (Locked /\ lockedUntil' # lockedUntil) =>
          \/ cleared' # cleared
          \/ \E r \in Requests : r \in Comparing /\ pc'[r] # pc[r] /\ local[r].overlapped
<1>3. TypeOK /\ LockInv /\ [Next]_vars => [Moved]_vars
  <2> SUFFICES ASSUME TypeOK, LockInv, Next, Locked, lockedUntil' # lockedUntil
               PROVE  Moved
    BY DEF vars, account
  <2>1. \/ \E r \in Requests : LoginFails(r) \/ LoginClears(r)
        \/ Clear
    BY DEF Next, Arrive, CountRequest, LoginRead, CleanupLimits, Tick, account
  <2>2. CASE \E r \in Requests : LoginFails(r) \/ LoginClears(r)
    BY <2>2, FailsStep, ClearsStep
  <2>3. CASE Clear
    BY <2>3 DEF Clear, TypeOK
  <2> QED BY <2>1, <2>2, <2>3
<1> QED BY <1>1, <1>2, <1>3, TypeCorrect, PTL DEF Spec, LockHolds

-----------------------------------------------------------------------------
(* Processes around the handlers                                           *)

HIDE GuardAssumption DEF Actions, Identities, Times

USE ServerAssumption DEF Processes

(* Every step is one of LoginGuard, or leaves it alone.                    *)
LEMMA StepRefines == [ServerNext]_serverVars => [Next]_vars
<1> SUFFICES ASSUME [ServerNext]_serverVars PROVE [Next]_vars
  OBVIOUS
<1>1. ASSUME NEW r \in Requests, HandlerStep(r) PROVE Next
  BY <1>1 DEF HandlerStep, Next
<1>2. CASE Serve
  BY <1>1, <1>2 DEF Serve, Next
<1>3. ASSUME NEW r \in Requests, Settle(r) PROVE Next
  BY <1>1, <1>3 DEF Settle
<1>4. ASSUME NEW p \in Processes,
             \/ Start(p) \/ TakeLock(p) \/ InspectLegacy(p) \/ ApplySchema(p)
             \/ RecordVersion(p) \/ ReleaseLock(p) \/ LoseConnection(p)
             \/ Die(p) \/ StopWorker(p)
      PROVE  UNCHANGED vars
  BY <1>4, Zenon DEF Start, TakeLock, InspectLegacy, ApplySchema, RecordVersion, ReleaseLock,
                LoseConnection, Die, StopWorker, NoRequest
<1>5. CASE Stop \/ GiveUp \/ ListenerFails \/ CloseDatabase \/ Exit
  BY <1>5, Zenon DEF Stop, GiveUp, ListenerFails, CloseDatabase, Exit, NoRequest
<1>6. CASE UNCHANGED serverVars
  BY <1>6 DEF serverVars
<1> QED BY <1>2, <1>3, <1>4, <1>5, <1>6 DEF ServerNext

(* Server implements LoginGuard: the processes around the handlers add no  *)
(* behaviour to limits and locks.                                          *)
THEOREM Refines == ServerSpec => Spec
<1>1. ServerInit => Init
  BY DEF ServerInit
<1> QED BY <1>1, StepRefines, PTL DEF ServerSpec, Spec

(* The limits hold across restarts of the server, and whatever statements  *)
(* of a killed one still take effect.                                      *)
THEOREM LimitSurvivesRestarts == ServerSpec => []LimitPerWindow
BY Refines, WithinLimit, PTL

(* So does the lock of an account.                                         *)
THEOREM LockSurvivesRestarts == ServerSpec => []LockComesInTime /\ LockHolds
BY Refines, LockInTime, LockStands, PTL

-----------------------------------------------------------------------------
(* Start and end of a server                                               *)

All == 1 .. Schemas

(* What a server that is wholly up to date, being brought up to date, or   *)
(* being left alone looks like; and where requests may be.                 *)
ServerInv ==
    /\ ServerTypeOK
    /\ recorded => applied = All
    /\ \A p \in Processes :
        /\ stage[p] = "migrate" => 1 .. done[p] \subseteq applied
        /\ stage[p] \in Running \cup {"unlock", "close"} => recorded
        /\ scenario.found.legacy => stage[p] \in {"down", "lock", "legacy"}
    /\ scenario.found.legacy => applied = {}
    /\ holder # none => stage[holder] \in Migrating
    /\ Active \subseteq orphans \/ stage[api] \in Running
    /\ orphans # {} => recorded

USE DEF Migrating, Running, Stages, ServerTypeOK

LEMMA ServerInvInit == ServerInit => ServerInv
<1> SUFFICES ASSUME ServerInit PROVE ServerInv
  OBVIOUS
<1>1. Active = {}
  BY DEF ServerInit, Init, Active
<1>2. scenario.found.applied \in 0 .. Schemas /\ applied = 1 .. scenario.found.applied
      /\ recorded = scenario.found.recorded
  BY DEF ServerInit
<1>3. applied \subseteq All /\ (recorded => applied = All) /\ (scenario.found.legacy => applied = {})
  BY <1>2 DEF ServerInit, All
<1> QED BY <1>1, <1>3 DEF ServerInit, ServerInv

(* A handler's step touches nobody else's place, and is that of a request  *)
(* under way.                                                              *)
LEMMA HandlerStaysActive ==
    ASSUME TypeOK, NEW r \in Requests, HandlerStep(r)
    PROVE  Active' \subseteq Active /\ r \in Active
<1>1. pc \in [Requests -> Places]
  BY DEF TypeOK
<1>2. pc[r] # "idle"
  BY DEF HandlerStep, CountRequest, LoginRead, LoginFails, LoginClears
<1>3. \E place \in Places : pc' = [pc EXCEPT ![r] = place]
  <2>1. CASE CountRequest(r)
    BY <2>1 DEF CountRequest, Handle, Goto, Answer, Places
  <2>2. CASE LoginRead(r)
    BY <2>2 DEF LoginRead, Goto, Answer, Places
  <2>3. CASE LoginFails(r) \/ LoginClears(r)
    BY <2>3 DEF LoginFails, LoginClears, Goto, Answer, Places
  <2> QED BY <2>1, <2>2, <2>3 DEF HandlerStep
<1> QED BY <1>1, <1>2, <1>3 DEF Active

LEMMA ServerInvStep == TypeOK /\ ServerInv /\ [ServerNext]_serverVars => ServerInv'
<1> SUFFICES ASSUME TypeOK, ServerInv, [ServerNext]_serverVars PROVE ServerInv'
  OBVIOUS
<1> USE DEF ServerInv, All, database, processes
<1>0. ASSUME NoRequest PROVE Active' = Active /\ orphans' = orphans /\ scenario' = scenario
  BY <1>0 DEF NoRequest, vars, Active
<1>cut. ASSUME NEW p \in Processes, stage[p] = "migrate", applied' \in Interrupted(p)
        PROVE  /\ applied \subseteq applied' /\ applied' \subseteq All
               /\ recorded => applied' = All
               /\ ~scenario.found.legacy
  <2>1. applied \subseteq All /\ (recorded => applied = All) /\ ~scenario.found.legacy
    BY <1>cut
  <2> HIDE DEF ServerInv, ServerTypeOK
  <2> QED BY <1>cut, <2>1 DEF Interrupted
<1>1. ASSUME NEW p \in Processes, Start(p) PROVE ServerInv'
  BY <1>0, <1>1 DEF Start, Enters
<1>2. ASSUME NEW p \in Processes, TakeLock(p) PROVE ServerInv'
  BY <1>0, <1>2 DEF TakeLock, Enters
<1>3. ASSUME NEW p \in Processes, InspectLegacy(p) PROVE ServerInv'
  BY <1>0, <1>3 DEF InspectLegacy, Enters
<1>4. ASSUME NEW p \in Processes, ApplySchema(p) PROVE ServerInv'
  <2> DEFINE n == done[p]
  <2>1. n \in Nat /\ n < Schemas /\ n + 1 \in 0 .. Schemas /\ n + 1 \in All
    BY <1>4 DEF ApplySchema
  <2>2. /\ stage[p] = "migrate" /\ applied' = applied \cup {n + 1}
        /\ done' = [done EXCEPT ![p] = n + 1] /\ UNCHANGED <<stage, holder, recorded, starts>>
    BY <1>4 DEF ApplySchema
  <2>3. 1 .. n + 1 \subseteq applied' /\ applied \subseteq applied' /\ applied' \subseteq All
    <3>1. 1 .. n \subseteq applied
      BY <2>2
    <3>2. 1 .. n + 1 = (1 .. n) \cup {n + 1}
      BY <2>1
    <3> HIDE DEF n, ServerInv
    <3>3. applied \subseteq All
      BY DEF ServerInv
    <3> QED BY <2>1, <2>2, <3>1, <3>2, <3>3
  <2>4. done' \in [Processes -> 0 .. Schemas]
    BY <2>1, <2>2
  <2>5. \A q \in Processes : stage[q] = "migrate" => 1 .. done'[q] \subseteq applied'
    BY <2>2, <2>3
  <2>6. ~scenario.found.legacy /\ (recorded => applied' = All)
    BY <2>2, <2>3
  <2>7. Active' = Active /\ orphans' = orphans /\ scenario' = scenario
    BY <1>0, <1>4 DEF ApplySchema
  <2> QED BY <2>2, <2>3, <2>4, <2>5, <2>6, <2>7
<1>5. ASSUME NEW p \in Processes, RecordVersion(p) PROVE ServerInv'
  BY <1>0, <1>5 DEF RecordVersion, AllApplied, Enters
<1>6. ASSUME NEW p \in Processes, ReleaseLock(p) PROVE ServerInv'
  BY <1>0, <1>6 DEF ReleaseLock, Enters
<1>7. ASSUME NEW p \in Processes, LoseConnection(p) PROVE ServerInv'
  <2>1. /\ holder' = none /\ UNCHANGED <<stage, done, recorded, starts>>
        /\ Active' = Active /\ orphans' = orphans /\ scenario' = scenario
    BY <1>0, <1>7 DEF LoseConnection
  <2>2. applied' = applied \/ (stage[p] = "migrate" /\ applied' \in Interrupted(p))
    BY <1>7 DEF LoseConnection
  <2> QED BY <2>1, <2>2, <1>cut
<1>8. ASSUME NEW p \in Processes, Die(p) PROVE ServerInv'
  <2>1. /\ stage' = [stage EXCEPT ![p] = "down"]
        /\ holder' = (IF holder = p THEN none ELSE holder)
        /\ orphans' = (IF p = api THEN Active ELSE orphans)
        /\ scenario.trouble /\ UNCHANGED <<scenario, done, recorded, starts>>
    BY <1>8 DEF Die, Gone
  <2>2. Active' = Active /\ Active \subseteq Requests
    BY <1>8 DEF Die, vars, Active
  <2>3. applied' = applied \/ (stage[p] = "migrate" /\ applied' \in Interrupted(p))
    BY <1>8 DEF Die
  <2>4. /\ applied \subseteq applied' /\ applied' \subseteq All
        /\ recorded => applied' = All
        /\ scenario.found.legacy => applied' = {}
    BY <2>3, <1>cut
  <2>5. Active \subseteq orphans' \/ stage'[api] \in Running
    BY <2>1
  <2>6. orphans' # {} => recorded
    BY <2>1
  <2> QED BY <2>1, <2>2, <2>4, <2>5, <2>6
<1>9. ASSUME NEW p \in Processes, StopWorker(p) PROVE ServerInv'
  BY <1>0, <1>9 DEF StopWorker, Gone
<1>10. CASE Stop
  BY <1>0, <1>10 DEF Stop, Enters
<1>11. CASE GiveUp \/ ListenerFails
  BY <1>0, <1>11 DEF GiveUp, TimeIsUp, ListenerFails, Enters
<1>12. CASE CloseDatabase
  BY <1>12 DEF CloseDatabase, Drained, Enters, vars, Active
<1>13. CASE Exit
  BY <1>0, <1>13 DEF Exit, Enters
<1>14. CASE Serve
  <2>1. UNCHANGED <<scenario, stage, done, holder, starts, applied, recorded, orphans>>
    BY <1>14 DEF Serve
  <2>2. Active' \subseteq Active \/ stage[api] \in Running
    <3>1. ASSUME NEW r \in Requests, HandlerStep(r) PROVE Active' \subseteq Active
      BY <3>1, HandlerStaysActive
    <3>2. CASE CleanupLimits \/ Clear \/ Tick
      BY <3>2 DEF CleanupLimits, Clear, Tick, Active
    <3> QED BY <1>14, <3>1, <3>2 DEF Serve
  <2> QED BY <2>1, <2>2
<1>15. ASSUME NEW r \in Requests, Settle(r) PROVE ServerInv'
  <2>1. UNCHANGED <<scenario, stage, done, holder, starts, applied, recorded>>
    BY <1>15 DEF Settle
  <2>2. Active' \subseteq Active
    BY <1>15, HandlerStaysActive DEF Settle
  <2>3. r \notin Active' /\ orphans' = orphans \ {r}
    BY <1>15 DEF Settle, Active
  <2> QED BY <2>1, <2>2, <2>3
<1>16. CASE UNCHANGED serverVars
  BY <1>16 DEF serverVars, vars, Active
<1> QED BY <1>1, <1>2, <1>3, <1>4, <1>5, <1>6, <1>7, <1>8, <1>9, <1>10, <1>11, <1>12, <1>13,
           <1>14, <1>15, <1>16 DEF ServerNext

LEMMA ServerInvariant == ServerSpec => []ServerInv
<1>1. ServerSpec => []TypeOK
  BY Refines, TypeCorrect, PTL
<1> QED BY <1>1, ServerInvInit, ServerInvStep, PTL DEF ServerSpec

(* Every reachable state of the processes and the database is well typed.  *)
THEOREM ServerTypeCorrect == ServerSpec => []ServerTypeOK
<1>1. ServerInv => ServerTypeOK
  BY DEF ServerInv
<1> QED BY <1>1, ServerInvariant, PTL

(* Whatever starts together, fails halfway or loses its connection: only a *)
(* complete schema is recorded, served and met by requests, a legacy       *)
(* database is left alone, and nobody leaves the lock behind.              *)
THEOREM SchemaStaysSafe == ServerSpec => []SchemaIsSafe
<1>1. ServerInv => SchemaIsSafe
  BY DEF ServerInv, SchemaIsSafe, All
<1> QED BY <1>1, ServerInvariant, PTL

=============================================================================
