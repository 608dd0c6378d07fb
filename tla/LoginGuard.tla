------------------------------- MODULE LoginGuard -------------------------------
(***************************************************************************)
(* What stands before a handler: the request limits (authRateLimit by      *)
(* address, endpointRateLimit by user), kept as rows of auth_rate_limits   *)
(* that count the requests of one caller in one window of time; and, in    *)
(* AuthLoginEmail, the lock of an account after too many wrong passwords.  *)
(*                                                                         *)
(* A limit is one statement; the lock is a row that is read first and      *)
(* written later, so attempts overlap.  The limiter reads the clock before *)
(* its statement runs, a cleanup removes old rows, statements may fail,    *)
(* also after they took effect.                                            *)
(***************************************************************************)
EXTENDS Integers, FiniteSets

CONSTANTS
    Requests,          (* handlers that may run at once                        *)
    Callers,           (* [ip |-> ..., user |-> ...], whoever makes a request  *)
    nobody,            (* the user of a caller who is not signed in            *)
    Demands,           (* what is asked for: sets of pairs of caller and action*)
    AuthActions,       (* routes behind authRateLimit, "login" among them      *)
    EndpointActions,   (* routes behind endpointRateLimit                      *)
    Limit, Window,     (* of each action; a limit of 0 is none                 *)
    MaxLoginAttempts,  (* 5                                                    *)
    LockDuration,      (* 15 minutes                                           *)
    Retention,         (* two days, after which the cleanup removes a row      *)
    Patience,          (* the longest time a request waits for its statement   *)
    MaxTime, MaxClears, MaxMade
                       (* bounds of the clock, of clears by others, of requests *)

Actions    == AuthActions \cup EndpointActions
Identities == {c.ip : c \in Callers} \cup ({c.user : c \in Callers} \ {nobody})
Times      == 0 .. MaxTime

ASSUME GuardAssumption ==
    /\ \A c \in Callers : c = [ip |-> c.ip, user |-> c.user]
    /\ \A c, d \in Callers : c.ip # d.user /\ c.ip # nobody
    /\ "login" \in AuthActions /\ Demands \subseteq SUBSET (Callers \X Actions)
    /\ Limit \in [Actions -> Nat] /\ Window \in [Actions -> Nat \ {0}]
    /\ MaxLoginAttempts \in Nat \ {0} /\ LockDuration \in Nat \ {0}
    /\ Retention \in Nat /\ Patience \in Nat /\ MaxTime \in Nat /\ MaxClears \in Nat /\ MaxMade \in Nat
    /\ \A a \in Actions : Window[a] + Patience <= Retention

VARIABLES
    clock,
    demand,       \* who asks for what in this behaviour
    rows,         \* auth_rate_limits: request_count and updated_at by key
    pc,           \* where each handler is; "idle" when it has answered
    local,        \* whose request it counts as, what for, and what it has read
    failed,       \* users.failed_login_attempts
    lockedUntil,  \* users.locked_until, 0 for NULL
    made, cleared,   \* requests, and clears of the lock by others (bounds only)
    served,          \* requests of an identity and window that got through to the
                     \* handler (property only)
    alone            \* wrong passwords that were counted and overlapped with no
                     \* other attempt, since the counter last began (property only)

account == <<failed, lockedUntil, alone>>
limits  == <<rows, served>>
bounds  == <<made, cleared>>
vars    == <<clock, demand, limits, pc, local, account, bounds>>

Keys   == [action : Actions, identity : Identities, start : Times]
Places == {"idle", "limit", "login", "wrong", "right"}
Blank  == [identity |-> nobody, action |-> "login", came |-> 0, failed |-> 0,
           overlapped |-> FALSE]
Asked(i, a) == [identity |-> i, action |-> a, came |-> clock, failed |-> 0,
                overlapped |-> FALSE]
Known  == [identity : Identities \cup {nobody}, action : Actions, came : Times,
           failed : 0 .. MaxLoginAttempts - 1, overlapped : BOOLEAN]

TypeOK ==
    /\ clock \in Times /\ demand \in Demands
    /\ rows \in [Keys -> [count : Nat, updated : Times]] /\ served \in [Keys -> Nat]
    /\ pc \in [Requests -> Places] /\ local \in [Requests -> Known]
    /\ failed \in 0 .. MaxLoginAttempts - 1
    /\ lockedUntil \in Nat /\ alone \in Nat /\ made \in Nat /\ cleared \in Nat
    /\ \A r \in Requests : (pc[r] = "limit") => local[r].identity \in Identities

NoRow == [count |-> 0, updated |-> 0]

Init ==
    /\ demand \in Demands
    /\ clock = 0 /\ rows = [k \in Keys |-> NoRow] /\ served = [k \in Keys |-> 0]
    /\ pc = [r \in Requests |-> "idle"] /\ local = [r \in Requests |-> Blank]
    /\ failed = 0 /\ lockedUntil = 0 /\ alone = 0 /\ made = 0 /\ cleared = 0

Goto(r, place, info) == pc' = [pc EXCEPT ![r] = place] /\ local' = [local EXCEPT ![r] = info]
Answer(r)            == Goto(r, "idle", Blank)

-----------------------------------------------------------------------------
(* The request limits                                                      *)

(* Whom a request counts for.  A user who is signed in is not recognised   *)
(* when the query of currentRequestUser fails; the address is left then.   *)
Identity(a, c) ==
    {c.ip} \cup (IF a \in EndpointActions /\ c.user # nobody THEN {c.user} ELSE {})
WindowStart(a, t) == t - (t % Window[a])
Key(r) == [action |-> local[r].action, identity |-> local[r].identity,
           start |-> WindowStart(local[r].action, local[r].came)]

(* The handlers behind endpointRateLimit are not of interest here.         *)
Handle(r, a) == IF a = "login" THEN Goto(r, "login", Blank) ELSE Answer(r)

(* The caller is told apart and the clock read; or there is no limit.      *)
Arrive(r, c, a) ==
    /\ pc[r] = "idle" /\ made < MaxMade /\ made' = made + 1
    /\ IF Limit[a] < 1 THEN Handle(r, a)
         ELSE \E i \in Identity(a, c) : Goto(r, "limit", Asked(i, a))
    /\ UNCHANGED <<clock, demand, limits, account, cleared>>

CountedOnce(k) == [count |-> 1, updated |-> clock]   \* a mutant
Counted(k) == [count |-> rows[k].count + 1, updated |-> clock]

(* INSERT ... ON CONFLICT DO UPDATE ... RETURNING request_count: the row   *)
(* counts every request, the refused ones too.  Without an answer the      *)
(* request is not served, whether it was counted or not.                   *)
CountRequest(r) ==
    LET k      == Key(r)
        Within == rows[k].count + 1 <= Limit[local[r].action]
    IN  /\ pc[r] = "limit"
        /\ \/ /\ Within
              /\ Handle(r, local[r].action) /\ served' = [served EXCEPT ![k] = @ + 1]
              /\ rows' = [rows EXCEPT ![k] = Counted(k)]
           \/ /\ Answer(r) /\ UNCHANGED served
              /\ rows' \in {rows, [rows EXCEPT ![k] = Counted(k)]}
        /\ UNCHANGED <<clock, demand, account, bounds>>

Outdated(k) == rows[k].updated + Retention < clock

(* The last statement of cleanupAuthRecords.                               *)
CleanupLimits ==
    /\ \E k \in Keys : rows[k] # NoRow /\ Outdated(k)
    /\ rows' = [k \in Keys |-> IF Outdated(k) THEN NoRow ELSE rows[k]]
    /\ UNCHANGED <<clock, demand, served, pc, local, account, bounds>>

-----------------------------------------------------------------------------
(* The lock of an account                                                  *)

Comparing == {r \in Requests : pc[r] \in {"wrong", "right"}}
Locked    == lockedUntil > clock

Noted(r, n, o) == [identity |-> local[r].identity, action |-> local[r].action, came |-> local[r].came,
                   failed |-> n, overlapped |-> o]

CompareAnyway == TRUE   \* a mutant
MayCompare    == ~Locked

(* The row is read, and the password compared unless the account is        *)
(* locked.  There may be no such account, or no answer.  Attempts that are *)
(* under way together are marked (for the properties only).                *)
LoginRead(r) ==
    /\ pc[r] = "login"
    /\ \/ Answer(r)
       \/ /\ MayCompare
          /\ \E place \in {"wrong", "right"} : pc' = [pc EXCEPT ![r] = place]
          /\ local' = [q \in Requests |->
                IF q = r THEN Noted(r, failed, Comparing # {})
                ELSE Noted(q, local[q].failed, local[q].overlapped \/ q \in Comparing)]
    /\ UNCHANGED <<clock, demand, limits, account, bounds>>

OneMore(n) == n > MaxLoginAttempts   \* a mutant
TooMany(n) == n >= MaxLoginAttempts

(* The counter is written from what was read; an error is dropped.         *)
LoginFails(r) ==
    /\ pc[r] = "wrong" /\ Answer(r)
    /\ LET n == local[r].failed + 1
       IN  \/ /\ TooMany(n)
              /\ failed' = 0 /\ lockedUntil' = clock + LockDuration /\ alone' = 0
           \/ /\ ~TooMany(n)
              /\ failed' = n /\ alone' = (IF local[r].overlapped THEN alone ELSE alone + 1)
              /\ UNCHANGED lockedUntil
           \/ UNCHANGED account
    /\ UNCHANGED <<clock, demand, limits, bounds>>

Unlock == failed' = 0 /\ lockedUntil' = 0 /\ alone' = 0

(* The right password of a verified account; an error is dropped.          *)
LoginClears(r) ==
    /\ pc[r] = "right" /\ Answer(r)
    /\ Unlock \/ UNCHANGED account
    /\ UNCHANGED <<clock, demand, limits, bounds>>

(* AdminRestoreUser, or the reset of the password, if it changes anything. *)
Clear ==
    /\ failed # 0 \/ lockedUntil # 0
    /\ cleared < MaxClears /\ cleared' = cleared + 1
    /\ Unlock
    /\ UNCHANGED <<clock, demand, limits, pc, local, made>>

-----------------------------------------------------------------------------
(* No request waits longer than Patience for the limiter's statement.      *)
Tick ==
    /\ clock < MaxTime /\ clock' = clock + 1
    /\ \A r \in Requests : pc[r] = "limit" => clock < local[r].came + Patience
    /\ UNCHANGED <<demand, limits, pc, local, account, bounds>>

Next ==
    \/ \E r \in Requests :
        \/ \E d \in demand : Arrive(r, d[1], d[2])
        \/ CountRequest(r) \/ LoginRead(r) \/ LoginFails(r) \/ LoginClears(r)
    \/ CleanupLimits \/ Clear \/ Tick

Spec == Init /\ [][Next]_vars

-----------------------------------------------------------------------------
(* Properties                                                              *)

(* authRateLimit, endpointRateLimit: however requests of one caller        *)
(* overlap, fail, or meet the cleanup, those that came in one window and   *)
(* got through to the handler are no more than the limit; a user who is    *)
(* signed in counts as one caller wherever the requests come from, but for *)
(* requests whose user the database did not tell: they count for their     *)
(* address.                                                                *)
LimitPerWindow == \A k \in Keys : served[k] <= Limit[k.action]

(* AuthLoginEmail: wrong passwords that are tried one after the other lock *)
(* the account in time: of those that overlapped with no other attempt,    *)
(* and whose count was written, there are never MaxLoginAttempts without a *)
(* lock, a right password or a clear among them, whatever attempts that do *)
(* overlap write over the counter meanwhile.                               *)
LockComesInTime == alone < MaxLoginAttempts

(* AuthLoginEmail: while an account is locked nobody gets it unlocked by a *)
(* password, not even the right one, unless the password was being         *)
(* compared when the lock was set; the lock never moves forward in time    *)
(* but by such an attempt.                                                 *)
LockHolds ==
    [][(Locked /\ lockedUntil' # lockedUntil) =>
          \/ cleared' # cleared
          \/ \E r \in Requests : r \in Comparing /\ pc'[r] # pc[r] /\ local[r].overlapped]_vars

=============================================================================
