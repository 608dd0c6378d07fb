--------------------------------- MODULE Server ---------------------------------
(***************************************************************************)
(* The processes around the handlers of LoginGuard: the API server, from   *)
(* its start to its end, and the workers, which bring the database up to   *)
(* date in the same way before they do anything else.                      *)
(*                                                                         *)
(* A process starts, takes the migration lock, applies the four embedded   *)
(* schemas, records the version and serves.  It may fail or be killed at   *)
(* any place and is started again.  The API stops in order: no more        *)
(* requests, those under way are waited for, then the pool is closed.      *)
(* What a process that is gone has sent to PostgreSQL may still take       *)
(* effect.                                                                 *)
(***************************************************************************)
EXTENDS LoginGuard

CONSTANTS
    api, Workers,      (* the processes                                        *)
    none,              (* nobody holds the lock                                *)
    Schemas,           (* how many embedded schemas there are, 4               *)
    Scenarios          (* behaviours to look at: see ServerAssumption          *)

Processes == {api} \cup Workers

(* requests and starts bound a behaviour; trouble says whether processes   *)
(* fail, are killed or lose their listener; found is the database before.  *)
ASSUME ServerAssumption ==
    /\ api \notin Workers /\ none \notin Processes /\ Schemas \in Nat \ {0}
    /\ \A s \in Scenarios :
        /\ s.demand \in Demands /\ s.requests \in 0 .. MaxMade
        /\ s.starts \in [Processes -> Nat] /\ s.trouble \in BOOLEAN
        /\ s.found.legacy \in BOOLEAN /\ s.found.recorded \in BOOLEAN
        /\ s.found.applied \in 0 .. Schemas
        /\ s.found.recorded => s.found.applied = Schemas
        /\ s.found.legacy => s.found.applied = 0

VARIABLES
    scenario,
    stage,       \* how far each process is
    done,        \* how many schemas it has applied since it began to
    holder,      \* the session that holds the migration lock
    applied,     \* schemas the database has
    recorded,    \* schema_migrations has the current version
    starts,      \* starts of each process (bound only)
    orphans      \* requests that have lost their process or its pool

database   == <<applied, recorded>>
processes  == <<stage, done, holder, starts>>
serverVars == <<vars, scenario, processes, database, orphans>>

Migrating == {"legacy", "migrate", "unlock"}
Running   == {"serve", "drain", "late"}
Stages    == {"down", "lock", "close"} \cup Migrating \cup Running

ServerTypeOK ==
    /\ scenario \in Scenarios /\ stage \in [Processes -> Stages]
    /\ done \in [Processes -> 0 .. Schemas]
    /\ holder \in Processes \cup {none} /\ applied \subseteq 1 .. Schemas
    /\ recorded \in BOOLEAN /\ starts \in [Processes -> Nat] /\ orphans \subseteq Requests

ServerInit ==
    /\ scenario \in Scenarios
    /\ Init /\ demand = scenario.demand
    /\ stage = [p \in Processes |-> "down"] /\ done = [p \in Processes |-> 0]
    /\ starts = [p \in Processes |-> 0]
    /\ holder = none /\ orphans = {}
    /\ applied = 1 .. scenario.found.applied /\ recorded = scenario.found.recorded

Active == {r \in Requests : pc[r] # "idle"}
StartsAgain(p) == starts[p] < scenario.starts[p]

-----------------------------------------------------------------------------
(* Start: RunProduction, worker.Run, migrateDatabase                       *)

Enters(p, s) == stage[p] = s[1] /\ stage' = [stage EXCEPT ![p] = s[2]]
NoRequest    == UNCHANGED <<vars, scenario, orphans>>

(* Connected; there are two connections at least, one for the lock.        *)
Start(p) ==
    /\ Enters(p, <<"down", "lock">>)
    /\ StartsAgain(p) /\ starts' = [starts EXCEPT ![p] = @ + 1]
    /\ UNCHANGED <<done, holder, database>> /\ NoRequest

TakeLock(p) ==
    /\ Enters(p, <<"lock", "legacy">>)
    /\ holder = none /\ holder' = p
    /\ UNCHANGED <<done, starts, database>> /\ NoRequest

(* prepareLegacySchema, on a connection of its own; a database whose ids   *)
(* are UUIDs is refused.                                                   *)
InspectLegacy(p) ==
    /\ Enters(p, <<"legacy", "migrate">>)
    /\ ~scenario.found.legacy /\ done' = [done EXCEPT ![p] = 0]
    /\ UNCHANGED <<holder, starts, database>> /\ NoRequest

LockConnection(p) == holder = p

(* One embedded schema, several statements that take effect together, on   *)
(* the connection whose session holds the lock: it fails when that is lost.*)
(* All of them can be applied again.                                       *)
ApplySchema(p) ==
    /\ stage[p] = "migrate" /\ done[p] < Schemas /\ LockConnection(p)
    /\ done' = [done EXCEPT ![p] = @ + 1]
    /\ applied' = applied \cup {done[p] + 1}
    /\ UNCHANGED <<stage, holder, starts, recorded>> /\ NoRequest

AllButTheLast(p) == done[p] + 1 >= Schemas   \* a mutant
AllApplied(p)    == done[p] = Schemas

RecordVersion(p) ==
    /\ Enters(p, <<"migrate", "unlock">>)
    /\ AllApplied(p) /\ LockConnection(p)
    /\ recorded' = TRUE
    /\ UNCHANGED <<done, holder, starts, applied>> /\ NoRequest

(* An unlock that fails is logged; the connection is lost then, and with   *)
(* it the lock.                                                            *)
ReleaseLock(p) ==
    /\ Enters(p, <<"unlock", "serve">>)
    /\ holder' = (IF holder = p THEN none ELSE holder)
    /\ UNCHANGED <<done, starts, database>> /\ NoRequest

(* The schema that is being applied when its connection ends takes effect  *)
(* or does not.                                                            *)
Interrupted(p) ==
    {applied} \cup {applied \cup {n} : n \in {done[p] + 1} \cap 1 .. Schemas}

(* The connection breaks under the migration, and the lock is free.        *)
LoseConnection(p) ==
    /\ scenario.trouble /\ stage[p] \in Migrating /\ holder = p /\ holder' = none
    /\ IF stage[p] = "migrate" THEN applied' \in Interrupted(p) ELSE UNCHANGED applied
    /\ UNCHANGED <<stage, done, starts, recorded>> /\ NoRequest

-----------------------------------------------------------------------------
(* End                                                                     *)

Gone(p) ==
    /\ stage' = [stage EXCEPT ![p] = "down"]
    /\ holder' = (IF holder = p THEN none ELSE holder)

(* Fatalf, a timeout of the start, SIGKILL, a crash.  What was being       *)
(* applied may be applied.                                                 *)
Die(p) ==
    /\ scenario.trouble /\ stage[p] # "down" /\ StartsAgain(p) /\ Gone(p)
    /\ orphans' = (IF p = api THEN Active ELSE orphans)
    /\ IF stage[p] = "migrate" /\ LockConnection(p) THEN applied' \in Interrupted(p)
                                                    ELSE UNCHANGED applied
    /\ UNCHANGED <<vars, scenario, done, starts, recorded>>

(* A worker that is told to stop returns between batches.                  *)
StopWorker(p) ==
    /\ p \in Workers /\ stage[p] = "serve" /\ StartsAgain(p) /\ Gone(p)
    /\ UNCHANGED <<done, starts, database>> /\ NoRequest

(* The API is told to stop: Shutdown closes the listener and waits.        *)
Stop ==
    /\ Enters(api, <<"serve", "drain">>) /\ StartsAgain(api)
    /\ UNCHANGED <<done, holder, starts, database>> /\ NoRequest

Drained == Active \ orphans = {}

WaitForAll == Drained /\ Enters(api, <<"drain", "late">>)   \* a mutant
TimeIsUp   == Enters(api, <<"drain", "late">>)

(* SERVER_SHUTDOWN_TIMEOUT has passed.                                     *)
GiveUp ==
    /\ TimeIsUp
    /\ UNCHANGED <<done, holder, starts, database>> /\ NoRequest

(* ListenAndServe returns an error; nobody is waited for.                  *)
ListenerFails ==
    /\ scenario.trouble /\ StartsAgain(api)
    /\ Enters(api, <<"serve", "late">>)
    /\ UNCHANGED <<done, holder, starts, database>> /\ NoRequest

(* closeDatabase: no statement can be begun any more.                      *)
CloseDatabase ==
    /\ \/ Enters(api, <<"drain", "close">>) /\ Drained
       \/ Enters(api, <<"late", "close">>)
    /\ orphans' = Active
    /\ UNCHANGED <<vars, scenario, done, holder, starts, database>>

(* Pool.Close has waited for the connections that were in use.             *)
Exit ==
    /\ Enters(api, <<"close", "down">>) /\ orphans = {}
    /\ UNCHANGED <<done, holder, starts, database>> /\ NoRequest

-----------------------------------------------------------------------------
(* The handlers                                                            *)

HandlerStep(r) == CountRequest(r) \/ LoginRead(r) \/ LoginFails(r) \/ LoginClears(r)

AtHome(r) == stage[api] \in Running /\ r \notin orphans

Serve ==
    /\ \/ \E r \in Requests, d \in demand :
            stage[api] = "serve" /\ made < scenario.requests /\ Arrive(r, d[1], d[2])
       \/ \E r \in Requests : AtHome(r) /\ HandlerStep(r)
       \/ stage[api] \in Running /\ (CleanupLimits \/ Clear)
       \/ scenario.requests > 0 /\ Tick
    /\ UNCHANGED <<scenario, processes, database, orphans>>

(* The last statement of a request without its process, whether it takes   *)
(* effect or not; nothing comes after it.                                  *)
Settle(r) ==
    /\ r \in orphans /\ orphans' = orphans \ {r}
    /\ HandlerStep(r) /\ pc'[r] = "idle" /\ served' = served
    /\ UNCHANGED <<scenario, processes, database>>

ServerNext ==
    \/ \E p \in Processes :
        \/ Start(p) \/ TakeLock(p) \/ InspectLegacy(p) \/ ApplySchema(p)
        \/ RecordVersion(p) \/ ReleaseLock(p) \/ LoseConnection(p)
        \/ Die(p) \/ StopWorker(p)
    \/ Stop \/ GiveUp \/ ListenerFails \/ CloseDatabase \/ Exit \/ Serve
    \/ \E r \in Requests : Settle(r)

ServerSpec == ServerInit /\ [][ServerNext]_serverVars

(* The timer of Shutdown fires, a stop goes on when it can, and PostgreSQL *)
(* answers a statement it was sent or its connection ends.  No request has *)
(* to come to an end by itself.                                            *)
FairServerSpec ==
    /\ ServerSpec
    /\ WF_serverVars(GiveUp) /\ WF_serverVars(CloseDatabase) /\ WF_serverVars(Exit)
    /\ \A r \in Requests : WF_serverVars(Settle(r))

-----------------------------------------------------------------------------
(* Properties                                                              *)

(* migrateDatabase, initDatabaseForRun: whatever processes start together, *)
(* fail halfway or lose their connection, the version is recorded only     *)
(* when every schema is there, no process serves and no request runs on    *)
(* less, a legacy database is left alone, and the lock is never left       *)
(* behind by a process that is not migrating.                              *)
SchemaIsSafe ==
    /\ recorded => applied = 1 .. Schemas
    /\ \A p \in Processes : stage[p] \in Running => recorded
    /\ Active # {} => applied = 1 .. Schemas
    /\ scenario.found.legacy => applied = {}
    /\ holder # none => stage[holder] \in Migrating

(* RunProduction: a server that is told to stop, or whose listener fails,  *)
(* is gone in the end, also when requests under way never answer: nobody   *)
(* waits for them for ever, neither Shutdown nor, with the pool closed     *)
(* under them, Pool.Close for what they still have in flight.              *)
StopEnds == stage[api] \in {"drain", "late", "close"} ~> stage[api] = "down"

=============================================================================
