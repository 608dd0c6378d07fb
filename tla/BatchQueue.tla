----------------------------- MODULE BatchQueue -----------------------------
(***************************************************************************)
(* What the analysis-batch queue promises, without leases, locks, files or *)
(* statements: a submitted batch is tried a bounded number of times, by one *)
(* runner at a time, and is settled once and for all, as completed with a  *)
(* result or as failed after the last try.  A runner may vanish at any     *)
(* moment; its batch then stays in processing until it is taken again.     *)
(***************************************************************************)
EXTENDS Integers

CONSTANTS Workers, Batches, MaxAttempts, None

VARIABLES phase,   \* state of each batch, as its owner sees it
          tries,   \* how often it was taken
          runner,  \* the worker that runs it now, or None
          result   \* the report kept for it

queueVars == <<phase, tries, runner, result>>

QueueInit ==
    /\ phase = [b \in Batches |-> "none"]
    /\ tries = [b \in Batches |-> 0]
    /\ runner = [b \in Batches |-> None]
    /\ result = [b \in Batches |-> "none"]

Submit(b) ==
    /\ phase[b] = "none"
    /\ phase' = [phase EXCEPT ![b] = "pending"]
    /\ UNCHANGED <<tries, runner, result>>

(* A batch nobody runs is taken for one more try.                          *)
Take(b) ==
    /\ phase[b] \in {"pending", "processing"}
    /\ runner[b] = None
    /\ tries[b] < MaxAttempts
    /\ phase' = [phase EXCEPT ![b] = "processing"]
    /\ tries' = [tries EXCEPT ![b] = @ + 1]
    /\ UNCHANGED <<runner, result>>

Start(b, w) ==
    /\ phase[b] = "processing"
    /\ runner[b] = None
    /\ runner' = [runner EXCEPT ![b] = w]
    /\ UNCHANGED <<phase, tries, result>>

Finish(b, r) ==
    /\ phase[b] = "processing"
    /\ runner[b] # None
    /\ phase' = [phase EXCEPT ![b] = "completed"]
    /\ result' = [result EXCEPT ![b] = r]
    /\ runner' = [runner EXCEPT ![b] = None]
    /\ tries' = tries

(* The try failed: back to the queue, or given up after the last one.      *)
GiveBack(b) ==
    /\ phase[b] = "processing"
    /\ phase' = [phase EXCEPT
            ![b] = IF tries[b] < MaxAttempts THEN "pending" ELSE "failed"]
    /\ runner' = [runner EXCEPT ![b] = None]
    /\ UNCHANGED <<tries, result>>

(* The runner vanishes and leaves the batch in processing.                 *)
Abandon(b) ==
    /\ runner[b] # None
    /\ runner' = [runner EXCEPT ![b] = None]
    /\ UNCHANGED <<phase, tries, result>>

QueueNext ==
    \E b \in Batches :
        \/ Submit(b) \/ Take(b) \/ GiveBack(b) \/ Abandon(b)
        \/ \E w \in Workers : Start(b, w)
        \/ \E r \in {"ai", "rules"} : Finish(b, r)

QueueSpec == QueueInit /\ [][QueueNext]_queueVars

=============================================================================
