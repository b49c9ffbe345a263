------------------------------- MODULE RqJobs -------------------------------
(***************************************************************************)
(* The queues of RQ behind the slower services, as core/queue.py uses them: *)
(* a queue is first in, first out, has one worker (compose.yaml), refuses   *)
(* work above its admission backlog and runs a failed or killed job again   *)
(* after a pause, until no attempt is left; then the job is a dead letter.  *)
(*                                                                         *)
(* Priorities and the timeouts of a job are left out; a job that takes too  *)
(* long is killed like any other.                                           *)
(***************************************************************************)
EXTENDS Naturals, Sequences, FiniteSets

CONSTANTS
    Worlds,     \* a sequence: what takes part
    Queues,
    Backlog     \* admission backlog of a queue

ASSUME RqAssumption ==
    /\ Backlog \in Nat
    /\ \A w \in DOMAIN Worlds : Worlds[w].attempts \in Nat \ {0} /\ Worlds[w].start \in Nat

VARIABLES
    world,      \* index of the world
    clock,      \* what the time is, in periods
    queue,      \* jobs that wait for the worker
    later,      \* failed jobs that wait for their next attempt
    worker,     \* what the worker of a queue does
    dead,       \* dead letters
    deaths      \* bounded: processes that died so far

rqVars == <<queue, later, worker, dead>>
systemVars == <<world, clock, deaths>>

Here == Worlds[world]
Kinds == {"evidence", "sync", "history", "export", "render"}
Job == [kind : Kinds, of : Nat, since : Nat, left : 0..Here.attempts]
Idle == [job |-> {}, at |-> "idle"]

RqTypeOK ==
    /\ world \in DOMAIN Worlds
    /\ clock \in Nat
    /\ deaths \in Nat
    /\ queue \in [Queues -> Seq(Job)]
    /\ later \in [Queues -> SUBSET Job]
    /\ dead \in [Queues -> SUBSET [kind : Kinds, of : Nat]]
    /\ \A q \in Queues : worker[q].job \subseteq Job /\ Cardinality(worker[q].job) \in 0..1

RqInit ==
    /\ world \in DOMAIN Worlds
    /\ clock = Here.start
    /\ queue = [q \in Queues |-> <<>>]
    /\ later = [q \in Queues |-> {}]
    /\ worker = [q \in Queues |-> Idle]
    /\ dead = [q \in Queues |-> {}]
    /\ deaths = 0

\* queue_has_capacity.
HasCapacity(q) == Len(queue[q]) < Backlog

NewJob(kind, of) == [kind |-> kind, of |-> of, since |-> clock, left |-> Here.attempts - 1]

\* _enqueue, when it does not refuse.
Enqueue(q, kind, of) ==
    /\ queue' = [queue EXCEPT ![q] = Append(@, NewJob(kind, of))]
    /\ UNCHANGED <<later, worker, dead>>

\* What the worker of q works at, and the job it has unless it is idle.
At(q) == worker[q].at
Current(q) == CHOOSE j \in worker[q].job : TRUE
WorkersIn(kinds, at) == {q \in Queues : At(q) = at /\ Current(q).kind \in kinds}

Take(q) ==
    /\ At(q) = "idle" /\ queue[q] # <<>>
    /\ worker' = [worker EXCEPT ![q] = [job |-> {Head(queue[q])}, at |-> "begin"]]
    /\ queue' = [queue EXCEPT ![q] = Tail(@)]
    /\ UNCHANGED <<later, dead, systemVars>>

\* The worker goes on with the same job: `to` has the same job in it.
Goes(q, to) ==
    /\ worker' = [worker EXCEPT ![q] = to]
    /\ UNCHANGED <<queue, later, dead>>

GoesTo(q, at) == Goes(q, [worker[q] EXCEPT !.at = at])

\* The function returns without more ado.
JobDone(q) ==
    /\ worker' = [worker EXCEPT ![q] = Idle]
    /\ UNCHANGED <<queue, later, dead>>

\* Variant: a job is tried for ever.
JobFailsAlways(q) ==
    /\ worker' = [worker EXCEPT ![q] = Idle]
    /\ later' = [later EXCEPT ![q] = @ \union {[Current(q) EXCEPT !.left = @ - 1]}]
    /\ UNCHANGED <<queue, dead>>

\* The function raises, or its process is killed: record_dead_letter when no attempt
\* is left.
JobFails(q) ==
    LET j == Current(q)
        again == [j EXCEPT !.left = @ - 1]
    IN
    /\ worker' = [worker EXCEPT ![q] = Idle]
    /\ later' = [later EXCEPT ![q] = IF j.left > 0 THEN @ \union {again} ELSE @]
    /\ dead' = [dead EXCEPT ![q] = IF j.left > 0 THEN @ ELSE @ \union {[kind |-> j.kind, of |-> j.of]}]
    /\ UNCHANGED queue

\* The pause before the next attempt is over.
NextAttempt(q, j) ==
    /\ j \in later[q]
    /\ later' = [later EXCEPT ![q] = @ \ {j}]
    /\ queue' = [queue EXCEPT ![q] = Append(@, j)]
    /\ UNCHANGED <<worker, dead, systemVars>>

\* The job is done and RQ is told so; killed before, it runs again.
Finish(q) ==
    /\ At(q) = "done"
    /\ JobDone(q)
    /\ UNCHANGED systemVars

\* A process may die: a worker, or the one that answers a request.
MayDie ==
    /\ deaths < Here.deaths
    /\ deaths' = deaths + 1
    /\ UNCHANGED <<world, clock>>

WorkerDies(q) ==
    /\ MayDie
    /\ At(q) # "idle"
    /\ JobFails(q)

Tick ==
    /\ clock < Here.end
    /\ clock' = clock + 1
    /\ UNCHANGED <<world, deaths, rqVars>>

RqNext ==
    \/ Tick
    \/ \E q \in Queues :
          Take(q) \/ Finish(q) \/ WorkerDies(q) \/ \E j \in later[q] : NextAttempt(q, j)
=============================================================================
