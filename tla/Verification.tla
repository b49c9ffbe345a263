---------------------------- MODULE Verification ----------------------------
(***************************************************************************)
(* The targeted verification of an implemented recommendation task: the    *)
(* request, its queue, the worker that executes it, and what the outcome   *)
(* does to the task while users go on changing it.                         *)
(*                                                                         *)
(* Grain.  A step is one transaction or one call of the queue.  The ORM    *)
(* keeps what it loaded (expire_on_commit is off) and writes an attribute  *)
(* only when the new value differs from the loaded one (Overwrite).        *)
(*                                                                         *)
(* Abstractions.  Verifications are numbered by created_at; their rules    *)
(* and snapshots are left out.  Every task has a supported type and a      *)
(* complete URL scope, and exists.  The render and verification queues are *)
(* one queue.  The status of the crawl job is left out (the drain and the  *)
(* pause of a verification job are not modelled); its attempt_count is     *)
(* kept up to MaxAttempts.  RQ notices a dead worker at once.  At most one *)
(* dead letter is requeued at a time, and its call of the queue and the    *)
(* commit of its record are one step.                                      *)
(***************************************************************************)
EXTENDS Naturals, FiniteSets

CONSTANTS
    Tasks,
    Targets,        \* the statuses users give a task in this instance
    Rendered,       \* the tasks of type repair_accessibility_component
    MaxVerification,\* bound: verifications ever requested
    Workers,        \* workers that serve the queue
    Tickets,        \* bound: RQ jobs alive at the same time
    Requests,       \* bound: API calls in flight together
    NoTicket,
    Admission,      \* admission_backlog of the queue
    MaxRetries,     \* len(retry_intervals) of the queue
    MaxAttempts,    \* the attempts execute_verification makes
    MaxFaults       \* bound: processes that die

Verifications == 1 .. MaxVerification

NoVerification == 0

ASSUME ConstantsAssumption ==
    /\ MaxVerification \in Nat /\ Rendered \subseteq Tasks /\ Tasks # {}
    /\ Targets \subseteq {"open", "planned", "in_progress", "waiting_for_input",
                        "implemented", "closed"}
    /\ IsFiniteSet(Tickets) /\ NoTicket \notin Tickets
    /\ Admission \in Nat /\ MaxRetries \in Nat /\ MaxFaults \in Nat
    /\ MaxAttempts \in Nat \ {0}

VARIABLES
    status,     \* recommendation_tasks.status
    shown,      \* recommendation_tasks.verification_status
    verif,      \* recommendation_verifications: task, status; attempt_count of the job
    ticket,     \* RQ jobs: state, verification, retries left
    worker,     \* workers: program counter, ticket, what they loaded
    request,    \* calls in flight: program counter, task, verification, what they loaded
    dead,       \* verifications with an unresolved queue_dead_letters record
    lost,       \* history: verifications whose request died before the queue was called
    faults      \* processes that died so far

rows == <<status, shown, verif>>
past == <<lost, faults>>
vars == <<rows, ticket, worker, request, dead, past>>

-----------------------------------------------------------------------------
TaskStatus == {"open", "planned", "in_progress", "waiting_for_input",
               "implemented", "closed"}

AllowedTransitions ==
    [open |-> {"planned", "in_progress", "closed"},
     planned |-> {"in_progress", "waiting_for_input", "closed"},
     in_progress |-> {"waiting_for_input", "implemented", "closed"},
     waiting_for_input |-> {"planned", "in_progress", "closed"},
     implemented |-> {"in_progress", "closed"},
     closed |-> {"open"}]

Active == {"queued", "running"}

\* What _outcome can lead to; likely_passed has no rule that produces it.
Outcomes == {"passed", "failed", "manual_review"}

Decided == Outcomes \cup {"error"}

VerificationStatus == {"absent"} \cup Active \cup Decided

Shown == {"not_requested"} \cup Active \cup Decided

Verif == [task : Tasks, status : VerificationStatus, attempts : 0 .. MaxAttempts]

Ticket == [state : {"free", "queued", "scheduled", "started"},
           verif : Verifications \cup {NoVerification}, left : 0 .. MaxRetries]

FreeTicket == [state |-> "free", verif |-> NoVerification, left |-> 0]

Loaded == [status : TaskStatus, shown : Shown]

Worker == [pc : {"idle", "loaded", "checking"}, ticket : Tickets \cup {NoTicket},
           verif : VerificationStatus, attempts : 0 .. MaxAttempts, seen : Loaded]

Nothing == [status |-> "open", shown |-> "not_requested"]

IdleWorker == [pc |-> "idle", ticket |-> NoTicket, verif |-> "absent", attempts |-> 0,
               seen |-> Nothing]

Request == [pc : {"idle", "update", "implemented", "insert", "enqueue", "requeue", "refused"},
            task : Tasks, verif : Verifications \cup {NoVerification}, shown : Shown,
            new : TaskStatus]

AnyTask == CHOOSE t \in Tasks : TRUE

IdleRequest == [pc |-> "idle", task |-> AnyTask, verif |-> NoVerification,
                shown |-> "not_requested", new |-> "open"]

Init ==
    /\ status = [t \in Tasks |-> "in_progress"]
    /\ shown = [t \in Tasks |-> "not_requested"]
    /\ verif = [v \in Verifications |->
                  [task |-> AnyTask, status |-> "absent", attempts |-> 0]]
    /\ ticket = [k \in Tickets |-> FreeTicket]
    /\ worker = [w \in Workers |-> IdleWorker]
    /\ request = [r \in Requests |-> IdleRequest]
    /\ dead = {} /\ lost = {} /\ faults = 0

-----------------------------------------------------------------------------
(* Helpers *)

Overwrite(row, old, new) == IF old = new THEN row ELSE new

VerificationsOf(t) == {v \in Verifications : verif[v].status # "absent" /\ verif[v].task = t}

ActiveOf(t) == {v \in VerificationsOf(t) : verif[v].status \in Active}

\* uq_recommendation_verifications_active_task, asked by the commit.
IndexAllows(v, t) == ActiveOf(t) \subseteq {v}

HasCapacity == Cardinality({k \in Tickets : ticket[k].state = "queued"}) < Admission

Enqueue(v) ==
    \E k \in Tickets :
        /\ ticket[k].state = "free"
        /\ ticket' = [ticket EXCEPT ![k] =
                        [state |-> "queued", verif |-> v, left |-> MaxRetries]]

TicketDone(k) == ticket' = [ticket EXCEPT ![k] = FreeTicket]

\* Variant: one retry too many.
TicketFailedOnceMore(k) ==
    IF ticket[k].left >= 0
    THEN /\ ticket' = [ticket EXCEPT ![k].state = "scheduled", ![k].left = @ - 1]
         /\ UNCHANGED dead
    ELSE /\ TicketDone(k)
         /\ dead' = dead \cup {ticket[k].verif}

\* RQ schedules another attempt, or record_dead_letter stores the final failure.
TicketFailed(k) ==
    IF ticket[k].left > 0
    THEN /\ ticket' = [ticket EXCEPT ![k].state = "scheduled", ![k].left = @ - 1]
         /\ UNCHANGED dead
    ELSE /\ TicketDone(k)
         /\ dead' = dead \cup {ticket[k].verif}

Call(r, pc, t, v) ==
    request' = [request EXCEPT ![r] = [IdleRequest EXCEPT !.pc = pc, !.task = t, !.verif = v]]

Return(r) == request' = [request EXCEPT ![r] = IdleRequest]

IsIdle(r) == request[r].pc = "idle"

WorkerIdle(w) == worker' = [worker EXCEPT ![w] = IdleWorker]

Set(v, new) == verif' = [verif EXCEPT ![v].status = new]

Show(t, new) == shown' = [shown EXCEPT ![t] = new]

-----------------------------------------------------------------------------
(***************************************************************************)
(* Users: update_task, request_verification, requeue_dead_letter.          *)
(***************************************************************************)
UpdateRead(r, t, new) ==
    /\ IsIdle(r)
    /\ new \in AllowedTransitions[status[t]] \cap Targets
    /\ request' = [request EXCEPT ![r] =
                     [IdleRequest EXCEPT !.pc = "update", !.task = t, !.new = new]]
    /\ UNCHANGED <<rows, ticket, worker, dead, past>>

\* The transition was checked against the status that was loaded.
UpdateWrite(r) ==
    LET call == request[r] IN
    /\ call.pc = "update"
    /\ status' = [status EXCEPT ![call.task] = call.new]
    /\ IF call.new = "implemented"
       THEN Call(r, "implemented", call.task, NoVerification)
       ELSE Return(r)
    /\ UNCHANGED <<shown, verif, ticket, worker, dead, past>>

CanRequest(t) == status[t] = "implemented" /\ ActiveOf(t) = {} /\ HasCapacity

\* patch_recommendation_task goes on with the refreshed task; the other route
\* loads it.
RequestCheck(r, t) ==
    /\ \/ IsIdle(r)
       \/ request[r].pc = "implemented" /\ request[r].task = t
    /\ CanRequest(t)
    /\ request' = [request EXCEPT ![r] =
                     [IdleRequest EXCEPT !.pc = "insert", !.task = t, !.shown = shown[t]]]
    /\ UNCHANGED <<rows, ticket, worker, dead, past>>

\* The status stays implemented; the caller reads why there is no verification.
RequestRefused(r) ==
    /\ request[r].pc = "implemented"
    /\ ~CanRequest(request[r].task)
    /\ Return(r)
    /\ UNCHANGED <<rows, ticket, worker, dead, past>>

Insert(r) ==
    LET call == request[r] IN
    /\ call.pc = "insert"
    /\ \E v \in Verifications :
        /\ \A u \in Verifications : u < v <=> verif[u].status # "absent"
        /\ IF IndexAllows(v, call.task)
           THEN /\ verif' = [verif EXCEPT ![v] =
                               [task |-> call.task, status |-> "queued", attempts |-> 0]]
                /\ Show(call.task, Overwrite(shown[call.task], call.shown, "queued"))
                /\ Call(r, "enqueue", call.task, v)
           ELSE Return(r) /\ UNCHANGED <<shown, verif>>
    /\ UNCHANGED <<status, ticket, worker, dead, past>>

\* Variant: a refusal is not noticed.
EnqueueCallUnread(r) ==
    /\ request[r].pc = "enqueue"
    /\ IF HasCapacity THEN Enqueue(request[r].verif) ELSE UNCHANGED ticket
    /\ Return(r)
    /\ UNCHANGED <<rows, worker, dead, past>>

EnqueueCall(r) ==
    /\ request[r].pc = "enqueue"
    /\ IF HasCapacity
       THEN Enqueue(request[r].verif) /\ Return(r)
       ELSE request' = [request EXCEPT ![r].pc = "refused"] /\ UNCHANGED ticket
    /\ UNCHANGED <<rows, worker, dead, past>>

\* The handler keeps what it committed, and writes over both rows.
RefuseWrite(r) ==
    /\ request[r].pc = "refused"
    /\ Set(request[r].verif, "error")
    /\ Show(request[r].task, "error")
    /\ Return(r)
    /\ UNCHANGED <<status, ticket, worker, dead, past>>

\* Variant: the status of the record is not asked.
RequeueAnything(r, v) ==
    /\ IsIdle(r)
    /\ verif[v].status # "absent" /\ HasCapacity
    /\ \A q \in Requests : request[q].verif # v
    /\ IndexAllows(v, verif[v].task)
    /\ Set(v, "queued")
    /\ Show(verif[v].task, "queued")
    /\ Call(r, "requeue", verif[v].task, v)
    /\ UNCHANGED <<status, ticket, worker, dead, past>>

\* requeue_dead_letter: whatever became of the verification, it is queued again,
\* unless the index refuses the commit.
Requeue(r, v) ==
    /\ IsIdle(r)
    /\ v \in dead /\ HasCapacity
    /\ \A q \in Requests : request[q].verif # v
    /\ IndexAllows(v, verif[v].task)
    /\ Set(v, "queued")
    /\ Show(verif[v].task, "queued")
    /\ Call(r, "requeue", verif[v].task, v)
    /\ UNCHANGED <<status, ticket, worker, dead, past>>

RequeueCall(r) ==
    LET v == request[r].verif IN
    /\ request[r].pc = "requeue"
    /\ IF HasCapacity
       THEN Enqueue(v) /\ dead' = dead \ {v} /\ Return(r)
       ELSE request' = [request EXCEPT ![r].pc = "refused"] /\ UNCHANGED <<ticket, dead>>
    /\ UNCHANGED <<rows, worker, past>>

\* The process that serves the call dies.
Lose(r) ==
    /\ ~IsIdle(r) /\ faults < MaxFaults
    /\ lost' = lost \cup ({request[r].verif} \ {NoVerification})
    /\ faults' = faults + 1
    /\ Return(r)
    /\ UNCHANGED <<rows, ticket, worker, dead>>

-----------------------------------------------------------------------------
(***************************************************************************)
(* The worker: execute_verification.                                       *)
(***************************************************************************)

LoadInto(w, k) ==
    LET v == ticket[k].verif
        t == verif[v].task
    IN  /\ ticket' = [ticket EXCEPT ![k].state = "started"]
        /\ worker' = [worker EXCEPT ![w] =
             [pc |-> "loaded", ticket |-> k, verif |-> verif[v].status,
              attempts |-> verif[v].attempts,
              seen |-> [status |-> status[t], shown |-> shown[t]]]]

\* Variant: a verification that is decided is executed again.
TakeUnguarded(w, k) ==
    /\ worker[w].pc = "idle" /\ ticket[k].state = "queued"
    /\ LoadInto(w, k)
    /\ UNCHANGED <<rows, request, dead, past>>

Take(w, k) ==
    /\ worker[w].pc = "idle" /\ ticket[k].state = "queued"
    /\ IF verif[ticket[k].verif].status \in Active
       THEN LoadInto(w, k)
       ELSE TicketDone(k) /\ UNCHANGED worker
    /\ UNCHANGED <<rows, request, dead, past>>

Least(a, b) == IF a <= b THEN a ELSE b

Start(w) ==
    LET v == ticket[worker[w].ticket].verif
        t == verif[v].task
    IN
    /\ worker[w].pc = "loaded"
    /\ verif' = [verif EXCEPT
         ![v].status = Overwrite(@, worker[w].verif, "running"),
         ![v].attempts = Least(worker[w].attempts + 1, MaxAttempts)]
    /\ Show(t, Overwrite(shown[t], worker[w].seen.shown, "running"))
    /\ worker' = [worker EXCEPT ![w].pc = "checking"]
    /\ UNCHANGED <<status, ticket, request, dead, past>>

Applied(outcome) ==
    CASE outcome = "passed" -> "closed"
      [] outcome = "failed" -> "in_progress"
      [] outcome = "manual_review" -> "waiting_for_input"

\* _finish.  The task is the one loaded before the first page was fetched; the
\* render path expires it, so that it is read again.
Finish(w, outcome) ==
    LET k == worker[w].ticket
        v == ticket[k].verif
        t == verif[v].task
        old == IF t \in Rendered THEN status[t] ELSE worker[w].seen.status
    IN
    /\ worker[w].pc = "checking"
    /\ Set(v, outcome)
    /\ Show(t, outcome)
    /\ status' = [status EXCEPT ![t] = Overwrite(@, old, Applied(outcome))]
    /\ TicketDone(k)
    /\ WorkerIdle(w)
    /\ UNCHANGED <<request, dead, past>>

\* Variant: the last failure does not reach the task.
FailUnshown(w) ==
    LET k == worker[w].ticket
        v == ticket[k].verif
        again == verif[v].attempts < MaxAttempts
    IN
    /\ worker[w].pc = "checking"
    /\ Set(v, IF again THEN "queued" ELSE "error")
    /\ Show(verif[v].task, IF again THEN "queued" ELSE shown[verif[v].task])
    /\ TicketFailed(k)
    /\ WorkerIdle(w)
    /\ UNCHANGED <<status, request, past>>

\* The exception handler reads the rows again, writes both and raises.
Fail(w) ==
    LET k == worker[w].ticket
        v == ticket[k].verif
        new == IF verif[v].attempts < MaxAttempts THEN "queued" ELSE "error"
    IN
    /\ worker[w].pc = "checking"
    /\ Set(v, new)
    /\ Show(verif[v].task, new)
    /\ TicketFailed(k)
    /\ WorkerIdle(w)
    /\ UNCHANGED <<status, request, past>>

\* The process dies; nothing is written.
Kill(w) ==
    /\ worker[w].pc # "idle" /\ faults < MaxFaults
    /\ faults' = faults + 1
    /\ TicketFailed(worker[w].ticket)
    /\ WorkerIdle(w)
    /\ UNCHANGED <<rows, request, lost>>

Promote(k) ==
    /\ ticket[k].state = "scheduled"
    /\ ticket' = [ticket EXCEPT ![k].state = "queued"]
    /\ UNCHANGED <<rows, worker, request, dead, past>>

-----------------------------------------------------------------------------
WorkerStep(w) ==
    \/ \E k \in Tickets : Take(w, k)
    \/ Start(w)
    \/ \E outcome \in Outcomes : Finish(w, outcome)
    \/ Fail(w)

CallStep(r) ==
    \/ UpdateWrite(r)
    \/ \E t \in Tasks : request[r].pc = "implemented" /\ RequestCheck(r, t)
    \/ RequestRefused(r) \/ Insert(r)
    \/ EnqueueCall(r) \/ RefuseWrite(r) \/ RequeueCall(r)

UserStep(r) ==
    \/ \E t \in Tasks : RequestCheck(r, t)
    \/ \E t \in Tasks, new \in TaskStatus : UpdateRead(r, t, new)
    \/ \E v \in Verifications : Requeue(r, v)

Next ==
    \/ \E w \in Workers : WorkerStep(w) \/ Kill(w)
    \/ \E r \in Requests : CallStep(r) \/ UserStep(r) \/ Lose(r)
    \/ \E k \in Tickets : Promote(k)

Spec == Init /\ [][Next]_vars

\* Workers go on, RQ promotes retries, a call that was made is carried through.
\* Users are not assumed to do anything.
Fairness ==
    /\ \A w \in Workers : WF_vars(WorkerStep(w))
    /\ \A r \in Requests : WF_vars(CallStep(r))
    /\ \A k \in Tickets : WF_vars(Promote(k))

FairSpec == Spec /\ Fairness

-----------------------------------------------------------------------------
(* Properties *)

\* Every variable has its type.
TypeOK ==
    /\ status \in [Tasks -> TaskStatus]
    /\ shown \in [Tasks -> Shown]
    /\ verif \in [Verifications -> Verif]
    /\ ticket \in [Tickets -> Ticket]
    /\ worker \in [Workers -> Worker]
    /\ request \in [Requests -> Request]
    /\ dead \subseteq Verifications /\ lost \subseteq Verifications
    /\ faults \in 0 .. MaxFaults

\* A task has at most one active verification, however requests, retries and
\* requeued dead letters overlap.
OneActiveVerification == \A t \in Tasks : Cardinality(ActiveOf(t)) <= 1

\* The task shows the verification that is going on, and shows queued or
\* running for no other reason: a refusal, the last failed attempt and a lost
\* worker leave no check behind that seems to go on.
TaskShowsActive ==
    \A t \in Tasks :
        /\ \A v \in ActiveOf(t) : shown[t] = verif[v].status
        /\ shown[t] \in Active => ActiveOf(t) # {}

\* No two workers check the same verification, into the same crawl run.
OneWorkerPerVerification ==
    \A w, x \in Workers :
        /\ worker[w].pc # "idle" /\ worker[x].pc # "idle"
        /\ ticket[worker[w].ticket].verif = ticket[worker[x].ticket].verif
        => w = x

\* A verification that is decided keeps its outcome, unless it failed for good
\* and an operator requeues its dead letter.
DecidedIsFinal ==
    [][\A v \in Verifications :
         verif[v].status \in Decided /\ verif'[v].status # verif[v].status => v \in dead]_vars

\* A check is open from the request that was committed to the outcome, and the
\* steps of queue and worker in between do not show.
Stage(s) ==
    IF s \in Active THEN "open" ELSE IF s \in Decided THEN s ELSE "none"

C == INSTANCE Checks WITH
        CheckIds <- Verifications,
        Results <- Decided,
        check <- [v \in Verifications |-> [task |-> verif[v].task, stage |-> Stage(verif[v].status)]],
        board <- [t \in Tasks |-> Stage(shown[t])]

\* Requests, tickets, workers, retries, refusals and dead letters together do
\* what Checks promises: a task is checked once at a time, a check is decided
\* once, only an errored one is taken up again, and the task shows each step.
ImplementsChecks == C!Spec

\* A requested verification is decided, or recorded as a dead letter, although
\* workers die, attempts fail and the queue refuses; only a request that dies
\* between its commit and its call of the queue leaves one behind.
VerificationDecided ==
    \A v \in Verifications :
        verif[v].status \in Active ~> (verif[v].status \in Decided \/ v \in dead \/ v \in lost)
=============================================================================
