---------------------------- MODULE CrawlControl ----------------------------
(***************************************************************************)
(* The control plane of the crawler: the rows of crawl_jobs in PostgreSQL, *)
(* the crawl queue in Redis/RQ, the worker processes that execute a job,   *)
(* the API handlers and the scheduler that create, pause, resume and       *)
(* cancel it, and the deployment drain that stops them all.                *)
(*                                                                         *)
(* Grain.  A step is one database transaction or one Redis call.  A        *)
(* handler that reads a row, decides, and writes it back without a lock    *)
(* takes two steps, because the ORM writes blindly: SQLAlchemy emits       *)
(* UPDATE ... WHERE id = ? with the new value, whatever the row holds by   *)
(* then, and no UPDATE at all when the value it loaded equals the one it   *)
(* assigns (Overwrite).  "seen" is what a process loaded.                  *)
(*                                                                         *)
(* Abstractions.  "succeeded" stands for partially_succeeded too.  The     *)
(* crawl_runs row is written in the same transactions as its job and is    *)
(* left out.  A ticket stands for one call of queue.enqueue until RQ is    *)
(* done with it, retries included; its RQ id is left out.  The light, full *)
(* and sitemap queues are one queue.  queue.count and queue.enqueue are    *)
(* one step.                                                               *)
(***************************************************************************)
EXTENDS Naturals, FiniteSets

CONSTANTS
    Jobs,        \* rows crawl_jobs can hold
    Sites,       \* websites
    SiteOf,      \* crawl_jobs.website_id
    Workers,     \* RQ workers that serve the crawl queues
    Tickets,     \* bound: RQ jobs alive at the same time
    Requests,    \* bound: API, CLI or scheduler calls in flight together
    Operators,   \* bound: drain commands in flight at the same time
    NoJob,       \* not a job
    NoTicket,    \* not a ticket
    Admission,   \* admission_backlog of the crawl queue
    QueueLimit,  \* website_settings.crawl_queue_limit
    MaxRetries,  \* len(retry_intervals) of the crawl queue
    Events       \* what the environment does in this instance

EventKinds == {"pause", "cancel", "resume", "drain", "requeue", "fail",
               "restart", "kill", "lose"}

ASSUME ConstantsAssumption ==
    /\ SiteOf \in [Jobs -> Sites]
    /\ NoJob \notin Jobs
    /\ NoTicket \notin Tickets
    /\ IsFiniteSet(Tickets) /\ IsFiniteSet(Jobs)
    /\ Admission \in Nat /\ QueueLimit \in Nat /\ MaxRetries \in Nat /\ Operators \in Nat
    /\ Events \subseteq EventKinds

VARIABLES
    status,     \* crawl_jobs.status
    drain,      \* crawl_deployment_control: is_active, paused_job_ids
    dead,       \* jobs with an unresolved queue_dead_letters record
    ticket,     \* RQ jobs: state, crawl job, retries left
    worker,     \* worker processes: program counter, ticket, loaded status
    request     \* calls in flight: program counter, job, loaded status, rest

vars == <<status, drain, dead, ticket, worker, request>>

-----------------------------------------------------------------------------
Absent == "absent"

Status == {Absent, "waiting_for_capacity", "pending", "running",
           "pause_requested", "paused", "cancel_requested", "cancelled",
           "succeeded", "failed"}

ActiveStatuses == {"waiting_for_capacity", "pending", "running",
                   "pause_requested", "paused", "cancel_requested"}

StatusesToPause == {"waiting_for_capacity", "pending", "running"}

UnsafeStatuses == {"running", "pause_requested"}

\* What execute_crawl_job refuses to start.
NotStarted == {"cancelled", "paused", "pause_requested"}

TicketState == {"free", "queued", "scheduled", "started", "abandoned"}

Ticket == [state : TicketState, job : Jobs \cup {NoJob}, left : 0 .. MaxRetries]

FreeTicket == [state |-> "free", job |-> NoJob, left |-> 0]

WorkerPc == {"idle", "loaded", "crawling", "pausing", "cancelling",
             "dead", "recovering"}

Worker == [pc : WorkerPc, ticket : Tickets \cup {NoTicket}, seen : Status,
           spared : SUBSET Jobs]

IdleWorker == [pc |-> "idle", ticket |-> NoTicket, seen |-> Absent, spared |-> {}]

RequestPc == {"idle", "insert", "enqueue", "full", "pause", "cancel", "resume",
              "dispatch", "requeue", "activated", "drain", "finish", "release"}

\* rest: the tracked list a drain loaded, or the jobs a resume still enqueues.
Request == [pc : RequestPc, job : Jobs \cup {NoJob}, seen : [Jobs -> Status],
            rest : SUBSET Jobs]

NothingSeen == [j \in Jobs |-> Absent]

IdleRequest == [pc |-> "idle", job |-> NoJob, seen |-> NothingSeen, rest |-> {}]

TypeOK ==
    /\ status \in [Jobs -> Status]
    /\ drain \in [active : BOOLEAN, tracked : SUBSET Jobs]
    /\ dead \in SUBSET Jobs
    /\ ticket \in [Tickets -> Ticket]
    /\ worker \in [Workers -> Worker]
    /\ request \in [Requests -> Request]

Init ==
    /\ status = NothingSeen
    /\ drain = [active |-> FALSE, tracked |-> {}]
    /\ dead = {}
    /\ ticket = [t \in Tickets |-> FreeTicket]
    /\ worker = [w \in Workers |-> IdleWorker]
    /\ request = [r \in Requests |-> IdleRequest]

-----------------------------------------------------------------------------
(***************************************************************************)
(* Helpers.                                                                *)
(***************************************************************************)

\* The row after an ORM flush that assigned new to an attribute loaded as old.
Overwrite(row, old, new) == IF old = new THEN row ELSE new

Write(j, new) == status' = [status EXCEPT ![j] = new]

ActiveJobs(s) == {j \in Jobs : SiteOf[j] = s /\ status[j] \in ActiveStatuses}

\* Variant: the limit itself is refused one entry early.
HasCapacityShort ==
    Cardinality({t \in Tickets : ticket[t].state = "queued"}) + 1 < Admission

HasCapacity ==
    Cardinality({t \in Tickets : ticket[t].state = "queued"}) < Admission

\* queue.enqueue: a fresh RQ job for crawl job j.
Enqueue(j) ==
    \E t \in Tickets :
        /\ ticket[t].state = "free"
        /\ ticket' = [ticket EXCEPT ![t] =
                        [state |-> "queued", job |-> j, left |-> MaxRetries]]

\* The ticket leaves RQ because its function returned.
TicketDone(t) == ticket' = [ticket EXCEPT ![t] = FreeTicket]

\* Variant: one retry too many.
TicketFailedOnceMore(t) ==
    IF ticket[t].left >= 0
    THEN /\ ticket' = [ticket EXCEPT ![t].state = "scheduled", ![t].left = @ - 1]
         /\ UNCHANGED dead
    ELSE /\ TicketDone(t)
         /\ dead' = dead \cup {ticket[t].job}

\* Variant: the final failure is not recorded.
TicketFailedSilently(t) ==
    /\ IF ticket[t].left > 0
       THEN ticket' = [ticket EXCEPT ![t].state = "scheduled", ![t].left = @ - 1]
       ELSE TicketDone(t)
    /\ UNCHANGED dead

\* The function raised: RQ schedules another attempt, or the failure is final
\* and record_dead_letter stores it.
TicketFailed(t) ==
    IF ticket[t].left > 0
    THEN /\ ticket' = [ticket EXCEPT ![t].state = "scheduled", ![t].left = @ - 1]
         /\ UNCHANGED dead
    ELSE /\ TicketDone(t)
         /\ dead' = dead \cup {ticket[t].job}

Call(r, pc, j, seen) ==
    request' = [request EXCEPT ![r] =
                  [pc |-> pc, job |-> j, seen |-> seen, rest |-> {}]]

Return(r) == request' = [request EXCEPT ![r] = IdleRequest]

IsIdle(r) == request[r].pc = "idle"

SeenOnly(j) == [NothingSeen EXCEPT ![j] = status[j]]

WorkerTo(w, pc, t, seen) ==
    worker' = [worker EXCEPT ![w] =
                 [pc |-> pc, ticket |-> t, seen |-> seen, spared |-> {}]]

WorkerIdle(w) == worker' = [worker EXCEPT ![w] = IdleWorker]

\* SELECT ... FROM websites FOR UPDATE, held from the admission count to the
\* INSERT of the new job.
SiteLocked(s) ==
    \E r \in Requests : request[r].pc = "insert" /\ SiteOf[request[r].job] = s

\* SELECT ... FROM crawl_deployment_control FOR UPDATE, held while a drain
\* lists and rewrites the jobs.
ControlLocked == \E r \in Requests : request[r].pc \in {"drain", "finish"}

\* Bound: the pause-crawls and resume-crawls commands that overlap.
OperatorFree ==
    Cardinality({r \in Requests : request[r].pc \in
                   {"activated", "drain", "finish", "release"}}) < Operators

-----------------------------------------------------------------------------
(***************************************************************************)
(* The worker: execute_crawl_job, its cooperative checks, and the recovery *)
(* a starting worker process runs.                                         *)
(***************************************************************************)

\* RQ hands over the ticket and db.get loads the job.
Take(w, t) ==
    LET j == ticket[t].job IN
    /\ worker[w].pc = "idle"
    /\ ticket[t].state = "queued"
    /\ IF status[j] \in NotStarted
       THEN /\ TicketDone(t)
            /\ UNCHANGED worker
       ELSE /\ ticket' = [ticket EXCEPT ![t].state = "started"]
            /\ WorkerTo(w, "loaded", t, status[j])
    /\ UNCHANGED <<status, drain, dead, request>>

\* pause_job_if_deployment_active: the gate found the drain active.
StartGated(w) ==
    LET t == worker[w].ticket
        j == ticket[t].job
    IN
    /\ worker[w].pc = "loaded"
    /\ ~ControlLocked
    /\ drain.active
    /\ Write(j, Overwrite(status[j], worker[w].seen, "paused"))
    /\ drain' = [drain EXCEPT !.tracked = @ \cup {j}]
    /\ TicketDone(t)
    /\ WorkerIdle(w)
    /\ UNCHANGED <<dead, request>>

\* Variant: the query forgets the website.
OtherRunningSelf(j) ==
    \E k \in {j} : SiteOf[k] = SiteOf[j] /\ status[k] = "running"

OtherRunning(j) ==
    \E k \in Jobs \ {j} : SiteOf[k] = SiteOf[j] /\ status[k] = "running"

\* RuntimeError before the try block: the job row stays as it is.
StartRefused(w) ==
    LET t == worker[w].ticket
        j == ticket[t].job
    IN
    /\ worker[w].pc = "loaded"
    /\ ~ControlLocked
    /\ ~drain.active
    /\ OtherRunning(j)
    /\ TicketFailed(t)
    /\ WorkerIdle(w)
    /\ UNCHANGED <<status, drain, request>>

\* Variant: the gate is not asked.
StartUngated(w) ==
    LET t == worker[w].ticket
        j == ticket[t].job
    IN
    /\ worker[w].pc = "loaded"
    /\ ~OtherRunning(j)
    /\ Write(j, Overwrite(status[j], worker[w].seen, "running"))
    /\ WorkerTo(w, "crawling", t, "running")
    /\ UNCHANGED <<drain, dead, ticket, request>>

\* The control row stays locked until this commit, so the gate, the check of
\* the website's other jobs and the write are one step.
Start(w) ==
    LET t == worker[w].ticket
        j == ticket[t].job
    IN
    /\ worker[w].pc = "loaded"
    /\ ~ControlLocked
    /\ ~drain.active
    /\ ~OtherRunning(j)
    /\ Write(j, Overwrite(status[j], worker[w].seen, "running"))
    /\ WorkerTo(w, "crawling", t, "running")
    /\ UNCHANGED <<drain, dead, ticket, request>>

\* _check_crawl_control refreshes the job and acts on what it finds.
Check(w) ==
    LET t == worker[w].ticket
        now == status[ticket[t].job]
    IN
    /\ worker[w].pc = "crawling"
    /\ WorkerTo(w, CASE now = "pause_requested" -> "pausing"
                     [] now \in {"cancel_requested", "cancelled"} -> "cancelling"
                     [] OTHER -> "crawling",
                t, now)
    /\ UNCHANGED <<status, drain, dead, ticket, request>>

\* The write of _check_crawl_control; CrawlPaused and CrawlCancelled end the
\* job without a failure.
Stop(w, pc, final) ==
    LET t == worker[w].ticket
        j == ticket[t].job
    IN
    /\ worker[w].pc = pc
    /\ Write(j, Overwrite(status[j], worker[w].seen, final))
    /\ TicketDone(t)
    /\ WorkerIdle(w)
    /\ UNCHANGED <<drain, dead, request>>

StopPaused(w) == Stop(w, "pausing", "paused")

StopCancelled(w) == Stop(w, "cancelling", "cancelled")

\* The crawl ran to its end.
Finish(w) == Stop(w, "crawling", "succeeded")

\* An exception: rollback, reload, status failed, and RQ sees the exception.
Fail(w) ==
    LET t == worker[w].ticket
        j == ticket[t].job
    IN
    /\ "fail" \in Events
    /\ worker[w].pc = "crawling"
    /\ Write(j, "failed")
    /\ TicketFailed(t)
    /\ WorkerIdle(w)
    /\ UNCHANGED <<drain, request>>

\* The container dies: nothing is written and RQ still lists its ticket.  (A
\* worker that dies without a ticket has done nothing a restart undoes.)
Kill(w) ==
    /\ "kill" \in Events
    /\ worker[w].ticket # NoTicket
    /\ ticket' = [ticket EXCEPT ![worker[w].ticket].state = "abandoned"]
    /\ WorkerTo(w, "dead", NoTicket, Absent)
    /\ UNCHANGED <<status, drain, dead, request>>

\* A new worker process asks Redis which crawls other workers own; a dead
\* worker's registration may not have expired yet.
Restart(w) ==
    /\ worker[w].pc = "dead" \/ (worker[w].pc = "idle" /\ "restart" \in Events)
    /\ \E stale \in SUBSET {t \in Tickets : ticket[t].state = "abandoned"} :
         worker' = [worker EXCEPT ![w] =
           [pc |-> "recovering", ticket |-> NoTicket, seen |-> Absent,
            spared |-> {ticket[t].job : t \in
              {u \in Tickets : ticket[u].state = "started"} \cup stale}]]
    /\ UNCHANGED <<status, drain, dead, ticket, request>>

\* recover_interrupted_crawls, its query and its writes in one transaction.
Recover(w) ==
    /\ worker[w].pc = "recovering"
    /\ status' = [j \in Jobs |->
         IF j \in worker[w].spared THEN status[j]
         ELSE CASE status[j] = "cancel_requested" -> "cancelled"
                [] status[j] \in UnsafeStatuses -> "paused"
                [] OTHER -> status[j]]
    /\ WorkerIdle(w)
    /\ UNCHANGED <<drain, dead, ticket, request>>

-----------------------------------------------------------------------------
(***************************************************************************)
(* RQ itself, as the worker uses it.                                       *)
(***************************************************************************)

\* A retry falls due; RQ puts it back without asking for admission.
Promote(t) ==
    /\ ticket[t].state = "scheduled"
    /\ ticket' = [ticket EXCEPT ![t].state = "queued"]
    /\ UNCHANGED <<status, drain, dead, worker, request>>

\* RQ finds a ticket whose worker is gone: another attempt, or final failure.
CleanAbandoned(t) ==
    /\ ticket[t].state = "abandoned"
    /\ TicketFailed(t)
    /\ UNCHANGED <<status, drain, worker, request>>

-----------------------------------------------------------------------------
(***************************************************************************)
(* The API and the scheduler.                                              *)
(***************************************************************************)

\* create_crawl_job and schedule_due_jobs: drain flag, website lock, count.
CreateCheck(r, j) ==
    /\ IsIdle(r)
    /\ status[j] = Absent
    /\ \A q \in Requests : request[q].job # j
    /\ ~SiteLocked(SiteOf[j])
    /\ ~drain.active
    /\ Cardinality(ActiveJobs(SiteOf[j])) < QueueLimit
    /\ Call(r, "insert", j, NothingSeen)
    /\ UNCHANGED <<status, drain, dead, ticket, worker>>

Insert(r) ==
    LET j == request[r].job IN
    /\ request[r].pc = "insert"
    /\ Write(j, "pending")
    /\ Call(r, "enqueue", j, NothingSeen)
    /\ UNCHANGED <<drain, dead, ticket, worker>>

\* Variant: the answer of the queue is dropped.
EnqueueCallUnread(r) ==
    LET j == request[r].job IN
    /\ request[r].pc = "enqueue"
    /\ IF HasCapacity THEN Enqueue(j) ELSE UNCHANGED ticket
    /\ Return(r)
    /\ UNCHANGED <<status, drain, dead, worker>>

\* enqueue_crawl_job after the commit.
EnqueueCall(r) ==
    LET j == request[r].job IN
    /\ request[r].pc = "enqueue"
    /\ IF HasCapacity
       THEN Enqueue(j) /\ Return(r)
       ELSE Call(r, "full", j, NothingSeen) /\ UNCHANGED ticket
    /\ UNCHANGED <<status, drain, dead, worker>>

\* The queue refused: the handler writes over whatever the row holds by now.
WriteWaiting(r) ==
    /\ request[r].pc = "full"
    /\ Write(request[r].job, "waiting_for_capacity")
    /\ Return(r)
    /\ UNCHANGED <<drain, dead, ticket, worker>>

PauseRead(r, j) ==
    /\ "pause" \in Events
    /\ IsIdle(r)
    /\ status[j] = "running"
    /\ Call(r, "pause", j, NothingSeen)
    /\ UNCHANGED <<status, drain, dead, ticket, worker>>

PauseWrite(r) ==
    /\ request[r].pc = "pause"
    /\ Write(request[r].job, "pause_requested")
    /\ Return(r)
    /\ UNCHANGED <<drain, dead, ticket, worker>>

CancelRead(r, j) ==
    /\ "cancel" \in Events
    /\ IsIdle(r)
    /\ status[j] \in ActiveStatuses \ {"cancel_requested"}
    /\ Call(r, "cancel", j, SeenOnly(j))
    /\ UNCHANGED <<status, drain, dead, ticket, worker>>

CancelWrite(r) ==
    LET j == request[r].job IN
    /\ request[r].pc = "cancel"
    /\ Write(j, IF request[r].seen[j] \in {"waiting_for_capacity", "pending", "paused"}
                THEN "cancelled" ELSE "cancel_requested")
    /\ Return(r)
    /\ UNCHANGED <<drain, dead, ticket, worker>>

\* A failed job is resumable when it left a snapshot: either may be so.
ResumeRead(r, j) ==
    /\ "resume" \in Events
    /\ IsIdle(r)
    /\ ~drain.active
    /\ status[j] \in {"paused", "failed"}
    /\ Call(r, "resume", j, NothingSeen)
    /\ UNCHANGED <<status, drain, dead, ticket, worker>>

\* Under the website lock: the count leaves the job itself out.
ResumeWrite(r) ==
    LET j == request[r].job IN
    /\ request[r].pc = "resume"
    /\ ~SiteLocked(SiteOf[j])
    /\ IF Cardinality(ActiveJobs(SiteOf[j]) \ {j}) < QueueLimit
       THEN Write(j, "pending") /\ Call(r, "enqueue", j, NothingSeen)
       ELSE Return(r) /\ UNCHANGED status
    /\ UNCHANGED <<drain, dead, ticket, worker>>

\* dispatch_waiting_crawl_jobs reads the drain flag once.
DispatchCheck(r) ==
    /\ IsIdle(r)
    /\ ~drain.active
    /\ \E j \in Jobs : status[j] = "waiting_for_capacity"
    /\ Call(r, "dispatch", NoJob, NothingSeen)
    /\ UNCHANGED <<status, drain, dead, ticket, worker>>

\* Variant: the commit that writes pending is missing.
DispatchUncommitted(r) ==
    /\ request[r].pc = "dispatch"
    /\ \/ \E j \in Jobs :
            /\ status[j] = "waiting_for_capacity"
            /\ HasCapacity
            /\ Enqueue(j)
       \/ /\ ~HasCapacity \/ \A j \in Jobs : status[j] # "waiting_for_capacity"
          /\ UNCHANGED ticket
    /\ Return(r)
    /\ UNCHANGED <<status, drain, dead, worker>>

\* The rows are locked (SKIP LOCKED) from the query to the commit; one row per
\* call here, the others wait for the next round.
Dispatch(r) ==
    /\ request[r].pc = "dispatch"
    /\ \/ \E j \in Jobs :
            /\ status[j] = "waiting_for_capacity"
            /\ HasCapacity
            /\ Enqueue(j)
            /\ Write(j, "pending")
       \/ /\ ~HasCapacity \/ \A j \in Jobs : status[j] # "waiting_for_capacity"
          /\ UNCHANGED <<status, ticket>>
    /\ Return(r)
    /\ UNCHANGED <<drain, dead, worker>>

\* requeue_dead_letter enqueues first and commits the new status afterwards;
\* a full queue raises, and nothing is kept.
Requeue(r, j) ==
    /\ "requeue" \in Events
    /\ IsIdle(r)
    /\ j \in dead
    /\ status[j] \notin {"running", "pause_requested", "cancel_requested"}
    /\ HasCapacity
    /\ Enqueue(j)
    /\ Call(r, "requeue", j, SeenOnly(j))
    /\ UNCHANGED <<status, drain, dead, worker>>

RequeueWrite(r) ==
    LET j == request[r].job IN
    /\ request[r].pc = "requeue"
    /\ Write(j, Overwrite(status[j], request[r].seen[j], "pending"))
    /\ dead' = dead \ {j}
    /\ Return(r)
    /\ UNCHANGED <<drain, ticket, worker>>

Resolve(j) ==
    /\ "requeue" \in Events
    /\ j \in dead
    /\ dead' = dead \ {j}
    /\ UNCHANGED <<status, drain, ticket, worker, request>>

\* The process that serves the call dies between two steps.
Lose(r) ==
    /\ "lose" \in Events
    /\ ~IsIdle(r)
    /\ Return(r)
    /\ UNCHANGED <<status, drain, dead, ticket, worker>>

-----------------------------------------------------------------------------
(***************************************************************************)
(* The deployment drain (pause-crawls and resume-crawls).                  *)
(***************************************************************************)

\* The first lock of start_deployment_drain.  It commits, and gives the lock
\* up, only when it is the one that activates the drain; the control object
\* keeps the empty list it wrote (expire_on_commit is off).
Activate(r) ==
    /\ "drain" \in Events
    /\ OperatorFree
    /\ IsIdle(r)
    /\ ~ControlLocked
    /\ IF drain.active
       THEN /\ request' = [request EXCEPT ![r] =
                             [pc |-> "drain", job |-> NoJob, seen |-> status,
                              rest |-> drain.tracked]]
            /\ UNCHANGED drain
       ELSE /\ drain' = [active |-> TRUE, tracked |-> {}]
            /\ Call(r, "activated", NoJob, NothingSeen)
    /\ UNCHANGED <<status, dead, ticket, worker>>

\* The second lock, taken again after the commit: list the jobs, ...
DrainRead(r) ==
    /\ request[r].pc = "activated"
    /\ ~ControlLocked
    /\ request' = [request EXCEPT ![r].pc = "drain", ![r].seen = status]
    /\ UNCHANGED <<status, drain, dead, ticket, worker>>

\* ... then write every listed job that the loaded list does not hold yet.
\* A list that did not change is not written.
DrainWrite(r) ==
    LET seen == request[r].seen
        loaded == request[r].rest
        fresh == {j \in Jobs : seen[j] \in StatusesToPause} \ loaded
    IN
    /\ request[r].pc = "drain"
    /\ status' = [j \in Jobs |->
         IF j \notin fresh THEN status[j]
         ELSE IF seen[j] = "pending" THEN "paused" ELSE "pause_requested"]
    /\ drain' = [drain EXCEPT !.tracked = IF fresh = {} THEN @ ELSE loaded \cup fresh]
    /\ Return(r)
    /\ UNCHANGED <<dead, ticket, worker>>

\* finish_deployment_drain: refused while a job is unsafe.
FinishRead(r) ==
    /\ "drain" \in Events
    /\ OperatorFree
    /\ IsIdle(r)
    /\ ~ControlLocked
    /\ drain.active
    /\ \A j \in Jobs : status[j] \notin UnsafeStatuses
    /\ Call(r, "finish", NoJob, status)
    /\ UNCHANGED <<status, drain, dead, ticket, worker>>

FinishWrite(r) ==
    LET resumed == {j \in drain.tracked : request[r].seen[j] = "paused"} IN
    /\ request[r].pc = "finish"
    /\ status' = [j \in Jobs |-> IF j \in resumed THEN "pending" ELSE status[j]]
    /\ drain' = [active |-> FALSE, tracked |-> {}]
    /\ request' = [request EXCEPT ![r] =
                     [pc |-> "release", job |-> NoJob, seen |-> NothingSeen,
                      rest |-> resumed]]
    /\ UNCHANGED <<dead, ticket, worker>>

\* The caller enqueues the resumed jobs and drops the answer of each call.
Release(r) ==
    /\ request[r].pc = "release"
    /\ \/ \E j \in request[r].rest :
            /\ IF HasCapacity THEN Enqueue(j) ELSE UNCHANGED ticket
            /\ request' = [request EXCEPT ![r].rest = @ \ {j}]
       \/ /\ request[r].rest = {}
          /\ Return(r)
          /\ UNCHANGED ticket
    /\ UNCHANGED <<status, drain, dead, worker>>

-----------------------------------------------------------------------------
WorkerStep(w) ==
    \/ \E t \in Tickets : Take(w, t)
    \/ StartGated(w) \/ StartRefused(w) \/ Start(w)
    \/ Check(w) \/ StopPaused(w) \/ StopCancelled(w)
    \/ Finish(w) \/ Fail(w) \/ Kill(w)
    \/ Restart(w) \/ Recover(w)

RqStep == \E t \in Tickets : Promote(t) \/ CleanAbandoned(t)

RequestStep(r) ==
    \/ \E j \in Jobs :
         \/ CreateCheck(r, j) \/ PauseRead(r, j) \/ CancelRead(r, j)
         \/ ResumeRead(r, j) \/ Requeue(r, j)
    \/ Insert(r) \/ EnqueueCall(r) \/ WriteWaiting(r)
    \/ PauseWrite(r) \/ CancelWrite(r) \/ ResumeWrite(r)
    \/ DispatchCheck(r) \/ Dispatch(r) \/ RequeueWrite(r) \/ Lose(r)
    \/ Activate(r) \/ DrainRead(r) \/ DrainWrite(r)
    \/ FinishRead(r) \/ FinishWrite(r) \/ Release(r)

Next ==
    \/ \E w \in Workers : WorkerStep(w)
    \/ RqStep
    \/ \E r \in Requests : RequestStep(r)
    \/ \E j \in Jobs : Resolve(j)

Spec == Init /\ [][Next]_vars

(***************************************************************************)
(* Fairness.  Workers keep taking tickets and a crawl ends (six hours is   *)
(* its job_timeout); RQ promotes retries (with_scheduler=True) and cleans  *)
(* its registries; a call that was made is carried through; the scheduler  *)
(* loop keeps dispatching.  Users are not assumed to do anything.          *)
(***************************************************************************)
RequestRuns(r) ==
    \/ Insert(r) \/ EnqueueCall(r) \/ WriteWaiting(r)
    \/ PauseWrite(r) \/ CancelWrite(r) \/ ResumeWrite(r)
    \/ Dispatch(r) \/ RequeueWrite(r)
    \/ DrainRead(r) \/ DrainWrite(r) \/ FinishWrite(r) \/ Release(r)

WorkerRuns(w) ==
    \/ \E t \in Tickets : Take(w, t)
    \/ StartGated(w) \/ StartRefused(w) \/ Start(w)
    \/ StopPaused(w) \/ StopCancelled(w) \/ Recover(w)
    \/ (worker[w].pc = "dead" /\ Restart(w))

Fairness ==
    /\ \A w \in Workers : WF_vars(WorkerRuns(w))
    /\ \A w \in Workers : WF_vars(Check(w)) /\ WF_vars(Finish(w))
    /\ \A t \in Tickets : WF_vars(Promote(t)) /\ WF_vars(CleanAbandoned(t))
    /\ \A r \in Requests : WF_vars(RequestRuns(r))
    /\ \A r \in Requests : SF_vars(DispatchCheck(r))

FairSpec == Spec /\ Fairness

-----------------------------------------------------------------------------
(***************************************************************************)
(* Properties.                                                             *)
(***************************************************************************)

Crawls(w, j) ==
    /\ worker[w].pc \in {"crawling", "pausing", "cancelling"}
    /\ ticket[worker[w].ticket].job = j

\* Two jobs of one website never both show running: the gate, the check of
\* the other jobs and the write are covered by the lock on the control row.
OneRunningPerSite ==
    \A j, k \in Jobs :
        status[j] = "running" /\ status[k] = "running" /\ SiteOf[j] = SiteOf[k]
        => j = k

\* A job that shows pending can still be started: RQ has a ticket for it, a
\* call is about to enqueue it, or its final failure is on record.
NoLostJob ==
    \A j \in Jobs : status[j] = "pending" =>
        \/ \E t \in Tickets : ticket[t].job = j
        \/ \E r \in Requests : request[r].job = j \/ j \in request[r].rest
        \/ j \in dead

\* No two workers crawl the same job, into the same crawl run.
OneWorkerPerJob ==
    \A w, v \in Workers, j \in Jobs : Crawls(w, j) /\ Crawls(v, j) => w = v

\* While the drain is active no worker begins to crawl, whatever ticket it
\* held when the drain began.
DrainAdmitsNone ==
    [][drain.active =>
         \A w \in Workers :
            worker'[w].pc = "crawling" => worker[w].pc = "crawling"]_vars

\* Every pending job is decided: started and ended, stopped, waiting for
\* capacity, or recorded as a dead letter.
PendingIsDecided ==
    \A j \in Jobs : status[j] = "pending" ~> (status[j] # "pending" \/ j \in dead)

\* A job the queue refused gets in when the queue has room again.
WaitingIsServed ==
    \A j \in Jobs : status[j] = "waiting_for_capacity"
                    ~> status[j] # "waiting_for_capacity"

\* A crawl whose worker dies does not show running for ever: it is retried,
\* recovered as paused, or recorded as a dead letter.
RunningEnds ==
    \A j \in Jobs : status[j] = "running" ~> (status[j] # "running" \/ j \in dead)
=============================================================================
