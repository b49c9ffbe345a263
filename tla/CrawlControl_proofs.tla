------------------------ MODULE CrawlControl_proofs ------------------------
(***************************************************************************)
(* Proofs about CrawlControl, for any jobs, websites, workers, tickets,    *)
(* calls, bounds and environment.                                          *)
(***************************************************************************)
EXTENDS CrawlControl, TLAPS

HasJob == {"insert", "enqueue", "full", "pause", "cancel", "resume", "requeue"}

Busy == {"loaded", "crawling", "pausing", "cancelling"}

\* The rows are typed.
Rows ==
    /\ status \in [Jobs -> Status]
    /\ drain \in [active : BOOLEAN, tracked : SUBSET Jobs]
    /\ dead \subseteq Jobs

\* A ticket in RQ carries a job.
Rq ==
    /\ ticket \in [Tickets -> Ticket]
    /\ \A t \in Tickets : ticket[t].state # "free" => ticket[t].job \in Jobs

\* A busy worker holds a started ticket, and nobody else holds it.
Held ==
    /\ worker \in [Workers -> Worker]
    /\ \A w \in Workers :
        /\ worker[w].pc \in Busy <=> worker[w].ticket \in Tickets
        /\ worker[w].ticket \in Tickets =>
              /\ ticket[worker[w].ticket].state = "started"
              /\ \A v \in Workers : worker[v].ticket = worker[w].ticket => v = w

\* A call that goes on about a job names one.
Calls ==
    /\ request \in [Requests -> Request]
    /\ \A r \in Requests : request[r].pc \in HasJob => request[r].job \in Jobs

Inv == Rows /\ Rq /\ Held /\ Calls

LEMMA InvTyped == Inv => TypeOK
BY DEF Inv, Rows, Rq, Held, Calls, TypeOK

-----------------------------------------------------------------------------
(***************************************************************************)
(* What the helpers do.                                                    *)
(***************************************************************************)

\* A failed attempt: the ticket goes or waits for its retry, no other changes.
LEMMA TicketFailedFacts ==
    ASSUME Rq, dead \subseteq Jobs, NEW t \in Tickets, ticket[t].state # "free",
           TicketFailed(t)
    PROVE  /\ Rq' /\ dead' \subseteq Jobs
           /\ \A u \in Tickets \ {t} : ticket'[u] = ticket[u]
<1> USE ConstantsAssumption DEF Rq, Ticket, TicketState
<1>1. CASE ticket[t].left > 0
  <2>1. ticket' = [ticket EXCEPT ![t] = [state |-> "scheduled", job |-> ticket[t].job,
                                        left |-> ticket[t].left - 1]]
    BY <1>1 DEF TicketFailed
  <2>2. ticket[t].left - 1 \in 0 .. MaxRetries
    BY <1>1
  <2> QED
    BY <1>1, <2>1, <2>2 DEF TicketFailed
<1>2. CASE ~(ticket[t].left > 0)
  BY <1>2 DEF TicketFailed, TicketDone, FreeTicket
<1> QED
  BY <1>1, <1>2

\* An enqueue: one free ticket is queued now, no other changes.
LEMMA EnqueueFacts ==
    ASSUME Rq, NEW j \in Jobs, Enqueue(j)
    PROVE  /\ Rq'
           /\ \A t \in Tickets : ticket[t].state = "started" => ticket'[t] = ticket[t]
BY ConstantsAssumption DEF Rq, Enqueue, Ticket, TicketState

\* A ticket that ends.
LEMMA TicketDoneFacts ==
    ASSUME Rq, NEW t \in Tickets, TicketDone(t)
    PROVE  /\ Rq'
           /\ \A u \in Tickets \ {t} : ticket'[u] = ticket[u]
BY ConstantsAssumption DEF Rq, TicketDone, Ticket, TicketState, FreeTicket

\* Tickets change, but none that a worker holds.
LEMMA HeldKept ==
    ASSUME Held, UNCHANGED worker,
           \A t \in Tickets : ticket[t].state = "started" => ticket'[t] = ticket[t]
    PROVE  Held'
BY DEF Held

\* A worker lets go of its ticket, whatever becomes of that ticket.
LEMMA HeldReleased ==
    ASSUME Held, NEW w \in Workers, NEW rec \in Worker,
           worker[w].ticket \in Tickets,
           rec.pc \notin Busy, rec.ticket = NoTicket,
           worker' = [worker EXCEPT ![w] = rec],
           \A t \in Tickets \ {worker[w].ticket} : ticket'[t] = ticket[t]
    PROVE  Held'
BY ConstantsAssumption DEF Held

\* A worker moves on with the ticket it has.
LEMMA HeldMoved ==
    ASSUME Held, NEW w \in Workers, NEW rec \in Worker,
           rec.pc \in Busy <=> worker[w].pc \in Busy, rec.ticket = worker[w].ticket,
           worker' = [worker EXCEPT ![w] = rec],
           UNCHANGED ticket
    PROVE  Held'
BY DEF Held

\* A call takes a step to a state that names its job, or needs none.
LEMMA CallsStep ==
    ASSUME Calls, NEW r \in Requests, NEW rec \in Request,
           rec.pc \in HasJob => rec.job \in Jobs,
           request' = [request EXCEPT ![r] = rec]
    PROVE  Calls'
BY DEF Calls

LEMMA IdleWorkerFacts ==
    /\ IdleWorker \in Worker /\ IdleWorker.pc \notin Busy
    /\ IdleWorker.ticket = NoTicket
BY DEF IdleWorker, Worker, WorkerPc, Busy, Status, Absent

LEMMA IdleRequestFacts ==
    IdleRequest \in Request /\ IdleRequest.pc \notin HasJob
BY DEF IdleRequest, Request, RequestPc, HasJob, NothingSeen, Status, Absent

-----------------------------------------------------------------------------
(***************************************************************************)
(* Every step keeps the invariant: one lemma per actor, one step per       *)
(* action.                                                                 *)
(***************************************************************************)

\* A busy worker's ticket and job.
LEMMA BusyFacts ==
    ASSUME Inv, NEW w \in Workers, worker[w].pc \in Busy
    PROVE  /\ worker[w].ticket \in Tickets
           /\ ticket[worker[w].ticket].state = "started"
           /\ ticket[worker[w].ticket].job \in Jobs
           /\ worker[w].seen \in Status
BY DEF Inv, Held, Rq, Worker

LEMMA WorkerKeepsInv ==
    ASSUME Inv, NEW w \in Workers, WorkerStep(w)
    PROVE  Inv'
<1> DEFINE t == worker[w].ticket
           j == ticket[t].job
<1> HIDE DEF t, j
<1> SUFFICES Rows' /\ Rq' /\ Held' /\ Calls'
  BY DEF Inv
<1>a. Rows /\ Rq /\ Held /\ Calls
  BY DEF Inv
<1>1. ASSUME NEW u \in Tickets, Take(w, u) PROVE Rows' /\ Rq' /\ Held' /\ Calls'
  <2>1. /\ worker[w].pc = "idle" /\ ticket[u].state = "queued"
        /\ UNCHANGED <<status, drain, dead, request>>
    BY <1>1 DEF Take
  <2>2. Rows' /\ Calls'
    BY <1>a, <2>1 DEF Rows, Calls
  <2>3. CASE status[ticket[u].job] \in NotStarted
    <3>1. TicketDone(u) /\ UNCHANGED worker
      BY <1>1, <2>3 DEF Take
    <3> QED
      BY <1>a, <2>1, <2>2, <3>1, TicketDoneFacts, HeldKept
  <2>4. CASE status[ticket[u].job] \notin NotStarted
    <3>1. /\ ticket' = [ticket EXCEPT ![u] = [@ EXCEPT !.state = "started"]]
          /\ worker' = [worker EXCEPT ![w] =
                          [pc |-> "loaded", ticket |-> u, seen |-> status[ticket[u].job],
                           spared |-> {}]]
      BY <1>1, <2>4 DEF Take, WorkerTo
    <3>2. status[ticket[u].job] \in Status
      BY <1>a, <2>1 DEF Rows, Rq
    <3>3. Rq'
      BY <1>a, <2>1, <3>1 DEF Rq, Ticket, TicketState
    <3>4. \A v \in Workers : worker[v].ticket # u
      BY <1>a, <2>1 DEF Held
    <3>5. worker' \in [Workers -> Worker]
      BY <1>a, <3>1, <3>2 DEF Held, Worker, WorkerPc
    <3>6. /\ ticket'[u].state = "started"
          /\ \A x \in Tickets \ {u} : ticket'[x] = ticket[x]
      BY <1>a, <3>1 DEF Rq, Ticket
    <3>7. Held'
      BY <1>a, <3>1, <3>4, <3>5, <3>6 DEF Held, Busy
    <3> QED
      BY <2>2, <3>3, <3>7
  <2> QED
    BY <2>3, <2>4
<1>2. CASE StartGated(w)
  <2>1. /\ worker[w].pc \in Busy /\ TicketDone(t) /\ UNCHANGED <<dead, request>>
        /\ worker' = [worker EXCEPT ![w] = IdleWorker]
    BY <1>2 DEF StartGated, Busy, WorkerIdle, t
  <2>2. Rows'
    <3>1. j \in Jobs /\ worker[w].seen \in Status /\ "paused" \in Status
      BY <1>a, <2>1, BusyFacts DEF j, t, Status
    <3>2. PICK row \in Status : status' = [status EXCEPT ![j] = row]
      BY <1>a, <1>2, <3>1 DEF StartGated, Rows, Write, Overwrite, j, t
    <3>3. drain' = [drain EXCEPT !.tracked = @ \cup {j}]
      BY <1>2 DEF StartGated, j, t
    <3> QED
      BY <1>a, <2>1, <3>1, <3>2, <3>3 DEF Rows
  <2>3. t \in Tickets
    BY <2>1, BusyFacts DEF t
  <2> QED
    BY <1>a, <2>1, <2>2, <2>3, TicketDoneFacts, HeldReleased, IdleWorkerFacts DEF Calls, t
<1>3. CASE StartRefused(w)
  <2>1. worker[w].pc \in Busy /\ TicketFailed(t) /\ UNCHANGED <<drain, request>>
        /\ worker' = [worker EXCEPT ![w] = IdleWorker]
    BY <1>3 DEF StartRefused, Busy, WorkerIdle, t
  <2>2. t \in Tickets /\ ticket[t].state = "started" /\ dead \subseteq Jobs
    BY <1>a, <2>1, BusyFacts DEF t, Rows
  <2>3. Rq' /\ dead' \subseteq Jobs /\ \A u \in Tickets \ {t} : ticket'[u] = ticket[u]
    BY <1>a, <2>1, <2>2, TicketFailedFacts
  <2>4. Rows'
    BY <1>a, <1>3, <2>1, <2>3 DEF StartRefused, Rows, Write, Status
  <2> QED
    BY <1>a, <2>1, <2>2, <2>3, <2>4, HeldReleased, IdleWorkerFacts DEF Calls, t
<1>4. CASE Start(w)
  <2> DEFINE rec == [pc |-> "crawling", ticket |-> t, seen |-> "running", spared |-> {}]
  <2>1. /\ worker[w].pc \in Busy /\ UNCHANGED <<drain, dead, ticket, request>>
        /\ worker' = [worker EXCEPT ![w] = rec]
    BY <1>4 DEF Start, WorkerTo, Busy, t
  <2>2. Rows'
    BY <1>a, <1>4, <2>1, BusyFacts DEF Start, Rows, Write, Overwrite, Status
  <2>3. rec \in Worker /\ rec.pc \in Busy /\ rec.ticket = worker[w].ticket
    BY <2>1, BusyFacts DEF Worker, WorkerPc, Status, Busy, t
  <2> QED
    BY <1>a, <2>1, <2>2, <2>3, HeldMoved DEF Rq, Calls
<1>5. CASE Check(w)
  <2>1. worker[w].pc \in Busy /\ UNCHANGED <<status, drain, dead, ticket, request>>
    BY <1>5 DEF Check, Busy
  <2>2. PICK pc \in {"pausing", "cancelling", "crawling"} :
          worker' = [worker EXCEPT ![w] =
                       [pc |-> pc, ticket |-> t, seen |-> status[j], spared |-> {}]]
    BY <1>5 DEF Check, WorkerTo, t, j
  <2> DEFINE rec == [pc |-> pc, ticket |-> t, seen |-> status[j], spared |-> {}]
  <2>3. rec \in Worker /\ rec.pc \in Busy /\ rec.ticket = worker[w].ticket
    BY <1>a, <2>1, BusyFacts DEF Rows, Worker, WorkerPc, Busy, t, j
  <2>4. worker' = [worker EXCEPT ![w] = rec]
    BY <2>2
  <2> HIDE DEF rec
  <2> QED
    BY <1>a, <2>1, <2>3, <2>4, HeldMoved DEF Rows, Rq, Calls
<1>6. CASE StopPaused(w)
  <2>1. worker[w].pc \in Busy /\ TicketDone(t) /\ UNCHANGED <<drain, dead, request>>
        /\ worker' = [worker EXCEPT ![w] = IdleWorker]
    BY <1>6 DEF StopPaused, Stop, Busy, WorkerIdle, t
  <2>2. Rows'
    BY <1>a, <1>6, <2>1, BusyFacts DEF StopPaused, Stop, Rows, Write, Overwrite, Status, j, t
  <2>3. t \in Tickets
    BY <2>1, BusyFacts DEF t
  <2> QED
    BY <1>a, <2>1, <2>2, <2>3, TicketDoneFacts, HeldReleased, IdleWorkerFacts DEF Calls, t
<1>7. CASE StopCancelled(w)
  <2>1. worker[w].pc \in Busy /\ TicketDone(t) /\ UNCHANGED <<drain, dead, request>>
        /\ worker' = [worker EXCEPT ![w] = IdleWorker]
    BY <1>7 DEF StopCancelled, Stop, Busy, WorkerIdle, t
  <2>2. Rows'
    BY <1>a, <1>7, <2>1, BusyFacts DEF StopCancelled, Stop, Rows, Write, Overwrite, Status, j, t
  <2>3. t \in Tickets
    BY <2>1, BusyFacts DEF t
  <2> QED
    BY <1>a, <2>1, <2>2, <2>3, TicketDoneFacts, HeldReleased, IdleWorkerFacts DEF Calls, t
<1>8. CASE Finish(w)
  <2>1. worker[w].pc \in Busy /\ TicketDone(t) /\ UNCHANGED <<drain, dead, request>>
        /\ worker' = [worker EXCEPT ![w] = IdleWorker]
    BY <1>8 DEF Finish, Stop, Busy, WorkerIdle, t
  <2>2. Rows'
    BY <1>a, <1>8, <2>1, BusyFacts DEF Finish, Stop, Rows, Write, Overwrite, Status, j, t
  <2>3. t \in Tickets
    BY <2>1, BusyFacts DEF t
  <2> QED
    BY <1>a, <2>1, <2>2, <2>3, TicketDoneFacts, HeldReleased, IdleWorkerFacts DEF Calls, t
<1>9. CASE Fail(w)
  <2>1. worker[w].pc \in Busy /\ TicketFailed(t) /\ UNCHANGED <<drain, request>>
        /\ worker' = [worker EXCEPT ![w] = IdleWorker]
    BY <1>9 DEF Fail, Busy, WorkerIdle, t
  <2>2. t \in Tickets /\ ticket[t].state = "started" /\ dead \subseteq Jobs
    BY <1>a, <2>1, BusyFacts DEF t, Rows
  <2>3. Rq' /\ dead' \subseteq Jobs /\ \A u \in Tickets \ {t} : ticket'[u] = ticket[u]
    BY <1>a, <2>1, <2>2, TicketFailedFacts
  <2>4. Rows'
    BY <1>a, <1>9, <2>1, <2>3 DEF Fail, Rows, Write, Status
  <2> QED
    BY <1>a, <2>1, <2>2, <2>3, <2>4, HeldReleased, IdleWorkerFacts DEF Calls, t
<1>10. CASE Kill(w)
  <2> DEFINE rec == [pc |-> "dead", ticket |-> NoTicket, seen |-> Absent, spared |-> {}]
  <2>1. /\ worker[w].ticket # NoTicket /\ UNCHANGED <<status, drain, dead, request>>
        /\ worker' = [worker EXCEPT ![w] = rec]
        /\ ticket' = [ticket EXCEPT ![t] = [@ EXCEPT !.state = "abandoned"]]
    BY <1>10 DEF Kill, WorkerTo, t
  <2>2. t \in Tickets
    BY <1>a, <2>1 DEF Held, Worker, t
  <2>3. rec \in Worker /\ rec.pc \notin Busy /\ rec.ticket = NoTicket
    BY DEF Worker, WorkerPc, Status, Absent, Busy
  <2>4. Rq' /\ \A u \in Tickets \ {t} : ticket'[u] = ticket[u]
    <3>1. ticket[t].job \in Jobs
      BY <1>a, <2>2 DEF Held, Rq, t
    <3> QED
      BY <1>a, <2>1, <2>2, <3>1 DEF Rq, Ticket, TicketState
  <2> QED
    BY <1>a, <2>1, <2>2, <2>3, <2>4, HeldReleased DEF Rows, Calls, t
<1>11. CASE Restart(w)
  <2>1. worker[w].pc \notin Busy /\ UNCHANGED <<status, drain, dead, ticket, request>>
    BY <1>11 DEF Restart, Busy
  <2>2. PICK stale \in SUBSET {u \in Tickets : ticket[u].state = "abandoned"} :
          worker' = [worker EXCEPT ![w] =
            [pc |-> "recovering", ticket |-> NoTicket, seen |-> Absent,
             spared |-> {ticket[u].job : u \in
               {v \in Tickets : ticket[v].state = "started"} \cup stale}]]
    BY <1>11 DEF Restart
  <2>3. {ticket[u].job : u \in {v \in Tickets : ticket[v].state = "started"} \cup stale}
          \subseteq Jobs
    BY <1>a DEF Rq
  <2>4. worker[w].ticket = NoTicket
    BY <1>a, <2>1 DEF Held, Worker
  <2>5. PICK rec \in Worker : /\ rec.pc = "recovering" /\ rec.ticket = NoTicket
                              /\ worker' = [worker EXCEPT ![w] = rec]
    BY <2>2, <2>3 DEF Worker, WorkerPc, Status, Absent
  <2>6. rec.pc \notin Busy
    BY <2>5 DEF Busy
  <2> QED
    BY <1>a, <2>1, <2>4, <2>5, <2>6, HeldMoved DEF Rows, Rq, Calls
<1>12. CASE Recover(w)
  <2>1. worker[w].pc \notin Busy /\ UNCHANGED <<drain, dead, ticket, request>>
        /\ worker' = [worker EXCEPT ![w] = IdleWorker]
    BY <1>12 DEF Recover, WorkerIdle, Busy
  <2>2. Rows'
    BY <1>a, <1>12, <2>1 DEF Recover, Rows, Status, UnsafeStatuses
  <2>3. worker[w].ticket = NoTicket
    BY <1>a, <2>1 DEF Held, Worker
  <2> QED
    BY <1>a, <2>1, <2>2, <2>3, HeldMoved, IdleWorkerFacts DEF Rq, Calls
<1> QED
  BY <1>1, <1>2, <1>3, <1>4, <1>5, <1>6, <1>7, <1>8, <1>9, <1>10, <1>11, <1>12
  DEF WorkerStep

LEMMA RqKeepsInv ==
    ASSUME Inv, RqStep
    PROVE  Inv'
<1>1. ASSUME NEW t \in Tickets, Promote(t) PROVE Inv'
  <2>1. Rq' /\ \A u \in Tickets : ticket[u].state = "started" => ticket'[u] = ticket[u]
    BY <1>1 DEF Promote, Inv, Rq, Ticket, TicketState
  <2> QED
    BY <1>1, <2>1, HeldKept DEF Promote, Inv, Rows, Calls
<1>2. ASSUME NEW t \in Tickets, CleanAbandoned(t) PROVE Inv'
  <2>1. ticket[t].state = "abandoned" /\ TicketFailed(t)
        /\ UNCHANGED <<status, drain, worker, request>>
    BY <1>2 DEF CleanAbandoned
  <2>2. Rq' /\ dead' \subseteq Jobs /\ \A u \in Tickets \ {t} : ticket'[u] = ticket[u]
    BY <2>1, TicketFailedFacts DEF Inv, Rows
  <2> QED
    BY <2>1, <2>2, HeldKept DEF Inv, Rows, Calls
<1> QED
  BY <1>1, <1>2 DEF RqStep

\* The record of a call that is about one job.
LEMMA CallFacts ==
    ASSUME Calls, NEW r \in Requests, NEW pc \in RequestPc,
           NEW k \in Jobs \cup {NoJob}, NEW seen \in [Jobs -> Status],
           pc \in HasJob => k \in Jobs, Call(r, pc, k, seen)
    PROVE  Calls'
<1> DEFINE rec == [pc |-> pc, job |-> k, seen |-> seen, rest |-> {}]
<1>1. rec \in Request /\ (rec.pc \in HasJob => rec.job \in Jobs)
  BY DEF Request
<1>2. request' = [request EXCEPT ![r] = rec]
  BY DEF Call
<1> QED
  BY <1>1, <1>2, CallsStep

LEMMA ReturnFacts ==
    ASSUME Calls, NEW r \in Requests, Return(r)
    PROVE  Calls'
BY CallsStep, IdleRequestFacts DEF Return

LEMMA SeenFacts ==
    ASSUME Rows
    PROVE  /\ NothingSeen \in [Jobs -> Status]
           /\ \A j \in Jobs : SeenOnly(j) \in [Jobs -> Status]
BY DEF Rows, NothingSeen, SeenOnly, Status, Absent

LEMMA RequestKeepsInv ==
    ASSUME Inv, NEW r \in Requests, RequestStep(r)
    PROVE  Inv'
<1> DEFINE k == request[r].job
<1> HIDE DEF k
<1> SUFFICES Rows' /\ Rq' /\ Held' /\ Calls'
  BY DEF Inv
<1>a. Rows /\ Rq /\ Held /\ Calls
  BY DEF Inv
<1>b. UNCHANGED <<ticket, worker>> => Rq' /\ Held'
  BY <1>a DEF Rq, Held
<1>c. request[r].pc \in HasJob => k \in Jobs
  BY <1>a DEF Calls, k
<1>1. ASSUME NEW n \in Jobs, CreateCheck(r, n) PROVE Rows' /\ Rq' /\ Held' /\ Calls'
  <2>1. /\ UNCHANGED <<status, drain, dead, ticket, worker>>
        /\ Call(r, "insert", n, NothingSeen)
    BY <1>1 DEF CreateCheck
  <2>2. Calls'
    BY <1>a, <2>1, CallFacts, SeenFacts DEF RequestPc, HasJob
  <2> QED
    BY <1>a, <1>b, <2>1, <2>2 DEF Rows
<1>2. ASSUME NEW n \in Jobs, PauseRead(r, n) PROVE Rows' /\ Rq' /\ Held' /\ Calls'
  <2>1. /\ UNCHANGED <<status, drain, dead, ticket, worker>>
        /\ Call(r, "pause", n, NothingSeen)
    BY <1>2 DEF PauseRead
  <2>2. Calls'
    BY <1>a, <2>1, CallFacts, SeenFacts DEF RequestPc, HasJob
  <2> QED
    BY <1>a, <1>b, <2>1, <2>2 DEF Rows
<1>3. ASSUME NEW n \in Jobs, CancelRead(r, n) PROVE Rows' /\ Rq' /\ Held' /\ Calls'
  <2>1. /\ UNCHANGED <<status, drain, dead, ticket, worker>>
        /\ Call(r, "cancel", n, SeenOnly(n))
    BY <1>3 DEF CancelRead
  <2>2. Calls'
    BY <1>a, <2>1, CallFacts, SeenFacts DEF RequestPc, HasJob
  <2> QED
    BY <1>a, <1>b, <2>1, <2>2 DEF Rows
<1>4. ASSUME NEW n \in Jobs, ResumeRead(r, n) PROVE Rows' /\ Rq' /\ Held' /\ Calls'
  <2>1. /\ UNCHANGED <<status, drain, dead, ticket, worker>>
        /\ Call(r, "resume", n, NothingSeen)
    BY <1>4 DEF ResumeRead
  <2>2. Calls'
    BY <1>a, <2>1, CallFacts, SeenFacts DEF RequestPc, HasJob
  <2> QED
    BY <1>a, <1>b, <2>1, <2>2 DEF Rows
<1>5. ASSUME NEW n \in Jobs, Requeue(r, n) PROVE Rows' /\ Rq' /\ Held' /\ Calls'
  <2>1. /\ UNCHANGED <<status, drain, dead, worker>> /\ Enqueue(n)
        /\ Call(r, "requeue", n, SeenOnly(n))
    BY <1>5 DEF Requeue
  <2>2. Calls'
    BY <1>a, <2>1, CallFacts, SeenFacts DEF RequestPc, HasJob
  <2> QED
    BY <1>a, <2>1, <2>2, EnqueueFacts, HeldKept DEF Rows
<1>6. CASE Insert(r)
  <2>1. /\ k \in Jobs /\ UNCHANGED <<drain, dead, ticket, worker>> /\ Write(k, "pending")
        /\ Call(r, "enqueue", k, NothingSeen)
    BY <1>c, <1>6 DEF Insert, HasJob, k
  <2>2. Calls'
    BY <1>a, <2>1, CallFacts, SeenFacts DEF RequestPc, HasJob
  <2> QED
    BY <1>a, <1>b, <2>1, <2>2 DEF Rows, Write, Status
<1>7. CASE EnqueueCall(r)
  <2>1. k \in Jobs /\ UNCHANGED <<status, drain, dead, worker>>
    BY <1>c, <1>7 DEF EnqueueCall, HasJob, k
  <2>2. CASE HasCapacity
    <3>1. Enqueue(k) /\ Return(r)
      BY <1>7, <2>2 DEF EnqueueCall, k
    <3> QED
      BY <1>a, <2>1, <3>1, EnqueueFacts, HeldKept, ReturnFacts DEF Rows
  <2>3. CASE ~HasCapacity
    <3>1. Call(r, "full", k, NothingSeen) /\ UNCHANGED ticket
      BY <1>7, <2>3 DEF EnqueueCall, k
    <3>2. Calls'
      BY <1>a, <2>1, <3>1, CallFacts, SeenFacts DEF RequestPc, HasJob
    <3> QED
      BY <1>a, <1>b, <2>1, <3>1, <3>2 DEF Rows
  <2> QED
    BY <2>2, <2>3
<1>8. CASE WriteWaiting(r)
  <2>1. k \in Jobs /\ UNCHANGED <<drain, ticket, worker>> /\ Return(r)
    BY <1>c, <1>8 DEF WriteWaiting, HasJob, k
  <2>2. Rows'
    BY <1>a, <1>8, <2>1 DEF WriteWaiting, Rows, Write, Status
  <2> QED
    BY <1>a, <1>b, <2>1, <2>2, ReturnFacts
<1>9. CASE PauseWrite(r)
  <2>1. k \in Jobs /\ UNCHANGED <<drain, ticket, worker>> /\ Return(r)
    BY <1>c, <1>9 DEF PauseWrite, HasJob, k
  <2>2. Rows'
    BY <1>a, <1>9, <2>1 DEF PauseWrite, Rows, Write, Status
  <2> QED
    BY <1>a, <1>b, <2>1, <2>2, ReturnFacts
<1>10. CASE CancelWrite(r)
  <2>1. k \in Jobs /\ UNCHANGED <<drain, ticket, worker>> /\ Return(r)
    BY <1>c, <1>10 DEF CancelWrite, HasJob, k
  <2>2. Rows'
    BY <1>a, <1>10, <2>1 DEF CancelWrite, Rows, Write, Status
  <2> QED
    BY <1>a, <1>b, <2>1, <2>2, ReturnFacts
<1>11. CASE ResumeWrite(r)
  <2>1. k \in Jobs /\ UNCHANGED <<drain, dead, ticket, worker>>
    BY <1>c, <1>11 DEF ResumeWrite, HasJob, k
  <2>2. CASE Write(k, "pending") /\ Call(r, "enqueue", k, NothingSeen)
    <3>1. Calls'
      BY <1>a, <2>1, <2>2, CallFacts, SeenFacts DEF RequestPc, HasJob
    <3> QED
      BY <1>a, <1>b, <2>1, <2>2, <3>1 DEF Rows, Write, Status
  <2>3. CASE Return(r) /\ UNCHANGED status
    BY <1>a, <1>b, <2>1, <2>3, ReturnFacts DEF Rows
  <2> QED
    BY <1>11, <2>2, <2>3 DEF ResumeWrite, k
<1>12. CASE DispatchCheck(r)
  <2>1. /\ UNCHANGED <<status, drain, dead, ticket, worker>>
        /\ Call(r, "dispatch", NoJob, NothingSeen)
    BY <1>12 DEF DispatchCheck
  <2>2. Calls'
    BY <1>a, <2>1, CallFacts, SeenFacts DEF RequestPc, HasJob
  <2> QED
    BY <1>a, <1>b, <2>1, <2>2 DEF Rows
<1>13. CASE Dispatch(r)
  <2>1. UNCHANGED <<drain, dead, worker>> /\ Return(r)
    BY <1>13 DEF Dispatch
  <2>2. ASSUME NEW n \in Jobs, Enqueue(n), Write(n, "pending")
        PROVE  Rows' /\ Rq' /\ Held' /\ Calls'
    BY <1>a, <2>1, <2>2, EnqueueFacts, HeldKept, ReturnFacts DEF Rows, Write, Status
  <2>3. CASE UNCHANGED <<status, ticket>>
    BY <1>a, <1>b, <2>1, <2>3, ReturnFacts DEF Rows
  <2> QED
    BY <1>13, <2>2, <2>3 DEF Dispatch
<1>14. CASE RequeueWrite(r)
  <2>1. k \in Jobs /\ UNCHANGED <<drain, ticket, worker>> /\ Return(r)
    BY <1>c, <1>14 DEF RequeueWrite, HasJob, k
  <2>2. Rows'
    BY <1>a, <1>14, <2>1 DEF RequeueWrite, Rows, Write, Status, Overwrite
  <2> QED
    BY <1>a, <1>b, <2>1, <2>2, ReturnFacts
<1>15. CASE Lose(r)
  <2>1. UNCHANGED <<status, drain, dead, ticket, worker>> /\ Return(r)
    BY <1>15 DEF Lose
  <2> QED
    BY <1>a, <1>b, <2>1, ReturnFacts DEF Rows
<1>16. CASE Activate(r)
  <2>1. UNCHANGED <<status, dead, ticket, worker>>
    BY <1>16 DEF Activate
  <2>2. CASE drain.active
    <3> DEFINE rec == [pc |-> "drain", job |-> NoJob, seen |-> status, rest |-> drain.tracked]
    <3>1. request' = [request EXCEPT ![r] = rec] /\ UNCHANGED drain
      BY <1>16, <2>2 DEF Activate
    <3>2. rec \in Request /\ rec.pc \notin HasJob
      BY <1>a DEF Rows, Request, RequestPc, HasJob
    <3> HIDE DEF rec
    <3> QED
      BY <1>a, <1>b, <2>1, <3>1, <3>2, CallsStep DEF Rows
  <2>3. CASE ~drain.active
    <3>1. /\ drain' = [active |-> TRUE, tracked |-> {}]
          /\ Call(r, "activated", NoJob, NothingSeen)
      BY <1>16, <2>3 DEF Activate
    <3>2. Calls'
      BY <1>a, <3>1, CallFacts, SeenFacts DEF RequestPc, HasJob
    <3> QED
      BY <1>a, <1>b, <2>1, <3>1, <3>2 DEF Rows
  <2> QED
    BY <2>2, <2>3
<1>17. CASE DrainRead(r)
  <2> DEFINE rec == [request[r] EXCEPT !.pc = "drain", !.seen = status]
  <2>1. UNCHANGED <<status, drain, dead, ticket, worker>>
    BY <1>17 DEF DrainRead
  <2>2. request' = [request EXCEPT ![r] = rec]
    BY <1>17 DEF DrainRead
  <2>3. rec \in Request /\ rec.pc \notin HasJob
    BY <1>a DEF Rows, Calls, Request, RequestPc, HasJob
  <2> HIDE DEF rec
  <2> QED
    BY <1>a, <1>b, <2>1, <2>2, <2>3, CallsStep DEF Rows
<1>18. CASE DrainWrite(r)
  <2>1. UNCHANGED <<dead, ticket, worker>> /\ Return(r)
    BY <1>18 DEF DrainWrite
  <2>2. request[r].rest \subseteq Jobs
    BY <1>a DEF Calls, Request
  <2>3. Rows'
    BY <1>a, <1>18, <2>1, <2>2 DEF DrainWrite, Rows, Status
  <2> QED
    BY <1>a, <1>b, <2>1, <2>3, ReturnFacts
<1>19. CASE FinishRead(r)
  <2>1. /\ UNCHANGED <<status, drain, dead, ticket, worker>>
        /\ Call(r, "finish", NoJob, status)
    BY <1>19 DEF FinishRead
  <2>2. status \in [Jobs -> Status]
    BY <1>a DEF Rows
  <2>3. Calls'
    BY <1>a, <2>1, <2>2, CallFacts DEF RequestPc, HasJob
  <2> QED
    BY <1>a, <1>b, <2>1, <2>3 DEF Rows
<1>20. CASE FinishWrite(r)
  <2> DEFINE resumed == {n \in drain.tracked : request[r].seen[n] = "paused"}
             rec == [pc |-> "release", job |-> NoJob, seen |-> NothingSeen,
                     rest |-> resumed]
  <2>1. UNCHANGED <<dead, ticket, worker>>
    BY <1>20 DEF FinishWrite
  <2>2. request' = [request EXCEPT ![r] = rec]
    BY <1>20 DEF FinishWrite
  <2>3. rec \in Request /\ rec.pc \notin HasJob
    BY <1>a, SeenFacts DEF Rows, Request, RequestPc, HasJob
  <2>4. Rows'
    BY <1>a, <1>20 DEF FinishWrite, Rows, Status
  <2> HIDE DEF rec
  <2> QED
    BY <1>a, <1>b, <2>1, <2>2, <2>3, <2>4, CallsStep
<1>21. CASE Release(r)
  <2>1. UNCHANGED <<status, drain, dead, worker>> /\ request[r].pc = "release"
    BY <1>21 DEF Release
  <2>2. CASE request[r].rest = {} /\ Return(r) /\ UNCHANGED ticket
    BY <1>a, <1>b, <2>1, <2>2, ReturnFacts DEF Rows
  <2>3. ASSUME NEW n \in request[r].rest,
               IF HasCapacity THEN Enqueue(n) ELSE UNCHANGED ticket,
               request' = [request EXCEPT ![r].rest = @ \ {n}]
        PROVE  Rows' /\ Rq' /\ Held' /\ Calls'
    <3> DEFINE rec == [request[r] EXCEPT !.rest = @ \ {n}]
    <3>1. n \in Jobs
      BY <1>a DEF Calls, Request
    <3>2. rec \in Request /\ rec.pc \notin HasJob
      BY <1>a, <2>1 DEF Calls, Request, HasJob
    <3>3. request' = [request EXCEPT ![r] = rec]
      BY <2>3
    <3> HIDE DEF rec
    <3>4. Calls'
      BY <1>a, <3>2, <3>3, CallsStep
    <3> QED
      BY <1>a, <1>b, <2>1, <2>3, <3>1, <3>4, EnqueueFacts, HeldKept DEF Rows
  <2> QED
    BY <1>21, <2>2, <2>3 DEF Release
<1> QED
  BY <1>1, <1>2, <1>3, <1>4, <1>5, <1>6, <1>7, <1>8, <1>9, <1>10, <1>11, <1>12, <1>13, <1>14, <1>15, <1>16, <1>17, <1>18, <1>19, <1>20, <1>21
  DEF RequestStep

LEMMA InitInv == Init => Inv
BY ConstantsAssumption, IdleWorkerFacts, IdleRequestFacts
DEF Init, Inv, Rows, Rq, Held, Calls, NothingSeen, Status, Absent, Ticket, TicketState,
    FreeTicket

LEMMA NextKeepsInv ==
    ASSUME Inv, [Next]_vars
    PROVE  Inv'
<1>1. CASE \E w \in Workers : WorkerStep(w)
  BY <1>1, WorkerKeepsInv
<1>2. CASE RqStep
  BY <1>2, RqKeepsInv
<1>3. CASE \E r \in Requests : RequestStep(r)
  BY <1>3, RequestKeepsInv
<1>4. CASE \E j \in Jobs : Resolve(j)
  BY <1>4 DEF Resolve, Inv, Rows, Rq, Held, Calls
<1>5. CASE UNCHANGED vars
  BY <1>5 DEF vars, Inv, Rows, Rq, Held, Calls
<1> QED
  BY <1>1, <1>2, <1>3, <1>4, <1>5 DEF Next

THEOREM InvHolds == Spec => []Inv
<1>1. Init => Inv
  BY InitInv
<1>2. Inv /\ [Next]_vars => Inv'
  BY NextKeepsInv
<1> QED
  BY <1>1, <1>2, PTL DEF Spec

\* Every reachable state of the control plane is typed.
THEOREM TypeCorrect == Spec => []TypeOK
BY InvHolds, InvTyped, PTL

-----------------------------------------------------------------------------
(***************************************************************************)
(* Who makes a job running.                                                *)
(***************************************************************************)

\* API, scheduler and drain never make a job running, and leave the workers
\* and their tickets alone.
LEMMA RequestFrame ==
    ASSUME Inv, NEW r \in Requests, RequestStep(r)
    PROVE  /\ UNCHANGED worker
           /\ \A t \in Tickets : ticket[t].state = "started" => ticket'[t] = ticket[t]
           /\ \A j \in Jobs : status'[j] = "running" => status[j] = "running"
<1> USE DEF Write
<1>a. status \in [Jobs -> Status] /\ Rq
  BY DEF Inv, Rows
<1>b. ASSUME NEW n \in Jobs \cup {NoJob}, Enqueue(n)
      PROVE  \A t \in Tickets : ticket[t].state = "started" => ticket'[t] = ticket[t]
  BY <1>a, <1>b DEF Enqueue, Rq
<1>1. CASE \E n \in Jobs : CreateCheck(r, n) \/ PauseRead(r, n) \/ CancelRead(r, n)
                          \/ ResumeRead(r, n)
  BY <1>1 DEF CreateCheck, PauseRead, CancelRead, ResumeRead
<1>2. CASE \E n \in Jobs : Requeue(r, n)
  BY <1>b, <1>2 DEF Requeue
<1>3. CASE Insert(r) \/ WriteWaiting(r) \/ PauseWrite(r) \/ CancelWrite(r) \/ ResumeWrite(r)
  BY <1>a, <1>3 DEF Insert, WriteWaiting, PauseWrite, CancelWrite, ResumeWrite
<1>4. CASE EnqueueCall(r)
  <2>1. request[r].job \in Jobs
    BY <1>4 DEF EnqueueCall, Inv, Calls, HasJob
  <2> QED
    BY <1>b, <1>4, <2>1 DEF EnqueueCall
<1>5. CASE Dispatch(r)
  BY <1>a, <1>b, <1>5 DEF Dispatch
<1>6. CASE RequeueWrite(r)
  BY <1>a, <1>6 DEF RequeueWrite, Overwrite
<1>7. CASE DispatchCheck(r) \/ Lose(r) \/ Activate(r) \/ DrainRead(r) \/ FinishRead(r)
  BY <1>7 DEF DispatchCheck, Lose, Activate, DrainRead, FinishRead
<1>8. CASE DrainWrite(r)
  BY <1>a, <1>8 DEF DrainWrite
<1>9. CASE FinishWrite(r)
  BY <1>a, <1>9 DEF FinishWrite
<1>10. CASE Release(r)
  <2>1. request[r].rest \subseteq Jobs
    BY DEF Inv, Calls, Request
  <2> QED
    BY <1>b, <1>10, <2>1 DEF Release
<1> QED
  BY <1>1, <1>2, <1>3, <1>4, <1>5, <1>6, <1>7, <1>8, <1>9, <1>10 DEF RequestStep

\* Of a worker's steps only Start does.
LEMMA WorkerFrame ==
    ASSUME Inv, NEW w \in Workers, WorkerStep(w)
    PROVE  Start(w) \/ \A j \in Jobs : status'[j] = "running" => status[j] = "running"
<1>a. status \in [Jobs -> Status]
  BY DEF Inv, Rows
<1>1. CASE (\E t \in Tickets : Take(w, t)) \/ StartRefused(w) \/ Check(w) \/ Kill(w)
           \/ Restart(w)
  BY <1>1 DEF Take, StartRefused, Check, Kill, Restart
<1>2. CASE StartGated(w)
  BY <1>a, <1>2 DEF StartGated, Write, Overwrite
<1>3. CASE StopPaused(w) \/ StopCancelled(w) \/ Finish(w)
  BY <1>a, <1>3 DEF StopPaused, StopCancelled, Finish, Stop, Write, Overwrite
<1>4. CASE Fail(w)
  BY <1>a, <1>4 DEF Fail, Write
<1>5. CASE Recover(w)
  BY <1>a, <1>5 DEF Recover
<1> QED
  BY <1>1, <1>2, <1>3, <1>4, <1>5 DEF WorkerStep

\* At most one job of a website shows running, whatever the users, the drain,
\* crashes and duplicate tickets do.
THEOREM OneRunning == Spec => []OneRunningPerSite
<1>1. Init => OneRunningPerSite
  BY DEF Init, OneRunningPerSite, NothingSeen, Absent
<1>2. Inv /\ OneRunningPerSite /\ [Next]_vars => OneRunningPerSite'
  <2> SUFFICES ASSUME Inv, OneRunningPerSite, [Next]_vars PROVE OneRunningPerSite'
    OBVIOUS
  <2>1. ASSUME \A j \in Jobs : status'[j] = "running" => status[j] = "running"
        PROVE  OneRunningPerSite'
    BY <2>1 DEF OneRunningPerSite
  <2>2. ASSUME NEW w \in Workers, Start(w) PROVE OneRunningPerSite'
    <3> DEFINE j == ticket[worker[w].ticket].job
    <3>1. status' = [status EXCEPT ![j] = Overwrite(status[j], worker[w].seen, "running")]
          /\ ~OtherRunning(j)
      BY <2>2 DEF Start, Write
    <3>2. j \in Jobs /\ status \in [Jobs -> Status]
      BY <2>2, BusyFacts DEF Start, Busy, Inv, Rows
    <3> QED
      BY <3>1, <3>2 DEF OneRunningPerSite, OtherRunning
  <2>3. CASE \E w \in Workers : WorkerStep(w)
    BY <2>1, <2>2, <2>3, WorkerFrame
  <2>4. CASE RqStep
    BY <2>1, <2>4 DEF RqStep, Promote, CleanAbandoned
  <2>5. CASE \E r \in Requests : RequestStep(r)
    BY <2>1, <2>5, RequestFrame
  <2>6. CASE (\E j \in Jobs : Resolve(j)) \/ UNCHANGED vars
    BY <2>1, <2>6 DEF Resolve, vars
  <2> QED
    BY <2>3, <2>4, <2>5, <2>6 DEF Next
<1> QED
  BY <1>1, <1>2, InvHolds, PTL DEF Spec

\* No worker begins to crawl under an active drain: the gate is asked under
\* the lock that the drain holds while it lists the jobs.
THEOREM DrainGate == Spec => DrainAdmitsNone
<1> DEFINE NoneBegins == drain.active =>
             \A w \in Workers : worker'[w].pc = "crawling" => worker[w].pc = "crawling"
<1>1. Inv /\ [Next]_vars => [NoneBegins]_vars
  <2> SUFFICES ASSUME Inv, [Next]_vars, drain.active, NEW v \in Workers,
                      worker'[v].pc = "crawling"
               PROVE  worker[v].pc = "crawling"
    OBVIOUS
  <2>a. worker \in [Workers -> Worker]
    BY DEF Inv, Held
  <2>1. ASSUME NEW w \in Workers, WorkerStep(w) PROVE worker[v].pc = "crawling"
    <3>1. ASSUME NEW t \in Tickets, Take(w, t) PROVE worker[v].pc = "crawling"
      BY <2>a, <3>1 DEF Take, WorkerTo
    <3>2. CASE StartGated(w) \/ StartRefused(w) \/ Fail(w) \/ Recover(w)
      BY <2>a, <3>2 DEF StartGated, StartRefused, Fail, Recover, WorkerIdle, IdleWorker
    <3>3. CASE Start(w)
      BY <3>3 DEF Start
    <3>4. CASE Check(w)
      <4>1. PICK rec : worker' = [worker EXCEPT ![w] = rec] /\ worker[w].pc = "crawling"
        BY <3>4 DEF Check, WorkerTo
      <4> QED
        BY <2>a, <4>1
    <3>5. CASE StopPaused(w) \/ StopCancelled(w) \/ Finish(w)
      BY <2>a, <3>5 DEF StopPaused, StopCancelled, Finish, Stop, WorkerIdle, IdleWorker
    <3>6. CASE Kill(w)
      BY <2>a, <3>6 DEF Kill, WorkerTo
    <3>7. CASE Restart(w)
      BY <2>a, <3>7 DEF Restart
    <3> QED
      BY <2>1, <3>1, <3>2, <3>3, <3>4, <3>5, <3>6, <3>7 DEF WorkerStep
  <2>2. CASE RqStep \/ (\E j \in Jobs : Resolve(j)) \/ UNCHANGED vars
    BY <2>2 DEF RqStep, Promote, CleanAbandoned, Resolve, vars
  <2>3. CASE \E r \in Requests : RequestStep(r)
    BY <2>3, RequestFrame
  <2> QED
    BY <2>1, <2>2, <2>3 DEF Next
<1> QED
  BY <1>1, InvHolds, PTL DEF Spec, DrainAdmitsNone

-----------------------------------------------------------------------------
(***************************************************************************)
(* One holder per job.  Without a drain, a resume or a requeued dead       *)
(* letter, a job that is on its way has one holder: the call that creates  *)
(* it, and then its ticket.  Nobody else enqueues it, so that two workers  *)
(* never get it; and a worker, a handler that stops it, a crash and a      *)
(* restart never make it pending again, so that a pending job keeps its    *)
(* holder until it becomes a dead letter.                                  *)
(***************************************************************************)
Alive(t) == ticket[t].state # "free"

Makes(r, j) == request[r].pc \in {"insert", "enqueue", "full"} /\ request[r].job = j

OneHolder ==
    /\ \A t, u \in Tickets : Alive(t) /\ Alive(u) /\ ticket[t].job = ticket[u].job => t = u
    /\ \A r, q \in Requests, j \in Jobs : Makes(r, j) /\ Makes(q, j) => r = q
    /\ \A t \in Tickets, r \in Requests : Alive(t) => ~Makes(r, ticket[t].job)
    /\ \A t \in Tickets : Alive(t) => status[ticket[t].job] \notin {Absent, "waiting_for_capacity"}

\* Which calls are in flight, and what the row of their job may show.
CallsOrdinary ==
    \A r \in Requests :
        /\ request[r].pc \in {"idle", "insert", "enqueue", "full", "pause", "cancel", "dispatch"}
        /\ request[r].pc = "insert" => status[request[r].job] = Absent
        /\ request[r].pc \in {"enqueue", "full", "pause", "cancel"}
             => status[request[r].job] # Absent
        /\ request[r].pc \in {"enqueue", "full"}
             => status[request[r].job] # "waiting_for_capacity"

HolderInv == Inv /\ OneHolder /\ CallsOrdinary

\* A step that enqueues nothing and creates nothing.
LEMMA NoNewHolder ==
    ASSUME HolderInv, Inv',
           \A t \in Tickets : Alive(t)' => Alive(t) /\ ticket'[t].job = ticket[t].job,
           \A q \in Requests :
              \/ request'[q] = request[q]
              \/ request'[q].pc \in {"idle", "dispatch"}
              \/ request'[q].pc \in {"pause", "cancel"} /\ status[request'[q].job] # Absent
              \/ request'[q].pc = "full" /\ request[q].pc = "enqueue"
                 /\ request'[q].job = request[q].job,
           \A j \in Jobs : status'[j] = Absent <=> status[j] = Absent,
           \A j \in Jobs : status'[j] = "waiting_for_capacity" => status[j] = "waiting_for_capacity"
    PROVE  HolderInv'
<1>1. \A t \in Tickets : Alive(t) => ticket[t].job \in Jobs
  BY DEF HolderInv, Inv, Rq, Alive
<1>2. \A r \in Requests, j \in Jobs : Makes(r, j)' => Makes(r, j)
  BY DEF Makes
<1>3. OneHolder'
  BY <1>1, <1>2 DEF HolderInv, OneHolder
<1>4. CallsOrdinary'
  <2> SUFFICES ASSUME NEW r \in Requests
      PROVE  /\ request'[r].pc \in {"idle", "insert", "enqueue", "full", "pause", "cancel", "dispatch"}
             /\ request'[r].pc = "insert" => status'[request'[r].job] = Absent
             /\ request'[r].pc \in {"enqueue", "full", "pause", "cancel"}
                  => status'[request'[r].job] # Absent
             /\ request'[r].pc \in {"enqueue", "full"}
                  => status'[request'[r].job] # "waiting_for_capacity"
    BY DEF CallsOrdinary
  <2>1. request'[r].pc \in HasJob => request'[r].job \in Jobs
    BY DEF Inv, Calls
  <2> QED
    BY <2>1 DEF HolderInv, CallsOrdinary, HasJob
<1> QED
  BY <1>3, <1>4 DEF HolderInv

\* What a worker's step leaves of the holders and of the rows.
LEMMA WorkerHolders ==
    ASSUME HolderInv, NEW w \in Workers, WorkerStep(w)
    PROVE  /\ UNCHANGED request /\ dead \subseteq dead'
           /\ \A t \in Tickets : Alive(t)' => Alive(t) /\ ticket'[t].job = ticket[t].job
           /\ \A j \in Jobs : status'[j] = Absent <=> status[j] = Absent
           /\ \A j \in Jobs : status'[j] \in {"waiting_for_capacity", "pending"}
                              => status'[j] = status[j]
<1> DEFINE t == worker[w].ticket
           j == ticket[t].job
           Kept == /\ UNCHANGED request /\ dead \subseteq dead'
                   /\ \A u \in Tickets : Alive(u)' => Alive(u) /\ ticket'[u].job = ticket[u].job
                   /\ \A k \in Jobs : status'[k] = Absent <=> status[k] = Absent
                   /\ \A k \in Jobs : status'[k] \in {"waiting_for_capacity", "pending"}
                                      => status'[k] = status[k]
<1> SUFFICES Kept
  OBVIOUS
<1>a. status \in [Jobs -> Status] /\ ticket \in [Tickets -> Ticket] /\ Inv
  BY DEF HolderInv, Inv, Rows, Rq
<1>b. worker[w].pc \in Busy => t \in Tickets /\ Alive(t) /\ j \in Jobs /\ status[j] # Absent
  BY BusyFacts DEF HolderInv, OneHolder, Alive
<1>c. ASSUME NEW final \in {"paused", "running", "cancelled", "succeeded", "failed"},
             worker[w].pc \in Busy,
             UNCHANGED request, dead \subseteq dead',
             \/ \E row \in {final, status[j]} : status' = [status EXCEPT ![j] = row]
             \/ UNCHANGED status,
             \/ UNCHANGED ticket
             \/ TicketDone(t)
             \/ TicketFailed(t)
      PROVE  Kept
  <2>1. \A u \in Tickets : Alive(u)' => Alive(u) /\ ticket'[u].job = ticket[u].job
    <3>1. /\ \A u \in Tickets \ {t} : ticket'[u] = ticket[u]
          /\ ticket'[t].state = "free" \/ ticket'[t].job = ticket[t].job
      <4>1. t \in Tickets
        BY <1>b, <1>c
      <4>2. CASE UNCHANGED ticket
        BY <4>2
      <4>3. CASE TicketDone(t)
        BY <1>a, <4>1, <4>3 DEF TicketDone, FreeTicket
      <4>4. CASE TicketFailed(t) /\ ticket[t].left > 0
        BY <1>a, <4>1, <4>4 DEF TicketFailed, Ticket
      <4>5. CASE TicketFailed(t) /\ ~(ticket[t].left > 0)
        BY <1>a, <4>1, <4>5 DEF TicketFailed, TicketDone, FreeTicket
      <4> QED
        BY <1>c, <4>2, <4>3, <4>4, <4>5
    <3>2. Alive(t) /\ t \in Tickets
      BY <1>b, <1>c
    <3>3. ASSUME NEW u \in Tickets, Alive(u)'
          PROVE  Alive(u) /\ ticket'[u].job = ticket[u].job
      <4>1. CASE u = t
        BY <3>1, <3>2, <3>3, <4>1 DEF Alive
      <4>2. CASE u # t
        BY <3>1, <3>3, <4>2 DEF Alive
      <4> QED
        BY <4>1, <4>2
    <3> QED
      BY <3>3
  <2>2. \A k \in Jobs : (status'[k] = Absent <=> status[k] = Absent)
                        /\ (status'[k] \in {"waiting_for_capacity", "pending"} => status'[k] = status[k])
    BY <1>a, <1>b, <1>c DEF Absent
  <2> QED
    BY <1>c, <2>1, <2>2
<1> HIDE DEF t, j
<1>1. ASSUME NEW u \in Tickets, Take(w, u) PROVE Kept
  BY <1>a, <1>1 DEF Take, TicketDone, FreeTicket, Alive, Ticket
<1>2. CASE StartGated(w)
  BY <1>c, <1>2 DEF StartGated, Write, Overwrite, Busy, t, j
<1>3. CASE StartRefused(w)
  <2>1. dead \subseteq dead' /\ TicketFailed(t) /\ UNCHANGED <<status, request>>
    BY <1>3 DEF StartRefused, TicketFailed, t
  <2> QED
    BY <1>c, <1>3, <2>1 DEF StartRefused, Busy
<1>4. CASE Start(w)
  BY <1>c, <1>4 DEF Start, Write, Overwrite, Busy, t, j
<1>5. CASE Check(w)
  BY <1>5 DEF Check, Alive
<1>6. CASE StopPaused(w) \/ StopCancelled(w) \/ Finish(w)
  BY <1>c, <1>6 DEF StopPaused, StopCancelled, Finish, Stop, Write, Overwrite, Busy, t, j
<1>7. CASE Fail(w)
  <2>1. dead \subseteq dead' /\ TicketFailed(t) /\ UNCHANGED request
        /\ status' = [status EXCEPT ![j] = "failed"]
    BY <1>7 DEF Fail, TicketFailed, Write, t, j
  <2> QED
    BY <1>c, <1>7, <2>1 DEF Fail, Busy
<1>8. CASE Kill(w)
  BY <1>a, <1>8 DEF Kill, Alive, Ticket, HolderInv, Inv, Held, Worker
<1>9. CASE Restart(w)
  BY <1>9 DEF Restart, Alive
<1>10. CASE Recover(w)
  BY <1>a, <1>10 DEF Recover, Alive, UnsafeStatuses, Absent
<1> QED
  BY <1>1, <1>2, <1>3, <1>4, <1>5, <1>6, <1>7, <1>8, <1>9, <1>10 DEF WorkerStep

LEMMA RqHolders ==
    ASSUME HolderInv, RqStep
    PROVE  /\ UNCHANGED <<request, status, worker>> /\ dead \subseteq dead'
           /\ \A t \in Tickets : Alive(t)' => Alive(t) /\ ticket'[t].job = ticket[t].job
<1>a. ticket \in [Tickets -> Ticket]
  BY DEF HolderInv, Inv, Rq
<1>1. ASSUME NEW t \in Tickets, Promote(t)
      PROVE  /\ UNCHANGED <<request, status, worker, dead>>
             /\ \A u \in Tickets : Alive(u)' => Alive(u) /\ ticket'[u].job = ticket[u].job
  BY <1>a, <1>1 DEF Promote, Alive, Ticket
<1>2. ASSUME NEW t \in Tickets, CleanAbandoned(t)
      PROVE  /\ UNCHANGED <<request, status, worker>> /\ dead \subseteq dead'
             /\ \A u \in Tickets : Alive(u)' => Alive(u) /\ ticket'[u].job = ticket[u].job
  BY <1>a, <1>2 DEF CleanAbandoned, TicketFailed, TicketDone, FreeTicket, Alive, Ticket
<1> QED
  BY <1>1, <1>2 DEF RqStep

\* The free ticket that an enqueue takes is the only one of its job.
LEMMA EnqueueHolder ==
    ASSUME HolderInv, NEW j \in Jobs, Enqueue(j)
    PROVE  \E t \in Tickets :
              /\ ~Alive(t) /\ Alive(t)' /\ ticket'[t].job = j
              /\ \A u \in Tickets \ {t} : ticket'[u] = ticket[u]
BY DEF HolderInv, Inv, Rq, Enqueue, Alive

\* The calls that change who holds a job: created, committed, enqueued,
\* refused, dispatched.
LEMMA CallsHolders ==
    ASSUME HolderInv, Inv', NEW r \in Requests,
           \/ \E j \in Jobs : CreateCheck(r, j)
           \/ Insert(r) \/ EnqueueCall(r) \/ WriteWaiting(r) \/ Dispatch(r)
    PROVE  HolderInv'
<1> DEFINE k == request[r].job
<1>a. /\ status \in [Jobs -> Status] /\ request \in [Requests -> Request]
      /\ \A t \in Tickets : Alive(t) => ticket[t].job \in Jobs
      /\ \A q \in Requests : request[q].pc \in HasJob => request[q].job \in Jobs
  BY DEF HolderInv, Inv, Rows, Rq, Calls, Alive
<1>b. OneHolder /\ CallsOrdinary
  BY DEF HolderInv
<1>c. Return(r) => request'[r] = IdleRequest /\ \A q \in Requests \ {r} : request'[q] = request[q]
  BY <1>a DEF Return
<1>d. ASSUME NEW pc, NEW j, Call(r, pc, j, NothingSeen)
      PROVE  request'[r].pc = pc /\ request'[r].job = j
             /\ \A q \in Requests \ {r} : request'[q] = request[q]
  BY <1>a, <1>d DEF Call
<1>e. IdleRequest.pc = "idle"
  BY DEF IdleRequest
<1>1. ASSUME NEW j \in Jobs, CreateCheck(r, j) PROVE HolderInv'
  <2>1. /\ UNCHANGED <<status, ticket>>
        /\ status[j] = Absent
        /\ \A q \in Requests : request[q].job # j
        /\ request'[r].pc = "insert" /\ request'[r].job = j
        /\ \A q \in Requests \ {r} : request'[q] = request[q]
    BY <1>1, <1>d DEF CreateCheck
  <2>2. OneHolder'
    BY <1>a, <1>b, <2>1 DEF OneHolder, Makes, Alive
  <2>3. CallsOrdinary'
    BY <1>b, <2>1 DEF CallsOrdinary
  <2> QED
    BY <2>2, <2>3 DEF HolderInv
<1>2. CASE Insert(r)
  <2>1. /\ request[r].pc = "insert" /\ k \in Jobs /\ UNCHANGED ticket
        /\ status' = [status EXCEPT ![k] = "pending"]
        /\ request'[r].pc = "enqueue" /\ request'[r].job = k
        /\ \A q \in Requests \ {r} : request'[q] = request[q]
    BY <1>2, <1>a, <1>d DEF Insert, Write, HasJob
  <2>2. Makes(r, k) /\ \A q \in Requests \ {r} : ~Makes(q, k)
    BY <1>b, <2>1 DEF OneHolder, Makes
  <2>3. OneHolder'
    BY <1>a, <1>b, <2>1, <2>2 DEF OneHolder, Makes, Alive, Absent
  <2>4. CallsOrdinary'
    BY <1>a, <1>b, <2>1, <2>2 DEF CallsOrdinary, Makes, HasJob, Absent
  <2> QED
    BY <2>3, <2>4 DEF HolderInv
<1>3. CASE EnqueueCall(r)
  <2>1. request[r].pc = "enqueue" /\ k \in Jobs /\ UNCHANGED status
    BY <1>3, <1>a DEF EnqueueCall, HasJob
  <2>2. Makes(r, k) /\ \A q \in Requests \ {r} : ~Makes(q, k)
    BY <1>b, <2>1 DEF OneHolder, Makes
  <2>3. CASE HasCapacity
    <3>1. request'[r].pc = "idle" /\ \A q \in Requests \ {r} : request'[q] = request[q]
      BY <1>3, <1>c, <1>e, <2>3 DEF EnqueueCall
    <3>2. PICK t \in Tickets :
              /\ ~Alive(t) /\ Alive(t)' /\ ticket'[t].job = k
              /\ \A u \in Tickets \ {t} : ticket'[u] = ticket[u]
      BY <1>3, <2>1, <2>3, EnqueueHolder DEF EnqueueCall
    <3>3. status[k] \notin {Absent, "waiting_for_capacity"}
      BY <1>b, <2>1 DEF CallsOrdinary
    <3>4. \A u \in Tickets \ {t} : Alive(u) => ticket[u].job # k
      BY <1>b, <2>2 DEF OneHolder
    <3>5. \A u \in Tickets \ {t} : Alive(u)' <=> Alive(u)
      BY <3>2 DEF Alive
    <3>6. OneHolder'
      BY <1>b, <2>1, <2>2, <3>1, <3>2, <3>3, <3>4, <3>5 DEF OneHolder, Makes
    <3>7. CallsOrdinary'
      BY <1>b, <2>1, <3>1 DEF CallsOrdinary
    <3> QED
      BY <3>6, <3>7 DEF HolderInv
  <2>4. CASE ~HasCapacity
    <3>1. UNCHANGED ticket /\ request'[r].pc = "full" /\ request'[r].job = k
          /\ \A q \in Requests \ {r} : request'[q] = request[q]
      BY <1>3, <1>d, <2>4 DEF EnqueueCall
    <3> QED
      BY <2>1, <3>1, NoNewHolder DEF Alive
  <2> QED
    BY <2>3, <2>4
<1>4. CASE WriteWaiting(r)
  <2>1. /\ request[r].pc = "full" /\ k \in Jobs /\ UNCHANGED ticket
        /\ status' = [status EXCEPT ![k] = "waiting_for_capacity"]
        /\ request'[r].pc = "idle" /\ \A q \in Requests \ {r} : request'[q] = request[q]
    BY <1>4, <1>a, <1>c, <1>e DEF WriteWaiting, Write, HasJob
  <2>2. Makes(r, k) /\ \A q \in Requests \ {r} : ~Makes(q, k)
    BY <1>b, <2>1 DEF OneHolder, Makes
  <2>3. \A t \in Tickets : Alive(t) => ticket[t].job # k
    BY <1>b, <2>2 DEF OneHolder
  <2>4. OneHolder'
    BY <1>a, <1>b, <2>1, <2>2, <2>3 DEF OneHolder, Makes, Alive
  <2>5. CallsOrdinary'
    BY <1>a, <1>b, <2>1, <2>2 DEF CallsOrdinary, Makes, HasJob, Absent
  <2> QED
    BY <2>4, <2>5 DEF HolderInv
<1>5. CASE Dispatch(r)
  <2>1. request'[r].pc = "idle" /\ \A q \in Requests \ {r} : request'[q] = request[q]
    BY <1>5, <1>c, <1>e DEF Dispatch
  <2>2. CASE UNCHANGED <<status, ticket>>
    BY <2>1, <2>2, NoNewHolder DEF Alive
  <2>3. ASSUME NEW j \in Jobs, status[j] = "waiting_for_capacity", Enqueue(j), Write(j, "pending")
        PROVE  HolderInv'
    <3>1. PICK t \in Tickets :
              /\ ~Alive(t) /\ Alive(t)' /\ ticket'[t].job = j
              /\ \A u \in Tickets \ {t} : ticket'[u] = ticket[u]
      BY <2>3, EnqueueHolder
    <3>2. \A u \in Tickets \ {t} : (Alive(u)' <=> Alive(u)) /\ (Alive(u) => ticket[u].job # j)
      BY <1>b, <2>3, <3>1 DEF OneHolder, Alive
    <3>3. \A q \in Requests : ~Makes(q, j)
      BY <1>b, <2>3 DEF CallsOrdinary, Makes, Absent
    <3>4. status' = [status EXCEPT ![j] = "pending"]
      BY <2>3 DEF Write
    <3>5. OneHolder'
      <4>1. \A q \in Requests : \A n \in Jobs : Makes(q, n)' => Makes(q, n)
        BY <2>1 DEF Makes
      <4>2. \A u \in Tickets \ {t} : Alive(u)' => status'[ticket'[u].job] = status[ticket[u].job]
        BY <1>a, <3>1, <3>2, <3>4
      <4>3. status'[ticket'[t].job] = "pending"
        BY <1>a, <3>1, <3>4
      <4> QED
        BY <1>a, <1>b, <3>1, <3>2, <3>3, <4>1, <4>2, <4>3 DEF OneHolder, Absent
    <3>6. CallsOrdinary'
      BY <1>a, <1>b, <2>1, <2>3, <3>3, <3>4 DEF CallsOrdinary, Makes, HasJob, Absent
    <3> QED
      BY <3>5, <3>6 DEF HolderInv
  <2> QED
    BY <1>5, <2>2, <2>3 DEF Dispatch
<1> QED
  BY <1>1, <1>2, <1>3, <1>4, <1>5

Undisturbed == Events \cap {"drain", "resume", "requeue"} = {}

\* The other calls hold no job.
LEMMA RequestHolders ==
    ASSUME Undisturbed, HolderInv, Inv', NEW r \in Requests, RequestStep(r)
    PROVE  HolderInv'
<1>a. status \in [Jobs -> Status] /\ request \in [Requests -> Request] /\ CallsOrdinary
      /\ \A q \in Requests : request[q].pc \in HasJob => request[q].job \in Jobs
  BY DEF HolderInv, Inv, Rows, Calls
<1>b. ASSUME NEW pc \in {"pause", "cancel", "dispatch"}, NEW j \in Jobs \cup {NoJob},
             NEW seen, Call(r, pc, j, seen),
             pc # "dispatch" => j \in Jobs /\ status[j] # Absent, UNCHANGED <<status, ticket>>
      PROVE  HolderInv'
  <2>1. request'[r].pc = pc /\ request'[r].job = j /\ \A q \in Requests \ {r} : request'[q] = request[q]
    BY <1>a, <1>b DEF Call
  <2> QED
    BY <1>b, <2>1, NoNewHolder DEF Alive
<1>c. Return(r) => request'[r].pc = "idle" /\ \A q \in Requests \ {r} : request'[q] = request[q]
  BY <1>a DEF Return, IdleRequest
<1>1. CASE (\E j \in Jobs : CreateCheck(r, j)) \/ Insert(r) \/ EnqueueCall(r) \/ WriteWaiting(r)
           \/ Dispatch(r)
  BY <1>1, CallsHolders
<1>2. ASSUME NEW j \in Jobs, PauseRead(r, j) PROVE HolderInv'
  BY <1>b, <1>2 DEF PauseRead, Absent
<1>3. ASSUME NEW j \in Jobs, CancelRead(r, j) PROVE HolderInv'
  BY <1>b, <1>3 DEF CancelRead, ActiveStatuses, Absent
<1>4. CASE DispatchCheck(r)
  BY <1>b, <1>4 DEF DispatchCheck
<1>5. CASE PauseWrite(r) \/ CancelWrite(r)
  <2>1. PICK final \in {"pause_requested", "cancelled", "cancel_requested"} :
          Write(request[r].job, final)
    BY <1>5 DEF PauseWrite, CancelWrite
  <2>2. request[r].pc \in {"pause", "cancel"} /\ Return(r) /\ UNCHANGED ticket
    BY <1>5 DEF PauseWrite, CancelWrite
  <2>3. request[r].job \in Jobs /\ status[request[r].job] # Absent
    BY <1>a, <2>2 DEF CallsOrdinary, HasJob
  <2>4. \A j \in Jobs : (status'[j] = Absent <=> status[j] = Absent)
                        /\ (status'[j] = "waiting_for_capacity" => status[j] = "waiting_for_capacity")
    BY <1>a, <2>1, <2>3 DEF Write, Absent
  <2> QED
    BY <1>c, <2>2, <2>4, NoNewHolder DEF Alive
<1>6. CASE Lose(r)
  BY <1>c, <1>6, NoNewHolder DEF Lose, Alive
<1>7. ~(\E j \in Jobs : ResumeRead(r, j) \/ Requeue(r, j))
      /\ ~ResumeWrite(r) /\ ~RequeueWrite(r)
      /\ ~Activate(r) /\ ~DrainRead(r) /\ ~DrainWrite(r) /\ ~FinishRead(r) /\ ~FinishWrite(r) /\ ~Release(r)
  BY <1>a DEF Undisturbed, ResumeRead, Requeue, ResumeWrite, RequeueWrite, Activate, DrainRead,
              DrainWrite, FinishRead, FinishWrite, Release, CallsOrdinary
<1> QED
  BY <1>1, <1>2, <1>3, <1>4, <1>5, <1>6, <1>7 DEF RequestStep

LEMMA InitHolders == Init => HolderInv
<1> SUFFICES ASSUME Init PROVE HolderInv
  OBVIOUS
<1>1. Inv
  BY InitInv
<1>2. \A t \in Tickets : ~Alive(t)
  BY DEF Init, Alive, FreeTicket
<1>3. \A r \in Requests : request[r].pc = "idle"
  BY DEF Init, IdleRequest
<1>4. OneHolder /\ CallsOrdinary
  BY <1>2, <1>3 DEF OneHolder, CallsOrdinary, Makes
<1> QED
  BY <1>1, <1>4 DEF HolderInv

LEMMA NextHolders ==
    ASSUME Undisturbed, HolderInv, [Next]_vars
    PROVE  HolderInv'
<1>a. Inv'
  BY NextKeepsInv DEF HolderInv
<1>1. CASE \E w \in Workers : WorkerStep(w)
  BY <1>1, <1>a, WorkerHolders, NoNewHolder
<1>2. CASE RqStep
  BY <1>2, <1>a, RqHolders, NoNewHolder
<1>3. CASE \E r \in Requests : RequestStep(r)
  BY <1>3, <1>a, RequestHolders
<1>4. CASE (\E j \in Jobs : Resolve(j)) \/ UNCHANGED vars
  BY <1>4, <1>a, NoNewHolder DEF Resolve, vars, Alive
<1> QED
  BY <1>1, <1>2, <1>3, <1>4 DEF Next

\* No two workers crawl one job, although attempts fail and are retried, worker
\* processes and handlers die and workers restart, as long as nobody drains,
\* resumes or requeues: those enqueue a job again without asking for a ticket
\* it still has (_enqueue in core/queue.py).
THEOREM OneWorker ==
    ASSUME Undisturbed
    PROVE  Spec => []OneWorkerPerJob
<1>1. Init => HolderInv
  BY InitHolders
<1>2. HolderInv /\ [Next]_vars => HolderInv'
  BY NextHolders
<1>3. HolderInv => OneWorkerPerJob
  <2> SUFFICES ASSUME HolderInv, NEW w \in Workers, NEW v \in Workers, NEW j \in Jobs,
                      Crawls(w, j), Crawls(v, j)
               PROVE  w = v
    BY DEF OneWorkerPerJob
  <2>1. /\ worker[w].ticket \in Tickets /\ Alive(worker[w].ticket)
        /\ worker[v].ticket \in Tickets /\ Alive(worker[v].ticket)
    BY BusyFacts DEF HolderInv, Crawls, Busy, Alive
  <2>2. worker[w].ticket = worker[v].ticket
    BY <2>1 DEF HolderInv, OneHolder, Crawls
  <2> QED
    BY <2>1, <2>2 DEF HolderInv, Inv, Held
<1> QED
  BY <1>1, <1>2, <1>3, PTL DEF Spec

-----------------------------------------------------------------------------
(***************************************************************************)
(* A pending job is accounted for.                                         *)
(***************************************************************************)
HeldJob(j) ==
    \/ \E t \in Tickets : Alive(t) /\ ticket[t].job = j
    \/ \E r \in Requests : Makes(r, j) /\ request[r].pc # "insert"
    \/ j \in dead

PendingHeld == \A j \in Jobs : status[j] = "pending" => HeldJob(j)

\* A worker that began to crawl took its job out of pending, and nobody puts
\* it back: letting go of the ticket loses no pending job.
BegunNotPending ==
    \A w \in Workers :
        /\ worker[w].pc \in Busy /\ worker[w].seen # "pending"
             => status[ticket[worker[w].ticket].job] # "pending"
        /\ worker[w].pc \in Busy \ {"loaded"} => worker[w].seen # "pending"

AccountInv == HolderInv /\ PendingHeld /\ BegunNotPending

\* Workers stay as they are, and no job with a ticket becomes pending.
LEMMA BegunKept ==
    ASSUME AccountInv, UNCHANGED worker,
           \A t \in Tickets : ticket[t].state = "started" => ticket'[t] = ticket[t],
           \A t \in Tickets : Alive(t) /\ status'[ticket[t].job] = "pending"
                              => status[ticket[t].job] = "pending"
    PROVE  BegunNotPending'
<1>1. \A w \in Workers : worker[w].pc \in Busy =>
          worker[w].ticket \in Tickets /\ Alive(worker[w].ticket)
          /\ ticket'[worker[w].ticket] = ticket[worker[w].ticket]
  BY BusyFacts DEF AccountInv, HolderInv, Alive
<1> QED
  BY <1>1 DEF AccountInv, BegunNotPending, Busy

\* A worker's step: what becomes of the job it holds.
LEMMA WorkerAccounts ==
    ASSUME AccountInv, HolderInv', NEW w \in Workers, WorkerStep(w)
    PROVE  AccountInv'
<1> DEFINE t == worker[w].ticket
           j == ticket[t].job
<1>a. /\ status \in [Jobs -> Status] /\ ticket \in [Tickets -> Ticket] /\ Inv
      /\ worker \in [Workers -> Worker]
      /\ \A u \in Tickets : Alive(u) => ticket[u].job \in Jobs
  BY DEF AccountInv, HolderInv, Inv, Rows, Rq, Held, Alive
<1>b. worker[w].pc \in Busy => t \in Tickets /\ Alive(t) /\ j \in Jobs
  BY BusyFacts DEF AccountInv, HolderInv, OneHolder, Alive
<1>c. /\ UNCHANGED request /\ dead \subseteq dead'
      /\ \A u \in Tickets : Alive(u)' => Alive(u) /\ ticket'[u].job = ticket[u].job
      /\ \A k \in Jobs : status'[k] = "pending" => status[k] = "pending"
  BY WorkerHolders DEF AccountInv
<1>d. \A v \in Workers \ {w} : worker[v].pc \in Busy =>
        /\ worker[v].ticket \in Tickets /\ Alive(worker[v].ticket)
        /\ ticket[worker[v].ticket].job \in Jobs
        /\ ticket[worker[v].ticket].state = "started"
        /\ worker[v].ticket # t
  <2>1. \A v \in Workers : worker[v].pc \in Busy =>
        /\ worker[v].ticket \in Tickets /\ Alive(worker[v].ticket)
        /\ ticket[worker[v].ticket].job \in Jobs
        /\ ticket[worker[v].ticket].state = "started"
    BY BusyFacts DEF AccountInv, HolderInv, Alive
  <2> QED
    BY <2>1 DEF AccountInv, HolderInv, Inv, Held
<1>e. ASSUME \A v \in Workers \ {w} : worker'[v] = worker[v],
             \A v \in Workers \ {w} : worker[v].pc \in Busy =>
                ticket'[worker[v].ticket].job = ticket[worker[v].ticket].job,
             worker'[w].pc \notin Busy
      PROVE  BegunNotPending'
  BY <1>c, <1>d, <1>e DEF AccountInv, BegunNotPending
<1>f. ASSUME \A u \in Tickets : Alive(u) =>
                \/ Alive(u)' /\ ticket'[u].job = ticket[u].job
                \/ status'[ticket[u].job] # "pending"
                \/ ticket[u].job \in dead'
      PROVE  PendingHeld'
  <2> SUFFICES ASSUME NEW k \in Jobs, status'[k] = "pending" PROVE HeldJob(k)'
    BY DEF PendingHeld
  <2>1. HeldJob(k)
    BY <1>c DEF AccountInv, PendingHeld
  <2> QED
    BY <1>c, <1>f, <2>1 DEF HeldJob, Makes
<1>g. ASSUME NEW final \in Status \ {"pending"}, worker[w].pc \in Busy,
             Write(j, Overwrite(status[j], worker[w].seen, final)),
             TicketDone(t), WorkerIdle(w)
      PROVE  PendingHeld' /\ BegunNotPending'
  <2>1. status'[j] # "pending"
    <3>1. worker[w].seen = final => status[j] # "pending"
      BY <1>g DEF AccountInv, BegunNotPending
    <3> QED
      BY <1>a, <1>b, <1>g, <3>1 DEF Write, Overwrite
  <2>2. \A u \in Tickets \ {t} : ticket'[u] = ticket[u]
    BY <1>a, <1>g DEF TicketDone
  <2>3. PendingHeld'
    BY <1>f, <2>1, <2>2 DEF Alive
  <2>4. worker'[w].pc \notin Busy /\ \A v \in Workers \ {w} : worker'[v] = worker[v]
    BY <1>a, <1>g, IdleWorkerFacts DEF WorkerIdle
  <2> QED
    BY <1>d, <1>e, <2>2, <2>3, <2>4
<1>h. ASSUME worker[w].pc \in Busy, TicketFailed(t), WorkerIdle(w)
      PROVE  PendingHeld' /\ BegunNotPending'
  <2>1. /\ \A u \in Tickets \ {t} : ticket'[u] = ticket[u]
        /\ \/ ticket'[t].state # "free" /\ ticket'[t].job = j
           \/ j \in dead'
    BY <1>a, <1>b, <1>h DEF TicketFailed, TicketDone, Alive, Ticket
  <2>2. PendingHeld'
    BY <1>f, <2>1 DEF Alive
  <2>3. worker'[w].pc \notin Busy /\ \A v \in Workers \ {w} : worker'[v] = worker[v]
    BY <1>a, <1>h, IdleWorkerFacts DEF WorkerIdle
  <2> QED
    BY <1>d, <1>e, <2>1, <2>2, <2>3
<1>i. ASSUME NEW seen, NEW pc \in Busy, worker[w].pc \in Busy, WorkerTo(w, pc, t, seen),
             UNCHANGED ticket,
             pc \in Busy \ {"loaded"} => seen # "pending",
             seen # "pending" => status'[j] # "pending"
      PROVE  PendingHeld' /\ BegunNotPending'
  <2>1. PendingHeld'
    BY <1>f, <1>i DEF Alive
  <2>2. /\ worker'[w] = [pc |-> pc, ticket |-> t, seen |-> seen, spared |-> {}]
        /\ \A v \in Workers \ {w} : worker'[v] = worker[v]
    BY <1>a, <1>i DEF WorkerTo
  <2>3. BegunNotPending'
    BY <1>c, <1>d, <1>i, <2>2 DEF AccountInv, BegunNotPending
  <2> QED
    BY <2>1, <2>3
<1> SUFFICES PendingHeld' /\ BegunNotPending'
  BY DEF AccountInv
<1>1. ASSUME NEW u \in Tickets, Take(w, u) PROVE PendingHeld' /\ BegunNotPending'
  <2>1. ticket[u].state = "queued" /\ Alive(u) /\ UNCHANGED <<status, request>>
    BY <1>1 DEF Take, Alive
  <2>2. CASE status[ticket[u].job] \in NotStarted
    <3>1. TicketDone(u) /\ UNCHANGED worker
      BY <1>1, <2>2 DEF Take
    <3>2. \A v \in Tickets \ {u} : ticket'[v] = ticket[v]
      BY <1>a, <3>1 DEF TicketDone
    <3>3. PendingHeld'
      <4>1. status'[ticket[u].job] # "pending"
        BY <2>1, <2>2 DEF NotStarted
      <4> QED
        BY <1>f, <3>2, <4>1 DEF Alive
    <3>4. BegunNotPending'
      BY <2>1, <3>1, <3>2, BegunKept
    <3> QED
      BY <3>3, <3>4
  <2>3. CASE status[ticket[u].job] \notin NotStarted
    <3>1. /\ ticket'[u].state = "started" /\ ticket'[u].job = ticket[u].job
          /\ \A v \in Tickets \ {u} : ticket'[v] = ticket[v]
          /\ worker'[w].pc = "loaded" /\ worker'[w].ticket = u
          /\ worker'[w].seen = status[ticket[u].job]
          /\ \A v \in Workers \ {w} : worker'[v] = worker[v]
      BY <1>1, <1>a, <2>3 DEF Take, WorkerTo, Ticket
    <3>2. PendingHeld'
      BY <1>f, <3>1 DEF Alive
    <3>3. BegunNotPending'
      BY <1>d, <2>1, <3>1 DEF AccountInv, BegunNotPending, Busy
    <3> QED
      BY <3>2, <3>3
  <2> QED
    BY <2>2, <2>3
<1> HIDE DEF t, j
<1>2. CASE StartGated(w)
  BY <1>2, <1>g DEF StartGated, Busy, Status, t, j
<1>3. CASE StartRefused(w)
  BY <1>3, <1>h DEF StartRefused, Busy, t
<1>4. CASE Start(w)
  <2>1. worker[w].pc \in Busy /\ WorkerTo(w, "crawling", t, "running") /\ UNCHANGED ticket
        /\ Write(j, Overwrite(status[j], worker[w].seen, "running"))
    BY <1>4 DEF Start, Busy, t, j
  <2>2. status'[j] # "pending"
    <3>1. worker[w].seen = "running" => status[j] # "pending"
      BY <2>1 DEF AccountInv, BegunNotPending, t, j
    <3> QED
      BY <1>a, <1>b, <2>1, <3>1 DEF Write, Overwrite
  <2> QED
    BY <1>i, <2>1, <2>2 DEF Busy
<1>5. CASE Check(w)
  <2>1. /\ worker[w].pc \in Busy \ {"loaded"} /\ UNCHANGED <<status, ticket>>
        /\ \E pc \in Busy \ {"loaded"} : WorkerTo(w, pc, t, status[j])
    BY <1>5 DEF Check, Busy, t, j
  <2>2. status[j] # "pending"
    BY <2>1 DEF AccountInv, BegunNotPending, t, j
  <2> QED
    BY <1>i, <2>1, <2>2
<1>6. CASE StopPaused(w) \/ StopCancelled(w) \/ Finish(w)
  <2>1. PICK pc \in {"pausing", "cancelling", "crawling"},
             final \in {"paused", "cancelled", "succeeded"} : Stop(w, pc, final)
    BY <1>6 DEF StopPaused, StopCancelled, Finish
  <2>2. /\ worker[w].pc \in Busy \ {"loaded"} /\ Write(j, Overwrite(status[j], worker[w].seen, final))
        /\ TicketDone(t) /\ WorkerIdle(w)
    BY <2>1 DEF Stop, Busy, t, j
  <2>3. final # "pending" /\ final \in Status
    BY DEF Status
  <2> QED
    BY <1>g, <2>2, <2>3
<1>7. CASE Fail(w)
  BY <1>7, <1>h DEF Fail, Busy, t
<1>8. CASE Kill(w)
  <2>1. /\ worker[w].ticket # NoTicket
        /\ ticket' = [ticket EXCEPT ![t].state = "abandoned"]
        /\ WorkerTo(w, "dead", NoTicket, Absent)
    BY <1>8 DEF Kill, t
  <2>2. t \in Tickets
    BY <1>a, <2>1 DEF Worker, t
  <2>3. \A u \in Tickets : ticket'[u].job = ticket[u].job /\ (Alive(u) => Alive(u)')
    BY <1>a, <2>1, <2>2 DEF Ticket, Alive
  <2>4. worker'[w].pc \notin Busy /\ \A v \in Workers \ {w} : worker'[v] = worker[v]
    BY <1>a, <2>1 DEF WorkerTo, Busy
  <2> QED
    BY <1>d, <1>e, <1>f, <2>3, <2>4
<1>9. CASE Restart(w) \/ Recover(w)
  <2>1. UNCHANGED ticket /\ \E rec \in Worker : rec.pc \notin Busy /\ worker' = [worker EXCEPT ![w] = rec]
    <3>1. CASE Recover(w)
      BY <3>1, IdleWorkerFacts DEF Recover, WorkerIdle
    <3>2. CASE Restart(w)
      <4>1. UNCHANGED ticket /\ worker'[w].pc = "recovering" /\ worker' = [worker EXCEPT ![w] = worker'[w]]
        BY <1>a, <3>2 DEF Restart
      <4>2. worker'[w] \in Worker
        BY DEF HolderInv, Inv, Held
      <4> QED
        BY <4>1, <4>2 DEF Busy
    <3> QED
      BY <1>9, <3>1, <3>2
  <2>2. worker'[w].pc \notin Busy /\ \A v \in Workers \ {w} : worker'[v] = worker[v]
    BY <1>a, <2>1
  <2> QED
    BY <1>e, <1>f, <2>1, <2>2 DEF Alive
<1> QED
  BY <1>1, <1>2, <1>3, <1>4, <1>5, <1>6, <1>7, <1>8, <1>9 DEF WorkerStep

\* A call's step: it makes a job pending only as its holder, or with a ticket.
LEMMA RequestAccounts ==
    ASSUME Undisturbed, "lose" \notin Events,
           AccountInv, HolderInv', NEW r \in Requests, RequestStep(r)
    PROVE  AccountInv'
<1> DEFINE k == request[r].job
<1>a. /\ status \in [Jobs -> Status] /\ request \in [Requests -> Request] /\ Inv
      /\ OneHolder /\ CallsOrdinary /\ HolderInv
      /\ \A t \in Tickets : Alive(t) => ticket[t].job \in Jobs
      /\ \A q \in Requests : request[q].pc \in HasJob => request[q].job \in Jobs
  BY DEF AccountInv, HolderInv, Inv, Rows, Rq, Calls, Alive
<1>b. UNCHANGED worker /\ \A t \in Tickets : ticket[t].state = "started" => ticket'[t] = ticket[t]
  BY <1>a, RequestFrame
<1>c. Return(r) => request'[r] = IdleRequest /\ \A q \in Requests \ {r} : request'[q] = request[q]
  BY <1>a DEF Return
<1>d. ASSUME NEW pc, NEW j, NEW seen, Call(r, pc, j, seen)
      PROVE  request'[r].pc = pc /\ request'[r].job = j
             /\ \A q \in Requests \ {r} : request'[q] = request[q]
  BY <1>a, <1>d DEF Call
<1>e. ASSUME \A j \in Jobs : status'[j] = "pending" => status[j] = "pending" /\ (HeldJob(j) => HeldJob(j)')
      PROVE  AccountInv'
  <2>1. PendingHeld'
    BY <1>e DEF AccountInv, PendingHeld
  <2>2. BegunNotPending'
    BY <1>a, <1>b, <1>e, BegunKept
  <2> QED
    BY <2>1, <2>2 DEF AccountInv
<1>f. ASSUME UNCHANGED <<ticket, dead>>, \A q \in Requests \ {r} : request'[q] = request[q],
             request[r].pc \notin {"enqueue", "full"}
      PROVE  \A j \in Jobs : HeldJob(j) => HeldJob(j)'
  BY <1>f DEF HeldJob, Makes, Alive
<1>1. ASSUME NEW j \in Jobs, CreateCheck(r, j) \/ PauseRead(r, j) \/ CancelRead(r, j) PROVE AccountInv'
  <2>1. request[r].pc = "idle" /\ UNCHANGED <<status, dead, ticket>>
        /\ \A q \in Requests \ {r} : request'[q] = request[q]
    BY <1>1, <1>d DEF CreateCheck, PauseRead, CancelRead, IsIdle
  <2> QED
    BY <1>e, <1>f, <2>1
<1>2. CASE DispatchCheck(r)
  <2>1. request[r].pc = "idle" /\ UNCHANGED <<status, dead, ticket>>
        /\ \A q \in Requests \ {r} : request'[q] = request[q]
    BY <1>2, <1>d DEF DispatchCheck, IsIdle
  <2> QED
    BY <1>e, <1>f, <2>1
<1>3. CASE PauseWrite(r) \/ CancelWrite(r)
  <2>1. /\ request[r].pc \in {"pause", "cancel"} /\ UNCHANGED <<dead, ticket>> /\ Return(r)
        /\ \E final \in {"pause_requested", "cancelled", "cancel_requested"} : Write(k, final)
    BY <1>3 DEF PauseWrite, CancelWrite
  <2>2. k \in Jobs
    BY <1>a, <2>1 DEF HasJob
  <2>3. \A j \in Jobs : status'[j] = "pending" => status[j] = "pending"
    BY <1>a, <2>1, <2>2 DEF Write
  <2> QED
    BY <1>c, <1>e, <1>f, <2>1, <2>3
<1>4. CASE Insert(r)
  <2>1. /\ request[r].pc = "insert" /\ k \in Jobs /\ UNCHANGED <<ticket, dead>>
        /\ status' = [status EXCEPT ![k] = "pending"]
        /\ request'[r].pc = "enqueue" /\ request'[r].job = k
        /\ \A q \in Requests \ {r} : request'[q] = request[q]
    BY <1>4, <1>a, <1>d DEF Insert, Write, HasJob
  <2>2. \A t \in Tickets : Alive(t) => ticket[t].job # k
    BY <1>a, <2>1 DEF OneHolder, Makes
  <2>3. PendingHeld'
    <3> SUFFICES ASSUME NEW j \in Jobs, status'[j] = "pending" PROVE HeldJob(j)'
      BY DEF PendingHeld
    <3>1. CASE j = k
      BY <2>1, <3>1 DEF HeldJob, Makes
    <3>2. CASE j # k
      <4>1. HeldJob(j)
        BY <1>a, <2>1, <3>2 DEF AccountInv, PendingHeld
      <4> QED
        BY <1>f, <2>1, <4>1
    <3> QED
      BY <3>1, <3>2
  <2>4. BegunNotPending'
    BY <1>a, <1>b, <2>1, <2>2, BegunKept
  <2> QED
    BY <2>3, <2>4 DEF AccountInv
<1>5. CASE EnqueueCall(r)
  <2>1. request[r].pc = "enqueue" /\ k \in Jobs /\ UNCHANGED <<status, dead>>
    BY <1>5, <1>a DEF EnqueueCall, HasJob
  <2>2. CASE HasCapacity
    <3>1. \A q \in Requests \ {r} : request'[q] = request[q]
      BY <1>5, <1>c, <2>2 DEF EnqueueCall
    <3>2. PICK t \in Tickets :
              /\ ~Alive(t) /\ Alive(t)' /\ ticket'[t].job = k
              /\ \A u \in Tickets \ {t} : ticket'[u] = ticket[u]
      BY <1>5, <1>a, <2>1, <2>2, EnqueueHolder DEF EnqueueCall
    <3>3. \A j \in Jobs : HeldJob(j) => HeldJob(j)'
      <4>1. ASSUME NEW j \in Jobs, j = k PROVE HeldJob(j)'
        BY <3>2, <4>1 DEF HeldJob
      <4>2. ASSUME NEW j \in Jobs, j # k, HeldJob(j) PROVE HeldJob(j)'
        BY <2>1, <3>1, <3>2, <4>2 DEF HeldJob, Makes, Alive
      <4> QED
        BY <4>1, <4>2
    <3> QED
      BY <1>e, <2>1, <3>3
  <2>3. CASE ~HasCapacity
    <3>1. UNCHANGED ticket /\ request'[r].pc = "full" /\ request'[r].job = k
          /\ \A q \in Requests \ {r} : request'[q] = request[q]
      BY <1>5, <1>d, <2>3 DEF EnqueueCall
    <3>2. \A j \in Jobs : HeldJob(j) => HeldJob(j)'
      BY <2>1, <3>1 DEF HeldJob, Makes, Alive
    <3> QED
      BY <1>e, <2>1, <3>2
  <2> QED
    BY <2>2, <2>3
<1>6. CASE WriteWaiting(r)
  <2>1. /\ request[r].pc = "full" /\ k \in Jobs /\ UNCHANGED <<ticket, dead>>
        /\ status' = [status EXCEPT ![k] = "waiting_for_capacity"]
        /\ \A q \in Requests \ {r} : request'[q] = request[q]
    BY <1>6, <1>a, <1>c DEF WriteWaiting, Write, HasJob
  <2>2. ASSUME NEW j \in Jobs, status'[j] = "pending"
        PROVE  status[j] = "pending" /\ (HeldJob(j) => HeldJob(j)')
    <3>1. j # k /\ status[j] = "pending"
      BY <1>a, <2>1, <2>2
    <3> QED
      BY <2>1, <3>1 DEF HeldJob, Makes, Alive
  <2> QED
    BY <1>e, <2>2
<1>7. CASE Dispatch(r)
  <2>1. /\ request[r].pc = "dispatch" /\ UNCHANGED dead
        /\ \A q \in Requests \ {r} : request'[q] = request[q]
    BY <1>7, <1>c DEF Dispatch
  <2>2. CASE UNCHANGED <<status, ticket>>
    BY <1>e, <1>f, <2>1, <2>2
  <2>3. ASSUME NEW j \in Jobs, status[j] = "waiting_for_capacity", Enqueue(j), Write(j, "pending")
        PROVE  AccountInv'
    <3>1. PICK t \in Tickets :
              /\ ~Alive(t) /\ Alive(t)' /\ ticket'[t].job = j
              /\ \A u \in Tickets \ {t} : ticket'[u] = ticket[u]
      BY <1>a, <2>3, EnqueueHolder
    <3>2. status' = [status EXCEPT ![j] = "pending"]
      BY <2>3 DEF Write
    <3>3. \A u \in Tickets : Alive(u) => ticket[u].job # j
      BY <1>a, <2>3 DEF OneHolder
    <3>4. PendingHeld'
      <4> SUFFICES ASSUME NEW n \in Jobs, status'[n] = "pending" PROVE HeldJob(n)'
        BY DEF PendingHeld
      <4>1. CASE n = j
        BY <3>1, <4>1 DEF HeldJob
      <4>2. CASE n # j
        <5>1. HeldJob(n)
          BY <1>a, <3>2, <4>2 DEF AccountInv, PendingHeld
        <5> QED
          BY <2>1, <3>1, <5>1 DEF HeldJob, Makes, Alive
      <4> QED
        BY <4>1, <4>2
    <3>5. BegunNotPending'
      BY <1>a, <1>b, <3>2, <3>3, BegunKept
    <3> QED
      BY <3>4, <3>5 DEF AccountInv
  <2> QED
    BY <1>7, <2>2, <2>3 DEF Dispatch
<1>8. ~(\E j \in Jobs : ResumeRead(r, j) \/ Requeue(r, j))
      /\ ~ResumeWrite(r) /\ ~RequeueWrite(r) /\ ~Lose(r)
      /\ ~Activate(r) /\ ~DrainRead(r) /\ ~DrainWrite(r) /\ ~FinishRead(r) /\ ~FinishWrite(r) /\ ~Release(r)
  BY <1>a DEF Undisturbed, ResumeRead, Requeue, ResumeWrite, RequeueWrite, Activate, DrainRead,
              DrainWrite, FinishRead, FinishWrite, Release, Lose, CallsOrdinary
<1> QED
  BY <1>1, <1>2, <1>3, <1>4, <1>5, <1>6, <1>7, <1>8 DEF RequestStep

LEMMA RqAccounts ==
    ASSUME AccountInv, HolderInv', RqStep
    PROVE  AccountInv'
<1>a. /\ ticket \in [Tickets -> Ticket] /\ HolderInv
      /\ \A t \in Tickets : Alive(t) => ticket[t].job \in Jobs
  BY DEF AccountInv, HolderInv, Inv, Rq, Alive
<1>b. UNCHANGED <<status, worker, request>> /\ dead \subseteq dead'
  BY <1>a, RqHolders
<1>1. ASSUME NEW t \in Tickets, Promote(t) \/ CleanAbandoned(t)
      PROVE  /\ \A u \in Tickets \ {t} : ticket'[u] = ticket[u]
             /\ ticket[t].state # "started"
             /\ \/ Alive(t)' /\ ticket'[t].job = ticket[t].job
                \/ ticket[t].job \in dead'
  <2>1. CASE Promote(t)
    BY <1>a, <2>1 DEF Promote, Alive, Ticket
  <2>2. CASE CleanAbandoned(t)
    BY <1>a, <2>2 DEF CleanAbandoned, TicketFailed, TicketDone, Alive, Ticket
  <2> QED
    BY <1>1, <2>1, <2>2
<1>2. PICK t \in Tickets : Promote(t) \/ CleanAbandoned(t)
  BY DEF RqStep
<1>3. BegunNotPending'
  BY <1>1, <1>2, <1>b, BegunKept
<1>4. PendingHeld'
  <2> SUFFICES ASSUME NEW j \in Jobs, status[j] = "pending" PROVE HeldJob(j)'
    BY <1>b DEF PendingHeld
  <2>1. HeldJob(j)
    BY DEF AccountInv, PendingHeld
  <2> QED
    BY <1>1, <1>2, <1>b, <2>1 DEF HeldJob, Makes, Alive
<1> QED
  BY <1>3, <1>4 DEF AccountInv

LEMMA NextAccounts ==
    ASSUME Undisturbed, "lose" \notin Events, AccountInv, [Next]_vars
    PROVE  AccountInv'
<1>a. HolderInv'
  BY NextHolders DEF AccountInv
<1>1. CASE \E w \in Workers : WorkerStep(w)
  BY <1>1, <1>a, WorkerAccounts
<1>2. CASE RqStep
  BY <1>2, <1>a, RqAccounts
<1>3. CASE \E r \in Requests : RequestStep(r)
  BY <1>3, <1>a, RequestAccounts
<1>4. CASE \E j \in Jobs : Resolve(j)
  BY <1>4 DEF Resolve, Undisturbed
<1>5. CASE UNCHANGED vars
  BY <1>5, <1>a
  DEF vars, AccountInv, PendingHeld, HeldJob, Alive, Makes, BegunNotPending
<1> QED
  BY <1>1, <1>2, <1>3, <1>4, <1>5 DEF Next

\* A pending job always has a ticket, a call that is about to enqueue it, or a
\* dead letter: failures, retries, pauses, cancellations, killed workers and
\* recovery lose none.  A process that dies between the commit and the enqueue
\* does, and so may a drain, which drops the answers of the queue.
THEOREM NoneLost ==
    ASSUME Undisturbed, "lose" \notin Events
    PROVE  Spec => []NoLostJob
<1>1. Init => AccountInv
  BY InitHolders
  DEF Init, AccountInv, PendingHeld, BegunNotPending, NothingSeen, Absent, IdleWorker, Busy
<1>2. AccountInv /\ [Next]_vars => AccountInv'
  BY NextAccounts
<1>3. AccountInv => NoLostJob
  BY DEF AccountInv, PendingHeld, HeldJob, Makes, NoLostJob
<1> QED
  BY <1>1, <1>2, <1>3, PTL DEF Spec
=============================================================================
