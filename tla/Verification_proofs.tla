------------------------ MODULE Verification_proofs ------------------------
(***************************************************************************)
(* Proofs about Verification, for any tasks, workers, calls and bounds.    *)
(*                                                                         *)
(* The argument: a verification has one holder at a time, the call that    *)
(* has still to enqueue it, one ticket of RQ, or the dead letter.  So what *)
(* a worker loaded of a verification and of the status its task shows is   *)
(* still true when it writes, and every write meets the only active        *)
(* verification of the task.                                               *)
(***************************************************************************)
EXTENDS Verification, FiniteSetTheorems, TLAPS

HasVerif == {"enqueue", "requeue", "refused"}

Waiting(v) == {k \in Tickets : ticket[k].state # "free" /\ ticket[k].verif = v}

HeldBy(w) == ticket[worker[w].ticket].verif

\* Two active verifications of a task are the same.
One == \A t \in Tasks : \A u, v \in ActiveOf(t) : u = v

\* A ticket names a verification that exists, and no other ticket names it.
TicketsApart ==
    /\ \A k \in Tickets : ticket[k].state # "free" =>
          /\ ticket[k].verif \in Verifications
          /\ verif[ticket[k].verif].status # "absent"
    /\ \A v \in Verifications : \A k, l \in Waiting(v) : k = l

\* A worker that does something holds a started ticket of its own.
WorkersApart ==
    \A w \in Workers : worker[w].pc # "idle" =>
        /\ worker[w].ticket \in Tickets
        /\ ticket[worker[w].ticket].state = "started"
        /\ \A x \in Workers :
              worker[x].pc # "idle" /\ worker[x].ticket = worker[w].ticket => x = w

\* A call that has still to enqueue a verification is the only one to know it.
CallsApart ==
    \A r \in Requests :
        /\ request[r].pc \notin HasVerif => request[r].verif = NoVerification
        /\ request[r].pc \in HasVerif =>
              /\ request[r].verif \in Verifications
              /\ verif[request[r].verif].status = "queued"
              /\ verif[request[r].verif].task = request[r].task
              /\ Waiting(request[r].verif) = {}
              /\ \A q \in Requests : request[q].verif = request[r].verif => q = r
        /\ request[r].pc = "enqueue" => request[r].verif \notin dead

\* A dead letter is about a verification nobody works on.
DeadApart ==
    \A v \in dead : verif[v].status # "absent" /\ Waiting(v) = {}

\* What a worker loaded is still so.
LoadedIsTrue ==
    \A w \in Workers :
        /\ worker[w].pc = "loaded" =>
              /\ worker[w].verif \in Active
              /\ verif[HeldBy(w)].status = worker[w].verif
              /\ shown[verif[HeldBy(w)].task] = worker[w].seen.shown
        /\ worker[w].pc = "checking" => verif[HeldBy(w)].status = "running"

\* A request was checked when no verification was active.
CheckedIdle == \A r \in Requests : request[r].pc = "insert" => request[r].shown \notin Active

Inv ==
    /\ TypeOK
    /\ One /\ TaskShowsActive
    /\ TicketsApart /\ WorkersApart /\ CallsApart /\ DeadApart
    /\ LoadedIsTrue /\ CheckedIdle

-----------------------------------------------------------------------------
(***************************************************************************)
(* What the helpers do.                                                    *)
(***************************************************************************)

LEMMA IdleFacts ==
    /\ IdleWorker \in Worker /\ IdleWorker.pc = "idle"
    /\ IdleRequest \in Request /\ IdleRequest.pc = "idle"
    /\ IdleRequest.verif = NoVerification
<1>1. AnyTask \in Tasks
  BY ConstantsAssumption DEF AnyTask
<1> QED
  BY <1>1, ConstantsAssumption DEF IdleWorker, IdleRequest, Worker, Request, Nothing, Loaded,
     TaskStatus, Shown, VerificationStatus

LEMMA NoVerificationFact == NoVerification \notin Verifications
BY ConstantsAssumption DEF NoVerification, Verifications

\* A ticket that is queued anew is a free one; the others do not change.
LEMMA EnqueueFacts ==
    ASSUME TypeOK, NEW v \in Verifications, Enqueue(v)
    PROVE  /\ ticket' \in [Tickets -> Ticket]
           /\ \E k \in Tickets :
                /\ ticket[k].state = "free"
                /\ ticket'[k].state = "queued" /\ ticket'[k].verif = v
                /\ \A l \in Tickets \ {k} : ticket'[l] = ticket[l]
BY ConstantsAssumption DEF TypeOK, Enqueue, Ticket

LEMMA TicketDoneFacts ==
    ASSUME TypeOK, NEW k \in Tickets, TicketDone(k)
    PROVE  /\ ticket' \in [Tickets -> Ticket]
           /\ ticket'[k].state = "free"
           /\ \A l \in Tickets \ {k} : ticket'[l] = ticket[l]
BY ConstantsAssumption DEF TypeOK, TicketDone, FreeTicket, Ticket

\* A failed attempt keeps the ticket for a retry, or ends as a dead letter.
LEMMA TicketFailedFacts ==
    ASSUME TypeOK, NEW k \in Tickets, ticket[k].verif \in Verifications, TicketFailed(k)
    PROVE  /\ ticket' \in [Tickets -> Ticket] /\ dead' \subseteq Verifications
           /\ \A l \in Tickets \ {k} : ticket'[l] = ticket[l]
           /\ \/ ticket'[k].verif = ticket[k].verif /\ dead' = dead
              \/ ticket'[k].state = "free" /\ dead' = dead \cup {ticket[k].verif}
<1>1. CASE ticket[k].left > 0
  <2>1. ticket' = [ticket EXCEPT ![k] = [state |-> "scheduled", verif |-> ticket[k].verif,
                                        left |-> ticket[k].left - 1]]
    BY <1>1 DEF TicketFailed, TypeOK, Ticket
  <2>2. ticket[k].left - 1 \in 0 .. MaxRetries
    BY <1>1, ConstantsAssumption DEF TypeOK, Ticket
  <2> QED
    BY <1>1, <2>1, <2>2 DEF TicketFailed, TypeOK, Ticket
<1>2. CASE ~(ticket[k].left > 0)
  BY <1>2, TicketDoneFacts DEF TicketFailed, TypeOK
<1> QED
  BY <1>1, <1>2

-----------------------------------------------------------------------------
(***************************************************************************)
(* Frames: what a step leaves intact.                                      *)
(***************************************************************************)

\* Verification v of task t gets the status s, and the task shows it; no other
\* verification of the task is active.
Writes(v, t, s) ==
    /\ ActiveOf(t) \subseteq {v}
    /\ verif[v].status # "absent" => verif[v].task = t
    /\ verif' \in [Verifications -> Verif]
    /\ \A u \in Verifications \ {v} : verif'[u] = verif[u]
    /\ verif'[v].task = t /\ verif'[v].status = s
    /\ shown' = [shown EXCEPT ![t] = s]

LEMMA WriteKeepsOne ==
    ASSUME TypeOK, One, TaskShowsActive,
           NEW v \in Verifications, NEW t \in Tasks, NEW s \in Active \cup Decided,
           Writes(v, t, s)
    PROVE  /\ One' /\ TaskShowsActive'
           /\ \A u \in Verifications \ {v} : verif[u].status \in Active =>
                verif[u].task # t /\ shown'[verif[u].task] = shown[verif[u].task]
<1> USE DEF ActiveOf, VerificationsOf
<1>a. s # "absent" /\ "absent" \notin Active
  BY DEF Active, Decided, Outcomes
<1>1. ActiveOf(t)' = IF s \in Active THEN {v} ELSE {}
  BY <1>a DEF Writes, TypeOK
<1>2. \A x \in Tasks \ {t} : ActiveOf(x)' = ActiveOf(x) /\ shown'[x] = shown[x]
  BY <1>a DEF Writes, TypeOK
<1>3. shown'[t] = s
  BY DEF Writes, TypeOK
<1>4. One'
  BY <1>1, <1>2 DEF One
<1>5. \A u \in ActiveOf(t)' : verif'[u].status = s
  BY <1>1 DEF Writes
<1>6. \A x \in Tasks \ {t} : \A u \in ActiveOf(x) : verif'[u] = verif[u]
  BY <1>a DEF Writes
<1>7. TaskShowsActive'
  BY <1>1, <1>2, <1>3, <1>5, <1>6 DEF TaskShowsActive
<1>8. ASSUME NEW u \in Verifications \ {v}, verif[u].status \in Active
      PROVE  verif[u].task # t /\ shown'[verif[u].task] = shown[verif[u].task]
  <2>1. verif[u].task \in Tasks /\ u \in ActiveOf(verif[u].task)
    BY <1>8, <1>a DEF TypeOK, Verif
  <2> QED
    BY <2>1, <1>2, <1>8 DEF Writes
<1> QED
  BY <1>4, <1>7, <1>8

\* The rows do not change.
LEMMA NoWriteKeepsOne ==
    ASSUME One, TaskShowsActive, UNCHANGED <<shown, verif>>
    PROVE  One' /\ TaskShowsActive'
BY DEF One, TaskShowsActive, ActiveOf, VerificationsOf

\* Nothing happens to the workers, their tickets and what they loaded.
LEMMA WorkersKept ==
    ASSUME WorkersApart, LoadedIsTrue, UNCHANGED worker,
           \A k \in Tickets : ticket[k].state = "started" => ticket'[k] = ticket[k],
           \A w \in Workers : worker[w].pc # "idle" =>
              /\ verif'[HeldBy(w)] = verif[HeldBy(w)]
              /\ shown'[verif[HeldBy(w)].task] = shown[verif[HeldBy(w)].task]
    PROVE  WorkersApart' /\ LoadedIsTrue'
<1>1. WorkersApart'
  BY DEF WorkersApart
<1>2. \A w \in Workers : worker[w].pc # "idle" => HeldBy(w)' = HeldBy(w)
  BY DEF WorkersApart, HeldBy
<1>3. LoadedIsTrue'
  BY <1>2 DEF LoadedIsTrue
<1> QED
  BY <1>1, <1>3

\* A call ends, or goes on without a verification.
LEMMA CallLetsGo ==
    ASSUME TypeOK, CallsApart, CheckedIdle, NEW r \in Requests, NEW rec \in Request,
           request' = [request EXCEPT ![r] = rec],
           rec.pc \notin HasVerif, rec.verif = NoVerification,
           rec.pc = "insert" => rec.shown \notin Active,
           \A u \in Verifications : u # request[r].verif =>
              verif'[u] = verif[u] /\ Waiting(u)' = Waiting(u) /\ (u \in dead' => u \in dead)
    PROVE  CallsApart' /\ CheckedIdle'
<1>1. \A q \in Requests \ {r} : request'[q] = request[q]
  BY DEF TypeOK
<1>2. request'[r] = rec
  BY DEF TypeOK
<1>3. \A q \in Requests \ {r} : request[q].pc \in HasVerif => request[r].verif # request[q].verif
  BY DEF CallsApart
<1>4. CallsApart'
  <2>1. ASSUME NEW q \in Requests \ {r}, request[q].pc \in HasVerif
        PROVE  /\ request'[q].verif \in Verifications
               /\ verif'[request'[q].verif].status = "queued"
               /\ verif'[request'[q].verif].task = request'[q].task
               /\ Waiting(request[q].verif)' = {}
               /\ request'[q].pc = "enqueue" => request'[q].verif \notin dead'
    <3>1. /\ request'[q] = request[q] /\ request[q].verif \in Verifications
          /\ request[q].verif # request[r].verif
      BY <1>1, <1>3, <2>1 DEF CallsApart
    <3>2. /\ verif'[request[q].verif] = verif[request[q].verif]
          /\ Waiting(request[q].verif)' = Waiting(request[q].verif)
          /\ request[q].verif \in dead' => request[q].verif \in dead
      BY <3>1
    <3> QED
      BY <3>1, <3>2, <2>1 DEF CallsApart
  <2>2. ASSUME NEW q \in Requests \ {r}, request[q].pc \in HasVerif,
               NEW p \in Requests, request'[p].verif = request'[q].verif
        PROVE  p = q
    BY <1>1, <1>2, <2>2, NoVerificationFact DEF CallsApart
  <2>3. ASSUME NEW q \in Requests, request'[q].pc \notin HasVerif
        PROVE  request'[q].verif = NoVerification
    BY <1>1, <1>2, <2>3 DEF CallsApart
  <2>4. ASSUME NEW q \in Requests, request'[q].pc \in HasVerif
        PROVE  q \in Requests \ {r} /\ request[q].pc \in HasVerif
    BY <1>1, <1>2, <2>4
  <2>5. "enqueue" \in HasVerif
    BY DEF HasVerif
  <2> QED
    BY <2>1, <2>2, <2>3, <2>4, <2>5 DEF CallsApart
<1>5. CheckedIdle'
  BY <1>1, <1>2 DEF CheckedIdle
<1> QED
  BY <1>4, <1>5

\* A call takes charge of a verification nobody else works on.
LEMMA CallTakesCharge ==
    ASSUME TypeOK, CallsApart, CheckedIdle, NEW r \in Requests, NEW rec \in Request,
           NEW v \in Verifications,
           request' = [request EXCEPT ![r] = rec],
           rec.pc \in HasVerif, rec.verif = v, rec.pc = "enqueue" => v \notin dead,
           \A q \in Requests : request[q].verif # v,
           Waiting(v) = {}, verif'[v].status = "queued", verif'[v].task = rec.task,
           \A u \in Verifications \ {v} : verif'[u] = verif[u],
           UNCHANGED <<ticket, dead>>
    PROVE  CallsApart' /\ CheckedIdle'
<1>1. \A q \in Requests \ {r} : request'[q] = request[q]
  BY DEF TypeOK
<1>2. request'[r] = rec
  BY DEF TypeOK
<1>3. \A u \in Verifications : Waiting(u)' = Waiting(u)
  BY DEF Waiting
<1>4. CallsApart'
  BY <1>1, <1>2, <1>3 DEF CallsApart
<1>5. CheckedIdle'
  BY <1>1, <1>2 DEF CheckedIdle, HasVerif
<1> QED
  BY <1>4, <1>5

\* Only verification v, which waits in ticket k, is touched, and RQ moves only
\* that ticket.
Touches(k, v) ==
    /\ ticket[k].state # "free" /\ ticket[k].verif = v
    /\ \A l \in Tickets \ {k} : ticket'[l] = ticket[l]
    /\ ticket'[k].state # "free" => ticket'[k].verif = v
    /\ \A u \in Verifications \ {v} : verif'[u] = verif[u]
    /\ verif'[v].status # "absent"
    /\ \/ dead' = dead
       \/ dead' = dead \cup {v} /\ ticket'[k].state = "free"

LEMMA TouchKeepsApart ==
    ASSUME TypeOK, TicketsApart, CallsApart, DeadApart, CheckedIdle, UNCHANGED request,
           NEW k \in Tickets, NEW v \in Verifications, Touches(k, v)
    PROVE  TicketsApart' /\ CallsApart' /\ DeadApart' /\ CheckedIdle'
<1>1. \A u \in Verifications : Waiting(u)' \subseteq Waiting(u)
  BY DEF Touches, Waiting
<1>2. k \in Waiting(v) /\ \A l \in Waiting(v) : l = k
  BY DEF Touches, Waiting, TicketsApart
<1>3. ticket'[k].state = "free" => Waiting(v)' = {}
  BY <1>1, <1>2 DEF Waiting
<1>4. TicketsApart'
  <2>1. ASSUME NEW l \in Tickets, ticket'[l].state # "free"
        PROVE  ticket'[l].verif \in Verifications /\ verif'[ticket'[l].verif].status # "absent"
    BY <2>1 DEF Touches, TicketsApart
  <2>2. \A u \in Verifications : \A m, l \in Waiting(u)' : m = l
    BY <1>1 DEF TicketsApart
  <2> QED
    BY <2>1, <2>2 DEF TicketsApart
<1>5. CallsApart'
  <2>1. \A r \in Requests : request[r].verif # v
    BY <1>2, NoVerificationFact DEF CallsApart
  <2>2. \A r \in Requests : request[r].pc \in HasVerif =>
           Waiting(request[r].verif)' = {} /\ verif'[request[r].verif] = verif[request[r].verif]
    BY <2>1, <1>1 DEF CallsApart, Touches
  <2>3. \A r \in Requests : request[r].verif \in dead' => request[r].verif \in dead
    BY <2>1 DEF Touches
  <2> QED
    BY <2>2, <2>3 DEF CallsApart
<1>6. DeadApart'
  <2>1. v \notin dead
    BY <1>2 DEF DeadApart
  <2>2. ASSUME NEW u \in dead
        PROVE  verif'[u].status # "absent" /\ Waiting(u)' = {}
    BY <1>1, <2>1, <2>2 DEF DeadApart, Touches, TypeOK
  <2> QED
    BY <2>2, <1>3 DEF DeadApart, Touches
<1>7. CheckedIdle'
  BY DEF CheckedIdle
<1> QED
  BY <1>4, <1>5, <1>6, <1>7

\* The workers that do not hold ticket k see nothing of it.
LEMMA OthersKept ==
    ASSUME TypeOK, TicketsApart, WorkersApart, LoadedIsTrue,
           NEW w \in Workers, NEW k \in Tickets, NEW v \in Verifications, Touches(k, v),
           \A x \in Workers \ {w} : worker'[x] = worker[x],
           worker[w].pc = "idle" => ticket[k].state # "started",
           worker[w].pc # "idle" => worker[w].ticket = k,
           \A u \in Verifications \ {v} : verif[u].status \in Active =>
              shown'[verif[u].task] = shown[verif[u].task]
    PROVE  \A x \in Workers \ {w} : worker[x].pc # "idle" =>
              /\ worker[x].ticket \in Tickets /\ worker[x].ticket # k
              /\ HeldBy(x)' = HeldBy(x)
              /\ ticket'[worker[x].ticket].state = "started"
              /\ verif'[HeldBy(x)] = verif[HeldBy(x)]
              /\ verif[HeldBy(x)].status \in Active =>
                   shown'[verif[HeldBy(x)].task] = shown[verif[HeldBy(x)].task]
<1> SUFFICES ASSUME NEW x \in Workers \ {w}, worker[x].pc # "idle"
             PROVE  /\ worker[x].ticket \in Tickets /\ worker[x].ticket # k
                    /\ HeldBy(x)' = HeldBy(x)
                    /\ ticket'[worker[x].ticket].state = "started"
                    /\ verif'[HeldBy(x)] = verif[HeldBy(x)]
                    /\ verif[HeldBy(x)].status \in Active =>
                         shown'[verif[HeldBy(x)].task] = shown[verif[HeldBy(x)].task]
  OBVIOUS
<1>1. worker[x].ticket \in Tickets /\ ticket[worker[x].ticket].state = "started"
  BY DEF WorkersApart
<1>2. worker[x].ticket # k
  BY <1>1 DEF WorkersApart
<1>3. ticket'[worker[x].ticket] = ticket[worker[x].ticket]
  BY <1>1, <1>2 DEF Touches
<1>4. HeldBy(x) \in Verifications /\ HeldBy(x) # v
  <2>1. HeldBy(x) \in Verifications
    BY <1>1 DEF TicketsApart, HeldBy
  <2>2. HeldBy(x) = v => worker[x].ticket \in Waiting(v) /\ k \in Waiting(v)
    BY <1>1 DEF Waiting, HeldBy, Touches
  <2> QED
    BY <2>1, <2>2, <1>2 DEF TicketsApart
<1> QED
  BY <1>1, <1>2, <1>3, <1>4 DEF HeldBy, Touches

-----------------------------------------------------------------------------
(***************************************************************************)
(* The calls.                                                              *)
(***************************************************************************)

\* A step that only lets a call go on, without a verification.
LEMMA QuietCall ==
    ASSUME Inv, NEW r \in Requests, NEW rec \in Request,
           request' = [request EXCEPT ![r] = rec],
           rec.pc \notin HasVerif, rec.verif = NoVerification,
           rec.pc = "insert" => rec.shown \notin Active,
           UNCHANGED <<shown, verif, ticket, worker, dead>>,
           status' \in [Tasks -> TaskStatus], lost' \subseteq Verifications,
           faults' \in 0 .. MaxFaults
    PROVE  Inv'
<1> USE DEF Inv
<1>1. TypeOK'
  BY DEF TypeOK
<1>2. One' /\ TaskShowsActive'
  BY NoWriteKeepsOne
<1>3. WorkersApart' /\ LoadedIsTrue'
  BY WorkersKept
<1>4. \A u : Waiting(u)' = Waiting(u)
  BY DEF Waiting
<1>5. TicketsApart' /\ DeadApart'
  BY <1>4 DEF TicketsApart, DeadApart
<1>6. CallsApart' /\ CheckedIdle'
  BY <1>4, CallLetsGo
<1> QED
  BY <1>1, <1>2, <1>3, <1>5, <1>6

LEMMA UpdateReadInv ==
    ASSUME Inv, NEW r \in Requests, NEW t \in Tasks, NEW new \in TaskStatus, UpdateRead(r, t, new)
    PROVE  Inv'
<1> DEFINE rec == [IdleRequest EXCEPT !.pc = "update", !.task = t, !.new = new]
<1>1. rec \in Request /\ rec.pc = "update" /\ rec.verif = NoVerification
  BY IdleFacts DEF Request
<1> QED
  BY <1>1, QuietCall DEF UpdateRead, HasVerif, Inv, TypeOK, rows, past

LEMMA UpdateWriteInv ==
    ASSUME Inv, NEW r \in Requests, UpdateWrite(r)
    PROVE  Inv'
<1> DEFINE rec == IF request[r].new = "implemented"
                  THEN [IdleRequest EXCEPT !.pc = "implemented", !.task = request[r].task,
                                           !.verif = NoVerification]
                  ELSE IdleRequest
<1>1. request[r] \in Request
  BY DEF Inv, TypeOK
<1>2. /\ rec \in Request /\ rec.pc \in {"implemented", "idle"} /\ rec.verif = NoVerification
      /\ request' = [request EXCEPT ![r] = rec]
  BY <1>1, IdleFacts DEF Request, UpdateWrite, Call, Return
<1>3. status' \in [Tasks -> TaskStatus]
  BY <1>1 DEF UpdateWrite, Inv, TypeOK, Request
<1> HIDE DEF rec
<1> QED
  BY <1>2, <1>3, QuietCall DEF UpdateWrite, HasVerif, Inv, TypeOK, past

LEMMA RequestCheckInv ==
    ASSUME Inv, NEW r \in Requests, NEW t \in Tasks, RequestCheck(r, t)
    PROVE  Inv'
<1> DEFINE rec == [IdleRequest EXCEPT !.pc = "insert", !.task = t, !.shown = shown[t]]
<1>1. rec \in Request /\ rec.pc = "insert" /\ rec.verif = NoVerification
  BY IdleFacts DEF Request, Inv, TypeOK
<1>2. rec.shown \notin Active
  BY IdleFacts DEF Request, RequestCheck, CanRequest, Inv, TaskShowsActive
<1> QED
  BY <1>1, <1>2, QuietCall DEF RequestCheck, HasVerif, Inv, TypeOK, rows, past

\* The call returns and leaves the rows and the queue as they are.
LEMMA ReturnInv ==
    ASSUME Inv, NEW r \in Requests, Return(r),
           UNCHANGED <<rows, ticket, worker, dead>>, lost' \subseteq Verifications,
           faults' \in 0 .. MaxFaults
    PROVE  Inv'
BY IdleFacts, QuietCall DEF Return, HasVerif, Inv, TypeOK, rows

LEMMA RequestRefusedInv ==
    ASSUME Inv, NEW r \in Requests, RequestRefused(r)
    PROVE  Inv'
BY ReturnInv DEF RequestRefused, rows, past, Inv, TypeOK

LEMMA LoseInv ==
    ASSUME Inv, NEW r \in Requests, Lose(r)
    PROVE  Inv'
<1>1. lost' \subseteq Verifications
  BY DEF Lose, Inv, TypeOK, Request
<1>2. faults' \in 0 .. MaxFaults
  BY ConstantsAssumption DEF Lose, Inv, TypeOK
<1> QED
  BY <1>1, <1>2, ReturnInv DEF Lose, rows

\* The rows of a verification without a ticket change.
LEMMA WriteBesideQueue ==
    ASSUME Inv, NEW v \in Verifications, NEW t \in Tasks, NEW s \in Active \cup Decided,
           Writes(v, t, s), Waiting(v) = {}, UNCHANGED <<ticket, worker, dead>>
    PROVE  One' /\ TaskShowsActive' /\ WorkersApart' /\ LoadedIsTrue' /\ TicketsApart' /\ DeadApart'
<1> USE DEF Inv
<1>1. /\ One' /\ TaskShowsActive'
      /\ \A u \in Verifications \ {v} : verif[u].status \in Active =>
            shown'[verif[u].task] = shown[verif[u].task]
  BY WriteKeepsOne
<1>2. ASSUME NEW w \in Workers, worker[w].pc # "idle"
      PROVE  /\ verif'[HeldBy(w)] = verif[HeldBy(w)]
             /\ verif[HeldBy(w)].status \in Active =>
                  shown'[verif[HeldBy(w)].task] = shown[verif[HeldBy(w)].task]
  <2>1. worker[w].ticket \in Tickets /\ ticket[worker[w].ticket].state = "started"
    BY <1>2 DEF WorkersApart
  <2>2. HeldBy(w) \in Verifications /\ HeldBy(w) # v
    BY <2>1 DEF HeldBy, TicketsApart, Waiting
  <2> QED
    BY <2>2, <1>1 DEF Writes
<1>3. \A w \in Workers : worker[w].pc # "idle" => verif[HeldBy(w)].status \in Active
  BY DEF LoadedIsTrue, TypeOK, Worker, Active
<1>4. WorkersApart' /\ LoadedIsTrue'
  BY <1>2, <1>3, WorkersKept
<1>5. \A u : Waiting(u)' = Waiting(u)
  BY DEF Waiting
<1>6. \A u \in Verifications : verif[u].status # "absent" => verif'[u].status # "absent"
  BY DEF Writes, Active, Decided, Outcomes
<1>7. TicketsApart'
  BY <1>5, <1>6 DEF TicketsApart
<1>8. DeadApart'
  BY <1>5, <1>6 DEF DeadApart, TypeOK
<1> QED
  BY <1>1, <1>4, <1>7, <1>8

\* A verification nobody works on is put in the hands of a call.
LEMMA ChargeInv ==
    ASSUME Inv, NEW r \in Requests, NEW rec \in Request, NEW v \in Verifications,
           NEW t \in Tasks, Writes(v, t, "queued"),
           request' = [request EXCEPT ![r] = rec],
           rec.pc \in HasVerif, rec.verif = v, rec.task = t,
           rec.pc = "enqueue" => v \notin dead,
           \A q \in Requests : request[q].verif # v,
           Waiting(v) = {},
           UNCHANGED <<status, ticket, worker, dead, past>>
    PROVE  Inv'
<1> USE DEF Inv
<1>1. "queued" \in Active \cup Decided /\ "queued" \in Shown
  BY DEF Active, Shown
<1>2. TypeOK'
  BY <1>1 DEF TypeOK, Writes, past
<1>3. CallsApart' /\ CheckedIdle'
  BY CallTakesCharge DEF Writes
<1> QED
  BY <1>1, <1>2, <1>3, WriteBesideQueue

LEMMA InsertInv ==
    ASSUME Inv, NEW r \in Requests, Insert(r)
    PROVE  Inv'
<1>1. request[r] \in Request /\ request[r].pc = "insert"
  BY DEF Inv, TypeOK, Insert
<1> DEFINE t == request[r].task
<1>2. t \in Tasks
  BY <1>1 DEF Request
<1>3. PICK v \in Verifications :
        /\ \A u \in Verifications : u < v <=> verif[u].status # "absent"
        /\ IF IndexAllows(v, t)
           THEN /\ verif' = [verif EXCEPT ![v] =
                               [task |-> t, status |-> "queued", attempts |-> 0]]
                /\ Show(t, Overwrite(shown[t], request[r].shown, "queued"))
                /\ Call(r, "enqueue", t, v)
           ELSE Return(r) /\ UNCHANGED <<shown, verif>>
  BY DEF Insert
<1>4. CASE ~IndexAllows(v, t)
  BY <1>3, <1>4, ReturnInv DEF Insert, rows, past, Inv, TypeOK
<1>5. CASE IndexAllows(v, t)
  <2> DEFINE rec == [IdleRequest EXCEPT !.pc = "enqueue", !.task = t, !.verif = v]
  <2>1. rec \in Request /\ rec.pc = "enqueue" /\ rec.verif = v /\ rec.task = t
    BY <1>2, IdleFacts DEF Request
  <2>2. verif[v].status = "absent"
    BY <1>3, ConstantsAssumption DEF Verifications
  <2>3. request[r].shown # "queued"
    BY <1>1 DEF Inv, CheckedIdle, Active
  <2>4. [task |-> t, status |-> "queued", attempts |-> 0] \in Verif
    BY <1>2, ConstantsAssumption DEF Verif, VerificationStatus, Active
  <2>5. Writes(v, t, "queued")
    BY <1>2, <1>3, <1>5, <2>2, <2>3, <2>4
       DEF Writes, IndexAllows, Show, Overwrite, Inv, TypeOK
  <2>6. Waiting(v) = {} /\ v \notin dead
    BY <2>2 DEF Inv, TicketsApart, DeadApart, Waiting
  <2>7. \A q \in Requests : request[q].verif # v
    BY <2>2, NoVerificationFact DEF Inv, CallsApart
  <2>8. request' = [request EXCEPT ![r] = rec]
    BY <1>3, <1>5 DEF Call
  <2>9. UNCHANGED <<status, ticket, worker, dead, past>>
    BY DEF Insert
  <2> HIDE DEF rec
  <2> QED
    BY <1>2, <2>1, <2>5, <2>6, <2>7, <2>8, <2>9, ChargeInv DEF HasVerif
<1> QED
  BY <1>4, <1>5

LEMMA RequeueInv ==
    ASSUME Inv, NEW r \in Requests, NEW v \in Verifications, Requeue(r, v)
    PROVE  Inv'
<1> DEFINE t == verif[v].task
           rec == [IdleRequest EXCEPT !.pc = "requeue", !.task = t, !.verif = v]
<1>1. t \in Tasks
  BY DEF Inv, TypeOK, Verif
<1>2. rec \in Request /\ rec.pc = "requeue" /\ rec.verif = v /\ rec.task = t
  BY <1>1, IdleFacts DEF Request
<1>3. Writes(v, t, "queued")
  BY <1>1 DEF Requeue, Writes, IndexAllows, Set, Show, Inv, TypeOK, Verif, VerificationStatus, Active
<1>4. Waiting(v) = {}
  BY DEF Requeue, Inv, DeadApart
<1>5. request' = [request EXCEPT ![r] = rec]
  BY DEF Requeue, Call
<1>6. UNCHANGED <<status, ticket, worker, dead, past>> /\ \A q \in Requests : request[q].verif # v
  BY DEF Requeue
<1> HIDE DEF t, rec
<1> QED
  BY <1>1, <1>2, <1>3, <1>4, <1>5, <1>6, ChargeInv DEF HasVerif

LEMMA RefuseWriteInv ==
    ASSUME Inv, NEW r \in Requests, RefuseWrite(r)
    PROVE  Inv'
<1> DEFINE v == request[r].verif
           t == request[r].task
<1>1. /\ v \in Verifications /\ verif[v].status = "queued" /\ verif[v].task = t
      /\ Waiting(v) = {} /\ t \in Tasks
  BY DEF RefuseWrite, HasVerif, Inv, CallsApart, TypeOK, Request
<1>2. v \in ActiveOf(t)
  BY <1>1 DEF ActiveOf, VerificationsOf, Active
<1>3. Writes(v, t, "error")
  BY <1>1, <1>2 DEF RefuseWrite, Set, Show, Writes, Inv, One, TypeOK, Verif, VerificationStatus, Decided
<1>4. "error" \in Active \cup Decided /\ "error" \in Shown
  BY DEF Decided, Shown
<1>5. TypeOK'
  BY <1>3, <1>4, <1>1, IdleFacts DEF RefuseWrite, Writes, Return, Inv, TypeOK, past
<1>6. \A u : Waiting(u)' = Waiting(u)
  BY DEF RefuseWrite, Waiting
<1>7. CallsApart' /\ CheckedIdle'
  BY <1>3, <1>6, IdleFacts, CallLetsGo DEF RefuseWrite, Return, Writes, Inv, HasVerif
<1>8. UNCHANGED <<ticket, worker, dead>>
  BY DEF RefuseWrite
<1> HIDE DEF v, t
<1> QED
  BY <1>1, <1>3, <1>4, <1>5, <1>7, <1>8, WriteBesideQueue DEF Inv

\* The queue refused: the call goes on to write that down.
LEMMA RefusedInv ==
    ASSUME Inv, NEW r \in Requests, request[r].pc \in HasVerif,
           request' = [request EXCEPT ![r].pc = "refused"],
           UNCHANGED <<rows, ticket, worker, dead, past>>
    PROVE  Inv'
<1> USE DEF Inv
<1>1. TypeOK'
  BY DEF TypeOK, rows, past, Request
<1>2. One' /\ TaskShowsActive'
  BY NoWriteKeepsOne DEF rows
<1>3. WorkersApart' /\ LoadedIsTrue'
  BY WorkersKept DEF rows
<1>4. \A u : Waiting(u)' = Waiting(u)
  BY DEF Waiting
<1>5. TicketsApart' /\ DeadApart'
  BY <1>4 DEF TicketsApart, DeadApart, rows
<1>6. /\ \A q \in Requests : request'[q].verif = request[q].verif /\ request'[q].task = request[q].task
      /\ \A q \in Requests : request'[q].pc \in HasVerif <=> request[q].pc \in HasVerif
      /\ \A q \in Requests : request'[q].pc = request[q].pc \/ request'[q].pc = "refused"
  BY DEF TypeOK, Request, HasVerif
<1>7. CallsApart'
  BY <1>4, <1>6 DEF CallsApart, rows
<1>8. CheckedIdle'
  BY <1>6 DEF CheckedIdle, TypeOK, Request
<1> QED
  BY <1>1, <1>2, <1>3, <1>5, <1>7, <1>8

\* The call hands its verification to RQ.
LEMMA EnqueueInv ==
    ASSUME Inv, NEW r \in Requests, request[r].pc \in HasVerif,
           Enqueue(request[r].verif), Return(r),
           dead' \subseteq dead, request[r].verif \notin dead',
           UNCHANGED <<rows, worker, past>>
    PROVE  Inv'
<1> USE DEF Inv
<1>a. PICK v \in Verifications : v = request[r].verif
  BY DEF CallsApart
<1>1. verif[v].status = "queued" /\ Waiting(v) = {}
  BY <1>a DEF CallsApart
<1>2. ticket' \in [Tickets -> Ticket]
  BY <1>a, EnqueueFacts
<1>3. PICK k \in Tickets :
        /\ ticket[k].state = "free" /\ ticket'[k].state = "queued" /\ ticket'[k].verif = v
        /\ \A l \in Tickets \ {k} : ticket'[l] = ticket[l]
  BY <1>a, EnqueueFacts
<1>4. TypeOK'
  BY <1>2, IdleFacts DEF TypeOK, Return, rows, past
<1>5. One' /\ TaskShowsActive'
  BY NoWriteKeepsOne DEF rows
<1>6. WorkersApart' /\ LoadedIsTrue'
  BY <1>3, WorkersKept DEF rows
<1>7. Waiting(v)' = {k} /\ \A u \in Verifications \ {v} : Waiting(u)' = Waiting(u)
  BY <1>1, <1>3 DEF Waiting
<1>8. TicketsApart'
  <2>1. \A u \in Verifications : \A l, m \in Waiting(u)' : l = m
    BY <1>7 DEF TicketsApart
  <2>2. \A l \in Tickets : ticket'[l].state # "free" =>
           ticket'[l].verif \in Verifications /\ verif[ticket'[l].verif].status # "absent"
    BY <1>1, <1>3 DEF TicketsApart
  <2> QED
    BY <2>1, <2>2 DEF TicketsApart, rows
<1>9. DeadApart'
  <2>1. \A u \in dead' : u \in Verifications \ {v} /\ u \in dead
    BY <1>a DEF TypeOK
  <2> QED
    BY <2>1, <1>7 DEF DeadApart, rows
<1>10. CallsApart' /\ CheckedIdle'
  BY <1>a, <1>7, IdleFacts, CallLetsGo DEF Return, rows, HasVerif
<1> QED
  BY <1>4, <1>5, <1>6, <1>8, <1>9, <1>10

LEMMA EnqueueCallInv ==
    ASSUME Inv, NEW r \in Requests, EnqueueCall(r)
    PROVE  Inv'
<1>1. request[r].pc \in HasVerif /\ request[r].verif \notin dead
  BY DEF EnqueueCall, HasVerif, Inv, CallsApart
<1>2. CASE HasCapacity
  BY <1>1, <1>2, EnqueueInv DEF EnqueueCall
<1>3. CASE ~HasCapacity
  BY <1>1, <1>3, RefusedInv DEF EnqueueCall
<1> QED
  BY <1>2, <1>3

LEMMA RequeueCallInv ==
    ASSUME Inv, NEW r \in Requests, RequeueCall(r)
    PROVE  Inv'
<1>1. request[r].pc \in HasVerif
  BY DEF RequeueCall, HasVerif
<1>2. CASE HasCapacity
  BY <1>1, <1>2, EnqueueInv DEF RequeueCall
<1>3. CASE ~HasCapacity
  BY <1>1, <1>3, RefusedInv DEF RequeueCall
<1> QED
  BY <1>2, <1>3

-----------------------------------------------------------------------------
(***************************************************************************)
(* The workers.                                                            *)
(***************************************************************************)

\* A worker that does something holds the only active verification of a task.
LEMMA Holding ==
    ASSUME Inv, NEW w \in Workers, worker[w].pc # "idle"
    PROVE  /\ worker[w].ticket \in Tickets /\ HeldBy(w) \in Verifications
           /\ ticket[worker[w].ticket].state = "started"
           /\ verif[HeldBy(w)].status \in Active
           /\ verif[HeldBy(w)].task \in Tasks
           /\ ActiveOf(verif[HeldBy(w)].task) \subseteq {HeldBy(w)}
<1>1. worker[w].ticket \in Tickets /\ ticket[worker[w].ticket].state = "started"
  BY DEF Inv, WorkersApart
<1>2. HeldBy(w) \in Verifications
  BY <1>1 DEF HeldBy, Inv, TicketsApart
<1>3. verif[HeldBy(w)].status \in Active
  BY DEF Inv, LoadedIsTrue, TypeOK, Worker, Active
<1>4. verif[HeldBy(w)].task \in Tasks
  BY <1>2 DEF Inv, TypeOK, Verif
<1>5. HeldBy(w) \in ActiveOf(verif[HeldBy(w)].task)
  BY <1>2, <1>3 DEF ActiveOf, VerificationsOf, Active
<1> QED
  BY <1>1, <1>2, <1>3, <1>4, <1>5 DEF Inv, One

\* A worker turns to record rec; with what it holds, rec is true.
LEMMA WorkerMoves ==
    ASSUME Inv, NEW w \in Workers, NEW k \in Tickets, NEW v \in Verifications, Touches(k, v),
           NEW rec \in Worker, worker' = [worker EXCEPT ![w] = rec],
           worker[w].pc = "idle" => ticket[k].state # "started",
           worker[w].pc # "idle" => worker[w].ticket = k,
           rec.pc # "idle" => rec.ticket = k /\ ticket'[k].state = "started",
           rec.pc = "loaded" => /\ rec.verif \in Active /\ verif'[v].status = rec.verif
                                /\ shown'[verif'[v].task] = rec.seen.shown,
           rec.pc = "checking" => verif'[v].status = "running",
           \A u \in Verifications \ {v} : verif[u].status \in Active =>
              shown'[verif[u].task] = shown[verif[u].task]
    PROVE  WorkersApart' /\ LoadedIsTrue'
<1>1. /\ \A x \in Workers \ {w} : worker'[x] = worker[x]
      /\ worker'[w] = rec
  BY DEF Inv, TypeOK
<1>2. \A x \in Workers \ {w} : worker[x].pc # "idle" =>
              /\ worker[x].ticket \in Tickets /\ worker[x].ticket # k
              /\ HeldBy(x)' = HeldBy(x)
              /\ ticket'[worker[x].ticket].state = "started"
              /\ verif'[HeldBy(x)] = verif[HeldBy(x)]
              /\ verif[HeldBy(x)].status \in Active =>
                   shown'[verif[HeldBy(x)].task] = shown[verif[HeldBy(x)].task]
  BY <1>1, OthersKept DEF Inv
<1>3. WorkersApart'
  BY <1>1, <1>2 DEF WorkersApart, Inv
<1>4. ASSUME NEW x \in Workers \ {w}
      PROVE  /\ worker'[x].pc = "loaded" =>
                  /\ worker'[x].verif \in Active
                  /\ verif'[HeldBy(x)'].status = worker'[x].verif
                  /\ shown'[verif'[HeldBy(x)'].task] = worker'[x].seen.shown
             /\ worker'[x].pc = "checking" => verif'[HeldBy(x)'].status = "running"
  BY <1>1, <1>2 DEF Inv, LoadedIsTrue
<1>5. rec.pc # "idle" => HeldBy(w)' = v
  BY <1>1 DEF HeldBy, Touches
<1>6. LoadedIsTrue'
  BY <1>1, <1>4, <1>5 DEF LoadedIsTrue
<1> QED
  BY <1>3, <1>6

LEMMA TakeInv ==
    ASSUME Inv, NEW w \in Workers, NEW k \in Tickets, Take(w, k)
    PROVE  Inv'
<1> USE DEF Inv
<1>1. PICK v \in Verifications :
        v = ticket[k].verif /\ verif[v].status # "absent" /\ verif[v].task \in Tasks
  BY DEF Take, TicketsApart, TypeOK, Verif
<1>2. UNCHANGED <<rows, request, dead, past>> /\ worker[w].pc = "idle" /\ ticket[k].state = "queued"
  BY DEF Take
<1>3. One' /\ TaskShowsActive'
  BY <1>2, NoWriteKeepsOne DEF rows
<1>4. CASE verif[v].status \in Active
  <2> DEFINE rec == [pc |-> "loaded", ticket |-> k, verif |-> verif[v].status,
                     attempts |-> verif[v].attempts,
                     seen |-> [status |-> status[verif[v].task], shown |-> shown[verif[v].task]]]
  <2>1. ticket' = [ticket EXCEPT ![k].state = "started"] /\ worker' = [worker EXCEPT ![w] = rec]
    BY <1>1, <1>4 DEF Take, LoadInto
  <2>2. rec \in Worker
    BY <1>1 DEF TypeOK, Verif, Worker, Loaded
  <2>3. ticket' \in [Tickets -> Ticket]
    BY <2>1 DEF TypeOK, Ticket
  <2>4. Touches(k, v) /\ ticket'[k].state = "started"
    BY <1>1, <1>2, <2>1 DEF Touches, rows, TypeOK, Ticket
  <2>5. TypeOK'
    BY <1>2, <2>1, <2>2, <2>3 DEF TypeOK, rows, past
  <2>6. TicketsApart' /\ CallsApart' /\ DeadApart' /\ CheckedIdle'
    BY <1>2, <2>4, TouchKeepsApart
  <2>7. /\ rec.pc = "loaded" /\ rec.ticket = k /\ rec.verif = verif[v].status
        /\ rec.seen.shown = shown[verif[v].task]
    OBVIOUS
  <2> HIDE DEF rec
  <2>8. WorkersApart' /\ LoadedIsTrue'
    BY <1>2, <1>4, <2>1, <2>2, <2>4, <2>7, WorkerMoves DEF rows
  <2> QED
    BY <1>3, <2>5, <2>6, <2>8
<1>5. CASE verif[v].status \notin Active
  <2>1. TicketDone(k) /\ UNCHANGED worker
    BY <1>1, <1>5 DEF Take
  <2>2. /\ ticket' \in [Tickets -> Ticket] /\ ticket'[k].state = "free"
        /\ \A l \in Tickets \ {k} : ticket'[l] = ticket[l]
    BY <2>1, TicketDoneFacts
  <2>3. Touches(k, v)
    BY <1>1, <1>2, <2>2 DEF Touches, rows
  <2>4. TypeOK'
    BY <1>2, <2>1, <2>2 DEF TypeOK, rows, past
  <2>5. TicketsApart' /\ CallsApart' /\ DeadApart' /\ CheckedIdle'
    BY <1>2, <2>3, TouchKeepsApart
  <2>6. WorkersApart' /\ LoadedIsTrue'
    BY <1>2, <2>1, <2>2, WorkersKept DEF rows
  <2> QED
    BY <1>3, <2>4, <2>5, <2>6
<1> QED
  BY <1>4, <1>5

LEMMA PromoteInv ==
    ASSUME Inv, NEW k \in Tickets, Promote(k)
    PROVE  Inv'
<1> USE DEF Inv
<1>1. PICK v \in Verifications : v = ticket[k].verif /\ verif[v].status # "absent"
  BY DEF Promote, TicketsApart
<1>2. UNCHANGED <<rows, worker, request, dead, past>> /\ ticket[k].state = "scheduled"
  BY DEF Promote
<1>3. ticket' \in [Tickets -> Ticket]
  BY DEF Promote, TypeOK, Ticket
<1>4. Touches(k, v)
  BY <1>1, <1>2 DEF Promote, Touches, rows, TypeOK, Ticket
<1>5. TypeOK'
  BY <1>2, <1>3 DEF TypeOK, rows, past
<1>6. One' /\ TaskShowsActive'
  BY <1>2, NoWriteKeepsOne DEF rows
<1>7. TicketsApart' /\ CallsApart' /\ DeadApart' /\ CheckedIdle'
  BY <1>2, <1>4, TouchKeepsApart
<1>8. WorkersApart' /\ LoadedIsTrue'
  BY <1>2, <1>4, WorkersKept DEF rows, Touches
<1> QED
  BY <1>5, <1>6, <1>7, <1>8

LEMMA StartInv ==
    ASSUME Inv, NEW w \in Workers, Start(w)
    PROVE  Inv'
<1> USE DEF Inv
<1>1. worker[w].pc = "loaded" /\ worker[w] \in Worker
  BY DEF Start, TypeOK
<1>2. PICK k \in Tickets, v \in Verifications, t \in Tasks :
        /\ k = worker[w].ticket /\ v = ticket[k].verif /\ t = verif[v].task
        /\ ticket[k].state = "started" /\ verif[v].status \in Active /\ ActiveOf(t) \subseteq {v}
  BY <1>1, Holding DEF HeldBy
<1>3. /\ verif[v].status = worker[w].verif
      /\ shown[t] = worker[w].seen.shown
  BY <1>1, <1>2 DEF LoadedIsTrue, HeldBy
<1>4. /\ verif' = [verif EXCEPT ![v].status = "running",
                               ![v].attempts = Least(worker[w].attempts + 1, MaxAttempts)]
      /\ shown' = [shown EXCEPT ![t] = "running"]
      /\ worker' = [worker EXCEPT ![w].pc = "checking"]
      /\ UNCHANGED <<status, ticket, request, dead, past>>
  BY <1>2, <1>3 DEF Start, Show, Overwrite, TypeOK
<1>5. Least(worker[w].attempts + 1, MaxAttempts) \in 0 .. MaxAttempts
  BY <1>1, ConstantsAssumption DEF Least, Worker
<1>6. verif' \in [Verifications -> Verif]
  BY <1>4, <1>5 DEF TypeOK, Verif, VerificationStatus, Active
<1>7. Writes(v, t, "running")
  BY <1>2, <1>4, <1>6 DEF Writes, TypeOK, Verif
<1>8. "running" \in Active \cup Decided /\ "running" \in Shown /\ "running" # "absent"
  BY DEF Active, Shown
<1>9. /\ One' /\ TaskShowsActive'
      /\ \A u \in Verifications \ {v} : verif[u].status \in Active =>
            shown'[verif[u].task] = shown[verif[u].task]
  BY <1>7, <1>8, WriteKeepsOne
<1>10. Touches(k, v)
  BY <1>2, <1>4, <1>7, <1>8 DEF Touches, Writes
<1>11. TicketsApart' /\ CallsApart' /\ DeadApart' /\ CheckedIdle'
  BY <1>4, <1>10, TouchKeepsApart
<1> DEFINE rec == [worker[w] EXCEPT !.pc = "checking"]
<1>12. rec \in Worker /\ rec.pc = "checking" /\ rec.ticket = k /\ worker' = [worker EXCEPT ![w] = rec]
  BY <1>1, <1>2, <1>4 DEF Worker, TypeOK
<1>13. TypeOK'
  BY <1>4, <1>6, <1>8, <1>12 DEF TypeOK, past
<1> HIDE DEF rec
<1>14. WorkersApart' /\ LoadedIsTrue'
  <2>1. verif'[v].status = "running" /\ ticket'[k].state = "started"
    BY <1>2, <1>4, <1>7 DEF Writes
  <2> QED
    BY <1>1, <1>2, <1>9, <1>10, <1>12, <2>1, WorkerMoves
<1> QED
  BY <1>9, <1>11, <1>13, <1>14

\* A worker ends its attempt: it writes s, or nothing, and lets the ticket go.
LEMMA ReleaseInv ==
    ASSUME Inv, NEW w \in Workers, NEW k \in Tickets, NEW v \in Verifications, NEW t \in Tasks,
           worker[w].pc # "idle", worker[w].ticket = k, ticket[k].verif = v, verif[v].task = t,
           WorkerIdle(w),
           \/ UNCHANGED <<verif, shown>>
           \/ \E s \in Active \cup Decided : Set(v, s) /\ Show(t, s),
           \/ TicketDone(k) /\ UNCHANGED dead
           \/ TicketFailed(k),
           status' \in [Tasks -> TaskStatus], faults' \in 0 .. MaxFaults,
           UNCHANGED <<request, lost>>
    PROVE  Inv'
<1> USE DEF Inv
<1>1. /\ ticket[k].state = "started" /\ verif[v].status \in Active /\ ActiveOf(t) \subseteq {v}
      /\ verif[v].status # "absent"
  BY Holding DEF HeldBy, Active
<1>2. /\ ticket' \in [Tickets -> Ticket] /\ dead' \subseteq Verifications
      /\ \A l \in Tickets \ {k} : ticket'[l] = ticket[l]
      /\ \/ ticket'[k].verif = v /\ dead' = dead
         \/ ticket'[k].state = "free" /\ (dead' = dead \/ dead' = dead \cup {v})
  BY TicketDoneFacts, TicketFailedFacts DEF TypeOK
<1>3. /\ One' /\ TaskShowsActive'
      /\ verif' \in [Verifications -> Verif] /\ shown' \in [Tasks -> Shown]
      /\ \A u \in Verifications \ {v} : verif'[u] = verif[u]
      /\ verif'[v].status # "absent"
      /\ \A u \in Verifications \ {v} : verif[u].status \in Active =>
            shown'[verif[u].task] = shown[verif[u].task]
  <2>1. CASE UNCHANGED <<verif, shown>>
    BY <1>1, <2>1, NoWriteKeepsOne DEF TypeOK
  <2>2. CASE \E s \in Active \cup Decided : Set(v, s) /\ Show(t, s)
    <3>1. PICK s \in Active \cup Decided : Set(v, s) /\ Show(t, s)
      BY <2>2
    <3>2. s # "absent" /\ s \in Shown /\ s \in VerificationStatus
      BY DEF Active, Decided, Outcomes, Shown, VerificationStatus
    <3>3. Writes(v, t, s) /\ shown' \in [Tasks -> Shown]
      BY <1>1, <3>1, <3>2 DEF Writes, Set, Show, TypeOK, Verif
    <3> QED
      <4>1. /\ One' /\ TaskShowsActive'
            /\ \A u \in Verifications \ {v} : verif[u].status \in Active =>
                 shown'[verif[u].task] = shown[verif[u].task]
        BY <3>3, WriteKeepsOne
      <4>2. /\ verif' \in [Verifications -> Verif] /\ verif'[v].status # "absent"
            /\ \A u \in Verifications \ {v} : verif'[u] = verif[u]
        BY <3>2, <3>3 DEF Writes
      <4> QED
        BY <3>3, <4>1, <4>2
  <2> QED
    BY <2>1, <2>2
<1>4. Touches(k, v)
  BY <1>1, <1>2, <1>3 DEF Touches
<1>5. TicketsApart' /\ CallsApart' /\ DeadApart' /\ CheckedIdle'
  BY <1>4, TouchKeepsApart
<1>6. worker' = [worker EXCEPT ![w] = IdleWorker]
  BY DEF WorkerIdle
<1>7. TypeOK'
  BY <1>2, <1>3, <1>6, IdleFacts DEF TypeOK
<1>8. WorkersApart' /\ LoadedIsTrue'
  BY <1>3, <1>4, <1>6, IdleFacts, WorkerMoves
<1> QED
  BY <1>3, <1>5, <1>7, <1>8

LEMMA FinishInv ==
    ASSUME Inv, NEW w \in Workers, NEW outcome \in Outcomes, Finish(w, outcome)
    PROVE  Inv'
<1>1. worker[w].pc # "idle"
  BY DEF Finish
<1>2. PICK k \in Tickets, v \in Verifications, t \in Tasks :
        k = worker[w].ticket /\ v = ticket[k].verif /\ t = verif[v].task
  BY <1>1, Holding DEF HeldBy
<1>3. outcome \in Active \cup Decided /\ Set(v, outcome) /\ Show(t, outcome)
  BY <1>2 DEF Finish, Decided
<1>4. status' \in [Tasks -> TaskStatus]
  <2>1. Applied(outcome) \in TaskStatus
    BY DEF Applied, Outcomes, TaskStatus
  <2>2. PICK new \in TaskStatus : status' = [status EXCEPT ![t] = new]
    BY <1>2, <2>1 DEF Finish, Overwrite, Inv, TypeOK
  <2> QED
    BY <2>2 DEF Inv, TypeOK
<1>5. /\ TicketDone(k) /\ WorkerIdle(w) /\ UNCHANGED <<request, dead, past>>
  BY <1>2 DEF Finish
<1>6. faults' \in 0 .. MaxFaults
  BY <1>5 DEF past, Inv, TypeOK
<1>7. UNCHANGED dead /\ UNCHANGED <<request, lost>>
  BY <1>5 DEF past
<1> QED
  BY <1>1, <1>2, <1>3, <1>4, <1>5, <1>6, <1>7, ReleaseInv

LEMMA FailInv ==
    ASSUME Inv, NEW w \in Workers, Fail(w)
    PROVE  Inv'
<1>1. worker[w].pc # "idle"
  BY DEF Fail
<1>2. PICK k \in Tickets, v \in Verifications, t \in Tasks :
        k = worker[w].ticket /\ v = ticket[k].verif /\ t = verif[v].task
  BY <1>1, Holding DEF HeldBy
<1>3. \E s \in Active \cup Decided : Set(v, s) /\ Show(t, s)
  BY <1>2 DEF Fail, Active, Decided
<1>4. TicketFailed(k) /\ WorkerIdle(w) /\ UNCHANGED <<status, request, past>>
  BY <1>2 DEF Fail
<1>5. status' \in [Tasks -> TaskStatus] /\ faults' \in 0 .. MaxFaults
  BY <1>4 DEF past, Inv, TypeOK
<1>6. UNCHANGED <<request, lost>>
  BY <1>4 DEF past
<1> QED
  BY <1>1, <1>2, <1>3, <1>4, <1>5, <1>6, ReleaseInv

LEMMA KillInv ==
    ASSUME Inv, NEW w \in Workers, Kill(w)
    PROVE  Inv'
<1>1. worker[w].pc # "idle"
  BY DEF Kill
<1>2. PICK k \in Tickets, v \in Verifications, t \in Tasks :
        k = worker[w].ticket /\ v = ticket[k].verif /\ t = verif[v].task
  BY <1>1, Holding DEF HeldBy
<1>3. UNCHANGED <<verif, shown>> /\ TicketFailed(k) /\ WorkerIdle(w) /\ UNCHANGED <<request, lost>>
  BY <1>2 DEF Kill, rows
<1>4. status' \in [Tasks -> TaskStatus]
  BY DEF Kill, rows, Inv, TypeOK
<1>5. faults' \in 0 .. MaxFaults
  BY ConstantsAssumption DEF Kill, Inv, TypeOK
<1> QED
  BY <1>1, <1>2, <1>3, <1>4, <1>5, ReleaseInv

-----------------------------------------------------------------------------
(***************************************************************************)
(* The invariant holds.                                                    *)
(***************************************************************************)

LEMMA InitInv == Init => Inv
<1> SUFFICES ASSUME Init PROVE Inv
  OBVIOUS
<1>1. AnyTask \in Tasks
  BY ConstantsAssumption DEF AnyTask
<1>2. TypeOK
  <2>1. /\ status \in [Tasks -> TaskStatus] /\ shown \in [Tasks -> Shown]
        /\ verif \in [Verifications -> Verif]
    BY <1>1, ConstantsAssumption DEF Init, TaskStatus, Shown, Verif, VerificationStatus
  <2>2. ticket \in [Tickets -> Ticket]
    BY ConstantsAssumption DEF Init, FreeTicket, Ticket
  <2>3. worker \in [Workers -> Worker] /\ request \in [Requests -> Request]
    BY IdleFacts DEF Init
  <2>4. dead \subseteq Verifications /\ lost \subseteq Verifications /\ faults \in 0 .. MaxFaults
    BY ConstantsAssumption DEF Init
  <2> QED
    BY <2>1, <2>2, <2>3, <2>4 DEF TypeOK
<1>3. \A t \in Tasks : ActiveOf(t) = {} /\ shown[t] \notin Active
  BY DEF Init, ActiveOf, VerificationsOf, Active
<1>4. One /\ TaskShowsActive
  BY <1>3 DEF One, TaskShowsActive
<1>5. TicketsApart /\ DeadApart
  BY DEF Init, FreeTicket, Waiting, TicketsApart, DeadApart
<1>6. WorkersApart /\ LoadedIsTrue
  BY IdleFacts DEF Init, WorkersApart, LoadedIsTrue
<1>7. CallsApart /\ CheckedIdle
  BY IdleFacts DEF Init, CallsApart, CheckedIdle, HasVerif
<1> QED
  BY <1>2, <1>4, <1>5, <1>6, <1>7 DEF Inv

LEMMA StutterInv == Inv /\ UNCHANGED vars => Inv'
<1> SUFFICES ASSUME Inv, UNCHANGED vars PROVE Inv'
  OBVIOUS
<1> USE DEF vars, rows, past, Inv
<1>1. TypeOK'
  BY DEF TypeOK
<1>2. One' /\ TaskShowsActive'
  BY NoWriteKeepsOne
<1>3. WorkersApart' /\ LoadedIsTrue'
  BY WorkersKept
<1>4. TicketsApart' /\ DeadApart'
  BY DEF TicketsApart, DeadApart, Waiting
<1>5. CallsApart' /\ CheckedIdle'
  BY DEF CallsApart, CheckedIdle, Waiting
<1> QED
  BY <1>1, <1>2, <1>3, <1>4, <1>5

LEMMA NextInv == Inv /\ [Next]_vars => Inv'
<1> SUFFICES ASSUME Inv, [Next]_vars PROVE Inv'
  OBVIOUS
<1>1. ASSUME NEW w \in Workers, WorkerStep(w) \/ Kill(w) PROVE Inv'
  <2>1. CASE \E k \in Tickets : Take(w, k)
    BY <2>1, TakeInv
  <2>2. CASE Start(w)
    BY <2>2, StartInv
  <2>3. CASE \E outcome \in Outcomes : Finish(w, outcome)
    BY <2>3, FinishInv
  <2>4. CASE Fail(w) \/ Kill(w)
    BY <2>4, FailInv, KillInv
  <2> QED
    BY <1>1, <2>1, <2>2, <2>3, <2>4 DEF WorkerStep
<1>2. ASSUME NEW r \in Requests, CallStep(r) PROVE Inv'
  <2>1. CASE UpdateWrite(r) \/ RequestRefused(r) \/ Insert(r)
    BY <2>1, UpdateWriteInv, RequestRefusedInv, InsertInv
  <2>2. CASE \E t \in Tasks : request[r].pc = "implemented" /\ RequestCheck(r, t)
    BY <2>2, RequestCheckInv
  <2>3. CASE EnqueueCall(r) \/ RefuseWrite(r) \/ RequeueCall(r)
    BY <2>3, EnqueueCallInv, RefuseWriteInv, RequeueCallInv
  <2> QED
    BY <1>2, <2>1, <2>2, <2>3 DEF CallStep
<1>3. ASSUME NEW r \in Requests, UserStep(r) \/ Lose(r) PROVE Inv'
  <2>1. CASE \E t \in Tasks : RequestCheck(r, t)
    BY <2>1, RequestCheckInv
  <2>2. CASE \E t \in Tasks, new \in TaskStatus : UpdateRead(r, t, new)
    BY <2>2, UpdateReadInv
  <2>3. CASE \E v \in Verifications : Requeue(r, v)
    BY <2>3, RequeueInv
  <2>4. CASE Lose(r)
    BY <2>4, LoseInv
  <2> QED
    BY <1>3, <2>1, <2>2, <2>3, <2>4 DEF UserStep
<1>4. ASSUME NEW k \in Tickets, Promote(k) PROVE Inv'
  BY <1>4, PromoteInv
<1>5. CASE UNCHANGED vars
  BY <1>5, StutterInv
<1> QED
  BY <1>1, <1>2, <1>3, <1>4, <1>5 DEF Next

-----------------------------------------------------------------------------
(***************************************************************************)
(* What follows.                                                           *)
(***************************************************************************)

\* A verification has one holder at a time, and what a worker loaded is true.
THEOREM InvHolds == Spec => []Inv
BY InitInv, NextInv, PTL DEF Spec

\* Every variable keeps its type.
THEOREM TypeCorrect == Spec => []TypeOK
<1>1. Inv => TypeOK
  BY DEF Inv
<1> QED
  BY <1>1, InvHolds, PTL

\* A task has at most one active verification.
THEOREM OneActive == Spec => []OneActiveVerification
<1>1. Inv => OneActiveVerification
  <2> SUFFICES ASSUME Inv, NEW t \in Tasks PROVE Cardinality(ActiveOf(t)) <= 1
    BY DEF OneActiveVerification
  <2>1. CASE ActiveOf(t) = {}
    BY <2>1, FS_EmptySet
  <2>2. CASE ActiveOf(t) # {}
    <3>1. PICK v : v \in ActiveOf(t)
      BY <2>2
    <3>2. ActiveOf(t) = {v}
      BY <3>1 DEF Inv, One
    <3>3. Cardinality({v}) = 1
      BY FS_Singleton
    <3> QED
      BY <3>2, <3>3
  <2> QED
    BY <2>1, <2>2
<1> QED
  BY <1>1, InvHolds, PTL

\* A task shows queued or running exactly while a verification of it is.
THEOREM ShownIsActive == Spec => []TaskShowsActive
<1>1. Inv => TaskShowsActive
  BY DEF Inv
<1> QED
  BY <1>1, InvHolds, PTL

\* No two workers execute one verification.
THEOREM OneWorker == Spec => []OneWorkerPerVerification
<1>1. Inv => OneWorkerPerVerification
  <2> SUFFICES ASSUME Inv, NEW w \in Workers, NEW x \in Workers,
                      worker[w].pc # "idle", worker[x].pc # "idle", HeldBy(w) = HeldBy(x)
               PROVE  w = x
    BY DEF OneWorkerPerVerification, HeldBy
  <2>1. worker[w].ticket \in Waiting(HeldBy(w)) /\ worker[x].ticket \in Waiting(HeldBy(w))
    BY Holding DEF Waiting, HeldBy
  <2>2. worker[w].ticket = worker[x].ticket
    BY <2>1, Holding DEF Inv, TicketsApart
  <2> QED
    BY <2>2 DEF Inv, WorkersApart
<1> QED
  BY <1>1, InvHolds, PTL

\* Only a step that requeues a dead letter touches a decided verification.
THEOREM OutcomeIsFinal == Spec => DecidedIsFinal
<1> DEFINE Final == \A v \in Verifications :
             verif[v].status \in Decided /\ verif'[v].status # verif[v].status => v \in dead
<1>1. Inv /\ [Next]_vars => [Final]_vars
  <2> SUFFICES ASSUME Inv, [Next]_vars, NEW v \in Verifications,
                      verif[v].status \in Decided, verif'[v].status # verif[v].status
               PROVE  v \in dead
    OBVIOUS
  <2>a. verif \in [Verifications -> Verif] /\ verif[v].status \notin Active \cup {"absent"}
    BY DEF Inv, TypeOK, Decided, Outcomes, Active
  <2>1. ASSUME NEW w \in Workers, WorkerStep(w) \/ Kill(w) PROVE v \in dead
    <3>1. CASE worker[w].pc # "idle"
      <4>1. v # HeldBy(w)
        BY <2>a, <3>1, Holding
      <4>2. CASE \E k \in Tickets : Take(w, k)
        BY <4>2 DEF Take, rows
      <4>3. CASE Start(w)
        BY <2>a, <4>1, <4>3 DEF Start, HeldBy
      <4>4. CASE (\E outcome \in Outcomes : Finish(w, outcome)) \/ Fail(w)
        BY <2>a, <4>1, <4>4 DEF Finish, Fail, Set, HeldBy
      <4>5. CASE Kill(w)
        BY <4>5 DEF Kill, rows
      <4> QED
        BY <2>1, <4>2, <4>3, <4>4, <4>5 DEF WorkerStep
    <3>2. CASE worker[w].pc = "idle"
      BY <2>1, <3>2 DEF WorkerStep, Take, Start, Finish, Fail, Kill, rows
    <3> QED
      BY <3>1, <3>2
  <2>2. ASSUME NEW r \in Requests, CallStep(r) PROVE v \in dead
    <3>1. CASE UpdateWrite(r) \/ RequestRefused(r) \/ EnqueueCall(r) \/ RequeueCall(r)
      BY <3>1 DEF UpdateWrite, RequestRefused, EnqueueCall, RequeueCall, rows
    <3>2. CASE \E t \in Tasks : RequestCheck(r, t)
      BY <3>2 DEF RequestCheck, rows
    <3>3. CASE Insert(r)
      <4>1. PICK u \in Verifications :
              /\ \A x \in Verifications : x < u <=> verif[x].status # "absent"
              /\ \/ UNCHANGED verif
                 \/ \E rec : verif' = [verif EXCEPT ![u] = rec]
        BY <3>3 DEF Insert
      <4>2. u # v
        BY <2>a, <4>1, ConstantsAssumption DEF Verifications
      <4> QED
        BY <2>a, <4>1, <4>2
    <3>4. CASE RefuseWrite(r)
      <4>1. request[r].verif # v
        BY <2>a, <3>4 DEF RefuseWrite, Inv, CallsApart, HasVerif, Active
      <4> QED
        BY <2>a, <3>4, <4>1 DEF RefuseWrite, Set
    <3> QED
      BY <2>2, <3>1, <3>2, <3>3, <3>4 DEF CallStep
  <2>3. ASSUME NEW r \in Requests, UserStep(r) \/ Lose(r) PROVE v \in dead
    <3>1. CASE \E u \in Verifications : Requeue(r, u)
      BY <2>a, <3>1 DEF Requeue, Set
    <3>2. CASE ~ \E u \in Verifications : Requeue(r, u)
      BY <2>3, <3>2 DEF UserStep, RequestCheck, UpdateRead, Lose, rows
    <3> QED
      BY <3>1, <3>2
  <2>4. CASE (\E k \in Tickets : Promote(k)) \/ UNCHANGED vars
    BY <2>4 DEF Promote, vars, rows
  <2> QED
    BY <2>1, <2>2, <2>3, <2>4 DEF Next
<1> QED
  BY <1>1, InvHolds, PTL DEF Spec, DecidedIsFinal

-----------------------------------------------------------------------------
(***************************************************************************)
(* Verification implements Checks.  A step writes one verification and its *)
(* task as Checks allows (Moves), or writes neither row (Quiet).           *)
(***************************************************************************)

\* A dead letter is of a verification that did not come to an outcome.
DeadUndecided == \A v \in dead : verif[v].status \in Active \cup {"error"}

Moves(v, t, s) ==
    /\ Writes(v, t, s)
    /\ \/ verif[v].status \in {"absent", "error"} /\ s = "queued"
       \/ verif[v].status \in Active /\ s \in Active \cup Decided
    /\ dead' \subseteq dead \cup {v}
    /\ s \in Outcomes => v \notin dead'

Quiet ==
    /\ UNCHANGED <<verif, shown>>
    /\ dead' \subseteq dead \cup {v \in Verifications : verif[v].status \in Active}

SomeMove ==
    \E v \in Verifications, t \in Tasks, s \in Active \cup Decided : Moves(v, t, s)

LEMMA StatusWords ==
    /\ Active = {"queued", "running"} /\ Decided = {"passed", "failed", "manual_review", "error"}
    /\ Outcomes = {"passed", "failed", "manual_review"}
    /\ \A s \in Active \cup Decided : s \in VerificationStatus /\ s \in Shown /\ s # "absent"
BY DEF Active, Decided, Outcomes, VerificationStatus, Shown

LEMMA WriteIsWrites ==
    ASSUME TypeOK, NEW v \in Verifications, NEW t \in Tasks, NEW s \in Active \cup Decided,
           ActiveOf(t) \subseteq {v}, verif[v].task = t, Set(v, s), Show(t, s)
    PROVE  Writes(v, t, s)
<1>1. verif' \in [Verifications -> Verif]
  BY StatusWords DEF Set, TypeOK, Verif
<1>2. verif'[v].task = t /\ verif'[v].status = s
  BY DEF Set, TypeOK, Verif
<1> QED
  BY <1>1, <1>2 DEF Writes, Set, Show, TypeOK

LEMMA WorkerMovesOrQuiet ==
    ASSUME Inv, DeadUndecided, NEW w \in Workers, WorkerStep(w) \/ Kill(w)
    PROVE  SomeMove \/ Quiet
<1>a. TypeOK /\ One /\ CallsApart /\ DeadApart /\ LoadedIsTrue /\ CheckedIdle
  BY DEF Inv
<1>1. CASE worker[w].pc = "idle"
  <2>1. UNCHANGED <<verif, shown, dead>>
    BY <1>1 DEF WorkerStep, Take, Start, Finish, Fail, Kill, rows
  <2> QED
    BY <2>1 DEF Quiet
<1>2. CASE worker[w].pc # "idle"
  <2>1. PICK k \in Tickets, v \in Verifications, t \in Tasks :
          /\ k = worker[w].ticket /\ v = ticket[k].verif /\ t = verif[v].task
          /\ ticket[k].state = "started" /\ verif[v].status \in Active /\ ActiveOf(t) \subseteq {v}
    BY <1>2, Holding DEF HeldBy
  <2>2. v \notin dead
    BY <1>a, <2>1 DEF DeadApart, Waiting
  <2>3. \A s \in Active \cup Decided :
           Set(v, s) /\ Show(t, s) /\ dead' \subseteq dead \cup {v}
             /\ (s \in Outcomes => v \notin dead') => Moves(v, t, s)
    BY <1>a, <2>1, WriteIsWrites DEF Moves
  <2>4. CASE \E k1 \in Tickets : Take(w, k1)
    BY <2>4, <1>2 DEF Take
  <2>5. CASE Start(w)
    <3>1. worker[w].pc = "loaded"
      BY <2>5 DEF Start
    <3>2. verif[v].status = worker[w].verif /\ shown[t] = worker[w].seen.shown
      BY <1>a, <2>1, <3>1 DEF LoadedIsTrue, HeldBy
    <3>3. /\ verif' = [verif EXCEPT ![v].status = "running",
                                   ![v].attempts = Least(worker[w].attempts + 1, MaxAttempts)]
          /\ shown' = [shown EXCEPT ![t] = "running"] /\ UNCHANGED dead
      BY <1>a, <2>1, <2>5, <3>2 DEF Start, Show, Overwrite, TypeOK
    <3>4. Least(worker[w].attempts + 1, MaxAttempts) \in 0 .. MaxAttempts
      BY <1>a, ConstantsAssumption DEF Least, Worker, TypeOK
    <3>5. verif' \in [Verifications -> Verif]
      BY <1>a, <3>3, <3>4, StatusWords DEF TypeOK, Verif
    <3>6. Writes(v, t, "running")
      BY <1>a, <2>1, <3>3, <3>5 DEF Writes, TypeOK, Verif
    <3>7. Moves(v, t, "running")
      BY <2>1, <3>3, <3>6, StatusWords DEF Moves
    <3> QED
      BY <3>7, StatusWords DEF SomeMove
  <2>6. CASE \E outcome \in Outcomes : Finish(w, outcome)
    <3>1. PICK s \in Outcomes : Finish(w, s)
      BY <2>6
    <3>2. Set(v, s) /\ Show(t, s) /\ dead' = dead /\ s \in Active \cup Decided
      BY <2>1, <3>1, StatusWords DEF Finish
    <3> QED
      BY <2>2, <2>3, <3>2 DEF SomeMove
  <2>7. CASE Fail(w)
    <3>1. PICK s \in {"queued", "error"} : Set(v, s) /\ Show(t, s)
      BY <2>1, <2>7 DEF Fail
    <3>2. dead' \subseteq dead \cup {v}
      BY <2>1, <2>7 DEF Fail, TicketFailed
    <3> QED
      BY <2>3, <3>1, <3>2, StatusWords DEF SomeMove
  <2>8. CASE Kill(w)
    <3>1. UNCHANGED <<verif, shown>> /\ dead' \subseteq dead \cup {v}
      BY <2>1, <2>8 DEF Kill, rows, TicketFailed
    <3> QED
      BY <2>1, <3>1 DEF Quiet
  <2> QED
    BY <2>4, <2>5, <2>6, <2>7, <2>8 DEF WorkerStep
<1> QED
  BY <1>1, <1>2

LEMMA CallMovesOrQuiet ==
    ASSUME Inv, DeadUndecided, NEW r \in Requests, CallStep(r) \/ UserStep(r) \/ Lose(r)
    PROVE  SomeMove \/ Quiet
<1>a. TypeOK /\ One /\ CallsApart /\ DeadApart /\ LoadedIsTrue /\ CheckedIdle
  BY DEF Inv
<1>1. CASE UpdateWrite(r) \/ RequestRefused(r) \/ EnqueueCall(r) \/ RequeueCall(r) \/ Lose(r)
  <2>1. UNCHANGED <<verif, shown>> /\ dead' \subseteq dead
    BY <1>1 DEF UpdateWrite, RequestRefused, EnqueueCall, RequeueCall, Lose, rows
  <2> QED
    BY <2>1 DEF Quiet
<1>2. CASE \E t \in Tasks : RequestCheck(r, t) \/ \E new \in TaskStatus : UpdateRead(r, t, new)
  <2>1. UNCHANGED <<verif, shown, dead>>
    BY <1>2 DEF RequestCheck, UpdateRead, rows
  <2> QED
    BY <2>1 DEF Quiet
<1>3. CASE Insert(r)
  <2>1. request[r].pc = "insert" /\ request[r].task \in Tasks
    BY <1>a, <1>3 DEF Insert, TypeOK, Request
  <2>2. PICK t \in Tasks : t = request[r].task
    BY <2>1
  <2>3. PICK v \in Verifications :
          /\ \A u \in Verifications : u < v <=> verif[u].status # "absent"
          /\ IF IndexAllows(v, t)
             THEN /\ verif' = [verif EXCEPT ![v] =
                                 [task |-> t, status |-> "queued", attempts |-> 0]]
                  /\ Show(t, Overwrite(shown[t], request[r].shown, "queued"))
             ELSE UNCHANGED <<shown, verif>>
    BY <1>3, <2>2 DEF Insert
  <2>4. verif[v].status = "absent" /\ dead' = dead
    BY <1>3, <2>3, ConstantsAssumption DEF Verifications, Insert
  <2>5. CASE IndexAllows(v, t)
    <3>1. request[r].shown # "queued"
      BY <1>a, <2>1, StatusWords DEF CheckedIdle
    <3>2. [task |-> t, status |-> "queued", attempts |-> 0] \in Verif
      BY ConstantsAssumption, StatusWords DEF Verif
    <3>3. Writes(v, t, "queued")
      BY <2>3, <2>4, <2>5, <3>1, <3>2, <1>a DEF Writes, IndexAllows, Show, Overwrite, TypeOK
    <3>4. Moves(v, t, "queued")
      BY <2>4, <3>3, StatusWords DEF Moves
    <3> QED
      BY <3>4, StatusWords DEF SomeMove
  <2>6. CASE ~IndexAllows(v, t)
    BY <2>3, <2>4, <2>6 DEF Quiet
  <2> QED
    BY <2>5, <2>6
<1>4. CASE RefuseWrite(r)
  <2>1. PICK v \in Verifications, t \in Tasks :
          /\ v = request[r].verif /\ t = request[r].task
          /\ verif[v].status = "queued" /\ verif[v].task = t
    BY <1>a, <1>4 DEF RefuseWrite, HasVerif, CallsApart, TypeOK, Request
  <2>2. ActiveOf(t) \subseteq {v}
    BY <1>a, <2>1, StatusWords DEF One, ActiveOf, VerificationsOf
  <2>3. Writes(v, t, "error")
    BY <1>a, <1>4, <2>1, <2>2, WriteIsWrites, StatusWords DEF RefuseWrite
  <2>4. Moves(v, t, "error")
    BY <1>4, <2>1, <2>3, StatusWords DEF Moves, RefuseWrite
  <2> QED
    BY <2>4, StatusWords DEF SomeMove
<1>5. CASE \E v \in Verifications : Requeue(r, v)
  <2>1. PICK v \in Verifications : Requeue(r, v)
    BY <1>5
  <2>2. PICK t \in Tasks : t = verif[v].task
    BY <1>a DEF TypeOK, Verif
  <2>3. v \in dead /\ ActiveOf(t) \subseteq {v} /\ Set(v, "queued") /\ Show(t, "queued") /\ dead' = dead
    BY <2>1, <2>2 DEF Requeue, IndexAllows
  <2>4. Writes(v, t, "queued")
    BY <1>a, <2>2, <2>3, WriteIsWrites, StatusWords
  <2>5. Moves(v, t, "queued")
    BY <2>3, <2>4, StatusWords DEF Moves, DeadUndecided
  <2> QED
    BY <2>5, StatusWords DEF SomeMove
<1> QED
  BY <1>1, <1>2, <1>3, <1>4, <1>5 DEF CallStep, UserStep

LEMMA StepMovesOrQuiet ==
    ASSUME Inv, DeadUndecided, [Next]_vars
    PROVE  SomeMove \/ Quiet
<1>1. CASE \E k \in Tickets : Promote(k)
  BY <1>1 DEF Promote, rows, Quiet
<1>2. CASE UNCHANGED vars
  BY <1>2 DEF vars, rows, Quiet
<1> QED
  BY <1>1, <1>2, WorkerMovesOrQuiet, CallMovesOrQuiet DEF Next

LEMMA DeadUndecidedKept ==
    ASSUME Inv, DeadUndecided, [Next]_vars
    PROVE  DeadUndecided'
<1>1. CASE Quiet
  BY <1>1 DEF Quiet, DeadUndecided
<1>2. CASE SomeMove
  <2>1. PICK v \in Verifications, t \in Tasks, s \in Active \cup Decided : Moves(v, t, s)
    BY <1>2 DEF SomeMove
  <2>2. \A u \in dead' \ {v} : u \in Verifications /\ u \in dead /\ verif'[u] = verif[u]
    BY <2>1 DEF Moves, Writes, Inv, TypeOK
  <2>3. v \in dead' => verif'[v].status \in Active \cup {"error"}
    BY <2>1, StatusWords DEF Moves, Writes
  <2> QED
    BY <2>2, <2>3 DEF DeadUndecided
<1> QED
  BY <1>1, <1>2, StepMovesOrQuiet

\* A write of Moves is a step of Checks, or one it does not see.
LEMMA MoveIsCheckStep ==
    ASSUME Inv, NEW v \in Verifications, NEW t \in Tasks, NEW s \in Active \cup Decided,
           Moves(v, t, s)
    PROVE  [C!Next]_(C!vars)
<1> DEFINE check(u) == [task |-> verif[u].task, stage |-> Stage(verif[u].status)]
           checks == [u \in Verifications |-> check(u)]
           board == [x \in Tasks |-> Stage(shown[x])]
<1>1. /\ verif'[v].task = t /\ verif'[v].status = s
      /\ \A u \in Verifications \ {v} : verif'[u] = verif[u]
      /\ shown'[t] = s /\ \A x \in Tasks \ {t} : shown'[x] = shown[x]
      /\ ActiveOf(t) \subseteq {v}
      /\ verif[v].status # "absent" => verif[v].task = t
  BY DEF Moves, Writes, Inv, TypeOK
<1>2. checks' = [checks EXCEPT ![v] = [task |-> t, stage |-> Stage(s)]]
  BY <1>1
<1>3. board' = [board EXCEPT ![t] = Stage(s)]
  BY <1>1
<1>4. checks[v] = [task |-> verif[v].task, stage |-> Stage(verif[v].status)]
  OBVIOUS
<1>5. CASE verif[v].status \in {"absent", "error"} /\ s = "queued"
  <2>1. Stage(s) = "open" /\ \A a \in VerificationStatus : Stage(a) = "open" => a \in Active
    BY <1>5, StatusWords DEF Stage, VerificationStatus
  <2>2. \A u \in Verifications : checks[u].stage = "open" => checks[u].task # t
    <3>1. ASSUME NEW u \in Verifications, checks[u].stage = "open", checks[u].task = t
          PROVE  FALSE
      <4>1. verif[u].status \in Active /\ verif[u].task = t
        BY <2>1, <3>1 DEF Inv, TypeOK, Verif
      <4>2. u \in ActiveOf(t)
        BY <4>1, StatusWords DEF ActiveOf, VerificationsOf
      <4> QED
        BY <1>1, <1>5, <4>1, <4>2, StatusWords
    <3> QED
      BY <3>1
  <2>3. C!NoneOpen(t)
    BY <2>2 DEF C!NoneOpen
  <2>4. C!Open(v, t)
    BY <1>2, <1>3, <2>1, <2>3 DEF C!Open
  <2>5. CASE verif[v].status = "absent"
    <3>1. checks[v].stage = "none"
      BY <2>5, StatusWords DEF Stage
    <3>2. C!Ask(v, t)
      BY <2>4, <3>1 DEF C!Ask
    <3> QED
      BY <3>2 DEF C!Next
  <2>6. CASE verif[v].status = "error"
    <3>1. checks[v].stage = "error" /\ checks[v].task = t
      BY <1>1, <2>6, StatusWords DEF Stage
    <3>2. C!AskAgain(v)
      BY <2>4, <3>1 DEF C!AskAgain, C!Open, C!NoneOpen
    <3> QED
      BY <3>2 DEF C!Next
  <2> QED
    BY <1>5, <2>5, <2>6
<1>6. CASE verif[v].status \in Active /\ s \in Active
  <2>1. verif[v].task = t /\ v \in ActiveOf(t)
    BY <1>1, <1>6, StatusWords DEF ActiveOf, VerificationsOf
  <2>2. shown[t] \in Active
    BY <1>6, <2>1 DEF Inv, TaskShowsActive
  <2>3. Stage(s) = "open" /\ Stage(verif[v].status) = "open" /\ Stage(shown[t]) = "open"
    BY <1>6, <2>2 DEF Stage
  <2>4. checks' = checks
    BY <1>2, <1>4, <2>1, <2>3
  <2>5. board' = board
    BY <1>3, <2>3
  <2> QED
    BY <2>4, <2>5 DEF C!vars
<1>7. CASE verif[v].status \in Active /\ s \in Decided
  <2>1. verif[v].task = t /\ Stage(s) = s /\ Stage(verif[v].status) = "open"
    BY <1>1, <1>7, StatusWords DEF Stage
  <2>2. checks' = [checks EXCEPT ![v].stage = s]
    BY <1>2, <1>4, <2>1
  <2>3. C!Decide(v, s)
    BY <1>3, <1>4, <2>1, <2>2 DEF C!Decide
  <2> QED
    BY <1>7, <2>3 DEF C!Next
<1> QED
  BY <1>5, <1>6, <1>7 DEF Moves

\* Every behaviour of requests, queue and workers is one of Checks.
THEOREM VerificationImplementsChecks == Spec => ImplementsChecks
<1>1. Init => C!Init /\ DeadUndecided
  <2> SUFFICES ASSUME Init PROVE C!Init /\ DeadUndecided
    OBVIOUS
  <2>1. \A v \in Verifications : Stage(verif[v].status) = "none"
    BY StatusWords DEF Init, Stage
  <2>2. \A t \in Tasks : Stage(shown[t]) = "none"
    BY StatusWords DEF Init, Stage
  <2> QED
    BY <2>1, <2>2 DEF Init, C!Init, DeadUndecided
<1>2. Inv /\ DeadUndecided /\ [Next]_vars => DeadUndecided' /\ [C!Next]_(C!vars)
  <2> SUFFICES ASSUME Inv, DeadUndecided, [Next]_vars
               PROVE  [C!Next]_(C!vars)
    BY DeadUndecidedKept
  <2>1. CASE Quiet
    BY <2>1 DEF Quiet, C!vars
  <2>2. CASE SomeMove
    BY <2>2, MoveIsCheckStep DEF SomeMove
  <2> QED
    BY <2>1, <2>2, StepMovesOrQuiet
<1> QED
  BY <1>1, <1>2, InvHolds, PTL DEF Spec, ImplementsChecks, C!Spec
=============================================================================
