------------------------------ MODULE Evidence ------------------------------
(***************************************************************************)
(* External evidence for a question: what an outside provider is paid for   *)
(* (services/external_intelligence, api/routes/content_analysis.py).  The    *)
(* request is admitted by cache, idempotency of the day, scope and budget,   *)
(* stored, given to the queue and executed by the worker, which claims it,   *)
(* calls the provider and stores the answer and its cost at once.            *)
(*                                                                         *)
(* Admission reads without a lock, so another request can be stored between  *)
(* the admission and the storing of one.                                    *)
(*                                                                         *)
(* Abstractions.  One website and one capability; an answer costs what was   *)
(* estimated, one unit; the contents of answers are left out.               *)
(***************************************************************************)
EXTENDS RqJobs

CONSTANTS
    Questions,
    Freshness,  \* FRESHNESS, in days
    Month       \* days of a month

ASSUME EvidenceAssumption == Freshness \in Nat \ {0} /\ Month \in Nat \ {0}

VARIABLES
    requests,       \* ExternalIntelligenceRequest rows
    observations,   \* ExternalObservation rows
    usage,          \* ExternalUsageRecord rows
    enabled,        \* external_intelligence_enabled
    asking,         \* calls of the API that are under way
    paid            \* history: answers that were paid for each request

evidenceVars == <<requests, observations, usage, enabled, asking, paid>>

INTEGRATIONS == "integrations"
ActiveStatuses == {"pending", "running"}
RequestStatuses == ActiveStatuses \union {"succeeded", "failed", "cancelled"}

EvidenceTypeOK ==
    /\ requests \in Seq([question : Questions, day : Nat, status : RequestStatuses])
    /\ observations \in Seq([question : Questions, of : DOMAIN requests, expires : Nat])
    /\ usage \in Seq([of : DOMAIN requests, month : Nat])
    /\ enabled \in BOOLEAN
    /\ asking \subseteq
          [caller : Nat, question : Questions, day : Nat, of : DOMAIN requests \union {0}]
    /\ paid \in [DOMAIN requests -> Nat]

EvidenceInit ==
    /\ requests = <<>>
    /\ observations = <<>>
    /\ usage = <<>>
    /\ enabled = TRUE
    /\ asking = {}
    /\ paid = <<>>

-----------------------------------------------------------------------------
(* Admission *)

Active == {r \in DOMAIN requests : requests[r].status \in ActiveStatuses}
FreshObservations == {o \in DOMAIN observations : observations[o].expires > clock}

\* _month_start.
MonthOf(d) == d \div Month

\* _costs: what was spent this month, and what the active requests may cost.
Spent == Cardinality({u \in DOMAIN usage : usage[u].month = MonthOf(clock)})
Reserved == Cardinality(Active)

\* _active_scope_keys.
ActiveScopeKeys ==
    {observations[o].question : o \in FreshObservations} \union
    {requests[r].question : r \in Active}

Cached(q) == \E o \in FreshObservations : observations[o].question = q
Duplicate(q, d) == \E r \in DOMAIN requests : requests[r].question = q /\ requests[r].day = d

\* admit_external_request: what is not admitted has no effect.
Admit(c, q) ==
    /\ \A a \in asking : a.caller # c
    /\ Len(requests) + Cardinality(asking) < Here.requests
    /\ enabled
    /\ ~Cached(q)
    /\ ~Duplicate(q, clock)
    /\ q \in ActiveScopeKeys \/ Cardinality(ActiveScopeKeys) < Here.scopes
    /\ Spent + Reserved + 1 <= Here.budget
    /\ asking' = asking \union {[caller |-> c, question |-> q, day |-> clock, of |-> 0]}
    /\ UNCHANGED <<requests, observations, usage, enabled, paid, rqVars, systemVars>>

\* The row is committed, unless uq_external_request_idempotency refuses it.
Store(a) ==
    /\ a.of = 0
    /\ IF Duplicate(a.question, a.day)
       THEN asking' = asking \ {a} /\ UNCHANGED <<requests, paid>>
       ELSE /\ requests' = Append(requests,
                  [question |-> a.question, day |-> a.day, status |-> "pending"])
            /\ paid' = Append(paid, 0)
            /\ asking' = (asking \ {a}) \union {[a EXCEPT !.of = Len(requests) + 1]}
    /\ UNCHANGED <<observations, usage, enabled, rqVars, systemVars>>

\* request_external_evidence calls the queue; a refusal cancels the request.
Call(a) ==
    /\ a.of # 0
    /\ IF HasCapacity(INTEGRATIONS)
       THEN Enqueue(INTEGRATIONS, "evidence", a.of) /\ UNCHANGED requests
       ELSE requests' = [requests EXCEPT ![a.of].status = "cancelled"] /\ UNCHANGED rqVars
    /\ asking' = asking \ {a}
    /\ UNCHANGED <<observations, usage, enabled, paid, systemVars>>

\* The process that answers the request dies.
CallDies(a) ==
    /\ MayDie
    /\ asking' = asking \ {a}
    /\ UNCHANGED <<requests, observations, usage, enabled, paid, rqVars>>

\* update_external_evidence_controls.
SwitchControls ==
    /\ "controls" \in Here.events
    /\ enabled' = ~enabled
    /\ UNCHANGED <<requests, observations, usage, asking, paid, rqVars, systemVars>>

-----------------------------------------------------------------------------
(* Execution: execute_queued_external_request *)

EvidenceAt(q) == Current(q).of

\* A failed request becomes pending again; _claim wants a pending one.
Claim(q) ==
    LET r == EvidenceAt(q) IN
    /\ IF requests[r].status \in {"pending", "failed"}
       THEN requests' = [requests EXCEPT ![r].status = "running"] /\ GoesTo(q, "claimed")
       ELSE UNCHANGED requests /\ JobFails(q)
    /\ UNCHANGED <<observations, usage, enabled, asking, paid, systemVars>>

\* The provider answers and is paid; the answer may be unusable or get lost.
Answer(q) ==
    /\ \E at \in {"answered", "lost"} : GoesTo(q, at)
    /\ paid' = [paid EXCEPT ![EvidenceAt(q)] = @ + 1]
    /\ UNCHANGED <<requests, observations, usage, enabled, asking, systemVars>>

\* The provider does not answer.
NoAnswer(q) ==
    /\ GoesTo(q, "lost")
    /\ UNCHANGED <<evidenceVars, systemVars>>

NewObservation(r) ==
    [question |-> requests[r].question, of |-> r, expires |-> clock + Freshness]

\* _complete: observation, usage and status in one transaction.
Complete(q) ==
    LET r == EvidenceAt(q) IN
    /\ observations' = Append(observations, NewObservation(r))
    /\ usage' = Append(usage, [of |-> r, month |-> MonthOf(clock)])
    /\ requests' = [requests EXCEPT ![r].status = "succeeded"]
    /\ GoesTo(q, "done")
    /\ UNCHANGED <<enabled, asking, paid, systemVars>>

\* Variant: what was learned before the failure is kept.
FailKeeping(q) ==
    LET r == EvidenceAt(q) IN
    /\ requests' = [requests EXCEPT ![r].status = "failed"]
    /\ observations' = Append(observations, NewObservation(r))
    /\ JobFails(q)
    /\ UNCHANGED <<usage, enabled, asking, paid, systemVars>>

\* _fail, after a rollback.
Fail(q) ==
    LET r == EvidenceAt(q) IN
    /\ requests' = [requests EXCEPT ![r].status = "failed"]
    /\ JobFails(q)
    /\ UNCHANGED <<observations, usage, enabled, asking, paid, systemVars>>

EvidenceNext ==
    \/ \E c \in 1..Here.overlap : \E q \in Questions : Admit(c, q)
    \/ SwitchControls
    \/ \E a \in asking : Store(a) \/ Call(a) \/ CallDies(a)
    \/ \E q \in WorkersIn({"evidence"}, "begin") : Claim(q)
    \/ \E q \in WorkersIn({"evidence"}, "claimed") : Answer(q) \/ NoAnswer(q)
    \/ \E q \in WorkersIn({"evidence"}, "answered") : Complete(q)
    \/ \E q \in WorkersIn({"evidence"}, "lost") : Fail(q)

-----------------------------------------------------------------------------
(* Properties *)

Count(rows, r) == Cardinality({i \in DOMAIN rows : rows[i].of = r})

\* An answer and its cost are recorded together, once, with the request that asked for
\* it: a request that succeeded has one of each, any other has none, whatever attempts
\* fail and processes die ("mislukking bewaart ... geen deelresultaat").
AnswersPaid ==
    \A r \in DOMAIN requests :
        LET n == IF requests[r].status = "succeeded" THEN 1 ELSE 0
        IN  /\ Count(observations, r) = n
            /\ Count(usage, r) = n
            /\ n <= paid[r]

\* A question is asked once a day, also by calls that overlap.
AskedOncePerDay ==
    \A r, s \in DOMAIN requests :
        requests[r].question = requests[s].question /\ requests[r].day = requests[s].day
        => r = s
=============================================================================
