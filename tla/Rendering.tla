------------------------------ MODULE Rendering ------------------------------
(***************************************************************************)
(* Live inspections: an administrator lets a browser read the page of an    *)
(* issue again (start_issue_inspection_recheck of api/routes/issues.py,     *)
(* services/render_executor.py).                                           *)
(*                                                                         *)
(* A request stores an observation of a snapshot, with the row of the       *)
(* snapshot locked, and then calls the queue.  The worker shows that it is  *)
(* running, lets the browser render the page, and stores what it found with *)
(* the issues it has or has not.                                           *)
(*                                                                         *)
(* Abstractions.  The issues of rendering have one type; screenshots and    *)
(* the comparison itself are left out.  The observations that a             *)
(* verification makes for itself are not of this queue.                     *)
(***************************************************************************)
EXTENDS RqJobs, IssueStatus

VARIABLES
    renders,     \* RenderObservation rows
    rechecking,  \* observations whose request has yet to call the queue
    rendered     \* the status of the rendering issue of each snapshot's page, "none" without one

renderVars == <<renders, rechecking, rendered>>

RENDERS == "renders"
RenderStatuses == {"pending", "running", "succeeded", "failed"}
Snapshots == 1..Here.snapshots

RenderTypeOK ==
    /\ renders \in Seq([snapshot : Snapshots, status : RenderStatuses])
    /\ rechecking \subseteq DOMAIN renders
    /\ rendered \in [Snapshots -> Statuses \union {"none"}]

RenderInit ==
    /\ renders = <<>>
    /\ rechecking = {}
    /\ rendered = [s \in Snapshots |-> "none"]

SetRender(o, status) == renders' = [renders EXCEPT ![o].status = status]

\* An inspection of the snapshot that is under way is the answer to another request.
UnderWay(s) ==
    \E o \in DOMAIN renders :
        renders[o].snapshot = s /\ renders[o].status \in {"pending", "running"}

Recheck(s) ==
    /\ Len(renders) < Here.renders
    /\ ~UnderWay(s)
    /\ renders' = Append(renders, [snapshot |-> s, status |-> "pending"])
    /\ rechecking' = rechecking \union {Len(renders) + 1}
    /\ UNCHANGED <<rendered, rqVars, systemVars>>

\* Variant: the refusal of the queue is not read.
CallQueueUnread(o) ==
    /\ IF HasCapacity(RENDERS) THEN Enqueue(RENDERS, "render", o) ELSE UNCHANGED rqVars
    /\ rechecking' = rechecking \ {o}
    /\ UNCHANGED <<renders, rendered, systemVars>>

CallQueue(o) ==
    /\ IF HasCapacity(RENDERS)
       THEN Enqueue(RENDERS, "render", o) /\ UNCHANGED renders
       ELSE SetRender(o, "failed") /\ UNCHANGED rqVars
    /\ rechecking' = rechecking \ {o}
    /\ UNCHANGED <<rendered, systemVars>>

\* The process that answers the request dies.
RecheckDies(o) ==
    /\ MayDie
    /\ rechecking' = rechecking \ {o}
    /\ UNCHANGED <<renders, rendered, rqVars>>

-----------------------------------------------------------------------------
(* execute_render_observation *)

Observed(q) == Current(q).of

\* Whatever its status is: an attempt after a failed or killed one starts again.
RenderBegins(q) ==
    /\ SetRender(Observed(q), "running")
    /\ GoesTo(q, "rendering")
    /\ UNCHANGED <<rechecking, rendered, systemVars>>

\* reconcile_issues for the rendering issue of a page.
Reconciled(status, found) ==
    IF found THEN IF status = "none" THEN "new" ELSE Seen(status) ELSE Missed(status)

RenderEnds(q) ==
    /\ SetRender(Observed(q), "succeeded")
    /\ \E found \in BOOLEAN :
          rendered' = [rendered EXCEPT ![renders[Observed(q)].snapshot] = Reconciled(@, found)]
    /\ GoesTo(q, "done")
    /\ UNCHANGED <<rechecking, systemVars>>

RenderFails(q) ==
    /\ SetRender(Observed(q), "failed")
    /\ JobFails(q)
    /\ UNCHANGED <<rechecking, rendered, systemVars>>

RenderNext ==
    \/ \E s \in Snapshots : Recheck(s)
    \/ \E o \in rechecking : CallQueue(o) \/ RecheckDies(o)
    \/ \E q \in WorkersIn({"render"}, "begin") : RenderBegins(q)
    \/ \E q \in WorkersIn({"render"}, "rendering") : RenderEnds(q) \/ RenderFails(q)
=============================================================================
