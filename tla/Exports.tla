------------------------------- MODULE Exports -------------------------------
(***************************************************************************)
(* Exports of a website: api/routes/exports.py, services/exports.py and the *)
(* part of services/dead_letters.py that starts one again.                  *)
(*                                                                         *)
(* A request for an export reads whether one is open, stores a row and calls *)
(* the queue; requests overlap.  The worker writes the file.                *)
(*                                                                         *)
(* Abstractions.  One website; the file is the row's status.                *)
(***************************************************************************)
EXTENDS RqJobs

VARIABLES
    exports,    \* Export rows
    creating    \* requests that have found no open export

exportVars == <<exports, creating>>

EXPORTS == "exports"
ExportStatuses == {"pending", "running", "succeeded", "failed"}

ExportTypeOK ==
    /\ exports \in Seq([status : ExportStatuses, downloaded : BOOLEAN])
    /\ creating \in Nat

ExportInit ==
    /\ exports = <<>>
    /\ creating = 0

\* An export that is being made or waits to be downloaded.
IsOpen(e) ==
    \/ exports[e].status \in {"pending", "running"}
    \/ exports[e].status = "succeeded" /\ ~exports[e].downloaded

SetExport(e, status) == exports' = [exports EXCEPT ![e].status = status]

\* create_export: there must be room in the queue and no open export.
AskExport ==
    /\ creating < Here.overlap
    /\ Len(exports) + creating < Here.exports
    /\ HasCapacity(EXPORTS)
    /\ \A e \in DOMAIN exports : ~IsOpen(e)
    /\ creating' = creating + 1
    /\ UNCHANGED <<exports, rqVars, systemVars>>

NewExport(status) == exports' = Append(exports, [status |-> status, downloaded |-> FALSE])

\* The row is committed and the queue called; a refusal makes it a failed one.
StoreExport ==
    /\ creating > 0
    /\ creating' = creating - 1
    /\ IF HasCapacity(EXPORTS)
       THEN NewExport("pending") /\ Enqueue(EXPORTS, "export", Len(exports) + 1)
       ELSE NewExport("failed") /\ UNCHANGED rqVars
    /\ UNCHANGED systemVars

\* The process dies between the commit and the call of the queue.
ExportCallDies ==
    /\ MayDie
    /\ creating > 0
    /\ creating' = creating - 1
    /\ NewExport("pending")
    /\ UNCHANGED rqVars

\* download_export.
Download(e) ==
    /\ exports[e].status = "succeeded" /\ ~exports[e].downloaded
    /\ exports' = [exports EXCEPT ![e].downloaded = TRUE]
    /\ UNCHANGED <<creating, rqVars, systemVars>>

\* requeue_dead_letter.
RequeueExport(j) ==
    /\ j \in dead[EXPORTS]
    /\ HasCapacity(EXPORTS)
    /\ SetExport(j.of, "pending")
    /\ queue' = [queue EXCEPT ![EXPORTS] = Append(@, NewJob("export", j.of))]
    /\ dead' = [dead EXCEPT ![EXPORTS] = @ \ {j}]
    /\ UNCHANGED <<later, worker, creating, systemVars>>

\* Variant: generate_export does whatever it is asked.
BeginAny(q) ==
    /\ SetExport(Current(q).of, "running")
    /\ GoesTo(q, "writing")
    /\ UNCHANGED <<creating, systemVars>>

\* generate_export does only what is pending.
Begin(q) ==
    LET e == Current(q).of IN
    /\ IF exports[e].status = "pending"
       THEN SetExport(e, "running") /\ GoesTo(q, "writing")
       ELSE UNCHANGED exports /\ JobDone(q)
    /\ UNCHANGED <<creating, systemVars>>

Write(q) ==
    /\ SetExport(Current(q).of, "succeeded")
    /\ GoesTo(q, "done")
    /\ UNCHANGED <<creating, systemVars>>

WriteFails(q) ==
    /\ SetExport(Current(q).of, "failed")
    /\ JobFails(q)
    /\ UNCHANGED <<creating, systemVars>>

ExportNext ==
    \/ AskExport \/ StoreExport \/ ExportCallDies
    \/ \E e \in DOMAIN exports : Download(e)
    \/ \E j \in dead[EXPORTS] : RequeueExport(j)
    \/ \E q \in WorkersIn({"export"}, "begin") : Begin(q)
    \/ \E q \in WorkersIn({"export"}, "writing") : Write(q) \/ WriteFails(q)

-----------------------------------------------------------------------------
DeadLetterOf(e) == [kind |-> "export", of |-> e] \in dead[EXPORTS]

\* An export that was made stays made, although the queue runs a job again that had
\* ended when its worker was killed; only a dead letter can start it again.
ExportKept ==
    [][\A e \in DOMAIN exports :
          exports[e].status = "succeeded" /\ ~DeadLetterOf(e)
          => exports'[e].status = "succeeded"]_exports
=============================================================================
