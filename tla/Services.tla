------------------------------ MODULE Services ------------------------------
(***************************************************************************)
(* The slower services around the crawls together: paid evidence and the    *)
(* imports of metrics, which share the queue "integrations" and its one      *)
(* worker, the exports and the live inspections with queues of their own,    *)
(* and the onboarding of a website.                                         *)
(***************************************************************************)
EXTENDS Evidence, Synchronisation, Exports, Rendering, Onboarding

ASSUME QueuesAssumption == {INTEGRATIONS, EXPORTS, RENDERS} \subseteq Queues

vars == <<systemVars, rqVars, evidenceVars, syncVars, exportVars, renderVars, onboardingVars>>

Init ==
    /\ RqInit
    /\ EvidenceInit
    /\ SyncInit
    /\ ExportInit
    /\ RenderInit
    /\ OnboardingInit

Next ==
    \/ RqNext /\ UNCHANGED <<evidenceVars, syncVars, exportVars, renderVars, onboardingVars>>
    \/ EvidenceNext /\ UNCHANGED <<syncVars, exportVars, renderVars, onboardingVars>>
    \/ SyncNext /\ UNCHANGED <<evidenceVars, exportVars, renderVars, onboardingVars>>
    \/ ExportNext /\ UNCHANGED <<evidenceVars, syncVars, renderVars, onboardingVars>>
    \/ RenderNext /\ UNCHANGED <<evidenceVars, syncVars, exportVars, onboardingVars>>
    \/ OnboardingNext /\ UNCHANGED <<evidenceVars, syncVars, exportVars, renderVars>>

Spec == Init /\ [][Next]_vars

-----------------------------------------------------------------------------
\* The rows, queues and workers have the shapes the code gives them.
TypeOK ==
    /\ RqTypeOK
    /\ EvidenceTypeOK
    /\ SyncTypeOK
    /\ ExportTypeOK
    /\ RenderTypeOK
    /\ OnboardingTypeOK

\* Whether a job of row r waits in the queue, for its next attempt or is worked at.
HasJob(q, kind, r) ==
    \E j \in {queue[q][i] : i \in DOMAIN queue[q]} \union later[q] \union worker[q].job :
        j.kind = kind /\ j.of = r

\* What a row says is waiting or running is really on its way, as long as no process
\* dies: a queue that refuses, an attempt that fails, a retry or a requeue leaves no
\* row behind that nobody works at, and that would answer every later request.
WaitedForComes ==
    deaths = 0 =>
        /\ \A r \in DOMAIN requests :
              requests[r].status \in {"pending", "running"}
              => HasJob(INTEGRATIONS, "evidence", r) \/ \E a \in asking : a.of = r
        /\ \A e \in DOMAIN exports :
              exports[e].status \in {"pending", "running"} => HasJob(EXPORTS, "export", e)
        /\ \A o \in DOMAIN renders :
              renders[o].status \in {"pending", "running"}
              => HasJob(RENDERS, "render", o) \/ o \in rechecking
=============================================================================
