------------------------------ MODULE IssueRows ------------------------------
(***************************************************************************)
(* The rows of issues and issue_occurrences, and reconcile_issues, the one  *)
(* operation by which every analysis of a website changes them.             *)
(*                                                                         *)
(* A row is found by its key <<owner, type>>: the owner is the number of a  *)
(* page, Site for issues of the website as a whole (url_id NULL), Clusters  *)
(* for the "_clusters" types, which are kept with url_id NULL too.  A row   *)
(* holds the status and the occurrences, oldest first, each with the number *)
(* of its crawl run and its evidence.  Wording, severity and the dates are  *)
(* left out.                                                                *)
(***************************************************************************)
EXTENDS IssueStatus, Integers, Sequences, SequencesExt

Site == 0
Clusters == -1

\* One occurrence per row and run: a later signal of the run replaces its evidence.
Occurred(seen, run, evidence) ==
    LET found == [run |-> run, evidence |-> evidence]
    IN  IF \E i \in DOMAIN seen : seen[i].run = run
        THEN [i \in DOMAIN seen |-> IF seen[i].run = run THEN found ELSE seen[i]]
        ELSE Append(seen, found)

\* A report of an analysis: the owners it was run for, the types it checked and
\* the signals it gives, each [owner, type, evidence], at most one per key.
Report(owners, checked, shown) == [owners |-> owners, checked |-> checked, shown |-> shown]

ShownKeys(report) == {<<s.owner, s.type>> : s \in report.shown}

\* Variant: an analysis without a signal does not reconcile.
MissedBySigns(rows, report, suppressed) ==
    {k \in DOMAIN rows : /\ report.shown # {}
                         /\ k[1] \in report.owners /\ k[2] \in report.checked
                         /\ k \notin ShownKeys(report) /\ k \notin suppressed}

\* The rows a report finds missing: existing ones it checked, without a signal.
MissedKeys(rows, report, suppressed) ==
    {k \in DOMAIN rows : /\ k[1] \in report.owners /\ k[2] \in report.checked
                         /\ k \notin ShownKeys(report) /\ k \notin suppressed}

Reconcile(rows, report, suppressed, run) ==
    LET shown == {s \in report.shown : <<s.owner, s.type>> \notin suppressed}
        missed == MissedKeys(rows, report, suppressed)
    IN  [k \in DOMAIN rows \cup {<<s.owner, s.type>> : s \in shown} |->
            IF \E s \in shown : <<s.owner, s.type>> = k
            THEN LET s == CHOOSE s \in shown : <<s.owner, s.type>> = k
                     row == IF k \in DOMAIN rows THEN rows[k] ELSE [status |-> "new", seen |-> <<>>]
                 IN  [status |-> Seen(row.status), seen |-> Occurred(row.seen, run, s.evidence)]
            ELSE IF k \in missed THEN [rows[k] EXCEPT !.status = Missed(@)]
            ELSE rows[k]]

StatusOf(rows, k) == IF k \in DOMAIN rows THEN rows[k].status ELSE "none"

IsOpen(rows, k) == StatusOf(rows, k) \in Open

HasOccurrence(rows, k, run) ==
    k \in DOMAIN rows /\ \E i \in DOMAIN rows[k].seen : rows[k].seen[i].run = run

EvidenceOf(rows, k, run) ==
    LET i == CHOOSE i \in DOMAIN rows[k].seen : rows[k].seen[i].run = run
    IN  rows[k].seen[i].evidence

LatestEvidence(rows, k) == rows[k].seen[Len(rows[k].seen)].evidence
=============================================================================
