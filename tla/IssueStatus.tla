----------------------------- MODULE IssueStatus -----------------------------
(***************************************************************************)
(* The statuses of an issue, and what reconcile_issues makes of the status  *)
(* of an issue whose signal is there, or is not there any more.             *)
(***************************************************************************)

Open == {"new", "review", "accepted", "planned", "in_progress", "waiting_for_client"}
Reopenable == {"resolved", "verified", "ignored"}
Statuses == Open \cup Reopenable \cup {"accepted_risk"}

\* The status of a row whose signal is there, and of one whose signal is not.
Seen(status) == IF status \in Reopenable THEN "new" ELSE status

MissedAtOnce(status) == IF status \in Open THEN "verified" ELSE status

Missed(status) ==
    IF status \in Open THEN "resolved"
    ELSE IF status = "resolved" THEN "verified" ELSE status
=============================================================================
