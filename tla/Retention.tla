----------------------------- MODULE Retention -----------------------------
(***************************************************************************)
(* Automatic retention of one website: the operations a completed full     *)
(* crawl leaves behind, the scheduler that offers them, and the executions *)
(* that delete detail rows in bounded batches while crawls come and go.    *)
(*                                                                         *)
(* Grain.  A batch is one transaction under the locks of the operation and *)
(* the website; its query and its DELETE are two statements, two steps     *)
(* here, because a crawl that does not ask for the website lock can start  *)
(* between them.                                                           *)
(*                                                                         *)
(* Abstractions.  Runs are numbered by started_at.  A row stands for the   *)
(* detail rows one run stored of one URL.  next_attempt_at is the flag     *)
(* "due", which time may set at any moment.  Of the nine datasets the two  *)
(* that protect evidence are modelled; the seven that delete by date alone *)
(* are not.  partially_succeeded is succeeded; pause_requested and         *)
(* cancel_requested, which leave the run running, are running; cancelled is *)
(* failed and not resumed.  The scheduler's commit and its call of the     *)
(* queue are one step.                                                     *)
(***************************************************************************)
EXTENDS Naturals, FiniteSetsExt

CONSTANTS
    MaxRun,      \* bound: crawl runs
    Full,        \* the runs of type full_site_crawl
    Urls,
    Datasets,
    Executors,   \* integration workers and maintenance commands
    Commands,    \* the executors that are retention-all commands
    BatchSize,   \* batch_size
    MaxRows,     \* max_rows
    Admission,   \* admission_backlog of the maintenance queue
    Retries,     \* bound: automatic retries of a failed crawl
    Faults       \* bound: executions that raise or die

Runs == 1 .. MaxRun

ASSUME ConstantsAssumption ==
    /\ MaxRun \in Nat /\ Full \subseteq Runs
    /\ IsFiniteSet(Urls) /\ IsFiniteSet(Executors)
    /\ Datasets \subseteq {"element_locations", "url_links"}
    /\ Commands \subseteq Executors
    /\ BatchSize \in Nat \ {0} /\ MaxRows \in Nat \ {0}
    /\ Admission \in Nat /\ Retries \in Nat /\ Faults \in Nat

VARIABLES
    crawl,      \* crawl_jobs and crawl_runs: status, retries left, age
    rows,       \* element_locations and url_links rows that exist
    found,      \* issue_occurrences: the URLs a run found an issue on
    written,    \* history: every row that was ever stored
    op,         \* retention_operations: status, due, rows_deleted
    queue,      \* the maintenance queue: tickets per operation
    exec,       \* executions: program counter, operation, selected ids, count
    faults      \* executions that raised or died so far

crawls == <<crawl, rows, found, written>>
vars == <<crawl, rows, found, written, op, queue, exec, faults>>

-----------------------------------------------------------------------------
Rows == Datasets \X Runs \X Urls

Ops == Full \X Datasets

CrawlStatus == {"absent", "pending", "running", "paused", "failed", "succeeded"}

OpStatus == {"absent", "pending", "waiting_for_crawl", "running", "failed",
             "succeeded"}

NoOp == <<0, "none">>

IdleExec == [pc |-> "idle", op |-> NoOp, ids |-> {}, done |-> 0]

TypeOK ==
    /\ crawl \in [Runs -> [status : CrawlStatus, left : 0 .. Retries, old : BOOLEAN]]
    /\ rows \in SUBSET Rows /\ written \in SUBSET Rows
    /\ found \in SUBSET (Runs \X Urls)
    /\ op \in [Ops -> [status : OpStatus, due : BOOLEAN, deleted : 0 .. Cardinality(Rows)]]
    /\ queue \in [Ops -> 0 .. Admission + Cardinality(Executors)]
    /\ exec \in [Executors -> [pc : {"idle", "loop", "deleting", "limit"},
                               op : Ops \cup {NoOp}, ids : SUBSET Rows,
                               done : 0 .. MaxRows]]
    /\ faults \in 0 .. Faults

Init ==
    /\ crawl = [r \in Runs |-> [status |-> "absent", left |-> Retries, old |-> FALSE]]
    /\ rows = {} /\ found = {} /\ written = {}
    /\ op = [o \in Ops |-> [status |-> "absent", due |-> FALSE, deleted |-> 0]]
    /\ queue = [o \in Ops |-> 0]
    /\ exec = [x \in Executors |-> IdleExec]
    /\ faults = 0

-----------------------------------------------------------------------------
(***************************************************************************)
(* Helpers.                                                                *)
(***************************************************************************)

ActiveCrawl == \E r \in Runs : crawl[r].status \in {"pending", "running", "paused"}

CompletedFull == {r \in Full : crawl[r].status = "succeeded"}

LatestFull == {r \in CompletedFull : \A q \in CompletedFull : q <= r}

LiveRuns == {r \in Runs : crawl[r].status \in {"running", "paused"}}

EvidenceRuns == {pair[1] : pair \in found}

\* Per URL the newest snapshot that has location rows.
LatestLocations ==
    {row \in rows : row[1] = "element_locations" /\
        \A other \in rows : other[1] = row[1] /\ other[3] = row[3] => other[2] <= row[2]}

\* Variant: the newest location rows of a URL are not spared.
LocationCandidatesAll ==
    {row \in rows :
        /\ row[1] = "element_locations"
        /\ <<row[2], row[3]>> \notin found
        /\ row[2] \notin LiveRuns \cup LatestFull}

LocationCandidates ==
    {row \in rows \ LatestLocations :
        /\ row[1] = "element_locations"
        /\ <<row[2], row[3]>> \notin found
        /\ row[2] \notin LiveRuns \cup LatestFull}

\* Variant: the runs with evidence are not spared.
LinkCandidatesAll ==
    {row \in rows :
        /\ row[1] = "url_links"
        /\ crawl[row[2]].old
        /\ row[2] \notin LiveRuns \cup LatestFull}

LinkCandidates ==
    {row \in rows :
        /\ row[1] = "url_links"
        /\ crawl[row[2]].old
        /\ row[2] \notin LiveRuns \cup LatestFull \cup EvidenceRuns}

Candidates(dataset) ==
    IF dataset = "url_links" THEN LinkCandidates ELSE LocationCandidates

\* Variant: the room that is left in this execution is not regarded.
RoomBatch(done) == BatchSize

Room(done) == Min({BatchSize, MaxRows - done})

\* The locks of the website row and of the operation row.
Locked == \E x \in Executors : exec[x].pc = "deleting"

OpLocked(o) == \E x \in Executors : exec[x].pc = "deleting" /\ exec[x].op = o

\* The jobs in the queue: the first, second, ... of an operation.
Tickets == UNION {{o} \X (1 .. queue[o]) : o \in Ops}

HasRoom == Cardinality(Tickets) < Admission

Write(o, status) == op' = [op EXCEPT ![o].status = status, ![o].due = FALSE]

Leave(x) == exec' = [exec EXCEPT ![x] = IdleExec]

-----------------------------------------------------------------------------
(***************************************************************************)
(* Crawls, as far as they touch the rows.                                  *)
(***************************************************************************)
CrawlTo(r, status) ==
    /\ crawl' = [crawl EXCEPT ![r].status = status]
    /\ UNCHANGED <<rows, found, written, op, queue, exec, faults>>

\* create_crawl_job and resume_crawl_job take the website lock first.
Create(r) ==
    /\ crawl[r].status = "absent"
    /\ \A q \in Runs : q < r => crawl[q].status # "absent"
    /\ ~Locked /\ ~ActiveCrawl
    /\ CrawlTo(r, "pending")

Resume(r) ==
    /\ crawl[r].status \in {"paused", "failed"} /\ ~crawl[r].old
    /\ \A q \in Runs \ {r} : crawl[q].status \notin {"pending", "running", "paused"}
    /\ ~Locked
    /\ CrawlTo(r, "pending")

OtherRunning(r) == \E q \in Runs \ {r} : crawl[q].status = "running"

\* execute_crawl_job does not ask for the website lock.
Start(r) ==
    /\ crawl[r].status = "pending"
    /\ ~OtherRunning(r)
    /\ CrawlTo(r, "running")

\* RQ retries a job that raised: execute_crawl_job starts it from "failed".
Retry(r) ==
    /\ crawl[r].status = "failed" /\ ~crawl[r].old
    /\ crawl[r].left > 0
    /\ ~OtherRunning(r)
    /\ crawl' = [crawl EXCEPT ![r].status = "running", ![r].left = @ - 1]
    /\ UNCHANGED <<rows, found, written, op, queue, exec, faults>>

\* A URL is stored in one transaction: its rows, and the issues it shows.
Visit(r, u) ==
    LET new == {row \in Rows : row[2] = r /\ row[3] = u} IN
    /\ crawl[r].status = "running"
    /\ new \cap written = {}
    /\ rows' = rows \cup new
    /\ written' = written \cup new
    /\ found' \in {found, found \cup {<<r, u>>}}
    /\ UNCHANGED <<crawl, op, queue, exec, faults>>

End(r) ==
    /\ crawl[r].status = "running"
    /\ \E status \in {"paused", "failed", "succeeded"} : CrawlTo(r, status)

Cancel(r) ==
    /\ crawl[r].status \in {"pending", "paused"}
    /\ CrawlTo(r, "failed")

\* The retention period passes.  (A crawl that failed is not resumed half a
\* year later.)
Age(r) ==
    /\ crawl[r].status \in {"succeeded", "failed"}
    /\ ~crawl[r].old
    /\ \A q \in Runs : q < r => crawl[q].old
    /\ crawl' = [crawl EXCEPT ![r].old = TRUE]
    /\ UNCHANGED <<rows, found, written, op, queue, exec, faults>>

-----------------------------------------------------------------------------
(***************************************************************************)
(* Operations: created after the crawl's last commit or by retention-all,  *)
(* offered by the scheduler.                                               *)
(***************************************************************************)
CreateOperation(o) ==
    /\ crawl[o[1]].status = "succeeded"
    /\ op[o].status = "absent"
    /\ op' = [op EXCEPT ![o].status = "pending", ![o].due = TRUE]
    /\ UNCHANGED <<crawls, queue, exec, faults>>

FallDue(o) ==
    /\ op[o].status \notin {"absent", "succeeded"}
    /\ ~op[o].due
    /\ op' = [op EXCEPT ![o].due = TRUE]
    /\ UNCHANGED <<crawls, queue, exec, faults>>

\* Variant: an operation whose execution died stays running.
ScheduleNotRunning(o) ==
    /\ op[o].status \in {"pending", "waiting_for_crawl", "failed"}
    /\ op[o].due
    /\ ~OpLocked(o)
    /\ Write(o, "pending")
    /\ \/ HasRoom /\ queue' = [queue EXCEPT ![o] = @ + 1]
       \/ ~HasRoom /\ UNCHANGED queue
    /\ UNCHANGED <<crawls, exec, faults>>

\* schedule_pending_retention_operations: locked rows are skipped, the status
\* is committed, and the answer of the queue is not read.
Schedule(o) ==
    /\ op[o].status \in {"pending", "waiting_for_crawl", "failed", "running"}
    /\ op[o].due
    /\ ~OpLocked(o)
    /\ Write(o, "pending")
    /\ \/ HasRoom /\ queue' = [queue EXCEPT ![o] = @ + 1]
       \/ ~HasRoom /\ UNCHANGED queue
    /\ UNCHANGED <<crawls, exec, faults>>

-----------------------------------------------------------------------------
(***************************************************************************)
(* execute_retention_operation.                                            *)
(***************************************************************************)
Enter(x, o) == exec' = [exec EXCEPT ![x] = [IdleExec EXCEPT !.pc = "loop", !.op = o]]

Take(x, o) ==
    /\ x \notin Commands
    /\ exec[x].pc = "idle"
    /\ queue[o] > 0
    /\ queue' = [queue EXCEPT ![o] = @ - 1]
    /\ Enter(x, o)
    /\ UNCHANGED <<crawls, op, faults>>

\* retention-all executes the operations of the latest full crawl itself.
Command(x, o) ==
    /\ x \in Commands
    /\ exec[x].pc = "idle"
    /\ o[1] \in LatestFull
    /\ op[o].status # "absent"
    /\ Enter(x, o)
    /\ UNCHANGED <<crawls, op, queue, faults>>

AlreadyDone(x) ==
    /\ exec[x].pc = "loop"
    /\ ~OpLocked(exec[x].op)
    /\ op[exec[x].op].status = "succeeded"
    /\ Leave(x)
    /\ UNCHANGED <<crawls, op, queue, faults>>

Postpone(x) ==
    /\ exec[x].pc = "loop"
    /\ ~Locked
    /\ op[exec[x].op].status # "succeeded"
    /\ ActiveCrawl
    /\ Write(exec[x].op, "waiting_for_crawl")
    /\ Leave(x)
    /\ UNCHANGED <<crawls, queue, faults>>

\* The locks, the check for an active crawl, and the query.
Select(x) ==
    LET candidates == Candidates(exec[x].op[2]) IN
    /\ exec[x].pc = "loop"
    /\ ~Locked
    /\ op[exec[x].op].status # "succeeded"
    /\ ~ActiveCrawl
    /\ candidates # {}
    /\ \E ids \in SUBSET candidates :
         /\ Cardinality(ids) = Min({Cardinality(candidates), Room(exec[x].done)})
         /\ exec' = [exec EXCEPT ![x].pc = "deleting", ![x].ids = ids]
    /\ UNCHANGED <<crawls, op, queue, faults>>

Succeed(x) ==
    /\ exec[x].pc = "loop"
    /\ ~Locked
    /\ op[exec[x].op].status # "succeeded"
    /\ ~ActiveCrawl
    /\ Candidates(exec[x].op[2]) = {}
    /\ Write(exec[x].op, "succeeded")
    /\ Leave(x)
    /\ UNCHANGED <<crawls, queue, faults>>

\* DELETE and the progress are committed together.
Delete(x) ==
    LET o == exec[x].op
        count == Cardinality(exec[x].ids)
        done == exec[x].done + count
    IN
    /\ exec[x].pc = "deleting"
    /\ rows' = rows \ exec[x].ids
    /\ op' = [op EXCEPT ![o] = [status |-> "running", due |-> FALSE, deleted |-> @.deleted + count]]
    /\ exec' = [exec EXCEPT ![x] = [pc |-> IF done < MaxRows THEN "loop" ELSE "limit",
                                    op |-> o, ids |-> {}, done |-> done]]
    /\ UNCHANGED <<crawl, found, written, queue, faults>>

\* The row is read without a lock and written over.
LimitReached(x) ==
    /\ exec[x].pc = "limit"
    /\ ~OpLocked(exec[x].op)
    /\ Write(exec[x].op, "pending")
    /\ Leave(x)
    /\ UNCHANGED <<crawls, queue, faults>>

\* RQ gives the ticket of a worker another attempt, or not.
Retried(x) ==
    \/ UNCHANGED queue
    \/ x \notin Commands /\ queue' = [queue EXCEPT ![exec[x].op] = @ + 1]

\* The execution raises: rolled back, marked failed, raised again.
Fail(x) ==
    /\ exec[x].pc # "idle"
    /\ faults < Faults
    /\ faults' = faults + 1
    /\ exec[x].pc = "deleting" \/ ~OpLocked(exec[x].op)
    /\ Write(exec[x].op, "failed")
    /\ Leave(x)
    /\ Retried(x)
    /\ UNCHANGED crawls

\* The process dies: the open transaction is gone.
Kill(x) ==
    /\ exec[x].pc # "idle"
    /\ faults < Faults
    /\ faults' = faults + 1
    /\ Leave(x)
    /\ Retried(x)
    /\ UNCHANGED <<crawls, op>>

-----------------------------------------------------------------------------
CrawlStep(r) ==
    \/ Create(r) \/ Resume(r) \/ Start(r) \/ Retry(r)
    \/ \E u \in Urls : Visit(r, u)
    \/ End(r) \/ Cancel(r) \/ Age(r)

ExecStep(x) ==
    \/ AlreadyDone(x) \/ Postpone(x) \/ Select(x) \/ Succeed(x)
    \/ Delete(x) \/ LimitReached(x)

Next ==
    \/ \E r \in Runs : CrawlStep(r)
    \/ \E o \in Ops : CreateOperation(o) \/ FallDue(o) \/ Schedule(o)
    \/ \E x \in Executors : ExecStep(x) \/ Fail(x) \/ Kill(x)
    \/ \E x \in Executors, o \in Ops : Take(x, o) \/ Command(x, o)

Spec == Init /\ [][Next]_vars

\* Time passes, the scheduler loop and the integration worker run on, and an
\* execution that began goes on.
Fairness ==
    /\ \A o \in Ops : WF_vars(FallDue(o)) /\ SF_vars(HasRoom /\ Schedule(o))
    /\ \A x \in Executors : SF_vars(ExecStep(x))
    /\ \A x \in Executors, o \in Ops : SF_vars(Take(x, o))

FairSpec == Spec /\ Fairness

-----------------------------------------------------------------------------
(***************************************************************************)
(* Properties.                                                             *)
(***************************************************************************)

\* The newest location rows ever stored of a URL are still there, whatever
\* crawls failed or were retried and however executions overlapped.
NewestLocationsKept ==
    \A row \in written :
        row[1] = "element_locations" /\
        (\A other \in written : other[1] = row[1] /\ other[3] = row[3] => other[2] <= row[2])
        => row \in rows

\* Evidence is never deleted: the links of a run with an issue occurrence, and
\* location rows that show an issue.
EvidenceKept ==
    \A row \in written :
        \/ row[1] = "url_links" /\ row[2] \in EvidenceRuns
        \/ row[1] = "element_locations" /\ <<row[2], row[3]>> \in found
        => row \in rows

\* If the website comes to rest, every operation succeeds in the end, although
\* executions raise or die and the queue refuses.
OperationsSucceed ==
    <>[]~ActiveCrawl =>
        \A o \in Ops : (op[o].status # "absent") ~> (op[o].status = "succeeded")
=============================================================================
