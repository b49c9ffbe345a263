# seotool in TLA+

seotool ("SEO Monitor") crawls customers' websites, compares the snapshots, keeps
issues and improvement tasks about what it finds, verifies and measures the
improvements, and exports them. It is a FastAPI application with PostgreSQL, a
scheduler loop and RQ workers on Redis, deployed as separate containers
(`src/compose.yaml`). This directory is its formal side: TLA+ modules translated
from the code, TLC configurations that check them on small instances, and TLAPS
proofs for every value of the constants.

    tlc -workers 2 -config CrawlStop.cfg MCCrawlControl     # one run
    tlapm CrawlControl_proofs.tla                           # the proofs of a module

`PROJECT.json` is the index: the components, the runs, the mutant that each
checked property must catch, the source lines each definition stands for, the
finding, the hazards, and the theorems. Paths below are relative to `src/app/`
unless they begin with `docs/`, `scripts/` or `src/`.

## 1. The system

### Processes and shared state

| process | code | what it does to shared state |
|---|---|---|
| API | `api/routes/*` | handlers: one database session per request, several commits, calls of the queue |
| scheduler | `scheduler.py` | one loop: due crawls, waiting crawls, retention, imports, effects |
| crawl workers | `worker.py`, `jobs.py` | `execute_crawl_job`, with all analyses; recover interrupted crawls when they start |
| integration worker | `services/integration_sync.py`, `retention_operations.py`, `external_intelligence/execution.py` | one worker for imports, paid evidence and maintenance |
| export, render and verification workers | `services/exports.py`, `render_executor.py`, `recommendation_verifications.py` | one queue each |
| command line | `maintenance.py`, `scripts/*.sh` | `pause-crawls`, `resume-crawls`, `retention-all`, backup and restore |

They share the PostgreSQL rows and the RQ queues. Four facts of the code shape
every module:

1. **Blind writes.** Sessions are made with `expire_on_commit=False` and most rows
   are read without `FOR UPDATE`. SQLAlchemy emits `UPDATE ... WHERE id = ?` with
   the new value whatever the row holds by then, and nothing at all when the
   value equals the one that was loaded. The modules have this as `Overwrite` and
   keep, per process, what it loaded (`seen`). A handler that reads, decides and
   writes without a lock is two steps.
2. **The queue is not in the transaction.** Rows are committed before or after
   `queue.enqueue`; a process can die between the two, and `_enqueue` may refuse
   (`admission_backlog`).
3. **RQ retries.** Every job has `len(retry_intervals)` retries and then a
   dead-letter record (`record_dead_letter`); an operator may requeue it.
4. **Stops are cooperative.** Pause and cancel are statuses that a running crawl
   polls (`_check_crawl_control`).

### Components

State, operations, what is hard, what makes it correct. PROJECT.json says which
part of a component its modules have.

| component | state | operations | hard behaviour | correctness | modules |
|---|---|---|---|---|---|
| crawl control | `crawl_jobs.status`, RQ jobs | create, enqueue, execute, pause, resume, cancel, retry, recover | interleaved handlers and workers, refusal, death | no job lost, one worker per job, one running job per website, pending and running end | `CrawlControl` |
| scheduler loop | none of its own | due crawls, dispatch, retention, imports, effects | everything is tried again | what waits is served | `CrawlControl`, `Retention`, `Synchronisation`, `Improvement` |
| deployment drain | `crawl_deployment_control` | pause-crawls, gate, resume-crawls | two transactions per command | no crawl begins under it | `CrawlControl` |
| dead letters | `queue_dead_letters` | record, requeue, resolve | requeue of what goes on | nothing is executed twice | `CrawlControl`, `Verification`, `Exports` |
| full crawl frontier | `urls`, `url_sources`, `url_snapshots`, local queue | seed, fetch, follow, finish, resume | local state lost by a pause or crash | every page once, within the maximum, depth is the route | `Frontier` |
| evidence retention | `retention_operations`, detail rows | create, schedule, batch | deletes while crawls run | evidence and newest locations stay | `Retention` |
| page and website analyses | `url_snapshots`, `url_links`, `change_events` | the checks of a page, twenty passes over a website | the order of the passes, the rows of earlier crawls they read | changes are those since the last crawl, groups name what is true of their members | `PageSignals`, `SiteSignals`, `SiteIssues` |
| issue engine | `issues`, `issue_occurrences` | reconcile, decide, suppress, recalculate | each pass resolves what it checked | what is open was seen, verified needs two crawls | `IssueStatus`, `IssueRows`, `SiteIssues` |
| recommendation tasks | `recommendation_tasks` and their URLs | create, scope, transitions | users change what a check is reading | a check agrees with the crawl | `TaskRules`, `Improvement` |
| recommendation verifications | `recommendation_verifications` | request, execute, finish, fail, requeue | calls, tickets, workers and dead letters overlap | an abstract promise: asked once, decided once, shown truthfully | `Verification` implements `Checks` |
| opportunities and effects | `opportunity_evaluations`, `effect_*` | evaluate, promote, register, measure | data and scheduler are late | every change is measured in the end | `Opportunities`, `Improvement` |
| users, sessions, MFA | `users`, memberships, invitations, sessions | sign in, invite, accept, change, leave | a global role copied from memberships | only the superuser makes administrators | `Access` |
| clients, websites, privacy deletions | rows and a register outside the database | create, delete, back up, restore, apply again | the commit comes before the register | what was deleted stays deleted | `Access` |
| onboarding | onboarding, ownership proof, first crawl | start, change, renew, check, crawl | fetch under locks, rows read before them | a crawled website was proven | `Onboarding` |
| integrations | mappings, metrics per day | schedule, history, import by hand | imports overlap and fail between ranges | metrics stay, holes close | `Synchronisation` |
| external intelligence | requests, observations, usage | admit, enqueue, claim, pay, store | a paid call between two commits | an answer and its cost once each | `Evidence` |
| exports, live inspections | their rows and queues | ask, work, retry, requeue | a killed worker's job runs again | what is made stays made, what waits has a job | `Exports`, `Rendering` |
| incidents, sensor, public estimate, reports, user interface, migrations | | | | | none (section 6) |

How they meet: the scheduler and the API put crawl jobs on the queue; a completed
full crawl leaves retention operations and runs the analyses, whose reports the
issue engine turns into issues; issues and opportunities become tasks; a task that
is implemented asks for a verification, which is a crawl job of its own on another
queue and judges the same signals; the outcome goes back to the task and its
issues and is measured as an effect. All of them share the drain, the dead letters
and the queue policy. Imports, evidence and maintenance share one queue and worker.

## 2. Modules

    CrawlControl                                   <- MCCrawlControl   <- CrawlControl_proofs
    Frontier                                       <- MCFrontier       <- Frontier_proofs
    Retention                                      <- MCRetention      <- Retention_proofs
    Checks  <= Verification                        <- MCVerification   <- Verification_proofs
    IssueStatus <- IssueRows <- PageSignals <- SiteSignals <- SiteIssues <- MCSiteIssues
                                                               SiteIssues <- SiteIssues_proofs
                                PageSignals <- TaskRules, Opportunities <- Improvement <- MCImprovement
                                                              Improvement <- Improvement_proofs
    Access                                         <- MCAccess         <- Access_proofs
    RqJobs <- Evidence, Synchronisation, Exports, Rendering, Onboarding <- Services
                                                    <- MCServices       <- Services_proofs

(`<-` is extended by; `Verification` implements `Checks`; the proof modules extend
the component's module, not the MC one.) Definitions whose comment begins with
"Variant" are not part of `Next`: they are the plausible bugs that each property is
tested against. A *world* is a record that says which website or service an
initial state is about and what may happen to it, so that one run covers many
small cases instead of their product.

### CrawlControl

| TLA+ | code |
|---|---|
| `status[j]` | `crawl_jobs.status`; `absent` is no row, `succeeded` stands for `partially_succeeded` too |
| `drain` | `crawl_deployment_control`: `is_active`, `paused_job_ids` |
| `dead` | jobs with an unresolved `queue_dead_letters` row |
| `ticket[t]` | an RQ job: queued, scheduled for a retry, started, or abandoned by a dead worker |
| `worker[w]` | where a worker process is, its ticket, the status it loaded, the set recovery spares |
| `request[r]` | an API, scheduler or CLI call between two of its transactions |

Steps: `CreateCheck`, `Insert`, `EnqueueCall`, `WriteWaiting` are the four parts of
`create_crawl_job` (and of the scheduler's creation); `PauseRead/Write`,
`CancelRead/Write`, `ResumeRead/Write` the handlers; `DispatchCheck/Dispatch` the
scheduler's `dispatch_waiting_crawl_jobs`; `Take`, `StartGated`, `StartRefused`,
`Start`, `Check`, `StopPaused`, `StopCancelled`, `Finish`, `Fail`, `Kill` the
control part of `execute_crawl_job`; `Restart`, `Recover` the start of a worker;
`Activate`, `DrainRead/Write`, `FinishRead/Write`, `Release` the drain commands
with their two transactions each; `Promote`, `CleanAbandoned` RQ. `Lose` is a call
whose process dies. The set `Events` says which of them the environment does in
an instance, so that each run can afford the interleavings it is about.

### Frontier

One full crawl run with its rows (`active`, `sources`, `stored` depths,
`snapshots`) and the local variables of `_crawl_full_site` (`pending`, `visited`,
`frontier`, `variants`, the page that is followed). `Seed` is the code before the
loop, `FetchNext` an iteration up to the commit of the snapshot, `FollowPage` one
link target, `CommitLinks` the commit after them. `Pause` and `Crash` drop what
the process held; `ResumeRun` runs `Seed` on what was committed; `ImportFails` is
a sitemap import that raises before the crawl. The websites are data: an initial
state picks the links on the pages, the sitemap, and what an earlier crawl left.

### Retention

Runs numbered by start, the rows they stored per URL (`rows`, and `written` as a
history of all of them), `found` for the issue occurrences, `op` for
`retention_operations`, `exec` for executions. `Select` is the query of a batch
under its locks and `Delete` its DELETE: two steps, because `execute_crawl_job`
takes no website lock. `Take`/`Command` are the worker and `retention-all`.

### Issues

`IssueStatus` and `IssueRows` are `reconcile_issues`: a *report* is what an analysis
checked, the types it looks for, and the signals it found; reconciling it opens,
confirms, resolves (an active issue that is missed) and verifies (a resolved one
that is missed again). `PageSignals` gives the reports of one snapshot,
`SiteSignals` those of the passes over a website. Their content is data: `Answer`
says what a version of a page holds, `Url` what the checks read in a URL.
`SiteIssues` is the machine: `StartCrawl`, `ResumeCrawl`, a step per fetched page
(with `analyze_snapshot` and its assets), a step per pass of
`_analyze_stored_site_results` in its order (`SiteReport`), `StopCrawl`,
recalculation, and people's decisions. `max_urls` may cut a crawl off.

### Tasks, verifications and effects

`TaskRules` has the library, the roles of the scope a task takes from its issues'
evidence and the rules that judge a check. `Opportunities` has the patterns of
`opportunity_engine`. `Improvement` puts them together: `CreateTaskFromIssue`,
`CreateQuestionTask`, `PromoteOpportunity`, `UpdateTask`, `ReportImplemented`,
`AddTaskUrl`, `RemoveTaskUrl`; a check `BeginCheck`s, `ReadPage`s one page per step
while `ChangePage` and users go on, and `FinishCheck` writes task and issues;
`RegisterIntervention`, `EvaluateEffects`, `RefreshEffects`, `NextWeek` measure.

`Verification` is the same check seen by queue and workers: `RequestCheck`,
`Insert`, `EnqueueCall`, `RefuseWrite` are `request_verification`,
`UpdateRead/Write` are `update_task`, `Requeue` and `RequeueCall` the dead letter,
`Take`, `Start`, `Finish`, `Fail` `execute_verification`. In `Finish` the constant
`Rendered` decides whether the task is read again: the render path expires it, the
others do not. `Checks` is what all that promises: a check is asked for when none
is open (`Ask`), decided once, and the board of the task shows it. The refinement
maps queued and running to open, a decided verification to its result.

### Access

The database is one value `db` (accounts, memberships, living clients and websites,
invitations, sessions), so that a backup is a copy of it and a restore puts it
back. Requests are one action but for two: `ReadChange/WriteChange` of a membership
(count of administrators, then commit) and `Delete`/`RecordDeletion` (commit, then the
register). `Crash` ends what is under way, `TakeBackup`, `Restore` and
`ReapplyDeletions` are the scripts.

### Services

`RqJobs` is the queue of every slower service: first in first out, one worker, a
backlog that refuses, retries after a pause, a dead letter, a process that dies
with or after its job. `Evidence`, `Synchronisation`, `Exports`, `Rendering` and
`Onboarding` have their rows and handlers; each says what its worker does with a
job of its kind. `Services` interleaves them, so that imports and evidence really
share their queue and worker.

## 3. Runs

Every model is small because the code distinguishes few cases: a bound is enough
when each guard is met on both sides and every pair of processes can interleave.
`CHECK_DEADLOCK FALSE` is in every configuration: users may stop doing anything,
bounded events run out, and a finished crawl has no next step, so a state without
successor is a system at rest.

| run | instance | shows |
|---|---|---|
| `crawl_stop` | 2 jobs of 1 website, 2 workers, 3 tickets, 2 calls, queue of 1, 1 retry; pause, cancel, fail | types; no pending job without a ticket, a call or a dead letter; one worker per job |
| `crawl_drain` | the same with 1 call and 2 tickets; drain, resume, requeue, lost calls, restarts, fail | no worker begins to crawl under a drain; one running job per website |
| `crawl_progress` | 2 jobs, 1 worker, 1 call, fairness; kill, fail, cancel, pause | pending, waiting and running jobs are decided |
| `frontier` | every website of 4 pages and 1 asset (base URL 2 links, others at most 1), 2 query variants, at most 3 URLs, 1 stop | a complete crawl covers the website, depths of a first crawl, one snapshot per page, termination |
| `retention_batches` | location rows: 2 runs, 2 URLs, a worker and a command, batches of 2, at most 1 row, 1 fault | the newest locations of a URL stay |
| `retention_completes` | link rows, a fault, fairness | evidence stays, operations succeed |
| `site_issues` | 10 families of websites of up to 9 pages, 18 with their bounds: up to 3 crawls, with a change, a decision, a recalculation or a stop, or a change and one of these | changes are real, what is open was seen, groups agree with their members, verified takes two crawls |
| `improvement` | 21 websites, one per kind of work; up to 2 tasks, a change of a page under a check, 9 weeks | a check that closes a task agrees with a crawl; work is measured in the end |
| `verification` | 1 task, 2 verifications, 2 workers, 2 tickets, 2 calls, queue of 1, 2 retries, 2 attempts, 1 death | implements `Checks`; the task shows the check; one worker; decided in the end |
| `access` | 3 people, 2 clients, 3 websites, 6 worlds | administrators are appointed; deletions hold |
| `services` | 10 worlds of one or two services, queues of 1, at most 2 deaths | answers paid, metrics kept, holes closed, exports kept, nothing waits alone, a first crawl is proven |
| `access_last_admin` | two overlapping changes of members | *violation*: the last administrator is lost (section 5) |

Why these bounds. *Queue of one*: full and not full are both met with one entry.
*Two jobs, workers, calls*: the conflicts in the code are between two parties
(another job of the website, a second worker, a handler beside a worker).
*Tickets*: a job has several only through resume and requeue; two or three show
that. *Retries*: verification keeps RQ one retry ahead of the attempts, as the
code does (4 tries by RQ, 3 attempts). *Frontier*: a circle, a page beyond the
maximum, a second variant and an asset all occur among the websites of the run.
*One fault*: a second one meets the same rows again; the theorems about the
safety properties do not depend on it. *Seven days of imports*: two outages, each
longer than the recent days, fit one after the other. *Three crawls*: open, missed, missed again is
the longest memory the issue engine has. *Minimum sizes of groups* are made as
small as two so that a group forms and dissolves among nine pages. *History of 4
days, recent 2*: an outage longer than the recent days fits into the history, as
480 and 28 do. *Nine weeks*: an effect matures, is compared, and the scheduler may
miss a week.

`OneWorkerPerJob` holds where a job has one ticket: with pauses, cancels, failures,
killed and restarted workers and lost calls, and not with a drain, a resumed job or a
requeued dead letter, which give it a second one (section 5). `NoLostJob` does not
hold with a lost call either, since a call that dies between its commit and the queue
leaves a pending job without a ticket. Their run has the events for which it can afford
every interleaving; the theorems have the others. `FirstCrawlDepth` is about runs that
begin with the base URL alone and that have checked no variant and no alternate if
they were stopped: a resumed run admits other variants, and it queues an alternate
without a depth (section 5). `HolesClose` is about worlds without imports of an
administrator: one that fails may put an older first day back (section 5).
`VerificationDecided` names the one exception it needs (`lost`): a request that
dies between commit and queue call. `AppointedBySuperuser` is checked with changes of
members that follow each other, because overlapping ones break it (section 5).
`SettledAfterCrawl`, `NotVerifiedAtOnce` and `VerifiedAgreesWithCrawl` name in their
definitions the types that the code treats otherwise (`NeverMissed`, `LooksAt`,
`CheckedTwice`, `canonical_other_url`). `WaitedForComes` asks for no death.

### Fairness

Weak fairness for the steps of a process that has begun (a worker's step, a call in
flight, `CrawlStep` of the loop), for RQ's promotion of retries and its registry
cleaning; strong fairness where the code tries again and again while the guard
comes and goes: the scheduler's dispatch and retention offers (the loop polls),
the workers' taking of a maintenance job. A crawl ends because its `job_timeout`
is six hours. In `Improvement` the scheduler looks for due effects every hour and
weeks pass, up to the bound of the run; a check, a user and an import get no
fairness. Users, failures and deaths get none anywhere: nobody has to do them,
and what must happen may not depend on them. `SiteIssues`, `Access` and `Services`
state safety only and need none.

## 4. Proofs

Each `*_proofs` module states an inductive invariant, shows `Init => Inv` and
`Inv /\ [Next]_vars => Inv'` with a lemma per action, and derives the properties.
They assume only the named assumptions of the component modules: finite sets of
tickets or URLs, bounds that are natural numbers, markers that are not members,
websites with one client each, queues for the kinds of jobs, versions whose links lead
to pages, issue types that cluster and are no classified 404s (`ClusterAssumption`, true
of the code's table of minimum sizes), worlds of the shape the MC modules give them, and
a clock that starts after a whole history. Nothing in them depends on the sizes of
section 3. A theorem about a property that only holds in part of the environment
(section 3) has that part as its hypothesis, by name.

- **CrawlControl_proofs**: `TypeCorrect`, `OneRunning` (`OneRunningPerSite`),
  `DrainGate` (`DrainAdmitsNone`). The invariant ties a ticket that is not free
  to a job, and a busy worker to a started ticket; then the only step that writes
  `running` is `Start`, which looks at the other jobs in the same locked
  transaction. `OneWorker` (`OneWorkerPerJob`) and `NoneLost` (`NoLostJob`) have the
  hypothesis `Undisturbed`: no drain, resume or requeue. Then a job has one holder, a
  call that has still to enqueue it or one ticket (`OneHolder`), since only a call that
  found no row makes one, and only a worker that lets go gives a ticket up. `NoneLost`
  also needs that a worker that began shows something else than pending
  (`BegunNotPending`): the row it writes back blindly is then never pending again. It
  asks for no lost call.
- **Frontier_proofs**: `TypeCorrect`, `MaximumKept` (`WithinMaximum`),
  `CompleteIsComplete` (`CompleteCoversSite`), `NoSecondSnapshot` (`FetchedOnce`).
  While the loop runs, `visited` is the set of pages with a snapshot, and every
  known page is visited, queued, still to be followed, or a variant. A crash drops
  the left side of that; `Seed` rebuilds it from committed rows, which needs
  `ActiveInv`: a page with a recorded link is active.
  `ShortestRoutes` (`FirstCrawlDepth`) is the correctness of the
  breadth-first search with a queue whose entries carry the depth, rows that carry it
  too, and attempts that throw the queue away. `RouteInv`: a page with a depth has a
  checked page one link nearer; `RelaxedInv`: a link of a checked page adds at most one;
  `OrderInv`: no checked page is further away than a page that waits; `QueueInv`:
  entry and row agree; `FoundInv`: what was found waits or was checked, also after
  `Seed` made the queue anew; `OldInv`: links that an earlier crawl left lead
  nowhere here. From these the depth of a checked page never changes, and is the
  number of the layer it is in. `Distance` is defined with a recursive function over
  the number of links; that the function exists, and that a page of layer n + 1 has a
  link from layer n, is shown by the smallest number for which it would fail (`Smallest`).
- **Retention_proofs**: `TypeCorrect`, `NewestKept`, `EvidenceIsKept`. `TypeOK`
  bounds what is counted, which needs `TypeInv`: an operation has deleted at most what
  was written and is gone (`DeletedInv`), an entry of the queue comes from the admission
  or from an execution that is retried (`QueueInv`), and a selection holds rows that
  are still there, within the limit, beside no other one (`BatchInv`). The other properties are not
  inductive, since a selection waits between query and DELETE while crawls go
  on; `ExecInv` says of the ids a selection holds what the properties say of the
  rows that are gone. Rows are stored only by runs that are not old, and old
  runs never run again. A run checks one dataset with the other absent; the
  theorems have both together.
- **Verification_proofs**: `TypeCorrect`, `InvHolds`, `OneActive`, `ShownIsActive`
  (`TaskShowsActive`), `OneWorker`, `OutcomeIsFinal`, and
  `VerificationImplementsChecks`. `One` and `TaskShowsActive` are kept by blind
  writes only if what a worker loaded is still true (`LoadedIsTrue`). It is, because
  a verification has one holder: the call that has still to enqueue it, one ticket,
  or the dead letter (`TicketsApart`, `CallsApart`, `DeadApart`, `WorkersApart`).
  The refinement uses the same invariant: `Insert` and `Requeue` map to `Ask` and
  `AskAgain`, because no other check of the task is open then; `Finish`, the last
  `Fail` and a refused call map to `Decide`; every other step stutters.
- **Access_proofs**: `TypeCorrect`, `DeletionsHold` (`DeletedStaysDeleted`),
  `SuperuserAppoints` (`AppointedBySuperuser`). An identifier is given
  once; the register is written before a deletion is answered; and in the database
  and in a backup no website lives without its client. So what a backup brings back
  of an answered deletion is found by the register, websites through their client.
  Roles (`RoleInv`): a membership or an invitation as administrator was given by the
  superuser, and a member who is an administrator has the global role of one, in the
  database and in the backup; a change that has read and not written is about the
  rows as they are (`Follows`). That last part needs the hypothesis `ChangesAlone`: changes of members do not overlap.
- **Services_proofs**: `TypeCorrect`, `FirstCrawlIsProven` (`CrawlIsProven`),
  `PaidAnswersKept` (`AnswersPaid`), `OneRequestPerDay` (`AskedOncePerDay`),
  `MetricsAreKept` (`MetricsKept`), `ExportsAreKept` (`ExportKept`),
  `WaitedForAreComing` (`WaitedForComes`) and `HolesAreClosed` (`HolesClose`), for the
  services together: a lemma per other service says that its steps bring no job of evidence
  and move no worker of evidence (`Frame`). Onboarding rests on the locks of a check
  (`ProofInv`); evidence on the worker having the request running from the claim to
  the answer, and on a request under way having no job yet (`EvidenceInv`).
  `ExportsAreKept` needs that a job is in the queue of its kind (`JobsHome`) and that the
  worker that writes an export has one that is not made yet (`ExportInv`);
  `WaitedForAreComing`, that a running row is what the one worker of its queue is at, as
  long as nobody died (`WaitInv`: `EvidenceWaits`, `ExportWaits`, `RenderWaits`).
  `HolesAreClosed` keeps, for each import that has begun, that it asks for the days that
  follow from the first day stored (`ImportOK`), and that this first day tells of the last
  import that left a hole (`LastGap`).
- **SiteIssues_proofs**: `ChangesReal` (`ChangesAreReal`), `CrawlSettles`
  (`SettledAfterCrawl`), `GroupsFollow` (`GroupsFollowMembers`), `VerifiedLater`
  (`NotVerifiedAtOnce`) and `RowsTypeOK` (`TypeOK`), for any website and any number
  of crawls, stops, resumes, cuts by `max_urls`, recalculations and decisions.
  *Changes.* The code compares a page with its newest snapshot of another run, whatever
  became of that run; that this is the crawl before needs that the snapshots of a page
  are in the order of their runs, one per run (`RunsRise`). That holds since the frontier
  has each page once and none that this run has stored (`Waiting`), also after a resumed
  run made it anew from the rows, and an asset is audited only if this run has not.
  `Compared` then says what was detected when a snapshot was stored: the difference from
  the one before it, and nothing was added since.
  *What is open was seen.* `ReconcileFacts` says what one report does to the rows: what
  was open and checked is seen or closed, occurrences stay, and what is open after was open
  before or is seen (`Evolves`). `Reconciled` goes through the reports of a page with a
  recursive function; that it exists is shown by the smallest number of reports for which it
  would not (`ChainExists`); what it keeps (`ReconciledFacts`) follows report by report,
  over a list that is finite (`UpTo`). `PassesKeys` and
  `PassesCheck` say, per analysis, which types it can report and which it looks for.
  `SettledInv` is then inductive: while a crawl without failures goes on, an open issue of
  what it has stored has an occurrence of it, or an analysis still to come looks for it
  (`SettledFrom`); and `QueueInv`: every page that was ever stored is stored by this crawl too
  or waits for it. When the last analysis has been, nothing is left to come.
  *Groups.* `LatestInv`: every occurrence is of a run there was, and one of this crawl is
  the last of its row. `GroupInv` then says, of each group whose analysis has been, what
  `GroupsFollowMembers` says of all of them at the end: it is made from the rows that
  earlier analyses left (`ClustersMade`, `MissingMade`, `SeenMade`), and no later one
  touches the group or its members (`PassesTouch`, `ClustersKept`, `MissingKept`,
  `SeenKept`). The order of the analyses is what is needed here: the 404s are
  classified after the clusters are made, and do not cluster.
  *Verified later.* `OnceInv`: in a crawl that was not resumed, what was open when it began
  is not verified, and if it is resolved then nothing that is still due looks for it
  (`Due`). A step must therefore not look for an issue twice, and not again later:
  no two reports of one page touch the same issue (`OwnReports`, `ReportsTouch`), no two
  analyses look for the same one (`ChecksLooks`, `OneLooks`), and no analysis looks for
  what the reports have checked (`FetchedTypes`), but for the types of `CheckedTwice`. The
  plain 404 is the hard one, because the page's report checks it and the
  classification closes it: `ContextInv` says that a contextual 404 is open while pages are
  read only if it was before, or people opened it, so that without one the report
  shows the plain 404 of a page that answers 404, and the classification only looks for it there.
  The lemmas say what the operators of the frontier return: the order of pages by rank
  (`RankExists`, `InOrderFacts`), the entry that the sort puts first (`NextEntryFacts`), what
  is left of a sequence (`RemoveAtFacts`), and the followed targets (`FollowingsFacts`).
- **Improvement_proofs**: `ClosedAgrees` (`VerifiedAgreesWithCrawl`) and `TypeCorrect`, for
  any contents of pages, websites and tasks. Two programs judge a page: the analyses of a
  crawl and the rules of a check. `ShownBy` says which issue types a crawl can report of
  a snapshot at all (`ReportTypes`), and `RulesAgree` that the rules of a check, one case
  per recommendation, pass only on snapshots of which it reports none of the types that
  the recommendation is for. What is left is that the check judged the right thing,
  while users change scope and task under it and pages change between its reads: it has
  the type of issue of its task (`Judges`), and a snapshot of every page it judges or
  has still to read (`Reads`). Types need that what was measured is about tasks that
  exist (`Kept`); `Refreshed` goes through the works with a recursive function, whose
  existence is shown by the smallest number for which it would fail (`RefreshExists`).
  `WorldsAssumption` says what a world is: its issues are about its pages, and the tasks
  it begins with have the shape `create_task_from_issues` gives them.

Only model-checked: all liveness (`PendingIsDecided`, `WaitingIsServed`,
`RunningEnds`, `CrawlEnds`, `OperationsSucceed`, `VerificationDecided`,
`EffectMeasured`), which the prover does not reach. Every other property of a passing
run is stated by a theorem.

## 5. Divergences: what the code does not keep

One divergence is a run and a finding in PROJECT.json: `access_last_admin`. Two
administrators who are removed or changed at the same time are both counted by
`_require_remaining_admin` (`api/routes/users.py:246`) before either commit, and the
client is left without one, where `docs/release-7a.md:19-20` promises the last one is
protected. The following were met while modelling. The modules have the steps that
lead to them; no run states them, and where a property would run into one, its
definition or its instance says so.

*Crawl control*

- **Drain and a cancelled crawl.** `pause-crawls` counts running and pause-requested
  jobs, not `cancel_requested` ones: `safe=true` is reported while a cancelled crawl
  is still processing (`docs/roadmap.md:365`, `services/crawl_deployment.py:13`).
- **The list to resume is overwritten.** The gate pauses and tracks a job between the
  two transactions of `start_deployment_drain`, which then writes the list it read
  before (`docs/decisions.md:181`, `crawl_deployment.py:67`).
- **Drain and the waiting job.** The drain sets a `waiting_for_capacity` job to
  `pause_requested`; nobody serves that request, so the drain is not safe until a
  worker restarts (`crawl_deployment.py:75`).
- **Cancel after the end.** `cancel_crawl_job` reads `running`, the worker commits
  `succeeded`, the handler writes `cancel_requested`: the job keeps that status
  until a worker restarts (`api/routes/discovery.py:532`).
- **resume-crawls with a full queue.** The job was set to `pending`, the refusal is
  ignored; nothing finds it again (`maintenance.py:215`).
- **Recovery and a crawl that just began.** The protected set is read from Redis
  before the rows; a crawl another worker starts in between is set to `paused`
  while it goes on (`worker.py:57`).
- **Several tickets.** Resume and requeue give a job a second ticket; under
  restarts two workers can crawl it.

*Frontier*

- **The depth of a repeated crawl.** The pending entries of a repeated crawl are made
  before the depths are reset, so pages two links away are left without a depth
  (`docs/decisions.md:217`, `jobs.py:529`).
- **Variants of a resumed run.** It admits the first variants by URL again, other ones
  than it followed before, so that together they are more than the limit (`jobs.py:441`).
- **A failed sitemap import** is retried as a resumed crawl: without the import and
  without the reset of depths (`jobs.py:133`).
- **Alternates of a resumed run.** An attempt that resumes queues an alternate page that
  became active without a depth; the depth a link gives its row afterwards is not the
  one of the entry, so the pages behind it are left without (`jobs.py:447, 473, 529`).
- **Stale links.** `url_sources` of earlier crawls are never removed and still
  followed (`jobs.py:496`).

*Retention*

- **A retried crawl starts inside a batch**: `execute_crawl_job` does not take the lock
  the batch holds (`docs/architecture.md:258`, `jobs.py:106`). The rows the properties
  protect are safe from it.
- **cleanup-element-locations** reads its protected sets once and deletes in many
  transactions; only the drain protects it (`services/retention_audit.py:206`).

*Issues and tasks*

- **Schema images are never reported.** The analysis reads the status in the row of the
  image's URL, and the audit of an asset stores a snapshot but does not write that row
  (`docs/decisions.md:972-975`, `services/structured_data_analysis.py:238`).
- **A recalculation of a crawl that was cut off** runs the passes over the website,
  which that crawl left out, and reports orphans (`docs/architecture.md:324-325`,
  `jobs.py:541`).
- **Recovered pages keep a contextual 404.** The classification looks at the pages that
  are 404 now, and no other check looks for its types (`docs/architecture.md:57`,
  `services/contextual_404.py:26-115`); `NeverMissed` names them.
- **A page that was a broken file.** `_crawl_one` reconciles the types of an asset only for
  an answer that is no HTML: a page that redirected to a broken image keeps
  `broken_image` open after it serves HTML again, since no check of a page looks for that
  type (`docs/architecture.md:57`, `jobs.py:846-863`); `LooksAt` names it.
- **A recalculation takes a failed snapshot for a clean one**, where the crawl resolved
  nothing from it.
- **A closed task is reopened by an outcome.** `_finish` writes the status it decided
  from the task it loaded: a task closed meanwhile goes back to `in_progress`
  (`docs/task-recommendations-mvp.md:163`, `services/recommendation_verifications.py:1004`).
- **A check whose request dies** after its commit stays queued without a ticket and
  blocks every later request (`recommendation_verifications.py:149`).
- **Two active tasks of one issue.** A query, and no index, keeps one
  (`docs/architecture.md:167`, `services/recommendation_tasks.py:109`).
- **A page removed from a task's scope** is not judged, so the check can pass while it
  shows the issue; an intervention keeps the date of the first verification.
- **A drain that meets a verification job** pauses it like a crawl, and resume
  enqueues it as one.

*Access and services*

- **A global role that is too low.** Two overlapping changes of one member: the later
  commit writes the role it computed from memberships it read before; an administrator
  who is a user by it may invite others as administrators (`docs/release-7a.md:19`,
  `api/routes/users.py:233`). With overlap 2 TLC finds `AppointedBySuperuser` violated.
- **Sessions of an invited member.** `accept_invitation` does not revoke the sessions of
  a user who becomes an administrator by it: they keep their twelve hours
  (`docs/release-7a.md:15`).
- **The register comes after the commit** (`api/routes/clients.py:202`): a process that
  dies in between has deleted without an entry. The property speaks of deletions that
  were answered.
- **A retry pays again.** A failed request becomes pending without asking for its
  budget; the provider is called again although the lost answer was paid
  (`docs/external-seo-intelligence-design.md:334`, `external_intelligence/execution.py:34`).
- **An import of an administrator that fails** writes back the settings it read before
  the provider answered, and with them an older first day of the last import: a regular
  import that ended meanwhile is forgotten, and the next one asks for the recent days
  only (`services/search_console.py:95, 186`, `services/google_analytics.py:136, 262`).
- **A killed worker** leaves a paid request running, and an export running, for ever:
  the retried job refuses both (`services/exports.py:29`). `WaitedForComes` asks for no
  death for this reason.
- **Two first crawls** from overlapping starts: the onboarding is loaded before the lock
  (`docs/release-14.md:101`, `services/website_onboarding.py:296`).

## 6. Not modelled, and why

- **Parsing, extraction, normalisation of URLs, wording, layout, HTTP and the browser**:
  sequential functions whose substance is data. A page is a number with a version,
  a URL a record of what the checks read in it, and a check on content a flaw it has.
- **Lighthouse and performance measurements, URL inspection and sitemap quality
  issues**: they reconcile one more source each with the same operation and read no
  issue of another analysis.
- **The seven retention datasets that delete by date alone** have no protection rule
  to get wrong. The light check and the single sitemap job follow no links.
- **OAuth tokens**: whether a provider is connected is a flag; the exchange of a code and
  the refresh of a token are calls of an outside service between two commits.
- **Assignees, feedback, notifications, settings, filters and lists**: no other state
  depends on them.
- **Security incidents, sensor aggregates, public estimate, reports and guidance**: a
  query over rows in one transaction, or no state at all. **User interface, migrations,
  shell scripts** other than backup and restore: not programs over shared state.
- **The drain and verification jobs** are in different modules: what a drain does to a
  verification is in section 5, and not a step of `Verification`.

PROJECT.json gives the reason for every part that is left out. What is left to do: the
composition of `Verification` with the drain of `CrawlControl`, and the refinement of
exports and inspections to an abstract durable job as `Checks` is one.
