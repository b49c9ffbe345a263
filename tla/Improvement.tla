---------------------------- MODULE Improvement -----------------------------
(***************************************************************************)
(* The improvement loop of one website: issues and opportunities become     *)
(* tasks, users plan them, correct their scope and report them done, a      *)
(* check reads the pages and decides, and what was verified is measured     *)
(* until its effect can be seen.                                           *)
(*                                                                         *)
(* Grain.  A step is one transaction; a check reads one page per step, in   *)
(* the order of url_id, while users and the website go on.  The queue and   *)
(* the worker of a check are in module Verification: here a check ends by   *)
(* itself or fails.  Time is counted in weeks.                             *)
(*                                                                         *)
(* Abstractions.  The pages of a website have been crawled before.  Two     *)
(* requests that create a task at the same time are not modelled, nor are   *)
(* assignees, feedback and notifications, which no other state depends on.  *)
(***************************************************************************)
EXTENDS TaskRules, Opportunities

CONSTANTS
    Worlds,     \* the websites: the version of each page, those it may get, the
                \* issues, the tasks of before, what users choose, and bounds
    Root,       \* the first week
    MaxTasks    \* bound: the most tasks of a world

VARIABLES
    world,      \* the website: its number in Worlds
    answers,    \* the version of each page
    status,     \* issues.status, per issue of the world
    tasks,      \* recommendation_tasks, their issues and URL rows, in the order of creation
    checks,     \* per task its active verification, with the snapshots of its run
    changed,    \* effect_interventions: per task the week and the frozen scope
    effects,    \* effect_evaluations, in the order of created_at
    chances,    \* opportunity_evaluations
    week,       \* the week it is
    measured,   \* the weeks with Search Console data
    verdict,    \* history: of the last check that decided: its task, type, scope, shots, outcome
    count       \* history: changes of pages, edits of scopes and requests of checks

vars == <<world, answers, status, tasks, checks, changed, effects, chances, week, measured, verdict, count>>

Here == Worlds[world]
Issues == DOMAIN Here.issues
TaskIds == DOMAIN tasks

NoCheck == [phase |-> "none", scope |-> <<>>, issueType |-> "", todo |-> {}, shots |-> <<>>]
NoVerdict == [task |-> 0, scope |-> <<>>, shots |-> <<>>, frozen |-> <<>>, outcome |-> "none"]

Init ==
    /\ world \in DOMAIN Worlds
    /\ answers = Here.answers
    /\ status \in [DOMAIN Here.issues -> Here.decided]
    /\ tasks = Here.begun /\ checks = [t \in DOMAIN tasks |-> NoCheck]
    /\ changed = <<>> /\ effects = <<>> /\ chances = {}
    /\ week = Root /\ measured = {}
    /\ verdict = NoVerdict
    /\ count = [changes |-> 0, edits |-> 0, requests |-> 0, missed |-> 0]

Count(what) == count' = [count EXCEPT ![what] = @ + 1]

-----------------------------------------------------------------------------
(* Tasks *)

ActiveStatuses == {"open", "planned", "in_progress", "waiting_for_input", "implemented"}

AllowedTransitions ==
    [open |-> {"planned", "in_progress", "closed"},
     planned |-> {"in_progress", "waiting_for_input", "closed"},
     in_progress |-> {"waiting_for_input", "implemented", "closed"},
     waiting_for_input |-> {"planned", "in_progress", "closed"},
     implemented |-> {"in_progress", "closed"},
     closed |-> {"open"}]

IsActive(t) == tasks[t].status \in ActiveStatuses

NewTask(type, issues, scope, key) ==
    [type |-> type, issues |-> issues, scope |-> scope, key |-> key, status |-> "open",
     reason |-> "none", shown |-> "not_requested", implemented |-> 0]

\* What a task is of: of an issue, one that its recommendation is for.
IsTask(task, issues) ==
    /\ DOMAIN task = {"type", "issues", "scope", "key", "status", "reason", "shown", "implemented"}
    /\ task.status \in DOMAIN AllowedTransitions
    /\ task.reason \in {"none", "manually_accepted", "verified"}
    /\ task.scope \in Seq(ToSet(task.scope))
    /\ Supported(task.type) /\ task.issues # <<>> =>
            issues[task.issues[1]].type \in SourceTypes[task.type]

\* The issues of a world are about its pages, its first tasks were made like the later ones.
ASSUME WorldsAssumption ==
    /\ IsFiniteSet(Pages)
    /\ \A w \in DOMAIN Worlds : LET here == Worlds[w] IN
        /\ IsFiniteSet(DOMAIN here.issues) /\ here.decided \subseteq Statuses
        /\ \A i \in DOMAIN here.issues : LET d == here.issues[i] IN
            /\ {d.page, d.final} \subseteq Pages \cup {0}
            /\ d.related \cup d.clusters \cup d.broken \cup d.linking \subseteq Pages
        /\ here.begun \in Seq(ToSet(here.begun))
        /\ \A t \in DOMAIN here.begun : IsTask(here.begun[t], here.issues)

AddTask(task) ==
    /\ Len(tasks) < Here.bounds.tasks
    /\ tasks' = Append(tasks, task)
    /\ checks' = Append(checks, NoCheck)
    /\ UNCHANGED <<world, answers, status, changed, effects, chances, week, measured, verdict, count>>

\* accessibility_issue_group: issue i and the active issues of its component.
GroupOf(i) ==
    LET d == Here.issues[i]
    IN  {i} \cup {j \in Issues : /\ d.component # 0 /\ Here.issues[j].component = d.component
                                 /\ Here.issues[j].type = d.type /\ status[j] \in Open}

\* create_task_from_issue(s), for the only recommendation of the type; i comes first.
CreateTaskFromIssue(i) ==
    LET group == GroupOf(i)
        rows(type) == UNION {ScopeFromIssue(Here.issues[j], type) : j \in group}
    IN  \E type \in RecommendationFor(Here.issues[i].type) :
            /\ \A t \in TaskIds :
                ~ (IsActive(t) /\ tasks[t].type = type /\ ToSet(tasks[t].issues) \cap group # {})
            /\ AddTask(NewTask(type, <<i>> \o InOrder(group \ {i}), InUrlOrder(rows(type)), <<>>))

\* create_question_gap_task, which returns the active task of the key if there is one.
CreateQuestionTask(p) ==
    /\ p \in Here.questions
    /\ \A t \in TaskIds : ~ (IsActive(t) /\ tasks[t].key = <<"question", p>>)
    /\ AddTask(NewTask("content_question_gap", <<>>, <<Scoped(p, "page")>>, <<"question", p>>))

\* create_task_from_opportunity, likewise.
PromoteOpportunity(o) ==
    /\ o.class # "insufficient_evidence"
    /\ \A t \in TaskIds : ~ (IsActive(t) /\ tasks[t].key = <<o.pattern, o.page>>)
    /\ AddTask(NewTask("opportunity", o.issues, <<Scoped(o.page, "page")>>, <<o.pattern, o.page>>))

\* update_task: the row that a change of status leaves; implemented_at is set once.
Updated(task, new, reason) ==
    [task EXCEPT !.status = new,
                 !.reason = IF new = "closed" THEN reason
                            ELSE IF task.status = "closed" THEN "none" ELSE @,
                 !.implemented = IF new = "implemented" /\ @ = 0 THEN week ELSE @]

UpdateTask(t, new) ==
    /\ new \in AllowedTransitions[tasks[t].status] \ {"implemented"}
    /\ tasks' = [tasks EXCEPT ![t] = Updated(@, new, "manually_accepted")]
    /\ UNCHANGED <<world, answers, status, checks, changed, effects, chances, week, measured, verdict, count>>

\* request_verification freezes the scope; queue_has_capacity may refuse.
CanRequest(task, check) ==
    /\ Supported(task.type) /\ task.status = "implemented"
    /\ MissingRoles(task.type, task.scope) = {} /\ check.phase = "none"

NewCheck(task) ==
    [phase |-> "queued", scope |-> task.scope, todo |-> {}, shots |-> <<>>,
     issueType |-> IF task.issues = <<>> THEN "" ELSE Here.issues[task.issues[1]].type]

AskCheck(t, task) ==
    /\ count.requests < Here.bounds.requests
    /\ tasks' = [tasks EXCEPT ![t] = [task EXCEPT !.shown = "queued"]]
    /\ checks' = [checks EXCEPT ![t] = NewCheck(task)]
    /\ Count("requests")

\* patch_recommendation_task with "implemented": the update commits, then the check
\* is requested; a request that is refused leaves the task implemented.
ReportImplemented(t) ==
    LET task == Updated(tasks[t], "implemented", "none")
    IN  /\ tasks[t].status \in {"in_progress", "implemented"}
        /\ Supported(task.type) => MissingRoles(task.type, task.scope) = {}
        /\ IF ~ Supported(task.type)
           THEN /\ tasks' = [tasks EXCEPT ![t] = [task EXCEPT !.shown = "manual_review"]]
                /\ UNCHANGED <<checks, count>>
           ELSE \/ CanRequest(task, checks[t]) /\ AskCheck(t, task)
                \/ tasks' = [tasks EXCEPT ![t] = task] /\ UNCHANGED <<checks, count>>
        /\ UNCHANGED <<world, answers, status, changed, effects, chances, week, measured, verdict>>

\* create_recommendation_verification
RequestCheck(t) ==
    /\ CanRequest(tasks[t], checks[t]) /\ AskCheck(t, tasks[t])
    /\ UNCHANGED <<world, answers, status, changed, effects, chances, week, measured, verdict>>

Edit ==
    /\ count.edits < Here.bounds.edits
    /\ Count("edits")
    /\ UNCHANGED <<world, answers, status, checks, changed, effects, chances, week, measured, verdict>>

\* add_task_url and remove_task_url, in any status of the task.
AddTaskUrl(t, row) ==
    /\ row.role \in UrlRoles(tasks[t].type) /\ row \notin ToSet(tasks[t].scope)
    /\ tasks' = [tasks EXCEPT ![t].scope = Append(@, row)]
    /\ Edit

RemoveTaskUrl(t, row) ==
    /\ \E i \in DOMAIN tasks[t].scope :
        tasks[t].scope[i] = row /\ tasks' = [tasks EXCEPT ![t].scope = RemoveAt(@, i)]
    /\ Edit

-----------------------------------------------------------------------------
(* The effect of work: four weeks of data before the first change are compared
   with the last four, once six weeks have passed since the last. *)

Period == 4
Maturity == 6
LeastCoverage == 2
RetryAfter == 1
RefreshAfter == 4

EffectStatuses == {"insufficient_data", "too_early", "development_visible"}

EffectStatus(cohort, latest, before, after, asOf) ==
    IF cohort = {} THEN "insufficient_data"
    ELSE IF latest + Maturity > asOf THEN "too_early"
    ELSE IF before < LeastCoverage \/ after < LeastCoverage THEN "insufficient_data"
    ELSE "development_visible"

\* evaluate_effect_cohort: the effect of the work of some weeks, as of a week.
EffectOf(works, weeks, from, to, asOf) ==
    LET cohort == {t \in DOMAIN works : works[t].week \in from .. to}
        earliest == IF cohort = {} THEN from ELSE Min({works[t].week : t \in cohort})
        latest == IF cohort = {} THEN to ELSE Max({works[t].week : t \in cohort})
        before == IF cohort = {} THEN 0 ELSE Cardinality(weeks \cap (earliest - Period .. earliest - 1))
        after == IF cohort = {} THEN 0 ELSE Cardinality(weeks \cap (asOf - Period .. asOf - 1))
    IN  [from |-> from, to |-> to, tasks |-> cohort, baseline |-> earliest - 1,
         before |-> before, after |-> after, created |-> asOf,
         status |-> EffectStatus(cohort, latest, before, after, asOf)]

\* The same result is not stored twice.
Evaluated(stored, works, weeks, from, to, asOf) ==
    LET result == EffectOf(works, weeks, from, to, asOf)
    IN  IF result \in ToSet(stored) THEN stored ELSE Append(stored, result)

\* Variant: what was evaluated is not evaluated again.
RecheckOnce(stored, change, asOf) ==
    ~ \E i \in DOMAIN stored : stored[i].from = change /\ stored[i].to = change

\* _effect_recheck_due, for the newest evaluation of the week of a change.
RecheckDue(stored, change, asOf) ==
    LET own == SelectSeq(stored, LAMBDA e : e.from = change /\ e.to = change)
        newest == own[Len(own)]
    IN  \/ own = <<>>
        \/ own # <<>> /\ asOf >= CASE newest.status = "too_early" -> change + Maturity
                                     [] newest.status = "insufficient_data" -> newest.created + RetryAfter
                                     [] OTHER -> newest.created + RefreshAfter

-----------------------------------------------------------------------------
(* Checks *)

\* execute_verification up to its loop; the check of an accessibility component
\* takes the rows of the task as they are now.
BeginCheck(t) ==
    LET type == tasks[t].type
        scope == IF type = "repair_accessibility_component" THEN tasks[t].scope ELSE checks[t].scope
        read == Requested(type, scope)
    IN  /\ checks[t].phase = "queued"
        /\ checks' = [checks EXCEPT ![t].phase = "running", ![t].todo = read,
                                    ![t].shots = [p \in read |-> [run |-> 0]]]
        /\ tasks' = [tasks EXCEPT ![t].shown = "running"]
        /\ UNCHANGED <<world, answers, status, changed, effects, chances, week, measured, verdict, count>>

\* _fetch_scoped_url, and for an accessibility component the render of the page,
\* which ends the check when it fails.
ReadPage(t) ==
    LET check == checks[t]
    IN  /\ check.phase = "running"
        /\ \E p \in check.todo : \E shot \in {Fetch(answers, p, 1)} :
            /\ \A q \in check.todo : p <= q
            /\ tasks[t].type = "repair_accessibility_component" => Fetched(shot)
            /\ checks' = [checks EXCEPT ![t].todo = @ \ {p}, ![t].shots[p] = shot]
        /\ UNCHANGED <<world, answers, status, tasks, changed, effects, chances, week, measured, verdict, count>>

\* materialize_task_intervention: once per task, for work with a scope.
Materialize(t, task) ==
    IF t \in DOMAIN changed \/ task.implemented = 0 \/ task.scope = <<>>
       \/ task.status \notin {"implemented", "closed"}
    THEN changed
    ELSE [u \in DOMAIN changed \cup {t} |->
            IF u = t THEN [week |-> task.implemented, scope |-> task.scope] ELSE changed[u]]

\* Variant: the task takes the status of the check.
FinishedAsShown(task, outcome) == [task EXCEPT !.status = StatusForOutcome[outcome]]

\* _finish for a task whose check decided.
Finished(task, outcome) ==
    CASE outcome = "resolved" -> [task EXCEPT !.status = "closed", !.reason = "verified"]
      [] outcome = "not_resolved" -> [task EXCEPT !.status = "in_progress", !.implemented = 0]
      [] OTHER -> [task EXCEPT !.status = "waiting_for_input"]

\* The rules of the check: of the frozen scope, of an accessibility component those
\* of the pages it rendered.
JudgedScope(t) ==
    IF tasks[t].type = "repair_accessibility_component"
    THEN LET read == DOMAIN checks[t].shots IN InUrlOrder(InRole(read, "changed"))
    ELSE checks[t].scope

LinkedPages(task) == {Here.issues[i].page : i \in ToSet(task.issues)}

FinishCheck(t) ==
    LET scope == JudgedScope(t)
        check == checks[t]
    IN  /\ check.phase = "running" /\ check.todo = {}
        /\ \E outcome \in {Outcome(Rules(tasks[t].type, scope, check.issueType,
                                         LinkedPages(tasks[t]), check.shots))} :
           \E task \in {[Finished(tasks[t], outcome) EXCEPT !.shown = StatusForOutcome[outcome]]} :
            /\ tasks' = [tasks EXCEPT ![t] = task]
            /\ changed' = IF outcome = "resolved" THEN Materialize(t, task) ELSE changed
            /\ effects' = IF outcome = "resolved" /\ t \in DOMAIN changed'
                          THEN Evaluated(effects, changed', measured, changed'[t].week,
                                         changed'[t].week, week) ELSE effects
            /\ status' = IF outcome = "resolved" /\ task.issues # <<>>
                         THEN [status EXCEPT ![task.issues[1]] =
                                IF @ \in {"ignored", "accepted_risk"} THEN @ ELSE "resolved"]
                         ELSE status
            /\ verdict' = [task |-> t, scope |-> scope, shots |-> check.shots,
                           frozen |-> check.scope, outcome |-> outcome]
        /\ checks' = [checks EXCEPT ![t] = NoCheck]
        /\ UNCHANGED <<world, answers, chances, week, measured, count>>

\* _fail, after the attempts that module Verification counts.
FailCheck(t) ==
    /\ checks[t].phase \in {"queued", "running"}
    /\ checks' = [checks EXCEPT ![t] = NoCheck]
    /\ tasks' = [tasks EXCEPT ![t].shown = "error"]
    /\ UNCHANGED <<world, answers, status, changed, effects, chances, week, measured, verdict, count>>

-----------------------------------------------------------------------------
(* The website and its data *)

ChangePage(p, version) ==
    /\ count.changes < Here.bounds.changes
    /\ version \in Here.may[p] \ {answers[p]}
    /\ answers' = [answers EXCEPT ![p] = version]
    /\ Count("changes")
    /\ UNCHANGED <<world, status, tasks, checks, changed, effects, chances, week, measured, verdict>>

\* refresh_due_effect_evaluations: the changes in the order of their weeks, each with
\* what the evaluations of the changes before it left.
InWeekOrder == SetToSortSeq(DOMAIN changed, LAMBDA t, u : \/ changed[t].week < changed[u].week
                                                          \/ changed[t].week = changed[u].week /\ t < u)

RefreshedAfter(found, t) ==
    IF RecheckDue(found, changed[t].week, week)
    THEN Evaluated(found, changed, measured, changed[t].week, changed[t].week, week) ELSE found

Refreshed ==
    LET size == Cardinality(DOMAIN changed)
        found[n \in 0 .. size] ==
            IF n = 0 THEN effects ELSE RefreshedAfter(found[n - 1], InWeekOrder[n])
    IN  found[size]

\* Bound: the scheduler misses at most so many weeks in which it had work.
NextWeek ==
    /\ week < Root + Here.bounds.weeks
    /\ week' = week + 1
    /\ IF Refreshed = effects THEN UNCHANGED count
       ELSE count.missed < Here.bounds.missed /\ Count("missed")
    /\ UNCHANGED <<world, answers, status, tasks, checks, changed, effects, chances, measured, verdict>>

\* A synchronisation of Search Console brings the last four weeks.
ImportMetrics ==
    /\ week \in Here.imports
    /\ measured' = measured \cup (week - Period .. week - 1)
    /\ measured' # measured
    /\ UNCHANGED <<world, answers, status, tasks, checks, changed, effects, chances, week, verdict, count>>

\* evaluate_website_opportunities, of which what is stored already is kept.
EvaluateOpportunities(facts, days) ==
    /\ LET ids(p) == [type \in {Here.issues[i].type : i \in Issues} |->
                        {i \in Issues : /\ Here.issues[i].page = p /\ Here.issues[i].type = type
                                        /\ status[i] \in Open}]
           open == [p \in DOMAIN facts |-> [ids |-> ids(p), confident |-> Here.confident]]
       IN  chances' = chances \cup Evaluations(facts, open, days)
    /\ UNCHANGED <<world, answers, status, tasks, checks, changed, effects, week, measured, verdict, count>>

-----------------------------------------------------------------------------
(* Effects *)

\* register_effect_intervention
RegisterIntervention(t) ==
    /\ changed' = Materialize(t, tasks[t])
    /\ changed' # changed
    /\ UNCHANGED <<world, answers, status, tasks, checks, effects, chances, week, measured, verdict, count>>

\* evaluate_effects
EvaluateEffects(from, to) ==
    /\ count.edits < Here.bounds.edits
    /\ effects' = Evaluated(effects, changed, measured, from, to, week)
    /\ Count("edits")
    /\ UNCHANGED <<world, answers, status, tasks, checks, changed, chances, week, measured, verdict>>

RefreshEffects ==
    /\ \E found \in {Refreshed} : found # effects /\ effects' = found
    /\ UNCHANGED <<world, answers, status, tasks, checks, changed, chances, week, measured, verdict, count>>

-----------------------------------------------------------------------------
(* The system *)

TaskStep ==
    \/ \E i \in Issues : CreateTaskFromIssue(i)
    \/ \E p \in Here.questions : CreateQuestionTask(p)
    \/ \E o \in chances : PromoteOpportunity(o)
    \/ \E t \in TaskIds :
        \/ \E new \in Here.moves : UpdateTask(t, new)
        \/ ReportImplemented(t)
        \/ RequestCheck(t)
        \/ \E row \in Here.rows : AddTaskUrl(t, row) \/ RemoveTaskUrl(t, row)

CheckStep == \E t \in TaskIds : BeginCheck(t) \/ ReadPage(t) \/ FinishCheck(t) \/ FailCheck(t)

EffectStep ==
    \/ \E t \in TaskIds : RegisterIntervention(t)
    \/ \E range \in Here.ranges : EvaluateEffects(range[1], range[2])
    \/ RefreshEffects

SiteStep ==
    \/ \E p \in DOMAIN Here.may : \E version \in Here.may[p] : ChangePage(p, version)
    \/ \E facts \in Here.facts, days \in Here.days : EvaluateOpportunities(facts, days)
    \/ ImportMetrics
    \/ NextWeek

Next == TaskStep \/ CheckStep \/ EffectStep \/ SiteStep

\* The scheduler looks for due evaluations every hour, time goes on.
Fairness == WF_vars(RefreshEffects) /\ WF_vars(NextWeek)

Spec == Init /\ [][Next]_vars /\ Fairness

-----------------------------------------------------------------------------
(* Properties *)

Phases == {"none", "queued", "running"}

(* Types.  In particular a check is only asked for a task whose type has one. *)
TypeOK ==
    /\ \A i \in Issues : status[i] \in Statuses
    /\ \A t \in TaskIds :
        /\ tasks[t].status \in DOMAIN AllowedTransitions
        /\ tasks[t].reason \in {"none", "manually_accepted", "verified"}
        /\ checks[t].phase \in Phases
        /\ checks[t].phase # "none" => Supported(tasks[t].type)
    /\ DOMAIN changed \subseteq TaskIds
    /\ \A i \in DOMAIN effects : effects[i].status \in EffectStatuses
    /\ DOMAIN checks = TaskIds

\* The types of which only the first source is judged.
FirstOnly ==
    {"restore_or_redirect_missing_page", "correct_indexability", "fix_redirect_chain_or_loop",
     "correct_canonical"}

JudgedPages(v) ==
    LET sources == PagesIn(v.scope, SourceRole(tasks[v.task].type))
    IN  IF tasks[v.task].type \in FirstOnly THEN {sources[1]} ELSE ToSet(sources)

\* The analyses of a crawl, of one of the snapshots, do not report the issue.
NotReported(issue, shots) ==
    LET reports == FetchReports(issue.page, shots[issue.page], <<>>, 0, FALSE)
    IN  \A i \in DOMAIN reports : \A s \in reports[i].shown : s.type # issue.type

(* A check that closes a task as resolved agrees with the crawl: of the very snapshots
   it judged, the analyses of a crawl no longer report the issue on its page.  A
   canonical to another page, which is what such a task may ask for, is excepted. *)
VerifiedAgreesWithCrawl ==
    verdict.outcome = "resolved" /\ tasks[verdict.task].issues # <<>> =>
        LET issue == Here.issues[tasks[verdict.task].issues[1]]
        IN  issue.page \in JudgedPages(verdict) /\ issue.type # "canonical_other_url" =>
                NotReported(issue, verdict.shots)

(* Work that was verified or registered is measured: some weeks after the change an
   evaluation of a mature effect counts it in, also when other work of that week was
   evaluated before it was registered. *)
EffectMeasured ==
    \A t \in 1 .. MaxTasks :
        /\ t \in DOMAIN changed
        /\ changed[t].week + Maturity <= Root + Here.bounds.weeks
        /\ week + Period <= Root + Here.bounds.weeks
        ~> \E i \in DOMAIN effects : effects[i].status # "too_early" /\ t \in effects[i].tasks
=============================================================================
