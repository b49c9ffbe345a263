----------------------------- MODULE SiteIssues -----------------------------
(***************************************************************************)
(* The life of the issues of one website: full crawls that fetch its pages, *)
(* analyse each page as it is stored and the website at the end, crawls     *)
(* that max_urls cuts off, that stop halfway and go on, recalculations of   *)
(* stored results, and the decisions of people about single issues.         *)
(*                                                                         *)
(* Grain.  A page with its assets is one step, and so is each analysis of   *)
(* the website, which commits its rows; a recalculation analyses all pages  *)
(* in one step.  Pauses inside the frontier and what the process loses then *)
(* are in module Frontier.                                                 *)
(*                                                                         *)
(* Abstractions.  All pages are in scope and no limit on query variants is  *)
(* reached.  Page 1 is the base URL.  One query that reads several rows is  *)
(* one read.                                                               *)
(***************************************************************************)
EXTENDS SiteSignals

CONSTANTS
    Worlds,        \* the websites, and what may happen to them: [answers, sitemap,
                   \* may, sitemaps] and the bounds [crawls, changes, decisions,
                   \* recalculations, stops]
    Maxima,        \* the values that the setting max_urls may have
    Decisions,     \* the statuses that people set
    StopPoints     \* bound: after which analyses a run may stop

Root == 1

Version == DOMAIN Answer

\* Pages are finitely many numbers, and versions and worlds name pages only.
ASSUME SitesAssumption ==
    /\ Pages \subseteq Nat \ {0} /\ IsFiniteSet(Pages) /\ Root \in Pages
    /\ Decisions \subseteq Statuses
    /\ \A v \in Version :
        /\ Answer[v].status \in Nat
        /\ {l.to : l \in Answer[v].links} \subseteq Pages
        /\ Answer[v].media \cup Answer[v].hreflang \cup Answer[v].images \subseteq Pages
    /\ Worlds \subseteq [answers : [Pages -> Version], may : [Pages -> SUBSET Version],
                         sitemap : SUBSET Pages, sitemaps : SUBSET SUBSET Pages,
                         bounds : [{"crawls", "changes", "decisions", "recalculations", "stops"} -> Nat]]

VARIABLES
    world,       \* the website: the version of each page, its sitemap, and what may come
    known,       \* urls
    row,         \* urls: status, final, indexable, depth
    listed,      \* url_sources of type sitemap: the last run that listed the page
    sources,     \* url_sources of type internal_link: targets per source page
    shots,       \* url_snapshots, with the url_links of their content
    changes,     \* changes: page, run and change type
    listing,     \* job_listings.lifecycle_status per page, "none" without a row
    issues,      \* issues and issue_occurrences
    suppressed,  \* issue_suppressions with is_active
    runs,        \* the status of each full crawl
    job,         \* the crawl that runs or is stopped: max_urls, pending, visited, phase,
                 \* and in the analyses the next one
    before,      \* history: the statuses at the start of the last crawl, of the
                 \* rows that nobody decided about since
    decided,     \* history: the keys that people decided about
    count        \* history: crawls, recalculations, changes, decisions and stops

stored == <<known, row, listed, sources, shots, changes, listing>>
vars == <<world, stored, issues, suppressed, runs, job, before, decided, count>>

NoRow == [status |-> 0, final |-> 0, indexable |-> FALSE, depth |-> NoDepth]
NoJob ==
    [phase |-> "idle", source |-> 0, max |-> 0, pending |-> <<>>, visited |-> {},
     resumed |-> FALSE, pass |-> 0]

Init ==
    /\ world \in Worlds
    /\ known = {} /\ row = [p \in Pages |-> NoRow] /\ listed = [p \in Pages |-> 0]
    /\ sources = [p \in Pages |-> {}] /\ shots = [p \in Pages |-> <<>>]
    /\ changes = {} /\ listing = [p \in Pages |-> "none"]
    /\ issues = [k \in {} |-> NoRow] /\ suppressed = {}
    /\ runs = <<>> /\ job = NoJob
    /\ before = [k \in {} |-> ""] /\ decided = {}
    /\ count = [recalculations |-> 0, changes |-> 0, decisions |-> 0, stops |-> 0]

Run == Len(runs)

Count(what) == count' = [count EXCEPT ![what] = @ + 1]

\* The rows the analyses of run n read.
StoredAs(n) == Analysed(known, row, listed, shots, issues, suppressed, n)

-----------------------------------------------------------------------------
(* The website *)

ChangePage(p, version) ==
    /\ count.changes < world.bounds.changes
    /\ version \in world.may[p] \ {world.answers[p]}
    /\ world' = [world EXCEPT !.answers[p] = version]
    /\ Count("changes")
    /\ UNCHANGED <<stored, issues, suppressed, runs, job, before, decided>>

ChangeSitemap(pages) ==
    /\ count.changes < world.bounds.changes
    /\ pages \in world.sitemaps \ {world.sitemap}
    /\ world' = [world EXCEPT !.sitemap = pages]
    /\ Count("changes")
    /\ UNCHANGED <<stored, issues, suppressed, runs, job, before, decided>>

-----------------------------------------------------------------------------
(* A full crawl *)

Entries(pages, rows) ==
    LET order == InOrder(pages)
    IN  [i \in DOMAIN order |-> [page |-> order[i], depth |-> rows[order[i]].depth]]

\* execute_crawl_job up to the loop: a new run imports the sitemap and forgets the depths.
StartCrawl(max) ==
    /\ job.phase = "idle" /\ Run < world.bounds.crawls
    /\ runs' = Append(runs, "running")
    /\ listed' = [p \in Pages |-> IF p \in world.sitemap THEN Run + 1 ELSE listed[p]]
    /\ known' = known \cup world.sitemap \cup {Root}
    /\ row' = [p \in Pages |-> [row[p] EXCEPT !.depth = IF p = Root THEN 0 ELSE NoDepth]]
    /\ job' = [phase |-> "pages", source |-> Run + 1, max |-> max, visited |-> {}, resumed |-> FALSE,
               pass |-> 0, pending |-> Entries({p \in known' : Url[p].html}, row')]
    /\ before' = [k \in DOMAIN issues |-> issues[k].status]
    /\ UNCHANGED <<world, sources, shots, changes, listing, issues, suppressed, decided, count>>

\* A paused or failed run goes on: what has a snapshot is not fetched again.
ResumeCrawl ==
    /\ job.phase = "stopped"
    /\ LET done == {p \in known : Url[p].html /\ \E i \in DOMAIN shots[p] : shots[p][i].run = Run}
       IN  job' = [job EXCEPT !.phase = "pages", !.resumed = TRUE, !.visited = done,
                              !.source = Run, !.pass = 0,
                              !.pending = Entries({p \in known : Url[p].html} \ done, row)]
    /\ runs' = [runs EXCEPT ![Run] = "running"]
    /\ UNCHANGED <<world, stored, issues, suppressed, before, decided, count>>

\* pending.sort is stable: the first entry of the least depth, None last.
NextEntry ==
    LET entries == job.pending
    IN  CHOOSE i \in DOMAIN entries :
            /\ \A j \in DOMAIN entries : entries[i].depth <= entries[j].depth
            /\ \A j \in 1 .. i - 1 : entries[j].depth # entries[i].depth

Shallower(d, e) == IF d <= e THEN d ELSE e

\* The reports about one stored page, reconciled in their order.
Reconciled(rows, reports, n) ==
    LET found[i \in 0 .. Len(reports)] ==
            IF i = 0 THEN rows ELSE Reconcile(found[i - 1], reports[i], suppressed, n)
    IN  found[Len(reports)]

\* The snapshots of the page that are not of the run of this one.
OtherShots(p, shot) == {i \in DOMAIN shots[p] : shots[p][i].run # shot.run}

\* Variant: the oldest other snapshot.
OldestShot(p, shot) ==
    IF OtherShots(p, shot) = {} THEN <<>> ELSE <<shots[p][Min(OtherShots(p, shot))]>>

\* analyze_snapshot takes the newest other snapshot of the page for the previous one.
PreviousShot(p, shot) ==
    IF OtherShots(p, shot) = {} THEN <<>> ELSE <<shots[p][Max(OtherShots(p, shot))]>>

Contextual404Known(rows, p) ==
    \E t \in {"internally_linked_404", "sitemap_404"} :
        StatusOf(rows, <<p, t>>) \notin {"none", "resolved", "verified"}

\* The reports of a page and of the assets that are audited with it and answer.
ReportsOf(p, shot, previous, inbound, assets) ==
    FetchReports(p, shot, previous, inbound, Contextual404Known(issues, p))
    \o [i \in DOMAIN assets |-> InspectAsset(assets[i].page, assets[i].shot)]

\* store_fetch_result and _audit_asset write the snapshot; only the first
\* writes the answer into the row of the page.
StoreRow(rows, p, shot) ==
    IF Url[p].html /\ Fetched(shot)
    THEN [rows EXCEPT ![p].status = Content(shot).status, ![p].final = shot.final,
                      ![p].indexable = Indexable(p, shot)]
    ELSE rows

\* update_job_listing, for a page whose snapshot is analysed.
Listed(p, shot) == IF Recognized(p, shot) THEN Lifecycle(shot) ELSE listing[p]

\* analyze_snapshot compares what was fetched with the newest other snapshot.
ChangesSince(p, shot, previous) ==
    IF Fetched(shot) THEN DetectedChanges(p, shot, previous) ELSE {}

\* The links to p that this run has stored, the page that is being stored included.
InboundSoFar(p, from, shot) ==
    Cardinality({l \in LinksOf(from, shot) : l.to = p})
    + Cardinality({l \in StoredAs(Run).links : l.to = p})

\* The links and images of a page: the targets that are followed.
Targets(p, shot) ==
    {l.to : l \in LinksOf(p, shot)}
    \cup (IF Url[p].html /\ ServesHtml(shot) THEN Content(shot).media ELSE {})

\* The targets of a page in the frontier: deeper by one, added once.
Followings(rows, pending, targets, depth, visited) ==
    LET next == IF depth = NoDepth THEN NoDepth ELSE depth + 1
        new == {t \in targets : t \notin visited /\ \A i \in DOMAIN pending : pending[i].page # t}
    IN  [row |-> [p \in Pages |-> IF p \in targets
                                  THEN [rows[p] EXCEPT !.depth = Shallower(@, next)] ELSE rows[p]],
         pending |-> pending \o [i \in DOMAIN InOrder(new) |-> [page |-> InOrder(new)[i], depth |-> next]]]

\* What the page names that is not in the frontier but is audited, once per run.
AssetsOf(targets) ==
    {t \in targets : ~ Url[t].html /\ \A i \in DOMAIN shots[t] : shots[t][i].run # Run}

Answering(assets) == {t \in assets : Fetched(Fetch(world.answers, t, Run))}

\* The assets that answer and their snapshots, in the order of their URLs.
Audits(answering) ==
    LET order == InOrder(answering)
    IN  [i \in DOMAIN order |-> [page |-> order[i], shot |-> Fetch(world.answers, order[i], Run)]]

\* One page: its snapshot, row, links and issues, then its assets, then its targets.
Store(p, depth, shot, previous, targets, assets) ==
    /\ known' = known \cup Referenced(p, shot)
    /\ sources' = [sources EXCEPT ![p] = targets]
    /\ shots' = [q \in Pages |-> IF q = p THEN Append(shots[q], shot)
                                 ELSE IF q \in assets
                                 THEN Append(shots[q], Fetch(world.answers, q, Run)) ELSE shots[q]]
    /\ changes' = changes \cup {<<p, Run, t>> : t \in ChangesSince(p, shot, previous)}
    /\ listing' = IF Fetched(shot) THEN [listing EXCEPT ![p] = Listed(p, shot)] ELSE listing
    /\ \E inbound \in {InboundSoFar(p, p, shot)} :
       \E answering \in {Answering(assets)} :
       \E audits \in {Audits(answering)} :
       \E reports \in {ReportsOf(p, shot, previous, inbound, audits)} :
          issues' = Reconciled(issues, reports, Run)
    /\ \E next \in {Followings(StoreRow(IF depth = NoDepth THEN row
                                        ELSE [row EXCEPT ![p].depth = depth], p, shot),
                               RemoveAt(job.pending, NextEntry), {t \in targets : Url[t].html},
                               depth, job.visited \cup {p})} :
        /\ row' = next.row
        /\ job' = [job EXCEPT !.pending = next.pending, !.visited = @ \cup {p}]

FetchPage ==
    /\ job.phase = "pages" /\ job.pending # <<>> /\ Cardinality(job.visited) < job.max
    /\ \E entry \in {job.pending[NextEntry]} :
       \E shot \in {Fetch(world.answers, entry.page, Run)} :
       \E previous \in {PreviousShot(entry.page, shot)} :
       \E targets \in {sources[entry.page] \cup Targets(entry.page, shot)} :
       \E assets \in {AssetsOf(targets)} :
          Store(entry.page, IF entry.depth = NoDepth THEN NoDepth
                            ELSE Shallower(entry.depth, row[entry.page].depth),
                shot, previous, targets, assets)
    /\ UNCHANGED <<world, listed, suppressed, runs, before, decided, count>>

-----------------------------------------------------------------------------
(* The analyses *)

FailedIn(n) == \E p \in known : \E i \in DOMAIN shots[p] : shots[p][i].run = n /\ ~ Fetched(shots[p][i])

PagesDone == job.phase = "pages" /\ (job.pending = <<>> \/ Cardinality(job.visited) >= job.max)

\* A frontier that is empty is analysed as a website, and so are the results that
\* are recalculated; another crawl only classifies its 404s.
FirstPass == IF job.pending = <<>> THEN 1 ELSE Classification

Pass == IF job.pass = 0 THEN FirstPass ELSE job.pass

Ended == IF job.pending = <<>> /\ ~ FailedIn(Run) THEN "succeeded" ELSE "partially_succeeded"

AnalyseSite ==
    /\ PagesDone \/ job.phase \in {"analyses", "recalculating"}
    /\ \E w \in {StoredAs(job.source)} : \E report \in {SiteReport(w, Pass)} :
          issues' = IF Pass = 1
                    THEN ResolvedOrphans(Reconcile(issues, report, suppressed, w.run), report.owners)
                    ELSE Reconcile(issues, report, suppressed, w.run)
    /\ IF Pass < SitePasses
       THEN /\ job' = [job EXCEPT !.pass = Pass + 1,
                                  !.phase = IF @ = "pages" THEN "analyses" ELSE @]
            /\ UNCHANGED runs
       ELSE /\ job' = [job EXCEPT !.pass = 0, !.phase = "idle"]
            /\ runs' = IF job.phase = "recalculating" THEN runs ELSE [runs EXCEPT ![Run] = Ended]
    /\ UNCHANGED <<world, stored, suppressed, before, decided, count>>

\* _check_crawl_control meets a request, or the run fails: between two pages, or
\* after an analysis.
StopCrawl ==
    /\ count.stops < world.bounds.stops
    /\ \/ job.phase = "pages" /\ ~ PagesDone
       \/ job.phase = "analyses" /\ job.pass - 1 \in StopPoints
    /\ runs' = [runs EXCEPT ![Run] = "stopped"]
    /\ job' = [job EXCEPT !.phase = "stopped", !.pass = 0]
    /\ Count("stops")
    /\ UNCHANGED <<world, stored, issues, suppressed, before, decided>>

\* A recalculation that fails halfway: it is not taken up again.
StopRecalculation ==
    /\ count.stops < world.bounds.stops
    /\ job.phase = "recalculating" /\ job.pass - 1 \in StopPoints
    /\ job' = [job EXCEPT !.phase = "idle", !.pass = 0]
    /\ Count("stops")
    /\ UNCHANGED <<world, stored, issues, suppressed, runs, before, decided>>

\* A stopped run that nobody resumes: it was cancelled, or its retries are used up.
GiveUpCrawl ==
    /\ job.phase = "stopped"
    /\ job' = [job EXCEPT !.phase = "idle"]
    /\ UNCHANGED <<world, stored, issues, suppressed, runs, before, decided, count>>

\* The reports of the stored snapshots, reconciled page by page, and their vacancies.
RecalculatedIssues(w, reports) ==
    LET order == InOrder(Snapped(w))
    IN  Reconciled(issues, [i \in DOMAIN order |-> reports[order[i]]], w.run)

RecalculatedListing(w) ==
    [p \in Pages |-> IF p \in Snapped(w) THEN Listed(p, w.shot[p]) ELSE listing[p]]

\* _recalculate_stored_issues: every snapshot of the last crawl that ended, on the
\* rows as they are now; the analyses of the website follow.
Recalculate(n) ==
    /\ job.phase = "idle" /\ count.recalculations < world.bounds.recalculations
    /\ runs[n] \in {"succeeded", "partially_succeeded"}
    /\ \A m \in n + 1 .. Run : runs[m] = "stopped"
    /\ \E w \in {StoredAs(n)} :
       \E previous \in {[p \in Snapped(w) |-> PreviousShot(p, w.shot[p])]} :
       \E reports \in {[p \in Snapped(w) |->
                          AnalyzeSnapshot(p, w.shot[p], previous[p],
                                          Cardinality({l \in w.links : l.to = p}),
                                          Contextual404Known(issues, p))]} :
        /\ issues' = RecalculatedIssues(w, reports)
        /\ listing' = RecalculatedListing(w)
    /\ job' = [job EXCEPT !.phase = "recalculating", !.source = n, !.pass = 1]
    /\ Count("recalculations")
    /\ UNCHANGED <<world, known, row, listed, sources, shots, changes, suppressed, runs,
                   before, decided>>

-----------------------------------------------------------------------------
(* People *)

Decide(k) ==
    /\ count.decisions < world.bounds.decisions
    /\ decided' = decided \cup {k}
    /\ before' = [j \in DOMAIN before \ {k} |-> before[j]]
    /\ Count("decisions")
    /\ UNCHANGED <<world, stored, runs, job>>

\* update_issue and the actions resolve_and_recheck and wont_fix of a bulk update.
SetStatus(k, status) ==
    /\ k \in DOMAIN issues /\ Decide(k)
    /\ issues' = [issues EXCEPT ![k].status = status]
    /\ UNCHANGED suppressed

\* suppress_issue_type is refused for the issues of the website as a whole.
Suppress(k) ==
    /\ k \in DOMAIN issues /\ k[1] \in Pages /\ Decide(k)
    /\ issues' = [issues EXCEPT ![k].status = "ignored"]
    /\ suppressed' = suppressed \cup {k}

RestoreSuppressed(k) ==
    /\ k \in suppressed /\ Decide(k)
    /\ suppressed' = suppressed \ {k}
    /\ issues' = IF StatusOf(issues, k) = "ignored" THEN [issues EXCEPT ![k].status = "new"] ELSE issues

Next ==
    \/ \E p \in Pages : \E version \in world.may[p] : ChangePage(p, version)
    \/ \E pages \in world.sitemaps : ChangeSitemap(pages)
    \/ \E max \in Maxima : StartCrawl(max)
    \/ ResumeCrawl \/ FetchPage \/ AnalyseSite \/ StopCrawl \/ GiveUpCrawl
    \/ (\E n \in DOMAIN runs : Recalculate(n)) \/ StopRecalculation
    \/ \E k \in DOMAIN issues : \/ \E status \in Decisions : SetStatus(k, status)
                                \/ Suppress(k) \/ RestoreSuppressed(k)

Spec == Init /\ [][Next]_vars

-----------------------------------------------------------------------------
(* Properties *)

\* The rows have the shapes the code gives them.
TypeOK ==
    /\ known \subseteq Pages /\ suppressed \subseteq DOMAIN issues
    /\ \A p \in Pages :
        /\ row[p].status \in Nat /\ row[p].final \in Pages \cup {0}
        /\ row[p].depth \in 0 .. NoDepth /\ row[p].indexable \in BOOLEAN
        /\ listed[p] \in 0 .. Run /\ sources[p] \subseteq known
        /\ shots[p] # <<>> => p \in known
        /\ \A i, j \in DOMAIN shots[p] : i < j => shots[p][i].run < shots[p][j].run
    /\ \A k \in DOMAIN issues :
        /\ k[1] \in Pages \cup {Site, Clusters} /\ issues[k].status \in Statuses
        /\ \A i, j \in DOMAIN issues[k].seen : issues[k].seen[i].run = issues[k].seen[j].run => i = j
    /\ listing \in [Pages -> {"none", "active", "expired", "removed", "redirected"}]
    /\ \A c \in changes : c[1] \in known /\ c[2] \in 1 .. Run
    /\ job.phase \in {"idle", "pages", "analyses", "stopped", "recalculating"} /\ job.pass \in 0 .. SitePasses
    /\ job.visited \subseteq known
    /\ Run <= world.bounds.crawls /\ runs \in Seq({"running", "stopped", "succeeded", "partially_succeeded"})

\* Two neighbouring snapshots of a page that both have an answer.
Neighbours(p) ==
    {i \in DOMAIN shots[p] \ {1} : Fetched(shots[p][i - 1]) /\ Fetched(shots[p][i])}

(* The changes of a page are those between one crawl and the one before it,
   whether runs were stopped, resumed or cut off: a page that answers as it did
   has none, and one whose status or target changed has that change
   (analysis.py:33-60). *)
ChangesAreReal ==
    \A p \in {q \in Pages : Url[q].html} : \A i \in Neighbours(p) :
        LET old == shots[p][i - 1]
            new == shots[p][i]
            said(t) == <<p, new.run, t>> \in changes
        IN  /\ old.end = new.end /\ old.final = new.final => \A t \in DOMAIN Observed(p, new) : ~ said(t)
            /\ ~ DiscoveryOnly(p, new) =>
                   /\ said("status_code_changed") <=> Content(old).status # Content(new).status
                   /\ said("redirect_target_changed") <=> old.final # new.final

CrawlEnds == job.phase = "analyses" /\ job'.phase = "idle"
CompleteCrawl == CrawlEnds /\ job.pending = <<>>

\* Types that an analysis reports and that none ever finds missing on a page.
NeverMissed == {"internally_linked_404", "sitemap_404", "unexpected_noindex"}

\* What a crawl of every page looks at again: of an HTML page it takes the findings about
\* a file only up while the page serves none (a page that redirected to a broken image).
LooksAt(k) ==
    IF Url[k[1]].html THEN k[2] \in AssetTypes => ~ ServesHtml(Last(shots[k[1]]))
    ELSE k[2] \in AssetTypes

(* After a crawl that read every page of the website, what is open was seen by
   it: nothing of an earlier crawl is left open that this one did not see
   (jobs.py:587-631 together with every checked_types). *)
SettledAfterCrawl ==
    [][CompleteCrawl /\ runs'[Run] = "succeeded" =>
        \A k \in DOMAIN issues' \ (decided \cup suppressed) :
            /\ issues'[k].status \in Open /\ k[2] \notin NeverMissed
            /\ k[1] \in Pages => LooksAt(k)
            => HasOccurrence(issues', k, Run)]_vars

\* The members that the open group issue k names.
Named(rows, k) == IF IsOpen(rows, k) THEN LatestEvidence(rows, k) ELSE {}

Review == <<Site, "pagination_series_review">>

(* After a complete crawl a group names what is true of its members then: every
   page of a template cluster has the open issue, every page of a 404 pattern is
   gone, every page of a redirect pattern or incident has the signal of this
   crawl; and no page is both in a cluster and in a series that is reviewed as
   one.  What people decide about a group or a page in the meantime stands.
   Clusters of broken links lag one crawl: they are made before the links
   are classified (jobs.py:587-631, 205-213). *)
GroupsFollowMembers ==
    [][CompleteCrawl =>
        /\ \A t \in ClusterableTypes \ {"multiple_broken_internal_links"} :
            \A p \in Named(issues', <<Clusters, t>>) :
                <<Clusters, t>> \notin decided =>
                    /\ <<p, t>> \notin decided => IsOpen(issues', <<p, t>>)
                    /\ t \in PaginationChildTypes /\ Review \notin decided =>
                         p \notin Named(issues', Review)
        /\ \A p \in Named(issues', <<Site, "patterned_404_urls">>) :
            <<Site, "patterned_404_urls">> \notin decided => row[p].status = 404
        /\ \A pair \in {<<"internal_redirect_patterns", "internally_linked_redirect">>,
                        <<"sitemap_redirect_patterns", "sitemap_redirect">>,
                        <<"server_error_incident", "http_5xx">>} :
            <<Site, pair[1]>> \notin decided =>
                \A p \in Named(issues', <<Site, pair[1]>>) : HasOccurrence(issues', <<p, pair[2]>>, Run)
       ]_vars

\* A plain 404 beside a contextual one: people opened it again, or accepted the other.
Beside(k) ==
    k[2] = "http_404" /\ \E t \in Contextual404Types \ {"http_404"} :
        \/ <<k[1], t>> \in decided
        \/ <<k[1], t>> \in DOMAIN before /\ before[<<k[1], t>>] \notin {"resolved", "verified"}

\* What two analyses of one crawl find missing in turn.
CheckedTwice(k) == k[2] \in {"thin_content"} \cup HtmlOnlyTypes \/ Beside(k)

(* Verified needs a second clean check: what was open when a crawl began is at
   most resolved when it ends (docs/architecture.md:57-59). *)
NotVerifiedAtOnce ==
    [][CrawlEnds /\ ~ job.resumed =>
        \A k \in DOMAIN before :
            before[k] \in Open /\ ~ CheckedTwice(k) => issues'[k].status # "verified"]_vars
=============================================================================
