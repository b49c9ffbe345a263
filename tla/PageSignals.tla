----------------------------- MODULE PageSignals -----------------------------
(***************************************************************************)
(* What the checks of one page report: the reachability, the on-page        *)
(* content, the soft 404s, the job postings, the elements, the assets and   *)
(* the failures to fetch.  Every operator is a function of the snapshot and *)
(* of the few rows the check reads beside it.                              *)
(*                                                                         *)
(* Abstractions.  What a website answers for a page is a version of it; the *)
(* content of a version is its record in Answer.  The parsing of HTML, of   *)
(* structured data and of dates is left out: flaws names the checks that    *)
(* fail on the content.  What only depends on the text of a URL is its      *)
(* record in Url.  Evidence is reduced to the pages and numbers in it.      *)
(***************************************************************************)
EXTENDS IssueRows, FiniteSets

CONSTANTS
    Pages,    \* the pages of the website, by the order of normalized_url
    Url,      \* per page what the checks read in its URL
    Answer    \* per version the content that is fetched

\* ORDER BY: the i-th of some numbers has i - 1 smaller ones.
InOrder(numbers) ==
    [i \in 1 .. Cardinality(numbers) |->
        CHOOSE p \in numbers : Cardinality({q \in numbers : q < p}) = i - 1]

\* The pages that p redirects to one after the other, 0 behind the last.
RedirectChain(answers, p) ==
    LET chain[i \in 0 .. Cardinality(Pages) + 1] ==
            IF i = 0 THEN p ELSE IF chain[i - 1] = 0 THEN 0 ELSE Answer[answers[chain[i - 1]]].to
    IN  chain

\* fetch_url: the page that answers in the end when every page has a version, 0
\* when the redirects form a circle.
Followed(answers, p) ==
    LET chain == RedirectChain(answers, p)
        ends == {i \in 0 .. Cardinality(Pages) : chain[i] \in Pages /\ chain[i + 1] = 0}
    IN  IF ends = {} THEN [final |-> 0, hops |-> 0]
        ELSE LET i == CHOOSE i \in ends : TRUE IN [final |-> chain[i], hops |-> i]

\* url_snapshots, of run n: the version of the page that answered last, over how many
\* redirects, or why nothing was fetched.
Fetch(answers, p, n) ==
    LET end == Followed(answers, p)
        failed(reason) == [run |-> n, final |-> p, end |-> answers[p], hops |-> 0, error |-> reason]
    IN  IF Url[p].html /\ Answer[answers[p]].blocked THEN failed("robots")
        ELSE IF end.final = 0 THEN failed("redirect_loop")
        ELSE [run |-> n, final |-> end.final, end |-> answers[end.final], hops |-> end.hops,
              error |-> Answer[answers[end.final]].error]

Content(shot) == Answer[shot.end]
Fetched(shot) == shot.error = ""
Redirected(shot) == shot.hops > 0

ServesHtml(shot) == Fetched(shot) /\ Content(shot).html

\* is_indexable of the snapshot: assets and failures are stored as FALSE.
Indexable(p, shot) ==
    Url[p].html /\ Fetched(shot) /\ Content(shot).status = 200 /\ ~ Content(shot).noindex

\* The links of the page whose content was stored, and its other references.
LinksOf(p, shot) == IF Url[p].html /\ ServesHtml(shot) THEN Content(shot).links ELSE {}

\* Variant: images are not registered.
ReferencedLinks(p, shot) == {l.to : l \in LinksOf(p, shot)}

Referenced(p, shot) ==
    IF Url[p].html /\ ServesHtml(shot)
    THEN {l.to : l \in Content(shot).links} \cup Content(shot).media
         \cup Content(shot).hreflang \cup Content(shot).images
    ELSE {}

CanonicalOf(p, shot) == IF Url[p].html /\ ServesHtml(shot) THEN Content(shot).canonical ELSE 0

\* is_discovery_only_page: a search page, or a variant that names its path as canonical.
DiscoveryOnly(p, shot) ==
    \/ Url[p].search
    \/ CanonicalOf(p, shot) # 0 /\ CanonicalOf(p, shot) = Url[p].variantOf

Signal(p, type, evidence) == [owner |-> p, type |-> type, evidence |-> evidence]

SignalIf(condition, p, type, evidence) == IF condition THEN {Signal(p, type, evidence)} ELSE {}

-----------------------------------------------------------------------------
(* Types *)

OnPageTypes == {"missing_title", "missing_meta_description", "missing_h1", "multiple_h1"}

JobFlawTypes ==
    {"job_posting_missing_fields", "job_posting_invalid_dates",
     "job_posting_missing_application", "job_posting_remote_location_missing",
     "job_posting_location_incomplete", "job_posting_not_detail_page",
     "job_posting_missing_recommended_fields"}

ReachabilityTypes ==
    {"http_404", "http_410", "http_5xx", "crawl_timeout", "redirect_loop",
     "unreachable_url_target", "long_redirect_chain"}

SnapshotTypes ==
    ReachabilityTypes \cup OnPageTypes \cup JobFlawTypes \cup
    {"thin_content", "possibly_outdated_content", "canonical_other_url",
     "conflicting_robots", "invalid_json_ld", "expired_job_posting",
     "expired_job_posting_linked", "expired_job_posting_404",
     "job_posting_schema_missing", "robots_txt_blocked", "cms_link_placeholder",
     "broken_application_cta", "soft_404", "possible_soft_404"}

ElementTypes ==
    {"cms_link_placeholder", "broken_application_cta", "image_alt_missing",
     "functional_image_alt_empty"}

CrawlErrorTypes == {"crawl_timeout", "redirect_loop", "unreachable_url_target"}

AssetTypes == {"oversized_image", "oversized_document", "broken_image"}

HtmlOnlyTypes ==
    OnPageTypes \cup JobFlawTypes \cup
    {"canonical_other_url", "conflicting_robots", "expired_job_posting",
     "job_posting_schema_missing", "thin_content", "unexpected_noindex"}

-----------------------------------------------------------------------------
(* A page that was read *)

NearlyEmptyWords == 30
Soft404Words == 60
MaxHops == 3

\* A canonical without a query on the same path is expected, but not of a paged page.
CanonicalActionable(p, c) == c \notin {0, p} /\ (c = Url[p].variantOf => Url[p].paged)

ReachabilitySignals(p, shot) ==
    LET status == Content(shot).status
    IN  SignalIf(status = 404, p, "http_404", {status})
        \cup SignalIf(status = 410, p, "http_410", {status})
        \cup SignalIf(status >= 500, p, "http_5xx", {status})
        \cup SignalIf(shot.hops > MaxHops, p, "long_redirect_chain", {shot.hops})

\* inspect_snapshot: a page that redirects is only checked for its reachability.
ContentSignals(p, shot) ==
    LET a == Content(shot)
        onPage == Indexable(p, shot) /\ a.html
    IN  IF Redirected(shot) THEN {}
        ELSE {Signal(p, flaw, {}) : flaw \in IF onPage THEN a.flaws \cap OnPageTypes ELSE {}}
             \cup SignalIf(onPage /\ a.words < NearlyEmptyWords /\ ~ Url[p].functional,
                           p, "thin_content", {0})
             \cup SignalIf(a.status = 200 /\ CanonicalActionable(p, CanonicalOf(p, shot)),
                           p, "canonical_other_url", {a.canonical})
             \cup SignalIf("conflicting_robots" \in a.flaws, p, "conflicting_robots", {})
             \cup SignalIf(a.status = 200 /\ "invalid_json_ld" \in a.flaws,
                           p, "invalid_json_ld", {})
             \cup SignalIf(onPage /\ "possibly_outdated_content" \in a.flaws,
                           p, "possibly_outdated_content", {})

PageGone(shot) == Fetched(shot) /\ Content(shot).status \in {404, 410}

\* inspect_soft_404: two of four strong signs, or an empty list of results.
Soft404Signals(p, shot, previous) ==
    LET a == Content(shot)
        marked == a.markers \cap {"title", "text"} # {}
        elsewhere == CanonicalOf(p, shot) \notin {0, p}
        signs == (IF "title" \in a.markers THEN {"title"} ELSE {})
                 \cup (IF "text" \in a.markers /\ a.words <= Soft404Words THEN {"empty"} ELSE {})
                 \cup (IF elsewhere /\ marked THEN {"canonical"} ELSE {})
                 \cup (IF previous # <<>> /\ PageGone(previous[1]) /\ marked THEN {"gone"} ELSE {})
    IN  IF ~ (Indexable(p, shot) /\ a.html) \/ Redirected(shot) THEN {}
        ELSE IF Cardinality(signs) >= 2 THEN {Signal(p, "soft_404", {Cardinality(signs)})}
        ELSE SignalIf("results" \in a.markers /\ (a.words <= Soft404Words \/ Url[p].results),
                      p, "possible_soft_404", {a.words})

LooksLikeJob(p, a) == Url[p].jobDetail /\ a.jobTerms

\* inspect_element_locations: an apply button counts in the context of a job only.
ElementSignals(p, shot) ==
    LET a == Content(shot)
        counted == IF a.job \/ LooksLikeJob(shot.final, a) THEN ElementTypes
                   ELSE ElementTypes \ {"broken_application_cta"}
    IN  IF a.html THEN {Signal(p, flaw, {}) : flaw \in a.flaws \cap counted} ELSE {}

Applies(p, shot) == \E l \in LinksOf(p, shot) : l.anchor = "apply"

\* inspect_job_posting: inbound counts the links to the page stored so far.
JobSignals(p, shot, previous, inbound) ==
    LET a == Content(shot)
        job == a.html /\ a.job
        wasJob == previous # <<>> /\ ServesHtml(previous[1]) /\ Content(previous[1]).job
        expired == (job /\ a.expired /\ a.status = 200) \/ (a.deadline /\ Applies(p, shot))
    IN  IF Redirected(shot) THEN {}
        ELSE IF PageGone(shot) /\ (job \/ wasJob \/ Url[p].jobUrl)
        THEN {Signal(p, "expired_job_posting_404", {a.status})}
        ELSE SignalIf(~ job /\ a.html /\ LooksLikeJob(p, a), p, "job_posting_schema_missing", {})
             \cup (IF job
                   THEN {Signal(p, flaw, {}) : flaw \in
                            (a.flaws \cap JobFlawTypes) \
                            ({"job_posting_not_detail_page"} \cup
                             (IF Applies(p, shot) THEN {"job_posting_missing_application"} ELSE {}))}
                        \cup SignalIf(Url[p].jobUrl /\ ~ Url[p].jobDetail,
                                      p, "job_posting_not_detail_page", {})
                   ELSE {})
             \cup SignalIf(expired, p, "expired_job_posting", {})
             \cup SignalIf(expired /\ inbound > 0, p, "expired_job_posting_linked", {inbound})

\* _prefer_contextual_404: a 404 that is already known with its context is not
\* reported a second time as a plain one.
PreferContextual(signals, contextual) ==
    IF contextual THEN {s \in signals : s.type # "http_404"} ELSE signals

PageSignals(p, shot, previous, inbound, contextual) ==
    LET found == PreferContextual(ReachabilitySignals(p, shot) \cup ContentSignals(p, shot)
                                  \cup Soft404Signals(p, shot, previous), contextual)
    IN  IF DiscoveryOnly(p, shot) THEN {s \in found : s.type \in ReachabilityTypes}
        ELSE found \cup ElementSignals(p, shot) \cup JobSignals(p, shot, previous, inbound)

\* analyze_snapshot.  A recalculation analyses the snapshots without an answer
\* too: their status and content are NULL and they yield no signal.
AnalyzeSnapshot(p, shot, previous, inbound, contextual) ==
    Report({p}, SnapshotTypes \cup ElementTypes,
           IF Fetched(shot) THEN PageSignals(p, shot, previous, inbound, contextual) ELSE {})

-----------------------------------------------------------------------------
(* Assets and failures *)

InspectAsset(p, shot) ==
    Report({p}, AssetTypes \cup HtmlOnlyTypes,
           SignalIf(Url[shot.final].kind = "image" /\ Content(shot).status >= 400,
                    p, "broken_image", {Content(shot).status}))

InspectCrawlError(p, shot) ==
    Report({p}, CrawlErrorTypes,
           SignalIf(shot.error = "timeout", p, "crawl_timeout", {})
           \cup SignalIf(shot.error = "redirect_loop", p, "redirect_loop", {})
           \cup SignalIf(shot.error = "invalid_target", p, "unreachable_url_target", {}))

RobotsBlocked(p) ==
    Report({p}, {"robots_txt_blocked"}, {Signal(p, "robots_txt_blocked", {})})

\* The reports of _crawl_one, in their order.
FetchReports(p, shot, previous, inbound, contextual) ==
    IF shot.error = "robots" THEN <<RobotsBlocked(p)>>
    ELSE IF ~ Fetched(shot) THEN <<InspectCrawlError(p, shot)>>
    ELSE <<AnalyzeSnapshot(p, shot, previous, inbound, contextual)>>
         \o (IF ServesHtml(shot) THEN <<>> ELSE <<InspectAsset(p, shot)>>)

-----------------------------------------------------------------------------
(* Changes and vacancies *)

\* FIELDS, headings, schema and links: what compare_snapshots compares, by change type.
Observed(p, shot) ==
    LET a == Content(shot)
    IN  IF ~ Fetched(shot)
        THEN [status_code_changed |-> 0, redirect_target_changed |-> 0, title_changed |-> 0,
              description_changed |-> 0, canonical_changed |-> 0, indexability_changed |-> FALSE,
              main_content_changed |-> <<>>, structured_data_changed |-> <<>>,
              internal_links_changed |-> {}]
        ELSE [status_code_changed |-> a.status, redirect_target_changed |-> shot.final,
              title_changed |-> a.title, description_changed |-> a.meta,
              canonical_changed |-> CanonicalOf(p, shot),
              indexability_changed |-> Indexable(p, shot),
              main_content_changed |-> <<a.words, a.text, a.theme>>,
              structured_data_changed |-> <<a.job, a.schema>>,
              internal_links_changed |-> LinksOf(p, shot)]

ExpectedPaginationChanges ==
    {"internal_links_changed", "main_content_changed", "structured_data_changed"}

\* compare_snapshots and the links, without the routine churn of archives.
DetectedChanges(p, shot, previous) ==
    IF DiscoveryOnly(p, shot) THEN {}
    ELSE IF previous = <<>> THEN {"new_url"}
    ELSE LET old == Observed(p, previous[1])
             new == Observed(p, shot)
         IN  {t \in DOMAIN new : old[t] # new[t]}
             \ (IF Url[shot.final].paged THEN ExpectedPaginationChanges ELSE {})

\* recognize_job_listing: a JobPosting, or a URL that looks like one.  A JobPosting
\* that names no deadline takes the one of the text; a snapshot without an answer
\* has neither.
Recognized(p, shot) ==
    ~ DiscoveryOnly(p, shot) /\ (Url[p].jobDetail \/ (ServesHtml(shot) /\ Content(shot).job))

\* _job_lifecycle_status; expiring_soon is active.
Lifecycle(shot) ==
    LET a == Content(shot)
    IN  IF ~ Fetched(shot) THEN "active"
        ELSE IF Redirected(shot) THEN "redirected"
        ELSE IF PageGone(shot) THEN "removed"
        ELSE IF a.html /\ ((a.job /\ a.expired) \/ (~ a.job /\ a.deadline)) THEN "expired"
        ELSE "active"
=============================================================================
