----------------------------- MODULE SiteSignals -----------------------------
(***************************************************************************)
(* The analyses of a website as a whole, in the order in which a complete   *)
(* crawl runs them over the pages it stored: links, redirects, indexation,  *)
(* languages, structured data, duplicates, vacancies, series, thin content, *)
(* assets and template clusters; and the classification of the 404s.        *)
(*                                                                         *)
(* An analysis reads the stored website, a record w of                      *)
(*   known      the pages with a row in urls                                *)
(*   row        urls: status (0 is NULL), final page (0), indexable, depth  *)
(*   listed     the last run whose sitemap listed the page, 0 for none      *)
(*   shot       url_snapshots of the run, per page that has one             *)
(*   links      url_links of the run                                       *)
(*   discovery  the pages that only lead to others (discovery_only_url_ids) *)
(*   issues, suppressed   the issue rows, the keys under suppression        *)
(*   run        the crawl run whose snapshots are analysed                  *)
(* and gives a report to reconcile with the issue rows.                     *)
(*                                                                         *)
(* Abstractions.  Two redirects have one pattern when their sources and     *)
(* their targets are of one family each.  Two texts are near duplicates     *)
(* when they have one theme.  The pages of url_links are all internal.      *)
(***************************************************************************)
EXTENDS PageSignals

CONSTANTS
    Least,        \* the MINIMUM_ constants: pattern, incident, breadcrumbs,
                  \* series, family and site
    ClusterSize   \* MINIMUM_CLUSTER_SIZE: the clusterable types and their sizes

\* crawl_depth NULL: larger than any depth.
NoDepth == Cardinality(Pages)

\* The stored website of the snapshots of one run.
Analysed(known, row, listed, shots, issues, suppressed, run) ==
    LET of(p) == {i \in DOMAIN shots[p] : shots[p][i].run = run}
        snapped == {p \in known : of(p) # {}}
        shot == [p \in snapped |-> shots[p][CHOOSE i \in of(p) : TRUE]]
        links(p) == {[from |-> p, to |-> l.to, anchor |-> l.anchor] : l \in LinksOf(p, shot[p])}
    IN  [known |-> known, row |-> row, listed |-> listed, issues |-> issues,
         suppressed |-> suppressed, run |-> run, shot |-> shot,
         links |-> UNION {links(p) : p \in snapped},
         discovery |-> {p \in snapped : DiscoveryOnly(p, shot[p])}]

Snapped(w) == DOMAIN w.shot

Inbound(w, p) == {l.from : l \in {k \in w.links : k.to = p}}

StatusIn(w, p) == IF Fetched(w.shot[p]) THEN Content(w.shot[p]).status ELSE 0

IndexableRow(w, p) == w.row[p].status = 200 /\ w.row[p].indexable /\ Url[p].html

WithOccurrence(w, type) ==
    {k[1] : k \in {j \in DOMAIN w.issues : j[2] = type /\ HasOccurrence(w.issues, j, w.run)}}

\* The groups of a set under a key that have at least size members.
Grouped(members, key(_), size) ==
    {m \in members : Cardinality({n \in members : key(n) = key(m)}) >= size}

-----------------------------------------------------------------------------
(* Internal links *)

\* detect_orphan_pages: only what is orphaned is reconciled; what is not any
\* more is resolved apart.
OrphanPages(w) ==
    {p \in w.known : /\ w.row[p].status = 200 /\ w.row[p].indexable
                     /\ w.row[p].depth = NoDepth /\ w.listed[p] # 0} \ w.discovery

DetectOrphans(w) ==
    Report(OrphanPages(w), {"orphan_page"}, {Signal(p, "orphan_page", {}) : p \in OrphanPages(w)})

ResolvedOrphans(rows, orphans) ==
    [k \in DOMAIN rows |->
        IF k[2] = "orphan_page" /\ k[1] \in Pages \ orphans /\ rows[k].status \in Open
        THEN [rows[k] EXCEPT !.status = "resolved"] ELSE rows[k]]

Redirects(w, p) == Url[p].navigational /\ w.row[p].final \notin {0, p}

MaxRecommendedDepth == 3
VeryDeep == 6
WeakInbound == 1

DeepPage(w, p) ==
    LET depth == IF w.row[p].depth = NoDepth THEN 0 ELSE w.row[p].depth
    IN  /\ IndexableRow(w, p) /\ depth > MaxRecommendedDepth
        /\ Url[p].important \/ depth >= VeryDeep \/ Cardinality(Inbound(w, p)) <= WeakInbound

LinkSignals(w, p) ==
    SignalIf(Inbound(w, p) # {} /\ Redirects(w, p),
             p, "internally_linked_redirect", {w.row[p].final})
    \cup SignalIf(DeepPage(w, p), p, "deep_page", {})
    \cup SignalIf(IndexableRow(w, p) /\ Url[p].important /\ Cardinality(Inbound(w, p)) <= WeakInbound,
                  p, "important_page_few_internal_links", Inbound(w, p))

LinkQuality(w) ==
    Report(Snapped(w),
           {"deep_page", "important_page_few_internal_links", "internally_linked_redirect"},
           UNION {LinkSignals(w, p) : p \in Snapped(w) \ w.discovery})

\* The distinct links of a page to one of the broken pages.
LinksTo(w, p, broken) ==
    {l \in w.links : l.from = p /\ l.to # p /\ Url[l.to].navigational /\ l.to \in broken}

RedirectSources(w) ==
    LET links(p) == LinksTo(w, p, {t \in Pages : Redirects(w, t)})
    IN  Report(Pages, {"multiple_redirected_internal_links"},
               {Signal(p, "multiple_redirected_internal_links", {l.to : l \in links(p)}) :
                   p \in {q \in Pages \ w.discovery : Cardinality(links(q)) >= 2}})

GenericAnchors(w) ==
    LET generic == {l \in w.links : l.anchor = "generic" /\ Url[l.to].navigational}
    IN  Report({Site}, {"generic_internal_anchor_text"},
               SignalIf(generic # {}, Site, "generic_internal_anchor_text",
                        {l.from : l \in generic}))

\* Redirects of one pattern, from the occurrences of this run.
RedirectPatterns(w, type, pattern) ==
    LET key(p) == <<Url[p].family, {Url[q].family : q \in EvidenceOf(w.issues, <<p, type>>, w.run)}>>
        covered == Grouped(WithOccurrence(w, type), key, Least.pattern)
    IN  Report({Site}, {pattern}, SignalIf(covered # {}, Site, pattern, covered))

InternalRedirectPatterns(w) ==
    RedirectPatterns(w, "internally_linked_redirect", "internal_redirect_patterns")

SitemapRedirectPatterns(w) ==
    RedirectPatterns(w, "sitemap_redirect", "sitemap_redirect_patterns")

-----------------------------------------------------------------------------
(* Indexation *)

\* The types unexpected_noindex and canonical_other_url are reported here but
\* not checked: their absence changes nothing.
IndexationSignals(w, p) ==
    LET shot == w.shot[p]
        inSitemap == w.listed[p] >= w.run
        canonical == CanonicalOf(p, shot)
    IN  SignalIf(inSitemap /\ Redirected(shot), p, "sitemap_redirect", {shot.final})
        \cup SignalIf(StatusIn(w, p) = 200 /\ ~ Indexable(p, shot)
                      /\ (inSitemap \/ Url[p].important), p, "unexpected_noindex", {})
        \cup SignalIf(inSitemap /\ canonical \notin {0, shot.final},
                      p, "canonical_other_url", {canonical})

Indexation(w) ==
    Report(Snapped(w), {"sitemap_redirect"},
           UNION {IndexationSignals(w, p) : p \in Snapped(w)})

\* What is wrong with the page that a canonical or an alternate names.
TargetFlaw(w, q) ==
    IF Redirected(w.shot[q]) THEN "redirect"
    ELSE IF StatusIn(w, q) # 200 THEN "error"
    ELSE IF ~ Indexable(q, w.shot[q]) THEN "noindex"
    ELSE "none"

\* The walk along the canonicals from page c; 0 where it ends.
CanonicalWalk(w, c) ==
    LET next(q) == IF q = 0 \/ q \notin Snapped(w) THEN 0
                   ELSE IF CanonicalOf(q, w.shot[q]) = q THEN 0
                   ELSE CanonicalOf(q, w.shot[q])
        walk[i \in 0 .. NoDepth + 1] == IF i = 0 THEN c ELSE next(walk[i - 1])
    IN  walk

CanonicalSignals(w, p) ==
    LET page == w.shot[p].final
        canonical == CanonicalOf(p, w.shot[p])
        walk == CanonicalWalk(w, canonical)
        loop == walk[NoDepth + 1] # 0 \/ \E i \in DOMAIN walk : walk[i] = page
        flaw == TargetFlaw(w, canonical)
    IN  IF canonical \in {0, page} \/ canonical \notin Snapped(w) THEN {}
        ELSE SignalIf(flaw = "redirect", p, "canonical_target_redirect", {canonical})
             \cup SignalIf(flaw = "error", p, "canonical_target_error", {canonical})
             \cup SignalIf(flaw = "noindex", p, "canonical_target_noindex", {canonical})
             \cup SignalIf(loop, p, "canonical_loop", {canonical})
             \cup SignalIf(~ loop /\ walk[1] # 0, p, "canonical_chain", {canonical})

HreflangOf(p, shot) == IF Url[p].html /\ ServesHtml(shot) THEN Content(shot).hreflang ELSE {}

HreflangSignals(w, p) ==
    LET page == w.shot[p].final
        targets == HreflangOf(p, w.shot[p])
        found == targets \cap Snapped(w)
        report(type, pages) == SignalIf(pages # {}, p, type, pages)
    IN  IF targets = {} THEN {}
        ELSE report("hreflang_target_redirect", {q \in found : TargetFlaw(w, q) = "redirect"})
             \cup report("hreflang_target_error", {q \in found : TargetFlaw(w, q) = "error"})
             \cup report("hreflang_target_noindex", {q \in found : TargetFlaw(w, q) = "noindex"})
             \cup report("hreflang_target_canonical_mismatch",
                         {q \in found : CanonicalOf(q, w.shot[q]) \notin {0, q}})
             \cup report("hreflang_missing_return",
                         {q \in found : page \notin HreflangOf(q, w.shot[q])})
             \cup report("hreflang_missing_self_reference", {page} \ targets)

InternationalTypes ==
    {"multiple_canonicals", "canonical_target_redirect", "canonical_target_error",
     "canonical_target_noindex", "canonical_chain", "canonical_loop",
     "hreflang_invalid_language", "hreflang_missing_self_reference", "hreflang_missing_return",
     "hreflang_target_redirect", "hreflang_target_error", "hreflang_target_noindex",
     "hreflang_target_canonical_mismatch"}

FlawsIn(w, p, types) ==
    IF Url[p].html /\ ServesHtml(w.shot[p]) THEN Content(w.shot[p]).flaws \cap types ELSE {}

International(w) ==
    Report(Snapped(w), InternationalTypes,
           UNION {CanonicalSignals(w, p) \cup HreflangSignals(w, p)
                  \cup {Signal(p, flaw, {}) : flaw \in
                           FlawsIn(w, p, {"multiple_canonicals", "hreflang_invalid_language"})} :
                     p \in Snapped(w)})

ServerErrorIncident(w) ==
    LET status(p) == EvidenceOf(w.issues, <<p, "http_5xx">>, w.run)
        affected == Grouped(WithOccurrence(w, "http_5xx"), status, Least.incident)
    IN  Report({Site}, {"server_error_incident"},
               SignalIf(affected # {}, Site, "server_error_incident", affected))

-----------------------------------------------------------------------------
(* Structured data *)

Larger(m, n) == IF m >= n THEN m ELSE n

DeepContent(w) ==
    {p \in Snapped(w) : /\ IndexableRow(w, p) /\ w.row[p].depth \in 2 .. NoDepth - 1
                        /\ Url[p].variantOf = 0
                        /\ Indexable(p, w.shot[p]) /\ ~ Redirected(w.shot[p])}

\* Only a website that shows breadcrumbs on half of its deep pages misses them on the others.
Breadcrumbs(w) ==
    LET eligible == DeepContent(w)
        with == {p \in eligible : "breadcrumbs" \in Content(w.shot[p]).schema}
        used == Cardinality(with) >= Larger(Least.breadcrumbs, (Cardinality(eligible) + 1) \div 2)
    IN  Report(Snapped(w), {"missing_breadcrumb_schema"},
               {Signal(p, "missing_breadcrumb_schema", {}) :
                   p \in IF used THEN eligible \ with ELSE {}})

ContextualSchemaTypes ==
    {"structured_data_required_fields_missing", "structured_data_visible_content_mismatch",
     "structured_data_image_unreachable"}

\* The images of the schema whose row in urls has an error status.
BrokenImages(w, p) ==
    {q \in Content(w.shot[p]).images \cap w.known : w.row[q].status >= 400}

ContextualSchema(w) ==
    LET pages == {p \in Snapped(w) : /\ StatusIn(w, p) = 200 /\ Url[p].html
                                     /\ ServesHtml(w.shot[p])}
    IN  Report(Snapped(w), ContextualSchemaTypes,
            UNION {{Signal(p, flaw, {}) : flaw \in FlawsIn(w, p, ContextualSchemaTypes)}
          \cup SignalIf(BrokenImages(w, p) # {},
                        p, "structured_data_image_unreachable", BrokenImages(w, p)) :
             p \in pages})

-----------------------------------------------------------------------------
(* Duplicates, vacancies, series, thin content *)

IndexablePage(w, p) ==
    /\ Indexable(p, w.shot[p]) /\ ~ Redirected(w.shot[p])
    /\ CanonicalOf(p, w.shot[p]) \in {0, p}

DuplicateWords == 100

Comparable(w, p) ==
    IndexablePage(w, p) /\ ServesHtml(w.shot[p]) /\ Content(w.shot[p]).words >= DuplicateWords

\* Pages with one value of a field; 0 is no value.
SameValue(w, pages, field) ==
    LET of(p) == Content(w.shot[p])[field]
    IN  Grouped({p \in pages : of(p) # 0}, of, 2)

ExactDuplicates(w, pages) ==
    SameValue(w, {p \in pages : Comparable(w, p)}, "text")

NearDuplicates(w, pages) ==
    SameValue(w, {p \in pages : Comparable(w, p)} \ ExactDuplicates(w, pages), "theme")

Duplicates(w) ==
    LET pages == Snapped(w) \ w.discovery
        indexed == {p \in pages : IndexablePage(w, p) /\ ServesHtml(w.shot[p])}
        titled == SameValue(w, indexed, "title")
        described == SameValue(w, indexed, "meta")
    IN  Report(Snapped(w),
            {"duplicate_content", "duplicate_meta_description", "duplicate_title",
             "near_duplicate_content"},
            {Signal(p, "duplicate_title", {Content(w.shot[p]).title}) : p \in titled}
            \cup {Signal(p, "duplicate_meta_description", {Content(w.shot[p]).meta}) : p \in described}
            \cup {Signal(p, "duplicate_content", {}) : p \in ExactDuplicates(w, pages)}
            \cup {Signal(p, "near_duplicate_content", {}) : p \in NearDuplicates(w, pages)})

\* Vacancies without an identifier that can be confused with each other.
JobIdentifiers(w) ==
    LET jobs == {p \in Snapped(w) : /\ Indexable(p, w.shot[p]) /\ ServesHtml(w.shot[p])
                                    /\ Content(w.shot[p]).job
                                    /\ "job_identifier_missing" \in Content(w.shot[p]).flaws}
        confused == ExactDuplicates(w, jobs) \cup NearDuplicates(w, jobs)
        type == "job_posting_identifier_collision_risk"
    IN  Report(jobs \cup {Site}, {type}, SignalIf(confused # {}, Site, type, confused))

PaginationChildTypes ==
    {"canonical_other_url", "deep_page", "duplicate_meta_description", "duplicate_title"}

\* A series of pages is reviewed as one when a page of it has an open signal or is gone.
PaginationSeries(w) ==
    LET series(p) == Url[p].pattern
        paged == Grouped({p \in Snapped(w) : Url[p].paged}, series, Least.series)
        flawed == {p \in paged : \/ StatusIn(w, p) = 404
                                 \/ \E t \in PaginationChildTypes : IsOpen(w.issues, <<p, t>>)}
        affected == {p \in paged : \E q \in flawed : series(q) = series(p)}
    IN  Report({Site}, {"pagination_series_review"},
               SignalIf(affected # {}, Site, "pagination_series_review", affected))

ThinWords == 150

\* Twice the median of the numbers of words of the pages.
TwiceMedian(w, pages) ==
    LET words(p) == Content(w.shot[p]).words
        n == Cardinality(pages)
        upTo(v) == Cardinality({p \in pages : words(p) <= v})
        smallest(k) == CHOOSE v \in {words(p) : p \in pages} :
                          upTo(v) >= k /\ \A u \in {words(p) : p \in pages} : u < v => upTo(u) < k
    IN  smallest((n + 1) \div 2) + smallest(n \div 2 + 1)

\* The pages whose length says something: their own content, found and readable.
Lengthy(w) ==
    {p \in Snapped(w) \ w.discovery :
        /\ Indexable(p, w.shot[p]) /\ ServesHtml(w.shot[p])
        /\ ~ Redirected(w.shot[p]) /\ ~ Url[p].functional}

ContextualOutlier(w, p) ==
    LET words == Content(w.shot[p]).words
        site == {q \in Lengthy(w) : Content(w.shot[q]).words >= NearlyEmptyWords}
        family == {q \in site : Url[q].folder = Url[p].folder}
        cohort == IF Cardinality(family) >= Least.family THEN family ELSE site
        median2 == TwiceMedian(w, cohort)
    IN  /\ p \in site /\ words < ThinWords
        /\ IF Cardinality(family) < Least.family /\ Cardinality(site) < Least.site
           THEN Url[p].important
           ELSE median2 >= 2 * ThinWords /\ (Url[p].important \/ 4 * words <= median2)

ThinContent(w) ==
    Report(Snapped(w), {"thin_content"},
        {Signal(p, "thin_content", {0}) :
            p \in {q \in Lengthy(w) : Content(w.shot[q]).words < NearlyEmptyWords}}
        \cup {Signal(p, "thin_content", {1}) : p \in {q \in Lengthy(w) : ContextualOutlier(w, q)}})

-----------------------------------------------------------------------------
(* Assets *)

\* element_locations of the run that carry a flaw: on which page, about which target.
Markup(w) ==
    UNION {{[from |-> p, to |-> m.to, flaw |-> m.flaw] : m \in Content(w.shot[p]).markup} :
              p \in {q \in Snapped(w) : Url[q].html /\ ServesHtml(w.shot[q])}}

MarkupFlaws(w, p) == {m.flaw : m \in {k \in Markup(w) : k.to = p}}

\* The stored assets of some kinds.
Assets(w, kinds) == {p \in Snapped(w) : StatusIn(w, p) = 200 /\ Url[p].kind \in kinds}

SizeOf(w, p) == Content(w.shot[p]).size

MediaFlaws ==
    {"media_source_missing", "video_captions_missing", "video_missing_poster", "video_preload_auto"}
EmbedFlaws == {"iframe_title_missing", "embed_not_lazy"}

\* Images that are large, or marked up without dimensions or responsive sources.
ImageDelivery(w) ==
    {p \in Assets(w, {"image"}) :
        \/ SizeOf(w, p) = "oversized"
        \/ "image_dimensions_missing" \in MarkupFlaws(w, p)
        \/ "image_responsive_source_missing" \in MarkupFlaws(w, p) /\ SizeOf(w, p) # "small"}

\* Flawed video and audio, and the pages that show it or an embed that is flawed.
MediaDelivery(w) ==
    {p \in Assets(w, {"video", "audio"}) :
        SizeOf(w, p) = "oversized" \/ MarkupFlaws(w, p) \cap MediaFlaws # {}}
    \cup {m.from : m \in {k \in Markup(w) : k.flaw \in MediaFlaws \cup EmbedFlaws}}

AssetQuality(w) ==
    LET reported(type, found) == SignalIf(found # {}, Site, type, found)
    IN  Report({Site},
            {"downloadable_document_inventory", "image_delivery_quality", "media_delivery_quality"},
            reported("downloadable_document_inventory", Assets(w, {"document"}))
            \cup reported("image_delivery_quality", ImageDelivery(w))
            \cup reported("media_delivery_quality", MediaDelivery(w)))

-----------------------------------------------------------------------------
(* Template clusters *)

ClusterableTypes == DOMAIN ClusterSize

HierarchicalTypes ==
    {"deep_page", "job_posting_location_incomplete", "job_posting_missing_application",
     "job_posting_missing_fields", "job_posting_remote_location_missing",
     "job_posting_schema_missing", "missing_h1", "missing_meta_description", "multiple_h1",
     "orphan_page", "thin_content"}

\* Types that cluster by what was found, wherever it was found.
CauseTypes ==
    {"duplicate_title", "duplicate_meta_description", "multiple_broken_internal_links",
     "multiple_redirected_internal_links"} \cup ContextualSchemaTypes

ClusterKey(w, k) ==
    LET evidence == LatestEvidence(w.issues, k)
    IN  IF k[2] = "canonical_other_url" THEN <<{Url[q].family : q \in evidence}, 0>>
        ELSE IF k[2] \in CauseTypes THEN <<evidence, 0>>
        ELSE IF k[2] = "thin_content" THEN <<evidence, Url[k[1]].family>>
        ELSE <<{}, Url[k[1]].family>>

ParentKey(w, k) ==
    <<IF k[2] = "thin_content" THEN LatestEvidence(w.issues, k) ELSE {}, Url[k[1]].folder>>

\* The pages of an open series review; their signals are part of that review.
PaginationPages(w) ==
    LET k == <<Site, "pagination_series_review">>
    IN  IF IsOpen(w.issues, k) THEN LatestEvidence(w.issues, k) ELSE {}

\* Variant: closed issues cluster too.
AnyCandidates(w) ==
    {k \in DOMAIN w.issues :
        /\ k[1] \in Pages /\ k[2] \in ClusterableTypes
        /\ ~ (k[2] \in PaginationChildTypes /\ k[1] \in PaginationPages(w))}

ClusterCandidates(w) ==
    {k \in DOMAIN w.issues :
        /\ k[1] \in Pages /\ k[2] \in ClusterableTypes /\ w.issues[k].status \in Open
        /\ ~ (k[2] \in PaginationChildTypes /\ k[1] \in PaginationPages(w))}

\* Open issues of one type and key, of at least the least number of pages.
ClusteredBy(issues, key(_)) ==
    {k \in issues : Cardinality({j \in issues : j[2] = k[2] /\ key(j) = key(k)}) >= ClusterSize[k[2]]}

ClustersOf(w) ==
    LET near == ClusteredBy(ClusterCandidates(w), LAMBDA k : ClusterKey(w, k))
        rest == {k \in ClusterCandidates(w) \ near : k[2] \in HierarchicalTypes}
    IN  near \cup ClusteredBy(rest, LAMBDA k : ParentKey(w, k))

TemplateClusters(w) ==
    LET clustered == ClustersOf(w)
    IN  Report({Clusters}, ClusterableTypes,
               {Signal(Clusters, t, {k[1] : k \in {j \in clustered : j[2] = t}}) :
                   t \in {k[2] : k \in clustered}})

-----------------------------------------------------------------------------
(* 404s in their context *)

Contextual404Types == {"http_404", "internally_linked_404", "sitemap_404"}

\* The 404s are classified after the clusters are made, and do not cluster.
ASSUME ClusterAssumption == ClusterableTypes \cap Contextual404Types = {}

Missing(w) == {p \in w.known : w.row[p].status = 404}

\* The links to a page that is gone, from other pages that are still there.
LinksToMissing(w, p) ==
    {l \in w.links : l.to = p /\ l.from # p /\ w.row[l.from].status = 200}

MissingSignal(w, p) ==
    IF LinksToMissing(w, p) # {} THEN Signal(p, "internally_linked_404", {})
    ELSE IF w.listed[p] # 0 THEN Signal(p, "sitemap_404", {})
    ELSE Signal(p, "http_404", {404})

ClassifyPages(w) ==
    Report(Missing(w), Contextual404Types,
           {MissingSignal(w, p) : p \in {q \in Missing(w) : Url[q].navigational}})

\* A paged series needs two missing pages to be a pattern, another one three.
ClassifyPatterns(w) ==
    LET pages == {p \in Missing(w) : Url[p].navigational /\ Url[p].pattern # 0}
        pattern(p) == Url[p].pattern
        grouped == Grouped({p \in pages : Url[p].paged}, pattern, 2)
                   \cup Grouped({p \in pages : ~ Url[p].paged}, pattern, Least.pattern)
    IN  Report({Site}, {"patterned_404_urls"},
               SignalIf(grouped # {}, Site, "patterned_404_urls", grouped))

ClassifySources(w) ==
    LET links(p) == LinksTo(w, p, Missing(w))
        sources == {p \in w.known \ w.discovery :
                       w.row[p].status = 200 /\ Cardinality(links(p)) >= 2}
    IN  Report(Pages, {"multiple_broken_internal_links"},
               {Signal(p, "multiple_broken_internal_links", {l.to : l \in links(p)}) :
                   p \in sources})

-----------------------------------------------------------------------------
(* The order of _analyze_stored_site_results and classify_404_issues *)

Classification == 18   \* the first pass of classify_404_issues
SitePasses == 20

SiteReport(w, i) ==
    CASE i = 1 -> DetectOrphans(w)
      [] i = 2 -> LinkQuality(w)
      [] i = 3 -> RedirectSources(w)
      [] i = 4 -> GenericAnchors(w)
      [] i = 5 -> InternalRedirectPatterns(w)
      [] i = 6 -> Indexation(w)
      [] i = 7 -> International(w)
      [] i = 8 -> SitemapRedirectPatterns(w)
      [] i = 9 -> ServerErrorIncident(w)
      [] i = 10 -> Breadcrumbs(w)
      [] i = 11 -> ContextualSchema(w)
      [] i = 12 -> Duplicates(w)
      [] i = 13 -> JobIdentifiers(w)
      [] i = 14 -> PaginationSeries(w)
      [] i = 15 -> ThinContent(w)
      [] i = 16 -> AssetQuality(w)
      [] i = 17 -> TemplateClusters(w)
      [] i = 18 -> ClassifyPages(w)
      [] i = 19 -> ClassifyPatterns(w)
      [] OTHER -> ClassifySources(w)
=============================================================================
