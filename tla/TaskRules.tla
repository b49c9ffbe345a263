------------------------------ MODULE TaskRules ------------------------------
(***************************************************************************)
(* What a recommendation task is about and when its verification passes:    *)
(* the library of recommendations, the URL roles a task takes from the      *)
(* evidence of its issues, and the rules that judge the pages a check read. *)
(*                                                                         *)
(* Abstractions.  A row of recommendation_task_urls is a page and its role, *)
(* rows are in the order in which they were added.  A check reads every     *)
(* page that its rules judge before they judge (an error ends it), so the   *)
(* branches for a page without a snapshot are left out.  Effort, priority,  *)
(* wording and the text of steps and criteria are left out.                 *)
(***************************************************************************)
EXTENDS PageSignals, Functions

-----------------------------------------------------------------------------
(* The library *)

\* DEFINITIONS: the issue types that a recommendation is for (of the accessibility
\* and Lighthouse types, two stand for all).
SourceTypes ==
    [repair_accessibility_component |-> {"accessibility_image_alt", "accessibility_link_name"},
     repair_broken_internal_link |-> {"internally_linked_404", "multiple_broken_internal_links"},
     replace_redirected_internal_link |->
        {"internally_linked_redirect", "multiple_redirected_internal_links"},
     restore_or_redirect_missing_page |-> {"http_404", "http_410", "sitemap_404"},
     resolve_soft_404 |-> {"soft_404", "possible_soft_404"},
     resolve_server_or_fetch_failure |->
        {"http_5xx", "crawl_timeout", "server_error_incident", "google_fetch_failed"},
     fix_redirect_chain_or_loop |-> {"redirect_loop", "long_redirect_chain"},
     correct_indexability |->
        {"unexpected_noindex", "conflicting_robots", "robots_txt_blocked",
         "google_not_indexed", "google_robots_blocked"},
     correct_canonical |->
        {"canonical_other_url", "canonical_other_url_clusters", "google_canonical_mismatch"},
     add_or_correct_title |-> {"missing_title", "duplicate_title", "duplicate_title_clusters"},
     add_primary_heading |->
        {"missing_h1", "multiple_h1", "missing_h1_clusters", "multiple_h1_clusters"},
     add_meta_description |->
        {"missing_meta_description", "duplicate_meta_description",
         "missing_meta_description_clusters", "duplicate_meta_description_clusters"},
     repair_structured_data |-> {"invalid_json_ld", "missing_breadcrumb_schema"},
     content_question_gap |-> {},
     repair_job_posting_markup |->
        {"expired_job_posting", "expired_job_posting_linked", "expired_job_posting_404",
         "job_posting_schema_missing", "job_posting_missing_fields", "job_posting_invalid_dates",
         "job_posting_remote_location_missing", "job_posting_location_incomplete"},
     repair_application_action |-> {"broken_application_cta", "job_posting_missing_application"},
     replace_cms_link_placeholder |-> {"cms_link_placeholder", "cms_link_placeholder_clusters"},
     resolve_orphan_structure |-> {"orphan_page", "orphan_page_clusters"},
     connect_orphan_page |-> {"important_page_few_internal_links"},
     improve_measured_page_performance |->
        {"lighthouse_image_delivery", "lighthouse_image_delivery_clusters"},
     correct_contextual_structured_data |->
        {"structured_data_image_unreachable", "structured_data_required_fields_missing"},
     repair_sitemap_configuration |-> {"sitemap_document_quality", "robots_sitemap_configuration"}]

\* SCOPED_VERIFICATION_TYPES with the verification_scope of their definitions.
RequiredRoles ==
    [repair_accessibility_component |-> <<"changed">>,
     repair_broken_internal_link |-> <<"source", "broken_target">>,
     replace_redirected_internal_link |-> <<"source", "target">>,
     restore_or_redirect_missing_page |-> <<"old">>,
     fix_redirect_chain_or_loop |-> <<"source", "expected_target">>,
     correct_indexability |-> <<"changed">>,
     correct_canonical |-> <<"source", "expected_canonical">>,
     add_or_correct_title |-> <<"changed">>,
     add_primary_heading |-> <<"changed">>,
     add_meta_description |-> <<"changed">>,
     repair_structured_data |-> <<"changed">>,
     content_question_gap |-> <<"page">>]

Supported(type) == type \in DOMAIN RequiredRoles

\* The primary role of a type, and the role of pages that are read as well.
SourceRole(type) == RequiredRoles[type][1]

OnPageTasks ==
    {"add_or_correct_title", "add_primary_heading", "add_meta_description",
     "repair_structured_data"}

OptionalRole(type) ==
    CASE type = "repair_broken_internal_link" -> "replacement_target"
      [] type \in {"replace_redirected_internal_link", "fix_redirect_chain_or_loop"} ->
            "expected_target"
      [] type = "restore_or_redirect_missing_page" -> "new"
      [] type = "correct_canonical" -> "expected_canonical"
      [] type \in OnPageTasks -> "sample"
      [] OTHER -> "none"

\* VERIFICATION_URL_ROLES
UrlRoles(type) ==
    IF Supported(type) THEN (ToSet(RequiredRoles[type]) \cup {OptionalRole(type)}) \ {"none"} ELSE {}

RecommendationFor(issueType) == {r \in DOMAIN SourceTypes : issueType \in SourceTypes[r]}

-----------------------------------------------------------------------------
(* The scope that follows from the evidence *)

Scoped(page, role) == [page |-> page, role |-> role]
InRole(pages, role) == {Scoped(p, role) : p \in pages}

\* _task_url_scope_from_issue.  An issue d has its type and page (0 for NULL) and
\* the pages its newest occurrence names; linking are the pages with a link to it.
ScopeFromIssue(d, type) ==
    CASE type \in OnPageTasks ->
            InRole({d.page} \ {0}, "changed") \cup InRole(d.related, "sample")
            \cup InRole(d.clusters, "changed")
      [] type \notin OnPageTasks /\ d.page = 0 -> {}
      [] type = "repair_broken_internal_link" /\ d.page # 0 ->
            IF d.type = "multiple_broken_internal_links"
            THEN InRole({d.page}, "source") \cup InRole(d.broken, "broken_target")
            ELSE InRole({d.page}, "broken_target") \cup InRole(d.linking \ {d.page}, "source")
      [] type = "replace_redirected_internal_link" /\ d.page # 0 ->
            InRole({d.page}, "target") \cup InRole({d.final} \ {0}, "expected_target")
            \cup InRole(IF d.related # {} THEN d.related ELSE d.linking \ {d.page}, "source")
      [] type = "restore_or_redirect_missing_page" /\ d.page # 0 -> InRole({d.page}, "old")
      [] type = "fix_redirect_chain_or_loop" /\ d.page # 0 ->
            InRole({d.page}, "source") \cup InRole({d.final} \ {0, d.page}, "expected_target")
      [] type = "correct_canonical" /\ d.page # 0 -> InRole({d.page}, "source")
      [] OTHER -> InRole({d.page}, "changed")

\* The rows of a new task are added in the order of url_id, then of the role.
RoleOrder ==
    [broken_target |-> 1, changed |-> 2, expected_canonical |-> 3, expected_target |-> 4, new |-> 5,
     old |-> 6, page |-> 7, replacement_target |-> 8, sample |-> 9, source |-> 10, target |-> 11]

Place(row) == 12 * row.page + RoleOrder[row.role]

InUrlOrder(rows) ==
    LET places == InOrder({Place(r) : r \in rows})
    IN  [i \in DOMAIN places |-> CHOOSE r \in rows : Place(r) = places[i]]

\* _roles: the pages of one role, in the order of their rows.
PagesIn(scope, role) ==
    LET places == InOrder({i \in DOMAIN scope : scope[i].role = role})
    IN  [i \in DOMAIN places |-> scope[places[i]].page]

HasRole(scope, role) == \E i \in DOMAIN scope : scope[i].role = role

MissingRoles(type, scope) == {r \in ToSet(RequiredRoles[type]) : ~ HasRole(scope, r)}

\* _fetch_urls: the pages a check reads.
Requested(type, scope) ==
    ToSet(PagesIn(scope, SourceRole(type))) \cup ToSet(PagesIn(scope, OptionalRole(type)))

-----------------------------------------------------------------------------
(* The rules.  shots are the snapshots of the check, per page that was read. *)

Rule(name, page, status) == [rule |-> name, page |-> page, status |-> status]

PassedIf(condition) == IF condition THEN "passed" ELSE "failed"

\* Variant: any answer will do.
AnsweredAtAll(shot) == Fetched(shot)

Answered(shot) == Fetched(shot) /\ Content(shot).status = 200

\* _status_rule; expected = 0 when any answer will do.
StatusRule(name, page, shots, expected) ==
    Rule(name, page,
         IF ~ Fetched(shots[page]) THEN "error"
         ELSE PassedIf(Answered(shots[page]) /\ expected \in {0, shots[page].final}))

\* _indexable_canonical_rule
IndexableCanonicalRule(name, page, shots) ==
    Rule(name, page,
         IF ~ Fetched(shots[page]) THEN "error"
         ELSE PassedIf(Indexable(page, shots[page])
                       /\ CanonicalOf(page, shots[page]) \in {0, page}))

ReachableRules(name, pages, shots) == {StatusRule(name, pages[i], shots, 0) : i \in DOMAIN pages}

\* No source links to the page any more, which an unread source leaves open.
NotLinkedRules(name, targets, sources, shots) ==
    LET linked(t) == \E i \in DOMAIN sources :
                        \E l \in LinksOf(sources[i], shots[sources[i]]) : l.to = t
        status(t) == IF linked(t) THEN "failed"
                     ELSE IF \A i \in DOMAIN sources : Answered(shots[sources[i]]) THEN "passed"
                     ELSE "error"
    IN  {Rule(name, targets[i], status(targets[i])) : i \in DOMAIN targets}

\* A redirect is followed: the status is the one of the page that answers last.
RestoredRule(old, new, shots) ==
    Rule("old_url_restored_or_redirected", old,
         PassedIf(\/ Answered(shots[old])
                  \/ new # 0 /\ Fetched(shots[old]) /\ shots[old].final = new /\ Answered(shots[new])))

Blocked(shot) == shot.error = "robots"

IndexabilityRules(page, shots) ==
    LET shot == shots[page]
        conflict == Fetched(shot) /\ "conflicting_robots" \in Content(shot).flaws
    IN  {Rule("robots_instructions_consistent", page, PassedIf(~ conflict /\ ~ Blocked(shot))),
         Rule("page_indexable", page, PassedIf(Answered(shot) /\ Indexable(page, shot)))}

RedirectRules(page, expected, shots) ==
    {Rule("redirect_chain_direct", page, PassedIf(shots[page].hops <= 1)),
     StatusRule("expected_target_reached", page, shots, expected),
     StatusRule("expected_target_reachable", expected, shots, 0),
     IndexableCanonicalRule("expected_target_indexable_canonical", expected, shots)}

CanonicalRules(page, expected, shots) ==
    LET named == CanonicalOf(page, shots[page])
    IN  {Rule("single_expected_canonical", page,
              PassedIf((IF named = 0 THEN page ELSE named) = expected)),
         StatusRule("expected_canonical_reachable", expected, shots, 0),
         IndexableCanonicalRule("expected_canonical_indexable", expected, shots)}

\* A title or description: what the content says, its own when it is no other's.
Text(shot, field) ==
    LET a == Content(shot)
        shared == IF field = "title" THEN a.title ELSE a.meta
        missing == IF field = "title" THEN "missing_title" ELSE "missing_meta_description"
    IN  CASE missing \in a.flaws -> <<>>
          [] missing \notin a.flaws /\ shared = 0 -> <<"own", shot.final>>
          [] OTHER -> <<"shared", shared>>

HasText(shot, field) == Answered(shot) /\ Text(shot, field) # <<>>

TextRules(field, changed, samples, shots) ==
    LET pages == changed \o samples
        compared == {i \in DOMAIN pages : HasText(shots[pages[i]], field)}
        texts == [i \in compared |-> Text(shots[pages[i]], field)]
    IN  {Rule("present", changed[i], PassedIf(HasText(shots[changed[i]], field))) : i \in DOMAIN changed}
        \cup {Rule("unique_in_scope", 0, PassedIf(compared # {} /\ IsInjective(texts)))}

\* An error page has its heading like any other: the status is not looked at.
HeadingRules(pages, shots) ==
    {Rule("single_primary_heading", pages[i],
          PassedIf(Fetched(shots[pages[i]])
                   /\ Content(shots[pages[i]]).flaws \cap {"missing_h1", "multiple_h1"} = {}))
        : i \in DOMAIN pages}

StructuredDataRules(pages, issueType, shots) ==
    LET valid(shot) ==
            /\ Answered(shot) /\ "invalid_json_ld" \notin Content(shot).flaws
            /\ IF issueType = "missing_breadcrumb_schema" THEN "breadcrumbs" \in Content(shot).schema
               ELSE Content(shot).schema # {}
    IN  {Rule("structured_data_valid", pages[i], PassedIf(valid(shots[pages[i]]))) : i \in DOMAIN pages}

QuestionRules(pages, shots) ==
    {Rule("question_answered", pages[i],
          PassedIf(Fetched(shots[pages[i]])
                   /\ "question_unanswered" \notin Content(shots[pages[i]]).flaws)) : i \in DOMAIN pages}

\* _execute_accessibility_verification: only a page of a linked issue can pass.
AccessibilityRules(pages, linked, issueType, shots) ==
    {Rule("accessibility_recheck", pages[i],
          PassedIf(pages[i] \in linked /\ issueType \notin Content(shots[pages[i]]).flaws))
        : i \in DOMAIN pages}

\* _evaluate.  Of several sources, only the first is judged on its content by the
\* types that restore, index, redirect or name a canonical.
Rules(type, scope, issueType, linked, shots) ==
    LET sources == PagesIn(scope, SourceRole(type))
        others == PagesIn(scope, OptionalRole(type))
        first == sources[1]
        other == IF others = <<>> THEN 0 ELSE others[1]
    IN  CASE type = "repair_accessibility_component" ->
                AccessibilityRules(sources, linked, issueType, shots)
          [] type # "repair_accessibility_component" ->
                ReachableRules("reachable", sources, shots) \cup
                CASE type = "repair_broken_internal_link" ->
                        NotLinkedRules("broken_target_not_linked", PagesIn(scope, "broken_target"),
                                       sources, shots)
                        \cup ReachableRules("replacement_target_reachable", others, shots)
                  [] type = "replace_redirected_internal_link" ->
                        NotLinkedRules("redirect_target_not_linked", PagesIn(scope, "target"),
                                       sources, shots)
                        \cup ReachableRules("expected_target_reachable", others, shots)
                  [] type = "restore_or_redirect_missing_page" -> {RestoredRule(first, other, shots)}
                  [] type = "correct_indexability" -> IndexabilityRules(first, shots)
                  [] type = "fix_redirect_chain_or_loop" -> RedirectRules(first, other, shots)
                  [] type = "correct_canonical" -> CanonicalRules(first, other, shots)
                  [] type = "add_or_correct_title" -> TextRules("title", sources, others, shots)
                  [] type = "add_meta_description" -> TextRules("meta", sources, others, shots)
                  [] type = "add_primary_heading" -> HeadingRules(sources, shots)
                  [] type = "repair_structured_data" ->
                        StructuredDataRules(sources, issueType, shots)
                  [] type = "content_question_gap" -> QuestionRules(sources, shots)

\* _outcome; no rule at all counts as only errors.
Outcome(rules) ==
    LET states == {r.status : r \in rules}
    IN  IF states = {"passed"} THEN "resolved"
        ELSE IF states \subseteq {"error"} THEN "manual_review_required"
        ELSE IF "passed" \in states THEN "partially_resolved"
        ELSE "not_resolved"

\* STATUS_FOR_OUTCOME
StatusForOutcome ==
    [resolved |-> "passed", partially_resolved |-> "manual_review",
     not_resolved |-> "failed", manual_review_required |-> "manual_review"]
=============================================================================
