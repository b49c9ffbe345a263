---------------------------- MODULE MCImprovement ----------------------------
(***************************************************************************)
(* Websites for TLC.  Each world is about one kind of work: a few pages,    *)
(* the issue it starts from and the versions that its pages may get.        *)
(***************************************************************************)
EXTENDS Improvement

MCPages == 1 .. 4

MCUrl ==
    [p \in MCPages |->
        [html |-> TRUE, search |-> FALSE, variantOf |-> 0, paged |-> FALSE, functional |-> FALSE,
         results |-> FALSE, jobUrl |-> FALSE, jobDetail |-> FALSE, kind |-> "page"]]

Good ==
    [html |-> TRUE, status |-> 200, noindex |-> FALSE, blocked |-> FALSE, error |-> "", to |-> 0,
     links |-> {}, media |-> {}, hreflang |-> {}, images |-> {}, canonical |-> 0, flaws |-> {},
     words |-> 200, markers |-> {}, job |-> FALSE, expired |-> FALSE, deadline |-> FALSE,
     jobTerms |-> FALSE, schema |-> {"article"}, title |-> 0, meta |-> 0, text |-> 0, theme |-> 0]
To(p) == [Good EXCEPT !.to = p]
Link(p) == [Good EXCEPT !.links = {[to |-> p, anchor |-> "text"]}]
Flawed(flaw) == [Good EXCEPT !.flaws = {flaw}]

MCAnswer ==
    [good |-> Good, gone |-> [Good EXCEPT !.status = 404], broken |-> [Good EXCEPT !.status = 503],
     slow |-> [Good EXCEPT !.error = "timeout"], blocked |-> [Good EXCEPT !.blocked = TRUE],
     noindex |-> [Good EXCEPT !.noindex = TRUE], confused |-> Flawed("conflicting_robots"),
     to1 |-> To(1), to2 |-> To(2), to3 |-> To(3), to4 |-> To(4), link2 |-> Link(2), link3 |-> Link(3),
     named2 |-> [Good EXCEPT !.canonical = 2], untitled |-> Flawed("missing_title"),
     shared |-> [Good EXCEPT !.title = 1, !.meta = 1], headless |-> Flawed("missing_h1"),
     gonehead |-> [Good EXCEPT !.status = 404, !.flaws = {"multiple_h1"}],
     undescribed |-> Flawed("missing_meta_description"), invalid |-> Flawed("invalid_json_ld"),
     crumbs |-> [Good EXCEPT !.schema = {"breadcrumbs"}], image |-> Flawed("accessibility_image_alt"),
     silent |-> Flawed("question_unanswered")]

Issue(type, page) ==
    [type |-> type, page |-> page, related |-> {}, clusters |-> {}, broken |-> {}, linking |-> {},
     final |-> 0, component |-> 0]

Bounds(t, c, e, r, w) ==
    [tasks |-> t, changes |-> c, edits |-> e, requests |-> r, weeks |-> w, missed |-> 1]

Work == {"in_progress"}

\* The pages that have another version than "good", what they may become, the issues.
World(versions, may, issues, rows, bounds) ==
    [answers |-> [p \in MCPages |-> IF p \in DOMAIN versions THEN versions[p] ELSE "good"],
     may |-> may, issues |-> issues, decided |-> {"new"}, rows |-> rows, moves |-> Work,
     begun |-> <<>>, imports |-> {},
     questions |-> {}, facts |-> {}, days |-> {}, confident |-> {}, ranges |-> {}, bounds |-> bounds]

Once == Bounds(1, 1, 1, 1, 0)

Missing ==
    World(1 :> "gone", 1 :> {"good", "to2"} @@ 2 :> {"gone"}, <<Issue("http_404", 1)>>,
          {Scoped(2, "new"), Scoped(3, "old")}, Bounds(1, 2, 1, 1, 0))
Linked ==
    World(1 :> "gone" @@ 2 :> "gone" @@ 3 :> "link2", 3 :> {"good", "slow", "broken"},
          <<[Issue("internally_linked_404", 2) EXCEPT !.linking = {3}]>>, {Scoped(4, "replacement_target")}, Once)
ManyLinked ==
    World(3 :> "link2", 3 :> {"good"}, <<[Issue("multiple_broken_internal_links", 3) EXCEPT !.broken = {2}]>>, {}, Once)
Replaced ==
    World(1 :> "to2" @@ 3 :> "link3", 3 :> {"good"},
          <<[Issue("internally_linked_redirect", 1) EXCEPT !.linking = {3}, !.final = 2]>>, {}, Once)
Chained ==
    World(1 :> "to2" @@ 2 :> "to3", 1 :> {"to3", "good"} @@ 3 :> {"noindex"},
          <<[Issue("long_redirect_chain", 1) EXCEPT !.final = 3]>>, {}, Bounds(1, 2, 0, 1, 0))
Circular ==
    World(1 :> "to2" @@ 2 :> "to1", 1 :> {"to3", "good"},
          <<Issue("redirect_loop", 1)>>, {Scoped(3, "expected_target"), Scoped(1, "expected_target")}, Once)
Unindexed ==
    World(1 :> "confused", 1 :> {"good", "noindex", "blocked"},
          <<Issue("conflicting_robots", 1)>>, {Scoped(2, "changed"), Scoped(1, "changed")}, Bounds(1, 1, 2, 1, 0))
Blockaded == World(1 :> "blocked", 1 :> {"good"}, <<Issue("robots_txt_blocked", 1)>>, {}, Once)
Canonical ==
    World(1 :> "named2", 1 :> {"good"} @@ 2 :> {"to3"}, <<Issue("canonical_other_url", 1)>>,
          {Scoped(1, "expected_canonical"), Scoped(2, "expected_canonical")}, Once)
Titled ==
    World(1 :> "untitled" @@ 2 :> "shared", 1 :> {"good", "shared", "to2"},
          <<[Issue("missing_title", 1) EXCEPT !.related = {2}]>>, {Scoped(1, "changed")}, Once)
Described ==
    World(1 :> "undescribed", 1 :> {"good", "slow"}, <<Issue("missing_meta_description", 1)>>, {}, Once)
Headed ==
    World(1 :> "headless", 1 :> {"good", "gonehead", "gone"}, <<Issue("missing_h1", 1)>>, {}, Once)
Structured ==
    World(1 :> "invalid", 1 :> {"good"}, <<Issue("invalid_json_ld", 1), Issue("missing_breadcrumb_schema", 2)>>, {},
          Bounds(1, 2, 0, 1, 0))
Accessible ==
    World(1 :> "image", 1 :> {"good", "slow"},
          [i \in 1 .. 2 |-> [Issue("accessibility_image_alt", i) EXCEPT !.component = 1]],
          {Scoped(2, "changed")}, Once)
Questioned ==
    [World(1 :> "silent", 1 :> {"good"}, <<>>, {}, Once) EXCEPT !.questions = {1}]
Begun(i) == NewTask("restore_or_redirect_missing_page", <<i>>, <<Scoped(i, "old")>>, <<>>)

Decided ==
    [World(1 :> "gone", 1 :> {"good"}, <<Issue("http_404", 1)>>, {}, Bounds(2, 1, 0, 1, 0)) EXCEPT
        !.decided = {"ignored"}, !.begun = <<Begun(1)>>, !.moves = {"in_progress", "closed", "open"}]
Unsupported == World(1 :> "gone", 1 :> {}, <<Issue("soft_404", 1)>>, {}, Once)

\* Two pieces of work and the weeks in which they are measured.
Implemented(i) == [Begun(i) EXCEPT !.status = "implemented", !.implemented = 10]
UnderWay(i) == [Begun(i) EXCEPT !.status = "in_progress"]
Weeks(requests, edits, weeks, missed) ==
    [Bounds(2, 0, edits, requests, weeks) EXCEPT !.missed = missed]
Measured ==
    [World(1 :> "good", 1 :> {}, [p \in 1 .. 2 |-> Issue("http_404", p)], {}, Weeks(0, 0, 9, 0)) EXCEPT
        !.begun = <<Implemented(1), UnderWay(2)>>, !.imports = {17}, !.moves = {}]
Late == [Measured EXCEPT !.begun = <<Implemented(1)>>, !.bounds = Weeks(0, 0, 9, 1)]
Compared ==
    [Measured EXCEPT !.begun = <<Implemented(1)>>, !.ranges = {<<10, 12>>}, !.imports = {},
                     !.bounds = Weeks(1, 1, 7, 0)]

\* Facts of the pages for opportunities.
Fact ==
    [impressions |-> 300, clicks |-> 3, position |-> 120, depth |-> 5, important |-> TRUE,
     active |-> TRUE, indexable |-> TRUE, status |-> 200, discoveryOnly |-> FALSE,
     confidence |-> 70, intent |-> "informational", queryIntent |-> "prijs", visits |-> 400,
     conversions |-> 0, role |-> "convert", deadEnd |-> 0, continued |-> 0]
Promising ==
    [World(1 :> "good", 1 :> {},
           <<Issue("missing_title", 1), Issue("deep_page", 1), Issue("accessibility_image_alt", 1),
             Issue("thin_content", 1)>>,
           {}, Bounds(1, 0, 0, 0, 0)) EXCEPT
        !.facts = {[p \in {1, 2} |-> IF p = 1 THEN Fact
                                     ELSE [Fact EXCEPT !.conversions = 20, !.deadEnd = 400, !.continued = 20]]},
        !.days = {28}, !.confident = {3}, !.moves = {"in_progress", "closed", "open"}]

MCWorlds ==
    <<Missing, Linked, ManyLinked, Replaced, Chained, Circular, Unindexed, Blockaded, Canonical, Titled, Described,
      Headed, Structured, Accessible, Questioned, Decided, Unsupported, Measured, Late, Compared, Promising>>
=============================================================================
