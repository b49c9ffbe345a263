---------------------------- MODULE MCSiteIssues ----------------------------
(***************************************************************************)
(* Websites for TLC.  Each world uses a few of the pages and is about some  *)
(* of the analyses: pages that disappear, redirects and series, canonicals  *)
(* and languages, content, failures and assets.                            *)
(***************************************************************************)
EXTENDS SiteIssues

MCPages == 1 .. 9

\* Bounds: the minimum sizes of groups, as small as two.
MCLeast == [pattern |-> 2, incident |-> 2, breadcrumbs |-> 1, series |-> 2, family |-> 3, site |-> 3]
MCClusterSize ==
    [t \in {"canonical_other_url", "deep_page", "duplicate_title", "hreflang_invalid_language",
            "missing_h1", "multiple_broken_internal_links", "orphan_page", "thin_content",
            "structured_data_required_fields_missing"} |-> 2]

\* The pages.
Plain ==
    [html |-> TRUE, search |-> FALSE, variantOf |-> 0, paged |-> FALSE, functional |-> FALSE,
     results |-> FALSE, jobUrl |-> FALSE, jobDetail |-> FALSE, kind |-> "page",
     navigational |-> TRUE, important |-> FALSE, family |-> 0, folder |-> 0, pattern |-> 0]
Article == [Plain EXCEPT !.family = 1, !.folder = 1, !.pattern = 1]
Listing == [Plain EXCEPT !.variantOf = 5, !.paged = TRUE, !.family = 2, !.folder = 2, !.pattern = 2]
Vacancy == [Plain EXCEPT !.jobUrl = TRUE, !.jobDetail = TRUE, !.family = 3, !.folder = 3]
File(kind) == [Plain EXCEPT !.html = FALSE, !.kind = kind, !.navigational = FALSE]

MCUrl ==
    [p \in MCPages |->
        CASE p \in 2 .. 4 -> Article
          [] p = 5 -> [Plain EXCEPT !.important = TRUE, !.family = 2, !.folder = 2]
          [] p \in 6 .. 7 -> Listing
          [] p = 8 -> File("image")
          [] p = 9 -> Vacancy
          [] OTHER -> Plain]

\* The versions.
Good ==
    [html |-> TRUE, status |-> 200, noindex |-> FALSE, blocked |-> FALSE, error |-> "", to |-> 0,
     links |-> {}, media |-> {}, hreflang |-> {}, images |-> {}, canonical |-> 0, flaws |-> {},
     words |-> 200, markers |-> {}, job |-> FALSE, expired |-> FALSE, deadline |-> FALSE,
     jobTerms |-> FALSE, schema |-> {}, title |-> 0, meta |-> 0, text |-> 0, theme |-> 0,
     size |-> "small", markup |-> {}]
To(pages) == {[to |-> p, anchor |-> "text"] : p \in pages}

\* What the versions of a page do otherwise.
Differences ==
    [good |-> <<>>,
     gone |-> [status |-> 404, noindex |-> TRUE],
     moved |-> [status |-> 410],
     broken |-> [status |-> 503],
     slow |-> [error |-> "timeout"],
     blocked |-> [blocked |-> TRUE],
     to5 |-> [to |-> 5],
     circle |-> [to |-> 3],
     noindex |-> [noindex |-> TRUE],
     canonical4 |-> [canonical |-> 4],
     canonical3 |-> [canonical |-> 3],
     dutch |-> [hreflang |-> {2, 3}],
     english |-> [hreflang |-> {2, 3}, flaws |-> {"hreflang_invalid_language"}],
     empty |-> [words |-> 10, flaws |-> {"missing_title", "missing_h1"}],
     short |-> [words |-> 60, flaws |-> {"conflicting_robots"}],
     long |-> [words |-> 900, text |-> 1, title |-> 1, meta |-> 1, links |-> To({3, 4})],
     other |-> [words |-> 900, theme |-> 1, title |-> 1, links |-> To({3, 4})],
     same |-> [words |-> 800, theme |-> 1, schema |-> {"breadcrumbs"},
               flaws |-> {"structured_data_required_fields_missing"}],
     notfound |-> [markers |-> {"title", "text"}, words |-> 20],
     list |-> [canonical |-> 5, title |-> 2],
     results |-> [markers |-> {"results"}, words |-> 40],
     picture |-> [html |-> FALSE, size |-> "oversized"],
     lost |-> [html |-> FALSE, status |-> 404],
     to8 |-> [to |-> 8],
     vacancy |-> [job |-> TRUE, text |-> 2,
                  flaws |-> {"job_posting_missing_fields", "job_identifier_missing"}],
     expired |-> [job |-> TRUE, expired |-> TRUE, text |-> 2,
                  flaws |-> {"job_identifier_missing"}],
     home2 |-> [links |-> To({2})],
     home3 |-> [links |-> To({3})],
     home23 |-> [links |-> To({2, 3})],
     home234 |-> [links |-> To({2, 3, 4})],
     home567 |-> [links |-> To({5, 6, 7}) \cup {[to |-> 5, anchor |-> "generic"]}],
     home59 |-> [links |-> To({5, 9})],
     page3 |-> [links |-> To({3})],
     page4 |-> [links |-> To({4})],
     page5 |-> [links |-> To({5})],
     page6 |-> [links |-> To({6}), title |-> 2],
     page7 |-> [links |-> To({7}), title |-> 2],
     media8 |-> [links |-> To({2}), media |-> {8}, images |-> {8},
                 markup |-> {[to |-> 8, flaw |-> "image_dimensions_missing"]}]]

MCAnswer == [v \in DOMAIN Differences |-> Differences[v] @@ Good]

Bounds(c, h, d, r, s) ==
    [crawls |-> c, changes |-> h, decisions |-> d, recalculations |-> r, stops |-> s]

\* A website: pages and their versions, what may change, the sitemap, bounds.
World(answers, may, sitemaps, bounds) ==
    {[answers |-> [p \in MCPages |-> IF p \in DOMAIN answers THEN answers[p] ELSE "gone"],
      may |-> [p \in MCPages |-> IF p \in DOMAIN may THEN may[p] ELSE {}],
      sitemap |-> sitemap, sitemaps |-> sitemaps, bounds |-> bounds] : sitemap \in sitemaps}

\* Pages that disappear, come back and redirect; the home page drops a link.
Disappearing(bounds) ==
    World(1 :> "home23" @@ 2 :> "good" @@ 3 :> "gone",
          1 :> {"home2", "home23"} @@ 2 :> {"gone", "good"} @@ 3 :> {"good", "to5"},
          {{2, 3}, {}}, bounds)

\* Redirects of one pattern, orphans and a crawl that max_urls cuts off.
Redirecting(bounds) ==
    World(1 :> "home234" @@ 2 :> "to5" @@ 3 :> "to5" @@ 4 :> "broken" @@ 5 :> "noindex",
          1 :> {"home2"} @@ 3 :> {"circle", "broken"} @@ 5 :> {"good"}, {{2, 3, 5}}, bounds)

\* A series, its vacancy-like neighbours and canonicals.
Series(bounds) ==
    World(1 :> "home567" @@ 5 :> "page6" @@ 6 :> "page7" @@ 7 :> "list",
          5 :> {"broken"} @@ 6 :> {"gone", "broken"} @@ 7 :> {"results"}, {{}}, bounds)

\* Languages, canonicals and templates.
Languages(bounds) ==
    World(1 :> "home234" @@ 2 :> "dutch" @@ 3 :> "english" @@ 4 :> "canonical3",
          2 :> {"english", "canonical4"} @@ 3 :> {"canonical4", "noindex"}, {{4}}, bounds)

\* Content that is thin, the same or poorly marked up.
Contents(bounds) ==
    World(1 :> "home2" @@ 2 :> "long" @@ 3 :> "same" @@ 4 :> "short",
          2 :> {"other"} @@ 3 :> {"empty"} @@ 4 :> {"empty", "notfound"}, {{}}, bounds)

\* Pages that cannot be read, an image and a vacancy.
Failing(bounds) ==
    World(1 :> "home59" @@ 5 :> "slow" @@ 9 :> "vacancy",
          5 :> {"blocked", "media8", "expired"} @@ 9 :> {"expired", "moved"}, {{}}, bounds)

Pictures(bounds) ==
    World(1 :> "media8" @@ 2 :> "good" @@ 8 :> "picture",
          1 :> {"home2"} @@ 8 :> {"gone", "slow"}, {{}}, bounds)

\* A page that redirected to an image that is gone, and is a page again.
ToPicture(bounds) ==
    World(1 :> "home2" @@ 2 :> "to8" @@ 8 :> "lost", 2 :> {"good"}, {{}}, bounds)

\* A page that people decide about while crawls see it empty or gone.
Decided(bounds) ==
    World(1 :> "home3" @@ 3 :> "empty", 3 :> {"gone"}, {{}}, bounds)

\* A page that is four links away.
Deep(bounds) ==
    World(1 :> "home2" @@ 2 :> "page3" @@ 3 :> "page4" @@ 4 :> "page5" @@ 5 :> "good",
          3 :> {"good"}, {{5}}, bounds)

MCWorlds ==
    Disappearing(Bounds(3, 1, 0, 0, 0)) \cup Disappearing(Bounds(2, 0, 0, 1, 1))
    \cup Disappearing(Bounds(2, 1, 1, 0, 0)) \cup Redirecting(Bounds(2, 1, 1, 0, 0))
    \cup Series(Bounds(2, 1, 1, 0, 0)) \cup Languages(Bounds(2, 1, 1, 0, 0))
    \cup Contents(Bounds(2, 1, 1, 0, 0))
    \cup Decided(Bounds(3, 1, 1, 0, 0)) \cup Decided(Bounds(2, 0, 1, 1, 0))
    \cup Failing(Bounds(3, 1, 0, 0, 0)) \cup Failing(Bounds(2, 1, 0, 1, 0))
    \cup Redirecting(Bounds(2, 1, 0, 1, 0)) \cup Series(Bounds(3, 1, 0, 0, 0))
    \cup Languages(Bounds(3, 1, 0, 0, 0)) \cup Contents(Bounds(3, 1, 0, 0, 0))
    \cup ToPicture(Bounds(2, 1, 0, 0, 0)) \cup Deep(Bounds(2, 1, 0, 1, 0)) \cup Pictures(Bounds(2, 1, 0, 1, 0))
=============================================================================
