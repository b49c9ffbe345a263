------------------------------ MODULE Frontier ------------------------------
(***************************************************************************)
(* The frontier of a full site crawl: which pages one crawl run fetches,   *)
(* in which order, and the crawl depth it stores for them.  The run may be *)
(* paused, lose its process and be resumed; what the process held is then  *)
(* rebuilt from the rows it committed.                                     *)
(*                                                                         *)
(* Grain.  A step is what the code does between two commits, and one step  *)
(* per link target while the links of a page are followed.                 *)
(*                                                                         *)
(* Abstractions.  A page is a number, its rank by normalized_url; page 0   *)
(* is the base URL.  All pages are inside the website scope.  Links and    *)
(* images of a page are its links.  A page that robots.txt blocks or that   *)
(* cannot be fetched yields a snapshot and nothing else.  There is one     *)
(* group of query variants.  The targets of one page are followed in any   *)
(* order (the code sorts them).                                            *)
(***************************************************************************)
EXTENDS Naturals, FiniteSets

CONSTANTS
    Pages,
    Assets,       \* the pages is_probable_html_page refuses
    Variants,     \* the pages with a query string, all of one path
    MaxVariants,  \* MAX_QUERY_VARIANTS_PER_PATH
    MaxUrls,      \* the setting max_urls
    Alternates,   \* the pages that other pages name as alternate or schema image
    Sites,        \* the link structures the website may have
    Registries,   \* the rows of urls and url_sources the run may find
    Sitemaps,     \* the sets of pages its sitemap may list
    MaxStops      \* bound: pauses, crashes and failed imports

Root == 0
Html == Pages \ Assets

\* crawl_depth NULL: larger than the length of any route.
NoDepth == Cardinality(Pages)
Depths == 0 .. NoDepth

Links == [Pages -> SUBSET Pages]

ASSUME ConstantsAssumption ==
    /\ Pages \subseteq Nat /\ IsFiniteSet(Pages)
    /\ Root \in Html
    /\ Assets \subseteq Pages /\ Alternates \subseteq Pages /\ Variants \subseteq Html \ {Root}
    /\ MaxVariants \in Nat /\ MaxUrls \in Nat /\ MaxStops \in Nat
    /\ Sites \subseteq Links /\ Sitemaps \subseteq SUBSET Pages
    /\ Registries \subseteq [active : SUBSET Pages, sources : Links, depth : [Pages -> Depths]]
    /\ \A registry \in Registries : \A p \in Pages : registry.sources[p] \subseteq registry.active

VARIABLES
    site,       \* the links on the pages of the website, as the crawl finds them
    sitemap,    \* the pages its sitemap lists
    active,     \* urls rows with is_active
    sources,    \* url_sources rows of type internal_link: targets per source page
    stored,     \* urls.crawl_depth, as committed
    snapshots,  \* url_snapshots rows of this run
    pc,         \* where execute_crawl_job is
    depth,      \* urls.crawl_depth in the session of the worker
    pending, visited, frontier, variants,  \* the local variables of _crawl_full_site
    cur,        \* the page whose links are followed, and its depth
    todo,       \* the targets still to follow
    complete,   \* what _crawl_full_site returned
    seeds,      \* history: the frontier the run began with
    stops,      \* pauses, crashes and failed imports so far
    lost        \* history: a crash or a failed import has happened

web == <<site, sitemap>>
rows == <<active, sources, stored, snapshots>>
local == <<depth, pending, visited, frontier, variants, cur, todo>>
past == <<complete, seeds, stops, lost>>
vars == <<web, rows, pc, local, past>>

-----------------------------------------------------------------------------
(* Routes *)

\* The pages at most n links from the base URL.
Within(edges, n) ==
    LET layer[k \in Nat] ==
            IF k = 0 THEN {Root}
            ELSE layer[k - 1] \cup UNION {edges[p] : p \in layer[k - 1]}
    IN  layer[n]

\* The length of the shortest route, NoDepth when there is none.
Distance(edges, p) ==
    IF \E n \in Depths : p \in Within(edges, n)
    THEN CHOOSE n \in Depths :
            /\ p \in Within(edges, n)
            /\ \A k \in 0 .. n : p \in Within(edges, k) => k = n
    ELSE NoDepth

Reachable(edges) == Within(edges, NoDepth)

-----------------------------------------------------------------------------
Entry == [page : Html, depth : Depths, place : Nat]

Init ==
    /\ site \in Sites /\ sitemap \in Sitemaps
    /\ \E registry \in Registries :
        active = registry.active /\ sources = registry.sources /\ stored = registry.depth
    /\ snapshots = {}
    /\ pc = "new"
    /\ depth = stored
    /\ pending = {} /\ visited = {} /\ frontier = {} /\ variants = 0
    /\ cur = [page |-> Root, depth |-> NoDepth]
    /\ todo = {}
    /\ complete = FALSE /\ seeds = {} /\ stops = 0 /\ lost = FALSE

\* The first attempt: import the sitemap, forget the depths, register the base URL.
ImportSitemaps ==
    /\ pc = "new"
    /\ active' = active \cup sitemap \cup {Root}
    /\ depth' = [p \in Pages |-> IF p = Root THEN 0 ELSE NoDepth]
    /\ stored' = depth'
    /\ pc' = "seed"
    /\ UNCHANGED <<web, sources, snapshots, pending, visited, frontier, variants, cur, todo, past>>

\* A sitemap that cannot be read fails the run, which now exists.
ImportFails ==
    /\ pc = "new" /\ stops < MaxStops
    /\ pc' = "stopped"
    /\ stops' = stops + 1 /\ lost' = TRUE
    /\ UNCHANGED <<web, rows, local, complete, seeds>>

\* A resumed or retried job finds its run and skips the import and the reset.
ResumeRun ==
    /\ pc = "stopped"
    /\ active' = active \cup {Root}
    /\ pc' = "seed"
    /\ UNCHANGED <<web, sources, stored, snapshots, local, past>>

\* _limit_query_variants: the first MaxVariants variants by URL.
Admitted(pages) ==
    {p \in pages : p \in Variants =>
        Cardinality({q \in pages \cap Variants : q < p}) < MaxVariants}

SeedForgets ==
    /\ pc = "seed"
    /\ LET eligible == Admitted(active \cap Html)
       IN  /\ visited' = {}
           /\ pending' = {[page |-> p, depth |-> depth[p], place |-> p] : p \in eligible}
           /\ frontier' = eligible
           /\ variants' = Cardinality(eligible \cap Variants)
           /\ seeds' = IF seeds = {} THEN eligible ELSE seeds
    /\ pc' = "loop"
    /\ UNCHANGED <<web, rows, depth, cur, todo, complete, stops, lost>>

Seed ==
    /\ pc = "seed"
    /\ LET eligible == Admitted(active \cap Html)
           done == snapshots \cap Html
       IN  /\ visited' = done
           /\ pending' = {[page |-> p, depth |-> depth[p], place |-> p] : p \in eligible \ done}
           /\ frontier' = done \cup eligible
           /\ variants' = Cardinality(eligible \cap Variants)
           /\ seeds' = IF seeds = {} THEN done \cup eligible ELSE seeds
    /\ pc' = "loop"
    /\ UNCHANGED <<web, rows, depth, cur, todo, complete, stops, lost>>

-----------------------------------------------------------------------------
(* The loop *)

Busy == pc = "loop" /\ pending # {} /\ Cardinality(visited) < MaxUrls

\* pending.sort: by depth, None last; the sort is stable.
Before(e, f) == e.depth < f.depth \/ (e.depth = f.depth /\ e.place < f.place)

Shortest(d, e) == IF d <= e THEN d ELSE e

FetchDepth(e) ==
    IF e.depth = NoDepth THEN NoDepth ELSE Shortest(e.depth, depth[e.page])

\* What a page that is read registers; a page that is blocked or fails, nothing.
FoundLinks(p, read) == IF read THEN site[p] ELSE {}

FetchPage(e, read) ==
    /\ snapshots' = snapshots \cup {e.page}
    /\ active' = active \cup FoundLinks(e.page, read) \cup (IF read THEN Alternates ELSE {})
    /\ sources' = [sources EXCEPT ![e.page] = @ \cup FoundLinks(e.page, read)]
    /\ depth' = IF e.depth = NoDepth THEN depth
                ELSE [depth EXCEPT ![e.page] = FetchDepth(e)]
    /\ stored' = depth'
    /\ cur' = [page |-> e.page, depth |-> FetchDepth(e)]
    /\ todo' = sources'[e.page]
    /\ pc' = "follow"

Fetch(e, read) ==
    /\ pending' = pending \ {e}
    /\ visited' = visited \cup {e.page}
    /\ FetchPage(e, read)

FetchNext ==
    \E e \in pending :
        /\ Busy
        /\ \A f \in pending \ {e} : Before(e, f)
        /\ e.page \notin visited
        /\ \E read \in BOOLEAN : Fetch(e, read)
        /\ UNCHANGED <<web, frontier, variants, past>>

TooManyVariants(t) == t \in Variants \ frontier /\ variants >= MaxVariants

SkipVariant(t) ==
    /\ pc = "follow" /\ t \in todo
    /\ TooManyVariants(t)
    /\ todo' = todo \ {t}
    /\ UNCHANGED <<web, rows, pc, depth, pending, visited, frontier, variants, cur, past>>

\* _audit_asset commits, the depths set so far included.
AuditAsset(t) ==
    /\ pc = "follow" /\ t \in todo \cap Assets
    /\ todo' = todo \ {t}
    /\ snapshots' = snapshots \cup {t}
    /\ stored' = IF t \in snapshots THEN stored ELSE depth
    /\ UNCHANGED <<web, active, sources, pc, depth, pending, visited, frontier, variants, cur, past>>

NextDepthOfNone == cur.depth + 1

NextDepth == IF cur.depth = NoDepth THEN NoDepth ELSE cur.depth + 1

IsPending(t) == \E e \in pending : e.page = t

FollowPageOverwrites(t) ==
    /\ pc = "follow" /\ t \in todo \cap Html
    /\ ~ TooManyVariants(t)
    /\ todo' = todo \ {t}
    /\ depth' = [depth EXCEPT ![t] = NextDepth]
    /\ frontier' = frontier \cup {t}
    /\ variants' = variants + (IF t \in Variants \ frontier THEN 1 ELSE 0)
    /\ pending' = IF t \in visited \/ IsPending(t) THEN pending
                  ELSE pending \cup {[page |-> t, depth |-> NextDepth,
                                      place |-> NoDepth + Cardinality(frontier)]}
    /\ UNCHANGED <<web, rows, pc, visited, cur, past>>

FollowPage(t) ==
    /\ pc = "follow" /\ t \in todo \cap Html
    /\ ~ TooManyVariants(t)
    /\ todo' = todo \ {t}
    /\ depth' = [depth EXCEPT ![t] = Shortest(@, NextDepth)]
    /\ frontier' = frontier \cup {t}
    /\ variants' = variants + (IF t \in Variants \ frontier THEN 1 ELSE 0)
    /\ pending' = IF t \in visited \/ IsPending(t) THEN pending
                  ELSE pending \cup {[page |-> t, depth |-> NextDepth,
                                      place |-> NoDepth + Cardinality(frontier)]}
    /\ UNCHANGED <<web, rows, pc, visited, cur, past>>

CommitLinks ==
    /\ pc = "follow" /\ todo = {}
    /\ stored' = depth
    /\ pc' = "loop"
    /\ UNCHANGED <<web, active, sources, snapshots, local, past>>

FinishEmpty ==
    /\ pc = "loop" /\ pending = {}
    /\ complete' = TRUE
    /\ pc' = "done"
    /\ UNCHANGED <<web, rows, local, seeds, stops, lost>>

FinishComplete ==
    /\ pc = "loop" /\ (pending = {} \/ Cardinality(visited) >= MaxUrls)
    /\ complete' = TRUE
    /\ pc' = "done"
    /\ UNCHANGED <<web, rows, local, seeds, stops, lost>>

Finish ==
    /\ pc = "loop" /\ (pending = {} \/ Cardinality(visited) >= MaxUrls)
    /\ complete' = (pending = {})
    /\ pc' = "done"
    /\ UNCHANGED <<web, rows, local, seeds, stops, lost>>

\* _check_crawl_control meets a pause request between two pages or two analyses.
Pause ==
    /\ pc = "loop" /\ (Busy \/ pending = {}) /\ stops < MaxStops
    /\ pc' = "stopped"
    /\ stops' = stops + 1
    /\ UNCHANGED <<web, rows, local, complete, seeds, lost>>

\* The process dies, or an exception rolls the session back.
Crash ==
    /\ pc \in {"loop", "follow"} /\ stops < MaxStops
    /\ pc' = "stopped"
    /\ depth' = stored
    /\ todo' = {}
    /\ stops' = stops + 1 /\ lost' = TRUE
    /\ UNCHANGED <<web, rows, pending, visited, frontier, variants, cur, complete, seeds>>

CrawlStep ==
    \/ ImportSitemaps \/ Seed \/ FetchNext
    \/ \E t \in Pages : SkipVariant(t) \/ AuditAsset(t) \/ FollowPage(t)
    \/ CommitLinks \/ Finish

Next == CrawlStep \/ ImportFails \/ ResumeRun \/ Pause \/ Crash

Spec == Init /\ [][Next]_vars

FairSpec == Spec /\ WF_vars(CrawlStep)

-----------------------------------------------------------------------------
(* Properties *)

\* Every variable has its type; the entries of the frontier are HTML pages.
TypeOK ==
    /\ site \in Links /\ sitemap \subseteq Pages
    /\ active \subseteq Pages /\ sources \in Links /\ snapshots \subseteq Pages
    /\ stored \in [Pages -> Depths] /\ depth \in [Pages -> Depths]
    /\ pc \in {"new", "seed", "loop", "follow", "stopped", "done"}
    /\ pending \subseteq Entry /\ visited \subseteq Html /\ frontier \subseteq Html
    /\ variants \in Nat
    /\ cur \in [page : Html, depth : Depths] /\ todo \subseteq Pages
    /\ complete \in BOOLEAN /\ seeds \subseteq Html
    /\ stops \in 0 .. MaxStops /\ lost \in BOOLEAN

\* No page gets two snapshots in one run, however often the run is paused,
\* loses its process and starts again: the analyses read one snapshot per page.
FetchedOnce ==
    [][pc = "loop" /\ pc' = "follow" => cur'.page \notin snapshots]_vars

\* A run never checks more pages than max_urls, over all its attempts.
WithinMaximum == Cardinality(snapshots \cap Html) <= MaxUrls

\* The pages a run knew at its start or found a link to.
Known == seeds \cup UNION {sources[p] : p \in snapshots \cap Html}

\* A crawl that calls itself complete has checked every page it knew or found
\* a link to, except query variants: only then may the analyses of the whole
\* site, such as the orphan pages, draw conclusions from what is missing.
\* (A page that is only an alternate waits for the next crawl.)
CompleteCoversSite ==
    pc = "done" /\ complete => (Known \cap Html) \ Variants \subseteq snapshots

\* When only the base URL was known at the start, the breadth-first order
\* makes the stored depth of every checked page its shortest route, also when
\* max_urls ends the run.  A pause does not disturb that, as long as the run
\* checks no variant (a resumed run admits other ones) and no alternate (a
\* resumed run queues it without a depth).
FirstCrawlDepth ==
    /\ pc = "done" /\ seeds = {Root}
    /\ ~ lost /\ (stops = 0 \/ visited \cap (Variants \cup Alternates) = {})
    => \A p \in visited : stored[p] = Distance(sources, p)

\* The loop ends although pages link to each other in circles.
CrawlEnds == <>[](pc \in {"done", "stopped"})
=============================================================================
