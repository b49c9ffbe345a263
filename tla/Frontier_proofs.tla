-------------------------- MODULE Frontier_proofs --------------------------
(***************************************************************************)
(* Proofs about Frontier, for any pages, links, sitemaps and limits, and   *)
(* for any rows an earlier crawl may have left.                            *)
(*                                                                         *)
(* Inv relates what the process holds to what it committed: while the loop *)
(* runs, visited is the set of HTML pages with a snapshot, so a page that  *)
(* is popped has none, and every known page is visited, in the queue,      *)
(* still to be followed or a query variant.  A pause or a crash drops all  *)
(* of that; Seed builds it again from the snapshots and the active URLs,   *)
(* which is why a page with a recorded link must be active (ActiveInv).    *)
(***************************************************************************)
EXTENDS Frontier, FiniteSetTheorems, WellFoundedInduction, TLAPS

Running == pc \in {"loop", "follow"}

VisitedInv == Running => visited = snapshots \cap Html

CoverInv ==
    /\ Running => \A p \in (Known \cap Html) \ Variants :
                    \/ p \in visited
                    \/ IsPending(p)
                    \/ pc = "follow" /\ p \in todo
    /\ CompleteCoversSite

ActiveInv == seeds \subseteq active \cup snapshots /\ \A p \in Pages : sources[p] \subseteq active

Inv == TypeOK /\ VisitedInv /\ WithinMaximum /\ CoverInv /\ ActiveInv

\* Everything the constants say, with the cardinalities of sets of pages.
LEMMA Constants ==
    /\ Pages \subseteq Nat /\ IsFiniteSet(Pages)
    /\ Root \in Html /\ Html \subseteq Pages
    /\ NoDepth \in Nat /\ MaxStops \in Nat /\ MaxUrls \in Nat
    /\ 0 \in Depths /\ NoDepth \in Depths
    /\ \A S \in SUBSET Pages : IsFiniteSet(S) /\ Cardinality(S) \in Nat
<1>1. NoDepth \in Nat
  BY ConstantsAssumption, FS_CardinalityType DEF NoDepth
<1>2. \A S \in SUBSET Pages : IsFiniteSet(S) /\ Cardinality(S) \in Nat
  BY ConstantsAssumption, FS_Subset, FS_CardinalityType
<1> QED
  BY <1>1, <1>2, ConstantsAssumption DEF Html, Depths

LEMMA InitInv == Init => Inv
<1> SUFFICES ASSUME Init PROVE Inv
  OBVIOUS
<1>1. TypeOK
  <2>1. PICK earlier \in Registries :
          active = earlier.active /\ sources = earlier.sources /\ stored = earlier.depth
    BY DEF Init
  <2>2. active \subseteq Pages /\ sources \in Links /\ stored \in [Pages -> Depths]
    BY <2>1, ConstantsAssumption
  <2>3. site \in Links /\ sitemap \subseteq Pages
    BY ConstantsAssumption DEF Init
  <2>4. /\ depth = stored /\ cur = [page |-> Root, depth |-> NoDepth]
        /\ snapshots = {} /\ pending = {} /\ visited = {} /\ frontier = {} /\ todo = {}
        /\ seeds = {} /\ variants = 0 /\ stops = 0 /\ ~complete /\ ~lost /\ pc = "new"
    BY DEF Init
  <2>5. cur \in [page : Html, depth : Depths] /\ complete \in BOOLEAN /\ lost \in BOOLEAN
    <3>1. complete = FALSE /\ lost = FALSE
      BY DEF Init
    <3> QED
      BY <2>4, <3>1, Constants
  <2> QED
    BY <2>2, <2>3, <2>4, <2>5, Constants DEF TypeOK
<1>2. WithinMaximum
  BY Constants, FS_EmptySet DEF Init, WithinMaximum
<1>3. VisitedInv /\ CoverInv
  BY DEF Init, VisitedInv, CoverInv, Running, CompleteCoversSite
<1>4. ActiveInv
  BY ConstantsAssumption DEF Init, ActiveInv
<1> QED
  BY <1>1, <1>2, <1>3, <1>4 DEF Inv

-----------------------------------------------------------------------------
(* One lemma per kind of step *)

\* A run that starts or stops: it holds nothing that has to be right.
LEMMA EdgeStep ==
    ASSUME Inv, ImportSitemaps \/ ImportFails \/ ResumeRun \/ Pause \/ Crash
    PROVE  Inv'
<1>1. TypeOK'
  <2>1. CASE ImportSitemaps
    BY <2>1, Constants DEF ImportSitemaps, Inv, TypeOK, web, past
  <2>2. CASE ImportFails
    BY <2>2, Constants DEF ImportFails, Inv, TypeOK, web, rows, local
  <2>3. CASE ResumeRun
    BY <2>3, Constants DEF ResumeRun, Inv, TypeOK, web, local, past
  <2>4. CASE Pause
    BY <2>4, Constants DEF Pause, Inv, TypeOK, web, rows, local
  <2>5. CASE Crash
    BY <2>5, Constants DEF Crash, Inv, TypeOK, web, rows
  <2> QED
    BY <2>1, <2>2, <2>3, <2>4, <2>5
<1>2. UNCHANGED snapshots /\ pc' \in {"seed", "stopped"}
  BY DEF ImportSitemaps, ImportFails, ResumeRun, Pause, Crash, rows
<1>3. VisitedInv' /\ CoverInv'
  BY <1>2 DEF VisitedInv, CoverInv, Running, CompleteCoversSite
<1>4. WithinMaximum'
  BY <1>2 DEF Inv, WithinMaximum
<1>5. UNCHANGED <<sources, seeds>> /\ active \subseteq active'
  BY DEF ImportSitemaps, ImportFails, ResumeRun, Pause, Crash, rows, past
<1>6. ActiveInv'
  BY <1>2, <1>5 DEF Inv, ActiveInv
<1> QED
  BY <1>1, <1>3, <1>4, <1>6 DEF Inv

\* The frontier is built from the committed rows.
LEMMA SeedStep ==
    ASSUME Inv, Seed
    PROVE  Inv'
<1> DEFINE eligible == Admitted(active \cap Html)
           done == snapshots \cap Html
           entries == {[page |-> p, depth |-> depth[p], place |-> p] : p \in eligible \ done}
<1>1. /\ visited' = done /\ pending' = entries /\ frontier' = done \cup eligible
      /\ variants' = Cardinality(eligible \cap Variants)
      /\ seeds' \in {seeds, done \cup eligible}
      /\ pc' = "loop"
      /\ UNCHANGED <<web, rows, depth, cur, todo, complete, stops, lost>>
  BY DEF Seed
<1>2. /\ eligible \subseteq Html
      /\ \A p \in (active \cap Html) \ Variants : p \in eligible
  BY DEF Admitted
<1>3. TypeOK'
  <2>1. entries \subseteq Entry
    <3> SUFFICES ASSUME NEW p \in eligible \ done
        PROVE  [page |-> p, depth |-> depth[p], place |-> p] \in Entry
      OBVIOUS
    <3>1. p \in Html /\ p \in Nat /\ depth[p] \in Depths
      BY <1>2, Constants DEF Inv, TypeOK
    <3> QED
      BY <3>1 DEF Entry
  <2>2. variants' \in Nat
    BY <1>1, <1>2, Constants
  <2> HIDE DEF eligible, entries
  <2> QED
    BY <1>1, <1>2, <2>1, <2>2 DEF Inv, TypeOK, web, rows, done
<1>4. \A p \in eligible \ done : IsPending(p)'
  <2> TAKE p \in eligible \ done
  <2> DEFINE entry == [page |-> p, depth |-> depth[p], place |-> p]
  <2>1. entry \in pending' /\ entry.page = p
    BY <1>1
  <2> QED
    BY <2>1 DEF IsPending
<1>5. ActiveInv'
  BY <1>1, <1>2 DEF Inv, ActiveInv, rows, Admitted
<1>6. Known' \subseteq active \cup snapshots
  BY <1>1, <1>5 DEF Known, Inv, TypeOK, ActiveInv, rows
<1>7. VisitedInv' /\ CoverInv'
  BY <1>1, <1>2, <1>4, <1>6 DEF VisitedInv, CoverInv, Running, CompleteCoversSite, rows
<1>8. WithinMaximum'
  BY <1>1 DEF Inv, WithinMaximum, rows
<1> QED
  BY <1>3, <1>5, <1>7, <1>8 DEF Inv

\* A page is popped and fetched.
LEMMA FetchStep ==
    ASSUME Inv, FetchNext
    PROVE  Inv'
<1>1. PICK e \in pending, read \in BOOLEAN :
        /\ Busy /\ e.page \notin visited
        /\ Fetch(e, read)
        /\ UNCHANGED <<web, frontier, variants, past>>
  BY DEF FetchNext
<1> DEFINE found == FoundLinks(e.page, read)
<1>2. e.page \in Html /\ e.depth \in Depths /\ e.page \in Pages
  BY Constants DEF Inv, TypeOK, Entry
<1>3. FetchDepth(e) \in Depths
  BY <1>2 DEF FetchDepth, Shortest, Inv, TypeOK, Depths
<1>4. /\ pending' = pending \ {e} /\ visited' = visited \cup {e.page}
      /\ snapshots' = snapshots \cup {e.page}
      /\ active \subseteq active' /\ active' \subseteq Pages
      /\ sources' = [sources EXCEPT ![e.page] = @ \cup found]
      /\ found \subseteq active'
      /\ depth' \in {depth, [depth EXCEPT ![e.page] = FetchDepth(e)]}
      /\ stored' = depth'
      /\ cur' = [page |-> e.page, depth |-> FetchDepth(e)]
      /\ todo' = sources'[e.page]
      /\ pc = "loop" /\ pc' = "follow" /\ UNCHANGED seeds
  <2>1. found \subseteq Pages
    BY <1>2 DEF FoundLinks, Inv, TypeOK, Links
  <2>2. active' = active \cup found \cup (IF read THEN Alternates ELSE {})
    BY <1>1 DEF Fetch, FetchPage
  <2>3. /\ active \subseteq active' /\ active' \subseteq Pages
        /\ found \subseteq active'
    BY <2>1, <2>2, ConstantsAssumption DEF Inv, TypeOK
  <2> QED
    BY <1>1, <2>3 DEF Fetch, FetchPage, Busy, past
<1>5. TypeOK'
  <2>1. sources' \in Links /\ todo' \subseteq Pages
    BY <1>2, <1>4 DEF Inv, TypeOK, Links, FoundLinks
  <2>2. depth' \in [Pages -> Depths]
    BY <1>2, <1>3, <1>4 DEF Inv, TypeOK
  <2> QED
    BY <1>1, <1>2, <1>3, <1>4, <2>1, <2>2, Constants DEF Inv, TypeOK, web, past
<1>6. VisitedInv'
  BY <1>2, <1>4 DEF Inv, VisitedInv, Running
<1>7. WithinMaximum'
  <2>1. visited = snapshots \cap Html /\ Cardinality(visited) < MaxUrls
    BY <1>1, <1>4 DEF Inv, VisitedInv, Running, Busy
  <2>2. (snapshots \cap Html)' = visited \cup {e.page}
    BY <1>2, <1>4, <2>1
  <2>3. IsFiniteSet(visited) /\ Cardinality(visited) \in Nat
    BY Constants DEF Inv, TypeOK
  <2>4. Cardinality(visited \cup {e.page}) = Cardinality(visited) + 1
    BY <1>1, <2>3, FS_AddElement
  <2> QED
    BY <2>1, <2>2, <2>3, <2>4, Constants DEF WithinMaximum
<1>8. ActiveInv'
  BY <1>2, <1>4 DEF Inv, ActiveInv, TypeOK, Links
<1>9. Known' \subseteq Known \cup todo'
  <2>1. \A q \in Pages \ {e.page} : sources'[q] = sources[q]
    BY <1>4 DEF Inv, TypeOK, Links
  <2>2. \A q \in snapshots' \cap Html : q \in Pages /\ (q = e.page \/ q \in snapshots \cap Html)
    BY <1>4, Constants
  <2> QED
    BY <1>4, <2>1, <2>2 DEF Known
<1>10. CoverInv'
  <2> SUFFICES ASSUME NEW p \in (Known' \cap Html) \ Variants
      PROVE  p \in visited' \/ IsPending(p)' \/ p \in todo'
    BY <1>4 DEF CoverInv, CompleteCoversSite
  <2>1. CASE p \in Known
    <3>1. p \in visited \/ IsPending(p)
      BY <1>4, <2>1 DEF Inv, CoverInv, Running
    <3> QED
      BY <1>4, <3>1 DEF IsPending
  <2> QED
    BY <1>9, <2>1
<1> QED
  BY <1>5, <1>6, <1>7, <1>8, <1>10 DEF Inv

\* A target is passed over: it is a query variant.
LEMMA SkipStep ==
    ASSUME Inv, NEW t \in Pages, SkipVariant(t)
    PROVE  Inv'
<1>1. /\ todo' = todo \ {t} /\ t \in Variants
      /\ UNCHANGED <<web, rows, pc, depth, pending, visited, frontier, variants, cur, past>>
  BY DEF SkipVariant, TooManyVariants
<1>2. TypeOK'
  BY <1>1 DEF Inv, TypeOK, web, rows, past
<1>3. VisitedInv' /\ WithinMaximum' /\ CoverInv' /\ ActiveInv'
  BY <1>1 DEF Inv, VisitedInv, WithinMaximum, CoverInv, CompleteCoversSite, IsPending, Running,
              ActiveInv, Known, rows, past
<1> QED
  BY <1>2, <1>3 DEF Inv

\* A target is an asset: its snapshot is not one of an HTML page.
LEMMA AuditStep ==
    ASSUME Inv, NEW t \in Pages, AuditAsset(t)
    PROVE  Inv'
<1>1. /\ todo' = todo \ {t} /\ t \in Assets /\ pc = "follow"
      /\ snapshots' = snapshots \cup {t} /\ stored' \in {stored, depth}
      /\ UNCHANGED <<web, active, sources, pc, depth, pending, visited, frontier, variants, cur,
                     past>>
  BY DEF AuditAsset
<1>2. (snapshots \cap Html)' = snapshots \cap Html
  BY <1>1 DEF Html
<1>3. TypeOK'
  BY <1>1 DEF Inv, TypeOK, web, past
<1>4. VisitedInv' /\ WithinMaximum'
  BY <1>1, <1>2 DEF Inv, VisitedInv, WithinMaximum, Running
<1>5. Known' = Known /\ ActiveInv'
  BY <1>1, <1>2 DEF Known, Inv, ActiveInv, past
<1>6. CoverInv'
  BY <1>1, <1>5 DEF Inv, CoverInv, CompleteCoversSite, IsPending, Running, Html
<1> QED
  BY <1>3, <1>4, <1>5, <1>6 DEF Inv

\* A target is a page: it has been visited or is in the queue afterwards.
LEMMA FollowStep ==
    ASSUME Inv, NEW t \in Pages, FollowPage(t)
    PROVE  Inv'
<1> DEFINE new == [page |-> t, depth |-> NextDepth, place |-> NoDepth + Cardinality(frontier)]
<1>1. /\ todo' = todo \ {t} /\ t \in Html /\ pc = "follow"
      /\ depth' = [depth EXCEPT ![t] = Shortest(@, NextDepth)]
      /\ frontier' = frontier \cup {t}
      /\ variants' = variants + (IF t \in Variants \ frontier THEN 1 ELSE 0)
      /\ pending' = IF t \in visited \/ IsPending(t) THEN pending ELSE pending \cup {new}
      /\ UNCHANGED <<web, rows, pc, visited, cur, past>>
  BY DEF FollowPage
<1>2. NextDepth \in Depths
  BY Constants DEF NextDepth, Depths, Inv, TypeOK
<1>3. new \in Entry
  BY <1>1, <1>2, Constants DEF Entry, Inv, TypeOK
<1>4. TypeOK'
  <2>1. depth' \in [Pages -> Depths]
    BY <1>1, <1>2 DEF Shortest, Inv, TypeOK
  <2>2. pending' \subseteq Entry
    BY <1>1, <1>3 DEF Inv, TypeOK
  <2>3. variants' \in Nat
    BY <1>1 DEF Inv, TypeOK
  <2> QED
    BY <1>1, <2>1, <2>2, <2>3 DEF Inv, TypeOK, web, rows, past
<1>5. VisitedInv' /\ WithinMaximum'
  BY <1>1 DEF Inv, VisitedInv, WithinMaximum, Running, rows
<1>6. t \in visited \/ IsPending(t)'
  <2>1. CASE t \in visited \/ IsPending(t)
    BY <1>1, <2>1 DEF IsPending
  <2>2. CASE ~(t \in visited \/ IsPending(t))
    <3>1. new \in pending' /\ new.page = t
      BY <1>1, <2>2
    <3> QED
      BY <3>1 DEF IsPending
  <2> QED
    BY <2>1, <2>2
<1>7. pending \subseteq pending'
  BY <1>1
<1>8. Known' = Known /\ ActiveInv'
  BY <1>1 DEF Known, Inv, ActiveInv, rows, past
<1>9. CoverInv'
  BY <1>1, <1>6, <1>7, <1>8 DEF Inv, CoverInv, CompleteCoversSite, IsPending, Running, rows
<1> QED
  BY <1>4, <1>5, <1>8, <1>9 DEF Inv

\* The links of a page are done, or the loop is.
LEMMA EndStep ==
    ASSUME Inv, CommitLinks \/ Finish
    PROVE  Inv'
<1>1. CASE CommitLinks
  <2>1. TypeOK'
    BY <1>1 DEF CommitLinks, Inv, TypeOK, web, local, past
  <2>2. VisitedInv' /\ WithinMaximum' /\ CoverInv' /\ ActiveInv'
    BY <1>1 DEF CommitLinks, Inv, VisitedInv, WithinMaximum, CoverInv, CompleteCoversSite,
                ActiveInv, Known, IsPending, Running, web, local, past
  <2> QED
    BY <2>1, <2>2 DEF Inv
<1>2. CASE Finish
  <2>1. TypeOK'
    BY <1>2 DEF Finish, Inv, TypeOK, web, rows, local
  <2>2. VisitedInv' /\ WithinMaximum'
    BY <1>2 DEF Finish, Inv, VisitedInv, WithinMaximum, Running, rows, local
  <2>3. CoverInv'
    <3> SUFFICES ASSUME pending = {}, NEW p \in (Known \cap Html) \ Variants
        PROVE  p \in snapshots
      BY <1>2 DEF Finish, CoverInv, CompleteCoversSite, Running, Known, rows
    <3>1. ~ IsPending(p)
      BY DEF IsPending
    <3>2. p \in visited
      BY <1>2, <3>1 DEF Finish, Inv, CoverInv, Running
    <3> QED
      BY <1>2, <3>2 DEF Finish, Inv, VisitedInv, Running
  <2>4. ActiveInv'
    BY <1>2 DEF Finish, Inv, ActiveInv, rows
  <2> QED
    BY <2>1, <2>2, <2>3, <2>4 DEF Inv
<1> QED
  BY <1>1, <1>2

LEMMA StutterStep ==
    ASSUME Inv, UNCHANGED vars
    PROVE  Inv'
BY DEF Inv, TypeOK, VisitedInv, WithinMaximum, CoverInv, CompleteCoversSite, ActiveInv, Known,
       IsPending, Running, vars, web, rows, local, past

-----------------------------------------------------------------------------
\* Inv holds in every reachable state.
THEOREM InvHolds == Spec => []Inv
<1>1. Inv /\ [Next]_vars => Inv'
  BY EdgeStep, SeedStep, FetchStep, SkipStep, AuditStep, FollowStep, EndStep, StutterStep
     DEF Next, CrawlStep
<1> QED
  BY InitInv, <1>1, PTL DEF Spec

\* The variables keep their types, for every website and every pause or crash.
THEOREM TypeCorrect == Spec => []TypeOK
<1>1. Inv => TypeOK
  BY DEF Inv
<1> QED
  BY InvHolds, <1>1, PTL

\* A run checks at most max_urls pages, over all its attempts.
THEOREM MaximumKept == Spec => []WithinMaximum
<1>1. Inv => WithinMaximum
  BY DEF Inv
<1> QED
  BY InvHolds, <1>1, PTL

\* A run that calls itself complete has checked every page it knew or found a link
\* to, query variants apart: the analyses of the whole site may rely on it.
THEOREM CompleteIsComplete == Spec => []CompleteCoversSite
<1>1. Inv => CompleteCoversSite
  BY DEF Inv, CoverInv
<1> QED
  BY InvHolds, <1>1, PTL

\* No page is fetched twice by one run, whatever happens to its process.
THEOREM NoSecondSnapshot == Spec => FetchedOnce
<1>1. Inv /\ [Next]_vars => (pc = "loop" /\ pc' = "follow" => cur'.page \notin snapshots)
  <2> SUFFICES ASSUME Inv, [Next]_vars, pc = "loop", pc' = "follow"
      PROVE  cur'.page \notin snapshots
    OBVIOUS
  <2>1. FetchNext
    BY DEF Next, CrawlStep, ImportSitemaps, Seed, SkipVariant, AuditAsset, FollowPage,
           CommitLinks, Finish, ImportFails, ResumeRun, Pause, Crash, vars
  <2>2. PICK e \in pending : e.page \notin visited /\ cur'.page = e.page
    BY <2>1 DEF FetchNext, Fetch, FetchPage
  <2> QED
    BY <2>2 DEF Inv, VisitedInv, Running, TypeOK, Entry
<1> QED
  BY InvHolds, <1>1, PTL DEF Spec, FetchedOnce

-----------------------------------------------------------------------------
(***************************************************************************)
(* Proof that the breadth-first order of a first crawl makes the stored    *)
(* depth of every page the length of its shortest route.                   *)
(*                                                                         *)
(* The argument is that of breadth-first search.  A measured page has a    *)
(* visited page one link nearer (RouteInv), a link of a visited page adds  *)
(* at most one (RelaxedInv), and no visited page is further away than a    *)
(* page that waits (OrderInv), so the depth of a visited page no longer    *)
(* changes.  What the code adds to that: the depth lives in the row and    *)
(* in the entry (QueueInv), a pause drops the entries and Seed makes new   *)
(* ones from the active rows (FoundInv), rows of an earlier crawl lead     *)
(* nowhere (OldInv), and a variant may be passed over.                     *)
(***************************************************************************)

\* The runs the claim is about, at any moment of theirs.
FirstCrawl ==
    /\ seeds \subseteq {Root} /\ ~ lost
    /\ stops = 0 \/ visited \cap (Variants \cup Alternates) = {}

\* The pages whose depth can be relied on.
Counted == IF stops = 0 THEN Html ELSE Html \ (Variants \cup Alternates)

Measured(p) == depth[p] # NoDepth

Unfollowed(q, t) == pc = "follow" /\ q = cur.page /\ t \in todo

RowsInv ==
    /\ visited = snapshots \cap Html
    /\ pc # "follow" => stored = depth
    /\ pc = "follow" => todo \subseteq sources[cur.page]
    /\ visited \subseteq frontier
    /\ \A e \in pending : e.page \in frontier
    /\ \A e, f \in pending : e.page = f.page => e = f
    /\ MaxVariants = 0 => frontier \cap Variants = {}

BeginInv ==
    /\ pc = "new" => seeds = {} /\ ~ lost
    /\ pc = "seed" => Root \in active
    /\ pc \in {"seed", "stopped"} /\ seeds # {} => stops # 0
    /\ seeds = {} /\ ~ lost =>
        /\ visited = {} /\ stops = 0 /\ pc \in {"new", "seed"}
        /\ pc = "seed" => depth = [p \in Pages |-> IF p = Root THEN 0 ELSE NoDepth]

\* Recorded links of pages that are not visited.
OldInv ==
    \A q \in Pages \ visited : \A t \in sources[q] \cap Html :
        t = Root \/ (MaxVariants = 0 /\ t \in Variants)

RouteInv ==
    /\ depth[Root] = 0
    /\ \A p \in Counted \ {Root} :
        Measured(p) => \E q \in visited : p \in sources[q] /\ depth[p] = depth[q] + 1

\* There is a visited page at every distance up to that of a visited page.
LayerInv ==
    \A p \in visited : Measured(p) /\ \A n \in 0 .. depth[p] : \E q \in visited : depth[q] = n

RelaxedInv ==
    \A q \in visited : \A t \in sources[q] \cap Counted :
        \/ depth[t] <= depth[q] + 1
        \/ Unfollowed(q, t)
        \/ t \in Variants \ frontier /\ variants >= MaxVariants

OrderInv ==
    /\ \A q \in visited, p \in Counted \ visited : depth[q] <= depth[p]
    /\ pc = "follow" =>
        /\ cur.page \in visited /\ cur.depth = depth[cur.page]
        /\ \A q \in visited : depth[q] <= cur.depth

QueueInv ==
    Running =>
        /\ \A e \in pending : e.page \in Counted =>
                e.page \notin visited /\ e.depth = depth[e.page] /\ Measured(e.page)
        /\ \A p \in Counted : Measured(p) => p \in visited \/ IsPending(p)

FoundInv ==
    \A p \in (active \cap Html) \ (Variants \cup Alternates) :
        Measured(p) \/ (pc = "follow" /\ p \in todo)

Breadth ==
    OldInv /\ RouteInv /\ LayerInv /\ RelaxedInv /\ OrderInv /\ QueueInv /\ FoundInv

DepthInv == RowsInv /\ BeginInv /\ (FirstCrawl /\ seeds # {} => Breadth)

-----------------------------------------------------------------------------
(* Numbers, sets of numbers *)

\* Every nonempty set of numbers has a smallest one.
LEMMA Smallest ==
    ASSUME NEW S \in SUBSET Nat, S # {}
    PROVE  \E n \in S : \A m \in S : n <= m
<1>1. PICK n \in S : \A m \in S : ~ (<<m, n>> \in OpToRel(<, Nat))
  BY NatLessThanWellFounded, WFMin
<1>2. \A m \in S : ~ (m < n)
  BY <1>1 DEF OpToRel
<1> QED
  BY <1>2

\* A page that is not visited leaves room for one more distance.
LEMMA Room ==
    ASSUME Inv, LayerInv, NEW q \in visited, NEW t \in Pages \ visited
    PROVE  depth[q] + 1 < NoDepth
<1> DEFINE c == depth[q]
           layers == 0 .. c
           f == [n \in layers |-> CHOOSE p \in visited : depth[p] = n]
<1>1. c \in Nat /\ c <= NoDepth /\ c # NoDepth /\ NoDepth \in Nat /\ visited \subseteq Pages \ {t}
  BY Constants DEF Inv, TypeOK, Depths, LayerInv, Measured
<1>2. \A n \in layers : f[n] \in visited /\ depth[f[n]] = n
  BY DEF LayerInv
<1>3. f \in [layers -> Pages \ {t}]
  BY <1>1, <1>2
<1>4. IsFiniteSet(layers) /\ Cardinality(layers) = c + 1
  <2>1. 0 \in Int /\ c \in Int /\ ~ (0 > c) /\ c - 0 + 1 = c + 1
    BY <1>1
  <2> HIDE DEF c
  <2> QED
    BY <2>1, FS_Interval
<1>5. IsFiniteSet(Pages \ {t}) /\ Cardinality(Pages \ {t}) = NoDepth - 1
  BY ConstantsAssumption, FS_RemoveElement DEF NoDepth
<1> SUFFICES ASSUME c + 1 = NoDepth PROVE FALSE
  BY <1>1
<1>6. Cardinality(Pages \ {t}) < Cardinality(layers)
  BY <1>1, <1>4, <1>5
<1>7. PICK x, y \in layers : x # y /\ f[x] = f[y]
  <2> HIDE DEF f, layers
  <2> QED
    BY <1>3, <1>4, <1>5, <1>6, FS_PigeonHole
<1> QED
  BY <1>2, <1>7

-----------------------------------------------------------------------------
(* What every step keeps *)

LEMMA InitDepth == Init => DepthInv
<1> SUFFICES ASSUME Init PROVE DepthInv
  OBVIOUS
<1>1. RowsInv /\ BeginInv
  BY DEF Init, RowsInv, BeginInv
<1>2. seeds = {}
  BY DEF Init
<1> QED
  BY <1>1, <1>2 DEF DepthInv

\* A run the claim is about was one before the step.
LEMMA StillFirst ==
    ASSUME Inv, DepthInv, [Next]_vars, FirstCrawl'
    PROVE  FirstCrawl
<1>1. stops' = 0 => stops = 0
  BY DEF Inv, TypeOK, Next, CrawlStep, ImportSitemaps, Seed, FetchNext, SkipVariant, AuditAsset,
         FollowPage, CommitLinks, Finish, ImportFails, ResumeRun, Pause, Crash, vars, past
<1>2. visited \subseteq visited'
  BY DEF DepthInv, RowsInv, Next, CrawlStep, ImportSitemaps, Seed, FetchNext, Fetch, SkipVariant,
         AuditAsset, FollowPage, CommitLinks, Finish, ImportFails, ResumeRun, Pause, Crash, vars,
         local
<1>3. ~ lost
  BY DEF FirstCrawl, Next, CrawlStep, ImportSitemaps, Seed, FetchNext, SkipVariant, AuditAsset,
         FollowPage, CommitLinks, Finish, ImportFails, ResumeRun, Pause, Crash, vars, past
<1>4. seeds \subseteq {Root}
  BY DEF FirstCrawl, Next, CrawlStep, ImportSitemaps, Seed, FetchNext, SkipVariant, AuditAsset,
         FollowPage, CommitLinks, Finish, ImportFails, ResumeRun, Pause, Crash, vars, past
<1> QED
  BY <1>1, <1>2, <1>3, <1>4 DEF FirstCrawl

LEMMA SomeDepth == NoDepth # 0
BY ConstantsAssumption, FS_EmptySet DEF NoDepth, Html

LEMMA MeasuredRoot == RouteInv => Measured(Root)
BY SomeDepth DEF RouteInv, Measured

\* Only query variants that are never admitted can be active beside the base URL.
LEMMA OnlyRoot ==
    ASSUME Inv, Admitted(active \cap Html) \subseteq {Root}, NEW p \in active \cap Html, p # Root
    PROVE  MaxVariants = 0 /\ p \in Variants
<1> DEFINE known == active \cap Html
           older(v) == {q \in known \cap Variants : q < v}
<1>1. p \in Variants
  BY DEF Admitted
<1>2. known \cap Variants \in SUBSET Nat /\ known \cap Variants # {}
  BY <1>1, Constants
<1>3. PICK v \in known \cap Variants : \A q \in known \cap Variants : v <= q
  BY <1>2, Smallest
<1>4. older(v) = {}
  BY <1>2, <1>3
<1>5. v # Root /\ v \notin Admitted(known)
  BY <1>3, ConstantsAssumption
<1>6. ~ (Cardinality(older(v)) < MaxVariants)
  BY <1>3, <1>5 DEF Admitted
<1>7. ~ (0 < MaxVariants)
  BY <1>4, <1>6, FS_EmptySet
<1> QED
  BY <1>1, <1>7, ConstantsAssumption

-----------------------------------------------------------------------------
(* One lemma per kind of step *)

\* A run begins or stops; a pause takes the variants and alternates out of the claim.
LEMMA EdgeDepth ==
    ASSUME Inv, DepthInv, ImportSitemaps \/ ImportFails \/ ResumeRun \/ Pause \/ Crash,
           FirstCrawl' => FirstCrawl
    PROVE  DepthInv'
<1>1. UNCHANGED <<sources, snapshots, pending, visited, frontier, variants, cur, seeds>>
  BY DEF ImportSitemaps, ImportFails, ResumeRun, Pause, Crash, rows, local, past
<1>2. RowsInv'
  <2>1. pc' # "follow" /\ (stored' = depth' \/ (pc # "follow" /\ UNCHANGED <<stored, depth>>))
    BY DEF ImportSitemaps, ImportFails, ResumeRun, Pause, Crash, rows, local
  <2> QED
    BY <1>1, <2>1 DEF DepthInv, RowsInv
<1>3. stops' \in {stops, stops + 1} /\ stops \in Nat /\ (stops' = stops => UNCHANGED Counted)
      /\ Counted' \subseteq Counted
  BY Constants DEF ImportSitemaps, ImportFails, ResumeRun, Pause, Crash, past, Inv, TypeOK, Counted
<1>4. BeginInv'
  BY <1>1, <1>3 DEF DepthInv, BeginInv, ImportSitemaps, ImportFails, ResumeRun, Pause, Crash, past
<1>5. ASSUME FirstCrawl', seeds' # {} PROVE Breadth'
  <2>1. (Pause \/ ResumeRun) /\ Breadth
    BY <1>1, <1>5 DEF DepthInv, BeginInv, FirstCrawl, ImportSitemaps, ImportFails, Crash
  <2>2. UNCHANGED depth /\ pc # "follow" /\ pc' \in {"seed", "stopped"}
        /\ active' \subseteq active \cup {Root}
    BY <2>1 DEF Pause, ResumeRun, local, rows
  <2>3. OldInv' /\ LayerInv' /\ QueueInv'
    BY <1>1, <2>1, <2>2 DEF Breadth, OldInv, LayerInv, QueueInv, Measured, Running
  <2>4. RouteInv'
    BY <1>1, <1>3, <2>1, <2>2 DEF Breadth, RouteInv, Measured
  <2>5. RelaxedInv'
    BY <1>1, <1>3, <2>1, <2>2 DEF Breadth, RelaxedInv, Unfollowed
  <2>6. OrderInv'
    BY <1>1, <1>3, <2>1, <2>2 DEF Breadth, OrderInv
  <2>7. FoundInv'
    BY <2>1, <2>2, MeasuredRoot DEF Breadth, FoundInv, Measured
  <2> QED
    BY <2>3, <2>4, <2>5, <2>6, <2>7 DEF Breadth
<1> QED
  BY <1>2, <1>4, <1>5 DEF DepthInv

\* What Seed queues: of the pages that count, those that are measured.
LEMMA SeedDepth ==
    ASSUME Inv, DepthInv, Seed, FirstCrawl' => FirstCrawl
    PROVE  DepthInv'
<1> DEFINE eligible == Admitted(active \cap Html)
           done == snapshots \cap Html
           Row(p) == [page |-> p, depth |-> depth[p], place |-> p]
<1>1. /\ pc = "seed" /\ pc' = "loop"
      /\ visited' = done /\ pending' = {Row(p) : p \in eligible \ done}
      /\ frontier' = done \cup eligible
      /\ seeds' = (IF seeds = {} THEN done \cup eligible ELSE seeds)
      /\ UNCHANGED <<active, sources, stored, snapshots, depth, cur, todo, stops, lost>>
  BY DEF Seed, rows
<1>2. visited' = visited /\ eligible \subseteq active \cap Html
      /\ Html \subseteq Pages /\ UNCHANGED Counted
  BY <1>1, Constants DEF DepthInv, RowsInv, Admitted, Counted
<1>3. \A e \in pending' : /\ e.page \in eligible \ done /\ e.depth = depth[e.page]
                          /\ e = Row(e.page)
  <2> TAKE e \in pending'
  <2>1. PICK p \in eligible \ done : e = Row(p)
    BY <1>1
  <2>2. e.page = p /\ e.depth = depth[p]
    BY <2>1
  <2> QED
    BY <2>1, <2>2
<1>4. \A p \in eligible \ done : IsPending(p)'
  <2> TAKE p \in eligible \ done
  <2>1. Row(p) \in pending' /\ Row(p).page = p
    BY <1>1
  <2> QED
    BY <2>1 DEF IsPending
<1>5. \A p \in (active \cap Html) \ Variants : p \in eligible
  BY DEF Admitted
<1>6. Root \in eligible
  BY <1>1, <1>5, Constants, ConstantsAssumption DEF DepthInv, BeginInv
<1>7. MaxVariants = 0 => eligible \cap Variants = {}
  <2> SUFFICES ASSUME MaxVariants = 0, NEW p \in eligible \cap Variants PROVE FALSE
    OBVIOUS
  <2> DEFINE S == {q \in active \cap Html \cap Variants : q < p}
  <2>1. Cardinality(S) < 0 /\ S \subseteq Pages
    BY <1>2 DEF Admitted
  <2>2. Cardinality(S) \in Nat
    BY <2>1, Constants
  <2> HIDE DEF S
  <2> QED
    BY <2>1, <2>2
<1> HIDE DEF eligible, done
<1>8. RowsInv'
  <2>1. visited' = snapshots' \cap Html /\ visited' \subseteq frontier'
    BY <1>1 DEF done
  <2>2. stored' = depth'
    BY <1>1 DEF DepthInv, RowsInv
  <2>3. MaxVariants = 0 => frontier' \cap Variants = {}
    BY <1>1, <1>2, <1>7 DEF DepthInv, RowsInv
  <2> QED
    BY <1>1, <1>3, <2>1, <2>2, <2>3 DEF RowsInv
<1>9. BeginInv'
  BY <1>1, <1>6 DEF BeginInv
<1>10. ASSUME FirstCrawl', seeds = {} PROVE Breadth'
  <2>1. /\ visited' = {} /\ stops = 0 /\ eligible \subseteq {Root}
        /\ depth' = [p \in Pages |-> IF p = Root THEN 0 ELSE NoDepth]
    BY <1>1, <1>2, <1>10 DEF FirstCrawl, DepthInv, BeginInv
  <2>2. \A p \in active \cap Html : p = Root \/ (MaxVariants = 0 /\ p \in Variants)
    BY <2>1, OnlyRoot DEF eligible
  <2>3. OldInv'
    BY <1>1, <2>2 DEF Inv, ActiveInv, OldInv
  <2>4. RouteInv'
    BY <1>2, <2>1, Constants DEF RouteInv, Measured, Counted
  <2>5. Measured(Root)'
    BY <2>4, SomeDepth DEF RouteInv, Measured
  <2>6. LayerInv' /\ RelaxedInv' /\ OrderInv'
    BY <1>1, <2>1 DEF LayerInv, RelaxedInv, OrderInv
  <2>7. QueueInv'
    BY <1>1, <1>2, <1>3, <1>4, <1>6, <2>1, <2>5 DEF QueueInv, Measured, Counted
  <2>8. FoundInv'
    BY <1>1, <2>2, <2>5 DEF FoundInv, Measured
  <2> QED
    BY <2>3, <2>4, <2>6, <2>7, <2>8 DEF Breadth
<1>11. ASSUME FirstCrawl', FirstCrawl, seeds # {} PROVE Breadth'
  <2>1. Breadth /\ Counted = Html \ (Variants \cup Alternates)
    BY <1>1, <1>11 DEF DepthInv, BeginInv, Counted
  <2>2. OldInv' /\ LayerInv' /\ FoundInv' /\ RouteInv'
    BY <1>1, <1>2, <2>1 DEF Breadth, OldInv, LayerInv, FoundInv, RouteInv, Measured
  <2>3. RelaxedInv' /\ OrderInv'
    BY <1>1, <1>2, <2>1 DEF Breadth, RelaxedInv, OrderInv, Unfollowed
  <2>4. \A e \in pending' : e.page \in Counted => e.page \notin visited' /\ Measured(e.page)
    BY <1>1, <1>2, <1>3, <2>1 DEF Breadth, FoundInv
  <2>5. \A p \in Counted : Measured(p) => p \in visited' \/ IsPending(p)'
    <3> SUFFICES ASSUME NEW p \in Counted, Measured(p), p # Root
        PROVE  p \in visited' \/ IsPending(p)'
      BY <1>1, <1>4, <1>6
    <3>1. PICK q \in visited : p \in sources[q]
      BY <2>1 DEF Breadth, RouteInv
    <3>2. p \in active \cap Html
      BY <1>2, <2>1, <3>1 DEF Inv, ActiveInv, TypeOK
    <3> QED
      BY <1>1, <1>4, <1>5, <2>1, <3>2
  <2>6. QueueInv'
    BY <1>1, <1>2, <1>3, <2>4, <2>5 DEF QueueInv, Measured
  <2> QED
    BY <2>2, <2>3, <2>6 DEF Breadth
<1> QED
  BY <1>8, <1>9, <1>10, <1>11 DEF DepthInv

\* The nearest page of the queue is popped: its depth stays what it was.
LEMMA FetchDepthStep ==
    ASSUME Inv, DepthInv, FetchNext, FirstCrawl' => FirstCrawl
    PROVE  DepthInv'
<1>1. PICK e \in pending, read \in BOOLEAN :
        /\ Busy /\ e.page \notin visited
        /\ \A f \in pending \ {e} : Before(e, f)
        /\ Fetch(e, read)
        /\ UNCHANGED <<web, frontier, variants, past>>
  BY DEF FetchNext
<1> DEFINE a == e.page
           found == FoundLinks(a, read)
<1>2. a \in Html /\ a \in Pages /\ e.depth \in Depths /\ pending \subseteq Entry
  BY Constants DEF Inv, TypeOK, Entry
<1>3. /\ pending' = pending \ {e} /\ visited' = visited \cup {a}
      /\ snapshots' = snapshots \cup {a}
      /\ active' = active \cup found \cup (IF read THEN Alternates ELSE {})
      /\ sources' = [sources EXCEPT ![a] = @ \cup found]
      /\ depth' = (IF e.depth = NoDepth THEN depth ELSE [depth EXCEPT ![a] = FetchDepth(e)])
      /\ stored' = depth' /\ cur' = [page |-> a, depth |-> FetchDepth(e)]
      /\ todo' = sources'[a] /\ pc = "loop" /\ pc' = "follow"
      /\ UNCHANGED <<frontier, variants, seeds, stops, lost>>
  BY <1>1 DEF Fetch, FetchPage, Busy, past
<1>4. cur'.page = a /\ cur'.depth = FetchDepth(e) /\ UNCHANGED Counted
  BY <1>3 DEF Counted
<1>5. /\ sources \in [Pages -> SUBSET Pages]
      /\ found \subseteq todo' /\ sources'[a] = sources[a] \cup found
      /\ \A q \in Pages \ {a} : sources'[q] = sources[q]
  BY <1>2, <1>3 DEF Inv, TypeOK, Links
<1>6. RowsInv'
  <2>1. visited' = snapshots' \cap Html /\ a \in frontier
    BY <1>2, <1>3 DEF DepthInv, RowsInv
  <2> QED
    BY <1>3, <1>4, <2>1 DEF DepthInv, RowsInv
<1>7. seeds # {} \/ lost
  BY <1>3 DEF DepthInv, BeginInv
<1>8. BeginInv'
  BY <1>3, <1>7 DEF BeginInv
<1>9. ASSUME FirstCrawl' PROVE Breadth'
  <2>1. FirstCrawl /\ Breadth /\ a \in Counted
    BY <1>2, <1>3, <1>7, <1>9 DEF FirstCrawl, DepthInv, Counted
  <2>2. e.depth = depth[a] /\ Measured(a) /\ depth[a] \in Nat
    BY <1>2, <1>3, <2>1, Constants DEF Breadth, QueueInv, Running, Depths
  <2>3. FetchDepth(e) = depth[a]
    BY <2>2 DEF FetchDepth, Shortest, Measured
  <2>4. UNCHANGED depth /\ cur'.depth = depth[a] /\ \A p \in Pages : depth[p] \in Nat
    BY <1>2, <1>3, <1>4, <2>2, <2>3, Constants DEF Inv, TypeOK, Depths
  <2> HIDE DEF a, found
  <2>5. \A q \in visited : q \in Pages /\ q # a /\ q \in visited' /\ sources'[q] = sources[q]
    BY <1>1, <1>2, <1>3, <1>5, Constants DEF Inv, TypeOK, a
  <2>6. OldInv'
    BY <1>3, <1>5, <2>1 DEF Breadth, OldInv
  <2>7. RouteInv'
    BY <1>4, <2>1, <2>4, <2>5 DEF Breadth, RouteInv, Measured
  <2>8. LayerInv'
    <3>1. ASSUME NEW n \in 0 .. depth[a] PROVE \E q \in visited' : depth[q] = n
      <4>1. CASE n = depth[a]
        BY <1>3, <4>1
      <4>2. CASE n # depth[a]
        <5>1. a # Root /\ n \in Nat /\ n < depth[a]
          BY <2>1, <2>2, <4>2 DEF Breadth, RouteInv
        <5>2. PICK q \in visited : depth[a] = depth[q] + 1
          BY <2>1, <2>2, <5>1 DEF Breadth, RouteInv
        <5>3. n \in 0 .. depth[q]
          BY <2>4, <2>5, <5>1, <5>2
        <5> QED
          BY <2>1, <2>5, <5>3 DEF Breadth, LayerInv
      <4> QED
        BY <4>1, <4>2
    <3> QED
      BY <1>3, <2>1, <2>2, <2>4, <2>5, <3>1 DEF Breadth, LayerInv, Measured
  <2>9. RelaxedInv'
    <3> SUFFICES ASSUME NEW q \in visited', NEW t \in sources'[q] \cap Counted
        PROVE  \/ depth[t] <= depth[q] + 1
               \/ Unfollowed(q, t)'
               \/ t \in Variants \ frontier /\ variants >= MaxVariants
      BY <1>3, <1>4, <2>4 DEF RelaxedInv
    <3>1. CASE q = a
      BY <1>3, <1>4, <3>1 DEF Unfollowed
    <3>2. CASE q # a
      BY <1>3, <2>1, <2>5, <3>2 DEF Breadth, RelaxedInv, Unfollowed
    <3> QED
      BY <3>1, <3>2
  <2>10. OrderInv'
    <3>1. \A q \in visited : depth[q] <= depth[a]
      BY <1>1, <2>1 DEF Breadth, OrderInv, a
    <3>2. ASSUME NEW p \in Counted \ visited, p # a PROVE depth[a] <= depth[p]
      <4>1. CASE Measured(p)
        <5>1. PICK f \in pending : f.page = p
          BY <1>3, <2>1, <3>2, <4>1 DEF Breadth, QueueInv, Running, IsPending
        <5>2. f # e /\ f.depth = depth[p] /\ p \in Pages
          BY <1>3, <2>1, <3>2, <5>1, Constants DEF Breadth, QueueInv, Running, Counted, a
        <5>3. e.depth <= f.depth
          BY <1>1, <1>2, <2>2, <2>4, <5>2 DEF Before
        <5> QED
          BY <2>2, <5>2, <5>3
      <4>2. CASE ~ Measured(p)
        BY <1>2, <2>2, <4>2, Constants DEF Measured, Depths
      <4> QED
        BY <4>1, <4>2
    <3> QED
      BY <1>3, <1>4, <2>1, <2>2, <2>4, <3>1, <3>2 DEF Breadth, OrderInv
  <2>11. QueueInv'
    <3>1. ASSUME NEW f \in pending', f.page \in Counted
          PROVE  f.page \notin visited' /\ f.depth = depth[f.page] /\ Measured(f.page)
      <4>1. f.page # a
        BY <1>3 DEF DepthInv, RowsInv, a
      <4> QED
        BY <1>3, <2>1, <3>1, <4>1 DEF Breadth, QueueInv, Running
    <3>2. ASSUME NEW p \in Counted, Measured(p) PROVE p \in visited' \/ IsPending(p)'
      BY <1>3, <2>1, <3>2 DEF Breadth, QueueInv, Running, IsPending, a
    <3> QED
      BY <1>4, <2>4, <3>1, <3>2 DEF QueueInv, Measured
  <2>12. FoundInv'
    BY <1>3, <1>5, <2>1, <2>4 DEF Breadth, FoundInv, Measured
  <2> QED
    BY <2>6, <2>7, <2>8, <2>9, <2>10, <2>11, <2>12 DEF Breadth
<1> QED
  BY <1>6, <1>8, <1>9 DEF DepthInv

\* A target that gets no depth here: a variant that is passed over, an asset.
LEMMA PassDepth ==
    ASSUME Inv, DepthInv, NEW t \in Pages, SkipVariant(t) \/ AuditAsset(t),
           FirstCrawl' => FirstCrawl
    PROVE  DepthInv'
<1>1. /\ pc = "follow" /\ todo' = todo \ {t}
      /\ UNCHANGED <<active, sources, pc, depth, pending, visited, frontier, variants, cur,
                     seeds, stops, lost>>
  BY DEF SkipVariant, AuditAsset, rows, past
<1>2. \/ t \in Variants \ frontier /\ variants >= MaxVariants /\ UNCHANGED snapshots
      \/ t \notin Html /\ snapshots' = snapshots \cup {t}
  BY DEF SkipVariant, TooManyVariants, AuditAsset, Html, rows
<1>3. UNCHANGED Counted /\ Counted \subseteq Html
  BY <1>1 DEF Counted
<1>4. RowsInv' /\ BeginInv'
  BY <1>1, <1>2 DEF DepthInv, RowsInv, BeginInv
<1>5. ASSUME FirstCrawl', seeds' # {} PROVE Breadth'
  <2>1. Breadth
    BY <1>1, <1>5 DEF DepthInv
  <2>2. OldInv' /\ LayerInv' /\ RouteInv' /\ OrderInv'
    BY <1>1, <1>3, <2>1 DEF Breadth, OldInv, LayerInv, RouteInv, OrderInv, Measured
  <2>3. QueueInv'
    BY <1>1, <1>3, <2>1 DEF Breadth, QueueInv, Measured, Running, IsPending
  <2>4. RelaxedInv'
    BY <1>1, <1>2, <1>3, <2>1 DEF Breadth, RelaxedInv, Unfollowed
  <2>5. FoundInv'
    BY <1>1, <1>2, <2>1 DEF Breadth, FoundInv, Measured
  <2> QED
    BY <2>1, <2>2, <2>3, <2>4, <2>5 DEF Breadth
<1> QED
  BY <1>4, <1>5 DEF DepthInv

\* A link is followed: it gives a depth to a page that had none, and changes no other.
LEMMA FollowDepth ==
    ASSUME Inv, DepthInv, NEW t \in Pages, FollowPage(t), FirstCrawl' => FirstCrawl
    PROVE  DepthInv'
<1> DEFINE new == [page |-> t, depth |-> NextDepth, place |-> NoDepth + Cardinality(frontier)]
           a == cur.page
           c == cur.depth
<1>1. /\ todo' = todo \ {t} /\ t \in Html /\ t \in todo /\ pc = "follow"
      /\ ~ TooManyVariants(t)
      /\ depth' = [depth EXCEPT ![t] = Shortest(@, NextDepth)]
      /\ frontier' = frontier \cup {t}
      /\ variants' = variants + (IF t \in Variants \ frontier THEN 1 ELSE 0)
      /\ pending' = (IF t \in visited \/ IsPending(t) THEN pending ELSE pending \cup {new})
      /\ UNCHANGED <<active, sources, snapshots, stored, pc, visited, cur, seeds, stops, lost>>
  BY DEF FollowPage, rows, past
<1>2. new.page = t /\ new.depth = NextDepth
  OBVIOUS
<1>3. /\ UNCHANGED Counted /\ Counted \subseteq Html /\ Html \subseteq Pages
      /\ visited \subseteq Pages
      /\ NoDepth \in Nat /\ variants \in Nat /\ variants' \in Nat /\ variants' >= variants
      /\ \A p \in Pages : depth[p] \in Nat /\ depth[p] <= NoDepth
  BY <1>1, Constants DEF Counted, Inv, TypeOK, Depths
<1>4. /\ \A p \in Pages \ {t} : depth'[p] = depth[p]
      /\ depth'[t] = Shortest(depth[t], NextDepth)
  BY <1>1 DEF Inv, TypeOK
<1>5. pending \subseteq pending' /\ pending' \subseteq pending \cup {new}
      /\ (new \notin pending /\ new \in pending' => t \notin visited /\ ~ IsPending(t))
      /\ (t \in visited \/ IsPending(t) \/ new \in pending')
  BY <1>1
<1>6. t \in visited \/ IsPending(t)'
  BY <1>2, <1>5 DEF IsPending
<1> HIDE DEF new
<1>7. RowsInv'
  <2>1. \A e, f \in pending' : e.page = f.page => e = f
    BY <1>2, <1>5 DEF DepthInv, RowsInv, IsPending
  <2>2. MaxVariants = 0 => t \notin Variants
    BY <1>1, <1>3 DEF DepthInv, RowsInv, TooManyVariants
  <2>3. \A e \in pending' : e.page \in frontier'
    BY <1>1, <1>2, <1>5 DEF DepthInv, RowsInv
  <2> QED
    BY <1>1, <2>1, <2>2, <2>3 DEF DepthInv, RowsInv
<1>8. BeginInv'
  BY <1>1 DEF DepthInv, BeginInv
<1>9. ASSUME FirstCrawl', seeds' # {} PROVE Breadth'
  <2>1. Breadth
    BY <1>1, <1>9 DEF DepthInv
  <2>2. a \in visited /\ c = depth[a] /\ c \in Nat /\ c # NoDepth /\ NextDepth = c + 1
    BY <1>1, <1>3, <2>1 DEF Breadth, OrderInv, LayerInv, Measured, NextDepth
  <2>3. \A q \in visited : depth[q] <= c /\ depth[q] \in Nat
    BY <1>1, <1>3, <2>1 DEF Breadth, OrderInv
  <2>4. t \notin visited => c + 1 < NoDepth
    BY <2>1, <2>2, Room DEF Breadth
  <2> HIDE DEF a, c
  <2>5. depth'[t] = IF depth[t] <= c + 1 THEN depth[t] ELSE c + 1
    BY <1>4, <2>2 DEF Shortest
  <2>6. \A q \in visited : depth'[q] = depth[q]
    BY <1>3, <1>4, <2>2, <2>3, <2>5
  <2>7. Measured(t) /\ t \in Counted => depth[t] <= c + 1
    <3> SUFFICES ASSUME Measured(t), t \in Counted, t # Root PROVE depth[t] <= c + 1
      BY <2>1, <2>2 DEF Breadth, RouteInv
    <3>1. PICK q \in visited : depth[t] = depth[q] + 1
      BY <2>1 DEF Breadth, RouteInv
    <3> QED
      BY <2>2, <2>3, <3>1
  <2>8. /\ depth'[t] <= depth[t] /\ depth'[t] <= c + 1 /\ depth'[t] \in Nat
        /\ \A p \in Pages : depth'[p] <= depth[p] /\ depth'[p] \in Nat
    BY <1>3, <1>4, <2>2, <2>5
  <2>9. Measured(t)'
    BY <1>3, <2>1, <2>2, <2>4, <2>6, <2>8 DEF Breadth, LayerInv, Measured
  <2>10. t \in Counted \ visited =>
           IF Measured(t) THEN depth'[t] = depth[t] ELSE depth'[t] = c + 1
    BY <1>3, <2>2, <2>4, <2>5, <2>7 DEF Measured
  <2>11. OldInv'
    BY <1>1, <2>1 DEF Breadth, OldInv
  <2>12. LayerInv'
    BY <1>1, <2>1, <2>6 DEF Breadth, LayerInv, Measured
  <2>13. RouteInv'
    <3>1. depth'[Root] = 0
      BY <1>3, <1>4, <2>1, <2>2, <2>5, Constants DEF Breadth, RouteInv
    <3> SUFFICES ASSUME NEW p \in Counted \ {Root}, Measured(p)'
        PROVE  \E q \in visited : p \in sources[q] /\ depth'[p] = depth'[q] + 1
      BY <1>1, <1>3, <3>1 DEF RouteInv
    <3>2. CASE p = t /\ t \notin visited /\ ~ Measured(t)
      BY <1>1, <2>2, <2>6, <2>10, <3>2 DEF DepthInv, RowsInv, a
    <3>3. CASE ~ (p = t /\ t \notin visited /\ ~ Measured(t))
      <4>1. depth'[p] = depth[p] /\ Measured(p)
        BY <1>3, <1>4, <2>1, <2>6, <2>10, <3>3 DEF Measured, Breadth, LayerInv
      <4>2. PICK q \in visited : p \in sources[q] /\ depth[p] = depth[q] + 1
        BY <2>1, <4>1 DEF Breadth, RouteInv
      <4> QED
        BY <2>6, <4>1, <4>2
    <3> QED
      BY <3>2, <3>3
  <2>14. RelaxedInv'
    <3> SUFFICES ASSUME NEW q \in visited, NEW p \in sources[q] \cap Counted
        PROVE  \/ depth'[p] <= depth[q] + 1
               \/ Unfollowed(q, p)'
               \/ p \in Variants \ frontier' /\ variants' >= MaxVariants
      BY <1>1, <1>3, <2>6 DEF RelaxedInv
    <3>1. depth'[p] <= depth[p] /\ depth[p] \in Nat /\ depth'[p] \in Nat /\ depth[q] \in Nat
      BY <1>3, <2>3, <2>8
    <3>2. CASE depth[p] <= depth[q] + 1
      BY <3>1, <3>2
    <3>3. CASE Unfollowed(q, p)
      <4>1. q = a /\ p \in todo
        BY <3>3 DEF Unfollowed, a
      <4>2. p = t => depth'[p] <= depth[q] + 1
        BY <2>2, <2>8, <4>1
      <4>3. p # t => Unfollowed(q, p)'
        BY <1>1, <3>3 DEF Unfollowed
      <4> QED
        BY <4>2, <4>3
    <3>4. CASE p \in Variants \ frontier /\ variants >= MaxVariants
      <4>1. p # t
        BY <1>1, <3>4 DEF TooManyVariants
      <4>2. variants' >= MaxVariants
        BY <1>3, <3>4, ConstantsAssumption
      <4> QED
        BY <1>1, <3>4, <4>1, <4>2
    <3> QED
      BY <2>1, <3>2, <3>3, <3>4 DEF Breadth, RelaxedInv
  <2>15. OrderInv'
    <3>1. ASSUME NEW q \in visited, NEW p \in Counted \ visited PROVE depth[q] <= depth'[p]
      <4>1. depth[q] <= depth[p]
        BY <2>1 DEF Breadth, OrderInv
      <4> QED
        BY <1>3, <1>4, <2>2, <2>3, <2>10, <4>1
    <3>2. cur.page \in visited /\ cur.depth = depth'[cur.page]
          /\ \A q \in visited : depth'[q] <= cur.depth
      BY <2>2, <2>3, <2>6 DEF a, c
    <3> QED
      BY <1>1, <1>3, <2>6, <3>1, <3>2 DEF OrderInv
  <2>16. QueueInv'
    <3>1. ASSUME NEW e \in pending', e.page \in Counted
          PROVE  e.page \notin visited /\ e.depth = depth'[e.page] /\ Measured(e.page)'
      <4>1. CASE e \in pending
        <5>1. e.page \notin visited /\ e.depth = depth[e.page] /\ Measured(e.page)
          BY <1>1, <2>1, <3>1, <4>1 DEF Breadth, QueueInv, Running
        <5> QED
          BY <1>3, <1>4, <2>10, <3>1, <5>1 DEF Measured
      <4>2. CASE e \notin pending
        <5>1. e = new /\ t \in Counted \ visited /\ ~ IsPending(t)
          BY <1>2, <1>5, <3>1, <4>2
        <5>2. ~ Measured(t)
          BY <1>1, <2>1, <5>1 DEF Breadth, QueueInv, Running
        <5> QED
          BY <1>2, <2>2, <2>9, <2>10, <5>1, <5>2
      <4> QED
        BY <4>1, <4>2
    <3>2. ASSUME NEW p \in Counted, Measured(p)' PROVE p \in visited \/ IsPending(p)'
      <4>1. CASE p = t
        BY <1>6, <4>1
      <4>2. CASE p # t
        <5>1. Measured(p)
          BY <1>3, <1>4, <3>2, <4>2 DEF Measured
        <5> QED
          BY <1>1, <1>5, <2>1, <5>1 DEF Breadth, QueueInv, Running, IsPending
      <4> QED
        BY <4>1, <4>2
    <3> QED
      BY <1>1, <1>3, <3>1, <3>2 DEF QueueInv
  <2>17. FoundInv'
    <3> SUFFICES ASSUME NEW p \in (active \cap Html) \ (Variants \cup Alternates), p # t
        PROVE  Measured(p)' \/ (pc = "follow" /\ p \in todo')
      BY <1>1, <2>9 DEF FoundInv
    <3> QED
      BY <1>1, <1>3, <1>4, <2>1 DEF Breadth, FoundInv, Measured
  <2> QED
    BY <2>11, <2>12, <2>13, <2>14, <2>15, <2>16, <2>17 DEF Breadth
<1> QED
  BY <1>7, <1>8, <1>9 DEF DepthInv

\* The links of a page are done, or the loop is.
LEMMA EndDepth ==
    ASSUME Inv, DepthInv, CommitLinks \/ Finish \/ UNCHANGED vars, FirstCrawl' => FirstCrawl
    PROVE  DepthInv'
<1>1. UNCHANGED <<active, sources, snapshots, depth, pending, visited, frontier, variants, cur,
                  todo, seeds, stops, lost>>
  BY DEF CommitLinks, Finish, vars, rows, local, past
<1>2. \/ pc = "follow" /\ todo = {} /\ pc' = "loop" /\ stored' = depth
      \/ pc = "loop" /\ pc' = "done" /\ UNCHANGED stored
      \/ UNCHANGED <<pc, stored>>
  BY DEF CommitLinks, Finish, vars, rows
<1>3. RowsInv' /\ BeginInv' /\ UNCHANGED Counted
  BY <1>1, <1>2 DEF DepthInv, RowsInv, BeginInv, Counted
<1>4. ASSUME FirstCrawl', seeds' # {} PROVE Breadth'
  <2>1. Breadth
    BY <1>1, <1>4 DEF DepthInv
  <2>2. OldInv' /\ LayerInv' /\ RouteInv' /\ OrderInv'
    BY <1>1, <1>2, <1>3, <2>1 DEF Breadth, OldInv, LayerInv, RouteInv, OrderInv, Measured
  <2>3. QueueInv'
    BY <1>1, <1>2, <1>3, <2>1 DEF Breadth, QueueInv, Measured, Running, IsPending
  <2>4. RelaxedInv' /\ FoundInv'
    BY <1>1, <1>2, <1>3, <2>1 DEF Breadth, RelaxedInv, Unfollowed, FoundInv, Measured
  <2> QED
    BY <2>1, <2>2, <2>3, <2>4 DEF Breadth
<1> QED
  BY <1>3, <1>4 DEF DepthInv

-----------------------------------------------------------------------------
(* Routes: the layers exist, and a route of n links is what they say *)

\* One link further.
Beyond(edges, S) == S \cup UNION {edges[p] : p \in S}

\* The first n layers.
Layers(edges, n) ==
    {g \in [0 .. n -> SUBSET Pages] :
        g[0] = {Root} /\ \A k \in 0 .. n : k # 0 => g[k] = Beyond(edges, g[k - 1])}

LEMMA LayersExist ==
    ASSUME NEW edges \in Links, NEW n \in Nat
    PROVE  Layers(edges, n) # {}
<1> DEFINE None == {m \in Nat : Layers(edges, m) = {}}
<1> SUFFICES ASSUME None # {} PROVE FALSE
  OBVIOUS
<1>1. PICK m \in None : \A k \in None : m <= k
  <2>1. None \in SUBSET Nat
    OBVIOUS
  <2> HIDE DEF None
  <2> QED
    BY <2>1, Smallest
<1>2. m \in Nat /\ Layers(edges, m) = {}
  BY <1>1
<1>3. CASE m = 0
  <2> DEFINE g == [k \in 0 .. 0 |-> {Root}]
  <2>1. g \in [0 .. 0 -> SUBSET Pages] /\ \A k \in 0 .. 0 : k = 0 /\ g[k] = {Root}
    BY Constants
  <2> HIDE DEF g
  <2>2. g \in Layers(edges, m)
    BY <1>3, <2>1 DEF Layers
  <2> QED
    BY <1>2, <2>2
<1>4. CASE m # 0
  <2>1. m - 1 \in Nat /\ m - 1 \notin None
    BY <1>1, <1>2, <1>4
  <2>2. PICK g : g \in Layers(edges, m - 1)
    BY <2>1
  <2>3. /\ g \in [0 .. m - 1 -> SUBSET Pages] /\ g[0] = {Root}
        /\ \A k \in 0 .. m - 1 : k # 0 => g[k] = Beyond(edges, g[k - 1])
    BY <2>2 DEF Layers
  <2>4. PICK top : top = Beyond(edges, g[m - 1])
    OBVIOUS
  <2>5. top \in SUBSET Pages
    BY <2>1, <2>3, <2>4 DEF Beyond, Links
  <2> DEFINE h == [k \in 0 .. m |-> IF k = m THEN top ELSE g[k]]
  <2>6. h \in [0 .. m -> SUBSET Pages] /\ h[m] = top /\ \A k \in 0 .. m - 1 : h[k] = g[k]
    BY <1>2, <2>1, <2>3, <2>5
  <2> HIDE DEF h
  <2>7. ASSUME NEW k \in 0 .. m, k # 0 PROVE h[k] = Beyond(edges, h[k - 1])
    <3>1. k - 1 \in 0 .. m - 1 /\ h[k - 1] = g[k - 1]
      BY <1>2, <2>6, <2>7
    <3>2. CASE k = m
      BY <2>4, <2>6, <3>1, <3>2
    <3>3. CASE k # m
      BY <1>2, <2>3, <2>6, <2>7, <3>1, <3>3
    <3> QED
      BY <3>2, <3>3
  <2>8. h[0] = {Root}
    BY <1>2, <1>4, <2>1, <2>3, <2>6
  <2>9. h \in Layers(edges, m)
    BY <2>6, <2>7, <2>8 DEF Layers
  <2> QED
    BY <1>2, <2>9
<1> QED
  BY <1>3, <1>4

LEMMA LayersAgree ==
    ASSUME NEW edges \in Links, NEW n \in Nat, NEW m \in Nat,
           NEW g \in Layers(edges, n), NEW h \in Layers(edges, m)
    PROVE  \A k \in Nat : k <= n /\ k <= m => g[k] = h[k]
<1> DEFINE Other == {k \in Nat : k <= n /\ k <= m /\ g[k] # h[k]}
<1> SUFFICES ASSUME Other # {} PROVE FALSE
  OBVIOUS
<1>1. PICK k \in Other : \A j \in Other : k <= j
  <2>1. Other \in SUBSET Nat
    OBVIOUS
  <2> HIDE DEF Other
  <2> QED
    BY <2>1, Smallest
<1>2. k \in Nat /\ k <= n /\ k <= m /\ g[k] # h[k] /\ k \in 0 .. n /\ k \in 0 .. m
  BY <1>1
<1>3. k # 0
  BY <1>2 DEF Layers
<1>4. g[k - 1] = h[k - 1]
  BY <1>1, <1>2, <1>3
<1> QED
  BY <1>2, <1>3, <1>4 DEF Layers

LEMMA WithinSteps ==
    ASSUME NEW edges \in Links
    PROVE  /\ Within(edges, 0) = {Root}
           /\ \A n \in Nat : Within(edges, n + 1) = Beyond(edges, Within(edges, n))
<1> DEFINE top(n) == (CHOOSE g : g \in Layers(edges, n))[n]
           rule(f) == [k \in Nat |-> IF k = 0 THEN {Root}
                                     ELSE f[k - 1] \cup UNION {edges[p] : p \in f[k - 1]}]
           given == [k \in Nat |-> top(k)]
           layer == CHOOSE f : f = rule(f)
<1>1. \A n \in Nat : (CHOOSE g : g \in Layers(edges, n)) \in Layers(edges, n)
  BY LayersExist
<1>2. top(0) = {Root}
  BY <1>1 DEF Layers
<1>3. ASSUME NEW n \in Nat, n # 0 PROVE top(n) = Beyond(edges, top(n - 1))
  <2>1. PICK g \in Layers(edges, n) : g = (CHOOSE f : f \in Layers(edges, n))
    BY <1>1
  <2>2. PICK h \in Layers(edges, n - 1) : h = (CHOOSE f : f \in Layers(edges, n - 1))
    BY <1>1, <1>3
  <2>3. g[n] = Beyond(edges, g[n - 1])
    BY <1>3 DEF Layers
  <2>4. n - 1 \in Nat /\ n - 1 <= n /\ n - 1 <= n - 1
    BY <1>3
  <2>5. g[n - 1] = h[n - 1]
    BY <2>4, LayersAgree
  <2> QED
    BY <2>1, <2>2, <2>3, <2>5
<1> HIDE DEF top
<1>4. given = rule(given)
  <2>1. ASSUME NEW k \in Nat
        PROVE  given[k] = IF k = 0 THEN {Root}
                          ELSE given[k - 1] \cup UNION {edges[p] : p \in given[k - 1]}
    <3>1. CASE k = 0
      BY <1>2, <3>1
    <3>2. CASE k # 0
      <4>1. k - 1 \in Nat /\ given[k - 1] = top(k - 1) /\ given[k] = top(k)
        BY <3>2
      <4> HIDE DEF given
      <4> QED
        BY <1>3, <3>2, <4>1 DEF Beyond
    <3> QED
      BY <3>1, <3>2
  <2> QED
    BY <2>1
<1>5. layer = rule(layer)
  <2> HIDE DEF given, rule
  <2> QED
    BY <1>4
<1>6. \A n : Within(edges, n) = layer[n]
  BY DEF Within
<1>7. layer[0] = {Root} /\ \A n \in Nat : layer[n + 1] = Beyond(edges, layer[n])
  <2>1. \A k \in Nat : layer[k] = IF k = 0 THEN {Root}
                                  ELSE layer[k - 1] \cup UNION {edges[p] : p \in layer[k - 1]}
    <3>1. PICK f : f = layer
      OBVIOUS
    <3>2. f = rule(f)
      BY <1>5, <3>1
    <3> HIDE DEF layer
    <3> QED
      BY <3>1, <3>2
  <2> HIDE DEF layer
  <2>2. ASSUME NEW n \in Nat PROVE n + 1 \in Nat /\ n + 1 # 0 /\ (n + 1) - 1 = n
    OBVIOUS
  <2>3. ASSUME NEW n \in Nat PROVE layer[n + 1] = Beyond(edges, layer[n])
    <3>1. layer[n + 1] = layer[(n + 1) - 1] \cup UNION {edges[p] : p \in layer[(n + 1) - 1]}
      BY <2>1, <2>2
    <3> QED
      BY <2>2, <3>1 DEF Beyond
  <2> QED
    BY <2>1, <2>3
<1> QED
  BY <1>6, <1>7

\* A page is within n links of the base URL when its depth is at most n.
LEMMA WithinDepth ==
    ASSUME Inv, RowsInv, BeginInv, Breadth, FirstCrawl, seeds # {}, pc = "done"
    PROVE  \A n \in Nat : \A p \in visited : p \in Within(sources, n) <=> depth[p] <= n
<1> DEFINE W(n) == Within(sources, n)
           Right(n) == \A p \in visited : p \in W(n) <=> depth[p] <= n
           Wrong == {n \in Nat : ~ Right(n)}
<1>1. /\ sources \in Links /\ visited \subseteq Counted /\ Html \subseteq Pages
      /\ visited \subseteq Html
      /\ \A p \in Pages : depth[p] \in Nat
  BY Constants DEF Inv, TypeOK, Depths, FirstCrawl, Counted
<1>2. W(0) = {Root} /\ \A n \in Nat : W(n + 1) = Beyond(sources, W(n))
  BY <1>1, WithinSteps
<1> SUFFICES ASSUME Wrong # {} PROVE FALSE
  OBVIOUS
<1>3. PICK m \in Wrong : \A k \in Wrong : m <= k
  <2>1. Wrong \in SUBSET Nat
    OBVIOUS
  <2> HIDE DEF Wrong
  <2> QED
    BY <2>1, Smallest
<1>4. m \in Nat /\ ~ Right(m)
  BY <1>3
<1>5. \A n \in Nat : n < m => Right(n)
  BY <1>3, <1>4
<1>6. Root \in W(m)
  <2> DEFINE Lost == {n \in Nat : Root \notin W(n)}
  <2> SUFFICES ASSUME Lost # {} PROVE FALSE
    BY <1>4
  <2>1. PICK n \in Lost : \A k \in Lost : n <= k
    <3>1. Lost \in SUBSET Nat
      OBVIOUS
    <3> HIDE DEF Lost
    <3> QED
      BY <3>1, Smallest
  <2>2. n \in Nat /\ Root \notin W(n) /\ n # 0
    BY <1>2, <2>1
  <2>3. n - 1 \in Nat /\ (n - 1) + 1 = n /\ Root \in W(n - 1)
    BY <2>1, <2>2
  <2>4. W(n) = Beyond(sources, W(n - 1))
    BY <1>2, <2>3
  <2> QED
    BY <2>2, <2>3, <2>4 DEF Beyond
<1> HIDE DEF W
<1>7. \A p \in visited : depth[p] <= m => p \in W(m)
  <2> SUFFICES ASSUME NEW p \in visited, depth[p] <= m, p # Root PROVE p \in W(m)
    BY <1>6
  <2>1. PICK q \in visited : p \in sources[q] /\ depth[p] = depth[q] + 1
    BY <1>1 DEF Breadth, RouteInv, LayerInv
  <2>2. depth[q] \in Nat /\ depth[q] <= m - 1 /\ m - 1 \in Nat /\ (m - 1) + 1 = m
    BY <1>1, <1>4, <2>1
  <2>3. q \in W(m - 1)
    BY <1>5, <2>1, <2>2
  <2>4. W(m) = Beyond(sources, W(m - 1))
    BY <1>2, <2>2
  <2> QED
    BY <2>1, <2>3, <2>4 DEF Beyond
<1>8. \A p \in visited : p \in W(m) => depth[p] <= m
  <2> SUFFICES ASSUME NEW p \in visited, p \in W(m), p # Root PROVE depth[p] <= m
    BY <1>4 DEF Breadth, RouteInv
  <2>1. m # 0 /\ m - 1 \in Nat /\ (m - 1) + 1 = m /\ m - 1 < m
    BY <1>2, <1>4
  <2>2. W(m) = Beyond(sources, W(m - 1)) /\ Right(m - 1)
    BY <1>2, <1>5, <2>1
  <2>3. depth[p] \in Nat
    BY <1>1
  <2>4. CASE p \in W(m - 1)
    BY <1>4, <2>2, <2>3, <2>4
  <2>5. CASE \E q \in W(m - 1) : p \in sources[q]
    <3>1. PICK q \in W(m - 1) : p \in sources[q]
      BY <2>5
    <3>2. CASE q \in visited
      <4>1. depth[q] \in Nat /\ depth[q] <= m - 1
        BY <1>1, <2>2, <3>2
      <4>2. depth[p] <= depth[q] + 1
        BY <1>1, <3>1, <3>2 DEF Breadth, RelaxedInv, Unfollowed, RowsInv
      <4> QED
        BY <1>4, <2>3, <4>1, <4>2
    <3>3. CASE q \notin visited
      <4>1. q \in Pages
        <5>1. \A n \in Nat : W(n) \subseteq Pages
          <6> DEFINE Out == {n \in Nat : ~ (W(n) \subseteq Pages)}
          <6> SUFFICES ASSUME Out # {} PROVE FALSE
            OBVIOUS
          <6>1. PICK n \in Out : \A k \in Out : n <= k
            <7>1. Out \in SUBSET Nat
              OBVIOUS
            <7> HIDE DEF Out
            <7> QED
              BY <7>1, Smallest
          <6>2. n \in Nat /\ ~ (W(n) \subseteq Pages) /\ n # 0
            BY <1>2, <6>1, Constants
          <6>3. n - 1 \in Nat /\ (n - 1) + 1 = n /\ W(n - 1) \subseteq Pages
            BY <6>1, <6>2
          <6>4. W(n) = Beyond(sources, W(n - 1))
            BY <1>2, <6>3
          <6> QED
            BY <1>1, <6>2, <6>3, <6>4 DEF Beyond, Links
        <5> QED
          BY <2>1, <3>1, <5>1
      <4>2. p \in Html /\ p \in frontier
        BY <1>1 DEF RowsInv
      <4> QED
        BY <3>1, <3>3, <4>1, <4>2 DEF Breadth, OldInv, RowsInv
    <3> QED
      BY <3>2, <3>3
  <2> QED
    BY <2>2, <2>4, <2>5 DEF Beyond
<1> QED
  BY <1>4, <1>7, <1>8

\* The depth that is stored for a visited page is the length of its shortest route.
LEMMA DepthIsDistance ==
    ASSUME Inv, DepthInv
    PROVE  FirstCrawlDepth
<1> SUFFICES ASSUME pc = "done", seeds = {Root}, FirstCrawl, NEW p \in visited
    PROVE  stored[p] = Distance(sources, p)
  BY DEF FirstCrawlDepth, FirstCrawl
<1>1. \A n \in Nat : p \in Within(sources, n) <=> depth[p] <= n
  BY WithinDepth DEF DepthInv
<1>2. stored = depth /\ p \in Pages
  BY Constants DEF DepthInv, RowsInv, Inv, TypeOK
<1>3. depth[p] \in Depths /\ Depths = 0 .. NoDepth /\ NoDepth \in Nat
  BY <1>2, Constants DEF Inv, TypeOK, Depths
<1> DEFINE Nearest(n) ==
             /\ p \in Within(sources, n)
             /\ \A k \in 0 .. n : p \in Within(sources, k) => k = n
<1>4. Nearest(depth[p])
  BY <1>1, <1>3
<1>5. \A n \in Depths : Nearest(n) => n = depth[p]
  BY <1>1, <1>3
<1>6. Distance(sources, p) = CHOOSE n \in Depths : Nearest(n)
  BY <1>3, <1>4 DEF Distance
<1> HIDE DEF Nearest
<1> QED
  BY <1>2, <1>3, <1>4, <1>5, <1>6

-----------------------------------------------------------------------------
LEMMA DepthStep ==
    ASSUME Inv, DepthInv, [Next]_vars
    PROVE  DepthInv'
<1>1. FirstCrawl' => FirstCrawl
  BY StillFirst
<1>2. CASE ImportSitemaps \/ ImportFails \/ ResumeRun \/ Pause \/ Crash
  BY <1>1, <1>2, EdgeDepth
<1>3. CASE Seed
  BY <1>1, <1>3, SeedDepth
<1>4. CASE FetchNext
  BY <1>1, <1>4, FetchDepthStep
<1>5. CASE \E t \in Pages : SkipVariant(t) \/ AuditAsset(t)
  BY <1>1, <1>5, PassDepth
<1>6. CASE \E t \in Pages : FollowPage(t)
  BY <1>1, <1>6, FollowDepth
<1>7. CASE CommitLinks \/ Finish \/ UNCHANGED vars
  BY <1>1, <1>7, EndDepth
<1> QED
  BY <1>2, <1>3, <1>4, <1>5, <1>6, <1>7 DEF Next, CrawlStep

\* A first crawl stores the shortest route of every page it checks, whatever the
\* website looks like, wherever max_urls ends the run and however often it is
\* paused, unless a resumed run checks a variant or an alternate.
THEOREM ShortestRoutes == Spec => []FirstCrawlDepth
<1>1. Inv /\ DepthInv /\ [Next]_vars => DepthInv'
  BY DepthStep
<1>2. Inv /\ DepthInv => FirstCrawlDepth
  BY DepthIsDistance
<1> QED
  BY InitDepth, InvHolds, <1>1, <1>2, PTL DEF Spec
=============================================================================
