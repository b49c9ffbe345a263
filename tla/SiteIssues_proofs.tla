-------------------------- MODULE SiteIssues_proofs --------------------------
(***************************************************************************)
(* Proof, for any website, setting of max_urls and number of crawls, stops *)
(* and resumes, that the changes of a page are those between two crawls,   *)
(* and that what is open after a complete crawl was seen by it.            *)
(*                                                                         *)
(* The snapshots of a page are numbered by their runs (RunsRise) because   *)
(* the frontier never has a page that this run has stored already          *)
(* (Waiting), also when a resumed run makes it anew from the rows.  So the *)
(* newest other snapshot is the one just before, and what was compared     *)
(* with it stays beside the two (Compared).                                *)
(*                                                                         *)
(* An open issue of what a crawl has stored has an occurrence of it, or an *)
(* analysis still to come looks for it (SettledInv): every report settles  *)
(* what it checked (ReconcileFacts), and every page that was ever stored   *)
(* is stored by the crawl or waits for it (QueueInv).                      *)
(*                                                                         *)
(* A group of issues covers what its members say: the analysis that makes  *)
(* it reads rows that earlier ones have left, and no later one touches the *)
(* group or a member (GroupInv); an occurrence of the crawl is the last of *)
(* its row (LatestInv).                                                    *)
(*                                                                         *)
(* Of what was open when a crawl began, one report finds an issue missing, *)
(* and none that is still due looks for it again (OnceInv): no two reports *)
(* of a page and no two analyses look for the same issue, but for the      *)
(* types that CheckedTwice names.                                          *)
(***************************************************************************)
EXTENDS SiteIssues, FiniteSetTheorems, SequenceTheorems, WellFoundedInduction, TLAPS

Reasons == {"robots", "redirect_loop"} \cup {Answer[v].error : v \in Version}
Shot == [run : Nat, final : Pages, end : Version, hops : Nat, error : Reasons]

UrlRow == [status : {0} \cup {Answer[v].status : v \in Version}, final : Pages \cup {0},
           indexable : BOOLEAN, depth : 0 .. NoDepth]

Entry == [page : Pages, depth : Nat]

Job == [phase : {"idle", "pages", "analyses", "stopped", "recalculating"}, source : Nat,
        max : Maxima \cup {0}, pending : Seq(Entry), visited : SUBSET Pages,
        resumed : BOOLEAN, pass : Nat]

Website == [answers : [Pages -> Version], may : [Pages -> SUBSET Version],
            sitemap : SUBSET Pages, sitemaps : SUBSET SUBSET Pages,
            bounds : [{"crawls", "changes", "decisions", "recalculations", "stops"} -> Nat]]

Typed ==
    /\ world \in Website
    /\ known \subseteq Pages /\ sources \in [Pages -> SUBSET known]
    /\ row \in [Pages -> UrlRow]
    /\ shots \in [Pages -> Seq(Shot)]
    /\ runs \in Seq({"running", "stopped", "succeeded", "partially_succeeded"})
    /\ job \in Job

HasShot(p, n) == \E i \in DOMAIN shots[p] : shots[p][i].run = n

\* A run stores a page once, and runs come one after the other.
RunsRise ==
    \A p \in Pages :
        /\ shots[p] # <<>> => p \in known
        /\ \A i \in DOMAIN shots[p] : shots[p][i].run <= Run
        /\ \A i, j \in DOMAIN shots[p] : i < j => shots[p][i].run < shots[p][j].run

\* The frontier has each page once, and none that this run has stored.
Waiting ==
    job.phase = "pages" =>
        /\ \A i \in DOMAIN job.pending :
             LET p == job.pending[i].page
             IN  p \in known /\ Url[p].html /\ ~ HasShot(p, Run)
        /\ \A i, j \in DOMAIN job.pending : job.pending[i].page = job.pending[j].page => i = j
        /\ \A p \in Pages : Url[p].html /\ HasShot(p, Run) => p \in job.visited

\* The snapshot before the i-th of a page, if there is one.
Before(p, i) == IF i = 1 THEN <<>> ELSE <<shots[p][i - 1]>>

Compared ==
    \A p \in Pages :
        /\ \A n, t : <<p, n, t>> \in changes => HasShot(p, n)
        /\ Url[p].html => \A i \in DOMAIN shots[p] : Fetched(shots[p][i]) =>
              \A t : <<p, shots[p][i].run, t>> \in changes
                     <=> t \in DetectedChanges(p, shots[p][i], Before(p, i))

Inv == Typed /\ RunsRise /\ Waiting /\ Compared

-----------------------------------------------------------------------------
(* What the operators of the model return *)

LEMMA Constants == NoDepth \in Nat /\ Worlds \subseteq Website
BY SitesAssumption, FS_CardinalityType DEF NoDepth, Website

\* Every nonempty set of numbers has a smallest one.
LEMMA Smallest ==
    ASSUME NEW S \in SUBSET Nat, S # {}
    PROVE  \E n \in S : \A m \in S : n <= m
<1>1. PICK n \in S : \A m \in S : ~ (<<m, n>> \in OpToRel(<, Nat))
  BY NatLessThanWellFounded, WFMin
<1>2. \A m \in S : ~ (m < n)
  BY <1>1 DEF OpToRel
<1> QED
  BY <1>2

LEMMA FewerMembers ==
    ASSUME NEW S, IsFiniteSet(S), NEW T, T \subseteq S, NEW x \in S, x \notin T
    PROVE  IsFiniteSet(T) /\ Cardinality(T) \in Nat /\ Cardinality(T) < Cardinality(S)
<1>1. T \in SUBSET S /\ T # S
  OBVIOUS
<1>2. IsFiniteSet(T) /\ Cardinality(T) <= Cardinality(S) /\ Cardinality(T) # Cardinality(S)
  BY <1>1, FS_Subset
<1>3. Cardinality(T) \in Nat /\ Cardinality(S) \in Nat
  BY <1>2, FS_CardinalityType
<1> QED
  BY <1>2, <1>3

\* The rank of a page among others is the number of smaller ones.
LEMMA RankExists ==
    ASSUME NEW pages \in SUBSET Pages, NEW k \in 0 .. Cardinality(pages) - 1
    PROVE  \E p \in pages : Cardinality({q \in pages : q < p}) = k
<1> DEFINE n == Cardinality(pages)
           smaller(p) == {q \in pages : q < p}
           rank == [p \in pages |-> Cardinality(smaller(p))]
<1>1. IsFiniteSet(pages) /\ pages \subseteq Nat /\ n \in Nat
  BY SitesAssumption, FS_Subset, FS_CardinalityType
<1>2. \A p, r \in pages : /\ smaller(p) \subseteq pages /\ p \notin smaller(p)
                          /\ p < r => smaller(p) \subseteq smaller(r) /\ p \in smaller(r)
                          /\ p < r \/ r < p \/ p = r
  <2> SUFFICES ASSUME NEW p \in pages, NEW r \in pages
               PROVE  /\ smaller(p) \subseteq pages /\ p \notin smaller(p)
                      /\ p < r => smaller(p) \subseteq smaller(r) /\ p \in smaller(r)
                      /\ p < r \/ r < p \/ p = r
    OBVIOUS
  <2>1. p \in Nat /\ r \in Nat /\ \A q \in pages : q \in Nat
    BY <1>1
  <2>2. smaller(p) \subseteq pages /\ p \notin smaller(p)
    BY <2>1
  <2>3. ASSUME p < r PROVE smaller(p) \subseteq smaller(r) /\ p \in smaller(r)
    <3>1. \A q \in pages : q < p => q < r
      BY <2>1, <2>3
    <3>2. smaller(p) \subseteq smaller(r)
      BY <3>1
    <3> QED
      BY <2>3, <3>2
  <2> QED
    BY <2>1, <2>2, <2>3
<1> HIDE DEF smaller
<1>3. \A p \in pages : IsFiniteSet(smaller(p)) /\ Cardinality(smaller(p)) \in Nat
                       /\ Cardinality(smaller(p)) < n
  <2> HIDE DEF n
  <2> SUFFICES ASSUME NEW p \in pages
               PROVE  IsFiniteSet(smaller(p)) /\ Cardinality(smaller(p)) \in Nat
                      /\ Cardinality(smaller(p)) < n
    OBVIOUS
  <2> QED
    BY <1>1, <1>2, FewerMembers DEF n
<1>4. ASSUME NEW p \in pages, NEW r \in pages, p < r
      PROVE  Cardinality(smaller(p)) < Cardinality(smaller(r))
  BY <1>2, <1>3, <1>4, FewerMembers
<1>5. rank \in [pages -> 0 .. n - 1]
  BY <1>1, <1>3
<1>6. \A p, r \in pages : rank[p] = rank[r] => p = r
  <2> SUFFICES ASSUME NEW p \in pages, NEW r \in pages, rank[p] = rank[r], p # r PROVE FALSE
    OBVIOUS
  <2>1. Cardinality(smaller(p)) = Cardinality(smaller(r))
    OBVIOUS
  <2> QED
    BY <1>2, <1>3, <1>4, <2>1
<1> HIDE DEF rank
<1>7. rank \in Injection(pages, 0 .. n - 1)
  BY <1>5, <1>6 DEF Injection, IsInjective
<1>8. IsFiniteSet(0 .. n - 1) /\ Cardinality(0 .. n - 1) = n
  BY <1>1, FS_Interval
<1>9. rank \in Surjection(pages, 0 .. n - 1)
  <2>1. PICK T : T = 0 .. n - 1
    OBVIOUS
  <2> QED
    BY <1>7, <1>8, <2>1, FS_Injection
<1>10. PICK p \in pages : rank[p] = k
  BY <1>9 DEF Surjection
<1>11. Cardinality(smaller(p)) = k
  BY <1>10 DEF rank
<1> QED
  BY <1>11 DEF smaller

LEMMA InOrderFacts ==
    ASSUME NEW pages \in SUBSET Pages
    PROVE  /\ InOrder(pages) \in Seq(pages)
           /\ \A i, j \in DOMAIN InOrder(pages) : InOrder(pages)[i] = InOrder(pages)[j] => i = j
           /\ \A p \in pages : \E i \in DOMAIN InOrder(pages) : InOrder(pages)[i] = p
<1> DEFINE n == Cardinality(pages)
           rank(p) == Cardinality({q \in pages : q < p})
           order == InOrder(pages)
<1>1. n \in Nat
  BY SitesAssumption, FS_Subset, FS_CardinalityType
<1>2. \A i \in 1 .. n : \E p \in pages : rank(p) = i - 1
  <2> SUFFICES ASSUME NEW i \in 1 .. n PROVE \E p \in pages : rank(p) = i - 1
    OBVIOUS
  <2>1. i - 1 \in 0 .. n - 1
    BY <1>1
  <2> QED
    BY <2>1, RankExists
<1>3. order = [i \in 1 .. n |-> CHOOSE p \in pages : rank(p) = i - 1]
  BY DEF InOrder
<1> HIDE DEF rank, order
<1>4. \A i \in 1 .. n : order[i] \in pages /\ rank(order[i]) = i - 1
  BY <1>2, <1>3
<1>5. order \in [1 .. n -> pages]
  BY <1>3, <1>4
<1>6. order \in Seq(pages) /\ DOMAIN order = 1 .. n
  BY <1>1, <1>5
<1>7. \A i, j \in 1 .. n : order[i] = order[j] => i = j
  <2> SUFFICES ASSUME NEW i \in 1 .. n, NEW j \in 1 .. n, order[i] = order[j] PROVE i = j
    OBVIOUS
  <2>1. i - 1 = j - 1
    BY <1>4
  <2> QED
    BY <1>1, <2>1
<1>8. \A p \in pages : \E i \in 1 .. n : order[i] = p
  <2>1. order \in Injection(1 .. n, pages)
    BY <1>5, <1>7 DEF Injection, IsInjective
  <2>2. IsFiniteSet(pages) /\ Cardinality(1 .. n) = n
    <3>1. IsFiniteSet(pages)
      BY SitesAssumption, FS_Subset
    <3>2. Cardinality(1 .. n) = n
      BY <1>1, FS_Interval
    <3> QED
      BY <3>1, <3>2
  <2>3. order \in Surjection(1 .. n, pages)
    <3>1. PICK S : S = 1 .. n
      OBVIOUS
    <3> QED
      BY <2>1, <2>2, <3>1, FS_Injection
  <2> QED
    BY <2>3 DEF Surjection
<1> QED
  BY <1>6, <1>7, <1>8 DEF order

\* The entries of pages in the frontier: each page once, with the depth of its row.
LEMMA EntriesFacts ==
    ASSUME NEW pages \in SUBSET Pages, NEW rows \in [Pages -> UrlRow]
    PROVE  /\ Entries(pages, rows) \in Seq(Entry)
           /\ \A i \in DOMAIN Entries(pages, rows) : Entries(pages, rows)[i].page \in pages
           /\ \A i, j \in DOMAIN Entries(pages, rows) :
                Entries(pages, rows)[i].page = Entries(pages, rows)[j].page => i = j
           /\ \A p \in pages : \E i \in DOMAIN Entries(pages, rows) : Entries(pages, rows)[i].page = p
<1> DEFINE order == InOrder(pages)
           entries == Entries(pages, rows)
<1>1. /\ order \in Seq(pages) /\ \A i, j \in DOMAIN order : order[i] = order[j] => i = j
      /\ \A p \in pages : \E i \in DOMAIN order : order[i] = p
  BY InOrderFacts
<1>2. entries = [i \in DOMAIN order |-> [page |-> order[i], depth |-> rows[order[i]].depth]]
  BY DEF Entries
<1> HIDE DEF order, entries
<1>3. DOMAIN order = 1 .. Len(order) /\ Len(order) \in Nat /\ \A i \in DOMAIN order : order[i] \in pages
  BY <1>1
<1>4. \A i \in DOMAIN order : rows[order[i]].depth \in Nat /\ order[i] \in Pages
  BY <1>3 DEF UrlRow
<1>5. \A i \in DOMAIN order : entries[i] \in Entry /\ entries[i].page = order[i]
  BY <1>2, <1>4 DEF Entry
<1>6. DOMAIN entries = 1 .. Len(order)
  BY <1>2, <1>3
<1>7. entries \in Seq(Entry)
  BY <1>3, <1>5, <1>6, <1>2
<1> QED
  BY <1>1, <1>3, <1>5, <1>6, <1>7 DEF entries

\* pending.sort finds an entry when there is one.
LEMMA NextEntryFacts ==
    ASSUME job.pending \in Seq(Entry), job.pending # <<>>
    PROVE  NextEntry \in DOMAIN job.pending
<1>1. PICK entries : entries = job.pending
  OBVIOUS
<1>2. entries \in Seq(Entry) /\ DOMAIN entries = 1 .. Len(entries) /\ Len(entries) \in Nat /\ entries # <<>>
  BY <1>1
<1>3. \A i \in DOMAIN entries : entries[i].depth \in Nat
  <2>1. \A e \in Entry : e.depth \in Nat
    BY DEF Entry
  <2> QED
    BY <1>2, <2>1
<1>4. 1 \in DOMAIN entries
  BY <1>2
<1>5. PICK least \in {entries[i].depth : i \in DOMAIN entries} :
              \A i \in DOMAIN entries : least <= entries[i].depth
  <2>1. PICK S : S = {entries[i].depth : i \in DOMAIN entries}
    OBVIOUS
  <2>2. S \in SUBSET Nat /\ S # {}
    BY <1>3, <1>4, <2>1
  <2>3. PICK n \in S : \A m \in S : n <= m
    BY <2>2, Smallest
  <2> QED
    BY <2>1, <2>3
<1>6. PICK first \in DOMAIN entries : /\ entries[first].depth = least
              /\ \A i \in DOMAIN entries : entries[i].depth = least => first <= i
  <2>1. PICK S : S = {i \in DOMAIN entries : entries[i].depth = least}
    OBVIOUS
  <2>2. S \in SUBSET Nat /\ S # {}
    BY <1>2, <1>5, <2>1
  <2>3. PICK n \in S : \A m \in S : n <= m
    BY <2>2, Smallest
  <2> QED
    BY <2>1, <2>3
<1>7. /\ \A j \in DOMAIN entries : entries[first].depth <= entries[j].depth
      /\ \A j \in 1 .. first - 1 : entries[j].depth # entries[first].depth
  <2>1. entries[first].depth = least
    BY <1>6
  <2>2. \A j \in 1 .. first - 1 : j \in DOMAIN entries /\ ~ (first <= j)
    BY <1>2
  <2>3. \A j \in 1 .. first - 1 : entries[j].depth # least
    BY <1>6, <2>2
  <2> QED
    BY <1>5, <2>1, <2>3
<1> QED
  BY <1>1, <1>6, <1>7 DEF NextEntry

LEMMA RemoveAtFacts ==
    ASSUME NEW S, NEW s \in Seq(S), NEW n \in DOMAIN s
    PROVE  /\ RemoveAt(s, n) \in Seq(S)
           /\ \A i \in DOMAIN RemoveAt(s, n) :
                /\ (IF i < n THEN i ELSE i + 1) \in DOMAIN s \ {n}
                /\ RemoveAt(s, n)[i] = s[IF i < n THEN i ELSE i + 1]
           /\ \A j \in DOMAIN s \ {n} : \E i \in DOMAIN RemoveAt(s, n) : RemoveAt(s, n)[i] = s[j]
<1> DEFINE head == SubSeq(s, 1, n - 1)
           tail == SubSeq(s, n + 1, Len(s))
<1>1. n \in 1 .. Len(s) /\ Len(s) \in Nat /\ DOMAIN s = 1 .. Len(s)
  OBVIOUS
<1>2. head \in Seq(S) /\ Len(head) = n - 1 /\ \A i \in 1 .. n - 1 : head[i] = s[i]
  BY <1>1
<1>3. tail \in Seq(S) /\ Len(tail) = Len(s) - n /\ \A i \in 1 .. Len(s) - n : tail[i] = s[n + i]
  BY <1>1
<1>4. RemoveAt(s, n) = head \o tail
  BY DEF RemoveAt
<1> HIDE DEF head, tail
<1>5. /\ head \o tail \in Seq(S) /\ Len(head \o tail) = Len(s) - 1
      /\ \A i \in 1 .. Len(s) - 1 : (head \o tail)[i] = IF i < n THEN head[i] ELSE tail[i - (n - 1)]
  <2>1. head \o tail \in Seq(S) /\ Len(head \o tail) = Len(head) + Len(tail)
        /\ \A i \in 1 .. Len(head) + Len(tail) :
             (head \o tail)[i] = IF i <= Len(head) THEN head[i] ELSE tail[i - Len(head)]
    BY <1>2, <1>3, ConcatProperties
  <2>2. n \in Nat /\ Len(head) + Len(tail) = Len(s) - 1
    BY <1>1, <1>2, <1>3
  <2>3. \A i \in 1 .. Len(s) - 1 : i <= n - 1 <=> i < n
    BY <1>1
  <2>4. ASSUME NEW i \in 1 .. Len(s) - 1
        PROVE  (head \o tail)[i] = IF i < n THEN head[i] ELSE tail[i - (n - 1)]
    <3>1. (head \o tail)[i] = IF i <= n - 1 THEN head[i] ELSE tail[i - (n - 1)]
      BY <1>2, <2>1, <2>2
    <3> QED
      BY <2>3, <3>1
  <2>5. Len(head \o tail) = Len(s) - 1
    BY <2>1, <2>2
  <2> QED
    BY <2>1, <2>4, <2>5
<1>6. \A i \in 1 .. Len(s) - 1 : (head \o tail)[i] = s[IF i < n THEN i ELSE i + 1]
  <2> SUFFICES ASSUME NEW i \in 1 .. Len(s) - 1
               PROVE  (head \o tail)[i] = s[IF i < n THEN i ELSE i + 1]
    OBVIOUS
  <2>1. CASE i < n
    BY <1>1, <1>2, <1>5, <2>1
  <2>2. CASE ~ (i < n)
    <3>1. i - (n - 1) \in 1 .. Len(s) - n /\ n + (i - (n - 1)) = i + 1
      BY <1>1, <2>2
    <3> QED
      BY <1>3, <1>5, <2>2, <3>1
  <2> QED
    BY <2>1, <2>2
<1>7. DOMAIN (head \o tail) = 1 .. Len(s) - 1
  BY <1>5
<1>8. \A i \in 1 .. Len(s) - 1 : (IF i < n THEN i ELSE i + 1) \in DOMAIN s \ {n}
  BY <1>1
<1>9. ASSUME NEW j \in DOMAIN s \ {n}
      PROVE  \E i \in 1 .. Len(s) - 1 : (IF i < n THEN i ELSE i + 1) = j
  <2>1. CASE j < n
    BY <1>1, <2>1
  <2>2. CASE ~ (j < n)
    <3>1. j - 1 \in 1 .. Len(s) - 1 /\ ~ (j - 1 < n) /\ (j - 1) + 1 = j
      BY <1>1, <2>2
    <3> QED
      BY <3>1
  <2> QED
    BY <2>1, <2>2
<1>10. ASSUME NEW j \in DOMAIN s \ {n}
       PROVE  \E i \in 1 .. Len(s) - 1 : (head \o tail)[i] = s[j]
  BY <1>6, <1>9
<1> QED
  BY <1>4, <1>5, <1>6, <1>7, <1>8, <1>10

LEMMA FetchFacts ==
    ASSUME NEW answers \in [Pages -> Version], NEW p \in Pages, NEW n \in Nat
    PROVE  Fetch(answers, p, n) \in Shot /\ Fetch(answers, p, n).run = n
<1> DEFINE end == Followed(answers, p)
<1>1. end.final \in Pages \cup {0} /\ end.hops \in Nat
  BY DEF Followed
<1>2. /\ answers[p] \in Version
      /\ end.final # 0 => end.final \in Pages /\ answers[end.final] \in Version
  BY <1>1
<1>3. Fetch(answers, p, n) \in
        {[run |-> n, final |-> p, end |-> answers[p], hops |-> 0, error |-> "robots"],
         [run |-> n, final |-> p, end |-> answers[p], hops |-> 0, error |-> "redirect_loop"]}
        \cup (IF end.final = 0 THEN {} ELSE
              {[run |-> n, final |-> end.final, end |-> answers[end.final], hops |-> end.hops,
                error |-> Answer[answers[end.final]].error]})
  BY DEF Fetch
<1> HIDE DEF end
<1> QED
  BY <1>1, <1>2, <1>3 DEF Shot, Reasons

\* What a page refers to are pages.
LEMMA ReferencedFacts ==
    ASSUME NEW p \in Pages, NEW shot \in Shot
    PROVE  /\ Referenced(p, shot) \subseteq Pages
           /\ Targets(p, shot) \subseteq Referenced(p, shot)
<1>1. Content(shot) = Answer[shot.end] /\ shot.end \in Version
  BY DEF Content, Shot
<1>2. /\ {l.to : l \in Content(shot).links} \subseteq Pages
      /\ Content(shot).media \cup Content(shot).hreflang \cup Content(shot).images \subseteq Pages
  BY <1>1, SitesAssumption
<1>3. Referenced(p, shot) \subseteq Pages
  BY <1>2 DEF Referenced
<1>4. Targets(p, shot) \subseteq Referenced(p, shot)
  BY DEF Targets, Referenced, LinksOf
<1> QED
  BY <1>3, <1>4

LEMMA StoreRowFacts ==
    ASSUME NEW rows \in [Pages -> UrlRow], NEW p \in Pages, NEW shot \in Shot
    PROVE  /\ StoreRow(rows, p, shot) \in [Pages -> UrlRow]
           /\ \A q \in Pages \ {p} : StoreRow(rows, p, shot)[q] = rows[q]
<1>1. CASE Url[p].html /\ Fetched(shot)
  <2>1. PICK r : r = rows[p]
    OBVIOUS
  <2>2. r \in UrlRow
    BY <2>1
  <2>3. PICK status : status = Content(shot).status
    OBVIOUS
  <2>4. status \in {Answer[v].status : v \in Version}
    BY <2>3 DEF Content, Shot
  <2>5. PICK final : final = shot.final
    OBVIOUS
  <2>6. final \in Pages
    BY <2>5 DEF Shot
  <2>7. PICK indexable : indexable = Indexable(p, shot)
    OBVIOUS
  <2>8. indexable \in BOOLEAN
    BY <2>7 DEF Indexable
  <2>9. StoreRow(rows, p, shot) = [rows EXCEPT ![p] = [r EXCEPT !.status = status, !.final = final,
                                                                !.indexable = indexable]]
    BY <1>1, <2>1, <2>3, <2>5, <2>7 DEF StoreRow
  <2>10. [r EXCEPT !.status = status, !.final = final, !.indexable = indexable] \in UrlRow
    BY <2>2, <2>4, <2>6, <2>8 DEF UrlRow
  <2> QED
    BY <2>9, <2>10
<1>2. CASE ~ (Url[p].html /\ Fetched(shot))
  BY <1>2 DEF StoreRow
<1> QED
  BY <1>1, <1>2

LEMMA DeeperRow ==
    ASSUME NEW r \in UrlRow, NEW d \in 0 .. NoDepth
    PROVE  [r EXCEPT !.depth = d] \in UrlRow
BY DEF UrlRow

\* The frontier after a page: what is left of it and its new targets, each once.
EachOnce(entries) ==
    \A i, j \in DOMAIN entries : entries[i].page = entries[j].page => i = j

Follows(next, pending, targets, visited) ==
    /\ next.row \in [Pages -> UrlRow]
    /\ next.pending \in Seq(Entry)
    /\ \A i \in DOMAIN next.pending :
         \/ \E j \in DOMAIN pending : next.pending[i].page = pending[j].page
         \/ next.pending[i].page \in targets \ visited
    /\ \A j \in DOMAIN pending : \E i \in DOMAIN next.pending : next.pending[i].page = pending[j].page
    /\ EachOnce(next.pending)

LEMMA FollowingsFacts ==
    ASSUME NEW rows \in [Pages -> UrlRow], NEW pending \in Seq(Entry), EachOnce(pending),
           NEW targets \in SUBSET Pages, NEW depth \in Nat, NEW visited
    PROVE  /\ Follows(Followings(rows, pending, targets, depth, visited), pending, targets, visited)
           /\ \A p \in Pages : Followings(rows, pending, targets, depth, visited).row[p].status
                             = rows[p].status
<1>0. PICK next : next = Followings(rows, pending, targets, depth, visited)
  OBVIOUS
<1> DEFINE deeper == IF depth = NoDepth THEN NoDepth ELSE depth + 1
           new == {t \in targets : t \notin visited /\ \A i \in DOMAIN pending : pending[i].page # t}
           order == InOrder(new)
           more == [i \in DOMAIN order |-> [page |-> order[i], depth |-> deeper]]
<1>1. deeper \in Nat
  BY Constants
<1>2. /\ next.row = [p \in Pages |-> IF p \in targets
                        THEN [rows[p] EXCEPT !.depth = Shallower(rows[p].depth, deeper)] ELSE rows[p]]
      /\ next.pending = pending \o more
  BY <1>0 DEF Followings
<1> HIDE DEF deeper
<1>3. next.row \in [Pages -> UrlRow]
  <2>1. ASSUME NEW p \in Pages
        PROVE  [rows[p] EXCEPT !.depth = Shallower(rows[p].depth, deeper)] \in UrlRow
    <3>1. rows[p] \in UrlRow /\ rows[p].depth \in 0 .. NoDepth
      BY DEF UrlRow
    <3>2. Shallower(rows[p].depth, deeper) \in 0 .. NoDepth
      BY <1>1, <3>1, Constants DEF Shallower
    <3> QED
      BY <3>1, <3>2, DeeperRow
  <2> QED
    BY <1>2, <2>1
<1>4. new \in SUBSET Pages
  OBVIOUS
<1>5. order \in Seq(new) /\ \A i, j \in DOMAIN order : order[i] = order[j] => i = j
  <2> HIDE DEF new
  <2> QED
    BY <1>4, InOrderFacts
<1>6. \A t \in new : t \in targets \ visited /\ \A i \in DOMAIN pending : pending[i].page # t
  OBVIOUS
<1> HIDE DEF new, order
<1>7. DOMAIN order = 1 .. Len(order) /\ Len(order) \in Nat /\ \A i \in DOMAIN order : order[i] \in new
  BY <1>5
<1>8. /\ more \in Seq(Entry) /\ Len(more) = Len(order)
      /\ \A i \in DOMAIN order : more[i].page = order[i]
  BY <1>1, <1>4, <1>7 DEF Entry
<1> HIDE DEF more
<1> DEFINE n == Len(pending)
<1>9. n \in Nat /\ DOMAIN pending = 1 .. n
  OBVIOUS
<1>10. /\ pending \o more \in Seq(Entry) /\ Len(pending \o more) = n + Len(more)
       /\ \A i \in 1 .. n + Len(more) :
             (pending \o more)[i] = IF i <= n THEN pending[i] ELSE more[i - n]
  <2>1. PICK rest \in Seq(Entry) : rest = more
    BY <1>8
  <2>2. /\ pending \o rest \in Seq(Entry) /\ Len(pending \o rest) = Len(pending) + Len(rest)
        /\ \A i \in 1 .. Len(pending) + Len(rest) :
             (pending \o rest)[i] = IF i <= Len(pending) THEN pending[i] ELSE rest[i - Len(pending)]
    BY ConcatProperties
  <2> QED
    BY <2>1, <2>2
<1>11. DOMAIN next.pending = 1 .. n + Len(order)
  BY <1>2, <1>8, <1>10
<1> HIDE DEF n
<1>12. \A i \in DOMAIN next.pending :
          \/ i \in DOMAIN pending /\ next.pending[i].page = pending[i].page
          \/ i - n \in DOMAIN order /\ next.pending[i].page = order[i - n] /\ i > n
  <2> SUFFICES ASSUME NEW i \in 1 .. n + Len(order)
               PROVE  \/ i \in DOMAIN pending /\ next.pending[i].page = pending[i].page
                      \/ i - n \in DOMAIN order /\ next.pending[i].page = order[i - n] /\ i > n
    BY <1>11
  <2>1. CASE i <= n
    BY <1>2, <1>7, <1>8, <1>9, <1>10, <2>1
  <2>2. CASE ~ (i <= n)
    <3>1. i - n \in 1 .. Len(order) /\ i > n
      BY <1>7, <1>9, <2>2
    <3>2. next.pending[i] = more[i - n]
      BY <1>2, <1>8, <1>10, <2>2
    <3> QED
      BY <1>7, <1>8, <3>1, <3>2
  <2> QED
    BY <2>1, <2>2
<1>13. \A i \in DOMAIN next.pending :
          \/ \E j \in DOMAIN pending : next.pending[i].page = pending[j].page
          \/ next.pending[i].page \in targets \ visited
  BY <1>6, <1>7, <1>12
<1>14. ASSUME NEW i \in DOMAIN next.pending, NEW j \in DOMAIN next.pending,
              next.pending[i].page = next.pending[j].page
       PROVE  i = j
  <2>1. CASE i \in DOMAIN pending /\ next.pending[i].page = pending[i].page
    <3>1. CASE j \in DOMAIN pending /\ next.pending[j].page = pending[j].page
      BY <1>14, <2>1, <3>1 DEF EachOnce
    <3>2. CASE j - n \in DOMAIN order /\ next.pending[j].page = order[j - n]
      BY <1>6, <1>7, <1>14, <2>1, <3>2
    <3> QED
      BY <1>12, <3>1, <3>2
  <2>2. CASE i - n \in DOMAIN order /\ next.pending[i].page = order[i - n]
    <3>1. CASE j \in DOMAIN pending /\ next.pending[j].page = pending[j].page
      BY <1>6, <1>7, <1>14, <2>2, <3>1
    <3>2. CASE j - n \in DOMAIN order /\ next.pending[j].page = order[j - n]
      <4>1. i - n = j - n
        BY <1>5, <1>14, <2>2, <3>2
      <4>2. i \in Int /\ j \in Int /\ n \in Int
        BY <1>7, <1>9, <1>11
      <4> QED
        BY <4>1, <4>2
    <3> QED
      BY <1>12, <3>1, <3>2
  <2> QED
    BY <1>12, <2>1, <2>2
<1>15. next.pending \in Seq(Entry)
  BY <1>2, <1>10
<1>16. ASSUME NEW j \in DOMAIN pending
       PROVE  j \in DOMAIN next.pending /\ next.pending[j].page = pending[j].page
  <2>1. j \in 1 .. n + Len(order) /\ j <= n
    BY <1>7, <1>9
  <2> QED
    BY <1>2, <1>8, <1>10, <1>11, <2>1
<1>17. \A p \in Pages : next.row[p].status = rows[p].status
  <2> SUFFICES ASSUME NEW p \in Pages PROVE next.row[p].status = rows[p].status
    OBVIOUS
  <2>1. rows[p] \in UrlRow
    OBVIOUS
  <2>2. [rows[p] EXCEPT !.depth = Shallower(rows[p].depth, deeper)].status = rows[p].status
    BY <2>1 DEF UrlRow
  <2> QED
    BY <1>2, <2>2
<1> QED
  BY <1>0, <1>3, <1>13, <1>14, <1>15, <1>16, <1>17 DEF Follows, EachOnce

-----------------------------------------------------------------------------
(* The snapshots of a step that stores pages *)

\* The snapshot before the one that is stored now is the last of the page.
LEMMA PreviousFacts ==
    ASSUME Typed, RunsRise, NEW p \in Pages, ~ HasShot(p, Run), NEW shot \in Shot, shot.run = Run
    PROVE  PreviousShot(p, shot) = IF shots[p] = <<>> THEN <<>> ELSE <<shots[p][Len(shots[p])]>>
<1> DEFINE n == Len(shots[p])
           others == OtherShots(p, shot)
<1>1. shots[p] \in Seq(Shot) /\ n \in Nat /\ DOMAIN shots[p] = 1 .. n
  BY DEF Typed
<1>2. others = 1 .. n
  BY <1>1 DEF OtherShots, HasShot
<1>3. CASE shots[p] = <<>>
  BY <1>1, <1>2, <1>3 DEF PreviousShot
<1>4. CASE shots[p] # <<>>
  <2>1. n # 0
    BY <1>1, <1>4
  <2>2. n \in 1 .. n /\ \A i \in 1 .. n : n >= i
    BY <1>1, <2>1
  <2>3. \A m \in 1 .. n : (\A i \in 1 .. n : m >= i) => m = n
    BY <1>1, <2>2
  <2> HIDE DEF n
  <2>4. Max(1 .. n) = n
    BY <2>2, <2>3 DEF Max
  <2> QED
    BY <1>2, <1>4, <2>2, <2>4 DEF PreviousShot, n
<1> QED
  BY <1>3, <1>4

Stores(added) ==
    shots' = [q \in Pages |-> IF q \in added THEN Append(shots[q], Fetch(world.answers, q, Run))
                              ELSE shots[q]]

LEMMA StoresFacts ==
    ASSUME Typed, NEW added \in SUBSET Pages, Stores(added)
    PROVE  /\ shots' \in [Pages -> Seq(Shot)]
           /\ \A q \in Pages \ added : shots'[q] = shots[q]
           /\ \A q \in added :
                /\ DOMAIN shots'[q] = 1 .. Len(shots[q]) + 1
                /\ shots'[q][Len(shots[q]) + 1] = Fetch(world.answers, q, Run)
                /\ \A i \in 1 .. Len(shots[q]) : shots'[q][i] = shots[q][i]
           /\ \A q \in Pages : DOMAIN shots[q] = 1 .. Len(shots[q]) /\ Len(shots[q]) \in Nat
           /\ \A q \in Pages : Fetch(world.answers, q, Run) \in Shot
                               /\ Fetch(world.answers, q, Run).run = Run
<1>1. Run \in Nat
  BY DEF Typed, Run
<1>2. world.answers \in [Pages -> Version]
  BY DEF Typed, Website
<1>3. \A q \in Pages : Fetch(world.answers, q, Run) \in Shot
                       /\ Fetch(world.answers, q, Run).run = Run
  BY <1>1, <1>2, FetchFacts
<1>4. \A q \in Pages : shots[q] \in Seq(Shot) /\ DOMAIN shots[q] = 1 .. Len(shots[q])
                       /\ Len(shots[q]) \in Nat
  BY DEF Typed
<1>5. ASSUME NEW q \in added
      PROVE  /\ shots'[q] \in Seq(Shot)
             /\ DOMAIN shots'[q] = 1 .. Len(shots[q]) + 1
             /\ shots'[q][Len(shots[q]) + 1] = Fetch(world.answers, q, Run)
             /\ \A i \in 1 .. Len(shots[q]) : shots'[q][i] = shots[q][i]
  <2>1. PICK shot : shot = Fetch(world.answers, q, Run)
    OBVIOUS
  <2>2. shot \in Shot /\ shots[q] \in Seq(Shot)
    BY <1>3, <1>4, <2>1
  <2>3. shots'[q] = Append(shots[q], shot)
    BY <2>1 DEF Stores
  <2> QED
    BY <2>1, <2>2, <2>3
<1>6. \A q \in Pages \ added : shots'[q] = shots[q]
  BY DEF Stores
<1>7. shots' \in [Pages -> Seq(Shot)]
  <2>1. \A q \in Pages : shots'[q] \in Seq(Shot)
    BY <1>4, <1>5, <1>6
  <2> QED
    BY <2>1 DEF Stores
<1> QED
  BY <1>3, <1>4, <1>5, <1>6, <1>7

LEMMA StoresHas ==
    ASSUME Typed, NEW added \in SUBSET Pages, Stores(added)
    PROVE  \A q \in Pages : \A n : HasShot(q, n)' <=> HasShot(q, n) \/ (q \in added /\ n = Run)
<1> SUFFICES ASSUME NEW q \in Pages, NEW n
             PROVE  HasShot(q, n)' <=> HasShot(q, n) \/ (q \in added /\ n = Run)
  OBVIOUS
<1>1. CASE q \notin added
  BY <1>1, StoresFacts DEF HasShot
<1>2. CASE q \in added
  <2>1. /\ DOMAIN shots'[q] = DOMAIN shots[q] \cup {Len(shots[q]) + 1}
        /\ shots'[q][Len(shots[q]) + 1].run = Run
        /\ \A i \in DOMAIN shots[q] : shots'[q][i] = shots[q][i]
    BY <1>2, StoresFacts
  <2> QED
    BY <1>2, <2>1 DEF HasShot
<1> QED
  BY <1>1, <1>2

LEMMA StoresRise ==
    ASSUME Typed, RunsRise, NEW added \in SUBSET Pages, Stores(added), UNCHANGED runs,
           known \subseteq known', added \subseteq known',
           \A q \in added : ~ HasShot(q, Run)
    PROVE  RunsRise'
<1>1. Run \in Nat /\ Run' = Run
  BY DEF Typed, Run
<1> SUFFICES ASSUME NEW q \in Pages
             PROVE  /\ shots'[q] # <<>> => q \in known'
                    /\ \A i \in DOMAIN shots'[q] : shots'[q][i].run <= Run
                    /\ \A i, j \in DOMAIN shots'[q] : i < j => shots'[q][i].run < shots'[q][j].run
  BY <1>1 DEF RunsRise
<1>2. CASE q \notin added
  BY <1>2, StoresFacts DEF RunsRise
<1>3. CASE q \in added
  <2> DEFINE n == Len(shots[q])
  <2>1. /\ n \in Nat /\ DOMAIN shots[q] = 1 .. n /\ DOMAIN shots'[q] = 1 .. n + 1
        /\ shots'[q][n + 1].run = Run
        /\ \A i \in 1 .. n : shots'[q][i] = shots[q][i]
    BY <1>3, StoresFacts
  <2>2. \A i \in 1 .. n : shots[q][i].run \in Nat /\ shots[q][i].run <= Run /\ shots[q][i].run # Run
    <3>1. \A i \in 1 .. n : shots[q][i] \in Shot
      BY <2>1 DEF Typed
    <3>2. \A i \in 1 .. n : shots[q][i].run \in Nat
      BY <3>1 DEF Shot
    <3> QED
      BY <1>3, <2>1, <3>2 DEF RunsRise, HasShot
  <2>3. \A i, j \in 1 .. n : i < j => shots[q][i].run < shots[q][j].run
    BY <2>1 DEF RunsRise
  <2> HIDE DEF n
  <2>4. \A i \in 1 .. n + 1 : i = n + 1 \/ i \in 1 .. n
    BY <2>1
  <2>5. \A i \in 1 .. n + 1 : shots'[q][i].run <= Run
    <3>1. \A i \in 1 .. n : shots'[q][i].run <= Run
      BY <2>1, <2>2
    <3>2. shots'[q][n + 1].run <= Run
      BY <1>1, <2>1
    <3> QED
      BY <2>4, <3>1, <3>2
  <2>6. ASSUME NEW i \in 1 .. n + 1, NEW j \in 1 .. n + 1, i < j
        PROVE  shots'[q][i].run < shots'[q][j].run
    <3>1. i \in 1 .. n
      BY <2>1, <2>6
    <3>2. CASE j \in 1 .. n
      BY <2>1, <2>3, <2>6, <3>1, <3>2
    <3>3. CASE j = n + 1
      BY <1>1, <2>1, <2>2, <3>1, <3>3
    <3> QED
      BY <2>4, <3>2, <3>3
  <2> QED
    BY <1>3, <2>1, <2>5, <2>6
<1> QED
  BY <1>2, <1>3

\* What was compared stays, and the page of the step is compared with its last snapshot.
LEMMA StoresCompared ==
    ASSUME Typed, RunsRise, Compared, NEW p \in Pages, ~ HasShot(p, Run),
           NEW added \in SUBSET Pages, Stores(added), p \in added, UNCHANGED runs,
           \A q \in added : q = p \/ ~ Url[q].html,
           NEW shot, shot = Fetch(world.answers, p, Run),
           changes' = changes \cup
               {<<p, Run, t>> : t \in ChangesSince(p, shot, PreviousShot(p, shot))}
    PROVE  Compared'
<1>0. PICK n : n = Len(shots[p])
  OBVIOUS
<1> DEFINE found == ChangesSince(p, shot, PreviousShot(p, shot))
<1>1. shot \in Shot /\ shot.run = Run /\ n \in Nat /\ DOMAIN shots[p] = 1 .. n
  BY <1>0, StoresFacts
<1>2. /\ DOMAIN shots'[p] = 1 .. n + 1 /\ shots'[p][n + 1] = shot
      /\ \A i \in 1 .. n : shots'[p][i] = shots[p][i]
  BY <1>0, StoresFacts
<1>3. PreviousShot(p, shot) = Before(p, n + 1)'
  <2>1. CASE shots[p] = <<>>
    <3>1. n = 0 /\ PreviousShot(p, shot) = <<>>
      BY <1>0, <1>1, <2>1, PreviousFacts
    <3> QED
      BY <3>1 DEF Before
  <2>2. CASE shots[p] # <<>>
    <3>1. n # 0 /\ PreviousShot(p, shot) = <<shots[p][n]>>
      BY <1>0, <1>1, <2>2, PreviousFacts DEF Typed
    <3>2. n \in 1 .. n /\ n + 1 - 1 = n /\ n + 1 # 1
      BY <1>1, <3>1
    <3>3. Before(p, n + 1)' = <<shots'[p][n]>>
      BY <3>2 DEF Before
    <3>4. shots'[p][n] = shots[p][n]
      BY <1>2, <3>2
    <3> QED
      BY <3>1, <3>3, <3>4
  <2> QED
    BY <2>1, <2>2
<1>4. changes' = changes \cup {<<p, Run, t>> : t \in found}
  OBVIOUS
<1> HIDE DEF found
<1>5. \A q \in Pages : \A m, t : <<q, m, t>> \in changes'
          <=> <<q, m, t>> \in changes \/ (q = p /\ m = Run /\ t \in found)
  BY <1>4
<1>6. \A q \in Pages : \A m, t : <<q, m, t>> \in changes' => HasShot(q, m)'
  BY <1>5, StoresHas DEF Compared
<1>7. ASSUME NEW q \in Pages, Url[q].html, NEW i \in DOMAIN shots'[q], Fetched(shots'[q][i]), NEW t
      PROVE  <<q, shots'[q][i].run, t>> \in changes'
             <=> t \in DetectedChanges(q, shots'[q][i], Before(q, i)')
  <2>1. CASE q # p
    <3>1. shots'[q] = shots[q]
      BY <1>7, <2>1, StoresFacts
    <3>2. Before(q, i)' = Before(q, i)
      BY <3>1 DEF Before
    <3> QED
      BY <1>5, <1>7, <2>1, <3>1, <3>2 DEF Compared
  <2>2. CASE q = p /\ i \in 1 .. n
    <3>1. shots'[p][i] = shots[p][i] /\ shots[p][i].run # Run
      BY <1>1, <1>2, <2>2 DEF HasShot
    <3>2. Before(p, i)' = Before(p, i)
      <4>1. CASE i = 1
        BY <4>1 DEF Before
      <4>2. CASE i # 1
        <5>1. i - 1 \in 1 .. n
          BY <1>1, <2>2, <4>2
        <5> QED
          BY <1>2, <4>2, <5>1 DEF Before
      <4> QED
        BY <4>1, <4>2
    <3>3. <<p, shots[p][i].run, t>> \in changes' <=> <<p, shots[p][i].run, t>> \in changes
      BY <1>5, <3>1
    <3> QED
      BY <1>1, <1>7, <2>2, <3>1, <3>2, <3>3 DEF Compared
  <2>3. CASE q = p /\ i = n + 1
    <3>1. <<p, Run, t>> \notin changes
      BY DEF Compared
    <3>2. <<p, Run, t>> \in changes' <=> t \in found
      BY <1>5, <3>1
    <3>3. found = DetectedChanges(p, shot, PreviousShot(p, shot))
      BY <1>2, <1>7, <2>3 DEF found, ChangesSince
    <3> QED
      BY <1>1, <1>2, <1>3, <2>3, <3>2, <3>3
  <2>4. q = p => i \in 1 .. n \/ i = n + 1
    BY <1>1, <1>2
  <2> QED
    BY <2>1, <2>2, <2>3, <2>4
<1> QED
  BY <1>6, <1>7 DEF Compared

-----------------------------------------------------------------------------
(* The initial states and the steps that store no page *)

LEMMA InitInv == Init => Inv
<1> SUFFICES ASSUME Init PROVE Inv
  OBVIOUS
<1>1. Typed
  <2>1. world \in Website
    BY Constants DEF Init
  <2>2. row \in [Pages -> UrlRow]
    <3>1. NoRow \in UrlRow
      BY Constants DEF NoRow, UrlRow
    <3> QED
      BY <3>1 DEF Init
  <2>3. job \in Job
    BY DEF Init, NoJob, Job
  <2>4. known \subseteq Pages /\ sources \in [Pages -> SUBSET known] /\ shots \in [Pages -> Seq(Shot)]
        /\ runs \in Seq({"running", "stopped", "succeeded", "partially_succeeded"})
    BY DEF Init
  <2> QED
    BY <2>1, <2>2, <2>3, <2>4 DEF Typed
<1>2. job.phase = "idle" /\ changes = {} /\ \A p \in Pages : shots[p] = <<>> /\ DOMAIN shots[p] = {}
  BY DEF Init, NoJob
<1>3. RunsRise
  BY <1>2 DEF RunsRise
<1>4. Waiting
  BY <1>2 DEF Waiting
<1>5. Compared
  BY <1>2 DEF Compared
<1> QED
  BY <1>1, <1>3, <1>4, <1>5 DEF Inv

RowsStay == UNCHANGED <<known, row, sources, shots, changes>>

LEMMA RowsStayFacts ==
    ASSUME RowsStay
    PROVE  /\ \A p, n : HasShot(p, n)' <=> HasShot(p, n)
           /\ Compared => Compared'
           /\ RunsRise /\ Run' = Run => RunsRise'
<1>1. \A p, n : HasShot(p, n)' <=> HasShot(p, n)
  BY DEF RowsStay, HasShot
<1>2. \A p, i : Before(p, i)' = Before(p, i)
  BY DEF RowsStay, Before
<1>3. Compared => Compared'
  BY <1>1, <1>2 DEF RowsStay, Compared
<1>4. RunsRise /\ Run' = Run => RunsRise'
  BY DEF RowsStay, RunsRise
<1> QED
  BY <1>1, <1>3, <1>4

\* A step that leaves the rows and the snapshots alone, and the frontier or ends it.
LEMMA QuietStep ==
    ASSUME Inv, RowsStay, world' \in Website, job' \in Job, Run' = Run,
           runs' \in Seq({"running", "stopped", "succeeded", "partially_succeeded"}),
           job' = job \/ job'.phase # "pages"
    PROVE  Inv'
<1>1. Typed'
  BY DEF Inv, Typed, RowsStay
<1>2. RunsRise' /\ Compared'
  BY RowsStayFacts DEF Inv
<1>3. Waiting'
  <2>1. CASE job' = job
    BY <2>1, RowsStayFacts DEF Inv, Waiting, RowsStay
  <2>2. CASE job'.phase # "pages"
    BY <2>2 DEF Waiting
  <2> QED
    BY <2>1, <2>2
<1> QED
  BY <1>1, <1>2, <1>3 DEF Inv

LEMMA WebsiteSteps ==
    ASSUME Inv,
           \/ \E p \in Pages : \E version \in world.may[p] : ChangePage(p, version)
           \/ \E pages \in world.sitemaps : ChangeSitemap(pages)
    PROVE  Inv'
<1>1. RowsStay /\ job' = job /\ runs' = runs /\ Run' = Run
  BY DEF ChangePage, ChangeSitemap, stored, RowsStay, Run
<1>2. world' \in Website
  <2>1. PICK w \in Website : w = world
    BY DEF Inv, Typed
  <2>2. CASE \E p \in Pages : \E version \in world.may[p] : ChangePage(p, version)
    <3>1. PICK p \in Pages : \E version \in world.may[p] : ChangePage(p, version)
      BY <2>2
    <3>2. PICK version \in w.may[p] : ChangePage(p, version)
      BY <2>1, <3>1
    <3>3. world' = [w EXCEPT !.answers[p] = version]
      BY <2>1, <3>2 DEF ChangePage
    <3>4. version \in Version
      BY <2>1, <3>2 DEF Website
    <3> QED
      BY <3>3, <3>4 DEF Website
  <2>3. CASE \E pages \in world.sitemaps : ChangeSitemap(pages)
    <3>1. PICK pages \in w.sitemaps : ChangeSitemap(pages)
      BY <2>1, <2>3
    <3>2. world' = [w EXCEPT !.sitemap = pages]
      BY <2>1, <3>1 DEF ChangeSitemap
    <3>3. pages \in SUBSET Pages
      BY <2>1, <3>1 DEF Website
    <3> QED
      BY <3>2, <3>3 DEF Website
  <2> QED
    BY <2>2, <2>3
<1> QED
  BY <1>1, <1>2, QuietStep DEF Inv, Typed

LEMMA RunStatus ==
    ASSUME Typed, NEW status \in {"running", "stopped", "succeeded", "partially_succeeded"},
           runs' = [runs EXCEPT ![Run] = status]
    PROVE  /\ runs' \in Seq({"running", "stopped", "succeeded", "partially_succeeded"})
           /\ Run' = Run
<1>1. PICK S : S = {"running", "stopped", "succeeded", "partially_succeeded"}
  OBVIOUS
<1>2. runs \in Seq(S) /\ status \in S
  BY <1>1 DEF Typed
<1>3. PICK n \in Nat : n = Len(runs) /\ runs \in [1 .. n -> S]
  BY <1>2
<1>4. runs' \in [1 .. n -> S]
  BY <1>2, <1>3
<1>5. runs' \in Seq(S) /\ Len(runs') = n
  BY <1>3, <1>4
<1> QED
  BY <1>1, <1>3, <1>5 DEF Run

LEMMA AnalysisSteps ==
    ASSUME Inv,
           \/ AnalyseSite \/ StopCrawl \/ GiveUpCrawl \/ StopRecalculation
           \/ \E n \in DOMAIN runs : Recalculate(n)
    PROVE  Inv'
<1> DEFINE kinds == {"running", "stopped", "succeeded", "partially_succeeded"}
<1>1. RowsStay /\ world' = world
  BY DEF AnalyseSite, StopCrawl, GiveUpCrawl, StopRecalculation, Recalculate, stored, RowsStay
<1>2. job \in Job /\ Typed /\ runs \in Seq(kinds)
  BY DEF Inv, Typed
<1>3. job' \in Job /\ job'.phase # "pages" /\ runs' \in Seq(kinds) /\ Run' = Run
  <2>1. CASE AnalyseSite
    <3>1. Pass \in Nat
      BY <1>2 DEF Pass, FirstPass, Classification, Job
    <3>2. CASE Pass < SitePasses
      <4>1. job' = [job EXCEPT !.pass = Pass + 1,
                               !.phase = IF job.phase = "pages" THEN "analyses" ELSE job.phase]
            /\ runs' = runs
        BY <2>1, <3>2 DEF AnalyseSite
      <4>2. (IF job.phase = "pages" THEN "analyses" ELSE job.phase)
              \in {"analyses", "recalculating"}
        BY <2>1 DEF AnalyseSite, PagesDone
      <4>3. Pass + 1 \in Nat
        BY <3>1
      <4> HIDE DEF kinds
      <4> QED
        BY <1>2, <4>1, <4>2, <4>3 DEF Job, Run
    <3>3. CASE ~ (Pass < SitePasses)
      <4>1. job' = [job EXCEPT !.pass = 0, !.phase = "idle"]
            /\ (runs' = runs \/ runs' = [runs EXCEPT ![Run] = Ended])
        BY <2>1, <3>3 DEF AnalyseSite
      <4>2. Ended \in kinds
        BY DEF Ended
      <4>3. runs' \in Seq(kinds) /\ Run' = Run
        BY <1>2, <4>1, <4>2, RunStatus DEF Run
      <4> HIDE DEF kinds
      <4> QED
        BY <1>2, <4>1, <4>3 DEF Job
    <3> QED
      BY <3>2, <3>3
  <2>2. CASE StopCrawl
    <3>1. job' = [job EXCEPT !.phase = "stopped", !.pass = 0] /\ runs' = [runs EXCEPT ![Run] = "stopped"]
      BY <2>2 DEF StopCrawl
    <3> QED
      BY <1>2, <3>1, RunStatus DEF Job
  <2>3. CASE GiveUpCrawl
    BY <1>2, <2>3 DEF GiveUpCrawl, Job, Run
  <2>4. CASE StopRecalculation
    BY <1>2, <2>4 DEF StopRecalculation, Job, Run
  <2>5. CASE \E n \in DOMAIN runs : Recalculate(n)
    <3>1. PICK n \in DOMAIN runs : Recalculate(n)
      BY <2>5
    <3>2. n \in Nat
      BY <1>2
    <3>3. job' = [job EXCEPT !.phase = "recalculating", !.source = n, !.pass = 1] /\ runs' = runs
      BY <3>1 DEF Recalculate
    <3> QED
      BY <1>2, <3>2, <3>3 DEF Job, Run
  <2> QED
    BY <2>1, <2>2, <2>3, <2>4, <2>5
<1> QED
  BY <1>1, <1>3, QuietStep DEF Inv, Typed

LEMMA DecisionSteps ==
    ASSUME Inv, NEW k, (\E status \in Decisions : SetStatus(k, status)) \/ Suppress(k) \/ RestoreSuppressed(k)
    PROVE  Inv'
<1>1. RowsStay /\ world' = world /\ job' = job /\ runs' = runs /\ Run' = Run
  BY DEF SetStatus, Suppress, RestoreSuppressed, Decide, stored, RowsStay, Run
<1> QED
  BY <1>1, QuietStep DEF Inv, Typed

-----------------------------------------------------------------------------
(* The steps that make a frontier *)

LEMMA StartStep ==
    ASSUME Inv, NEW max \in Maxima, StartCrawl(max)
    PROVE  Inv'
<1>1. Typed /\ RunsRise /\ Compared /\ Run \in Nat
  BY DEF Inv, Typed, Run
<1>2. runs' \in Seq({"running", "stopped", "succeeded", "partially_succeeded"}) /\ Run' = Run + 1
  BY <1>1 DEF StartCrawl, Typed, Run
<1>3. UNCHANGED <<world, sources, shots, changes>>
  BY DEF StartCrawl
<1>4. known' \subseteq Pages /\ known \subseteq known'
  <2>1. world.sitemap \subseteq Pages
    BY <1>1 DEF Typed, Website
  <2>2. known' = known \cup world.sitemap \cup {Root}
    BY DEF StartCrawl
  <2> QED
    BY <1>1, <2>1, <2>2, SitesAssumption DEF Typed
<1>5. sources' \in [Pages -> SUBSET known']
  BY <1>1, <1>3, <1>4 DEF Typed
<1>6. row' \in [Pages -> UrlRow]
  <2>1. row' = [p \in Pages |-> [row[p] EXCEPT !.depth = IF p = Root THEN 0 ELSE NoDepth]]
    BY DEF StartCrawl
  <2>2. \A p \in Pages : row[p] \in UrlRow /\ (IF p = Root THEN 0 ELSE NoDepth) \in 0 .. NoDepth
    BY <1>1, Constants DEF Typed
  <2> QED
    BY <2>1, <2>2, DeeperRow
<1>7. PICK pages : pages = {p \in known' : Url[p].html}
  OBVIOUS
<1>8. PICK rows : rows = row'
  OBVIOUS
<1>9. PICK entries : entries = Entries(pages, rows)
  OBVIOUS
<1>10. /\ entries \in Seq(Entry)
       /\ \A i \in DOMAIN entries : entries[i].page \in pages
       /\ \A i, j \in DOMAIN entries : entries[i].page = entries[j].page => i = j
  <2>1. pages \in SUBSET Pages /\ rows \in [Pages -> UrlRow]
    BY <1>4, <1>6, <1>7, <1>8
  <2> QED
    BY <1>9, <2>1, EntriesFacts
<1>11. job' = [phase |-> "pages", source |-> Run + 1, max |-> max, visited |-> {},
               resumed |-> FALSE, pass |-> 0, pending |-> entries]
  BY <1>7, <1>8, <1>9 DEF StartCrawl
<1>12. job' \in Job
  BY <1>1, <1>10, <1>11 DEF Job
<1>13. Typed'
  BY <1>1, <1>2, <1>3, <1>4, <1>5, <1>6, <1>12 DEF Typed
<1>14. RunsRise'
  <2>1. ASSUME NEW p \in Pages, NEW i \in DOMAIN shots[p]
        PROVE  shots[p][i].run <= Run + 1
    <3>1. shots[p] \in Seq(Shot)
      BY <1>1 DEF Typed
    <3>2. shots[p][i] \in Shot
      BY <3>1
    <3>3. shots[p][i].run \in Nat
      BY <3>2 DEF Shot
    <3>4. shots[p][i].run <= Run
      BY <1>1 DEF RunsRise
    <3> QED
      BY <1>1, <3>3, <3>4
  <2> QED
    BY <1>1, <1>2, <1>3, <1>4, <2>1 DEF RunsRise
<1>15. \A p, n : HasShot(p, n)' <=> HasShot(p, n)
  BY <1>3 DEF HasShot
<1>16. Compared'
  <2>1. \A p, i : Before(p, i)' = Before(p, i)
    BY <1>3 DEF Before
  <2> QED
    BY <1>1, <1>3, <1>15, <2>1 DEF Compared
<1>17. \A p \in Pages : ~ HasShot(p, Run + 1)
  <2> SUFFICES ASSUME NEW p \in Pages, NEW i \in DOMAIN shots[p], shots[p][i].run = Run + 1 PROVE FALSE
    BY DEF HasShot
  <2>1. shots[p][i].run <= Run
    BY <1>1 DEF RunsRise
  <2> QED
    BY <1>1, <2>1
<1>18. Waiting'
  <2>1. job'.pending = entries /\ job'.visited = {}
    BY <1>11
  <2>2. \A p \in Pages : ~ HasShot(p, Run)'
    BY <1>2, <1>3, <1>17 DEF HasShot
  <2> QED
    BY <1>4, <1>7, <1>10, <2>1, <2>2 DEF Waiting
<1> QED
  BY <1>13, <1>14, <1>16, <1>18 DEF Inv

LEMMA ResumeStep ==
    ASSUME Inv, ResumeCrawl
    PROVE  Inv'
<1>1. Typed /\ RunsRise /\ Compared /\ Run \in Nat
  BY DEF Inv, Typed, Run
<1>2. RowsStay /\ world' = world
  BY DEF ResumeCrawl, stored, RowsStay
<1>3. runs' \in Seq({"running", "stopped", "succeeded", "partially_succeeded"}) /\ Run' = Run
  BY <1>1, RunStatus DEF ResumeCrawl
<1>4. PICK done : done = {p \in known : Url[p].html /\ \E i \in DOMAIN shots[p] : shots[p][i].run = Run}
  OBVIOUS
<1>5. PICK pages : pages = {p \in known : Url[p].html} \ done
  OBVIOUS
<1>6. PICK entries : entries = Entries(pages, row)
  OBVIOUS
<1>7. /\ entries \in Seq(Entry)
      /\ \A i \in DOMAIN entries : entries[i].page \in pages
      /\ \A i, j \in DOMAIN entries : entries[i].page = entries[j].page => i = j
  BY <1>1, <1>5, <1>6, EntriesFacts DEF Typed
<1>8. job' = [job EXCEPT !.phase = "pages", !.resumed = TRUE, !.visited = done,
                         !.source = Run, !.pass = 0, !.pending = entries]
  BY <1>4, <1>5, <1>6 DEF ResumeCrawl
<1>9. done \subseteq Pages
  BY <1>1, <1>4 DEF Typed
<1>10. job' \in Job /\ job'.pending = entries /\ job'.visited = done
  BY <1>1, <1>7, <1>8, <1>9 DEF Typed, Job
<1>11. Typed'
  BY <1>1, <1>2, <1>3, <1>10 DEF Typed, RowsStay
<1>12. RunsRise' /\ Compared'
  BY <1>1, <1>2, <1>3, RowsStayFacts
<1>13. Waiting'
  <2>1. \A p : HasShot(p, Run)' <=> HasShot(p, Run)
    BY <1>2, <1>3 DEF RowsStay, HasShot
  <2>2. \A p \in pages : p \in known' /\ Url[p].html /\ ~ HasShot(p, Run)
    BY <1>2, <1>4, <1>5 DEF RowsStay, HasShot
  <2>3. ASSUME NEW p \in Pages, Url[p].html, HasShot(p, Run)
        PROVE  p \in done
    <3>1. shots[p] # <<>>
      BY <2>3 DEF HasShot
    <3>2. p \in known
      BY <1>1, <3>1 DEF RunsRise
    <3> QED
      BY <1>4, <2>3, <3>2 DEF HasShot
  <2> QED
    BY <1>7, <1>10, <2>1, <2>2, <2>3 DEF Waiting
<1> QED
  BY <1>11, <1>12, <1>13 DEF Inv

-----------------------------------------------------------------------------
(* The step that stores a page *)

\* The page of the step, its snapshot, and what the step makes of them.
Storing(p, shot, targets, assets, depth) ==
    /\ p \in known /\ Url[p].html /\ ~ HasShot(p, Run)
    /\ NextEntry \in DOMAIN job.pending /\ job.pending[NextEntry].page = p
    /\ shot = Fetch(world.answers, p, Run) /\ shot.run = Run
    /\ targets = sources[p] \cup Targets(p, shot) /\ assets = AssetsOf(targets)
    /\ depth \in 0 .. NoDepth
    /\ Store(p, depth, shot, PreviousShot(p, shot), targets, assets)

LEMMA FetchShape ==
    ASSUME Inv, FetchPage
    PROVE  \E p \in Pages, shot \in Shot, depth \in Nat : \E targets, assets :
              Storing(p, shot, targets, assets, depth)
<1>1. Typed /\ RunsRise /\ Waiting /\ Run \in Nat
  BY DEF Inv, Typed, Run
<1>2. job.phase = "pages" /\ job.pending # <<>>
  BY DEF FetchPage
<1>3. /\ job.pending \in Seq(Entry) /\ row \in [Pages -> UrlRow] /\ world.answers \in [Pages -> Version]
  BY <1>1 DEF Typed, Job, Website
<1>4. PICK k : k = NextEntry
  OBVIOUS
<1>5. k \in DOMAIN job.pending
  BY <1>2, <1>3, <1>4, NextEntryFacts
<1>6. PICK entry \in Entry : entry = job.pending[k]
  BY <1>3, <1>5
<1>7. PICK p \in Pages : p = entry.page
  BY DEF Entry
<1>8. p \in known /\ Url[p].html /\ ~ HasShot(p, Run)
  BY <1>1, <1>2, <1>5, <1>6, <1>7 DEF Waiting
<1>9. PICK shot \in Shot : shot = Fetch(world.answers, p, Run) /\ shot.run = Run
  BY <1>1, <1>3, FetchFacts
<1>10. PICK targets : targets = sources[p] \cup Targets(p, shot)
  OBVIOUS
<1>11. PICK assets : assets = AssetsOf(targets)
  OBVIOUS
<1>12. PICK depth \in 0 .. NoDepth : depth = IF entry.depth = NoDepth THEN NoDepth
                                            ELSE Shallower(entry.depth, row[p].depth)
  <2>1. entry.depth \in Nat /\ row[p].depth \in 0 .. NoDepth
    BY <1>3 DEF Entry, UrlRow
  <2> QED
    BY <2>1, Constants DEF Shallower
<1>13. Store(p, depth, shot, PreviousShot(p, shot), targets, assets)
  BY <1>4, <1>6, <1>7, <1>9, <1>10, <1>11, <1>12 DEF FetchPage
<1>14. depth \in Nat
  BY <1>12, Constants
<1> QED
  BY <1>4, <1>5, <1>6, <1>7, <1>8, <1>9, <1>10, <1>11, <1>13, <1>14 DEF Storing

LEMMA FetchStep ==
    ASSUME Inv, FetchPage
    PROVE  Inv'
<1>1. Typed /\ RunsRise /\ Waiting /\ Compared /\ Run \in Nat
  BY DEF Inv, Typed, Run
<1>2. job.phase = "pages" /\ job.pending # <<>> /\ UNCHANGED <<world, runs>> /\ Run' = Run
  BY DEF FetchPage, Run
<1>3. /\ job \in Job /\ job.pending \in Seq(Entry) /\ job.visited \in SUBSET Pages
      /\ row \in [Pages -> UrlRow] /\ known \subseteq Pages /\ world.answers \in [Pages -> Version]
  BY <1>1 DEF Typed, Job, Website
<1>4. PICK k : k = NextEntry
  OBVIOUS
<1>5. PICK p \in Pages, shot \in Shot, depth \in Nat : \E targets, assets :
          Storing(p, shot, targets, assets, depth)
  BY FetchShape
<1>6. PICK targets, assets : Storing(p, shot, targets, assets, depth)
  BY <1>5
<1>7. k \in DOMAIN job.pending /\ job.pending[k].page = p
  BY <1>4, <1>6 DEF Storing
<1>8. p \in known /\ Url[p].html /\ ~ HasShot(p, Run)
  BY <1>6 DEF Storing
<1>9. shot = Fetch(world.answers, p, Run) /\ shot.run = Run
  BY <1>6 DEF Storing
<1>10. targets = sources[p] \cup Targets(p, shot)
  BY <1>6 DEF Storing
<1>11. assets = AssetsOf(targets)
  BY <1>6 DEF Storing
<1>12. depth \in 0 .. NoDepth
  BY <1>6, Constants DEF Storing
<1>13. Store(p, depth, shot, PreviousShot(p, shot), targets, assets)
  BY <1>6 DEF Storing
<1>14. known' = known \cup Referenced(p, shot) /\ known' \subseteq Pages /\ targets \subseteq known'
  <2>1. known' = known \cup Referenced(p, shot)
    BY <1>13 DEF Store
  <2>2. sources[p] \subseteq known
    BY <1>1 DEF Typed
  <2> QED
    BY <1>3, <1>10, <2>1, <2>2, ReferencedFacts
<1>15. sources' \in [Pages -> SUBSET known']
  <2>1. sources' = [sources EXCEPT ![p] = targets] /\ sources \in [Pages -> SUBSET known]
    BY <1>1, <1>13 DEF Store, Typed
  <2> QED
    BY <1>14, <2>1
<1>16. \A q \in assets : q \in targets /\ ~ Url[q].html /\ ~ HasShot(q, Run)
  BY <1>11 DEF AssetsOf, HasShot
<1>17. PICK added : added = {p} \cup assets
  OBVIOUS
<1>18. /\ added \in SUBSET Pages /\ added \subseteq known' /\ p \in added
       /\ \A q \in added : ~ HasShot(q, Run) /\ (q = p \/ ~ Url[q].html)
  BY <1>8, <1>14, <1>16, <1>17
<1>19. Stores(added)
  <2>1. shots' = [q \in Pages |-> IF q = p THEN Append(shots[q], shot)
                                  ELSE IF q \in assets
                                  THEN Append(shots[q], Fetch(world.answers, q, Run)) ELSE shots[q]]
    BY <1>13 DEF Store
  <2> QED
    BY <1>9, <1>17, <2>1 DEF Stores
<1>20. RunsRise'
  BY <1>1, <1>2, <1>14, <1>18, <1>19, StoresRise
<1>21. Compared'
  <2>1. changes' = changes \cup {<<p, Run, t>> : t \in ChangesSince(p, shot, PreviousShot(p, shot))}
    BY <1>13 DEF Store
  <2> QED
    BY <1>1, <1>2, <1>8, <1>9, <1>18, <1>19, <2>1, StoresCompared
<1>22. PICK pending : pending = RemoveAt(job.pending, k)
  OBVIOUS
<1>23. /\ pending \in Seq(Entry)
       /\ \A i \in DOMAIN pending : \E j \in DOMAIN job.pending \ {k} : pending[i].page = job.pending[j].page
       /\ \A i, j \in DOMAIN pending : pending[i].page = pending[j].page => i = j
  <2>1. PICK all : all = job.pending
    OBVIOUS
  <2>2. /\ pending \in Seq(Entry)
        /\ \A i \in DOMAIN pending :
             /\ (IF i < k THEN i ELSE i + 1) \in DOMAIN all \ {k}
             /\ pending[i] = all[IF i < k THEN i ELSE i + 1]
    BY <1>3, <1>7, <1>22, <2>1, RemoveAtFacts
  <2>3. \A i, j \in DOMAIN all : all[i].page = all[j].page => i = j
    BY <1>1, <1>2, <2>1 DEF Waiting
  <2>4. ASSUME NEW i \in DOMAIN pending, NEW j \in DOMAIN pending, pending[i].page = pending[j].page
        PROVE  i = j
    <3>1. (IF i < k THEN i ELSE i + 1) = (IF j < k THEN j ELSE j + 1)
      BY <2>2, <2>3, <2>4
    <3>2. i \in Int /\ j \in Int /\ k \in Int
      BY <1>3, <1>7, <2>2
    <3> QED
      BY <3>1, <3>2
  <2> QED
    BY <2>1, <2>2, <2>4
<1>24. PICK rows \in [Pages -> UrlRow] :
          rows = StoreRow(IF depth = NoDepth THEN row ELSE [row EXCEPT ![p].depth = depth], p, shot)
  <2>1. PICK old : old = IF depth = NoDepth THEN row ELSE [row EXCEPT ![p].depth = depth]
    OBVIOUS
  <2>2. old \in [Pages -> UrlRow]
    <3>1. [row[p] EXCEPT !.depth = depth] \in UrlRow
      BY <1>3, <1>12, DeeperRow
    <3>2. [row EXCEPT ![p].depth = depth] = [row EXCEPT ![p] = [row[p] EXCEPT !.depth = depth]]
      OBVIOUS
    <3> QED
      BY <1>3, <2>1, <3>1, <3>2
  <2> QED
    BY <2>1, <2>2, StoreRowFacts
<1>25. PICK follow : follow = {t \in targets : Url[t].html}
  OBVIOUS
<1>26. PICK visited : visited = job.visited \cup {p}
  OBVIOUS
<1>27. PICK next : /\ next = Followings(rows, pending, follow, depth, visited)
                   /\ row' = next.row
                   /\ job' = [job EXCEPT !.pending = next.pending, !.visited = visited]
  BY <1>4, <1>13, <1>22, <1>24, <1>25, <1>26 DEF Store
<1>28. /\ next.row \in [Pages -> UrlRow]
       /\ next.pending \in Seq(Entry)
       /\ \A i \in DOMAIN next.pending :
            \/ \E j \in DOMAIN pending : next.pending[i].page = pending[j].page
            \/ next.pending[i].page \in follow \ visited
       /\ \A i, j \in DOMAIN next.pending :
            next.pending[i].page = next.pending[j].page => i = j
  <2>1. follow \in SUBSET Pages
    BY <1>14, <1>25
  <2>2. EachOnce(pending)
    BY <1>23 DEF EachOnce
  <2>3. Follows(next, pending, follow, visited)
    BY <1>23, <1>27, <2>1, <2>2, FollowingsFacts
  <2> QED
    BY <2>3 DEF Follows, EachOnce
<1>29. job' \in Job /\ job'.pending = next.pending /\ job'.visited = visited
  <2>1. PICK more \in Seq(Entry) : more = next.pending
    BY <1>28
  <2>2. visited \in SUBSET Pages
    BY <1>3, <1>26
  <2>3. job' = [job EXCEPT !.pending = more, !.visited = visited]
    BY <1>27, <2>1
  <2> QED
    BY <1>3, <2>1, <2>2, <2>3 DEF Job
<1>30. Typed'
  <2>1. shots' \in [Pages -> Seq(Shot)]
    BY <1>1, <1>18, <1>19, StoresFacts
  <2>2. row' \in [Pages -> UrlRow]
    BY <1>27, <1>28
  <2>3. world' \in Website
        /\ runs' \in Seq({"running", "stopped", "succeeded", "partially_succeeded"})
    BY <1>1, <1>2 DEF Typed
  <2> QED
    BY <1>14, <1>15, <1>29, <2>1, <2>2, <2>3 DEF Typed
<1>31. \A q \in Pages : HasShot(q, Run)' <=> HasShot(q, Run) \/ q \in added
  <2>1. \A q \in Pages : \A n : HasShot(q, n)' <=> HasShot(q, n) \/ (q \in added /\ n = Run)
    BY <1>1, <1>18, <1>19, StoresHas
  <2> QED
    BY <1>2, <2>1 DEF HasShot
<1>32. ASSUME NEW i \in DOMAIN next.pending, NEW q, q = next.pending[i].page
       PROVE  q \in known' /\ Url[q].html /\ ~ HasShot(q, Run)'
  <2>1. CASE \E j \in DOMAIN pending : q = pending[j].page
    <3>1. PICK j \in DOMAIN job.pending \ {k} : q = job.pending[j].page
      BY <1>23, <2>1
    <3>2. q \in known /\ Url[q].html /\ ~ HasShot(q, Run) /\ q # p
      BY <1>1, <1>2, <1>7, <3>1 DEF Waiting
    <3> QED
      BY <1>3, <1>14, <1>18, <1>31, <3>2
  <2>2. CASE q \in follow \ visited
    <3>1. q \in targets /\ Url[q].html /\ q \notin job.visited /\ q # p
      BY <1>25, <1>26, <2>2
    <3>2. q \in known' /\ q \in Pages
      BY <1>14, <3>1
    <3>3. ~ HasShot(q, Run)
      BY <1>1, <1>2, <3>1, <3>2 DEF Waiting
    <3> QED
      BY <1>18, <1>31, <3>1, <3>2, <3>3
  <2> QED
    BY <1>28, <1>32, <2>1, <2>2
<1>33. Waiting'
  <2>1. ASSUME NEW q \in Pages, Url[q].html, HasShot(q, Run)' PROVE q \in visited
    BY <1>1, <1>2, <1>18, <1>26, <1>31, <2>1 DEF Waiting
  <2>2. /\ \A i \in DOMAIN next.pending :
             /\ next.pending[i].page \in known' /\ Url[next.pending[i].page].html
             /\ ~ HasShot(next.pending[i].page, Run)'
        /\ \A i, j \in DOMAIN next.pending :
             next.pending[i].page = next.pending[j].page => i = j
    BY <1>28, <1>32
  <2>3. job'.pending = next.pending /\ job'.visited = visited
    BY <1>29
  <2> QED
    BY <2>1, <2>2, <2>3 DEF Waiting
<1> QED
  BY <1>20, <1>21, <1>30, <1>33 DEF Inv

-----------------------------------------------------------------------------
(* What the invariant says of two neighbouring snapshots *)

\* What is observed depends on the version and the page that answered.
LEMMA SameObserved ==
    ASSUME NEW p, NEW old, NEW new, Fetched(old), Fetched(new),
           old.end = new.end, old.final = new.final
    PROVE  Observed(p, old) = Observed(p, new)
<1>1. Content(old) = Content(new) /\ ServesHtml(old) = ServesHtml(new)
  BY DEF Content, ServesHtml
<1>2. /\ CanonicalOf(p, old) = CanonicalOf(p, new) /\ Indexable(p, old) = Indexable(p, new)
      /\ LinksOf(p, old) = LinksOf(p, new)
  BY <1>1 DEF CanonicalOf, Indexable, LinksOf
<1> QED
  BY <1>1, <1>2 DEF Observed

LEMMA DetectedFacts ==
    ASSUME NEW p, NEW old, NEW new, Fetched(old), Fetched(new)
    PROVE  /\ \A t \in DetectedChanges(p, new, <<old>>) : Observed(p, old)[t] # Observed(p, new)[t]
           /\ ~ DiscoveryOnly(p, new) =>
                /\ "status_code_changed" \in DetectedChanges(p, new, <<old>>)
                     <=> Content(old).status # Content(new).status
                /\ "redirect_target_changed" \in DetectedChanges(p, new, <<old>>)
                     <=> old.final # new.final
<1> DEFINE was == Observed(p, old)
           is == Observed(p, new)
<1>1. DetectedChanges(p, new, <<old>>) =
        IF DiscoveryOnly(p, new) THEN {}
        ELSE {t \in DOMAIN is : was[t] # is[t]}
             \ (IF Url[new.final].paged THEN ExpectedPaginationChanges ELSE {})
  <2>1. <<old>> # <<>> /\ <<old>>[1] = old
    OBVIOUS
  <2> QED
    BY <2>1 DEF DetectedChanges
<1>2. /\ was.status_code_changed = Content(old).status /\ is.status_code_changed = Content(new).status
      /\ was.redirect_target_changed = old.final /\ is.redirect_target_changed = new.final
      /\ {"status_code_changed", "redirect_target_changed"} \subseteq DOMAIN is
  BY DEF Observed
<1> HIDE DEF was, is
<1>3. "status_code_changed" \notin ExpectedPaginationChanges
      /\ "redirect_target_changed" \notin ExpectedPaginationChanges
  BY DEF ExpectedPaginationChanges
<1>4. \A t \in DetectedChanges(p, new, <<old>>) : was[t] # is[t]
  BY <1>1
<1>5. ASSUME ~ DiscoveryOnly(p, new)
      PROVE  /\ "status_code_changed" \in DetectedChanges(p, new, <<old>>)
                  <=> was.status_code_changed # is.status_code_changed
             /\ "redirect_target_changed" \in DetectedChanges(p, new, <<old>>)
                  <=> was.redirect_target_changed # is.redirect_target_changed
  BY <1>1, <1>2, <1>3, <1>5
<1> QED
  BY <1>2, <1>4, <1>5 DEF was, is

LEMMA InvReal == Inv => ChangesAreReal
<1> SUFFICES ASSUME Inv, NEW p \in Pages, Url[p].html, NEW i \in Neighbours(p),
                    NEW old, old = shots[p][i - 1], NEW new, new = shots[p][i]
             PROVE  /\ (old.end = new.end /\ old.final = new.final)
                         => \A t \in DOMAIN Observed(p, new) : <<p, new.run, t>> \notin changes
                    /\ ~ DiscoveryOnly(p, new) =>
                         /\ <<p, new.run, "status_code_changed">> \in changes
                              <=> Content(old).status # Content(new).status
                         /\ <<p, new.run, "redirect_target_changed">> \in changes
                              <=> old.final # new.final
  BY DEF ChangesAreReal
<1>1. i \in DOMAIN shots[p] /\ i # 1 /\ Fetched(old) /\ Fetched(new)
  BY DEF Neighbours
<1>2. Before(p, i) = <<old>>
  BY <1>1 DEF Before
<1>3. \A t : <<p, new.run, t>> \in changes <=> t \in DetectedChanges(p, new, <<old>>)
  <2>1. \A t : <<p, shots[p][i].run, t>> \in changes
              <=> t \in DetectedChanges(p, shots[p][i], Before(p, i))
    BY <1>1 DEF Inv, Compared
  <2> QED
    BY <1>2, <2>1
<1>4. ASSUME old.end = new.end, old.final = new.final, NEW t \in DOMAIN Observed(p, new)
      PROVE  <<p, new.run, t>> \notin changes
  <2>1. Observed(p, old) = Observed(p, new)
    BY <1>1, <1>4, SameObserved
  <2>2. t \notin DetectedChanges(p, new, <<old>>)
    BY <1>1, <2>1, DetectedFacts
  <2> QED
    BY <1>3, <2>2
<1>5. ASSUME ~ DiscoveryOnly(p, new)
      PROVE  /\ <<p, new.run, "status_code_changed">> \in changes
                  <=> Content(old).status # Content(new).status
             /\ <<p, new.run, "redirect_target_changed">> \in changes
                  <=> old.final # new.final
  BY <1>1, <1>3, <1>5, DetectedFacts
<1> QED
  BY <1>4, <1>5

-----------------------------------------------------------------------------
(* The theorem *)

LEMMA InvStep == Inv /\ [Next]_vars => Inv'
<1> SUFFICES ASSUME Inv, [Next]_vars PROVE Inv'
  OBVIOUS
<1>1. CASE UNCHANGED vars
  <2>1. RowsStay /\ world' = world /\ job' = job /\ runs' = runs /\ Run' = Run
    BY <1>1 DEF vars, stored, RowsStay, Run
  <2> QED
    BY <2>1, QuietStep DEF Inv, Typed
<1>2. CASE \/ \E p \in Pages : \E version \in world.may[p] : ChangePage(p, version)
           \/ \E pages \in world.sitemaps : ChangeSitemap(pages)
  BY <1>2, WebsiteSteps
<1>3. CASE \E max \in Maxima : StartCrawl(max)
  BY <1>3, StartStep
<1>4. CASE ResumeCrawl
  BY <1>4, ResumeStep
<1>5. CASE FetchPage
  BY <1>5, FetchStep
<1>6. CASE \/ AnalyseSite \/ StopCrawl \/ GiveUpCrawl \/ StopRecalculation
           \/ \E n \in DOMAIN runs : Recalculate(n)
  BY <1>6, AnalysisSteps
<1>7. CASE \E k \in DOMAIN issues : \/ \E status \in Decisions : SetStatus(k, status)
                                    \/ Suppress(k) \/ RestoreSuppressed(k)
  BY <1>7, DecisionSteps
<1> QED
  BY <1>1, <1>2, <1>3, <1>4, <1>5, <1>6, <1>7 DEF Next

\* The changes of a page are those between two crawls (analysis.py:33-60), whatever
\* the website answers, and whether runs were stopped, resumed or cut off.
THEOREM ChangesReal == Spec => []ChangesAreReal
<1>1. Spec => []Inv
  BY InitInv, InvStep, PTL DEF Spec
<1> QED
  BY <1>1, InvReal, PTL

-----------------------------------------------------------------------------
(* What reconciling a report makes of the rows *)

IsList(s) == \E S : s \in Seq(S)

\* A row has a status, and one occurrence per run.
RowOK(r) ==
    /\ r = [status |-> r.status, seen |-> r.seen]
    /\ r.status \in Statuses /\ IsList(r.seen)
    /\ \A i, j \in DOMAIN r.seen : r.seen[i].run = r.seen[j].run => i = j

RowsOK(rows) == \A k \in DOMAIN rows : RowOK(rows[k])

SeenIn(seen, n) == \E i \in DOMAIN seen : seen[i].run = n

Settled(rows, k, n) == IsOpen(rows, k) => HasOccurrence(rows, k, n)

\* From rows to later ones, by run n: occurrences stay, and what is open now was open
\* before or is seen by the run.
Evolves(rows, new, n) ==
    /\ DOMAIN rows \subseteq DOMAIN new /\ RowsOK(new)
    /\ \A k, m : HasOccurrence(rows, k, m) => HasOccurrence(new, k, m)
    /\ \A k : IsOpen(new, k) => IsOpen(rows, k) \/ HasOccurrence(new, k, n)

ChecksKey(report, k) == k[1] \in report.owners /\ k[2] \in report.checked

LEMMA OccurredFacts ==
    ASSUME NEW seen, IsList(seen), NEW n, NEW evidence,
           \A i, j \in DOMAIN seen : seen[i].run = seen[j].run => i = j
    PROVE  /\ IsList(Occurred(seen, n, evidence))
           /\ SeenIn(Occurred(seen, n, evidence), n)
           /\ \A m : SeenIn(seen, m) => SeenIn(Occurred(seen, n, evidence), m)
           /\ \A i, j \in DOMAIN Occurred(seen, n, evidence) :
                Occurred(seen, n, evidence)[i].run = Occurred(seen, n, evidence)[j].run => i = j
<1>1. PICK found : found = [run |-> n, evidence |-> evidence]
  OBVIOUS
<1>2. PICK S : seen \in Seq(S)
  BY DEF IsList
<1>3. PICK T : T = S \cup {found}
  OBVIOUS
<1>4. seen \in Seq(T) /\ found \in T /\ found.run = n
  BY <1>1, <1>2, <1>3
<1>5. PICK new : new = Occurred(seen, n, evidence)
  OBVIOUS
<1>6. CASE \E i \in DOMAIN seen : seen[i].run = n
  <2>1. new = [i \in DOMAIN seen |-> IF seen[i].run = n THEN found ELSE seen[i]]
    BY <1>1, <1>5, <1>6 DEF Occurred
  <2>2. DOMAIN new = DOMAIN seen /\ \A i \in DOMAIN seen : new[i] \in T /\ new[i].run = seen[i].run
    BY <1>4, <2>1
  <2>3. new \in Seq(T)
    <3>1. DOMAIN seen = 1 .. Len(seen) /\ Len(seen) \in Nat
      BY <1>4
    <3>2. new \in [1 .. Len(seen) -> T]
      BY <2>1, <2>2, <3>1
    <3> QED
      BY <3>1, <3>2
  <2> QED
    BY <1>5, <1>6, <2>2, <2>3 DEF IsList, SeenIn
<1>7. CASE ~ \E i \in DOMAIN seen : seen[i].run = n
  <2>1. new = Append(seen, found)
    BY <1>1, <1>5, <1>7 DEF Occurred
  <2>2. /\ new \in Seq(T) /\ DOMAIN new = 1 .. Len(seen) + 1 /\ new[Len(seen) + 1].run = n
        /\ DOMAIN seen = 1 .. Len(seen) /\ Len(seen) \in Nat
        /\ \A i \in DOMAIN seen : new[i] = seen[i]
    BY <1>4, <2>1
  <2>3. SeenIn(new, n)
    BY <2>2 DEF SeenIn
  <2>4. ASSUME NEW m, SeenIn(seen, m) PROVE SeenIn(new, m)
    BY <2>2, <2>4 DEF SeenIn
  <2>5. ASSUME NEW i \in DOMAIN new, NEW j \in DOMAIN new, new[i].run = new[j].run PROVE i = j
    <3>1. i \in DOMAIN seen \/ i = Len(seen) + 1
      BY <2>2
    <3>2. j \in DOMAIN seen \/ j = Len(seen) + 1
      BY <2>2
    <3> QED
      BY <1>7, <2>2, <2>5, <3>1, <3>2
  <2> QED
    BY <1>5, <2>2, <2>3, <2>4, <2>5 DEF IsList
<1> QED
  BY <1>6, <1>7

LEMMA StatusFacts ==
    ASSUME NEW s \in Statuses
    PROVE  Seen(s) \in Statuses /\ Missed(s) \in Statuses /\ Missed(s) \notin Open
BY DEF Seen, Missed, Statuses, Open, Reopenable

LEMMA ReconcileFacts ==
    ASSUME NEW rows, RowsOK(rows), NEW report, NEW hidden, NEW n
    PROVE  /\ Evolves(rows, Reconcile(rows, report, hidden, n), n)
           /\ DOMAIN Reconcile(rows, report, hidden, n) \subseteq DOMAIN rows \cup ShownKeys(report)
           /\ \A k : k \notin hidden /\ ChecksKey(report, k)
                     => Settled(Reconcile(rows, report, hidden, n), k, n)
<1>1. PICK shown : shown = {s \in report.shown : <<s.owner, s.type>> \notin hidden}
  OBVIOUS
<1>2. PICK keys : keys = {<<s.owner, s.type>> : s \in shown}
  OBVIOUS
<1>3. PICK missed : missed = MissedKeys(rows, report, hidden)
  OBVIOUS
<1>4. PICK new : new = Reconcile(rows, report, hidden, n)
  OBVIOUS
<1>5. PICK first : first = [k \in keys |-> CHOOSE s \in shown : <<s.owner, s.type>> = k]
  OBVIOUS
<1>6. PICK old : old = [k \in keys |-> IF k \in DOMAIN rows THEN rows[k]
                                       ELSE [status |-> "new", seen |-> <<>>]]
  OBVIOUS
<1>7. /\ DOMAIN new = DOMAIN rows \cup keys
      /\ \A k \in keys : new[k] = [status |-> Seen(old[k].status),
                                   seen |-> Occurred(old[k].seen, n, first[k].evidence)]
      /\ \A k \in DOMAIN rows \ keys :
           new[k] = IF k \in missed THEN [rows[k] EXCEPT !.status = Missed(@)] ELSE rows[k]
  <2>1. new = [k \in DOMAIN rows \cup {<<s.owner, s.type>> : s \in shown} |->
            IF \E s \in shown : <<s.owner, s.type>> = k
            THEN LET s == CHOOSE s \in shown : <<s.owner, s.type>> = k
                     was == IF k \in DOMAIN rows THEN rows[k] ELSE [status |-> "new", seen |-> <<>>]
                 IN  [status |-> Seen(was.status), seen |-> Occurred(was.seen, n, s.evidence)]
            ELSE IF k \in missed THEN [rows[k] EXCEPT !.status = Missed(@)]
            ELSE rows[k]]
    BY <1>1, <1>3, <1>4 DEF Reconcile
  <2>2. \A k : k \in keys <=> \E s \in shown : <<s.owner, s.type>> = k
    BY <1>2
  <2>3. DOMAIN new = DOMAIN rows \cup keys
    BY <1>2, <2>1
  <2>4. ASSUME NEW k \in keys
        PROVE  new[k] = [status |-> Seen(old[k].status),
                         seen |-> Occurred(old[k].seen, n, first[k].evidence)]
    BY <1>2, <1>5, <1>6, <2>1, <2>2, <2>4
  <2>5. ASSUME NEW k \in DOMAIN rows \ keys
        PROVE  new[k] = IF k \in missed THEN [rows[k] EXCEPT !.status = Missed(@)] ELSE rows[k]
    BY <2>1, <2>2, <2>5
  <2> QED
    BY <2>3, <2>4, <2>5
<1>8. keys \subseteq ShownKeys(report) /\ \A k \in ShownKeys(report) : k \notin hidden => k \in keys
  BY <1>1, <1>2 DEF ShownKeys
<1>9. ASSUME NEW k \in keys
      PROVE  /\ RowOK(new[k]) /\ SeenIn(new[k].seen, n)
             /\ \A m : k \in DOMAIN rows /\ SeenIn(rows[k].seen, m) => SeenIn(new[k].seen, m)
  <2>1. RowOK(old[k])
    <3>1. RowOK([status |-> "new", seen |-> <<>>])
      <4>1. <<>> \in Seq({})
        OBVIOUS
      <4> QED
        BY <4>1 DEF RowOK, IsList, Statuses, Open
    <3> QED
      BY <1>6, <3>1 DEF RowsOK
  <2>2. PICK seen : seen = Occurred(old[k].seen, n, first[k].evidence)
    OBVIOUS
  <2>3. /\ IsList(seen) /\ SeenIn(seen, n) /\ \A m : SeenIn(old[k].seen, m) => SeenIn(seen, m)
        /\ \A i, j \in DOMAIN seen : seen[i].run = seen[j].run => i = j
    BY <2>1, <2>2, OccurredFacts DEF RowOK
  <2>4. Seen(old[k].status) \in Statuses
    BY <2>1, StatusFacts DEF RowOK
  <2>5. new[k] = [status |-> Seen(old[k].status), seen |-> seen]
    BY <1>7, <2>2
  <2> QED
    BY <1>6, <2>3, <2>4, <2>5 DEF RowOK
<1>10. ASSUME NEW k \in DOMAIN rows \ keys
       PROVE  /\ RowOK(new[k]) /\ new[k].seen = rows[k].seen
              /\ new[k].status \in Open => rows[k].status \in Open /\ k \notin missed
  <2>1. RowOK(rows[k])
    BY DEF RowsOK
  <2>2. CASE k \in missed
    <3>1. new[k] = [status |-> Missed(rows[k].status), seen |-> rows[k].seen]
      BY <1>7, <2>1, <2>2 DEF RowOK
    <3>2. rows[k].status \in Statuses
      BY <2>1 DEF RowOK
    <3> QED
      BY <2>1, <3>1, <3>2, StatusFacts DEF RowOK
  <2> QED
    BY <1>7, <2>1, <2>2
<1>11. RowsOK(new)
  BY <1>7, <1>9, <1>10 DEF RowsOK
<1>12. ASSUME NEW k, NEW m, HasOccurrence(rows, k, m) PROVE HasOccurrence(new, k, m)
  <2>1. k \in DOMAIN rows /\ SeenIn(rows[k].seen, m) /\ k \in DOMAIN new
    BY <1>7, <1>12 DEF HasOccurrence, SeenIn
  <2>2. SeenIn(new[k].seen, m)
    <3>1. CASE k \in keys
      BY <1>9, <2>1, <3>1
    <3>2. CASE k \notin keys
      BY <1>10, <2>1, <3>2
    <3> QED
      BY <3>1, <3>2
  <2> QED
    BY <2>1, <2>2 DEF HasOccurrence, SeenIn
<1>13. \A k \in keys : HasOccurrence(new, k, n)
  BY <1>7, <1>9 DEF HasOccurrence, SeenIn
<1>14. ASSUME NEW k, IsOpen(new, k) PROVE k \in DOMAIN rows \cup keys
  BY <1>7, <1>14 DEF IsOpen, StatusOf, Open
<1>15. ASSUME NEW k, IsOpen(new, k) PROVE IsOpen(rows, k) \/ HasOccurrence(new, k, n)
  BY <1>7, <1>10, <1>13, <1>14, <1>15 DEF IsOpen, StatusOf
<1>16. ASSUME NEW k, k \notin hidden, ChecksKey(report, k), IsOpen(new, k)
       PROVE  HasOccurrence(new, k, n)
  <2>1. CASE k \in keys
    BY <1>13, <2>1
  <2>2. CASE k \in DOMAIN rows \ keys
    <3>1. k \in missed
      BY <1>3, <1>8, <1>16, <2>2 DEF MissedKeys, ChecksKey
    <3>2. new[k].status \in Open
      BY <1>7, <1>16, <2>2 DEF IsOpen, StatusOf
    <3> QED
      BY <1>10, <2>2, <3>1, <3>2
  <2> QED
    BY <1>14, <1>16, <2>1, <2>2
<1> QED
  BY <1>4, <1>7, <1>8, <1>11, <1>12, <1>15, <1>16 DEF Evolves, Settled

\* What holds of the first and passes on to the next holds of the last.
LEMMA UpTo ==
    ASSUME NEW l \in Nat, NEW good, 0 \in good, \A i \in 1 .. l : i - 1 \in good => i \in good
    PROVE  l \in good
<1> DEFINE Bad == {i \in 0 .. l : i \notin good}
<1> SUFFICES ASSUME l \notin good PROVE FALSE
  OBVIOUS
<1>1. l \in Bad /\ Bad \in SUBSET Nat
  OBVIOUS
<1>2. PICK i \in Bad : \A j \in Bad : i <= j
  <2> HIDE DEF Bad
  <2> QED
    BY <1>1, Smallest
<1>3. i \in 1 .. l /\ i - 1 \in 0 .. l
  BY <1>2
<1>4. i - 1 \notin Bad
  BY <1>2, <1>3
<1> QED
  BY <1>2, <1>3, <1>4

\* The rows after each of some reports.
IsChain(found, rows, reports, n, m) ==
    /\ found[0] = rows
    /\ \A i \in 1 .. m : found[i] = Reconcile(found[i - 1], reports[i], suppressed, n)

HasChain(rows, reports, n, m) ==
    \E found : found = [i \in 0 .. m |-> found[i]] /\ IsChain(found, rows, reports, n, m)

LEMMA ChainExists ==
    ASSUME NEW rows, NEW reports, NEW n, NEW l \in Nat
    PROVE  HasChain(rows, reports, n, l)
<1> DEFINE None == {m \in Nat : ~ HasChain(rows, reports, n, m)}
<1> SUFFICES ASSUME None # {} PROVE FALSE
  OBVIOUS
<1>1. PICK m \in None : \A i \in None : m <= i
  <2>1. None \in SUBSET Nat
    OBVIOUS
  <2> HIDE DEF None
  <2> QED
    BY <2>1, Smallest
<1>2. m \in Nat /\ ~ HasChain(rows, reports, n, m)
  BY <1>1
<1>3. CASE m = 0
  <2>1. PICK found : found = [i \in 0 .. 0 |-> rows]
    OBVIOUS
  <2>2. found = [i \in 0 .. m |-> found[i]] /\ IsChain(found, rows, reports, n, m)
    BY <1>3, <2>1 DEF IsChain
  <2> QED
    BY <1>2, <2>2 DEF HasChain
<1>4. CASE m # 0
  <2>1. m - 1 \in Nat /\ m - 1 \notin None
    BY <1>1, <1>2, <1>4
  <2>2. PICK g : IsChain(g, rows, reports, n, m - 1)
    BY <2>1 DEF HasChain
  <2>3. PICK top : top = Reconcile(g[m - 1], reports[m], suppressed, n)
    OBVIOUS
  <2>4. PICK h : h = [i \in 0 .. m |-> IF i = m THEN top ELSE g[i]]
    OBVIOUS
  <2>5. h = [i \in 0 .. m |-> h[i]] /\ h[m] = top /\ \A i \in 0 .. m - 1 : h[i] = g[i]
    BY <1>2, <2>1, <2>4
  <2>6. ASSUME NEW i \in 1 .. m PROVE h[i] = Reconcile(h[i - 1], reports[i], suppressed, n)
    <3>1. i - 1 \in 0 .. m - 1 /\ h[i - 1] = g[i - 1]
      <4>1. i - 1 \in 0 .. m - 1
        BY <1>2, <2>6
      <4> QED
        BY <2>5, <4>1
    <3>2. CASE i = m
      BY <2>3, <2>5, <3>1, <3>2
    <3>3. CASE i # m
      <4>1. i \in 1 .. m - 1 /\ i \in 0 .. m - 1
        BY <1>2, <2>6, <3>3
      <4>2. g[i] = Reconcile(g[i - 1], reports[i], suppressed, n)
        BY <2>2, <4>1 DEF IsChain
      <4> QED
        BY <2>5, <3>1, <4>1, <4>2
    <3> QED
      BY <3>2, <3>3
  <2>7. h[0] = rows
    BY <1>2, <1>4, <2>1, <2>2, <2>5 DEF IsChain
  <2>8. IsChain(h, rows, reports, n, m)
    BY <2>6, <2>7 DEF IsChain
  <2> QED
    BY <1>2, <2>5, <2>8 DEF HasChain
<1> QED
  BY <1>3, <1>4

\* The rows that some reports make one after the other.
LEMMA ReconciledChain ==
    ASSUME NEW rows, NEW reports, IsList(reports), NEW n
    PROVE  \E found : /\ IsChain(found, rows, reports, n, Len(reports))
                      /\ Reconciled(rows, reports, n) = found[Len(reports)]
<1>1. PICK l \in Nat : l = Len(reports) /\ DOMAIN reports = 1 .. l
  BY DEF IsList
<1> DEFINE pass(found) == [i \in 0 .. l |-> IF i = 0 THEN rows
                              ELSE Reconcile(found[i - 1], reports[i], suppressed, n)]
<1>2. PICK found : found = CHOOSE f : f = pass(f)
  OBVIOUS
<1>3. Reconciled(rows, reports, n) = found[l]
  BY <1>1, <1>2 DEF Reconciled
<1>4. \E f : f = pass(f)
  <2>1. PICK f : f = [i \in 0 .. l |-> f[i]] /\ IsChain(f, rows, reports, n, l)
    BY ChainExists DEF HasChain
  <2>2. ASSUME NEW i \in 0 .. l
        PROVE  f[i] = IF i = 0 THEN rows ELSE Reconcile(f[i - 1], reports[i], suppressed, n)
    <3>1. i = 0 \/ i \in 1 .. l
      BY <1>1, <2>2
    <3> QED
      BY <1>1, <2>1, <3>1 DEF IsChain
  <2>3. f = pass(f)
    BY <2>1, <2>2
  <2> QED
    BY <2>3
<1>5. found = pass(found)
  BY <1>2, <1>4
<1>6. found[0] = rows /\ \A i \in 1 .. l : found[i] = Reconcile(found[i - 1], reports[i], suppressed, n)
  BY <1>1, <1>5
<1>7. IsChain(found, rows, reports, n, l)
  BY <1>6 DEF IsChain
<1> HIDE DEF pass
<1> QED
  BY <1>1, <1>3, <1>7

LEMMA EvolvesFurther ==
    ASSUME NEW a, NEW b, NEW c, NEW n, Evolves(a, b, n), Evolves(b, c, n)
    PROVE  /\ Evolves(a, c, n)
           /\ \A k : Settled(b, k, n) => Settled(c, k, n)
<1>1. \A k : IsOpen(c, k) => IsOpen(b, k) \/ HasOccurrence(c, k, n)
  BY DEF Evolves
<1>2. \A k, m : HasOccurrence(b, k, m) => HasOccurrence(c, k, m)
  BY DEF Evolves
<1> QED
  BY <1>1, <1>2 DEF Evolves, Settled

\* What some reports make of the rows, and nothing else.
Follow(rows, new, reports, n) ==
    /\ Evolves(rows, new, n)
    /\ \A k \in DOMAIN new \ DOMAIN rows : \E i \in DOMAIN reports : k \in ShownKeys(reports[i])
    /\ \A i \in DOMAIN reports : \A k :
         k \notin suppressed /\ ChecksKey(reports[i], k) => Settled(new, k, n)

LEMMA ReconciledFacts ==
    ASSUME NEW rows, RowsOK(rows), NEW reports, IsList(reports), NEW n
    PROVE  Follow(rows, Reconciled(rows, reports, n), reports, n)
<1>1. PICK l \in Nat : l = Len(reports) /\ DOMAIN reports = 1 .. l
  BY DEF IsList
<1>2. PICK found : IsChain(found, rows, reports, n, l) /\ Reconciled(rows, reports, n) = found[l]
  BY <1>1, ReconciledChain
<1>3. found[0] = rows /\ \A i \in 1 .. l : found[i] = Reconcile(found[i - 1], reports[i], suppressed, n)
  BY <1>2 DEF IsChain
<1> DEFINE Good(i) ==
             /\ Evolves(rows, found[i], n)
             /\ \A k \in DOMAIN found[i] \ DOMAIN rows :
                  \E j \in DOMAIN reports : k \in ShownKeys(reports[j])
             /\ \A j \in 1 .. i : \A k :
                  k \notin suppressed /\ ChecksKey(reports[j], k) => Settled(found[i], k, n)
           good == {i \in 0 .. l : Good(i)}
<1>4. Good(0)
  <2>1. Evolves(rows, rows, n)
    BY DEF Evolves
  <2>2. \A j \in 1 .. 0 : FALSE
    OBVIOUS
  <2> QED
    BY <1>3, <2>1, <2>2
<1>5. ASSUME NEW i \in 1 .. l, Good(i - 1) PROVE Good(i)
  <2>1. PICK old : old = found[i - 1]
    OBVIOUS
  <2>2. PICK new : new = found[i]
    OBVIOUS
  <2>3. /\ Evolves(rows, old, n)
        /\ \A k \in DOMAIN old \ DOMAIN rows : \E j \in DOMAIN reports : k \in ShownKeys(reports[j])
        /\ \A j \in 1 .. i - 1 : \A k :
             k \notin suppressed /\ ChecksKey(reports[j], k) => Settled(old, k, n)
    BY <1>5, <2>1
  <2>4. RowsOK(old)
    BY <2>3 DEF Evolves
  <2>5. new = Reconcile(old, reports[i], suppressed, n)
    BY <1>3, <2>1, <2>2
  <2>6. /\ Evolves(old, new, n)
        /\ DOMAIN new \subseteq DOMAIN old \cup ShownKeys(reports[i])
        /\ \A k : k \notin suppressed /\ ChecksKey(reports[i], k) => Settled(new, k, n)
    BY <2>4, <2>5, ReconcileFacts
  <2>7. Evolves(rows, new, n) /\ \A k : Settled(old, k, n) => Settled(new, k, n)
    BY <2>3, <2>6, EvolvesFurther
  <2>8. ASSUME NEW k \in DOMAIN new \ DOMAIN rows
        PROVE  \E j \in DOMAIN reports : k \in ShownKeys(reports[j])
    BY <1>1, <2>3, <2>6, <2>8
  <2>9. ASSUME NEW j \in 1 .. i, NEW k, k \notin suppressed, ChecksKey(reports[j], k)
        PROVE  Settled(new, k, n)
    <3>1. j = i \/ j \in 1 .. i - 1
      BY <1>1
    <3> QED
      BY <2>3, <2>6, <2>7, <2>9, <3>1
  <2> QED
    BY <2>2, <2>7, <2>8, <2>9
<1> HIDE DEF Good
<1>6. 0 \in good /\ \A i \in 1 .. l : i - 1 \in good => i \in good
  BY <1>1, <1>4, <1>5
<1> HIDE DEF good
<1>7. l \in good
  BY <1>6, UpTo
<1> QED
  BY <1>1, <1>2, <1>7 DEF good, Good, Follow

\* resolve_missing of the orphans closes rows and does nothing else.
LEMMA OrphansFacts ==
    ASSUME NEW rows, RowsOK(rows), NEW orphans, NEW n
    PROVE  /\ Evolves(rows, ResolvedOrphans(rows, orphans), n)
           /\ DOMAIN ResolvedOrphans(rows, orphans) = DOMAIN rows
           /\ \A k : k[2] = "orphan_page" /\ k[1] \in Pages \ orphans
                     => ~ IsOpen(ResolvedOrphans(rows, orphans), k)
<1>1. PICK new : new = ResolvedOrphans(rows, orphans)
  OBVIOUS
<1>2. DOMAIN new = DOMAIN rows
  BY <1>1 DEF ResolvedOrphans
<1>3. ASSUME NEW k \in DOMAIN rows
      PROVE  /\ RowOK(new[k]) /\ new[k].seen = rows[k].seen
             /\ new[k].status \in Open => rows[k].status \in Open
             /\ k[2] = "orphan_page" /\ k[1] \in Pages \ orphans => new[k].status \notin Open
  <2>1. RowOK(rows[k])
    BY DEF RowsOK
  <2>2. CASE k[2] = "orphan_page" /\ k[1] \in Pages \ orphans /\ rows[k].status \in Open
    <3>1. new[k] = [rows[k] EXCEPT !.status = "resolved"]
      BY <1>1, <2>2 DEF ResolvedOrphans
    <3>2. new[k] = [status |-> "resolved", seen |-> rows[k].seen]
      BY <2>1, <3>1 DEF RowOK
    <3>3. "resolved" \in Statuses /\ "resolved" \notin Open
      BY DEF Statuses, Reopenable, Open
    <3> QED
      BY <2>1, <2>2, <3>2, <3>3 DEF RowOK
  <2>3. CASE ~ (k[2] = "orphan_page" /\ k[1] \in Pages \ orphans /\ rows[k].status \in Open)
    <3>1. new[k] = rows[k]
      BY <1>1, <2>3 DEF ResolvedOrphans
    <3> QED
      BY <2>1, <2>3, <3>1
  <2> QED
    BY <2>2, <2>3
<1>4. \A k : IsOpen(new, k) => k \in DOMAIN rows
  BY <1>2 DEF IsOpen, StatusOf, Open
<1>5. \A k : IsOpen(new, k) => IsOpen(rows, k)
  BY <1>2, <1>3, <1>4 DEF IsOpen, StatusOf
<1>6. \A k : k[2] = "orphan_page" /\ k[1] \in Pages \ orphans => ~ IsOpen(new, k)
  BY <1>2, <1>3, <1>4 DEF IsOpen, StatusOf
<1> QED
  BY <1>1, <1>2, <1>3, <1>5, <1>6 DEF Evolves, RowsOK, HasOccurrence

-----------------------------------------------------------------------------
(* What the analyses of the website report, and what they check *)

PassTypes(i) ==
    CASE i = 1 -> {"orphan_page"}
      [] i = 2 -> {"deep_page", "important_page_few_internal_links", "internally_linked_redirect"}
      [] i = 3 -> {"multiple_redirected_internal_links"}
      [] i = 4 -> {"generic_internal_anchor_text"}
      [] i = 5 -> {"internal_redirect_patterns"}
      [] i = 6 -> {"sitemap_redirect"}
      [] i = 7 -> InternationalTypes
      [] i = 8 -> {"sitemap_redirect_patterns"}
      [] i = 9 -> {"server_error_incident"}
      [] i = 10 -> {"missing_breadcrumb_schema"}
      [] i = 11 -> ContextualSchemaTypes
      [] i = 12 -> {"duplicate_content", "duplicate_meta_description", "duplicate_title",
                    "near_duplicate_content"}
      [] i = 13 -> {"job_posting_identifier_collision_risk"}
      [] i = 14 -> {"pagination_series_review"}
      [] i = 15 -> {"thin_content"}
      [] i = 16 -> {"downloadable_document_inventory", "image_delivery_quality",
                    "media_delivery_quality"}
      [] i = 17 -> ClusterableTypes
      [] i = 18 -> Contextual404Types
      [] i = 19 -> {"patterned_404_urls"}
      [] OTHER -> {"multiple_broken_internal_links"}

\* The analyses of every stored page, and those of the website as a whole.
PagePasses == {1, 2, 3, 6, 7, 10, 11, 12, 15, 20}
WholePasses == {4, 5, 8, 9, 13, 14, 16, 19}

PageTypes ==
    SnapshotTypes \cup ElementTypes \cup AssetTypes \cup NeverMissed
    \cup UNION {PassTypes(i) : i \in PagePasses}

Stored == {p \in Pages : shots[p] # <<>>}

\* The issues there can be when some pages are stored.
KeyOK(k, pages) ==
    /\ k = <<k[1], k[2]>>
    /\ \/ k[1] \in pages /\ k[2] \in PageTypes
       \/ k[1] = Site /\ \E i \in WholePasses : k[2] \in PassTypes(i)
       \/ k[1] = Clusters /\ k[2] \in ClusterableTypes

\* Analysis i looks for the issue, once the page of it is stored.
Checks(i, k) ==
    /\ k[2] \in PassTypes(i)
    /\ \/ k[1] \in Pages /\ i \in PagePasses
       \/ k[1] = Site /\ i \in WholePasses
       \/ k[1] = Clusters /\ i = 17

\* A page has an answer, a source has links and an asset has a source once they are stored.
RowsInv ==
    \A p \in Pages :
        /\ row[p].status # 0 \/ sources[p] # {} => Url[p].html /\ p \in Stored
        /\ ~ Url[p].html /\ p \in Stored => \E q \in Pages : p \in sources[q]

LEMMA WebsiteFacts ==
    ASSUME Typed, RunsRise, NEW n, NEW w, w = StoredAs(n)
    PROVE  /\ w.known = known /\ w.row = row /\ w.issues = issues /\ w.run = n
           /\ Snapped(w) = {p \in Pages : HasShot(p, n)} /\ Snapped(w) \subseteq Stored
           /\ \A p \in Snapped(w) : \E i \in DOMAIN shots[p] : w.shot[p] = shots[p][i] /\ shots[p][i].run = n
           /\ \A l \in w.links : l.from \in Snapped(w)
<1> DEFINE of(p) == {i \in DOMAIN shots[p] : shots[p][i].run = n}
           links(p) == {[from |-> p, to |-> l.to, anchor |-> l.anchor] : l \in LinksOf(p, w.shot[p])}
<1>1. /\ w.known = known /\ w.row = row /\ w.issues = issues /\ w.run = n
      /\ w.shot = [p \in {q \in known : of(q) # {}} |-> shots[p][CHOOSE i \in of(p) : TRUE]]
      /\ w.links = UNION {links(p) : p \in {q \in known : of(q) # {}}}
  BY DEF StoredAs, Analysed
<1>2. Snapped(w) = {q \in known : of(q) # {}}
  BY <1>1 DEF Snapped
<1>3. \A p : of(p) # {} <=> HasShot(p, n)
  BY DEF HasShot
<1>4. \A p \in Pages : HasShot(p, n) => p \in known /\ p \in Stored
  BY DEF HasShot, RunsRise, Stored
<1>5. known \subseteq Pages
  BY DEF Typed
<1>6. Snapped(w) = {p \in Pages : HasShot(p, n)} /\ Snapped(w) \subseteq Stored
  BY <1>2, <1>3, <1>4, <1>5
<1>7. ASSUME NEW p \in Snapped(w)
      PROVE  \E i \in DOMAIN shots[p] : w.shot[p] = shots[p][i] /\ shots[p][i].run = n
  <2>1. PICK i : i = CHOOSE j \in of(p) : TRUE
    OBVIOUS
  <2>2. i \in of(p) /\ w.shot[p] = shots[p][i]
    BY <1>1, <1>2, <2>1
  <2> QED
    BY <2>2
<1>8. ASSUME NEW l \in w.links PROVE l.from \in Snapped(w)
  <2>1. PICK p \in Snapped(w) : l \in links(p)
    <3> HIDE DEF links
    <3> QED
      BY <1>1, <1>2
  <2>2. l.from = p
    BY <2>1
  <2> QED
    BY <2>2
<1> QED
  BY <1>1, <1>6, <1>7, <1>8

AllAbout(signals, owners, types) == \A s \in signals : s.owner \in owners /\ s.type \in types

LEMMA PassesShow ==
    ASSUME Typed, RunsRise, RowsInv, NEW n, NEW w, w = StoredAs(n)
    PROVE  /\ AllAbout(DetectOrphans(w).shown, Stored, {"orphan_page"})
           /\ AllAbout(LinkQuality(w).shown, Stored, PassTypes(2))
           /\ AllAbout(RedirectSources(w).shown, Stored, PassTypes(3))
           /\ AllAbout(GenericAnchors(w).shown, {Site}, PassTypes(4))
           /\ AllAbout(InternalRedirectPatterns(w).shown, {Site}, PassTypes(5))
           /\ AllAbout(Indexation(w).shown, Stored, PassTypes(6) \cup NeverMissed \cup SnapshotTypes)
           /\ AllAbout(International(w).shown, Stored, PassTypes(7))
           /\ AllAbout(SitemapRedirectPatterns(w).shown, {Site}, PassTypes(8))
           /\ AllAbout(ServerErrorIncident(w).shown, {Site}, PassTypes(9))
           /\ AllAbout(Breadcrumbs(w).shown, Stored, PassTypes(10))
           /\ AllAbout(ContextualSchema(w).shown, Stored, PassTypes(11))
           /\ AllAbout(Duplicates(w).shown, Stored, PassTypes(12))
           /\ AllAbout(JobIdentifiers(w).shown, {Site}, PassTypes(13))
           /\ AllAbout(PaginationSeries(w).shown, {Site}, PassTypes(14))
           /\ AllAbout(ThinContent(w).shown, Stored, PassTypes(15))
           /\ AllAbout(AssetQuality(w).shown, {Site}, PassTypes(16))
           /\ AllAbout(TemplateClusters(w).shown, {Clusters}, PassTypes(17))
           /\ AllAbout(ClassifyPages(w).shown, Stored, NeverMissed \cup SnapshotTypes)
           /\ AllAbout(ClassifyPatterns(w).shown, {Site}, PassTypes(19))
           /\ AllAbout(ClassifySources(w).shown, Stored, PassTypes(20))
<1>0. /\ w.known = known /\ w.row = row /\ w.issues = issues /\ w.run = n
      /\ Snapped(w) \subseteq Stored /\ \A l \in w.links : l.from \in Snapped(w)
  BY WebsiteFacts
<1>a. known \subseteq Pages /\ \A p \in Pages : row[p].status # 0 => p \in Stored
  BY DEF Typed, RowsInv
<1>1. AllAbout(DetectOrphans(w).shown, Stored, {"orphan_page"})
  BY <1>0, <1>a DEF AllAbout, DetectOrphans, Report, Signal, OrphanPages
<1>2. AllAbout(LinkQuality(w).shown, Stored, PassTypes(2))
  BY <1>0 DEF AllAbout, LinkQuality, LinkSignals, Report, SignalIf, Signal, PassTypes
<1>3. AllAbout(RedirectSources(w).shown, Stored, PassTypes(3))
  <2>1. PICK broken : broken = {t \in Pages : Redirects(w, t)}
    OBVIOUS
  <2>2. \A p : Cardinality(LinksTo(w, p, broken)) >= 2 => p \in Stored
    <3>1. \A p : LinksTo(w, p, broken) # {} => p \in Stored
      BY <1>0 DEF LinksTo
    <3> QED
      BY <3>1, FS_EmptySet
  <2>3. RedirectSources(w).shown =
          {Signal(p, "multiple_redirected_internal_links", {l.to : l \in LinksTo(w, p, broken)}) :
             p \in {q \in Pages \ w.discovery : Cardinality(LinksTo(w, q, broken)) >= 2}}
    BY <2>1 DEF RedirectSources, Report
  <2> QED
    BY <2>2, <2>3 DEF AllAbout, Signal, PassTypes
<1>4. AllAbout(GenericAnchors(w).shown, {Site}, PassTypes(4))
  BY DEF AllAbout, GenericAnchors, Report, SignalIf, Signal, PassTypes
<1>5. AllAbout(InternalRedirectPatterns(w).shown, {Site}, PassTypes(5))
  BY DEF AllAbout, InternalRedirectPatterns, RedirectPatterns, Grouped, Report, SignalIf, Signal, PassTypes
<1>6. AllAbout(Indexation(w).shown, Stored, PassTypes(6) \cup NeverMissed \cup SnapshotTypes)
  BY <1>0 DEF AllAbout, Indexation, IndexationSignals, Report, SignalIf, Signal, PassTypes,
     NeverMissed, SnapshotTypes
<1>7. AllAbout(International(w).shown, Stored, PassTypes(7))
  BY <1>0 DEF AllAbout, International, CanonicalSignals, HreflangSignals, Report, SignalIf, Signal,
     PassTypes, InternationalTypes, FlawsIn
<1>8. AllAbout(SitemapRedirectPatterns(w).shown, {Site}, PassTypes(8))
  BY DEF AllAbout, SitemapRedirectPatterns, RedirectPatterns, Grouped, Report, SignalIf, Signal, PassTypes
<1>9. AllAbout(ServerErrorIncident(w).shown, {Site}, PassTypes(9))
  BY DEF AllAbout, ServerErrorIncident, Grouped, Report, SignalIf, Signal, PassTypes
<1>10. AllAbout(Breadcrumbs(w).shown, Stored, PassTypes(10))
  <2>1. PICK pages : pages \subseteq DeepContent(w)
                    /\ Breadcrumbs(w).shown = {Signal(p, "missing_breadcrumb_schema", {}) : p \in pages}
    BY DEF Breadcrumbs, Report
  <2>2. DeepContent(w) \subseteq Stored
    BY <1>0 DEF DeepContent
  <2> QED
    BY <2>1, <2>2 DEF AllAbout, Signal, PassTypes
<1>11. AllAbout(ContextualSchema(w).shown, Stored, PassTypes(11))
  BY <1>0 DEF AllAbout, ContextualSchema, Report, SignalIf, Signal, PassTypes, FlawsIn,
     ContextualSchemaTypes
<1>12. AllAbout(Duplicates(w).shown, Stored, PassTypes(12))
  <2>1. \A pages, field : SameValue(w, pages, field) \subseteq pages
    BY DEF SameValue, Grouped
  <2>2. \A pages : ExactDuplicates(w, pages) \subseteq pages /\ NearDuplicates(w, pages) \subseteq pages
    <3>1. ASSUME NEW pages PROVE ExactDuplicates(w, pages) \subseteq pages
      BY <2>1 DEF ExactDuplicates
    <3>2. ASSUME NEW pages PROVE NearDuplicates(w, pages) \subseteq pages
      BY <2>1 DEF NearDuplicates
    <3> QED
      BY <3>1, <3>2
  <2>3. PICK pages, indexed : /\ pages \subseteq Snapped(w) /\ indexed \subseteq pages
          /\ Duplicates(w).shown =
               {Signal(p, "duplicate_title", {Content(w.shot[p]).title}) :
                   p \in SameValue(w, indexed, "title")}
               \cup {Signal(p, "duplicate_meta_description", {Content(w.shot[p]).meta}) :
                        p \in SameValue(w, indexed, "meta")}
               \cup {Signal(p, "duplicate_content", {}) : p \in ExactDuplicates(w, pages)}
               \cup {Signal(p, "near_duplicate_content", {}) : p \in NearDuplicates(w, pages)}
    <3>1. PICK pages : pages = Snapped(w) \ w.discovery
      OBVIOUS
    <3>2. PICK indexed : indexed = {p \in pages : IndexablePage(w, p) /\ ServesHtml(w.shot[p])}
      OBVIOUS
    <3>3. pages \subseteq Snapped(w) /\ indexed \subseteq pages
      BY <3>1, <3>2
    <3> QED
      BY <3>1, <3>2, <3>3 DEF Duplicates, Report
  <2> QED
    BY <1>0, <2>1, <2>2, <2>3 DEF AllAbout, Signal, PassTypes
<1>13. AllAbout(JobIdentifiers(w).shown, {Site}, PassTypes(13))
  BY DEF AllAbout, JobIdentifiers, Report, SignalIf, Signal, PassTypes
<1>14. AllAbout(PaginationSeries(w).shown, {Site}, PassTypes(14))
  BY DEF AllAbout, PaginationSeries, Grouped, Report, SignalIf, Signal, PassTypes
<1>15. AllAbout(ThinContent(w).shown, Stored, PassTypes(15))
  BY <1>0 DEF AllAbout, ThinContent, Lengthy, Report, Signal, PassTypes
<1>16. AllAbout(AssetQuality(w).shown, {Site}, PassTypes(16))
  BY DEF AllAbout, AssetQuality, Report, SignalIf, Signal, PassTypes
<1>17. AllAbout(TemplateClusters(w).shown, {Clusters}, PassTypes(17))
  <2>1. PICK clustered : clustered = ClustersOf(w)
    OBVIOUS
  <2>2. \A k \in clustered : k[2] \in ClusterableTypes
    <3>1. clustered \subseteq ClusterCandidates(w)
      BY <2>1 DEF ClustersOf, ClusteredBy
    <3> QED
      BY <3>1 DEF ClusterCandidates
  <2>3. \A s \in TemplateClusters(w).shown : s.owner = Clusters /\ \E k \in clustered : s.type = k[2]
    BY <2>1 DEF TemplateClusters, Report, Signal
  <2> QED
    BY <2>2, <2>3 DEF AllAbout, PassTypes
<1>18. AllAbout(ClassifyPages(w).shown, Stored, NeverMissed \cup SnapshotTypes)
  BY <1>0, <1>a DEF AllAbout, ClassifyPages, MissingSignal, Missing, Report, Signal, NeverMissed,
     SnapshotTypes, ReachabilityTypes
<1>19. AllAbout(ClassifyPatterns(w).shown, {Site}, PassTypes(19))
  BY DEF AllAbout, ClassifyPatterns, Grouped, Report, SignalIf, Signal, PassTypes
<1>20. AllAbout(ClassifySources(w).shown, Stored, PassTypes(20))
  BY <1>0, <1>a DEF AllAbout, ClassifySources, Report, Signal, PassTypes
<1> QED
  BY <1>1, <1>2, <1>3, <1>4, <1>5, <1>6, <1>7, <1>8, <1>9, <1>10, <1>11, <1>12, <1>13, <1>14,
     <1>15, <1>16, <1>17, <1>18, <1>19, <1>20

\* The analysis of each number.
LEMMA Reports ==
    ASSUME NEW w
    PROVE  /\ SiteReport(w, 1) = DetectOrphans(w) /\ SiteReport(w, 2) = LinkQuality(w)
           /\ SiteReport(w, 3) = RedirectSources(w) /\ SiteReport(w, 4) = GenericAnchors(w)
           /\ SiteReport(w, 5) = InternalRedirectPatterns(w) /\ SiteReport(w, 6) = Indexation(w)
           /\ SiteReport(w, 7) = International(w) /\ SiteReport(w, 8) = SitemapRedirectPatterns(w)
           /\ SiteReport(w, 9) = ServerErrorIncident(w) /\ SiteReport(w, 10) = Breadcrumbs(w)
           /\ SiteReport(w, 11) = ContextualSchema(w) /\ SiteReport(w, 12) = Duplicates(w)
           /\ SiteReport(w, 13) = JobIdentifiers(w) /\ SiteReport(w, 14) = PaginationSeries(w)
           /\ SiteReport(w, 15) = ThinContent(w) /\ SiteReport(w, 16) = AssetQuality(w)
           /\ SiteReport(w, 17) = TemplateClusters(w) /\ SiteReport(w, 18) = ClassifyPages(w)
           /\ SiteReport(w, 19) = ClassifyPatterns(w) /\ SiteReport(w, 20) = ClassifySources(w)
BY DEF SiteReport

LEMMA WholeShow ==
    ASSUME Typed, RunsRise, RowsInv, NEW n, NEW w, w = StoredAs(n), NEW i \in WholePasses
    PROVE  AllAbout(SiteReport(w, i).shown, {Site}, PassTypes(i))
<1>1. /\ AllAbout(SiteReport(w, 4).shown, {Site}, PassTypes(4))
      /\ AllAbout(SiteReport(w, 5).shown, {Site}, PassTypes(5))
      /\ AllAbout(SiteReport(w, 8).shown, {Site}, PassTypes(8))
      /\ AllAbout(SiteReport(w, 9).shown, {Site}, PassTypes(9))
      /\ AllAbout(SiteReport(w, 13).shown, {Site}, PassTypes(13))
      /\ AllAbout(SiteReport(w, 14).shown, {Site}, PassTypes(14))
      /\ AllAbout(SiteReport(w, 16).shown, {Site}, PassTypes(16))
      /\ AllAbout(SiteReport(w, 19).shown, {Site}, PassTypes(19))
  BY PassesShow, Reports
<1> QED
  BY <1>1 DEF WholePasses

LEMMA PassesKeys ==
    ASSUME Typed, RunsRise, RowsInv, NEW n, NEW w, w = StoredAs(n), NEW i \in 1 .. SitePasses
    PROVE  \A k \in ShownKeys(SiteReport(w, i)) : KeyOK(k, Stored)
<1>1. \A signals, types : AllAbout(signals, Stored, types) /\ types \subseteq PageTypes
                          => \A s \in signals : KeyOK(<<s.owner, s.type>>, Stored)
  BY DEF AllAbout, KeyOK
<1>2. \A j \in WholePasses : \A signals : AllAbout(signals, {Site}, PassTypes(j))
                          => \A s \in signals : KeyOK(<<s.owner, s.type>>, Stored)
  BY DEF AllAbout, KeyOK
<1>3. \A signals : AllAbout(signals, {Clusters}, PassTypes(17))
                   => \A s \in signals : KeyOK(<<s.owner, s.type>>, Stored)
  BY DEF AllAbout, KeyOK, PassTypes
<1>4. \A j \in PagePasses : PassTypes(j) \subseteq PageTypes
  BY DEF PageTypes
<1>5. PassTypes(6) \cup NeverMissed \cup SnapshotTypes \subseteq PageTypes
      /\ NeverMissed \cup SnapshotTypes \subseteq PageTypes
      /\ {"orphan_page"} \subseteq PageTypes
  <2>1. PassTypes(1) = {"orphan_page"} /\ 1 \in PagePasses /\ 6 \in PagePasses
    BY DEF PassTypes, PagePasses
  <2> QED
    BY <1>4, <2>1 DEF PageTypes
<1>6. \A s \in SiteReport(w, i).shown : KeyOK(<<s.owner, s.type>>, Stored)
  <2>1. i \in {1, 2, 3, 4, 5, 6, 7, 8, 9, 10, 11, 12, 13, 14, 15, 16, 17, 18, 19, 20}
    BY DEF SitePasses
  <2>2. CASE i \in PagePasses \cup {18}
    <3>1. CASE i \in {1, 6, 18}
      <4>1. \E types \in SUBSET PageTypes : AllAbout(SiteReport(w, i).shown, Stored, types)
        BY <1>5, <3>1, PassesShow, Reports
      <4> QED
        BY <1>1, <4>1
    <3>2. CASE i \in PagePasses \ {1, 6}
      <4>1. AllAbout(SiteReport(w, i).shown, Stored, PassTypes(i))
        BY <3>2, PassesShow, Reports DEF PagePasses
      <4> QED
        BY <1>1, <1>4, <3>2, <4>1
    <3> QED
      BY <2>2, <3>1, <3>2
  <2>3. CASE i \in WholePasses
    <3>1. AllAbout(SiteReport(w, i).shown, {Site}, PassTypes(i))
      BY <2>3, WholeShow
    <3> QED
      BY <1>2, <2>3, <3>1
  <2>4. CASE i = 17
    <3>1. AllAbout(SiteReport(w, i).shown, {Clusters}, PassTypes(17))
      BY <2>4, PassesShow, Reports
    <3> QED
      BY <1>3, <3>1
  <2> QED
    BY <2>1, <2>2, <2>3, <2>4 DEF PagePasses, WholePasses
<1> QED
  BY <1>6 DEF ShownKeys

\* What an analysis is there to check, it checks.
LEMMA PassesCheck ==
    ASSUME Typed, RunsRise, NEW n, NEW w, w = StoredAs(n), NEW i \in 1 .. SitePasses, NEW k,
           Checks(i, k), k[1] \in Pages => HasShot(k[1], n)
    PROVE  IF i = 1 THEN k[1] \in Pages /\ k[2] = "orphan_page" ELSE ChecksKey(SiteReport(w, i), k)
<1>1. i \in {1, 2, 3, 4, 5, 6, 7, 8, 9, 10, 11, 12, 13, 14, 15, 16, 17, 18, 19, 20}
  BY DEF SitePasses
<1>2. Site \notin Pages /\ Clusters \notin Pages
  BY SitesAssumption DEF Site, Clusters
<1>3. CASE k[1] \in Pages
  <2>1. k[1] \in Snapped(w) /\ k[1] \in Pages /\ i \in PagePasses
    BY <1>2, <1>3, WebsiteFacts DEF Checks
  <2>2. k[2] \in PassTypes(i)
    BY DEF Checks
  <2> QED
    BY <2>1, <2>2 DEF PagePasses, PassTypes, SiteReport, ChecksKey, Report, LinkQuality, RedirectSources,
       Indexation, International, Breadcrumbs, ContextualSchema, Duplicates, ThinContent, ClassifySources
<1>4. CASE k[1] = Site
  <2>1. i \in WholePasses /\ k[2] \in PassTypes(i)
    BY <1>2, <1>4 DEF Checks, Site, Clusters
  <2>2. \A type, pattern : LET report == RedirectPatterns(w, type, pattern)
                           IN  Site \in report.owners /\ report.checked = {pattern}
    BY DEF RedirectPatterns, Grouped, Report
  <2>3. /\ Site \in JobIdentifiers(w).owners /\ JobIdentifiers(w).checked = PassTypes(13)
        /\ Site \in GenericAnchors(w).owners /\ GenericAnchors(w).checked = PassTypes(4)
        /\ Site \in AssetQuality(w).owners /\ AssetQuality(w).checked = PassTypes(16)
    BY DEF PassTypes, Report, JobIdentifiers, GenericAnchors, AssetQuality
  <2>4. /\ Site \in ServerErrorIncident(w).owners /\ ServerErrorIncident(w).checked = PassTypes(9)
        /\ Site \in PaginationSeries(w).owners /\ PaginationSeries(w).checked = PassTypes(14)
        /\ Site \in ClassifyPatterns(w).owners /\ ClassifyPatterns(w).checked = PassTypes(19)
    BY DEF PassTypes, Report, ServerErrorIncident, PaginationSeries, ClassifyPatterns, Grouped
  <2>5. /\ Site \in InternalRedirectPatterns(w).owners
        /\ InternalRedirectPatterns(w).checked = PassTypes(5)
        /\ Site \in SitemapRedirectPatterns(w).owners
        /\ SitemapRedirectPatterns(w).checked = PassTypes(8)
    BY <2>2 DEF PassTypes, InternalRedirectPatterns, SitemapRedirectPatterns
  <2> QED
    BY <1>4, <2>1, <2>3, <2>4, <2>5, Reports DEF WholePasses, ChecksKey
<1>5. CASE k[1] = Clusters
  <2>1. i = 17 /\ k[2] \in ClusterableTypes
    BY <1>2, <1>5 DEF Checks, Site, Clusters, PassTypes
  <2> QED
    BY <1>5, <2>1 DEF SiteReport, ChecksKey, Report, TemplateClusters
<1> QED
  BY <1>3, <1>4, <1>5 DEF Checks

-----------------------------------------------------------------------------
(* What the checks of one page report, and what they check *)

PageChecked == SnapshotTypes \cup ElementTypes

LEMMA SnapshotShows ==
    ASSUME NEW p, NEW shot, NEW previous, NEW inbound, NEW contextual
    PROVE  AllAbout(AnalyzeSnapshot(p, shot, previous, inbound, contextual).shown, {p}, PageChecked)
<1>1. AllAbout(ReachabilitySignals(p, shot), {p}, PageChecked)
  BY DEF AllAbout, ReachabilitySignals, SignalIf, Signal, PageChecked, SnapshotTypes, ReachabilityTypes
<1>2. AllAbout(ContentSignals(p, shot), {p}, PageChecked)
  BY DEF AllAbout, ContentSignals, SignalIf, Signal, PageChecked, SnapshotTypes, OnPageTypes
<1>3. AllAbout(Soft404Signals(p, shot, previous), {p}, PageChecked)
  BY DEF AllAbout, Soft404Signals, SignalIf, Signal, PageChecked, SnapshotTypes
<1>4. AllAbout(ElementSignals(p, shot), {p}, PageChecked)
  BY DEF AllAbout, ElementSignals, Signal, PageChecked
<1>5. AllAbout(JobSignals(p, shot, previous, inbound), {p}, PageChecked)
  BY DEF AllAbout, JobSignals, SignalIf, Signal, PageChecked, SnapshotTypes, JobFlawTypes
<1>6. PICK found : found = PreferContextual(ReachabilitySignals(p, shot) \cup ContentSignals(p, shot)
                                            \cup Soft404Signals(p, shot, previous), contextual)
  OBVIOUS
<1>7. AllAbout(found, {p}, PageChecked)
  BY <1>1, <1>2, <1>3, <1>6 DEF AllAbout, PreferContextual
<1>8. AllAbout(PageSignals(p, shot, previous, inbound, contextual), {p}, PageChecked)
  <2>1. PageSignals(p, shot, previous, inbound, contextual) =
          IF DiscoveryOnly(p, shot) THEN {s \in found : s.type \in ReachabilityTypes}
          ELSE found \cup ElementSignals(p, shot) \cup JobSignals(p, shot, previous, inbound)
    BY <1>6 DEF PageSignals
  <2> QED
    BY <1>4, <1>5, <1>7, <2>1 DEF AllAbout
<1> QED
  BY <1>8 DEF AnalyzeSnapshot, Report, AllAbout

\* The reports of a page, and the types of it that they check.
LEMMA FetchReportsFacts ==
    ASSUME NEW pages, NEW p \in pages, NEW shot, NEW previous, NEW inbound, NEW contextual,
           NEW reports, reports = FetchReports(p, shot, previous, inbound, contextual)
    PROVE  /\ IsList(reports)
           /\ \A i \in DOMAIN reports : \A k \in ShownKeys(reports[i]) : KeyOK(k, pages)
           /\ Fetched(shot) => \A t \in PageChecked : \E i \in DOMAIN reports : ChecksKey(reports[i], <<p, t>>)
           /\ Fetched(shot) /\ ~ ServesHtml(shot)
                => \A t \in AssetTypes : \E i \in DOMAIN reports : ChecksKey(reports[i], <<p, t>>)
<1>1. \A signals : AllAbout(signals, {p}, PageChecked \cup AssetTypes)
                   => \A s \in signals : KeyOK(<<s.owner, s.type>>, pages)
  BY DEF AllAbout, KeyOK, PageTypes, PageChecked
<1>2. PICK analysis : analysis = AnalyzeSnapshot(p, shot, previous, inbound, contextual)
  OBVIOUS
<1>3. PICK asset : asset = InspectAsset(p, shot)
  OBVIOUS
<1>4. AllAbout(analysis.shown, {p}, PageChecked \cup AssetTypes)
  BY <1>2, SnapshotShows DEF AllAbout
<1>5. AllAbout(asset.shown, {p}, PageChecked \cup AssetTypes)
  BY <1>3 DEF InspectAsset, AllAbout, Report, SignalIf, Signal, AssetTypes
<1>6. AllAbout(RobotsBlocked(p).shown, {p}, PageChecked \cup AssetTypes)
  BY DEF RobotsBlocked, AllAbout, Report, Signal, PageChecked, SnapshotTypes
<1>7. AllAbout(InspectCrawlError(p, shot).shown, {p}, PageChecked \cup AssetTypes)
  BY DEF InspectCrawlError, AllAbout, Report, SignalIf, Signal, PageChecked, SnapshotTypes, ReachabilityTypes
<1>8. analysis.owners = {p} /\ analysis.checked = PageChecked
  BY <1>2 DEF AnalyzeSnapshot, Report, PageChecked
<1>9. asset.owners = {p} /\ AssetTypes \subseteq asset.checked
  BY <1>3 DEF InspectAsset, Report
<1>10. CASE shot.error = "robots"
  <2>1. reports = <<RobotsBlocked(p)>> /\ ~ Fetched(shot)
    BY <1>10 DEF FetchReports, Fetched
  <2>2. PICK one : one = RobotsBlocked(p)
    OBVIOUS
  <2>3. reports \in Seq({one}) /\ \A i \in DOMAIN reports : reports[i] = one
    BY <2>1, <2>2
  <2> QED
    BY <1>1, <1>6, <2>1, <2>2, <2>3 DEF IsList, ShownKeys
<1>11. CASE shot.error # "robots" /\ ~ Fetched(shot)
  <2>1. reports = <<InspectCrawlError(p, shot)>>
    BY <1>11 DEF FetchReports
  <2>2. PICK one : one = InspectCrawlError(p, shot)
    OBVIOUS
  <2>3. reports \in Seq({one}) /\ \A i \in DOMAIN reports : reports[i] = one
    BY <2>1, <2>2
  <2> QED
    BY <1>1, <1>7, <1>11, <2>2, <2>3 DEF IsList, ShownKeys
<1>12. CASE Fetched(shot) /\ ServesHtml(shot)
  <2>1. reports = <<analysis>> \o <<>>
    BY <1>2, <1>12 DEF FetchReports, Fetched
  <2>2. reports \in Seq({analysis}) /\ DOMAIN reports = {1} /\ reports[1] = analysis
    BY <2>1
  <2> QED
    BY <1>1, <1>4, <1>8, <1>12, <2>2 DEF IsList, ShownKeys, ChecksKey
<1>13. CASE Fetched(shot) /\ ~ ServesHtml(shot)
  <2>1. reports = <<analysis>> \o <<asset>>
    BY <1>2, <1>3, <1>13 DEF FetchReports, Fetched
  <2>2. /\ reports \in Seq({analysis, asset}) /\ DOMAIN reports = {1, 2}
        /\ reports[1] = analysis /\ reports[2] = asset
    BY <2>1
  <2>3. ASSUME NEW i \in DOMAIN reports, NEW k \in ShownKeys(reports[i]) PROVE KeyOK(k, pages)
    <3>1. reports[i] = analysis \/ reports[i] = asset
      BY <2>2
    <3> QED
      BY <1>1, <1>4, <1>5, <2>3, <3>1 DEF ShownKeys
  <2>4. ASSUME NEW t \in PageChecked PROVE ChecksKey(reports[1], <<p, t>>)
    BY <1>8, <2>2 DEF ChecksKey
  <2>5. ASSUME NEW t \in AssetTypes PROVE ChecksKey(reports[2], <<p, t>>)
    BY <1>9, <2>2 DEF ChecksKey
  <2> QED
    BY <2>2, <2>3, <2>4, <2>5 DEF IsList
<1> QED
  BY <1>10, <1>11, <1>12, <1>13

\* The assets that are audited are those that answer.
LEMMA AuditsFacts ==
    ASSUME Typed, NEW assets \in SUBSET Pages,
           NEW answering, answering = Answering(assets), NEW audits, audits = Audits(answering)
    PROVE  /\ DOMAIN audits = 1 .. Len(audits) /\ Len(audits) \in Nat
           /\ \A i \in DOMAIN audits : audits[i].page \in assets
           /\ \A q \in assets : Fetched(Fetch(world.answers, q, Run))
                                => \E i \in DOMAIN audits : audits[i].page = q
<1>1. PICK pages : pages = Answering(assets)
  OBVIOUS
<1>2. PICK order : order = InOrder(pages)
  OBVIOUS
<1>3. order \in Seq(pages) /\ \A q \in pages : \E i \in DOMAIN order : order[i] = q
  <2>1. pages \in SUBSET Pages
    BY <1>1 DEF Answering
  <2> QED
    BY <1>2, <2>1, InOrderFacts
<1>4. audits = [i \in DOMAIN order |-> [page |-> order[i], shot |-> Fetch(world.answers, order[i], Run)]]
  BY <1>1, <1>2 DEF Audits
<1>5. DOMAIN order = 1 .. Len(order) /\ Len(order) \in Nat /\ \A i \in DOMAIN order : order[i] \in pages
  BY <1>3
<1>6. DOMAIN audits = DOMAIN order /\ \A i \in DOMAIN order : audits[i].page = order[i]
  BY <1>4
<1>7. Len(audits) = Len(order)
  BY <1>4, <1>5
<1>8. pages \subseteq assets /\ \A q \in assets : Fetched(Fetch(world.answers, q, Run)) => q \in pages
  BY <1>1 DEF Answering
<1> QED
  BY <1>3, <1>5, <1>6, <1>7, <1>8

\* The reports of a page and of the assets that are audited with it.
LEMMA ReportsOfFacts ==
    ASSUME Typed, NEW pages \in SUBSET Pages, NEW p \in pages, NEW assets \in SUBSET pages,
           NEW answering, answering = Answering(assets), NEW audits, audits = Audits(answering),
           NEW shot, NEW previous, NEW inbound,
           NEW reports, reports = ReportsOf(p, shot, previous, inbound, audits)
    PROVE  /\ IsList(reports)
           /\ \A i \in DOMAIN reports : \A k \in ShownKeys(reports[i]) : KeyOK(k, pages)
           /\ Fetched(shot) => \A t \in PageChecked : \E i \in DOMAIN reports : ChecksKey(reports[i], <<p, t>>)
           /\ Fetched(shot) /\ ~ ServesHtml(shot)
                => \A t \in AssetTypes : \E i \in DOMAIN reports : ChecksKey(reports[i], <<p, t>>)
           /\ \A q \in assets : Fetched(Fetch(world.answers, q, Run)) =>
                \A t \in AssetTypes : \E i \in DOMAIN reports : ChecksKey(reports[i], <<q, t>>)
<1>1. PICK own : own = FetchReports(p, shot, previous, inbound, Contextual404Known(issues, p))
  OBVIOUS
<1>2. PICK others : others = [i \in DOMAIN audits |-> InspectAsset(audits[i].page, audits[i].shot)]
  OBVIOUS
<1>3. reports = own \o others
  BY <1>1, <1>2 DEF ReportsOf
<1>4. /\ IsList(own)
      /\ \A i \in DOMAIN own : \A k \in ShownKeys(own[i]) : KeyOK(k, pages)
      /\ Fetched(shot) => \A t \in PageChecked : \E i \in DOMAIN own : ChecksKey(own[i], <<p, t>>)
      /\ Fetched(shot) /\ ~ ServesHtml(shot)
           => \A t \in AssetTypes : \E i \in DOMAIN own : ChecksKey(own[i], <<p, t>>)
  BY <1>1, FetchReportsFacts
<1>5. /\ DOMAIN audits = 1 .. Len(audits) /\ Len(audits) \in Nat
      /\ \A i \in DOMAIN audits : audits[i].page \in assets
      /\ \A q \in assets : Fetched(Fetch(world.answers, q, Run))
                           => \E i \in DOMAIN audits : audits[i].page = q
  <2>1. assets \in SUBSET Pages
    OBVIOUS
  <2> QED
    BY <2>1, AuditsFacts
<1>6. DOMAIN others = 1 .. Len(audits) /\ Len(others) = Len(audits)
  BY <1>2, <1>5
<1>7. PICK S : own \in Seq(S)
  BY <1>4 DEF IsList
<1>8. PICK T : T = S \cup {others[i] : i \in DOMAIN others}
  OBVIOUS
<1>9. own \in Seq(T)
  BY <1>7, <1>8
<1>10. others \in Seq(T)
  <2>1. others \in [1 .. Len(audits) -> T]
    BY <1>2, <1>6, <1>8
  <2> QED
    BY <1>5, <2>1
<1>11. /\ reports \in Seq(T) /\ Len(reports) = Len(own) + Len(others)
       /\ \A i \in 1 .. Len(own) + Len(others) :
             reports[i] = IF i <= Len(own) THEN own[i] ELSE others[i - Len(own)]
  BY <1>3, <1>9, <1>10, ConcatProperties
<1>12. \A i \in DOMAIN own : i \in DOMAIN reports /\ reports[i] = own[i]
  BY <1>9, <1>10, <1>11
<1>13. ASSUME NEW i \in DOMAIN others
       PROVE  Len(own) + i \in DOMAIN reports /\ reports[Len(own) + i] = others[i]
  <2>1. Len(own) \in Nat /\ i \in 1 .. Len(others) /\ Len(others) \in Nat
    BY <1>9, <1>10
  <2>2. Len(own) + i \in 1 .. Len(own) + Len(others) /\ ~ (Len(own) + i <= Len(own))
        /\ (Len(own) + i) - Len(own) = i
    BY <2>1
  <2>3. DOMAIN reports = 1 .. Len(own) + Len(others)
    BY <1>11
  <2> QED
    BY <1>11, <2>2, <2>3
<1>14. ASSUME NEW i \in DOMAIN reports
       PROVE  (\E j \in DOMAIN own : reports[i] = own[j]) \/ \E j \in DOMAIN others : reports[i] = others[j]
  <2>1. i \in 1 .. Len(own) + Len(others) /\ Len(own) \in Nat /\ Len(others) \in Nat
        /\ DOMAIN own = 1 .. Len(own) /\ DOMAIN others = 1 .. Len(others)
    BY <1>9, <1>10, <1>11
  <2>2. CASE i <= Len(own)
    <3>1. i \in DOMAIN own
      BY <2>1, <2>2
    <3> QED
      BY <1>11, <2>1, <2>2, <3>1
  <2>3. CASE ~ (i <= Len(own))
    <3>1. i - Len(own) \in DOMAIN others
      BY <2>1, <2>3
    <3> QED
      BY <1>11, <2>1, <2>3, <3>1
  <2> QED
    BY <2>2, <2>3
<1>15. ASSUME NEW j \in DOMAIN others, NEW k \in ShownKeys(others[j]) PROVE KeyOK(k, pages)
  <2>1. PICK q \in pages : q = audits[j].page
    BY <1>5, <1>6
  <2>2. others[j] = InspectAsset(q, audits[j].shot)
    BY <1>2, <1>5, <1>6, <2>1
  <2>3. k = <<q, "broken_image">>
    BY <1>15, <2>2 DEF ShownKeys, InspectAsset, Report, SignalIf, Signal
  <2> QED
    BY <2>1, <2>3 DEF KeyOK, PageTypes, AssetTypes
<1>16. ASSUME NEW i \in DOMAIN reports, NEW k \in ShownKeys(reports[i]) PROVE KeyOK(k, pages)
  BY <1>4, <1>14, <1>15, <1>16
<1>17. ASSUME NEW q \in assets, Fetched(Fetch(world.answers, q, Run)), NEW t \in AssetTypes
       PROVE  \E i \in DOMAIN reports : ChecksKey(reports[i], <<q, t>>)
  <2>1. PICK i \in DOMAIN audits : audits[i].page = q
    BY <1>5, <1>17
  <2>2. i \in DOMAIN others /\ others[i] = InspectAsset(q, audits[i].shot)
    BY <1>2, <1>5, <1>6, <2>1
  <2>3. ChecksKey(others[i], <<q, t>>)
    BY <1>17, <2>2 DEF ChecksKey, InspectAsset, Report
  <2> QED
    BY <1>13, <2>2, <2>3
<1>18. ASSUME NEW i \in DOMAIN own, NEW k, ChecksKey(own[i], k)
       PROVE  \E j \in DOMAIN reports : ChecksKey(reports[j], k)
  BY <1>12, <1>18
<1> QED
  BY <1>4, <1>11, <1>16, <1>17, <1>18 DEF IsList

-----------------------------------------------------------------------------
(* What a crawl has yet to look at *)

Crawling == job.phase \in {"pages", "analyses", "stopped"}

PhaseInv ==
    /\ job.pass \in 0 .. SitePasses
    /\ job.phase \in {"pages", "analyses"} => job.source = Run
    /\ job.phase \in {"pages", "stopped"} => job.pass = 0
    /\ job.phase = "analyses" => job.pass \in 2 .. SitePasses
    /\ job.phase = "recalculating" => job.pass \in 1 .. SitePasses
    /\ job.phase # "idle" => Run > 0

IsQueued(p) == \E i \in DOMAIN job.pending : job.pending[i].page = p

\* A page that was ever stored is stored by the run too or waits for it, and with a
\* page its assets are stored.
QueueInv ==
    /\ job.phase = "pages" => \A p \in Stored : Url[p].html => HasShot(p, Run) \/ IsQueued(p)
    /\ job.phase = "analyses" /\ job.pending = <<>> =>
         \A p \in Stored : Url[p].html => HasShot(p, Run)
    /\ Crawling => \A p \in Stored : Url[p].html /\ HasShot(p, Run) =>
            \A t \in sources[p] : ~ Url[t].html => HasShot(t, Run)

IssuesInv ==
    /\ suppressed \subseteq DOMAIN issues /\ RowsOK(issues)
    /\ \A k \in DOMAIN issues : KeyOK(k, Stored)

\* The first of the analyses that are still to come.
From == IF job.phase = "analyses" /\ job.pending = <<>> THEN job.pass ELSE 1

\* The run has stored what it must look at for the issue.
Owed(k) ==
    /\ k[2] \notin NeverMissed
    /\ k[1] \in Pages => LooksAt(k) /\ HasShot(k[1], Run)

\* The open issues of a run without failures were seen by it, or by an analysis to come.
SettledFrom(rows, first) ==
    \A k \in DOMAIN rows \ (decided \cup suppressed) :
        IsOpen(rows, k) /\ Owed(k) =>
            HasOccurrence(rows, k, Run) \/ \E i \in first .. SitePasses : Checks(i, k)

SettledInv == Crawling /\ ~ FailedIn(Run) => SettledFrom(issues, From)

Lifecycles == {"none", "active", "expired", "removed", "redirected"}

Bounded ==
    /\ listed \in [Pages -> 0 .. Run] /\ listing \in [Pages -> Lifecycles]
    /\ \A c \in changes : c[1] \in known /\ c[2] \in 1 .. Run
    /\ job.visited \subseteq known
    /\ Run <= world.bounds.crawls

IInv == PhaseInv /\ RowsInv /\ QueueInv /\ IssuesInv /\ SettledInv /\ Bounded

LEMMA InitIInv == Init => IInv
<1> SUFFICES ASSUME Init PROVE IInv
  OBVIOUS
<1>1. job = NoJob /\ runs = <<>> /\ shots = [p \in Pages |-> <<>>] /\ sources = [p \in Pages |-> {}]
      /\ row = [p \in Pages |-> NoRow] /\ DOMAIN issues = {} /\ suppressed = {}
      /\ listed = [p \in Pages |-> 0] /\ changes = {} /\ listing = [p \in Pages |-> "none"]
      /\ world \in Worlds
  BY DEF Init
<1>2. Run = 0
  BY <1>1 DEF Run
<1>3. PhaseInv /\ QueueInv /\ SettledInv
  BY <1>1 DEF PhaseInv, QueueInv, SettledInv, Crawling, NoJob, SitePasses
<1>4. RowsInv
  BY <1>1 DEF RowsInv, NoRow, Stored
<1>5. IssuesInv
  BY <1>1 DEF IssuesInv, RowsOK
<1>6. world.bounds.crawls \in Nat
  BY <1>1, Constants DEF Website
<1>7. Bounded
  BY <1>1, <1>2, <1>6 DEF Bounded, Lifecycles, NoJob
<1> QED
  BY <1>3, <1>4, <1>5, <1>7 DEF IInv

-----------------------------------------------------------------------------
(* The steps that leave the stored website and the issues as they are *)

SameWebsite ==
    UNCHANGED <<known, row, listed, sources, shots, changes, listing, issues, suppressed, decided>>

LEMMA SameFacts ==
    ASSUME SameWebsite, Run' = Run
    PROVE  /\ Stored' = Stored /\ RowsInv' = RowsInv /\ IssuesInv' = IssuesInv
           /\ \A p, n : HasShot(p, n)' = HasShot(p, n)
           /\ \A k : Owed(k)' = Owed(k)
           /\ FailedIn(Run)' = FailedIn(Run)
           /\ \A first : SettledFrom(issues, first)' = SettledFrom(issues, first)
<1>1. Stored' = Stored
  BY DEF SameWebsite, Stored
<1>2. RowsInv' = RowsInv
  BY <1>1 DEF SameWebsite, RowsInv
<1>3. IssuesInv' = IssuesInv
  BY <1>1 DEF SameWebsite, IssuesInv
<1>4. ASSUME NEW p, NEW n PROVE HasShot(p, n)' = HasShot(p, n)
  BY DEF SameWebsite, HasShot
<1>5. ASSUME NEW k PROVE Owed(k)' = Owed(k)
  BY DEF SameWebsite, Owed, LooksAt, HasShot
<1>6. FailedIn(Run)' = FailedIn(Run)
  BY DEF SameWebsite, FailedIn
<1>7. ASSUME NEW first PROVE SettledFrom(issues, first)' = SettledFrom(issues, first)
  BY <1>5 DEF SameWebsite, SettledFrom
<1> QED
  BY <1>1, <1>2, <1>3, <1>4, <1>5, <1>6, <1>7

\* The crawl goes on as it was, stops or ends.
LEMMA QuietIStep ==
    ASSUME IInv, SameWebsite, Run' = Run, world'.bounds = world.bounds,
           \/ job' = job
           \/ /\ job'.visited = job.visited /\ job'.pass = 0
              /\ \/ job'.phase = "idle"
                 \/ job'.phase = "stopped" /\ job.phase \in {"pages", "analyses"}
    PROVE  IInv'
<1>1. RowsInv' /\ IssuesInv'
  BY SameFacts DEF IInv
<1>2. Bounded'
  BY DEF IInv, Bounded, SameWebsite
<1>3. PhaseInv'
  BY DEF IInv, PhaseInv, SitePasses
<1>4. QueueInv'
  <2>1. Stored' = Stored /\ sources' = sources
    BY SameFacts DEF SameWebsite
  <2>2. \A p, n : HasShot(p, n)' <=> HasShot(p, n)
    BY SameFacts
  <2>3. \A p : HasShot(p, Run)' <=> HasShot(p, Run)
    BY <2>2 DEF HasShot
  <2>4. CASE job' = job
    <3>1. \A p : IsQueued(p)' <=> IsQueued(p)
      BY <2>4 DEF IsQueued
    <3> QED
      BY <2>1, <2>3, <2>4, <3>1 DEF IInv, QueueInv, Crawling
  <2>5. CASE job'.phase = "stopped" /\ job.phase \in {"pages", "analyses"}
    BY <2>1, <2>3, <2>5 DEF IInv, QueueInv, Crawling
  <2>6. CASE job'.phase = "idle"
    BY <2>6 DEF QueueInv, Crawling
  <2> QED
    BY <2>4, <2>5, <2>6
<1>5. SettledInv'
  <2>1. /\ FailedIn(Run)' = FailedIn(Run)
        /\ \A first : SettledFrom(issues, first)' = SettledFrom(issues, first)
    BY SameFacts
  <2>2. CASE job' = job
    <3>1. From' = From /\ Crawling' = Crawling
      BY <2>2 DEF From, Crawling
    <3> QED
      BY <2>1, <3>1 DEF IInv, SettledInv
  <2>3. CASE job'.phase = "stopped" /\ job.phase \in {"pages", "analyses"}
    <3> SUFFICES ASSUME ~ FailedIn(Run)' PROVE SettledFrom(issues, From)'
      BY DEF SettledInv
    <3>1. SettledFrom(issues, From)
      BY <2>1, <2>3 DEF IInv, SettledInv, Crawling
    <3>2. From' = 1 /\ \A i \in From .. SitePasses : i \in 1 .. SitePasses
      BY <2>3 DEF From, IInv, PhaseInv, SitePasses
    <3>3. SettledFrom(issues, 1)
      BY <3>1, <3>2 DEF SettledFrom
    <3> QED
      BY <2>1, <3>2, <3>3
  <2>4. CASE job'.phase = "idle"
    BY <2>4 DEF SettledInv, Crawling
  <2> QED
    BY <2>2, <2>3, <2>4
<1> QED
  BY <1>1, <1>2, <1>3, <1>4, <1>5 DEF IInv

LEMMA WebsiteISteps ==
    ASSUME Inv, IInv,
           \/ \E p \in Pages : \E version \in world.may[p] : ChangePage(p, version)
           \/ \E pages \in world.sitemaps : ChangeSitemap(pages)
    PROVE  IInv'
<1>1. SameWebsite /\ Run' = Run /\ job' = job
  BY DEF ChangePage, ChangeSitemap, stored, SameWebsite, Run
<1>2. world \in Website
  BY DEF Inv, Typed
<1>3. world'.bounds = world.bounds
  BY <1>2 DEF ChangePage, ChangeSitemap, Website
<1> QED
  BY <1>1, <1>3, QuietIStep

LEMMA StopISteps ==
    ASSUME Inv, IInv, StopCrawl \/ GiveUpCrawl \/ StopRecalculation
    PROVE  IInv'
<1>1. job \in Job
  BY DEF Inv, Typed
<1>2. SameWebsite /\ world' = world
  BY DEF StopCrawl, GiveUpCrawl, StopRecalculation, stored, SameWebsite
<1>3. Run' = Run
  <2>1. ASSUME NEW status \in {"running", "stopped", "succeeded", "partially_succeeded"},
               runs' = [runs EXCEPT ![Run] = status]
        PROVE  Run' = Run
    BY <2>1, RunStatus DEF Inv
  <2> QED
    BY <2>1 DEF StopCrawl, GiveUpCrawl, StopRecalculation, Run
<1>4. CASE StopCrawl
  <2>1. job' = [job EXCEPT !.phase = "stopped", !.pass = 0] /\ job.phase \in {"pages", "analyses"}
    BY <1>4 DEF StopCrawl
  <2>2. job'.visited = job.visited /\ job'.pass = 0 /\ job'.phase = "stopped"
    BY <1>1, <2>1 DEF Job
  <2> QED
    BY <1>2, <1>3, <2>1, <2>2, QuietIStep
<1>5. CASE GiveUpCrawl \/ StopRecalculation
  <2>1. job'.visited = job.visited /\ job'.pass = 0 /\ job'.phase = "idle"
    <3>1. job.phase = "stopped" => job.pass = 0
      BY DEF IInv, PhaseInv
    <3> QED
      BY <1>1, <1>5, <3>1 DEF GiveUpCrawl, StopRecalculation, Job
  <2> QED
    BY <1>2, <1>3, <2>1, QuietIStep
<1> QED
  BY <1>4, <1>5

\* People decide about single issues, which no crawl answers for from then on.
LEMMA DecisionISteps ==
    ASSUME Inv, IInv, NEW k \in DOMAIN issues,
           (\E status \in Decisions : SetStatus(k, status)) \/ Suppress(k) \/ RestoreSuppressed(k)
    PROVE  IInv'
<1>1. UNCHANGED <<world, known, row, listed, sources, shots, changes, listing, runs, job>>
      /\ Run' = Run /\ decided' = decided \cup {k}
  BY DEF SetStatus, Suppress, RestoreSuppressed, Decide, stored, Run
<1>2. PICK status \in Statuses :
         issues' = issues \/ issues' = [issues EXCEPT ![k].status = status]
  <2>1. "new" \in Statuses /\ "ignored" \in Statuses /\ Decisions \subseteq Statuses
    BY SitesAssumption DEF Statuses, Open, Reopenable
  <2> QED
    BY <2>1 DEF SetStatus, Suppress, RestoreSuppressed
<1>3. /\ suppressed' \subseteq suppressed \cup {k}
      /\ \A j \in suppressed : j = k \/ j \in suppressed'
  BY DEF SetStatus, Suppress, RestoreSuppressed
<1>4. DOMAIN issues' = DOMAIN issues /\ \A j \in DOMAIN issues \ {k} : issues'[j] = issues[j]
  BY <1>2
<1>5. RowsOK(issues')
  <2>1. RowsOK(issues) /\ RowOK(issues[k])
    BY DEF IInv, IssuesInv, RowsOK
  <2>2. RowOK(issues'[k])
    <3>1. CASE issues' = issues
      BY <2>1, <3>1
    <3>2. CASE issues' = [issues EXCEPT ![k].status = status]
      <4>1. issues'[k] = [issues[k] EXCEPT !.status = status]
        BY <3>2
      <4>2. issues'[k] = [status |-> status, seen |-> issues[k].seen]
        BY <2>1, <4>1 DEF RowOK
      <4> QED
        BY <2>1, <4>2 DEF RowOK
    <3> QED
      BY <1>2, <3>1, <3>2
  <2> QED
    BY <1>4, <2>1, <2>2 DEF RowsOK
<1>6. Stored' = Stored /\ \A p, n : HasShot(p, n)' = HasShot(p, n)
  BY <1>1 DEF Stored, HasShot
<1>7. IssuesInv'
  BY <1>3, <1>4, <1>5, <1>6 DEF IInv, IssuesInv
<1>8. RowsInv'
  BY <1>1, <1>6 DEF IInv, RowsInv
<1>9. PhaseInv' /\ Bounded'
  BY <1>1 DEF IInv, PhaseInv, Bounded
<1>10. QueueInv'
  <2>1. \A p : IsQueued(p)' = IsQueued(p) /\ HasShot(p, Run)' = HasShot(p, Run)
    BY <1>1 DEF IsQueued, HasShot
  <2> QED
    BY <1>1, <1>6, <2>1 DEF IInv, QueueInv, Crawling
<1>11. SettledInv'
  <2>1. From' = From /\ Crawling' = Crawling /\ FailedIn(Run)' = FailedIn(Run)
        /\ \A j : Owed(j)' = Owed(j)
    BY <1>1 DEF From, Crawling, FailedIn, Owed, LooksAt, HasShot
  <2> SUFFICES ASSUME Crawling, ~ FailedIn(Run),
                      NEW j \in DOMAIN issues' \ (decided' \cup suppressed'), IsOpen(issues', j), Owed(j)
               PROVE  \/ HasOccurrence(issues', j, Run)
                      \/ \E i \in From .. SitePasses : Checks(i, j)
    BY <1>1, <2>1 DEF SettledInv, SettledFrom
  <2>2. j \in DOMAIN issues \ (decided \cup suppressed) /\ issues'[j] = issues[j]
    BY <1>1, <1>3, <1>4
  <2>3. IsOpen(issues, j)
    BY <1>4, <2>2 DEF IsOpen, StatusOf
  <2>4. HasOccurrence(issues, j, Run) \/ \E i \in From .. SitePasses : Checks(i, j)
    BY <2>2, <2>3 DEF IInv, SettledInv, SettledFrom
  <2> QED
    BY <1>4, <2>2, <2>4 DEF HasOccurrence
<1> QED
  BY <1>7, <1>8, <1>9, <1>10, <1>11 DEF IInv

-----------------------------------------------------------------------------
(* The steps that make a frontier *)

\* Every page asked for is among the entries.
LEMMA AllEntered ==
    ASSUME NEW pages \in SUBSET Pages, NEW rows \in [Pages -> UrlRow], NEW entries,
           entries = Entries(pages, rows)
    PROVE  \A p \in pages : \E i \in DOMAIN entries : entries[i].page = p
<1>1. \A p \in pages : \E i \in DOMAIN Entries(pages, rows) : Entries(pages, rows)[i].page = p
  BY EntriesFacts
<1> QED
  BY <1>1

LEMMA StartIStep ==
    ASSUME Inv, IInv, NEW max \in Maxima, StartCrawl(max)
    PROVE  IInv'
<1>1. Typed /\ RunsRise /\ Run \in Nat
  BY DEF Inv, Typed, Run
<1>2. Run' = Run + 1
  BY <1>1 DEF StartCrawl, Typed, Run
<1>3. UNCHANGED <<world, sources, shots, changes, listing, issues, suppressed, decided>>
  BY DEF StartCrawl
<1>4. Stored' = Stored /\ \A p, n : HasShot(p, n)' = HasShot(p, n)
  BY <1>3 DEF Stored, HasShot
<1>5. IssuesInv'
  BY <1>3, <1>4 DEF IInv, IssuesInv
<1>6. RowsInv'
  <2>1. row' = [p \in Pages |-> [row[p] EXCEPT !.depth = IF p = Root THEN 0 ELSE NoDepth]]
    BY DEF StartCrawl
  <2>2. \A p \in Pages : row[p] \in UrlRow
    BY <1>1 DEF Typed
  <2>3. \A p \in Pages : row'[p].status = row[p].status
    BY <2>1, <2>2 DEF UrlRow
  <2> QED
    BY <1>3, <1>4, <2>3 DEF IInv, RowsInv
<1>7. \A p \in Pages : ~ HasShot(p, Run)'
  <2> SUFFICES ASSUME NEW p \in Pages, NEW i \in DOMAIN shots[p], shots[p][i].run = Run + 1 PROVE FALSE
    BY <1>2, <1>3 DEF HasShot
  <2>1. shots[p][i].run <= Run
    BY <1>1 DEF RunsRise
  <2> QED
    BY <1>1, <2>1
<1>8. PICK pages : pages = {p \in known' : Url[p].html}
  OBVIOUS
<1>9. PICK rows : rows = row'
  OBVIOUS
<1>10. job' = [phase |-> "pages", source |-> Run + 1, max |-> max, visited |-> {},
               resumed |-> FALSE, pass |-> 0, pending |-> Entries(pages, rows)]
  BY <1>8, <1>9 DEF StartCrawl
<1>11. PhaseInv'
  BY <1>1, <1>2, <1>10 DEF PhaseInv, SitePasses
<1>12. QueueInv'
  <2>1. Inv'
    BY StartStep
  <2>2. pages \in SUBSET Pages /\ rows \in [Pages -> UrlRow]
    BY <1>8, <1>9, <2>1 DEF Inv, Typed
  <2>3. \A p \in pages : IsQueued(p)'
    <3>1. PICK entries : entries = Entries(pages, rows)
      OBVIOUS
    <3>2. \A p \in pages : \E i \in DOMAIN entries : entries[i].page = p
      BY <2>2, <3>1, AllEntered
    <3>3. job'.pending = entries
      BY <1>10, <3>1
    <3> QED
      BY <3>2, <3>3 DEF IsQueued
  <2>4. ASSUME NEW p \in Stored, Url[p].html PROVE IsQueued(p)'
    <3>1. p \in known'
      BY <1>1 DEF Stored, RunsRise, StartCrawl
    <3> QED
      BY <1>8, <2>3, <2>4, <3>1
  <2>5. \A p \in Stored : ~ HasShot(p, Run)'
    BY <1>7 DEF Stored
  <2> QED
    BY <1>4, <1>10, <2>4, <2>5 DEF QueueInv
<1>13. SettledInv'
  <2> SUFFICES ASSUME NEW k \in DOMAIN issues, Owed(k)'
               PROVE  \E i \in From' .. SitePasses : Checks(i, k)
    BY <1>3 DEF SettledInv, SettledFrom
  <2>1. k[1] \notin Pages /\ KeyOK(k, Stored)
    BY <1>7 DEF Owed, IInv, IssuesInv
  <2>2. From' = 1
    BY <1>10 DEF From
  <2>3. k[1] \notin Stored
    BY <2>1 DEF Stored
  <2>4. CASE k[1] = Site
    BY <2>1, <2>2, <2>3, <2>4, SitesAssumption DEF KeyOK, Checks, WholePasses, SitePasses, Site, Clusters
  <2>5. CASE k[1] = Clusters /\ k[2] \in ClusterableTypes
    <3>1. Checks(17, k)
      BY <2>5 DEF Checks, PassTypes
    <3> QED
      BY <2>2, <3>1 DEF SitePasses
  <2> QED
    BY <2>1, <2>3, <2>4, <2>5 DEF KeyOK
<1>14. Bounded'
  <2>1. listed' = [p \in Pages |-> IF p \in world.sitemap THEN Run + 1 ELSE listed[p]]
        /\ known \subseteq known' /\ Run < world.bounds.crawls /\ job'.visited = {}
    BY <1>10 DEF StartCrawl
  <2>2. listed' \in [Pages -> 0 .. Run + 1]
    BY <1>1, <2>1 DEF IInv, Bounded
  <2>3. \A c \in changes : c[1] \in known' /\ c[2] \in 1 .. Run + 1
    BY <1>1, <2>1 DEF IInv, Bounded
  <2>4. world.bounds.crawls \in Nat
    BY <1>1 DEF Typed, Website
  <2>5. Run + 1 <= world.bounds.crawls
    BY <1>1, <2>1, <2>4
  <2> QED
    BY <1>2, <1>3, <2>1, <2>2, <2>3, <2>5 DEF IInv, Bounded
<1> QED
  BY <1>5, <1>6, <1>11, <1>12, <1>13, <1>14 DEF IInv

LEMMA ResumeIStep ==
    ASSUME Inv, IInv, ResumeCrawl
    PROVE  IInv'
<1>1. Typed /\ RunsRise /\ Run \in Nat
  BY DEF Inv, Typed, Run
<1>2. SameWebsite /\ world' = world /\ job.phase = "stopped"
  BY DEF ResumeCrawl, stored, SameWebsite
<1>3. Run' = Run
  BY <1>1, RunStatus DEF ResumeCrawl
<1>4. PICK done : done = {p \in known : Url[p].html /\ \E i \in DOMAIN shots[p] : shots[p][i].run = Run}
  OBVIOUS
<1>5. PICK pages : pages = {p \in known : Url[p].html} \ done
  OBVIOUS
<1>6. PICK entries : entries = Entries(pages, row)
  OBVIOUS
<1>7. \A p \in pages : \E i \in DOMAIN entries : entries[i].page = p
  <2>1. pages \in SUBSET Pages /\ row \in [Pages -> UrlRow]
    BY <1>1, <1>5 DEF Typed
  <2> QED
    BY <1>6, <2>1, AllEntered
<1>8. job' = [job EXCEPT !.phase = "pages", !.resumed = TRUE, !.visited = done,
                         !.source = Run, !.pass = 0, !.pending = entries]
  BY <1>4, <1>5, <1>6 DEF ResumeCrawl
<1>9. /\ job'.phase = "pages" /\ job'.visited = done /\ job'.source = Run /\ job'.pass = 0
      /\ job'.pending = entries
  BY <1>1, <1>8 DEF Typed, Job
<1>10. RowsInv' /\ IssuesInv'
  BY <1>2, <1>3, SameFacts DEF IInv
<1>11. PhaseInv'
  BY <1>2, <1>3, <1>9 DEF IInv, PhaseInv, SitePasses
<1>12. \A p : HasShot(p, Run)' <=> HasShot(p, Run)
  BY <1>2, <1>3 DEF SameWebsite, HasShot
<1>13. QueueInv'
  <2>1. Stored' = Stored /\ sources' = sources
    BY <1>2, <1>3, SameFacts DEF SameWebsite
  <2>2. ASSUME NEW p \in Stored, Url[p].html PROVE HasShot(p, Run) \/ IsQueued(p)'
    <3>1. p \in known
      BY <1>1 DEF Stored, RunsRise
    <3>2. p \in done \/ p \in pages
      BY <1>5, <2>2, <3>1
    <3> QED
      BY <1>4, <1>7, <1>9, <3>2 DEF IsQueued, HasShot
  <2> QED
    BY <1>2, <1>9, <1>12, <2>1, <2>2 DEF IInv, QueueInv, Crawling
<1>14. SettledInv'
  <2>1. From = 1 /\ From' = 1 /\ Crawling
    BY <1>2, <1>9 DEF From, Crawling
  <2> QED
    BY <1>2, <1>3, <2>1, SameFacts DEF IInv, SettledInv
<1>15. Bounded'
  BY <1>2, <1>3, <1>4, <1>9 DEF IInv, Bounded, SameWebsite
<1> QED
  BY <1>10, <1>11, <1>13, <1>14, <1>15 DEF IInv

-----------------------------------------------------------------------------
(* The step that stores a page, and what is open after it *)

\* What a step that stores a page adds.
Adds(p, shot, targets, assets) ==
    /\ known \subseteq known' /\ known' \subseteq Pages /\ targets \subseteq known'
    /\ sources \in [Pages -> SUBSET known]
    /\ sources' = [sources EXCEPT ![p] = targets] /\ sources[p] \subseteq targets
    /\ assets = {t \in targets : ~ Url[t].html /\ ~ HasShot(t, Run)}
    /\ Stores({p} \cup assets) /\ p \notin assets
    /\ Stored' = Stored \cup {p} \cup assets
    /\ \A q \in Pages : HasShot(q, Run)' <=> HasShot(q, Run) \/ q \in {p} \cup assets
    /\ \A q \in Pages \ ({p} \cup assets) : shots'[q] = shots[q]
    /\ Last(shots'[p]) = shot
    /\ ~ FailedIn(Run)' =>
         /\ ~ FailedIn(Run) /\ Fetched(shot)
         /\ \A q \in assets : Fetched(Fetch(world.answers, q, Run))

LEMMA StoringFacts ==
    ASSUME Inv, NEW p \in Pages, NEW shot \in Shot, NEW depth \in Nat, NEW targets, NEW assets,
           Storing(p, shot, targets, assets, depth), UNCHANGED <<world, runs>>
    PROVE  Adds(p, shot, targets, assets)
<1>1. Typed /\ RunsRise /\ Run \in Nat
  BY DEF Inv, Typed, Run
<1>2. Store(p, depth, shot, PreviousShot(p, shot), targets, assets)
  BY DEF Storing
<1>3. known' = known \cup Referenced(p, shot) /\ known' \subseteq Pages /\ targets \subseteq known'
  <2>1. known' = known \cup Referenced(p, shot)
    BY <1>2 DEF Store
  <2>2. sources[p] \subseteq known /\ known \subseteq Pages
    BY <1>1 DEF Typed
  <2>3. targets = sources[p] \cup Targets(p, shot)
    BY DEF Storing
  <2> QED
    BY <2>1, <2>2, <2>3, ReferencedFacts
<1>4. sources' = [sources EXCEPT ![p] = targets] /\ sources[p] \subseteq targets
      /\ sources \in [Pages -> SUBSET known]
  BY <1>1, <1>2 DEF Store, Storing, Typed
<1>5. assets = {t \in targets : ~ Url[t].html /\ ~ HasShot(t, Run)}
  BY DEF Storing, AssetsOf, HasShot
<1>6. p \notin assets
  BY <1>5 DEF Storing
<1>7. PICK added : added = {p} \cup assets
  OBVIOUS
<1>8. added \in SUBSET Pages
  BY <1>3, <1>5, <1>7
<1>9. Stores(added)
  <2>1. shots' = [q \in Pages |-> IF q = p THEN Append(shots[q], shot)
                                  ELSE IF q \in assets
                                  THEN Append(shots[q], Fetch(world.answers, q, Run)) ELSE shots[q]]
    BY <1>2 DEF Store
  <2>2. shot = Fetch(world.answers, p, Run)
    BY DEF Storing
  <2> QED
    BY <1>7, <2>1, <2>2 DEF Stores
<1>10. /\ shots' \in [Pages -> Seq(Shot)]
       /\ \A q \in Pages \ added : shots'[q] = shots[q]
       /\ \A q \in added :
            /\ DOMAIN shots'[q] = 1 .. Len(shots[q]) + 1
            /\ shots'[q][Len(shots[q]) + 1] = Fetch(world.answers, q, Run)
            /\ \A i \in 1 .. Len(shots[q]) : shots'[q][i] = shots[q][i]
       /\ \A q \in Pages : DOMAIN shots[q] = 1 .. Len(shots[q]) /\ Len(shots[q]) \in Nat
       /\ \A q \in Pages : Fetch(world.answers, q, Run).run = Run
  BY <1>1, <1>8, <1>9, StoresFacts
<1>11. Stored' = Stored \cup added
  <2>1. \A q \in added : shots'[q] # <<>>
    <3> SUFFICES ASSUME NEW q \in added PROVE shots'[q] # <<>>
      OBVIOUS
    <3>1. Len(shots[q]) + 1 \in DOMAIN shots'[q]
      BY <1>8, <1>10
    <3> QED
      BY <3>1
  <2> QED
    BY <1>8, <1>10, <2>1 DEF Stored
<1>12. \A q \in Pages : HasShot(q, Run)' <=> HasShot(q, Run) \/ q \in added
  <2>1. \A q \in Pages : \A n : HasShot(q, n)' <=> HasShot(q, n) \/ (q \in added /\ n = Run)
    BY <1>1, <1>8, <1>9, StoresHas
  <2>2. Run' = Run
    BY DEF Run
  <2> QED
    BY <2>1, <2>2 DEF HasShot
<1>13. Last(shots'[p]) = shot
  <2>1. shots'[p] \in Seq(Shot) /\ DOMAIN shots'[p] = 1 .. Len(shots[p]) + 1 /\ Len(shots[p]) \in Nat
    BY <1>7, <1>10
  <2>2. Len(shots'[p]) = Len(shots[p]) + 1
    BY <2>1
  <2>3. shots'[p][Len(shots[p]) + 1] = shot
    BY <1>7, <1>10 DEF Storing
  <2> QED
    BY <2>2, <2>3 DEF Last
<1>14. ASSUME ~ FailedIn(Run)'
       PROVE  ~ FailedIn(Run) /\ \A q \in added : Fetched(Fetch(world.answers, q, Run))
  <2>1. \A q \in known' : \A i \in DOMAIN shots'[q] : shots'[q][i].run = Run => Fetched(shots'[q][i])
    <3>1. Run' = Run
      BY DEF Run
    <3> QED
      BY <1>14, <3>1 DEF FailedIn
  <2>2. \A q \in known : \A i \in DOMAIN shots[q] : i \in DOMAIN shots'[q] /\ shots'[q][i] = shots[q][i]
    <3> SUFFICES ASSUME NEW q \in known, NEW i \in DOMAIN shots[q]
                 PROVE  i \in DOMAIN shots'[q] /\ shots'[q][i] = shots[q][i]
      OBVIOUS
    <3>1. q \in Pages /\ i \in 1 .. Len(shots[q]) /\ Len(shots[q]) \in Nat
      BY <1>3, <1>10
    <3> QED
      BY <1>10, <3>1
  <2>3. \A q \in known : \A i \in DOMAIN shots[q] : shots[q][i].run = Run => Fetched(shots[q][i])
    BY <1>3, <2>1, <2>2
  <2>4. ASSUME NEW q \in added PROVE Fetched(Fetch(world.answers, q, Run))
    <3>1. q \in known'
      BY <1>3, <1>5, <1>7 DEF Storing
    <3>2. Len(shots[q]) + 1 \in DOMAIN shots'[q]
      BY <1>8, <1>10
    <3> QED
      BY <1>8, <1>10, <2>1, <3>1, <3>2
  <2> QED
    BY <2>3, <2>4 DEF FailedIn
<1>15. shot = Fetch(world.answers, p, Run)
  BY DEF Storing
<1> QED
  BY <1>3, <1>4, <1>5, <1>6, <1>7, <1>9, <1>10, <1>11, <1>12, <1>13, <1>14, <1>15 DEF Adds

LEMMA FetchIStep ==
    ASSUME Inv, IInv, FetchPage
    PROVE  IInv'
<1>1. Typed /\ RunsRise /\ Waiting /\ Run \in Nat
  BY DEF Inv, Typed, Run
<1>2. /\ job.phase = "pages" /\ UNCHANGED <<world, listed, suppressed, runs, decided>> /\ Run' = Run
      /\ job \in Job /\ job.pending \in Seq(Entry) /\ row \in [Pages -> UrlRow]
  BY <1>1 DEF FetchPage, Run, Typed, Job
<1>3. PICK p \in Pages, shot \in Shot, depth \in Nat : \E targets, assets :
          Storing(p, shot, targets, assets, depth)
  BY FetchShape
<1>4. PICK targets, assets : Storing(p, shot, targets, assets, depth)
  BY <1>3
<1>5. PICK added : added = {p} \cup assets
  OBVIOUS
<1>6. /\ known \subseteq known' /\ known' \subseteq Pages /\ targets \subseteq known'
      /\ sources \in [Pages -> SUBSET known]
      /\ sources' = [sources EXCEPT ![p] = targets] /\ sources[p] \subseteq targets
      /\ assets = {t \in targets : ~ Url[t].html /\ ~ HasShot(t, Run)}
      /\ Stored' = Stored \cup added
      /\ \A q \in Pages : HasShot(q, Run)' <=> HasShot(q, Run) \/ q \in added
      /\ \A q \in Pages \ added : shots'[q] = shots[q]
      /\ Last(shots'[p]) = shot
      /\ ~ FailedIn(Run)' =>
           /\ ~ FailedIn(Run) /\ Fetched(shot)
           /\ \A q \in assets : Fetched(Fetch(world.answers, q, Run))
  <2>1. UNCHANGED <<world, runs>>
    BY <1>2
  <2>2. Adds(p, shot, targets, assets)
    BY <1>3, <1>4, <2>1, StoringFacts, Zenon
  <2> QED
    BY <1>5, <2>2 DEF Adds
<1>7. p \in known /\ Url[p].html /\ ~ HasShot(p, Run) /\ p \in Stored'
  BY <1>4, <1>5, <1>6 DEF Storing
<1>8. Store(p, depth, shot, PreviousShot(p, shot), targets, assets) /\ depth \in 0 .. NoDepth
  BY <1>4 DEF Storing
<1>9. PICK k : k = NextEntry
  OBVIOUS
<1>10. k \in DOMAIN job.pending /\ job.pending[k].page = p
  BY <1>4, <1>9 DEF Storing
<1>11. PICK pending : pending = RemoveAt(job.pending, k)
  OBVIOUS
<1>12. /\ pending \in Seq(Entry) /\ EachOnce(pending)
       /\ \A j \in DOMAIN job.pending \ {k} : \E i \in DOMAIN pending : pending[i] = job.pending[j]
  <2>1. PICK all : all = job.pending
    OBVIOUS
  <2>2. /\ pending \in Seq(Entry)
        /\ \A i \in DOMAIN pending :
             /\ (IF i < k THEN i ELSE i + 1) \in DOMAIN all \ {k}
             /\ pending[i] = all[IF i < k THEN i ELSE i + 1]
        /\ \A j \in DOMAIN all \ {k} : \E i \in DOMAIN pending : pending[i] = all[j]
    BY <1>2, <1>10, <1>11, <2>1, RemoveAtFacts
  <2>3. \A i, j \in DOMAIN all : all[i].page = all[j].page => i = j
    BY <1>1, <1>2, <2>1 DEF Waiting
  <2>4. ASSUME NEW i \in DOMAIN pending, NEW j \in DOMAIN pending, pending[i].page = pending[j].page
        PROVE  i = j
    <3>1. (IF i < k THEN i ELSE i + 1) = (IF j < k THEN j ELSE j + 1)
      BY <2>2, <2>3, <2>4
    <3>2. i \in Int /\ j \in Int /\ k \in Int
      BY <1>2, <1>10, <2>2
    <3> QED
      BY <3>1, <3>2
  <2> QED
    BY <2>1, <2>2, <2>4 DEF EachOnce
<1>13. PICK old : old = IF depth = NoDepth THEN row ELSE [row EXCEPT ![p].depth = depth]
  OBVIOUS
<1>14. old \in [Pages -> UrlRow] /\ \A q \in Pages \ {p} : old[q] = row[q]
  <2>1. [row[p] EXCEPT !.depth = depth] \in UrlRow
    BY <1>2, <1>8, DeeperRow
  <2>2. [row EXCEPT ![p].depth = depth] = [row EXCEPT ![p] = [row[p] EXCEPT !.depth = depth]]
    OBVIOUS
  <2> QED
    BY <1>2, <1>13, <2>1, <2>2
<1>15. PICK rows : rows = StoreRow(old, p, shot)
  OBVIOUS
<1>16. rows \in [Pages -> UrlRow] /\ \A q \in Pages \ {p} : rows[q] = row[q]
  BY <1>14, <1>15, StoreRowFacts
<1>17. PICK follow : follow = {t \in targets : Url[t].html}
  OBVIOUS
<1>18. PICK visited : visited = job.visited \cup {p}
  OBVIOUS
<1>19. PICK next : /\ next = Followings(rows, pending, follow, depth, visited)
                   /\ row' = next.row
                   /\ job' = [job EXCEPT !.pending = next.pending, !.visited = visited]
  BY <1>8, <1>9, <1>11, <1>13, <1>15, <1>17, <1>18 DEF Store
<1>20. /\ \A j \in DOMAIN pending : \E i \in DOMAIN next.pending : next.pending[i].page = pending[j].page
       /\ \A q \in Pages : next.row[q].status = rows[q].status
  <2>1. follow \in SUBSET Pages
    BY <1>6, <1>17
  <2>2. Follows(next, pending, follow, visited)
        /\ \A q \in Pages : next.row[q].status = rows[q].status
    BY <1>12, <1>16, <1>19, <2>1, FollowingsFacts
  <2> QED
    BY <2>2 DEF Follows
<1>21. /\ job'.pending = next.pending /\ job'.visited = visited
       /\ job'.phase = "pages" /\ job'.pass = job.pass /\ job'.source = job.source
  BY <1>2, <1>19 DEF Job
<1>22. \A q \in Pages \ {p} : row'[q].status = row[q].status
  BY <1>16, <1>19, <1>20
<1>23. PhaseInv'
  BY <1>2, <1>21 DEF IInv, PhaseInv
<1>24. RowsInv'
  <2> SUFFICES ASSUME NEW q \in Pages
               PROVE  /\ row'[q].status # 0 \/ sources'[q] # {} => Url[q].html /\ q \in Stored'
                      /\ ~ Url[q].html /\ q \in Stored' => \E r \in Pages : q \in sources'[r]
    BY DEF RowsInv
  <2>1. CASE q = p
    BY <1>7, <2>1
  <2>2. CASE q # p
    <3>1. row'[q].status # 0 \/ sources'[q] # {} => Url[q].html /\ q \in Stored'
      BY <1>6, <1>22, <2>2 DEF IInv, RowsInv
    <3>2. \A r \in Pages : sources[r] \subseteq sources'[r]
      BY <1>6
    <3>3. q \in assets => q \in sources'[p]
      BY <1>6
    <3>4. ~ Url[q].html /\ q \in Stored' => \E r \in Pages : q \in sources'[r]
      <4>1. q \in Stored' => q \in Stored \/ q \in assets
        BY <1>5, <1>6, <2>2
      <4>2. ~ Url[q].html /\ q \in Stored => \E r \in Pages : q \in sources[r]
        BY DEF IInv, RowsInv
      <4> QED
        BY <3>2, <3>3, <4>1, <4>2
    <3> QED
      BY <3>1, <3>4
  <2> QED
    BY <2>1, <2>2
<1>25. QueueInv'
  <2>1. ASSUME NEW q \in Stored', Url[q].html PROVE HasShot(q, Run)' \/ IsQueued(q)'
    <3>1. q \in Pages
      BY <1>5, <1>6, <2>1 DEF Stored
    <3>2. CASE q \in added
      BY <1>6, <3>1, <3>2
    <3>3. CASE q \notin added
      <4>1. q \in Stored /\ q # p
        BY <1>5, <1>6, <3>3
      <4>2. HasShot(q, Run) \/ IsQueued(q)
        BY <1>2, <2>1, <4>1 DEF IInv, QueueInv
      <4>3. CASE HasShot(q, Run)
        BY <1>6, <3>1, <4>3
      <4>4. CASE IsQueued(q)
        <5>1. PICK j \in DOMAIN job.pending : job.pending[j].page = q
          BY <4>4 DEF IsQueued
        <5>2. j \in DOMAIN job.pending \ {k}
          BY <1>10, <4>1, <5>1
        <5>3. PICK i \in DOMAIN pending : pending[i].page = q
          BY <1>12, <5>1, <5>2
        <5>4. PICK m \in DOMAIN next.pending : next.pending[m].page = q
          BY <1>20, <5>3
        <5> QED
          BY <1>21, <5>4 DEF IsQueued
      <4> QED
        BY <4>2, <4>3, <4>4
    <3> QED
      BY <3>2, <3>3
  <2>2. ASSUME NEW q \in Stored', Url[q].html, HasShot(q, Run)', NEW t \in sources'[q], ~ Url[t].html
        PROVE  HasShot(t, Run)'
    <3>1. q \in Pages
      BY <1>5, <1>6, <2>2 DEF Stored
    <3>2. CASE q = p
      <4>1. t \in targets /\ t \in Pages
        BY <1>6, <2>2, <3>2
      <4> QED
        BY <1>5, <1>6, <2>2, <4>1
    <3>3. CASE q # p
      <4>1. q \notin added
        BY <1>5, <1>6, <2>2, <3>3
      <4>2. HasShot(q, Run) /\ q \in Stored /\ t \in sources[q] /\ t \in Pages
        BY <1>6, <2>2, <3>1, <3>3, <4>1
      <4>3. HasShot(t, Run)
        BY <1>2, <2>2, <4>2 DEF IInv, QueueInv, Crawling
      <4> QED
        BY <1>6, <4>2, <4>3
    <3> QED
      BY <3>2, <3>3
  <2> QED
    BY <1>21, <2>1, <2>2 DEF QueueInv
<1>26. PICK previous, inbound, answering, audits, reports :
         /\ answering = Answering(assets) /\ audits = Audits(answering)
         /\ reports = ReportsOf(p, shot, previous, inbound, audits)
         /\ issues' = Reconciled(issues, reports, Run)
  BY <1>8 DEF Store
<1>27. /\ IsList(reports)
       /\ \A i \in DOMAIN reports : \A j \in ShownKeys(reports[i]) : KeyOK(j, Stored')
       /\ Fetched(shot) => \A t \in PageChecked : \E i \in DOMAIN reports : ChecksKey(reports[i], <<p, t>>)
       /\ Fetched(shot) /\ ~ ServesHtml(shot)
            => \A t \in AssetTypes : \E i \in DOMAIN reports : ChecksKey(reports[i], <<p, t>>)
       /\ \A q \in assets : Fetched(Fetch(world.answers, q, Run)) =>
            \A t \in AssetTypes : \E i \in DOMAIN reports : ChecksKey(reports[i], <<q, t>>)
  <2>1. PICK pages : pages = Stored'
    OBVIOUS
  <2>2. pages \in SUBSET Pages /\ p \in pages /\ assets \in SUBSET pages
    BY <1>5, <1>6, <1>7, <2>1 DEF Stored
  <2>3. /\ IsList(reports)
        /\ \A i \in DOMAIN reports : \A j \in ShownKeys(reports[i]) : KeyOK(j, pages)
        /\ Fetched(shot) => \A t \in PageChecked : \E i \in DOMAIN reports : ChecksKey(reports[i], <<p, t>>)
        /\ Fetched(shot) /\ ~ ServesHtml(shot)
             => \A t \in AssetTypes : \E i \in DOMAIN reports : ChecksKey(reports[i], <<p, t>>)
        /\ \A q \in assets : Fetched(Fetch(world.answers, q, Run)) =>
             \A t \in AssetTypes : \E i \in DOMAIN reports : ChecksKey(reports[i], <<q, t>>)
    BY <1>1, <1>26, <2>2, ReportsOfFacts
  <2> QED
    BY <2>1, <2>3
<1>28. RowsOK(issues) /\ suppressed \subseteq DOMAIN issues /\ \A j \in DOMAIN issues : KeyOK(j, Stored)
  BY DEF IInv, IssuesInv
<1>29. PICK new : new = issues'
  OBVIOUS
<1>30. /\ Evolves(issues, new, Run)
       /\ \A j \in DOMAIN new \ DOMAIN issues : \E i \in DOMAIN reports : j \in ShownKeys(reports[i])
       /\ \A i \in DOMAIN reports : \A j :
            j \notin suppressed /\ ChecksKey(reports[i], j) => Settled(new, j, Run)
  <2>1. Follow(issues, new, reports, Run)
    BY <1>26, <1>27, <1>28, <1>29, ReconciledFacts
  <2> QED
    BY <2>1 DEF Follow
<1>31. \A j \in DOMAIN new : KeyOK(j, Stored')
  <2>1. \A j \in DOMAIN issues : KeyOK(j, Stored')
    BY <1>6, <1>28 DEF KeyOK
  <2> QED
    BY <1>27, <1>30, <2>1
<1>32. IssuesInv'
  BY <1>2, <1>28, <1>29, <1>30, <1>31 DEF IssuesInv, Evolves
<1>33. SettledInv'
  <2> SUFFICES ASSUME ~ FailedIn(Run)', NEW j \in DOMAIN new \ (decided \cup suppressed),
                      IsOpen(new, j), Owed(j)'
               PROVE  HasOccurrence(new, j, Run) \/ \E i \in 1 .. SitePasses : Checks(i, j)
    <3>1. From' = 1
      BY <1>21 DEF From
    <3> QED
      BY <1>2, <1>29, <3>1 DEF SettledInv, SettledFrom
  <2>1. \A i \in DOMAIN reports : ChecksKey(reports[i], j) => HasOccurrence(new, j, Run)
    BY <1>30 DEF Settled
  <2>2. KeyOK(j, Stored')
    BY <1>31
  <2>3. ~ FailedIn(Run) /\ Fetched(shot) /\ \A q \in assets : Fetched(Fetch(world.answers, q, Run))
    BY <1>6
  <2>4. CASE j[1] = p
    <3>1. j = <<p, j[2]>> /\ j[2] \in PageTypes /\ j[2] \notin NeverMissed
      BY <2>2, <2>4, SitesAssumption DEF KeyOK, Owed, Site, Clusters
    <3>2. CASE j[2] \in PageChecked
      BY <1>27, <2>1, <2>3, <3>1, <3>2
    <3>3. CASE j[2] \in AssetTypes
      <4>1. ~ ServesHtml(shot)
        BY <1>6, <1>7, <2>4, <3>3 DEF Owed, LooksAt
      <4> QED
        BY <1>27, <2>1, <2>3, <3>1, <3>3, <4>1
    <3>4. CASE \E i \in PagePasses : j[2] \in PassTypes(i)
      <4>1. \E i \in PagePasses : Checks(i, j)
        BY <2>4, <3>4 DEF Checks
      <4> QED
        BY <4>1 DEF PagePasses, SitePasses
    <3> QED
      BY <3>1, <3>2, <3>3, <3>4 DEF PageTypes, PageChecked
  <2>5. CASE j[1] \in assets
    <3>1. j[1] \in Pages /\ ~ Url[j[1]].html
      BY <1>6, <2>5
    <3>2. j = <<j[1], j[2]>> /\ j[2] \in AssetTypes
      BY <2>2, <3>1 DEF KeyOK, Owed, LooksAt
    <3> QED
      BY <1>27, <2>1, <2>3, <2>5, <3>2
  <2>6. CASE j[1] \notin added
    <3>1. Owed(j)
      <4>1. ASSUME j[1] \in Pages PROVE LooksAt(j) /\ HasShot(j[1], Run)
        <5>1. shots'[j[1]] = shots[j[1]]
          BY <1>6, <2>6, <4>1
        <5> QED
          BY <1>6, <2>6, <4>1, <5>1 DEF Owed, LooksAt
      <4> QED
        BY <4>1 DEF Owed
    <3>2. CASE IsOpen(issues, j)
      <4>1. j \in DOMAIN issues
        BY <3>2 DEF IsOpen, StatusOf, Open
      <4>2. From = 1 /\ Crawling
        BY <1>2 DEF From, Crawling
      <4>3. HasOccurrence(issues, j, Run) \/ \E i \in 1 .. SitePasses : Checks(i, j)
        BY <2>3, <3>1, <3>2, <4>1, <4>2 DEF IInv, SettledInv, SettledFrom
      <4> QED
        BY <1>30, <4>3 DEF Evolves
    <3> QED
      BY <1>30, <3>2 DEF Evolves
  <2> QED
    BY <1>5, <2>4, <2>5, <2>6
<1>34. Bounded'
  <2>1. listing' \in [Pages -> Lifecycles]
    <3>1. listing' = IF Fetched(shot) THEN [listing EXCEPT ![p] = Listed(p, shot)] ELSE listing
      BY <1>8 DEF Store
    <3>2. listing \in [Pages -> Lifecycles]
      BY DEF IInv, Bounded
    <3>3. Listed(p, shot) \in Lifecycles
      BY <3>2 DEF Listed, Lifecycle, Lifecycles
    <3> QED
      BY <3>1, <3>2, <3>3
  <2>2. changes' = changes \cup {<<p, Run, t>> : t \in ChangesSince(p, shot, PreviousShot(p, shot))}
    BY <1>8 DEF Store
  <2>3. Run \in 1 .. Run
    BY <1>1, <1>2 DEF IInv, PhaseInv
  <2>4. \A c \in changes' : c[1] \in known' /\ c[2] \in 1 .. Run
    BY <1>6, <1>7, <2>2, <2>3 DEF IInv, Bounded
  <2>5. job'.visited \subseteq known'
    BY <1>6, <1>7, <1>18, <1>21 DEF IInv, Bounded
  <2> QED
    BY <1>2, <2>1, <2>4, <2>5 DEF IInv, Bounded
<1> QED
  BY <1>23, <1>24, <1>25, <1>32, <1>33, <1>34 DEF IInv

-----------------------------------------------------------------------------
(* The analyses, and what is open after each *)

LEMMA PassFacts ==
    ASSUME Typed, PhaseInv, AnalyseSite
    PROVE  /\ Pass \in 1 .. SitePasses /\ job.phase \in {"pages", "analyses", "recalculating"}
           /\ job.phase = "analyses" => Pass = job.pass
           /\ job.phase = "pages" /\ job.pending = <<>> => Pass = 1
<1>1. job.phase \in {"pages", "analyses", "recalculating"}
  BY DEF AnalyseSite, PagesDone
<1>2. CASE job.phase = "pages"
  BY <1>2 DEF PhaseInv, Pass, FirstPass, Classification, SitePasses
<1>3. CASE job.phase \in {"analyses", "recalculating"}
  <2>1. job.pass \in 1 .. SitePasses /\ SitePasses = 20
    BY <1>3 DEF PhaseInv, SitePasses
  <2>2. Pass = job.pass
    BY <2>1 DEF Pass
  <2> QED
    BY <1>3, <2>1, <2>2
<1> QED
  BY <1>1, <1>2, <1>3

\* The rows after an analysis, and what it leaves to the later ones.
Examined(new) ==
    /\ Evolves(issues, new, job.source) /\ \A k \in DOMAIN new : KeyOK(k, Stored)
    /\ job.phase \in {"pages", "analyses"} /\ ~ FailedIn(Run)
         => SettledFrom(new, IF job.pending = <<>> THEN Pass + 1 ELSE 1)

LEMMA AnalysedFacts ==
    ASSUME Inv, IInv, AnalyseSite
    PROVE  Examined(issues')
<1>1. Typed /\ RunsRise /\ RowsInv /\ PhaseInv /\ RowsOK(issues)
      /\ \A k \in DOMAIN issues : KeyOK(k, Stored)
  BY DEF Inv, IInv, IssuesInv
<1>2. PICK i : i = Pass
  OBVIOUS
<1>3. /\ i \in 1 .. SitePasses
      /\ job.phase = "analyses" => i = job.pass
      /\ job.phase = "pages" /\ job.pending = <<>> => i = 1
  BY <1>1, <1>2, PassFacts
<1>4. PICK n : n = job.source
  OBVIOUS
<1>5. PICK w : w = StoredAs(n)
  OBVIOUS
<1>6. PICK report : report = SiteReport(w, i)
  OBVIOUS
<1>7. PICK mid : mid = Reconcile(issues, report, suppressed, n)
  OBVIOUS
<1>8. PICK new : new = issues'
  OBVIOUS
<1>9. new = IF i = 1 THEN ResolvedOrphans(mid, report.owners) ELSE mid
  <2>1. w.run = n
    BY <1>1, <1>5, WebsiteFacts
  <2> QED
    BY <1>2, <1>4, <1>5, <1>6, <1>7, <1>8, <2>1 DEF AnalyseSite
<1>10. /\ Evolves(issues, mid, n) /\ DOMAIN mid \subseteq DOMAIN issues \cup ShownKeys(report)
       /\ \A k : k \notin suppressed /\ ChecksKey(report, k) => Settled(mid, k, n)
  BY <1>1, <1>7, ReconcileFacts
<1>11. /\ Evolves(issues, new, n) /\ DOMAIN new = DOMAIN mid
       /\ \A k : Settled(mid, k, n) => Settled(new, k, n)
       /\ i = 1 => \A k : k[2] = "orphan_page" /\ k[1] \in Pages \ report.owners => ~ IsOpen(new, k)
  <2>1. CASE i # 1
    BY <1>9, <1>10, <2>1
  <2>2. CASE i = 1
    <3>1. new = ResolvedOrphans(mid, report.owners)
      BY <1>9, <2>2
    <3>2. RowsOK(mid)
      BY <1>10 DEF Evolves
    <3>3. /\ Evolves(mid, new, n) /\ DOMAIN new = DOMAIN mid
          /\ \A k : k[2] = "orphan_page" /\ k[1] \in Pages \ report.owners => ~ IsOpen(new, k)
      BY <3>1, <3>2, OrphansFacts
    <3>4. Evolves(issues, new, n) /\ \A k : Settled(mid, k, n) => Settled(new, k, n)
      BY <1>10, <3>3, EvolvesFurther
    <3> QED
      BY <3>3, <3>4
  <2> QED
    BY <2>1, <2>2
<1>12. \A k \in DOMAIN new : KeyOK(k, Stored)
  <2>1. \A k \in ShownKeys(report) : KeyOK(k, Stored)
    BY <1>1, <1>3, <1>5, <1>6, PassesKeys
  <2> QED
    BY <1>1, <1>10, <1>11, <2>1
<1>13. ASSUME NEW k, k \notin suppressed, Checks(i, k), k[1] \in Pages => HasShot(k[1], n)
       PROVE  Settled(new, k, n)
  <2>1. IF i = 1 THEN k[1] \in Pages /\ k[2] = "orphan_page" ELSE ChecksKey(report, k)
    BY <1>1, <1>3, <1>5, <1>6, <1>13, PassesCheck
  <2>2. CASE ChecksKey(report, k)
    BY <1>10, <1>11, <1>13, <2>2
  <2>3. CASE i = 1 /\ k[1] \in report.owners
    <3>1. report.checked = {"orphan_page"}
      BY <1>6, <2>3 DEF SiteReport, DetectOrphans, Report
    <3> QED
      BY <2>1, <2>2, <2>3, <3>1 DEF ChecksKey
  <2>4. CASE i = 1 /\ k[1] \notin report.owners
    BY <1>11, <2>1, <2>4 DEF Settled
  <2> QED
    BY <2>1, <2>2, <2>3, <2>4
<1>14. ASSUME job.phase \in {"pages", "analyses"}, ~ FailedIn(Run)
       PROVE  SettledFrom(new, IF job.pending = <<>> THEN i + 1 ELSE 1)
  <2>1. n = Run
    BY <1>1, <1>4, <1>14 DEF PhaseInv
  <2>2. PICK first : first = IF job.pending = <<>> THEN i + 1 ELSE 1
    OBVIOUS
  <2>3. SettledFrom(issues, From)
    BY <1>14 DEF IInv, SettledInv, Crawling
  <2>4. \A j \in From .. SitePasses : j \in first .. SitePasses \/ j = i
    <3>1. SitePasses = 20
      BY DEF SitePasses
    <3>2. CASE job.pending = <<>>
      <4>1. From = i /\ first = i + 1
        BY <1>3, <1>14, <2>2, <3>2 DEF From
      <4> QED
        BY <1>3, <3>1, <4>1
    <3>3. CASE job.pending # <<>>
      BY <2>2, <3>3 DEF From
    <3> QED
      BY <3>2, <3>3
  <2> SUFFICES ASSUME NEW k \in DOMAIN new \ (decided \cup suppressed), IsOpen(new, k), Owed(k)
               PROVE  HasOccurrence(new, k, Run) \/ \E j \in first .. SitePasses : Checks(j, k)
    BY <2>2 DEF SettledFrom
  <2>5. CASE IsOpen(issues, k)
    <3>1. k \in DOMAIN issues
      BY <2>5 DEF IsOpen, StatusOf, Open
    <3>2. HasOccurrence(issues, k, Run) \/ \E j \in From .. SitePasses : Checks(j, k)
      BY <2>3, <2>5, <3>1 DEF SettledFrom
    <3>3. CASE HasOccurrence(issues, k, Run)
      BY <1>11, <3>3 DEF Evolves
    <3>4. CASE \E j \in first .. SitePasses : Checks(j, k)
      BY <3>4
    <3>5. CASE Checks(i, k)
      <4>1. Settled(new, k, n)
        BY <1>13, <2>1, <3>5 DEF Owed
      <4> QED
        BY <2>1, <4>1 DEF Settled
    <3> QED
      BY <2>4, <3>2, <3>3, <3>4, <3>5
  <2> QED
    BY <1>11, <2>1, <2>5 DEF Evolves
<1> QED
  BY <1>2, <1>4, <1>8, <1>11, <1>12, <1>14 DEF Examined

LEMMA AnalyseIStep ==
    ASSUME Inv, IInv, AnalyseSite
    PROVE  IInv'
<1>1. Typed /\ PhaseInv /\ RowsInv /\ job \in Job /\ Run \in Nat
  BY DEF Inv, IInv, Typed, Run
<1>2. UNCHANGED <<world, known, row, listed, sources, shots, changes, listing, suppressed, decided>>
  BY DEF AnalyseSite, stored
<1>3. Examined(issues')
  BY AnalysedFacts
<1>4. /\ Pass \in 1 .. SitePasses /\ job.phase \in {"pages", "analyses", "recalculating"}
      /\ job.phase = "analyses" => Pass = job.pass
      /\ job.phase = "pages" /\ job.pending = <<>> => Pass = 1
  BY <1>1, PassFacts
<1>5. Run' = Run
  <2>1. CASE runs' = runs
    BY <2>1 DEF Run
  <2>2. CASE runs' = [runs EXCEPT ![Run] = Ended]
    <3>1. Ended \in {"running", "stopped", "succeeded", "partially_succeeded"}
      BY DEF Ended
    <3> QED
      BY <1>1, <2>2, <3>1, RunStatus
  <2> QED
    BY <2>1, <2>2 DEF AnalyseSite
<1>6. /\ job'.pending = job.pending /\ job'.visited = job.visited /\ job'.source = job.source
      /\ \/ /\ Pass < SitePasses /\ job'.pass = Pass + 1
            /\ job'.phase = IF job.phase = "pages" THEN "analyses" ELSE job.phase
         \/ Pass = SitePasses /\ job'.pass = 0 /\ job'.phase = "idle"
  <2>1. CASE Pass < SitePasses
    <3>1. job' = [job EXCEPT !.pass = Pass + 1, !.phase = IF @ = "pages" THEN "analyses" ELSE @]
      BY <2>1 DEF AnalyseSite
    <3> QED
      BY <1>1, <2>1, <3>1 DEF Job
  <2>2. CASE Pass = SitePasses
    <3>1. job' = [job EXCEPT !.pass = 0, !.phase = "idle"]
      BY <2>2 DEF AnalyseSite, SitePasses
    <3> QED
      BY <1>1, <2>2, <3>1 DEF Job
  <2> QED
    BY <1>4, <2>1, <2>2 DEF SitePasses
<1>7. Stored' = Stored /\ FailedIn(Run)' = FailedIn(Run)
      /\ (\A p, n : HasShot(p, n)' = HasShot(p, n)) /\ \A k : Owed(k)' = Owed(k)
  <2>1. Stored' = Stored
    BY <1>2 DEF Stored
  <2>2. ASSUME NEW p, NEW n PROVE HasShot(p, n)' = HasShot(p, n)
    BY <1>2 DEF HasShot
  <2>3. ASSUME NEW k PROVE Owed(k)' = Owed(k)
    BY <1>2, <1>5 DEF Owed, LooksAt, HasShot
  <2>4. FailedIn(Run)' = FailedIn(Run)
    BY <1>2, <1>5 DEF FailedIn
  <2> QED
    BY <2>1, <2>2, <2>3, <2>4
<1>8. PhaseInv'
  <2>1. SitePasses = 20 /\ Run' = Run /\ Run > 0
    BY <1>1, <1>4, <1>5 DEF PhaseInv, SitePasses
  <2>2. job.phase \in {"pages", "analyses"} => job.source = Run
    BY <1>1 DEF PhaseInv
  <2>3. CASE Pass = SitePasses /\ job'.pass = 0 /\ job'.phase = "idle"
    BY <2>1, <2>3 DEF PhaseInv
  <2>4. CASE /\ Pass < SitePasses /\ job'.pass = Pass + 1
             /\ job'.phase = IF job.phase = "pages" THEN "analyses" ELSE job.phase
    <3>1. Pass \in 1 .. 19 /\ (job.phase = "analyses" => Pass \in 2 .. 19)
      BY <1>1, <1>4, <2>1, <2>4 DEF PhaseInv
    <3>2. job'.pass \in 2 .. 20 /\ job'.source = job.source /\ job'.phase \in {"analyses", "recalculating"}
      BY <1>4, <1>6, <2>4, <3>1
    <3> QED
      BY <1>4, <2>1, <2>2, <2>4, <3>2 DEF PhaseInv
  <2> QED
    BY <1>6, <2>3, <2>4
<1>9. RowsInv'
  BY <1>1, <1>2, <1>7 DEF RowsInv
<1>10. IssuesInv'
  <2>1. PICK new : new = issues'
    OBVIOUS
  <2>2. RowsOK(new) /\ DOMAIN issues \subseteq DOMAIN new /\ \A k \in DOMAIN new : KeyOK(k, Stored)
    BY <1>3, <2>1 DEF Examined, Evolves
  <2>3. suppressed \subseteq DOMAIN issues
    BY DEF IInv, IssuesInv
  <2> QED
    BY <1>2, <1>7, <2>1, <2>2, <2>3 DEF IssuesInv
<1>11. QueueInv'
  <2>1. \A p : HasShot(p, Run)' <=> HasShot(p, Run)
    BY <1>2, <1>5 DEF HasShot
  <2>2. job'.phase # "pages" /\ (Crawling' => job.phase \in {"pages", "analyses"} /\ Crawling)
    BY <1>4, <1>6 DEF Crawling
  <2>3. ASSUME job'.phase = "analyses", job'.pending = <<>>, NEW p \in Stored, Url[p].html
        PROVE  HasShot(p, Run)
    <3>1. job.phase \in {"pages", "analyses"} /\ job.pending = <<>>
      BY <1>4, <1>6, <2>3
    <3>2. ~ IsQueued(p)
      BY <3>1 DEF IsQueued
    <3> QED
      BY <2>3, <3>1, <3>2 DEF IInv, QueueInv
  <2> QED
    BY <1>2, <1>7, <2>1, <2>2, <2>3 DEF IInv, QueueInv
<1>12. SettledInv'
  <2> SUFFICES ASSUME Crawling', ~ FailedIn(Run)' PROVE SettledFrom(issues, From)'
    BY DEF SettledInv
  <2>1. job.phase \in {"pages", "analyses"} /\ job'.phase = "analyses" /\ job'.pass = Pass + 1
    BY <1>4, <1>6 DEF Crawling
  <2>2. PICK new : new = issues'
    OBVIOUS
  <2>3. PICK first : first = IF job.pending = <<>> THEN Pass + 1 ELSE 1
    OBVIOUS
  <2>4. From' = first
    BY <1>6, <2>1, <2>3 DEF From
  <2>5. SettledFrom(new, first)
    BY <1>3, <1>7, <2>1, <2>2, <2>3 DEF Examined
  <2>6. ASSUME NEW k \in DOMAIN new \ (decided \cup suppressed), IsOpen(new, k), Owed(k)'
        PROVE  HasOccurrence(new, k, Run) \/ \E i \in first .. SitePasses : Checks(i, k)
    BY <1>7, <2>5, <2>6 DEF SettledFrom
  <2> QED
    BY <1>2, <1>5, <2>2, <2>4, <2>6 DEF SettledFrom
<1>13. Bounded'
  BY <1>2, <1>5, <1>6 DEF IInv, Bounded
<1> QED
  BY <1>8, <1>9, <1>10, <1>11, <1>12, <1>13 DEF IInv

-----------------------------------------------------------------------------
(* The recalculation *)

\* The rows of a recalculation are those of some reports about its pages.
LEMMA RecalculatedRows ==
    ASSUME Inv, NEW n \in DOMAIN runs, Recalculate(n)
    PROVE  \E given : /\ IsList(given) /\ issues' = Reconciled(issues, given, n)
                      /\ \A i \in DOMAIN given : \A k \in ShownKeys(given[i]) : KeyOK(k, Stored)
<1>1. Typed /\ RunsRise
  BY DEF Inv
<1>2. PICK w : w = StoredAs(n)
  OBVIOUS
<1>3. PICK previous : previous = [p \in Snapped(w) |-> PreviousShot(p, w.shot[p])]
  OBVIOUS
<1>4. PICK reports : reports = [p \in Snapped(w) |->
                         AnalyzeSnapshot(p, w.shot[p], previous[p],
                                         Cardinality({l \in w.links : l.to = p}),
                                         Contextual404Known(issues, p))]
  OBVIOUS
<1>5. PICK order : order = InOrder(Snapped(w))
  OBVIOUS
<1>6. PICK given : given = [i \in DOMAIN order |-> reports[order[i]]]
  OBVIOUS
<1>7. issues' = Reconciled(issues, given, w.run)
  <2>1. issues' = RecalculatedIssues(w, reports)
    BY <1>2, <1>3, <1>4, ZenonT(60) DEF Recalculate
  <2> QED
    BY <1>5, <1>6, <2>1 DEF RecalculatedIssues
<1>8. w.run = n /\ Snapped(w) \subseteq Stored /\ Stored \subseteq Pages
  BY <1>1, <1>2, WebsiteFacts DEF Stored
<1>9. order \in Seq(Snapped(w))
  <2>1. Snapped(w) \in SUBSET Pages
    BY <1>8
  <2> QED
    BY <1>5, <2>1, InOrderFacts
<1>10. IsList(given)
  <2>1. PICK T : T = {reports[order[i]] : i \in DOMAIN order}
    OBVIOUS
  <2>2. DOMAIN order = 1 .. Len(order) /\ Len(order) \in Nat
    BY <1>9
  <2>3. given \in [1 .. Len(order) -> T]
    BY <1>6, <2>1, <2>2
  <2>4. given \in Seq(T)
    BY <2>2, <2>3
  <2> QED
    BY <2>4 DEF IsList
<1>11. ASSUME NEW i \in DOMAIN given PROVE \A k \in ShownKeys(given[i]) : KeyOK(k, Stored)
  <2>1. i \in DOMAIN order /\ order[i] \in Snapped(w)
    BY <1>6, <1>9
  <2>2. PICK p : p = order[i]
    OBVIOUS
  <2>3. AllAbout(given[i].shown, {p}, PageChecked)
    BY <1>4, <1>6, <2>1, <2>2, SnapshotShows
  <2>4. p \in Stored
    BY <1>8, <2>1, <2>2
  <2> QED
    BY <2>3, <2>4 DEF AllAbout, KeyOK, ShownKeys, PageTypes, PageChecked
<1> QED
  BY <1>7, <1>8, <1>10, <1>11

LEMMA RecalculateIStep ==
    ASSUME Inv, IInv, NEW n \in DOMAIN runs, Recalculate(n)
    PROVE  IInv'
<1>1. Typed /\ RunsRise /\ RowsInv /\ PhaseInv /\ job \in Job /\ Run \in Nat
      /\ RowsOK(issues) /\ suppressed \subseteq DOMAIN issues
      /\ \A k \in DOMAIN issues : KeyOK(k, Stored)
  BY DEF Inv, IInv, IssuesInv, Typed, Run
<1>2. /\ UNCHANGED <<world, known, row, listed, sources, shots, changes, suppressed, runs, decided>>
      /\ job' = [job EXCEPT !.phase = "recalculating", !.source = n, !.pass = 1]
  BY DEF Recalculate
<1>3. Run' = Run /\ Run > 0
  <2>1. Run' = Run
    BY <1>2 DEF Run
  <2>2. DOMAIN runs = 1 .. Run
    BY <1>1 DEF Typed, Run
  <2> QED
    BY <1>1, <2>1, <2>2
<1>4. job'.phase = "recalculating" /\ job'.pass = 1 /\ job'.visited = job.visited
  BY <1>1, <1>2 DEF Job
<1>5. Stored' = Stored
  BY <1>2 DEF Stored
<1>6. PICK given : /\ IsList(given) /\ issues' = Reconciled(issues, given, n)
                   /\ \A i \in DOMAIN given : \A k \in ShownKeys(given[i]) : KeyOK(k, Stored)
  BY RecalculatedRows
<1>7. \E w : listing' = RecalculatedListing(w)
  BY ZenonT(60) DEF Recalculate
<1>8. PICK new : new = issues'
  OBVIOUS
<1>9. /\ RowsOK(new) /\ DOMAIN issues \subseteq DOMAIN new
       /\ \A k \in DOMAIN new \ DOMAIN issues : \E i \in DOMAIN given : k \in ShownKeys(given[i])
  <2>1. new = Reconciled(issues, given, n)
    BY <1>6, <1>8
  <2>2. Follow(issues, new, given, n)
    BY <1>1, <1>6, <2>1, ReconciledFacts
  <2> QED
    BY <2>2 DEF Follow, Evolves
<1>10. IssuesInv'
  <2>1. \A k \in DOMAIN new : KeyOK(k, Stored)
    BY <1>1, <1>6, <1>9
  <2> QED
    BY <1>1, <1>2, <1>5, <1>8, <1>9, <2>1 DEF IssuesInv
<1>11. PhaseInv'
  BY <1>3, <1>4 DEF PhaseInv, SitePasses
<1>12. RowsInv'
  BY <1>1, <1>2, <1>5 DEF RowsInv
<1>13. QueueInv' /\ SettledInv'
  BY <1>4 DEF QueueInv, SettledInv, Crawling
<1>14. Bounded'
  <2>1. listing \in [Pages -> Lifecycles]
    BY DEF IInv, Bounded
  <2>2. \A p, shot : Lifecycle(shot) \in Lifecycles /\ (p \in Pages => Listed(p, shot) \in Lifecycles)
    BY <2>1 DEF Lifecycle, Lifecycles, Listed
  <2>3. listing' \in [Pages -> Lifecycles]
    BY <1>7, <2>1, <2>2 DEF RecalculatedListing
  <2> QED
    BY <1>2, <1>3, <1>4, <2>3 DEF IInv, Bounded
<1> QED
  BY <1>10, <1>11, <1>12, <1>13, <1>14 DEF IInv

-----------------------------------------------------------------------------
(* The theorems about the issues *)

LEMMA IInvStep == Inv /\ IInv /\ [Next]_vars => IInv'
<1> SUFFICES ASSUME Inv, IInv, [Next]_vars PROVE IInv'
  OBVIOUS
<1>1. CASE UNCHANGED vars
  <2>1. SameWebsite /\ world' = world /\ job' = job /\ Run' = Run
    BY <1>1 DEF vars, stored, SameWebsite, Run
  <2> QED
    BY <2>1, QuietIStep
<1>2. CASE \/ \E p \in Pages : \E version \in world.may[p] : ChangePage(p, version)
           \/ \E pages \in world.sitemaps : ChangeSitemap(pages)
  BY <1>2, WebsiteISteps
<1>3. CASE \E max \in Maxima : StartCrawl(max)
  BY <1>3, StartIStep
<1>4. CASE ResumeCrawl
  BY <1>4, ResumeIStep
<1>5. CASE FetchPage
  BY <1>5, FetchIStep
<1>6. CASE AnalyseSite
  BY <1>6, AnalyseIStep
<1>7. CASE StopCrawl \/ GiveUpCrawl \/ StopRecalculation
  BY <1>7, StopISteps
<1>8. CASE \E n \in DOMAIN runs : Recalculate(n)
  BY <1>8, RecalculateIStep
<1>9. CASE \E k \in DOMAIN issues : \/ \E status \in Decisions : SetStatus(k, status)
                                    \/ Suppress(k) \/ RestoreSuppressed(k)
  BY <1>9, DecisionISteps
<1> QED
  BY <1>1, <1>2, <1>3, <1>4, <1>5, <1>6, <1>7, <1>8, <1>9 DEF Next

LEMMA IInvHolds == Spec => []IInv
<1>1. Init => Inv
  BY InitInv
<1>2. Init => IInv
  BY InitIInv
<1>3. Inv /\ [Next]_vars => Inv'
  BY InvStep
<1>4. Inv /\ IInv /\ [Next]_vars => IInv'
  BY IInvStep
<1> QED
  BY <1>1, <1>2, <1>3, <1>4, PTL DEF Spec

\* The last analysis of a crawl is the only step that ends it.
LEMMA OnlyAnalysisEnds ==
    ASSUME Inv, PhaseInv, [Next]_vars, CrawlEnds
    PROVE  AnalyseSite
<1>1. job.phase = "analyses" /\ job'.phase = "idle" /\ job \in Job
  BY DEF CrawlEnds, Inv, Typed
<1>2. job' # job
  BY <1>1
<1>3. \A p, version : ~ ChangePage(p, version)
  BY <1>2 DEF ChangePage
<1>4. \A pages : ~ ChangeSitemap(pages)
  BY <1>2 DEF ChangeSitemap
<1>5. \A max : ~ StartCrawl(max)
  BY <1>1 DEF StartCrawl
<1>6. ~ ResumeCrawl /\ ~ FetchPage /\ ~ GiveUpCrawl /\ ~ StopRecalculation
  BY <1>1 DEF ResumeCrawl, FetchPage, GiveUpCrawl, StopRecalculation
<1>7. ~ StopCrawl
  BY <1>1 DEF StopCrawl, Job
<1>8. \A n : ~ Recalculate(n)
  BY <1>1 DEF Recalculate
<1>9. \A k : ~ Suppress(k) /\ ~ RestoreSuppressed(k) /\ \A status : ~ SetStatus(k, status)
  BY <1>2 DEF Suppress, RestoreSuppressed, SetStatus, Decide
<1>10. ~ UNCHANGED vars
  BY <1>2 DEF vars
<1> QED
  BY <1>3, <1>4, <1>5, <1>6, <1>7, <1>8, <1>9, <1>10 DEF Next

LEMMA LastPass ==
    ASSUME Typed, PhaseInv, AnalyseSite, CrawlEnds
    PROVE  Pass = SitePasses
<1>1. job.phase = "analyses" /\ job'.phase = "idle" /\ job \in Job
  BY DEF CrawlEnds, Typed
<1>2. Pass \in 1 .. SitePasses
  BY PassFacts
<1>3. CASE Pass < SitePasses
  <2>1. job' = [job EXCEPT !.pass = Pass + 1, !.phase = IF @ = "pages" THEN "analyses" ELSE @]
    BY <1>3 DEF AnalyseSite
  <2> QED
    BY <1>1, <2>1 DEF Job
<1> QED
  BY <1>2, <1>3 DEF SitePasses

\* What a complete crawl without failures leaves open it has seen.
LEMMA CompletedFacts ==
    ASSUME Inv, IInv, AnalyseSite, CompleteCrawl, runs'[Run] = "succeeded",
           NEW k \in DOMAIN issues' \ (decided \cup suppressed),
           issues'[k].status \in Open, k[2] \notin NeverMissed, k[1] \in Pages => LooksAt(k)
    PROVE  HasOccurrence(issues', k, Run)
<1>1. Typed /\ RunsRise /\ RowsInv /\ PhaseInv /\ job \in Job /\ Run \in Nat
  BY DEF Inv, IInv, Typed, Run
<1>2. job.phase = "analyses" /\ job'.phase = "idle" /\ job.pending = <<>>
  BY DEF CompleteCrawl, CrawlEnds
<1>3. Pass = SitePasses
  BY <1>1, LastPass DEF CompleteCrawl
<1>4. ~ FailedIn(Run)
  <2>1. runs' = [runs EXCEPT ![Run] = Ended]
    BY <1>2, <1>3 DEF AnalyseSite, SitePasses
  <2>2. Run \in DOMAIN runs
    BY <1>1, <1>2 DEF PhaseInv, Typed, Run
  <2>3. Ended = "succeeded"
    BY <2>1, <2>2
  <2> QED
    BY <2>3 DEF Ended
<1>5. PICK new : new = issues'
  OBVIOUS
<1>6. Examined(new)
  BY <1>5, AnalysedFacts
<1>7. KeyOK(k, Stored)
  BY <1>5, <1>6 DEF Examined
<1>8. Owed(k)
  <2> SUFFICES ASSUME k[1] \in Pages PROVE HasShot(k[1], Run)
    BY DEF Owed
  <2>1. k[1] \in Stored /\ k[2] \in PageTypes
    BY <1>7, SitesAssumption DEF KeyOK, Site, Clusters
  <2>2. CASE Url[k[1]].html
    BY <1>2, <2>1, <2>2 DEF IInv, QueueInv
  <2>3. CASE ~ Url[k[1]].html
    <3>1. PICK q \in Pages : k[1] \in sources[q]
      BY <1>1, <2>1, <2>3 DEF RowsInv
    <3>2. Url[q].html /\ q \in Stored
      BY <1>1, <3>1 DEF RowsInv
    <3>3. HasShot(q, Run)
      BY <1>2, <3>2 DEF IInv, QueueInv
    <3> QED
      BY <1>2, <2>3, <3>1, <3>2, <3>3 DEF IInv, QueueInv, Crawling
  <2> QED
    BY <2>2, <2>3
<1>9. IsOpen(new, k)
  BY <1>5 DEF IsOpen, StatusOf
<1>10. SettledFrom(new, Pass + 1)
  BY <1>2, <1>4, <1>6 DEF Examined
<1>11. HasOccurrence(new, k, Run) \/ \E i \in Pass + 1 .. SitePasses : Checks(i, k)
  BY <1>5, <1>8, <1>9, <1>10 DEF SettledFrom
<1> QED
  BY <1>3, <1>5, <1>11 DEF SitePasses

\* After a crawl that read every page of the website, what is open was seen by it
\* (jobs.py:587-631 together with every checked_types): every stored page was analysed
\* by it, and every type that has no occurrence of it was looked for and missed.
THEOREM CrawlSettles == Spec => SettledAfterCrawl
<1>1. Spec => []Inv
  BY InitInv, InvStep, PTL DEF Spec
<1>2. Spec => []IInv
  BY IInvHolds
<1>3. Inv /\ IInv /\ [Next]_vars =>
        (CompleteCrawl /\ runs'[Run] = "succeeded" =>
            \A k \in DOMAIN issues' \ (decided \cup suppressed) :
                /\ issues'[k].status \in Open /\ k[2] \notin NeverMissed
                /\ k[1] \in Pages => LooksAt(k)
                => HasOccurrence(issues', k, Run))
  <2> SUFFICES ASSUME Inv, IInv, [Next]_vars, CompleteCrawl, runs'[Run] = "succeeded",
                      NEW k \in DOMAIN issues' \ (decided \cup suppressed),
                      issues'[k].status \in Open, k[2] \notin NeverMissed,
                      k[1] \in Pages => LooksAt(k)
               PROVE  HasOccurrence(issues', k, Run)
    OBVIOUS
  <2>1. AnalyseSite
    BY OnlyAnalysisEnds DEF IInv, CompleteCrawl
  <2> QED
    BY <2>1, CompletedFacts
<1> QED
  BY <1>1, <1>2, <1>3, PTL DEF Spec, SettledAfterCrawl

LEMMA InvTypes ==
    ASSUME Inv, IInv
    PROVE  TypeOK
<1>1. Typed /\ RunsRise /\ PhaseInv /\ Bounded /\ IssuesInv /\ job \in Job
  BY DEF Inv, IInv, Typed
<1>2. ASSUME NEW p \in Pages
      PROVE  /\ row[p].status \in Nat /\ row[p].final \in Pages \cup {0}
             /\ row[p].depth \in 0 .. NoDepth /\ row[p].indexable \in BOOLEAN
             /\ listed[p] \in 0 .. Run /\ sources[p] \subseteq known
             /\ shots[p] # <<>> => p \in known
             /\ \A i, j \in DOMAIN shots[p] : i < j => shots[p][i].run < shots[p][j].run
  <2>1. row[p] \in UrlRow
    BY <1>1 DEF Typed
  <2>2. row[p].status \in Nat /\ row[p].final \in Pages \cup {0}
        /\ row[p].depth \in 0 .. NoDepth /\ row[p].indexable \in BOOLEAN
    BY <2>1, SitesAssumption DEF UrlRow
  <2>3. listed[p] \in 0 .. Run /\ sources[p] \subseteq known
    BY <1>1 DEF Bounded, Typed
  <2> QED
    BY <1>1, <2>2, <2>3 DEF RunsRise
<1>3. ASSUME NEW k \in DOMAIN issues
      PROVE  /\ k[1] \in Pages \cup {Site, Clusters} /\ issues[k].status \in Statuses
             /\ \A i, j \in DOMAIN issues[k].seen : issues[k].seen[i].run = issues[k].seen[j].run => i = j
  <2>1. RowOK(issues[k]) /\ KeyOK(k, Stored)
    BY <1>1 DEF IssuesInv, RowsOK
  <2> QED
    BY <2>1 DEF RowOK, KeyOK, Stored
<1>4. suppressed \subseteq DOMAIN issues /\ known \subseteq Pages
  BY <1>1 DEF IssuesInv, Typed
<1>5. /\ listing \in [Pages -> {"none", "active", "expired", "removed", "redirected"}]
      /\ \A c \in changes : c[1] \in known /\ c[2] \in 1 .. Run
      /\ job.visited \subseteq known /\ Run <= world.bounds.crawls
  BY <1>1 DEF Bounded, Lifecycles
<1>6. /\ job.phase \in {"idle", "pages", "analyses", "stopped", "recalculating"}
      /\ job.pass \in 0 .. SitePasses
      /\ runs \in Seq({"running", "stopped", "succeeded", "partially_succeeded"})
  BY <1>1 DEF PhaseInv, Job, Typed
<1> QED
  BY <1>2, <1>3, <1>4, <1>5, <1>6 DEF TypeOK

\* The rows have the shapes the code gives them: an issue is about a page or the website,
\* has a known status and one occurrence per run, and a page one snapshot per run, in order.
THEOREM RowsTypeOK == Spec => []TypeOK
<1>1. Spec => []Inv
  BY InitInv, InvStep, PTL DEF Spec
<1>2. Spec => []IInv
  BY IInvHolds
<1> QED
  BY <1>1, <1>2, InvTypes, PTL

-----------------------------------------------------------------------------
(* The rows one by one *)

\* What a report makes of every row: it is seen once more, or missed, or left alone.
LEMMA ReconcileRows ==
    ASSUME NEW rows, RowsOK(rows), NEW report, NEW hidden, NEW n,
           NEW new, new = Reconcile(rows, report, hidden, n)
    PROVE  /\ DOMAIN rows \subseteq DOMAIN new
           /\ DOMAIN new \subseteq DOMAIN rows \cup (ShownKeys(report) \ hidden)
           /\ \A k \in ShownKeys(report) \ hidden :
                /\ k \in DOMAIN new
                /\ \E s \in report.shown :
                     /\ <<s.owner, s.type>> = k
                     /\ new[k].status = (IF k \in DOMAIN rows THEN Seen(rows[k].status) ELSE "new")
                     /\ new[k].seen =
                          Occurred(IF k \in DOMAIN rows THEN rows[k].seen ELSE <<>>, n, s.evidence)
           /\ \A k \in DOMAIN rows \ (ShownKeys(report) \ hidden) :
                /\ new[k].seen = rows[k].seen
                /\ new[k].status = (IF k \notin hidden /\ ChecksKey(report, k)
                                    THEN Missed(rows[k].status) ELSE rows[k].status)
<1>1. PICK shown : shown = {s \in report.shown : <<s.owner, s.type>> \notin hidden}
  OBVIOUS
<1>2. PICK missed : missed = MissedKeys(rows, report, hidden)
  OBVIOUS
<1>3. new = [k \in DOMAIN rows \cup {<<s.owner, s.type>> : s \in shown} |->
            IF \E s \in shown : <<s.owner, s.type>> = k
            THEN LET s == CHOOSE s \in shown : <<s.owner, s.type>> = k
                     was == IF k \in DOMAIN rows THEN rows[k] ELSE [status |-> "new", seen |-> <<>>]
                 IN  [status |-> Seen(was.status), seen |-> Occurred(was.seen, n, s.evidence)]
            ELSE IF k \in missed THEN [rows[k] EXCEPT !.status = Missed(@)]
            ELSE rows[k]]
  BY <1>1, <1>2 DEF Reconcile
<1>4. /\ {<<s.owner, s.type>> : s \in shown} = ShownKeys(report) \ hidden
      /\ \A k : k \in ShownKeys(report) \ hidden <=> \E s \in shown : <<s.owner, s.type>> = k
  BY <1>1 DEF ShownKeys
<1>5. DOMAIN new = DOMAIN rows \cup (ShownKeys(report) \ hidden)
  BY <1>3, <1>4
<1>6. ASSUME NEW k \in ShownKeys(report) \ hidden
      PROVE  \E s \in report.shown :
                     /\ <<s.owner, s.type>> = k
                     /\ new[k].status = (IF k \in DOMAIN rows THEN Seen(rows[k].status) ELSE "new")
                     /\ new[k].seen =
                          Occurred(IF k \in DOMAIN rows THEN rows[k].seen ELSE <<>>, n, s.evidence)
  <2>1. PICK s : s = CHOOSE x \in shown : <<x.owner, x.type>> = k
    OBVIOUS
  <2>2. s \in shown /\ <<s.owner, s.type>> = k
    BY <1>4, <2>1
  <2>3. PICK old : old = IF k \in DOMAIN rows THEN rows[k] ELSE [status |-> "new", seen |-> <<>>]
    OBVIOUS
  <2>4. new[k] = [status |-> Seen(old.status), seen |-> Occurred(old.seen, n, s.evidence)]
    BY <1>3, <1>4, <2>1, <2>3
  <2>5. Seen("new") = "new"
    BY DEF Seen, Reopenable
  <2>6. /\ new[k].status = (IF k \in DOMAIN rows THEN Seen(rows[k].status) ELSE "new")
        /\ new[k].seen = Occurred(IF k \in DOMAIN rows THEN rows[k].seen ELSE <<>>, n, s.evidence)
    BY <2>3, <2>4, <2>5
  <2> QED
    BY <1>1, <2>2, <2>6
<1>7. ASSUME NEW k \in DOMAIN rows \ (ShownKeys(report) \ hidden)
      PROVE  /\ new[k].seen = rows[k].seen
             /\ new[k].status = (IF k \notin hidden /\ ChecksKey(report, k)
                                 THEN Missed(rows[k].status) ELSE rows[k].status)
  <2>1. new[k] = IF k \in missed THEN [rows[k] EXCEPT !.status = Missed(@)] ELSE rows[k]
    BY <1>3, <1>4
  <2>2. k \in missed <=> k \notin hidden /\ ChecksKey(report, k)
    BY <1>2 DEF MissedKeys, ChecksKey
  <2>3. RowOK(rows[k])
    BY DEF RowsOK
  <2> QED
    BY <2>1, <2>2, <2>3 DEF RowOK
<1> QED
  BY <1>5, <1>6, <1>7

\* A row that a report neither shows nor checks is left alone.
LEMMA Untouched ==
    ASSUME NEW rows, RowsOK(rows), NEW report, NEW hidden, NEW n,
           NEW new, new = Reconcile(rows, report, hidden, n),
           NEW k, k \notin ShownKeys(report), ~ ChecksKey(report, k)
    PROVE  /\ k \in DOMAIN new <=> k \in DOMAIN rows
           /\ k \in DOMAIN rows => new[k].status = rows[k].status /\ new[k].seen = rows[k].seen
BY ReconcileRows

RunsWithin(rows, n) == \A k \in DOMAIN rows : \A i \in DOMAIN rows[k].seen : rows[k].seen[i].run \in 1 .. n

\* The occurrence of run n in a row is the last of the row.
LatestIs(seen, n) == SeenIn(seen, n) => seen[Len(seen)].run = n
LatestIn(rows, n) == \A k \in DOMAIN rows : LatestIs(rows[k].seen, n)

RunsAmong(new, n, seen) ==
    \A i \in DOMAIN new : new[i].run = n \/ \E j \in DOMAIN seen : new[i].run = seen[j].run

Ends(seen, found) == seen[Len(seen)] = found

LEMMA OccurredLatest ==
    ASSUME NEW seen, IsList(seen), NEW n, NEW evidence
    PROVE  /\ RunsAmong(Occurred(seen, n, evidence), n, seen)
           /\ LatestIs(seen, n)
                => Ends(Occurred(seen, n, evidence), [run |-> n, evidence |-> evidence])
<1>0. PICK new : new = Occurred(seen, n, evidence)
  OBVIOUS
<1>1. PICK found : found = [run |-> n, evidence |-> evidence]
  OBVIOUS
<1>2. PICK S : seen \in Seq(S)
  BY DEF IsList
<1>3. PICK T : T = S \cup {found}
  OBVIOUS
<1>4. seen \in Seq(T) /\ found \in T /\ found.run = n
  BY <1>1, <1>2, <1>3
<1>5. DOMAIN seen = 1 .. Len(seen) /\ Len(seen) \in Nat
  BY <1>4
<1>6. CASE SeenIn(seen, n)
  <2>1. new = [i \in DOMAIN seen |-> IF seen[i].run = n THEN found ELSE seen[i]]
    BY <1>0, <1>1, <1>6 DEF Occurred, SeenIn
  <2>2. \A i \in DOMAIN seen : seen[i] \in T
    BY <1>4
  <2>3. new \in [1 .. Len(seen) -> T]
    BY <1>4, <1>5, <2>1, <2>2
  <2>4. new \in Seq(T) /\ Len(new) = Len(seen)
    BY <1>5, <2>3
  <2>5. Len(seen) \in DOMAIN seen
    BY <1>5, <1>6 DEF SeenIn
  <2>6. LatestIs(seen, n) => new[Len(new)] = found
    BY <1>6, <2>1, <2>4, <2>5 DEF LatestIs
  <2>7. \A i \in DOMAIN new : new[i].run = n \/ \E j \in DOMAIN seen : new[i].run = seen[j].run
    BY <1>4, <2>1
  <2> QED
    BY <1>0, <1>1, <2>6, <2>7 DEF RunsAmong, Ends
<1>7. CASE ~ SeenIn(seen, n)
  <2>1. new = Append(seen, found)
    BY <1>0, <1>1, <1>7 DEF Occurred, SeenIn
  <2>2. /\ new \in Seq(T) /\ Len(new) = Len(seen) + 1 /\ DOMAIN new = 1 .. Len(seen) + 1
        /\ new[Len(seen) + 1] = found /\ \A i \in DOMAIN seen : new[i] = seen[i]
    BY <1>4, <1>5, <2>1
  <2>3. \A i \in DOMAIN new : i \in DOMAIN seen \/ i = Len(seen) + 1
    BY <1>5, <2>2
  <2>4. \A i \in DOMAIN new : new[i].run = n \/ \E j \in DOMAIN seen : new[i].run = seen[j].run
    BY <1>4, <2>2, <2>3
  <2> QED
    BY <1>0, <1>1, <2>2, <2>4 DEF RunsAmong, Ends
<1> QED
  BY <1>6, <1>7

LEMMA ReconcileRuns ==
    ASSUME NEW rows, RowsOK(rows), NEW report, NEW hidden, NEW n, NEW last, n \in 1 .. last,
           NEW new, new = Reconcile(rows, report, hidden, n)
    PROVE  /\ RunsWithin(rows, last) => RunsWithin(new, last)
           /\ LatestIn(rows, n) => LatestIn(new, n)
<1> DEFINE old(k) == IF k \in DOMAIN rows THEN rows[k].seen ELSE <<>>
<1>1. ASSUME NEW k \in DOMAIN new
      PROVE  \/ k \in DOMAIN rows /\ new[k].seen = rows[k].seen
             \/ \E evidence : new[k].seen = Occurred(old(k), n, evidence)
  BY ReconcileRows
<1>2. ASSUME NEW k PROVE IsList(old(k))
  <2>1. <<>> \in Seq({})
    OBVIOUS
  <2> QED
    BY <2>1 DEF RowsOK, RowOK, IsList
<1>3. ASSUME RunsWithin(rows, last), NEW k \in DOMAIN new, NEW i \in DOMAIN new[k].seen
      PROVE  new[k].seen[i].run \in 1 .. last
  <2>1. \A j \in DOMAIN old(k) : old(k)[j].run \in 1 .. last
    BY <1>3 DEF RunsWithin
  <2>2. CASE k \in DOMAIN rows /\ new[k].seen = rows[k].seen
    BY <1>3, <2>2 DEF RunsWithin
  <2>3. CASE \E evidence : new[k].seen = Occurred(old(k), n, evidence)
    <3>1. PICK evidence : new[k].seen = Occurred(old(k), n, evidence)
      BY <2>3
    <3>2. PICK from : from = old(k)
      OBVIOUS
    <3>3. PICK seen : seen = new[k].seen
      OBVIOUS
    <3>4. IsList(from) /\ seen = Occurred(from, n, evidence)
      BY <1>2, <3>1, <3>2, <3>3
    <3>5. RunsAmong(seen, n, from)
      <4>1. RunsAmong(Occurred(from, n, evidence), n, from)
        BY <3>4, OccurredLatest
      <4> QED
        BY <3>4, <4>1
    <3>6. i \in DOMAIN seen
      BY <3>3
    <3> QED
      BY <2>1, <3>2, <3>3, <3>5, <3>6 DEF RunsAmong
  <2> QED
    BY <1>1, <2>2, <2>3
<1>4. ASSUME LatestIn(rows, n), NEW k \in DOMAIN new
      PROVE  LatestIs(new[k].seen, n)
  <2>1. LatestIs(old(k), n)
    BY <1>4 DEF LatestIn, LatestIs, SeenIn
  <2>2. CASE k \in DOMAIN rows /\ new[k].seen = rows[k].seen
    BY <1>4, <2>2 DEF LatestIn
  <2>3. CASE \E evidence : new[k].seen = Occurred(old(k), n, evidence)
    <3>1. PICK evidence : new[k].seen = Occurred(old(k), n, evidence)
      BY <2>3
    <3> HIDE DEF old
    <3>2. Ends(new[k].seen, [run |-> n, evidence |-> evidence])
      BY <1>2, <2>1, <3>1, OccurredLatest
    <3> QED
      BY <3>2 DEF LatestIs, Ends
  <2> QED
    BY <1>1, <2>2, <2>3
<1> HIDE DEF old
<1> QED
  BY <1>3, <1>4 DEF RunsWithin, LatestIn

LEMMA ReconciledRuns ==
    ASSUME NEW rows, RowsOK(rows), NEW reports, IsList(reports), NEW n, NEW last, n \in 1 .. last,
           NEW new, new = Reconciled(rows, reports, n)
    PROVE  /\ RunsWithin(rows, last) => RunsWithin(new, last)
           /\ LatestIn(rows, n) => LatestIn(new, n)
<1>1. PICK l \in Nat : l = Len(reports)
  BY DEF IsList
<1>2. PICK found : IsChain(found, rows, reports, n, l) /\ new = found[l]
  BY <1>1, ReconciledChain
<1> DEFINE Good(i) == /\ RowsOK(found[i])
                      /\ RunsWithin(rows, last) => RunsWithin(found[i], last)
                      /\ LatestIn(rows, n) => LatestIn(found[i], n)
           good == {i \in 0 .. l : Good(i)}
<1>3. 0 \in good
  BY <1>2 DEF IsChain
<1>4. ASSUME NEW i \in 1 .. l, i - 1 \in good PROVE i \in good
  <2>1. PICK old : old = found[i - 1]
    OBVIOUS
  <2>2. PICK next : next = found[i]
    OBVIOUS
  <2>3. /\ RowsOK(old)
        /\ RunsWithin(rows, last) => RunsWithin(old, last)
        /\ LatestIn(rows, n) => LatestIn(old, n)
    BY <1>4, <2>1
  <2>4. next = Reconcile(old, reports[i], suppressed, n)
    BY <1>2, <2>1, <2>2 DEF IsChain
  <2>5. RowsOK(next)
    BY <2>3, <2>4, ReconcileFacts DEF Evolves
  <2>6. /\ RunsWithin(old, last) => RunsWithin(next, last)
        /\ LatestIn(old, n) => LatestIn(next, n)
    BY <2>3, <2>4, ReconcileRuns
  <2>7. Good(i)
    BY <2>2, <2>3, <2>5, <2>6
  <2> QED
    BY <2>7
<1> HIDE DEF good
<1>5. l \in good
  BY <1>3, <1>4, UpTo
<1> QED
  BY <1>2, <1>5 DEF good

LEMMA OrphansSeen ==
    ASSUME NEW rows, RowsOK(rows), NEW orphans
    PROVE  \A k \in DOMAIN rows :
             /\ ResolvedOrphans(rows, orphans)[k].seen = rows[k].seen
             /\ ResolvedOrphans(rows, orphans)[k].status =
                  (IF k[2] = "orphan_page" /\ k[1] \in Pages \ orphans /\ rows[k].status \in Open
                   THEN "resolved" ELSE rows[k].status)
BY DEF ResolvedOrphans, RowsOK, RowOK

-----------------------------------------------------------------------------
(* What the analyses of the website touch *)

LEMMA NoPages == Site \notin Pages /\ Clusters \notin Pages /\ Site # Clusters
BY SitesAssumption DEF Site, Clusters

\* An analysis checks the types of its own, of stored pages or of the website.
LEMMA PassesBound ==
    ASSUME Typed, RunsRise, NEW n, NEW w, w = StoredAs(n), NEW i \in 1 .. SitePasses, NEW k,
           ChecksKey(SiteReport(w, i), k)
    PROVE  /\ k[2] \in PassTypes(i)
           /\ \/ /\ k[1] \in Pages /\ i \in PagePasses \cup {13, 18}
                 /\ i = 18 => row[k[1]].status = 404
              \/ k[1] = Site /\ i \in WholePasses
              \/ k[1] = Clusters /\ i = 17
<1>1. i \in {1, 2, 3, 4, 5, 6, 7, 8, 9, 10, 11, 12, 13, 14, 15, 16, 17, 18, 19, 20}
  BY DEF SitePasses
<1>2. /\ w.known = known /\ w.row = row /\ known \subseteq Pages /\ Snapped(w) \subseteq Pages
  BY WebsiteFacts DEF Typed, Stored
<1>3. CASE i \in PagePasses \ {1}
  <2>1. /\ LinkQuality(w).owners \subseteq Pages /\ LinkQuality(w).checked = PassTypes(2)
        /\ RedirectSources(w).owners \subseteq Pages /\ RedirectSources(w).checked = PassTypes(3)
        /\ Indexation(w).owners \subseteq Pages /\ Indexation(w).checked = PassTypes(6)
        /\ International(w).owners \subseteq Pages /\ International(w).checked = PassTypes(7)
        /\ Breadcrumbs(w).owners \subseteq Pages /\ Breadcrumbs(w).checked = PassTypes(10)
    BY <1>2 DEF PassTypes, Report, LinkQuality, RedirectSources, Indexation, International, Breadcrumbs
  <2>2. /\ ContextualSchema(w).owners \subseteq Pages /\ ContextualSchema(w).checked = PassTypes(11)
        /\ Duplicates(w).owners \subseteq Pages /\ Duplicates(w).checked = PassTypes(12)
        /\ ThinContent(w).owners \subseteq Pages /\ ThinContent(w).checked = PassTypes(15)
        /\ ClassifySources(w).owners \subseteq Pages /\ ClassifySources(w).checked = PassTypes(20)
    BY <1>2 DEF PassTypes, Report, ContextualSchema, Duplicates, ThinContent, ClassifySources
  <2> QED
    BY <1>3, <2>1, <2>2, Reports DEF PagePasses, ChecksKey
<1>4. CASE i = 1
  <2>1. OrphanPages(w) \subseteq Pages
    BY <1>2 DEF OrphanPages
  <2>2. DetectOrphans(w).owners \subseteq Pages /\ DetectOrphans(w).checked = PassTypes(1)
    BY <2>1 DEF PassTypes, Report, DetectOrphans
  <2> QED
    BY <1>4, <2>2, Reports DEF PagePasses, ChecksKey
<1>5. CASE i = 18
  <2>1. \A p \in Missing(w) : p \in Pages /\ row[p].status = 404
    BY <1>2 DEF Missing
  <2>2. ClassifyPages(w).owners = Missing(w) /\ ClassifyPages(w).checked = PassTypes(18)
    BY DEF PassTypes, Report, ClassifyPages
  <2> QED
    BY <1>5, <2>1, <2>2, Reports DEF ChecksKey
<1>6. CASE i = 13
  <2>1. JobIdentifiers(w).owners \subseteq Pages \cup {Site} /\ JobIdentifiers(w).checked = PassTypes(13)
    BY <1>2 DEF PassTypes, Report, JobIdentifiers
  <2> QED
    BY <1>6, <2>1, Reports DEF ChecksKey, WholePasses
<1>7. CASE i \in WholePasses \ {13}
  <2>1. \A type, pattern : LET report == RedirectPatterns(w, type, pattern)
                           IN  report.owners = {Site} /\ report.checked = {pattern}
    BY DEF RedirectPatterns, Grouped, Report
  <2>2. /\ GenericAnchors(w).owners = {Site} /\ GenericAnchors(w).checked = PassTypes(4)
        /\ AssetQuality(w).owners = {Site} /\ AssetQuality(w).checked = PassTypes(16)
    BY DEF PassTypes, Report, GenericAnchors, AssetQuality
  <2>3. /\ ServerErrorIncident(w).owners = {Site} /\ ServerErrorIncident(w).checked = PassTypes(9)
        /\ PaginationSeries(w).owners = {Site} /\ PaginationSeries(w).checked = PassTypes(14)
        /\ ClassifyPatterns(w).owners = {Site} /\ ClassifyPatterns(w).checked = PassTypes(19)
    BY DEF PassTypes, Report, ServerErrorIncident, PaginationSeries, ClassifyPatterns, Grouped
  <2>4. /\ InternalRedirectPatterns(w).owners = {Site}
        /\ InternalRedirectPatterns(w).checked = PassTypes(5)
        /\ SitemapRedirectPatterns(w).owners = {Site}
        /\ SitemapRedirectPatterns(w).checked = PassTypes(8)
    BY <2>1 DEF PassTypes, InternalRedirectPatterns, SitemapRedirectPatterns
  <2> QED
    BY <1>7, <2>2, <2>3, <2>4, Reports DEF WholePasses, ChecksKey
<1>8. CASE i = 17
  <2>1. TemplateClusters(w).owners = {Clusters} /\ TemplateClusters(w).checked = PassTypes(17)
    BY DEF PassTypes, Report, TemplateClusters
  <2> QED
    BY <1>8, <2>1, Reports DEF ChecksKey
<1> QED
  BY <1>1, <1>3, <1>4, <1>5, <1>6, <1>7, <1>8 DEF PagePasses, WholePasses

\* The rows of the owners it is about, an analysis shows or checks; others it leaves alone.
Touches(report, k) == k \in ShownKeys(report) \/ ChecksKey(report, k)

LEMMA PassesTouch ==
    ASSUME Typed, RunsRise, RowsInv, NEW n, NEW w, w = StoredAs(n), NEW i \in 1 .. SitePasses, NEW k,
           Touches(SiteReport(w, i), k)
    PROVE  \/ /\ k[1] \in Pages /\ i # 17 /\ i # 19
              /\ i = 18 => k[2] \in Contextual404Types
              /\ i = 20 => k[2] = "multiple_broken_internal_links"
           \/ k[1] = Site /\ i \in WholePasses /\ k[2] \in PassTypes(i)
           \/ k[1] = Clusters /\ i = 17
<1>1. i \in {1, 2, 3, 4, 5, 6, 7, 8, 9, 10, 11, 12, 13, 14, 15, 16, 17, 18, 19, 20}
  BY DEF SitePasses
<1>2. PassTypes(18) = Contextual404Types /\ PassTypes(20) = {"multiple_broken_internal_links"}
  BY DEF PassTypes
<1>3. CASE ChecksKey(SiteReport(w, i), k)
  BY <1>2, <1>3, PassesBound DEF PagePasses, WholePasses
<1>4. CASE k \in ShownKeys(SiteReport(w, i))
  <2>1. PICK s \in SiteReport(w, i).shown : k = <<s.owner, s.type>>
    BY <1>4 DEF ShownKeys
  <2>2. k[1] = s.owner /\ k[2] = s.type /\ Stored \subseteq Pages
    BY <2>1 DEF Stored
  <2>3. CASE i \in WholePasses
    <3>1. AllAbout(SiteReport(w, i).shown, {Site}, PassTypes(i))
      BY <2>3, WholeShow
    <3> QED
      BY <2>1, <2>2, <2>3, <3>1 DEF AllAbout
  <2>4. CASE i = 17
    <3>1. AllAbout(SiteReport(w, i).shown, {Clusters}, PassTypes(17))
      BY <2>4, PassesShow, Reports
    <3> QED
      BY <2>1, <2>2, <2>4, <3>1 DEF AllAbout
  <2>5. CASE i = 18
    <3>1. AllAbout(SiteReport(w, i).shown, Stored, NeverMissed \cup SnapshotTypes)
      BY <2>5, PassesShow, Reports
    <3>2. \A x \in ClassifyPages(w).shown : x.type \in Contextual404Types
      BY DEF ClassifyPages, Report, MissingSignal, Signal, Contextual404Types
    <3>3. SiteReport(w, i) = ClassifyPages(w)
      BY <2>5, Reports
    <3> QED
      BY <2>1, <2>2, <2>5, <3>1, <3>2, <3>3 DEF AllAbout
  <2>6. CASE i \in PagePasses
    <3>1. \E types : AllAbout(SiteReport(w, i).shown, Stored, types)
      BY <2>6, PassesShow, Reports DEF PagePasses
    <3>2. i = 20 => AllAbout(SiteReport(w, i).shown, Stored, PassTypes(20))
      BY PassesShow, Reports
    <3>3. i # 17 /\ i # 18 /\ i # 19
      BY <2>6 DEF PagePasses
    <3> QED
      BY <1>2, <2>1, <2>2, <2>6, <3>1, <3>2, <3>3 DEF AllAbout
  <2> QED
    BY <1>1, <2>3, <2>4, <2>5, <2>6 DEF PagePasses, WholePasses
<1> QED
  BY <1>3, <1>4 DEF Touches

-----------------------------------------------------------------------------
(* The members that a group names *)

\* The evidence of one report.
EvidenceIn(report, k, evidence) ==
    \A s \in report.shown : <<s.owner, s.type>> = k => s.evidence = evidence

\* After a report that checked it, an open issue names the evidence of the report.
LEMMA NamedFacts ==
    ASSUME NEW rows, RowsOK(rows), NEW report, NEW hidden, NEW n, LatestIn(rows, n),
           NEW new, new = Reconcile(rows, report, hidden, n),
           NEW k, k \notin hidden, ChecksKey(report, k),
           NEW evidence, EvidenceIn(report, k, evidence)
    PROVE  \A p \in Named(new, k) : k \in ShownKeys(report) /\ p \in evidence
<1> SUFFICES ASSUME NEW p \in Named(new, k)
             PROVE  k \in ShownKeys(report) /\ p \in evidence
  OBVIOUS
<1>1. k \in DOMAIN new /\ new[k].status \in Open /\ p \in LatestEvidence(new, k)
  BY DEF Named, IsOpen, StatusOf, Open
<1>2. k \in ShownKeys(report)
  <2> SUFFICES ASSUME k \notin ShownKeys(report) PROVE FALSE
    OBVIOUS
  <2>1. k \in DOMAIN rows /\ new[k].status = Missed(rows[k].status)
    BY <1>1, ReconcileRows
  <2>2. rows[k].status \in Statuses
    BY <2>1 DEF RowsOK, RowOK
  <2> QED
    BY <1>1, <2>1, <2>2, StatusFacts
<1>3. PICK old : old = IF k \in DOMAIN rows THEN rows[k].seen ELSE <<>>
  OBVIOUS
<1>4. IsList(old) /\ LatestIs(old, n)
  <2>1. <<>> \in Seq({})
    OBVIOUS
  <2>2. CASE k \in DOMAIN rows
    BY <1>3, <2>2 DEF RowsOK, RowOK, LatestIn
  <2>3. CASE k \notin DOMAIN rows
    BY <1>3, <2>1, <2>3 DEF IsList, LatestIs, SeenIn
  <2> QED
    BY <2>2, <2>3
<1>5. PICK s \in report.shown : <<s.owner, s.type>> = k /\ new[k].seen = Occurred(old, n, s.evidence)
  <2>1. k \in ShownKeys(report) \ hidden
    BY <1>2
  <2>2. \E s \in report.shown : <<s.owner, s.type>> = k /\ new[k].seen =
             Occurred(IF k \in DOMAIN rows THEN rows[k].seen ELSE <<>>, n, s.evidence)
    BY <2>1, ReconcileRows
  <2> QED
    BY <1>3, <2>2
<1>6. Ends(new[k].seen, [run |-> n, evidence |-> s.evidence])
  BY <1>4, <1>5, OccurredLatest
<1>7. LatestEvidence(new, k) = evidence
  BY <1>5, <1>6 DEF EvidenceIn, Ends, LatestEvidence
<1> QED
  BY <1>1, <1>2, <1>7

LEMMA SameNamed ==
    ASSUME NEW rows, NEW new, NEW k, k \in DOMAIN new <=> k \in DOMAIN rows,
           k \in DOMAIN rows => new[k].status = rows[k].status /\ new[k].seen = rows[k].seen
    PROVE  Named(new, k) = Named(rows, k) /\ (IsOpen(new, k) <=> IsOpen(rows, k))
<1>1. CASE k \in DOMAIN rows
  <2>1. StatusOf(new, k) = StatusOf(rows, k) /\ LatestEvidence(new, k) = LatestEvidence(rows, k)
    BY <1>1 DEF StatusOf, LatestEvidence
  <2> QED
    BY <2>1 DEF Named, IsOpen
<1>2. CASE k \notin DOMAIN rows
  <2>1. ~ IsOpen(new, k) /\ ~ IsOpen(rows, k)
    BY <1>2 DEF IsOpen, StatusOf, Open
  <2> QED
    BY <2>1 DEF Named
<1> QED
  BY <1>1, <1>2

-----------------------------------------------------------------------------
(* Groups and their members *)

\* Occurrences are of runs there were, and that of the crawl is the last of its row.
LatestInv ==
    /\ suppressed \subseteq decided /\ RunsWithin(issues, Run)
    /\ Crawling => LatestIn(issues, Run)
    /\ job.phase = "recalculating" => job.source \in 1 .. Run

ClusterFollows(rows, t) ==
    <<Clusters, t>> \notin decided =>
        \A p \in Named(rows, <<Clusters, t>>) :
            /\ p \in Pages /\ (<<p, t>> \notin decided => IsOpen(rows, <<p, t>>))
            /\ t \in PaginationChildTypes /\ Review \notin decided => p \notin Named(rows, Review)

MissingFollow(rows) ==
    <<Site, "patterned_404_urls">> \notin decided =>
        \A p \in Named(rows, <<Site, "patterned_404_urls">>) : row[p].status = 404

SeenFollow(rows, group, type) ==
    <<Site, group>> \notin decided =>
        \A p \in Named(rows, <<Site, group>>) : HasOccurrence(rows, <<p, type>>, Run)

\* What holds of the groups when the analyses before the first are done.
GroupsFrom(rows, first) ==
    /\ first > 17 => \A t \in ClusterableTypes \ {"multiple_broken_internal_links"} : ClusterFollows(rows, t)
    /\ first > 19 => MissingFollow(rows)
    /\ first > 5 => SeenFollow(rows, "internal_redirect_patterns", "internally_linked_redirect")
    /\ first > 8 => SeenFollow(rows, "sitemap_redirect_patterns", "sitemap_redirect")
    /\ first > 9 => SeenFollow(rows, "server_error_incident", "http_5xx")

GroupInv == GroupsFrom(issues, From)

\* Analysis i of the crawl, but not the first.
Analysis(w, i, new) ==
    /\ w = StoredAs(Run) /\ i \in 2 .. SitePasses
    /\ new = Reconcile(issues, SiteReport(w, i), suppressed, Run)

LEMMA AnalysisKeeps ==
    ASSUME Inv, IInv, NEW w, NEW i, NEW new, Analysis(w, i, new), NEW k, ~ Touches(SiteReport(w, i), k)
    PROVE  Named(new, k) = Named(issues, k) /\ (IsOpen(new, k) <=> IsOpen(issues, k))
<1>1. RowsOK(issues)
  BY DEF IInv, IssuesInv
<1>2. PICK report : report = SiteReport(w, i)
  OBVIOUS
<1>3. k \notin ShownKeys(report) /\ ~ ChecksKey(report, k)
  BY <1>2 DEF Touches
<1>4. new = Reconcile(issues, report, suppressed, Run)
  BY <1>2 DEF Analysis
<1>5. /\ k \in DOMAIN new <=> k \in DOMAIN issues
      /\ k \in DOMAIN issues => new[k].status = issues[k].status /\ new[k].seen = issues[k].seen
  BY <1>1, <1>3, <1>4, Untouched
<1> QED
  BY <1>5, SameNamed

LEMMA AnalysisTouches ==
    ASSUME Inv, IInv, NEW w, NEW i, NEW new, Analysis(w, i, new), NEW k, Touches(SiteReport(w, i), k)
    PROVE  \/ /\ k[1] \in Pages /\ i # 17 /\ i # 19
              /\ i = 18 => k[2] \in Contextual404Types
              /\ i = 20 => k[2] = "multiple_broken_internal_links"
           \/ k[1] = Site /\ i \in WholePasses /\ k[2] \in PassTypes(i)
           \/ k[1] = Clusters /\ i = 17
<1>1. Typed /\ RunsRise /\ RowsInv /\ w = StoredAs(Run) /\ i \in 1 .. SitePasses
  BY DEF Inv, IInv, Analysis, SitePasses
<1> QED
  BY <1>1, PassesTouch

LEMMA ClustersKept ==
    ASSUME Inv, IInv, NEW w, NEW i \in {18, 19, 20}, NEW new, Analysis(w, i, new),
           NEW t \in ClusterableTypes \ {"multiple_broken_internal_links"}, ClusterFollows(issues, t)
    PROVE  ClusterFollows(new, t)
<1>1. ~ Touches(SiteReport(w, i), <<Clusters, t>>)
  BY AnalysisTouches, NoPages
<1>2. ~ Touches(SiteReport(w, i), Review)
  BY AnalysisTouches, NoPages DEF Review, PassTypes, WholePasses
<1>3. \A p \in Pages : ~ Touches(SiteReport(w, i), <<p, t>>)
  <2> SUFFICES ASSUME NEW p \in Pages, Touches(SiteReport(w, i), <<p, t>>) PROVE FALSE
    OBVIOUS
  <2>1. t \notin Contextual404Types
    BY ClusterAssumption
  <2> QED
    BY <2>1, AnalysisTouches, NoPages
<1>4. Named(new, <<Clusters, t>>) = Named(issues, <<Clusters, t>>) /\ Named(new, Review) = Named(issues, Review)
  BY <1>1, <1>2, AnalysisKeeps
<1>5. \A p \in Pages : IsOpen(new, <<p, t>>) <=> IsOpen(issues, <<p, t>>)
  BY <1>3, AnalysisKeeps
<1> QED
  BY <1>4, <1>5 DEF ClusterFollows

\* A cluster names the pages whose issue of the type is open, except those of a series.
LEMMA ClustersMade ==
    ASSUME Inv, IInv, LatestInv, Crawling, NEW w, NEW new, Analysis(w, 17, new), NEW t \in ClusterableTypes
    PROVE  ClusterFollows(new, t)
<1>1. RowsOK(issues) /\ LatestIn(issues, Run) /\ suppressed \subseteq decided
      /\ \A k \in DOMAIN issues : KeyOK(k, Stored)
  BY DEF IInv, IssuesInv, LatestInv
<1>2. w.issues = issues
  BY WebsiteFacts DEF Analysis, Inv
<1>3. PICK clustered : clustered = ClustersOf(w)
  OBVIOUS
<1>4. clustered \subseteq ClusterCandidates(w)
  BY <1>3 DEF ClustersOf, ClusteredBy
<1>5. PICK report : report = TemplateClusters(w)
  OBVIOUS
<1>6. PICK evidence : evidence = {k[1] : k \in {j \in clustered : j[2] = t}}
  OBVIOUS
<1>7. SiteReport(w, 17) = report /\ new = Reconcile(issues, report, suppressed, Run)
  BY <1>5, Reports DEF Analysis
<1>8. ChecksKey(report, <<Clusters, t>>)
  BY <1>5 DEF TemplateClusters, Report, ChecksKey
<1>9. EvidenceIn(report, <<Clusters, t>>, evidence)
  <2>1. \A s \in report.shown : s.evidence = {k[1] : k \in {j \in clustered : j[2] = s.type}}
    BY <1>3, <1>5 DEF TemplateClusters, Report, Signal
  <2> QED
    BY <1>6, <2>1 DEF EvidenceIn
<1> SUFFICES ASSUME <<Clusters, t>> \notin decided, NEW p \in Named(new, <<Clusters, t>>)
             PROVE  /\ p \in Pages /\ (<<p, t>> \notin decided => IsOpen(new, <<p, t>>))
                    /\ t \in PaginationChildTypes /\ Review \notin decided => p \notin Named(new, Review)
  BY DEF ClusterFollows
<1>10. p \in evidence
  <2>1. <<Clusters, t>> \notin suppressed
    BY <1>1
  <2> QED
    BY <1>1, <1>7, <1>8, <1>9, <2>1, NamedFacts
<1>11. PICK k \in clustered : k[1] = p /\ k[2] = t
  BY <1>6, <1>10
<1>12. /\ k \in DOMAIN issues /\ p \in Pages /\ issues[k].status \in Open
       /\ ~ (t \in PaginationChildTypes /\ p \in PaginationPages(w))
  BY <1>2, <1>4, <1>11 DEF ClusterCandidates
<1>13. k = <<p, t>>
  BY <1>1, <1>11, <1>12 DEF KeyOK
<1>14. PaginationPages(w) = Named(issues, Review)
  BY <1>2 DEF PaginationPages, Named, Review
<1>15. ~ Touches(SiteReport(w, 17), <<p, t>>) /\ ~ Touches(SiteReport(w, 17), Review)
  BY <1>12, AnalysisTouches, NoPages DEF Review, WholePasses
<1>16. Named(new, Review) = Named(issues, Review) /\ (IsOpen(new, <<p, t>>) <=> IsOpen(issues, <<p, t>>))
  BY <1>15, AnalysisKeeps
<1>17. IsOpen(issues, <<p, t>>)
  BY <1>12, <1>13 DEF IsOpen, StatusOf
<1> QED
  BY <1>12, <1>14, <1>16, <1>17

LEMMA MissingKept ==
    ASSUME Inv, IInv, NEW w, NEW new, Analysis(w, 20, new), MissingFollow(issues)
    PROVE  MissingFollow(new)
<1>1. ~ Touches(SiteReport(w, 20), <<Site, "patterned_404_urls">>)
  BY AnalysisTouches, NoPages DEF WholePasses
<1>2. Named(new, <<Site, "patterned_404_urls">>) = Named(issues, <<Site, "patterned_404_urls">>)
  BY <1>1, AnalysisKeeps
<1> QED
  BY <1>2 DEF MissingFollow

LEMMA MissingMade ==
    ASSUME Inv, IInv, LatestInv, Crawling, NEW w, NEW new, Analysis(w, 19, new)
    PROVE  MissingFollow(new)
<1>1. RowsOK(issues) /\ LatestIn(issues, Run) /\ suppressed \subseteq decided
  BY DEF IInv, IssuesInv, LatestInv
<1>2. w.row = row
  BY WebsiteFacts DEF Analysis, Inv
<1>3. PICK report : report = ClassifyPatterns(w)
  OBVIOUS
<1>4. SiteReport(w, 19) = report /\ new = Reconcile(issues, report, suppressed, Run)
  BY <1>3, Reports DEF Analysis
<1>5. \E grouped \in SUBSET Missing(w) :
         report = Report({Site}, {"patterned_404_urls"},
                         SignalIf(grouped # {}, Site, "patterned_404_urls", grouped))
  BY <1>3 DEF ClassifyPatterns, Grouped
<1>6. PICK grouped \in SUBSET Missing(w) :
         report = Report({Site}, {"patterned_404_urls"},
                         SignalIf(grouped # {}, Site, "patterned_404_urls", grouped))
  BY <1>5
<1>7. ChecksKey(report, <<Site, "patterned_404_urls">>)
      /\ EvidenceIn(report, <<Site, "patterned_404_urls">>, grouped)
  BY <1>6 DEF Report, SignalIf, Signal, ChecksKey, EvidenceIn
<1>8. \A p \in grouped : row[p].status = 404
  BY <1>2 DEF Missing
<1> SUFFICES ASSUME <<Site, "patterned_404_urls">> \notin decided,
                    NEW p \in Named(new, <<Site, "patterned_404_urls">>)
             PROVE  row[p].status = 404
  BY DEF MissingFollow
<1>9. <<Site, "patterned_404_urls">> \notin suppressed
  BY <1>1
<1> QED
  BY <1>1, <1>4, <1>7, <1>8, <1>9, NamedFacts

LEMMA SeenKept ==
    ASSUME Inv, IInv, NEW w, NEW i, NEW new, Analysis(w, i, new), NEW group, NEW type,
           ~ (i \in WholePasses /\ group \in PassTypes(i)), SeenFollow(issues, group, type)
    PROVE  SeenFollow(new, group, type)
<1>1. ~ Touches(SiteReport(w, i), <<Site, group>>)
  BY AnalysisTouches, NoPages
<1>2. Named(new, <<Site, group>>) = Named(issues, <<Site, group>>)
  BY <1>1, AnalysisKeeps
<1>3. \A k, m : HasOccurrence(issues, k, m) => HasOccurrence(new, k, m)
  <2>1. PICK report : report = SiteReport(w, i)
    OBVIOUS
  <2>2. new = Reconcile(issues, report, suppressed, Run)
    BY <2>1 DEF Analysis
  <2> QED
    BY <2>2, ReconcileFacts DEF Evolves, IInv, IssuesInv
<1> QED
  BY <1>2, <1>3 DEF SeenFollow

\* Members that come from the occurrences of this run.
LEMMA SeenMade ==
    ASSUME Inv, IInv, LatestInv, Crawling, NEW w, NEW i, NEW new, Analysis(w, i, new), NEW group, NEW type,
           NEW covered \in SUBSET WithOccurrence(w, type),
           SiteReport(w, i) = Report({Site}, {group}, SignalIf(covered # {}, Site, group, covered))
    PROVE  SeenFollow(new, group, type)
<1>1. RowsOK(issues) /\ LatestIn(issues, Run) /\ suppressed \subseteq decided
      /\ \A k \in DOMAIN issues : KeyOK(k, Stored)
  BY DEF IInv, IssuesInv, LatestInv
<1>2. w.issues = issues /\ w.run = Run
  BY WebsiteFacts DEF Analysis, Inv
<1>3. PICK report : report = SiteReport(w, i)
  OBVIOUS
<1>4. new = Reconcile(issues, report, suppressed, Run)
  BY <1>3 DEF Analysis
<1>5. ChecksKey(report, <<Site, group>>) /\ EvidenceIn(report, <<Site, group>>, covered)
  BY <1>3 DEF Report, SignalIf, Signal, ChecksKey, EvidenceIn
<1> SUFFICES ASSUME <<Site, group>> \notin decided, NEW p \in Named(new, <<Site, group>>)
             PROVE  HasOccurrence(new, <<p, type>>, Run)
  BY DEF SeenFollow
<1>6. p \in covered
  <2>1. <<Site, group>> \notin suppressed
    BY <1>1
  <2> QED
    BY <1>1, <1>4, <1>5, <2>1, NamedFacts
<1>7. PICK j \in DOMAIN issues : j[1] = p /\ j[2] = type /\ HasOccurrence(issues, j, Run)
  BY <1>2, <1>6 DEF WithOccurrence
<1>8. j = <<p, type>>
  BY <1>1, <1>7 DEF KeyOK
<1>9. \A k, m : HasOccurrence(issues, k, m) => HasOccurrence(new, k, m)
  BY <1>1, <1>4, ReconcileFacts DEF Evolves
<1> QED
  BY <1>7, <1>8, <1>9

LEMMA PatternsSeen ==
    ASSUME NEW w, NEW type, NEW pattern
    PROVE  \E covered \in SUBSET WithOccurrence(w, type) :
              RedirectPatterns(w, type, pattern)
                = Report({Site}, {pattern}, SignalIf(covered # {}, Site, pattern, covered))
BY DEF RedirectPatterns, Grouped

LEMMA IncidentSeen ==
    ASSUME NEW w
    PROVE  \E affected \in SUBSET WithOccurrence(w, "http_5xx") :
              ServerErrorIncident(w)
                = Report({Site}, {"server_error_incident"},
                         SignalIf(affected # {}, Site, "server_error_incident", affected))
BY DEF ServerErrorIncident, Grouped

\* An analysis makes the groups that are its own, and keeps the earlier ones.
LEMMA GroupsPass ==
    ASSUME Inv, IInv, LatestInv, Crawling, NEW w, NEW i, NEW new, Analysis(w, i, new),
           GroupsFrom(issues, i)
    PROVE  GroupsFrom(new, i + 1)
<1>1. i \in 2 .. 20
  BY DEF Analysis, SitePasses
<1>2. ASSUME NEW group, NEW type, SeenFollow(issues, group, type), ~ (i \in WholePasses /\ group \in PassTypes(i))
      PROVE  SeenFollow(new, group, type)
  BY <1>2, SeenKept
<1>3. ASSUME i + 1 > 17, NEW t \in ClusterableTypes \ {"multiple_broken_internal_links"}
      PROVE  ClusterFollows(new, t)
  <2>1. CASE i = 17
    <3>1. Analysis(w, 17, new)
      BY <2>1
    <3> QED
      BY <3>1, ClustersMade
  <2>2. CASE i \in {18, 19, 20}
    <3>1. ClusterFollows(issues, t)
      BY <2>2 DEF GroupsFrom
    <3> QED
      BY <2>2, <3>1, ClustersKept
  <2>3. i = 17 \/ i \in {18, 19, 20}
    <3>1. i \in Nat /\ i <= 20 /\ i + 1 > 17
      BY <1>1, <1>3
    <3> QED
      BY <3>1
  <2> QED
    BY <2>1, <2>2, <2>3
<1>4. ASSUME i + 1 > 19 PROVE MissingFollow(new)
  <2>1. CASE i = 19
    <3>1. Analysis(w, 19, new)
      BY <2>1
    <3> QED
      BY <3>1, MissingMade
  <2>2. CASE i = 20
    <3>1. MissingFollow(issues) /\ Analysis(w, 20, new)
      BY <2>2 DEF GroupsFrom
    <3> QED
      BY <3>1, MissingKept
  <2>3. i = 19 \/ i = 20
    BY <1>1, <1>4
  <2> QED
    BY <2>1, <2>2, <2>3
<1>5. ASSUME i + 1 > 5
      PROVE  SeenFollow(new, "internal_redirect_patterns", "internally_linked_redirect")
  <2>1. CASE i = 5
    <3>1. SiteReport(w, i) = RedirectPatterns(w, "internally_linked_redirect", "internal_redirect_patterns")
      BY <2>1, Reports DEF InternalRedirectPatterns
    <3>2. PICK covered \in SUBSET WithOccurrence(w, "internally_linked_redirect") :
             RedirectPatterns(w, "internally_linked_redirect", "internal_redirect_patterns")
               = Report({Site}, {"internal_redirect_patterns"},
                        SignalIf(covered # {}, Site, "internal_redirect_patterns", covered))
      BY PatternsSeen
    <3> QED
      BY <3>1, <3>2, SeenMade
  <2>2. CASE i # 5
    <3>1. i > 5
      BY <1>1, <1>5, <2>2
    <3>2. ~ (i \in WholePasses /\ "internal_redirect_patterns" \in PassTypes(i))
      BY <3>1 DEF WholePasses, PassTypes
    <3> QED
      BY <1>2, <3>1, <3>2 DEF GroupsFrom
  <2> QED
    BY <2>1, <2>2
<1>6. ASSUME i + 1 > 8
      PROVE  SeenFollow(new, "sitemap_redirect_patterns", "sitemap_redirect")
  <2>1. CASE i = 8
    <3>1. SiteReport(w, i) = RedirectPatterns(w, "sitemap_redirect", "sitemap_redirect_patterns")
      BY <2>1, Reports DEF SitemapRedirectPatterns
    <3>2. PICK covered \in SUBSET WithOccurrence(w, "sitemap_redirect") :
             RedirectPatterns(w, "sitemap_redirect", "sitemap_redirect_patterns")
               = Report({Site}, {"sitemap_redirect_patterns"},
                        SignalIf(covered # {}, Site, "sitemap_redirect_patterns", covered))
      BY PatternsSeen
    <3> QED
      BY <3>1, <3>2, SeenMade
  <2>2. CASE i # 8
    <3>1. i > 8
      BY <1>1, <1>6, <2>2
    <3>2. ~ (i \in WholePasses /\ "sitemap_redirect_patterns" \in PassTypes(i))
      BY <3>1 DEF WholePasses, PassTypes
    <3> QED
      BY <1>2, <3>1, <3>2 DEF GroupsFrom
  <2> QED
    BY <2>1, <2>2
<1>7. ASSUME i + 1 > 9
      PROVE  SeenFollow(new, "server_error_incident", "http_5xx")
  <2>1. CASE i = 9
    <3>1. SiteReport(w, i) = ServerErrorIncident(w)
      BY <2>1, Reports
    <3> QED
      BY <3>1, IncidentSeen, SeenMade
  <2>2. CASE i # 9
    <3>1. i > 9
      BY <1>1, <1>7, <2>2
    <3>2. ~ (i \in WholePasses /\ "server_error_incident" \in PassTypes(i))
      BY <3>1 DEF WholePasses, PassTypes
    <3> QED
      BY <1>2, <3>1, <3>2 DEF GroupsFrom
  <2> QED
    BY <2>1, <2>2
<1> QED
  BY <1>3, <1>4, <1>5, <1>6, <1>7 DEF GroupsFrom

-----------------------------------------------------------------------------
(* The occurrences and the groups, step by step *)

LEMMA InitLatest == Init => LatestInv /\ GroupInv
<1> SUFFICES ASSUME Init PROVE LatestInv /\ GroupInv
  OBVIOUS
<1>1. job.phase = "idle" /\ DOMAIN issues = {} /\ suppressed = {}
  BY DEF Init, NoJob
<1>2. From = 1
  BY <1>1 DEF From
<1> QED
  BY <1>1, <1>2 DEF LatestInv, GroupInv, GroupsFrom, RunsWithin, Crawling

\* The issues stay, and the run, unless another starts.
LEMMA QuietLatest ==
    ASSUME LatestInv, UNCHANGED <<issues, suppressed, decided>>, Run' = Run, Crawling' => Crawling,
           job'.phase = "recalculating" => job.phase = "recalculating" /\ job'.source = job.source
    PROVE  LatestInv'
BY DEF LatestInv, RunsWithin, LatestIn, LatestIs, SeenIn

LEMMA StartLatest ==
    ASSUME Inv, LatestInv, NEW max \in Maxima, StartCrawl(max)
    PROVE  LatestInv'
<1>1. Run \in Nat /\ Run' = Run + 1
  BY DEF StartCrawl, Inv, Typed, Run
<1>2. UNCHANGED <<issues, suppressed, decided>> /\ job'.phase = "pages"
  BY DEF StartCrawl
<1>3. \A k \in DOMAIN issues : \A i \in DOMAIN issues[k].seen :
         issues[k].seen[i].run \in 1 .. Run + 1 /\ issues[k].seen[i].run # Run + 1
  BY <1>1 DEF LatestInv, RunsWithin
<1>4. RunsWithin(issues, Run + 1) /\ LatestIn(issues, Run + 1)
  BY <1>3 DEF RunsWithin, LatestIn, LatestIs, SeenIn
<1> QED
  BY <1>1, <1>2, <1>4 DEF LatestInv, RunsWithin, LatestIn, LatestIs, SeenIn

LEMMA FetchJob ==
    ASSUME job \in Job, FetchPage
    PROVE  /\ job.phase = "pages" /\ job'.phase = "pages" /\ job'.resumed = job.resumed
           /\ UNCHANGED <<before, decided>>
<1>1. PICK entry, depth, shot, previous, targets, assets : Store(entry.page, depth, shot, previous, targets, assets)
  BY DEF FetchPage
<1>2. job'.phase = job.phase /\ job'.resumed = job.resumed
  BY <1>1 DEF Store, Job
<1> QED
  BY <1>2 DEF FetchPage

LEMMA FetchLatest ==
    ASSUME Inv, IInv, LatestInv, FetchPage
    PROVE  LatestInv'
<1>1. Typed /\ RunsRise /\ Waiting /\ Run \in Nat /\ RowsOK(issues)
  BY DEF Inv, Typed, Run, IInv, IssuesInv
<1>2. /\ job.phase = "pages" /\ UNCHANGED <<world, listed, suppressed, runs, decided>> /\ Run' = Run
      /\ job \in Job
  BY <1>1 DEF FetchPage, Run, Typed
<1>3. PICK p \in Pages, shot \in Shot, depth \in Nat : \E targets, assets :
          Storing(p, shot, targets, assets, depth)
  BY FetchShape
<1>4. PICK targets, assets : Storing(p, shot, targets, assets, depth)
  BY <1>3
<1>5. Adds(p, shot, targets, assets)
  <2>1. UNCHANGED <<world, runs>>
    BY <1>2
  <2> QED
    BY <1>3, <1>4, <2>1, StoringFacts, Zenon
<1>6. Store(p, depth, shot, PreviousShot(p, shot), targets, assets)
  BY <1>4 DEF Storing
<1>7. PICK previous, inbound, answering, audits, reports :
         /\ answering = Answering(assets) /\ audits = Audits(answering)
         /\ reports = ReportsOf(p, shot, previous, inbound, audits)
         /\ issues' = Reconciled(issues, reports, Run)
  BY <1>6 DEF Store
<1>8. IsList(reports)
  <2>1. PICK pages : pages = Stored'
    OBVIOUS
  <2>2. pages \in SUBSET Pages /\ p \in pages /\ assets \in SUBSET pages
    BY <1>5, <2>1 DEF Stored, Adds
  <2> QED
    BY <1>1, <1>7, <2>2, ReportsOfFacts
<1>9. Run \in 1 .. Run
  BY <1>1, <1>2 DEF IInv, PhaseInv
<1>10. PICK new : new = issues'
  OBVIOUS
<1>11. RunsWithin(new, Run) /\ LatestIn(new, Run)
  <2>1. RunsWithin(issues, Run) /\ LatestIn(issues, Run)
    BY <1>2 DEF LatestInv, Crawling
  <2> QED
    BY <1>1, <1>7, <1>8, <1>9, <1>10, <2>1, ReconciledRuns
<1>12. job'.phase = "pages"
  BY <1>2, <1>6 DEF Store, Job
<1> QED
  BY <1>2, <1>10, <1>11, <1>12 DEF LatestInv, RunsWithin, LatestIn, LatestIs, SeenIn

LEMMA AnalyseLatest ==
    ASSUME Inv, IInv, LatestInv, AnalyseSite
    PROVE  LatestInv'
<1>1. Typed /\ RunsRise /\ PhaseInv /\ RowsOK(issues) /\ job \in Job /\ Run \in Nat
  BY DEF Inv, IInv, IssuesInv, Typed, Run
<1>2. /\ job.phase \in {"pages", "analyses", "recalculating"}
      /\ job.phase \in {"pages", "analyses"} => job.source = Run
  BY <1>1, PassFacts DEF PhaseInv
<1>3. PICK n : n = job.source
  OBVIOUS
<1>4. n \in 1 .. Run
  BY <1>1, <1>2, <1>3 DEF PhaseInv, LatestInv
<1>5. PICK w : w = StoredAs(n)
  OBVIOUS
<1>6. PICK report : report = SiteReport(w, Pass)
  OBVIOUS
<1>7. PICK mid : mid = Reconcile(issues, report, suppressed, n)
  OBVIOUS
<1>8. PICK new : new = issues'
  OBVIOUS
<1>9. new = IF Pass = 1 THEN ResolvedOrphans(mid, report.owners) ELSE mid
  <2>1. w.run = n
    BY <1>1, <1>5, WebsiteFacts
  <2> QED
    BY <1>3, <1>5, <1>6, <1>7, <1>8, <2>1 DEF AnalyseSite
<1>10. RowsOK(mid)
  BY <1>1, <1>7, ReconcileFacts DEF Evolves
<1>11. DOMAIN new = DOMAIN mid /\ \A k \in DOMAIN mid : new[k].seen = mid[k].seen
  <2>1. DOMAIN ResolvedOrphans(mid, report.owners) = DOMAIN mid
    BY DEF ResolvedOrphans
  <2> QED
    BY <1>9, <1>10, <2>1, OrphansSeen
<1>12. RunsWithin(new, Run) /\ (LatestIn(issues, n) => LatestIn(new, n))
  <2>1. RunsWithin(mid, Run) /\ (LatestIn(issues, n) => LatestIn(mid, n))
    BY <1>1, <1>4, <1>7, ReconcileRuns DEF LatestInv
  <2> QED
    BY <1>11, <2>1 DEF RunsWithin, LatestIn
<1>13. UNCHANGED <<suppressed, decided>>
  BY DEF AnalyseSite
<1>14. /\ Run' = Run
       /\ Crawling' => Crawling /\ job.source = Run
       /\ job'.phase = "recalculating" => job'.source = n
  <2>1. CASE Pass < SitePasses
    <3>1. job' = [job EXCEPT !.pass = Pass + 1, !.phase = IF @ = "pages" THEN "analyses" ELSE @]
          /\ runs' = runs
      BY <2>1 DEF AnalyseSite
    <3> QED
      BY <1>1, <1>2, <1>3, <3>1 DEF Job, Run, Crawling
  <2>2. CASE ~ (Pass < SitePasses)
    <3>1. job' = [job EXCEPT !.pass = 0, !.phase = "idle"]
          /\ (runs' = runs \/ runs' = [runs EXCEPT ![Run] = Ended])
      BY <2>2 DEF AnalyseSite
    <3>2. Ended \in {"running", "stopped", "succeeded", "partially_succeeded"}
      BY DEF Ended
    <3>3. Run' = Run
      BY <1>1, <3>1, <3>2, RunStatus DEF Run
    <3> QED
      BY <1>1, <3>1, <3>3 DEF Job, Crawling
  <2> QED
    BY <2>1, <2>2
<1>15. Crawling' => LatestIn(new, Run)
  BY <1>3, <1>12, <1>14 DEF LatestInv
<1> QED
  BY <1>4, <1>8, <1>12, <1>13, <1>14, <1>15 DEF LatestInv, RunsWithin, LatestIn, LatestIs, SeenIn

LEMMA RecalculateLatest ==
    ASSUME Inv, IInv, LatestInv, NEW n \in DOMAIN runs, Recalculate(n)
    PROVE  LatestInv'
<1>1. RowsOK(issues) /\ RunsWithin(issues, Run) /\ job \in Job
  BY DEF IInv, IssuesInv, LatestInv, Inv, Typed
<1>2. n \in 1 .. Run
  BY DEF Inv, Typed, Run
<1>3. UNCHANGED <<suppressed, decided, runs>> /\ Run' = Run
      /\ job' = [job EXCEPT !.phase = "recalculating", !.source = n, !.pass = 1]
  BY DEF Recalculate, Run
<1>4. PICK new : new = issues'
  OBVIOUS
<1>5. PICK given : IsList(given) /\ new = Reconciled(issues, given, n)
  BY <1>4, RecalculatedRows
<1>6. RunsWithin(new, Run)
  BY <1>1, <1>2, <1>5, ReconciledRuns
<1>7. job'.phase = "recalculating" /\ job'.source = n
  BY <1>1, <1>3 DEF Job
<1> QED
  BY <1>2, <1>3, <1>4, <1>6, <1>7 DEF LatestInv, RunsWithin, Crawling

\* What a decision leaves as it was: every occurrence, and what nobody decided about.
Decides ==
    /\ UNCHANGED <<row, runs, job>> /\ decided \subseteq decided' /\ suppressed' \subseteq decided'
    /\ DOMAIN issues' = DOMAIN issues
    /\ \A k \in DOMAIN issues :
         /\ issues'[k].seen = issues[k].seen
         /\ k \notin decided' => issues'[k].status = issues[k].status

LEMMA DecisionRows ==
    ASSUME IInv, LatestInv, NEW k \in DOMAIN issues,
           (\E status \in Decisions : SetStatus(k, status)) \/ Suppress(k) \/ RestoreSuppressed(k)
    PROVE  Decides
<1>1. UNCHANGED <<row, runs, job>> /\ decided' = decided \cup {k}
  BY DEF SetStatus, Suppress, RestoreSuppressed, Decide, stored
<1>2. suppressed' \subseteq suppressed \cup {k}
  BY DEF SetStatus, Suppress, RestoreSuppressed
<1>3. PICK status : issues' = issues \/ issues' = [issues EXCEPT ![k].status = status]
  BY DEF SetStatus, Suppress, RestoreSuppressed
<1>4. DOMAIN issues' = DOMAIN issues /\ \A j \in DOMAIN issues \ {k} : issues'[j] = issues[j]
  BY <1>3
<1>5. issues'[k].seen = issues[k].seen
  <2>1. RowOK(issues[k])
    BY DEF IInv, IssuesInv, RowsOK
  <2>2. [issues[k] EXCEPT !.status = status].seen = issues[k].seen
    BY <2>1 DEF RowOK
  <2>3. issues'[k] = issues[k] \/ issues'[k] = [issues[k] EXCEPT !.status = status]
    BY <1>3
  <2> QED
    BY <2>2, <2>3
<1> QED
  BY <1>1, <1>2, <1>4, <1>5 DEF Decides, LatestInv

LEMMA DecisionLatest ==
    ASSUME LatestInv, Decides
    PROVE  LatestInv'
BY DEF LatestInv, Decides, RunsWithin, LatestIn, LatestIs, SeenIn, Crawling, Run

LEMMA DecisionGroups ==
    ASSUME GroupInv, Decides
    PROVE  GroupInv'
<1>1. From' = From /\ Run' = Run
  BY DEF Decides, From, Run
<1>2. ASSUME NEW k, k \notin decided'
      PROVE  Named(issues', k) = Named(issues, k) /\ (IsOpen(issues', k) <=> IsOpen(issues, k))
  <2>1. PICK new : new = issues'
    OBVIOUS
  <2>2. /\ k \in DOMAIN new <=> k \in DOMAIN issues
        /\ k \in DOMAIN issues => new[k].status = issues[k].status /\ new[k].seen = issues[k].seen
    BY <1>2, <2>1 DEF Decides
  <2> QED
    BY <2>1, <2>2, SameNamed
<1>3. \A k, n : HasOccurrence(issues', k, n) <=> HasOccurrence(issues, k, n)
  BY DEF Decides, HasOccurrence
<1>4. ASSUME NEW t, ClusterFollows(issues, t) PROVE ClusterFollows(issues, t)'
  <2> SUFFICES ASSUME <<Clusters, t>> \notin decided', NEW p \in Named(issues', <<Clusters, t>>)
               PROVE  /\ p \in Pages /\ (<<p, t>> \notin decided' => IsOpen(issues', <<p, t>>))
                      /\ t \in PaginationChildTypes /\ Review \notin decided' => p \notin Named(issues', Review)
    BY DEF ClusterFollows, Named, IsOpen, LatestEvidence, StatusOf, Review
  <2>1. <<Clusters, t>> \notin decided /\ p \in Named(issues, <<Clusters, t>>)
    BY <1>2 DEF Decides
  <2>2. /\ p \in Pages /\ (<<p, t>> \notin decided => IsOpen(issues, <<p, t>>))
        /\ t \in PaginationChildTypes /\ Review \notin decided => p \notin Named(issues, Review)
    BY <1>4, <2>1 DEF ClusterFollows
  <2> QED
    BY <1>2, <2>2 DEF Decides
<1>5. MissingFollow(issues) => MissingFollow(issues)'
  BY <1>2 DEF MissingFollow, Decides
<1>6. ASSUME NEW group, NEW type, SeenFollow(issues, group, type)
      PROVE  SeenFollow(issues, group, type)'
  BY <1>1, <1>2, <1>3, <1>6 DEF SeenFollow, Decides
<1> QED
  BY <1>1, <1>4, <1>5, <1>6 DEF GroupInv, GroupsFrom

LEMMA SameGroups ==
    ASSUME UNCHANGED <<row, decided>>, Run' = Run, NEW new, new = issues', NEW first, GroupsFrom(new, first)
    PROVE  GroupsFrom(issues, first)'
<1>1. ASSUME NEW t, ClusterFollows(new, t) PROVE ClusterFollows(issues, t)'
  BY <1>1 DEF ClusterFollows
<1>2. MissingFollow(new) => MissingFollow(issues)'
  BY DEF MissingFollow
<1>3. ASSUME NEW group, NEW type, SeenFollow(new, group, type) PROVE SeenFollow(issues, group, type)'
  BY <1>3 DEF SeenFollow
<1> QED
  BY <1>1, <1>2, <1>3 DEF GroupsFrom

\* The groups after an analysis of a crawl whose frontier is empty.
LEMMA AnalysedGroups ==
    ASSUME Inv, IInv, LatestInv, GroupInv, AnalyseSite,
           job.phase \in {"pages", "analyses"}, job.pending = <<>>
    PROVE  GroupsFrom(issues', Pass + 1)
<1>1. Typed /\ RunsRise /\ PhaseInv
  BY DEF Inv, IInv
<1>2. PICK i : i = Pass
  OBVIOUS
<1>3. /\ i \in 1 .. SitePasses /\ job.source = Run
      /\ job.phase = "analyses" => i = job.pass
      /\ job.phase = "pages" => i = 1
  BY <1>1, <1>2, PassFacts DEF PhaseInv
<1>4. PICK new : new = issues'
  OBVIOUS
<1>5. CASE i = 1
  BY <1>2, <1>4, <1>5 DEF GroupsFrom
<1>6. CASE i # 1
  <2>1. job.phase = "analyses" /\ From = i
    BY <1>3, <1>6 DEF From
  <2>2. PICK w : w = StoredAs(Run)
    OBVIOUS
  <2>3. w.run = Run
    BY <1>1, <2>2, WebsiteFacts
  <2>4. new = Reconcile(issues, SiteReport(w, i), suppressed, Run)
    BY <1>2, <1>3, <1>4, <1>6, <2>2, <2>3 DEF AnalyseSite
  <2>5. Analysis(w, i, new)
    BY <1>3, <1>6, <2>2, <2>4 DEF Analysis, SitePasses
  <2>6. GroupsFrom(issues, i) /\ Crawling
    BY <2>1 DEF GroupInv, Crawling
  <2>7. GroupsFrom(new, i + 1)
    BY <2>5, <2>6, GroupsPass
  <2> QED
    BY <1>2, <1>4, <2>7
<1> QED
  BY <1>5, <1>6

LEMMA AnalyseGroups ==
    ASSUME Inv, IInv, LatestInv, GroupInv, AnalyseSite
    PROVE  GroupInv'
<1>1. job \in Job /\ UNCHANGED <<row, decided>>
  BY DEF Inv, Typed, AnalyseSite, stored
<1>2. CASE Pass < SitePasses
  <2>1. job' = [job EXCEPT !.pass = Pass + 1, !.phase = IF @ = "pages" THEN "analyses" ELSE @]
        /\ runs' = runs
    BY <1>2 DEF AnalyseSite
  <2>2. /\ job'.pass = Pass + 1 /\ job'.pending = job.pending /\ Run' = Run
        /\ job'.phase = IF job.phase = "pages" THEN "analyses" ELSE job.phase
    BY <1>1, <2>1 DEF Job, Run
  <2>3. CASE job.phase \in {"pages", "analyses"} /\ job.pending = <<>>
    <3>1. PICK first : first = Pass + 1
      OBVIOUS
    <3>2. PICK new : new = issues'
      OBVIOUS
    <3>3. GroupsFrom(new, first)
      BY <2>3, <3>1, <3>2, AnalysedGroups
    <3>4. GroupsFrom(issues, first)'
      BY <1>1, <2>2, <3>2, <3>3, SameGroups
    <3>5. From' = first
      BY <2>2, <2>3, <3>1 DEF From
    <3> QED
      BY <3>4, <3>5 DEF GroupInv
  <2>4. CASE ~ (job.phase \in {"pages", "analyses"} /\ job.pending = <<>>)
    <3>1. From' = 1
      BY <2>2, <2>4 DEF From
    <3> QED
      BY <3>1 DEF GroupInv, GroupsFrom
  <2> QED
    BY <2>3, <2>4
<1>3. CASE ~ (Pass < SitePasses)
  <2>1. job' = [job EXCEPT !.pass = 0, !.phase = "idle"]
    BY <1>3 DEF AnalyseSite
  <2>2. From' = 1
    BY <1>1, <2>1 DEF From, Job
  <2> QED
    BY <2>2 DEF GroupInv, GroupsFrom
<1> QED
  BY <1>2, <1>3

LEMMA GroupsStep ==
    ASSUME Inv, IInv, LatestInv, GroupInv, [Next]_vars
    PROVE  LatestInv' /\ GroupInv'
<1>1. job \in Job
  BY DEF Inv, Typed
<1>2. ASSUME job'.phase # "analyses" PROVE GroupInv'
  <2>1. From' = 1
    BY <1>2 DEF From
  <2> QED
    BY <2>1 DEF GroupInv, GroupsFrom
<1>3. CASE \/ UNCHANGED vars
           \/ \E p \in Pages : \E version \in world.may[p] : ChangePage(p, version)
           \/ \E pages \in world.sitemaps : ChangeSitemap(pages)
  <2>1. UNCHANGED <<row, issues, suppressed, decided, runs, job>> /\ Run' = Run
    BY <1>3 DEF vars, stored, ChangePage, ChangeSitemap, Run
  <2>2. LatestInv'
    BY <2>1, QuietLatest DEF Crawling
  <2>3. PICK first : first = From
    OBVIOUS
  <2>4. PICK new : new = issues'
    OBVIOUS
  <2>5. GroupsFrom(new, first)
    BY <2>1, <2>3, <2>4 DEF GroupInv
  <2>6. GroupsFrom(issues, first)' /\ From' = first
    BY <2>1, <2>3, <2>4, <2>5, SameGroups DEF From
  <2> QED
    BY <2>2, <2>6 DEF GroupInv
<1>4. CASE \E max \in Maxima : StartCrawl(max)
  <2>1. PICK max \in Maxima : StartCrawl(max)
    BY <1>4
  <2>2. job'.phase = "pages"
    BY <2>1 DEF StartCrawl
  <2> QED
    BY <1>2, <2>1, <2>2, StartLatest
<1>5. CASE ResumeCrawl
  <2>1. UNCHANGED <<issues, suppressed, decided>> /\ job.phase = "stopped"
    BY <1>5 DEF ResumeCrawl
  <2>2. Run' = Run
    BY <1>5, RunStatus DEF ResumeCrawl, Inv
  <2>3. job'.phase = "pages"
    BY <1>1, <1>5 DEF ResumeCrawl, Job
  <2>4. LatestInv'
    BY <2>1, <2>2, <2>3, QuietLatest DEF Crawling
  <2> QED
    BY <1>2, <2>3, <2>4
<1>6. CASE FetchPage
  <2>1. job'.phase = "pages"
    BY <1>1, <1>6, FetchJob
  <2> QED
    BY <1>2, <1>6, <2>1, FetchLatest
<1>7. CASE AnalyseSite
  BY <1>7, AnalyseLatest, AnalyseGroups
<1>8. CASE StopCrawl \/ GiveUpCrawl \/ StopRecalculation
  <2>1. UNCHANGED <<issues, suppressed, decided>>
    BY <1>8 DEF StopCrawl, GiveUpCrawl, StopRecalculation
  <2>2. Run' = Run
    BY <1>8, RunStatus DEF StopCrawl, GiveUpCrawl, StopRecalculation, Inv, Run
  <2>3. job'.phase = "idle" \/ (job'.phase = "stopped" /\ job.phase \in {"pages", "analyses"})
    BY <1>1, <1>8 DEF StopCrawl, GiveUpCrawl, StopRecalculation, Job
  <2>4. LatestInv'
    BY <2>1, <2>2, <2>3, QuietLatest DEF Crawling
  <2> QED
    BY <1>2, <2>3, <2>4
<1>9. CASE \E n \in DOMAIN runs : Recalculate(n)
  <2>1. PICK n \in DOMAIN runs : Recalculate(n)
    BY <1>9
  <2>2. job'.phase = "recalculating"
    BY <1>1, <2>1 DEF Recalculate, Job
  <2> QED
    BY <1>2, <2>1, <2>2, RecalculateLatest
<1>10. CASE \E k \in DOMAIN issues : \/ \E status \in Decisions : SetStatus(k, status)
                                     \/ Suppress(k) \/ RestoreSuppressed(k)
  <2>1. Decides
    BY <1>10, DecisionRows
  <2> QED
    BY <2>1, DecisionLatest, DecisionGroups
<1> QED
  BY <1>3, <1>4, <1>5, <1>6, <1>7, <1>8, <1>9, <1>10 DEF Next

LEMMA GroupsHold == Spec => [](LatestInv /\ GroupInv)
<1>1. Init => Inv /\ LatestInv /\ GroupInv
  BY InitInv, InitLatest
<1>2. Spec => []Inv
  BY InitInv, InvStep, PTL DEF Spec
<1>3. Spec => []IInv
  BY IInvHolds
<1>4. Inv /\ IInv /\ LatestInv /\ GroupInv /\ [Next]_vars => (LatestInv /\ GroupInv)'
  BY GroupsStep
<1> QED
  BY <1>1, <1>2, <1>3, <1>4, PTL DEF Spec

\* After a complete crawl a group names what is true of its members then, unless people
\* decided about it (jobs.py:587-631, 205-213): an analysis finds the members of its groups
\* among the rows the earlier ones left, and no later one touches those rows or the groups.
THEOREM GroupsFollow == Spec => GroupsFollowMembers
<1>1. Spec => []Inv
  BY InitInv, InvStep, PTL DEF Spec
<1>2. Spec => []IInv
  BY IInvHolds
<1>3. Inv /\ IInv /\ LatestInv /\ GroupInv /\ [Next]_vars =>
       (CompleteCrawl =>
        /\ \A t \in ClusterableTypes \ {"multiple_broken_internal_links"} :
            \A p \in Named(issues', <<Clusters, t>>) :
                <<Clusters, t>> \notin decided =>
                    /\ <<p, t>> \notin decided => IsOpen(issues', <<p, t>>)
                    /\ t \in PaginationChildTypes /\ Review \notin decided =>
                         p \notin Named(issues', Review)
        /\ \A p \in Named(issues', <<Site, "patterned_404_urls">>) :
            <<Site, "patterned_404_urls">> \notin decided => row[p].status = 404
        /\ \A pair \in {<<"internal_redirect_patterns", "internally_linked_redirect">>,
                        <<"sitemap_redirect_patterns", "sitemap_redirect">>,
                        <<"server_error_incident", "http_5xx">>} :
            <<Site, pair[1]>> \notin decided =>
                \A p \in Named(issues', <<Site, pair[1]>>) : HasOccurrence(issues', <<p, pair[2]>>, Run))
  <2> SUFFICES ASSUME Inv, IInv, LatestInv, GroupInv, [Next]_vars, CompleteCrawl
               PROVE  /\ \A t \in ClusterableTypes \ {"multiple_broken_internal_links"} :
                          \A p \in Named(issues', <<Clusters, t>>) :
                              <<Clusters, t>> \notin decided =>
                                  /\ <<p, t>> \notin decided => IsOpen(issues', <<p, t>>)
                                  /\ t \in PaginationChildTypes /\ Review \notin decided =>
                                       p \notin Named(issues', Review)
                      /\ \A p \in Named(issues', <<Site, "patterned_404_urls">>) :
                          <<Site, "patterned_404_urls">> \notin decided => row[p].status = 404
                      /\ \A pair \in {<<"internal_redirect_patterns", "internally_linked_redirect">>,
                                      <<"sitemap_redirect_patterns", "sitemap_redirect">>,
                                      <<"server_error_incident", "http_5xx">>} :
                          <<Site, pair[1]>> \notin decided =>
                              \A p \in Named(issues', <<Site, pair[1]>>) :
                                  HasOccurrence(issues', <<p, pair[2]>>, Run)
    OBVIOUS
  <2>1. AnalyseSite
    BY OnlyAnalysisEnds DEF IInv, CompleteCrawl
  <2>2. job.phase = "analyses" /\ job.pending = <<>>
    BY DEF CompleteCrawl, CrawlEnds
  <2>3. Pass = 20
    BY <2>1, LastPass DEF Inv, IInv, CompleteCrawl, SitePasses
  <2>4. PICK new : new = issues'
    OBVIOUS
  <2>5. GroupsFrom(new, 21)
    BY <2>1, <2>2, <2>3, <2>4, AnalysedGroups
  <2>6. /\ \A t \in ClusterableTypes \ {"multiple_broken_internal_links"} : ClusterFollows(new, t)
        /\ MissingFollow(new)
        /\ SeenFollow(new, "internal_redirect_patterns", "internally_linked_redirect")
        /\ SeenFollow(new, "sitemap_redirect_patterns", "sitemap_redirect")
        /\ SeenFollow(new, "server_error_incident", "http_5xx")
    BY <2>5 DEF GroupsFrom
  <2> QED
    BY <2>4, <2>6 DEF ClusterFollows, MissingFollow, SeenFollow
<1> QED
  BY <1>1, <1>2, <1>3, GroupsHold, PTL DEF Spec, GroupsFollowMembers

-----------------------------------------------------------------------------
(* An issue that one report of some touches *)

\* What a report makes of the status of a row.
Settles(report, k, old, new) ==
    new = Seen(old) \/ (new = Missed(old) /\ ChecksKey(report, k) /\ k \notin ShownKeys(report))

\* Of some reports, at most one is about the issue.
OneTouches(reports, k) ==
    \A i, j \in DOMAIN reports : Touches(reports[i], k) /\ Touches(reports[j], k) => i = j

LEMMA OneReport ==
    ASSUME NEW rows, RowsOK(rows), NEW reports, IsList(reports), NEW n, NEW k, OneTouches(reports, k),
           NEW new, new = Reconciled(rows, reports, n)
    PROVE  \/ StatusOf(new, k) = StatusOf(rows, k)
           \/ \E i \in DOMAIN reports :
                /\ Touches(reports[i], k)
                /\ k \in DOMAIN rows => Settles(reports[i], k, StatusOf(rows, k), StatusOf(new, k))
<1>1. PICK l \in Nat : l = Len(reports) /\ DOMAIN reports = 1 .. l
  BY DEF IsList
<1>2. PICK found : IsChain(found, rows, reports, n, l) /\ new = found[l]
  BY <1>1, ReconciledChain
<1> DEFINE Settling(i) == \E j \in 1 .. i :
                /\ Touches(reports[j], k)
                /\ k \in DOMAIN rows => Settles(reports[j], k, StatusOf(rows, k), StatusOf(found[i], k))
           Good(i) == /\ RowsOK(found[i]) /\ DOMAIN rows \subseteq DOMAIN found[i]
                      /\ StatusOf(found[i], k) = StatusOf(rows, k) \/ Settling(i)
           good == {i \in 0 .. l : Good(i)}
<1>3. 0 \in good
  BY <1>2 DEF IsChain
<1>4. ASSUME NEW i \in 1 .. l, i - 1 \in good PROVE i \in good
  <2>1. PICK old : old = found[i - 1]
    OBVIOUS
  <2>2. PICK next : next = found[i]
    OBVIOUS
  <2>3. PICK report : report = reports[i]
    OBVIOUS
  <2>4. /\ RowsOK(old) /\ DOMAIN rows \subseteq DOMAIN old
        /\ StatusOf(old, k) = StatusOf(rows, k) \/ Settling(i - 1)
    BY <1>4, <2>1
  <2>5. next = Reconcile(old, report, suppressed, n)
    BY <1>2, <2>1, <2>2, <2>3 DEF IsChain
  <2>6. RowsOK(next) /\ DOMAIN old \subseteq DOMAIN next
    BY <2>4, <2>5, ReconcileFacts DEF Evolves
  <2>7. CASE ~ Touches(report, k)
    <3>1. StatusOf(next, k) = StatusOf(old, k)
      BY <2>4, <2>5, <2>7, Untouched DEF Touches, StatusOf
    <3>2. Settling(i - 1) => Settling(i)
      BY <2>1, <2>2, <3>1
    <3> QED
      BY <2>2, <2>4, <2>6, <3>1, <3>2
  <2>8. CASE Touches(report, k)
    <3>1. ~ Settling(i - 1)
      <4>1. ASSUME NEW j \in 1 .. i - 1, Touches(reports[j], k) PROVE FALSE
        <5>1. j \in DOMAIN reports /\ i \in DOMAIN reports /\ j # i
          BY <1>1
        <5> QED
          BY <2>3, <2>8, <4>1, <5>1 DEF OneTouches
      <4> QED
        BY <4>1
    <3>2. StatusOf(old, k) = StatusOf(rows, k)
      BY <2>4, <3>1
    <3>3. ASSUME k \in DOMAIN rows PROVE Settles(report, k, StatusOf(rows, k), StatusOf(next, k))
                                         \/ StatusOf(next, k) = StatusOf(rows, k)
      <4>1. k \in DOMAIN old /\ k \in DOMAIN next
        BY <2>4, <2>6, <3>3
      <4>2. StatusOf(old, k) = old[k].status /\ StatusOf(next, k) = next[k].status
        BY <4>1 DEF StatusOf
      <4>3. CASE k \in ShownKeys(report) \ suppressed
        <5>1. next[k].status = Seen(old[k].status)
          BY <2>4, <2>5, <4>1, <4>3, ReconcileRows
        <5> QED
          BY <3>2, <4>2, <5>1 DEF Settles
      <4>4. CASE k \notin ShownKeys(report) \ suppressed
        <5>1. next[k].status = (IF k \notin suppressed /\ ChecksKey(report, k)
                                THEN Missed(old[k].status) ELSE old[k].status)
          BY <2>4, <2>5, <4>1, <4>4, ReconcileRows
        <5> QED
          BY <3>2, <4>2, <4>4, <5>1 DEF Settles
      <4> QED
        BY <4>3, <4>4
    <3>4. StatusOf(next, k) = StatusOf(rows, k) \/ Settling(i)
      BY <2>2, <2>3, <2>8, <3>3
    <3> QED
      BY <2>2, <2>4, <2>6, <3>4
  <2> QED
    BY <2>7, <2>8
<1> HIDE DEF good
<1>5. l \in good
  BY <1>3, <1>4, UpTo
<1> QED
  BY <1>1, <1>2, <1>5 DEF good

-----------------------------------------------------------------------------
(* The issues that the reports of a page are about *)

\* The types of the reports of a page and its assets.
FetchTypes == PageChecked \cup AssetTypes \cup HtmlOnlyTypes

LEMMA AnalysisTouchesOwn ==
    ASSUME NEW p, NEW shot, NEW previous, NEW inbound, NEW contextual, NEW k,
           Touches(AnalyzeSnapshot(p, shot, previous, inbound, contextual), k)
    PROVE  k[1] = p /\ k[2] \in PageChecked
<1>1. AllAbout(AnalyzeSnapshot(p, shot, previous, inbound, contextual).shown, {p}, PageChecked)
  BY SnapshotShows
<1> QED
  BY <1>1 DEF Touches, ShownKeys, ChecksKey, AllAbout, AnalyzeSnapshot, Report, PageChecked

LEMMA AssetTouches ==
    ASSUME NEW p, NEW shot, NEW k, Touches(InspectAsset(p, shot), k)
    PROVE  k[1] = p /\ k[2] \in AssetTypes \cup HtmlOnlyTypes
BY DEF Touches, ShownKeys, ChecksKey, InspectAsset, Report, SignalIf, Signal, AssetTypes

\* A plain 404 that is not known in its context is reported of every page that answers so.
LEMMA MissingIsShown ==
    ASSUME NEW p, NEW shot, NEW previous, NEW inbound, Fetched(shot), Content(shot).status = 404
    PROVE  <<p, "http_404">> \in ShownKeys(AnalyzeSnapshot(p, shot, previous, inbound, FALSE))
<1>1. PICK s : s = Signal(p, "http_404", {404})
  OBVIOUS
<1>2. s \in ReachabilitySignals(p, shot)
  BY <1>1 DEF ReachabilitySignals, SignalIf
<1>3. s.owner = p /\ s.type = "http_404"
  BY <1>1 DEF Signal
<1>4. s \in PageSignals(p, shot, previous, inbound, FALSE)
  BY <1>2, <1>3 DEF PageSignals, PreferContextual, ReachabilityTypes
<1>5. s \in AnalyzeSnapshot(p, shot, previous, inbound, FALSE).shown
  BY <1>4 DEF AnalyzeSnapshot, Report
<1> QED
  BY <1>3, <1>5 DEF ShownKeys

\* The reports of a page: they are about the page, and two of them about no type but the
\* findings that only HTML pages have.
OwnTouches(p, shot, contextual, own) ==
    /\ \A i \in DOMAIN own : \A k : Touches(own[i], k) => k[1] = p /\ k[2] \in FetchTypes
    /\ \A k : k[2] \notin HtmlOnlyTypes => OneTouches(own, k)
    /\ \A i \in DOMAIN own : \A k : Touches(own[i], k) /\ k[2] = "http_404" =>
         /\ Fetched(shot)
         /\ Content(shot).status = 404 /\ ~ contextual => <<p, "http_404">> \in ShownKeys(own[i])

\* The types are different ones.
LEMMA TypesApart ==
    /\ PageChecked \cap AssetTypes = {} /\ "http_404" \notin AssetTypes \cup HtmlOnlyTypes
    /\ "http_404" \notin CrawlErrorTypes \cup {"robots_txt_blocked"}
    /\ CrawlErrorTypes \cup {"robots_txt_blocked"} \subseteq PageChecked
    /\ "http_404" \in PageChecked
<1>1. PageChecked \cap AssetTypes = {}
  BY DEF PageChecked, SnapshotTypes, ReachabilityTypes, OnPageTypes, JobFlawTypes, ElementTypes, AssetTypes
<1>2. "http_404" \notin AssetTypes \cup HtmlOnlyTypes
  BY DEF AssetTypes, HtmlOnlyTypes, OnPageTypes, JobFlawTypes
<1> QED
  BY <1>1, <1>2 DEF CrawlErrorTypes, PageChecked, SnapshotTypes, ReachabilityTypes

LEMMA OwnReports ==
    ASSUME NEW p, NEW shot, NEW previous, NEW inbound, NEW contextual, contextual \in BOOLEAN,
           NEW own, own = FetchReports(p, shot, previous, inbound, contextual)
    PROVE  OwnTouches(p, shot, contextual, own)
<1>1. PICK analysis : analysis = AnalyzeSnapshot(p, shot, previous, inbound, contextual)
  OBVIOUS
<1>2. PICK asset : asset = InspectAsset(p, shot)
  OBVIOUS
<1>3. PICK error : error = InspectCrawlError(p, shot)
  OBVIOUS
<1>4. PICK robots : robots = RobotsBlocked(p)
  OBVIOUS
<1>5. \A k : Touches(analysis, k) => k[1] = p /\ k[2] \in PageChecked
  BY <1>1, AnalysisTouchesOwn
<1>6. \A k : Touches(asset, k) => k[1] = p /\ k[2] \in AssetTypes \cup HtmlOnlyTypes
  BY <1>2, AssetTouches
<1>7. \A k : Touches(error, k) => k[1] = p /\ k[2] \in CrawlErrorTypes
  BY <1>3 DEF Touches, ShownKeys, ChecksKey, InspectCrawlError, Report, SignalIf, Signal, CrawlErrorTypes
<1>8. \A k : Touches(robots, k) => k[1] = p /\ k[2] = "robots_txt_blocked"
  BY <1>4 DEF Touches, ShownKeys, ChecksKey, RobotsBlocked, Report, Signal
<1>9. Fetched(shot) /\ Content(shot).status = 404 /\ ~ contextual => <<p, "http_404">> \in ShownKeys(analysis)
  BY <1>1, MissingIsShown
<1>10. CASE shot.error = "robots"
  <2>1. own = <<robots>>
    BY <1>4, <1>10 DEF FetchReports
  <2>2. \A i \in DOMAIN own : i = 1 /\ own[i] = robots
    BY <2>1
  <2> QED
    BY <1>8, <2>2, TypesApart DEF OwnTouches, OneTouches, FetchTypes
<1>11. CASE shot.error # "robots" /\ ~ Fetched(shot)
  <2>1. own = <<error>>
    BY <1>3, <1>11 DEF FetchReports
  <2>2. \A i \in DOMAIN own : i = 1 /\ own[i] = error
    BY <2>1
  <2> QED
    BY <1>7, <2>2, TypesApart DEF OwnTouches, OneTouches, FetchTypes
<1>12. CASE Fetched(shot) /\ ServesHtml(shot)
  <2>1. own = <<analysis>> \o <<>>
    BY <1>1, <1>12 DEF FetchReports, Fetched
  <2>2. \A i \in DOMAIN own : i = 1 /\ own[i] = analysis
    BY <2>1
  <2> QED
    BY <1>5, <1>9, <1>12, <2>2 DEF OwnTouches, OneTouches, FetchTypes
<1>13. CASE Fetched(shot) /\ ~ ServesHtml(shot)
  <2>1. own = <<analysis>> \o <<asset>>
    BY <1>1, <1>2, <1>13 DEF FetchReports, Fetched
  <2>2. DOMAIN own = {1, 2} /\ own[1] = analysis /\ own[2] = asset
    BY <2>1
  <2>3. \A k : k[2] \notin HtmlOnlyTypes => ~ (Touches(analysis, k) /\ Touches(asset, k))
    BY <1>5, <1>6, TypesApart
  <2>4. \A k : k[2] \notin HtmlOnlyTypes => OneTouches(own, k)
    BY <2>2, <2>3 DEF OneTouches
  <2>5. \A i \in DOMAIN own : \A k : Touches(own[i], k) => k[1] = p /\ k[2] \in FetchTypes
    BY <1>5, <1>6, <2>2 DEF FetchTypes
  <2>6. \A k : Touches(own[2], k) => k[2] # "http_404"
    BY <1>6, <2>2, TypesApart
  <2> QED
    BY <1>9, <1>13, <2>2, <2>4, <2>5, <2>6 DEF OwnTouches
<1> QED
  BY <1>10, <1>11, <1>12, <1>13

\* The reports of a page and its assets: each is about one of them, and no two about one
\* issue, but for the findings that only HTML pages have.
LEMMA ReportsTouch ==
    ASSUME Typed, NEW p \in Pages, NEW assets \in SUBSET Pages, p \notin assets,
           NEW answering, answering = Answering(assets), NEW audits, audits = Audits(answering),
           NEW shot, NEW previous, NEW inbound,
           NEW reports, reports = ReportsOf(p, shot, previous, inbound, audits)
    PROVE  /\ \A i \in DOMAIN reports : \A k : Touches(reports[i], k) =>
                k[1] \in {p} \cup assets /\ k[2] \in FetchTypes
           /\ \A k : k[2] \notin HtmlOnlyTypes => OneTouches(reports, k)
           /\ \A i \in DOMAIN reports : \A k : Touches(reports[i], k) /\ k[2] = "http_404" =>
                /\ k[1] = p /\ Fetched(shot)
                /\ Content(shot).status = 404 /\ ~ Contextual404Known(issues, p)
                     => <<p, "http_404">> \in ShownKeys(reports[i])
<1>1. PICK contextual : contextual = Contextual404Known(issues, p)
  OBVIOUS
<1>2. PICK own : own = FetchReports(p, shot, previous, inbound, contextual)
  OBVIOUS
<1>3. PICK others : others = [i \in DOMAIN audits |-> InspectAsset(audits[i].page, audits[i].shot)]
  OBVIOUS
<1>4. reports = own \o others
  BY <1>1, <1>2, <1>3 DEF ReportsOf
<1>5. OwnTouches(p, shot, contextual, own)
  <2>1. contextual \in BOOLEAN
    BY <1>1 DEF Contextual404Known
  <2> QED
    BY <1>2, <2>1, OwnReports
<1>6. IsList(own)
  <2>1. p \in Pages
    OBVIOUS
  <2> QED
    BY <1>2, <2>1, FetchReportsFacts
<1>7. /\ DOMAIN audits = 1 .. Len(audits) /\ Len(audits) \in Nat
      /\ \A i \in DOMAIN audits : audits[i].page \in assets
  BY AuditsFacts
<1>8. \A i, j \in DOMAIN audits : audits[i].page = audits[j].page => i = j
  <2>1. answering \in SUBSET Pages
    BY DEF Answering
  <2>2. PICK order : order = InOrder(answering)
    OBVIOUS
  <2>3. \A i, j \in DOMAIN order : order[i] = order[j] => i = j
    BY <2>1, <2>2, InOrderFacts
  <2>4. audits = [i \in DOMAIN order |-> [page |-> order[i], shot |-> Fetch(world.answers, order[i], Run)]]
    BY <2>2 DEF Audits
  <2> QED
    BY <2>3, <2>4
<1>9. DOMAIN others = 1 .. Len(audits) /\ Len(others) = Len(audits)
  BY <1>3, <1>7
<1>10. /\ \A i \in DOMAIN others : \A k : Touches(others[i], k) =>
            k[1] = audits[i].page /\ k[2] \in FetchTypes /\ k[2] # "http_404"
  <2> SUFFICES ASSUME NEW i \in DOMAIN others, NEW k, Touches(others[i], k)
               PROVE  k[1] = audits[i].page /\ k[2] \in FetchTypes /\ k[2] # "http_404"
    OBVIOUS
  <2>1. others[i] = InspectAsset(audits[i].page, audits[i].shot)
    BY <1>3, <1>7, <1>9
  <2>2. k[1] = audits[i].page /\ k[2] \in AssetTypes \cup HtmlOnlyTypes
    BY <2>1, AssetTouches
  <2> QED
    BY <2>2, TypesApart DEF FetchTypes
<1>11. PICK S : own \in Seq(S)
  BY <1>6 DEF IsList
<1>12. PICK T : T = S \cup {others[i] : i \in DOMAIN others}
  OBVIOUS
<1>13. own \in Seq(T)
  BY <1>11, <1>12
<1>14. others \in Seq(T)
  <2>1. others \in [1 .. Len(audits) -> T]
    BY <1>3, <1>9, <1>12
  <2> QED
    BY <1>7, <2>1
<1>15. /\ reports \in Seq(T) /\ Len(reports) = Len(own) + Len(others)
       /\ \A i \in 1 .. Len(own) + Len(others) :
             reports[i] = IF i <= Len(own) THEN own[i] ELSE others[i - Len(own)]
  BY <1>4, <1>13, <1>14, ConcatProperties
<1>16. Len(own) \in Nat /\ Len(others) \in Nat /\ DOMAIN reports = 1 .. Len(own) + Len(others)
       /\ DOMAIN own = 1 .. Len(own) /\ DOMAIN others = 1 .. Len(others)
  BY <1>13, <1>14, <1>15
<1>17. ASSUME NEW i \in DOMAIN reports
       PROVE  \/ i \in DOMAIN own /\ reports[i] = own[i]
              \/ i - Len(own) \in DOMAIN others /\ reports[i] = others[i - Len(own)]
  <2>1. CASE i <= Len(own)
    BY <1>15, <1>16, <2>1
  <2>2. CASE ~ (i <= Len(own))
    BY <1>15, <1>16, <2>2
  <2> QED
    BY <2>1, <2>2
<1>18. ASSUME NEW i \in DOMAIN reports, NEW k, Touches(reports[i], k)
       PROVE  /\ k[1] \in {p} \cup assets /\ k[2] \in FetchTypes
              /\ k[1] = p => i \in DOMAIN own /\ reports[i] = own[i]
              /\ k[1] # p => i - Len(own) \in DOMAIN others /\ k[1] = audits[i - Len(own)].page
                             /\ k[2] # "http_404"
  <2>1. CASE i \in DOMAIN own /\ reports[i] = own[i]
    <3>1. k[1] = p /\ k[2] \in FetchTypes
      BY <1>5, <1>18, <2>1 DEF OwnTouches
    <3> QED
      BY <2>1, <3>1
  <2>2. CASE i - Len(own) \in DOMAIN others /\ reports[i] = others[i - Len(own)]
    <3>1. /\ k[1] = audits[i - Len(own)].page /\ k[2] \in FetchTypes /\ k[2] # "http_404"
          /\ k[1] \in assets /\ k[1] # p
      BY <1>7, <1>9, <1>10, <1>18, <2>2
    <3> QED
      BY <2>2, <3>1
  <2> QED
    BY <1>17, <2>1, <2>2
<1>19. ASSUME NEW k, k[2] \notin HtmlOnlyTypes PROVE OneTouches(reports, k)
  <2> SUFFICES ASSUME NEW i \in DOMAIN reports, NEW j \in DOMAIN reports,
                      Touches(reports[i], k), Touches(reports[j], k)
               PROVE  i = j
    BY DEF OneTouches
  <2>1. CASE k[1] = p
    <3>1. /\ i \in DOMAIN own /\ reports[i] = own[i]
          /\ j \in DOMAIN own /\ reports[j] = own[j]
      BY <1>18, <2>1
    <3> QED
      BY <1>5, <1>19, <3>1 DEF OwnTouches, OneTouches
  <2>2. CASE k[1] # p
    <3>1. /\ i - Len(own) \in DOMAIN audits /\ k[1] = audits[i - Len(own)].page
          /\ j - Len(own) \in DOMAIN audits /\ k[1] = audits[j - Len(own)].page
      BY <1>7, <1>9, <1>18, <2>2
    <3>2. i - Len(own) = j - Len(own)
      BY <1>8, <3>1
    <3>3. i \in Int /\ j \in Int /\ Len(own) \in Int
      BY <1>16
    <3> QED
      BY <3>2, <3>3
  <2> QED
    BY <2>1, <2>2
<1>20. ASSUME NEW i \in DOMAIN reports, NEW k, Touches(reports[i], k), k[2] = "http_404"
       PROVE  /\ k[1] = p /\ Fetched(shot)
              /\ Content(shot).status = 404 /\ ~ contextual => <<p, "http_404">> \in ShownKeys(reports[i])
  <2>1. k[1] = p /\ i \in DOMAIN own /\ reports[i] = own[i]
    BY <1>18, <1>20
  <2> QED
    BY <1>5, <1>20, <2>1 DEF OwnTouches
<1> QED
  BY <1>1, <1>18, <1>19, <1>20

-----------------------------------------------------------------------------
(* The analyses that look for an issue *)

\* Analysis i checks the issue, or may: the plain 404s of the pages that are gone.
LooksFor(i, k) ==
    \/ Checks(i, k)
    \/ /\ i = 18 /\ k[1] \in Pages /\ k[2] \in Contextual404Types
       /\ k[2] = "http_404" => row[k[1]].status = 404

LEMMA ChecksLooks ==
    ASSUME Typed, RunsRise, NEW n, NEW w, w = StoredAs(n), NEW i \in 1 .. SitePasses, NEW k, KeyOK(k, Stored),
           ChecksKey(SiteReport(w, i), k)
    PROVE  LooksFor(i, k)
<1>1. /\ k[2] \in PassTypes(i)
      /\ \/ /\ k[1] \in Pages /\ i \in PagePasses \cup {13, 18}
            /\ i = 18 => row[k[1]].status = 404
         \/ k[1] = Site /\ i \in WholePasses
         \/ k[1] = Clusters /\ i = 17
  BY PassesBound
<1>2. CASE k[1] \in Pages /\ i = 13
  <2>1. k[2] = "job_posting_identifier_collision_risk"
    BY <1>1, <1>2 DEF PassTypes
  <2>2. k[2] \in PageTypes
    BY <1>2, NoPages DEF KeyOK
  <2>3. "job_posting_identifier_collision_risk" \notin PageChecked \cup AssetTypes \cup NeverMissed
    BY DEF PageChecked, SnapshotTypes, ReachabilityTypes, OnPageTypes, JobFlawTypes, ElementTypes,
           AssetTypes, NeverMissed
  <2>4. \A j \in PagePasses : "job_posting_identifier_collision_risk" \notin PassTypes(j)
    BY DEF PagePasses, PassTypes, InternationalTypes, ContextualSchemaTypes
  <2> QED
    BY <2>1, <2>2, <2>3, <2>4 DEF PageTypes, PageChecked
<1>3. CASE k[1] \in Pages /\ i = 18
  <2>1. k[2] \in Contextual404Types
    BY <1>1, <1>3 DEF PassTypes
  <2> QED
    BY <1>1, <1>3, <2>1, NoPages DEF LooksFor
<1> QED
  BY <1>1, <1>2, <1>3 DEF LooksFor, Checks

\* The types of the analyses of pages, and of those of the website, are different ones.
LEMMA OneLooks ==
    ASSUME NEW i \in 1 .. SitePasses, NEW j \in 1 .. SitePasses, NEW k, LooksFor(i, k), LooksFor(j, k)
    PROVE  i = j
<1>1. ASSUME NEW a \in PagePasses \cup {18}, NEW b \in PagePasses \cup {18}, NEW t,
             t \in PassTypes(a), t \in PassTypes(b)
      PROVE  a = b
  BY <1>1 DEF PagePasses, PassTypes, InternationalTypes, ContextualSchemaTypes, Contextual404Types
<1>2. ASSUME NEW a \in WholePasses, NEW b \in WholePasses, NEW t, t \in PassTypes(a), t \in PassTypes(b)
      PROVE  a = b
  BY <1>2 DEF WholePasses, PassTypes
<1>3. PassTypes(18) = Contextual404Types
  BY DEF PassTypes
<1>4. CASE k[1] \in Pages
  <2>1. /\ i \in PagePasses \cup {18} /\ k[2] \in PassTypes(i)
        /\ j \in PagePasses \cup {18} /\ k[2] \in PassTypes(j)
    BY <1>3, <1>4, NoPages DEF LooksFor, Checks
  <2> QED
    BY <1>1, <2>1
<1>5. CASE k[1] \notin Pages
  <2>1. Checks(i, k) /\ Checks(j, k)
    BY <1>5 DEF LooksFor
  <2> QED
    BY <1>2, <1>5, <2>1, NoPages DEF Checks
<1> QED
  BY <1>4, <1>5

\* What the reports of a page look at, no analysis does, but for the plain 404s and the
\* contents that are checked twice.
LEMMA FetchedTypes ==
    ASSUME NEW t \in PageChecked \cup AssetTypes, t # "thin_content"
    PROVE  /\ \A i \in PagePasses : t \notin PassTypes(i)
           /\ t \in Contextual404Types => t = "http_404"
<1>1. ASSUME NEW a \in PagePasses \ {15} PROVE PassTypes(a) \cap (PageChecked \cup AssetTypes) = {}
  BY <1>1 DEF PagePasses, PassTypes, InternationalTypes, ContextualSchemaTypes, PageChecked, SnapshotTypes,
     ReachabilityTypes, OnPageTypes, JobFlawTypes, ElementTypes, AssetTypes
<1>2. PassTypes(15) = {"thin_content"}
  BY DEF PassTypes
<1>3. Contextual404Types \cap (PageChecked \cup AssetTypes) = {"http_404"}
  BY DEF Contextual404Types, PageChecked, SnapshotTypes,
     ReachabilityTypes, OnPageTypes, JobFlawTypes, ElementTypes, AssetTypes
<1> QED
  BY <1>1, <1>2, <1>3

-----------------------------------------------------------------------------
(* What was open when a crawl began is closed once *)

\* The first of the analyses that the crawl has still to do.
NextPass == IF job.phase = "analyses" THEN job.pass ELSE 1

\* The crawl has still to look at the issue, or it may.
Due(k) ==
    \/ /\ job.phase = "pages" /\ k[1] \in Pages /\ ~ HasShot(k[1], Run)
       /\ k[2] \in PageChecked \cup AssetTypes
    \/ \E i \in NextPass .. SitePasses : LooksFor(i, k)

FirstTime == job.phase \in {"pages", "analyses"} /\ ~ job.resumed

ClosedOnce(k) ==
    /\ k \in DOMAIN issues /\ issues[k].status # "verified"
    /\ issues[k].status = "resolved" => ~ Due(k)

\* What was open and is not looked at twice.
WasOpen(k) == k \in DOMAIN before /\ before[k] \in Open /\ ~ CheckedTwice(k)

\* A page has a contextual 404 only if it had one when the crawl began, or people said so.
ContextStays(p, t) ==
    <<p, t>> \notin decided /\ (<<p, t>> \in DOMAIN before => before[<<p, t>>] \in {"resolved", "verified"})
        => StatusOf(issues, <<p, t>>) \in {"none", "resolved", "verified"}

ContextInv ==
    job.phase = "pages" => \A p \in Pages : \A t \in {"internally_linked_404", "sitemap_404"} : ContextStays(p, t)

OnceInv ==
    FirstTime =>
        /\ DOMAIN before \subseteq DOMAIN issues /\ ContextInv
        /\ \A k : WasOpen(k) => ClosedOnce(k)

LEMMA InitOnce == Init => OnceInv
BY DEF Init, NoJob, OnceInv, FirstTime

\* A step that changes neither the rows nor the crawl, nor what is remembered of them.
LEMMA QuietOnce ==
    ASSUME OnceInv, UNCHANGED <<row, shots, issues, runs, job, before, decided>>
    PROVE  OnceInv'
<1>1. /\ \A k : Due(k)' = Due(k) /\ WasOpen(k)' = WasOpen(k) /\ ClosedOnce(k)' = ClosedOnce(k)
  BY DEF Due, HasShot, Run, NextPass, LooksFor, WasOpen, CheckedTwice, Beside, ClosedOnce
<1>2. ContextInv' = ContextInv /\ FirstTime' = FirstTime
  BY DEF ContextInv, ContextStays, FirstTime
<1> QED
  BY <1>1, <1>2 DEF OnceInv

LEMMA StartOnce ==
    ASSUME NEW max \in Maxima, StartCrawl(max)
    PROVE  OnceInv'
<1>1. before' = [k \in DOMAIN issues |-> issues[k].status] /\ issues' = issues
  BY DEF StartCrawl
<1>2. \A k \in DOMAIN issues : issues[k].status \in Open => issues[k].status \notin {"resolved", "verified"}
  BY DEF Open
<1>3. ASSUME NEW k, WasOpen(k)' PROVE ClosedOnce(k)'
  BY <1>1, <1>2, <1>3 DEF WasOpen, ClosedOnce
<1>4. ASSUME NEW p, NEW t PROVE ContextStays(p, t)'
  BY <1>1 DEF ContextStays, StatusOf
<1> QED
  BY <1>1, <1>3, <1>4 DEF OnceInv, ContextInv

\* Nobody decided about what is still remembered.
LEMMA DecisionOnce ==
    ASSUME OnceInv, NEW k \in DOMAIN issues,
           (\E status \in Decisions : SetStatus(k, status)) \/ Suppress(k) \/ RestoreSuppressed(k)
    PROVE  OnceInv'
<1>1. /\ UNCHANGED <<row, shots, runs, job>> /\ decided' = decided \cup {k}
      /\ before' = [j \in DOMAIN before \ {k} |-> before[j]]
  BY DEF SetStatus, Suppress, RestoreSuppressed, Decide, stored
<1>2. PICK status : issues' = issues \/ issues' = [issues EXCEPT ![k].status = status]
  BY DEF SetStatus, Suppress, RestoreSuppressed
<1>3. DOMAIN issues' = DOMAIN issues /\ \A j \in DOMAIN issues \ {k} : issues'[j] = issues[j]
  BY <1>2
<1>4. FirstTime' = FirstTime /\ \A j : Due(j)' = Due(j)
  BY <1>1 DEF FirstTime, Due, HasShot, Run, NextPass, LooksFor
<1>5. ASSUME FirstTime, NEW j, WasOpen(j)' PROVE ClosedOnce(j)'
  <2>1. j \in DOMAIN before /\ j # k /\ before[j] \in Open /\ before'[j] = before[j]
    BY <1>1, <1>5 DEF WasOpen
  <2>2. ASSUME Beside(j) PROVE Beside(j)'
    <3>1. PICK t \in Contextual404Types \ {"http_404"} :
            \/ <<j[1], t>> \in decided
            \/ <<j[1], t>> \in DOMAIN before /\ before[<<j[1], t>>] \notin {"resolved", "verified"}
      BY <2>2 DEF Beside
    <3>2. \/ <<j[1], t>> \in decided'
          \/ <<j[1], t>> \in DOMAIN before' /\ before'[<<j[1], t>>] \notin {"resolved", "verified"}
      BY <1>1, <3>1
    <3> QED
      BY <2>2, <3>1, <3>2 DEF Beside
  <2>3. WasOpen(j)
    BY <1>5, <2>1, <2>2 DEF WasOpen, CheckedTwice
  <2>4. ClosedOnce(j)
    BY <1>5, <2>3 DEF OnceInv
  <2> QED
    BY <1>3, <1>4, <2>1, <2>4 DEF ClosedOnce
<1>6. ASSUME FirstTime, NEW p, NEW t, ContextStays(p, t) PROVE ContextStays(p, t)'
  <2> SUFFICES ASSUME <<p, t>> \notin decided',
                      <<p, t>> \in DOMAIN before' => before'[<<p, t>>] \in {"resolved", "verified"}
               PROVE  StatusOf(issues', <<p, t>>) \in {"none", "resolved", "verified"}
    BY DEF ContextStays
  <2>1. PICK j : j = <<p, t>>
    OBVIOUS
  <2>2. j # k /\ j \notin decided /\ (j \in DOMAIN before => j \in DOMAIN before' /\ before'[j] = before[j])
    BY <1>1, <2>1
  <2>3. StatusOf(issues, j) \in {"none", "resolved", "verified"}
    BY <1>6, <2>1, <2>2 DEF ContextStays
  <2>4. StatusOf(issues', j) = StatusOf(issues, j)
    BY <1>3, <2>2 DEF StatusOf
  <2> QED
    BY <2>1, <2>3, <2>4
<1>7. ContextInv /\ FirstTime => ContextInv'
  BY <1>1, <1>6 DEF ContextInv
<1> QED
  BY <1>1, <1>3, <1>4, <1>5, <1>7 DEF OnceInv

\* The rows after an analysis of a crawl, and what the later ones look for.
LEMMA AnalysedOnce ==
    ASSUME Inv, IInv, OnceInv, FirstTime, AnalyseSite, NEW k, WasOpen(k)
    PROVE  /\ k \in DOMAIN issues' /\ issues'[k].status # "verified"
           /\ issues'[k].status = "resolved" => ~ \E j \in Pass + 1 .. SitePasses : LooksFor(j, k)
<1>1. Typed /\ RunsRise /\ PhaseInv /\ RowsOK(issues) /\ \A j \in DOMAIN issues : KeyOK(j, Stored)
  BY DEF Inv, IInv, IssuesInv
<1>2. PICK i : i = Pass
  OBVIOUS
<1>3. i \in 1 .. SitePasses /\ i \in NextPass .. SitePasses /\ SitePasses = 20
      /\ \A j \in i + 1 .. SitePasses : j \in NextPass .. SitePasses /\ j \in 1 .. SitePasses /\ j # i
  <2>1. i \in 1 .. 20 /\ (job.phase = "analyses" => i = job.pass)
    BY <1>1, <1>2, PassFacts DEF SitePasses
  <2>2. NextPass \in 1 .. i
    BY <2>1 DEF NextPass
  <2> QED
    BY <2>1, <2>2 DEF SitePasses
<1>4. PICK w : w = StoredAs(job.source)
  OBVIOUS
<1>5. PICK report : report = SiteReport(w, i)
  OBVIOUS
<1>6. PICK mid : mid = Reconcile(issues, report, suppressed, job.source)
  OBVIOUS
<1>7. PICK new : new = issues'
  OBVIOUS
<1>8. new = IF i = 1 THEN ResolvedOrphans(mid, report.owners) ELSE mid
  <2>1. w.run = job.source
    BY <1>1, <1>4, WebsiteFacts
  <2> QED
    BY <1>2, <1>4, <1>5, <1>6, <1>7, <2>1 DEF AnalyseSite
<1>9. /\ k \in DOMAIN issues /\ issues[k].status # "verified"
      /\ issues[k].status = "resolved" => ~ Due(k)
  BY DEF OnceInv, ClosedOnce
<1>10. PICK old : old = issues[k].status
  OBVIOUS
<1>11. old \in Statuses
  BY <1>1, <1>9, <1>10 DEF RowsOK, RowOK
<1>12. ASSUME NEW j \in NextPass .. SitePasses, LooksFor(j, k) PROVE old # "resolved"
  BY <1>9, <1>10, <1>12 DEF Due
<1>13. ChecksKey(report, k) => LooksFor(i, k)
  BY <1>1, <1>3, <1>4, <1>5, <1>9, ChecksLooks
<1>14. /\ RowsOK(mid) /\ k \in DOMAIN mid
       /\ mid[k].status \in {old, Seen(old)} \/ (mid[k].status = Missed(old) /\ LooksFor(i, k))
  <2>1. RowsOK(mid) /\ k \in DOMAIN mid
    BY <1>1, <1>6, <1>9, ReconcileFacts DEF Evolves
  <2>2. CASE k \in ShownKeys(report) \ suppressed
    <3>1. mid[k].status = Seen(issues[k].status)
      BY <1>1, <1>6, <1>9, <2>2, ReconcileRows
    <3> QED
      BY <1>10, <2>1, <3>1
  <2>3. CASE k \notin ShownKeys(report) \ suppressed
    <3>1. mid[k].status = (IF k \notin suppressed /\ ChecksKey(report, k)
                           THEN Missed(issues[k].status) ELSE issues[k].status)
      BY <1>1, <1>6, <1>9, <2>3, ReconcileRows
    <3> QED
      BY <1>10, <1>13, <2>1, <3>1
  <2> QED
    BY <2>2, <2>3
<1>15. mid[k].status # "verified" /\ (mid[k].status = "resolved" => old = "resolved" \/ LooksFor(i, k))
  BY <1>3, <1>9, <1>10, <1>11, <1>12, <1>14 DEF Seen, Missed, Reopenable, Open, Statuses
<1>16. /\ k \in DOMAIN new /\ new[k].status # "verified"
       /\ new[k].status = "resolved" => old = "resolved" \/ LooksFor(i, k)
  <2>1. CASE i # 1
    BY <1>8, <1>14, <1>15, <2>1
  <2>2. CASE i = 1
    <3>1. new = ResolvedOrphans(mid, report.owners)
      BY <1>8, <2>2
    <3>2. k \in DOMAIN new
      BY <1>14, <3>1 DEF ResolvedOrphans
    <3>3. new[k].status =
            (IF k[2] = "orphan_page" /\ k[1] \in Pages \ report.owners /\ mid[k].status \in Open
             THEN "resolved" ELSE mid[k].status)
      BY <1>14, <3>1, OrphansSeen
    <3>4. k[2] = "orphan_page" /\ k[1] \in Pages => LooksFor(1, k)
      BY DEF LooksFor, Checks, PassTypes, PagePasses
    <3> QED
      BY <1>15, <2>2, <3>2, <3>3, <3>4
  <2> QED
    BY <2>1, <2>2
<1>17. ASSUME new[k].status = "resolved", NEW j \in i + 1 .. SitePasses, LooksFor(j, k) PROVE FALSE
  <2>1. j \in NextPass .. SitePasses /\ j \in 1 .. SitePasses /\ j # i
    BY <1>3
  <2>2. old # "resolved"
    BY <1>12, <1>17, <2>1
  <2>3. LooksFor(i, k)
    BY <1>16, <1>17, <2>2
  <2> QED
    BY <1>3, <1>17, <2>1, <2>3, OneLooks
<1> QED
  BY <1>2, <1>7, <1>16, <1>17

LEMMA AnalyseOnce ==
    ASSUME Inv, IInv, OnceInv, AnalyseSite
    PROVE  OnceInv'
<1>1. job \in Job /\ UNCHANGED <<row, shots, before, decided>>
  BY DEF Inv, Typed, AnalyseSite, stored
<1>2. CASE Pass < SitePasses
  <2>1. job' = [job EXCEPT !.pass = Pass + 1, !.phase = IF @ = "pages" THEN "analyses" ELSE @]
    BY <1>2 DEF AnalyseSite
  <2>2. /\ job'.pass = Pass + 1 /\ job'.resumed = job.resumed
        /\ job'.phase = IF job.phase = "pages" THEN "analyses" ELSE job.phase
    BY <1>1, <2>1 DEF Job
  <2>3. job.phase \in {"pages", "analyses", "recalculating"}
    BY PassFacts DEF Inv, IInv
  <2> SUFFICES ASSUME FirstTime'
               PROVE  /\ DOMAIN before' \subseteq DOMAIN issues'
                      /\ ContextInv' /\ \A k : WasOpen(k)' => ClosedOnce(k)'
    BY DEF OnceInv
  <2>4. FirstTime /\ job'.phase = "analyses"
    BY <2>2, <2>3 DEF FirstTime
  <2>5. NextPass' = Pass + 1
    BY <2>2, <2>4 DEF NextPass
  <2>6. DOMAIN issues \subseteq DOMAIN issues'
    BY AnalysedFacts DEF Examined, Evolves
  <2>7. ASSUME NEW k, WasOpen(k)' PROVE ClosedOnce(k)'
    <3>1. WasOpen(k)
      BY <1>1, <2>7 DEF WasOpen, CheckedTwice, Beside
    <3>2. /\ k \in DOMAIN issues' /\ issues'[k].status # "verified"
          /\ issues'[k].status = "resolved" => ~ \E j \in Pass + 1 .. SitePasses : LooksFor(j, k)
      BY <2>4, <3>1, AnalysedOnce
    <3>3. Due(k)' => \E j \in Pass + 1 .. SitePasses : LooksFor(j, k)
      BY <1>1, <2>4, <2>5 DEF Due, LooksFor
    <3> QED
      BY <3>2, <3>3 DEF ClosedOnce
  <2> QED
    BY <1>1, <2>4, <2>6, <2>7 DEF OnceInv, ContextInv
<1>3. CASE ~ (Pass < SitePasses)
  <2>1. job' = [job EXCEPT !.pass = 0, !.phase = "idle"]
    BY <1>3 DEF AnalyseSite
  <2>2. ~ FirstTime'
    BY <1>1, <2>1 DEF FirstTime, Job
  <2> QED
    BY <2>2 DEF OnceInv
<1> QED
  BY <1>2, <1>3

\* Only the page that is fetched gets another status, that of its answer.
LEMMA FetchedStatus ==
    ASSUME Typed, NEW p \in Pages, NEW shot \in Shot, NEW depth \in Nat, NEW targets, NEW assets,
           Storing(p, shot, targets, assets, depth)
    PROVE  /\ \A q \in Pages \ {p} : row'[q].status = row[q].status
           /\ Fetched(shot) => row'[p].status = Content(shot).status
<1>1. row \in [Pages -> UrlRow] /\ depth \in 0 .. NoDepth /\ Url[p].html
      /\ Store(p, depth, shot, PreviousShot(p, shot), targets, assets)
  BY DEF Typed, Storing
<1>2. PICK old : old = IF depth = NoDepth THEN row ELSE [row EXCEPT ![p].depth = depth]
  OBVIOUS
<1>3. old \in [Pages -> UrlRow] /\ \A q \in Pages \ {p} : old[q] = row[q]
  <2>1. [row[p] EXCEPT !.depth = depth] \in UrlRow
    BY <1>1, DeeperRow
  <2>2. [row EXCEPT ![p].depth = depth] = [row EXCEPT ![p] = [row[p] EXCEPT !.depth = depth]]
    OBVIOUS
  <2> QED
    BY <1>1, <1>2, <2>1, <2>2
<1>4. PICK rows : rows = StoreRow(old, p, shot)
  OBVIOUS
<1>5. rows \in [Pages -> UrlRow] /\ \A q \in Pages \ {p} : rows[q] = row[q]
  BY <1>3, <1>4, StoreRowFacts
<1>6. Fetched(shot) => rows[p].status = Content(shot).status
  <2> SUFFICES ASSUME Fetched(shot) PROVE rows[p].status = Content(shot).status
    OBVIOUS
  <2>1. PICK r : r = old[p]
    OBVIOUS
  <2>2. PICK status, final, indexable :
          status = Content(shot).status /\ final = shot.final /\ indexable = Indexable(p, shot)
    OBVIOUS
  <2>3. rows[p] = [r EXCEPT !.status = status, !.final = final, !.indexable = indexable]
    BY <1>1, <1>3, <1>4, <2>1, <2>2 DEF StoreRow
  <2>4. r \in UrlRow
    BY <1>3, <2>1
  <2> QED
    BY <2>2, <2>3, <2>4 DEF UrlRow
<1>7. PICK pending, follow, visited : row' = Followings(rows, pending, follow, depth, visited).row
  <2>1. PICK pending : pending = RemoveAt(job.pending, NextEntry)
    OBVIOUS
  <2>2. PICK follow : follow = {t \in targets : Url[t].html}
    OBVIOUS
  <2>3. PICK visited : visited = job.visited \cup {p}
    OBVIOUS
  <2>4. row' = Followings(rows, pending, follow, depth, visited).row
    BY <1>1, <1>2, <1>4, <2>1, <2>2, <2>3 DEF Store
  <2> QED
    BY <2>4
<1>8. PICK deeper : row' = [q \in Pages |-> IF q \in follow
                              THEN [rows[q] EXCEPT !.depth = Shallower(rows[q].depth, deeper)] ELSE rows[q]]
  BY <1>7 DEF Followings
<1>9. \A q \in Pages : row'[q].status = rows[q].status
  <2> SUFFICES ASSUME NEW q \in Pages PROVE row'[q].status = rows[q].status
    OBVIOUS
  <2>1. PICK r \in UrlRow : r = rows[q]
    BY <1>5
  <2>2. PICK d : d = Shallower(r.depth, deeper)
    OBVIOUS
  <2>3. row'[q] = r \/ row'[q] = [r EXCEPT !.depth = d]
    BY <1>8, <2>1, <2>2
  <2> QED
    BY <2>1, <2>3 DEF UrlRow
<1> QED
  BY <1>5, <1>6, <1>9

\* The rows after a page was stored, and what the crawl has still to look at.
LEMMA FetchedOnce ==
    ASSUME Inv, IInv, OnceInv, FirstTime, FetchPage
    PROVE  /\ DOMAIN issues \subseteq DOMAIN issues' /\ ContextInv'
           /\ \A k : WasOpen(k) => ClosedOnce(k)'
<1>1. Typed /\ RunsRise /\ RowsOK(issues)
  BY DEF Inv, IInv, IssuesInv
<1>2. /\ job.phase = "pages" /\ UNCHANGED <<world, runs, before, decided>> /\ Run' = Run /\ job \in Job
  BY <1>1 DEF FetchPage, Run, Typed
<1>3. PICK p \in Pages, shot \in Shot, depth \in Nat : \E targets, assets :
          Storing(p, shot, targets, assets, depth)
  BY FetchShape
<1>4. PICK targets, assets : Storing(p, shot, targets, assets, depth)
  BY <1>3
<1>5. PICK added : added = {p} \cup assets
  OBVIOUS
<1>6. /\ assets \in SUBSET Pages /\ p \notin assets
      /\ \A q \in added : q \in Pages /\ ~ HasShot(q, Run)
      /\ \A q \in Pages : HasShot(q, Run)' <=> HasShot(q, Run) \/ q \in added
  <2>1. UNCHANGED <<world, runs>>
    BY <1>2
  <2>2. Adds(p, shot, targets, assets)
    BY <1>3, <1>4, <2>1, StoringFacts, Zenon
  <2>3. assets \in SUBSET Pages
    BY <2>2 DEF Adds
  <2> QED
    BY <1>4, <1>5, <2>2, <2>3 DEF Adds, Storing
<1>7. Store(p, depth, shot, PreviousShot(p, shot), targets, assets)
  BY <1>4 DEF Storing
<1>8. PICK previous, inbound, answering, audits, reports :
         /\ answering = Answering(assets) /\ audits = Audits(answering)
         /\ reports = ReportsOf(p, shot, previous, inbound, audits)
         /\ issues' = Reconciled(issues, reports, Run)
  BY <1>7 DEF Store
<1>9. /\ \A i \in DOMAIN reports : \A k : Touches(reports[i], k) => k[1] \in added /\ k[2] \in FetchTypes
      /\ \A k : k[2] \notin HtmlOnlyTypes => OneTouches(reports, k)
      /\ \A i \in DOMAIN reports : \A k : Touches(reports[i], k) /\ k[2] = "http_404" =>
           /\ k[1] = p /\ Fetched(shot)
           /\ Content(shot).status = 404 /\ ~ Contextual404Known(issues, p)
                => <<p, "http_404">> \in ShownKeys(reports[i])
  BY <1>1, <1>5, <1>6, <1>8, ReportsTouch
<1>10. IsList(reports)
  <2>1. PICK pages : pages = {p} \cup assets
    OBVIOUS
  <2>2. pages \in SUBSET Pages /\ p \in pages /\ assets \in SUBSET pages
    BY <1>6, <2>1
  <2> QED
    BY <1>1, <1>8, <2>2, ReportsOfFacts
<1>11. PICK new : new = issues'
  OBVIOUS
<1>12. DOMAIN issues \subseteq DOMAIN new
  BY <1>1, <1>8, <1>10, <1>11, ReconciledFacts DEF Follow, Evolves
<1>13. /\ \A q \in Pages \ {p} : row'[q].status = row[q].status
       /\ Fetched(shot) => row'[p].status = Content(shot).status
  BY <1>1, <1>4, FetchedStatus
<1>14. job'.phase = "pages" /\ NextPass = 1 /\ NextPass' = 1
  BY <1>2, <1>7 DEF Store, Job, NextPass
<1>15. ASSUME NEW k, k[2] \notin HtmlOnlyTypes
       PROVE  \/ StatusOf(new, k) = StatusOf(issues, k)
              \/ \E i \in DOMAIN reports :
                   /\ Touches(reports[i], k)
                   /\ k \in DOMAIN issues => Settles(reports[i], k, StatusOf(issues, k), StatusOf(new, k))
  BY <1>1, <1>8, <1>9, <1>10, <1>11, <1>15, OneReport
<1>16. ASSUME NEW q \in Pages, NEW t \in {"internally_linked_404", "sitemap_404"}
       PROVE  ContextStays(q, t)'
  <2>1. PICK k : k = <<q, t>>
    OBVIOUS
  <2>2. k[2] = t /\ t \notin FetchTypes
    BY <2>1 DEF FetchTypes, PageChecked, SnapshotTypes, ReachabilityTypes, OnPageTypes, JobFlawTypes,
                ElementTypes, AssetTypes, HtmlOnlyTypes
  <2>3. StatusOf(new, k) = StatusOf(issues, k)
    BY <1>9, <1>15, <2>2 DEF FetchTypes
  <2>4. ContextStays(q, t)
    BY <1>2 DEF OnceInv, ContextInv
  <2> QED
    BY <1>2, <1>11, <2>1, <2>3, <2>4 DEF ContextStays
<1>17. ASSUME NEW k, WasOpen(k)
       PROVE  k \in DOMAIN new /\ new[k].status # "verified" /\ (new[k].status = "resolved" => ~ Due(k)')
  <2>1. /\ k \in DOMAIN issues /\ issues[k].status # "verified"
        /\ issues[k].status = "resolved" => ~ Due(k)
    BY <1>17 DEF OnceInv, ClosedOnce
  <2>2. k[2] \notin HtmlOnlyTypes /\ k[2] # "thin_content" /\ ~ Beside(k)
    BY <1>17 DEF WasOpen, CheckedTwice
  <2>3. PICK old : old = issues[k].status
    OBVIOUS
  <2>4. old \in Statuses
    BY <1>1, <2>1, <2>3 DEF RowsOK, RowOK
  <2>5. /\ k \in DOMAIN new /\ StatusOf(new, k) = new[k].status /\ StatusOf(issues, k) = old
    BY <1>12, <2>1, <2>3 DEF StatusOf
  <2>6. ASSUME NEW i \in DOMAIN reports, Touches(reports[i], k)
        PROVE  k[1] \in added /\ k[1] \in Pages /\ k[2] \in PageChecked \cup AssetTypes /\ Due(k)
    <3>1. k[1] \in added /\ k[2] \in PageChecked \cup AssetTypes
      BY <1>9, <2>2, <2>6 DEF FetchTypes
    <3> QED
      BY <1>2, <1>6, <3>1 DEF Due
  <2>7. CASE \A i \in DOMAIN reports : ~ Touches(reports[i], k)
    <3>1. new[k].status = old
      BY <1>15, <2>2, <2>5, <2>7
    <3>2. ASSUME old = "resolved", Due(k)' PROVE FALSE
      <4>1. ~ Due(k)
        BY <2>1, <2>3, <3>2
      <4>2. CASE k[1] \in Pages /\ ~ HasShot(k[1], Run)' /\ k[2] \in PageChecked \cup AssetTypes
        BY <1>2, <1>6, <4>1, <4>2 DEF Due
      <4>3. CASE \E j \in 1 .. SitePasses : LooksFor(j, k)'
        <5>1. PICK j \in 1 .. SitePasses : LooksFor(j, k)'
          BY <4>3
        <5>2. ~ LooksFor(j, k)
          BY <1>14, <4>1, <5>1 DEF Due
        <5>3. k[1] \in Pages /\ k[2] = "http_404" /\ row[k[1]].status # 404 /\ row'[k[1]].status = 404
          BY <5>1, <5>2 DEF LooksFor, Checks
        <5>4. k[1] = p
          BY <1>13, <5>3
        <5> QED
          BY <1>2, <1>5, <1>6, <4>1, <5>3, <5>4, TypesApart DEF Due
      <4> QED
        BY <1>14, <3>2, <4>2, <4>3 DEF Due
    <3> QED
      BY <2>1, <2>3, <2>5, <3>1, <3>2
  <2>8. CASE \E i \in DOMAIN reports : Touches(reports[i], k)
    <3>1. PICK i \in DOMAIN reports : Touches(reports[i], k)
      BY <2>8
    <3>2. k[1] \in added /\ k[1] \in Pages /\ k[2] \in PageChecked \cup AssetTypes /\ old # "resolved"
      BY <2>1, <2>3, <2>6, <3>1
    <3>3. new[k].status = old \/ Settles(reports[i], k, old, new[k].status)
      BY <1>9, <1>15, <2>1, <2>2, <2>5, <3>1 DEF OneTouches
    <3>4. /\ new[k].status # "verified"
          /\ new[k].status = "resolved" => k \notin ShownKeys(reports[i])
      BY <2>1, <2>3, <2>4, <3>2, <3>3 DEF Settles, Seen, Missed, Reopenable, Open, Statuses
    <3>5. ASSUME new[k].status = "resolved", Due(k)' PROVE FALSE
      <4>1. HasShot(k[1], Run)'
        BY <1>6, <3>2
      <4>2. PICK j \in 1 .. SitePasses : LooksFor(j, k)'
        BY <1>14, <3>5, <4>1 DEF Due
      <4>3. k[2] = "http_404" /\ row'[k[1]].status = 404
        BY <2>2, <3>2, <4>2, FetchedTypes, NoPages DEF LooksFor, Checks
      <4>4. k[1] = p /\ Fetched(shot) /\ Content(shot).status = 404
        BY <1>9, <1>13, <3>1, <4>3
      <4>5. ~ Contextual404Known(issues, p)
        <5>1. ASSUME NEW t \in {"internally_linked_404", "sitemap_404"}
              PROVE  StatusOf(issues, <<p, t>>) \in {"none", "resolved", "verified"}
          <6>1. t \in Contextual404Types \ {"http_404"}
            BY DEF Contextual404Types
          <6>2. <<p, t>> \notin decided
                /\ (<<p, t>> \in DOMAIN before => before[<<p, t>>] \in {"resolved", "verified"})
            BY <2>2, <4>3, <4>4, <6>1 DEF Beside
          <6>3. ContextStays(p, t)
            BY <1>2 DEF OnceInv, ContextInv
          <6> QED
            BY <6>2, <6>3 DEF ContextStays
        <5> QED
          BY <5>1 DEF Contextual404Known
      <4>6. <<p, "http_404">> \in ShownKeys(reports[i])
        BY <1>9, <3>1, <4>3, <4>4, <4>5
      <4>7. k = <<p, "http_404">>
        BY <2>1, <4>3, <4>4 DEF IInv, IssuesInv, KeyOK
      <4> QED
        BY <3>4, <3>5, <4>6, <4>7
    <3> QED
      BY <2>5, <3>4, <3>5
  <2> QED
    BY <2>7, <2>8
<1> QED
  BY <1>11, <1>12, <1>14, <1>16, <1>17 DEF ClosedOnce, ContextInv

LEMMA FetchOnce ==
    ASSUME Inv, IInv, OnceInv, FetchPage
    PROVE  OnceInv'
<1>1. /\ job.phase = "pages" /\ UNCHANGED <<before, decided>> /\ job \in Job
      /\ job'.resumed = job.resumed
  <2>1. job \in Job
    BY DEF Inv, Typed
  <2> QED
    BY <2>1, FetchJob
<1>2. CASE job.resumed
  BY <1>1, <1>2 DEF OnceInv, FirstTime
<1>3. CASE ~ job.resumed
  <2>1. FirstTime
    BY <1>1, <1>3 DEF FirstTime
  <2>2. /\ DOMAIN issues \subseteq DOMAIN issues' /\ ContextInv'
        /\ \A k : WasOpen(k) => ClosedOnce(k)'
    BY <2>1, FetchedOnce
  <2>3. \A k : WasOpen(k)' <=> WasOpen(k)
    BY <1>1 DEF WasOpen, CheckedTwice, Beside
  <2> QED
    BY <1>1, <2>1, <2>2, <2>3 DEF OnceInv
<1> QED
  BY <1>2, <1>3

-----------------------------------------------------------------------------
(* The theorem *)

LEMMA OnceStep ==
    ASSUME Inv, IInv, OnceInv, [Next]_vars
    PROVE  OnceInv'
<1>1. job \in Job
  BY DEF Inv, Typed
<1>2. ASSUME ~ FirstTime' PROVE OnceInv'
  BY <1>2 DEF OnceInv
<1>3. CASE \/ UNCHANGED vars
           \/ \E p \in Pages : \E version \in world.may[p] : ChangePage(p, version)
           \/ \E pages \in world.sitemaps : ChangeSitemap(pages)
  <2>1. UNCHANGED <<row, shots, issues, runs, job, before, decided>>
    BY <1>3 DEF vars, stored, ChangePage, ChangeSitemap
  <2> QED
    BY <2>1, QuietOnce
<1>4. CASE \E max \in Maxima : StartCrawl(max)
  BY <1>4, StartOnce
<1>5. CASE ResumeCrawl
  <2>1. job'.resumed
    BY <1>1, <1>5 DEF ResumeCrawl, Job
  <2> QED
    BY <1>2, <2>1 DEF FirstTime
<1>6. CASE FetchPage
  BY <1>6, FetchOnce
<1>7. CASE AnalyseSite
  BY <1>7, AnalyseOnce
<1>8. CASE StopCrawl \/ GiveUpCrawl \/ StopRecalculation
  <2>1. job'.phase \in {"idle", "stopped"}
    BY <1>1, <1>8 DEF StopCrawl, GiveUpCrawl, StopRecalculation, Job
  <2> QED
    BY <1>2, <2>1 DEF FirstTime
<1>9. CASE \E n \in DOMAIN runs : Recalculate(n)
  <2>1. job'.phase = "recalculating"
    BY <1>1, <1>9 DEF Recalculate, Job
  <2> QED
    BY <1>2, <2>1 DEF FirstTime
<1>10. CASE \E k \in DOMAIN issues : \/ \E status \in Decisions : SetStatus(k, status)
                                     \/ Suppress(k) \/ RestoreSuppressed(k)
  BY <1>10, DecisionOnce
<1> QED
  BY <1>3, <1>4, <1>5, <1>6, <1>7, <1>8, <1>9, <1>10 DEF Next

\* Verified needs a second clean check (docs/architecture.md:57-59): of what was open when a
\* crawl began, one report or one analysis of the crawl finds each issue missing, and none
\* of the later ones looks for it again.
THEOREM VerifiedLater == Spec => NotVerifiedAtOnce
<1>1. Spec => []Inv
  BY InitInv, InvStep, PTL DEF Spec
<1>2. Spec => []IInv
  BY IInvHolds
<1>3. Inv /\ IInv /\ OnceInv /\ [Next]_vars => OnceInv'
  BY OnceStep
<1>4. Inv /\ IInv /\ OnceInv /\ [Next]_vars =>
        (CrawlEnds /\ ~ job.resumed =>
            \A k \in DOMAIN before :
                before[k] \in Open /\ ~ CheckedTwice(k) => issues'[k].status # "verified")
  <2> SUFFICES ASSUME Inv, IInv, OnceInv, [Next]_vars, CrawlEnds, ~ job.resumed,
                      NEW k \in DOMAIN before, before[k] \in Open, ~ CheckedTwice(k)
               PROVE  issues'[k].status # "verified"
    OBVIOUS
  <2>1. AnalyseSite
    BY OnlyAnalysisEnds DEF IInv
  <2>2. FirstTime /\ WasOpen(k)
    BY DEF FirstTime, CrawlEnds, WasOpen
  <2> QED
    BY <2>1, <2>2, AnalysedOnce
<1> QED
  BY <1>1, <1>2, <1>3, <1>4, InitOnce, PTL DEF Spec, NotVerifiedAtOnce
=============================================================================
