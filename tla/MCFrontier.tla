----------------------------- MODULE MCFrontier -----------------------------
(***************************************************************************)
(* Small websites for TLC: the base URL, a few pages, two query variants   *)
(* and an asset, with every link structure a configuration names.          *)
(***************************************************************************)
EXTENDS Frontier, FiniteSetsExt

CONSTANTS RootLinks, MaxLinks   \* bounds: the links of the base URL, of another page

\* The base URL has RootLinks links, an asset none.
Structures ==
    {[p \in Pages |-> CASE p = Root -> r [] p \in Assets -> {} [] OTHER -> f[p]] :
        r \in kSubset(RootLinks, Pages \ {Root}),
        f \in [Html \ {Root} -> UNION {kSubset(k, Html) : k \in 0 .. MaxLinks}]}

\* A website nobody crawled yet.
Blank ==
    [active |-> {}, sources |-> [p \in Pages |-> {}], depth |-> [p \in Pages |-> NoDepth]]

\* What a first crawl of a website with these links leaves.
Crawled(edges) ==
    [active |-> Reachable(edges),
     sources |-> [p \in Pages |-> IF p \in Reachable(edges) THEN edges[p] ELSE {}],
     depth |-> [p \in Pages |-> Distance(edges, p)]]

\* Nothing, or a crawl in which every page linked to the next one.
BlankOrChain ==
    {Blank, Crawled([p \in Pages |->
        IF p + 1 \in Pages /\ p \notin Assets THEN {p + 1} ELSE {}])}
=============================================================================
