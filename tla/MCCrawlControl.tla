--------------------------- MODULE MCCrawlControl ---------------------------
(***************************************************************************)
(* Instances of CrawlControl for TLC: two crawl jobs of one website or of  *)
(* two, with the bounds and the environment each configuration names.      *)
(***************************************************************************)
EXTENDS CrawlControl, TLC

CONSTANTS j1, j2, s1, s2

OneSite == [j \in Jobs |-> s1]

\* Workers, tickets and calls are interchangeable; only used with safety.
Symmetry == Permutations(Tickets) \cup Permutations(Workers) \cup Permutations(Requests)
=============================================================================
