----------------------------- MODULE MCServices -----------------------------
(* Services on small instances; a world says which of them take part. *)
EXTENDS Services

MCQueues == {"integrations", "exports", "renders"}

Nothing ==
    [start |-> 1, end |-> 1, deaths |-> 0, attempts |-> 1, events |-> {}, overlap |-> 0,
     requests |-> 0, scopes |-> 0, budget |-> 0, exports |-> 0, snapshots |-> 0, renders |-> 0,
     mapped |-> {}, mappable |-> {}, property |-> "p1"]

\* Paid evidence: overlapping requests, the last day of a month and the first of the next.
Asking ==
    [Nothing EXCEPT !.attempts = 2, !.end = 2, !.deaths = 1, !.overlap = 2, !.requests = 2, !.scopes = 1,
                    !.budget = 2, !.events = {"controls"}]

\* Regular imports of Search Console through two outages.
Outage == [Nothing EXCEPT !.start = 5, !.end = 11, !.mapped = {"search_console"}]

\* A history import while another property of the service is mapped.
Remapped ==
    [Nothing EXCEPT !.start = 5, !.end = 6, !.mapped = {"search_console"},
                    !.mappable = {"search_console"}, !.events = {"history", "map"}]

\* A history import while another service is mapped.
History ==
    [Nothing EXCEPT !.start = 5, !.end = 5, !.mapped = {"search_console"},
                    !.mappable = {"matomo"}, !.events = {"history", "map"}]

\* Matomo: attempts that fail, and reports that are missing.
Matomo == [Nothing EXCEPT !.attempts = 2, !.start = 5, !.end = 6, !.mapped = {"matomo"}, !.events = {"refuse"}]

\* Analytics and Bing, next to imports by an administrator.
Alongside ==
    [Nothing EXCEPT !.start = 5, !.end = 5, !.deaths = 1, !.mapped = {"ga4", "bing_webmaster"},
                    !.events = {"manual", "key events"}]

\* Evidence and imports in one queue.
Shared ==
    [Nothing EXCEPT !.start = 5, !.end = 5, !.deaths = 1, !.overlap = 1, !.requests = 1, !.scopes = 1,
                    !.budget = 1, !.mapped = {"search_console"}, !.events = {"history"}]

Exporting == [Nothing EXCEPT !.attempts = 2, !.deaths = 2, !.overlap = 2, !.exports = 3]

\* Inspections of two pages, one more than the queue admits at once.
Rendered == [Nothing EXCEPT !.attempts = 2, !.deaths = 1, !.snapshots = 2, !.renders = 3]

Arriving == [Nothing EXCEPT !.overlap = 2, !.events = {"onboarding", "patch"}]

MCWorlds == <<Asking, Outage, Remapped, History, Matomo, Alongside, Shared, Exporting, Rendered, Arriving>>
=============================================================================
