--------------------------- MODULE Synchronisation ---------------------------
(***************************************************************************)
(* The metrics of a website from its mapped services: the daily job and the *)
(* history import (scheduler.py, services/integration_sync.py, search_       *)
(* console.py, google_analytics.py, matomo.py, bing_integrations.py, and the *)
(* mappings of api/routes/integrations.py).                                 *)
(*                                                                         *)
(* An import reads the mapping, asks the service, and then replaces a range *)
(* of days and writes the mapping's settings as it read them: other requests *)
(* come between.  An administrator can start the same import by a request,   *)
(* next to the worker.                                                      *)
(*                                                                         *)
(* Abstractions.  One website; a day of metrics is the property it is of;    *)
(* HistoryDays stands for 480 and RecentDays for 28; the time goes in days,  *)
(* so "two hours" and "a day ago" are today.  The results of inspections,    *)
(* the links of Bing and the durations are left out.                        *)
(***************************************************************************)
EXTENDS RqJobs

CONSTANTS
    Properties,     \* properties of a service a mapping can name
    HistoryDays,
    RecentDays

ASSUME SyncAssumption ==
    /\ RecentDays \in Nat \ {0}
    /\ HistoryDays \in Nat
    /\ RecentDays < HistoryDays
    /\ "none" \notin Properties
    \* Where there are imports, the history they ask for begins after day 0.
    /\ \A w \in DOMAIN Worlds :
         Worlds[w].mapped \union Worlds[w].mappable # {}
         => Worlds[w].property \in Properties /\ Worlds[w].start > HistoryDays

VARIABLES
    mapping,    \* WebsiteIntegration rows
    connected,  \* providers whose IntegrationConnection has status connected
    stored,     \* for each table of metrics and day, the property they are of
    manual,     \* the import a request has read for
    gaps        \* history: the last days of regular imports in a row that left a hole

syncVars == <<mapping, connected, stored, manual, gaps>>

Services == {"search_console", "ga4", "matomo", "bing_webmaster"}
Tables == Services \union {"matomo_aggregates"}
ProviderOf(s) == CASE s = "matomo" -> "matomo" [] s = "bing_webmaster" -> "bing" [] OTHER -> "google"

\* The settings of a mapping that decide something: last_import_start (0: none),
\* history_sync, sync_queued_at (0: none) and qualified_key_events.
Settings ==
    [from : Nat, history : {"none", "queued", "running", "succeeded", "failed"},
     queued : Nat, events : BOOLEAN]
NoSettings == [from |-> 0, history |-> "none", queued |-> 0, events |-> FALSE]

Mapping ==
    [property : Properties \union {"none"}, error : BOOLEAN, synced : Nat, settings : Settings]
NoMapping == [property |-> "none", error |-> FALSE, synced |-> 0, settings |-> NoSettings]

\* What an import has read; regular when the days were not asked for.
Import ==
    [service : Services, property : Properties, from : Nat, to : Nat,
     regular : BOOLEAN, settings : Settings]

SyncTypeOK ==
    /\ mapping \in [Services -> Mapping]
    /\ connected \subseteq {"google", "bing", "matomo"}
    /\ stored \in [Tables -> [1..Here.end -> Properties \union {"none"}]]
    /\ manual \subseteq Import
    /\ gaps \in [Services -> Seq(Nat)]

SyncInit ==
    /\ mapping = [s \in Services |->
          IF s \in Here.mapped THEN [NoMapping EXCEPT !.property = Here.property] ELSE NoMapping]
    /\ connected = {"google", "bing", "matomo"}
    /\ stored = [t \in Tables |-> [d \in 1..Here.end |-> "none"]]
    /\ manual = {}
    /\ gaps = [s \in Services |-> <<>>]

Mapped == {s \in Services : mapping[s].property # "none"}
OnlyMapping == UNCHANGED <<connected, stored, manual, gaps, systemVars>>

-----------------------------------------------------------------------------
(* Mappings and connections *)

\* upsert_website_integration and create_website_integration: the settings stay.
Upsert(s, p) ==
    /\ "map" \in Here.events
    /\ s \in Here.mappable
    /\ mapping[s].property # p
    /\ mapping' = [mapping EXCEPT ![s].property = p, ![s].error = FALSE]
    /\ UNCHANGED rqVars
    /\ OnlyMapping

\* update_google_analytics_key_events.
ChooseKeyEvents ==
    /\ "key events" \in Here.events
    /\ "ga4" \in Mapped /\ ~mapping["ga4"].settings.events
    /\ mapping' = [mapping EXCEPT !["ga4"].settings.events = TRUE]
    /\ UNCHANGED rqVars
    /\ OnlyMapping

\* The callback of OAuth, or a new token of Matomo.
Connect(provider) ==
    /\ provider \notin connected
    /\ connected' = connected \union {provider}
    /\ UNCHANGED <<mapping, stored, manual, gaps, rqVars, systemVars>>

\* get_google_access_token, get_bing_access_token: the provider refuses the token.
Refused(s) == connected' = connected \ {ProviderOf(s)}

-----------------------------------------------------------------------------
(* Asking for an import *)

\* The settings of every mapping there is now, with a field set.
WithSetting(field, value) ==
    [s \in Services |->
        IF s \in Mapped THEN [mapping[s] EXCEPT !.settings[field] = value] ELSE mapping[s]]

\* schedule_integration_syncs: not when every mapping is of today, and not twice.
ScheduleSync ==
    /\ Mapped # {}
    /\ \E s \in Mapped : mapping[s].synced # clock
    /\ \A s \in Mapped : mapping[s].settings.queued # clock
    /\ IF HasCapacity("integrations")
       THEN Enqueue("integrations", "sync", 0) /\ mapping' = WithSetting("queued", clock)
       ELSE mapping' = WithSetting("queued", 0) /\ UNCHANGED rqVars
    /\ OnlyMapping

\* synchronize_integration_history.
AskHistory ==
    /\ "history" \in Here.events
    /\ \A s \in Mapped : mapping[s].settings.history \notin {"queued", "running"}  \* bound
    /\ HasCapacity("integrations")
    /\ mapping' = WithSetting("history", "queued")
    /\ Enqueue("integrations", "history", 0)
    /\ OnlyMapping

-----------------------------------------------------------------------------
(* One import *)

Readable(s) == s \in Mapped /\ ProviderOf(s) \in connected

\* The rule of Search Console and Analytics: the history when the last import did not
\* reach back as far, else the recent days.
DaysFromStart(from) == IF from = 0 \/ from + HistoryDays > clock THEN HistoryDays ELSE RecentDays

\* The rule of Matomo: the history the first time only.
DaysOnce(from) == IF from = 0 THEN HistoryDays ELSE RecentDays

\* Variant: Search Console and Analytics with the rule of Matomo.
DaysAllOnce(s, from) == IF s = "bing_webmaster" THEN HistoryDays ELSE DaysOnce(from)

RegularDays(s, from) ==
    CASE s = "matomo" -> DaysOnce(from)
      [] s = "bing_webmaster" -> HistoryDays
      [] OTHER -> DaysFromStart(from)

\* Bing ends today, the others yesterday.
LastDay(s) == IF s = "bing_webmaster" THEN clock ELSE clock - 1

ReadFor(s, from, to, regular) ==
    [service |-> s, property |-> mapping[s].property, from |-> from, to |-> to,
     regular |-> regular, settings |-> mapping[s].settings]

\* _history_chunks: ranges of RecentDays, the oldest first.
Chunks(to) ==
    LET from == to - HistoryDays + 1
        n == (HistoryDays + RecentDays - 1) \div RecentDays
        End(i) == IF from + i * RecentDays - 1 < to THEN from + i * RecentDays - 1 ELSE to
    IN  [i \in 1..n |-> [from |-> from + (i - 1) * RecentDays, to |-> End(i)]]

\* The ranges a job imports from s: _sync_search_console_history, _sync_matomo_history.
Ranges(s, kind) ==
    LET to == LastDay(s)
        days == IF kind = "sync" THEN RegularDays(s, mapping[s].settings.from) ELSE HistoryDays
    IN  IF kind = "history" /\ s \in {"search_console", "matomo"} THEN Chunks(to)
        ELSE <<[from |-> to - days + 1, to |-> to]>>

\* Variant: all metrics of the table are replaced.
ReplacedAll(t, i, by) == [d \in 1..Here.end |-> IF d \in i.from..i.to THEN by ELSE "none"]

\* The metrics of the range are deleted, and those inserted that were delivered.
Replaced(t, i, by) == [d \in 1..Here.end |-> IF d \in i.from..i.to THEN by ELSE stored[t][d]]

\* The optional reports of Matomo may be missing: the metrics of the range are deleted
\* and the import succeeds.
Delivered(i) == IF i.service = "matomo" THEN {i.property, "none"} ELSE {"none"}

HistoryFull(days, to) == \A d \in (to - HistoryDays + 1)..to : d \in DOMAIN days => days[d] # "none"

\* Metrics, status and settings in one transaction; the settings are those that were read.
Commit(i) ==
    LET s == i.service
        pages == Replaced(s, i, i.property)
    IN
    /\ \E by \in Delivered(i) :
          stored' = [stored EXCEPT ![s] = pages,
                        !["matomo_aggregates"] =
                            IF s = "matomo" THEN Replaced("matomo_aggregates", i, by) ELSE @]
    /\ mapping' = [mapping EXCEPT ![s] =
          [@ EXCEPT !.error = FALSE, !.synced = clock,
                    !.settings = [i.settings EXCEPT !.from = i.from]]]
    /\ gaps' = [gaps EXCEPT ![s] =
          IF i.regular /\ ~HistoryFull(pages, i.to) THEN Append(@, i.to) ELSE <<>>]

\* The service does not deliver: the mapping gets an error and the settings that were read.
NotDelivered(i) ==
    /\ mapping' = [mapping EXCEPT ![i.service] =
          [@ EXCEPT !.error = TRUE, !.settings = i.settings]]
    /\ UNCHANGED <<stored, gaps>>

\* Overlapping imports of a range break the unique key of the metrics, or the answer
\* cannot be read: nothing is written.
NotStored == UNCHANGED <<mapping, stored, gaps>>

\* synchronize_search_console, ..., by a request of an administrator: RecentDays.
ManualRead(s) ==
    /\ "manual" \in Here.events
    /\ manual = {}
    /\ Readable(s)
    /\ LET to == LastDay(s) IN manual' = {ReadFor(s, to - RecentDays + 1, to, FALSE)}
    /\ UNCHANGED <<mapping, connected, stored, gaps, rqVars, systemVars>>

ManualEnd(i) ==
    /\ Commit(i) \/ NotDelivered(i) \/ NotStored
    /\ manual' = {}
    /\ UNCHANGED <<connected, rqVars, systemVars>>

-----------------------------------------------------------------------------
(* The job: synchronize_website_integrations *)

SyncOrder == <<"search_console", "ga4", "matomo", "bing_webmaster">>
NextOf(todo) ==
    LET first == CHOOSE k \in DOMAIN SyncOrder :
                    SyncOrder[k] \in todo /\ \A l \in 1..(k - 1) : SyncOrder[l] \notin todo
    IN  SyncOrder[first]

\* _set_history_sync_status.
ShowHistory(status) == mapping' = WithSetting("history", status)

Busy(q) == worker[q]
Failed(w) == [w EXCEPT !.todo = @ \ {NextOf(@)}, !.ranges = <<>>, !.import = {}, !.failed = TRUE]

\* The services are read once, at the start.
SyncBegin(q) ==
    /\ ShowHistory("running")
    /\ Goes(q, [job |-> Busy(q).job, at |-> "syncing", todo |-> Mapped, ranges |-> <<>>,
                import |-> {}, failed |-> FALSE])
    /\ OnlyMapping

\* The next range of a service; the ranges are decided when its first one is read.
SyncRead(q) ==
    LET w == Busy(q)
        s == NextOf(w.todo)
        ranges == IF w.ranges = <<>> THEN Ranges(s, Current(q).kind) ELSE w.ranges
        r == Head(ranges)
    IN
    /\ w.todo # {} /\ w.import = {}
    /\ Readable(s)
    /\ Goes(q, [w EXCEPT !.ranges = ranges,
                         !.import = {ReadFor(s, r.from, r.to, Current(q).kind = "sync")}])
    /\ UNCHANGED <<syncVars, systemVars>>

\* The connection is not there, or its token is refused.
SyncRefused(q) ==
    LET w == Busy(q)
        s == NextOf(w.todo)
    IN
    /\ w.todo # {} /\ w.import = {}
    /\ ProviderOf(s) \in connected => "refuse" \in Here.events
    /\ Refused(s)
    /\ Goes(q, Failed(w))
    /\ UNCHANGED <<mapping, stored, manual, gaps, systemVars>>

Ready(w) == [w EXCEPT !.todo = @ \ {NextOf(@)}, !.ranges = <<>>, !.import = {}]

\* After the last range of Search Console its URLs are inspected.
SyncStored(q) ==
    LET w == Busy(q) IN
    /\ \E i \in w.import : Commit(i)
    /\ Goes(q, IF Len(w.ranges) > 1 THEN [w EXCEPT !.ranges = Tail(@), !.import = {}]
               ELSE IF NextOf(w.todo) = "search_console" THEN [w EXCEPT !.at = "inspecting"]
               ELSE Ready(w))
    /\ UNCHANGED <<connected, manual, systemVars>>

\* sync_url_inspection: the metrics stay when it fails, but the import has failed.
SyncInspect(q) ==
    LET w == [Busy(q) EXCEPT !.at = "syncing"] IN
    /\ Goes(q, Ready(w)) \/ Goes(q, Failed(w))
    /\ UNCHANGED <<syncVars, systemVars>>

SyncFailed(q) ==
    LET w == Busy(q) IN
    /\ \E i \in w.import : NotDelivered(i) \/ NotStored
    /\ Goes(q, Failed(w))
    /\ UNCHANGED <<connected, manual, systemVars>>

SyncEnd(q) ==
    LET w == Busy(q) IN
    /\ w.todo = {}
    /\ ShowHistory(IF w.failed THEN "failed" ELSE "succeeded")
    /\ IF w.failed THEN JobFails(q) ELSE GoesTo(q, "done")
    /\ OnlyMapping

SyncNext ==
    \/ \E s \in Services : \E p \in Properties : Upsert(s, p)
    \/ ChooseKeyEvents
    \/ \E provider \in {"google", "bing", "matomo"} : Connect(provider)
    \/ ScheduleSync
    \/ AskHistory
    \/ \E s \in Services : ManualRead(s)
    \/ \E i \in manual : ManualEnd(i)
    \/ \E q \in WorkersIn({"sync", "history"}, "begin") : SyncBegin(q)
    \/ \E q \in WorkersIn({"sync", "history"}, "syncing") :
          SyncRead(q) \/ SyncRefused(q) \/ SyncStored(q) \/ SyncFailed(q) \/ SyncEnd(q)
    \/ \E q \in WorkersIn({"sync", "history"}, "inspecting") : SyncInspect(q)

-----------------------------------------------------------------------------
(* Properties *)

\* Whatever fails, is killed, overlaps or is asked for again: metrics of pages that were
\* imported for a day stay, or are replaced by those of another import.
MetricsKept ==
    [][\A s \in Services : \A d \in 1..Here.end :
          stored[s][d] # "none" => stored'[s][d] # "none"]_stored

\* After an outage Search Console and Analytics come back to a whole history: of two
\* regular imports in a row that leave a hole in it, the second comes after another
\* outage (of 452 days in the code).  An import of an administrator that fails may put
\* an older first day back, so there are none of those here.
HolesClose ==
    "manual" \notin Here.events =>
        \A s \in {"search_console", "ga4"} : \A k, l \in DOMAIN gaps[s] :
            k < l => gaps[s][l] - gaps[s][k] >= HistoryDays - RecentDays
=============================================================================
