------------------------------- MODULE Insights ------------------------------
(* What the dashboards read from the event log while it grows: the widget   *)
(* summary with its in-process cache (lib/widgetQuery.ts), the selection    *)
(* runs of lib/viewerGrouping.ts in it and in the 24 h feed, and the daily  *)
(* charts, zero-filled after the query (lib/metrics.ts, chikaq/page.tsx).   *)
EXTENDS Integers, Sequences, SequencesExt, FiniteSets, FiniteSetsExt

CONSTANTS
    Visitor,        \* a viewer on a share link of the album
    BurstWindow,    \* ticks between two hearts of one selection (5 min)
    CacheLife,      \* CACHE_MS
    SlowSummary,    \* the longest a load of the summary takes
    Horizon,        \* how far back events are read (7 days, 24 h)
    Shown,          \* rows shown
    DayLength, ChartDays,
    LastTock, MaxEvents

ASSUME InsightAssumption ==
    {BurstWindow, CacheLife, SlowSummary, Horizon, Shown, DayLength, ChartDays, LastTock, MaxEvents} \subseteq Nat
    /\ DayLength > 0 /\ ChartDays > 0

Tock == 0..LastTock
Event == [who : Visitor, kind : {"favorite_add", "page_view"}, at : Tock]
Selection == [who : Visitor, count : 1..MaxEvents, at : Tock]

VARIABLES
    tock,
    events,     \* view_events, by created_at
    summary,    \* loadWidgetSummary in flight
    cached,     \* its cache
    trend       \* a daily chart

insightVars == <<tock, events, summary, cached, trend>>

\* views and seen: the distinct viewers, and how many events there were when
\* they were counted; rows and read: the same of the selections, and when.
NoSummary == [views |-> 0, seen |-> 0, rows |-> <<>>, read |-> 0, rowsSeen |-> 0]
Summary == [views : Nat, seen : Nat, rows : Seq(Selection), read : Tock, rowsSeen : Nat]

NoLoad == [pc |-> "idle", began |-> 0, value |-> NoSummary]

InsightTypeOK ==
    /\ tock \in Tock
    /\ events \in Seq(Event) /\ Len(events) <= MaxEvents
    /\ summary \in [pc : {"idle", "counted", "grouped"}, began : Tock, value : Summary]
    /\ cached \in [at : Tock \cup {-1}, value : Summary]
    /\ trend.pc \in {"idle", "queried", "drawn"} /\ trend.seen \in Nat

InsightInit ==
    /\ tock = 0 /\ events = <<>>
    /\ summary = NoLoad
    /\ cached = [at |-> -1, value |-> NoSummary]
    /\ trend = [pc |-> "idle", seen |-> 0, counts |-> <<>>, points |-> <<>>]

-----------------------------------------------------------------------------
(* groupFavoriteEvents.                                                     *)

WithinHorizon(t) == {n \in DOMAIN events : events[n].at > t - Horizon}

\* Mutant: a run is measured from its first heart, not from the last one.
ContinuesFromFirst(run, e) == run # <<>> /\ e.at - run[1].at <= BurstWindow

\* The run goes on while two hearts in a row are at most WINDOW_MS apart.
Continues(run, e) == run # <<>> /\ e.at - Last(run).at <= BurstWindow

Flush(run) == IF run = <<>> THEN {} ELSE {[who |-> Last(run).who, count |-> Len(run), at |-> Last(run).at]}

\* One visitor's bucket, oldest first.
HeartsOf(v, t) == {n \in WithinHorizon(t) : events[n].who = v /\ events[n].kind = "favorite_add"}

NothingGrouped == [rows |-> {}, run |-> <<>>]

\* One heart more: it goes on with the run, or flushes it.
Grouped(acc, e) ==
    IF Continues(acc.run, e) THEN [rows |-> acc.rows, run |-> Append(acc.run, e)]
    ELSE [rows |-> acc.rows \cup Flush(acc.run), run |-> <<e>>]

\* One visitor's runs, in one pass over the bucket.
Runs(v, t) ==
    LET pass[n \in 0..Len(events)] ==
            IF n = 0 THEN NothingGrouped
            ELSE IF n \in HeartsOf(v, t) THEN Grouped(pass[n - 1], events[n]) ELSE pass[n - 1]
        end == pass[Len(events)]
    IN end.rows \cup Flush(end.run)

\* Newest first, rows of one moment in the order of the Map's keys (any), and
\* the first Shown of them.
Selections(t) ==
    LET rows == UNION {Runs(v, t) : v \in Visitor}
        sorted == {q \in SetToSeqs(rows) : \A i, j \in DOMAIN q : i < j => q[i].at >= q[j].at}
    IN {SubSeq(q, 1, IF Len(q) > Shown THEN Shown ELSE Len(q)) : q \in sorted}

-----------------------------------------------------------------------------

\* recordView and toggleFavorite write to the log.
EventLogged(e) ==
    /\ Len(events) < MaxEvents /\ e.at = tock
    /\ events' = Append(events, e)
    /\ UNCHANGED <<tock, summary, cached, trend>>

\* A load in flight ends within SlowSummary.
TockPasses ==
    /\ tock < LastTock
    /\ summary.pc # "idle" => tock < summary.began + SlowSummary
    /\ tock' = tock + 1
    /\ UNCHANGED <<events, summary, cached, trend>>

SummaryFresh == cached.at >= 0 /\ tock - cached.at < CacheLife

\* A poll is answered from the entry while it is fresh, and loads otherwise: the
\* stats and the albums with COUNT(DISTINCT viewer_id) come first ...
CountViewers ==
    /\ summary.pc = "idle" /\ ~SummaryFresh
    /\ summary' = [pc |-> "counted", began |-> tock,
                   value |-> [NoSummary EXCEPT
                                !.views = Cardinality({events[n].who : n \in
                                            {m \in DOMAIN events : events[m].kind = "page_view"}}),
                                !.seen = Len(events)]]
    /\ UNCHANGED <<tock, events, cached, trend>>

\* ... then the favorites.
GroupSelections ==
    /\ summary.pc = "counted"
    /\ \E rows \in Selections(tock) :
         summary' = [summary EXCEPT !.pc = "grouped", !.value.rows = rows,
                                    !.value.read = tock, !.value.rowsSeen = Len(events)]
    /\ UNCHANGED <<tock, events, cached, trend>>

\* The entry is stamped when the load ends.
KeepSummary ==
    /\ summary.pc = "grouped"
    /\ cached' = [at |-> tock, value |-> summary.value]
    /\ summary' = NoLoad
    /\ UNCHANGED <<tock, events, trend>>

SummaryFails ==
    /\ summary.pc \in {"counted", "grouped"}
    /\ summary' = NoLoad
    /\ UNCHANGED <<tock, events, cached, trend>>

-----------------------------------------------------------------------------
(* viewsByDay30d, loadViewsTrend with fillDays.                             *)

DayOf(t) == t \div DayLength

\* created_at > now() - interval '30 days', to the tick.
TrendWindow(t) == {n \in DOMAIN events : events[n].at > t - ChartDays * DayLength}

\* GROUP BY day: days without a view have no row.
QueryTrend ==
    /\ trend.pc # "queried"
    /\ LET in == {n \in TrendWindow(tock) : events[n].kind = "page_view"} IN
       trend' = [pc |-> "queried", seen |-> Len(events), points |-> <<>>,
                 counts |-> [d \in {DayOf(events[n].at) : n \in in} |->
                               Cardinality({n \in in : DayOf(events[n].at) = d})]]
    /\ UNCHANGED <<tock, events, summary, cached>>

\* One point per day up to the day it is when the rows are in.
FillDays ==
    /\ trend.pc = "queried"
    /\ LET first == DayOf(tock) - (ChartDays - 1) IN
       trend' = [trend EXCEPT !.pc = "drawn", !.counts = <<>>,
                   !.points = [i \in 1..ChartDays |->
                                 [day |-> first + i - 1,
                                  count |-> IF first + i - 1 \in DOMAIN trend.counts
                                            THEN trend.counts[first + i - 1] ELSE 0]]]
    /\ UNCHANGED <<tock, events, summary, cached>>

InsightNext ==
    \/ \E e \in Event : EventLogged(e)
    \/ TockPasses \/ CountViewers \/ GroupSelections \/ KeepSummary \/ SummaryFails
    \/ QueryTrend \/ FillDays

InsightSpec == InsightInit /\ [][InsightNext]_insightVars

-----------------------------------------------------------------------------
(* Properties.                                                              *)

\* The selections, said without a pass over a list: one per heart that no
\* heart of the same visitor follows within the window, counting the hearts
\* before it with no longer pause in between.
SelectionsIn(k, t) ==
    LET hearts(v) == {n \in 1..k : events[n].who = v /\ events[n].kind = "favorite_add"
                                   /\ events[n].at > t - Horizon}
        follows(v, n) == {m \in hearts(v) : m > n}
        pause(v, n) == follows(v, n) = {} \/ events[Min(follows(v, n))].at - events[n].at > BurstWindow
        run(v, n) == {m \in hearts(v) : m <= n /\ \A o \in hearts(v) : (m <= o /\ o < n) => ~pause(v, o)}
    IN UNION {{[who |-> v, count |-> Cardinality(run(v, n)), at |-> events[n].at] :
                 n \in {m \in hearts(v) : pause(v, m)}} : v \in Visitor}

\* No event older than the cache's life and one load is missing from an entry
\* the widget serves, though the log grows while the summary is loaded.
OldEventsAreSummed ==
    SummaryFresh =>
      {n \in DOMAIN events : events[n].at + CacheLife + SlowSummary <= tock} \subseteq 1..cached.value.seen

\* The widget's selections are the newest of the log it read.
SelectionsAreNewest ==
    SummaryFresh =>
      LET all == SelectionsIn(cached.value.rowsSeen, cached.value.read)
          rows == cached.value.rows
      IN /\ Range(rows) \subseteq all
         /\ Len(rows) = Cardinality(Range(rows))
         /\ Len(rows) = IF Cardinality(all) > Shown THEN Shown ELSE Cardinality(all)
         /\ \A x \in all \ Range(rows) : \A y \in Range(rows) : x.at <= y.at

\* Every bar of a chart counts the views of its whole day, though the query
\* and the dates are taken at different moments, across a midnight too.
BarsAreWholeDays ==
    trend.pc = "drawn" =>
      \A i \in DOMAIN trend.points :
        trend.points[i].count =
          Cardinality({n \in 1..trend.seen : events[n].kind = "page_view"
                                             /\ DayOf(events[n].at) = trend.points[i].day})

\* A dashboard is right about a log that moves under it.
DashboardsAreRight == OldEventsAreSummed /\ SelectionsAreNewest /\ BarsAreWholeDays
=============================================================================
