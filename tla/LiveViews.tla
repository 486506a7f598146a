------------------------------ MODULE LiveViews ------------------------------
(***************************************************************************)
(* The views the backend gives of the stored live events and live flows:   *)
(* filtered lists in pages, the statistics beside them, the timelines per  *)
(* minute and the figures of the dashboard, each a query of its own.       *)
(*                                                                         *)
(* A table is a set of records with an `id`; times are minutes.  A filter  *)
(* is a function from the columns it names to the values asked for.  What  *)
(* a row looks like in an answer and the look-up of its place are left     *)
(* out.  Where the query orders by a count alone, rows of one count may    *)
(* come in any order: a ranking is the set of those that may be in it.     *)
(***************************************************************************)
EXTENDS Integers, SequencesExt, FiniteSetsExt

\* A row as it is stored.
WithId(n, row) == [c \in DOMAIN row \cup {"id"} |-> IF c = "id" THEN n ELSE row[c]]

Matching(table, filter) == {r \in table : \A c \in DOMAIN filter : r[c] = filter[c]}

\* Mutant: the list begins with the oldest row.
Older(time, r, s) == r[time] < s[time] \/ (r[time] = s[time] /\ r.id < s.id)

\* Newest first; of rows of one time the one stored last.
Newer(time, r, s) == r[time] > s[time] \/ (r[time] = s[time] /\ r.id > s.id)

\* The rows of a page, by how many rows of the list come before them.
Page(table, filter, time, offset, limit) ==
  LET found == Matching(table, filter)
      before(r) == Cardinality({s \in found : Newer(time, s, r)})
  IN [total |-> Cardinality(found),
      rows |-> {r \in found : offset <= before(r) /\ before(r) < offset + limit}]

(* list_live_events, list_live_flows                                       *)
ListEvents(events, filter, offset, limit) == Page(events, filter, "time", offset, limit)
ListFlows(flows, filter, offset, limit) == Page(flows, filter, "last", offset, limit)

-----------------------------------------------------------------------------
(* GROUP BY of one column.                                                 *)
Counts(table, column) ==
  [v \in {r[column] : r \in table} |-> Cardinality({r \in table : r[column] = v})]

\* The values that may be among the first n by their counts.
Leading(counts, n) ==
  {v \in DOMAIN counts : Cardinality({w \in DOMAIN counts : counts[w] > counts[v]}) < n}

CountOfValue(counts, v) == IF v \in DOMAIN counts THEN counts[v] ELSE 0

Top == 10

(* live_events_stats                                                       *)
Stopped == {"deny", "drop", "reset"}

EventStats(events) ==
  [total        |-> Cardinality(events),
   actions      |-> Counts(events, "action"),
   devices      |-> Counts(events, "device"),
   sources      |-> Leading(Counts(events, "src"), Top),
   destinations |-> Leading(Counts(events, "dst"), Top),
   denied       |-> Leading(Counts({e \in events : e.action \in Stopped}, "src"), Top)]

(* live_flows_stats: a flow of alerts and unknown actions only is "expired" *)
(* (flows.py:218); it counts in the total, and no series is of its state.  *)
FlowStates == {"active", "completed", "denied", "reset", "dropped"}

FlowStats(flows) ==
  LET ofState(s) == {f \in flows : f.state = s} IN
  [total     |-> Cardinality(flows),
   states    |-> [s \in FlowStates |-> CountOfValue(Counts(flows, "state"), s)],
   types     |-> Counts({f \in flows : f.type # "none"}, "type"),
   talkers   |-> Leading(Counts(flows, "src"), Top),
   resetters |-> Leading(Counts(ofState("reset"), "src"), Top),
   denied    |-> Leading(Counts(ofState("denied"), "src"), Top)]

(* The timelines: per minute from the cutoff on, the rows of each class.   *)
Timeline(table, time, column, classes, cutoff) ==
  LET late == {r \in table : r[time] >= cutoff} IN
  [m \in {r[time] : r \in late} |->
     [c \in classes |-> Cardinality({r \in late : r[time] = m /\ r[column] = c})]]

\* The three series of events leave out resets, alerts and unknown actions.
EventClasses == {"allow", "deny", "drop"}

EventTimeline(events, filter, now, minutes) ==
  Timeline(Matching(events, filter), "time", "action", EventClasses, now - minutes)

FlowTimeline(flows, now, minutes) ==
  Timeline(flows, "last", "state", FlowStates, now - minutes)

(* dashboard_summary: the events of the last five minutes.                 *)
DashboardEvents(events, now) ==
  LET late == {e \in events : e.time >= now - 5} IN
  [total |-> Cardinality(late)]
    @@ [c \in EventClasses |-> Cardinality({e \in late : e.action = c})]

(* _run_retention: events go by the time of the device, flows never go.    *)
Retained(events, cutoff) == {e \in events : e.time >= cutoff}

-----------------------------------------------------------------------------
(* A series of a timeline adds up to the list with the same filter, and    *)
(* the dashboard shows the last five minutes of both.                      *)
Series(timeline, c) == MapThenSumSet(LAMBDA m : timeline[m][c], DOMAIN timeline)

ViewsOfOneTable(events, now) ==
  LET all == [c \in {} |-> c] IN
  /\ \A c \in EventClasses :
       /\ CountOfValue(EventStats(events).actions, c)
            = ListEvents(events, [action |-> c], 0, 1).total
       /\ Series(EventTimeline(events, all, now, 5), c) = DashboardEvents(events, now)[c]
       /\ \A s \in {e.src : e \in events} :
            Series(EventTimeline(events, [src |-> s], now, 60), c)
              <= ListEvents(events, [src |-> s, action |-> c], 0, 1).total

\* The states of the statistics add up to the total but for the expired flows, those of the
\* timeline to no more, and the sources said to be denied have denied flows in the list.
FlowViewsOfOneTable(flows, now) ==
  LET stats == FlowStats(flows) IN
  /\ MapThenSumSet(LAMBDA s : stats.states[s], FlowStates)
       = stats.total - ListFlows(flows, [state |-> "expired"], 0, 1).total
  /\ \A s \in FlowStates :
       /\ stats.states[s] = ListFlows(flows, [state |-> s], 0, 1).total
       /\ Series(FlowTimeline(flows, now, 5), s) <= stats.states[s]
  /\ \A src \in stats.denied : ListFlows(flows, [state |-> "denied", src |-> src], 0, 1).rows # {}
==============================================================================
