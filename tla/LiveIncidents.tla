--------------------------- MODULE LiveIncidents ---------------------------
(***************************************************************************)
(* The incidents of the live side. The retention thread runs one tick a    *)
(* minute: it writes the finished flows, marks the suppressed rows, turns  *)
(* the behaviours of the sources into incidents and, every second tick,    *)
(* evaluates the correlation rule. Around it run the handlers: the status  *)
(* of an incident, suppression rules, threat feeds and look-ups, and the   *)
(* correlation of incidents into attack sessions, which the service itself *)
(* never starts.                                                           *)
(*                                                                         *)
(* A scan writes in one transaction, but a geo look-up inside it commits   *)
(* what the scan has written so far (db), and gives the other writers a    *)
(* turn; the rest is in work until the commit at the end. Flows carry the  *)
(* times of the device that saw them, which may lie far behind the clock.  *)
(* Counts above five are alike for severity and priority, so the counter   *)
(* stops there.                                                            *)
(* The fields told, whole, cut, stale and reopened of a row are history:   *)
(* it was notified, its last write was not cut off, one before it was, its *)
(* priority was computed from an outdated read, an analyst opened it again.*)
(***************************************************************************)
EXTENDS LivePolicy

CONSTANTS
  Srcs,          \* source addresses
  FlowKinds,     \* rows the flow engine may hand over, dated relative to the clock
  SuppRules,     \* suppression rules an analyst may switch on: [src, dst], None for any
  Rule,          \* the correlation rule
  Assets,        \* criticality of the known destinations
  Bases,         \* baseline of each source, or None
  Step, MaxTime, \* the clock: minutes per step, and its end
  FlowWindow, Merge, Idle, Close, Ttl,
  Private,       \* addresses nobody looks up the place of
  Suspects,      \* addresses the feeds may list and handlers look up
  Statuses,      \* statuses an analyst sets
  MaxIncidents,  \* bound: incidents ever created
  MaxRequests    \* bound: requests of analysts, and failures

ASSUME WindowsAssumption ==
  /\ {Step, MaxTime, FlowWindow, Merge, Idle, Close, Ttl, Rule.window, Rule.cooldown} \subseteq Nat
  /\ FlowWindow <= Merge /\ Idle <= Close

ASSUME AddressesAssumption ==
  /\ IsFiniteSet(Srcs) /\ None \notin Srcs /\ Suspects \subseteq Srcs
  /\ \A k \in FlowKinds : k = [x \in DOMAIN k |-> k[x]] /\ {"src", "last", "suppressed"} \subseteq DOMAIN k
                        /\ k.src \in Srcs /\ k.last \in Int
  /\ Rule.target \in {"source_ip", "destination_ip", "src_dst_pair"} /\ Rule.severity \in 0..3

VARIABLES
  now, flows, supp, ruleOn,
  db,        \* committed: [incidents, sessions]
  loop,      \* the retention thread: [pc, todo, at, new, work, held, odd]
  edit,      \* a status handler between its read and its write, or None
  listed,    \* sources a committed indicator names
  cache,     \* source -> [hit, at] or None
  query,     \* a look-up handler between its query and its write to the cache, or None
  geo,       \* addresses whose place the geo cache knows (private ones need none)
  feed,      \* "idle", or "stored": committed, the cache not yet cleared
  asked,     \* requests and crashes so far
  ghost      \* of this tick: sources under a rule all along, sources of which an incident was
             \* written for what they did

vars == <<now, flows, supp, ruleOn, db, loop, edit, listed, cache, query, geo, feed, asked, ghost>>

Live == {"open", "investigating"}
Ids(d) == DOMAIN d.incidents
Idling(pc, odd) ==
  [pc |-> pc, todo |-> <<>>, at |-> 0, work |-> None, held |-> FALSE, new |-> FALSE, odd |-> odd]

Init ==
  /\ now = 0 /\ flows = {} /\ supp = {} /\ ruleOn = TRUE
  /\ db = [incidents |-> <<>>, sessions |-> <<>>]
  /\ loop = Idling("idle", FALSE)
  /\ edit = None /\ listed = {} /\ geo = Private /\ cache = [s \in Srcs |-> None] /\ query = None /\ feed = "idle" /\ asked = 0
  /\ ghost = [quiet |-> {}, touched |-> {}]

Ask == asked < MaxRequests /\ asked' = asked + 1

\* Another session may write: the scan holds SQLite's write lock until it commits.
Writable == ~loop.held

(* ---- one tick of the retention thread ---------------------------------- *)

\* Rows are marked only while they are in the flow window.
Markable(F, s) == \A f \in OfSource(F, s) : f.suppressed \/ f.last >= now - FlowWindow
Marked(F, s) == \A f \in OfSource(F, s) : f.suppressed

\* _flush_flows: what the engine finished since the last tick, with the times of the device.
FlushFlows ==
  /\ loop.pc = "idle"
  /\ \E new \in {{}} \cup {{k} : k \in FlowKinds} :
       flows' = flows \cup {[k EXCEPT !.last = now + @] : k \in new}
  /\ loop' = [loop EXCEPT !.pc = "mark", !.odd = ~loop.odd]
  /\ ghost' = [ghost EXCEPT !.touched = {},
                 !.quiet = {s \in Srcs : [src |-> s, dst |-> None] \in supp /\ Markable(flows', s)}]
  /\ UNCHANGED <<geo, now, supp, ruleOn, db, edit, listed, cache, query, feed, asked>>

Matches(r, f) == (r.src # None => f.src = r.src) /\ (r.dst # None => f.dst = r.dst)

ApplySuppressions ==
  /\ loop.pc = "mark"
  /\ flows' = {IF f.last >= now - FlowWindow /\ \E r \in supp : Matches(r, f)
               THEN [f EXCEPT !.suppressed = TRUE] ELSE f : f \in flows}
  /\ loop' = [loop EXCEPT !.pc = "scan"]
  /\ UNCHANGED <<geo, now, supp, ruleOn, db, edit, listed, cache, query, feed, ghost, asked>>

\* An exception of the marking rolls it back; it ends the scan of this tick, not the tick.
FailMarking ==
  /\ loop.pc = "mark"
  /\ loop' = [loop EXCEPT !.pc = "rules"]
  /\ ghost' = [ghost EXCEPT !.quiet = {s \in @ : Marked(flows, s)}]
  /\ Ask
  /\ UNCHANGED <<geo, now, flows, supp, ruleOn, db, edit, listed, cache, query, feed>>

\* A rule for a destination alone silences the sources it denies.
SuppressedSources ==
  ({r.src : r \in supp} \ {None})
  \cup {f.src : f \in {g \in Since(flows, now - FlowWindow) :
          g.state \in Blocked /\ \E r \in supp : r.src = None /\ r.dst = g.dst}}

Eligible == {b \in Behaviours(flows, now - FlowWindow, Bases) :
               b.type # "normal" /\ b.confidence >= 60 /\ b.src \notin SuppressedSources}

StartScan ==
  /\ loop.pc = "scan"
  /\ loop' = [loop EXCEPT !.pc = IF Eligible = {} THEN "rules" ELSE "upsert",
                          !.todo = SetToSeq(Eligible)]
  /\ UNCHANGED <<geo, now, flows, supp, ruleOn, db, edit, listed, cache, query, feed, ghost, asked>>

\* Mutant: an incident is merged by the time it began.
MatchingByFirst(d, src, type, cutoff) ==
  {i \in Ids(d) : LET x == d.incidents[i] IN
     x.src = src /\ x.type = type /\ x.status \in Live /\ x.first >= cutoff}

\* The incident a behaviour belongs to: the first one of the merge window.
Matching(d, src, type, cutoff) ==
  {i \in Ids(d) : LET x == d.incidents[i] IN
     x.src = src /\ x.type = type /\ x.status \in Live /\ x.last >= cutoff}

NewIncident(src, type, sev, by) ==
  [src |-> src, type |-> type, sev |-> sev, status |-> "open", first |-> now, last |-> now,
   count |-> 1, crit |-> None, prio |-> 0, act |-> now, by |-> by,
   told |-> FALSE, whole |-> FALSE, cut |-> FALSE, stale |-> FALSE, reopened |-> FALSE]

Targets(src) == Dsts(OfSource(Since(flows, now - FlowWindow), src))
Priority(x) == ComputePriority(x.sev, IF x.crit = None THEN 0 ELSE x.crit, x.count, x.type, now - x.act)

\* What the scan reads: its own writes on top of what others committed.
Seen == IF loop.held THEN loop.work ELSE db

\* upsert_incidents_from_behaviors, first half: the row and its enrichment. The
\* geo look-up of an address the cache does not know commits.
Touch ==
  LET b == Head(loop.todo)
      found == Matching(Seen, b.src, b.type, now - Merge)
      id == IF found = {} THEN Len(Seen.incidents) + 1 ELSE Min(found)
      row == IF found = {} THEN NewIncident(b.src, b.type, DeriveSeverity(b.type, b.confidence, 1), "scan")
             ELSE [Seen.incidents[id] EXCEPT !.last = now, !.act = now, !.count = AtMost(@ + 1, 5),
                                                   !.cut = @ \/ ~Seen.incidents[id].whole, !.whole = FALSE]
      next == [Seen EXCEPT !.incidents =
                 IF found = {} THEN Append(@, row) ELSE [@ EXCEPT ![id] = row]]
  IN /\ loop.pc = "upsert"
     /\ Len(next.incidents) <= MaxIncidents
     /\ geo' = geo \cup {b.src}
     /\ LET commits == b.src \notin geo IN
          /\ db' = IF commits THEN next ELSE db
          /\ loop' = [loop EXCEPT !.pc = "boost", !.at = id, !.new = (found = {}), !.held = ~commits,
                                  !.work = IF commits THEN None ELSE next]
     /\ ghost' = [ghost EXCEPT !.touched = @ \cup {b.src}]
     /\ UNCHANGED <<now, flows, supp, ruleOn, edit, listed, cache, query, feed, asked>>

EmptyCache == [s \in Srcs |-> None]
Fresh(entry) == entry # None /\ now - entry.at < Ttl
Known(s) == IF Fresh(cache[s]) THEN cache[s].hit ELSE s \in listed

\* The boosts, on top of the severity the row has by now.
Boosted(x, b) ==
  LET derived == DeriveSeverity(b.type, b.confidence, x.count)
      base == IF derived > x.sev THEN derived ELSE x.sev
      crit == TargetCriticality(x.crit, Targets(b.src), Assets)
      sev == AssetBoost(DeviationBoost(base, b.deviation), crit)
  IN [x EXCEPT !.crit = crit, !.sev = IF Known(b.src) THEN 3 ELSE sev]

\* Mutant: a severity that rose is news only for a new incident.
TellsNew(new, x, old) == new /\ x.sev >= 1
\* The notification of a new incident of at least medium severity, or of a severity that rose.
Tells(new, x, old) == IF new THEN x.sev >= 1 ELSE x.sev > old.sev

Repriced(x, old) == [x EXCEPT !.prio = Priority(x)]

\* Second half: boosts, priority and notification.
Boost ==
  LET b == Head(loop.todo)
      old == Seen.incidents[loop.at]
      x == Boosted(old, b)
      row == [Repriced(x, old) EXCEPT !.whole = TRUE, !.stale = FALSE,
                                      !.told = @ \/ Tells(loop.new, x, old)]
  IN /\ loop.pc = "boost"
     /\ loop' = [loop EXCEPT !.pc = IF Tail(loop.todo) = <<>> THEN "commit" ELSE "upsert",
                   !.todo = Tail(@), !.held = TRUE,
                   !.work = [Seen EXCEPT !.incidents[loop.at] = row]]
     /\ cache' = IF Fresh(cache[b.src]) THEN cache
                 ELSE [cache EXCEPT ![b.src] = [hit |-> Known(b.src), at |-> now, raced |-> FALSE]]
     /\ UNCHANGED <<geo, now, flows, supp, ruleOn, db, edit, listed, query, feed, ghost, asked>>

CommitScan ==
  /\ loop.pc = "commit"
  /\ db' = loop.work
  /\ loop' = [loop EXCEPT !.pc = "rules", !.work = None, !.held = FALSE]
  /\ UNCHANGED <<geo, now, flows, supp, ruleOn, edit, listed, cache, query, feed, ghost, asked>>

\* An exception of the scan rolls its open transaction back and is swallowed.
FailScan ==
  /\ loop.pc \in {"upsert", "boost", "commit"}
  /\ loop' = [loop EXCEPT !.pc = "rules", !.todo = <<>>, !.work = None, !.held = FALSE]
  /\ Ask
  /\ UNCHANGED <<geo, now, flows, supp, ruleOn, db, edit, listed, cache, query, feed, ghost>>

InCooldown(src) == Matching(db, src, Rule.behavior, now - Rule.cooldown) # {}

\* evaluate_rules, every second tick; a rule's incident is neither boosted nor notified.
RunRules ==
  LET due == IF ruleOn /\ ~loop.odd THEN Triggered(flows, Rule, now) ELSE {}
      srcs == {s \in {IncidentSource(e, Rule) : e \in due} : ~InCooldown(s)}
      row(s) == [NewIncident(s, Rule.behavior, Rule.severity, "rule") EXCEPT
                   !.prio = <<20, 40, 70, 90>>[Rule.severity + 1]]
  IN /\ loop.pc = "rules"
     /\ Len(db.incidents) + Cardinality(srcs) <= MaxIncidents
     /\ db' = [db EXCEPT !.incidents = @ \o [i \in 1..Cardinality(srcs) |-> row(SetToSeq(srcs)[i])]]
     /\ loop' = Idling("sleep", loop.odd)
     /\ ghost' = IF Rule.target = "destination_ip" THEN ghost ELSE [ghost EXCEPT !.touched = @ \cup srcs]
     /\ UNCHANGED <<geo, now, flows, supp, ruleOn, edit, listed, cache, query, feed, asked>>

(* ---- handlers ----------------------------------------------------------- *)

\* update_incident_status reads the row, and computes the priority of what it read.
ReadIncident(i) ==
  /\ edit = None
  /\ edit' = [id |-> i, row |-> db.incidents[i]]
  /\ Ask
  /\ UNCHANGED <<geo, now, flows, supp, ruleOn, db, loop, listed, cache, query, feed, ghost>>

UpdateStatus(st) ==
  LET i == edit.id
      was == db.incidents[i]
      x == [edit.row EXCEPT !.act = now]
  IN /\ edit # None
     /\ Writable
     /\ db' = [db EXCEPT !.incidents[i] =
                 [was EXCEPT !.status = st, !.act = now, !.prio = Priority(x),
                             !.stale = was # edit.row,
                             !.reopened = @ \/ (st \in Live /\ was.status \notin Live)]]
     /\ edit' = None
     /\ UNCHANGED <<geo, now, flows, supp, ruleOn, loop, listed, cache, query, feed, ghost, asked>>

\* create, toggle and delete of suppression rules
ToggleSuppression(r) ==
  /\ Writable
  /\ supp' = IF r \in supp THEN supp \ {r} ELSE supp \cup {r}
  /\ ghost' = [ghost EXCEPT !.quiet = @ \ {r.src}]
  /\ Ask
  /\ UNCHANGED <<geo, now, flows, ruleOn, db, loop, edit, listed, cache, query, feed>>

ToggleRule ==
  /\ Writable
  /\ ruleOn' = ~ruleOn
  /\ Ask
  /\ UNCHANGED <<geo, now, flows, supp, db, loop, edit, listed, cache, query, feed, ghost>>

\* fetch_feed commits the indicators, then clears the look-up cache.
FetchFeed(s) ==
  /\ feed = "idle" /\ Writable /\ s \notin listed
  /\ listed' = listed \cup {s}
  /\ feed' = "stored"
  /\ query' = IF query = None THEN None ELSE [query EXCEPT !.raced = @ \/ query.src = s]
  /\ Ask
  /\ UNCHANGED <<geo, now, flows, supp, ruleOn, db, loop, edit, cache, ghost>>

ClearCache ==
  /\ feed = "stored"
  /\ feed' = "idle"
  /\ cache' = EmptyCache
  /\ UNCHANGED <<geo, now, flows, supp, ruleOn, db, loop, edit, listed, query, ghost, asked>>

\* delete_threat_indicator leaves the cache alone.
DeleteIndicator(s) ==
  /\ Writable /\ s \in listed
  /\ listed' = listed \ {s}
  /\ Ask
  /\ UNCHANGED <<geo, now, flows, supp, ruleOn, db, loop, edit, cache, query, feed, ghost>>

\* lookup_ip from a handler: the query, then the entry of the cache.
QueryIndicators(s) ==
  /\ query = None /\ ~Fresh(cache[s])
  /\ query' = [src |-> s, hit |-> s \in listed, raced |-> FALSE]
  /\ Ask
  /\ UNCHANGED <<geo, now, flows, supp, ruleOn, db, loop, edit, listed, cache, feed, ghost>>

StoreLookup ==
  /\ query # None
  /\ cache' = [cache EXCEPT ![query.src] = [hit |-> query.hit, at |-> now, raced |-> query.raced]]
  /\ query' = None
  /\ UNCHANGED <<geo, now, flows, supp, ruleOn, db, loop, edit, listed, feed, ghost, asked>>

\* The geo look-up of a handler commits its entry.
GeoLookup(s) ==
  /\ Writable /\ s \notin geo
  /\ geo' = geo \cup {s}
  /\ Ask
  /\ UNCHANGED <<now, flows, supp, ruleOn, db, loop, edit, listed, cache, query, feed, ghost>>

(* ---- attack sessions ------------------------------------------------------ *)

LiveSessions(d, s, cutoff) ==
  {i \in DOMAIN d.sessions : LET x == d.sessions[i] IN
     x.src = s /\ x.status \in {"active", "idle"} /\ x.last >= cutoff}
Recent(s) == {i \in Ids(db) : LET x == db.incidents[i] IN
                x.src = s /\ x.status \in Live /\ x.last >= now - Close}

CreateSession(s) ==
  [src |-> s, ids |-> Recent(s), sev |-> Max({db.incidents[i].sev : i \in Recent(s)}),
   last |-> now, status |-> "active"]
UpdateSession(x, s) ==
  LET latest == Max({db.incidents[i].last : i \in Recent(s)})
      worst == Max({db.incidents[i].sev : i \in Recent(s)} \cup {x.sev})
  IN [x EXCEPT !.ids = @ \cup Recent(s), !.sev = worst,
        !.last = IF latest > @ THEN latest ELSE @,
        !.status = IF latest > x.last THEN "active" ELSE @]

\* Closed before idle: a session of exactly the closing age stays as it is.
AgeSession(x) ==
  CASE x.status \in {"active", "idle"} /\ x.last < now - Close -> [x EXCEPT !.status = "closed"]
    [] x.status = "active" /\ x.last < now - Idle /\ x.last >= now - Close -> [x EXCEPT !.status = "idle"]
    [] OTHER -> x

\* correlate_sessions, for every source with a recent incident.
CorrelateSessions ==
  LET active == {s \in Srcs : Recent(s) # {}}
      with(s) == LiveSessions(db, s, now - Close)
      kept == [i \in DOMAIN db.sessions |->
                 LET s == db.sessions[i].src IN
                 IF s \in active /\ with(s) # {} /\ i = Min(with(s))
                 THEN UpdateSession(db.sessions[i], s) ELSE db.sessions[i]]
      fresh == SetToSeq({s \in active : with(s) = {}})
      all == kept \o [i \in DOMAIN fresh |-> CreateSession(fresh[i])]
  IN /\ loop.pc = "sleep"
     /\ db' = [db EXCEPT !.sessions = [i \in DOMAIN all |-> AgeSession(all[i])]]
     /\ db' # db
     /\ Ask
     /\ UNCHANGED <<geo, now, flows, supp, ruleOn, loop, edit, listed, cache, query, feed, ghost>>

(* ---- time and failure ------------------------------------------------------ *)

\* Rows neither the scan nor the rule looks back to.
Horizon == IF FlowWindow > Rule.window THEN FlowWindow ELSE Rule.window

\* The pause between two ticks. The cache outlives it: its entries are valid for five.
Sleep ==
  /\ loop.pc = "sleep" /\ now + Step <= MaxTime
  /\ loop' = [loop EXCEPT !.pc = "idle"]
  /\ now' = now + Step
  /\ flows' = Since(flows, now' - Horizon)
  /\ UNCHANGED <<geo, supp, ruleOn, db, edit, listed, cache, query, feed, ghost, asked>>

\* The process dies: what was not committed is gone, and so are cache and threads.
Crash ==
  /\ loop.pc \notin {"idle", "sleep"}
  /\ loop' = Idling("idle", FALSE)
  /\ edit' = None /\ query' = None /\ feed' = "idle" /\ cache' = EmptyCache
  /\ Ask
  /\ UNCHANGED <<geo, now, flows, supp, ruleOn, db, listed, ghost>>

Tick ==
  \/ FlushFlows \/ ApplySuppressions \/ FailMarking \/ StartScan
  \/ Touch \/ Boost \/ CommitScan \/ FailScan \/ RunRules
Handlers ==
  \/ \E i \in Ids(db) : ReadIncident(i)
  \/ \E st \in Statuses : UpdateStatus(st)
  \/ \E r \in SuppRules : ToggleSuppression(r)
  \/ ToggleRule \/ ClearCache \/ StoreLookup \/ CorrelateSessions
  \/ \E s \in Suspects : FetchFeed(s) \/ DeleteIndicator(s) \/ QueryIndicators(s) \/ GeoLookup(s)
Next == Tick \/ Handlers \/ Sleep \/ Crash
Spec == Init /\ [][Next]_vars

(* ---- properties --------------------------------------------------------- *)

\* Two live incidents of one source and behaviour are further apart than the merge
\* window: the scan and the rule engine find each other's incidents, whatever their
\* status, unless an analyst opened one of them again, or a rule that cools down before
\* the window is over made the second, after which the scan goes on with the first.
OneOpenPerBehaviour ==
  \A i, j \in Ids(db) :
    LET x == db.incidents[i] y == db.incidents[j] IN
    (i < j /\ x.src = y.src /\ x.type = y.type /\ x.status \in Live /\ y.status \in Live)
      => \/ x.reopened \/ y.reopened
         \/ x.last < y.first - Merge
         \/ y.by = "rule" /\ Rule.cooldown < Merge

\* An incident of the scan that stands at medium severity or above has been notified,
\* whichever boost took it there, unless a scan that wrote it was cut off after a geo
\* look-up had committed its half-written row: the next one takes it for known.
BigIncidentsTold ==
  \A i \in Ids(db) : LET x == db.incidents[i] IN
    (x.by = "scan" /\ x.sev >= 1) => x.told \/ ~x.whole \/ x.cut

\* The stored priority is that of the stored severity, criticality and count at the
\* last activity, unless a status handler computed it from a row read before the
\* scan's last write, or that write was cut off.
PriorityAgrees ==
  \A i \in Ids(db) : LET x == db.incidents[i] IN
    (x.whole /\ ~x.stale) => x.prio = Priority([x EXCEPT !.act = now])

\* A source under an active rule since before the tick gets no incident in that tick, from
\* the scan or from rules that watch sources; as a destination it may. It may also if it has
\* unmarked rows the marking does not reach: flows the device dates before the flow window,
\* and all of them in a tick whose marking failed.
QuietWhileSuppressed == ghost.quiet \cap ghost.touched = {}

\* While a source is listed, a valid cache entry that denies it, however many ticks old, was
\* computed by a look-up the refresh overtook, or the refresh has not cleared the cache yet.
StaleNegativeNeedsOverlap ==
  \A s \in listed : (Fresh(cache[s]) /\ ~cache[s].hit) => cache[s].raced \/ feed = "stored"

\* A source has at most one session that is not closed.
OneLiveSession ==
  \A i, j \in DOMAIN db.sessions :
    (/\ db.sessions[i].src = db.sessions[j].src /\ db.sessions[i].status # "closed"
     /\ db.sessions[j].status # "closed") => i = j

\* The scan, the rule engine and the handlers, which look for a row before they make one,
\* make no twins: neither of incidents nor of sessions.
NoTwins == OneOpenPerBehaviour /\ OneLiveSession

\* An incident is told and priced by the severity it stands at, whichever of the two
\* writers took it there last.
ToldAndPriced == BigIncidentsTold /\ PriorityAgrees

\* Lists take effect: what analysts suppress is quiet, what a feed names is found.
ListsTakeEffect == QuietWhileSuppressed /\ StaleNegativeNeedsOverlap
=============================================================================
