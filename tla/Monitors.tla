------------------------------ MODULE Monitors ------------------------------
(***************************************************************************)
(* Scheduled path monitors (main.py, "Scheduled Path Monitoring"): their   *)
(* rows, histories and feedback, the tick that runs all that are due, the  *)
(* manual run, the deletions that cascade to them; and what the live side  *)
(* starts by itself when hosts behave oddly: an analysis of their path     *)
(* (collector/intelligence.py) and a monitor of it (collector/bridge.py).  *)
(*                                                                         *)
(* Handlers run in a thread pool on one SQLite file.  A session writes at  *)
(* its first flush, which takes the database's write lock until it commits *)
(* or rolls back; what it read before may be stale by then.                *)
(***************************************************************************)
EXTENDS MonitorPolicy

CONSTANTS
    Monitor,        \* 1..n: row ids; SQLite gives an id again after its row is deleted
    Analysis, Query,
    Content,        \* what a saved query asks: addresses, port and roles
    ResultOf,       \* per content: what the analysis engine finds (the capture is fixed)
    Bare,           \* the contents that name two hosts, and no port or roles
    PairOf,         \* per content: its two hosts
    Cooldown,       \* COOLDOWN_MINUTES, in ticks of the clock
    Assignee,       \* per analysis: the user it is assigned to, or None
    Outcome,        \* outcomes analysts report: [outcome, cause]
    Baseline,       \* baselines they set
    Rule,           \* suppression rules they add: [kind, value, for]
    MaxRuns,        \* bound: history rows
    MaxRequests,    \* bound: requests that change a row, other than runs, and scans
    MaxTime,        \* bound: the clock stops here
    NoRow           \* the row does not exist

Owner == "owner"
Terminal == {"resolved", "dismissed"}
NoBaseline == [delay |-> -1, confidence |-> -1, noisy |-> {}]

\* A row of monitored_paths.
MonitorRow ==
    [analysis : Analysis, query : Query, enabled : BOOLEAN, lastRunAt : Int,
     last : {None} \cup [content : Content, result : {ResultOf[c] : c \in Content}],
     severity : {None} \cup Severity, outcome : {None} \cup {o.outcome : o \in Outcome},
     baseline : Baseline \cup {NoBaseline}]

ASSUME MonitorsAssumption ==
    /\ Monitor = 1..Cardinality(Monitor)
    /\ {MaxRuns, MaxRequests, MaxTime} \subseteq Nat
    /\ Content # {} /\ None \notin Content /\ NoRow \notin MonitorRow
    /\ \A c \in Content : ResultOf[c].confidence \in Int /\ ResultOf[c].delay \in Int
    /\ Content = DOMAIN ResultOf /\ Content = DOMAIN PairOf /\ Bare \subseteq Content
    /\ Analysis = DOMAIN Assignee /\ Cooldown \in Nat

VARIABLES
    db,         \* the database as the holder of the write lock sees it
    committed,  \* the database as everybody else sees it
    lock,     \* who holds the write lock: a session or "free"
    session,  \* per session: the run of monitors in progress
    request,    \* per request that writes later than it reads: what it has read, or None
    live,       \* the retention thread: the scan or the creation it has begun, or None
    requests, \* how many requests changed a row
    clock

vars == <<db, committed, lock, session, request, live, requests, clock>>

Present(m) == db.monitor[m] # NoRow
Idle == [on |-> FALSE, todo |-> <<>>, seen |-> <<>>, manual |-> FALSE, work |-> None]
Unasked == [create |-> None, delete |-> None, suppress |-> None]

NewMonitor(a, q, enabled) ==
    [analysis |-> a, query |-> q, enabled |-> enabled, lastRunAt |-> -1, last |-> None,
     severity |-> None, outcome |-> None, baseline |-> NoBaseline]

\* A database with monitors that have not run yet, or without any; then the analysis may
\* belong to somebody else.
Init ==
    /\ \E status \in {"pending", "completed"}, n \in {0, Cardinality(Monitor)},
          a \in Analysis, q \in Query, mine \in BOOLEAN :
       /\ n > 0 => mine
       /\ db = [monitor |-> [m \in Monitor |-> IF m <= n THEN NewMonitor(a, q, TRUE) ELSE NoRow],
                runs |-> [m \in Monitor |-> <<>>],
                outcomes |-> [m \in Monitor |-> <<>>],
                rules |-> [m \in Monitor |-> <<>>],
                analysis |-> [x \in Analysis |-> [status |-> status, workflow |-> "new", mine |-> mine]],
                query |-> [x \in Query |-> IF mine THEN CHOOSE c \in Content : TRUE ELSE NoRow],
                cache |-> {}, notes |-> {}, overlooked |-> {}]
    /\ committed = db /\ lock = "free"
    /\ session = [s \in {"tick", "manual"} |-> Idle]
    /\ request = Unasked /\ live = None /\ requests = 0 /\ clock = 0

\* A request that writes in one transaction, in which it reads again what it goes by.
Writes(new) ==
    /\ lock = "free" /\ requests < MaxRequests
    /\ db' = new /\ committed' = new /\ requests' = requests + 1
    /\ UNCHANGED <<lock, session, clock>>

\* A request that writes later than it reads.
Asks(kind, what) ==
    /\ request[kind] = None /\ requests < MaxRequests
    /\ request' = [request EXCEPT ![kind] = what] /\ requests' = requests + 1
    /\ UNCHANGED <<db, committed, lock, session, live, clock>>

Answers(kind, new) ==
    /\ lock = "free"
    /\ db' = new /\ committed' = new /\ request' = [request EXCEPT ![kind] = None]
    /\ UNCHANGED <<lock, session, live, requests, clock>>

-----------------------------------------------------------------------------
(* Rows of monitors and what hangs on them.                                 *)

\* Mutant: what analysts reported stays behind.
ForgetExceptOutcomes(d, M) ==
    [d EXCEPT !.runs = [m \in Monitor |-> IF m \in M THEN <<>> ELSE @[m]],
              !.rules = [m \in Monitor |-> IF m \in M THEN <<>> ELSE @[m]],
              !.overlooked = @ \ M]

\* The history and the rules of some ids go.  `overlooked` is history: the monitors that were
\* deleted without theirs.
Forget(d, M) ==
    [d EXCEPT !.runs = [m \in Monitor |-> IF m \in M THEN <<>> ELSE @[m]],
              !.outcomes = [m \in Monitor |-> IF m \in M THEN <<>> ELSE @[m]],
              !.rules = [m \in Monitor |-> IF m \in M THEN <<>> ELSE @[m]],
              !.overlooked = @ \ M]

WithoutRows(d, M) == [d EXCEPT !.monitor = [m \in Monitor |-> IF m \in M THEN NoRow ELSE @[m]]]

\* The cascade of delete_monitor and delete_analysis.
WithoutMonitors(d, M) == Forget(WithoutRows(d, M), M)

\* create_monitor looks the query and the analysis up, which must be the user's; that it is
\* completed is not asked.  The INSERT comes later and checks nothing.
AskMonitor(a, q) ==
    /\ committed.query[q] # NoRow /\ committed.analysis[a].status # "gone" /\ committed.analysis[a].mine
    /\ Asks("create", [analysis |-> a, query |-> q])

\* SQLite: one more than the largest id in use.
NextId == Max({0} \cup {m \in Monitor : Present(m)}) + 1

CreateMonitor ==
    /\ request.create # None /\ NextId \in Monitor
    /\ \E enabled \in BOOLEAN :
          Answers("create", [db EXCEPT !.monitor[NextId] =
                     NewMonitor(request.create.analysis, request.create.query, enabled)])

UpdateMonitor(m) ==
    /\ Present(m)
    /\ Writes([db EXCEPT !.monitor[m].enabled = ~@])
    /\ UNCHANGED <<request, live>>

DeleteMonitor(m) ==
    /\ Present(m) /\ Writes(WithoutMonitors(db, {m})) /\ UNCHANGED <<request, live>>

MonitorsOf(d, q) == {m \in Monitor : d.monitor[m] # NoRow /\ d.monitor[m].query = q}

\* delete_saved_query reads which monitors ask the query ...
AskDelete(q) ==
    /\ committed.query[q] # NoRow
    /\ Asks("delete", [query |-> q, ids |-> MonitorsOf(committed, q)])

\* ... and later forgets those, deletes all that ask it by then, and the query, which may
\* itself be gone: SQLAlchemy only warns.
DeleteSavedQuery ==
    /\ request.delete # None
    /\ LET q == request.delete.query
           ids == request.delete.ids
           late == MonitorsOf(db, q) \ ids
           d == Forget(WithoutRows(db, MonitorsOf(db, q)), ids)
       IN Answers("delete", [d EXCEPT !.query[q] = NoRow, !.overlooked = @ \cup late])

UpdateSavedQuery(q, c) ==
    /\ db.query[q] \notin {NoRow, c}
    /\ Writes([db EXCEPT !.query[q] = c]) /\ UNCHANGED <<request, live>>

\* delete_analysis: notifications and cached results go as well.
DeleteAnalysis(a) ==
    /\ db.analysis[a].status # "gone"
    /\ LET M == {m \in Monitor : Present(m) /\ db.monitor[m].analysis = a}
           d == WithoutMonitors(db, M)
       IN Writes([d EXCEPT !.analysis[a].status = "gone", !.analysis[a].workflow = "new",
                           !.notes = {n \in @ : n.analysis # a},
                           !.cache = {e \in @ : e.analysis # a}])
    /\ UNCHANGED <<request, live>>

\* The worker completes the analysis; an analyst sets its workflow state.
CompleteAnalysis(a) ==
    /\ db.analysis[a].status = "pending"
    /\ Writes([db EXCEPT !.analysis[a].status = "completed"])
    /\ UNCHANGED <<request, live>>

SetWorkflow(a, state) ==
    /\ db.analysis[a].status = "completed" /\ db.analysis[a].workflow # state
    /\ Writes([db EXCEPT !.analysis[a].workflow = state])
    /\ UNCHANGED <<request, live>>

-----------------------------------------------------------------------------
(* Feedback.                                                                *)

\* record_outcome keeps the drivers of the moment with the outcome.
RecordOutcome(m, o) ==
    /\ Present(m)
    /\ o.outcome = "root_cause_identified" => o.cause # None
    /\ LET drivers == ComputeRiskScore(SummarizeHistory(db.runs[m])).drivers IN
       Writes([db EXCEPT !.outcomes[m] = Append(@, [outcome |-> o.outcome, cause |-> o.cause,
                                                    drivers |-> drivers]),
                         !.monitor[m].outcome = o.outcome])
    /\ UNCHANGED <<request, live>>

\* create_suppression looks the monitor up, and writes no column of its row: unlike a run or
\* an outcome, its INSERT succeeds also when the monitor has been deleted since, and the next
\* monitor with its id has the rule.
AskSuppression(m, r) ==
    /\ committed.monitor[m] # NoRow /\ Asks("suppress", [monitor |-> m, rule |-> r])

CreateSuppression ==
    /\ request.suppress # None
    /\ LET r == request.suppress.rule IN
       Answers("suppress", [db EXCEPT !.rules[request.suppress.monitor] =
          Append(@, [kind |-> r.kind, value |-> r.value, until |-> clock + r.for])])

DeleteSuppression(m) ==
    /\ Present(m)
    /\ \E i \in DOMAIN db.rules[m] :
          LET kept == [j \in DOMAIN db.rules[m] \ {i} |-> db.rules[m][j]] IN
          Writes([db EXCEPT !.rules[m] =
                     [k \in 1..(Len(@) - 1) |-> IF k < i THEN kept[k] ELSE kept[k + 1]]])
    /\ UNCHANGED <<request, live>>

UpdateBaseline(m, b) ==
    /\ Present(m) /\ db.monitor[m].baseline # b
    /\ Writes([db EXCEPT !.monitor[m].baseline = b]) /\ UNCHANGED <<request, live>>

-----------------------------------------------------------------------------
(* _run_monitor.                                                            *)

Note(user, type, a) == [user |-> user, type |-> type, analysis |-> a]

\* Mutant: the owner who pressed "Run now" is an actor like any other.
DriftNotesForOthers(a, manual) ==
    IF manual THEN {} ELSE {Note(Owner, "drift_detected", a)}

\* The owner hears of a drift, also of one he found himself: there is no actor.
DriftNotes(a, manual) == {Note(Owner, "drift_detected", a)}

\* _emit_state_change_notifications: the actor is the owner, or the tick in his name.
ReviewNotes(a) ==
    IF Assignee[a] = None THEN {} ELSE {Note(Assignee[a], "review_required", a)}

\* Mutant: only resolved analyses are left alone.
ReopensDismissed(state) == state \notin {"resolved", "needs_review"}

Reopens(state) == state \notin Terminal \cup {"needs_review"}

\* _load_or_run_path_result: the first result ever found for this content, or a new one.
Found(d, a, c) == {ResultOf[c]}

\* The row of a run; `of` and `against`, the analysis and the content it was compared with,
\* are history.
Run(content, severity, row, result) ==
    [content |-> content, severity |-> severity, of |-> row.analysis,
     against |-> IF row.last = None THEN None ELSE row.last.content,
     outcome |-> result.outcome, primary |-> result.primary,
     impairments |-> result.impairments, confidence |-> result.confidence,
     delay |-> result.delay]

\* The run of monitor m, whose row the session saw as `row`.
AfterRun(d, m, row, content, result, manual) ==
    LET a == row.analysis
        previous == IF row.last = None THEN <<>> ELSE <<row.last.result>>
        severity == DetectDrift(previous, result)
        ran == [d EXCEPT
           !.monitor[m].lastRunAt = clock,
           !.monitor[m].last = [content |-> content, result |-> result],
           !.monitor[m].severity = severity,
           !.runs[m] = Append(@, Run(content, severity, row, result))]
        reopened == IF Reopens(d.analysis[a].workflow)
            THEN [ran EXCEPT !.analysis[a].workflow = "needs_review",
                             !.notes = @ \cup ReviewNotes(a)]
            ELSE ran
    IN IF severity \in Bad /\ d.analysis[a].status # "gone"
         THEN [reopened EXCEPT !.notes = @ \cup DriftNotes(a, manual)]
         ELSE ran

MayWrite(s) == lock \in {"free", s}
\* What a session reads: its own writes, or what is committed.
View(s) == IF lock = s THEN db ELSE committed

Sees(s, m) == m \in DOMAIN session[s].seen
RowSeen(s, m) == IF Sees(s, m) THEN session[s].seen[m] ELSE View(s).monitor[m]
Runnable(d, row) ==
    /\ d.query[row.query] # NoRow
    /\ d.analysis[row.analysis].status = "completed" /\ d.analysis[row.analysis].mine
Entry(a, c, by) == [analysis |-> a, content |-> c, by |-> by, at |-> clock]
Cached(d, a, c) == \E e \in d.cache : e.analysis = a /\ e.content = c

InOrder(M) == SelectSeq([i \in 1..Cardinality(Monitor) |-> i], LAMBDA m : m \in M)
EnabledMonitors == {m \in Monitor : committed.monitor[m] # NoRow /\ committed.monitor[m].enabled}

\* run_due_monitors reads all enabled rows at once, in the order of their ids.
StartTick ==
    /\ ~session["tick"].on
    /\ session' = [session EXCEPT !["tick"] =
          [Idle EXCEPT !.on = TRUE, !.todo = InOrder(EnabledMonitors),
                       !.seen = [m \in EnabledMonitors |-> committed.monitor[m]]]]
    /\ UNCHANGED <<db, committed, lock, request, live, requests, clock>>

StartManual(m) ==
    /\ ~session["manual"].on /\ committed.monitor[m] # NoRow
    /\ session' = [session EXCEPT !["manual"] =
          [Idle EXCEPT !.on = TRUE, !.manual = TRUE, !.todo = <<m>>,
                       !.seen = [x \in {m} |-> committed.monitor[x]]]]
    /\ UNCHANGED <<db, committed, lock, request, live, requests, clock>>

Rest(s) == Tail(session[s].todo)
\* The session s comes to monitor m and finds its row.
Turn(s, m) ==
    /\ session[s].on /\ session[s].todo # <<>> /\ m = Head(session[s].todo)
    /\ session[s].work = None
    /\ RowSeen(s, m) # NoRow
DueTo(s, m) == session[s].manual \/ IsDue(RowSeen(s, m).lastRunAt, 1, clock)

\* A monitor whose interval has not passed, as the tick saw it, is passed over.
Skip(s, m) ==
    /\ Turn(s, m) /\ ~DueTo(s, m)
    /\ session' = [session EXCEPT ![s].todo = Rest(s)]
    /\ UNCHANGED <<db, committed, lock, request, live, requests, clock>>

HasRoom == SumOf([x \in Monitor |-> Len(db.runs[x])], Monitor) < MaxRuns
Done(s) == session' = [session EXCEPT ![s].todo = Rest(s), ![s].work = None]

\* The session reads what the query asks, that the analysis is completed and whether the
\* result is cached; others may write before it writes.
Look(s, m) ==
    /\ Turn(s, m) /\ DueTo(s, m) /\ HasRoom
    /\ LET row == RowSeen(s, m)
           c == View(s).query[row.query]
       IN /\ Runnable(View(s), row)
          /\ session' = [session EXCEPT
                ![s].work = [analysis |-> row.analysis, content |-> c,
                             stored |-> Cached(View(s), row.analysis, c)],
                ![s].seen = [x \in DOMAIN @ \cup {m} |-> RowSeen(s, x)]]
    /\ UNCHANGED <<db, committed, lock, request, live, requests, clock>>

Working(s, m) == session[s].work # None /\ m = Head(session[s].todo)
Storing(s) == [db EXCEPT !.cache =
                  @ \cup {Entry(session[s].work.analysis, session[s].work.content, "user")}]
CachedSince(s) == Cached(db, session[s].work.analysis, session[s].work.content)

\* Otherwise the capture is parsed, and the commit that caches the result commits all that the
\* session did so far; from then on it reads its rows again.
Store(s, m) ==
    /\ Working(s, m) /\ ~session[s].work.stored /\ MayWrite(s) /\ ~CachedSince(s)
    /\ db' = Storing(s) /\ committed' = Storing(s) /\ lock' = "free"
    /\ session' = [session EXCEPT ![s].work.stored = TRUE, ![s].seen = <<>>]
    /\ UNCHANGED <<request, live, requests, clock>>

Reread(s, m) ==
    /\ Working(s, m) /\ session[s].work.stored /\ ~Sees(s, m) /\ RowSeen(s, m) # NoRow
    /\ session' = [session EXCEPT ![s].seen = [x \in {m} |-> RowSeen(s, x)]]
    /\ UNCHANGED <<db, committed, lock, request, live, requests, clock>>

\* The row that the session read is compared and written.  The query for the analysis flushes
\* the run first, so the analysis is read and written under the lock: the copy that
\* _load_or_run_path_result read is not referenced any more and is not used again.
RunMonitor(s, m) ==
    /\ Working(s, m) /\ session[s].work.stored /\ Sees(s, m) /\ MayWrite(s) /\ Present(m) /\ HasRoom
    /\ LET work == session[s].work IN
       \E result \in Found(db, work.analysis, work.content) :
          db' = AfterRun(db, m, RowSeen(s, m), work.content, result, session[s].manual)
    /\ Done(s)
    /\ lock' = s /\ UNCHANGED <<committed, request, live, requests, clock>>

RollBack(s) ==
    /\ db' = IF lock = s THEN committed ELSE db
    /\ lock' = IF lock = s THEN "free" ELSE lock
    /\ UNCHANGED <<committed, request, live, requests, clock>>

\* The query or the analysis is not there, not completed or somebody else's, or the capture
\* cannot be read: the tick rolls back and goes on with the next monitor, the manual run
\* answers with the error.
RunRefused(s, m) ==
    /\ \/ Turn(s, m) /\ DueTo(s, m) /\ ~Runnable(View(s), RowSeen(s, m))
       \/ Working(s, m) /\ ~session[s].work.stored
    /\ session' = [session EXCEPT ![s] =
          IF @.manual THEN Idle ELSE [@ EXCEPT !.todo = Rest(s), !.seen = <<>>, !.work = None]]
    /\ RollBack(s)

\* Any other error ends the request: the row is gone when it is read again or written, or
\* another session cached the same result first.
Unreadable(s, m) == RowSeen(s, m) = NoRow /\ (session[s].work # None => session[s].work.stored)
Unwritable(s, m) ==
    /\ session[s].work # None /\ MayWrite(s)
    /\ IF session[s].work.stored THEN Sees(s, m) /\ ~Present(m) ELSE CachedSince(s)

RunFails(s, m) ==
    /\ session[s].on /\ session[s].todo # <<>> /\ m = Head(session[s].todo)
    /\ Unreadable(s, m) \/ Unwritable(s, m)
    /\ session' = [session EXCEPT ![s] = Idle]
    /\ RollBack(s)

Commit(s) ==
    /\ session[s].on /\ session[s].todo = <<>>
    /\ session' = [session EXCEPT ![s] = Idle]
    /\ lock' = IF lock = s THEN "free" ELSE lock
    /\ committed' = IF lock = s THEN db ELSE committed
    /\ UNCHANGED <<db, request, live, requests, clock>>

-----------------------------------------------------------------------------
(* What the retention thread starts: one thing at a time.                   *)

Starts(what, a, c) ==
    /\ live = None /\ committed.analysis[a].status = "completed"
    /\ requests < MaxRequests /\ requests' = requests + 1
    /\ live' = [does |-> what, analysis |-> a, content |-> c, hit |-> Cached(committed, a, c)]
    /\ UNCHANGED <<db, committed, lock, session, request, clock>>

\* _has_recent_cache: by the time the entry was made, whoever made it, for any port.
HasRecentCache(c) ==
    \E e \in committed.cache : PairOf[e.content] = PairOf[c] /\ e.at >= clock - Cooldown

\* run_intelligence_scan for an anomalous pair; any completed analysis may name one of the
\* hosts.
ScanReads(a, c) == c \in Bare /\ ~HasRecentCache(c) /\ Starts("scan", a, c)

OwnerOf(d, a) == IF d.analysis[a].mine THEN Owner ELSE "other"
Impaired(result) == result.outcome = "failure" \/ result.primary # None

ScanNotes(a, result) == IF Impaired(result) THEN {Note(OwnerOf(db, a), "auto", a)} ELSE {}

\* The result and the notification of it are one commit, also when the analysis was deleted
\* since; when somebody cached the same result first, neither is written.
ScanStores ==
    /\ live # None /\ live.does = "scan" /\ lock = "free"
    /\ LET a == live.analysis c == live.content IN
       \E result \in Found(db, a, c) :
          db' = IF live.hit THEN [db EXCEPT !.notes = @ \cup ScanNotes(a, result)]
                ELSE IF Cached(db, a, c) THEN db
                ELSE [db EXCEPT !.cache = @ \cup {Entry(a, c, "scan")},
                                !.notes = @ \cup ScanNotes(a, result)]
    /\ committed' = db' /\ live' = None
    /\ UNCHANGED <<lock, session, request, requests, clock>>

\* The capture is gone or cannot be read: the next scan tries again.
ScanFails ==
    /\ live # None /\ live.does = "scan" /\ ~live.hit
    /\ live' = None
    /\ UNCHANGED <<db, committed, lock, session, request, requests, clock>>

\* auto_create_monitored_paths for a source at high risk and its usual destination, in the
\* name of user 1, the owner of this module, on whoever's analysis.
AutoReads(a, c) ==
    /\ c \in Bare
    /\ {q \in Query : committed.query[q] # NoRow /\ PairOf[committed.query[q]] = PairOf[c]} = {}
    /\ Starts("create", a, c)

AutoCreates ==
    /\ live # None /\ live.does = "create" /\ lock = "free" /\ NextId \in Monitor
    /\ \E q \in Query :
          /\ db.query[q] = NoRow
          /\ db' = [db EXCEPT !.query[q] = live.content,
                              !.monitor[NextId] = NewMonitor(live.analysis, q, TRUE)]
    /\ committed' = db' /\ live' = None
    /\ UNCHANGED <<lock, session, request, requests, clock>>

Tick ==
    /\ clock < MaxTime /\ clock' = clock + 1
    /\ UNCHANGED <<db, committed, lock, session, request, live, requests>>

Next ==
    \/ \E a \in Analysis :
          \/ \E q \in Query : AskMonitor(a, q)
          \/ \E c \in Content : ScanReads(a, c) \/ AutoReads(a, c)
          \/ DeleteAnalysis(a) \/ CompleteAnalysis(a)
          \/ \E w \in Terminal : SetWorkflow(a, w)
    \/ CreateMonitor \/ DeleteSavedQuery \/ CreateSuppression
    \/ \E q \in Query : AskDelete(q) \/ \E c \in Content : UpdateSavedQuery(q, c)
    \/ \E m \in Monitor :
          \/ UpdateMonitor(m) \/ DeleteMonitor(m)
          \/ \E o \in Outcome : RecordOutcome(m, o)
          \/ \E b \in Baseline : UpdateBaseline(m, b)
          \/ DeleteSuppression(m) \/ \E r \in Rule : AskSuppression(m, r)
          \/ StartManual(m)
          \/ \E s \in {"tick", "manual"} :
                Skip(s, m) \/ Look(s, m) \/ Store(s, m) \/ Reread(s, m) \/ RunMonitor(s, m)
                \/ RunRefused(s, m) \/ RunFails(s, m)
    \/ ScanStores \/ ScanFails \/ AutoCreates
    \/ StartTick \/ Commit("tick") \/ Commit("manual")
    \/ Tick

Spec == Init /\ [][Next]_vars

-----------------------------------------------------------------------------
(* Properties.                                                              *)

TypeOK ==
    /\ \A m \in Monitor : /\ db.monitor[m] # NoRow => db.monitor[m].lastRunAt \in -1..MaxTime
                          /\ Len(db.runs[m]) <= MaxRuns
    /\ lock \in {"free", "tick", "manual"}
    /\ lock = "free" \/ session[lock].on
    /\ requests \in 0..MaxRequests /\ clock \in 0..MaxTime

\* However runs, reports and deletions interleave, and whoever gets the id of a deleted
\* monitor next, no run and no outcome outlives its monitor; only a monitor made while its
\* saved query was being deleted leaves them, until a monitor with its id is deleted.
NoOrphanHistory ==
    \A m \in Monitor :
        ~Present(m) /\ m \notin db.overlooked => db.runs[m] = <<>> /\ db.outcomes[m] = <<>>

\* The capture never changes and results are cached for good: whatever two runs are
\* compared, a monitor can only find that its query was edited.
DriftNeedsEdit ==
    \A m \in Monitor : \A i \in DOMAIN db.runs[m] :
        db.runs[m][i].severity # "none" =>
            db.runs[m][i].against \notin {None, db.runs[m][i].content}

\* The owner of a monitor is told of every drift that demands action while the analysis it
\* was found in exists, whoever ran the monitor, and also when the row that the session had
\* seen had by then given its id to a monitor of another analysis.
DriftIsTold ==
    \A m \in Monitor : \A i \in DOMAIN db.runs[m] :
        LET run == db.runs[m][i] IN
        run.severity \in Bad /\ db.analysis[run.of].status # "gone" =>
            Note(Owner, "drift_detected", run.of) \in db.notes

\* A drift never takes an analysis out of the state in which an analyst closed it: not even
\* a batch that began, or a run that read the analysis, before.
ClosedStaysClosed ==
    [][\A a \in Analysis :
          committed.analysis[a].workflow \in Terminal =>
              committed'.analysis[a].workflow # "needs_review"]_vars

\* What a scan found to be broken and cached, its analysis' owner was told, whatever was
\* deleted or cached meanwhile.
ScanIsTold ==
    \A e \in committed.cache :
        e.by = "scan" /\ Impaired(ResultOf[e.content]) =>
            Note(OwnerOf(committed, e.analysis), "auto", e.analysis) \in committed.notes

\* A drift is real and is told: it comes from an edit of the query, and the owner hears of it;
\* and of what a scan found.
DriftsAreRealAndTold == DriftNeedsEdit /\ DriftIsTold /\ ScanIsTold
=============================================================================
