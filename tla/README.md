# TLA+ models of the network analysis platform

This directory holds TLA+ modules of the Python backend of the repository and of the sender of
its packet engine, TLC configurations that check them on small instances, and theorems that TLAPS
checks for every instance. Paths below are relative to the repository's `src/`, those of the Python
backend to `src/backend/`. `PROJECT.json` lists the runs, the source lines of every definition,
the hazards the properties are for, and the theorems.

1. [The system](#1-the-system)
2. [Modules](#2-modules)
3. [Runs](#3-runs)
4. [Fairness](#4-fairness)
5. [Proofs](#5-proofs)
6. [Where the code and its documents differ](#6-where-the-code-and-its-documents-differ)
7. [What is not modelled](#7-what-is-not-modelled)
8. [Plan](#8-plan)

## 1. The system

- **backend** (Python, FastAPI) is one uvicorn process. It stores uploaded captures and analyses
  them in a worker thread, collects logs and NetFlow from network devices, aggregates events into
  flows, turns flows into incidents, watches network paths, and serves the REST API. Handlers are
  plain functions, so each request runs in a thread of the server's pool; the database is SQLite by
  default, one session per request.
- **go-packet-engine** captures packets on an interface and posts flows to the backend.
- **go-backend** is a rewrite of the backend with the same routes. `docker-compose.prod.yml:2` says that
  the Python backend was decommissioned; it is the program modelled here, as the tests run it, and `archive/python-backend-final` is
  a copy of `backend`, file by file.
- **frontend** (Vue) only talks to the API.

### Components, state, operations

| Component | State | Operations | What makes it correct |
|---|---|---|---|
| Job queue (`jobs/queue.py`, upload and deletion in `main.py`) | rows of `analyses`, files, one worker, job threads | upload, enqueue, claim, run under a timeout, report, delete | a queued analysis ends; row, run and file agree |
| Triggered captures (`collector/pcap_trigger.py`) | running `tcpdump`s by key | trigger, monitor, insert a row | at most so many at a time; no row without its file |
| Collector (`collector/service.py`, `pipeline.py`, `listeners/`) | queue, buffer, token buckets, threads | start, receive, parse, flush, drain, stop | an event is in one place; stop drains; everybody is served |
| Log parsers (`collector/parsers/`) | none | claim a line, read its fields | what is read does not depend on what a relay put in front |
| Flow engine (`collector/flows.py`) | flow table | `process_event`, `flush_expired` | windows and counters are those of the events; a flushed flow is final |
| Live policy (`flow_correlation.py`, `baseline.py`, `live_risk.py`, `bridge.py`, `intelligence.py`) | none | behaviours, deviations, scores, patterns | more evidence never calms |
| Incidents and sessions (`incidents.py`, `sessions.py`, `rule_engine.py`, `threat_feeds.py`, `geoip.py`) | `live_incidents`, `attack_sessions`, indicators and their cache | scan, rules, status changes, suppression, feeds, correlation | one open incident per behaviour; serious ones are told; lists take effect |
| Capture analysis (`normalizer/`, `analyzers/`, `detection/`, `interpret/`, `core/`, `reporting/`) | the packets read so far and what is built of them | extract, normalize, analyze, suppress, merge, score, compare | exchanges are paired rightly; the parts of one report agree |
| Path analysis (`core/causal_path.py`) | none | hops, state, delays, impairments, comparison | its parts tell one story; more packets never undo a handshake |
| Path monitoring (`monitoring.py`, `main.py`) | monitors, runs, outcomes, rules, cached results | tick, manual run, edit, feedback, cascades | histories belong to their monitors; drifts are real and told |
| Investigation workflow (`main.py`) | state and assignee of analyses, feedback, triage, notifications | move, assign, judge, triage, delete, work queue | rights are current, assignees are told, open work is queued |
| Shared casework (`sharing.py`, `main.py`) | presets, queries, notes, rules | create, share, change, toggle, delete | lists show what may be read; scope and team agree |
| Feedback reports, live views (`calibration_metrics.py`, `main.py`) | none | lists, summaries, timelines, pages | reports over one table agree; paging misses nothing |
| Schema (`database.py`, `migrations/`) | tables and the revision | create, upgrade, downgrade | revisions apply after each other, up and down |
| Sender (`go-packet-engine/internal/sender`) | one batch | `Add`, `Flush`, `send` | every event is stored, or lost in one of two known ways |

### How they interact

Threads of the process meet in three ways. Through memory: the queue and buffer of the collector, the
flow table under the listener's lock, the cache of indicator look-ups. Through the database: the
retention thread (one tick a minute), the analysis worker, the tick of the monitors and every request
each have a session of their own; SQLAlchemy writes the columns that differ from what a session read,
whatever the row holds by then. Through files: captures are written before the row that names them and
deleted before the row. Calls go one way otherwise: the listener calls the pipeline, the pipeline the
flow engine, the retention thread the scan, the rules, the bridge and the captures they trigger.

### What is hard

Rights and states checked on a copy and written later; commits in the middle of what the caller takes
for one transaction; a job thread that goes on after its timeout; a consumer nobody joins; a buffer
emptied before an INSERT that may fail; one session for the runs of many monitors; ids given out again
after a deletion; cascades of thresholds over the same counters in several places that must not part;
schema changes that stop half-way. The list `hazards` gives each with its line.

## 2. Modules

| Module | Models | Remarks |
|---|---|---|
| `JobQueue` | worker, job threads, uploads, triggered captures, deletion, crashes | one action per transaction, critical section or system call |
| `Collector` | listeners, limiter, queue, consumer, timer, NetFlow, start and stop | |
| `LogParsing` | parsers, NetFlow templates | used by `Calculations` |
| `FlowTable`, `FlowLabels`, `FlowEngine` | flow table, labels, the engine | both operations run under one lock: a step each |
| `FlowLedger` | what aggregation promises | abstract; `FlowEngine` implements it |
| `LivePolicy` | behaviours, deviations, risk, patterns, severity, priority, intent, conditions of rules | operators |
| `LiveIncidents` | the tick of the retention thread and the handlers around it | extends `LivePolicy` |
| `Capture` | extraction, normalization, sessions and exchanges | state machine, a line a step |
| `Detectors`, `Exposures` | every rule of every analyzer | operators over a capture |
| `Readings` | interpretation of sessions, host profiles, timeline, stories, quality | operators |
| `Analysis` | suppression, merging, report, self-checks, trust, comparison | state machine, extends the four above |
| `CausalPath`, `PathReview` | path analysis; a capture that grows | used by `Calculations` |
| `MonitorPolicy` | drift, history, advice, digest | operators |
| `Monitors` | monitors, the tick, manual runs, feedback, cascades | extends `MonitorPolicy` |
| `FeedbackReports`, `LiveViews` | reports over feedback; views of events and flows | operators |
| `Calculations` | composes the modules of operators by `INSTANCE` | one subject per behaviour |
| `Workflow` | state, assignee, feedback, triage, notifications, work queue | handlers split where another request can run |
| `Sharing` | presets, queries, notes, suppressions, correlation rules | likewise |
| `SchemaModels`, `SchemaMigrations`, `Schema` | the tables of the models, the 26 revisions, the commands | |
| `PacketSender` | the sender, the POST, the ingest handler | |
| `CollectorProofs`, `MonitorsProofs`, `LiveIncidentsProofs`, `WorkflowProofs`, `SharingProofs`, `CalculationsProofs` | theorems | each extends the module it is named for |
| `TrafficProofs` | theorems on `PacketSender` and `FlowEngine` | from a packet to a stored row |
| `AnalysisProofs` | theorems on `JobQueue` and `Capture` | from an upload to its exchanges |
| `MC*` | instances for TLC | |

### State and actions against the code

*JobQueue.* `row` is a row of `analyses` (status, whether `current_stage` is set, progress, the second
of `created_at`), `file` the files on disk, `maker[j]` where the request or capture is that creates j:
saved, inserted, and enqueued in two steps, since `enqueue` reads the row and writes it. `run` holds
every job thread ever started: `Progress` and `PipelineEnds` go on after `JoinTimesOut`, as nobody
stops the thread. Two captures of one pair of addresses and one second have one file name. `Crash`
keeps rows and files only. A commit or `json.dumps` that raises in the worker is swallowed by
`run_forever` (`queue.py:120`): `ClaimIsLost` and `OutcomeIsLost` leave the row "running" with nobody to
hold it, and a `Progress` that fails is an error of the run. `seen` is history.

*Collector.* `queue`, `consumer.event`, `netflow.event` and `buffer` are the places of an event;
`fate[e]` says how far it got. A line is taken from the queue, parsed, and buffered in three steps of
the consumer; `TimerFlushes` and `DrainLine` run under the listener's lock, `ReceiveNetflow` does not.
A flush empties the buffer and may lose all of it. A parser may raise (`OverflowError` of a time that is
no date, `fortigate.py:181`, `generic_kv.py:234`) and nobody catches it: in the consumer it ends the thread, which
nothing starts again, so that the queue fills up and refuses; in the drain it ends `stop()` before the last
flush. `Connect` covers accepting a TCP connection, a pool
thread taking it, and the peer closing it.

*FlowTable, FlowEngine.* A flow is its window, the set of its events, one counter per action, and the
bytes of each direction. The eviction takes a set of oldest flows of the right size. Event times come
from devices and are arbitrary integers.

*LiveIncidents.* `loop` is the retention thread: `FlushFlows`, `ApplySuppressions`, `StartScan`, then
`Touch` and `Boost` for each behaviour, `CommitScan`, `RunRules`, `Sleep`. Flows keep the times of the devices,
marking reaches back ten minutes from now (`bridge.py:141`), and `FailMarking` is its swallowed exception, after
which the rules run on rows that are not marked. Entries of the look-up cache live for `Ttl`, which is
several ticks in the code (300 s and 60 s). `db` is what is committed,
`loop.work` what the scan wrote since; the geo look-up inside `Touch` commits. While the scan holds
the write lock (`loop.held`) no handler writes. `FailScan` is an exception that the tick swallows.
`edit` is a status handler between read and write, `query` a look-up between its query and its entry
in the cache, `feed` a refresh between its commit and the clearing of the cache. The fields `told`,
`whole`, `cut`, `stale`, `reopened` of a row are history: it was notified, its last write went through
both halves, an earlier one did not, its priority came from an older read, an analyst opened it again.

*Capture … Analysis.* `Normalize` reads one line: tshark may fail, be retried, and deliver malformed
lines; a packet goes to its flow, its session and its exchange. `Analyze` runs every rule, `Finish`
marks, merges and reports, `NextCapture` goes on to a longer capture, with which the report is
compared. The report keeps what `core/pipeline.py:287-293,363` keeps: the most anomalous hosts, the largest sessions
and the first events of the timeline (100, 200, 1000); the self-checks see what was kept. Names, payloads and user
agents are attributes of a packet.

*CausalPath.* The engine is a function of query, packets and flows. Sentences become sets of tokens.
A part of a capture keeps the positions of its packets, so that "the first of equal times" is told by
position as Python's stable sort tells it, and no list has to be filtered.

*LiveViews.* A page is the set of rows with a rank in its range; the rank of a row is the number of rows
that the ORDER BY puts before it.

*LogParsing.* The templates of NetFlow are kept under the source id of the header and the template's id
(`netflow_listener.py:103`), whatever exporter sent it; `decoded` is what the last packet gave. `announced` and
`due` are history: what each source told last in the packets before, and the records that should have been
decoded of this one, each with the layout its source told last before it, looked up backwards in the packet and
then in `announced`. `Restart` is a new listener, whose cache is empty: what was told before counts no more.

*Calculations, the event list.* `list` is the state of `LiveEvents.vue` (rows shown, `offset`, `total`), `asked` the
requests on their way. `Refresh` and `LoadMore` send a request, `CountRows` and `ReadRows` are the two queries of the
handler, `Answer` and `Fail` end it, in any order, while events come in and retention deletes.

*Monitors.* `AskMonitor`, `AskDelete` and `AskSuppression` are the checks of handlers that write later;
`overlooked` are monitors deleted without their history, since `delete_saved_query` had listed the ids (`main.py:3205`)
before they existed. A run reads the analysis without a lock (`Look`, `main.py:1831`), computes, and reads it again
under the lock it writes with (`Reread`). The code does so although no line says it: the query at line 3514 flushes the new
run, since `SessionLocal` flushes by itself (`database.py:43`), which takes SQLite's write lock, and the row read
at line 1831 was a local of a function that returned, so the identity map of the session, which holds rows
weakly, has it no more and the query reads it again. `db` is the database as the holder of SQLite's write lock sees it, `committed` as everybody
else does; `View(s)` is what session `s` reads. `session[s].seen` are the rows a session read and still
uses: a commit expires them. `RunCached` takes a result from the cache; otherwise `Parse` reads the
capture while others write, and `RunParsed` commits the result to the cache, and with it all that the
session did before. `RunRefused` is an `HTTPException`, which rolls back and goes on; `RunFails` any
other error, which ends the tick. The retention thread shares cache and monitors: `ScanReads`,
`ScanStores` and `ScanFails` are an analysis started for an anomalous pair (`intelligence.py`),
`AutoReads` and `AutoCreates` a monitor made for a source at high risk (`bridge.py:483`); `live` is
what it has begun. `Bare` are the contents such a pair can ask for. The fields `of` and `against` of a
run are history: the analysis it looked at and the content it was compared with.

*Workflow, Sharing.* A request is idle, or holds its operation, its user and the copy it read, or is
done. `writes` counts the writes to a row, so that "somebody wrote in between" can be said; `moved` is the
write that last changed an analysis' state. Ids of rows are given out again in `Sharing`: `born` is the write that made
a row, `mistaken` are rows written by a request that had read an earlier row of the same id, `crossed` those
whose scope and team come from two administrators' changes that crossed, `byAdmin` those whose scope
an administrator changed last.

*Schema.* A command is a list of statements. On PostgreSQL a command that fails is undone, on SQLite
what is done stays. `apart` is history: something other than a completed command left its mark.

*PacketSender.* `batch` is `Sender.batch`, `inflight` the slice a running `Add` or `Flush` sends, `late`
the POSTs given up by the client that may still be stored. `Unreadable` are events the handler cannot
make a row of: it goes on with the others and answers 200 (`main.py:5002`); `skipped` are those it passed over.

## 3. Runs

Eleven passing runs and one violation. TLC visits all reachable states of each passing run.

| Run | Instance | Distinct states | Shows |
|---|---|---|---|
| `sender` | 3 flows, one of them unreadable, batches of 2, 3 failed POSTs | 17 thousand | `AccountedFor`; `BufferedIsStored` under fairness |
| `jobs` | 2 analyses, uploads or captures, 2 threads each, a crash or an exception of the worker | 1.04 million | `RowRunAndFileAgree`, `FinishedStays`; `QueuedIsFinished` under fairness |
| `flows` | 8 events of 3 keys or none, table of 1, 4 times | 4.7 thousand | `WindowsAndCounters`, `LabelsAgree`, `ImplementsLedger`; no deadlock |
| `collector` | 3 lines of 2 devices, a NetFlow record, queue of 1, pool of 1, 2 connections, parsers that may raise | 443 thousand | `EventsInOnePlace`, `StopDrains`; `EverybodyIsServed`, in part under fairness |
| `monitors` | 2 monitors, 1 query of 2 contents, 2 runs, 2 requests or scans | 1.76 million | `NoOrphanHistory`, `DriftsAreRealAndTold`, `ClosedStaysClosed` |
| `incidents` | 2 sources, 3 ticks, 2 incidents, 3 requests, crashes or failures | 4.34 million | `NoTwins`, `ToldAndPriced`, `ListsTakeEffect` |
| `workflow` | 2 users, one of them administrator, 2 analyses, 3 requests | 1.18 million (up to symmetry) | `AssigneeWasTold`, `OpenWorkIsQueued`, `StaleRightsNeedOverlap`, `DecisionsStand` |
| `casework` | 5 users of 2 teams or none, 1 id, 5 requests | 355 thousand (up to symmetry) | `ListedIsReadable`, `ScopesAreSound`, `GlobalByAdmins` |
| `schema` | 5 commands, 2 of them killed, both databases | 1.3 million | `RevisionsApply`, `HeadFitsModels` |
| `analysis` | captures of 3 lines out of 13 kinds of packet, 2 attempts | 214 thousand | `ExchangesPaired`, `FindingsAgree`, `VerdictsAgree`, `RegressionsTold` |
| `calculations` | ten subjects, 2 to 5 rows each | 710 thousand | the ten properties below |
| `analysis_beacons` | 6 packets of one host to two addresses | | violation of `UnmatchedStayActive` |

`calculations` asks ten questions: a prefix never changes what is read of a line
(`PrefixNeverMatters`), parsers agree which traffic passed (`ActionsAgree`), NetFlow data is read by
the last template of its source and by no other (`OwnTemplate`), the parts of a path analysis agree (`HopsAgree`,
`DiffsAgree`) and more packets never undo a verdict (`VerdictGrows`), reports over one table agree
(`ReportsAgree`), paging misses nothing (`PagingMissesNothing`), no advice demands action at the lowest
priority (`NoActionMeansNone`), and more evidence never calms (`EvidenceNeverCalms`).

### Bounds

Every bound is a constant named in its module.

- *Sender.* With batches of two and three flows an `Add` both buffers and fills, a requeued batch
  meets new events, one of them unreadable, and `MaxFaults = 3` failures are a failed flush, its failed retry and one more.
- *Jobs.* Two analyses are one that runs and one that waits. `MaxRuns = 2` threads of one analysis are
  a thread given up and the next one; one stage puts a report between claim and end; one fault,
  a crash or an exception, separates what was before from what is after. Captures share a name and differ in their key.
- *Flows.* Times on both sides of the timeout with one event beyond the clock and several ties;
  bytes on both sides of the limits of a probe; a table of one makes a flush evict two.
- *Collector.* A queue of one makes the queue refuse; two lines of one device against one of another
  meet the shared bucket of two tokens; a pool of one makes a connection wait; `MaxTime = 1` refills
  the buckets once. Four events leave one in each place at the same time.
- *Monitors.* Two monitors are one that is rolled back with the error of the other. `MaxRuns = 2` are two
  runs of one, compared with each other, or one of each; two requests are an edit and a deletion, a
  deletion and a creation under the same id, or a scan and a deletion. The analysis engine is
  deterministic, so a content is its result. `Cooldown = 0` with one tick of the clock meets a cache
  row on both sides of it. The analysis may belong to somebody else where no monitor exists yet.
- *Incidents.* Three ticks at 0, 10 and 20 minutes with a merge window of 10 and sessions that idle at 5
  and close at 10 meet every boundary. A flow may be dated 15 minutes back, which is before the marking window and
  within the rule's. `Ttl = 15` lets an answer of the cache outlive one tick and not two. Two incidents are a pair of twins. Three requests are a status
  change that overlaps a scan, a rule added and taken back, or a refresh and a look-up. The criticality
  of the asset is medium, so that a severity rises by repetition and not only by the boosts.
- *Workflow.* Three requests are a reader, a writer and one that acts on what the writer did. Two
  analyses compete for the one place of `AlertLimit = 1`. The states requests ask for are reduced to
  "in_progress"; the others are reached by verdicts.
- *Casework.* One id suffices as items do not interact; it is reused by items of all five kinds. Five
  requests are a creation, two overlapping updates, a deletion and a creation under the same id.
- *Schema.* The chain up, down and up again takes three commands; two more are a start of the
  application and one that is killed anywhere.
- *Analysis.* Three packets are a handshake, or a request, its answer and a packet in the wrong
  place; the limits of `Limit` are so low that every rule fires, and the report is cut to two hosts, two sessions and four events. Two attempts are a tshark that
  fails and one that does not.
- *Calculations.* Rows on both sides of every band and threshold; `MaxRows` per subject is given in
  `MCCalculations`. The event list has pages of one row, three rows and two requests on their way
  (`MaxAsked`): a refresh that overtakes a page, and the other way round.

`CHECK_DEADLOCK FALSE` stands where a bound stops the system (requests, runs, time) or the program
itself ends (the collector's process, a reported analysis). `flows` is checked for deadlock. Symmetry
is used in `workflow` (requests, analyses) and `casework` (requests) only, whose properties
are safety and treat these values alike.

## 4. Fairness

- *Sender.* Weak fairness of the main goroutine, of the backend's handling of a POST and of the ticker:
  the HTTP client has a timeout and the ticker fires for ever. Failures are bounded by `MaxFaults`,
  which is the assumption "POSTs stop failing" that `BufferedIsStored` needs.
- *Jobs.* Weak fairness of the worker's steps (`Work`): its loop sleeps and looks again, and `join`
  returns after its timeout. Job threads need none: a run that hangs is what the timeout is for.
  Requests, captures and crashes may stay away.
- *Collector.* Weak fairness of the consumer, the flush timer, the NetFlow receiver with a record in
  hand, and the main thread while it starts or stops: threads of one process that are never blocked
  for ever. Nothing is assumed of devices, of peers that keep a connection open, of the clock, and of
  when the process is told to stop.
- The other modules state safety only and need none.

## 5. Proofs

Eight proof modules, checked by TLAPS from the named `ASSUME`s of the modules only: types of the
constants, finite `Event`, `Srcs` or `User`, positive sizes, `Admin \subseteq User`, the order of the
windows, which are constants of the code. Every inductive invariant was first an invariant of a run.
Each proof has a lemma per action, under it a step per part of the invariant that the action can
disturb, and generic lemmas for the parts it leaves alone.

*TrafficProofs, the sender.* For any number of flows, batch size and number of failures: `SenderTypes`,
`BatchStaysBelowLimit`, `NothingVanishes`. The inductive invariant `SenderIInv` adds to the types that
the batch is empty while `Add` sends, that no flow waits to be added between two ticks, and that a POST
is accepted only after each of its events was stored or passed over. The batch stays below the limit because what is in flight
was below it and is alone when it is put back. `NothingVanishes` is an action property: an event leaves
the slice in flight only into the batch, into `dropped`, after it was stored, or after the handler could not
read it, which is where the last conjunct is needed.

*TrafficProofs, the flow engine.* For any set of events, keys and capacity: `FlowTypes`, `FlowWindows`,
`FlowCounters` and their conjunction, `FlushBounds`, `OldestEvicted`, `LabelsAlwaysAgree`,
`LabelsOnlyMoveOn`, and `EngineImplementsLedger`. The inductive invariant `IInv` adds to the types
that the table is a function on finitely many keys, that every event of a flow has the flow's key, that
windows are those of the events, open or flushed, and that counters count them. The refinement maps
`open` to the events of the table and `closed` to the event sets of the rows: an event is an `Observe`, a
flush a `Close` of the keys flushed, everything else a stutter. The labels agree by cases on the
counters alone, so for all naturals, not just those that four events produce. `LabelsOnlyMoveOn` says which
labels may follow which, and that one of them does where the code denies it (section 6).

*AnalysisProofs, the job queue.* For any number of analyses, threads, captures, crashes and exceptions: `RowsRunsFiles`
and `FinishedRowsStay`. `JobIInv` adds to `RowRunAndFileAgree` that an analysis has no run before its row is
inserted, that one which is pending after a run was requeued by a late `enqueue`, that the worker holds
nothing finished, and that the file is there from the moment it is saved: the last two are what a claim
and a deletion need of the steps before them. `MaxOfNaturals` (the oldest row the worker looks for
exists) is proved from the well-foundedness of finite sets, since the induction theorems take operators.

*CollectorProofs.* For any devices, lines, limits and sizes: `OnePlaceEach`, `DrainedAtStop`,
`NoisyDevice` (the safety half of `EverybodyIsServed`), `CollectorTypes`. `IInv` says of each place what
it holds (`Places`: the queue has no line twice, the consumer's line left the queue, the NetFlow record
was never there), that threads run only while the main thread lets them (`ThreadsFollow`), that no
datagram is in the queue after the drain, and that one found in the buffer after the last flush was
brought by the consumer that nobody joins (`LastComer`), which is why `StopDrains` says "up to one line".
A raised line is one more place, and `RaisedEndsThread` says which threads it cost.
`NoisyDevice` rests on `BucketsAgree`: every token taken from a sender's bucket was taken from the
global one, hence few devices empty the global one only together with their own.

*MonitorsProofs.* For any monitors, analyses, queries, results and requests: `HistoryGoesWithMonitor`,
`DriftsRealAndTold`, `ClosedIsClosed`. `IInv` holds of the database twice, as the holder of the lock sees
it and as it is committed (`Sound(db)`, `Sound(committed)`), since a rollback goes back to the second;
`ClosedAgree` says that an analysis closed in what is committed has the same workflow in what the lock holder
has written, and `SessionsGood` that the rows a session goes on using were rows once; `NoOrphans` excepts the
monitors in `overlooked`. `ClosedIsClosed` rests on the second reading of the analysis, as explained in section 2. The attempt showed that "the owner of a drift was told of the
monitor's analysis" is false: a session's stale row may belong to a monitor whose id was meanwhile given to
another analysis. The drift is told for the analysis that was read, and the property says so (`of`).

*LiveIncidentsProofs.* For any sources, flows, rules, windows, assets, baselines, thresholds and
failures: `NoTwinsEver`, `ToldAndPricedAlways`, `ListsAlwaysTakeEffect`. `IInv` says of what is committed
and of what a scan has written since (`DbGood`) that rows are priced and told and that twins are far
apart; of the row between the two halves of a write that what it was told before is on record
(`HalvesAreSound`); of a quiet source that its rows can be marked, then are marked, or were when the marking failed, and that no behaviour
of it is in the list (`QuietIsSound`); of a look-up in flight that it is right or knows it was overtaken
(`CacheIsSound`). `RowReplaced` is the heart of the first theorem: a row is written again only when found
in the merge window, in which no later row of its kind begins. `SessionsCorrelated` is that of the
second half: a source gets a session only when the same call closes those it has. Three properties held
in the instance only, and the proofs showed how; each now says what the code does:
  - a scan cut off after a geo look-up leaves a row that the next scan takes for known. A severity that
    was reached in the half-written row is then never notified, unless it rises again (`cut`);
  - a rule whose cooldown is shorter than the merge window makes a twin, and the next scan goes on with
    the first of the two;
  - a rule for destinations may make an incident that names a suppressed source, as a destination.

*WorkflowProofs.* For any set of users, analyses and requests: `WorkflowTypes`, `AssigneesTold`,
`NoticesLead`, `StaleRights`, `Decisions`, `OpenWorkQueued`. The inductive invariant `IInv` adds to the
types that a request's argument fits its operation (`ArgsFit`) and that a request in progress had the
right it needs on its copy, which is still what the row says while `seen = writes` (`Checked`).
`StaleRights` and `Decisions` are action properties that follow from `Checked`: without an overlap the copy
is fresh, so the right is current; and without a move of the state in between (`moved`), whatever else was
written, the state on the copy is the current one (`StateIsKnown`). `NoticesLead` excepts the alerts of feedback, which
a request may send for an analysis deleted while it was handled. `AssigneesTold` needs `NoticesLeadSomewhere` for a deleted analysis made
anew. `OpenWorkQueued` needs the types only: the sections of the queue are a partition (`OneSection`).

*SharingProofs.* For any users, teams, items and requests: `SharingTypes`, `ListsReadable`,
`ScopesSound`, `GlobalChanges`. `Checked` says that a request in progress had the right it needs on its
copy, and that the copy is the row while nobody wrote in between; `ScopesFit` that a scope is one of its
row's kind, without which the lists and the check of a single row part ways. That two updates which cross leave
a team on a row that is not the team's in one order only (`crossed`) comes from comparing what each writes with
what the other read: SQLAlchemy writes the columns that a request changed, and these only.

*AnalysisProofs, the capture.* For any packets in any order: `AnswersFindQuestions`. The exchanges are built
packet by packet; the invariant ties each to the packets read so far: a question waits under its
transaction until it is answered or asked again, and what is listed was asked before it was answered.

*CalculationsProofs.* Nine of the ten properties of `calculations`. Assumed of the constants: a line has
the parts every line has, times are integers, a page has at least one row, flowsets and rules come in
sequences, a rule is of one of the kinds that `main.py` admits (`VALID_SUPPRESSION_KINDS`), thresholds are
naturals, and the columns of stored flows and incidents that are counted hold numbers in their range.
  - `PrefixesNeverMatter`, `ParsersAgree`: for any lines. `LinesIInv` ties the event to the line read last;
    the rest is the tables of the parsers, word by word.
  - `TemplatesAreOwn`: for any packets with any flowsets, and restarts. `TemplatesIInv` says that every template in
    the cache is the last one that its source, and only it, announced, up to every flowset of a packet, and
    that what was decoded so far is what was due. A packet is read flowset by flowset
    by a recursive function, so the proof first shows that the recursion has a value at each step
    (`RecursionExists`, from the well-foundedness of the naturals) and then what each step keeps.
  - `VerdictsGrow`, `DiffsAlwaysAgree`, `HopsAlwaysAgree`: for any captures. `PathsIInv` ties the result on
    record to the packets captured. A verdict depends on the first packets of some kinds; a packet more
    may become the first of its kind, but never makes a kind empty. The proof of the hops
    showed a premise that the property lacked: `build_hop_sequence` looks at no port, the verdict does, so
    a client that has the port asked for on its own side is shown as an attempt that the
    verdict does not know. `HopsAgree` now says `PortIsServers`, and the run has such a packet.
  - `PagingMissesNoRow`: for any rows, times, size of a page and number of requests on their way. `PagesRead` says
    of the list, and of every answer on its way, that whoever was there at the first page, is still there
    and was not shown yet has a rank of at least the number of rows shown: a row that comes in can only
    raise the rank of others, retention takes rows from the end of the list and leaves every rank, and a
    page with a row behind it is full, so the list grows by exactly its size. When the list is
    as long as the total there is no such rank left, unless the total was counted before a row came in.
  - `NoActionEverMeansNone`: for any runs, outcomes, baselines and sequences of rules. `Advice` is kept by
    each stage of the pipeline and each rule. That the decision itself starts in it rests on
    `ReturnPathIsSevere`: a return path problem that recurs is among the severe recurring impairments, so
    it never demands action at a priority that was not raised.

  - `MoreEvidenceNeverCalms`: for any flows and incidents in any order. What is counted of a source before
    and after a blocked flow is compared count by count (`MoreBlocked`), and every score and threshold of
    `LivePolicy` is shown to follow. The incidents of a session are read compressed and in order: the
    rows after one more incident continue the rows before it (`Continues`), so the greedy search
    of an attack finds its stages where it found them, and the intents that need an order only gain
    confidence. `TablesIInv` says that the table holds flows or incidents, which is all the rest needs. The
    attempt showed that the property was true by the bounds of the instance: a blocked flow that makes
    a suspicious source one that moves laterally can lower its risk score, and can clear a pair
    of hosts that the suspicion had marked. `NeverCalmer` now speaks of sources still taken for what they were.

Only model-checked:
  - the liveness properties (`BufferedIsStored`, `QueuedIsFinished`, the other half of
    `EverybodyIsServed`), which are beyond the prover;
  - `RevisionsApply` and `HeadFitsModels`: the tables come from folding the statements of 26 revisions,
    which the prover would have to execute;
  - `FindingsAgree`, `VerdictsAgree`, `RegressionsTold`, `ReportsAgree`: they compare sums
    and counts over findings and rows. That a sum over a set grows with the set, or is
    the sum over its parts, needs induction over the set for an arbitrary summand, and the induction
    theorems of the library take an operator that the provers cannot instantiate.

That an invariant holds in every state does not say that it is reached: the runs do.

## 6. Where the code and its documents differ

With a run:

- `analysis_beacons`: `detection/engine.py:279-282` merges findings of one rule and one first host after
  suppression marked some of them and keeps the first or higher scored: a beacon to another address,
  which no rule matches, disappears into the suppressed finding. `rules/suppression.yaml:3` says
  "Matching findings will be marked suppressed: true rather than deleted.": of those that match.

Read in the code, each modelled as the code has it where it is modelled:

- *Analysis.* ARP-001 never fires: `analyzers/security.py:109` skips frames without IP before line 113.
  DOS-001 ("without completing the handshake") does not look at handshakes. The profiler's "High
  connection failure rate" cannot exceed one half (`profiler/host.py:216-222`), trust "High" is out of
  reach (at most 80 points), TLS-004 and TLS-005 never fire. Interpretation tests "TLSv1" where the
  extractor writes "TLSv1.0". DNS-002 and DNS-004 use thresholds other than the YAML's. Suppressed
  findings appear in timeline and stories, which are told before suppression; one whitelisted host
  suppresses a finding that aggregates many. `core/sanity.py:45,143` looks for the host of a finding among
  the 100 hosts the report keeps, so in a larger capture a finding on a calm host is reported as a
  contradiction (SANITY-006); `NoContradictions` says that this is the only way to it. `/api/analyses/compare` (`main.py:1069`) is
  shadowed by `/api/analyses/{analysis_id}` (`main.py:474`).
- *Path analysis.* Evidence says "SYN packet observed" for a path without an attempt; the direction of a
  RST depends on capture order; the hops look at no port, as section 5 tells. Only the tests call
  `build_hop_sequence`; `analyze()` returns the two addresses (`causal_path.py:1409`).
- *Schema.* Revision 003 alters tables that no revision creates, so on an empty database
  `alembic upgrade head` fails until the application has created them; `install.sh:266` reports
  "Database migrations complete."
- *Sharing.* `sharing.py:8` says "team — visible to every user in the same team as the owner"; the notes
  of an analysis are reached through `_get_or_404`, which lets only its owner in. An administrator who
  shares another's item with a team shares it with his own (`main.py:3189,5277`), so the author may lose
  it. Two administrators' updates that cross, one between private and global and one to team, leave
  a team on a row that is private or global. `delete_saved_query` leaves the history of a monitor that was
  made after it had listed the ids, and a monitor that gets the id inherits it; so does one that gets
  the id while `create_suppression` is between its check and its insert.
- *Workflow.* "never override a deliberate resolved / dismissed / needs_review set by an analyst"
  (`main.py:2360`): it does when the state is set while the verdict is being handled.
- *Flows.* "its state will not revert" (`flows.py:26`): an allow after a deny makes it "completed".
- *Work queue.* "Sections are disjoint" (`main.py:766`): a resolved analysis with an incorrect verdict is
  in `recent_feedback_alerts` and in `recent_resolved`.
- *Monitors.* "Errors on one monitor are swallowed" (`main.py:3569`): the rollback at line 3586 also takes
  back what earlier monitors of the batch did and had not committed, and an error that is no
  `HTTPException` ends the batch. "the monitor owner must also own the captured analysis — we already
  check this at create time" (`main.py:3453`): `auto_create_monitored_paths` gives monitors to user 1 on
  anybody's analysis, which then answer 404 at every tick. "A 30-minute cooldown prevents re-running
  expensive PCAP analysis" (`collector/intelligence.py:16`): the cooldown is that of the cache's row, which a
  capture that cannot be parsed never gets, so it is parsed again by every scan.
- *Digest.* Only five of six headlines can be shown.
- *Feedback.* "underconfident" means different things in the calibration endpoint and in the metrics.
  `list_path_feedback` requires ownership, its docstring (`main.py:2441`) does not.

- *Ingest.* An event that raises is passed over and the answer is 200 (`main.py:5002`), so the sender forgets it.

Behaviour worth knowing that no document denies: `correlate_sessions` is called by no production code;
one more incident of another kind can lose an intent that needs a share of the incidents; a blocked
flow that changes what a source is taken for can lower its risk score or clear a pair of hosts; incidents of rules are neither
boosted nor notified; suppression marks the rows of the last ten minutes only; live flows are never
purged; a crash, or an exception of the worker, leaves rows "running"; a parser that raises
ends the consumer, and nothing starts it again; a page of the event list that comes after a refresh is put at the
end of the new list; a request of either kind that ends enables the button of the other; a run that timed out goes on; the consumer is not joined; TCP
connections that idle starve the others and keep the process from exiting; the dictionary of rate
buckets is unbounded; active flows are not flushed at stop; a look-up of a place makes network calls
while the scan holds SQLite's write lock.

## 7. What is not modelled

- *Report rendering* (`reporting/html_report.py`, `reporting/investigation_package.py`): HTML and text
  made of values that are modelled where they are computed. `core/analyzer.py` and `core/tshark.py` are
  imported by tests only.
- *Authentication, configuration, telemetry*: signed tokens without state on the server, environment
  variables, a counter. Handlers take the user of a request as given.
- *Wording*: sentences of findings, stories and narratives are left out, or stand as sets of tokens.
- *Statistics for charts* of the analyzers, and the entropy and look-alike measures of names.
- *Purging and seeds*: default rules and default users.
- *Packet engine in front of the sender*, *go-backend* apart from its ingest handler, *frontend* apart
  from the requests of its event list, *deployment*, and the *archive*, of which the same holds as of `backend`.
- *The half-migrated states* that a kill, or `init_db` beside alembic, leaves: the runs reach them (`apart`), and
  `RevisionsApply` and `HeadFitsModels` say nothing of them, as the code promises nothing there.
- *Ratios* are compared exactly, where the code rounds to a few digits.
- *A lost link* between an incident and its captures (`pcap_trigger.py:209`) and *duplicates of a
  POST* are hazards without a property: no code promises their absence.

## 8. Plan

1. Proofs: the sums over findings and rows, with induction theorems for functions instead of operators.
2. The packet engine from the interface to the sender, composed with `PacketSender`.
3. The rankings of drivers across monitors.
