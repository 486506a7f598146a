---------------------------- MODULE Calculations ----------------------------
(***************************************************************************)
(* What the backend works out of data without changing it, one subject per *)
(* behaviour: the reading of log lines and NetFlow packets (LogParsing),   *)
(* the review of a path between captures (PathReview), the reports over    *)
(* feedback (FeedbackReports), the views of live events (LiveViews), the   *)
(* scores of live flows (LivePolicy) and the advice on a monitored path    *)
(* (MonitorPolicy).  The input grows step by step, and at every step the   *)
(* answers of the functions are compared with each other.                  *)
(***************************************************************************)
EXTENDS FeedbackReports, LiveViews

CONSTANTS
  Line, Export,                                  \* see LogParsing
  Packet, Flow, Query, MaxPackets, MaxCaptured,  \* see PathReview
  Tune,                                          \* see LivePolicy
  FeedbackRow, User,  \* feedback an analyst may give; who reads the reports
  Event, LiveFlow,    \* events and flows the collector may store
  Incident,           \* incidents of one source
  Result,             \* results a monitored path may have
  Judgements, Baselines, Rules, \* what analysts may have told of a monitored path
  Monitors, Target, DigestRow, \* paths of one user, where each leads, and their runs and outcomes
  PageSize, Now,      \* rows of a page; the minute at which the views are asked for
  Paged,              \* events stored while somebody turns the pages
  MaxAsked,           \* bound: requests of the list on their way
  MaxRows             \* bound: per subject, the rows ever stored

VARIABLES
  topic,                             \* the subject of this behaviour
  line, event, templates, decoded, announced, due,  \* see LogParsing
  packets, flows, results,           \* see PathReview
  table,                             \* the rows stored: a sequence, of events a set
  stored,                            \* how many were ever stored
  list,        \* the event list on a screen: [length, total, seen, ...], see Shown
  asked,       \* its requests on their way
  loadingMore  \* the button for more pages is disabled

parsing == <<line, event, templates, decoded, announced, due>>
review == <<packets, flows, results>>
screen == <<list, asked, loadingMore>>
lists == <<table, stored, screen>>
vars == <<topic, parsing, review, lists>>

\* A line is a record with the parts every body has.
ASSUME LineAssumption ==
  None \notin Line /\ \A l \in Line : {"pri", "header", "kind", "action", "timed"} \subseteq DOMAIN l
ASSUME ExportAssumption == \A p \in Export : p.sets \in Seq(Range(p.sets))
ASSUME EventAssumption == \A e \in Event : "time" \in DOMAIN e /\ e.time \in Int
ASSUME PageAssumption == PageSize \in Nat \ {0} /\ MaxAsked \in Nat
\* The rules of a monitor are rows in an order, each of a kind the API accepts.
ASSUME RuleAssumption ==
  \A rules \in Rules : /\ rules \in Seq(Range(rules))
                       /\ \A i \in DOMAIN rules : rules[i].kind \in {"mute", "snooze", "impairment", "severity"}
\* The columns of stored flows and incidents that are counted or compared.
ASSUME TuneAssumption ==
  \A c \in {"minFlows", "scanFlows", "scanPorts", "scanDsts", "lateralDsts", "blockedSpike", "scanningFlows",
            "scanDstLimit", "scanPortLimit", "resetLimit", "suspiciousFlows"} :
     c \in DOMAIN Tune /\ Tune[c] \in Nat
ASSUME LiveFlowAssumption == \A f \in LiveFlow : "last" \in DOMAIN f /\ f.last \in Nat
ASSUME IncidentAssumption ==
  \A i \in Incident : /\ i.severity \in 0 .. 3 /\ i.criticality \in {None} \cup 0 .. 3
                      /\ i.priority \in 0 .. 100 /\ i.flows \in Nat
Measures == [total : Nat, dsts : Nat, ports : Nat, completed : Nat, blocked : Nat, resets : Nat,
             scanning : Nat, suspicious : Nat, unstable : Nat]
\* NULL is no intent and no behaviour.
ASSUME NoneAssumption ==
  /\ None \notin {"exploitation", "lateral", "probing", "instability"}
  /\ None \notin [type : {"scanning", "lateral_movement", "unstable", "suspicious", "normal"},
                  confidence : Nat, flows : Nat, metrics : Measures]
ASSUME PacketAssumption == None \notin Packet /\ \A p \in Packet : p.ts \in Int

Parsing == INSTANCE LogParsing
Paths == INSTANCE PathReview
Live == INSTANCE LivePolicy
Monitor == INSTANCE MonitorPolicy

Subjects == {"lines", "exports", "paths", "feedback", "events", "pages", "flows", "sessions", "monitor", "digest"}

\* No request.
Idle == [kind |-> "none", offset |-> 0, step |-> "idle", total |-> 0, rows |-> {},
         all |-> {}, grown |-> FALSE, stale |-> FALSE]

Init ==
  /\ topic \in Subjects
  /\ Parsing!Init /\ Paths!Init
  /\ table = (IF topic \in {"events", "pages"} THEN {} ELSE <<>>)
  /\ stored = 0
  /\ list = [length |-> 0, total |-> 0, seen |-> {}, base |-> {}, torn |-> FALSE, outgrown |-> FALSE]
  /\ asked = [i \in 1 .. MaxAsked |-> Idle] /\ loadingMore = FALSE

Rest == UNCHANGED <<topic, parsing, review>>

Store(row) == table' = Append(table, row) /\ stored' = stored + 1 /\ UNCHANGED screen /\ Rest

StoreFeedback(row) == topic = "feedback" /\ stored < MaxRows[topic] /\ Store(row)
StoreFlow(f) ==
  /\ topic = "flows" /\ stored < MaxRows[topic]
  /\ Store(WithId(stored + 1, f))

\* The incidents of one source, in the order they are first seen.
StoreIncident(i) == topic = "sessions" /\ stored < MaxRows[topic] /\ Store(i)

\* A run of a monitored path is stored with the severity of its drift.
AddRun(r) ==
  /\ topic = "monitor" /\ stored < MaxRows[topic]
  /\ LET previous == IF table = <<>> THEN <<>> ELSE <<Last(table)>> IN
     Store([severity |-> Monitor!DetectDrift(previous, r)] @@ r)

\* A run or an outcome of one of several monitored paths.
RunsOf(m) == SelectSeq(table, LAMBDA r : r.kind = "run" /\ r.monitor = m)
OutcomesOf(M) == SelectSeq(table, LAMBDA r : r.kind = "outcome" /\ r.monitor \in M)
AddDigestRow(r) ==
  /\ topic = "digest" /\ stored < MaxRows[topic]
  /\ Store(IF r.kind = "outcome" THEN r
           ELSE LET runs == RunsOf(r.monitor)
                    previous == IF runs = <<>> THEN <<>> ELSE <<Last(runs)>>
                IN [severity |-> Monitor!DetectDrift(previous, r)] @@ r)

\* Events come with the time of the device, in any order.
StoreEvent(e) ==
  /\ topic = "events" \/ (topic = "pages" /\ e \in Paged)
  /\ stored < MaxRows[topic]
  /\ table' = table \cup {WithId(stored + 1, e)} /\ stored' = stored + 1
  /\ asked' = [i \in 1 .. MaxAsked |-> [asked[i] EXCEPT !.grown = @ \/ asked[i].step = "counted"]]
  /\ UNCHANGED <<list, loadingMore>> /\ Rest

\* The cutoff may be any until now; what counts is the newest row that goes.
RunRetention ==
  /\ topic \in {"events", "pages"}
  /\ \E e \in table : e.time < Now /\ table' = Retained(table, e.time + 1)
  /\ UNCHANGED <<stored, screen>> /\ Rest

(* LiveEvents.vue: the list of events, 5 s refreshes that set it back to    *)
(* the first page, and more pages on demand.  Answers may come late, in     *)
(* another order or never.  A request is [kind, offset, step, total, rows], *)
(* with history: `all`, the rows there were when it set the list back; `grown`, *)
(* a row was stored between its two queries; `stale`, the list changed      *)
(* since it was asked for more.                                             *)
NoFilter == [c \in {} |-> c]
Ask(i, what, from) ==
  /\ asked[i].kind = "none" /\ \A j \in 1 .. (i - 1) : asked[j].kind # "none"
  /\ asked' = [asked EXCEPT ![i] = [Idle EXCEPT !.kind = what, !.offset = from, !.step = "asked"]]

\* The timer, the button and every change of the filters.
Refresh(i) == Ask(i, "reset", 0) /\ UNCHANGED <<list, loadingMore>>

\* The button is there while the list is shorter than the total, and disabled while a page
\* is on its way; the offset is the number of rows shown.
LoadMore(i) ==
  /\ list.length < list.total /\ ~loadingMore
  /\ Ask(i, "more", list.length)
  /\ loadingMore' = TRUE /\ UNCHANGED list

\* list_live_events: the count and the page are two queries, each of the table of its time.
CountRows(i) ==
  /\ asked[i].step = "asked"
  /\ asked' = [asked EXCEPT ![i].step = "counted",
                            ![i].total = ListEvents(table, NoFilter, asked[i].offset, PageSize).total]
  /\ UNCHANGED <<list, loadingMore>>
ReadRows(i) ==
  /\ asked[i].step = "counted"
  /\ asked' = [asked EXCEPT ![i].step = "read", ![i].all = IF asked[i].kind = "reset" THEN table ELSE {},
                            ![i].rows = ListEvents(table, NoFilter, asked[i].offset, PageSize).rows]
  /\ UNCHANGED <<list, loadingMore>>

\* fetchEvents: the rows replace the list or are put at its end, whatever it is by then.
\* History: `base`, the rows there were when the list was last set back; `torn`, a page was
\* put at the end of another list than it was asked for; `outgrown`, a row was stored
\* between the queries of the last answer.
Shown(shown, request) ==
  IF request.kind = "reset"
    THEN [length |-> Cardinality(request.rows), total |-> request.total, seen |-> request.rows,
          base |-> request.all, torn |-> FALSE, outgrown |-> request.grown]
    ELSE [length |-> shown.length + Cardinality(request.rows), total |-> request.total,
          seen |-> shown.seen \cup request.rows, base |-> shown.base,
          torn |-> shown.torn \/ request.stale, outgrown |-> request.grown]
Answer(i) ==
  /\ asked[i].step = "read"
  /\ list' = Shown(list, asked[i])
  /\ asked' = [j \in 1 .. MaxAsked |-> IF j = i THEN Idle ELSE [asked[j] EXCEPT !.stale = asked[j].kind = "more"]]
  /\ loadingMore' = FALSE

\* A request that fails changes nothing but the button, of whichever kind it was.
Fail(i) ==
  /\ asked[i].kind # "none"
  /\ asked' = [asked EXCEPT ![i] = Idle]
  /\ loadingMore' = FALSE /\ UNCHANGED list

Browse ==
  /\ topic = "pages"
  /\ \E i \in 1 .. MaxAsked :
       Refresh(i) \/ LoadMore(i) \/ CountRows(i) \/ ReadRows(i) \/ Answer(i) \/ Fail(i)
  /\ UNCHANGED <<table, stored>> /\ Rest

Next ==
  \/ topic = "lines" /\ (\E l \in Line : Parsing!ProcessLine(l)) /\ UNCHANGED <<topic, review, lists>>
  \/ topic = "exports" /\ (\E p \in Export : Parsing!ReceivePacket(p)) /\ UNCHANGED <<topic, review, lists>>
  \/ topic = "exports" /\ Parsing!Restart /\ UNCHANGED <<topic, review, lists>>
  \/ topic = "paths" /\ Paths!Next /\ UNCHANGED <<topic, parsing, lists>>
  \/ \E row \in FeedbackRow : StoreFeedback(row)
  \/ \E f \in LiveFlow : StoreFlow(f)
  \/ \E i \in Incident : StoreIncident(i)
  \/ \E r \in Result : AddRun(r)
  \/ \E r \in DigestRow : AddDigestRow(r)
  \/ \E e \in Event : StoreEvent(e)
  \/ RunRetention
  \/ Browse

Spec == Init /\ [][Next]_vars

-----------------------------------------------------------------------------
(* Properties of the subjects with modules of their own.                   *)

\* What a relay puts before a message never changes what is read from it (process_line).
PrefixNeverMatters == Parsing!PrefixNeverMatters

\* The parsers agree which traffic passed (the action tables of the three parsers).
ActionsAgree == Parsing!ActionsAgree

\* A NetFlow record is decoded with the layout its own source told last before it, and with
\* no other (TemplateCache, parse_flowsets).
OwnTemplate == Parsing!OwnTemplate

\* Two captures of one path are compared by impairment exactly as by evidence.
DiffsAgree == Paths!DiffsAgree

\* More packets never take an established connection back (CausalPathEngine.analyze).
VerdictGrows == Paths!VerdictGrows

\* The hops of a path are told alike by its outcome, its steps and its evidence.
HopsAgree == Paths!HopsAgree

-----------------------------------------------------------------------------
(* Properties of the tables.                                               *)

\* The digest over all monitors is that of the single ones: its outcomes and signals are
\* their sums, every monitor has one level of risk, the average lies between the scores, a
\* destination called systemic has two monitors in trouble, and a system that is mostly
\* false positives has a monitor that is.
TotalOf(Value(_)) == FoldFunction(+, 0, [m \in Monitors |-> Value(m)])
SumsAgree(all, learned) ==
  LET signal(m, k, field) == IF k \in DOMAIN learned[m].signals THEN learned[m].signals[k][field] ELSE 0
  IN /\ \A f \in {"total", "confirmed", "falsePositives", "transient"} : all[f] = TotalOf(LAMBDA m : learned[m][f])
     /\ \A k \in DOMAIN all.signals, f \in {"total", "confirmed", "falsePositives"} :
          all.signals[k][f] = TotalOf(LAMBDA m : signal(m, k, f))
HeadlinesAgree(headlines, runs, advice, learned) ==
  /\ "systemic" \in headlines =>
       \E m, n \in Monitors : /\ m # n /\ Target[m] = Target[n]
                              /\ \A x \in {m, n} : advice[x].required \/ Last(runs[x]).severity \in Monitor!Bad
  /\ "false_positives" \in headlines =>
       \E m \in Monitors : learned[m].total > 0 /\ 2 * learned[m].falsePositives >= learned[m].total
DigestAgreesWith(digest, runs, score, advice, learned) ==
  /\ SumsAgree(digest.learned, learned)
  /\ FoldFunction(+, 0, digest.levels) = Cardinality(Monitors)
  /\ \E m \in Monitors : score[m] <= digest.average
  /\ \E m \in Monitors : score[m] >= digest.average
  /\ HeadlinesAgree(digest.headlines, runs, advice, learned)
DigestOf(runs, advice) ==
  DigestAgreesWith(Monitor!Insights(Monitors, runs, OutcomesOf(Monitors), advice, Target), runs,
                   [m \in Monitors |-> Monitor!ComputeRiskScore(Monitor!SummarizeHistory(runs[m])).score],
                   advice, [m \in Monitors |-> Monitor!LearnFromOutcomes(OutcomesOf({m}))])
Unset == [delay |-> -1, confidence |-> -1, noisy |-> {}]
DigestAgrees ==
  LET runs == [m \in Monitors |-> RunsOf(m)]
  IN DigestOf(runs, [m \in Monitors |-> Monitor!Decision(runs[m], OutcomesOf({m}), Unset, <<>>, 0)])

\* Reports that walk one table separately agree: of the feedback rows the summary, the
\* calibration report, the metrics, the list and the package (main.py:2432-2701,
\* core/calibration_metrics.py); of the events the list, the statistics, the timeline and
\* the dashboard (main.py:4087-4925); of the flows the statistics and the timeline; of the
\* monitored paths the digest and the single advices (monitoring.py:1184).
ReportsAgree ==
  /\ topic = "feedback" => \A user \in User : Agree(table, user)
  /\ topic = "events" => ViewsOfOneTable(table, Now)
  /\ topic = "flows" => FlowViewsOfOneTable(ToSet(table), Now)
  /\ topic = "digest" => DigestAgrees

\* When the event list offers no more pages, it has shown every row that was there when it
\* was last set back and is still there, whatever events came in, retention deleted and
\* requests failed meanwhile (list_live_events, fetchEvents and loadMore of LiveEvents.vue).
\* In two cases rows may be missing until the next refresh, as the code is written: when a
\* page came to a list that had changed since it was asked for, and when a row was stored
\* between the count and the page of the last answer.
PagingMissesNothing ==
  topic = "pages" /\ list.length >= list.total /\ ~list.torn /\ ~list.outgrown
    => list.base \cap table \subseteq list.seen

\* The advice on a monitored path never demands action at the lowest priority, whatever
\* rules, baselines and outcomes changed the priority on the way (_compute_monitor_risk).
NoActionMeansNone ==
  topic = "monitor" =>
    \A o \in Judgements, b \in Baselines, r \in Rules :
      LET advice == Monitor!Decision(table, o, b, r, 0)
      IN advice.priority = 0 => ~advice.required

\* A behaviour seen once more, or on a more critical target, lowers neither severity nor
\* priority of its incident (incidents.py).
Urgency(b, count, criticality) ==
  LET severity == Live!AssetBoost(
                    Live!DeviationBoost(Live!DeriveSeverity(b.type, b.confidence, count), 0),
                    criticality)
  IN <<severity, Live!ComputePriority(severity, criticality, count, b.type, 0)>>

\* What a source is taken for, its pairs of hosts worth an analysis, and its risk.
Taken(F, s) == Live!Classify(Live!Metrics(Live!OfSource(F, s)))
PairsOf(F) == Live!AnomalousPairs(F, Live!Behaviours(F, 0, [s \in Live!Sources(F) |-> None]), {})
ScoreOf(F, s) == Live!RiskScore(Live!Metrics(Live!OfSource(F, s)), 0, Taken(F, s))
UrgencyGrows(b) ==
  LET NotBelow(p, q) == p[1] >= q[1] /\ p[2] >= q[2] IN
  \A n \in 1 .. 6 :
    /\ \A c \in {None, 0, 1, 2, 3} : NotBelow(Urgency(b, n + 1, c), Urgency(b, n, c))
    /\ \A c \in 0 .. 2 : NotBelow(Urgency(b, n, c + 1), Urgency(b, n, c))

\* One more blocked flow silences no pattern, and a source that is taken for scanning stays
\* so. Unless it changes what the source is taken for, it clears no pair of hosts and lowers
\* no risk score (live_risk, bridge).
NeverCalmer(F, G) ==
  LET same(s) == Taken(F, s).type = Taken(G, s).type IN
  /\ Live!Patterns(F, {}) \subseteq Live!Patterns(G, {})
  /\ \A p \in PairsOf(F) : same(p[1]) => p \in PairsOf(G)
  /\ \A s \in Live!Sources(F) :
       /\ Taken(F, s).type = "scanning" => same(s)
       /\ Live!ScoreIp(Live!Metrics(Live!OfSource(G, s)), 0) >= Live!ScoreIp(Live!Metrics(Live!OfSource(F, s)), 0)
       /\ same(s) => /\ ScoreOf(G, s) >= ScoreOf(F, s)
                     /\ Live!Level(ScoreOf(G, s)) >= Live!Level(ScoreOf(F, s))
       /\ UrgencyGrows(Taken(G, s))

\* One more incident takes back no attack read off the order of a source's incidents nor
\* weakens what is recommended against it, and a session that is to be contained is
\* explained by an intent (sessions.py).
Ordered(session) == {i \in session.intents : i.intent \in {"exploitation", "lateral"}}
Strength(session) ==
  CHOOSE n \in 1 .. 4 : <<"monitor", "investigate", "contain", "block">>[n] = session.action
NoLessAlarming(old, new) ==
  /\ new.severity >= old.severity /\ new.priority >= old.priority
  /\ \A i \in Ordered(old) : \E j \in Ordered(new) : j.intent = i.intent /\ j.confidence >= i.confidence
  /\ Ordered(old) # {} => Strength(new) >= Strength(old)
  /\ Strength(new) > 2 => new.step \in {i.intent : i \in new.intents}

\* More evidence never calms: neither one more blocked flow, nor a behaviour seen once
\* more, nor one more incident of a session.
EvidenceNeverCalms ==
  [][/\ topic = "flows" /\ Last(table').state \in Live!Blocked => NeverCalmer(ToSet(table), ToSet(table'))
     /\ topic = "sessions" /\ table # <<>> =>
          \A minutes \in 0 .. 2 : NoLessAlarming(Live!Enriched(table, minutes), Live!Enriched(table', minutes))]_vars
=============================================================================
