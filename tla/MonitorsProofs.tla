--------------------------- MODULE MonitorsProofs ---------------------------
(***************************************************************************)
(* Path monitors, for any number of monitors, analyses and queries, any    *)
(* results of the analysis engine, and any number of runs and requests.    *)
(***************************************************************************)
EXTENDS Monitors, TLAPS

-----------------------------------------------------------------------------
(* detect_drift.                                                           *)

LEMMA DriftIsSeverity ==
  ASSUME NEW previous, NEW c  PROVE DetectDrift(previous, c) \in Severity
<1> DEFINE signals == DriftSignals(previous, c)
<1>1. signals \subseteq {"critical", "warning", "info"}  BY DEF DriftSignals
<1> HIDE DEF signals
<1>2. /\ Severity = {"none", "info", "warning", "critical"}
      /\ DriftRank["none"] = 0 /\ DriftRank["info"] = 1 /\ DriftRank["warning"] = 2
      /\ DriftRank["critical"] = 3
  BY DEF Severity, DriftRank
<1>3. \E s \in signals \cup {"none"} : \A t \in signals : DriftRank[s] >= DriftRank[t]
  <2>1. CASE "critical" \in signals  BY <1>1, <1>2, <2>1
  <2>2. CASE "critical" \notin signals /\ "warning" \in signals  BY <1>1, <1>2, <2>2
  <2>3. CASE "critical" \notin signals /\ "warning" \notin signals  BY <1>1, <1>2, <2>3
  <2> QED  BY <2>1, <2>2, <2>3
<1>4. DetectDrift(previous, c) \in signals \cup {"none"}  BY <1>3 DEF DetectDrift, signals
<1> QED  BY <1>1, <1>2, <1>4

\* Nothing drifts from nothing, and no result from itself.
LEMMA NoDriftFromSame ==
  ASSUME NEW c, c.confidence \in Int, c.delay \in Int
  PROVE  DetectDrift(<<>>, c) = "none" /\ DetectDrift(<<c>>, c) = "none"
<1>1. DriftSignals(<<>>, c) = {}  BY DEF DriftSignals
<1>2. ~DelayRegressed(c, c)  BY DEF DelayRegressed
<1>3. DriftSignals(<<c>>, c) = {}
  <2>1. <<c>> # <<>> /\ <<c>>[1] = c  OBVIOUS
  <2>2. ~(c.confidence - c.confidence <= -15)  OBVIOUS
  <2> QED  BY <1>2, <2>1, <2>2 DEF DriftSignals
<1> QED  BY <1>1, <1>3 DEF DetectDrift

-----------------------------------------------------------------------------
(* What holds of every state of the database, committed or not.            *)

\* A row keeps a result with the content it was found for.
Row == {r \in MonitorRow : r.last # None => r.last.result = ResultOf[r.last.content]}
Results == {ResultOf[c] : c \in Content}
Runs == {Run(c, s, r, x) : c \in Content, s \in Severity, r \in Row, x \in Results}
AnalysisRow ==
  [status : {"pending", "completed", "gone"}, workflow : {"new", "needs_review"} \cup Terminal,
   mine : BOOLEAN]

Tables == {"monitor", "runs", "outcomes", "rules", "analysis", "query", "cache", "notes",
           "overlooked"}
Shape(d) == DOMAIN d = Tables /\ d = [t \in Tables |-> d[t]]

Fields(d) ==
  /\ Shape(d)
  /\ d.monitor \in [Monitor -> Row \cup {NoRow}]
  /\ d.runs \in [Monitor -> Seq(Runs)]
  /\ d.outcomes = [m \in Monitor |-> d.outcomes[m]]
  /\ d.rules = [m \in Monitor |-> d.rules[m]]
  /\ d.analysis \in [Analysis -> AnalysisRow]
  /\ d.query \in [Query -> Content \cup {NoRow}]
  /\ \A e \in d.cache : e.analysis \in Analysis

NoOrphans(d) ==
  \A m \in Monitor :
    d.monitor[m] = NoRow /\ m \notin d.overlooked => d.runs[m] = <<>> /\ d.outcomes[m] = <<>>

DriftsReal(d) ==
  \A m \in Monitor : \A i \in DOMAIN d.runs[m] :
    d.runs[m][i].severity # "none" => d.runs[m][i].against \notin {None, d.runs[m][i].content}

DriftsTold(d) ==
  \A m \in Monitor : \A i \in DOMAIN d.runs[m] :
    d.runs[m][i].severity \in Bad /\ d.analysis[d.runs[m][i].of].status # "gone" =>
      Note(Owner, "drift_detected", d.runs[m][i].of) \in d.notes

ScansTold(d) ==
  \A e \in d.cache :
    e.by = "scan" /\ Impaired(ResultOf[e.content]) =>
      Note(OwnerOf(d, e.analysis), "auto", e.analysis) \in d.notes

Sound(d) == Fields(d) /\ NoOrphans(d) /\ DriftsReal(d) /\ DriftsTold(d) /\ ScansTold(d)

LEMMA RunsTyped ==
  ASSUME NEW run \in Runs
  PROVE  run.of \in Analysis
BY DEF Runs, Run, Row, MonitorRow

\* What a change of the database may do to it: rows, runs and entries go or stay, an analysis
\* that is gone takes its notifications with it.
LEMMA SoundKept ==
  ASSUME NEW d, NEW e, Sound(d), Fields(e),
         \A m \in Monitor : e.runs[m] = d.runs[m] \/ e.runs[m] = <<>>,
         \A m \in Monitor : e.monitor[m] = NoRow /\ m \notin e.overlooked =>
           e.runs[m] = <<>> /\ e.outcomes[m] = <<>>,
         \A a \in Analysis : e.analysis[a].mine = d.analysis[a].mine,
         \A a \in Analysis : d.analysis[a].status = "gone" => e.analysis[a].status = "gone",
         \A x \in e.cache : x \in d.cache \/ x.by # "scan",
         \A n \in d.notes \ e.notes :
           e.analysis[n.analysis].status = "gone" /\ \A x \in e.cache : x.analysis # n.analysis
  PROVE  Sound(e)
<1>1. NoOrphans(e)  BY DEF NoOrphans
<1>2. \A m \in Monitor : \A i \in DOMAIN e.runs[m] : i \in DOMAIN d.runs[m] /\ e.runs[m] = d.runs[m]
  OBVIOUS
<1>3. DriftsReal(e)  BY <1>2 DEF Sound, DriftsReal
<1>4. DriftsTold(e)
  <2> SUFFICES ASSUME NEW m \in Monitor, NEW i \in DOMAIN e.runs[m], e.runs[m][i].severity \in Bad,
                      e.analysis[e.runs[m][i].of].status # "gone"
               PROVE  Note(Owner, "drift_detected", e.runs[m][i].of) \in e.notes
    BY DEF DriftsTold
  <2> DEFINE run == d.runs[m][i]
             n == Note(Owner, "drift_detected", run.of)
  <2>1. i \in DOMAIN d.runs[m] /\ e.runs[m][i] = run  BY <1>2
  <2>2. run \in Runs /\ run.of \in Analysis
    <3>1. d.runs[m] \in Seq(Runs)  BY DEF Sound, Fields
    <3>2. run \in Runs  BY <2>1, <3>1
    <3> QED  BY <3>2, RunsTyped
  <2>3. d.analysis[run.of].status # "gone"  BY <2>1, <2>2
  <2>4. n \in d.notes  BY <2>1, <2>3 DEF Sound, DriftsTold
  <2>5. n.analysis = run.of  BY DEF Note
  <2> QED  BY <2>1, <2>4, <2>5
<1>5. ScansTold(e)
  <2> SUFFICES ASSUME NEW x \in e.cache, x.by = "scan", Impaired(ResultOf[x.content])
               PROVE  Note(OwnerOf(e, x.analysis), "auto", x.analysis) \in e.notes
    BY DEF ScansTold
  <2> DEFINE n == Note(OwnerOf(d, x.analysis), "auto", x.analysis)
  <2>1. x \in d.cache /\ x.analysis \in Analysis  BY DEF Fields
  <2>2. OwnerOf(e, x.analysis) = OwnerOf(d, x.analysis)  BY <2>1 DEF OwnerOf
  <2>3. n \in d.notes  BY <2>1 DEF Sound, ScansTold
  <2>4. n.analysis = x.analysis  BY DEF Note
  <2> QED  BY <2>2, <2>3, <2>4
<1> QED  BY <1>1, <1>3, <1>4, <1>5 DEF Sound

-----------------------------------------------------------------------------
(* The operations on the database, one lemma each.                         *)

\* Rows of monitors change, and nothing else.
LEMMA MonitorsChange ==
  ASSUME NEW d, Sound(d), NEW e, Shape(e), e.monitor \in [Monitor -> Row \cup {NoRow}],
         \A m \in Monitor : e.monitor[m] = NoRow => d.monitor[m] = NoRow,
         e.query \in [Query -> Content \cup {NoRow}],
         e.runs = d.runs, e.outcomes = d.outcomes, e.rules = d.rules, e.analysis = d.analysis,
         e.cache = d.cache, e.notes = d.notes, e.overlooked = d.overlooked
  PROVE  Sound(e)
<1>1. Fields(e)  BY DEF Sound, Fields
<1>2. \A m \in Monitor : e.monitor[m] = NoRow /\ m \notin e.overlooked =>
           e.runs[m] = <<>> /\ e.outcomes[m] = <<>>
  BY DEF Sound, NoOrphans
<1> QED  BY <1>1, <1>2, SoundKept

\* Rules, outcomes or queries change, and nothing else.
LEMMA OthersChange ==
  ASSUME NEW d, Sound(d), NEW e, Fields(e),
         e.monitor = d.monitor, e.runs = d.runs, e.analysis = d.analysis, e.cache = d.cache,
         e.notes = d.notes, e.overlooked = d.overlooked,
         \A m \in Monitor : e.monitor[m] = NoRow => e.outcomes[m] = d.outcomes[m]
  PROVE  Sound(e)
<1>1. \A m \in Monitor : e.monitor[m] = NoRow /\ m \notin e.overlooked =>
           e.runs[m] = <<>> /\ e.outcomes[m] = <<>>
  BY DEF Sound, NoOrphans
<1> QED  BY <1>1, SoundKept

\* Rows and histories go, and those whose history stays are noted.
Cascaded(d, e, R, ids) ==
  /\ Shape(e)
  /\ e.monitor = [m \in Monitor |-> IF m \in R THEN NoRow ELSE d.monitor[m]]
  /\ e.runs = [m \in Monitor |-> IF m \in ids THEN <<>> ELSE d.runs[m]]
  /\ e.outcomes = [m \in Monitor |-> IF m \in ids THEN <<>> ELSE d.outcomes[m]]
  /\ e.rules = [m \in Monitor |-> IF m \in ids THEN <<>> ELSE d.rules[m]]
  /\ (d.overlooked \ ids) \cup (R \ ids) \subseteq e.overlooked
  /\ e.query \in [Query -> Content \cup {NoRow}]
  /\ e.analysis = d.analysis /\ e.cache = d.cache /\ e.notes = d.notes

LEMMA CascadeSound ==
  ASSUME NEW d, Sound(d), NEW R, NEW ids, NEW e, Cascaded(d, e, R, ids)
  PROVE  Sound(e)
<1> USE DEF Cascaded
<1>1. Fields(e)
  <2>1. e.monitor \in [Monitor -> Row \cup {NoRow}]  BY DEF Sound, Fields
  <2>2. e.runs \in [Monitor -> Seq(Runs)]  BY DEF Sound, Fields
  <2>3. e.outcomes = [m \in Monitor |-> e.outcomes[m]] /\ e.rules = [m \in Monitor |-> e.rules[m]]
    OBVIOUS
  <2> QED  BY <2>1, <2>2, <2>3 DEF Sound, Fields
<1>2. \A m \in Monitor : e.runs[m] = d.runs[m] \/ e.runs[m] = <<>>  OBVIOUS
<1>3. \A m \in Monitor : e.monitor[m] = NoRow /\ m \notin e.overlooked =>
        e.runs[m] = <<>> /\ e.outcomes[m] = <<>>
  <2> SUFFICES ASSUME NEW m \in Monitor, e.monitor[m] = NoRow, m \notin e.overlooked
               PROVE  e.runs[m] = <<>> /\ e.outcomes[m] = <<>>
    OBVIOUS
  <2>1. CASE m \in ids  BY <2>1
  <2>2. CASE m \notin ids
    <3>1. m \notin R /\ m \notin d.overlooked  BY <2>2
    <3>2. d.monitor[m] = NoRow  BY <3>1
    <3> QED  BY <2>2, <3>1, <3>2 DEF Sound, NoOrphans
  <2> QED  BY <2>1, <2>2
<1> QED  BY <1>1, <1>2, <1>3, SoundKept

\* The cascade of one request.
LEMMA WithoutMonitorsSound ==
  ASSUME NEW d, Sound(d), NEW M
  PROVE  LET e == WithoutMonitors(d, M) IN
         /\ Sound(e)
         /\ e.analysis = d.analysis /\ e.query = d.query /\ e.cache = d.cache /\ e.notes = d.notes
<1> DEFINE e == WithoutMonitors(d, M)
<1>1. /\ Shape(e)
      /\ e.monitor = [m \in Monitor |-> IF m \in M THEN NoRow ELSE d.monitor[m]]
      /\ e.runs = [m \in Monitor |-> IF m \in M THEN <<>> ELSE d.runs[m]]
      /\ e.outcomes = [m \in Monitor |-> IF m \in M THEN <<>> ELSE d.outcomes[m]]
      /\ e.rules = [m \in Monitor |-> IF m \in M THEN <<>> ELSE d.rules[m]]
      /\ e.overlooked = d.overlooked \ M
      /\ e.analysis = d.analysis /\ e.query = d.query /\ e.cache = d.cache /\ e.notes = d.notes
  BY DEF Sound, Fields, Shape, Tables, WithoutMonitors, WithoutRows, Forget
<1> HIDE DEF e
<1>2. e.query \in [Query -> Content \cup {NoRow}]  BY <1>1 DEF Sound, Fields
<1>3. (d.overlooked \ M) \cup (M \ M) \subseteq e.overlooked  BY <1>1
<1>4. Cascaded(d, e, M, M)  BY <1>1, <1>2, <1>3 DEF Cascaded
<1>5. Sound(e)  BY <1>4, CascadeSound
<1> QED  BY <1>1, <1>5 DEF e

\* ... with its query, or a query is edited.
LEMMA QueryChange ==
  ASSUME NEW d, Sound(d), NEW q \in Query, NEW c \in Content \cup {NoRow}
  PROVE  Sound([d EXCEPT !.query[q] = c])
<1> DEFINE e == [d EXCEPT !.query[q] = c]
<1>1. /\ Shape(e)
      /\ e.query = [d.query EXCEPT ![q] = c]
      /\ e.monitor = d.monitor /\ e.runs = d.runs /\ e.outcomes = d.outcomes /\ e.rules = d.rules
      /\ e.analysis = d.analysis /\ e.cache = d.cache /\ e.notes = d.notes
      /\ e.overlooked = d.overlooked
  BY DEF Sound, Fields, Shape, Tables
<1> HIDE DEF e
<1>2. /\ e.query \in [Query -> Content \cup {NoRow}]
      /\ e.monitor \in [Monitor -> Row \cup {NoRow}]
  BY <1>1 DEF Sound, Fields
<1>3. Sound(e)  BY <1>1, <1>2, MonitorsChange
<1> QED  BY <1>3 DEF e

\* ... or with its analysis, whose notifications and results go as well.
LEMMA AnalysisGoes ==
  ASSUME NEW d, Sound(d), NEW a \in Analysis
  PROVE  Sound([d EXCEPT !.analysis[a].status = "gone", !.analysis[a].workflow = "new",
                         !.notes = {n \in @ : n.analysis # a},
                         !.cache = {e \in @ : e.analysis # a}])
<1> DEFINE r == [d.analysis[a] EXCEPT !.status = "gone", !.workflow = "new"]
           e == [d EXCEPT !.analysis[a].status = "gone", !.analysis[a].workflow = "new",
                          !.notes = {n \in @ : n.analysis # a},
                          !.cache = {x \in @ : x.analysis # a}]
<1>1. d.analysis \in [Analysis -> AnalysisRow] /\ \A x \in d.cache : x.analysis \in Analysis
  BY DEF Sound, Fields
<1>2. /\ Shape(e)
      /\ e.analysis = [d.analysis EXCEPT ![a] = r]
      /\ e.cache = {x \in d.cache : x.analysis # a} /\ e.notes = {n \in d.notes : n.analysis # a}
      /\ e.overlooked = d.overlooked
      /\ e.monitor = d.monitor /\ e.runs = d.runs /\ e.outcomes = d.outcomes /\ e.rules = d.rules
      /\ e.query = d.query
  BY <1>1 DEF Sound, Fields, Shape, Tables, AnalysisRow
<1>3. r \in AnalysisRow /\ r.status = "gone" /\ r.mine = d.analysis[a].mine
  BY <1>1 DEF AnalysisRow
<1> HIDE DEF r, e
<1>4. /\ e.analysis \in [Analysis -> AnalysisRow] /\ e.analysis[a] = r
      /\ \A x \in Analysis \ {a} : e.analysis[x] = d.analysis[x]
  BY <1>1, <1>2, <1>3
<1>5. Fields(e)  BY <1>1, <1>2, <1>4 DEF Sound, Fields
<1>6. \A m \in Monitor : e.monitor[m] = NoRow /\ m \notin e.overlooked =>
           e.runs[m] = <<>> /\ e.outcomes[m] = <<>>
  BY <1>2 DEF Sound, NoOrphans
<1>7. /\ \A x \in Analysis : e.analysis[x].mine = d.analysis[x].mine
      /\ \A x \in Analysis : d.analysis[x].status = "gone" => e.analysis[x].status = "gone"
  BY <1>3, <1>4
<1>8. \A n \in d.notes \ e.notes :
         e.analysis[n.analysis].status = "gone" /\ \A x \in e.cache : x.analysis # n.analysis
  BY <1>2, <1>3, <1>4
<1>9. Sound(e)  BY <1>2, <1>5, <1>6, <1>7, <1>8, SoundKept
<1> QED  BY <1>9 DEF e

\* An analysis is completed, or its workflow state changes.
LEMMA AnalysisChanges ==
  ASSUME NEW d, Sound(d), NEW e, Shape(e), e.analysis \in [Analysis -> AnalysisRow],
         \A a \in Analysis : e.analysis[a].mine = d.analysis[a].mine,
         \A a \in Analysis : d.analysis[a].status = "gone" => e.analysis[a].status = "gone",
         e.monitor = d.monitor, e.runs = d.runs, e.outcomes = d.outcomes, e.rules = d.rules,
         e.query = d.query, e.cache = d.cache, e.notes = d.notes, e.overlooked = d.overlooked
  PROVE  Sound(e)
<1>1. Fields(e)  BY DEF Sound, Fields
<1>2. \A m \in Monitor : e.monitor[m] = NoRow /\ m \notin e.overlooked =>
           e.runs[m] = <<>> /\ e.outcomes[m] = <<>>
  BY DEF Sound, NoOrphans
<1> QED  BY <1>1, <1>2, SoundKept

\* An entry of the cache, or a notification, is added.
LEMMA EntryAdded ==
  ASSUME NEW d, Sound(d), NEW e, Shape(e), d.cache \subseteq e.cache, d.notes \subseteq e.notes,
         \A x \in e.cache \ d.cache : x.analysis \in Analysis,
         \A x \in e.cache \ d.cache :
           x.by = "scan" /\ Impaired(ResultOf[x.content]) =>
             Note(OwnerOf(d, x.analysis), "auto", x.analysis) \in e.notes,
         e.monitor = d.monitor, e.runs = d.runs, e.outcomes = d.outcomes, e.rules = d.rules,
         e.query = d.query, e.analysis = d.analysis, e.overlooked = d.overlooked
  PROVE  Sound(e)
<1>1. Fields(e)  BY DEF Sound, Fields
<1>2. NoOrphans(e) /\ DriftsReal(e) /\ DriftsTold(e)  BY DEF Sound, NoOrphans, DriftsReal, DriftsTold
<1>3. \A a : OwnerOf(e, a) = OwnerOf(d, a)  BY DEF OwnerOf
<1>4. ScansTold(e)
  <2> SUFFICES ASSUME NEW x \in e.cache, x.by = "scan", Impaired(ResultOf[x.content])
               PROVE  Note(OwnerOf(e, x.analysis), "auto", x.analysis) \in e.notes
    BY DEF ScansTold
  <2>1. CASE x \in d.cache
    <3>1. Note(OwnerOf(d, x.analysis), "auto", x.analysis) \in d.notes  BY <2>1 DEF Sound, ScansTold
    <3> QED  BY <1>3, <3>1
  <2>2. CASE x \notin d.cache  BY <1>3, <2>2
  <2> QED  BY <2>1, <2>2
<1> QED  BY <1>1, <1>2, <1>4 DEF Sound

\* Another run of a monitor: whatever drift it finds is an edit of the query, and is told while
\* the analysis exists; an analysis that an analyst closed stays as it is.
LEMMA RunSound ==
  ASSUME NEW d, Sound(d), NEW m \in Monitor, d.monitor[m] # NoRow, NEW row \in Row,
         NEW content \in Content, NEW manual, clock \in Int
  PROVE  LET e == AfterRun(d, m, row, content, ResultOf[content], manual) IN
         /\ Sound(e)
         /\ \A x \in Analysis : d.analysis[x].workflow \in Terminal =>
              e.analysis[x].workflow = d.analysis[x].workflow
<1> DEFINE a == row.analysis
           result == ResultOf[content]
           previous == IF row.last = None THEN <<>> ELSE <<row.last.result>>
           severity == DetectDrift(previous, result)
           last == [content |-> content, result |-> result]
           run == Run(content, severity, row, result)
           newRow == [d.monitor[m] EXCEPT !.lastRunAt = clock, !.last = last, !.severity = severity]
           ran == [d EXCEPT !.monitor[m].lastRunAt = clock, !.monitor[m].last = last,
                            !.monitor[m].severity = severity, !.runs[m] = Append(@, run)]
           reopened == IF Reopens(d.analysis[a].workflow)
                         THEN [ran EXCEPT !.analysis[a].workflow = "needs_review",
                                          !.notes = @ \cup ReviewNotes(a)]
                         ELSE ran
           told == [reopened EXCEPT !.notes = @ \cup DriftNotes(a, manual)]
           e == AfterRun(d, m, row, content, result, manual)
<1>1. /\ a \in Analysis /\ result \in Results /\ last \in [content : Content, result : Results]
      /\ d.monitor[m] \in Row /\ d.monitor \in [Monitor -> Row \cup {NoRow}]
      /\ d.runs \in [Monitor -> Seq(Runs)] /\ d.analysis \in [Analysis -> AnalysisRow]
  BY DEF Row, MonitorRow, Results, Sound, Fields
<1>2. severity \in Severity  BY DriftIsSeverity
<1>3. severity # "none" => row.last # None /\ row.last.content # content
  <2>1. result.confidence \in Int /\ result.delay \in Int  BY MonitorsAssumption
  <2>2. DetectDrift(<<>>, result) = "none" /\ DetectDrift(<<result>>, result) = "none"
    BY <2>1, NoDriftFromSame
  <2>3. row.last # None => row.last.result = ResultOf[row.last.content]  BY DEF Row
  <2> QED  BY <2>2, <2>3
<1>4. e = IF severity \in Bad /\ d.analysis[a].status # "gone" THEN told ELSE ran  BY DEF AfterRun
<1>5. /\ run \in Runs /\ run.severity = severity /\ run.of = a /\ run.content = content
      /\ run.against = IF row.last = None THEN None ELSE row.last.content
  <2>1. run \in Runs  BY <1>1, <1>2 DEF Runs
  <2> HIDE DEF severity, result
  <2> QED  BY <2>1 DEF Run
<1>6. newRow \in Row
  <2>1. newRow \in MonitorRow  BY <1>1, <1>2, ZenonT(60) DEF Row, MonitorRow, Results
  <2>2. newRow.last = last /\ last.result = ResultOf[last.content]  BY <1>1 DEF Row, MonitorRow
  <2> QED  BY <2>1, <2>2 DEF Row
<1> HIDE DEF severity, previous, last, run, result
<1>7. /\ Shape(ran)
      /\ ran.monitor = [d.monitor EXCEPT ![m] = newRow]
      /\ ran.runs = [d.runs EXCEPT ![m] = Append(@, run)]
      /\ ran.outcomes = d.outcomes /\ ran.rules = d.rules /\ ran.analysis = d.analysis
      /\ ran.query = d.query /\ ran.cache = d.cache /\ ran.notes = d.notes
      /\ ran.overlooked = d.overlooked
  <2>1. ran.monitor = [d.monitor EXCEPT ![m] = newRow]  BY <1>1 DEF Sound, Fields, Shape, Tables, Row, MonitorRow
  <2>2. /\ Shape(ran)
        /\ ran.runs = [d.runs EXCEPT ![m] = Append(@, run)]
        /\ ran.outcomes = d.outcomes /\ ran.rules = d.rules /\ ran.analysis = d.analysis
        /\ ran.query = d.query /\ ran.cache = d.cache /\ ran.notes = d.notes
        /\ ran.overlooked = d.overlooked
    BY DEF Sound, Fields, Shape, Tables
  <2> QED  BY <2>1, <2>2
<1> HIDE DEF ran, newRow
<1>8. /\ Shape(reopened)
      /\ reopened.monitor = ran.monitor /\ reopened.runs = ran.runs /\ reopened.outcomes = ran.outcomes
      /\ reopened.rules = ran.rules /\ reopened.query = ran.query /\ reopened.cache = ran.cache
      /\ reopened.overlooked = ran.overlooked
      /\ ran.notes \subseteq reopened.notes
      /\ \/ reopened.analysis = d.analysis
         \/ /\ Reopens(d.analysis[a].workflow)
            /\ reopened.analysis = [d.analysis EXCEPT ![a].workflow = "needs_review"]
  <2>1. CASE Reopens(d.analysis[a].workflow)  BY <1>7, <2>1 DEF Shape, Tables
  <2>2. CASE ~Reopens(d.analysis[a].workflow)  BY <1>7, <2>2
  <2> QED  BY <2>1, <2>2
<1> HIDE DEF reopened
<1>9. /\ Shape(told)
      /\ told.monitor = reopened.monitor /\ told.runs = reopened.runs /\ told.outcomes = reopened.outcomes
      /\ told.rules = reopened.rules /\ told.query = reopened.query /\ told.cache = reopened.cache
      /\ told.overlooked = reopened.overlooked
      /\ told.notes = reopened.notes \cup DriftNotes(a, manual) /\ told.analysis = reopened.analysis
  BY <1>8 DEF Shape, Tables
<1> HIDE DEF told, e
<1>10. /\ Shape(e)
       /\ e.monitor = [d.monitor EXCEPT ![m] = newRow]
       /\ e.runs = [d.runs EXCEPT ![m] = Append(@, run)]
       /\ e.outcomes = d.outcomes /\ e.rules = d.rules /\ e.query = d.query /\ e.cache = d.cache
       /\ e.overlooked = d.overlooked
       /\ d.notes \subseteq e.notes
       /\ severity \in Bad /\ d.analysis[a].status # "gone" => DriftNotes(a, manual) \subseteq e.notes
       /\ \/ e.analysis = d.analysis
          \/ /\ Reopens(d.analysis[a].workflow)
             /\ e.analysis = [d.analysis EXCEPT ![a].workflow = "needs_review"]
  <2>1. CASE e = ran  BY <1>4, <1>7, <1>9, <1>8, <2>1
  <2>2. CASE e = told  BY <1>7, <1>8, <1>9, <2>2
  <2>3. severity \in Bad /\ d.analysis[a].status # "gone" => DriftNotes(a, manual) \subseteq e.notes
    BY <1>4, <1>9
  <2>4. /\ Shape(e)
        /\ e.monitor = [d.monitor EXCEPT ![m] = newRow]
        /\ e.runs = [d.runs EXCEPT ![m] = Append(@, run)]
        /\ e.outcomes = d.outcomes /\ e.rules = d.rules /\ e.query = d.query /\ e.cache = d.cache
        /\ e.overlooked = d.overlooked
        /\ d.notes \subseteq e.notes
        /\ \/ e.analysis = d.analysis
           \/ /\ Reopens(d.analysis[a].workflow)
              /\ e.analysis = [d.analysis EXCEPT ![a].workflow = "needs_review"]
    <3>1. CASE e = ran  BY <1>7, <3>1
    <3>2. CASE e = told  BY <1>7, <1>8, <1>9, <3>2
    <3> QED  BY <1>4, <3>1, <3>2
  <2> QED  BY <2>3, <2>4
<1>11. /\ e.analysis \in [Analysis -> AnalysisRow]
       /\ \A x \in Analysis : e.analysis[x].status = d.analysis[x].status
       /\ \A x \in Analysis : e.analysis[x].mine = d.analysis[x].mine
       /\ \A x \in Analysis : d.analysis[x].workflow \in Terminal => e.analysis[x] = d.analysis[x]
  <2>1. CASE e.analysis = d.analysis  BY <1>1, <2>1
  <2>2. CASE /\ Reopens(d.analysis[a].workflow)
             /\ e.analysis = [d.analysis EXCEPT ![a].workflow = "needs_review"]
    <3> DEFINE r == [d.analysis[a] EXCEPT !.workflow = "needs_review"]
    <3>1. d.analysis[a] \in AnalysisRow /\ d.analysis[a].workflow \notin Terminal
      BY <1>1, <2>2 DEF Reopens
    <3>2. r \in AnalysisRow /\ r.status = d.analysis[a].status /\ r.mine = d.analysis[a].mine
      BY <3>1 DEF AnalysisRow
    <3>3. e.analysis = [d.analysis EXCEPT ![a] = r]  BY <2>2
    <3> HIDE DEF r
    <3>4. e.analysis[a] = r /\ \A x \in Analysis \ {a} : e.analysis[x] = d.analysis[x]
      BY <1>1, <3>3
    <3> QED  BY <1>1, <3>1, <3>2, <3>3, <3>4
  <2> QED  BY <1>10, <2>1, <2>2
<1>12. /\ \A x \in Monitor \ {m} : e.monitor[x] = d.monitor[x] /\ e.runs[x] = d.runs[x]
       /\ e.monitor[m] = newRow /\ e.runs[m] = Append(d.runs[m], run)
       /\ e.monitor \in [Monitor -> Row \cup {NoRow}] /\ d.runs[m] \in Seq(Runs)
  BY <1>1, <1>6, <1>10
<1>13. e.runs \in [Monitor -> Seq(Runs)]  BY <1>1, <1>5, <1>10, <1>12
<1>14. Fields(e)  BY <1>10, <1>11, <1>12, <1>13 DEF Sound, Fields
<1>15. NoOrphans(e)
  <2>1. newRow # NoRow  BY <1>6, MonitorsAssumption DEF Row
  <2> QED  BY <1>10, <1>12, <2>1 DEF Sound, NoOrphans
<1>16. \A i \in DOMAIN e.runs[m] : (i \in DOMAIN d.runs[m] /\ e.runs[m][i] = d.runs[m][i]) \/ e.runs[m][i] = run
  BY <1>5, <1>12
<1>17. DriftsReal(e)
  <2>1. severity # "none" => run.against \notin {None, run.content}
    <3>1. row.last # None => row.last.content \in Content  BY DEF Row, MonitorRow
    <3> QED  BY <1>3, <1>5, <3>1, MonitorsAssumption
  <2> QED  BY <1>5, <1>12, <1>16, <2>1, ZenonT(60) DEF Sound, DriftsReal
<1>18. DriftsTold(e)
  <2> SUFFICES ASSUME NEW x \in Monitor, NEW i \in DOMAIN e.runs[x], e.runs[x][i].severity \in Bad,
                      e.analysis[e.runs[x][i].of].status # "gone"
               PROVE  Note(Owner, "drift_detected", e.runs[x][i].of) \in e.notes
    BY DEF DriftsTold
  <2>1. CASE e.runs[x][i] = run
    <3>1. d.analysis[a].status # "gone"  BY <1>1, <1>5, <1>11, <2>1
    <3> QED  BY <1>5, <1>10, <2>1, <3>1 DEF DriftNotes
  <2>2. CASE i \in DOMAIN d.runs[x] /\ e.runs[x][i] = d.runs[x][i]
    <3>1. d.runs[x][i] \in Runs  BY <1>1, <2>2
    <3>2. d.analysis[d.runs[x][i].of].status # "gone"  BY <1>11, <2>2, <3>1, RunsTyped
    <3>3. Note(Owner, "drift_detected", d.runs[x][i].of) \in d.notes  BY <2>2, <3>2 DEF Sound, DriftsTold
    <3> QED  BY <1>10, <2>2, <3>3
  <2> QED  BY <1>12, <1>16, <2>1, <2>2
<1>19. ScansTold(e)
  <2> SUFFICES ASSUME NEW x \in e.cache, x.by = "scan", Impaired(ResultOf[x.content])
               PROVE  Note(OwnerOf(e, x.analysis), "auto", x.analysis) \in e.notes
    BY DEF ScansTold
  <2>1. x \in d.cache /\ x.analysis \in Analysis  BY <1>10 DEF Sound, Fields
  <2>2. OwnerOf(e, x.analysis) = OwnerOf(d, x.analysis)  BY <1>11, <2>1 DEF OwnerOf
  <2>3. Note(OwnerOf(d, x.analysis), "auto", x.analysis) \in d.notes  BY <2>1 DEF Sound, ScansTold
  <2> QED  BY <1>10, <2>2, <2>3
<1>20. Sound(e)  BY <1>14, <1>15, <1>17, <1>18, <1>19 DEF Sound
<1> QED  BY <1>11, <1>20 DEF e, result

-----------------------------------------------------------------------------
(* The inductive invariant.                                                *)

Sessions == {"tick", "manual"}
SessionFields == {"on", "todo", "seen", "manual", "work"}
Work == [analysis : Analysis, content : Content, stored : BOOLEAN]

\* A session keeps rows that were rows, and looks for what was asked.
GoodSession(x) ==
  /\ DOMAIN x = SessionFields /\ x = [f \in SessionFields |-> x[f]]
  /\ \A m \in Monitor : m \in DOMAIN x.seen => x.seen[m] \in Row
  /\ x.work \in {None} \cup Work

SessionsGood ==
  /\ DOMAIN session = Sessions /\ session = [s \in Sessions |-> session[s]]
  /\ \A s \in Sessions : GoodSession(session[s])

\* What an analyst closed, and committed, no session has reopened.
ClosedAgree ==
  \A a \in Analysis : committed.analysis[a].workflow \in Terminal =>
    db.analysis[a].workflow = committed.analysis[a].workflow

Requests ==
  [create : {None} \cup [analysis : Analysis, query : Query],
   delete : {None} \cup [query : Query, ids : SUBSET Monitor],
   suppress : {None} \cup [monitor : Monitor, rule : Rule]]

OthersTyped ==
  /\ request \in Requests
  /\ live \in {None} \cup [does : {"scan", "create"}, analysis : Analysis, content : Content, hit : BOOLEAN]
  /\ clock \in Nat

IInv == Sound(db) /\ Sound(committed) /\ ClosedAgree /\ SessionsGood /\ OthersTyped

LEMMA NewIsRow ==
  ASSUME NEW a \in Analysis, NEW q \in Query, NEW b \in BOOLEAN
  PROVE  NewMonitor(a, q, b) \in Row /\ NewMonitor(a, q, b) # NoRow
<1>1. NewMonitor(a, q, b) \in MonitorRow /\ NewMonitor(a, q, b).last = None
  BY DEF NewMonitor, MonitorRow
<1> QED  BY <1>1, MonitorsAssumption DEF Row

LEMMA InitIInv == Init => IInv
<1> SUFFICES ASSUME Init  PROVE IInv  OBVIOUS
<1> DEFINE Row0(a, q, n) == [m \in Monitor |-> IF m <= n THEN NewMonitor(a, q, TRUE) ELSE NoRow]
           Tables0(status, n, a, q, mine) ==
             [monitor |-> Row0(a, q, n),
              runs |-> [m \in Monitor |-> <<>>],
              outcomes |-> [m \in Monitor |-> <<>>],
              rules |-> [m \in Monitor |-> <<>>],
              analysis |-> [x \in Analysis |-> [status |-> status, workflow |-> "new", mine |-> mine]],
              query |-> [x \in Query |-> IF mine THEN CHOOSE c \in Content : TRUE ELSE NoRow],
              cache |-> {}, notes |-> {}, overlooked |-> {}]
<1>0. \E status \in {"pending", "completed"}, n \in {0, Cardinality(Monitor)},
         a \in Analysis, q \in Query, mine \in BOOLEAN :
      /\ n > 0 => mine
      /\ db = Tables0(status, n, a, q, mine)
  BY Zenon DEF Init
<1>1. PICK status \in {"pending", "completed"}, n \in {0, Cardinality(Monitor)},
           a \in Analysis, q \in Query, mine \in BOOLEAN : db = Tables0(status, n, a, q, mine)
  <2> HIDE DEF Tables0
  <2> QED  BY <1>0, Zenon
<1>2. Shape(db)  BY <1>1 DEF Shape, Tables
<1>3. Fields(db)
  <2>1. (CHOOSE c \in Content : TRUE) \in Content  BY MonitorsAssumption
  <2>2. db.query \in [Query -> Content \cup {NoRow}]  BY <1>1, <2>1
  <2>3. db.monitor \in [Monitor -> Row \cup {NoRow}]  BY <1>1, NewIsRow
  <2>4. db.runs \in [Monitor -> Seq(Runs)]  BY <1>1
  <2>5. db.analysis \in [Analysis -> AnalysisRow]  BY <1>1 DEF AnalysisRow
  <2>6. /\ db.outcomes = [m \in Monitor |-> db.outcomes[m]]
        /\ db.rules = [m \in Monitor |-> db.rules[m]] /\ db.cache = {}
    BY <1>1
  <2> QED  BY <1>2, <2>2, <2>3, <2>4, <2>5, <2>6 DEF Fields
<1>4. /\ \A m \in Monitor : db.runs[m] = <<>> /\ db.outcomes[m] = <<>>
      /\ db.cache = {}
  BY <1>1
<1>5. Sound(db)  BY <1>3, <1>4 DEF Sound, NoOrphans, DriftsReal, DriftsTold, ScansTold
<1>6. ClosedAgree  BY DEF Init, ClosedAgree
<1>7. SessionsGood
  <2>1. GoodSession(Idle)  BY DEF GoodSession, Idle, SessionFields
  <2> QED  BY <2>1 DEF Init, SessionsGood, Sessions
<1>8. OthersTyped  BY DEF Init, OthersTyped, Requests, Unasked
<1> QED  BY <1>5, <1>6, <1>7, <1>8 DEF Init, IInv

\* A request that writes in one transaction.
LEMMA WritesIInv ==
  ASSUME IInv, NEW e, Sound(e), Writes(e),
         request' = request, live' = live
  PROVE  IInv'
<1>1. db' = e /\ committed' = e /\ session' = session /\ clock' = clock  BY DEF Writes
<1>2. Sound(db') /\ Sound(committed')  BY <1>1
<1>3. ClosedAgree'  BY <1>1 DEF ClosedAgree
<1>4. SessionsGood' /\ OthersTyped'  BY <1>1 DEF IInv, SessionsGood, OthersTyped
<1> QED  BY <1>2, <1>3, <1>4 DEF IInv, Sound, Fields, Shape, NoOrphans, DriftsReal, DriftsTold, ScansTold

-----------------------------------------------------------------------------
(* The requests.                                                           *)

\* A row of a monitor is new, or edited.
LEMMA RowChange ==
  ASSUME NEW d, Sound(d), NEW m \in Monitor, NEW r \in Row
  PROVE  Sound([d EXCEPT !.monitor[m] = r])
<1> DEFINE e == [d EXCEPT !.monitor[m] = r]
<1>1. /\ Shape(e)
      /\ e.monitor = [d.monitor EXCEPT ![m] = r]
      /\ e.query = d.query /\ e.runs = d.runs /\ e.outcomes = d.outcomes /\ e.rules = d.rules
      /\ e.analysis = d.analysis /\ e.cache = d.cache /\ e.notes = d.notes
      /\ e.overlooked = d.overlooked
  BY DEF Sound, Fields, Shape, Tables
<1> HIDE DEF e
<1>2. /\ e.monitor \in [Monitor -> Row \cup {NoRow}]
      /\ \A x \in Monitor : e.monitor[x] = NoRow => d.monitor[x] = NoRow
      /\ e.query \in [Query -> Content \cup {NoRow}]
  BY <1>1, MonitorsAssumption DEF Sound, Fields, Row
<1>3. Sound(e)  BY <1>1, <1>2, MonitorsChange
<1> QED  BY <1>3 DEF e

\* A request that writes later than it reads.
LEMMA AsksIInv ==
  ASSUME IInv, NEW kind, NEW what, Asks(kind, what),
         [request EXCEPT ![kind] = what] \in Requests
  PROVE  IInv'
<1>1. UNCHANGED <<db, committed, session, live, clock>> /\ request' \in Requests  BY DEF Asks
<1>2. OthersTyped'  BY <1>1 DEF IInv, OthersTyped
<1>3. SessionsGood' /\ ClosedAgree'  BY <1>1 DEF IInv, SessionsGood, ClosedAgree
<1>4. Sound(db') /\ Sound(committed')  BY <1>1 DEF IInv
<1> QED  BY <1>2, <1>3, <1>4 DEF IInv, Sound, Fields, Shape, NoOrphans, DriftsReal, DriftsTold, ScansTold

LEMMA AnswersIInv ==
  ASSUME IInv, NEW kind \in {"create", "delete", "suppress"}, NEW e, Sound(e), Answers(kind, e)
  PROVE  IInv'
<1>1. db' = e /\ committed' = e /\ UNCHANGED <<session, live, clock>>  BY DEF Answers
<1>2. request' \in Requests
  <2>1. request \in Requests /\ request' = [request EXCEPT ![kind] = None]
    BY DEF IInv, OthersTyped, Answers
  <2> QED  BY <2>1 DEF Requests
<1>3. Sound(db') /\ Sound(committed')  BY <1>1
<1>4. ClosedAgree'  BY <1>1 DEF ClosedAgree
<1>5. SessionsGood' /\ OthersTyped'  BY <1>1, <1>2 DEF IInv, SessionsGood, OthersTyped
<1> QED  BY <1>3, <1>4, <1>5 DEF IInv, Sound, Fields, Shape, NoOrphans, DriftsReal, DriftsTold, ScansTold

LEMMA AskMonitorIInv ==
  ASSUME IInv, NEW a \in Analysis, NEW q \in Query, AskMonitor(a, q)  PROVE IInv'
<1>1. Asks("create", [analysis |-> a, query |-> q])  BY DEF AskMonitor
<1>2. [request EXCEPT !["create"] = [analysis |-> a, query |-> q]] \in Requests
  BY DEF IInv, OthersTyped, Requests
<1> QED  BY <1>1, <1>2, AsksIInv

LEMMA AskDeleteIInv ==
  ASSUME IInv, NEW q \in Query, AskDelete(q)  PROVE IInv'
<1> DEFINE what == [query |-> q, ids |-> MonitorsOf(committed, q)]
<1>1. Asks("delete", what)  BY DEF AskDelete
<1>2. what \in [query : Query, ids : SUBSET Monitor]  BY DEF MonitorsOf
<1> HIDE DEF what
<1>3. [request EXCEPT !["delete"] = what] \in Requests  BY <1>2 DEF IInv, OthersTyped, Requests
<1> QED  BY <1>1, <1>3, AsksIInv

LEMMA AskSuppressionIInv ==
  ASSUME IInv, NEW m \in Monitor, NEW r \in Rule, AskSuppression(m, r)  PROVE IInv'
<1>1. Asks("suppress", [monitor |-> m, rule |-> r])  BY DEF AskSuppression
<1>2. [request EXCEPT !["suppress"] = [monitor |-> m, rule |-> r]] \in Requests
  BY DEF IInv, OthersTyped, Requests
<1> QED  BY <1>1, <1>2, AsksIInv

LEMMA CreateMonitorIInv ==
  ASSUME IInv, CreateMonitor  PROVE IInv'
<1> DEFINE r(b) == NewMonitor(request.create.analysis, request.create.query, b)
<1>1. PICK enabled \in BOOLEAN : Answers("create", [db EXCEPT !.monitor[NextId] = r(enabled)])
  BY DEF CreateMonitor
<1>2. r(enabled) \in Row
  <2>1. request.create \in [analysis : Analysis, query : Query]
    BY DEF IInv, OthersTyped, Requests, CreateMonitor
  <2> QED  BY <2>1, NewIsRow
<1>3. NextId \in Monitor /\ Sound(db)  BY DEF CreateMonitor, IInv
<1> HIDE DEF r
<1>4. Sound([db EXCEPT !.monitor[NextId] = r(enabled)])  BY <1>2, <1>3, RowChange
<1> QED  BY <1>1, <1>4, AnswersIInv

LEMMA UpdateMonitorIInv ==
  ASSUME IInv, NEW m \in Monitor, UpdateMonitor(m)  PROVE IInv'
<1> DEFINE r == [db.monitor[m] EXCEPT !.enabled = ~@]
<1>1. Sound(db) /\ db.monitor[m] \in Row  BY DEF IInv, Sound, Fields, UpdateMonitor, Present
<1>2. r \in Row  BY <1>1 DEF Row, MonitorRow
<1>3. [db EXCEPT !.monitor[m].enabled = ~@] = [db EXCEPT !.monitor[m] = r]  OBVIOUS
<1> HIDE DEF r
<1>4. Sound([db EXCEPT !.monitor[m] = r])  BY <1>1, <1>2, RowChange
<1>5. Writes([db EXCEPT !.monitor[m] = r]) /\ request' = request /\ live' = live  BY <1>3 DEF UpdateMonitor
<1> QED  BY <1>4, <1>5, WritesIInv

LEMMA DeleteMonitorIInv ==
  ASSUME IInv, NEW m \in Monitor, DeleteMonitor(m)  PROVE IInv'
<1>1. Sound(WithoutMonitors(db, {m}))  BY WithoutMonitorsSound DEF IInv
<1>2. Writes(WithoutMonitors(db, {m})) /\ request' = request /\ live' = live  BY DEF DeleteMonitor
<1> QED  BY <1>1, <1>2, WritesIInv

\* What the deletion of a saved query makes of the database.
LEMMA DeletedSound ==
  ASSUME NEW d, Sound(d), NEW R, NEW ids, NEW q \in Query
  PROVE  LET e == [Forget(WithoutRows(d, R), ids) EXCEPT !.query[q] = NoRow,
                                                        !.overlooked = @ \cup (R \ ids)]
         IN Sound(e) /\ e.analysis = d.analysis
<1> DEFINE f == Forget(WithoutRows(d, R), ids)
           e == [f EXCEPT !.query[q] = NoRow, !.overlooked = @ \cup (R \ ids)]
<1>1. /\ Shape(f)
      /\ f.monitor = [m \in Monitor |-> IF m \in R THEN NoRow ELSE d.monitor[m]]
      /\ f.runs = [m \in Monitor |-> IF m \in ids THEN <<>> ELSE d.runs[m]]
      /\ f.outcomes = [m \in Monitor |-> IF m \in ids THEN <<>> ELSE d.outcomes[m]]
      /\ f.rules = [m \in Monitor |-> IF m \in ids THEN <<>> ELSE d.rules[m]]
      /\ f.overlooked = d.overlooked \ ids /\ f.query = d.query
      /\ f.analysis = d.analysis /\ f.cache = d.cache /\ f.notes = d.notes
  BY DEF Sound, Fields, Shape, Tables, WithoutRows, Forget
<1> HIDE DEF f
<1>2. /\ Shape(e)
      /\ e.query = [f.query EXCEPT ![q] = NoRow] /\ e.overlooked = f.overlooked \cup (R \ ids)
      /\ e.monitor = f.monitor /\ e.runs = f.runs /\ e.outcomes = f.outcomes /\ e.rules = f.rules
      /\ e.analysis = f.analysis /\ e.cache = f.cache /\ e.notes = f.notes
  BY <1>1 DEF Shape, Tables
<1> HIDE DEF e
<1>3. e.query \in [Query -> Content \cup {NoRow}]  BY <1>1, <1>2 DEF Sound, Fields
<1>4. (d.overlooked \ ids) \cup (R \ ids) \subseteq e.overlooked  BY <1>1, <1>2
<1>5. Cascaded(d, e, R, ids)  BY <1>1, <1>2, <1>3, <1>4 DEF Cascaded
<1>6. Sound(e)  BY <1>5, CascadeSound
<1> QED  BY <1>1, <1>2, <1>6 DEF e, f

LEMMA DeleteSavedQueryIInv ==
  ASSUME IInv, DeleteSavedQuery  PROVE IInv'
<1> DEFINE q == request.delete.query
           ids == request.delete.ids
           R == MonitorsOf(db, q)
           e == [Forget(WithoutRows(db, R), ids) EXCEPT !.query[q] = NoRow,
                                                        !.overlooked = @ \cup (R \ ids)]
<1>1. Answers("delete", e)  BY DEF DeleteSavedQuery
<1>2. q \in Query  BY DEF IInv, OthersTyped, Requests, DeleteSavedQuery
<1>3. Sound(db)  BY DEF IInv
<1> HIDE DEF q, ids, R
<1>4. Sound(e)  BY <1>2, <1>3, DeletedSound
<1> HIDE DEF e
<1> QED  BY <1>1, <1>4, AnswersIInv

LEMMA UpdateSavedQueryIInv ==
  ASSUME IInv, NEW q \in Query, NEW c \in Content, UpdateSavedQuery(q, c)  PROVE IInv'
<1>1. Sound([db EXCEPT !.query[q] = c])  BY QueryChange DEF IInv
<1>2. Writes([db EXCEPT !.query[q] = c]) /\ request' = request /\ live' = live
  BY DEF UpdateSavedQuery
<1> QED  BY <1>1, <1>2, WritesIInv

LEMMA DeleteAnalysisIInv ==
  ASSUME IInv, NEW a \in Analysis, DeleteAnalysis(a)  PROVE IInv'
<1> DEFINE M == {m \in Monitor : Present(m) /\ db.monitor[m].analysis = a}
           d == WithoutMonitors(db, M)
<1>1. Sound(d)  BY WithoutMonitorsSound DEF IInv
<1>2. /\ Writes([d EXCEPT !.analysis[a].status = "gone", !.analysis[a].workflow = "new",
                          !.notes = {n \in @ : n.analysis # a},
                          !.cache = {e \in @ : e.analysis # a}])
      /\ request' = request /\ live' = live
  BY DEF DeleteAnalysis
<1> HIDE DEF d
<1>3. Sound([d EXCEPT !.analysis[a].status = "gone", !.analysis[a].workflow = "new",
                      !.notes = {n \in @ : n.analysis # a},
                      !.cache = {e \in @ : e.analysis # a}])
  BY <1>1, AnalysisGoes
<1> QED  BY <1>2, <1>3, WritesIInv

\* Completing an analysis or setting its state, which is never "needs_review".
LEMMA OneAnalysisChanges ==
  ASSUME NEW d, Sound(d), NEW a \in Analysis, NEW r \in AnalysisRow,
         r.mine = d.analysis[a].mine, d.analysis[a].status # "gone"
  PROVE  Sound([d EXCEPT !.analysis[a] = r])
<1> DEFINE e == [d EXCEPT !.analysis[a] = r]
<1>1. /\ Shape(e)
      /\ e.analysis = [d.analysis EXCEPT ![a] = r]
      /\ e.monitor = d.monitor /\ e.runs = d.runs /\ e.outcomes = d.outcomes /\ e.rules = d.rules
      /\ e.query = d.query /\ e.cache = d.cache /\ e.notes = d.notes
      /\ e.overlooked = d.overlooked
  BY DEF Sound, Fields, Shape, Tables
<1> HIDE DEF e
<1>2. d.analysis \in [Analysis -> AnalysisRow]  BY DEF Sound, Fields
<1>3. /\ e.analysis \in [Analysis -> AnalysisRow] /\ e.analysis[a] = r
      /\ \A x \in Analysis \ {a} : e.analysis[x] = d.analysis[x]
  BY <1>1, <1>2
<1>4. /\ \A x \in Analysis : e.analysis[x].mine = d.analysis[x].mine
      /\ \A x \in Analysis : d.analysis[x].status = "gone" => e.analysis[x].status = "gone"
  BY <1>3
<1>5. Sound(e)  BY <1>1, <1>3, <1>4, AnalysisChanges
<1> QED  BY <1>5 DEF e

LEMMA CompleteAnalysisIInv ==
  ASSUME IInv, NEW a \in Analysis, CompleteAnalysis(a)  PROVE IInv'
<1> DEFINE r == [db.analysis[a] EXCEPT !.status = "completed"]
<1>1. Sound(db) /\ db.analysis[a] \in AnalysisRow  BY DEF IInv, Sound, Fields
<1>2. r \in AnalysisRow /\ r.mine = db.analysis[a].mine  BY <1>1 DEF AnalysisRow
<1>3. [db EXCEPT !.analysis[a].status = "completed"] = [db EXCEPT !.analysis[a] = r]  OBVIOUS
<1>4. db.analysis[a].status # "gone"  BY DEF CompleteAnalysis
<1> HIDE DEF r
<1>5. Sound([db EXCEPT !.analysis[a] = r])  BY <1>1, <1>2, <1>4, OneAnalysisChanges
<1>6. Writes([db EXCEPT !.analysis[a] = r]) /\ request' = request /\ live' = live
  BY <1>3 DEF CompleteAnalysis
<1> QED  BY <1>5, <1>6, WritesIInv

LEMMA SetWorkflowIInv ==
  ASSUME IInv, NEW a \in Analysis, NEW w \in Terminal, SetWorkflow(a, w)  PROVE IInv'
<1> DEFINE r == [db.analysis[a] EXCEPT !.workflow = w]
<1>1. Sound(db) /\ db.analysis[a] \in AnalysisRow  BY DEF IInv, Sound, Fields
<1>2. r \in AnalysisRow /\ r.mine = db.analysis[a].mine  BY <1>1 DEF AnalysisRow
<1>3. [db EXCEPT !.analysis[a].workflow = w] = [db EXCEPT !.analysis[a] = r]  OBVIOUS
<1>4. db.analysis[a].status # "gone"  BY DEF SetWorkflow
<1> HIDE DEF r
<1>5. Sound([db EXCEPT !.analysis[a] = r])  BY <1>1, <1>2, <1>4, OneAnalysisChanges
<1>6. Writes([db EXCEPT !.analysis[a] = r]) /\ request' = request /\ live' = live
  BY <1>3 DEF SetWorkflow
<1> QED  BY <1>5, <1>6, WritesIInv

LEMMA RecordOutcomeIInv ==
  ASSUME IInv, NEW m \in Monitor, NEW o \in Outcome, RecordOutcome(m, o)  PROVE IInv'
<1> DEFINE x == [outcome |-> o.outcome, cause |-> o.cause,
                 drivers |-> ComputeRiskScore(SummarizeHistory(db.runs[m])).drivers]
           r == [db.monitor[m] EXCEPT !.outcome = o.outcome]
           d == [db EXCEPT !.outcomes[m] = Append(@, x)]
           e == [db EXCEPT !.outcomes[m] = Append(@, x), !.monitor[m].outcome = o.outcome]
<1>1. Writes(e) /\ request' = request /\ live' = live  BY DEF RecordOutcome
<1>2. Sound(db) /\ db.monitor[m] \in Row  BY DEF IInv, Sound, Fields, RecordOutcome, Present
<1>3. r \in Row  BY <1>2 DEF Row, MonitorRow
<1> HIDE DEF x
<1>4. /\ Shape(d)
      /\ d.outcomes = [db.outcomes EXCEPT ![m] = Append(@, x)]
      /\ d.monitor = db.monitor /\ d.query = db.query /\ d.runs = db.runs /\ d.rules = db.rules
      /\ d.analysis = db.analysis /\ d.cache = db.cache /\ d.notes = db.notes
      /\ d.overlooked = db.overlooked
  BY <1>2 DEF Sound, Fields, Shape, Tables
<1>5. e = [d EXCEPT !.monitor[m] = r]  BY <1>2 DEF Sound, Fields, Shape, Tables
<1> HIDE DEF d, e, r
<1>6. /\ d.outcomes = [y \in Monitor |-> d.outcomes[y]]
      /\ \A y \in Monitor \ {m} : d.outcomes[y] = db.outcomes[y]
      /\ db.monitor[m] # NoRow
  BY <1>2, <1>4, MonitorsAssumption DEF Sound, Fields, Row
<1>7. Fields(d)  BY <1>2, <1>4, <1>6 DEF Sound, Fields
<1>8. \A y \in Monitor : d.monitor[y] = NoRow => d.outcomes[y] = db.outcomes[y]  BY <1>4, <1>6
<1>9. Sound(d)  BY <1>2, <1>4, <1>7, <1>8, OthersChange
<1>10. Sound(e)  BY <1>3, <1>5, <1>9, RowChange
<1> QED  BY <1>1, <1>10, WritesIInv

\* Rules hang on nothing.
LEMMA RulesChange ==
  ASSUME NEW d, Sound(d), NEW m \in Monitor, NEW rules
  PROVE  Sound([d EXCEPT !.rules[m] = rules])
<1> DEFINE e == [d EXCEPT !.rules[m] = rules]
<1>1. /\ Shape(e)
      /\ e.rules = [d.rules EXCEPT ![m] = rules]
      /\ e.monitor = d.monitor /\ e.runs = d.runs /\ e.outcomes = d.outcomes /\ e.query = d.query
      /\ e.analysis = d.analysis /\ e.cache = d.cache /\ e.notes = d.notes
      /\ e.overlooked = d.overlooked
  BY DEF Sound, Fields, Shape, Tables
<1> HIDE DEF e
<1>2. e.rules = [y \in Monitor |-> e.rules[y]]  BY <1>1 DEF Sound, Fields
<1>3. Fields(e)  BY <1>1, <1>2 DEF Sound, Fields
<1>4. Sound(e)  BY <1>1, <1>3, OthersChange
<1> QED  BY <1>4 DEF e

LEMMA CreateSuppressionIInv ==
  ASSUME IInv, CreateSuppression  PROVE IInv'
<1> DEFINE r == request.suppress.rule
           m == request.suppress.monitor
           rules == Append(db.rules[m], [kind |-> r.kind, value |-> r.value, until |-> clock + r.for])
<1>1. Answers("suppress", [db EXCEPT !.rules[m] = rules])  BY DEF CreateSuppression
<1>2. m \in Monitor  BY DEF IInv, OthersTyped, Requests, CreateSuppression
<1> HIDE DEF rules, m
<1>3. Sound([db EXCEPT !.rules[m] = rules])  BY <1>2, RulesChange DEF IInv
<1> QED  BY <1>1, <1>3, AnswersIInv

LEMMA DeleteSuppressionIInv ==
  ASSUME IInv, NEW m \in Monitor, DeleteSuppression(m)  PROVE IInv'
<1> DEFINE kept(i) == [j \in DOMAIN db.rules[m] \ {i} |-> db.rules[m][j]]
           rules(i) == [k \in 1..(Len(db.rules[m]) - 1) |-> IF k < i THEN kept(i)[k] ELSE kept(i)[k + 1]]
<1>1. PICK i \in DOMAIN db.rules[m] : Writes([db EXCEPT !.rules[m] = rules(i)])
  BY DEF DeleteSuppression
<1>2. request' = request /\ live' = live  BY DEF DeleteSuppression
<1> HIDE DEF rules
<1>3. Sound([db EXCEPT !.rules[m] = rules(i)])  BY RulesChange DEF IInv
<1> QED  BY <1>1, <1>2, <1>3, WritesIInv

LEMMA UpdateBaselineIInv ==
  ASSUME IInv, NEW m \in Monitor, NEW b \in Baseline, UpdateBaseline(m, b)  PROVE IInv'
<1> DEFINE r == [db.monitor[m] EXCEPT !.baseline = b]
<1>1. Sound(db) /\ db.monitor[m] \in Row  BY DEF IInv, Sound, Fields, UpdateBaseline, Present
<1>2. r \in Row  BY <1>1 DEF Row, MonitorRow
<1>3. [db EXCEPT !.monitor[m].baseline = b] = [db EXCEPT !.monitor[m] = r]  OBVIOUS
<1> HIDE DEF r
<1>4. Sound([db EXCEPT !.monitor[m] = r])  BY <1>1, <1>2, RowChange
<1>5. Writes([db EXCEPT !.monitor[m] = r]) /\ request' = request /\ live' = live  BY <1>3 DEF UpdateBaseline
<1> QED  BY <1>4, <1>5, WritesIInv

-----------------------------------------------------------------------------
(* Sessions that run monitors.                                             *)

LEMMA SessionGoes ==
  ASSUME IInv, NEW s \in Sessions, NEW x, GoodSession(x), session' = [session EXCEPT ![s] = x]
  PROVE  SessionsGood'
<1>1. SessionsGood  BY DEF IInv
<1>2. DOMAIN session' = Sessions /\ session' = [y \in Sessions |-> session'[y]]
  BY <1>1 DEF SessionsGood
<1>3. \A y \in Sessions : GoodSession(session'[y])  BY <1>1 DEF SessionsGood
<1> QED  BY <1>2, <1>3 DEF SessionsGood, GoodSession

\* A step that leaves the database alone.
LEMMA QuietIInv ==
  ASSUME IInv, UNCHANGED <<db, committed, request, live, clock>>, SessionsGood'
  PROVE  IInv'
<1>1. Sound(db') /\ Sound(committed')  BY DEF IInv
<1>2. ClosedAgree' /\ OthersTyped'  BY DEF IInv, ClosedAgree, OthersTyped
<1> QED  BY <1>1, <1>2 DEF IInv, Sound, Fields, Shape, NoOrphans, DriftsReal, DriftsTold, ScansTold

LEMMA IdleIsGood == GoodSession(Idle)
BY DEF GoodSession, Idle, SessionFields

\* The rest of a batch, after a monitor.
LEMMA RestIsGood ==
  ASSUME NEW x, GoodSession(x), NEW todo, NEW seen,
         \A m \in Monitor : m \in DOMAIN seen => seen[m] \in Row,
         NEW work \in {None} \cup Work
  PROVE  GoodSession([x EXCEPT !.todo = todo, !.work = work, !.seen = seen])
<1> DEFINE y == [x EXCEPT !.todo = todo, !.work = work, !.seen = seen]
<1>1. /\ DOMAIN y = SessionFields /\ y = [f \in SessionFields |-> y[f]]
      /\ y.seen = seen /\ y.work = work
  BY DEF GoodSession, SessionFields
<1> HIDE DEF y
<1>2. \A m \in Monitor : m \in DOMAIN y.seen => y.seen[m] \in Row
  BY <1>1 DEF GoodSession
<1>3. GoodSession(y)  BY <1>1, <1>2 DEF GoodSession
<1> QED  BY <1>3 DEF y

\* The row that a session goes by is a row, and what it reads is sound.
LEMMA TurnSeesRow ==
  ASSUME IInv, NEW s \in Sessions, NEW m \in Monitor
  PROVE  /\ Sound(View(s)) /\ GoodSession(session[s])
         /\ RowSeen(s, m) \in Row \cup {NoRow}
         /\ Turn(s, m) => RowSeen(s, m) \in Row
<1>1. Sound(View(s)) /\ GoodSession(session[s])  BY DEF IInv, View, SessionsGood
<1>2. RowSeen(s, m) \in Row \cup {NoRow}
  <2>1. CASE Sees(s, m)  BY <1>1, <2>1 DEF RowSeen, Sees, GoodSession
  <2>2. CASE ~Sees(s, m)  BY <1>1, <2>2 DEF RowSeen, Sound, Fields
  <2> QED  BY <2>1, <2>2
<1> QED  BY <1>1, <1>2 DEF Turn

LEMMA StartTickIInv ==
  ASSUME IInv, StartTick  PROVE IInv'
<1> DEFINE todo == InOrder(EnabledMonitors)
           seen == [m \in EnabledMonitors |-> committed.monitor[m]]
           x == [Idle EXCEPT !.on = TRUE, !.todo = todo, !.seen = seen]
<1>1. session' = [session EXCEPT !["tick"] = x] /\ UNCHANGED <<db, committed, request, live, clock>>
  BY DEF StartTick
<1>2. \A m \in Monitor : m \in DOMAIN seen => seen[m] \in Row
  BY DEF EnabledMonitors, IInv, Sound, Fields
<1> HIDE DEF seen, todo
<1>3. GoodSession(x)  BY <1>2 DEF GoodSession, Idle, SessionFields
<1> HIDE DEF x
<1>4. SessionsGood'  BY <1>1, <1>3, SessionGoes DEF Sessions
<1> QED  BY <1>1, <1>4, QuietIInv

LEMMA StartManualIInv ==
  ASSUME IInv, NEW m \in Monitor, StartManual(m)  PROVE IInv'
<1> DEFINE seen == [y \in {m} |-> committed.monitor[y]]
           x == [Idle EXCEPT !.on = TRUE, !.manual = TRUE, !.todo = <<m>>, !.seen = seen]
<1>1. session' = [session EXCEPT !["manual"] = x] /\ UNCHANGED <<db, committed, request, live, clock>>
  BY DEF StartManual
<1>2. \A y \in Monitor : y \in DOMAIN seen => seen[y] \in Row
  BY DEF StartManual, IInv, Sound, Fields
<1> HIDE DEF seen
<1>3. GoodSession(x)  BY <1>2 DEF GoodSession, Idle, SessionFields
<1> HIDE DEF x
<1>4. SessionsGood'  BY <1>1, <1>3, SessionGoes DEF Sessions
<1> QED  BY <1>1, <1>4, QuietIInv

LEMMA SkipIInv ==
  ASSUME IInv, NEW s \in Sessions, NEW m \in Monitor, Skip(s, m)  PROVE IInv'
<1> DEFINE old == session[s]
           x == [old EXCEPT !.todo = Rest(s), !.work = old.work, !.seen = old.seen]
<1>1. GoodSession(old)  BY TurnSeesRow
<1>2. GoodSession(x)  BY <1>1, RestIsGood DEF GoodSession
<1>3. [old EXCEPT !.todo = Rest(s)] = x  BY <1>1 DEF GoodSession, SessionFields
<1>4. session' = [session EXCEPT ![s] = x] /\ UNCHANGED <<db, committed, request, live, clock>>
  BY <1>3 DEF Skip
<1> HIDE DEF x
<1>5. SessionsGood'  BY <1>2, <1>4, SessionGoes
<1> QED  BY <1>4, <1>5, QuietIInv

LEMMA LookIInv ==
  ASSUME IInv, NEW s \in Sessions, NEW m \in Monitor, Look(s, m)  PROVE IInv'
<1> DEFINE old == session[s]
           row == RowSeen(s, m)
           c == View(s).query[row.query]
           work == [analysis |-> row.analysis, content |-> c, stored |-> Cached(View(s), row.analysis, c)]
           seen == [x \in DOMAIN old.seen \cup {m} |-> RowSeen(s, x)]
           x == [old EXCEPT !.todo = old.todo, !.work = work, !.seen = seen]
<1>1. GoodSession(old) /\ Sound(View(s)) /\ row \in Row  BY TurnSeesRow DEF Look
<1>2. Runnable(View(s), row)  BY DEF Look
<1>3. work \in Work
  <2>1. row.analysis \in Analysis /\ row.query \in Query  BY <1>1 DEF Row, MonitorRow
  <2>2. c \in Content  BY <1>1, <1>2, <2>1 DEF Runnable, Sound, Fields
  <2>3. Cached(View(s), row.analysis, c) \in BOOLEAN  BY DEF Cached
  <2> QED  BY <2>1, <2>2, <2>3 DEF Work
<1>4. \A y \in Monitor : y \in DOMAIN seen => seen[y] \in Row
  <2>1. \A y \in Monitor : y \in DOMAIN old.seen => RowSeen(s, y) \in Row
    BY <1>1 DEF RowSeen, Sees, GoodSession
  <2> QED  BY <1>1, <2>1
<1>5. /\ UNCHANGED <<db, committed, request, live, clock>>
      /\ session' = [session EXCEPT ![s].work = work, ![s].seen = seen]
  BY DEF Look
<1> HIDE DEF work, seen
<1>6. GoodSession(x)  BY <1>1, <1>3, <1>4, RestIsGood
<1>7. [old EXCEPT !.work = work, !.seen = seen] = x  BY <1>1 DEF GoodSession, SessionFields
<1>8. session' = [session EXCEPT ![s] = x]  BY <1>5, <1>7 DEF IInv, SessionsGood
<1> HIDE DEF x
<1>9. SessionsGood'  BY <1>6, <1>8, SessionGoes
<1> QED  BY <1>5, <1>9, QuietIInv

LEMMA RereadIInv ==
  ASSUME IInv, NEW s \in Sessions, NEW m \in Monitor, Reread(s, m)  PROVE IInv'
<1> DEFINE old == session[s]
           seen == [x \in {m} |-> RowSeen(s, x)]
           x == [old EXCEPT !.todo = old.todo, !.work = old.work, !.seen = seen]
<1>1. GoodSession(old)  BY TurnSeesRow
<1>2. \A y \in Monitor : y \in DOMAIN seen => seen[y] \in Row
  <2>1. RowSeen(s, m) \in Row  BY TurnSeesRow DEF Reread
  <2> QED  BY <2>1
<1>3. UNCHANGED <<db, committed, request, live, clock>> /\ session' = [session EXCEPT ![s].seen = seen]
  BY DEF Reread
<1> HIDE DEF seen
<1>4. GoodSession(x)
  <2>1. old.work \in {None} \cup Work  BY <1>1 DEF GoodSession
  <2> QED  BY <1>1, <1>2, <2>1, RestIsGood
<1>5. [old EXCEPT !.seen = seen] = x  BY <1>1 DEF GoodSession, SessionFields
<1>6. session' = [session EXCEPT ![s] = x]  BY <1>3, <1>5
<1> HIDE DEF x
<1>7. SessionsGood'  BY <1>4, <1>6, SessionGoes
<1> QED  BY <1>3, <1>7, QuietIInv

LEMMA DoneIsGood ==
  ASSUME IInv, NEW s \in Sessions, Done(s)
  PROVE  SessionsGood'
<1> DEFINE old == session[s]
           x == [old EXCEPT !.todo = Rest(s), !.work = None, !.seen = old.seen]
<1>1. GoodSession(old)  BY DEF IInv, SessionsGood
<1>2. GoodSession(x)  BY <1>1, RestIsGood DEF GoodSession
<1>3. [old EXCEPT !.todo = Rest(s), !.work = None] = x  BY <1>1 DEF GoodSession, SessionFields
<1>4. session' = [session EXCEPT ![s] = x]  BY <1>3 DEF Done, IInv, SessionsGood
<1> HIDE DEF x
<1> QED  BY <1>2, <1>4, SessionGoes

\* A step of a session that writes.
LEMMA SessionIInv ==
  ASSUME IInv, Sound(db'), Sound(committed'), ClosedAgree', SessionsGood',
         UNCHANGED <<request, live, clock>>
  PROVE  IInv'
<1>1. OthersTyped'  BY DEF IInv, OthersTyped
<1> QED  BY <1>1 DEF IInv, Sound, Fields, Shape, NoOrphans, DriftsReal, DriftsTold, ScansTold

LEMMA RunMonitorIInv ==
  ASSUME IInv, NEW s \in Sessions, NEW m \in Monitor, RunMonitor(s, m)  PROVE IInv'
<1> DEFINE row == RowSeen(s, m)
           c == session[s].work.content
           manual == session[s].manual
           e == AfterRun(db, m, row, c, ResultOf[c], manual)
<1>1. /\ Present(m) /\ Done(s) /\ Sees(s, m) /\ session[s].work # None
      /\ UNCHANGED <<committed, request, live, clock>>
  BY DEF RunMonitor, Working
<1>2. db' = e  BY DEF RunMonitor, Found
<1>3. Sound(db) /\ clock \in Int /\ db.monitor[m] # NoRow /\ c \in Content
  BY <1>1 DEF IInv, OthersTyped, Present, SessionsGood, GoodSession, Work
<1>4. row \in Row  BY <1>1 DEF RowSeen, Sees, IInv, SessionsGood, GoodSession
<1> HIDE DEF row, c, manual
<1>5. /\ Sound(e)
      /\ \A x \in Analysis : db.analysis[x].workflow \in Terminal =>
           e.analysis[x].workflow = db.analysis[x].workflow
  <2>1. Sound(db) /\ m \in Monitor /\ db.monitor[m] # NoRow /\ row \in Row /\ c \in Content /\ clock \in Int
    BY <1>3, <1>4
  <2> QED  BY <2>1, RunSound DEF manual
<1> HIDE DEF e
<1>6. Sound(db') /\ Sound(committed')  BY <1>1, <1>2, <1>5 DEF IInv
<1>7. ClosedAgree'  BY <1>1, <1>2, <1>5 DEF IInv, ClosedAgree
<1>8. SessionsGood'  BY <1>1, DoneIsGood
<1> QED  BY <1>1, <1>6, <1>7, <1>8, SessionIInv

\* The result that a session has computed goes to the cache.
LEMMA StoredSound ==
  ASSUME NEW d, Sound(d), NEW a \in Analysis, NEW c
  PROVE  LET e == [d EXCEPT !.cache = @ \cup {Entry(a, c, "user")}] IN
         Sound(e) /\ e.analysis = d.analysis
<1> DEFINE x == Entry(a, c, "user")
           e == [d EXCEPT !.cache = @ \cup {x}]
<1>1. x.by = "user" /\ x.analysis \in Analysis  BY DEF Entry
<1> HIDE DEF x
<1>2. /\ Shape(e)
      /\ e.cache = d.cache \cup {x} /\ e.overlooked = d.overlooked
      /\ e.monitor = d.monitor /\ e.runs = d.runs /\ e.outcomes = d.outcomes /\ e.query = d.query
      /\ e.analysis = d.analysis /\ e.rules = d.rules /\ e.notes = d.notes
  BY DEF Sound, Fields, Shape, Tables
<1> HIDE DEF e
<1>3. Sound(e)  BY <1>1, <1>2, EntryAdded
<1> QED  BY <1>2, <1>3 DEF e, x

LEMMA StoreIInv ==
  ASSUME IInv, NEW s \in Sessions, NEW m \in Monitor, Store(s, m)  PROVE IInv'
<1> DEFINE old == session[s]
           work == [old.work EXCEPT !.stored = TRUE]
           x == [old EXCEPT !.todo = old.todo, !.work = work, !.seen = <<>>]
<1>1. /\ db' = Storing(s) /\ committed' = Storing(s) /\ UNCHANGED <<request, live, clock>>
      /\ session' = [session EXCEPT ![s].work.stored = TRUE, ![s].seen = <<>>]
      /\ old.work # None
  BY DEF Store, Working
<1>2. GoodSession(old) /\ old.work \in Work  BY <1>1 DEF IInv, SessionsGood, GoodSession
<1>3. work \in Work /\ old.work.analysis \in Analysis  BY <1>2 DEF Work
<1>4. Sound(Storing(s))  BY <1>3, StoredSound DEF Storing, IInv
<1>5. [old EXCEPT !.work.stored = TRUE, !.seen = <<>>] = x  BY <1>2 DEF GoodSession, SessionFields
<1>6. GoodSession(x)
  <2>1. \A m1 \in Monitor : m1 \in DOMAIN <<>> => <<>>[m1] \in Row  OBVIOUS
  <2> HIDE DEF work
  <2> QED  BY <1>2, <1>3, <2>1, RestIsGood
<1>7. session' = [session EXCEPT ![s] = x]  BY <1>1, <1>5 DEF IInv, SessionsGood
<1> HIDE DEF x
<1>8. SessionsGood'  BY <1>6, <1>7, SessionGoes
<1>9. Sound(db') /\ Sound(committed') /\ ClosedAgree'  BY <1>1, <1>4 DEF ClosedAgree
<1> QED  BY <1>1, <1>8, <1>9, SessionIInv

\* A session that gives up what it has not committed.
LEMMA RollBackIInv ==
  ASSUME IInv, NEW s \in Sessions, RollBack(s), SessionsGood'  PROVE IInv'
<1>1. /\ db' = committed \/ db' = db
      /\ UNCHANGED <<committed, request, live, clock>>
  BY DEF RollBack
<1>2. Sound(db') /\ Sound(committed') /\ ClosedAgree'  BY <1>1 DEF IInv, ClosedAgree
<1> QED  BY <1>1, <1>2, SessionIInv

LEMMA RunRefusedIInv ==
  ASSUME IInv, NEW s \in Sessions, NEW m \in Monitor, RunRefused(s, m)  PROVE IInv'
<1> DEFINE old == session[s]
           rest == [old EXCEPT !.todo = Rest(s), !.work = None, !.seen = <<>>]
           x == IF old.manual THEN Idle ELSE rest
<1>1. GoodSession(old)  BY DEF IInv, SessionsGood
<1>2. [old EXCEPT !.todo = Rest(s), !.seen = <<>>, !.work = None] = rest
  BY <1>1 DEF GoodSession, SessionFields
<1>3. GoodSession(rest)
  <2>1. \A m1 \in Monitor : m1 \in DOMAIN <<>> => <<>>[m1] \in Row  OBVIOUS
  <2> QED  BY <1>1, <2>1, RestIsGood
<1>4. GoodSession(x)  BY <1>3, IdleIsGood
<1>5. session' = [session EXCEPT ![s] = x]  BY <1>2 DEF RunRefused
<1> HIDE DEF x
<1>6. SessionsGood'  BY <1>4, <1>5, SessionGoes
<1>7. RollBack(s)  BY DEF RunRefused
<1> QED  BY <1>6, <1>7, RollBackIInv

LEMMA RunFailsIInv ==
  ASSUME IInv, NEW s \in Sessions, NEW m \in Monitor, RunFails(s, m)  PROVE IInv'
<1>1. session' = [session EXCEPT ![s] = Idle] /\ RollBack(s)  BY DEF RunFails
<1>2. SessionsGood'  BY <1>1, IdleIsGood, SessionGoes
<1> QED  BY <1>1, <1>2, RollBackIInv

LEMMA CommitIInv ==
  ASSUME IInv, NEW s \in Sessions, Commit(s)  PROVE IInv'
<1>1. /\ session' = [session EXCEPT ![s] = Idle] /\ UNCHANGED <<db, request, live, clock>>
      /\ committed' = db \/ committed' = committed
  BY DEF Commit
<1>2. SessionsGood'  BY <1>1, IdleIsGood, SessionGoes
<1>3. Sound(db') /\ Sound(committed') /\ ClosedAgree'  BY <1>1 DEF IInv, ClosedAgree
<1> QED  BY <1>1, <1>2, <1>3, SessionIInv

-----------------------------------------------------------------------------
(* The retention thread, and the clock.                                    *)

LEMMA StartsIInv ==
  ASSUME IInv, NEW what \in {"scan", "create"}, NEW a \in Analysis, NEW c \in Content, Starts(what, a, c)
  PROVE  IInv'
<1>1. /\ live' = [does |-> what, analysis |-> a, content |-> c, hit |-> Cached(committed, a, c)]
      /\ UNCHANGED <<db, committed, session, request, clock>>
  BY DEF Starts
<1>2. Cached(committed, a, c) \in BOOLEAN  BY DEF Cached
<1>3. OthersTyped'  BY <1>1, <1>2 DEF IInv, OthersTyped
<1>4. SessionsGood' /\ ClosedAgree' /\ Sound(db') /\ Sound(committed')
  BY <1>1 DEF IInv, SessionsGood, ClosedAgree
<1> QED  BY <1>3, <1>4 DEF IInv, Sound, Fields, Shape, NoOrphans, DriftsReal, DriftsTold, ScansTold

\* What the thread writes, it commits.
LEMMA LiveIInv ==
  ASSUME IInv, Sound(db'), committed' = db', live' = None, UNCHANGED <<session, request, clock>>
  PROVE  IInv'
<1>1. Sound(committed') /\ ClosedAgree'  BY DEF ClosedAgree
<1>2. SessionsGood' /\ OthersTyped'  BY DEF IInv, SessionsGood, OthersTyped
<1> QED  BY <1>1, <1>2 DEF IInv, Sound, Fields, Shape, NoOrphans, DriftsReal, DriftsTold, ScansTold

LEMMA ScanStoresIInv ==
  ASSUME IInv, ScanStores  PROVE IInv'
<1> DEFINE a == live.analysis
           c == live.content
           notes == ScanNotes(a, ResultOf[c])
           x == Entry(a, c, "scan")
           told == [db EXCEPT !.notes = @ \cup notes]
           stored == [db EXCEPT !.cache = @ \cup {x}, !.notes = @ \cup notes]
<1>1. /\ committed' = db' /\ live' = None /\ UNCHANGED <<session, request, clock>>
      /\ db' = told \/ db' = db \/ db' = stored
  BY DEF ScanStores, Found
<1>2. Sound(db) /\ a \in Analysis /\ c \in Content  BY DEF IInv, OthersTyped, ScanStores
<1>3. /\ x.analysis = a /\ x.content = c
      /\ Impaired(ResultOf[c]) => Note(OwnerOf(db, a), "auto", a) \in notes
  BY DEF Entry, ScanNotes
<1> HIDE DEF notes, x, a, c
<1>4. /\ Shape(told)
      /\ told.cache = db.cache /\ told.notes = db.notes \cup notes
      /\ told.monitor = db.monitor /\ told.runs = db.runs /\ told.outcomes = db.outcomes
      /\ told.overlooked = db.overlooked
      /\ told.query = db.query /\ told.analysis = db.analysis /\ told.rules = db.rules
  BY <1>2 DEF Sound, Fields, Shape, Tables
<1>5. /\ Shape(stored)
      /\ stored.cache = db.cache \cup {x} /\ stored.notes = db.notes \cup notes
      /\ stored.monitor = db.monitor /\ stored.runs = db.runs /\ stored.outcomes = db.outcomes
      /\ stored.overlooked = db.overlooked
      /\ stored.query = db.query /\ stored.analysis = db.analysis /\ stored.rules = db.rules
  BY <1>2 DEF Sound, Fields, Shape, Tables
<1> HIDE DEF told, stored
<1>6. Sound(told)  BY <1>2, <1>4, EntryAdded
<1>7. Sound(stored)  BY <1>2, <1>3, <1>5, EntryAdded
<1>8. Sound(db')  BY <1>1, <1>2, <1>6, <1>7
<1> QED  BY <1>1, <1>8, LiveIInv

LEMMA AutoCreatesIInv ==
  ASSUME IInv, AutoCreates  PROVE IInv'
<1>1. /\ committed' = db' /\ live' = None /\ UNCHANGED <<session, request, clock>>
      /\ NextId \in Monitor /\ live # None
  BY DEF AutoCreates
<1> DEFINE c == live.content
           r(q) == NewMonitor(live.analysis, q, TRUE)
           d(q) == [db EXCEPT !.query[q] = c]
           e(q) == [db EXCEPT !.query[q] = c, !.monitor[NextId] = r(q)]
<1>2. PICK q \in Query : db' = e(q)  BY DEF AutoCreates
<1>3. Sound(db) /\ live.analysis \in Analysis /\ c \in Content  BY <1>1 DEF IInv, OthersTyped
<1>4. Sound(d(q))  BY <1>3, QueryChange
<1>5. r(q) \in Row  BY <1>3, NewIsRow
<1> HIDE DEF c, r
<1>6. e(q) = [d(q) EXCEPT !.monitor[NextId] = r(q)]  BY <1>3 DEF Sound, Fields, Shape, Tables
<1> HIDE DEF d, e
<1>7. Sound(e(q))  BY <1>1, <1>4, <1>5, <1>6, RowChange
<1>8. Sound(db')  BY <1>2, <1>7
<1> QED  BY <1>1, <1>8, LiveIInv

LEMMA TickIInv ==
  ASSUME IInv, Tick  PROVE IInv'
<1>1. clock' \in Nat /\ UNCHANGED <<db, committed, session, request, live>>
  BY DEF Tick, IInv, OthersTyped
<1>2. SessionsGood' /\ ClosedAgree' /\ OthersTyped'  BY <1>1 DEF IInv, SessionsGood, ClosedAgree, OthersTyped
<1>3. Sound(db') /\ Sound(committed')  BY <1>1 DEF IInv
<1> QED  BY <1>2, <1>3 DEF IInv, Sound, Fields, Shape, NoOrphans, DriftsReal, DriftsTold, ScansTold

LEMMA StutterIInv ==
  ASSUME IInv, UNCHANGED vars  PROVE IInv'
<1>1. UNCHANGED <<db, committed, session, request, live, clock>>  BY DEF vars
<1>2. SessionsGood'  BY <1>1 DEF IInv, SessionsGood
<1> QED  BY <1>1, <1>2, QuietIInv

LEMMA NextIInv ==
  ASSUME IInv, Next  PROVE IInv'
<1>1. CASE \E a \in Analysis : \/ \E q \in Query : AskMonitor(a, q)
                               \/ \E c \in Content : ScanReads(a, c) \/ AutoReads(a, c)
                               \/ DeleteAnalysis(a) \/ CompleteAnalysis(a)
                               \/ \E w \in Terminal : SetWorkflow(a, w)
  <2> PICK a \in Analysis : \/ \E q \in Query : AskMonitor(a, q)
                            \/ \E c \in Content : ScanReads(a, c) \/ AutoReads(a, c)
                            \/ DeleteAnalysis(a) \/ CompleteAnalysis(a)
                            \/ \E w \in Terminal : SetWorkflow(a, w)
    BY <1>1
  <2>1. CASE \E q \in Query : AskMonitor(a, q)  BY <2>1, AskMonitorIInv
  <2>2. CASE \E c \in Content : ScanReads(a, c) \/ AutoReads(a, c)
    <3>1. PICK c \in Content : \E what \in {"scan", "create"} : Starts(what, a, c)
      BY <2>2 DEF ScanReads, AutoReads
    <3> QED  BY <3>1, StartsIInv
  <2>3. CASE DeleteAnalysis(a)  BY <2>3, DeleteAnalysisIInv
  <2>4. CASE CompleteAnalysis(a)  BY <2>4, CompleteAnalysisIInv
  <2>5. CASE \E w \in Terminal : SetWorkflow(a, w)  BY <2>5, SetWorkflowIInv
  <2> QED  BY <2>1, <2>2, <2>3, <2>4, <2>5
<1>2. CASE CreateMonitor \/ DeleteSavedQuery \/ CreateSuppression
  BY <1>2, CreateMonitorIInv, DeleteSavedQueryIInv, CreateSuppressionIInv
<1>3. CASE \E q \in Query : AskDelete(q) \/ \E c \in Content : UpdateSavedQuery(q, c)
  BY <1>3, AskDeleteIInv, UpdateSavedQueryIInv
<1>4. CASE \E m \in Monitor : UpdateMonitor(m) \/ DeleteMonitor(m) \/ DeleteSuppression(m) \/ StartManual(m)
  BY <1>4, UpdateMonitorIInv, DeleteMonitorIInv, DeleteSuppressionIInv, StartManualIInv
<1>5. CASE \E m \in Monitor : \/ \E o \in Outcome : RecordOutcome(m, o)
                              \/ \E b \in Baseline : UpdateBaseline(m, b)
                              \/ \E r \in Rule : AskSuppression(m, r)
  BY <1>5, RecordOutcomeIInv, UpdateBaselineIInv, AskSuppressionIInv
<1>6. CASE \E m \in Monitor : \E s \in Sessions :
             \/ Skip(s, m) \/ Look(s, m) \/ Store(s, m) \/ Reread(s, m) \/ RunMonitor(s, m)
             \/ RunRefused(s, m) \/ RunFails(s, m)
  BY <1>6, SkipIInv, LookIInv, StoreIInv, RereadIInv, RunMonitorIInv, RunRefusedIInv, RunFailsIInv
<1>7. CASE ScanStores  BY <1>7, ScanStoresIInv
<1>8. CASE ScanFails
  <2>1. live' = None /\ UNCHANGED <<db, committed, session, request, clock>>  BY <1>8 DEF ScanFails
  <2>2. SessionsGood' /\ ClosedAgree' /\ OthersTyped'  BY <2>1 DEF IInv, SessionsGood, ClosedAgree, OthersTyped
  <2>3. Sound(db') /\ Sound(committed')  BY <2>1 DEF IInv
  <2> QED  BY <2>2, <2>3 DEF IInv, Sound, Fields, Shape, NoOrphans, DriftsReal, DriftsTold, ScansTold
<1>9. CASE AutoCreates  BY <1>9, AutoCreatesIInv
<1>10. CASE StartTick  BY <1>10, StartTickIInv
<1>11. CASE \E s \in Sessions : Commit(s)  BY <1>11, CommitIInv
<1>12. CASE Tick  BY <1>12, TickIInv
<1> QED
  BY <1>1, <1>2, <1>3, <1>4, <1>5, <1>6, <1>7, <1>8, <1>9, <1>10, <1>11, <1>12 DEF Next, Sessions

\* The invariant holds of every state.
LEMMA Inductive == Spec => []IInv
<1>1. IInv /\ [Next]_vars => IInv'  BY NextIInv, StutterIInv
<1> QED  BY InitIInv, <1>1, PTL DEF Spec

-----------------------------------------------------------------------------
(* The results.                                                            *)

\* However runs, reports and deletions interleave, and whoever gets the id of a deleted
\* monitor next, no run and no outcome outlives its monitor, unless it was made while its saved
\* query was being deleted.
THEOREM HistoryGoesWithMonitor == Spec => []NoOrphanHistory
<1>1. IInv => NoOrphanHistory  BY DEF IInv, Sound, NoOrphans, NoOrphanHistory, Present
<1> QED  BY Inductive, <1>1, PTL

\* Every drift comes from an edit of the query and is told while its analysis exists, and so
\* is what a scan found.
THEOREM DriftsRealAndTold == Spec => []DriftsAreRealAndTold
<1>1. IInv => DriftNeedsEdit  BY DEF IInv, Sound, DriftsReal, DriftNeedsEdit
<1>2. IInv => DriftIsTold  BY DEF IInv, Sound, DriftsTold, DriftIsTold
<1>3. IInv => ScanIsTold  BY DEF IInv, Sound, ScansTold, ScanIsTold
<1> QED  BY Inductive, <1>1, <1>2, <1>3, PTL DEF DriftsAreRealAndTold

\* What a request, a run or the retention thread commits does not reopen an analysis that an
\* analyst closed.
LEMMA NothingReopens ==
  ASSUME IInv, Next, NEW a \in Analysis, committed.analysis[a].workflow \in Terminal
  PROVE  committed'.analysis[a].workflow # "needs_review"
<1> DEFINE Goal == committed'.analysis[a].workflow # "needs_review"
<1>1. /\ db.analysis[a].workflow = committed.analysis[a].workflow
      /\ "needs_review" \notin Terminal
      /\ Sound(db) /\ db.analysis \in [Analysis -> AnalysisRow]
  BY DEF IInv, ClosedAgree, Terminal, Sound, Fields
<1>2. ASSUME committed'.analysis = db.analysis \/ committed' = committed  PROVE Goal  BY <1>1, <1>2
<1>3. ASSUME NEW e, Writes(e), e.analysis = db.analysis  PROVE Goal
  <2>1. committed'.analysis = db.analysis  BY <1>3 DEF Writes
  <2> QED  BY <1>2, <2>1
<1>3a. ASSUME NEW kind, NEW e, Answers(kind, e), e.analysis = db.analysis  PROVE Goal
  <2>1. committed'.analysis = db.analysis  BY <1>3a DEF Answers
  <2> QED  BY <1>2, <2>1
<1> HIDE DEF Goal
<1>4. ASSUME CreateMonitor  PROVE Goal
  <2> DEFINE r(b) == NewMonitor(request.create.analysis, request.create.query, b)
  <2>1. PICK b \in BOOLEAN : Answers("create", [db EXCEPT !.monitor[NextId] = r(b)])
    BY <1>4 DEF CreateMonitor
  <2> HIDE DEF r
  <2>2. [db EXCEPT !.monitor[NextId] = r(b)].analysis = db.analysis
    BY <1>1 DEF Sound, Fields, Shape, Tables
  <2> QED  BY <1>3a, <2>1, <2>2
<1>5. ASSUME NEW q \in Query, NEW c \in Content, UpdateSavedQuery(q, c)  PROVE Goal
  <2>1. Writes([db EXCEPT !.query[q] = c])  BY <1>5 DEF UpdateSavedQuery
  <2>2. [db EXCEPT !.query[q] = c].analysis = db.analysis  BY <1>1 DEF Sound, Fields, Shape, Tables
  <2> QED  BY <1>3, <2>1, <2>2
<1>5a. ASSUME DeleteSavedQuery  PROVE Goal
  <2> DEFINE q == request.delete.query
             ids == request.delete.ids
             R == MonitorsOf(db, q)
             e == [Forget(WithoutRows(db, R), ids) EXCEPT !.query[q] = NoRow,
                                                          !.overlooked = @ \cup (R \ ids)]
  <2>1. Answers("delete", e)  BY <1>5a DEF DeleteSavedQuery
  <2>2. q \in Query  BY <1>5a DEF IInv, OthersTyped, Requests, DeleteSavedQuery
  <2> HIDE DEF q, ids, R
  <2>3. e.analysis = db.analysis
    <3>1. Sound(db)  BY <1>1
    <3> QED  BY <2>2, <3>1, DeletedSound
  <2> HIDE DEF e
  <2> QED  BY <1>3a, <2>1, <2>3
<1>6. ASSUME NEW m \in Monitor, NEW f \in {"monitor", "rules"}, NEW x, Writes([db EXCEPT ![f][m] = x])
      PROVE  Goal
  <2>1. [db EXCEPT ![f][m] = x].analysis = db.analysis  BY <1>1 DEF Sound, Fields, Shape, Tables
  <2> QED  BY <1>3, <1>6, <2>1
<1>7. ASSUME NEW m \in Monitor, UpdateMonitor(m)  PROVE Goal
  <2> DEFINE x == [db.monitor[m] EXCEPT !.enabled = ~@]
  <2>1. [db EXCEPT !.monitor[m].enabled = ~@] = [db EXCEPT !.monitor[m] = x]  OBVIOUS
  <2>2. Writes([db EXCEPT !.monitor[m] = x])  BY <1>7, <2>1 DEF UpdateMonitor
  <2> HIDE DEF x
  <2> QED  BY <1>6, <2>2
<1>8. ASSUME NEW m \in Monitor, NEW b \in Baseline, UpdateBaseline(m, b)  PROVE Goal
  <2>1. Writes([db EXCEPT !.monitor[m] = [@ EXCEPT !.baseline = b]])  BY <1>8 DEF UpdateBaseline
  <2> QED  BY <1>6, <2>1
<1>9. ASSUME NEW m \in Monitor, DeleteMonitor(m)  PROVE Goal
  <2>1. WithoutMonitors(db, {m}).analysis = db.analysis  BY <1>1, WithoutMonitorsSound
  <2>2. Writes(WithoutMonitors(db, {m}))  BY <1>9 DEF DeleteMonitor
  <2> QED  BY <1>3, <2>1, <2>2
<1>10. ASSUME CreateSuppression  PROVE Goal
  <2> DEFINE r == request.suppress.rule
             m == request.suppress.monitor
             x == Append(db.rules[m], [kind |-> r.kind, value |-> r.value, until |-> clock + r.for])
  <2>1. Answers("suppress", [db EXCEPT !.rules[m] = x])  BY <1>10 DEF CreateSuppression
  <2> HIDE DEF x, m
  <2>2. [db EXCEPT !.rules[m] = x].analysis = db.analysis  BY <1>1 DEF Sound, Fields, Shape, Tables
  <2> QED  BY <1>3a, <2>1, <2>2
<1>11. ASSUME NEW m \in Monitor, DeleteSuppression(m)  PROVE Goal
  <2> DEFINE kept(i) == [j \in DOMAIN db.rules[m] \ {i} |-> db.rules[m][j]]
             x(i) == [k \in 1..(Len(db.rules[m]) - 1) |-> IF k < i THEN kept(i)[k] ELSE kept(i)[k + 1]]
  <2>1. PICK i \in DOMAIN db.rules[m] : Writes([db EXCEPT !.rules[m] = x(i)])
    BY <1>11 DEF DeleteSuppression
  <2> HIDE DEF x
  <2> QED  BY <1>6, <2>1
<1>12. ASSUME NEW m \in Monitor, NEW o \in Outcome, RecordOutcome(m, o)  PROVE Goal
  <2> DEFINE x == [outcome |-> o.outcome, cause |-> o.cause,
                   drivers |-> ComputeRiskScore(SummarizeHistory(db.runs[m])).drivers]
             e == [db EXCEPT !.outcomes[m] = Append(@, x), !.monitor[m].outcome = o.outcome]
  <2>1. Writes(e)  BY <1>12 DEF RecordOutcome
  <2> HIDE DEF x
  <2>2. e.analysis = db.analysis  BY <1>1 DEF Sound, Fields, Shape, Tables
  <2> HIDE DEF e
  <2> QED  BY <1>3, <2>1, <2>2
<1>13. ASSUME NEW b \in Analysis, DeleteAnalysis(b)  PROVE Goal
  <2> DEFINE M == {m \in Monitor : Present(m) /\ db.monitor[m].analysis = b}
             d == WithoutMonitors(db, M)
             e == [d EXCEPT !.analysis[b].status = "gone", !.analysis[b].workflow = "new",
                            !.notes = {n \in @ : n.analysis # b},
                            !.cache = {y \in @ : y.analysis # b}]
  <2>1. Sound(d) /\ d.analysis = db.analysis  BY <1>1, WithoutMonitorsSound
  <2>2. committed' = e  BY <1>13 DEF DeleteAnalysis, Writes
  <2> HIDE DEF d
  <2>3. e.analysis = [d.analysis EXCEPT ![b] = [@ EXCEPT !.status = "gone", !.workflow = "new"]]
    BY <2>1 DEF Sound, Fields, Shape, Tables
  <2>4. e.analysis[b].workflow = "new" /\ \A y \in Analysis \ {b} : e.analysis[y] = d.analysis[y]
    BY <1>1, <2>1, <2>3 DEF AnalysisRow
  <2> HIDE DEF e
  <2> QED  BY <1>1, <2>1, <2>2, <2>4 DEF Goal
<1>14. ASSUME NEW b \in Analysis, CompleteAnalysis(b)  PROVE Goal
  <2> DEFINE e == [db EXCEPT !.analysis[b].status = "completed"]
  <2>1. committed' = e  BY <1>14 DEF CompleteAnalysis, Writes
  <2>2. e.analysis = [db.analysis EXCEPT ![b] = [@ EXCEPT !.status = "completed"]]
    BY <1>1 DEF Sound, Fields, Shape, Tables
  <2>3. \A y \in Analysis : e.analysis[y].workflow = db.analysis[y].workflow  BY <1>1, <2>2 DEF AnalysisRow
  <2> HIDE DEF e
  <2> QED  BY <1>1, <2>1, <2>3 DEF Goal
<1>15. ASSUME NEW b \in Analysis, NEW w \in Terminal, SetWorkflow(b, w)  PROVE Goal
  <2> DEFINE e == [db EXCEPT !.analysis[b].workflow = w]
  <2>1. committed' = e  BY <1>15 DEF SetWorkflow, Writes
  <2>2. e.analysis = [db.analysis EXCEPT ![b] = [@ EXCEPT !.workflow = w]]
    BY <1>1 DEF Sound, Fields, Shape, Tables
  <2>3. e.analysis[b].workflow = w /\ \A y \in Analysis \ {b} : e.analysis[y] = db.analysis[y]
    BY <1>1, <2>2 DEF AnalysisRow
  <2> HIDE DEF e
  <2> QED  BY <1>1, <2>1, <2>3 DEF Goal
<1>16. ASSUME NEW s \in Sessions, NEW m \in Monitor,
              \/ Skip(s, m) \/ Look(s, m) \/ Reread(s, m) \/ RunMonitor(s, m)
              \/ RunRefused(s, m) \/ RunFails(s, m)
       PROVE  Goal
  <2>1. committed' = committed
    BY <1>16 DEF Skip, Look, Reread, RunMonitor, RunRefused, RunFails, RollBack
  <2> QED  BY <1>2, <2>1
<1>17. ASSUME NEW s \in Sessions, NEW m \in Monitor, Store(s, m)  PROVE Goal
  <2>1. committed' = Storing(s)  BY <1>17 DEF Store
  <2>2. Storing(s).analysis = db.analysis  BY <1>1 DEF Storing, Sound, Fields, Shape, Tables
  <2> QED  BY <1>2, <2>1, <2>2
<1>18. ASSUME NEW s \in Sessions, Commit(s)  PROVE Goal  BY <1>2, <1>18 DEF Commit
<1>19. ASSUME ScanStores  PROVE Goal
  <2> DEFINE notes == ScanNotes(live.analysis, ResultOf[live.content])
             x == Entry(live.analysis, live.content, "scan")
             told == [db EXCEPT !.notes = @ \cup notes]
             stored == [db EXCEPT !.cache = @ \cup {x}, !.notes = @ \cup notes]
  <2>1. committed' = told \/ committed' = db \/ committed' = stored  BY <1>19 DEF ScanStores, Found
  <2> HIDE DEF notes, x
  <2>2. told.analysis = db.analysis /\ stored.analysis = db.analysis
    BY <1>1 DEF Sound, Fields, Shape, Tables
  <2> HIDE DEF told, stored
  <2> QED  BY <1>2, <2>1, <2>2
<1>20. ASSUME AutoCreates  PROVE Goal
  <2> DEFINE c == live.content
             r(q) == NewMonitor(live.analysis, q, TRUE)
             e(q) == [db EXCEPT !.query[q] = c, !.monitor[NextId] = r(q)]
  <2>1. PICK q \in Query : committed' = e(q)  BY <1>20 DEF AutoCreates
  <2> HIDE DEF r, c
  <2>2. e(q).analysis = db.analysis  BY <1>1 DEF Sound, Fields, Shape, Tables
  <2> HIDE DEF e
  <2> QED  BY <1>2, <2>1, <2>2
<1>21. ASSUME \/ \E b \in Analysis : \/ \E q \in Query : AskMonitor(b, q)
                                     \/ \E c \in Content : ScanReads(b, c) \/ AutoReads(b, c)
              \/ \E m \in Monitor : StartManual(m) \/ \E r \in Rule : AskSuppression(m, r)
              \/ \E q \in Query : AskDelete(q)
              \/ ScanFails \/ StartTick \/ Tick
       PROVE  Goal
  <2>1. committed' = committed
    BY <1>21 DEF AskMonitor, AskDelete, AskSuppression, Asks, ScanReads, AutoReads, Starts, StartManual, ScanFails, StartTick, Tick
  <2> QED  BY <1>2, <2>1
<1>22. Goal
  <2>1. CASE \E b \in Analysis : \/ DeleteAnalysis(b) \/ CompleteAnalysis(b)
                                 \/ \E w \in Terminal : SetWorkflow(b, w)
    BY <2>1, <1>13, <1>14, <1>15
  <2>2. CASE \E m \in Monitor : \/ UpdateMonitor(m) \/ DeleteMonitor(m) \/ DeleteSuppression(m)
                                \/ \E o \in Outcome : RecordOutcome(m, o)
                                \/ \E b \in Baseline : UpdateBaseline(m, b)
    BY <2>2, <1>7, <1>8, <1>9, <1>11, <1>12
  <2>3. CASE \E m \in Monitor : \E s \in Sessions :
               \/ Skip(s, m) \/ Look(s, m) \/ Store(s, m) \/ Reread(s, m) \/ RunMonitor(s, m)
               \/ RunRefused(s, m) \/ RunFails(s, m)
    BY <2>3, <1>16, <1>17
  <2>4. CASE \E q \in Query : \E c \in Content : UpdateSavedQuery(q, c)  BY <2>4, <1>5
  <2>5. CASE \/ CreateMonitor \/ DeleteSavedQuery \/ CreateSuppression
             \/ ScanStores \/ AutoCreates \/ \E s \in Sessions : Commit(s)
    BY <2>5, <1>4, <1>5a, <1>10, <1>18, <1>19, <1>20
  <2> QED  BY <2>1, <2>2, <2>3, <2>4, <2>5, <1>21 DEF Next, Sessions
<1> QED  BY <1>22 DEF Goal

\* A run never takes an analysis out of the state in which an analyst closed it, also when the
\* batch began, read its rows or found its drift before that.
THEOREM ClosedIsClosed == Spec => ClosedStaysClosed
<1> DEFINE A == \A a \in Analysis : committed.analysis[a].workflow \in Terminal =>
                   committed'.analysis[a].workflow # "needs_review"
<1>1. IInv /\ [Next]_vars => A
  <2>1. ASSUME IInv, Next  PROVE A  BY <2>1, NothingReopens
  <2>2. ASSUME UNCHANGED vars  PROVE A  BY <2>2 DEF vars, Terminal
  <2> QED  BY <2>1, <2>2
<1> HIDE DEF A
<1>2. Spec => [][A]_vars  BY Inductive, <1>1, PTL DEF Spec
<1> QED  BY <1>2 DEF ClosedStaysClosed, A
=============================================================================
