----------------------------- MODULE LivePolicy -----------------------------
(***************************************************************************)
(* What the live side of the backend computes from the rows of its tables, *)
(* without changing them: the behaviour of a source from its flows, its    *)
(* deviation from a baseline, its risk score, the patterns the bridge and  *)
(* the intelligence scan look for, the severity and priority of incidents, *)
(* the intent, tempo and recommendation of an attack session, and the      *)
(* conditions of correlation rules.                                        *)
(*                                                                         *)
(* Confidences and ratios are percentages, times are minutes; severities   *)
(* and criticalities are ranks 0..3 (low, medium, high, critical), None    *)
(* where the column is NULL. The thresholds of the modules are the fields  *)
(* of Tune. Ratios the code rounds to four digits are compared exactly.    *)
(***************************************************************************)
EXTENDS Integers, Sequences, FiniteSets, SequencesExt

CONSTANTS None, Tune

Blocked == {"denied", "dropped"}
OfSource(F, s) == {f \in F : f.src = s}
Since(F, cutoff) == {f \in F : f.last >= cutoff}
InState(F, states) == {f \in F : f.state \in states}
OfType(F, t) == {f \in F : f.type = t}
Sources(F) == {f.src : f \in F}
Dsts(F) == {f.dst : f \in F}
Ports(F) == {f.port : f \in F} \ {None}
Pairs(F) == {<<f.src, f.dst>> : f \in F}
OfPair(F, p) == {f \in F : <<f.src, f.dst>> = p}
AtMost(n, cap) == IF n > cap THEN cap ELSE n
Points(c, n) == IF c THEN n ELSE 0

(* ---- flow_correlation ------------------------------------------------- *)

Metrics(F) ==
  [total |-> Cardinality(F), dsts |-> Cardinality(Dsts(F)), ports |-> Cardinality(Ports(F)),
   completed |-> Cardinality(InState(F, {"completed"})), blocked |-> Cardinality(InState(F, Blocked)),
   resets |-> Cardinality(InState(F, {"reset"})), scanning |-> Cardinality(OfType(F, "scanning")),
   suspicious |-> Cardinality(OfType(F, "suspicious")), unstable |-> Cardinality(OfType(F, "unstable"))]

WidePorts(m) == m.ports >= Tune.scanPorts
WideDsts(m) == m.dsts >= Tune.scanDsts
HighBlocked(m) == 10 * (m.blocked + m.scanning) >= 4 * m.total
IsScanning(m) == /\ m.total >= Tune.scanFlows
                 /\ WidePorts(m) \/ WideDsts(m)
                 /\ HighBlocked(m) \/ m.scanning >= 3
IsLateral(m) == m.dsts >= Tune.lateralDsts /\ 2 * m.completed >= m.total
IsUnstable(m) == 10 * m.resets > 3 * m.total /\ (m.completed > 0 \/ m.unstable > 0)

Classify(m) ==
  LET As(t, c) == [type |-> t, confidence |-> AtMost(c, 95), flows |-> m.total, metrics |-> m]
  IN CASE IsScanning(m) -> As("scanning", 70 + Points(WidePorts(m), 10) + Points(WideDsts(m), 5)
                                             + Points(m.scanning >= 3, 5))
       [] ~IsScanning(m) /\ IsLateral(m) ->
            As("lateral_movement", 60 + Points(m.dsts >= 15, 10) + Points(10 * m.completed > 8 * m.total, 10))
       [] ~IsScanning(m) /\ ~IsLateral(m) /\ IsUnstable(m) ->
            As("unstable", 60 + Points(2 * m.resets > m.total, 10) + Points(m.unstable >= 2, 5))
       [] OTHER -> IF m.suspicious >= 2 THEN As("suspicious", 65 + Points(m.suspicious >= 4, 10))
                   ELSE IF 2 * m.blocked > m.total
                        THEN As("suspicious", 60 + Points(10 * m.blocked > 8 * m.total, 10))
                        ELSE As("normal", 50)

(* ---- baseline --------------------------------------------------------- *)

\* The SQL adds the tens of the minute to the text of the day and hour, which
\* SQLite takes for its year: flows of any hour and day fall into six buckets.
Bucket(first) == <<first \div 525600, (first % 60) \div 10>>

MeanOf(s) == FoldFunction(+, 0, s) \div Len(s)
Root(n) == CHOOSE r \in 0..n : r * r <= n /\ (r + 1) * (r + 1) > n
Deviation(s) ==
  IF Len(s) < 2 THEN 0
  ELSE Root(FoldFunction(+, 0, [i \in DOMAIN s |-> (s[i] - MeanOf(s)) * (s[i] - MeanOf(s))])
            \div (Len(s) - 1))

\* The baseline of one source from its flows, or None with too few buckets.
Baseline(F) ==
  LET buckets == SetToSeq({Bucket(f.first) : f \in F})
      of(b) == {f \in F : Bucket(f.first) = b}
      share(b, st) == (100 * Cardinality(InState(of(b), st))) \div Cardinality(of(b))
      flows == [i \in DOMAIN buckets |-> Cardinality(of(buckets[i]))]
      deny == [i \in DOMAIN buckets |-> share(buckets[i], Blocked)]
      reset == [i \in DOMAIN buckets |-> share(buckets[i], {"reset"})]
  IN IF Len(buckets) < Tune.minWindows THEN None
     ELSE [samples |-> Len(buckets), flows |-> MeanOf(flows), deny |-> MeanOf(deny), reset |-> MeanOf(reset),
           sdFlows |-> Deviation(flows), sdDeny |-> Deviation(deny), sdReset |-> Deviation(reset)]

\* A metric without a stored spread never deviates. Hundredths of a deviation.
ZScore(current, mean, sd) ==
  IF sd = 0 THEN 0
  ELSE (100 * (IF current > mean THEN current - mean ELSE mean - current)) \div sd

DeviationScore(b, base) ==
  LET m == b.metrics
      pct(n) == (100 * n) \div m.total
  IN IF base = None THEN 0
     ELSE AtMost(ZScore(m.total, base.flows, base.sdFlows)
                   + ZScore(pct(m.blocked), base.deny, base.sdDeny)
                   + ZScore(pct(m.resets), base.reset, base.sdReset), 1000)

\* The behaviours of the sources with enough flows since the cutoff.
Behaviours(F, cutoff, bases) ==
  LET of(s) == OfSource(Since(F, cutoff), s)
      behaviour(s) == Classify(Metrics(of(s)))
  IN {[src |-> s, type |-> behaviour(s).type, confidence |-> behaviour(s).confidence,
       flows |-> behaviour(s).flows, deviation |-> DeviationScore(behaviour(s), bases[s])] :
        s \in {t \in Sources(F) : Cardinality(of(t)) >= Tune.minFlows}}

(* ---- live_risk -------------------------------------------------------- *)

Level(score) == CASE score >= 80 -> 3 [] score >= 60 /\ score < 80 -> 2
                  [] score >= 30 /\ score < 60 -> 1 [] OTHER -> 0

\* The points of the first tier that holds.
Tier(c, n, below) == IF c THEN n ELSE below

ScoreIp(m, events) ==
  AtMost(Tier(2 * m.blocked > m.total, 40, Points(10 * m.blocked > 2 * m.total, 20))
         + Tier(m.resets > 10, 20, Points(m.resets > 5, 10))
         + Tier(m.dsts > 20, 25, Tier(m.dsts > 10, 15, Points(m.dsts > 5, 5)))
         + Tier(events > 1000, 15, Points(events > 500, 8))
         + Tier(m.scanning >= 3, 20, Points(m.scanning >= 1, 10))
         + Tier(m.suspicious >= 2, 15, Points(m.suspicious >= 1, 8))
         + Points(m.unstable >= 3, 10), 100)

BehaviourBoost(b) ==
  IF b = None THEN 0
  ELSE IF b.confidence < 60 THEN 0
  ELSE CASE b.type = "scanning" -> 20 [] b.type = "lateral_movement" -> 15
         [] b.type = "suspicious" -> 12 [] b.type = "unstable" -> 10 [] OTHER -> 0

\* m over fifteen minutes, b the source's behaviour over ten (or None)
RiskScore(m, events, b) == AtMost(ScoreIp(m, events) + BehaviourBoost(b), 100)

(* ---- bridge: patterns ------------------------------------------------- *)

BlockedSpike(F) == {s \in Sources(F) :
   Cardinality(InState(OfSource(F, s), Blocked) \cup OfType(OfSource(F, s), "blocked")) > Tune.blockedSpike}
PortScan(F) == {s \in Sources(F) :
   \/ Cardinality(OfType(OfSource(F, s), "scanning")) >= Tune.scanningFlows
   \/ Cardinality(Dsts(OfSource(F, s))) > Tune.scanDstLimit
   \/ Cardinality(Ports(OfSource(F, s))) > Tune.scanPortLimit}
RepeatedReset(F) == {p \in Pairs(F) :
   Cardinality(InState(OfPair(F, p), {"reset"}) \cup OfType(OfPair(F, p), "unstable")) > Tune.resetLimit}
ScanningFlows(F) == {s \in Sources(F) :
   Cardinality(OfType(OfSource(F, s), "scanning")) >= Tune.scanningFlows}
SuspiciousFlows(F) == {s \in Sources(F) :
   Cardinality(OfType(OfSource(F, s), "suspicious")) >= Tune.suspiciousFlows}

\* The messages of one scan, apart from the suppressed sources.
Patterns(F, quiet) ==
     {<<"blocked_flow_spike", s>> : s \in BlockedSpike(F) \ quiet}
  \cup {<<"port_scan", s>> : s \in PortScan(F) \ quiet}
  \cup {<<"repeated_reset", p>> : p \in {q \in RepeatedReset(F) : q[1] \notin quiet}}
  \cup {<<"scanning", s>> : s \in ScanningFlows(F) \ quiet}
  \cup {<<"suspicious", s>> : s \in SuspiciousFlows(F) \ quiet}

(* ---- intelligence: pairs worth an analysis ------------------------------ *)

AnomalousPairs(F, behaviours, flagged) == {p \in Pairs(F) :
  LET P == OfPair(F, p)
      strong(b) == b.src = p[1] /\ b.type \in {"scanning", "suspicious"} /\ b.confidence > 70
  IN \/ Cardinality(InState(P, Blocked)) >= 2
     \/ Cardinality(InState(P, {"reset"})) >= 2
     \/ \E f \in P : f.state = "completed" /\ f.slow
     \/ \E f \in P : f.type = "suspicious"
     \/ Cardinality(OfType(P, "scanning")) >= 2
     \/ \E b \in behaviours : strong(b)
     \/ p[1] \in flagged}

(* ---- incidents -------------------------------------------------------- *)

\* Mutant: only the fifth occurrence raises the severity.
DeriveSeverityOnFifth(type, confidence, count) ==
  LET base == CASE type \in {"scanning", "suspicious"} /\ confidence >= 80 -> 2 [] OTHER -> 0
  IN IF count = 5 /\ base < 2 THEN base + 1 ELSE base
DeriveSeverity(type, confidence, count) ==
  LET base == CASE type \in {"scanning", "suspicious"} ->
                     (CASE confidence >= 80 -> 2 [] confidence >= 70 /\ confidence < 80 -> 1 [] OTHER -> 0)
                [] type = "lateral_movement" -> 1
                [] type = "unstable" -> Points(count >= 3, 1)
                [] OTHER -> 0
  IN IF confidence >= 90 /\ count >= 3 THEN 3
     ELSE IF count >= 5 /\ base < 2 THEN base + 1 ELSE base

DeviationBoost(sev, deviation) == IF deviation > 300 THEN AtMost(sev + 1, 3) ELSE sev
AssetBoost(sev, criticality) ==
  CASE criticality = 3 -> AtMost(sev + 2, 3) [] criticality = 2 -> AtMost(sev + 1, 3) [] OTHER -> sev

\* Of the assets among the destinations; without any destination the old value stays.
TargetCriticality(old, dsts, assets) ==
  LET hit == {assets[d] : d \in dsts \cap DOMAIN assets}
  IN IF dsts = {} THEN old ELSE IF hit = {} THEN None ELSE Max(hit)

Decay(age) == CASE age > 60 -> 40 [] age > 30 /\ age <= 60 -> 20 [] age > 10 /\ age <= 30 -> 10 [] OTHER -> 0
ComputePriority(sev, criticality, count, type, age) ==
  LET base == <<20, 40, 70, 90>>[sev + 1]
      asset == CASE criticality = 3 -> 10 [] criticality = 2 -> 5 [] OTHER -> 0
      score == base + asset + 5 * (AtMost(count, 5) - 1)
                 + Points(type \in {"scanning", "lateral_movement"}, 5) - Decay(age)
  IN IF score < 0 THEN 0 ELSE AtMost(score, 100)

(* ---- sessions --------------------------------------------------------- *)

\* Equal neighbours of a sequence of behaviours are one; what is left keeps its places.
Compress(s) == Restrict(s, {i \in DOMAIN s : i > 1 => s[i - 1] # s[i]})
IsSubsequence(pattern, s) ==
  \E at \in [DOMAIN pattern -> DOMAIN s] :
    /\ \A i, j \in DOMAIN pattern : i < j => at[i] < at[j]
    /\ \A i \in DOMAIN pattern : s[at[i]] = pattern[i]
CountOf(s, b) == Cardinality({i \in DOMAIN s : s[i] = b})

After(s, i) == {j \in DOMAIN s : j > i}
\* The first occurrence of the pattern's step k after place i (-1 if none).
FirstAfter(pattern, s, k, i) ==
  LET later == {j \in After(s, i) : s[j] = pattern[k]}
  IN IF i = -1 \/ later = {} THEN -1 ELSE Min(later)
StepAt(pattern, s) ==
  LET at[k \in 0..Len(pattern)] == IF k = 0 THEN 0 ELSE FirstAfter(pattern, s, k, at[k - 1])
  IN at
HasGaps(pattern, s) ==
  \E k \in 1..(Len(pattern) - 1) :
     LET after == After(s, StepAt(pattern, s)[k])
     IN StepAt(pattern, s)[k] > 0 /\ after # {} /\ s[Min(after)] # pattern[k + 1]

IntentConfidence(pattern, s, incidents, criticality) ==
  AtMost(50 + 10 * Cardinality({i \in DOMAIN pattern : \E j \in DOMAIN s : s[j] = pattern[i]})
            + Points(criticality = 3, 10) + Points(incidents >= 3, 10)
            - Points(Len(pattern) > 1 /\ HasGaps(pattern, s), 10), 95)

\* The intents of a sequence, each with the pattern that gives its confidence.
IntentPatterns(s) ==
  LET sure == <<"scanning", "unstable", "suspicious">>
      exploit == <<"scanning", "unstable">>
      lateral == <<"scanning", "lateral_movement">>
      only(b) == {s[i] : i \in DOMAIN s} = {b}
  IN {<<"exploitation", IF IsSubsequence(sure, s) THEN sure ELSE exploit>> :
        x \in {y \in {1} : IsSubsequence(exploit, s)}}
     \cup {<<"lateral", lateral>> : x \in {y \in {1} : IsSubsequence(lateral, s)}}
     \cup {<<"probing", <<"suspicious">> >> : x \in {y \in {1} : only("suspicious")}}
     \cup {<<"instability", <<"unstable">> >> :
             x \in {y \in {1} : only("unstable") \/ CountOf(s, "unstable") > Cardinality(DOMAIN s) \div 2}}
ClassifyIntents(s, incidents, criticality) ==
  {[intent |-> p[1], confidence |-> IntentConfidence(p[2], s, incidents, criticality)] :
     p \in IntentPatterns(s)}
FirstNamed(order, names) == order[Min({k \in DOMAIN order : order[k] \in names})]
\* The surest of them, the first of the table of patterns when several are.
Surest(intents) == {i \in intents : \A j \in intents : i.confidence >= j.confidence}
Primary(intents) ==
  IF intents = {} THEN None
  ELSE FirstNamed(<<"exploitation", "lateral", "probing", "instability">>, {i.intent : i \in Surest(intents)})

TotalFlows(incidents) ==
  LET sum[k \in 0..Len(incidents)] == IF k = 0 THEN 0 ELSE sum[k - 1] + incidents[k].flows
  IN sum[Len(incidents)]
\* Flows per minute, at least one minute long; a burst at five.
Burst(flows, minutes) == flows >= 5 * (IF minutes < 1 THEN 1 ELSE minutes)
DecideSession(sev, confidence) ==
  CASE sev = 3 /\ confidence >= 70 -> "block"
    [] sev >= 2 /\ confidence >= 50 /\ ~(sev = 3 /\ confidence >= 70) -> "contain"
    [] sev >= 1 /\ ~(sev >= 2 /\ confidence >= 50) -> "investigate"
    [] OTHER -> "monitor"
NextStep(behaviours, intent) ==
  LET order == <<"lateral_movement", "scanning", "suspicious", "unstable">>
  IN IF intent # None THEN intent
     ELSE IF ToSet(order) \cap behaviours = {} THEN "review" ELSE FirstNamed(order, behaviours)
SessionPriority(priorities, behaviours, total, critical) ==
  AtMost(Max(priorities) + Points(Cardinality(behaviours) > 1, 10) + Points(total > 2, 10)
           + Points(critical, 10), 100)

\* What a session shows, so many minutes after it began, of a source's incidents in the
\* order they were first seen.
Enriched(incidents, minutes) ==
  LET all == ToSet(incidents)
      behaviours == {i.type : i \in all}
      severity == Max({i.severity : i \in all})
      criticality == Max({-1} \cup ({i.criticality : i \in all} \ {None}))
      intents == ClassifyIntents(Compress([k \in DOMAIN incidents |-> incidents[k].type]),
                                 Len(incidents), criticality)
      sure == Max({0} \cup {i.confidence : i \in intents})
      boost == Points(intents # {} /\ Burst(TotalFlows(incidents), minutes), 10)
  IN [intents |-> intents, severity |-> severity,
      priority |-> SessionPriority({i.priority : i \in all}, behaviours, Len(incidents), criticality = 3),
      action |-> DecideSession(severity, AtMost(sure + boost, 95)),
      step |-> NextStep(behaviours, Primary(intents))]

(* ---- rule_engine ------------------------------------------------------ *)

\* A row's value of a condition field; behavior_type and deviation_score, though
\* allowed in a rule, have no value on a flow.
FlowField(f, field) ==
  CASE field = "source_ip" -> f.src [] field = "destination_ip" -> f.dst
    [] field = "destination_port" -> f.port [] field = "flow_type" -> f.type
    [] field = "deny_ratio" -> f.deny [] field = "reset_ratio" -> f.reset
    [] field = "action" -> f.action [] OTHER -> None

\* The operand of "in" is the list, that of "contains" the values that contain the text.
Holds(value, op, operand) ==
  CASE op = "eq" -> value = operand [] op = "neq" -> value # operand
    [] op \in {"in", "contains"} -> value \in operand [] op = "gt" -> value > operand [] op = "lt" -> value < operand
    [] op = "gte" -> value >= operand [] op = "lte" -> value <= operand [] OTHER -> FALSE
ApplyCondition(F, rule) ==
  {f \in F : /\ FlowField(f, rule.field) # None
             /\ Holds(FlowField(f, rule.field), rule.op, rule.value)}

Aggregate(F, rule) ==
  LET field(f) == FlowField(f, rule.over)
      values == {f \in F : field(f) # None}
      total == FoldFunction(+, 0, [f \in values |-> field(f)])
  IN CASE rule.agg = "count" -> Cardinality(F)
       [] rule.agg = "any" -> Points(F # {}, 1)
       [] rule.agg = "distinct_count" ->
            IF rule.over = None THEN Cardinality(F) ELSE Cardinality({field(f) : f \in values})
       [] rule.agg \in {"sum", "avg"} ->
            IF rule.over = None \/ values = {} THEN None
            ELSE IF rule.agg = "sum" THEN total ELSE total \div Cardinality(values)
       [] OTHER -> None

EntityOf(f, rule) == CASE rule.target = "source_ip" -> f.src [] rule.target = "destination_ip" -> f.dst
                       [] OTHER -> <<f.src, f.dst>>
\* Mutant: a rule looks at suppressed rows too.
ConsideredAll(F, rule, now) == Since(F, now - rule.window)
Considered(F, rule, now) == {f \in Since(F, now - rule.window) : ~f.suppressed}
\* The entities whose unsuppressed flows of the window reach the threshold.
Triggered(F, rule, now) ==
  LET recent == Considered(F, rule, now)
      of(e) == ApplyCondition({f \in recent : EntityOf(f, rule) = e}, rule)
  IN {e \in {EntityOf(f, rule) : f \in recent} :
        /\ of(e) # {}
        /\ Aggregate(of(e), rule) # None
        /\ Aggregate(of(e), rule) >= rule.threshold}
\* The source column of a rule's incident: a pair's first half.
IncidentSource(e, rule) == IF rule.target = "src_dst_pair" THEN e[1] ELSE e
=============================================================================
