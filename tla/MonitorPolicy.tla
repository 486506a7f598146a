---------------------------- MODULE MonitorPolicy ----------------------------
(***************************************************************************)
(* The pure rules of path monitoring (monitoring.py): how two results of a *)
(* path analysis differ, what a history of runs amounts to, and what the   *)
(* analyst is told to do about it.                                         *)
(*                                                                         *)
(* A result is [outcome, primary, impairments, confidence, delay]; `delay` *)
(* stands for the timing keys that count as a regression.  A run is a      *)
(* result with the severity of its drift.  Points are in tenths.           *)
(***************************************************************************)
EXTENDS Integers, Sequences, FiniteSets, FiniteSetsExt, TLC

CONSTANT None   \* no impairment, no root cause

Outcomes == <<"success", "partial_success", "failure", "unknown">>
DriftRank == [none |-> 0, info |-> 1, warning |-> 2, critical |-> 3]
Severity == DOMAIN DriftRank
Bad == {"warning", "critical"}
Severe == {"no_response", "connection_refused", "tls_failure", "syn_timeout",
           "return_path_problem"}

\* The alphabetical order of the impairments' names.
Name == [connection_refused |-> 1, no_response |-> 2, packet_loss |-> 3,
         return_path_problem |-> 4, syn_timeout |-> 5, tls_failure |-> 6]

OutcomeRank(o) == CHOOSE i \in DOMAIN Outcomes : Outcomes[i] = o
SumOf(f, S) == MapThenSumSet(LAMBDA i : f[i], S)
\* round(a / b) of Python: a half goes to the even neighbour.
RoundDiv(a, b) ==
    LET q == a \div b  r == 2 * (a % b) IN
    IF r > b \/ (r = b /\ q % 2 = 1) THEN q + 1 ELSE q

-----------------------------------------------------------------------------
(* detect_drift: the worst of the signals.                                  *)

Regressed(p, c) == OutcomeRank(c.outcome) > OutcomeRank(p.outcome)

DelayRegressed(p, c) ==
    c.delay - p.delay >= 50 /\ (p.delay = 0 \/ 2 * c.delay >= 3 * p.delay)

\* A first run, previous = <<>>, drifts from nothing.
DriftSignals(previous, c) ==
    IF previous = <<>> THEN {}
    ELSE LET p == previous[1]
             appeared == c.impairments \ p.impairments
             resolved == p.impairments \ c.impairments
             If(cond, sev) == IF cond THEN {sev} ELSE {}
         IN If(p.outcome # c.outcome,
               IF Regressed(p, c) /\ c.outcome = "failure" THEN "critical" ELSE "warning")
            \cup If(p.primary # c.primary,
                    IF c.primary = "connection_refused" THEN "critical" ELSE "warning")
            \cup If(appeared # {}, "warning")
            \cup If(resolved # {} /\ appeared = {}, "info")
            \cup If(c.confidence - p.confidence <= -15, "info")
            \cup If(DelayRegressed(p, c), "warning")

DetectDrift(previous, c) ==
    LET signals == DriftSignals(previous, c) IN
    CHOOSE s \in signals \cup {"none"} :
        \A t \in signals : DriftRank[s] >= DriftRank[t]

-----------------------------------------------------------------------------
(* summarize_history: runs, oldest first.                                   *)

Window == 5   \* RECENT_WINDOW

Recent(runs) == {i \in DOMAIN runs : i > Len(runs) - Window}
\* What the recent runs are compared with: the runs before, or, of a short history, all
\* runs but the last.
Prior(runs) ==
    IF Len(runs) > Window THEN DOMAIN runs \ Recent(runs) ELSE 1..(Len(runs) - 1)

\* The averages are compared by cross-multiplication.
ConfidenceSlope(runs) ==
    LET R == Recent(runs)  P == Prior(runs)
        conf == [i \in DOMAIN runs |-> runs[i].confidence]
        diff == SumOf(conf, R) * Cardinality(P) - SumOf(conf, P) * Cardinality(R)
        ten == 10 * Cardinality(R) * Cardinality(P)
    IN IF Len(runs) < 2 THEN "stable"
       ELSE IF diff <= -ten THEN "worsening"
       ELSE IF diff >= ten THEN "improving" ELSE "stable"

DelaySlope(runs) ==
    LET R == Recent(runs)  P == Prior(runs)
        delay == [i \in DOMAIN runs |-> runs[i].delay]
        recent == SumOf(delay, R) * Cardinality(P)
        prior == SumOf(delay, P) * Cardinality(R)
    IN IF Len(runs) < 2 THEN "stable"
       ELSE IF prior = 0 THEN IF recent = 0 THEN "stable" ELSE "worsening"
       ELSE IF 10 * recent >= 13 * prior THEN "worsening"
       ELSE IF 13 * recent <= 10 * prior THEN "improving" ELSE "stable"

RunsWith(runs, imp) == {i \in DOMAIN runs : imp \in runs[i].impairments}
Recurring(runs) ==
    {imp \in UNION {runs[i].impairments : i \in DOMAIN runs} :
        Cardinality(RunsWith(runs, imp)) >= 2}

\* The first run of each stretch of warning and critical runs.
EpisodeStarts(runs) ==
    {i \in DOMAIN runs : runs[i].severity \in Bad
                         /\ (i = 1 \/ runs[i - 1].severity \notin Bad)}

\* The share of healthy runs; the newest weighs most.
Health(runs) ==
    LET well == {i \in DOMAIN runs : runs[i].outcome = "success"
                             /\ runs[i].severity \notin Bad}
    IN IF runs = <<>> THEN 100
       ELSE RoundDiv(100 * SumSet(well), SumSet(DOMAIN runs))

SummarizeHistory(runs) ==
    LET count(s) == Cardinality({i \in DOMAIN runs : runs[i].severity = s})
        episodes == Cardinality(EpisodeStarts(runs))
    IN [total |-> Len(runs),
        health |-> Health(runs),
        drifts |-> [s \in Severity |-> count(s)],
        recurring |-> Recurring(runs),
        counts |-> [i \in Recurring(runs) |-> Cardinality(RunsWith(runs, i))],
        confidence |-> ConfidenceSlope(runs),
        delay |-> DelaySlope(runs),
        episodes |-> episodes,
        required |-> \E i \in DOMAIN runs : runs[i].severity \in Bad,
        returnPath |-> Cardinality(RunsWith(runs, "return_path_problem")),
        worsening |-> \/ DelaySlope(runs) = "worsening"
                      \/ ConfidenceSlope(runs) = "worsening"
                      \/ Recurring(runs) # {}
                      \/ episodes >= 2]

-----------------------------------------------------------------------------
(* compute_risk_score: the drivers, in the order of the code, with their    *)
(* points.                                                                  *)

Atmost(a, b) == IF a <= b THEN a ELSE b

Contributions(s) ==
    LET c(key, points) == [key |-> key, points |-> points]
        if(cond, n) == IF cond THEN n ELSE 0
    IN <<c("health_score", Atmost(4 * (100 - s.health), 400)),
         c("critical_drift", 40 * Atmost(s.drifts.critical, 5)),
         c("warning_drift", 20 * Atmost(s.drifts.warning, 5)),
         c("info_drift", 6 * Atmost(s.drifts.info, 5)),
         c("regression_episodes", Atmost(30 * s.episodes, 150)),
         c("trend_worsening", if(s.worsening, 150)),
         c("confidence_dropping", if(s.confidence = "worsening", 100)),
         c("backend_delay", if(s.delay = "worsening", 100)),
         c("recurring_impairment", Atmost(30 * Cardinality(s.recurring), 120)),
         c("severe_recurring", Atmost(50 * Cardinality(s.recurring \cap Severe), 150)),
         c("return_path_problem", if(s.returnPath >= 2, Atmost(20 * s.returnPath, 80))),
         c("action_required", if(s.required, 50))>>

LevelForScore(score) ==
    IF score >= 75 THEN 3 ELSE IF score >= 50 THEN 2 ELSE IF score >= 25 THEN 1 ELSE 0

\* The drivers are the five strongest; of equal ones the earlier (the sort is stable).
ComputeRiskScore(s) ==
    LET cs == Contributions(s)
        D == {i \in DOMAIN cs : cs[i].points > 0}
        before(i) == {j \in D : cs[j].points > cs[i].points
                                \/ (cs[j].points = cs[i].points /\ j < i)}
        total == SumOf([i \in DOMAIN cs |-> cs[i].points], D)
        score == IF s.total = 0 THEN 0 ELSE RoundDiv(Atmost(total, 1000), 10)
    IN [score |-> score, level |-> LevelForScore(score),
        drivers |-> IF s.total = 0 THEN {}
                    ELSE {cs[i].key : i \in {j \in D : Cardinality(before(j)) < 5}}]

-----------------------------------------------------------------------------
(* decide_action.  Priorities are 0 (low) to 3 (critical).  Of the texts    *)
(* that later rules search, `named` keeps the impairments they name, and    *)
(* `returnPath` whether the focus tells to look at the return path.         *)

ReturnPathRecurs(s) == "return_path_problem" \in s.recurring \/ s.returnPath >= 2

Escalate(priority) == Atmost(priority + 1, 3)

\* The first two severe impairments that recur: the most frequent first, then by name.
FirstTwo(s) ==
    LET severe == s.recurring \cap Severe
        before(i) == {j \in severe : \/ s.counts[j] > s.counts[i]
                                     \/ s.counts[j] = s.counts[i] /\ Name[j] < Name[i]}
    IN {i \in severe : Cardinality(before(i)) < 2}

\* _focus_from_signals has a text of its own for each severe impairment: its fallback, which
\* would name tokens, is never reached.
DecideAction(s, risk) ==
    LET severe == s.recurring \cap Severe
        base == [priority |-> risk.level,
                 required |-> risk.level >= 2 \/ (risk.level = 1 /\ s.worsening)]
        one == IF severe = {} THEN base
               ELSE [priority |-> Escalate(base.priority), required |-> TRUE]
        two == [one EXCEPT !.required = @ \/ ReturnPathRecurs(s)]
        forced == s.worsening /\ s.episodes >= 1 /\ two.priority < 2
        three == IF forced THEN [priority |-> 2, required |-> TRUE] ELSE two
    IN [priority |-> three.priority,
        required |-> three.required,
        named |-> (IF base.priority < 3 THEN FirstTwo(s) ELSE {})
                  \cup (IF ReturnPathRecurs(s) /\ ~one.required
                          THEN {"return_path_problem"} ELSE {}),
        returnPath |-> ReturnPathRecurs(s),
        suppressed |-> FALSE]

-----------------------------------------------------------------------------
(* What analysts report back: outcomes are [outcome, cause, drivers].       *)

Confirmed == {"issue_confirmed", "root_cause_identified"}

LearnFromOutcomes(outcomes) ==
    LET D == DOMAIN outcomes
        of(S) == {i \in D : outcomes[i].outcome \in S}
        keys == UNION {outcomes[i].drivers : i \in D}
        with(key) == {i \in D : key \in outcomes[i].drivers}
        causes == {outcomes[i].cause : i \in D} \ {None}
        caused(c) == Cardinality({i \in D : outcomes[i].cause = c})
    IN [total |-> Cardinality(D),
        confirmed |-> Cardinality(of(Confirmed)),
        falsePositives |-> Cardinality(of({"false_positive"})),
        transient |-> Cardinality(of({"transient_issue"})),
        caused |-> [c \in causes |-> caused(c)],
        causes |-> {c \in causes : \A d \in causes : caused(c) >= caused(d)},
        signals |-> [key \in keys |->
            [total |-> Cardinality(with(key)),
             confirmed |-> Cardinality(with(key) \cap of(Confirmed)),
             falsePositives |-> Cardinality(with(key) \cap of({"false_positive"}))]]]

Lower(a) == [a EXCEPT !.priority = IF @ = 0 THEN 0 ELSE @ - 1]
\* Mutant: the demand for action stays at any priority.
LowerAlone(a) == Lower(a)
\* A rule that lowers the priority to low takes the demand for action back.
LowerAndQuiet(a) == LET b == Lower(a) IN [b EXCEPT !.required = @ /\ b.priority > 0]

Noisy(learned) == learned.total >= 3 /\ 10 * learned.falsePositives >= 6 * learned.total

\* A hint about a signal that was mostly confirmed, or mostly false, names the signal.
Hinted(learned, key) ==
    /\ key \in DOMAIN learned.signals
    /\ LET g == learned.signals[key] IN
       g.total >= 2 /\ (10 * g.confirmed >= 7 * g.total \/ 10 * g.falsePositives >= 6 * g.total)

AdjustAction(a, learned) ==
    LET b == [a EXCEPT !.returnPath = @ \/ Hinted(learned, "return_path_problem")] IN
    IF Noisy(learned) THEN [Lower(b) EXCEPT !.required = FALSE] ELSE b

-----------------------------------------------------------------------------
(* What analysts accept: a baseline [delay, confidence, noisy] (a value out *)
(* of range when unset) and the rules [kind, value].                        *)

Average(runs, f(_)) ==
    LET R == IF Len(runs) < 2 THEN DOMAIN runs ELSE Recent(runs) IN
    SumOf([i \in DOMAIN runs |-> f(runs[i])], R) \div Cardinality(R)

DelayAccepted(runs, baseline) ==
    /\ runs # <<>> /\ baseline.delay # -1
    /\ Average(runs, LAMBDA r : r.delay) <= baseline.delay
ConfidenceAccepted(runs, baseline) ==
    /\ runs # <<>> /\ baseline.confidence # -1
    /\ Average(runs, LAMBDA r : r.confidence) >= baseline.confidence
Deemphasised(a, runs, baseline) ==
    {<<"delay">> : x \in {y \in {0} : DelayAccepted(runs, baseline)}}
    \cup {<<"confidence">> : x \in {y \in {0} : ConfidenceAccepted(runs, baseline)}}
    \cup {<<"noisy", imp>> : imp \in {i \in baseline.noisy :
              i \in a.named \/ (i = "return_path_problem" /\ a.returnPath)}}

\* Two matches lower the priority; an impairment that matched is named from then on.
ApplyBaseline(a, runs, baseline) ==
    LET hits == Deemphasised(a, runs, baseline)
        b == [a EXCEPT !.named = @ \cup {i \in baseline.noisy : <<"noisy", i>> \in hits}]
    IN IF Cardinality(hits) >= 2 THEN LowerAndQuiet(b) ELSE b

IsSuppressionActive(rule, now) == now <= rule.until

\* The rules in the order of their rows; the first mute or snooze is the last one looked at.
ApplyRule(a, rule) ==
    CASE rule.kind \in {"mute", "snooze"} ->
            [a EXCEPT !.required = FALSE, !.priority = 0, !.suppressed = TRUE]
      [] rule.kind = "impairment" ->
            IF rule.value \in a.named
              THEN [LowerAndQuiet(a) EXCEPT !.suppressed = TRUE, !.named = @ \cup {rule.value}]
              ELSE a
      [] rule.kind = "severity" ->
            IF a.priority <= DriftRank[rule.value]
              THEN [a EXCEPT !.required = FALSE, !.suppressed = TRUE] ELSE a

LookedAt(rules, i, now) ==
    /\ IsSuppressionActive(rules[i], now)
    /\ \A j \in 1..(i - 1) :
          IsSuppressionActive(rules[j], now) => rules[j].kind \notin {"mute", "snooze"}
AfterRule(a, rules, i, now) == IF LookedAt(rules, i, now) THEN ApplyRule(a, rules[i]) ELSE a

ApplySuppressions(a, rules, now) ==
    LET after[i \in 0..Len(rules)] ==
            IF i = 0 THEN a ELSE AfterRule(after[i - 1], rules, i, now)
    IN after[Len(rules)]

\* _compute_monitor_risk of main.py: the whole pipeline.
Decision(runs, outcomes, baseline, rules, now) ==
    LET s == SummarizeHistory(runs)
        decided == DecideAction(s, ComputeRiskScore(s))
        learned == AdjustAction(decided, LearnFromOutcomes(outcomes))
    IN ApplySuppressions(ApplyBaseline(learned, runs, baseline), rules, now)

-----------------------------------------------------------------------------
(* compute_system_insights: the digest over the monitors M of one user,     *)
(* from the runs of each, the outcomes of all and the advice on each.       *)

\* The headlines in their order; no more than five are shown.
Headlines(digest) ==
    LET learned == digest.learned
        tests == << <<"root_cause", \E c \in learned.causes : learned.caused[c] >= 2>>,
                    <<"reliable", digest.reliable # {}>>,
                    <<"noisy", digest.noisy # {}>>,
                    <<"systemic", digest.systemic # {}>>,
                    <<"shared", digest.shared # {}>>,
                    <<"false_positives", learned.total >= 3 /\ 2 * learned.falsePositives >= learned.total>> >>
        held == SelectSeq(tests, LAMBDA t : t[2])
    IN {held[i][1] : i \in {j \in DOMAIN held : j <= 5}}

\* The figures of the digest, from the risk of each monitor and what was learned of all.
Figures(M, runs, risk, learned, advice, target) ==
    LET drift(m) == IF runs[m] = <<>> THEN "none" ELSE runs[m][Len(runs[m])].severity
        degraded(d) == {m \in M : target[m] = d /\ (drift(m) \in Bad \/ advice[m].required)}
        found(m) == UNION {runs[m][i].impairments : i \in DOMAIN runs[m]}
        known == {k \in DOMAIN learned.signals : learned.signals[k].total >= 2}
    IN [required |-> Cardinality({m \in M : advice[m].required}),
        levels |-> [l \in 0..3 |-> Cardinality({m \in M : risk[m].level = l})],
        average |-> RoundDiv(SumOf([m \in M |-> risk[m].score], M), Cardinality(M)),
        learned |-> learned,
        reliable |-> known,
        noisy |-> {k \in known : 2 * learned.signals[k].falsePositives >= learned.signals[k].total},
        systemic |-> {d \in {target[m] : m \in M} : Cardinality(degraded(d)) >= 2},
        shared |-> {imp \in UNION {found(m) : m \in M} : Cardinality({m \in M : imp \in found(m)}) >= 2}]

Titled(digest) == [headlines |-> Headlines(digest)] @@ digest

Insights(M, runs, outcomes, advice, target) ==
    Titled(Figures(M, runs, [m \in M |-> ComputeRiskScore(SummarizeHistory(runs[m]))],
                   LearnFromOutcomes(outcomes), advice, target))

IsDue(lastRunAt, interval, now) == lastRunAt = -1 \/ now - lastRunAt >= interval
=============================================================================
