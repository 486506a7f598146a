--------------------------- MODULE FeedbackReports ---------------------------
(***************************************************************************)
(* What the backend tells an analyst of the feedback on path analyses:     *)
(* the list, the summary and the calibration report of main.py, the        *)
(* metrics of core/calibration_metrics.py and the conclusion printed in an *)
(* investigation package.  Each of them walks the same rows on its own.    *)
(*                                                                         *)
(* A row is [analyst, analysis, path, team, confidence, verdict,           *)
(* impairment, outcome, step, cause]: `team` is the team a row is shared   *)
(* with (None: private), the texts are None, "blank" (white space only) or *)
(* a text.  A user is [id, team].  Sorting of a report and the wording of  *)
(* its entries are left out; a rate is the pair <<hits, cases>>.           *)
(***************************************************************************)
EXTENDS Integers, SequencesExt

CONSTANT None                          \* a NULL column, an absent entry

Verdicts == {"correct", "partially_correct", "incorrect"}

Count(rows, Test(_)) == Len(SelectSeq(rows, Test))

(* `x or default` of Python for a nullable text *)
OrElse(text, default) == IF text = None THEN default ELSE text

(* The confidence bands, the first that holds the score counts; a score    *)
(* outside of 0..100 is in none.                                           *)
Bands == << <<0, 39>>, <<40, 59>>, <<60, 74>>, <<75, 89>>, <<90, 100>> >>

\* Mutant: a band ends before its upper end.
InBandHalfOpen(b, score) == Bands[b][1] <= score /\ score < Bands[b][2]
InBand(b, score) ==
  /\ Bands[b][1] <= score /\ score <= Bands[b][2]
  /\ \A earlier \in 1 .. (b - 1) : score > Bands[earlier][2]

Rate(hits, cases) == IF cases = 0 THEN None ELSE <<hits, cases>>

(* One entry of a break-down.                                              *)
Tally(rows) ==
  [total    |-> Len(rows),
   verdicts |-> [v \in Verdicts |-> Count(rows, LAMBDA r : r.verdict = v)],
   accuracy |-> Rate(Count(rows, LAMBDA r : r.verdict # "incorrect"), Len(rows))]

ByBand(rows) ==
  [b \in DOMAIN Bands |-> Tally(SelectSeq(rows, LAMBDA r : InBand(b, r.confidence)))]

ByImpairment(rows) ==
  [k \in {OrElse(r.impairment, "none") : r \in ToSet(rows)} |->
     Tally(SelectSeq(rows, LAMBDA r : OrElse(r.impairment, "none") = k))]

ByOutcome(rows) ==
  [k \in {OrElse(r.outcome, "unknown") : r \in ToSet(rows)} |->
     Tally(SelectSeq(rows, LAMBDA r : OrElse(r.outcome, "unknown") = k))]

Overconfident(rows) ==
  SelectSeq(rows, LAMBDA r : r.confidence >= 75 /\ r.verdict = "incorrect")

Mine(rows, user) == SelectSeq(rows, LAMBDA r : r.analyst = user.id)

(* list_path_feedback: the owner of an analysis sees the own rows on it    *)
(* and those shared with the own team; a foreign row cannot be edited.     *)
Listed(rows, owner, user, analysis) ==
  IF owner # user.id
  THEN "404"
  ELSE SelectSeq(rows, LAMBDA r :
         /\ r.analysis = analysis
         /\ \/ r.analyst = user.id
            \/ user.team # None /\ r.team = user.team)

(* path_feedback_summary.  A weak narrative counts a blank step, the       *)
(* calibration strips it away.                                             *)
Summary(rows, user) ==
  LET mine == Mine(rows, user) IN
  [tally         |-> Tally(mine),
   byImpairment  |-> ByImpairment(mine),
   overconfident |-> Overconfident(mine),
   weak          |-> SelectSeq(mine, LAMBDA r : r.step # None /\ r.verdict # "correct")]

Told(rows) == SelectSeq(rows, LAMBDA r : r.step \notin {None, "blank"})

(* How often each step is called misleading, and for which impairments.    *)
MisleadingSteps(rows) ==
  [s \in {r.step : r \in ToSet(Told(rows))} |->
     LET told == SelectSeq(rows, LAMBDA r : r.step = s) IN
     [count |-> Len(told), impairments |-> {OrElse(r.impairment, "none") : r \in ToSet(told)}]]

(* The crosstab of the predicted impairment and the actual root cause: of  *)
(* every row with a cause, the rows where the two agree included.          *)
RootCauses(rows) ==
  LET known == SelectSeq(rows, LAMBDA r : r.cause # None)
      Pair(r) == <<OrElse(r.impairment, "none"), r.cause>>
  IN [p \in {Pair(r) : r \in ToSet(known)} |-> Count(known, LAMBDA r : Pair(r) = p)]

(* path_feedback_calibration                                               *)
Calibration(rows, user) ==
  LET mine == Mine(rows, user) IN
  [total          |-> Len(mine),
   bands          |-> ByBand(mine),
   byImpairment   |-> ByImpairment(mine),
   byOutcome      |-> ByOutcome(mine),
   overconfident  |-> Overconfident(mine),
   underconfident |-> SelectSeq(mine, LAMBDA r : r.confidence <= 50 /\ r.verdict = "correct"),
   steps          |-> MisleadingSteps(mine),
   causes         |-> RootCauses(mine)]

(* compute_calibration_metrics: one pass that adds every row to counters,  *)
(* whose sums are the totals it reports.  Here an underconfident row may   *)
(* be correct or partially correct.                                        *)
NoCounts == [v \in Verdicts |-> 0]

BandOf(score) == {b \in DOMAIN Bands : InBand(b, score)}

Added(m, r) ==
  [high   |-> m.high + (IF r.confidence >= 75 THEN 1 ELSE 0),
   misled |-> m.misled + (IF r.confidence >= 75 /\ r.verdict = "incorrect" THEN 1 ELSE 0),
   low    |-> m.low + (IF r.confidence <= 50 THEN 1 ELSE 0),
   timid  |-> m.timid + (IF r.confidence <= 50 /\ r.verdict # "incorrect" THEN 1 ELSE 0),
   bands  |-> [b \in DOMAIN m.bands |->
                 IF b \in BandOf(r.confidence)
                 THEN [m.bands[b] EXCEPT ![r.verdict] = @ + 1] ELSE m.bands[b]]]

Metrics(rows) ==
  FoldLeft(Added, [high |-> 0, misled |-> 0, low |-> 0, timid |-> 0,
                   bands |-> [b \in DOMAIN Bands |-> NoCounts]], rows)

OverconfidentRate(rows) == LET m == Metrics(rows) IN Rate(m.misled, m.high)

(* _build_export_package with build_package: the sections of a package,    *)
(* whose conclusion is the row of the analyst on exactly this path, and    *)
(* the two analyses it compares when the request asks for it and names     *)
(* both.                                                                   *)
Package(rows, user, analysis, path, compare) ==
  LET own == SelectSeq(rows, LAMBDA r : /\ r.analysis = analysis
                                        /\ r.path = path
                                        /\ r.analyst = user.id)
  IN [query      |-> <<analysis, path>>,
      compared   |-> IF compare.wanted /\ None \notin {compare.baseline, compare.incident}
                     THEN <<compare.baseline, compare.incident>> ELSE None,
      conclusion |-> IF own = <<>> THEN None
                     ELSE [verdict |-> own[1].verdict, cause |-> own[1].cause,
                           step |-> own[1].step]]

-----------------------------------------------------------------------------
(* The reports agree on the same rows.  Every verdict is in exactly one    *)
(* band, one impairment and one outcome, the bands of the calibration are  *)
(* those of the metrics, the rows called overconfident are the incorrect   *)
(* ones of the two bands from 75 up and as many as the metrics count, a    *)
(* weak narrative that is told is one of the misleading steps, and a       *)
(* package draws a conclusion where the list shows an own row.             *)
SumOver(table, Value(_)) == FoldFunction(LAMBDA e, sum : Value(e) + sum, 0, table)

SameTotals(tally, table) ==
  /\ SumOver(table, LAMBDA e : e.total) = tally.total
  /\ \A v \in Verdicts : SumOver(table, LAMBDA e : e.verdicts[v]) = tally.verdicts[v]

Agree(rows, user) ==
  LET summary == Summary(rows, user)
      report  == Calibration(rows, user)
      metrics == Metrics(Mine(rows, user))
  IN /\ \A table \in {report.bands, report.byImpairment, report.byOutcome, summary.byImpairment} :
           SameTotals(summary.tally, table)
     /\ \A b \in DOMAIN Bands : report.bands[b].verdicts = metrics.bands[b]
     /\ Len(report.overconfident) = metrics.misled
     /\ metrics.misled = report.bands[4].verdicts["incorrect"] + report.bands[5].verdicts["incorrect"]
     /\ OverconfidentRate(Mine(rows, user))
          = Rate(Len(report.overconfident), report.bands[4].total + report.bands[5].total)
     /\ Len(report.underconfident) <= metrics.timid
     /\ \A r \in ToSet(rows) :
          LET listed == ToSet(Listed(rows, user.id, user, r.analysis))
              plain  == [wanted |-> FALSE, baseline |-> None, incident |-> None]
          IN (Package(rows, user, r.analysis, r.path, plain).conclusion # None)
             <=> (\E own \in listed : own.analyst = user.id /\ own.path = r.path)
     /\ \A r \in ToSet(summary.weak) : r.step # "blank" => r.step \in DOMAIN report.steps

=============================================================================
