-------------------------- MODULE MCLiveIncidents --------------------------
(***************************************************************************)
(* Two sources: one scans (denied probes to an asset of medium             *)
(* criticality), the other has unstable connections, which are serious     *)
(* when they persist. The thresholds are small, so that a single row makes *)
(* a behaviour; the rule looks further back than the marking of suppressed *)
(* rows, and a flow of the first may be dated before the latter. An entry  *)
(* of the look-up cache outlives one pause and not two.                    *)
(***************************************************************************)
EXTENDS LiveIncidents

MCSrcs == {"a", "b"}
Row(src, dst, state, type, action, behind) ==
  [src |-> src, dst |-> dst, port |-> 443, state |-> state, type |-> type, action |-> action,
   last |-> 0 - behind, suppressed |-> FALSE]
MCFlowKinds ==
  {Row("a", "s", "denied", "scanning", "deny", 0), Row("a", "s", "denied", "scanning", "deny", 15),
   Row("b", "w", "reset", "unstable", None, 0)}
MCSuppRules == {[src |-> "a", dst |-> None]}
MCRule == [field |-> "action", op |-> "eq", value |-> "deny", agg |-> "count", over |-> None,
           threshold |-> 1, window |-> 20, target |-> "source_ip", severity |-> 1,
           behavior |-> "scanning", cooldown |-> 10]
MCAssets == [s |-> 1]
MCBases == [x \in MCSrcs |-> None]
MCTune == [minFlows |-> 1, scanFlows |-> 1, scanPorts |-> 1, scanDsts |-> 2, lateralDsts |-> 2]
=============================================================================
