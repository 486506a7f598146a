----------------------------- MODULE FlowLabels -----------------------------
(***************************************************************************)
(* The labels of a flow (collector/flows.py): its state, the summary of    *)
(* its actions and its classification, computed from the counters when the *)
(* flow is flushed.  A flow is a record as in module FlowTable; a ratio is *)
(* compared by cross-multiplying (its rounding to four digits shows from   *)
(* thousands of events on only).                                           *)
(***************************************************************************)
EXTENDS Integers

N(f, action) == f.tally[action]

-----------------------------------------------------------------------------
(* State and summary.                                                      *)

DeriveState(f) ==
    IF N(f, "reset") > 0 THEN "reset"
    ELSE IF N(f, "deny") > 0 /\ N(f, "allow") = 0 THEN "denied"
    ELSE IF N(f, "drop") > 0 /\ N(f, "allow") = 0 THEN "dropped"
    ELSE IF N(f, "allow") > 0 THEN "completed" ELSE "expired"

Summarised(f) == N(f, "allow") + N(f, "deny") + N(f, "drop") + N(f, "alert")

DeriveActionSummary(f) ==
    IF N(f, "reset") > 0 THEN "reset_seen"
    ELSE IF Summarised(f) = 0 THEN "unknown"
    ELSE IF N(f, "deny") > 0 /\ N(f, "allow") > 0 THEN "mixed"
    ELSE IF 2 * N(f, "deny") > Summarised(f) THEN "mostly_deny"
    ELSE IF 2 * N(f, "allow") > Summarised(f) THEN "mostly_allow" ELSE "mixed"

-----------------------------------------------------------------------------
(* classify_flow.                                                          *)

TotalActions(f) == IF Summarised(f) + N(f, "reset") = 0 THEN 1 ELSE Summarised(f) + N(f, "reset")
ResetRatioAbove(f, tenths) == 10 * N(f, "reset") > tenths * TotalActions(f)

Scanning(f) ==
    /\ N(f, "allow") = 0 /\ N(f, "deny") > 0 /\ N(f, "reset") = 0
    /\ f.in + f.out < 500 /\ f.last - f.first < 5
Blocked(f) ==
    N(f, "allow") = 0 /\ N(f, "deny") + N(f, "drop") > 0 /\ N(f, "reset") = 0
Unstable(f) == N(f, "reset") > 0 /\ (N(f, "allow") > 0 \/ N(f, "deny") > 0)
ResetOnly(f) == N(f, "reset") > 0 /\ N(f, "allow") = 0
Alerted(f) == N(f, "alert") > 0
Suspicious(f) ==
    ResetOnly(f) \/ Alerted(f) \/ (N(f, "allow") > 0 /\ ResetRatioAbove(f, 3))

\* Mutant: the byte limit of a probe is taken for all that was denied.
FlowTypeScansFirst(f) ==
    IF N(f, "deny") > 0 /\ f.in + f.out < 500 THEN "scanning"
    ELSE IF Blocked(f) THEN "blocked" ELSE IF Unstable(f) THEN "unstable"
    ELSE IF Suspicious(f) THEN "suspicious" ELSE "normal"

FlowType(f) ==
    IF Scanning(f) THEN "scanning" ELSE IF Blocked(f) THEN "blocked"
    ELSE IF Unstable(f) THEN "unstable" ELSE IF Suspicious(f) THEN "suspicious" ELSE "normal"

-----------------------------------------------------------------------------
(* Properties of the labels.                                               *)

LabelsMatch(f) ==
    /\ DeriveState(f) = "reset" <=> DeriveActionSummary(f) = "reset_seen"
    /\ DeriveState(f) = "reset" <=> FlowType(f) = "unstable" \/ ResetOnly(f)
    /\ FlowType(f) \in {"scanning", "blocked"} => DeriveState(f) \in {"denied", "dropped"}
    /\ FlowType(f) = "normal" => DeriveState(f) \in {"completed", "expired"} /\ ~Alerted(f)
    /\ FlowType(f) = "suspicious" /\ ~Alerted(f) => DeriveState(f) = "reset"
    /\ DeriveActionSummary(f) = "mostly_deny" => DeriveState(f) = "denied"
    /\ DeriveActionSummary(f) = "mostly_allow" => DeriveState(f) = "completed"

\* What a flow g may be that was f some events earlier: a reset is final, a flow
\* that got through can only be reset, and a refusal is reverted by an allow and
\* by nothing else.  (flows.py:24-26 says that it is not reverted at all.)
LabelsFollow(f, g) ==
    /\ DeriveState(f) = "reset" => DeriveState(g) = "reset"
    /\ DeriveState(f) = "completed" => DeriveState(g) \in {"completed", "reset"}
    /\ DeriveState(f) \in {"denied", "dropped"} =>
          \/ DeriveState(g) \in {"denied", "dropped", "reset"}
          \/ DeriveState(g) = "completed" /\ N(g, "allow") > N(f, "allow")
    /\ DeriveState(f) = "denied" => DeriveState(g) # "dropped"
    /\ FlowType(f) = "unstable" => FlowType(g) = "unstable"
=============================================================================
