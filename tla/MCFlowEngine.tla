---------------------------- MODULE MCFlowEngine ----------------------------
(* Small instance of FlowEngine: eight events, of three keys or without     *)
(* endpoints, on both sides of the limits of a probe (500 bytes, 5 seconds) *)
(* and of asymmetry; the table holds one flow after a flush.                *)
EXTENDS FlowEngine, TLC

E(i, k, t, a, in, out) ==
    [id |-> i, key |-> k, time |-> t, action |-> a, in |-> in, out |-> out]

MCEvent == {E(1, "a", 0, "allow", 60, 60), E(2, "a", 2, "reset", 0, 0),
            E(3, "a", 1, "deny", 0, 60), E(4, "b", 1, "deny", 0, 60),
            E(5, "b", 9, "alert", 0, 1000), E(6, "b", 3, "other", 0, 0),
            E(7, "c", 0, "drop", 0, 0), E(8, NoKey, 0, "allow", 0, 0)}
=============================================================================
