----------------------------- MODULE MCWorkflow -----------------------------
(* Small instances of Workflow: an administrator, a user and a colleague,   *)
(* and as many requests as a race needs.                                    *)
EXTENDS Workflow, TLC

Symmetry == Permutations(Request) \cup Permutations(Analysis)
=============================================================================
