----------------------------- MODULE MCSharing -----------------------------
(* Two analysts of one team, one without a team, one and an administrator of another. *)
EXTENDS Sharing, TLC
CONSTANTS ann, bob, eve, rex, adm, blue, red
MCTeam == ann :> blue @@ bob :> blue @@ eve :> None @@ rex :> red @@ adm :> red
Symmetry == Permutations(Request)
=============================================================================
