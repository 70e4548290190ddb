------------------------- MODULE MCSessionRegistry -------------------------
(* SessionRegistry for TLC. *)
EXTENDS SessionRegistry, TLC

CONSTANTS c1, c2
CallerSymmetry == Permutations({c1, c2})
=============================================================================
