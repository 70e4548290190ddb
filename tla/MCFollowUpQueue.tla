-------------------------- MODULE MCFollowUpQueue --------------------------
(* FollowUpQueue for TLC. *)
EXTENDS FollowUpQueue, TLC

CONSTANTS m1, m2, m3, k1, k2

\* Messages with a text are alike, and so are taps.
Symmetry == Permutations(Messages \ Textless) \cup Permutations(Taps)
=============================================================================
