------------------------ MODULE MCThreadSubscription ------------------------
(* ThreadSubscription for TLC. *)
EXTENDS ThreadSubscription

CONSTANTS t1, t2, u1, u2
=============================================================================
