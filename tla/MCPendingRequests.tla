-------------------------- MODULE MCPendingRequests --------------------------
(***************************************************************************)
(* Instances of PendingRequests: two servers, which are interchangeable,   *)
(* and one answer of the user at a time.                                   *)
(***************************************************************************)
EXTENDS PendingRequests, TLC

CONSTANTS s1, s2, u1

Symmetries == Permutations({s1, s2})
=============================================================================
