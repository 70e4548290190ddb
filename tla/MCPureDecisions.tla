--------------------------- MODULE MCPureDecisions ---------------------------
(***************************************************************************)
(* The two computations without a state of their own, side by side: the    *)
(* sizes of segmented messages, and the plan for a saved server.  Every    *)
(* record is an initial state; the sizes grow on one of them.              *)
(***************************************************************************)
EXTENDS SlingshotSegments, ReconnectPlan

Plain == CHOOSE s \in Records : TRUE

MCInit == Shortest /\ server \in Records
MCNext == Longer /\ server = Plain /\ UNCHANGED server
MCSpec == MCInit /\ [][MCNext]_<<size, server>>
=============================================================================
