--------------------------- MODULE MCIpcReconnect ---------------------------
(* IpcReconnect for TLC. *)
EXTENDS IpcReconnect
CONSTANTS h1
=============================================================================
