----------------------------- MODULE MCIpcClient -----------------------------
(* IpcClient for TLC: two callers and a channel of one place, so that a      *)
(* caller, another and the read task all wait for room.                      *)
EXTENDS IpcClient
CONSTANTS a, b
=============================================================================
