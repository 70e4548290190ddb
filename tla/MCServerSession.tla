-------------------------- MODULE MCServerSession --------------------------
(* ServerSession for TLC: a request names a runtime the session does not    *)
(* have, and a resolve follows it to the same worker.                       *)
EXTENDS ServerSession, TLC

CONSTANTS codex, pi, other, r1, n1

ResolveKind == r1 :> "request" @@ n1 :> "resolve"
ResolveTarget == r1 :> other @@ n1 :> codex
=============================================================================
