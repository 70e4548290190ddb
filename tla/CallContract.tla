---------------------------- MODULE CallContract ----------------------------
(***************************************************************************)
(* What a session promises those who call through it.  A call is answered  *)
(* once.  It is run at most twice; a request answered ok has been run; a   *)
(* call answered refused has not been run and never will be.  A call that  *)
(* has failed may have been run, or be run later.                          *)
(***************************************************************************)
EXTENDS Naturals

CONSTANTS Calls, Kind

VARIABLES answer, runs

Open == {"new", "waiting", "queued"}

Init == answer = [c \in Calls |-> "new"] /\ runs = [c \in Calls |-> 0]

Submit(c) ==
    /\ \/ answer[c] = "new" /\ answer' = [answer EXCEPT ![c] = "waiting"]
       \/ answer[c] = "waiting" /\ answer' = [answer EXCEPT ![c] = "queued"]
    /\ UNCHANGED runs

Run(c) ==
    /\ answer[c] \in {"queued", "ok", "failed"} /\ runs[c] < 2
    /\ runs' = [runs EXCEPT ![c] = @ + 1]
    /\ UNCHANGED answer

Ok(c) ==
    /\ answer[c] = "queued" /\ (Kind[c] = "request" => runs[c] > 0)
    /\ answer' = [answer EXCEPT ![c] = "ok"]
    /\ UNCHANGED runs

Fail(c) ==
    /\ answer[c] = "queued"
    /\ answer' = [answer EXCEPT ![c] = "failed"]
    /\ UNCHANGED runs

\* Several at once: a channel closes with all that is in it.
Refuse ==
    \E cs \in SUBSET {c \in Calls : answer[c] \in {"waiting", "queued"} /\ runs[c] = 0} :
        /\ answer' = [c \in Calls |-> IF c \in cs THEN "refused" ELSE answer[c]]
        /\ UNCHANGED runs

Next == Refuse \/ \E c \in Calls : Submit(c) \/ Run(c) \/ Ok(c) \/ Fail(c)

Spec == Init /\ [][Next]_<<answer, runs>>
=============================================================================
