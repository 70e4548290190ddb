---------------------------- MODULE LineChannel ----------------------------
(***************************************************************************)
(* What a JSON-line stream promises its user: the other side sees the      *)
(* written lines in the order of writing and once each; a line may be      *)
(* abandoned, and only an abandoned line is skipped.                       *)
(***************************************************************************)
EXTENDS Naturals, Sequences

VARIABLES sent,  \* number of lines written, the i-th is line i
          log,   \* lines the other side has accepted
          lost   \* lines abandoned

Init == sent = 0 /\ log = <<>> /\ lost = {}

Latest == IF log = <<>> THEN 0 ELSE log[Len(log)]

Write == sent' = sent + 1 /\ UNCHANGED <<log, lost>>

Deliver ==
    \E line \in (Latest + 1)..sent :
        /\ line \notin lost
        /\ (Latest + 1)..(line - 1) \subseteq lost
        /\ log' = Append(log, line)
        /\ UNCHANGED <<sent, lost>>

\* A line the other side has already cannot be abandoned.
Abandon ==
    \E line \in (Latest + 1)..sent :
        lost' = lost \cup {line} /\ UNCHANGED <<sent, log>>

Next == Write \/ Deliver \/ Abandon

Spec == Init /\ [][Next]_<<sent, log, lost>>
=============================================================================
