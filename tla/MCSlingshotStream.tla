------------------------- MODULE MCSlingshotStream -------------------------
(* Instances of SlingshotStream for TLC. *)
EXTENDS SlingshotStream

UplinkSegments == <<2, 0, 3, 1>>  \* the second line is refused by the splitter
NoLines == <<>>

ShortLine == <<1>>
NoMessages == <<>>
SplitMessages == <<{2, 3}, {2}, {1}>>  \* the first is split anew after a reconnect
=============================================================================
