------------------------- MODULE SlingshotSegments -------------------------
(***************************************************************************)
(* The sizes split_client_wire_envelope_for_transport computes: when a     *)
(* client message is sent whole, how many segments it is announced to      *)
(* have, how many raw.chunks produces and how large they are on the wire.  *)
(* The state is the size of the next message, which grows by one: the      *)
(* invariants are statements about every size up to Longest.               *)
(***************************************************************************)
EXTENDS Integers

CONSTANTS
    TargetBytes,    \* REMOTE_CONTROL_SEGMENT_TARGET_BYTES
    MaxBytes,       \* REMOTE_CONTROL_SEGMENT_MAX_BYTES
    ReassembledMax, \* REMOTE_CONTROL_REASSEMBLED_MAX_BYTES
    CountMax,       \* REMOTE_CONTROL_SEGMENT_COUNT_MAX
    Overhead,       \* bytes of an envelope around its message or its chunk
    Longest         \* bound on the sizes looked at

\* The source has 100 KiB, 150 KiB, 100 MiB and 1024: a segment encoded in
\* base64 fits its envelope, and there are fewer segments than bytes in one.
ASSUME SegmentAssumption ==
    /\ TargetBytes \in Nat \ {0} /\ MaxBytes \in Nat /\ ReassembledMax \in Nat
    /\ CountMax \in Nat /\ Overhead \in Nat /\ Longest \in Nat \ {0}
    /\ CountMax <= TargetBytes
    /\ 4 * ((TargetBytes + 2) \div 3) + Overhead <= MaxBytes
    /\ Overhead + 1 < MaxBytes
    /\ ReassembledMax <= TargetBytes * CountMax

VARIABLE size

CeilDiv(a, b) == (a + b - 1) \div b
Larger(a, b) == IF a > b THEN a ELSE b
Base64(n) == 4 * CeilDiv(n, 3)

\* The whole message fits one envelope.
Whole(n) == n + Overhead <= MaxBytes

TooLong(n) == n > ReassembledMax

\* Mutant: rounded down.
SegmentCountFloor(n) == Larger(2, n \div TargetBytes)

\* segment_count
SegmentCount(n) == Larger(2, CeilDiv(n, TargetBytes))

TooMany(n) == SegmentCount(n) > CountMax

\* Mutant: rounded down, one more chunk than announced.
ChunkSizeFloor(n) == Larger(1, n \div SegmentCount(n))

ChunkSize(n) == Larger(1, CeilDiv(n, SegmentCount(n)))

\* How many pieces raw.chunks(chunk_size) has.
Emitted(n) == CeilDiv(n, ChunkSize(n))

Segmented(n) == ~Whole(n) /\ ~TooLong(n) /\ ~TooMany(n)

Shortest == size = 1
Longer == size < Longest /\ size' = size + 1
EverySize == Shortest /\ [][Longer]_size

-----------------------------------------------------------------------------
(* Every segment announces segment_count and the receiver waits for that    *)
(* many: a message announced with one more than are sent never completes.   *)
(* The unit test asserts this of one size.                                  *)
CountIsHonest == Segmented(size) => Emitted(size) = SegmentCount(size)

\* A message that the limit on the reassembled size lets through is segmented
\* whole: neither the limit on the number of segments refuses it, nor the limit
\* on an envelope one of its segments.
SegmentsFit ==
    ~Whole(size) /\ ~TooLong(size) =>
        ~TooMany(size) /\ Base64(ChunkSize(size)) + Overhead <= MaxBytes
=============================================================================
