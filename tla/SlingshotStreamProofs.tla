----------------------- MODULE SlingshotStreamProofs -----------------------
(***************************************************************************)
(* Proofs about the stream for every sequence of lines, every choice of    *)
(* segment counts and any number of failures: type correctness, the order  *)
(* of the replay queue, that nothing unacknowledged leaves it, that no     *)
(* line is lost silently, that the stream implements LineChannel, and that *)
(* the reader gets the server's messages once and in order; and about the  *)
(* splitter, that every size of message is cut into what was announced.    *)
(***************************************************************************)
EXTENDS SlingshotStream, SlingshotSegments, SequenceTheorems, TLAPS

\* Lengths of the parameters.
LEMMA Lengths ==
    /\ NumLines \in Nat /\ NumDown \in Nat
    /\ \A line \in 1..NumLines : Segments[line] \in Nat
    /\ \A m \in 1..NumDown : DownSplits[m] \in SUBSET (Nat \ {0})
BY StreamAssumption DEF NumLines, NumDown

\* The splitter returns a sequence of envelopes.
LEMMA SplitType ==
    ASSUME NEW line \in 1..NumLines, NEW n \in Nat
    PROVE  /\ Split(line, n) \in Seq(Envelope)
           /\ Len(Split(line, n)) = Segments[line]
<1>1. Segments[line] \in Nat
  BY Lengths
<1>2. \A s \in 1..Segments[line] :
        [kind |-> "message", line |-> line, seq |-> n,
         seg |-> s - 1, count |-> Segments[line]] \in Envelope
  BY <1>1 DEF Envelope
<1>3. Split(line, n) \in [1..Segments[line] -> Envelope]
  BY <1>2 DEF Split
<1>4. QED
  BY <1>1, <1>3, SeqDef

\* The next envelope on either side of the wire, and what is behind it.
LEMMA HeadOfDown ==
    ASSUME WireOK, down # <<>>
    PROVE  /\ Tail(down) \in Seq(Reply)
           /\ Head(down).seq \in Nat /\ Head(down).seg \in Nat
           /\ Head(down).count \in Nat /\ Head(down).cursor \in SUBSET Position
<1>1. down \in Seq(Reply)
  BY DEF WireOK
<1>2. Head(down) \in Reply /\ Tail(down) \in Seq(Reply)
  BY <1>1
<1>3. QED
  BY <1>2 DEF Reply

LEMMA HeadOfUp ==
    ASSUME WireOK, up # <<>>
    PROVE  /\ Tail(up) \in Seq(Envelope)
           /\ Head(up).seq \in Nat /\ Head(up).seg \in Nat
           /\ Head(up).count \in Nat /\ Head(up).line \in Nat
<1>1. up \in Seq(Envelope)
  BY DEF WireOK
<1>2. Head(up) \in Envelope /\ Tail(up) \in Seq(Envelope)
  BY <1>1
<1>3. \A e \in Envelope : e.seq \in Nat /\ e.seg \in Nat /\ e.count \in Nat /\ e.line \in 0..NumLines
  BY DEF Envelope
<1>4. Head(up).line \in Nat
  BY <1>2, <1>3, Lengths
<1>5. QED
  BY <1>2, <1>3, <1>4

\* What either side puts on the wire keeps its type.
LEMMA Sends ==
    ASSUME WireOK
    PROVE  /\ \A e \in Envelope : Transmit(e) => up' \in Seq(Envelope)
           /\ \A r \in Reply : Push(r) => down' \in Seq(Reply)
           /\ \A n \in Nat : Ack(n) \in Reply
<1>1. ASSUME NEW e \in Envelope, Transmit(e) PROVE up' \in Seq(Envelope)
  <2>1. Append(up, e) \in Seq(Envelope) /\ up \in Seq(Envelope)
    BY DEF WireOK
  <2>2. QED
    BY <1>1, <2>1 DEF Transmit
<1>2. ASSUME NEW r \in Reply, Push(r) PROVE down' \in Seq(Reply)
  <2>1. Append(down, r) \in Seq(Reply) /\ down \in Seq(Reply)
    BY DEF WireOK
  <2>2. QED
    BY <1>2, <2>1 DEF Push
<1>3. ASSUME NEW n \in Nat PROVE Ack(n) \in Reply
  BY <1>3 DEF Ack, Reply
<1>4. QED
  BY <1>1, <1>2, <1>3

\* A part of the state that an action leaves alone keeps its type.
LEMMA Untouched ==
    /\ FlagsOK /\ UNCHANGED <<user, wire, server>> => FlagsOK'
    /\ UserOK /\ UNCHANGED user => UserOK'
    /\ ClientOK /\ UNCHANGED client => ClientOK'
    /\ ReaderOK /\ UNCHANGED reader => ReaderOK'
    /\ WireOK /\ UNCHANGED wire => WireOK'
    /\ ServerOK /\ UNCHANGED server => ServerOK'
<1>1. UserOK /\ UNCHANGED user => UserOK'
  BY DEF UserOK, user
<1>2. ClientOK /\ UNCHANGED client => ClientOK'
  BY DEF ClientOK, client
<1>3. ReaderOK /\ UNCHANGED reader => ReaderOK'
  BY DEF ReaderOK, reader
<1>4. WireOK /\ UNCHANGED wire => WireOK'
  BY DEF WireOK, wire
<1>5. ServerOK /\ UNCHANGED server => ServerOK'
  BY DEF ServerOK, server
<1>6. FlagsOK /\ UNCHANGED <<user, wire, server>> => FlagsOK'
  BY DEF FlagsOK, user, wire, server
<1>7. QED
  BY <1>1, <1>2, <1>3, <1>4, <1>5, <1>6

\* The flags keep their type; they are apart from the rest for the provers.
LEMMA FlagsCorrect == FlagsOK /\ Next => FlagsOK'
<1> SUFFICES ASSUME FlagsOK, Next PROVE FlagsOK'
  OBVIOUS
<1>1. shutdownSent' \in BOOLEAN
  BY Zenon DEF FlagsOK, Next, ClientLoop, Environment, Server, user, WriteLine, Shutdown,
     DropStream, Connect, HandshakeDone, HandshakeFails, ReplayNext, ReplayFails,
     ReplayDone, TakePayload, TakeNewline, RefuseLine, SendSegment, SegmentFails,
     TakeShutdown, ReceiveMessage, ReceiveChunk, ReceiveMismatch, ReceiveAck, ReceiveBad,
     ReadFails, PingFails, PongTimeout, NetworkBreaks, ServerDuplicate, ServerAccept,
     ServerClosed, ServerSend, ServerGarbage
<1>2. wsUp' \in BOOLEAN
  BY Zenon DEF FlagsOK, Next, ClientLoop, Environment, Server, wire, Reconnect, WriteLine, Shutdown,
     DropStream, Connect, HandshakeDone, HandshakeFails, ReplayNext, ReplayFails,
     ReplayDone, TakePayload, TakeNewline, RefuseLine, SendSegment, SegmentFails,
     TakeShutdown, ReceiveMessage, ReceiveChunk, ReceiveMismatch, ReceiveAck, ReceiveBad,
     ReadFails, PingFails, PongTimeout, NetworkBreaks, ServerDuplicate, ServerAccept,
     ServerClosed, ServerSend, ServerGarbage
<1>3. srvClosed' \in BOOLEAN
  BY Zenon DEF FlagsOK, Next, ClientLoop, Environment, Server, server, WriteLine, Shutdown,
     DropStream, Connect, HandshakeDone, HandshakeFails, ReplayNext, ReplayFails,
     ReplayDone, TakePayload, TakeNewline, RefuseLine, SendSegment, SegmentFails,
     TakeShutdown, ReceiveMessage, ReceiveChunk, ReceiveMismatch, ReceiveAck, ReceiveBad,
     ReadFails, PingFails, PongTimeout, NetworkBreaks, ServerDuplicate, ServerAccept,
     ServerClosed, ServerSend, ServerGarbage
<1>4. QED
  BY <1>1, <1>2, <1>3 DEF FlagsOK

\* Type correctness, for every action of the client, the network and the server.
THEOREM TypeCorrect == Spec => []TypeOK
<1>1. Init => TypeOK
  <2> SUFFICES ASSUME Init PROVE TypeOK
    OBVIOUS
  <2> USE DEF Init
  <2>1. Start \in Position
    BY DEF Start, Position
  <2>2. UserOK /\ ClientOK
    BY Lengths DEF UserOK, ClientOK
  <2>3. ReaderOK /\ ServerOK
    BY <2>1 DEF ReaderOK, ServerOK
  <2>4. WireOK
    BY StreamAssumption DEF WireOK
  <2>5. FlagsOK
    BY Zenon DEF FlagsOK
  <2>6. QED
    BY <2>2, <2>3, <2>4, <2>5 DEF TypeOK, Phases
<1>2. TypeOK /\ [Next]_vars => TypeOK'
  <2> SUFFICES ASSUME TypeOK, [Next]_vars PROVE TypeOK'
    OBVIOUS
  <2>0. FlagsOK'
    BY FlagsCorrect, Untouched, Zenon DEF TypeOK, vars
  <2> USE <2>0, Untouched DEF TypeOK, Phases
  <2>1. CASE WriteLine
    <3>1. [kind |-> "payload", line |-> written + 1] \in Command
      BY <2>1, Lengths DEF WriteLine, Command, UserOK
    <3>2. [kind |-> "newline"] \in Command
      BY DEF Command
    <3>3. QED
      BY <2>1, <3>1, <3>2, Lengths DEF WriteLine, UserOK
  <2>2. CASE Shutdown
    <3>1. [kind |-> "shutdown"] \in Command
      BY DEF Command
    <3>2. QED
      BY <2>2, <3>1 DEF Shutdown, UserOK
  <2>3. CASE DropStream
    BY <2>3 DEF DropStream
  <2>4. CASE Connect
    BY <2>4 DEF Connect, WireOK, ServerOK, ReaderOK
  <2>5. CASE HandshakeDone
    BY <2>5 DEF HandshakeDone, ClientOK
  <2>6. CASE HandshakeFails
    BY <2>6 DEF HandshakeFails, Reconnect, WireOK
  <2>7. CASE ReplayNext
    BY <2>7 DEF ReplayNext, Transmit, ClientOK, WireOK
  <2>8. CASE ReplayFails
    BY <2>8 DEF ReplayFails, Reconnect, WireOK
  <2>9. CASE ReplayDone
    BY <2>9 DEF ReplayDone
  <2>10. CASE TakePayload
    <3>1. Head(outbox) \in Command /\ Head(outbox).kind = "payload"
      BY <2>10 DEF TakePayload, NextCommand
    <3>2. Head(outbox).line \in 1..NumLines
      BY <3>1 DEF Command
    <3>3. QED
      BY <2>10, <3>2 DEF TakePayload, NextCommand, ClientOK
  <2>11. CASE TakeNewline
    <3>0. lineBuf # <<>>
      BY <2>11 DEF TakeNewline
    <3>1. Head(lineBuf) \in 1..NumLines /\ nextSeq \in Nat
      <4>1. lineBuf \in Seq(1..NumLines) /\ nextSeq \in Nat
        BY DEF ClientOK
      <4>2. QED
        BY <3>0, <4>1, HeadTailProperties
    <3>2. Split(Head(lineBuf), nextSeq) \in Seq(Envelope)
      BY <3>1, SplitType
    <3>3. QED
      BY <2>11, <3>2 DEF TakeNewline, NextCommand, ClientOK
  <2>12. CASE RefuseLine
    BY <2>12 DEF RefuseLine, NextCommand, Reconnect, ClientOK, WireOK
  <2>13. CASE SendSegment
    BY <2>13 DEF SendSegment, Transmit, ClientOK, WireOK
  <2>14. CASE SegmentFails
    <3>1. sending # <<>> /\ sending \in Seq(Envelope)
      BY <2>14 DEF SegmentFails, ClientOK
    <3>2. Head(sending) \in Envelope
      BY <3>1
    <3>3. Head(sending).seq \in Nat
      BY <3>2 DEF Envelope
    <3>4. lost' \in SUBSET Nat
      BY <2>14, <3>3 DEF SegmentFails, ClientOK
    <3>5. ClientOK'
      BY <2>14, <3>2, <3>4 DEF SegmentFails, ClientOK
    <3>6. QED
      BY <2>14, <3>5 DEF SegmentFails, Reconnect, WireOK
  <2>15. CASE TakeShutdown
    <3>1. [kind |-> "closed", line |-> 0, seq |-> nextSeq, seg |-> 0, count |-> 1] \in Envelope
      BY Lengths DEF Envelope, ClientOK
    <3>2. up' \in Seq(Envelope)
      BY <2>15, <3>1, Sends DEF TakeShutdown, WireOK
    <3>3. QED
      BY <2>15, <3>2 DEF TakeShutdown, NextCommand, ClientOK, WireOK
  <2>16. CASE ReceiveMessage
    <3>1. Head(down).cursor \in SUBSET Position /\ Head(down).seq \in Nat
      BY <2>16, HeadOfDown DEF ReceiveMessage, NextReply
    <3>2. ReaderOK'
      BY <2>16, <3>1 DEF ReceiveMessage, AdvanceCursor, ReaderOK
    <3>3. QED
      BY <2>16, <3>2 DEF ReceiveMessage, NextReply, WireOK
  <2>17. CASE ReceiveChunk
    <3>1. /\ Head(down).cursor \in SUBSET Position
          /\ Head(down).seq \in Nat /\ Head(down).seg \in Nat /\ Head(down).count \in Nat
      BY <2>17, HeadOfDown DEF ReceiveChunk, NextReply
    <3>2. cursor' \in Position
      BY <2>17, <3>1 DEF ReceiveChunk, AdvanceCursor, ReaderOK
    <3>3. inbound' \in Seq(Nat)
      BY <2>17, <3>1 DEF ReceiveChunk, ReaderOK
    <3>4. assemblies' \in [1..NumDown -> [count : Nat, segs : SUBSET Nat]]
      <4>1. CASE Head(down).seq \in 1..NumDown
        BY <2>17, <3>1, <4>1 DEF ReceiveChunk, ReaderOK, NoAssembly
      <4>2. CASE Head(down).seq \notin 1..NumDown
        BY <2>17, <4>2 DEF ReceiveChunk, ReaderOK
      <4>3. QED
        BY <4>1, <4>2
    <3>5. ReaderOK'
      BY <3>2, <3>3, <3>4 DEF ReaderOK
    <3>6. down # <<>> /\ down' = Tail(down) /\ UNCHANGED <<up, breaks>>
      BY <2>17 DEF ReceiveChunk, NextReply
    <3>7. WireOK'
      BY <3>6, HeadOfDown DEF WireOK
    <3>8. QED
      BY <2>17, <3>5, <3>7 DEF ReceiveChunk, NextReply
  <2>18. CASE ReceiveMismatch
    <3>1. Head(down).cursor \in SUBSET Position
      BY <2>18, HeadOfDown DEF ReceiveMismatch, NextReply
    <3>2. ReaderOK'
      BY <2>18, <3>1 DEF ReceiveMismatch, AdvanceCursor, ReaderOK, NoAssembly
    <3>3. QED
      BY <2>18, <3>2 DEF ReceiveMismatch, NextReply, Reconnect, WireOK
  <2>19. CASE ReceiveAck
    <3>1. Head(down).seq \in Nat
      BY <2>19, HeadOfDown DEF ReceiveAck, NextReply
    <3>2. ClientOK'
      BY <2>19, <3>1 DEF ReceiveAck, Max2, ClientOK
    <3>3. QED
      BY <2>19, <3>2 DEF ReceiveAck, NextReply, WireOK
  <2>20. CASE ReceiveBad
    BY <2>20 DEF ReceiveBad, NextReply, Reconnect, WireOK
  <2>21. CASE ReadFails
    BY <2>21 DEF ReadFails, Reconnect, WireOK
  <2>22. CASE PingFails
    BY <2>22 DEF PingFails, Reconnect, WireOK
  <2>23. CASE PongTimeout
    BY <2>23, StreamAssumption DEF PongTimeout, Reconnect, WireOK
  <2>24. CASE NetworkBreaks
    BY <2>24, StreamAssumption DEF NetworkBreaks, WireOK
  <2>25. CASE ServerDuplicate
    <3>1. Head(up).seq \in Nat /\ Tail(up) \in Seq(Envelope)
      BY <2>25, HeadOfUp DEF ServerDuplicate
    <3>2. down' \in Seq(Reply)
      BY <2>25, <3>1, Sends DEF ServerDuplicate, WireOK
    <3>3. QED
      BY <2>25, <3>1, <3>2 DEF ServerDuplicate, WireOK
  <2>26. CASE ServerAccept
    <3>1. /\ Head(up).seq \in Nat /\ Head(up).seg \in Nat /\ Head(up).line \in Nat
          /\ Tail(up) \in Seq(Envelope)
      BY <2>26, HeadOfUp DEF ServerAccept
    <3>2. down' \in Seq(Reply)
      BY <2>26, <3>1, Sends DEF ServerAccept, WireOK
    <3>3. ServerOK'
      BY <2>26, <3>1 DEF ServerAccept, ServerOK
    <3>4. QED
      BY <2>26, <3>1, <3>2, <3>3 DEF ServerAccept, WireOK
  <2>27. CASE ServerClosed
    BY <2>27 DEF ServerClosed, WireOK, ServerOK
  <2>28. CASE ServerSend
    <3>1. PICK count \in IF srvPos.seg = 0 THEN DownSplits[srvPos.msg] ELSE {srvPos.count} :
             LET last == srvPos.seg + 1 = count
                 next == IF last THEN [msg |-> srvPos.msg + 1, seg |-> 0, count |-> 0]
                                 ELSE [msg |-> srvPos.msg, seg |-> srvPos.seg + 1, count |-> count]
             IN  /\ down' = Append(down, [kind |-> "message", seq |-> srvPos.msg,
                                          seg |-> srvPos.seg, count |-> count,
                                          cursor |-> IF last \/ srvPos.msg \in Stamped THEN {next} ELSE {}])
                 /\ srvPos' = next
      BY <2>28 DEF ServerSend
    <3>2. /\ srvPos.msg \in Nat \ {0} /\ srvPos.msg <= NumDown
          /\ srvPos.seg \in Nat /\ srvPos.count \in Nat
      BY <2>28 DEF ServerSend, ServerOK, Position
    <3>3. count \in Nat
      BY <3>1, <3>2, Lengths
    <3>4. srvPos' \in Position
      BY <3>1, <3>2, <3>3 DEF Position
    <3>5. \E c \in SUBSET Position :
             down' = Append(down, [kind |-> "message", seq |-> srvPos.msg,
                                   seg |-> srvPos.seg, count |-> count, cursor |-> c])
      BY <3>1, <3>4
    <3>6. down' \in Seq(Reply)
      BY <3>2, <3>3, <3>5 DEF Reply, WireOK
    <3>7. QED
      BY <2>28, <3>4, <3>6 DEF ServerSend, WireOK, ServerOK
  <2>29. CASE ServerGarbage
    <3>1. [kind |-> "bad", seq |-> 0, seg |-> 0, count |-> 0, cursor |-> {}] \in Reply
      BY DEF Reply
    <3>2. QED
      BY <2>29, <3>1, StreamAssumption DEF ServerGarbage, WireOK
  <2>30. CASE UNCHANGED vars
    BY <2>30 DEF vars
  <2>31. QED
    BY <2>1, <2>2, <2>3, <2>4, <2>5, <2>6, <2>7, <2>8, <2>9, <2>10, <2>11, <2>12,
       <2>13, <2>14, <2>15, <2>16, <2>17, <2>18, <2>19, <2>20, <2>21, <2>22, <2>23,
       <2>24, <2>25, <2>26, <2>27, <2>28, <2>29, <2>30
       DEF Next, ClientLoop, Environment, Server
<1>3. QED
  BY <1>1, <1>2, PTL DEF Spec
-----------------------------------------------------------------------------
(* The replay queue.  ReplaySorted and UnackedKept are about the queue and  *)
(* the segments still to be queued together; by themselves they say neither *)
(* that those segments belong to one line nor that there are none outside   *)
(* the sending of a line, which is what the strengthening adds.             *)

SendingShape ==
    /\ phase \notin {"send", "done"} => sending = <<>>
    /\ \A i, j \in 1..Len(sending) : sending[i].seq = sending[j].seq

QueueInv == SendingShape /\ ReplaySorted /\ UnackedKept

\* Elementary facts about the queue, the rest of the line and their concatenation.
LEMMA PendingFacts ==
    ASSUME ClientOK
    PROVE  /\ replay \in Seq(Envelope) /\ sending \in Seq(Envelope)
           /\ Len(replay) \in Nat /\ Len(sending) \in Nat
           /\ Len(Pending) = Len(replay) + Len(sending)
           /\ \A i \in 1..Len(replay) : Pending[i] = replay[i]
           /\ \A i \in 1..Len(sending) : Pending[Len(replay) + i] = sending[i]
           /\ \A i \in 1..Len(Pending) : Pending[i] \in Envelope
           /\ \A i \in 1..Len(Pending) : Pending[i].seq \in Nat /\ Pending[i].seg \in Nat
<1>1. replay \in Seq(Envelope) /\ sending \in Seq(Envelope)
  BY DEF ClientOK
<1>2. /\ Len(Pending) = Len(replay) + Len(sending)
      /\ \A i \in 1..Len(replay) : Pending[i] = replay[i]
      /\ \A i \in 1..Len(sending) : Pending[Len(replay) + i] = sending[i]
      /\ \A i \in 1..Len(Pending) : Pending[i] \in Envelope
  BY <1>1 DEF Pending
<1>3. \A e \in Envelope : e.seq \in Nat /\ e.seg \in Nat
  BY DEF Envelope
<1>4. QED
  BY <1>1, <1>2, <1>3

\* A step that leaves the queue, the numbers and the history alone keeps all
\* of it, as long as it does not enter the sending of a line.
LEMMA QueueUntouched ==
    ASSUME QueueInv,
           UNCHANGED <<replay, sending, nextSeq, lost, acked>>,
           phase' = phase \/ (phase # "send" /\ phase' # "send") \/ phase' = "done",
           phase = "done" => phase' = "done"
    PROVE  QueueInv'
<1>1. SendingShape'
  BY DEF QueueInv, SendingShape
<1>2. ReplaySorted'
  BY DEF QueueInv, ReplaySorted, Pending
<1>3. UnackedKept'
  BY DEF QueueInv, UnackedKept, HeldWhole, Pending
<1>4. QED
  BY <1>1, <1>2, <1>3 DEF QueueInv

\* Segments of a line, one by one.
LEMMA SplitElement ==
    ASSUME NEW line \in 1..NumLines, NEW n, NEW s \in 1..Segments[line]
    PROVE  Split(line, n)[s].seq = n /\ Split(line, n)[s].seg = s - 1
BY DEF Split

\* A line gets its number and is appended whole to what is pending.
LEMMA NumberedLineIsKept ==
    ASSUME TypeOK, TypeOK', QueueInv, TakeNewline
    PROVE  QueueInv'
<1>1. PICK line \in 1..NumLines, number \in Nat :
         /\ line = Head(lineBuf) /\ number = nextSeq
         /\ Segments[line] > 0
         /\ sending' = Split(line, number)
  <2>1. lineBuf # <<>>
    BY DEF TakeNewline
  <2>2. lineBuf \in Seq(1..NumLines) /\ nextSeq \in Nat
    BY DEF TypeOK, ClientOK
  <2>3. Head(lineBuf) \in 1..NumLines
    BY <2>1, <2>2, HeadTailProperties
  <2>4. QED
    BY <2>2, <2>3 DEF TakeNewline
<1> DEFINE segments == Split(line, number)
<1>2. /\ sending = <<>> /\ replay' = replay
      /\ nextSeq' = number + 1 /\ lost' = lost /\ acked' = acked
      /\ phase = "open" /\ phase' = "send"
  BY <1>1 DEF TakeNewline, NextCommand, QueueInv, SendingShape
<1>3. segments \in Seq(Envelope) /\ Len(segments) = Segments[line] /\ Segments[line] \in Nat
  BY <1>1, SplitType, Lengths
<1>4. \A s \in 1..Segments[line] : segments[s].seq = number /\ segments[s].seg = s - 1
  BY <1>1, SplitElement
<1> HIDE DEF segments
<1>5. /\ Len(replay) \in Nat
      /\ Len(Pending) = Len(replay)
      /\ \A i \in 1..Len(replay) : Pending[i] = replay[i]
      /\ \A i \in 1..Len(Pending) : Pending[i].seq \in Nat /\ Pending[i].seg \in Nat
  BY <1>2, PendingFacts DEF TypeOK
<1>6. /\ Len(Pending') = Len(replay) + Segments[line]
      /\ \A i \in 1..Len(replay) : Pending'[i] = Pending[i]
      /\ \A s \in 1..Segments[line] : Pending'[Len(replay) + s] = segments[s]
  <2>1. replay \in Seq(Envelope)
    BY DEF TypeOK, ClientOK
  <2>2. Pending' = replay \o segments
    BY <1>1, <1>2 DEF Pending, segments
  <2>3. QED
    BY <1>3, <1>5, <2>1, <2>2, ConcatProperties
<1>7. \A i \in 1..Len(Pending') :
         \/ i \in 1..Len(Pending) /\ Pending'[i] = Pending[i]
         \/ /\ i - Len(replay) \in 1..Segments[line]
            /\ Pending'[i].seq = number /\ Pending'[i].seg = i - Len(replay) - 1
  <2>1. TAKE i \in 1..Len(Pending')
  <2>2. CASE i <= Len(replay)
    BY <2>2, <1>5, <1>6
  <2>3. CASE i > Len(replay)
    <3>1. i - Len(replay) \in 1..Segments[line]
      BY <2>3, <1>3, <1>5, <1>6
    <3>2. Pending'[Len(replay) + (i - Len(replay))] = segments[i - Len(replay)]
      BY <3>1, <1>6
    <3>3. Len(replay) + (i - Len(replay)) = i
      BY <1>3, <1>5, <1>6
    <3>4. QED
      BY <3>1, <3>2, <3>3, <1>4
  <2>4. QED
    BY <2>2, <2>3, <1>3, <1>5, <1>6
<1>8. SendingShape'
  BY <1>1, <1>2, <1>3, <1>4 DEF segments, SendingShape
<1>9. ReplaySorted'
  <2>1. \A i \in 1..Len(Pending') : Pending'[i].seq < nextSeq'
    BY <1>1, <1>2, <1>5, <1>7 DEF QueueInv, ReplaySorted
  <2>2. ASSUME NEW i \in 1..Len(Pending'), NEW j \in 1..Len(Pending'), i < j
        PROVE  Before(Pending'[i], Pending'[j])
    <3>1. CASE j \in 1..Len(Pending)
      <4>1. i \in 1..Len(Pending)
        BY <2>2, <3>1, <1>5
      <4>2. Pending'[i] = Pending[i] /\ Pending'[j] = Pending[j]
        BY <4>1, <3>1, <1>5, <1>6
      <4>3. QED
        BY <4>1, <4>2, <3>1, <2>2 DEF QueueInv, ReplaySorted
    <3>2. CASE j \notin 1..Len(Pending)
      <4>1. Pending'[j].seq = number /\ Pending'[j].seg = j - Len(replay) - 1
        BY <1>7, <3>2
      <4>2. CASE i \in 1..Len(Pending)
        BY <4>1, <4>2, <1>1, <1>2, <1>5, <1>6 DEF QueueInv, ReplaySorted, Before
      <4>3. CASE i \notin 1..Len(Pending)
        BY <4>1, <4>3, <2>2, <1>5, <1>7 DEF Before
      <4>4. QED
        BY <4>2, <4>3
    <3>3. QED
      BY <3>1, <3>2
  <2>3. QED
    BY <2>1, <2>2 DEF ReplaySorted
<1>10. UnackedKept'
  <2>1. SUFFICES ASSUME NEW n \in 1..number, n \notin lost, ~(n <= acked)
                 PROVE  \E l \in 1..NumLines : HeldWhole(l, n)'
    BY <1>1, <1>2 DEF UnackedKept
  <2>2. CASE n = number
    <3>1. \A s \in 1..Segments[line] : Pending'[Len(replay) + s] = Split(line, number)[s]
      BY <1>6 DEF segments
    <3>2. \A s \in 1..Segments[line] : Len(replay) + s \in 1..Len(Pending')
      BY <1>3, <1>5, <1>6
    <3>3. HeldWhole(line, n)'
      BY <1>1, <2>2, <3>1, <3>2 DEF HeldWhole, Split
    <3>4. QED
      BY <3>3
  <2>3. CASE n # number
    <3>1. n \in 1..(number - 1)
      BY <1>1, <2>3
    <3>2. PICK l \in 1..NumLines : HeldWhole(l, n)
      BY <1>1, <1>2, <2>1, <3>1 DEF QueueInv, UnackedKept
    <3>3. \A i \in 1..Len(Pending) : i \in 1..Len(Pending') /\ Pending'[i] = Pending[i]
      BY <1>3, <1>5, <1>6
    <3>4. HeldWhole(l, n)'
      BY <3>2, <3>3 DEF HeldWhole, Split
    <3>5. QED
      BY <3>4
  <2>4. QED
    BY <2>2, <2>3
<1>11. QED
  BY <1>8, <1>9, <1>10 DEF QueueInv

\* Queueing the next segment moves it from the rest of the line to the queue.
LEMMA SegmentMoves ==
    ASSUME ClientOK, sending # <<>>
    PROVE  Append(replay, Head(sending)) \o Tail(sending) = Pending
<1>1. replay \in Seq(Envelope) /\ sending \in Seq(Envelope)
  BY DEF ClientOK
<1>2. QED
  BY <1>1 DEF Pending

LEMMA SentSegmentIsKept ==
    ASSUME TypeOK, QueueInv, SendSegment
    PROVE  QueueInv'
<1>1. /\ sending # <<>> /\ sending \in Seq(Envelope) /\ phase = "send"
      /\ sending' = Tail(sending) /\ nextSeq' = nextSeq /\ lost' = lost /\ acked' = acked
  BY DEF SendSegment, TypeOK, ClientOK
<1>2. Pending' = Pending
  BY SegmentMoves DEF SendSegment, TypeOK, Pending
<1>3. SendingShape'
  <2>1. \A i \in 1..Len(sending') : i + 1 \in 1..Len(sending) /\ sending'[i] = sending[i + 1]
    BY <1>1, HeadTailProperties
  <2>2. \A i, j \in 1..Len(sending') : sending'[i].seq = sending'[j].seq
    BY <2>1 DEF QueueInv, SendingShape
  <2>3. phase' # "send" => sending' = <<>>
    BY <1>1 DEF SendSegment
  <2>4. QED
    BY <2>2, <2>3 DEF SendingShape
<1>4. ReplaySorted'
  BY <1>1, <1>2 DEF QueueInv, ReplaySorted
<1>5. UnackedKept'
  BY <1>1, <1>2 DEF QueueInv, UnackedKept, HeldWhole
<1>6. QED
  BY <1>3, <1>4, <1>5 DEF QueueInv

\* A failed send forgets only segments of the line being sent, which is then
\* counted as lost.
LEMMA FailedSegmentIsAccounted ==
    ASSUME TypeOK, TypeOK', QueueInv, SegmentFails
    PROVE  QueueInv'
<1>1. /\ sending # <<>> /\ sending \in Seq(Envelope) /\ replay \in Seq(Envelope)
      /\ sending' = <<>> /\ replay' = Append(replay, Head(sending))
      /\ nextSeq' = nextSeq /\ acked' = acked /\ phase = "send" /\ phase' = "connect"
  BY DEF SegmentFails, Reconnect, TypeOK, ClientOK
<1>2. /\ Len(replay) \in Nat /\ Len(sending) \in Nat \ {0} /\ nextSeq \in Nat
      /\ Head(sending) = sending[1]
  BY <1>1 DEF TypeOK, ClientOK
<1>3. /\ Len(Pending) = Len(replay) + Len(sending)
      /\ \A i \in 1..Len(replay) : Pending[i] = replay[i]
      /\ \A i \in 1..Len(sending) : Pending[Len(replay) + i] = sending[i]
  BY PendingFacts DEF TypeOK
<1>4. Pending' = replay'
  BY <1>1, ConcatEmptySeq DEF Pending, TypeOK, ClientOK
<1>5. /\ Len(Pending') = Len(replay) + 1
      /\ \A i \in 1..Len(Pending') : i \in 1..Len(Pending) /\ Pending'[i] = Pending[i]
  <2>1. Len(replay') = Len(replay) + 1
    BY <1>1
  <2>2. \A i \in 1..Len(replay) : replay'[i] = replay[i]
    BY <1>1
  <2>3. replay'[Len(replay) + 1] = sending[1]
    BY <1>1, <1>2
  <2>4. Pending[Len(replay) + 1] = sending[1]
    BY <1>2, <1>3
  <2>5. \A i \in 1..(Len(replay) + 1) : i \in 1..Len(replay) \/ i = Len(replay) + 1
    BY <1>2
  <2>6. \A i \in 1..(Len(replay) + 1) : replay'[i] = Pending[i]
    BY <1>3, <2>2, <2>3, <2>4, <2>5
  <2>7. QED
    BY <1>2, <1>3, <1>4, <2>1, <2>6
<1>6. SendingShape'
  BY <1>1 DEF SendingShape
<1>7. ReplaySorted'
  BY <1>1, <1>5 DEF QueueInv, ReplaySorted
<1>8. UnackedKept'
  <2>1. SUFFICES ASSUME NEW n \in 1..(nextSeq - 1), n \notin lost', ~(n <= acked)
                 PROVE  \E line \in 1..NumLines : HeldWhole(line, n)'
    BY <1>1 DEF UnackedKept
  <2>2. lost \subseteq lost' /\ (Len(sending) > 1 => Head(sending).seq \in lost')
    BY DEF SegmentFails
  <2>3. PICK line \in 1..NumLines : HeldWhole(line, n)
    BY <1>1, <2>1, <2>2 DEF QueueInv, UnackedKept
  <2>4. ASSUME NEW s \in 1..Segments[line]
        PROVE  \E i \in 1..Len(Pending') : Pending'[i] = Split(line, n)[s]
    <3>1. PICK i \in 1..Len(Pending) : Pending[i] = Split(line, n)[s]
      BY <2>3, <2>4 DEF HeldWhole
    <3>2. i <= Len(replay) + 1
      <4>1. SUFFICES ASSUME i > Len(replay) + 1 PROVE FALSE
        BY <1>2, <1>3
      <4>2. i - Len(replay) \in 1..Len(sending) /\ Len(sending) > 1
            /\ Len(replay) + (i - Len(replay)) = i
        BY <4>1, <1>2, <1>3
      <4>3. Pending[i] = sending[i - Len(replay)]
        BY <4>2, <1>3
      <4>4. Pending[i].seq = Head(sending).seq
        BY <4>2, <4>3, <1>2 DEF QueueInv, SendingShape
      <4>5. Pending[i].seq = n
        BY <3>1, <2>4, SplitElement
      <4>6. QED
        BY <4>2, <4>4, <4>5, <2>1, <2>2
    <3>3. i \in 1..Len(Pending')
      BY <3>2, <1>2, <1>3, <1>5
    <3>4. QED
      BY <3>1, <3>3, <1>5
  <2>5. HeldWhole(line, n)'
    BY <2>3, <2>4 DEF HeldWhole, Split
  <2>6. QED
    BY <2>5
<1>9. QED
  BY <1>6, <1>7, <1>8 DEF QueueInv

\* An acknowledgement removes a prefix, and nothing it does not cover.
LEMMA AckedPrefixGoes ==
    ASSUME TypeOK, TypeOK', QueueInv, ReceiveAck
    PROVE  QueueInv'
<1> DEFINE ackSeq == Head(down).seq
<1>1. ackSeq \in Nat /\ acked \in Nat
  BY HeadOfDown DEF ReceiveAck, NextReply, TypeOK, ClientOK
<1>2. /\ sending = <<>> /\ sending' = <<>> /\ phase = "open" /\ phase' = "open"
      /\ nextSeq' = nextSeq /\ lost' = lost
      /\ acked' = Max2(acked, ackSeq)
  BY DEF ReceiveAck, NextReply, QueueInv, SendingShape
<1>3. PICK k \in 0..Len(replay) :
         /\ \A i \in 1..k : replay[i].seq <= ackSeq
         /\ \A i \in (k + 1)..Len(replay) : replay[i].seq > ackSeq
         /\ replay' = SubSeq(replay, k + 1, Len(replay))
  BY DEF ReceiveAck
<1>4. acked <= acked' /\ ackSeq <= acked' /\ acked' \in Nat
  BY <1>1, <1>2 DEF Max2
<1> HIDE DEF ackSeq
<1>5. /\ replay \in Seq(Envelope) /\ Len(replay) \in Nat
      /\ Len(Pending) = Len(replay)
      /\ \A i \in 1..Len(replay) : Pending[i] = replay[i]
      /\ \A i \in 1..Len(replay) : replay[i].seq \in Nat
  BY <1>2, PendingFacts DEF TypeOK
<1>6. /\ Len(Pending') = Len(replay) - k
      /\ \A i \in 1..Len(Pending') : k + i \in 1..Len(Pending) /\ Pending'[i] = Pending[k + i]
  <2>1. replay' \in Seq(Envelope)
    BY DEF TypeOK, ClientOK
  <2>2. Pending' = replay'
    BY <1>2, <2>1, ConcatEmptySeq DEF Pending
  <2>3. Len(replay') = Len(replay) - k
    BY <1>3, <1>5
  <2>4. \A i \in 1..(Len(replay) - k) : replay'[i] = replay[k + i]
    BY <1>3, <1>5
  <2>5. \A i \in 1..(Len(replay) - k) : k + i \in 1..Len(replay)
    BY <1>3, <1>5
  <2>6. \A i \in 1..(Len(replay) - k) : Pending'[i] = Pending[k + i]
    BY <1>5, <2>2, <2>4, <2>5
  <2>7. QED
    BY <1>5, <2>2, <2>3, <2>5, <2>6
<1>7. SendingShape'
  BY <1>2 DEF SendingShape
<1>8. ReplaySorted'
  <2>1. ASSUME NEW i \in 1..Len(Pending'), NEW j \in 1..Len(Pending'), i < j
        PROVE  Before(Pending'[i], Pending'[j])
    <3>1. k + i \in 1..Len(Pending) /\ k + j \in 1..Len(Pending) /\ k + i < k + j
      BY <2>1, <1>3, <1>6
    <3>2. Before(Pending[k + i], Pending[k + j])
      BY <3>1 DEF QueueInv, ReplaySorted
    <3>3. QED
      BY <3>2, <1>6
  <2>2. \A i \in 1..Len(Pending') : Pending'[i].seq < nextSeq'
    BY <1>2, <1>6 DEF QueueInv, ReplaySorted
  <2>3. QED
    BY <2>1, <2>2 DEF ReplaySorted
<1>9. UnackedKept'
  <2>1. SUFFICES ASSUME NEW n \in 1..(nextSeq - 1), n \notin lost, ~(n <= acked')
                 PROVE  \E line \in 1..NumLines : HeldWhole(line, n)'
    BY <1>2 DEF UnackedKept
  <2>2. n \in Nat /\ nextSeq \in Nat /\ ~(n <= acked) /\ n > ackSeq
    BY <1>1, <1>4, <2>1 DEF TypeOK, ClientOK
  <2>3. PICK line \in 1..NumLines : HeldWhole(line, n)
    BY <1>2, <2>1, <2>2 DEF QueueInv, UnackedKept
  <2>4. ASSUME NEW s \in 1..Segments[line]
        PROVE  \E i \in 1..Len(Pending') : Pending'[i] = Split(line, n)[s]
    <3>1. PICK i \in 1..Len(Pending) : Pending[i] = Split(line, n)[s]
      BY <2>3, <2>4 DEF HeldWhole
    <3>2. replay[i].seq = n
      BY <3>1, <1>5, <2>4, SplitElement
    <3>3. i > k
      BY <3>2, <2>2, <1>1, <1>3, <1>5
    <3>4. i - k \in 1..Len(Pending') /\ k + (i - k) = i
      BY <3>3, <1>3, <1>5, <1>6
    <3>5. Pending'[i - k] = Pending[k + (i - k)]
      BY <3>4, <1>6
    <3>6. QED
      BY <3>1, <3>4, <3>5
  <2>5. HeldWhole(line, n)'
    BY <2>3, <2>4 DEF HeldWhole, Split
  <2>6. QED
    BY <2>5
<1>10. QED
  BY <1>7, <1>8, <1>9 DEF QueueInv

\* A number is used up without a line behind it.
LEMMA NumberWithoutLine ==
    ASSUME TypeOK, QueueInv, RefuseLine \/ TakeShutdown
    PROVE  QueueInv'
<1>1. /\ UNCHANGED <<replay, sending, acked>> /\ nextSeq' = nextSeq + 1
      /\ phase = "open" /\ phase' # "send" /\ nextSeq \in Nat
      /\ sending = <<>> /\ lost \subseteq lost'
  BY DEF RefuseLine, TakeShutdown, NextCommand, Reconnect, QueueInv, SendingShape,
         TypeOK, ClientOK
<1>2. Pending' = Pending /\ \A i \in 1..Len(Pending) : Pending[i].seq \in Nat
  BY <1>1, PendingFacts DEF Pending, TypeOK
<1>3. SendingShape'
  BY <1>1 DEF SendingShape
<1>4. ReplaySorted'
  BY <1>1, <1>2 DEF QueueInv, ReplaySorted
<1>5. UnackedKept'
  <2>1. CASE TakeShutdown
    BY <2>1 DEF TakeShutdown, UnackedKept
  <2>2. CASE RefuseLine
    <3>1. SUFFICES ASSUME NEW n \in 1..nextSeq, n \notin lost', ~(n <= acked)
                   PROVE  \E line \in 1..NumLines : HeldWhole(line, n)'
      BY <1>1 DEF UnackedKept
    <3>2. n \in 1..(nextSeq - 1) /\ n \notin lost
      BY <1>1, <2>2, <3>1 DEF RefuseLine
    <3>3. PICK line \in 1..NumLines : HeldWhole(line, n)
      BY <1>1, <3>1, <3>2 DEF QueueInv, UnackedKept
    <3>4. HeldWhole(line, n)'
      BY <1>2, <3>3 DEF HeldWhole, Split
    <3>5. QED
      BY <3>4
  <2>3. QED
    BY <2>1, <2>2
<1>6. QED
  BY <1>3, <1>4, <1>5 DEF QueueInv

LEMMA QueueStep == TypeOK /\ TypeOK' /\ QueueInv /\ [Next]_vars => QueueInv'
<1> SUFFICES ASSUME TypeOK, TypeOK', QueueInv, [Next]_vars PROVE QueueInv'
  OBVIOUS
<1> USE QueueUntouched
<1>1. CASE WriteLine \/ Shutdown \/ DropStream
  BY <1>1 DEF WriteLine, Shutdown, DropStream, client
<1>2. CASE Connect \/ HandshakeDone \/ HandshakeFails
  BY <1>2 DEF Connect, HandshakeDone, HandshakeFails, Reconnect, client
<1>3. CASE ReplayNext \/ ReplayFails \/ ReplayDone
  BY <1>3 DEF ReplayNext, ReplayFails, ReplayDone, Reconnect, client
<1>4. CASE TakePayload
  BY <1>4 DEF TakePayload, NextCommand
<1>5. CASE TakeNewline
  BY <1>5, NumberedLineIsKept
<1>6. CASE RefuseLine \/ TakeShutdown
  BY <1>6, NumberWithoutLine
<1>7. CASE SendSegment
  BY <1>7, SentSegmentIsKept
<1>8. CASE SegmentFails
  BY <1>8, FailedSegmentIsAccounted
<1>9. CASE ReceiveMessage \/ ReceiveChunk \/ ReceiveMismatch \/ ReceiveBad
  BY <1>9 DEF ReceiveMessage, ReceiveChunk, ReceiveMismatch, ReceiveBad, NextReply,
     Reconnect, client
<1>10. CASE ReceiveAck
  BY <1>10, AckedPrefixGoes
<1>11. CASE ReadFails \/ PingFails \/ PongTimeout
  BY <1>11 DEF ReadFails, PingFails, PongTimeout, Reconnect, client
<1>12. CASE NetworkBreaks \/ ServerGarbage \/ Server
  BY <1>12 DEF NetworkBreaks, ServerGarbage, Server, ServerDuplicate, ServerAccept,
     ServerClosed, ServerSend, client
<1>13. CASE UNCHANGED vars
  BY <1>13 DEF vars, client
<1>14. QED
  BY <1>1, <1>2, <1>3, <1>4, <1>5, <1>6, <1>7, <1>8, <1>9, <1>10, <1>11, <1>12, <1>13
     DEF Next, ClientLoop, Environment

LEMMA QueueInvariant == Spec => []QueueInv
<1>1. Init => QueueInv
  <2> SUFFICES ASSUME Init PROVE QueueInv
    OBVIOUS
  <2>1. Pending = <<>> /\ nextSeq = 1 /\ sending = <<>>
    BY DEF Init, Pending
  <2>2. QED
    BY <2>1 DEF QueueInv, SendingShape, ReplaySorted, UnackedKept
<1>2. QED
  BY <1>1, QueueStep, TypeCorrect, PTL DEF Spec

\* The replay queue is in the order of writing at every moment: every replay
\* resends the lines and their segments as they were first sent.
THEOREM ReplayOrder == Spec => []ReplaySorted
<1>1. QueueInv => ReplaySorted
  BY DEF QueueInv
<1>2. QED
  BY <1>1, QueueInvariant, PTL

\* Whatever fails and however often, an allocated number is abandoned, covered
\* by an acknowledgement, or all its segments are held for the next replay.
THEOREM NothingUnackedForgotten == Spec => []UnackedKept
<1>1. QueueInv => UnackedKept
  BY DEF QueueInv
<1>2. QED
  BY <1>1, QueueInvariant, PTL

-----------------------------------------------------------------------------
(***************************************************************************)
(* The way of a line.  What follows speaks of lines by their numbers: the  *)
(* i-th line written gets number i, and E(n, s) is its s-th envelope.      *)
(***************************************************************************)

\* The commands of the user, in order: a payload and a newline for each line,
\* and the shutdown.  Those in the channel are the ones behind the last taken.
Is(command, j) ==
    \/ j = 2 * written + 1 /\ shutdownSent /\ command = [kind |-> "shutdown"]
    \/ \E line \in 1..written :
          \/ j = 2 * line - 1 /\ command = [kind |-> "payload", line |-> line]
          \/ j = 2 * line /\ command = [kind |-> "newline"]

Taken == 2 * nextSeq - 2 + Len(lineBuf)

Commands ==
    /\ lineBuf \in {<<>>, <<nextSeq>>}
    /\ Len(outbox) + Taken = IF shutdownSent THEN 2 * written + 1 ELSE 2 * written
    /\ \A i \in 1..Len(outbox) : Is(outbox[i], Taken + i)

E(n, s) == Split(n, n)[s]

\* An envelope of a line that was written.
Formed(e) == \E n \in 1..written : \E s \in 1..Segments[n] : e = E(n, s)

Wire == {up[i] : i \in 1..Len(up)}
Held == {Pending[i] : i \in 1..Len(Pending)}

\* What the loop is about to send on this connection.
Unsent ==
    IF phase = "replay" THEN {replay[k] : k \in replayAt..Len(replay)}
    ELSE IF phase = "send" THEN {sending[k] : k \in 1..Len(sending)}
    ELSE {}

\* What it has sent, or has lost, on this connection.
Through ==
    IF phase = "replay" THEN replayAt - 1
    ELSE IF phase \in {"open", "send"} THEN Len(replay)
    ELSE 0

WireShape ==
    /\ \A i, j \in 1..Len(up) : i < j => Before(up[i], up[j])
    /\ \A e \in Wire : e.seq < nextSeq /\ \A f \in Unsent : Before(e, f)
    /\ \A e \in Wire :
         \/ e.kind = "message" /\ Formed(e)
         \/ e.kind = "closed" /\ e.seq = written + 1 /\ shutdownSent /\ phase = "done"
    /\ phase = "handshake" => up = <<>>
    /\ phase = "replay" => replayAt <= Len(replay) + 1

HeldShape ==
    /\ \A e \in Held : Formed(e)
    /\ sending # <<>> => sending[Len(sending)].seg + 1 = Segments[sending[1].seq]

Numbers ==
    /\ acked <= srvSeq /\ srvSeq < nextSeq /\ srvParts.seq < nextSeq /\ srvSeq <= written
    /\ \A i \in 1..Len(down) : down[i].kind = "ack" => down[i].seq <= srvSeq
    /\ \A n \in 1..written : n < nextSeq /\ Segments[n] = 0 => n \in lost
    /\ lost \subseteq 1..written /\ \A n \in lost : n < nextSeq

\* The server has no part of what is yet to be sent, and never a whole message.
Parts ==
    /\ phase = "send" => \A i \in 1..Len(sending) :
         /\ srvSeq < sending[i].seq
         /\ srvParts.seq = sending[i].seq => \A s \in srvParts.segs : s < sending[i].seg
    /\ srvParts.seq > srvSeq =>
         /\ srvParts.seq \in 1..written
         /\ srvParts.segs \subseteq 0..(Segments[srvParts.seq] - 1)
         /\ srvParts.segs # 0..(Segments[srvParts.seq] - 1)

\* The last envelope of an abandoned line is nowhere.
Unfinished ==
    \A n \in lost :
        /\ \A e \in Wire \cup Held : e.seq = n /\ e.kind = "message" => e.seg + 1 < Segments[n]
        /\ srvParts.seq = n => \A s \in srvParts.segs : s + 1 < Segments[n]

Logged ==
    /\ srvSeq = IF srvLog = <<>> THEN 0 ELSE srvLog[Len(srvLog)]
    /\ 1..srvSeq \subseteq lost \cup Accepted
    /\ srvClosed => shutdownSent /\ phase = "done" /\ 1..written \subseteq lost \cup Accepted

\* The server has e, and nothing on the wire makes it forget it.
Got(e) ==
    /\ srvParts.seq = e.seq /\ e.seg \in srvParts.segs
    /\ \A f \in Wire : f.seq > srvSeq => f.seq >= e.seq

Settled(e) == e.seq \in lost \/ e.seq <= srvSeq \/ e \in Wire \/ Got(e)

\* Envelopes reach the server in the order of numbers, none being left out.
NoGaps ==
    /\ \A e \in Wire : \A n \in 1..written : \A s \in 1..Segments[n] :
          Before(E(n, s), e) => Settled(E(n, s))
    /\ wsUp => \A k \in 1..Through : Settled(replay[k])

LineInv ==
    /\ phase # "done" => Commands
    /\ WireShape /\ HeldShape /\ Numbers /\ Parts /\ Unfinished /\ Logged /\ NoGaps

-----------------------------------------------------------------------------
\* The types the proofs below use.
LEMMA WayTypes ==
    ASSUME TypeOK
    PROVE  /\ written \in Nat /\ nextSeq \in Nat \ {0} /\ srvSeq \in Nat /\ acked \in Nat
           /\ NumLines \in Nat /\ 1..written \subseteq 1..NumLines
           /\ \A n \in 1..NumLines : Segments[n] \in Nat
           /\ up \in Seq(Envelope) /\ Len(up) \in Nat
           /\ srvParts.seq \in Nat /\ srvParts.segs \subseteq Nat
           /\ \A e \in Wire \cup Held : e.seq \in Nat /\ e.seg \in Nat /\ e \in Envelope
           /\ \A i \in 1..Len(up) : up[i].seq \in Nat /\ up[i].seg \in Nat
<1>1. ClientOK /\ up \in Seq(Envelope) /\ written \in 0..NumLines
  BY DEF TypeOK, WireOK, UserOK
<1>2. \A i \in 1..Len(up) : up[i] \in Envelope
  BY <1>1
<1>3. \A e \in Envelope : e.seq \in Nat /\ e.seg \in Nat
  BY DEF Envelope
<1>4. Wire \subseteq Envelope /\ Held \subseteq Envelope
  BY <1>1, <1>2, PendingFacts DEF Wire, Held
<1>5. srvParts.seq \in Nat /\ srvParts.segs \subseteq Nat /\ srvSeq \in Nat
  BY DEF TypeOK, ServerOK
<1>6. nextSeq \in Nat \ {0} /\ acked \in Nat
  BY <1>1 DEF ClientOK
<1>7. QED
  BY <1>1, <1>2, <1>3, <1>4, <1>5, <1>6, Lengths

\* The fields of an envelope.
LEMMA EnvelopeFields ==
    ASSUME NEW n \in 1..NumLines, NEW s \in 1..Segments[n]
    PROVE  /\ E(n, s).seq = n /\ E(n, s).seg = s - 1 /\ E(n, s).line = n
           /\ E(n, s).count = Segments[n] /\ E(n, s).kind = "message"
BY DEF E, Split

\* An envelope is known by its number and its segment.
LEMMA FormedFields ==
    ASSUME TypeOK, NEW e, Formed(e)
    PROVE  /\ e.seq \in 1..written /\ e.seg \in Nat /\ e.seg + 1 \in 1..Segments[e.seq]
           /\ e = E(e.seq, e.seg + 1) /\ e.line = e.seq /\ e.count = Segments[e.seq]
           /\ e.kind = "message"
<1>1. PICK n \in 1..written : \E s \in 1..Segments[n] : e = E(n, s)
  BY DEF Formed
<1> PICK s \in 1..Segments[n] : e = E(n, s)
  BY <1>1
<1>2. n \in 1..NumLines /\ Segments[n] \in Nat
  BY WayTypes
<1>3. e.seq = n /\ e.seg = s - 1 /\ e.line = n /\ e.count = Segments[n] /\ e.kind = "message"
  BY <1>2, EnvelopeFields
<1>4. s - 1 \in Nat /\ (s - 1) + 1 = s
  BY <1>2
<1>5. QED
  BY <1>1, <1>2, <1>3, <1>4

\* What the client has to send of a line the server has not.
LEMMA Reached ==
    ASSUME TypeOK, QueueInv, HeldShape, Numbers, phase # "done",
           NEW n \in 1..written, n < nextSeq, n \notin lost, n > srvSeq,
           NEW s \in 1..Segments[n]
    PROVE  E(n, s) \in Held
<1>1. n \in 1..(nextSeq - 1) /\ ~(n <= acked)
  BY WayTypes DEF Numbers
<1>2. PICK line \in 1..NumLines : HeldWhole(line, n)
  BY <1>1 DEF QueueInv, UnackedKept
<1>3. 1 \in 1..Segments[line]
  BY <1>2, Lengths DEF HeldWhole
<1>4. PICK i \in 1..Len(Pending) : Pending[i] = Split(line, n)[1]
  BY <1>2, <1>3 DEF HeldWhole
<1>5. Pending[i].seq = n /\ Pending[i].line = line
  BY <1>3, <1>4 DEF Split
<1>6. Formed(Pending[i])
  BY <1>4 DEF HeldShape, Held
<1>7. line = n
  BY <1>5, <1>6, FormedFields
<1>8. PICK j \in 1..Len(Pending) : Pending[j] = Split(n, n)[s]
  BY <1>2, <1>7 DEF HeldWhole
<1>9. QED
  BY <1>8 DEF Held, E

-----------------------------------------------------------------------------
(* The wire.                                                                *)

\* The envelope that arrives is before all others on the wire.
LEMMA Arrives ==
    ASSUME TypeOK, WireShape, up # <<>>, up' = Tail(up)
    PROVE  /\ Head(up) \in Wire /\ Wire = Wire' \cup {Head(up)}
           /\ \A f \in Wire' : Before(Head(up), f)
           /\ \A i, j \in 1..Len(up') : i < j => Before(up'[i], up'[j])
<1>1. up \in Seq(Envelope) /\ Len(up) \in Nat \ {0} /\ Head(up) = up[1]
  BY WayTypes
<1>2. /\ Len(up') = Len(up) - 1
      /\ \A i \in 1..Len(up') : i + 1 \in 1..Len(up) /\ up'[i] = up[i + 1]
  BY <1>1, HeadTailProperties
<1>3. \A i \in 1..Len(up) : i = 1 \/ (i - 1 \in 1..Len(up') /\ up'[i - 1] = up[i])
  BY <1>1, <1>2
<1>4. \A i, j \in 1..Len(up) : i < j => Before(up[i], up[j])
  BY DEF WireShape
<1>5. \A f \in Wire' : f \in Wire /\ Before(Head(up), f)
  <2>1. ASSUME NEW i \in 1..Len(up') PROVE up'[i] \in Wire /\ Before(up[1], up'[i])
    BY <1>1, <1>2, <1>4 DEF Wire
  <2>2. QED
    BY <1>1, <2>1 DEF Wire
<1>6. \A f \in Wire : f = Head(up) \/ f \in Wire'
  BY <1>1, <1>3 DEF Wire
<1>7. Head(up) \in Wire
  BY <1>1 DEF Wire
<1>8. \A i, j \in 1..Len(up') : i < j => Before(up'[i], up'[j])
  BY <1>1, <1>2, <1>4
<1>9. QED
  BY <1>5, <1>6, <1>7, <1>8

\* The envelope that departs is behind all others on the wire.
LEMMA Departs ==
    ASSUME TypeOK, WireShape, NEW x \in Envelope, Transmit(x),
           \A e \in Wire : Before(e, x)
    PROVE  /\ Wire' = IF wsUp THEN Wire \cup {x} ELSE Wire
           /\ \A i, j \in 1..Len(up') : i < j => Before(up'[i], up'[j])
<1>1. up \in Seq(Envelope) /\ Len(up) \in Nat
  BY WayTypes
<1>2. CASE ~wsUp
  BY <1>2 DEF Transmit, Wire, WireShape
<1>3. CASE wsUp
  <2>1. /\ Len(up') = Len(up) + 1 /\ up'[Len(up) + 1] = x
        /\ \A i \in 1..Len(up) : up'[i] = up[i]
    BY <1>1, <1>3 DEF Transmit
  <2>2. \A i \in 1..Len(up') : (i \in 1..Len(up) /\ up'[i] = up[i]) \/ (i = Len(up) + 1 /\ up'[i] = x)
    BY <1>1, <2>1
  <2>3. Wire' = Wire \cup {x}
    <3>1. \A e \in Wire' : e \in Wire \cup {x}
      BY <2>2 DEF Wire
    <3>2. \A i \in 1..Len(up) : i \in 1..Len(up') /\ up[i] = up'[i]
      BY <1>1, <2>1
    <3>3. Len(up) + 1 \in 1..Len(up')
      BY <1>1, <2>1
    <3>4. Wire \subseteq Wire' /\ x \in Wire'
      BY <2>1, <3>2, <3>3 DEF Wire
    <3>5. QED
      BY <3>1, <3>4
  <2>4. ASSUME NEW i \in 1..Len(up'), NEW j \in 1..Len(up'), i < j
        PROVE  Before(up'[i], up'[j])
    <3>1. i \in 1..Len(up) /\ up'[i] = up[i] /\ up[i] \in Wire
      BY <1>1, <2>1, <2>2, <2>4 DEF Wire
    <3>2. QED
      BY <2>2, <2>4, <3>1 DEF WireShape
  <2>5. QED
    BY <1>3, <2>3, <2>4
<1>4. QED
  BY <1>2, <1>3

\* A broken connection delivers a prefix: with an envelope all before it.
LEMMA Cut ==
    ASSUME TypeOK, WireShape, NetworkBreaks
    PROVE  /\ Wire' \subseteq Wire
           /\ \A e \in Wire', f \in Wire : Before(f, e) => f \in Wire'
           /\ \A i, j \in 1..Len(up') : i < j => Before(up'[i], up'[j])
<1>1. up \in Seq(Envelope) /\ Len(up) \in Nat
  BY WayTypes
<1>2. PICK k \in 0..Len(up) : up' = SubSeq(up, 1, k)
  BY DEF NetworkBreaks
<1>3. /\ Len(up') = k
      /\ \A i \in 1..Len(up') : i \in 1..Len(up) /\ up'[i] = up[i]
  BY <1>1, <1>2
<1>4. ASSUME NEW e \in Wire', NEW f \in Wire, Before(f, e)
      PROVE  f \in Wire'
  <2>1. PICK i \in 1..Len(up') : e = up'[i]
    BY <1>4 DEF Wire
  <2>2. PICK j \in 1..Len(up) : f = up[j]
    BY <1>4 DEF Wire
  <2>3. e = up[i] /\ i \in 1..Len(up)
    BY <1>3, <2>1
  <2>4. ~(i < j)
    <3>1. SUFFICES ASSUME i < j PROVE FALSE
      OBVIOUS
    <3>2. Before(up[i], up[j])
      BY <2>3, <3>1 DEF WireShape
    <3>3. /\ up[i].seq \in Nat /\ up[i].seg \in Nat
          /\ up[j].seq \in Nat /\ up[j].seg \in Nat
      BY <2>2, <2>3, WayTypes
    <3>4. Before(up[j], up[i])
      BY <1>4, <2>2, <2>3
    <3>5. QED
      BY <3>2, <3>3, <3>4 DEF Before
  <2>5. j \in 1..Len(up') /\ up'[j] = f
    BY <1>1, <1>3, <2>1, <2>2, <2>4
  <2>6. QED
    BY <2>5 DEF Wire
<1>5. Wire' \subseteq Wire
  BY <1>3 DEF Wire
<1>6. \A i, j \in 1..Len(up') : i < j => Before(up'[i], up'[j])
  BY <1>3 DEF WireShape
<1>7. QED
  BY <1>4, <1>5, <1>6

\* A number the server has passed over belongs to an abandoned line: of any
\* other it would have got every envelope before the one that arrives.
LEMMA NothingSkipped ==
    ASSUME TypeOK, WireShape, Numbers, Parts, NoGaps, up # <<>>,
           NEW n \in 1..written, n < Head(up).seq, n > srvSeq
    PROVE  n \in lost
<1>1. SUFFICES ASSUME n \notin lost PROVE FALSE
  OBVIOUS
<1>2. Head(up) \in Wire /\ \A f \in Wire : f = Head(up) \/ Before(Head(up), f)
  <2>1. up \in Seq(Envelope) /\ Len(up) \in Nat \ {0} /\ Head(up) = up[1]
    BY WayTypes
  <2>2. \A i \in 1..Len(up) : i = 1 \/ Before(up[1], up[i])
    BY <2>1 DEF WireShape
  <2>3. QED
    BY <2>1, <2>2 DEF Wire
<1>3. n \in 1..NumLines /\ Segments[n] \in Nat /\ n \in Nat /\ n < nextSeq /\ Segments[n] > 0
  <2>1. n \in 1..NumLines /\ Segments[n] \in Nat /\ n \in Nat
    BY WayTypes
  <2>2. Head(up).seq \in Nat /\ nextSeq \in Nat /\ Head(up).seq < nextSeq
    BY <1>2, WayTypes DEF WireShape
  <2>3. n < nextSeq
    BY <2>1, <2>2
  <2>4. ~(Segments[n] = 0)
    BY <1>1, <2>3 DEF Numbers
  <2>5. QED
    BY <2>1, <2>3, <2>4
<1>4. ASSUME NEW s \in 1..Segments[n] PROVE srvParts.seq = n /\ s - 1 \in srvParts.segs
  <2>1. E(n, s).seq = n /\ E(n, s).seg = s - 1
    BY <1>3, EnvelopeFields
  <2>2. Before(E(n, s), Head(up))
    BY <2>1 DEF Before
  <2>3. Settled(E(n, s))
    BY <1>2, <2>2 DEF NoGaps
  <2>4. E(n, s) \notin Wire
    <3>1. Head(up).seq \in Nat /\ Head(up).seg \in Nat
      BY <1>2, WayTypes
    <3>2. E(n, s) # Head(up) /\ ~Before(Head(up), E(n, s))
      BY <1>3, <2>1, <3>1 DEF Before
    <3>3. QED
      BY <1>2, <3>2
  <2>5. Got(E(n, s))
    BY <1>1, <1>3, <2>1, <2>3, <2>4, WayTypes DEF Settled
  <2>6. QED
    BY <2>1, <2>5 DEF Got
<1>5. srvParts.seq = n
  BY <1>3, <1>4
<1>6. \A x \in 0..(Segments[n] - 1) : x \in srvParts.segs
  <2>1. TAKE x \in 0..(Segments[n] - 1)
  <2>2. x + 1 \in 1..Segments[n] /\ (x + 1) - 1 = x
    BY <1>3
  <2>3. QED
    BY <1>4, <2>2
<1>7. srvParts.segs = 0..(Segments[n] - 1)
  BY <1>5, <1>6 DEF Parts
<1>8. QED
  BY <1>5, <1>7 DEF Parts

-----------------------------------------------------------------------------
(* What an action leaves alone.                                             *)

\* Nothing moves on the wire, at the server or in the queue.
LEMMA NoGapsKept ==
    ASSUME NoGaps, UNCHANGED <<up, srvSeq, srvParts>>, lost \subseteq lost',
           wsUp' => wsUp /\ replay' = replay /\ 1..Through' \subseteq 1..Through,
           \A e \in Wire, n \in (1..written') \ (1..written) :
              \A s \in 1..Segments[n] : ~Before(E(n, s), e)
    PROVE  NoGaps'
<1>1. Wire' = Wire
  BY DEF Wire
<1>2. \A e : Settled(e) => Settled(e)'
  BY <1>1 DEF Settled, Got
<1>3. ASSUME NEW e \in Wire', NEW n \in 1..written', NEW s \in 1..Segments[n], Before(E(n, s), e)
      PROVE  Settled(E(n, s))'
  <2>1. Settled(E(n, s))
    BY <1>1, <1>3 DEF NoGaps
  <2>2. QED
    BY <1>2, <2>1
<1>4. ASSUME wsUp', NEW k \in 1..Through' PROVE Settled(replay[k])'
  <2>1. wsUp /\ Settled(replay[k]) /\ replay' = replay
    BY <1>4 DEF NoGaps
  <2>2. QED
    BY <1>2, <2>1
<1>5. QED
  BY <1>3, <1>4 DEF NoGaps

\* Steps that move nothing on the way to the server.
LEMMA Bystander ==
    ASSUME TypeOK, LineInv,
           UNCHANGED <<user, nextSeq, replay, sending, lost, acked, up,
                       srvSeq, srvParts, srvLog, srvClosed>>,
           UNCHANGED <<outbox, lineBuf>> \/ Commands',
           \A i \in 1..Len(down') : down'[i].kind = "ack" => down'[i].seq <= srvSeq,
           wsUp' => wsUp /\ 1..Through' \subseteq 1..Through,
           Unsent' \subseteq Unsent,
           phase' = "handshake" => up = <<>>,
           phase' = "replay" => replayAt' <= Len(replay) + 1,
           phase = "done" => phase' = "done",
           phase' = "send" => phase = "send"
    PROVE  LineInv'
<1> USE DEF user
<1>1. Wire' = Wire /\ Pending' = Pending /\ Held' = Held /\ Accepted' = Accepted
  BY DEF Wire, Held, Pending, Accepted
<1>2. \A e : Formed(e)' = Formed(e)
  BY DEF Formed, E, Split
<1>3. phase' # "done" => Commands'
  BY DEF LineInv, Commands, Is, Taken
<1>4. WireShape'
  BY <1>1, <1>2 DEF LineInv, WireShape
<1>5. HeldShape'
  BY <1>1, <1>2 DEF LineInv, HeldShape
<1>6. Numbers' /\ Logged'
  BY <1>1 DEF LineInv, Numbers, Logged
<1>7. Parts' /\ Unfinished'
  BY <1>1 DEF LineInv, Parts, Unfinished
<1>8. NoGaps'
  BY NoGapsKept DEF LineInv
<1>9. QED
  BY <1>3, <1>4, <1>5, <1>6, <1>7, <1>8 DEF LineInv

\* The replies that are left, and those that join them.
LEMMA RepliesLeft ==
    ASSUME TypeOK, Numbers
    PROVE  /\ down # <<>> /\ down' = Tail(down) =>
                \A i \in 1..Len(down') : down'[i].kind = "ack" => down'[i].seq <= srvSeq
           /\ \A r : down' = Append(down, r) /\ (r.kind = "ack" => r.seq <= srvSeq) =>
                \A i \in 1..Len(down') : down'[i].kind = "ack" => down'[i].seq <= srvSeq
           /\ down # <<>> /\ Head(down).kind = "ack" => Head(down).seq <= srvSeq
<1>1. down \in Seq(Reply) /\ Len(down) \in Nat
  BY DEF TypeOK, WireOK
<1>2. ASSUME down # <<>>, down' = Tail(down)
      PROVE  \A i \in 1..Len(down') : down'[i].kind = "ack" => down'[i].seq <= srvSeq
  <2>1. \A i \in 1..Len(down') : i + 1 \in 1..Len(down) /\ down'[i] = down[i + 1]
    BY <1>1, <1>2, HeadTailProperties
  <2>2. QED
    BY <2>1 DEF Numbers
<1>3. ASSUME NEW r, down' = Append(down, r), r.kind = "ack" => r.seq <= srvSeq
      PROVE  \A i \in 1..Len(down') : down'[i].kind = "ack" => down'[i].seq <= srvSeq
  <2>1. \A i \in 1..Len(down') : (i \in 1..Len(down) /\ down'[i] = down[i]) \/ down'[i] = r
    BY <1>1, <1>3
  <2>2. QED
    BY <1>3, <2>1 DEF Numbers
<1>4. down # <<>> => Head(down) = down[1] /\ 1 \in 1..Len(down)
  BY <1>1
<1>5. QED
  BY <1>2, <1>3, <1>4 DEF Numbers

\* Failures, replies and the ends of phases: nothing a line depends on moves.
LEMMA LoopLeaves ==
    ASSUME TypeOK, LineInv,
           \/ HandshakeFails \/ ReplayFails \/ ReadFails \/ PingFails \/ PongTimeout
           \/ ReceiveMessage \/ ReceiveChunk \/ ReceiveMismatch \/ ReceiveBad
           \/ DropStream \/ ReplayDone \/ ServerSend \/ ServerGarbage \/ UNCHANGED vars
    PROVE  LineInv'
<1>1. \A i \in 1..Len(down) : down[i].kind = "ack" => down[i].seq <= srvSeq
  BY DEF LineInv, Numbers
<1>2. CASE HandshakeFails \/ ReplayFails \/ ReadFails \/ PingFails \/ PongTimeout
  <2>1. /\ UNCHANGED <<user, outbox, client, up, down, server>>
        /\ phase' = "connect" /\ ~wsUp' /\ phase # "done"
    BY <1>2 DEF HandshakeFails, ReplayFails, ReadFails, PingFails, PongTimeout, Reconnect
  <2>2. Unsent' = {}
    BY <2>1 DEF Unsent
  <2>3. QED
    BY <1>1, <2>1, <2>2, Bystander DEF client, server
<1>3. CASE ReceiveMessage \/ ReceiveChunk \/ ReceiveMismatch \/ ReceiveBad
  <2>1. /\ UNCHANGED <<user, outbox, client, up, server>> /\ phase = "open"
        /\ down # <<>> /\ down' = Tail(down)
        /\ \/ phase' = "connect" /\ ~wsUp'
           \/ phase' = "open" /\ wsUp' = wsUp
    BY <1>3 DEF ReceiveMessage, ReceiveChunk, ReceiveMismatch, ReceiveBad, NextReply, Reconnect
  <2>2. Unsent' = {}
    BY <2>1 DEF Unsent
  <2>3. wsUp' => wsUp /\ Through' = Through
    BY <2>1 DEF Through, client
  <2>4. \A i \in 1..Len(down') : down'[i].kind = "ack" => down'[i].seq <= srvSeq
    BY <2>1, RepliesLeft DEF LineInv
  <2>5. QED
    BY <2>1, <2>2, <2>3, <2>4, Bystander DEF client, server
<1>4. CASE DropStream
  <2>1. UNCHANGED <<user, outbox, client, wire, server>> /\ phase' = "done"
    BY <1>4 DEF DropStream
  <2>2. Unsent' = {} /\ Through' = 0
    BY <2>1 DEF Unsent, Through
  <2>3. QED
    BY <1>1, <2>1, <2>2, Bystander DEF client, server, wire
<1>5. CASE ReplayDone
  <2>1. /\ UNCHANGED <<user, outbox, client, wire, server>> /\ phase' = "open"
        /\ phase = "replay" /\ replayAt > Len(replay)
    BY <1>5 DEF ReplayDone
  <2>2. Unsent' = {}
    BY <2>1 DEF Unsent
  <2>3. Through' = Through
    <3>1. Len(replay) \in Nat /\ replayAt \in Nat /\ replayAt <= Len(replay) + 1
      BY <2>1 DEF TypeOK, ClientOK, LineInv, WireShape
    <3>2. QED
      BY <2>1, <3>1 DEF Through, client
  <2>4. QED
    BY <1>1, <2>1, <2>2, <2>3, Bystander DEF client, server, wire
<1>6. CASE ServerSend \/ ServerGarbage
  <2>1. /\ UNCHANGED <<user, outbox, phase, client, wsUp, up, srvSeq, srvParts, srvLog, srvClosed>>
        /\ phase # "handshake"
        /\ \E r : r.kind # "ack" /\ down' = Append(down, r)
    BY <1>6 DEF ServerSend, ServerGarbage, server
  <2>2. \A i \in 1..Len(down') : down'[i].kind = "ack" => down'[i].seq <= srvSeq
    BY <2>1, RepliesLeft DEF LineInv
  <2>3. Unsent' = Unsent /\ Through' = Through
    BY <2>1 DEF Unsent, Through, client
  <2>4. phase' = "replay" => replayAt' <= Len(replay) + 1
    BY <2>1 DEF client, LineInv, WireShape
  <2>5. QED
    BY <2>1, <2>2, <2>3, <2>4, Bystander DEF client, server
<1>7. CASE UNCHANGED vars
  <2>1. UNCHANGED <<user, outbox, phase, client, wire, server>>
    BY <1>7 DEF vars
  <2>2. Unsent' = Unsent /\ Through' = Through
    BY <2>1 DEF Unsent, Through, client
  <2>3. /\ phase' = "replay" => replayAt' <= Len(replay) + 1
        /\ phase' = "handshake" => up = <<>>
    BY <2>1 DEF client, LineInv, WireShape
  <2>4. QED
    BY <1>1, <2>1, <2>2, <2>3, Bystander DEF client, server, wire
<1>8. QED
  BY <1>2, <1>3, <1>4, <1>5, <1>6, <1>7

\* A new connection has nothing on the wire yet, and all is to be sent again.
LEMMA NewConnection ==
    ASSUME TypeOK, QueueInv, LineInv, Connect \/ HandshakeDone
    PROVE  LineInv'
<1>1. /\ UNCHANGED <<user, outbox, lineBuf, nextSeq, replay, sending, lost, acked,
                     srvSeq, srvParts, srvLog, srvClosed>>
      /\ phase \in {"connect", "handshake"} /\ phase' \in {"handshake", "replay"}
      /\ up' = <<>> /\ (phase' = "replay" => replayAt' = 1)
      /\ down' = <<>> \/ down' = down
  BY DEF Connect, HandshakeDone, client, server, wire, LineInv, WireShape
<1> USE DEF user
<1>2. Pending' = Pending /\ Held' = Held /\ Accepted' = Accepted /\ Wire' = {}
  BY <1>1 DEF Wire, Held, Pending, Accepted
<1>3. \A e : Formed(e)' = Formed(e)
  BY <1>1 DEF Formed, E, Split
<1>4. Commands'
  BY <1>1 DEF LineInv, Commands, Is, Taken
<1>5. WireShape'
  <2>1. replay \in Seq(Envelope) /\ Len(replay) \in Nat
    BY DEF TypeOK, ClientOK
  <2>2. QED
    BY <1>1, <1>2, <2>1 DEF WireShape
<1>6. HeldShape' /\ Unfinished'
  BY <1>1, <1>2, <1>3 DEF LineInv, HeldShape, Unfinished
<1>7. Numbers' /\ Logged'
  BY <1>1, <1>2 DEF LineInv, Numbers, Logged
<1>8. Parts'
  BY <1>1 DEF LineInv, Parts
<1>9. NoGaps'
  <2>1. Through' = 0
    BY <1>1 DEF Through
  <2>2. QED
    BY <1>2, <2>1 DEF NoGaps
<1>10. QED
  BY <1>4, <1>5, <1>6, <1>7, <1>8, <1>9 DEF LineInv

-----------------------------------------------------------------------------
(* The user's lines, and how they get their numbers.                        *)

\* Lines that are written keep their envelopes.
LEMMA FormedGrows ==
    ASSUME TypeOK, written' \in Nat, written <= written', NEW e, Formed(e)
    PROVE  Formed(e)'
<1>1. 1..written \subseteq 1..written'
  BY WayTypes
<1>2. QED
  BY <1>1 DEF Formed, E, Split

\* A line is written: two more commands, and no number yet.
LEMMA LineWritten ==
    ASSUME TypeOK, LineInv, WriteLine
    PROVE  LineInv'
<1>1. /\ UNCHANGED <<shutdownSent, phase, client, reader, wire, server>>
      /\ phase # "done" /\ ~shutdownSent /\ written' = written + 1
      /\ outbox' = outbox \o << [kind |-> "payload", line |-> written + 1],
                                [kind |-> "newline"] >>
      /\ written \in Nat /\ NumLines \in Nat /\ written + 1 <= NumLines
  BY WayTypes DEF WriteLine
<1> USE DEF client, wire, server
<1>2. Pending' = Pending /\ Held' = Held /\ Accepted' = Accepted /\ Wire' = Wire
  BY <1>1 DEF Wire, Held, Pending, Accepted
<1>3. \A e : Formed(e) => Formed(e)'
  BY <1>1, FormedGrows
<1>4. Unsent' = Unsent /\ Through' = Through
  BY <1>1 DEF Unsent, Through
<1>5. Commands'
  <2>1. Taken' = Taken /\ lineBuf' = lineBuf /\ nextSeq' = nextSeq
    BY <1>1 DEF Taken
  <2>2. /\ lineBuf \in {<<>>, <<nextSeq>>} /\ Len(outbox) + Taken = 2 * written
        /\ Len(outbox) \in Nat /\ Taken \in Int
    <3>1. lineBuf \in {<<>>, <<nextSeq>>} /\ Len(outbox) + Taken = 2 * written
      BY <1>1 DEF LineInv, Commands
    <3>2. Len(outbox) \in Nat
      BY DEF TypeOK
    <3>3. Len(lineBuf) \in {0, 1} /\ nextSeq \in Nat
      BY <3>1, WayTypes
    <3>4. Taken \in Int
      BY <3>3 DEF Taken
    <3>5. QED
      BY <3>1, <3>2, <3>4
  <2> PICK w \in Nat : w = written
    BY <1>1
  <2> DEFINE p == [kind |-> "payload", line |-> w + 1]
             q == [kind |-> "newline"]
  <2>3. /\ Len(outbox') = Len(outbox) + 2
        /\ outbox'[Len(outbox) + 1] = p /\ outbox'[Len(outbox) + 2] = q
        /\ \A i \in 1..Len(outbox) : outbox'[i] = outbox[i]
    <3>1. outbox \in Seq(Command \cup {p, q})
      BY DEF TypeOK
    <3>2. <<p, q>> \in Seq(Command \cup {p, q}) /\ Len(<<p, q>>) = 2
          /\ <<p, q>>[1] = p /\ <<p, q>>[2] = q
      OBVIOUS
    <3>3. outbox' = outbox \o <<p, q>>
      BY <1>1
    <3>4. QED
      BY <2>2, <3>1, <3>2, <3>3, ConcatProperties
  <2>4. ASSUME NEW c, NEW j \in Int, Is(c, j) PROVE Is(c, j)'
    <3>1. PICK line \in 1..written :
            \/ j = 2 * line - 1 /\ c = [kind |-> "payload", line |-> line]
            \/ j = 2 * line /\ c = [kind |-> "newline"]
      BY <1>1, <2>4 DEF Is
    <3>2. line \in 1..written'
      BY <1>1
    <3>3. QED
      BY <3>1, <3>2 DEF Is
  <2>5. Is(p, 2 * w + 1)' /\ Is(q, 2 * w + 2)'
    <3>1. written' \in 1..written' /\ 2 * w + 1 = 2 * written' - 1
          /\ 2 * w + 2 = 2 * written' /\ p = [kind |-> "payload", line |-> written']
      BY <1>1
    <3>2. \E line \in 1..written' :
            2 * w + 1 = 2 * line - 1 /\ p = [kind |-> "payload", line |-> line]
      BY <3>1
    <3>3. \E line \in 1..written' : 2 * w + 2 = 2 * line /\ q = [kind |-> "newline"]
      BY <3>1
    <3>4. QED
      BY <3>2, <3>3, Zenon DEF Is
  <2>6. ASSUME NEW i \in 1..Len(outbox') PROVE Is(outbox[i], Taken + i)'
    <3>1. CASE i \in 1..Len(outbox)
      <4>1. Is(outbox[i], Taken + i) /\ Taken + i \in Int
        BY <1>1, <2>2, <3>1 DEF LineInv, Commands
      <4>2. outbox'[i] = outbox[i]
        BY <2>3, <3>1
      <4>3. QED
        BY <2>1, <2>4, <4>1, <4>2
    <3>2. CASE i = Len(outbox) + 1
      <4>1. outbox'[i] = p
        BY <2>3, <3>2
      <4>2. Taken' + i = 2 * w + 1
        BY <2>1, <2>2, <3>2
      <4>3. QED
        BY <2>5, <4>1, <4>2
    <3>3. CASE i = Len(outbox) + 2
      <4>1. outbox'[i] = q
        BY <2>3, <3>3
      <4>2. Taken' + i = 2 * w + 2
        BY <2>1, <2>2, <3>3
      <4>3. QED
        BY <2>5, <4>1, <4>2
    <3>4. QED
      BY <2>2, <2>3, <3>1, <3>2, <3>3
  <2>7. Len(outbox') + Taken' = 2 * written'
    BY <1>1, <2>1, <2>2, <2>3
  <2>8. QED
    BY <1>1, <2>1, <2>2, <2>6, <2>7 DEF Commands
<1>6. WireShape'
  BY <1>1, <1>2, <1>3, <1>4 DEF LineInv, WireShape
<1>7. HeldShape' /\ Unfinished'
  BY <1>1, <1>2, <1>3 DEF LineInv, HeldShape, Unfinished
<1>8. Numbers'
  <2>1. nextSeq <= written + 1
    <3>1. lineBuf \in {<<>>, <<nextSeq>>} /\ Len(outbox) + Taken = 2 * written
      BY <1>1 DEF LineInv, Commands
    <3>2. Len(outbox) \in Nat /\ nextSeq \in Nat
      BY WayTypes DEF TypeOK
    <3>3. Len(lineBuf) \in {0, 1}
      BY <3>1
    <3>4. QED
      BY <1>1, <3>1, <3>2, <3>3 DEF Taken
  <2>2. \A n \in 1..written' : n < nextSeq => n \in 1..written
    BY <1>1, <2>1, WayTypes
  <2>3. 1..written \subseteq 1..written' /\ srvSeq <= written'
    BY <1>1, WayTypes DEF LineInv, Numbers
  <2>4. QED
    BY <1>1, <2>2, <2>3 DEF LineInv, Numbers
<1>9. Parts'
  <2>1. 1..written \subseteq 1..written'
    BY <1>1
  <2>2. QED
    BY <1>1, <2>1 DEF LineInv, Parts
<1>10. Logged'
  BY <1>1, <1>2 DEF LineInv, Logged
<1>11. NoGaps'
  <2>1. ASSUME NEW e \in Wire, NEW n \in (1..written') \ (1..written), NEW s \in 1..Segments[n],
               Before(E(n, s), e)
        PROVE  FALSE
    <3>1. Formed(e)
      BY <1>1, <2>1 DEF LineInv, WireShape
    <3>2. e.seq <= written /\ n > written /\ n \in 1..NumLines /\ e.seq \in Nat
      BY <1>1, <2>1, <3>1, FormedFields, WayTypes
    <3>3. E(n, s).seq = n
      BY <2>1, <3>2, EnvelopeFields
    <3>4. QED
      BY <1>1, <2>1, <3>2, <3>3 DEF Before
  <2>2. QED
    BY <1>1, <1>4, <2>1, NoGapsKept DEF LineInv
<1>12. QED
  BY <1>5, <1>6, <1>7, <1>8, <1>9, <1>10, <1>11 DEF LineInv

\* The shutdown goes behind all commands.
LEMMA ShutdownAsked ==
    ASSUME TypeOK, LineInv, Shutdown
    PROVE  LineInv'
<1>1. /\ UNCHANGED <<written, phase, client, reader, wire, server>>
      /\ phase # "done" /\ ~shutdownSent /\ shutdownSent'
      /\ outbox' = Append(outbox, [kind |-> "shutdown"]) /\ written \in Nat
  BY WayTypes DEF Shutdown
<1> USE DEF client, wire, server
<1>2. Pending' = Pending /\ Held' = Held /\ Accepted' = Accepted /\ Wire' = Wire
  BY <1>1 DEF Wire, Held, Pending, Accepted
<1>3. \A e : Formed(e)' = Formed(e)
  BY <1>1 DEF Formed, E, Split
<1>4. Unsent' = Unsent /\ Through' = Through
  BY <1>1 DEF Unsent, Through
<1>5. Commands'
  <2>1. Taken' = Taken /\ lineBuf' = lineBuf /\ nextSeq' = nextSeq
    BY <1>1 DEF Taken
  <2>2. /\ lineBuf \in {<<>>, <<nextSeq>>} /\ Len(outbox) + Taken = 2 * written
        /\ Len(outbox) \in Nat /\ Taken \in Int
    <3>1. lineBuf \in {<<>>, <<nextSeq>>} /\ Len(outbox) + Taken = 2 * written
      BY <1>1 DEF LineInv, Commands
    <3>2. Len(outbox) \in Nat
      BY DEF TypeOK
    <3>3. Len(lineBuf) \in {0, 1} /\ nextSeq \in Nat
      BY <3>1, WayTypes
    <3>4. Taken \in Int
      BY <3>3 DEF Taken
    <3>5. QED
      BY <3>1, <3>2, <3>4
  <2>3. /\ Len(outbox') = Len(outbox) + 1
        /\ outbox'[Len(outbox) + 1] = [kind |-> "shutdown"]
        /\ \A i \in 1..Len(outbox) : outbox'[i] = outbox[i]
    BY <1>1 DEF TypeOK
  <2>4. ASSUME NEW i \in 1..Len(outbox') PROVE Is(outbox[i], Taken + i)'
    <3>1. CASE i \in 1..Len(outbox)
      <4>1. Is(outbox[i], Taken + i)
        BY <1>1, <3>1 DEF LineInv, Commands
      <4>2. PICK line \in 1..written :
              \/ Taken + i = 2 * line - 1 /\ outbox[i] = [kind |-> "payload", line |-> line]
              \/ Taken + i = 2 * line /\ outbox[i] = [kind |-> "newline"]
        BY <1>1, <4>1 DEF Is
      <4>3. line \in 1..written' /\ outbox'[i] = outbox[i]
        BY <1>1, <2>3, <3>1
      <4>4. QED
        BY <2>1, <4>2, <4>3 DEF Is
    <3>2. CASE i = Len(outbox) + 1
      <4>1. outbox'[i] = [kind |-> "shutdown"]
        BY <2>3, <3>2
      <4>2. Taken' + i = 2 * written' + 1
        <5>1. written' = written /\ written \in Nat
          BY <1>1
        <5>2. QED
          BY <2>1, <2>2, <3>2, <5>1
      <4>3. QED
        BY <1>1, <4>1, <4>2 DEF Is
    <3>3. QED
      BY <2>2, <2>3, <3>1, <3>2
  <2>5. Len(outbox') + Taken' = 2 * written' + 1
    BY <1>1, <2>1, <2>2, <2>3
  <2>6. QED
    BY <1>1, <2>1, <2>2, <2>4, <2>5 DEF Commands
<1>6. WireShape'
  BY <1>1, <1>2, <1>3, <1>4 DEF LineInv, WireShape
<1>7. HeldShape' /\ Unfinished' /\ Numbers'
  BY <1>1, <1>2, <1>3 DEF LineInv, HeldShape, Unfinished, Numbers
<1>8. Parts' /\ Logged'
  BY <1>1, <1>2 DEF LineInv, Parts, Logged
<1>9. NoGaps'
  BY <1>1, <1>4, NoGapsKept DEF LineInv
<1>10. QED
  BY <1>5, <1>6, <1>7, <1>8, <1>9 DEF LineInv

\* The channel once its first command is taken.
LEMMA CommandTaken ==
    ASSUME TypeOK, LineInv, phase = "open", outbox # <<>>,
           outbox' = Tail(outbox), UNCHANGED <<written, shutdownSent>>
    PROVE  /\ Is(Head(outbox), Taken + 1)
           /\ Taken' = Taken + 1 /\ lineBuf' \in {<<>>, <<nextSeq'>>} => Commands'
<1>1. /\ Commands /\ outbox \in Seq(Command) /\ Len(outbox) \in Nat \ {0}
      /\ Head(outbox) = outbox[1] /\ 1 \in 1..Len(outbox) /\ written \in Nat
  BY WayTypes DEF LineInv, TypeOK
<1>2. Taken \in Int
  BY <1>1, WayTypes DEF Commands, Taken
<1>3. Is(Head(outbox), Taken + 1)
  BY <1>1 DEF Commands
<1>4. ASSUME Taken' = Taken + 1, lineBuf' \in {<<>>, <<nextSeq'>>}
      PROVE  Commands'
  <2>1. /\ Len(outbox') = Len(outbox) - 1
        /\ \A i \in 1..Len(outbox') : i + 1 \in 1..Len(outbox) /\ outbox'[i] = outbox[i + 1]
    BY <1>1, HeadTailProperties
  <2>2. \A c, j : Is(c, j)' = Is(c, j)
    BY DEF Is
  <2>3. ASSUME NEW i \in 1..Len(outbox') PROVE Is(outbox[i], Taken + i)'
    <3>1. Is(outbox[i + 1], Taken + (i + 1))
      BY <1>1, <2>1 DEF Commands
    <3>2. outbox'[i] = outbox[i + 1] /\ Taken' + i = Taken + (i + 1)
      BY <1>2, <1>4, <2>1
    <3>3. QED
      BY <2>2, <3>1, <3>2
  <2>4. Len(outbox') + Taken' = Len(outbox) + Taken
    BY <1>1, <1>2, <1>4, <2>1
  <2>5. QED
    BY <1>1, <1>4, <2>3, <2>4 DEF Commands
<1>5. QED
  BY <1>3, <1>4

\* A payload is the one of the next number.
LEMMA PayloadTaken ==
    ASSUME TypeOK, LineInv, TakePayload
    PROVE  LineInv'
<1>1. /\ phase = "open" /\ outbox # <<>> /\ Head(outbox).kind = "payload"
      /\ lineBuf' = Append(lineBuf, Head(outbox).line) /\ outbox' = Tail(outbox)
      /\ UNCHANGED <<user, phase, nextSeq, replay, replayAt, sending, lost, acked,
                     reader, wire, server>>
  BY DEF TakePayload, NextCommand
<1> USE DEF user, wire, server
<1>2. Is(Head(outbox), Taken + 1)
  BY <1>1, CommandTaken
<1>3. PICK line \in 1..written : Taken + 1 = 2 * line - 1 /\ Head(outbox).line = line
  BY <1>1, <1>2 DEF Is
<1>4. lineBuf = <<>> /\ line = nextSeq
  <2>1. lineBuf \in {<<>>, <<nextSeq>>} /\ nextSeq \in Nat /\ line \in Nat
    BY <1>1, WayTypes DEF LineInv, Commands
  <2>2. lineBuf = <<>> => Taken = 2 * nextSeq - 2
    BY <2>1 DEF Taken
  <2>3. lineBuf = <<nextSeq>> => Taken = 2 * nextSeq - 1
    BY <2>1 DEF Taken
  <2>4. QED
    BY <1>3, <2>1, <2>2, <2>3
<1>5. lineBuf' = <<nextSeq>> /\ Taken' = Taken + 1
  BY <1>1, <1>3, <1>4, WayTypes DEF Taken
<1>6. Commands'
  BY <1>1, <1>5, CommandTaken
<1>7. Unsent' = Unsent /\ Through' = Through
  BY <1>1 DEF Unsent, Through
<1>8. \A i \in 1..Len(down') : down'[i].kind = "ack" => down'[i].seq <= srvSeq
  BY <1>1 DEF LineInv, Numbers
<1>9. QED
  BY <1>1, <1>6, <1>7, <1>8, Bystander

\* A newline completes the line of the next number.
LEMMA NewlineTaken ==
    ASSUME TypeOK, LineInv, phase = "open", outbox # <<>>, Head(outbox).kind = "newline",
           lineBuf # <<>>, lineBuf' = Tail(lineBuf), nextSeq' = nextSeq + 1,
           outbox' = Tail(outbox), UNCHANGED <<written, shutdownSent>>
    PROVE  nextSeq \in 1..written /\ Head(lineBuf) = nextSeq /\ Commands'
<1>1. Is(Head(outbox), Taken + 1)
  BY CommandTaken
<1>2. PICK line \in 1..written : Taken + 1 = 2 * line
  BY <1>1 DEF Is
<1>3. lineBuf = <<nextSeq>> /\ line = nextSeq
  <2>1. lineBuf \in {<<>>, <<nextSeq>>} /\ nextSeq \in Nat /\ line \in Nat
    BY WayTypes DEF LineInv, Commands
  <2>2. lineBuf = <<nextSeq>>
    BY <2>1
  <2>3. Taken = 2 * nextSeq - 1
    BY <2>1, <2>2 DEF Taken
  <2>4. QED
    BY <1>2, <2>1, <2>2, <2>3
<1>4. lineBuf' = <<>> /\ Taken' = Taken + 1
  BY <1>2, <1>3, WayTypes DEF Taken
<1>5. QED
  BY <1>2, <1>3, <1>4, CommandTaken

\* A line gets the number of its place, and its envelopes are behind all others.
LEMMA LineNumbered ==
    ASSUME TypeOK, QueueInv, LineInv, TakeNewline
    PROVE  LineInv'
<1>1. /\ phase = "open" /\ phase' = "send" /\ nextSeq' = nextSeq + 1
      /\ UNCHANGED <<user, replay, replayAt, lost, acked, reader, wire, server>>
      /\ nextSeq \in 1..written /\ Segments[nextSeq] > 0
      /\ sending' = Split(nextSeq, nextSeq) /\ Commands'
  BY NewlineTaken DEF TakeNewline, NextCommand, user
<1> USE DEF user, wire, server
<1> PICK n \in 1..written : n = nextSeq
  BY <1>1
<1>2. n \in 1..NumLines /\ Segments[n] \in Nat \ {0} /\ n \in Nat /\ written \in Nat
  BY <1>1, WayTypes
<1>3. /\ sending' \in Seq(Envelope) /\ Len(sending') = Segments[n]
      /\ \A s \in 1..Segments[n] : sending'[s] = E(n, s)
  BY <1>1, <1>2, SplitType DEF E
<1>4. \A s \in 1..Segments[n] : E(n, s).seq = n /\ E(n, s).seg = s - 1 /\ Formed(E(n, s))
  BY <1>2, EnvelopeFields DEF Formed
<1>5. \A e \in Held' : e \in Held \/ \E s \in 1..Segments[n] : e = E(n, s)
  <2>1. replay \in Seq(Envelope) /\ sending = <<>>
    BY <1>1 DEF TypeOK, ClientOK, QueueInv, SendingShape
  <2>2. Pending = replay /\ Pending' = replay \o sending'
    BY <1>1, <2>1, ConcatEmptySeq DEF Pending
  <2>3. \A i \in 1..Len(Pending') :
           \/ i \in 1..Len(replay) /\ Pending'[i] = replay[i]
           \/ i - Len(replay) \in 1..Len(sending') /\ Pending'[i] = sending'[i - Len(replay)]
    BY <1>3, <2>1, <2>2, ConcatProperties
  <2>4. QED
    BY <1>3, <2>2, <2>3 DEF Held
<1>6. \A e : Formed(e)' = Formed(e)
  BY <1>1 DEF Formed, E, Split
<1>7. Wire' = Wire /\ Accepted' = Accepted /\ Through' = Through
  BY <1>1 DEF Wire, Accepted, Through
<1>8. \A f \in Unsent' : \E s \in 1..Segments[n] : f = E(n, s)
  BY <1>1, <1>3 DEF Unsent
<1>9. WireShape'
  <2>1. ASSUME NEW e \in Wire, NEW f \in Unsent' PROVE Before(e, f)
    BY <1>4, <1>8, <2>1 DEF LineInv, WireShape, Before
  <2>2. \A e \in Wire : e.seq < nextSeq + 1
    BY <1>2, WayTypes DEF LineInv, WireShape
  <2>3. QED
    BY <1>1, <1>6, <1>7, <2>1, <2>2 DEF LineInv, WireShape
<1>10. HeldShape'
  <2>1. \A e \in Held' : Formed(e)'
    BY <1>4, <1>5, <1>6 DEF LineInv, HeldShape
  <2>2. Segments[n] \in 1..Segments[n] /\ 1 \in 1..Segments[n]
    BY <1>2
  <2>3. sending'[Len(sending')].seg + 1 = Segments[sending'[1].seq]
    BY <1>2, <1>3, <1>4, <2>2
  <2>4. QED
    BY <2>1, <2>3 DEF HeldShape
<1>11. Numbers'
  <2>1. srvSeq \in Nat /\ srvParts.seq \in Nat /\ nextSeq = n
    BY WayTypes
  <2>2. ASSUME NEW m \in 1..written, m < n + 1, Segments[m] = 0 PROVE m \in lost
    <3>1. m < n
      BY <1>2, <2>2
    <3>2. QED
      BY <2>1, <2>2, <3>1 DEF LineInv, Numbers
  <2>3. \A m \in lost : m < n + 1
    BY <1>2, <2>1, WayTypes DEF LineInv, Numbers
  <2>4. srvSeq < n + 1 /\ srvParts.seq < n + 1
    BY <1>2, <2>1 DEF LineInv, Numbers
  <2>5. QED
    BY <1>1, <2>1, <2>2, <2>3, <2>4 DEF LineInv, Numbers
<1>12. Parts'
  <2>1. srvSeq < n /\ srvParts.seq # n
    BY <1>2, WayTypes DEF LineInv, Numbers
  <2>2. \A s \in 1..Len(sending') : sending'[s].seq = n
    BY <1>3, <1>4
  <2>3. QED
    BY <1>1, <2>1, <2>2 DEF LineInv, Parts
<1>13. Unfinished'
  <2>1. \A m \in lost : m < n
    BY <1>1 DEF LineInv, Numbers
  <2>2. ASSUME NEW m \in lost, NEW e \in Held', e.seq = m, e.kind = "message"
        PROVE  e \in Held
    BY <1>2, <1>4, <1>5, <2>1, <2>2
  <2>3. QED
    BY <1>1, <1>7, <2>2 DEF LineInv, Unfinished
<1>14. Logged'
  BY <1>1, <1>7 DEF LineInv, Logged
<1>15. NoGaps'
  BY <1>1, <1>7, NoGapsKept DEF LineInv
<1>16. QED
  BY <1>1, <1>9, <1>10, <1>11, <1>12, <1>13, <1>14, <1>15 DEF LineInv

\* A line the splitter refuses has no envelope at all.
LEMMA LineRefused ==
    ASSUME TypeOK, QueueInv, LineInv, RefuseLine
    PROVE  LineInv' /\ nextSeq \in (srvSeq + 1)..written
<1>1. /\ phase = "open" /\ phase' = "connect" /\ ~wsUp' /\ nextSeq' = nextSeq + 1
      /\ lost' = lost \cup {nextSeq}
      /\ UNCHANGED <<user, replay, replayAt, sending, acked, reader, up, down, server>>
      /\ nextSeq \in 1..written /\ Commands'
  BY NewlineTaken DEF RefuseLine, NextCommand, Reconnect, user
<1> USE DEF user, wire, server
<1>2. nextSeq \in Nat /\ written \in Nat /\ srvSeq < nextSeq /\ srvSeq \in Nat
  BY WayTypes DEF LineInv, Numbers
<1>3. Wire' = Wire /\ Accepted' = Accepted /\ Held' = Held /\ Unsent' = {} /\ Through' = 0
  BY <1>1 DEF Wire, Accepted, Held, Pending, Unsent, Through
<1>4. \A e : Formed(e)' = Formed(e)
  BY <1>1 DEF Formed, E, Split
<1>5. WireShape'
  BY <1>1, <1>2, <1>3, <1>4, WayTypes DEF LineInv, WireShape
<1>6. HeldShape' /\ Parts'
  BY <1>1, <1>3, <1>4 DEF LineInv, HeldShape, Parts
<1>7. Numbers'
  BY <1>1, <1>2, WayTypes DEF LineInv, Numbers
<1>8. Unfinished'
  <2>1. \A e \in Wire \cup Held : e.seq # nextSeq
    BY <1>2, WayTypes DEF LineInv, WireShape, Held, QueueInv, ReplaySorted
  <2>2. srvParts.seq # nextSeq
    BY <1>2, WayTypes DEF LineInv, Numbers
  <2>3. QED
    BY <1>1, <1>3, <2>1, <2>2 DEF LineInv, Unfinished
<1>9. Logged'
  BY <1>1, <1>3 DEF LineInv, Logged
<1>10. NoGaps'
  BY <1>1, NoGapsKept DEF LineInv
<1>11. QED
  BY <1>1, <1>2, <1>5, <1>6, <1>7, <1>8, <1>9, <1>10 DEF LineInv

-----------------------------------------------------------------------------
(* What the loop sends.                                                     *)

\* What is sent is settled already, up to the envelope that is next.
LEMMA SentBefore ==
    ASSUME TypeOK, QueueInv, HeldShape, Numbers, NoGaps, wsUp, phase # "done",
           NEW x, x.seq \in Nat, x.seg \in Nat, x.seq < nextSeq \/ (x.seq = nextSeq /\ x.seg = 0),
           \A i \in 1..Len(Pending) : Before(Pending[i], x) =>
               i \in 1..Through /\ Pending[i] = replay[i],
           NEW n \in 1..written, NEW s \in 1..Segments[n], Before(E(n, s), x)
    PROVE  Settled(E(n, s))
<1> n \in 1..NumLines
  BY WayTypes
<1>1. n \in Nat /\ E(n, s).seq = n /\ E(n, s).seg = s - 1 /\ s - 1 \in Nat
  BY WayTypes, EnvelopeFields
<1>2. n < nextSeq
  BY <1>1, WayTypes DEF Before
<1>3. CASE n \in lost \/ n <= srvSeq
  BY <1>1, <1>3 DEF Settled
<1>4. CASE n \notin lost /\ n > srvSeq
  <2>1. PICK i \in 1..Len(Pending) : Pending[i] = E(n, s)
    BY <1>2, <1>4, Reached DEF Held
  <2>2. QED
    BY <2>1 DEF NoGaps
<1>5. QED
  BY <1>1, <1>3, <1>4, WayTypes

\* A departing envelope keeps what is settled before it.
LEMMA DepartsSettled ==
    ASSUME TypeOK, NEW x, x.seq \in Nat, x.seg \in Nat, Wire' = Wire \cup {x},
           UNCHANGED <<lost, srvSeq, srvParts>>,
           NEW f, f.seq \in Nat, Before(f, x), Settled(f)
    PROVE  Settled(f)'
BY DEF Settled, Got, Before

\* One more envelope on the wire, the next of those that are pending.
LEMMA NoGapsSent ==
    ASSUME TypeOK, QueueInv, LineInv, phase # "done",
           NEW x \in Envelope, x.seq < nextSeq \/ (x.seq = nextSeq /\ x.seg = 0),
           Wire' = IF wsUp THEN Wire \cup {x} ELSE Wire,
           \A e \in Wire : Before(e, x),
           \A i \in 1..Len(Pending) : Before(Pending[i], x) =>
               i \in 1..Through /\ Pending[i] = replay[i],
           UNCHANGED <<lost, srvSeq, srvParts, written, wsUp>>,
           \A k \in 1..Through : replay'[k] = replay[k] /\ Before(replay[k], x)
                                 /\ replay[k].seq \in Nat,
           \A k \in (1..Through') \ (1..Through) : replay'[k] = x
    PROVE  NoGaps'
<1>1. x.seq \in Nat /\ x.seg \in Nat
  BY DEF Envelope
<1>2. CASE ~wsUp
  <2>1. Wire' = Wire
    BY <1>2
  <2>2. \A e : Settled(e)' = Settled(e)
    BY <2>1 DEF Settled, Got
  <2>3. QED
    BY <1>2, <2>1, <2>2 DEF LineInv, NoGaps, E, Split
<1>3. CASE wsUp
  <2>1. Wire' = Wire \cup {x}
    BY <1>3
  <2>2. ASSUME NEW n \in 1..written, NEW s \in 1..Segments[n], Before(E(n, s), x)
        PROVE  Settled(E(n, s)) /\ E(n, s).seq \in Nat
    <3> n \in 1..NumLines
      BY WayTypes
    <3>1. E(n, s).seq = n /\ n \in Nat /\ E(n, s).seg = s - 1 /\ s - 1 \in Nat
      BY WayTypes, EnvelopeFields
    <3>2. QED
      BY <1>1, <1>3, <2>2, <3>1, SentBefore DEF LineInv
  <2>3. ASSUME NEW e \in Wire', NEW n \in 1..written', NEW s \in 1..Segments[n], Before(E(n, s), e)
        PROVE  Settled(E(n, s))'
    <3> n \in 1..NumLines
      BY WayTypes
    <3>1. E(n, s).seq = n /\ n \in Nat /\ E(n, s).seg = s - 1 /\ s - 1 \in Nat /\ n \in 1..written
      BY WayTypes, EnvelopeFields
    <3>2. CASE e = x
      BY <1>1, <2>1, <2>2, <2>3, <3>1, <3>2, DepartsSettled
    <3>3. CASE e \in Wire
      <4>1. Settled(E(n, s))
        BY <2>3, <3>1, <3>3 DEF LineInv, NoGaps
      <4>2. Before(E(n, s), x)
        <5>1. e.seq \in Nat /\ e.seg \in Nat /\ Before(e, x)
          BY <3>3, WayTypes
        <5>2. QED
          BY <1>1, <2>3, <3>1, <5>1 DEF Before
      <4>3. QED
        BY <1>1, <2>1, <3>1, <4>1, <4>2, DepartsSettled
    <3>4. QED
      BY <2>1, <2>3, <3>2, <3>3
  <2>4. ASSUME NEW k \in 1..Through', NEW r, r = replay'[k]
        PROVE  Settled(r)'
    <3>1. CASE k \in 1..Through
      <4>1. r = replay[k] /\ Settled(replay[k])
        BY <1>3, <2>4, <3>1 DEF LineInv, NoGaps
      <4>2. QED
        BY <1>1, <2>1, <3>1, <4>1, DepartsSettled
    <3>2. CASE k \notin 1..Through
      BY <2>1, <2>4, <3>2 DEF Settled
    <3>3. QED
      BY <3>1, <3>2
  <2>5. QED
    BY <2>3, <2>4 DEF NoGaps
<1>4. QED
  BY <1>2, <1>3, WayTypes DEF TypeOK, FlagsOK

\* The replay sends the queue in its order.
LEMMA EnvelopeReplayed ==
    ASSUME TypeOK, QueueInv, LineInv, ReplayNext
    PROVE  LineInv'
<1>1. /\ phase = "replay" /\ replayAt <= Len(replay) /\ replayAt' = replayAt + 1
      /\ Transmit(replay[replayAt])
      /\ UNCHANGED <<user, outbox, phase, lineBuf, nextSeq, replay, sending, lost, acked,
                     reader, wsUp, down, breaks, server>>
  BY DEF ReplayNext
<1> USE DEF user, server
<1>2. /\ replay \in Seq(Envelope) /\ sending = <<>> /\ replayAt \in 1..Len(replay)
      /\ Len(replay) \in Nat /\ replayAt \in Nat
  BY <1>1 DEF TypeOK, ClientOK, QueueInv, SendingShape
<1>3. Pending = replay /\ Pending' = Pending /\ Held' = Held /\ Accepted' = Accepted
  BY <1>1, <1>2, ConcatEmptySeq DEF Pending, Held, Accepted
<1>4. PICK x \in Envelope : x = replay[replayAt]
  BY <1>2
<1>5. x \in Held /\ Formed(x) /\ x.seq < nextSeq
  BY <1>2, <1>3, <1>4 DEF Held, LineInv, HeldShape, QueueInv, ReplaySorted
<1>6. \A e \in Wire : Before(e, x)
  <2>1. x \in Unsent
    BY <1>1, <1>2, <1>4 DEF Unsent
  <2>2. QED
    BY <2>1 DEF LineInv, WireShape
<1>7. /\ Wire' = IF wsUp THEN Wire \cup {x} ELSE Wire
      /\ \A i, j \in 1..Len(up') : i < j => Before(up'[i], up'[j])
  BY <1>1, <1>4, <1>6, Departs DEF LineInv
<1>8. \A e : Formed(e)' = Formed(e)
  BY <1>1 DEF Formed, E, Split
<1>9. \A k \in 1..Len(replay) : k < replayAt => Before(replay[k], x)
  BY <1>2, <1>3, <1>4 DEF QueueInv, ReplaySorted
<1>10. WireShape'
  <2>1. Unsent' \subseteq Unsent /\ \A f \in Unsent' : Before(x, f)
    <3>1. Unsent' = {replay[k] : k \in (replayAt + 1)..Len(replay)}
      BY <1>1 DEF Unsent
    <3>2. \A k \in (replayAt + 1)..Len(replay) : k \in replayAt..Len(replay) /\ k \in 1..Len(replay)
                                               /\ replayAt < k
      BY <1>2
    <3>3. \A k \in (replayAt + 1)..Len(replay) : Before(x, replay[k])
      BY <1>2, <1>3, <1>4, <3>2 DEF QueueInv, ReplaySorted
    <3>4. QED
      BY <1>1, <3>1, <3>2, <3>3 DEF Unsent
  <2>2. x.kind = "message"
    BY <1>5, FormedFields
  <2>3. \A e \in Wire' : e.seq < nextSeq /\ \A f \in Unsent' : Before(e, f)
    BY <1>5, <1>7, <2>1 DEF LineInv, WireShape
  <2>4. \A e \in Wire' :
           \/ e.kind = "message" /\ Formed(e)
           \/ e.kind = "closed" /\ e.seq = written + 1 /\ shutdownSent /\ phase = "done"
    BY <1>5, <1>7, <2>2 DEF LineInv, WireShape
  <2>5. replayAt' <= Len(replay') + 1
    BY <1>1, <1>2
  <2>6. QED
    BY <1>1, <1>7, <1>8, <2>3, <2>4, <2>5 DEF WireShape
<1>11. HeldShape' /\ Numbers' /\ Parts'
  BY <1>1, <1>3, <1>8 DEF LineInv, HeldShape, Numbers, Parts
<1>12. Commands'
  BY <1>1 DEF LineInv, Commands, Is, Taken
<1>13. Unfinished' /\ Logged'
  BY <1>1, <1>3, <1>5, <1>7 DEF LineInv, Unfinished, Logged
<1>14. NoGaps'
  <2>1. Through = replayAt - 1 /\ Through' = replayAt
    BY <1>1, <1>2 DEF Through
  <2>2. \A i \in 1..Len(Pending) : Before(Pending[i], x) => i \in 1..Through /\ Pending[i] = replay[i]
    <3>1. ASSUME NEW i \in 1..Len(Pending), Before(Pending[i], x) PROVE i < replayAt
      <4>1. Pending[i].seq \in Nat /\ Pending[i].seg \in Nat /\ x.seq \in Nat /\ x.seg \in Nat
        BY <3>1, PendingFacts DEF TypeOK, Envelope
      <4>2. replayAt < i => Before(x, Pending[i])
        BY <1>2, <1>3, <1>4, <3>1 DEF QueueInv, ReplaySorted
      <4>3. replayAt = i => Pending[i] = x
        BY <1>3, <1>4
      <4>4. QED
        BY <1>2, <1>3, <3>1, <4>1, <4>2, <4>3 DEF Before
    <3>2. QED
      BY <1>2, <1>3, <2>1, <3>1
  <2>3. \A k \in 1..Through : replay'[k] = replay[k] /\ Before(replay[k], x) /\ replay[k].seq \in Nat
    <3>1. \A k \in 1..Len(replay) : replay[k] \in Envelope
      BY <1>2
    <3>2. \A k \in 1..Len(replay) : replay[k].seq \in Nat
      BY <3>1 DEF Envelope
    <3>3. QED
      BY <1>1, <1>2, <1>9, <2>1, <3>2
  <2>4. \A k \in (1..Through') \ (1..Through) : replay'[k] = x
    BY <1>1, <1>2, <1>4, <2>1
  <2>5. QED
    <3>1. phase # "done" /\ UNCHANGED <<lost, srvSeq, srvParts, written, wsUp>>
      BY <1>1
    <3>2. QED
      BY <1>5, <1>6, <1>7, <2>2, <2>3, <2>4, <3>1, NoGapsSent
<1>15. QED
  BY <1>10, <1>11, <1>12, <1>13, <1>14 DEF LineInv

\* The segment of the line that is next, on its own and in the queue.
LEMMA NextSegment ==
    ASSUME TypeOK, QueueInv, LineInv, phase = "send", sending # <<>>
    PROVE  /\ Head(sending) = sending[1] /\ Len(sending) \in Nat \ {0} /\ Len(replay) \in Nat
           /\ Head(sending) \in Held /\ Head(sending) \in Envelope /\ Formed(Head(sending))
           /\ Head(sending).seq < nextSeq /\ Head(sending).kind = "message"
           /\ \A e \in Wire : Before(e, Head(sending))
           /\ Len(Tail(sending)) = Len(sending) - 1
           /\ \A i \in 1..Len(Tail(sending)) :
                 i + 1 \in 1..Len(sending) /\ Tail(sending)[i] = sending[i + 1]
           /\ \A i \in 2..Len(sending) : Before(Head(sending), sending[i])
           /\ \A i \in 1..Len(replay) : Before(replay[i], Head(sending))
           /\ \A i \in 1..Len(Pending) : Before(Pending[i], Head(sending)) =>
                 i \in 1..Len(replay) /\ Pending[i] = replay[i]
<1>1. /\ replay \in Seq(Envelope) /\ sending \in Seq(Envelope) /\ Head(sending) = sending[1]
      /\ Len(sending) \in Nat \ {0} /\ Len(replay) \in Nat
  BY DEF TypeOK, ClientOK
<1>2. /\ Len(Pending) = Len(replay) + Len(sending)
      /\ \A i \in 1..Len(replay) : Pending[i] = replay[i]
      /\ \A i \in 1..Len(sending) : Pending[Len(replay) + i] = sending[i]
      /\ \A i \in 1..Len(Pending) : Pending[i] \in Envelope /\ Pending[i].seq \in Nat
                                    /\ Pending[i].seg \in Nat
  BY PendingFacts DEF TypeOK
<1>3. Len(replay) + 1 \in 1..Len(Pending) /\ Pending[Len(replay) + 1] = Head(sending)
  BY <1>1, <1>2
<1>4. Head(sending) \in Held /\ Head(sending) \in Envelope /\ Head(sending).seq < nextSeq
  BY <1>2, <1>3 DEF Held, QueueInv, ReplaySorted
<1>5. Formed(Head(sending)) /\ Head(sending).kind = "message"
  BY <1>4, FormedFields DEF LineInv, HeldShape
<1>6. \A e \in Wire : Before(e, Head(sending))
  <2>1. Head(sending) \in Unsent
    BY <1>1 DEF Unsent
  <2>2. QED
    BY <2>1 DEF LineInv, WireShape
<1>7. \A i, j \in 1..Len(Pending) : i < j => Before(Pending[i], Pending[j])
  BY DEF QueueInv, ReplaySorted
<1>8. \A i \in 2..Len(sending) : Before(Head(sending), sending[i])
  <2>1. TAKE i \in 2..Len(sending)
  <2>2. Len(replay) + i \in 1..Len(Pending) /\ Len(replay) + 1 < Len(replay) + i /\ i \in 1..Len(sending)
    BY <1>1, <1>2
  <2>3. QED
    BY <1>2, <1>3, <1>7, <2>2
<1>9. \A i \in 1..Len(replay) : Before(replay[i], Head(sending))
  <2>1. TAKE i \in 1..Len(replay)
  <2>2. i \in 1..Len(Pending) /\ i < Len(replay) + 1
    BY <1>1, <1>2
  <2>3. QED
    BY <1>2, <1>3, <1>7, <2>2
<1>10. ASSUME NEW i \in 1..Len(Pending), Before(Pending[i], Head(sending))
       PROVE  i \in 1..Len(replay) /\ Pending[i] = replay[i]
  <2>1. ~(i > Len(replay) + 1)
    <3>1. SUFFICES ASSUME i > Len(replay) + 1 PROVE FALSE
      OBVIOUS
    <3>2. Before(Head(sending), Pending[i])
      BY <1>1, <1>3, <1>7, <3>1
    <3>3. QED
      BY <1>2, <1>3, <1>10, <3>2 DEF Before
  <2>2. i # Len(replay) + 1
    BY <1>2, <1>3, <1>10 DEF Before
  <2>3. QED
    <3>1. i <= Len(replay)
      BY <1>1, <1>2, <2>1, <2>2
    <3>2. i \in 1..Len(replay)
      BY <1>1, <1>2, <3>1
    <3>3. QED
      BY <1>2, <3>2
<1>11. /\ Len(Tail(sending)) = Len(sending) - 1
       /\ \A i \in 1..Len(Tail(sending)) :
             i + 1 \in 1..Len(sending) /\ Tail(sending)[i] = sending[i + 1]
  BY <1>1, HeadTailProperties
<1>12. QED
  BY <1>1, <1>4, <1>5, <1>6, <1>8, <1>9, <1>10, <1>11

\* A segment is queued and sent, behind all that was.
LEMMA SegmentSent ==
    ASSUME TypeOK, QueueInv, LineInv, SendSegment
    PROVE  LineInv'
<1> DEFINE x == Head(sending)
<1>1. /\ phase = "send" /\ sending # <<>> /\ phase' = (IF Len(sending) = 1 THEN "open" ELSE "send")
      /\ replay' = Append(replay, x) /\ sending' = Tail(sending) /\ Transmit(x)
      /\ UNCHANGED <<user, outbox, lineBuf, nextSeq, replayAt, lost, acked,
                     reader, wsUp, down, breaks, server>>
  BY DEF SendSegment
<1> USE DEF user, server
<1>2. /\ x = sending[1] /\ Len(sending) \in Nat \ {0} /\ Len(replay) \in Nat
      /\ x \in Held /\ x \in Envelope /\ Formed(x) /\ x.seq < nextSeq /\ x.kind = "message"
      /\ \A e \in Wire : Before(e, x)
      /\ Len(sending') = Len(sending) - 1
      /\ \A i \in 1..Len(sending') : i + 1 \in 1..Len(sending) /\ sending'[i] = sending[i + 1]
      /\ \A i \in 2..Len(sending) : Before(x, sending[i])
      /\ \A i \in 1..Len(replay) : Before(replay[i], x)
      /\ \A i \in 1..Len(Pending) : Before(Pending[i], x) =>
            i \in 1..Len(replay) /\ Pending[i] = replay[i]
  BY <1>1, NextSegment
<1>3. Pending' = Pending /\ Held' = Held /\ Accepted' = Accepted
  BY <1>1, SegmentMoves DEF Pending, Held, Accepted, TypeOK
<1>4. /\ Wire' = IF wsUp THEN Wire \cup {x} ELSE Wire
      /\ \A i, j \in 1..Len(up') : i < j => Before(up'[i], up'[j])
  BY <1>1, <1>2, Departs DEF LineInv
<1>5. \A e : Formed(e)' = Formed(e)
  BY <1>1 DEF Formed, E, Split
<1> HIDE DEF x
<1>6. WireShape'
  <2>1. \A f \in Unsent' : f \in Unsent /\ Before(x, f)
    <3>1. CASE phase' = "send"
      <4>1. \A i \in 1..Len(sending') : i + 1 \in 2..Len(sending)
        BY <1>2
      <4>2. QED
        BY <1>1, <1>2, <3>1, <4>1 DEF Unsent
    <3>2. CASE phase' = "open"
      BY <3>2 DEF Unsent
    <3>3. QED
      BY <1>1, <3>1, <3>2
  <2>2. \A e \in Wire' : e.seq < nextSeq /\ \A f \in Unsent' : Before(e, f)
    BY <1>2, <1>4, <2>1 DEF LineInv, WireShape
  <2>3. \A e \in Wire' : e.kind = "message" /\ Formed(e)
    BY <1>1, <1>2, <1>4 DEF LineInv, WireShape
  <2>4. QED
    BY <1>1, <1>4, <1>5, <2>2, <2>3 DEF WireShape
<1>7. HeldShape'
  <2>1. sending' # <<>> => sending'[Len(sending')] = sending[Len(sending)] /\ sending'[1] = sending[2]
                           /\ 2 \in 1..Len(sending)
    <3>1. sending' # <<>> => Len(sending') >= 1
      BY <1>1 DEF TypeOK, ClientOK
    <3>2. QED
      BY <1>2, <3>1
  <2>2. 1 \in 1..Len(sending) /\ \A i \in 1..Len(sending) : sending[i].seq = sending[1].seq
    BY <1>2 DEF QueueInv, SendingShape
  <2>3. QED
    BY <1>1, <1>3, <1>5, <2>1, <2>2 DEF LineInv, HeldShape
<1>8. Numbers'
  BY <1>1 DEF LineInv, Numbers
<1>9. Parts'
  BY <1>1, <1>2 DEF LineInv, Parts
<1>10. Commands'
  BY <1>1 DEF LineInv, Commands, Is, Taken
<1>11. Unfinished' /\ Logged'
  BY <1>1, <1>2, <1>3, <1>4 DEF LineInv, Unfinished, Logged
<1>12. NoGaps'
  <2>1. Through = Len(replay) /\ Through' = Len(replay) + 1
    <3>1. Len(replay') = Len(replay) + 1
      BY <1>1 DEF TypeOK, ClientOK
    <3>2. QED
      BY <1>1, <3>1 DEF Through
  <2>2. \A k \in 1..Through : replay'[k] = replay[k] /\ Before(replay[k], x) /\ replay[k].seq \in Nat
    <3>1. replay \in Seq(Envelope)
      BY DEF TypeOK, ClientOK
    <3>2. \A k \in 1..Len(replay) : replay[k] \in Envelope /\ replay'[k] = replay[k]
      BY <1>1, <3>1
    <3>3. \A k \in 1..Len(replay) : replay[k].seq \in Nat
      BY <3>2 DEF Envelope
    <3>4. QED
      BY <1>2, <2>1, <3>2, <3>3
  <2>3. \A k \in (1..Through') \ (1..Through) : replay'[k] = x
    <3>1. replay \in Seq(Envelope)
      BY DEF TypeOK, ClientOK
    <3>2. QED
      BY <1>1, <1>2, <2>1, <3>1
  <2>4. \A i \in 1..Len(Pending) : Before(Pending[i], x) => i \in 1..Through /\ Pending[i] = replay[i]
    BY <1>2, <2>1
  <2>5. phase # "done" /\ UNCHANGED <<lost, srvSeq, srvParts, written, wsUp>>
    BY <1>1
  <2>6. QED
    BY <1>2, <1>4, <2>2, <2>3, <2>4, <2>5, NoGapsSent
<1>13. QED
  BY <1>1, <1>6, <1>7, <1>8, <1>9, <1>10, <1>11, <1>12 DEF LineInv

\* A send fails.  If segments are left behind, the line is given up, and its last
\* segment has been nowhere.
LEMMA SegmentLost ==
    ASSUME TypeOK, QueueInv, LineInv, SegmentFails
    PROVE  /\ LineInv'
           /\ \/ lost' = lost
              \/ \E n \in (srvSeq + 1)..written : lost' = lost \cup {n}
<1> DEFINE x == Head(sending)
<1>1. /\ phase = "send" /\ sending # <<>> /\ phase' = "connect" /\ ~wsUp'
      /\ replay' = Append(replay, x) /\ sending' = <<>>
      /\ lost' = (IF Len(sending) > 1 THEN lost \cup {x.seq} ELSE lost)
      /\ UNCHANGED <<user, outbox, lineBuf, nextSeq, replayAt, acked, reader,
                     up, down, breaks, server>>
  BY DEF SegmentFails, Reconnect
<1> USE DEF user, server
<1>2. /\ x = sending[1] /\ Len(sending) \in Nat \ {0} /\ Len(replay) \in Nat
      /\ x \in Held /\ x \in Envelope /\ Formed(x) /\ x.seq < nextSeq
      /\ \A e \in Wire : Before(e, x)
      /\ \A i \in 2..Len(sending) : Before(x, sending[i])
      /\ \A i \in 1..Len(replay) : Before(replay[i], x)
  BY <1>1, NextSegment
<1>3. x.seq \in 1..written /\ x.seq \in Nat /\ x.seg \in Nat /\ srvSeq < x.seq
      /\ srvSeq \in Nat /\ written \in Nat
  <2>1. x.seq \in 1..written /\ x.seg \in Nat
    BY <1>2, FormedFields
  <2>2. srvSeq < x.seq
    BY <1>1, <1>2 DEF LineInv, Parts
  <2>3. QED
    BY <2>1, <2>2, WayTypes
<1> HIDE DEF x
<1>4. Held' \subseteq Held /\ \A e \in Held' : e = x \/ Before(e, x)
  <2>1. replay \in Seq(Envelope) /\ replay' \in Seq(Envelope)
    BY <1>1, <1>2 DEF TypeOK, ClientOK
  <2>2. Pending' = replay'
    BY <1>1, <2>1, ConcatEmptySeq DEF Pending
  <2>3. \A i \in 1..Len(replay') :
          (i \in 1..Len(replay) /\ replay'[i] = replay[i]) \/ replay'[i] = x
    BY <1>1, <2>1
  <2>4. \A i \in 1..Len(replay) : i \in 1..Len(Pending) /\ Pending[i] = replay[i]
    BY PendingFacts DEF TypeOK
  <2>5. \A i \in 1..Len(replay) : replay[i] \in Held
    BY <2>4 DEF Held
  <2>6. ASSUME NEW i \in 1..Len(replay') PROVE replay'[i] \in Held /\ (replay'[i] = x \/ Before(replay'[i], x))
    BY <1>2, <2>3, <2>5
  <2>7. QED
    BY <2>2, <2>6 DEF Held
<1>5. Wire' = Wire /\ Accepted' = Accepted /\ Unsent' = {} /\ Through' = 0
  BY <1>1 DEF Wire, Accepted, Unsent, Through
<1>6. \A e : Formed(e)' = Formed(e)
  BY <1>1 DEF Formed, E, Split
<1>7. WireShape' /\ HeldShape'
  BY <1>1, <1>4, <1>5, <1>6 DEF LineInv, WireShape, HeldShape
<1>8. Numbers' /\ Parts' /\ Logged'
  BY <1>1, <1>2, <1>3, <1>5 DEF LineInv, Numbers, Parts, Logged
<1>9. Commands'
  BY <1>1 DEF LineInv, Commands, Is, Taken
<1>10. Unfinished'
  <2>1. ASSUME NEW n \in lost
        PROVE  /\ \A e \in Wire' \cup Held' : e.seq = n /\ e.kind = "message" => e.seg + 1 < Segments[n]
               /\ srvParts'.seq = n => \A s \in srvParts'.segs : s + 1 < Segments[n]
    BY <1>1, <1>4, <1>5 DEF LineInv, Unfinished
  <2>2. ASSUME Len(sending) > 1
        PROVE  /\ \A e \in Wire \cup Held' : e.seq = x.seq => e.seg + 1 < Segments[x.seq]
               /\ srvParts.seq = x.seq => \A s \in srvParts.segs : s + 1 < Segments[x.seq]
    <3>1. x.seg + 1 < Segments[x.seq]
      <4>1. sending[Len(sending)].seg + 1 = Segments[x.seq]
        BY <1>1, <1>2 DEF LineInv, HeldShape
      <4>2. 1 \in 1..Len(sending) /\ Len(sending) \in 1..Len(sending) /\ Len(sending) \in 2..Len(sending)
        BY <1>2, <2>2
      <4>3. Before(x, sending[Len(sending)]) /\ sending[Len(sending)].seq = x.seq
        BY <1>2, <4>2 DEF QueueInv, SendingShape
      <4>4. x.seg < sending[Len(sending)].seg /\ sending[Len(sending)].seg \in Nat
        <5>1. sending[Len(sending)] \in Envelope
          BY <4>2 DEF TypeOK, ClientOK
        <5>2. QED
          BY <1>3, <4>3, <5>1 DEF Before, Envelope
      <4>5. QED
        BY <1>3, <4>1, <4>4
    <3>2. Segments[x.seq] \in Nat
      BY <1>3, WayTypes
    <3>3. ASSUME NEW e \in Wire \cup Held', e.seq = x.seq
          PROVE  e.seg + 1 < Segments[x.seq]
      <4>1. e = x \/ Before(e, x)
        BY <1>2, <1>4, <3>3
      <4>2. e.seg \in Nat
        BY <1>4, <3>3, WayTypes
      <4>3. QED
        BY <1>3, <3>1, <3>2, <3>3, <4>1, <4>2 DEF Before
    <3>4. ASSUME srvParts.seq = x.seq, NEW s \in srvParts.segs
          PROVE  s + 1 < Segments[x.seq]
      <4>1. s < x.seg
        BY <1>1, <1>2, <3>4 DEF LineInv, Parts
      <4>2. s \in Nat
        BY <3>4, WayTypes
      <4>3. QED
        BY <1>3, <3>1, <3>2, <4>1, <4>2
    <3>5. QED
      BY <3>3, <3>4
  <2>3. \A n \in lost' : n \in lost \/ (n = x.seq /\ Len(sending) > 1)
    BY <1>1
  <2>4. srvParts' = srvParts
    BY <1>1
  <2>5. QED
    BY <1>5, <2>1, <2>2, <2>3, <2>4 DEF Unfinished
<1>11. NoGaps'
  BY <1>1, <1>5, NoGapsKept DEF LineInv
<1>12. \/ lost' = lost
       \/ \E n \in (srvSeq + 1)..written : lost' = lost \cup {n}
  BY <1>1, <1>3
<1>13. QED
  BY <1>7, <1>8, <1>9, <1>10, <1>11, <1>12 DEF LineInv

\* The envelope that closes the stream is behind all lines.
LEMMA CloseSent ==
    ASSUME TypeOK, QueueInv, LineInv, TakeShutdown
    PROVE  LineInv'
<1>1. /\ phase = "open" /\ outbox # <<>> /\ Head(outbox).kind = "shutdown" /\ phase' = "done"
      /\ nextSeq' = nextSeq + 1
      /\ UNCHANGED <<user, lineBuf, replay, replayAt, sending, lost, acked,
                     reader, wsUp, down, breaks, server>>
  BY DEF TakeShutdown, NextCommand
<1> USE DEF user, server
<1>2. shutdownSent /\ nextSeq = written + 1 /\ written \in Nat /\ nextSeq \in Nat
  <2>1. Is(Head(outbox), Taken + 1)
    <3>1. outbox \in Seq(Command) /\ Len(outbox) \in Nat \ {0} /\ Head(outbox) = outbox[1]
      BY <1>1 DEF TypeOK
    <3>2. QED
      BY <1>1, <3>1 DEF LineInv, Commands
  <2>2. Taken + 1 = 2 * written + 1 /\ shutdownSent
    BY <1>1, <2>1 DEF Is
  <2>3. lineBuf \in {<<>>, <<nextSeq>>} /\ nextSeq \in Nat /\ written \in Nat
    BY <1>1, WayTypes DEF LineInv, Commands
  <2>4. lineBuf = <<>> => Taken = 2 * nextSeq - 2
    BY <2>3 DEF Taken
  <2>5. lineBuf = <<nextSeq>> => Taken = 2 * nextSeq - 1
    BY <2>3 DEF Taken
  <2>6. QED
    BY <2>2, <2>3, <2>4, <2>5
<1> DEFINE x == [kind |-> "closed", line |-> 0, seq |-> nextSeq, seg |-> 0, count |-> 1]
<1>3. x \in Envelope /\ x.seq = nextSeq /\ x.seg = 0 /\ x.kind = "closed"
  BY <1>2, WayTypes DEF Envelope
<1>4. Transmit(x) \/ (~wsUp /\ up' = up)
  BY DEF TakeShutdown
<1> HIDE DEF x
<1>5. \A e \in Wire : Before(e, x)
  BY <1>3 DEF LineInv, WireShape, Before
<1>6. /\ Wire' = IF wsUp THEN Wire \cup {x} ELSE Wire
      /\ \A i, j \in 1..Len(up') : i < j => Before(up'[i], up'[j])
  <2>1. CASE Transmit(x)
    BY <1>3, <1>5, <2>1, Departs DEF LineInv
  <2>2. CASE ~wsUp /\ up' = up
    BY <2>2 DEF Wire, LineInv, WireShape
  <2>3. QED
    BY <1>4, <2>1, <2>2
<1>7. Pending' = Pending /\ Held' = Held /\ Accepted' = Accepted /\ Unsent' = {} /\ Through' = 0
  BY <1>1 DEF Pending, Held, Accepted, Unsent, Through
<1>8. \A e : Formed(e)' = Formed(e)
  BY <1>1 DEF Formed, E, Split
<1>9. WireShape'
  <2>1. \A e \in Wire' : e.seq < nextSeq + 1
    BY <1>2, <1>3, <1>6, WayTypes DEF LineInv, WireShape
  <2>2. \A e \in Wire' : \/ e.kind = "message" /\ Formed(e)
                         \/ e.kind = "closed" /\ e.seq = written + 1
    BY <1>1, <1>2, <1>3, <1>6 DEF LineInv, WireShape
  <2>3. QED
    BY <1>1, <1>2, <1>6, <1>7, <1>8, <2>1, <2>2 DEF WireShape
<1>10. HeldShape' /\ Parts'
  BY <1>1, <1>7, <1>8 DEF LineInv, HeldShape, Parts
<1>11. Numbers'
  BY <1>1, <1>2, WayTypes DEF LineInv, Numbers
<1>12. Unfinished' /\ Logged'
  BY <1>1, <1>3, <1>6, <1>7 DEF LineInv, Unfinished, Logged
<1>13. NoGaps'
  <2>1. replay \in Seq(Envelope) /\ sending = <<>> /\ Len(replay) \in Nat
    BY <1>1 DEF TypeOK, ClientOK, QueueInv, SendingShape
  <2>2. Pending = replay
    BY <2>1, ConcatEmptySeq DEF Pending
  <2>3. Through = Len(replay)
    BY <1>1 DEF Through
  <2>4. \A k \in 1..Len(replay) : replay[k] \in Envelope /\ replay[k].seq < nextSeq
    BY <2>1, <2>2 DEF QueueInv, ReplaySorted
  <2>5. \A k \in 1..Through : replay'[k] = replay[k] /\ Before(replay[k], x) /\ replay[k].seq \in Nat
    BY <1>1, <1>3, <2>3, <2>4 DEF Before, Envelope
  <2>6. (1..Through') \ (1..Through) = {}
    BY <1>7
  <2>7. phase # "done" /\ UNCHANGED <<lost, srvSeq, srvParts, written, wsUp>>
    BY <1>1
  <2>8. \A i \in 1..Len(Pending) : Before(Pending[i], x) => i \in 1..Through /\ Pending[i] = replay[i]
    BY <2>2, <2>3
  <2>9. QED
    BY <1>3, <1>5, <1>6, <2>5, <2>6, <2>7, <2>8, NoGapsSent
<1>14. QED
  BY <1>1, <1>9, <1>10, <1>11, <1>12, <1>13 DEF LineInv

-----------------------------------------------------------------------------
(* Acknowledgements, breaks, and the server.                                *)

\* Nothing that was not sent is trimmed, and nothing the server has not.
LEMMA AckHandled ==
    ASSUME TypeOK, QueueInv, LineInv, ReceiveAck
    PROVE  LineInv'
<1>1. /\ phase = "open" /\ down # <<>> /\ down' = Tail(down) /\ Head(down).kind = "ack"
      /\ acked' = Max2(acked, Head(down).seq)
      /\ UNCHANGED <<user, outbox, phase, lineBuf, nextSeq, replayAt, sending, lost,
                     reader, wsUp, up, breaks, server>>
  BY DEF ReceiveAck, NextReply
<1>2. PICK k \in 0..Len(replay) : replay' = SubSeq(replay, k + 1, Len(replay))
  BY DEF ReceiveAck
<1> USE DEF user, server
<1>3. /\ replay \in Seq(Envelope) /\ Len(replay) \in Nat /\ sending = <<>>
      /\ Pending = replay /\ Pending' = replay'
  <2>1. replay \in Seq(Envelope) /\ Len(replay) \in Nat /\ sending = <<>>
    BY <1>1, PendingFacts DEF TypeOK, QueueInv, SendingShape
  <2>2. replay' \in Seq(Envelope)
    BY <1>2, <2>1
  <2>3. QED
    BY <1>1, <2>1, <2>2, ConcatEmptySeq DEF Pending
<1>4. /\ Len(replay') = Len(replay) - k
      /\ \A i \in 1..Len(replay') : k + i \in 1..Len(replay) /\ replay'[i] = replay[k + i]
  <2>1. Len(replay') = Len(replay) - k
    BY <1>2, <1>3
  <2>2. \A i \in 1..(Len(replay) - k) : replay'[i] = replay[k + i]
    BY <1>2, <1>3
  <2>3. QED
    BY <1>2, <1>3, <2>1, <2>2
<1>5. /\ Wire' = Wire /\ Accepted' = Accepted /\ Unsent' = {} /\ Held' \subseteq Held
      /\ Through = Len(replay) /\ Through' = Len(replay')
  BY <1>1, <1>3, <1>4 DEF Wire, Accepted, Unsent, Held, Through
<1>6. \A e : Formed(e)' = Formed(e)
  BY <1>1 DEF Formed, E, Split
<1>7. Commands'
  BY <1>1 DEF LineInv, Commands, Is, Taken
<1>8. WireShape' /\ HeldShape'
  BY <1>1, <1>5, <1>6 DEF LineInv, WireShape, HeldShape
<1>9. Numbers'
  <2>1. Head(down).seq <= srvSeq
    BY <1>1, RepliesLeft DEF LineInv
  <2>2. acked' <= srvSeq
    BY <1>1, <2>1 DEF LineInv, Numbers, Max2
  <2>3. \A i \in 1..Len(down') : down'[i].kind = "ack" => down'[i].seq <= srvSeq
    BY <1>1, RepliesLeft DEF LineInv
  <2>4. QED
    BY <1>1, <2>2, <2>3 DEF LineInv, Numbers
<1>10. Parts' /\ Logged' /\ Unfinished'
  BY <1>1, <1>5 DEF LineInv, Parts, Logged, Unfinished
<1>11. NoGaps'
  <2>1. \A e : Settled(e)' = Settled(e)
    BY <1>1, <1>5 DEF Settled, Got
  <2>2. ASSUME wsUp, NEW i \in 1..Through' PROVE Settled(replay[i])'
    <3>1. k + i \in 1..Through /\ replay'[i] = replay[k + i]
      BY <1>4, <1>5
    <3>2. Settled(replay[k + i])
      BY <2>2, <3>1 DEF LineInv, NoGaps
    <3>3. QED
      BY <2>1, <3>1, <3>2
  <2>3. QED
    BY <1>1, <1>5, <2>1, <2>2 DEF LineInv, NoGaps, E, Split
<1>12. QED
  BY <1>7, <1>8, <1>9, <1>10, <1>11 DEF LineInv

\* A broken connection still delivers what is before whatever it delivers.
LEMMA BreakSurvived ==
    ASSUME TypeOK, LineInv, NetworkBreaks
    PROVE  LineInv'
<1>1. /\ ~wsUp' /\ \E i \in 0..Len(up) : up' = SubSeq(up, 1, i)
      /\ \E i \in 0..Len(down) : down' = SubSeq(down, 1, i)
      /\ UNCHANGED <<user, outbox, phase, client, reader, server>>
  BY DEF NetworkBreaks
<1> USE DEF user, client, server
<1>2. /\ Wire' \subseteq Wire
      /\ \A e \in Wire', f \in Wire : Before(f, e) => f \in Wire'
      /\ \A i, j \in 1..Len(up') : i < j => Before(up'[i], up'[j])
  BY Cut DEF LineInv
<1>3. Held' = Held /\ Accepted' = Accepted /\ Unsent' = Unsent
  BY <1>1 DEF Held, Pending, Accepted, Unsent
<1>4. \A e : Formed(e)' = Formed(e)
  BY <1>1 DEF Formed, E, Split
<1>5. phase' # "done" => Commands'
  BY <1>1 DEF LineInv, Commands, Is, Taken
<1>6. WireShape'
  <2>1. up = <<>> => up' = <<>>
    BY <1>1
  <2>2. QED
    BY <1>1, <1>2, <1>3, <1>4, <2>1 DEF LineInv, WireShape
<1>7. HeldShape'
  BY <1>1, <1>3, <1>4 DEF LineInv, HeldShape
<1>8. Numbers'
  <2>1. down \in Seq(Reply) /\ Len(down) \in Nat
    BY DEF TypeOK, WireOK
  <2>2. \A i \in 1..Len(down') : i \in 1..Len(down) /\ down'[i] = down[i]
    BY <1>1, <2>1
  <2>3. \A i \in 1..Len(down') : down'[i].kind = "ack" => down'[i].seq <= srvSeq
    BY <2>2 DEF LineInv, Numbers
  <2>4. QED
    BY <1>1, <2>3 DEF LineInv, Numbers
<1>9. Parts' /\ Logged' /\ Unfinished'
  BY <1>1, <1>2, <1>3 DEF LineInv, Parts, Logged, Unfinished
<1>10. NoGaps'
  <2>1. ASSUME NEW e \in Wire', NEW f, Settled(f), Before(f, e) PROVE Settled(f)'
    BY <1>1, <1>2, <2>1 DEF Settled, Got
  <2>2. QED
    BY <1>1, <1>2, <2>1 DEF LineInv, NoGaps, E, Split
<1>11. QED
  BY <1>5, <1>6, <1>7, <1>8, <1>9, <1>10 DEF LineInv

\* What the server takes from the wire leaves the rest as it was.
LEMMA Served ==
    ASSUME TypeOK, LineInv, up # <<>>, up' = Tail(up),
           UNCHANGED <<user, outbox, phase, client, wsUp>>,
           \A f : Formed(f) /\ Settled(f) => Settled(f)'
    PROVE  /\ phase' # "done" => Commands'
           /\ WireShape' /\ HeldShape' /\ NoGaps'
           /\ Wire' \subseteq Wire /\ Held' = Held
<1> USE DEF user, client
<1>1. /\ Wire' \subseteq Wire
      /\ \A i, j \in 1..Len(up') : i < j => Before(up'[i], up'[j])
  BY Arrives DEF LineInv
<1>2. Held' = Held /\ Unsent' = Unsent /\ Through' = Through
  BY DEF Held, Pending, Unsent, Through
<1>3. \A e : Formed(e)' = Formed(e)
  BY DEF Formed, E, Split
<1>4. phase' # "done" => Commands'
  BY DEF LineInv, Commands, Is, Taken
<1>5. WireShape'
  BY <1>1, <1>2, <1>3 DEF LineInv, WireShape
<1>6. HeldShape'
  BY <1>2, <1>3 DEF LineInv, HeldShape
<1>7. NoGaps'
  <2>1. ASSUME NEW e \in Wire', NEW n \in 1..written, NEW s \in 1..Segments[n], Before(E(n, s), e)
        PROVE  Settled(E(n, s))'
    <3>1. Settled(E(n, s)) /\ Formed(E(n, s))
      BY <1>1, <2>1 DEF LineInv, NoGaps, Formed
    <3>2. QED
      BY <3>1
  <2>2. ASSUME wsUp, NEW k \in 1..Through PROVE Settled(replay[k])'
    <3>1. Settled(replay[k])
      BY <2>2 DEF LineInv, NoGaps
    <3>2. k \in 1..Len(replay)
      <4>1. Len(replay) \in Nat /\ replayAt \in Nat \ {0}
        BY DEF TypeOK, ClientOK
      <4>2. Through \in 0..Len(replay)
        BY <4>1 DEF Through, LineInv, WireShape
      <4>3. QED
        BY <4>1, <4>2
    <3>3. k \in 1..Len(Pending) /\ Pending[k] = replay[k]
      BY <3>2, PendingFacts DEF TypeOK
    <3>4. Formed(replay[k])
      BY <3>3 DEF LineInv, HeldShape, Held
    <3>5. QED
      BY <3>1, <3>4
  <2>3. \A n, s : E(n, s)' = E(n, s)
    BY DEF E, Split
  <2>4. QED
    BY <1>2, <2>1, <2>2, <2>3 DEF NoGaps
<1>8. QED
  BY <1>1, <1>2, <1>4, <1>5, <1>6, <1>7

\* A repeated envelope, and the one that closes the stream.
LEMMA NothingNew ==
    ASSUME TypeOK, LineInv, ServerDuplicate \/ ServerClosed
    PROVE  LineInv'
<1>1. /\ up # <<>> /\ up' = Tail(up)
      /\ UNCHANGED <<user, outbox, phase, client, wsUp, srvSeq, srvParts, srvLog>>
      /\ \/ Head(up).seq <= srvSeq /\ srvClosed' = srvClosed
         \/ Head(up).kind = "closed"
  BY DEF ServerDuplicate, ServerClosed, server
<1> USE DEF user, client
<1>2. Head(up) \in Wire /\ Wire = Wire' \cup {Head(up)}
  BY <1>1, Arrives DEF LineInv
<1>3. ASSUME NEW f, Formed(f), Settled(f) PROVE Settled(f)'
  <2>1. f.kind = "message"
    BY <1>3, FormedFields
  <2>2. QED
    BY <1>1, <1>2, <1>3, <2>1 DEF Settled, Got
<1>4. /\ phase' # "done" => Commands'
      /\ WireShape' /\ HeldShape' /\ NoGaps'
      /\ Wire' \subseteq Wire /\ Held' = Held
  BY <1>1, <1>3, Served
<1>5. Accepted' = Accepted
  BY <1>1 DEF Accepted
<1>6. \A i \in 1..Len(down') : down'[i].kind = "ack" => down'[i].seq <= srvSeq
  <2>1. \A i \in 1..Len(down) : down[i].kind = "ack" => down[i].seq <= srvSeq
    BY DEF LineInv, Numbers
  <2>2. CASE down' = down
    BY <2>1, <2>2
  <2>3. CASE down' = Append(down, Ack(Head(up).seq)) /\ Head(up).seq <= srvSeq
    <3>1. Ack(Head(up).seq).seq <= srvSeq
      BY <2>3 DEF Ack
    <3>2. QED
      BY <2>3, <3>1, RepliesLeft DEF LineInv
  <2>4. down' = down \/ (down' = Append(down, Ack(Head(up).seq)) /\ Head(up).seq <= srvSeq)
    BY DEF ServerDuplicate, ServerClosed, Push
  <2>5. QED
    BY <2>2, <2>3, <2>4
<1>7. Numbers' /\ Parts' /\ Unfinished'
  BY <1>1, <1>4, <1>6 DEF LineInv, Numbers, Parts, Unfinished
<1>8. Logged'
  <2>1. CASE srvClosed' = srvClosed
    BY <1>1, <1>5, <2>1 DEF LineInv, Logged
  <2>2. CASE Head(up).kind = "closed"
    <3>1. shutdownSent /\ phase = "done" /\ Head(up).seq = written + 1
      BY <1>2, <2>2 DEF LineInv, WireShape
    <3>2. ASSUME NEW n \in 1..written PROVE n \in lost \cup Accepted
      <4>1. CASE n <= srvSeq
        BY <4>1, WayTypes DEF LineInv, Logged
      <4>2. CASE n > srvSeq
        <5>1. n < Head(up).seq
          BY <3>1, WayTypes
        <5>2. QED
          BY <1>1, <4>2, <5>1, NothingSkipped DEF LineInv
      <4>3. QED
        BY <4>1, <4>2, WayTypes
    <3>3. QED
      BY <1>1, <1>5, <3>1, <3>2 DEF LineInv, Logged
  <2>3. QED
    BY <1>1, <2>1, <2>2
<1>9. QED
  BY <1>4, <1>7, <1>8 DEF LineInv

\* The server takes an envelope of a new message, and perhaps the message.
LEMMA MessageServed ==
    ASSUME TypeOK, LineInv, ServerAccept
    PROVE  /\ LineInv'
           /\ UNCHANGED <<written, lost>>
           /\ \/ srvLog' = srvLog
              \/ \E n \in (srvSeq + 1)..written :
                    /\ n \notin lost /\ (srvSeq + 1)..(n - 1) \subseteq lost
                    /\ srvLog' = Append(srvLog, n)
<1> DEFINE e     == Head(up)
           held  == IF srvParts.seq = e.seq THEN srvParts.segs ELSE {}
           segs  == {e.seg} \cup held
           full  == segs = 0..(e.count - 1)
<1>1. /\ up # <<>> /\ up' = Tail(up) /\ e.kind = "message" /\ e.seq > srvSeq
      /\ srvParts' = [seq |-> e.seq, segs |-> IF full THEN {} ELSE segs]
      /\ srvSeq' = (IF full THEN e.seq ELSE srvSeq)
      /\ srvLog' = (IF full THEN Append(srvLog, e.line) ELSE srvLog)
      /\ (IF full THEN Push(Ack(e.seq)) ELSE UNCHANGED down)
      /\ UNCHANGED <<user, outbox, phase, client, reader, wsUp, breaks, srvClosed, srvPos>>
  BY DEF ServerAccept
<1> USE DEF user, client
<1>2. /\ e \in Wire /\ Wire = Wire' \cup {e} /\ \A f \in Wire' : Before(e, f)
  BY <1>1, Arrives DEF LineInv
<1>3. /\ Formed(e) /\ e.seq \in 1..written /\ e.seg \in Nat /\ e.seg + 1 \in 1..Segments[e.seq]
      /\ e.line = e.seq /\ e.count = Segments[e.seq] /\ Segments[e.seq] \in Nat
      /\ e.seq \in Nat /\ srvSeq \in Nat /\ written \in Nat /\ e.seq < nextSeq
  <2>1. Formed(e) /\ e.seq < nextSeq
    BY <1>1, <1>2 DEF LineInv, WireShape
  <2>2. /\ e.seq \in 1..written /\ e.seg \in Nat /\ e.seg + 1 \in 1..Segments[e.seq]
        /\ e.line = e.seq /\ e.count = Segments[e.seq]
    BY <2>1, FormedFields
  <2>3. written \in Nat /\ srvSeq \in Nat /\ e.seq \in 1..NumLines
    BY <2>2, WayTypes
  <2>4. Segments[e.seq] \in Nat /\ e.seq \in Nat
    BY <2>2, <2>3, WayTypes
  <2>5. QED
    BY <2>1, <2>2, <2>3, <2>4
<1> HIDE DEF e
<1>4. segs \subseteq 0..(Segments[e.seq] - 1)
  <2>1. held \subseteq 0..(Segments[e.seq] - 1)
    BY <1>1 DEF LineInv, Parts
  <2>2. e.seg \in 0..(Segments[e.seq] - 1)
    BY <1>3
  <2>3. QED
    BY <2>1, <2>2
<1>5. e.seq \in lost => \A s \in segs : s + 1 < Segments[e.seq]
  BY <1>1, <1>2 DEF LineInv, Unfinished
<1>6. full => e.seq \notin lost
  <2>1. SUFFICES ASSUME full, e.seq \in lost PROVE FALSE
    OBVIOUS
  <2>2. Segments[e.seq] - 1 \in segs
    BY <1>3, <2>1
  <2>3. QED
    BY <1>3, <1>5, <2>1, <2>2
<1>7. \A n \in (srvSeq + 1)..(e.seq - 1) : n \in lost
  <2>1. TAKE n \in (srvSeq + 1)..(e.seq - 1)
  <2>2. n \in 1..written /\ n < e.seq /\ n > srvSeq
    BY <1>3
  <2>3. QED
    BY <1>1, <2>2, NothingSkipped DEF LineInv, e
<1>8. /\ srvParts'.seq = e.seq /\ srvParts'.segs = IF full THEN {} ELSE segs
      /\ srvSeq <= srvSeq' /\ srvSeq' \in Nat
  BY <1>1, <1>3
<1>9. ASSUME NEW f, Formed(f), Settled(f) PROVE Settled(f)'
  <2>1. f.seq \in 1..written /\ f.seg \in Nat
    BY <1>9, FormedFields
  <2>2. CASE f.seq \in lost
    BY <1>1, <2>2 DEF Settled
  <2>3. CASE f.seq <= srvSeq
    BY <1>3, <1>8, <2>1, <2>3 DEF Settled
  <2>4. CASE f \in Wire'
    BY <2>4 DEF Settled
  <2>5. ASSUME f.seq = e.seq, f.seg \in segs PROVE Settled(f)'
    <3>1. CASE full
      BY <1>1, <1>3, <2>5, <3>1 DEF Settled
    <3>2. CASE ~full
      <4>1. srvParts'.seq = f.seq /\ f.seg \in srvParts'.segs
        BY <1>8, <2>5, <3>2
      <4>2. \A g \in Wire' : g.seq >= f.seq
        BY <1>2, <1>3, <2>5, WayTypes DEF Before
      <4>3. QED
        BY <4>1, <4>2 DEF Settled, Got
    <3>3. QED
      BY <3>1, <3>2
  <2>6. CASE f = e
    BY <2>5, <2>6
  <2>7. CASE Got(f) /\ f.seq > srvSeq
    <3>1. srvParts.seq = f.seq /\ f.seg \in srvParts.segs /\ e.seq >= f.seq
      BY <1>1, <1>2, <2>7 DEF Got
    <3>2. CASE f.seq = e.seq
      BY <2>5, <3>1, <3>2
    <3>3. CASE f.seq < e.seq
      <4>1. f.seq \in (srvSeq + 1)..(e.seq - 1)
        BY <1>3, <2>1, <2>7, <3>3
      <4>2. QED
        BY <1>7, <2>2, <4>1
    <3>4. QED
      BY <1>3, <2>1, <3>1, <3>2, <3>3
  <2>8. QED
    BY <1>2, <1>3, <1>9, <2>1, <2>2, <2>3, <2>4, <2>6, <2>7 DEF Settled
<1>10. /\ phase' # "done" => Commands'
       /\ WireShape' /\ HeldShape' /\ NoGaps'
       /\ Wire' \subseteq Wire /\ Held' = Held
  BY <1>1, <1>9, Served
<1>11. Numbers'
  <2>1. \A i \in 1..Len(down) : down[i].kind = "ack" => down[i].seq <= srvSeq'
    <3>1. TAKE i \in 1..Len(down)
    <3>2. down[i] \in Reply
      BY DEF TypeOK, WireOK
    <3>3. down[i].seq \in Nat
      BY <3>2 DEF Reply
    <3>4. down[i].kind = "ack" => down[i].seq <= srvSeq
      BY DEF LineInv, Numbers
    <3>5. QED
      BY <1>3, <1>8, <3>3, <3>4
  <2>2. \A i \in 1..Len(down') : down'[i].kind = "ack" => down'[i].seq <= srvSeq'
    <3>1. CASE down' = down
      BY <2>1, <3>1
    <3>2. CASE full /\ down' = Append(down, Ack(e.seq))
      <4>1. down \in Seq(Reply) /\ Len(down) \in Nat
        BY DEF TypeOK, WireOK
      <4>2. \A i \in 1..Len(down') : (i \in 1..Len(down) /\ down'[i] = down[i]) \/ down'[i] = Ack(e.seq)
        BY <3>2, <4>1
      <4>3. Ack(e.seq).seq <= srvSeq'
        BY <1>1, <1>3, <3>2 DEF Ack
      <4>4. QED
        BY <2>1, <4>2, <4>3
    <3>3. QED
      BY <1>1, <3>1, <3>2 DEF Push
  <2>3. acked <= srvSeq' /\ srvSeq' < nextSeq /\ srvSeq' <= written
    BY <1>1, <1>3, <1>8, WayTypes DEF LineInv, Numbers
  <2>4. QED
    BY <1>1, <1>3, <1>8, <2>2, <2>3 DEF LineInv, Numbers
<1>12. Parts'
  <2>1. ASSUME phase = "send", NEW i \in 1..Len(sending)
        PROVE  /\ srvSeq' < sending[i].seq
               /\ e.seq = sending[i].seq => ~full /\ \A s \in segs : s < sending[i].seg
    <3> DEFINE x == sending[i]
    <3>1. Before(e, x) /\ srvSeq < x.seq
      BY <1>2, <2>1 DEF LineInv, WireShape, Unsent, Parts
    <3>2. Formed(x)
      <4>1. Len(replay) + i \in 1..Len(Pending) /\ Pending[Len(replay) + i] = sending[i]
        BY <2>1, PendingFacts DEF TypeOK
      <4>2. QED
        BY <4>1 DEF LineInv, HeldShape, Held
    <3>3. x.seq \in Nat /\ x.seg \in Nat /\ x.seg + 1 \in 1..Segments[x.seq]
      BY <3>2, FormedFields
    <3>4. ASSUME e.seq = x.seq PROVE ~full /\ \A s \in segs : s < x.seg
      <4>1. \A s \in segs : s < x.seg
        BY <1>3, <2>1, <3>1, <3>3, <3>4 DEF LineInv, Parts, Before
      <4>2. x.seg \in 0..(Segments[e.seq] - 1)
        BY <1>3, <3>3, <3>4
      <4>3. ~(x.seg < x.seg)
        BY <3>3
      <4>4. x.seg \notin segs
        BY <4>1, <4>3, Zenon
      <4>5. QED
        BY <1>3, <4>1, <4>2, <4>4
    <3>5. srvSeq' < x.seq
      BY <1>1, <1>3, <3>1, <3>3, <3>4 DEF Before
    <3>6. QED
      BY <3>4, <3>5
  <2>2. srvParts'.seq > srvSeq' => ~full
    BY <1>1, <1>3, <1>8
  <2>3. ~full => segs # 0..(Segments[e.seq] - 1)
    BY <1>3
  <2>4. QED
    BY <1>1, <1>3, <1>4, <1>8, <2>1, <2>2, <2>3 DEF Parts
<1>13. Unfinished'
  BY <1>1, <1>5, <1>8, <1>10 DEF LineInv, Unfinished
<1>14. CASE full
  <2>1. srvLog \in Seq(Nat) /\ Len(srvLog) \in Nat
    BY DEF TypeOK, ServerOK
  <2>2. srvLog' = Append(srvLog, e.seq) /\ srvSeq' = e.seq
    BY <1>1, <1>3, <1>14
  <2>3. /\ Len(srvLog') = Len(srvLog) + 1 /\ srvLog'[Len(srvLog) + 1] = e.seq
        /\ \A i \in 1..Len(srvLog) : srvLog'[i] = srvLog[i]
        /\ DOMAIN srvLog' = 1..(Len(srvLog) + 1) /\ DOMAIN srvLog = 1..Len(srvLog)
    BY <1>3, <2>1, <2>2
  <2>4. Accepted \subseteq Accepted' /\ e.seq \in Accepted'
    <3>1. \A i \in 1..Len(srvLog) : i \in 1..(Len(srvLog) + 1) /\ srvLog'[i] = srvLog[i]
      BY <2>1, <2>3
    <3>2. Len(srvLog) + 1 \in 1..(Len(srvLog) + 1)
      BY <2>1
    <3>3. QED
      BY <2>3, <3>1, <3>2 DEF Accepted
  <2>5. ASSUME NEW n \in 1..e.seq PROVE n \in lost \cup Accepted'
    <3>1. CASE n <= srvSeq
      BY <1>3, <2>4, <3>1 DEF LineInv, Logged
    <3>2. CASE n > srvSeq /\ n < e.seq
      BY <1>3, <1>7, <3>2
    <3>3. QED
      BY <1>3, <2>4, <3>1, <3>2
  <2>6. Logged'
    <3>1. srvLog' # <<>>
      BY <2>1, <2>3
    <3>2. srvClosed => 1..written \subseteq lost \cup Accepted'
      BY <2>4 DEF LineInv, Logged
    <3>3. srvSeq' = srvLog'[Len(srvLog')]
      BY <2>2, <2>3
    <3>4. 1..srvSeq' \subseteq lost' \cup Accepted'
      BY <1>1, <2>2, <2>5
    <3>5. UNCHANGED <<srvClosed, shutdownSent, phase, written, lost>>
      BY <1>1
    <3>6. srvClosed => shutdownSent /\ phase = "done"
      BY DEF LineInv, Logged
    <3>7. QED
      BY <3>1, <3>2, <3>3, <3>4, <3>5, <3>6 DEF Logged
  <2>7. e.seq \in (srvSeq + 1)..written
    BY <1>1, <1>3
  <2>8. QED
    BY <1>1, <1>6, <1>7, <1>10, <1>11, <1>12, <1>13, <1>14, <2>2, <2>6, <2>7 DEF LineInv
<1>15. CASE ~full
  <2>1. UNCHANGED <<srvLog, srvSeq, srvClosed, shutdownSent, phase, written, lost>>
    BY <1>1, <1>15
  <2>2. Accepted' = Accepted
    BY <2>1 DEF Accepted
  <2>3. Logged'
    BY <2>1, <2>2 DEF LineInv, Logged
  <2>4. QED
    BY <1>10, <1>11, <1>12, <1>13, <2>1, <2>3 DEF LineInv
<1>16. QED
  BY <1>14, <1>15

-----------------------------------------------------------------------------
\* One step, by cases on the action.
LEMMA LineStep ==
    TypeOK /\ QueueInv /\ LineInv /\ [Next]_vars => LineInv'
<1> SUFFICES ASSUME TypeOK, QueueInv, LineInv, [Next]_vars PROVE LineInv'
  OBVIOUS
<1>1. CASE \/ HandshakeFails \/ ReplayFails \/ ReadFails \/ PingFails \/ PongTimeout
           \/ ReceiveMessage \/ ReceiveChunk \/ ReceiveMismatch \/ ReceiveBad
           \/ DropStream \/ ReplayDone \/ ServerSend \/ ServerGarbage \/ UNCHANGED vars
  BY <1>1, LoopLeaves
<1>2. CASE Connect \/ HandshakeDone
  BY <1>2, NewConnection
<1>3. CASE WriteLine
  BY <1>3, LineWritten
<1>4. CASE Shutdown
  BY <1>4, ShutdownAsked
<1>5. CASE TakePayload
  BY <1>5, PayloadTaken
<1>6. CASE TakeNewline
  BY <1>6, LineNumbered
<1>7. CASE RefuseLine
  BY <1>7, LineRefused
<1>8. CASE ReplayNext
  BY <1>8, EnvelopeReplayed
<1>9. CASE SendSegment
  BY <1>9, SegmentSent
<1>10. CASE SegmentFails
  BY <1>10, SegmentLost
<1>11. CASE TakeShutdown
  BY <1>11, CloseSent
<1>12. CASE ReceiveAck
  BY <1>12, AckHandled
<1>13. CASE NetworkBreaks
  BY <1>13, BreakSurvived
<1>14. CASE ServerDuplicate \/ ServerClosed
  BY <1>14, NothingNew
<1>15. CASE ServerAccept
  BY <1>15, MessageServed
<1>16. QED
  BY <1>1, <1>2, <1>3, <1>4, <1>5, <1>6, <1>7, <1>8, <1>9, <1>10, <1>11, <1>12, <1>13,
     <1>14, <1>15 DEF Next, ClientLoop, Environment, Server

\* The strengthening holds in every reachable state.
LEMMA LineInvariant == Spec => []LineInv
<1>1. Init => LineInv
  <2> SUFFICES ASSUME Init PROVE LineInv
    OBVIOUS
  <2> USE DEF Init
  <2>1. Wire = {} /\ Pending = <<>> /\ Held = {} /\ Accepted = {} /\ Unsent = {} /\ Through = 0
    BY DEF Wire, Pending, Held, Accepted, Unsent, Through
  <2>2. Commands
    BY DEF Commands, Taken
  <2>3. WireShape /\ HeldShape /\ Numbers /\ Parts
    BY <2>1 DEF WireShape, HeldShape, Numbers, Parts
  <2>4. Unfinished /\ Logged /\ NoGaps
    BY <2>1 DEF Unfinished, Logged, NoGaps
  <2>5. QED
    BY <2>2, <2>3, <2>4 DEF LineInv
<1>2. QED
  BY <1>1, LineStep, TypeCorrect, QueueInvariant, PTL DEF Spec

\* End to end: whatever breaks, a line with a number was accepted by the server,
\* is held whole for the next replay or was abandoned; and a server that sees
\* the stream close has all of them that were not.
THEOREM NothingLostSilently == Spec => []NoSilentLoss
<1>1. TypeOK /\ QueueInv /\ LineInv => NoSilentLoss
  <2> SUFFICES ASSUME TypeOK, QueueInv, LineInv PROVE NoSilentLoss
    OBVIOUS
  <2>1. ASSUME phase # "done", NEW line \in 1..written, line < nextSeq,
               line \notin lost \cup Accepted
        PROVE  HeldWhole(line, line)
    <3>1. line > srvSeq /\ line \in 1..NumLines /\ Segments[line] \in Nat
      BY <2>1, WayTypes DEF LineInv, Logged
    <3>2. Segments[line] > 0
      BY <2>1, <3>1 DEF LineInv, Numbers
    <3>3. ASSUME NEW s \in 1..Segments[line]
          PROVE  \E i \in 1..Len(Pending) : Pending[i] = Split(line, line)[s]
      <4>1. E(line, s) \in Held
        BY <2>1, <3>1, Reached DEF LineInv
      <4>2. QED
        BY <4>1 DEF Held, E
    <3>4. QED
      BY <3>2, <3>3 DEF HeldWhole
  <2>2. srvClosed => 1..written \subseteq lost \cup Accepted
    BY DEF LineInv, Logged
  <2>3. QED
    BY <2>1, <2>2 DEF NoSilentLoss
<1>2. QED
  BY <1>1, TypeCorrect, QueueInvariant, LineInvariant, PTL

\* The stream implements the channel of lines: every step of the loop, of the
\* network and of the server writes a line, delivers the next one that was not
\* abandoned, abandons one the server has not, or changes nothing of it.
THEOREM StreamIsALineChannel == Spec => ChannelSpec
<1> USE DEF Channel!Latest
<1>1. Init => Channel!Init
  BY DEF Init, Channel!Init
<1>2. TypeOK /\ QueueInv /\ LineInv /\ [Next]_vars => [Channel!Next]_<<written, srvLog, lost>>
  <2> SUFFICES ASSUME TypeOK, QueueInv, LineInv, [Next]_vars
               PROVE  Channel!Next \/ UNCHANGED <<written, srvLog, lost>>
    OBVIOUS
  <2>1. Channel!Latest = srvSeq
    BY DEF LineInv, Logged
  <2>2. ASSUME NEW n \in (srvSeq + 1)..written, lost' = lost \cup {n},
               UNCHANGED <<written, srvLog>>
        PROVE  Channel!Abandon
    BY <2>1, <2>2 DEF Channel!Abandon
  <2>3. CASE WriteLine
    BY <2>3 DEF WriteLine, Channel!Write, Channel!Next, client, server
  <2>4. CASE ServerAccept
    <3>1. /\ UNCHANGED <<written, lost>>
          /\ \/ srvLog' = srvLog
             \/ \E n \in (srvSeq + 1)..written :
                   /\ n \notin lost /\ (srvSeq + 1)..(n - 1) \subseteq lost
                   /\ srvLog' = Append(srvLog, n)
      BY <2>4, MessageServed
    <3>2. QED
      BY <2>1, <3>1 DEF Channel!Deliver, Channel!Next
  <2>5. CASE RefuseLine
    <3>1. lost' = lost \cup {nextSeq} /\ nextSeq \in (srvSeq + 1)..written
      BY <2>5, LineRefused DEF RefuseLine
    <3>2. UNCHANGED <<written, srvLog>>
      BY <2>5 DEF RefuseLine, user, server
    <3>3. QED
      BY <2>2, <3>1, <3>2 DEF Channel!Next
  <2>6. CASE SegmentFails
    <3>1. lost' = lost \/ \E n \in (srvSeq + 1)..written : lost' = lost \cup {n}
      BY <2>6, SegmentLost
    <3>2. UNCHANGED <<written, srvLog>>
      BY <2>6 DEF SegmentFails, user, server
    <3>3. QED
      BY <2>2, <3>1, <3>2 DEF Channel!Next
  <2>7. CASE Shutdown \/ DropStream \/ NetworkBreaks \/ ServerGarbage
    BY <2>7 DEF Shutdown, DropStream, NetworkBreaks, ServerGarbage, user, client, server
  <2>8. CASE ServerDuplicate \/ ServerClosed \/ ServerSend
    BY <2>8 DEF ServerDuplicate, ServerClosed, ServerSend, user, client, server
  <2>9. CASE \/ Connect \/ HandshakeDone \/ HandshakeFails \/ ReplayNext \/ ReplayFails
             \/ ReplayDone \/ TakePayload \/ TakeNewline \/ SendSegment \/ TakeShutdown
    BY <2>9 DEF Connect, HandshakeDone, HandshakeFails, ReplayNext, ReplayFails, ReplayDone,
       TakePayload, TakeNewline, SendSegment, TakeShutdown, user, client, server
  <2>10. CASE \/ ReceiveMessage \/ ReceiveChunk \/ ReceiveMismatch \/ ReceiveAck \/ ReceiveBad
              \/ ReadFails \/ PingFails \/ PongTimeout
    BY <2>10 DEF ReceiveMessage, ReceiveChunk, ReceiveMismatch, ReceiveAck, ReceiveBad,
       ReadFails, PingFails, PongTimeout, user, client, server
  <2>11. CASE UNCHANGED vars
    BY <2>11 DEF vars, user, client, server
  <2>12. QED
    BY <2>3, <2>4, <2>5, <2>6, <2>7, <2>8, <2>9, <2>10, <2>11
       DEF Next, ClientLoop, Environment, Server
<1>3. QED
  BY <1>1, <1>2, TypeCorrect, QueueInvariant, LineInvariant, PTL
     DEF Spec, ChannelSpec, Channel!Spec

-----------------------------------------------------------------------------
(***************************************************************************)
(* The way of a server message.                                            *)
(***************************************************************************)

\* A message that fits one envelope is never split.
WholeOrSplit == \A m \in 1..NumDown : 1 \in DownSplits[m] => DownSplits[m] = {1}

Behind(r) ==
    IF r.seg + 1 = r.count THEN [msg |-> r.seq + 1, seg |-> 0, count |-> 0]
    ELSE [msg |-> r.seq, seg |-> r.seg + 1, count |-> r.count]

\* The envelope of a message that stands at p.
SentAt(r, p) ==
    /\ r.seq = p.msg /\ r.seg = p.seg /\ r.seq \in 1..NumDown
    /\ r.count \in DownSplits[r.seq] /\ r.seg < r.count
    /\ p.seg > 0 => r.count = p.count
    /\ r.cursor = IF r.seg + 1 = r.count \/ r.seq \in Stamped THEN {Behind(r)} ELSE {}

WellPlaced(p) ==
    p.seg > 0 => p.msg \in 1..NumDown /\ p.count \in DownSplits[p.msg] /\ p.seg < p.count

Due == Len(inbound) + 1

\* The reader can go on at p: it has what is before.
Reach(p) ==
    /\ p.msg = Due /\ cursor.seg <= p.seg
    /\ p.seg > 0 => /\ Due \in 1..NumDown /\ assemblies[Due].count = p.count
                    /\ 0..(p.seg - 1) \subseteq assemblies[Due].segs

\* An assembly is the beginning of the message that is due.
Beginning(m) ==
    /\ m = Due /\ assemblies[m].count \in DownSplits[m]
    /\ \E k \in 1..(assemblies[m].count - 1) : assemblies[m].segs = 0..(k - 1)
    /\ m \in Stamped => cursor.seg > 0

\* Positions along what is on the way to the reader, up to the server's own.
Route(path) ==
    /\ Len(path) = Len(down) + 1 /\ Reach(path[1])
    /\ \A i \in 1..Len(down) :
          IF down[i].kind = "message" THEN SentAt(down[i], path[i]) /\ path[i + 1] = Behind(down[i])
          ELSE path[i + 1] = path[i]
    /\ wsUp => path[Len(path)] = srvPos

MessageInv ==
    /\ \A i \in 1..Len(inbound) : inbound[i] = i
    /\ \A m \in 1..NumDown : assemblies[m] = NoAssembly \/ Beginning(m)
    /\ Reach(cursor) /\ WellPlaced(srvPos)
    /\ phase \notin {"connect", "done"} => \E path \in Seq(Position) : Route(path)

\* The reader stands where it stood, and the replies are as before, fewer or
\* joined by an acknowledgement or an undecodable payload.
LEMMA ReaderWaits ==
    ASSUME TypeOK, MessageInv, UNCHANGED <<reader, srvPos>>,
           phase' \notin {"connect", "done"} =>
               /\ phase \notin {"connect", "done"}
               /\ wsUp' => wsUp
               /\ \/ down' = down
                  \/ ~wsUp' /\ \E i \in 0..Len(down) : down' = SubSeq(down, 1, i)
                  \/ \E r \in Reply : r.kind # "message" /\ down' = Append(down, r)
    PROVE  MessageInv'
<1>1. cursor' = cursor /\ assemblies' = assemblies /\ inbound' = inbound /\ srvPos' = srvPos
  BY DEF reader
<1>2. \A p : Reach(p)' = Reach(p)
  BY <1>1 DEF Reach, Due
<1>3. ASSUME phase' \notin {"connect", "done"}
      PROVE  \E path \in Seq(Position) : Route(path)'
  <2>1. PICK path \in Seq(Position) : Route(path)
    BY <1>3 DEF MessageInv
  <2>2. down \in Seq(Reply) /\ Len(down) \in Nat /\ Len(path) = Len(down) + 1
    BY <2>1 DEF TypeOK, WireOK, Route
  <2>3. CASE down' = down
    <3>1. Route(path)'
      BY <1>1, <1>2, <1>3, <2>1, <2>3 DEF Route
    <3>2. QED
      BY <3>1
  <2>4. ASSUME ~wsUp', NEW k \in 0..Len(down), down' = SubSeq(down, 1, k)
        PROVE  \E q \in Seq(Position) : Route(q)'
    <3> DEFINE q == SubSeq(path, 1, k + 1)
    <3>1. Len(down') = k /\ \A i \in 1..k : down'[i] = down[i] /\ i \in 1..Len(down)
      BY <2>2, <2>4
    <3>2. q \in Seq(Position) /\ Len(q) = k + 1 /\ \A i \in 1..(k + 1) : q[i] = path[i]
      BY <2>2, <2>4
    <3>3. q[1] = path[1] /\ \A i \in 1..k : q[i] = path[i] /\ q[i + 1] = path[i + 1]
      BY <2>4, <3>2
    <3> HIDE DEF q
    <3>4. Route(q)'
      BY <1>2, <2>1, <2>4, <3>1, <3>2, <3>3 DEF Route
    <3>5. QED
      BY <3>2, <3>4
  <2>5. ASSUME NEW r \in Reply, r.kind # "message", down' = Append(down, r)
        PROVE  \E q \in Seq(Position) : Route(q)'
    <3> DEFINE q == Append(path, path[Len(path)])
    <3>1. /\ Len(down') = Len(down) + 1 /\ down'[Len(down) + 1] = r
          /\ \A i \in 1..Len(down) : down'[i] = down[i]
      BY <2>2, <2>5
    <3>2. path[Len(path)] \in Position
      BY <2>2
    <3>3. /\ q \in Seq(Position) /\ Len(q) = Len(down) + 2
          /\ \A i \in 1..(Len(down) + 1) : q[i] = path[i]
          /\ q[Len(down) + 2] = path[Len(down) + 1]
      BY <2>2, <3>2
    <3> HIDE DEF q
    <3>4. q[1] = path[1] /\ \A i \in 1..Len(down) : q[i] = path[i] /\ q[i + 1] = path[i + 1]
      BY <2>2, <3>3
    <3>5. \A i \in 1..Len(down') : i \in 1..Len(down) \/ i = Len(down) + 1
      BY <2>2, <3>1
    <3>6. \A i \in 1..Len(down') :
            IF down'[i].kind = "message" THEN SentAt(down'[i], q[i]) /\ q[i + 1] = Behind(down'[i])
            ELSE q[i + 1] = q[i]
      <4>1. ASSUME NEW i \in 1..Len(down)
            PROVE  IF down'[i].kind = "message" THEN SentAt(down'[i], q[i]) /\ q[i + 1] = Behind(down'[i])
                   ELSE q[i + 1] = q[i]
        BY <2>1, <3>1, <3>4, <4>1 DEF Route
      <4>2. q[Len(down) + 2] = q[Len(down) + 1] /\ down'[Len(down) + 1].kind # "message"
        BY <2>2, <2>5, <3>1, <3>3
      <4>3. (Len(down) + 1) + 1 = Len(down) + 2
        BY <2>2
      <4>4. QED
        BY <3>5, <4>1, <4>2, <4>3
    <3>7. Len(q) = Len(down') + 1 /\ Reach(q[1])' /\ (wsUp' => q[Len(q)] = srvPos')
      BY <1>1, <1>2, <1>3, <2>1, <2>2, <3>1, <3>3, <3>4 DEF Route
    <3>8. Route(q)'
      BY <3>6, <3>7 DEF Route
    <3>9. QED
      BY <3>3, <3>8
  <2>6. QED
    BY <1>3, <2>3, <2>4, <2>5
<1>4. QED
  BY <1>1, <1>2, <1>3 DEF MessageInv, Beginning, WellPlaced, Due

\* What an assembly tells of a position within its message.
LEMMA PositionFits ==
    ASSUME TypeOK, MessageInv, NEW p \in Position, Reach(p)
    PROVE  WellPlaced(p)
<1> SUFFICES ASSUME p.seg > 0 PROVE p.msg \in 1..NumDown /\ p.count \in DownSplits[p.msg] /\ p.seg < p.count
  BY DEF WellPlaced
<1>1. /\ p.msg = Due /\ Due \in 1..NumDown /\ assemblies[Due].count = p.count
      /\ 0..(p.seg - 1) \subseteq assemblies[Due].segs /\ p.seg \in Nat
  BY DEF Reach, Position
<1>2. assemblies[Due].segs # {}
  <2>1. 0 \in 0..(p.seg - 1)
    BY <1>1
  <2>2. QED
    BY <1>1, <2>1
<1>3. Beginning(Due)
  BY <1>1, <1>2 DEF MessageInv, NoAssembly
<1>4. assemblies[Due].count \in Nat
  BY <1>1 DEF TypeOK, ReaderOK
<1>5. PICK k \in 1..(assemblies[Due].count - 1) : assemblies[Due].segs = 0..(k - 1)
  BY <1>3 DEF Beginning
<1>6. p.seg - 1 \in 0..(k - 1)
  <2>1. p.seg - 1 \in 0..(p.seg - 1)
    BY <1>1
  <2>2. QED
    BY <1>1, <1>5, <2>1
<1>7. p.seg < p.count
  BY <1>1, <1>4, <1>5, <1>6
<1>8. QED
  BY <1>1, <1>3, <1>7 DEF Beginning

\* A new connection starts at the cursor.
LEMMA Resumed ==
    ASSUME TypeOK, MessageInv, Connect
    PROVE  MessageInv'
<1>1. UNCHANGED <<cursor, assemblies, inbound>> /\ srvPos' = cursor /\ down' = <<>>
  BY DEF Connect, reader
<1>2. cursor \in Position
  BY DEF TypeOK, ReaderOK
<1>3. \A p : Reach(p)' = Reach(p)
  BY <1>1 DEF Reach, Due
<1>4. WellPlaced(cursor) /\ Reach(cursor)
  BY <1>2, PositionFits DEF MessageInv
<1>5. <<cursor>> \in Seq(Position) /\ Len(<<cursor>>) = 1 /\ <<cursor>>[1] = cursor
  BY <1>2
<1>6. Route(<<cursor>>)'
  BY <1>1, <1>3, <1>4, <1>5 DEF Route
<1>7. QED
  BY <1>1, <1>3, <1>4, <1>5, <1>6 DEF MessageInv, Beginning, WellPlaced, Due

\* The server sends its next envelope.
LEMMA MessageSent ==
    ASSUME TypeOK, TypeOK', MessageInv, ServerSend
    PROVE  MessageInv'
<1>1. /\ UNCHANGED <<cursor, assemblies, inbound, phase, wsUp>> /\ wsUp
      /\ phase \notin {"connect", "done"} /\ srvPos.msg <= NumDown
  BY DEF ServerSend, reader
<1>2. PICK count \in IF srvPos.seg = 0 THEN DownSplits[srvPos.msg] ELSE {srvPos.count} :
        LET last == srvPos.seg + 1 = count
            next == IF last THEN [msg |-> srvPos.msg + 1, seg |-> 0, count |-> 0]
                            ELSE [msg |-> srvPos.msg, seg |-> srvPos.seg + 1, count |-> count]
        IN  /\ down' = Append(down, [kind |-> "message", seq |-> srvPos.msg,
                                     seg |-> srvPos.seg, count |-> count,
                                     cursor |-> IF last \/ srvPos.msg \in Stamped
                                                THEN {next} ELSE {}])
            /\ srvPos' = next
  BY DEF ServerSend
<1>3. /\ srvPos \in Position /\ srvPos' \in Position
      /\ srvPos.msg \in Nat \ {0} /\ srvPos.seg \in Nat /\ srvPos.count \in Nat
  BY DEF TypeOK, ServerOK, Position
<1>4. srvPos.msg \in 1..NumDown
  BY <1>1, <1>3, Lengths
<1>5. count \in DownSplits[srvPos.msg] /\ count \in Nat \ {0} /\ srvPos.seg < count
      /\ (srvPos.seg > 0 => count = srvPos.count)
  <2>1. WellPlaced(srvPos) /\ DownSplits[srvPos.msg] \in SUBSET (Nat \ {0})
    BY <1>4, Lengths DEF MessageInv
  <2>2. CASE srvPos.seg = 0
    BY <1>2, <2>1, <2>2
  <2>3. CASE srvPos.seg > 0
    BY <1>2, <1>3, <2>1, <2>3 DEF WellPlaced
  <2>4. QED
    BY <1>3, <2>2, <2>3
<1> DEFINE last == srvPos.seg + 1 = count
           next == IF last THEN [msg |-> srvPos.msg + 1, seg |-> 0, count |-> 0]
                           ELSE [msg |-> srvPos.msg, seg |-> srvPos.seg + 1, count |-> count]
           r == [kind |-> "message", seq |-> srvPos.msg, seg |-> srvPos.seg, count |-> count,
                 cursor |-> IF last \/ srvPos.msg \in Stamped THEN {next} ELSE {}]
<1>6. down' = Append(down, r) /\ srvPos' = next
  BY <1>2
<1>7. /\ Behind(r) = next /\ SentAt(r, srvPos) /\ r.kind = "message"
  BY <1>4, <1>5 DEF Behind, SentAt
<1>8. WellPlaced(next)
  BY <1>3, <1>4, <1>5 DEF WellPlaced
<1> HIDE DEF r, next, last
<1>9. \A p : Reach(p)' = Reach(p)
  BY <1>1 DEF Reach, Due
<1>10. \E q \in Seq(Position) : Route(q)'
  <2>1. PICK path \in Seq(Position) : Route(path)
    BY <1>1 DEF MessageInv
  <2>2. down \in Seq(Reply) /\ down' \in Seq(Reply) /\ Len(down) \in Nat /\ Len(path) = Len(down) + 1
    BY <2>1 DEF TypeOK, WireOK, Route
  <2> PICK pos : pos = next
    OBVIOUS
  <2> DEFINE q == Append(path, pos)
  <2>3. /\ Len(down') = Len(down) + 1 /\ down'[Len(down) + 1] = r
        /\ \A i \in 1..Len(down) : down'[i] = down[i]
    BY <1>6, <2>2
  <2>4. pos \in Position
    BY <1>3, <1>6
  <2>5. /\ q \in Seq(Position) /\ Len(q) = Len(down) + 2
        /\ \A i \in 1..(Len(down) + 1) : q[i] = path[i]
        /\ q[Len(down) + 2] = pos
    BY <2>2, <2>4
  <2> HIDE DEF q
  <2>6. /\ q[1] = path[1] /\ \A i \in 1..Len(down) : q[i] = path[i] /\ q[i + 1] = path[i + 1]
        /\ q[Len(down) + 1] = srvPos
    <3>1. path[Len(path)] = srvPos
      BY <1>1, <2>1 DEF Route
    <3>2. QED
      BY <2>2, <2>5, <3>1
  <2>7. ASSUME NEW i \in 1..Len(down')
        PROVE  IF down'[i].kind = "message" THEN SentAt(down'[i], q[i]) /\ q[i + 1] = Behind(down'[i])
               ELSE q[i + 1] = q[i]
    <3>1. CASE i \in 1..Len(down)
      BY <2>1, <2>3, <2>6, <3>1 DEF Route
    <3>2. CASE i = Len(down) + 1
      <4>1. q[i] = srvPos /\ q[i + 1] = next /\ down'[i] = r
        BY <2>2, <2>3, <2>5, <2>6, <3>2
      <4>2. QED
        BY <1>7, <4>1
    <3>3. QED
      BY <2>2, <2>3, <3>1, <3>2
  <2>8. Len(q) = Len(down') + 1 /\ Reach(q[1])' /\ q[Len(q)] = srvPos'
    BY <1>6, <1>9, <2>1, <2>2, <2>3, <2>5, <2>6 DEF Route
  <2>9. Route(q)'
    BY <2>7, <2>8 DEF Route
  <2>10. QED
    BY <2>5, <2>9
<1>11. WellPlaced(srvPos)'
  BY <1>6, <1>8 DEF WellPlaced
<1>12. QED
  BY <1>1, <1>9, <1>10, <1>11 DEF MessageInv, Beginning, Due

\* A reply is read, and the reader goes on behind it.
LEMMA ReplyRead ==
    ASSUME TypeOK, NEW path \in Seq(Position), Route(path), down # <<>>, down' = Tail(down),
           UNCHANGED <<wsUp, srvPos>>, Reach(path[2])'
    PROVE  \E q \in Seq(Position) : Route(q)'
<1>1. down \in Seq(Reply) /\ Len(down) \in Nat \ {0} /\ Len(path) = Len(down) + 1
  BY DEF TypeOK, WireOK, Route
<1>2. /\ Len(down') = Len(down) - 1
      /\ \A i \in 1..Len(down') : i + 1 \in 1..Len(down) /\ down'[i] = down[i + 1]
  BY <1>1, HeadTailProperties
<1> DEFINE q == Tail(path)
<1>3. path # <<>>
  BY <1>1
<1>4. /\ q \in Seq(Position) /\ Len(q) = Len(down)
      /\ \A i \in 1..Len(q) : q[i] = path[i + 1]
  BY <1>1, <1>3, HeadTailProperties
<1> HIDE DEF q
<1>5. q[1] = path[2] /\ q[Len(q)] = path[Len(path)]
  BY <1>1, <1>4
<1>6. ASSUME NEW i \in 1..Len(down')
      PROVE  IF down'[i].kind = "message" THEN SentAt(down'[i], q[i]) /\ q[i + 1] = Behind(down'[i])
             ELSE q[i + 1] = q[i]
  <2>1. i + 1 \in 1..Len(down) /\ down'[i] = down[i + 1]
    BY <1>2
  <2>2. i \in 1..Len(q) /\ i + 1 \in 1..Len(q)
    BY <1>1, <1>2, <1>4
  <2>3. q[i] = path[i + 1] /\ q[i + 1] = path[(i + 1) + 1]
    BY <1>4, <2>2
  <2>4. QED
    BY <2>1, <2>3 DEF Route
<1>7. Len(q) = Len(down') + 1 /\ Reach(q[1])' /\ (wsUp' => q[Len(q)] = srvPos')
  BY <1>1, <1>2, <1>4, <1>5 DEF Route
<1>8. Route(q)'
  BY <1>6, <1>7 DEF Route
<1>9. QED
  BY <1>4, <1>8

\* The next message envelope belongs to the message that is due, and the reader
\* has the segments before it.
LEMMA NextMessage ==
    ASSUME TypeOK, MessageInv, NextReply("message"), NEW r, r = Head(down)
    PROVE  /\ \E path \in Seq(Position) : Route(path) /\ path[2] = Behind(r)
           /\ r.seq = Due /\ Due \in 1..NumDown /\ Due \in Nat
           /\ r.seg \in Nat /\ r.count \in Nat /\ r.seg < r.count /\ r.count \in DownSplits[Due]
           /\ r.cursor = IF r.seg + 1 = r.count \/ Due \in Stamped THEN {Behind(r)} ELSE {}
           /\ cursor.seg <= r.seg /\ cursor.seg \in Nat
           /\ r.seg > 0 => /\ assemblies[Due].count = r.count
                           /\ 0..(r.seg - 1) \subseteq assemblies[Due].segs
           /\ assemblies[Due].count \in Nat /\ assemblies[Due] \in [count : Nat, segs : SUBSET Nat]
<1>1. down \in Seq(Reply) /\ Len(down) \in Nat \ {0} /\ r = down[1] /\ 1 \in 1..Len(down)
      /\ phase = "open" /\ r.kind = "message"
  BY DEF TypeOK, WireOK, NextReply
<1>2. PICK path \in Seq(Position) : Route(path)
  BY <1>1 DEF MessageInv
<1>3. SentAt(r, path[1]) /\ path[1 + 1] = Behind(r) /\ Reach(path[1])
  BY <1>1, <1>2 DEF Route
<1>4. r \in Reply /\ cursor \in Position /\ assemblies \in [1..NumDown -> [count : Nat, segs : SUBSET Nat]]
      /\ NumDown \in Nat
  BY <1>1, Lengths DEF TypeOK, ReaderOK
<1>5. r.seg \in Nat /\ r.count \in Nat /\ cursor.seg \in Nat
  BY <1>4 DEF Reply, Position
<1>6. r.seq = Due /\ Due \in 1..NumDown /\ Due \in Nat
  BY <1>3, <1>4 DEF SentAt, Reach
<1>7. assemblies[Due] \in [count : Nat, segs : SUBSET Nat]
  BY <1>4, <1>6
<1>8. path[2] = Behind(r)
  BY <1>3
<1>9. /\ r.count \in DownSplits[Due] /\ r.seg < r.count /\ cursor.seg <= r.seg
      /\ r.cursor = IF r.seg + 1 = r.count \/ Due \in Stamped THEN {Behind(r)} ELSE {}
  BY <1>3, <1>6 DEF SentAt, Reach
<1>10. r.seg > 0 => /\ assemblies[Due].count = r.count
                    /\ 0..(r.seg - 1) \subseteq assemblies[Due].segs
  BY <1>3 DEF SentAt, Reach
<1>11. assemblies[Due].count \in Nat
  BY <1>7
<1>12. \E q \in Seq(Position) : Route(q) /\ q[2] = Behind(r)
  BY <1>2, <1>8
<1>13. QED
  BY <1>5, <1>6, <1>7, <1>9, <1>10, <1>11, <1>12

\* A message is complete: the next one is due, and nothing of it is here yet.
LEMMA Delivered ==
    ASSUME TypeOK, MessageInv, NextReply("message"), NEW r, r = Head(down),
           r.seg + 1 = r.count, AdvanceCursor(r), inbound' = Append(inbound, r.seq),
           down' = Tail(down), UNCHANGED <<phase, wsUp, srvPos>>,
           \A m \in 1..NumDown : assemblies'[m] = IF m = Due THEN NoAssembly ELSE assemblies[m]
    PROVE  MessageInv'
<1>1. /\ \E path \in Seq(Position) : Route(path) /\ path[2] = Behind(r)
      /\ r.seq = Due /\ r.cursor = {Behind(r)} /\ Due \in Nat
  BY NextMessage
<1>2. inbound \in Seq(Nat) /\ Len(inbound) \in Nat
  BY DEF TypeOK, ReaderOK
<1>3. /\ Len(inbound') = Due /\ Due' = Due + 1 /\ inbound'[Due] = Due
      /\ \A i \in 1..Len(inbound) : inbound'[i] = inbound[i]
  BY <1>1, <1>2 DEF Due
<1>4. \A i \in 1..Len(inbound') : inbound'[i] = i
  BY <1>2, <1>3 DEF MessageInv, Due
<1>5. cursor' = Behind(r) /\ Behind(r) = [msg |-> Due + 1, seg |-> 0, count |-> 0]
  BY <1>1 DEF AdvanceCursor, Behind
<1>6. Reach(Behind(r))' /\ Behind(r)' = Behind(r)
  <2>1. Behind(r).msg = Due' /\ Behind(r).seg = 0 /\ cursor'.seg = 0
    BY <1>3, <1>5
  <2>2. QED
    BY <2>1 DEF Reach, Behind
<1>7. \A m \in 1..NumDown : assemblies'[m] = NoAssembly
  BY DEF MessageInv, Beginning
<1>8. phase' \notin {"connect", "done"} => \E q \in Seq(Position) : Route(q)'
  <2>1. PICK path \in Seq(Position) : Route(path) /\ path[2] = Behind(r)
    BY <1>1
  <2>2. Reach(path[2])' /\ down # <<>>
    <3>1. PICK p : p = path[2]
      OBVIOUS
    <3>2. Reach(p)'
      BY <1>3, <1>5, <2>1, <3>1 DEF Reach
    <3>3. QED
      BY <3>1, <3>2 DEF NextReply
  <2>3. QED
    BY <2>1, <2>2, ReplyRead
<1>9. QED
  BY <1>4, <1>5, <1>6, <1>7, <1>8 DEF MessageInv, WellPlaced, NoAssembly

\* A segment that does not complete its message.
LEMMA SegmentKept ==
    ASSUME TypeOK, MessageInv, NextReply("message"), NEW r, r = Head(down),
           r.seg + 1 < r.count, AdvanceCursor(r), down' = Tail(down),
           UNCHANGED <<phase, wsUp, srvPos, inbound>>,
           NEW a, a.count = r.count, a.segs = assemblies[Due].segs \cup {r.seg},
           assemblies[Due].count \in {0, r.count},
           \A m \in 1..NumDown : assemblies'[m] = IF m = Due THEN a ELSE assemblies[m]
    PROVE  MessageInv'
<1>1. /\ \E path \in Seq(Position) : Route(path) /\ path[2] = Behind(r)
      /\ r.seq = Due /\ Due \in 1..NumDown /\ Due \in Nat
      /\ r.seg \in Nat /\ r.count \in Nat /\ r.count \in DownSplits[Due]
      /\ r.cursor = (IF Due \in Stamped THEN {Behind(r)} ELSE {})
      /\ cursor.seg <= r.seg /\ cursor.seg \in Nat
      /\ r.seg > 0 => /\ assemblies[Due].count = r.count
                      /\ 0..(r.seg - 1) \subseteq assemblies[Due].segs
  <2>1. r.cursor = IF r.seg + 1 = r.count \/ Due \in Stamped THEN {Behind(r)} ELSE {}
    BY NextMessage
  <2>2. r.seg \in Nat /\ r.count \in Nat
    BY NextMessage
  <2>3. r.seg + 1 # r.count
    BY <2>2
  <2>4. QED
    BY <2>1, <2>3, NextMessage
<1>2. Due' = Due
  BY DEF Due
<1>3. Behind(r) = [msg |-> Due, seg |-> r.seg + 1, count |-> r.count]
  BY <1>1 DEF Behind
<1>4. 0..r.seg \subseteq a.segs /\ assemblies[Due].segs \subseteq a.segs
  <2>1. ASSUME NEW s \in 0..r.seg PROVE s \in a.segs
    <3>1. s = r.seg \/ (r.seg > 0 /\ s \in 0..(r.seg - 1))
      BY <1>1
    <3>2. QED
      BY <1>1, <3>1
  <2>2. QED
    BY <2>1
<1>5. cursor' = IF Due \in Stamped THEN Behind(r) ELSE cursor
  BY <1>1 DEF AdvanceCursor
<1>6. assemblies'[Due] = a /\ \A m \in 1..NumDown : m # Due => assemblies'[m] = NoAssembly
  BY <1>1 DEF MessageInv, Beginning
<1>7. cursor'.seg <= r.seg + 1 /\ cursor'.seg \in Nat /\ (Due \in Stamped => cursor'.seg > 0)
  BY <1>1, <1>3, <1>5
<1>8. ASSUME NEW p, p = Behind(r) PROVE Reach(p)'
  <2>1. p.msg = Due /\ p.seg = r.seg + 1 /\ p.count = r.count /\ p.seg - 1 = r.seg
    BY <1>1, <1>3, <1>8
  <2>2. QED
    BY <1>1, <1>2, <1>4, <1>6, <1>7, <2>1 DEF Reach
<1>9. Reach(cursor)'
  <2>1. CASE Due \in Stamped
    <3>1. PICK p : p = Behind(r)
      OBVIOUS
    <3>2. Reach(p)' /\ cursor' = p
      BY <1>5, <1>8, <2>1, <3>1
    <3>3. QED
      BY <3>2 DEF Reach
  <2>2. CASE Due \notin Stamped
    <3>1. cursor' = cursor /\ Reach(cursor)
      BY <1>5, <2>2 DEF MessageInv
    <3>2. cursor.seg > 0 => assemblies[Due].count = r.count
      BY <1>1
    <3>3. QED
      BY <1>1, <1>2, <1>4, <1>6, <3>1, <3>2 DEF Reach
  <2>3. QED
    BY <2>1, <2>2
<1>10. ASSUME NEW m, m = Due PROVE Beginning(m)'
  <2>1. \E k \in 1..(r.count - 1) : a.segs = 0..(k - 1)
    <3>1. CASE assemblies[Due] = NoAssembly
      <4>1. r.seg = 0 /\ a.segs = {0}
        BY <1>1, <3>1 DEF NoAssembly
      <4>2. 1 \in 1..(r.count - 1) /\ {0} = 0..(1 - 1)
        BY <1>1, <4>1
      <4>3. QED
        BY <4>1, <4>2
    <3>2. CASE Beginning(Due)
      <4>1. PICK k \in 1..(assemblies[Due].count - 1) : assemblies[Due].segs = 0..(k - 1)
        BY <3>2 DEF Beginning
      <4>2. assemblies[Due].count = r.count
        BY <1>1, <4>1
      <4>3. r.seg <= k
        <5>1. CASE r.seg = 0
          BY <4>1, <5>1
        <5>2. CASE r.seg > 0
          <6>1. k \in Nat /\ r.seg \in Nat
            BY <1>1, <4>1, <4>2
          <6>2. r.seg - 1 \in 0..(r.seg - 1)
            BY <5>2, <6>1
          <6>3. r.seg - 1 \in 0..(k - 1)
            BY <1>1, <4>1, <5>2, <6>2
          <6>4. QED
            BY <6>1, <6>3
        <5>3. QED
          BY <1>1, <5>1, <5>2
      <4>4. CASE r.seg < k
        <5>1. a.segs = 0..(k - 1)
          BY <1>1, <4>1, <4>4
        <5>2. QED
          BY <4>1, <4>2, <5>1
      <4>5. CASE r.seg = k
        <5>1. a.segs = 0..((k + 1) - 1)
          BY <1>1, <4>1, <4>5
        <5>2. k + 1 \in 1..(r.count - 1)
          BY <1>1, <4>1, <4>5
        <5>3. QED
          BY <5>1, <5>2
      <4>6. r.seg < k \/ r.seg = k
        <5>1. k \in Nat /\ r.seg \in Nat
          BY <1>1, <4>1, <4>2
        <5>2. QED
          BY <4>3, <5>1
      <4>7. QED
        BY <4>4, <4>5, <4>6
    <3>3. QED
      BY <1>1, <3>1, <3>2 DEF MessageInv
  <2>2. QED
    BY <1>1, <1>2, <1>6, <1>7, <1>10, <2>1 DEF Beginning
<1>11. phase' \notin {"connect", "done"} => \E q \in Seq(Position) : Route(q)'
  <2>1. PICK path \in Seq(Position) : Route(path) /\ path[2] = Behind(r)
    BY <1>1
  <2>2. Reach(path[2])' /\ down # <<>>
    BY <1>8, <2>1 DEF NextReply
  <2>3. QED
    BY <2>1, <2>2, ReplyRead
<1>12. WellPlaced(srvPos)' /\ \A i \in 1..Len(inbound') : inbound'[i] = i
  BY DEF MessageInv, WellPlaced
<1>13. \A m \in 1..NumDown : assemblies'[m] = NoAssembly \/ Beginning(m)'
  BY <1>6, <1>10
<1>14. QED
  BY <1>9, <1>11, <1>12, <1>13 DEF MessageInv, NoAssembly

\* A message in one envelope, or a segment that fits the assembly.
LEMMA ChunkRead ==
    ASSUME TypeOK, WholeOrSplit, MessageInv, ReceiveMessage \/ ReceiveChunk
    PROVE  MessageInv'
<1> PICK r : r = Head(down)
  OBVIOUS
<1>1. /\ NextReply("message") /\ AdvanceCursor(r) /\ down' = Tail(down)
      /\ UNCHANGED <<phase, wsUp, srvPos>>
  BY DEF ReceiveMessage, ReceiveChunk, server
<1>2. /\ r.seq = Due /\ Due \in 1..NumDown /\ r.seg \in Nat /\ r.count \in Nat /\ r.seg < r.count
      /\ r.count \in DownSplits[Due] /\ assemblies[Due].count \in Nat
      /\ r.seg > 0 => assemblies[Due].count = r.count
  BY <1>1, NextMessage
<1>3. assemblies[Due] = NoAssembly \/ Beginning(Due)
  BY <1>2 DEF MessageInv
<1>4. CASE ReceiveMessage
  <2>1. r.count = 1 /\ inbound' = Append(inbound, r.seq) /\ assemblies' = assemblies
    BY <1>4 DEF ReceiveMessage
  <2>2. assemblies[Due] = NoAssembly
    <3>1. DownSplits[Due] = {1}
      BY <1>2, <2>1 DEF WholeOrSplit
    <3>2. ~Beginning(Due)
      BY <1>2, <3>1 DEF Beginning
    <3>3. QED
      BY <1>3, <3>2
  <2>3. r.seg + 1 = r.count
    BY <1>2, <2>1
  <2>4. \A m \in 1..NumDown : assemblies'[m] = IF m = Due THEN NoAssembly ELSE assemblies[m]
    BY <2>1, <2>2
  <2>5. QED
    BY <1>1, <2>1, <2>3, <2>4, Delivered
<1>5. CASE ReceiveChunk
  <2> DEFINE now  == [count |-> r.count, segs |-> assemblies[r.seq].segs \cup {r.seg}]
             full == now.segs = 0..(r.count - 1)
  <2>1. /\ r.count > 1 /\ assemblies[Due].count \in {0, r.count}
        /\ assemblies' = [assemblies EXCEPT ![r.seq] = IF full THEN NoAssembly ELSE now]
        /\ inbound' = IF full THEN Append(inbound, r.seq) ELSE inbound
    BY <1>2, <1>5 DEF ReceiveChunk
  <2>2. \A m \in 1..NumDown :
          assemblies'[m] = IF m = Due THEN (IF full THEN NoAssembly ELSE now) ELSE assemblies[m]
    <3>1. assemblies \in [1..NumDown -> [count : Nat, segs : SUBSET Nat]]
      BY DEF TypeOK, ReaderOK
    <3>2. QED
      BY <1>2, <2>1, <3>1
  <2>3. full <=> r.seg + 1 = r.count
    <3>1. CASE assemblies[Due] = NoAssembly
      <4>1. r.seg = 0 /\ now.segs = {0}
        BY <1>2, <2>1, <3>1 DEF NoAssembly
      <4>2. 1 \in 0..(r.count - 1)
        BY <1>2, <2>1
      <4>3. QED
        BY <2>1, <4>1, <4>2
    <3>2. CASE Beginning(Due)
      <4>1. PICK k \in 1..(assemblies[Due].count - 1) : assemblies[Due].segs = 0..(k - 1)
        BY <3>2 DEF Beginning
      <4>2. assemblies[Due].count = r.count
        BY <1>2, <2>1, <4>1
      <4>3. ASSUME full PROVE r.seg + 1 = r.count
        <5>1. r.count - 1 \in now.segs
          BY <1>2, <4>3
        <5>2. now.segs = 0..(k - 1) \cup {r.seg}
          BY <1>2, <4>1
        <5>3. QED
          BY <1>2, <4>1, <4>2, <5>1, <5>2
      <4>4. ASSUME r.seg + 1 = r.count PROVE full
        <5>1. r.seg > 0
          BY <1>2, <2>1, <4>4
        <5>2. 0..(r.seg - 1) \subseteq assemblies[Due].segs
          BY <1>1, <5>1, NextMessage
        <5>3. \A s \in 0..(r.count - 1) : s \in now.segs
          BY <1>2, <4>4, <5>2
        <5>4. \A s \in now.segs : s \in 0..(r.count - 1)
          BY <1>2, <4>1, <4>2
        <5>5. QED
          BY <5>3, <5>4
      <4>5. QED
        BY <4>3, <4>4
    <3>3. QED
      BY <1>3, <3>1, <3>2
  <2>4. CASE full
    BY <1>1, <2>1, <2>2, <2>3, <2>4, Delivered
  <2>5. CASE ~full
    <3>1. r.seg + 1 < r.count
      BY <1>2, <2>3, <2>5
    <3>2. PICK a : a = now
      OBVIOUS
    <3>3. a.count = r.count /\ a.segs = assemblies[Due].segs \cup {r.seg}
      BY <1>2, <3>2
    <3>4. \A m \in 1..NumDown : assemblies'[m] = IF m = Due THEN a ELSE assemblies[m]
      BY <2>2, <2>5, <3>2
    <3>5. inbound' = inbound
      BY <2>1, <2>5
    <3>6. QED
      BY <1>1, <2>1, <3>1, <3>3, <3>4, <3>5, SegmentKept
  <2>6. QED
    BY <2>4, <2>5
<1>6. QED
  BY <1>4, <1>5

\* The message was split anew: the old assembly goes, and the reader has to go
\* back to its first segment, which the cursor still names.
LEMMA SplitAnew ==
    ASSUME TypeOK, MessageInv, ReceiveMismatch
    PROVE  MessageInv'
<1> PICK r : r = Head(down)
  OBVIOUS
<1>1. /\ NextReply("message") /\ AdvanceCursor(r) /\ r.count > 1
      /\ assemblies[r.seq].count \notin {0, r.count}
      /\ assemblies' = [assemblies EXCEPT ![r.seq] = NoAssembly]
      /\ phase' = "connect" /\ inbound' = inbound /\ srvPos' = srvPos
  BY DEF ReceiveMismatch, Reconnect, server
<1>2. /\ r.seq = Due /\ Due \in 1..NumDown /\ r.seg \in Nat /\ r.count \in Nat
      /\ r.cursor = IF r.seg + 1 = r.count \/ Due \in Stamped THEN {Behind(r)} ELSE {}
      /\ cursor.seg <= r.seg /\ cursor.seg \in Nat
      /\ r.seg > 0 => assemblies[Due].count = r.count
  BY <1>1, NextMessage
<1>3. r.seg = 0 /\ cursor.seg = 0 /\ r.seg + 1 # r.count
  BY <1>1, <1>2
<1>4. Beginning(Due)
  BY <1>1, <1>2 DEF MessageInv, NoAssembly
<1>5. cursor' = cursor
  <2>1. Due \notin Stamped
    BY <1>3, <1>4 DEF Beginning
  <2>2. QED
    BY <1>1, <1>2, <1>3, <2>1 DEF AdvanceCursor
<1>6. \A m \in 1..NumDown : assemblies'[m] = NoAssembly
  <2>1. assemblies \in [1..NumDown -> [count : Nat, segs : SUBSET Nat]]
    BY DEF TypeOK, ReaderOK
  <2>2. \A m \in 1..NumDown : m # Due => assemblies[m] = NoAssembly
    BY DEF MessageInv, Beginning
  <2>3. QED
    BY <1>1, <1>2, <2>1, <2>2
<1>7. Reach(cursor)'
  BY <1>1, <1>3, <1>5 DEF MessageInv, Reach, Due
<1>8. QED
  BY <1>1, <1>6, <1>7 DEF MessageInv, NoAssembly, WellPlaced

\* Acknowledgements do not move the reader.
LEMMA AckRead ==
    ASSUME TypeOK, MessageInv, ReceiveAck
    PROVE  MessageInv'
<1>1. /\ phase = "open" /\ down # <<>> /\ Head(down).kind = "ack" /\ down' = Tail(down)
      /\ UNCHANGED <<phase, wsUp, srvPos, cursor, assemblies, inbound>>
  BY DEF ReceiveAck, NextReply, reader, server
<1>2. PICK path \in Seq(Position) : Route(path)
  BY <1>1 DEF MessageInv
<1>3. path[2] = path[1]
  <2>1. down \in Seq(Reply) /\ Len(down) \in Nat \ {0} /\ Head(down) = down[1]
    BY <1>1 DEF TypeOK, WireOK
  <2>2. 1 \in 1..Len(down) /\ 1 + 1 = 2
    BY <2>1
  <2>3. path[1 + 1] = path[1]
    BY <1>1, <1>2, <2>1, <2>2 DEF Route
  <2>4. QED
    BY <2>3
<1>4. \A p : Reach(p)' = Reach(p)
  BY <1>1 DEF Reach, Due
<1>5. \E q \in Seq(Position) : Route(q)'
  <2>1. Reach(path[2])'
    BY <1>2, <1>3, <1>4 DEF Route
  <2>2. QED
    BY <1>1, <1>2, <2>1, ReplyRead
<1>6. QED
  BY <1>1, <1>4, <1>5 DEF MessageInv, Beginning, WellPlaced, Due

\* One step, by cases on the action.
LEMMA MessageStep ==
    ASSUME TypeOK, TypeOK', WholeOrSplit, MessageInv, [Next]_vars
    PROVE  MessageInv'
<1> USE DEF user, client, reader, server, wire
<1>1. CASE \/ WriteLine \/ Shutdown \/ DropStream \/ UNCHANGED vars
           \/ HandshakeDone \/ HandshakeFails \/ ReplayNext \/ ReplayFails \/ ReplayDone
  BY <1>1, ReaderWaits DEF WriteLine, Shutdown, DropStream, vars, HandshakeDone,
     HandshakeFails, ReplayNext, ReplayFails, ReplayDone, Reconnect
<1>2. CASE \/ TakePayload \/ TakeNewline \/ RefuseLine \/ SendSegment \/ SegmentFails
           \/ TakeShutdown \/ ReceiveBad \/ ReadFails \/ PingFails \/ PongTimeout
  BY <1>2, ReaderWaits DEF TakePayload, TakeNewline, RefuseLine, SendSegment, SegmentFails,
     TakeShutdown, ReceiveBad, ReadFails, PingFails, PongTimeout, NextCommand, NextReply,
     Reconnect
<1>3. CASE NetworkBreaks
  <2>1. /\ UNCHANGED <<reader, srvPos, phase>> /\ ~wsUp'
        /\ \E i \in 0..Len(down) : down' = SubSeq(down, 1, i)
    BY <1>3 DEF NetworkBreaks
  <2>2. QED
    BY <2>1, ReaderWaits
<1>4. CASE ServerGarbage
  <2> DEFINE bad == [kind |-> "bad", seq |-> 0, seg |-> 0, count |-> 0, cursor |-> {}]
  <2>1. bad \in Reply /\ bad.kind # "message"
    BY DEF Reply
  <2>2. /\ UNCHANGED <<reader, srvPos, phase, wsUp>> /\ down' = Append(down, bad)
    BY <1>4 DEF ServerGarbage
  <2>3. QED
    BY <2>1, <2>2, ReaderWaits
<1>5. CASE ServerDuplicate \/ ServerAccept \/ ServerClosed
  <2>1. /\ UNCHANGED <<reader, srvPos, phase, wsUp>>
        /\ down' = down \/ (up # <<>> /\ down' = Append(down, Ack(Head(up).seq)))
    BY <1>5 DEF ServerDuplicate, ServerAccept, ServerClosed, Push
  <2>2. up # <<>> => Ack(Head(up).seq) \in Reply /\ Ack(Head(up).seq).kind # "message"
    BY HeadOfUp, Sends DEF Ack, TypeOK
  <2>3. QED
    BY <2>1, <2>2, ReaderWaits
<1>6. CASE Connect
  BY <1>6, Resumed
<1>7. CASE ServerSend
  BY <1>7, MessageSent
<1>8. CASE ReceiveMessage \/ ReceiveChunk
  BY <1>8, ChunkRead
<1>9. CASE ReceiveMismatch
  BY <1>9, SplitAnew
<1>10. CASE ReceiveAck
  BY <1>10, AckRead
<1>11. QED
  BY <1>1, <1>2, <1>3, <1>4, <1>5, <1>6, <1>7, <1>8, <1>9, <1>10
     DEF Next, ClientLoop, Environment, Server

\* The reader gets every message once and in order, from one assembly, however
\* often the connection breaks and however the server splits a message again,
\* provided it never splits one that fits an envelope.
THEOREM MessagesArriveOnce ==
    ASSUME WholeOrSplit PROVE Spec => []InboundExactlyOnce
<1>1. Init => MessageInv
  <2> SUFFICES ASSUME Init PROVE MessageInv
    OBVIOUS
  <2> USE DEF Init
  <2>1. inbound = <<>> /\ Due = 1 /\ Reach(cursor) /\ WellPlaced(srvPos)
    BY DEF Due, Reach, Start, WellPlaced
  <2>2. \A m \in 1..NumDown : assemblies[m] = NoAssembly
    BY DEF NoAssembly
  <2>3. QED
    BY <2>1, <2>2 DEF MessageInv
<1>2. TypeOK /\ TypeOK' /\ MessageInv /\ [Next]_vars => MessageInv'
  BY MessageStep
<1>3. MessageInv => InboundExactlyOnce
  BY DEF MessageInv, InboundExactlyOnce, Beginning, NoAssembly, Due
<1>4. QED
  BY <1>1, <1>2, <1>3, TypeCorrect, PTL DEF Spec

-----------------------------------------------------------------------------
(* The sizes of segments, for every size of a message, not only those TLC    *)
(* enumerates.                                                              *)

LEMMA DivBounds ==
    ASSUME NEW a \in Nat, NEW b \in Nat \ {0}
    PROVE  (a \div b) \in Nat /\ (a \div b) * b <= a /\ a < (a \div b) * b + b
OBVIOUS

\* Rounding up: the quotient is the only number of pieces of b that covers a.
LEMMA CeilBounds ==
    ASSUME NEW a \in Nat, NEW b \in Nat \ {0}
    PROVE  /\ CeilDiv(a, b) \in Nat
           /\ a <= CeilDiv(a, b) * b
           /\ CeilDiv(a, b) * b < a + b
<1> DEFINE q == (a + b - 1) \div b
<1>1. a + b - 1 \in Nat
  OBVIOUS
<1>2. q \in Nat /\ q * b <= a + b - 1 /\ a + b - 1 < q * b + b
  BY <1>1, DivBounds
<1> HIDE DEF q
<1>3. q * b \in Int
  BY <1>2
<1>4. q \in Nat /\ a <= q * b /\ q * b < a + b
  BY <1>2, <1>3
<1>5. QED
  BY <1>4 DEF CeilDiv, q

LEMMA CeilUnique ==
    ASSUME NEW a \in Nat, NEW b \in Nat \ {0}, NEW q \in Nat,
           a <= q * b, q * b < a + b
    PROVE  CeilDiv(a, b) = q
<1> DEFINE p == CeilDiv(a, b)
<1>1. p \in Nat /\ a <= p * b /\ p * b < a + b
  BY CeilBounds
<1> HIDE DEF p
<1>2. ~(p < q)
  <2>1. SUFFICES ASSUME p < q PROVE FALSE
    OBVIOUS
  <2>2. (p + 1) * b <= q * b
    BY <1>1, <2>1
  <2>3. (p + 1) * b = p * b + b
    BY <1>1
  <2>4. QED
    BY <1>1, <2>2, <2>3
<1>3. ~(q < p)
  <2>1. SUFFICES ASSUME q < p PROVE FALSE
    OBVIOUS
  <2>2. (q + 1) * b <= p * b
    BY <1>1, <2>1
  <2>3. (q + 1) * b = q * b + b
    OBVIOUS
  <2>4. QED
    BY <1>1, <2>2, <2>3
<1>4. QED
  BY <1>1, <1>2, <1>3 DEF p

\* c pieces of the rounded-up size k leave none empty when c is small enough.
LEMMA LastPieceIsUsed ==
    ASSUME NEW n \in Nat, NEW c \in Nat \ {0}, NEW k \in Nat,
           k * c < n + c, (c - 1) * (c - 1) < n
    PROVE  (c - 1) * k < n
<1>1. SUFFICES ASSUME (c - 1) * k >= n PROVE FALSE
  OBVIOUS
<1>2. k * c = (c - 1) * k + k
  OBVIOUS
<1>3. k < c
  BY <1>1, <1>2
<1>4. (c - 1) * k <= (c - 1) * (c - 1)
  BY <1>3
<1>5. QED
  BY <1>1, <1>4

LEMMA SegmentsMatch ==
    ASSUME NEW n \in Nat \ {0}, Segmented(n)
    PROVE  Emitted(n) = SegmentCount(n)
<1> DEFINE c == SegmentCount(n)
           k == CeilDiv(n, c)
           t == CeilDiv(n, TargetBytes)
<1> USE SegmentAssumption
<1>1. t \in Nat /\ n <= t * TargetBytes /\ t * TargetBytes < n + TargetBytes
  BY CeilBounds
<1>2. c = IF 2 > t THEN 2 ELSE t
  BY <1>1 DEF SegmentCount, Larger
<1>3. c \in Nat /\ c >= 2 /\ c <= TargetBytes
  BY <1>1, <1>2 DEF Segmented, TooMany
<1>4. n >= 2
  BY DEF Segmented, Whole
<1> HIDE DEF t, c
<1>5. (c - 1) * (c - 1) < n
  <2>1. CASE c = 2
    BY <2>1, <1>4
  <2>2. CASE c = t
    <3>1. (c - 1) * (c - 1) <= (c - 1) * TargetBytes
      BY <1>3
    <3>2. (c - 1) * TargetBytes = c * TargetBytes - TargetBytes
      BY <1>3
    <3>3. (c - 1) * (c - 1) \in Int /\ c * TargetBytes \in Int
      BY <1>3
    <3>4. QED
      BY <1>1, <2>2, <3>1, <3>2, <3>3
  <2>3. QED
    BY <1>2, <2>1, <2>2
<1>6. k \in Nat /\ n <= k * c /\ k * c < n + c
  <2>1. c \in Nat \ {0}
    BY <1>3
  <2>2. /\ CeilDiv(n, c) \in Nat
        /\ n <= CeilDiv(n, c) * c
        /\ CeilDiv(n, c) * c < n + c
    BY <2>1, CeilBounds
  <2>3. QED
    BY <2>2
<1> HIDE DEF k
<1>7. k > 0
  BY <1>3, <1>6
<1>8. ChunkSize(n) = k
  BY <1>6, <1>7 DEF ChunkSize, Larger, k, c
<1>9. (c - 1) * k < n
  BY <1>3, <1>5, <1>6, LastPieceIsUsed
<1>10. c * k = (c - 1) * k + k /\ c * k = k * c /\ (c - 1) * k \in Int
  BY <1>3, <1>6
<1>11. n <= c * k /\ c * k < n + k
  BY <1>6, <1>9, <1>10
<1>12. CeilDiv(n, k) = c
  BY <1>3, <1>6, <1>7, <1>11, CeilUnique
<1>13. QED
  BY <1>8, <1>12 DEF Emitted, c

\* A client message is announced with exactly as many segments as are sent,
\* whatever its size: the receiver's assembly can complete.
THEOREM SegmentsAnnounced == EverySize => []CountIsHonest
<1> DEFINE Positive == size \in Nat \ {0}
<1>1. Shortest => Positive
  BY DEF Shortest
<1>2. Positive /\ [Longer]_size => Positive'
  BY DEF Longer
<1>3. Positive => CountIsHonest
  BY SegmentsMatch DEF CountIsHonest
<1>4. QED
  BY <1>1, <1>2, <1>3, PTL DEF EverySize

LEMMA CeilMonotone ==
    ASSUME NEW a \in Nat, NEW b \in Nat \ {0}, NEW q \in Nat, a <= q * b
    PROVE  CeilDiv(a, b) <= q
<1> DEFINE p == CeilDiv(a, b)
<1>1. p \in Nat /\ p * b < a + b
  BY CeilBounds
<1> HIDE DEF p
<1>2. SUFFICES ASSUME q < p PROVE FALSE
  BY <1>1 DEF p
<1>3. (q + 1) * b <= p * b
  BY <1>1, <1>2
<1>4. (q + 1) * b = q * b + b /\ q * b \in Int /\ p * b \in Int
  BY <1>1
<1>5. QED
  BY <1>1, <1>3, <1>4

\* The envelope limit leaves room for a segment of the target size.
LEMMA Base64Bounds ==
    ASSUME NEW k \in Nat, k <= TargetBytes
    PROVE  /\ TargetBytes <= Base64(TargetBytes)
           /\ Base64(k) <= Base64(TargetBytes)
           /\ Base64(TargetBytes) + Overhead <= MaxBytes
<1> USE SegmentAssumption
<1>1. Base64(TargetBytes) + Overhead <= MaxBytes
  <2>1. TargetBytes + 3 - 1 = TargetBytes + 2
    OBVIOUS
  <2>2. QED
    BY <2>1 DEF Base64, CeilDiv
<1> DEFINE p == CeilDiv(TargetBytes, 3)
           q == CeilDiv(k, 3)
<1>2. p \in Nat /\ TargetBytes <= p * 3
  BY CeilBounds
<1>3. q \in Nat /\ q <= p
  <2>1. k <= p * 3
    BY <1>2
  <2>2. QED
    BY <1>2, <2>1, CeilBounds, CeilMonotone
<1> HIDE DEF p, q
<1>4. Base64(TargetBytes) = 4 * p /\ Base64(k) = 4 * q
  BY DEF Base64, p, q
<1>5. QED
  BY <1>1, <1>2, <1>3, <1>4

LEMMA LongerFits ==
    ASSUME NEW n \in Nat \ {0}, ~Whole(n), ~TooLong(n)
    PROVE  ~TooMany(n) /\ Base64(ChunkSize(n)) + Overhead <= MaxBytes
<1> DEFINE t == CeilDiv(n, TargetBytes)
           c == SegmentCount(n)
           k == CeilDiv(n, c)
<1> USE SegmentAssumption
<1>1. n > TargetBytes /\ Base64(TargetBytes) \in Int
  BY Base64Bounds DEF Whole, Base64, CeilDiv
<1>2. n <= CountMax * TargetBytes
  BY DEF TooLong
<1>3. CountMax >= 2
  <2>1. CASE CountMax = 0
    BY <1>2, <2>1
  <2>2. CASE CountMax = 1
    BY <1>1, <1>2, <2>2
  <2>3. QED
    BY <2>1, <2>2
<1>4. t \in Nat /\ t <= CountMax /\ n <= t * TargetBytes
  BY <1>2, CeilBounds, CeilMonotone
<1>5. c = IF 2 > t THEN 2 ELSE t
  BY <1>4 DEF SegmentCount, Larger
<1> HIDE DEF t, c
<1>6. c \in Nat \ {0} /\ c <= CountMax /\ t <= c
  BY <1>3, <1>4, <1>5
<1>7. n <= TargetBytes * c
  <2>1. t * TargetBytes <= c * TargetBytes /\ t * TargetBytes \in Int
    BY <1>4, <1>6
  <2>2. c * TargetBytes = TargetBytes * c /\ c * TargetBytes \in Int
    BY <1>6
  <2>3. QED
    BY <1>4, <2>1, <2>2
<1>8. k \in Nat /\ k <= TargetBytes
  BY <1>6, <1>7, CeilBounds, CeilMonotone
<1>9. ChunkSize(n) = IF 1 > k THEN 1 ELSE k
  BY <1>8 DEF ChunkSize, Larger, k, c
<1> HIDE DEF k
<1>10. ChunkSize(n) \in Nat /\ ChunkSize(n) <= TargetBytes
  BY <1>8, <1>9
<1>11. Base64(ChunkSize(n)) + Overhead <= MaxBytes
  <2> DEFINE s == ChunkSize(n)
  <2>1. /\ Base64(s) <= Base64(TargetBytes)
        /\ Base64(TargetBytes) + Overhead <= MaxBytes
    BY <1>10, Base64Bounds
  <2>2. Base64(s) \in Int
    BY <1>10 DEF Base64, CeilDiv
  <2>3. QED
    BY <1>1, <2>1, <2>2
<1>12. QED
  BY <1>6, <1>11 DEF TooMany, c

\* No message within the limit on reassembled sizes is refused for its number of
\* segments or has a segment that its envelope cannot hold.
THEOREM LongMessagesFit == EverySize => []SegmentsFit
<1> DEFINE Positive == size \in Nat \ {0}
<1>1. Shortest => Positive
  BY DEF Shortest
<1>2. Positive /\ [Longer]_size => Positive'
  BY DEF Longer
<1>3. Positive => SegmentsFit
  BY LongerFits DEF SegmentsFit
<1>4. QED
  BY <1>1, <1>2, <1>3, PTL DEF EverySize
=============================================================================
