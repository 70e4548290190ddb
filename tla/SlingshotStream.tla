-------------------------- MODULE SlingshotStream --------------------------
(***************************************************************************)
(* The remote-control stream of shared/rust-bridge/codex-slingshot: one    *)
(* background task (control_loop) that owns a websocket, numbers and       *)
(* segments the JSON lines its user writes, keeps what the server has not  *)
(* acknowledged in a replay queue, reconnects for ever, resumes the server *)
(* side from a cursor and reassembles segmented server messages.           *)
(*                                                                         *)
(* A line is its index in the order of writing; Segments[line] is how many *)
(* wire envelopes it is split into (0: the splitter refuses it, the line   *)
(* is above a size limit).  The server is external: it accepts a client    *)
(* message once, when all its segments have arrived and its number is      *)
(* above the last accepted one, acknowledges it, and resumes its own       *)
(* messages after the cursor of the websocket request.                     *)
(***************************************************************************)
EXTENDS Naturals, Sequences

CONSTANTS
    Segments,     \* <<n1, n2, ...>>: envelopes per line the user may write
    DownSplits,   \* <<S1, S2, ...>>: segment counts the server may pick per message
    MaxBreaks,    \* bound on failures of a connection
    AllowDrop,    \* may the user drop the stream (task.abort) in this instance?
    Stamped       \* messages whose every segment bears a cursor, not only the last

ASSUME StreamAssumption ==
    /\ Segments \in Seq(Nat)
    /\ DownSplits \in Seq(SUBSET (Nat \ {0}))
    /\ MaxBreaks \in Nat
    /\ AllowDrop \in BOOLEAN
    /\ Stamped \subseteq Nat

VARIABLES
    \* the user of the stream and its two unbounded channels
    written,      \* lines written so far
    shutdownSent, \* shutdown_sent
    outbox,       \* outbound_tx/outbound_rx
    inbound,      \* server messages handed to the reader, in order
    \* control_loop and ControlState
    phase,        \* where control_loop stands
    lineBuf,      \* outbound_line_buf: payloads not yet followed by a newline
    nextSeq,      \* next_sequence_id
    replay,       \* wire_replay_queue
    replayAt,     \* iterator of replay_unacked_wire
    sending,      \* iterator over the envelopes of the current line
    cursor,       \* current_subscribe_cursor, as the position it resumes at
    assemblies,   \* chunk_assemblies
    \* the websocket
    wsUp, up, down, breaks,
    \* the server
    srvSeq, srvParts, srvLog, srvClosed, srvPos,
    \* history: numbers that can never be completed; greatest ack handled
    lost, acked

user   == <<written, shutdownSent>>
client == <<lineBuf, nextSeq, replay, replayAt, sending, lost, acked>>
reader == <<cursor, assemblies, inbound>>
wire   == <<wsUp, up, down, breaks>>
server == <<srvSeq, srvParts, srvLog, srvClosed, srvPos>>
vars   == <<user, outbox, phase, client, reader, wire, server>>

NumLines == Len(Segments)
NumDown  == Len(DownSplits)

Phases == {"connect", "handshake", "replay", "open", "send", "done"}

Command  == [kind : {"payload"}, line : 1..NumLines]
            \cup {[kind |-> "newline"], [kind |-> "shutdown"]}
Envelope == [kind : {"message", "closed"}, line : 0..NumLines,
             seq : Nat, seg : Nat, count : Nat]
Position == [msg : Nat \ {0}, seg : Nat, count : Nat]
Reply    == [kind : {"ack", "message", "bad"}, seq : Nat, seg : Nat,
             count : Nat, cursor : SUBSET Position]

Start == [msg |-> 1, seg |-> 0, count |-> 0]

Init ==
    /\ written = 0 /\ shutdownSent = FALSE /\ outbox = <<>> /\ inbound = <<>>
    /\ phase = "connect" /\ lineBuf = <<>> /\ nextSeq = 1
    /\ replay = <<>> /\ replayAt = 1 /\ sending = <<>>
    /\ cursor = Start /\ assemblies = [m \in 1..NumDown |-> [count |-> 0, segs |-> {}]]
    /\ wsUp = FALSE /\ up = <<>> /\ down = <<>> /\ breaks = 0
    /\ srvSeq = 0 /\ srvParts = [seq |-> 0, segs |-> {}] /\ srvLog = <<>>
    /\ srvClosed = FALSE /\ srvPos = Start
    /\ lost = {} /\ acked = 0

-----------------------------------------------------------------------------
(* The user of the stream.  The JSON-line writer writes a payload and its   *)
(* newline as two commands, back to back.                                   *)

WriteLine ==
    /\ phase # "done" /\ ~shutdownSent /\ written < NumLines
    /\ written' = written + 1
    /\ outbox' = outbox \o << [kind |-> "payload", line |-> written + 1],
                              [kind |-> "newline"] >>
    /\ UNCHANGED <<shutdownSent, phase, client, reader, wire, server>>

\* poll_shutdown: the command is queued once.
Shutdown ==
    /\ phase # "done" /\ ~shutdownSent
    /\ shutdownSent' = TRUE
    /\ outbox' = Append(outbox, [kind |-> "shutdown"])
    /\ UNCHANGED <<written, phase, client, reader, wire, server>>

\* Drop for SlingshotJsonLineStream aborts the task wherever it awaits.
DropStream ==
    /\ AllowDrop /\ phase # "done"
    /\ phase' = "done"
    /\ UNCHANGED <<user, outbox, client, reader, wire, server>>

-----------------------------------------------------------------------------
(* control_loop outside its inner select.  A failed websocket_request or    *)
(* connect_async changes nothing: the loop sleeps and tries again.          *)

\* Leaving a connection: the socket is closed, the loop sleeps and retries.
Reconnect ==
    /\ phase' = "connect"
    /\ wsUp' = FALSE

\* Mutant: a new connection starts with an empty chunk_assemblies.
ConnectDropsAssemblies ==
    /\ phase = "connect"
    /\ phase' = "handshake"
    /\ wsUp' = TRUE /\ up' = <<>> /\ down' = <<>>
    /\ srvPos' = cursor
    /\ assemblies' = [m \in 1..NumDown |-> [count |-> 0, segs |-> {}]]
    /\ UNCHANGED <<user, outbox, client, cursor, inbound, breaks,
                   srvSeq, srvParts, srvLog, srvClosed>>

\* websocket_request carries the cursor; a new connection has empty pipes.
Connect ==
    /\ phase = "connect"
    /\ phase' = "handshake"
    /\ wsUp' = TRUE /\ up' = <<>> /\ down' = <<>>
    /\ srvPos' = cursor
    /\ UNCHANGED <<user, outbox, client, reader, breaks,
                   srvSeq, srvParts, srvLog, srvClosed>>

\* Mutant: the queue is not replayed on a new connection.
HandshakeSkipsReplay ==
    /\ phase = "handshake" /\ wsUp
    /\ phase' = "replay"
    /\ replayAt' = Len(replay) + 1
    /\ UNCHANGED <<user, outbox, lineBuf, nextSeq, replay, sending, lost, acked,
                   reader, wire, server>>

\* Mutant: the replay starts one short of the queue's first entry.
HandshakeOffByOne ==
    /\ phase = "handshake" /\ wsUp
    /\ phase' = "replay"
    /\ replayAt' = 0
    /\ UNCHANGED <<user, outbox, lineBuf, nextSeq, replay, sending, lost, acked,
                   reader, wire, server>>

HandshakeDone ==
    /\ phase = "handshake" /\ wsUp
    /\ phase' = "replay"
    /\ replayAt' = 1
    /\ UNCHANGED <<user, outbox, lineBuf, nextSeq, replay, sending, lost, acked,
                   reader, wire, server>>

\* Mutant: a failed handshake ends the task.
HandshakeFailureEnds ==
    /\ phase = "handshake" /\ ~wsUp
    /\ phase' = "done"
    /\ UNCHANGED <<user, outbox, client, reader, wire, server>>

HandshakeFails ==
    /\ phase = "handshake" /\ ~wsUp
    /\ Reconnect
    /\ UNCHANGED <<user, outbox, client, reader, up, down, breaks, server>>

\* A send that returns Ok: on a dead connection it only reached a local buffer.
Transmit(e) == up' = IF wsUp THEN Append(up, e) ELSE up

ReplayNext ==
    /\ phase = "replay" /\ replayAt <= Len(replay)
    /\ Transmit(replay[replayAt])
    /\ replayAt' = replayAt + 1
    /\ UNCHANGED <<user, outbox, phase, lineBuf, nextSeq, replay, sending, lost, acked,
                   reader, wsUp, down, breaks, server>>

ReplayFails ==
    /\ phase = "replay" /\ replayAt <= Len(replay) /\ ~wsUp
    /\ Reconnect
    /\ UNCHANGED <<user, outbox, client, reader, up, down, breaks, server>>

ReplayDone ==
    /\ phase = "replay" /\ replayAt > Len(replay)
    /\ phase' = "open"
    /\ UNCHANGED <<user, outbox, client, reader, wire, server>>

-----------------------------------------------------------------------------
(* The outbound arm of the select: handle_outbound_bytes_wire.              *)

NextCommand(kind) == phase = "open" /\ outbox # <<>> /\ Head(outbox).kind = kind

TakePayload ==
    /\ NextCommand("payload")
    /\ lineBuf' = Append(lineBuf, Head(outbox).line)
    /\ outbox' = Tail(outbox)
    /\ UNCHANGED <<user, phase, nextSeq, replay, replayAt, sending, lost, acked,
                   reader, wire, server>>

\* split_client_wire_envelope_for_transport: every segment carries the number
\* allocated for the line.
Split(line, seq) ==
    [s \in 1..Segments[line] |->
        [kind |-> "message", line |-> line, seq |-> seq,
         seg |-> s - 1, count |-> Segments[line]]]

\* Mutant: the number is used without being consumed.
NewlineReusesNumber ==
    /\ NextCommand("newline") /\ lineBuf # <<>>
    /\ Segments[Head(lineBuf)] > 0
    /\ sending' = Split(Head(lineBuf), nextSeq)
    /\ lineBuf' = Tail(lineBuf)
    /\ outbox' = Tail(outbox)
    /\ phase' = "send"
    /\ UNCHANGED <<user, nextSeq, replay, replayAt, lost, acked, reader, wire, server>>

\* A newline completes the line: it gets its number and is split.
TakeNewline ==
    /\ NextCommand("newline") /\ lineBuf # <<>>
    /\ Segments[Head(lineBuf)] > 0
    /\ sending' = Split(Head(lineBuf), nextSeq)
    /\ nextSeq' = nextSeq + 1
    /\ lineBuf' = Tail(lineBuf)
    /\ outbox' = Tail(outbox)
    /\ phase' = "send"
    /\ UNCHANGED <<user, replay, replayAt, lost, acked, reader, wire, server>>

\* The splitter refuses the line after its number was allocated: the error
\* breaks the connection and the line is gone.
RefuseLine ==
    /\ NextCommand("newline") /\ lineBuf # <<>>
    /\ Segments[Head(lineBuf)] = 0
    /\ lost' = lost \cup {nextSeq}
    /\ nextSeq' = nextSeq + 1
    /\ lineBuf' = Tail(lineBuf)
    /\ outbox' = Tail(outbox)
    /\ Reconnect
    /\ UNCHANGED <<user, replay, replayAt, sending, acked, reader,
                   up, down, breaks, server>>

\* Each envelope is queued before it is sent.
SendSegment ==
    /\ phase = "send" /\ sending # <<>>
    /\ replay' = Append(replay, Head(sending))
    /\ sending' = Tail(sending)
    /\ Transmit(Head(sending))
    /\ phase' = IF Len(sending) = 1 THEN "open" ELSE "send"
    /\ UNCHANGED <<user, outbox, lineBuf, nextSeq, replayAt, lost, acked,
                   reader, wsUp, down, breaks, server>>

\* Mutant: an envelope is queued only once its send has succeeded.
SegmentFailsUnqueued ==
    /\ phase = "send" /\ sending # <<>> /\ ~wsUp
    /\ lost' = IF Len(sending) > 1 THEN lost \cup {Head(sending).seq} ELSE lost
    /\ sending' = <<>>
    /\ Reconnect
    /\ UNCHANGED <<user, outbox, lineBuf, nextSeq, replay, replayAt, acked,
                   reader, up, down, breaks, server>>

\* A send fails: the segments behind the failed one are dropped unqueued, so
\* unless it was the last one the line can never be completed.
SegmentFails ==
    /\ phase = "send" /\ sending # <<>> /\ ~wsUp
    /\ replay' = Append(replay, Head(sending))
    /\ lost' = IF Len(sending) > 1 THEN lost \cup {Head(sending).seq} ELSE lost
    /\ sending' = <<>>
    /\ Reconnect
    /\ UNCHANGED <<user, outbox, lineBuf, nextSeq, replayAt, acked,
                   reader, up, down, breaks, server>>

\* The close envelope is numbered, not queued, and the task returns whether
\* the send succeeds or not.
TakeShutdown ==
    /\ NextCommand("shutdown")
    /\ outbox' = Tail(outbox)
    /\ nextSeq' = nextSeq + 1
    /\ \/ Transmit([kind |-> "closed", line |-> 0, seq |-> nextSeq, seg |-> 0, count |-> 1])
       \/ ~wsUp /\ UNCHANGED up
    /\ phase' = "done"
    /\ UNCHANGED <<user, lineBuf, replay, replayAt, sending, lost, acked,
                   reader, wsUp, down, breaks, server>>

-----------------------------------------------------------------------------
(* The inbound arm of the select: handle_inbound_wire_envelope.  The cursor *)
(* moves before the envelope is looked at; no message is acknowledged and   *)
(* none is compared with an earlier one.                                    *)

NextReply(kind) == phase = "open" /\ down # <<>> /\ Head(down).kind = kind

AdvanceCursor(reply) ==
    cursor' \in IF reply.cursor = {} THEN {cursor} ELSE reply.cursor

NoAssembly == [count |-> 0, segs |-> {}]

ReceiveMessage ==
    /\ NextReply("message") /\ Head(down).count = 1
    /\ AdvanceCursor(Head(down))
    /\ inbound' = Append(inbound, Head(down).seq)
    /\ down' = Tail(down)
    /\ UNCHANGED <<user, outbox, phase, client, assemblies, wsUp, up, breaks, server>>

\* observe_server_message_chunk: assemblies outlive the connection.
ReceiveChunk ==
    LET chunk == Head(down)
        old   == assemblies[chunk.seq]
        now   == [count |-> chunk.count, segs |-> old.segs \cup {chunk.seg}]
        full  == now.segs = 0..(chunk.count - 1)
    IN  /\ NextReply("message") /\ chunk.count > 1
        /\ old.count \in {0, chunk.count}
        /\ AdvanceCursor(chunk)
        /\ assemblies' = [assemblies EXCEPT ![chunk.seq] = IF full THEN NoAssembly ELSE now]
        /\ inbound' = IF full THEN Append(inbound, chunk.seq) ELSE inbound
        /\ down' = Tail(down)
        /\ UNCHANGED <<user, outbox, phase, client, wsUp, up, breaks, server>>

\* A chunk that disagrees with the assembly removes it and breaks the connection.
ReceiveMismatch ==
    LET chunk == Head(down)
    IN  /\ NextReply("message") /\ chunk.count > 1
        /\ assemblies[chunk.seq].count \notin {0, chunk.count}
        /\ AdvanceCursor(chunk)
        /\ assemblies' = [assemblies EXCEPT ![chunk.seq] = NoAssembly]
        /\ down' = Tail(down)
        /\ Reconnect
        /\ UNCHANGED <<user, outbox, client, inbound, up, breaks, server>>

Max2(a, b) == IF a > b THEN a ELSE b

\* Mutant: any acknowledgement empties the queue.
ReceiveAckClears ==
    /\ NextReply("ack")
    /\ replay' = <<>>
    /\ acked' = Max2(acked, Head(down).seq)
    /\ down' = Tail(down)
    /\ UNCHANGED <<user, outbox, phase, lineBuf, nextSeq, replayAt, sending, lost,
                   reader, wsUp, up, breaks, server>>

\* Mutant: retain(seq_id >= acked).
ReceiveAckOffByOne ==
    LET ack == Head(down).seq
    IN  /\ NextReply("ack")
        /\ \E k \in 0..Len(replay) :
              /\ \A i \in 1..k : replay[i].seq < ack
              /\ \A i \in (k + 1)..Len(replay) : replay[i].seq >= ack
              /\ replay' = SubSeq(replay, k + 1, Len(replay))
        /\ acked' = Max2(acked, ack)
        /\ down' = Tail(down)
        /\ UNCHANGED <<user, outbox, phase, lineBuf, nextSeq, replayAt, sending, lost,
                       reader, wsUp, up, breaks, server>>

\* retain(seq_id > acked).  Numbers grow along the queue (ReplaySorted), so
\* what goes is a prefix.
ReceiveAck ==
    LET ack == Head(down).seq
    IN  /\ NextReply("ack")
        /\ \E k \in 0..Len(replay) :
              /\ \A i \in 1..k : replay[i].seq <= ack
              /\ \A i \in (k + 1)..Len(replay) : replay[i].seq > ack
              /\ replay' = SubSeq(replay, k + 1, Len(replay))
        /\ acked' = Max2(acked, ack)
        /\ down' = Tail(down)
        /\ UNCHANGED <<user, outbox, phase, lineBuf, nextSeq, replayAt, sending, lost,
                       reader, wsUp, up, breaks, server>>

\* A payload that does not decode breaks the connection and moves no cursor.
ReceiveBad ==
    /\ NextReply("bad")
    /\ down' = Tail(down)
    /\ Reconnect
    /\ UNCHANGED <<user, outbox, client, reader, up, breaks, server>>

\* ws_rx ends or fails, once what arrived before is read.
ReadFails ==
    /\ phase = "open" /\ ~wsUp /\ down = <<>>
    /\ Reconnect
    /\ UNCHANGED <<user, outbox, client, reader, up, down, breaks, server>>

\* A ping cannot be sent, even with input unread.
PingFails ==
    /\ phase = "open" /\ ~wsUp
    /\ Reconnect
    /\ UNCHANGED <<user, outbox, client, reader, up, down, breaks, server>>

\* No pong for WEBSOCKET_PONG_TIMEOUT on a connection that still works.
PongTimeout ==
    /\ phase = "open" /\ wsUp /\ breaks < MaxBreaks
    /\ breaks' = breaks + 1
    /\ Reconnect
    /\ UNCHANGED <<user, outbox, client, reader, up, down, server>>

ClientLoop ==
    \/ Connect \/ HandshakeDone \/ HandshakeFails
    \/ ReplayNext \/ ReplayFails \/ ReplayDone
    \/ TakePayload \/ TakeNewline \/ RefuseLine \/ SendSegment \/ SegmentFails
    \/ TakeShutdown
    \/ ReceiveMessage \/ ReceiveChunk \/ ReceiveMismatch \/ ReceiveAck \/ ReceiveBad
    \/ ReadFails \/ PingFails \/ PongTimeout

-----------------------------------------------------------------------------
(* The network and the server (external).                                   *)

\* The connection dies; a suffix of what is in flight each way is lost.
NetworkBreaks ==
    /\ wsUp /\ breaks < MaxBreaks
    /\ wsUp' = FALSE
    /\ breaks' = breaks + 1
    /\ \E i \in 0..Len(up) : up' = SubSeq(up, 1, i)
    /\ \E i \in 0..Len(down) : down' = SubSeq(down, 1, i)
    /\ UNCHANGED <<user, outbox, phase, client, reader, server>>

Push(reply) == down' = IF wsUp THEN Append(down, reply) ELSE down

Ack(seq) == [kind |-> "ack", seq |-> seq, seg |-> 0, count |-> 1, cursor |-> {}]

\* A segment of a message already accepted: its last one is acknowledged again.
ServerDuplicate ==
    LET e == Head(up)
    IN  /\ up # <<>> /\ e.kind = "message" /\ e.seq <= srvSeq
        /\ up' = Tail(up)
        /\ IF e.seg + 1 = e.count THEN Push(Ack(e.seq)) ELSE UNCHANGED down
        /\ UNCHANGED <<user, outbox, phase, client, reader, wsUp, breaks, server>>

\* A segment of a new message; a segment of another message replaces the
\* assembly in progress.
ServerAccept ==
    LET e     == Head(up)
        segs  == {e.seg} \cup (IF srvParts.seq = e.seq THEN srvParts.segs ELSE {})
        full  == segs = 0..(e.count - 1)
    IN  /\ up # <<>> /\ e.kind = "message" /\ e.seq > srvSeq
        /\ up' = Tail(up)
        /\ srvParts' = [seq |-> e.seq, segs |-> IF full THEN {} ELSE segs]
        /\ srvSeq' = IF full THEN e.seq ELSE srvSeq
        /\ srvLog' = IF full THEN Append(srvLog, e.line) ELSE srvLog
        /\ IF full THEN Push(Ack(e.seq)) ELSE UNCHANGED down
        /\ UNCHANGED <<user, outbox, phase, client, reader, wsUp, breaks,
                       srvClosed, srvPos>>

ServerClosed ==
    /\ up # <<>> /\ Head(up).kind = "closed"
    /\ up' = Tail(up)
    /\ srvClosed' = TRUE
    /\ UNCHANGED <<user, outbox, phase, client, reader, wsUp, down, breaks,
                   srvSeq, srvParts, srvLog, srvPos>>

\* The next envelope of the server's own messages.  A message is split anew
\* when its first segment is sent; the last segment carries the cursor behind
\* the message and, in a stamped message, an earlier one the cursor behind itself.
\* A server that changes its mind within a message loses messages (README).
ServerSend ==
    /\ wsUp /\ phase \notin {"handshake", "connect", "done"} /\ srvPos.msg <= NumDown
    /\ \E count \in IF srvPos.seg = 0 THEN DownSplits[srvPos.msg] ELSE {srvPos.count} :
         LET last == srvPos.seg + 1 = count
             next == IF last THEN [msg |-> srvPos.msg + 1, seg |-> 0, count |-> 0]
                             ELSE [msg |-> srvPos.msg, seg |-> srvPos.seg + 1, count |-> count]
         IN  /\ down' = Append(down, [kind |-> "message", seq |-> srvPos.msg,
                                      seg |-> srvPos.seg, count |-> count,
                                      cursor |-> IF last \/ srvPos.msg \in Stamped
                                                 THEN {next} ELSE {}])
             /\ srvPos' = next
    /\ UNCHANGED <<user, outbox, phase, client, reader, wsUp, up, breaks,
                   srvSeq, srvParts, srvLog, srvClosed>>

\* Something the client cannot decode.
ServerGarbage ==
    /\ wsUp /\ phase \notin {"handshake", "connect", "done"} /\ breaks < MaxBreaks
    /\ breaks' = breaks + 1
    /\ down' = Append(down, [kind |-> "bad", seq |-> 0, seg |-> 0, count |-> 0,
                             cursor |-> {}])
    /\ UNCHANGED <<user, outbox, phase, client, reader, wsUp, up, server>>

Environment ==
    \/ WriteLine \/ Shutdown \/ DropStream
    \/ NetworkBreaks \/ ServerGarbage

Server == ServerDuplicate \/ ServerAccept \/ ServerClosed \/ ServerSend

Next == ClientLoop \/ Environment \/ Server

Spec == Init /\ [][Next]_vars

\* No deadline covers these awaits: connect_async, the handshake, the replay and
\* the sends within an arm of the select, which is not polled meanwhile.  A peer
\* that has gone silent may hold the task there for ever.
Unbounded == phase \in {"connect", "handshake", "replay", "send"}

\* In the select the task is polled, and the ping and the pong deadline notice a
\* dead connection (a ping or a pong of ours is taken as sent at once); the server
\* answers.  The awaits without a deadline, the user, the failures and the timeout
\* on a working connection are under no obligation.
FairSpec ==
    /\ Spec
    /\ WF_vars(ClientLoop /\ breaks' = breaks /\ ~Unbounded)
    /\ WF_vars(Server)

-----------------------------------------------------------------------------
(* Properties.                                                              *)

FlagsOK ==
    /\ shutdownSent \in BOOLEAN
    /\ wsUp \in BOOLEAN
    /\ srvClosed \in BOOLEAN

UserOK == written \in 0..NumLines

ClientOK ==
    /\ lineBuf \in Seq(1..NumLines)
    /\ nextSeq \in Nat \ {0}
    /\ replay \in Seq(Envelope)
    /\ replayAt \in Nat \ {0}
    /\ sending \in Seq(Envelope)
    /\ lost \in SUBSET Nat
    /\ acked \in Nat

ReaderOK ==
    /\ cursor \in Position
    /\ assemblies \in [1..NumDown -> [count : Nat, segs : SUBSET Nat]]
    /\ inbound \in Seq(Nat)

WireOK ==
    /\ up \in Seq(Envelope)
    /\ down \in Seq(Reply)
    /\ breaks \in 0..MaxBreaks

ServerOK ==
    /\ srvSeq \in Nat
    /\ srvParts \in [seq : Nat, segs : SUBSET Nat]
    /\ srvLog \in Seq(Nat)
    /\ srvPos \in Position

TypeOK ==
    /\ phase \in Phases
    /\ outbox \in Seq(Command)
    /\ FlagsOK /\ UserOK /\ ClientOK /\ ReaderOK /\ WireOK /\ ServerOK

Accepted == {srvLog[i] : i \in DOMAIN srvLog}

\* What the client still holds of a line, queued or about to be.
Pending == replay \o sending

Before(e, f) == e.seq < f.seq \/ (e.seq = f.seq /\ e.seg < f.seg)

\* wire_replay_queue, followed by the segments not yet queued, is in the order
\* of numbers and segments without a repetition, and every number in it has
\* been allocated: replay_unacked_wire resends in the order of writing.
ReplaySorted ==
    /\ \A i, j \in 1..Len(Pending) : i < j => Before(Pending[i], Pending[j])
    /\ \A i \in 1..Len(Pending) : Pending[i].seq < nextSeq

\* The client holds every segment of a line under this number.
HeldWhole(line, n) ==
    /\ Segments[line] > 0
    /\ \A s \in 1..Segments[line] :
          \E i \in 1..Len(Pending) : Pending[i] = Split(line, n)[s]

\* While the task lives, a number it allocated is abandoned, covered by an
\* acknowledgement, or all segments of its line are held for the next replay:
\* an acknowledgement, a break or a replay never makes it forget a part.
UnackedKept ==
    phase # "done" =>
        \A n \in 1..(nextSeq - 1) :
            \/ n \in lost
            \/ n <= acked
            \/ \E line \in 1..NumLines : HeldWhole(line, n)

\* End to end, while the task lives: a line with a number was accepted by the
\* server, or is held whole by the client under its position as number, or was
\* abandoned when a send failed between its segments or the splitter refused it.
\* And when the server sees the close envelope it already has every line written
\* before the shutdown that was not abandoned.
NoSilentLoss ==
    /\ phase # "done" =>
         \A line \in 1..written : line < nextSeq =>
             line \in lost \cup Accepted \/ HeldWhole(line, line)
    /\ srvClosed => 1..written \subseteq lost \cup Accepted

\* The reader gets the server's messages once each and in order, whatever
\* breaks, however the server splits a message again after a reconnect, and
\* although the client acknowledges and compares nothing; chunk_assemblies holds
\* but the message that is due next, and no assembly of a delivered one is left.
InboundExactlyOnce ==
    /\ \A i \in 1..Len(inbound) : inbound[i] = i
    /\ \A m \in 1..NumDown : assemblies[m].count > 0 => m = Len(inbound) + 1

\* What the stream promises to its user: the lines come out in order, once,
\* and only abandoned ones are skipped.
Channel == INSTANCE LineChannel WITH sent <- written, log <- srvLog
ChannelSpec == Channel!Spec

\* No await without a deadline holds the task for ever.
Unheld == []<>~Unbounded

\* A written line reaches the server or was abandoned, once failures stop, unless
\* the user shut the stream down first or an await of the task never ends.
LineReachesServer ==
    Unheld =>
        \A line \in 1..NumLines :
            (written >= line) ~> (line \in lost \cup Accepted \/ shutdownSent)

\* Every server message reaches the reader, once failures stop, of a stream that
\* is not shut down and whose task no await holds for ever.
InboundArrives == Unheld => <>(Len(inbound) = NumDown \/ shutdownSent)

\* Only segments of abandoned lines stay in the replay queue, once failures stop
\* and unless an await holds the task for ever: what was accepted is acknowledged
\* and trimmed.
ReplayDrains ==
    Unheld =>
        ((replay # <<>>) ~>
            (shutdownSent \/ \A i \in 1..Len(replay) : replay[i].seq \in lost))
=============================================================================
