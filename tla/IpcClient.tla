------------------------------ MODULE IpcClient ------------------------------
(***************************************************************************)
(* One IpcClient (codex-ipc/src/client/{handle,connection,pending}.rs):     *)
(* callers that register a request, put it in the channel of the write     *)
(* task and wait for a oneshot with a timeout; the read task, which         *)
(* resolves oneshots and answers discovery requests through the same        *)
(* channel; and force_disconnect, which aborts both.                       *)
(*                                                                         *)
(* The router at the other end is external: it runs what it reads, answers *)
(* it, asks whether the client can handle a request, and may close.        *)
(***************************************************************************)
EXTENDS Naturals, Sequences

CONSTANTS
    Calls,       \* requests callers may make
    Discovery,   \* the envelope that is not about one of them
    ChannelCap,  \* capacity of write_tx
    MaxQuestions \* bound on discovery requests

ASSUME ClientAssumption ==
    Discovery \notin Calls /\ ChannelCap \in Nat \ {0} /\ MaxQuestions \in Nat

VARIABLES
    answer,    \* per call: what its caller has been told
    pending,   \* PendingRequests: the calls that have an entry
    box,       \* per call: its oneshot
    out,       \* the channel of the write task, after what that task is writing
    writer, reader,
    fate,      \* per call: where its envelope got to
    inbox,     \* what the router has written and the read task not yet read
    socket, questions

vars == <<answer, pending, box, out, writer, reader, fate, inbox, socket, questions>>

\* connect_with_stream, after its handshake.
Init ==
    /\ answer = [c \in Calls |-> "new"] /\ pending = {}
    /\ box = [c \in Calls |-> "empty"] /\ out = <<>>
    /\ writer = "running" /\ reader = "reading"
    /\ fate = [c \in Calls |-> "none"] /\ inbox = <<>>
    /\ socket = "open" /\ questions = 0

-----------------------------------------------------------------------------
(* send_request.                                                           *)

\* The envelope being written has left its place in the channel.
Room == IF writer = "writing" THEN ChannelCap + 1 ELSE ChannelCap

Insert(c) ==
    /\ answer[c] = "new"
    /\ answer' = [answer EXCEPT ![c] = "waiting"]
    /\ pending' = pending \cup {c}
    /\ UNCHANGED <<box, out, writer, reader, fate, inbox, socket, questions>>

\* Mutant: nobody waits for room.
SendUnbounded(c) ==
    /\ answer[c] = "waiting" /\ writer # "ended"
    /\ out' = Append(out, c)
    /\ answer' = [answer EXCEPT ![c] = "queued"]
    /\ UNCHANGED <<pending, box, writer, reader, fate, inbox, socket, questions>>

\* write_tx.send waits for room: no timeout covers this await.
Send(c) ==
    /\ answer[c] = "waiting" /\ writer # "ended" /\ Len(out) < Room
    /\ out' = Append(out, c)
    /\ answer' = [answer EXCEPT ![c] = "queued"]
    /\ UNCHANGED <<pending, box, writer, reader, fate, inbox, socket, questions>>

\* ConnectionClosed; the entry stays in the map.
SendFails(c) ==
    /\ answer[c] = "waiting" /\ writer = "ended"
    /\ answer' = [answer EXCEPT ![c] = "refused"]
    /\ UNCHANGED <<pending, box, out, writer, reader, fate, inbox, socket, questions>>

Receive(c) ==
    /\ answer[c] = "queued" /\ box[c] # "empty"
    /\ answer' = [answer EXCEPT ![c] = IF box[c] = "response" THEN "ok" ELSE "failed"]
    /\ UNCHANGED <<pending, box, out, writer, reader, fate, inbox, socket, questions>>

\* Mutant: a timeout is reported as a closed connection.
TimeoutAsClosed(c) ==
    /\ answer[c] = "queued" /\ box[c] = "empty"
    /\ answer' = [answer EXCEPT ![c] = "refused"]
    /\ UNCHANGED <<pending, box, out, writer, reader, fate, inbox, socket, questions>>

\* Mutant: only requests the connection still knows are timed.
TimeoutIfConnected(c) ==
    /\ answer[c] = "queued" /\ box[c] = "empty" /\ reader # "ended"
    /\ answer' = [answer EXCEPT ![c] = "failed"]
    /\ UNCHANGED <<pending, box, out, writer, reader, fate, inbox, socket, questions>>

\* An answer that is there wins over the deadline; the entry stays in the map.
Timeout(c) ==
    /\ answer[c] = "queued" /\ box[c] = "empty"
    /\ answer' = [answer EXCEPT ![c] = "failed"]
    /\ UNCHANGED <<pending, box, out, writer, reader, fate, inbox, socket, questions>>

-----------------------------------------------------------------------------
(* write_loop.                                                             *)

Take ==
    /\ writer = "running" /\ out # <<>>
    /\ writer' = "writing"
    /\ UNCHANGED <<answer, pending, box, out, reader, fate, inbox, socket, questions>>

\* write_frame returns; no timeout covers it.  Into a socket that is closed a
\* write may vanish, or fail, which ends the task and with it the channel.
WriteNext ==
    /\ writer = "writing"
    /\ writer' = "running"
    /\ out' = Tail(out)
    /\ fate' = IF socket = "closed" \/ Head(out) = Discovery THEN fate
               ELSE [fate EXCEPT ![Head(out)] = "sent"]
    /\ UNCHANGED <<answer, pending, box, reader, inbox, socket, questions>>

WriteFails ==
    /\ writer = "writing" /\ socket = "closed"
    /\ writer' = "ended" /\ out' = <<>>
    /\ UNCHANGED <<answer, pending, box, reader, fate, inbox, socket, questions>>

-----------------------------------------------------------------------------
(* read_loop.                                                              *)

\* Mutant: the entry goes, and its sender with it.
ReadUnresolved ==
    /\ reader = "reading" /\ inbox # <<>> /\ Head(inbox) # Discovery
    /\ inbox' = Tail(inbox)
    /\ pending' = pending \ {Head(inbox)}
    /\ UNCHANGED <<answer, box, out, writer, reader, fate, socket, questions>>

\* pending.resolve: a response nobody waits for any more finds its entry too.
ReadResponse ==
    /\ reader = "reading" /\ inbox # <<>> /\ Head(inbox) # Discovery
    /\ inbox' = Tail(inbox)
    /\ pending' = pending \ {Head(inbox)}
    /\ box' = IF Head(inbox) \in pending THEN [box EXCEPT ![Head(inbox)] = "response"]
              ELSE box
    /\ UNCHANGED <<answer, out, writer, reader, fate, socket, questions>>

ReadDiscovery ==
    /\ reader = "reading" /\ inbox # <<>> /\ Head(inbox) = Discovery
    /\ inbox' = Tail(inbox)
    /\ reader' = "answering"
    /\ UNCHANGED <<answer, pending, box, out, writer, fate, socket, questions>>

\* The read task, too, waits for room; nothing is read meanwhile.  If the
\* channel is closed it ends, and leaves the pending requests as they are.
AnswerDiscovery ==
    /\ reader = "answering"
    /\ \/ /\ writer # "ended" /\ Len(out) < Room
          /\ out' = Append(out, Discovery) /\ reader' = "reading"
       \/ writer = "ended" /\ reader' = "ended" /\ UNCHANGED out
    /\ UNCHANGED <<answer, pending, box, writer, fate, inbox, socket, questions>>

\* PendingRequests::clear.
Clear ==
    /\ box' = [c \in Calls |-> IF c \in pending THEN "cleared" ELSE box[c]]
    /\ pending' = {}

ReadEnds ==
    /\ reader = "reading" /\ inbox = <<>> /\ socket = "closed"
    /\ reader' = "ended" /\ Clear
    /\ UNCHANGED <<answer, out, writer, fate, inbox, socket, questions>>

\* force_disconnect, and disconnect by the last holder of the client; it clears
\* again what was registered after the read task had ended.
ForceDisconnect ==
    /\ reader' = "ended" /\ writer' = "ended" /\ out' = <<>> /\ Clear
    /\ socket' = "closed" /\ inbox' = <<>>
    /\ UNCHANGED <<answer, fate, questions>>

-----------------------------------------------------------------------------
(* The router.                                                             *)

RouterRuns(c) ==
    /\ fate[c] = "sent"
    /\ fate' = [fate EXCEPT ![c] = "ran"]
    /\ inbox' = IF socket = "open" THEN Append(inbox, c) ELSE inbox
    /\ UNCHANGED <<answer, pending, box, out, writer, reader, socket, questions>>

RouterAsks ==
    /\ socket = "open" /\ questions < MaxQuestions
    /\ questions' = questions + 1
    /\ inbox' = Append(inbox, Discovery)
    /\ UNCHANGED <<answer, pending, box, out, writer, reader, fate, socket>>

\* What it wrote before can still be read, or is lost with the connection.
RouterCloses ==
    /\ socket = "open" /\ socket' = "closed"
    /\ inbox' \in {inbox, <<>>}
    /\ UNCHANGED <<answer, pending, box, out, writer, reader, fate, questions>>

-----------------------------------------------------------------------------
Caller(c) == Insert(c) \/ Send(c) \/ SendFails(c) \/ Receive(c) \/ Timeout(c)
Writer == Take \/ WriteNext \/ WriteFails
Reader == ReadResponse \/ ReadDiscovery \/ AnswerDiscovery \/ ReadEnds

Next ==
    \/ Writer \/ Reader \/ ForceDisconnect \/ RouterAsks \/ RouterCloses
    \/ \E c \in Calls : Caller(c) \/ RouterRuns(c)

Spec == Init /\ [][Next]_vars

\* Tokio runs the tasks and timers.  A write into an open socket waits for the
\* router, which is under no obligation to read; into a closed one it ends.
FairSpec ==
    /\ Spec /\ WF_vars(Reader)
    /\ WF_vars(Take) /\ WF_vars((WriteNext \/ WriteFails) /\ socket = "closed")
    /\ \A c \in Calls : WF_vars(Send(c) \/ SendFails(c) \/ Receive(c) \/ Timeout(c))

-----------------------------------------------------------------------------
(* Properties.                                                             *)

TypeOK ==
    /\ answer \in [Calls -> {"new", "waiting", "queued", "ok", "failed", "refused"}]
    /\ pending \subseteq Calls
    /\ box \in [Calls -> {"empty", "response", "cleared"}]
    /\ out \in Seq(Calls \cup {Discovery}) /\ Len(out) <= Room
    /\ writer \in {"running", "writing", "ended"} /\ (writer = "writing" => out # <<>>)
    /\ reader \in {"reading", "answering", "ended"}
    /\ fate \in [Calls -> {"none", "sent", "ran"}]
    /\ inbox \in Seq(Calls \cup {Discovery})
    /\ socket \in {"open", "closed"} /\ questions \in 0..MaxQuestions

\* No caller is forgotten: whoever waits has its entry, for a response or the end
\* of the connection to find, or something in its oneshot; and the response of a
\* caller that waits comes from a run of its request.
WaitersAreTracked ==
    \A c \in Calls :
        /\ answer[c] \in {"waiting", "queued"} => c \in pending \/ box[c] # "empty"
        /\ answer[c] = "queued" /\ box[c] = "response" => fate[c] = "ran"

Contract == INSTANCE CallContract WITH
    Kind <- [c \in Calls |-> "request"], answer <- answer,
    runs <- [c \in Calls |-> IF fate[c] = "ran" THEN 1 ELSE 0]

\* The client keeps the promises of CallContract: a caller told that the
\* connection is closed has not been heard by the router and never will be.
ContractSpec == Contract!Spec

Returned(c) == answer[c] \in {"ok", "failed", "refused"}

\* A caller whose request got into the channel returns, though the router never
\* reads another byte or answers nothing; one that waits for room in the channel
\* returns too, unless a write waits for the router for ever.
EveryCallReturns ==
    /\ \A c \in Calls : answer[c] = "queued" ~> Returned(c)
    /\ []<>(writer # "writing") => \A c \in Calls : answer[c] = "waiting" ~> Returned(c)
=============================================================================
