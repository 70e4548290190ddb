--------------------------- MODULE ServerSession ---------------------------
(***************************************************************************)
(* A remote session of codex-mobile-client (session/connection.rs): one    *)
(* worker task per runtime, each owning its app-server client and taking   *)
(* commands from a bounded channel, all sharing one watch value for the    *)
(* health of the connection; callers that await their answers; and         *)
(* disconnect, which any holder of the session may call meanwhile.         *)
(*                                                                         *)
(* The app-server client is external.  A request it sends may be run by    *)
(* the server even when the connection breaks before the answer, and then  *)
(* at any later time; once broken, the client fails every call, reports    *)
(* one Disconnected event or none, and then ends.                          *)
(***************************************************************************)
EXTENDS Naturals, Sequences

CONSTANTS
    Runtimes, Primary, \* the runtimes of the session; the first of them
    Calls,             \* calls the session's users may make
    Kind, Target,      \* per call: its command and the runtime it names
    MaxAttempts,       \* REMOTE_RECONNECT_MAX_ATTEMPTS
    QueueCap,          \* capacity of a command channel
    MaxBreaks,         \* bound on failures of connections
    Shutdown, NoCall   \* the command that is not a call; no command

ASSUME SessionAssumption ==
    /\ Primary \in Runtimes
    /\ Kind \in [Calls -> {"request", "notify", "resolve", "reject"}]
    /\ Shutdown \notin Calls /\ NoCall \notin Calls
    /\ MaxAttempts \in Nat \ {0} /\ QueueCap \in Nat \ {0} /\ MaxBreaks \in Nat

VARIABLES
    health,    \* the watch value
    published, \* has connect_remote_multiplexed sent its Connected?
    queue,     \* per runtime: its command channel
    pc,        \* per runtime: where its worker awaits
    current,   \* per runtime: the request being served, and which copy of it
    why,       \* per runtime: what made it reconnect
    attempt,   \* per runtime: attempt of reconnect_remote_client
    link,      \* per runtime: its client's connection
    breaks,
    answer,    \* per call: what its caller has been told
    copies,    \* per call: the fate of its first send and of its retry
    stop,      \* where disconnect stands
    toStop     \* the runtimes it has still to send Shutdown to

worker == <<queue, pc, current, why, attempt>>
vars   == <<health, published, worker, link, breaks, answer, copies, stop, toStop>>

Connected     == [is |-> "connected", attempt |-> 0]
Disconnected  == [is |-> "disconnected", attempt |-> 0]
Connecting(n) == [is |-> "connecting", attempt |-> n]

None == [call |-> NoCall, copy |-> 0]
Serving(c, copy) == [call |-> c, copy |-> copy]

\* Notify and Reject always use command_tx; an unknown runtime falls back to it.
Route(c) == IF Kind[c] \in {"notify", "reject"} \/ Target[c] \notin Runtimes
            THEN Primary ELSE Target[c]

Unsent == <<"none", "none">>

\* connect_remote_multiplexed: the workers run before it publishes Connected.
Init ==
    /\ health = Connecting(1) /\ published = FALSE
    /\ queue = [r \in Runtimes |-> <<>>] /\ pc = [r \in Runtimes |-> "idle"]
    /\ current = [r \in Runtimes |-> None] /\ why = [r \in Runtimes |-> "none"]
    /\ attempt = [r \in Runtimes |-> 0]
    /\ link = [r \in Runtimes |-> "up"] /\ breaks = 0
    /\ answer = [c \in Calls |-> "new"] /\ copies = [c \in Calls |-> Unsent]
    /\ stop = "no" /\ toStop = {}

Publish ==
    /\ ~published
    /\ published' = TRUE /\ health' = Connected
    /\ UNCHANGED <<worker, link, breaks, answer, copies, stop, toStop>>

-----------------------------------------------------------------------------
(* Callers: request_client_for_runtime, notify, respond_for_runtime, reject. *)

Ask(c) ==
    /\ published /\ answer[c] = "new"
    /\ answer' = [answer EXCEPT ![c] = "waiting"]
    /\ UNCHANGED <<health, published, worker, link, breaks, copies, stop, toStop>>

\* The channel has room.
Enqueue(c) ==
    LET r == Route(c) IN
    /\ answer[c] = "waiting" /\ pc[r] # "exited" /\ Len(queue[r]) < QueueCap
    /\ queue' = [queue EXCEPT ![r] = Append(@, c)]
    /\ answer' = [answer EXCEPT ![c] = "queued"]
    /\ UNCHANGED <<health, published, pc, current, why, attempt, link, breaks, copies,
                   stop, toStop>>

\* The receiver is gone: RpcError::Transport(Disconnected).
Refused(c) ==
    /\ answer[c] = "waiting" /\ pc[Route(c)] = "exited"
    /\ answer' = [answer EXCEPT ![c] = "refused"]
    /\ UNCHANGED <<health, published, worker, link, breaks, copies, stop, toStop>>

-----------------------------------------------------------------------------
(* The server and the network.                                             *)

\* The copies of calls that are on their way on the connection of r.
OnTheWay(r) == {x \in Calls \X {1, 2} : Route(x[1]) = r /\ copies[x[1]][x[2]] = "sent"}

\* A connection fails, taking with it any of the messages on their way.
\* close_current_connections does the same to it from this side.
Break(r) ==
    /\ link[r] = "up" /\ breaks < MaxBreaks
    /\ breaks' = breaks + 1
    /\ link' = [link EXCEPT ![r] = "broken"]
    /\ \E gone \in SUBSET OnTheWay(r) :
         copies' = [c \in Calls |-> [i \in 1..2 |->
                      IF <<c, i>> \in gone THEN "lost" ELSE copies[c][i]]]
    /\ UNCHANGED <<health, published, worker, answer, stop, toStop>>

\* The server runs a command; the answer to a request reaches the client
\* only on the connection that carried it.
Run(c, i) ==
    LET r == Route(c) IN
    /\ copies[c][i] = "sent"
    /\ copies' = [copies EXCEPT ![c][i] = "ran"]
    /\ pc' = IF pc[r] = "awaiting" /\ current[r] = Serving(c, i) /\ link[r] = "up"
             THEN [pc EXCEPT ![r] = "answered"] ELSE pc
    /\ UNCHANGED <<health, published, queue, current, why, attempt, link, breaks, answer,
                   stop, toStop>>

-----------------------------------------------------------------------------
(* The worker: spawn_remote_runtime_worker.                                *)

\* client.request: awaited inline, so nothing else is served meanwhile.
Send(r, c, i) ==
    /\ pc' = [pc EXCEPT ![r] = "awaiting"]
    /\ current' = [current EXCEPT ![r] = Serving(c, i)]
    /\ copies' = IF link[r] = "up" THEN [copies EXCEPT ![c][i] = "sent"] ELSE copies

TakeRequest(r) ==
    /\ pc[r] = "idle" /\ queue[r] # <<>> /\ Head(queue[r]) # Shutdown
    /\ Kind[Head(queue[r])] = "request"
    /\ Send(r, Head(queue[r]), 1)
    /\ queue' = [queue EXCEPT ![r] = Tail(@)]
    /\ UNCHANGED <<health, published, why, attempt, link, breaks, answer, stop, toStop>>

\* Notify, Resolve and Reject: one send, never a retry.
TakeOneWay(r) ==
    LET c == Head(queue[r]) IN
    /\ pc[r] = "idle" /\ queue[r] # <<>> /\ Head(queue[r]) # Shutdown
    /\ Kind[c] # "request"
    /\ queue' = [queue EXCEPT ![r] = Tail(@)]
    /\ IF link[r] = "up"
       THEN /\ answer' = [answer EXCEPT ![c] = "ok"]
            /\ copies' = [copies EXCEPT ![c][1] = "sent"]
       ELSE /\ answer' = [answer EXCEPT ![c] = "failed"]
            /\ UNCHANGED copies
    /\ UNCHANGED <<health, published, pc, current, why, attempt, link, breaks, stop, toStop>>

\* response_tx.send, and back to the select.
Reply(r, outcome) ==
    /\ answer' = [answer EXCEPT ![current[r].call] = outcome]
    /\ current' = [current EXCEPT ![r] = None]
    /\ pc' = [pc EXCEPT ![r] = "idle"]

Answered(r) ==
    /\ pc[r] = "answered"
    /\ Reply(r, "ok")
    /\ UNCHANGED <<health, published, queue, why, attempt, link, breaks, copies, stop, toStop>>

\* The first round of reconnect_remote_client.
StartReconnect(r, reason) ==
    /\ pc' = [pc EXCEPT ![r] = "connecting"]
    /\ why' = [why EXCEPT ![r] = reason]
    /\ attempt' = [attempt EXCEPT ![r] = 1]
    /\ health' = Connecting(1)

\* The request fails in transport: reconnect, once per request.
RequestFails(r) ==
    /\ pc[r] = "awaiting" /\ link[r] # "up" /\ current[r].copy = 1
    /\ StartReconnect(r, "request")
    /\ UNCHANGED <<published, queue, current, link, breaks, answer, copies, stop, toStop>>

RetryFails(r) ==
    /\ pc[r] = "awaiting" /\ link[r] # "up" /\ current[r].copy = 2
    /\ Reply(r, "failed")
    /\ UNCHANGED <<health, published, queue, why, attempt, link, breaks, copies, stop, toStop>>

\* client.next_event(): the Disconnected event, then the end of the events.
NextEvent(r) ==
    /\ pc[r] = "idle" /\ link[r] # "up"
    /\ StartReconnect(r, IF link[r] = "broken" THEN "event" ELSE "end")
    /\ link' = [link EXCEPT ![r] = "ended"]
    /\ UNCHANGED <<published, queue, current, breaks, answer, copies, stop, toStop>>

\* A client without a last event: its events end at once.
SkipEvent(r) ==
    /\ link[r] = "broken"
    /\ link' = [link EXCEPT ![r] = "ended"]
    /\ UNCHANGED <<health, published, worker, breaks, answer, copies, stop, toStop>>

\* Mutant: the new connection is not published.
AttemptSucceedsQuietly(r) ==
    /\ pc[r] = "connecting"
    /\ link' = [link EXCEPT ![r] = "up"]
    /\ why' = [why EXCEPT ![r] = "none"] /\ attempt' = [attempt EXCEPT ![r] = 0]
    /\ IF why[r] = "request"
       THEN /\ pc' = [pc EXCEPT ![r] = "awaiting"]
            /\ current' = [current EXCEPT ![r].copy = 2]
            /\ copies' = [copies EXCEPT ![current[r].call][2] = "sent"]
       ELSE /\ pc' = [pc EXCEPT ![r] = "idle"]
            /\ UNCHANGED <<current, copies>>
    /\ UNCHANGED <<health, published, queue, breaks, answer, stop, toStop>>

\* A fresh client and a Connected session; a failed request is sent again.
AttemptSucceeds(r) ==
    /\ pc[r] = "connecting"
    /\ link' = [link EXCEPT ![r] = "up"]
    /\ health' = Connected
    /\ why' = [why EXCEPT ![r] = "none"] /\ attempt' = [attempt EXCEPT ![r] = 0]
    /\ IF why[r] = "request"
       THEN /\ pc' = [pc EXCEPT ![r] = "awaiting"]
            /\ current' = [current EXCEPT ![r].copy = 2]
            /\ copies' = [copies EXCEPT ![current[r].call][2] = "sent"]
       ELSE /\ pc' = [pc EXCEPT ![r] = "idle"]
            /\ UNCHANGED <<current, copies>>
    /\ UNCHANGED <<published, queue, breaks, answer, stop, toStop>>

\* Mutant: one attempt too many is announced.
AttemptFailsOnce(r) ==
    /\ pc[r] = "connecting" /\ attempt[r] <= MaxAttempts
    /\ attempt' = [attempt EXCEPT ![r] = @ + 1]
    /\ health' = Connecting(attempt[r] + 1)
    /\ UNCHANGED <<published, queue, pc, current, why, link, breaks, answer, copies,
                   stop, toStop>>

AttemptFails(r) ==
    /\ pc[r] = "connecting" /\ attempt[r] < MaxAttempts
    /\ attempt' = [attempt EXCEPT ![r] = @ + 1]
    /\ health' = Connecting(attempt[r] + 1)
    /\ UNCHANGED <<published, queue, pc, current, why, link, breaks, answer, copies,
                   stop, toStop>>

\* Leaving the loop drops command_rx: what is queued is answered Disconnected.
Exit(r) ==
    /\ pc' = [pc EXCEPT ![r] = "exited"]
    /\ answer' = [c \in Calls |-> IF \E i \in 1..Len(queue[r]) : queue[r][i] = c
                                  THEN "refused" ELSE answer[c]]
    /\ queue' = [queue EXCEPT ![r] = <<>>]

\* Mutant: a request whose connection is given up fails like one never sent.
GiveUpRefusing(r) ==
    /\ pc[r] = "connecting" /\ attempt[r] = MaxAttempts
    /\ health' = Disconnected
    /\ why' = [why EXCEPT ![r] = "none"] /\ attempt' = [attempt EXCEPT ![r] = 0]
    /\ \/ why[r] = "request" /\ Reply(r, "refused") /\ UNCHANGED queue
       \/ /\ why[r] = "event" /\ pc' = [pc EXCEPT ![r] = "idle"]
          /\ UNCHANGED <<queue, current, answer>>
       \/ why[r] = "end" /\ Exit(r) /\ UNCHANGED current
    /\ UNCHANGED <<published, link, breaks, copies, stop, toStop>>

\* Mutant: the worker leaves after a failed request, its caller still waiting.
GiveUpUnanswered(r) ==
    /\ pc[r] = "connecting" /\ attempt[r] = MaxAttempts
    /\ health' = Disconnected
    /\ why' = [why EXCEPT ![r] = "none"] /\ attempt' = [attempt EXCEPT ![r] = 0]
    /\ IF why[r] = "event"
       THEN pc' = [pc EXCEPT ![r] = "idle"] /\ UNCHANGED <<queue, current, answer>>
       ELSE Exit(r) /\ UNCHANGED current
    /\ UNCHANGED <<published, link, breaks, copies, stop, toStop>>

\* All attempts have failed: a request is answered, a Disconnected event is
\* routed (the worker goes on with its dead client), the end of events ends it.
GiveUp(r) ==
    /\ pc[r] = "connecting" /\ attempt[r] = MaxAttempts
    /\ health' = Disconnected
    /\ why' = [why EXCEPT ![r] = "none"] /\ attempt' = [attempt EXCEPT ![r] = 0]
    /\ \/ why[r] = "request" /\ Reply(r, "failed") /\ UNCHANGED queue
       \/ /\ why[r] = "event" /\ pc' = [pc EXCEPT ![r] = "idle"]
          /\ UNCHANGED <<queue, current, answer>>
       \/ why[r] = "end" /\ Exit(r) /\ UNCHANGED current
    /\ UNCHANGED <<published, link, breaks, copies, stop, toStop>>

TakeShutdown(r) ==
    /\ pc[r] = "idle" /\ queue[r] # <<>> /\ Head(queue[r]) = Shutdown
    /\ Exit(r)
    /\ link' = [link EXCEPT ![r] = "ended"]
    /\ UNCHANGED <<health, published, current, why, attempt, breaks, copies, stop, toStop>>

-----------------------------------------------------------------------------
(* disconnect_inner.                                                       *)

Disconnect ==
    /\ published /\ stop = "no"
    /\ health' = Disconnected
    /\ stop' = "primary"
    /\ UNCHANGED <<published, worker, link, breaks, answer, copies, toStop>>

\* A bounded channel: the send waits for room, and is ignored on a closed one.
SendShutdown(r) ==
    /\ pc[r] = "exited" \/ Len(queue[r]) < QueueCap
    /\ queue' = IF pc[r] = "exited" THEN queue
                ELSE [queue EXCEPT ![r] = Append(@, Shutdown)]
    /\ UNCHANGED <<health, published, pc, current, why, attempt, link, breaks, answer, copies>>

\* Mutant: only command_tx is told.
StopPrimaryOnly ==
    /\ stop = "primary"
    /\ SendShutdown(Primary)
    /\ stop' = "runtimes" /\ toStop' = {}

StopPrimary ==
    /\ stop = "primary"
    /\ SendShutdown(Primary)
    /\ stop' = "runtimes" /\ toStop' = Runtimes

\* runtime_command_txs.values(), in any order; the primary is among them.
StopRuntime(r) ==
    /\ stop = "runtimes" /\ r \in toStop
    /\ SendShutdown(r)
    /\ toStop' = toStop \ {r} /\ UNCHANGED stop

\* The pause of 100 ms is over, wherever the workers are by then: worker_handle
\* only joins them, so its abort leaves them running.
Return ==
    /\ stop = "runtimes" /\ toStop = {}
    /\ stop' = "done"
    /\ UNCHANGED <<health, published, worker, link, breaks, answer, copies, toStop>>

-----------------------------------------------------------------------------
Worker(r) ==
    \/ TakeRequest(r) \/ TakeOneWay(r) \/ TakeShutdown(r) \/ Answered(r)
    \/ RequestFails(r) \/ RetryFails(r) \/ NextEvent(r)
    \/ AttemptSucceeds(r) \/ AttemptFails(r) \/ GiveUp(r)

Disconnecting == Disconnect \/ StopPrimary \/ Return \/ \E r \in Runtimes : StopRuntime(r)

Next ==
    \/ Publish \/ Disconnecting
    \/ \E c \in Calls : Ask(c) \/ Enqueue(c) \/ Refused(c) \/ Run(c, 1) \/ Run(c, 2)
    \/ \E r \in Runtimes : Worker(r) \/ Break(r) \/ SkipEvent(r)

Spec == Init /\ [][Next]_vars

\* Tokio runs the tasks; the server answers on a connection that holds.  An
\* attempt to connect ends, one way or the other; nothing makes it succeed.
FairSpec ==
    /\ Spec /\ WF_vars(Publish) /\ WF_vars(StopPrimary) /\ WF_vars(Return)
    /\ \A r \in Runtimes : WF_vars(Worker(r)) /\ WF_vars(StopRuntime(r))
    /\ \A c \in Calls : /\ WF_vars(Enqueue(c)) /\ WF_vars(Refused(c))
                        /\ WF_vars(Run(c, 1)) /\ WF_vars(Run(c, 2))

-----------------------------------------------------------------------------
(* Properties.                                                             *)

WorkerOK ==
    /\ queue \in [Runtimes -> Seq(Calls \cup {Shutdown})]
    /\ pc \in [Runtimes -> {"idle", "awaiting", "answered", "connecting", "exited"}]
    /\ current \in [Runtimes -> [call : Calls \cup {NoCall}, copy : 0..2]]
    /\ why \in [Runtimes -> {"none", "request", "event", "end"}]
    /\ attempt \in [Runtimes -> 0..MaxAttempts]
    /\ link \in [Runtimes -> {"up", "broken", "ended"}]

CallsOK ==
    /\ answer \in [Calls -> {"new", "waiting", "queued", "ok", "failed", "refused"}]
    /\ copies \in [Calls -> [1..2 -> {"none", "sent", "ran", "lost"}]]

HealthOK == health \in {Connected, Disconnected} \cup {Connecting(n) : n \in 1..MaxAttempts}

TypeOK ==
    /\ WorkerOK /\ CallsOK /\ HealthOK
    /\ published \in BOOLEAN /\ breaks \in 0..MaxBreaks
    /\ stop \in {"no", "primary", "runtimes", "done"} /\ toStop \subseteq Runtimes

\* While every runtime's connection holds, the session is reported Connected
\* to whoever watches its health, however many workers have been writing to
\* the one watch value and in whatever order.
HealthyLinksReported ==
    published /\ stop = "no" /\ (\A r \in Runtimes : link[r] = "up")
        => health = Connected

\* What a caller may conclude from its answer: ok, a request has run;
\* refused (Disconnected), it never ran and never will.
AnswersAreTrue ==
    \A c \in Calls :
        /\ answer[c] = "ok" /\ Kind[c] = "request"
             => \E i \in 1..2 : copies[c][i] = "ran"
        /\ answer[c] = "refused" => copies[c] = Unsent

Contract == INSTANCE CallContract WITH
    answer <- answer,
    runs   <- [c \in Calls |-> IF copies[c] = <<"ran", "ran">> THEN 2
                               ELSE IF \E i \in 1..2 : copies[c][i] = "ran" THEN 1 ELSE 0]

\* The session implements what CallContract promises its callers: a call runs
\* at most twice, and never after its caller has been told Disconnected.
ContractSpec == Contract!Spec

\* Every call is answered: with a result, a failure, or Disconnected.
EveryCallAnswered ==
    \A c \in Calls : answer[c] = "waiting" ~> answer[c] \in {"ok", "failed", "refused"}

\* Disconnecting ends, also with full channels and workers that are gone, and
\* every worker exits, if later than disconnect returns.
DisconnectEnds ==
    stop = "primary" ~> stop = "done" /\ \A r \in Runtimes : pc[r] = "exited"
=============================================================================
