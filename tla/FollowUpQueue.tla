--------------------------- MODULE FollowUpQueue ---------------------------
(***************************************************************************)
(* Messages a user writes to a thread while a turn is running              *)
(* (mobile_client/mod.rs, mobile_client/store_listener.rs,                 *)
(* store/reducer.rs).  start_turn keeps such a message as a draft in the   *)
(* store; the user may steer it into the running turn or delete it; the    *)
(* task that applies the server's events to the store sends the first      *)
(* draft when a turn completes, and takes the first draft off the queue    *)
(* whenever a turn starts or a user message comes back from the server.    *)
(*                                                                         *)
(* One thread of one session.  The server is external: it runs one turn at *)
(* a time, adds what it is given meanwhile to the running turn, and        *)
(* reports starts, user messages and completions in order.  A connection   *)
(* may break under a request, which the server takes all the same, at once *)
(* or later, or never; the session's worker sends it once more.  No event  *)
(* is lost with a connection.                                              *)
(***************************************************************************)
EXTENDS Naturals, Sequences

CONSTANTS
    Messages,    \* what the user writes, each once
    Textless,    \* messages of skills and mentions only, which make no draft
    Taps,        \* taps on "steer" or "delete"
    MaxFailures, \* bound on requests that break or are refused
    NoMessage

ASSUME QueueAssumption ==
    /\ Textless \subseteq Messages /\ NoMessage \notin Messages
    /\ Messages \cap Taps = {}
    /\ MaxFailures \in Nat

VARIABLES
    \* the thread in the store
    drafts, activeTurn,
    \* UI events on their way to the store listener, and where it stands
    events, listener, sending,
    \* per message: its start_turn; per tap: its steer or delete
    writer, aim, tap,
    \* the server: the running turn (0: none), turns so far, messages taken
    turn, turns, taken,
    \* requests that failed; those being sent again; copies on broken connections
    failures, again, adrift,
    \* history: messages queued and deleted; has a delete undone a change?
    queued, deleted, clobbered

store   == <<drafts, activeTurn>>
listen  == <<listener, sending>>
writing == <<writer, aim>>
server  == <<turn, turns, taken>>
network == <<failures, again, adrift>>
history == <<queued, deleted, clobbered>>
vars    == <<store, events, listen, writing, tap, server, network, history>>

Drafts == [msg : Messages \ Textless, kind : {"message", "pending steer"}]
Draft(m, kind) == [msg |-> m, kind |-> kind]

\* The drafts of q that are in S, in their order: Vec::retain and filter.
Kept(q, S) ==
    LET kept[i \in 0..Len(q)] ==
            IF i = 0 THEN <<>>
            ELSE IF q[i] \in S THEN Append(kept[i - 1], q[i]) ELSE kept[i - 1]
    IN  kept[Len(q)]

NoTap == [pc |-> "none", msg |-> NoMessage, turn |-> 0, next |-> <<>>]

Init ==
    /\ drafts = <<>> /\ activeTurn = 0
    /\ events = <<>> /\ listener = "recv" /\ sending = NoMessage
    /\ writer = [m \in Messages |-> "unwritten"] /\ aim = [m \in Messages |-> 0]
    /\ tap = [k \in Taps |-> NoTap]
    /\ turn = 0 /\ turns = 0 /\ taken = <<>>
    /\ failures = 0 /\ again = {} /\ adrift = {}
    /\ queued = {} /\ deleted = {} /\ clobbered = FALSE

-----------------------------------------------------------------------------
(* The server.                                                              *)

Started(n) == [is |-> "started", turn |-> n]
Completed(n) == [is |-> "completed", turn |-> n]
UserMessage(n) == [is |-> "user message", turn |-> n]

\* A message as the agent has it: by the request that was answered, or by the one
\* under which the connection broke as the n-th failure.
Copy(m, n) == [msg |-> m, broke |-> n]

\* turn/start: a new turn, or more input for the running one.
TakeStart(copy) ==
    /\ taken' = Append(taken, copy)
    /\ IF turn = 0
       THEN /\ turn' = turns + 1 /\ turns' = turns + 1
            /\ events' = events \o <<Started(turns + 1), UserMessage(turns + 1)>>
       ELSE /\ events' = Append(events, UserMessage(turn))
            /\ UNCHANGED <<turn, turns>>

\* turn/steer with expected_turn_id.
TakeSteer(copy, expected) ==
    /\ turn = expected
    /\ taken' = Append(taken, copy)
    /\ events' = Append(events, UserMessage(turn))
    /\ UNCHANGED <<turn, turns>>

Complete ==
    /\ turn # 0
    /\ turn' = 0
    /\ events' = Append(events, Completed(turn))
    /\ UNCHANGED <<store, listen, writing, tap, turns, taken, network, history>>

\* What was sent on a connection that broke: a steer of turn t, a start when t is 0.
Arrive(c) ==
    /\ adrift' = adrift \ {c}
    /\ IF c.turn = 0 THEN TakeStart(c.copy) ELSE TakeSteer(c.copy, c.turn)
    /\ UNCHANGED <<store, listen, writing, tap, failures, again, history>>

-----------------------------------------------------------------------------
(* A request of w: an answer, a refusal, or a connection that breaks.       *)

Break(m, t) ==
    /\ failures < MaxFailures /\ failures' = failures + 1
    /\ adrift' = adrift \cup {[copy |-> Copy(m, failures + 1), turn |-> t]}

Refuse ==
    /\ failures < MaxFailures /\ failures' = failures + 1
    /\ UNCHANGED adrift

Answered(w) == again' = again \ {w} /\ UNCHANGED <<failures, adrift>>

Failed(w, m, t) ==
    /\ Break(m, t) \/ Refuse
    /\ again' = again \ {w}
    /\ UNCHANGED <<events, server>>

\* The server refuses a steer whose turn is over, or the request fails.
Unsteered(w, m, expected) ==
    \/ turn # expected /\ Answered(w) /\ UNCHANGED <<events, server>>
    \/ Failed(w, m, expected)

Automatic == "the automatic send"

\* The worker of the session reconnects and sends the request again, once.
SendAgain(w, m, t) ==
    /\ w \notin again /\ again' = again \cup {w}
    /\ Break(m, t)
    /\ UNCHANGED <<store, events, listen, writing, tap, server, history>>

-----------------------------------------------------------------------------
(* The store listener: one event at a time, the automatic send awaited.     *)

\* remove_first_queued_follow_up.
RemoveFirst(q) == IF q = <<>> THEN q ELSE Tail(q)

Receive(kind) ==
    /\ listener = "recv" /\ events # <<>> /\ Head(events).is = kind
    /\ events' = Tail(events)
    /\ UNCHANGED <<sending, writing, tap, server, network, history>>

TurnStarted ==
    /\ Receive("started")
    /\ drafts' = RemoveFirst(drafts)
    /\ activeTurn' = Head(events).turn
    /\ UNCHANGED listener

\* apply_item_update of a user message: every one is a turn boundary.
UserItem ==
    /\ Receive("user message")
    /\ drafts' = RemoveFirst(drafts)
    /\ UNCHANGED <<activeTurn, listener>>

\* Mutant: drafts that were steered stay in the queue.
TurnCompletedKeepsSteered ==
    /\ Receive("completed")
    /\ activeTurn' = 0
    /\ listener' = "check"
    /\ UNCHANGED drafts

\* Drafts that were steered are done with.
TurnCompleted ==
    /\ Receive("completed")
    /\ activeTurn' = 0
    /\ drafts' = Kept(drafts, {d \in Drafts : d.kind # "pending steer"})
    /\ listener' = "check"

\* maybe_send_next_local_queued_follow_up reads the store again.
SendNext ==
    /\ listener = "check"
    /\ IF activeTurn # 0 \/ drafts = <<>>
       THEN listener' = "recv" /\ UNCHANGED sending
       ELSE listener' = "send" /\ sending' = Head(drafts).msg
    /\ UNCHANGED <<store, events, writing, tap, server, network, history>>

\* The draft stays; the start of the turn is to take it off the queue.
Sent ==
    /\ listener = "send"
    /\ listener' = "recv" /\ sending' = NoMessage
    /\ \/ TakeStart(Copy(sending, 0)) /\ Answered(Automatic)
       \/ Failed(Automatic, sending, 0)
    /\ UNCHANGED <<store, writing, tap, history>>

-----------------------------------------------------------------------------
(* start_turn.                                                             *)

\* Mutant: a message without text is queued like any other.
WriteQueuesAll(m) ==
    /\ writer[m] = "unwritten"
    /\ aim' = [aim EXCEPT ![m] = activeTurn]
    /\ writer' = [writer EXCEPT ![m] = IF activeTurn = 0 THEN "start" ELSE "queue"]
    /\ UNCHANGED <<store, events, listen, tap, server, network, history>>

\* The snapshot decides: start a turn, queue a draft, or steer at once.
Write(m) ==
    /\ writer[m] = "unwritten"
    /\ aim' = [aim EXCEPT ![m] = activeTurn]
    /\ writer' = [writer EXCEPT ![m] = IF activeTurn = 0 THEN "start"
                                       ELSE IF m \in Textless THEN "steer" ELSE "queue"]
    /\ UNCHANGED <<store, events, listen, tap, server, network, history>>

\* enqueue_thread_follow_up_draft, and start_turn is done.
Queue(m) ==
    /\ writer[m] = "queue"
    /\ drafts' = Append(drafts, Draft(m, "message"))
    /\ queued' = queued \cup {m}
    /\ writer' = [writer EXCEPT ![m] = "done"]
    /\ UNCHANGED <<activeTurn, events, listen, aim, tap, server, network, deleted, clobbered>>

\* A steer that the server refuses, or that fails, falls through to turn/start.
SteerAtOnce(m) ==
    /\ writer[m] = "steer"
    /\ \/ /\ TakeSteer(Copy(m, 0), aim[m]) /\ Answered(m)
          /\ writer' = [writer EXCEPT ![m] = "done"]
       \/ /\ Unsteered(m, m, aim[m])
          /\ writer' = [writer EXCEPT ![m] = "start"]
    /\ UNCHANGED <<store, listen, aim, tap, history>>

\* A turn/start that fails is reported to the user, who still has the text.
Start(m) ==
    /\ writer[m] = "start"
    /\ writer' = [writer EXCEPT ![m] = "done"]
    /\ \/ TakeStart(Copy(m, 0)) /\ Answered(m)
       \/ Failed(m, m, 0)
    /\ UNCHANGED <<store, listen, aim, tap, history>>

-----------------------------------------------------------------------------
(* steer_queued_follow_up and delete_queued_follow_up.                     *)

Without(q, m) == Kept(q, {d \in Drafts : d.msg # m})

TapSteer(k, m) ==
    /\ tap[k] = NoTap /\ \E i \in DOMAIN drafts : drafts[i].msg = m
    /\ tap' = [tap EXCEPT ![k] = [pc |-> "begin", msg |-> m, turn |-> activeTurn, next |-> <<>>]]
    /\ UNCHANGED <<store, events, listen, writing, server, network, history>>

\* try_begin_steer_queued_follow_up, atomically: a draft that is gone or
\* already being steered ends the tap.  Without a turn to steer the tap fails
\* and the draft stays as it is now.
BeginSteer(k) ==
    LET mine == {i \in DOMAIN drafts : drafts[i] = Draft(tap[k].msg, "message")}
    IN  /\ tap[k].pc = "begin"
        /\ drafts' = [i \in DOMAIN drafts |->
                        IF i \in mine THEN Draft(tap[k].msg, "pending steer") ELSE drafts[i]]
        /\ tap' = [tap EXCEPT ![k].pc = IF mine = {} \/ tap[k].turn = 0 THEN "done" ELSE "steer"]
        /\ UNCHANGED <<activeTurn, events, listen, writing, server, network, history>>

\* The draft stays "pending steer" whether the server takes it or not.
Steer(k) ==
    /\ tap[k].pc = "steer"
    /\ tap' = [tap EXCEPT ![k].pc = "done"]
    /\ \/ TakeSteer(Copy(tap[k].msg, 0), tap[k].turn) /\ Answered(k)
       \/ Unsteered(k, tap[k].msg, tap[k].turn)
    /\ UNCHANGED <<store, listen, writing, history>>

\* Read, filter, and only then write.
TapDelete(k, m) ==
    /\ tap[k] = NoTap /\ \E i \in DOMAIN drafts : drafts[i].msg = m
    /\ tap' = [tap EXCEPT ![k] = [pc |-> "write", msg |-> m, turn |-> 0,
                                  next |-> Without(drafts, m)]]
    /\ UNCHANGED <<store, events, listen, writing, server, network, history>>

Delete(k) ==
    /\ tap[k].pc = "write"
    /\ drafts' = tap[k].next
    /\ deleted' = deleted \cup {tap[k].msg}
    /\ clobbered' = (clobbered \/ Without(drafts, tap[k].msg) # tap[k].next)
    /\ tap' = [tap EXCEPT ![k] = [NoTap EXCEPT !.pc = "done"]]
    /\ UNCHANGED <<activeTurn, events, listen, writing, server, network, queued>>

Listener == TurnStarted \/ UserItem \/ TurnCompleted \/ SendNext \/ Sent

User ==
    \/ \E m \in Messages : Write(m) \/ Queue(m) \/ SteerAtOnce(m) \/ Start(m)
    \/ \E k \in Taps : BeginSteer(k) \/ Steer(k) \/ Delete(k)
    \/ \E k \in Taps, m \in Messages : TapSteer(k, m) \/ TapDelete(k, m)

Worker ==
    \/ listener = "send" /\ SendAgain(Automatic, sending, 0)
    \/ \E m \in Messages : writer[m] = "steer" /\ SendAgain(m, m, aim[m])
    \/ \E m \in Messages : writer[m] = "start" /\ SendAgain(m, m, 0)
    \/ \E k \in Taps : tap[k].pc = "steer" /\ SendAgain(k, tap[k].msg, tap[k].turn)

Next == Complete \/ (\E c \in adrift : Arrive(c)) \/ Listener \/ User \/ Worker

Spec == Init /\ [][Next]_vars

-----------------------------------------------------------------------------
(* Properties.                                                              *)

\* Events and taps that know the turns up to n.
Event(n) == [is : {"started", "completed", "user message"}, turn : 1..n]
Tap(n) == [pc : {"none", "begin", "steer", "write", "done"},
           msg : Messages \cup {NoMessage}, turn : 0..n, next : Seq(Drafts)]

Copies == [msg : Messages, broke : 0..MaxFailures]

NetworkOK ==
    /\ failures \in 0..MaxFailures /\ again \subseteq Messages \cup Taps \cup {Automatic}
    /\ adrift \subseteq [copy : Copies, turn : 0..turns]

TypeOK ==
    /\ drafts \in Seq(Drafts) /\ activeTurn \in 0..turns
    /\ events \in Seq(Event(turns))
    /\ listener \in {"recv", "check", "send"} /\ sending \in Messages \cup {NoMessage}
    /\ writer \in [Messages -> {"unwritten", "queue", "steer", "start", "done"}]
    /\ aim \in [Messages -> 0..turns]
    /\ tap \in [Taps -> Tap(turns)]
    /\ turn \in 0..turns /\ turns \in Nat /\ taken \in Seq(Copies)
    /\ NetworkOK
    /\ queued \subseteq Messages /\ deleted \subseteq Messages /\ clobbered \in BOOLEAN

\* No message reaches the agent twice, however automatic sends, steers, refusals and
\* late events interleave, but for one copy of every request under which a connection
\* broke, and as long as no delete has written back a queue that had changed since it
\* was read.
AtMostOnce ==
    ~clobbered => \A i, j \in DOMAIN taken : taken[i] = taken[j] => i = j

\* start_turn on what becomes of a queued draft: "the user can Steer it or it will
\* auto-send when the turn finishes."  A message that was queued and not deleted
\* has reached the agent, is being sent, or is still in the queue.
QueuedIsKept ==
    \A m \in queued \ deleted :
        \/ \E i \in DOMAIN taken : taken[i].msg = m
        \/ m = sending
        \/ \E i \in DOMAIN drafts : drafts[i].msg = m
=============================================================================
