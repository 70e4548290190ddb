---------------------------- MODULE IpcReconnect ----------------------------
(***************************************************************************)
(* ReconnectingIpcClient (codex-ipc/src/client/reconnect.rs): a slot with   *)
(* the current IpcClient, a task that replaces it, and the calls of the     *)
(* wrapper's users.  A client is a reference count over a connection; it    *)
(* may outlive its place in the slot in whoever cloned it.                  *)
(*                                                                         *)
(* The task is cancelled at an await only.  Between two awaits it runs on   *)
(* while other threads call the wrapper, so each such section is a chain of *)
(* steps here.                                                             *)
(***************************************************************************)
EXTENDS Naturals, FiniteSets

CONSTANTS
    Handlers, NoHandler, \* request handlers users may set; none
    MaxAttempts,         \* ReconnectPolicy::max_attempts
    MaxClients,          \* bound on connections opened
    MaxSignals           \* bound on invalidations asked for

ASSUME ReconnectAssumption ==
    /\ NoHandler \notin Handlers
    /\ MaxAttempts \in Nat \ {0} /\ MaxClients \in Nat \ {0} /\ MaxSignals \in Nat

VARIABLES
    slot,        \* the current client, 0 for None
    reported,    \* the watch value connection_tx
    handler,     \* the wrapper's request handler
    installed,   \* per client: the handler of its connection
    link,        \* per client: its connection's tasks and socket
    pc, held,    \* where reconnect_loop is; the client it holds
    attempt,
    signals,     \* invalidations queued, and how many were ever asked for
    asked,
    setter,      \* per handler: where set_request_handler stands
    setFor,      \* per handler: the client it is being set on
    user,        \* a client some user of the wrapper holds
    stop, taken  \* where shutdown stands; the client it took from the slot

loop == <<pc, held, attempt>>
sets == <<setter, setFor>>
vars == <<slot, reported, handler, installed, link, loop, signals, asked, sets, user,
          stop, taken>>

Clients == 1..MaxClients

\* start_with_connector, with or without an initial client.
Init ==
    /\ slot \in {0, 1} /\ reported = (slot # 0)
    /\ handler = NoHandler /\ installed = [c \in Clients |-> NoHandler]
    /\ link = [c \in Clients |-> IF c = slot THEN "up" ELSE "none"]
    /\ pc = "top" /\ held = 0 /\ attempt = 0
    /\ signals = 0 /\ asked = 0
    /\ setter = [h \in Handlers |-> "no"] /\ setFor = [h \in Handlers |-> 0]
    /\ user = 0 /\ stop = "no" /\ taken = 0

Goto(here, there) == pc = here /\ pc' = there

-----------------------------------------------------------------------------
(* reconnect_loop.                                                         *)

Top ==
    /\ Goto("top", IF slot = 0 THEN "drop" ELSE "listen")
    /\ held' = slot
    /\ UNCHANGED <<slot, reported, handler, installed, link, attempt, signals, asked,
                   sets, user, stop, taken>>

\* Mutant: the signal is taken, and the client kept.
TakeSignalOnly ==
    /\ pc = "listen" /\ stop = "no" /\ signals > 0
    /\ signals' = signals - 1
    /\ UNCHANGED <<slot, reported, handler, installed, link, loop, asked, sets, user,
                   stop, taken>>

\* The client's own broadcasts never end: it is held here, and their sender
\* with it.
TakeSignal ==
    /\ Goto("listen", "recycle") /\ stop = "no" /\ signals > 0
    /\ signals' = signals - 1
    /\ UNCHANGED <<slot, reported, handler, installed, link, held, attempt, asked, sets,
                   user, stop, taken>>

\* Mutant: the old client is only let go.
RecycleGently ==
    /\ Goto("recycle", "drop")
    /\ held' = 0
    /\ UNCHANGED <<slot, reported, handler, installed, link, attempt, signals, asked,
                   sets, user, stop, taken>>

\* force_disconnect, whoever still holds the client.
Recycle ==
    /\ Goto("recycle", "drop")
    /\ link' = [link EXCEPT ![held] = "down"]
    /\ held' = 0
    /\ UNCHANGED <<slot, reported, handler, installed, attempt, signals, asked, sets,
                   user, stop, taken>>

EmptySlot ==
    /\ Goto("drop", "lost")
    /\ slot' = 0
    /\ UNCHANGED <<reported, handler, installed, link, held, attempt, signals, asked,
                   sets, user, stop, taken>>

ReportLost ==
    /\ Goto("lost", "wait")
    /\ reported' = FALSE /\ attempt' = 1
    /\ UNCHANGED <<slot, handler, installed, link, held, signals, asked, sets, user,
                   stop, taken>>

Fresh == {c \in Clients : \A d \in Clients : link[d] = "none" <=> d >= c}

AttemptSucceeds ==
    /\ Goto("wait", "register") /\ stop = "no"
    /\ \E c \in Fresh : held' = c /\ link' = [link EXCEPT ![c] = "up"]
    /\ UNCHANGED <<slot, reported, handler, installed, attempt, signals, asked, sets,
                   user, stop, taken>>

\* Mutant: one attempt more than the policy allows.
AttemptFailsLate ==
    /\ pc = "wait" /\ stop = "no"
    /\ IF attempt <= MaxAttempts
       THEN attempt' = attempt + 1 /\ UNCHANGED pc
       ELSE pc' = "ended" /\ UNCHANGED attempt
    /\ UNCHANGED <<slot, reported, handler, installed, link, held, signals, asked, sets,
                   user, stop, taken>>

\* connect_with_stream is left before it has a client: with no stream yet, or in
\* the handshake that follows the spawn of the connection's tasks.  Nothing ends
\* those: they run on, and the socket stays open, with a client nobody was given.
ConnectLeft ==
    \E left \in {{}} \cup {{c} : c \in Fresh} :
        link' = [c \in Clients |-> IF c \in left THEN "unclaimed" ELSE link[c]]

AttemptFails ==
    /\ pc = "wait" /\ stop = "no"
    /\ ConnectLeft
    /\ IF attempt < MaxAttempts
       THEN attempt' = attempt + 1 /\ UNCHANGED pc
       ELSE pc' = "ended" /\ UNCHANGED attempt
    /\ UNCHANGED <<slot, reported, handler, installed, held, signals, asked, sets, user,
                   stop, taken>>

Register ==
    /\ Goto("register", "store")
    /\ installed' = [installed EXCEPT ![held] = handler]
    /\ UNCHANGED <<slot, reported, handler, link, held, attempt, signals, asked, sets,
                   user, stop, taken>>

Store ==
    /\ Goto("store", "announce")
    /\ slot' = held /\ held' = 0
    /\ UNCHANGED <<reported, handler, installed, link, attempt, signals, asked, sets,
                   user, stop, taken>>

\* Mutant: the watch value is not set again.
AnnounceNothing ==
    /\ Goto("announce", "top")
    /\ UNCHANGED <<slot, reported, handler, installed, link, held, attempt, signals,
                   asked, sets, user, stop, taken>>

Announce ==
    /\ Goto("announce", "top")
    /\ reported' = TRUE
    /\ UNCHANGED <<slot, handler, installed, link, held, attempt, signals, asked, sets,
                   user, stop, taken>>

\* The aborted task reaches an await: its future is dropped there.
Cancelled ==
    /\ stop # "no" /\ pc \in {"listen", "wait", "register"}
    /\ pc' = "ended" /\ held' = 0
    /\ IF pc = "wait" THEN ConnectLeft ELSE UNCHANGED link
    /\ UNCHANGED <<slot, reported, handler, installed, attempt, signals, asked, sets,
                   user, stop, taken>>

Loop ==
    \/ Top \/ TakeSignal \/ Recycle \/ EmptySlot \/ ReportLost \/ AttemptSucceeds
    \/ AttemptFails \/ Register \/ Store \/ Announce \/ Cancelled

-----------------------------------------------------------------------------
(* Users of the wrapper.                                                   *)

Invalidate ==
    /\ asked < MaxSignals /\ pc # "ended"
    /\ signals' = signals + 1 /\ asked' = asked + 1
    /\ UNCHANGED <<slot, reported, handler, installed, link, loop, sets, user, stop, taken>>

SetHandler(h) ==
    /\ setter[h] = "no"
    /\ handler' = h
    /\ setter' = [setter EXCEPT ![h] = "set"]
    /\ UNCHANGED <<slot, reported, installed, link, loop, signals, asked, setFor, user,
                   stop, taken>>

\* self.client(): what the slot holds now.
SetterLooks(h) ==
    /\ setter[h] = "set"
    /\ setFor' = [setFor EXCEPT ![h] = slot]
    /\ setter' = [setter EXCEPT ![h] = IF slot = 0 THEN "done" ELSE "found"]
    /\ UNCHANGED <<slot, reported, handler, installed, link, loop, signals, asked, user,
                   stop, taken>>

SetterInstalls(h) ==
    /\ setter[h] = "found"
    /\ installed' = [installed EXCEPT ![setFor[h]] = h]
    /\ setter' = [setter EXCEPT ![h] = "done"] /\ setFor' = [setFor EXCEPT ![h] = 0]
    /\ UNCHANGED <<slot, reported, handler, link, loop, signals, asked, user, stop, taken>>

UserTakes ==
    /\ user = 0 /\ slot # 0 /\ user' = slot
    /\ UNCHANGED <<slot, reported, handler, installed, link, loop, signals, asked, sets,
                   stop, taken>>

UserDrops ==
    /\ user # 0 /\ user' = 0
    /\ UNCHANGED <<slot, reported, handler, installed, link, loop, signals, asked, sets,
                   stop, taken>>

Abort ==
    /\ stop = "no" /\ stop' = "aborting"
    /\ UNCHANGED <<slot, reported, handler, installed, link, loop, signals, asked, sets,
                   user, taken>>

TakeClient ==
    /\ stop = "aborting" /\ stop' = "took"
    /\ taken' = slot /\ slot' = 0
    /\ UNCHANGED <<reported, handler, installed, link, loop, signals, asked, sets, user>>

Holders == [slot |-> slot, task |-> held, user |-> user, shutdown |-> taken]

HeldBy(c) == {w \in DOMAIN Holders : Holders[w] = c} \cup {h \in Handlers : setFor[h] = c}

\* disconnect: Arc::try_unwrap, which fails while anyone else holds a clone.
DisconnectClient ==
    /\ stop = "took" /\ stop' = "told"
    /\ link' = IF taken # 0 /\ HeldBy(taken) = {"shutdown"}
               THEN [link EXCEPT ![taken] = "down"] ELSE link
    /\ taken' = 0
    /\ UNCHANGED <<slot, reported, handler, installed, loop, signals, asked, sets, user>>

ReportStopped ==
    /\ stop = "told" /\ stop' = "done"
    /\ reported' = FALSE
    /\ UNCHANGED <<slot, handler, installed, link, loop, signals, asked, sets, user, taken>>

\* The peer closes the socket: read_loop clears the pending requests and ends.
PeerCloses(c) ==
    /\ link[c] \in {"up", "unclaimed"} /\ link' = [link EXCEPT ![c] = "closed"]
    /\ UNCHANGED <<slot, reported, handler, installed, loop, signals, asked, sets, user,
                   stop, taken>>

-----------------------------------------------------------------------------
Stopping == Abort \/ TakeClient \/ DisconnectClient \/ ReportStopped

Next ==
    \/ Loop \/ Stopping \/ Invalidate \/ UserTakes \/ UserDrops
    \/ \E h \in Handlers : SetHandler(h) \/ SetterLooks(h) \/ SetterInstalls(h)
    \/ \E c \in Clients : PeerCloses(c)

Spec == Init /\ [][Next]_vars

\* Tokio runs the tasks; nothing makes an attempt to connect succeed.
FairSpec ==
    /\ Spec /\ WF_vars(Loop)
    /\ WF_vars(TakeClient \/ DisconnectClient \/ ReportStopped) /\ WF_vars(UserDrops)
    /\ \A h \in Handlers : WF_vars(SetterLooks(h) \/ SetterInstalls(h))

-----------------------------------------------------------------------------
(* Properties.                                                             *)

TypeOK ==
    /\ {slot, held, user, taken} \subseteq {0} \cup Clients
    /\ handler \in Handlers \cup {NoHandler}
    /\ installed \in [Clients -> Handlers \cup {NoHandler}]
    /\ link \in [Clients -> {"none", "unclaimed", "up", "closed", "down"}]
    /\ pc \in {"top", "listen", "recycle", "drop", "lost", "wait", "register", "store",
               "announce", "ended"}
    /\ attempt \in 0..MaxAttempts /\ signals \in 0..asked /\ asked \in 0..MaxSignals
    /\ setter \in [Handlers -> {"no", "set", "found", "done"}]
    /\ setFor \in [Handlers -> {0} \cup Clients]
    /\ stop \in {"no", "aborting", "took", "told", "done"} /\ reported \in BOOLEAN

Open == {c \in Clients : link[c] \in {"up", "unclaimed"}}

\* However long users keep the clients they took, at most one client that anyone
\* holds has an open connection while the wrapper runs: what is replaced was shut
\* first.  The only connections open with no holder are those of attempts that
\* failed in the handshake; of these there may be several, beside the client's.
OneOpenClient ==
    stop = "no" =>
        /\ Cardinality({c \in Open : HeldBy(c) # {}}) <= 1
        /\ \A c \in Open : HeldBy(c) = {} => link[c] = "unclaimed"

\* While the task rests, watchers have been told whether there is a client,
\* and nobody can reach a client but the one the task looks after.
ReportedTruly ==
    stop = "no" /\ pc \in {"listen", "wait", "ended"}
        => reported = (slot # 0) /\ (pc = "listen" => slot = held)

\* An invalidated client leaves the slot, also when several ask at once, unless
\* the wrapper is shut down meanwhile.
InvalidatedIsReplaced ==
    \A c \in Clients : (signals > 0 /\ slot = c) ~> slot # c \/ stop # "no"
=============================================================================
