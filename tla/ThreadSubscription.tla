------------------------- MODULE ThreadSubscription -------------------------
(***************************************************************************)
(* Which threads a session's connection is subscribed to, and what the     *)
(* client believes (mobile_client/mod.rs, mobile_client/event_loop.rs).    *)
(*                                                                         *)
(* The server sends the events of a turn only to connections subscribed to *)
(* its thread, by thread/resume.  The client keeps a marker per thread it  *)
(* resumed and skips the request while the marker stands.  A reconnected   *)
(* session has a new connection, subscribed to nothing: the task that      *)
(* reads the session's health starts a task that clears the markers and    *)
(* resumes again what the user has on screen or loaded.                    *)
(*                                                                         *)
(* One session with one worker; ServerSession has the worker in full.  Not *)
(* here: its exit, the other runtimes a resume tries in turn, the display  *)
(* flags of the store (is_resumed, health).                                *)
(***************************************************************************)
EXTENDS Naturals, Sequences, FiniteSets

CONSTANTS
    Threads,    \* threads of the server that the store knows
    Refusable,  \* those whose resume the server may refuse
    Users,      \* parts of the platform's code that make calls
    Openable,   \* bound on what the user puts on screen
    Paginated,  \* server_supports_turn_pagination
    MaxBreaks,  \* bound on failures of connections
    MaxCalls,   \* bound on calls the users make
    NoThread, NoOne

ASSUME SubscriptionAssumption ==
    /\ Refusable \subseteq Threads /\ Openable \subseteq Threads
    /\ NoThread \notin Threads
    /\ Paginated \in BOOLEAN
    /\ MaxBreaks \in Nat /\ MaxCalls \in Nat
    /\ NoOne \notin Users \cup Nat /\ Users \cap Nat = {}

Resubscribers == 1..MaxBreaks     \* the tasks of run_post_reconnect_resubscribe
Actors == Users \cup Resubscribers

VARIABLES
    \* the connection, and the server's set for it
    conn, up, subscribed,
    \* the worker: its command channel, where it awaits, for whom, which copy
    queue, stage, serving, copy,
    \* the watch value; has the health reader still to see it; prev_connected
    health, unseen, prevConnected,
    \* the client
    markers,    \* direct_resumed_threads
    loaded,     \* threads with items or initial_turns_loaded
    active,     \* active_thread
    closing,    \* abandon_alleycat_connections between its two steps
    pc, doing,  \* per actor: where it is, and its request
    todo,       \* per resubscriber: keys_to_resume it has still to do
    calls,
    \* history: the connection the reader last saw up; a reconnect it never
    \* saw; markers put when the connection was not subscribed
    seenConn, missed, late

link    == <<conn, up, subscribed>>
worker  == <<queue, stage, serving, copy>>
watch   == <<health, unseen, prevConnected, seenConn>>
screen  == <<loaded, active, closing>>
marking == <<markers, missed, late>>
actors  == <<pc, doing, todo, calls>>
vars    == <<link, worker, watch, screen, marking, actors>>

Nothing == [op |-> "none", thread |-> NoThread]

Init ==
    /\ conn = 1 /\ up = TRUE /\ subscribed = {}
    /\ queue = <<>> /\ stage = "idle" /\ serving = NoOne /\ copy = 0
    /\ health = "connected" /\ unseen = FALSE /\ prevConnected = TRUE /\ seenConn = 1
    /\ loaded = {} /\ active = NoThread /\ closing = FALSE
    /\ markers = {} /\ missed = FALSE /\ late = {}
    /\ pc = [a \in Actors |-> IF a \in Users THEN "idle" ELSE "unborn"]
    /\ doing = [a \in Actors |-> Nothing]
    /\ todo = [k \in Resubscribers |-> <<>>] /\ calls = 0

-----------------------------------------------------------------------------
(* The network, the server, and the worker of the session.                 *)

\* Connections used up, counting a dead one and one about to be closed.
Spent == conn - 1 + (IF up THEN 0 ELSE 1) + (IF closing THEN 1 ELSE 0)

Break ==
    /\ up /\ Spent < MaxBreaks
    /\ up' = FALSE /\ subscribed' = {}
    /\ UNCHANGED <<conn, worker, watch, screen, marking, actors>>

Publish(value) == health' = value /\ unseen' = TRUE /\ UNCHANGED <<prevConnected, seenConn>>

Take ==
    /\ stage = "idle" /\ queue # <<>>
    /\ stage' = "awaiting" /\ serving' = Head(queue) /\ copy' = 1
    /\ queue' = Tail(queue)
    /\ UNCHANGED <<link, watch, screen, marking, actors>>

\* The worker answers the actor it serves and goes on.
Answer(outcome) ==
    /\ pc' = [pc EXCEPT ![serving] = outcome]
    /\ stage' = "idle" /\ serving' = NoOne /\ copy' = 0
    /\ UNCHANGED <<queue, doing, todo, calls>>

\* The server runs the request on the connection that carries it.
Accept ==
    LET request == doing[serving] IN
    /\ stage = "awaiting" /\ up
    /\ subscribed' = IF request.op = "resume" THEN subscribed \cup {request.thread}
                     ELSE subscribed \ {request.thread}
    /\ Answer("ok")
    /\ UNCHANGED <<conn, up, watch, screen, marking>>

Refuse ==
    /\ stage = "awaiting" /\ up
    /\ doing[serving].op = "resume" /\ doing[serving].thread \in Refusable
    /\ Answer("refused")
    /\ UNCHANGED <<link, watch, screen, marking>>

\* A failed first copy, or an idle worker that meets the end of its events.
StartReconnect ==
    /\ ~up
    /\ \/ stage = "idle"
       \/ stage = "awaiting" /\ copy = 1
    /\ stage' = "connecting"
    /\ Publish("connecting")
    /\ UNCHANGED <<link, queue, serving, copy, screen, marking, actors>>

RetryFails ==
    /\ stage = "awaiting" /\ copy = 2 /\ ~up
    /\ Answer("failed")
    /\ UNCHANGED <<link, watch, screen, marking>>

AttemptFails ==
    /\ stage = "connecting"
    /\ Publish("connecting")
    /\ UNCHANGED <<link, worker, screen, marking, actors>>

\* A new connection, subscribed to nothing; a failed request goes out again.
AttemptSucceeds ==
    /\ stage = "connecting"
    /\ conn' = conn + 1 /\ up' = TRUE /\ subscribed' = {}
    /\ Publish("connected")
    /\ IF serving = NoOne THEN stage' = "idle" /\ UNCHANGED copy
                          ELSE stage' = "awaiting" /\ copy' = 2
    /\ UNCHANGED <<queue, serving, screen, marking, actors>>

GiveUp ==
    /\ stage = "connecting"
    /\ Publish("disconnected")
    /\ IF serving = NoOne THEN stage' = "idle" /\ UNCHANGED <<queue, serving, copy, actors>>
                          ELSE Answer("failed")
    /\ UNCHANGED <<link, screen, marking>>

Worker ==
    \/ Take \/ Accept \/ Refuse \/ StartReconnect \/ RetryFails
    \/ AttemptSucceeds \/ GiveUp

-----------------------------------------------------------------------------
(* Markers.                                                                *)

\* clear_direct_resume_markers_for_server.
ClearMarkers == markers' = {} /\ late' = {} /\ missed' = FALSE

\* external_resume_thread returns at once: the marker stands and the thread
\* has its turns, or gets them by thread/turns/list.
Skips(t) == t \in markers /\ (t \in loaded \/ Paginated)

Request(a, op, t) ==
    /\ pc[a] = "idle"
    /\ pc' = [pc EXCEPT ![a] = "queued"]
    /\ doing' = [doing EXCEPT ![a] = [op |-> op, thread |-> t]]
    /\ queue' = Append(queue, a)
    /\ UNCHANGED <<stage, serving, copy, link, watch, screen, marking>>

\* resume_thread_for_runtime after its answer: the snapshot is stored, then
\* the thread is marked, whatever became of the connection meanwhile.
Resumed(a) ==
    LET t == doing[a].thread IN
    /\ pc[a] = "ok" /\ doing[a].op = "resume"
    /\ loaded' = IF Paginated THEN loaded ELSE loaded \cup {t}
    /\ markers' = markers \cup {t}
    /\ late' = IF t \in subscribed THEN late \ {t} ELSE late \cup {t}
    /\ UNCHANGED <<missed, active, closing>>

\* thread_unsubscribe after its answer.
Unsubscribed(a) ==
    LET t == doing[a].thread IN
    /\ pc[a] = "ok" /\ doing[a].op = "unsubscribe"
    /\ markers' = markers \ {t}
    /\ late' = late \ {t}
    /\ UNCHANGED <<missed, screen>>

\* The server does not have the thread: its metadata is read in place of it.
Missing(a) == pc[a] = "refused" /\ UNCHANGED <<marking, screen>>

\* reconcile_transport_error.
Failed(a) == pc[a] = "failed" /\ ClearMarkers /\ UNCHANGED screen

\* Mutant: a refresh without success ends the resubscriber.
FinishAll(a) ==
    /\ Resumed(a) \/ Unsubscribed(a) \/ Missing(a) \/ Failed(a)
    /\ pc' = [pc EXCEPT ![a] = "idle"]
    /\ todo' = IF a \in Users THEN todo
               ELSE [todo EXCEPT ![a] = IF pc[a] = "ok" THEN Tail(@) ELSE <<>>]
    /\ doing' = [doing EXCEPT ![a] = Nothing]
    /\ UNCHANGED <<link, worker, watch, calls>>

\* Back from the request; a resubscriber goes on with its next thread.
Finish(a) ==
    /\ Resumed(a) \/ Unsubscribed(a) \/ Missing(a) \/ Failed(a)
    /\ pc' = [pc EXCEPT ![a] = "idle"]
    /\ todo' = IF a \in Users THEN todo ELSE [todo EXCEPT ![a] = Tail(@)]
    /\ doing' = [doing EXCEPT ![a] = Nothing]
    /\ UNCHANGED <<link, worker, watch, calls>>

-----------------------------------------------------------------------------
(* The user's side.                                                        *)

\* external_resume_thread; force_refresh_thread_authoritative always asks.
Resume(u, t, force) ==
    /\ calls < MaxCalls /\ (force \/ ~Skips(t))
    /\ Request(u, "resume", t)
    /\ calls' = calls + 1 /\ UNCHANGED todo

Unsubscribe(u, t) ==
    /\ calls < MaxCalls
    /\ Request(u, "unsubscribe", t)
    /\ calls' = calls + 1 /\ UNCHANGED todo

Open(t) ==
    /\ active' = t
    /\ UNCHANGED <<link, worker, watch, loaded, closing, marking, actors>>

\* thread/turns/list or thread/read stores turns, subscribed or not.
Load(t) ==
    /\ loaded' = loaded \cup {t}
    /\ UNCHANGED <<link, worker, watch, active, closing, marking, actors>>

\* abandon_alleycat_connections: the markers first, then the connection.
Abandon ==
    /\ ~closing /\ Spent < MaxBreaks
    /\ closing' = TRUE
    /\ ClearMarkers
    /\ UNCHANGED <<link, worker, watch, loaded, active, actors>>

AbandonCloses ==
    /\ closing /\ closing' = FALSE
    /\ IF up THEN up' = FALSE /\ subscribed' = {} ELSE UNCHANGED <<up, subscribed>>
    /\ UNCHANGED <<conn, worker, watch, loaded, active, marking, actors>>

-----------------------------------------------------------------------------
(* spawn_health_reader.  A watch keeps only the last value: what was        *)
(* published and overwritten before the reader looked is never seen.        *)

Reading ==
    /\ unseen /\ unseen' = FALSE
    /\ prevConnected' = (health = "connected")
    /\ seenConn' = IF health = "connected" THEN conn ELSE seenConn
    /\ UNCHANGED <<health, link, worker, screen, markers, late, doing, todo, calls>>

\* Disconnected -> Connected: the next resubscriber is spawned.
SeesReconnect ==
    /\ Reading
    /\ ~prevConnected /\ health = "connected"
    /\ \E k \in Resubscribers :
         /\ pc[k] = "unborn" /\ \A j \in 1..(k - 1) : pc[j] # "unborn"
         /\ pc' = [pc EXCEPT ![k] = "spawned"]
    /\ UNCHANGED missed

SeesOther ==
    /\ Reading
    /\ prevConnected \/ health # "connected"
    /\ missed' = (missed \/ (health = "connected" /\ conn # seenConn))
    /\ UNCHANGED pc

\* Mutant: the markers of the old connection stay.
ClearsNothing(k) ==
    /\ pc[k] = "spawned"
    /\ pc' = [pc EXCEPT ![k] = "cleared"]
    /\ UNCHANGED <<link, worker, watch, screen, marking, doing, todo, calls>>

\* run_post_reconnect_resubscribe.
Clears(k) ==
    /\ pc[k] = "spawned"
    /\ pc' = [pc EXCEPT ![k] = "cleared"]
    /\ ClearMarkers
    /\ UNCHANGED <<link, worker, watch, screen, doing, todo, calls>>

\* The orders in which a map may yield the threads of S.
Orders(S) == {f \in [1..Cardinality(S) -> S] : \A i, j \in DOMAIN f : f[i] = f[j] => i = j}

\* Mutant: no look at whether a thread is active.
CollectsAnyway(k) ==
    /\ pc[k] = "cleared"
    /\ pc' = [pc EXCEPT ![k] = "idle"]
    /\ \E rest \in Orders(loaded \ {active}) : todo' = [todo EXCEPT ![k] = <<active>> \o rest]
    /\ UNCHANGED <<link, worker, watch, screen, marking, doing, calls>>

\* keys_to_resume: the active thread, then every other thread with turns.
Collects(k) ==
    LET first == IF active = NoThread THEN <<>> ELSE <<active>> IN
    /\ pc[k] = "cleared"
    /\ pc' = [pc EXCEPT ![k] = "idle"]
    /\ \E rest \in Orders(loaded \ {active}) : todo' = [todo EXCEPT ![k] = first \o rest]
    /\ UNCHANGED <<link, worker, watch, screen, marking, doing, calls>>

\* One force_refresh_thread_authoritative after the other.
Refreshes(k) ==
    /\ todo[k] # <<>>
    /\ Request(k, "resume", Head(todo[k]))
    /\ UNCHANGED <<todo, calls>>

Tasks ==
    \/ SeesReconnect \/ SeesOther
    \/ \E k \in Resubscribers : Clears(k) \/ Collects(k) \/ Refreshes(k)
    \/ \E a \in Actors : Finish(a)

Environment ==
    \/ Break \/ Abandon \/ AbandonCloses
    \/ \E t \in Openable : Open(t)
    \/ \E t \in Threads : Load(t)
    \/ \E u \in Users, t \in Threads :
         Unsubscribe(u, t) \/ \E force \in BOOLEAN : Resume(u, t, force)

Next == Worker \/ AttemptFails \/ Tasks \/ Environment

Spec == Init /\ [][Next]_vars

\* Tokio runs every task; a server answers, and reconnecting ends in a
\* connection or is given up after REMOTE_RECONNECT_MAX_ATTEMPTS attempts.
FairSpec ==
    /\ Spec
    /\ WF_vars(Worker)
    /\ WF_vars(SeesReconnect \/ SeesOther)
    /\ \A k \in Resubscribers : WF_vars(Clears(k) \/ Collects(k) \/ Refreshes(k))
    /\ \A a \in Actors : WF_vars(Finish(a))

-----------------------------------------------------------------------------
(* Properties.                                                              *)

Outcomes == {"ok", "refused", "failed"}

TypeOK ==
    /\ conn \in 1..(MaxBreaks + 1) /\ up \in BOOLEAN /\ subscribed \subseteq Threads
    /\ queue \in Seq(Actors) /\ stage \in {"idle", "awaiting", "connecting"}
    /\ serving \in Actors \cup {NoOne} /\ copy \in 0..2
    /\ health \in {"connected", "connecting", "disconnected"}
    /\ unseen \in BOOLEAN /\ prevConnected \in BOOLEAN
    /\ markers \subseteq Threads /\ late \subseteq Threads /\ loaded \subseteq Threads
    /\ active \in Threads \cup {NoThread} /\ closing \in BOOLEAN /\ missed \in BOOLEAN
    /\ pc \in [Actors -> {"unborn", "spawned", "cleared", "idle", "queued"} \cup Outcomes]
    /\ doing \in [Actors -> [op : {"none", "resume", "unsubscribe"},
                             thread : Threads \cup {NoThread}]]
    /\ todo \in [Resubscribers -> Seq(Threads)]
    /\ calls \in 0..MaxCalls /\ seenConn \in 1..conn

\* Nothing is under way: what holds now holds until somebody acts.
AtRest ==
    /\ up /\ stage = "idle" /\ queue = <<>> /\ ~unseen /\ ~closing
    /\ \A a \in Actors : pc[a] \in {"idle", "unborn"}
    /\ \A k \in Resubscribers : todo[k] = <<>>

\* A marker that outlives its subscription has one of two causes: the health
\* reader never saw the reconnect, or the marker was put by an answer that a
\* later break or unsubscription had overtaken.  Every other order of breaks,
\* retries, resubscribers, calls and abandoned connections leaves markers true.
StaleMarkersExplained ==
    AtRest /\ ~missed => markers \ late \subseteq subscribed

\* A thread that a resubscriber has collected is subscribed again, unless the
\* server refuses it or the connection breaks once more.
CollectedIsResubscribed ==
    \A t \in Threads \ Refusable :
        (\E k \in Resubscribers : pc[k] = "idle" /\ \E i \in DOMAIN todo[k] : todo[k][i] = t)
            ~> (t \in subscribed \/ ~up)
=============================================================================
