-------------------------- MODULE SessionRegistry --------------------------
(***************************************************************************)
(* The sessions of MobileClient (mobile_client/mod.rs) and what the store  *)
(* shows of them.  Connect functions of six kinds check for a session,     *)
(* await a connection and put a new session into the map; disconnect and   *)
(* restart take it out; a task per session (mobile_client/event_loop.rs)   *)
(* reports its health as UI events, which the store listener applies       *)
(* (store/reducer.rs); a request that fails writes the store directly.     *)
(*                                                                         *)
(* One server identifier: the map's entries do not depend on each other.   *)
(* A session is known by the order of its creation.  ServerSession says    *)
(* how a session's health comes about; here a link drops, comes back or is *)
(* given up.                                                               *)
(***************************************************************************)
EXTENDS Naturals, Sequences

CONSTANTS
    Callers,     \* the users of the client, one call at a time each
    Kinds,       \* the kinds of connect call they make
    MaxSessions, \* bound on sessions created
    MaxIncidents \* bound on links that drop and calls that get past their first check,
                 \* counted together

AllKinds == {"direct", "slingshot", "alleycat", "bridges", "ssh", "guided"}

ASSUME RegistryAssumption ==
    /\ Kinds \subseteq AllKinds
    /\ MaxSessions \in Nat /\ MaxIncidents \in Nat

Sessions  == 1..MaxSessions
NoSession == 0

VARIABLES
    current,  \* the entry of the map
    link,     \* per session: its workers' connection
    health,   \* per session: the published value
    store,    \* the server in the store
    events,   \* UI events on their way to the store listener
    reader,   \* per session: its health reader
    unseen,   \* sessions whose health changed since their reader last woke
    calls,    \* per caller: where its call stands
    discards, \* sessions handed to a detached disconnect
    made, incidents,
    \* history: sessions displaced for a reason the code allows; sessions that
    \* left the map since their reader's check, with its report to come; was the store last
    \* written by a failed call or by such a report?
    displaced, overtaken, astray

session == <<link, health>>
bounds  == <<made, incidents>>
left    == <<displaced, overtaken>>
vars    == <<current, session, store, events, reader, unseen, calls, discards, bounds,
             left, astray>>

Healths == {"connected", "connecting", "disconnected"}

\* What tells the connect functions apart.
ReusesActive    == {"direct", "slingshot"} \* any health but Disconnected will do
ReusesConnected == {"alleycat"}
Announces       == AllKinds \ {"direct"}   \* shown as Connecting first
ShowsProgress   == {"ssh", "guided"}
Replaces        == AllKinds \ {"guided"}
FailsQuietly    == {"direct", "ssh", "bridges"} \* an error returned with `?`
FailsAloud      == AllKinds \ {"direct"}

Idle == [at |-> "idle", kind |-> "none", session |-> NoSession, rival |-> FALSE]
Goes(c, at) == calls' = [calls EXCEPT ![c] = [@ EXCEPT !.at = at]]
Returns(c)  == calls' = [calls EXCEPT ![c] = Idle]

Unknown == [known |-> FALSE, health |-> "disconnected", progress |-> FALSE]

\* upsert_server keeps the progress; the other updates need the entry.
Upserted(h) == [store EXCEPT !.known = TRUE, !.health = h]
Shown(h)    == IF store.known THEN [store EXCEPT !.health = h] ELSE store
Progress(s, p) == IF s.known THEN [s EXCEPT !.progress = p] ELSE s

Init ==
    /\ current = NoSession
    /\ link = [s \in Sessions |-> "none"] /\ health = [s \in Sessions |-> "connecting"]
    /\ store = Unknown /\ events = <<>>
    /\ reader = [s \in Sessions |-> "none"] /\ unseen = {}
    /\ calls = [c \in Callers |-> Idle] /\ discards = {}
    /\ made = 0 /\ incidents = 0
    /\ displaced = {} /\ overtaken = {} /\ astray = FALSE

-----------------------------------------------------------------------------
(* A session: its links, and disconnect.                                   *)

Publish(s, h) == health' = [health EXCEPT ![s] = h] /\ unseen' = unseen \cup {s}

\* Mutant: a dropped link is published as a health no reader expects.
DropUnresponsive(s) ==
    /\ link[s] = "up" /\ incidents < MaxIncidents
    /\ incidents' = incidents + 1
    /\ link' = [link EXCEPT ![s] = "retrying"] /\ Publish(s, "unresponsive")
    /\ UNCHANGED <<current, store, events, reader, calls, discards, made, left, astray>>

Drop(s) ==
    /\ link[s] = "up" /\ incidents < MaxIncidents
    /\ incidents' = incidents + 1
    /\ link' = [link EXCEPT ![s] = "retrying"] /\ Publish(s, "connecting")
    /\ UNCHANGED <<current, store, events, reader, calls, discards, made, left, astray>>

\* A worker that was told to stop meanwhile still publishes Connected first.
Recover(s) ==
    /\ link[s] \in {"retrying", "straggling"}
    /\ link' = [link EXCEPT ![s] = IF @ = "retrying" THEN "up" ELSE "down"]
    /\ Publish(s, "connected")
    /\ UNCHANGED <<current, store, events, reader, calls, discards, bounds, left, astray>>

GiveUp(s) ==
    /\ link[s] \in {"retrying", "straggling"}
    /\ link' = [link EXCEPT ![s] = "down"] /\ Publish(s, "disconnected")
    /\ UNCHANGED <<current, store, events, reader, calls, discards, bounds, left, astray>>

\* Mutant: the workers are told, and nothing is published.
ShutQuietly(s) ==
    /\ link' = [link EXCEPT ![s] = IF @ = "retrying" THEN "straggling" ELSE "down"]
    /\ UNCHANGED <<health, unseen>>

\* ServerSession::disconnect publishes Disconnected and tells the workers.
Shut(s) ==
    /\ link' = [link EXCEPT ![s] = IF @ = "retrying" THEN "straggling" ELSE "down"]
    /\ Publish(s, "disconnected")

\* The task spawned by disconnect_server.
Discard(s) ==
    /\ s \in discards /\ discards' = discards \ {s}
    /\ Shut(s)
    /\ UNCHANGED <<current, store, events, reader, calls, bounds, left, astray>>

-----------------------------------------------------------------------------
(* The health reader and the store listener.                               *)

\* Nothing is awaited between the check and the emission, and no lock is held:
\* the session may be replaced meanwhile.
ReaderStart(s) ==
    /\ reader[s] = "start"
    /\ reader' = [reader EXCEPT ![s] = IF current = s THEN "greet" ELSE "done"]
    /\ UNCHANGED <<current, session, store, events, unseen, calls, discards, bounds, left, astray>>

Report(s, h) ==
    /\ events' = Append(events, [health |-> h, late |-> s \in overtaken])
    /\ overtaken' = overtaken \ {s}

ReaderGreet(s) ==
    /\ reader[s] = "greet"
    /\ Report(s, "connecting")
    /\ reader' = [reader EXCEPT ![s] = "look"]
    /\ UNCHANGED <<current, session, store, unseen, calls, discards, bounds, displaced, astray>>

\* Mutant: the loop does not ask whether the session is still in the map.
ReaderLookUnchecked(s) ==
    /\ reader[s] = "look"
    /\ reader' = [reader EXCEPT ![s] = "report"]
    /\ UNCHANGED <<current, session, store, events, unseen, calls, discards, bounds, left, astray>>

ReaderLook(s) ==
    /\ reader[s] = "look"
    /\ reader' = [reader EXCEPT ![s] = IF current = s THEN "report" ELSE "done"]
    /\ UNCHANGED <<current, session, store, events, unseen, calls, discards, bounds, left, astray>>

\* A health that changes after it was read, and before it is emitted, is unseen: it
\* is read again, while the session is in the map.
ReaderReports(s) ==
    /\ reader[s] = "report"
    /\ Report(s, health[s])
    /\ reader' = [reader EXCEPT ![s] = "wait"]
    /\ UNCHANGED <<current, session, store, unseen, calls, discards, bounds, displaced, astray>>

\* The session in the map leaves it: has its reader checked, and not yet reported?
Leaves ==
    overtaken' = IF current # NoSession /\ reader[current] \in {"greet", "report"}
                 THEN overtaken \cup {current} ELSE overtaken

ReaderWake(s) ==
    /\ reader[s] = "wait" /\ s \in unseen
    /\ unseen' = unseen \ {s}
    /\ reader' = [reader EXCEPT ![s] = "look"]
    /\ UNCHANGED <<current, session, store, events, calls, discards, bounds, left, astray>>

\* While progress is shown a Disconnected is shown as Connecting.
Listen ==
    /\ events # <<>>
    /\ events' = Tail(events)
    /\ store' = Shown(IF store.progress /\ Head(events).health = "disconnected"
                      THEN "connecting" ELSE Head(events).health)
    /\ astray' = Head(events).late
    /\ UNCHANGED <<current, session, reader, unseen, calls, discards, bounds, left>>

-----------------------------------------------------------------------------
(* Connect.                                                                 *)

Reusable(k) ==
    /\ current # NoSession
    /\ \/ k \in ReusesActive /\ health[current] # "disconnected"
       \/ k \in ReusesConnected /\ health[current] = "connected"

\* A call that finds a session to reuse returns.  Alleycat may still rebuild a
\* connected session, for runtimes it lacks.  One guided call at a time.
Connect(c, k) ==
    /\ calls[c] = Idle /\ incidents < MaxIncidents /\ made < MaxSessions
    /\ ~Reusable(k) \/ k = "alleycat"
    /\ k = "guided" => \A d \in Callers : calls[d].kind # "guided"
    /\ incidents' = incidents + 1
    /\ calls' = [calls EXCEPT ![c] =
         [Idle EXCEPT !.at = IF k \in Announces THEN "announce" ELSE "replace", !.kind = k]]
    /\ UNCHANGED <<current, session, store, events, reader, unseen, discards, made,
                   left, astray>>

\* Alleycat may find no selected runtime before it looks for a session.
NoRuntime(c) ==
    /\ calls[c] = Idle /\ incidents < MaxIncidents /\ "alleycat" \in Kinds
    /\ incidents' = incidents + 1
    /\ store' = Shown("disconnected") /\ astray' = TRUE
    /\ UNCHANGED <<current, session, events, reader, unseen, calls, discards, made, left>>

Announce(c) ==
    /\ calls[c].at = "announce"
    /\ store' = [Upserted("connecting") EXCEPT !.progress = @ \/ calls[c].kind \in ShowsProgress]
    /\ Goes(c, IF calls[c].kind \in Replaces THEN "replace" ELSE "attempt")
    /\ astray' = FALSE
    /\ UNCHANGED <<current, session, events, reader, unseen, discards, bounds, left>>

\* replace_existing_session: the entry goes at once, the session is shut next.
Replace(c) ==
    /\ calls[c].at = "replace"
    /\ Leaves /\ current' = NoSession
    /\ calls' = [calls EXCEPT ![c] =
         [@ EXCEPT !.at = IF current = NoSession THEN "attempt" ELSE "shut", !.session = current]]
    /\ UNCHANGED <<session, store, events, reader, unseen, discards, bounds, displaced, astray>>

\* The awaited disconnect, in replace_existing_session and in restart.
ShutOld(c) ==
    /\ calls[c].at = "shut"
    /\ Shut(calls[c].session)
    /\ IF calls[c].kind = "none"
       THEN Returns(c)
       ELSE calls' = [calls EXCEPT ![c] =
                 [@ EXCEPT !.at = "attempt", !.session = NoSession]]
    /\ UNCHANGED <<current, store, events, reader, discards, bounds, left, astray>>

AttemptFails(c) ==
    LET k == calls[c].kind IN
    /\ calls[c].at = "attempt"
    /\ Returns(c)
    /\ \/ k \in FailsQuietly /\ UNCHANGED <<store, astray>>
       \/ /\ k \in FailsAloud
          /\ store' = Progress(Shown("disconnected"),
                              k = "guided" \/ (store.progress /\ k # "ssh"))
          /\ astray' = TRUE
    /\ UNCHANGED <<current, session, events, reader, unseen, discards, bounds, left>>

\* The new session has published Connected; the store is told first.
AttemptSucceeds(c) ==
    /\ calls[c].at = "attempt" /\ made < MaxSessions
    /\ made' = made + 1
    /\ calls' = [calls EXCEPT ![c] = [@ EXCEPT !.at = "attach", !.session = made + 1]]
    /\ link' = [link EXCEPT ![made + 1] = "up"] /\ Publish(made + 1, "connected")
    /\ store' = Upserted("connected") /\ astray' = FALSE
    /\ UNCHANGED <<current, events, reader, discards, incidents, left>>

\* Has another call attached a session since this one made room for its own?
Rivalled(c) ==
    [d \in Callers |-> IF d # c /\ calls[d].at \in {"shut", "attempt", "attach"}
                       THEN [calls[d] EXCEPT !.rival = TRUE] ELSE calls[d]]

\* The rest of attach_remote_session; an entry that is there is overwritten.
Attach(c) ==
    LET k == calls[c].kind IN
    /\ calls[c].at = "attach"
    /\ Leaves /\ current' = calls[c].session
    /\ reader' = [reader EXCEPT ![calls[c].session] = "start"]
    /\ displaced' = displaced \cup
         IF current # NoSession /\ (calls[c].rival \/ k \notin Replaces) THEN {current} ELSE {}
    /\ calls' = [Rivalled(c) EXCEPT ![c] =
         IF k \in ShowsProgress THEN [Idle EXCEPT !.at = "finish", !.kind = k] ELSE Idle]
    /\ UNCHANGED <<session, store, events, unseen, discards, bounds, astray>>

Finish(c) ==
    /\ calls[c].at = "finish"
    /\ store' = Progress(store, FALSE) /\ Returns(c)
    /\ UNCHANGED <<current, session, events, reader, unseen, discards, bounds, left, astray>>

-----------------------------------------------------------------------------
(* Disconnect, restart, requests.                                           *)

\* Mutant: the entry is dropped without a disconnect of its session.
DisconnectForgets(c) ==
    /\ calls[c] = Idle /\ incidents < MaxIncidents
    /\ incidents' = incidents + 1
    /\ Leaves /\ current' = NoSession /\ store' = Unknown
    /\ UNCHANGED <<session, events, reader, unseen, calls, discards, made, displaced, astray>>

Disconnect(c) ==
    /\ calls[c] = Idle /\ incidents < MaxIncidents
    /\ incidents' = incidents + 1
    /\ Leaves /\ current' = NoSession /\ store' = Unknown
    /\ discards' = discards \cup ({current} \ {NoSession})
    /\ UNCHANGED <<session, events, reader, unseen, calls, made, displaced, astray>>

Restart(c) ==
    /\ calls[c] = Idle /\ incidents < MaxIncidents
    /\ incidents' = incidents + 1
    /\ Leaves /\ current' = NoSession /\ store' = Unknown
    /\ calls' = IF current = NoSession THEN calls
                ELSE [calls EXCEPT ![c] = [@ EXCEPT !.at = "shut", !.session = current]]
    /\ UNCHANGED <<session, events, reader, unseen, discards, made, displaced, astray>>

\* get_session; without an entry the caller goes on to blame the server.
Request(c) ==
    /\ calls[c] = Idle /\ incidents < MaxIncidents
    /\ incidents' = incidents + 1
    /\ calls' = [calls EXCEPT ![c] =
         [@ EXCEPT !.at = IF current = NoSession THEN "failed" ELSE "request", !.session = current]]
    /\ UNCHANGED <<current, session, store, events, reader, unseen, discards, made,
                   left, astray>>

Answered(c) ==
    /\ calls[c].at = "request"
    /\ Returns(c)
    /\ UNCHANGED <<current, session, store, events, reader, unseen, discards, bounds,
                   left, astray>>

\* A transport error of the session the request was given.
RequestFails(c) ==
    /\ calls[c].at = "request" /\ link[calls[c].session] # "up"
    /\ Goes(c, "failed")
    /\ UNCHANGED <<current, session, store, events, reader, unseen, discards, bounds,
                   left, astray>>

\* mark_server_transport_disconnected, whatever session is current by now.
Reconcile(c) ==
    /\ calls[c].at = "failed"
    /\ store' = Shown("disconnected") /\ astray' = TRUE /\ Returns(c)
    /\ UNCHANGED <<current, session, events, reader, unseen, discards, bounds, left>>

Reader(s) ==
    \/ ReaderStart(s) \/ ReaderGreet(s) \/ ReaderLook(s) \/ ReaderReports(s) \/ ReaderWake(s)

Call(c) ==
    \/ Announce(c) \/ Replace(c) \/ ShutOld(c) \/ AttemptFails(c) \/ AttemptSucceeds(c)
    \/ Attach(c) \/ Finish(c) \/ Answered(c) \/ RequestFails(c) \/ Reconcile(c)

Next ==
    \/ \E s \in Sessions : Drop(s) \/ Recover(s) \/ GiveUp(s) \/ Discard(s) \/ Reader(s)
    \/ Listen
    \/ \E c \in Callers : Call(c) \/ NoRuntime(c) \/ Disconnect(c) \/ Restart(c) \/ Request(c)
    \/ \E c \in Callers, k \in Kinds : Connect(c, k)

Spec == Init /\ [][Next]_vars

-----------------------------------------------------------------------------
(* Properties.                                                              *)

Places  == {"idle", "announce", "replace", "shut", "attempt", "attach", "finish", "request",
            "failed"}
Events == [health : Healths, late : BOOLEAN]
StoreRecords == [known : BOOLEAN, health : Healths, progress : BOOLEAN]
CallRecords  ==
    [at : Places, kind : AllKinds \cup {"none"}, session : Sessions \cup {NoSession},
     rival : BOOLEAN]

TypeOK ==
    /\ current \in Sessions \cup {NoSession}
    /\ link \in [Sessions -> {"none", "up", "retrying", "straggling", "down"}]
    /\ health \in [Sessions -> Healths]
    /\ store \in StoreRecords
    /\ events \in Seq(Events)
    /\ reader \in [Sessions -> {"none", "start", "greet", "look", "report", "wait", "done"}]
    /\ unseen \subseteq Sessions /\ discards \subseteq Sessions /\ displaced \subseteq Sessions
    /\ overtaken \subseteq Sessions
    /\ calls \in [Callers -> CallRecords]
    /\ made \in 0..MaxSessions /\ incidents \in 0..MaxIncidents
    /\ astray \in BOOLEAN

\* No call is under way, and all that was reported has been shown.
Quiet ==
    /\ \A c \in Callers : calls[c] = Idle
    /\ events = <<>> /\ discards = {}
    /\ \A s \in Sessions : reader[s] \in {"none", "done"} \/ (reader[s] = "wait" /\ s \notin unseen)

\* Once things are quiet, the server of a session that is connected is shown as
\* connected, unless the last to write the store was a failed call, or a reader that
\* had found its session in the map and lost it before the report: no other event
\* of a replaced session, progress or announcement leaves the store wrong.
StoreAgrees ==
    Quiet /\ current # NoSession /\ store.known /\ health[current] = "connected"
        => store.health = "connected" \/ astray

\* Someone is about to call disconnect on the session.
ToBeShut(s) ==
    s \in discards \/ \E c \in Callers : calls[c].at = "shut" /\ calls[c].session = s

\* A session is left running out of the map only when a guided connect, which
\* makes no room, or one of two connects that were under way together put its
\* own in the place: replacing, disconnecting and restarting leave none.
OrphansExplained ==
    \A s \in Sessions :
        reader[s] # "none" /\ s # current /\ link[s] \in {"up", "retrying"}
            => ToBeShut(s) \/ s \in displaced

\* The reader of a session that is no longer in the map has a reason to wake,
\* find out and end; only the reader of a displaced session may sleep on for
\* ever, keeping its session.
StaleReadersWake ==
    \A s \in Sessions :
        reader[s] = "wait" /\ s # current
            => s \in unseen \/ ToBeShut(s) \/ s \in displaced
=============================================================================
