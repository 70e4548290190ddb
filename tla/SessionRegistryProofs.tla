----------------------- MODULE SessionRegistryProofs -----------------------
(***************************************************************************)
(* What the runs of SessionRegistry check on two callers and two sessions, *)
(* for any number of callers, kinds, sessions and incidents; and what      *)
(* is decided for a saved server, whose plan is one of those connects, for *)
(* every record and any ports.                                             *)
(***************************************************************************)
EXTENDS SessionRegistry, ReconnectPlan, SequenceTheorems, WellFoundedInduction, TLAPS

-----------------------------------------------------------------------------
(* The strengthening.                                                       *)

\* Sessions are numbered as they are made; one is attached once, by the call
\* that made it, and has a reader from then on.
Numbered ==
    /\ current <= made
    /\ \A s \in Sessions : s > made => reader[s] = "none"
    /\ \A c \in Callers : calls[c].session <= made
    /\ current # NoSession => reader[current] \in {"start", "greet", "look", "report", "wait"}

\* A call that shuts or attaches a session has one.
Named ==
    \A c \in Callers : calls[c].at \in {"shut", "attach"} => calls[c].session \in Sessions

AttachedOnce ==
    /\ \A c \in Callers : calls[c].at = "attach" => reader[calls[c].session] = "none"
    /\ \A c, d \in Callers :
          calls[c].at = "attach" /\ calls[d].at = "attach" /\ c # d
              => calls[c].session # calls[d].session

\* A call that replaced the entry finds the map empty still, or it has a rival.
RoomMade ==
    \A c \in Callers :
        /\ calls[c].at \in {"shut", "attempt", "attach"}
        /\ calls[c].kind \in Replaces
        /\ ~calls[c].rival
        => current = NoSession

\* The reader of the current session has reported all there is to report.
Settled ==
    /\ current # NoSession
    /\ reader[current] = "wait" /\ current \notin unseen
    /\ health[current] = "connected"

\* A call that has announced itself and will replace the entry or write again.
Announced(c) ==
    calls[c].at = "replace" \/ (calls[c].at = "attempt" /\ calls[c].kind \notin Replaces)

\* A session with a report to come left the map since its reader's check, if it did.
Overtaking ==
    \A s \in Sessions : reader[s] \in {"greet", "report"} /\ s # current => s \in overtaken

\* What the reader reported last is on its way, or a late report follows it.
LastReported ==
    Settled /\ events # <<>>
        => events[Len(events)].health = "connected" \/ events[Len(events)].late

\* A reader that is about to report, or waits, found its session in the map.
StaleReadersRouse ==
    \A s \in Sessions :
        reader[s] \in {"report", "wait"} /\ s # current
            => s \in unseen \/ ToBeShut(s) \/ s \in displaced

StoreFollows ==
    Settled /\ events = <<>> /\ store.known
        => store.health = "connected" \/ astray \/ \E c \in Callers : Announced(c)

IInv ==
    /\ TypeOK /\ Named /\ Numbered /\ AttachedOnce /\ RoomMade
    /\ Overtaking /\ LastReported /\ StoreFollows /\ OrphansExplained /\ StaleReadersRouse
-----------------------------------------------------------------------------
(* Types.                                                                   *)

\* Records of calls and of the store stay such when a field is replaced.
LEMMA CallEdits ==
    ASSUME NEW r \in CallRecords, NEW a \in Places, NEW x \in Sessions \cup {NoSession},
           NEW k \in AllKinds
    PROVE  /\ [r EXCEPT !.at = a] \in CallRecords
           /\ [r EXCEPT !.at = a, !.session = x] \in CallRecords
           /\ [r EXCEPT !.rival = TRUE] \in CallRecords
           /\ [r EXCEPT !.at = a, !.kind = k] \in CallRecords
BY DEF CallRecords

LEMMA CallMoves ==
    ASSUME calls \in [Callers -> CallRecords], NEW c \in Callers, NEW a \in Places,
           NEW x \in Sessions \cup {NoSession}
    PROVE  /\ calls[c] \in CallRecords
           /\ [calls EXCEPT ![c] = [@ EXCEPT !.at = a]] \in [Callers -> CallRecords]
           /\ [calls EXCEPT ![c] = [@ EXCEPT !.at = a, !.session = x]]
                  \in [Callers -> CallRecords]
<1>1. calls[c] \in CallRecords
  OBVIOUS
<1>2. [calls[c] EXCEPT !.at = a] \in CallRecords
  BY <1>1 DEF CallRecords
<1>3. [calls[c] EXCEPT !.at = a, !.session = x] \in CallRecords
  BY <1>1 DEF CallRecords
<1>4. QED
  BY <1>1, <1>2, <1>3

LEMMA IdleIsCall == Idle \in CallRecords
BY DEF Idle, CallRecords, Places, NoSession

LEMMA StoreEdits ==
    ASSUME store \in StoreRecords, NEW h \in Healths, NEW p \in BOOLEAN,
           NEW r \in StoreRecords
    PROVE  /\ Upserted(h) \in StoreRecords /\ Shown(h) \in StoreRecords
           /\ Progress(r, p) \in StoreRecords
           /\ [Upserted(h) EXCEPT !.progress = p] \in StoreRecords
BY DEF Upserted, Shown, Progress, StoreRecords

LEMMA UnknownIsStore == Unknown \in StoreRecords
BY DEF Unknown, StoreRecords, Healths

LEMMA TypesInit == Init => TypeOK
<1> USE RegistryAssumption DEF Init, Sessions, NoSession
<1>1. ASSUME Init PROVE calls \in [Callers -> CallRecords] /\ store \in StoreRecords
  BY <1>1, IdleIsCall, UnknownIsStore
<1>2. ASSUME Init PROVE events \in Seq(Events) /\ health \in [Sessions -> Healths]
  BY <1>2 DEF Healths
<1>3. ASSUME Init PROVE made \in 0..MaxSessions /\ incidents \in 0..MaxIncidents
  BY <1>3
<1>4. ASSUME Init
      PROVE  /\ link \in [Sessions -> {"none", "up", "retrying", "straggling", "down"}]
             /\ reader \in [Sessions -> {"none", "start", "greet", "look", "report", "wait", "done"}]
  BY <1>4
<1>5. QED
  BY <1>1, <1>2, <1>3, <1>4 DEF TypeOK

LEMMA TypesStep == TypeOK /\ Named /\ [Next]_vars => TypeOK'
<1> USE RegistryAssumption DEF TypeOK, left
<1>1. SUFFICES ASSUME TypeOK, Named, [Next]_vars PROVE TypeOK'
  OBVIOUS
<1> USE <1>1
<1>2. NoSession \notin Sessions /\ Sessions \subseteq Nat /\ NoSession \in Nat
  BY DEF Sessions, NoSession
<1>3. {"connected", "connecting", "disconnected"} = Healths
  BY DEF Healths
<1>4. ASSUME NEW s \in Sessions, Drop(s) PROVE TypeOK'
  BY <1>2, <1>3, <1>4 DEF Drop, Publish, session
<1>5. ASSUME NEW s \in Sessions, Recover(s) PROVE TypeOK'
  BY <1>2, <1>3, <1>5 DEF Recover, Publish, bounds
<1>6. ASSUME NEW s \in Sessions, GiveUp(s) PROVE TypeOK'
  BY <1>2, <1>3, <1>6 DEF GiveUp, Publish, bounds
<1>7. ASSUME NEW s \in Sessions, Discard(s) PROVE TypeOK'
  BY <1>2, <1>3, <1>7 DEF Discard, Shut, Publish, bounds
<1>30. ASSUME NEW s \in Sessions, NEW h \in Healths, Report(s, h)
       PROVE  events' \in Seq(Events) /\ overtaken' \subseteq Sessions
  <2>1. [health |-> h, late |-> s \in overtaken] \in Events
    BY DEF Events
  <2>2. QED
    BY <1>30, <2>1 DEF Report
<1>31. ASSUME Leaves PROVE overtaken' \subseteq Sessions
  BY <1>31 DEF Leaves
<1>8. ASSUME NEW s \in Sessions, ReaderStart(s) \/ ReaderLook(s) PROVE TypeOK'
  BY <1>8 DEF ReaderStart, ReaderLook, session, bounds, left
<1>9. ASSUME NEW s \in Sessions, ReaderGreet(s) \/ ReaderReports(s) PROVE TypeOK'
  <2>1. events' \in Seq(Events) /\ overtaken' \subseteq Sessions
    BY <1>3, <1>9, <1>30 DEF ReaderGreet, ReaderReports
  <2>2. QED
    BY <1>9, <2>1 DEF ReaderGreet, ReaderReports, session, bounds
<1>10. ASSUME NEW s \in Sessions, ReaderWake(s) PROVE TypeOK'
  BY <1>2, <1>3, <1>10 DEF ReaderWake, session, bounds
<1>11. ASSUME Listen PROVE TypeOK'
  <2>1. events' \in Seq(Events) /\ Head(events) \in Events
    BY <1>2, <1>3, <1>11 DEF Listen
  <2>2. store' \in StoreRecords
    BY <1>2, <1>3, <1>11, <2>1, StoreEdits DEF Listen, Events
  <2>3. astray' \in BOOLEAN
    BY <1>11, <2>1 DEF Listen, Events
  <2>4. QED
    BY <1>2, <1>3, <1>11, <2>1, <2>2, <2>3 DEF Listen, session, bounds
<1>12. ASSUME NEW c \in Callers, Announce(c) PROVE TypeOK'
  <2>1. store' \in StoreRecords
    <3>1. calls[c] \in CallRecords /\ "connecting" \in Healths
      BY DEF Healths
    <3>2. Upserted("connecting") \in StoreRecords
      BY <3>1, StoreEdits
    <3>3. (Upserted("connecting").progress \/ calls[c].kind \in ShowsProgress) \in BOOLEAN
      OBVIOUS
    <3>4. QED
      BY <1>12, <3>2, <3>3 DEF Announce, StoreRecords
  <2>2. calls' \in [Callers -> CallRecords]
    <3>1. CASE calls[c].kind \in Replaces
      BY <1>2, <1>12, <3>1, CallMoves DEF Announce, Goes, Places
    <3>2. CASE ~(calls[c].kind \in Replaces)
      BY <1>2, <1>12, <3>2, CallMoves DEF Announce, Goes, Places
    <3>3. QED
      BY <3>1, <3>2
  <2>3. QED
    BY <1>2, <1>3, <1>12, <2>1, <2>2 DEF Announce, session, bounds
<1>13. ASSUME NEW c \in Callers, Replace(c) PROVE TypeOK'
  <2>1. calls' \in [Callers -> CallRecords]
    <3>1. CASE current = NoSession
      BY <1>2, <1>13, <3>1, CallMoves DEF Replace, Places
    <3>2. CASE ~(current = NoSession)
      BY <1>2, <1>13, <3>2, CallMoves DEF Replace, Places
    <3>3. QED
      BY <3>1, <3>2
  <2>2. QED
    BY <1>2, <1>3, <1>13, <1>31, <2>1 DEF Replace, session, bounds
<1>14. ASSUME NEW c \in Callers, ShutOld(c) PROVE TypeOK'
  <2>1. Shut(calls[c].session)
    BY <1>14 DEF ShutOld
  <2>2. calls' \in [Callers -> CallRecords]
    <3>1. CASE calls[c].kind = "none"
      <4>1. calls' = [calls EXCEPT ![c] = Idle]
        BY <1>14, <3>1 DEF ShutOld, Returns
      <4>2. QED
        BY <4>1, IdleIsCall
    <3>2. CASE calls[c].kind # "none"
      <4>1. calls' = [calls EXCEPT ![c] = [@ EXCEPT !.at = "attempt", !.session = NoSession]]
        BY <1>14, <3>2 DEF ShutOld
      <4>2. QED
        BY <4>1, CallMoves DEF Places
    <3>3. QED
      BY <3>1, <3>2
  <2>3. /\ link' \in [Sessions -> {"none", "up", "retrying", "straggling", "down"}]
        /\ health' \in [Sessions -> Healths]
    BY <1>3, <2>1 DEF Shut, Publish
  <2>4. unseen' \subseteq Sessions
    <3>1. calls[c].session \in Sessions
      BY <1>1, <1>14 DEF ShutOld, Named
    <3>2. QED
      BY <2>1, <3>1 DEF Shut, Publish
  <2>5. QED
    BY <1>14, <2>2, <2>3, <2>4 DEF ShutOld, bounds
<1>15. ASSUME NEW c \in Callers, AttemptFails(c) PROVE TypeOK'
  <2>1. store' \in StoreRecords
    <3> DEFINE p == calls[c].kind = "guided" \/ (store.progress /\ calls[c].kind # "ssh")
    <3>1. "disconnected" \in Healths /\ p \in BOOLEAN
      BY DEF Healths
    <3>2. Shown("disconnected") \in StoreRecords
      BY <3>1, StoreEdits
    <3>3. Progress(Shown("disconnected"), p) \in StoreRecords
      BY <3>1, <3>2, StoreEdits
    <3>4. QED
      BY <1>15, <3>3 DEF AttemptFails
  <2>2. calls' \in [Callers -> CallRecords]
    BY <1>15, IdleIsCall DEF AttemptFails, Returns
  <2>3. astray' \in BOOLEAN
    BY <1>15 DEF AttemptFails
  <2>4. QED
    BY <1>15, <2>1, <2>2, <2>3 DEF AttemptFails, session, bounds
<1>16. ASSUME NEW c \in Callers, AttemptSucceeds(c) PROVE TypeOK'
  <2>1. store' \in StoreRecords
    BY <1>3, <1>16, StoreEdits DEF AttemptSucceeds, Healths
  <2>2. made + 1 \in Sessions /\ made' \in 0..MaxSessions
    BY <1>16 DEF AttemptSucceeds, Sessions
  <2>3. calls' \in [Callers -> CallRecords]
    BY <1>16, <2>2, CallMoves DEF AttemptSucceeds, Places
  <2>4. /\ link' \in [Sessions -> {"none", "up", "retrying", "straggling", "down"}]
        /\ health' \in [Sessions -> Healths] /\ unseen' \subseteq Sessions
    BY <1>3, <1>16, <2>2 DEF AttemptSucceeds, Publish
  <2>5. QED
    BY <1>16, <2>1, <2>2, <2>3, <2>4 DEF AttemptSucceeds
<1>17. ASSUME NEW c \in Callers, Attach(c) PROVE TypeOK'
  <2>1. Rivalled(c) \in [Callers -> CallRecords]
    <3>1. ASSUME NEW d \in Callers PROVE [calls[d] EXCEPT !.rival = TRUE] \in CallRecords
      BY DEF CallRecords
    <3>2. QED
      BY <3>1 DEF Rivalled
  <2>2. calls[c].session \in Sessions \cup {NoSession}
    BY DEF CallRecords
  <2>3. calls' \in [Callers -> CallRecords]
    <3>1. [Idle EXCEPT !.at = "finish", !.kind = calls[c].kind] \in CallRecords
      BY DEF Idle, CallRecords, Places
    <3>2. QED
      BY <1>17, <2>1, <3>1, IdleIsCall DEF Attach
  <2>4. reader' \in [Sessions -> {"none", "start", "greet", "look", "report", "wait", "done"}]
    BY <1>17 DEF Attach
  <2>5. displaced' \subseteq Sessions
    BY <1>17 DEF Attach
  <2>6. QED
    BY <1>17, <1>31, <2>2, <2>3, <2>4, <2>5 DEF Attach, session, bounds
<1>18. ASSUME NEW c \in Callers, Finish(c) PROVE TypeOK'
  <2>1. store' \in StoreRecords
    BY <1>2, <1>3, <1>18, StoreEdits DEF Finish, Healths
  <2>2. calls' \in [Callers -> CallRecords]
    BY <1>2, <1>3, <1>18, IdleIsCall DEF Finish, Returns
  <2>3. QED
    BY <1>2, <1>3, <1>18, <2>1, <2>2 DEF Finish, session, bounds
<1>19. ASSUME NEW c \in Callers, Answered(c) PROVE TypeOK'
  <2>1. calls' \in [Callers -> CallRecords]
    BY <1>2, <1>3, <1>19, IdleIsCall DEF Answered, Returns
  <2>2. QED
    BY <1>2, <1>3, <1>19, <2>1 DEF Answered, session, bounds
<1>20. ASSUME NEW c \in Callers, RequestFails(c) PROVE TypeOK'
  <2>1. calls' \in [Callers -> CallRecords]
    BY <1>20, CallMoves DEF RequestFails, Goes, Places
  <2>2. QED
    BY <1>20, <2>1 DEF RequestFails, session, bounds
<1>21. ASSUME NEW c \in Callers, Reconcile(c) PROVE TypeOK'
  <2>1. store' \in StoreRecords
    BY <1>2, <1>3, <1>21, StoreEdits DEF Reconcile, Healths
  <2>2. calls' \in [Callers -> CallRecords]
    BY <1>2, <1>3, <1>21, IdleIsCall DEF Reconcile, Returns
  <2>3. QED
    BY <1>2, <1>3, <1>21, <2>1, <2>2 DEF Reconcile, session, bounds
<1>22. ASSUME NEW c \in Callers, NoRuntime(c) PROVE TypeOK'
  <2>1. store' \in StoreRecords
    BY <1>2, <1>3, <1>22, StoreEdits DEF NoRuntime, Healths
  <2>2. QED
    BY <1>2, <1>3, <1>22, <2>1 DEF NoRuntime, session
<1>23. ASSUME NEW c \in Callers, Disconnect(c) PROVE TypeOK'
  <2>1. store' \in StoreRecords
    BY <1>2, <1>3, <1>23, UnknownIsStore DEF Disconnect
  <2>2. QED
    BY <1>2, <1>3, <1>23, <1>31, <2>1 DEF Disconnect, session
<1>24. ASSUME NEW c \in Callers, Restart(c) PROVE TypeOK'
  <2>1. store' \in StoreRecords
    BY <1>24, UnknownIsStore DEF Restart
  <2>2. calls' \in [Callers -> CallRecords]
    <3>1. CASE current = NoSession
      BY <1>2, <1>24, <3>1, CallMoves DEF Restart, Places
    <3>2. CASE ~(current = NoSession)
      BY <1>2, <1>24, <3>2, CallMoves DEF Restart, Places
    <3>3. QED
      BY <3>1, <3>2
  <2>3. QED
    BY <1>2, <1>3, <1>24, <1>31, <2>1, <2>2 DEF Restart, session
<1>25. ASSUME NEW c \in Callers, Request(c) PROVE TypeOK'
  <2>1. calls' \in [Callers -> CallRecords]
    <3>1. CASE current = NoSession
      BY <1>2, <1>25, <3>1, CallMoves DEF Request, Places
    <3>2. CASE ~(current = NoSession)
      BY <1>2, <1>25, <3>2, CallMoves DEF Request, Places
    <3>3. QED
      BY <3>1, <3>2
  <2>2. QED
    BY <1>2, <1>3, <1>25, <2>1 DEF Request, session
<1>26. ASSUME NEW c \in Callers, NEW k \in Kinds, Connect(c, k) PROVE TypeOK'
  <2>1. calls' \in [Callers -> CallRecords]
    BY <1>2, <1>3, <1>26, CallEdits, IdleIsCall DEF Connect, Places
  <2>2. QED
    BY <1>2, <1>3, <1>26, <2>1 DEF Connect, session
<1>27. ASSUME UNCHANGED vars PROVE TypeOK'
  BY <1>27 DEF vars, session, bounds
<1>28. QED
  BY <1>4, <1>5, <1>6, <1>7, <1>8, <1>9, <1>10, <1>11, <1>12, <1>13, <1>14, <1>15, <1>16, <1>17,
       <1>18, <1>19, <1>20, <1>21, <1>22, <1>23, <1>24, <1>25, <1>26, <1>27 DEF Next, Reader, Call

\* A call is changed by a step of its own; attaching a session may give the others
\* a rival.
LEMMA Moves ==
    ASSUME TypeOK, [Next]_vars, NEW d \in Callers
    PROVE  \/ calls'[d] = calls[d] \/ calls'[d] = [calls[d] EXCEPT !.rival = TRUE]
           \/ Call(d) \/ Restart(d) \/ Request(d) \/ \E k \in Kinds : Connect(d, k)
<1>1. calls \in [Callers -> CallRecords]
  BY DEF TypeOK
<1>2. ASSUME NEW s \in Sessions,
             Drop(s) \/ Recover(s) \/ GiveUp(s) \/ Discard(s) \/ Reader(s) \/ Listen
      PROVE  calls' = calls
  BY <1>2 DEF Drop, Recover, GiveUp, Discard, Reader, ReaderStart, ReaderGreet, ReaderLook,
       ReaderReports, Report, ReaderWake, Listen
<1>3. ASSUME Listen \/ UNCHANGED vars PROVE calls' = calls
  BY <1>3 DEF Listen, vars
<1>4. ASSUME NEW c \in Callers, c # d, Attach(c)
      PROVE  calls'[d] = calls[d] \/ calls'[d] = [calls[d] EXCEPT !.rival = TRUE]
  <2>1. calls'[d] = Rivalled(c)[d]
    BY <1>4 DEF Attach, Rivalled
  <2>2. QED
    BY <2>1 DEF Rivalled
<1>5. ASSUME NEW c \in Callers, c # d,
             Announce(c) \/ Replace(c) \/ ShutOld(c) \/ AttemptFails(c) \/ AttemptSucceeds(c)
      PROVE  calls'[d] = calls[d]
  BY <1>1, <1>5 DEF Announce, Replace, ShutOld, AttemptFails, AttemptSucceeds, Goes, Returns
<1>6. ASSUME NEW c \in Callers, c # d,
             Finish(c) \/ Answered(c) \/ RequestFails(c) \/ Reconcile(c)
      PROVE  calls'[d] = calls[d]
  BY <1>1, <1>6 DEF Finish, Answered, RequestFails, Reconcile, Goes, Returns
<1>7. ASSUME NEW c \in Callers, NoRuntime(c) \/ Disconnect(c) PROVE calls' = calls
  BY <1>7 DEF NoRuntime, Disconnect
<1>8. ASSUME NEW c \in Callers, c # d,
             Restart(c) \/ Request(c) \/ \E k \in Kinds : Connect(c, k)
      PROVE  calls'[d] = calls[d]
  BY <1>1, <1>8 DEF Restart, Request, Connect
<1>9. QED
  BY <1>2, <1>3, <1>4, <1>5, <1>6, <1>7, <1>8 DEF Next, Call

\* Where a call may go, with what session.
Elsewhere == {"idle", "announce", "replace", "finish", "request", "failed"}

LEMMA CallOutcome ==
    ASSUME TypeOK, [Next]_vars, NEW d \in Callers
    PROVE  \/ calls'[d] = calls[d] \/ calls'[d] = [calls[d] EXCEPT !.rival = TRUE]
           \/ /\ calls'[d].at \in Elsewhere
              /\ calls'[d].session \in {NoSession, current, calls[d].session}
           \/ /\ Announce(d) /\ calls'[d].at = "attempt"
              /\ calls'[d].kind \notin Replaces /\ calls'[d].session = calls[d].session
           \/ /\ Replace(d) /\ calls'[d].at = IF current = NoSession THEN "attempt" ELSE "shut"
              /\ calls'[d].session = current
           \/ /\ Restart(d) /\ calls'[d].at = "shut" /\ calls'[d].session = current
              /\ calls'[d].kind = "none" /\ current # NoSession
           \/ /\ ShutOld(d) /\ calls'[d].at = "attempt" /\ calls'[d].session = NoSession
              /\ calls'[d].kind = calls[d].kind /\ calls'[d].rival = calls[d].rival
           \/ /\ AttemptSucceeds(d) /\ calls'[d].at = "attach" /\ calls'[d].session = made + 1
              /\ calls'[d].kind = calls[d].kind /\ calls'[d].rival = calls[d].rival
<1>1. calls[d] \in CallRecords /\ calls \in [Callers -> CallRecords]
  BY DEF TypeOK
<1>2. CASE AttemptFails(d) \/ Finish(d) \/ Answered(d) \/ Reconcile(d)
  <2>1. calls'[d] = Idle
    BY <1>1, <1>2 DEF AttemptFails, Finish, Answered, Reconcile, Returns
  <2>2. QED
    BY <2>1 DEF Idle, Elsewhere
<1>3. CASE RequestFails(d)
  BY <1>1, <1>3 DEF RequestFails, Goes, CallRecords, Elsewhere
<1>4. CASE Announce(d)
  BY <1>1, <1>4 DEF Announce, Goes, CallRecords, Elsewhere
<1>5. CASE Request(d)
  BY <1>1, <1>5 DEF Request, CallRecords, Elsewhere
<1>6. CASE \E k \in Kinds : Connect(d, k)
  BY <1>1, <1>6 DEF Connect, Idle, CallRecords, Elsewhere
<1>7. CASE Attach(d)
  <2>1. calls'[d] = Idle \/ calls'[d] = [Idle EXCEPT !.at = "finish", !.kind = calls[d].kind]
    BY <1>1, <1>7 DEF Attach, Rivalled
  <2>2. Idle.at = "idle" /\ Idle.session = NoSession
    BY DEF Idle
  <2>3. /\ [Idle EXCEPT !.at = "finish", !.kind = calls[d].kind].at = "finish"
        /\ [Idle EXCEPT !.at = "finish", !.kind = calls[d].kind].session = NoSession
    BY DEF Idle
  <2>4. QED
    BY <2>1, <2>2, <2>3 DEF Elsewhere
<1>8. CASE Replace(d)
  BY <1>1, <1>8 DEF Replace, CallRecords
<1>9. CASE Restart(d)
  <2>1. CASE current = NoSession
    BY <1>9, <2>1 DEF Restart
  <2>2. CASE current # NoSession
    <3>1. calls'[d] = [calls[d] EXCEPT !.at = "shut", !.session = current]
      BY <1>1, <1>9, <2>2 DEF Restart
    <3>2. calls[d].kind = "none"
      BY <1>9 DEF Restart, Idle
    <3>3. QED
      BY <1>1, <1>9, <2>2, <3>1, <3>2 DEF CallRecords
  <2>3. QED
    BY <2>1, <2>2
<1>10. CASE ShutOld(d)
  <2>1. CASE calls[d].kind = "none"
    <3>1. calls'[d] = Idle
      BY <1>1, <1>10, <2>1 DEF ShutOld, Returns
    <3>2. QED
      BY <3>1 DEF Idle, Elsewhere
  <2>2. CASE calls[d].kind # "none"
    <3>1. calls'[d] = [calls[d] EXCEPT !.at = "attempt", !.session = NoSession]
      BY <1>1, <1>10, <2>2 DEF ShutOld
    <3>2. QED
      BY <1>1, <1>10, <3>1 DEF CallRecords
  <2>3. QED
    BY <2>1, <2>2
<1>11. CASE AttemptSucceeds(d)
  <2>1. calls'[d] = [calls[d] EXCEPT !.at = "attach", !.session = made + 1]
    BY <1>1, <1>11 DEF AttemptSucceeds
  <2>2. QED
    BY <1>1, <1>11, <2>1 DEF CallRecords
<1>12. QED
  BY <1>2, <1>3, <1>4, <1>5, <1>6, <1>7, <1>8, <1>9, <1>10, <1>11, Moves DEF Call

LEMMA NamedStep == TypeOK /\ Named /\ [Next]_vars => Named'
<1>1. SUFFICES ASSUME TypeOK, Named, [Next]_vars, NEW d \in Callers,
                      calls'[d].at \in {"shut", "attach"}
               PROVE  calls'[d].session \in Sessions
  BY DEF Named
<1>2. calls[d] \in CallRecords /\ current \in Sessions \cup {NoSession}
  BY <1>1 DEF TypeOK
<1>3. AttemptSucceeds(d) => made + 1 \in Sessions
  BY <1>1, RegistryAssumption DEF AttemptSucceeds, TypeOK, Sessions
<1>4. calls'[d] = [calls[d] EXCEPT !.rival = TRUE]
         => calls'[d].at = calls[d].at /\ calls'[d].session = calls[d].session
  BY <1>2 DEF CallRecords
<1>5. QED
  BY <1>1, <1>2, <1>3, <1>4, CallOutcome DEF Named, Elsewhere

-----------------------------------------------------------------------------
(* Which actions change which variable.                                     *)

LEMMA CurrentMoves ==
    ASSUME [Next]_vars
    PROVE  current' = current
           \/ \E c \in Callers : Replace(c) \/ Attach(c) \/ Disconnect(c) \/ Restart(c)
BY DEF Next, Call, Reader, vars, Drop, Recover, GiveUp, Discard, ReaderStart, ReaderGreet,
       ReaderLook,
       ReaderReports, Report, ReaderWake, Listen, Announce, ShutOld, AttemptFails,
       AttemptSucceeds, Finish, Answered,
       RequestFails, Reconcile, NoRuntime, Request, Connect

LEMMA ReaderMoves ==
    ASSUME [Next]_vars
    PROVE  reader' = reader \/ (\E s \in Sessions : Reader(s)) \/ \E c \in Callers : Attach(c)
BY DEF Next, Call, vars, Drop, Recover, GiveUp, Discard, Listen, Announce, Replace, ShutOld,
       AttemptFails, AttemptSucceeds, Finish, Answered, RequestFails, Reconcile, NoRuntime,
       Disconnect, Restart, Request, Connect

LEMMA MadeMoves ==
    ASSUME [Next]_vars
    PROVE  made' = made \/ \E c \in Callers : AttemptSucceeds(c)
BY DEF Next, Call, Reader, vars, bounds, Drop, Recover, GiveUp, Discard, ReaderStart,
       ReaderGreet, ReaderLook,
       ReaderReports, Report, ReaderWake, Listen, Announce, Replace, ShutOld, AttemptFails,
       Attach, Finish, Answered,
       RequestFails, Reconcile, NoRuntime, Disconnect, Restart, Request, Connect

LEMMA LinkMoves ==
    ASSUME [Next]_vars
    PROVE  \/ UNCHANGED session
           \/ \E s \in Sessions : Drop(s) \/ Recover(s) \/ GiveUp(s) \/ Discard(s)
           \/ \E c \in Callers : ShutOld(c) \/ AttemptSucceeds(c)
BY DEF Next, Call, Reader, vars, ReaderStart, ReaderGreet, ReaderLook,
       ReaderReports, Report, ReaderWake, Listen, Announce, Replace,
       AttemptFails, Attach, Finish, Answered, RequestFails, Reconcile, NoRuntime, Disconnect,
       Restart, Request, Connect

LEMMA DiscardMoves ==
    ASSUME [Next]_vars
    PROVE  discards \subseteq discards' \/ \E s \in Sessions : Discard(s) /\ discards' = discards \ {s}
BY DEF Next, Call, Reader, vars, Drop, Recover, GiveUp, Discard, ReaderStart, ReaderGreet,
       ReaderLook,
       ReaderReports, Report, ReaderWake, Listen, Announce, Replace, ShutOld, AttemptFails,
       AttemptSucceeds, Attach,
       Finish, Answered, RequestFails, Reconcile, NoRuntime, Disconnect, Restart, Request, Connect

LEMMA DisplacedMoves ==
    ASSUME [Next]_vars
    PROVE  displaced \subseteq displaced'
BY DEF Next, Call, Reader, vars, left, Drop, Recover, GiveUp, Discard, ReaderStart, ReaderGreet,
       ReaderLook,
       ReaderReports, Report, ReaderWake, Listen, Announce, Replace, ShutOld, AttemptFails,
       AttemptSucceeds, Attach,
       Finish, Answered, RequestFails, Reconcile, NoRuntime, Disconnect, Restart, Request, Connect

LEMMA OvertakenMoves ==
    ASSUME [Next]_vars
    PROVE  \/ current' = current /\ reader' = reader /\ overtaken' = overtaken
           \/ \E s \in Sessions : Reader(s)
           \/ \E c \in Callers : Replace(c) \/ Attach(c) \/ Disconnect(c) \/ Restart(c)
BY DEF Next, Call, vars, left, Drop, Recover, GiveUp, Discard, Listen, Announce, ShutOld,
       AttemptFails, AttemptSucceeds, Finish, Answered, RequestFails, Reconcile, NoRuntime,
       Request, Connect

LEMMA UnseenMoves ==
    ASSUME [Next]_vars
    PROVE  unseen \subseteq unseen' \/ \E s \in Sessions : ReaderWake(s) /\ unseen' = unseen \ {s}
<1>1. CASE \E s \in Sessions : Drop(s) \/ Recover(s) \/ GiveUp(s) \/ Discard(s) \/ Reader(s)
  BY <1>1 DEF Drop, Recover, GiveUp, Discard, Reader, ReaderStart, ReaderGreet, ReaderLook,
       ReaderReports, Report, ReaderWake, Shut,
              Publish
<1>2. CASE \E c \in Callers : ShutOld(c) \/ AttemptSucceeds(c)
  BY <1>2 DEF ShutOld, AttemptSucceeds, Shut, Publish
<1>3. CASE UNCHANGED session /\ ~\E s \in Sessions : Reader(s)
  BY <1>3, ZenonT(30) DEF Next, Call, vars, Drop, Recover, GiveUp, Discard, Listen, Announce,
       Replace, ShutOld,
              Shut, Publish, AttemptFails, AttemptSucceeds, Attach, Finish, Answered,
              RequestFails, Reconcile, NoRuntime, Disconnect, Restart, Request, Connect
<1>4. QED
  BY <1>1, <1>2, <1>3, LinkMoves

LEMMA EventMoves ==
    ASSUME [Next]_vars
    PROVE  events' = events \/ Listen \/ \E s \in Sessions : ReaderGreet(s) \/ ReaderReports(s)
BY DEF Next, Call, Reader, vars, Drop, Recover, GiveUp, Discard, ReaderStart, ReaderLook,
       ReaderWake, Announce, Replace,
       ShutOld, AttemptFails, AttemptSucceeds, Attach, Finish, Answered, RequestFails, Reconcile,
       NoRuntime, Disconnect, Restart, Request, Connect

LEMMA StoreMoves ==
    ASSUME [Next]_vars
    PROVE  \/ UNCHANGED <<store, astray>> \/ Listen
           \/ \E c \in Callers : \/ Announce(c) \/ AttemptFails(c) \/ AttemptSucceeds(c)
                                 \/ Finish(c) \/ NoRuntime(c) \/ Reconcile(c)
                                 \/ Disconnect(c) \/ Restart(c)
BY DEF Next, Call, Reader, vars, Drop, Recover, GiveUp, Discard, ReaderStart, ReaderGreet,
       ReaderLook,
       ReaderReports, Report, ReaderWake, Replace, ShutOld, Attach, Answered, RequestFails,
       Request, Connect

-----------------------------------------------------------------------------
(* The invariant, part by part.                                             *)

LEMMA NumberedStep ==
    ASSUME TypeOK, Named, Numbered, [Next]_vars
    PROVE  Numbered'
<1>1. made \in Nat /\ made' \in Nat /\ made <= made'
  <2>1. made' = made \/ made' = made + 1
    BY MadeMoves DEF AttemptSucceeds
  <2>2. QED
    BY <2>1, RegistryAssumption DEF TypeOK
<1>2. /\ \A c \in Callers : calls[c] \in CallRecords
      /\ reader \in [Sessions -> {"none", "start", "greet", "look", "report", "wait", "done"}]
      /\ current \in Sessions \cup {NoSession}
  BY DEF TypeOK
<1>3. Sessions \subseteq Nat /\ NoSession = 0
  BY RegistryAssumption DEF Sessions, NoSession
<1>9. current \in Nat /\ \A c \in Callers : calls[c].session \in Nat
  <2>1. ASSUME NEW c \in Callers PROVE calls[c].session \in Sessions \cup {NoSession}
    BY <1>2 DEF CallRecords
  <2>2. current \in Sessions \cup {NoSession}
    BY <1>2
  <2>3. QED
    BY <2>1, <2>2, RegistryAssumption DEF Sessions, NoSession
<1>4. current' <= made'
  <2>1. current' \in {current, NoSession} \/ \E c \in Callers : current' = calls[c].session
    BY CurrentMoves DEF Replace, Attach, Disconnect, Restart
  <2>2. current' <= made
    BY <1>1, <1>3, <2>1 DEF Numbered
  <2>3. current' \in Nat
    BY <1>3, <1>9, <2>1
  <2>4. QED
    BY <1>1, <2>2, <2>3
<1>5. ASSUME NEW s \in Sessions, s > made' PROVE reader'[s] = "none"
  <2>1. s > made
    BY <1>1, <1>3, <1>5
  <2>2. reader[s] = "none"
    BY <2>1 DEF Numbered
  <2>3. CASE \E t \in Sessions : Reader(t)
    BY <1>2, <2>2, <2>3 DEF Reader, ReaderStart, ReaderGreet, ReaderLook,
       ReaderReports, Report, ReaderWake
  <2>4. CASE \E c \in Callers : Attach(c)
    <3>1. PICK c \in Callers : Attach(c)
      BY <2>4
    <3>2. calls[c].session # s
      BY <1>1, <1>2, <1>3, <2>1, <3>1 DEF Numbered, CallRecords
    <3>3. QED
      BY <1>2, <2>2, <3>1, <3>2 DEF Attach
  <2>5. QED
    BY <2>2, <2>3, <2>4, ReaderMoves
<1>6. ASSUME NEW d \in Callers PROVE calls'[d].session <= made'
  <2>1. calls'[d] = [calls[d] EXCEPT !.rival = TRUE] => calls'[d].session = calls[d].session
    BY <1>2 DEF CallRecords
  <2>2. \/ calls'[d].session \in {NoSession, current, calls[d].session}
        \/ AttemptSucceeds(d) /\ calls'[d].session = made + 1
    BY <2>1, CallOutcome
  <2>3. AttemptSucceeds(d) => made' = made + 1
    BY DEF AttemptSucceeds
  <2>4. calls'[d].session <= made \/ calls'[d].session = made'
    BY <1>1, <1>3, <2>2, <2>3 DEF Numbered
  <2>5. calls'[d].session \in Nat
    BY <1>1, <1>3, <1>9, <2>2
  <2>6. QED
    BY <1>1, <2>4, <2>5
<1>7. current' # NoSession => reader'[current'] \in {"start", "greet", "look", "report", "wait"}
  <2>1. CASE \E c \in Callers : Attach(c)
    <3>1. PICK c \in Callers : Attach(c)
      BY <2>1
    <3>2. calls[c].session \in Sessions
      BY <3>1 DEF Named, Attach
    <3>3. QED
      BY <1>2, <3>1, <3>2 DEF Attach
  <2>2. CASE ~\E c \in Callers : Attach(c)
    <3>1. current' = current \/ current' = NoSession
      BY <2>2, CurrentMoves DEF Replace, Disconnect, Restart
    <3>2. CASE \E t \in Sessions : Reader(t)
      BY <1>2, <3>1, <3>2 DEF Reader, ReaderStart, ReaderGreet, ReaderLook,
       ReaderReports, Report, ReaderWake, Numbered
    <3>3. CASE reader' = reader
      BY <3>1, <3>3 DEF Numbered
    <3>4. QED
      BY <2>2, <3>2, <3>3, ReaderMoves
  <2>3. QED
    BY <2>1, <2>2
<1>8. QED
  BY <1>4, <1>5, <1>6, <1>7 DEF Numbered

LEMMA AttachedOnceStep ==
    ASSUME TypeOK, Named, Numbered, AttachedOnce, [Next]_vars
    PROVE  AttachedOnce'
<1>1. /\ calls \in [Callers -> CallRecords] /\ made \in Nat
      /\ reader \in [Sessions -> {"none", "start", "greet", "look", "report", "wait", "done"}]
  BY RegistryAssumption DEF TypeOK
<1>2. \A c \in Callers : calls[c].session \in Nat
  <2>1. ASSUME NEW c \in Callers PROVE calls[c].session \in Sessions \cup {NoSession}
    BY <1>1 DEF CallRecords
  <2>2. QED
    BY <2>1, RegistryAssumption DEF Sessions, NoSession
<1>3. ASSUME NEW d \in Callers, calls'[d].at = "attach"
      PROVE  \/ calls[d].at = "attach" /\ calls'[d].session = calls[d].session
             \/ AttemptSucceeds(d) /\ calls'[d].session = made + 1
  <2>1. calls[d] \in CallRecords
    BY <1>1
  <2>2. calls'[d] = [calls[d] EXCEPT !.rival = TRUE]
           => calls'[d].at = calls[d].at /\ calls'[d].session = calls[d].session
    BY <2>1 DEF CallRecords
  <2>3. QED
    BY <1>3, <2>2, CallOutcome DEF Elsewhere
<1>4. ASSUME NEW d \in Callers, calls'[d].at = "attach"
      PROVE  reader'[calls'[d].session] = "none"
  <2>1. CASE AttemptSucceeds(d) /\ calls'[d].session = made + 1
    <3>1. made + 1 \in Sessions /\ made + 1 > made
      BY <1>1, <2>1, RegistryAssumption DEF AttemptSucceeds, TypeOK, Sessions
    <3>2. reader' = reader
      BY <2>1 DEF AttemptSucceeds
    <3>3. QED
      BY <2>1, <3>1, <3>2 DEF Numbered
  <2>2. CASE calls[d].at = "attach" /\ calls'[d].session = calls[d].session
    <3>1. reader[calls[d].session] = "none" /\ calls[d].session \in Sessions
      BY <2>2 DEF AttachedOnce, Named
    <3>2. CASE \E t \in Sessions : Reader(t)
      BY <1>1, <2>2, <3>1, <3>2 DEF Reader, ReaderStart, ReaderGreet, ReaderLook,
       ReaderReports, Report, ReaderWake
    <3>3. CASE \E c \in Callers : Attach(c)
      <4>1. PICK c \in Callers : Attach(c)
        BY <3>3
      <4>2. c # d
        <5>1. Attach(d) => calls'[d].at # "attach"
          <6>1. Attach(d) => \/ calls'[d] = Idle
                             \/ calls'[d] = [Idle EXCEPT !.at = "finish", !.kind = calls[d].kind]
            BY <1>1 DEF Attach, Rivalled
          <6>2. /\ Idle.at = "idle"
                /\ [Idle EXCEPT !.at = "finish", !.kind = calls[d].kind].at = "finish"
            BY DEF Idle
          <6>3. QED
            BY <6>1, <6>2
        <5>2. QED
          BY <1>4, <4>1, <5>1
      <4>3. calls[c].at = "attach" /\ calls[c].session # calls[d].session
        BY <2>2, <4>1, <4>2 DEF Attach, AttachedOnce
      <4>4. QED
        BY <1>1, <2>2, <3>1, <4>1, <4>3 DEF Attach
    <3>4. QED
      BY <2>2, <3>1, <3>2, <3>3, ReaderMoves
  <2>3. QED
    BY <1>3, <1>4, <2>1, <2>2
<1>5. ASSUME NEW c \in Callers, NEW d \in Callers, c # d,
             calls'[c].at = "attach", calls'[d].at = "attach"
      PROVE  calls'[c].session # calls'[d].session
  <2>1. ~(AttemptSucceeds(c) /\ AttemptSucceeds(d))
    <3>1. SUFFICES ASSUME AttemptSucceeds(c), AttemptSucceeds(d) PROVE FALSE
      OBVIOUS
    <3>2. calls'[d] = calls[d] /\ calls[d].at = "attempt"
      BY <1>1, <1>5, <3>1 DEF AttemptSucceeds
    <3>3. QED
      BY <1>5, <3>2
  <2>2. \A e \in Callers : calls[e].session # made + 1
    BY <1>1, <1>2 DEF Numbered
  <2>3. QED
    BY <1>3, <1>5, <2>1, <2>2 DEF AttachedOnce
<1>6. QED
  BY <1>4, <1>5 DEF AttachedOnce

LEMMA RoomMadeStep ==
    ASSUME TypeOK, RoomMade, [Next]_vars
    PROVE  RoomMade'
<1>1. SUFFICES ASSUME NEW d \in Callers,
                      calls'[d].at \in {"shut", "attempt", "attach"},
                      calls'[d].kind \in Replaces, ~calls'[d].rival
               PROVE  current' = NoSession
  BY DEF RoomMade
<1>2. calls \in [Callers -> CallRecords] /\ calls[d] \in CallRecords
  BY DEF TypeOK
<1>3. calls'[d] # [calls[d] EXCEPT !.rival = TRUE]
  BY <1>1, <1>2 DEF CallRecords
<1>4. CASE Replace(d)
  BY <1>4 DEF Replace
<1>5. CASE current = NoSession
  <2>1. ASSUME NEW c \in Callers, Attach(c) PROVE FALSE
    <3>1. CASE c = d
      <4>1. \/ calls'[d] = Idle
            \/ calls'[d] = [Idle EXCEPT !.at = "finish", !.kind = calls[d].kind]
        BY <1>2, <2>1, <3>1 DEF Attach, Rivalled
      <4>2. /\ Idle.at = "idle"
            /\ [Idle EXCEPT !.at = "finish", !.kind = calls[d].kind].at = "finish"
        BY DEF Idle
      <4>3. QED
        BY <1>1, <4>1, <4>2
    <3>2. CASE c # d
      <4>1. calls'[d] = Rivalled(c)[d]
        BY <1>2, <2>1, <3>2 DEF Attach, Rivalled
      <4>2. calls'[d] = calls[d]
        BY <1>3, <4>1 DEF Rivalled
      <4>3. calls[d].at \in {"shut", "attempt", "attach"}
        BY <1>1, <4>2
      <4>4. QED
        BY <1>3, <3>2, <4>1, <4>3 DEF Rivalled
    <3>3. QED
      BY <3>1, <3>2
  <2>2. QED
    BY <1>5, <2>1, CurrentMoves DEF Replace, Disconnect, Restart
<1>6. CASE calls[d].at \in {"shut", "attempt", "attach"} /\ calls[d].kind \in Replaces
              /\ ~calls[d].rival
  BY <1>5, <1>6 DEF RoomMade
<1>7. "none" \notin Replaces
  BY DEF Replaces, AllKinds
<1>8. ShutOld(d) => calls[d].at = "shut"
  BY DEF ShutOld
<1>9. AttemptSucceeds(d) => calls[d].at = "attempt"
  BY DEF AttemptSucceeds
<1>10. QED
  BY <1>1, <1>3, <1>4, <1>6, <1>7, <1>8, <1>9, CallOutcome DEF Elsewhere

\* A session that is about to be shut stays so until it is.
LEMMA ToBeShutKept ==
    ASSUME TypeOK, [Next]_vars, NEW s \in Sessions, ToBeShut(s)
    PROVE  \/ ToBeShut(s)' \/ Discard(s)
           \/ \E c \in Callers : ShutOld(c) /\ calls[c].session = s
<1>1. CASE s \in discards
  BY <1>1, DiscardMoves DEF ToBeShut
<1>2. CASE \E c \in Callers : calls[c].at = "shut" /\ calls[c].session = s
  <2>1. PICK c \in Callers : calls[c].at = "shut" /\ calls[c].session = s
    BY <1>2
  <2>2. calls[c] \in CallRecords
    BY DEF TypeOK
  <2>3. Call(c) => ShutOld(c)
    BY <2>1 DEF Call, Announce, Replace, AttemptFails, AttemptSucceeds, Attach, Finish, Answered,
                RequestFails, Reconcile
  <2>4. ~Restart(c) /\ ~Request(c) /\ ~\E k \in Kinds : Connect(c, k)
    <3>1. calls[c] # Idle
      BY <2>1 DEF Idle
    <3>2. QED
      BY <3>1 DEF Restart, Request, Connect
  <2>5. calls'[c] = [calls[c] EXCEPT !.rival = TRUE]
           => calls'[c].at = calls[c].at /\ calls'[c].session = calls[c].session
    BY <2>2 DEF CallRecords
  <2>6. QED
    BY <2>1, <2>3, <2>4, <2>5, Moves DEF ToBeShut
<1>3. QED
  BY <1>1, <1>2 DEF ToBeShut

\* A session that leaves the map is about to be shut, or displaced.
LEMMA LeavesTheMap ==
    ASSUME TypeOK, RoomMade, [Next]_vars, NEW s \in Sessions, s = current, s # current'
    PROVE  ToBeShut(s)' \/ s \in displaced'
<1>1. s # NoSession /\ calls \in [Callers -> CallRecords]
  BY DEF Sessions, NoSession, TypeOK
<1>2. PICK c \in Callers : Replace(c) \/ Attach(c) \/ Disconnect(c) \/ Restart(c)
  BY CurrentMoves
<1>3. CASE Replace(c)
  <2>1. calls'[c] = [calls[c] EXCEPT !.at = "shut", !.session = current]
    BY <1>1, <1>3 DEF Replace
  <2>2. calls'[c].at = "shut" /\ calls'[c].session = s
    BY <1>1, <2>1 DEF CallRecords
  <2>3. QED
    BY <2>2 DEF ToBeShut
<1>4. CASE Attach(c)
  <2>1. calls[c].rival \/ calls[c].kind \notin Replaces
    BY <1>1, <1>4 DEF Attach, RoomMade
  <2>2. QED
    BY <1>1, <1>4, <2>1 DEF Attach
<1>5. CASE Disconnect(c)
  BY <1>1, <1>5 DEF Disconnect, ToBeShut
<1>6. CASE Restart(c)
  <2>1. calls'[c] = [calls[c] EXCEPT !.at = "shut", !.session = current]
    BY <1>1, <1>6 DEF Restart
  <2>2. calls'[c].at = "shut" /\ calls'[c].session = s
    BY <1>1, <2>1 DEF CallRecords
  <2>3. QED
    BY <2>2 DEF ToBeShut
<1>7. QED
  BY <1>2, <1>3, <1>4, <1>5, <1>6

LEMMA OrphansExplainedStep ==
    ASSUME TypeOK, Named, Numbered, RoomMade, OrphansExplained, [Next]_vars
    PROVE  OrphansExplained'
<1>1. SUFFICES ASSUME NEW s \in Sessions, reader'[s] # "none", s # current',
                      link'[s] \in {"up", "retrying"}
               PROVE  ToBeShut(s)' \/ s \in displaced'
  BY DEF OrphansExplained
<1>2. /\ link \in [Sessions -> {"none", "up", "retrying", "straggling", "down"}]
      /\ reader \in [Sessions -> {"none", "start", "greet", "look", "report", "wait", "done"}]
  BY DEF TypeOK
<1>3. SUFFICES ASSUME s # current PROVE ToBeShut(s)' \/ s \in displaced'
  BY <1>1, LeavesTheMap
<1>4. reader[s] # "none"
  <2>1. CASE \E c \in Callers : Attach(c)
    BY <1>1, <1>2, <2>1 DEF Attach
  <2>2. CASE \E t \in Sessions : Reader(t)
    BY <1>1, <1>2, <2>2 DEF Reader, ReaderStart, ReaderGreet, ReaderLook,
       ReaderReports, Report, ReaderWake
  <2>3. QED
    BY <1>1, <2>1, <2>2, ReaderMoves
<1>5. /\ ~Discard(s)
      /\ ~\E c \in Callers : ShutOld(c) /\ calls[c].session = s
  BY <1>1, <1>2 DEF Discard, ShutOld, Shut
<1>8. link[s] \in {"up", "retrying"}
  <2>1. CASE \E t \in Sessions : Drop(t) \/ Recover(t) \/ GiveUp(t)
    BY <1>1, <1>2, <2>1 DEF Drop, Recover, GiveUp
  <2>2. CASE \E t \in Sessions : Discard(t)
    BY <1>1, <1>2, <2>2 DEF Discard, Shut
  <2>3. CASE \E c \in Callers : ShutOld(c)
    BY <1>1, <1>2, <2>3 DEF ShutOld, Shut
  <2>4. CASE \E c \in Callers : AttemptSucceeds(c)
    <3>1. made + 1 \in Sessions => reader[made + 1] = "none"
      BY RegistryAssumption DEF Numbered, TypeOK, Sessions
    <3>2. s # made + 1
      BY <1>4, <3>1
    <3>3. QED
      BY <1>1, <1>2, <2>4, <3>2 DEF AttemptSucceeds
  <2>5. CASE UNCHANGED session
    BY <1>1, <2>5 DEF session
  <2>6. QED
    BY <2>1, <2>2, <2>3, <2>4, <2>5, LinkMoves
<1>6. ToBeShut(s) \/ s \in displaced
  BY <1>3, <1>4, <1>8 DEF OrphansExplained
<1>7. QED
  BY <1>5, <1>6, ToBeShutKept, DisplacedMoves

LEMMA StaleReadersRouseStep ==
    ASSUME TypeOK, RoomMade, StaleReadersRouse, [Next]_vars
    PROVE  StaleReadersRouse'
<1>1. SUFFICES ASSUME NEW s \in Sessions, reader'[s] \in {"report", "wait"}, s # current'
               PROVE  s \in unseen' \/ ToBeShut(s)' \/ s \in displaced'
  BY DEF StaleReadersRouse
<1>2. reader \in [Sessions -> {"none", "start", "greet", "look", "report", "wait", "done"}]
  BY DEF TypeOK
<1>3. SUFFICES ASSUME s # current PROVE s \in unseen' \/ ToBeShut(s)' \/ s \in displaced'
  BY <1>1, LeavesTheMap
<1>4. reader[s] \in {"report", "wait"} /\ ~ReaderWake(s)
  <2>1. CASE \E c \in Callers : Attach(c)
    BY <1>1, <1>2, <2>1 DEF Attach, ReaderWake
  <2>2. CASE \E t \in Sessions : Reader(t)
    BY <1>1, <1>2, <1>3, <2>2
       DEF Reader, ReaderStart, ReaderGreet, ReaderLook, ReaderReports, ReaderWake
  <2>3. CASE reader' = reader
    BY <1>1, <1>2, <2>3 DEF ReaderWake
  <2>4. QED
    BY <2>1, <2>2, <2>3, ReaderMoves
<1>5. CASE s \in unseen
  BY <1>4, <1>5, UnseenMoves
<1>6. CASE ToBeShut(s)
  <2>1. Discard(s) => s \in unseen'
    BY DEF Discard, Shut, Publish
  <2>2. \A c \in Callers : ShutOld(c) /\ calls[c].session = s => s \in unseen'
    BY DEF ShutOld, Shut, Publish
  <2>3. QED
    BY <1>6, <2>1, <2>2, ToBeShutKept
<1>7. CASE s \in displaced
  BY <1>7, DisplacedMoves
<1>8. QED
  BY <1>3, <1>4, <1>5, <1>6, <1>7 DEF StaleReadersRouse

\* Whoever takes a session out of the map notes that its reader has a report to come.
LEMMA OvertakingStep ==
    ASSUME TypeOK, Named, Overtaking, [Next]_vars
    PROVE  Overtaking'
<1>1. SUFFICES ASSUME NEW s \in Sessions, reader'[s] \in {"greet", "report"}, s # current'
               PROVE  s \in overtaken'
  BY DEF Overtaking
<1>2. /\ reader \in [Sessions -> {"none", "start", "greet", "look", "report", "wait", "done"}]
      /\ s # NoSession
  BY DEF TypeOK, Sessions, NoSession
<1>3. \A t \in Sessions : Reader(t) /\ t # s /\ s \in overtaken => s \in overtaken'
  BY DEF Reader, ReaderStart, ReaderGreet, ReaderLook, ReaderReports, Report, ReaderWake, left
<1>4. CASE \E t \in Sessions : Reader(t)
  <2>1. PICK t \in Sessions : Reader(t)
    BY <1>4
  <2>2. current' = current
    BY <2>1 DEF Reader, ReaderStart, ReaderGreet, ReaderLook, ReaderReports, ReaderWake
  <2>3. t # s
    BY <1>1, <1>2, <2>1, <2>2
       DEF Reader, ReaderStart, ReaderGreet, ReaderLook, ReaderReports, ReaderWake
  <2>4. reader'[s] = reader[s]
    BY <1>2, <2>1, <2>3
       DEF Reader, ReaderStart, ReaderGreet, ReaderLook, ReaderReports, ReaderWake
  <2>5. s \in overtaken
    BY <1>1, <2>2, <2>4 DEF Overtaking
  <2>6. QED
    BY <1>3, <2>1, <2>3, <2>4, <2>5
<1>5. CASE \E c \in Callers : Replace(c) \/ Attach(c) \/ Disconnect(c) \/ Restart(c)
  <2>1. PICK c \in Callers : Replace(c) \/ Attach(c) \/ Disconnect(c) \/ Restart(c)
    BY <1>5
  <2>2. Leaves
    BY <2>1 DEF Replace, Attach, Disconnect, Restart
  <2>3. reader'[s] = reader[s]
    <3>1. CASE Attach(c)
      <4>1. calls[c].session \in Sessions
        BY <3>1 DEF Attach, Named
      <4>2. QED
        BY <1>1, <1>2, <3>1, <4>1 DEF Attach
    <3>2. CASE ~Attach(c)
      BY <2>1, <3>2 DEF Replace, Disconnect, Restart
    <3>3. QED
      BY <3>1, <3>2
  <2>4. QED
    BY <1>1, <1>2, <2>2, <2>3 DEF Leaves, Overtaking
<1>6. CASE current' = current /\ reader' = reader /\ overtaken' = overtaken
  BY <1>1, <1>6 DEF Overtaking
<1>7. QED
  BY <1>4, <1>5, <1>6, OvertakenMoves

\* A session is settled only by its reader looking once more.
LEMMA SettledKept ==
    ASSUME TypeOK, Named, [Next]_vars, Settled'
    PROVE  /\ current' = current
           /\ \/ Settled
              \/ /\ health'[current] = "connected"
                 /\ \E b : events' = Append(events, [health |-> "connected", late |-> b])
<1>1. /\ reader \in [Sessions -> {"none", "start", "greet", "look", "report", "wait", "done"}]
      /\ health \in [Sessions -> Healths] /\ current \in Sessions \cup {NoSession}
  BY DEF TypeOK
<1>2. ~\E c \in Callers : Attach(c)
  <2>1. SUFFICES ASSUME NEW c \in Callers, Attach(c) PROVE FALSE
    OBVIOUS
  <2>2. current' \in Sessions /\ reader'[current'] = "start"
    BY <1>1, <2>1 DEF Attach, Named
  <2>3. QED
    BY <2>2 DEF Settled
<1>3. current' = current /\ current \in Sessions
  BY <1>1, <1>2, CurrentMoves DEF Replace, Disconnect, Restart, Settled
<1>4. CASE ReaderReports(current)
  <2>1. health' = health /\ Report(current, health[current])
    BY <1>4 DEF ReaderReports, session
  <2>2. health[current] = "connected"
    BY <1>3, <2>1 DEF Settled
  <2>3. QED
    BY <1>3, <2>1, <2>2 DEF Report
<1>5. CASE ~ReaderReports(current)
  <2>1. reader[current] = "wait" /\ ~ReaderWake(current)
    <3>1. CASE \E t \in Sessions : Reader(t)
      BY <1>1, <1>3, <1>5, <3>1 
         DEF Reader, ReaderStart, ReaderGreet, ReaderLook, ReaderReports, ReaderWake, Settled
    <3>2. CASE reader' = reader
      BY <1>1, <1>3, <3>2 DEF ReaderWake, Settled
    <3>3. QED
      BY <1>2, <3>1, <3>2, ReaderMoves
  <2>2. current \notin unseen
    BY <1>3, <2>1, UnseenMoves DEF Settled
  <2>3. health'[current] = health[current]
    <3>1. CASE \E t \in Sessions : Drop(t) \/ Recover(t) \/ GiveUp(t) \/ Discard(t)
      BY <1>1, <1>3, <3>1 DEF Drop, Recover, GiveUp, Discard, Shut, Publish, Settled
    <3>2. CASE \E c \in Callers : ShutOld(c) \/ AttemptSucceeds(c)
      BY <1>1, <1>3, <3>2 DEF ShutOld, AttemptSucceeds, Shut, Publish, Settled
    <3>3. CASE UNCHANGED session
      BY <3>3 DEF session
    <3>4. QED
      BY <3>1, <3>2, <3>3, LinkMoves
  <2>4. QED
    BY <1>3, <2>1, <2>2, <2>3 DEF Settled
<1>6. QED
  BY <1>4, <1>5

LEMMA LastReportedStep ==
    ASSUME TypeOK, Named, Overtaking, LastReported, [Next]_vars
    PROVE  LastReported'
<1> DEFINE Good(e) == e.health = "connected" \/ e.late
<1>1. SUFFICES ASSUME Settled', events' # <<>>
               PROVE  Good(events'[Len(events')])
  BY DEF LastReported
<1>2. events \in Seq(Events) /\ health \in [Sessions -> Healths]
  BY DEF TypeOK
<1>3. ASSUME NEW e, events' = Append(events, e)
      PROVE  events'[Len(events')] = e
  <2>1. Len(events') = Len(events) + 1
    BY <1>2, <1>3
  <2>2. events'[Len(events) + 1] = e
    BY <1>2, <1>3
  <2>3. QED
    BY <2>1, <2>2
<1>4. CASE Settled /\ current' = current
  <2>1. CASE events' = events
    BY <1>1, <1>4, <2>1 DEF LastReported
  <2>2. CASE Listen
    <3>1. events # <<>> /\ events' = Tail(events)
      BY <2>2 DEF Listen
    <3>2. Len(events) \in Nat /\ Len(events) # 0 /\ Len(events') = Len(events) - 1
      BY <1>2, <3>1
    <3>3. Len(events') # 0 /\ Len(events') \in Nat
      BY <1>1, <1>2, <3>1
    <3>4. events'[Len(events')] = events[Len(events') + 1]
      BY <1>2, <3>1, <3>2, <3>3
    <3>5. events'[Len(events')] = events[Len(events)]
      BY <3>2, <3>4
    <3>6. QED
      BY <1>4, <3>1, <3>5 DEF LastReported
  <2>3. CASE \E t \in Sessions : ReaderGreet(t) \/ ReaderReports(t)
    <3>1. PICK t \in Sessions : ReaderGreet(t) \/ ReaderReports(t)
      BY <2>3
    <3>2. t # current
      BY <1>4, <3>1 DEF Settled, ReaderGreet, ReaderReports
    <3>3. t \in overtaken
      BY <3>1, <3>2 DEF Overtaking, ReaderGreet, ReaderReports
    <3>4. PICK h : Report(t, h)
      BY <3>1 DEF ReaderGreet, ReaderReports
    <3>5. events' = Append(events, [health |-> h, late |-> t \in overtaken])
      BY <3>4 DEF Report
    <3>6. events'[Len(events')] = [health |-> h, late |-> t \in overtaken]
      BY <1>3, <3>5
    <3>7. [health |-> h, late |-> t \in overtaken].late
      BY <3>3
    <3>8. Good([health |-> h, late |-> t \in overtaken])
      BY <3>7
    <3>9. QED
      BY <3>6, <3>8, Zenon
  <2>4. QED
    BY <2>1, <2>2, <2>3, EventMoves
<1>5. CASE \E b : events' = Append(events, [health |-> "connected", late |-> b])
  BY <1>3, <1>5
<1>6. QED
  BY <1>1, <1>4, <1>5, SettledKept

LEMMA AnnouncedKept ==
    ASSUME TypeOK, [Next]_vars, NEW d \in Callers, Announced(d)
    PROVE  Announced(d)' \/ Replace(d) \/ AttemptFails(d) \/ AttemptSucceeds(d)
<1>1. calls[d] \in CallRecords
  BY DEF TypeOK
<1>2. Call(d) => Replace(d) \/ AttemptFails(d) \/ AttemptSucceeds(d)
  BY DEF Announced, Call, Announce, ShutOld, Attach, Finish, Answered, RequestFails, Reconcile
<1>3. calls[d] # Idle
  BY DEF Announced, Idle
<1>4. ~Restart(d) /\ ~Request(d) /\ ~\E k \in Kinds : Connect(d, k)
  BY <1>3 DEF Restart, Request, Connect
<1>5. calls'[d] = [calls[d] EXCEPT !.rival = TRUE]
         => calls'[d].at = calls[d].at /\ calls'[d].kind = calls[d].kind
  BY <1>1 DEF CallRecords
<1>6. QED
  BY <1>2, <1>4, <1>5, Moves DEF Announced

LEMMA StoreFollowsStep ==
    ASSUME TypeOK, Named, LastReported, StoreFollows, [Next]_vars
    PROVE  StoreFollows'
<1>1. SUFFICES ASSUME Settled', events' = <<>>, store'.known
               PROVE  \/ store'.health = "connected" \/ astray'
                      \/ \E c \in Callers : Announced(c)'
  BY DEF StoreFollows
<1>2. events \in Seq(Events) /\ store \in StoreRecords /\ calls \in [Callers -> CallRecords]
  BY DEF TypeOK
<1>3. Settled /\ current' = current
  <2>1. \A x : events' # Append(events, x)
    BY <1>1, <1>2
  <2>2. QED
    BY <1>1, <2>1, SettledKept
<1>4. CASE Listen
  <2>1. events # <<>> /\ Tail(events) = <<>>
    BY <1>1, <1>4 DEF Listen
  <2>2. Len(events) = 1 /\ Head(events) = events[1]
    <3>1. Len(Tail(events)) = Len(events) - 1 /\ Len(events) \in Nat
      BY <1>2, <2>1
    <3>2. Len(Tail(events)) = Len(<<>>)
      BY <2>1, Zenon
    <3>3. Len(events) = 1
      <4>1. Len(<<>>) = 0
        OBVIOUS
      <4>2. QED
        BY <3>1, <3>2, <4>1
    <3>4. QED
      BY <1>2, <3>3
  <2>3. CASE Head(events).late
    BY <1>4, <2>3 DEF Listen
  <2>4. CASE Head(events).health = "connected"
    <3>1. store' = Shown("connected")
      BY <1>4, <2>4 DEF Listen
    <3>2. QED
      BY <1>1, <1>2, <3>1 DEF Shown, StoreRecords
  <2>5. QED
    BY <1>3, <2>1, <2>2, <2>3, <2>4 DEF LastReported
<1>5. CASE \E c \in Callers : Announce(c)
  <2>1. PICK c \in Callers : Announce(c)
    BY <1>5
  <2>2. calls[c].kind \in Replaces => calls'[c].at = "replace"
    BY <1>2, <2>1 DEF Announce, Goes, CallRecords
  <2>3. calls[c].kind \notin Replaces
           => calls'[c].at = "attempt" /\ calls'[c].kind \notin Replaces
    BY <1>2, <2>1 DEF Announce, Goes, CallRecords
  <2>4. QED
    BY <2>2, <2>3 DEF Announced
<1>6. CASE \E c \in Callers : AttemptSucceeds(c)
  BY <1>2, <1>6 DEF AttemptSucceeds, Upserted, StoreRecords
<1>7. CASE \E c \in Callers : NoRuntime(c) \/ Reconcile(c)
  BY <1>7 DEF NoRuntime, Reconcile
<1>8. CASE \E c \in Callers : Replace(c) \/ Disconnect(c) \/ Restart(c)
  BY <1>1, <1>8 DEF Replace, Disconnect, Restart, Settled
<1>10. CASE \E c \in Callers : AttemptFails(c)
  <2>1. PICK c \in Callers : AttemptFails(c)
    BY <1>10
  <2>2. CASE astray'
    BY <2>2
  <2>3. CASE calls[c].kind \in FailsQuietly /\ UNCHANGED <<store, astray>>
    <3>1. ~Announced(c)
      BY <2>1, <2>3 DEF Announced, AttemptFails, FailsQuietly, Replaces, AllKinds
    <3>2. calls' = [calls EXCEPT ![c] = Idle]
      BY <2>1 DEF AttemptFails, Returns
    <3>3. \A d \in Callers : Announced(d) => Announced(d)'
      BY <1>2, <3>1, <3>2 DEF Announced
    <3>4. events' = events
      BY <2>1 DEF AttemptFails
    <3>5. QED
      BY <1>1, <1>3, <2>3, <3>3, <3>4 DEF StoreFollows
  <2>4. QED
    BY <2>1, <2>2, <2>3 DEF AttemptFails
<1>11. CASE \E c \in Callers : Finish(c)
  <2>1. PICK c \in Callers : Finish(c)
    BY <1>11
  <2>2. store'.health = store.health /\ store'.known = store.known
    BY <1>2, <2>1 DEF Finish, Progress, StoreRecords
  <2>3. calls' = [calls EXCEPT ![c] = Idle] /\ calls[c].at = "finish"
    BY <2>1 DEF Finish, Returns
  <2>4. \A d \in Callers : Announced(d) => Announced(d)'
    BY <1>2, <2>3 DEF Announced
  <2>5. QED
    BY <1>1, <1>3, <2>1, <2>2, <2>4 DEF StoreFollows, Finish
<1>12. CASE UNCHANGED <<store, astray>>
  <2>1. CASE \E t \in Sessions : ReaderGreet(t) \/ ReaderReports(t)
    <3>1. \A x : events' # Append(events, x)
      BY <1>1, <1>2
    <3>2. QED
      BY <2>1, <3>1 DEF ReaderGreet, ReaderReports, Report
  <2>2. CASE events' = events
    BY <1>1, <1>3, <1>6, <1>8, <1>10, <1>12, <2>2, AnnouncedKept DEF StoreFollows
  <2>3. QED
    BY <1>4, <2>1, <2>2, EventMoves
<1>13. QED
  BY <1>4, <1>5, <1>6, <1>7, <1>8, <1>10, <1>11, <1>12, StoreMoves

-----------------------------------------------------------------------------
(* The theorems.                                                            *)

LEMMA IInvInit == Init => IInv
<1> USE RegistryAssumption DEF Init, Sessions, NoSession
<1>1. ASSUME Init PROVE \A c \in Callers : calls[c].at = "idle" /\ calls[c].session = 0
  BY <1>1 DEF Idle
<1>2. ASSUME Init PROVE Named /\ AttachedOnce /\ RoomMade
  BY <1>1, <1>2 DEF Named, AttachedOnce, RoomMade
<1>3. ASSUME Init PROVE Numbered
  <2>1. current = 0 /\ made = 0 /\ \A s \in Sessions : reader[s] = "none"
    BY <1>3
  <2>2. current <= made
    BY <2>1
  <2>3. \A c \in Callers : calls[c].session <= made
    <3>1. SUFFICES ASSUME NEW c \in Callers PROVE calls[c].session <= made
      OBVIOUS
    <3>2. calls[c].session = 0
      BY <1>1, <1>3
    <3>3. QED
      BY <2>1, <3>2
  <2>4. QED
    BY <2>1, <2>2, <2>3 DEF Numbered
<1>4. ASSUME Init PROVE Overtaking /\ LastReported /\ StoreFollows /\ OrphansExplained
                        /\ StaleReadersRouse
  BY <1>4 DEF Overtaking, LastReported, StoreFollows, Settled, OrphansExplained, StaleReadersRouse
<1>5. QED
  BY <1>2, <1>3, <1>4, TypesInit DEF IInv

LEMMA IInvStep == IInv /\ [Next]_vars => IInv'
<1>1. SUFFICES ASSUME IInv, [Next]_vars PROVE IInv'
  OBVIOUS
<1>2. TypeOK /\ Named /\ Numbered /\ AttachedOnce /\ RoomMade /\ Overtaking /\ LastReported
      /\ StoreFollows /\ OrphansExplained /\ StaleReadersRouse
  BY <1>1 DEF IInv
<1>3. TypeOK' /\ Named'
  BY <1>1, <1>2, TypesStep, NamedStep
<1>4. Numbered' /\ AttachedOnce' /\ RoomMade'
  BY <1>1, <1>2, NumberedStep, AttachedOnceStep, RoomMadeStep
<1>5. Overtaking' /\ LastReported' /\ StoreFollows'
  BY <1>1, <1>2, OvertakingStep, LastReportedStep, StoreFollowsStep
<1>6. OrphansExplained' /\ StaleReadersRouse'
  BY <1>1, <1>2, OrphansExplainedStep, StaleReadersRouseStep
<1>7. QED
  BY <1>3, <1>4, <1>5, <1>6 DEF IInv

LEMMA Invariance == Spec => []IInv
BY IInvInit, IInvStep, PTL DEF Spec

\* Every reachable state of the registry is well typed.
THEOREM TypeCorrect == Spec => []TypeOK
<1>1. IInv => TypeOK
  BY DEF IInv
<1>2. QED
  BY <1>1, Invariance, PTL

\* When all that was reported has been shown, the server of a connected session is
\* shown as connected, unless the last to write was a failed call, or a reader that lost
\* its session between its check and its report.
THEOREM StoreIsRight == Spec => []StoreAgrees
<1>1. IInv => StoreAgrees
  <2>1. SUFFICES ASSUME IInv, Quiet, current # NoSession, store.known,
                        health[current] = "connected"
                 PROVE  store.health = "connected" \/ astray
    BY DEF StoreAgrees
  <2>2. current \in Sessions /\ reader[current] \in {"start", "greet", "look", "report", "wait"}
    BY <2>1 DEF IInv, TypeOK, Numbered
  <2>3. Settled /\ events = <<>>
    BY <2>1, <2>2 DEF Quiet, Settled
  <2>4. ~\E c \in Callers : Announced(c)
    BY <2>1 DEF Quiet, Announced, Idle
  <2>5. QED
    BY <2>1, <2>3, <2>4 DEF IInv, StoreFollows
<1>2. QED
  BY <1>1, Invariance, PTL

\* Replacing, disconnecting and restarting leave no session running outside the map.
THEOREM NoOrphans == Spec => []OrphansExplained
<1>1. IInv => OrphansExplained
  BY DEF IInv
<1>2. QED
  BY <1>1, Invariance, PTL

\* The reader of a session that left the map has reason to wake, unless another connect
\* displaced the session: that one may sleep for ever.
THEOREM ReadersEnd == Spec => []StaleReadersWake
<1>1. IInv => StaleReadersWake
  BY DEF IInv, StaleReadersRouse, StaleReadersWake
<1>2. QED
  BY <1>1, Invariance, PTL

-----------------------------------------------------------------------------
(* Which of the connects it is for a saved server, for any ports.  The ports *)
(* a record offers are the result of a recursive function, looked into at    *)
(* the least prefix of the record's lists for which it would be wrong.       *)

Less == {p \in Nat \X Nat : p[1] < p[2]}

LEMMA LeastNumber ==
    ASSUME NEW T \in SUBSET Nat, T # {}
    PROVE  \E m \in T : \A k \in T : m <= k
<1>1. IsWellFoundedOn(Less, Nat)
  BY NatLessThanWellFounded DEF OpToRel, Less
<1>2. \E x \in T : \A y \in T : ~ (<<y, x>> \in Less)
  BY <1>1, WFMin, Zenon
<1>3. \A x, y \in Nat : <<y, x>> \in Less <=> y < x
  BY DEF Less
<1>4. PICK x \in T : \A y \in T : ~ (<<y, x>> \in Less)
  BY <1>2
<1>5. x \in Nat
  OBVIOUS
<1>6. \A y \in T : x <= y
  <2>1. TAKE y \in T
  <2>2. y \in Nat
    OBVIOUS
  <2>3. ~ (y < x)
    BY <1>3, <1>4, <1>5, <2>2
  <2>4. QED
    BY <1>5, <2>2, <2>3
<1>7. QED
  BY <1>6

OnceTo(f, q, n) ==
    f = [i \in 0..n |-> IF i = 0 THEN <<>>
                        ELSE IF q[i] = 0 \/ Contains(f[i - 1], q[i]) THEN f[i - 1]
                        ELSE Append(f[i - 1], q[i])]

LEMMA OnceExists ==
    ASSUME NEW q, Len(q) \in Nat
    PROVE  \E f : OnceTo(f, q, Len(q))
<1> DEFINE Bad == {n \in Nat : ~ \E f : OnceTo(f, q, n)}
           Step(g, i) == IF i = 0 THEN <<>>
                         ELSE IF q[i] = 0 \/ Contains(g[i - 1], q[i]) THEN g[i - 1]
                         ELSE Append(g[i - 1], q[i])
<1>1. SUFFICES ASSUME Bad # {} PROVE FALSE
  OBVIOUS
<1>2. PICK m \in Bad : \A k \in Bad : m <= k
  <2>1. Bad \in SUBSET Nat
    OBVIOUS
  <2>2. QED
    BY <1>1, <2>1, LeastNumber
<1>3. CASE m = 0
  <2>1. OnceTo([i \in 0..0 |-> <<>>], q, 0)
    BY DEF OnceTo
  <2>2. QED
    BY <1>2, <1>3, <2>1
<1>4. CASE m # 0
  <2>1. PICK g : OnceTo(g, q, m - 1)
    BY <1>2, <1>4
  <2> DEFINE f == [i \in 0..m |-> IF i < m THEN g[i] ELSE Step(g, i)]
  <2>2. \A i \in 0..m : f[i] = Step(f, i)
    <3>1. \A i \in 0..(m - 1) : g[i] = Step(g, i)
      BY <1>2, <1>4, <2>1 DEF OnceTo
    <3>2. QED
      BY <1>2, <1>4, <3>1
  <2>3. OnceTo(f, q, m)
    BY <2>2 DEF OnceTo
  <2>4. QED
    BY <1>2, <2>3
<1>5. QED
  BY <1>3, <1>4

\* The ports of the result are the ports of q.
LEMMA OncePorts ==
    ASSUME NEW q \in Seq(Nat)
    PROVE  /\ OnceEach(q) \in Seq(Nat)
           /\ \A p \in Nat : Contains(OnceEach(q), p) <=> p # 0 /\ \E i \in DOMAIN q : q[i] = p
<1> DEFINE N == Len(q)
           Good(r, n) ==
              /\ r \in Seq(Nat)
              /\ \A p \in Nat : Contains(r, p) <=> p # 0 /\ \E i \in 1..n : q[i] = p
<1>1. N \in Nat /\ DOMAIN q = 1..N /\ \A i \in 1..N : q[i] \in Nat
  OBVIOUS
<1> DEFINE k == CHOOSE f : OnceTo(f, q, N)
<1>2. OnceTo(k, q, N) /\ OnceEach(q) = k[N]
  <2>1. OnceTo(k, q, N)
    BY <1>1, OnceExists
  <2>2. OnceEach(q) = k[N]
    BY DEF OnceEach, OnceTo
  <2>3. QED
    BY <2>1, <2>2
<1>3. \A i \in 0..N : k[i] = IF i = 0 THEN <<>>
                             ELSE IF q[i] = 0 \/ Contains(k[i - 1], q[i]) THEN k[i - 1]
                             ELSE Append(k[i - 1], q[i])
  BY <1>2 DEF OnceTo
<1> HIDE DEF N, k
<1>4. ASSUME NEW n \in 1..N, NEW r, Good(r, n - 1)
      PROVE  IF q[n] = 0 \/ Contains(r, q[n]) THEN Good(r, n) ELSE Good(Append(r, q[n]), n)
  <2>1. r \in Seq(Nat) /\ Len(r) \in Nat /\ q[n] \in Nat
    BY <1>1, <1>4
  <2>2. \A i : i \in 1..n <=> i \in 1..(n - 1) \/ i = n
    BY <1>1
  <2>3. CASE q[n] = 0 \/ Contains(r, q[n])
    BY <1>4, <2>1, <2>2, <2>3
  <2>4. CASE ~(q[n] = 0 \/ Contains(r, q[n]))
    <3> DEFINE s == Append(r, q[n])
    <3>1. /\ s \in Seq(Nat) /\ Len(s) = Len(r) + 1
          /\ s[Len(r) + 1] = q[n] /\ \A j \in 1..Len(r) : s[j] = r[j]
      BY <2>1
    <3> HIDE DEF s
    <3>2. \A p \in Nat : Contains(s, p) <=> Contains(r, p) \/ p = q[n]
      <4>1. \A i : i \in 1..Len(s) <=> i \in 1..Len(r) \/ i = Len(r) + 1
        BY <2>1, <3>1
      <4>2. QED
        BY <3>1, <4>1 DEF Contains
    <3>3. Good(s, n)
      BY <1>4, <2>1, <2>2, <2>4, <3>1, <3>2
    <3>4. QED
      BY <2>4, <3>3 DEF s
  <2>5. QED
    BY <2>3, <2>4
<1>5. Good(<<>>, 0)
  <2>1. \A p : ~Contains(<<>>, p)
    BY DEF Contains
  <2>2. QED
    BY <2>1
<1> HIDE DEF Good
<1> DEFINE Bad == {n \in 0..N : ~ Good(k[n], n)}
<1>6. ASSUME Bad # {} PROVE FALSE
  <2>1. PICK m \in Bad : \A n \in Bad : m <= n
    <3>1. Bad \in SUBSET Nat
      BY <1>1
    <3>2. QED
      BY <1>6, <3>1, LeastNumber
  <2>2. m # 0
    BY <1>1, <1>3, <1>5, <2>1
  <2>3. m \in 1..N /\ m - 1 \in 0..N /\ m - 1 \notin Bad
    BY <1>1, <2>1, <2>2
  <2>4. Good(k[m - 1], m - 1)
    BY <2>3
  <2>5. IF q[m] = 0 \/ Contains(k[m - 1], q[m]) THEN Good(k[m - 1], m)
        ELSE Good(Append(k[m - 1], q[m]), m)
    BY <1>4, <2>3, <2>4
  <2>6. QED
    BY <1>3, <2>1, <2>2, <2>3, <2>5
<1>7. Good(k[N], N)
  BY <1>1, <1>6
<1>8. QED
  BY <1>1, <1>2, <1>7 DEF Good

LEMMA RecordPorts ==
    ASSUME NEW s \in Records
    PROVE  /\ DirectPorts(s) \in Seq(Nat)
           /\ \A p \in Nat : Contains(DirectPorts(s), p) <=>
                p # 0 /\ ((s.hasCodex /\ p = s.port) \/ Contains(s.codexPorts, p))
<1> DEFINE own == IF s.hasCodex THEN <<s.port>> ELSE <<>>
           q == own \o s.codexPorts
<1>1. s.port \in Nat /\ s.codexPorts \in Seq(Nat)
  <2>1. s.port \in Ports \cup {0}
        /\ s.codexPorts \in UNION {[1..n -> Ports \cup {0}] : n \in 0..MaxPorts}
    BY DEF Records
  <2>2. PICK n \in 0..MaxPorts : s.codexPorts \in [1..n -> Ports \cup {0}]
    BY <2>1
  <2>3. Ports \cup {0} \subseteq Nat /\ n \in Nat
    BY PortsAssumption
  <2>4. s.codexPorts \in [1..n -> Nat]
    BY <2>2, <2>3
  <2>5. s.codexPorts \in Seq(Nat)
    BY <2>3, <2>4, SeqDef
  <2>6. QED
    BY <2>1, <2>3, <2>5
<1>2. q \in Seq(Nat) /\ OnceEach(q) = DirectPorts(s)
  BY <1>1 DEF DirectPorts
<1>3. \A p : (\E i \in DOMAIN q : q[i] = p) <=>
                (s.hasCodex /\ p = s.port) \/ Contains(s.codexPorts, p)
  <2>1. CASE s.hasCodex
    <3>1. q = <<s.port>> \o s.codexPorts
      BY <2>1
    <3>2. /\ DOMAIN q = 1..(1 + Len(s.codexPorts)) /\ q[1] = s.port
          /\ \A i \in 1..Len(s.codexPorts) : q[i + 1] = s.codexPorts[i]
      <4> DEFINE c == s.codexPorts
                 x == s.port
      <4>1. <<x>> \in Seq(Nat) /\ c \in Seq(Nat)
        BY <1>1
      <4>2. q = <<x>> \o c
        BY <3>1
      <4> HIDE DEF q, c, x
      <4>3. QED
        BY <4>1, <4>2, ConcatProperties DEF c, x
    <3> HIDE DEF q
    <3>3. ASSUME NEW p, Contains(s.codexPorts, p) PROVE \E i \in DOMAIN q : q[i] = p
      <4>1. PICK i \in 1..Len(s.codexPorts) : s.codexPorts[i] = p
        BY <3>3 DEF Contains
      <4>2. i + 1 \in DOMAIN q /\ q[i + 1] = p
        BY <1>1, <3>2, <4>1
      <4>3. QED
        BY <4>2
    <3>4. ASSUME NEW i \in DOMAIN q, i # 1 PROVE Contains(s.codexPorts, q[i])
      <4>1. i - 1 \in 1..Len(s.codexPorts) /\ (i - 1) + 1 = i
        BY <1>1, <3>2, <3>4
      <4>2. QED
        BY <3>2, <4>1 DEF Contains
    <3>5. 1 \in DOMAIN q
      BY <1>1, <3>2
    <3>6. QED
      BY <2>1, <3>2, <3>3, <3>4, <3>5
  <2>2. CASE ~s.hasCodex
    <3>1. q = s.codexPorts
      BY <1>1, <2>2
    <3>2. DOMAIN s.codexPorts = 1..Len(s.codexPorts)
      BY <1>1
    <3>3. QED
      BY <2>2, <3>1, <3>2 DEF Contains
  <2>3. QED
    BY <2>1, <2>2
<1> HIDE DEF q
<1>4. QED
  BY <1>2, <1>3, OncePorts

LEMMA FirstThatHolds ==
    ASSUME NEW b, NEW n \in Nat, DOMAIN b = 1..n, NEW k \in 1..n, b[k].holds,
           \A j \in 1..n : j < k => ~b[j].holds
    PROVE  /\ {i \in DOMAIN b : b[i].holds} # {}
           /\ Min({i \in DOMAIN b : b[i].holds}) = k
<1> DEFINE held == {i \in DOMAIN b : b[i].holds}
<1>1. k \in held /\ \A j \in held : k <= j
  OBVIOUS
<1>2. \A j \in held : (\A i \in held : j <= i) => j = k
  BY <1>1
<1> HIDE DEF held
<1>3. Min(held) = k
  BY <1>1, <1>2 DEF Min
<1>4. QED
  BY <1>1, <1>3 DEF held

\* The plan, as the code reads.
Ladder(s, ssh, slingshot, connected, multi) ==
    IF connected THEN NoPlan
    ELSE IF multi /\ s.paired THEN Plan("alleycat", 0)
    ELSE IF multi /\ IsBridge(s) THEN IF ssh THEN Plan("ssh-bridge", SshPort(s)) ELSE NoPlan
    ELSE IF s.url = "slingshot" THEN IF slingshot THEN Plan("slingshot", 0) ELSE NoPlan
    ELSE IF s.url = "slingshot malformed" THEN NoPlan
    ELSE IF s.url # "none" THEN Plan("url", 0)
    ELSE IF Mode(s) = "ssh" THEN IF ssh THEN Plan("ssh", SshPort(s)) ELSE NoPlan
    ELSE IF DirectPort(s) # 0 THEN Plan("direct", DirectPort(s))
    ELSE IF Mode(s) = "none" /\ ssh THEN Plan("ssh", SshPort(s))
    ELSE IF s.source = "local" THEN Plan("local", 0)
    ELSE NoPlan

LEMMA LadderIsPlan ==
    ASSUME NEW s, NEW ssh \in BOOLEAN, NEW slingshot \in BOOLEAN, NEW connected \in BOOLEAN,
           NEW multi \in BOOLEAN
    PROVE  PlanFor(s, ssh, slingshot, connected, multi) = Ladder(s, ssh, slingshot, connected, multi)
<1> DEFINE b == Branches(s, ssh, slingshot, connected, multi)
           held == {i \in DOMAIN b : b[i].holds}
           chosen == IF held = {} THEN NoPlan ELSE b[Min(held)].plan
<1>1. PlanFor(s, ssh, slingshot, connected, multi) = chosen
  BY DEF PlanFor
<1>2. DOMAIN b = 1..10
  BY DEF Branches
<1>3. /\ (b[1].holds <=> connected)
      /\ b[1].plan = NoPlan
      /\ (b[2].holds <=> multi /\ s.paired)
      /\ b[2].plan = Plan("alleycat", 0)
      /\ (b[3].holds <=> multi /\ IsBridge(s))
      /\ b[3].plan = IF ssh THEN Plan("ssh-bridge", SshPort(s)) ELSE NoPlan
      /\ (b[4].holds <=> s.url = "slingshot")
      /\ b[4].plan = IF slingshot THEN Plan("slingshot", 0) ELSE NoPlan
      /\ (b[5].holds <=> s.url = "slingshot malformed")
      /\ b[5].plan = NoPlan
      /\ (b[6].holds <=> s.url # "none")
      /\ b[6].plan = Plan("url", 0)
      /\ (b[7].holds <=> Mode(s) = "ssh")
      /\ b[7].plan = IF ssh THEN Plan("ssh", SshPort(s)) ELSE NoPlan
      /\ (b[8].holds <=> DirectPort(s) # 0)
      /\ b[8].plan = Plan("direct", DirectPort(s))
      /\ (b[9].holds <=> Mode(s) = "none" /\ ssh)
      /\ b[9].plan = Plan("ssh", SshPort(s))
      /\ (b[10].holds <=> s.source = "local")
      /\ b[10].plan = Plan("local", 0)
  <2>1. b[1].holds <=> connected
    BY DEF Branches
  <2>2. b[1].plan = NoPlan
    BY DEF Branches
  <2>3. b[2].holds <=> multi /\ s.paired
    BY DEF Branches
  <2>4. b[2].plan = Plan("alleycat", 0)
    BY DEF Branches
  <2>5. b[3].holds <=> multi /\ IsBridge(s)
    BY DEF Branches
  <2>6. b[3].plan = IF ssh THEN Plan("ssh-bridge", SshPort(s)) ELSE NoPlan
    BY DEF Branches
  <2>7. b[4].holds <=> s.url = "slingshot"
    BY DEF Branches
  <2>8. b[4].plan = IF slingshot THEN Plan("slingshot", 0) ELSE NoPlan
    BY DEF Branches
  <2>9. b[5].holds <=> s.url = "slingshot malformed"
    BY DEF Branches
  <2>10. b[5].plan = NoPlan
    BY DEF Branches
  <2>11. b[6].holds <=> s.url # "none"
    BY DEF Branches
  <2>12. b[6].plan = Plan("url", 0)
    BY DEF Branches
  <2>13. b[7].holds <=> Mode(s) = "ssh"
    BY DEF Branches
  <2>14. b[7].plan = IF ssh THEN Plan("ssh", SshPort(s)) ELSE NoPlan
    BY DEF Branches
  <2>15. b[8].holds <=> DirectPort(s) # 0
    BY DEF Branches
  <2>16. b[8].plan = Plan("direct", DirectPort(s))
    BY DEF Branches
  <2>17. b[9].holds <=> Mode(s) = "none" /\ ssh
    BY DEF Branches
  <2>18. b[9].plan = Plan("ssh", SshPort(s))
    BY DEF Branches
  <2>19. b[10].holds <=> s.source = "local"
    BY DEF Branches
  <2>20. b[10].plan = Plan("local", 0)
    BY DEF Branches
  <2> HIDE DEF b
  <2>21. QED
    BY <2>1, <2>2, <2>3, <2>4, <2>5, <2>6, <2>7, <2>8, <2>9, <2>10, <2>11, <2>12, <2>13, <2>14,
       <2>15, <2>16, <2>17, <2>18, <2>19, <2>20
<1> HIDE DEF b
<1>4. ASSUME NEW k \in 1..10, b[k].holds, \A j \in 1..10 : j < k => ~b[j].holds
      PROVE  chosen = b[k].plan
  BY <1>2, <1>4, FirstThatHolds
<1>5. (\A j \in 1..10 : ~b[j].holds) => chosen = NoPlan
  BY <1>2
<1> HIDE DEF chosen
<1>6. \A j : j \in 1..10 <=> j = 1 \/ j = 2 \/ j = 3 \/ j = 4 \/ j = 5 \/ j = 6 \/ j = 7
                               \/ j = 8 \/ j = 9 \/ j = 10
  OBVIOUS
<1>7. chosen = IF b[1].holds THEN b[1].plan ELSE IF b[2].holds THEN b[2].plan
               ELSE IF b[3].holds THEN b[3].plan ELSE IF b[4].holds THEN b[4].plan
               ELSE IF b[5].holds THEN b[5].plan ELSE IF b[6].holds THEN b[6].plan
               ELSE IF b[7].holds THEN b[7].plan ELSE IF b[8].holds THEN b[8].plan
               ELSE IF b[9].holds THEN b[9].plan ELSE IF b[10].holds THEN b[10].plan
               ELSE NoPlan
  BY <1>4, <1>5, <1>6
<1>8. QED
  BY <1>1, <1>3, <1>7 DEF Ladder

\* The port that is dialled directly is one of the record's; without a wish for
\* direct connections it is the only one, and SSH cannot reach the server.
LEMMA DialledPort ==
    ASSUME NEW s \in Records, s.url = "none", Mode(s) # "ssh", DirectPort(s) # 0
    PROVE  /\ Contains(s.codexPorts, DirectPort(s)) \/ DirectPort(s) = s.port
           /\ s.mode # "ssh"
           /\ s.mode = "none" =>
                /\ ~s.forwarding
                /\ s.hasCodex /\ s.sshPort = 0 /\ s.source # "ssh"
                /\ \A p \in Ports : Contains(s.codexPorts, p) \/ p = s.port => p = DirectPort(s)
<1> DEFINE d == DirectPorts(s)
<1>1. /\ d \in Seq(Nat)
      /\ \A p \in Nat : Contains(d, p) <=>
           p # 0 /\ ((s.hasCodex /\ p = s.port) \/ Contains(s.codexPorts, p))
  BY RecordPorts
<1>2. s.preferredPort \in Nat /\ s.mode \in {"none", "ssh", "directCodex", "other"}
  <2>1. /\ s.preferredPort \in Ports \cup {0}
        /\ s.mode \in {"none", "ssh", "directCodex", "other"}
    BY DEF Records
  <2>2. Ports \cup {0} \subseteq Nat
    BY PortsAssumption
  <2>3. QED
    BY <2>1, <2>2
<1>3. /\ Mode(s) = "directCodex" <=> s.mode = "directCodex"
      /\ s.mode # "ssh" /\ (s.mode = "none" => Mode(s) = "none" /\ ~s.forwarding)
  BY <1>2 DEF Mode
<1>4. CASE Mode(s) = "directCodex" /\ Contains(d, s.preferredPort)
  <2>1. DirectPort(s) = s.preferredPort
    BY <1>4 DEF DirectPort
  <2>2. QED
    BY <1>1, <1>2, <1>3, <1>4, <2>1
<1>5. CASE ~(Mode(s) = "directCodex" /\ Contains(d, s.preferredPort))
  <2>1. ~NeedsChoice(s) /\ d # <<>> /\ DirectPort(s) = Head(d)
    BY <1>5 DEF DirectPort
  <2> HIDE DEF d
  <2>2. Len(d) \in Nat /\ Len(d) # 0 /\ Head(d) = d[1] /\ d[1] \in Nat
    BY <1>1, <2>1
  <2>3. Contains(d, DirectPort(s))
    BY <2>1, <2>2 DEF Contains
  <2>4. Contains(s.codexPorts, DirectPort(s)) \/ DirectPort(s) = s.port
    BY <1>1, <2>1, <2>2, <2>3
  <2>5. ASSUME s.mode = "none"
        PROVE  /\ s.hasCodex /\ s.sshPort = 0 /\ s.source # "ssh"
               /\ Len(d) = 1
    <3>1. ~(Len(d) > 1) /\ ~CanSsh(s)
      BY <1>3, <2>1, <2>5 DEF NeedsChoice, d
    <3>2. Len(d) = 1
      <4> DEFINE n == Len(d)
      <4>1. n \in Nat /\ n # 0 /\ ~(n > 1)
        BY <2>2, <3>1
      <4> HIDE DEF n
      <4>2. n = 1
        BY <4>1
      <4>3. QED
        BY <4>2 DEF n
    <3>3. QED
      BY <3>1, <3>2 DEF CanSsh
  <2>6. ASSUME s.mode = "none", NEW p \in Ports, Contains(s.codexPorts, p) \/ p = s.port
        PROVE  p = DirectPort(s)
    <3>1. Contains(d, p)
      BY <1>1, <2>5, <2>6, PortsAssumption
    <3>2. PICK i \in 1..Len(d) : d[i] = p
      BY <3>1 DEF Contains
    <3>3. i = 1
      <4>1. Len(d) = 1
        BY <2>5, <2>6
      <4>2. i \in 1..1
        BY <3>2, <4>1, Zenon
      <4>3. QED
        BY <4>2
    <3>4. QED
      BY <2>1, <2>2, <3>2, <3>3
  <2>7. QED
    BY <1>3, <2>4, <2>5, <2>6
<1>6. QED
  BY <1>4, <1>5

\* The plan for a saved server keeps to what the user chose, for every record with any
\* ports, every credential and every flag: SSH credentials only add, a port is dialled
\* directly if it was asked for or nothing else is possible, and no marker URL is dialled.
THEOREM ChoiceIsKept ==
    ASSUME server \in Records
    PROVE  PlanKeepsChoice
<1> SUFFICES ASSUME NEW slingshot \in BOOLEAN, NEW connected \in BOOLEAN, NEW multi \in BOOLEAN
      PROVE
        LET bare   == PlanFor(server, FALSE, slingshot, connected, multi)
            stored == PlanFor(server, TRUE, slingshot, connected, multi)
            known(p) == Contains(server.codexPorts, p) \/ p = server.port
        IN /\ bare = stored \/ (/\ bare.kind \in {"none", "local"}
                                /\ stored.kind \in {"ssh", "ssh-bridge"})
           /\ bare.kind = "direct" =>
                server.url = "none" /\ server.mode # "ssh" /\ known(bare.port)
           /\ bare.kind = "direct" /\ server.mode = "none" =>
                /\ ~server.forwarding
                /\ server.hasCodex /\ server.sshPort = 0 /\ server.source # "ssh"
                /\ \A p \in Ports : known(p) => p = bare.port
           /\ bare.kind = "url" =>
                server.url = "websocket" \/ (server.url = "ssh-bridge" /\ ~multi)
  BY DEF PlanKeepsChoice
<1> DEFINE s == server
           bare == PlanFor(s, FALSE, slingshot, connected, multi)
           stored == PlanFor(s, TRUE, slingshot, connected, multi)
<1>1. /\ \A k, p : Plan(k, p).kind = k /\ Plan(k, p).port = p
      /\ NoPlan.kind = "none"
  BY DEF Plan, NoPlan
<1>2. /\ FALSE \in BOOLEAN /\ TRUE \in BOOLEAN
      /\ s.url \in {"none", "slingshot", "slingshot malformed", "ssh-bridge", "websocket"}
  BY DEF Records
<1>3. /\ bare = Ladder(s, FALSE, slingshot, connected, multi)
      /\ stored = Ladder(s, TRUE, slingshot, connected, multi)
  <2>1. ASSUME NEW ssh \in BOOLEAN
        PROVE  PlanFor(s, ssh, slingshot, connected, multi)
                 = Ladder(s, ssh, slingshot, connected, multi)
    BY LadderIsPlan
  <2>2. QED
    BY <1>2, <2>1
<1> HIDE DEF bare, stored
<1>4. bare = stored \/ (bare.kind \in {"none", "local"} /\ stored.kind \in {"ssh", "ssh-bridge"})
  BY <1>1, <1>3 DEF Ladder
<1>5. bare.kind = "direct" =>
        s.url = "none" /\ Mode(s) # "ssh" /\ DirectPort(s) # 0 /\ bare.port = DirectPort(s)
  <2>1. \/ /\ bare = Plan("direct", DirectPort(s))
           /\ s.url = "none" /\ Mode(s) # "ssh" /\ DirectPort(s) # 0
        \/ bare \in {NoPlan, Plan("alleycat", 0), Plan("slingshot", 0), Plan("url", 0),
                     Plan("local", 0)}
    BY <1>3 DEF Ladder
  <2>2. QED
    BY <1>1, <2>1
<1>6. bare.kind = "url" => s.url = "websocket" \/ (s.url = "ssh-bridge" /\ ~multi)
  BY <1>1, <1>2, <1>3 DEF Ladder, IsBridge
<1>7. QED
  BY <1>4, <1>5, <1>6, DialledPort DEF bare, stored
=============================================================================
