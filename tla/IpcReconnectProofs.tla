-------------------------- MODULE IpcReconnectProofs --------------------------
(***************************************************************************)
(* Proofs about the reconnecting client, for any number of attempts,       *)
(* connections, invalidations and handlers: that a running wrapper never   *)
(* has two clients with an open connection, and that watchers are told the *)
(* truth.                                                                  *)
(*                                                                         *)
(* Both follow from where the task is: a client whose connection is open   *)
(* is the one the task is about to put into the slot, or the one in it.    *)
(***************************************************************************)
EXTENDS IpcReconnect, FiniteSetTheorems, TLAPS

\* The client whose connection may be open while the wrapper runs.
Keeper ==
    IF pc \in {"top", "listen", "recycle", "announce"} THEN slot
    ELSE IF pc \in {"register", "store"} THEN held
    ELSE 0

Kept == stop = "no" => \A c \in Clients : link[c] = "up" => c = Keeper

\* What slot, held and reported are at each place of the task.
Placed ==
    stop = "no" =>
        /\ pc = "top" => reported = (slot # 0)
        /\ pc \in {"listen", "recycle"} => slot # 0 /\ held = slot /\ reported
        /\ pc \in {"lost", "wait", "register", "store", "ended"} => slot = 0
        /\ pc \in {"wait", "register", "store", "ended"} => ~reported
        /\ pc \in {"register", "store"} => held # 0
        /\ pc = "announce" => slot # 0

\* Whoever holds a client was given it by an attempt that succeeded.
Given ==
    \A c \in Clients :
        c \in {slot, held, user, taken} \/ (\E h \in Handlers : setFor[h] = c)
            => link[c] \in {"up", "closed", "down"}

IInv == TypeOK /\ Kept /\ Placed /\ Given
-----------------------------------------------------------------------------
LEMMA TypesInit == Init => TypeOK
BY ReconnectAssumption DEF Init, TypeOK, Clients

LEMMA TypesStep ==
    ASSUME TypeOK, [Next]_vars
    PROVE  TypeOK'
<1> USE ReconnectAssumption DEF TypeOK
<1>1. CASE Top
  BY <1>1 DEF Top, Goto, sets, Clients
<1>2. CASE TakeSignal
  BY <1>2 DEF TakeSignal, Goto, sets
<1>3. CASE Recycle
  BY <1>3 DEF Recycle, Goto, sets
<1>4. CASE EmptySlot \/ ReportLost
  <2>1. attempt' \in 0..MaxAttempts
    BY <1>4 DEF EmptySlot, ReportLost
  <2>2. QED
    BY <1>4, <2>1, Zenon DEF EmptySlot, ReportLost, Goto, sets
<1>5. CASE AttemptSucceeds
  BY <1>5 DEF AttemptSucceeds, Goto, sets, Fresh
<1>6. CASE AttemptFails
  BY <1>6 DEF AttemptFails, ConnectLeft, sets, Fresh
<1>7. CASE Register
  BY <1>7 DEF Register, Goto, sets
<1>8. CASE Store \/ Announce
  BY <1>8 DEF Store, Announce, Goto, sets
<1>9. CASE Cancelled
  BY <1>9 DEF Cancelled, ConnectLeft, sets, Fresh
<1>10. CASE Invalidate
  BY <1>10 DEF Invalidate, loop, sets
<1>11. CASE UserTakes \/ UserDrops
  BY <1>11 DEF UserTakes, UserDrops, loop, sets
<1>12. CASE Stopping
  BY <1>12 DEF Stopping, Abort, TakeClient, DisconnectClient, ReportStopped, loop, sets
<1>13. CASE \E h \in Handlers : SetHandler(h) \/ SetterLooks(h) \/ SetterInstalls(h)
  BY <1>13 DEF SetHandler, SetterLooks, SetterInstalls, loop, sets
<1>14. CASE \E c \in Clients : PeerCloses(c)
  BY <1>14 DEF PeerCloses, loop, sets
<1>15. CASE UNCHANGED vars
  BY <1>15 DEF vars, loop, sets
<1>16. QED
  BY <1>1, <1>2, <1>3, <1>4, <1>5, <1>6, <1>7, <1>8, <1>9, <1>10, <1>11, <1>12, <1>13,
     <1>14, <1>15 DEF Next, Loop

\* A step of the task while the wrapper runs.
LEMMA LoopStep ==
    ASSUME IInv, Loop
    PROVE  Kept' /\ Placed'
<1>1. SUFFICES ASSUME stop' = "no" PROVE Kept' /\ Placed'
  BY DEF Kept, Placed
<1>2. stop = "no"
  BY <1>1 DEF Loop, Top, TakeSignal, Recycle, EmptySlot, ReportLost, AttemptSucceeds,
              AttemptFails, Register, Store, Announce, Cancelled
<1> USE <1>1, <1>2 DEF IInv, TypeOK, Kept, Placed, Keeper, Goto
<1>3. CASE Top
  <2>1. UNCHANGED <<slot, link, reported>> /\ held' = slot /\ reported = (slot # 0)
    BY <1>3 DEF Top
  <2>2. CASE slot = 0 /\ pc' = "drop"
    BY <1>3, <2>1, <2>2 DEF Top, Clients
  <2>3. CASE slot # 0 /\ pc' = "listen"
    BY <1>3, <2>1, <2>3 DEF Top
  <2>4. QED
    BY <1>3, <2>2, <2>3 DEF Top
<1>4. CASE TakeSignal
  BY <1>4 DEF TakeSignal
<1>5. CASE Recycle
  BY <1>5 DEF Recycle
<1>6. CASE EmptySlot
  BY <1>6 DEF EmptySlot
<1>7. CASE ReportLost
  BY <1>7 DEF ReportLost
<1>8. CASE AttemptSucceeds
  BY <1>8 DEF AttemptSucceeds, Fresh, Clients
<1>9. CASE AttemptFails
  BY <1>9 DEF AttemptFails, ConnectLeft, Fresh
<1>10. CASE Register
  BY <1>10 DEF Register
<1>11. CASE Store
  BY <1>11 DEF Store
<1>12. CASE Announce
  BY <1>12 DEF Announce
<1>13. CASE Cancelled
  BY <1>13 DEF Cancelled
<1>14. QED
  BY <1>3, <1>4, <1>5, <1>6, <1>7, <1>8, <1>9, <1>10, <1>11, <1>12, <1>13 DEF Loop

\* Everyone else leaves the task where it is, and opens nothing.
LEMMA OtherStep ==
    ASSUME IInv, [Next]_vars, ~Loop
    PROVE  Kept' /\ Placed'
<1>1. SUFFICES ASSUME stop' = "no" PROVE Kept' /\ Placed'
  BY DEF Kept, Placed
<1>2. /\ stop = "no" /\ UNCHANGED <<slot, reported, loop>>
      /\ \A c \in Clients : link'[c] = "up" => link[c] = "up"
  <2>1. CASE Stopping
    BY <1>1, <2>1 DEF Stopping, Abort, TakeClient, DisconnectClient, ReportStopped
  <2>2. CASE Invalidate \/ UserTakes \/ UserDrops
    BY <1>1, <2>2 DEF Invalidate, UserTakes, UserDrops
  <2>3. CASE \E h \in Handlers : SetHandler(h) \/ SetterLooks(h) \/ SetterInstalls(h)
    BY <1>1, <2>3 DEF SetHandler, SetterLooks, SetterInstalls
  <2>4. CASE \E c \in Clients : PeerCloses(c)
    BY <1>1, <2>4 DEF PeerCloses, IInv, TypeOK
  <2>5. CASE UNCHANGED vars
    BY <1>1, <2>5 DEF vars
  <2>6. QED
    BY <2>1, <2>2, <2>3, <2>4, <2>5 DEF Next
<1>3. QED
  BY <1>1, <1>2 DEF IInv, Kept, Placed, Keeper, loop

LEMMA GivenStep ==
    ASSUME IInv, [Next]_vars
    PROVE  Given'
<1> USE DEF IInv, TypeOK, Given, Goto
<1>1. ASSUME \A c \in Clients : link[c] \in {"up", "closed", "down"}
                                   => link'[c] \in {"up", "closed", "down"},
             {slot', held', user', taken'} \subseteq {0, slot, held, user, taken},
             \A h \in Handlers : setFor'[h] \in {0, slot, setFor[h]}
      PROVE  Given'
  <2>1. SUFFICES ASSUME NEW c \in Clients,
                        c \in {slot', held', user', taken'} \/ \E h \in Handlers : setFor'[h] = c
                 PROVE  link[c] \in {"up", "closed", "down"}
    BY <1>1
  <2>2. c # 0
    BY DEF Clients
  <2>3. c \in {slot, held, user, taken} \/ \E h \in Handlers : setFor[h] = c
    BY <1>1, <2>1, <2>2, Zenon
  <2>4. QED
    BY <2>3, Zenon
<1>2. CASE \/ Top \/ TakeSignal \/ Recycle \/ EmptySlot \/ ReportLost \/ Register \/ Store
           \/ Announce
  <2>1. \A c \in Clients : link'[c] = link[c] \/ link'[c] = "down"
    BY <1>2 DEF Top, TakeSignal, Recycle, EmptySlot, ReportLost, Register, Store, Announce
  <2>2. {slot', held', user', taken'} \subseteq {0, slot, held, user, taken} /\ setFor' = setFor
    BY <1>2 DEF Top, TakeSignal, Recycle, EmptySlot, ReportLost, Register, Store, Announce, sets
  <2>3. QED
    BY <1>1, <2>1, <2>2, Zenon
<1>3. CASE AttemptSucceeds
  BY <1>3 DEF AttemptSucceeds, sets
<1>4. CASE AttemptFails \/ Cancelled
  <2>1. \A c \in Clients : link'[c] = link[c] \/ (c \in Fresh /\ link'[c] = "unclaimed")
    BY <1>4, Zenon DEF AttemptFails, Cancelled, ConnectLeft
  <2>2. \A c \in Fresh : link[c] = "none"
    BY DEF Fresh, Clients
  <2>3. UNCHANGED <<slot, user, taken, setFor>> /\ held' \in {held, 0}
    BY <1>4 DEF AttemptFails, Cancelled, sets
  <2>4. 0 \notin Clients
    BY DEF Clients
  <2>5. QED
    BY <2>1, <2>2, <2>3, <2>4
<1>5. CASE Invalidate \/ UserTakes \/ UserDrops
  <2>1. /\ {slot', held', user', taken'} \subseteq {0, slot, held, user, taken}
        /\ link' = link /\ setFor' = setFor
    BY <1>5 DEF Invalidate, UserTakes, UserDrops, loop, sets
  <2>2. QED
    BY <1>1, <2>1, Zenon
<1>6. CASE Stopping
  <2>1. \A c \in Clients : link'[c] = link[c] \/ link'[c] = "down"
    BY <1>6 DEF Stopping, Abort, TakeClient, DisconnectClient, ReportStopped
  <2>2. {slot', held', user', taken'} \subseteq {0, slot, held, user, taken} /\ setFor' = setFor
    BY <1>6 DEF Stopping, Abort, TakeClient, DisconnectClient, ReportStopped, loop, sets
  <2>3. QED
    BY <1>1, <2>1, <2>2, Zenon
<1>7. CASE \E h \in Handlers : SetHandler(h) \/ SetterLooks(h) \/ SetterInstalls(h)
  <2>1. UNCHANGED <<slot, held, user, taken, link>>
    BY <1>7 DEF SetHandler, SetterLooks, SetterInstalls, loop
  <2>2. \A h \in Handlers : setFor'[h] \in {0, slot, setFor[h]}
    BY <1>7 DEF SetHandler, SetterLooks, SetterInstalls
  <2>3. QED
    BY <1>1, <2>1, <2>2, Zenon
<1>8. CASE \E c \in Clients : PeerCloses(c)
  BY <1>8 DEF PeerCloses, loop, sets
<1>9. CASE UNCHANGED vars
  BY <1>9 DEF vars, loop, sets
<1>10. QED
  BY <1>1, <1>2, <1>3, <1>4, <1>5, <1>6, <1>7, <1>8, <1>9 DEF Next, Loop

LEMMA IInvInit == Init => IInv
<1>1. Init => Kept /\ Placed /\ Given
  BY DEF Init, Kept, Placed, Keeper, Given, Clients
<1>2. QED
  BY <1>1, TypesInit DEF IInv

LEMMA IInvStep == IInv /\ [Next]_vars => IInv'
BY TypesStep, LoopStep, OtherStep, GivenStep DEF IInv

LEMMA Invariance == Spec => []IInv
BY IInvInit, IInvStep, PTL DEF Spec
-----------------------------------------------------------------------------
(* The theorems.                                                            *)

\* Every reachable state of the wrapper is well typed.
THEOREM TypeCorrect == Spec => []TypeOK
<1>1. IInv => TypeOK
  BY DEF IInv
<1>2. QED
  BY <1>1, Invariance, PTL

\* Whatever users, peers and the connector do, a running wrapper never has two
\* clients with an open connection: reconnect_loop shuts one before it makes the
\* next.  Connections that a failed handshake left open have no holder.
THEOREM AtMostOneOpen == Spec => []OneOpenClient
<1>1. ASSUME IInv PROVE OneOpenClient
  <2>1. SUFFICES ASSUME stop = "no"
                 PROVE  /\ Cardinality({c \in Open : HeldBy(c) # {}}) <= 1
                        /\ \A c \in Open : HeldBy(c) = {} => link[c] = "unclaimed"
    BY DEF OneOpenClient
  <2> DEFINE Reached == {c \in Open : HeldBy(c) # {}}
  <2>2. \A c \in Clients :
           HeldBy(c) # {} <=> \/ c \in {slot, held, user, taken}
                             \/ \E h \in Handlers : setFor[h] = c
    BY DEF HeldBy, Holders
  <2>3. \A c \in Reached : c = Keeper
    <3>1. \A c \in Reached : link[c] = "up"
      BY <1>1, <2>2 DEF IInv, Given, Open
    <3>2. QED
      BY <1>1, <2>1, <3>1 DEF IInv, Kept, Open
  <2>4. Cardinality(Reached) <= 1
    <3>1. Reached = {} \/ Reached = {Keeper}
      BY <2>3
    <3>2. Cardinality({}) = 0 /\ Cardinality({Keeper}) = 1
      BY FS_EmptySet, FS_Singleton
    <3>3. QED
      BY <3>1, <3>2
  <2>5. ASSUME NEW c \in Open, HeldBy(c) = {}
        PROVE  link[c] = "unclaimed"
    <3>1. c \in Clients /\ c # slot /\ c # held
      BY <2>2, <2>5 DEF Open
    <3>2. Keeper \in {slot, held, 0} /\ 0 \notin Clients
      BY DEF Keeper, Clients
    <3>3. link[c] # "up"
      BY <1>1, <2>1, <3>1, <3>2 DEF IInv, Kept
    <3>4. QED
      BY <2>5, <3>3 DEF Open
  <2>6. QED
    BY <2>4, <2>5
<1>2. QED
  BY <1>1, Invariance, PTL

\* While reconnect_loop rests, connection_tx tells whether the slot has a client,
\* and the client in the slot is the one whose broadcasts the task listens to.
THEOREM WatchersAreTold == Spec => []ReportedTruly
<1>1. ASSUME IInv PROVE ReportedTruly
  BY <1>1 DEF IInv, TypeOK, Placed, ReportedTruly
<1>2. QED
  BY <1>1, Invariance, PTL
=============================================================================
