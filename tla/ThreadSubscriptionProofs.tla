---------------------- MODULE ThreadSubscriptionProofs ----------------------
(***************************************************************************)
(* Proofs about the markers of subscribed threads, for any threads, users  *)
(* and bounds: type correctness, and that a marker without a subscription  *)
(* has one of the two causes StaleMarkersExplained names.                  *)
(*                                                                         *)
(* The argument: a marker whose subscription is gone has someone who will  *)
(* remove it.  Where a connection was lost, that is the link still down, a *)
(* new connection the health reader has not seen, or a resubscriber that   *)
(* has yet to clear; where the thread was unsubscribed, the caller whose   *)
(* answer is waiting for it.                                               *)
(***************************************************************************)
EXTENDS ThreadSubscription, FiniteSetTheorems, SequenceTheorems, TLAPS

WorkerInv ==
    /\ stage = "connecting" => ~up
    /\ stage = "awaiting" => serving # NoOne
    /\ stage = "idle" => serving = NoOne
    /\ Spent <= MaxBreaks
    /\ IsFiniteSet(loaded)

\* Who is in the channel or served waits for an answer, once.
Waiting ==
    /\ serving # NoOne => pc[serving] = "queued"
    /\ \A i \in 1..Len(queue) :
         /\ pc[queue[i]] = "queued" /\ queue[i] # serving
         /\ \A j \in 1..Len(queue) : queue[j] = queue[i] => j = i

Asking ==
    \A a \in Actors : pc[a] \in {"queued"} \cup Outcomes =>
        /\ doing[a].thread \in Threads /\ doing[a].op # "none"
        /\ a \in Resubscribers => todo[a] # <<>>

\* What the reader has been told of the connection.
Told ==
    /\ up => health = "connected"
    /\ conn # seenConn => unseen \/ ~up

\* Somebody is going to take the marker of t away.
Doomed(t) ==
    \/ ~up \/ missed \/ conn # seenConn
    \/ \E k \in Resubscribers : pc[k] = "spawned"
    \/ \E a \in Actors : pc[a] = "ok" /\ doing[a] = [op |-> "unsubscribe", thread |-> t]

Explained == \A t \in markers \ late : t \in subscribed \/ Doomed(t)

IInv == TypeOK /\ WorkerInv /\ Waiting /\ Asking /\ Told /\ Explained

PcType == {"unborn", "spawned", "cleared", "idle", "queued"} \cup Outcomes
DoingType == [op : {"none", "resume", "unsubscribe"}, thread : Threads \cup {NoThread}]

ActorsOK ==
    /\ pc \in [Actors -> PcType] /\ doing \in [Actors -> DoingType]
    /\ todo \in [Resubscribers -> Seq(Threads)] /\ calls \in 0..MaxCalls

LEMMA Everyone ==
    /\ Users \subseteq Actors /\ Resubscribers \subseteq Actors /\ NoOne \notin Actors
    /\ \A a \in Actors : a \in Users <=> a \notin Resubscribers
BY SubscriptionAssumption DEF Actors, Resubscribers

LEMMA TypeParts ==
    TypeOK <=>
        /\ ActorsOK
        /\ conn \in 1..(MaxBreaks + 1) /\ up \in BOOLEAN /\ subscribed \subseteq Threads
        /\ queue \in Seq(Actors) /\ stage \in {"idle", "awaiting", "connecting"}
        /\ serving \in Actors \cup {NoOne} /\ copy \in 0..2
        /\ health \in {"connected", "connecting", "disconnected"}
        /\ unseen \in BOOLEAN /\ prevConnected \in BOOLEAN
        /\ markers \subseteq Threads /\ late \subseteq Threads /\ loaded \subseteq Threads
        /\ active \in Threads \cup {NoThread} /\ closing \in BOOLEAN /\ missed \in BOOLEAN
        /\ seenConn \in 1..conn
BY DEF TypeOK, ActorsOK, PcType, DoingType

LEMMA InitHolds == Init => IInv
<1> SUFFICES ASSUME Init PROVE IInv
  OBVIOUS
<1>1. TypeOK
  <2>1. MaxBreaks \in Nat /\ MaxCalls \in Nat
    BY SubscriptionAssumption
  <2>2. ActorsOK
    BY <2>1 DEF Init, ActorsOK, PcType, DoingType, Nothing
  <2>3. /\ conn \in 1..(MaxBreaks + 1) /\ seenConn \in 1..conn /\ copy \in 0..2
    BY <2>1 DEF Init
  <2>4. queue \in Seq(Actors) /\ serving \in Actors \cup {NoOne}
    BY DEF Init
  <2>5. QED
    BY <2>2, <2>3, <2>4, TypeParts DEF Init
<1>2. WorkerInv
  BY FS_EmptySet, SubscriptionAssumption DEF Init, WorkerInv, Spent
<1>3. Waiting /\ Told /\ Explained
  BY DEF Init, Waiting, Told, Explained
<1>4. Asking
  BY DEF Init, Asking, Outcomes
<1>5. QED
  BY <1>1, <1>2, <1>3, <1>4 DEF IInv

-----------------------------------------------------------------------------
(* Actors: who waits for an answer, and for what.                           *)

People ==
    /\ ActorsOK /\ queue \in Seq(Actors) /\ serving \in Actors \cup {NoOne}
    /\ Waiting /\ Asking

\* The head of the channel becomes the one who is served.
LEMMA TakePeople ==
    ASSUME IInv, Take
    PROVE  /\ People' /\ serving' \in Actors
           /\ UNCHANGED <<pc, doing>>
<1>1. /\ stage = "idle" /\ queue # <<>> /\ serving' = Head(queue) /\ queue' = Tail(queue)
      /\ UNCHANGED <<pc, doing, todo, calls>>
  BY DEF Take, actors
<1>2. queue \in Seq(Actors) /\ ActorsOK /\ Waiting /\ Asking
  BY TypeParts DEF IInv
<1>3. /\ queue' \in Seq(Actors) /\ Len(queue) \in Nat /\ Len(queue) > 0
      /\ Len(queue') = Len(queue) - 1
      /\ \A i \in 1..Len(queue') : queue'[i] = queue[i + 1]
      /\ serving' = queue[1] /\ serving' \in Actors
  BY <1>1, <1>2
<1>4. pc[serving'] = "queued"
  BY <1>2, <1>3 DEF Waiting
<1>5. ASSUME NEW i \in 1..Len(queue')
      PROVE  /\ pc[queue'[i]] = "queued" /\ queue'[i] # serving'
             /\ \A j \in 1..Len(queue') : queue'[j] = queue'[i] => j = i
  <2>1. i + 1 \in 1..Len(queue) /\ i + 1 # 1 /\ 1 \in 1..Len(queue)
    BY <1>3, <1>5
  <2>2. /\ pc[queue[i + 1]] = "queued"
        /\ \A j \in 1..Len(queue) : queue[j] = queue[i + 1] => j = i + 1
    BY <1>2, <2>1 DEF Waiting
  <2>3. \A j \in 1..Len(queue') : j + 1 \in 1..Len(queue) /\ (j + 1 = i + 1 => j = i)
    BY <1>3, <1>5
  <2>4. QED
    BY <1>3, <1>5, <2>1, <2>2, <2>3
<1>6. Waiting'
  BY <1>1, <1>4, <1>5 DEF Waiting
<1>7. QED
  BY <1>1, <1>2, <1>3, <1>6 DEF People, ActorsOK, Asking

\* Whoever is served gets an answer and is out of the channel.
LEMMA AnswerPeople ==
    ASSUME IInv, NEW outcome \in Outcomes, serving # NoOne, Answer(outcome)
    PROVE  /\ People' /\ serving \in Actors /\ pc[serving] = "queued" /\ serving' = NoOne
           /\ pc' = [pc EXCEPT ![serving] = outcome] /\ doing' = doing /\ queue' = queue
<1>1. /\ pc' = [pc EXCEPT ![serving] = outcome]
      /\ serving' = NoOne /\ UNCHANGED <<queue, doing, todo, calls>>
  BY DEF Answer
<1>2. /\ serving \in Actors /\ queue \in Seq(Actors) /\ ActorsOK /\ Waiting /\ Asking
  BY TypeParts DEF IInv
<1>3. pc[serving] = "queued" /\ outcome \in PcType
  BY <1>2 DEF Waiting, PcType
<1>4. \A a \in Actors : pc'[a] = IF a = serving THEN outcome ELSE pc[a]
  BY <1>1, <1>2 DEF ActorsOK
<1>5. ActorsOK'
  BY <1>1, <1>2, <1>3 DEF ActorsOK
<1>6. \A i \in 1..Len(queue) : queue[i] \in Actors
  BY <1>2
<1>7. Waiting'
  BY <1>1, <1>2, <1>4, <1>6, Everyone DEF Waiting
<1>8. Asking'
  BY <1>1, <1>2, <1>3, <1>4 DEF Asking
<1>9. QED
  BY <1>1, <1>2, <1>3, <1>5, <1>7, <1>8 DEF People

\* Joining the channel.
LEMMA RequestPeople ==
    ASSUME IInv, NEW a \in Actors, NEW op \in {"resume", "unsubscribe"}, NEW t \in Threads,
           Request(a, op, t), todo' = todo, calls' \in 0..MaxCalls,
           a \in Resubscribers => todo[a] # <<>>
    PROVE  /\ People' /\ pc[a] = "idle" /\ pc' = [pc EXCEPT ![a] = "queued"]
           /\ \A x \in Actors : x # a => doing'[x] = doing[x]
<1>1. /\ pc[a] = "idle" /\ pc' = [pc EXCEPT ![a] = "queued"]
      /\ doing' = [doing EXCEPT ![a] = [op |-> op, thread |-> t]]
      /\ queue' = Append(queue, a) /\ serving' = serving
  BY DEF Request
<1>2. /\ serving \in Actors \cup {NoOne} /\ queue \in Seq(Actors) /\ ActorsOK
      /\ Waiting /\ Asking
  BY TypeParts DEF IInv
<1>3. /\ [op |-> op, thread |-> t] \in DoingType /\ "queued" \in PcType
  BY DEF DoingType, PcType
<1>4. ActorsOK'
  BY <1>1, <1>2, <1>3 DEF ActorsOK
<1>5. /\ \A x \in Actors : pc'[x] = IF x = a THEN "queued" ELSE pc[x]
      /\ \A x \in Actors : x # a => doing'[x] = doing[x]
      /\ doing'[a].op = op /\ doing'[a].thread = t
  BY <1>1, <1>2 DEF ActorsOK
<1>6. Asking'
  BY <1>2, <1>5 DEF Asking
<1>7. /\ queue' \in Seq(Actors) /\ Len(queue) \in Nat /\ Len(queue') = Len(queue) + 1
      /\ \A i \in 1..Len(queue) : queue'[i] = queue[i] /\ queue[i] \in Actors
      /\ queue'[Len(queue) + 1] = a
  BY <1>1, <1>2
<1>8. \A i \in 1..Len(queue') : i \in 1..Len(queue) \/ i = Len(queue) + 1
  BY <1>7
<1>9. a # serving /\ \A i \in 1..Len(queue) : queue[i] # a
  BY <1>1, <1>2, Everyone DEF Waiting
<1>10. Waiting'
  <2>1. serving # NoOne => pc'[serving] = "queued"
    BY <1>2, <1>5 DEF Waiting
  <2>2. ASSUME NEW i \in 1..Len(queue')
        PROVE  /\ pc'[queue'[i]] = "queued" /\ queue'[i] # serving
               /\ \A j \in 1..Len(queue') : queue'[j] = queue'[i] => j = i
    <3>1. CASE i \in 1..Len(queue)
      BY <1>2, <1>5, <1>7, <1>8, <1>9, <3>1 DEF Waiting
    <3>2. CASE i = Len(queue) + 1
      BY <1>5, <1>7, <1>8, <1>9, <3>2
    <3>3. QED
      BY <1>8, <3>1, <3>2
  <2>3. QED
    BY <1>1, <2>1, <2>2 DEF Waiting
<1>11. QED
  BY <1>1, <1>2, <1>4, <1>5, <1>6, <1>7, <1>10 DEF People

\* Back from a request.
LEMMA FinishPeople ==
    ASSUME IInv, NEW a \in Actors, Finish(a)
    PROVE  /\ People' /\ pc[a] \in Outcomes
           /\ \A x \in Actors : x # a => pc'[x] = pc[x] /\ doing'[x] = doing[x]
           /\ pc'[a] = "idle"
<1>1. /\ pc[a] \in Outcomes /\ pc' = [pc EXCEPT ![a] = "idle"]
      /\ todo' = IF a \in Users THEN todo ELSE [todo EXCEPT ![a] = Tail(@)]
      /\ doing' = [doing EXCEPT ![a] = Nothing]
      /\ UNCHANGED <<queue, serving, calls>>
  BY DEF Finish, Resumed, Unsubscribed, Missing, Failed, Outcomes, worker
<1>2. /\ serving \in Actors \cup {NoOne} /\ queue \in Seq(Actors) /\ ActorsOK
      /\ Waiting /\ Asking
  BY TypeParts DEF IInv
<1>3. Nothing \in DoingType /\ "idle" \in PcType /\ "idle" \notin {"queued"} \cup Outcomes
  BY DEF Nothing, DoingType, PcType, Outcomes
<1>4. ASSUME a \notin Users PROVE a \in Resubscribers /\ Tail(todo[a]) \in Seq(Threads)
  <2>1. a \in Resubscribers /\ todo[a] # <<>> /\ todo[a] \in Seq(Threads)
    BY <1>1, <1>2, <1>4, Everyone DEF Asking, ActorsOK
  <2>2. QED
    BY <2>1
<1>5. todo' \in [Resubscribers -> Seq(Threads)]
  BY <1>1, <1>2, <1>4 DEF ActorsOK
<1>6. ActorsOK'
  BY <1>1, <1>2, <1>3, <1>5 DEF ActorsOK
<1>7. /\ \A x \in Actors : x # a => pc'[x] = pc[x] /\ doing'[x] = doing[x]
      /\ pc'[a] = "idle"
      /\ \A x \in Resubscribers : x # a => todo'[x] = todo[x]
  BY <1>1, <1>2 DEF ActorsOK
<1>8. Asking'
  BY <1>2, <1>3, <1>7 DEF Asking
<1>9. pc[a] # "queued" /\ \A i \in 1..Len(queue) : queue[i] \in Actors
  BY <1>1, <1>2 DEF Outcomes
<1>10. Waiting'
  BY <1>1, <1>2, <1>7, <1>9 DEF Waiting
<1>11. QED
  BY <1>1, <1>2, <1>6, <1>7, <1>8, <1>10 DEF People

\* A resubscriber is born, clears, and collects its threads.
LEMMA ResubscriberPeople ==
    ASSUME IInv, NEW k \in Resubscribers, NEW to \in {"spawned", "cleared", "idle"},
           pc[k] \in {"unborn", "spawned", "cleared"}, pc' = [pc EXCEPT ![k] = to],
           todo' \in [Resubscribers -> Seq(Threads)],
           \A x \in Resubscribers : x # k => todo'[x] = todo[x],
           UNCHANGED <<queue, serving, doing, calls>>
    PROVE  /\ People' /\ pc'[k] = to
           /\ \A x \in Actors : x # k => pc'[x] = pc[x]
<1>1. /\ serving \in Actors \cup {NoOne} /\ queue \in Seq(Actors) /\ ActorsOK
      /\ Waiting /\ Asking /\ k \in Actors
  BY TypeParts, Everyone DEF IInv
<1>2. pc'[k] = to /\ \A x \in Actors : x # k => pc'[x] = pc[x]
  BY <1>1 DEF ActorsOK
<1>3. to \in PcType /\ to \notin {"queued"} \cup Outcomes
  BY DEF PcType, Outcomes
<1>4. ActorsOK'
  BY <1>1, <1>3 DEF ActorsOK
<1>5. Asking'
  BY <1>1, <1>2, <1>3 DEF Asking
<1>6. pc[k] # "queued" /\ \A i \in 1..Len(queue) : queue[i] \in Actors
  BY <1>1
<1>7. Waiting'
  BY <1>1, <1>2, <1>6 DEF Waiting
<1>8. QED
  BY <1>1, <1>2, <1>4, <1>5, <1>7 DEF People

LEMMA PeopleStep ==
    ASSUME IInv, [Next]_vars
    PROVE  People'
<1>1. People
  BY TypeParts DEF IInv, People
<1>2. ASSUME UNCHANGED <<queue, serving, pc, doing, todo, calls>> PROVE People'
  BY <1>1, <1>2 DEF People, ActorsOK, Waiting, Asking
<1>3. CASE UNCHANGED vars \/ StartReconnect \/ AttemptSucceeds \/ AttemptFails \/ SeesOther
  BY <1>2, <1>3 DEF vars, worker, actors, StartReconnect, AttemptSucceeds, AttemptFails,
                    SeesOther, Reading
<1>4. CASE Break \/ Abandon \/ AbandonCloses \/ \E t \in Threads : Open(t) \/ Load(t)
  BY <1>2, <1>4 DEF Break, Abandon, AbandonCloses, Open, Load, worker, actors
<1>5. CASE Take
  BY <1>5, TakePeople
<1>6. CASE Accept \/ Refuse \/ RetryFails \/ GiveUp
  <2>1. CASE \E outcome \in Outcomes : serving # NoOne /\ Answer(outcome)
    BY <2>1, AnswerPeople
  <2>2. CASE UNCHANGED <<queue, serving, pc, doing, todo, calls>>
    BY <1>2, <2>2
  <2>3. QED
    BY <1>6, <2>1, <2>2
    DEF Accept, Refuse, RetryFails, GiveUp, actors, IInv, WorkerInv, Outcomes
<1>7. CASE \E u \in Users, t \in Threads :
             Unsubscribe(u, t) \/ \E force \in BOOLEAN : Resume(u, t, force)
  <2>1. PICK u \in Users, t \in Threads, op \in {"resume", "unsubscribe"} :
          /\ calls < MaxCalls /\ Request(u, op, t) /\ calls' = calls + 1 /\ todo' = todo
    BY <1>7 DEF Unsubscribe, Resume
  <2>2. calls' \in 0..MaxCalls
    BY <1>1, <2>1, SubscriptionAssumption DEF People, ActorsOK
  <2>3. QED
    BY <2>1, <2>2, RequestPeople, Everyone
<1>8. CASE \E k \in Resubscribers : Refreshes(k)
  <2>1. PICK k \in Resubscribers :
          todo[k] # <<>> /\ Request(k, "resume", Head(todo[k])) /\ UNCHANGED <<todo, calls>>
    BY <1>8 DEF Refreshes
  <2>2. todo[k] \in Seq(Threads)
    BY <1>1 DEF People, ActorsOK
  <2>3. Head(todo[k]) \in Threads /\ calls' \in 0..MaxCalls
    BY <1>1, <2>1, <2>2 DEF People, ActorsOK
  <2>4. QED
    BY <2>1, <2>3, RequestPeople, Everyone
<1>9. CASE \E a \in Actors : Finish(a)
  BY <1>9, FinishPeople
<1>10. CASE SeesReconnect
  <2>1. PICK k \in Resubscribers : pc[k] = "unborn" /\ pc' = [pc EXCEPT ![k] = "spawned"]
    BY <1>10 DEF SeesReconnect
  <2>2. UNCHANGED <<queue, serving, doing, todo, calls>>
    BY <1>10 DEF SeesReconnect, Reading, worker
  <2>3. QED
    BY <1>1, <2>1, <2>2, ResubscriberPeople DEF People, ActorsOK
<1>11. CASE \E k \in Resubscribers : Clears(k)
  <2>1. PICK k \in Resubscribers : Clears(k)
    BY <1>11
  <2>2. QED
    BY <1>1, <2>1, ResubscriberPeople DEF Clears, People, ActorsOK, worker
<1>12. CASE \E k \in Resubscribers : Collects(k)
  <2>1. PICK k \in Resubscribers : Collects(k)
    BY <1>12
  <2> DEFINE first == IF active = NoThread THEN <<>> ELSE <<active>>
  <2>2. PICK rest \in Orders(loaded \ {active}) : todo' = [todo EXCEPT ![k] = first \o rest]
    BY <2>1 DEF Collects
  <2>3. loaded \ {active} \subseteq Threads /\ active \in Threads \cup {NoThread}
    BY TypeParts DEF IInv
  <2>4. Cardinality(loaded \ {active}) \in Nat
    BY FS_Subset, FS_CardinalityType DEF IInv, WorkerInv
  <2>5. rest \in Seq(Threads)
    <3> DEFINE n == Cardinality(loaded \ {active})
    <3>1. n \in Nat /\ rest \in [1..n -> Threads]
      BY <2>2, <2>3, <2>4 DEF Orders
    <3> HIDE DEF n
    <3>2. QED
      BY <3>1
  <2>6. first \in Seq(Threads)
    BY <2>3
  <2>7. first \o rest \in Seq(Threads)
    BY <2>5, <2>6
  <2> HIDE DEF first
  <2>8. /\ todo' \in [Resubscribers -> Seq(Threads)]
        /\ \A x \in Resubscribers : x # k => todo'[x] = todo[x]
    BY <1>1, <2>2, <2>7 DEF People, ActorsOK
  <2>9. QED
    BY <2>1, <2>8, ResubscriberPeople DEF Collects, worker
<1>13. QED
  BY <1>3, <1>4, <1>5, <1>6, <1>7, <1>8, <1>9, <1>10, <1>11, <1>12, SubscriptionAssumption
  DEF Next, Worker, Tasks, Environment

-----------------------------------------------------------------------------
(* Types, the worker, and what the reader has been told.                    *)

\* All of TypeOK but the actors, the channel and who is served.
RestOK ==
    /\ conn \in 1..(MaxBreaks + 1) /\ up \in BOOLEAN /\ subscribed \subseteq Threads
    /\ stage \in {"idle", "awaiting", "connecting"} /\ copy \in 0..2
    /\ health \in {"connected", "connecting", "disconnected"}
    /\ unseen \in BOOLEAN /\ prevConnected \in BOOLEAN
    /\ markers \subseteq Threads /\ late \subseteq Threads /\ loaded \subseteq Threads
    /\ active \in Threads \cup {NoThread} /\ closing \in BOOLEAN /\ missed \in BOOLEAN
    /\ seenConn \in 1..conn

Link == RestOK /\ WorkerInv /\ Told

LEMMA RestStep ==
    ASSUME IInv, [Next]_vars
    PROVE  Link'
<1>1. Link /\ serving \in Actors \cup {NoOne} /\ ActorsOK
  BY TypeParts DEF IInv, Link, RestOK
<1>2. MaxBreaks \in Nat /\ Openable \subseteq Threads
  BY SubscriptionAssumption
<1>3. CASE UNCHANGED vars
  BY <1>1, <1>3 DEF vars, link, worker, watch, screen, marking, Link, RestOK, WorkerInv, Told, Spent
<1>4. CASE Break \/ Abandon \/ AbandonCloses
  <2>1. UNCHANGED <<conn, stage, serving, copy, health, unseen, prevConnected, seenConn, loaded, active>>
    BY <1>4 DEF Break, Abandon, AbandonCloses, link, worker, watch, screen
  <2>2. /\ up' \in BOOLEAN /\ (up' => up) /\ (subscribed' = subscribed \/ subscribed' = {})
        /\ closing' \in BOOLEAN
    <3>1. up \in BOOLEAN /\ closing \in BOOLEAN
      BY <1>1 DEF Link, RestOK
    <3>2. CASE Break
      BY <3>1, <3>2 DEF Break, screen
    <3>3. CASE Abandon
      BY <3>1, <3>3 DEF Abandon, link
    <3>4. CASE AbandonCloses
      <4>1. CASE up
        BY <3>4, <4>1 DEF AbandonCloses
      <4>2. CASE ~up
        BY <3>1, <3>4, <4>2 DEF AbandonCloses
      <4>3. QED
        BY <4>1, <4>2
    <3>5. QED
      BY <1>4, <3>2, <3>3, <3>4
  <2>3. /\ (markers' = markers \/ markers' = {}) /\ (late' = late \/ late' = {})
        /\ missed' \in BOOLEAN
    BY <1>1, <1>4 DEF Break, Abandon, AbandonCloses, ClearMarkers, marking, Link, RestOK
  <2>4. RestOK' /\ Told'
    BY <1>1, <2>1, <2>2, <2>3 DEF Link, RestOK, Told
  <2>5. Spent' <= MaxBreaks
    <3>1. CASE Break
      BY <1>1, <1>2, <2>1, <3>1 DEF Break, screen, Link, RestOK, Spent
    <3>2. CASE Abandon
      BY <1>1, <1>2, <2>1, <3>2 DEF Abandon, link, Link, RestOK, Spent
    <3>3. CASE AbandonCloses
      BY <1>1, <1>2, <2>1, <3>3 DEF AbandonCloses, Link, RestOK, WorkerInv, Spent
    <3>4. QED
      BY <1>4, <3>1, <3>2, <3>3
  <2>6. WorkerInv'
    BY <1>1, <2>1, <2>2, <2>5 DEF Link, WorkerInv
  <2>7. QED
    BY <2>4, <2>6 DEF Link
<1>5. CASE \E t \in Threads : Open(t) \/ Load(t)
  <2>1. PICK t \in Threads : Open(t) \/ Load(t)
    BY <1>5
  <2>2. UNCHANGED <<link, worker, watch, closing, marking>>
    BY <2>1 DEF Open, Load
  <2>3. RestOK' /\ Told'
    BY <1>1, <2>1, <2>2 DEF Open, Load, link, worker, watch, marking, Link, RestOK, Told
  <2>4. IsFiniteSet(loaded')
    BY <1>1, <2>1, FS_AddElement DEF Open, Load, Link, WorkerInv
  <2>5. WorkerInv'
    BY <1>1, <2>2, <2>4 DEF link, worker, Link, WorkerInv, Spent
  <2>6. QED
    BY <2>3, <2>5 DEF Link
<1>6. CASE StartReconnect \/ AttemptSucceeds \/ AttemptFails \/ (GiveUp /\ serving = NoOne)
  <2>1. UNCHANGED <<loaded, active, closing, markers, late, missed>>
    BY <1>6 DEF StartReconnect, AttemptSucceeds, AttemptFails, GiveUp, screen, marking
  <2>2. RestOK'
    <3>1. conn' \in 1..(MaxBreaks + 1) /\ up' \in BOOLEAN /\ subscribed' \subseteq Threads
      <4>1. CASE AttemptSucceeds
        BY <1>1, <1>2, <4>1 DEF AttemptSucceeds, Link, RestOK, WorkerInv, Spent
      <4>2. CASE StartReconnect \/ AttemptFails \/ GiveUp
        BY <1>1, <4>2 DEF StartReconnect, AttemptFails, GiveUp, link, Link, RestOK
      <4>3. QED
        BY <1>6, <4>1, <4>2
    <3>2. conn' \in {conn, conn + 1}
      BY <1>6 DEF StartReconnect, AttemptSucceeds, AttemptFails, GiveUp, link
    <3>3. /\ health' \in {"connected", "connecting", "disconnected"} /\ unseen' = TRUE
          /\ UNCHANGED <<prevConnected, seenConn>>
      BY <1>6 DEF StartReconnect, AttemptSucceeds, AttemptFails, GiveUp, Publish
    <3>4. stage' \in {"idle", "awaiting", "connecting"} /\ copy' \in 0..2
      BY <1>1, <1>6 DEF StartReconnect, AttemptSucceeds, AttemptFails, GiveUp, worker, Link, RestOK
    <3>5. seenConn' \in 1..conn'
      BY <1>1, <3>2, <3>3 DEF Link, RestOK
    <3>6. QED
      BY <1>1, <2>1, <3>1, <3>3, <3>4, <3>5 DEF Link, RestOK
  <2>3. Told'
    BY <1>1, <1>6 DEF StartReconnect, AttemptSucceeds, AttemptFails, GiveUp, Publish, link,
                      Link, RestOK, WorkerInv, Told
  <2>4. WorkerInv'
    BY <1>1, <1>2, <1>6, <2>1
    DEF StartReconnect, AttemptSucceeds, AttemptFails, GiveUp, link, worker,
        Link, RestOK, WorkerInv, Spent
  <2>5. QED
    BY <2>2, <2>3, <2>4 DEF Link
<1>7. CASE Take
  <2>1. stage' = "awaiting" /\ copy' = 1 /\ UNCHANGED <<link, watch, screen, marking>>
    BY <1>7 DEF Take
  <2>2. serving' # NoOne
    BY <1>7, TakePeople, Everyone
  <2>3. QED
    BY <1>1, <2>1, <2>2 DEF link, watch, screen, marking, Link, RestOK, WorkerInv, Told, Spent
<1>8. CASE Accept \/ Refuse \/ RetryFails \/ (GiveUp /\ serving # NoOne)
  <2>1. PICK outcome \in Outcomes : Answer(outcome)
    BY <1>8 DEF Accept, Refuse, RetryFails, GiveUp, Outcomes
  <2>2. serving # NoOne
    BY <1>1, <1>8 DEF Accept, Refuse, RetryFails, Link, WorkerInv
  <2>3. stage' = "idle" /\ serving' = NoOne /\ copy' = 0
    BY <2>1 DEF Answer
  <2>4. UNCHANGED <<conn, up, loaded, active, closing, markers, late, missed, prevConnected, seenConn>>
    BY <1>8 DEF Accept, Refuse, RetryFails, GiveUp, Publish, link, watch, screen, marking
  <2>5. \/ health' = health /\ unseen' = unseen
        \/ health' = "disconnected" /\ unseen' = TRUE /\ ~up
    BY <1>1, <1>8 DEF Accept, Refuse, RetryFails, GiveUp, Publish, watch, Link, WorkerInv
  <2>6. subscribed' \subseteq Threads
    <3>1. serving \in Actors /\ pc[serving] = "queued"
      BY <2>1, <2>2, AnswerPeople
    <3>2. doing[serving].thread \in Threads
      BY <3>1 DEF IInv, Asking
    <3>3. QED
      BY <1>1, <1>8, <3>2 DEF Accept, Refuse, RetryFails, GiveUp, link, Link, RestOK
  <2>7. RestOK'
    <3>1. unseen' \in BOOLEAN /\ health' \in {"connected", "connecting", "disconnected"}
      BY <1>1, <2>5 DEF Link, RestOK
    <3>2. QED
      BY <1>1, <2>3, <2>4, <2>6, <3>1 DEF Link, RestOK
  <2>8. Told'
    BY <1>1, <2>4, <2>5 DEF Link, Told
  <2>9. WorkerInv'
    BY <1>1, <2>3, <2>4 DEF Link, WorkerInv, Spent
  <2>10. QED
    BY <2>7, <2>8, <2>9 DEF Link
<1>9. ASSUME UNCHANGED <<stage, serving, copy, link, watch, screen, marking>> PROVE Link'
  BY <1>1, <1>9 DEF link, watch, screen, marking, Link, RestOK, WorkerInv, Told, Spent
<1>10. CASE \E a \in Actors, op \in {"resume", "unsubscribe"}, t \in Threads : Request(a, op, t)
  BY <1>9, <1>10 DEF Request
<1>11. CASE \E a \in Actors : Finish(a)
  <2>1. PICK a \in Actors : Finish(a)
    BY <1>11
  <2>2. doing[a].thread \in Threads
    BY <2>1, FinishPeople DEF IInv, Asking
  <2>3. UNCHANGED <<link, worker, watch, active, closing>>
    BY <2>1 DEF Finish, Resumed, Unsubscribed, Missing, Failed, screen
  <2>4. /\ loaded' = loaded \/ loaded' = loaded \cup {doing[a].thread}
        /\ markers' \subseteq markers \cup {doing[a].thread}
        /\ late' \subseteq late \cup {doing[a].thread}
        /\ missed' \in {FALSE, missed}
    BY <2>1 DEF Finish, Resumed, Unsubscribed, Missing, Failed, ClearMarkers, screen, marking
  <2>5. IsFiniteSet(loaded')
    BY <1>1, <2>4, FS_AddElement DEF Link, WorkerInv
  <2>6. RestOK' /\ Told'
    BY <1>1, <2>2, <2>3, <2>4 DEF link, worker, watch, Link, RestOK, Told
  <2>7. WorkerInv'
    BY <1>1, <2>3, <2>5 DEF link, worker, Link, WorkerInv, Spent
  <2>8. QED
    BY <2>6, <2>7 DEF Link
<1>12. CASE SeesReconnect \/ SeesOther
  <2>1. /\ unseen' = FALSE /\ prevConnected' \in BOOLEAN
        /\ seenConn' = IF health = "connected" THEN conn ELSE seenConn
        /\ UNCHANGED <<health, link, worker, screen, markers, late>>
        /\ missed' \in BOOLEAN
    BY <1>1, <1>12 DEF SeesReconnect, SeesOther, Reading, Link, RestOK
  <2>2. seenConn' \in 1..conn
    BY <1>1, <2>1 DEF Link, RestOK
  <2>3. RestOK'
    BY <1>1, <2>1, <2>2 DEF link, worker, screen, Link, RestOK
  <2>4. Told'
    BY <1>1, <2>1 DEF link, Link, Told
  <2>5. WorkerInv'
    BY <1>1, <2>1 DEF link, worker, screen, Link, WorkerInv, Spent
  <2>6. QED
    BY <2>3, <2>4, <2>5 DEF Link
<1>13. CASE \E k \in Resubscribers : Clears(k)
  <2>1. UNCHANGED <<link, worker, watch, screen>> /\ ClearMarkers
    BY <1>13 DEF Clears
  <2>2. QED
    BY <1>1, <2>1
    DEF link, worker, watch, screen, ClearMarkers, Link, RestOK, WorkerInv, Told, Spent
<1>14. CASE \E k \in Resubscribers : Collects(k)
  BY <1>9, <1>14 DEF Collects, worker
<1>15. CASE \E k \in Resubscribers : Refreshes(k)
  BY <1>9, <1>15 DEF Refreshes, Request
<1>16. CASE \E u \in Users, t \in Threads :
              Unsubscribe(u, t) \/ \E force \in BOOLEAN : Resume(u, t, force)
  BY <1>9, <1>16 DEF Unsubscribe, Resume, Request
<1>17. QED
  BY <1>2, <1>3, <1>4, <1>5, <1>6, <1>7, <1>8, <1>11, <1>12, <1>13, <1>14, <1>15, <1>16
  DEF Next, Worker, Tasks, Environment

-----------------------------------------------------------------------------
(* Markers.                                                                 *)

\* A step that puts no marker and takes nobody away who is to remove one.
LEMMA StillDoomed ==
    ASSUME IInv, ActorsOK', NEW t, t \in markers' \ late' => t \in markers \ late,
           t \in subscribed => t \in subscribed' \/ ~up' \/ conn' # seenConn'
                               \/ (\E a \in Actors : pc'[a] = "ok"
                                    /\ doing'[a] = [op |-> "unsubscribe", thread |-> t]),
           ~up => ~up' \/ conn' # seenConn', missed => missed',
           conn # seenConn => conn' # seenConn' \/ missed'
                              \/ (\E k \in Resubscribers : pc'[k] = "spawned"),
           \A a \in Actors : pc[a] \in {"spawned", "ok"} => pc'[a] = pc[a] /\ doing'[a] = doing[a]
    PROVE  t \in markers' \ late' => t \in subscribed' \/ Doomed(t)'
<1>1. SUFFICES ASSUME t \in markers \ late PROVE t \in subscribed' \/ Doomed(t)'
  OBVIOUS
<1>2. CASE t \in subscribed
  BY <1>2 DEF Doomed
<1>3. CASE ~up \/ missed \/ conn # seenConn
  BY <1>3 DEF Doomed
<1>4. CASE \E k \in Resubscribers : pc[k] = "spawned"
  BY <1>4, Everyone DEF Doomed
<1>5. CASE \E a \in Actors : pc[a] = "ok" /\ doing[a] = [op |-> "unsubscribe", thread |-> t]
  BY <1>5 DEF Doomed
<1>6. QED
  BY <1>1, <1>2, <1>3, <1>4, <1>5 DEF IInv, Explained, Doomed

\* Nothing that Explained is about changes but what gives more reasons.
LEMMA QuietStep ==
    ASSUME IInv, ActorsOK', UNCHANGED <<subscribed, markers, late, missed, conn, up, seenConn>>,
           \A a \in Actors : pc[a] \in {"spawned", "ok"} => pc'[a] = pc[a] /\ doing'[a] = doing[a]
    PROVE  Explained'
BY StillDoomed DEF Explained

LEMMA FinishExplained ==
    ASSUME IInv, ActorsOK', NEW a \in Actors, Finish(a)
    PROVE  Explained'
<1>1. /\ UNCHANGED <<conn, up, subscribed, seenConn>>
      /\ pc[a] \in Outcomes /\ pc'[a] = "idle"
      /\ \A x \in Actors : x # a => pc'[x] = pc[x] /\ doing'[x] = doing[x]
  BY FinishPeople DEF Finish, link, watch
<1> DEFINE u == doing[a].thread
<1>2. SUFFICES ASSUME NEW t \in markers' \ late' PROVE t \in subscribed' \/ Doomed(t)'
  BY DEF Explained
<1>3. CASE Resumed(a)
  <2>1. /\ doing[a].op = "resume" /\ markers' = markers \cup {u} /\ missed' = missed
        /\ late' = IF u \in subscribed THEN late \ {u} ELSE late \cup {u}
    BY <1>3 DEF Resumed
  <2> HIDE DEF u
  <2>2. CASE t = u
    BY <1>1, <1>2, <2>1, <2>2
  <2>3. CASE t # u
    <3>1. t \in subscribed \/ Doomed(t)
      BY <1>2, <2>1, <2>3 DEF IInv, Explained
    <3>2. \A x \in Actors : doing[x] = [op |-> "unsubscribe", thread |-> t] => x # a
      BY <2>1
    <3>3. \A k \in Resubscribers : pc[k] = "spawned" => k # a /\ k \in Actors
      BY <1>1, Everyone DEF Outcomes
    <3>4. QED
      BY <1>1, <2>1, <3>1, <3>2, <3>3 DEF Doomed
  <2>4. QED
    BY <2>2, <2>3
<1>4. CASE Unsubscribed(a)
  <2>1. markers' = markers \ {u} /\ late' = late \ {u} /\ missed' = missed
    BY <1>4 DEF Unsubscribed
  <2>2. t # u /\ (t \in subscribed \/ Doomed(t))
    BY <1>2, <2>1 DEF IInv, Explained
  <2>3. \A x \in Actors : doing[x] = [op |-> "unsubscribe", thread |-> t] => x # a
    BY <2>2
  <2>4. \A k \in Resubscribers : pc[k] = "spawned" => k # a /\ k \in Actors
    BY <1>1, Everyone DEF Outcomes
  <2>5. QED
    BY <1>1, <2>1, <2>2, <2>3, <2>4 DEF Doomed
<1>5. CASE Missing(a)
  <2>1. UNCHANGED <<markers, late, missed>> /\ pc[a] = "refused"
    BY <1>5 DEF Missing, marking
  <2>2. Explained'
    BY <1>1, <2>1, QuietStep
  <2>3. QED
    BY <1>2, <2>2 DEF Explained
<1>6. CASE Failed(a)
  BY <1>2, <1>6 DEF Failed, ClearMarkers
<1>7. QED
  BY <1>3, <1>4, <1>5, <1>6 DEF Finish

LEMMA AnswerExplained ==
    ASSUME IInv, ActorsOK', Accept \/ Refuse \/ RetryFails \/ (GiveUp /\ serving # NoOne)
    PROVE  Explained'
<1>1. PICK outcome \in Outcomes : Answer(outcome) /\ (Accept => outcome = "ok")
  BY DEF Accept, Refuse, RetryFails, GiveUp, Outcomes
<1>2. serving # NoOne
  BY DEF Accept, Refuse, RetryFails, IInv, WorkerInv
<1>3. /\ serving \in Actors /\ pc[serving] = "queued" /\ doing' = doing
      /\ pc' = [pc EXCEPT ![serving] = outcome]
  BY <1>1, <1>2, AnswerPeople
<1>4. \A a \in Actors : pc'[a] = IF a = serving THEN outcome ELSE pc[a]
  BY <1>3, TypeParts DEF IInv, ActorsOK
<1>5. UNCHANGED <<markers, late, missed, conn, up, seenConn>>
  BY DEF Accept, Refuse, RetryFails, GiveUp, Publish, link, watch, marking
<1>6. CASE subscribed' = subscribed
  BY <1>3, <1>4, <1>5, <1>6, QuietStep
<1>7. CASE Accept
  <2>1. doing[serving] \in DoingType /\ doing[serving].op # "none"
    BY <1>3, TypeParts DEF IInv, ActorsOK, Asking
  <2>2. CASE doing[serving].op = "resume"
    <3>1. subscribed \subseteq subscribed'
      BY <1>7, <2>2 DEF Accept
    <3>2. QED
      BY <1>3, <1>4, <1>5, <3>1, StillDoomed DEF Explained
  <2>3. CASE doing[serving].op = "unsubscribe"
    <3>1. subscribed' = subscribed \ {doing[serving].thread}
      BY <1>7, <2>3 DEF Accept
    <3>2. doing'[serving] = [op |-> "unsubscribe", thread |-> doing[serving].thread]
      BY <1>3, <2>1, <2>3 DEF DoingType
    <3>3. pc'[serving] = "ok"
      BY <1>1, <1>3, <1>4, <1>7
    <3>4. QED
      BY <1>3, <1>4, <1>5, <3>1, <3>2, <3>3, StillDoomed DEF Explained
  <2>4. QED
    BY <2>1, <2>2, <2>3 DEF DoingType
<1>8. QED
  BY <1>6, <1>7 DEF Refuse, RetryFails, GiveUp, link

LEMMA ExplainedStep ==
    ASSUME IInv, ActorsOK', [Next]_vars
    PROVE  Explained'
<1>1. ActorsOK
  BY TypeParts DEF IInv
<1>2. CASE UNCHANGED vars
  BY <1>2, QuietStep DEF vars, link, watch, marking, actors
<1>3. CASE Break \/ AbandonCloses
  <2>1. UNCHANGED <<pc, doing, markers, late, missed, conn, seenConn>>
    BY <1>3 DEF Break, AbandonCloses, actors, marking, watch
  <2>2. (subscribed' = subscribed \/ ~up') /\ (~up => ~up')
    BY <1>3 DEF Break, AbandonCloses
  <2>3. QED
    BY <2>1, <2>2, StillDoomed DEF Explained
<1>4. CASE Abandon \/ \E k \in Resubscribers : Clears(k)
  BY <1>4 DEF Abandon, Clears, ClearMarkers, Explained
<1>5. CASE Take \/ StartReconnect \/ AttemptFails \/ (GiveUp /\ serving = NoOne)
           \/ \E t \in Threads : Open(t) \/ Load(t)
  BY <1>5, QuietStep DEF Take, StartReconnect, AttemptFails, GiveUp, Publish, Open, Load,
                         link, watch, marking, actors
<1>6. CASE AttemptSucceeds
  <2>1. conn' # seenConn'
    BY <1>6, TypeParts DEF AttemptSucceeds, Publish, IInv
  <2>2. QED
    BY <1>6, <2>1 DEF AttemptSucceeds, Publish, Explained, Doomed
<1>7. CASE Accept \/ Refuse \/ RetryFails \/ (GiveUp /\ serving # NoOne)
  BY <1>7, AnswerExplained
<1>8. ASSUME NEW a \in Actors, NEW op, NEW t, Request(a, op, t) PROVE Explained'
  <2>1. /\ pc[a] = "idle" /\ UNCHANGED <<link, watch, marking>>
        /\ \A x \in Actors : x # a => pc'[x] = pc[x] /\ doing'[x] = doing[x]
    BY <1>1, <1>8 DEF Request, ActorsOK
  <2>2. QED
    BY <2>1, QuietStep DEF link, watch, marking
<1>9. CASE \E u \in Users, t \in Threads :
             Unsubscribe(u, t) \/ \E force \in BOOLEAN : Resume(u, t, force)
  BY <1>8, <1>9, Everyone DEF Unsubscribe, Resume
<1>10. CASE \E k \in Resubscribers : Refreshes(k)
  BY <1>8, <1>10, Everyone DEF Refreshes
<1>11. CASE \E a \in Actors : Finish(a)
  BY <1>11, FinishExplained
<1>12. CASE SeesReconnect
  <2>1. PICK k \in Resubscribers : pc[k] = "unborn" /\ pc' = [pc EXCEPT ![k] = "spawned"]
    BY <1>12 DEF SeesReconnect
  <2>2. pc'[k] = "spawned"
    BY <1>1, <2>1, Everyone DEF ActorsOK
  <2>3. QED
    BY <2>2 DEF Explained, Doomed
<1>13. CASE SeesOther
  <2>1. /\ UNCHANGED <<pc, doing, link, markers, late>>
        /\ seenConn' = IF health = "connected" THEN conn ELSE seenConn
        /\ missed' = (missed \/ (health = "connected" /\ conn # seenConn))
    BY <1>13 DEF SeesOther, Reading
  <2>2. missed => missed'
    BY <2>1
  <2>3. conn # seenConn => conn' # seenConn' \/ missed'
    BY <2>1 DEF link
  <2>4. QED
    BY <2>1, <2>2, <2>3, StillDoomed DEF link, Explained
<1>14. CASE \E k \in Resubscribers : Collects(k)
  <2>1. PICK k \in Resubscribers : Collects(k)
    BY <1>14
  <2>2. \A x \in Actors : x # k => pc'[x] = pc[x]
    BY <1>1, <2>1 DEF Collects, ActorsOK
  <2>3. QED
    BY <2>1, <2>2, QuietStep DEF Collects, link, watch, marking
<1>15. QED
  BY <1>2, <1>3, <1>4, <1>5, <1>6, <1>7, <1>9, <1>10, <1>11, <1>12, <1>13, <1>14,
     SubscriptionAssumption
  DEF Next, Worker, Tasks, Environment

-----------------------------------------------------------------------------
(* The theorems.                                                            *)

LEMMA IInvStep == IInv /\ [Next]_vars => IInv'
<1>1. SUFFICES ASSUME IInv, [Next]_vars PROVE IInv'
  OBVIOUS
<1>2. People' /\ Link'
  BY <1>1, PeopleStep, RestStep
<1>3. TypeOK'
  BY <1>2 DEF People, Link, RestOK, ActorsOK, PcType, DoingType, TypeOK
<1>4. Explained'
  BY <1>1, <1>2, ExplainedStep DEF People
<1>5. QED
  BY <1>2, <1>3, <1>4 DEF IInv, People, Link

LEMMA Invariance == Spec => []IInv
BY InitHolds, IInvStep, PTL DEF Spec

\* Every reachable state is well typed, for any threads, users and bounds.
THEOREM TypeCorrect == Spec => []TypeOK
<1>1. IInv => TypeOK
  BY DEF IInv
<1>2. QED
  BY <1>1, Invariance, PTL

\* run_post_reconnect_resubscribe and the markers: at rest every marker stands
\* for a subscription, but for a reconnect the health reader missed and an
\* answer that came late.
THEOREM MarkersExplained == Spec => []StaleMarkersExplained
<1>1. IInv => StaleMarkersExplained
  <2>1. SUFFICES ASSUME IInv, AtRest, ~missed, NEW t \in markers \ late PROVE t \in subscribed
    BY DEF StaleMarkersExplained
  <2>2. \A a \in Actors : pc[a] # "ok" /\ pc[a] # "spawned"
    BY <2>1 DEF AtRest
  <2>3. up /\ conn = seenConn
    BY <2>1 DEF AtRest, IInv, Told
  <2>4. QED
    BY <2>1, <2>2, <2>3, Everyone DEF IInv, Explained, Doomed
<1>2. QED
  BY <1>1, Invariance, PTL
=============================================================================
