------------------------ MODULE ServerSessionProofs ------------------------
(***************************************************************************)
(* Proofs about a session with any runtimes, calls, channel capacity and   *)
(* number of failures: type correctness; that a session whose connections  *)
(* hold is reported Connected; and that the answers of calls are true.     *)
(***************************************************************************)
EXTENDS ServerSession, SequenceTheorems, TLAPS

LEMMA Routes ==
    \A c \in Calls : Route(c) \in Runtimes /\ Kind[c] \in {"request", "notify", "resolve", "reject"}
BY SessionAssumption DEF Route

\* What a worker takes from its channel.
LEMMA HeadOfQueue ==
    ASSUME WorkerOK, NEW r \in Runtimes, queue[r] # <<>>
    PROVE  /\ Tail(queue[r]) \in Seq(Calls \cup {Shutdown})
           /\ Head(queue[r]) \in Calls \cup {Shutdown}
<1>1. queue[r] \in Seq(Calls \cup {Shutdown})
  BY DEF WorkerOK
<1>2. QED
  BY <1>1, HeadTailProperties

LEMMA SendType ==
    ASSUME WorkerOK, CallsOK, NEW r \in Runtimes, NEW c \in Calls, NEW i \in 1..2,
           Send(r, c, i)
    PROVE  /\ pc' \in [Runtimes -> {"idle", "awaiting", "answered", "connecting", "exited"}]
           /\ current' \in [Runtimes -> [call : Calls \cup {NoCall}, copy : 0..2]]
           /\ copies' \in [Calls -> [1..2 -> {"none", "sent", "ran", "lost"}]]
<1>1. Serving(c, i) \in [call : Calls \cup {NoCall}, copy : 0..2]
  BY DEF Serving
<1>2. QED
  BY <1>1 DEF Send, WorkerOK, CallsOK

LEMMA ReplyType ==
    ASSUME WorkerOK, CallsOK, NEW r \in Runtimes, NEW outcome \in {"ok", "failed"},
           Reply(r, outcome)
    PROVE  /\ pc' \in [Runtimes -> {"idle", "awaiting", "answered", "connecting", "exited"}]
           /\ current' \in [Runtimes -> [call : Calls \cup {NoCall}, copy : 0..2]]
           /\ answer' \in [Calls -> {"new", "waiting", "queued", "ok", "failed", "refused"}]
<1>1. None \in [call : Calls \cup {NoCall}, copy : 0..2]
  BY DEF None
<1>2. QED
  BY <1>1 DEF Reply, WorkerOK, CallsOK

LEMMA ExitType ==
    ASSUME WorkerOK, CallsOK, NEW r \in Runtimes, Exit(r)
    PROVE  /\ pc' \in [Runtimes -> {"idle", "awaiting", "answered", "connecting", "exited"}]
           /\ queue' \in [Runtimes -> Seq(Calls \cup {Shutdown})]
           /\ answer' \in [Calls -> {"new", "waiting", "queued", "ok", "failed", "refused"}]
<1>1. <<>> \in Seq(Calls \cup {Shutdown})
  OBVIOUS
<1>2. QED
  BY <1>1 DEF Exit, WorkerOK, CallsOK

LEMMA StartReconnectType ==
    ASSUME WorkerOK, NEW r \in Runtimes, NEW reason \in {"request", "event", "end"},
           StartReconnect(r, reason)
    PROVE  /\ pc' \in [Runtimes -> {"idle", "awaiting", "answered", "connecting", "exited"}]
           /\ why' \in [Runtimes -> {"none", "request", "event", "end"}]
           /\ attempt' \in [Runtimes -> 0..MaxAttempts]
           /\ HealthOK'
<1>1. 1 \in 0..MaxAttempts /\ 1 \in 1..MaxAttempts
  BY SessionAssumption
<1>2. QED
  BY <1>1 DEF StartReconnect, WorkerOK, HealthOK

\* The remaining conjuncts of TypeOK.
StopOK ==
    /\ published \in BOOLEAN /\ breaks \in 0..MaxBreaks
    /\ stop \in {"no", "primary", "runtimes", "done"} /\ toStop \subseteq Runtimes

LEMMA InitType == Init => TypeOK
<1> SUFFICES ASSUME Init PROVE TypeOK
  OBVIOUS
<1>1. 1 \in 1..MaxAttempts /\ 0 \in 0..MaxAttempts /\ 0 \in 0..MaxBreaks
  BY SessionAssumption
<1>2. /\ None \in [call : Calls \cup {NoCall}, copy : 0..2]
      /\ Unsent \in [1..2 -> {"none", "sent", "ran", "lost"}]
      /\ <<>> \in Seq(Calls \cup {Shutdown})
  BY DEF None, Unsent
<1>3. WorkerOK
  BY <1>1, <1>2 DEF Init, WorkerOK
<1>4. CallsOK
  BY <1>2 DEF Init, CallsOK
<1>5. HealthOK
  BY <1>1 DEF Init, HealthOK
<1>6. StopOK
  BY <1>1 DEF Init, StopOK
<1>7. QED
  BY <1>3, <1>4, <1>5, <1>6 DEF TypeOK, StopOK

\* A caller's steps.
LEMMA CallerType ==
    ASSUME TypeOK, NEW c \in Calls, Ask(c) \/ Enqueue(c) \/ Refused(c)
    PROVE  TypeOK'
<1>1. CallsOK'
  BY DEF TypeOK, CallsOK, Ask, Enqueue, Refused
<1>2. WorkerOK'
  <2>1. CASE Enqueue(c)
    <3>1. Route(c) \in Runtimes
      BY Routes
    <3>2. Append(queue[Route(c)], c) \in Seq(Calls \cup {Shutdown})
      BY <3>1 DEF TypeOK, WorkerOK
    <3>3. QED
      BY <2>1, <3>1, <3>2 DEF TypeOK, WorkerOK, Enqueue
  <2>2. CASE Ask(c) \/ Refused(c)
    BY <2>2 DEF TypeOK, WorkerOK, Ask, Refused, worker
  <2>3. QED
    BY <2>1, <2>2
<1>3. HealthOK' /\ StopOK'
  BY DEF TypeOK, HealthOK, StopOK, Ask, Enqueue, Refused
<1>4. QED
  BY <1>1, <1>2, <1>3 DEF TypeOK, StopOK

\* The network and the server.
LEMMA BreakType ==
    ASSUME TypeOK, NEW r \in Runtimes, Break(r)
    PROVE  TypeOK'
<1>1. CallsOK'
  <2>1. PICK gone \in SUBSET OnTheWay(r) :
          copies' = [c \in Calls |-> [i \in 1..2 |->
                       IF <<c, i>> \in gone THEN "lost" ELSE copies[c][i]]]
    BY DEF Break
  <2>2. copies' \in [Calls -> [1..2 -> {"none", "sent", "ran", "lost"}]]
    BY <2>1 DEF TypeOK, CallsOK
  <2>3. answer' = answer
    BY DEF Break
  <2>4. QED
    BY <2>2, <2>3 DEF TypeOK, CallsOK
<1>2. WorkerOK'
  BY DEF Break, TypeOK, WorkerOK, worker
<1>3. HealthOK'
  BY DEF Break, TypeOK, HealthOK
<1>4. breaks' \in 0..MaxBreaks
  BY SessionAssumption DEF Break, TypeOK
<1>5. StopOK'
  BY <1>4 DEF Break, TypeOK, StopOK
<1>6. QED
  BY <1>1, <1>2, <1>3, <1>5 DEF TypeOK, StopOK

LEMMA RunType ==
    ASSUME TypeOK, NEW c \in Calls, NEW i \in 1..2, Run(c, i)
    PROVE  TypeOK'
<1>1. Route(c) \in Runtimes
  BY Routes
<1>2. CallsOK'
  BY DEF Run, TypeOK, CallsOK
<1>3. WorkerOK'
  BY <1>1 DEF Run, TypeOK, WorkerOK
<1>4. HealthOK' /\ StopOK'
  BY DEF Run, TypeOK, HealthOK, StopOK
<1>5. QED
  BY <1>2, <1>3, <1>4 DEF TypeOK, StopOK

LEMMA TakeType ==
    ASSUME TypeOK, NEW r \in Runtimes, TakeRequest(r) \/ TakeOneWay(r) \/ TakeShutdown(r)
    PROVE  TypeOK'
<1>1. queue[r] # <<>>
  BY DEF TakeRequest, TakeOneWay, TakeShutdown
<1>2. /\ Tail(queue[r]) \in Seq(Calls \cup {Shutdown})
      /\ Head(queue[r]) \in Calls \cup {Shutdown}
  BY <1>1, HeadOfQueue DEF TypeOK
<1>3. CASE TakeRequest(r)
  <2>1. Head(queue[r]) \in Calls /\ Send(r, Head(queue[r]), 1)
    BY <1>2, <1>3 DEF TakeRequest
  <2>2. /\ pc' \in [Runtimes -> {"idle", "awaiting", "answered", "connecting", "exited"}]
        /\ current' \in [Runtimes -> [call : Calls \cup {NoCall}, copy : 0..2]]
        /\ copies' \in [Calls -> [1..2 -> {"none", "sent", "ran", "lost"}]]
    BY <2>1, SendType DEF TypeOK
  <2>3. queue' \in [Runtimes -> Seq(Calls \cup {Shutdown})]
    BY <1>2, <1>3 DEF TakeRequest, TypeOK, WorkerOK
  <2>4. UNCHANGED <<why, attempt, link, answer>>
    BY <1>3 DEF TakeRequest
  <2>5. WorkerOK' /\ CallsOK'
    BY <2>2, <2>3, <2>4 DEF TypeOK, WorkerOK, CallsOK
  <2>6. HealthOK' /\ StopOK'
    BY <1>3 DEF TakeRequest, TypeOK, HealthOK, StopOK
  <2>7. QED
    BY <2>5, <2>6 DEF TypeOK, StopOK
<1>4. CASE TakeOneWay(r)
  <2>1. Head(queue[r]) \in Calls
    BY <1>2, <1>4 DEF TakeOneWay
  <2>2. WorkerOK'
    BY <1>2, <1>4 DEF TakeOneWay, TypeOK, WorkerOK
  <2>3. CallsOK'
    BY <1>4, <2>1 DEF TakeOneWay, TypeOK, CallsOK
  <2>4. HealthOK' /\ StopOK'
    BY <1>4 DEF TakeOneWay, TypeOK, HealthOK, StopOK
  <2>5. QED
    BY <2>2, <2>3, <2>4 DEF TypeOK, StopOK
<1>5. CASE TakeShutdown(r)
  <2>1. /\ pc' \in [Runtimes -> {"idle", "awaiting", "answered", "connecting", "exited"}]
        /\ queue' \in [Runtimes -> Seq(Calls \cup {Shutdown})]
        /\ answer' \in [Calls -> {"new", "waiting", "queued", "ok", "failed", "refused"}]
    BY <1>5, ExitType DEF TakeShutdown, TypeOK
  <2>2. link' \in [Runtimes -> {"up", "broken", "ended"}]
        /\ UNCHANGED <<current, why, attempt, copies>>
    BY <1>5 DEF TakeShutdown, TypeOK, WorkerOK
  <2>3. WorkerOK' /\ CallsOK'
    BY <2>1, <2>2 DEF TypeOK, WorkerOK, CallsOK
  <2>4. HealthOK' /\ StopOK'
    BY <1>5 DEF TakeShutdown, TypeOK, HealthOK, StopOK
  <2>5. QED
    BY <2>3, <2>4 DEF TypeOK, StopOK
<1>6. QED
  BY <1>3, <1>4, <1>5

LEMMA ReplyStepType ==
    ASSUME TypeOK, NEW r \in Runtimes, Answered(r) \/ RetryFails(r)
    PROVE  TypeOK'
<1>1. Reply(r, "ok") \/ Reply(r, "failed")
  BY DEF Answered, RetryFails
<1>2. /\ pc' \in [Runtimes -> {"idle", "awaiting", "answered", "connecting", "exited"}]
      /\ current' \in [Runtimes -> [call : Calls \cup {NoCall}, copy : 0..2]]
      /\ answer' \in [Calls -> {"new", "waiting", "queued", "ok", "failed", "refused"}]
  BY <1>1, ReplyType DEF TypeOK
<1>3. UNCHANGED <<queue, why, attempt, link, copies>>
  BY DEF Answered, RetryFails
<1>4. WorkerOK' /\ CallsOK'
  BY <1>2, <1>3 DEF TypeOK, WorkerOK, CallsOK
<1>5. HealthOK' /\ StopOK'
  BY DEF Answered, RetryFails, TypeOK, HealthOK, StopOK
<1>6. QED
  BY <1>4, <1>5 DEF TypeOK, StopOK

LEMMA ReconnectType ==
    ASSUME TypeOK, NEW r \in Runtimes, RequestFails(r) \/ NextEvent(r)
    PROVE  TypeOK'
<1>1. \E reason \in {"request", "event", "end"} : StartReconnect(r, reason)
  BY DEF RequestFails, NextEvent
<1>2. /\ pc' \in [Runtimes -> {"idle", "awaiting", "answered", "connecting", "exited"}]
      /\ why' \in [Runtimes -> {"none", "request", "event", "end"}]
      /\ attempt' \in [Runtimes -> 0..MaxAttempts]
      /\ HealthOK'
  BY <1>1, StartReconnectType DEF TypeOK
<1>3. link' \in [Runtimes -> {"up", "broken", "ended"}] /\ UNCHANGED <<queue, current>>
  BY DEF RequestFails, NextEvent, TypeOK, WorkerOK
<1>4. WorkerOK'
  BY <1>2, <1>3 DEF TypeOK, WorkerOK
<1>5. CallsOK' /\ StopOK'
  BY DEF RequestFails, NextEvent, TypeOK, CallsOK, StopOK
<1>6. QED
  BY <1>2, <1>4, <1>5 DEF TypeOK, StopOK

LEMMA AttemptType ==
    ASSUME TypeOK, NEW r \in Runtimes, AttemptSucceeds(r) \/ AttemptFails(r)
    PROVE  TypeOK'
<1>1. attempt[r] \in 0..MaxAttempts /\ MaxAttempts \in Nat \ {0}
  BY SessionAssumption DEF TypeOK, WorkerOK
<1>2. CASE AttemptSucceeds(r)
  <2>1. current' \in [Runtimes -> [call : Calls \cup {NoCall}, copy : 0..2]]
    <3>1. current[r] \in [call : Calls \cup {NoCall}, copy : 0..2]
      BY DEF TypeOK, WorkerOK
    <3>2. [current[r] EXCEPT !.copy = 2] \in [call : Calls \cup {NoCall}, copy : 0..2]
      BY <3>1
    <3>3. current' = current \/ current' = [current EXCEPT ![r] = [current[r] EXCEPT !.copy = 2]]
      BY <1>2 DEF AttemptSucceeds
    <3>4. QED
      BY <3>2, <3>3 DEF TypeOK, WorkerOK
  <2>2. copies' \in [Calls -> [1..2 -> {"none", "sent", "ran", "lost"}]]
    BY <1>2 DEF AttemptSucceeds, TypeOK, CallsOK
  <2>3. /\ pc' \in [Runtimes -> {"idle", "awaiting", "answered", "connecting", "exited"}]
        /\ why' \in [Runtimes -> {"none", "request", "event", "end"}]
        /\ attempt' \in [Runtimes -> 0..MaxAttempts]
        /\ link' \in [Runtimes -> {"up", "broken", "ended"}]
        /\ UNCHANGED <<queue, answer>>
    <3>1. 0 \in 0..MaxAttempts
      BY <1>1
    <3>2. pc' = [pc EXCEPT ![r] = "awaiting"] \/ pc' = [pc EXCEPT ![r] = "idle"]
      BY <1>2 DEF AttemptSucceeds
    <3>3. /\ link' = [link EXCEPT ![r] = "up"] /\ why' = [why EXCEPT ![r] = "none"]
          /\ attempt' = [attempt EXCEPT ![r] = 0] /\ UNCHANGED <<queue, answer>>
      BY <1>2 DEF AttemptSucceeds
    <3>4. QED
      BY <3>1, <3>2, <3>3 DEF TypeOK, WorkerOK
  <2>4. WorkerOK' /\ CallsOK'
    BY <2>1, <2>2, <2>3 DEF TypeOK, WorkerOK, CallsOK
  <2>5. HealthOK' /\ StopOK'
    BY <1>2 DEF AttemptSucceeds, TypeOK, HealthOK, StopOK
  <2>6. QED
    BY <2>4, <2>5 DEF TypeOK, StopOK
<1>3. CASE AttemptFails(r)
  <2>1. attempt[r] + 1 \in 1..MaxAttempts
    BY <1>1, <1>3 DEF AttemptFails
  <2>2. attempt' \in [Runtimes -> 0..MaxAttempts]
    BY <1>1, <1>3, <2>1 DEF AttemptFails, TypeOK, WorkerOK
  <2>3. UNCHANGED <<queue, pc, current, why, link>>
    BY <1>3 DEF AttemptFails
  <2>4. WorkerOK'
    BY <2>2, <2>3 DEF TypeOK, WorkerOK
  <2>5. HealthOK'
    BY <1>3, <2>1 DEF AttemptFails, HealthOK
  <2>6. CallsOK' /\ StopOK'
    BY <1>3 DEF AttemptFails, TypeOK, CallsOK, StopOK
  <2>7. QED
    BY <2>4, <2>5, <2>6 DEF TypeOK, StopOK
<1>4. QED
  BY <1>2, <1>3

LEMMA GiveUpType ==
    ASSUME TypeOK, NEW r \in Runtimes, GiveUp(r)
    PROVE  TypeOK'
<1>1. /\ why' \in [Runtimes -> {"none", "request", "event", "end"}]
      /\ attempt' \in [Runtimes -> 0..MaxAttempts]
      /\ UNCHANGED <<link, copies>>
  <2>1. 0 \in 0..MaxAttempts
    BY SessionAssumption
  <2>2. QED
    BY <2>1 DEF GiveUp, TypeOK, WorkerOK
<1>2. /\ pc' \in [Runtimes -> {"idle", "awaiting", "answered", "connecting", "exited"}]
      /\ queue' \in [Runtimes -> Seq(Calls \cup {Shutdown})]
      /\ current' \in [Runtimes -> [call : Calls \cup {NoCall}, copy : 0..2]]
      /\ answer' \in [Calls -> {"new", "waiting", "queued", "ok", "failed", "refused"}]
  <2>1. CASE Reply(r, "failed") /\ UNCHANGED queue
    BY <2>1, ReplyType DEF TypeOK, WorkerOK
  <2>2. CASE pc' = [pc EXCEPT ![r] = "idle"] /\ UNCHANGED <<queue, current, answer>>
    BY <2>2 DEF TypeOK, WorkerOK, CallsOK
  <2>3. CASE Exit(r) /\ UNCHANGED current
    BY <2>3, ExitType DEF TypeOK, WorkerOK
  <2>4. QED
    BY <2>1, <2>2, <2>3 DEF GiveUp
<1>3. HealthOK' /\ StopOK'
  BY DEF GiveUp, TypeOK, HealthOK, StopOK
<1>4. QED
  BY <1>1, <1>2, <1>3 DEF TypeOK, WorkerOK, CallsOK, StopOK

\* The steps of disconnect, and those that touch nothing but flags.
LEMMA DisconnectType ==
    ASSUME TypeOK, Publish \/ Disconnecting \/ (\E r \in Runtimes : SkipEvent(r))
    PROVE  TypeOK'
<1>1. CASE \E r \in Runtimes : SkipEvent(r)
  <2>1. WorkerOK'
    BY <1>1 DEF SkipEvent, TypeOK, WorkerOK, worker
  <2>2. CallsOK' /\ HealthOK' /\ StopOK'
    BY <1>1 DEF SkipEvent, TypeOK, CallsOK, HealthOK, StopOK
  <2>3. QED
    BY <2>1, <2>2 DEF TypeOK, StopOK
<1>2. CASE Publish \/ Disconnect \/ Return
  <2>1. WorkerOK' /\ CallsOK'
    BY <1>2 DEF Publish, Disconnect, Return, TypeOK, WorkerOK, CallsOK, worker
  <2>2. HealthOK'
    BY <1>2 DEF Publish, Disconnect, Return, TypeOK, HealthOK
  <2>3. StopOK'
    BY <1>2 DEF Publish, Disconnect, Return, TypeOK, StopOK
  <2>4. QED
    BY <2>1, <2>2, <2>3 DEF TypeOK, StopOK
<1>3. CASE StopPrimary \/ \E r \in Runtimes : StopRuntime(r)
  <2>1. PICK r \in Runtimes : SendShutdown(r)
    BY <1>3, SessionAssumption DEF StopPrimary, StopRuntime
  <2>2. Append(queue[r], Shutdown) \in Seq(Calls \cup {Shutdown})
    BY DEF TypeOK, WorkerOK
  <2>3. WorkerOK'
    BY <2>1, <2>2 DEF SendShutdown, TypeOK, WorkerOK
  <2>4. CallsOK' /\ HealthOK' /\ UNCHANGED <<published, breaks>>
    BY <2>1 DEF SendShutdown, TypeOK, CallsOK, HealthOK
  <2>5. StopOK'
    BY <1>3, <2>4 DEF StopPrimary, StopRuntime, TypeOK, StopOK
  <2>6. QED
    BY <2>3, <2>4, <2>5 DEF TypeOK, StopOK
<1>4. QED
  BY <1>1, <1>2, <1>3 DEF Disconnecting

LEMMA StutterType ==
    ASSUME TypeOK, UNCHANGED vars
    PROVE  TypeOK'
<1>1. WorkerOK' /\ CallsOK'
  BY DEF vars, worker, TypeOK, WorkerOK, CallsOK
<1>2. HealthOK' /\ StopOK'
  BY DEF vars, TypeOK, HealthOK, StopOK
<1>3. QED
  BY <1>1, <1>2 DEF TypeOK, StopOK

LEMMA NextType ==
    ASSUME TypeOK, [Next]_vars
    PROVE  TypeOK'
<1>1. ASSUME NEW r \in Runtimes, Worker(r) PROVE TypeOK'
  BY <1>1, TakeType, ReplyStepType, ReconnectType, AttemptType, GiveUpType DEF Worker
<1>2. ASSUME NEW c \in Calls, Run(c, 1) \/ Run(c, 2) PROVE TypeOK'
  BY <1>2, RunType
<1>3. QED
  BY <1>1, <1>2, CallerType, BreakType, DisconnectType, StutterType DEF Next

\* The state keeps its types, whatever the runtimes, calls and failures.
THEOREM TypeCorrect == Spec => []TypeOK
<1>1. Init => TypeOK
  BY InitType
<1>2. TypeOK /\ [Next]_vars => TypeOK'
  BY NextType
<1>3. QED
  BY <1>1, <1>2, PTL DEF Spec

-----------------------------------------------------------------------------
(* Health.  Every worker writes the one watch value, but never anything     *)
(* other than Connected while its own connection holds.                     *)

ConnectingIsDown == \A r \in Runtimes : pc[r] = "connecting" => link[r] # "up"

HealthInv == ConnectingIsDown /\ HealthyLinksReported

LEMMA InitHealth == Init => HealthInv
BY DEF Init, HealthInv, ConnectingIsDown, HealthyLinksReported

\* A step that leaves alone all that the invariant mentions.
LEMMA HealthUntouched ==
    ASSUME HealthInv, UNCHANGED <<health, published, link, stop>>,
           \A r \in Runtimes : pc'[r] = "connecting" => pc[r] = "connecting"
    PROVE  HealthInv'
BY DEF HealthInv, ConnectingIsDown, HealthyLinksReported

LEMMA WorkerHealth ==
    ASSUME TypeOK, HealthInv, NEW r \in Runtimes, Worker(r)
    PROVE  HealthInv'
<1> USE DEF HealthInv, ConnectingIsDown, HealthyLinksReported
<1>1. pc \in [Runtimes -> {"idle", "awaiting", "answered", "connecting", "exited"}]
  BY DEF TypeOK, WorkerOK
<1>2. link \in [Runtimes -> {"up", "broken", "ended"}]
  BY DEF TypeOK, WorkerOK
<1>3. CASE TakeRequest(r)
  BY <1>1, <1>3, HealthUntouched DEF TakeRequest, Send
<1>4. CASE TakeOneWay(r)
  BY <1>4, HealthUntouched DEF TakeOneWay
<1>5. CASE TakeShutdown(r)
  <2>1. /\ pc' = [pc EXCEPT ![r] = "exited"] /\ link' = [link EXCEPT ![r] = "ended"]
        /\ UNCHANGED <<health, published, stop>>
    BY <1>5 DEF TakeShutdown, Exit
  <2>2. QED
    BY <1>1, <1>2, <2>1
<1>6. CASE Answered(r)
  BY <1>1, <1>6, HealthUntouched DEF Answered, Reply
<1>7. CASE RetryFails(r)
  BY <1>1, <1>7, HealthUntouched DEF RetryFails, Reply
<1>8. CASE RequestFails(r)
  BY <1>1, <1>8 DEF RequestFails, StartReconnect
<1>9. CASE NextEvent(r)
  BY <1>1, <1>2, <1>9 DEF NextEvent, StartReconnect
<1>10. CASE AttemptSucceeds(r)
  <2>1. /\ pc' = [pc EXCEPT ![r] = "awaiting"] \/ pc' = [pc EXCEPT ![r] = "idle"]
        /\ link' = [link EXCEPT ![r] = "up"] /\ health' = Connected
    BY <1>10 DEF AttemptSucceeds
  <2>2. QED
    BY <1>1, <1>2, <2>1
<1>11. CASE AttemptFails(r)
  BY <1>11 DEF AttemptFails
<1>12. CASE GiveUp(r)
  <2>1. \E at \in {"idle", "exited"} : pc' = [pc EXCEPT ![r] = at]
    BY <1>12 DEF GiveUp, Reply, Exit
  <2>2. pc[r] = "connecting" /\ UNCHANGED link
    BY <1>12 DEF GiveUp
  <2>3. QED
    BY <1>1, <2>1, <2>2
<1>13. QED
  BY <1>3, <1>4, <1>5, <1>6, <1>7, <1>8, <1>9, <1>10, <1>11, <1>12 DEF Worker

LEMMA NextHealth ==
    ASSUME TypeOK, HealthInv, [Next]_vars
    PROVE  HealthInv'
<1>1. CASE UNCHANGED vars
  BY <1>1, HealthUntouched DEF vars, worker
<1>2. CASE Publish
  BY <1>2 DEF Publish, worker, HealthInv, ConnectingIsDown, HealthyLinksReported
<1>3. CASE Disconnecting
  <2>1. UNCHANGED <<pc, link>>
    BY <1>3 DEF Disconnecting, Disconnect, StopPrimary, StopRuntime, Return,
                SendShutdown, worker
  <2>2. stop' # "no" \/ UNCHANGED <<health, published, stop>>
    BY <1>3 DEF Disconnecting, Disconnect, StopPrimary, StopRuntime, Return, SendShutdown
  <2>3. QED
    BY <2>1, <2>2 DEF HealthInv, ConnectingIsDown, HealthyLinksReported
<1>4. ASSUME NEW c \in Calls, Ask(c) \/ Enqueue(c) \/ Refused(c)
      PROVE  HealthInv'
  BY <1>4, HealthUntouched DEF Ask, Enqueue, Refused, worker
<1>5. ASSUME NEW c \in Calls, NEW i \in 1..2, Run(c, i)
      PROVE  HealthInv'
  <2>1. UNCHANGED <<health, published, link, stop>>
    BY <1>5 DEF Run
  <2>2. \A r \in Runtimes : pc'[r] = "connecting" => pc[r] = "connecting"
    BY <1>5, Routes DEF Run, TypeOK, WorkerOK
  <2>3. QED
    BY <2>1, <2>2, HealthUntouched
<1>6. ASSUME NEW r \in Runtimes, Break(r) \/ SkipEvent(r)
      PROVE  HealthInv'
  <2>1. UNCHANGED <<pc, health, published, stop>>
    BY <1>6 DEF Break, SkipEvent, worker
  <2>2. /\ link[r] # "broken" => link[r] = "up"
        /\ \E l \in {"broken", "ended"} : link' = [link EXCEPT ![r] = l]
    BY <1>6 DEF Break, SkipEvent
  <2>3. QED
    BY <2>1, <2>2 DEF HealthInv, ConnectingIsDown, HealthyLinksReported, TypeOK, WorkerOK
<1>7. QED
  BY <1>1, <1>2, <1>3, <1>4, <1>5, <1>6, WorkerHealth DEF Next

\* However many workers share it and in whatever order they write it: while
\* every connection of a published session holds, its health is Connected.
THEOREM HealthIsReported == Spec => []HealthyLinksReported
<1>1. Init => HealthInv
  BY InitHealth
<1>2. TypeOK /\ HealthInv /\ [Next]_vars => HealthInv'
  BY NextHealth
<1>3. HealthInv => HealthyLinksReported
  BY DEF HealthInv
<1>4. QED
  BY <1>1, <1>2, <1>3, TypeCorrect, PTL DEF Spec

-----------------------------------------------------------------------------
(* Answers.  A call in a channel has not been sent and is in one channel    *)
(* once; the call a worker serves is in no channel and not answered; so     *)
(* that what a closing channel refuses was never sent.                      *)

Asked == \A c \in Calls : answer[c] \in {"new", "waiting"} => copies[c] = Unsent

QueuedOnce ==
    \A r \in Runtimes : \A i \in 1..Len(queue[r]) :
        queue[r][i] \in Calls =>
            /\ Route(queue[r][i]) = r
            /\ answer[queue[r][i]] = "queued"
            /\ copies[queue[r][i]] = Unsent
            /\ \A j \in 1..Len(queue[r]) : queue[r][j] = queue[r][i] => j = i

Serves(r) == pc[r] \in {"awaiting", "answered"} \/ (pc[r] = "connecting" /\ why[r] = "request")

ServedAlone ==
    \A r \in Runtimes : Serves(r) =>
        /\ current[r].call \in Calls /\ current[r].copy \in 1..2
        /\ Kind[current[r].call] = "request" /\ Route(current[r].call) = r
        /\ answer[current[r].call] = "queued"
        /\ \A i \in 1..Len(queue[r]) : queue[r][i] # current[r].call

HasRun == \A r \in Runtimes :
    pc[r] = "answered" => copies[current[r].call][current[r].copy] = "ran"

AnswerInv == Asked /\ QueuedOnce /\ ServedAlone /\ HasRun /\ AnswersAreTrue

LEMMA InitAnswer == Init => AnswerInv
<1> SUFFICES ASSUME Init PROVE AnswerInv
  OBVIOUS
<1>1. \A c \in Calls : answer[c] = "new" /\ copies[c] = Unsent
  BY DEF Init
<1>2. \A r \in Runtimes : queue[r] = <<>> /\ pc[r] = "idle"
  BY DEF Init
<1>3. QED
  BY <1>1, <1>2 DEF AnswerInv, Asked, QueuedOnce, ServedAlone, Serves, HasRun, AnswersAreTrue

\* Joining a channel.
LEMMA EnqueueAnswer ==
    ASSUME TypeOK, AnswerInv, NEW c \in Calls, Enqueue(c)
    PROVE  AnswerInv'
<1> DEFINE r == Route(c)
<1>1. r \in Runtimes
  BY Routes
<1>2. /\ answer[c] = "waiting" /\ answer' = [answer EXCEPT ![c] = "queued"]
      /\ queue' = [queue EXCEPT ![r] = Append(@, c)]
      /\ UNCHANGED <<pc, current, why, copies>>
  BY DEF Enqueue
<1>3. /\ queue[r] \in Seq(Calls \cup {Shutdown})
      /\ queue \in [Runtimes -> Seq(Calls \cup {Shutdown})]
      /\ answer \in [Calls -> {"new", "waiting", "queued", "ok", "failed", "refused"}]
  BY <1>1 DEF TypeOK, WorkerOK, CallsOK
<1>4. copies[c] = Unsent
  BY <1>2 DEF AnswerInv, Asked
<1>5. \A s \in Runtimes : \A i \in 1..Len(queue[s]) : queue[s][i] # c
  BY <1>2 DEF AnswerInv, QueuedOnce
<1>6. \A s \in Runtimes : Serves(s) => current[s].call # c
  BY <1>2 DEF AnswerInv, ServedAlone
<1> HIDE DEF r
<1>7. /\ Len(queue'[r]) = Len(queue[r]) + 1 /\ Len(queue[r]) \in Nat
      /\ \A i \in 1..Len(queue[r]) : queue'[r][i] = queue[r][i]
      /\ queue'[r][Len(queue[r]) + 1] = c
      /\ \A s \in Runtimes : s # r => queue'[s] = queue[s]
  BY <1>1, <1>2, <1>3
<1>8. \A x \in Calls : answer'[x] = IF x = c THEN "queued" ELSE answer[x]
  BY <1>2, <1>3
<1>9. Asked' /\ HasRun' /\ AnswersAreTrue'
  BY <1>2, <1>8 DEF AnswerInv, Asked, HasRun, AnswersAreTrue
<1>10. QueuedOnce'
  <2>1. SUFFICES ASSUME NEW s \in Runtimes, NEW i \in 1..Len(queue'[s]), queue'[s][i] \in Calls
        PROVE  /\ Route(queue'[s][i]) = s
               /\ answer'[queue'[s][i]] = "queued"
               /\ copies[queue'[s][i]] = Unsent
               /\ \A j \in 1..Len(queue'[s]) : queue'[s][j] = queue'[s][i] => j = i
    BY <1>2 DEF QueuedOnce
  <2>2. CASE s # r
    BY <1>7, <1>8, <2>1, <2>2, SMTT(30) DEF AnswerInv, QueuedOnce
  <2>3. CASE s = r /\ i = Len(queue[r]) + 1
    BY <1>4, <1>5, <1>7, <1>8, <2>1, <2>3 DEF r
  <2>4. CASE s = r /\ i # Len(queue[r]) + 1
    <3>1. i \in 1..Len(queue[r]) /\ queue'[r][i] = queue[r][i] /\ queue[r][i] \in Calls
      BY <1>7, <2>1, <2>4
    <3>2. /\ Route(queue[r][i]) = r /\ answer[queue[r][i]] = "queued"
          /\ copies[queue[r][i]] = Unsent /\ queue[r][i] # c
          /\ \A j \in 1..Len(queue[r]) : queue[r][j] = queue[r][i] => j = i
      BY <1>1, <1>5, <3>1 DEF AnswerInv, QueuedOnce
    <3>3. QED
      BY <1>7, <1>8, <2>4, <3>1, <3>2, SMTT(30)
  <2>5. QED
    BY <2>2, <2>3, <2>4
<1>11. ServedAlone'
  <2>1. SUFFICES ASSUME NEW s \in Runtimes, Serves(s)
        PROVE  /\ current[s].call \in Calls /\ current[s].copy \in 1..2
               /\ Kind[current[s].call] = "request" /\ Route(current[s].call) = s
               /\ answer'[current[s].call] = "queued"
               /\ \A i \in 1..Len(queue'[s]) : queue'[s][i] # current[s].call
    BY <1>2 DEF ServedAlone, Serves
  <2>2. /\ current[s].call \in Calls /\ current[s].copy \in 1..2
        /\ Kind[current[s].call] = "request" /\ Route(current[s].call) = s
        /\ answer[current[s].call] = "queued"
        /\ \A i \in 1..Len(queue[s]) : queue[s][i] # current[s].call
    BY <2>1 DEF AnswerInv, ServedAlone
  <2>3. QED
    BY <1>6, <1>7, <1>8, <2>1, <2>2, SMTT(30)
<1>12. QED
  BY <1>9, <1>10, <1>11 DEF AnswerInv

\* Being asked, and being refused by a channel that is gone.
LEMMA AskAnswer ==
    ASSUME TypeOK, AnswerInv, NEW c \in Calls, Ask(c) \/ Refused(c)
    PROVE  AnswerInv'
<1>1. /\ answer[c] \in {"new", "waiting"}
      /\ \E a \in {"waiting", "refused"} : answer' = [answer EXCEPT ![c] = a]
      /\ UNCHANGED <<queue, pc, current, why, copies>>
  BY DEF Ask, Refused, worker
<1>2. answer \in [Calls -> {"new", "waiting", "queued", "ok", "failed", "refused"}]
  BY DEF TypeOK, CallsOK
<1>3. copies[c] = Unsent
  BY <1>1 DEF AnswerInv, Asked
<1>4. /\ answer'[c] \in {"waiting", "refused"}
      /\ \A x \in Calls : x # c => answer'[x] = answer[x]
  BY <1>1, <1>2
<1>5. Asked' /\ HasRun' /\ AnswersAreTrue'
  BY <1>1, <1>3, <1>4 DEF AnswerInv, Asked, HasRun, AnswersAreTrue
<1>6. QueuedOnce'
  BY <1>1, <1>4 DEF AnswerInv, QueuedOnce
<1>7. ServedAlone'
  BY <1>1, <1>4 DEF AnswerInv, ServedAlone, Serves
<1>8. QED
  BY <1>5, <1>6, <1>7 DEF AnswerInv

\* What is on its way is run or lost; what was not sent or has run stays so.
LEMMA FateAnswer ==
    ASSUME AnswerInv, UNCHANGED <<answer, queue, current, why>>,
           \A r \in Runtimes : pc'[r] = pc[r] \/ (pc[r] = "awaiting" /\ pc'[r] = "answered"),
           \A x \in Calls : copies[x] = Unsent => copies'[x] = Unsent,
           \A x \in Calls, i \in 1..2 : copies[x][i] = "ran" => copies'[x][i] = "ran",
           HasRun'
    PROVE  AnswerInv'
<1>1. Asked' /\ AnswersAreTrue'
  BY DEF AnswerInv, Asked, AnswersAreTrue
<1>2. QueuedOnce'
  BY DEF AnswerInv, QueuedOnce
<1>3. ServedAlone'
  BY DEF AnswerInv, ServedAlone, Serves
<1>4. QED
  BY <1>1, <1>2, <1>3 DEF AnswerInv

LEMMA BreakAnswer ==
    ASSUME TypeOK, AnswerInv, NEW r \in Runtimes, Break(r)
    PROVE  AnswerInv'
<1>1. PICK gone \in SUBSET OnTheWay(r) :
        copies' = [c \in Calls |-> [i \in 1..2 |->
                     IF <<c, i>> \in gone THEN "lost" ELSE copies[c][i]]]
  BY DEF Break
<1>2. UNCHANGED <<answer, queue, current, why, pc>>
  BY DEF Break, worker
<1>3. \A x \in Calls, i \in 1..2 : <<x, i>> \in gone => copies[x][i] = "sent"
  BY DEF OnTheWay
<1>4. \A x \in Calls, i \in 1..2 : copies[x][i] # "sent" => copies'[x][i] = copies[x][i]
  BY <1>1, <1>3
<1>5. \A x \in Calls : copies[x] = Unsent => copies'[x] = Unsent
  <2>1. SUFFICES ASSUME NEW x \in Calls, copies[x] = Unsent PROVE copies'[x] = Unsent
    OBVIOUS
  <2>2. copies'[x] = [i \in 1..2 |-> IF <<x, i>> \in gone THEN "lost" ELSE copies[x][i]]
    BY <1>1
  <2>3. \A i \in 1..2 : <<x, i>> \notin gone
    <3>1. \A i \in 1..2 : Unsent[i] = "none"
      BY DEF Unsent
    <3>2. \A i \in 1..2 : copies[x][i] # "sent"
      BY <2>1, <3>1
    <3>3. QED
      BY <1>3, <3>2
  <2>4. copies'[x] = [i \in 1..2 |-> Unsent[i]]
    BY <2>1, <2>2, <2>3
  <2>5. QED
    BY <2>4 DEF Unsent
<1>6. HasRun'
  <2>1. \A s \in Runtimes : pc[s] = "answered" => current[s].call \in Calls /\ current[s].copy \in 1..2
    BY DEF AnswerInv, ServedAlone, Serves
  <2>2. QED
    BY <1>2, <1>4, <2>1 DEF AnswerInv, HasRun
<1>7. QED
  BY <1>2, <1>4, <1>5, <1>6, FateAnswer

LEMMA RunAnswer ==
    ASSUME TypeOK, AnswerInv, NEW c \in Calls, NEW i \in 1..2, Run(c, i)
    PROVE  AnswerInv'
<1> DEFINE r == Route(c)
<1>1. r \in Runtimes /\ copies \in [Calls -> [1..2 -> {"none", "sent", "ran", "lost"}]]
      /\ pc \in [Runtimes -> {"idle", "awaiting", "answered", "connecting", "exited"}]
  BY Routes DEF TypeOK, CallsOK, WorkerOK
<1>2. /\ copies[c][i] = "sent" /\ copies' = [copies EXCEPT ![c][i] = "ran"]
      /\ UNCHANGED <<answer, queue, current, why>>
  BY DEF Run
<1>3. \/ pc' = pc
      \/ /\ pc[r] = "awaiting" /\ current[r] = Serving(c, i)
         /\ pc' = [pc EXCEPT ![r] = "answered"]
  BY DEF Run
<1> HIDE DEF r
<1>4. \A x \in Calls, j \in 1..2 :
        copies'[x][j] = IF x = c /\ j = i THEN "ran" ELSE copies[x][j]
  BY <1>1, <1>2
<1>5. \A x \in Calls : x # c => copies'[x] = copies[x]
  BY <1>1, <1>2
<1>6. copies[c] # Unsent
  BY <1>2 DEF Unsent
<1>7. HasRun'
  <2>1. SUFFICES ASSUME NEW s \in Runtimes, pc'[s] = "answered"
        PROVE  copies'[current[s].call][current[s].copy] = "ran"
    BY <1>2 DEF HasRun
  <2>2. CASE pc[s] = "answered"
    <3>1. /\ copies[current[s].call][current[s].copy] = "ran"
          /\ current[s].call \in Calls /\ current[s].copy \in 1..2
      BY <2>2 DEF AnswerInv, HasRun, ServedAlone, Serves
    <3>2. QED
      BY <1>4, <3>1
  <2>3. CASE pc[s] # "answered"
    <3>1. current[s] = Serving(c, i)
      BY <1>1, <1>3, <2>1, <2>3
    <3>2. current[s].call = c /\ current[s].copy = i
      BY <3>1 DEF Serving
    <3>3. QED
      BY <1>4, <3>2
  <2>4. QED
    BY <2>2, <2>3
<1>8. \A s \in Runtimes : pc'[s] = pc[s] \/ (pc[s] = "awaiting" /\ pc'[s] = "answered")
  BY <1>1, <1>3
<1>9. QED
  BY <1>2, <1>4, <1>5, <1>6, <1>7, <1>8, FateAnswer

\* Facts about a channel when its head is taken.
LEMMA TailAnswer ==
    ASSUME TypeOK, AnswerInv, NEW r \in Runtimes, queue[r] # <<>>,
           queue' = [queue EXCEPT ![r] = Tail(@)]
    PROVE  /\ \A s \in Runtimes : s # r => queue'[s] = queue[s]
           /\ \A i \in 1..Len(queue'[r]) :
                i + 1 \in 1..Len(queue[r]) /\ queue'[r][i] = queue[r][i + 1]
           /\ \A i \in 1..Len(queue'[r]) :
                Head(queue[r]) \in Calls => queue'[r][i] # Head(queue[r])
           /\ 1 \in 1..Len(queue[r]) /\ Head(queue[r]) = queue[r][1]
<1>1. queue[r] \in Seq(Calls \cup {Shutdown}) /\ queue \in [Runtimes -> Seq(Calls \cup {Shutdown})]
  BY DEF TypeOK, WorkerOK
<1>2. /\ Len(queue[r]) \in Nat /\ Len(queue[r]) > 0
      /\ Len(Tail(queue[r])) = Len(queue[r]) - 1
      /\ \A i \in 1..(Len(queue[r]) - 1) : Tail(queue[r])[i] = queue[r][i + 1]
      /\ Head(queue[r]) = queue[r][1]
  BY <1>1
<1>3. queue'[r] = Tail(queue[r]) /\ \A s \in Runtimes : s # r => queue'[s] = queue[s]
  BY <1>1
<1>4. \A i \in 1..Len(queue'[r]) :
        i + 1 \in 1..Len(queue[r]) /\ i + 1 # 1 /\ queue'[r][i] = queue[r][i + 1]
  <2>1. Len(queue'[r]) = Len(queue[r]) - 1
    BY <1>2, <1>3
  <2>2. TAKE i \in 1..Len(queue'[r])
  <2>3. i \in 1..(Len(queue[r]) - 1)
    BY <2>1
  <2>4. i + 1 \in 1..Len(queue[r]) /\ i + 1 # 1
    BY <1>2, <2>3
  <2>5. QED
    BY <1>2, <1>3, <2>3, <2>4
<1>5. 1 \in 1..Len(queue[r])
  BY <1>2
<1>6. Head(queue[r]) \in Calls =>
        \A j \in 1..Len(queue[r]) : queue[r][j] = queue[r][1] => j = 1
  BY <1>2, <1>5 DEF AnswerInv, QueuedOnce
<1>7. QED
  BY <1>2, <1>3, <1>4, <1>5, <1>6

\* A step of the worker of r about one call c that r serves or is about to.
LEMMA OwnCall ==
    ASSUME AnswerInv, NEW r \in Runtimes, NEW c \in Calls, Route(c) = r
    PROVE  /\ \A s \in Runtimes : s # r /\ Serves(s) => current[s].call # c
           /\ \A s \in Runtimes : s # r => \A i \in 1..Len(queue[s]) : queue[s][i] # c
BY DEF AnswerInv, ServedAlone, QueuedOnce

LEMMA TakeRequestAnswer ==
    ASSUME TypeOK, AnswerInv, NEW r \in Runtimes, TakeRequest(r)
    PROVE  AnswerInv'
<1> DEFINE c == Head(queue[r])
<1>1. /\ pc[r] = "idle" /\ queue[r] # <<>> /\ c # Shutdown /\ Kind[c] = "request"
      /\ queue' = [queue EXCEPT ![r] = Tail(@)] /\ UNCHANGED <<why, answer>>
      /\ pc' = [pc EXCEPT ![r] = "awaiting"]
      /\ current' = [current EXCEPT ![r] = Serving(c, 1)]
      /\ copies' = copies \/ copies' = [copies EXCEPT ![c][1] = "sent"]
  BY DEF TakeRequest, Send
<1>2. c \in Calls
  BY <1>1, HeadOfQueue DEF TypeOK
<1>3. /\ \A s \in Runtimes : s # r => queue'[s] = queue[s]
      /\ \A i \in 1..Len(queue'[r]) :
           i + 1 \in 1..Len(queue[r]) /\ queue'[r][i] = queue[r][i + 1]
      /\ \A i \in 1..Len(queue'[r]) : queue'[r][i] # c
      /\ 1 \in 1..Len(queue[r]) /\ c = queue[r][1]
  BY <1>1, <1>2, TailAnswer
<1>4. Route(c) = r /\ answer[c] = "queued" /\ copies[c] = Unsent
  BY <1>2, <1>3 DEF AnswerInv, QueuedOnce
<1> HIDE DEF c
<1>5. \A x \in Calls : x # c => copies'[x] = copies[x]
  BY <1>1 DEF TypeOK, CallsOK
<1>6. /\ pc'[r] = "awaiting" /\ current'[r].call = c /\ current'[r].copy = 1
      /\ \A s \in Runtimes : s # r => pc'[s] = pc[s] /\ current'[s] = current[s]
  BY <1>1 DEF Serving, TypeOK, WorkerOK
<1>7. Asked' /\ AnswersAreTrue'
  BY <1>1, <1>4, <1>5 DEF AnswerInv, Asked, AnswersAreTrue
<1>8. QueuedOnce'
  <2>1. SUFFICES ASSUME NEW s \in Runtimes, NEW i \in 1..Len(queue'[s]), queue'[s][i] \in Calls
        PROVE  /\ Route(queue'[s][i]) = s
               /\ answer[queue'[s][i]] = "queued"
               /\ copies'[queue'[s][i]] = Unsent
               /\ \A j \in 1..Len(queue'[s]) : queue'[s][j] = queue'[s][i] => j = i
    BY <1>1 DEF QueuedOnce
  <2>2. CASE s # r
    BY <1>2, <1>3, <1>4, <1>5, <2>1, <2>2, OwnCall, SMTT(30) DEF AnswerInv, QueuedOnce
  <2>3. CASE s = r
    <3>1. i + 1 \in 1..Len(queue[r]) /\ queue'[r][i] = queue[r][i + 1] /\ queue'[r][i] # c
      BY <1>3, <2>1, <2>3
    <3>2. /\ Route(queue'[r][i]) = r /\ answer[queue'[r][i]] = "queued"
          /\ copies[queue'[r][i]] = Unsent
          /\ \A j \in 1..Len(queue[r]) : queue[r][j] = queue[r][i + 1] => j = i + 1
      BY <2>1, <2>3, <3>1 DEF AnswerInv, QueuedOnce
    <3>3. \A j \in 1..Len(queue'[r]) : queue'[r][j] = queue'[r][i] => j + 1 = i + 1
      BY <1>3, <3>1, <3>2
    <3>4. QED
      BY <1>5, <2>1, <2>3, <3>1, <3>2, <3>3
  <2>4. QED
    BY <2>2, <2>3
<1>9. ServedAlone'
  <2>1. SUFFICES ASSUME NEW s \in Runtimes, Serves(s)'
        PROVE  /\ current'[s].call \in Calls /\ current'[s].copy \in 1..2
               /\ Kind[current'[s].call] = "request" /\ Route(current'[s].call) = s
               /\ answer[current'[s].call] = "queued"
               /\ \A i \in 1..Len(queue'[s]) : queue'[s][i] # current'[s].call
    BY <1>1 DEF ServedAlone
  <2>2. CASE s = r
    BY <1>1, <1>2, <1>3, <1>4, <1>6, <2>2 DEF c
  <2>3. CASE s # r
    <3>1. Serves(s)
      BY <1>1, <1>6, <2>1, <2>3 DEF Serves
    <3>2. QED
      BY <1>3, <1>6, <2>3, <3>1 DEF AnswerInv, ServedAlone
  <2>4. QED
    BY <2>2, <2>3
<1>10. HasRun'
  <2>1. SUFFICES ASSUME NEW s \in Runtimes, pc'[s] = "answered"
        PROVE  copies'[current'[s].call][current'[s].copy] = "ran"
    BY DEF HasRun
  <2>2. s # r /\ pc[s] = "answered" /\ current'[s] = current[s]
    BY <1>6, <2>1
  <2>3. current[s].call \in Calls /\ current[s].call # c
    BY <1>2, <1>4, <2>2, OwnCall DEF AnswerInv, ServedAlone, Serves
  <2>4. QED
    BY <1>5, <2>2, <2>3 DEF AnswerInv, HasRun
<1>11. QED
  BY <1>7, <1>8, <1>9, <1>10 DEF AnswerInv

\* An answer to the call that r serves.
LEMMA ReplyAnswer ==
    ASSUME TypeOK, AnswerInv, NEW r \in Runtimes, NEW outcome \in {"ok", "failed"},
           Serves(r), outcome = "ok" => pc[r] = "answered", Reply(r, outcome),
           UNCHANGED <<queue, copies>>, \A s \in Runtimes : s # r => why'[s] = why[s]
    PROVE  AnswerInv'
<1> DEFINE c == current[r].call
<1>1. /\ c \in Calls /\ current[r].copy \in 1..2 /\ Route(c) = r /\ answer[c] = "queued"
      /\ \A i \in 1..Len(queue[r]) : queue[r][i] # c
  BY DEF AnswerInv, ServedAlone
<1>2. outcome = "ok" => copies[c][current[r].copy] = "ran"
  BY DEF AnswerInv, HasRun
<1>3. /\ answer' = [answer EXCEPT ![c] = outcome] /\ current' = [current EXCEPT ![r] = None]
      /\ pc' = [pc EXCEPT ![r] = "idle"]
  BY DEF Reply
<1> HIDE DEF c
<1>4. answer'[c] = outcome /\ \A x \in Calls : x # c => answer'[x] = answer[x]
  BY <1>1, <1>3 DEF TypeOK, CallsOK
<1>5. pc'[r] = "idle" /\ \A s \in Runtimes : s # r => pc'[s] = pc[s] /\ current'[s] = current[s]
  BY <1>3 DEF TypeOK, WorkerOK
<1>6. Asked'
  BY <1>4 DEF AnswerInv, Asked
<1>7. AnswersAreTrue'
  BY <1>1, <1>2, <1>4 DEF AnswerInv, AnswersAreTrue
<1>8. QueuedOnce'
  BY <1>1, <1>4, OwnCall DEF AnswerInv, QueuedOnce
<1>9. \A s \in Runtimes : Serves(s)' => s # r /\ Serves(s) /\ current[s].call # c
  BY <1>1, <1>5, OwnCall DEF Serves
<1>10. ServedAlone'
  BY <1>4, <1>5, <1>9 DEF AnswerInv, ServedAlone
<1>11. HasRun'
  BY <1>5 DEF AnswerInv, HasRun
<1>12. QED
  BY <1>6, <1>7, <1>8, <1>10, <1>11 DEF AnswerInv

\* A worker that exits refuses what its channel still holds.
LEMMA ExitAnswer ==
    ASSUME TypeOK, AnswerInv, NEW r \in Runtimes, Exit(r), UNCHANGED <<current, copies>>,
           \A s \in Runtimes : s # r => why'[s] = why[s]
    PROVE  AnswerInv'
<1> DEFINE held(c) == \E i \in 1..Len(queue[r]) : queue[r][i] = c
<1>1. \A c \in Calls : answer'[c] = IF held(c) THEN "refused" ELSE answer[c]
  BY DEF Exit
<1>2. /\ pc'[r] = "exited" /\ \A s \in Runtimes : s # r => pc'[s] = pc[s]
      /\ queue'[r] = <<>> /\ \A s \in Runtimes : s # r => queue'[s] = queue[s]
  BY DEF Exit, TypeOK, WorkerOK
<1>3. \A c \in Calls : held(c) => Route(c) = r /\ copies[c] = Unsent
  BY DEF AnswerInv, QueuedOnce
<1> HIDE DEF held
<1>4. Asked' /\ AnswersAreTrue'
  BY <1>1, <1>3 DEF AnswerInv, Asked, AnswersAreTrue
<1>5. QueuedOnce'
  <2>1. SUFFICES ASSUME NEW s \in Runtimes, NEW i \in 1..Len(queue'[s]), queue'[s][i] \in Calls
        PROVE  /\ Route(queue'[s][i]) = s
               /\ answer'[queue'[s][i]] = "queued"
               /\ copies[queue'[s][i]] = Unsent
               /\ \A j \in 1..Len(queue'[s]) : queue'[s][j] = queue'[s][i] => j = i
    BY DEF QueuedOnce
  <2>2. s # r
    BY <1>2
  <2>3. queue'[s] = queue[s]
    BY <1>2, <2>2
  <2>4. /\ Route(queue[s][i]) = s /\ answer[queue[s][i]] = "queued"
        /\ copies[queue[s][i]] = Unsent
        /\ \A j \in 1..Len(queue[s]) : queue[s][j] = queue[s][i] => j = i
    BY <2>1, <2>3 DEF AnswerInv, QueuedOnce
  <2>5. ~held(queue[s][i])
    BY <1>3, <2>1, <2>2, <2>3, <2>4
  <2>6. QED
    BY <1>1, <2>1, <2>3, <2>4, <2>5
<1>6. \A s \in Runtimes : Serves(s)' => s # r /\ Serves(s)
  BY <1>2 DEF Serves
<1>7. \A s \in Runtimes : s # r /\ Serves(s) => current[s].call \in Calls /\ ~held(current[s].call)
  BY <1>3 DEF AnswerInv, ServedAlone
<1>8. ServedAlone'
  BY <1>1, <1>2, <1>6, <1>7 DEF AnswerInv, ServedAlone
<1>9. HasRun'
  BY <1>2 DEF AnswerInv, HasRun
<1>10. QED
  BY <1>4, <1>5, <1>8, <1>9 DEF AnswerInv

LEMMA TakeOneWayAnswer ==
    ASSUME TypeOK, AnswerInv, NEW r \in Runtimes, TakeOneWay(r)
    PROVE  AnswerInv'
<1> DEFINE c == Head(queue[r])
<1>1. /\ queue[r] # <<>> /\ c # Shutdown /\ Kind[c] # "request"
      /\ queue' = [queue EXCEPT ![r] = Tail(@)] /\ UNCHANGED <<why, pc, current>>
      /\ \E a \in {"ok", "failed"} : answer' = [answer EXCEPT ![c] = a]
      /\ copies' = copies \/ copies' = [copies EXCEPT ![c][1] = "sent"]
  BY DEF TakeOneWay
<1>2. c \in Calls
  BY <1>1, HeadOfQueue DEF TypeOK
<1>3. /\ \A s \in Runtimes : s # r => queue'[s] = queue[s]
      /\ \A i \in 1..Len(queue'[r]) :
           i + 1 \in 1..Len(queue[r]) /\ queue'[r][i] = queue[r][i + 1]
      /\ \A i \in 1..Len(queue'[r]) : queue'[r][i] # c
      /\ 1 \in 1..Len(queue[r]) /\ c = queue[r][1]
  BY <1>1, <1>2, TailAnswer
<1>4. Route(c) = r /\ answer[c] = "queued" /\ copies[c] = Unsent
  BY <1>2, <1>3 DEF AnswerInv, QueuedOnce
<1> HIDE DEF c
<1>5. \A x \in Calls : x # c => copies'[x] = copies[x] /\ answer'[x] = answer[x]
  BY <1>1 DEF TypeOK, CallsOK
<1>6. answer'[c] \in {"ok", "failed"}
  BY <1>1, <1>2 DEF TypeOK, CallsOK
<1>7. Asked' /\ AnswersAreTrue'
  BY <1>1, <1>5, <1>6 DEF AnswerInv, Asked, AnswersAreTrue
<1>8. QueuedOnce'
  <2>1. SUFFICES ASSUME NEW s \in Runtimes, NEW i \in 1..Len(queue'[s]), queue'[s][i] \in Calls
        PROVE  /\ Route(queue'[s][i]) = s
               /\ answer'[queue'[s][i]] = "queued"
               /\ copies'[queue'[s][i]] = Unsent
               /\ \A j \in 1..Len(queue'[s]) : queue'[s][j] = queue'[s][i] => j = i
    BY DEF QueuedOnce
  <2>2. CASE s # r
    BY <1>2, <1>3, <1>4, <1>5, <2>1, <2>2, OwnCall DEF AnswerInv, QueuedOnce
  <2>3. CASE s = r
    <3>1. i + 1 \in 1..Len(queue[r]) /\ queue'[r][i] = queue[r][i + 1] /\ queue'[r][i] # c
      BY <1>3, <2>1, <2>3
    <3>2. /\ Route(queue'[r][i]) = r /\ answer[queue'[r][i]] = "queued"
          /\ copies[queue'[r][i]] = Unsent
          /\ \A j \in 1..Len(queue[r]) : queue[r][j] = queue[r][i + 1] => j = i + 1
      BY <2>1, <2>3, <3>1 DEF AnswerInv, QueuedOnce
    <3>3. \A j \in 1..Len(queue'[r]) : queue'[r][j] = queue'[r][i] => j + 1 = i + 1
      BY <1>3, <3>1, <3>2
    <3>4. QED
      BY <1>5, <2>1, <2>3, <3>1, <3>2, <3>3
  <2>4. QED
    BY <2>2, <2>3
<1>9. \A s \in Runtimes : Serves(s) => current[s].call \in Calls /\ current[s].call # c
  BY <1>1, <1>2, <1>3, <1>4, OwnCall DEF AnswerInv, ServedAlone
<1>10. ServedAlone'
  <2>1. SUFFICES ASSUME NEW s \in Runtimes, Serves(s)
        PROVE  /\ current[s].call \in Calls /\ current[s].copy \in 1..2
               /\ Kind[current[s].call] = "request" /\ Route(current[s].call) = s
               /\ answer'[current[s].call] = "queued"
               /\ \A i \in 1..Len(queue'[s]) : queue'[s][i] # current[s].call
    BY <1>1 DEF ServedAlone, Serves
  <2>2. /\ current[s].call \in Calls /\ current[s].copy \in 1..2
        /\ Kind[current[s].call] = "request" /\ Route(current[s].call) = s
        /\ answer[current[s].call] = "queued"
        /\ \A i \in 1..Len(queue[s]) : queue[s][i] # current[s].call
    BY <2>1 DEF AnswerInv, ServedAlone
  <2>3. \A i \in 1..Len(queue'[s]) : queue'[s][i] # current[s].call
    BY <1>3, <2>2
  <2>4. QED
    BY <1>5, <1>9, <2>1, <2>2, <2>3
<1>11. HasRun'
  BY <1>1, <1>5, <1>9 DEF AnswerInv, HasRun, Serves
<1>12. QED
  BY <1>7, <1>8, <1>10, <1>11 DEF AnswerInv

\* Reconnecting, up to the attempt that succeeds or the last that fails.
LEMMA ReconnectAnswer ==
    ASSUME TypeOK, AnswerInv, NEW r \in Runtimes,
           RequestFails(r) \/ NextEvent(r) \/ AttemptFails(r)
    PROVE  AnswerInv'
<1>1. UNCHANGED <<queue, current, answer, copies>>
  BY DEF RequestFails, NextEvent, AttemptFails
<1>2. \A s \in Runtimes : Serves(s)' => Serves(s)
  BY DEF RequestFails, NextEvent, AttemptFails, StartReconnect, Serves, TypeOK, WorkerOK
<1>3. \A s \in Runtimes : pc'[s] = "answered" => pc[s] = "answered"
  BY DEF RequestFails, NextEvent, AttemptFails, StartReconnect, TypeOK, WorkerOK
<1>4. Asked' /\ AnswersAreTrue' /\ QueuedOnce'
  BY <1>1 DEF AnswerInv, Asked, AnswersAreTrue, QueuedOnce
<1>5. ServedAlone'
  BY <1>1, <1>2 DEF AnswerInv, ServedAlone
<1>6. HasRun'
  BY <1>1, <1>3 DEF AnswerInv, HasRun
<1>7. QED
  BY <1>4, <1>5, <1>6 DEF AnswerInv

LEMMA AttemptAnswer ==
    ASSUME TypeOK, AnswerInv, NEW r \in Runtimes, AttemptSucceeds(r)
    PROVE  AnswerInv'
<1>1. CASE why[r] = "request"
  <2> DEFINE c == current[r].call
  <2>1. /\ pc[r] = "connecting" /\ pc' = [pc EXCEPT ![r] = "awaiting"]
        /\ current' = [current EXCEPT ![r] = [current[r] EXCEPT !.copy = 2]]
        /\ copies' = [copies EXCEPT ![c][2] = "sent"] /\ why' = [why EXCEPT ![r] = "none"]
        /\ UNCHANGED <<queue, answer>>
    BY <1>1 DEF AttemptSucceeds
  <2>2. /\ c \in Calls /\ Kind[c] = "request" /\ Route(c) = r /\ answer[c] = "queued"
        /\ \A i \in 1..Len(queue[r]) : queue[r][i] # c
    BY <1>1, <2>1 DEF AnswerInv, ServedAlone, Serves
  <2>3. current'[r].call = c /\ current'[r].copy = 2
    BY <2>1 DEF TypeOK, WorkerOK
  <2> HIDE DEF c
  <2>4. /\ pc'[r] = "awaiting"
        /\ \A s \in Runtimes : s # r =>
             pc'[s] = pc[s] /\ current'[s] = current[s] /\ why'[s] = why[s]
    BY <2>1 DEF TypeOK, WorkerOK
  <2>5. \A x \in Calls : x # c => copies'[x] = copies[x]
    BY <2>1 DEF TypeOK, CallsOK
  <2>6. Asked' /\ AnswersAreTrue'
    BY <2>1, <2>2, <2>5 DEF AnswerInv, Asked, AnswersAreTrue
  <2>7. \A s \in Runtimes : \A i \in 1..Len(queue[s]) : queue[s][i] # c
    BY <2>2, OwnCall
  <2>8. QueuedOnce'
    BY <2>1, <2>5, <2>7 DEF AnswerInv, QueuedOnce
  <2>9. ServedAlone'
    BY <2>1, <2>2, <2>3, <2>4 DEF AnswerInv, ServedAlone, Serves
  <2>10. HasRun'
    <3>1. SUFFICES ASSUME NEW s \in Runtimes, pc'[s] = "answered"
          PROVE  copies'[current'[s].call][current'[s].copy] = "ran"
      BY DEF HasRun
    <3>2. s # r /\ pc[s] = "answered" /\ current'[s] = current[s]
      BY <2>4, <3>1
    <3>3. current[s].call \in Calls /\ current[s].call # c
      BY <2>2, <3>2, OwnCall DEF AnswerInv, ServedAlone, Serves
    <3>4. QED
      BY <2>5, <3>2, <3>3 DEF AnswerInv, HasRun
  <2>11. QED
    BY <2>6, <2>8, <2>9, <2>10 DEF AnswerInv
<1>2. CASE why[r] # "request"
  <2>1. /\ pc' = [pc EXCEPT ![r] = "idle"] /\ why' = [why EXCEPT ![r] = "none"]
        /\ UNCHANGED <<queue, answer, current, copies>>
    BY <1>2 DEF AttemptSucceeds
  <2>2. \A s \in Runtimes : (Serves(s)' => Serves(s)) /\ (pc'[s] = "answered" => pc[s] = "answered")
    BY <2>1 DEF Serves, TypeOK, WorkerOK
  <2>3. Asked' /\ AnswersAreTrue' /\ QueuedOnce'
    BY <2>1 DEF AnswerInv, Asked, AnswersAreTrue, QueuedOnce
  <2>4. ServedAlone' /\ HasRun'
    BY <2>1, <2>2 DEF AnswerInv, ServedAlone, HasRun
  <2>5. QED
    BY <2>3, <2>4 DEF AnswerInv
<1>3. QED
  BY <1>1, <1>2

LEMMA GiveUpAnswer ==
    ASSUME TypeOK, AnswerInv, NEW r \in Runtimes, GiveUp(r)
    PROVE  AnswerInv'
<1>1. /\ pc[r] = "connecting" /\ why' = [why EXCEPT ![r] = "none"] /\ UNCHANGED copies
      /\ \A s \in Runtimes : s # r => why'[s] = why[s]
  BY DEF GiveUp, TypeOK, WorkerOK
<1>2. CASE why[r] = "request" /\ Reply(r, "failed") /\ UNCHANGED queue
  <2>1. Serves(r)
    BY <1>1, <1>2 DEF Serves
  <2>2. QED
    BY <1>1, <1>2, <2>1, ReplyAnswer
<1>3. CASE pc' = [pc EXCEPT ![r] = "idle"] /\ UNCHANGED <<queue, current, answer>>
  <2>1. \A s \in Runtimes : (Serves(s)' => Serves(s)) /\ (pc'[s] = "answered" => pc[s] = "answered")
    BY <1>1, <1>3 DEF Serves, TypeOK, WorkerOK
  <2>2. Asked' /\ AnswersAreTrue' /\ QueuedOnce'
    BY <1>1, <1>3 DEF AnswerInv, Asked, AnswersAreTrue, QueuedOnce
  <2>3. ServedAlone' /\ HasRun'
    BY <1>1, <1>3, <2>1 DEF AnswerInv, ServedAlone, HasRun
  <2>4. QED
    BY <2>2, <2>3 DEF AnswerInv
<1>4. CASE Exit(r) /\ UNCHANGED current
  BY <1>1, <1>4, ExitAnswer
<1>5. QED
  BY <1>2, <1>3, <1>4 DEF GiveUp

LEMMA WorkerAnswer ==
    ASSUME TypeOK, AnswerInv, NEW r \in Runtimes, Worker(r)
    PROVE  AnswerInv'
<1>1. CASE TakeShutdown(r)
  BY <1>1, ExitAnswer DEF TakeShutdown
<1>2. CASE Answered(r)
  <2>1. Serves(r) /\ pc[r] = "answered" /\ Reply(r, "ok") /\ UNCHANGED <<queue, why, copies>>
    BY <1>2 DEF Answered, Serves
  <2>2. QED
    BY <2>1, ReplyAnswer
<1>3. CASE RetryFails(r)
  <2>1. Serves(r) /\ Reply(r, "failed") /\ UNCHANGED <<queue, why, copies>>
    BY <1>3 DEF RetryFails, Serves
  <2>2. QED
    BY <2>1, ReplyAnswer
<1>4. QED
  BY <1>1, <1>2, <1>3, TakeRequestAnswer, TakeOneWayAnswer, ReconnectAnswer,
     AttemptAnswer, GiveUpAnswer DEF Worker

LEMMA NextAnswer ==
    ASSUME TypeOK, AnswerInv, [Next]_vars
    PROVE  AnswerInv'
<1>1. ASSUME UNCHANGED <<queue, pc, current, why, answer, copies>> PROVE AnswerInv'
  BY <1>1 DEF AnswerInv, Asked, AnswersAreTrue, QueuedOnce, ServedAlone, Serves, HasRun
<1>2. CASE UNCHANGED vars \/ Publish \/ Disconnect \/ Return \/ (\E r \in Runtimes : SkipEvent(r))
  BY <1>1, <1>2 DEF vars, worker, Publish, Disconnect, Return, SkipEvent
<1>3. ASSUME NEW r \in Runtimes, SendShutdown(r) PROVE AnswerInv'
  <2>1. UNCHANGED <<pc, current, why, answer, copies>>
    BY <1>3 DEF SendShutdown
  <2>2. /\ queue[r] \in Seq(Calls \cup {Shutdown})
        /\ queue \in [Runtimes -> Seq(Calls \cup {Shutdown})]
    BY DEF TypeOK, WorkerOK
  <2>3. \A s \in Runtimes : \A i \in 1..Len(queue'[s]) :
          queue'[s][i] \in Calls => i \in 1..Len(queue[s]) /\ queue'[s][i] = queue[s][i]
    <3>1. CASE queue' = queue
      BY <3>1
    <3>2. CASE queue' = [queue EXCEPT ![r] = Append(@, Shutdown)]
      <4>1. TAKE s \in Runtimes
      <4>2. CASE s = r
        <5>1. queue'[r] = Append(queue[r], Shutdown)
          BY <2>2, <3>2
        <5>2. Len(queue'[r]) = Len(queue[r]) + 1 /\ Len(queue[r]) \in Nat
          BY <2>2, <5>1
        <5>3. \A i \in 1..Len(queue[r]) : queue'[r][i] = queue[r][i]
          BY <2>2, <5>1
        <5>4. queue'[r][Len(queue[r]) + 1] = Shutdown
          BY <2>2, <5>1
        <5>5. Shutdown \notin Calls
          BY SessionAssumption
        <5>6. \A i \in 1..Len(queue'[r]) : i \in 1..Len(queue[r]) \/ i = Len(queue[r]) + 1
          BY <5>2
        <5>7. QED
          BY <4>2, <5>3, <5>4, <5>5, <5>6
      <4>3. CASE s # r
        <5>1. queue'[s] = queue[s]
          BY <2>2, <3>2, <4>3
        <5>2. QED
          BY <5>1
      <4>4. QED
        BY <4>2, <4>3
    <3>3. QED
      BY <1>3, <3>1, <3>2 DEF SendShutdown
  <2>4. Asked' /\ AnswersAreTrue' /\ HasRun'
    BY <2>1 DEF AnswerInv, Asked, AnswersAreTrue, HasRun
  <2>5. QueuedOnce'
    BY <2>1, <2>3 DEF AnswerInv, QueuedOnce
  <2>6. ServedAlone'
    BY <2>1, <2>3 DEF AnswerInv, ServedAlone, Serves
  <2>7. QED
    BY <2>4, <2>5, <2>6 DEF AnswerInv
<1>4. CASE StopPrimary \/ \E r \in Runtimes : StopRuntime(r)
  BY <1>3, <1>4, SessionAssumption DEF StopPrimary, StopRuntime
<1>5. QED
  BY <1>2, <1>4, EnqueueAnswer, AskAnswer, BreakAnswer, RunAnswer, WorkerAnswer
  DEF Next, Disconnecting

\* A request answered ok has been run by the server; a call refused with
\* Disconnected was never sent, not even before its worker exited.
THEOREM AnswersCanBeTrusted == Spec => []AnswersAreTrue
<1>1. Init => AnswerInv
  BY InitAnswer
<1>2. TypeOK /\ AnswerInv /\ [Next]_vars => AnswerInv'
  BY NextAnswer
<1>3. AnswerInv => AnswersAreTrue
  BY DEF AnswerInv
<1>4. QED
  BY <1>1, <1>2, <1>3, TypeCorrect, PTL DEF Spec
-----------------------------------------------------------------------------
(* CallContract, with the copies of a call that ran for its runs.  That a   *)
(* run is never taken back needs one fact more: the retry of a request is   *)
(* not sent before its first send has failed.                               *)

RetryOnce ==
    \A r \in Runtimes : Serves(r) =>
        /\ current[r].copy = 1 => copies[current[r].call][2] = "none"
        /\ pc[r] = "connecting" => current[r].copy = 1

LEMMA InitRetry == Init => RetryOnce
BY DEF Init, RetryOnce, Serves

\* The steps that leave what is served alone, or end it.
LEMMA SameRetry ==
    ASSUME TypeOK, AnswerInv, RetryOnce, UNCHANGED copies,
           \A s \in Runtimes : Serves(s)' =>
             /\ Serves(s) /\ current'[s] = current[s]
             /\ pc'[s] = "connecting" => pc[s] = "connecting" \/ current[s].copy = 1
    PROVE  RetryOnce'
BY DEF RetryOnce

\* The steps of other tasks than the workers.
LEMMA OutsideRetry ==
    ASSUME TypeOK, AnswerInv, RetryOnce, UNCHANGED <<current, why>>,
           \A s \in Runtimes : pc'[s] = pc[s] \/ (pc[s] = "awaiting" /\ pc'[s] = "answered"),
           \A x \in Calls : copies[x][2] = "none" => copies'[x][2] = "none"
    PROVE  RetryOnce'
<1>1. \A s \in Runtimes : Serves(s)' =>
        Serves(s) /\ current[s].call \in Calls /\ (pc'[s] = "connecting" => pc[s] = "connecting")
  BY DEF Serves, AnswerInv, ServedAlone
<1>2. QED
  BY <1>1 DEF RetryOnce

LEMMA TakeRetry ==
    ASSUME TypeOK, AnswerInv, RetryOnce, NEW r \in Runtimes, TakeRequest(r) \/ TakeOneWay(r)
    PROVE  RetryOnce'
<1> DEFINE c == Head(queue[r])
<1>1. /\ pc[r] = "idle" /\ queue[r] # <<>> /\ c # Shutdown /\ why' = why
      /\ copies' = copies \/ copies' = [copies EXCEPT ![c][1] = "sent"]
      /\ queue' = [queue EXCEPT ![r] = Tail(@)]
  BY DEF TakeRequest, TakeOneWay, Send
<1>2. c \in Calls
  BY <1>1, HeadOfQueue DEF TypeOK
<1>3. copies[c] = Unsent
  BY <1>1, <1>2, TailAnswer DEF AnswerInv, QueuedOnce
<1>4. copies[c][2] = "none"
  BY <1>3 DEF Unsent
<1>5. /\ \/ pc' = pc /\ current' = current
         \/ /\ pc' = [pc EXCEPT ![r] = "awaiting"]
            /\ current' = [current EXCEPT ![r] = Serving(c, 1)]
  BY DEF TakeRequest, TakeOneWay, Send
<1> HIDE DEF c
<1>6. \A x \in Calls : copies'[x][2] = copies[x][2]
  BY <1>1, <1>2 DEF TypeOK, CallsOK
<1>7. SUFFICES ASSUME NEW s \in Runtimes, Serves(s)'
      PROVE  /\ current'[s].copy = 1 => copies'[current'[s].call][2] = "none"
             /\ pc'[s] = "connecting" => current'[s].copy = 1
  BY DEF RetryOnce
<1>8. CASE pc'[s] = pc[s] /\ current'[s] = current[s]
  <2>1. Serves(s) /\ current[s].call \in Calls
    BY <1>1, <1>7, <1>8 DEF Serves, AnswerInv, ServedAlone
  <2>2. QED
    BY <1>6, <1>8, <2>1 DEF RetryOnce
<1>9. CASE pc'[s] = "awaiting" /\ current'[s] = Serving(c, 1)
  BY <1>2, <1>4, <1>6, <1>9 DEF Serving
<1>10. QED
  BY <1>5, <1>8, <1>9 DEF TypeOK, WorkerOK

LEMMA AttemptRetry ==
    ASSUME TypeOK, AnswerInv, RetryOnce, NEW r \in Runtimes, AttemptSucceeds(r)
    PROVE  RetryOnce'
<1>1. CASE why[r] # "request"
  <2>1. /\ pc' = [pc EXCEPT ![r] = "idle"] /\ why' = [why EXCEPT ![r] = "none"]
        /\ UNCHANGED <<current, copies>>
    BY <1>1 DEF AttemptSucceeds
  <2>2. QED
    BY <2>1, SameRetry DEF Serves, TypeOK, WorkerOK
<1>2. CASE why[r] = "request"
  <2> DEFINE c == current[r].call
  <2>1. /\ pc[r] = "connecting" /\ pc' = [pc EXCEPT ![r] = "awaiting"]
        /\ current' = [current EXCEPT ![r] = [current[r] EXCEPT !.copy = 2]]
        /\ copies' = [copies EXCEPT ![c][2] = "sent"] /\ why' = [why EXCEPT ![r] = "none"]
    BY <1>2 DEF AttemptSucceeds
  <2>2. c \in Calls /\ Route(c) = r
    BY <1>2, <2>1 DEF AnswerInv, ServedAlone, Serves
  <2>3. current'[r].copy = 2 /\ pc'[r] = "awaiting"
    BY <2>1 DEF TypeOK, WorkerOK
  <2> HIDE DEF c
  <2>4. \A s \in Runtimes : s # r => pc'[s] = pc[s] /\ current'[s] = current[s] /\ why'[s] = why[s]
    BY <2>1 DEF TypeOK, WorkerOK
  <2>5. \A x \in Calls : x # c => copies'[x] = copies[x]
    BY <2>1 DEF TypeOK, CallsOK
  <2>6. SUFFICES ASSUME NEW s \in Runtimes, Serves(s)', s # r
        PROVE  /\ current'[s].copy = 1 => copies'[current'[s].call][2] = "none"
               /\ pc'[s] = "connecting" => current'[s].copy = 1
    BY <2>3 DEF RetryOnce
  <2>7. Serves(s) /\ current[s].call \in Calls /\ current[s].call # c
    BY <2>2, <2>4, <2>6, OwnCall DEF AnswerInv, ServedAlone, Serves
  <2>8. QED
    BY <2>4, <2>5, <2>6, <2>7 DEF RetryOnce
<1>3. QED
  BY <1>1, <1>2

LEMMA WorkerRetry ==
    ASSUME TypeOK, AnswerInv, RetryOnce, NEW r \in Runtimes, Worker(r)
    PROVE  RetryOnce'
<1>1. CASE TakeRequest(r) \/ TakeOneWay(r)
  BY <1>1, TakeRetry
<1>2. CASE AttemptSucceeds(r)
  BY <1>2, AttemptRetry
<1>3. CASE TakeShutdown(r)
  BY <1>3, SameRetry DEF TakeShutdown, Exit, Serves, TypeOK, WorkerOK
<1>4. CASE Answered(r) \/ RetryFails(r)
  BY <1>4, SameRetry DEF Answered, RetryFails, Reply, Serves, TypeOK, WorkerOK
<1>5. CASE RequestFails(r) \/ NextEvent(r) \/ AttemptFails(r)
  BY <1>5, SameRetry DEF RequestFails, NextEvent, AttemptFails, StartReconnect, Serves, TypeOK,
                         WorkerOK
<1>6. CASE GiveUp(r)
  BY <1>6, SameRetry DEF GiveUp, Reply, Exit, Serves, TypeOK, WorkerOK
<1>7. QED
  BY <1>1, <1>2, <1>3, <1>4, <1>5, <1>6 DEF Worker

LEMMA NextRetry ==
    ASSUME TypeOK, AnswerInv, RetryOnce, [Next]_vars
    PROVE  RetryOnce'
<1>1. CASE UNCHANGED <<pc, current, why, copies>>
  BY <1>1, OutsideRetry
<1>2. CASE UNCHANGED vars \/ Publish \/ Disconnecting \/ \E r \in Runtimes : SkipEvent(r)
  BY <1>1, <1>2 DEF vars, worker, Publish, Disconnecting, Disconnect, StopPrimary, StopRuntime,
                    SendShutdown, Return, SkipEvent
<1>3. CASE \E c \in Calls : Ask(c) \/ Enqueue(c) \/ Refused(c)
  BY <1>1, <1>3 DEF Ask, Enqueue, Refused, worker
<1>4. ASSUME NEW c \in Calls, NEW i \in 1..2, Run(c, i) PROVE RetryOnce'
  <2>1. /\ UNCHANGED <<current, why>> /\ copies[c][i] = "sent"
        /\ copies' = [copies EXCEPT ![c][i] = "ran"]
    BY <1>4 DEF Run
  <2>2. \A s \in Runtimes : pc'[s] = pc[s] \/ (pc[s] = "awaiting" /\ pc'[s] = "answered")
    BY <1>4, Routes DEF Run, TypeOK, WorkerOK
  <2>3. \A x \in Calls : copies[x][2] = "none" => copies'[x][2] = "none"
    BY <2>1 DEF TypeOK, CallsOK
  <2>4. QED
    BY <2>1, <2>2, <2>3, OutsideRetry
<1>5. ASSUME NEW r \in Runtimes, Break(r) PROVE RetryOnce'
  <2>1. UNCHANGED <<pc, current, why>>
    BY <1>5 DEF Break, worker
  <2>2. \A x \in Calls : copies[x][2] = "none" => copies'[x][2] = "none"
    BY <1>5 DEF Break, OnTheWay
  <2>3. QED
    BY <2>1, <2>2, OutsideRetry
<1>6. QED
  BY <1>2, <1>3, <1>4, <1>5, WorkerRetry DEF Next

RunsOf(fates) == IF fates = <<"ran", "ran">> THEN 2
                 ELSE IF \E i \in 1..2 : fates[i] = "ran" THEN 1 ELSE 0

Runs == [c \in Calls |-> RunsOf(copies[c])]

\* The runs of a call, from the fate of its two copies.
LEMMA RunsCount ==
    ASSUME NEW fates \in [1..2 -> {"none", "sent", "ran", "lost"}]
    PROVE  /\ RunsOf(fates) \in 0..2
           /\ RunsOf(fates) = 2 <=> (fates[1] = "ran" /\ fates[2] = "ran")
           /\ RunsOf(fates) = 0 <=> (fates[1] # "ran" /\ fates[2] # "ran")
<1>1. fates = <<"ran", "ran">> <=> (fates[1] = "ran" /\ fates[2] = "ran")
  <2>1. ASSUME fates[1] = "ran", fates[2] = "ran" PROVE fates = <<"ran", "ran">>
    <3>1. fates = [i \in 1..2 |-> "ran"]
      BY <2>1
    <3>2. QED
      BY <3>1
  <2>2. QED
    BY <2>1
<1>2. QED
  BY <1>1 DEF RunsOf

\* A step that runs nothing and takes no run back.
LEMMA SameRuns ==
    ASSUME CallsOK, CallsOK',
           \A c \in Calls, i \in 1..2 : (copies'[c][i] = "ran") <=> (copies[c][i] = "ran")
    PROVE  Runs' = Runs
<1>1. ASSUME NEW c \in Calls PROVE RunsOf(copies'[c]) = RunsOf(copies[c])
  <2>1. /\ copies[c] \in [1..2 -> {"none", "sent", "ran", "lost"}]
        /\ copies'[c] \in [1..2 -> {"none", "sent", "ran", "lost"}]
    BY DEF CallsOK
  <2>2. (copies'[c][1] = "ran" <=> copies[c][1] = "ran") /\ (copies'[c][2] = "ran" <=> copies[c][2] = "ran")
    OBVIOUS
  <2>3. QED
    BY <2>1, <2>2, RunsCount
<1>2. QED
  BY <1>1 DEF Runs

\* The steps the contract sees.

\* Those who are told Disconnected: none of them has been run.
LEMMA RefuseStep ==
    ASSUME TypeOK, AnswerInv, NEW cs \in SUBSET Calls, UNCHANGED copies,
           \A c \in cs : answer[c] \in {"waiting", "queued"} /\ copies[c] = Unsent,
           answer' = [c \in Calls |-> IF c \in cs THEN "refused" ELSE answer[c]]
    PROVE  Contract!Refuse
<1>1. \A c \in cs : Runs[c] = 0
  <2>1. TAKE c \in cs
  <2>2. copies[c][1] = "none" /\ copies[c][2] = "none"
    BY DEF Unsent
  <2>3. QED
    BY <2>2, RunsCount DEF Runs, TypeOK, CallsOK
<1>2. cs \in SUBSET {c \in Calls : answer[c] \in {"waiting", "queued"} /\ Runs[c] = 0}
  BY <1>1
<1>3. QED
  BY <1>2 DEF Contract!Refuse, Runs, RunsOf

LEMMA RunStep ==
    ASSUME TypeOK, AnswerInv, NEW c \in Calls, NEW i \in 1..2, Run(c, i)
    PROVE  Contract!Run(c)
<1>1. /\ copies[c][i] = "sent" /\ copies' = [copies EXCEPT ![c][i] = "ran"]
      /\ answer' = answer
  BY DEF Run
<1>2. /\ copies \in [Calls -> [1..2 -> {"none", "sent", "ran", "lost"}]]
      /\ answer[c] \in {"new", "waiting", "queued", "ok", "failed", "refused"}
  BY DEF TypeOK, CallsOK
<1>3. answer[c] \in {"queued", "ok", "failed"}
  <2>1. copies[c] # Unsent
    BY <1>1 DEF Unsent
  <2>2. QED
    BY <1>2, <2>1 DEF AnswerInv, Asked, AnswersAreTrue
<1>4. /\ copies[c] \in [1..2 -> {"none", "sent", "ran", "lost"}]
      /\ copies'[c] \in [1..2 -> {"none", "sent", "ran", "lost"}]
      /\ copies'[c][i] = "ran" /\ \A j \in 1..2 : j # i => copies'[c][j] = copies[c][j]
  BY <1>1, <1>2
<1>5. RunsOf(copies[c]) < 2 /\ RunsOf(copies'[c]) = RunsOf(copies[c]) + 1
  <2>1. i = 1 \/ i = 2
    OBVIOUS
  <2>2. QED
    BY <1>1, <1>4, <2>1, RunsCount
<1>6. Runs' = [Runs EXCEPT ![c] = @ + 1]
  <2>1. \A x \in Calls : x # c => copies'[x] = copies[x]
    BY <1>1, <1>2
  <2>2. QED
    BY <1>5, <2>1 DEF Runs
<1>7. QED
  BY <1>1, <1>3, <1>5, <1>6 DEF Contract!Run, Runs, RunsOf

\* The answer to the call a worker serves.
LEMMA ReplyStep ==
    ASSUME TypeOK, AnswerInv, NEW r \in Runtimes, NEW outcome \in {"ok", "failed"},
           Serves(r), outcome = "ok" => pc[r] = "answered", Reply(r, outcome), UNCHANGED copies
    PROVE  \E c \in Calls : Contract!Ok(c) \/ Contract!Fail(c)
<1> DEFINE c == current[r].call
<1>1. /\ c \in Calls /\ current[r].copy \in 1..2 /\ answer[c] = "queued"
      /\ answer' = [answer EXCEPT ![c] = outcome]
  BY DEF AnswerInv, ServedAlone, Reply
<1>2. outcome = "ok" => copies[c][current[r].copy] = "ran"
  BY DEF AnswerInv, HasRun
<1>3. outcome = "ok" => Runs[c] > 0
  <2>1. copies[c] \in [1..2 -> {"none", "sent", "ran", "lost"}]
    BY <1>1 DEF TypeOK, CallsOK
  <2>2. QED
    BY <1>1, <1>2, <2>1, RunsCount DEF Runs
<1> HIDE DEF c
<1>4. CASE outcome = "ok"
  BY <1>1, <1>3, <1>4 DEF Contract!Ok, Runs, RunsOf
<1>5. CASE outcome = "failed"
  BY <1>1, <1>5 DEF Contract!Fail, Runs, RunsOf
<1>6. QED
  BY <1>1, <1>4, <1>5

\* A notification is sent or fails; it has not been run yet.
LEMMA OneWayStep ==
    ASSUME TypeOK, TypeOK', AnswerInv, NEW r \in Runtimes, TakeOneWay(r)
    PROVE  \E c \in Calls : Contract!Ok(c) \/ Contract!Fail(c)
<1> DEFINE c == Head(queue[r])
<1>1. /\ queue[r] # <<>> /\ c # Shutdown /\ Kind[c] # "request"
      /\ queue' = [queue EXCEPT ![r] = Tail(@)]
      /\ answer' = [answer EXCEPT ![c] = "ok"] \/ answer' = [answer EXCEPT ![c] = "failed"]
      /\ copies' = copies \/ copies' = [copies EXCEPT ![c][1] = "sent"]
  BY DEF TakeOneWay
<1>2. c \in Calls
  BY <1>1, HeadOfQueue DEF TypeOK
<1>3. answer[c] = "queued" /\ copies[c] = Unsent
  BY <1>1, <1>2, TailAnswer DEF AnswerInv, QueuedOnce
<1>4. copies[c][1] = "none"
  BY <1>3 DEF Unsent
<1> HIDE DEF c
<1>5. Runs' = Runs
  BY <1>1, <1>2, <1>4, SameRuns, SMTT(30) DEF TypeOK, CallsOK
<1>6. CASE answer' = [answer EXCEPT ![c] = "ok"]
  BY <1>1, <1>2, <1>3, <1>5, <1>6 DEF Contract!Ok, Runs, RunsOf
<1>7. CASE answer' = [answer EXCEPT ![c] = "failed"]
  BY <1>2, <1>3, <1>5, <1>7 DEF Contract!Fail, Runs, RunsOf
<1>8. QED
  BY <1>1, <1>2, <1>6, <1>7

LEMMA ExitStep ==
    ASSUME TypeOK, AnswerInv, NEW r \in Runtimes, Exit(r), UNCHANGED copies
    PROVE  Contract!Refuse
<1> DEFINE cs == {c \in Calls : \E i \in 1..Len(queue[r]) : queue[r][i] = c}
<1>1. \A c \in cs : answer[c] = "queued" /\ copies[c] = Unsent
  BY DEF AnswerInv, QueuedOnce
<1>2. answer' = [c \in Calls |-> IF c \in cs THEN "refused" ELSE answer[c]]
  BY DEF Exit
<1>3. QED
  BY <1>1, <1>2, RefuseStep

\* The steps of a worker that no caller sees.
LEMMA HiddenStep ==
    ASSUME TypeOK, TypeOK', AnswerInv, RetryOnce, NEW r \in Runtimes,
           TakeRequest(r) \/ AttemptSucceeds(r)
    PROVE  UNCHANGED <<answer, Runs>>
<1>1. CASE TakeRequest(r)
  <2> DEFINE c == Head(queue[r])
  <2>1. /\ queue[r] # <<>> /\ c # Shutdown /\ answer' = answer
        /\ queue' = [queue EXCEPT ![r] = Tail(@)]
        /\ copies' = copies \/ copies' = [copies EXCEPT ![c][1] = "sent"]
    BY <1>1 DEF TakeRequest, Send
  <2>2. c \in Calls
    BY <2>1, HeadOfQueue DEF TypeOK
  <2>3. copies[c] = Unsent
    BY <2>1, <2>2, TailAnswer DEF AnswerInv, QueuedOnce
  <2>4. copies[c][1] = "none"
    BY <2>3 DEF Unsent
  <2> HIDE DEF c
  <2>5. QED
    BY <2>1, <2>2, <2>4, SameRuns DEF TypeOK, CallsOK
<1>2. CASE AttemptSucceeds(r) /\ why[r] # "request"
  BY <1>2, SameRuns DEF AttemptSucceeds, TypeOK
<1>3. CASE AttemptSucceeds(r) /\ why[r] = "request"
  <2> DEFINE c == current[r].call
  <2>1. /\ answer' = answer /\ copies' = [copies EXCEPT ![c][2] = "sent"]
        /\ c \in Calls /\ copies[c][2] = "none"
    BY <1>3 DEF AttemptSucceeds, AnswerInv, ServedAlone, Serves, RetryOnce
  <2> HIDE DEF c
  <2>2. QED
    BY <2>1, SameRuns DEF TypeOK, CallsOK
<1>4. QED
  BY <1>1, <1>2, <1>3

LEMMA WorkerStep ==
    ASSUME TypeOK, TypeOK', AnswerInv, RetryOnce, NEW r \in Runtimes, Worker(r)
    PROVE  [Contract!Next]_<<answer, Runs>>
<1>1. CASE Answered(r) \/ RetryFails(r)
  <2>1. \E c \in Calls : Contract!Ok(c) \/ Contract!Fail(c)
    BY <1>1, ReplyStep DEF Answered, RetryFails, Serves
  <2>2. QED
    BY <2>1 DEF Contract!Next
<1>2. CASE TakeOneWay(r)
  BY <1>2, OneWayStep DEF Contract!Next
<1>3. CASE TakeShutdown(r)
  BY <1>3, ExitStep DEF TakeShutdown, Contract!Next
<1>4. CASE TakeRequest(r) \/ AttemptSucceeds(r)
  BY <1>4, HiddenStep
<1>5. CASE RequestFails(r) \/ NextEvent(r) \/ AttemptFails(r)
  BY <1>5 DEF RequestFails, NextEvent, AttemptFails, Runs
<1>6. CASE GiveUp(r)
  <2>1. CASE why[r] = "request" /\ Reply(r, "failed")
    <3>1. \E c \in Calls : Contract!Ok(c) \/ Contract!Fail(c)
      BY <1>6, <2>1, ReplyStep DEF GiveUp, Serves
    <3>2. QED
      BY <3>1 DEF Contract!Next
  <2>2. CASE Exit(r)
    BY <1>6, <2>2, ExitStep DEF GiveUp, Contract!Next
  <2>3. CASE UNCHANGED answer
    BY <1>6, <2>3 DEF GiveUp, Runs
  <2>4. QED
    BY <1>6, <2>1, <2>2, <2>3 DEF GiveUp
<1>7. QED
  BY <1>1, <1>2, <1>3, <1>4, <1>5, <1>6 DEF Worker

LEMMA ContractStep ==
    ASSUME TypeOK, TypeOK', AnswerInv, RetryOnce, [Next]_vars
    PROVE  [Contract!Next]_<<answer, Runs>>
<1>1. CASE UNCHANGED <<answer, copies>>
  BY <1>1 DEF Runs
<1>2. CASE UNCHANGED vars \/ Publish \/ Disconnecting \/ \E r \in Runtimes : SkipEvent(r)
  BY <1>1, <1>2 DEF vars, Publish, Disconnecting, Disconnect, StopPrimary, StopRuntime,
                    SendShutdown, Return, SkipEvent
<1>3. CASE \E c \in Calls : Ask(c) \/ Enqueue(c)
  <2>1. PICK c \in Calls : Ask(c) \/ Enqueue(c)
    BY <1>3
  <2>2. Contract!Submit(c)
    BY <2>1 DEF Ask, Enqueue, Contract!Submit
  <2>3. QED
    BY <2>2 DEF Contract!Next
<1>4. CASE \E c \in Calls : Refused(c)
  <2>1. PICK c \in Calls : Refused(c)
    BY <1>4
  <2>2. /\ answer[c] = "waiting" /\ copies' = copies
        /\ answer' = [answer EXCEPT ![c] = "refused"]
    BY <2>1 DEF Refused
  <2>3. answer' = [x \in Calls |-> IF x \in {c} THEN "refused" ELSE answer[x]]
    BY <2>2 DEF TypeOK, CallsOK
  <2>4. \A x \in {c} : answer[x] \in {"waiting", "queued"} /\ copies[x] = Unsent
    BY <2>2 DEF AnswerInv, Asked
  <2>5. Contract!Refuse
    BY <2>2, <2>3, <2>4, RefuseStep
  <2>6. QED
    BY <2>5 DEF Contract!Next
<1>5. CASE \E c \in Calls : Run(c, 1) \/ Run(c, 2)
  <2>1. PICK c \in Calls, i \in 1..2 : Run(c, i)
    BY <1>5
  <2>2. QED
    BY <2>1, RunStep DEF Contract!Next
<1>6. CASE \E r \in Runtimes : Break(r)
  <2>1. PICK r \in Runtimes : Break(r)
    BY <1>6
  <2>2. answer' = answer
    BY <2>1 DEF Break
  <2>3. \A c \in Calls, i \in 1..2 : (copies'[c][i] = "ran") <=> (copies[c][i] = "ran")
    BY <2>1 DEF Break, OnTheWay
  <2>4. QED
    BY <2>2, <2>3, SameRuns DEF TypeOK
<1>7. QED
  BY <1>2, <1>3, <1>4, <1>5, <1>6, WorkerStep DEF Next

LEMMA ContractInit == Init => Contract!Init
<1>1. SUFFICES ASSUME Init PROVE \A c \in Calls : RunsOf(copies[c]) = 0
  BY DEF Init, Contract!Init, RunsOf
<1>2. \A c \in Calls : copies[c][1] = "none" /\ copies[c][2] = "none" /\ copies[c] = <<"none", "none">>
  BY <1>1 DEF Init, Unsent
<1>3. QED
  BY <1>2 DEF RunsOf

\* The session implements CallContract: a call runs at most twice, one answered
\* ok has run, and one whose caller was told Disconnected never does.
THEOREM ContractKept == Spec => ContractSpec
<1>1. TypeOK /\ TypeOK' /\ AnswerInv /\ RetryOnce /\ [Next]_vars => [Contract!Next]_<<answer, Runs>>
  BY ContractStep
<1>2. TypeOK /\ AnswerInv /\ [Next]_vars => AnswerInv'
  BY NextAnswer
<1>3. TypeOK /\ AnswerInv /\ RetryOnce /\ [Next]_vars => RetryOnce'
  BY NextRetry
<1>4. QED
  BY <1>1, <1>2, <1>3, InitAnswer, InitRetry, ContractInit, TypeCorrect, PTL
  DEF Spec, ContractSpec, Contract!Spec, Runs, RunsOf
=============================================================================
