------------------------ MODULE FollowUpQueueProofs ------------------------
(***************************************************************************)
(* No message of a thread reaches the agent twice, for any number of       *)
(* messages, taps and failures.                                            *)
(*                                                                         *)
(* A filter of the queue is a recursive function; what it returns is found *)
(* by looking at the least prefix of the queue for which it would not.     *)
(***************************************************************************)
EXTENDS FollowUpQueue, SequenceTheorems, WellFoundedInduction, TLAPS

-----------------------------------------------------------------------------
(* The least number principle, and the filter.                              *)

Less == {p \in Nat \X Nat : p[1] < p[2]}

LEMMA LeastNumber ==
    ASSUME NEW T \in SUBSET Nat, T # {}
    PROVE  \E m \in T : \A k \in T : m <= k
<1>1. IsWellFoundedOn(Less, Nat)
  BY NatLessThanWellFounded DEF OpToRel, Less
<1>2. \E x \in T : \A y \in T : ~ (<<y, x>> \in Less)
  BY <1>1, WFMin, Zenon
<1>3. \A x, y \in Nat : <<y, x>> \in Less <=> y < x
  BY DEF Less
<1>4. PICK x \in T : \A y \in T : ~ (<<y, x>> \in Less)
  BY <1>2
<1>5. x \in Nat
  OBVIOUS
<1>6. \A y \in T : x <= y
  <2>1. TAKE y \in T
  <2>2. y \in Nat
    OBVIOUS
  <2>3. ~ (y < x)
    BY <1>3, <1>4, <1>5, <2>2
  <2>4. QED
    BY <1>5, <2>2, <2>3
<1>7. QED
  BY <1>6

KeptTo(f, q, S, n) ==
    f = [i \in 0..n |-> IF i = 0 THEN <<>>
                        ELSE IF q[i] \in S THEN Append(f[i - 1], q[i]) ELSE f[i - 1]]

LEMMA KeptExists ==
    ASSUME NEW q, Len(q) \in Nat, NEW S
    PROVE  \E f : KeptTo(f, q, S, Len(q))
<1> DEFINE Bad == {n \in Nat : ~ \E f : KeptTo(f, q, S, n)}
<1>1. SUFFICES ASSUME Bad # {} PROVE FALSE
  OBVIOUS
<1>2. PICK m \in Bad : \A k \in Bad : m <= k
  <2>1. Bad \in SUBSET Nat
    OBVIOUS
  <2>2. QED
    BY <1>1, <2>1, LeastNumber
<1>3. CASE m = 0
  <2>1. KeptTo([i \in 0..0 |-> <<>>], q, S, 0)
    BY DEF KeptTo
  <2>2. QED
    BY <1>2, <1>3, <2>1
<1>4. CASE m # 0
  <2>1. PICK g : KeptTo(g, q, S, m - 1)
    BY <1>2, <1>4
  <2> DEFINE f == [i \in 0..m |-> IF i < m THEN g[i]
                                  ELSE IF q[i] \in S THEN Append(g[i - 1], q[i]) ELSE g[i - 1]]
  <2>2. \A i \in 0..m : f[i] = IF i = 0 THEN <<>>
                        ELSE IF q[i] \in S THEN Append(f[i - 1], q[i]) ELSE f[i - 1]
    <3>1. \A i \in 0..(m - 1) : g[i] = IF i = 0 THEN <<>>
                        ELSE IF q[i] \in S THEN Append(g[i - 1], q[i]) ELSE g[i - 1]
      BY <1>2, <1>4, <2>1 DEF KeptTo
    <3>2. QED
      BY <1>2, <1>4, <3>1
  <2>3. KeptTo(f, q, S, m)
    BY <2>2 DEF KeptTo
  <2>4. QED
    BY <1>2, <2>3
<1>5. QED
  BY <1>3, <1>4

LEMMA KeptDef ==
    ASSUME NEW q, Len(q) \in Nat, NEW S
    PROVE  \E f : KeptTo(f, q, S, Len(q)) /\ Kept(q, S) = f[Len(q)]
<1> DEFINE f == CHOOSE f : KeptTo(f, q, S, Len(q))
<1>1. KeptTo(f, q, S, Len(q))
  BY KeptExists
<1>2. Kept(q, S) = f[Len(q)]
  BY DEF Kept, KeptTo
<1>3. QED
  BY <1>1, <1>2
\* What the filter returns: elements of the queue that are in S, in the order
\* in which the queue has them (f says where each comes from).
Picks(f, r, q) ==
    /\ f \in [DOMAIN r -> DOMAIN q]
    /\ \A j \in DOMAIN r : r[j] = q[f[j]]
    /\ \A i, j \in DOMAIN r : i < j => f[i] < f[j]

LEMMA KeptAll ==
    ASSUME NEW Z, NEW q \in Seq(Z), NEW S
    PROVE  /\ Kept(q, S) \in Seq(Z)
           /\ \A j \in DOMAIN Kept(q, S) : Kept(q, S)[j] \in S
           /\ \E f : Picks(f, Kept(q, S), q)
<1> DEFINE N == Len(q)
           Good(r, n) == /\ r \in Seq(Z) /\ \A j \in DOMAIN r : r[j] \in S
                         /\ \E f : Picks(f, r, q) /\ \A j \in DOMAIN r : f[j] <= n
<1>1. N \in Nat /\ DOMAIN q = 1..N /\ \A i \in 1..N : q[i] \in Z
  OBVIOUS
<1>2. PICK k : KeptTo(k, q, S, N) /\ Kept(q, S) = k[N]
  BY <1>1, KeptDef
<1>3. \A i \in 0..N : k[i] = IF i = 0 THEN <<>>
                             ELSE IF q[i] \in S THEN Append(k[i - 1], q[i]) ELSE k[i - 1]
  BY <1>2 DEF KeptTo
<1> HIDE DEF N
<1>4. ASSUME NEW n \in 1..N, NEW r, Good(r, n - 1)
      PROVE  Good(r, n) /\ (q[n] \in S => Good(Append(r, q[n]), n))
  <2>1. PICK f : Picks(f, r, q) /\ \A j \in DOMAIN r : f[j] <= n - 1
    BY <1>4
  <2>2. r \in Seq(Z) /\ q[n] \in Z /\ n \in DOMAIN q /\ Len(r) \in Nat /\ DOMAIN r = 1..Len(r)
    BY <1>1, <1>4
  <2>3. f \in [DOMAIN r -> DOMAIN q] /\ \A j \in DOMAIN r : f[j] \in Nat /\ f[j] <= n
    BY <1>1, <2>1 DEF Picks
  <2>4. Good(r, n)
    BY <1>4, <2>1, <2>3
  <2>5. ASSUME q[n] \in S PROVE Good(Append(r, q[n]), n)
    <3> DEFINE s == Append(r, q[n])
               g == [j \in DOMAIN s |-> IF j \in DOMAIN r THEN f[j] ELSE n]
    <3>1. /\ s \in Seq(Z) /\ DOMAIN s = 1..(Len(r) + 1)
          /\ s[Len(r) + 1] = q[n] /\ \A j \in DOMAIN r : s[j] = r[j]
      BY <2>2
    <3> HIDE DEF s
    <3>2. \A j \in DOMAIN s : j \in DOMAIN r \/ j = Len(r) + 1
      BY <2>2, <3>1
    <3>3. \A j \in DOMAIN s : s[j] \in S
      BY <1>4, <2>5, <3>1, <3>2
    <3>4. g \in [DOMAIN s -> DOMAIN q] /\ \A j \in DOMAIN s : g[j] <= n
      BY <1>1, <2>2, <2>3
    <3>5. \A j \in DOMAIN s : s[j] = q[g[j]]
      BY <2>1, <2>2, <3>1, <3>2 DEF Picks
    <3>6. ASSUME NEW i \in DOMAIN s, NEW j \in DOMAIN s, i < j PROVE g[i] < g[j]
      <4>1. i \in DOMAIN r /\ i \in Nat /\ j \in Nat
        BY <2>2, <3>1, <3>2, <3>6
      <4>2. g[i] = f[i] /\ f[i] \in Nat /\ f[i] <= n - 1
        BY <2>1, <2>3, <4>1, <3>6
      <4>3. CASE j \in DOMAIN r
        BY <2>1, <4>1, <4>2, <4>3, <3>6 DEF Picks
      <4>4. CASE j \notin DOMAIN r
        BY <1>1, <4>2, <4>4, <3>6
      <4>5. QED
        BY <4>3, <4>4
    <3>7. Picks(g, s, q)
      BY <3>4, <3>5, <3>6 DEF Picks
    <3>8. QED
      BY <3>1, <3>3, <3>4, <3>7 DEF s
  <2>6. QED
    BY <2>4, <2>5
<1>5. Good(<<>>, 0)
  <2>1. Picks([j \in {} |-> 0], <<>>, q)
    BY DEF Picks
  <2>2. QED
    BY <2>1
<1> HIDE DEF Good
<1> DEFINE Bad == {n \in 0..N : ~ Good(k[n], n)}
<1>6. ASSUME Bad # {} PROVE FALSE
  <2>1. PICK m \in Bad : \A n \in Bad : m <= n
    <3>1. Bad \in SUBSET Nat
      BY <1>1
    <3>2. QED
      BY <1>6, <3>1, LeastNumber
  <2>2. m # 0
    BY <1>1, <1>3, <1>5, <2>1
  <2>3. m \in 1..N /\ m - 1 \in 0..N /\ m - 1 \notin Bad
    BY <1>1, <2>1, <2>2
  <2>4. Good(k[m - 1], m - 1)
    BY <2>3
  <2>5. Good(k[m - 1], m) /\ (q[m] \in S => Good(Append(k[m - 1], q[m]), m))
    BY <1>4, <2>3, <2>4
  <2>6. QED
    BY <1>3, <2>1, <2>2, <2>3, <2>5
<1>7. Good(k[N], N)
  BY <1>1, <1>6
<1>8. QED
  BY <1>2, <1>7 DEF Good

\* Every draft that a filter keeps was in the queue, not before its new place.
LEMMA KeptFrom ==
    ASSUME NEW Z, NEW q \in Seq(Z), NEW S, NEW j \in DOMAIN Kept(q, S)
    PROVE  \E i \in DOMAIN q : Kept(q, S)[j] = q[i] /\ q[i] \in S
<1>1. PICK f : Picks(f, Kept(q, S), q)
  BY KeptAll
<1>2. f[j] \in DOMAIN q /\ Kept(q, S)[j] = q[f[j]] /\ Kept(q, S)[j] \in S
  BY <1>1, KeptAll DEF Picks
<1>3. QED
  BY <1>2

-----------------------------------------------------------------------------
(* Types.                                                                   *)

\* What was of type n is of every greater type.
LEMMA Wider ==
    ASSUME NEW n \in Nat, NEW k \in Nat, n <= k
    PROVE  /\ 0..n \subseteq 0..k
           /\ Event(n) \subseteq Event(k)
           /\ Seq(Event(n)) \subseteq Seq(Event(k))
           /\ [Taps -> Tap(n)] \subseteq [Taps -> Tap(k)]
           /\ [Messages -> 0..n] \subseteq [Messages -> 0..k]
<1>1. 0..n \subseteq 0..k /\ 1..n \subseteq 1..k
  OBVIOUS
<1>2. Event(n) \subseteq Event(k)
  BY <1>1 DEF Event
<1>3. Seq(Event(n)) \subseteq Seq(Event(k))
  BY <1>2
<1>4. Tap(n) \subseteq Tap(k)
  BY <1>1 DEF Tap
<1>5. QED
  BY <1>1, <1>2, <1>3, <1>4

LEMMA EventTypes ==
    ASSUME NEW n, NEW t \in 1..n
    PROVE  Started(t) \in Event(n) /\ UserMessage(t) \in Event(n) /\ Completed(t) \in Event(n)
BY DEF Started, UserMessage, Completed, Event

LEMMA CopyIs == \A m, n : Copy(m, n).msg = m /\ Copy(m, n).broke = n
BY DEF Copy

LEMMA CopyTypes ==
    /\ \A m \in Messages, n \in 0..MaxFailures : Copy(m, n) \in Copies
    /\ \A m \in Messages : Copy(m, 0) \in Copies
<1>1. \A m \in Messages, n \in 0..MaxFailures : Copy(m, n) \in Copies
  BY DEF Copy, Copies
<1>2. 0 \in 0..MaxFailures
  BY QueueAssumption
<1>3. QED
  BY <1>1, <1>2

\* What a request does to the count of failures and to the connections.
LEMMA RequestTypes ==
    ASSUME NetworkOK, turns' = turns, NEW w \in Messages \cup Taps \cup {Automatic}, NEW m \in Messages,
           NEW t \in 0..turns, Answered(w) \/ Failed(w, m, t) \/ SendAgain(w, m, t)
    PROVE  NetworkOK'
<1>1. again' \subseteq Messages \cup Taps \cup {Automatic}
  <2>1. again \subseteq Messages \cup Taps \cup {Automatic}
    BY DEF NetworkOK
  <2>2. again' = again \ {w} \/ again' = again \cup {w}
    BY DEF Answered, Failed, SendAgain
  <2>3. QED
    BY <2>1, <2>2
<1>2. CASE Break(m, t)
  <2>1. failures' = failures + 1 /\ failures' \in 0..MaxFailures
    BY <1>2, QueueAssumption DEF Break, NetworkOK
  <2>2. [copy |-> Copy(m, failures'), turn |-> t] \in [copy : Copies, turn : 0..turns]
    BY <2>1, CopyTypes
  <2>3. adrift' = adrift \cup {[copy |-> Copy(m, failures'), turn |-> t]}
    BY <1>2, <2>1 DEF Break
  <2>4. adrift \subseteq [copy : Copies, turn : 0..turns]
    BY DEF NetworkOK
  <2> DEFINE S == [copy : Copies, turn : 0..turns]
             c == [copy |-> Copy(m, failures'), turn |-> t]
  <2> HIDE DEF S, c
  <2>5. adrift' \subseteq S
    BY <2>2, <2>3, <2>4 DEF S, c
  <2>6. QED
    BY <1>1, <2>1, <2>5 DEF NetworkOK, S
<1>3. CASE failures' \in {failures, failures + 1} /\ failures' \in 0..MaxFailures /\ adrift' = adrift
  BY <1>1, <1>3 DEF NetworkOK
<1>4. Answered(w) \/ Refuse =>
          failures' \in {failures, failures + 1} /\ failures' \in 0..MaxFailures /\ adrift' = adrift
  BY QueueAssumption DEF Answered, Refuse, NetworkOK
<1>5. QED
  BY <1>2, <1>3, <1>4 DEF Failed, SendAgain

\* The server has turns that nothing on a connection names yet.
LEMMA AdriftWidened ==
    ASSUME NetworkOK, turns \in Nat, turns' \in Nat, turns <= turns',
           UNCHANGED <<failures, again>>, adrift' \subseteq adrift
    PROVE  NetworkOK'
<1> DEFINE S == [copy : Copies, turn : 0..turns]
           T == [copy : Copies, turn : 0..turns']
<1>1. S \subseteq T /\ adrift \subseteq S
  BY DEF NetworkOK
<1> HIDE DEF S, T
<1>2. adrift' \subseteq T
  BY <1>1
<1>3. QED
  BY <1>2 DEF NetworkOK, T

LEMMA AnsweredTypes ==
    ASSUME NetworkOK, turns \in Nat, turns' \in Nat, turns <= turns', NEW w, Answered(w)
    PROVE  NetworkOK'
<1>1. again' \subseteq again /\ failures' = failures /\ adrift' = adrift
  BY DEF Answered
<1> DEFINE S == [copy : Copies, turn : 0..turns]
           T == [copy : Copies, turn : 0..turns']
<1>2. S \subseteq T /\ adrift \subseteq S
  BY DEF NetworkOK
<1> HIDE DEF S, T
<1>3. adrift' \subseteq T
  BY <1>1, <1>2
<1>4. again' \subseteq Messages \cup Taps \cup {Automatic}
  BY <1>1 DEF NetworkOK
<1>5. QED
  BY <1>1, <1>3, <1>4 DEF NetworkOK, T

\* The types of what the server adds.
LEMMA ServerTypes ==
    ASSUME TypeOK, NEW m \in Copies, NEW t \in Nat \ {0}, TakeStart(m) \/ TakeSteer(m, t)
    PROVE  /\ turns' \in Nat /\ turns <= turns' /\ turn' \in 0..turns'
           /\ taken' \in Seq(Copies)
           /\ events' \in Seq(Event(turns'))
<1>1. /\ events \in Seq(Event(turns)) /\ turn \in 0..turns /\ turns \in Nat
      /\ taken \in Seq(Copies)
  BY DEF TypeOK
<1>2. taken' \in Seq(Copies)
  <2>1. taken' = Append(taken, m)
    BY DEF TakeStart, TakeSteer
  <2>2. QED
    BY <1>1, <2>1
<1>3. CASE TakeStart(m) /\ turn = 0
  <2>1. /\ turns' = turns + 1 /\ turn' = turns + 1
        /\ events' = events \o <<Started(turns + 1), UserMessage(turns + 1)>>
    BY <1>3 DEF TakeStart
  <2>2. events \in Seq(Event(turns + 1))
    <3>1. turns + 1 \in Nat /\ turns <= turns + 1
      BY <1>1
    <3>2. QED
      BY <1>1, <3>1, Wider
  <2>3. Started(turns + 1) \in Event(turns + 1) /\ UserMessage(turns + 1) \in Event(turns + 1)
    <3>1. turns + 1 \in 1..(turns + 1)
      BY <1>1
    <3>2. QED
      BY <3>1, EventTypes
  <2>4. <<Started(turns + 1), UserMessage(turns + 1)>> \in Seq(Event(turns + 1))
    BY <2>3
  <2>5. events' \in Seq(Event(turns'))
    BY <2>1, <2>2, <2>4, ConcatProperties
  <2>6. QED
    BY <1>1, <1>2, <2>1, <2>5
<1>4. CASE (TakeStart(m) /\ turn # 0) \/ TakeSteer(m, t)
  <2>1. turn # 0 /\ turns' = turns /\ turn' = turn /\ events' = Append(events, UserMessage(turn))
    BY <1>4 DEF TakeStart, TakeSteer
  <2>2. UserMessage(turn) \in Event(turns)
    <3>1. turn \in 1..turns
      BY <1>1, <2>1
    <3>2. QED
      BY <3>1, EventTypes
  <2>3. events' \in Seq(Event(turns))
    BY <1>1, <2>1, <2>2
  <2>4. QED
    BY <1>1, <1>2, <2>1, <2>3
<1>5. QED
  BY <1>3, <1>4

\* What is being sent is a message, what is queued has a text, and a steer, at
\* once or by a tap, names a turn.
Named ==
    /\ listener = "send" <=> sending # NoMessage
    /\ \A m \in Messages : writer[m] = "queue" => m \notin Textless
    /\ \A m \in Messages : writer[m] = "steer" => aim[m] # 0
    /\ \A k \in Taps :
         /\ tap[k].pc \in {"begin", "steer", "write"} => tap[k].msg \in Messages
         /\ tap[k].pc = "steer" => tap[k].turn # 0

TypeInv == TypeOK /\ Named

\* A step by which the server may start a turn: what else has its type keeps it.
LEMMA Widened ==
    ASSUME TypeOK, Named', turns' \in Nat, turns <= turns', turn' \in 0..turns',
           taken' \in Seq(Copies), events' \in Seq(Event(turns')),
           UNCHANGED <<drafts, activeTurn, aim, queued, deleted, clobbered>>,
           listener' \in {"recv", "check", "send"}, sending' \in Messages \cup {NoMessage},
           writer' \in [Messages -> {"unwritten", "queue", "steer", "start", "done"}],
           tap' \in [Taps -> Tap(turns)], NetworkOK'
    PROVE  TypeInv'
<1>1. /\ turns \in Nat /\ activeTurn \in 0..turns /\ aim \in [Messages -> 0..turns]
      /\ drafts \in Seq(Drafts)
      /\ queued \subseteq Messages /\ deleted \subseteq Messages /\ clobbered \in BOOLEAN
  BY DEF TypeOK
<1>2. /\ 0..turns \subseteq 0..turns' /\ [Taps -> Tap(turns)] \subseteq [Taps -> Tap(turns')]
      /\ [Messages -> 0..turns] \subseteq [Messages -> 0..turns']
  BY <1>1, Wider
<1>3. activeTurn' \in 0..turns' /\ aim' \in [Messages -> 0..turns'] /\ tap' \in [Taps -> Tap(turns')]
  BY <1>1, <1>2
<1>4. QED
  BY <1>1, <1>3 DEF TypeInv, TypeOK

LEMMA ListenerTypes == TypeInv /\ Listener => TypeInv'
<1> SUFFICES ASSUME TypeInv, Listener PROVE TypeInv'
  OBVIOUS
<1>1. /\ TypeOK /\ Named /\ drafts \in Seq(Drafts) /\ events \in Seq(Event(turns))
      /\ turns \in Nat
  BY DEF TypeInv, TypeOK
<1>2. ASSUME NEW kind, Receive(kind)
      PROVE  /\ events' \in Seq(Event(turns)) /\ events # <<>> /\ Head(events) \in Event(turns)
             /\ Head(events).turn \in 0..turns /\ RemoveFirst(drafts) \in Seq(Drafts)
             /\ listener = "recv"
             /\ UNCHANGED <<sending, writing, tap, server, network, history>>
  <2>1. events' = Tail(events) /\ events # <<>>
    BY <1>2 DEF Receive
  <2>2. Head(events) \in Event(turns) /\ events' \in Seq(Event(turns))
    BY <1>1, <2>1
  <2>3. Head(events).turn \in 0..turns
    <3>1. Head(events).turn \in 1..turns
      BY <2>2 DEF Event
    <3>2. QED
      BY <1>1, <3>1
  <2>4. RemoveFirst(drafts) \in Seq(Drafts)
    BY <1>1 DEF RemoveFirst
  <2>5. QED
    BY <1>2, <2>1, <2>2, <2>3, <2>4 DEF Receive
<1>3. CASE TurnStarted
  <2>1. /\ drafts' = RemoveFirst(drafts) /\ activeTurn' = Head(events).turn /\ listener' = listener
        /\ Receive("started")
    BY <1>3 DEF TurnStarted
  <2>2. QED
    BY <1>1, <1>2, <2>1 DEF TypeInv, TypeOK, Named, writing, server, network, NetworkOK, history
<1>4. CASE UserItem
  <2>1. /\ drafts' = RemoveFirst(drafts) /\ activeTurn' = activeTurn /\ listener' = listener
        /\ Receive("user message")
    BY <1>4 DEF UserItem
  <2>2. QED
    BY <1>1, <1>2, <2>1 DEF TypeInv, TypeOK, Named, writing, server, network, NetworkOK, history
<1>5. CASE TurnCompleted
  <2>1. drafts' \in Seq(Drafts)
    BY <1>1, <1>5, KeptAll DEF TurnCompleted
  <2>2. activeTurn' = 0 /\ listener' = "check" /\ Receive("completed")
    BY <1>5 DEF TurnCompleted
  <2>3. QED
    BY <1>1, <1>2, <2>1, <2>2 DEF TypeInv, TypeOK, Named, writing, server, network, NetworkOK, history
<1>6. CASE SendNext
  <2>1. sending' \in Messages \cup {NoMessage}
    <3>1. CASE drafts = <<>> \/ activeTurn # 0
      BY <1>1, <1>6, <3>1 DEF SendNext, TypeOK
    <3>2. CASE drafts # <<>> /\ activeTurn = 0
      <4>1. sending' = Head(drafts).msg /\ Head(drafts) \in Drafts
        BY <1>1, <1>6, <3>2 DEF SendNext
      <4>2. QED
        BY <4>1 DEF Drafts
    <3>3. QED
      BY <3>1, <3>2
  <2>2. listener' = "send" <=> sending' # NoMessage
    <3>1. CASE drafts = <<>> \/ activeTurn # 0
      BY <1>1, <1>6, <3>1 DEF SendNext, Named
    <3>2. CASE drafts # <<>> /\ activeTurn = 0
      <4>1. sending' = Head(drafts).msg /\ Head(drafts) \in Drafts /\ listener' = "send"
        BY <1>1, <1>6, <3>2 DEF SendNext
      <4>2. sending' \in Messages
        BY <4>1 DEF Drafts
      <4>3. QED
        BY <4>1, <4>2, QueueAssumption
    <3>3. QED
      BY <3>1, <3>2
  <2>3. QED
    BY <1>1, <1>6, <2>1, <2>2
    DEF SendNext, TypeInv, TypeOK, Named, store, writing, server, network, NetworkOK, history
<1>7. CASE Sent
  <2>1. sending' = NoMessage /\ listener' = "recv"
        /\ UNCHANGED <<store, writing, tap, history>>
    BY <1>7 DEF Sent
  <2>2. /\ sending \in Messages /\ Automatic \in Messages \cup Taps \cup {Automatic} /\ 0 \in 0..turns
        /\ Copy(sending, 0) \in Copies
    <3>1. sending \in Messages
      BY <1>1, <1>7 DEF Sent, Named, TypeOK
    <3>2. QED
      BY <1>1, <3>1, CopyTypes
  <2>3. Named'
    BY <1>1, <2>1 DEF Named, writing
  <2>4. CASE TakeStart(Copy(sending, 0)) /\ Answered(Automatic)
    <3>1. /\ turns' \in Nat /\ turns <= turns' /\ turn' \in 0..turns'
          /\ taken' \in Seq(Copies) /\ events' \in Seq(Event(turns'))
      <4>1. 1 \in Nat \ {0}
        OBVIOUS
      <4>2. QED
        BY <1>1, <2>2, <2>4, <4>1, ServerTypes
    <3>2. NetworkOK'
      BY <1>1, <2>4, <3>1, AnsweredTypes DEF TypeOK
    <3>3. /\ listener' \in {"recv", "check", "send"} /\ sending' \in Messages \cup {NoMessage}
          /\ writer' \in [Messages -> {"unwritten", "queue", "steer", "start", "done"}]
          /\ tap' \in [Taps -> Tap(turns)]
          /\ UNCHANGED <<drafts, activeTurn, aim, queued, deleted, clobbered>>
      BY <1>1, <2>1 DEF TypeOK, store, writing, history
    <3>4. QED
      BY <1>1, <2>3, <3>1, <3>2, <3>3, Widened
  <2>5. CASE Failed(Automatic, sending, 0)
    <3>1. UNCHANGED <<events, server>>
      BY <2>5 DEF Failed
    <3>2. NetworkOK'
      BY <1>1, <2>2, <2>5, <3>1, RequestTypes DEF TypeOK, server
    <3>3. QED
      BY <1>1, <2>1, <2>3, <3>1, <3>2 DEF TypeInv, TypeOK, store, writing, server, history
  <2>6. QED
    BY <1>7, <2>4, <2>5 DEF Sent
<1>8. QED
  BY <1>3, <1>4, <1>5, <1>6, <1>7 DEF Listener

LEMMA WriterTypes ==
    ASSUME TypeInv, NEW m \in Messages, Write(m) \/ Queue(m) \/ SteerAtOnce(m) \/ Start(m)
    PROVE  TypeInv'
<1>1. TypeOK /\ Named
  BY DEF TypeInv
<1>2. CASE Write(m)
  <2>1. /\ aim' = [aim EXCEPT ![m] = activeTurn]
        /\ writer' = [writer EXCEPT ![m] = IF activeTurn = 0 THEN "start"
                                           ELSE IF m \in Textless THEN "steer" ELSE "queue"]
        /\ UNCHANGED <<store, events, listen, tap, server, network, history>>
    BY <1>2 DEF Write
  <2>2. /\ aim' \in [Messages -> 0..turns]
        /\ writer' \in [Messages -> {"unwritten", "queue", "steer", "start", "done"}]
    BY <1>1, <2>1 DEF TypeOK
  <2>3. \A n \in Messages : /\ writer'[n] = "steer" => aim'[n] # 0
                            /\ writer'[n] = "queue" => n \notin Textless
    BY <1>1, <2>1 DEF TypeOK, Named
  <2>4. QED
    BY <1>1, <2>1, <2>2, <2>3 DEF TypeInv, TypeOK, Named, store, listen, server, network, NetworkOK, history
<1>3. CASE Queue(m)
  <2>1. /\ writer[m] = "queue" /\ drafts' = Append(drafts, Draft(m, "message"))
        /\ queued' = queued \cup {m} /\ writer' = [writer EXCEPT ![m] = "done"]
        /\ UNCHANGED <<activeTurn, events, listen, aim, tap, server, network, deleted, clobbered>>
    BY <1>3 DEF Queue
  <2>2. drafts' \in Seq(Drafts)
    <3>1. Draft(m, "message") \in Drafts
      BY <1>1, <2>1 DEF Draft, Drafts, Named
    <3>2. QED
      BY <1>1, <2>1, <3>1 DEF TypeOK
  <2>3. /\ writer' \in [Messages -> {"unwritten", "queue", "steer", "start", "done"}]
        /\ \A n \in Messages : writer'[n] = writer[n] \/ writer'[n] = "done"
    BY <1>1, <2>1 DEF TypeOK
  <2>4. QED
    BY <1>1, <2>1, <2>2, <2>3 DEF TypeInv, TypeOK, Named, listen, server, network, NetworkOK
<1>4. CASE SteerAtOnce(m) \/ Start(m)
  <2>1. UNCHANGED <<store, listen, aim, tap, history>>
    BY <1>4 DEF SteerAtOnce, Start
  <2>2. /\ writer' = [writer EXCEPT ![m] = "done"] \/ writer' = [writer EXCEPT ![m] = "start"]
        /\ writer[m] # "steer" => writer' = [writer EXCEPT ![m] = "done"]
    BY <1>4 DEF SteerAtOnce, Start
  <2>3. /\ writer' \in [Messages -> {"unwritten", "queue", "steer", "start", "done"}]
        /\ \A n \in Messages : writer'[n] = "steer" => aim[n] # 0
        /\ \A n \in Messages : writer'[n] = "queue" => n \notin Textless
    BY <1>1, <2>2 DEF TypeOK, Named
  <2>8. Named'
    <3>1. listener' = listener /\ sending' = sending /\ tap' = tap /\ aim' = aim
      BY <2>1 DEF listen
    <3>2. /\ \A n \in Messages : writer'[n] = "queue" => n \notin Textless
          /\ \A n \in Messages : writer'[n] = "steer" => aim'[n] # 0
      BY <2>3, <3>1
    <3>3. QED
      BY <1>1, <3>1, <3>2 DEF Named
  <2>4. /\ listener' \in {"recv", "check", "send"} /\ sending' \in Messages \cup {NoMessage}
        /\ tap' \in [Taps -> Tap(turns)]
        /\ UNCHANGED <<drafts, activeTurn, aim, queued, deleted, clobbered>>
    BY <1>1, <2>1 DEF TypeOK, store, listen, history
  <2>5. CASE UNCHANGED <<events, server>>
    <3>1. \E t \in {0, aim[m]} : Answered(m) \/ Failed(m, m, t)
      BY <1>4 DEF SteerAtOnce, Start, Unsteered
    <3>2. turns' = turns /\ NetworkOK /\ \A t \in {0, aim[m]} : t \in 0..turns
      BY <1>1, <2>5 DEF TypeOK, server
    <3>3. NetworkOK'
      BY <3>1, <3>2, RequestTypes
    <3>4. QED
      BY <1>1, <2>3, <2>4, <2>5, <2>8, <3>3 DEF TypeInv, TypeOK, server
  <2>6. CASE /\ TakeStart(Copy(m, 0)) \/ (TakeSteer(Copy(m, 0), aim[m]) /\ writer[m] = "steer")
             /\ Answered(m)
    <3>1. /\ turns' \in Nat /\ turns <= turns' /\ turn' \in 0..turns'
          /\ taken' \in Seq(Copies) /\ events' \in Seq(Event(turns'))
      <4>1. \E t \in Nat \ {0} : TakeStart(Copy(m, 0)) \/ TakeSteer(Copy(m, 0), t)
        <5>1. writer[m] = "steer" => aim[m] \in Nat \ {0}
          BY <1>1 DEF TypeOK, Named
        <5>2. 1 \in Nat \ {0}
          OBVIOUS
        <5>3. QED
          BY <2>6, <5>1, <5>2
      <4>2. QED
        BY <1>1, <4>1, CopyTypes, ServerTypes
    <3>2. NetworkOK'
      BY <1>1, <2>6, <3>1, AnsweredTypes DEF TypeOK
    <3>3. QED
      BY <1>1, <2>3, <2>4, <2>8, <3>1, <3>2, Widened
  <2>7. QED
    BY <1>4, <2>5, <2>6 DEF SteerAtOnce, Start, Unsteered, Failed
<1>5. QED
  BY <1>2, <1>3, <1>4

\* The record of a tap keeps its type when its program counter moves on.
LEMMA TapMoves ==
    ASSUME TypeOK, NEW k \in Taps, NEW p \in {"none", "begin", "steer", "write", "done"},
           tap' = [tap EXCEPT ![k].pc = p]
    PROVE  /\ tap' \in [Taps -> Tap(turns)]
           /\ tap'[k].pc = p /\ tap'[k].turn = tap[k].turn /\ tap'[k].msg = tap[k].msg
           /\ \A l \in Taps : l # k => tap'[l] = tap[l]
BY DEF TypeOK, Tap

LEMMA TapTypes ==
    ASSUME TypeInv, NEW k \in Taps,
           \/ BeginSteer(k) \/ Steer(k) \/ Delete(k)
           \/ \E m \in Messages : TapSteer(k, m) \/ TapDelete(k, m)
    PROVE  TypeInv'
<1>1. TypeOK /\ Named /\ drafts \in Seq(Drafts) /\ tap \in [Taps -> Tap(turns)] /\ turns \in Nat
  BY DEF TypeInv, TypeOK
<1>2. CASE BeginSteer(k)
  <2> DEFINE mine == {i \in DOMAIN drafts : drafts[i] = Draft(tap[k].msg, "message")}
  <2>0. tap[k].pc = "begin" /\ tap[k].msg \in Messages
    BY <1>1, <1>2 DEF BeginSteer, Named
  <2>1. /\ drafts' = [i \in DOMAIN drafts |->
                        IF i \in mine THEN Draft(tap[k].msg, "pending steer") ELSE drafts[i]]
        /\ tap' = [tap EXCEPT ![k].pc = IF mine = {} \/ tap[k].turn = 0 THEN "done" ELSE "steer"]
        /\ UNCHANGED <<activeTurn, events, listen, writing, server, network, history>>
    BY <1>2 DEF BeginSteer
  <2>2. drafts' \in Seq(Drafts)
    <3>1. ASSUME NEW i \in mine PROVE Draft(tap[k].msg, "pending steer") \in Drafts
      <4>1. Draft(tap[k].msg, "message") \in Drafts
        BY <1>1
      <4>2. QED
        BY <4>1 DEF Draft, Drafts
    <3>2. DOMAIN drafts = 1..Len(drafts) /\ Len(drafts) \in Nat
          /\ \A i \in DOMAIN drafts : drafts[i] \in Drafts
      BY <1>1
    <3>3. drafts' \in [1..Len(drafts) -> Drafts]
      BY <2>1, <3>1, <3>2
    <3>4. QED
      BY <3>2, <3>3
  <2> HIDE DEF mine
  <2>3. /\ tap' \in [Taps -> Tap(turns)] /\ \A l \in Taps : l # k => tap'[l] = tap[l]
        /\ tap'[k].pc = "steer" => tap'[k].turn # 0
        /\ tap'[k].msg \in Messages
    <3>1. CASE mine = {} \/ tap[k].turn = 0
      <4>1. tap' = [tap EXCEPT ![k].pc = "done"]
        BY <2>1, <3>1
      <4>2. QED
        BY <1>1, <2>0, <4>1, TapMoves
    <3>2. CASE ~(mine = {} \/ tap[k].turn = 0)
      <4>1. tap' = [tap EXCEPT ![k].pc = "steer"]
        BY <2>1, <3>2
      <4>2. QED
        BY <1>1, <2>0, <3>2, <4>1, TapMoves
    <3>3. QED
      BY <3>1, <3>2
  <2>4. Named'
    BY <1>1, <2>1, <2>3 DEF Named, listen, writing
  <2>5. QED
    BY <1>1, <2>1, <2>2, <2>3, <2>4 DEF TypeInv, TypeOK, listen, writing, server, network, NetworkOK, history
<1>3. CASE Steer(k)
  <2>1. /\ tap[k].pc = "steer" /\ tap' = [tap EXCEPT ![k].pc = "done"]
        /\ UNCHANGED <<store, listen, writing, history>>
    BY <1>3 DEF Steer
  <2>2. /\ tap' \in [Taps -> Tap(turns)] /\ tap'[k].pc = "done"
        /\ \A l \in Taps : l # k => tap'[l] = tap[l]
    BY <1>1, <2>1, TapMoves
  <2>3. Named'
    BY <1>1, <2>1, <2>2 DEF Named, listen, writing
  <2>4. tap[k].turn \in Nat \ {0} /\ tap[k].turn \in 0..turns /\ tap[k].msg \in Messages
    BY <1>1, <2>1 DEF Named, Tap
  <2>5. CASE TakeSteer(Copy(tap[k].msg, 0), tap[k].turn) /\ Answered(k)
    <3>1. taken' \in Seq(Copies) /\ events' \in Seq(Event(turns'))
      BY <1>1, <2>4, <2>5, CopyTypes, ServerTypes
    <3>2. turns' = turns /\ turn' = turn
      BY <2>5 DEF TakeSteer
    <3>3. NetworkOK'
      BY <1>1, <2>5, <3>2, AnsweredTypes DEF TypeOK
    <3>4. QED
      BY <1>1, <2>1, <2>2, <2>3, <3>1, <3>2, <3>3
      DEF TypeInv, TypeOK, store, listen, writing, history
  <2>6. CASE UNCHANGED <<events, server>>
    <3>1. Answered(k) \/ Failed(k, tap[k].msg, tap[k].turn)
      BY <1>3 DEF Steer, Unsteered
    <3>2. NetworkOK'
      BY <1>1, <2>4, <2>6, <3>1, RequestTypes DEF TypeOK, server
    <3>3. QED
      BY <1>1, <2>1, <2>2, <2>3, <2>6, <3>2
      DEF TypeInv, TypeOK, store, listen, writing, server, history
  <2>7. QED
    BY <1>3, <2>5, <2>6 DEF Steer, Unsteered, Failed
<1>4. ASSUME NEW m \in Messages, TapSteer(k, m) PROVE TypeInv'
  <2> DEFINE r == [pc |-> "begin", msg |-> m, turn |-> activeTurn, next |-> <<>>]
  <2>1. tap' = [tap EXCEPT ![k] = r]
        /\ UNCHANGED <<store, events, listen, writing, server, network, history>>
    BY <1>4 DEF TapSteer
  <2>2. r \in Tap(turns) /\ r.pc = "begin" /\ r.msg \in Messages
    BY <1>1 DEF Tap, TypeOK
  <2> HIDE DEF r
  <2>3. tap' \in [Taps -> Tap(turns)] /\ tap'[k].pc = "begin" /\ tap'[k].msg \in Messages
        /\ \A l \in Taps : l # k => tap'[l] = tap[l]
    BY <1>1, <2>1, <2>2
  <2>4. Named'
    BY <1>1, <2>1, <2>3 DEF Named, listen, writing
  <2>5. QED
    BY <1>1, <2>1, <2>3, <2>4 DEF TypeInv, TypeOK, store, listen, writing, server, network, NetworkOK, history
<1>5. ASSUME NEW m \in Messages, TapDelete(k, m) PROVE TypeInv'
  <2> DEFINE r == [pc |-> "write", msg |-> m, turn |-> 0, next |-> Without(drafts, m)]
  <2>1. tap' = [tap EXCEPT ![k] = r]
        /\ UNCHANGED <<store, events, listen, writing, server, network, history>>
    BY <1>5 DEF TapDelete
  <2>2. r \in Tap(turns) /\ r.pc = "write" /\ r.msg \in Messages
    <3>1. Without(drafts, m) \in Seq(Drafts)
      BY <1>1, KeptAll DEF Without
    <3>2. QED
      BY <1>1, <3>1 DEF Tap
  <2> HIDE DEF r
  <2>3. tap' \in [Taps -> Tap(turns)] /\ tap'[k].pc = "write" /\ tap'[k].msg \in Messages
        /\ \A l \in Taps : l # k => tap'[l] = tap[l]
    BY <1>1, <2>1, <2>2
  <2>4. Named'
    BY <1>1, <2>1, <2>3 DEF Named, listen, writing
  <2>5. QED
    BY <1>1, <2>1, <2>3, <2>4 DEF TypeInv, TypeOK, store, listen, writing, server, network, NetworkOK, history
<1>6. CASE Delete(k)
  <2> DEFINE r == [NoTap EXCEPT !.pc = "done"]
  <2>1. /\ tap' = [tap EXCEPT ![k] = r] /\ drafts' = tap[k].next
        /\ deleted' = deleted \cup {tap[k].msg} /\ clobbered' \in BOOLEAN /\ tap[k].pc = "write"
        /\ UNCHANGED <<activeTurn, events, listen, writing, server, network, queued>>
    BY <1>1, <1>6 DEF Delete, TypeOK
  <2>2. r \in Tap(turns) /\ r.pc = "done"
    <3>1. r = [pc |-> "done", msg |-> NoMessage, turn |-> 0, next |-> <<>>]
      BY DEF NoTap
    <3>2. 0 \in 0..turns /\ <<>> \in Seq(Drafts)
      BY <1>1
    <3>3. QED
      BY <3>1, <3>2 DEF Tap
  <2> HIDE DEF r
  <2>3. tap' \in [Taps -> Tap(turns)] /\ tap'[k].pc = "done"
        /\ \A l \in Taps : l # k => tap'[l] = tap[l]
    BY <1>1, <2>1, <2>2
  <2>4. Named'
    BY <1>1, <2>1, <2>3 DEF Named, listen, writing
  <2>5. tap[k].next \in Seq(Drafts) /\ tap[k].msg \in Messages
    BY <1>1, <2>1 DEF Tap, Named
  <2>6. QED
    BY <1>1, <2>1, <2>3, <2>4, <2>5 DEF TypeInv, TypeOK, listen, writing, server, network, NetworkOK
<1>7. QED
  BY <1>2, <1>3, <1>4, <1>5, <1>6

\* What comes off a broken connection is a start or a steer that names a turn.
LEMMA Arrives ==
    ASSUME TypeInv, NEW c \in adrift, Arrive(c)
    PROVE  c.copy \in Copies /\ \E t \in Nat \ {0} : TakeStart(c.copy) \/ TakeSteer(c.copy, t)
<1>1. TypeOK /\ NetworkOK
  BY DEF TypeInv, TypeOK
<1>2. c \in [copy : Copies, turn : 0..turns] /\ turns \in Nat
  BY <1>1 DEF NetworkOK, TypeOK
<1>3. c.copy \in Copies /\ c.turn \in Nat /\ 1 \in Nat \ {0}
  BY <1>2
<1>4. QED
  BY <1>3 DEF Arrive

LEMMA ArriveTypes ==
    ASSUME TypeInv, NEW c \in adrift, Arrive(c)
    PROVE  TypeInv'
<1>1. TypeOK /\ Named /\ c.copy \in Copies
  BY Arrives DEF TypeInv
<1>2. adrift' = adrift \ {c} /\ UNCHANGED <<store, listen, writing, tap, failures, again, history>>
  BY DEF Arrive
<1>3. \E t \in Nat \ {0} : TakeStart(c.copy) \/ TakeSteer(c.copy, t)
  BY Arrives
<1>4. /\ turns' \in Nat /\ turns <= turns' /\ turn' \in 0..turns'
      /\ taken' \in Seq(Copies) /\ events' \in Seq(Event(turns'))
  BY <1>1, <1>3, ServerTypes
<1>5. Named'
  BY <1>1, <1>2 DEF Named, listen, writing
<1>6. /\ listener' \in {"recv", "check", "send"} /\ sending' \in Messages \cup {NoMessage}
      /\ writer' \in [Messages -> {"unwritten", "queue", "steer", "start", "done"}]
      /\ tap' \in [Taps -> Tap(turns)]
      /\ UNCHANGED <<drafts, activeTurn, aim, queued, deleted, clobbered>>
  BY <1>1, <1>2 DEF TypeOK, store, listen, writing, history
<1>7. NetworkOK'
  <2>1. adrift' \subseteq adrift /\ UNCHANGED <<failures, again>>
    BY <1>2
  <2>2. turns \in Nat /\ NetworkOK
    BY <1>1 DEF TypeOK
  <2>3. QED
    BY <1>4, <2>1, <2>2, AdriftWidened
<1>8. QED
  BY <1>1, <1>4, <1>5, <1>6, <1>7, Widened

LEMMA WorkerTypes ==
    ASSUME TypeInv, Worker
    PROVE  TypeInv'
<1>1. TypeOK /\ Named /\ turns \in Nat
  BY DEF TypeInv, TypeOK
<1>2. \E w \in Messages \cup Taps \cup {Automatic}, m \in Messages, t \in 0..turns : SendAgain(w, m, t)
  <2>1. CASE listener = "send" /\ SendAgain(Automatic, sending, 0)
    <3>1. sending \in Messages /\ 0 \in 0..turns
      BY <1>1, <2>1 DEF Named, TypeOK
    <3>2. QED
      BY <2>1, <3>1
  <2>2. CASE \E m \in Messages : writer[m] = "steer" /\ SendAgain(m, m, aim[m])
    <3>1. \A m \in Messages : aim[m] \in 0..turns
      BY <1>1 DEF TypeOK
    <3>2. QED
      BY <2>2, <3>1
  <2>3. CASE \E m \in Messages : writer[m] = "start" /\ SendAgain(m, m, 0)
    <3>1. 0 \in 0..turns
      BY <1>1
    <3>2. QED
      BY <2>3, <3>1
  <2>4. CASE \E k \in Taps : tap[k].pc = "steer" /\ SendAgain(k, tap[k].msg, tap[k].turn)
    <3>1. PICK k \in Taps : tap[k].pc = "steer" /\ SendAgain(k, tap[k].msg, tap[k].turn)
      BY <2>4
    <3>2. tap[k].msg \in Messages /\ tap[k].turn \in 0..turns
      BY <1>1, <3>1 DEF Named, TypeOK, Tap
    <3>3. QED
      BY <3>1, <3>2
  <2>5. QED
    BY <2>1, <2>2, <2>3, <2>4 DEF Worker
<1>3. PICK w \in Messages \cup Taps \cup {Automatic}, m \in Messages, t \in 0..turns :
           SendAgain(w, m, t)
  BY <1>2
<1>4. UNCHANGED <<store, events, listen, writing, tap, server, history>>
  BY <1>3 DEF SendAgain
<1>5. NetworkOK'
  BY <1>1, <1>3, <1>4, RequestTypes DEF TypeOK, server
<1>6. QED
  BY <1>1, <1>4, <1>5 DEF TypeInv, TypeOK, Named, store, listen, writing, server, history

LEMMA InitTypes == Init => TypeInv
<1>1. SUFFICES ASSUME Init PROVE TypeInv
  OBVIOUS
<1>2. /\ drafts = <<>> /\ activeTurn = 0 /\ events = <<>> /\ listener = "recv"
      /\ sending = NoMessage /\ writer = [m \in Messages |-> "unwritten"]
      /\ aim = [m \in Messages |-> 0] /\ turn = 0 /\ turns = 0 /\ taken = <<>> /\ failures = 0
      /\ again = {} /\ adrift = {}
      /\ queued = {} /\ deleted = {} /\ clobbered = FALSE
  BY <1>1 DEF Init
<1>3. tap \in [Taps -> Tap(turns)] /\ \A k \in Taps : tap[k].pc = "none"
  BY <1>1 DEF Init, NoTap, Tap
<1>4. TypeOK
  <2>1. /\ drafts \in Seq(Drafts) /\ events \in Seq(Event(turns)) /\ taken \in Seq(Copies)
        /\ writer \in [Messages -> {"unwritten", "queue", "steer", "start", "done"}]
        /\ aim \in [Messages -> 0..turns] /\ 0 \in 0..turns /\ 0 \in 0..MaxFailures
    BY <1>2, QueueAssumption
  <2>2. NetworkOK
    BY <1>2, <2>1 DEF NetworkOK
  <2>3. QED
    BY <1>2, <1>3, <2>1, <2>2 DEF TypeOK
<1>5. Named
  BY <1>2, <1>3 DEF Named
<1>6. QED
  BY <1>4, <1>5 DEF TypeInv

LEMMA StepTypes == TypeInv /\ [Next]_vars => TypeInv'
<1>1. SUFFICES ASSUME TypeInv, [Next]_vars PROVE TypeInv'
  OBVIOUS
<1>2. CASE Complete
  <2>1. TypeOK /\ Named
    BY <1>1 DEF TypeInv
  <2>2. /\ turn' = 0 /\ turn # 0 /\ events' = Append(events, Completed(turn))
        /\ UNCHANGED <<store, listen, writing, tap, turns, taken, network, history>>
    BY <1>2 DEF Complete
  <2>3. turn \in 1..turns
    BY <2>1, <2>2 DEF TypeOK
  <2>4. events' \in Seq(Event(turns))
    <3>1. Completed(turn) \in Event(turns) /\ events \in Seq(Event(turns))
      BY <2>1, <2>3, EventTypes DEF TypeOK
    <3>2. QED
      BY <2>2, <3>1
  <2>5. QED
    BY <2>1, <2>2, <2>4
    DEF TypeInv, TypeOK, Named, store, listen, writing, network, NetworkOK, history
<1>3. CASE Listener
  BY <1>1, <1>3, ListenerTypes
<1>4. ASSUME NEW m \in Messages, Write(m) \/ Queue(m) \/ SteerAtOnce(m) \/ Start(m) PROVE TypeInv'
  BY <1>1, <1>4, WriterTypes
<1>5. ASSUME NEW k \in Taps, BeginSteer(k) \/ Steer(k) \/ Delete(k) PROVE TypeInv'
  BY <1>1, <1>5, TapTypes
<1>6. ASSUME NEW k \in Taps, NEW m \in Messages, TapSteer(k, m) \/ TapDelete(k, m) PROVE TypeInv'
  BY <1>1, <1>6, TapTypes
<1>7. ASSUME NEW c \in adrift, Arrive(c) PROVE TypeInv'
  BY <1>1, <1>7, ArriveTypes
<1>8. CASE Worker
  BY <1>1, <1>8, WorkerTypes
<1>9. CASE UNCHANGED vars
  BY <1>1, <1>9 DEF TypeInv, TypeOK, Named, vars, store, listen, writing, server, network, NetworkOK, history
<1>10. QED
  BY <1>1, <1>2, <1>3, <1>4, <1>5, <1>6, <1>7, <1>8, <1>9 DEF Next, User

LEMMA TypeInvHolds == Spec => []TypeInv
BY InitTypes, StepTypes, PTL DEF Spec

\* Every variable keeps its type, whatever the bounds.
THEOREM TypeCorrect == Spec => []TypeOK
<1>1. TypeInv => TypeOK
  BY DEF TypeInv
<1>2. QED
  BY <1>1, TypeInvHolds, PTL

-----------------------------------------------------------------------------
(* The order of events.                                                     *)

\* The active turn of a thread that has a, after the first i of the events e.
After(a, e, i) ==
    IF i = 0 THEN a ELSE IF e[i].is = "completed" THEN 0 ELSE e[i].turn

\* Turns follow each other; the last event leaves the thread with the turn n that
\* the server runs, and no turn that has completed is running.
Orderly(a, e, n) ==
    /\ \A i \in DOMAIN e : After(a, e, i - 1) = IF e[i].is = "started" THEN 0 ELSE e[i].turn
    /\ n = After(a, e, Len(e))
    /\ \A i \in DOMAIN e : e[i].is = "completed" => e[i].turn # n

LEMMA OrderlyAppend ==
    ASSUME NEW X, NEW e \in Seq(X), NEW a, NEW n, Orderly(a, e, n), NEW x, NEW k,
           n = IF x.is = "started" THEN 0 ELSE x.turn,
           k = IF x.is = "completed" THEN 0 ELSE x.turn,
           x.is = "completed" => x.turn # k,
           \A i \in DOMAIN e : e[i].is = "completed" => e[i].turn # k
    PROVE  Orderly(a, Append(e, x), k)
<1> DEFINE s == Append(e, x)
<1>1. /\ Len(e) \in Nat /\ DOMAIN e = 1..Len(e) /\ Len(s) = Len(e) + 1 /\ DOMAIN s = 1..Len(s)
      /\ s[Len(s)] = x /\ \A i \in DOMAIN e : s[i] = e[i]
  OBVIOUS
<1> HIDE DEF s
<1>2. \A i \in 0..Len(e) : After(a, s, i) = After(a, e, i)
  BY <1>1 DEF After
<1>3. n = After(a, e, Len(e))
  BY DEF Orderly
<1>4. ASSUME NEW i \in DOMAIN s
      PROVE  /\ After(a, s, i - 1) = IF s[i].is = "started" THEN 0 ELSE s[i].turn
             /\ s[i].is = "completed" => s[i].turn # k
  <2>1. CASE i \in DOMAIN e
    <3>1. After(a, s, i - 1) = After(a, e, i - 1) /\ s[i] = e[i]
      BY <1>1, <1>2, <2>1
    <3>2. QED
      BY <2>1, <3>1 DEF Orderly
  <2>2. CASE i \notin DOMAIN e
    <3>1. i = Len(s) /\ s[i] = x /\ After(a, s, i - 1) = n
      BY <1>1, <1>2, <1>3, <2>2
    <3>2. QED
      BY <3>1
  <2>3. QED
    BY <2>1, <2>2
<1>5. k = After(a, s, Len(s))
  BY <1>1 DEF After
<1>6. QED
  BY <1>4, <1>5 DEF Orderly, s

LEMMA OrderlyTail ==
    ASSUME NEW X, NEW e \in Seq(X), e # <<>>, NEW a, NEW n, Orderly(a, e, n)
    PROVE  Orderly(After(a, e, 1), Tail(e), n)
<1> DEFINE s == Tail(e)
           b == After(a, e, 1)
<1>1. /\ Len(e) \in Nat \ {0} /\ DOMAIN e = 1..Len(e) /\ Len(s) = Len(e) - 1 /\ DOMAIN s = 1..Len(s)
      /\ \A i \in DOMAIN s : s[i] = e[i + 1] /\ i + 1 \in DOMAIN e
  OBVIOUS
<1> HIDE DEF s
<1>2. \A i \in 0..Len(s) : After(b, s, i) = After(a, e, i + 1)
  BY <1>1 DEF After
<1>3. ASSUME NEW i \in DOMAIN s
      PROVE  /\ After(b, s, i - 1) = IF s[i].is = "started" THEN 0 ELSE s[i].turn
             /\ s[i].is = "completed" => s[i].turn # n
  <2> DEFINE j == i + 1
  <2>1. /\ After(b, s, i - 1) = After(a, e, i) /\ i = j - 1
        /\ s[i] = e[j] /\ j \in DOMAIN e
    BY <1>1, <1>2
  <2> HIDE DEF j
  <2>2. /\ After(a, e, j - 1) = IF e[j].is = "started" THEN 0 ELSE e[j].turn
        /\ e[j].is = "completed" => e[j].turn # n
    BY <2>1, Zenon DEF Orderly
  <2>3. QED
    BY <2>1, <2>2
<1>4. n = After(b, s, Len(s))
  BY <1>1, <1>2 DEF Orderly
<1>5. QED
  BY <1>3, <1>4 DEF Orderly, s

Ordered == Orderly(activeTurn, events, turn)

\* A tap that names the running turn read it from the store, which has it still.
Live(k) == turn # 0 /\ tap[k].turn = turn
LiveIsActive == \A k \in Taps : Live(k) => activeTurn = turn

\* The listener leaves its loop for a thread without a turn.
IdleOutside == listener # "recv" => activeTurn = 0

OrderInv == Ordered /\ LiveIsActive /\ IdleOutside

\* What the server takes it adds in order; a turn it starts nobody has named yet.
LEMMA ServerOrder ==
    ASSUME TypeInv, OrderInv, NEW m, NEW t \in Nat \ {0}, TakeStart(m) \/ TakeSteer(m, t),
           activeTurn' = activeTurn
    PROVE  /\ Ordered' /\ turn' # 0
           /\ turn' # turn => turn = 0 /\ \A k \in Taps : tap[k].turn # turn'
<1>1. /\ TypeOK /\ events \in Seq(Event(turns)) /\ turns \in Nat /\ turn \in 0..turns
      /\ tap \in [Taps -> Tap(turns)] /\ Orderly(activeTurn, events, turn)
  BY DEF TypeInv, TypeOK, OrderInv, Ordered
<1>2. \A i \in DOMAIN events : events[i] \in Event(turns)
  BY <1>1
<1>3. CASE TakeStart(m) /\ turn = 0
  <2> DEFINE n == turns + 1
             e == Append(events, Started(n))
  <2>1. turn' = n /\ events' = events \o <<Started(n), UserMessage(n)>>
    BY <1>3 DEF TakeStart
  <2>2. \A i \in DOMAIN events : events[i].turn # n
    <3>1. \A i \in DOMAIN events : events[i].turn \in 1..turns
      BY <1>2 DEF Event
    <3>2. QED
      BY <1>1, <3>1
  <2>3. Started(n).is = "started" /\ Started(n).turn = n
        /\ UserMessage(n).is = "user message" /\ UserMessage(n).turn = n
    BY DEF Started, UserMessage
  <2> HIDE DEF n
  <2>4. Orderly(activeTurn, e, n)
    BY <1>1, <1>3, <2>2, <2>3, OrderlyAppend
  <2>5. /\ e \in Seq(Event(turns) \cup {Started(n)})
        /\ \A i \in DOMAIN e : e[i].is = "completed" => e[i].turn # n
    <3>1. e \in Seq(Event(turns) \cup {Started(n)})
      BY <1>1
    <3>2. \A i \in DOMAIN e : IF i \in DOMAIN events THEN e[i] = events[i] ELSE e[i] = Started(n)
      BY <1>1
    <3>3. QED
      BY <2>2, <2>3, <3>1, <3>2
  <2>6. events' = Append(e, UserMessage(n))
    <3> DEFINE S == Event(turns) \cup {Started(n), UserMessage(n)}
    <3>1. events \in Seq(S) /\ Started(n) \in S /\ UserMessage(n) \in S
      BY <1>1
    <3> HIDE DEF S
    <3>2. QED
      BY <2>1, <3>1
  <2> HIDE DEF e
  <2>7. Orderly(activeTurn, events', n)
    BY <2>3, <2>4, <2>5, <2>6, OrderlyAppend
  <2>8. \A k \in Taps : tap[k].turn # n
    BY <1>1 DEF Tap, n
  <2>9. n # 0
    BY <1>1 DEF n
  <2>10. QED
    BY <1>3, <2>1, <2>7, <2>8, <2>9 DEF Ordered
<1>4. CASE (TakeStart(m) /\ turn # 0) \/ TakeSteer(m, t)
  <2>1. turn # 0 /\ turn' = turn /\ events' = Append(events, UserMessage(turn))
    BY <1>4 DEF TakeStart, TakeSteer
  <2>2. UserMessage(turn).is = "user message" /\ UserMessage(turn).turn = turn
    BY DEF UserMessage
  <2>3. \A i \in DOMAIN events : events[i].is = "completed" => events[i].turn # turn
    BY <1>1 DEF Orderly
  <2>4. Orderly(activeTurn, Append(events, UserMessage(turn)), turn)
    BY <1>1, <2>2, <2>3, OrderlyAppend
  <2>5. QED
    BY <2>1, <2>4 DEF Ordered
<1>5. QED
  BY <1>3, <1>4

\* A step that leaves the turns alone, and whose taps name no turn but the active one.
LEMMA OrderKept ==
    ASSUME OrderInv, UNCHANGED <<activeTurn, events, turn>>,
           listener' # "recv" => listener # "recv" \/ activeTurn = 0,
           \A k \in Taps : tap'[k].turn \in {tap[k].turn, activeTurn, 0}
    PROVE  OrderInv'
<1>1. Ordered'
  BY DEF OrderInv, Ordered
<1>2. LiveIsActive'
  <2>1. SUFFICES ASSUME NEW k \in Taps, turn' # 0, tap'[k].turn = turn' PROVE activeTurn' = turn'
    BY DEF LiveIsActive, Live
  <2>2. CASE tap'[k].turn = tap[k].turn
    BY <2>1, <2>2 DEF OrderInv, LiveIsActive, Live
  <2>3. QED
    BY <2>1, <2>2
<1>3. IdleOutside'
  BY DEF OrderInv, IdleOutside
<1>4. QED
  BY <1>1, <1>2, <1>3 DEF OrderInv

\* A step by which the server takes a message.
LEMMA OrderGrows ==
    ASSUME TypeInv, OrderInv, NEW m, NEW t \in Nat \ {0}, TakeStart(m) \/ TakeSteer(m, t),
           activeTurn' = activeTurn,
           listener' # "recv" => listener # "recv",
           \A k \in Taps : tap'[k].turn = tap[k].turn
    PROVE  OrderInv'
<1>1. /\ Ordered' /\ turn' # 0
      /\ turn' # turn => turn = 0 /\ \A k \in Taps : tap[k].turn # turn'
  BY ServerOrder
<1>2. LiveIsActive'
  BY <1>1 DEF OrderInv, LiveIsActive, Live
<1>3. IdleOutside'
  BY DEF OrderInv, IdleOutside
<1>4. QED
  BY <1>1, <1>2, <1>3 DEF OrderInv

\* The first event leads from the active turn to the next.
LEMMA FirstEvent ==
    ASSUME NEW N \in Nat, NEW e \in Seq(Event(N)), e # <<>>, NEW a, NEW n, Orderly(a, e, n)
    PROVE  /\ Head(e) = e[1] /\ 1 \in DOMAIN e /\ Head(e).turn # 0
           /\ a = IF Head(e).is = "started" THEN 0 ELSE Head(e).turn
           /\ Head(e).is = "completed" => Head(e).turn # n
<1>1. Head(e) = e[1] /\ 1 \in DOMAIN e /\ e[1] \in Event(N) /\ 1 - 1 = 0
  OBVIOUS
<1>2. /\ After(a, e, 1 - 1) = IF e[1].is = "started" THEN 0 ELSE e[1].turn
      /\ e[1].is = "completed" => e[1].turn # n
  BY <1>1, Zenon DEF Orderly
<1>3. After(a, e, 1 - 1) = a
  BY <1>1 DEF After
<1>4. e[1].turn # 0
  <2>1. e[1].turn \in 1..N
    BY <1>1 DEF Event
  <2>2. QED
    BY <2>1
<1>5. QED
  BY <1>1, <1>2, <1>3, <1>4

LEMMA HeadOrder ==
    ASSUME TypeInv, OrderInv, events # <<>>
    PROVE  /\ Head(events) = events[1] /\ 1 \in DOMAIN events /\ Head(events).turn # 0
           /\ activeTurn = IF Head(events).is = "started" THEN 0 ELSE Head(events).turn
           /\ Head(events).is = "completed" => Head(events).turn # turn
BY FirstEvent DEF TypeInv, TypeOK, OrderInv, Ordered

LEMMA ListenerOrder ==
    ASSUME TypeInv, OrderInv, Listener
    PROVE  OrderInv'
<1>1. ASSUME NEW kind, Receive(kind), UNCHANGED listener \/ activeTurn' = 0,
             activeTurn' = After(activeTurn, events, 1),
             kind = "user message" => activeTurn' = activeTurn,
             kind \in {"started", "completed", "user message"}
      PROVE  OrderInv'
  <2>1. /\ listener = "recv" /\ events # <<>> /\ Head(events).is = kind /\ events' = Tail(events)
        /\ turn' = turn /\ tap' = tap
    BY <1>1 DEF Receive, server
  <2>2. Ordered'
    BY <1>1, <2>1, OrderlyTail DEF TypeInv, TypeOK, OrderInv, Ordered
  <2>3. LiveIsActive'
    <3>1. SUFFICES ASSUME NEW k \in Taps, turn # 0, tap[k].turn = turn PROVE activeTurn' = turn
      BY <2>1 DEF LiveIsActive, Live
    <3>2. activeTurn = turn
      BY <3>1 DEF OrderInv, LiveIsActive, Live
    <3>3. kind = "user message"
      BY <1>1, <2>1, <3>1, <3>2, HeadOrder
    <3>4. QED
      BY <1>1, <3>2, <3>3
  <2>4. IdleOutside'
    BY <1>1, <2>1 DEF IdleOutside
  <2>5. QED
    BY <2>2, <2>3, <2>4 DEF OrderInv
<1>2. CASE TurnStarted
  <2>1. Receive("started") /\ activeTurn' = Head(events).turn /\ listener' = listener
    BY <1>2 DEF TurnStarted
  <2>2. Head(events).is = "started" /\ events # <<>>
    BY <2>1 DEF Receive
  <2>3. activeTurn' = After(activeTurn, events, 1)
    BY <2>1, <2>2, HeadOrder DEF After
  <2>4. QED
    BY <1>1, <2>1, <2>3
<1>3. CASE UserItem
  <2>1. Receive("user message") /\ activeTurn' = activeTurn /\ listener' = listener
    BY <1>3 DEF UserItem
  <2>2. Head(events).is = "user message" /\ events # <<>>
    BY <2>1 DEF Receive
  <2>3. activeTurn' = After(activeTurn, events, 1)
    BY <2>1, <2>2, HeadOrder DEF After
  <2>4. QED
    BY <1>1, <2>1, <2>3
<1>4. CASE TurnCompleted
  <2>1. Receive("completed") /\ activeTurn' = 0
    BY <1>4 DEF TurnCompleted
  <2>2. Head(events).is = "completed" /\ events # <<>>
    BY <2>1 DEF Receive
  <2>3. activeTurn' = After(activeTurn, events, 1)
    BY <2>1, <2>2, HeadOrder DEF After
  <2>4. QED
    BY <1>1, <2>1, <2>3
<1>5. CASE SendNext
  <2>1. /\ UNCHANGED <<activeTurn, events, turn>> /\ listener # "recv" /\ tap' = tap
    BY <1>5 DEF SendNext, store, server
  <2>2. QED
    BY <2>1, OrderKept
<1>6. CASE Sent
  <2>1. activeTurn' = activeTurn /\ listener' = "recv" /\ tap' = tap
    BY <1>6 DEF Sent, store
  <2>2. CASE TakeStart(Copy(sending, 0))
    <3>1. 1 \in Nat \ {0}
      OBVIOUS
    <3>2. QED
      BY <2>1, <2>2, <3>1, OrderGrows
  <2>3. CASE UNCHANGED <<events, server>>
    <3>1. events' = events /\ turn' = turn
      BY <2>3 DEF server
    <3>2. QED
      BY <2>1, <3>1, OrderKept
  <2>4. QED
    BY <1>6, <2>2, <2>3 DEF Sent, Failed
<1>7. QED
  BY <1>2, <1>3, <1>4, <1>5, <1>6 DEF Listener

LEMMA WriterOrder ==
    ASSUME TypeInv, OrderInv, NEW m \in Messages,
           Write(m) \/ Queue(m) \/ SteerAtOnce(m) \/ Start(m)
    PROVE  OrderInv'
<1>1. activeTurn' = activeTurn /\ listener' = listener /\ tap' = tap
  BY DEF Write, Queue, SteerAtOnce, Start, store, listen
<1>2. CASE UNCHANGED <<events, server>>
  <2>1. events' = events /\ turn' = turn
    BY <1>2 DEF server
  <2>2. QED
    BY <1>1, <2>1, OrderKept
<1>3. CASE TakeStart(Copy(m, 0))
  <2>1. 1 \in Nat \ {0}
    OBVIOUS
  <2>2. QED
    BY <1>1, <1>3, <2>1, OrderGrows
<1>4. CASE SteerAtOnce(m) /\ TakeSteer(Copy(m, 0), aim[m])
  <2>1. aim[m] \in Nat \ {0}
    BY <1>4 DEF SteerAtOnce, TypeInv, TypeOK, Named
  <2>2. QED
    BY <1>1, <1>4, <2>1, OrderGrows
<1>5. CASE Write(m) \/ Queue(m)
  BY <1>2, <1>5 DEF Write, Queue
<1>6. QED
  BY <1>2, <1>3, <1>4, <1>5 DEF SteerAtOnce, Start, Unsteered, Failed

LEMMA TapOrder ==
    ASSUME TypeInv, OrderInv, NEW k \in Taps,
           \/ BeginSteer(k) \/ Steer(k) \/ Delete(k)
           \/ \E m \in Messages : TapSteer(k, m) \/ TapDelete(k, m)
    PROVE  OrderInv'
<1>1. activeTurn' = activeTurn /\ listener' = listener /\ TypeOK /\ tap \in [Taps -> Tap(turns)]
  BY DEF BeginSteer, Steer, Delete, TapSteer, TapDelete, store, listen, TypeInv, TypeOK
<1>2. CASE Steer(k)
  <2>1. tap[k].pc = "steer" /\ tap' = [tap EXCEPT ![k].pc = "done"]
    BY <1>2 DEF Steer
  <2>2. \A l \in Taps : tap'[l].turn = tap[l].turn
    BY <1>1, <2>1, TapMoves
  <2>3. CASE TakeSteer(Copy(tap[k].msg, 0), tap[k].turn)
    <3>1. tap[k].turn \in Nat \ {0}
      BY <1>1, <2>1 DEF TypeInv, TypeOK, Named, Tap
    <3>2. QED
      BY <1>1, <2>2, <2>3, <3>1, OrderGrows
  <2>4. CASE UNCHANGED <<events, server>>
    <3>1. events' = events /\ turn' = turn
      BY <2>4 DEF server
    <3>2. QED
      BY <1>1, <2>2, <3>1, OrderKept
  <2>5. QED
    BY <1>2, <2>3, <2>4 DEF Steer, Unsteered, Failed
<1>3. CASE ~Steer(k)
  <2>1. events' = events /\ turn' = turn
    BY <1>3 DEF BeginSteer, Delete, TapSteer, TapDelete, server
  <2>2. \A l \in Taps : tap'[l].turn \in {tap[l].turn, activeTurn, 0}
    <3>1. CASE BeginSteer(k)
      <4>1. \E p \in {"done", "steer"} : tap' = [tap EXCEPT ![k].pc = p]
        BY <3>1 DEF BeginSteer
      <4>2. QED
        BY <1>1, <4>1, TapMoves
    <3>2. CASE Delete(k)
      <4>1. tap' = [tap EXCEPT ![k] = [NoTap EXCEPT !.pc = "done"]]
        BY <3>2 DEF Delete
      <4>2. [NoTap EXCEPT !.pc = "done"].turn = 0
        BY DEF NoTap
      <4>3. QED
        BY <1>1, <4>1, <4>2
    <3>3. CASE \E m \in Messages : TapSteer(k, m) \/ TapDelete(k, m)
      <4>1. \E r : tap' = [tap EXCEPT ![k] = r] /\ r.turn \in {activeTurn, 0}
        <5>1. PICK m \in Messages : TapSteer(k, m) \/ TapDelete(k, m)
          BY <3>3
        <5>2. CASE TapSteer(k, m)
          <6> DEFINE r == [pc |-> "begin", msg |-> m, turn |-> activeTurn, next |-> <<>>]
          <6>1. tap' = [tap EXCEPT ![k] = r] /\ r.turn = activeTurn
            BY <5>2 DEF TapSteer
          <6>2. QED
            BY <6>1
        <5>3. CASE TapDelete(k, m)
          <6> DEFINE r == [pc |-> "write", msg |-> m, turn |-> 0, next |-> Without(drafts, m)]
          <6>1. tap' = [tap EXCEPT ![k] = r] /\ r.turn = 0
            BY <5>3 DEF TapDelete
          <6>2. QED
            BY <6>1
        <5>4. QED
          BY <5>1, <5>2, <5>3
      <4>2. QED
        BY <1>1, <4>1
    <3>4. QED
      BY <1>3, <3>1, <3>2, <3>3
  <2>3. QED
    BY <1>1, <2>1, <2>2, OrderKept
<1>4. QED
  BY <1>2, <1>3

LEMMA OrderStep == TypeInv /\ OrderInv /\ [Next]_vars => OrderInv'
<1> SUFFICES ASSUME TypeInv, OrderInv, [Next]_vars PROVE OrderInv'
  OBVIOUS
<1>1. CASE Complete
  <2>1. /\ turn' = 0 /\ turn # 0 /\ events' = Append(events, Completed(turn))
        /\ activeTurn' = activeTurn /\ listener' = listener
    BY <1>1 DEF Complete, store, listen
  <2>2. events \in Seq(Event(turns)) /\ Orderly(activeTurn, events, turn)
    BY DEF TypeInv, TypeOK, OrderInv, Ordered
  <2>3. \A i \in DOMAIN events : events[i].turn # 0
    <3>1. \A i \in DOMAIN events : events[i].turn \in 1..turns
      <4>1. \A i \in DOMAIN events : events[i] \in Event(turns)
        BY <2>2
      <4>2. QED
        BY <4>1 DEF Event
    <3>2. QED
      BY <3>1 DEF TypeInv, TypeOK
  <2>4. Completed(turn).is = "completed" /\ Completed(turn).turn = turn
    BY DEF Completed
  <2>5. Orderly(activeTurn, events', 0)
    BY <2>1, <2>2, <2>3, <2>4, OrderlyAppend
  <2>6. QED
    BY <2>1, <2>5 DEF OrderInv, Ordered, LiveIsActive, Live, IdleOutside
<1>2. CASE Listener
  BY <1>2, ListenerOrder
<1>3. CASE User
  BY <1>3, WriterOrder, TapOrder DEF User
<1>4. CASE UNCHANGED vars \/ Worker
  <2>1. UNCHANGED <<activeTurn, events, turn>> /\ listener' = listener /\ tap' = tap
    BY <1>4 DEF vars, Worker, SendAgain, store, listen, server
  <2>2. QED
    BY <2>1, OrderKept
<1>5. ASSUME NEW c \in adrift, Arrive(c) PROVE OrderInv'
  <2>1. activeTurn' = activeTurn /\ listener' = listener /\ tap' = tap
    BY <1>5 DEF Arrive, store, listen
  <2>2. \E t \in Nat \ {0} : TakeStart(c.copy) \/ TakeSteer(c.copy, t)
    BY <1>5, Arrives
  <2>3. QED
    BY <2>1, <2>2, OrderGrows
<1>6. QED
  BY <1>1, <1>2, <1>3, <1>4, <1>5 DEF Next

-----------------------------------------------------------------------------
(* Once at most.                                                            *)

\* The agent has m by a request that was answered.
IsTaken(m) == \E i \in DOMAIN taken : taken[i] = Copy(m, 0)

\* A message whose start_turn is under way is in no queue and not with the agent.
Unwritten == \A m \in Messages : writer[m] # "done" => m \notin queued /\ ~IsTaken(m)

Once(q) == \A i, j \in DOMAIN q : q[i].msg = q[j].msg => i = j
Drafted == Once(drafts) /\ \A i \in DOMAIN drafts : drafts[i].msg \in queued

Aimed == \A k \in Taps : tap[k].pc \in {"begin", "steer"} => tap[k].msg \in queued

\* The draft being sent has not been sent, and is the first of the queue or gone.
AtHand ==
    sending # NoMessage =>
        /\ sending \in queued /\ ~IsTaken(sending)
        /\ \A i \in DOMAIN drafts : drafts[i].msg = sending => i = 1

\* A draft the agent has leaves the queue before the next automatic send: the
\* start of a turn takes it off, or it was steered and the turn's end does.
TakenLeaves ==
    \A i \in DOMAIN drafts : IsTaken(drafts[i].msg) =>
        /\ listener = "recv"
        /\ activeTurn = 0 => i = 1 /\ events # <<>> /\ Head(events).is = "started"
        /\ activeTurn # 0 => drafts[i].kind = "pending steer"

\* A steer that the server may still take has a message nobody else sends.
Steered ==
    \A k \in Taps : tap[k].pc = "steer" /\ Live(k) =>
        /\ ~IsTaken(tap[k].msg)
        /\ \A i \in DOMAIN drafts : drafts[i].msg = tap[k].msg => drafts[i].kind = "pending steer"
        /\ \A l \in Taps : tap[l].pc = "steer" /\ Live(l) /\ tap[l].msg = tap[k].msg => l = k

TakenOnce ==
    \A i, j \in DOMAIN taken : taken[i].broke = 0 /\ taken[i] = taken[j] => i = j

Settled == Unwritten /\ Drafted /\ Aimed /\ AtHand /\ Steered /\ TakenOnce
QueueInv == Settled /\ TakenLeaves

\* r is what some drafts of q become when others leave the queue.
Fewer(r, q) ==
    /\ Once(q) => Once(r)
    /\ \A j \in DOMAIN r : \E i \in DOMAIN q : r[j] = q[i] /\ (i = 1 => j = 1)

LEMMA FewerSame == ASSUME NEW q PROVE Fewer(q, q)
BY DEF Fewer

LEMMA FewerKept ==
    ASSUME NEW Z, NEW q \in Seq(Z), NEW S
    PROVE  Fewer(Kept(q, S), q)
<1> DEFINE r == Kept(q, S)
<1>1. PICK f : Picks(f, r, q)
  BY KeptAll
<1>2. r \in Seq(Z)
  BY KeptAll
<1> HIDE DEF r
<1>3. DOMAIN r \subseteq Nat \ {0} /\ DOMAIN q \subseteq Nat \ {0}
      /\ \A j \in DOMAIN r : 1 \in DOMAIN r
  BY <1>2
<1>4. \A j \in DOMAIN r : f[j] \in DOMAIN q /\ r[j] = q[f[j]]
  BY <1>1 DEF Picks
<1>5. ASSUME NEW j \in DOMAIN r, f[j] = 1 PROVE j = 1
  <2>1. SUFFICES ASSUME 1 < j PROVE FALSE
    BY <1>3
  <2>2. f[1] < f[j] /\ f[1] \in DOMAIN q
    BY <1>1, <1>3, <1>4, <2>1 DEF Picks
  <2>3. QED
    BY <1>3, <1>5, <2>2
<1>6. ASSUME Once(q), NEW i \in DOMAIN r, NEW j \in DOMAIN r, r[i].msg = r[j].msg PROVE i = j
  <2>1. f[i] = f[j] /\ f[i] \in Nat
    BY <1>3, <1>4, <1>6 DEF Once
  <2>2. ~(i < j) /\ ~(j < i)
    BY <1>1, <2>1 DEF Picks
  <2>3. QED
    BY <1>3, <2>2
<1>7. QED
  BY <1>4, <1>5, <1>6 DEF Fewer, Once, r

LEMMA FewerFirst ==
    ASSUME NEW Z, NEW q \in Seq(Z)
    PROVE  /\ Fewer(RemoveFirst(q), q)
           /\ \A j \in DOMAIN RemoveFirst(q) : j + 1 \in DOMAIN q /\ RemoveFirst(q)[j] = q[j + 1]
<1>1. CASE q = <<>>
  <2>1. RemoveFirst(q) = q /\ DOMAIN q = {}
    BY <1>1 DEF RemoveFirst
  <2>2. QED
    BY <2>1, FewerSame
<1>2. CASE q # <<>>
  <2> DEFINE r == RemoveFirst(q)
  <2>1. /\ DOMAIN r \subseteq Nat \ {0}
        /\ \A j \in DOMAIN r : j + 1 \in DOMAIN q /\ r[j] = q[j + 1]
    <3>1. r = Tail(q)
      BY <1>2 DEF RemoveFirst
    <3>2. QED
      BY <1>2, <3>1
  <2> HIDE DEF r
  <2>2. ASSUME Once(q), NEW i \in DOMAIN r, NEW j \in DOMAIN r, r[i].msg = r[j].msg PROVE i = j
    <3>1. i + 1 = j + 1
      BY <2>1, <2>2 DEF Once
    <3>2. QED
      BY <2>1, <3>1
  <2>3. \A j \in DOMAIN r : \E i \in DOMAIN q : r[j] = q[i] /\ (i = 1 => j = 1)
    <3>1. TAKE j \in DOMAIN r
    <3>2. j + 1 # 1
      BY <2>1
    <3>3. QED
      BY <2>1, <3>2
  <2>4. QED
    BY <2>1, <2>2, <2>3 DEF Fewer, Once, r
<1>3. QED
  BY <1>1, <1>2

\* What a tap that can still be taken says of the tap before the step.
TapsSettle(m) ==
    \A k \in Taps :
      /\ tap'[k].pc \in {"begin", "steer"} => tap'[k].msg \in queued
      /\ tap'[k].pc = "steer" /\ turn' # 0 /\ tap'[k].turn = turn' =>
            tap[k].pc = "steer" /\ Live(k) /\ tap'[k].msg = tap[k].msg /\ tap[k].msg # m

\* The agent is given nothing, or a copy from a broken connection.
Quiet == taken' = taken \/ \E c \in Copies : c.broke # 0 /\ taken' = Append(taken, c)

LEMMA QuietTaken ==
    ASSUME TypeInv, Quiet
    PROVE  (\A m : IsTaken(m)' <=> IsTaken(m)) /\ (TakenOnce => TakenOnce')
<1>1. CASE taken' = taken
  BY <1>1 DEF IsTaken, TakenOnce
<1>2. ASSUME NEW c \in Copies, c.broke # 0, taken' = Append(taken, c)
      PROVE  (\A m : IsTaken(m)' <=> IsTaken(m)) /\ (TakenOnce => TakenOnce')
  <2>1. taken \in Seq(Copies)
    BY DEF TypeInv, TypeOK
  <2>2. /\ DOMAIN taken = 1..Len(taken) /\ DOMAIN taken' = 1..(Len(taken) + 1) /\ Len(taken) \in Nat
        /\ taken'[Len(taken) + 1] = c /\ \A i \in DOMAIN taken : taken'[i] = taken[i]
    BY <1>2, <2>1
  <2>3. \A m : c # Copy(m, 0)
    BY <1>2, CopyIs
  <2>4. \A i \in DOMAIN taken' : i \in DOMAIN taken \/ taken'[i] = c
    BY <2>2
  <2>5. \A i \in DOMAIN taken : i \in DOMAIN taken'
    BY <2>2
  <2>6. \A m : IsTaken(m)' <=> IsTaken(m)
    BY <2>2, <2>3, <2>4, <2>5 DEF IsTaken
  <2>7. ASSUME TakenOnce, NEW i \in DOMAIN taken', NEW j \in DOMAIN taken',
               taken'[i].broke = 0, taken'[i] = taken'[j]
        PROVE  i = j
    <3>1. i \in DOMAIN taken /\ j \in DOMAIN taken
      BY <1>2, <2>4, <2>7
    <3>2. QED
      BY <2>2, <2>7, <3>1 DEF TakenOnce
  <2>8. QED
    BY <2>6, <2>7 DEF TakenOnce
<1>3. QED
  BY <1>1, <1>2 DEF Quiet

\* A step that gives the agent nothing by a request that is answered, and at most
\* takes drafts off the queue.
LEMMA QuietStep ==
    ASSUME TypeInv, Settled, Quiet, queued' = queued, Fewer(drafts', drafts),
           sending' \in {sending, NoMessage},
           \A m \in Messages : writer'[m] # "done" => writer[m] # "done",
           NEW x, TapsSettle(x)
    PROVE  Settled'
<1>1. \A m : IsTaken(m)' <=> IsTaken(m)
  BY QuietTaken
<1>2. Unwritten'
  BY <1>1 DEF Settled, Unwritten
<1>3. Drafted'
  BY DEF Settled, Drafted, Fewer
<1>4. Aimed'
  BY DEF Aimed, TapsSettle
<1>5. AtHand'
  BY <1>1 DEF Settled, AtHand, Fewer
<1>6. Steered'
  <2>1. SUFFICES ASSUME NEW k \in Taps, tap'[k].pc = "steer", turn' # 0, tap'[k].turn = turn'
        PROVE  /\ ~IsTaken(tap'[k].msg)
               /\ \A i \in DOMAIN drafts' :
                    drafts'[i].msg = tap'[k].msg => drafts'[i].kind = "pending steer"
               /\ \A l \in Taps : tap'[l].pc = "steer" /\ tap'[l].turn = turn'
                                    /\ tap'[l].msg = tap'[k].msg => l = k
    BY <1>1 DEF Steered, Live
  <2>2. \A l \in Taps : tap'[l].pc = "steer" /\ tap'[l].turn = turn' =>
                          tap[l].pc = "steer" /\ Live(l) /\ tap'[l].msg = tap[l].msg
    BY <2>1 DEF TapsSettle
  <2>3. tap[k].pc = "steer" /\ Live(k) /\ tap'[k].msg = tap[k].msg
    BY <2>1, <2>2
  <2>4. /\ ~IsTaken(tap[k].msg)
        /\ \A i \in DOMAIN drafts : drafts[i].msg = tap[k].msg => drafts[i].kind = "pending steer"
        /\ \A l \in Taps : tap[l].pc = "steer" /\ Live(l) /\ tap[l].msg = tap[k].msg => l = k
    BY <2>3 DEF Settled, Steered
  <2>5. \A j \in DOMAIN drafts' : \E i \in DOMAIN drafts : drafts'[j] = drafts[i]
    BY DEF Fewer
  <2>6. QED
    BY <2>2, <2>3, <2>4, <2>5
<1>7. TakenOnce'
  BY QuietTaken DEF Settled
<1>8. QED
  BY <1>2, <1>3, <1>4, <1>5, <1>6, <1>7 DEF Settled

\* A step that gives the agent a message it does not have.
LEMMA TakingStep ==
    ASSUME TypeInv, Settled, NEW m \in Messages, ~IsTaken(m), taken' = Append(taken, Copy(m, 0)),
           queued' = queued, drafts' = drafts,
           sending' \in {sending, NoMessage}, sending' # m,
           \A n \in Messages : writer'[n] # "done" => writer[n] # "done" /\ n # m,
           TapsSettle(m)
    PROVE  Settled' /\ \A n : IsTaken(n)' => IsTaken(n) \/ n = m
<1>1. /\ taken \in Seq(Copies) /\ Len(taken) \in Nat /\ DOMAIN taken = 1..Len(taken)
      /\ DOMAIN taken' = 1..(Len(taken) + 1) /\ taken'[Len(taken) + 1] = Copy(m, 0)
      /\ \A i \in DOMAIN taken : taken'[i] = taken[i]
  <2>1. taken \in Seq(Copies)
    BY DEF TypeInv, TypeOK
  <2>2. QED
    BY <2>1
<1>2. \A n : IsTaken(n)' => IsTaken(n) \/ n = m
  <2>1. \A n : Copy(n, 0) = Copy(m, 0) => n = m
    BY CopyIs
  <2>2. QED
    BY <1>1, <2>1 DEF IsTaken
<1>3. Unwritten'
  BY <1>2 DEF Settled, Unwritten
<1>4. Drafted'
  BY DEF Settled, Drafted
<1>5. Aimed'
  BY DEF Aimed, TapsSettle
<1>6. AtHand'
  BY <1>2 DEF Settled, AtHand
<1>7. Steered'
  <2>1. SUFFICES ASSUME NEW k \in Taps, tap'[k].pc = "steer", turn' # 0, tap'[k].turn = turn'
        PROVE  /\ ~IsTaken(tap[k].msg)'
               /\ \A i \in DOMAIN drafts :
                    drafts[i].msg = tap'[k].msg => drafts[i].kind = "pending steer"
               /\ \A l \in Taps : tap'[l].pc = "steer" /\ tap'[l].turn = turn'
                                    /\ tap'[l].msg = tap'[k].msg => l = k
    BY DEF Steered, Live
  <2>2. \A l \in Taps : tap'[l].pc = "steer" /\ tap'[l].turn = turn' =>
            tap[l].pc = "steer" /\ Live(l) /\ tap'[l].msg = tap[l].msg /\ tap[l].msg # m
    BY <2>1 DEF TapsSettle
  <2>3. tap[k].pc = "steer" /\ Live(k) /\ tap'[k].msg = tap[k].msg /\ tap[k].msg # m
    BY <2>1, <2>2
  <2>4. /\ ~IsTaken(tap[k].msg)
        /\ \A i \in DOMAIN drafts : drafts[i].msg = tap[k].msg => drafts[i].kind = "pending steer"
        /\ \A l \in Taps : tap[l].pc = "steer" /\ Live(l) /\ tap[l].msg = tap[k].msg => l = k
    BY <2>3 DEF Settled, Steered
  <2>5. ~IsTaken(tap[k].msg)'
    BY <1>2, <2>3, <2>4
  <2>6. QED
    BY <2>2, <2>3, <2>4, <2>5
<1>8. TakenOnce'
  <2>1. \A i \in DOMAIN taken : taken[i] # Copy(m, 0)
    BY DEF IsTaken
  <2>2. QED
    BY <1>1, <2>1 DEF Settled, TakenOnce
<1>9. QED
  BY <1>2, <1>3, <1>4, <1>5, <1>6, <1>7, <1>8 DEF Settled

LEMMA TapsStill ==
    ASSUME TypeInv, Settled, tap' = tap, NEW m,
           \A k \in Taps : turn' # 0 /\ tap[k].turn = turn' => turn' = turn,
           \A k \in Taps : tap[k].pc = "steer" /\ Live(k) => tap[k].msg # m
    PROVE  TapsSettle(m)
<1>1. \A k \in Taps : tap[k].pc \in {"begin", "steer"} => tap[k].msg \in queued
  BY DEF Settled, Aimed
<1>2. QED
  BY <1>1 DEF TapsSettle, Live

LEMMA TapsOfNobody ==
    ASSUME TypeInv
    PROVE  \A k \in Taps : tap[k].pc = "steer" => tap[k].msg # NoMessage
BY QueueAssumption DEF TypeInv, Named

LEMMA ReceiveQueue ==
    ASSUME TypeInv, OrderInv, QueueInv, NEW kind, Receive(kind), Fewer(drafts', drafts)
    PROVE  /\ Settled' /\ \A m : IsTaken(m)' <=> IsTaken(m)
           /\ listener = "recv" /\ Head(events).is = kind
           /\ kind = "started" => activeTurn = 0
           /\ kind \in {"completed", "user message"} => activeTurn # 0
<1>1. /\ taken' = taken /\ queued' = queued /\ sending' = sending /\ writer' = writer /\ tap' = tap
      /\ turn' = turn /\ listener = "recv" /\ events # <<>> /\ Head(events).is = kind
  BY DEF Receive, writing, server, history
<1>2. TapsSettle(NoMessage)
  BY <1>1, TapsStill, TapsOfNobody DEF QueueInv
<1>3. Settled'
  BY <1>1, <1>2, QuietStep DEF QueueInv, Quiet
<1>4. \A m : IsTaken(m)' <=> IsTaken(m)
  BY <1>1 DEF IsTaken
<1>5. /\ kind = "started" => activeTurn = 0
      /\ kind \in {"completed", "user message"} => activeTurn # 0
  BY <1>1, HeadOrder
<1>6. QED
  BY <1>1, <1>3, <1>4, <1>5

LEMMA ListenerQueue ==
    ASSUME TypeInv, OrderInv, QueueInv, TypeInv', OrderInv', Listener
    PROVE  QueueInv'
<1>1. /\ drafts \in Seq(Drafts) /\ DOMAIN drafts \subseteq Nat \ {0}
      /\ \A i \in DOMAIN drafts : drafts[i] \in Drafts
  BY DEF TypeInv, TypeOK
<1>2. CASE TurnStarted
  <2>1. Receive("started") /\ drafts' = RemoveFirst(drafts)
    BY <1>2 DEF TurnStarted
  <2>2. /\ Fewer(drafts', drafts)
        /\ \A j \in DOMAIN drafts' : j + 1 \in DOMAIN drafts /\ drafts'[j] = drafts[j + 1]
                                     /\ j + 1 # 1
    <3>1. drafts' \in Seq(Drafts)
      BY DEF TypeInv, TypeOK
    <3>2. \A j \in DOMAIN drafts' : j + 1 # 1
      BY <3>1
    <3>3. QED
      BY <1>1, <2>1, <3>2, FewerFirst
  <2>3. Settled' /\ activeTurn = 0 /\ \A m : IsTaken(m)' <=> IsTaken(m)
    BY <2>1, <2>2, ReceiveQueue
  <2>4. \A j \in DOMAIN drafts' : ~IsTaken(drafts'[j].msg)
    <3>1. \A i \in DOMAIN drafts : IsTaken(drafts[i].msg) => i = 1
      BY <2>3 DEF QueueInv, TakenLeaves
    <3>2. QED
      BY <2>2, <3>1
  <2>5. QED
    BY <2>3, <2>4 DEF QueueInv, TakenLeaves
<1>3. CASE UserItem
  <2>1. Receive("user message") /\ drafts' = RemoveFirst(drafts)
        /\ activeTurn' = activeTurn /\ listener' = listener
    BY <1>3 DEF UserItem
  <2>2. Fewer(drafts', drafts)
    BY <1>1, <2>1, FewerFirst
  <2>3. Settled' /\ activeTurn # 0 /\ \A m : IsTaken(m)' <=> IsTaken(m)
    BY <2>1, <2>2, ReceiveQueue
  <2>4. \A j \in DOMAIN drafts' : \E i \in DOMAIN drafts : drafts'[j] = drafts[i]
    BY <2>2 DEF Fewer
  <2>5. \A i \in DOMAIN drafts :
          IsTaken(drafts[i].msg) => listener = "recv" /\ drafts[i].kind = "pending steer"
    BY <2>3 DEF QueueInv, TakenLeaves
  <2>6. QED
    BY <2>1, <2>3, <2>4, <2>5 DEF QueueInv, TakenLeaves
<1>4. CASE TurnCompleted
  <2> DEFINE S == {d \in Drafts : d.kind # "pending steer"}
  <2>1. Receive("completed") /\ drafts' = Kept(drafts, S)
    BY <1>4 DEF TurnCompleted
  <2>2. /\ Fewer(drafts', drafts)
        /\ \A j \in DOMAIN drafts' : drafts'[j] \in S
    BY <1>1, <2>1, FewerKept, KeptAll
  <2>3. Settled' /\ activeTurn # 0 /\ \A m : IsTaken(m)' <=> IsTaken(m)
    BY <2>1, <2>2, ReceiveQueue
  <2>4. \A j \in DOMAIN drafts' : \E i \in DOMAIN drafts : drafts'[j] = drafts[i]
    BY <2>2 DEF Fewer
  <2>5. \A i \in DOMAIN drafts : IsTaken(drafts[i].msg) => drafts[i].kind = "pending steer"
    BY <2>3 DEF QueueInv, TakenLeaves
  <2>6. \A j \in DOMAIN drafts' : ~IsTaken(drafts'[j].msg)
    BY <2>2, <2>4, <2>5
  <2>7. QED
    BY <2>3, <2>6 DEF QueueInv, TakenLeaves
<1>5. CASE SendNext
  <2>1. /\ listener = "check" /\ drafts' = drafts /\ activeTurn' = activeTurn /\ taken' = taken
        /\ queued' = queued /\ writer' = writer /\ tap' = tap /\ turn' = turn
    BY <1>5 DEF SendNext, store, writing, server, history
  <2>2. /\ \A m : IsTaken(m)' <=> IsTaken(m)
        /\ \A i \in DOMAIN drafts : ~IsTaken(drafts[i].msg)
    BY <2>1 DEF IsTaken, QueueInv, TakenLeaves
  <2>3. CASE sending' \in {sending, NoMessage}
    <3>1. TapsSettle(NoMessage)
      BY <2>1, TapsStill, TapsOfNobody DEF QueueInv
    <3>2. Settled'
      BY <2>1, <2>3, <3>1, QuietStep, FewerSame DEF QueueInv, Quiet
    <3>3. QED
      BY <2>1, <2>2, <3>2 DEF QueueInv, TakenLeaves
  <2>4. CASE drafts # <<>> /\ sending' = Head(drafts).msg
    <3>1. 1 \in DOMAIN drafts /\ Head(drafts) = drafts[1]
      BY <1>1, <2>4
    <3>2. AtHand'
      BY <2>1, <2>2, <2>4, <3>1 DEF QueueInv, Settled, Drafted, Once, AtHand
    <3>3. Unwritten' /\ Drafted' /\ Aimed' /\ Steered' /\ TakenOnce'
      BY <2>1, <2>2
      DEF QueueInv, Settled, Unwritten, Drafted, Once, Aimed, Steered, Live, TakenOnce
    <3>4. QED
      BY <2>1, <2>2, <3>2, <3>3 DEF QueueInv, Settled, TakenLeaves
  <2>5. QED
    BY <1>5, <2>3, <2>4 DEF SendNext
<1>6. CASE Sent
  <2>1. /\ listener = "send" /\ listener' = "recv" /\ sending' = NoMessage
        /\ drafts' = drafts /\ activeTurn' = activeTurn /\ queued' = queued /\ writer' = writer
        /\ tap' = tap
    BY <1>6 DEF Sent, store, writing, history
  <2>2. activeTurn = 0 /\ sending # NoMessage /\ sending \in Messages
    BY <2>1 DEF OrderInv, IdleOutside, TypeInv, TypeOK, Named
  <2>3. \A i \in DOMAIN drafts : ~IsTaken(drafts[i].msg)
    BY <2>1 DEF QueueInv, TakenLeaves
  <2>4. CASE TakeStart(Copy(sending, 0))
    <3>1. taken' = Append(taken, Copy(sending, 0))
      BY <2>4 DEF TakeStart
    <3>2. sending \in queued /\ ~IsTaken(sending) /\ writer[sending] = "done"
          /\ \A i \in DOMAIN drafts : drafts[i].msg = sending => i = 1
      BY <2>2 DEF QueueInv, Settled, AtHand, Unwritten
    <3>3. \A k \in Taps : ~Live(k)
      BY <2>2 DEF OrderInv, LiveIsActive, Live
    <3>4. Ordered' /\ turn' # 0 /\ \A k \in Taps : tap[k].turn = turn' => turn' = turn
      <4>1. 1 \in Nat \ {0}
        OBVIOUS
      <4>2. QED
        BY <2>1, <2>4, <4>1, ServerOrder
    <3>5. TapsSettle(sending)
      BY <2>1, <3>3, <3>4, TapsStill DEF QueueInv
    <3>6. Settled' /\ \A n : IsTaken(n)' => IsTaken(n) \/ n = sending
      BY <2>1, <2>2, <3>1, <3>2, <3>5, TakingStep DEF QueueInv
    <3>7. events' # <<>> /\ Head(events').is = "started"
      <4>1. /\ Orderly(activeTurn', events', turn')
            /\ turns' \in Nat /\ events' \in Seq(Event(turns'))
        BY <3>4 DEF Ordered, TypeInv, TypeOK
      <4>2. events' # <<>>
        BY <2>1, <2>2, <3>4, <4>1 DEF Orderly, After
      <4>3. /\ activeTurn' = IF Head(events').is = "started" THEN 0 ELSE Head(events').turn
            /\ Head(events').turn # 0
        BY <4>1, <4>2, FirstEvent
      <4>4. QED
        BY <2>1, <2>2, <4>2, <4>3
    <3>8. TakenLeaves'
      BY <2>1, <2>2, <2>3, <3>2, <3>6, <3>7 DEF TakenLeaves
    <3>9. QED
      BY <3>6, <3>8 DEF QueueInv
  <2>5. CASE UNCHANGED <<events, server>>
    <3>1. taken' = taken /\ turn' = turn
      BY <2>5 DEF server
    <3>2. TapsSettle(NoMessage)
      BY <2>1, <3>1, TapsStill, TapsOfNobody DEF QueueInv
    <3>3. Settled'
      BY <2>1, <3>1, <3>2, QuietStep, FewerSame DEF QueueInv, Quiet
    <3>4. QED
      BY <2>1, <2>3, <3>1, <3>3 DEF QueueInv, TakenLeaves, IsTaken
  <2>6. QED
    BY <1>6, <2>4, <2>5 DEF Sent, Failed
<1>7. QED
  BY <1>2, <1>3, <1>4, <1>5, <1>6 DEF Listener

\* The first event stays the first while others are added.
LEMMA FirstStays ==
    ASSUME TypeInv, NEW x, NEW y, events # <<>>
    PROVE  /\ events \o <<x, y>> # <<>> /\ Head(events \o <<x, y>>) = Head(events)
           /\ Append(events, x) # <<>> /\ Head(Append(events, x)) = Head(events)
<1> DEFINE S == Event(turns) \cup {x, y}
<1>1. events \in Seq(S) /\ <<x, y>> \in Seq(S) /\ Len(<<x, y>>) = 2
  BY DEF TypeInv, TypeOK
<1> HIDE DEF S
<1>2. Len(events) \in Nat \ {0} /\ Head(events) = events[1]
  BY <1>1
<1>3. events \o <<x, y>> \in Seq(S) /\ Len(events \o <<x, y>>) = Len(events) + 2
      /\ (events \o <<x, y>>)[1] = events[1]
  BY <1>1, <1>2, ConcatProperties
<1>4. Head(events \o <<x, y>>) = (events \o <<x, y>>)[1] /\ events \o <<x, y>> # <<>>
  BY <1>2, <1>3
<1>5. Append(events, x) # <<>> /\ Head(Append(events, x)) = events[1]
  BY <1>1, <1>2
<1>6. QED
  BY <1>2, <1>3, <1>4, <1>5

LEMMA ServerFirst ==
    ASSUME TypeInv, NEW m, NEW t, TakeStart(m) \/ TakeSteer(m, t)
    PROVE  events # <<>> => events' # <<>> /\ Head(events') = Head(events)
BY FirstStays DEF TakeStart, TakeSteer

\* A step that gives the agent nothing, for a listener that stays where it is.
LEMMA QuietQueue ==
    ASSUME TypeInv, QueueInv, Quiet, UNCHANGED <<queued, listener, activeTurn, sending>>,
           Fewer(drafts', drafts),
           events # <<>> => events' # <<>> /\ Head(events') = Head(events),
           \A n \in Messages : writer'[n] # "done" => writer[n] # "done",
           NEW x, TapsSettle(x)
    PROVE  QueueInv'
<1>1. Settled'
  BY QuietStep DEF QueueInv
<1>2. TakenLeaves'
  <2>1. \A m : IsTaken(m)' <=> IsTaken(m)
    BY QuietTaken
  <2>2. \A j \in DOMAIN drafts' :
          \E i \in DOMAIN drafts : drafts'[j] = drafts[i] /\ (i = 1 => j = 1)
    BY DEF Fewer
  <2>3. QED
    BY <2>1, <2>2 DEF QueueInv, TakenLeaves
<1>3. QED
  BY <1>1, <1>2 DEF QueueInv

LEMMA WriterQueue ==
    ASSUME TypeInv, OrderInv, QueueInv, NEW m \in Messages,
           Write(m) \/ Queue(m) \/ SteerAtOnce(m) \/ Start(m)
    PROVE  QueueInv'
<1>1. /\ writer \in [Messages -> {"unwritten", "queue", "steer", "start", "done"}]
      /\ drafts \in Seq(Drafts) /\ taken \in Seq(Copies)
      /\ sending \in queued \cup {NoMessage} /\ queued \subseteq Messages
      /\ \A i \in DOMAIN drafts : drafts[i].msg \in queued
      /\ \A k \in Taps : tap[k].pc \in {"begin", "steer"} => tap[k].msg \in queued
  BY DEF TypeInv, TypeOK, QueueInv, Settled, AtHand, Drafted, Aimed
<1>2. writer[m] # "done" /\ activeTurn' = activeTurn /\ tap' = tap /\ UNCHANGED listen
  BY DEF Write, Queue, SteerAtOnce, Start, store
<1>3. m \notin queued /\ ~IsTaken(m)
  BY <1>2 DEF QueueInv, Settled, Unwritten
<1>4. CASE ~Queue(m) /\ UNCHANGED <<events, server>>
  <2>1. /\ drafts' = drafts /\ queued' = queued /\ taken' = taken /\ turn' = turn
        /\ events' = events
        /\ \E w : writer' = [writer EXCEPT ![m] = w]
    BY <1>4 DEF Write, SteerAtOnce, Start, store, server, history
  <2>2. \A n \in Messages : writer'[n] # "done" => writer[n] # "done"
    BY <1>1, <1>2, <2>1
  <2>3. TapsSettle(NoMessage)
    BY <1>2, <2>1, TapsStill, TapsOfNobody DEF QueueInv
  <2>4. QED
    BY <1>2, <2>1, <2>2, <2>3, FewerSame, QuietQueue DEF listen, Quiet
<1>5. CASE Queue(m)
  <2> DEFINE d == Draft(m, "message")
  <2>1. /\ drafts' = Append(drafts, d) /\ queued' = queued \cup {m}
        /\ writer' = [writer EXCEPT ![m] = "done"]
        /\ events' = events /\ taken' = taken /\ turn' = turn
    BY <1>5 DEF Queue, server
  <2>2. d.msg = m
    BY DEF Draft
  <2> HIDE DEF d
  <2>3. /\ \A i \in DOMAIN drafts : i \in DOMAIN drafts' /\ drafts'[i] = drafts[i]
        /\ \A i \in DOMAIN drafts' \ DOMAIN drafts : drafts'[i] = d /\ i = Len(drafts) + 1
    BY <1>1, <2>1
  <2>4. \A n : IsTaken(n)' <=> IsTaken(n)
    BY <2>1 DEF IsTaken
  <2>5. Unwritten'
    BY <1>1, <2>1, <2>4 DEF QueueInv, Settled, Unwritten
  <2>6. Drafted'
    <3>1. ASSUME NEW i \in DOMAIN drafts', NEW j \in DOMAIN drafts', drafts'[i].msg = drafts'[j].msg
          PROVE  i = j
      <4>1. CASE i \in DOMAIN drafts /\ j \in DOMAIN drafts
        BY <2>3, <3>1, <4>1 DEF QueueInv, Settled, Drafted, Once
      <4>2. CASE i \notin DOMAIN drafts /\ j \notin DOMAIN drafts
        BY <2>3, <4>2
      <4>3. CASE i \in DOMAIN drafts /\ j \notin DOMAIN drafts
        BY <1>1, <1>3, <2>2, <2>3, <3>1, <4>3
      <4>4. CASE i \notin DOMAIN drafts /\ j \in DOMAIN drafts
        BY <1>1, <1>3, <2>2, <2>3, <3>1, <4>4
      <4>5. QED
        BY <4>1, <4>2, <4>3, <4>4
    <3>2. \A i \in DOMAIN drafts' : drafts'[i].msg \in queued'
      BY <1>1, <2>1, <2>2, <2>3
    <3>3. QED
      BY <3>1, <3>2 DEF Drafted, Once
  <2>7. Aimed'
    BY <1>1, <1>2, <2>1 DEF Aimed
  <2>8. AtHand'
    <3>1. sending' = sending
      BY <1>2 DEF listen
    <3>2. \A i \in DOMAIN drafts' : drafts'[i].msg = sending => i \in DOMAIN drafts \/ sending = m
      BY <2>2, <2>3
    <3>3. sending # m
      BY <1>1, <1>3, QueueAssumption
    <3>4. QED
      BY <2>1, <2>3, <2>4, <3>1, <3>2, <3>3 DEF QueueInv, Settled, AtHand
  <2>9. Steered'
    <3>1. SUFFICES ASSUME NEW k \in Taps, tap[k].pc = "steer", Live(k)
          PROVE  \A i \in DOMAIN drafts' :
                    drafts'[i].msg = tap[k].msg => drafts'[i].kind = "pending steer"
      BY <1>2, <2>1, <2>4 DEF QueueInv, Settled, Steered, Live
    <3>2. tap[k].msg # m
      BY <1>1, <1>3, <3>1
    <3>3. QED
      BY <2>2, <2>3, <3>1, <3>2 DEF QueueInv, Settled, Steered
  <2>10. TakenOnce'
    BY <2>1 DEF QueueInv, Settled, TakenOnce
  <2>11. TakenLeaves'
    <3>1. listener' = listener
      BY <1>2 DEF listen
    <3>2. \A i \in DOMAIN drafts' : IsTaken(drafts'[i].msg) => i \in DOMAIN drafts
      BY <1>3, <2>2, <2>3
    <3>3. QED
      BY <1>2, <2>1, <2>3, <2>4, <3>1, <3>2 DEF QueueInv, TakenLeaves
  <2>12. QED
    BY <2>5, <2>6, <2>7, <2>8, <2>9, <2>10, <2>11 DEF QueueInv, Settled
<1>6. CASE ~Queue(m) /\ \E t \in Nat \ {0} : TakeStart(Copy(m, 0)) \/ TakeSteer(Copy(m, 0), t)
  <2>1. PICK t \in Nat \ {0} : TakeStart(Copy(m, 0)) \/ TakeSteer(Copy(m, 0), t)
    BY <1>6
  <2>2. taken' = Append(taken, Copy(m, 0))
    BY <2>1 DEF TakeStart, TakeSteer
  <2>3. /\ events # <<>> => events' # <<>> /\ Head(events') = Head(events)
        /\ turn' # 0 /\ \A k \in Taps : tap[k].turn = turn' => turn' = turn
    BY <1>2, <2>1, ServerFirst, ServerOrder
  <2>4. ~Write(m)
    <3>1. taken' # taken
      BY <1>1, <2>2
    <3>2. QED
      BY <3>1 DEF Write, server
  <2>5. /\ drafts' = drafts /\ queued' = queued /\ UNCHANGED listen
        /\ writer' = [writer EXCEPT ![m] = "done"]
    <3>1. ~UNCHANGED <<events, server>>
      <4>1. UNCHANGED <<events, server>> => taken' = taken
        BY DEF server
      <4>2. taken' # taken
        BY <1>1, <2>2
      <4>3. QED
        BY <4>1, <4>2
    <3>2. QED
      BY <1>6, <2>1, <2>4, <3>1 DEF SteerAtOnce, Start, Unsteered, Failed, store, history
  <2>6. \A n \in Messages : writer'[n] # "done" => writer[n] # "done" /\ n # m
    BY <1>1, <2>5
  <2>7. sending' = sending /\ sending # m /\ listener' = listener
    BY <1>1, <1>3, <2>5, QueueAssumption DEF listen
  <2>8. TapsSettle(m)
    BY <1>1, <1>2, <1>3, <2>3, TapsStill DEF QueueInv
  <2>9. Settled' /\ \A n : IsTaken(n)' => IsTaken(n) \/ n = m
    BY <1>3, <2>2, <2>5, <2>6, <2>7, <2>8, TakingStep DEF QueueInv
  <2>10. TakenLeaves'
    <3>1. \A i \in DOMAIN drafts : drafts[i].msg # m
      BY <1>1, <1>3
    <3>2. \A i \in DOMAIN drafts : IsTaken(drafts[i].msg)' => IsTaken(drafts[i].msg)
      BY <2>5, <2>9, <3>1
    <3>3. QED
      BY <1>2, <2>3, <2>5, <2>7, <3>2 DEF QueueInv, TakenLeaves, IsTaken
  <2>11. QED
    BY <2>9, <2>10 DEF QueueInv
<1>7. QED
  <2>1. CASE SteerAtOnce(m)
    <3>1. aim[m] \in Nat \ {0}
      BY <2>1 DEF SteerAtOnce, TypeInv, TypeOK, Named
    <3>2. writer[m] = "steer"
      BY <2>1 DEF SteerAtOnce
    <3>3. ~Queue(m)
      BY <3>2 DEF Queue
    <3>4. TakeSteer(Copy(m, 0), aim[m]) \/ UNCHANGED <<events, server>>
      BY <2>1 DEF SteerAtOnce, Unsteered, Failed
    <3>5. QED
      BY <1>4, <1>6, <3>1, <3>3, <3>4
  <2>2. CASE Start(m)
    <3>1. 1 \in Nat \ {0}
      OBVIOUS
    <3>2. ~Queue(m)
      BY <2>2 DEF Start, Queue
    <3>3. QED
      BY <1>4, <1>6, <2>2, <3>1, <3>2 DEF Start, Failed
  <2>3. CASE Write(m)
    <3>1. ~Queue(m)
      BY <2>3 DEF Write, Queue
    <3>2. QED
      BY <1>4, <2>3, <3>1 DEF Write
  <2>4. QED
    BY <1>5, <2>1, <2>2, <2>3

LEMMA TapQueue ==
    ASSUME TypeInv, OrderInv, QueueInv, NEW k \in Taps,
           \/ BeginSteer(k) \/ Steer(k) \/ (Delete(k) /\ ~clobbered')
           \/ \E m \in Messages : TapSteer(k, m) \/ TapDelete(k, m)
    PROVE  QueueInv'
<1>1. /\ TypeOK /\ drafts \in Seq(Drafts) /\ tap \in [Taps -> Tap(turns)]
      /\ \A l \in Taps : tap[l].pc \in {"begin", "steer"} => tap[l].msg \in queued
      /\ \A i \in DOMAIN drafts : drafts[i].msg \in queued
  BY DEF TypeInv, TypeOK, QueueInv, Settled, Drafted, Aimed
<1>2. activeTurn' = activeTurn /\ UNCHANGED <<listen, writing>> /\ queued' = queued
  BY DEF BeginSteer, Steer, Delete, TapSteer, TapDelete, store, history
<1>3. /\ listener' = listener /\ sending' = sending
      /\ \A n \in Messages : writer'[n] # "done" => writer[n] # "done"
  BY <1>2 DEF listen, writing
<1>4. ASSUME UNCHANGED <<events, server>>, Fewer(drafts', drafts), NEW r,
             tap' = [tap EXCEPT ![k] = r], r.pc # "steer",
             r.pc = "begin" => r.msg \in queued
      PROVE  QueueInv'
  <2>1. taken' = taken /\ turn' = turn /\ events' = events
    BY <1>4 DEF server
  <2>2. TapsSettle(NoMessage)
    <3>1. tap'[k] = r /\ \A l \in Taps : l # k => tap'[l] = tap[l]
      BY <1>1, <1>4
    <3>2. \A l \in Taps : tap'[l].pc = "steer" => tap[l].pc = "steer" /\ tap'[l] = tap[l]
      BY <1>4, <3>1
    <3>3. \A l \in Taps : tap'[l].pc \in {"begin", "steer"} => tap'[l].msg \in queued
      BY <1>1, <1>4, <3>1
    <3>4. \A l \in Taps : tap[l].pc = "steer" => tap[l].msg # NoMessage
      BY TapsOfNobody
    <3>5. QED
      BY <2>1, <3>2, <3>3, <3>4 DEF TapsSettle, Live
  <2>3. QED
    BY <1>2, <1>3, <1>4, <2>1, <2>2, QuietQueue DEF Quiet
<1>5. CASE BeginSteer(k)
  <2> DEFINE mine == {i \in DOMAIN drafts : drafts[i] = Draft(tap[k].msg, "message")}
             p == IF mine = {} \/ tap[k].turn = 0 THEN "done" ELSE "steer"
  <2>1. /\ drafts' = [i \in DOMAIN drafts |->
                        IF i \in mine THEN Draft(tap[k].msg, "pending steer") ELSE drafts[i]]
        /\ tap' = [tap EXCEPT ![k].pc = p]
        /\ tap[k].pc = "begin" /\ UNCHANGED <<events, server>>
    BY <1>5 DEF BeginSteer
  <2>2. /\ tap'[k].pc = p /\ tap'[k].turn = tap[k].turn /\ tap'[k].msg = tap[k].msg
        /\ \A l \in Taps : l # k => tap'[l] = tap[l]
    BY <1>1, <2>1, TapMoves
  <2>3. /\ DOMAIN drafts' = DOMAIN drafts
        /\ \A i \in DOMAIN drafts : /\ drafts'[i].msg = drafts[i].msg
                                    /\ drafts[i].kind = "pending steer" => drafts'[i] = drafts[i]
                                    /\ i \in mine => drafts'[i].kind = "pending steer"
    <3>1. DOMAIN drafts' = DOMAIN drafts
      BY <2>1
    <3>2. \A i \in mine : drafts'[i] = Draft(tap[k].msg, "pending steer")
                            /\ drafts[i] = Draft(tap[k].msg, "message")
      BY <2>1
    <3>3. \A i \in DOMAIN drafts : i \notin mine => drafts'[i] = drafts[i]
      BY <2>1
    <3> HIDE DEF mine, p
    <3>4. ASSUME NEW i, i \in mine
          PROVE  drafts'[i].msg = drafts[i].msg /\ drafts[i].kind = "message"
                 /\ drafts'[i].kind = "pending steer"
      <4> DEFINE m == tap[k].msg
                 d == drafts[i]
                 e == drafts'[i]
      <4>1. d = Draft(m, "message") /\ e = Draft(m, "pending steer")
        BY <3>2, <3>4
      <4> HIDE DEF m, d, e
      <4>2. d.msg = m /\ d.kind = "message" /\ e.msg = m /\ e.kind = "pending steer"
        BY <4>1 DEF Draft
      <4>3. QED
        BY <4>2 DEF d, e
    <3>5. QED
      BY <3>1, <3>3, <3>4
  <2>4. taken' = taken /\ turn' = turn /\ \A m : IsTaken(m)' <=> IsTaken(m)
    BY <2>1 DEF server, IsTaken
  <2>5. Unwritten' /\ TakenOnce'
    BY <1>2, <1>3, <2>4 DEF QueueInv, Settled, Unwritten, TakenOnce
  <2>6. Drafted'
    BY <1>2, <2>3 DEF QueueInv, Settled, Drafted, Once
  <2>7. Aimed'
    <3>1. ASSUME NEW l \in Taps, tap'[l].pc \in {"begin", "steer"} PROVE tap'[l].msg \in queued
      <4>1. CASE l = k
        BY <1>1, <2>1, <2>2, <4>1
      <4>2. CASE l # k
        BY <1>1, <2>2, <3>1, <4>2
      <4>3. QED
        BY <4>1, <4>2
    <3>2. QED
      BY <1>2, <3>1 DEF Aimed
  <2>8. AtHand'
    BY <1>2, <1>3, <2>3, <2>4 DEF QueueInv, Settled, AtHand
  <2>9. TakenLeaves'
    <3>1. \A i \in DOMAIN drafts :
             drafts[i].kind = "pending steer" => drafts'[i].kind = "pending steer"
      BY <2>3
    <3>2. events' = events
      BY <2>1
    <3>3. QED
      BY <1>2, <1>3, <2>3, <2>4, <3>1, <3>2 DEF QueueInv, TakenLeaves
  <2>10. Steered'
    <3>1. ASSUME tap'[k].pc = "steer", Live(k)
          PROVE  /\ \E i \in DOMAIN drafts :
                       drafts[i].msg = tap[k].msg /\ drafts[i].kind = "message" /\ i \in mine
                 /\ ~IsTaken(tap[k].msg)
      <4>1. mine # {} /\ tap[k].turn # 0
        BY <2>2, <3>1
      <4>2. PICK i \in DOMAIN drafts : drafts[i] = Draft(tap[k].msg, "message")
        BY <4>1
      <4>3. drafts[i].msg = tap[k].msg /\ drafts[i].kind = "message"
        BY <4>2 DEF Draft
      <4>4. activeTurn # 0
        BY <3>1 DEF OrderInv, LiveIsActive, Live
      <4>5. ~IsTaken(drafts[i].msg)
        BY <4>3, <4>4 DEF QueueInv, TakenLeaves
      <4>6. QED
        BY <4>2, <4>3, <4>5
    <3> HIDE DEF p, mine
    <3>2. \A l \in Taps : Live(l)' <=> Live(l)
      BY <2>2, <2>4 DEF Live
    <3>3. \A l \in Taps : l # k /\ tap'[l].pc = "steer" /\ Live(l) =>
            /\ tap'[l].msg = tap[l].msg /\ ~IsTaken(tap[l].msg)
            /\ \A i \in DOMAIN drafts :
                 drafts[i].msg = tap[l].msg => drafts[i].kind = "pending steer"
            /\ \A n \in Taps : tap[n].pc = "steer" /\ Live(n) /\ tap[n].msg = tap[l].msg => n = l
      BY <2>2 DEF QueueInv, Settled, Steered
    <3>4. ASSUME tap'[k].pc = "steer", Live(k)
          PROVE  /\ \A i \in DOMAIN drafts :
                      drafts[i].msg = tap[k].msg => drafts'[i].kind = "pending steer"
                 /\ \A l \in Taps :
                      tap'[l].pc = "steer" /\ Live(l) /\ tap'[l].msg = tap[k].msg => l = k
      <4>1. PICK i \in DOMAIN drafts :
                   drafts[i].msg = tap[k].msg /\ drafts[i].kind = "message" /\ i \in mine
        BY <3>1, <3>4
      <4>2. \A j \in DOMAIN drafts : drafts[j].msg = tap[k].msg => j = i
        BY <4>1 DEF QueueInv, Settled, Drafted, Once
      <4>3. QED
        BY <2>3, <3>3, <4>1, <4>2
    <3>5. ASSUME NEW l \in Taps, tap'[l].pc = "steer", Live(l)
          PROVE  /\ ~IsTaken(tap'[l].msg)
                 /\ \A i \in DOMAIN drafts :
                      drafts[i].msg = tap'[l].msg => drafts'[i].kind = "pending steer"
                 /\ \A n \in Taps :
                      tap'[n].pc = "steer" /\ Live(n) /\ tap'[n].msg = tap'[l].msg => n = l
      <4>1. CASE l = k
        BY <2>2, <3>1, <3>4, <3>5, <4>1
      <4>2. CASE l # k
        <5>1. \A i \in DOMAIN drafts :
                 drafts[i].msg = tap'[l].msg => drafts'[i].kind = "pending steer"
          <6>1. \A i \in DOMAIN drafts :
                   drafts[i].msg = tap'[l].msg => drafts[i].kind = "pending steer"
            BY <3>3, <3>5, <4>2
          <6>2. QED
            BY <2>3, <6>1
        <5>2. ASSUME NEW n \in Taps, tap'[n].pc = "steer", Live(n), tap'[n].msg = tap'[l].msg
              PROVE  n = l
          <6>1. CASE n = k
            BY <2>2, <3>4, <3>5, <5>2, <6>1
          <6>2. CASE n # k
            BY <2>2, <3>3, <3>5, <4>2, <5>2, <6>2
          <6>3. QED
            BY <6>1, <6>2
        <5>3. QED
          BY <3>3, <3>5, <4>2, <5>1, <5>2
      <4>3. QED
        BY <4>1, <4>2
    <3>6. QED
      BY <2>3, <2>4, <3>2, <3>5 DEF Steered
  <2>11. QED
    BY <2>5, <2>6, <2>7, <2>8, <2>9, <2>10 DEF QueueInv, Settled
<1>6. CASE Steer(k)
  <2> DEFINE m == tap[k].msg
  <2>1. /\ tap[k].pc = "steer" /\ tap' = [tap EXCEPT ![k].pc = "done"] /\ drafts' = drafts
    BY <1>6 DEF Steer, store
  <2>2. /\ tap'[k].pc = "done" /\ \A l \in Taps : l # k => tap'[l] = tap[l]
        /\ m \in queued /\ m \in Messages /\ tap[k].turn \in Nat \ {0}
    <3>1. tap[k].turn \in Nat
      BY <1>1 DEF Tap, TypeOK
    <3>2. QED
      BY <1>1, <2>1, <3>1, TapMoves DEF TypeInv, Named
  <2>3. CASE TakeSteer(Copy(m, 0), tap[k].turn)
    <3>1. taken' = Append(taken, Copy(m, 0)) /\ turn = tap[k].turn /\ turn' = turn
      BY <2>3 DEF TakeSteer
    <3>2. Live(k) /\ activeTurn # 0 /\ listener = "recv" /\ sending = NoMessage
      BY <2>2, <3>1 DEF OrderInv, LiveIsActive, IdleOutside, Live, TypeInv, Named
    <3>3. /\ ~IsTaken(m)
          /\ \A i \in DOMAIN drafts : drafts[i].msg = m => drafts[i].kind = "pending steer"
          /\ \A l \in Taps : tap[l].pc = "steer" /\ Live(l) /\ tap[l].msg = m => l = k
      BY <2>1, <3>2 DEF QueueInv, Settled, Steered
    <3>4. TapsSettle(m)
      <4>1. \A l \in Taps : tap'[l].pc \in {"begin", "steer"} => l # k /\ tap'[l] = tap[l]
        BY <2>2
      <4>2. QED
        BY <1>1, <3>1, <3>3, <4>1 DEF TapsSettle, Live
    <3>5. \A n \in Messages : writer'[n] # "done" => writer[n] # "done" /\ n # m
      BY <1>3, <2>2 DEF QueueInv, Settled, Unwritten
    <3>6. sending' = NoMessage /\ NoMessage # m
      BY <1>3, <2>2, <3>2, QueueAssumption
    <3> HIDE DEF m
    <3>7. Settled' /\ \A n : IsTaken(n)' => IsTaken(n) \/ n = m
      BY <1>2, <2>1, <2>2, <3>1, <3>3, <3>4, <3>5, <3>6, TakingStep DEF QueueInv
    <3>8. TakenLeaves'
      BY <1>2, <1>3, <2>1, <3>2, <3>3, <3>7 DEF QueueInv, TakenLeaves
    <3>9. QED
      BY <3>7, <3>8 DEF QueueInv
  <2>4. CASE UNCHANGED <<events, server>>
    <3> DEFINE r == [tap[k] EXCEPT !.pc = "done"]
    <3>1. tap' = [tap EXCEPT ![k] = r]
      BY <2>1
    <3>2. r.pc = "done"
      BY <1>1 DEF Tap
    <3> HIDE DEF r
    <3>3. QED
      BY <1>4, <2>1, <2>4, <3>1, <3>2, FewerSame
  <2>5. QED
    BY <1>6, <2>3, <2>4 DEF Steer, Unsteered, Failed
<1>7. ASSUME NEW m \in Messages, TapSteer(k, m) PROVE QueueInv'
  <2> DEFINE r == [pc |-> "begin", msg |-> m, turn |-> activeTurn, next |-> <<>>]
  <2>1. tap' = [tap EXCEPT ![k] = r] /\ drafts' = drafts /\ UNCHANGED <<events, server>>
        /\ \E i \in DOMAIN drafts : drafts[i].msg = m
    BY <1>7 DEF TapSteer, store
  <2>2. r.pc = "begin" /\ r.msg = m
    OBVIOUS
  <2> HIDE DEF r
  <2>3. m \in queued
    BY <1>1, <2>1
  <2>4. QED
    BY <1>4, <2>1, <2>2, <2>3, FewerSame
<1>8. ASSUME NEW m \in Messages, TapDelete(k, m) PROVE QueueInv'
  <2> DEFINE r == [pc |-> "write", msg |-> m, turn |-> 0, next |-> Without(drafts, m)]
  <2>1. tap' = [tap EXCEPT ![k] = r] /\ drafts' = drafts /\ UNCHANGED <<events, server>>
    BY <1>8 DEF TapDelete, store
  <2>2. r.pc = "write"
    OBVIOUS
  <2> HIDE DEF r
  <2>3. QED
    BY <1>4, <2>1, <2>2, FewerSame
<1>9. CASE Delete(k) /\ ~clobbered'
  <2> DEFINE r == [NoTap EXCEPT !.pc = "done"]
  <2>1. tap' = [tap EXCEPT ![k] = r] /\ drafts' = Without(drafts, tap[k].msg)
        /\ UNCHANGED <<events, server>>
    BY <1>9 DEF Delete
  <2>2. r.pc = "done"
    BY DEF NoTap
  <2> HIDE DEF r
  <2>3. Fewer(drafts', drafts)
    BY <1>1, <2>1, FewerKept DEF Without
  <2>4. QED
    BY <1>4, <2>1, <2>2, <2>3
<1>10. QED
  BY <1>5, <1>6, <1>7, <1>8, <1>9

-----------------------------------------------------------------------------
(* The copies on broken connections.                                        *)

\* Every failure that broke a connection has its number, on a connection or with
\* the agent, and nowhere else.
Numbered ==
    /\ \A c \in adrift : c.copy.broke \in 1..failures
    /\ \A c, d \in adrift : c.copy.broke = d.copy.broke => c = d
    /\ \A i \in DOMAIN taken : taken[i].broke <= failures
    /\ \A c \in adrift, i \in DOMAIN taken : taken[i].broke # c.copy.broke
    /\ \A i, j \in DOMAIN taken :
         taken[i].broke = taken[j].broke /\ taken[i].broke # 0 => i = j

LEMMA NumberedTypes ==
    ASSUME TypeInv
    PROVE  /\ failures \in Nat /\ taken \in Seq(Copies) /\ Len(taken) \in Nat
           /\ DOMAIN taken = 1..Len(taken)
           /\ \A i \in DOMAIN taken : taken[i].broke \in Nat
<1>1. TypeOK /\ NetworkOK /\ MaxFailures \in Nat
  BY QueueAssumption DEF TypeInv, TypeOK
<1>2. failures \in Nat /\ taken \in Seq(Copies)
  BY <1>1 DEF NetworkOK, TypeOK
<1>3. \A c \in Copies : c.broke \in Nat
  BY <1>1 DEF Copies
<1>4. QED
  BY <1>2, <1>3

\* A request that breaks takes the next number.
LEMMA NumberedRequest ==
    ASSUME TypeInv, Numbered, taken' = taken, NEW m, NEW t,
           Break(m, t) \/ Refuse \/ UNCHANGED <<failures, adrift>>
    PROVE  Numbered'
<1>1. failures \in Nat /\ \A i \in DOMAIN taken : taken[i].broke \in Nat
  BY NumberedTypes
<1>2. CASE Break(m, t)
  <2> DEFINE x == [copy |-> Copy(m, failures + 1), turn |-> t]
  <2>1. failures' = failures + 1 /\ adrift' = adrift \cup {x} /\ x.copy.broke = failures + 1
    BY <1>2, CopyIs DEF Break
  <2> HIDE DEF x
  <2>2. \A c \in adrift : c.copy.broke \in 1..failures
    BY DEF Numbered
  <2>3. \A c \in adrift' : c.copy.broke \in 1..failures'
    BY <1>1, <2>1, <2>2
  <2>4. \A c, d \in adrift' : c.copy.broke = d.copy.broke => c = d
    <3>1. TAKE c, d \in adrift'
    <3>2. CASE c \in adrift /\ d \in adrift
      BY <3>2 DEF Numbered
    <3>3. CASE c \in adrift /\ d = x
      BY <1>1, <2>1, <2>2, <3>3
    <3>4. CASE c = x /\ d \in adrift
      BY <1>1, <2>1, <2>2, <3>4
    <3>5. QED
      BY <2>1, <3>2, <3>3, <3>4
  <2>5. \A i \in DOMAIN taken : taken[i].broke <= failures /\ taken[i].broke <= failures'
    BY <1>1, <2>1 DEF Numbered
  <2>6. \A c \in adrift', i \in DOMAIN taken : taken[i].broke # c.copy.broke
    <3>1. TAKE c \in adrift', i \in DOMAIN taken
    <3>2. CASE c \in adrift
      BY <3>2 DEF Numbered
    <3>3. CASE c = x
      BY <1>1, <2>1, <2>5, <3>3
    <3>4. QED
      BY <2>1, <3>2, <3>3
  <2>7. QED
    BY <2>3, <2>4, <2>5, <2>6 DEF Numbered
<1>3. CASE Refuse \/ UNCHANGED <<failures, adrift>>
  <2>1. adrift' = adrift /\ failures' \in {failures, failures + 1}
    BY <1>3 DEF Refuse
  <2>2. \A n \in Nat : n <= failures => n <= failures'
    BY <1>1, <2>1
  <2>3. \A c \in adrift : c.copy.broke \in 1..failures'
    BY <1>1, <2>1 DEF Numbered
  <2>4. QED
    BY <1>1, <2>1, <2>2, <2>3 DEF Numbered
<1>4. QED
  BY <1>2, <1>3

\* A copy that reaches the agent has no number, or leaves its connection.
LEMMA NumberedTaken ==
    ASSUME TypeInv, Numbered, failures' = failures, NEW x, taken' = Append(taken, x),
           \/ x.broke = 0 /\ adrift' = adrift
           \/ \E c \in adrift : x = c.copy /\ adrift' = adrift \ {c}
    PROVE  Numbered'
<1>1. /\ failures \in Nat /\ \A i \in DOMAIN taken : taken[i].broke \in Nat
      /\ taken \in Seq(Copies) /\ Len(taken) \in Nat /\ DOMAIN taken = 1..Len(taken)
  BY NumberedTypes
<1>2. /\ DOMAIN taken' = 1..(Len(taken) + 1) /\ taken'[Len(taken) + 1] = x
      /\ \A i \in DOMAIN taken : taken'[i] = taken[i]
  BY <1>1
<1>3. \A i \in DOMAIN taken' : i \in DOMAIN taken \/ i = Len(taken) + 1
  BY <1>1, <1>2
<1>4. adrift' \subseteq adrift
  OBVIOUS
<1>5. x.broke <= failures /\ \A c \in adrift' : c.copy.broke # x.broke
  <2>1. CASE x.broke = 0 /\ adrift' = adrift
    <3>1. \A c \in adrift : c.copy.broke \in 1..failures
      BY DEF Numbered
    <3>2. QED
      BY <1>1, <2>1, <3>1
  <2>2. CASE \E c \in adrift : x = c.copy /\ adrift' = adrift \ {c}
    <3>1. PICK c \in adrift : x = c.copy /\ adrift' = adrift \ {c}
      BY <2>2
    <3>2. x.broke \in 1..failures
      BY <3>1 DEF Numbered
    <3>3. \A d \in adrift' : d.copy.broke # x.broke
      BY <3>1 DEF Numbered
    <3>4. QED
      BY <1>1, <3>2, <3>3
  <2>3. QED
    BY <2>1, <2>2
<1>6. \A i \in DOMAIN taken : taken[i].broke = x.broke => x.broke = 0
  <2>1. CASE x.broke = 0
    BY <2>1
  <2>2. CASE \E c \in adrift : x = c.copy
    BY <2>2 DEF Numbered
  <2>3. QED
    BY <2>1, <2>2
<1>7. \A i \in DOMAIN taken' : taken'[i].broke <= failures
  BY <1>2, <1>3, <1>5 DEF Numbered
<1>8. \A c \in adrift', i \in DOMAIN taken' : taken'[i].broke # c.copy.broke
  BY <1>2, <1>3, <1>4, <1>5 DEF Numbered
<1>9. ASSUME NEW i \in DOMAIN taken', NEW j \in DOMAIN taken',
             taken'[i].broke = taken'[j].broke, taken'[i].broke # 0
      PROVE  i = j
  <2>1. CASE i \in DOMAIN taken /\ j \in DOMAIN taken
    BY <1>2, <1>9, <2>1 DEF Numbered
  <2>2. CASE i \notin DOMAIN taken \/ j \notin DOMAIN taken
    BY <1>2, <1>3, <1>6, <1>9, <2>2
  <2>3. QED
    BY <2>1, <2>2
<1>10. \A c \in adrift' : c.copy.broke \in 1..failures
  BY <1>4 DEF Numbered
<1>11. \A c, d \in adrift' : c.copy.broke = d.copy.broke => c = d
  BY <1>4 DEF Numbered
<1>12. QED
  BY <1>7, <1>8, <1>9, <1>10, <1>11 DEF Numbered

LEMMA NumberedStep == TypeInv /\ Numbered /\ [Next]_vars => Numbered'
<1> SUFFICES ASSUME TypeInv, Numbered, [Next]_vars PROVE Numbered'
  OBVIOUS
<1>1. ASSUME NEW w, NEW m, NEW t, Failed(w, m, t) \/ SendAgain(w, m, t) PROVE Numbered'
  <2>1. taken' = taken /\ (Break(m, t) \/ Refuse)
    BY <1>1 DEF Failed, SendAgain, server
  <2>2. QED
    BY <2>1, NumberedRequest
<1>2. ASSUME NEW w, NEW m, NEW t, Answered(w),
             TakeStart(Copy(m, 0)) \/ TakeSteer(Copy(m, 0), t)
      PROVE  Numbered'
  <2>1. /\ taken' = Append(taken, Copy(m, 0)) /\ Copy(m, 0).broke = 0
        /\ failures' = failures /\ adrift' = adrift
    BY <1>2, CopyIs DEF TakeStart, TakeSteer, Answered
  <2>2. QED
    BY <2>1, NumberedTaken
<1>3. CASE taken' = taken /\ UNCHANGED <<failures, adrift>>
  BY <1>3, NumberedRequest
<1>4. ASSUME NEW c \in adrift, Arrive(c) PROVE Numbered'
  <2>1. failures' = failures /\ adrift' = adrift \ {c} /\ taken' = Append(taken, c.copy)
    BY <1>4 DEF Arrive, TakeStart, TakeSteer
  <2>2. QED
    BY <2>1, NumberedTaken
<1>5. ASSUME NEW w, NEW m, NEW t, Unsteered(w, m, t) PROVE Numbered'
  <2>1. CASE Answered(w) /\ UNCHANGED <<events, server>>
    <3>1. taken' = taken /\ UNCHANGED <<failures, adrift>>
      BY <2>1 DEF Answered, server
    <3>2. QED
      BY <1>3, <3>1
  <2>2. QED
    BY <1>1, <1>5, <2>1 DEF Unsteered
<1>6. CASE Complete \/ UNCHANGED vars
  BY <1>3, <1>6 DEF Complete, vars, server, network
<1>7. CASE Listener
  <2>1. CASE Sent
    BY <1>1, <1>2, <2>1 DEF Sent
  <2>2. CASE TurnStarted \/ UserItem \/ TurnCompleted \/ SendNext
    BY <1>3, <2>2 DEF TurnStarted, UserItem, TurnCompleted, SendNext, Receive, server, network
  <2>3. QED
    BY <1>7, <2>1, <2>2 DEF Listener
<1>8. CASE User
  <2>1. ASSUME NEW m \in Messages, SteerAtOnce(m) PROVE Numbered'
    BY <1>2, <1>5, <2>1 DEF SteerAtOnce
  <2>2. ASSUME NEW m \in Messages, Start(m) PROVE Numbered'
    BY <1>1, <1>2, <2>2 DEF Start
  <2>3. ASSUME NEW k \in Taps, Steer(k) PROVE Numbered'
    BY <1>2, <1>5, <2>3 DEF Steer
  <2>4. ASSUME NEW m \in Messages, Write(m) \/ Queue(m) PROVE Numbered'
    BY <1>3, <2>4 DEF Write, Queue, server, network
  <2>5. ASSUME NEW k \in Taps, BeginSteer(k) \/ Delete(k) PROVE Numbered'
    BY <1>3, <2>5 DEF BeginSteer, Delete, server, network
  <2>6. ASSUME NEW k \in Taps, NEW m \in Messages, TapSteer(k, m) \/ TapDelete(k, m) PROVE Numbered'
    BY <1>3, <2>6 DEF TapSteer, TapDelete, server, network
  <2>7. QED
    BY <1>8, <2>1, <2>2, <2>3, <2>4, <2>5, <2>6 DEF User
<1>9. CASE Worker
  BY <1>1, <1>9 DEF Worker
<1>10. QED
  BY <1>4, <1>6, <1>7, <1>8, <1>9 DEF Next

-----------------------------------------------------------------------------
(* The theorem.                                                             *)

LEMMA QueueStep ==
    TypeInv /\ TypeInv' /\ OrderInv /\ OrderInv' /\ Numbered /\ (~clobbered => QueueInv)
      /\ [Next]_vars
        => (~clobbered' => QueueInv')
<1> SUFFICES ASSUME TypeInv, TypeInv', OrderInv, OrderInv', Numbered,
                    ~clobbered => QueueInv, [Next]_vars, ~clobbered'
             PROVE  QueueInv'
  OBVIOUS
<1>1. QueueInv
  <2>1. clobbered' = clobbered \/ \E k \in Taps : Delete(k)
    BY DEF Next, Complete, Arrive, Worker, SendAgain, Listener, TurnStarted, UserItem, TurnCompleted, Receive, SendNext, Sent,
           User, Write, Queue, SteerAtOnce, Start, BeginSteer, Steer, TapSteer, TapDelete,
           history, vars
  <2>2. QED
    BY <2>1 DEF Delete
<1>2. CASE Complete
  <2>1. /\ turn' = 0 /\ events' = Append(events, Completed(turn)) /\ tap' = tap
        /\ UNCHANGED <<store, listen, writing, history, taken>>
    BY <1>2 DEF Complete
  <2>2. TapsSettle(NoMessage)
    BY <1>1, <2>1, TapsStill, TapsOfNobody DEF QueueInv
  <2>3. QED
    BY <1>1, <2>1, <2>2, FirstStays, FewerSame, QuietQueue
    DEF store, listen, writing, history, Quiet
<1>3. CASE Listener
  BY <1>1, <1>3, ListenerQueue
<1>4. CASE User
  BY <1>1, <1>4, WriterQueue, TapQueue DEF User
<1>5. CASE UNCHANGED vars \/ Worker
  <2>1. /\ UNCHANGED <<taken, queued, listener, activeTurn, sending>> /\ drafts' = drafts
        /\ events' = events /\ writer' = writer /\ tap' = tap /\ turn' = turn
    BY <1>5 DEF vars, Worker, SendAgain, store, listen, writing, server, history
  <2>2. TapsSettle(NoMessage)
    BY <1>1, <2>1, TapsStill, TapsOfNobody DEF QueueInv
  <2>3. QED
    BY <1>1, <2>1, <2>2, FewerSame, QuietQueue DEF Quiet
<1>6. ASSUME NEW c \in adrift, Arrive(c), Numbered PROVE QueueInv'
  <2>1. /\ UNCHANGED <<queued, listener, activeTurn, sending>> /\ drafts' = drafts
        /\ writer' = writer /\ tap' = tap
    BY <1>6 DEF Arrive, store, listen, writing, history
  <2>2. c.copy \in Copies /\ c.copy.broke # 0
    <3>1. c.copy.broke \in 1..failures
      BY <1>6 DEF Numbered
    <3>2. QED
      BY <1>6, <3>1, Arrives
  <2>3. PICK t \in Nat \ {0} : TakeStart(c.copy) \/ TakeSteer(c.copy, t)
    BY <1>6, Arrives
  <2>4. Quiet
    BY <2>2, <2>3 DEF Quiet, TakeStart, TakeSteer
  <2>5. /\ events # <<>> => events' # <<>> /\ Head(events') = Head(events)
        /\ \A k \in Taps : tap[k].turn = turn' => turn' = turn
    BY <2>1, <2>3, ServerFirst, ServerOrder
  <2>6. TapsSettle(NoMessage)
    BY <1>1, <2>1, <2>5, TapsStill, TapsOfNobody DEF QueueInv
  <2>7. QED
    BY <1>1, <2>1, <2>4, <2>5, <2>6, FewerSame, QuietQueue
<1>7. QED
  BY <1>2, <1>3, <1>4, <1>5, <1>6 DEF Next

\* No message reaches the agent twice, for any messages, taps and failures, but for one copy of
\* every request under which a connection broke (which the worker, the user's steer and the queue
\* all send again), unless a delete has written back a queue that had changed.  A message is with
\* its start_turn, or in the queue once, or with the agent by a request that was answered, and one
\* the agent has so leaves the queue before the next automatic send.
THEOREM NothingSentTwice == Spec => []AtMostOnce
<1> DEFINE Inv == TypeInv /\ OrderInv /\ Numbered /\ (~clobbered => QueueInv)
<1>1. Init => Inv
  <2> SUFFICES ASSUME Init PROVE Inv
    OBVIOUS
  <2>1. TypeInv
    BY InitTypes
  <2>2. /\ drafts = <<>> /\ activeTurn = 0 /\ events = <<>> /\ listener = "recv"
        /\ sending = NoMessage /\ tap = [k \in Taps |-> NoTap] /\ turn = 0 /\ taken = <<>>
        /\ queued = {} /\ adrift = {}
    BY DEF Init
  <2>3. /\ Len(events) = 0 /\ DOMAIN events = {} /\ DOMAIN drafts = {} /\ DOMAIN taken = {}
    BY <2>2
  <2>4. \A k \in Taps : tap[k].pc = "none"
    BY <2>2 DEF NoTap
  <2>5. OrderInv
    BY <2>2, <2>3 DEF OrderInv, Ordered, Orderly, After, LiveIsActive, Live, IdleOutside
  <2>6. QueueInv
    BY <2>2, <2>3, <2>4
    DEF QueueInv, Settled, Unwritten, IsTaken, Drafted, Once, Aimed, AtHand, Steered, TakenOnce,
        TakenLeaves
  <2>7. Numbered
    BY <2>2, <2>3 DEF Numbered
  <2>8. QED
    BY <2>1, <2>5, <2>6, <2>7
<1>2. Inv /\ [Next]_vars => Inv'
  <2> SUFFICES ASSUME Inv, [Next]_vars PROVE Inv'
    OBVIOUS
  <2>1. TypeInv'
    BY StepTypes
  <2>2. OrderInv'
    BY OrderStep
  <2>3. Numbered'
    BY NumberedStep
  <2>4. QED
    BY <2>1, <2>2, <2>3, QueueStep
<1>3. Inv => AtMostOnce
  <2> SUFFICES ASSUME TypeInv, Numbered, QueueInv, NEW i \in DOMAIN taken, NEW j \in DOMAIN taken,
                      taken[i] = taken[j]
               PROVE  i = j
    BY DEF AtMostOnce
  <2>1. CASE taken[i].broke = 0
    BY <2>1 DEF QueueInv, Settled, TakenOnce
  <2>2. CASE taken[i].broke # 0
    BY <2>2 DEF Numbered
  <2>3. QED
    BY <2>1, <2>2
<1>4. QED
  BY <1>1, <1>2, <1>3, PTL DEF Spec
=============================================================================
