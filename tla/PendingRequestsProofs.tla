------------------------ MODULE PendingRequestsProofs ------------------------
(***************************************************************************)
(* Proofs about pending requests, for any servers, answers, event channel  *)
(* and number of requests and faults: type correctness; that an answer     *)
(* reaches another request only when the one tapped had left its list or   *)
(* across a restart; and that at rest the lists agree with the servers but *)
(* for the named reasons.                                                  *)
(***************************************************************************)
EXTENDS PendingRequests, FiniteSetTheorems, TLAPS

Request  == [server : Servers, process : 0..MaxFaults, id : Nat, kind : Kinds]
Event(S) == [what : {"asked", "resolved"}, request : S]
Found(S) == [at : {"send", "settle"}, tapped : S, request : S, left : BOOLEAN]
Look(S)  == [at : {"look"}, tapped : S, request : {0}, left : {FALSE}]
Call(S)  == {NoCall} \cup Look(S) \cup Found(S)
Astray(S, T) == [tapped : S, found : S, answered : T, left : BOOLEAN]

-----------------------------------------------------------------------------
(* Ids.                                                                     *)

\* The requests of one process of a server, which counts them.
Batch(s, p) == {r \in Made : Server(r) = s /\ requests[r].process = p}

Counted == \A r \in Made : Id(r) < Cardinality(Batch(Server(r), requests[r].process))

\* The id names a request of a process, and no request is of a later process.
Distinct ==
    \A r, x \in Made :
        Server(r) = Server(x) /\ requests[r].process = requests[x].process /\ Id(r) = Id(x)
            => r = x

Past == \A r \in Made : requests[r].process <= process[Server(r)]

\* No process was started more often than all together.
Processes == \A s \in Servers : process[s] <= faults

\* A list has an id once, so a lookup by the id finds what was tapped while it is there.
OneEach == \A r, x \in shown : Id(r) = Id(x) /\ Kind(r) = Kind(x) => r = x

Exact ==
    \A u \in Users :
        calls[u].at \in {"send", "settle"} => calls[u].tapped = calls[u].request \/ calls[u].left

Ids == Counted /\ Distinct /\ Past /\ Processes /\ OneEach /\ Exact

-----------------------------------------------------------------------------
(* Lists.                                                                   *)

Coming(w, r) == \E i \in 1..Len(events) : events[i].what = w /\ events[i].request = r

\* An open request the client knows is listed, or will be, or is accounted for.
Awaited ==
    \A r \in open \cap told : r \in shown \/ cause[r] # "none" \/ Coming("asked", r)

\* An entry whose request has ended will leave, or is accounted for.
Outlived == \A r \in shown \ open : r \in unheard \/ Coming("resolved", r)

\* What is asked was told, what is resolved has ended, and the one comes before the other.
EventsAreReal ==
    \A i \in 1..Len(events) :
        /\ events[i].what = "asked" => events[i].request \in told
        /\ events[i].what = "resolved" => events[i].request \notin open

BeginsBeforeEnds ==
    \A i \in 1..Len(events) :
        events[i].what = "asked" /\ events[i].request \notin open
            => \/ events[i].request \in unheard
               \/ \E j \in (i+1)..Len(events) :
                     events[j].what = "resolved" /\ events[j].request = events[i].request

Lists == Awaited /\ Outlived /\ EventsAreReal /\ BeginsBeforeEnds

IInv == TypeOK /\ Ids /\ AnswerReachesAsker /\ Lists
-----------------------------------------------------------------------------
(* The event channel.                                                       *)

\* What an emission leaves of the events: all but the d oldest.
LEMMA Shifted ==
    ASSUME NEW S, NEW q \in Seq(Event(S)), Len(q) > QueueSize
    PROVE  LET d == Len(q) - QueueSize IN
           /\ Kept(q) \in Seq(Event(S)) /\ Len(Kept(q)) = QueueSize
           /\ d \in 1..(Len(q) - 1)
           /\ \A i \in 1..QueueSize : Kept(q)[i] = q[i + d] /\ i + d \in 1..Len(q)
<1> DEFINE d == Len(q) - QueueSize
<1>1. QueueSize \in Nat \ {0} /\ Len(q) \in Nat
  BY PendingAssumption
<1>2. d \in 1..(Len(q) - 1)
  BY <1>1
<1>3. Kept(q) = [i \in 1..(1 + Len(q) - (d + 1)) |-> q[i + (d + 1) - 1]]
  BY <1>1 DEF Kept
<1>4. 1 + Len(q) - (d + 1) = QueueSize
  BY <1>1
<1>5. \A i \in 1..QueueSize : i + (d + 1) - 1 = i + d /\ i + d \in 1..Len(q)
  BY <1>1
<1>6. Kept(q) = [i \in 1..QueueSize |-> q[i + d]]
  BY <1>3, <1>4, <1>5
<1>7. QED
  BY <1>1, <1>2, <1>5, <1>6

\* The channel lets go of the d oldest events of q, and has the rest.
LetsGo(q, d) ==
    /\ d = 0 \/ d < Len(q)
    /\ Len(events') = Len(q) - d
    /\ \A i \in 1..Len(events') : events'[i] = q[i + d] /\ i + d \in 1..Len(q)
    /\ \A w : Overwritten(q, w) = {q[i].request : i \in {j \in 1..d : q[j].what = w}}

LEMMA EmitShape ==
    ASSUME NEW S, events \in Seq(Event(S)), Len(events) <= QueueSize,
           NEW es \in Seq(Event(S)), NEW rs, EmitEnding(es, rs)
    PROVE  LET q == events \o es IN
           /\ q \in Seq(Event(S)) /\ Len(q) = Len(events) + Len(es)
           /\ \A i \in 1..Len(events) : q[i] = events[i]
           /\ \A i \in 1..Len(es) : q[i + Len(events)] = es[i]
           /\ events' \in Seq(Event(S)) /\ Len(events') <= QueueSize
           /\ \E d \in 0..Len(q) : LetsGo(q, d)
<1> DEFINE q == events \o es
<1>1. q \in Seq(Event(S)) /\ Len(q) = Len(events) + Len(es) /\ Len(q) \in Nat
  OBVIOUS
<1>2. /\ \A i \in 1..Len(events) : q[i] = events[i]
      /\ \A i \in 1..Len(es) : q[i + Len(events)] = es[i]
  OBVIOUS
<1>3. QueueSize \in Nat \ {0}
  BY PendingAssumption
<1>4. CASE Len(q) <= QueueSize
  <2>1. events' = q
    BY <1>4 DEF EmitEnding
  <2>2. \A w : Overwritten(q, w) = {q[i].request : i \in {j \in 1..0 : q[j].what = w}}
    BY <1>1, <1>3, <1>4 DEF Overwritten
  <2>3. /\ 0 \in 0..Len(q) /\ Len(events') = Len(q) - 0
        /\ \A i \in 1..Len(events') : events'[i] = q[i + 0] /\ i + 0 \in 1..Len(q)
    BY <1>1, <2>1
  <2>4. LetsGo(q, 0)
    BY <2>2, <2>3 DEF LetsGo
  <2>5. QED
    BY <1>1, <1>2, <1>4, <2>1, <2>3, <2>4
<1>5. CASE Len(q) > QueueSize
  <2>1. events' = Kept(q)
    BY <1>1, <1>3, <1>5 DEF EmitEnding
  <2> DEFINE d == Len(q) - QueueSize
  <2>2. /\ events' \in Seq(Event(S)) /\ Len(events') = QueueSize
        /\ d \in 1..(Len(q) - 1)
        /\ \A i \in 1..QueueSize : events'[i] = q[i + d] /\ i + d \in 1..Len(q)
    BY <1>1, <1>5, <2>1, Shifted
  <2>3. \A w : Overwritten(q, w) = {q[i].request : i \in {j \in 1..d : q[j].what = w}}
    BY DEF Overwritten
  <2>4. d \in 0..Len(q) /\ d < Len(q) /\ Len(events') = Len(q) - d
    BY <1>1, <1>3, <2>2
  <2>5. Len(events') <= QueueSize
    BY <1>3, <2>2
  <2>6. LetsGo(q, d)
    BY <2>2, <2>3, <2>4 DEF LetsGo
  <2>7. QED
    BY <1>1, <1>2, <2>2, <2>4, <2>5, <2>6
<1>6. Len(q) <= QueueSize \/ Len(q) > QueueSize
  BY <1>1, <1>3
<1>7. QED
  BY <1>4, <1>5, <1>6, Zenon

-----------------------------------------------------------------------------
(* Types.                                                                   *)

LEMMA CallKinds ==
    ASSUME NEW S
    PROVE  /\ NoCall \in Call(S) /\ Look(S) \subseteq Call(S) /\ Found(S) \subseteq Call(S)
           /\ \A c \in Call(S) : /\ c.at = "look" => c \in Look(S)
                                 /\ c.at \in {"send", "settle"} => c \in Found(S)
<1>1. NoCall.at = "idle"
  BY DEF NoCall
<1>2. \A c \in Look(S) : c.at = "look"
  BY DEF Look
<1>3. \A c \in Found(S) : c.at \in {"send", "settle"}
  BY DEF Found
<1>4. QED
  BY <1>1, <1>2, <1>3 DEF Call

LEMMA CallEdits ==
    ASSUME NEW S, NEW f \in [Users -> Call(S)], NEW u \in Users,
           f[u].at = "send"
    PROVE  /\ [f EXCEPT ![u].at = "settle"] \in [Users -> Call(S)]
           /\ f[u] \in Found(S)
<1>1. f[u] \in Found(S)
  BY CallKinds
<1>2. [f[u] EXCEPT !.at = "settle"] \in Found(S)
  BY <1>1 DEF Found
<1>3. [f EXCEPT ![u].at = "settle"] = [f EXCEPT ![u] = [f[u] EXCEPT !.at = "settle"]]
  OBVIOUS
<1>4. QED
  BY <1>1, <1>2, <1>3, CallKinds

LEMMA CallGrows ==
    ASSUME NEW S, NEW T, S \subseteq T
    PROVE  /\ Call(S) \subseteq Call(T)
           /\ \A U, V : U \subseteq V => Astray(S, U) \subseteq Astray(T, V)
<1>1. Look(S) \subseteq Look(T) /\ Found(S) \subseteq Found(T)
  BY DEF Look, Found
<1>2. Call(S) \subseteq Call(T)
  BY <1>1 DEF Call
<1>3. QED
  BY <1>2 DEF Astray

LEMMA EventGrows ==
    ASSUME NEW S, NEW T, S \subseteq T, NEW q \in Seq(Event(S))
    PROVE  q \in Seq(Event(T))
<1>1. Event(S) \subseteq Event(T)
  BY DEF Event
<1>2. QED
  BY <1>1

LEMMA CauseTypes ==
    ASSUME NEW f \in [Serials -> Causes], NEW rs
    PROVE  /\ \A c \in Causes : Blame(f, rs, c) \in [Serials -> Causes]
           /\ Ended(f, rs) \in [Serials -> Causes]
BY DEF Blame, Ended, Causes

\* What an event is about was made, or is about to be.
LEMMA EmitTypes ==
    ASSUME NEW S, events \in Seq(Event(S)), Len(events) <= QueueSize,
           cause \in [Serials -> Causes],
           NEW es \in Seq(Event(S)), NEW rs, EmitEnding(es, rs)
    PROVE  /\ events' \in Seq(Event(S)) /\ Len(events') <= QueueSize
           /\ cause' \in [Serials -> Causes]
           /\ \A r \in unheard' : \/ r \in unheard
                                  \/ \E i \in 1..Len(events) :
                                        events[i].what = "resolved" /\ events[i].request = r
                                  \/ \E i \in 1..Len(es) :
                                        es[i].what = "resolved" /\ es[i].request = r
<1> DEFINE q == events \o es
<1>1. events' \in Seq(Event(S)) /\ Len(events') <= QueueSize
  BY EmitShape
<1>2. cause' \in [Serials -> Causes]
  BY DEF EmitEnding, Ended, Blame, Causes
<1>3. ASSUME NEW r \in unheard', r \notin unheard
      PROVE  \E i \in 1..Len(q) : q[i].what = "resolved" /\ q[i].request = r
  <2>1. r \in Overwritten(q, "resolved")
    BY <1>3 DEF EmitEnding
  <2>2. \A i \in 1..(Len(q) - QueueSize) : i \in 1..Len(q)
    BY PendingAssumption
  <2>3. QED
    BY <2>1, <2>2 DEF Overwritten
<1>4. /\ Len(q) = Len(events) + Len(es) /\ Len(events) \in Nat /\ Len(es) \in Nat
      /\ \A i \in 1..Len(events) : q[i] = events[i]
      /\ \A i \in 1..Len(es) : q[i + Len(events)] = es[i]
  OBVIOUS
<1>5. ASSUME NEW i \in 1..Len(q)
      PROVE  \/ i \in 1..Len(events) /\ q[i] = events[i]
             \/ i - Len(events) \in 1..Len(es) /\ q[i] = es[i - Len(events)]
  <2>1. CASE i <= Len(events)
    BY <1>4, <2>1
  <2>2. CASE i > Len(events)
    <3>1. i - Len(events) \in 1..Len(es) /\ (i - Len(events)) + Len(events) = i
      BY <1>4, <2>2
    <3>2. QED
      BY <1>4, <3>1
  <2>3. QED
    BY <1>4, <2>1, <2>2
<1>6. ASSUME NEW r \in unheard', r \notin unheard
      PROVE  \/ \E i \in 1..Len(events) : events[i].what = "resolved" /\ events[i].request = r
             \/ \E i \in 1..Len(es) : es[i].what = "resolved" /\ es[i].request = r
  <2>1. PICK i \in 1..Len(q) : q[i].what = "resolved" /\ q[i].request = r
    BY <1>3, <1>6
  <2>2. QED
    BY <1>5, <2>1, Zenon
<1>7. QED
  BY <1>1, <1>2, <1>6, Zenon

LEMMA BatchFinite ==
    ASSUME requests \in Seq(Request), NEW s, NEW p
    PROVE  IsFiniteSet(Batch(s, p)) /\ Cardinality(Batch(s, p)) \in Nat
<1>1. Len(requests) \in Nat
  OBVIOUS
<1>2. IsFiniteSet(Made)
  BY <1>1, FS_Interval DEF Made
<1>3. IsFiniteSet(Batch(s, p))
  BY <1>2, FS_Subset DEF Batch
<1>4. QED
  BY <1>3, FS_CardinalityType

LEMMA NextIdCounts == \A s : NextId(s) = Cardinality(Batch(s, process[s]))
BY DEF NextId, Batch

-----------------------------------------------------------------------------
LEMMA TypesInit == Init => TypeOK
<1>1. SUFFICES ASSUME Init PROVE TypeOK
  OBVIOUS
<1>2. 1..Len(requests) = {} /\ requests = <<>> /\ events = <<>>
  BY <1>1 DEF Init
<1>3. /\ \A S : requests \in Seq(S) /\ events \in Seq(S)
      /\ Len(requests) <= MaxRequests /\ Len(events) <= QueueSize
  BY <1>2, PendingAssumption
<1>4. /\ process \in [Servers -> 0..MaxFaults] /\ link \in [Servers -> {"up", "down", "gone"}]
      /\ faults \in 0..MaxFaults
  BY <1>1, PendingAssumption DEF Init
<1>5. calls \in [Users -> {NoCall}] /\ cause \in [Serials -> Causes]
  BY <1>1 DEF Init, Causes
<1>6. open = {} /\ told = {} /\ shown = {} /\ unheard = {} /\ misled = {}
  BY <1>1 DEF Init
<1>7. calls \in [Users -> Calls]
  BY <1>5 DEF Calls
<1>8. misled \subseteq [tapped : told, found : told, answered : Made, left : BOOLEAN]
  BY <1>6
<1>9. QED
  BY <1>3, <1>4, <1>5, <1>6, <1>7, <1>8 DEF TypeOK

\* The type invariant, with the names used here.
Typed ==
    /\ requests \in Seq(Request) /\ Len(requests) <= MaxRequests
    /\ open \subseteq Made /\ told \subseteq Made /\ shown \subseteq told
    /\ process \in [Servers -> 0..MaxFaults]
    /\ link \in [Servers -> {"up", "down", "gone"}]
    /\ events \in Seq(Event(Made)) /\ Len(events) <= QueueSize
    /\ calls \in [Users -> Call(told)]
    /\ cause \in [Serials -> Causes] /\ unheard \subseteq Made \ open
    /\ misled \subseteq Astray(told, Made)
    /\ faults \in 0..MaxFaults

LEMMA Types == (TypeOK <=> Typed) /\ (TypeOK' <=> Typed')
BY DEF TypeOK, Typed, Request, Event, Call, Calls, Look, Found, Astray

\* What asking adds.
LEMMA Asking ==
    ASSUME TypeOK, NEW s \in Servers, NEW k \in Kinds, Ask(s, k)
    PROVE  LET r == Len(requests) + 1 IN
           /\ requests' \in Seq(Request) /\ Len(requests') = r /\ r <= MaxRequests
           /\ r \notin Made /\ Made' = Made \cup {r} /\ Made \subseteq Serials
           /\ \A x \in Made : requests'[x] = requests[x]
           /\ requests'[r] = [server |-> s, process |-> process[s], id |-> NextId(s), kind |-> k]
<1> DEFINE r == Len(requests) + 1
           new == [server |-> s, process |-> process[s], id |-> NextId(s), kind |-> k]
<1>1. requests \in Seq(Request) /\ Len(requests) < MaxRequests /\ MaxRequests \in Nat
  BY Types, PendingAssumption DEF Ask, Typed
<1>2. NextId(s) \in Nat
  BY <1>1, NextIdCounts, BatchFinite
<1>3. process[s] \in 0..MaxFaults
  BY Types DEF Typed
<1>4. new \in Request
  BY <1>2, <1>3 DEF Request
<1>5. requests' = Append(requests, new)
  BY DEF Ask
<1> HIDE DEF new
<1>6. /\ requests' \in Seq(Request) /\ Len(requests') = r /\ Len(requests) \in Nat
      /\ \A x \in 1..Len(requests) : requests'[x] = requests[x]
      /\ requests'[r] = new
  BY <1>1, <1>4, <1>5
<1>7. Made' = 1..r
  BY <1>6 DEF Made
<1>8. r \notin Made /\ 1..r = Made \cup {r} /\ Made \subseteq Serials
  BY <1>1, <1>6 DEF Made, Serials
<1>9. QED
  BY <1>1, <1>6, <1>7, <1>8 DEF Made, new

LEMMA EventsMade ==
    ASSUME TypeOK, EventsAreReal, NEW i \in 1..Len(events)
    PROVE  /\ events[i].request \in Made /\ events[i].what \in {"asked", "resolved"}
           /\ events[i].what = "asked" => events[i].request \in told
           /\ events[i].what = "resolved" => events[i].request \notin open
<1>1. events[i] \in Event(Made)
  BY Types DEF Typed
<1>2. QED
  BY <1>1 DEF Event, EventsAreReal

LEMMA AskTypes ==
    ASSUME TypeOK, EventsAreReal, NEW s \in Servers, NEW k \in Kinds, Ask(s, k)
    PROVE  TypeOK'
<1> DEFINE r == Len(requests) + 1
<1>1. /\ requests' \in Seq(Request) /\ Len(requests') <= MaxRequests
      /\ Made' = Made \cup {r} /\ r \notin Made
  BY Asking
<1> HIDE DEF r
<1>2. open' = open \cup {r} /\ UNCHANGED <<process, link, shown, calls, faults, misled>>
  BY DEF Ask, r
<1>3. events \in Seq(Event(Made'))
  <2>1. events \in Seq(Event(Made))
    BY Types DEF Typed
  <2>2. QED
    BY <1>1, <2>1, EventGrows
<1>4. CASE link[s] = "up"
  <2>1. Emit(<<Asked(r)>>) /\ told' = told \cup {r}
    BY <1>4 DEF Ask, r
  <2>2. Asked(r) \in Event(Made') /\ Asked(r).what = "asked"
    BY <1>1 DEF Asked, Event
  <2> DEFINE es == <<Asked(r)>>
  <2>3. es \in Seq(Event(Made')) /\ Len(es) = 1 /\ es[1] = Asked(r)
    BY <2>2
  <2>4. \A i \in 1..Len(es) : es[i].what = "asked"
    BY <2>2, <2>3
  <2>5. EmitEnding(es, {})
    BY <2>1 DEF Emit
  <2> HIDE DEF es
  <2>6. Len(events) <= QueueSize /\ cause \in [Serials -> Causes]
    BY Types DEF Typed
  <2>7. /\ events' \in Seq(Event(Made')) /\ Len(events') <= QueueSize
        /\ cause' \in [Serials -> Causes]
        /\ \A x \in unheard' : \/ x \in unheard
                               \/ \E i \in 1..Len(events) :
                                     events[i].what = "resolved" /\ events[i].request = x
                               \/ \E i \in 1..Len(es) :
                                     es[i].what = "resolved" /\ es[i].request = x
    BY <1>3, <2>3, <2>5, <2>6, EmitTypes
  <2>8. unheard' \subseteq Made' \ open'
    <3>1. \A x \in unheard' : x \in Made /\ x \notin open
      BY <2>4, <2>7, EventsMade, Types DEF Typed
    <3>2. QED
      BY <1>1, <1>2, <3>1
  <2>9. calls' \in [Users -> Call(told')]
    BY <1>2, <2>1, CallGrows, Types DEF Typed
  <2>10. told' \subseteq Made' /\ shown' \subseteq told' /\ open' \subseteq Made'
    BY <1>1, <1>2, <2>1, Types DEF Typed
  <2>13. misled' \subseteq Astray(told', Made')
    BY <1>1, <1>2, <2>1, CallGrows, Types DEF Typed
  <2>11. Typed'
    BY <1>1, <1>2, <2>7, <2>8, <2>9, <2>10, <2>13, Types DEF Typed
  <2>12. QED
    BY <2>11, Types
<1>5. CASE link[s] # "up"
  <2>1. UNCHANGED <<events, cause, unheard, told>>
    BY <1>5 DEF Ask
  <2>2. unheard' \subseteq Made' \ open' /\ told' \subseteq Made' /\ open' \subseteq Made'
    BY <1>1, <1>2, <2>1, Types DEF Typed
  <2>5. misled' \subseteq Astray(told', Made')
    BY <1>1, <1>2, <2>1, CallGrows, Types DEF Typed
  <2>3. Typed'
    BY <1>1, <1>2, <1>3, <2>1, <2>2, <2>5, Types DEF Typed
  <2>4. QED
    BY <2>3, Types
<1>6. QED
  BY <1>4, <1>5

\* An emission when nothing is asked for the first time.
LEMMA EmitKeeps ==
    ASSUME TypeOK, EventsAreReal, NEW es \in Seq(Event(Made)), NEW rs, EmitEnding(es, rs),
           requests' = requests, open' \subseteq open,
           \A i \in 1..Len(es) : es[i].what = "resolved" => es[i].request \notin open'
    PROVE  /\ events' \in Seq(Event(Made')) /\ Len(events') <= QueueSize
           /\ cause' \in [Serials -> Causes] /\ unheard' \subseteq Made' \ open'
<1>1. Made' = Made
  BY DEF Made
<1>2. events \in Seq(Event(Made)) /\ Len(events) <= QueueSize /\ cause \in [Serials -> Causes]
  BY Types DEF Typed
<1>3. /\ events' \in Seq(Event(Made)) /\ Len(events') <= QueueSize
      /\ cause' \in [Serials -> Causes]
      /\ \A x \in unheard' : \/ x \in unheard
                             \/ \E i \in 1..Len(events) :
                                   events[i].what = "resolved" /\ events[i].request = x
                             \/ \E i \in 1..Len(es) :
                                   es[i].what = "resolved" /\ es[i].request = x
  BY <1>2, EmitTypes
<1>4. \A i \in 1..Len(es) : es[i].request \in Made
  <2>1. \A i \in 1..Len(es) : es[i] \in Event(Made)
    OBVIOUS
  <2>2. QED
    BY <2>1 DEF Event
<1>5. unheard \subseteq Made \ open
  BY Types DEF Typed
<1>6. \A x \in unheard' : x \in Made /\ x \notin open'
  BY <1>3, <1>4, <1>5, EventsMade
<1>7. QED
  BY <1>1, <1>3, <1>6

\* The one event of a request that ends.
LEMMA Ending ==
    ASSUME NEW x \in Made
    PROVE  /\ <<Resolved(x)>> \in Seq(Event(Made)) /\ Len(<<Resolved(x)>>) = 1
           /\ <<Resolved(x)>>[1].what = "resolved" /\ <<Resolved(x)>>[1].request = x
BY DEF Resolved, Event

LEMMA WithdrawTypes ==
    ASSUME TypeOK, EventsAreReal, NEW r \in Serials, Withdraw(r)
    PROVE  TypeOK'
<1>1. /\ r \in open /\ r \in Made /\ open' = open \ {r}
      /\ UNCHANGED <<requests, process, link, shown, calls, faults, told, misled>>
  BY Types DEF Withdraw, Typed
<1>2. /\ events' \in Seq(Event(Made')) /\ Len(events') <= QueueSize
      /\ cause' \in [Serials -> Causes] /\ unheard' \subseteq Made' \ open'
  <2>1. CASE link[Server(r)] = "up"
    <3>1. EmitEnding(<<Resolved(r)>>, {r})
      BY <2>1 DEF Withdraw
    <3>2. /\ <<Resolved(r)>> \in Seq(Event(Made)) /\ open' \subseteq open
          /\ \A i \in 1..Len(<<Resolved(r)>>) : <<Resolved(r)>>[i].request \notin open'
      BY <1>1, Ending
    <3>3. requests' = requests
      BY <1>1
    <3>4. QED
      BY <3>1, <3>2, <3>3, EmitKeeps
  <2>2. CASE link[Server(r)] # "up"
    <3>1. unheard' = unheard \cup {r} /\ cause' = Ended(cause, {r}) /\ events' = events
      BY <2>2 DEF Withdraw
    <3>2. cause' \in [Serials -> Causes]
      BY <3>1, Types DEF Ended, Causes, Typed
    <3>3. QED
      BY <1>1, <3>1, <3>2, Types DEF Typed, Made
  <2>3. QED
    BY <2>1, <2>2
<1>3. Typed'
  BY <1>1, <1>2, Types DEF Typed, Made
<1>4. QED
  BY <1>3, Types

LEMMA RestartTypes ==
    ASSUME TypeOK, Processes, NEW s \in Servers, Restart(s)
    PROVE  TypeOK'
<1>1. UNCHANGED <<requests, events, shown, calls, told, misled>> /\ Made' = Made
  BY DEF Restart, Made
<1>2. faults' \in 0..MaxFaults /\ link' \in [Servers -> {"up", "down", "gone"}]
  BY Types, PendingAssumption DEF Restart, Typed
<1>3. cause' \in [Serials -> Causes]
  BY Types DEF Restart, Ended, Causes, Typed
<1>4. PICK ended : /\ ended \subseteq open /\ open' = open \ ended
                    /\ unheard' = unheard \cup ended
  <2>1. {r \in open : Server(r) = s} \subseteq open
    OBVIOUS
  <2>2. QED
    BY <2>1 DEF Restart
<1>5. open' \subseteq Made /\ unheard' \subseteq Made \ open'
  BY <1>4, Types DEF Typed
<1>6. process' \in [Servers -> 0..MaxFaults]
  <2>1. process[s] \in Nat /\ process[s] <= faults /\ faults < MaxFaults /\ faults \in Nat
    BY Types DEF Typed, Processes, Restart
  <2>2. process[s] + 1 \in 0..MaxFaults
    BY <2>1, PendingAssumption
  <2>3. QED
    BY <2>2, Types DEF Typed, Restart
<1>7. Typed'
  BY <1>1, <1>2, <1>3, <1>5, <1>6, Types DEF Typed
<1>8. QED
  BY <1>7, Types

\* The events of requests that are repeated.
LEMMA Repeats ==
    ASSUME TypeOK, NEW waiting \in SUBSET open, NEW order \in InOrder(waiting)
    PROVE  LET es == [i \in DOMAIN order |-> Asked(order[i])] IN
           /\ es \in Seq(Event(Made))
           /\ \A i \in 1..Len(es) : es[i].what = "asked" /\ es[i].request \in waiting
           /\ \A r \in waiting : \E i \in 1..Len(es) : es[i].what = "asked" /\ es[i].request = r
<1> DEFINE es == [i \in DOMAIN order |-> Asked(order[i])]
           n == Cardinality(waiting)
<1>1. n \in Nat
  <2>1. waiting \subseteq Made /\ Len(requests) \in Nat
    BY Types DEF Typed
  <2>2. IsFiniteSet(Made)
    BY <2>1, FS_Interval DEF Made
  <2>3. QED
    BY <2>1, <2>2, FS_Subset, FS_CardinalityType
<1>2. order \in [1..n -> waiting] /\ \A r \in waiting : \E i \in 1..n : order[i] = r
  BY DEF InOrder
<1> HIDE DEF n
<1>3. \A i \in 1..n : order[i] \in waiting /\ order[i] \in Made
  BY <1>2, Types DEF Typed
<1>4. es = [i \in 1..n |-> Asked(order[i])]
  BY <1>2
<1>5. \A i \in 1..n : es[i] \in Event(Made) /\ es[i].what = "asked" /\ es[i].request = order[i]
  BY <1>3, <1>4 DEF Asked, Event
<1>6. es \in [1..n -> Event(Made)]
  BY <1>4, <1>5
<1>7. es \in Seq(Event(Made)) /\ Len(es) = n
  BY <1>1, <1>6
<1>8. QED
  BY <1>2, <1>3, <1>5, <1>7, SMTT(30)

LEMMA ReconnectTypes ==
    ASSUME TypeOK, EventsAreReal, NEW s \in Servers, Reconnect(s)
    PROVE  TypeOK'
<1>1. /\ UNCHANGED <<requests, open, process, shown, calls, faults, misled>>
      /\ link' \in [Servers -> {"up", "down", "gone"}] /\ Made' = Made
  BY Types DEF Reconnect, Typed, Made
<1>2. CASE UNCHANGED <<events, cause, unheard, told>>
  <2>1. Typed'
    BY <1>1, <1>2, Types DEF Typed
  <2>2. QED
    BY <2>1, Types
<1>3. CASE \E waiting \in SUBSET open : \E order \in InOrder(waiting) :
              /\ Emit([i \in DOMAIN order |-> Asked(order[i])])
              /\ told' = told \cup waiting
  <2> PICK waiting \in SUBSET open :
        \E order \in InOrder(waiting) :
              /\ Emit([i \in DOMAIN order |-> Asked(order[i])])
              /\ told' = told \cup waiting
    BY <1>3
  <2>1. PICK order \in InOrder(waiting) :
              /\ Emit([i \in DOMAIN order |-> Asked(order[i])])
              /\ told' = told \cup waiting
    OBVIOUS
  <2> DEFINE es == [i \in DOMAIN order |-> Asked(order[i])]
  <2>2. /\ es \in Seq(Event(Made)) /\ \A i \in 1..Len(es) : es[i].what = "asked"
    BY <2>1, Repeats
  <2>3. EmitEnding(es, {})
    BY <2>1 DEF Emit
  <2> HIDE DEF es
  <2>4. /\ events' \in Seq(Event(Made')) /\ Len(events') <= QueueSize
        /\ cause' \in [Serials -> Causes] /\ unheard' \subseteq Made' \ open'
    BY <1>1, <2>2, <2>3, EmitKeeps
  <2>5. told' \subseteq Made /\ shown \subseteq told'
    BY <2>1, Types DEF Typed
  <2>6. calls \in [Users -> Call(told')] /\ misled \subseteq Astray(told', Made)
    BY <2>1, CallGrows, Types DEF Typed
  <2>7. Typed'
    BY <1>1, <2>4, <2>5, <2>6, Types DEF Typed
  <2>8. QED
    BY <2>7, Types
<1>4. QED
  <2>1. {r \in open : Server(r) = s} \in SUBSET open
    OBVIOUS
  <2>2. QED
    BY <1>2, <1>3, <2>1, Zenon DEF Reconnect

\* What a server waits for under an id is one request of its process.
LEMMA OneTarget ==
    ASSUME TypeOK, Distinct, NEW r
    PROVE  Target(r) \subseteq open /\ \A x, y \in Target(r) : x = y
BY Types DEF Typed, Distinct, Target

LEMMA DeliverTypes ==
    ASSUME TypeOK, EventsAreReal, NEW u \in Users, Deliver(u)
    PROVE  TypeOK'
<1> DEFINE r == calls[u].request
<1>1. /\ calls[u].at = "send" /\ open' = open \ Target(r) /\ Target(r) \subseteq open
      /\ UNCHANGED <<requests, process, link, shown, faults, told>> /\ Made' = Made
  BY DEF Deliver, Target, Made
<1>2. calls' \in [Users -> Call(told)] /\ calls[u] \in Found(told)
  <2>1. calls \in [Users -> Call(told)] /\ calls[u].at = "send"
    BY <1>1, Types DEF Typed
  <2>2. calls' = [calls EXCEPT ![u].at = "settle"]
    BY DEF Deliver
  <2>3. QED
    BY <2>1, <2>2, CallEdits
<1>3. misled' \subseteq Astray(told, Made)
  <2>1. ASSUME NEW x \in Target(r)
        PROVE  [tapped |-> calls[u].tapped, found |-> r, answered |-> x,
                left |-> calls[u].left] \in Astray(told, Made)
    BY <1>1, <1>2, Types DEF Typed, Astray, Found
  <2>2. QED
    BY <2>1, Types DEF Typed, Deliver
<1>4. CASE Target(r) = {}
  <2>1. UNCHANGED <<events, cause, unheard, open>>
    BY <1>1, <1>4 DEF Deliver
  <2>2. Typed'
    BY <1>1, <1>2, <1>3, <2>1, Types DEF Typed
  <2>3. QED
    BY <2>2, Types
<1>5. CASE Target(r) # {}
  <2>1. PICK x \in Target(r) : EmitEnding(<<Resolved(x)>>, Target(r))
    BY <1>5 DEF Deliver
  <2>2. x \in Made
    BY <1>1, Types DEF Typed
  <2>3. /\ <<Resolved(x)>> \in Seq(Event(Made)) /\ open' \subseteq open
        /\ \A i \in 1..Len(<<Resolved(x)>>) : <<Resolved(x)>>[i].request \notin open'
    BY <1>1, <2>2, Ending
  <2>4. requests' = requests
    BY <1>1
  <2>5. /\ events' \in Seq(Event(Made')) /\ Len(events') <= QueueSize
        /\ cause' \in [Serials -> Causes] /\ unheard' \subseteq Made' \ open'
    BY <2>1, <2>3, <2>4, EmitKeeps
  <2>6. Typed'
    BY <1>1, <1>2, <1>3, <2>5, Types DEF Typed
  <2>7. QED
    BY <2>6, Types
<1>6. QED
  BY <1>4, <1>5

LEMMA ListenTypes ==
    ASSUME TypeOK, EventsAreReal, Listen
    PROVE  TypeOK'
<1>1. /\ UNCHANGED <<requests, open, process, link, calls, faults, told, unheard, misled>>
      /\ events # <<>> /\ events' = Tail(events) /\ Made' = Made
  BY DEF Listen, Made
<1>2. events' \in Seq(Event(Made')) /\ Len(events') <= QueueSize
  <2>1. events \in Seq(Event(Made)) /\ Len(events) <= QueueSize
    BY Types DEF Typed
  <2>2. QED
    BY <1>1, <2>1, PendingAssumption
<1>3. cause' \in [Serials -> Causes]
  <2>1. cause \in [Serials -> Causes] /\ "none" \in Causes /\ "collided" \in Causes
    BY Types DEF Typed, Causes
  <2>2. \A rs, xs : \A c, d \in Causes :
           /\ Blame(cause, rs, c) \in [Serials -> Causes]
           /\ Blame(Blame(cause, rs, c), xs, d) \in [Serials -> Causes]
    BY <2>1, CauseTypes
  <2> DEFINE r == Head(events).request
  <2>3. \/ cause' = Blame(cause, {r}, "collided")
        \/ cause' = Blame(Blame(cause, Rivals(r), "collided"), {r}, "none")
        \/ cause' = Blame(cause, EndedBy(r) \ {r}, "collided")
    BY DEF Listen
  <2>4. PICK rs, xs : \/ cause' = Blame(cause, rs, "collided")
                      \/ cause' = Blame(Blame(cause, rs, "collided"), xs, "none")
    BY <2>3, Zenon
  <2>5. CASE cause' = Blame(cause, rs, "collided")
    BY <2>1, <2>2, <2>5, Zenon
  <2>6. CASE cause' = Blame(Blame(cause, rs, "collided"), xs, "none")
    BY <2>1, <2>2, <2>6, Zenon
  <2>7. QED
    BY <2>4, <2>5, <2>6
<1>4. shown' \subseteq told
  <2>1. Head(events) = events[1] /\ 1 \in 1..Len(events)
    BY <1>1, Types DEF Typed
  <2>2. Head(events).what = "asked" => Head(events).request \in told
    BY <2>1, EventsMade
  <2>3. QED
    BY <2>2, Types DEF Typed, Listen
<1>5. Typed'
  BY <1>1, <1>2, <1>3, <1>4, Types DEF Typed
<1>6. QED
  BY <1>5, Types

\* Entries that are taken out of the lists.
LEMMA RemovalTypes ==
    ASSUME TypeOK,
           (\E s \in Servers : Sweep(s) \/ Forget(s)) \/ \E u \in Users : Settle(u)
    PROVE  TypeOK'
<1>1. /\ UNCHANGED <<requests, open, process, events, faults, told, unheard, misled>>
      /\ shown' \subseteq shown /\ Made' = Made
  BY DEF Sweep, Forget, Settle, Made
<1>2. cause' \in [Serials -> Causes]
  <2>1. cause \in [Serials -> Causes] /\ "swept" \in Causes /\ "collided" \in Causes
        /\ "unsent" \in Causes
    BY Types DEF Typed, Causes
  <2>2. \A rs, xs : \A c, d \in Causes :
           /\ Blame(cause, rs, c) \in [Serials -> Causes]
           /\ Blame(Blame(cause, rs, c), xs, d) \in [Serials -> Causes]
    BY <2>1, CauseTypes
  <2>3. CASE \E s \in Servers : Sweep(s) \/ Forget(s)
    <3>1. PICK rs : cause' = Blame(cause, rs, "swept")
      BY <2>3, Zenon DEF Sweep, Forget
    <3>2. QED
      BY <2>1, <2>2, <3>1, Zenon
  <2>4. CASE \E u \in Users : Settle(u)
    <3>1. PICK rs, xs : cause' = Blame(Blame(cause, rs, "collided"), xs, "unsent")
      BY <2>4, Zenon DEF Settle
    <3>2. QED
      BY <2>1, <2>2, <3>1, Zenon
  <2>5. QED
    BY <2>3, <2>4
<1>3. link' \in [Servers -> {"up", "down", "gone"}] /\ calls' \in [Users -> Call(told)]
  BY CallKinds, Types DEF Typed, Sweep, Forget, Settle
<1>4. Typed'
  BY <1>1, <1>2, <1>3, Types DEF Typed
<1>5. QED
  BY <1>4, Types

\* Links that change, and calls.
LEMMA LinkTypes ==
    ASSUME TypeOK, NEW s \in Servers, Drop(s) \/ GiveUp(s)
    PROVE  TypeOK'
<1>1. link' \in [Servers -> {"up", "down", "gone"}]
  BY Types DEF Typed, Drop, GiveUp
<1>2. faults' \in 0..MaxFaults
  <2>1. faults' = faults \/ (faults' = faults + 1 /\ faults < MaxFaults)
    BY DEF Drop, GiveUp
  <2>2. QED
    BY <2>1, PendingAssumption, Types DEF Typed
<1>3. Typed'
  BY <1>1, <1>2, Types DEF Typed, Drop, GiveUp, Made
<1>4. QED
  BY <1>3, Types

LEMMA TapTypes ==
    ASSUME TypeOK, NEW u \in Users, NEW r \in Serials, Tap(u, r)
    PROVE  TypeOK'
<1>1. calls' = [calls EXCEPT ![u] = [NoCall EXCEPT !.at = "look", !.tapped = r]]
  BY DEF Tap
<1>2. r \in told
  BY Types DEF Typed, Tap
<1>3. [NoCall EXCEPT !.at = "look", !.tapped = r] \in Look(told)
  BY <1>2 DEF Look, NoCall
<1>4. calls' \in [Users -> Call(told)]
  BY <1>1, <1>3, CallKinds, Types DEF Typed
<1>5. Typed'
  BY <1>4, Types DEF Typed, Tap, Made
<1>6. QED
  BY <1>5, Types

\* What a call finds.
LEMMA Lookups ==
    ASSUME TypeOK, NEW u \in Users, LookUp(u)
    PROVE  \/ calls' = [calls EXCEPT ![u] = NoCall]
           \/ \E x \in AlikeOfKind(calls[u].tapped, shown) :
                /\ calls'[u] = [at |-> "send", tapped |-> calls[u].tapped, request |-> x,
                                left |-> calls[u].tapped \notin shown]
                /\ calls' = [calls EXCEPT ![u] = calls'[u]] /\ calls'[u] \in Found(told)
<1>1. calls \in [Users -> Call(told)] /\ calls[u].at = "look"
  BY Types DEF Typed, LookUp
<1>2. calls[u] \in Look(told)
  BY <1>1, CallKinds
<1>3. ASSUME NEW x \in AlikeOfKind(calls[u].tapped, shown),
             calls' = [calls EXCEPT ![u] =
                 [at |-> "send", tapped |-> calls[u].tapped, request |-> x,
                  left |-> calls[u].tapped \notin shown]]
      PROVE  /\ calls'[u] = [at |-> "send", tapped |-> calls[u].tapped, request |-> x,
                             left |-> calls[u].tapped \notin shown]
             /\ calls' = [calls EXCEPT ![u] = calls'[u]] /\ calls'[u] \in Found(told)
  <2>1. calls'[u] = [at |-> "send", tapped |-> calls[u].tapped, request |-> x,
                     left |-> calls[u].tapped \notin shown]
    BY <1>1, <1>3
  <2>2. x \in told /\ calls[u].tapped \in told
    BY <1>2, <1>3, Types DEF Typed, Look, AlikeOfKind, Alike
  <2>3. calls'[u] \in Found(told)
    BY <2>1, <2>2 DEF Found
  <2>4. QED
    BY <1>3, <2>1, <2>3
<1>4. QED
  BY <1>3, Zenon DEF LookUp

LEMMA LookUpTypes ==
    ASSUME TypeOK, NEW u \in Users, LookUp(u)
    PROVE  TypeOK'
<1>1. calls' \in [Users -> Call(told)]
  <2>1. calls \in [Users -> Call(told)] /\ NoCall \in Call(told) /\ Found(told) \subseteq Call(told)
    BY CallKinds, Types DEF Typed
  <2>2. QED
    BY <2>1, Lookups
<1>2. Typed'
  BY <1>1, Types DEF Typed, LookUp, Made
<1>3. QED
  BY <1>2, Types

LEMMA AnswerTypes ==
    ASSUME TypeOK, NEW u \in Users, Vanish(u) \/ SendFails(u)
    PROVE  TypeOK'
<1>1. UNCHANGED <<requests, open, process, events, shown, told, cause, unheard, misled>>
  BY DEF Vanish, SendFails
<1>2. calls' \in [Users -> Call(told)]
  <2>1. calls \in [Users -> Call(told)] /\ calls[u].at = "send"
    BY Types DEF Typed, Vanish, SendFails
  <2>2. CASE calls' = [calls EXCEPT ![u] = NoCall]
    BY <2>1, <2>2, CallKinds
  <2>3. CASE calls' = [calls EXCEPT ![u].at = "settle"]
    BY <2>1, <2>3, CallEdits
  <2>4. QED
    BY <2>2, <2>3 DEF Vanish, SendFails
<1>3. link' \in [Servers -> {"up", "down", "gone"}]
  BY Types DEF Typed, Vanish, SendFails
<1>4. faults' \in 0..MaxFaults
  <2>1. faults' = faults \/ (faults' = faults + 1 /\ faults < MaxFaults)
    BY DEF Vanish, SendFails
  <2>2. QED
    BY <2>1, PendingAssumption, Types DEF Typed
<1>5. Typed'
  BY <1>1, <1>2, <1>3, <1>4, Types DEF Typed, Made
<1>6. QED
  BY <1>5, Types

LEMMA TypesStep ==
    ASSUME TypeOK, EventsAreReal, Processes, [Next]_vars
    PROVE  TypeOK'
<1>1. CASE UNCHANGED vars
  <2>1. Typed'
    BY <1>1, Types DEF Typed, vars, Made
  <2>2. QED
    BY <2>1, Types
<1>2. QED
  BY <1>1, AskTypes, WithdrawTypes, RestartTypes, ReconnectTypes, DeliverTypes, ListenTypes,
     RemovalTypes, LinkTypes, TapTypes, LookUpTypes, AnswerTypes DEF Next

-----------------------------------------------------------------------------
(* Ids.                                                                     *)

LEMMA RequestTypes ==
    ASSUME TypeOK, NEW x \in Made
    PROVE  Server(x) \in Servers /\ Id(x) \in Nat /\ requests[x].process \in 0..MaxFaults
<1>1. requests \in Seq(Request) /\ x \in 1..Len(requests)
  BY Types DEF Typed, Made
<1>2. requests[x] \in Request
  BY <1>1
<1>3. QED
  BY <1>2 DEF Request, Server, Id

LEMMA CountedStep ==
    ASSUME TypeOK, Counted, Distinct, Past, [Next]_vars
    PROVE  Counted' /\ Distinct'
<1>1. CASE \E s \in Servers, k \in Kinds : Ask(s, k)
  <2>1. PICK s \in Servers, k \in Kinds : Ask(s, k)
    BY <1>1
  <2> PICK r, p : r = Len(requests) + 1 /\ p = process[s]
    OBVIOUS
  <2>2. /\ r \notin Made /\ Made' = Made \cup {r}
        /\ \A x \in Made : requests'[x] = requests[x]
        /\ requests'[r] = [server |-> s, process |-> p, id |-> NextId(s), kind |-> k]
    BY <2>1, Asking
  <2>3. /\ \A x \in Made : Server(x)' = Server(x) /\ Id(x)' = Id(x)
        /\ Server(r)' = s /\ requests'[r].process = p /\ Id(r)' = Cardinality(Batch(s, p))
    BY <2>2, NextIdCounts DEF Server, Id
  <2>4. Batch(s, p)' = Batch(s, p) \cup {r} /\ r \notin Batch(s, p)
    BY <2>2, <2>3 DEF Batch
  <2>5. \A t, q : t # s \/ q # p => Batch(t, q)' = Batch(t, q)
    BY <2>2, <2>3 DEF Batch
  <2>6. \A t, q : IsFiniteSet(Batch(t, q)) /\ Cardinality(Batch(t, q)) \in Nat
    BY BatchFinite, Types DEF Typed
  <2>7. Cardinality(Batch(s, p)') = Cardinality(Batch(s, p)) + 1
    BY <2>4, <2>6, FS_AddElement, ZenonT(30)
  <2>8. \A x \in Made : Id(x) \in Nat
    BY RequestTypes
  <2>9. Counted'
    <3>1. SUFFICES ASSUME NEW x \in Made'
                   PROVE  (Id(x) < Cardinality(Batch(Server(x), requests[x].process)))'
      BY DEF Counted
    <3>2. CASE x = r
      <4>1. Batch(Server(x), requests[x].process)' = Batch(s, p)'
        BY <2>3, <3>2 DEF Batch
      <4>2. QED
        BY <2>3, <2>6, <2>7, <3>2, <4>1
    <3>3. CASE x \in Made
      <4>1. Id(x) < Cardinality(Batch(Server(x), requests[x].process))
        BY <3>3 DEF Counted
      <4>2. CASE Server(x) = s /\ requests[x].process = p
        <5>1. Batch(Server(x), requests[x].process)' = Batch(s, p)'
          BY <2>2, <2>3, <3>3, <4>2 DEF Batch
        <5>2. QED
          BY <2>2, <2>3, <2>6, <2>7, <2>8, <3>3, <4>1, <4>2, <5>1
      <4>3. CASE Server(x) # s \/ requests[x].process # p
        <5>1. PICK t, q : t = Server(x) /\ q = requests[x].process
          OBVIOUS
        <5>2. Batch(Server(x), requests[x].process)' = Batch(t, q)'
          BY <2>2, <2>3, <3>3, <5>1 DEF Batch
        <5>3. Batch(t, q)' = Batch(t, q)
          BY <2>5, <4>3, <5>1
        <5>4. QED
          BY <2>3, <3>3, <4>1, <5>1, <5>2, <5>3
      <4>4. QED
        BY <4>2, <4>3
    <3>4. QED
      BY <2>2, <3>2, <3>3
  <2>10. Distinct'
    <3>1. \A x \in Made : Server(x) = s /\ requests[x].process = p => Id(x) # Cardinality(Batch(s, p))
      <4>1. \A x \in Made : Server(x) = s /\ requests[x].process = p => Id(x) < Cardinality(Batch(s, p))
        BY DEF Counted
      <4>2. QED
        BY <2>6, <2>8, <4>1
    <3>2. QED
      BY <2>2, <2>3, <3>1 DEF Distinct
  <2>11. QED
    BY <2>9, <2>10
<1>2. CASE requests' = requests
  BY <1>2 DEF Counted, Distinct, Batch, Made, Server, Id
<1>3. QED
  BY <1>1, <1>2 DEF Next, Withdraw, Restart, Drop, GiveUp, Reconnect, Sweep, Forget, Listen,
     Tap, LookUp, Deliver, Vanish, SendFails, Settle, vars

LEMMA PastStep ==
    ASSUME TypeOK, Past, Processes, [Next]_vars
    PROVE  Past' /\ Processes'
<1>1. CASE \E s \in Servers, k \in Kinds : Ask(s, k)
  <2>1. PICK s \in Servers, k \in Kinds : Ask(s, k)
    BY <1>1
  <2> PICK r : r = Len(requests) + 1
    OBVIOUS
  <2>2. /\ Made' = Made \cup {r} /\ \A x \in Made : requests'[x] = requests[x]
        /\ requests'[r] = [server |-> s, process |-> process[s], id |-> NextId(s), kind |-> k]
    BY <2>1, Asking
  <2>3. UNCHANGED <<process, faults>> /\ process[s] \in Nat
    BY <2>1, Types DEF Ask, Typed
  <2>4. requests'[r].server = s /\ requests'[r].process = process[s]
    BY <2>2
  <2>5. QED
    BY <2>2, <2>3, <2>4 DEF Past, Processes, Server
<1>2. CASE \E s \in Servers : Restart(s)
  <2>1. PICK s \in Servers : Restart(s)
    BY <1>2
  <2>2. requests' = requests /\ Made' = Made /\ faults' = faults + 1
        /\ process' = [process EXCEPT ![s] = @ + 1]
    BY <2>1 DEF Restart, Made
  <2>3. /\ process \in [Servers -> 0..MaxFaults] /\ faults \in Nat
        /\ \A x \in Made : Server(x) \in Servers /\ requests[x].process \in Nat
    BY RequestTypes, Types, PendingAssumption DEF Typed
  <2>4. \A t \in Servers : process[t] \in Nat /\ process[t] <= process'[t]
                           /\ process'[t] \in Nat /\ process'[t] <= process[t] + 1
    BY <2>2, <2>3
  <2>5. \A x \in Made : Server(x)' = Server(x)
    BY <2>2 DEF Server
  <2>6. QED
    BY <2>2, <2>3, <2>4, <2>5 DEF Past, Processes
<1>3. CASE UNCHANGED <<requests, process>> /\ faults' \in {faults, faults + 1}
  <2>1. faults \in Nat /\ \A t \in Servers : process[t] \in Nat
    BY Types DEF Typed
  <2>2. Processes'
    BY <1>3, <2>1 DEF Processes
  <2>3. QED
    BY <1>3, <2>2 DEF Past, Made, Server
<1>4. QED
  BY <1>1, <1>2, <1>3 DEF Next, Withdraw, Drop, GiveUp, Reconnect, Sweep, Forget, Listen,
     Tap, LookUp, Deliver, Vanish, SendFails, Settle, vars

LEMMA OneEachStep ==
    ASSUME TypeOK, EventsAreReal, OneEach, [Next]_vars
    PROVE  OneEach'
<1>1. \A x \in Made : (Id(x)' = Id(x)) /\ (Kind(x)' = Kind(x))
  <2>1. \A x \in Made : requests'[x] = requests[x]
    BY Asking DEF Next, Withdraw, Restart, Drop, GiveUp, Reconnect, Sweep, Forget, Listen,
       Tap, LookUp, Deliver, Vanish, SendFails, Settle, vars
  <2>2. QED
    BY <2>1 DEF Id, Kind
<1>2. shown \subseteq Made
  BY Types DEF Typed
<1>3. CASE shown' \subseteq shown
  BY <1>1, <1>2, <1>3 DEF OneEach
<1>4. CASE Listen
  <2>1. PICK r : r = Head(events).request
    OBVIOUS
  <2>2. \/ shown' \subseteq shown
        \/ shown' = (shown \ Rivals(r)) \cup {r} /\ Head(events).what = "asked"
    BY <1>4, <2>1 DEF Listen
  <2>3. CASE shown' = (shown \ Rivals(r)) \cup {r} /\ Head(events).what = "asked"
    <3>1. r \in Made
      <4>1. Head(events) = events[1] /\ 1 \in 1..Len(events)
        BY <1>4, Types DEF Listen, Typed
      <4>2. QED
        BY <2>1, <4>1, EventsMade
    <3>2. \A x \in shown \ Rivals(r) : x = r \/ ~(Id(x) = Id(r) /\ Kind(x) = Kind(r))
      BY DEF Rivals, AlikeOfKind, Alike
    <3>3. QED
      BY <1>1, <1>2, <2>3, <3>1, <3>2 DEF OneEach
  <2>4. QED
    BY <1>3, <2>2, <2>3
<1>5. QED
  BY <1>3, <1>4 DEF Next, Ask, Withdraw, Restart, Drop, GiveUp, Reconnect, Sweep, Forget,
     Tap, LookUp, Deliver, Vanish, SendFails, Settle, vars

LEMMA ExactStep ==
    ASSUME TypeOK, OneEach, Exact, [Next]_vars
    PROVE  Exact'
<1>1. calls \in [Users -> Call(told)]
  BY Types DEF Typed
<1>2. CASE \E u \in Users, r \in Serials : Tap(u, r)
  <2>1. PICK u \in Users, r \in Serials : calls' = [calls EXCEPT ![u] = [NoCall EXCEPT !.at = "look", !.tapped = r]]
    BY <1>2 DEF Tap
  <2>2. calls'[u].at = "look" /\ \A v \in Users : v # u => calls'[v] = calls[v]
    BY <1>1, <2>1 DEF NoCall
  <2>3. QED
    BY <2>2 DEF Exact
<1>3. CASE \E u \in Users : LookUp(u)
  <2>1. PICK u \in Users : LookUp(u)
    BY <1>3
  <2>2. CASE calls' = [calls EXCEPT ![u] = NoCall]
    BY <1>1, <2>2 DEF Exact, NoCall
  <2>3. ASSUME NEW x \in AlikeOfKind(calls[u].tapped, shown),
               calls'[u] = [at |-> "send", tapped |-> calls[u].tapped, request |-> x,
                            left |-> calls[u].tapped \notin shown],
               calls' = [calls EXCEPT ![u] = calls'[u]]
        PROVE  Exact'
    <3>1. x = calls[u].tapped \/ calls[u].tapped \notin shown
      <4>1. x \in shown /\ Id(x) = Id(calls[u].tapped) /\ Kind(x) = Kind(calls[u].tapped)
        BY <2>3 DEF AlikeOfKind, Alike
      <4>2. QED
        BY <4>1 DEF OneEach
    <3>2. calls'[u].tapped = calls'[u].request \/ calls'[u].left
      <4>1. CASE x = calls[u].tapped
        BY <2>3, <4>1
      <4>2. CASE calls[u].tapped \notin shown
        <5>1. calls'[u] = [at |-> "send", tapped |-> calls[u].tapped, request |-> x,
                           left |-> TRUE]
          BY <2>3, <4>2
        <5>2. QED
          BY <5>1
      <4>3. QED
        BY <3>1, <4>1, <4>2
    <3>3. \A v \in Users : v # u => calls'[v] = calls[v]
      BY <1>1, <2>3
    <3>4. QED
      BY <3>2, <3>3 DEF Exact
  <2>4. QED
    BY <2>1, <2>2, <2>3, Lookups
<1>4. CASE \E u \in Users : Deliver(u) \/ Vanish(u)
  <2>1. PICK u \in Users : calls[u].at = "send" /\ calls' = [calls EXCEPT ![u].at = "settle"]
    BY <1>4 DEF Deliver, Vanish
  <2>2. calls[u] \in Found(told)
    BY <1>1, <2>1, CallEdits
  <2>3. /\ calls'[u].tapped = calls[u].tapped /\ calls'[u].request = calls[u].request
        /\ calls'[u].left = calls[u].left
        /\ \A v \in Users : v # u => calls'[v] = calls[v]
    BY <1>1, <2>1, <2>2 DEF Found
  <2>4. calls[u].tapped = calls[u].request \/ calls[u].left
    BY <2>1 DEF Exact
  <2>5. QED
    BY <2>3, <2>4 DEF Exact
<1>5. CASE \E u \in Users : SendFails(u) \/ Settle(u)
  <2>1. PICK u \in Users : calls' = [calls EXCEPT ![u] = NoCall]
    BY <1>5 DEF SendFails, Settle
  <2>2. QED
    BY <1>1, <2>1 DEF Exact, NoCall
<1>6. CASE calls' = calls
  BY <1>6 DEF Exact
<1>7. QED
  BY <1>2, <1>4, <1>5, <1>6, <1>3 DEF Next, Ask, Withdraw, Restart, Drop, GiveUp, Reconnect,
     Sweep, Forget, Listen, vars

\* The request an answer ends is the one that was found, unless it is one of a
\* later process; and the one found is the one tapped, unless that had left the list.
LEMMA AnswerStep ==
    ASSUME TypeOK, Ids, AnswerReachesAsker, [Next]_vars
    PROVE  AnswerReachesAsker'
<1> DEFINE Right(m) ==
        /\ m.found = m.tapped \/ m.left
        /\ m.answered = m.found
             \/ /\ Server(m.answered) = Server(m.found)
                /\ requests[m.found].process < requests[m.answered].process
<1>1. misled \subseteq Astray(told, Made) /\ told \subseteq Made
  BY Types DEF Typed
<1>2. \A x \in Made : requests'[x] = requests[x]
  BY Asking DEF Next, Withdraw, Restart, Drop, GiveUp, Reconnect, Sweep, Forget, Listen,
     Tap, LookUp, Deliver, Vanish, SendFails, Settle, vars
<1>3. ASSUME NEW m \in misled
      PROVE  /\ Server(m.answered)' = Server(m.answered) /\ Server(m.found)' = Server(m.found)
             /\ requests'[m.answered] = requests[m.answered]
             /\ requests'[m.found] = requests[m.found]
  <2>1. m.answered \in Made /\ m.found \in Made
    BY <1>1 DEF Astray
  <2>2. QED
    BY <1>2, <2>1 DEF Server
<1>4. CASE misled' = misled
  BY <1>3, <1>4 DEF AnswerReachesAsker
<1>5. CASE \E u \in Users : Deliver(u)
  <2>1. PICK u \in Users : Deliver(u)
    BY <1>5
  <2>2. PICK r, t, b : r = calls[u].request /\ t = calls[u].tapped /\ b = calls[u].left
    OBVIOUS
  <2>3. (r = t \/ b) /\ r \in Made
    <3>1. calls[u].at = "send" /\ calls \in [Users -> Call(told)]
      BY <2>1, Types DEF Deliver, Typed
    <3>2. r \in told
      BY <2>2, <3>1, CallEdits DEF Found
    <3>3. QED
      BY <1>1, <2>2, <3>1, <3>2 DEF Ids, Exact
  <2>4. /\ misled' = misled \cup {[tapped |-> t, found |-> r, answered |-> x, left |-> b] :
                                   x \in Target(r) \ {t}}
        /\ requests' = requests
    BY <2>1, <2>2 DEF Deliver
  <2>5. ASSUME NEW x \in Target(r), x # r
        PROVE  Server(x) = Server(r) /\ requests[r].process < requests[x].process
    <3>1. /\ x \in Made /\ Server(x) = Server(r) /\ Id(x) = Id(r)
          /\ requests[x].process = process[Server(x)]
      BY Types DEF Typed, Target
    <3>2. requests[r].process <= process[Server(r)]
      BY <2>3 DEF Ids, Past
    <3>3. requests[r].process # requests[x].process
      BY <2>3, <2>5, <3>1 DEF Ids, Distinct
    <3>4. requests[r].process \in Nat /\ requests[x].process \in Nat
      BY <2>3, <3>1, RequestTypes
    <3>5. QED
      BY <3>1, <3>2, <3>3, <3>4
  <2>6. ASSUME NEW m \in misled' PROVE Right(m)
    <3>1. CASE m \in misled
      BY <3>1 DEF AnswerReachesAsker
    <3>2. CASE \E x \in Target(r) \ {t} :
                 m = [tapped |-> t, found |-> r, answered |-> x, left |-> b]
      <4>1. PICK x \in Target(r) : m = [tapped |-> t, found |-> r, answered |-> x, left |-> b]
        BY <3>2
      <4>2. m.tapped = t /\ m.found = r /\ m.answered = x /\ m.left = b
        BY <4>1
      <4>3. QED
        BY <2>3, <2>5, <4>2
    <3>3. QED
      BY <2>4, <2>6, <3>1, <3>2
  <2>7. QED
    BY <2>4, <2>6 DEF AnswerReachesAsker, Server
<1>6. QED
  BY <1>4, <1>5 DEF Next, Ask, Withdraw, Restart, Drop, GiveUp, Reconnect, Sweep, Forget,
     Listen, Tap, LookUp, Vanish, SendFails, Settle, vars

-----------------------------------------------------------------------------
(* Lists.                                                                   *)

\* What an emission asks is open, and was told; what it resolves has ended; what
\* ends by it is resolved, and what is told by it is asked.
Truthful(es) ==
    /\ shown' = shown /\ told \subseteq told'
    /\ \A x \in open' : x \in open \/ x \notin Made
    /\ \A i \in 1..Len(es) :
          /\ es[i].what = "asked" => es[i].request \in open' \cap told'
          /\ es[i].what = "resolved" => es[i].request \notin open'
    /\ \A x \in open \ open' :
          \E i \in 1..Len(es) : es[i].what = "resolved" /\ es[i].request = x
    /\ \A x \in open' \cap told' :
          \/ x \in open \cap told
          \/ \E i \in 1..Len(es) : /\ es[i].what = "asked" /\ es[i].request = x
                                   /\ x \in open \/ i = Len(es)

\* Such an emission keeps the lists accounted for.
LEMMA EmitLists ==
    ASSUME TypeOK, Lists, NEW S, Made \subseteq S, Made \subseteq Serials,
           NEW es \in Seq(Event(S)), NEW rs, EmitEnding(es, rs), rs \cap open' = {},
           Truthful(es)
    PROVE  Lists'
<1> DEFINE q == events \o es
           n == Len(events)
<1>1. events \in Seq(Event(S)) /\ n <= QueueSize
  BY EventGrows, Types DEF Typed
<1>2. /\ Len(q) = n + Len(es) /\ n \in Nat /\ Len(es) \in Nat
      /\ \A i \in 1..n : q[i] = events[i]
      /\ \A i \in 1..Len(es) : q[i + n] = es[i]
  BY <1>1
<1> PICK d \in 0..Len(q) : LetsGo(q, d)
  BY <1>1, EmitShape
<1>3. /\ d = 0 \/ d < Len(q)
      /\ Len(events') = Len(q) - d
      /\ \A i \in 1..Len(events') : events'[i] = q[i + d] /\ i + d \in 1..Len(q)
      /\ \A w : Overwritten(q, w) = {q[i].request : i \in {j \in 1..d : q[j].what = w}}
  BY DEF LetsGo
<1>4. /\ unheard' = unheard \cup Overwritten(q, "resolved")
      /\ cause' = Ended(Blame(cause, Overwritten(q, "asked"), "missed"), rs)
  BY DEF EmitEnding
<1> HIDE DEF q, n
\* Where the new events come from, and where the old ones go.
<1>5. ASSUME NEW i \in 1..Len(q)
      PROVE  \/ i \in 1..n /\ q[i] = events[i]
             \/ i - n \in 1..Len(es) /\ q[i] = es[i - n] /\ (i - n) + n = i
  <2>1. i <= n \/ (i - n \in 1..Len(es) /\ (i - n) + n = i)
    BY <1>2
  <2>2. CASE i <= n
    BY <1>2, <2>2
  <2>3. CASE i - n \in 1..Len(es) /\ (i - n) + n = i
    <3>1. q[(i - n) + n] = es[i - n]
      BY <1>2, <2>3
    <3>2. QED
      BY <2>3, <3>1
  <2>4. QED
    BY <2>1, <2>2, <2>3
<1>6. ASSUME NEW j \in 1..Len(q), j > d
      PROVE  j - d \in 1..Len(events') /\ events'[j - d] = q[j]
  <2>1. j - d \in 1..Len(events') /\ (j - d) + d = j
    BY <1>2, <1>3, <1>6
  <2>2. QED
    BY <1>3, <2>1
<1>7. ASSUME NEW j \in 1..Len(q), NEW w, NEW x, q[j].what = w, q[j].request = x
      PROVE  Coming(w, x)' \/ x \in Overwritten(q, w)
  <2>1. CASE j > d
    BY <1>6, <1>7, <2>1 DEF Coming
  <2>2. CASE ~(j > d)
    <3>1. j \in 1..d
      BY <1>2, <1>3, <2>2
    <3>2. QED
      BY <1>3, <1>7, <3>1
  <2>3. QED
    BY <2>1, <2>2
<1>8. ASSUME NEW w, NEW x, Coming(w, x)
      PROVE  Coming(w, x)' \/ x \in Overwritten(q, w)
  <2>1. PICK i \in 1..n : events[i].what = w /\ events[i].request = x
    BY <1>8 DEF Coming, n
  <2>2. i \in 1..Len(q) /\ q[i] = events[i]
    BY <1>2
  <2>3. QED
    BY <1>7, <2>1, <2>2
<1>9. ASSUME NEW w, NEW x, NEW m \in 1..Len(es), es[m].what = w, es[m].request = x
      PROVE  Coming(w, x)' \/ x \in Overwritten(q, w)
  <2>1. m + n \in 1..Len(q) /\ q[m + n] = es[m]
    BY <1>2
  <2>2. QED
    BY <1>7, <1>9, <2>1
<1>10. ASSUME NEW x \in Serials, x \notin rs
       PROVE  cause'[x] = IF x \in Overwritten(q, "asked") \cap open THEN "missed" ELSE cause[x]
  BY <1>4, <1>10 DEF Ended, Blame
<1>11. open \subseteq Made /\ shown \subseteq Made /\ n = Len(events)
  BY Types DEF Typed, n
<1>12. Awaited'
  <2>1. SUFFICES ASSUME NEW x \in open' \cap told'
                 PROVE  x \in shown \/ cause'[x] # "none" \/ Coming("asked", x)'
    BY DEF Awaited, Truthful
  <2>2. CASE x \in open \cap told
    <3>1. x \in shown \/ cause[x] # "none" \/ Coming("asked", x)
      BY <2>2 DEF Lists, Awaited
    <3>2. cause'[x] = IF x \in Overwritten(q, "asked") \cap open THEN "missed" ELSE cause[x]
      BY <1>10, <1>11, <2>1, <2>2
    <3>3. QED
      BY <1>8, <2>2, <3>1, <3>2
  <2>3. CASE \E i \in 1..Len(es) : /\ es[i].what = "asked" /\ es[i].request = x
                                   /\ x \in open \/ i = Len(es)
    <3>1. PICK i \in 1..Len(es) : /\ es[i].what = "asked" /\ es[i].request = x
                                  /\ x \in open \/ i = Len(es)
      BY <2>3
    <3>2. CASE x \in open
      <4>1. cause'[x] = IF x \in Overwritten(q, "asked") \cap open THEN "missed" ELSE cause[x]
        BY <1>10, <1>11, <2>1, <3>2
      <4>2. QED
        BY <1>9, <3>1, <3>2, <4>1
    <3>3. CASE i = Len(es)
      <4>1. i + n \in 1..Len(q) /\ q[i + n] = es[i] /\ i + n > d
        BY <1>2, <1>3, <3>3
      <4>2. QED
        BY <1>6, <3>1, <4>1 DEF Coming
    <3>4. QED
      BY <3>1, <3>2, <3>3
  <2>4. QED
    BY <2>1, <2>2, <2>3 DEF Truthful
<1>13. Outlived'
  <2>1. SUFFICES ASSUME NEW x \in shown \ open' PROVE x \in unheard' \/ Coming("resolved", x)'
    BY DEF Outlived, Truthful
  <2>2. CASE x \in open
    BY <1>4, <1>9, <2>1, <2>2 DEF Truthful
  <2>3. CASE x \notin open
    <3>1. x \in unheard \/ Coming("resolved", x)
      BY <2>1, <2>3 DEF Lists, Outlived
    <3>2. QED
      BY <1>4, <1>8, <3>1
  <2>4. QED
    BY <2>2, <2>3
<1>14. EventsAreReal'
  <2>1. SUFFICES ASSUME NEW i \in 1..Len(events')
                 PROVE  /\ events'[i].what = "asked" => events'[i].request \in told'
                        /\ events'[i].what = "resolved" => events'[i].request \notin open'
    BY DEF EventsAreReal
  <2>2. i + d \in 1..Len(q) /\ events'[i] = q[i + d]
    BY <1>3
  <2>3. CASE i + d \in 1..n /\ q[i + d] = events[i + d]
    <3>1. i + d \in 1..Len(events) /\ events'[i] = events[i + d]
      BY <1>11, <2>2, <2>3
    <3>2. /\ events[i + d].request \in Made
          /\ events[i + d].what = "asked" => events[i + d].request \in told
          /\ events[i + d].what = "resolved" => events[i + d].request \notin open
      BY <3>1, EventsMade DEF Lists
    <3>3. QED
      BY <3>1, <3>2 DEF Truthful
  <2>4. CASE \E m \in 1..Len(es) : q[i + d] = es[m]
    BY <2>2, <2>4 DEF Truthful
  <2>5. QED
    BY <1>5, <2>2, <2>3, <2>4
<1>15. BeginsBeforeEnds'
  <2>1. SUFFICES ASSUME NEW i \in 1..Len(events'), events'[i].what = "asked",
                        events'[i].request \notin open', events'[i].request \notin unheard'
                 PROVE  \E j \in (i+1)..Len(events') :
                           /\ events'[j].what = "resolved"
                           /\ events'[j].request = events'[i].request
    BY DEF BeginsBeforeEnds
  <2>2. i + d \in 1..Len(q) /\ events'[i] = q[i + d]
    BY <1>3
  <2>3. i + d \in 1..n /\ q[i + d] = events[i + d]
    BY <1>5, <2>1, <2>2 DEF Truthful
  <2> PICK x : x = events'[i].request
    OBVIOUS
  <2>4. ASSUME NEW j \in (i+d+1)..Len(q), q[j].what = "resolved", q[j].request = x
        PROVE  \E k \in (i+1)..Len(events') :
                  events'[k].what = "resolved" /\ events'[k].request = x
    <3>1. j \in 1..Len(q) /\ j > d /\ j - d \in (i+1)..Len(events')
      BY <1>2, <1>3
    <3>2. events'[j - d] = q[j]
      BY <1>6, <3>1
    <3>3. QED
      BY <2>4, <3>1, <3>2
  <2>5. CASE x \in open
    <3>1. PICK m \in 1..Len(es) : es[m].what = "resolved" /\ es[m].request = x
      BY <2>1, <2>5 DEF Truthful
    <3>2. m + n \in (i+d+1)..Len(q) /\ q[m + n] = es[m]
      BY <1>2, <1>3, <2>3
    <3>3. QED
      BY <2>4, <3>1, <3>2
  <2>6. CASE x \notin open
    <3>1. PICK j \in (i+d+1)..n : events[j].what = "resolved" /\ events[j].request = x
      BY <1>4, <1>11, <2>1, <2>2, <2>3, <2>6 DEF Lists, BeginsBeforeEnds
    <3>2. j \in (i+d+1)..Len(q) /\ q[j] = events[j]
      BY <1>2, <1>3
    <3>3. QED
      BY <2>4, <3>1, <3>2
  <2>7. QED
    BY <2>5, <2>6
<1>16. QED
  BY <1>12, <1>13, <1>14, <1>15 DEF Lists

\* Requests that end without a word to the client.
LEMMA SilentEnds ==
    ASSUME TypeOK, Lists, NEW ended \in SUBSET open, open' = open \ ended,
           unheard' = unheard \cup ended, cause' = Ended(cause, ended),
           UNCHANGED <<events, shown, told>>
    PROVE  Lists'
<1>1. open \subseteq Serials
  BY Types, PendingAssumption DEF Typed, Made, Serials
<1>2. \A x \in open' : cause'[x] = cause[x]
  BY <1>1 DEF Ended
<1>3. Awaited' /\ Outlived'
  BY <1>2 DEF Lists, Awaited, Outlived, Coming
<1>4. EventsAreReal' /\ BeginsBeforeEnds'
  BY DEF Lists, EventsAreReal, BeginsBeforeEnds
<1>5. QED
  BY <1>3, <1>4 DEF Lists

\* What leaves the lists, if it still waits, leaves them for a cause.
LEMMA Removal ==
    ASSUME Lists, shown' \subseteq shown, UNCHANGED <<open, told, events, unheard>>,
           \A x \in open : cause'[x] = "none" => cause[x] = "none" /\ (x \in shown => x \in shown')
    PROVE  Lists'
BY DEF Lists, Awaited, Outlived, EventsAreReal, BeginsBeforeEnds, Coming

LEMMA AskLists ==
    ASSUME TypeOK, Lists, NEW s \in Servers, NEW k \in Kinds, Ask(s, k)
    PROVE  Lists'
<1> PICK r : r = Len(requests) + 1
  OBVIOUS
<1>1. /\ r \notin Made /\ Made' = Made \cup {r} /\ Made \subseteq Serials
      /\ open' = open \cup {r} /\ shown' = shown
  BY Asking DEF Ask
<1>2. open \subseteq Made /\ told \subseteq Made /\ shown \subseteq Made
  BY Types DEF Typed
<1>3. CASE link[s] = "up"
  <2>1. EmitEnding(<<Asked(r)>>, {}) /\ told' = told \cup {r}
    BY <1>3 DEF Ask, Emit
  <2>2. /\ <<Asked(r)>> \in Seq(Event(Made')) /\ Len(<<Asked(r)>>) = 1
        /\ <<Asked(r)>>[1].what = "asked" /\ <<Asked(r)>>[1].request = r
    BY <1>1 DEF Asked, Event
  <2>3. Truthful(<<Asked(r)>>)
    BY <1>1, <1>2, <2>1, <2>2 DEF Truthful
  <2>4. Made \subseteq Made' /\ {} \cap open' = {}
    BY <1>1
  <2>5. QED
    BY <1>1, <2>1, <2>2, <2>3, <2>4, EmitLists
<1>4. CASE link[s] # "up"
  <2>1. UNCHANGED <<events, cause, unheard, told>>
    BY <1>4 DEF Ask
  <2>2. \A i \in 1..Len(events) : events[i].request # r
    BY <1>1, EventsMade DEF Lists
  <2>3. Awaited' /\ Outlived'
    BY <1>1, <1>2, <2>1 DEF Lists, Awaited, Outlived, Coming
  <2>4. EventsAreReal' /\ BeginsBeforeEnds'
    BY <1>1, <2>1, <2>2 DEF Lists, EventsAreReal, BeginsBeforeEnds
  <2>5. QED
    BY <2>3, <2>4 DEF Lists
<1>5. QED
  BY <1>3, <1>4

\* One request ends, and the client hears of it.
LEMMA EndLists ==
    ASSUME TypeOK, Lists, NEW x \in open, EmitEnding(<<Resolved(x)>>, {x}), open' = open \ {x},
           UNCHANGED <<shown, told>>
    PROVE  Lists'
<1>1. x \in Made /\ Made \subseteq Serials
  BY Types, PendingAssumption DEF Typed, Made, Serials
<1>2. /\ <<Resolved(x)>> \in Seq(Event(Made)) /\ Len(<<Resolved(x)>>) = 1
      /\ <<Resolved(x)>>[1].what = "resolved" /\ <<Resolved(x)>>[1].request = x
  BY <1>1, Ending
<1>3. Truthful(<<Resolved(x)>>)
  BY <1>2 DEF Truthful
<1>4. {x} \cap open' = {} /\ Made \subseteq Made
  OBVIOUS
<1>5. QED
  BY <1>1, <1>2, <1>3, <1>4, EmitLists

LEMMA ReconnectLists ==
    ASSUME TypeOK, Lists, NEW s \in Servers, Reconnect(s)
    PROVE  Lists'
<1>1. UNCHANGED <<open, shown>>
  BY DEF Reconnect
<1>2. CASE UNCHANGED <<events, cause, unheard, told>>
  BY <1>1, <1>2, Removal
<1>3. CASE \E waiting \in SUBSET open : \E order \in InOrder(waiting) :
              /\ Emit([i \in DOMAIN order |-> Asked(order[i])])
              /\ told' = told \cup waiting
  <2> PICK waiting \in SUBSET open :
        \E order \in InOrder(waiting) :
              /\ Emit([i \in DOMAIN order |-> Asked(order[i])])
              /\ told' = told \cup waiting
    BY <1>3
  <2>1. PICK order \in InOrder(waiting) :
              /\ Emit([i \in DOMAIN order |-> Asked(order[i])])
              /\ told' = told \cup waiting
    OBVIOUS
  <2> DEFINE es == [i \in DOMAIN order |-> Asked(order[i])]
  <2>2. /\ es \in Seq(Event(Made))
        /\ \A i \in 1..Len(es) : es[i].what = "asked" /\ es[i].request \in waiting
        /\ \A r \in waiting : \E i \in 1..Len(es) : es[i].what = "asked" /\ es[i].request = r
    BY <2>1, Repeats
  <2>3. EmitEnding(es, {})
    BY <2>1 DEF Emit
  <2> HIDE DEF es
  <2>4. Truthful(es)
    BY <1>1, <2>1, <2>2 DEF Truthful
  <2>5. Made \subseteq Made /\ Made \subseteq Serials /\ {} \cap open' = {}
    BY Types, PendingAssumption DEF Typed, Made, Serials
  <2>6. QED
    BY <2>2, <2>3, <2>4, <2>5, EmitLists
<1>4. QED
  <2>1. {r \in open : Server(r) = s} \in SUBSET open
    OBVIOUS
  <2>2. QED
    BY <1>2, <1>3, <2>1, Zenon DEF Reconnect

LEMMA DeliverLists ==
    ASSUME TypeOK, Lists, Distinct, NEW u \in Users, Deliver(u)
    PROVE  Lists'
<1> DEFINE r == calls[u].request
<1>1. open' = open \ Target(r) /\ UNCHANGED <<shown, told>> /\ Target(r) \subseteq open
  BY DEF Deliver, Target
<1>2. CASE Target(r) = {}
  <2>1. UNCHANGED <<open, events, cause, unheard>>
    BY <1>1, <1>2 DEF Deliver
  <2>2. QED
    BY <1>1, <2>1, Removal
<1>3. CASE Target(r) # {}
  <2>1. PICK x \in Target(r) : EmitEnding(<<Resolved(x)>>, Target(r))
    BY <1>3 DEF Deliver
  <2>2. Target(r) = {x} /\ x \in open
    BY <1>1, <2>1, OneTarget
  <2>3. QED
    BY <1>1, <2>1, <2>2, EndLists
<1>4. QED
  BY <1>2, <1>3

LEMMA ListenLists ==
    ASSUME TypeOK, Lists, Listen
    PROVE  Lists'
<1> PICK r : r = Head(events).request
  OBVIOUS
<1>1. /\ events # <<>> /\ events' = Tail(events)
      /\ UNCHANGED <<open, told, unheard>>
  BY DEF Listen
<1>2. /\ Len(events) \in Nat \ {0} /\ Len(events') = Len(events) - 1
      /\ Head(events) = events[1] /\ 1 \in 1..Len(events)
      /\ \A i \in 1..Len(events') : events'[i] = events[i + 1] /\ i + 1 \in 1..Len(events)
      /\ \A i \in 2..Len(events) : i - 1 \in 1..Len(events') /\ events'[i - 1] = events[i]
  <2>1. events \in Seq(Event(Made))
    BY Types DEF Typed
  <2>2. QED
    BY <1>1, <2>1
<1>3. /\ events[1].request = r /\ r \in Made
      /\ events[1].what = "asked" => r \in told
      /\ events[1].what = "resolved" => r \notin open
  BY <1>2, EventsMade DEF Lists
<1>4. ASSUME NEW w, NEW x, Coming(w, x)
      PROVE  Coming(w, x)' \/ (w = events[1].what /\ x = r)
  <2>1. PICK i \in 1..Len(events) : events[i].what = w /\ events[i].request = x
    BY <1>4 DEF Coming
  <2>2. CASE i = 1
    BY <1>3, <2>1, <2>2
  <2>3. CASE i \in 2..Len(events)
    BY <1>2, <2>1, <2>3 DEF Coming
  <2>4. QED
    BY <2>1, <2>2, <2>3
<1>5. open \subseteq Serials
  BY Types, PendingAssumption DEF Typed, Made, Serials
<1>6. EventsAreReal' /\ BeginsBeforeEnds'
  <2>1. EventsAreReal'
    BY <1>1, <1>2 DEF Lists, EventsAreReal
  <2>2. BeginsBeforeEnds'
    <3>1. SUFFICES ASSUME NEW i \in 1..Len(events'), events'[i].what = "asked",
                          events'[i].request \notin open, events'[i].request \notin unheard
                   PROVE  \E j \in (i+1)..Len(events') :
                             /\ events'[j].what = "resolved"
                             /\ events'[j].request = events'[i].request
      BY <1>1 DEF BeginsBeforeEnds
    <3>2. PICK j \in (i+2)..Len(events) :
             events[j].what = "resolved" /\ events[j].request = events'[i].request
      BY <1>2, <3>1 DEF Lists, BeginsBeforeEnds
    <3>3. j - 1 \in (i+1)..Len(events') /\ events'[j - 1] = events[j]
      BY <1>2
    <3>4. QED
      BY <3>2, <3>3
  <2>3. QED
    BY <2>1, <2>2
<1>7. CASE events[1].what = "asked"
  <2>1. \/ /\ shown' = shown /\ \A x \in open : cause'[x] = IF x = r THEN "collided" ELSE cause[x]
        \/ /\ shown' = (shown \ Rivals(r)) \cup {r}
           /\ \A x \in open : x # r => cause'[x] = IF x \in Rivals(r) THEN "collided" ELSE cause[x]
    BY <1>2, <1>3, <1>5, <1>7 DEF Listen, Blame
  <2>2. Awaited'
    <3>1. SUFFICES ASSUME NEW x \in open \cap told
                   PROVE  x \in shown' \/ cause'[x] # "none" \/ Coming("asked", x)'
      BY <1>1 DEF Awaited
    <3>2. x \in shown \/ cause[x] # "none" \/ Coming("asked", x)
      BY DEF Lists, Awaited
    <3>3. QED
      BY <1>4, <2>1, <3>2
  <2>3. Outlived'
    <3>1. SUFFICES ASSUME NEW x \in shown' \ open PROVE x \in unheard \/ Coming("resolved", x)'
      BY <1>1 DEF Outlived
    <3>2. CASE x \in shown
      <4>1. x \in unheard \/ Coming("resolved", x)
        BY <3>1, <3>2 DEF Lists, Outlived
      <4>2. QED
        BY <1>4, <1>7, <4>1
    <3>3. CASE x = r
      <4>1. ASSUME r \notin unheard PROVE Coming("resolved", r)
        BY <1>2, <1>3, <1>7, <3>1, <3>3, <4>1, SMTT(30) DEF Lists, BeginsBeforeEnds, Coming
      <4>2. QED
        BY <1>4, <1>7, <3>3, <4>1
    <3>4. QED
      BY <2>1, <3>1, <3>2, <3>3
  <2>4. QED
    BY <1>6, <2>2, <2>3 DEF Lists
<1>8. CASE events[1].what = "resolved"
  <2>1. /\ shown' = shown \ EndedBy(r)
        /\ \A x \in open : cause'[x] = IF x \in EndedBy(r) \ {r} THEN "collided" ELSE cause[x]
    BY <1>2, <1>3, <1>5, <1>8 DEF Listen, Blame
  <2>2. Awaited'
    <3>1. SUFFICES ASSUME NEW x \in open \cap told
                   PROVE  x \in shown' \/ cause'[x] # "none" \/ Coming("asked", x)'
      BY <1>1 DEF Awaited
    <3>2. x \in shown \/ cause[x] # "none" \/ Coming("asked", x)
      BY DEF Lists, Awaited
    <3>3. x # r
      BY <1>3, <1>8
    <3>4. QED
      BY <1>4, <2>1, <3>2, <3>3
  <2>3. Outlived'
    <3>1. SUFFICES ASSUME NEW x \in shown' \ open PROVE x \in unheard \/ Coming("resolved", x)'
      BY <1>1 DEF Outlived
    <3>2. x \in shown /\ x # r
      BY <2>1, <3>1 DEF EndedBy, Alike
    <3>3. x \in unheard \/ Coming("resolved", x)
      BY <3>1, <3>2 DEF Lists, Outlived
    <3>4. QED
      BY <1>4, <3>2, <3>3
  <2>4. QED
    BY <1>6, <2>2, <2>3 DEF Lists
<1>9. QED
  BY <1>2, <1>7, <1>8, EventsMade DEF Lists

LEMMA RemovalLists ==
    ASSUME TypeOK, Lists,
           (\E s \in Servers : Sweep(s) \/ Forget(s)) \/ \E u \in Users : Settle(u)
    PROVE  Lists'
<1>1. open \subseteq Serials
  BY Types, PendingAssumption DEF Typed, Made, Serials
<1>2. shown' \subseteq shown /\ UNCHANGED <<open, told, events, unheard>>
  BY DEF Sweep, Forget, Settle
<1>3. CASE \E s \in Servers : Sweep(s) \/ Forget(s)
  <2>1. PICK rs : shown' = shown \ rs /\ cause' = Blame(cause, rs, "swept")
    BY <1>3 DEF Sweep, Forget
  <2>2. \A x \in open : cause'[x] = "none" => cause[x] = "none" /\ (x \in shown => x \in shown')
    BY <1>1, <2>1 DEF Blame
  <2>3. QED
    BY <1>2, <2>2, Removal
<1>4. CASE \E u \in Users : Settle(u)
  <2>1. PICK r, gone : /\ shown' = shown \ gone
                       /\ cause' = Blame(Blame(cause, gone \ {r}, "collided"), gone \cap {r}, "unsent")
    BY <1>4 DEF Settle
  <2>2. \A x \in open : cause'[x] = "none" => cause[x] = "none" /\ (x \in shown => x \in shown')
    BY <1>1, <2>1 DEF Blame
  <2>3. QED
    BY <1>2, <2>2, Removal
<1>5. QED
  BY <1>3, <1>4

LEMMA ListsStep ==
    ASSUME TypeOK, Lists, Distinct, [Next]_vars
    PROVE  Lists'
<1>1. CASE \E r \in Serials : Withdraw(r)
  <2>1. PICK r \in Serials : Withdraw(r)
    BY <1>1
  <2>2. r \in open /\ open' = open \ {r} /\ UNCHANGED <<shown, told>>
    BY <2>1 DEF Withdraw
  <2>3. CASE EmitEnding(<<Resolved(r)>>, {r})
    BY <2>2, <2>3, EndLists
  <2>4. CASE unheard' = unheard \cup {r} /\ cause' = Ended(cause, {r}) /\ events' = events
    BY <2>2, <2>4, SilentEnds
  <2>5. QED
    BY <2>1, <2>3, <2>4 DEF Withdraw
<1>2. CASE \E s \in Servers : Restart(s)
  <2>1. PICK s \in Servers : Restart(s)
    BY <1>2
  <2>2. PICK ended : ended = {r \in open : Server(r) = s}
    OBVIOUS
  <2>3. /\ ended \in SUBSET open /\ open' = open \ ended /\ unheard' = unheard \cup ended
        /\ cause' = Ended(cause, ended) /\ UNCHANGED <<events, shown, told>>
    BY <2>1, <2>2 DEF Restart
  <2>4. QED
    BY <2>3, SilentEnds
<1>3. CASE UNCHANGED <<open, told, shown, events, cause, unheard>>
  BY <1>3, Removal
<1>4. QED
  BY <1>1, <1>2, <1>3, AskLists, ReconnectLists, DeliverLists, ListenLists, RemovalLists
     DEF Next, Drop, GiveUp, Tap, LookUp, Vanish, SendFails, vars
-----------------------------------------------------------------------------
(* The theorems.                                                            *)

LEMMA IInvInit == Init => IInv
<1>1. SUFFICES ASSUME Init PROVE IInv
  OBVIOUS
<1>2. /\ requests = <<>> /\ events = <<>> /\ open = {} /\ told = {} /\ shown = {} /\ misled = {}
      /\ calls = [u \in Users |-> NoCall] /\ process = [s \in Servers |-> 0] /\ faults = 0
  BY <1>1 DEF Init
<1>3. Made = {} /\ 1..Len(events) = {}
  BY <1>2 DEF Made
<1>4. Counted /\ Distinct /\ Past
  BY <1>3 DEF Counted, Distinct, Past
<1>5. Processes /\ OneEach /\ Exact
  BY <1>2 DEF Processes, OneEach, Exact, NoCall
<1>6. Lists
  BY <1>2, <1>3 DEF Lists, Awaited, Outlived, EventsAreReal, BeginsBeforeEnds
<1>7. QED
  BY <1>1, <1>2, <1>4, <1>5, <1>6, TypesInit DEF IInv, Ids, AnswerReachesAsker

LEMMA IInvStep == IInv /\ [Next]_vars => IInv'
<1>1. SUFFICES ASSUME IInv, [Next]_vars PROVE IInv'
  OBVIOUS
<1>2. /\ TypeOK /\ Counted /\ Distinct /\ Past /\ Processes /\ OneEach /\ Exact /\ Ids
      /\ AnswerReachesAsker /\ Lists /\ EventsAreReal
  BY <1>1 DEF IInv, Ids, Lists
<1>3. TypeOK'
  BY <1>1, <1>2, TypesStep
<1>4. Ids'
  BY <1>1, <1>2, CountedStep, PastStep, OneEachStep, ExactStep DEF Ids
<1>5. AnswerReachesAsker' /\ Lists'
  BY <1>1, <1>2, AnswerStep, ListsStep
<1>6. QED
  BY <1>3, <1>4, <1>5 DEF IInv

LEMMA Invariance == Spec => []IInv
BY IInvInit, IInvStep, PTL DEF Spec

\* Every reachable state of the lists and calls is well typed.
THEOREM TypeCorrect == Spec => []TypeOK
<1>1. IInv => TypeOK
  BY DEF IInv
<1>2. QED
  BY <1>1, Invariance, PTL

\* At rest the lists of the reducer and the open requests of the servers agree, but
\* for collisions, sweeps, overwritten events, answers that vanished, and requests
\* whose end the client was not connected to hear or missed.
THEOREM ListsAgree == Spec => []ListsAreTrue
<1>1. ASSUME IInv PROVE ListsAreTrue
  <2>1. SUFFICES ASSUME events = <<>>
                 PROVE  /\ \A r \in open \cap told : r \in shown \/ cause[r] # "none"
                        /\ shown \ open \subseteq unheard
    BY DEF ListsAreTrue, Quiet
  <2>2. \A w, x : ~Coming(w, x)
    <3>1. 1..Len(events) = {}
      BY <2>1
    <3>2. QED
      BY <3>1 DEF Coming
  <2>3. QED
    BY <1>1, <2>2 DEF IInv, Lists, Awaited, Outlived
<1>2. QED
  BY <1>1, Invariance, PTL

\* respond_to_approval and respond_to_user_input find the request that was tapped while
\* it is in its list; when it has left they may find another server's with its id.  The
\* server of the one found takes the answer for another one only across a restart.
THEOREM AnswersFindTheirAsker == Spec => []AnswerReachesAsker
<1>1. IInv => AnswerReachesAsker
  BY DEF IInv
<1>2. QED
  BY <1>1, Invariance, PTL
=============================================================================
