---------------------------- MODULE IpcClientProofs ----------------------------
(***************************************************************************)
(* Proofs about one IPC client, for any calls, channel capacity and number *)
(* of discovery requests: that no caller is forgotten, and that the client *)
(* keeps the promises of CallContract.                                     *)
(*                                                                         *)
(* What has to be followed is the envelope of a call: through the channel, *)
(* to the router, and back as a response.  It takes this way once.         *)
(***************************************************************************)
EXTENDS IpcClient, TLAPS

\* Where a call stands once its envelope is under way.
Submitted == {"queued", "ok", "failed"}

\* The channel has the envelope of a call once at most, and before the router.
ChannelOnce ==
    /\ \A i \in 1..Len(out) :
          out[i] \in Calls => fate[out[i]] = "none" /\ answer[out[i]] \in Submitted
    /\ \A i, j \in 1..Len(out) : out[i] \in Calls /\ out[i] = out[j] => i = j

\* The router has only what was submitted, and responds to what it has run.
RouterHonest ==
    /\ \A c \in Calls : fate[c] # "none" => answer[c] \in Submitted
    /\ \A i \in 1..Len(inbox) : inbox[i] \in Calls => fate[inbox[i]] = "ran"
    /\ \A c \in Calls : box[c] = "response" => fate[c] = "ran"

IInv == TypeOK /\ ChannelOnce /\ RouterHonest /\ WaitersAreTracked
-----------------------------------------------------------------------------
(* Functions and sequences.                                                 *)

LEMMA Edited ==
    ASSUME NEW S, NEW T, NEW f \in [S -> T], NEW h, NEW v
    PROVE  \A c \in S : [f EXCEPT ![h] = v][c] = IF c = h THEN v ELSE f[c]
OBVIOUS

LEMMA Increased ==
    ASSUME NEW S, NEW f \in [S -> Nat], NEW g \in [S -> Nat], NEW c \in S,
           g[c] = f[c] + 1, \A d \in S : d # c => g[d] = f[d]
    PROVE  g = [f EXCEPT ![c] = @ + 1]
OBVIOUS

LEMMA Tails ==
    ASSUME NEW S, NEW q \in Seq(S), q # <<>>
    PROVE  /\ Head(q) = q[1] /\ Head(q) \in S /\ Len(q) \in Nat \ {0}
           /\ Tail(q) \in Seq(S) /\ Len(Tail(q)) = Len(q) - 1
           /\ \A i \in 1..Len(Tail(q)) : Tail(q)[i] = q[i + 1] /\ i + 1 \in 1..Len(q)
OBVIOUS

LEMMA Appends ==
    ASSUME NEW S, NEW q \in Seq(S), NEW x \in S
    PROVE  /\ Append(q, x) \in Seq(S) /\ Len(Append(q, x)) = Len(q) + 1 /\ Len(q) \in Nat
           /\ \A i \in 1..Len(Append(q, x)) :
                 \/ i \in 1..Len(q) /\ Append(q, x)[i] = q[i]
                 \/ i = Len(q) + 1 /\ Append(q, x)[i] = x
OBVIOUS

-----------------------------------------------------------------------------
(* Types.                                                                   *)

LEMMA TypesInit == Init => TypeOK
BY ClientAssumption DEF Init, TypeOK, Room

LEMMA TypesStep ==
    ASSUME TypeOK, [Next]_vars
    PROVE  TypeOK'
<1> USE ClientAssumption DEF TypeOK, Room
<1>1. CASE \E c \in Calls : Insert(c) \/ SendFails(c) \/ Receive(c) \/ Timeout(c)
  BY <1>1 DEF Insert, SendFails, Receive, Timeout
<1>2. CASE \E c \in Calls : Send(c)
  <2>1. PICK c \in Calls : Send(c)
    BY <1>2
  <2>2. /\ out' = Append(out, c) /\ out \in Seq(Calls \cup {Discovery})
        /\ Len(out) < Room /\ Room' = Room /\ Room \in Nat
    BY <2>1 DEF Send
  <2>3. out' \in Seq(Calls \cup {Discovery}) /\ Len(out') = Len(out) + 1 /\ Len(out) \in Nat
    BY <2>2, Appends
  <2>4. Len(out') <= Room' /\ out' # <<>>
    <3> HIDE DEF TypeOK, Room
    <3>1. QED
      BY <2>2, <2>3
  <2>5. QED
    BY <2>1, <2>3, <2>4, Zenon DEF Send
<1>3. CASE WriteNext
  <2>1. out \in Seq(Calls \cup {Discovery}) /\ out # <<>> /\ out' = Tail(out)
    BY <1>3 DEF WriteNext
  <2>2. out' \in Seq(Calls \cup {Discovery}) /\ Len(out') = Len(out) - 1
    BY <2>1, Tails
  <2>3. Len(out') <= Room' /\ writer' = "running"
    BY <1>3, <2>1, <2>2 DEF WriteNext, Room
  <2>4. Head(out) \in Calls \cup {Discovery}
    BY <2>1, Tails
  <2>5. fate' \in [Calls -> {"none", "sent", "ran"}]
    BY <1>3, <2>4 DEF WriteNext
  <2>6. QED
    BY <1>3, <2>2, <2>3, <2>5, Zenon DEF WriteNext
<1>4. CASE Take \/ WriteFails
  <2>1. <<>> \in Seq(Calls \cup {Discovery}) /\ Len(<<>>) = 0
    OBVIOUS
  <2>2. Len(out) \in Nat
    BY Appends
  <2>3. CASE Take
    BY <2>2, <2>3 DEF Take
  <2>4. CASE WriteFails
    BY <2>1, <2>4 DEF WriteFails
  <2>5. QED
    BY <1>4, <2>3, <2>4
<1>5. CASE ReadResponse
  <2>1. inbox' \in Seq(Calls \cup {Discovery})
    BY <1>5, Tails DEF ReadResponse
  <2>2. box' \in [Calls -> {"empty", "response", "cleared"}] /\ pending' \subseteq Calls
    BY <1>5 DEF ReadResponse
  <2>3. QED
    BY <1>5, <2>1, <2>2, Zenon DEF ReadResponse
<1>6. CASE ReadDiscovery
  <2>1. inbox' \in Seq(Calls \cup {Discovery})
    BY <1>6, Tails DEF ReadDiscovery
  <2>2. QED
    BY <1>6, <2>1, Zenon DEF ReadDiscovery
<1>7. CASE AnswerDiscovery
  <2>1. CASE writer = "ended" /\ reader' = "ended" /\ UNCHANGED out
    BY <1>7, <2>1 DEF AnswerDiscovery
  <2>2. CASE Len(out) < Room /\ out' = Append(out, Discovery) /\ reader' = "reading"
    <3>1. /\ out' \in Seq(Calls \cup {Discovery}) /\ Len(out') = Len(out) + 1
          /\ Len(out) \in Nat
      BY <2>2, Appends
    <3>2. writer' = writer
      BY <1>7 DEF AnswerDiscovery
    <3>3. Len(out') <= Room' /\ out' # <<>>
      BY <2>2, <3>1, <3>2
    <3>4. QED
      BY <1>7, <2>2, <3>1, <3>3, Zenon DEF AnswerDiscovery
  <2>3. QED
    BY <1>7, <2>1, <2>2, Zenon DEF AnswerDiscovery
<1>8. CASE ReadEnds \/ ForceDisconnect
  <2>1. box' \in [Calls -> {"empty", "response", "cleared"}] /\ pending' \subseteq Calls
    BY <1>8 DEF ReadEnds, ForceDisconnect, Clear
  <2>2. <<>> \in Seq(Calls \cup {Discovery}) /\ Len(<<>>) <= ChannelCap
    OBVIOUS
  <2>3. QED
    BY <1>8, <2>1, <2>2, Zenon DEF ReadEnds, ForceDisconnect
<1>9. CASE \E c \in Calls : RouterRuns(c)
  <2>1. PICK c \in Calls : RouterRuns(c)
    BY <1>9
  <2>2. inbox' \in Seq(Calls \cup {Discovery})
    BY <2>1, Appends DEF RouterRuns
  <2>3. QED
    BY <2>1, <2>2, Zenon DEF RouterRuns
<1>10. CASE RouterAsks
  <2>1. inbox' \in Seq(Calls \cup {Discovery})
    BY <1>10, Appends DEF RouterAsks
  <2>2. questions' \in 0..MaxQuestions
    BY <1>10 DEF RouterAsks
  <2>3. QED
    BY <1>10, <2>1, <2>2, Zenon DEF RouterAsks
<1>11. CASE RouterCloses
  <2>1. <<>> \in Seq(Calls \cup {Discovery})
    OBVIOUS
  <2>2. QED
    BY <1>11, <2>1, Zenon DEF RouterCloses
<1>12. CASE UNCHANGED vars
  BY <1>12 DEF vars
<1>13. QED
  BY <1>1, <1>2, <1>3, <1>4, <1>5, <1>6, <1>7, <1>8, <1>9, <1>10, <1>11, <1>12
     DEF Next, Caller, Writer, Reader

-----------------------------------------------------------------------------
(* The envelope's way.                                                      *)

LEMMA ChannelStep ==
    ASSUME IInv, [Next]_vars
    PROVE  ChannelOnce'
<1>1. /\ out \in Seq(Calls \cup {Discovery}) /\ fate \in [Calls -> {"none", "sent", "ran"}] /\ ChannelOnce
      /\ answer \in [Calls -> {"new", "waiting", "queued", "ok", "failed", "refused"}]
  BY DEF IInv, TypeOK
<1>2. ASSUME out' = out, fate' = fate,
             \A c \in Calls : answer[c] \in Submitted => answer'[c] \in Submitted
      PROVE  ChannelOnce'
  BY <1>1, <1>2 DEF ChannelOnce
<1>3. CASE \E c \in Calls : Insert(c) \/ SendFails(c) \/ Receive(c) \/ Timeout(c)
  <2>1. /\ out' = out /\ fate' = fate
        /\ \A c \in Calls : answer[c] \in Submitted => answer'[c] \in Submitted
    BY <1>1, <1>3 DEF Insert, SendFails, Receive, Timeout, Submitted
  <2>2. QED
    BY <1>2, <2>1
<1>4. CASE \E c \in Calls : Send(c)
  <2>1. PICK c \in Calls : Send(c)
    BY <1>4
  <2>2. answer[c] = "waiting" /\ out' = Append(out, c) /\ fate' = fate
    BY <2>1 DEF Send
  <2>3. answer'[c] \in Submitted /\ \A d \in Calls : d # c => answer'[d] = answer[d]
    BY <1>1, <2>1 DEF Send, Submitted
  <2>4. \A i \in 1..Len(out) : out[i] # c
    BY <1>1, <2>2 DEF ChannelOnce, Submitted
  <2>5. fate[c] = "none"
    BY <2>2 DEF IInv, RouterHonest, Submitted
  <2>6. \A i \in 1..Len(out') :
           (i \in 1..Len(out) /\ out'[i] = out[i]) \/ (i = Len(out) + 1 /\ out'[i] = c)
    <3>1. c \in Calls \cup {Discovery}
      OBVIOUS
    <3>2. QED
      BY <1>1, <2>2, <3>1, Appends
  <2>7. \A i \in 1..Len(out') :
           out'[i] \in Calls => fate'[out'[i]] = "none" /\ answer'[out'[i]] \in Submitted
    <3>1. SUFFICES ASSUME NEW i \in 1..Len(out'), out'[i] \in Calls, out'[i] # c
                   PROVE  fate'[out'[i]] = "none" /\ answer'[out'[i]] \in Submitted
      BY <2>2, <2>3, <2>5
    <3>2. i \in 1..Len(out) /\ out'[i] = out[i]
      BY <2>6, <3>1, Zenon
    <3>3. fate[out'[i]] = "none" /\ answer[out'[i]] \in Submitted
      BY <1>1, <3>1, <3>2, Zenon DEF ChannelOnce
    <3>4. QED
      BY <2>2, <2>3, <3>1, <3>3, Zenon
  <2>8. \A i, j \in 1..Len(out') : out'[i] \in Calls /\ out'[i] = out'[j] => i = j
    BY <1>1, <2>4, <2>6, Zenon DEF ChannelOnce
  <2>9. QED
    BY <2>7, <2>8 DEF ChannelOnce
<1>5. CASE WriteNext
  <2>1. out # <<>> /\ out' = Tail(out) /\ answer' = answer
    BY <1>5 DEF IInv, TypeOK, WriteNext
  <2>2. /\ Head(out) = out[1] /\ 1 \in 1..Len(out)
        /\ \A i \in 1..Len(out') : out'[i] = out[i + 1] /\ i + 1 \in 1..Len(out)
    BY <1>1, <2>1, Tails
  <2>3. ASSUME NEW i \in 1..Len(out'), out'[i] \in Calls
        PROVE  out'[i] # Head(out)
    <3>1. i + 1 # 1
      OBVIOUS
    <3>2. QED
      BY <1>1, <2>2, <2>3, <3>1, Zenon DEF ChannelOnce
  <2>4. \A c \in Calls : c # Head(out) => fate'[c] = fate[c]
    BY <1>1, <1>5 DEF WriteNext
  <2>5. \A i \in 1..Len(out') :
           out'[i] \in Calls => fate'[out'[i]] = "none" /\ answer'[out'[i]] \in Submitted
    <3>1. SUFFICES ASSUME NEW i \in 1..Len(out'), out'[i] \in Calls
                   PROVE  fate'[out'[i]] = "none" /\ answer'[out'[i]] \in Submitted
      OBVIOUS
    <3>2. i + 1 \in 1..Len(out) /\ out'[i] = out[i + 1]
      BY <2>2
    <3>3. fate[out'[i]] = "none" /\ answer[out'[i]] \in Submitted
      BY <1>1, <3>1, <3>2, Zenon DEF ChannelOnce
    <3>4. QED
      BY <2>1, <2>3, <2>4, <3>1, <3>3, Zenon
  <2>6. ASSUME NEW i \in 1..Len(out'), NEW j \in 1..Len(out'),
               out'[i] \in Calls, out'[i] = out'[j]
        PROVE  i = j
    <3>1. i + 1 = j + 1
      BY <1>1, <2>2, <2>6, Zenon DEF ChannelOnce
    <3>2. QED
      BY <3>1
  <2>7. QED
    BY <2>5, <2>6 DEF ChannelOnce
<1>6. CASE WriteFails \/ ForceDisconnect
  <2>1. out' = <<>>
    BY <1>6 DEF WriteFails, ForceDisconnect
  <2>2. QED
    BY <2>1 DEF ChannelOnce
<1>7. CASE Take \/ ReadResponse \/ ReadDiscovery \/ ReadEnds \/ RouterAsks \/ RouterCloses
  BY <1>2, <1>7 DEF Take, ReadResponse, ReadDiscovery, ReadEnds, RouterAsks, RouterCloses
<1>8. CASE AnswerDiscovery
  <2>1. fate' = fate /\ answer' = answer
    BY <1>8 DEF AnswerDiscovery
  <2>2. CASE out' = Append(out, Discovery)
    <3>1. \A i \in 1..Len(out') :
             out'[i] \in Calls => i \in 1..Len(out) /\ out'[i] = out[i]
      BY <1>1, <2>2, ClientAssumption
    <3>2. QED
      BY <1>1, <2>1, <3>1, Zenon DEF ChannelOnce
  <2>3. QED
    BY <1>2, <1>8, <2>1, <2>2 DEF AnswerDiscovery
<1>9. CASE \E c \in Calls : RouterRuns(c)
  <2>1. PICK c \in Calls : RouterRuns(c)
    BY <1>9
  <2>2. fate[c] = "sent" /\ UNCHANGED <<out, answer>>
    BY <2>1 DEF RouterRuns
  <2>3. \A d \in Calls : d # c => fate'[d] = fate[d]
    BY <1>1, <2>1 DEF RouterRuns
  <2>4. QED
    BY <1>1, <2>2, <2>3 DEF ChannelOnce
<1>10. CASE UNCHANGED vars
  BY <1>2, <1>10 DEF vars
<1>11. QED
  BY <1>3, <1>4, <1>5, <1>6, <1>7, <1>8, <1>9, <1>10 DEF Next, Caller, Writer, Reader

LEMMA RouterStep ==
    ASSUME IInv, [Next]_vars
    PROVE  RouterHonest'
<1> USE DEF IInv, TypeOK, RouterHonest, Submitted
<1>1. CASE \E c \in Calls : Insert(c) \/ Send(c) \/ SendFails(c) \/ Receive(c) \/ Timeout(c)
  BY <1>1 DEF Insert, Send, SendFails, Receive, Timeout
<1>2. CASE WriteNext
  <2>1. Head(out) = out[1] /\ 1 \in 1..Len(out)
    BY <1>2, Tails DEF WriteNext
  <2>2. Head(out) \in Calls => fate[Head(out)] = "none" /\ answer[Head(out)] \in Submitted
    BY <2>1 DEF ChannelOnce
  <2>3. \A c \in Calls : fate'[c] = fate[c] \/ (c = Head(out) /\ fate'[c] = "sent")
    <3>1. fate' = fate \/ fate' = [fate EXCEPT ![Head(out)] = "sent"]
      BY <1>2, Zenon DEF WriteNext
    <3>2. \A c \in Calls : [fate EXCEPT ![Head(out)] = "sent"][c]
                              = IF c = Head(out) THEN "sent" ELSE fate[c]
      BY Edited
    <3>3. QED
      BY <3>1, <3>2, Zenon
  <2>4. UNCHANGED <<answer, inbox, box>>
    BY <1>2 DEF WriteNext
  <2>5. QED
    BY <2>2, <2>3, <2>4
<1>3. CASE ReadResponse
  <2>1. inbox # <<>> /\ inbox' = Tail(inbox) /\ Head(inbox) # Discovery
    BY <1>3 DEF ReadResponse
  <2>2. /\ Head(inbox) = inbox[1] /\ 1 \in 1..Len(inbox) /\ Head(inbox) \in Calls
        /\ \A i \in 1..Len(inbox') : inbox'[i] = inbox[i + 1] /\ i + 1 \in 1..Len(inbox)
    BY <2>1, Tails
  <2>3. \A c \in Calls : box'[c] = box[c] \/ c = Head(inbox)
    BY <1>3 DEF ReadResponse
  <2>4. UNCHANGED <<answer, fate>>
    BY <1>3 DEF ReadResponse
  <2>5. QED
    BY <2>2, <2>3, <2>4
<1>4. CASE ReadDiscovery
  <2>1. inbox # <<>> /\ inbox' = Tail(inbox) /\ UNCHANGED <<answer, fate, box>>
    BY <1>4 DEF ReadDiscovery
  <2>2. \A i \in 1..Len(inbox') : inbox'[i] = inbox[i + 1] /\ i + 1 \in 1..Len(inbox)
    BY <2>1, Tails
  <2>3. QED
    BY <2>1, <2>2
<1>5. CASE Take \/ WriteFails \/ AnswerDiscovery
  BY <1>5 DEF Take, WriteFails, AnswerDiscovery
<1>6. CASE ReadEnds \/ ForceDisconnect
  <2>1. \A c \in Calls : box'[c] = "response" => box[c] = "response"
    BY <1>6 DEF ReadEnds, ForceDisconnect, Clear
  <2>2. inbox' \in {inbox, <<>>} /\ UNCHANGED <<answer, fate>>
    BY <1>6 DEF ReadEnds, ForceDisconnect
  <2>3. QED
    BY <2>1, <2>2
<1>7. CASE \E c \in Calls : RouterRuns(c)
  <2>1. PICK c \in Calls : RouterRuns(c)
    BY <1>7
  <2>2. /\ fate[c] = "sent" /\ fate'[c] = "ran" /\ UNCHANGED <<answer, box>>
        /\ \A d \in Calls : d # c => fate'[d] = fate[d]
    BY <2>1 DEF RouterRuns
  <2>3. \A i \in 1..Len(inbox') : (i \in 1..Len(inbox) /\ inbox'[i] = inbox[i]) \/ inbox'[i] = c
    BY <2>1, Appends DEF RouterRuns
  <2>4. \A i \in 1..Len(inbox') : inbox'[i] \in Calls => fate'[inbox'[i]] = "ran"
    <3>1. SUFFICES ASSUME NEW i \in 1..Len(inbox'), inbox'[i] \in Calls, inbox'[i] # c
                   PROVE  fate'[inbox'[i]] = "ran"
      BY <2>2
    <3>2. i \in 1..Len(inbox) /\ inbox'[i] = inbox[i]
      BY <2>3, <3>1, Zenon
    <3>3. QED
      <4>1. fate[inbox[i]] = "ran" /\ inbox[i] \in Calls
        BY <3>1, <3>2
      <4>2. QED
        BY <2>2, <3>1, <3>2, <4>1, Zenon
  <2>5. QED
    BY <2>2, <2>4
<1>8. CASE RouterAsks
  <2>1. UNCHANGED <<answer, fate, box>>
    BY <1>8 DEF RouterAsks
  <2>2. \A i \in 1..Len(inbox') :
           (i \in 1..Len(inbox) /\ inbox'[i] = inbox[i]) \/ inbox'[i] = Discovery
    BY <1>8, Appends DEF RouterAsks
  <2>3. QED
    BY <2>1, <2>2, ClientAssumption
<1>9. CASE RouterCloses
  BY <1>9 DEF RouterCloses
<1>10. CASE UNCHANGED vars
  BY <1>10 DEF vars
<1>11. QED
  BY <1>1, <1>2, <1>3, <1>4, <1>5, <1>6, <1>7, <1>8, <1>9, <1>10
     DEF Next, Caller, Writer, Reader

LEMMA WaitersStep ==
    ASSUME IInv, [Next]_vars
    PROVE  WaitersAreTracked'
<1> USE DEF IInv, TypeOK, WaitersAreTracked
<1>1. SUFFICES ASSUME NEW c \in Calls
               PROVE  answer'[c] \in {"waiting", "queued"} => c \in pending' \/ box'[c] # "empty"
  BY RouterStep DEF RouterHonest
<1>2. CASE \E d \in Calls : Insert(d) \/ Send(d) \/ SendFails(d) \/ Receive(d) \/ Timeout(d)
  BY <1>2 DEF Insert, Send, SendFails, Receive, Timeout
<1>3. CASE ReadResponse
  BY <1>3 DEF ReadResponse
<1>4. CASE ReadEnds \/ ForceDisconnect
  BY <1>4, SMTT(30) DEF ReadEnds, ForceDisconnect, Clear
<1>5. CASE Take \/ WriteNext \/ WriteFails \/ ReadDiscovery \/ AnswerDiscovery
  BY <1>5 DEF Take, WriteNext, WriteFails, ReadDiscovery, AnswerDiscovery
<1>6. CASE RouterAsks \/ RouterCloses \/ \E d \in Calls : RouterRuns(d)
  BY <1>6 DEF RouterAsks, RouterCloses, RouterRuns
<1>7. CASE UNCHANGED vars
  BY <1>7 DEF vars
<1>8. QED
  BY <1>2, <1>3, <1>4, <1>5, <1>6, <1>7 DEF Next, Caller, Writer, Reader

LEMMA IInvInit == Init => IInv
<1>1. Init => ChannelOnce /\ RouterHonest /\ WaitersAreTracked
  BY DEF Init, ChannelOnce, RouterHonest, WaitersAreTracked
<1>2. QED
  BY <1>1, TypesInit DEF IInv

LEMMA IInvStep == IInv /\ [Next]_vars => IInv'
<1>1. SUFFICES ASSUME IInv, [Next]_vars PROVE IInv'
  OBVIOUS
<1>2. QED
  BY <1>1, TypesStep, ChannelStep, RouterStep, WaitersStep DEF IInv

LEMMA Invariance == Spec => []IInv
BY IInvInit, IInvStep, PTL DEF Spec
-----------------------------------------------------------------------------
(* CallContract, with what the client's variables stand for.                *)

Runs == [c \in Calls |-> IF fate[c] = "ran" THEN 1 ELSE 0]

LEMMA ContractInit == Init => Contract!Init
BY DEF Init, Contract!Init

\* Only the callers' steps and the router's runs are seen by the contract.
LEMMA ContractStep ==
    ASSUME IInv, [Next]_vars
    PROVE  [Contract!Next]_<<answer, Runs>>
<1> USE DEF IInv, TypeOK
<1>1. CASE \E c \in Calls : Insert(c) \/ Send(c)
  <2>1. PICK c \in Calls : Insert(c) \/ Send(c)
    BY <1>1
  <2>2. fate' = fate
    BY <2>1 DEF Insert, Send
  <2>3. Contract!Submit(c)
    BY <2>1, <2>2 DEF Insert, Send, Contract!Submit
  <2>4. QED
    BY <2>3 DEF Contract!Next
<1>2. CASE \E c \in Calls : SendFails(c)
  <2>1. PICK c \in Calls : SendFails(c)
    BY <1>2
  <2>2. answer[c] = "waiting" /\ fate' = fate /\ answer' = [answer EXCEPT ![c] = "refused"]
    BY <2>1 DEF SendFails
  <2>3. Runs[c] = 0
    BY <2>2 DEF RouterHonest, Submitted, Runs
  <2>4. {c} \in SUBSET {d \in Calls : answer[d] \in {"waiting", "queued"} /\ Runs[d] = 0}
    BY <2>2, <2>3
  <2>5. answer' = [d \in Calls |-> IF d \in {c} THEN "refused" ELSE answer[d]]
    BY <2>2
  <2>6. Contract!Refuse
    BY <2>2, <2>4, <2>5 DEF Contract!Refuse, Runs
  <2>7. QED
    BY <2>6 DEF Contract!Next
<1>3. CASE \E c \in Calls : Receive(c) \/ Timeout(c)
  <2>1. PICK c \in Calls : Receive(c) \/ Timeout(c)
    BY <1>3
  <2>2. answer[c] = "queued" /\ fate' = fate
    BY <2>1 DEF Receive, Timeout
  <2>3. CASE answer' = [answer EXCEPT ![c] = "failed"]
    <3>1. Contract!Fail(c)
      BY <2>2, <2>3 DEF Contract!Fail
    <3>2. QED
      BY <3>1 DEF Contract!Next
  <2>4. CASE box[c] = "response" /\ answer' = [answer EXCEPT ![c] = "ok"]
    <3>1. fate[c] = "ran"
      BY <2>4 DEF RouterHonest
    <3>2. Contract!Ok(c)
      BY <2>2, <2>4, <3>1 DEF Contract!Ok
    <3>3. QED
      BY <3>2 DEF Contract!Next
  <2>5. QED
    BY <2>1, <2>3, <2>4 DEF Receive, Timeout
<1>4. CASE \E c \in Calls : RouterRuns(c)
  <2>1. PICK c \in Calls : RouterRuns(c)
    BY <1>4
  <2>2. fate[c] = "sent" /\ fate' = [fate EXCEPT ![c] = "ran"] /\ answer' = answer
    BY <2>1 DEF RouterRuns
  <2>3. answer[c] \in Submitted
    BY <2>2 DEF RouterHonest
  <2>4. Runs[c] = 0 /\ Runs' = [Runs EXCEPT ![c] = @ + 1]
    <3>1. Runs[c] = 0 /\ Runs'[c] = 1
      BY <2>2 DEF Runs
    <3>2. \A d \in Calls : d # c => Runs'[d] = Runs[d]
      BY <2>2 DEF Runs
    <3>3. Runs \in [Calls -> Nat] /\ Runs' \in [Calls -> Nat]
      BY DEF Runs
    <3>4. QED
      BY <3>1, <3>2, <3>3, Increased
  <2>5. Contract!Run(c)
    BY <2>2, <2>3, <2>4 DEF Contract!Run, Runs, Submitted
  <2>6. QED
    BY <2>5 DEF Contract!Next
<1>5. CASE WriteNext
  <2>1. Head(out) = out[1] /\ 1 \in 1..Len(out)
    BY <1>5, Tails DEF WriteNext
  <2>2. Head(out) \in Calls => fate[Head(out)] = "none"
    BY <2>1 DEF ChannelOnce
  <2>3. \A c \in Calls : (fate'[c] = "ran") <=> (fate[c] = "ran")
    BY <1>5, <2>2 DEF WriteNext
  <2>4. UNCHANGED <<answer, Runs>>
    BY <1>5, <2>3 DEF WriteNext, Runs
  <2>5. QED
    BY <2>4
<1>6. CASE Take \/ WriteFails \/ Reader \/ ForceDisconnect \/ RouterAsks \/ RouterCloses
  <2>1. UNCHANGED <<answer, fate>>
    BY <1>6 DEF Take, WriteFails, Reader, ReadResponse, ReadDiscovery, AnswerDiscovery, ReadEnds,
                ForceDisconnect, RouterAsks, RouterCloses
  <2>2. QED
    BY <2>1 DEF Runs
<1>7. CASE UNCHANGED vars
  BY <1>7 DEF vars, Runs
<1>8. QED
  BY <1>1, <1>2, <1>3, <1>4, <1>5, <1>6, <1>7 DEF Next, Caller, Writer
-----------------------------------------------------------------------------
(* The theorems.                                                            *)

\* Every reachable state of the client is well typed.
THEOREM TypeCorrect == Spec => []TypeOK
<1>1. IInv => TypeOK
  BY DEF IInv
<1>2. QED
  BY <1>1, Invariance, PTL

\* send_request: whoever waits has an entry in the map or something in its oneshot,
\* however read_loop, timeouts and force_disconnect interleave, and a response that
\* awaits its caller comes from a run of the request.
THEOREM NobodyForgotten == Spec => []WaitersAreTracked
<1>1. IInv => WaitersAreTracked
  BY DEF IInv
<1>2. QED
  BY <1>1, Invariance, PTL

\* The client implements CallContract: what is refused was never run, and what is
\* answered ok has been.
THEOREM ContractKept == Spec => ContractSpec
<1>1. IInv /\ [Next]_vars => [Contract!Next]_<<answer, Runs>>
  BY ContractStep
<1>2. QED
  BY <1>1, ContractInit, Invariance, PTL DEF Spec, ContractSpec, Contract!Spec, Runs
=============================================================================
