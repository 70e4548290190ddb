--------------------------- MODULE PendingRequests ---------------------------
(***************************************************************************)
(* Requests that app-servers make of the user: command, file and           *)
(* permission approvals, and questions.                                    *)
(*                                                                         *)
(* EventProcessor::process_server_request (session/events.rs) turns each   *)
(* into a UI event; the store listener applies the events to two lists,    *)
(* pending_approvals and pending_user_inputs (store/reducer.rs); the user  *)
(* answers with respond_to_approval and respond_to_user_input              *)
(* (mobile_client/mod.rs), which look the entry up by the id alone.        *)
(*                                                                         *)
(* The ids are the JSON-RPC ids of the server: every process counts its    *)
(* own requests from the same number, so ids of different servers, and of  *)
(* two processes of one server, coincide.                                  *)
(***************************************************************************)
EXTENDS Naturals, Sequences, FiniteSets

CONSTANTS
    Servers,      \* servers, each with one app-server process at a time
    Users,        \* answers the user gives, each a call of respond_to_*
    QueueSize,    \* capacity of the UI event channel (256 in the code)
    MaxRequests,  \* bound on requests
    MaxFaults     \* bound on connections that break and processes that end, together

ASSUME PendingAssumption ==
    /\ QueueSize \in Nat \ {0}
    /\ MaxRequests \in Nat /\ MaxFaults \in Nat

Serials == 1..MaxRequests
Kinds   == {"approval", "input"}
Causes  == {"none", "collided", "swept", "missed", "unsent"}

VARIABLES
    requests,     \* all requests ever made: server, its process, id and kind
    open,         \* those the server waits for
    process,      \* of each server: how often its process was started again
    link,         \* of each server: "up", "down" (retrying) or "gone"
    events,       \* UI events on their way to the store
    shown,        \* the entries of the two lists
    calls,        \* of each answer: where it is, the entry tapped, the one found
                  \* under its id, and (a ghost) had the tapped one left the list?
    faults,
    told,         \* ghost: the requests that were ever delivered to the client
    cause,        \* ghost: what last kept or took a request out of the lists
    unheard,      \* ghost: ended requests of whose end the store is never told
    misled        \* ghost: the answers that another request got than the one tapped

vars == <<requests, open, process, link, events, shown, calls, faults, told, cause, unheard,
          misled>>

Server(r) == requests[r].server
Id(r)     == requests[r].id
Kind(r)   == requests[r].kind
Made      == 1..Len(requests)

NoCall == [at |-> "idle", tapped |-> 0, request |-> 0, left |-> FALSE]

Init ==
    /\ requests = <<>> /\ open = {}
    /\ process = [s \in Servers |-> 0] /\ link = [s \in Servers |-> "up"]
    /\ events = <<>> /\ shown = {}
    /\ calls = [u \in Users |-> NoCall]
    /\ faults = 0
    /\ told = {} /\ cause = [r \in Serials |-> "none"] /\ unheard = {} /\ misled = {}

\* The causes, after c befell those of the requests rs that are open.
Blame(f, rs, c) == [r \in Serials |-> IF r \in rs \cap open THEN c ELSE f[r]]
Ended(f, rs)    == [r \in Serials |-> IF r \in rs THEN "none" ELSE f[r]]

-----------------------------------------------------------------------------
(* The channel of UI events.                                                *)

Asked(r)    == [what |-> "asked", request |-> r]
Resolved(r) == [what |-> "resolved", request |-> r]

\* Mutant: the channel holds one event more than its capacity.
KeptOneMore(q) == SubSeq(q, Len(q) - QueueSize, Len(q))

\* A broadcast channel: when it is full the oldest event is overwritten, and the
\* listener that lags goes on behind the gap.
Kept(q) == SubSeq(q, Len(q) - QueueSize + 1, Len(q))
Overwritten(q, w) == {q[i].request : i \in {j \in 1..(Len(q) - QueueSize) : q[j].what = w}}

EmitEnding(es, rs) ==
    LET q == events \o es IN
    /\ events' = IF Len(q) <= QueueSize THEN q ELSE Kept(q)
    /\ cause' = Ended(Blame(cause, Overwritten(q, "asked"), "missed"), rs)
    /\ unheard' = unheard \cup Overwritten(q, "resolved")

Emit(es) == EmitEnding(es, {})

-----------------------------------------------------------------------------
(* The servers.                                                             *)

NextId(s) == Cardinality({r \in Made : Server(r) = s /\ requests[r].process = process[s]})

\* The request reaches the client at once, or not on this connection.
Ask(s, k) ==
    LET r == Len(requests) + 1 IN
    /\ Len(requests) < MaxRequests
    /\ requests' = Append(requests, [server |-> s, process |-> process[s],
                                     id |-> NextId(s), kind |-> k])
    /\ open' = open \cup {r}
    /\ IF link[s] = "up" THEN Emit(<<Asked(r)>>) /\ told' = told \cup {r}
                         ELSE UNCHANGED <<events, cause, unheard, told>>
    /\ UNCHANGED <<process, link, shown, calls, faults, misled>>

\* serverRequest/resolved: the turn was interrupted, or another client answered.
Withdraw(r) ==
    /\ r \in open
    /\ open' = open \ {r}
    /\ IF link[Server(r)] = "up" THEN EmitEnding(<<Resolved(r)>>, {r})
       ELSE /\ unheard' = unheard \cup {r} /\ cause' = Ended(cause, {r})
            /\ UNCHANGED events
    /\ UNCHANGED <<requests, process, link, shown, calls, faults, told, misled>>

\* The process ends and is started again: its requests are gone, ids start anew.
Restart(s) ==
    LET ended == {r \in open : Server(r) = s} IN
    /\ faults < MaxFaults /\ faults' = faults + 1
    /\ process' = [process EXCEPT ![s] = @ + 1]
    /\ link' = [link EXCEPT ![s] = IF @ = "up" THEN "down" ELSE @]
    /\ open' = open \ ended
    /\ unheard' = unheard \cup ended /\ cause' = Ended(cause, ended)
    /\ UNCHANGED <<requests, events, shown, calls, told, misled>>

Drop(s) ==
    /\ link[s] = "up" /\ faults < MaxFaults
    /\ faults' = faults + 1 /\ link' = [link EXCEPT ![s] = "down"]
    /\ UNCHANGED <<requests, open, process, events, shown, calls, told, cause,
                   unheard, misled>>

GiveUp(s) ==
    /\ link[s] = "down"
    /\ link' = [link EXCEPT ![s] = "gone"]
    /\ UNCHANGED <<requests, open, process, events, shown, calls, faults, told,
                   cause, unheard, misled>>

\* The numbers of rs in the order in which the requests were made.
InOrder(rs) ==
    {es \in [1..Cardinality(rs) -> rs] :
        /\ \A i, j \in DOMAIN es : i < j => es[i] < es[j]
        /\ \A r \in rs : \E i \in DOMAIN es : es[i] = r}

\* A server may repeat its open requests on a new connection, or stay silent.
Reconnect(s) ==
    LET waiting == {r \in open : Server(r) = s} IN
    /\ link[s] # "up"
    /\ link' = [link EXCEPT ![s] = "up"]
    /\ \/ UNCHANGED <<events, cause, unheard, told>>
       \/ /\ waiting # {}
          /\ \E order \in InOrder(waiting) : Emit([i \in DOMAIN order |-> Asked(order[i])])
          /\ told' = told \cup waiting
    /\ UNCHANGED <<requests, open, process, shown, calls, faults, misled>>

-----------------------------------------------------------------------------
(* The lists in the store.                                                  *)

Alike(r, rs) == {x \in rs : Id(x) = Id(r)}
AlikeOfKind(r, rs) == {x \in Alike(r, rs) : Kind(x) = Kind(r)}

\* Mutant: approvals are told apart by server and id, lookups by the id alone.
RivalsOfServer(r) == {x \in AlikeOfKind(r, shown) \ {r} : Server(x) = Server(r)}

\* The entries an asked request meets in its list, and those a resolved one ends.
Rivals(r) == AlikeOfKind(r, shown) \ {r}

\* Mutant: a resolved request leaves the list of approvals only.
ApprovalsEndedBy(r) == {x \in Alike(r, shown) : Kind(x) = "approval"}

EndedBy(r) == Alike(r, shown)

\* An approval is left out when one with its id is listed, whoever's it is; a
\* question takes the place of one with its id; a resolved id leaves both lists.
Listen ==
    LET e == Head(events)
        r == e.request
    IN
    /\ events # <<>> /\ events' = Tail(events)
    /\ \/ /\ e.what = "asked" /\ Kind(r) = "approval" /\ Rivals(r) # {}
          /\ cause' = Blame(cause, {r}, "collided") /\ UNCHANGED shown
       \/ /\ e.what = "asked" /\ (Kind(r) = "input" \/ Rivals(r) = {})
          /\ shown' = (shown \ Rivals(r)) \cup {r}
          /\ cause' = Blame(Blame(cause, Rivals(r), "collided"), {r}, "none")
       \/ /\ e.what = "resolved"
          /\ shown' = shown \ EndedBy(r)
          /\ cause' = Blame(cause, EndedBy(r) \ {r}, "collided")
    /\ UNCHANGED <<requests, open, process, link, calls, faults, told, unheard, misled>>

\* The thread of an approval is looked for without its server, so another
\* server's approval goes along when its thread has the same id.
Listed(s) == {r \in shown : Server(r) = s \/ Kind(r) = "approval"}

\* Entries of threads that left the snapshot: removed, or not in the thread list
\* that was just fetched.
Sweep(s) ==
    \E rs \in SUBSET Listed(s) :
        /\ rs # {}
        /\ shown' = shown \ rs /\ cause' = Blame(cause, rs, "swept")
        /\ UNCHANGED <<requests, open, process, link, events, calls, faults, told,
                       unheard, misled>>

\* disconnect_server and remove_server: questions go, and the approvals of the
\* threads the snapshot has.
Forget(s) ==
    \E rs \in SUBSET Listed(s) :
        /\ {r \in shown : Server(r) = s /\ Kind(r) = "input"} \subseteq rs
        /\ link' = [link EXCEPT ![s] = "gone"]
        /\ shown' = shown \ rs /\ cause' = Blame(cause, rs, "swept")
        /\ UNCHANGED <<requests, open, process, events, calls, faults, told, unheard,
                       misled>>

-----------------------------------------------------------------------------
(* The user's answers.                                                      *)

\* The user answers an entry that is shown; the call carries its id alone.
Tap(u, r) ==
    /\ calls[u] = NoCall /\ r \in shown
    /\ calls' = [calls EXCEPT ![u] = [NoCall EXCEPT !.at = "look", !.tapped = r]]
    /\ UNCHANGED <<requests, open, process, link, events, shown, faults, told, cause,
                   unheard, misled>>

\* pending_approval and pending_user_input find an entry by the id, in the list as it
\* is by now; get_session refuses when the entry's server has no session.
LookUp(u) ==
    LET found == {x \in AlikeOfKind(calls[u].tapped, shown) : link[Server(x)] # "gone"} IN
    /\ calls[u].at = "look"
    /\ \/ \E x \in found :
             calls' = [calls EXCEPT ![u] =
                 [at |-> "send", tapped |-> calls[u].tapped, request |-> x,
                  left |-> calls[u].tapped \notin shown]]
       \/ found = {} /\ calls' = [calls EXCEPT ![u] = NoCall]
    /\ UNCHANGED <<requests, open, process, link, events, shown, faults, told, cause,
                   unheard, misled>>

\* What the server's current process waits for under the id of r.
Target(r) ==
    {x \in open : Server(x) = Server(r) /\ Id(x) = Id(r)
                  /\ requests[x].process = process[Server(x)]}

\* The answer arrives; a server that waits for no such id ignores it.
Deliver(u) ==
    LET r == calls[u].request IN
    /\ calls[u].at = "send" /\ link[Server(r)] = "up"
    /\ open' = open \ Target(r)
    /\ misled' = misled \cup {[tapped |-> calls[u].tapped, found |-> r, answered |-> x,
                              left |-> calls[u].left] : x \in Target(r) \ {calls[u].tapped}}
    /\ IF Target(r) = {} THEN UNCHANGED <<events, cause, unheard>>
       ELSE EmitEnding(<<Resolved(CHOOSE x \in Target(r) : TRUE)>>, Target(r))
    /\ calls' = [calls EXCEPT ![u].at = "settle"]
    /\ UNCHANGED <<requests, process, link, shown, faults, told>>

\* The answer is written to a connection that breaks before the server reads it.
Vanish(u) ==
    LET s == Server(calls[u].request) IN
    /\ calls[u].at = "send" /\ link[s] = "up" /\ faults < MaxFaults
    /\ faults' = faults + 1 /\ link' = [link EXCEPT ![s] = "down"]
    /\ calls' = [calls EXCEPT ![u].at = "settle"]
    /\ UNCHANGED <<requests, open, process, events, shown, told, cause, unheard, misled>>

\* The worker reports that it could not send, or has ended: the entry stays.
SendFails(u) ==
    LET s == Server(calls[u].request) IN
    /\ calls[u].at = "send"
    /\ \/ link[s] = "gone" /\ UNCHANGED <<link, faults>>
       \/ /\ link[s] = "up" /\ faults < MaxFaults
          /\ faults' = faults + 1 /\ link' = [link EXCEPT ![s] = "down"]
    /\ calls' = [calls EXCEPT ![u] = NoCall]
    /\ UNCHANGED <<requests, open, process, events, shown, told, cause, unheard, misled>>

\* Once sent, every entry of the list that has the id is removed.
Settle(u) ==
    LET r == calls[u].request
        gone == AlikeOfKind(r, shown)
    IN
    /\ calls[u].at = "settle"
    /\ shown' = shown \ gone
    /\ cause' = Blame(Blame(cause, gone \ {r}, "collided"), gone \cap {r}, "unsent")
    /\ calls' = [calls EXCEPT ![u] = NoCall]
    /\ UNCHANGED <<requests, open, process, link, events, faults, told, unheard, misled>>

Next ==
    \/ \E s \in Servers, k \in Kinds : Ask(s, k)
    \/ \E r \in Serials : Withdraw(r)
    \/ \E s \in Servers : Restart(s) \/ Drop(s) \/ GiveUp(s) \/ Reconnect(s)
    \/ \E s \in Servers : Sweep(s) \/ Forget(s)
    \/ Listen
    \/ \E u \in Users, r \in Serials : Tap(u, r)
    \/ \E u \in Users : LookUp(u) \/ Deliver(u) \/ Vanish(u) \/ SendFails(u) \/ Settle(u)

Spec == Init /\ [][Next]_vars

-----------------------------------------------------------------------------
(* Properties.                                                              *)

Calls ==
    {NoCall} \cup [at : {"look"}, tapped : told, request : {0}, left : {FALSE}]
             \cup [at : {"send", "settle"}, tapped : told, request : told, left : BOOLEAN]

TypeOK ==
    /\ requests \in Seq([server : Servers, process : 0..MaxFaults, id : Nat, kind : Kinds])
    /\ Len(requests) <= MaxRequests
    /\ open \subseteq Made /\ told \subseteq Made /\ shown \subseteq told
    /\ process \in [Servers -> 0..MaxFaults]
    /\ link \in [Servers -> {"up", "down", "gone"}]
    /\ events \in Seq([what : {"asked", "resolved"}, request : Made])
    /\ Len(events) <= QueueSize
    /\ calls \in [Users -> Calls]
    /\ cause \in [Serials -> Causes] /\ unheard \subseteq Made \ open
    /\ misled \subseteq [tapped : told, found : told, answered : Made, left : BOOLEAN]
    /\ faults \in 0..MaxFaults

\* Nothing is on its way to the lists.
Quiet == events = <<>>

\* At rest the lists and the servers agree.  A request the client was told of and
\* the server waits for is listed, unless its id collided with another's, its
\* thread was swept from the snapshot, an event of it was overwritten, or its
\* answer vanished on the way.  An entry stands for a request the server waits
\* for, unless the client was not connected when it ended or missed the event.
ListsAreTrue ==
    Quiet =>
        /\ \A r \in open \cap told : r \in shown \/ cause[r] # "none"
        /\ shown \ open \subseteq unheard

\* An answer reaches another request than the one tapped for two reasons only.
\* While the tapped one is in the list its id finds no other; once it has left,
\* another server's entry may have come in its place.  And the id of the entry found
\* means another request only after the process of its server was started again.
AnswerReachesAsker ==
    \A m \in misled :
        /\ m.found = m.tapped \/ m.left
        /\ m.answered = m.found
             \/ /\ Server(m.answered) = Server(m.found)
                /\ requests[m.found].process < requests[m.answered].process

\* process_server_request "emits UiEvent::ApprovalRequested so the platform UI can
\* present it": at rest no request is left out of the lists on account of another.
AskedIsShown ==
    Quiet => \A r \in open \cap told : r \in shown \/ cause[r] # "collided"
=============================================================================
