---------------------------- MODULE ReconnectPlan ----------------------------
(***************************************************************************)
(* How a saved server is reached again: the decision tree of               *)
(* compute_reconnect_plan_with_slingshot and its helpers (reconnect.rs).   *)
(* The state is the saved record; the invariant is a statement about every *)
(* record, credential and flag.  Option fields that are None are 0, "none" *)
(* or FALSE.  Strings appear as the prefixes the code looks for.           *)
(***************************************************************************)
EXTENDS Naturals, Sequences, SequencesExt

CONSTANTS
    Ports,   \* port numbers of the instance
    MaxPorts \* bound on the ports a record lists

ASSUME PortsAssumption == Ports \subseteq Nat \ {0} /\ MaxPorts \in Nat

Records ==
    [bridge : BOOLEAN,         \* id or agent wire says ssh-bridge
     paired : BOOLEAN,         \* node id, token and agent name of a pairing
     source : {"local", "ssh", "manual"},
     port : Ports \cup {0},
     codexPorts : UNION {[1..n -> Ports \cup {0}] : n \in 0..MaxPorts},
     sshPort : Ports \cup {0}, hasCodex : BOOLEAN,
     mode : {"none", "ssh", "directCodex", "other"}, forwarding : BOOLEAN,
     preferredPort : Ports \cup {0},
     url : {"none", "slingshot", "slingshot malformed", "ssh-bridge", "websocket"}]

VARIABLE server

Plan(kind, port) == [kind |-> kind, port |-> port]
NoPlan == Plan("none", 0)

\* resolved_preferred_connection_mode
Mode(s) == IF s.mode = "none" /\ s.forwarding THEN "ssh" ELSE s.mode

\* resolved_ssh_port
SshPort(s) ==
    IF s.sshPort # 0 THEN s.sshPort
    ELSE IF ~s.hasCodex /\ s.port # 0 THEN s.port ELSE 22

\* The ports of q in their order, each once; 0 is none.
OnceEach(q) ==
    LET once[i \in 0..Len(q)] ==
            IF i = 0 THEN <<>>
            ELSE IF q[i] = 0 \/ Contains(once[i - 1], q[i]) THEN once[i - 1]
            ELSE Append(once[i - 1], q[i])
    IN  once[Len(q)]

\* available_direct_codex_ports: the server's port first
DirectPorts(s) == OnceEach((IF s.hasCodex THEN <<s.port>> ELSE <<>>) \o s.codexPorts)

CanSsh(s) ==
    /\ s.url = "none"
    /\ s.sshPort # 0 \/ s.source = "ssh" \/ ~s.hasCodex \/ s.mode = "ssh" \/ s.forwarding

\* Mutant: several ports alone call for a choice.
NeedsChoiceOfPort(s) ==
    s.url = "none" /\ Mode(s) = "none" /\ Len(DirectPorts(s)) > 1

\* requires_connection_choice
NeedsChoice(s) ==
    /\ s.url = "none" /\ Mode(s) = "none"
    /\ Len(DirectPorts(s)) > 1 \/ (DirectPorts(s) # <<>> /\ CanSsh(s))

\* direct_codex_port; a preferred port that is not available is passed over
DirectPort(s) ==
    IF s.url # "none" \/ Mode(s) = "ssh" THEN 0
    ELSE IF Mode(s) = "directCodex" /\ Contains(DirectPorts(s), s.preferredPort)
         THEN s.preferredPort
    ELSE IF NeedsChoice(s) \/ DirectPorts(s) = <<>> THEN 0
    ELSE Head(DirectPorts(s))

IsBridge(s) == s.bridge \/ s.url = "ssh-bridge"

\* The branches in the order in which the code tries them; where the credential
\* of a branch is missing there is no plan.
Branches(s, ssh, slingshot, connected, multi) == LET
    Needs(credential, plan) == IF credential THEN plan ELSE NoPlan
    Branch(holds, plan) == [holds |-> holds, plan |-> plan] IN
    << Branch(connected, NoPlan),
       Branch(multi /\ s.paired, Plan("alleycat", 0)),
       Branch(multi /\ IsBridge(s), Needs(ssh, Plan("ssh-bridge", SshPort(s)))),
       Branch(s.url = "slingshot", Needs(slingshot, Plan("slingshot", 0))),
       Branch(s.url = "slingshot malformed", NoPlan),
       Branch(s.url # "none", Plan("url", 0)),
       Branch(Mode(s) = "ssh", Needs(ssh, Plan("ssh", SshPort(s)))),
       Branch(DirectPort(s) # 0, Plan("direct", DirectPort(s))),
       Branch(Mode(s) = "none" /\ ssh, Plan("ssh", SshPort(s))),
       Branch(s.source = "local", Plan("local", 0)) >>

\* compute_reconnect_plan_with_slingshot: the first branch that holds decides.
PlanFor(s, ssh, slingshot, connected, multi) ==
    LET branches == Branches(s, ssh, slingshot, connected, multi)
        held     == {i \in DOMAIN branches : branches[i].holds}
    IN IF held = {} THEN NoPlan ELSE branches[Min(held)].plan

-----------------------------------------------------------------------------
(* Any order of these branches works for most records; what the user chose    *)
(* must survive all of them.  A stored SSH credential only adds: it changes no *)
(* plan but one for nothing and one for the local server.  A port is dialled   *)
(* directly only if the user asked for direct connections (a mode the code    *)
(* does not know passes for that), or it is the one port there is and SSH      *)
(* cannot reach the server; never if SSH is preferred.                         *)
(* A URL that is a marker is not dialled, but for a bridge with the flag off.  *)
PlanKeepsChoice ==
    \A slingshot, connected, multi \in BOOLEAN :
        LET bare   == PlanFor(server, FALSE, slingshot, connected, multi)
            stored == PlanFor(server, TRUE, slingshot, connected, multi)
            known(p) == Contains(server.codexPorts, p) \/ p = server.port
        IN /\ bare = stored \/ (/\ bare.kind \in {"none", "local"}
                                /\ stored.kind \in {"ssh", "ssh-bridge"})
           /\ bare.kind = "direct" =>
                server.url = "none" /\ server.mode # "ssh" /\ known(bare.port)
           /\ bare.kind = "direct" /\ server.mode = "none" =>
                /\ ~server.forwarding
                /\ server.hasCodex /\ server.sshPort = 0 /\ server.source # "ssh"
                /\ \A p \in Ports : known(p) => p = bare.port
           /\ bare.kind = "url" =>
                server.url = "websocket" \/ (server.url = "ssh-bridge" /\ ~multi)
=============================================================================
