------------------------------- MODULE MCHost -------------------------------
(***************************************************************************)
(* TLC instance of the parts of vssh that meet in files and maps of one    *)
(* machine: the daemon's audit log (AuditChain), the dialing of a client   *)
(* (Dialing), the fleet memory (FleetMemory), the records of tunnels       *)
(* (TunnelRecords), the key files (KeyFile) and the agent (Agent).  They   *)
(* share no state: a behaviour is about one of them, and the others stay   *)
(* as they began.                                                          *)
(***************************************************************************)
EXTENDS AuditChain, Dialing, FleetMemory, TunnelRecords, KeyFile, Agent, TLC

CONSTANTS alpha, beta, me,    \* nodes; the name beta contains the name alpha
          there, elsewhere, local, ours   \* addresses: two elsewhere, two of this machine

VARIABLE part  \* "audit", "dial", "memory", "tunnels", "keys" or "agent"

MCWithin == {<<alpha, beta>>}

Peer(n, v, l) == [name |-> n, vpn |-> v, lan |-> l]
Empty == [tailscale |-> {}, daemon |-> {}, coordinators |-> {}, cache |-> {}, config |-> {}]

\* Tailscale alone; Tailscale with statistics that lack one of the names;
\* coordinators; a cache, with a configuration in which an address of this
\* machine is still that of another node; that configuration alone; nothing.
MCWorlds == {
  Empty,
  [Empty EXCEPT !.tailscale = {Peer(alpha, there, NoAddress), Peer(beta, elsewhere, NoAddress)}],
  [Empty EXCEPT !.tailscale = {Peer(alpha, there, NoAddress), Peer(beta, elsewhere, NoAddress)},
                !.daemon = {Peer(alpha, there, there)}],
  [Empty EXCEPT !.coordinators = {Peer(alpha, there, elsewhere), Peer(beta, elsewhere, NoAddress)}],
  [Empty EXCEPT !.cache = {Peer(alpha, there, NoAddress)},
                !.config = {Peer(alpha, there, elsewhere), Peer(beta, ours, NoAddress)}],
  [Empty EXCEPT !.config = {Peer(alpha, there, elsewhere), Peer(beta, ours, NoAddress)}]}

Symmetry == Permutations(Calls)

AllTypeOK == TypeOK /\ DialTypeOK /\ MemoryTypeOK /\ TunnelTypeOK /\ KeyTypeOK /\ AgentTypeOK

MCInit ==
  /\ part \in {"audit", "dial", "memory", "tunnels", "keys", "agent"}
  /\ Init /\ DialInit /\ MemoryInit /\ TunnelInit /\ KeyInit /\ AgentInit
  /\ part # "dial" => /\ src = Empty /\ registry = {} /\ ~persistent
                      /\ owner[there] = Nobody /\ owner[elsewhere] = Nobody
  /\ part # "keys" => which = "authorized_keys" /\ entries = <<>>
  /\ part # "agent" => \A n \in Watched : paths[n] = {"tailscale"}

MCNext ==
  /\ UNCHANGED part
  /\ part # "audit" => UNCHANGED vars
  /\ part # "dial" => UNCHANGED dialVars
  /\ part # "memory" => UNCHANGED memoryVars
  /\ part # "tunnels" => UNCHANGED tunnelVars
  /\ part # "keys" => UNCHANGED keyVars
  /\ part # "agent" => UNCHANGED agentVars
  /\ \/ part = "audit" /\ Next
     \/ part = "dial" /\ DialNext
     \/ part = "memory" /\ MemoryNext
     \/ part = "tunnels" /\ TunnelNext
     \/ part = "keys" /\ KeyNext
     \/ part = "agent" /\ AgentNext

MCSpec == MCInit /\ [][MCNext]_<<part, vars, dialVars, memoryVars, tunnelVars, keyVars, agentVars>>
=============================================================================
