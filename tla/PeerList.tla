------------------------------ MODULE PeerList ------------------------------
(***************************************************************************)
(* How a client turns the name of a node into addresses to dial: the peer  *)
(* list that loadPeers builds anew for every Connector out of Tailscale,   *)
(* statistics and the local configuration (internal/ssh/peers.go), and the *)
(* candidates CandidateHosts takes from it (resolve.go).                   *)
(*                                                                         *)
(* The sources are Go maps, and they are walked in any order: an operator  *)
(* here gives the set of the results a walk may have.  Names that are only *)
(* spelled differently are one name.  The public address is treated like   *)
(* the LAN address, which stands for both.                                 *)
(***************************************************************************)
EXTENDS Naturals, Sequences, FiniteSets, SequencesExt, Selection

CONSTANTS Nodes,      \* the names of the nodes
          Within,     \* <<m, n>>: the name m is a proper part of the name n
          Self,       \* the name of this machine
          Addresses,  \* the addresses in use
          Loopback,
          OwnAddresses, \* addresses of this machine, other than the loopback
          NoAddress

ASSUME PeerAssumption ==
  /\ Within \subseteq Nodes \X Nodes
  /\ Self \in Nodes /\ Loopback \in Addresses /\ OwnAddresses \subseteq Addresses
  /\ NoAddress \notin Addresses /\ Nodes \cap Addresses = {} \* a name is no address

Peers == [name : Nodes, vpn : Addresses \cup {NoAddress}, lan : Addresses \cup {NoAddress}]

\* What the sources hold: Tailscale's status, then the statistics of the mesh
\* daemon, of its coordinators, of the cache of their last answer, and the
\* file servers.json, with one entry for a name.
Lists   == {l \in SUBSET Peers : IsFiniteSet(l)}
Sources == [tailscale : Lists, daemon : Lists, coordinators : Lists, cache : Lists, config : Lists]

FirstOf(sources) == IF \E i \in DOMAIN sources : sources[i] # {}
                      THEN sources[SelectInSeq(sources, LAMBDA s : s # {})] ELSE {}

Statistics(src) == FirstOf(<<src.daemon, src.coordinators, src.cache>>)

\* Names longer than three characters that contain one another match.
Similar(m, n) == <<m, n>> \in Within \/ <<n, m>> \in Within

Filled(p, s) == [p EXCEPT !.vpn = IF @ = NoAddress THEN s.vpn ELSE @,
                          !.lan = IF @ = NoAddress THEN s.lan ELSE @]

\* mergeStats for one peer of Tailscale: the entry of its own name or, for
\* want of one, any similar entry, whose name it takes if that is shorter.
MergeStats(p, stats) ==
  LET own  == {s \in stats : s.name = p.name}
      like == {s \in stats : Similar(s.name, p.name)}
      Overlaid(s) == [p EXCEPT !.lan = Filled(p, s).lan,
                               !.name = IF <<s.name, @>> \in Within THEN s.name ELSE @] IN
  IF own # {} THEN {Overlaid(s) : s \in own}
  ELSE IF like # {} THEN {Overlaid(s) : s \in like}
  ELSE {p}

\* enrichPeersFromConfig for one peer: it is renamed to the configured owner
\* of its address, and what it lacks comes from the entry of its name.
Enrich(p, config) ==
  LET owners  == {c.name : c \in {c \in config : c.vpn = p.vpn /\ c.vpn # NoAddress}}
      aliases == IF owners = {} THEN {p.name} ELSE owners
      Named(n) == [p EXCEPT !.name = n]
      entries(n) == {c \in config : c.name = n} IN
  UNION {IF entries(n) = {} THEN {Named(n)} ELSE {Filled(Named(n), c) : c \in entries(n)} : n \in aliases}

\* This machine is not among the peers of Tailscale.
PeersFromTailscale(src) == {p \in src.tailscale : p.name # Self}

\* loadPeers: Tailscale with statistics, or statistics, or the configuration.
LoadPeers(src) ==
  LET found == FirstOf(<<PeersFromTailscale(src), Statistics(src), src.config>>)
      Merged(p) == IF p \in src.tailscale THEN MergeStats(p, Statistics(src)) ELSE {p}
      Results(p) == UNION {Enrich(q, src.config) : q \in Merged(p)}
      choices == {f \in [found -> UNION {Results(p) : p \in found}] : \A p \in found : f[p] \in Results(p)} IN
  {[i \in DOMAIN order |-> f[order[i]]] : order \in SetToSeqs(found), f \in choices}

\* findPeer: the first peer whose name is or contains the target, or whose
\* address it is; 0 if there is none.
FindPeer(peers, target) ==
  SelectInSeq(peers, LAMBDA p : p.name = target \/ <<target, p.name>> \in Within \/ p.vpn = target)

\* tailscaleIPForHost: the address Tailscale has for a name.
TailscaleIP(src, name) ==
  LET known == {p \in src.tailscale : p.name = name} IN
  IF known = {} THEN NoAddress ELSE (CHOOSE p \in known : TRUE).vpn

\* getEndpoints: that address for the peer's name, then the peer's own; the loop
\* of CandidateHosts takes each of them once.
Endpoints(src, peer) ==
  LET all   == <<TailscaleIP(src, peer.name), peer.vpn, peer.lan>>
      new   == {i \in 1..3 : all[i] # NoAddress /\ \A j \in 1..i - 1 : all[j] # all[i]}
      order == Selected(<<1, 2, 3>>, new) IN
  [n \in DOMAIN order |-> all[order[n]]]

\* isSelfTarget.
IsSelfTarget(target) == target = Self

\* CandidateHosts: for this machine the loopback, for a peer its endpoints
\* without the addresses of this machine; none if the name is not known.
CandidateHosts(src, peers, target) ==
  LET i    == FindPeer(peers, target)
      ends == Endpoints(src, peers[i])
      away == Selected(ends, Addresses \ OwnAddresses) IN
  IF IsSelfTarget(target) THEN <<Loopback>>
  ELSE IF i = 0 THEN <<>>
  ELSE IF away = <<>> /\ ends # <<>> THEN <<Loopback>>
  ELSE away
=============================================================================
