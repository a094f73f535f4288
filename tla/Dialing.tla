------------------------------- MODULE Dialing -------------------------------
(***************************************************************************)
(* From the name of a node to a command that runs on some daemon: one      *)
(* client process (a CLI, a fan-out of runMany, or `vssh mcp`) that        *)
(* resolves names (resolveReachableHost, execNativeCapture of cmd/vssh),   *)
(* expects a key at an address (SetExpectedHostKey), dials and verifies it *)
(* (dialAuth of internal/server/transfer.go, ClientTLSConfig and the pins  *)
(* of tlsident.go), reuses sessions (clientSessionCache, mux_pool.go) and  *)
(* runs the command.                                                       *)
(*                                                                         *)
(* Calls are goroutines and meet in process-wide maps keyed by the address *)
(* and in the file known_hosts.  A daemon is the node it runs on, and so   *)
(* is its key.  An address answers for some daemon, and may move on.       *)
(***************************************************************************)
EXTENDS PeerList

CONSTANTS Calls,      \* the commands, one goroutine each
          Nobody,
          Worlds,     \* what the sources of the peer list may hold
          MaxMoves,   \* bound: addresses that move
          MaxFailures \* bound: TLS handshakes and probes that time out

ASSUME DialAssumption ==
  /\ Worlds \subseteq Sources /\ Nobody \notin Nodes
  /\ MaxMoves \in Nat /\ MaxFailures \in Nat

\* A name that is no peer's is dialed as it is.
Hosts   == Addresses \cup Nodes
Daemons == Nodes \cup {Nobody}

VARIABLES
  src,        \* the sources of the peer list
  registry,   \* the nodes in node_keys
  owner,      \* the daemon that answers at a host
  persistent, \* persistentExec: calls share a MUX session per host
  expected,   \* expectedHostKey
  known,      \* the lines of known_hosts
  tickets,    \* clientSessionCache
  pool,       \* muxPool: the daemon a session of the host leads to, with or without TLS
  call,       \* where each call is
  asked,      \* history: the targets that were resolved to a host
  moves, failures

dialVars == <<src, registry, owner, persistent, expected, known, tickets, pool, call, asked, moves, failures>>
fixed    == <<src, registry, persistent>>
shared   == <<expected, known, tickets, pool, asked>>
faulty   == <<owner, moves, failures>>

NoSession == [daemon |-> Nobody, plain |-> FALSE]

NoCall == [at |-> "idle", target |-> Nobody, hosts |-> <<>>, probes |-> <<>>, host |-> Nobody,
           pinned |-> Nobody, daemon |-> Nobody, plain |-> FALSE]

DialTypeOK ==
  /\ src \in Worlds /\ registry \subseteq Nodes /\ persistent \in BOOLEAN
  /\ {owner, expected, tickets} \subseteq [Hosts -> Daemons]
  /\ pool \in [Hosts -> [daemon : Daemons, plain : BOOLEAN]]
  /\ known \in Seq([host : Hosts, key : Nodes])
  /\ call \in [Calls -> [at : {"idle", "probe", "dial", "handshake", "record", "append",
                               "authenticate", "run", "done", "error"},
                         target : Daemons, hosts : Seq(Hosts), probes : Seq({"pending", "up", "down"}),
                         host : Hosts \cup {Nobody}, pinned : Daemons, daemon : Daemons, plain : BOOLEAN]]
  /\ asked \in [Hosts -> SUBSET Nodes]
  /\ moves \in 0..MaxMoves /\ failures \in 0..MaxFailures

\* Tailscale and DNS are right at first, the other sources may be stale.
DialInit ==
  /\ src \in Worlds
  /\ registry \in SUBSET (Nodes \ {Self})
  /\ persistent \in BOOLEAN
  /\ owner \in {o \in [Hosts -> Daemons] :
       /\ \A n \in Nodes : o[n] = n
       /\ \A a \in Addresses : o[a] = Self <=> a \in OwnAddresses \cup {Loopback}
       /\ \A p \in src.tailscale : o[p.vpn] = p.name}
  /\ expected = [h \in Hosts |-> Nobody]
  /\ known = <<>>
  /\ tickets = [h \in Hosts |-> Nobody]
  /\ pool = [h \in Hosts |-> NoSession]
  /\ call = [c \in Calls |-> NoCall]
  /\ asked = [h \in Hosts |-> {}]
  /\ moves = 0 /\ failures = 0

----------------------------------------------------------------------------
(* Resolution.                                                             *)

Goes(c, label) == call' = [call EXCEPT ![c].at = label]
Fails(c)       == call' = [call EXCEPT ![c] = [NoCall EXCEPT !.at = "error"]]

\* NodeKey of a target.
NodeKey(t) == IF t \in registry THEN t ELSE Nobody

\* Mutant: the first candidate is expected, whichever is dialed.
Expect_First(c, t, hosts, h) ==
  /\ expected' = [expected EXCEPT ![hosts[1]] = NodeKey(t)]
  /\ asked' = [asked EXCEPT ![h] = @ \cup {t}]
  /\ call' = [call EXCEPT ![c] = [NoCall EXCEPT !.at = "dial", !.target = t, !.host = h]]
  /\ UNCHANGED <<known, tickets, pool>>

\* SetExpectedHostKey: the key of the target is expected at the host, or, for
\* a target without one, no key any more.
Expect(c, t, hosts, h) ==
  /\ expected' = [expected EXCEPT ![h] = NodeKey(t)]
  /\ asked' = [asked EXCEPT ![h] = @ \cup {t}]
  /\ call' = [call EXCEPT ![c] = [NoCall EXCEPT !.at = "dial", !.target = t, !.host = h]]
  /\ UNCHANGED <<known, tickets, pool>>

\* A Connector loads the peers and names the candidates.  A lone candidate is
\* taken, and vssh_exec takes the first; else all of them are probed.  For an
\* unknown name nothing is expected.
Resolve(c, t) ==
  /\ call[c].at = "idle"
  /\ \E peers \in LoadPeers(src) :
       LET hosts == CandidateHosts(src, peers, t) IN
       \/ /\ hosts = <<>>
          /\ call' = [call EXCEPT ![c].at = "dial", ![c].target = t, ![c].host = t]
          /\ UNCHANGED shared
       \/ hosts # <<>> /\ Expect(c, t, hosts, hosts[1])
       \/ /\ Len(hosts) > 1
          /\ call' = [call EXCEPT ![c].at = "probe", ![c].target = t, ![c].hosts = hosts,
                                  ![c].probes = [i \in DOMAIN hosts |-> "pending"]]
          /\ UNCHANGED shared
  /\ UNCHANGED <<fixed, faulty>>

\* A probe comes back, and pickReachable decides as soon as it can: for a
\* host that is up when all before it are down, or the first when all are.
Probe(c, i, state) ==
  LET probes == [call[c].probes EXCEPT ![i] = state]
      k == SelectInSeq(probes, LAMBDA s : s # "down") IN
  /\ call[c].at = "probe"
  /\ call[c].probes[i] = "pending"
  /\ IF k # 0 /\ probes[k] = "pending"
       THEN call' = [call EXCEPT ![c].probes = probes] /\ UNCHANGED shared
       ELSE Expect(c, call[c].target, call[c].hosts, call[c].hosts[IF k = 0 THEN 1 ELSE k])
  /\ UNCHANGED fixed

ProbeReturns(c) ==
  /\ \E i \in DOMAIN call[c].probes :
       Probe(c, i, IF owner[call[c].hosts[i]] = Nobody THEN "down" ELSE "up")
  /\ UNCHANGED faulty

ProbeTimesOut(c) ==
  /\ failures < MaxFailures
  /\ failures' = failures + 1
  /\ \E i \in DOMAIN call[c].probes : Probe(c, i, "down")
  /\ UNCHANGED <<owner, moves>>

----------------------------------------------------------------------------
(* Dialing.                                                                *)

\* The first line of the host.
KnownHostPub(h) ==
  LET i == SelectInSeq(known, LAMBDA l : l.host = h) IN IF i = 0 THEN Nobody ELSE known[i].key

Dialing(c) == call[c].at \in {"handshake", "record", "append", "authenticate"}

\* A MUX session of the host is used as it is, its mutex held while it is
\* established; else a connection is opened, and the pin looked up.
Dial(c) ==
  LET h == call[c].host IN
  /\ call[c].at = "dial"
  /\ persistent => \A d \in Calls : Dialing(d) => call[d].host # h
  /\ IF persistent /\ pool[h] # NoSession
       THEN call' = [call EXCEPT ![c].at = "run", ![c].daemon = pool[h].daemon, ![c].plain = pool[h].plain]
     ELSE IF owner[h] = Nobody THEN Fails(c)
     ELSE call' = [call EXCEPT ![c].at = "handshake", ![c].daemon = owner[h],
                               ![c].pinned = KnownHostPub(h)]
  /\ UNCHANGED <<fixed, shared, faulty>>

\* A resumed session shows no certificate and is not checked.
HandshakeResumed(c) ==
  /\ call[c].at = "handshake"
  /\ tickets[call[c].host] = call[c].daemon
  /\ Goes(c, "authenticate")
  /\ UNCHANGED <<fixed, shared, faulty>>

\* A full handshake: the pin, if there is one, then the key expected by now.
Handshake(c) ==
  LET r == call[c] IN
  /\ r.at = "handshake"
  /\ IF r.pinned \notin {Nobody, r.daemon} \/ expected[r.host] \notin {Nobody, r.daemon}
       THEN Fails(c)
       ELSE Goes(c, IF r.pinned = Nobody THEN "record" ELSE "authenticate")
  /\ UNCHANGED <<fixed, shared, faulty>>

\* The handshake fails otherwise: that is an error under VSSH_REQUIRE_TLS, or
\* the call goes on without TLS on a connection of its own.
HandshakeFails(c) ==
  /\ call[c].at = "handshake"
  /\ failures < MaxFailures
  /\ failures' = failures + 1
  /\ LET daemon == owner[call[c].host] IN
     \/ Fails(c)
     \/ daemon # Nobody /\ call' = [call EXCEPT ![c].at = "authenticate", ![c].daemon = daemon,
                                               ![c].plain = TRUE]
  /\ UNCHANGED <<fixed, shared, owner, moves>>

\* RecordKnownHost looks again ...
RecordPin(c) ==
  /\ call[c].at = "record"
  /\ Goes(c, IF KnownHostPub(call[c].host) = Nobody THEN "append" ELSE "authenticate")
  /\ UNCHANGED <<fixed, shared, faulty>>

\* ... and appends its line, behind whatever is there by now.
AppendPin(c) ==
  /\ call[c].at = "append"
  /\ known' = Append(known, [host |-> call[c].host, key |-> call[c].daemon])
  /\ Goes(c, "authenticate")
  /\ UNCHANGED <<fixed, expected, tickets, pool, asked, faulty>>

\* vauth1: while its answers are read a TLS session leaves its ticket.
Authenticate(c) ==
  LET r == call[c] IN
  /\ r.at = "authenticate"
  /\ tickets' = IF r.plain THEN tickets ELSE [tickets EXCEPT ![r.host] = r.daemon]
  /\ \/ /\ Goes(c, "run")
        /\ pool' = IF persistent THEN [pool EXCEPT ![r.host] = [daemon |-> r.daemon, plain |-> r.plain]] ELSE pool
     \/ Fails(c) /\ UNCHANGED pool
  /\ UNCHANGED <<fixed, expected, known, asked, faulty>>

\* The daemon runs the command and answers.
RunCommand(c) ==
  /\ call[c].at = "run"
  /\ Goes(c, "done")
  /\ UNCHANGED <<fixed, shared, faulty>>

\* An address moves to another daemon, or to none; the sessions it had break.
Move ==
  /\ moves < MaxMoves
  /\ moves' = moves + 1
  /\ \E a \in Addresses \ (OwnAddresses \cup {Loopback}), d \in Daemons :
       /\ d # owner[a]
       /\ owner' = [owner EXCEPT ![a] = d]
       /\ pool' = [pool EXCEPT ![a] = NoSession]
  /\ UNCHANGED <<fixed, expected, known, tickets, call, asked, failures>>

DialNext ==
  \/ \E c \in Calls : \/ \E t \in Nodes : Resolve(c, t)
                      \/ ProbeReturns(c) \/ ProbeTimesOut(c) \/ Dial(c)
                      \/ HandshakeResumed(c) \/ Handshake(c) \/ HandshakeFails(c)
                      \/ RecordPin(c) \/ AppendPin(c) \/ Authenticate(c) \/ RunCommand(c)
  \/ Move

DialSpec == DialInit /\ [][DialNext]_dialVars

----------------------------------------------------------------------------
\* The calls that ran their command over TLS at the address of a peer, for a
\* target whose key is registered.
Verifiable(c) ==
  call[c].at = "done" /\ ~call[c].plain /\ call[c].target \in registry /\ call[c].host \in Addresses

\* Whatever address a name is resolved to, stale, taken over or another
\* node's, its command runs on the named node or not at all, also over a
\* resumed or pooled session, as long as no other name was resolved to that
\* address (dialAuth, SetExpectedHostKey, resolveReachableHost).
VerifiedRunsRight ==
  \A c \in Calls : Verifiable(c) /\ asked[call[c].host] = {call[c].target} => call[c].daemon = call[c].target

\* The claim of dialAuth, README and the audit package: the client refuses to
\* run on the wrong host, where the node's key is in the registry.
WrongHostRefused == \A c \in Calls : Verifiable(c) => call[c].daemon = call[c].target
=============================================================================
