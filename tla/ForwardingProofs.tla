-------------------------- MODULE ForwardingProofs --------------------------
(***************************************************************************)
(* Proofs about the three kinds of forwarding of `vssh fwd`: the relay of  *)
(* a UDP association lives as long as it is wanted (UdpAssociate), a       *)
(* connection the client claimed is not taken from it (ReverseForward),    *)
(* and the end of a stream comes after all of it (Tunnel).                 *)
(***************************************************************************)
EXTENDS MCForwarding, Integers, TLAPS

----------------------------------------------------------------------------
(* UdpAssociate.                                                           *)

\* The proxy closes its end of the stream when socksUDPAssociate returns, and
\* only then.
ClosedIsOver == stream.closed => socks = "closed"

\* A bad frame is in the stream only after a bad datagram was sent on.
NoBadFrame == ~spoilt => \A i \in 1..Len(stream.up) : stream.up[i] = "good"

\* RelayLives without its condition on the control connection: closing that
\* ends nothing by itself, Returns does.
Relaying ==
  socks = "relaying" /\ ~lost /\ ~spoilt =>
    socket = "open" /\ runs = {"toDaemon", "toApp"} /\ relay = "serving"

UdpInv == UdpTypeOK /\ ClosedIsOver /\ NoBadFrame /\ Relaying

LEMMA UdpInitially == UdpInit => UdpInv
  <1> SUFFICES ASSUME UdpInit PROVE UdpInv
    OBVIOUS
  <1>1. /\ <<>> \in Seq({"good", "bad"}) /\ Len(<<>>) = 0
        /\ stream.up = <<>> /\ stream.closed = FALSE
    BY DEF UdpInit
  <1>2. stream \in [up : Seq({"good", "bad"}), down : 0..StreamRoom, closed : BOOLEAN]
    BY <1>1, UdpAssumption DEF UdpInit
  <1>3. datagrams \in [out : 0..MaxDatagrams, back : 0..MaxDatagrams]
    BY UdpAssumption DEF UdpInit
  <1>4. Len(stream.up) <= StreamRoom
    BY <1>1, UdpAssumption
  <1>5. /\ socks \in {"request", "asked", "relaying", "tunnel", "closed"}
        /\ control \in BOOLEAN /\ lost \in BOOLEAN /\ spoilt \in BOOLEAN
        /\ socket \in {"none", "open", "closed"}
        /\ runs \subseteq {"toDaemon", "toApp"}
        /\ heard \in Apps \cup {Nowhere}
        /\ relay \in {"none", "serving", "refused", "ended"}
    BY DEF UdpInit
  <1>6. UdpTypeOK
    BY <1>2, <1>3, <1>4, <1>5 DEF UdpTypeOK
  <1>7. ClosedIsOver /\ NoBadFrame /\ Relaying
    BY <1>1 DEF UdpInit, ClosedIsOver, NoBadFrame, Relaying
  <1> QED BY <1>6, <1>7 DEF UdpInv

\* Reading a datagram puts at most one frame, of its kind, at the end.
LEMMA ToDaemonKeeps ==
  ASSUME UdpInv, NEW a \in Apps, NEW k \in Kinds, ToDaemon(a, k)
  PROVE  UdpInv'
  <1>1. CASE k = "ignored"
    BY <1>1, UdpAssumption
    DEF UdpInv, UdpTypeOK, ClosedIsOver, NoBadFrame, Relaying, ToDaemon
  <1>2. CASE k # "ignored"
    <2>1. k \in {"good", "bad"}
      BY <1>2 DEF Kinds
    <2>2. /\ Len(stream.up) < StreamRoom
          /\ stream' = [stream EXCEPT !.up = Append(@, k)]
      BY <1>2 DEF ToDaemon
    <2>t. /\ stream.up \in Seq({"good", "bad"})
          /\ stream \in [up : Seq({"good", "bad"}), down : 0..StreamRoom, closed : BOOLEAN]
      BY DEF UdpInv, UdpTypeOK
    <2>3. /\ Append(stream.up, k) \in Seq({"good", "bad"})
          /\ Len(Append(stream.up, k)) = Len(stream.up) + 1
          /\ Append(stream.up, k)[Len(stream.up) + 1] = k
          /\ \A i \in 1..Len(stream.up) : Append(stream.up, k)[i] = stream.up[i]
      BY <2>1, <2>t
    <2>4. /\ stream' \in [up : Seq({"good", "bad"}), down : 0..StreamRoom, closed : BOOLEAN]
          /\ stream'.up = Append(stream.up, k) /\ stream'.closed = stream.closed
          /\ Len(stream'.up) <= StreamRoom
      <3>1. stream' = [stream EXCEPT !.up = Append(stream.up, k)]
        BY <2>2
      <3>2. stream'.up = Append(stream.up, k) /\ stream'.closed = stream.closed
        BY <3>1, <2>t
      <3>3. Len(stream.up) + 1 <= StreamRoom
        BY <2>2, <2>t, UdpAssumption
      <3> QED BY <3>1, <3>2, <3>3, <2>3, <2>t
    <2>5. UdpTypeOK'
      <3>1. spoilt' \in BOOLEAN
        BY DEF UdpInv, UdpTypeOK, ToDaemon
      <3>2. heard' \in Apps \cup {Nowhere}
        BY DEF ToDaemon
      <3>3. datagrams' \in [out : 0..MaxDatagrams, back : 0..MaxDatagrams]
        BY UdpAssumption DEF UdpInv, UdpTypeOK, ToDaemon
      <3>4. UNCHANGED <<socks, control, socket, runs, relay, lost>>
        BY DEF ToDaemon
      <3> QED BY <3>1, <3>2, <3>3, <3>4, <2>4 DEF UdpInv, UdpTypeOK
    <2>6. NoBadFrame'
      <3> SUFFICES ASSUME ~spoilt', NEW i \in 1..Len(stream'.up)
                   PROVE  stream'.up[i] = "good"
        BY DEF NoBadFrame
      <3>1. ~spoilt /\ k = "good"
        BY <2>1 DEF ToDaemon
      <3>2. Len(stream.up) \in Nat
        BY <2>t
      <3>3. CASE i = Len(stream.up) + 1
        BY <3>1, <3>3, <2>3, <2>4
      <3>4. CASE i \in 1..Len(stream.up)
        BY <3>1, <3>4, <2>3, <2>4 DEF UdpInv, NoBadFrame
      <3> QED BY <3>2, <3>3, <3>4, <2>3, <2>4
    <2>7. ClosedIsOver' /\ Relaying'
      BY <2>4 DEF UdpInv, ClosedIsOver, Relaying, ToDaemon
    <2> QED BY <2>5, <2>6, <2>7 DEF UdpInv
  <1> QED BY <1>1, <1>2

\* The daemon takes the first frame; only a bad one ends its handler.
LEMMA ForwardKeeps == ASSUME UdpInv, Forward PROVE UdpInv'
  <1>t. /\ stream.up \in Seq({"good", "bad"}) /\ stream.up # <<>>
        /\ stream \in [up : Seq({"good", "bad"}), down : 0..StreamRoom, closed : BOOLEAN]
    BY DEF UdpInv, UdpTypeOK, Forward
  <1>1. /\ Tail(stream.up) \in Seq({"good", "bad"}) /\ Len(stream.up) > 0
        /\ Len(Tail(stream.up)) = Len(stream.up) - 1
        /\ \A i \in 1..(Len(stream.up) - 1) : Tail(stream.up)[i] = stream.up[i + 1]
        /\ Head(stream.up) = stream.up[1] /\ Len(stream.up) \in Nat
    BY <1>t
  <1>2. /\ stream' \in [up : Seq({"good", "bad"}), down : 0..StreamRoom, closed : BOOLEAN]
        /\ stream'.up = Tail(stream.up) /\ stream'.closed = stream.closed
    BY <1>1, <1>t DEF Forward
  <1>3. UdpTypeOK'
    <2>1. Len(stream'.up) <= StreamRoom
      BY <1>1, <1>2, UdpAssumption DEF UdpInv, UdpTypeOK
    <2>2. relay' \in {"none", "serving", "refused", "ended"}
      BY DEF UdpInv, UdpTypeOK, Forward
    <2>3. UNCHANGED <<socks, control, socket, runs, heard, lost, datagrams, spoilt>>
      BY DEF Forward
    <2> QED BY <1>2, <2>1, <2>2, <2>3 DEF UdpInv, UdpTypeOK
  <1>4. NoBadFrame'
    <2> SUFFICES ASSUME ~spoilt', NEW i \in 1..Len(stream'.up)
                 PROVE  stream'.up[i] = "good"
      BY DEF NoBadFrame
    <2>1. ~spoilt /\ i \in 1..(Len(stream.up) - 1) /\ i + 1 \in 1..Len(stream.up)
      BY <1>1, <1>2 DEF Forward
    <2>2. stream.up[i + 1] = "good"
      BY <2>1 DEF UdpInv, NoBadFrame
    <2> QED BY <1>1, <1>2, <2>1, <2>2
  <1>5. ~spoilt => Head(stream.up) = "good"
    BY <1>1 DEF UdpInv, NoBadFrame
  <1>6. ClosedIsOver' /\ Relaying'
    BY <1>2, <1>5 DEF UdpInv, ClosedIsOver, Relaying, Forward
  <1> QED BY <1>3, <1>4, <1>6 DEF UdpInv

\* What is left: no step ends a goroutine, a socket or the handler while the
\* association is wanted and nothing went wrong.
LEMMA UdpStep == UdpInv /\ [UdpNext]_udpVars => UdpInv'
  <1> SUFFICES ASSUME UdpInv, [UdpNext]_udpVars PROVE UdpInv'
    OBVIOUS
  <1> USE UdpAssumption
           DEF UdpInv, UdpTypeOK, ClosedIsOver, NoBadFrame, Relaying
  <1>1. CASE Answered
    BY <1>1 DEF Answered
  <1>2. CASE Associate
    BY <1>2 DEF Associate
  <1>3. CASE Granted
    BY <1>3 DEF Granted
  <1>4. CASE Returns
    BY <1>4 DEF Returns
  <1>5. CASE ToDaemonEnds
    BY <1>5 DEF ToDaemonEnds
  <1>6. CASE ToApp
    BY <1>6 DEF ToApp
  <1>7. CASE ToAppEnds
    BY <1>7 DEF ToAppEnds
  <1>8. CASE ServeUdp
    BY <1>8 DEF ServeUdp
  <1>9. CASE PackReply
    BY <1>9 DEF PackReply
  <1>10. CASE RelayEnds
    BY <1>10 DEF RelayEnds
  <1>11. CASE AppCloses
    BY <1>11 DEF AppCloses
  <1>12. CASE SessionBreaks
    BY <1>12 DEF SessionBreaks
  <1>13. CASE UNCHANGED udpVars
    BY <1>13 DEF udpVars
  <1> QED BY <1>1, <1>2, <1>3, <1>4, <1>5, <1>6, <1>7, <1>8, <1>9, <1>10, <1>11,
             <1>12, <1>13, ForwardKeeps, ToDaemonKeeps DEF UdpNext, UdpFairStep

LEMMA UdpInductive == UdpSpec => []UdpInv
  BY UdpInitially, UdpStep, PTL DEF UdpSpec

\* While the application keeps its control connection and nothing is broken,
\* both goroutines of the proxy, its socket and the daemon's handler are there
\* (socksUDPAssociate, fmuxServeStream).
THEOREM RelaysLive == UdpSpec => []RelayLives
  <1>1. UdpInv => RelayLives
    BY DEF UdpInv, Relaying, RelayLives
  <1> QED BY <1>1, UdpInductive, PTL

----------------------------------------------------------------------------
(* ReverseForward.                                                         *)

\* The sessions are numbered as they are opened, and nothing is about one
\* that is not open yet.
Numbered ==
  /\ client.at \in {"ask", "serving"} => client.s # 0
  /\ \A s \in Sessions : session[s].there # "none" => s <= client.s
  /\ port <= client.s
  /\ \A p \in Peers : peer[p].at # "none" => peer[p].s # 0 /\ peer[p].s <= client.s

\* A connection the client holds is with a handler of the daemon, or closed:
\* it is not queued, not in revPending, not taken out of it by the reaper.
Held ==
  \A p \in Peers : offer[p] \in {"confirmed", "piping"} => peer[p].at \in {"streaming", "closed"}

\* How it comes to that: what is offered over FMUX never was in revPending,
\* what is in revPending is of an older session, and what was not accepted
\* was not offered.
Offered ==
  \A p \in Peers :
    /\ peer[p].at \in {"none", "backlog"} => offer[p] = "none"
    /\ peer[p].at = "registered" => session[peer[p].s].kind = "legacy"
    /\ offer[p] = "sent" /\ session[peer[p].s].kind = "fmux" =>
         peer[p].at \in {"streaming", "closed"}

\* The port has one listener.
OneListener == \A s \in Sessions : session[s].there = "listening" => port = s

ReverseInv == ReverseTypeOK /\ Numbered /\ Held /\ Offered /\ OneListener

\* Every step keeps the types.
LEMMA ReverseTypeStep ==
  ASSUME ReverseTypeOK, Numbered, [ReverseNext]_reverseVars
  PROVE  ReverseTypeOK'
  <1> USE ReverseAssumption DEF Sessions
  <1> DEFINE Both == [kind : {"fmux", "legacy"}, here : {"none", "up", "down"},
                      there : {"none", "asked", "listening", "refused", "ended", "down"}]
             Client0 == [at : {"open", "legacy", "ask", "serving", "stopped", "exited"}, s : 0..MaxSessions]
             Peer0 == [at : {"none", "backlog", "registered", "pending", "streaming", "reaped", "closed"},
                       s : 0..MaxSessions]
             Offer0 == {"none", "sent", "dialing", "confirmed", "piping", "ended"}
             Faults0 == [restarts : 0..MaxRestarts, others : 0..MaxFaults]
  <1>t. /\ client \in Client0 /\ dead \in BOOLEAN /\ session \in [Sessions -> Both]
        /\ cut \subseteq Sessions /\ port \in 0..MaxSessions
        /\ peer \in [Peers -> Peer0] /\ offer \in [Peers -> Offer0] /\ faults \in Faults0
    BY DEF ReverseTypeOK
  <1>n. /\ client.at \in {"ask", "serving"} => client.s \in Sessions
        /\ \A p \in Peers : peer[p].at # "none" => peer[p].s \in Sessions
    BY <1>t DEF Numbered
  <1>g. ASSUME NEW at \in {"stopped", "exited"}, Gone(at)
        PROVE  client' \in Client0 /\ session' \in [Sessions -> Both] /\ offer' \in [Peers -> Offer0]
    <2>1. client' \in Client0
      BY <1>g, <1>t DEF Gone
    <2>2. ASSUME NEW s \in Sessions PROVE session[s] \in Both /\ [session[s] EXCEPT !.here = "down"] \in Both
      <3>1. session[s] \in Both
        BY <1>t
      <3> QED BY <3>1
    <2>3. session' \in [Sessions -> Both]
      BY <1>g, <2>2 DEF Gone
    <2>4. offer' \in [Peers -> Offer0]
      BY <1>g, <1>t DEF Gone
    <2> QED BY <2>1, <2>3, <2>4
  <1>r. ASSUME NEW s \in Sessions PROVE Released(s) \in 0..MaxSessions
    BY <1>t DEF Released
  <1>p. ASSUME NEW p \in Peers,
               NEW l \in {"backlog", "registered", "pending", "streaming", "reaped", "closed"},
               peer' = [peer EXCEPT ![p].at = l]
        PROVE  peer' \in [Peers -> Peer0]
    <2>1. PICK x, y : x = peer[p] /\ y = [x EXCEPT !.at = l]
      OBVIOUS
    <2>2. x \in Peer0
      BY <2>1, <1>t
    <2>3. y \in Peer0
      BY <2>1, <2>2
    <2>4. peer' = [peer EXCEPT ![p] = y]
      BY <1>p, <2>1
    <2> QED BY <2>3, <2>4, <1>t
  <1> HIDE DEF Client0, Peer0, Offer0, Faults0, Both
  <1>q. ASSUME client' \in Client0, dead' \in BOOLEAN, session' \in [Sessions -> Both],
               cut' \subseteq Sessions, port' \in 0..MaxSessions,
               peer' \in [Peers -> Peer0], offer' \in [Peers -> Offer0], faults' \in Faults0
        PROVE  ReverseTypeOK'
    BY <1>q DEF ReverseTypeOK, Client0, Peer0, Offer0, Faults0, Both
  <1>o. ASSUME NEW k \in {"fmux", "legacy"}, OpenSession(k)
        PROVE  client' \in Client0 /\ session' \in [Sessions -> Both]
    <2>1. client' \in Client0
      BY <1>o, <1>t DEF OpenSession, Client0
    <2>2. [kind |-> k, here |-> "up", there |-> "asked"] \in Both
      BY DEF Both
    <2> QED BY <1>o, <1>t, <2>1, <2>2 DEF OpenSession
  <1>1. CASE OpenFmux \/ OpenLegacy
    BY <1>1, <1>o, <1>q, <1>t DEF OpenFmux, OpenLegacy
  <1>2. CASE Serve
    BY <1>2, <1>q, <1>t DEF Serve, Client0
  <1>3. CASE Refused
    BY <1>3, <1>q, <1>t, <1>g DEF Refused
  <1>4. CASE Stop
    BY <1>4, <1>q, <1>t, <1>g DEF Stop
  <1>5. CASE FmuxTooSlow
    <2>1. faults' \in Faults0
      BY <1>5, <1>t DEF FmuxTooSlow, Faults0
    <2> QED BY <2>1, <1>5, <1>q, <1>t DEF FmuxTooSlow, Client0
  <1>6. CASE SessionLost
    <2>1. CASE session[client.s].kind = "fmux"
      <3>1. session' = [session EXCEPT ![client.s].here = "down"]
        BY <1>6, <2>1 DEF SessionLost
      <3>2. session' \in [Sessions -> Both]
        BY <3>1, <1>6, <1>t, <1>n DEF SessionLost, Both
      <3>3. client' \in Client0 /\ offer' \in [Peers -> Offer0]
        BY <1>6, <2>1, <1>t DEF SessionLost, Client0, Offer0
      <3> QED BY <3>2, <3>3, <1>6, <1>q, <1>t DEF SessionLost
    <2>2. CASE session[client.s].kind # "fmux"
      <3>1. Gone("exited")
        BY <1>6, <2>2 DEF SessionLost
      <3>2. client' \in Client0 /\ session' \in [Sessions -> Both] /\ offer' \in [Peers -> Offer0]
        BY <3>1, <1>g
      <3>3. UNCHANGED <<dead, cut, port, peer, faults>>
        BY <1>6 DEF SessionLost
      <3> QED BY <3>2, <3>3, <1>q, <1>t
    <2> QED BY <2>1, <2>2
  <1>7. CASE DaemonRestarts
    <2>1. faults' \in Faults0
      BY <1>7, <1>t DEF DaemonRestarts, Faults0
    <2>2. session' \in [Sessions -> Both]
      <3>1. ASSUME NEW s \in Sessions PROVE session[s] \in Both /\ [session[s] EXCEPT !.there = "down"] \in Both
        <4>1. PICK x : x = session[s] /\ x \in Both
          BY <1>t
        <4>2. [x EXCEPT !.there = "down"] \in Both
          BY <4>1 DEF Both
        <4> QED BY <4>1, <4>2
      <3> QED BY <1>7, <3>1 DEF DaemonRestarts
    <2>3. peer' \in [Peers -> Peer0]
      BY <1>7, <1>t DEF DaemonRestarts, Peer0
    <2>4. offer' \in [Peers -> Offer0]
      BY <1>7, <1>t DEF DaemonRestarts, Offer0
    <2> QED BY <2>1, <2>2, <2>3, <2>4, <1>7, <1>q, <1>t DEF DaemonRestarts
  <1>8. ASSUME NEW s \in Sessions, Bind(s) PROVE ReverseTypeOK'
    <2>1. \E x \in {"listening", "refused"} : session' = [session EXCEPT ![s].there = x]
      BY <1>8 DEF Bind
    <2>3. session' \in [Sessions -> Both]
      BY <2>1, <1>t DEF Both
    <2>2. port' \in 0..MaxSessions
      BY <1>8, <1>t DEF Bind
    <2> QED BY <2>2, <2>3, <1>8, <1>q, <1>t DEF Bind
  <1>9. ASSUME NEW s \in Sessions, ControlEnds(s) PROVE ReverseTypeOK'
    <2>1. session' \in [Sessions -> Both]
      BY <1>9, <1>t DEF ControlEnds, Both
    <2> QED BY <2>1, <1>9, <1>q, <1>r, <1>t DEF ControlEnds
  <1>10. ASSUME NEW s \in Sessions, AcceptFails(s) PROVE ReverseTypeOK'
    <2>1. session' \in [Sessions -> Both]
      BY <1>10, <1>t DEF AcceptFails, Both
    <2>2. faults' \in Faults0
      BY <1>10, <1>t DEF AcceptFails, Faults0
    <2> QED BY <2>1, <2>2, <1>10, <1>q, <1>r, <1>t DEF AcceptFails
  <1>11. ASSUME NEW s \in Sessions, LinkBreaks(s) PROVE ReverseTypeOK'
    BY <1>11, <1>q, <1>t DEF LinkBreaks
  <1>12. ASSUME NEW p \in Peers, Accept(p) PROVE ReverseTypeOK'
    <2>1. CASE session[port].kind = "fmux"
      <3>1. peer' \in [Peers -> Peer0]
        BY <2>1, <1>12, <1>p DEF Accept
      <3>2. offer' \in [Peers -> Offer0]
        BY <2>1, <1>12, <1>t DEF Accept, Offer0
      <3> QED BY <3>1, <3>2, <1>12, <1>q, <1>t DEF Accept
    <2>2. CASE session[port].kind # "fmux"
      <3>1. peer' \in [Peers -> Peer0]
        BY <2>2, <1>12, <1>p DEF Accept
      <3>2. offer' \in [Peers -> Offer0]
        BY <2>2, <1>12, <1>t DEF Accept, Offer0
      <3> QED BY <3>1, <3>2, <1>12, <1>q, <1>t DEF Accept
    <2> QED BY <2>1, <2>2
  <1>13. ASSUME NEW p \in Peers, AnnounceFails(p) PROVE ReverseTypeOK'
    <2>1. peer' \in [Peers -> Peer0]
      BY <1>13, <1>p DEF AnnounceFails
    <2>2. peer[p].s \in Sessions /\ session' \in [Sessions -> Both]
      BY <1>13, <1>t, <1>n DEF AnnounceFails, Both
    <2> QED BY <2>1, <2>2, <1>13, <1>q, <1>r, <1>t DEF AnnounceFails
  <1>14. ASSUME NEW p \in Peers, Claim(p) PROVE ReverseTypeOK'
    <2>1. peer' \in [Peers -> Peer0]
      BY <1>14, <1>p, <1>t DEF Claim
    <2>2. offer' \in [Peers -> Offer0]
      BY <1>14, <1>t DEF Claim, Offer0
    <2> QED BY <2>1, <2>2, <1>14, <1>q, <1>t DEF Claim
  <1>15. ASSUME NEW p \in Peers, Arrive(p) \/ Dropped(p) \/ Reap(p) \/ StreamEnds(p)
         PROVE  ReverseTypeOK'
    <2>1. peer' \in [Peers -> Peer0]
      <3>1. CASE Arrive(p)
        BY <3>1, <1>t DEF Arrive, Peer0
      <3>2. CASE Dropped(p) \/ Reap(p) \/ StreamEnds(p)
        BY <3>2, <1>p, <1>t DEF Dropped, Reap, StreamEnds
      <3> QED BY <1>15, <3>1, <3>2
    <2> QED BY <2>1, <1>15, <1>q, <1>t DEF Arrive, Dropped, Reap, StreamEnds
  <1>16. ASSUME NEW p \in Peers, Announce(p) \/ Finished(p) PROVE ReverseTypeOK'
    <2>1. peer' \in [Peers -> Peer0]
      BY <1>16, <1>p DEF Announce, Finished
    <2>2. offer' \in [Peers -> Offer0]
      BY <1>16, <1>t DEF Announce, Finished, Offer0
    <2> QED BY <2>1, <2>2, <1>16, <1>q, <1>t DEF Announce, Finished
  <1>17. ASSUME NEW p \in Peers, TakeOffer(p) \/ DialLocal(p) PROVE ReverseTypeOK'
    BY <1>17, <1>q, <1>t DEF TakeOffer, DialLocal, Offer0
  <1>18. CASE UNCHANGED reverseVars
    BY <1>18, <1>q, <1>t DEF reverseVars
  <1> QED BY <1>1, <1>2, <1>3, <1>4, <1>5, <1>6, <1>7, <1>8, <1>9, <1>10, <1>11, <1>12,
             <1>13, <1>14, <1>15, <1>16, <1>17, <1>18 DEF ReverseNext, Client, PeerSteps

\* Opening a session changes nothing about the ones before.
LEMMA OpeningIsNew ==
  ASSUME ReverseTypeOK, OpenFmux \/ OpenLegacy
  PROVE  /\ client'.s = client.s + 1 /\ client'.s \in Sessions /\ client'.at = "ask"
         /\ UNCHANGED <<port, peer, offer>>
         /\ \A s \in Sessions : session'[s] = session[s] \/ (s = client'.s /\ session'[s].there = "asked")
  <1>t. DOMAIN session = Sessions
    BY DEF ReverseTypeOK
  <1>1. ASSUME NEW k, OpenSession(k)
        PROVE  /\ client'.s = client.s + 1 /\ client'.s \in Sessions /\ client'.at = "ask"
               /\ \A s \in Sessions : session'[s] = session[s] \/ (s = client'.s /\ session'[s].there = "asked")
    <2>1. /\ client.s + 1 \in Sessions /\ client' = [at |-> "ask", s |-> client.s + 1]
          /\ session' = [session EXCEPT ![client.s + 1] = [kind |-> k, here |-> "up", there |-> "asked"]]
      BY <1>1 DEF OpenSession
    <2>2. \A s \in Sessions : session'[s] = IF s = client.s + 1
                    THEN [kind |-> k, here |-> "up", there |-> "asked"] ELSE session[s]
      BY <2>1, <1>t
    <2> QED BY <2>1, <2>2
  <1>2. UNCHANGED <<port, peer, offer>>
    BY DEF OpenFmux, OpenLegacy
  <1> QED BY <1>1, <1>2 DEF OpenFmux, OpenLegacy

\* What SessionLost does to the sessions: its end here is down.
LEMMA LosingIsDown ==
  ASSUME ReverseTypeOK, SessionLost
  PROVE  /\ UNCHANGED <<dead, cut, port, peer, faults>>
         /\ client'.s = client.s /\ client'.at \in {"open", "exited"}
         /\ \A s \in Sessions : session'[s].kind = session[s].kind /\ session'[s].there = session[s].there
         /\ \A p \in Peers : offer'[p] \in {offer[p], "ended"} /\ (offer[p] = "none" => offer'[p] = "none")
  <1>t. /\ session \in [Sessions -> [kind : {"fmux", "legacy"}, here : {"none", "up", "down"},
                          there : {"none", "asked", "listening", "refused", "ended", "down"}]]
        /\ DOMAIN offer = Peers
        /\ client \in [at : {"open", "legacy", "ask", "serving", "stopped", "exited"},
                       s : 0..MaxSessions]
    BY DEF ReverseTypeOK
  <1>1. CASE session[client.s].kind = "fmux"
    BY <1>1, <1>t DEF SessionLost
  <1>2. CASE session[client.s].kind # "fmux"
    BY <1>2, <1>t DEF SessionLost, Gone
  <1> QED BY <1>1, <1>2

\* The same when the client's process ends.
LEMMA GoingIsDown ==
  ASSUME ReverseTypeOK, NEW at, Gone(at)
  PROVE  /\ client'.s = client.s /\ client'.at = at
         /\ \A s \in Sessions : session'[s].kind = session[s].kind /\ session'[s].there = session[s].there
         /\ \A p \in Peers : offer'[p] \in {offer[p], "ended"} /\ (offer[p] = "none" => offer'[p] = "none")
  <1>t. /\ session \in [Sessions -> [kind : {"fmux", "legacy"}, here : {"none", "up", "down"},
                          there : {"none", "asked", "listening", "refused", "ended", "down"}]]
        /\ client \in [at : {"open", "legacy", "ask", "serving", "stopped", "exited"},
                       s : 0..MaxSessions]
    BY DEF ReverseTypeOK
  <1> QED BY <1>t DEF Gone

\* Only a peer's Accept needs an argument: the port it waits at is a session's.
LEMMA NumberedStep ==
  ASSUME ReverseTypeOK, Numbered, [ReverseNext]_reverseVars
  PROVE  Numbered'
  <1> USE ReverseAssumption DEF Sessions
  <1>t. /\ session \in [Sessions -> [kind : {"fmux", "legacy"}, here : {"none", "up", "down"},
                          there : {"none", "asked", "listening", "refused", "ended", "down"}]]
        /\ client \in [at : {"open", "legacy", "ask", "serving", "stopped", "exited"},
                       s : 0..MaxSessions]
        /\ port \in 0..MaxSessions
        /\ peer \in [Peers -> [at : {"none", "backlog", "registered", "pending", "streaming",
                                     "reaped", "closed"}, s : 0..MaxSessions]]
    BY DEF ReverseTypeOK
  <1>1. CASE OpenFmux \/ OpenLegacy
    BY <1>1, <1>t, OpeningIsNew DEF Numbered
  <1>2. CASE Serve
    BY <1>2, <1>t DEF Serve, Numbered
  <1>3. CASE SessionLost
    BY <1>3, <1>t, LosingIsDown DEF Numbered
  <1>4. CASE Refused \/ Stop
    BY <1>4, <1>t, GoingIsDown DEF Refused, Stop, Numbered
  <1>5. CASE FmuxTooSlow
    BY <1>5, <1>t DEF FmuxTooSlow, Numbered
  <1>6. CASE DaemonRestarts
    BY <1>6, <1>t DEF DaemonRestarts, Numbered
  <1>7. ASSUME NEW s \in Sessions, Bind(s) PROVE Numbered'
    BY <1>7, <1>t DEF Bind, Numbered
  <1>8. ASSUME NEW s \in Sessions, ControlEnds(s) \/ AcceptFails(s) \/ LinkBreaks(s)
        PROVE  Numbered'
    <2>1. CASE ControlEnds(s)
      BY <2>1, <1>t DEF ControlEnds, Released, Numbered
    <2>2. CASE AcceptFails(s)
      BY <2>2, <1>t DEF AcceptFails, Released, Numbered
    <2>3. CASE LinkBreaks(s)
      BY <2>3 DEF LinkBreaks, Numbered
    <2> QED BY <1>8, <2>1, <2>2, <2>3
  <1>9. ASSUME NEW p \in Peers, Accept(p) PROVE Numbered'
    <2>1. /\ UNCHANGED <<client, session, port>> /\ peer[p].at = "backlog"
          /\ \E x \in {"streaming", "registered"} : peer' = [peer EXCEPT ![p].at = x]
      BY <1>9 DEF Accept
    <2> QED BY <2>1, <1>t DEF Numbered
  <1>10. ASSUME NEW p \in Peers, AnnounceFails(p) PROVE Numbered'
    BY <1>10, <1>t DEF AnnounceFails, Released, Numbered
  <1>11. ASSUME NEW p \in Peers,
                Arrive(p) \/ Finished(p) \/ Dropped(p) \/ Announce(p) \/ Reap(p) \/ TakeOffer(p)
                \/ Claim(p) \/ DialLocal(p) \/ StreamEnds(p)
         PROVE  Numbered'
    <2>1. CASE Arrive(p)
      BY <2>1, <1>t DEF Arrive, Numbered
    <2>2. CASE Finished(p) \/ Dropped(p) \/ Announce(p) \/ Reap(p) \/ StreamEnds(p)
      BY <2>2, <1>t DEF Finished, Dropped, Announce, Reap, StreamEnds, Numbered
    <2>3. CASE Claim(p)
      BY <2>3, <1>t DEF Claim, Numbered
    <2>4. CASE TakeOffer(p) \/ DialLocal(p)
      BY <2>4 DEF TakeOffer, DialLocal, Numbered
    <2> QED BY <1>11, <2>1, <2>2, <2>3, <2>4
  <1>12. CASE UNCHANGED reverseVars
    BY <1>12 DEF reverseVars, Numbered
  <1> QED BY <1>1, <1>2, <1>3, <1>4, <1>5, <1>6, <1>7, <1>8, <1>9, <1>10, <1>11, <1>12
          DEF ReverseNext, Client, PeerSteps

\* A session gets the port when it is free, and leaves it when it ends.
LEMMA ListenerStep ==
  ASSUME ReverseTypeOK, Numbered, OneListener, [ReverseNext]_reverseVars
  PROVE  OneListener'
  <1> USE ReverseAssumption DEF Sessions
  <1>t. /\ session \in [Sessions -> [kind : {"fmux", "legacy"}, here : {"none", "up", "down"},
                          there : {"none", "asked", "listening", "refused", "ended", "down"}]]
        /\ client.s \in 0..MaxSessions
    BY DEF ReverseTypeOK
  <1>1. CASE OpenFmux \/ OpenLegacy
    BY <1>1, <1>t, OpeningIsNew DEF OneListener
  <1>2. CASE SessionLost
    BY <1>2, <1>t, LosingIsDown DEF OneListener
  <1>3. CASE Refused \/ Stop
    BY <1>3, <1>t, GoingIsDown DEF Refused, Stop, OneListener
  <1>4. CASE DaemonRestarts
    <2>1. ASSUME NEW s \in Sessions PROVE session'[s].there # "listening"
      BY <1>4, <1>t DEF DaemonRestarts
    <2> QED BY <2>1 DEF OneListener
  <1>5. ASSUME NEW s \in Sessions, Bind(s) PROVE OneListener'
    BY <1>5, <1>t DEF Bind, OneListener
  <1>6. ASSUME NEW s \in Sessions, ControlEnds(s) \/ AcceptFails(s) \/ LinkBreaks(s)
        PROVE  OneListener'
    BY <1>6, <1>t DEF ControlEnds, AcceptFails, LinkBreaks, Released, OneListener
  <1>7. ASSUME NEW p \in Peers, AnnounceFails(p) PROVE OneListener'
    BY <1>7, <1>t DEF AnnounceFails, Released, OneListener, Numbered
  <1>8. CASE UNCHANGED <<session, port>>
    BY <1>8 DEF OneListener
  <1>9. CASE Serve \/ FmuxTooSlow \/ UNCHANGED reverseVars
    BY <1>8, <1>9 DEF Serve, FmuxTooSlow, reverseVars
  <1>10. ASSUME NEW p \in Peers,
                Arrive(p) \/ Finished(p) \/ Dropped(p) \/ Accept(p) \/ Announce(p) \/ Reap(p)
                \/ TakeOffer(p) \/ Claim(p) \/ DialLocal(p) \/ StreamEnds(p)
         PROVE  OneListener'
    BY <1>8, <1>10
    DEF Arrive, Finished, Dropped, Accept, Announce, Reap, TakeOffer, Claim, DialLocal, StreamEnds
  <1> QED BY <1>1, <1>2, <1>3, <1>4, <1>5, <1>6, <1>7, <1>9, <1>10
          DEF ReverseNext, Client, PeerSteps

\* What a connection is to the daemon and what it is to the client agree.  The
\* reaper and the claim both take it from revPending: one of them finds it.
LEMMA OfferedStep ==
  ASSUME ReverseTypeOK, Numbered, Held, Offered, [ReverseNext]_reverseVars
  PROVE  Held' /\ Offered'
  <1> USE ReverseAssumption DEF Sessions
  <1>t. /\ session \in [Sessions -> [kind : {"fmux", "legacy"}, here : {"none", "up", "down"},
                          there : {"none", "asked", "listening", "refused", "ended", "down"}]]
        /\ client.s \in 0..MaxSessions /\ port \in 0..MaxSessions
        /\ peer \in [Peers -> [at : {"none", "backlog", "registered", "pending", "streaming",
                                     "reaped", "closed"}, s : 0..MaxSessions]]
        /\ offer \in [Peers -> {"none", "sent", "dialing", "confirmed", "piping", "ended"}]
    BY DEF ReverseTypeOK
  <1>k. ASSUME UNCHANGED <<peer, offer>>, \A s \in Sessions : s <= client.s => session'[s].kind = session[s].kind
        PROVE  Held' /\ Offered'
    BY <1>k, <1>t DEF Held, Offered, Numbered
  <1>1. CASE OpenFmux \/ OpenLegacy
    <2>1. \A s \in Sessions : s <= client.s => session'[s].kind = session[s].kind
      BY <1>1, <1>t, OpeningIsNew
    <2> QED BY <2>1, <1>1, <1>k, OpeningIsNew
  <1>2. CASE SessionLost
    BY <1>2, <1>t, LosingIsDown DEF Held, Offered, Numbered
  <1>3. CASE Refused \/ Stop
    BY <1>3, <1>t, GoingIsDown DEF Refused, Stop, Held, Offered, Numbered
  <1>4. CASE DaemonRestarts
    BY <1>4, <1>t DEF DaemonRestarts, Held, Offered, Numbered
  <1>5. CASE Serve \/ FmuxTooSlow \/ UNCHANGED reverseVars
    BY <1>5, <1>k DEF Serve, FmuxTooSlow, reverseVars
  <1>6. ASSUME NEW s \in Sessions, Bind(s) PROVE Held' /\ Offered'
    <2>1. \E x \in {"listening", "refused"} : session' = [session EXCEPT ![s].there = x]
      BY <1>6 DEF Bind
    <2>2. UNCHANGED <<peer, offer>>
      BY <1>6 DEF Bind
    <2>3. \A i \in Sessions : session'[i].kind = session[i].kind
      BY <2>1, <1>t
    <2> QED BY <2>2, <2>3, <1>k
  <1>7. ASSUME NEW s \in Sessions, ControlEnds(s) \/ AcceptFails(s) \/ LinkBreaks(s)
        PROVE  Held' /\ Offered'
    <2>1. \E x : session' \in {session, [session EXCEPT ![s].there = x]}
      BY <1>7 DEF ControlEnds, AcceptFails, LinkBreaks
    <2>2. UNCHANGED <<peer, offer>>
      BY <1>7 DEF ControlEnds, AcceptFails, LinkBreaks
    <2>3. \A i \in Sessions : session'[i].kind = session[i].kind
      BY SMTT(20), <2>1, <1>t
    <2> QED BY <2>2, <2>3, <1>k
  <1>8. ASSUME NEW p \in Peers, Accept(p) PROVE Held' /\ Offered'
    <2>1. UNCHANGED session /\ peer[p].at = "backlog" /\ port = peer[p].s
      BY <1>8 DEF Accept
    <2>2. CASE session[port].kind = "fmux"
      <3>1. peer' = [peer EXCEPT ![p].at = "streaming"] /\ offer' = [offer EXCEPT ![p] = "sent"]
        BY <2>2, <1>8 DEF Accept
      <3> QED BY <2>1, <3>1, <1>t DEF Held, Offered, Numbered
    <2>3. CASE session[port].kind # "fmux"
      <3>1. session[port].kind = "legacy"
        BY <2>1, <2>3, <1>t DEF Numbered
      <3>2. peer' = [peer EXCEPT ![p].at = "registered"] /\ UNCHANGED offer
        BY <2>3, <1>8 DEF Accept
      <3>3. offer[p] = "none"
        BY <2>1 DEF Offered
      <3> QED BY <2>1, <3>1, <3>2, <3>3, <1>t DEF Held, Offered
    <2> QED BY <2>2, <2>3
  <1>9. ASSUME NEW p \in Peers, AnnounceFails(p) PROVE Held' /\ Offered'
    BY <1>9, <1>t DEF AnnounceFails, Held, Offered, Numbered
  <1>10. ASSUME NEW p \in Peers,
                Arrive(p) \/ Finished(p) \/ Dropped(p) \/ Announce(p) \/ Reap(p)
         PROVE  Held' /\ Offered'
    <2>1. CASE Arrive(p)
      BY <2>1, <1>t DEF Arrive, Held, Offered, Numbered
    <2>2. CASE Finished(p)
      BY <2>2, <1>t DEF Finished, Held, Offered
    <2>3. CASE Dropped(p)
      BY <2>3, <1>t DEF Dropped, Held, Offered
    <2>4. CASE Announce(p)
      BY <2>4, <1>t DEF Announce, Held, Offered
    <2>5. CASE Reap(p)
      BY <2>5, <1>t DEF Reap, Held, Offered
    <2> QED BY <1>10, <2>1, <2>2, <2>3, <2>4, <2>5
  <1>11. ASSUME NEW p \in Peers,
                TakeOffer(p) \/ Claim(p) \/ DialLocal(p) \/ StreamEnds(p)
         PROVE  Held' /\ Offered'
    <2>1. CASE TakeOffer(p)
      BY <2>1, <1>11, <1>t DEF TakeOffer, Held, Offered, Numbered
    <2>2. CASE Claim(p)
      <3>1. CASE offer' = [offer EXCEPT ![p] = "ended"] /\ UNCHANGED <<peer, session>>
        <4>1. offer'[p] = "ended" /\ \A q \in Peers \ {p} : offer'[q] = offer[q]
          BY <3>1, <1>11, <1>t
        <4>2. offer[p] = "dialing"
          BY <2>2 DEF Claim
        <4> QED BY <3>1, <4>1, <4>2 DEF Held, Offered
      <3>2. CASE ~(offer' = [offer EXCEPT ![p] = "ended"] /\ UNCHANGED <<peer, session>>)
        <4>1. /\ peer' = [peer EXCEPT ![p].at = "streaming"]
              /\ offer' = [offer EXCEPT ![p] = "confirmed"] /\ UNCHANGED session
          BY <2>2, <3>2 DEF Claim
        <4>2. peer'[p].at = "streaming" /\ peer'[p].s = peer[p].s /\ offer'[p] = "confirmed"
          BY <4>1, <1>11, <1>t
        <4>3. \A q \in Peers \ {p} : peer'[q] = peer[q] /\ offer'[q] = offer[q]
          BY <4>1, <1>11, <1>t
        <4> QED BY <4>1, <4>2, <4>3 DEF Held, Offered
      <3> QED BY <3>1, <3>2
    <2>3. CASE DialLocal(p)
      BY <2>3, <1>11, <1>t DEF DialLocal, Held, Offered, Numbered
    <2>4. CASE StreamEnds(p)
      BY <2>4, <1>11, <1>t DEF StreamEnds, Held, Offered, Numbered
    <2> QED BY <1>11, <2>1, <2>2, <2>3, <2>4
  <1> QED BY <1>1, <1>2, <1>3, <1>4, <1>5, <1>6, <1>7, <1>8, <1>9, <1>10, <1>11
          DEF ReverseNext, Client, PeerSteps

LEMMA ReverseInductive == ReverseSpec => []ReverseInv
  <1>1. ReverseInit => ReverseInv
    <2> SUFFICES ASSUME ReverseInit PROVE ReverseInv
      OBVIOUS
    <2>1. [s \in Sessions |-> [kind |-> "fmux", here |-> "none", there |-> "none"]]
            \in [Sessions -> [kind : {"fmux", "legacy"}, here : {"none", "up", "down"},
                  there : {"none", "asked", "listening", "refused", "ended", "down"}]]
      OBVIOUS
    <2>2. [restarts |-> 0, others |-> 0] \in [restarts : 0..MaxRestarts, others : 0..MaxFaults]
      BY ReverseAssumption
    <2>5. /\ [at |-> "open", s |-> 0] \in [at : {"open", "legacy", "ask", "serving", "stopped", "exited"},
                                           s : 0..MaxSessions]
          /\ [at |-> "none", s |-> 0] \in [at : {"none", "backlog", "registered", "pending", "streaming",
                                                 "reaped", "closed"}, s : 0..MaxSessions]
      BY ReverseAssumption
    <2>8. dead \in BOOLEAN
      BY DEF ReverseInit
    <2>6. /\ cut \subseteq Sessions /\ port \in 0..MaxSessions
          /\ offer \in [Peers -> {"none", "sent", "dialing", "confirmed", "piping", "ended"}]
      BY ReverseAssumption DEF ReverseInit
    <2>7. peer \in [Peers -> [at : {"none", "backlog", "registered", "pending", "streaming",
                                   "reaped", "closed"}, s : 0..MaxSessions]]
      BY <2>5 DEF ReverseInit
    <2>3. ReverseTypeOK
      BY <2>1, <2>2, <2>5, <2>6, <2>7, <2>8, Zenon DEF ReverseInit, ReverseTypeOK
    <2>4. Numbered /\ Held /\ Offered /\ OneListener
      BY ReverseAssumption DEF ReverseInit, Numbered, Held, Offered, OneListener, Sessions
    <2> QED BY <2>3, <2>4 DEF ReverseInv
  <1>2. ReverseInv /\ [ReverseNext]_reverseVars => ReverseInv'
    BY ReverseTypeStep, NumberedStep, ListenerStep, OfferedStep DEF ReverseInv
  <1> QED BY <1>1, <1>2, PTL DEF ReverseSpec

\* A connection that the client holds is not reaped, and no two sessions listen
\* at the port (HandleReverseForward, HandleReverseData).
THEOREM ClaimsAreKept == ReverseSpec => []ClaimedIsKept
  <1>1. ReverseInv => ClaimedIsKept
    BY DEF ReverseInv, Held, OneListener, ClaimedIsKept
  <1> QED BY <1>1, ReverseInductive, PTL

----------------------------------------------------------------------------
(* Tunnel.                                                                 *)

\* The proxies in the order in which a way passes them: the first reads hop 1
\* and writes hop 2, the second reads hop 2 and writes hop 3.
First(w)  == IF w = "up" THEN "client" ELSE "daemon"
Second(w) == IF w = "up" THEN "daemon" ELSE "client"

\* A proxy copies from the moment the tunnel is open, and is closed when both
\* its copies are done, or because there never was a tunnel.
Stages ==
  \A p \in Proxies, w \in Ways :
    /\ stage[p] = "setup" <=> (copy[p][w] = "none" /\ stage[p] # "closed")
    /\ stage[p] = "closed" => copy[p][w] # "copying"

\* The end of a proxy's output is written when its copy is over, or by the
\* close of a proxy that never copied.
EndsAfter(p, w, i) == hop[w][i].fin => copy[p][w] = "done" \/ (stage[p] = "closed" /\ copy[p][w] = "none")

\* The sink closed its socket before it read the end of the stream.
Abandoned(w) == Sink(w) \in left /\ ~eof[w]

\* A hop whose reader is gone is empty, and its reader is closed, or left.
Gone1(w) == hop[w][1].gone => stage[First(w)] = "closed"
Gone2(w) == hop[w][2].gone => stage[Second(w)] = "closed"
Gone3(w) == hop[w][3].gone => Sink(w) \in left

\* A copy over an intact link is over because its input ended, with nothing
\* left in it, or because nobody reads its output to the end.
DoneFirst(w)  ==
  copy[First(w)][w] = "done" /\ broken = 0 /\ ~Abandoned(w) =>
    Ended(w, 1) \/ (stage[Second(w)] = "closed" /\ copy[Second(w)][w] = "none")
DoneSecond(w) == copy[Second(w)][w] = "done" /\ broken = 0 /\ ~Abandoned(w) => Ended(w, 2)

\* What was sent was read or is in a hop, while both proxies may still pipe it.
Kept(w) ==
  broken = 0 /\ ~Abandoned(w) /\ (\A p \in Proxies : stage[p] = "closed" => copy[p][w] # "none") =>
    sent[w] = got[w] + hop[w][1].n + hop[w][2].n + hop[w][3].n

\* The end of the stream is read after everything else.
EofIsLast(w) == eof[w] => Ended(w, 3)

WayInv(w) ==
  /\ EndsAfter(First(w), w, 2) /\ EndsAfter(Second(w), w, 3)
  /\ Gone1(w) /\ Gone2(w) /\ Gone3(w)
  /\ DoneFirst(w) /\ DoneSecond(w) /\ EofIsLast(w)
  /\ Kept(w) /\ got[w] + hop[w][1].n + hop[w][2].n + hop[w][3].n <= sent[w]

TunnelInv == TypeOK /\ Stages /\ \A w \in Ways : WayInv(w)

\* A way passes two proxies, one after the other, and has two ends.
LEMMA WayFacts ==
  ASSUME NEW w \in Ways
  PROVE  /\ First(w) \in Proxies /\ Second(w) \in Proxies /\ First(w) # Second(w)
         /\ From(First(w), w) = 1 /\ From(Second(w), w) = 2
         /\ \A p \in Proxies : p = First(w) \/ p = Second(w)
         /\ Source(w) \in Ends /\ Sink(w) \in Ends /\ Source(w) # Sink(w)
  BY DEF Ways, Proxies, Ends, First, Second, From, Source, Sink

Hops == [1..3 -> [n : 0..Room, fin : BOOLEAN, gone : BOOLEAN]]

\* A hop that is ended, and one whose reader goes.
LEMMA HopFields ==
  ASSUME NEW h \in [n : 0..Room, fin : BOOLEAN, gone : BOOLEAN]
  PROVE  /\ [h EXCEPT !.fin = TRUE] \in [n : 0..Room, fin : BOOLEAN, gone : BOOLEAN]
         /\ [h EXCEPT !.gone = TRUE, !.n = 0] \in [n : 0..Room, fin : BOOLEAN, gone : BOOLEAN]
  <1>1. 0 \in 0..Room
    BY BoundAssumption
  <1> QED BY <1>1

\* What closing a proxy does to the hops of a way.
LEMMA ClosingDrops ==
  ASSUME TypeOK, NEW p \in Proxies, CloseBoth(p)
  PROVE  /\ hop' \in [Ways -> Hops]
         /\ stage' = [stage EXCEPT ![p] = "closed"] /\ stage' \in [Proxies -> {"setup", "piping", "closed"}]
         /\ \A w \in Ways, i \in 1..3 :
              /\ hop'[w][i].n = IF i = From(p, w) THEN 0 ELSE hop[w][i].n
              /\ hop'[w][i].gone <=> i = From(p, w) \/ hop[w][i].gone
              /\ hop'[w][i].fin <=> i = From(p, w) + 1 \/ hop[w][i].fin
  <1>t. /\ hop \in [Ways -> Hops] /\ stage \in [Proxies -> {"setup", "piping", "closed"}]
    BY DEF TypeOK, Hops
  <1>1. stage' = [stage EXCEPT ![p] = "closed"] /\ hop' = Closed(p, hop)
    BY DEF CloseBoth
  <1>2. \A w \in Ways, i \in 1..3 :
          hop'[w][i] = IF i = From(p, w) THEN [hop[w][i] EXCEPT !.gone = TRUE, !.n = 0]
                       ELSE IF i = From(p, w) + 1 THEN [hop[w][i] EXCEPT !.fin = TRUE]
                       ELSE hop[w][i]
    BY <1>1 DEF Closed
  <1>3. \A w \in Ways, i \in 1..3 : hop[w][i] \in [n : 0..Room, fin : BOOLEAN, gone : BOOLEAN]
    BY <1>t DEF Hops
  <1>4. \A w \in Ways : From(p, w) \in {1, 2}
    BY DEF From
  <1>5. \A w \in Ways, i \in 1..3 :
          /\ hop'[w][i] \in [n : 0..Room, fin : BOOLEAN, gone : BOOLEAN]
          /\ hop'[w][i].n = IF i = From(p, w) THEN 0 ELSE hop[w][i].n
          /\ hop'[w][i].gone <=> i = From(p, w) \/ hop[w][i].gone
          /\ hop'[w][i].fin <=> i = From(p, w) + 1 \/ hop[w][i].fin
    <2> TAKE w \in Ways, i \in 1..3
    <2>1. hop[w][i] \in [n : 0..Room, fin : BOOLEAN, gone : BOOLEAN] /\ From(p, w) \in {1, 2} /\ 0 \in 0..Room
      BY <1>3, <1>4, BoundAssumption
    <2>2. CASE i = From(p, w)
      <3>1. hop'[w][i] = [hop[w][i] EXCEPT !.gone = TRUE, !.n = 0]
        BY <2>2, <1>2
      <3>2. i # From(p, w) + 1
        BY <2>1, <2>2
      <3> QED BY <3>1, <3>2, <2>1, <2>2
    <2>3. CASE i # From(p, w) /\ i = From(p, w) + 1
      <3>1. hop'[w][i] = [hop[w][i] EXCEPT !.fin = TRUE]
        BY <2>3, <1>2
      <3> QED BY <3>1, <2>1, <2>3
    <2>4. CASE i # From(p, w) /\ i # From(p, w) + 1
      BY <2>1, <2>4, <1>2
    <2> QED BY <2>2, <2>3, <2>4
  <1>6. hop' \in [Ways -> Hops]
    BY <1>1, <1>5 DEF Closed, Hops
  <1> QED BY <1>1, <1>5, <1>6, <1>t

\* What close(2) of an end does: its way out ends, its way in has no reader.
LEMMA LeavingEnds ==
  ASSUME TypeOK, NEW e \in Ends, Leave(e)
  PROVE  /\ hop' \in [Ways -> Hops]
         /\ \A w \in Ways, i \in 1..3 :
              /\ hop'[w][i].n = IF Sink(w) = e /\ i = 3 THEN 0 ELSE hop[w][i].n
              /\ hop'[w][i].gone <=> (Sink(w) = e /\ i = 3) \/ hop[w][i].gone
              /\ hop'[w][i].fin <=> (Source(w) = e /\ i = 1) \/ hop[w][i].fin
  <1>t. /\ hop \in [Ways -> Hops] /\ 0 \in 0..Room
        /\ \A w \in Ways, i \in 1..3 : hop[w][i] \in [n : 0..Room, fin : BOOLEAN, gone : BOOLEAN]
    BY BoundAssumption DEF TypeOK, Hops
  <1>1. ASSUME NEW w \in Ways
        PROVE  /\ hop'[w] \in Hops
               /\ \A i \in 1..3 :
                    /\ hop'[w][i].n = IF Sink(w) = e /\ i = 3 THEN 0 ELSE hop[w][i].n
                    /\ hop'[w][i].gone <=> (Sink(w) = e /\ i = 3) \/ hop[w][i].gone
                    /\ hop'[w][i].fin <=> (Source(w) = e /\ i = 1) \/ hop[w][i].fin
    <2>h. /\ hop[w] \in Hops
          /\ \A i \in 1..3 : hop[w][i] \in [n : 0..Room, fin : BOOLEAN, gone : BOOLEAN]
      BY <1>t
    <2>i. \A i \in 1..3 : i = 1 \/ i = 2 \/ i = 3
      OBVIOUS
    <2>1. CASE Source(w) = e
      <3>1. Sink(w) # e
        BY <2>1, WayFacts
      <3>2. hop'[w] = [hop[w] EXCEPT ![1] = [hop[w][1] EXCEPT !.fin = TRUE]]
        BY <2>1 DEF Leave
      <3>3. [hop[w][1] EXCEPT !.fin = TRUE] \in [n : 0..Room, fin : BOOLEAN, gone : BOOLEAN]
        <4>1. hop[w][1] \in [n : 0..Room, fin : BOOLEAN, gone : BOOLEAN]
          BY <2>h
        <4> QED BY <4>1, HopFields, Zenon
      <3>4. /\ hop'[w] \in Hops /\ hop'[w][2] = hop[w][2] /\ hop'[w][3] = hop[w][3]
            /\ hop'[w][1] = [hop[w][1] EXCEPT !.fin = TRUE]
        BY <3>2, <3>3, <2>h DEF Hops
      <3> SUFFICES ASSUME NEW i \in 1..3
                   PROVE  /\ hop'[w][i].n = hop[w][i].n
                          /\ hop'[w][i].gone <=> hop[w][i].gone
                          /\ hop'[w][i].fin <=> i = 1 \/ hop[w][i].fin
        BY <2>1, <3>1, <3>4
      <3>5. CASE i = 1
        BY <3>5, <3>4, <2>h
      <3>6. CASE i # 1
        BY <3>6, <3>4, <2>h, <2>i
      <3> QED BY <3>5, <3>6
    <2>2. CASE Source(w) # e
      <3>1. Sink(w) = e
        BY <2>2, WayFacts DEF Ends, Source, Sink
      <3>2. hop'[w] = [hop[w] EXCEPT ![3] = [hop[w][3] EXCEPT !.gone = TRUE, !.n = 0]]
        BY <2>2 DEF Leave
      <3>3. [hop[w][3] EXCEPT !.gone = TRUE, !.n = 0] \in [n : 0..Room, fin : BOOLEAN, gone : BOOLEAN]
        <4>1. hop[w][3] \in [n : 0..Room, fin : BOOLEAN, gone : BOOLEAN]
          BY <2>h
        <4> QED BY <4>1, HopFields, Zenon
      <3>4. /\ hop'[w] \in Hops /\ hop'[w][1] = hop[w][1] /\ hop'[w][2] = hop[w][2]
            /\ hop'[w][3] = [hop[w][3] EXCEPT !.gone = TRUE, !.n = 0]
        BY <3>2, <3>3, <2>h DEF Hops
      <3> SUFFICES ASSUME NEW i \in 1..3
                   PROVE  /\ hop'[w][i].n = IF i = 3 THEN 0 ELSE hop[w][i].n
                          /\ hop'[w][i].gone <=> i = 3 \/ hop[w][i].gone
                          /\ hop'[w][i].fin <=> hop[w][i].fin
        BY <2>2, <3>1, <3>4
      <3>5. CASE i = 3
        BY <3>5, <3>4, <2>h
      <3>6. CASE i # 3
        BY <3>6, <3>4, <2>h, <2>i
      <3> QED BY <3>5, <3>6
    <2> QED BY <2>1, <2>2
  <1>2. hop' = [w \in Ways |-> hop'[w]]
    BY DEF Leave
  <1>3. hop' \in [Ways -> Hops]
    BY <1>1, <1>2
  <1> QED BY <1>1, <1>3

\* The end of a hop is written.
LEMMA FinStep ==
  ASSUME TypeOK, NEW w \in Ways, NEW i \in 1..3,
         hop' = [hop EXCEPT ![w][i].fin = TRUE]
  PROVE  /\ hop' \in [Ways -> Hops]
         /\ \A v \in Ways, j \in 1..3 :
              /\ hop'[v][j].n = hop[v][j].n
              /\ hop'[v][j].fin <=> (v = w /\ j = i) \/ hop[v][j].fin
              /\ hop'[v][j].gone <=> hop[v][j].gone
  <1>1. hop \in [Ways -> Hops]
    BY DEF TypeOK, Hops
  <1>2. hop[w][i] \in [n : 0..Room, fin : BOOLEAN, gone : BOOLEAN]
    BY <1>1 DEF Hops
  <1>3. [hop[w][i] EXCEPT !.fin = TRUE] \in [n : 0..Room, fin : BOOLEAN, gone : BOOLEAN]
    BY <1>2, HopFields, Zenon
  <1>4. [hop[w] EXCEPT ![i] = [hop[w][i] EXCEPT !.fin = TRUE]] \in Hops
    BY <1>1, <1>3 DEF Hops
  <1>5. hop' = [hop EXCEPT ![w] = [hop[w] EXCEPT ![i] = [hop[w][i] EXCEPT !.fin = TRUE]]]
    OBVIOUS
  <1>6. hop' \in [Ways -> Hops]
    BY <1>1, <1>4, <1>5
  <1>7. \A v \in Ways, j \in 1..3 :
           /\ hop'[v][j].n = hop[v][j].n
           /\ hop'[v][j].fin <=> (v = w /\ j = i) \/ hop[v][j].fin
           /\ hop'[v][j].gone <=> hop[v][j].gone
    BY <1>1 DEF Hops
  <1> QED BY <1>6, <1>7

\* Every step keeps the types.
LEMMA TunnelTypeStep ==
  ASSUME TunnelInv, [Next]_vars
  PROVE  TypeOK'
  <1> USE BoundAssumption
  <1> DEFINE Copies == [Proxies -> [Ways -> {"none", "copying", "done"}]]
             Stgs == [Proxies -> {"setup", "piping", "closed"}]
             Counts == [Ways -> 0..MaxSent]
  <1>t. /\ link \in Links /\ hop \in [Ways -> Hops] /\ copy \in Copies /\ stage \in Stgs
        /\ asked \in {"none", "ok", "refused"} /\ left \subseteq Ends
        /\ sent \in Counts /\ got \in Counts /\ eof \in [Ways -> BOOLEAN] /\ broken \in 0..1
    BY DEF TunnelInv, TypeOK, Hops
  <1>h. \A w \in Ways, i \in 1..3 :
          hop[w][i] \in [n : 0..Room, fin : BOOLEAN, gone : BOOLEAN]
    BY <1>t DEF Hops
  <1>q. ASSUME link' \in Links, hop' \in [Ways -> Hops], copy' \in Copies, stage' \in Stgs,
               asked' \in {"none", "ok", "refused"}, left' \subseteq Ends,
               sent' \in Counts, got' \in Counts, eof' \in [Ways -> BOOLEAN], broken' \in 0..1
        PROVE  TypeOK'
    BY <1>q DEF TypeOK, Hops
  <1>p. ASSUME NEW p \in Proxies, Pipe(p) PROVE copy' \in Copies /\ stage' \in Stgs
    BY <1>p, <1>t DEF Pipe
  <1>c. ASSUME NEW p \in Proxies, CloseBoth(p) PROVE hop' \in [Ways -> Hops] /\ stage' \in Stgs
    BY <1>c, ClosingDrops DEF TunnelInv
  <1>i. ASSUME NEW p \in Proxies, NEW w \in Ways
        PROVE  From(p, w) \in 1..3 /\ From(p, w) + 1 \in 1..3
    BY DEF From
  <1> HIDE DEF Copies, Stgs, Counts
  <1>1. ASSUME NEW w \in Ways, Produce(w) PROVE TypeOK'
    <2>1. sent' \in Counts
      BY <1>1, <1>t DEF Produce, Counts
    <2>2. hop' \in [Ways -> Hops]
      BY <1>1, <1>t, <1>h DEF Produce, Hops
    <2> QED BY <2>1, <2>2, <1>1, <1>t, <1>q DEF Produce
  <1>2. ASSUME NEW w \in Ways, Shut(w) PROVE TypeOK'
    <2>1. hop' \in [Ways -> Hops]
      <3>1. hop' = [hop EXCEPT ![w][1].fin = TRUE] /\ 1 \in 1..3 /\ TypeOK
        BY <1>2 DEF Shut, TunnelInv
      <3> QED BY <3>1, FinStep
    <2> QED BY <2>1, <1>2, <1>t, <1>q DEF Shut
  <1>3. ASSUME NEW w \in Ways, Consume(w) PROVE TypeOK'
    <2>1. got[w] < sent[w]
      BY <1>3, <1>t, <1>h DEF Consume, TunnelInv, WayInv, Counts
    <2>2. got' \in Counts
      BY <2>1, <1>3, <1>t DEF Consume, Counts
    <2>3. hop' \in [Ways -> Hops]
      BY <1>3, <1>t, <1>h DEF Consume, Hops
    <2> QED BY <2>2, <2>3, <1>3, <1>t, <1>q DEF Consume
  <1>4. ASSUME NEW w \in Ways, SeeEOF(w) PROVE TypeOK'
    BY <1>4, <1>t, <1>q DEF SeeEOF
  <1>5. ASSUME NEW e \in Ends, Leave(e) PROVE TypeOK'
    <2>1. hop' \in [Ways -> Hops]
      BY <1>5, LeavingEnds DEF TunnelInv
    <2> QED BY <2>1, <1>5, <1>t, <1>q DEF Leave
  <1>6. CASE TargetDialed
    BY <1>6, <1>t, <1>q, <1>p DEF TargetDialed, Proxies
  <1>7. CASE TargetRefused
    BY <1>7, <1>t, <1>q, <1>c DEF TargetRefused, Proxies
  <1>8. CASE TunnelOpens
    BY <1>8, <1>t, <1>q, <1>p DEF TunnelOpens, Proxies
  <1>9. CASE TunnelFails
    BY <1>9, <1>t, <1>q, <1>c DEF TunnelFails, Proxies
  <1>10. ASSUME NEW p \in Proxies, NEW w \in Ways, Move(p, w) PROVE TypeOK'
    <2>1. hop' \in [Ways -> Hops]
      BY <1>10, <1>t, <1>h, <1>i DEF Move, Hops
    <2> QED BY <2>1, <1>10, <1>t, <1>q DEF Move
  <1>11. ASSUME NEW p \in Proxies, NEW w \in Ways, EndCopy(p, w) PROVE TypeOK'
    <2>1. hop' \in [Ways -> Hops]
      <3>1. hop' = hop \/ hop' = [hop EXCEPT ![w][From(p, w) + 1].fin = TRUE]
        BY <1>11 DEF EndCopy
      <3> QED BY <3>1, <1>t, <1>i, FinStep DEF TunnelInv
    <2>2. copy' \in Copies
      BY <1>11, <1>t DEF EndCopy, Copies
    <2> QED BY <2>1, <2>2, <1>11, <1>t, <1>q DEF EndCopy
  <1>12. ASSUME NEW p \in Proxies, Finish(p) PROVE TypeOK'
    BY <1>12, <1>t, <1>q, <1>c DEF Finish
  <1>13. CASE Break
    BY <1>13, <1>t, <1>q DEF Break
  <1>14. CASE UNCHANGED vars
    BY <1>14, <1>t, <1>q DEF vars
  <1> QED BY <1>1, <1>2, <1>3, <1>4, <1>5, <1>6, <1>7, <1>8, <1>9, <1>10, <1>11, <1>12, <1>13, <1>14
          DEF Next, Setup, End, Proxy, InputEnds, WriteFails

\* A proxy's stage and its copies go together.
LEMMA StagesStep ==
  ASSUME TypeOK, Stages, [Next]_vars
  PROVE  Stages'
  <1>t. /\ copy \in [Proxies -> [Ways -> {"none", "copying", "done"}]]
        /\ stage \in [Proxies -> {"setup", "piping", "closed"}]
    BY DEF TypeOK
  <1>u. CASE UNCHANGED <<copy, stage>>
    BY <1>u DEF Stages
  <1>p. ASSUME NEW p \in Proxies, Pipe(p) PROVE Stages'
    BY <1>p, <1>t DEF Pipe, Stages
  <1>c. ASSUME NEW p \in Proxies, UNCHANGED copy, stage' = [stage EXCEPT ![p] = "closed"],
               \A w \in Ways : copy[p][w] # "copying"
        PROVE  Stages'
    BY <1>c, <1>t DEF Stages
  <1>1. CASE TargetDialed \/ TunnelOpens
    BY <1>1, <1>p DEF TargetDialed, TunnelOpens, Proxies
  <1>2. CASE TargetRefused \/ TunnelFails
    <2>1. \A p \in Proxies, w \in Ways : stage[p] = "setup" => copy[p][w] # "copying"
      BY DEF Stages
    <2> QED BY <1>2, <2>1, <1>c DEF TargetRefused, TunnelFails, CloseBoth, Proxies
  <1>3. ASSUME NEW p \in Proxies, NEW w \in Ways, InputEnds(p, w) \/ WriteFails(p, w) PROVE Stages'
    <2>1. UNCHANGED stage /\ stage[p] = "piping" /\ copy' = [copy EXCEPT ![p][w] = "done"]
      BY <1>3 DEF InputEnds, WriteFails, EndCopy, Copying
    <2> QED BY <2>1, <1>t DEF Stages
  <1>4. ASSUME NEW p \in Proxies, Finish(p) PROVE Stages'
    BY <1>4, <1>c DEF Finish, CloseBoth
  <1>5. CASE Break \/ UNCHANGED vars
    BY <1>5, <1>u DEF Break, vars
  <1>6. ASSUME NEW w \in Ways, NEW p \in Proxies,
               Produce(w) \/ Shut(w) \/ Consume(w) \/ SeeEOF(w) \/ Move(p, w)
        PROVE  Stages'
    BY <1>6, <1>u DEF Produce, Shut, Consume, SeeEOF, Move
  <1>7. ASSUME NEW e \in Ends, Leave(e) PROVE Stages'
    BY <1>7, <1>u DEF Leave
  <1> QED BY <1>1, <1>2, <1>3, <1>4, <1>5, <1>6, <1>7
          DEF Next, Setup, End, Proxy, Proxies

\* A step of a hop's field.
LEMMA HopStep ==
  ASSUME TypeOK, NEW w \in Ways, NEW i \in 1..3, NEW m \in 0..Room,
         hop' = [hop EXCEPT ![w][i].n = m]
  PROVE  \A v \in Ways, j \in 1..3 :
           /\ hop'[v][j].n = IF v = w /\ j = i THEN m ELSE hop[v][j].n
           /\ hop'[v][j].fin <=> hop[v][j].fin
           /\ hop'[v][j].gone <=> hop[v][j].gone
  <1>1. hop \in [Ways -> Hops]
    BY DEF TypeOK, Hops
  <1> QED BY <1>1 DEF Hops

\* A chunk moves from a hop to the next.
LEMMA MoveStep ==
  ASSUME TypeOK, NEW p \in Proxies, NEW w \in Ways, Move(p, w)
  PROVE  \A v \in Ways, j \in 1..3 :
           /\ hop'[v][j].n = IF v = w /\ j = From(p, w) THEN hop[v][j].n - 1
                             ELSE IF v = w /\ j = From(p, w) + 1 THEN hop[v][j].n + 1
                             ELSE hop[v][j].n
           /\ hop'[v][j].fin <=> hop[v][j].fin
           /\ hop'[v][j].gone <=> hop[v][j].gone
  <1>1. hop \in [Ways -> Hops]
    BY DEF TypeOK, Hops
  <1>2. \E i \in {1, 2} :
          From(p, w) = i /\ hop' = [hop EXCEPT ![w][i].n = @ - 1, ![w][i + 1].n = @ + 1]
    BY DEF Move, From
  <1> QED BY <1>1, <1>2 DEF Hops

\* Every step keeps the account of a way.
LEMMA WayStep ==
  ASSUME TunnelInv, [Next]_vars, NEW v \in Ways
  PROVE  WayInv(v)'
  <1> USE BoundAssumption
  <1>t. /\ TypeOK
        /\ hop \in [Ways -> Hops]
        /\ copy \in [Proxies -> [Ways -> {"none", "copying", "done"}]]
        /\ stage \in [Proxies -> {"setup", "piping", "closed"}]
        /\ sent \in [Ways -> Nat] /\ got \in [Ways -> Nat] /\ eof \in [Ways -> BOOLEAN]
        /\ broken \in Nat /\ left \subseteq Ends
    BY DEF TunnelInv, TypeOK, Hops
  <1>h. hop[v][1].n \in Nat /\ hop[v][2].n \in Nat /\ hop[v][3].n \in Nat
    <2>1. \A i \in 1..3 : hop[v][i].n \in Nat
      BY <1>t DEF Hops
    <2> QED BY <2>1
  <1>w. /\ First(v) \in Proxies /\ Second(v) \in Proxies /\ First(v) # Second(v)
        /\ From(First(v), v) = 1 /\ From(Second(v), v) = 2
        /\ \A p \in Proxies : p = First(v) \/ p = Second(v)
        /\ Source(v) \in Ends /\ Sink(v) \in Ends /\ Source(v) # Sink(v)
    BY WayFacts
  <1>v. /\ WayInv(v)
        /\ \A p \in Proxies : /\ stage[p] = "setup" <=> (copy[p][v] = "none" /\ stage[p] # "closed")
                              /\ stage[p] = "closed" => copy[p][v] # "copying"
    BY DEF TunnelInv, Stages
  <1>s. /\ 1 \in 1..3 /\ 2 \in 1..3 /\ 3 \in 1..3
    OBVIOUS
  <1> DEFINE SameHops == \A j \in 1..3 : /\ hop'[v][j].n = hop[v][j].n
                                         /\ hop'[v][j].fin <=> hop[v][j].fin
                                         /\ hop'[v][j].gone <=> hop[v][j].gone
             SameRest == /\ UNCHANGED <<stage, broken>>
                         /\ \A p \in Proxies : copy'[p][v] = copy[p][v]
                         /\ sent'[v] = sent[v] /\ got'[v] = got[v] /\ eof'[v] = eof[v]
                         /\ Sink(v) \in left' <=> Sink(v) \in left
  <1>u. ASSUME SameHops, SameRest PROVE WayInv(v)'
    BY <1>u, <1>v, <1>w, <1>s
    DEF WayInv, EndsAfter, Gone1, Gone2, Gone3, DoneFirst, DoneSecond, EofIsLast, Kept, Abandoned, Ended
  <1>1. ASSUME NEW w \in Ways, Produce(w) PROVE WayInv(v)'
    <2>1. /\ hop[w][1].n + 1 \in 0..Room
          /\ hop' = [hop EXCEPT ![w][1].n = hop[w][1].n + 1]
          /\ sent' = [sent EXCEPT ![w] = sent[w] + 1] /\ UNCHANGED <<copy, stage, left, got, eof, broken>>
          /\ ~hop[w][1].fin
      BY <1>1, <1>t, <1>s DEF Produce, Hops
    <2>2. \A j \in 1..3 : /\ hop'[v][j].n = IF v = w /\ j = 1 THEN hop[w][1].n + 1 ELSE hop[v][j].n
                          /\ hop'[v][j].fin <=> hop[v][j].fin
                          /\ hop'[v][j].gone <=> hop[v][j].gone
      BY <2>1, <1>s, <1>t, HopStep
    <2>3. CASE w # v
      BY <2>1, <2>2, <2>3, <1>t, <1>u
    <2>4. CASE w = v
      BY <2>1, <2>2, <2>4, <1>t, <1>h, <1>v, <1>w, <1>s
      DEF WayInv, EndsAfter, Gone1, Gone2, Gone3, DoneFirst, DoneSecond, EofIsLast, Kept, Abandoned, Ended
    <2> QED BY <2>3, <2>4
  <1>2. ASSUME NEW w \in Ways, Shut(w) PROVE WayInv(v)'
    <2>1. hop' = [hop EXCEPT ![w][1].fin = TRUE] /\ UNCHANGED <<copy, stage, left, sent, got, eof, broken>>
      BY <1>2 DEF Shut
    <2>2. \A j \in 1..3 : /\ hop'[v][j].n = hop[v][j].n
                          /\ hop'[v][j].fin <=> (v = w /\ j = 1) \/ hop[v][j].fin
                          /\ hop'[v][j].gone <=> hop[v][j].gone
      BY <2>1, <1>s, <1>t, FinStep
    <2> QED BY <2>1, <2>2, <1>t, <1>h, <1>v, <1>w, <1>s
      DEF WayInv, EndsAfter, Gone1, Gone2, Gone3, DoneFirst, DoneSecond, EofIsLast, Kept, Abandoned, Ended
  <1>3. ASSUME NEW w \in Ways, Consume(w) PROVE WayInv(v)'
    <2>1. /\ hop[w][3].n - 1 \in 0..Room /\ hop[w][3].n > 0
          /\ hop' = [hop EXCEPT ![w][3].n = hop[w][3].n - 1]
          /\ got' = [got EXCEPT ![w] = got[w] + 1] /\ UNCHANGED <<copy, stage, left, sent, eof, broken>>
      BY <1>3, <1>t, <1>s DEF Consume, Hops
    <2>2. \A j \in 1..3 : /\ hop'[v][j].n = IF v = w /\ j = 3 THEN hop[w][3].n - 1 ELSE hop[v][j].n
                          /\ hop'[v][j].fin <=> hop[v][j].fin
                          /\ hop'[v][j].gone <=> hop[v][j].gone
      BY <2>1, <1>s, <1>t, HopStep
    <2>3. CASE w # v
      BY <2>1, <2>2, <2>3, <1>t, <1>u
    <2>4. CASE w = v
      <3>1. /\ hop'[v][1].n = hop[v][1].n /\ hop'[v][2].n = hop[v][2].n
            /\ hop'[v][3].n = hop[v][3].n - 1 /\ got'[v] = got[v] + 1 /\ got[v] \in Nat
        BY <2>1, <2>2, <2>4, <1>t, <1>s
      <3>2. got'[v] + hop'[v][1].n + hop'[v][2].n + hop'[v][3].n
              = got[v] + hop[v][1].n + hop[v][2].n + hop[v][3].n
        BY <3>1, <1>h
      <3>3. Kept(v)' /\ got'[v] + hop'[v][1].n + hop'[v][2].n + hop'[v][3].n <= sent'[v]
        BY <3>2, <2>1, <1>v DEF WayInv, Kept, Abandoned
      <3>4. /\ EndsAfter(First(v), v, 2)' /\ EndsAfter(Second(v), v, 3)'
            /\ Gone1(v)' /\ Gone2(v)' /\ Gone3(v)'
        BY <2>1, <2>2, <1>v, <1>s DEF WayInv, EndsAfter, Gone1, Gone2, Gone3
      <3>5. DoneFirst(v)' /\ DoneSecond(v)' /\ EofIsLast(v)'
        BY <3>1, <2>1, <2>2, <2>4, <1>h, <1>v, <1>s
        DEF WayInv, DoneFirst, DoneSecond, EofIsLast, Abandoned, Ended
      <3> QED BY <3>3, <3>4, <3>5 DEF WayInv
    <2> QED BY <2>3, <2>4
  <1>4. ASSUME NEW w \in Ways, SeeEOF(w) PROVE WayInv(v)'
    <2>1. /\ UNCHANGED <<hop, copy, stage, left, sent, got, broken>> /\ eof' = [eof EXCEPT ![w] = TRUE]
          /\ Sink(w) \notin left /\ hop[w][3].n = 0 /\ hop[w][3].fin
      BY <1>4 DEF SeeEOF, Ended
    <2>2. CASE w # v
      BY <2>1, <2>2, <1>t, <1>u
    <2>3. CASE w = v
      BY <2>1, <2>3, <1>t, <1>v
      DEF WayInv, EndsAfter, Gone1, Gone2, Gone3, DoneFirst, DoneSecond, EofIsLast, Kept, Abandoned, Ended
    <2> QED BY <2>2, <2>3
  <1>5. ASSUME NEW e \in Ends, Leave(e) PROVE WayInv(v)'
    <2>1. /\ left' = left \cup {e} /\ e \notin left
          /\ UNCHANGED <<copy, stage, sent, got, eof, broken>>
      BY <1>5 DEF Leave
    <2>2. \A j \in 1..3 : /\ hop'[v][j].n = IF Sink(v) = e /\ j = 3 THEN 0 ELSE hop[v][j].n
                          /\ hop'[v][j].gone <=> (Sink(v) = e /\ j = 3) \/ hop[v][j].gone
                          /\ hop'[v][j].fin <=> (Source(v) = e /\ j = 1) \/ hop[v][j].fin
      BY <1>5, <1>t, LeavingEnds
    <2> QED BY <2>1, <2>2, <1>t, <1>h, <1>v, <1>w, <1>s
      DEF WayInv, EndsAfter, Gone1, Gone2, Gone3, DoneFirst, DoneSecond, EofIsLast, Kept, Abandoned, Ended
  <1>6. ASSUME NEW p \in Proxies, Pipe(p), stage[p] = "setup",
               UNCHANGED <<hop, left, sent, got, eof, broken>>
        PROVE  WayInv(v)'
    <2>1. /\ stage' = [stage EXCEPT ![p] = "piping"]
          /\ \A q \in Proxies : copy'[q][v] = IF q = p THEN "copying" ELSE copy[q][v]
      BY <1>6, <1>t DEF Pipe
    <2> QED BY <2>1, <1>6, <1>t, <1>v, <1>w
      DEF WayInv, EndsAfter, Gone1, Gone2, Gone3, DoneFirst, DoneSecond, EofIsLast, Kept, Abandoned, Ended
  <1>7. ASSUME NEW p \in Proxies, CloseBoth(p), stage[p] = "setup" \/ copy[p][v] = "done",
               UNCHANGED <<copy, left, sent, got, eof, broken>>
        PROVE  WayInv(v)'
    <2>1. /\ stage' = [stage EXCEPT ![p] = "closed"]
          /\ \A j \in 1..3 : /\ hop'[v][j].n = IF j = From(p, v) THEN 0 ELSE hop[v][j].n
                             /\ hop'[v][j].gone <=> j = From(p, v) \/ hop[v][j].gone
                             /\ hop'[v][j].fin <=> j = From(p, v) + 1 \/ hop[v][j].fin
      BY <1>7, <1>t, ClosingDrops
    <2>2. CASE p = First(v)
      BY <2>1, <2>2, <1>7, <1>t, <1>h, <1>v, <1>w, <1>s
      DEF WayInv, EndsAfter, Gone1, Gone2, Gone3, DoneFirst, DoneSecond, EofIsLast, Kept, Abandoned, Ended
    <2>3. CASE p = Second(v)
      BY <2>1, <2>3, <1>7, <1>t, <1>h, <1>v, <1>w, <1>s
      DEF WayInv, EndsAfter, Gone1, Gone2, Gone3, DoneFirst, DoneSecond, EofIsLast, Kept, Abandoned, Ended
    <2> QED BY <2>2, <2>3, <1>w
  <1>8. CASE Setup
    BY <1>6, <1>7, <1>8 DEF Setup, TargetDialed, TargetRefused, TunnelOpens, TunnelFails, Proxies
  <1>9. ASSUME NEW p \in Proxies, Finish(p) PROVE WayInv(v)'
    BY <1>7, <1>9 DEF Finish
  <1>10. ASSUME NEW p \in Proxies, NEW w \in Ways, Move(p, w) PROVE WayInv(v)'
    <2>1. /\ UNCHANGED <<copy, stage, left, sent, got, eof, broken>>
          /\ copy[p][w] = "copying" /\ stage[p] = "piping"
          /\ ~hop[w][From(p, w) + 1].gone
      BY <1>10 DEF Move, Copying
    <2>2. \A j \in 1..3 :
            /\ hop'[v][j].n = IF v = w /\ j = From(p, w) THEN hop[v][j].n - 1
                              ELSE IF v = w /\ j = From(p, w) + 1 THEN hop[v][j].n + 1
                              ELSE hop[v][j].n
            /\ hop'[v][j].fin <=> hop[v][j].fin
            /\ hop'[v][j].gone <=> hop[v][j].gone
      BY <1>10, <1>t, MoveStep
    <2>3. CASE w # v
      BY <2>1, <2>2, <2>3, <1>t, <1>u
    <2>4. ASSUME w = v PROVE WayInv(v)'
      <3>1. \/ /\ p = First(v) /\ hop'[v][1].n = hop[v][1].n - 1 /\ hop'[v][2].n = hop[v][2].n + 1
               /\ hop'[v][3].n = hop[v][3].n
            \/ /\ p = Second(v) /\ hop'[v][2].n = hop[v][2].n - 1 /\ hop'[v][3].n = hop[v][3].n + 1
               /\ hop'[v][1].n = hop[v][1].n
        BY <2>2, <2>4, <1>w, <1>s
      <3>2. hop'[v][1].n + hop'[v][2].n + hop'[v][3].n = hop[v][1].n + hop[v][2].n + hop[v][3].n
        BY <3>1, <1>h
      <3>3. got[v] \in Nat /\ hop'[v][1].n \in Int /\ hop'[v][2].n \in Int /\ hop'[v][3].n \in Int
        BY <3>1, <1>h, <1>t
      <3>4. Kept(v)' /\ got'[v] + hop'[v][1].n + hop'[v][2].n + hop'[v][3].n <= sent'[v]
        BY <3>2, <3>3, <2>1, <1>h, <1>v DEF WayInv, Kept, Abandoned
      <3>5. /\ EndsAfter(First(v), v, 2)' /\ EndsAfter(Second(v), v, 3)'
            /\ Gone1(v)' /\ Gone2(v)' /\ Gone3(v)'
        BY <2>1, <2>2, <1>v, <1>s DEF WayInv, EndsAfter, Gone1, Gone2, Gone3
      <3>6. DoneFirst(v)' /\ DoneSecond(v)' /\ EofIsLast(v)'
        BY <3>1, <2>1, <2>2, <2>4, <1>h, <1>v, <1>w, <1>s
        DEF WayInv, EndsAfter, DoneFirst, DoneSecond, EofIsLast, Abandoned, Ended
      <3> QED BY <3>4, <3>5, <3>6 DEF WayInv
    <2> QED BY <2>3, <2>4
  <1>11. ASSUME NEW p \in Proxies, NEW w \in Ways, InputEnds(p, w) \/ WriteFails(p, w) PROVE WayInv(v)'
    <2>1. /\ UNCHANGED <<stage, left, sent, got, eof, broken>>
          /\ copy[p][w] = "copying" /\ stage[p] = "piping"
          /\ copy' = [copy EXCEPT ![p][w] = "done"]
          /\ \/ hop' = hop
             \/ hop' = [hop EXCEPT ![w][From(p, w) + 1].fin = TRUE]
          /\ Ended(w, From(p, w)) \/ broken # 0 \/ hop[w][From(p, w) + 1].gone
      BY <1>11, <1>t DEF InputEnds, WriteFails, EndCopy, Copying, Failed
    <2>2. From(p, w) + 1 \in 1..3
      BY DEF From
    <2>3. \A j \in 1..3 : /\ hop'[v][j].n = hop[v][j].n
                          /\ hop'[v][j].fin => (v = w /\ j = From(p, w) + 1) \/ hop[v][j].fin
                          /\ hop[v][j].fin => hop'[v][j].fin
                          /\ hop'[v][j].gone <=> hop[v][j].gone
      BY <2>1, <2>2, <1>t, FinStep
    <2>4. \A q \in Proxies : copy'[q][v] = IF q = p /\ v = w THEN "done" ELSE copy[q][v]
      BY <2>1, <1>t
    <2>5. CASE w # v
      BY <2>1, <2>3, <2>4, <2>5, <1>u
    <2>6. CASE w = v /\ p = First(v)
      BY <2>1, <2>3, <2>4, <2>6, <1>t, <1>h, <1>v, <1>w, <1>s
      DEF WayInv, EndsAfter, Gone1, Gone2, Gone3, DoneFirst, DoneSecond, EofIsLast, Kept, Abandoned, Ended
    <2>7. CASE w = v /\ p = Second(v)
      BY <2>1, <2>3, <2>4, <2>7, <1>t, <1>h, <1>v, <1>w, <1>s
      DEF WayInv, EndsAfter, Gone1, Gone2, Gone3, DoneFirst, DoneSecond, EofIsLast, Kept, Abandoned, Ended
    <2> QED BY <2>5, <2>6, <2>7, <1>w
  <1>12. CASE Break
    BY <1>12, <1>v, <1>t
    DEF Break, WayInv, EndsAfter, Gone1, Gone2, Gone3, DoneFirst, DoneSecond, EofIsLast, Kept, Abandoned, Ended
  <1>13. CASE UNCHANGED vars
    BY <1>13, <1>u DEF vars
  <1> QED BY <1>1, <1>2, <1>3, <1>4, <1>5, <1>8, <1>9, <1>10, <1>11, <1>12, <1>13
          DEF Next, End, Proxy

LEMMA TunnelInductive == Spec => []TunnelInv
  <1>1. Init => TunnelInv
    <2> SUFFICES ASSUME Init PROVE TunnelInv
      OBVIOUS
    <2>1. /\ hop = [w \in Ways |-> [i \in 1..3 |-> [n |-> 0, fin |-> FALSE, gone |-> FALSE]]]
          /\ [n |-> 0, fin |-> FALSE, gone |-> FALSE] \in [n : 0..Room, fin : BOOLEAN, gone : BOOLEAN]
      BY BoundAssumption DEF Init
    <2>2. hop \in [Ways -> Hops]
      BY <2>1 DEF Hops
    <2>3. TypeOK
      BY <2>2, BoundAssumption DEF Init, TypeOK, Hops
    <2>4. Stages
      BY DEF Init, Stages
    <2>5. ASSUME NEW w \in Ways PROVE WayInv(w)
      BY <2>1, WayFacts
      DEF Init, WayInv, EndsAfter, Gone1, Gone2, Gone3, DoneFirst, DoneSecond, EofIsLast, Kept, Abandoned, Ended
    <2> QED BY <2>3, <2>4, <2>5 DEF TunnelInv
  <1>2. TunnelInv /\ [Next]_vars => TunnelInv'
    <2> SUFFICES ASSUME TunnelInv, [Next]_vars PROVE TunnelInv'
      OBVIOUS
    <2>1. TypeOK'
      BY TunnelTypeStep
    <2>2. Stages'
      BY StagesStep DEF TunnelInv
    <2>3. \A w \in Ways : WayInv(w)'
      BY WayStep
    <2> QED BY <2>1, <2>2, <2>3 DEF TunnelInv
  <1> QED BY <1>1, <1>2, PTL DEF Spec

\* Over an intact link, the end that reads the end of a stream has read all of
\* it, and the other end did finish it (halfPipe, bidiPipe).
THEOREM EofsAreComplete == Spec => []EofIsComplete
  <1>1. TunnelInv => EofIsComplete
    <2> SUFFICES ASSUME TunnelInv, NEW w \in Ways, eof[w], broken = 0, \A p \in Proxies : copy[p][w] # "none"
                 PROVE  got[w] = sent[w] /\ hop[w][1].fin
      BY DEF EofIsComplete
    <2>1. /\ WayInv(w) /\ First(w) \in Proxies /\ Second(w) \in Proxies
          /\ \A p \in Proxies : copy[p][w] # "none"
      BY WayFacts DEF TunnelInv
    <2>2. /\ sent \in [Ways -> Nat] /\ got \in [Ways -> Nat] 
          /\ \A i \in 1..3 : hop[w][i].n \in Nat
      BY BoundAssumption DEF TunnelInv, TypeOK
    <2>3. ~Abandoned(w) /\ Ended(w, 3)
      BY <2>1 DEF WayInv, Abandoned, EofIsLast
    <2>4. Ended(w, 2)
      BY <2>1, <2>3 DEF WayInv, DoneSecond, EndsAfter, Ended
    <2>5. Ended(w, 1)
      BY <2>1, <2>3, <2>4 DEF WayInv, DoneFirst, EndsAfter, Ended
    <2>6. sent[w] = got[w] + hop[w][1].n + hop[w][2].n + hop[w][3].n
      BY <2>1, <2>3 DEF WayInv, Kept
    <2> QED BY <2>2, <2>3, <2>4, <2>5, <2>6 DEF Ended
  <1> QED BY <1>1, TunnelInductive, PTL

----------------------------------------------------------------------------
(* Together.                                                               *)

\* A `vssh fwd` process of any kind is a behaviour of each component, the ones
\* it is not about staying as they began; all of them are well-typed.
THEOREM ForwardingTypes == MCSpec => []AllTypeOK
  <1>1. MCInit => Init /\ ReverseInit /\ UdpInit
    BY DEF MCInit
  <1>2. [MCNext]_allVars => [Next]_vars /\ [ReverseNext]_reverseVars /\ [UdpNext]_udpVars
    BY DEF MCNext, allVars
  <1>3. MCInit /\ [][MCNext]_allVars => Spec /\ ReverseSpec /\ UdpSpec
    BY <1>1, <1>2, PTL DEF Spec, ReverseSpec, UdpSpec
  <1>4. TunnelInv /\ ReverseInv /\ UdpInv => AllTypeOK
    BY DEF TunnelInv, ReverseInv, UdpInv, AllTypeOK
  <1> QED BY <1>3, <1>4, TunnelInductive, ReverseInductive, UdpInductive, PTL DEF MCSpec

=============================================================================
