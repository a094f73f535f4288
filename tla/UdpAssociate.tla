---------------------------- MODULE UdpAssociate ----------------------------
(***************************************************************************)
(* One connection to the SOCKS5 proxy of `vssh fwd -D`: socksServe and     *)
(* socksUDPAssociate of internal/server/forward.go, and the UDP stream of  *)
(* fmuxServeStream with its frames in fmux.go.                             *)
(*                                                                         *)
(*   app ~udp~ client proxy --stream of an FMUX session-- daemon ~udp~ ... *)
(*                                                                         *)
(* The application keeps a TCP connection to the proxy for as long as it   *)
(* wants its datagrams relayed.  The proxy runs three goroutines for it,   *)
(* the daemon two.  A datagram is its kind: good; ignored, being short or  *)
(* a fragment; or bad, with an address that the daemon cannot parse or a   *)
(* name that it cannot resolve.  What CONNECT opens is a tunnel (Tunnel).  *)
(***************************************************************************)
EXTENDS Naturals, Sequences

CONSTANTS Apps,         \* the UDP addresses the application sends from
          Nowhere,
          MaxDatagrams, \* bound: datagrams sent, and answers to them
          StreamRoom,   \* frames each way of the stream buffers
          MayCut        \* bound: whether the session may be lost

ASSUME UdpAssumption ==
  /\ Nowhere \notin Apps
  /\ MaxDatagrams \in Nat /\ StreamRoom \in Nat \ {0} /\ MayCut \in BOOLEAN

Kinds == {"good", "ignored", "bad"}

VARIABLES
  socks,     \* socksServe
  control,   \* the application's TCP connection is open
  socket,    \* the proxy's UDP socket
  runs,      \* the goroutines of the proxy that copy datagrams
  heard,     \* peer: the address a datagram came from last
  stream,    \* the frames on their way, and whether the proxy closed its end
  relay,     \* the daemon's handler of the stream
  lost,      \* the session is broken
  datagrams, \* how many there were
  spoilt     \* history: a bad one was sent on

udpVars == <<socks, control, socket, runs, heard, stream, relay, lost, datagrams, spoilt>>

UdpTypeOK ==
  /\ socks \in {"request", "asked", "relaying", "tunnel", "closed"}
  /\ control \in BOOLEAN /\ lost \in BOOLEAN /\ spoilt \in BOOLEAN
  /\ socket \in {"none", "open", "closed"}
  /\ runs \subseteq {"toDaemon", "toApp"}
  /\ heard \in Apps \cup {Nowhere}
  /\ stream \in [up : Seq({"good", "bad"}), down : 0..StreamRoom, closed : BOOLEAN]
  /\ Len(stream.up) <= StreamRoom
  /\ relay \in {"none", "serving", "refused", "ended"}
  /\ datagrams \in [out : 0..MaxDatagrams, back : 0..MaxDatagrams]

UdpInit ==
  /\ socks = "request" /\ control = TRUE
  /\ socket = "none" /\ runs = {} /\ heard = Nowhere
  /\ stream = [up |-> <<>>, down |-> 0, closed |-> FALSE]
  /\ relay = "none" /\ lost = FALSE
  /\ datagrams = [out |-> 0, back |-> 0] /\ spoilt = FALSE

----------------------------------------------------------------------------
(* The proxy.                                                              *)

\* A request that is no good or that nothing comes of: fc.open fails, there
\* is no tunnel; or CONNECT opens one.
Answered ==
  /\ socks = "request"
  /\ socks' \in {"closed"} \cup (IF control THEN {"tunnel"} ELSE {})
  /\ UNCHANGED <<control, socket, runs, heard, stream, relay, lost, datagrams, spoilt>>

\* UDP ASSOCIATE: a stream is opened and "UDP" written on it.
Associate ==
  /\ socks = "request" /\ control
  /\ socks' = "asked"
  /\ UNCHANGED <<control, socket, runs, heard, stream, relay, lost, datagrams, spoilt>>

\* UDP_OK is read: the proxy opens its socket and tells the application of it.
Granted ==
  /\ socks = "asked" /\ relay = "serving" /\ ~lost
  /\ socks' = "relaying" /\ socket' = "open" /\ runs' = {"toDaemon", "toApp"}
  /\ UNCHANGED <<control, heard, stream, relay, lost, datagrams, spoilt>>

\* socksUDPAssociate returns: no UDP_OK within 15 s or no socket, or the
\* application closed its connection.
Returns ==
  /\ socks = "asked" \/ (socks = "relaying" /\ ~control)
  /\ socks' = "closed"
  /\ socket' = IF socket = "open" THEN "closed" ELSE socket
  /\ stream' = [stream EXCEPT !.closed = TRUE]
  /\ UNCHANGED <<control, runs, heard, relay, lost, datagrams, spoilt>>

\* A datagram of the application is read and, unless it is ignored, written
\* as a frame to the stream, once that has room for it.
ToDaemon(a, k) ==
  /\ "toDaemon" \in runs /\ socket = "open" /\ datagrams.out < MaxDatagrams
  /\ datagrams' = [datagrams EXCEPT !.out = @ + 1]
  /\ heard' = a
  /\ IF k = "ignored" THEN UNCHANGED stream
     ELSE Len(stream.up) < StreamRoom /\ stream' = [stream EXCEPT !.up = Append(@, k)]
  /\ spoilt' = (spoilt \/ k = "bad")
  /\ UNCHANGED <<socks, control, socket, runs, relay, lost>>

\* Its read or its write fails.
ToDaemonEnds ==
  /\ "toDaemon" \in runs
  /\ socket = "closed" \/ stream.closed \/ lost
  /\ runs' = runs \ {"toDaemon"}
  /\ UNCHANGED <<socks, control, socket, heard, stream, relay, lost, datagrams, spoilt>>

\* Mutant: an answer that nobody can be given ends the goroutine.
ToApp_NobodyEnds ==
  /\ "toApp" \in runs /\ stream.down > 0
  /\ stream' = [stream EXCEPT !.down = @ - 1]
  /\ IF heard = Nowhere THEN runs' = runs \ {"toApp"} /\ socket' = "closed" ELSE UNCHANGED <<runs, socket>>
  /\ UNCHANGED <<socks, control, heard, relay, lost, datagrams, spoilt>>

\* A frame from the daemon is for the address heard last, or for nobody.
ToApp ==
  /\ "toApp" \in runs /\ stream.down > 0
  /\ stream' = [stream EXCEPT !.down = @ - 1]
  /\ UNCHANGED <<socks, control, socket, runs, heard, relay, lost, datagrams, spoilt>>

\* The stream has ended: the socket goes, the association does not.
ToAppEnds ==
  /\ "toApp" \in runs
  /\ lost \/ (relay = "ended" /\ stream.down = 0)
  /\ runs' = runs \ {"toApp"} /\ socket' = "closed"
  /\ UNCHANGED <<socks, control, heard, stream, relay, lost, datagrams, spoilt>>

----------------------------------------------------------------------------
(* The daemon.                                                             *)

\* The header is read, if it gets there; there may be no socket for it.
ServeUdp ==
  /\ socks # "request" /\ socks # "tunnel" /\ (socks = "closed" => stream.closed)
  /\ relay = "none"
  /\ relay' \in {"serving", "refused"} \cup (IF lost THEN {"ended"} ELSE {})
  /\ UNCHANGED <<socks, control, socket, runs, heard, stream, lost, datagrams, spoilt>>

\* readUDPFrame, and the datagram is sent to its target, or the frame is bad
\* and the handler returns.
Forward ==
  /\ relay = "serving" /\ stream.up # <<>>
  /\ stream' = [stream EXCEPT !.up = Tail(@)]
  /\ relay' = IF Head(stream.up) = "bad" THEN "ended" ELSE relay
  /\ UNCHANGED <<socks, control, socket, runs, heard, lost, datagrams, spoilt>>

\* A datagram, of a target or of anybody else, is packed into a frame.
PackReply ==
  /\ relay = "serving" /\ ~lost
  /\ datagrams.back < MaxDatagrams /\ stream.down < StreamRoom
  /\ datagrams' = [datagrams EXCEPT !.back = @ + 1]
  /\ stream' = [stream EXCEPT !.down = @ + 1]
  /\ UNCHANGED <<socks, control, socket, runs, heard, relay, lost, spoilt>>

\* Mutant: the daemon waits for its keepalive only.
RelayEnds_LostOnly ==
  /\ relay \in {"serving", "refused"} /\ lost
  /\ relay' = "ended"
  /\ UNCHANGED <<socks, control, socket, runs, heard, stream, lost, datagrams, spoilt>>

\* The stream ends, or the error is all there was to say: stream and socket
\* are closed.
RelayEnds ==
  /\ \/ relay = "serving" /\ (lost \/ (stream.closed /\ stream.up = <<>>))
     \/ relay = "refused"
  /\ relay' = "ended"
  /\ UNCHANGED <<socks, control, socket, runs, heard, stream, lost, datagrams, spoilt>>

----------------------------------------------------------------------------
AppCloses ==
  /\ control
  /\ control' = FALSE
  /\ UNCHANGED <<socks, socket, runs, heard, stream, relay, lost, datagrams, spoilt>>

SessionBreaks ==
  /\ MayCut /\ ~lost /\ socks # "request"
  /\ lost' = TRUE
  /\ UNCHANGED <<socks, control, socket, runs, heard, stream, relay, datagrams, spoilt>>

\* What the goroutines of both programs do without the application, the
\* targets or the network: each step uses up a frame or takes one of them on.
UdpFairStep ==
  \/ Answered \/ Returns \/ ToDaemonEnds \/ ToApp \/ ToAppEnds
  \/ ServeUdp \/ Forward \/ RelayEnds

UdpNext ==
  \/ UdpFairStep \/ Associate \/ Granted \/ PackReply \/ AppCloses \/ SessionBreaks
  \/ \E a \in Apps, k \in Kinds : ToDaemon(a, k)

UdpSpec == UdpInit /\ [][UdpNext]_udpVars
UdpFairSpec == UdpSpec /\ WF_udpVars(UdpFairStep)

----------------------------------------------------------------------------
\* "The association lives exactly as long as the TCP control connection":
\* while that is open, and as long as no bad datagram was sent on and the
\* session holds, all its goroutines and both sockets are there, whatever
\* comes and goes in which order (socksUDPAssociate, fmuxServeStream).
RelayLives ==
  socks = "relaying" /\ control /\ ~lost /\ ~spoilt =>
    socket = "open" /\ runs = {"toDaemon", "toApp"} /\ relay = "serving"

\* When the application closes its connection, nothing of the association
\* stays: no goroutine, no socket, on neither machine.
Left == runs = {} /\ socket # "open" /\ (socks = "closed" /\ stream.closed => relay = "ended")
AssociationEnds == ~control ~> (socks \in {"closed", "tunnel"} /\ Left)
=============================================================================
