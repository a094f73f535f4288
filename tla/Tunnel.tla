------------------------------- MODULE Tunnel -------------------------------
(***************************************************************************)
(* One tunneled connection of `vssh fwd`, from the application's socket to *)
(* the target's: ForwardLocal, fwdOpenTunnel, halfPipe, bidiPipe and       *)
(* HandleForward of internal/server/forward.go, fmuxServeStream of fmux.go.*)
(*                                                                         *)
(*   app --1-- client proxy --2-- daemon proxy --3-- target                *)
(*                                                                         *)
(* Each proxy runs two copy goroutines, one per direction, and closes both *)
(* its connections when both have ended.  What differs is the link in the  *)
(* middle: a yamux stream of an FMUX session, or a connection of its own,  *)
(* plain TCP or TLS.  A hop is a bounded FIFO; its bytes are only counted. *)
(***************************************************************************)
EXTENDS Naturals

CONSTANTS Links,     \* the links the tunnel may have: "fmux", "plain", "tls"
          MaxSent,   \* bound: chunks sent in each direction
          Room,      \* chunks a hop buffers
          MaxBreaks  \* bound: failures of the link

ASSUME LinkAssumption == Links \subseteq {"fmux", "plain", "tls"}
ASSUME BoundAssumption == MaxSent \in Nat /\ Room \in Nat \ {0} /\ MaxBreaks \in Nat

Ways    == {"up", "down"}     \* app to target, target to app
Proxies == {"client", "daemon"}
Ends    == {"app", "target"}

VARIABLES
  link,    \* what joins the two proxies of this tunnel
  hop,     \* the three hops of each way: chunks, writer ended, reader gone
  copy,    \* the copy goroutine of each proxy and way
  stage,   \* each proxy: setting up, piping, or closed
  asked,   \* the daemon's answer to the FWD line, until the client reads it
  left,    \* the ends that closed their socket
  sent,    \* chunks the source of each way wrote
  got,     \* chunks its sink read
  eof,     \* its sink read the end of the stream
  broken   \* how often the link failed (0 or 1: it does not come back)

vars == <<link, hop, copy, stage, asked, left, sent, got, eof, broken>>

TypeOK ==
  /\ link \in Links
  /\ hop \in [Ways -> [1..3 -> [n : 0..Room, fin : BOOLEAN, gone : BOOLEAN]]]
  /\ copy \in [Proxies -> [Ways -> {"none", "copying", "done"}]]
  /\ stage \in [Proxies -> {"setup", "piping", "closed"}]
  /\ asked \in {"none", "ok", "refused"}
  /\ left \subseteq Ends
  /\ sent \in [Ways -> 0..MaxSent]
  /\ got \in [Ways -> 0..MaxSent]
  /\ eof \in [Ways -> BOOLEAN]
  /\ broken \in 0..1

Init ==
  /\ link \in Links
  /\ hop = [w \in Ways |-> [i \in 1..3 |-> [n |-> 0, fin |-> FALSE, gone |-> FALSE]]]
  /\ copy = [p \in Proxies |-> [w \in Ways |-> "none"]]
  /\ stage = [p \in Proxies |-> "setup"]
  /\ asked = "none"
  /\ left = {}
  /\ sent = [w \in Ways |-> 0]
  /\ got = [w \in Ways |-> 0]
  /\ eof = [w \in Ways |-> FALSE]
  /\ broken = 0

----------------------------------------------------------------------------
Source(w) == IF w = "up" THEN "app" ELSE "target"
Sink(w)   == IF w = "up" THEN "target" ELSE "app"

\* The hop a proxy reads from, the next one is the hop it writes to.
From(p, w) == IF (p = "client") = (w = "up") THEN 1 ELSE 2

\* The target's socket exists once the daemon dialed it.
Connected(e) == e = "app" \/ stage["daemon"] # "setup"

\* An operation on hop i of the link fails once the link is broken.
Failed(i) == i = 2 /\ broken > 0

Ended(w, i) == hop[w][i].n = 0 /\ hop[w][i].fin

----------------------------------------------------------------------------
(* The application and the target.                                         *)

Produce(w) ==
  /\ Connected(Source(w)) /\ Source(w) \notin left
  /\ ~hop[w][1].fin /\ ~hop[w][1].gone
  /\ sent[w] < MaxSent
  /\ hop[w][1].n < Room
  /\ hop' = [hop EXCEPT ![w][1].n = @ + 1]
  /\ sent' = [sent EXCEPT ![w] = @ + 1]
  /\ UNCHANGED <<copy, stage, asked, left, got, eof, broken, link>>

\* shutdown(SHUT_WR): the source is finished but still reads.
Shut(w) ==
  /\ Connected(Source(w)) /\ Source(w) \notin left
  /\ ~hop[w][1].fin
  /\ hop' = [hop EXCEPT ![w][1].fin = TRUE]
  /\ UNCHANGED <<copy, stage, asked, left, sent, got, eof, broken, link>>

Consume(w) ==
  /\ Sink(w) \notin left
  /\ hop[w][3].n > 0
  /\ hop' = [hop EXCEPT ![w][3].n = @ - 1]
  /\ got' = [got EXCEPT ![w] = @ + 1]
  /\ UNCHANGED <<copy, stage, asked, left, sent, eof, broken, link>>

SeeEOF(w) ==
  /\ Sink(w) \notin left
  /\ Ended(w, 3)
  /\ ~eof[w]
  /\ eof' = [eof EXCEPT ![w] = TRUE]
  /\ UNCHANGED <<hop, copy, stage, asked, left, sent, got, broken, link>>

\* close(2) of an end: nothing more is written, nothing more is read.
Leave(e) ==
  /\ Connected(e) /\ e \notin left
  /\ left' = left \cup {e}
  /\ hop' = [w \in Ways |-> IF Source(w) = e THEN [hop[w] EXCEPT ![1].fin = TRUE]
                            ELSE [hop[w] EXCEPT ![3] = [@ EXCEPT !.gone = TRUE, !.n = 0]]]
  /\ UNCHANGED <<copy, stage, asked, sent, got, eof, broken, link>>

----------------------------------------------------------------------------
(* Setting up: FWD and its answer.                                         *)

Pipe(p) ==
  /\ stage' = [stage EXCEPT ![p] = "piping"]
  /\ copy' = [copy EXCEPT ![p] = [w \in Ways |-> "copying"]]

\* What closing both connections of a proxy does to the four hops it touches.
Closed(p, h) ==
  [w \in Ways |-> [i \in 1..3 |->
     IF i = From(p, w) THEN [h[w][i] EXCEPT !.gone = TRUE, !.n = 0]
     ELSE IF i = From(p, w) + 1 THEN [h[w][i] EXCEPT !.fin = TRUE]
     ELSE h[w][i]]]

CloseBoth(p) ==
  /\ stage' = [stage EXCEPT ![p] = "closed"]
  /\ hop' = Closed(p, hop)

\* HandleForward, fmuxServeStream: the target is dialed and FWD_OK written.
TargetDialed ==
  /\ stage["daemon"] = "setup"
  /\ Pipe("daemon")
  /\ asked' = "ok"
  /\ UNCHANGED <<hop, left, sent, got, eof, broken, link>>

\* The target is unreachable: a typed error, and the handler returns.
TargetRefused ==
  /\ stage["daemon"] = "setup"
  /\ asked' = "refused"
  /\ CloseBoth("daemon")
  /\ UNCHANGED <<copy, left, sent, got, eof, broken, link>>

\* fwdOpenTunnel reads FWD_OK within its deadline: the client pipes.
TunnelOpens ==
  /\ stage["client"] = "setup"
  /\ asked = "ok"
  /\ broken = 0
  /\ Pipe("client")
  /\ UNCHANGED <<hop, asked, left, sent, got, eof, broken, link>>

\* It reads an error, the 15 s pass, or the link fails: both sockets close.
TunnelFails ==
  /\ stage["client"] = "setup"
  /\ CloseBoth("client")
  /\ UNCHANGED <<copy, asked, left, sent, got, eof, broken, link>>

----------------------------------------------------------------------------
(* The proxies.                                                            *)

Copying(p, w) == stage[p] = "piping" /\ copy[p][w] = "copying"

\* Mutant: only sockets are half-closed, never the link.
CanHalfClose_Sockets(p, i) == i # 2

\* Mutant: the daemon's loop never half-closes its link.
CanHalfClose_ClientOnly(p, i) == i # 2 \/ p = "client"

\* Which writers a proxy can half-close: a TCP socket always, the link if its
\* type has a CloseWrite that the loop looks for.  halfPipe asks for any, the
\* loop of HandleForward for *net.TCPConn only; a yamux stream has none.
CanHalfClose(p, i) ==
  \/ i # 2
  \/ link = "plain"
  \/ link = "tls" /\ p = "client"

\* halfPipe: io.Copy returned, for whatever reason, and the far side is told
\* where that is possible.
EndCopy(p, w) ==
  LET out == From(p, w) + 1 IN
  /\ copy' = [copy EXCEPT ![p][w] = "done"]
  /\ hop' = IF CanHalfClose(p, out) THEN [hop EXCEPT ![w][out].fin = TRUE] ELSE hop
  /\ UNCHANGED <<stage, asked, left, sent, got, eof, broken, link>>

\* Mutant: the writer does not wait for room.
Move_NoRoom(p, w) ==
  LET i == From(p, w) IN
  /\ Copying(p, w)
  /\ ~Failed(i + 1)
  /\ hop[w][i].n > 0
  /\ ~hop[w][i + 1].gone
  /\ hop' = [hop EXCEPT ![w][i].n = @ - 1, ![w][i + 1].n = @ + 1]
  /\ UNCHANGED <<copy, stage, asked, left, sent, got, eof, broken, link>>

\* What had arrived before the link broke can still be read.
Move(p, w) ==
  LET i == From(p, w) IN
  /\ Copying(p, w)
  /\ ~Failed(i + 1)
  /\ hop[w][i].n > 0 /\ hop[w][i + 1].n < Room
  /\ ~hop[w][i + 1].gone
  /\ hop' = [hop EXCEPT ![w][i].n = @ - 1, ![w][i + 1].n = @ + 1]
  /\ UNCHANGED <<copy, stage, asked, left, sent, got, eof, broken, link>>

InputEnds(p, w) ==
  /\ Copying(p, w)
  /\ Ended(w, From(p, w)) \/ Failed(From(p, w))
  /\ EndCopy(p, w)

\* Mutant: a full buffer is taken for a failed write.
WriteFails_Full(p, w) ==
  LET i == From(p, w) IN
  /\ Copying(p, w)
  /\ hop[w][i].n > 0
  /\ hop[w][i + 1].gone \/ hop[w][i + 1].n = Room \/ Failed(i + 1)
  /\ EndCopy(p, w)

\* The chunk that was read is lost with the failed write.
WriteFails(p, w) ==
  LET i == From(p, w) IN
  /\ Copying(p, w)
  /\ hop[w][i].n > 0
  /\ hop[w][i + 1].gone \/ Failed(i + 1)
  /\ EndCopy(p, w)

\* Mutant: the proxy waits for one of its halves only.
Finish_First(p) ==
  /\ stage[p] = "piping"
  /\ \E w \in Ways : copy[p][w] = "done"
  /\ CloseBoth(p)
  /\ UNCHANGED <<copy, asked, left, sent, got, eof, broken, link>>

\* Both halves ended: the deferred closes run.
Finish(p) ==
  /\ stage[p] = "piping"
  /\ \A w \in Ways : copy[p][w] = "done"
  /\ CloseBoth(p)
  /\ UNCHANGED <<copy, asked, left, sent, got, eof, broken, link>>

\* The session or the connection in the middle dies.
Break ==
  /\ broken = 0
  /\ broken < MaxBreaks
  /\ broken' = 1
  /\ UNCHANGED <<hop, copy, stage, asked, left, sent, got, eof, link>>

----------------------------------------------------------------------------
End(e) == Leave(e) \/ \E w \in Ways : (Source(w) = e /\ (Produce(w) \/ Shut(w)))
                                      \/ (Sink(w) = e /\ (Consume(w) \/ SeeEOF(w)))

Setup == TargetDialed \/ TargetRefused \/ TunnelOpens \/ TunnelFails

Proxy(p) == Finish(p) \/ \E w \in Ways : Move(p, w) \/ InputEnds(p, w) \/ WriteFails(p, w)

Next == Setup \/ Break \/ (\E e \in Ends : End(e)) \/ (\E p \in Proxies : Proxy(p))

Spec == Init /\ [][Next]_vars

\* The goroutines of the proxies run, the dials and reads of the set-up have
\* deadlines, and the two ends read what arrives; they need never write,
\* shut down or close.
FairStep ==
  \/ TargetDialed \/ TargetRefused \/ TunnelOpens \/ TunnelFails
  \/ \E w \in Ways : Consume(w) \/ SeeEOF(w)
  \/ \E p \in Proxies : Proxy(p)

\* No step can be repeated for ever, each moves a bounded number of chunks or
\* ends something: so fairness of the union is fairness of every one of them.
FairSpec == Spec /\ WF_vars(FairStep)

----------------------------------------------------------------------------
\* An end that reads the end of the stream through an intact, established
\* tunnel has read everything, and the other end did finish (halfPipe closes
\* on every return of io.Copy, errors included).
EofIsComplete ==
  \A w \in Ways : eof[w] /\ broken = 0 /\ (\A p \in Proxies : copy[p][w] # "none") =>
    got[w] = sent[w] /\ hop[w][1].fin

\* Nothing that was sent gets stuck: it is read, unless an end left, the link
\* broke or the tunnel never came to be (Move, bidiPipe).
DataArrives ==
  \A w \in Ways : (sent[w] > got[w]) ~>
    (sent[w] = got[w] \/ left # {} \/ broken > 0 \/ stage["client"] = "closed")

\* Both directions of the link are full.  A copy that ended on a failed write
\* no longer reads, so the two other copies may wait for room for ever.
Jammed == \A w \in Ways : hop[w][2].n = Room

\* When both ends closed their sockets the tunnel goes away, at both proxies,
\* if it has a connection of its own that is not jammed (HandleForward) ...
OwnLinkEnds ==
  (link # "fmux" /\ left = Ends) ~> ((\A p \in Proxies : stage[p] = "closed") \/ []Jammed)

\* ... and, as bidiPipe says ("shuttles bytes both ways ... until both
\* close"), whatever it has.
BothCloseEnds == (left = Ends) ~> (\A p \in Proxies : stage[p] = "closed")

\* halfPipe "half-closes dst's write side so the peer observes EOF": over a
\* connection of its own the target learns that the application is finished,
\* and over a plain one the application that the target is (HandleForward).
EOFIsObserved ==
  /\ (link # "fmux" /\ hop["up"][1].fin) ~>
       (eof["up"] \/ "target" \in left \/ stage["daemon"] = "closed" \/ broken > 0)
  /\ (link = "plain" /\ hop["down"][1].fin) ~> (eof["down"] \/ "app" \in left \/ broken > 0)
=============================================================================
