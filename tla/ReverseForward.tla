--------------------------- MODULE ReverseForward ---------------------------
(***************************************************************************)
(* `vssh fwd -R`: ForwardRemote, HandleReverseForward and                  *)
(* HandleReverseData of internal/server/forward.go, the RFWD stream and    *)
(* fmuxClient of fmux.go.                                                  *)
(*                                                                         *)
(* The daemon binds a port for the client and hands every connection it    *)
(* accepts back to it.  Over FMUX it opens a stream per connection.  The   *)
(* older form announces the connection on the control connection and keeps *)
(* it in revPending until the client claims it with RDATA on a connection  *)
(* of its own, or the reaper closes it.                                    *)
(*                                                                         *)
(* A session is one control connection.  A broken one is noticed by each   *)
(* side in its own time (keepalives); a new dial works at once.  Dials     *)
(* that fail over FMUX are retried, so they are left out.                  *)
(***************************************************************************)
EXTENDS Naturals, FiniteSets

CONSTANTS Peers,        \* the connections made to the bound port
          MaxSessions,  \* bound: sessions the client opens
          MaxCuts,      \* bound: sessions that break
          MaxRestarts,  \* bound: restarts of the daemon
          MaxFaults     \* bound: slow FMUX_OKs and failed Accepts

ASSUME ReverseAssumption ==
  MaxSessions \in Nat /\ MaxCuts \in Nat /\ MaxRestarts \in Nat /\ MaxFaults \in Nat

Sessions == 1..MaxSessions

VARIABLES
  client,   \* the loop of ForwardRemote and the session it is about
  dead,     \* fmuxClient.dead: the daemon is taken for one without FMUX
  session,  \* both ends of every session
  cut,      \* the sessions whose link is broken
  port,     \* the session whose listener holds the port, 0 if none
  peer,     \* the daemon's side of each accepted connection
  offer,    \* the client's goroutine for it
  faults    \* how many restarts and other faults there were

reverseVars == <<client, dead, session, cut, port, peer, offer, faults>>

ReverseTypeOK ==
  /\ client \in [at : {"open", "legacy", "ask", "serving", "stopped", "exited"},
                 s : 0..MaxSessions]
  /\ dead \in BOOLEAN
  /\ session \in [Sessions -> [kind : {"fmux", "legacy"}, here : {"none", "up", "down"},
                   there : {"none", "asked", "listening", "refused", "ended", "down"}]]
  /\ cut \subseteq Sessions
  /\ port \in 0..MaxSessions
  /\ peer \in [Peers -> [at : {"none", "backlog", "registered", "pending", "streaming",
                               "reaped", "closed"}, s : 0..MaxSessions]]
  /\ offer \in [Peers -> {"none", "sent", "dialing", "confirmed", "piping", "ended"}]
  /\ faults \in [restarts : 0..MaxRestarts, others : 0..MaxFaults]

ReverseInit ==
  /\ client = [at |-> "open", s |-> 0]
  /\ dead = FALSE
  /\ session = [s \in Sessions |-> [kind |-> "fmux", here |-> "none", there |-> "none"]]
  /\ cut = {}
  /\ port = 0
  /\ peer = [p \in Peers |-> [at |-> "none", s |-> 0]]
  /\ offer = [p \in Peers |-> "none"]
  /\ faults = [restarts |-> 0, others |-> 0]

----------------------------------------------------------------------------
(* The client's loop.                                                      *)

Running == client.at \notin {"stopped", "exited"}

\* A session of the given kind is dialed and RFWD written on it.
OpenSession(kind) ==
  LET s == client.s + 1 IN
  /\ s \in Sessions
  /\ session' = [session EXCEPT ![s] = [kind |-> kind, here |-> "up", there |-> "asked"]]
  /\ client' = [at |-> "ask", s |-> s]

OpenFmux ==
  /\ client.at = "open" /\ ~dead
  /\ OpenSession("fmux")
  /\ UNCHANGED <<dead, cut, port, peer, offer, faults>>

\* FMUX_OK does not come within 10 s: no FMUX any more, here the older form.
FmuxTooSlow ==
  /\ client.at = "open" /\ ~dead
  /\ faults.others < MaxFaults
  /\ faults' = [faults EXCEPT !.others = @ + 1]
  /\ dead' = TRUE
  /\ client' = [client EXCEPT !.at = "legacy"]
  /\ UNCHANGED <<session, cut, port, peer, offer>>

OpenLegacy ==
  /\ client.at = "legacy"
  /\ OpenSession("legacy")
  /\ UNCHANGED <<dead, cut, port, peer, offer, faults>>

\* RFWD_OK is read: the accept loop starts.
Serve ==
  /\ client.at = "ask"
  /\ client.s \notin cut
  /\ session[client.s].there = "listening"
  /\ client' = [client EXCEPT !.at = "serving"]
  /\ UNCHANGED <<dead, session, cut, port, peer, offer, faults>>

\* What is left of the client's goroutines when its process ends.
Gone(at) ==
  /\ client' = [client EXCEPT !.at = at]
  /\ session' = [s \in Sessions |-> IF session[s].here = "up"
                                    THEN [session[s] EXCEPT !.here = "down"] ELSE session[s]]
  /\ offer' = [p \in Peers |-> IF offer[p] = "none" THEN "none" ELSE "ended"]

\* The daemon refused the bind: "no point retrying", ForwardRemote returns.
Refused ==
  /\ client.at = "ask"
  /\ client.s \notin cut
  /\ session[client.s].there = "refused"
  /\ Gone("exited")
  /\ UNCHANGED <<dead, cut, port, peer, faults>>

\* The session ended under the client: a failed read of the answer, of the
\* next ACCEPT or stream, or the end of the control stream.  Over FMUX the
\* session is closed and another one opened 2 s later.
SessionLost ==
  LET s == client.s IN
  /\ client.at \in {"ask", "serving"}
  /\ s \in cut \/ session[s].there \in {"ended", "down"}
  /\ IF session[s].kind = "fmux"
       THEN /\ client' = [client EXCEPT !.at = "open"]
            /\ session' = [session EXCEPT ![s].here = "down"]
            /\ offer' = [p \in Peers |-> IF peer[p].s = s /\ offer[p] # "none"
                                         THEN "ended" ELSE offer[p]]
       ELSE Gone("exited")
  /\ UNCHANGED <<dead, cut, port, peer, faults>>

\* Ctrl-C.
Stop ==
  /\ Running
  /\ Gone("stopped")
  /\ UNCHANGED <<dead, cut, port, peer, faults>>

----------------------------------------------------------------------------
(* The daemon's control handler.                                           *)

\* net.Listen on the port: one listener has it, the others are refused.
Bind(s) ==
  /\ session[s].there = "asked"
  /\ IF port = 0
       THEN port' = s /\ session' = [session EXCEPT ![s].there = "listening"]
       ELSE session' = [session EXCEPT ![s].there = "refused"] /\ UNCHANGED port
  /\ UNCHANGED <<client, dead, cut, peer, offer, faults>>

Released(s) == IF port = s THEN 0 ELSE port

\* Mutant: nobody reads the control stream to its end.
ControlEnds_Unread(s) ==
  /\ session[s].there \in {"asked", "refused", "ended"}
  /\ s \in cut \/ session[s].here = "down"
  /\ session' = [session EXCEPT ![s].there = "down"]
  /\ port' = Released(s)
  /\ UNCHANGED <<client, dead, cut, peer, offer, faults>>

\* The reader of the control stream sees its end, or a keepalive fails, and
\* closes the listener.
ControlEnds(s) ==
  /\ session[s].there \in {"asked", "listening", "refused", "ended"}
  /\ s \in cut \/ session[s].here = "down"
  /\ session' = [session EXCEPT ![s].there = "down"]
  /\ port' = Released(s)
  /\ UNCHANGED <<client, dead, cut, peer, offer, faults>>

\* The accept loop of the older form is writing an ACCEPT line.
Announcing(s) == \E p \in Peers : peer[p] = [at |-> "registered", s |-> s]

\* Accept fails (too many open files): the handler returns.
AcceptFails(s) ==
  /\ session[s].there = "listening" /\ ~Announcing(s)
  /\ faults.others < MaxFaults
  /\ faults' = [faults EXCEPT !.others = @ + 1]
  /\ session' = [session EXCEPT ![s].there = "ended"]
  /\ port' = Released(s)
  /\ UNCHANGED <<client, dead, cut, peer, offer>>

----------------------------------------------------------------------------
(* One accepted connection.                                                *)

\* A peer connects: the kernel queues it at the listener.
Arrive(p) ==
  /\ peer[p].at = "none"
  /\ port # 0
  /\ peer' = [peer EXCEPT ![p] = [at |-> "backlog", s |-> port]]
  /\ UNCHANGED <<client, dead, session, cut, port, offer, faults>>

\* The listener it was queued at is closed.
Dropped(p) ==
  /\ peer[p].at = "backlog"
  /\ port # peer[p].s
  /\ peer' = [peer EXCEPT ![p].at = "closed"]
  /\ UNCHANGED <<client, dead, session, cut, port, offer, faults>>

\* FMUX opens a stream with "RCONN" to the client; the older form first
\* enters the connection in revPending.
Accept(p) ==
  /\ peer[p].at = "backlog"
  /\ port = peer[p].s /\ ~Announcing(port)
  /\ IF session[port].kind = "fmux"
       THEN /\ peer' = [peer EXCEPT ![p].at = "streaming"]
            /\ offer' = [offer EXCEPT ![p] = "sent"]
       ELSE peer' = [peer EXCEPT ![p].at = "registered"] /\ UNCHANGED offer
  /\ UNCHANGED <<client, dead, session, cut, port, faults>>

\* "ACCEPT id" goes out and the reaper is armed ...
Announce(p) ==
  /\ peer[p].at = "registered"
  /\ peer' = [peer EXCEPT ![p].at = "pending"]
  /\ offer' = [offer EXCEPT ![p] = "sent"]
  /\ UNCHANGED <<client, dead, session, cut, port, faults>>

\* ... or cannot be written: the connection and the listener are closed.
AnnounceFails(p) ==
  LET s == peer[p].s IN
  /\ peer[p].at = "registered"
  /\ s \in cut \/ session[s].here = "down"
  /\ peer' = [peer EXCEPT ![p].at = "closed"]
  /\ session' = [session EXCEPT ![s].there = "down"]
  /\ port' = Released(s)
  /\ UNCHANGED <<client, dead, cut, offer, faults>>

\* Mutant: the reaper closes its connection without asking revPending.
Reap_Unchecked(p) ==
  /\ peer[p].at \in {"pending", "streaming"}
  /\ session[peer[p].s].kind = "legacy"
  /\ peer' = [peer EXCEPT ![p].at = "reaped"]
  /\ UNCHANGED <<client, dead, session, cut, port, offer, faults>>

\* After 15 s the reaper closes a connection that is still in revPending.
Reap(p) ==
  /\ peer[p].at = "pending"
  /\ peer' = [peer EXCEPT ![p].at = "reaped"]
  /\ UNCHANGED <<client, dead, session, cut, port, offer, faults>>

\* The client reads ACCEPT, or the RCONN stream, of the session it serves.
TakeOffer(p) ==
  LET s == peer[p].s IN
  /\ offer[p] = "sent"
  /\ client = [at |-> "serving", s |-> s]
  /\ s \notin cut
  /\ offer' = [offer EXCEPT ![p] = IF session[s].kind = "fmux" THEN "confirmed" ELSE "dialing"]
  /\ UNCHANGED <<client, dead, session, cut, port, peer, faults>>

\* RDATA on a connection of its own takes the pending connection out of
\* revPending, under revMu, or finds that it is gone.  The dial may fail.
Claim(p) ==
  /\ offer[p] = "dialing"
  /\ \/ /\ peer[p].at = "pending"
        /\ peer' = [peer EXCEPT ![p].at = "streaming"]
        /\ offer' = [offer EXCEPT ![p] = "confirmed"]
     \/ offer' = [offer EXCEPT ![p] = "ended"] /\ UNCHANGED peer
  /\ UNCHANGED <<client, dead, session, cut, port, faults>>

\* The client dials its local target.
DialLocal(p) ==
  /\ offer[p] = "confirmed"
  /\ \E r \in {"piping", "ended"} : offer' = [offer EXCEPT ![p] = r]
  /\ UNCHANGED <<client, dead, session, cut, port, peer, faults>>

\* Mutant: only the client's own end of the stream is noticed.
StreamEnds_SessionIgnored(p) ==
  /\ peer[p].at = "streaming"
  /\ offer[p] = "ended" /\ peer[p].s \notin cut
  /\ peer' = [peer EXCEPT ![p].at = "closed"]
  /\ UNCHANGED <<client, dead, session, cut, port, offer, faults>>

\* The daemon's copy from the client ends and the peer is told: the client
\* closed its end and the link still carries that, or the session is gone.
\* An RDATA connection outlives the session.
StreamEnds(p) ==
  LET s == peer[p].s IN
  /\ peer[p].at = "streaming"
  /\ \/ offer[p] = "ended" /\ (s \notin cut \/ session[s].kind = "legacy")
     \/ session[s].kind = "fmux" /\ session[s].there = "down"
  /\ peer' = [peer EXCEPT ![p].at = "closed"]
  /\ UNCHANGED <<client, dead, session, cut, port, offer, faults>>

\* The peer and the local target are done with each other.
Finished(p) ==
  /\ peer[p].at = "streaming" /\ offer[p] = "piping"
  /\ peer' = [peer EXCEPT ![p].at = "closed"]
  /\ offer' = [offer EXCEPT ![p] = "ended"]
  /\ UNCHANGED <<client, dead, session, cut, port, faults>>

----------------------------------------------------------------------------
(* The environment.                                                        *)

LinkBreaks(s) ==
  /\ session[s].here = "up" /\ session[s].there # "down"
  /\ s \notin cut
  /\ Cardinality(cut) < MaxCuts
  /\ cut' = cut \cup {s}
  /\ UNCHANGED <<client, dead, session, port, peer, offer, faults>>

\* The daemon restarts: its sockets and revPending are gone.
DaemonRestarts ==
  /\ faults.restarts < MaxRestarts
  /\ faults' = [faults EXCEPT !.restarts = @ + 1]
  /\ session' = [s \in Sessions |-> IF session[s].there = "none" THEN session[s]
                                    ELSE [session[s] EXCEPT !.there = "down"]]
  /\ port' = 0
  /\ peer' = [p \in Peers |-> IF peer[p].at \in {"none", "reaped"} THEN peer[p]
                              ELSE [peer[p] EXCEPT !.at = "closed"]]
  /\ offer' = [p \in Peers |-> IF offer[p] \in {"confirmed", "piping"}
                                THEN "ended" ELSE offer[p]]
  /\ UNCHANGED <<client, dead, cut>>

----------------------------------------------------------------------------
Client == OpenFmux \/ OpenLegacy \/ Serve \/ Refused \/ SessionLost

PeerSteps(p) ==
  \/ Dropped(p) \/ Accept(p) \/ Announce(p) \/ AnnounceFails(p)
  \/ Reap(p) \/ TakeOffer(p) \/ Claim(p) \/ DialLocal(p) \/ StreamEnds(p)

ReverseNext ==
  \/ Client \/ FmuxTooSlow \/ Stop \/ DaemonRestarts
  \/ \E s \in Sessions : Bind(s) \/ ControlEnds(s) \/ AcceptFails(s) \/ LinkBreaks(s)
  \/ \E p \in Peers : Arrive(p) \/ Finished(p) \/ PeerSteps(p)

ReverseSpec == ReverseInit /\ [][ReverseNext]_reverseVars

\* The goroutines of both programs run, reads and dials have deadlines, and
\* the keepalives of either side notice a broken link some day.
\* No step can be repeated for ever within the bounds on sessions and peers,
\* so fairness of the union is fairness of every one of them.
ReverseFairStep ==
  \/ Client
  \/ \E s \in Sessions : Bind(s) \/ ControlEnds(s)
  \/ \E p \in Peers : PeerSteps(p)

ReverseFairSpec == ReverseSpec /\ WF_reverseVars(ReverseFairStep)

----------------------------------------------------------------------------
\* A connection the client was given is the client's: the reaper, which shares
\* revPending with the RDATA that claims it, never closes it afterwards, and
\* never two goroutines have it (HandleReverseForward, HandleReverseData).
ClaimedIsKept ==
  /\ \A p \in Peers : offer[p] \in {"confirmed", "piping"} => peer[p].at \in {"streaming", "closed"}
  /\ \A s \in Sessions : session[s].there = "listening" => port = s

\* No accepted connection is left hanging, whatever breaks: it reaches the
\* local target, or its peer is told that it ended.
AcceptedIsServedOrClosed ==
  \A p \in Peers : (peer[p].at # "none") ~> (offer[p] = "piping" \/ peer[p].at \in {"reaped", "closed"})

\* A session the client lost or left gives up the port in the end: "the
\* listener lives as long as the control connection".
PortIsFreed == \A s \in Sessions : (session[s].here = "down") ~> (port # s)

\* ForwardRemote: "The session is re-established automatically if it breaks".
Reestablished ==
  (client.at = "open" /\ client.s > 0) ~> (client.at \in {"serving", "stopped"})
=============================================================================
