---------------------------- MODULE TunnelRecords ----------------------------
(***************************************************************************)
(* The tool vssh_tunnel (cmd/vssh/tunnel.go): forwards that run as         *)
(* detached processes, tracked in a directory with one record file each.   *)
(*                                                                         *)
(* A tool call is a goroutine of an MCP server; there may be several       *)
(* servers.  A tunnel is its id; its process has a number that the system  *)
(* gives to another process once it is free.  `ps` tells tunnels by their  *)
(* target, which is the same for all of them here.                         *)
(***************************************************************************)
EXTENDS Naturals, FiniteSets

CONSTANTS Tunnels,  \* one start each
          Stoppers, \* one stop of a tunnel, or one list, each
          Pids,
          NoPid, NoTunnel,
          MaxFaults \* bound: servers that die, ps that fails (errors of the
                    \* file system are not counted)

ASSUME TunnelAssumption == NoPid \notin Pids /\ NoTunnel \notin Tunnels /\ MaxFaults \in Nat

VARIABLES
  running, \* the tunnel whose process has a number, if any
  records, \* the directory: the number in each record, or none
  start,   \* where the start of each tunnel is
  pidOf,   \* the process each start has begun
  stop,    \* where each stop or list is, and what it looks at
  stopped,   \* history: tunnels a stop reported as killed
  untracked, \* history: tunnels whose record was never written
  astray,    \* history: ps failed
  faults

tunnelVars == <<running, records, start, pidOf, stop, stopped, untracked, astray, faults>>

TunnelTypeOK ==
  /\ running \in [Pids -> Tunnels \cup {NoTunnel}]
  /\ records \in [Tunnels -> Pids \cup {NoPid}]
  /\ start \in [Tunnels -> {"idle", "spawned", "recorded", "ok", "exited", "lost"}]
  /\ pidOf \in [Tunnels -> Pids \cup {NoPid}]
  /\ stop \in [Stoppers -> [at : {"idle", "check", "recheck", "remove", "list", "ok", "lost"},
                            tunnel : Tunnels \cup {NoTunnel}, pid : Pids \cup {NoPid},
                            killed : BOOLEAN, left : SUBSET Tunnels]]
  /\ stopped \subseteq Tunnels /\ untracked \subseteq Tunnels
  /\ astray \in BOOLEAN /\ faults \in 0..MaxFaults

NewStop == [at |-> "idle", tunnel |-> NoTunnel, pid |-> NoPid, killed |-> FALSE, left |-> {}]

TunnelInit ==
  /\ running = [p \in Pids |-> NoTunnel]
  /\ records = [t \in Tunnels |-> NoPid]
  /\ start = [t \in Tunnels |-> "idle"]
  /\ pidOf = [t \in Tunnels |-> NoPid]
  /\ stop = [s \in Stoppers |-> NewStop]
  /\ stopped = {} /\ untracked = {} /\ astray = FALSE /\ faults = 0

----------------------------------------------------------------------------
\* aliveAsTunnel, where ps works.
AliveAsTunnel(p) == running[p] # NoTunnel

\* ps works, or it fails and nothing is alive.
Asked(p, alive) ==
  \/ alive = AliveAsTunnel(p) /\ UNCHANGED <<astray, faults>>
  \/ ~alive /\ faults < MaxFaults /\ faults' = faults + 1 /\ astray' = TRUE

Finishes(t, label) == start' = [start EXCEPT ![t] = label]

\* tunnelStart: the process is there before its record.
Spawn(t) ==
  /\ start[t] = "idle"
  /\ \E p \in Pids :
       /\ running[p] = NoTunnel
       /\ running' = [running EXCEPT ![p] = t]
       /\ pidOf' = [pidOf EXCEPT ![t] = p]
  /\ Finishes(t, "spawned")
  /\ UNCHANGED <<records, stop, stopped, untracked, astray, faults>>

\* The record is written, or not: nobody looks at the error, and the start
\* goes on.  (What is written in part cannot be parsed: it is no record.)
WriteTunnelRecord(t) ==
  /\ start[t] = "spawned"
  /\ \/ records' = [records EXCEPT ![t] = pidOf[t]] /\ UNCHANGED untracked
     \/ untracked' = untracked \cup {t} /\ UNCHANGED records
  /\ Finishes(t, "recorded")
  /\ UNCHANGED <<running, pidOf, stop, stopped, astray, faults>>

\* removeTunnelRecord ignores the error of os.Remove as well.
Forgets(t) == UNCHANGED records \/ records' = [records EXCEPT ![t] = NoPid]

\* After 350 ms the process is there still, or the start has failed.
Started(t) ==
  /\ start[t] = "recorded"
  /\ \E alive \in BOOLEAN :
       /\ Asked(pidOf[t], alive)
       /\ Finishes(t, IF alive THEN "ok" ELSE "exited")
       /\ IF alive THEN UNCHANGED records ELSE Forgets(t)
  /\ UNCHANGED <<running, pidOf, stop, stopped, untracked>>

Steps(s, fields) == stop' = [stop EXCEPT ![s] = fields]

\* tunnelStop for an id that a caller got from a start or a list.
Stop(s, t) ==
  /\ stop[s].at = "idle"
  /\ Steps(s, IF records[t] = NoPid THEN [NewStop EXCEPT !.at = "ok"]
              ELSE [NewStop EXCEPT !.at = "check", !.tunnel = t, !.pid = records[t]])
  /\ UNCHANGED <<running, records, start, pidOf, stopped, untracked, astray, faults>>

\* Only a process that was found alive is signalled.  SIGTERM ends the
\* forward, now or later, or is not taken in 250 ms.
Check(s) ==
  LET p == stop[s].pid IN
  /\ stop[s].at = "check"
  /\ \E alive \in BOOLEAN :
       /\ Asked(p, alive)
       /\ Steps(s, [stop[s] EXCEPT !.at = IF alive THEN "recheck" ELSE "remove", !.killed = alive])
       /\ \/ UNCHANGED running
          \/ alive /\ running' = [running EXCEPT ![p] = NoTunnel]
  /\ UNCHANGED <<records, start, pidOf, stopped, untracked>>

\* Mutant: SIGTERM is trusted.
Recheck_NoKill(s) ==
  /\ stop[s].at = "recheck"
  /\ Steps(s, [stop[s] EXCEPT !.at = "remove"])
  /\ UNCHANGED <<running, records, start, pidOf, stopped, untracked, astray, faults>>

\* What is alive still gets SIGKILL.
Recheck(s) ==
  LET p == stop[s].pid IN
  /\ stop[s].at = "recheck"
  /\ \E alive \in BOOLEAN :
       /\ Asked(p, alive)
       /\ running' = IF alive THEN [running EXCEPT ![p] = NoTunnel] ELSE running
  /\ Steps(s, [stop[s] EXCEPT !.at = "remove"])
  /\ UNCHANGED <<records, start, pidOf, stopped, untracked>>

RemoveTunnelRecord(s) ==
  LET t == stop[s].tunnel IN
  /\ stop[s].at = "remove"
  /\ Forgets(t)
  /\ stopped' = IF stop[s].killed THEN stopped \cup {t} ELSE stopped
  /\ Steps(s, [stop[s] EXCEPT !.at = "ok"])
  /\ UNCHANGED <<running, start, pidOf, untracked, astray, faults>>

\* tunnelList: the records are read ...
List(s) ==
  /\ stop[s].at = "idle"
  /\ Steps(s, [NewStop EXCEPT !.at = "list", !.left = {t \in Tunnels : records[t] # NoPid}])
  /\ UNCHANGED <<running, records, start, pidOf, stopped, untracked, astray, faults>>

\* ... and those of the dead removed, one by one.
Prune(s) ==
  /\ stop[s].at = "list"
  /\ IF stop[s].left = {}
       THEN Steps(s, [stop[s] EXCEPT !.at = "ok"]) /\ UNCHANGED <<records, astray, faults>>
       ELSE \E t \in stop[s].left, alive \in BOOLEAN :
              /\ Asked(pidOf[t], alive)
              /\ IF alive THEN UNCHANGED records ELSE Forgets(t)
              /\ Steps(s, [stop[s] EXCEPT !.left = @ \ {t}])
  /\ UNCHANGED <<running, start, pidOf, stopped, untracked>>

\* A forward ends by itself: a bad specification, or its session is over.
Exit(p) ==
  /\ running[p] # NoTunnel
  /\ running' = [running EXCEPT ![p] = NoTunnel]
  /\ UNCHANGED <<records, start, pidOf, stop, stopped, untracked, astray, faults>>

\* A server dies and takes a call with it; the forwards stay.
ServerDies ==
  /\ faults < MaxFaults
  /\ faults' = faults + 1
  /\ \/ \E t \in Tunnels :
          /\ start[t] \in {"spawned", "recorded"}
          /\ Finishes(t, "lost")
          /\ untracked' = IF start[t] = "spawned" THEN untracked \cup {t} ELSE untracked
          /\ UNCHANGED stop
     \/ \E s \in Stoppers : /\ stop[s].at \notin {"idle", "ok", "lost"}
                            /\ Steps(s, [stop[s] EXCEPT !.at = "lost"])
                            /\ UNCHANGED <<start, untracked>>
  /\ UNCHANGED <<running, records, pidOf, stopped, astray>>

TunnelNext ==
  \/ \E t \in Tunnels : Spawn(t) \/ WriteTunnelRecord(t) \/ Started(t)
  \/ \E s \in Stoppers : \/ \E t \in Tunnels : Stop(s, t)
                         \/ Check(s) \/ Recheck(s) \/ RemoveTunnelRecord(s) \/ List(s) \/ Prune(s)
  \/ \E p \in Pids : Exit(p)
  \/ ServerDies

TunnelSpec == TunnelInit /\ [][TunnelNext]_tunnelVars

----------------------------------------------------------------------------
Lives(t) == \E p \in Pids : running[p] = t

\* A forward that lives has the record by which it is listed and stopped,
\* with the number of its process, and one reported as killed does not live,
\* whatever starts, stops and lists run at once, whatever server dies on the
\* way, whatever record cannot be removed, and whatever other tunnel a process
\* number is given to.  The exceptions are a forward that was just begun, one
\* whose record was never written, since its server died before or the write
\* failed (its start is reported all the same), and the time after ps failed
\* (toolTunnel).
TunnelsAreTracked ==
  ~astray => \A t \in Tunnels :
    /\ Lives(t) => records[t] = pidOf[t] \/ start[t] = "spawned" \/ t \in untracked
    /\ t \in stopped => ~Lives(t)
=============================================================================
