----------------------------- MODULE HostProofs -----------------------------
(***************************************************************************)
(* Proofs about the parts of vssh that meet in files and maps of one       *)
(* machine: a tunnel whose record was written can be listed and stopped    *)
(* (TunnelRecords), "ok" is the answer of an agent that lately was well    *)
(* (Agent), a torn write damages no more than two lines of the audit log   *)
(* (AuditChain), a verified command runs on the node it is for (Dialing),  *)
(* a key that was authorized or revoked stays so when no two rewrites      *)
(* overlap (KeyFile), an acknowledged note stays until newer ones push it  *)
(* out (FleetMemory), and every variable keeps its type.                   *)
(***************************************************************************)
EXTENDS MCHost, SelectionProofs, Integers, FiniteSetTheorems, TLAPS

----------------------------------------------------------------------------
(* TunnelRecords.                                                          *)

\* A tunnel has one process in its life, and only that one is its own.
OneProcess ==
  /\ \A t \in Tunnels : pidOf[t] = NoPid <=> start[t] = "idle"
  /\ \A p \in Pids : running[p] # NoTunnel => pidOf[running[p]] = p

\* What a record or a call r knows of a tunnel is that process.
Knows(r) ==
  /\ r.at \in {"check", "recheck", "remove"} =>
       /\ r.tunnel \in Tunnels /\ start[r.tunnel] # "idle" /\ r.pid = pidOf[r.tunnel]
  /\ \A t \in r.left : start[t] # "idle"

KnownProcess ==
  /\ \A t \in Tunnels : records[t] # NoPid => records[t] = pidOf[t]
  /\ stopped \subseteq {t \in Tunnels : start[t] # "idle"}
  /\ \A s \in Stoppers : Knows(stop[s])

\* A tunnel lives only with a record, before there can be one, or without one
\* ever written.
Held(t) == Lives(t) => records[t] # NoPid \/ start[t] = "spawned" \/ t \in untracked

\* TunnelsAreTracked, and what a stop knows before it removes the record.
Tracked ==
  ~astray =>
    /\ \A t \in Tunnels : Held(t) /\ (t \in stopped => ~Lives(t))
    /\ \A s \in Stoppers : stop[s].at = "remove" => ~Lives(stop[s].tunnel)

TunnelRecordsInv == TunnelTypeOK /\ OneProcess /\ KnownProcess /\ Tracked

StopRecords == [at : {"idle", "check", "recheck", "remove", "list", "ok", "lost"},
                tunnel : Tunnels \cup {NoTunnel}, pid : Pids \cup {NoPid},
                killed : BOOLEAN, left : SUBSET Tunnels]

\* A tunnel lives as long as its own process has its number.
LEMMA LivesInItsProcess ==
  ASSUME TunnelAssumption, TunnelTypeOK, OneProcess, NEW t \in Tunnels
  PROVE  /\ Lives(t) <=> pidOf[t] \in Pids /\ running[pidOf[t]] = t
         /\ start[t] # "idle" <=> pidOf[t] \in Pids
BY DEF TunnelAssumption, TunnelTypeOK, OneProcess, Lives

\* No step but a start gives a number to a tunnel.
LEMMA OnlyStartsLive ==
  ASSUME TunnelAssumption, TunnelTypeOK, NEW t \in Tunnels,
         running' = running \/ \E p \in Pids : running' = [running EXCEPT ![p] = NoTunnel]
  PROVE  /\ running' \in [Pids -> Tunnels \cup {NoTunnel}]
         /\ Lives(t)' => Lives(t)
         /\ \A p \in Pids : running'[p] # NoTunnel => running'[p] = running[p]
BY DEF TunnelAssumption, TunnelTypeOK, Lives

\* The question put to ps, and what a false answer means.
LEMMA AskedTells ==
  ASSUME TunnelTypeOK, NEW p, NEW alive \in BOOLEAN, Asked(p, alive), TunnelAssumption
  PROVE  /\ astray' \in BOOLEAN /\ faults' \in 0..MaxFaults
         /\ ~astray' => ~astray /\ (alive <=> running[p] # NoTunnel)
<1>1. CASE alive = AliveAsTunnel(p) /\ UNCHANGED <<astray, faults>>
  BY <1>1 DEF TunnelTypeOK, AliveAsTunnel
<1>2. CASE ~alive /\ faults < MaxFaults /\ faults' = faults + 1 /\ astray' = TRUE
  BY <1>2 DEF TunnelTypeOK, TunnelAssumption
<1>q. QED BY <1>1, <1>2 DEF Asked

LEMMA SpawnTracks ==
  ASSUME TunnelAssumption, TunnelRecordsInv, NEW u \in Tunnels, Spawn(u)
  PROVE  TunnelRecordsInv'
<1>t. TunnelTypeOK /\ OneProcess /\ KnownProcess /\ Tracked BY DEF TunnelRecordsInv
<1>1. PICK p \in Pids : /\ running[p] = NoTunnel
                        /\ running' = [running EXCEPT ![p] = u]
                        /\ pidOf' = [pidOf EXCEPT ![u] = p]
  BY DEF Spawn
<1>2. start[u] = "idle" /\ start' = [start EXCEPT ![u] = "spawned"] BY DEF Spawn, Finishes
<1>3. UNCHANGED <<records, stop, stopped, untracked, astray, faults>> BY DEF Spawn
<1>4. TunnelTypeOK' BY <1>t, <1>1, <1>2, <1>3 DEF TunnelTypeOK
<1>5. OneProcess' BY <1>t, <1>1, <1>2 DEF TunnelTypeOK, OneProcess, TunnelAssumption
<1>6. KnownProcess'
  <2>1. \A t \in Tunnels : records'[t] # NoPid => records'[t] = pidOf'[t]
    BY <1>t, <1>1, <1>2, <1>3 DEF TunnelTypeOK, OneProcess, KnownProcess
  <2>2. stopped' \subseteq {t \in Tunnels : start'[t] # "idle"}
    BY <1>t, <1>2, <1>3 DEF TunnelTypeOK, KnownProcess
  <2>3. ASSUME NEW s \in Stoppers
        PROVE  Knows(stop[s])'
    <3>1. stop'[s] = stop[s] BY <1>3
    <3>2. stop[s].left \subseteq Tunnels BY <1>t DEF TunnelTypeOK
    <3>q. QED BY <1>t, <1>1, <1>2, <3>1, <3>2 DEF TunnelTypeOK, KnownProcess, Knows
  <2>q. QED BY <2>1, <2>2, <2>3 DEF KnownProcess
<1>7. Tracked'
  <2>1. ASSUME NEW t \in Tunnels, t # u PROVE Lives(t)' => Lives(t)
    BY <1>t, <1>1, <2>1 DEF TunnelTypeOK, Lives
  <2>2. u \notin stopped /\ \A s \in Stoppers : stop[s].at = "remove" => stop[s].tunnel \in Tunnels \ {u}
    BY <1>t, <1>2 DEF KnownProcess, Knows
  <2>3. start'[u] = "spawned" /\ \A t \in Tunnels \ {u} : start'[t] = start[t]
    BY <1>t, <1>2 DEF TunnelTypeOK
  <2>4. ~astray => \A t \in Tunnels : Held(t)' /\ (t \in stopped' => ~Lives(t)')
    BY <1>t, <1>3, <2>1, <2>2, <2>3 DEF Tracked, Held
  <2>5. ~astray => \A s \in Stoppers : stop'[s].at = "remove" => ~Lives(stop[s].tunnel)'
    <3>1. ASSUME NEW s \in Stoppers, ~astray, stop[s].at = "remove" PROVE ~Lives(stop[s].tunnel)'
      <4>1. PICK t \in Tunnels \ {u} : t = stop[s].tunnel /\ ~Lives(t) BY <1>t, <2>2, <3>1 DEF Tracked
      <4>2. ~Lives(t)' /\ t = stop'[s].tunnel BY <1>3, <2>1, <4>1
      <4>q. QED BY <4>2
    <3>q. QED BY <1>3, <3>1
  <2>q. QED BY <1>3, <2>4, <2>5 DEF Tracked
<1>q. QED BY <1>4, <1>5, <1>6, <1>7 DEF TunnelRecordsInv

\* The state of the processes is only that of fewer tunnels, and no tunnel is
\* begun: what is known of the processes stays as it is.
LEMMA LessLives ==
  ASSUME TunnelAssumption, TunnelTypeOK, OneProcess, UNCHANGED pidOf,
         running' = running \/ \E p \in Pids : running' = [running EXCEPT ![p] = NoTunnel],
         \A t \in Tunnels : start'[t] = "idle" <=> start[t] = "idle"
  PROVE  OneProcess' /\ \A t \in Tunnels : Lives(t)' => Lives(t)
<1>1. ASSUME NEW t \in Tunnels PROVE Lives(t)' => Lives(t) BY OnlyStartsLive
<1>2. \A p \in Pids : running'[p] # NoTunnel => running'[p] = running[p]
  BY OnlyStartsLive DEF Lives, TunnelTypeOK, TunnelAssumption
<1>q. QED BY <1>1, <1>2 DEF OneProcess

LEMMA StartTracks ==
  ASSUME TunnelAssumption, TunnelRecordsInv, NEW u \in Tunnels, WriteTunnelRecord(u) \/ Started(u)
  PROVE  TunnelRecordsInv'
<1>t. TunnelTypeOK /\ OneProcess /\ KnownProcess /\ Tracked BY DEF TunnelRecordsInv
<1>s. UNCHANGED <<running, pidOf, stop, stopped>> BY DEF WriteTunnelRecord, Started
<1>1. PICK label \in {"recorded", "ok", "exited"} :
        /\ start[u] # "idle" /\ start' = [start EXCEPT ![u] = label]
        /\ untracked' = untracked \/ untracked' = untracked \cup {u}
        /\ \/ records' = [records EXCEPT ![u] = pidOf[u]] /\ label = "recorded" /\ UNCHANGED <<astray, faults>>
           \/ UNCHANGED records /\ untracked' = untracked \cup {u} /\ label = "recorded" /\ UNCHANGED <<astray, faults>>
           \/ /\ records' = records \/ records' = [records EXCEPT ![u] = NoPid]
              /\ label = "exited" /\ Asked(pidOf[u], FALSE)
           \/ /\ UNCHANGED records /\ label = "ok" /\ start[u] = "recorded"
              /\ Asked(pidOf[u], TRUE)
  <2>1. CASE WriteTunnelRecord(u) BY <2>1 DEF WriteTunnelRecord, Finishes
  <2>2. CASE Started(u)
    <3>1. PICK alive \in BOOLEAN :
            /\ Asked(pidOf[u], alive) /\ Finishes(u, IF alive THEN "ok" ELSE "exited")
            /\ IF alive THEN UNCHANGED records ELSE Forgets(u)
      BY <2>2 DEF Started
    <3>2. start[u] = "recorded" /\ UNCHANGED untracked BY <2>2 DEF Started
    <3>3. CASE alive = TRUE BY <3>1, <3>2, <3>3 DEF Finishes
    <3>4. CASE alive = FALSE BY <3>1, <3>2, <3>4 DEF Finishes, Forgets
    <3>q. QED BY <3>3, <3>4
  <2>q. QED BY <2>1, <2>2
<1>p. pidOf[u] \in Pids /\ (Lives(u) <=> running[pidOf[u]] = u) BY <1>t, <1>1, LivesInItsProcess
<1>2. /\ astray' \in BOOLEAN /\ faults' \in 0..MaxFaults
      /\ ~astray' => ~astray /\ (label = "exited" => ~Lives(u))
  <2>1. CASE UNCHANGED <<astray, faults>> /\ label = "recorded" BY <1>t, <2>1 DEF TunnelTypeOK
  <2>2. CASE Asked(pidOf[u], FALSE)
    <3>1. ~astray' => running[pidOf[u]] = NoTunnel BY <1>t, <2>2, AskedTells
    <3>2. astray' \in BOOLEAN /\ faults' \in 0..MaxFaults /\ (~astray' => ~astray) BY <1>t, <2>2, AskedTells
    <3>q. QED BY <1>p, <3>1, <3>2 DEF TunnelAssumption
  <2>3. CASE Asked(pidOf[u], TRUE) /\ label = "ok" BY <1>t, <2>3, AskedTells
  <2>q. QED BY <1>1, <2>1, <2>2, <2>3
<1>3. \A t \in Tunnels : start'[t] = "idle" <=> start[t] = "idle" BY <1>t, <1>1 DEF TunnelTypeOK
<1>4. records' \in [Tunnels -> Pids \cup {NoPid}] BY <1>t, <1>1, <1>p DEF TunnelTypeOK
<1>u. untracked' \subseteq Tunnels BY <1>t, <1>1 DEF TunnelTypeOK
<1>5. TunnelTypeOK' BY <1>t, <1>s, <1>1, <1>2, <1>4, <1>u DEF TunnelTypeOK
<1>6. OneProcess' /\ \A t \in Tunnels : Lives(t)' => Lives(t) BY <1>t, <1>s, <1>3, LessLives
<1>7. KnownProcess'
  <2>1. \A t \in Tunnels : records'[t] # NoPid => records'[t] = pidOf'[t]
    BY <1>t, <1>s, <1>1 DEF TunnelTypeOK, KnownProcess
  <2>2. \A s \in Stoppers : stop[s].left \subseteq Tunnels BY <1>t DEF TunnelTypeOK
  <2>q. QED BY <1>t, <1>s, <1>3, <2>1, <2>2 DEF KnownProcess, Knows
<1>8. Tracked'
  <2>1. ASSUME ~astray', NEW t \in Tunnels, Lives(t)'
        PROVE  records'[t] # NoPid \/ start'[t] = "spawned" \/ t \in untracked'
    <3>1. CASE t # u
      <4>1. start'[t] = start[t] /\ records'[t] = records[t] BY <1>t, <1>1, <3>1 DEF TunnelTypeOK
      <4>q. QED BY <1>t, <1>1, <1>2, <1>6, <2>1, <4>1 DEF Tracked, Held
    <3>2. CASE t = u
      <4>1. label # "exited" /\ Held(u) /\ Lives(u) BY <1>t, <1>2, <1>6, <2>1, <3>2 DEF Tracked
      <4>2. CASE records' = [records EXCEPT ![u] = pidOf[u]]
        BY <1>t, <1>p, <3>2, <4>2 DEF TunnelTypeOK, TunnelAssumption
      <4>3. CASE untracked' = untracked \cup {u} BY <3>2, <4>3
      <4>4. CASE UNCHANGED records /\ start[u] = "recorded" BY <1>1, <3>2, <4>1, <4>4 DEF Held
      <4>q. QED BY <1>1, <4>1, <4>2, <4>3, <4>4
    <3>q. QED BY <3>1, <3>2
  <2>2. \A s \in Stoppers : stop[s].at = "remove" => stop[s].tunnel \in Tunnels BY <1>t DEF KnownProcess, Knows
  <2>3. ~astray' => \A t \in Tunnels : Held(t)' BY <2>1 DEF Held
  <2>q. QED BY <1>t, <1>s, <1>2, <1>6, <2>2, <2>3 DEF Tracked
<1>q. QED BY <1>5, <1>6, <1>7, <1>8 DEF TunnelRecordsInv

\* A step of a stop or a list, to a state in which it knows what it should: r.
\* Records may go, tunnels may die.
LEMMA StepTracks ==
  ASSUME TunnelAssumption, TunnelRecordsInv, NEW s \in Stoppers, NEW r \in StopRecords,
         stop' = [stop EXCEPT ![s] = r], Knows(r),
         UNCHANGED <<start, pidOf, untracked>>,
         astray' \in BOOLEAN, faults' \in 0..MaxFaults, ~astray' => ~astray,
         running' = running \/ \E p \in Pids : running' = [running EXCEPT ![p] = NoTunnel],
         \/ records' = records
         \/ \E t \in Tunnels : records' = [records EXCEPT ![t] = NoPid] /\ (~astray' => ~Lives(t)),
         \/ stopped' = stopped
         \/ \E t \in Tunnels : stopped' = stopped \cup {t} /\ start[t] # "idle" /\ (~astray' => ~Lives(t)),
         ~astray' /\ r.at = "remove" => ~Lives(r.tunnel)'
  PROVE  TunnelRecordsInv'
<1>t. TunnelTypeOK /\ OneProcess /\ KnownProcess /\ Tracked BY DEF TunnelRecordsInv
<1>1. stop' \in [Stoppers -> StopRecords] BY <1>t DEF TunnelTypeOK, StopRecords
<1>r. /\ records' \in [Tunnels -> Pids \cup {NoPid}]
      /\ \A t \in Tunnels : records'[t] = records[t] \/ (records'[t] = NoPid /\ (~astray' => ~Lives(t)))
  <2>1. CASE records' = records BY <1>t, <2>1 DEF TunnelTypeOK
  <2>2. ASSUME NEW u \in Tunnels, records' = [records EXCEPT ![u] = NoPid], ~astray' => ~Lives(u)
        PROVE  /\ records' \in [Tunnels -> Pids \cup {NoPid}]
               /\ \A t \in Tunnels : records'[t] = records[t] \/ (records'[t] = NoPid /\ (~astray' => ~Lives(t)))
    <3>1. records' \in [Tunnels -> Pids \cup {NoPid}] BY <1>t, <2>2 DEF TunnelTypeOK
    <3>2. ASSUME NEW t \in Tunnels
          PROVE  records'[t] = records[t] \/ (records'[t] = NoPid /\ (~astray' => ~Lives(t)))
      <4>1. CASE t = u BY <1>t, <2>2, <4>1 DEF TunnelTypeOK
      <4>2. CASE t # u BY <1>t, <2>2, <4>2 DEF TunnelTypeOK
      <4>q. QED BY <4>1, <4>2
    <3>q. QED BY <3>1, <3>2
  <2>q. QED BY <2>1, <2>2
<1>2. stopped' \subseteq Tunnels BY <1>t DEF TunnelTypeOK
<1>3. running' \in [Pids -> Tunnels \cup {NoTunnel}] BY <1>t DEF TunnelTypeOK
<1>4. TunnelTypeOK' BY <1>t, <1>r, <1>1, <1>2, <1>3 DEF TunnelTypeOK, StopRecords
<1>5. OneProcess' /\ \A t \in Tunnels : Lives(t)' => Lives(t) BY <1>t, LessLives
<1>6. KnownProcess'
  <2>1. \A t \in Tunnels : records'[t] # NoPid => records'[t] = pidOf'[t]
    BY <1>t, <1>r DEF KnownProcess
  <2>2. stopped' \subseteq {t \in Tunnels : start'[t] # "idle"} BY <1>t DEF KnownProcess
  <2>3. ASSUME NEW q \in Stoppers PROVE Knows(stop[q])'
    <3>1. CASE q = s BY <1>t, <3>1 DEF TunnelTypeOK, Knows
    <3>2. CASE q # s BY <1>t, <3>2 DEF TunnelTypeOK, KnownProcess, Knows
    <3>q. QED BY <3>1, <3>2
  <2>q. QED BY <2>1, <2>2, <2>3 DEF KnownProcess
<1>7. ASSUME ~astray'
      PROVE  /\ \A t \in Tunnels : Held(t)'
             /\ \A t \in stopped' : ~Lives(t)'
             /\ \A q \in Stoppers : stop'[q].at = "remove" => ~Lives(stop[q].tunnel)'
  <2>1. ASSUME NEW t \in Tunnels PROVE Held(t)'
    <3>1. Held(t) /\ (Lives(t)' => Lives(t) /\ records'[t] = records[t]) BY <1>t, <1>r, <1>5, <1>7 DEF Tracked
    <3>q. QED BY <3>1 DEF Held
  <2>2. ASSUME NEW t \in stopped' PROVE ~Lives(t)'
    BY <1>t, <1>5, <1>7, <2>2 DEF TunnelTypeOK, Tracked
  <2>3. ASSUME NEW q \in Stoppers, stop'[q].at = "remove" PROVE ~Lives(stop[q].tunnel)'
    <3>1. CASE q = s BY <1>t, <1>7, <2>3, <3>1 DEF TunnelTypeOK
    <3>2. CASE q # s
      <4>1. stop'[q] = stop[q] /\ stop[q].at = "remove" BY <1>t, <2>3, <3>2 DEF TunnelTypeOK
      <4>2. stop[q].tunnel \in Tunnels /\ ~Lives(stop[q].tunnel)
        BY <1>t, <1>7, <4>1 DEF KnownProcess, Knows, Tracked
      <4>q. QED BY <1>5, <4>1, <4>2
    <3>q. QED BY <3>1, <3>2
  <2>q. QED BY <2>1, <2>2, <2>3
<1>8. Tracked' BY <1>t, <1>7 DEF Tracked
<1>q. QED BY <1>4, <1>5, <1>6, <1>8 DEF TunnelRecordsInv

LEMMA StopTracks ==
  ASSUME TunnelAssumption, TunnelRecordsInv, NEW s \in Stoppers,
         (\E t \in Tunnels : Stop(s, t)) \/ List(s)
  PROVE  TunnelRecordsInv'
<1>t. TunnelTypeOK /\ OneProcess /\ KnownProcess /\ Tracked BY DEF TunnelRecordsInv
<1>n. /\ NewStop \in StopRecords /\ NewStop.left = {} /\ Knows([NewStop EXCEPT !.at = "ok"])
      /\ [NewStop EXCEPT !.at = "ok"] \in StopRecords
  BY DEF NewStop, StopRecords, Knows
<1>k. \A t \in Tunnels : records[t] # NoPid => start[t] # "idle" /\ records[t] = pidOf[t] /\ records[t] \in Pids
  BY <1>t DEF TunnelTypeOK, OneProcess, KnownProcess
<1>1. ASSUME NEW t \in Tunnels, Stop(s, t) PROVE TunnelRecordsInv'
  <2>1. CASE records[t] = NoPid
    <3>1. stop' = [stop EXCEPT ![s] = [NewStop EXCEPT !.at = "ok"]] BY <1>1, <2>1 DEF Stop, Steps
    <3>2. [NewStop EXCEPT !.at = "ok"].at = "ok" BY DEF NewStop
    <3>3. astray' \in BOOLEAN /\ faults' \in 0..MaxFaults BY <1>t, <1>1 DEF Stop, TunnelTypeOK
    <3>q. QED BY <1>1, <1>n, <3>1, <3>2, <3>3, StepTracks DEF Stop
  <2>2. CASE records[t] # NoPid
    <3>r. DEFINE r == [NewStop EXCEPT !.at = "check", !.tunnel = t, !.pid = records[t]]
    <3>1. stop' = [stop EXCEPT ![s] = r] BY <1>1, <2>2 DEF Stop, Steps
    <3>2. r \in StopRecords /\ r.at = "check" /\ Knows(r) BY <1>k, <2>2 DEF NewStop, StopRecords, Knows
    <3>3. astray' \in BOOLEAN /\ faults' \in 0..MaxFaults BY <1>t, <1>1 DEF Stop, TunnelTypeOK
    <3> HIDE DEF r
    <3>q. QED BY <1>1, <3>1, <3>2, <3>3, StepTracks DEF Stop
  <2>q. QED BY <2>1, <2>2
<1>2. ASSUME List(s) PROVE TunnelRecordsInv'
  <2>r. DEFINE r == [NewStop EXCEPT !.at = "list", !.left = {t \in Tunnels : records[t] # NoPid}]
  <2>1. stop' = [stop EXCEPT ![s] = r] BY <1>2 DEF List, Steps
  <2>2. r \in StopRecords /\ r.at = "list" /\ Knows(r) BY <1>k DEF NewStop, StopRecords, Knows
  <2>3. astray' \in BOOLEAN /\ faults' \in 0..MaxFaults BY <1>t, <1>2 DEF List, TunnelTypeOK
  <2> HIDE DEF r
  <2>q. QED BY <1>2, <2>1, <2>2, <2>3, StepTracks DEF List
<1>q. QED BY <1>1, <1>2

\* A tunnel that ps cannot find does not live, and one that is killed neither.
LEMMA GoneOrKilled ==
  ASSUME TunnelAssumption, TunnelRecordsInv, NEW t \in Tunnels, start[t] # "idle",
         NEW alive \in BOOLEAN, Asked(pidOf[t], alive)
  PROVE  /\ pidOf[t] \in Pids
         /\ ~astray' /\ ~alive => ~Lives(t)
         /\ ~astray' /\ running' = [running EXCEPT ![pidOf[t]] = NoTunnel] /\ UNCHANGED <<pidOf, start>> => ~Lives(t)'
<1>t. TunnelTypeOK /\ OneProcess BY DEF TunnelRecordsInv
<1>1. pidOf[t] \in Pids /\ (Lives(t) <=> running[pidOf[t]] = t) BY <1>t, LivesInItsProcess
<1>2. ~astray' /\ ~alive => running[pidOf[t]] = NoTunnel BY <1>t, AskedTells
<1>3. ASSUME running' = [running EXCEPT ![pidOf[t]] = NoTunnel], UNCHANGED <<pidOf, start>> PROVE ~Lives(t)'
  <2>1. Lives(t)' => Lives(t) BY <1>t, <1>1, <1>3, OnlyStartsLive
  <2>2. \A p \in Pids : running[p] = t => p = pidOf[t] BY <1>t DEF OneProcess, TunnelAssumption
  <2>q. QED BY <1>t, <1>1, <1>3, <2>2 DEF Lives, TunnelTypeOK, TunnelAssumption
<1>q. QED BY <1>1, <1>2, <1>3 DEF TunnelAssumption

\* A call that is at work on a tunnel knows it, and its process.
LEMMA AtWork ==
  ASSUME TunnelTypeOK, KnownProcess, NEW s \in Stoppers
  PROVE  /\ stop[s] \in StopRecords
         /\ stop[s].at \in {"check", "recheck", "remove"} =>
              /\ stop[s].tunnel \in Tunnels /\ start[stop[s].tunnel] # "idle"
              /\ stop[s].pid = pidOf[stop[s].tunnel]
         /\ \A t \in stop[s].left : t \in Tunnels /\ start[t] # "idle"
<1>1. stop[s] \in StopRecords BY DEF TunnelTypeOK, StopRecords
<1>q. QED BY <1>1 DEF KnownProcess, Knows, StopRecords

LEMMA CheckTracks ==
  ASSUME TunnelAssumption, TunnelRecordsInv, NEW s \in Stoppers, Check(s)
  PROVE  TunnelRecordsInv'
<1>t. TunnelTypeOK /\ OneProcess /\ KnownProcess BY DEF TunnelRecordsInv
<1>2. PICK alive \in BOOLEAN :
        /\ Asked(stop[s].pid, alive)
        /\ Steps(s, [stop[s] EXCEPT !.at = IF alive THEN "recheck" ELSE "remove", !.killed = alive])
        /\ UNCHANGED running \/ (alive /\ running' = [running EXCEPT ![stop[s].pid] = NoTunnel])
  BY DEF Check
<1>3. PICK t \in Tunnels :
        /\ t = stop[s].tunnel /\ stop[s] \in StopRecords /\ start[t] # "idle" /\ stop[s].pid = pidOf[t]
        /\ \A u \in stop[s].left : u \in Tunnels /\ start[u] # "idle"
  BY <1>t, AtWork DEF Check
<1>5. PICK r \in StopRecords :
        /\ r = [stop[s] EXCEPT !.at = IF alive THEN "recheck" ELSE "remove", !.killed = alive]
        /\ r.tunnel = t /\ r.pid = stop[s].pid /\ r.left = stop[s].left
        /\ r.at = IF alive THEN "recheck" ELSE "remove"
  <2>1. DEFINE q == [stop[s] EXCEPT !.at = IF alive THEN "recheck" ELSE "remove", !.killed = alive]
  <2>2. /\ q \in StopRecords /\ q.tunnel = t /\ q.pid = stop[s].pid /\ q.left = stop[s].left
        /\ q.at = IF alive THEN "recheck" ELSE "remove"
    BY <1>3 DEF StopRecords
  <2>q. QED BY <2>2
<1>6. stop' = [stop EXCEPT ![s] = r] BY <1>2, <1>5 DEF Steps
<1>7. Knows(r) BY <1>3, <1>5 DEF Knows
<1>8. UNCHANGED <<records, start, pidOf, stopped, untracked>> BY DEF Check
<1>9. /\ pidOf[t] \in Pids
      /\ ~astray' /\ ~alive => ~Lives(t)
      /\ astray' \in BOOLEAN /\ faults' \in 0..MaxFaults /\ (~astray' => ~astray)
  BY <1>t, <1>2, <1>3, GoneOrKilled, AskedTells
<1>10. running' = running \/ \E p \in Pids : running' = [running EXCEPT ![p] = NoTunnel]
  BY <1>2, <1>3, <1>9
<1>11. ~astray' /\ r.at = "remove" => ~Lives(r.tunnel)'
  <2>1. (\A u \in Tunnels : Lives(u)' => Lives(u)) BY <1>t, <1>10, OnlyStartsLive
  <2>2. Lives(r.tunnel)' => Lives(t)' BY <1>5 DEF Lives
  <2>q. QED BY <1>3, <1>5, <1>9, <2>1, <2>2
<1>q. QED BY <1>5, <1>6, <1>7, <1>8, <1>9, <1>10, <1>11, StepTracks

LEMMA RecheckTracks ==
  ASSUME TunnelAssumption, TunnelRecordsInv, NEW s \in Stoppers, Recheck(s)
  PROVE  TunnelRecordsInv'
<1>t. TunnelTypeOK /\ OneProcess /\ KnownProcess BY DEF TunnelRecordsInv
<1>2. PICK alive \in BOOLEAN :
        /\ Asked(stop[s].pid, alive)
        /\ running' = IF alive THEN [running EXCEPT ![stop[s].pid] = NoTunnel] ELSE running
  BY DEF Recheck
<1>3. PICK t \in Tunnels :
        /\ t = stop[s].tunnel /\ stop[s] \in StopRecords /\ start[t] # "idle" /\ stop[s].pid = pidOf[t]
        /\ \A u \in stop[s].left : u \in Tunnels /\ start[u] # "idle"
  BY <1>t, AtWork DEF Recheck
<1>5. PICK r \in StopRecords :
        /\ r = [stop[s] EXCEPT !.at = "remove"]
        /\ r.tunnel = t /\ r.pid = stop[s].pid /\ r.left = stop[s].left /\ r.at = "remove"
  <2>1. DEFINE q == [stop[s] EXCEPT !.at = "remove"]
  <2>2. q \in StopRecords /\ q.tunnel = t /\ q.pid = stop[s].pid /\ q.left = stop[s].left /\ q.at = "remove"
    BY <1>3 DEF StopRecords
  <2>q. QED BY <2>2
<1>6. stop' = [stop EXCEPT ![s] = r] BY <1>5 DEF Recheck, Steps
<1>7. Knows(r) BY <1>3, <1>5 DEF Knows
<1>8. UNCHANGED <<records, start, pidOf, stopped, untracked>> BY DEF Recheck
<1>9. /\ pidOf[t] \in Pids
      /\ ~astray' /\ ~alive => ~Lives(t)
      /\ ~astray' /\ running' = [running EXCEPT ![pidOf[t]] = NoTunnel] => ~Lives(t)'
      /\ astray' \in BOOLEAN /\ faults' \in 0..MaxFaults /\ (~astray' => ~astray)
  BY <1>t, <1>2, <1>3, <1>8, GoneOrKilled, AskedTells
<1>10. \/ ~alive /\ running' = running
       \/ running' = [running EXCEPT ![pidOf[t]] = NoTunnel]
  BY <1>2, <1>3
<1>11. ~astray' => ~Lives(r.tunnel)'
  <2>1. running' = running => (Lives(t)' => Lives(t)) BY DEF Lives
  <2>2. Lives(r.tunnel)' => Lives(t)' BY <1>5 DEF Lives
  <2>q. QED BY <1>9, <1>10, <2>1, <2>2
<1>q. QED BY <1>5, <1>6, <1>7, <1>8, <1>9, <1>10, <1>11, StepTracks

LEMMA RemoveTracks ==
  ASSUME TunnelAssumption, TunnelRecordsInv, NEW s \in Stoppers, RemoveTunnelRecord(s)
  PROVE  TunnelRecordsInv'
<1>t. TunnelTypeOK /\ OneProcess /\ KnownProcess /\ Tracked BY DEF TunnelRecordsInv
<1>3. PICK t \in Tunnels :
        /\ t = stop[s].tunnel /\ stop[s] \in StopRecords /\ start[t] # "idle" /\ stop[s].pid = pidOf[t]
        /\ \A u \in stop[s].left : u \in Tunnels /\ start[u] # "idle"
  BY <1>t, AtWork DEF RemoveTunnelRecord
<1>5. PICK r \in StopRecords : r = [stop[s] EXCEPT !.at = "ok"] /\ r.at = "ok" /\ r.left = stop[s].left
  <2>1. DEFINE q == [stop[s] EXCEPT !.at = "ok"]
  <2>2. q \in StopRecords /\ q.at = "ok" /\ q.left = stop[s].left BY <1>3 DEF StopRecords
  <2>q. QED BY <2>2
<1>6. stop' = [stop EXCEPT ![s] = r] BY <1>5 DEF RemoveTunnelRecord, Steps
<1>7. Knows(r) BY <1>3, <1>5 DEF Knows
<1>8. UNCHANGED <<running, start, pidOf, untracked, astray, faults>> BY DEF RemoveTunnelRecord
<1>9. ~astray => ~Lives(t) BY <1>t, <1>3 DEF Tracked, RemoveTunnelRecord
<1>10. records' = records \/ records' = [records EXCEPT ![t] = NoPid] BY <1>3 DEF RemoveTunnelRecord, Forgets
<1>11. stopped' = stopped \/ stopped' = stopped \cup {t} BY <1>3 DEF RemoveTunnelRecord
<1>12. astray' \in BOOLEAN /\ faults' \in 0..MaxFaults BY <1>t, <1>8 DEF TunnelTypeOK
<1>q. QED BY <1>3, <1>5, <1>6, <1>7, <1>8, <1>9, <1>10, <1>11, <1>12, StepTracks

LEMMA PruneTracks ==
  ASSUME TunnelAssumption, TunnelRecordsInv, NEW s \in Stoppers, Prune(s)
  PROVE  TunnelRecordsInv'
<1>t. TunnelTypeOK /\ OneProcess /\ KnownProcess /\ Tracked BY DEF TunnelRecordsInv
<1>1. stop[s] \in StopRecords /\ \A u \in stop[s].left : u \in Tunnels /\ start[u] # "idle"
  BY <1>t, AtWork
<1>2. UNCHANGED <<running, start, pidOf, stopped, untracked>> /\ stop[s].at = "list" BY DEF Prune
<1>3. CASE stop[s].left = {}
  <2>1. DEFINE r == [stop[s] EXCEPT !.at = "ok"]
  <2>2. r \in StopRecords /\ r.at = "ok" /\ Knows(r) BY <1>1 DEF StopRecords, Knows
  <2>3. stop' = [stop EXCEPT ![s] = r] /\ UNCHANGED <<records, astray, faults>> BY <1>3 DEF Prune, Steps
  <2>4. astray' \in BOOLEAN /\ faults' \in 0..MaxFaults BY <1>t, <2>3 DEF TunnelTypeOK
  <2> HIDE DEF r
  <2>q. QED BY <1>2, <2>2, <2>3, <2>4, StepTracks
<1>4. CASE stop[s].left # {}
  <2>1. PICK t \in stop[s].left, alive \in BOOLEAN :
          /\ Asked(pidOf[t], alive)
          /\ IF alive THEN UNCHANGED records ELSE Forgets(t)
          /\ Steps(s, [stop[s] EXCEPT !.left = @ \ {t}])
    BY <1>4 DEF Prune
  <2>2. DEFINE r == [stop[s] EXCEPT !.left = @ \ {t}]
  <2>3. r \in StopRecords /\ r.at = "list" /\ r.left = stop[s].left \ {t} BY <1>1, <1>2 DEF StopRecords
  <2>4. Knows(r) BY <1>1, <2>3 DEF Knows
  <2>5. stop' = [stop EXCEPT ![s] = r] BY <2>1 DEF Steps
  <2>6. /\ t \in Tunnels /\ (~astray' /\ ~alive => ~Lives(t))
        /\ astray' \in BOOLEAN /\ faults' \in 0..MaxFaults /\ (~astray' => ~astray)
    BY <1>t, <1>1, <2>1, GoneOrKilled, AskedTells
  <2>7. records' = records \/ (records' = [records EXCEPT ![t] = NoPid] /\ (~astray' => ~Lives(t)))
    BY <2>1, <2>6 DEF Forgets
  <2> HIDE DEF r
  <2>q. QED BY <1>2, <2>3, <2>4, <2>5, <2>6, <2>7, StepTracks
<1>q. QED BY <1>3, <1>4

LEMMA ExitTracks ==
  ASSUME TunnelAssumption, TunnelRecordsInv, NEW p \in Pids, Exit(p)
  PROVE  TunnelRecordsInv'
<1>t. TunnelTypeOK /\ OneProcess /\ KnownProcess /\ Tracked BY DEF TunnelRecordsInv
<1>1. /\ running' = [running EXCEPT ![p] = NoTunnel]
      /\ UNCHANGED <<records, start, pidOf, stop, stopped, untracked, astray, faults>>
  BY DEF Exit
<1>2. TunnelTypeOK' BY <1>t, <1>1 DEF TunnelTypeOK
<1>3. OneProcess' /\ \A t \in Tunnels : Lives(t)' => Lives(t) BY <1>t, <1>1, LessLives
<1>4. KnownProcess' BY <1>t, <1>1 DEF KnownProcess, Knows
<1>5. Tracked'
  <2>1. \A s \in Stoppers : stop[s].at = "remove" => stop[s].tunnel \in Tunnels
    BY <1>t DEF KnownProcess, Knows
  <2>q. QED BY <1>t, <1>1, <1>3, <2>1 DEF Tracked, Held
<1>q. QED BY <1>2, <1>3, <1>4, <1>5 DEF TunnelRecordsInv

LEMMA DeathTracks ==
  ASSUME TunnelAssumption, TunnelRecordsInv, ServerDies
  PROVE  TunnelRecordsInv'
<1>t. TunnelTypeOK /\ OneProcess /\ KnownProcess /\ Tracked BY DEF TunnelRecordsInv
<1>1. UNCHANGED <<running, records, pidOf, stopped, astray>> BY DEF ServerDies
<1>2. astray' \in BOOLEAN /\ faults' \in 0..MaxFaults BY <1>t DEF TunnelTypeOK, TunnelAssumption, ServerDies
<1>3. ASSUME NEW u \in Tunnels, start[u] \in {"spawned", "recorded"}, Finishes(u, "lost"), UNCHANGED stop,
             untracked' = IF start[u] = "spawned" THEN untracked \cup {u} ELSE untracked
      PROVE  TunnelRecordsInv'
  <2>1. start' = [start EXCEPT ![u] = "lost"] BY <1>3 DEF Finishes
  <2>2. \A t \in Tunnels : /\ start'[t] = "idle" <=> start[t] = "idle"
                           /\ start[t] = "spawned" => start'[t] = "spawned" \/ t \in untracked'
    BY <1>t, <1>3, <2>1 DEF TunnelTypeOK
  <2>u. untracked \subseteq untracked' /\ untracked' \subseteq Tunnels BY <1>t, <1>3 DEF TunnelTypeOK
  <2>3. TunnelTypeOK' BY <1>t, <1>1, <1>2, <1>3, <2>1, <2>u DEF TunnelTypeOK
  <2>4. OneProcess' /\ \A t \in Tunnels : Lives(t)' => Lives(t) BY <1>t, <1>1, <2>2, LessLives
  <2>5. \A s \in Stoppers : stop[s].left \subseteq Tunnels BY <1>t DEF TunnelTypeOK
  <2>6. KnownProcess' BY <1>t, <1>1, <1>3, <2>2, <2>5 DEF KnownProcess, Knows
  <2>7. \A s \in Stoppers : stop[s].at = "remove" => stop[s].tunnel \in Tunnels
    BY <1>t DEF KnownProcess, Knows
  <2>8. Tracked'
    <3>1. ASSUME NEW t \in Tunnels, ~astray PROVE Held(t)'
      <4>1. Held(t) /\ (Lives(t)' => Lives(t)) /\ records'[t] = records[t] BY <1>t, <1>1, <2>4, <3>1 DEF Tracked
      <4>q. QED BY <2>2, <2>u, <4>1 DEF Held
    <3>q. QED BY <1>t, <1>1, <1>3, <2>4, <2>7, <3>1 DEF Tracked
  <2>q. QED BY <2>3, <2>4, <2>6, <2>8 DEF TunnelRecordsInv
<1>4. ASSUME NEW s \in Stoppers, Steps(s, [stop[s] EXCEPT !.at = "lost"]), UNCHANGED <<start, untracked>>
      PROVE  TunnelRecordsInv'
  <2>1. stop[s] \in StopRecords /\ \A u \in stop[s].left : u \in Tunnels /\ start[u] # "idle"
    BY <1>t, AtWork
  <2>2. DEFINE r == [stop[s] EXCEPT !.at = "lost"]
  <2>3. r \in StopRecords /\ r.at = "lost" /\ Knows(r) BY <2>1 DEF StopRecords, Knows
  <2>4. stop' = [stop EXCEPT ![s] = r] BY <1>4 DEF Steps
  <2> HIDE DEF r
  <2>q. QED BY <1>1, <1>2, <1>4, <2>3, <2>4, StepTracks
<1>q. QED BY <1>3, <1>4 DEF ServerDies

LEMMA TunnelInvStep ==
  ASSUME TunnelAssumption, TunnelRecordsInv, [TunnelNext]_tunnelVars
  PROVE  TunnelRecordsInv'
<1>1. CASE UNCHANGED tunnelVars
  BY <1>1 DEF tunnelVars, TunnelRecordsInv, TunnelTypeOK, OneProcess, KnownProcess, Knows, Tracked, Held, Lives
<1>2. CASE \E t \in Tunnels : Spawn(t) \/ WriteTunnelRecord(t) \/ Started(t) BY <1>2, SpawnTracks, StartTracks
<1>3. CASE \E s \in Stoppers : \/ \E t \in Tunnels : Stop(s, t)
                              \/ Check(s) \/ Recheck(s) \/ RemoveTunnelRecord(s) \/ List(s) \/ Prune(s)
  BY <1>3, StopTracks, CheckTracks, RecheckTracks, RemoveTracks, PruneTracks
<1>4. CASE \E p \in Pids : Exit(p) BY <1>4, ExitTracks
<1>5. CASE ServerDies BY <1>5, DeathTracks
<1>q. QED BY <1>1, <1>2, <1>3, <1>4, <1>5 DEF TunnelNext

LEMMA TunnelInvInit == TunnelInit /\ TunnelAssumption => TunnelRecordsInv
<1> SUFFICES ASSUME TunnelInit, TunnelAssumption PROVE TunnelRecordsInv OBVIOUS
<1>0. NewStop \in StopRecords BY DEF NewStop, StopRecords
<1>1. TunnelTypeOK
  <2>1. stop \in [Stoppers -> StopRecords] BY <1>0 DEF TunnelInit
  <2>2. faults \in 0..MaxFaults /\ astray \in BOOLEAN /\ stopped \subseteq Tunnels /\ untracked \subseteq Tunnels
    <3>1. 0 \in 0..MaxFaults BY SMT DEF TunnelAssumption
    <3>q. QED BY <3>1 DEF TunnelInit
  <2>3. /\ running \in [Pids -> Tunnels \cup {NoTunnel}]
        /\ records \in [Tunnels -> Pids \cup {NoPid}] /\ pidOf \in [Tunnels -> Pids \cup {NoPid}]
        /\ start \in [Tunnels -> {"idle", "spawned", "recorded", "ok", "exited", "lost"}]
    BY DEF TunnelInit
  <2>q. QED BY <2>1, <2>2, <2>3 DEF TunnelTypeOK, StopRecords
<1>2. OneProcess /\ KnownProcess BY DEF TunnelInit, OneProcess, KnownProcess, Knows, NewStop, TunnelAssumption
<1>3. Tracked BY DEF TunnelInit, Tracked, Held, Lives, NewStop, TunnelAssumption
<1>q. QED BY <1>1, <1>2, <1>3 DEF TunnelRecordsInv

\* However starts, stops, lists, exits, deaths of servers and failures to write
\* or remove a record interleave, a forward that lives has the record of its
\* own process, unless it was just begun or its record was never written (then
\* its start is reported all the same, or its server died), and one reported
\* as killed does not live (toolTunnel of tunnel.go).
THEOREM TunnelsTracked == TunnelSpec => []TunnelsAreTracked
<1>1. TunnelRecordsInv => TunnelsAreTracked
  BY DEF TunnelRecordsInv, KnownProcess, Tracked, Held, TunnelsAreTracked
<1>q. QED BY <1>1, TunnelAssumption, TunnelInvInit, TunnelInvStep, PTL DEF TunnelSpec

----------------------------------------------------------------------------
(* Dialing.  Nothing has to be known of how a name is resolved: whatever   *)
(* candidates there are, the key of the target is expected at the one that *)
(* is dialed.  So the maps and the calls need only have their shape.       *)

Bound   == {"dial", "handshake", "record", "append", "authenticate", "run", "done"}
PastKey == {"record", "append", "authenticate", "run", "done"}

DialShape ==
  /\ registry \subseteq Nodes
  /\ Hosts = DOMAIN expected /\ Hosts = DOMAIN tickets /\ Hosts = DOMAIN pool /\ Hosts = DOMAIN asked
  /\ \A h \in Addresses : /\ pool[h] = [daemon |-> pool[h].daemon, plain |-> pool[h].plain]
                         /\ pool[h].plain \in BOOLEAN
  /\ DOMAIN call = Calls
  /\ \A c \in Calls : DOMAIN call[c] = DOMAIN NoCall

\* What is kept of an address is of the one target that was resolved to it.
KeptIsOwn(h) ==
  /\ asked[h] = {} => tickets[h] = Nobody /\ pool[h] = NoSession
  /\ \A t \in registry : asked[h] = {t} =>
       /\ expected[h] = t /\ tickets[h] \in {Nobody, t}
       /\ ~pool[h].plain => pool[h].daemon \in {Nobody, t}

\* A call r that is bound for an address has had its target resolved to it,
\* and past the check of the key it is at that target.
CallIsOwn(r, h) ==
  /\ r.at \in Bound /\ r.host = h => r.target \in asked[h] /\ r.plain \in BOOLEAN
  /\ r.at = "handshake" => r.daemon # Nobody
  /\ r.at \in PastKey /\ r.host = h /\ ~r.plain => \A t \in registry : asked[h] = {t} => r.daemon = t

DialInv ==
  DialShape /\ \A h \in Addresses : KeptIsOwn(h) /\ \A c \in Calls : CallIsOwn(call[c], h)

\* A step of one call, to a record r that is its own, leaves the other calls
\* as they were; of what is kept, only tickets and sessions may change.
LEMMA CallStep ==
  ASSUME DialInv, NEW c \in Calls, NEW r, call' = [call EXCEPT ![c] = r],
         DOMAIN r = DOMAIN NoCall,
         \A h \in Addresses : CallIsOwn(r, h),
         UNCHANGED <<registry, expected, asked>>,
         Hosts = DOMAIN tickets', Hosts = DOMAIN pool',
         \A h \in Addresses : /\ pool'[h] = [daemon |-> pool'[h].daemon, plain |-> pool'[h].plain]
                            /\ pool'[h].plain \in BOOLEAN,
         \A h \in Addresses : KeptIsOwn(h)'
  PROVE  DialInv'
<1>t. DialShape /\ \A h \in Addresses : \A d \in Calls : CallIsOwn(call[d], h) BY DEF DialInv
<1>1. /\ DOMAIN call' = Calls /\ call'[c] = r
      /\ \A d \in Calls \ {c} : call'[d] = call[d]
  BY <1>t DEF DialShape
<1>2. \A d \in Calls : DOMAIN call'[d] = DOMAIN NoCall
  BY <1>t, <1>1 DEF DialShape
<1>3. DialShape' BY <1>t, <1>1, <1>2 DEF DialShape, Hosts, NoCall
<1>4. ASSUME NEW h \in Addresses, NEW d \in Calls PROVE CallIsOwn(call[d], h)'
  BY <1>t, <1>1 DEF CallIsOwn
<1>q. QED BY <1>3, <1>4 DEF DialInv

\* The fields of a record of a call, after an update.
LEMMA CallFields ==
  ASSUME NEW r, DOMAIN r = DOMAIN NoCall, NEW label
  PROVE  LET q == [r EXCEPT !.at = label] IN
         /\ DOMAIN q = DOMAIN NoCall /\ q.at = label /\ q.target = r.target /\ q.host = r.host
         /\ q.daemon = r.daemon /\ q.plain = r.plain
BY DEF NoCall

\* A name that is resolved to an address: its key is expected there from now
\* on, and no other call is bound for it yet, or the name is not alone.
LEMMA ExpectOwn ==
  ASSUME PeerAssumption, DialAssumption, DialInv, UNCHANGED registry,
         NEW c \in Calls, NEW t, NEW hosts, NEW g, Expect(c, t, hosts, g)
  PROVE  DialInv'
<1>t. DialShape /\ \A h \in Addresses : KeptIsOwn(h) /\ \A d \in Calls : CallIsOwn(call[d], h) BY DEF DialInv
<1>1. /\ expected' = [expected EXCEPT ![g] = NodeKey(t)] /\ asked' = [asked EXCEPT ![g] = @ \cup {t}]
      /\ UNCHANGED <<tickets, pool>>
  BY DEF Expect
<1>2. PICK r : /\ call' = [call EXCEPT ![c] = r] /\ r.at = "dial" /\ r.target = t /\ r.host = g
               /\ DOMAIN r = DOMAIN NoCall /\ r.plain = FALSE
  <2>1. DEFINE q == [NoCall EXCEPT !.at = "dial", !.target = t, !.host = g]
  <2>2. q.at = "dial" /\ q.target = t /\ q.host = g /\ DOMAIN q = DOMAIN NoCall /\ q.plain = FALSE
    BY DEF NoCall
  <2>3. call' = [call EXCEPT ![c] = q] BY DEF Expect
  <2>q. QED BY <2>2, <2>3
<1>3. /\ DOMAIN call' = Calls /\ call'[c] = r
      /\ \A d \in Calls \ {c} : call'[d] = call[d]
  BY <1>t, <1>2 DEF DialShape
<1>4. DOMAIN expected' = Hosts /\ DOMAIN asked' = Hosts BY <1>t, <1>1 DEF DialShape
<1>5. \A d \in Calls : DOMAIN call'[d] = DOMAIN NoCall
  BY <1>t, <1>2, <1>3 DEF DialShape
<1>6. DialShape' BY <1>t, <1>1, <1>3, <1>4, <1>5 DEF DialShape, Hosts, NoCall
<1>7. ASSUME NEW h \in Addresses PROVE KeptIsOwn(h)' /\ \A d \in Calls : CallIsOwn(call[d], h)'
  <2>1. CASE h # g
    <3>1. expected'[h] = expected[h] /\ asked'[h] = asked[h] BY <1>t, <1>1, <2>1 DEF DialShape, Hosts
    <3>2. KeptIsOwn(h)' BY <1>t, <1>1, <3>1 DEF KeptIsOwn
    <3>3. ASSUME NEW d \in Calls PROVE CallIsOwn(call[d], h)'
      BY <1>t, <1>2, <1>3, <2>1, <3>1 DEF CallIsOwn, PastKey
    <3>q. QED BY <3>2, <3>3
  <2>2. CASE h = g
    <3>1. expected'[h] = NodeKey(t) /\ asked'[h] = asked[h] \cup {t} BY <1>t, <1>1, <2>2 DEF DialShape, Hosts
    <3>2. \A u \in registry : asked'[h] = {u} =>
            u = t /\ expected'[h] = u /\ (asked[h] = {} \/ asked[h] = {u})
      BY <3>1 DEF NodeKey
    <3>3. KeptIsOwn(h)' BY <1>t, <1>1, <3>1, <3>2 DEF KeptIsOwn, NoSession
    <3>4. ASSUME NEW d \in Calls PROVE CallIsOwn(call[d], h)'
      <4>1. CASE d = c BY <1>2, <1>3, <2>2, <3>1, <4>1 DEF CallIsOwn, PastKey
      <4>2. CASE d # c
        <5>1. call'[d] = call[d] /\ CallIsOwn(call[d], h) BY <1>t, <1>3, <4>2
        <5>2. call[d].at \in Bound /\ call[d].host = h => call[d].target \in asked[h] BY <5>1 DEF CallIsOwn
        <5>3. PastKey \subseteq Bound BY DEF PastKey, Bound
        <5>q. QED BY <3>1, <3>2, <5>1, <5>2, <5>3 DEF CallIsOwn
      <4>q. QED BY <4>1, <4>2
    <3>q. QED BY <3>3, <3>4
  <2>q. QED BY <2>1, <2>2
<1>q. QED BY <1>6, <1>7 DEF DialInv

\* The same where nothing is kept.
LEMMA QuietStep ==
  ASSUME DialInv, NEW c \in Calls, NEW r, call' = [call EXCEPT ![c] = r],
         DOMAIN r = DOMAIN NoCall,
         \A h \in Addresses : CallIsOwn(r, h),
         UNCHANGED <<registry, expected, asked, tickets, pool>>
  PROVE  DialInv'
<1>1. DialShape /\ \A h \in Addresses : KeptIsOwn(h) BY DEF DialInv
<1>2. Hosts = DOMAIN tickets' /\ Hosts = DOMAIN pool' BY <1>1 DEF DialShape
<1>3. \A h \in Addresses : /\ pool'[h] = [daemon |-> pool'[h].daemon, plain |-> pool'[h].plain]
                          /\ pool'[h].plain \in BOOLEAN
  BY <1>1 DEF DialShape
<1>4. \A h \in Addresses : KeptIsOwn(h)' BY <1>1 DEF KeptIsOwn
<1>q. QED BY <1>2, <1>3, <1>4, CallStep

\* A step of a call that only moves on, to a state in which it must be no
\* more its own than before.
LEMMA GoesOwn ==
  ASSUME DialInv, NEW c \in Calls, NEW label, Goes(c, label),
         label # "handshake",
         label \in Bound => call[c].at \in Bound,
         label \in PastKey => \/ call[c].at \in PastKey
                             \/ \A h \in Addresses : /\ call[c].host = h /\ ~call[c].plain
                                                     => \A t \in registry : asked[h] = {t} => call[c].daemon = t,
         UNCHANGED <<registry, expected, asked, tickets, pool>>
  PROVE  DialInv'
<1>1. DOMAIN call[c] = DOMAIN NoCall /\ \A h \in Addresses : CallIsOwn(call[c], h)
  BY DEF DialInv, DialShape
<1>2. PICK r : /\ r = [call[c] EXCEPT !.at = label]
               /\ DOMAIN r = DOMAIN NoCall /\ r.at = label /\ r.target = call[c].target /\ r.host = call[c].host
               /\ r.daemon = call[c].daemon /\ r.plain = call[c].plain
  <2>1. DEFINE q == [call[c] EXCEPT !.at = label]
  <2>2. /\ DOMAIN q = DOMAIN NoCall /\ q.at = label /\ q.target = call[c].target /\ q.host = call[c].host
        /\ q.daemon = call[c].daemon /\ q.plain = call[c].plain
    BY <1>1 DEF NoCall
  <2>q. QED BY <2>2
<1>3. call' = [call EXCEPT ![c] = r] BY <1>2 DEF Goes
<1>4. ASSUME NEW h \in Addresses PROVE CallIsOwn(r, h) BY <1>1, <1>2 DEF CallIsOwn
<1>q. QED BY <1>1, <1>2, <1>3, <1>4, QuietStep

LEMMA FailsOwn ==
  ASSUME DialInv, NEW c \in Calls, Fails(c), UNCHANGED <<registry, expected, asked, tickets, pool>>
  PROVE  DialInv'
<1>1. DEFINE r == [NoCall EXCEPT !.at = "error"]
<1>2. DOMAIN r = DOMAIN NoCall /\ r.at = "error" BY DEF NoCall
<1>3. \A h \in Addresses : CallIsOwn(r, h) BY <1>2 DEF CallIsOwn, Bound, PastKey
<1>4. call' = [call EXCEPT ![c] = r] BY DEF Fails
<1> HIDE DEF r
<1>q. QED BY <1>2, <1>3, <1>4, QuietStep

LEMMA ResolveOwn ==
  ASSUME PeerAssumption, DialAssumption, DialInv, NEW c \in Calls, NEW t \in Nodes, Resolve(c, t)
  PROVE  DialInv'
<1>0. DOMAIN call[c] = DOMAIN NoCall BY DEF DialInv, DialShape
<1>1. UNCHANGED registry BY DEF Resolve, fixed
<1>2. PICK hosts :
       \/ /\ call' = [call EXCEPT ![c].at = "dial", ![c].target = t, ![c].host = t] /\ UNCHANGED shared
       \/ Expect(c, t, hosts, hosts[1])
       \/ /\ call' = [call EXCEPT ![c].at = "probe", ![c].target = t, ![c].hosts = hosts,
                                  ![c].probes = [i \in DOMAIN hosts |-> "pending"]]
          /\ UNCHANGED shared
  <2>1. PICK peers \in LoadPeers(src) : 
       \/ /\ call' = [call EXCEPT ![c].at = "dial", ![c].target = t, ![c].host = t] /\ UNCHANGED shared
       \/ Expect(c, t, CandidateHosts(src, peers, t), CandidateHosts(src, peers, t)[1])
       \/ /\ call' = [call EXCEPT ![c].at = "probe", ![c].target = t, ![c].hosts = CandidateHosts(src, peers, t),
                                  ![c].probes = [i \in DOMAIN CandidateHosts(src, peers, t) |-> "pending"]]
          /\ UNCHANGED shared
    BY DEF Resolve
  <2>q. QED BY <2>1
<1>3. CASE call' = [call EXCEPT ![c].at = "dial", ![c].target = t, ![c].host = t] /\ UNCHANGED shared
  <2>1. PICK r : /\ call' = [call EXCEPT ![c] = r] /\ r.at = "dial" /\ r.host = t
                 /\ DOMAIN r = DOMAIN NoCall
    <3>1. DEFINE q == [call[c] EXCEPT !.at = "dial", !.target = t, !.host = t]
    <3>2. q.at = "dial" /\ q.host = t /\ DOMAIN q = DOMAIN NoCall BY <1>0 DEF NoCall
    <3>3. call' = [call EXCEPT ![c] = q] BY <1>3
    <3>q. QED BY <3>2, <3>3
  <2>2. \A h \in Addresses : CallIsOwn(r, h) BY <2>1 DEF CallIsOwn, PastKey, PeerAssumption
  <2>q. QED BY <1>1, <1>3, <2>1, <2>2, QuietStep DEF shared
<1>4. CASE Expect(c, t, hosts, hosts[1]) BY <1>1, <1>4, ExpectOwn
<1>5. CASE /\ call' = [call EXCEPT ![c].at = "probe", ![c].target = t, ![c].hosts = hosts,
                                   ![c].probes = [i \in DOMAIN hosts |-> "pending"]]
           /\ UNCHANGED shared
  <2>1. PICK r : call' = [call EXCEPT ![c] = r] /\ r.at = "probe" /\ DOMAIN r = DOMAIN NoCall
    <3>1. DEFINE q == [call[c] EXCEPT !.at = "probe", !.target = t, !.hosts = hosts,
                                      !.probes = [i \in DOMAIN hosts |-> "pending"]]
    <3>2. q.at = "probe" /\ DOMAIN q = DOMAIN NoCall BY <1>0 DEF NoCall
    <3>3. call' = [call EXCEPT ![c] = q] BY <1>5
    <3>q. QED BY <3>2, <3>3
  <2>2. \A h \in Addresses : CallIsOwn(r, h) BY <2>1 DEF CallIsOwn, Bound, PastKey
  <2>q. QED BY <1>1, <1>5, <2>1, <2>2, QuietStep DEF shared
<1>q. QED BY <1>2, <1>3, <1>4, <1>5

LEMMA ProbeOwn ==
  ASSUME PeerAssumption, DialAssumption, DialInv, NEW c \in Calls, NEW i, NEW state, Probe(c, i, state)
  PROVE  DialInv'
<1>0. /\ DOMAIN call[c] = DOMAIN NoCall /\ \A h \in Addresses : CallIsOwn(call[c], h)
  BY DEF DialInv, DialShape
<1>1. UNCHANGED registry /\ call[c].at = "probe" BY DEF Probe, fixed
<1>2. PICK t, hosts, g, probes :
        \/ Expect(c, t, hosts, g)
        \/ call' = [call EXCEPT ![c].probes = probes] /\ UNCHANGED shared
  BY DEF Probe
<1>3. CASE Expect(c, t, hosts, g) BY <1>1, <1>3, ExpectOwn
<1>4. CASE call' = [call EXCEPT ![c].probes = probes] /\ UNCHANGED shared
  <2>1. PICK r : call' = [call EXCEPT ![c] = r] /\ r.at = "probe" /\ DOMAIN r = DOMAIN NoCall
    <3>1. DEFINE q == [call[c] EXCEPT !.probes = probes]
    <3>2. q.at = "probe" /\ DOMAIN q = DOMAIN NoCall BY <1>0, <1>1 DEF NoCall
    <3>3. call' = [call EXCEPT ![c] = q] BY <1>4
    <3>q. QED BY <3>2, <3>3
  <2>2. \A h \in Addresses : CallIsOwn(r, h) BY <2>1 DEF CallIsOwn, Bound, PastKey
  <2>q. QED BY <1>1, <1>4, <2>1, <2>2, QuietStep DEF shared
<1>q. QED BY <1>2, <1>3, <1>4

\* A session of the pool is the target's own; a connection is to a daemon.
LEMMA DialOwn ==
  ASSUME DialAssumption, DialInv, NEW c \in Calls, Dial(c)
  PROVE  DialInv'
<1>0. /\ DOMAIN call[c] = DOMAIN NoCall /\ \A h \in Addresses : CallIsOwn(call[c], h)
      /\ \A h \in Addresses : /\ KeptIsOwn(h) /\ pool[h].plain \in BOOLEAN
                             /\ pool[h] = [daemon |-> pool[h].daemon, plain |-> pool[h].plain]
      /\ registry \subseteq Nodes
  BY DEF DialInv, DialShape
<1>1. call[c].at = "dial" /\ UNCHANGED <<registry, expected, asked, tickets, pool>> BY DEF Dial, fixed, shared
<1>2. PICK g : g = call[c].host OBVIOUS
<1>3. CASE persistent /\ pool[g] # NoSession
  <2>1. DEFINE q == [call[c] EXCEPT !.at = "run", !.daemon = pool[g].daemon, !.plain = pool[g].plain]
  <2>2. PICK r : r = q OBVIOUS
  <2>3. /\ DOMAIN r = DOMAIN NoCall /\ r.at = "run" /\ r.target = call[c].target /\ r.host = g
        /\ r.daemon = pool[g].daemon /\ r.plain = pool[g].plain
    BY <1>0, <1>2, <2>2 DEF NoCall
  <2>4. call' = [call EXCEPT ![c] = r] BY <1>2, <1>3, <2>2 DEF Dial
  <2> HIDE DEF q
  <2>5. ASSUME NEW h \in Addresses PROVE CallIsOwn(r, h)
    <3>1. r.host = h => r.target \in asked[h] /\ r.plain \in BOOLEAN
      BY <1>0, <1>1, <1>2, <2>3 DEF CallIsOwn, Bound
    <3>2. ASSUME r.host = h, ~r.plain, NEW t \in registry, asked[h] = {t} PROVE r.daemon = t
      <4>1. pool[h].daemon \in {Nobody, t} BY <1>0, <2>3, <3>2 DEF KeptIsOwn
      <4>2. pool[h].daemon # Nobody BY <1>0, <1>3, <2>3, <3>2 DEF NoSession
      <4>q. QED BY <2>3, <3>2, <4>1, <4>2
    <3>q. QED BY <2>3, <3>1, <3>2 DEF CallIsOwn
  <2>q. QED BY <1>1, <2>3, <2>4, <2>5, QuietStep
<1>4. CASE ~(persistent /\ pool[g] # NoSession) /\ owner[g] = Nobody
  BY <1>1, <1>2, <1>4, FailsOwn DEF Dial
<1>5. CASE ~(persistent /\ pool[g] # NoSession) /\ owner[g] # Nobody
  <2>1. PICK r : r = [call[c] EXCEPT !.at = "handshake", !.daemon = owner[g], !.pinned = KnownHostPub(g)] OBVIOUS
  <2>2. /\ DOMAIN r = DOMAIN NoCall /\ r.at = "handshake" /\ r.target = call[c].target /\ r.host = g
        /\ r.daemon = owner[g] /\ r.plain = call[c].plain
    BY <1>0, <1>2, <2>1 DEF NoCall
  <2>3. call' = [call EXCEPT ![c] = r] BY <1>2, <1>5, <2>1 DEF Dial
  <2>4. \A h \in Addresses : CallIsOwn(r, h) BY <1>0, <1>1, <1>2, <1>5, <2>2 DEF CallIsOwn, Bound, PastKey
  <2>q. QED BY <1>0, <1>1, <2>2, <2>3, <2>4, QuietStep
<1>q. QED BY <1>3, <1>4, <1>5

LEMMA HandshakeOwn ==
  ASSUME DialAssumption, DialInv, NEW c \in Calls,
         HandshakeResumed(c) \/ Handshake(c) \/ HandshakeFails(c)
  PROVE  DialInv'
<1>0. /\ DOMAIN call[c] = DOMAIN NoCall /\ \A h \in Addresses : CallIsOwn(call[c], h)
      /\ \A h \in Addresses : KeptIsOwn(h)
      /\ registry \subseteq Nodes
  BY DEF DialInv, DialShape
<1>1. /\ call[c].at = "handshake" /\ UNCHANGED <<registry, expected, asked, tickets, pool>>
  BY DEF HandshakeResumed, Handshake, HandshakeFails, fixed, shared
<1>2. "handshake" \in Bound BY DEF Bound
<1>3. CASE HandshakeResumed(c)
  <2>1. ASSUME NEW h \in Addresses, call[c].host = h, NEW t \in registry, asked[h] = {t} PROVE call[c].daemon = t
    BY <1>0, <1>1, <1>3, <2>1 DEF HandshakeResumed, KeptIsOwn, CallIsOwn
  <2>2. Goes(c, "authenticate") BY <1>3 DEF HandshakeResumed
  <2>q. QED BY <1>1, <1>2, <2>1, <2>2, GoesOwn
<1>4. CASE Handshake(c)
  <2>1. CASE call[c].pinned \notin {Nobody, call[c].daemon} \/ expected[call[c].host] \notin {Nobody, call[c].daemon}
    BY <1>1, <1>4, <2>1, FailsOwn DEF Handshake
  <2>2. CASE ~(call[c].pinned \notin {Nobody, call[c].daemon} \/ expected[call[c].host] \notin {Nobody, call[c].daemon})
    <3>1. PICK label \in {"record", "authenticate"} : Goes(c, label)
      <4>1. Goes(c, IF call[c].pinned = Nobody THEN "record" ELSE "authenticate") BY <1>4, <2>2 DEF Handshake
      <4>q. QED BY <4>1
    <3>2. ASSUME NEW h \in Addresses, call[c].host = h, NEW t \in registry, asked[h] = {t} PROVE call[c].daemon = t
      <4>1. expected[h] = t /\ t # Nobody BY <1>0, <3>2 DEF KeptIsOwn, DialAssumption
      <4>q. QED BY <2>2, <3>2, <4>1
    <3>q. QED BY <1>1, <1>2, <3>1, <3>2, GoesOwn
  <2>q. QED BY <2>1, <2>2
<1>5. CASE HandshakeFails(c)
  <2>1. CASE Fails(c) BY <1>1, <2>1, FailsOwn
  <2>2. CASE call' = [call EXCEPT ![c].at = "authenticate", ![c].daemon = owner[call[c].host], ![c].plain = TRUE]
    <3>1. PICK r : r = [call[c] EXCEPT !.at = "authenticate", !.daemon = owner[call[c].host], !.plain = TRUE] OBVIOUS
    <3>2. /\ DOMAIN r = DOMAIN NoCall /\ r.at = "authenticate" /\ r.target = call[c].target /\ r.host = call[c].host
          /\ r.plain = TRUE
      BY <1>0, <3>1 DEF NoCall
    <3>3. call' = [call EXCEPT ![c] = r] BY <2>2, <3>1
    <3>4. \A h \in Addresses : CallIsOwn(r, h) BY <1>0, <1>1, <1>2, <3>2 DEF CallIsOwn
    <3>q. QED BY <1>1, <3>2, <3>3, <3>4, QuietStep
  <2>q. QED BY <1>5, <2>1, <2>2 DEF HandshakeFails
<1>q. QED BY <1>3, <1>4, <1>5

LEMMA PinOwn ==
  ASSUME DialInv, NEW c \in Calls, RecordPin(c) \/ AppendPin(c) \/ RunCommand(c)
  PROVE  DialInv'
<1>1. call[c].at \in PastKey /\ call[c].at \in Bound BY DEF RecordPin, AppendPin, RunCommand, PastKey, Bound
<1>2. UNCHANGED <<registry, expected, asked, tickets, pool>> BY DEF RecordPin, AppendPin, RunCommand, fixed, shared
<1>3. PICK label \in {"append", "authenticate", "done"} : Goes(c, label)
  <2>1. CASE RecordPin(c)
    <3>1. Goes(c, IF KnownHostPub(call[c].host) = Nobody THEN "append" ELSE "authenticate") BY <2>1 DEF RecordPin
    <3>q. QED BY <3>1
  <2>2. CASE AppendPin(c) \/ RunCommand(c) BY <2>2 DEF AppendPin, RunCommand
  <2>q. QED BY <2>1, <2>2
<1>q. QED BY <1>1, <1>2, <1>3, GoesOwn

\* A session that is verified leaves a ticket, and a session of the pool, of
\* its own target.
LEMMA AuthenticateOwn ==
  ASSUME DialInv, NEW c \in Calls, Authenticate(c)
  PROVE  DialInv'
<1>0. /\ DialShape /\ \A h \in Addresses : CallIsOwn(call[c], h)
      /\ \A h \in Addresses : KeptIsOwn(h)
  BY DEF DialInv
<1>1. /\ call[c].at = "authenticate" /\ UNCHANGED <<registry, expected, asked>> BY DEF Authenticate, fixed
<1>a. "authenticate" \in Bound /\ "authenticate" \in PastKey BY DEF Bound, PastKey
<1>2. PICK r : /\ call' = [call EXCEPT ![c] = r] /\ DOMAIN r = DOMAIN NoCall
               /\ \A h \in Addresses : CallIsOwn(r, h)
  <2>1. CASE Goes(c, "run")
    <3>1. PICK r : r = [call[c] EXCEPT !.at = "run"] OBVIOUS
    <3>2. /\ DOMAIN r = DOMAIN NoCall /\ r.at = "run" /\ r.target = call[c].target /\ r.host = call[c].host
          /\ r.daemon = call[c].daemon /\ r.plain = call[c].plain
      BY <1>0, <3>1 DEF NoCall, DialShape
    <3>3. \A h \in Addresses : CallIsOwn(r, h) BY <1>0, <1>1, <1>a, <3>2 DEF CallIsOwn
    <3>q. QED BY <2>1, <3>1, <3>2, <3>3 DEF Goes
  <2>2. CASE Fails(c)
    <3>1. PICK r : r = [NoCall EXCEPT !.at = "error"] OBVIOUS
    <3>2. DOMAIN r = DOMAIN NoCall /\ r.at = "error" BY <3>1 DEF NoCall
    <3>3. \A h \in Addresses : CallIsOwn(r, h) BY <3>2 DEF CallIsOwn, Bound, PastKey
    <3>q. QED BY <2>2, <3>1, <3>2, <3>3 DEF Fails
  <2>q. QED BY <2>1, <2>2 DEF Authenticate
<1>3. tickets' = IF call[c].plain THEN tickets ELSE [tickets EXCEPT ![call[c].host] = call[c].daemon]
  BY DEF Authenticate
<1>4. \/ pool' = pool
      \/ pool' = [pool EXCEPT ![call[c].host] = [daemon |-> call[c].daemon, plain |-> call[c].plain]]
  BY DEF Authenticate
<1>5. Hosts = DOMAIN tickets' /\ Hosts = DOMAIN pool' BY <1>0, <1>3, <1>4 DEF DialShape
<1>6. ASSUME NEW h \in Addresses
      PROVE  /\ KeptIsOwn(h)' /\ pool'[h].plain \in BOOLEAN
             /\ pool'[h] = [daemon |-> pool'[h].daemon, plain |-> pool'[h].plain]
  <2>h. h \in Hosts BY DEF Hosts
  <2>1. CASE call[c].host # h
    <3>1. tickets'[h] = tickets[h] /\ pool'[h] = pool[h] BY <1>0, <1>3, <1>4, <2>h, <2>1 DEF DialShape
    <3>q. QED BY <1>0, <1>1, <3>1 DEF KeptIsOwn, DialShape
  <2>2. CASE call[c].host = h
    <3>1. call[c].target \in asked[h] /\ call[c].plain \in BOOLEAN BY <1>0, <1>1, <1>a, <2>2 DEF CallIsOwn
    <3>2. ~call[c].plain => \A t \in registry : asked[h] = {t} => call[c].daemon = t
      BY <1>0, <1>1, <1>a, <2>2 DEF CallIsOwn
    <3>3. tickets'[h] = IF call[c].plain THEN tickets[h] ELSE call[c].daemon
      BY <1>0, <1>3, <2>h, <2>2 DEF DialShape
    <3>4. pool'[h] = pool[h] \/ pool'[h] = [daemon |-> call[c].daemon, plain |-> call[c].plain]
      BY <1>0, <1>4, <2>h, <2>2 DEF DialShape
    <3>5. /\ pool'[h].plain \in BOOLEAN
          /\ pool'[h] = [daemon |-> pool'[h].daemon, plain |-> pool'[h].plain]
      BY <1>0, <3>1, <3>4 DEF DialShape
    <3>6. KeptIsOwn(h)'
      <4>1. ASSUME NEW t \in registry, asked[h] = {t}
            PROVE  /\ expected[h] = t /\ tickets'[h] \in {Nobody, t}
                   /\ ~pool'[h].plain => pool'[h].daemon \in {Nobody, t}
        <5>1. /\ expected[h] = t /\ tickets[h] \in {Nobody, t}
              /\ ~pool[h].plain => pool[h].daemon \in {Nobody, t}
          BY <1>0, <4>1 DEF KeptIsOwn
        <5>2. ~call[c].plain => call[c].daemon = t BY <3>2, <4>1
        <5>q. QED BY <3>1, <3>3, <3>4, <5>1, <5>2
      <4>q. QED BY <1>1, <3>1, <4>1 DEF KeptIsOwn
    <3>q. QED BY <3>5, <3>6
  <2>q. QED BY <2>1, <2>2
<1>q. QED BY <1>1, <1>2, <1>5, <1>6, CallStep

LEMMA MoveOwn == ASSUME DialInv, Move PROVE DialInv'
<1>0. DialShape /\ \A h \in Addresses : KeptIsOwn(h) /\ \A c \in Calls : CallIsOwn(call[c], h) BY DEF DialInv
<1>1. UNCHANGED <<registry, expected, tickets, call, asked>> BY DEF Move, fixed
<1>2. PICK a : pool' = [pool EXCEPT ![a] = NoSession] BY DEF Move
<1>3. \A h \in Addresses : pool'[h] = pool[h] \/ pool'[h] = NoSession BY <1>0, <1>2 DEF DialShape, Hosts
<1>4. DialShape' BY <1>0, <1>1, <1>2, <1>3 DEF DialShape, Hosts, NoSession, NoCall
<1>5. ASSUME NEW h \in Addresses PROVE KeptIsOwn(h)'
  <2>1. CASE pool'[h] = pool[h] BY <1>0, <1>1, <2>1 DEF KeptIsOwn
  <2>2. CASE pool'[h] = NoSession
    <3>1. NoSession.daemon = Nobody BY DEF NoSession
    <3>q. QED BY <1>0, <1>1, <2>2, <3>1 DEF KeptIsOwn
  <2>q. QED BY <1>3, <2>1, <2>2
<1>6. \A h \in Addresses : \A c \in Calls : CallIsOwn(call[c], h)' BY <1>0, <1>1 DEF CallIsOwn
<1>q. QED BY <1>4, <1>5, <1>6 DEF DialInv

LEMMA DialInvInit == DialInit => DialInv
<1> SUFFICES ASSUME DialInit PROVE DialInv OBVIOUS
<1>1. DialShape BY DEF DialInit, DialShape, NoSession, Hosts
<1>2. \A h \in Addresses : KeptIsOwn(h)
  <2>1. \A h \in Addresses : tickets[h] = Nobody /\ pool[h] = NoSession /\ asked[h] = {} BY DEF DialInit, Hosts
  <2>q. QED BY <2>1 DEF KeptIsOwn
<1>3. \A h \in Addresses : \A c \in Calls : CallIsOwn(call[c], h)
  BY DEF DialInit, CallIsOwn, NoCall, Bound, PastKey
<1>q. QED BY <1>1, <1>2, <1>3 DEF DialInv

LEMMA DialInvStep == ASSUME PeerAssumption, DialAssumption, DialInv, [DialNext]_dialVars PROVE DialInv'
<1>1. CASE UNCHANGED dialVars
  <2>1. UNCHANGED <<registry, expected, tickets, pool, call, asked>> BY <1>1 DEF dialVars
  <2>2. DialShape /\ \A h \in Addresses : KeptIsOwn(h) /\ \A c \in Calls : CallIsOwn(call[c], h) BY DEF DialInv
  <2>3. DialShape' BY <2>1, <2>2 DEF DialShape, Hosts, NoCall
  <2>4. \A h \in Addresses : KeptIsOwn(h)' BY <2>1, <2>2 DEF KeptIsOwn
  <2>5. \A h \in Addresses : \A c \in Calls : CallIsOwn(call[c], h)' BY <2>1, <2>2 DEF CallIsOwn
  <2>q. QED BY <2>3, <2>4, <2>5 DEF DialInv
<1>2. CASE Move BY <1>2, MoveOwn
<1>3. ASSUME NEW c \in Calls, ProbeReturns(c) \/ ProbeTimesOut(c) PROVE DialInv'
  <2>1. PICK i, state : Probe(c, i, state) BY <1>3 DEF ProbeReturns, ProbeTimesOut
  <2>q. QED BY <2>1, ProbeOwn
<1>4. ASSUME NEW c \in Calls,
             \/ \E t \in Nodes : Resolve(c, t)
             \/ Dial(c) \/ HandshakeResumed(c) \/ Handshake(c) \/ HandshakeFails(c)
             \/ RecordPin(c) \/ AppendPin(c) \/ Authenticate(c) \/ RunCommand(c)
      PROVE  DialInv'
  <2>1. ASSUME NEW t \in Nodes, Resolve(c, t) PROVE DialInv' BY <2>1, ResolveOwn
  <2>2. CASE HandshakeResumed(c) \/ Handshake(c) \/ HandshakeFails(c) BY <2>2, HandshakeOwn
  <2>3. CASE RecordPin(c) \/ AppendPin(c) \/ RunCommand(c) BY <2>3, PinOwn
  <2>4. CASE Dial(c) BY <2>4, DialOwn
  <2>5. CASE Authenticate(c) BY <2>5, AuthenticateOwn
  <2>q. QED BY <1>4, <2>1, <2>2, <2>3, <2>4, <2>5
<1>q. QED BY <1>1, <1>2, <1>3, <1>4 DEF DialNext

\* A command whose target has a registered key runs over TLS on that target
\* or not at all, whatever address the name is resolved to and whoever is
\* there, as long as no other name was resolved to that address: through
\* probes, pins, tickets, pooled sessions and addresses that move (dialAuth,
\* SetExpectedHostKey, resolveReachableHost).
THEOREM VerifiedRunOnTheirTarget == DialSpec => []VerifiedRunsRight
<1>1. ASSUME DialInv PROVE VerifiedRunsRight
  <2>1. ASSUME NEW c \in Calls, Verifiable(c), asked[call[c].host] = {call[c].target}
        PROVE  call[c].daemon = call[c].target
    <3>1. call[c].host \in Addresses /\ call[c].target \in registry /\ call[c].at \in PastKey /\ ~call[c].plain
      BY <2>1 DEF Verifiable, PastKey
    <3>2. CallIsOwn(call[c], call[c].host) BY <1>1, <3>1 DEF DialInv
    <3>q. QED BY <2>1, <3>1, <3>2 DEF CallIsOwn
  <2>q. QED BY <2>1 DEF VerifiedRunsRight
<1>q. QED BY <1>1, PeerAssumption, DialAssumption, DialInvInit, DialInvStep, PTL DEF DialSpec

----------------------------------------------------------------------------
(* The types of Dialing.  Here it has to be known how a name is resolved:  *)
(* the candidates are addresses, whatever the sources said.                *)

\* The least member of a set of naturals is one of its members.
LEMMA MinIs ==
  ASSUME NEW T, T \subseteq Nat, T # {}
  PROVE  Min(T) \in T
BY NatMin DEF Min

\* What is taken of the first list that is not empty.
LEMMA FirstOfIs ==
  ASSUME NEW sources \in Seq(Lists)
  PROVE  FirstOf(sources) \in Lists
<1>1. PICK i : i = SelectInSeq(sources, LAMBDA s : s # {})
  OBVIOUS
<1>2. PICK I : I = {n \in 1..Len(sources) : sources[n] # {}}
  OBVIOUS
<1>3. i = IF I # {} THEN Min(I) ELSE 0
  BY <1>1, <1>2 DEF SelectInSeq
<1>4. I \subseteq Nat /\ I \subseteq 1..Len(sources) /\ DOMAIN sources = 1..Len(sources)
  BY <1>2
<1>5. I # {} => i \in 1..Len(sources)
  BY <1>3, <1>4, MinIs
<1>6. FirstOf(sources) = IF \E n \in DOMAIN sources : sources[n] # {} THEN sources[i] ELSE {}
  BY <1>1 DEF FirstOf
<1>7. {} \in Lists
  BY FS_EmptySet DEF Lists
<1>8. CASE I = {}
  BY <1>2, <1>4, <1>6, <1>7, <1>8
<1>9. CASE I # {}
  BY <1>2, <1>4, <1>5, <1>6, <1>9
<1>10. QED BY <1>8, <1>9

LEMMA StatisticsIs ==
  ASSUME NEW s \in Sources
  PROVE  Statistics(s) \in Lists
<1>1. <<s.daemon, s.coordinators, s.cache>> \in Seq(Lists)
  BY DEF Sources
<1>2. QED BY <1>1, FirstOfIs DEF Statistics

\* Merging and enriching make peers of peers.
LEMMA FilledIs ==
  ASSUME NEW p \in Peers, NEW s \in Peers
  PROVE  Filled(p, s) \in Peers
BY DEF Filled, Peers

LEMMA MergeIs ==
  ASSUME NEW p \in Peers, NEW said, said \subseteq Peers, NEW q \in MergeStats(p, said)
  PROVE  q \in Peers
<1>1. ASSUME NEW s \in Peers
      PROVE  [p EXCEPT !.lan = Filled(p, s).lan,
                       !.name = IF <<s.name, @>> \in Within THEN s.name ELSE @] \in Peers
  <2>1. PICK f \in Peers : f = Filled(p, s)
    BY FilledIs
  <2>2. PICK name : name = IF <<s.name, p.name>> \in Within THEN s.name ELSE p.name
    OBVIOUS
  <2>3. name \in Nodes
    BY <2>2 DEF Peers
  <2>4. [p EXCEPT !.lan = f.lan, !.name = name] \in Peers
    BY <2>3 DEF Peers
  <2>5. QED BY <2>1, <2>2, <2>4 DEF Peers
<1>2. \/ q = p
      \/ \E s \in said : q = [p EXCEPT !.lan = Filled(p, s).lan,
                                        !.name = IF <<s.name, @>> \in Within THEN s.name ELSE @]
  BY DEF MergeStats
<1>3. QED BY <1>1, <1>2

LEMMA EnrichIs ==
  ASSUME NEW p \in Peers, NEW config, config \subseteq Peers, NEW q \in Enrich(p, config)
  PROVE  q \in Peers
<1>1. PICK n \in {p.name} \cup {c.name : c \in config} :
        q = [p EXCEPT !.name = n] \/ \E c \in config : q = Filled([p EXCEPT !.name = n], c)
  <2>1. PICK owners, aliases :
          /\ owners = {c.name : c \in {c \in config : c.vpn = p.vpn /\ c.vpn # NoAddress}}
          /\ aliases = IF owners = {} THEN {p.name} ELSE owners
    OBVIOUS
  <2>2. aliases \subseteq {p.name} \cup {c.name : c \in config}
    BY <2>1
  <2>3. PICK n \in aliases :
          q \in (IF {c \in config : c.name = n} = {} THEN {[p EXCEPT !.name = n]}
                 ELSE {Filled([p EXCEPT !.name = n], c) : c \in {c \in config : c.name = n}})
    BY <2>1, Zenon DEF Enrich
  <2>4. q = [p EXCEPT !.name = n] \/ \E c \in config : q = Filled([p EXCEPT !.name = n], c)
    BY <2>3
  <2>5. QED BY <2>2, <2>4
<1>2. n \in Nodes
  BY <1>1 DEF Peers
<1>3. PICK r : r = [p EXCEPT !.name = n]
  OBVIOUS
<1>4. r \in Peers
  BY <1>2, <1>3 DEF Peers
<1>5. QED BY <1>1, <1>3, <1>4, FilledIs

LEMMA LoadedAre ==
  ASSUME NEW s \in Sources, NEW peers \in LoadPeers(s)
  PROVE  peers \in Seq(Peers)
<1>1. Statistics(s) \in Lists /\ s.config \in Lists /\ s.tailscale \in Lists
  BY StatisticsIs DEF Sources
<1>2. PeersFromTailscale(s) \in Lists
  <2>1. PeersFromTailscale(s) \subseteq s.tailscale
    BY DEF PeersFromTailscale
  <2>2. QED BY <1>1, <2>1, FS_Subset DEF Lists
<1>3. PICK found : found = FirstOf(<<PeersFromTailscale(s), Statistics(s), s.config>>)
  OBVIOUS
<1>4. found \subseteq Peers /\ Cardinality(found) \in Nat
  <2>1. <<PeersFromTailscale(s), Statistics(s), s.config>> \in Seq(Lists)
    BY <1>1, <1>2
  <2>2. found \in Lists
    BY <1>3, <2>1, FirstOfIs
  <2>3. QED BY <2>2, FS_CardinalityType DEF Lists
<1>5. PICK order, f : /\ order \in SetToSeqs(found) /\ f \in [found -> Peers]
                      /\ peers = [i \in DOMAIN order |-> f[order[i]]]
  <2>1. PICK order, f :
          /\ order \in SetToSeqs(found) /\ DOMAIN f = found /\ f = [p \in found |-> f[p]]
          /\ \A p \in found : \E q \in (IF p \in s.tailscale THEN MergeStats(p, Statistics(s)) ELSE {p}) :
               f[p] \in Enrich(q, s.config)
          /\ peers = [i \in DOMAIN order |-> f[order[i]]]
    BY <1>3 DEF LoadPeers
  <2>2. ASSUME NEW p \in found PROVE f[p] \in Peers
    <3>1. PICK q : /\ q = p \/ q \in MergeStats(p, Statistics(s))
                   /\ f[p] \in Enrich(q, s.config)
      BY <2>1
    <3>2. q \in Peers
      BY <1>1, <1>4, <3>1, MergeIs DEF Lists
    <3>3. QED BY <1>1, <3>1, <3>2, EnrichIs DEF Lists
  <2>3. QED BY <2>1, <2>2
<1>6. order \in [1..Cardinality(found) -> found]
  BY <1>5 DEF SetToSeqs
<1>7. peers \in [1..Cardinality(found) -> Peers]
  BY <1>5, <1>6
<1>8. QED BY <1>4, <1>7

\* The candidates for a name are hosts.
LEMMA CandidatesAre ==
  ASSUME NEW s \in Sources, NEW peers \in Seq(Peers), NEW t
  PROVE  CandidateHosts(s, peers, t) \in Seq(Hosts)
<1>0. Loopback \in Hosts /\ <<Loopback>> \in Seq(Hosts) /\ <<>> \in Seq(Hosts)
  BY PeerAssumption DEF Hosts
<1>1. PICK i : i = FindPeer(peers, t)
  OBVIOUS
<1>2. i # 0 => peers[i] \in Peers
  <2>1. PICK I : I = {n \in 1..Len(peers) : \/ peers[n].name = t \/ <<t, peers[n].name>> \in Within
                                            \/ peers[n].vpn = t}
    OBVIOUS
  <2>2. i = IF I # {} THEN Min(I) ELSE 0
    BY <1>1, <2>1 DEF FindPeer, SelectInSeq
  <2>3. I \subseteq Nat /\ I \subseteq 1..Len(peers)
    BY <2>1
  <2>4. i # 0 => i \in 1..Len(peers)
    BY <2>2, <2>3, MinIs
  <2>5. QED BY <2>4
<1>3. ASSUME NEW p \in Peers PROVE Endpoints(s, p) \in Seq(Addresses)
  <2>1. TailscaleIP(s, p.name) \in Addresses \cup {NoAddress}
    <3>1. PICK k : k = {q \in s.tailscale : q.name = p.name}
      OBVIOUS
    <3>2. TailscaleIP(s, p.name) = IF k = {} THEN NoAddress ELSE (CHOOSE q \in k : TRUE).vpn
      BY <3>1 DEF TailscaleIP
    <3>3. k \subseteq Peers
      BY <3>1 DEF Sources, Lists
    <3>4. k # {} => (CHOOSE q \in k : TRUE) \in k
      OBVIOUS
    <3>5. QED BY <3>2, <3>3, <3>4 DEF Peers
  <2>2. PICK all : all = <<TailscaleIP(s, p.name), p.vpn, p.lan>>
    OBVIOUS
  <2>3. \A n \in 1..3 : all[n] \in Addresses \cup {NoAddress}
    <3>1. p.vpn \in Addresses \cup {NoAddress} /\ p.lan \in Addresses \cup {NoAddress}
      BY DEF Peers
    <3>2. all[1] = TailscaleIP(s, p.name) /\ all[2] = p.vpn /\ all[3] = p.lan
      BY <2>2
    <3>3. \A n \in 1..3 : n = 1 \/ n = 2 \/ n = 3
      OBVIOUS
    <3>4. QED BY <2>1, <3>1, <3>2, <3>3
  <2>4. PICK new : new = {n \in 1..3 : all[n] # NoAddress /\ \A j \in 1..n - 1 : all[j] # all[n]}
    OBVIOUS
  <2>5. PICK order : order = Selected(<<1, 2, 3>>, new)
    OBVIOUS
  <2>6. order \in Seq(1..3) /\ \A n \in DOMAIN order : order[n] \in new
    <3>1. PICK slots : slots = <<1, 2, 3>>
      OBVIOUS
    <3>2. slots \in Seq(1..3)
      BY <3>1
    <3>3. order = Selected(slots, new)
      BY <2>5, <3>1
    <3>4. order \in Seq(1..3)
      BY <3>2, <3>3, SelectedMembers
    <3>5. \A x : (\E n \in DOMAIN order : order[n] = x) => x \in new
      BY <3>2, <3>3, SelectedMembers
    <3>6. QED BY <3>4, <3>5
  <2>7. Endpoints(s, p) = [n \in DOMAIN order |-> all[order[n]]]
    BY <2>2, <2>4, <2>5 DEF Endpoints
  <2>8. \A n \in DOMAIN order : all[order[n]] \in Addresses
    BY <2>3, <2>4, <2>6
  <2>9. DOMAIN order = 1..Len(order) /\ Len(order) \in Nat
    BY <2>6
  <2>10. QED BY <2>7, <2>8, <2>9
<1>4. PICK ends : ends = Endpoints(s, peers[i])
  OBVIOUS
<1>5. PICK away : away = Selected(ends, Addresses \ OwnAddresses)
  OBVIOUS
<1>6. i # 0 => away \in Seq(Hosts)
  <2>1. SUFFICES ASSUME i # 0 PROVE away \in Seq(Hosts)
    OBVIOUS
  <2>2. ends \in Seq(Addresses)
    BY <1>2, <1>3, <1>4, <2>1
  <2>3. away \in Seq(Addresses)
    BY <1>5, <2>2, SelectedMembers
  <2>4. QED BY <2>3 DEF Hosts
<1>7. CandidateHosts(s, peers, t) \in {<<Loopback>>, <<>>, away} /\ (CandidateHosts(s, peers, t) = away => i # 0 \/ away = <<>> \/ away = <<Loopback>>)
  BY <1>1, <1>4, <1>5 DEF CandidateHosts
<1>8. QED BY <1>0, <1>6, <1>7

CallRecords == [at : {"idle", "probe", "dial", "handshake", "record", "append",
                      "authenticate", "run", "done", "error"},
                target : Daemons, hosts : Seq(Hosts), probes : Seq({"pending", "up", "down"}),
                host : Hosts \cup {Nobody}, pinned : Daemons, daemon : Daemons, plain : BOOLEAN]

\* A call probes some host, is bound for one once it has chosen, and has a
\* daemon before it for as long as it may pin its key.
CallTyped(r) ==
  /\ r \in CallRecords
  /\ r.at = "probe" => r.target \in Nodes /\ r.hosts # <<>> /\ Len(r.probes) = Len(r.hosts)
  /\ r.at \in Bound => r.host \in Hosts
  /\ r.at \in {"handshake", "record", "append"} => r.daemon \in Nodes

DialTypesInv == DialTypeOK /\ \A c \in Calls : CallTyped(call[c])

LEMMA NoCallTyped ==
  /\ CallTyped(NoCall) /\ CallTyped([NoCall EXCEPT !.at = "error"])
  /\ \A t \in Nodes, h \in Hosts : CallTyped([NoCall EXCEPT !.at = "dial", !.target = t, !.host = h])
<1>0. PICK none : none = <<>>
  OBVIOUS
<1>1. none \in Seq(Hosts) /\ none \in Seq({"pending", "up", "down"})
  BY <1>0
<1>2. Nobody \in Daemons /\ Nobody \in Hosts \cup {Nobody} /\ Nodes \subseteq Daemons
  BY DEF Daemons
<1>3. NoCall = [at |-> "idle", target |-> Nobody, hosts |-> none, probes |-> none, host |-> Nobody,
                pinned |-> Nobody, daemon |-> Nobody, plain |-> FALSE]
  BY <1>0, Zenon DEF NoCall
<1>4. NoCall \in CallRecords /\ NoCall.at = "idle"
  BY <1>1, <1>2, <1>3 DEF CallRecords
<1>5. CallTyped(NoCall)
  BY <1>4 DEF CallTyped, Bound
<1>6. CallTyped([NoCall EXCEPT !.at = "error"])
  <2>1. PICK r : r = [NoCall EXCEPT !.at = "error"]
    OBVIOUS
  <2>2. r \in CallRecords /\ r.at = "error"
    BY <1>4, <2>1 DEF CallRecords
  <2>3. QED BY <2>1, <2>2 DEF CallTyped, Bound
<1>7. ASSUME NEW t \in Nodes, NEW h \in Hosts
      PROVE  CallTyped([NoCall EXCEPT !.at = "dial", !.target = t, !.host = h])
  <2>1. PICK r : r = [NoCall EXCEPT !.at = "dial", !.target = t, !.host = h]
    OBVIOUS
  <2>2. r \in CallRecords /\ r.at = "dial" /\ r.host = h
    BY <1>2, <1>4, <2>1 DEF CallRecords
  <2>3. QED BY <2>1, <2>2 DEF CallTyped, Bound
<1>8. QED BY <1>5, <1>6, <1>7

LEMMA DialTypesInit == DialInit => DialTypesInv
<1> SUFFICES ASSUME DialInit PROVE DialTypesInv
  OBVIOUS
<1>1. call \in [Calls -> CallRecords] /\ \A c \in Calls : CallTyped(call[c])
  <2>1. CallTyped(NoCall) /\ NoCall \in CallRecords
    BY NoCallTyped DEF CallTyped
  <2>2. QED BY <2>1 DEF DialInit
<1>2. pool \in [Hosts -> [daemon : Daemons, plain : BOOLEAN]]
  BY DEF DialInit, NoSession, Daemons
<1>3. {owner, expected, tickets} \subseteq [Hosts -> Daemons]
  <2>1. owner \in [Hosts -> Daemons]
    BY DEF DialInit
  <2>2. expected \in [Hosts -> Daemons] /\ tickets \in [Hosts -> Daemons]
    BY DEF DialInit, Daemons
  <2>3. QED BY <2>1, <2>2
<1>4. moves \in 0..MaxMoves /\ failures \in 0..MaxFailures
  BY DialAssumption DEF DialInit
<1>5. DialTypeOK
  BY <1>1, <1>2, <1>3, <1>4 DEF DialInit, DialTypeOK, CallRecords
<1>6. QED BY <1>1, <1>5 DEF DialTypesInv

\* A step of one call to a record r.
LEMMA TypedStep ==
  ASSUME DialTypesInv, NEW c \in Calls, NEW r, CallTyped(r), call' = [call EXCEPT ![c] = r],
         UNCHANGED fixed,
         owner' \in [Hosts -> Daemons], expected' \in [Hosts -> Daemons],
         tickets' \in [Hosts -> Daemons], pool' \in [Hosts -> [daemon : Daemons, plain : BOOLEAN]],
         known' \in Seq([host : Hosts, key : Nodes]), asked' \in [Hosts -> SUBSET Nodes],
         moves' \in 0..MaxMoves, failures' \in 0..MaxFailures
  PROVE  DialTypesInv'
<1>1. call \in [Calls -> CallRecords] /\ \A d \in Calls : CallTyped(call[d])
  BY DEF DialTypesInv, DialTypeOK, CallRecords
<1>2. r \in CallRecords
  BY DEF CallTyped
<1>3. call' \in [Calls -> CallRecords] /\ \A d \in Calls : CallTyped(call'[d])
  BY <1>1, <1>2
<1>4. DialTypeOK'
  BY <1>3 DEF DialTypesInv, DialTypeOK, CallRecords, fixed
<1>5. \A d \in Calls : CallTyped(call[d])'
  BY <1>3 DEF CallTyped
<1>6. QED BY <1>4, <1>5 DEF DialTypesInv

LEMMA DialTypesAre ==
  ASSUME DialTypesInv
  PROVE  /\ src \in Sources /\ registry \subseteq Nodes /\ owner \in [Hosts -> Daemons]
         /\ expected \in [Hosts -> Daemons] /\ tickets \in [Hosts -> Daemons]
         /\ pool \in [Hosts -> [daemon : Daemons, plain : BOOLEAN]]
         /\ known \in Seq([host : Hosts, key : Nodes]) /\ asked \in [Hosts -> SUBSET Nodes]
         /\ moves \in 0..MaxMoves /\ failures \in 0..MaxFailures
         /\ call \in [Calls -> CallRecords] /\ \A c \in Calls : CallTyped(call[c])
BY DialAssumption DEF DialTypesInv, DialTypeOK, CallRecords

\* The same where only the call changes, and perhaps the count of failures.
LEMMA QuietlyTyped ==
  ASSUME DialTypesInv, NEW c \in Calls, NEW r, CallTyped(r), call' = [call EXCEPT ![c] = r],
         UNCHANGED <<fixed, shared, owner, moves>>, failures' \in 0..MaxFailures
  PROVE  DialTypesInv'
<1>1. /\ UNCHANGED fixed /\ UNCHANGED <<owner, expected, tickets, pool, known, asked, moves>>
  BY DEF shared
<1>2. QED BY <1>1, DialTypesAre, TypedStep

LEMMA ExpectTyped ==
  ASSUME DialTypesInv, NEW c \in Calls, NEW t \in Nodes, NEW hosts, NEW h \in Hosts,
         Expect(c, t, hosts, h), UNCHANGED <<fixed, owner, moves>>, failures' \in 0..MaxFailures
  PROVE  DialTypesInv'
<1>1. PICK r : r = [NoCall EXCEPT !.at = "dial", !.target = t, !.host = h]
  OBVIOUS
<1>2. CallTyped(r) /\ call' = [call EXCEPT ![c] = r]
  BY <1>1, NoCallTyped DEF Expect
<1>3. NodeKey(t) \in Daemons
  BY DEF NodeKey, Daemons
<1>4. expected' \in [Hosts -> Daemons] /\ asked' \in [Hosts -> SUBSET Nodes]
  BY <1>3, DialTypesAre DEF Expect
<1>5. UNCHANGED <<known, tickets, pool>>
  BY DEF Expect
<1>6. QED BY <1>2, <1>4, <1>5, DialTypesAre, TypedStep

LEMMA ResolveTyped ==
  ASSUME DialTypesInv, NEW c \in Calls, NEW t \in Nodes, Resolve(c, t)
  PROVE  DialTypesInv'
<1>0. UNCHANGED <<fixed, owner, moves>> /\ failures' \in 0..MaxFailures
  BY DialTypesAre DEF Resolve, faulty
<1>1. PICK peers \in LoadPeers(src) :
        LET hosts == CandidateHosts(src, peers, t) IN
        \/ /\ hosts = <<>>
           /\ call' = [call EXCEPT ![c].at = "dial", ![c].target = t, ![c].host = t]
           /\ UNCHANGED shared
        \/ hosts # <<>> /\ Expect(c, t, hosts, hosts[1])
        \/ /\ Len(hosts) > 1
           /\ call' = [call EXCEPT ![c].at = "probe", ![c].target = t, ![c].hosts = hosts,
                                   ![c].probes = [i \in DOMAIN hosts |-> "pending"]]
           /\ UNCHANGED shared
  BY DEF Resolve
<1>9. PICK hosts : hosts = CandidateHosts(src, peers, t)
  OBVIOUS
<1>2. hosts \in Seq(Hosts)
  BY <1>9, DialTypesAre, LoadedAre, CandidatesAre
<1>3. PICK o \in CallRecords : o = call[c]
  BY DialTypesAre
<1>4. t \in Hosts /\ t \in Daemons
  BY DEF Hosts, Daemons
<1>5. CASE /\ call' = [call EXCEPT ![c].at = "dial", ![c].target = t, ![c].host = t]
           /\ UNCHANGED shared
  <2>1. PICK r : r = [o EXCEPT !.at = "dial", !.target = t, !.host = t]
    OBVIOUS
  <2>2. CallTyped(r)
    BY <1>4, <2>1 DEF CallTyped, CallRecords, Bound
  <2>3. call' = [call EXCEPT ![c] = r]
    BY <1>3, <1>5, <2>1
  <2>4. QED BY <1>0, <1>5, <2>2, <2>3, QuietlyTyped
<1>6. CASE hosts # <<>> /\ Expect(c, t, hosts, hosts[1])
  <2>1. hosts[1] \in Hosts
    BY <1>2, <1>6
  <2>2. QED BY <1>0, <1>6, <2>1, ExpectTyped
<1>7. CASE /\ Len(hosts) > 1
           /\ call' = [call EXCEPT ![c].at = "probe", ![c].target = t, ![c].hosts = hosts,
                                   ![c].probes = [i \in DOMAIN hosts |-> "pending"]]
           /\ UNCHANGED shared
  <2>1. PICK probes : probes = [i \in DOMAIN hosts |-> "pending"]
    OBVIOUS
  <2>2. probes \in Seq({"pending", "up", "down"}) /\ Len(probes) = Len(hosts)
    <3>1. DOMAIN hosts = 1..Len(hosts) /\ Len(hosts) \in Nat
      BY <1>2
    <3>2. QED BY <2>1, <3>1
  <2>3. PICK r : r = [o EXCEPT !.at = "probe", !.target = t, !.hosts = hosts, !.probes = probes]
    OBVIOUS
  <2>4. r \in CallRecords /\ r.at = "probe" /\ r.target = t /\ r.hosts = hosts /\ r.probes = probes
    BY <1>2, <1>4, <2>2, <2>3 DEF CallRecords
  <2>5. hosts # <<>>
    BY <1>7
  <2>6. CallTyped(r)
    BY <2>2, <2>4, <2>5 DEF CallTyped, Bound
  <2>7. call' = [call EXCEPT ![c] = r]
    BY <1>3, <1>7, <2>1, <2>3
  <2>8. QED BY <1>0, <1>7, <2>6, <2>7, QuietlyTyped
<1>8. QED BY <1>1, <1>9, <1>5, <1>6, <1>7

LEMMA ProbeTyped ==
  ASSUME DialTypesInv, NEW c \in Calls, NEW i \in DOMAIN call[c].probes, NEW state \in {"up", "down"},
         Probe(c, i, state), UNCHANGED <<owner, moves>>, failures' \in 0..MaxFailures
  PROVE  DialTypesInv'
<1>1. PICK o \in CallRecords : o = call[c] /\ CallTyped(o)
  BY DialTypesAre
<1>2. /\ o.at = "probe" /\ o.target \in Nodes /\ o.hosts \in Seq(Hosts) /\ o.hosts # <<>>
      /\ o.probes \in Seq({"pending", "up", "down"}) /\ Len(o.probes) = Len(o.hosts)
  BY <1>1 DEF Probe, CallTyped, CallRecords
<1>3. PICK probes : probes = [o.probes EXCEPT ![i] = state]
  OBVIOUS
<1>4. probes \in Seq({"pending", "up", "down"}) /\ Len(probes) = Len(o.hosts)
  BY <1>1, <1>2, <1>3
<1>5. PICK k : k = SelectInSeq(probes, LAMBDA s : s # "down")
  OBVIOUS
<1>6. k = 0 \/ k \in 1..Len(o.hosts)
  <2>1. PICK I : I = {n \in 1..Len(probes) : probes[n] # "down"}
    OBVIOUS
  <2>2. k = IF I # {} THEN Min(I) ELSE 0
    BY <1>5, <2>1 DEF SelectInSeq
  <2>3. I \subseteq Nat /\ I \subseteq 1..Len(o.hosts)
    BY <1>4, <2>1
  <2>4. QED BY <2>2, <2>3, MinIs
<1>7. UNCHANGED fixed
  BY DEF Probe
<1>8. \/ call' = [call EXCEPT ![c].probes = probes] /\ UNCHANGED shared
      \/ Expect(c, o.target, o.hosts, o.hosts[IF k = 0 THEN 1 ELSE k])
  BY <1>1, <1>3, <1>5 DEF Probe
<1>9. CASE call' = [call EXCEPT ![c].probes = probes] /\ UNCHANGED shared
  <2>1. PICK r : r = [o EXCEPT !.probes = probes]
    OBVIOUS
  <2>2. /\ r \in CallRecords /\ r.at = "probe" /\ r.target = o.target /\ r.hosts = o.hosts
        /\ r.probes = probes
    BY <1>2, <1>4, <2>1 DEF CallRecords
  <2>3. CallTyped(r)
    BY <1>2, <1>4, <2>2 DEF CallTyped, Bound
  <2>4. call' = [call EXCEPT ![c] = r]
    BY <1>1, <1>9, <2>1
  <2>5. QED BY <1>7, <1>9, <2>3, <2>4, QuietlyTyped
<1>10. CASE Expect(c, o.target, o.hosts, o.hosts[IF k = 0 THEN 1 ELSE k])
  <2>1. PICK h : h = o.hosts[IF k = 0 THEN 1 ELSE k]
    OBVIOUS
  <2>2. h \in Hosts
    BY <1>2, <1>6, <2>1
  <2>3. QED BY <1>2, <1>7, <1>10, <2>1, <2>2, ExpectTyped
<1>11. QED BY <1>8, <1>9, <1>10

LEMMA MemberIs ==
  ASSUME NEW S, NEW s \in Seq(S), NEW i \in 1..Len(s)
  PROVE  s[i] \in S
OBVIOUS

\* The pin of a host is the key of a node.
LEMMA PinIs ==
  ASSUME DialTypesInv, NEW h
  PROVE  KnownHostPub(h) \in Daemons
<1>1. PICK s : s = known
  OBVIOUS
<1>2. s \in Seq([host : Hosts, key : Nodes])
  BY <1>1, DialTypesAre
<1>3. PICK I : I = {n \in 1..Len(s) : s[n].host = h}
  OBVIOUS
<1>4. PICK i : i = IF I # {} THEN Min(I) ELSE 0
  OBVIOUS
<1>5. KnownHostPub(h) = IF i = 0 THEN Nobody ELSE s[i].key
  BY <1>1, <1>3, <1>4 DEF KnownHostPub, SelectInSeq
<1>6. I \subseteq Nat /\ I \subseteq 1..Len(s)
  BY <1>2, <1>3
<1>7. i = 0 \/ i \in 1..Len(s)
  BY <1>4, <1>6, MinIs
<1>8. ASSUME i \in 1..Len(s) PROVE s[i].key \in Nodes
  <2>1. s[i] \in [host : Hosts, key : Nodes]
    BY <1>2, <1>8, MemberIs
  <2>2. QED BY <2>1
<1>9. QED BY <1>5, <1>7, <1>8 DEF Daemons

LEMMA DialTyped ==
  ASSUME DialTypesInv, NEW c \in Calls, Dial(c)
  PROVE  DialTypesInv'
<1>1. PICK o \in CallRecords : o = call[c] /\ CallTyped(o)
  BY DialTypesAre
<1>2. UNCHANGED <<fixed, shared, owner, moves>> /\ failures' \in 0..MaxFailures
  BY DialTypesAre DEF Dial, faulty
<1>3. PICK h \in Hosts : h = o.host
  BY <1>1 DEF Dial, CallTyped, Bound
<1>4. PICK pin \in Daemons : pin = KnownHostPub(h)
  BY PinIs
<1>5. PICK p \in [daemon : Daemons, plain : BOOLEAN], d \in Daemons : p = pool[h] /\ d = owner[h]
  BY DialTypesAre
<1>6. \/ call' = [call EXCEPT ![c].at = "run", ![c].daemon = p.daemon, ![c].plain = p.plain]
      \/ Fails(c)
      \/ d # Nobody /\ call' = [call EXCEPT ![c].at = "handshake", ![c].daemon = d, ![c].pinned = pin]
  BY <1>1, <1>3, <1>4, <1>5 DEF Dial
<1>7. CASE call' = [call EXCEPT ![c].at = "run", ![c].daemon = p.daemon, ![c].plain = p.plain]
  <2>1. PICK r : r = [o EXCEPT !.at = "run", !.daemon = p.daemon, !.plain = p.plain]
    OBVIOUS
  <2>2. CallTyped(r)
    BY <1>3, <2>1 DEF CallTyped, CallRecords, Bound
  <2>3. call' = [call EXCEPT ![c] = r]
    BY <1>1, <1>7, <2>1
  <2>4. QED BY <1>2, <2>2, <2>3, QuietlyTyped
<1>8. CASE Fails(c)
  BY <1>2, <1>8, NoCallTyped, QuietlyTyped DEF Fails
<1>9. CASE d # Nobody /\ call' = [call EXCEPT ![c].at = "handshake", ![c].daemon = d, ![c].pinned = pin]
  <2>1. PICK r : r = [o EXCEPT !.at = "handshake", !.daemon = d, !.pinned = pin]
    OBVIOUS
  <2>2. CallTyped(r)
    BY <1>3, <1>9, <2>1 DEF CallTyped, CallRecords, Bound, Daemons
  <2>3. call' = [call EXCEPT ![c] = r]
    BY <1>1, <1>9, <2>1
  <2>4. QED BY <1>2, <2>2, <2>3, QuietlyTyped
<1>10. QED BY <1>6, <1>7, <1>8, <1>9

\* A call that goes on with nothing else about it changed.
LEMMA GoesTyped ==
  ASSUME DialTypesInv, NEW c \in Calls,
         NEW label \in {"record", "append", "authenticate", "run", "done"}, Goes(c, label),
         call[c].at \in Bound,
         label \in {"record", "append"} => call[c].at \in {"handshake", "record", "append"}
  PROVE  \E r : CallTyped(r) /\ call' = [call EXCEPT ![c] = r]
<1>1. PICK o \in CallRecords : o = call[c] /\ CallTyped(o)
  BY DialTypesAre
<1>2. PICK r : r = [o EXCEPT !.at = label]
  OBVIOUS
<1>3. r \in CallRecords /\ r.at = label /\ r.host = o.host /\ r.daemon = o.daemon
  BY <1>2 DEF CallRecords
<1>4. o.host \in Hosts /\ (label \in {"record", "append"} => o.daemon \in Nodes)
  BY <1>1 DEF CallTyped
<1>5. CallTyped(r)
  BY <1>3, <1>4 DEF CallTyped, Bound
<1>6. call' = [call EXCEPT ![c] = r]
  BY <1>1, <1>2 DEF Goes
<1>7. QED BY <1>5, <1>6

\* What a call holds once it has a connection.
LEMMA ShakenIs ==
  ASSUME DialTypesInv, NEW c \in Calls, call[c].at \in Bound
  PROVE  /\ call[c].host \in Hosts /\ call[c].daemon \in Daemons /\ call[c].plain \in BOOLEAN
         /\ call[c].at \in {"handshake", "record", "append"} => call[c].daemon \in Nodes
BY DialTypesAre DEF CallTyped, CallRecords

LEMMA HandshakeTyped ==
  ASSUME DialTypesInv, NEW c \in Calls, HandshakeResumed(c) \/ Handshake(c)
  PROVE  DialTypesInv'
<1>1. UNCHANGED <<fixed, shared, owner, moves>> /\ failures' \in 0..MaxFailures
  BY DialTypesAre DEF HandshakeResumed, Handshake, faulty
<1>2. call[c].at = "handshake" /\ (Fails(c) \/ Goes(c, "record") \/ Goes(c, "authenticate"))
  BY DEF HandshakeResumed, Handshake
<1>3. CASE Fails(c)
  BY <1>1, <1>3, NoCallTyped, QuietlyTyped DEF Fails
<1>4. CASE Goes(c, "record") \/ Goes(c, "authenticate")
  <2>1. PICK label \in {"record", "authenticate"} : Goes(c, label)
    BY <1>4
  <2>2. PICK r : CallTyped(r) /\ call' = [call EXCEPT ![c] = r]
    BY <1>2, <2>1, GoesTyped DEF Bound
  <2>3. QED BY <1>1, <2>2, QuietlyTyped
<1>5. QED BY <1>2, <1>3, <1>4

LEMMA HandshakeFailsTyped ==
  ASSUME DialTypesInv, NEW c \in Calls, HandshakeFails(c)
  PROVE  DialTypesInv'
<1>1. UNCHANGED <<fixed, shared, owner, moves>> /\ failures' \in 0..MaxFailures
  BY DialTypesAre, DialAssumption DEF HandshakeFails
<1>2. PICK o \in CallRecords : o = call[c] /\ CallTyped(o)
  BY DialTypesAre
<1>3. o.at = "handshake" /\ o.host \in Hosts
  BY <1>2 DEF HandshakeFails, CallTyped, Bound
<1>4. PICK d \in Daemons : d = owner[o.host]
  BY <1>3, DialTypesAre
<1>5. \/ Fails(c)
      \/ call' = [call EXCEPT ![c].at = "authenticate", ![c].daemon = d, ![c].plain = TRUE]
  BY <1>2, <1>4 DEF HandshakeFails
<1>6. CASE Fails(c)
  BY <1>1, <1>6, NoCallTyped, QuietlyTyped DEF Fails
<1>7. CASE call' = [call EXCEPT ![c].at = "authenticate", ![c].daemon = d, ![c].plain = TRUE]
  <2>1. PICK r : r = [o EXCEPT !.at = "authenticate", !.daemon = d, !.plain = TRUE]
    OBVIOUS
  <2>2. r \in CallRecords /\ r.at = "authenticate" /\ r.host = o.host
    BY <2>1 DEF CallRecords
  <2>3. CallTyped(r)
    BY <1>3, <2>2 DEF CallTyped, Bound
  <2>4. call' = [call EXCEPT ![c] = r]
    BY <1>2, <1>7, <2>1
  <2>5. QED BY <1>1, <2>3, <2>4, QuietlyTyped
<1>8. QED BY <1>5, <1>6, <1>7

LEMMA PinningTyped ==
  ASSUME DialTypesInv, NEW c \in Calls, RecordPin(c) \/ AppendPin(c)
  PROVE  DialTypesInv'
<1>1. CASE RecordPin(c)
  <2>1. UNCHANGED <<fixed, shared, owner, moves>> /\ failures' \in 0..MaxFailures
    BY <1>1, DialTypesAre DEF RecordPin, faulty
  <2>2. PICK label \in {"append", "authenticate"} : Goes(c, label)
    BY <1>1 DEF RecordPin
  <2>3. PICK r : CallTyped(r) /\ call' = [call EXCEPT ![c] = r]
    BY <1>1, <2>2, GoesTyped DEF RecordPin, Bound
  <2>4. QED BY <2>1, <2>3, QuietlyTyped
<1>2. CASE AppendPin(c)
  <2>1. /\ UNCHANGED fixed /\ UNCHANGED <<expected, tickets, pool, asked, owner, moves, failures>>
        /\ call[c].at = "append" /\ Goes(c, "authenticate")
    BY <1>2 DEF AppendPin, faulty
  <2>2. PICK r : CallTyped(r) /\ call' = [call EXCEPT ![c] = r]
    BY <2>1, GoesTyped DEF Bound
  <2>3. PICK line : line = [host |-> call[c].host, key |-> call[c].daemon]
    OBVIOUS
  <2>4. line \in [host : Hosts, key : Nodes]
    BY <2>1, <2>3, ShakenIs DEF Bound
  <2>5. known' = Append(known, line)
    BY <1>2, <2>3 DEF AppendPin
  <2>6. known' \in Seq([host : Hosts, key : Nodes])
    BY <2>4, <2>5, DialTypesAre
  <2>7. QED BY <2>1, <2>2, <2>6, DialTypesAre, TypedStep
<1>3. QED BY <1>1, <1>2

LEMMA AuthenticateTyped ==
  ASSUME DialTypesInv, NEW c \in Calls, Authenticate(c)
  PROVE  DialTypesInv'
<1>1. /\ UNCHANGED fixed /\ UNCHANGED <<expected, known, asked, owner, moves, failures>>
      /\ call[c].at = "authenticate" /\ (Goes(c, "run") \/ Fails(c))
  BY DEF Authenticate, faulty
<1>2. PICK h \in Hosts, d \in Daemons, p \in BOOLEAN : h = call[c].host /\ d = call[c].daemon /\ p = call[c].plain
  BY <1>1, ShakenIs DEF Bound
<1>3. tickets' = tickets \/ tickets' = [tickets EXCEPT ![h] = d]
  BY <1>2 DEF Authenticate
<1>4. tickets' \in [Hosts -> Daemons]
  BY <1>3, DialTypesAre
<1>5. pool' = pool \/ pool' = [pool EXCEPT ![h] = [daemon |-> d, plain |-> p]]
  BY <1>2 DEF Authenticate
<1>6. pool' \in [Hosts -> [daemon : Daemons, plain : BOOLEAN]]
  <2>1. PICK session : session = [daemon |-> d, plain |-> p]
    OBVIOUS
  <2>2. session \in [daemon : Daemons, plain : BOOLEAN]
    BY <2>1
  <2>3. QED BY <1>5, <2>1, <2>2, DialTypesAre
<1>7. PICK r : CallTyped(r) /\ call' = [call EXCEPT ![c] = r]
  <2>1. CASE Fails(c)
    BY <2>1, NoCallTyped DEF Fails
  <2>2. CASE Goes(c, "run")
    BY <1>1, <2>2, GoesTyped DEF Bound
  <2>3. QED BY <1>1, <2>1, <2>2
<1>8. QED BY <1>1, <1>4, <1>6, <1>7, DialTypesAre, TypedStep

LEMMA RunTyped ==
  ASSUME DialTypesInv, NEW c \in Calls, RunCommand(c)
  PROVE  DialTypesInv'
<1>1. UNCHANGED <<fixed, shared, owner, moves>> /\ failures' \in 0..MaxFailures
  BY DialTypesAre DEF RunCommand, faulty
<1>2. PICK r : CallTyped(r) /\ call' = [call EXCEPT ![c] = r]
  BY GoesTyped DEF RunCommand, Bound
<1>3. QED BY <1>1, <1>2, QuietlyTyped

\* An address that moves, and a step of another part.
LEMMA MoveTyped ==
  ASSUME DialTypesInv, Move \/ UNCHANGED dialVars
  PROVE  DialTypesInv'
<1>1. UNCHANGED fixed /\ UNCHANGED <<expected, known, tickets, call, asked, failures>>
  BY DEF Move, dialVars, fixed
<1>2. owner' \in [Hosts -> Daemons] /\ moves' \in 0..MaxMoves /\ pool' \in [Hosts -> [daemon : Daemons, plain : BOOLEAN]]
  <2>1. CASE Move
    <3>1. moves' \in 0..MaxMoves
      BY <2>1, DialTypesAre, DialAssumption DEF Move
    <3>2. \E a \in Addresses, d \in Daemons : /\ owner' = [owner EXCEPT ![a] = d]
                                              /\ pool' = [pool EXCEPT ![a] = NoSession]
      BY <2>1 DEF Move
    <3>3. NoSession \in [daemon : Daemons, plain : BOOLEAN]
      BY DEF NoSession, Daemons
    <3>4. owner' \in [Hosts -> Daemons]
      BY <3>2, DialTypesAre
    <3>5. pool' \in [Hosts -> [daemon : Daemons, plain : BOOLEAN]]
      BY <3>2, <3>3, DialTypesAre
    <3>6. QED BY <3>1, <3>4, <3>5
  <2>2. CASE UNCHANGED dialVars
    BY <2>2, DialTypesAre DEF dialVars
  <2>3. QED BY <2>1, <2>2
<1>3. \A c \in Calls : CallTyped(call'[c])
  BY <1>1, DialTypesAre
<1>4. DialTypeOK'
  BY <1>1, <1>2, DialTypesAre DEF DialTypesInv, DialTypeOK, CallRecords, fixed
<1>5. \A c \in Calls : CallTyped(call[c])'
  BY <1>3 DEF CallTyped
<1>6. QED BY <1>4, <1>5 DEF DialTypesInv

LEMMA DialTypesHold == DialSpec => []DialTypesInv
<1>1. DialTypesInv /\ [DialNext]_dialVars => DialTypesInv'
  <2>1. SUFFICES ASSUME DialTypesInv, [DialNext]_dialVars PROVE DialTypesInv'
    OBVIOUS
  <2>2. CASE Move \/ UNCHANGED dialVars
    BY <2>1, <2>2, MoveTyped
  <2>3. ASSUME NEW c \in Calls, NEW t \in Nodes, Resolve(c, t) PROVE DialTypesInv'
    BY <2>1, <2>3, ResolveTyped
  <2>4. ASSUME NEW c \in Calls, ProbeReturns(c) \/ ProbeTimesOut(c) PROVE DialTypesInv'
    <3>1. UNCHANGED <<owner, moves>> /\ failures' \in 0..MaxFailures
      BY <2>1, <2>4, DialTypesAre, DialAssumption DEF ProbeReturns, ProbeTimesOut, faulty
    <3>2. PICK i \in DOMAIN call[c].probes, state \in {"up", "down"} : Probe(c, i, state)
      BY <2>4 DEF ProbeReturns, ProbeTimesOut
    <3>3. QED BY <2>1, <3>1, <3>2, ProbeTyped
  <2>5. ASSUME NEW c \in Calls, Dial(c) PROVE DialTypesInv'
    BY <2>1, <2>5, DialTyped
  <2>6. ASSUME NEW c \in Calls, HandshakeResumed(c) \/ Handshake(c) PROVE DialTypesInv'
    BY <2>1, <2>6, HandshakeTyped
  <2>7. ASSUME NEW c \in Calls, HandshakeFails(c) PROVE DialTypesInv'
    BY <2>1, <2>7, HandshakeFailsTyped
  <2>8. ASSUME NEW c \in Calls, RecordPin(c) \/ AppendPin(c) PROVE DialTypesInv'
    BY <2>1, <2>8, PinningTyped
  <2>9. ASSUME NEW c \in Calls, Authenticate(c) PROVE DialTypesInv'
    BY <2>1, <2>9, AuthenticateTyped
  <2>10. ASSUME NEW c \in Calls, RunCommand(c) PROVE DialTypesInv'
    BY <2>1, <2>10, RunTyped
  <2>11. QED BY <2>1, <2>2, <2>3, <2>4, <2>5, <2>6, <2>7, <2>8, <2>9, <2>10 DEF DialNext
<1>2. QED BY <1>1, DialTypesInit, PTL DEF DialSpec

----------------------------------------------------------------------------
(* Agent.                                                                  *)

\* The ticker fires within an interval, and what was noted lies in the past.
Clocked ==
  /\ now < ticker /\ ticker <= now + Interval
  /\ lastRun <= now /\ wellAt <= now

\* Each round has taken a tick of its own, and each attempt a round.
Counted ==
  /\ rounds + (IF pending THEN 1 ELSE 0) <= now
  /\ query.rounds <= rounds
  /\ \A n \in Watched :
       /\ stats[n].attempts + (IF phase = "collect" /\ n \in left THEN 1 ELSE 0) <= rounds
       /\ stats[n].successes + stats[n].timeouts <= stats[n].attempts

\* An agent that is healthy began its last round at most an interval after it
\* was well, and is to begin the next one within an interval; so it was for a
\* query that has read that it is healthy, unless a round began since.
WellLately ==
  /\ healthy => lastRun <= wellAt + Interval
  /\ healthy /\ phase = "wait" => (IF pending THEN now ELSE ticker) <= wellAt + Interval
  /\ query.at = "read" /\ query.healthy /\ query.rounds = rounds => lastRun <= wellAt + Interval
  /\ query.answer = "ok" /\ query.rounds = rounds => now <= wellAt + 3 * Interval

AgentInv == AgentTypeOK /\ Clocked /\ Counted /\ WellLately

StatsRecords == [attempts : 0..MaxTime, successes : 0..MaxTime, timeouts : 0..MaxTime, best : Paths \cup {NoPath}]
QueryRecords == [at : {"idle", "read", "answered"}, healthy : BOOLEAN, rounds : 0..MaxTime,
                 answer : {"none", "ok", "degraded", "stale"}]

\* The types again, for the sums.
LEMMA AgentNumbers ==
  ASSUME AgentAssumption, AgentTypeOK
  PROVE  /\ now \in 0..MaxTime /\ lastRun \in 0..MaxTime /\ wellAt \in 0..MaxTime /\ rounds \in 0..MaxTime
         /\ ticker \in 1..(MaxTime + Interval) /\ Interval \in Nat \ {0} /\ MaxTime \in Nat
         /\ healthy \in BOOLEAN /\ pending \in BOOLEAN
         /\ stats \in [Watched -> StatsRecords] /\ query \in QueryRecords
         /\ left \subseteq Watched
BY DEF AgentAssumption, AgentTypeOK, StatsRecords, QueryRecords

LEMMA CollectWell == ASSUME AgentAssumption, AgentInv, Collect PROVE AgentInv'
<1>t. AgentTypeOK /\ Clocked /\ Counted /\ WellLately BY DEF AgentInv
<1>n. /\ now \in 0..MaxTime /\ lastRun \in 0..MaxTime /\ wellAt \in 0..MaxTime /\ rounds \in 0..MaxTime
      /\ Interval \in Nat /\ MaxTime \in Nat /\ query \in QueryRecords /\ stats \in [Watched -> StatsRecords]
  BY <1>t, AgentNumbers
<1>1. /\ phase = "wait" /\ pending = TRUE /\ pending' = FALSE /\ lastRun' = now /\ rounds' = rounds + 1
      /\ phase' = "collect" /\ left' = Watched
      /\ UNCHANGED <<paths, stats, reported, problems, healthy, now, ticker, query, wellAt>>
  BY <1>t DEF Collect, AgentTypeOK
<1>2. rounds + 1 <= now BY <1>t, <1>1 DEF Counted
<1>3. rounds' \in 0..MaxTime /\ lastRun' \in 0..MaxTime BY <1>n, <1>1, <1>2
<1>4. AgentTypeOK' BY <1>t, <1>1, <1>3 DEF AgentTypeOK, Collect
<1>5. Clocked' BY <1>t, <1>n, <1>1 DEF Clocked
<1>6. query.rounds <= rounds /\ query.rounds \in 0..MaxTime BY <1>t, <1>n DEF Counted, QueryRecords
<1>7. Counted'
  <2>1. ASSUME NEW n \in Watched
        PROVE  /\ stats[n].attempts + 1 <= rounds + 1
               /\ stats[n].successes + stats[n].timeouts <= stats[n].attempts
    <3>1. stats[n] \in StatsRecords BY <1>n
    <3>2. /\ stats[n].attempts + (IF phase = "collect" /\ n \in left THEN 1 ELSE 0) <= rounds
          /\ stats[n].successes + stats[n].timeouts <= stats[n].attempts
      BY <1>t DEF Counted
    <3>q. QED BY <1>n, <1>1, <3>1, <3>2 DEF StatsRecords
  <2>q. QED BY <1>n, <1>1, <1>2, <1>6, <2>1 DEF Counted
<1>8. WellLately' BY <1>t, <1>n, <1>1, <1>6 DEF WellLately, Clocked
<1>q. QED BY <1>4, <1>5, <1>7, <1>8 DEF AgentInv

\* The counts of the nodes after a step of the loop within a round.
LEMMA AttemptsCounted ==
  ASSUME AgentAssumption, AgentInv, UNCHANGED <<rounds, pending, now, query>>, NEW n \in Watched, NEW r,
         stats' = [stats EXCEPT ![n] = r],
         r.attempts + (IF phase' = "collect" /\ n \in left' THEN 1 ELSE 0) <= rounds,
         r.successes + r.timeouts <= r.attempts,
         phase' = "collect" => phase = "collect" /\ left' \subseteq left
  PROVE  Counted'
<1>t. stats \in [Watched -> StatsRecords] /\ Counted /\ rounds \in 0..MaxTime BY AgentNumbers DEF AgentInv
<1>1. rounds' + (IF pending' THEN 1 ELSE 0) <= now' /\ query'.rounds <= rounds' BY <1>t DEF Counted
<1>2. ASSUME NEW m \in Watched
      PROVE  /\ stats'[m].attempts + (IF phase' = "collect" /\ m \in left' THEN 1 ELSE 0) <= rounds'
             /\ stats'[m].successes + stats'[m].timeouts <= stats'[m].attempts
  <2>1. CASE m = n BY <1>t, <2>1
  <2>2. CASE m # n
    <3>1. stats'[m] = stats[m] /\ stats[m] \in StatsRecords BY <1>t, <2>2
    <3>2. /\ stats[m].attempts + (IF phase = "collect" /\ m \in left THEN 1 ELSE 0) <= rounds
          /\ stats[m].successes + stats[m].timeouts <= stats[m].attempts
      BY <1>t DEF Counted
    <3>q. QED BY <1>t, <3>1, <3>2 DEF StatsRecords
  <2>q. QED BY <2>1, <2>2
<1>q. QED BY <1>1, <1>2 DEF Counted

LEMMA ProbeWell == ASSUME AgentAssumption, AgentInv, NEW n \in Watched, Probe1(n) PROVE AgentInv'
<1>t. AgentTypeOK /\ Clocked /\ Counted /\ WellLately BY DEF AgentInv
<1>n. rounds \in 0..MaxTime /\ MaxTime \in Nat /\ stats \in [Watched -> StatsRecords] BY <1>t, AgentNumbers
<1>s. stats[n] \in StatsRecords BY <1>n
<1>1. /\ phase = "collect" /\ n \in left /\ left' = left \ {n}
      /\ phase' = IF left' = {} THEN "evaluate" ELSE "collect"
      /\ UNCHANGED <<paths, reported, hints, problems, healthy, lastRun, now, ticker, pending, query, rounds, wellAt>>
  BY DEF Probe1, clock
<1>2. stats[n].attempts + 1 <= rounds /\ stats[n].successes + stats[n].timeouts <= stats[n].attempts
  BY <1>t, <1>1 DEF Counted
<1>3. PICK path \in Paths \cup {NoPath} :
        stats' = [stats EXCEPT ![n] =
          [attempts  |-> @.attempts + 1,
           successes |-> IF path = NoPath THEN @.successes ELSE @.successes + 1,
           timeouts  |-> IF path = NoPath THEN @.timeouts + 1 ELSE @.timeouts,
           best      |-> IF path = NoPath THEN @.best ELSE path]]
  <2>1. Found(n) \subseteq Paths \cup {NoPath} BY <1>t DEF Found, AgentTypeOK
  <2>q. QED BY <2>1 DEF Probe1
<1>4. PICK r : /\ stats' = [stats EXCEPT ![n] = r] /\ r \in StatsRecords
               /\ r.attempts <= rounds /\ r.successes + r.timeouts <= r.attempts
  <2>1. PICK r : r = [attempts  |-> stats[n].attempts + 1,
                      successes |-> IF path = NoPath THEN stats[n].successes ELSE stats[n].successes + 1,
                      timeouts  |-> IF path = NoPath THEN stats[n].timeouts + 1 ELSE stats[n].timeouts,
                      best      |-> IF path = NoPath THEN stats[n].best ELSE path]
    OBVIOUS
  <2>2. /\ r.attempts = stats[n].attempts + 1
        /\ r.successes = IF path = NoPath THEN stats[n].successes ELSE stats[n].successes + 1
        /\ r.timeouts = IF path = NoPath THEN stats[n].timeouts + 1 ELSE stats[n].timeouts
        /\ r.best = IF path = NoPath THEN stats[n].best ELSE path
    BY <2>1
  <2>3. /\ stats[n].attempts \in 0..MaxTime /\ stats[n].successes \in 0..MaxTime /\ stats[n].timeouts \in 0..MaxTime
        /\ stats[n].best \in Paths \cup {NoPath}
    BY <1>s DEF StatsRecords
  <2>4. /\ r.attempts \in 0..MaxTime /\ r.attempts <= rounds /\ r.successes + r.timeouts <= r.attempts
        /\ r.successes \in 0..MaxTime /\ r.timeouts \in 0..MaxTime
    BY <1>n, <1>2, <2>2, <2>3
  <2>5. r \in StatsRecords BY <2>1, <2>2, <2>3, <2>4 DEF StatsRecords
  <2>6. stats' = [stats EXCEPT ![n] = r] BY <1>3, <2>1
  <2>q. QED BY <2>4, <2>5, <2>6
<1>5. r.attempts + (IF phase' = "collect" /\ n \in left' THEN 1 ELSE 0) <= rounds BY <1>1, <1>4, <1>n DEF StatsRecords
<1>6. Counted' BY <1>1, <1>4, <1>5, AttemptsCounted
<1>7. stats' \in [Watched -> StatsRecords] BY <1>n, <1>4
<1>8. AgentTypeOK' BY <1>t, <1>1, <1>7 DEF AgentTypeOK, StatsRecords
<1>9. Clocked' /\ WellLately' BY <1>t, <1>1 DEF Clocked, WellLately
<1>q. QED BY <1>6, <1>8, <1>9 DEF AgentInv

LEMMA ActWell == ASSUME AgentAssumption, AgentInv, NEW n \in Watched, Act(n) PROVE AgentInv'
<1>t. AgentTypeOK /\ Clocked /\ Counted /\ WellLately BY DEF AgentInv
<1>n. rounds \in 0..MaxTime /\ stats \in [Watched -> StatsRecords] BY <1>t, AgentNumbers
<1>s. stats[n] \in StatsRecords BY <1>n
<1>1. /\ phase = "act" /\ n \in left /\ left' = left \ {n}
      /\ UNCHANGED <<paths, reported, hints, phase, problems, healthy, lastRun, now, ticker, pending, query, rounds, wellAt>>
  BY DEF Act, clock
<1>2. PICK path \in Paths : stats' = [stats EXCEPT ![n].best = path]
  <2>1. Found(n) \subseteq Paths \cup {NoPath} BY <1>t DEF Found, AgentTypeOK
  <2>2. PICK path \in Found(n) : stats' = [stats EXCEPT ![n].best = IF path = NoPath THEN "public" ELSE path] BY DEF Act
  <2>3. (IF path = NoPath THEN "public" ELSE path) \in Paths BY <2>1 DEF Paths
  <2>q. QED BY <2>2, <2>3
<1>3. PICK r : /\ stats' = [stats EXCEPT ![n] = r] /\ r \in StatsRecords /\ r.attempts = stats[n].attempts
               /\ r.successes = stats[n].successes /\ r.timeouts = stats[n].timeouts
  <2>1. PICK r : r = [stats[n] EXCEPT !.best = path] OBVIOUS
  <2>2. /\ r \in StatsRecords /\ r.attempts = stats[n].attempts
        /\ r.successes = stats[n].successes /\ r.timeouts = stats[n].timeouts
    BY <1>s, <2>1 DEF StatsRecords
  <2>q. QED BY <1>2, <2>1, <2>2
<1>4. stats[n].attempts <= rounds /\ stats[n].successes + stats[n].timeouts <= stats[n].attempts
  BY <1>t, <1>n, <1>s, <1>1 DEF Counted, StatsRecords
<1>5. r.attempts + (IF phase' = "collect" /\ n \in left' THEN 1 ELSE 0) <= rounds
  BY <1>n, <1>s, <1>1, <1>3, <1>4 DEF StatsRecords
<1>6. Counted' BY <1>1, <1>3, <1>4, <1>5, AttemptsCounted
<1>7. stats' \in [Watched -> StatsRecords] BY <1>n, <1>3
<1>8. AgentTypeOK' BY <1>t, <1>1, <1>7 DEF AgentTypeOK, StatsRecords
<1>9. Clocked' /\ WellLately' BY <1>t, <1>1 DEF Clocked, WellLately
<1>q. QED BY <1>6, <1>8, <1>9 DEF AgentInv

\* The counts where no node is being probed.
LEMMA CountsStay ==
  ASSUME AgentAssumption, AgentInv, UNCHANGED <<rounds, pending, now, stats>>, query'.rounds <= rounds,
         phase' # "collect" \/ UNCHANGED <<phase, left>>
  PROVE  Counted'
<1>t. stats \in [Watched -> StatsRecords] /\ Counted /\ rounds \in 0..MaxTime BY AgentNumbers DEF AgentInv
<1>1. ASSUME NEW m \in Watched
      PROVE  /\ stats'[m].attempts + (IF phase' = "collect" /\ m \in left' THEN 1 ELSE 0) <= rounds'
             /\ stats'[m].successes + stats'[m].timeouts <= stats'[m].attempts
  <2>1. stats[m] \in StatsRecords BY <1>t
  <2>2. /\ stats[m].attempts + (IF phase = "collect" /\ m \in left THEN 1 ELSE 0) <= rounds
        /\ stats[m].successes + stats[m].timeouts <= stats[m].attempts
    BY <1>t DEF Counted
  <2>3. CASE phase' # "collect" BY <1>t, <2>1, <2>2, <2>3 DEF StatsRecords
  <2>4. CASE UNCHANGED <<phase, left>> BY <2>2, <2>4
  <2>q. QED BY <2>3, <2>4
<1>q. QED BY <1>t, <1>1 DEF Counted

LEMMA RoundWell == ASSUME AgentAssumption, AgentInv, Evaluate \/ EndRound PROVE AgentInv'
<1>t. AgentTypeOK /\ Clocked /\ Counted /\ WellLately BY DEF AgentInv
<1>n. /\ now \in 0..MaxTime /\ lastRun \in 0..MaxTime /\ wellAt \in 0..MaxTime /\ ticker \in 1..(MaxTime + Interval)
      /\ Interval \in Nat /\ MaxTime \in Nat /\ rounds \in 0..MaxTime
  BY <1>t, AgentNumbers
<1>1. /\ UNCHANGED <<paths, stats, reported, hints, lastRun, now, ticker, pending, query, rounds>>
      /\ phase' \in {"act", "wait"}
  BY DEF Evaluate, EndRound, clock
<1>2. query'.rounds <= rounds BY <1>t, <1>1 DEF Counted
<1>3. Counted' BY <1>1, <1>2, CountsStay
<1>4. Clocked' /\ AgentTypeOK' /\ WellLately'
  <2>1. CASE Evaluate
    <3>1. phase' = "act" /\ UNCHANGED <<healthy, wellAt>> BY <2>1 DEF Evaluate
    <3>2. problems' \subseteq Watched /\ left' \subseteq Watched BY <2>1 DEF Evaluate
    <3>3. AgentTypeOK' BY <1>t, <1>1, <3>1, <3>2 DEF AgentTypeOK
    <3>q. QED BY <1>t, <1>1, <3>1, <3>3 DEF Clocked, WellLately
  <2>2. CASE EndRound
    <3>1. /\ phase' = "wait" /\ UNCHANGED <<left, problems>>
          /\ \/ healthy' = TRUE /\ wellAt' = now
             \/ healthy' = FALSE /\ wellAt' = wellAt
      BY <2>2 DEF EndRound
    <3>2. AgentTypeOK' BY <1>t, <1>n, <1>1, <3>1 DEF AgentTypeOK
    <3>3. Clocked' BY <1>t, <1>n, <1>1, <3>1 DEF Clocked
    <3>4. wellAt <= wellAt' /\ wellAt' \in 0..MaxTime /\ wellAt <= now BY <1>t, <1>n, <3>1 DEF Clocked
    <3>5. /\ healthy' => lastRun' <= wellAt' + Interval
          /\ healthy' /\ phase' = "wait" => (IF pending' THEN now' ELSE ticker') <= wellAt' + Interval
      BY <1>t, <1>n, <1>1, <3>1 DEF Clocked
    <3>6. /\ query'.at = "read" /\ query'.healthy /\ query'.rounds = rounds' => lastRun' <= wellAt' + Interval
          /\ query'.answer = "ok" /\ query'.rounds = rounds' => now' <= wellAt' + 3 * Interval
      <4>1. UNCHANGED <<query, rounds, lastRun, now>> BY <1>1
      <4>w. PICK w \in 0..MaxTime : wellAt' = w /\ wellAt <= w BY <3>4
      <4>2. ASSUME query.at = "read", query.healthy, query.rounds = rounds PROVE lastRun <= w + Interval
        <5>1. lastRun <= wellAt + Interval BY <1>t, <4>2 DEF WellLately
        <5>q. QED BY <1>n, <4>w, <5>1
      <4>3. ASSUME query.answer = "ok", query.rounds = rounds PROVE now <= w + 3 * Interval
        <5>1. now <= wellAt + 3 * Interval BY <1>t, <4>3 DEF WellLately
        <5>q. QED BY <1>n, <4>w, <5>1
      <4>q. QED BY <4>1, <4>w, <4>2, <4>3
    <3>q. QED BY <3>2, <3>3, <3>5, <3>6 DEF WellLately
  <2>q. QED BY <2>1, <2>2
<1>q. QED BY <1>3, <1>4 DEF AgentInv

LEMMA QueryWell == ASSUME AgentAssumption, AgentInv, IsHealthy \/ LastRun PROVE AgentInv'
<1>t. AgentTypeOK /\ Clocked /\ Counted /\ WellLately BY DEF AgentInv
<1>n. /\ now \in 0..MaxTime /\ lastRun \in 0..MaxTime /\ wellAt \in 0..MaxTime /\ rounds \in 0..MaxTime
      /\ Interval \in Nat /\ MaxTime \in Nat /\ healthy \in BOOLEAN /\ query \in QueryRecords
  BY <1>t, AgentNumbers
<1>1. UNCHANGED <<paths, stats, reported, hints, phase, left, problems, healthy, lastRun, rounds, wellAt,
                  now, ticker, pending>>
  BY DEF IsHealthy, LastRun, loop, clock
<1>2. CASE IsHealthy
  <2>1. query' = [at |-> "read", healthy |-> healthy, rounds |-> rounds, answer |-> "none"] BY <1>2 DEF IsHealthy
  <2>2. /\ query' \in QueryRecords /\ query'.at = "read" /\ query'.healthy = healthy /\ query'.rounds = rounds
        /\ query'.answer = "none"
    BY <1>n, <2>1 DEF QueryRecords
  <2>3. query'.rounds <= rounds BY <1>n, <2>2
  <2>4. Counted' BY <1>1, <2>3, CountsStay
  <2>5. AgentTypeOK' BY <1>t, <1>1, <2>2 DEF AgentTypeOK, QueryRecords
  <2>6. Clocked' BY <1>t, <1>1 DEF Clocked
  <2>7. WellLately' BY <1>t, <1>1, <2>2 DEF WellLately
  <2>q. QED BY <2>4, <2>5, <2>6, <2>7 DEF AgentInv
<1>3. CASE LastRun
  <2>1. PICK answer : /\ answer = IF rounds = 0 \/ IsStale THEN "stale" ELSE IF query.healthy THEN "ok" ELSE "degraded"
                      /\ query' = [query EXCEPT !.at = "answered", !.answer = answer]
    BY <1>3 DEF LastRun
  <2>2. /\ query' \in QueryRecords /\ query'.at = "answered" /\ query'.healthy = query.healthy
        /\ query'.rounds = query.rounds /\ query'.answer = answer
    BY <1>n, <2>1 DEF QueryRecords
  <2>3. query'.rounds <= rounds BY <1>t, <2>2 DEF Counted
  <2>4. Counted' BY <1>1, <2>3, CountsStay
  <2>5. AgentTypeOK' BY <1>t, <1>1, <2>2 DEF AgentTypeOK, QueryRecords
  <2>6. Clocked' BY <1>t, <1>1 DEF Clocked
  <2>7. ASSUME answer = "ok", query.rounds = rounds PROVE now <= wellAt + 3 * Interval
    <3>1. query.healthy /\ ~IsStale BY <2>1, <2>7
    <3>2. now - lastRun <= 2 * Interval BY <1>n, <3>1 DEF IsStale
    <3>3. lastRun <= wellAt + Interval BY <1>t, <1>3, <2>7, <3>1 DEF WellLately, LastRun
    <3>q. QED BY <1>n, <3>2, <3>3
  <2>8. WellLately' BY <1>t, <1>1, <2>2, <2>7 DEF WellLately
  <2>q. QED BY <2>4, <2>5, <2>6, <2>8 DEF AgentInv
<1>q. QED BY <1>2, <1>3

LEMMA ReportWell == ASSUME AgentAssumption, AgentInv, NEW k \in PublicKeys, Report(k) PROVE AgentInv'
<1>t. AgentTypeOK /\ Clocked /\ Counted /\ WellLately BY DEF AgentInv
<1>1. /\ reported' \in {reported \cup {k}, reported \ {k}}
      /\ UNCHANGED <<paths, stats, hints, phase, left, problems, healthy, lastRun, rounds, wellAt,
                     now, ticker, pending, query>>
  BY DEF Report, loop, clock
<1>2. AgentTypeOK' BY <1>t, <1>1 DEF AgentTypeOK
<1>q. QED BY <1>t, <1>1, <1>2 DEF AgentInv, Clocked, Counted, WellLately

LEMMA ElapseWell == ASSUME AgentAssumption, AgentInv, Elapse PROVE AgentInv'
<1>t. AgentTypeOK /\ Clocked /\ Counted /\ WellLately BY DEF AgentInv
<1>n. /\ now \in 0..MaxTime /\ lastRun \in 0..MaxTime /\ wellAt \in 0..MaxTime /\ rounds \in 0..MaxTime
      /\ ticker \in 1..(MaxTime + Interval) /\ Interval \in Nat \ {0} /\ MaxTime \in Nat /\ pending \in BOOLEAN
  BY <1>t, AgentNumbers
<1>1. /\ now < MaxTime /\ now' = now + 1 /\ query' = NoQuery
      /\ UNCHANGED <<paths, stats, reported, hints, phase, left, problems, healthy, lastRun, rounds, wellAt>>
      /\ phase = "wait" => ~pending
  BY DEF Elapse, loop
<1>2. \/ now' = ticker /\ pending' = TRUE /\ ticker' = ticker + Interval
      \/ now' # ticker /\ UNCHANGED <<pending, ticker>>
  BY DEF Elapse
<1>3. Clocked' BY <1>t, <1>n, <1>1, <1>2 DEF Clocked
<1>4. now' \in 0..MaxTime /\ ticker' \in 1..(MaxTime + Interval) /\ pending' \in BOOLEAN
  <2>1. now + 1 \in 0..MaxTime /\ ticker <= now + Interval BY <1>t, <1>n, <1>1 DEF Clocked
  <2>2. ticker + Interval \in 1..(MaxTime + Interval) \/ now + 1 # ticker BY <1>n, <2>1
  <2>q. QED BY <1>n, <1>1, <1>2, <2>1, <2>2
<1>5. NoQuery \in QueryRecords /\ NoQuery.at = "idle" /\ NoQuery.rounds = 0 /\ NoQuery.answer = "none"
  <2>1. 0 \in 0..MaxTime BY <1>n
  <2>q. QED BY <2>1 DEF NoQuery, QueryRecords
<1>6. AgentTypeOK' BY <1>t, <1>1, <1>4, <1>5 DEF AgentTypeOK, QueryRecords
<1>7. Counted'
  <2>1. rounds + (IF pending THEN 1 ELSE 0) <= now BY <1>t DEF Counted
  <2>2. rounds' + (IF pending' THEN 1 ELSE 0) <= now' BY <1>n, <1>1, <1>2, <2>1
  <2>3. query'.rounds <= rounds' BY <1>n, <1>1, <1>5
  <2>q. QED BY <1>t, <1>1, <2>2, <2>3 DEF Counted
<1>8. WellLately'
  <2>1. healthy' => lastRun' <= wellAt' + Interval BY <1>t, <1>1 DEF WellLately
  <2>2. ASSUME healthy', phase' = "wait" PROVE (IF pending' THEN now' ELSE ticker') <= wellAt' + Interval
    <3>1. ticker <= wellAt + Interval /\ ~pending BY <1>t, <1>1, <2>2 DEF WellLately
    <3>2. CASE now' = ticker /\ pending' = TRUE BY <1>1, <3>1, <3>2
    <3>3. CASE UNCHANGED <<pending, ticker>> BY <1>1, <3>1, <3>3
    <3>q. QED BY <1>2, <3>2, <3>3
  <2>3. query'.at # "read" /\ query'.answer # "ok" BY <1>1, <1>5
  <2>q. QED BY <2>1, <2>2, <2>3 DEF WellLately
<1>q. QED BY <1>3, <1>6, <1>7, <1>8 DEF AgentInv

LEMMA AgentInvStep == ASSUME AgentAssumption, AgentInv, [AgentNext]_agentVars PROVE AgentInv'
<1>1. CASE UNCHANGED agentVars
  <2>1. AgentTypeOK' BY <1>1 DEF agentVars, AgentInv, AgentTypeOK
  <2>2. Clocked' BY <1>1 DEF agentVars, AgentInv, Clocked
  <2>3. Counted' BY <1>1 DEF agentVars, AgentInv, Counted
  <2>4. WellLately' BY <1>1 DEF agentVars, AgentInv, WellLately
  <2>q. QED BY <2>1, <2>2, <2>3, <2>4 DEF AgentInv
<1>2. CASE AgentNext
  BY <1>2, CollectWell, RoundWell, QueryWell, ElapseWell, ProbeWell, ActWell, ReportWell DEF AgentNext
<1>q. QED BY <1>1, <1>2

LEMMA AgentInvInit == AgentInit /\ AgentAssumption => AgentInv
<1> SUFFICES ASSUME AgentInit, AgentAssumption PROVE AgentInv OBVIOUS
<1>1. stats \in [Watched -> StatsRecords]
  <2>1. 0 \in 0..MaxTime BY DEF AgentAssumption
  <2>2. NoStats \in StatsRecords BY <2>1 DEF NoStats, StatsRecords
  <2>q. QED BY <2>2 DEF AgentInit
<1>2. query \in QueryRecords
  <2>1. 0 \in 0..MaxTime BY DEF AgentAssumption
  <2>q. QED BY <2>1 DEF AgentInit, NoQuery, QueryRecords
<1>3. paths \in [Watched -> SUBSET Paths]
  <2>1. {{"wire", "lan"}, {"tailscale"}} \subseteq SUBSET Paths BY DEF Paths
  <2>q. QED BY <2>1 DEF AgentInit
<1>4. /\ ticker \in 1..(MaxTime + Interval) /\ now \in 0..MaxTime /\ lastRun \in 0..MaxTime /\ wellAt \in 0..MaxTime
      /\ rounds \in 0..MaxTime
  BY DEF AgentInit, AgentAssumption
<1>5. AgentTypeOK BY <1>1, <1>2, <1>3, <1>4 DEF AgentInit, AgentTypeOK, StatsRecords, QueryRecords
<1>6. Clocked BY DEF AgentInit, Clocked, AgentAssumption
<1>7. Counted BY DEF AgentInit, Counted, NoStats, NoQuery
<1>8. WellLately BY DEF AgentInit, WellLately, NoQuery, AgentAssumption
<1>q. QED BY <1>5, <1>6, <1>7, <1>8 DEF AgentInv

\* An agent that answers "ok" was found well at most three intervals ago,
\* however long its rounds take and however many ticks it misses (tick,
\* handleHealth).
THEOREM OkIsOfLate == AgentSpec => []OkIsRecent
<1>1. ASSUME AgentInv PROVE OkIsRecent
  <2>1. now \in 0..MaxTime /\ wellAt \in 0..MaxTime /\ Interval \in Nat
    BY <1>1, AgentAssumption, AgentNumbers DEF AgentInv
  <2>2. query.answer = "ok" /\ query.rounds = rounds => now <= wellAt + 3 * Interval
    BY <1>1 DEF AgentInv, WellLately
  <2>q. QED BY <2>1, <2>2 DEF OkIsRecent
<1>q. QED BY <1>1, AgentAssumption, AgentInvInit, AgentInvStep, PTL DEF AgentSpec

\* The types of the agent's state; and its counts are bounded by its rounds,
\* and they by the time (collectState, tick).
THEOREM AgentTypes == AgentSpec => []AgentTypeOK
<1>1. AgentInv => AgentTypeOK BY DEF AgentInv
<1>q. QED BY <1>1, AgentAssumption, AgentInvInit, AgentInvStep, PTL DEF AgentSpec

----------------------------------------------------------------------------
(* AuditChain.                                                             *)

\* The damaged lines: those that are no record, and the unterminated one.
Damaged ==
  {i \in 1..Len(lines) : ~ValidJSON(lines[i])} \cup (IF tail = <<>> THEN {} ELSE {Len(lines) + 1})

\* Records that stand behind one another are chained.
Chained ==
  \A i \in 2..Len(lines) :
    ValidJSON(lines[i]) /\ ValidJSON(lines[i - 1]) => lines[i][1].prev = Digest(lines[i - 1])

\* The value in memory is that of the last record, if the last line is one.
Current ==
  seeded /\ tail = <<>> /\ lines # <<>> /\ ValidJSON(lines[Len(lines)]) => prev = Digest(lines[Len(lines)])

AuditInv == TypeOK /\ Chained /\ Current /\ Cardinality(Damaged) <= torn

Line == Seq(Pieces) \ {<<>>}

LEMMA DigestType == ASSUME NEW line \in Seq(Pieces) PROVE Digest(line) \in Digests
<1>1. \A i \in 1..Len(line) : line[i] \in Pieces OBVIOUS
<1>2. \A i \in 1..Len(line) : <<line[i].id, line[i].whole>> \in (1..MaxRecords) \X BOOLEAN BY <1>1 DEF Pieces
<1>3. DOMAIN line = 1..Len(line) /\ Len(line) \in Nat OBVIOUS
<1>q. QED BY <1>2, <1>3 DEF Digest, Digests

\* The chain value of the next record: a digest, and that of the last line if
\* that is a record.
LEMMA ChainPrevTells ==
  ASSUME AuditInv
  PROVE  /\ ChainPrev \in Digests
         /\ tail = <<>> /\ lines # <<>> /\ ValidJSON(lines[Len(lines)]) => ChainPrev = Digest(lines[Len(lines)])
<1>t. TypeOK /\ Current BY DEF AuditInv
<1>1. lines \in Seq(Line) /\ tail \in Seq(Pieces) /\ prev \in Digests BY <1>t DEF TypeOK, Line
<1>2. CASE seeded BY <1>t, <1>1, <1>2 DEF ChainPrev, Current
<1>3. CASE ~seeded /\ tail = <<>>
  <2>1. Content(lines, tail) = lines BY <1>3 DEF Content
  <2>2. CASE lines = <<>>
    <3>1. ChainPrev = <<>> BY <1>3, <2>1, <2>2 DEF ChainPrev, LastAuditHash, NoHash
    <3>2. <<>> \in Digests BY DEF Digests
    <3>q. QED BY <2>2, <3>1, <3>2
  <2>3. CASE lines # <<>>
    <3>1. ChainPrev = Digest(lines[Len(lines)]) BY <1>3, <2>1, <2>3 DEF ChainPrev, LastAuditHash, Last
    <3>2. lines[Len(lines)] \in Line BY <1>1, <2>3
    <3>3. lines[Len(lines)] \in Seq(Pieces) BY <3>2 DEF Line
    <3>q. QED BY <3>1, <3>3, DigestType
  <2>q. QED BY <2>2, <2>3
<1>4. CASE ~seeded /\ tail # <<>>
  <2>1. Content(lines, tail) = Append(lines, tail) BY <1>4 DEF Content
  <2>2. /\ Append(lines, tail) # <<>>
        /\ Append(lines, tail)[Len(Append(lines, tail))] = tail
    BY <1>1
  <2>3. ChainPrev = Digest(tail) BY <1>4, <2>1, <2>2 DEF ChainPrev, LastAuditHash, Last
  <2>q. QED BY <1>1, <1>4, <2>3, DigestType
<1>q. QED BY <1>t, <1>2, <1>3, <1>4 DEF TypeOK

\* A set of numbers that are in a finite set when shifted is no larger.
LEMMA Shifted ==
  ASSUME NEW S \in SUBSET Int, IsFiniteSet(S), NEW k \in Int, NEW T \in SUBSET Int, \A j \in T : j - k \in S
  PROVE  /\ IsFiniteSet(T) /\ Cardinality(T) \in Nat
         /\ Cardinality(T) <= Cardinality(S)
<1>1. DEFINE U == {i + k : i \in S}
             f == [i \in S |-> i + k]
<1>2. f \in Surjection(S, U) BY DEF Surjection
<1>3. IsFiniteSet(U) /\ Cardinality(U) <= Cardinality(S) BY <1>2, FS_Surjection
<1>4. T \subseteq U
  <2>1. ASSUME NEW j \in T PROVE j \in U
    <3>1. j - k \in S /\ j = (j - k) + k OBVIOUS
    <3>q. QED BY <3>1
  <2>q. QED BY <2>1
<1>5. IsFiniteSet(T) /\ Cardinality(T) <= Cardinality(U) BY <1>3, <1>4, FS_Subset
<1>6. Cardinality(S) \in Nat /\ Cardinality(T) \in Nat /\ Cardinality(U) \in Nat
  BY <1>3, <1>5, FS_CardinalityType
<1> HIDE DEF U, f
<1>q. QED BY <1>3, <1>5, <1>6

LEMMA DamagedFinite ==
  ASSUME lines \in Seq(Line)
  PROVE  IsFiniteSet(Damaged) /\ Cardinality(Damaged) \in Nat /\ Damaged \subseteq 1..(Len(lines) + 1)
<1>1. Damaged \subseteq 1..(Len(lines) + 1) BY DEF Damaged
<1>2. IsFiniteSet(1..(Len(lines) + 1)) BY FS_Interval
<1>q. QED BY <1>1, <1>2, FS_Subset, FS_CardinalityType

LEMMA RecordType ==
  ASSUME AuditInv, count < MaxRecords, BoundAssumption, NEW whole \in BOOLEAN
  PROVE  /\ Record(whole) \in Pieces /\ Record(whole).whole = whole /\ Record(whole).prev = ChainPrev
         /\ count + 1 \in 0..MaxRecords
<1>1. count \in 0..MaxRecords BY DEF AuditInv, TypeOK
<1>2. count + 1 \in 1..MaxRecords BY <1>1 DEF BoundAssumption
<1>q. QED BY <1>2, ChainPrevTells DEF Record, Pieces

\* A line is appended, whole or glued to the tail: it is damaged if the tail
\* was, and chained if the last one was a record.
LEMMA LogKeeps == ASSUME BoundAssumption, AuditInv, AuditLog PROVE AuditInv'
<1>t. /\ lines \in Seq(Line) /\ tail \in Seq(Pieces) /\ torn \in 0..MaxTorn /\ count \in 0..MaxRecords
      /\ Chained /\ Cardinality(Damaged) <= torn
  BY DEF AuditInv, TypeOK, Line
<1>1. PICK r \in Pieces : /\ r = Record(TRUE) /\ r.whole = TRUE /\ r.prev = ChainPrev
  BY RecordType DEF AuditLog
<1>2. PICK new \in Line : new = Append(tail, r)
  <2>1. Append(tail, r) \in Seq(Pieces) /\ Append(tail, r) # <<>> BY <1>t
  <2>q. QED BY <2>1 DEF Line
<1>3. /\ lines' = Append(lines, new) /\ tail' = <<>> /\ seeded' = TRUE /\ prev' = Digest(<<r>>)
      /\ count' = count + 1 /\ torn' = torn
  BY <1>1, <1>2 DEF AuditLog
<1>4. /\ lines' \in Seq(Line) /\ Len(lines') = Len(lines) + 1 /\ Len(lines) \in Nat
      /\ lines'[Len(lines) + 1] = new /\ \A i \in 1..Len(lines) : lines'[i] = lines[i]
  BY <1>t, <1>3
<1>5. <<r>> \in Seq(Pieces) OBVIOUS
<1>6. prev' \in Digests BY <1>3, <1>5, DigestType
<1>7. count' \in 0..MaxRecords BY <1>3, RecordType DEF AuditLog
<1>8. TypeOK' BY <1>t, <1>3, <1>4, <1>6, <1>7 DEF TypeOK, Line
<1>9. /\ tail = <<>> => new = <<r>>
      /\ ValidJSON(new) <=> tail = <<>>
  <2>1. CASE tail = <<>>
    <3>1. new = <<r>> BY <1>2, <2>1
    <3>q. QED BY <1>1, <2>1, <3>1 DEF ValidJSON
  <2>2. CASE tail # <<>>
    <3>1. Len(tail) > 0 /\ Len(new) = Len(tail) + 1 BY <1>t, <1>2, <2>2
    <3>2. Len(new) # 1 BY <1>t, <3>1
    <3>q. QED BY <2>2, <3>2 DEF ValidJSON
  <2>q. QED BY <2>1, <2>2
<1>10. Chained'
  <2>1. ASSUME NEW i \in 2..(Len(lines) + 1), ValidJSON(lines'[i]), ValidJSON(lines'[i - 1])
        PROVE  lines'[i][1].prev = Digest(lines'[i - 1])
    <3>1. CASE i \in 2..Len(lines)
      <4>1. i - 1 \in 1..Len(lines) BY <1>4, <3>1
      <4>q. QED BY <1>t, <1>4, <2>1, <3>1, <4>1 DEF Chained
    <3>2. CASE i = Len(lines) + 1
      <4>1. i - 1 = Len(lines) /\ Len(lines) \in 1..Len(lines) /\ lines # <<>> BY <1>t, <1>4, <3>2
      <4>2. lines'[i] = new /\ lines'[i - 1] = lines[Len(lines)] BY <1>4, <3>2, <4>1
      <4>3. new = <<r>> /\ tail = <<>> BY <1>9, <2>1, <4>2
      <4>4. new[1].prev = ChainPrev BY <1>1, <4>3
      <4>5. ChainPrev = Digest(lines[Len(lines)]) BY <2>1, <4>1, <4>2, <4>3, ChainPrevTells
      <4>q. QED BY <4>2, <4>4, <4>5
    <3>q. QED BY <1>4, <3>1, <3>2
  <2>q. QED BY <1>4, <2>1 DEF Chained, ValidJSON, Digest
<1>11. Current'
  <2>1. ASSUME ValidJSON(new) PROVE prev' = Digest(new) BY <1>3, <1>9, <2>1
  <2>2. lines'[Len(lines')] = new BY <1>4
  <2>q. QED BY <2>1, <2>2 DEF Current, ValidJSON, Digest
<1>12. Damaged' = Damaged
  <2>1. Damaged' = {i \in 1..Len(lines') : ~ValidJSON(lines'[i])} BY <1>3 DEF Damaged, ValidJSON
  <2>2. \A i \in 1..Len(lines) : ValidJSON(lines'[i]) <=> ValidJSON(lines[i]) BY <1>4
  <2>3. CASE tail = <<>>
    <3>1. Damaged = {i \in 1..Len(lines) : ~ValidJSON(lines[i])} BY <2>3 DEF Damaged
    <3>q. QED BY <1>4, <1>9, <2>1, <2>2, <2>3, <3>1
  <2>4. CASE tail # <<>>
    <3>1. Damaged = {i \in 1..Len(lines) : ~ValidJSON(lines[i])} \cup {Len(lines) + 1} BY <2>4 DEF Damaged
    <3>q. QED BY <1>4, <1>9, <2>1, <2>2, <2>4, <3>1
  <2>q. QED BY <2>3, <2>4
<1>q. QED BY <1>t, <1>3, <1>8, <1>10, <1>11, <1>12 DEF AuditInv

LEMMA FailsKeeps == ASSUME BoundAssumption, AuditInv, AuditLogFails \/ Restart PROVE AuditInv'
<1>t. TypeOK /\ Chained /\ Current /\ Cardinality(Damaged) <= torn BY DEF AuditInv
<1>1. UNCHANGED <<lines, tail, torn>> BY DEF AuditLogFails, Restart
<1>2. Chained' BY <1>t, <1>1 DEF Chained, ValidJSON, Digest
<1>3. Damaged' = Damaged BY <1>1 DEF Damaged, ValidJSON
<1>4. /\ count' \in 0..MaxRecords
      /\ \/ seeded' = TRUE /\ prev' = ChainPrev
         \/ seeded' = FALSE /\ prev' = NoHash
  BY <1>t DEF AuditLogFails, Restart, TypeOK, BoundAssumption
<1>5. NoHash \in Digests BY DEF NoHash, Digests
<1>6. TypeOK' BY <1>t, <1>1, <1>4, <1>5, ChainPrevTells DEF TypeOK
<1>7. Current' BY <1>1, <1>4, ChainPrevTells DEF Current, ValidJSON, Digest
<1>q. QED BY <1>t, <1>1, <1>2, <1>3, <1>6, <1>7 DEF AuditInv

\* A torn write damages the line that it begins, or one that is damaged.
LEMMA TearsKeeps == ASSUME BoundAssumption, AuditInv, AuditLogTears PROVE AuditInv'
<1>t. /\ lines \in Seq(Line) /\ tail \in Seq(Pieces) /\ torn \in 0..MaxTorn
      /\ TypeOK /\ Chained /\ Cardinality(Damaged) <= torn
  BY DEF AuditInv, TypeOK, Line
<1>1. PICK r \in Pieces : tail' = Append(tail, r) BY RecordType DEF AuditLogTears
<1>2. /\ UNCHANGED lines /\ torn < MaxTorn /\ torn' = torn + 1 /\ seeded' = TRUE /\ prev' = ChainPrev
      /\ count' \in 0..MaxRecords
  BY RecordType DEF AuditLogTears
<1>3. tail' \in Seq(Pieces) /\ tail' # <<>> BY <1>t, <1>1
<1>4. torn' \in 0..MaxTorn BY <1>t, <1>2 DEF BoundAssumption
<1>5. TypeOK' BY <1>t, <1>2, <1>3, <1>4, ChainPrevTells DEF TypeOK
<1>6. Chained' BY <1>t, <1>2 DEF Chained, ValidJSON, Digest
<1>7. Current' BY <1>3 DEF Current
<1>8. Damaged' = Damaged \cup {Len(lines) + 1}
  BY <1>2, <1>3 DEF Damaged, ValidJSON
<1>9. Cardinality(Damaged') <= torn'
  <2>1. IsFiniteSet(Damaged) /\ Cardinality(Damaged) \in Nat BY <1>t, DamagedFinite
  <2>2. Cardinality(Damaged \cup {Len(lines) + 1}) \in {Cardinality(Damaged), Cardinality(Damaged) + 1}
    BY <2>1, FS_AddElement
  <2>q. QED BY <1>t, <1>2, <1>8, <2>1, <2>2
<1>q. QED BY <1>5, <1>6, <1>7, <1>9 DEF AuditInv

\* Rotation drops lines, and with them their damage; the first line that is
\* left has no predecessor any more.
LEMMA RotateKeeps == ASSUME BoundAssumption, AuditInv, Rotate PROVE AuditInv'
<1>t. /\ lines \in Seq(Line) /\ tail \in Seq(Pieces) /\ torn \in 0..MaxTorn /\ Len(lines) \in Nat
      /\ TypeOK /\ Chained /\ Current /\ Cardinality(Damaged) <= torn
  BY DEF AuditInv, TypeOK, Line
<1>u. UNCHANGED <<prev, seeded, count, torn>> BY DEF Rotate
<1>1. CASE lines' = <<>> /\ tail' = <<>>
  <2>1. Len(lines') = 0 BY <1>1
  <2>2. Damaged' = {} BY <1>1, <2>1 DEF Damaged
  <2>3. Cardinality(Damaged') = 0 BY <2>2, FS_EmptySet
  <2>4. TypeOK' BY <1>t, <1>u, <1>1 DEF TypeOK
  <2>5. Chained' /\ Current' BY <1>1, <2>1 DEF Chained, Current
  <2>q. QED BY <1>t, <1>u, <2>3, <2>4, <2>5 DEF AuditInv
<1>2. CASE (\E n \in 1..Len(lines) : lines' = SubSeq(lines, n + 1, Len(lines))) /\ tail' = tail
  <2>1. PICK n \in 1..Len(lines) : lines' = SubSeq(lines, n + 1, Len(lines)) BY <1>2
  <2>2. /\ lines' \in Seq(Line) /\ Len(lines') = Len(lines) - n
        /\ \A i \in 1..(Len(lines) - n) : lines'[i] = lines[i + n]
    BY <1>t, <2>1
  <2>3. TypeOK' BY <1>t, <1>u, <1>2, <2>2 DEF TypeOK, Line
  <2>4. Chained'
    <3>1. ASSUME NEW i \in 2..(Len(lines) - n), ValidJSON(lines'[i]), ValidJSON(lines'[i - 1])
          PROVE  lines'[i][1].prev = Digest(lines'[i - 1])
      <4>1. i + n \in 2..Len(lines) /\ i - 1 \in 1..(Len(lines) - n) /\ (i - 1) + n = (i + n) - 1 BY <1>t
      <4>i. i \in 1..(Len(lines) - n) BY <1>t
      <4>2. lines'[i] = lines[i + n] BY <2>2, <4>i
      <4>3. lines'[i - 1] = lines[(i + n) - 1] BY <2>2, <4>1
      <4>q. QED BY <1>t, <3>1, <4>1, <4>2, <4>3 DEF Chained
    <3>q. QED BY <2>2, <3>1 DEF Chained, ValidJSON, Digest
  <2>5. Current'
    <3>1. CASE n = Len(lines) BY <2>2, <3>1, <1>t DEF Current
    <3>2. CASE n < Len(lines)
      <4>1. lines # <<>> /\ Len(lines) - n \in 1..(Len(lines) - n) /\ (Len(lines) - n) + n = Len(lines) BY <1>t, <3>2
      <4>2. lines'[Len(lines')] = lines[Len(lines)] BY <2>2, <4>1
      <4>q. QED BY <1>t, <1>u, <1>2, <4>1, <4>2 DEF Current, ValidJSON, Digest
    <3>q. QED BY <1>t, <3>1, <3>2
  <2>6. ASSUME NEW j \in Damaged' PROVE j \in Int /\ j - (0 - n) \in Damaged
    <3>1. CASE j \in 1..(Len(lines) - n) /\ ~ValidJSON(lines'[j])
      <4>1. j + n \in 1..Len(lines) /\ ~ValidJSON(lines[j + n]) /\ j - (0 - n) = j + n BY <1>t, <2>2, <3>1
      <4>q. QED BY <3>1, <4>1 DEF Damaged
    <3>2. CASE tail # <<>> /\ j = (Len(lines) - n) + 1
      <4>1. j - (0 - n) = Len(lines) + 1 /\ j \in Int BY <1>t, <3>2
      <4>q. QED BY <3>2, <4>1 DEF Damaged
    <3>3. \/ j \in 1..(Len(lines) - n) /\ ~ValidJSON(lines'[j])
          \/ tail # <<>> /\ j = (Len(lines) - n) + 1
      BY <1>2, <2>2, <2>6 DEF Damaged, ValidJSON
    <3>q. QED BY <3>1, <3>2, <3>3
  <2>7. Cardinality(Damaged') <= torn'
    <3>1. IsFiniteSet(Damaged) /\ Cardinality(Damaged) \in Nat /\ Damaged \in SUBSET Int
      BY <1>t, DamagedFinite
    <3>2. PICK T : T = Damaged' OBVIOUS
    <3>k. PICK k \in Int : k = 0 - n OBVIOUS
    <3>3. T \in SUBSET Int /\ \A j \in T : j - k \in Damaged BY <2>6, <3>2, <3>k
    <3>4. Cardinality(T) \in Nat /\ Cardinality(T) <= Cardinality(Damaged) BY <3>1, <3>3, Shifted
    <3>q. QED BY <1>t, <1>u, <3>1, <3>2, <3>4
  <2>q. QED BY <2>3, <2>4, <2>5, <2>7 DEF AuditInv
<1>q. QED BY <1>1, <1>2 DEF Rotate

LEMMA AuditInvStep == ASSUME BoundAssumption, AuditInv, [Next]_vars PROVE AuditInv'
<1>1. CASE UNCHANGED vars
  <2>1. UNCHANGED <<lines, tail, prev, seeded, count, torn>> BY <1>1 DEF vars
  <2>2. TypeOK' BY <2>1 DEF AuditInv, TypeOK
  <2>3. Chained' /\ Current' BY <2>1 DEF AuditInv, Chained, Current, ValidJSON, Digest
  <2>4. Damaged' = Damaged BY <2>1 DEF Damaged, ValidJSON
  <2>q. QED BY <2>1, <2>2, <2>3, <2>4 DEF AuditInv
<1>2. CASE Next BY <1>2, LogKeeps, FailsKeeps, TearsKeeps, RotateKeeps DEF Next
<1>q. QED BY <1>1, <1>2

LEMMA AuditInvInit == ASSUME BoundAssumption, Init PROVE AuditInv
<1>1. Len(lines) = 0 /\ lines = <<>> /\ tail = <<>> BY DEF Init
<1>2. Damaged = {} BY <1>1 DEF Damaged
<1>3. Cardinality(Damaged) = 0 BY <1>2, FS_EmptySet
<1>4. NoHash \in Digests BY DEF NoHash, Digests
<1>5. TypeOK
  <2>1. lines \in Seq(Line) /\ tail \in Seq(Pieces) BY <1>1
  <2>2. count \in 0..MaxRecords /\ torn \in 0..MaxTorn BY DEF Init, BoundAssumption
  <2>q. QED BY <1>4, <2>1, <2>2 DEF Init, TypeOK, Line
<1>6. Chained /\ Current BY <1>1 DEF Chained, Current
<1>q. QED BY <1>3, <1>5, <1>6 DEF AuditInv, Init

\* What the verifier reports is a damaged line or the next one.
LEMMA ReportsAreDamage ==
  ASSUME AuditInv
  PROVE  Violations \subseteq Damaged \cup {i + 1 : i \in Damaged}
<1>t. lines \in Seq(Line) /\ tail \in Seq(Pieces) /\ Len(lines) \in Nat /\ Chained BY DEF AuditInv, TypeOK, Line
<1>0. DEFINE text == Content(lines, tail)
<1>1. /\ \A i \in 1..Len(lines) : text[i] = lines[i]
      /\ DOMAIN text = 1..Len(lines) \/ (tail # <<>> /\ DOMAIN text = 1..(Len(lines) + 1))
  <2>1. CASE tail = <<>> BY <1>t, <2>1 DEF Content
  <2>2. CASE tail # <<>>
    <3>1. text = Append(lines, tail) BY <2>2 DEF Content
    <3>q. QED BY <1>t, <2>2, <3>1
  <2>q. QED BY <2>1, <2>2
<1> HIDE DEF text
<1>2. ASSUME NEW i \in Violations PROVE i \in Damaged \/ \E j \in Damaged : i = j + 1
  <2>1. i \in DOMAIN text /\ (~ValidJSON(text[i]) \/ (i > 1 /\ text[i][1].prev # Digest(text[i - 1])))
    BY <1>2 DEF Violations, text
  <2>2. CASE i \notin 1..Len(lines)
    <3>1. tail # <<>> /\ i = Len(lines) + 1 BY <1>t, <1>1, <2>1, <2>2
    <3>q. QED BY <3>1 DEF Damaged
  <2>3. CASE i \in 1..Len(lines) /\ ~ValidJSON(lines[i]) BY <2>3 DEF Damaged
  <2>4. CASE i \in 1..Len(lines) /\ ValidJSON(lines[i])
    <3>1. text[i] = lines[i] BY <1>1, <2>4
    <3>2. i > 1 /\ text[i][1].prev # Digest(text[i - 1]) BY <2>1, <2>4, <3>1
    <3>3. i \in 2..Len(lines) /\ i - 1 \in 1..Len(lines) /\ i = (i - 1) + 1 BY <1>t, <2>4, <3>2
    <3>4. text[i - 1] = lines[i - 1] BY <1>1, <3>3
    <3>5. ~ValidJSON(lines[i - 1]) BY <1>t, <2>4, <3>1, <3>2, <3>3, <3>4 DEF Chained
    <3>6. i - 1 \in Damaged BY <3>3, <3>5 DEF Damaged
    <3>q. QED BY <3>3, <3>6
  <2>q. QED BY <2>2, <2>3, <2>4
<1>q. QED BY <1>2

\* The verifier reports at most two lines for every torn write, whatever was
\* appended, failed, restarted or rotated in between (auditLog,
\* lastAuditHash, cmdAuditVerify).
THEOREM TornWritesDamageTwoLines == Spec => []DamageIsLocal
<1>1. ASSUME AuditInv PROVE DamageIsLocal
  <2>t. lines \in Seq(Line) /\ torn \in 0..MaxTorn /\ Cardinality(Damaged) <= torn
    BY <1>1 DEF AuditInv, TypeOK, Line
  <2>1. IsFiniteSet(Damaged) /\ Cardinality(Damaged) \in Nat /\ Damaged \in SUBSET Int BY <2>t, DamagedFinite
  <2>2. DEFINE After == {i + 1 : i \in Damaged}
  <2>3. After \in SUBSET Int /\ \A j \in After : j - 1 \in Damaged
    <3>1. ASSUME NEW j \in After PROVE j \in Int /\ j - 1 \in Damaged
      <4>1. PICK i \in Damaged : j = i + 1 BY <3>1
      <4>2. i \in Int /\ (i + 1) - 1 = i BY <2>1, <4>1
      <4>q. QED BY <4>1, <4>2
    <3>q. QED BY <3>1
  <2>4. IsFiniteSet(After) /\ Cardinality(After) \in Nat /\ Cardinality(After) <= Cardinality(Damaged)
    BY <2>1, <2>3, Shifted
  <2>5. /\ IsFiniteSet(Damaged \cup After)
        /\ Cardinality(Damaged \cup After) =
             Cardinality(Damaged) + Cardinality(After) - Cardinality(Damaged \cap After)
    BY <2>1, <2>4, FS_Union
  <2>6. Cardinality(Damaged \cap After) \in Nat
    <3>1. IsFiniteSet(Damaged \cap After) BY <2>1, FS_Subset
    <3>q. QED BY <3>1, FS_CardinalityType
  <2>7. Violations \subseteq Damaged \cup After BY <1>1, ReportsAreDamage
  <2>8. IsFiniteSet(Violations) /\ Cardinality(Violations) <= Cardinality(Damaged \cup After)
    BY <2>5, <2>7, FS_Subset
  <2>9. Cardinality(Violations) \in Nat BY <2>8, FS_CardinalityType
  <2> HIDE DEF After
  <2>q. QED BY <2>t, <2>1, <2>4, <2>5, <2>6, <2>8, <2>9 DEF DamageIsLocal
<1>q. QED BY <1>1, BoundAssumption, AuditInvInit, AuditInvStep, PTL DEF Spec

----------------------------------------------------------------------------
(* KeyFile.                                                                *)

EditorRecords == [at : {"idle", "append", "loaded", "open", "done", "dead"},
                  key : Fields, copy : Lines, unended : BOOLEAN, other : SUBSET Keys]

\* What is claimed of the keys but those of the set out holds of the lines s.
Meets(s, out) ==
  \A k \in Keys \ out : /\ claim[k] = "in" => Contains(s, k)
                        /\ claim[k] = "out" => ~Contains(s, k)

\* The copy r an editor has read has had its edit, and what is claimed of the
\* other keys holds of it, unless they were edited since.
CopyMeets(r) ==
  r.at \in {"loaded", "open"} =>
    /\ r.key \in Keys
    /\ Contains(r.copy, r.key) <=> which = "node_keys"
    /\ Meets(r.copy, r.other \cup {r.key})

KeyInv ==
  /\ KeyTypeOK
  /\ \A e \in Editors : editor[e].at = "append" => editor[e].key \in Keys
  /\ unended => entries # <<>>
  /\ (\A e \in Editors : editor[e].at # "open") => Meets(entries, {})
  /\ \A e \in Editors : CopyMeets(editor[e])

\* What is in a sequence with one more element.
LEMMA ContainsOneMore ==
  ASSUME NEW S, NEW s \in Seq(S), NEW y \in S
  PROVE  Append(s, y) \in Seq(S) /\ \A x : Contains(Append(s, y), x) <=> x = y \/ Contains(s, x)
<1>1. PICK a : a = Append(s, y)
  OBVIOUS
<1>2. /\ a \in Seq(S) /\ Len(a) = Len(s) + 1 /\ Len(s) \in Nat /\ a[Len(s) + 1] = y
      /\ \A i \in 1..Len(s) : a[i] = s[i]
  BY <1>1
<1>3. ASSUME NEW x PROVE Contains(a, x) <=> x = y \/ Contains(s, x)
  BY <1>2 DEF Contains
<1>4. QED BY <1>1, <1>2, <1>3

\* What is in a sequence followed by another one.
LEMMA ContainsBoth ==
  ASSUME NEW S, NEW s \in Seq(S), NEW t \in Seq(S)
  PROVE  s \o t \in Seq(S) /\ \A x : Contains(s \o t, x) <=> Contains(s, x) \/ Contains(t, x)
<1>2. Len(s) \in Nat
  OBVIOUS
<1>4. PICK c : c = s \o t
  OBVIOUS
<1>5. /\ c \in Seq(S) /\ Len(c) = Len(s) + Len(t) /\ Len(t) \in Nat
      /\ \A i \in 1..Len(s) : c[i] = s[i]
      /\ \A i \in 1..Len(t) : c[Len(s) + i] = t[i]
  BY <1>4
<1>6. ASSUME NEW x PROVE Contains(c, x) <=> Contains(s, x) \/ Contains(t, x)
  <2>1. ASSUME Contains(c, x) PROVE Contains(s, x) \/ Contains(t, x)
    <3>1. PICK i \in 1..Len(c) : c[i] = x
      BY <2>1 DEF Contains
    <3>2. CASE i <= Len(s)
      <4>1. i \in 1..Len(s)
        BY <1>2, <3>2
      <4>2. QED BY <1>5, <3>1, <4>1 DEF Contains
    <3>3. CASE i > Len(s)
      <4>1. i - Len(s) \in 1..Len(t) /\ Len(s) + (i - Len(s)) = i
        BY <1>2, <1>5, <3>3
      <4>2. t[i - Len(s)] = x
        BY <1>5, <3>1, <4>1
      <4>3. QED BY <4>1, <4>2 DEF Contains
    <3>4. QED BY <1>2, <1>5, <3>2, <3>3
  <2>2. ASSUME Contains(s, x) PROVE Contains(c, x)
    <3>1. PICK i \in 1..Len(s) : s[i] = x
      BY <2>2 DEF Contains
    <3>2. i \in 1..Len(c) /\ c[i] = x
      BY <1>2, <1>5, <3>1
    <3>3. QED BY <3>2 DEF Contains
  <2>3. ASSUME Contains(t, x) PROVE Contains(c, x)
    <3>1. PICK i \in 1..Len(t) : t[i] = x
      BY <2>3 DEF Contains
    <3>2. Len(s) + i \in 1..Len(c) /\ c[Len(s) + i] = x
      BY <1>2, <1>5, <3>1
    <3>3. QED BY <3>2 DEF Contains
  <2>4. QED BY <2>1, <2>2, <2>3
<1>7. QED BY <1>4, <1>5, <1>6

\* A copy that has been edited: the key is gone from it, or there, and of the
\* others there are those there were.
LEMMA RevokedIs ==
  ASSUME entries \in Lines, NEW k \in Keys
  PROVE  /\ Revoked(k) \in Lines /\ ~Contains(Revoked(k), k)
         /\ \A j \in Keys \ {k} : Contains(Revoked(k), j) <=> Contains(entries, j)
<1>1. PICK s, others, r : s = entries /\ others = Fields \ {k} /\ r = Selected(s, others)
  OBVIOUS
<1>2. s \in Seq(Fields)
  BY <1>1 DEF Lines
<1>3. /\ r \in Seq(Fields)
      /\ \A x : (\E i \in DOMAIN r : r[i] = x) <=> x \in others /\ \E i \in DOMAIN s : s[i] = x
  <2>1. Selected(s, others) \in Seq(Fields)
    BY <1>2, SelectedMembers
  <2>2. \A x : (\E i \in DOMAIN Selected(s, others) : Selected(s, others)[i] = x)
                 <=> x \in others /\ \E i \in DOMAIN s : s[i] = x
    BY <1>2, SelectedMembers
  <2>3. QED BY <1>1, <2>1, <2>2
<1>4. r = Revoked(k)
  BY <1>1 DEF Revoked
<1>5. DOMAIN r = 1..Len(r) /\ DOMAIN s = 1..Len(s)
  BY <1>2, <1>3
<1>6. \A x : Contains(r, x) <=> x \in others /\ Contains(s, x)
  BY <1>3, <1>5 DEF Contains
<1>7. k \notin others /\ \A j \in Keys \ {k} : j \in others
  BY <1>1 DEF Fields
<1>8. QED BY <1>1, <1>3, <1>4, <1>6, <1>7 DEF Lines

LEMMA UpsertedIs ==
  ASSUME entries \in Lines, NEW k \in Keys
  PROVE  /\ Upserted(k) \in Lines /\ Contains(Upserted(k), k)
         /\ \A j \in Keys \ {k} : Contains(Upserted(k), j) <=> Contains(entries, j)
<1>1. PICK i : i = SelectInSeq(entries, LAMBDA l : l = k)
  OBVIOUS
<1>2. IF Contains(entries, k) THEN i \in 1..Len(entries) /\ entries[i] = k ELSE i = 0
  <2>1. PICK I : I = {n \in 1..Len(entries) : entries[n] = k}
    OBVIOUS
  <2>2. i = IF I # {} THEN Min(I) ELSE 0
    BY <1>1, <2>1 DEF SelectInSeq
  <2>3. ASSUME I # {} PROVE Min(I) \in I
    <3>1. I \subseteq Nat
      BY <2>1
    <3>2. QED BY <2>3, <3>1, NatMin DEF Min
  <2>4. QED BY <2>1, <2>2, <2>3 DEF Contains
<1>3. k \in Fields /\ <<>> \in Lines /\ Len(entries) \in Nat
  BY DEF Fields, Lines
<1>4. CASE i = 0
  <2>1. Upserted(k) = Append(entries, k)
    BY <1>1, <1>4 DEF Upserted
  <2>2. QED BY <1>3, <2>1, ContainsOneMore DEF Lines
<1>5. CASE i # 0
  <2>1. PICK head : head = SubSeq(entries, 1, i)
    OBVIOUS
  <2>2. PICK rest : rest = SubSeq(entries, i + 1, Len(entries))
    OBVIOUS
  <2>3. PICK others, rear : others = Fields \ {k} /\ rear = Selected(rest, others)
    OBVIOUS
  <2>4. i \in 1..Len(entries) /\ entries[i] = k
    BY <1>2, <1>5
  <2>5. /\ head \in Lines /\ Len(head) = i /\ \A n \in 1..i : head[n] = entries[n]
        /\ rest \in Lines /\ Len(rest) = Len(entries) - i
        /\ \A n \in 1..Len(entries) - i : rest[n] = entries[i + n]
    BY <2>1, <2>2, <2>4, <1>3 DEF Lines
  <2>m. rest \in Seq(Fields)
    BY <2>5 DEF Lines
  <2>6. /\ rear \in Seq(Fields)
        /\ \A x : (\E n \in DOMAIN rear : rear[n] = x)
                    <=> x \in others /\ \E n \in DOMAIN rest : rest[n] = x
    <3>1. Selected(rest, others) \in Seq(Fields)
      BY <2>m, SelectedMembers
    <3>2. \A x : (\E n \in DOMAIN Selected(rest, others) : Selected(rest, others)[n] = x)
                   <=> x \in others /\ \E n \in DOMAIN rest : rest[n] = x
      BY <2>m, SelectedMembers
    <3>3. QED BY <2>3, <3>1, <3>2
  <2>7. DOMAIN rear = 1..Len(rear) /\ DOMAIN rest = 1..Len(rest)
    BY <2>m, <2>6
  <2>8. Upserted(k) = head \o rear
    BY <1>1, <1>5, <2>1, <2>2, <2>3 DEF Upserted
  <2>9. /\ Upserted(k) \in Lines
        /\ \A x : Contains(Upserted(k), x) <=> Contains(head, x) \/ Contains(rear, x)
    BY <1>3, <2>5, <2>6, <2>8, ContainsBoth DEF Lines
  <2>10. Contains(head, k)
    BY <2>4, <2>5 DEF Contains
  <2>11. ASSUME NEW j \in Keys \ {k}
         PROVE  Contains(head, j) \/ Contains(rear, j) <=> Contains(entries, j)
    <3>1. Contains(rear, j) <=> Contains(rest, j)
      BY <2>3, <2>6, <2>7 DEF Contains, Fields
    <3>2. ASSUME Contains(rest, j) PROVE Contains(entries, j)
      <4>1. PICK n \in 1..Len(rest) : rest[n] = j
        BY <3>2 DEF Contains
      <4>2. i + n \in 1..Len(entries) /\ entries[i + n] = j
        BY <1>3, <2>4, <2>5, <4>1
      <4>3. QED BY <4>2 DEF Contains
    <3>3. ASSUME Contains(head, j) PROVE Contains(entries, j)
      BY <1>3, <2>4, <2>5, <3>3 DEF Contains
    <3>4. ASSUME Contains(entries, j) PROVE Contains(head, j) \/ Contains(rest, j)
      <4>1. PICK n \in 1..Len(entries) : entries[n] = j
        BY <3>4 DEF Contains
      <4>2. CASE n <= i
        <5>1. n \in 1..i
          BY <4>2
        <5>2. QED BY <2>5, <4>1, <5>1 DEF Contains
      <4>3. CASE n > i
        <5>1. n - i \in 1..Len(rest) /\ i + (n - i) = n
          BY <1>3, <2>4, <2>5, <4>3
        <5>2. rest[n - i] = j
          BY <2>5, <4>1, <5>1
        <5>3. QED BY <5>1, <5>2 DEF Contains
      <4>4. QED BY <2>4, <4>2, <4>3
    <3>5. QED BY <3>1, <3>2, <3>3, <3>4
  <2>12. QED BY <2>9, <2>10, <2>11
<1>6. QED BY <1>4, <1>5

\* What is done to the other editors: they learn of the keys.
LEMMA OthersIs ==
  ASSUME KeyTypeOK, NEW e \in Editors, NEW keys \in SUBSET Keys
  PROVE  /\ Others(e, keys) \in [Editors -> EditorRecords]
         /\ Others(e, keys)[e] = editor[e]
         /\ \A f \in Editors :
              LET q == Others(e, keys)[f] IN
              /\ q.at = editor[f].at /\ q.key = editor[f].key /\ q.copy = editor[f].copy
              /\ editor[f].other \subseteq q.other
              /\ f # e /\ q.at \in {"loaded", "open"} => keys \subseteq q.other
<1>1. editor \in [Editors -> EditorRecords]
  BY DEF KeyTypeOK, EditorRecords
<1>2. ASSUME NEW f \in Editors
      PROVE  LET q == Others(e, keys)[f] IN
             /\ q \in EditorRecords
             /\ q.at = editor[f].at /\ q.key = editor[f].key /\ q.copy = editor[f].copy
             /\ editor[f].other \subseteq q.other
             /\ f # e /\ q.at \in {"loaded", "open"} => keys \subseteq q.other
  <2>1. PICK r \in EditorRecords : r = editor[f]
    BY <1>1
  <2>2. PICK s : s = [r EXCEPT !.other = @ \cup keys]
    OBVIOUS
  <2>3. /\ s \in EditorRecords /\ s.at = r.at /\ s.key = r.key /\ s.copy = r.copy
        /\ s.other = r.other \cup keys
    BY <2>1, <2>2 DEF EditorRecords
  <2>4. Others(e, keys)[f] = IF f # e /\ r.at \in {"loaded", "open"} THEN s ELSE r
    BY <2>1, <2>2 DEF Others
  <2>5. QED BY <2>1, <2>3, <2>4
<1>3. Others(e, keys)[e] = editor[e]
  BY DEF Others
<1>4. Others(e, keys) = [f \in Editors |-> Others(e, keys)[f]]
  BY DEF Others
<1>5. QED BY <1>2, <1>3, <1>4

\* A copy stays right while what changes of the claims is of its key, or of
\* keys its editor has learned of.
LEMMA CopyStays ==
  ASSUME NEW r, NEW q, CopyMeets(r), which' = which,
         q.at = r.at, q.key = r.key, q.copy = r.copy, r.other \subseteq q.other,
         q.at \in {"loaded", "open"} =>
           \A k \in Keys \ (q.other \cup {q.key}) : claim'[k] = claim[k] \/ claim'[k] = "any"
  PROVE  CopyMeets(q)'
<1>1. SUFFICES ASSUME q.at \in {"loaded", "open"}
               PROVE  /\ q.key \in Keys
                      /\ Contains(q.copy, q.key) <=> which' = "node_keys"
                      /\ \A k \in Keys \ (q.other \cup {q.key}) :
                           /\ claim'[k] = "in" => Contains(q.copy, k)
                           /\ claim'[k] = "out" => ~Contains(q.copy, k)
  BY DEF CopyMeets, Meets
<1>2. QED BY <1>1 DEF CopyMeets, Meets

LEMMA KeyInitially == KeyInit => KeyInv
<1> SUFFICES ASSUME KeyInit PROVE KeyInv
  OBVIOUS
<1>1. entries \in Lines
  <2>1. PICK n \in 0..MaxWritten : entries \in [1..n -> Keys]
    BY DEF KeyInit
  <2>2. n \in Nat
    BY KeyAssumption
  <2>3. entries \in Seq(Keys)
    BY <2>1, <2>2
  <2>4. QED BY <2>3 DEF Lines, Fields
<1>2. NewEditor \in EditorRecords /\ NewEditor.at = "idle"
  <2>1. <<>> \in Lines /\ Junk \in Fields
    BY DEF Lines, Fields
  <2>2. QED BY <2>1 DEF NewEditor, EditorRecords
<1>3. \A e \in Editors : editor[e] = NewEditor
  BY DEF KeyInit
<1>4. editor \in [Editors -> EditorRecords]
  BY <1>2 DEF KeyInit
<1>5. claim \in [Keys -> {"in", "out", "any"}] /\ \A k \in Keys : claim[k] = IF Contains(entries, k) THEN "in" ELSE "out"
  BY DEF KeyInit
<1>6. unended \in BOOLEAN /\ (unended => entries # <<>>)
  BY DEF KeyInit
<1>7. KeyTypeOK
  BY <1>1, <1>4, <1>5, <1>6, KeyAssumption DEF KeyInit, KeyTypeOK, EditorRecords
<1>8. Meets(entries, {})
  BY <1>5 DEF Meets
<1>9. QED BY <1>2, <1>3, <1>6, <1>7, <1>8 DEF KeyInv, CopyMeets

----------------------------------------------------------------------------
(* The steps of an editor.                                                 *)

LEMMA AuthorizeStep ==
  ASSUME KeyInv, NEW e \in Editors, NEW k \in Keys, Authorize(e, k)
  PROVE  KeyInv'
<1>t. KeyTypeOK /\ editor \in [Editors -> EditorRecords] /\ {k} \in SUBSET Keys /\ k \in Fields
  BY DEF KeyInv, KeyTypeOK, EditorRecords, Fields
<1>1. CASE /\ Contains(entries, k)
           /\ editor' = [Others(e, {k}) EXCEPT ![e].at = "done"]
           /\ claim' = Claimed(k, "in", {})
  <2>1. PICK o : o = Others(e, {k})
    OBVIOUS
  <2>2. /\ o \in [Editors -> EditorRecords]
        /\ \A f \in Editors :
             /\ o[f].at = editor[f].at /\ o[f].key = editor[f].key /\ o[f].copy = editor[f].copy
             /\ editor[f].other \subseteq o[f].other
             /\ f # e /\ o[f].at \in {"loaded", "open"} => k \in o[f].other
    BY <1>t, <2>1, OthersIs
  <2>3. editor' = [o EXCEPT ![e].at = "done"] /\ claim' = Claimed(k, "in", {})
    BY <1>1, <2>1
  <2>4. /\ editor'[e] \in EditorRecords /\ editor'[e].at = "done"
        /\ \A f \in Editors \ {e} : editor'[f] = o[f]
        /\ editor' \in [Editors -> EditorRecords]
    <3>1. PICK r \in EditorRecords : r = o[e]
      BY <2>2
    <3>2. PICK q : q = [r EXCEPT !.at = "done"]
      OBVIOUS
    <3>3. q \in EditorRecords /\ q.at = "done"
      BY <3>1, <3>2 DEF EditorRecords
    <3>4. editor' = [o EXCEPT ![e] = q]
      BY <2>2, <2>3, <3>1, <3>2
    <3>5. QED BY <2>2, <3>3, <3>4
  <2>5. /\ \A j \in Keys : claim'[j] = IF j = k THEN "in" ELSE claim[j]
        /\ claim' \in [Keys -> {"in", "out", "any"}]
    BY <1>t, <2>3 DEF Claimed, KeyTypeOK
  <2>6. which' = which /\ entries' = entries /\ unended' = unended /\ crashed' = crashed
    BY DEF Authorize
  <2>7. KeyTypeOK'
    BY <1>t, <2>4, <2>5, <2>6 DEF KeyTypeOK, EditorRecords
  <2>8. ASSUME NEW f \in Editors PROVE CopyMeets(editor[f])'
    <3>1. CASE f = e
      BY <2>4, <3>1 DEF CopyMeets
    <3>2. CASE f # e
      <4>1. PICK r, q : r = editor[f] /\ q = editor'[f]
        OBVIOUS
      <4>2. CopyMeets(r)
        BY <4>1 DEF KeyInv
      <4>3. CopyMeets(q)'
        BY <2>2, <2>4, <2>5, <2>6, <3>2, <4>1, <4>2, CopyStays
      <4>4. QED BY <4>1, <4>3 DEF CopyMeets, Meets
    <3>3. QED BY <3>1, <3>2
  <2>9. ASSUME \A f \in Editors : editor'[f].at # "open" PROVE Meets(entries, {})'
    <3>1. \A f \in Editors : editor[f].at # "open"
      BY <2>2, <2>4, <2>9 DEF Authorize
    <3>2. Meets(entries, {})
      BY <3>1 DEF KeyInv
    <3>3. QED BY <1>1, <2>5, <2>6, <3>2 DEF Meets
  <2>10. QED BY <2>2, <2>4, <2>6, <2>7, <2>8, <2>9 DEF KeyInv
<1>2. CASE /\ editor' = [editor EXCEPT ![e].at = "append", ![e].key = k]
           /\ UNCHANGED claim
  <2>1. PICK r \in EditorRecords : r = editor[e]
    BY <1>t
  <2>2. PICK q : q = [r EXCEPT !.at = "append", !.key = k]
    OBVIOUS
  <2>3. q \in EditorRecords /\ q.at = "append" /\ q.key = k
    BY <1>t, <2>1, <2>2 DEF EditorRecords
  <2>4. editor' = [editor EXCEPT ![e] = q]
    BY <1>2, <1>t, <2>1, <2>2 DEF Authorize
  <2>5. /\ editor' \in [Editors -> EditorRecords]
        /\ editor'[e] = q /\ \A f \in Editors \ {e} : editor'[f] = editor[f]
    BY <1>t, <2>3, <2>4
  <2>6. /\ which' = which /\ entries' = entries /\ unended' = unended /\ crashed' = crashed
        /\ claim' = claim
    BY <1>2 DEF Authorize
  <2>7. KeyTypeOK'
    BY <1>t, <2>5, <2>6 DEF KeyTypeOK, EditorRecords
  <2>8. ASSUME NEW f \in Editors PROVE CopyMeets(editor[f])'
    BY <2>3, <2>5, <2>6 DEF CopyMeets, Meets, KeyInv
  <2>9. editor[e].at = "idle"
    BY DEF Authorize
  <2>10. QED BY <2>3, <2>5, <2>6, <2>7, <2>8, <2>9 DEF KeyInv, Meets
<1>3. QED BY <1>1, <1>2 DEF Authorize

LEMMA AppendLineStep ==
  ASSUME KeyInv, NEW e \in Editors, AppendLine(e)
  PROVE  KeyInv'
<1>t. /\ KeyTypeOK /\ editor \in [Editors -> EditorRecords] /\ entries \in Seq(Fields)
      /\ entries \in Lines /\ Len(entries) \in Nat /\ Junk \notin Keys
  BY KeyAssumption DEF KeyInv, KeyTypeOK, EditorRecords, Lines
<1>1. PICK k \in Keys : k = editor[e].key
  BY DEF KeyInv, AppendLine
<1>2. PICK last : last = IF unended /\ Last(entries) # Junk THEN {Last(entries)} ELSE {}
  OBVIOUS
<1>3. last \in SUBSET Keys /\ {k} \cup last \in SUBSET Keys
  <2>1. ASSUME unended PROVE Last(entries) \in Fields
    <3>1. entries # <<>>
      BY <2>1 DEF KeyInv
    <3>2. QED BY <1>t, <3>1 DEF Last
  <2>2. QED BY <1>2, <2>1 DEF Fields
<1>4. PICK o : o = Others(e, {k} \cup last)
  OBVIOUS
<1>5. /\ o \in [Editors -> EditorRecords]
      /\ \A f \in Editors :
           /\ o[f].at = editor[f].at /\ o[f].key = editor[f].key /\ o[f].copy = editor[f].copy
           /\ editor[f].other \subseteq o[f].other
           /\ f # e /\ o[f].at \in {"loaded", "open"} => {k} \cup last \subseteq o[f].other
  BY <1>t, <1>3, <1>4, OthersIs
<1>6. editor' = [o EXCEPT ![e].at = "done"]
  BY <1>1, <1>2, <1>4 DEF AppendLine
<1>7. /\ editor'[e] \in EditorRecords /\ editor'[e].at = "done"
      /\ \A f \in Editors \ {e} : editor'[f] = o[f]
      /\ editor' \in [Editors -> EditorRecords]
  <2>1. PICK r \in EditorRecords : r = o[e]
    BY <1>5
  <2>2. PICK q : q = [r EXCEPT !.at = "done"]
    OBVIOUS
  <2>3. q \in EditorRecords /\ q.at = "done"
    BY <2>1, <2>2 DEF EditorRecords
  <2>4. editor' = [o EXCEPT ![e] = q]
    BY <1>5, <1>6, <2>1, <2>2
  <2>5. QED BY <1>5, <2>3, <2>4
<1>8. /\ which' = which /\ unended' = FALSE /\ crashed' = crashed
      /\ \/ ~unended /\ entries' = Append(entries, k) /\ claim' = Claimed(k, "in", {})
         \/ /\ unended /\ entries' \in {entries, Front(entries) \o <<Junk>>}
            /\ claim' = Claimed(k, "any", last)
  BY <1>1, <1>2 DEF AppendLine
<1>9. /\ \A j \in Keys \ ({k} \cup last) : claim'[j] = claim[j]
      /\ claim' \in [Keys -> {"in", "out", "any"}]
  BY <1>t, <1>8 DEF Claimed, KeyTypeOK
\* Front and the spoilt last line.
<1>10. ASSUME unended
       PROVE  /\ Front(entries) \o <<Junk>> \in Lines
              /\ \A j \in Keys \ last : Contains(Front(entries) \o <<Junk>>, j) <=> Contains(entries, j)
  <2>1. entries # <<>> /\ Len(entries) >= 1
    BY <1>t, <1>10 DEF KeyInv
  <2>2. PICK n \in Nat : n = Len(entries) - 1 /\ n + 1 = Len(entries)
    BY <1>t, <2>1
  <2>3. PICK front : front = Front(entries)
    OBVIOUS
  <2>4. front \in Seq(Fields) /\ Len(front) = n /\ \A i \in 1..n : front[i] = entries[i]
    BY <1>t, <2>2, <2>3 DEF Front
  <2>5. <<Junk>> \in Seq(Fields) /\ \A x : Contains(<<Junk>>, x) <=> x = Junk
    BY DEF Fields, Contains
  <2>6. PICK s : s = front \o <<Junk>>
    OBVIOUS
  <2>7. s \in Seq(Fields) /\ \A x : Contains(s, x) <=> Contains(front, x) \/ x = Junk
    BY <2>4, <2>5, <2>6, ContainsBoth
  <2>8. ASSUME NEW j \in Keys \ last PROVE Contains(front, j) <=> Contains(entries, j)
    <3>1. entries[n + 1] = Last(entries)
      BY <2>2 DEF Last
    <3>2. entries[n + 1] # j
      BY <1>2, <1>10, <1>t, <3>1
    <3>3. \A i \in 1..Len(entries) : i = n + 1 \/ i \in 1..n
      BY <2>2
    <3>4. \A i \in 1..n : i \in 1..Len(entries)
      BY <2>2
    <3>5. QED BY <2>4, <3>2, <3>3, <3>4 DEF Contains
  <2>9. QED BY <1>t, <2>3, <2>6, <2>7, <2>8 DEF Lines
<1>11. /\ Append(entries, k) \in Lines
       /\ \A x : Contains(Append(entries, k), x) <=> x = k \/ Contains(entries, x)
  <2>1. k \in Fields
    BY DEF Fields
  <2>2. QED BY <1>t, <2>1, ContainsOneMore DEF Lines
<1>12. KeyTypeOK'
  <2>1. entries' \in Lines
    BY <1>t, <1>8, <1>10, <1>11
  <2>2. QED BY <1>t, <1>7, <1>8, <1>9, <2>1 DEF KeyTypeOK, EditorRecords
<1>13. ASSUME NEW f \in Editors PROVE CopyMeets(editor[f])'
  <2>1. CASE f = e
    BY <1>7, <2>1 DEF CopyMeets
  <2>2. CASE f # e
    <3>1. PICK r, q : r = editor[f] /\ q = editor'[f]
      OBVIOUS
    <3>2. CopyMeets(r)
      BY <3>1 DEF KeyInv
    <3>3. CopyMeets(q)'
      BY <1>5, <1>7, <1>8, <1>9, <2>2, <3>1, <3>2, CopyStays
    <3>4. QED BY <3>1, <3>3 DEF CopyMeets, Meets
  <2>3. QED BY <2>1, <2>2
<1>14. ASSUME \A f \in Editors : editor'[f].at # "open" PROVE Meets(entries, {})'
  <2>1. \A f \in Editors : editor[f].at # "open"
    BY <1>5, <1>7, <1>14 DEF AppendLine
  <2>2. Meets(entries, {})
    BY <2>1 DEF KeyInv
  <2>3. CASE ~unended
    <3>1. \A j \in Keys : claim'[j] = IF j = k THEN "in" ELSE claim[j]
      BY <1>8, <2>3 DEF Claimed
    <3>2. entries' = Append(entries, k)
      BY <1>8, <2>3
    <3>3. QED BY <1>11, <2>2, <3>1, <3>2 DEF Meets
  <2>4. CASE unended
    <3>1. \A j \in {k} \cup last : claim'[j] = "any"
      BY <1>3, <1>8, <2>4 DEF Claimed
    <3>2. \A j \in Keys \ last : Contains(entries', j) <=> Contains(entries, j)
      BY <1>8, <1>10, <2>4
    <3>3. QED BY <1>9, <2>2, <3>1, <3>2 DEF Meets
  <2>5. QED BY <2>3, <2>4
<1>15. \A f \in Editors : editor'[f].at = "append" => editor'[f].key \in Keys
  BY <1>5, <1>7 DEF KeyInv
<1>16. QED BY <1>8, <1>12, <1>13, <1>14, <1>15 DEF KeyInv

\* What an editor has read and changed.
LEMMA EditsStep ==
  ASSUME KeyInv, NEW e \in Editors, NEW k \in Keys, NEW copy \in Lines, NEW open \in BOOLEAN,
         NEW other \in SUBSET Keys, Edits(e, k, copy, open, other),
         Contains(copy, k) <=> which = "node_keys",
         \A j \in Keys \ (other \cup {k}) : Contains(copy, j) <=> Contains(entries, j),
         editor[e].at # "open", UNCHANGED <<which, entries, unended, claim, crashed>>
  PROVE  KeyInv'
<1>t. KeyTypeOK /\ editor \in [Editors -> EditorRecords] /\ k \in Fields
  BY DEF KeyInv, KeyTypeOK, EditorRecords, Fields
<1>1. PICK q : q = [at |-> "loaded", key |-> k, copy |-> copy, unended |-> open, other |-> Hidden \cup other]
  OBVIOUS
<1>2. q \in EditorRecords /\ q.at = "loaded" /\ q.key = k /\ q.copy = copy /\ q.other = Hidden \cup other
  BY <1>t, <1>1 DEF EditorRecords, Hidden
<1>3. /\ editor' \in [Editors -> EditorRecords]
      /\ editor'[e] = q /\ \A f \in Editors \ {e} : editor'[f] = editor[f]
  BY <1>t, <1>1, <1>2 DEF Edits
<1>4. KeyTypeOK'
  BY <1>t, <1>3 DEF KeyTypeOK, EditorRecords
<1>5. ASSUME NEW f \in Editors PROVE CopyMeets(editor[f])'
  <2>1. CASE f = e
    <3>1. CASE \E g \in Editors : editor[g].at = "open"
      <4>1. Hidden = Keys
        BY <3>1 DEF Hidden
      <4>2. QED BY <1>2, <1>3, <2>1, <4>1 DEF CopyMeets, Meets
    <3>2. CASE \A g \in Editors : editor[g].at # "open"
      <4>1. Meets(entries, {})
        BY <3>2 DEF KeyInv
      <4>2. QED BY <1>2, <1>3, <2>1, <4>1 DEF CopyMeets, Meets
    <3>3. QED BY <3>1, <3>2
  <2>2. CASE f # e
    BY <1>3, <2>2 DEF CopyMeets, Meets, KeyInv
  <2>3. QED BY <2>1, <2>2
<1>6. QED BY <1>2, <1>3, <1>4, <1>5 DEF KeyInv, Meets

\* An editor that leaves, or finds nothing to change.
LEMMA EditorAt ==
  ASSUME KeyInv, NEW e \in Editors, NEW a \in {"done", "dead", "open"},
         editor' = [editor EXCEPT ![e].at = a]
  PROVE  \E q \in EditorRecords :
           /\ q.at = a /\ q.key = editor[e].key /\ q.copy = editor[e].copy /\ q.other = editor[e].other
           /\ editor'[e] = q /\ \A f \in Editors \ {e} : editor'[f] = editor[f]
           /\ editor' \in [Editors -> EditorRecords]
<1>t. editor \in [Editors -> EditorRecords]
  BY DEF KeyInv, KeyTypeOK, EditorRecords
<1>1. PICK r \in EditorRecords : r = editor[e]
  BY <1>t
<1>2. PICK q : q = [r EXCEPT !.at = a]
  OBVIOUS
<1>3. q \in EditorRecords /\ q.at = a /\ q.key = r.key /\ q.copy = r.copy /\ q.other = r.other
  BY <1>1, <1>2 DEF EditorRecords
<1>4. editor' = [editor EXCEPT ![e] = q]
  BY <1>t, <1>1, <1>2
<1>5. QED BY <1>t, <1>1, <1>3, <1>4

LEMMA RevokeStep ==
  ASSUME KeyInv, NEW e \in Editors, NEW k \in Keys, Revoke(e, k)
  PROVE  KeyInv'
<1>t. KeyTypeOK /\ entries \in Lines /\ unended \in BOOLEAN
  BY DEF KeyInv, KeyTypeOK
<1>1. CASE Contains(entries, k)
  <2>1. PICK copy, open : copy = Revoked(k) /\ open = (unended /\ Last(entries) # k)
    OBVIOUS
  <2>2. /\ copy \in Lines /\ ~Contains(copy, k)
        /\ \A j \in Keys \ {k} : Contains(copy, j) <=> Contains(entries, j)
    BY <1>t, <2>1, RevokedIs
  <2>3. open \in BOOLEAN
    BY <1>t, <2>1
  <2>o. PICK other \in SUBSET Keys : other = {}
    OBVIOUS
  <2>4. /\ Edits(e, k, copy, open, other)
        /\ \A j \in Keys \ (other \cup {k}) : Contains(copy, j) <=> Contains(entries, j)
    BY <1>1, <2>1, <2>2, <2>o DEF Revoke
  <2>5. which = "authorized_keys" /\ editor[e].at # "open" /\ UNCHANGED <<which, entries, unended, claim, crashed>>
    BY DEF Revoke
  <2>6. QED BY <2>2, <2>3, <2>4, <2>5, EditsStep
<1>2. CASE ~Contains(entries, k)
  <2>2. PICK q \in EditorRecords :
           /\ q.at = "done" /\ editor'[e] = q /\ \A f \in Editors \ {e} : editor'[f] = editor[f]
           /\ editor' \in [Editors -> EditorRecords]
    BY <1>2, EditorAt DEF Revoke
  <2>3. UNCHANGED <<which, entries, unended, claim, crashed>> /\ editor[e].at # "open"
    BY DEF Revoke
  <2>4. KeyTypeOK'
    BY <1>t, <2>2, <2>3 DEF KeyTypeOK, EditorRecords
  <2>5. \A f \in Editors : CopyMeets(editor[f])'
    BY <2>2, <2>3 DEF KeyInv, CopyMeets, Meets
  <2>6. QED BY <2>2, <2>3, <2>4, <2>5 DEF KeyInv, Meets
<1>3. QED BY <1>1, <1>2

LEMMA UpsertStep ==
  ASSUME KeyInv, NEW e \in Editors, NEW k \in Keys, Upsert(e, k)
  PROVE  KeyInv'
<1>1. which = "node_keys" /\ editor[e].at # "open" /\ UNCHANGED <<which, entries, unended, claim, crashed>>
  BY DEF Upsert
<1>2. CASE Edits(e, k, Upserted(k), TRUE, {})
  <2>1. PICK copy : copy = Upserted(k)
    OBVIOUS
  <2>2. /\ copy \in Lines /\ Contains(copy, k)
        /\ \A j \in Keys \ {k} : Contains(copy, j) <=> Contains(entries, j)
    BY <2>1, UpsertedIs DEF KeyInv, KeyTypeOK
  <2>3. PICK other \in SUBSET Keys : other = {}
    OBVIOUS
  <2>4. Edits(e, k, copy, TRUE, other) /\ \A j \in Keys \ (other \cup {k}) : Contains(copy, j) <=> Contains(entries, j)
    BY <1>2, <2>1, <2>2, <2>3
  <2>5. QED BY <1>1, <2>2, <2>4, EditsStep
\* The file could not be read: the copy is right as to k only.
<1>3. CASE Edits(e, k, <<k>>, TRUE, Keys \ {k})
  <2>1. PICK copy : copy = <<k>>
    OBVIOUS
  <2>2. copy \in Lines /\ Contains(copy, k)
    BY <2>1 DEF Lines, Fields, Contains
  <2>3. PICK other \in SUBSET Keys : other = Keys \ {k}
    OBVIOUS
  <2>4. Edits(e, k, copy, TRUE, other) /\ \A j \in Keys \ (other \cup {k}) : FALSE
    BY <1>3, <2>1, <2>3
  <2>5. QED BY <1>1, <2>2, <2>4, EditsStep
<1>4. QED BY <1>2, <1>3 DEF Upsert

LEMMA TruncateStep ==
  ASSUME KeyInv, NEW e \in Editors, TruncateKeys(e)
  PROVE  KeyInv'
<1>1. PICK q \in EditorRecords :
         /\ q.at = "open" /\ q.key = editor[e].key /\ q.copy = editor[e].copy /\ q.other = editor[e].other
         /\ editor'[e] = q /\ \A f \in Editors \ {e} : editor'[f] = editor[f]
         /\ editor' \in [Editors -> EditorRecords]
  BY EditorAt DEF TruncateKeys
<1>2. /\ entries' = <<>> /\ unended' = FALSE /\ UNCHANGED <<which, claim, crashed>>
      /\ editor[e].at = "loaded"
  BY DEF TruncateKeys
<1>3. KeyTypeOK'
  <2>1. <<>> \in Lines
    BY DEF Lines
  <2>2. QED BY <1>1, <1>2, <2>1 DEF KeyInv, KeyTypeOK, EditorRecords
<1>4. \A f \in Editors : CopyMeets(editor[f])'
  BY <1>1, <1>2 DEF KeyInv, CopyMeets, Meets
<1>5. QED BY <1>1, <1>2, <1>3, <1>4 DEF KeyInv

LEMMA DiesStep ==
  ASSUME KeyInv, NEW e \in Editors, EditorDies(e)
  PROVE  KeyInv'
<1>1. PICK q \in EditorRecords :
         /\ q.at = "dead" /\ editor'[e] = q /\ \A f \in Editors \ {e} : editor'[f] = editor[f]
         /\ editor' \in [Editors -> EditorRecords]
  BY EditorAt DEF EditorDies
<1>2. /\ UNCHANGED <<which, entries, unended>>
      /\ claim' = IF editor[e].at = "open" THEN [k \in Keys |-> "any"] ELSE claim
      /\ crashed < MaxCrashed /\ crashed' = crashed + 1
  BY DEF EditorDies
<1>3. claim' \in [Keys -> {"in", "out", "any"}] /\ \A k \in Keys : claim'[k] = claim[k] \/ claim'[k] = "any"
  BY <1>2 DEF KeyInv, KeyTypeOK
<1>4. KeyTypeOK'
  BY <1>1, <1>2, <1>3, KeyAssumption DEF KeyInv, KeyTypeOK, EditorRecords
<1>5. ASSUME NEW f \in Editors PROVE CopyMeets(editor[f])'
  <2>1. CASE f = e
    BY <1>1, <2>1 DEF CopyMeets
  <2>2. CASE f # e
    <3>1. PICK r : r = editor[f]
      OBVIOUS
    <3>2. CopyMeets(r) /\ which' = which
      BY <1>2, <3>1 DEF KeyInv
    <3>3. CopyMeets(r)'
      BY <1>3, <3>2, CopyStays
    <3>4. QED BY <1>1, <2>2, <3>1, <3>3 DEF CopyMeets, Meets
  <2>3. QED BY <2>1, <2>2
<1>6. ASSUME \A f \in Editors : editor'[f].at # "open" PROVE Meets(entries, {})'
  <2>1. CASE editor[e].at = "open"
    BY <1>2, <2>1 DEF Meets
  <2>2. CASE editor[e].at # "open"
    <3>1. \A f \in Editors : editor[f].at # "open"
      BY <1>1, <1>6, <2>2
    <3>2. QED BY <1>2, <2>2, <3>1 DEF KeyInv, Meets
  <2>3. QED BY <2>1, <2>2
<1>7. QED BY <1>1, <1>2, <1>4, <1>5, <1>6 DEF KeyInv

LEMMA WriteKeysStep ==
  ASSUME KeyInv, NEW e \in Editors, WriteKeys(e)
  PROVE  KeyInv'
<1>t. /\ KeyTypeOK /\ editor \in [Editors -> EditorRecords] /\ entries \in Seq(Fields)
      /\ entries \in Lines /\ Len(entries) \in Nat /\ Junk \notin Keys /\ Junk \in Fields
      /\ unended \in BOOLEAN
  BY KeyAssumption DEF KeyInv, KeyTypeOK, EditorRecords, Lines, Fields
<1>1. PICK r \in EditorRecords : r = editor[e]
  BY <1>t
<1>2. PICK k, is, copy : k = r.key /\ is = (IF which = "node_keys" THEN "in" ELSE "out") /\ copy = r.copy
  OBVIOUS
<1>3. /\ editor[e].at = "open" /\ k \in Keys /\ copy \in Lines /\ copy \in Seq(Fields)
      /\ r.other \in SUBSET Keys /\ r.unended \in BOOLEAN
      /\ Contains(copy, k) <=> is = "in"
      /\ \A j \in Keys \ (r.other \cup {k}) : /\ claim[j] = "in" => Contains(copy, j)
                                              /\ claim[j] = "out" => ~Contains(copy, j)
  <2>1. CopyMeets(r) /\ r.at = "open"
    BY <1>1 DEF KeyInv, WriteKeys
  <2>2. QED BY <1>1, <1>2, <2>1 DEF CopyMeets, Meets, EditorRecords, Lines
<1>4. PICK n \in 0..Len(entries) :
        LET rear == SubSeq(entries, Len(entries) - n + 1, Len(entries)) IN
        /\ IF copy = <<>> THEN n = Len(entries) ELSE n > 0 => n < Len(entries)
        /\ entries' = IF n = 0 \/ copy = <<>> THEN copy \o rear ELSE copy \o <<Junk>> \o rear
        /\ unended' = IF n = 0 THEN r.unended /\ copy # <<>> ELSE unended
        /\ claim' = Claimed(k, is, r.other \cup {j \in Keys : Contains(rear, j)})
  BY <1>1, <1>2 DEF WriteKeys
<1>5. PICK rear : rear = SubSeq(entries, Len(entries) - n + 1, Len(entries))
  OBVIOUS
<1>6. PICK any : any = r.other \cup {j \in Keys : Contains(rear, j)}
  OBVIOUS
<1>7. /\ entries' = IF n = 0 \/ copy = <<>> THEN copy \o rear ELSE copy \o <<Junk>> \o rear
      /\ unended' = IF n = 0 THEN r.unended /\ copy # <<>> ELSE unended
      /\ claim' = Claimed(k, is, any)
  BY <1>4, <1>5, <1>6
<1>8. rear \in Seq(Fields) /\ Len(rear) = n /\ n \in Nat /\ any \in SUBSET Keys
  <2>1. n \in Nat /\ Len(entries) - n + 1 \in 1..Len(entries) + 1
    BY <1>t
  <2>2. QED BY <1>t, <1>3, <1>5, <1>6, <2>1
<1>9. /\ entries' \in Seq(Fields)
      /\ \A j \in Keys : Contains(entries', j) <=> Contains(copy, j) \/ Contains(rear, j)
  <2>1. CASE n = 0 \/ copy = <<>>
    BY <1>3, <1>7, <1>8, <1>t, <2>1, ContainsBoth
  <2>2. CASE ~(n = 0 \/ copy = <<>>)
    <3>1. <<Junk>> \in Seq(Fields) /\ \A x : Contains(<<Junk>>, x) <=> x = Junk
      BY DEF Fields, Contains
    <3>2. PICK s : s = copy \o <<Junk>>
      OBVIOUS
    <3>3. s \in Seq(Fields) /\ \A x : Contains(s, x) <=> Contains(copy, x) \/ x = Junk
      <4>1. copy \in Seq(Fields) /\ Junk \in Fields
        BY <1>3, <1>t
      <4>2. QED BY <3>1, <3>2, <4>1, ContainsBoth
    <3>4. entries' = s \o rear
      BY <1>7, <2>2, <3>2
    <3>5. entries' \in Seq(Fields) /\ \A x : Contains(entries', x) <=> Contains(s, x) \/ Contains(rear, x)
      BY <1>8, <1>t, <3>3, <3>4, ContainsBoth
    <3>6. QED BY <1>t, <3>3, <3>5
  <2>3. QED BY <2>1, <2>2
<1>10. unended' \in BOOLEAN /\ (unended' => entries' # <<>>)
  <2>1. CASE n = 0
    <3>1. unended' => copy # <<>>
      BY <1>7, <2>1
    <3>2. Len(copy \o rear) = Len(copy) + Len(rear) /\ Len(copy) \in Nat /\ (copy # <<>> => Len(copy) > 0)
      BY <1>3, <1>8
    <3>3. entries' = copy \o rear
      BY <1>7, <2>1
    <3>4. copy # <<>> => Len(entries') > 0
      BY <1>8, <3>2, <3>3
    <3>5. QED BY <1>3, <1>7, <2>1, <3>1, <3>4
  <2>2. CASE n # 0
    <3>1. Len(rear) > 0
      BY <1>8, <2>2
    <3>2. Len(copy \o rear) = Len(copy) + Len(rear) /\ Len(copy) \in Nat
      BY <1>3, <1>8
    <3>3. Len(copy \o <<Junk>> \o rear) = Len(copy) + 1 + Len(rear)
      <4>1. PICK s : s = copy \o <<Junk>>
        OBVIOUS
      <4>2. s \in Seq(Fields) /\ Len(s) = Len(copy) + 1
        BY <1>3, <1>t, <4>1
      <4>3. QED BY <1>8, <4>1, <4>2
    <3>4. Len(entries') > 0
      BY <1>7, <1>8, <3>1, <3>2, <3>3
    <3>5. unended' = unended
      BY <1>7, <2>2
    <3>6. QED BY <1>t, <3>4, <3>5
  <2>3. QED BY <2>1, <2>2
<1>11. /\ \A j \in Keys : claim'[j] = IF j \in any THEN "any" ELSE IF j = k THEN is ELSE claim[j]
       /\ claim' \in [Keys -> {"in", "out", "any"}]
  <2>1. \A j \in Keys : claim[j] \in {"in", "out", "any"}
    BY <1>t DEF KeyTypeOK
  <2>2. is \in {"in", "out"}
    BY <1>2
  <2>3. QED BY <1>7, <2>1, <2>2 DEF Claimed
<1>12. PICK o : o = Others(e, {k})
  OBVIOUS
<1>13. /\ o \in [Editors -> EditorRecords]
       /\ \A f \in Editors :
            /\ o[f].at = editor[f].at /\ o[f].key = editor[f].key /\ o[f].copy = editor[f].copy
            /\ editor[f].other \subseteq o[f].other
            /\ f # e /\ o[f].at \in {"loaded", "open"} => k \in o[f].other
  <2>1. {k} \in SUBSET Keys
    BY <1>3
  <2>2. QED BY <1>t, <1>12, <2>1, OthersIs
<1>14. editor' = [o EXCEPT ![e].at = "done"] /\ which' = which /\ crashed' = crashed
  BY <1>1, <1>2, <1>12 DEF WriteKeys
<1>15. /\ editor'[e].at = "done"
       /\ \A f \in Editors \ {e} : editor'[f] = o[f]
       /\ editor' \in [Editors -> EditorRecords]
  <2>1. PICK s \in EditorRecords : s = o[e]
    BY <1>13
  <2>2. PICK q : q = [s EXCEPT !.at = "done"]
    OBVIOUS
  <2>3. q \in EditorRecords /\ q.at = "done"
    BY <2>1, <2>2 DEF EditorRecords
  <2>4. editor' = [o EXCEPT ![e] = q]
    BY <1>13, <1>14, <2>1, <2>2
  <2>5. QED BY <1>13, <2>3, <2>4
<1>16. KeyTypeOK'
  BY <1>t, <1>9, <1>10, <1>11, <1>14, <1>15 DEF KeyTypeOK, EditorRecords, Lines
<1>17. ASSUME NEW f \in Editors PROVE CopyMeets(editor[f])'
  <2>1. CASE f = e
    BY <1>15, <2>1 DEF CopyMeets
  <2>2. CASE f # e
    <3>1. PICK p, q : p = editor[f] /\ q = editor'[f]
      OBVIOUS
    <3>2. CopyMeets(p)
      BY <3>1 DEF KeyInv
    <3>3. /\ q.at = p.at /\ q.key = p.key /\ q.copy = p.copy /\ p.other \subseteq q.other
          /\ q.at \in {"loaded", "open"} => k \in q.other
      BY <1>13, <1>15, <2>2, <3>1
    <3>4. \A j \in Keys \ {k} : claim'[j] = claim[j] \/ claim'[j] = "any"
      BY <1>11
    <3>5. CopyMeets(q)'
      BY <1>14, <3>2, <3>3, <3>4, CopyStays
    <3>6. QED BY <3>1, <3>5 DEF CopyMeets, Meets
  <2>3. QED BY <2>1, <2>2
<1>18. ASSUME NEW j \in Keys
       PROVE  /\ claim'[j] = "in" => Contains(entries', j)
              /\ claim'[j] = "out" => ~Contains(entries', j)
  <2>1. CASE j \in any
    BY <1>11, <2>1
  <2>2. CASE j \notin any
    <3>1. ~Contains(rear, j) /\ j \notin r.other
      BY <1>6, <2>2
    <3>2. Contains(entries', j) <=> Contains(copy, j)
      BY <1>9, <3>1
    <3>3. CASE j = k
      BY <1>2, <1>3, <1>11, <2>2, <3>2, <3>3
    <3>4. CASE j # k
      BY <1>3, <1>11, <2>2, <3>1, <3>2, <3>4
    <3>5. QED BY <3>3, <3>4
  <2>3. QED BY <2>1, <2>2
<1>19. Meets(entries, {})'
  BY <1>18 DEF Meets
<1>20. \A f \in Editors : editor'[f].at = "append" => editor'[f].key \in Keys
  BY <1>13, <1>15 DEF KeyInv
<1>21. QED BY <1>10, <1>16, <1>17, <1>19, <1>20 DEF KeyInv

LEMMA KeyStep == KeyInv /\ [KeyNext]_keyVars => KeyInv'
<1> SUFFICES ASSUME KeyInv, [KeyNext]_keyVars PROVE KeyInv'
  OBVIOUS
<1>1. CASE UNCHANGED keyVars
  BY <1>1 DEF keyVars, KeyInv, KeyTypeOK, CopyMeets, Meets
<1>2. ASSUME NEW e \in Editors, NEW k \in Keys, Authorize(e, k) \/ Revoke(e, k) \/ Upsert(e, k)
      PROVE  KeyInv'
  BY <1>2, AuthorizeStep, RevokeStep, UpsertStep
<1>3. ASSUME NEW e \in Editors, AppendLine(e) \/ TruncateKeys(e) \/ WriteKeys(e) \/ EditorDies(e)
      PROVE  KeyInv'
  BY <1>3, AppendLineStep, TruncateStep, WriteKeysStep, DiesStep
<1>4. QED BY <1>1, <1>2, <1>3 DEF KeyNext

\* What was authorized, pinned or revoked is found so while nobody rewrites the
\* file, for any number of editors and keys and whatever the file was, unless
\* its line met an unended one, two rewrites overlapped, or another key was
\* pinned when the file could not be read, which drops every other line
\* (AuthorizeKey, RevokeKey, upsertKeyed).
THEOREM EditsAreKept == KeySpec => []EditsHold
<1>1. KeyInv => EditsHold
  BY DEF KeyInv, Meets, EditsHold
<1>2. QED BY <1>1, KeyInitially, KeyStep, KeyAssumption, PTL DEF KeySpec

----------------------------------------------------------------------------
(* FleetMemory.                                                            *)

UserRecords == [at : {"idle", "loaded", "open", "saved", "read", "failed"}, copy : Memory,
                made : SUBSET (Members \X Numbers), missed : SUBSET Numbers, behind : BOOLEAN]

\* A node's notes s were made one after the other, by the time there were n.
Ascending(s, n) ==
  /\ Len(s) <= NoteLimit
  /\ \A i \in 1..Len(s) : s[i] <= n /\ \A j \in 1..i - 1 : s[j] < s[i]

\* Note x is among the notes s, or was pushed out by newer ones.
Survives(s, x) == Contains(s, x) \/ (Len(s) = NoteLimit /\ \A i \in 1..Len(s) : s[i] > x)

Tidy(memory) == \A m \in Members : Ascending(memory[m].notes, notes)

\* In the copy of user r are its own notes and the acknowledged ones, except
\* those that were saved since it was read.
CopyKeeps(r) ==
  r.at \in {"loaded", "open"} =>
    /\ Tidy(r.copy)
    /\ \A n \in r.made : n[2] <= notes /\ Survives(r.copy[n[1]].notes, n[2])
    /\ \A n \in acked : n[2] \in excused \cup r.missed \/ Survives(r.copy[n[1]].notes, n[2])

MemoryInv ==
  /\ MemoryTypeOK
  /\ Tidy(file.memory)
  /\ \A n \in acked : n[2] <= notes
  /\ file.ok => \A n \in acked : n[2] \in excused \/ Survives(file.memory[n[1]].notes, n[2])
  /\ \A u \in Users : CopyKeeps(user[u])

\* One sequence after the other.
LEMMA Joined ==
  ASSUME NEW S, NEW s \in Seq(S), NEW t \in Seq(S)
  PROVE  /\ s \o t \in Seq(S) /\ Len(s \o t) = Len(s) + Len(t)
         /\ \A i \in 1..Len(s) : (s \o t)[i] = s[i]
         /\ \A i \in 1..Len(t) : (s \o t)[Len(s) + i] = t[i]
<1>1. s \o t \in Seq(S) /\ Len(s \o t) = Len(s) + Len(t)
  OBVIOUS
<1>2. ASSUME NEW i \in 1..Len(t) PROVE (s \o t)[Len(s) + i] = t[i]
  <2>1. Len(s) + i \in 1..Len(s) + Len(t) /\ ~(Len(s) + i <= Len(s)) /\ (Len(s) + i) - Len(s) = i
    OBVIOUS
  <2>2. QED BY <2>1
<1>3. QED BY <1>1, <1>2

\* A node's notes s with the next ones, and the most recent of those.
LEMMA NotesAdded ==
  ASSUME NEW s \in Seq(Numbers), NEW n \in Nat, Ascending(s, n), NEW k \in Nat,
         NEW all \in Seq(Numbers), Len(all) = Len(s) + k,
         \A i \in 1..Len(s) : all[i] = s[i], \A i \in 1..k : all[Len(s) + i] = n + i
  PROVE  \E t \in Seq(Numbers) :
           /\ t = Latest(all)
           /\ Ascending(t, n + k)
           /\ \A i \in (n + 1)..(n + k) : Survives(t, i)
           /\ \A x \in Numbers : x <= n /\ Survives(s, x) => Survives(t, x)
<1>t. PICK t : t = Latest(all)
  OBVIOUS
<1>0. NoteLimit \in Nat /\ NoteLimit >= 1
  BY MemoryAssumption
<1>1. PICK l \in Nat : l = Len(s)
  OBVIOUS
<1>4. /\ all \in Seq(Numbers) /\ Len(all) = l + k
      /\ \A i \in 1..l : all[i] = s[i]
      /\ \A i \in 1..k : all[l + i] = n + i
  BY <1>1
<1>5. /\ l <= NoteLimit
      /\ \A i \in 1..l : s[i] \in Nat /\ s[i] <= n /\ \A j \in 1..i - 1 : s[j] < s[i]
  BY <1>1 DEF Ascending, Numbers
<1>6. \A i \in 1..l + k : all[i] = IF i <= l THEN s[i] ELSE n + (i - l)
  <2>1. ASSUME NEW i \in 1..l + k, ~(i <= l) PROVE all[i] = n + (i - l)
    <3>1. i - l \in 1..k /\ l + (i - l) = i
      BY <2>1
    <3>2. QED BY <1>4, <3>1
  <2>2. ASSUME NEW i \in 1..l + k, i <= l PROVE all[i] = s[i]
    <3>1. i \in 1..l
      BY <2>2
    <3>2. QED BY <1>4, <3>1
  <2>3. QED BY <2>1, <2>2
<1>7. ASSUME NEW i \in 1..l + k, NEW j \in 1..i - 1
      PROVE  all[i] \in Nat /\ all[i] <= n + k /\ all[j] < all[i]
  <2>1. j \in 1..l + k
    OBVIOUS
  <2>2. CASE i <= l
    <3>1. i \in 1..l /\ j <= l
      BY <2>2
    <3>2. QED BY <1>5, <1>6, <2>1, <2>2, <3>1
  <2>3. CASE ~(i <= l) /\ j <= l
    <3>1. j \in 1..l
      BY <2>3
    <3>2. s[j] \in Nat /\ s[j] <= n /\ all[j] = s[j] /\ all[i] = n + (i - l)
      BY <1>5, <1>6, <2>1, <2>3, <3>1
    <3>3. QED BY <2>3, <3>2
  <2>4. CASE ~(i <= l) /\ ~(j <= l)
    BY <1>6, <2>1, <2>4
  <2>5. QED BY <2>2, <2>3, <2>4
<1>8. ASSUME NEW i \in 1..l + k PROVE all[i] \in Nat /\ all[i] <= n + k
  <2>1. CASE i <= l
    <3>1. i \in 1..l
      BY <2>1
    <3>2. all[i] = s[i] /\ s[i] \in Nat /\ s[i] <= n
      BY <1>4, <1>5, <3>1
    <3>3. QED BY <3>2
  <2>2. CASE ~(i <= l)
    BY <1>6, <2>2
  <2>3. QED BY <2>1, <2>2
\* d notes go.
<1>9. PICK d \in Nat : d = IF l + k > NoteLimit THEN l + k - NoteLimit ELSE 0
  <2>1. (IF l + k > NoteLimit THEN l + k - NoteLimit ELSE 0) \in Nat
    BY <1>0
  <2>2. QED BY <2>1
<1>10. /\ t \in Seq(Numbers) /\ Len(t) = (l + k) - d
       /\ \A i \in 1..(l + k) - d : t[i] = all[i + d]
  <2>1. t = IF Len(all) > NoteLimit THEN SubSeq(all, Len(all) - NoteLimit + 1, Len(all)) ELSE all
    BY <1>t DEF Latest
  <2>2. CASE l + k > NoteLimit
    <3>1. PICK a \in Nat, z \in Nat : a = d + 1 /\ z = l + k
      OBVIOUS
    <3>2. t = SubSeq(all, a, z)
      <4>1. Len(all) - NoteLimit + 1 = a /\ Len(all) = z
        BY <1>0, <1>4, <1>9, <2>2, <3>1
      <4>2. QED BY <1>4, <2>1, <2>2, <4>1
    <3>3. a >= 1 /\ a <= z /\ z = Len(all)
      BY <1>0, <1>4, <1>9, <2>2, <3>1
    <3>4. t \in Seq(Numbers) /\ Len(t) = z - a + 1 /\ \A i \in 1..z - a + 1 : t[i] = all[i + a - 1]
      BY <1>4, <3>2, <3>3, EndOf
    <3>5. z - a + 1 = (l + k) - d /\ \A i \in 1..(l + k) - d : i + a - 1 = i + d
      BY <3>1
    <3>6. QED BY <3>4, <3>5
  <2>3. CASE ~(l + k > NoteLimit)
    <3>1. t = all /\ d = 0
      BY <1>4, <1>9, <2>1, <2>3
    <3>2. (l + k) - d = l + k /\ \A i \in 1..(l + k) - d : i + d = i
      BY <3>1
    <3>3. QED BY <1>4, <3>1, <3>2
  <2>4. QED BY <2>2, <2>3
<1>11. (l + k) - d <= NoteLimit /\ (l + k) - d \in Nat /\ (d = 0 \/ (l + k) - d = NoteLimit)
  BY <1>0, <1>9
<1>12. Ascending(t, n + k)
  <2>1. ASSUME NEW i \in 1..(l + k) - d
        PROVE  t[i] <= n + k /\ \A j \in 1..i - 1 : t[j] < t[i]
    <3>1. i + d \in 1..l + k /\ t[i] = all[i + d]
      BY <1>10
    <3>2. ASSUME NEW j \in 1..i - 1 PROVE t[j] < t[i]
      <4>1. j \in 1..(l + k) - d /\ j + d \in 1..(i + d) - 1
        OBVIOUS
      <4>2. QED BY <1>7, <1>10, <3>1, <4>1
    <3>3. QED BY <1>8, <3>1, <3>2
  <2>2. QED BY <1>10, <1>11, <2>1 DEF Ascending
<1>13. ASSUME NEW p \in 1..l + k PROVE Survives(t, all[p])
  <2>1. CASE p > d
    <3>1. p - d \in 1..(l + k) - d /\ (p - d) + d = p
      BY <2>1
    <3>2. p - d \in 1..Len(t) /\ t[p - d] = all[p]
      BY <1>10, <3>1
    <3>3. QED BY <3>2 DEF Survives, Contains
  <2>2. CASE ~(p > d)
    <3>1. Len(t) = NoteLimit
      BY <1>10, <1>11, <2>2
    <3>2. ASSUME NEW i \in 1..Len(t) PROVE t[i] > all[p]
      <4>1. i \in 1..(l + k) - d /\ i + d \in 1..l + k /\ p \in 1..(i + d) - 1
        BY <1>10, <1>11, <2>2, <3>2
      <4>2. t[i] = all[i + d] /\ all[p] < all[i + d]
        BY <1>7, <1>10, <4>1
      <4>3. all[p] \in Nat /\ all[i + d] \in Nat
        BY <1>8, <4>1
      <4>4. QED BY <4>2, <4>3
    <3>3. QED BY <3>1, <3>2 DEF Survives
  <2>3. QED BY <2>1, <2>2
<1>14. ASSUME NEW i \in (n + 1)..(n + k) PROVE Survives(t, i)
  <2>1. PICK p \in 1..l + k : p = l + (i - n)
    OBVIOUS
  <2>2. all[p] = i
    BY <1>6, <2>1
  <2>3. QED BY <1>13, <2>2
<1>15. ASSUME NEW x \in Numbers, x <= n, Survives(s, x) PROVE Survives(t, x)
  <2>1. CASE \E p \in 1..l : s[p] = x
    <3>1. PICK p \in 1..l : s[p] = x
      BY <2>1
    <3>2. p \in 1..l + k /\ all[p] = x
      BY <1>4, <3>1
    <3>3. QED BY <1>13, <3>2
  <2>2. CASE Len(s) = NoteLimit /\ \A i \in 1..Len(s) : s[i] > x
    <3>1. Len(t) = NoteLimit
      BY <1>1, <1>9, <1>10, <2>2, <1>0
    <3>2. ASSUME NEW i \in 1..Len(t) PROVE t[i] > x
      <4>1. i \in 1..(l + k) - d /\ i + d \in 1..l + k
        BY <1>10, <1>11, <3>2
      <4>2. t[i] = all[i + d]
        BY <1>10, <4>1
      <4>3. CASE i + d <= l
        <5>1. i + d \in 1..Len(s) /\ all[i + d] = s[i + d]
          BY <1>1, <1>6, <4>1, <4>3
        <5>2. QED BY <2>2, <4>2, <5>1
      <4>4. CASE ~(i + d <= l)
        <5>1. all[i + d] = n + (i + d - l)
          BY <1>6, <4>1, <4>4
        <5>2. x \in Nat
          BY DEF Numbers
        <5>3. QED BY <1>15, <4>1, <4>2, <4>4, <5>1, <5>2
      <4>5. QED BY <4>3, <4>4
    <3>3. QED BY <3>1, <3>2 DEF Survives
  <2>3. QED BY <1>1, <1>15, <2>1, <2>2 DEF Survives, Contains
<1>16. QED BY <1>t, <1>10, <1>12, <1>14, <1>15

\* Notes that were in order stay so as more are made.
LEMMA StillAscending ==
  ASSUME NEW s \in Seq(Numbers), NEW n \in Nat, NEW k \in Nat, n <= k, Ascending(s, n)
  PROVE  Ascending(s, k)
<1>1. \A i \in 1..Len(s) : s[i] \in Nat
  BY DEF Numbers
<1>2. QED BY <1>1 DEF Ascending

\* What becomes of a memory when notes are added to it, and when a node's role
\* is set.
LEMMA AddNotesIs ==
  ASSUME MemoryInv, NEW m \in Members, NEW k \in Nat, NEW copy, copy = AddNotes(file.memory, m, k)
  PROVE  /\ copy \in Memory
         /\ \A j \in Members : Ascending(copy[j].notes, notes + k)
         /\ \A j \in {m}, i \in (notes + 1)..(notes + k) : Survives(copy[j].notes, i)
         /\ \A j \in Members, x \in Numbers :
              x <= notes /\ Survives(file.memory[j].notes, x) => Survives(copy[j].notes, x)
<1>1. PICK memory \in Memory : memory = file.memory
  BY DEF MemoryInv, MemoryTypeOK
<1>2. PICK n \in Nat : n = notes
  BY DEF MemoryInv, MemoryTypeOK
<1>3. \A j \in Members : Ascending(memory[j].notes, n)
  BY <1>1, <1>2 DEF MemoryInv, Tidy
<1>4. PICK r \in [role : Roles \cup {NoRole}, notes : Seq(Numbers)] : r = memory[m]
  BY DEF Memory
<1>5. PICK s \in Seq(Numbers) : s = r.notes
  OBVIOUS
<1>6. PICK new \in Seq(Numbers) : new = [i \in 1..k |-> n + i]
  <2>1. \A i \in 1..k : n + i \in Numbers
    BY DEF Numbers
  <2>2. [i \in 1..k |-> n + i] \in Seq(Numbers)
    BY <2>1
  <2>3. QED BY <2>2
<1>7. Len(new) = k /\ \A i \in 1..k : new[i] = n + i
  BY <1>6
<1>j. /\ s \o new \in Seq(Numbers) /\ Len(s \o new) = Len(s) + Len(new)
      /\ \A i \in 1..Len(s) : (s \o new)[i] = s[i]
      /\ \A i \in 1..Len(new) : (s \o new)[Len(s) + i] = new[i]
  BY Joined
<1>p. PICK all \in Seq(Numbers) : all = s \o new
  BY <1>j
<1>8. PICK t \in Seq(Numbers) :
        /\ t = Latest(all)
        /\ Ascending(t, n + k)
        /\ \A i \in (n + 1)..(n + k) : Survives(t, i)
        /\ \A x \in Numbers : x <= n /\ Survives(s, x) => Survives(t, x)
  <2>1. Ascending(s, n)
    BY <1>3, <1>4, <1>5
  <2>2. /\ Len(all) = Len(s) + Len(new)
        /\ \A i \in 1..Len(s) : all[i] = s[i]
        /\ \A i \in 1..Len(new) : all[Len(s) + i] = new[i]
    BY <1>j, <1>p, Zenon
  <2>3. /\ Len(all) = Len(s) + k
        /\ \A i \in 1..k : all[Len(s) + i] = n + i
    BY <1>7, <2>2
  <2>4. QED BY <2>1, <2>2, <2>3, NotesAdded
<1>9. PICK q : q = [r EXCEPT !.notes = t]
  OBVIOUS
<1>10. q \in [role : Roles \cup {NoRole}, notes : Seq(Numbers)] /\ q.notes = t
  BY <1>8, <1>9
<1>11. copy = [memory EXCEPT ![m] = q]
  BY <1>1, <1>2, <1>4, <1>5, <1>6, <1>p, <1>8, <1>9 DEF AddNotes, Memory
<1>12. copy \in Memory /\ copy[m] = q /\ \A j \in Members \ {m} : copy[j] = memory[j]
  BY <1>10, <1>11 DEF Memory
<1>13. ASSUME NEW j \in Members PROVE Ascending(copy[j].notes, n + k)
  <2>1. CASE j = m
    BY <1>8, <1>10, <1>12, <2>1
  <2>2. CASE j # m
    <3>1. PICK z : z = memory[j].notes
      OBVIOUS
    <3>2. z \in Seq(Numbers)
      BY <3>1 DEF Memory
    <3>3. Ascending(z, n)
      BY <1>3, <3>1
    <3>4. n + k \in Nat /\ n <= n + k
      OBVIOUS
    <3>5. Ascending(z, n + k)
      BY <3>2, <3>3, <3>4, StillAscending
    <3>6. QED BY <1>12, <2>2, <3>1, <3>5
  <2>3. QED BY <2>1, <2>2
<1>14. ASSUME NEW j \in Members, NEW x \in Numbers, x <= n, Survives(memory[j].notes, x)
       PROVE  Survives(copy[j].notes, x)
  BY <1>4, <1>5, <1>8, <1>10, <1>12, <1>14
<1>15. QED BY <1>1, <1>2, <1>8, <1>10, <1>12, <1>13, <1>14

LEMMA SetNodeIs ==
  ASSUME NEW memory \in Memory, NEW m \in Members, NEW role \in Roles
  PROVE  /\ SetNode(memory, m, role) \in Memory
         /\ \A k \in Members : SetNode(memory, m, role)[k].notes = memory[k].notes
<1>1. PICK r : r = memory[m]
  OBVIOUS
<1>2. r \in [role : Roles \cup {NoRole}, notes : Seq(Numbers)]
  BY <1>1 DEF Memory
<1>3. PICK q : q = [r EXCEPT !.role = role]
  OBVIOUS
<1>4. q \in [role : Roles \cup {NoRole}, notes : Seq(Numbers)] /\ q.notes = r.notes
  BY <1>2, <1>3
<1>5. PICK new : new = SetNode(memory, m, role)
  OBVIOUS
<1>6. new = [memory EXCEPT ![m] = q]
  BY <1>1, <1>2, <1>3, <1>5 DEF SetNode, Memory
<1>7. new \in Memory /\ \A k \in Members : new[k].notes = memory[k].notes
  BY <1>1, <1>4, <1>6 DEF Memory
<1>8. QED BY <1>5, <1>7

----------------------------------------------------------------------------
(* The steps of a user.                                                    *)

LEMMA MemoryInitially == MemoryInit => MemoryInv
<1> SUFFICES ASSUME MemoryInit PROVE MemoryInv
  OBVIOUS
<1>0. NoteLimit \in Nat /\ MaxLosses \in Nat
  BY MemoryAssumption
<1>1. NoMemory \in Memory /\ \A m \in Members : NoMemory[m].notes = <<>>
  <2>1. Unknown \in [role : Roles \cup {NoRole}, notes : Seq(Numbers)] /\ Unknown.notes = <<>>
    BY DEF Unknown
  <2>2. QED BY <2>1 DEF NoMemory, Memory
<1>2. \A n : Ascending(<<>>, n)
  BY <1>0 DEF Ascending
<1>3. NewUser \in UserRecords /\ NewUser.at = "idle"
  BY <1>1 DEF NewUser, UserRecords
<1>4. user \in [Users -> UserRecords] /\ \A u \in Users : user[u].at = "idle"
  BY <1>3 DEF MemoryInit
<1>5. file \in [ok : BOOLEAN, memory : Memory] /\ file.memory = NoMemory
  BY <1>1 DEF MemoryInit
<1>6. MemoryTypeOK
  BY <1>0, <1>4, <1>5 DEF MemoryInit, MemoryTypeOK, UserRecords
<1>7. Tidy(file.memory)
  BY <1>1, <1>2, <1>5 DEF Tidy
<1>8. acked = {}
  BY DEF MemoryInit
<1>9. QED BY <1>4, <1>6, <1>7, <1>8 DEF MemoryInv, CopyKeeps

\* What a user loads is the memory of the file, with its changes.
LEMMA LoadsStep ==
  ASSUME MemoryInv, NEW u \in Users, NEW copy \in Memory, NEW about \in SUBSET Members,
         NEW found \in Nat, Loads(u, copy, about, found),
         \A m \in Members : Ascending(copy[m].notes, notes + found),
         \A m \in about, i \in (notes + 1)..(notes + found) : Survives(copy[m].notes, i),
         \A m \in Members, x \in Numbers :
           x <= notes /\ Survives(file.memory[m].notes, x) => Survives(copy[m].notes, x)
  PROVE  MemoryInv'
<1>t. /\ MemoryTypeOK /\ user \in [Users -> UserRecords] /\ notes \in Nat
      /\ acked \subseteq Members \X Numbers /\ file.memory \in Memory
  BY DEF MemoryInv, MemoryTypeOK, UserRecords
<1>1. PICK made : made = about \X ((notes + 1)..(notes + found))
  OBVIOUS
<1>2. made \in SUBSET (Members \X Numbers)
  <2>1. (notes + 1)..(notes + found) \subseteq Numbers
    BY <1>t DEF Numbers
  <2>2. QED BY <1>1, <2>1
<1>3. PICK r \in UserRecords : r = user[u]
  BY <1>t
<1>4. PICK q : q = IF file.ok THEN [r EXCEPT !.at = "loaded", !.copy = copy, !.made = made]
                              ELSE [r EXCEPT !.at = "failed"]
  OBVIOUS
<1>5. /\ q \in UserRecords
      /\ file.ok => q.copy = copy /\ q.made = made /\ q.missed = r.missed
      /\ ~file.ok => q.at = "failed"
  BY <1>2, <1>4 DEF UserRecords
<1>6. /\ user' = [user EXCEPT ![u] = q]
      /\ UNCHANGED <<file, acked, excused, losses>> /\ notes' = notes + found
  BY <1>t, <1>1, <1>3, <1>4 DEF Loads
<1>7. user' \in [Users -> UserRecords] /\ user'[u] = q /\ \A v \in Users \ {u} : user'[v] = user[v]
  BY <1>t, <1>5, <1>6
<1>8. notes' \in Nat /\ notes <= notes'
  BY <1>t, <1>6
<1>9. MemoryTypeOK'
  BY <1>t, <1>6, <1>7, <1>8 DEF MemoryTypeOK, UserRecords
<1>10. ASSUME NEW memory \in Memory, Tidy(memory) PROVE Tidy(memory)'
  <2>1. ASSUME NEW m \in Members PROVE Ascending(memory[m].notes, notes')
    <3>1. memory[m].notes \in Seq(Numbers) /\ Ascending(memory[m].notes, notes)
      BY <1>10 DEF Memory, Tidy
    <3>2. QED BY <1>t, <1>8, <3>1, StillAscending
  <2>2. QED BY <2>1 DEF Tidy
<1>11. Tidy(file.memory)'
  <2>1. PICK memory : memory = file.memory
    OBVIOUS
  <2>2. Tidy(memory) /\ memory \in Memory
    BY <1>t, <2>1 DEF MemoryInv
  <2>3. Tidy(memory)'
    BY <1>10, <2>2
  <2>4. QED BY <1>6, <2>1, <2>3 DEF Tidy
<1>12. ASSUME NEW n \in acked' PROVE n[2] <= notes'
  BY <1>t, <1>6, <1>8, <1>12 DEF MemoryInv, Numbers
<1>13. ASSUME NEW v \in Users, v # u PROVE CopyKeeps(user[v])'
  <2>1. PICK s \in UserRecords : s = user[v]
    BY <1>t
  <2>2. s = user'[v] /\ CopyKeeps(s)
    BY <1>7, <1>13, <2>1 DEF MemoryInv
  <2>3. s.copy \in Memory /\ s.made \subseteq Members \X Numbers
    BY DEF UserRecords
  <2>4. ASSUME s.at \in {"loaded", "open"}
        PROVE  /\ Tidy(s.copy)'
               /\ \A n \in s.made : n[2] <= notes' /\ Survives(s.copy[n[1]].notes, n[2])
               /\ \A n \in acked' : n[2] \in excused' \cup s.missed \/ Survives(s.copy[n[1]].notes, n[2])
    <3>1. PICK memory : memory = s.copy
      OBVIOUS
    <3>2. Tidy(memory)'
      BY <1>10, <2>2, <2>3, <2>4, <3>1 DEF CopyKeeps
    <3>3. ASSUME NEW n \in s.made PROVE n[2] <= notes'
      BY <1>t, <1>8, <2>2, <2>3, <2>4 DEF CopyKeeps, Numbers
    <3>4. QED BY <1>6, <2>2, <2>4, <3>1, <3>2, <3>3 DEF CopyKeeps
  <2>5. CopyKeeps(s)'
    BY <2>4 DEF CopyKeeps
  <2>6. QED BY <2>2, <2>5 DEF CopyKeeps, Tidy
<1>14. CopyKeeps(user[u])'
  <2>1. CASE file.ok
    <3>1. Tidy(copy)'
      BY <1>6 DEF Tidy
    <3>2. ASSUME NEW n \in made PROVE n[2] <= notes' /\ Survives(copy[n[1]].notes, n[2])
      <4>1. n[1] \in about /\ n[2] \in (notes + 1)..(notes + found)
        BY <1>1
      <4>2. QED BY <1>t, <1>6, <4>1
    <3>3. ASSUME NEW n \in acked PROVE n[2] \in excused \/ Survives(copy[n[1]].notes, n[2])
      <4>1. n[1] \in Members /\ n[2] \in Numbers /\ n[2] <= notes
        BY <1>t DEF MemoryInv
      <4>2. n[2] \in excused \/ Survives(file.memory[n[1]].notes, n[2])
        BY <2>1 DEF MemoryInv
      <4>3. QED BY <4>1, <4>2
    <3>4. CopyKeeps(q)'
      BY <1>5, <1>6, <2>1, <3>1, <3>2, <3>3 DEF CopyKeeps
    <3>5. QED BY <1>7, <3>4 DEF CopyKeeps, Tidy
  <2>2. CASE ~file.ok
    BY <1>5, <1>7, <2>2 DEF CopyKeeps
  <2>3. QED BY <2>1, <2>2
<1>15. file'.ok => \A n \in acked' : n[2] \in excused' \/ Survives(file'.memory[n[1]].notes, n[2])
  BY <1>6 DEF MemoryInv
<1>16. QED BY <1>9, <1>11, <1>12, <1>13, <1>14, <1>15 DEF MemoryInv

\* A user's step that adds no note: the file stays, or is emptied.
LEMMA MoveStep ==
  ASSUME MemoryInv, NEW u \in Users, NEW q \in UserRecords, user' = [user EXCEPT ![u] = q],
         q.at \in {"loaded", "open"} =>
           /\ user[u].at \in {"loaded", "open"} /\ q.copy = user[u].copy
           /\ q.made = user[u].made /\ q.missed = user[u].missed,
         file' = file \/ file' = Torn, losses' \in 0..MaxLosses,
         UNCHANGED <<notes, acked, excused>>
  PROVE  MemoryInv'
<1>t. /\ MemoryTypeOK /\ user \in [Users -> UserRecords] /\ notes \in Nat
      /\ acked \subseteq Members \X Numbers /\ file \in [ok : BOOLEAN, memory : Memory]
  BY DEF MemoryInv, MemoryTypeOK, UserRecords
<1>1. Torn \in [ok : BOOLEAN, memory : Memory] /\ ~Torn.ok /\ \A m \in Members : Torn.memory[m].notes = <<>>
  <2>1. Unknown \in [role : Roles \cup {NoRole}, notes : Seq(Numbers)] /\ Unknown.notes = <<>>
    BY DEF Unknown
  <2>2. NoMemory \in Memory /\ \A m \in Members : NoMemory[m].notes = <<>>
    BY <2>1 DEF NoMemory, Memory
  <2>3. QED BY <2>2 DEF Torn
<1>2. user' \in [Users -> UserRecords] /\ user'[u] = q /\ \A v \in Users \ {u} : user'[v] = user[v]
  BY <1>t
<1>3. file' \in [ok : BOOLEAN, memory : Memory]
  BY <1>t, <1>1
<1>4. MemoryTypeOK'
  BY <1>t, <1>2, <1>3 DEF MemoryTypeOK, UserRecords
<1>5. Tidy(file.memory)'
  <2>1. CASE file' = file
    <3>1. PICK memory : memory = file.memory
      OBVIOUS
    <3>2. Tidy(memory)
      BY <3>1 DEF MemoryInv
    <3>3. Tidy(memory)'
      BY <3>2 DEF Tidy
    <3>4. QED BY <2>1, <3>1, <3>3 DEF Tidy
  <2>2. CASE file' = Torn
    <3>1. \A n : Ascending(<<>>, n)
      BY MemoryAssumption DEF Ascending
    <3>2. QED BY <1>1, <2>2, <3>1 DEF Tidy
  <2>3. QED BY <2>1, <2>2
<1>6. file'.ok => \A n \in acked' : n[2] \in excused' \/ Survives(file'.memory[n[1]].notes, n[2])
  BY <1>1 DEF MemoryInv
<1>7. \A n \in acked' : n[2] <= notes'
  BY DEF MemoryInv
<1>8. ASSUME NEW r \in UserRecords, CopyKeeps(r) PROVE CopyKeeps(r)'
  <2>1. SUFFICES ASSUME r.at \in {"loaded", "open"}
                 PROVE  /\ Tidy(r.copy)'
                        /\ \A n \in r.made : n[2] <= notes' /\ Survives(r.copy[n[1]].notes, n[2])
                        /\ \A n \in acked' : n[2] \in excused' \cup r.missed \/ Survives(r.copy[n[1]].notes, n[2])
    BY DEF CopyKeeps
  <2>2. Tidy(r.copy)'
    BY <1>8, <2>1 DEF CopyKeeps, Tidy
  <2>3. QED BY <1>8, <2>1, <2>2 DEF CopyKeeps
<1>9. ASSUME NEW v \in Users PROVE CopyKeeps(user[v])'
  <2>1. PICK s \in UserRecords : s = user'[v]
    BY <1>2
  <2>2. CopyKeeps(s)
    <3>1. CASE v = u
      <4>1. CopyKeeps(user[u])
        BY DEF MemoryInv
      <4>2. s = q
        BY <1>2, <2>1, <3>1
      <4>3. QED BY <4>1, <4>2 DEF CopyKeeps
    <3>2. CASE v # u
      BY <1>2, <2>1, <3>2 DEF MemoryInv
    <3>3. QED BY <3>1, <3>2
  <2>3. CopyKeeps(s)'
    BY <1>8, <2>2
  <2>4. QED BY <2>1, <2>3 DEF CopyKeeps, Tidy
<1>10. QED BY <1>4, <1>5, <1>6, <1>7, <1>9 DEF MemoryInv

LEMMA ReadsStep ==
  ASSUME MemoryInv, NEW u \in Users, NEW ok \in BOOLEAN, Reads(u, ok)
  PROVE  MemoryInv'
<1>1. PICK r \in UserRecords : r = user[u]
  BY DEF MemoryInv, MemoryTypeOK, UserRecords
<1>2. PICK q : q = [r EXCEPT !.at = IF ok THEN "read" ELSE "failed"]
  OBVIOUS
<1>3. q \in UserRecords /\ q.at \in {"read", "failed"}
  BY <1>2 DEF UserRecords
<1>4. user \in [Users -> UserRecords]
  BY DEF MemoryInv, MemoryTypeOK, UserRecords
<1>5. user' = [user EXCEPT ![u] = q] /\ UNCHANGED <<file, notes, acked, excused, losses>>
  BY <1>1, <1>2, <1>4 DEF Reads
<1>6. losses' \in 0..MaxLosses
  BY <1>5 DEF MemoryInv, MemoryTypeOK
<1>7. QED BY <1>3, <1>5, <1>6, MoveStep

LEMMA SaveBegins ==
  ASSUME MemoryInv, NEW u \in Users, Truncate(u)
  PROVE  MemoryInv'
<1>1. PICK r \in UserRecords : r = user[u]
  BY DEF MemoryInv, MemoryTypeOK, UserRecords
<1>2. PICK q : q = [[r EXCEPT !.at = "open"] EXCEPT !.behind = FALSE]
  OBVIOUS
<1>3. q \in UserRecords /\ q.copy = r.copy /\ q.made = r.made /\ q.missed = r.missed
  BY <1>2 DEF UserRecords
<1>4. user \in [Users -> UserRecords]
  BY DEF MemoryInv, MemoryTypeOK, UserRecords
<1>5. /\ user' = [user EXCEPT ![u] = q] /\ user[u].at = "loaded" /\ file' = Torn
      /\ UNCHANGED <<notes, acked, excused, losses>>
  BY <1>1, <1>2, <1>4 DEF Truncate
<1>6. losses' \in 0..MaxLosses
  BY <1>5 DEF MemoryInv, MemoryTypeOK
<1>7. QED BY <1>1, <1>3, <1>5, <1>6, MoveStep

LEMMA LoseStep ==
  ASSUME MemoryInv, NEW u \in Users, Lose(u)
  PROVE  MemoryInv'
<1>1. PICK r \in UserRecords : r = user[u]
  BY DEF MemoryInv, MemoryTypeOK, UserRecords
<1>2. PICK q : q = [r EXCEPT !.at = "failed"]
  OBVIOUS
<1>3. q \in UserRecords /\ q.at = "failed"
  BY <1>2 DEF UserRecords
<1>4. user \in [Users -> UserRecords]
  BY DEF MemoryInv, MemoryTypeOK, UserRecords
<1>5. user' = [user EXCEPT ![u] = q] /\ UNCHANGED <<file, notes, acked, excused>>
  BY <1>1, <1>2, <1>4 DEF Lose
<1>6. losses' \in 0..MaxLosses
  BY MemoryAssumption DEF Lose, MemoryInv, MemoryTypeOK
<1>7. QED BY <1>3, <1>5, <1>6, MoveStep

\* Who saves excuses what it had not seen, and the others miss what it made.
LEMMA SaveEnds ==
  ASSUME MemoryInv, NEW u \in Users, Write(u)
  PROVE  MemoryInv'
<1>t. /\ MemoryTypeOK /\ user \in [Users -> UserRecords] /\ notes \in Nat
      /\ acked \subseteq Members \X Numbers /\ excused \subseteq Numbers
      /\ file \in [ok : BOOLEAN, memory : Memory] /\ losses \in 0..MaxLosses
  BY DEF MemoryInv, MemoryTypeOK, UserRecords
<1>0. PICK r \in UserRecords : r = user[u]
  BY <1>t
<1>1. PICK mine : r = user[u] /\ mine = {n[2] : n \in r.made}
  BY <1>0
<1>2. /\ r.copy \in Memory /\ r.made \subseteq Members \X Numbers /\ r.missed \subseteq Numbers
      /\ r.at = "open"
  BY <1>1 DEF UserRecords, Write
<1>3. mine \subseteq Numbers
  BY <1>1, <1>2
<1>4. /\ file' = [ok |-> TRUE, memory |-> r.copy] \/ file' = Torn
      /\ acked' = acked \cup r.made /\ excused' = excused \cup r.missed
      /\ UNCHANGED <<notes, losses>>
  BY <1>1 DEF Write
<1>5. CopyKeeps(r)
  BY <1>1 DEF MemoryInv
<1>6. /\ Torn \in [ok : BOOLEAN, memory : Memory] /\ ~Torn.ok
      /\ \A m \in Members : Torn.memory[m].notes = <<>>
  <2>1. Unknown \in [role : Roles \cup {NoRole}, notes : Seq(Numbers)] /\ Unknown.notes = <<>>
    BY DEF Unknown
  <2>2. NoMemory \in Memory /\ \A m \in Members : NoMemory[m].notes = <<>>
    BY <2>1 DEF NoMemory, Memory
  <2>3. QED BY <2>2 DEF Torn
<1>7. file' \in [ok : BOOLEAN, memory : Memory]
  <2>1. [ok |-> TRUE, memory |-> r.copy] \in [ok : BOOLEAN, memory : Memory]
    BY <1>2
  <2>2. QED BY <1>4, <1>6, <2>1
<1>8. ASSUME NEW v \in Users
      PROVE  \E s \in UserRecords :
               /\ s = user'[v] /\ s.copy = user[v].copy /\ s.made = user[v].made
               /\ s.at \in {"loaded", "open"} =>
                    v # u /\ user[v].at \in {"loaded", "open"} /\ s.missed = user[v].missed \cup mine
  <2>1. PICK o \in UserRecords : o = user[v]
    BY <1>t
  <2>2. CASE v = u
    <3>1. PICK s : s = [o EXCEPT !.at = "saved"]
      OBVIOUS
    <3>2. s \in UserRecords /\ s.at = "saved" /\ s.copy = o.copy /\ s.made = o.made
      BY <3>1 DEF UserRecords
    <3>3. user'[v] = s
      BY <2>1, <2>2, <3>1 DEF Write
    <3>4. QED BY <2>1, <3>2, <3>3
  <2>3. CASE v # u
    <3>1. PICK missed, behind : /\ missed = IF o.at \in {"loaded", "open"} THEN o.missed \cup mine ELSE o.missed
                                /\ behind = (o.behind \/ o.at = "open")
      OBVIOUS
    <3>2. o.missed \subseteq Numbers /\ o.behind \in BOOLEAN
      BY DEF UserRecords
    <3>3. missed \in SUBSET Numbers /\ behind \in BOOLEAN
      BY <1>3, <3>1, <3>2
    <3>4. PICK s : s = [[o EXCEPT !.behind = behind] EXCEPT !.missed = missed]
      OBVIOUS
    <3>5. /\ s \in UserRecords /\ s.at = o.at /\ s.copy = o.copy /\ s.made = o.made
          /\ s.missed = missed
      BY <3>3, <3>4 DEF UserRecords
    <3>6. user'[v] = s
      <4>1. user'[v] = [user[v] EXCEPT !.behind = @ \/ user[v].at = "open",
                            !.missed = IF user[v].at \in {"loaded", "open"} THEN @ \cup mine ELSE @]
        BY <1>1, <2>3 DEF Write
      <4>2. o.missed = o.missed /\ [o EXCEPT !.behind = behind].missed = o.missed
        BY <3>4 DEF UserRecords
      <4>3. QED BY <2>1, <3>1, <3>4, <4>1, <4>2
    <3>7. QED BY <2>1, <2>3, <3>1, <3>5, <3>6
  <2>4. QED BY <2>2, <2>3
<1>9. user' \in [Users -> UserRecords]
  <2>1. DOMAIN user' = Users /\ user' = [v \in Users |-> user'[v]]
    BY DEF Write
  <2>2. QED BY <1>8, <2>1
<1>10. acked' \subseteq Members \X Numbers /\ excused' \subseteq Numbers
  BY <1>t, <1>2, <1>4
<1>11. MemoryTypeOK'
  BY <1>t, <1>4, <1>7, <1>9, <1>10 DEF MemoryTypeOK, UserRecords
<1>12. Tidy(file.memory)'
  <2>1. CASE file' = [ok |-> TRUE, memory |-> r.copy]
    <3>1. file'.memory = r.copy /\ Tidy(r.copy)
      BY <1>2, <1>5, <2>1 DEF CopyKeeps
    <3>2. QED BY <1>4, <3>1 DEF Tidy
  <2>2. CASE file' = Torn
    <3>1. \A n : Ascending(<<>>, n)
      BY MemoryAssumption DEF Ascending
    <3>2. QED BY <1>6, <2>2, <3>1 DEF Tidy
  <2>3. QED BY <1>4, <2>1, <2>2
<1>13. \A n \in acked' : n[2] <= notes'
  BY <1>2, <1>4, <1>5 DEF MemoryInv, CopyKeeps
<1>14. ASSUME file'.ok, NEW n \in acked' PROVE n[2] \in excused' \/ Survives(file'.memory[n[1]].notes, n[2])
  <2>1. file'.memory = r.copy
    BY <1>4, <1>6, <1>14
  <2>2. QED BY <1>2, <1>4, <1>5, <2>1, <1>14 DEF CopyKeeps
<1>15. ASSUME NEW v \in Users PROVE CopyKeeps(user[v])'
  <2>1. PICK s \in UserRecords, o \in UserRecords :
           /\ o = user[v] /\ s = user'[v] /\ s.copy = o.copy /\ s.made = o.made
           /\ s.at \in {"loaded", "open"} =>
                v # u /\ o.at \in {"loaded", "open"} /\ s.missed = o.missed \cup mine
    BY <1>t, <1>8
  <2>2. SUFFICES ASSUME s.at \in {"loaded", "open"} PROVE CopyKeeps(s)'
    BY <2>1 DEF CopyKeeps, Tidy
  <2>3. o.at \in {"loaded", "open"} /\ s.missed = o.missed \cup mine /\ CopyKeeps(o)
    BY <2>1, <2>2 DEF MemoryInv
  <2>4. Tidy(s.copy)'
    BY <1>4, <2>1, <2>3 DEF CopyKeeps, Tidy
  <2>5. ASSUME NEW n \in s.made PROVE n[2] <= notes' /\ Survives(s.copy[n[1]].notes, n[2])
    BY <1>4, <2>1, <2>3 DEF CopyKeeps
  <2>6. ASSUME NEW n \in acked' PROVE n[2] \in excused' \cup s.missed \/ Survives(s.copy[n[1]].notes, n[2])
    <3>1. CASE n \in r.made
      BY <1>1, <2>3, <3>1
    <3>2. CASE n \in acked
      BY <1>4, <2>1, <2>3, <3>2 DEF CopyKeeps
    <3>3. QED BY <1>4, <3>1, <3>2
  <2>7. QED BY <2>4, <2>5, <2>6 DEF CopyKeeps
<1>16. QED BY <1>11, <1>12, <1>13, <1>14, <1>15 DEF MemoryInv

\* A memory every node's notes of which are those of the file.
LEMMA SameNotes ==
  ASSUME MemoryInv, NEW copy \in Memory,
         \A m \in Members : copy[m].notes = file.memory[m].notes
  PROVE  /\ \A m \in Members : Ascending(copy[m].notes, notes + 0)
         /\ \A m \in {}, i \in (notes + 1)..(notes + 0) : Survives(copy[m].notes, i)
         /\ \A m \in Members, x \in Numbers :
              x <= notes /\ Survives(file.memory[m].notes, x) => Survives(copy[m].notes, x)
<1>1. notes + 0 = notes
  BY DEF MemoryInv, MemoryTypeOK
<1>2. QED BY <1>1 DEF MemoryInv, Tidy

LEMMA SetStep ==
  ASSUME MemoryInv, NEW u \in Users, NEW m \in Members, NEW role \in Roles, Set(u, m, role)
  PROVE  MemoryInv'
<1>1. file.memory \in Memory
  BY DEF MemoryInv, MemoryTypeOK
<1>2. PICK copy : copy = SetNode(file.memory, m, role)
  OBVIOUS
<1>3. copy \in Memory /\ \A k \in Members : copy[k].notes = file.memory[k].notes
  BY <1>1, <1>2, SetNodeIs
<1>4. Loads(u, copy, {}, 0)
  BY <1>2 DEF Set
<1>5. QED BY <1>3, <1>4, SameNotes, LoadsStep

LEMMA DiscoverStep ==
  ASSUME MemoryInv, NEW u \in Users, NEW reached \in SUBSET Members, NEW role \in Roles,
         Discover(u, reached, role)
  PROVE  MemoryInv'
<1>1. PICK memory \in Memory : memory = file.memory
  BY DEF MemoryInv, MemoryTypeOK
<1>2. PICK copy : copy = [m \in Members |-> IF m \in reached THEN SetNode(memory, m, role)[m] ELSE memory[m]]
  OBVIOUS
<1>3. ASSUME NEW m \in Members
      PROVE  /\ copy[m] \in [role : Roles \cup {NoRole}, notes : Seq(Numbers)]
             /\ copy[m].notes = memory[m].notes
  <2>1. SetNode(memory, m, role) \in Memory /\ SetNode(memory, m, role)[m].notes = memory[m].notes
    BY SetNodeIs
  <2>2. PICK new : new = SetNode(memory, m, role)
    OBVIOUS
  <2>3. copy[m] = IF m \in reached THEN new[m] ELSE memory[m]
    BY <1>2, <2>2
  <2>4. QED BY <2>1, <2>2, <2>3 DEF Memory
<1>4. copy \in Memory /\ \A k \in Members : copy[k].notes = file.memory[k].notes
  BY <1>1, <1>2, <1>3 DEF Memory
<1>5. Loads(u, copy, {}, 0)
  BY <1>1, <1>2 DEF Discover
<1>6. QED BY <1>4, <1>5, SameNotes, LoadsStep

LEMMA NotesStep ==
  ASSUME MemoryInv, NEW u \in Users, NEW m \in Members, TakeNote(u, m) \/ AutoNote(u, m)
  PROVE  MemoryInv'
<1>1. PICK found, copy :
        found \in Nat /\ copy = AddNotes(file.memory, m, found) /\ Loads(u, copy, {m}, found)
  <2>1. CASE TakeNote(u, m)
    BY <2>1 DEF TakeNote
  <2>2. CASE AutoNote(u, m)
    BY <2>2, MemoryAssumption DEF AutoNote, ExtractNotes
  <2>3. QED BY <2>1, <2>2
<1>2. /\ copy \in Memory
      /\ \A k \in Members : Ascending(copy[k].notes, notes + found)
      /\ \A k \in {m}, i \in (notes + 1)..(notes + found) : Survives(copy[k].notes, i)
      /\ \A k \in Members, x \in Numbers :
           x <= notes /\ Survives(file.memory[k].notes, x) => Survives(copy[k].notes, x)
  BY <1>1, AddNotesIs
<1>3. {m} \in SUBSET Members
  OBVIOUS
<1>4. QED BY <1>1, <1>2, <1>3, LoadsStep

LEMMA MemoryStep == MemoryInv /\ [MemoryNext]_memoryVars => MemoryInv'
<1> SUFFICES ASSUME MemoryInv, [MemoryNext]_memoryVars PROVE MemoryInv'
  OBVIOUS
<1>1. ASSUME NEW u \in Users, Read(u) \/ ResolveTargets(u) PROVE MemoryInv'
  <2>1. file.ok \in BOOLEAN
    BY DEF MemoryInv, MemoryTypeOK
  <2>2. PICK ok \in BOOLEAN : Reads(u, ok)
    <3>1. ASSUME NEW role \in Roles PROVE (file.ok /\ Find(file.memory, role) # {}) \in BOOLEAN
      BY <2>1
    <3>2. QED BY <1>1, <2>1, <3>1 DEF Read, ResolveTargets
  <2>3. QED BY <2>2, ReadsStep
<1>2. ASSUME UNCHANGED memoryVars PROVE MemoryInv'
  BY <1>2 DEF memoryVars, MemoryInv, MemoryTypeOK, Tidy, CopyKeeps
<1>3. QED BY <1>1, <1>2, SaveBegins, SaveEnds, LoseStep, NotesStep, SetStep, DiscoverStep
          DEF MemoryNext

\* What MemoryInv says of a file that parses is NotesSurvive.
LEMMA MemoryKeeps == MemoryInv => NotesSurvive
<1> SUFFICES ASSUME MemoryInv, file.ok, NEW n \in acked
             PROVE  \/ n[2] \in excused
                    \/ Contains(file.memory[n[1]].notes, n[2])
                    \/ /\ Len(file.memory[n[1]].notes) = NoteLimit
                       /\ \A i \in DOMAIN file.memory[n[1]].notes : file.memory[n[1]].notes[i] > n[2]
  BY DEF NotesSurvive
<1>1. PICK s : s = file.memory[n[1]].notes
  OBVIOUS
<1>2. s \in Seq(Numbers)
  BY <1>1 DEF MemoryInv, MemoryTypeOK, Memory
<1>3. DOMAIN s = 1..Len(s)
  BY <1>2
<1>4. n[2] \in excused \/ Survives(s, n[2])
  BY <1>1 DEF MemoryInv
<1>5. QED BY <1>1, <1>3, <1>4 DEF Survives

\* For any number of users, nodes and notes: an acknowledged note stays until
\* newer ones have pushed it out, or is lost only to a save by someone who had
\* read the file before (Load, Save, SetNode, AddNote of internal/fleet).
THEOREM NotesAreKept == MemorySpec => []NotesSurvive
<1>1. MemorySpec => []MemoryInv
  BY MemoryInitially, MemoryStep, PTL DEF MemorySpec
<1>2. QED BY <1>1, MemoryKeeps, PTL

----------------------------------------------------------------------------
(* The parts together.                                                     *)

LEMMA HostComponents ==
  MCSpec => Spec /\ DialSpec /\ MemorySpec /\ TunnelSpec /\ KeySpec /\ AgentSpec
<1>1. MCInit => Init /\ DialInit /\ MemoryInit /\ TunnelInit /\ KeyInit /\ AgentInit
  BY DEF MCInit
<1>2. [MCNext]_<<part, vars, dialVars, memoryVars, tunnelVars, keyVars, agentVars>> =>
        /\ [Next]_vars /\ [DialNext]_dialVars /\ [MemoryNext]_memoryVars
        /\ [TunnelNext]_tunnelVars /\ [KeyNext]_keyVars /\ [AgentNext]_agentVars
  BY DEF MCNext
<1>3. QED BY <1>1, <1>2, PTL DEF MCSpec, Spec, DialSpec, MemorySpec, TunnelSpec, KeySpec, AgentSpec

\* Every variable of the six models keeps its type; with the peers that the
\* sources name, the candidates CandidateHosts makes of them are hosts.
THEOREM HostTypes == MCSpec => []AllTypeOK
<1>1. Spec => []TypeOK
  <2>1. AuditInv => TypeOK
    BY DEF AuditInv
  <2>2. QED BY <2>1, BoundAssumption, AuditInvInit, AuditInvStep, PTL DEF Spec
<1>2. DialSpec => []DialTypeOK
  <2>1. DialTypesInv => DialTypeOK
    BY DEF DialTypesInv
  <2>2. QED BY <2>1, DialTypesHold, PTL
<1>3. MemorySpec => []MemoryTypeOK
  <2>1. MemoryInv => MemoryTypeOK
    BY DEF MemoryInv
  <2>2. QED BY <2>1, MemoryInitially, MemoryStep, PTL DEF MemorySpec
<1>4. TunnelSpec => []TunnelTypeOK
  <2>1. TunnelRecordsInv => TunnelTypeOK
    BY DEF TunnelRecordsInv
  <2>2. QED BY <2>1, TunnelAssumption, TunnelInvInit, TunnelInvStep, PTL DEF TunnelSpec
<1>5. KeySpec => []KeyTypeOK
  <2>1. KeyInv => KeyTypeOK
    BY DEF KeyInv
  <2>2. QED BY <2>1, KeyInitially, KeyStep, KeyAssumption, PTL DEF KeySpec
<1>6. QED
  BY <1>1, <1>2, <1>3, <1>4, <1>5, AgentTypes, HostComponents, PTL DEF AllTypeOK
=============================================================================
