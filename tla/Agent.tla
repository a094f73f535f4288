-------------------------------- MODULE Agent --------------------------------
(***************************************************************************)
(* The monitoring agent of `vssh agent` (internal/agent): its loop, which  *)
(* collects, evaluates and acts once an interval, and the HTTP handler of  *)
(* /health, which tells from what the loop last found whether all is well. *)
(*                                                                         *)
(* A probe of a node tries its paths in order, and each may take two       *)
(* seconds: a round may outlast many intervals.  What comes of a probe is  *)
(* up to the network.  The events the agent writes are read by no one      *)
(* here; those it reads come from elsewhere and name public keys.          *)
(***************************************************************************)
EXTENDS Naturals, FiniteSets

CONSTANTS Watched,     \* the nodes, other than the agent's own
          PublicKeys,  \* what a peer_state_change event names
          NoPath,
          Interval,    \* in units of time
          MinAttempts, \* attempts before the rate of success counts, 5
          MaxTimeouts, \* timeouts that are no problem, 3
          MaxTime      \* bound

ASSUME AgentAssumption ==
  /\ Interval \in Nat \ {0} /\ MinAttempts \in Nat /\ MaxTimeouts \in Nat /\ MaxTime \in Nat

Paths == {"wire", "lan", "public", "tailscale"}

VARIABLES
  paths,    \* the paths each node has an address for
  stats,
  reported, \* the keys reported stale or disconnected in the last five minutes
  hints,    \* unreachable
  phase,    \* where the loop is
  left,     \* the nodes the round still has to probe, or to find a path for
  problems,
  healthy, lastRun,
  now, ticker, pending, \* the time, when the ticker fires next, and its channel
  query,    \* the handler of /health
  rounds,   \* history: rounds begun, and when one last ended without a problem
  wellAt

agentVars == <<paths, stats, reported, hints, phase, left, problems, healthy, lastRun, now, ticker,
               pending, query, rounds, wellAt>>
loop  == <<phase, left, problems, healthy, lastRun, rounds, wellAt>>
clock == <<now, ticker, pending>>

NoStats == [attempts |-> 0, successes |-> 0, timeouts |-> 0, best |-> NoPath]
NoQuery == [at |-> "idle", healthy |-> FALSE, rounds |-> 0, answer |-> "none"]

AgentTypeOK ==
  /\ paths \in [Watched -> SUBSET Paths]
  /\ stats \in [Watched -> [attempts : 0..MaxTime, successes : 0..MaxTime, timeouts : 0..MaxTime,
                            best : Paths \cup {NoPath}]]
  /\ reported \subseteq PublicKeys /\ hints \subseteq PublicKeys
  /\ phase \in {"wait", "collect", "evaluate", "act"}
  /\ left \subseteq Watched /\ problems \subseteq Watched
  /\ healthy \in BOOLEAN /\ pending \in BOOLEAN
  /\ {lastRun, now, wellAt} \subseteq 0..MaxTime /\ ticker \in 1..(MaxTime + Interval)
  /\ rounds \in 0..MaxTime
  /\ query \in [at : {"idle", "read", "answered"}, healthy : BOOLEAN, rounds : 0..MaxTime,
                answer : {"none", "ok", "degraded", "stale"}]

AgentInit ==
  /\ paths \in [Watched -> {{"wire", "lan"}, {"tailscale"}}]
  /\ stats = [n \in Watched |-> NoStats]
  /\ reported = {} /\ hints = {}
  /\ phase = "wait" /\ left = {} /\ problems = {}
  /\ healthy = TRUE /\ lastRun = 0
  /\ now = 0 /\ ticker = Interval /\ pending = FALSE
  /\ query = NoQuery
  /\ rounds = 0 /\ wellAt = 0

----------------------------------------------------------------------------
\* The round begins: readEventHints replaces the hints by those in the log;
\* if it cannot be read, those of the last round stay.
Collect ==
  /\ phase = "wait" /\ pending
  /\ pending' = FALSE
  /\ lastRun' = now
  /\ rounds' = rounds + 1
  /\ hints' \in {hints, reported}
  /\ phase' = "collect" /\ left' = Watched
  /\ UNCHANGED <<paths, stats, reported, problems, healthy, now, ticker, query, wellAt>>

\* What a probe finds: any path of the node, or none.  The hints are kept by
\* public key and looked up by name.
Found(n) == (paths[n] \ IF n \in hints THEN {"wire"} ELSE {}) \cup {NoPath}

\* collectState, for one node.
Probe1(n) ==
  /\ phase = "collect" /\ n \in left
  /\ \E path \in Found(n) :
       stats' = [stats EXCEPT ![n] =
         [attempts  |-> @.attempts + 1,
          successes |-> IF path = NoPath THEN @.successes ELSE @.successes + 1,
          timeouts  |-> IF path = NoPath THEN @.timeouts + 1 ELSE @.timeouts,
          best      |-> IF path = NoPath THEN @.best ELSE path]]
  /\ left' = left \ {n}
  /\ phase' = IF left' = {} THEN "evaluate" ELSE "collect"
  /\ UNCHANGED <<paths, reported, hints, problems, healthy, lastRun, clock, query, rounds, wellAt>>

Troubled(n) ==
  \/ stats[n].attempts > MinAttempts /\ 2 * stats[n].successes < stats[n].attempts
  \/ stats[n].timeouts > MaxTimeouts

\* evaluate.
Evaluate ==
  /\ phase = "evaluate"
  /\ problems' = {n \in Watched : Troubled(n)}
  /\ phase' = "act" /\ left' = problems'
  /\ UNCHANGED <<paths, stats, reported, hints, healthy, lastRun, clock, query, rounds, wellAt>>

\* act, for one node: findBestPath ends with the public path, whether the
\* node has one or not.
Act(n) ==
  /\ phase = "act" /\ n \in left
  /\ \E path \in Found(n) : stats' = [stats EXCEPT ![n].best = IF path = NoPath THEN "public" ELSE path]
  /\ left' = left \ {n}
  /\ UNCHANGED <<paths, reported, hints, phase, problems, healthy, lastRun, clock, query, rounds, wellAt>>

\* tick ends.
EndRound ==
  /\ phase = "act" /\ left = {}
  /\ healthy' = (problems = {})
  /\ wellAt' = IF problems = {} THEN now ELSE wellAt
  /\ phase' = "wait"
  /\ UNCHANGED <<paths, stats, reported, hints, left, problems, lastRun, clock, query, rounds>>

----------------------------------------------------------------------------
\* handleHealth reads whether the agent is healthy ...
IsHealthy ==
  /\ query.at # "read"
  /\ query' = [at |-> "read", healthy |-> healthy, rounds |-> rounds, answer |-> "none"]
  /\ UNCHANGED <<paths, stats, reported, hints, loop, clock>>

\* Mutant: stale after three intervals.
IsStale_Later == now - lastRun > 3 * Interval

IsStale == now - lastRun > 2 * Interval

\* ... and then when it last ran.  Before the first round it never did.
LastRun ==
  /\ query.at = "read"
  /\ query' = [query EXCEPT !.at = "answered",
                 !.answer = IF rounds = 0 \/ IsStale THEN "stale"
                            ELSE IF query.healthy THEN "ok" ELSE "degraded"]
  /\ UNCHANGED <<paths, stats, reported, hints, loop, clock>>

\* Somebody reports a peer, or a report is older than five minutes.
Report(k) ==
  /\ reported' \in {reported \cup {k}, reported \ {k}}
  /\ UNCHANGED <<paths, stats, hints, loop, clock, query>>

\* Time passes while the loop waits for the ticker or for the network, and
\* not in the middle of a query.  The channel of the ticker holds one tick.
Elapse ==
  /\ now < MaxTime /\ query.at # "read"
  /\ \/ phase = "wait" /\ ~pending
     \/ phase \in {"collect", "act"} /\ left # {}
  /\ now' = now + 1
  /\ IF now' = ticker THEN pending' = TRUE /\ ticker' = ticker + Interval ELSE UNCHANGED <<pending, ticker>>
  /\ query' = NoQuery
  /\ UNCHANGED <<paths, stats, reported, hints, loop>>

AgentNext ==
  \/ Collect \/ Evaluate \/ EndRound \/ IsHealthy \/ LastRun \/ Elapse
  \/ \E n \in Watched : Probe1(n) \/ Act(n)
  \/ \E k \in PublicKeys : Report(k)

AgentSpec == AgentInit /\ [][AgentNext]_agentVars

----------------------------------------------------------------------------
\* An agent that answers "ok" has found no problem in a round that ended at
\* most three intervals ago, however long its rounds take; unless it is in
\* its first round, or began another one between the two reads of the
\* handler (tick, handleHealth).
OkIsRecent ==
  query.answer = "ok" /\ rounds > 1 /\ query.rounds = rounds => now - wellAt <= 3 * Interval
=============================================================================
