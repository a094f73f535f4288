------------------------------- MODULE Routing -------------------------------
(***************************************************************************)
(* The choice of a host for a command (cmd/vssh/mcp_routing.go: selectRoute *)
(* behind vssh_route_select and vssh_exec_routed) from the records it has   *)
(* of the hosts (mcp_hostrecord.go: listHostRecords).                       *)
(*                                                                         *)
(* A record is put together from what a provider reported of the host some *)
(* time ago and, if the request asks for it, from what its monitor answers *)
(* when it is asked: one host after the other.  Hosts are numbered in the  *)
(* order of their names.  Wording and case are left out.                   *)
(***************************************************************************)
EXTENDS Integers, FiniteSets, FiniteSetsExt

CONSTANTS HostCount,
          Reports,     \* what the provider may report of a host
          Requests     \* what may be asked for

Hosts    == 1..HostCount
HealthStates == {"online", "unknown", "stale", "degraded", "offline"}
Monitors == {"none", "fine", "pressed", "broken", "silent"}

\* A report: whether the host is online if the provider says so, when it was
\* last seen if it says so, whether disk or memory are nearly full, and the
\* tags and capabilities given in the configuration.
ASSUME ReportAssumption == Reports # {} /\ \A r \in Reports :
  /\ r.online \in {"yes", "no", "unsaid"}
  /\ r.seen \in {"lately", "before", "unsaid"}
  /\ r.full \in BOOLEAN

ASSUME RequestAssumption == Requests # {} /\ \A r \in Requests :
  /\ IsFiniteSet(r.required) /\ IsFiniteSet(r.preferred)
  /\ r.avoid \subseteq HealthStates
  /\ r.live \in BOOLEAN
  /\ r.target \in Hosts \cup {0}

ASSUME HostAssumption == HostCount \in Nat \ {0}

VARIABLES
  request,   \* the request, if there was one
  listed,    \* the report and the monitor's answer behind each record
  route      \* the decision: its host, 0 if there is none

routeVars == <<request, listed, route>>

NotListed == [report |-> CHOOSE r \in Reports : TRUE, monitor |-> "none", is |-> FALSE]

RouteTypeOK ==
  /\ request \in [at : {"none", "listing", "listed", "decided", "run"}, of : Requests]
  /\ listed \in [Hosts -> [report : Reports, monitor : Monitors, is : BOOLEAN]]
  /\ route \in Hosts \cup {0}

RouteInit ==
  /\ request = [at |-> "none", of |-> CHOOSE r \in Requests : TRUE]
  /\ listed = [h \in Hosts |-> NotListed]
  /\ route = 0

----------------------------------------------------------------------------
(* The record of a host.                                                   *)

\* buildHealthRecord: a host seen in the last minute is online, whatever the
\* provider says; an online host short of disk or memory is degraded.
Reported(r) ==
  LET said == CASE r.online = "yes" -> "online" [] r.online = "no" -> "offline" [] OTHER -> "unknown"
      seen == IF r.seen = "lately" THEN "online"
              ELSE IF r.seen = "before" /\ said = "unknown" THEN "stale" ELSE said
  IN IF r.full /\ seen = "online" THEN "degraded" ELSE seen

\* fetchLiveMonitorHealth and mergeLiveHealth: the monitor's answer goes over
\* the reported status, unless there is no monitor.
HealthOf(l) ==
  CASE l.monitor = "none"   -> Reported(l.report)
    [] l.monitor = "fine"   -> "online"
    [] l.monitor = "silent" -> "offline"
    [] OTHER                -> "degraded"

\* Tags and capabilities given, and the capabilities that go with a tag.
Capabilities(r) ==
  r.capabilities \cup (IF "gpu" \in r.tags THEN {"gpu", "cuda"} ELSE {})
                 \cup (IF "ollama" \in r.tags THEN {"ollama"} ELSE {})

----------------------------------------------------------------------------
(* The choice.                                                             *)

Missing(h) == request.of.required \ Capabilities(listed[h].report)

Weight(status) ==
  CASE status = "online" -> 20 [] status = "unknown" -> 0 [] status = "stale" -> -10
    [] status = "degraded" -> -50 [] OTHER -> -1000

\* Mutant: a health state to avoid outweighs one capability only.
Score_AvoidLight(h) ==
  LET r == request.of  status == HealthOf(listed[h]) IN
    100 * Cardinality(r.required \ Missing(h)) - 1000 * Cardinality(Missing(h))
    + 10 * Cardinality(r.preferred \cap listed[h].report.tags)
    + Weight(status) - (IF status \in r.avoid THEN 100 ELSE 0)
    - (IF r.target \notin {0, h} THEN 10000 ELSE 0)

\* scoreRouteCandidate, and what selectRoute takes off hosts that are not the
\* one asked for.
Score(h) ==
  LET r == request.of  status == HealthOf(listed[h]) IN
    100 * Cardinality(r.required \ Missing(h)) - 1000 * Cardinality(Missing(h))
    + 10 * Cardinality(r.preferred \cap listed[h].report.tags)
    + Weight(status) - (IF status \in r.avoid THEN 1000 ELSE 0)
    - (IF r.target \notin {0, h} THEN 10000 ELSE 0)

\* The highest score, the first name among those that have it.
Best == Min({h \in Hosts : \A g \in Hosts : Score(g) <= Score(h)})

Ask ==
  /\ request.at = "none"
  /\ \E r \in Requests : request' = [at |-> "listing", of |-> r]
  /\ UNCHANGED <<listed, route>>

\* listHostRecords: the next host.
ListHost(h) ==
  /\ request.at = "listing"
  /\ ~listed[h].is /\ \A g \in 1..(h - 1) : listed[g].is
  /\ \E r \in Reports, m \in IF request.of.live THEN Monitors ELSE {"none"} :
       listed' = [listed EXCEPT ![h] = [report |-> r, monitor |-> m, is |-> TRUE]]
  /\ request' = IF h = HostCount THEN [request EXCEPT !.at = "listed"] ELSE request
  /\ UNCHANGED route

\* selectRoute: the best candidate, unless even that one will not do.
SelectRoute ==
  /\ request.at = "listed"
  /\ route' = IF Missing(Best) # {} \/ Score(Best) < 0 THEN 0 ELSE Best
  /\ request' = [request EXCEPT !.at = "decided"]
  /\ UNCHANGED listed

\* toolExecRouted runs the command there, and nowhere else if that fails.
ExecRouted ==
  /\ request.at = "decided" /\ route # 0
  /\ request' = [request EXCEPT !.at = "run"]
  /\ UNCHANGED <<listed, route>>

RouteNext == Ask \/ (\E h \in Hosts : ListHost(h)) \/ SelectRoute \/ ExecRouted

RouteSpec == RouteInit /\ [][RouteNext]_routeVars

----------------------------------------------------------------------------
\* What is known of a host, told apart from the scores.
Down(l) ==
  \/ l.monitor = "silent"
  \/ l.monitor = "none" /\ l.report.online = "no" /\ l.report.seen # "lately"
Strained(l) ==
  \/ l.monitor \in {"pressed", "broken"}
  \/ l.monitor = "none" /\ l.report.full /\ (l.report.seen = "lately" \/ l.report.online = "yes")
Sure(l) ==
  /\ ~Down(l) /\ ~Strained(l)
  /\ l.monitor = "fine" \/ l.report.seen # "before" \/ l.report.online = "yes"

\* The host meets every constraint of the request.
Qualified(h) ==
  LET l == listed[h]  r == request.of IN
  /\ r.target \in {0, h}
  /\ Missing(h) = {}
  /\ ~Down(l) /\ (Strained(l) => "degraded" \notin r.avoid)

\* What can be gained by capabilities and tags stays below what is taken off
\* for one constraint that is not met.
Modest == 100 * Cardinality(request.of.required) + 10 * Cardinality(request.of.preferred) + 20 < 1000

\* The sums of weights decide as the constraints do, for requests that are
\* modest: the host chosen has every required capability, is the one asked
\* for, is not down and not in a state to avoid; among hosts as healthy as it,
\* none has more of the preferred tags; and a host that meets the constraints
\* and is not in doubt is not passed over for "no host satisfies route
\* constraints" (selectRoute).
RouteServes ==
  request.at \in {"decided", "run"} /\ Modest =>
    IF route = 0 THEN \A h \in Hosts : Qualified(h) /\ Sure(listed[h]) => HealthOf(listed[h]) \in request.of.avoid
    ELSE /\ Qualified(route) /\ HealthOf(listed[route]) \notin request.of.avoid
         /\ \A h \in Hosts : Qualified(h) /\ HealthOf(listed[h]) = HealthOf(listed[route]) =>
              LET Preferred(g) == request.of.preferred \cap listed[g].report.tags
              IN Cardinality(Preferred(h)) <= Cardinality(Preferred(route))
=============================================================================
