------------------------------- MODULE MCWork -------------------------------
(***************************************************************************)
(* TLC instance of the ways work is run for a user on a daemon: background *)
(* jobs (JobRegistry), `vssh run-async` on top of them (RunAsync), an      *)
(* interactive shell (ShellSession), a workflow (Workflow) and a command   *)
(* for a host that is chosen for it (Routing).  A behaviour is about one   *)
(* of them; the parts it is not about stay as they began.                  *)
(***************************************************************************)
EXTENDS RunAsync, ShellSession, Workflow, Routing

VARIABLE way  \* "jobs", "async", "shell", "workflow" or "route"

parts == <<vars, asyncVars, shellVars, flowVars, routeVars>>

Nine == {"c1", "c2", "c3", "c4", "c5", "c6", "c7", "c8", "c9"}

\* Hosts with and without what is asked for; their reports go from fresh and
\* good to none at all.
MCReports ==
  {[online |-> o[1], seen |-> o[2], full |-> o[3], tags |-> c[1], capabilities |-> c[2]] :
     o \in {<<"yes", "unsaid", FALSE>>, <<"yes", "before", TRUE>>, <<"no", "before", FALSE>>,
            <<"no", "lately", FALSE>>, <<"unsaid", "before", TRUE>>, <<"unsaid", "unsaid", FALSE>>},
     c \in {<<{"gpu"}, {}>>, <<{"linux"}, Nine>>}}

\* What is required, preferred and to be avoided: up to as many capabilities
\* as a request can have before their sum outweighs a constraint.
MCRequests ==
  {[required |-> c[1], preferred |-> c[2], avoid |-> c[3], live |-> l, target |-> t] :
     c \in {<<{}, {"gpu"}, {"offline", "degraded"}>>, <<{"cuda"}, {}, {"offline"}>>,
            <<Nine, {"linux"}, {"offline", "degraded"}>>, <<Nine, {}, {}>>,
            <<{}, {}, {"unknown"}>>},
     l \in BOOLEAN, t \in {0, 2}}

AllTypeOK == TypeOK /\ AsyncTypeOK /\ ShellTypeOK /\ FlowTypeOK /\ RouteTypeOK

MCInit ==
  /\ way \in {"jobs", "async", "shell", "workflow", "route"}
  /\ Init /\ AsyncInit /\ ShellInit /\ RouteInit
  /\ FlowInit /\ (way # "workflow" => dryRun /\ flow = CHOOSE f \in [1..1 -> Steps] : TRUE)

MCNext ==
  /\ UNCHANGED way
  /\ way \notin {"jobs", "async"} => UNCHANGED vars
  /\ way # "async" => UNCHANGED asyncVars
  /\ way # "shell" => UNCHANGED shellVars
  /\ way # "workflow" => UNCHANGED flowVars
  /\ way # "route" => UNCHANGED routeVars
  /\ \/ way = "jobs"     /\ Next
     \/ way = "async"    /\ AsyncNext
     \/ way = "shell"    /\ ShellNext
     \/ way = "workflow" /\ FlowNext
     \/ way = "route"    /\ RouteNext

MCSpec ==
  /\ MCInit /\ [][MCNext]_<<way, parts>>
  /\ Fairness
  /\ WF_shellVars(way = "shell" /\ ShellFairStep)

\* What is told to end is seen to end: a canceled job, and the shell at its
\* client (shellCommandContext, handleConnection, Connect).
WorkEnds == CancelEnds /\ ExitIsSeen
=============================================================================
