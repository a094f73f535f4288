------------------------------ MODULE Workflow ------------------------------
(***************************************************************************)
(* A workflow run: Workflow.Run of internal/workflow/engine.go, its record *)
(* (store.go) and the commands around them (cmd/vssh/commands_workflow.go, *)
(* mcp_workflow.go).                                                       *)
(*                                                                         *)
(* A workflow is any sequence of steps a user may write: ids may repeat,   *)
(* a failing step may name any step, itself or an earlier one included.    *)
(* The command of a step succeeds or fails as it likes.  The record of the *)
(* run is written once, after the last step, by truncating and writing.    *)
(***************************************************************************)
EXTENDS Naturals, Sequences, SequencesExt

CONSTANTS StepIds,      \* the ids steps have
          Unknown,      \* an on_fail target that is no step
          MaxSteps,     \* bound: steps of a workflow
          HopFactor,    \* the engine's hop limit is HopFactor per step ...
          HopMargin     \* ... and HopMargin (4 and 8 in the code)

ASSUME WorkflowAssumption == MaxSteps \in Nat /\ HopFactor \in Nat \ {0} /\ HopMargin \in Nat

Policies == {"continue", "abort"} \cup StepIds \cup {Unknown}
Steps    == [id : StepIds, type : {"exec"}, onFail : Policies]
              \cup [id : StepIds, type : {"summary"}, onFail : {"continue"}]

VARIABLES
  flow,     \* the workflow's steps
  dryRun,   \* no command is run
  next,     \* the loop's index
  trail,    \* StepResults so far: the index of the step and what came of it
  verdict,  \* RunResult.Status
  phase,    \* "running", "saving", "saved", or "unsaved": it died, or its write failed
  file,     \* what the run's file holds
  asked     \* the answer of a `workflow status`

flowVars == <<flow, dryRun, next, trail, verdict, phase, file, asked>>

Run == [status |-> verdict, steps |-> trail]

Absent  == [status |-> "none", steps |-> <<>>]
Partial == [status |-> "unreadable", steps |-> <<>>]

Actions == {"ok", "continued", "aborted", "jumped", "skipped"}

FlowTypeOK ==
  /\ flow \in Seq(Steps)
  /\ dryRun \in BOOLEAN
  /\ next \in 1..Len(flow) + 1
  /\ trail \in Seq([step : 1..Len(flow), action : Actions])
  /\ verdict \in {"success", "failed", "aborted"}
  /\ phase \in {"running", "saving", "saved", "unsaved"}
  /\ file \in {Absent, Partial, Run}
  /\ asked \in {Absent, Run}

FlowInit ==
  /\ flow \in UNION {[1..n -> Steps] : n \in 1..MaxSteps}
  /\ dryRun \in BOOLEAN
  /\ next = 1
  /\ trail = <<>>
  /\ verdict = "success"
  /\ phase = "running"
  /\ file = Absent
  /\ asked = Absent

----------------------------------------------------------------------------
MaxHops == Len(flow) * HopFactor + HopMargin

Looping == phase = "running" /\ next <= Len(flow) /\ Len(trail) < MaxHops

\* Where a step id leads: a repeated id means its last step.
Index(id) == SelectLastInSeq(flow, LAMBDA s : s.id = id)

Recorded(action) == trail' = Append(trail, [step |-> next, action |-> action])

\* A summary step, a dry run, and a command that succeeds go on to the next.
Proceed ==
  /\ Looping
  /\ Recorded(IF flow[next].type = "exec" /\ dryRun THEN "skipped" ELSE "ok")
  /\ next' = next + 1
  /\ UNCHANGED <<flow, dryRun, verdict, phase, file, asked>>

Failing == Looping /\ flow[next].type = "exec" /\ ~dryRun

Tolerate ==
  /\ Failing /\ flow[next].onFail = "continue"
  /\ Recorded("continued")
  /\ next' = next + 1
  /\ UNCHANGED <<flow, dryRun, verdict, phase, file, asked>>

\* "abort", or a target no step has.
Abort ==
  /\ Failing
  /\ flow[next].onFail = "abort" \/ (flow[next].onFail # "continue" /\ Index(flow[next].onFail) = 0)
  /\ Recorded("aborted")
  /\ verdict' = "aborted"
  /\ next' = Len(flow) + 1
  /\ UNCHANGED <<flow, dryRun, phase, file, asked>>

\* Mutant: the jump leaves the status as it is.
Jump_KeepsStatus ==
  /\ Failing /\ Index(flow[next].onFail) # 0
  /\ Recorded("jumped")
  /\ next' = Index(flow[next].onFail)
  /\ UNCHANGED <<flow, dryRun, verdict, phase, file, asked>>

Jump ==
  /\ Failing /\ Index(flow[next].onFail) # 0
  /\ Recorded("jumped")
  /\ verdict' = IF verdict = "success" THEN "failed" ELSE verdict
  /\ next' = Index(flow[next].onFail)
  /\ UNCHANGED <<flow, dryRun, phase, file, asked>>

\* The loop is over: SaveRun truncates the run's file ...
Save ==
  /\ phase = "running" /\ ~Looping
  /\ phase' = "saving"
  /\ file' = Partial
  /\ UNCHANGED <<flow, dryRun, next, trail, verdict, asked>>

\* ... and writes the record.
Saved ==
  /\ phase = "saving"
  /\ phase' = "saved"
  /\ file' = Run
  /\ UNCHANGED <<flow, dryRun, next, trail, verdict, asked>>

\* The process, a command line or an MCP server, dies, or the record cannot be
\* written: the run goes on to print its result with a warning.
Die ==
  /\ phase \in {"running", "saving"}
  /\ phase' = "unsaved"
  /\ UNCHANGED <<flow, dryRun, next, trail, verdict, file, asked>>

\* `workflow status`, in another process: a partial file does not parse.
Status ==
  /\ asked' = IF file = Partial THEN Absent ELSE file
  /\ asked' # asked
  /\ UNCHANGED <<flow, dryRun, next, trail, verdict, phase, file>>

FlowNext == Proceed \/ Tolerate \/ Abort \/ Jump \/ Save \/ Saved \/ Die \/ Status

FlowSpec == FlowInit /\ [][FlowNext]_flowVars

----------------------------------------------------------------------------
Did(action) == {trail[k].step : k \in {k \in DOMAIN trail : trail[k].action = action}}

\* What the status of a finished run says, for any workflow (Workflow.Run):
\* success means that every step ran once, in order, and failed only where the
\* workflow tolerates it; a jump or an abort is never reported as success, not
\* even when the run ends at the hop limit; nothing runs after an abort.  And
\* `workflow status` answers with such a record or not at all.
StatusIsTruthful ==
  /\ phase = "saved" =>
       /\ verdict = "success" <=> \A k \in DOMAIN trail : trail[k].action \notin {"jumped", "aborted"}
       /\ verdict = "success" => [k \in DOMAIN trail |-> trail[k].step] = [k \in 1..Len(flow) |-> k]
       /\ verdict = "aborted" <=> Did("aborted") # {}
  /\ \A k \in DOMAIN trail : trail[k].action = "aborted" => k = Len(trail)
  /\ asked # Absent => phase = "saved" /\ asked = Run
=============================================================================
