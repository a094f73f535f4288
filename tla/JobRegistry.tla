---------------------------- MODULE JobRegistry ----------------------------
(***************************************************************************)
(* The daemon's background jobs: internal/server/jobs.go.                  *)
(*                                                                         *)
(* job_start registers a record and leaves a goroutine (runJob) behind     *)
(* that runs the shell and records the verdict.  The RPCs job_status,      *)
(* job_logs and job_cancel read that record while runJob, the shell, its   *)
(* descendants and the copying of their output go on.                      *)
(*                                                                         *)
(* exec.Cmd is modelled from its use: Run starts nothing under a canceled  *)
(* context, kills the shell (not its descendants) when the context is      *)
(* canceled, and returns once both output pipes reached EOF.               *)
(***************************************************************************)
EXTENDS Naturals

CONSTANTS Jobs,       \* the job ids
          Clients,    \* the RPC callers, one call at a time each
          MaxOutput,  \* bound: lines a job writes on each stream
          MaxCalls    \* bound: RPCs a client makes

ASSUME BoundAssumption == MaxOutput \in Nat /\ MaxCalls \in Nat

VARIABLES
  status,    \* jobRecord.info.Status, "none" before the id is registered
  task,      \* the goroutine runJob
  shell,     \* the process it runs
  forked,    \* a descendant of the shell still holds the output pipes
  canceled,  \* the job's context is canceled
  written,   \* lines the command wrote, per stream
  buffered,  \* lines of it in jobRecord.stdout and .stderr
  rpc,       \* the RPC each client has in progress, and its reply
  calls      \* how many RPCs each client made

process == <<task, shell, forked, written, buffered>>
vars == <<status, process, canceled, rpc, calls>>

Streams  == {"out", "err"}
Verdicts == {"succeeded", "failed", "canceled"}
Statuses == {"none", "running"} \cup Verdicts

\* info is the snapshot a reply carries, logs the text that goes with it.
RPCs == [op : {"start", "status", "logs", "cancel"}, job : Jobs,
         at : {"check", "cancel", "snapshot", "out", "err", "done"},
         seen : Statuses, info : Statuses, logs : [Streams -> Nat]]

Idle == [op |-> "none", at |-> "idle"]

TypeOK ==
  /\ status \in [Jobs -> Statuses]
  /\ task \in [Jobs -> {"none", "spawned", "running", "returned", "done"}]
  /\ shell \in [Jobs -> {"none", "alive", "ok", "failed", "killed"}]
  /\ forked \in [Jobs -> BOOLEAN]
  /\ canceled \in [Jobs -> BOOLEAN]
  /\ written \in [Jobs -> [Streams -> 0..MaxOutput]]
  /\ buffered \in [Jobs -> [Streams -> 0..MaxOutput]]
  /\ rpc \in [Clients -> RPCs \cup {Idle}]
  /\ calls \in [Clients -> 0..MaxCalls]

Silent == [s \in Streams |-> 0]

Init ==
  /\ status = [j \in Jobs |-> "none"]
  /\ task = [j \in Jobs |-> "none"]
  /\ shell = [j \in Jobs |-> "none"]
  /\ forked = [j \in Jobs |-> FALSE]
  /\ canceled = [j \in Jobs |-> FALSE]
  /\ written = [j \in Jobs |-> Silent]
  /\ buffered = [j \in Jobs |-> Silent]
  /\ rpc = [w \in Clients |-> Idle]
  /\ calls = [w \in Clients |-> 0]

----------------------------------------------------------------------------
(* runJob and the process it runs.                                         *)

\* cmd.Run: nothing starts under a canceled context or without a shell.
RunStarts(j) ==
  /\ task[j] = "spawned"
  /\ \/ ~canceled[j] /\ task' = [task EXCEPT ![j] = "running"]
                     /\ shell' = [shell EXCEPT ![j] = "alive"]
     \/ task' = [task EXCEPT ![j] = "returned"] /\ UNCHANGED shell
  /\ UNCHANGED <<status, forked, canceled, written, buffered, rpc, calls>>

Write(j, s) ==
  /\ shell[j] = "alive" \/ forked[j]
  /\ written[j][s] < MaxOutput
  /\ written' = [written EXCEPT ![j][s] = @ + 1]
  /\ UNCHANGED <<status, task, shell, forked, canceled, buffered, rpc, calls>>

\* The shell starts a process that inherits its stdout and stderr.
Fork(j) ==
  /\ shell[j] = "alive"
  /\ ~forked[j]
  /\ forked' = [forked EXCEPT ![j] = TRUE]
  /\ UNCHANGED <<status, task, shell, canceled, written, buffered, rpc, calls>>

DescendantsExit(j) ==
  /\ forked[j]
  /\ forked' = [forked EXCEPT ![j] = FALSE]
  /\ UNCHANGED <<status, task, shell, canceled, written, buffered, rpc, calls>>

ShellExits(j) ==
  /\ shell[j] = "alive"
  /\ \E code \in {"ok", "failed"} : shell' = [shell EXCEPT ![j] = code]
  /\ UNCHANGED <<status, task, forked, canceled, written, buffered, rpc, calls>>

\* Mutant: the shell is asked to stop, and need not.
Kill_Ignored(j) == canceled[j] /\ shell[j] = "alive" /\ UNCHANGED vars

\* CommandContext's watcher kills the shell.
Kill(j) ==
  /\ canceled[j]
  /\ shell[j] = "alive"
  /\ shell' = [shell EXCEPT ![j] = "killed"]
  /\ UNCHANGED <<status, task, forked, canceled, written, buffered, rpc, calls>>

\* Mutant: the last line is appended twice.
Copy_Again(j, s) ==
  /\ buffered[j][s] <= written[j][s]
  /\ buffered' = [buffered EXCEPT ![j][s] = @ + 1]
  /\ UNCHANGED <<status, task, shell, forked, canceled, written, rpc, calls>>

\* The copying goroutine of exec.Cmd appends to the lockedBuffer.
Copy(j, s) ==
  /\ buffered[j][s] < written[j][s]
  /\ buffered' = [buffered EXCEPT ![j][s] = @ + 1]
  /\ UNCHANGED <<status, task, shell, forked, canceled, written, rpc, calls>>

\* Mutant: the process is waited for, its pipes are not drained.
RunReturns_Undrained(j) ==
  /\ task[j] = "running"
  /\ shell[j] # "alive"
  /\ ~forked[j]
  /\ task' = [task EXCEPT ![j] = "returned"]
  /\ UNCHANGED <<status, shell, forked, canceled, written, buffered, rpc, calls>>

\* cmd.Run returns: the shell is reaped and both pipes are drained.
RunReturns(j) ==
  /\ task[j] = "running"
  /\ shell[j] # "alive"
  /\ ~forked[j]
  /\ buffered[j] = written[j]
  /\ task' = [task EXCEPT ![j] = "returned"]
  /\ UNCHANGED <<status, shell, forked, canceled, written, buffered, rpc, calls>>

\* Mutant: the error of cmd.Run is dropped.
Record_NoError(j) ==
  /\ task[j] = "returned"
  /\ task' = [task EXCEPT ![j] = "done"]
  /\ status' = [status EXCEPT ![j] = IF canceled[j] THEN "canceled" ELSE "succeeded"]
  /\ UNCHANGED <<shell, forked, canceled, written, buffered, rpc, calls>>

\* Mutant: the error of cmd.Run comes before the canceled context.
Record_ErrorFirst(j) ==
  /\ task[j] = "returned"
  /\ task' = [task EXCEPT ![j] = "done"]
  /\ status' = [status EXCEPT ![j] = IF shell[j] = "ok" THEN "succeeded"
                                     ELSE IF canceled[j] THEN "canceled"
                                     ELSE "failed"]
  /\ UNCHANGED <<shell, forked, canceled, written, buffered, rpc, calls>>

\* The verdict, under the record's mutex: a canceled context comes first.
Record(j) ==
  /\ task[j] = "returned"
  /\ task' = [task EXCEPT ![j] = "done"]
  /\ status' = [status EXCEPT ![j] = IF canceled[j] THEN "canceled"
                                     ELSE IF shell[j] = "ok" THEN "succeeded"
                                     ELSE "failed"]
  /\ UNCHANGED <<shell, forked, canceled, written, buffered, rpc, calls>>

----------------------------------------------------------------------------
(* The RPCs.                                                               *)

\* A call's first step: lookupJob finds the record (rpcJobStart makes it).
Begin(w, op, j, at) ==
  /\ rpc[w].at \in {"idle", "done"}
  /\ calls[w] < MaxCalls
  /\ calls' = [calls EXCEPT ![w] = @ + 1]
  /\ rpc' = [rpc EXCEPT ![w] = [op |-> op, job |-> j, at |-> at, seen |-> "none",
                                info |-> "none", logs |-> Silent]]

\* The record is registered and runJob spawned before the snapshot is taken.
JobStart(w, j) ==
  /\ status[j] = "none"
  /\ Begin(w, "start", j, "snapshot")
  /\ status' = [status EXCEPT ![j] = "running"]
  /\ task' = [task EXCEPT ![j] = "spawned"]
  /\ UNCHANGED <<shell, forked, canceled, written, buffered>>

Query(w, op, j) ==
  /\ status[j] # "none"
  /\ Begin(w, op, j, IF op = "cancel" THEN "check" ELSE "snapshot")
  /\ UNCHANGED <<status, process, canceled>>

At(w, at) == rpc[w].at = at

\* rpcJobCancel reads the status under the lock, releases it ...
CancelCheck(w) ==
  /\ At(w, "check")
  /\ rpc' = [rpc EXCEPT ![w].seen = status[rpc[w].job], ![w].at = "cancel"]
  /\ UNCHANGED <<status, process, canceled, calls>>

\* Mutant: the caller records the verdict itself.
CancelAct_Records(w) ==
  /\ At(w, "cancel")
  /\ IF rpc[w].seen = "running"
       THEN /\ canceled' = [canceled EXCEPT ![rpc[w].job] = TRUE]
            /\ status' = [status EXCEPT ![rpc[w].job] = "canceled"]
       ELSE UNCHANGED <<canceled, status>>
  /\ rpc' = [rpc EXCEPT ![w].at = "snapshot"]
  /\ UNCHANGED <<process, calls>>

\* ... and cancels the context of a job that was running.
CancelAct(w) ==
  /\ At(w, "cancel")
  /\ canceled' = IF rpc[w].seen = "running"
                 THEN [canceled EXCEPT ![rpc[w].job] = TRUE] ELSE canceled
  /\ rpc' = [rpc EXCEPT ![w].at = "snapshot"]
  /\ UNCHANGED <<status, process, calls>>

\* The snapshot every reply starts from.
Snapshot(w) ==
  /\ At(w, "snapshot")
  /\ rpc' = [rpc EXCEPT ![w].info = status[rpc[w].job],
                        ![w].at = IF rpc[w].op = "logs" THEN "out" ELSE "done"]
  /\ UNCHANGED <<status, process, canceled, calls>>

\* rpcJobLogs reads stdout, then stderr, after the snapshot.
ReadLog(w, s) ==
  /\ At(w, s)
  /\ rpc' = [rpc EXCEPT ![w].logs[s] = buffered[rpc[w].job][s],
                        ![w].at = IF s = "out" THEN "err" ELSE "done"]
  /\ UNCHANGED <<status, process, canceled, calls>>

----------------------------------------------------------------------------
\* What the Go runtime and the kernel carry on by themselves.
Runtime(j) == RunStarts(j) \/ Kill(j) \/ RunReturns(j) \/ Record(j) \/ \E s \in Streams : Copy(j, s)

Command(j) == Fork(j) \/ DescendantsExit(j) \/ ShellExits(j) \/ \E s \in Streams : Write(j, s)

Caller(w) ==
  \/ \E j \in Jobs : JobStart(w, j) \/ \E op \in {"status", "logs", "cancel"} : Query(w, op, j)
  \/ CancelCheck(w) \/ CancelAct(w) \/ Snapshot(w) \/ \E s \in Streams : ReadLog(w, s)

Next ==
  \/ \E j \in Jobs : Runtime(j) \/ Command(j)
  \/ \E w \in Clients : Caller(w)

Spec == Init /\ [][Next]_vars

\* The goroutines and the kill proceed; no command is assumed to ever end.
Fairness ==
  \A j \in Jobs : /\ WF_vars(RunStarts(j)) /\ WF_vars(Kill(j))
                  /\ WF_vars(RunReturns(j)) /\ WF_vars(Record(j))
                  /\ \A s \in Streams : WF_vars(Copy(j, s))

FairSpec == Spec /\ Fairness

----------------------------------------------------------------------------
Reply(w, op) == At(w, "done") /\ rpc[w].op = op

\* job_logs that reports a finished job carries all of its output, on both
\* streams, although the buffers are read after the snapshot and without a
\* common lock (rpcJobLogs, runJob).
LogsComplete ==
  \A w \in Clients : Reply(w, "logs") /\ rpc[w].info \in Verdicts =>
    rpc[w].logs = written[rpc[w].job]

\* A verdict says what happened: success is reported only for a shell that
\* exited with 0 and whose output is all there, and no verdict is recorded
\* while the shell still runs or a descendant still writes (runJob).
VerdictTruthful ==
  \A j \in Jobs :
    /\ status[j] \in Verdicts => shell[j] # "alive" /\ ~forked[j]
    /\ status[j] = "succeeded" => shell[j] = "ok" /\ buffered[j] = written[j]
    /\ status[j] = "failed" => shell[j] \in {"failed", "none"}

\* job_cancel that answers "running" has canceled the job: its verdict is
\* never success or failure afterwards (rpcJobCancel, runJob).
CancelAcknowledged ==
  \A w \in Clients : Reply(w, "cancel") /\ rpc[w].info = "running" =>
    status[rpc[w].job] \in {"running", "canceled"}

\* A verdict never changes, whatever a late job_cancel does: its check of the
\* status is stale by the time it acts (rpcJobCancel).
VerdictFinal ==
  [][\A j \in Jobs : status[j] \in Verdicts => status'[j] = status[j]]_vars

\* A canceled job ends, unless a descendant of the shell survives the kill
\* and keeps the output pipes open (rpcJobCancel, shellCommandContext).
CancelEnds == \A j \in Jobs : canceled[j] ~> status[j] \in Verdicts \/ forked[j]
=============================================================================
