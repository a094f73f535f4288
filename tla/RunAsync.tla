------------------------------ MODULE RunAsync ------------------------------
(***************************************************************************)
(* `vssh run-async` (cmdRunAsync of cmd/vssh/commands_exec.go) on top of   *)
(* the daemon's jobs: it starts a job, polls its status until it ended or  *)
(* the wait is over, and prints the result with the logs, or the job's id. *)
(*                                                                         *)
(* A call may get lost before it reaches the daemon or on its way back:    *)
(* callRPCNative then returns an error.                                    *)
(***************************************************************************)
EXTENDS JobRegistry

CONSTANTS Me,       \* the RPC caller that is this command
          MaxLost   \* bound: calls that fail

ASSUME AsyncAssumption == Me \in Clients /\ MaxLost \in Nat

VARIABLES
  async,   \* the command: where it is and its job
  lost,    \* how many calls failed
  result   \* what it printed

asyncVars == <<async, lost, result>>

NoResult == [kind |-> "none"]

AsyncTypeOK ==
  /\ async \in [at : {"start", "starting", "poll", "polling", "fetch", "fetching", "end"},
                job : Jobs \cup {"none"}]
  /\ lost \in 0..MaxLost
  /\ result = NoResult \/ result.kind \in {"error", "promoted"}
     \/ result \in [kind : {"inline"}, status : Verdicts, logs : [Streams -> Nat], lost : BOOLEAN]

AsyncInit ==
  /\ async = [at |-> "start", job |-> "none"]
  /\ lost = 0
  /\ result = NoResult

----------------------------------------------------------------------------
\* CallRPC has the daemon's answer.
Answered == rpc[Me].at = "done"

Step(at) == async' = [async EXCEPT !.at = at]

PrintResult(r) == result' = r /\ Step("end")

StartJob(j) ==
  /\ async.at = "start"
  /\ JobStart(Me, j)
  /\ async' = [at |-> "starting", job |-> j]
  /\ UNCHANGED <<lost, result>>

\* job_start's reply carries the job's id.
Started ==
  /\ async.at = "starting" /\ Answered
  /\ Step("poll")
  /\ UNCHANGED <<vars, lost, result>>

\* The wait is not over: the next poll.
Poll ==
  /\ async.at = "poll"
  /\ Query(Me, "status", async.job)
  /\ Step("polling")
  /\ UNCHANGED <<lost, result>>

\* Mutant: whatever job_status answers, the job is taken for finished.
Polled_Finished ==
  /\ async.at = "polling" /\ Answered
  /\ Step("fetch")
  /\ result' = [kind |-> "inline", logs |-> Silent, lost |-> FALSE,
                status |-> IF rpc[Me].info \in Verdicts THEN rpc[Me].info ELSE "succeeded"]
  /\ UNCHANGED <<vars, lost>>

\* A running job is polled again, the verdict of a finished one is kept.
Polled ==
  /\ async.at = "polling" /\ Answered
  /\ IF rpc[Me].info = "running"
       THEN Step("poll") /\ UNCHANGED result
       ELSE /\ Step("fetch")
            /\ result' = [kind |-> "inline", status |-> rpc[Me].info, logs |-> Silent, lost |-> FALSE]
  /\ UNCHANGED <<vars, lost>>

FetchLogs ==
  /\ async.at = "fetch"
  /\ Query(Me, "logs", async.job)
  /\ Step("fetching")
  /\ UNCHANGED <<lost, result>>

Fetched ==
  /\ async.at = "fetching" /\ Answered
  /\ PrintResult([result EXCEPT !.logs = rpc[Me].logs])
  /\ UNCHANGED <<vars, lost>>

\* The wait is over: the job goes on and its id is printed.
Promote ==
  /\ async.at = "poll"
  /\ PrintResult([kind |-> "promoted"])
  /\ UNCHANGED <<vars, lost>>

\* A call fails.  Without a job id the command fails, a poll is repeated, and
\* a result whose logs cannot be had is printed without them.
CallFails ==
  /\ lost < MaxLost
  /\ lost' = lost + 1
  /\ async.at \in {"start", "poll", "fetch"} \/ (async.at # "end" /\ Answered)
  /\ CASE async.at \in {"start", "starting"} -> PrintResult([kind |-> "error"])
       [] async.at \in {"poll", "polling"}   -> Step("poll") /\ UNCHANGED result
       [] async.at \in {"fetch", "fetching"} -> PrintResult([result EXCEPT !.lost = TRUE])
  /\ UNCHANGED vars

AsyncStep ==
  \/ \E j \in Jobs : StartJob(j)
  \/ Started \/ Poll \/ Polled \/ FetchLogs \/ Fetched \/ Promote \/ CallFails

\* The daemon, and the other callers: of this one only the calls under way.
AsyncNext ==
  \/ AsyncStep
  \/ /\ \/ \E j \in Jobs : Runtime(j) \/ Command(j)
        \/ \E w \in Clients \ {Me} : Caller(w)
        \/ Snapshot(Me) \/ \E s \in Streams : ReadLog(Me, s)
     /\ UNCHANGED asyncVars

----------------------------------------------------------------------------
\* A result printed inline is the job's: its verdict, final, and all of its
\* output, although verdict and output come from two calls while the job's
\* processes go on and others cancel it (cmdRunAsync, rpcJobLogs, runJob).
\* The one exception is a job_logs call that failed.
InlineIsComplete ==
  async.at = "end" /\ result.kind = "inline" =>
    /\ result.status = status[async.job]
    /\ ~result.lost => result.logs = written[async.job]
=============================================================================
