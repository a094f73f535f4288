------------------------- MODULE JobRegistryProofs -------------------------
(***************************************************************************)
(* Proofs about JobRegistry, for any set of jobs and of callers: its       *)
(* types, what a recorded verdict says of the process it is about, and     *)
(* what the replies to job_logs and job_cancel, read in several steps      *)
(* while the job goes on, still say when they are sent.                    *)
(***************************************************************************)
EXTENDS JobRegistry, TLAPS

\* The stage of runJob, the status it has recorded and the process agree.
JobInv ==
  \A j \in Jobs :
    /\ status[j] = "none" <=> task[j] = "none"
    /\ status[j] \in Verdicts <=> task[j] = "done"
    /\ task[j] \in {"none", "spawned"} => shell[j] = "none"
    /\ shell[j] = "none" => ~forked[j] /\ buffered[j] = written[j]
    /\ shell[j] = "killed" => canceled[j]
    /\ task[j] \in {"returned", "done"} =>
         shell[j] # "alive" /\ ~forked[j] /\ buffered[j] = written[j]
    /\ status[j] = "succeeded" => shell[j] = "ok"
    /\ status[j] = "failed" => shell[j] \in {"failed", "none"}

----------------------------------------------------------------------------
(* Types.                                                                  *)

\* A call in progress is a call about a job.
LEMMA CallType ==
  ASSUME TypeOK, NEW w \in Clients, rpc[w].at # "idle"
  PROVE  rpc[w] \in RPCs /\ rpc[w].job \in Jobs
<1>1. rpc[w] \in RPCs
  BY DEF TypeOK, Idle
<1>2. QED BY <1>1 DEF RPCs

\* It stays a call when a step of it records what it has read.
LEMMA StepTypes ==
  ASSUME TypeOK, NEW w \in Clients, rpc[w].at # "idle"
  PROVE  /\ \A v \in Statuses, at \in {"check", "cancel", "snapshot", "out", "err", "done"} :
              /\ [rpc[w] EXCEPT !.at = at] \in RPCs
              /\ [rpc[w] EXCEPT !.seen = v, !.at = at] \in RPCs
              /\ [rpc[w] EXCEPT !.info = v, !.at = at] \in RPCs
         /\ \A s \in Streams, n \in Nat, at \in {"err", "done"} :
              [rpc[w] EXCEPT !.logs[s] = n, !.at = at] \in RPCs
BY CallType DEF RPCs

\* A call starts as a call.
LEMMA BeginTypes ==
  ASSUME TypeOK, NEW w \in Clients, NEW j \in Jobs,
         NEW op \in {"start", "status", "logs", "cancel"}, NEW at \in {"check", "snapshot"},
         Begin(w, op, j, at)
  PROVE  rpc' \in [Clients -> RPCs \cup {Idle}] /\ calls' \in [Clients -> 0..MaxCalls]
<1>1. [op |-> op, job |-> j, at |-> at, seen |-> "none", info |-> "none", logs |-> Silent] \in RPCs
  BY DEF RPCs, Statuses, Silent
<1>2. rpc' \in [Clients -> RPCs \cup {Idle}]
  BY <1>1 DEF Begin, TypeOK
<1>3. calls' \in [Clients -> 0..MaxCalls]
  BY BoundAssumption DEF Begin, TypeOK
<1>4. QED BY <1>2, <1>3

\* Every step keeps every variable in its type.
LEMMA TypeStep ==
  ASSUME TypeOK, [Next]_vars
  PROVE  TypeOK'
<1>1. ASSUME NEW j \in Jobs, RunStarts(j) PROVE TypeOK'
  BY <1>1 DEF RunStarts, TypeOK
<1>2. ASSUME NEW j \in Jobs, NEW s \in Streams, Write(j, s) PROVE TypeOK'
  <2>1. written' \in [Jobs -> [Streams -> 0..MaxOutput]]
    BY <1>2, BoundAssumption DEF Write, TypeOK
  <2>2. QED BY <1>2, <2>1 DEF Write, TypeOK
<1>3. ASSUME NEW j \in Jobs, NEW s \in Streams, Copy(j, s) PROVE TypeOK'
  <2>1. buffered' \in [Jobs -> [Streams -> 0..MaxOutput]]
    BY <1>3, BoundAssumption DEF Copy, TypeOK
  <2>2. QED BY <1>3, <2>1 DEF Copy, TypeOK
<1>4. ASSUME NEW j \in Jobs, Kill(j) \/ RunReturns(j) PROVE TypeOK'
  BY <1>4 DEF Kill, RunReturns, TypeOK
<1>5. ASSUME NEW j \in Jobs, Record(j) PROVE TypeOK'
  BY <1>5 DEF Record, TypeOK, Statuses, Verdicts
<1>6. ASSUME NEW j \in Jobs, Fork(j) \/ DescendantsExit(j) \/ ShellExits(j) PROVE TypeOK'
  BY <1>6 DEF Fork, DescendantsExit, ShellExits, TypeOK
<1>7. ASSUME NEW w \in Clients, NEW j \in Jobs, JobStart(w, j) PROVE TypeOK'
  <2>1. rpc' \in [Clients -> RPCs \cup {Idle}] /\ calls' \in [Clients -> 0..MaxCalls]
    BY <1>7, BeginTypes DEF JobStart
  <2>2. QED BY <1>7, <2>1 DEF JobStart, TypeOK, Statuses
<1>8. ASSUME NEW w \in Clients, NEW op \in {"status", "logs", "cancel"}, NEW j \in Jobs,
             Query(w, op, j)
      PROVE  TypeOK'
  <2>1. rpc' \in [Clients -> RPCs \cup {Idle}] /\ calls' \in [Clients -> 0..MaxCalls]
    BY <1>8, BeginTypes DEF Query
  <2>2. QED BY <1>8, <2>1 DEF Query, process, TypeOK
<1>9. ASSUME NEW w \in Clients, NEW r \in RPCs, rpc' = [rpc EXCEPT ![w] = r],
             canceled' \in [Jobs -> BOOLEAN], UNCHANGED <<status, process, calls>>
      PROVE  TypeOK'
  BY <1>9 DEF process, TypeOK
<1>10. ASSUME NEW w \in Clients, CancelCheck(w) PROVE TypeOK'
  <2>1. rpc[w].job \in Jobs
    BY <1>10, CallType DEF CancelCheck, At
  <2>2. status[rpc[w].job] \in Statuses
    BY <2>1 DEF TypeOK
  <2>3. [rpc[w] EXCEPT !.seen = status[rpc[w].job], !.at = "cancel"] \in RPCs
    BY <1>10, <2>2, StepTypes DEF CancelCheck, At
  <2>4. rpc' = [rpc EXCEPT ![w] = [rpc[w] EXCEPT !.seen = status[rpc[w].job], !.at = "cancel"]]
    BY <1>10 DEF CancelCheck, TypeOK
  <2>5. QED BY <1>10, <2>3, <2>4, <1>9 DEF CancelCheck, TypeOK
<1>11. ASSUME NEW w \in Clients, CancelAct(w) PROVE TypeOK'
  <2>1. [rpc[w] EXCEPT !.at = "snapshot"] \in RPCs
    BY <1>11, StepTypes DEF CancelAct, At, Statuses
  <2>2. rpc' = [rpc EXCEPT ![w] = [rpc[w] EXCEPT !.at = "snapshot"]]
    BY <1>11 DEF CancelAct, TypeOK
  <2>3. canceled' \in [Jobs -> BOOLEAN]
    BY <1>11 DEF CancelAct, TypeOK
  <2>4. QED BY <1>11, <2>1, <2>2, <2>3, <1>9 DEF CancelAct
<1>12. ASSUME NEW w \in Clients, Snapshot(w) PROVE TypeOK'
  <2> DEFINE next == IF rpc[w].op = "logs" THEN "out" ELSE "done"
  <2>1. rpc[w].job \in Jobs
    BY <1>12, CallType DEF Snapshot, At
  <2>2. status[rpc[w].job] \in Statuses
    BY <2>1 DEF TypeOK
  <2>3. [rpc[w] EXCEPT !.info = status[rpc[w].job], !.at = next] \in RPCs
    BY <1>12, <2>2, StepTypes DEF Snapshot, At
  <2>4. rpc' = [rpc EXCEPT ![w] = [rpc[w] EXCEPT !.info = status[rpc[w].job], !.at = next]]
    BY <1>12 DEF Snapshot, TypeOK
  <2>5. QED BY <1>12, <2>3, <2>4, <1>9 DEF Snapshot, TypeOK
<1>13. ASSUME NEW w \in Clients, NEW s \in Streams, ReadLog(w, s) PROVE TypeOK'
  <2> DEFINE next == IF s = "out" THEN "err" ELSE "done"
  <2>1. rpc[w].job \in Jobs
    BY <1>13, CallType DEF ReadLog, At, Streams
  <2>2. buffered[rpc[w].job][s] \in Nat
    BY <2>1, BoundAssumption DEF TypeOK
  <2>3. [rpc[w] EXCEPT !.logs[s] = buffered[rpc[w].job][s], !.at = next] \in RPCs
    BY <1>13, <2>2, StepTypes DEF ReadLog, At, Streams
  <2>4. rpc' = [rpc EXCEPT ![w] =
                 [rpc[w] EXCEPT !.logs[s] = buffered[rpc[w].job][s], !.at = next]]
    BY <1>13 DEF ReadLog, TypeOK
  <2>5. QED BY <1>13, <2>3, <2>4, <1>9 DEF ReadLog, TypeOK
<1>14. CASE UNCHANGED vars
  BY <1>14 DEF vars, process, TypeOK
<1>15. QED
  BY <1>1, <1>2, <1>3, <1>4, <1>5, <1>6, <1>7, <1>8, <1>10, <1>11, <1>12, <1>13, <1>14
     DEF Next, Runtime, Command, Caller

----------------------------------------------------------------------------
(* The verdict.                                                            *)

\* What the invariants need of the types.
SmallTypes ==
  /\ status \in [Jobs -> Statuses]
  /\ task \in [Jobs -> {"none", "spawned", "running", "returned", "done"}]
  /\ shell \in [Jobs -> {"none", "alive", "ok", "failed", "killed"}]
  /\ forked \in [Jobs -> BOOLEAN]
  /\ canceled \in [Jobs -> BOOLEAN]

\* Every step keeps JobInv.
LEMMA JobStep ==
  ASSUME TypeOK, JobInv, [Next]_vars
  PROVE  JobInv'
<1>t. SmallTypes
  BY DEF TypeOK, SmallTypes
<1>n. \A j \in Jobs, s \in Streams : buffered[j][s] \in Nat /\ written[j][s] \in Nat
  BY BoundAssumption DEF TypeOK
<1>b. written \in [Jobs -> [Streams -> Nat]] /\ buffered \in [Jobs -> [Streams -> Nat]]
  BY BoundAssumption DEF TypeOK
<1> USE DEF SmallTypes, JobInv, Verdicts, Statuses
<1>1. ASSUME NEW j \in Jobs, RunStarts(j) PROVE JobInv'
  BY <1>t, <1>1 DEF RunStarts
<1>2. ASSUME NEW j \in Jobs, Fork(j) \/ DescendantsExit(j) PROVE JobInv'
  BY <1>t, <1>2 DEF Fork, DescendantsExit
<1>3. ASSUME NEW j \in Jobs, ShellExits(j) \/ Kill(j) PROVE JobInv'
  BY <1>t, <1>3 DEF ShellExits, Kill
<1>4. ASSUME NEW j \in Jobs, RunReturns(j) PROVE JobInv'
  BY <1>t, <1>4 DEF RunReturns
<1>5. ASSUME NEW j \in Jobs, Record(j) PROVE JobInv'
  BY <1>t, <1>5 DEF Record
<1>6. ASSUME NEW j \in Jobs, NEW s \in Streams, Write(j, s) PROVE JobInv'
  <2>1. shell[j] # "none" /\ task[j] \notin {"returned", "done"}
    BY <1>t, <1>6 DEF Write
  <2>2. \A i \in Jobs \ {j} : written'[i] = written[i]
    BY <1>b, <1>6 DEF Write
  <2>3. QED BY <1>t, <1>6, <2>1, <2>2 DEF Write
<1>7. ASSUME NEW j \in Jobs, NEW s \in Streams, Copy(j, s) PROVE JobInv'
  <2>1. buffered[j] # written[j]
    BY <1>n, <1>7 DEF Copy
  <2>2. \A i \in Jobs \ {j} : buffered'[i] = buffered[i]
    BY <1>b, <1>7 DEF Copy
  <2>3. QED BY <1>t, <1>7, <2>1, <2>2 DEF Copy
<1>8. ASSUME NEW w \in Clients, NEW j \in Jobs, JobStart(w, j) PROVE JobInv'
  BY <1>t, <1>8 DEF JobStart
<1>9. ASSUME NEW w \in Clients, CancelAct(w) PROVE JobInv'
  <2>1. \A i \in Jobs : canceled[i] => canceled'[i]
    BY <1>t, <1>9 DEF CancelAct
  <2>2. QED BY <1>t, <1>9, <2>1 DEF CancelAct, process
<1>10. ASSUME UNCHANGED <<status, process, canceled>> PROVE JobInv'
  BY <1>10 DEF process
<1>11. QED
  BY <1>1, <1>2, <1>3, <1>4, <1>5, <1>6, <1>7, <1>8, <1>9, <1>10
     DEF Next, Runtime, Command, Caller, Query, CancelCheck, Snapshot, ReadLog, vars

\* Types and JobInv hold initially.
LEMMA JobInit == Init => TypeOK /\ JobInv
<1> SUFFICES ASSUME Init PROVE TypeOK /\ JobInv
  OBVIOUS
<1>1. Silent \in [Streams -> 0..MaxOutput] /\ 0 \in 0..MaxCalls
  BY BoundAssumption DEF Silent
<1>2. TypeOK
  BY <1>1 DEF Init, TypeOK, Statuses
<1>3. JobInv
  BY DEF Init, JobInv, Verdicts
<1>4. QED BY <1>2, <1>3

\* Every variable of JobRegistry stays in its type, whatever jobs, callers,
\* commands and the kernel do.
THEOREM JobTypesCorrect == Spec => []TypeOK
BY JobInit, TypeStep, PTL DEF Spec

\* The stage of runJob, its verdict and its process agree in every state.
LEMMA JobsAgree == Spec => [](TypeOK /\ JobInv)
<1>1. TypeOK /\ JobInv /\ [Next]_vars => (TypeOK /\ JobInv)'
  BY TypeStep, JobStep
<1>2. QED BY JobInit, <1>1, PTL DEF Spec

\* A verdict says what happened: success means that the shell exited with 0
\* and that all of its output is there, and no verdict is recorded while the
\* shell runs or a descendant of it writes (runJob).
THEOREM VerdictsAreTruthful == Spec => []VerdictTruthful
<1>1. JobInv => VerdictTruthful
  BY DEF JobInv, VerdictTruthful, Verdicts
<1>2. QED BY JobsAgree, <1>1, PTL

\* A verdict never changes, whatever a late job_cancel does (rpcJobCancel).
THEOREM VerdictsAreFinal == Spec => VerdictFinal
<1>1. TypeOK /\ JobInv /\ [Next]_vars =>
        [\A j \in Jobs : status[j] \in Verdicts => status'[j] = status[j]]_vars
  <2> SUFFICES ASSUME TypeOK, JobInv, Next, NEW j \in Jobs, status[j] \in Verdicts
              PROVE  status'[j] = status[j]
    OBVIOUS
  <2>t. SmallTypes
    BY DEF TypeOK, SmallTypes
  <2>1. ASSUME NEW i \in Jobs, Record(i) PROVE status'[j] = status[j]
    <3>1. i # j
      BY <2>1 DEF Record, JobInv
    <3>2. QED BY <2>t, <2>1, <3>1 DEF Record, SmallTypes
  <2>2. ASSUME NEW w \in Clients, NEW i \in Jobs, JobStart(w, i) PROVE status'[j] = status[j]
    <3>1. i # j
      BY <2>2 DEF JobStart, Verdicts
    <3>2. QED BY <2>t, <2>2, <3>1 DEF JobStart, SmallTypes
  <2>3. QED
    BY <2>1, <2>2 DEF Next, Runtime, Command, Caller, RunStarts, Kill, RunReturns, Copy, Write,
                      Fork, DescendantsExit, ShellExits, Query, CancelCheck, CancelAct,
                      Snapshot, ReadLog
<1>2. QED BY JobsAgree, <1>1, PTL DEF Spec, VerdictFinal

----------------------------------------------------------------------------
(* The replies.                                                            *)

\* LogsInv and CancelInv are facts of one call each.
LogsOf(w) ==
  rpc[w].at \in {"out", "err", "done"} /\ rpc[w].op = "logs" /\ rpc[w].info \in Verdicts =>
    /\ status[rpc[w].job] \in Verdicts
    /\ rpc[w].at \in {"err", "done"} => rpc[w].logs["out"] = written[rpc[w].job]["out"]
    /\ rpc[w].at = "done" => rpc[w].logs["err"] = written[rpc[w].job]["err"]

CancelOf(w) ==
  rpc[w].at # "idle" /\ rpc[w].op = "cancel" =>
    /\ rpc[w].at \notin Streams
    /\ status[rpc[w].job] # "none"
    /\ rpc[w].at = "cancel" => rpc[w].seen = "running" \/ status[rpc[w].job] \in Verdicts
    /\ rpc[w].at = "snapshot" => canceled[rpc[w].job] \/ status[rpc[w].job] \in Verdicts
    /\ rpc[w].at = "done" /\ rpc[w].info = "running" =>
         \/ status[rpc[w].job] = "canceled"
         \/ status[rpc[w].job] = "running" /\ canceled[rpc[w].job]

RepliesInv == \A w \in Clients : LogsOf(w) /\ CancelOf(w)

\* What a step may do to a job under a call that looks at it: a verdict and
\* the output it came with stay, a cancellation stays and decides the verdict.
JobMoves(j) ==
  /\ status[j] # "none" => status'[j] # "none"
  /\ status[j] \in Verdicts => status'[j] = status[j] /\ written'[j] = written[j]
  /\ canceled[j] => canceled'[j]
  /\ status[j] = "running" /\ canceled[j] => status'[j] \in {"running", "canceled"}

\* Every step moves every job so.
LEMMA JobMovesStep ==
  ASSUME TypeOK, JobInv, [Next]_vars, NEW i \in Jobs
  PROVE  JobMoves(i)
<1>t. SmallTypes
  BY DEF TypeOK, SmallTypes
<1>i. /\ status[i] \in Verdicts <=> task[i] = "done"
      /\ task[i] = "done" => shell[i] # "alive" /\ ~forked[i]
  BY DEF JobInv
<1>w. written \in [Jobs -> [Streams -> 0..MaxOutput]]
  BY DEF TypeOK
<1> USE <1>t, <1>i DEF SmallTypes, Statuses, Verdicts, JobMoves
<1>1. ASSUME NEW j \in Jobs, NEW s \in Streams, Write(j, s) PROVE JobMoves(i)
  <2>1. CASE i = j
    BY <1>1, <2>1 DEF Write
  <2>2. CASE i # j
    BY <1>w, <1>1, <2>2 DEF Write
  <2>3. QED BY <2>1, <2>2
<1>2. ASSUME NEW j \in Jobs, Record(j) PROVE JobMoves(i)
  BY <1>2 DEF Record
<1>3. ASSUME NEW w \in Clients, NEW j \in Jobs, JobStart(w, j) PROVE JobMoves(i)
  BY <1>3 DEF JobStart
<1>4. ASSUME NEW w \in Clients, CancelAct(w) PROVE JobMoves(i)
  BY <1>4 DEF CancelAct, process
<1>5. ASSUME UNCHANGED <<status, canceled, written>> PROVE JobMoves(i)
  BY <1>5
<1>6. QED
  BY <1>1, <1>2, <1>3, <1>4, <1>5
     DEF Next, Runtime, Command, Caller, RunStarts, Kill, RunReturns, Copy, Fork,
         DescendantsExit, ShellExits, Query, CancelCheck, Snapshot, ReadLog, process, vars

\* A call that takes no step keeps what it knows.
LEMMA CallWaits ==
  ASSUME TypeOK, JobInv, [Next]_vars, NEW w \in Clients, LogsOf(w), CancelOf(w),
         rpc'[w] = rpc[w]
  PROVE  LogsOf(w)' /\ CancelOf(w)'
<1>1. CASE rpc[w].at = "idle"
  BY <1>1 DEF LogsOf, CancelOf
<1>2. CASE rpc[w].at # "idle"
  <2>1. JobMoves(rpc[w].job)
    BY <1>2, CallType, JobMovesStep
  <2>2. status[rpc[w].job] \in Statuses
    BY <1>2, CallType DEF TypeOK
  <2>3. QED BY <2>1, <2>2 DEF JobMoves, LogsOf, CancelOf, Statuses, Verdicts
<1>3. QED BY <1>1, <1>2

\* Every step keeps what the replies say.
LEMMA RepliesStep ==
  ASSUME TypeOK, JobInv, RepliesInv, [Next]_vars
  PROVE  RepliesInv'
<1>r. rpc \in [Clients -> RPCs \cup {Idle}] /\ status \in [Jobs -> Statuses]
  BY DEF TypeOK
<1>0. ASSUME NEW w \in Clients, NEW r, rpc' = [rpc EXCEPT ![w] = r],
             LogsOf(w)' /\ CancelOf(w)'
      PROVE  RepliesInv'
  <2>1. \A v \in Clients \ {w} : rpc'[v] = rpc[v]
    BY <1>r, <1>0
  <2>2. QED BY <1>0, <2>1, CallWaits DEF RepliesInv
<1>1. ASSUME NEW w \in Clients, NEW op \in {"start", "status", "logs", "cancel"},
             NEW j \in Jobs, NEW at \in {"check", "snapshot"}, Begin(w, op, j, at),
             op = "cancel" => at = "check" /\ status'[j] # "none"
      PROVE  RepliesInv'
  <2> DEFINE r == [op |-> op, job |-> j, at |-> at, seen |-> "none",
                   info |-> "none", logs |-> Silent]
  <2>1. rpc' = [rpc EXCEPT ![w] = r] /\ rpc'[w] = r
    BY <1>r, <1>1 DEF Begin
  <2>2. LogsOf(w)' /\ CancelOf(w)'
    BY <1>1, <2>1 DEF LogsOf, CancelOf, Streams
  <2>3. QED BY <2>1, <2>2, <1>0
<1>2. ASSUME NEW w \in Clients, CancelCheck(w) PROVE RepliesInv'
  <2> DEFINE r == [rpc[w] EXCEPT !.seen = status[rpc[w].job], !.at = "cancel"]
  <2>1. rpc[w] \in RPCs /\ rpc[w].job \in Jobs
    BY <1>2, CallType DEF CancelCheck, At
  <2>2. rpc' = [rpc EXCEPT ![w] = r] /\ rpc'[w] = r /\ status' = status
    BY <1>r, <1>2 DEF CancelCheck
  <2>3. /\ r.at = "cancel" /\ r.op = rpc[w].op /\ r.job = rpc[w].job
        /\ r.seen = status[rpc[w].job]
    BY <2>1 DEF RPCs
  <2>4. status[rpc[w].job] \in Statuses /\ (rpc[w].op = "cancel" => status[rpc[w].job] # "none")
    BY <1>2, <1>r, <2>1 DEF RepliesInv, CancelOf, CancelCheck, At
  <2>5. LogsOf(w)' /\ CancelOf(w)'
    BY <2>2, <2>3, <2>4 DEF LogsOf, CancelOf, Statuses, Streams, Verdicts
  <2>6. QED BY <2>2, <2>5, <1>0
<1>3. ASSUME NEW w \in Clients, CancelAct(w) PROVE RepliesInv'
  <2> DEFINE r == [rpc[w] EXCEPT !.at = "snapshot"]
  <2>1. rpc[w] \in RPCs /\ rpc[w].job \in Jobs
    BY <1>3, CallType DEF CancelAct, At
  <2>2. rpc' = [rpc EXCEPT ![w] = r] /\ rpc'[w] = r /\ status' = status
    BY <1>r, <1>3 DEF CancelAct
  <2>3. r.at = "snapshot" /\ r.op = rpc[w].op /\ r.job = rpc[w].job
    BY <2>1 DEF RPCs
  <2>4. rpc[w].seen = "running" => canceled'[rpc[w].job]
    BY <2>1, <1>3 DEF CancelAct, TypeOK
  <2>5. CancelOf(w) /\ rpc[w].at = "cancel"
    BY <1>3 DEF RepliesInv, CancelAct, At
  <2>6. LogsOf(w)' /\ CancelOf(w)'
    BY <2>2, <2>3, <2>4, <2>5 DEF LogsOf, CancelOf, Streams
  <2>7. QED BY <2>2, <2>6, <1>0
<1>4. ASSUME NEW w \in Clients, Snapshot(w) PROVE RepliesInv'
  <2> DEFINE next == IF rpc[w].op = "logs" THEN "out" ELSE "done"
             r == [rpc[w] EXCEPT !.info = status[rpc[w].job], !.at = next]
  <2>1. rpc[w] \in RPCs /\ rpc[w].job \in Jobs
    BY <1>4, CallType DEF Snapshot, At
  <2>2. rpc' = [rpc EXCEPT ![w] = r] /\ rpc'[w] = r /\ status' = status /\ canceled' = canceled
    BY <1>r, <1>4 DEF Snapshot
  <2>3. /\ r.at = next /\ r.op = rpc[w].op /\ r.job = rpc[w].job
        /\ r.info = status[rpc[w].job]
    BY <2>1 DEF RPCs
  <2>4. CancelOf(w) /\ rpc[w].at = "snapshot"
    BY <1>4 DEF RepliesInv, Snapshot, At
  <2>5. LogsOf(w)' /\ CancelOf(w)'
    BY <2>2, <2>3, <2>4 DEF LogsOf, CancelOf, Streams, Verdicts
  <2>6. QED BY <2>2, <2>5, <1>0
<1>5. ASSUME NEW w \in Clients, NEW s \in Streams, ReadLog(w, s) PROVE RepliesInv'
  <2> DEFINE next == IF s = "out" THEN "err" ELSE "done"
             j == rpc[w].job
             r == [rpc[w] EXCEPT !.logs[s] = buffered[j][s], !.at = next]
  <2>1. rpc[w] \in RPCs /\ j \in Jobs
    BY <1>5, CallType DEF ReadLog, At, Streams
  <2>2. /\ rpc' = [rpc EXCEPT ![w] = r] /\ rpc'[w] = r
        /\ UNCHANGED <<status, canceled, written>>
    BY <1>r, <1>5 DEF ReadLog, process
  <2>3. /\ r.at = next /\ r.op = rpc[w].op /\ r.job = j /\ r.info = rpc[w].info
        /\ r.logs[s] = buffered[j][s]
        /\ \A x \in Streams \ {s} : r.logs[x] = rpc[w].logs[x]
    BY <2>1 DEF RPCs
  <2>4. LogsOf(w) /\ CancelOf(w) /\ rpc[w].at = s
    BY <1>5 DEF RepliesInv, ReadLog, At
  <2>5. status[j] \in Verdicts => buffered[j] = written[j]
    BY <2>1 DEF JobInv
  <2>6. LogsOf(w)'
    BY <2>2, <2>3, <2>4, <2>5 DEF LogsOf, Streams
  <2>7. CancelOf(w)'
    BY <2>2, <2>3, <2>4 DEF CancelOf, Streams
  <2>8. QED BY <2>2, <2>6, <2>7, <1>0
<1>6. ASSUME UNCHANGED rpc PROVE RepliesInv'
  BY <1>6, CallWaits DEF RepliesInv
<1>7. ASSUME NEW w \in Clients, NEW j \in Jobs, JobStart(w, j) PROVE RepliesInv'
  BY <1>7, <1>1 DEF JobStart
<1>8. ASSUME NEW w \in Clients, NEW op \in {"status", "logs", "cancel"}, NEW j \in Jobs,
             Query(w, op, j)
      PROVE  RepliesInv'
  BY <1>8, <1>1 DEF Query
<1>9. QED
  BY <1>2, <1>3, <1>4, <1>5, <1>6, <1>7, <1>8
     DEF Next, Runtime, Command, Caller, RunStarts, Kill, RunReturns, Record, Copy, Fork,
         DescendantsExit, ShellExits, Write, vars

\* Nothing has been answered yet.
LEMMA RepliesInit == Init => RepliesInv
BY DEF Init, Idle, RepliesInv, LogsOf, CancelOf

\* The inductive invariant holds in every state.
LEMMA RepliesAgree == Spec => [](TypeOK /\ JobInv /\ RepliesInv)
<1>1. TypeOK /\ JobInv /\ RepliesInv /\ [Next]_vars => (TypeOK /\ JobInv /\ RepliesInv)'
  BY TypeStep, JobStep, RepliesStep
<1>2. QED BY JobInit, RepliesInit, <1>1, PTL DEF Spec

\* job_logs that reports a finished job carries all of its output, on both
\* streams, although they are read one after the other and after the
\* snapshot, without a common lock (rpcJobLogs, runJob).
THEOREM LogsAreComplete == Spec => []LogsComplete
<1>1. TypeOK /\ RepliesInv => LogsComplete
  <2> SUFFICES ASSUME TypeOK, RepliesInv, NEW w \in Clients, Reply(w, "logs"),
                      rpc[w].info \in Verdicts
               PROVE  rpc[w].logs = written[rpc[w].job]
    BY DEF LogsComplete
  <2>1. rpc[w] \in RPCs /\ rpc[w].job \in Jobs
    BY CallType DEF Reply, At
  <2>2. /\ rpc[w].logs["out"] = written[rpc[w].job]["out"]
        /\ rpc[w].logs["err"] = written[rpc[w].job]["err"]
    BY DEF Reply, At, RepliesInv, LogsOf
  <2>3. rpc[w].logs \in [Streams -> Nat] /\ written[rpc[w].job] \in [Streams -> 0..MaxOutput]
    BY <2>1 DEF RPCs, TypeOK
  <2>4. QED BY <2>2, <2>3 DEF Streams
<1>2. QED BY RepliesAgree, <1>1, PTL

\* job_cancel that answers "running" has canceled the job: its verdict is
\* never success or failure afterwards (rpcJobCancel, runJob).
THEOREM CancelIsAcknowledged == Spec => []CancelAcknowledged
<1>1. RepliesInv => CancelAcknowledged
  BY DEF RepliesInv, CancelOf, CancelAcknowledged, Reply, At
<1>2. QED BY RepliesAgree, <1>1, PTL
=============================================================================
