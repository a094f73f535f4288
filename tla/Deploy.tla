------------------------------- MODULE Deploy -------------------------------
(***************************************************************************)
(* `vssh deploy-binary` and vssh_deploy_binary: runDeployBinary in         *)
(* cmd/vssh/commands_transfer.go, several of them for one path of one node.*)
(*                                                                         *)
(* A deploy uploads its binary to a staging file (a PUT, which replaces    *)
(* the file as a whole or not at all: FileTransfer), has the node run one  *)
(* command line that installs it, and a second one that shows its version. *)
(* The staging file is named after the client's process and the path; the  *)
(* command line copies it to path.new and renames that.  An execution of   *)
(* the command line goes on when the client has gone, and the exec pool    *)
(* may start a second one when its connection was lost (MuxExec).          *)
(***************************************************************************)
EXTENDS Naturals, Sequences, FiniteSets

CONSTANTS Deploys,      \* each ships a binary of its own
          Processes,    \* clients: `vssh mcp` makes many deploys
          Before,       \* the binary the path has before
          Nothing,
          Size,         \* blocks of a binary
          MaxLostCalls  \* bound: calls whose answer is lost or too late

\* The second execution is that of a retry.  An inode is named by the
\* execution that created it.
Executions == Deploys \X {1, 2}

ASSUME DeployAssumption ==
  /\ {Before, Nothing} \cap (Deploys \cup Executions) = {} /\ Before # Nothing
  /\ Size \in Nat \ {0} /\ MaxLostCalls \in Nat

BinaryInodes == Executions \cup {Before}

VARIABLES
  process, \* the process of each deploy
  deploy,  \* where each client is, and the execution it waits for
  staged,  \* the staging file of each process: a binary, or Nothing
  inst,    \* the executions: where they are, what they copy and to where
  node,    \* the inodes of path and path.new
  content, \* their blocks
  met,     \* history: two executions ran at once
  was,     \* history: the binaries that an execution put under the path
  lostCalls

deployVars == <<process, deploy, staged, inst, node, content, met, was, lostCalls>>

NoInst    == [at |-> "none", of |-> Nothing, to |-> Nothing, n |-> 0]

DeployTypeOK ==
  /\ process \in [Deploys -> Processes]
  /\ deploy \in [Deploys -> [at : {"idle", "install", "verify", "ok", "failed"}, k : 1..2]]
  /\ staged \in [Processes -> Deploys \cup {Nothing}]
  /\ inst \in [Executions -> [at : {"none", "open", "copy", "rename", "clean", "restart", "ok",
                                   "failed", "killed"},
                             of : Deploys \cup {Nothing}, to : BinaryInodes \cup {Nothing},
                             n : 0..Size]]
  /\ node \in [path : BinaryInodes, new : Executions \cup {Nothing}]
  /\ content \in [BinaryInodes -> Seq(Deploys \cup {Before, Nothing})]
  /\ met \in BOOLEAN /\ was \subseteq Deploys /\ lostCalls \in 0..MaxLostCalls

DeployInit ==
  /\ process \in [Deploys -> Processes]
  /\ deploy = [d \in Deploys |-> [at |-> "idle", k |-> 1]]
  /\ staged = [p \in Processes |-> Nothing]
  /\ inst = [e \in Executions |-> NoInst]
  /\ node = [path |-> Before, new |-> Nothing]
  /\ content = [i \in BinaryInodes |-> IF i = Before THEN [b \in 1..Size |-> Before] ELSE <<>>]
  /\ met = FALSE /\ was = {} /\ lostCalls = 0

----------------------------------------------------------------------------
(* The client.                                                             *)

Running(e) == inst[e].at \notin {"none", "ok", "failed", "killed"}

\* The daemon starts the command line for a call.
Start(d, k) ==
  /\ inst' = [inst EXCEPT ![<<d, k>>].at = "open"]
  /\ met' = (met \/ \E e \in Executions : Running(e))
  /\ deploy' = [deploy EXCEPT ![d] = [at |-> "install", k |-> k]]

\* A process makes one deploy at a time (cmdMcp answers one request after the
\* other).  The upload fails, or it is followed by the call to install.
UploadStage(d) ==
  /\ deploy[d].at = "idle"
  /\ \A c \in Deploys \ {d} : process[c] = process[d] => deploy[c].at \in {"idle", "ok", "failed"}
  /\ \/ /\ deploy' = [deploy EXCEPT ![d].at = "failed"]
        /\ UNCHANGED <<staged, inst, met>>
     \/ /\ staged' = [staged EXCEPT ![process[d]] = d]
        /\ Start(d, 1)
  /\ UNCHANGED <<process, node, content, was, lostCalls>>

\* Mutant: any answer counts as success.
Installed_AnyAnswer(d) ==
  /\ deploy[d].at = "install"
  /\ inst[<<d, deploy[d].k>>].at \in {"ok", "failed"}
  /\ deploy' = [deploy EXCEPT ![d].at = "verify"]
  /\ UNCHANGED <<process, staged, inst, node, content, met, was, lostCalls>>

\* The answer arrives.
Installed(d) ==
  LET r == inst[<<d, deploy[d].k>>].at IN
  /\ deploy[d].at = "install"
  /\ r \in {"ok", "failed"}
  /\ deploy' = [deploy EXCEPT ![d].at = IF r = "ok" THEN "verify" ELSE "failed"]
  /\ UNCHANGED <<process, staged, inst, node, content, met, was, lostCalls>>

\* The answer does not arrive in 30 s, or the connection is lost: the client
\* fails, or a pooled one that takes the loss for an idle close tries again.
NoAnswer(d) ==
  /\ deploy[d].at = "install"
  /\ inst[<<d, deploy[d].k>>].at # "killed" => lostCalls < MaxLostCalls
  /\ lostCalls' = IF inst[<<d, deploy[d].k>>].at = "killed" THEN lostCalls ELSE lostCalls + 1
  /\ \/ /\ deploy' = [deploy EXCEPT ![d].at = "failed"]
        /\ UNCHANGED <<inst, met>>
     \/ deploy[d].k = 1 /\ Start(d, 2)
  /\ UNCHANGED <<process, staged, node, content, was>>

\* The last call only shows a version: what comes of it changes nothing.
ShowVersion(d) ==
  /\ deploy[d].at = "verify"
  /\ deploy' = [deploy EXCEPT ![d].at = "ok"]
  /\ UNCHANGED <<process, staged, inst, node, content, met, was, lostCalls>>

----------------------------------------------------------------------------
(* An execution of the command line, each command after the success of the *)
(* one before.                                                             *)

Step(e, label) == inst' = [inst EXCEPT ![e].at = label]

\* Mutant: the binary is copied over the path itself.
OpenCopy_InPlace(e) ==
  LET b == staged[process[e[1]]] IN
  /\ inst[e].at = "open"
  /\ IF b = Nothing THEN Step(e, "failed") /\ UNCHANGED content
     ELSE /\ inst' = [inst EXCEPT ![e] = [at |-> "copy", of |-> b, to |-> node.path, n |-> 0]]
          /\ content' = [content EXCEPT ![node.path] = <<>>]
  /\ UNCHANGED <<process, deploy, staged, node, met, was, lostCalls>>

\* cp opens the staging file, if there is one, and creates path.new or
\* empties the one it finds.
OpenCopy(e) ==
  LET b == staged[process[e[1]]]
      i == IF node.new = Nothing THEN e ELSE node.new IN
  /\ inst[e].at = "open"
  /\ IF b = Nothing THEN Step(e, "failed") /\ UNCHANGED <<node, content>>
     ELSE /\ inst' = [inst EXCEPT ![e] = [at |-> "copy", of |-> b, to |-> i, n |-> 0]]
          /\ node' = [node EXCEPT !.new = i]
          /\ content' = [content EXCEPT ![i] = <<>>]
  /\ UNCHANGED <<process, deploy, staged, met, was, lostCalls>>

\* cp writes at its own offset, whatever the file is by now, or finds the
\* disk full.
CopyBlock(e) ==
  LET i == inst[e].to  b == inst[e].n + 1
      Written(s) == [j \in 1..(IF b > Len(s) THEN b ELSE Len(s)) |->
                       IF j = b THEN inst[e].of ELSE IF j <= Len(s) THEN s[j] ELSE Nothing]
  IN
  /\ inst[e].at = "copy"
  /\ \/ b <= Size /\ content' = [content EXCEPT ![i] = Written(@)] /\ inst' = [inst EXCEPT ![e].n = b]
     \/ b > Size /\ Step(e, "rename") /\ UNCHANGED content
     \/ b <= Size /\ Step(e, "failed") /\ UNCHANGED content
  /\ UNCHANGED <<process, deploy, staged, node, met, was, lostCalls>>

\* chmod and mv fail if path.new is gone by now.
RenameNew(e) ==
  /\ inst[e].at = "rename"
  /\ IF node.new = Nothing THEN Step(e, "failed") /\ UNCHANGED node
     ELSE Step(e, "clean") /\ node' = [path |-> node.new, new |-> Nothing]
  /\ was' = IF node.new = Nothing THEN was ELSE was \cup {inst[e].of}
  /\ UNCHANGED <<process, deploy, staged, content, met, lostCalls>>

\* rm -f of the staging file, and a service to restart or none.
RemoveStage(e) ==
  /\ inst[e].at = "clean"
  /\ staged' = [staged EXCEPT ![process[e[1]]] = Nothing]
  /\ \E next \in {"restart", "ok"} : Step(e, next)
  /\ UNCHANGED <<process, deploy, node, content, met, was, lostCalls>>

RestartService(e) ==
  /\ inst[e].at = "restart"
  /\ \E r \in {"ok", "failed"} : Step(e, r)
  /\ UNCHANGED <<process, deploy, staged, node, content, met, was, lostCalls>>

\* The daemon is stopped, maybe by the service restart itself, and what it
\* runs with it.
NodeStops ==
  /\ \E e \in Executions : Running(e)
  /\ inst' = [e \in Executions |-> IF Running(e) THEN [inst[e] EXCEPT !.at = "killed"] ELSE inst[e]]
  /\ UNCHANGED <<process, deploy, staged, node, content, met, was, lostCalls>>

----------------------------------------------------------------------------
Installs(e) == OpenCopy(e) \/ CopyBlock(e) \/ RenameNew(e) \/ RemoveStage(e) \/ RestartService(e)

DeployNext ==
  \/ \E d \in Deploys : UploadStage(d) \/ Installed(d) \/ NoAnswer(d) \/ ShowVersion(d)
  \/ \E e \in Executions : Installs(e)
  \/ NodeStops

DeploySpec == DeployInit /\ [][DeployNext]_deployVars

----------------------------------------------------------------------------
IsWhole(i, b) == content[i] = [n \in 1..Size |-> b]

\* "atomic binary install" (HELP): the path names one binary, all of it, at
\* every moment, whatever stops in the middle and is tried again; and a
\* deploy that reports success did put its own binary there, on whichever
\* attempt.  Two executions that run at once share path.new, and nothing is
\* said of those (runDeployBinary).
DeployIsAtomic ==
  ~met =>
    /\ \E b \in Deploys \cup {Before} : IsWhole(node.path, b)
    /\ \A d \in Deploys : deploy[d].at \in {"verify", "ok"} => d \in was
=============================================================================
