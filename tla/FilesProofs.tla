---------------------------- MODULE FilesProofs ----------------------------
(***************************************************************************)
(* Proofs about what becomes of one file of the daemon.  A binary that is  *)
(* installed is there as a whole (Deploy).  Whatever uploads do, the file  *)
(* is one version, what was answered OK is in it, and a failed upload      *)
(* leaves nothing behind (FileTransfer).  A file fetched in chunks is the  *)
(* file that was announced (ParallelTransfer).                             *)
(*                                                                         *)
(* The theorems about FileTransfer suppose ~Overlap: that uploads which    *)
(* stage under one temporary name do not overlap, which the code does not  *)
(* prevent.  They say what follows where callers keep to it.               *)
(***************************************************************************)
EXTENDS MCFileTransfer, Integers, TLAPS

----------------------------------------------------------------------------
(* Deploy.                                                                 *)

InstRecords == [at : {"none", "open", "copy", "rename", "clean", "restart", "ok", "failed", "killed"},
                of : Deploys \cup {Nothing}, to : BinaryInodes \cup {Nothing}, n : 0..Size]

\* An execution starts once, creates no file that it could find, and copies a
\* binary.
Fresh ==
  /\ \A d \in Deploys : /\ deploy[d].at = "idle" => inst[<<d, 1>>].at = "none" /\ deploy[d].k = 1
                        /\ deploy[d].k = 1 => inst[<<d, 2>>].at = "none"
  /\ \A e \in Executions : inst[e].at \in {"none", "open"} => e # node.path /\ e # node.new
  /\ node.new # node.path
  /\ \A e \in Executions : inst[e].at \in {"copy", "rename"} => inst[e].of \in Deploys

\* While a client waits, no other deploy of its process stages a binary.
StagedForInstall ==
  \A d \in Deploys : deploy[d].at = "install" => staged[process[d]] \in {d, Nothing}

\* An execution that runs alone: it copies the binary of its own deploy, to
\* the file it renames.
Undisturbed(e) ==
  /\ Running(e) => staged[process[e[1]]] \in {e[1], Nothing}
  /\ inst[e].at \in {"copy", "rename"} => inst[e].of = e[1] /\ node.new # Nothing
  /\ inst[e].at = "copy" => inst[e].to = node.new /\ content[node.new] = [j \in 1..inst[e].n |-> e[1]]
  /\ inst[e].at = "rename" => IsWhole(node.new, e[1])
  /\ inst[e].at \in {"clean", "restart", "ok"} => e[1] \in was

Alone ==
  ~met => /\ \A e, f \in Executions : Running(e) /\ Running(f) => e = f
          /\ \A e \in Executions : Undisturbed(e)

DeployInv == DeployTypeOK /\ Fresh /\ StagedForInstall /\ Alone /\ DeployIsAtomic

LEMMA DeployInitially ==
  ASSUME DeployAssumption, DeployInit PROVE DeployInv
<1>1. DeployTypeOK
  <2>1. inst \in [Executions -> InstRecords]
    BY DEF DeployAssumption, DeployInit, NoInst, InstRecords
  <2>2. content \in [BinaryInodes -> Seq(Deploys \cup {Before, Nothing})]
    <3>1. [b \in 1..Size |-> Before] \in Seq(Deploys \cup {Before, Nothing})
      BY DEF DeployAssumption
    <3>2. <<>> \in Seq(Deploys \cup {Before, Nothing}) OBVIOUS
    <3>q. QED BY <3>1, <3>2 DEF DeployInit
  <2>3. deploy \in [Deploys -> [at : {"idle", "install", "verify", "ok", "failed"}, k : 1..2]]
    BY DEF DeployInit
  <2>4. node \in [path : BinaryInodes, new : Executions \cup {Nothing}]
    BY DEF DeployInit, BinaryInodes
  <2>5. 0 \in 0..MaxLostCalls BY DEF DeployAssumption
  <2>6. /\ process \in [Deploys -> Processes]
        /\ staged \in [Processes -> Deploys \cup {Nothing}]
        /\ met \in BOOLEAN /\ was \subseteq Deploys /\ lostCalls \in 0..MaxLostCalls
    BY <2>5 DEF DeployInit
  <2>q. QED BY <2>1, <2>2, <2>3, <2>4, <2>6 DEF DeployTypeOK, InstRecords
<1>2. \A e \in Executions : inst[e].at = "none" BY DEF DeployInit, NoInst
<1>3. Fresh
  <2>1. node.path = Before /\ node.new = Nothing BY DEF DeployInit
  <2>2. \A d \in Deploys : deploy[d].k = 1 BY DEF DeployInit
  <2>3. \A d \in Deploys : <<d, 1>> \in Executions /\ <<d, 2>> \in Executions BY DEF Executions
  <2>4. \A e \in Executions : e # Before /\ e # Nothing BY DEF DeployAssumption
  <2>q. QED BY <1>2, <2>1, <2>2, <2>3, <2>4 DEF Fresh, DeployAssumption
<1>4. StagedForInstall BY DEF StagedForInstall, DeployInit
<1>5. Alone BY <1>2 DEF Alone, Running, Undisturbed
<1>6. DeployIsAtomic
  <2>1. IsWhole(node.path, Before) BY DEF DeployInit, IsWhole, BinaryInodes
  <2>2. \A d \in Deploys : deploy[d].at = "idle" BY DEF DeployInit
  <2>q. QED BY <2>1, <2>2 DEF DeployIsAtomic
<1>q. QED BY <1>1, <1>3, <1>4, <1>5, <1>6 DEF DeployInv

\* A client that only looks at what there is.
LEMMA ClientKeeps ==
  ASSUME DeployInv, NEW d \in Deploys, NEW l \in {"verify", "ok", "failed"},
         deploy' = [deploy EXCEPT ![d].at = l],
         l \in {"verify", "ok"} /\ ~met => d \in was,
         lostCalls' \in 0..MaxLostCalls,
         UNCHANGED <<process, staged, inst, node, content, met, was>>
  PROVE  DeployInv'
<1>t. DeployTypeOK /\ Fresh /\ StagedForInstall /\ Alone /\ DeployIsAtomic BY DEF DeployInv
<1>1. /\ deploy'[d].at = l /\ deploy'[d].k = deploy[d].k
      /\ \A c \in Deploys \ {d} : deploy'[c] = deploy[c]
  BY <1>t DEF DeployTypeOK
<1>2. deploy' \in [Deploys -> [at : {"idle", "install", "verify", "ok", "failed"}, k : 1..2]]
  <2>0. PICK o : o = deploy[d] OBVIOUS
  <2>1. PICK r : r = [o EXCEPT !.at = l] OBVIOUS
  <2>2. r \in [at : {"idle", "install", "verify", "ok", "failed"}, k : 1..2]
    <3>1. o \in [at : {"idle", "install", "verify", "ok", "failed"}, k : 1..2]
      BY <1>t, <2>0 DEF DeployTypeOK
    <3>q. QED BY <2>1, <3>1
  <2>3. deploy' = [deploy EXCEPT ![d] = r] BY <2>0, <2>1
  <2>q. QED BY <1>t, <2>2, <2>3 DEF DeployTypeOK
<1>3. DeployTypeOK' BY <1>t, <1>2 DEF DeployTypeOK
<1>4. Fresh' BY <1>t, <1>1 DEF Fresh
<1>5. StagedForInstall' BY <1>t, <1>1 DEF StagedForInstall
<1>6. Alone' BY <1>t DEF Alone, Running, Undisturbed, IsWhole
<1>7. DeployIsAtomic' BY <1>t, <1>1 DEF DeployIsAtomic, IsWhole
<1>q. QED BY <1>3, <1>4, <1>5, <1>6, <1>7 DEF DeployInv

\* An execution that starts while none runs, of the binary staged for it.
LEMMA StartKeeps ==
  ASSUME DeployInv, NEW d \in Deploys, NEW k \in 1..2, Start(d, k),
         inst[<<d, k>>].at = "none", deploy[d].k <= k,
         lostCalls' \in 0..MaxLostCalls,
         \/ staged' = [staged EXCEPT ![process[d]] = d] /\ k = 1
            /\ \A c \in Deploys \ {d} : process[c] = process[d] => deploy[c].at # "install"
         \/ staged' = staged /\ staged[process[d]] \in {d, Nothing},
         UNCHANGED <<process, node, content, was>>
  PROVE  DeployInv'
<1>t. DeployTypeOK /\ Fresh /\ StagedForInstall /\ Alone /\ DeployIsAtomic BY DEF DeployInv
<1> DEFINE x == <<d, k>>
<1>x. x \in Executions /\ x[1] = d /\ inst[x].at = "none" BY DEF Executions
<1>1. /\ inst'[x].at = "open" /\ \A e \in Executions \ {x} : inst'[e] = inst[e]
      /\ inst' \in [Executions -> InstRecords]
  <2>1. inst \in [Executions -> InstRecords] BY <1>t DEF DeployTypeOK, InstRecords
  <2>2. PICK r : r = [inst[x] EXCEPT !.at = "open"] OBVIOUS
  <2>3. r \in InstRecords /\ r.at = "open" BY <1>x, <2>1, <2>2 DEF InstRecords
  <2>4. inst' = [inst EXCEPT ![x] = r] BY <2>2 DEF Start
  <2>q. QED BY <1>x, <2>1, <2>3, <2>4
<1>2. /\ deploy'[d] = [at |-> "install", k |-> k] /\ \A c \in Deploys \ {d} : deploy'[c] = deploy[c]
      /\ deploy' \in [Deploys -> [at : {"idle", "install", "verify", "ok", "failed"}, k : 1..2]]
  BY <1>t DEF DeployTypeOK, Start
<1>3. /\ met' \in BOOLEAN
      /\ ~met' => ~met /\ \A e \in Executions : ~Running(e)
  <2>1. met \in BOOLEAN BY <1>t DEF DeployTypeOK
  <2>2. met' = (met \/ \E e \in Executions : Running(e)) BY DEF Start
  <2>q. QED BY <2>1, <2>2, Zenon
<1>s. staged' \in [Processes -> Deploys \cup {Nothing}] /\ staged'[process[d]] \in {d, Nothing}
  <2>1. process[d] \in Processes /\ staged \in [Processes -> Deploys \cup {Nothing}]
    BY <1>t DEF DeployTypeOK
  <2>2. CASE staged' = [staged EXCEPT ![process[d]] = d] BY <2>1, <2>2
  <2>3. CASE staged' = staged /\ staged[process[d]] \in {d, Nothing} BY <2>1, <2>3
  <2>q. QED BY <2>2, <2>3
<1>4. DeployTypeOK' BY <1>t, <1>1, <1>2, <1>3, <1>s DEF DeployTypeOK, InstRecords
<1>5. Fresh'
  <2>1. \A e \in Executions : inst'[e].at \in {"none", "open"} => inst[e].at \in {"none", "open"}
    BY <1>1, <1>x
  <2>2. ASSUME NEW c \in Deploys
        PROVE /\ deploy'[c].at = "idle" => inst'[<<c, 1>>].at = "none" /\ deploy'[c].k = 1
              /\ deploy'[c].k = 1 => inst'[<<c, 2>>].at = "none"
    <3>1. <<c, 1>> \in Executions /\ <<c, 2>> \in Executions BY DEF Executions
    <3>2. CASE c = d
      <4>1. deploy'[c].at = "install" /\ deploy'[c].k = k BY <1>2, <3>2
      <4>2. k = 1 => deploy[c].k = 1 BY <1>t, <3>2 DEF DeployTypeOK
      <4>3. k = 1 => <<c, 2>> # x OBVIOUS
      <4>q. QED BY <1>1, <1>t, <3>1, <4>1, <4>2, <4>3 DEF Fresh
    <3>3. CASE c # d
      <4>1. <<c, 1>> # x /\ <<c, 2>> # x BY <3>3
      <4>q. QED BY <1>1, <1>2, <1>t, <3>1, <3>3, <4>1 DEF Fresh
    <3>q. QED BY <3>2, <3>3
  <2>3. \A e \in Executions : inst'[e].at \in {"copy", "rename"} => inst'[e].of \in Deploys
    BY <1>1, <1>t, <1>x DEF Fresh
  <2>4. \A e \in Executions : inst'[e].at \in {"none", "open"} => e # node'.path /\ e # node'.new
    BY <1>t, <2>1 DEF Fresh
  <2>5. node'.new # node'.path BY <1>t DEF Fresh
  <2>q. QED BY <2>2, <2>3, <2>4, <2>5 DEF Fresh
<1>6. StagedForInstall'
  <2>1. ASSUME NEW c \in Deploys, deploy'[c].at = "install" PROVE staged'[process[c]] \in {c, Nothing}
    <3>1. CASE c = d BY <1>s, <3>1
    <3>2. CASE c # d
      <4>1. deploy[c].at = "install" /\ staged[process[c]] \in {c, Nothing} /\ process[c] \in Processes
        BY <1>t, <1>2, <2>1, <3>2 DEF StagedForInstall, DeployTypeOK
      <4>2. CASE staged' = staged BY <4>1, <4>2
      <4>3. CASE process[c] # process[d] /\ staged' = [staged EXCEPT ![process[d]] = d]
        BY <1>t, <4>1, <4>3 DEF DeployTypeOK
      <4>q. QED BY <3>2, <4>1, <4>2, <4>3
    <3>q. QED BY <3>1, <3>2
  <2>q. QED BY <2>1 DEF StagedForInstall
<1>7. Alone'
  <2> SUFFICES ASSUME ~met'
               PROVE  /\ \A e, f \in Executions : Running(e)' /\ Running(f)' => e = f
                      /\ \A e \in Executions : Undisturbed(e)'
    BY DEF Alone
  <2>1. \A e \in Executions : Running(e)' <=> e = x
    BY <1>1, <1>3, <1>x DEF Running
  <2>2. ASSUME NEW e \in Executions PROVE Undisturbed(e)'
    <3>1. CASE e = x BY <1>1, <1>s, <1>x, <3>1 DEF Undisturbed, Running
    <3>2. CASE e # x BY <1>1, <1>3, <1>t, <2>1, <3>2 DEF Undisturbed, Running, Alone
    <3>q. QED BY <3>1, <3>2
  <2>q. QED BY <2>1, <2>2
<1>8. DeployIsAtomic'
  <2>1. \A c \in Deploys : deploy'[c].at \in {"verify", "ok"} => deploy[c].at \in {"verify", "ok"}
    BY <1>2
  <2>2. \A b : IsWhole(node.path, b)' <=> IsWhole(node.path, b) BY DEF IsWhole
  <2>q. QED BY <1>t, <1>3, <2>1, <2>2 DEF DeployIsAtomic
<1>q. QED BY <1>4, <1>5, <1>6, <1>7, <1>8 DEF DeployInv

LEMMA ClientsInstall ==
  ASSUME DeployAssumption, DeployInv, NEW d \in Deploys,
         UploadStage(d) \/ Installed(d) \/ NoAnswer(d) \/ ShowVersion(d)
  PROVE  DeployInv'
<1>t. DeployTypeOK /\ Fresh /\ StagedForInstall /\ Alone /\ DeployIsAtomic BY DEF DeployInv
<1>l. lostCalls \in 0..MaxLostCalls BY <1>t DEF DeployTypeOK
<1>k. deploy[d].k \in 1..2 /\ deploy[d].k \in {1, 2} /\ <<d, deploy[d].k>> \in Executions
  <2>1. deploy[d].k \in 1..2 BY <1>t DEF DeployTypeOK
  <2>2. deploy[d].k \in {1, 2} BY <2>1
  <2>q. QED BY <2>1, <2>2 DEF Executions
<1>f. /\ deploy[d].at = "idle" => inst[<<d, 1>>].at = "none" /\ deploy[d].k = 1
      /\ deploy[d].k = 1 => inst[<<d, 2>>].at = "none"
  BY <1>t DEF Fresh
<1>n. 1 \in 1..2 /\ 2 \in 1..2 /\ 1 <= 1 /\ 1 <= 2 OBVIOUS
<1>1. CASE UploadStage(d)
  <2>1. CASE deploy' = [deploy EXCEPT ![d].at = "failed"] /\ UNCHANGED <<staged, inst, met>>
    BY <1>1, <1>l, <2>1, ClientKeeps DEF UploadStage
  <2>2. CASE staged' = [staged EXCEPT ![process[d]] = d] /\ Start(d, 1)
    <3>1. inst[<<d, 1>>].at = "none" /\ deploy[d].k <= 1
      BY <1>1, <1>f, <1>n DEF UploadStage
    <3>2. \A c \in Deploys \ {d} : process[c] = process[d] => deploy[c].at # "install"
      BY <1>1 DEF UploadStage
    <3>3. UNCHANGED <<process, node, content, was, lostCalls>> BY <1>1 DEF UploadStage
    <3>q. QED BY <1>l, <1>n, <2>2, <3>1, <3>2, <3>3, StartKeeps
  <2>q. QED BY <1>1, <2>1, <2>2 DEF UploadStage
<1>2. CASE Installed(d)
  <2>1. CASE inst[<<d, deploy[d].k>>].at = "ok"
    <3>1. ~met => d \in was BY <1>k, <1>t, <2>1 DEF Alone, Undisturbed
    <3>q. QED BY <1>2, <1>l, <2>1, <3>1, ClientKeeps DEF Installed
  <2>2. CASE inst[<<d, deploy[d].k>>].at # "ok"
    BY <1>2, <1>l, <2>2, ClientKeeps DEF Installed
  <2>q. QED BY <2>1, <2>2
<1>3. CASE NoAnswer(d)
  <2>1. lostCalls' \in 0..MaxLostCalls BY <1>3, <1>l DEF NoAnswer, DeployAssumption
  <2>2. CASE deploy' = [deploy EXCEPT ![d].at = "failed"] /\ UNCHANGED <<inst, met>>
    BY <1>3, <2>1, <2>2, ClientKeeps DEF NoAnswer
  <2>3. CASE deploy[d].k = 1 /\ Start(d, 2)
    <3>1. inst[<<d, 2>>].at = "none" /\ deploy[d].k <= 2 BY <1>f, <1>n, <2>3
    <3>2. staged[process[d]] \in {d, Nothing} BY <1>3, <1>t DEF NoAnswer, StagedForInstall
    <3>3. UNCHANGED <<process, staged, node, content, was>> BY <1>3 DEF NoAnswer
    <3>q. QED BY <1>n, <2>1, <2>3, <3>1, <3>2, <3>3, StartKeeps
  <2>q. QED BY <1>3, <2>2, <2>3 DEF NoAnswer
<1>4. CASE ShowVersion(d)
  <2>1. ~met => d \in was BY <1>4, <1>t DEF ShowVersion, DeployIsAtomic
  <2>q. QED BY <1>4, <1>l, <2>1, ClientKeeps DEF ShowVersion
<1>q. QED BY <1>1, <1>2, <1>3, <1>4

\* An execution goes on: what it owes is that it leaves the path whole, and
\* its own promise for the next command.
LEMMA ExecutionKeeps ==
  ASSUME DeployInv, NEW e \in Executions, Running(e),
         NEW r \in InstRecords, r.at \notin {"none", "open"}, r.at \in {"copy", "rename"} => r.of \in Deploys,
         inst' = [inst EXCEPT ![e] = r],
         was \subseteq was', was' \subseteq Deploys,
         staged' = staged \/ staged' = [staged EXCEPT ![process[e[1]]] = Nothing],
         node' \in [path : BinaryInodes, new : Executions \cup {Nothing}],
         content' \in [BinaryInodes -> Seq(Deploys \cup {Before, Nothing})],
         node'.new # node'.path,
         \A f \in Executions \ {e} : inst[f].at \in {"none", "open"} => f # node'.path /\ f # node'.new,
         ~met => Undisturbed(e)' /\ \E b \in Deploys \cup {Before} : IsWhole(node.path, b)',
         UNCHANGED <<process, deploy, met, lostCalls>>
  PROVE  DeployInv'
<1>t. DeployTypeOK /\ Fresh /\ StagedForInstall /\ Alone /\ DeployIsAtomic BY DEF DeployInv
<1>1. /\ inst'[e] = r /\ \A f \in Executions \ {e} : inst'[f] = inst[f]
      /\ inst' \in [Executions -> InstRecords]
  BY <1>t DEF DeployTypeOK, InstRecords
<1>2. /\ staged' \in [Processes -> Deploys \cup {Nothing}]
      /\ \A p \in Processes : staged'[p] \in {staged[p], Nothing}
  BY <1>t DEF DeployTypeOK
<1>3. DeployTypeOK' BY <1>t, <1>1, <1>2 DEF DeployTypeOK, InstRecords
<1>4. Fresh'
  <2>1. \A f \in Executions : inst'[f].at \in {"none", "open"} => f # e /\ inst[f].at \in {"none", "open"}
    BY <1>1
  <2>2. inst[e].at # "none" BY DEF Running
  <2>3. \A f \in Executions : inst[f].at = "none" => inst'[f].at = "none" BY <1>1, <2>2
  <2>4. \A d \in Deploys : <<d, 1>> \in Executions /\ <<d, 2>> \in Executions BY DEF Executions
  <2>5. \A d \in Deploys : /\ deploy'[d].at = "idle" => inst'[<<d, 1>>].at = "none" /\ deploy'[d].k = 1
                           /\ deploy'[d].k = 1 => inst'[<<d, 2>>].at = "none"
    BY <1>t, <2>3, <2>4 DEF Fresh
  <2>6. \A f \in Executions : inst'[f].at \in {"none", "open"} => f # node'.path /\ f # node'.new
    BY <2>1
  <2>7. \A f \in Executions : inst'[f].at \in {"copy", "rename"} => inst'[f].of \in Deploys
    BY <1>1, <1>t DEF Fresh
  <2>q. QED BY <2>5, <2>6, <2>7 DEF Fresh
<1>5. StagedForInstall' BY <1>t, <1>2 DEF StagedForInstall, DeployTypeOK
<1>6. Alone'
  <2> SUFFICES ASSUME ~met
               PROVE  /\ \A f, g \in Executions : Running(f)' /\ Running(g)' => f = g
                      /\ \A f \in Executions : Undisturbed(f)'
    BY DEF Alone
  <2>1. \A f \in Executions \ {e} : ~Running(f) /\ Undisturbed(f) BY <1>t DEF Alone
  <2>2. \A f \in Executions \ {e} : ~Running(f)' /\ Undisturbed(f)'
    BY <1>1, <2>1 DEF Running, Undisturbed
  <2>q. QED BY <2>2
<1>7. DeployIsAtomic'
  <2>1. ~met => \A d \in Deploys : deploy[d].at \in {"verify", "ok"} => d \in was
    BY <1>t DEF DeployIsAtomic
  <2>2. \A b : IsWhole(node.path, b)' <=> content'[node'.path] = [n \in 1..Size |-> b]
    BY DEF IsWhole
  <2>q. QED BY <2>1, <2>2 DEF DeployIsAtomic, IsWhole
<1>q. QED BY <1>3, <1>4, <1>5, <1>6, <1>7 DEF DeployInv

\* A command that leaves the files alone.
LEMMA QuietExecutionKeeps ==
  ASSUME DeployInv, NEW e \in Executions, Running(e),
         NEW l \in {"clean", "restart", "ok", "failed"}, Step(e, l),
         l # "failed" => inst[e].at \in {"clean", "restart"},
         staged' = staged \/ staged' = [staged EXCEPT ![process[e[1]]] = Nothing],
         UNCHANGED <<process, deploy, node, content, met, was, lostCalls>>
  PROVE  DeployInv'
<1>t. DeployTypeOK /\ Fresh /\ Alone /\ DeployIsAtomic BY DEF DeployInv
<1>0. inst[e] \in InstRecords BY <1>t DEF DeployTypeOK, InstRecords
<1>1. PICK r \in InstRecords : /\ r.at = l /\ inst' = [inst EXCEPT ![e] = r]
  <2>1. [inst[e] EXCEPT !.at = l] \in InstRecords /\ [inst[e] EXCEPT !.at = l].at = l
    BY <1>0 DEF InstRecords
  <2>q. QED BY <2>1 DEF Step
<1>2. inst'[e] = r BY <1>t, <1>1 DEF DeployTypeOK
<1>3. e[1] \in Deploys /\ process[e[1]] \in Processes BY <1>t DEF DeployTypeOK, Executions
<1>4. ~met => Undisturbed(e)'
  <2> SUFFICES ASSUME ~met PROVE Undisturbed(e)' OBVIOUS
  <2>1. Undisturbed(e) BY <1>t DEF Alone
  <2>2. staged'[process[e[1]]] \in {e[1], Nothing}
    BY <1>3, <1>t, <2>1 DEF Undisturbed, DeployTypeOK
  <2>q. QED BY <1>1, <1>2, <2>1, <2>2 DEF Undisturbed
<1>5. ~met => \E b \in Deploys \cup {Before} : IsWhole(node.path, b)'
  BY <1>t DEF DeployIsAtomic, IsWhole
<1>6. /\ node' \in [path : BinaryInodes, new : Executions \cup {Nothing}]
      /\ content' \in [BinaryInodes -> Seq(Deploys \cup {Before, Nothing})]
      /\ was' \subseteq Deploys
  BY <1>t DEF DeployTypeOK
<1>7. /\ node'.new # node'.path
      /\ \A f \in Executions \ {e} : inst[f].at \in {"none", "open"} => f # node'.path /\ f # node'.new
  BY <1>t DEF Fresh
<1>q. QED BY <1>1, <1>4, <1>5, <1>6, <1>7, ExecutionKeeps

LEMMA OpenCopyKeeps ==
  ASSUME DeployAssumption, DeployInv, NEW e \in Executions, OpenCopy(e)
  PROVE  DeployInv'
<1>t. DeployTypeOK /\ Fresh /\ Alone /\ DeployIsAtomic BY DEF DeployInv
<1>e. e[1] \in Deploys /\ process[e[1]] \in Processes /\ e # Nothing /\ e \in BinaryInodes
  BY <1>t DEF DeployTypeOK, Executions, DeployAssumption, BinaryInodes
<1>o. inst[e].at = "open" /\ Running(e) BY DEF OpenCopy, Running
<1>1. PICK b : b = staged[process[e[1]]] OBVIOUS
<1>2. CASE b = Nothing BY <1>1, <1>2, <1>o, QuietExecutionKeeps DEF OpenCopy
<1>3. CASE b # Nothing
  <2>1. b \in Deploys /\ (~met => b = e[1])
    <3>1. b \in Deploys BY <1>1, <1>3, <1>e, <1>t DEF DeployTypeOK
    <3>2. ~met => b \in {e[1], Nothing} BY <1>1, <1>o, <1>t DEF Alone, Undisturbed
    <3>q. QED BY <1>3, <3>1, <3>2
  <2>2. PICK i : i = IF node.new = Nothing THEN e ELSE node.new OBVIOUS
  <2>3. i \in Executions /\ i \in BinaryInodes /\ i # Nothing /\ i # node.path
        /\ (i = e \/ i = node.new)
    BY <1>e, <1>o, <1>t, <2>2 DEF DeployTypeOK, Fresh, BinaryInodes
  <2>4. PICK r : r = [at |-> "copy", of |-> b, to |-> i, n |-> 0] OBVIOUS
  <2>5. r \in InstRecords /\ r.at = "copy" /\ r.of = b /\ r.to = i /\ r.n = 0
    BY <2>1, <2>3, <2>4 DEF InstRecords, DeployAssumption
  <2>6. /\ inst' = [inst EXCEPT ![e] = r] /\ node' = [node EXCEPT !.new = i]
        /\ content' = [content EXCEPT ![i] = <<>>]
    BY <1>1, <1>3, <2>2, <2>4 DEF OpenCopy
  <2>7. UNCHANGED <<process, deploy, staged, met, was, lostCalls>> BY DEF OpenCopy
  <2>8. inst'[e] = r BY <1>t, <2>6 DEF DeployTypeOK
  <2>9. /\ node' \in [path : BinaryInodes, new : Executions \cup {Nothing}]
        /\ node'.new = i /\ node'.path = node.path /\ node.path \in BinaryInodes
    BY <1>t, <2>3, <2>6 DEF DeployTypeOK
  <2>10. /\ content' \in [BinaryInodes -> Seq(Deploys \cup {Before, Nothing})]
         /\ content'[i] = <<>> /\ content'[node.path] = content[node.path]
    BY <1>t, <2>3, <2>6, <2>9 DEF DeployTypeOK
  <2>11. ~met => Undisturbed(e)'
    <3> SUFFICES ASSUME ~met PROVE Undisturbed(e)' OBVIOUS
    <3>1. staged'[process'[e[1]]] \in {e[1], Nothing}
      BY <1>o, <1>t, <2>7 DEF Alone, Undisturbed
    <3>2. [j \in 1..0 |-> e[1]] = <<>> OBVIOUS
    <3>q. QED BY <2>1, <2>3, <2>5, <2>8, <2>9, <2>10, <3>1, <3>2 DEF Undisturbed
  <2>12. ~met => \E c \in Deploys \cup {Before} : IsWhole(node.path, c)'
    BY <1>t, <2>9, <2>10 DEF DeployIsAtomic, IsWhole
  <2>13. \A f \in Executions \ {e} : inst[f].at \in {"none", "open"} => f # node'.path /\ f # node'.new
    BY <1>t, <2>3, <2>9 DEF Fresh
  <2>14. was' \subseteq Deploys BY <1>t, <2>7 DEF DeployTypeOK
  <2>15. r.of \in Deploys BY <2>1, <2>5
  <2>q. QED BY <1>o, <2>3, <2>5, <2>6, <2>7, <2>9, <2>10, <2>11, <2>12, <2>13, <2>14, <2>15, ExecutionKeeps
<1>q. QED BY <1>2, <1>3

LEMMA CopyBlockKeeps ==
  ASSUME DeployAssumption, DeployInv, NEW e \in Executions, CopyBlock(e)
  PROVE  DeployInv'
<1>t. DeployTypeOK /\ Fresh /\ Alone /\ DeployIsAtomic BY DEF DeployInv
<1>o. inst[e].at = "copy" /\ Running(e) BY DEF CopyBlock, Running
<1>i. inst[e] \in InstRecords BY <1>t DEF DeployTypeOK, InstRecords
<1>n. UNCHANGED <<process, deploy, staged, node, met, was, lostCalls>> BY DEF CopyBlock
<1>1. CASE Step(e, "failed") /\ UNCHANGED content BY <1>1, <1>n, <1>o, QuietExecutionKeeps
<1>k. /\ node' \in [path : BinaryInodes, new : Executions \cup {Nothing}]
      /\ was' \subseteq Deploys /\ node'.new # node'.path
      /\ \A f \in Executions \ {e} : inst[f].at \in {"none", "open"} => f # node'.path /\ f # node'.new
  BY <1>t, <1>n DEF DeployTypeOK, Fresh
<1>b. inst[e].of \in Deploys BY <1>o, <1>t DEF Fresh
<1>u. ~met => Undisturbed(e) BY <1>t DEF Alone
<1>2. CASE inst[e].n + 1 > Size /\ Step(e, "rename") /\ UNCHANGED content
  <2>1. PICK r \in InstRecords : r.at = "rename" /\ r.of = inst[e].of /\ inst' = [inst EXCEPT ![e] = r]
    <3>1. [inst[e] EXCEPT !.at = "rename"] \in InstRecords BY <1>i DEF InstRecords
    <3>2. [inst[e] EXCEPT !.at = "rename"].at = "rename" /\ [inst[e] EXCEPT !.at = "rename"].of = inst[e].of
      BY <1>i DEF InstRecords
    <3>q. QED BY <1>2, <3>1, <3>2 DEF Step
  <2>2. inst[e].n = Size BY <1>2, <1>i DEF InstRecords, DeployAssumption
  <2>3. ~met => Undisturbed(e)'
    <3> SUFFICES ASSUME ~met PROVE Undisturbed(e)' OBVIOUS
    <3>1. inst'[e] = r BY <1>t, <2>1 DEF DeployTypeOK
    <3>2. content[node.new] = [j \in 1..Size |-> e[1]] BY <1>o, <1>u, <2>2 DEF Undisturbed
    <3>q. QED BY <1>2, <1>n, <1>o, <1>u, <2>1, <3>1, <3>2 DEF Undisturbed, IsWhole
  <2>4. ~met => \E b \in Deploys \cup {Before} : IsWhole(node.path, b)'
    BY <1>2, <1>n, <1>t DEF DeployIsAtomic, IsWhole
  <2>5. content' \in [BinaryInodes -> Seq(Deploys \cup {Before, Nothing})] BY <1>2, <1>t DEF DeployTypeOK
  <2>q. QED BY <1>b, <1>k, <1>n, <1>o, <2>1, <2>3, <2>4, <2>5, ExecutionKeeps
<1>p. PICK i, b, s : i = inst[e].to /\ b = inst[e].n + 1 /\ s = content[i] OBVIOUS
<1>w. PICK w : w = [j \in 1..(IF b > Len(s) THEN b ELSE Len(s)) |->
                      IF j = b THEN inst[e].of ELSE IF j <= Len(s) THEN s[j] ELSE Nothing]
  OBVIOUS
<1>3. CASE b <= Size /\ inst' = [inst EXCEPT ![e].n = b] /\ content' = [content EXCEPT ![i] = w]
  <2>2. b \in 1..Size /\ b \in Nat /\ inst[e].n \in Nat BY <1>3, <1>i, <1>p DEF InstRecords, DeployAssumption
  <2>3. PICK r \in InstRecords : /\ r.at = "copy" /\ r.of = inst[e].of /\ r.to = i /\ r.n = b
                                 /\ inst' = [inst EXCEPT ![e] = r]
    <3>1. [inst[e] EXCEPT !.n = b] \in InstRecords BY <1>i, <2>2 DEF InstRecords
    <3>2. /\ [inst[e] EXCEPT !.n = b].at = "copy" /\ [inst[e] EXCEPT !.n = b].of = inst[e].of
          /\ [inst[e] EXCEPT !.n = b].to = i /\ [inst[e] EXCEPT !.n = b].n = b
      BY <1>i, <1>o, <1>p, <2>2 DEF InstRecords
    <3>q. QED BY <1>3, <3>1, <3>2
  <2>7. content' \in [BinaryInodes -> Seq(Deploys \cup {Before, Nothing})]
    <3>1. CASE i \in BinaryInodes
      <4>1. s \in Seq(Deploys \cup {Before, Nothing}) BY <1>t, <1>p, <3>1 DEF DeployTypeOK
      <4>2. w \in Seq(Deploys \cup {Before, Nothing}) BY <1>i, <1>w, <2>2, <4>1 DEF InstRecords
      <4>q. QED BY <1>t, <1>3, <4>2 DEF DeployTypeOK
    <3>2. CASE i \notin BinaryInodes BY <1>3, <1>t, <3>2 DEF DeployTypeOK
    <3>q. QED BY <3>1, <3>2
  <2>8. ~met => Undisturbed(e)' /\ i = node.new
    <3> SUFFICES ASSUME ~met PROVE Undisturbed(e)' /\ i = node.new OBVIOUS
    <3>1. i = node.new /\ s = [j \in 1..inst[e].n |-> e[1]] /\ inst[e].of = e[1] /\ node.new # Nothing
      BY <1>o, <1>p, <1>u DEF Undisturbed
    <3>2. node.new \in BinaryInodes BY <1>t, <3>1 DEF DeployTypeOK, BinaryInodes
    <3>3. Len(s) = inst[e].n BY <2>2, <3>1
    <3>4. w = [j \in 1..b |-> e[1]] BY <1>p, <1>w, <2>2, <3>1, <3>3
    <3>5. content'[node.new] = w BY <1>3, <1>t, <3>1, <3>2 DEF DeployTypeOK
    <3>6. inst'[e] = r BY <1>t, <2>3 DEF DeployTypeOK
    <3>q. QED BY <1>n, <1>o, <1>u, <2>3, <3>1, <3>4, <3>5, <3>6 DEF Undisturbed, Running
  <2>9. ~met => \E c \in Deploys \cup {Before} : IsWhole(node.path, c)'
    <3>1. i # node.path => content'[node.path] = content[node.path]
      BY <1>3, <1>t DEF DeployTypeOK
    <3>q. QED BY <1>n, <1>t, <2>8, <3>1 DEF DeployIsAtomic, IsWhole, Fresh
  <2>q. QED BY <1>b, <1>k, <1>n, <1>o, <2>3, <2>7, <2>8, <2>9, ExecutionKeeps
<1>q. QED
  <2>1. \/ b <= Size /\ inst' = [inst EXCEPT ![e].n = b] /\ content' = [content EXCEPT ![i] = w]
        \/ inst[e].n + 1 > Size /\ Step(e, "rename") /\ UNCHANGED content
        \/ Step(e, "failed") /\ UNCHANGED content
    BY <1>p, <1>w DEF CopyBlock
  <2>q. QED BY <1>1, <1>2, <1>3, <2>1

LEMMA RenameNewKeeps ==
  ASSUME DeployAssumption, DeployInv, NEW e \in Executions, RenameNew(e)
  PROVE  DeployInv'
<1>t. DeployTypeOK /\ Fresh /\ Alone /\ DeployIsAtomic BY DEF DeployInv
<1>o. inst[e].at = "rename" /\ Running(e) BY DEF RenameNew, Running
<1>i. inst[e] \in InstRecords /\ e[1] \in Deploys BY <1>t DEF DeployTypeOK, InstRecords, Executions
<1>n. UNCHANGED <<process, deploy, staged, content, met, lostCalls>> BY DEF RenameNew
<1>1. CASE node.new = Nothing BY <1>1, <1>n, <1>o, QuietExecutionKeeps DEF RenameNew
<1>2. CASE node.new # Nothing
  <2>1. PICK r \in InstRecords : r.at = "clean" /\ inst' = [inst EXCEPT ![e] = r]
    <3>1. [inst[e] EXCEPT !.at = "clean"] \in InstRecords /\ [inst[e] EXCEPT !.at = "clean"].at = "clean"
      BY <1>i DEF InstRecords
    <3>q. QED BY <1>2, <3>1 DEF RenameNew, Step
  <2>2. inst'[e] = r BY <1>t, <2>1 DEF DeployTypeOK
  <2>3. node' = [path |-> node.new, new |-> Nothing] /\ was' = was \cup {inst[e].of}
    BY <1>2 DEF RenameNew
  <2>4. /\ node' \in [path : BinaryInodes, new : Executions \cup {Nothing}]
        /\ node'.path = node.new /\ node'.new = Nothing /\ node.new \in Executions
    BY <1>2, <1>t, <2>3 DEF DeployTypeOK, BinaryInodes
  <2>5. content' \in [BinaryInodes -> Seq(Deploys \cup {Before, Nothing})] BY <1>n, <1>t DEF DeployTypeOK
  <2>6. node'.new # node'.path BY <1>2, <2>4
  <2>7. \A f \in Executions \ {e} : inst[f].at \in {"none", "open"} => f # node'.path /\ f # node'.new
    BY <1>t, <2>4 DEF Fresh, DeployAssumption
  <2>8. was' \subseteq Deploys
    <3>1. inst[e].of \in Deploys BY <1>o, <1>t DEF Fresh
    <3>q. QED BY <1>t, <2>3, <3>1 DEF DeployTypeOK
  <2>9. ~met => Undisturbed(e)' /\ \E b \in Deploys \cup {Before} : IsWhole(node.path, b)'
    <3> SUFFICES ASSUME ~met
                 PROVE  Undisturbed(e)' /\ \E b \in Deploys \cup {Before} : IsWhole(node.path, b)'
      OBVIOUS
    <3>1. Undisturbed(e) BY <1>t DEF Alone
    <3>2. Undisturbed(e)' BY <1>n, <1>o, <2>1, <2>2, <2>3, <3>1 DEF Undisturbed, Running
    <3>3. IsWhole(node.path, e[1])' BY <1>n, <1>o, <2>4, <3>1 DEF Undisturbed, IsWhole
    <3>q. QED BY <1>i, <3>2, <3>3
  <2>q. QED BY <1>n, <1>o, <2>1, <2>3, <2>4, <2>5, <2>6, <2>7, <2>8, <2>9, ExecutionKeeps
<1>q. QED BY <1>1, <1>2

\* The last commands, and a stop of the node, which ends the one that runs.
LEMMA CleaningKeeps ==
  ASSUME DeployAssumption, DeployInv, NEW e \in Executions, RemoveStage(e) \/ RestartService(e)
  PROVE  DeployInv'
<1>1. CASE RemoveStage(e)
  <2>1. PICK l \in {"restart", "ok"} : Step(e, l) BY <1>1 DEF RemoveStage
  <2>2. inst[e].at = "clean" /\ Running(e) BY <1>1 DEF RemoveStage, Running
  <2>q. QED BY <1>1, <2>1, <2>2, QuietExecutionKeeps DEF RemoveStage
<1>2. CASE RestartService(e)
  <2>1. PICK l \in {"ok", "failed"} : Step(e, l) BY <1>2 DEF RestartService
  <2>2. inst[e].at = "restart" /\ Running(e) BY <1>2 DEF RestartService, Running
  <2>q. QED BY <1>2, <2>1, <2>2, QuietExecutionKeeps DEF RestartService
<1>q. QED BY <1>1, <1>2

LEMMA StoppingKeeps ==
  ASSUME DeployInv, NodeStops PROVE DeployInv'
<1>t. DeployTypeOK /\ Fresh /\ StagedForInstall /\ Alone /\ DeployIsAtomic BY DEF DeployInv
<1>n. UNCHANGED <<process, deploy, staged, node, content, met, was, lostCalls>> BY DEF NodeStops
<1>1. ASSUME NEW e \in Executions
      PROVE  /\ inst'[e] \in InstRecords
             /\ Running(e) => inst'[e].at = "killed"
             /\ ~Running(e) => inst'[e] = inst[e]
  <2>1. inst[e] \in InstRecords BY <1>t DEF DeployTypeOK, InstRecords
  <2>2. inst'[e] = IF Running(e) THEN [inst[e] EXCEPT !.at = "killed"] ELSE inst[e] BY DEF NodeStops
  <2>3. [inst[e] EXCEPT !.at = "killed"] \in InstRecords /\ [inst[e] EXCEPT !.at = "killed"].at = "killed"
    BY <2>1 DEF InstRecords
  <2>q. QED BY <2>1, <2>2, <2>3
<1>2. inst' \in [Executions -> InstRecords] BY <1>1 DEF NodeStops
<1>3. DeployTypeOK' BY <1>n, <1>t, <1>2 DEF DeployTypeOK, InstRecords
<1>4. Fresh'
  <2>1. \A e \in Executions : /\ inst'[e].at \in {"none", "open"} => inst[e].at \in {"none", "open"}
                              /\ inst[e].at = "none" => inst'[e].at = "none"
    BY <1>1 DEF Running
  <2>2. \A d \in Deploys : <<d, 1>> \in Executions /\ <<d, 2>> \in Executions BY DEF Executions
  <2>3. \A d \in Deploys : /\ deploy'[d].at = "idle" => inst'[<<d, 1>>].at = "none" /\ deploy'[d].k = 1
                           /\ deploy'[d].k = 1 => inst'[<<d, 2>>].at = "none"
    BY <1>n, <1>t, <2>1, <2>2 DEF Fresh
  <2>4. \A e \in Executions : inst'[e].at \notin {"copy", "rename"} BY <1>1 DEF Running
  <2>5. \A e \in Executions : inst'[e].at \in {"none", "open"} => e # node'.path /\ e # node'.new
    <3>1. \A e \in Executions : inst[e].at \in {"none", "open"} => e # node.path /\ e # node.new
      BY <1>t DEF Fresh
    <3>q. QED BY <1>n, <2>1, <3>1
  <2>6. node'.new # node'.path BY <1>n, <1>t DEF Fresh
  <2>q. QED BY <2>3, <2>4, <2>5, <2>6 DEF Fresh
<1>5. StagedForInstall' BY <1>n, <1>t DEF StagedForInstall
<1>6. Alone'
  <2>1. \A e \in Executions : ~Running(e)' BY <1>1 DEF Running
  <2>2. ASSUME ~met, NEW e \in Executions PROVE Undisturbed(e)'
    <3>1. Undisturbed(e) BY <1>t, <2>2 DEF Alone
    <3>q. QED BY <1>1, <1>n, <2>1, <3>1 DEF Undisturbed, Running
  <2>q. QED BY <1>n, <2>1, <2>2 DEF Alone
<1>7. DeployIsAtomic' BY <1>n, <1>t DEF DeployIsAtomic, IsWhole
<1>q. QED BY <1>3, <1>4, <1>5, <1>6, <1>7 DEF DeployInv

LEMMA DeployStep ==
  ASSUME DeployAssumption, DeployInv, [DeployNext]_deployVars PROVE DeployInv'
<1>1. CASE DeployNext
  BY <1>1, ClientsInstall, OpenCopyKeeps, CopyBlockKeeps, RenameNewKeeps, CleaningKeeps, StoppingKeeps
  DEF DeployNext, Installs
<1>2. CASE UNCHANGED deployVars
  <2>1. DeployTypeOK'
    BY <1>2 DEF deployVars, DeployInv, DeployTypeOK
  <2>2. Fresh' /\ StagedForInstall'
    BY <1>2 DEF deployVars, DeployInv, Fresh, StagedForInstall
  <2>3. Alone'
    <3>1. \A e \in Executions : (Running(e)' <=> Running(e)) /\ (Undisturbed(e)' <=> Undisturbed(e))
      BY <1>2 DEF deployVars, Undisturbed, Running, IsWhole
    <3>2. met' = met
      BY <1>2 DEF deployVars
    <3>q. QED BY <3>1, <3>2 DEF DeployInv, Alone
  <2>4. DeployIsAtomic'
    BY <1>2 DEF deployVars, DeployInv, DeployIsAtomic, IsWhole
  <2>q. QED BY <2>1, <2>2, <2>3, <2>4 DEF DeployInv
<1>q. QED BY <1>1, <1>2

LEMMA DeploysKeepTypes == DeploySpec => []DeployTypeOK
<1>1. DeployInit => DeployInv BY DeployInitially, DeployAssumption
<1>2. DeployInv /\ [DeployNext]_deployVars => DeployInv' BY DeployStep, DeployAssumption
<1>3. DeployInv => DeployTypeOK BY DEF DeployInv
<1>q. QED BY <1>1, <1>2, <1>3, PTL DEF DeploySpec

\* The binary under the path is one version, all of it, at every moment, and a
\* deploy that reports success has put its own there, unless two executions of
\* its command line met (runDeployBinary): for any number of deploys, of
\* processes that make them, of blocks, and of answers that are lost.
THEOREM DeploysAreAtomic == DeploySpec => []DeployIsAtomic
<1>1. DeployInit => DeployInv BY DeployInitially, DeployAssumption
<1>2. DeployInv /\ [DeployNext]_deployVars => DeployInv' BY DeployStep, DeployAssumption
<1>3. DeployInv => DeployIsAtomic BY DEF DeployInv
<1>q. QED BY <1>1, <1>2, <1>3, PTL DEF DeploySpec

----------------------------------------------------------------------------
(* FileTransfer.                                                           *)

UpRecords == [at : {"idle", "asked", "receive", "write", "verify", "rename", "remove", "ok", "error"},
              fd : Inodes \cup {None}, n : 0..Blocks]

Operations == {"flush", "write", "rename", "remove"}

BlockSeqs == Seq(Versions \cup {Hole})

DownRecords == [at : {"idle", "stream", "done"}, fd : Inodes \cup {None}, size : Nat, got : BlockSeqs]

\* What is not the uploads'.
RestOK ==
  /\ down \in [Downloads -> DownRecords]
  /\ \A d \in Downloads : down[d].at = "stream" => down[d].fd # None
  /\ crashes \in 0..MaxCrashes /\ drops \in 0..MaxDrops /\ powerCut \in BOOLEAN
  /\ failed \subseteq Uploads \X Operations

\* A step of upload u records no failure but one of its own.
FailsAlone(u) == failed' = failed \/ \E op \in Operations : failed' = failed \cup {<<u, op>>}

\* An inode that is yet to be created.
Unborn(i) ==
  i \in Uploads /\ (up[i].at \in {"idle", "asked"} \/ (up[i].at = "receive" /\ verb[i] = "putz"))

\* No two names share an inode, no name is that of an inode to come, and no
\* file is longer than a version.
Directory ==
  /\ \A x, y \in Names : name[x] = name[y] /\ name[x] # None => x = y
  /\ \A x \in Names : name[x] # None => ~Unborn(name[x])
  /\ \A i \in Inodes : Len(data[i]) <= Blocks

\* Uploads that stage under one name wait for each other, and for PUTZ.
Exclusive ==
  \A u, w \in Uploads : u # w /\ ~Ended(u) /\ ~Ended(w) => Apart(verb[u], verb[w])

\* A handler at work: its file is the one under its name, and holds what has
\* come so far.
Handles(u) ==
  /\ up[u].at = "idle" => verb[u] = None /\ \A op \in Operations : <<u, op>> \notin failed
  /\ up[u].at \in {"idle", "asked"} => offered[u] = None
  /\ up[u].at # "idle" => verb[u] \in Verbs /\ file[u] \in Versions
  /\ verb[u] \in {"put", "sync", "putz"} => offered[u] = None
  /\ up[u].at = "asked" /\ verb[u] = "put" => up[u].fd = None
  /\ up[u].at = "verify" => verb[u] = "resume"
  /\ up[u].at = "remove" => verb[u] # "putz"
  /\ up[u].at = "write" => verb[u] = "putz" /\ up[u].fd = name["path"]
  /\ up[u].at = "receive" /\ verb[u] # "putz" => up[u].fd = name[Tmp(verb[u])]
  /\ up[u].at = "write" \/ (up[u].at = "receive" /\ verb[u] # "putz") =>
       up[u].fd # None /\ up[u].n = Len(data[up[u].fd])
  /\ up[u].at = "write" \/ (up[u].at = "receive" /\ verb[u] \in {"put", "sync"}) =>
       data[up[u].fd] = [b \in 1..up[u].n |-> file[u]]
  /\ up[u].at = "rename" =>
       /\ verb[u] # "putz" /\ name[Tmp(verb[u])] # None
       /\ Whole(data[name[Tmp(verb[u])]], file[u])
       /\ verb[u] = "put" => name["put.tmp"] \in synced \/ <<u, "flush">> \in failed

TransferInv == TypeOK /\ RestOK /\ Directory /\ Exclusive /\ \A u \in Uploads : Handles(u)

\* A handler is not disturbed by what happens to other names and inodes.
LEMMA OtherHandles ==
  ASSUME TypeOK, NEW w \in Uploads, Handles(w),
         up'[w] = up[w], verb'[w] = verb[w], file'[w] = file[w], offered'[w] = offered[w],
         \A op \in Operations : <<w, op>> \in failed' <=> <<w, op>> \in failed,
         ~Ended(w) =>
           LET x == Tmp(verb[w]) IN
           /\ verb[w] # "putz" /\ name'[x] = name[x]
           /\ name[x] # None => data'[name[x]] = data[name[x]] /\ (name[x] \in synced => name[x] \in synced')
  PROVE  Handles(w)'
<1>1. CASE Ended(w) BY <1>1 DEF Handles, Ended
<1>2. CASE ~Ended(w)
  <2>1. PICK x : x = Tmp(verb[w]) OBVIOUS
  <2>2. /\ verb[w] # "putz" /\ name'[x] = name[x]
        /\ name[x] # None => data'[name[x]] = data[name[x]] /\ (name[x] \in synced => name[x] \in synced')
    BY <1>2, <2>1
  <2>3. verb[w] = "put" => x = "put.tmp" BY <2>1 DEF Tmp
  <2>4. Tmp(verb[w])' = x BY <2>1 DEF Tmp
  <2>5. up[w].at \notin {"idle", "write"} BY <1>2, <2>2 DEF Ended, Handles
  <2>6. <<w, "flush">> \in failed' <=> <<w, "flush">> \in failed BY DEF Operations
  <2>q. QED BY <2>1, <2>2, <2>3, <2>4, <2>5, <2>6 DEF Handles, Whole
<1>q. QED BY <1>1, <1>2

\* A step of one handler: what it owes to the others.
LEMMA HandlerKeeps ==
  ASSUME TransferInv, ~Overlap, NEW u \in Uploads, NEW r \in UpRecords,
         up' = [up EXCEPT ![u] = r], r.at # "idle",
         \/ ~Ended(u) /\ UNCHANGED request
         \/ \E k \in Verbs, v \in Versions : Ask(u, k, v),
         name' \in [Names -> Inodes \cup {None}], data' \in [Inodes -> BlockSeqs],
         synced' \subseteq Inodes, offered' \in [Uploads -> 0..Blocks \cup {None}],
         \A w \in Uploads \ {u} : offered'[w] = offered[w],
         RestOK', FailsAlone(u),
         Directory', Handles(u)',
         verb'[u] # "putz" =>
           \A x \in Names \ {"path", Tmp(verb'[u])} :
             /\ name'[x] = name[x]
             /\ name[x] # None => data'[name[x]] = data[name[x]] /\ (name[x] \in synced => name[x] \in synced')
  PROVE  TransferInv'
<1>t. TypeOK /\ RestOK /\ Directory /\ Exclusive /\ \A w \in Uploads : Handles(w) BY DEF TransferInv
<1>1. up' \in [Uploads -> UpRecords] /\ up'[u] = r /\ \A w \in Uploads \ {u} : up'[w] = up[w]
  BY <1>t DEF TypeOK, UpRecords
<1>2. /\ verb' \in [Uploads -> Verbs \cup {None}] /\ file' \in [Uploads -> Versions \cup {None}]
      /\ \A w \in Uploads \ {u} : verb'[w] = verb[w] /\ file'[w] = file[w]
      /\ \A w \in Uploads \ {u} : ~Ended(w) => Apart(verb'[u], verb[w]) /\ Apart(verb[w], verb'[u])
  <2>1. CASE ~Ended(u) /\ UNCHANGED request
    BY <1>t, <2>1 DEF request, TypeOK, Exclusive
  <2>2. CASE \E k \in Verbs, v \in Versions : Ask(u, k, v)
    <3>1. PICK k \in Verbs, v \in Versions : Ask(u, k, v) BY <2>2
    <3>2. verb' = [verb EXCEPT ![u] = k] /\ file' = [file EXCEPT ![u] = v] BY <3>1 DEF Ask
    <3>3. \A w \in Uploads : Ended(w) \/ Apart(k, verb[w]) BY <3>1 DEF Ask
    <3>4. verb'[u] = k BY <1>t, <3>2 DEF TypeOK
    <3>5. \A w \in Uploads \ {u} : ~Ended(w) => Apart(verb'[u], verb[w]) /\ Apart(verb[w], verb'[u])
      BY <3>3, <3>4 DEF Apart
    <3>q. QED BY <1>t, <3>2, <3>5 DEF TypeOK
  <2>q. QED BY <2>1, <2>2
<1>3. TypeOK' BY <1>1, <1>2 DEF TypeOK, RestOK, UpRecords, DownRecords, BlockSeqs, Operations
<1>4. Exclusive'
  <2>1. \A w \in Uploads \ {u} : Ended(w)' <=> Ended(w) BY <1>1 DEF Ended
  <2>2. ASSUME NEW v \in Uploads, NEW w \in Uploads, v # w, ~Ended(v)', ~Ended(w)'
        PROVE  Apart(verb[v], verb[w])'
    <3>1. Apart(verb'[v], verb'[w]) BY <1>2, <1>t, <2>1, <2>2 DEF Exclusive
    <3>q. QED BY <3>1 DEF Apart, Tmp
  <2>q. QED BY <2>2 DEF Exclusive
<1>5. ASSUME NEW w \in Uploads \ {u} PROVE Handles(w)'
  <2>1. ASSUME ~Ended(w)
        PROVE  LET x == Tmp(verb[w]) IN
               /\ verb[w] # "putz" /\ name'[x] = name[x]
               /\ name[x] # None => data'[name[x]] = data[name[x]] /\ (name[x] \in synced => name[x] \in synced')
    <3>1. Apart(verb'[u], verb[w]) BY <1>2, <2>1
    <3>2. verb'[u] # "putz" /\ verb[w] # "putz" /\ Tmp(verb[w]) \in Names \ {"path", Tmp(verb'[u])}
      BY <3>1 DEF Apart, Tmp, Names
    <3>q. QED BY <3>2
  <2>2. \A op \in Operations : <<w, op>> \in failed' <=> <<w, op>> \in failed BY DEF FailsAlone
  <2>q. QED BY <1>1, <1>2, <1>t, <2>1, <2>2, OtherHandles
<1>q. QED BY <1>3, <1>4, <1>5 DEF TransferInv

\* Handlers that go on leave fewer inodes to be created.
LEMMA FewerUnborn ==
  ASSUME TypeOK, NEW u \in Uploads, NEW r \in UpRecords,
         up' = [up EXCEPT ![u] = r], r.at # "idle",
         \A w \in Uploads \ {u} : verb'[w] = verb[w],
         r.at = "asked" \/ (r.at = "receive" /\ verb'[u] = "putz") => Unborn(u)
  PROVE  /\ \A i \in Inodes : Unborn(i)' => Unborn(i)
         /\ r.at # "asked" /\ (r.at # "receive" \/ verb'[u] # "putz") => ~Unborn(u)'
<1>1. up'[u] = r /\ \A w \in Uploads \ {u} : up'[w] = up[w] BY DEF TypeOK, UpRecords
<1>2. ASSUME NEW i \in Inodes, Unborn(i)' PROVE Unborn(i)
  <2>1. CASE i = u BY <1>1, <1>2, <2>1 DEF Unborn
  <2>2. CASE i # u BY <1>1, <1>2, <2>2 DEF Unborn
  <2>q. QED BY <2>1, <2>2
<1>3. r.at # "asked" /\ (r.at # "receive" \/ verb'[u] # "putz") => ~Unborn(u)' BY <1>1 DEF Unborn
<1>q. QED BY <1>2, <1>3

\* A name that is dropped, and one that takes over the inode of another.
LEMMA DirectoryShrinks ==
  ASSUME TypeOK, Directory, \A i \in Inodes : Unborn(i)' => Unborn(i), data' = data,
         \/ name' = name
         \/ \E x \in Names : name' = [name EXCEPT ![x] = None]
         \/ \E x \in Names \ {"path"} : name' = [name EXCEPT !["path"] = name[x], ![x] = None]
  PROVE  Directory' /\ name' \in [Names -> Inodes \cup {None}]
<1>1. /\ name' \in [Names -> Inodes \cup {None}]
      /\ \A y, z \in Names : name'[y] = name'[z] /\ name'[y] # None => y = z
      /\ \A y \in Names : name'[y] # None => \E z \in Names : name'[y] = name[z]
  <2>1. CASE name' = name BY <2>1 DEF TypeOK, Directory
  <2>2. ASSUME NEW x \in Names, name' = [name EXCEPT ![x] = None]
        PROVE  /\ name' \in [Names -> Inodes \cup {None}]
               /\ \A y, z \in Names : name'[y] = name'[z] /\ name'[y] # None => y = z
               /\ \A y \in Names : name'[y] # None => \E z \in Names : name'[y] = name[z]
    BY <2>2 DEF TypeOK, Directory
  <2>3. ASSUME NEW x \in Names \ {"path"}, name' = [name EXCEPT !["path"] = name[x], ![x] = None]
        PROVE  /\ name' \in [Names -> Inodes \cup {None}]
               /\ \A y, z \in Names : name'[y] = name'[z] /\ name'[y] # None => y = z
               /\ \A y \in Names : name'[y] # None => \E z \in Names : name'[y] = name[z]
    <3>1. "path" \in Names BY DEF Names
    <3>2. /\ name' \in [Names -> Inodes \cup {None}] /\ name'["path"] = name[x] /\ name'[x] = None
          /\ \A y \in Names \ {"path", x} : name'[y] = name[y]
      BY <2>3, <3>1 DEF TypeOK
    <3>q. QED BY <2>3, <3>1, <3>2 DEF Directory
  <2>q. QED BY <2>1, <2>2, <2>3
<1>2. \A y \in Names : name[y] # None => name[y] \in Inodes BY DEF TypeOK
<1>q. QED BY <1>1, <1>2 DEF Directory

\* os.Create of a name that no other shares.
LEMMA CreateGives ==
  ASSUME NameAssumption, BlocksAssumption, TypeOK, Directory, NEW u \in Uploads, NEW x \in Names,
         Unborn(u), Create(u, x), ~Unborn(u)', \A i \in Inodes : Unborn(i)' => Unborn(i)
  PROVE  \E i \in Inodes, r \in UpRecords :
           /\ name' = [name EXCEPT ![x] = i] /\ name' \in [Names -> Inodes \cup {None}]
           /\ data' = [data EXCEPT ![i] = <<>>] /\ data' \in [Inodes -> BlockSeqs]
           /\ synced' = synced \ {i} /\ i # None /\ (name[x] = None \/ i = name[x])
           /\ \A y \in Names \ {x} : name[y] # i
           /\ r.at = (IF up[u].at = "asked" THEN "receive" ELSE "write") /\ r.fd = i /\ r.n = 0
           /\ up' = [up EXCEPT ![u] = r]
           /\ Directory'
<1>1. PICK i : i = IF name[x] = None THEN u ELSE name[x] OBVIOUS
<1>2. i \in Inodes /\ i # None /\ ((name[x] = None /\ i = u) \/ i = name[x])
  BY <1>1 DEF TypeOK, Inodes, NameAssumption
<1>3. \A y \in Names \ {x} : name[y] # i BY <1>2 DEF Directory
<1>4. PICK r : r = [at |-> IF up[u].at = "asked" THEN "receive" ELSE "write", fd |-> i, n |-> 0] OBVIOUS
<1>5. 0 \in 0..Blocks BY BlocksAssumption
<1>6. /\ r \in UpRecords /\ r.fd = i /\ r.n = 0
      /\ r.at = (IF up[u].at = "asked" THEN "receive" ELSE "write")
  BY <1>2, <1>4, <1>5 DEF UpRecords
<1>7. /\ name' = [name EXCEPT ![x] = i] /\ data' = [data EXCEPT ![i] = <<>>] /\ synced' = synced \ {i}
      /\ up' = [up EXCEPT ![u] = r]
  BY <1>1, <1>4 DEF Create
<1>8. /\ name' \in [Names -> Inodes \cup {None}] /\ name'[x] = i
      /\ \A y \in Names \ {x} : name'[y] = name[y]
  BY <1>2, <1>7 DEF TypeOK
<1>9. data' \in [Inodes -> BlockSeqs] BY <1>2, <1>7 DEF TypeOK, BlockSeqs
<1>10. Directory'
  <2>1. \A y, z \in Names : name'[y] = name'[z] /\ name'[y] # None => y = z
    BY <1>3, <1>8 DEF Directory
  <2>2. \A y \in Names : name'[y] # None => ~Unborn(name[y])'
    <3>1. ~Unborn(i)' BY <1>2 DEF Directory
    <3>2. \A y \in Names \ {x} : name'[y] # None => ~Unborn(name[y])'
      BY <1>8 DEF Directory, TypeOK
    <3>q. QED BY <1>8, <3>1, <3>2
  <2>3. ASSUME NEW j \in Inodes PROVE Len(data'[j]) <= Blocks
    <3>1. CASE j = i
      <4>1. data'[j] = <<>> BY <1>2, <1>7, <3>1 DEF TypeOK
      <4>q. QED BY <4>1, BlocksAssumption DEF BlocksAssumption
    <3>2. CASE j # i BY <1>7, <3>2 DEF TypeOK, Directory
    <3>q. QED BY <3>1, <3>2
  <2>q. QED BY <2>1, <2>2, <2>3 DEF Directory
<1>q. QED BY <1>2, <1>3, <1>6, <1>7, <1>8, <1>9, <1>10

\* A handler that only goes elsewhere.
LEMMA GotoGives ==
  ASSUME TypeOK, NEW u \in Uploads, NEW l \in {"receive", "verify", "rename", "remove", "ok", "error"}, Goto(u, l)
  PROVE  \E r \in UpRecords : /\ r.at = l /\ r.fd = up[u].fd /\ r.n = up[u].n
                             /\ up' = [up EXCEPT ![u] = r]
<1>1. up[u] \in UpRecords BY DEF TypeOK, UpRecords
<1>2. /\ [up[u] EXCEPT !.at = l] \in UpRecords /\ [up[u] EXCEPT !.at = l].at = l
      /\ [up[u] EXCEPT !.at = l].fd = up[u].fd /\ [up[u] EXCEPT !.at = l].n = up[u].n
  BY <1>1 DEF UpRecords
<1>q. QED BY <1>2 DEF Goto

\* What a request leaves alone.
LEMMA AskGives ==
  ASSUME TypeOK, RestOK, NEW u \in Uploads, NEW k \in Verbs, NEW v \in Versions, Ask(u, k, v)
  PROVE  /\ up[u].at = "idle" /\ Unborn(u) /\ verb'[u] = k /\ file'[u] = v
         /\ \A w \in Uploads \ {u} : verb'[w] = verb[w]
         /\ \E j \in Verbs, f \in Versions : Ask(u, j, f)
         /\ RestOK' /\ failed' = failed
<1>1. up[u].at = "idle" /\ Unborn(u) BY DEF Ask, Unborn
<1>2. verb' = [verb EXCEPT ![u] = k] /\ file' = [file EXCEPT ![u] = v] BY DEF Ask
<1>3. verb'[u] = k /\ file'[u] = v /\ \A w \in Uploads \ {u} : verb'[w] = verb[w] BY <1>2 DEF TypeOK
<1>4. UNCHANGED <<down, crashes, drops, failed, powerCut>> BY DEF Ask, faults
<1>5. RestOK' BY <1>4 DEF RestOK
<1>q. QED BY <1>1, <1>3, <1>4, <1>5

\* What is not the uploads' stays so.
LEMMA RestStays ==
  ASSUME RestOK, NEW u \in Uploads, UNCHANGED <<down, faults>> PROVE RestOK' /\ FailsAlone(u)
BY DEF RestOK, faults, FailsAlone

\* An operation that works, or fails, leaves it well-formed.
LEMMA FaultsStay ==
  ASSUME BoundAssumption, RestOK, NEW u \in Uploads, UNCHANGED <<down, crashes, powerCut>>,
         Works \/ (Trouble /\ UNCHANGED failed) \/ \E op \in Operations : Fails(u, op)
  PROVE  RestOK' /\ FailsAlone(u)
<1>1. FailsAlone(u) BY DEF FailsAlone, Works, Trouble, Fails
<1>2. failed' \subseteq Uploads \X Operations BY <1>1 DEF FailsAlone, RestOK
<1>3. drops' \in 0..MaxDrops
  <2>1. drops' = drops \/ (drops < MaxDrops /\ drops' = drops + 1) BY DEF Works, Trouble, Fails
  <2>2. drops \in 0..MaxDrops BY DEF RestOK
  <2>q. QED BY <2>1, <2>2, BoundAssumption
<1>q. QED BY <1>1, <1>2, <1>3 DEF RestOK

LEMMA AskHandles ==
  ASSUME BlocksAssumption, TransferInv, ~Overlap, NEW u \in Uploads, NEW k \in Verbs, NEW v \in Versions,
         Ask(u, k, v)
  PROVE  TransferInv'
<1>t. TypeOK /\ RestOK /\ Directory /\ Exclusive /\ \A w \in Uploads : Handles(w) BY DEF TransferInv
<1>b. /\ up[u].at = "idle" /\ Unborn(u) /\ verb'[u] = k /\ file'[u] = v
      /\ \A w \in Uploads \ {u} : verb'[w] = verb[w]
      /\ \E j \in Verbs, f \in Versions : Ask(u, j, f)
      /\ RestOK' /\ failed' = failed
  BY <1>t, AskGives
<1>n. UNCHANGED <<name, data, synced, offered>> BY DEF Ask
<1>1. PICK i : i = IF k = "put" THEN None ELSE name["path"] OBVIOUS
<1>2. i \in Inodes \cup {None} /\ 0 \in 0..Blocks BY <1>1, <1>t, BlocksAssumption DEF TypeOK, Names
<1>3. PICK r : r = [at |-> "asked", fd |-> i, n |-> 0] OBVIOUS
<1>4. r \in UpRecords /\ r.at = "asked" /\ (k = "put" => r.fd = None) BY <1>1, <1>2, <1>3 DEF UpRecords
<1>5. up' = [up EXCEPT ![u] = r] BY <1>1, <1>3 DEF Ask
<1>6. up'[u] = r BY <1>5, <1>t DEF TypeOK
<1>7. \A j \in Inodes : Unborn(j)' => Unborn(j) BY <1>4, <1>5, <1>b, <1>t, FewerUnborn
<1>8. Directory' BY <1>7, <1>n, <1>t, DirectoryShrinks
<1>9. offered[u] = None BY <1>b, <1>t DEF Handles
<1>10. Handles(u)' BY <1>4, <1>6, <1>9, <1>b, <1>n DEF Handles
<1>11. /\ name' \in [Names -> Inodes \cup {None}] /\ data' \in [Inodes -> BlockSeqs]
       /\ synced' \subseteq Inodes /\ offered' \in [Uploads -> 0..Blocks \cup {None}]
  BY <1>n, <1>t DEF TypeOK, BlockSeqs
<1>12. FailsAlone(u) BY <1>b DEF FailsAlone
<1>q. QED BY <1>4, <1>5, <1>8, <1>10, <1>11, <1>12, <1>b, <1>n, HandlerKeeps

LEMMA BeginPutZHandles ==
  ASSUME TransferInv, ~Overlap, NEW u \in Uploads, BeginPutZ(u)
  PROVE  TransferInv'
<1>t. TypeOK /\ RestOK /\ Directory /\ Exclusive /\ \A w \in Uploads : Handles(w) BY DEF TransferInv
<1>n. UNCHANGED <<name, data, synced, offered, down, request, faults>> BY DEF BeginPutZ
<1>a. up[u].at = "asked" /\ verb[u] = "putz" /\ ~Ended(u) /\ Unborn(u) BY DEF BeginPutZ, Ended, Unborn
<1>1. up[u] \in UpRecords BY <1>t DEF TypeOK, UpRecords
<1>2. PICK r : r = [up[u] EXCEPT !.at = "receive", !.fd = None] OBVIOUS
<1>3. r \in UpRecords /\ r.at = "receive" BY <1>1, <1>2 DEF UpRecords
<1>4. up' = [up EXCEPT ![u] = r] BY <1>2, <1>t DEF BeginPutZ, TypeOK
<1>5. up'[u] = r BY <1>4, <1>t DEF TypeOK
<1>v. UNCHANGED <<verb, file>> BY <1>n DEF request
<1>6. \A i \in Inodes : Unborn(i)' => Unborn(i) BY <1>3, <1>4, <1>a, <1>t, <1>v, FewerUnborn
<1>7. Directory' BY <1>6, <1>n, <1>t, DirectoryShrinks
<1>8. Handles(u)'
  <2>1. file[u] \in Versions /\ offered[u] = None BY <1>a, <1>t DEF Handles
  <2>2. verb[u] \in Verbs BY <1>a, <1>t DEF Handles
  <2>q. QED BY <1>3, <1>5, <1>a, <1>n, <1>v, <2>1, <2>2 DEF Handles
<1>9. /\ name' \in [Names -> Inodes \cup {None}] /\ data' \in [Inodes -> BlockSeqs]
      /\ synced' \subseteq Inodes /\ offered' \in [Uploads -> 0..Blocks \cup {None}]
  BY <1>n, <1>t DEF TypeOK, BlockSeqs
<1>10. RestOK' /\ FailsAlone(u) BY <1>n, <1>t, RestStays
<1>q. QED BY <1>3, <1>4, <1>7, <1>8, <1>9, <1>10, <1>a, <1>n, HandlerKeeps

LEMMA BeginStagedHandles ==
  ASSUME NameAssumption, BlocksAssumption, TransferInv, ~Overlap, NEW u \in Uploads,
         up[u].at = "asked", verb[u] # "putz", Create(u, Tmp(verb[u])), UNCHANGED <<offered, down, request, faults>>
  PROVE  TransferInv'
<1>t. TypeOK /\ RestOK /\ Directory /\ Exclusive /\ \A w \in Uploads : Handles(w) BY DEF TransferInv
<1>v. UNCHANGED <<verb, file>> BY DEF request
<1>1. PICK x \in Names \ {"path"} : x = Tmp(verb[u]) BY DEF Tmp, Names
<1>2. up'[u].at = "receive" /\ \A w \in Uploads \ {u} : up'[w] = up[w]
  BY <1>t DEF Create, TypeOK
<1>3. /\ Unborn(u) /\ ~Unborn(u)' /\ \A i \in Inodes : Unborn(i)' => Unborn(i)
  BY <1>2, <1>v DEF Unborn
<1>4. PICK i \in Inodes, r \in UpRecords :
           /\ name' = [name EXCEPT ![x] = i] /\ name' \in [Names -> Inodes \cup {None}]
           /\ data' = [data EXCEPT ![i] = <<>>] /\ data' \in [Inodes -> BlockSeqs]
           /\ synced' = synced \ {i} /\ i # None /\ (name[x] = None \/ i = name[x])
           /\ \A y \in Names \ {x} : name[y] # i
           /\ r.at = (IF up[u].at = "asked" THEN "receive" ELSE "write") /\ r.fd = i /\ r.n = 0
           /\ up' = [up EXCEPT ![u] = r]
           /\ Directory'
  BY <1>1, <1>3, <1>t, CreateGives
<1>5. up'[u] = r /\ r.at = "receive" BY <1>4, <1>t DEF TypeOK
<1>6. name'[x] = i /\ \A y \in Names \ {x} : name'[y] = name[y] BY <1>4, <1>t DEF TypeOK
<1>7. data'[i] = <<>> /\ \A j \in Inodes \ {i} : data'[j] = data[j] BY <1>4, <1>t DEF TypeOK
<1>8. Handles(u)'
  <2>1. offered'[u] = None /\ verb[u] \in Verbs /\ file[u] \in Versions BY <1>t DEF Handles
  <2>2. Tmp(verb[u])' = x BY <1>1, <1>v DEF Tmp
  <2>3. Len(<<>>) = 0 /\ <<>> = [b \in 1..0 |-> file[u]] OBVIOUS
  <2>q. QED BY <1>4, <1>5, <1>6, <1>7, <1>v, <2>1, <2>2, <2>3 DEF Handles
<1>9. \A y \in Names \ {"path", Tmp(verb'[u])} :
         /\ name'[y] = name[y]
         /\ name[y] # None => data'[name[y]] = data[name[y]] /\ (name[y] \in synced => name[y] \in synced')
  BY <1>1, <1>4, <1>6, <1>7, <1>v, <1>t DEF TypeOK
<1>10. synced' \subseteq Inodes /\ offered' \in [Uploads -> 0..Blocks \cup {None}]
  BY <1>4, <1>t DEF TypeOK
<1>11. RestOK' /\ FailsAlone(u) BY <1>t, RestStays
<1>12. ~Ended(u) BY DEF Ended
<1>q. QED BY <1>4, <1>5, <1>8, <1>9, <1>10, <1>11, <1>12, HandlerKeeps

LEMMA BeginResumeHandles ==
  ASSUME NameAssumption, BlocksAssumption, TransferInv, ~Overlap, NEW u \in Uploads, BeginResume(u)
  PROVE  TransferInv'
<1>t. TypeOK /\ RestOK /\ Directory /\ Exclusive /\ \A w \in Uploads : Handles(w) BY DEF TransferInv
<1>k. verb[u] = "resume" /\ Tmp(verb[u]) = "tmp" /\ "tmp" \in Names BY DEF BeginResume, Tmp, Names
<1>a. up[u].at = "asked" /\ ~Ended(u) /\ UNCHANGED <<down, request, faults>> BY DEF BeginResume, Ended
<1>v. UNCHANGED <<verb, file>> BY <1>a DEF request
<1>1. CASE name["tmp"] = None
  <2>1. Create(u, Tmp(verb[u])) /\ UNCHANGED offered BY <1>1, <1>k DEF BeginResume
  <2>q. QED BY <1>a, <1>k, <2>1, BeginStagedHandles
<1>2. CASE name["tmp"] # None
  <2>1. PICK n : n = Len(data[name["tmp"]]) OBVIOUS
  <2>2. name["tmp"] \in Inodes /\ n \in 0..Blocks
    <3>1. name["tmp"] \in Inodes BY <1>2, <1>k, <1>t DEF TypeOK
    <3>2. data[name["tmp"]] \in BlockSeqs BY <1>t, <3>1 DEF TypeOK, BlockSeqs
    <3>3. n \in Nat /\ n <= Blocks BY <1>t, <2>1, <3>1, <3>2 DEF Directory, BlockSeqs
    <3>q. QED BY <3>1, <3>3, BlocksAssumption
  <2>3. PICK r : r = [at |-> "receive", fd |-> name["tmp"], n |-> n] OBVIOUS
  <2>4. r \in UpRecords /\ r.at = "receive" /\ r.fd = name["tmp"] /\ r.n = n BY <2>2, <2>3 DEF UpRecords
  <2>5. /\ up' = [up EXCEPT ![u] = r] /\ offered' = [offered EXCEPT ![u] = n]
        /\ UNCHANGED <<name, data, synced>>
    BY <1>2, <2>1, <2>3 DEF BeginResume
  <2>6. \A i \in Inodes : Unborn(i)' => Unborn(i) BY <1>k, <1>t, <1>v, <2>4, <2>5, FewerUnborn
  <2>7. Directory' BY <1>t, <2>5, <2>6, DirectoryShrinks
  <2>8. up'[u] = r BY <1>t, <2>5 DEF TypeOK
  <2>9. Handles(u)'
    <3>1. verb[u] \in Verbs /\ file[u] \in Versions BY <1>a, <1>t DEF Handles
    <3>q. QED BY <1>2, <1>k, <1>v, <2>1, <2>4, <2>5, <2>8, <3>1 DEF Handles, Tmp
  <2>10. /\ name' \in [Names -> Inodes \cup {None}] /\ data' \in [Inodes -> BlockSeqs]
         /\ synced' \subseteq Inodes /\ offered' \in [Uploads -> 0..Blocks \cup {None}]
         /\ \A w \in Uploads \ {u} : offered'[w] = offered[w]
    BY <1>t, <2>2, <2>5 DEF TypeOK, BlockSeqs
  <2>11. RestOK' /\ FailsAlone(u) BY <1>a, <1>t, RestStays
  <2>q. QED BY <1>a, <2>4, <2>5, <2>7, <2>9, <2>10, <2>11, HandlerKeeps
<1>q. QED BY <1>1, <1>2

\* A block put at the end of what has come.
LEMMA PutAppends ==
  ASSUME NEW s \in BlockSeqs, NEW v \in Versions
  PROVE  /\ Put(s, Len(s) + 1, v) \in BlockSeqs /\ Len(Put(s, Len(s) + 1, v)) = Len(s) + 1
         /\ s = [b \in 1..Len(s) |-> v] => Put(s, Len(s) + 1, v) = [b \in 1..(Len(s) + 1) |-> v]
<1>1. PICK n \in Nat : n = Len(s) BY DEF BlockSeqs
<1>2. PICK p : p = [i \in 1..(n + 1) |-> IF i = n + 1 THEN v ELSE IF i <= n THEN s[i] ELSE Hole] OBVIOUS
<1>3. Put(s, Len(s) + 1, v) = p BY <1>1, <1>2 DEF Put
<1>4. \A i \in 1..n : s[i] \in Versions \cup {Hole} BY <1>1 DEF BlockSeqs
<1>5. p \in BlockSeqs /\ Len(p) = n + 1 BY <1>2, <1>4 DEF BlockSeqs
<1>6. s = [b \in 1..n |-> v] => p = [b \in 1..(n + 1) |-> v] BY <1>2
<1>q. QED BY <1>1, <1>3, <1>5, <1>6

\* A handler writes the next block of its file.
LEMMA WriteHandles ==
  ASSUME BlocksAssumption, TransferInv, ~Overlap, NEW u \in Uploads,
         up[u].at = "write" \/ (up[u].at = "receive" /\ verb[u] # "putz"), up[u].n < Blocks,
         up' = [up EXCEPT ![u].n = @ + 1],
         data' = [data EXCEPT ![up[u].fd] = Put(@, Len(data[up[u].fd]) + 1, file[u])],
         synced' = synced \/ (synced' = synced \ {up[u].fd} /\ up[u].at = "receive"),
         UNCHANGED <<name, offered, down, request, faults>>
  PROVE  TransferInv'
<1>t. TypeOK /\ RestOK /\ Directory /\ Exclusive /\ \A w \in Uploads : Handles(w) BY DEF TransferInv
<1>r. up[u] \in UpRecords BY <1>t DEF TypeOK, UpRecords
<1>1. PICK i, s, n, p : i = up[u].fd /\ s = data[i] /\ n = up[u].n /\ p = Put(s, Len(s) + 1, file[u]) OBVIOUS
<1>2. /\ i \in Inodes /\ n \in Nat /\ n + 1 \in 0..Blocks /\ Len(s) = n /\ s \in BlockSeqs
      /\ file[u] \in Versions
  <2>1. i # None /\ n = Len(s) /\ file[u] \in Versions BY <1>1, <1>t DEF Handles
  <2>2. i \in Inodes /\ n \in 0..Blocks BY <1>1, <1>r, <2>1 DEF UpRecords
  <2>3. s \in BlockSeqs BY <1>1, <1>t, <2>2 DEF TypeOK, BlockSeqs
  <2>q. QED BY <1>1, <2>1, <2>2, <2>3, BlocksAssumption
<1>3. p \in BlockSeqs /\ Len(p) = n + 1 /\ (s = [b \in 1..n |-> file[u]] => p = [b \in 1..(n + 1) |-> file[u]])
  <2>1. /\ Put(s, Len(s) + 1, file[u]) \in BlockSeqs /\ Len(Put(s, Len(s) + 1, file[u])) = Len(s) + 1
        /\ s = [b \in 1..Len(s) |-> file[u]] =>
             Put(s, Len(s) + 1, file[u]) = [b \in 1..(Len(s) + 1) |-> file[u]]
    BY <1>2, PutAppends
  <2>2. Len(s) = n /\ p = Put(s, Len(s) + 1, file[u]) BY <1>1, <1>2
  <2>q. QED BY <2>1, <2>2
<1>4. PICK r \in UpRecords : /\ r.at = up[u].at /\ r.fd = i /\ r.n = n + 1
                             /\ up' = [up EXCEPT ![u] = r]
  <2>1. /\ [up[u] EXCEPT !.n = n + 1] \in UpRecords /\ [up[u] EXCEPT !.n = n + 1].at = up[u].at
        /\ [up[u] EXCEPT !.n = n + 1].fd = i /\ [up[u] EXCEPT !.n = n + 1].n = n + 1
    BY <1>1, <1>2, <1>r DEF UpRecords
  <2>q. QED BY <1>1, <2>1
<1>5. up'[u] = r BY <1>4, <1>t DEF TypeOK
<1>6. /\ data' \in [Inodes -> BlockSeqs] /\ data'[i] = p
      /\ \A j \in Inodes \ {i} : data'[j] = data[j]
  BY <1>1, <1>2, <1>3, <1>t DEF TypeOK, BlockSeqs
<1>7. UNCHANGED <<verb, file, down, crashes, drops, failed, powerCut>> BY DEF request, faults
<1>8. Directory'
  <2>1. \A j \in Inodes : Unborn(j)' => Unborn(j)
    <3>1. r.at # "idle" /\ r.at # "asked" /\ (r.at = "receive" /\ verb'[u] = "putz" => Unborn(u)) BY <1>4, <1>7
    <3>q. QED BY <1>4, <1>7, <1>t, <3>1, FewerUnborn
  <2>2. \A j \in Inodes : Len(data'[j]) <= Blocks BY <1>2, <1>3, <1>6, <1>t DEF Directory
  <2>3. \A x \in Names : name[x] # None => name[x] \in Inodes BY <1>t DEF TypeOK
  <2>q. QED BY <1>t, <2>1, <2>2, <2>3 DEF Directory
<1>9. Handles(u)'
  <2>1. verb[u] \in {"put", "sync"} \/ up[u].at = "write" => p = [b \in 1..(n + 1) |-> file[u]]
    BY <1>1, <1>3, <1>t DEF Handles
  <2>2. /\ up'[u].at = up[u].at /\ up'[u].fd = i /\ up'[u].n = n + 1 /\ i # None
        /\ data'[up'[u].fd] = p /\ verb'[u] = verb[u] /\ file'[u] = file[u]
    BY <1>1, <1>4, <1>5, <1>6, <1>7, <1>t DEF Handles
  <2>3. up[u].at = "write" => verb[u] = "putz" /\ i = name["path"] BY <1>1, <1>t DEF Handles
  <2>4. up[u].at = "receive" => verb[u] # "putz" /\ i = name[Tmp(verb[u])] BY <1>1, <1>t DEF Handles
  <2>5. offered[u] = None \/ verb[u] = "resume" BY <1>t DEF Handles, Verbs
  <2>6. verb[u] \in Verbs /\ file[u] \in Versions BY <1>t DEF Handles
  <2>q. QED BY <1>3, <2>1, <2>2, <2>3, <2>4, <2>5, <2>6 DEF Handles, Tmp
<1>10. verb'[u] # "putz" =>
         \A x \in Names \ {"path", Tmp(verb'[u])} :
           /\ name'[x] = name[x]
           /\ name[x] # None => data'[name[x]] = data[name[x]] /\ (name[x] \in synced => name[x] \in synced')
  <2> SUFFICES ASSUME verb[u] # "putz", NEW x \in Names \ {"path", Tmp(verb[u])}, name[x] # None
               PROVE  data'[name[x]] = data[name[x]] /\ (name[x] \in synced => name[x] \in synced')
    BY <1>7
  <2>1. i = name[Tmp(verb[u])] /\ Tmp(verb[u]) \in Names
    BY <1>1, <1>t DEF Handles, Tmp, Names
  <2>2. name[x] # i /\ name[x] \in Inodes BY <1>t, <2>1 DEF Directory, TypeOK
  <2>q. QED BY <1>1, <1>6, <2>2
<1>11. RestOK' /\ FailsAlone(u) BY <1>t, RestStays
<1>12. /\ name' \in [Names -> Inodes \cup {None}] /\ synced' \subseteq Inodes
       /\ offered' \in [Uploads -> 0..Blocks \cup {None}]
  BY <1>t DEF TypeOK
<1>13. r.at # "idle" /\ ~Ended(u) BY <1>4 DEF Ended
<1>q. QED BY <1>4, <1>6, <1>8, <1>9, <1>10, <1>11, <1>12, <1>13, HandlerKeeps

\* A handler goes on, drops a name of its own, or renames its file.
LEMMA GotoHandles ==
  ASSUME TransferInv, ~Overlap, NEW u \in Uploads, ~Ended(u),
         NEW l \in {"verify", "rename", "remove", "ok", "error"}, Goto(u, l),
         l = "verify" => verb[u] = "resume", l = "remove" => verb[u] # "putz",
         l = "rename" =>
           /\ verb[u] # "putz" /\ name'[Tmp(verb[u])] # None
           /\ Whole(data[name'[Tmp(verb[u])]], file[u])
           /\ verb[u] = "put" => name'["put.tmp"] \in synced' \/ <<u, "flush">> \in failed',
         \/ name' = name
         \/ \E x \in {"path", Tmp(verb[u])} : name' = [name EXCEPT ![x] = None]
         \/ name' = [name EXCEPT !["path"] = name[Tmp(verb[u])], ![Tmp(verb[u])] = None],
         synced \subseteq synced', synced' \subseteq Inodes, RestOK', FailsAlone(u),
         UNCHANGED <<data, offered, request>>
  PROVE  TransferInv'
<1>t. TypeOK /\ RestOK /\ Directory /\ Exclusive /\ \A w \in Uploads : Handles(w) BY DEF TransferInv
<1>1. PICK r \in UpRecords : r.at = l /\ up' = [up EXCEPT ![u] = r] BY <1>t, GotoGives
<1>2. up'[u] = r BY <1>1, <1>t DEF TypeOK
<1>3. UNCHANGED <<verb, file>> BY DEF request
<1>x. PICK x \in Names \ {"path"} : x = Tmp(verb[u]) BY DEF Tmp, Names
<1>p. "path" \in Names BY DEF Names
<1>4. \A i \in Inodes : Unborn(i)' => Unborn(i) BY <1>1, <1>3, <1>t, FewerUnborn
<1>5. Directory' /\ name' \in [Names -> Inodes \cup {None}]
  BY <1>4, <1>p, <1>t, <1>x, DirectoryShrinks
<1>6. \A y \in Names \ {"path", x} : name'[y] = name[y]
  <2>1. ASSUME NEW z \in {"path", x}, name' = [name EXCEPT ![z] = None]
        PROVE  \A y \in Names \ {"path", x} : name'[y] = name[y]
    BY <2>1, <1>t DEF TypeOK
  <2>2. CASE name' = [name EXCEPT !["path"] = name[x], ![x] = None] BY <2>2, <1>t DEF TypeOK
  <2>3. CASE name' = name BY <2>3
  <2>q. QED BY <1>x, <2>1, <2>2, <2>3
<1>7. Handles(u)'
  <2>1. verb[u] \in Verbs /\ file[u] \in Versions /\ (verb[u] \in {"put", "sync", "putz"} => offered[u] = None)
    BY <1>t DEF Handles, Ended
  <2>2. Tmp(verb[u])' = x /\ (verb[u] = "put" => x = "put.tmp") BY <1>3, <1>x DEF Tmp
  <2>q. QED BY <1>1, <1>2, <1>3, <1>x, <2>1, <2>2 DEF Handles, Whole
<1>8. /\ data' \in [Inodes -> BlockSeqs] /\ offered' \in [Uploads -> 0..Blocks \cup {None}]
  BY <1>t DEF TypeOK, BlockSeqs
<1>9. \A y \in Names \ {"path", Tmp(verb'[u])} :
         /\ name'[y] = name[y]
         /\ name[y] # None => data'[name[y]] = data[name[y]] /\ (name[y] \in synced => name[y] \in synced')
  BY <1>3, <1>6, <1>x
<1>q. QED BY <1>1, <1>5, <1>7, <1>8, <1>9, HandlerKeeps

\* A request that is skipped, or cannot be served.
LEMMA SkipHandles ==
  ASSUME BoundAssumption, TransferInv, ~Overlap, NEW u \in Uploads, Skip(u) \/ CannotOpen(u)
  PROVE  TransferInv'
<1>t. TypeOK /\ RestOK BY DEF TransferInv
<1>a. /\ UNCHANGED <<name, data, synced, offered, request>> /\ UNCHANGED <<down, crashes, powerCut>> /\ ~Ended(u)
  BY DEF Skip, CannotOpen, Ended, faults
<1>s. synced \subseteq synced' /\ synced' \subseteq Inodes BY <1>a, <1>t DEF TypeOK
<1>1. Works \/ (Trouble /\ UNCHANGED failed) BY DEF Skip, CannotOpen, Works, faults
<1>2. RestOK' /\ FailsAlone(u) BY <1>1, <1>a, <1>t, FaultsStay
<1>3. PICK l \in {"ok", "error", "verify"} : Goto(u, l) /\ (l = "verify" => verb[u] = "resume")
  BY DEF Skip, CannotOpen
<1>q. QED BY <1>2, <1>3, <1>a, <1>s, GotoHandles

LEMMA ReceiveHandles ==
  ASSUME BlocksAssumption, TransferInv, ~Overlap, NEW u \in Uploads, Receive(u)
  PROVE  TransferInv'
<1>t. TypeOK /\ RestOK /\ Directory /\ Exclusive /\ \A w \in Uploads : Handles(w) BY DEF TransferInv
<1>a. /\ up[u].at = "receive" /\ up[u].n < Blocks /\ up' = [up EXCEPT ![u].n = @ + 1]
      /\ UNCHANGED <<name, offered, down, request, faults>>
  BY DEF Receive
<1>1. CASE verb[u] # "putz"
  <2>1. /\ data' = [data EXCEPT ![up[u].fd] = Put(@, IF offered[u] = None THEN up[u].n + 1
                                                     ELSE Len(data[up[u].fd]) + 1, file[u])]
        /\ synced' = synced \ {up[u].fd}
    BY <1>1 DEF Receive
  <2>2. up[u].n = Len(data[up[u].fd]) BY <1>1, <1>a, <1>t DEF Handles
  <2>3. (IF offered[u] = None THEN up[u].n + 1 ELSE Len(data[up[u].fd]) + 1) = Len(data[up[u].fd]) + 1
    BY <2>2
  <2>4. data' = [data EXCEPT ![up[u].fd] = Put(@, Len(data[up[u].fd]) + 1, file[u])] BY <2>1, <2>3
  <2>q. QED BY <1>1, <1>a, <2>1, <2>4, WriteHandles
<1>2. CASE verb[u] = "putz"
  <2>1. UNCHANGED <<name, data, synced, offered, verb, file>> BY <1>2 DEF Receive, request
  <2>2. up[u] \in UpRecords /\ up[u].n + 1 \in 0..Blocks
    BY <1>a, <1>t, BlocksAssumption DEF TypeOK, UpRecords
  <2>3. PICK r \in UpRecords : r.at = "receive" /\ up' = [up EXCEPT ![u] = r]
    <3>1. /\ [up[u] EXCEPT !.n = up[u].n + 1] \in UpRecords
          /\ [up[u] EXCEPT !.n = up[u].n + 1].at = "receive"
      BY <1>a, <2>2 DEF UpRecords
    <3>q. QED BY <1>a, <3>1
  <2>4. up'[u] = r BY <1>t, <2>3 DEF TypeOK
  <2>5. Unborn(u) BY <1>2, <1>a DEF Unborn
  <2>6. \A i \in Inodes : Unborn(i)' => Unborn(i) BY <1>t, <2>1, <2>3, <2>5, FewerUnborn
  <2>7. Directory' BY <1>t, <2>1, <2>6, DirectoryShrinks
  <2>8. Handles(u)' BY <1>2, <1>a, <1>t, <2>1, <2>3, <2>4 DEF Handles
  <2>9. /\ name' \in [Names -> Inodes \cup {None}] /\ data' \in [Inodes -> BlockSeqs]
        /\ synced' \subseteq Inodes /\ offered' \in [Uploads -> 0..Blocks \cup {None}]
    BY <1>t, <2>1 DEF TypeOK, BlockSeqs
  <2>10. RestOK' /\ FailsAlone(u) BY <1>a, <1>t, RestStays
  <2>11. ~Ended(u) BY <1>a DEF Ended
  <2>q. QED BY <1>2, <1>a, <2>1, <2>3, <2>7, <2>8, <2>9, <2>10, <2>11, HandlerKeeps
<1>q. QED BY <1>1, <1>2

LEMMA WriteInPlaceHandles ==
  ASSUME BlocksAssumption, BoundAssumption, TransferInv, ~Overlap, NEW u \in Uploads, WriteInPlace(u)
  PROVE  TransferInv'
<1>t. TypeOK /\ RestOK /\ Directory /\ Exclusive /\ \A w \in Uploads : Handles(w) BY DEF TransferInv
<1>a. up[u].at = "write" /\ UNCHANGED <<name, synced, offered, down, request, crashes, powerCut>> BY DEF WriteInPlace
<1>b. up[u].n = Len(data[up[u].fd]) BY <1>a, <1>t DEF Handles
<1>1. CASE /\ up[u].n < Blocks /\ Works
           /\ data' = [data EXCEPT ![up[u].fd] = Put(@, up[u].n + 1, file[u])]
           /\ up' = [up EXCEPT ![u].n = @ + 1]
  <2>1. data' = [data EXCEPT ![up[u].fd] = Put(@, Len(data[up[u].fd]) + 1, file[u])] BY <1>1, <1>b
  <2>2. UNCHANGED faults BY <1>1, <1>a DEF Works, faults
  <2>q. QED BY <1>1, <1>a, <2>1, <2>2, WriteHandles
<1>2. ASSUME NEW l \in {"ok", "error"}, Goto(u, l), Works \/ Fails(u, "write"), UNCHANGED data PROVE TransferInv'
  <2>1. "write" \in Operations BY DEF Operations
  <2>2. RestOK' /\ FailsAlone(u) BY <1>2, <1>a, <1>t, <2>1, FaultsStay
  <2>3. ~Ended(u) /\ synced \subseteq synced' /\ synced' \subseteq Inodes BY <1>a, <1>t DEF Ended, TypeOK
  <2>q. QED BY <1>2, <1>a, <2>2, <2>3, GotoHandles
<1>q. QED BY <1>1, <1>2 DEF WriteInPlace

\* PUTZ truncates the target.
LEMMA TruncateHandles ==
  ASSUME NameAssumption, BlocksAssumption, TransferInv, ~Overlap, NEW u \in Uploads,
         up[u].at = "receive", verb[u] = "putz", Create(u, "path"),
         UNCHANGED <<offered, down, request, faults>>
  PROVE  TransferInv'
<1>t. TypeOK /\ RestOK /\ Directory /\ Exclusive /\ \A w \in Uploads : Handles(w) BY DEF TransferInv
<1>p. "path" \in Names BY DEF Names
<1>n. UNCHANGED <<verb, file>> BY DEF request
<1>1. up'[u].at = "write" /\ \A w \in Uploads \ {u} : up'[w] = up[w] BY <1>t DEF Create, TypeOK
<1>2. Unborn(u) /\ ~Unborn(u)' BY <1>1 DEF Unborn
<1>3. \A i \in Inodes : Unborn(i)' => Unborn(i) BY <1>1, <1>2, <1>n DEF Unborn
<1>4. PICK i \in Inodes, r \in UpRecords :
           /\ name' = [name EXCEPT !["path"] = i] /\ name' \in [Names -> Inodes \cup {None}]
           /\ data' = [data EXCEPT ![i] = <<>>] /\ data' \in [Inodes -> BlockSeqs]
           /\ synced' = synced \ {i} /\ i # None
           /\ r.at = (IF up[u].at = "asked" THEN "receive" ELSE "write") /\ r.fd = i /\ r.n = 0
           /\ up' = [up EXCEPT ![u] = r]
           /\ Directory'
  BY <1>2, <1>3, <1>p, <1>t, CreateGives
<1>5. up'[u] = r /\ r.at = "write" BY <1>4, <1>t DEF TypeOK
<1>6. name'["path"] = i /\ data'[i] = <<>> BY <1>4, <1>p, <1>t DEF TypeOK
<1>7. Handles(u)'
  <2>1. verb[u] \in Verbs /\ file[u] \in Versions /\ offered[u] = None BY <1>t DEF Handles
  <2>2. Len(<<>>) = 0 /\ <<>> = [b \in 1..0 |-> file[u]] OBVIOUS
  <2>q. QED BY <1>4, <1>5, <1>6, <1>n, <2>1, <2>2 DEF Handles
<1>8. RestOK' /\ FailsAlone(u) BY <1>t, RestStays
<1>9. synced' \subseteq Inodes /\ offered' \in [Uploads -> 0..Blocks \cup {None}] BY <1>4, <1>t DEF TypeOK
<1>10. ~Ended(u) BY DEF Ended
<1>q. QED BY <1>4, <1>5, <1>7, <1>8, <1>9, <1>10, <1>n, HandlerKeeps

LEMMA StoredHandles ==
  ASSUME NameAssumption, BlocksAssumption, BoundAssumption, TransferInv, ~Overlap, NEW u \in Uploads, Stored(u)
  PROVE  TransferInv'
<1>t. TypeOK /\ RestOK /\ Directory /\ Exclusive /\ \A w \in Uploads : Handles(w) BY DEF TransferInv
<1>a. /\ up[u].at = "receive" /\ up[u].n = Blocks /\ UNCHANGED <<offered, down, request, crashes, powerCut>>
      /\ ~Ended(u) /\ verb[u] \in Verbs
  BY <1>t DEF Stored, Ended, Handles
<1>s. synced \subseteq Inodes /\ up[u].fd \in Inodes \cup {None} BY <1>t DEF TypeOK
<1>1. CASE verb[u] = "put"
  <2>1. /\ Goto(u, "rename") /\ UNCHANGED <<name, data>>
        /\ (Works /\ synced' = synced \cup {up[u].fd}) \/ (Fails(u, "flush") /\ UNCHANGED synced)
    BY <1>1 DEF Stored
  <2>2. /\ up[u].fd = name[Tmp(verb[u])] /\ up[u].fd # None /\ Tmp(verb[u]) = "put.tmp"
        /\ Whole(data[up[u].fd], file[u])
    BY <1>1, <1>a, <1>t DEF Handles, Tmp, Whole
  <2>3. synced \subseteq synced' /\ synced' \subseteq Inodes BY <1>s, <2>1, <2>2
  <2>4. "flush" \in Operations BY DEF Operations
  <2>5. RestOK' /\ FailsAlone(u) BY <1>a, <1>t, <2>1, <2>4, FaultsStay
  <2>6. name'["put.tmp"] \in synced' \/ <<u, "flush">> \in failed' BY <2>1, <2>2 DEF Fails
  <2>q. QED BY <1>1, <1>a, <2>1, <2>2, <2>3, <2>5, <2>6, GotoHandles
<1>2. CASE verb[u] = "sync"
  <2>1. /\ Goto(u, "rename") /\ UNCHANGED <<data, synced>>
        /\ (Works /\ name' = [name EXCEPT !["path"] = None]) \/ (Trouble /\ UNCHANGED <<name, failed>>)
    BY <1>2 DEF Stored
  <2>2. /\ up[u].fd = name[Tmp(verb[u])] /\ up[u].fd # None /\ Tmp(verb[u]) = "tmp"
        /\ Whole(data[up[u].fd], file[u])
    BY <1>2, <1>a, <1>t DEF Handles, Tmp, Whole
  <2>3. name'["tmp"] = name["tmp"] BY <1>t, <2>1 DEF TypeOK, Names
  <2>4. RestOK' /\ FailsAlone(u) BY <1>a, <1>t, <2>1, FaultsStay
  <2>5. name' = name \/ name' = [name EXCEPT !["path"] = None] BY <2>1
  <2>q. QED BY <1>2, <1>a, <1>s, <2>1, <2>2, <2>3, <2>4, <2>5, GotoHandles
<1>3. CASE verb[u] = "resume"
  <2>1. Goto(u, "verify") /\ Works /\ UNCHANGED <<name, data, synced>> BY <1>3 DEF Stored
  <2>2. RestOK' /\ FailsAlone(u) BY <1>a, <1>t, <2>1, FaultsStay
  <2>q. QED BY <1>3, <1>a, <1>s, <2>1, <2>2, GotoHandles
<1>4. CASE verb[u] = "putz"
  <2>1. CASE Create(u, "path") /\ Works
    <3>1. UNCHANGED faults BY <1>a, <2>1 DEF Works, faults
    <3>q. QED BY <1>4, <1>a, <2>1, <3>1, TruncateHandles
  <2>2. CASE Trouble /\ Goto(u, "error") /\ UNCHANGED <<name, data, synced, failed>>
    <3>1. RestOK' /\ FailsAlone(u) BY <1>a, <1>t, <2>2, FaultsStay
    <3>q. QED BY <1>a, <1>s, <2>2, <3>1, GotoHandles
  <2>q. QED BY <1>4, <2>1, <2>2 DEF Stored
<1>q. QED BY <1>1, <1>2, <1>3, <1>4, <1>a DEF Verbs

LEMMA VerifyHandles ==
  ASSUME TransferInv, ~Overlap, NEW u \in Uploads, Verify(u)
  PROVE  TransferInv'
<1>t. TypeOK /\ RestOK /\ Directory /\ Exclusive /\ \A w \in Uploads : Handles(w) BY DEF TransferInv
<1>a. /\ UNCHANGED <<name, data, synced, offered, down, request, faults>>
      /\ ~Ended(u) /\ verb[u] = "resume" /\ Tmp(verb[u]) = "tmp"
  BY <1>t DEF Verify, Ended, Handles, Tmp
<1>r. RestOK' /\ FailsAlone(u) /\ synced \subseteq synced' /\ synced' \subseteq Inodes
  BY <1>a, <1>t, RestStays DEF TypeOK
<1>1. CASE name["tmp"] # None /\ Whole(data[name["tmp"]], file[u])
  <2>1. Goto(u, "rename") BY <1>1 DEF Verify
  <2>q. QED BY <1>1, <1>a, <1>r, <2>1, GotoHandles
<1>2. CASE ~(name["tmp"] # None /\ Whole(data[name["tmp"]], file[u]))
  <2>1. Goto(u, "remove") BY <1>2 DEF Verify
  <2>q. QED BY <1>a, <1>r, <2>1, GotoHandles
<1>q. QED BY <1>1, <1>2

LEMMA RemoveTmpHandles ==
  ASSUME BoundAssumption, TransferInv, ~Overlap, NEW u \in Uploads, RemoveTmp(u)
  PROVE  TransferInv'
<1>t. TypeOK /\ RestOK BY DEF TransferInv
<1>a. /\ UNCHANGED <<data, synced, offered, down, request, crashes, powerCut>>
      /\ ~Ended(u) /\ Goto(u, "error")
      /\ (Works /\ name' = [name EXCEPT ![Tmp(verb[u])] = None]) \/ (Fails(u, "remove") /\ UNCHANGED name)
  BY DEF RemoveTmp, Ended
<1>1. "remove" \in Operations BY DEF Operations
<1>2. RestOK' /\ FailsAlone(u) BY <1>a, <1>t, <1>1, FaultsStay
<1>3. synced \subseteq synced' /\ synced' \subseteq Inodes BY <1>a, <1>t DEF TypeOK
<1>q. QED BY <1>a, <1>2, <1>3, GotoHandles

\* A rename gives the path the temporary file, or fails.
LEMMA RenameGives ==
  ASSUME TransferInv, NEW u \in Uploads, Rename(u)
  PROVE  /\ up[u].at = "rename" /\ ~Ended(u) /\ name[Tmp(verb[u])] # None
         /\ verb[u] \in {"put", "sync", "resume"}
         /\ UNCHANGED <<data, synced, offered, down, request, crashes, powerCut>>
         /\ \/ /\ name' = [name EXCEPT !["path"] = name[Tmp(verb[u])], ![Tmp(verb[u])] = None]
               /\ Goto(u, "ok") /\ Works
            \/ Fails(u, "rename") /\ Goto(u, AfterFailedRename(verb[u])) /\ name' = name
<1>1. Handles(u) /\ up[u].at = "rename" BY DEF TransferInv, Rename
<1>2. name[Tmp(verb[u])] # None /\ verb[u] \in {"put", "sync", "resume"} BY <1>1 DEF Handles, Verbs
<1>q. QED BY <1>1, <1>2 DEF Rename, Ended

LEMMA RenameHandles ==
  ASSUME BoundAssumption, TransferInv, ~Overlap, NEW u \in Uploads, Rename(u)
  PROVE  TransferInv'
<1>t. TypeOK /\ RestOK BY DEF TransferInv
<1>a. /\ up[u].at = "rename" /\ ~Ended(u) /\ name[Tmp(verb[u])] # None
      /\ verb[u] \in {"put", "sync", "resume"}
      /\ UNCHANGED <<data, synced, offered, down, request, crashes, powerCut>>
      /\ \/ /\ name' = [name EXCEPT !["path"] = name[Tmp(verb[u])], ![Tmp(verb[u])] = None]
            /\ Goto(u, "ok") /\ Works
         \/ Fails(u, "rename") /\ Goto(u, AfterFailedRename(verb[u])) /\ name' = name
  BY RenameGives
<1>o. "rename" \in Operations BY DEF Operations
<1>r. RestOK' /\ FailsAlone(u) BY <1>a, <1>o, <1>t, FaultsStay
<1>s. synced \subseteq synced' /\ synced' \subseteq Inodes BY <1>a, <1>t DEF TypeOK
<1>1. CASE /\ name' = [name EXCEPT !["path"] = name[Tmp(verb[u])], ![Tmp(verb[u])] = None]
           /\ Goto(u, "ok")
  BY <1>1, <1>a, <1>r, <1>s, GotoHandles
<1>2. CASE Goto(u, AfterFailedRename(verb[u])) /\ name' = name
  <2>1. PICK l \in {"ok", "error", "remove"} : l = AfterFailedRename(verb[u]) BY <1>a DEF AfterFailedRename
  <2>2. l = "remove" => verb[u] # "putz" BY <1>a
  <2>q. QED BY <1>2, <1>a, <1>r, <1>s, <2>1, <2>2, GotoHandles
<1>q. QED BY <1>1, <1>2, <1>a

LEMMA DropHandles ==
  ASSUME BoundAssumption, TransferInv, ~Overlap, NEW u \in Uploads, Drop(u)
  PROVE  TransferInv'
<1>t. TypeOK /\ RestOK BY DEF TransferInv
<1>a. /\ UNCHANGED <<name, data, synced, offered, request>> /\ UNCHANGED <<down, crashes, powerCut>>
      /\ ~Ended(u) /\ Trouble /\ UNCHANGED failed
  BY DEF Drop, Ended
<1>r. RestOK' /\ FailsAlone(u) BY <1>a, <1>t, FaultsStay
<1>s. synced \subseteq synced' /\ synced' \subseteq Inodes BY <1>a, <1>t DEF TypeOK
<1>1. PICK l \in {"remove", "verify", "error"} :
        Goto(u, l) /\ (l = "verify" => verb[u] = "resume") /\ (l = "remove" => verb[u] # "putz")
  BY DEF Drop
<1>q. QED BY <1>1, <1>a, <1>r, <1>s, GotoHandles

\* What a power failure leaves of a file is a beginning of it.
LEMMA PrefixKept ==
  ASSUME NEW s \in BlockSeqs, NEW keep \in Nat, ~(Len(s) <= keep)
  PROVE  SubSeq(s, 1, keep) \in BlockSeqs /\ Len(SubSeq(s, 1, keep)) = keep
BY DEF BlockSeqs

LEMMA CrashData ==
  ASSUME BlocksAssumption, TypeOK, Directory, Crash
  PROVE  /\ data' \in [Inodes -> BlockSeqs] /\ \A i \in Inodes : Len(data'[i]) <= Blocks
         /\ \A i \in Inodes : i \in synced \/ ~powerCut' => data'[i] = data[i]
         /\ powerCut' \in BOOLEAN /\ (powerCut => powerCut')
<1>1. CASE UNCHANGED <<data, powerCut>> BY <1>1 DEF TypeOK, Directory, BlockSeqs
<1>2. CASE ~UNCHANGED <<data, powerCut>>
  <2>1. powerCut' = TRUE BY <1>2 DEF Crash
  <2>2. PICK keep \in 0..Blocks :
          data' = [i \in Inodes |-> IF i \in synced \/ Len(data[i]) <= keep THEN data[i]
                                    ELSE SubSeq(data[i], 1, keep)]
    BY <1>2 DEF Crash
  <2>3. keep \in Nat /\ keep <= Blocks BY BlocksAssumption
  <2>4. ASSUME NEW i \in Inodes
        PROVE  /\ data'[i] \in BlockSeqs /\ Len(data'[i]) <= Blocks
               /\ i \in synced => data'[i] = data[i]
    <3>1. data[i] \in BlockSeqs /\ Len(data[i]) <= Blocks BY DEF TypeOK, Directory, BlockSeqs
    <3>2. CASE i \in synced \/ Len(data[i]) <= keep BY <2>2, <3>1, <3>2
    <3>3. CASE ~(i \in synced \/ Len(data[i]) <= keep)
      <4>1. data'[i] = SubSeq(data[i], 1, keep) BY <2>2, <3>3
      <4>q. QED BY <2>3, <3>1, <3>3, <4>1, PrefixKept
    <3>q. QED BY <3>2, <3>3
  <2>5. data' \in [Inodes -> BlockSeqs] BY <2>2, <2>4
  <2>q. QED BY <2>1, <2>4, <2>5
<1>q. QED BY <1>1, <1>2

LEMMA CrashHandles ==
  ASSUME BlocksAssumption, BoundAssumption, TransferInv, Crash
  PROVE  TransferInv'
<1>t. TypeOK /\ RestOK /\ Directory /\ Exclusive /\ \A w \in Uploads : Handles(w) BY DEF TransferInv
<1>n. UNCHANGED <<synced, offered, verb, file, drops, failed>> BY DEF Crash, request
<1>1. /\ data' \in [Inodes -> BlockSeqs] /\ \A i \in Inodes : Len(data'[i]) <= Blocks
      /\ powerCut' \in BOOLEAN
  BY <1>t, CrashData
<1>2. ASSUME NEW u \in Uploads
      PROVE  /\ up'[u] \in UpRecords /\ Ended(u)'
             /\ up'[u].at = "idle" <=> up[u].at = "idle"
  <2>1. up[u] \in UpRecords BY <1>t DEF TypeOK, UpRecords
  <2>2. up'[u] = IF Ended(u) THEN up[u] ELSE [up[u] EXCEPT !.at = "error"] BY DEF Crash
  <2>3. [up[u] EXCEPT !.at = "error"] \in UpRecords /\ [up[u] EXCEPT !.at = "error"].at = "error"
    BY <2>1 DEF UpRecords
  <2>q. QED BY <2>1, <2>2, <2>3 DEF Ended
<1>3. up' \in [Uploads -> UpRecords] BY <1>2 DEF Crash
<1>4. name' = [name EXCEPT !["put.tmp"] = None] BY DEF Crash
<1>5. /\ name' \in [Names -> Inodes \cup {None}]
      /\ \A x \in Names : name'[x] # None => name'[x] = name[x]
  BY <1>4, <1>t DEF TypeOK, Names
<1>6. Directory'
  <2>1. \A i : Unborn(i)' => Unborn(i) BY <1>2 DEF Unborn, Ended
  <2>2. \A x, y \in Names : name'[x] = name'[y] /\ name'[x] # None => x = y BY <1>5, <1>t DEF Directory
  <2>3. \A x \in Names : name'[x] # None => ~Unborn(name[x])' BY <1>5, <1>t, <2>1 DEF Directory
  <2>q. QED BY <1>1, <2>2, <2>3 DEF Directory
<1>7. crashes' \in 0..MaxCrashes
  <2>1. crashes \in 0..MaxCrashes /\ crashes < MaxCrashes /\ crashes' = crashes + 1 BY <1>t DEF TypeOK, Crash
  <2>q. QED BY <2>1, BoundAssumption
<1>8. /\ down' \in [Downloads -> DownRecords]
      /\ \A d \in Downloads : down'[d].at # "stream"
  <2>1. ASSUME NEW d \in Downloads
        PROVE  /\ down'[d] \in DownRecords
               /\ down'[d].at # "stream"
    <3>1. down'[d] = IF down[d].at = "stream" THEN [down[d] EXCEPT !.at = "idle"] ELSE down[d] BY DEF Crash
    <3>q. QED BY <1>t, <3>1 DEF RestOK, DownRecords
  <2>q. QED BY <2>1 DEF Crash
<1>9. TypeOK' BY <1>1, <1>3, <1>5, <1>7, <1>8, <1>n, <1>t DEF TypeOK, UpRecords, DownRecords, BlockSeqs
<1>10. Exclusive' BY <1>2 DEF Exclusive
<1>11. ASSUME NEW u \in Uploads PROVE Handles(u)'
  <2>1. /\ up[u].at = "idle" => /\ verb[u] = None /\ offered[u] = None
                              /\ \A op \in Operations : <<u, op>> \notin failed
        /\ up[u].at # "idle" => verb[u] \in Verbs /\ file[u] \in Versions
        /\ verb[u] \in {"put", "sync", "putz"} => offered[u] = None
    BY <1>t DEF Handles
  <2>q. QED BY <1>2, <1>n, <2>1 DEF Handles, Ended
<1>12. RestOK' BY <1>1, <1>7, <1>8, <1>n, <1>t DEF RestOK
<1>q. QED BY <1>6, <1>9, <1>10, <1>11, <1>12 DEF TransferInv

\* Downloads change nothing of it.
LEMMA DownloadsHandle ==
  ASSUME TransferInv, NEW d \in Downloads, Open(d) \/ Stream(d)
  PROVE  TransferInv'
<1>t. TypeOK /\ RestOK /\ Directory /\ Exclusive /\ \A w \in Uploads : Handles(w) BY DEF TransferInv
<1>n. UNCHANGED <<name, data, synced, up, offered, verb, file, crashes, drops, failed, powerCut>>
  BY DEF Open, Stream, request, faults
<1>r. \A e \in Downloads : down[e] \in DownRecords BY <1>t DEF TypeOK, DownRecords, BlockSeqs
<1>1. PICK r \in DownRecords : (r.at = "stream" => r.fd # None) /\ down' = [down EXCEPT ![d] = r]
  <2>1. CASE Open(d)
    <3>1. name["path"] \in Inodes /\ name["path"] # None /\ Len(data[name["path"]]) \in Nat
      BY <1>t, <2>1 DEF Open, TypeOK, Names
    <3>2. PICK r : r = [at |-> "stream", fd |-> name["path"], size |-> Len(data[name["path"]]), got |-> <<>>]
      OBVIOUS
    <3>3. r \in DownRecords /\ r.fd # None BY <3>1, <3>2 DEF DownRecords, BlockSeqs
    <3>4. down' = [down EXCEPT ![d] = r] BY <2>1, <3>2 DEF Open
    <3>q. QED BY <3>3, <3>4
  <2>2. CASE Stream(d)
    <3>1. PICK f, b : f = down[d] /\ b = Len(f.got) + 1 OBVIOUS
    <3>2. f \in DownRecords /\ f.at = "stream" /\ f.fd \in Inodes /\ f.fd # None
      BY <1>r, <1>t, <2>2, <3>1 DEF Stream, RestOK, DownRecords
    <3>3. b \in Nat \ {0} /\ data[f.fd] \in BlockSeqs
      BY <1>t, <3>1, <3>2 DEF DownRecords, TypeOK, BlockSeqs
    <3>4. CASE b <= Len(data[f.fd])
      <4>1. data[f.fd][b] \in Versions \cup {Hole} BY <3>3, <3>4 DEF BlockSeqs
      <4>2. Append(f.got, data[f.fd][b]) \in BlockSeqs BY <3>2, <4>1 DEF DownRecords, BlockSeqs
      <4>3. /\ [f EXCEPT !.got = Append(f.got, data[f.fd][b])] \in DownRecords
            /\ [f EXCEPT !.got = Append(f.got, data[f.fd][b])].fd = f.fd
        BY <3>2, <4>2 DEF DownRecords
      <4>4. down' = [down EXCEPT ![d] = [f EXCEPT !.got = Append(f.got, data[f.fd][b])]]
        BY <2>2, <3>1, <3>4 DEF Stream
      <4>q. QED BY <3>2, <4>3, <4>4
    <3>5. CASE ~(b <= Len(data[f.fd]))
      <4>1. down' = [down EXCEPT ![d] = [f EXCEPT !.at = "done"]] BY <2>2, <3>1, <3>5 DEF Stream
      <4>2. [f EXCEPT !.at = "done"] \in DownRecords /\ [f EXCEPT !.at = "done"].at = "done"
        BY <3>2 DEF DownRecords
      <4>q. QED BY <4>1, <4>2
    <3>q. QED BY <3>4, <3>5
  <2>q. QED BY <2>1, <2>2
<1>2. TypeOK' BY <1>1, <1>n, <1>t DEF TypeOK, DownRecords, BlockSeqs
<1>5. RestOK'
  <2>1. /\ down' \in [Downloads -> DownRecords] /\ down'[d] = r
        /\ \A e \in Downloads \ {d} : down'[e] = down[e]
    BY <1>1, <1>t DEF RestOK, DownRecords
  <2>q. QED BY <1>1, <1>n, <1>t, <2>1 DEF RestOK, DownRecords
<1>3. Directory' /\ Exclusive' BY <1>n, <1>t DEF Directory, Unborn, Exclusive, Ended, Apart, Tmp
<1>4. ASSUME NEW u \in Uploads PROVE Handles(u)'
  <2>1. Handles(u) BY <1>t
  <2>2. Tmp(verb[u])' = Tmp(verb[u]) BY <1>n DEF Tmp
  <2>q. QED BY <1>n, <2>1, <2>2 DEF Handles, Whole
<1>q. QED BY <1>2, <1>3, <1>4, <1>5 DEF TransferInv

LEMMA TransferInitially ==
  ASSUME NameAssumption, BlocksAssumption, BoundAssumption, Init PROVE TransferInv
<1>1. TypeOK
  <2>1. name \in [Names -> Inodes \cup {None}] BY DEF Init, Inodes
  <2>2. data \in [Inodes -> BlockSeqs]
    <3>1. <<>> \in BlockSeqs /\ [b \in 1..Blocks |-> Old] \in BlockSeqs
      BY BlocksAssumption DEF BlockSeqs, Versions
    <3>q. QED BY <3>1 DEF Init
  <2>3. 0 \in 0..Blocks /\ 0 \in 0..MaxCrashes /\ 0 \in 0..MaxDrops BY BlocksAssumption, BoundAssumption
  <2>4. up \in [Uploads -> UpRecords] BY <2>3 DEF Init, UpRecords
  <2>5. down \in [Downloads -> DownRecords] BY DEF Init, DownRecords, BlockSeqs
  <2>6. synced \subseteq Inodes BY DEF Init, Inodes
  <2>7. /\ verb \in [Uploads -> Verbs \cup {None}] /\ file \in [Uploads -> Versions \cup {None}]
        /\ offered \in [Uploads -> 0..Blocks \cup {None}]
    BY DEF Init
  <2>8. crashes \in 0..MaxCrashes /\ drops \in 0..MaxDrops /\ failed = {} /\ powerCut \in BOOLEAN BY <2>3 DEF Init
  <2>q. QED BY <2>1, <2>2, <2>4, <2>5, <2>6, <2>7, <2>8 DEF TypeOK, UpRecords, DownRecords, BlockSeqs
<1>2. \A u \in Uploads : up[u].at = "idle" BY DEF Init
<1>3. \A d \in Downloads : down[d].at = "idle" BY DEF Init
<1>4. RestOK BY <1>1, <1>3 DEF RestOK, TypeOK, Operations, DownRecords, BlockSeqs
<1>5. Directory
  <2>1. \A x \in Names : name[x] # None => x = "path" /\ name[x] = Old BY DEF Init
  <2>2. ~Unborn(Old) BY NameAssumption DEF Unborn, NameAssumption
  <2>3. ASSUME NEW i \in Inodes PROVE Len(data[i]) <= Blocks
    <3>1. data[i] = IF i = Old THEN [b \in 1..Blocks |-> Old] ELSE <<>> BY DEF Init
    <3>2. Len([b \in 1..Blocks |-> Old]) = Blocks /\ Len(<<>>) <= Blocks BY BlocksAssumption
    <3>3. CASE i = Old BY <3>1, <3>2, <3>3, BlocksAssumption
    <3>4. CASE i # Old BY <3>1, <3>2, <3>4
    <3>q. QED BY <3>3, <3>4
  <2>q. QED BY <2>1, <2>2, <2>3 DEF Directory
<1>6. Exclusive BY <1>2 DEF Exclusive, Ended
<1>7. \A u \in Uploads : Handles(u) BY <1>2 DEF Handles, Init
<1>q. QED BY <1>1, <1>4, <1>5, <1>6, <1>7 DEF TransferInv

LEMMA TransferStep ==
  ASSUME NameAssumption, BlocksAssumption, BoundAssumption, ~Overlap, TransferInv, [Next]_vars
  PROVE  TransferInv'
<1>1. ASSUME NEW u \in Uploads, Handler(u) PROVE TransferInv'
  <2>1. ASSUME NEW v \in Versions, NEW k \in Verbs, Ask(u, k, v) PROVE TransferInv'
    BY <2>1, AskHandles
  <2>2. CASE BeginStaged(u)
    <3>1. /\ up[u].at = "asked" /\ verb[u] # "putz" /\ Create(u, Tmp(verb[u]))
          /\ UNCHANGED <<offered, down, request, faults>>
      BY <2>2 DEF BeginStaged
    <3>q. QED BY <3>1, BeginStagedHandles
  <2>q. QED
    BY <1>1, <2>1, <2>2, SkipHandles, BeginPutZHandles, BeginResumeHandles, ReceiveHandles, StoredHandles,
       WriteInPlaceHandles, VerifyHandles, RemoveTmpHandles, RenameHandles
    DEF Handler
<1>2. CASE UNCHANGED vars
  <2>t. TypeOK /\ RestOK /\ Directory /\ Exclusive /\ \A w \in Uploads : Handles(w) BY DEF TransferInv
  <2>n. UNCHANGED <<name, data, synced, up, offered, verb, file, down, crashes, drops, failed, powerCut>>
    BY <1>2 DEF vars, request, faults
  <2>1. TypeOK' /\ RestOK' BY <2>n, <2>t DEF TypeOK, RestOK
  <2>2. Directory' /\ Exclusive' BY <2>n, <2>t DEF Directory, Unborn, Exclusive, Ended, Apart, Tmp
  <2>3. ASSUME NEW u \in Uploads PROVE Handles(u)'
    <3>1. Handles(u) BY <2>t
    <3>2. Tmp(verb[u])' = Tmp(verb[u]) BY <2>n DEF Tmp
    <3>q. QED BY <2>n, <3>1, <3>2 DEF Handles, Whole
  <2>q. QED BY <2>1, <2>2, <2>3 DEF TransferInv
<1>q. QED BY <1>1, <1>2, DropHandles, DownloadsHandle, CrashHandles DEF Next

----------------------------------------------------------------------------
(* What a step may change of the directory and of the inodes.              *)

\* A step of one upload leaves the others alone.
LEMMA OthersStay ==
  ASSUME TypeOK, NEW u \in Uploads, Handler(u) \/ Drop(u)
  PROVE  /\ \A w \in Uploads \ {u} : up'[w] = up[w] /\ verb'[w] = verb[w] /\ file'[w] = file[w]
         /\ UNCHANGED <<down, crashes, powerCut>>
         /\ UNCHANGED request \/ \E k \in Verbs, v \in Versions : Ask(u, k, v)
         /\ FailsAlone(u)
<1>o. "flush" \in Operations /\ "write" \in Operations /\ "rename" \in Operations /\ "remove" \in Operations
  BY DEF Operations
<1>1. CASE \E k \in Verbs, v \in Versions : Ask(u, k, v)
  BY <1>1 DEF Ask, faults, TypeOK, FailsAlone
<1>2. CASE Skip(u) \/ BeginStaged(u) \/ BeginPutZ(u) \/ BeginResume(u) \/ Receive(u) \/ Verify(u)
  BY <1>2 DEF Skip, BeginStaged, BeginPutZ, BeginResume, Receive, Verify, Create, Goto, request, faults,
              TypeOK, FailsAlone
<1>3. CASE CannotOpen(u) \/ Drop(u) BY <1>3 DEF CannotOpen, Drop, Goto, request, TypeOK, FailsAlone
<1>4. CASE Stored(u)
  <2>1. /\ UNCHANGED <<down, crashes, powerCut, verb, file>>
        /\ Goto(u, "rename") \/ Goto(u, "verify") \/ Goto(u, "error") \/ Create(u, "path")
    BY <1>4 DEF Stored, request
  <2>2. Works \/ UNCHANGED failed \/ Fails(u, "flush") BY <1>4 DEF Stored
  <2>q. QED BY <1>o, <2>1, <2>2 DEF Create, Goto, request, TypeOK, FailsAlone, Works, Fails
<1>5. CASE WriteInPlace(u) BY <1>5, <1>o DEF WriteInPlace, Goto, request, TypeOK, FailsAlone, Works, Fails
<1>6. CASE RemoveTmp(u) BY <1>6, <1>o DEF RemoveTmp, Goto, request, TypeOK, FailsAlone, Works, Fails
<1>7. CASE Rename(u) BY <1>7, <1>o DEF Rename, Goto, request, TypeOK, FailsAlone, Works, Fails
<1>q. QED BY <1>1, <1>2, <1>3, <1>4, <1>5, <1>6, <1>7 DEF Handler

\* PUTZ at work on the file itself.
InPlace(u) == (Stored(u) /\ verb[u] = "putz") \/ WriteInPlace(u)

LEMMA StepUnborn ==
  ASSUME TransferInv, [Next]_vars, NEW i \in Inodes, Unborn(i)'
  PROVE  Unborn(i)
<1>t. TypeOK BY DEF TransferInv
<1>1. ASSUME NEW u \in Uploads, Handler(u) \/ Drop(u) PROVE Unborn(i)
  <2>1. CASE i # u
    <3>1. i \in Uploads => up'[i] = up[i] /\ verb'[i] = verb[i] BY <1>1, <1>t, <2>1, OthersStay
    <3>q. QED BY <3>1 DEF Unborn
  <2>2. CASE i = u
    <3>1. CASE up[u].at \in {"idle", "asked"} BY <2>2, <3>1 DEF Unborn
    <3>2. CASE up[u].at \notin {"idle", "asked"}
      <4>1. up'[u].at \notin {"idle", "asked"} /\ (up'[u].at = "receive" => up[u].at = "receive")
        BY <1>1, <1>t, <3>2
        DEF Handler, Drop, Skip, BeginStaged, BeginPutZ, BeginResume, CannotOpen, Receive, Stored, WriteInPlace,
            Verify, RemoveTmp, Rename, AfterFailedRename, Ask, Create, Goto, TypeOK
      <4>2. verb'[u] = verb[u] BY <1>1, <1>t, <3>2, OthersStay DEF Ask, request
      <4>q. QED BY <2>2, <4>1, <4>2 DEF Unborn
    <3>q. QED BY <3>1, <3>2
  <2>q. QED BY <2>1, <2>2
<1>2. CASE Crash
  <2>1. i \in Uploads => verb'[i] = verb[i] /\ up'[i] = IF Ended(i) THEN up[i] ELSE [up[i] EXCEPT !.at = "error"]
    BY <1>2 DEF Crash, request
  <2>2. i \in Uploads => [up[i] EXCEPT !.at = "error"].at = "error" BY <1>t DEF TypeOK
  <2>q. QED BY <2>1, <2>2 DEF Unborn
<1>3. CASE UNCHANGED <<up, request>> BY <1>3 DEF Unborn, request
<1>q. QED BY <1>1, <1>2, <1>3 DEF Next, Open, Stream, vars

\* No temporary name comes to an inode that had another.
LEMMA StepNames ==
  ASSUME NameAssumption, TransferInv, [Next]_vars, NEW x \in Names \ {"path"}
  PROVE  name'[x] \in {name[x], None} \/ Unborn(name'[x])
<1>t. TypeOK /\ \A u \in Uploads : Handles(u) BY DEF TransferInv
<1>c. ASSUME NEW u \in Uploads, NEW y \in Names, Create(u, y), Unborn(u) PROVE name'[x] = name[x] \/ Unborn(name'[x])
  <2>1. name' = [name EXCEPT ![y] = IF name[y] = None THEN u ELSE name[y]] BY <1>c DEF Create
  <2>q. QED BY <1>c, <1>t, <2>1 DEF TypeOK
<1>1. ASSUME NEW u \in Uploads, Handler(u) \/ Drop(u) PROVE name'[x] \in {name[x], None} \/ Unborn(name'[x])
  <2>y. "path" \in Names /\ "tmp" \in Names /\ \A k : Tmp(k) \in Names BY DEF Names, Tmp
  <2>2. CASE name' = name BY <2>2
  <2>3. CASE \E y \in Names : name' = [name EXCEPT ![y] = None] BY <1>t, <2>3 DEF TypeOK
  <2>4. CASE Rename(u)
    <3>1. CASE name' = [name EXCEPT !["path"] = name[Tmp(verb[u])], ![Tmp(verb[u])] = None]
      BY <1>t, <3>1 DEF TypeOK
    <3>q. QED BY <2>2, <2>4, <3>1, RenameGives
  <2>5. CASE BeginStaged(u) \/ BeginResume(u)
    <3>1. Unborn(u) BY <2>5 DEF BeginStaged, BeginResume, Unborn
    <3>2. name' = name \/ \E y \in Names : Create(u, y) BY <2>5, <2>y DEF BeginStaged, BeginResume
    <3>q. QED BY <1>c, <2>2, <3>1, <3>2
  <2>6. CASE Stored(u)
    <3>1. CASE verb[u] = "putz"
      <4>1. Unborn(u) BY <2>6, <3>1 DEF Stored, Unborn
      <4>2. name' = name \/ Create(u, "path") BY <2>6, <3>1 DEF Stored
      <4>q. QED BY <1>c, <2>2, <2>y, <4>1, <4>2
    <3>2. CASE verb[u] # "putz"
      <4>1. verb[u] \in Verbs BY <1>t, <2>6 DEF Stored, Handles
      <4>2. name' = name \/ name' = [name EXCEPT !["path"] = None] BY <2>6, <3>2, <4>1 DEF Stored, Verbs
      <4>q. QED BY <2>2, <2>3, <2>y, <4>2
    <3>q. QED BY <3>1, <3>2
  <2>7. CASE RemoveTmp(u)
    <3>1. name' = name \/ name' = [name EXCEPT ![Tmp(verb[u])] = None] BY <2>7 DEF RemoveTmp
    <3>q. QED BY <2>2, <2>3, <2>y, <3>1
  <2>8. CASE \/ \E k \in Verbs, v \in Versions : Ask(u, k, v)
             \/ Skip(u) \/ BeginPutZ(u) \/ CannotOpen(u) \/ Receive(u) \/ WriteInPlace(u) \/ Verify(u) \/ Drop(u)
    <3>1. name' = name BY <2>8 DEF Ask, Skip, BeginPutZ, CannotOpen, Receive, WriteInPlace, Verify, Drop
    <3>q. QED BY <2>2, <3>1
  <2>q. QED BY <1>1, <2>4, <2>5, <2>6, <2>7, <2>8 DEF Handler
<1>2. CASE Crash BY <1>2, <1>t DEF Crash, TypeOK
<1>3. CASE UNCHANGED name BY <1>3
<1>q. QED BY <1>1, <1>2, <1>3 DEF Next, Open, Stream, vars

\* An inode is written, or no longer flushed, by the one that stages it, or by
\* PUTZ.
LEMMA StepData ==
  ASSUME NameAssumption, TransferInv, [Next]_vars, ~Crash, \A u \in Uploads : ~InPlace(u),
         NEW i \in Inodes, ~Unborn(i), \A x \in Names \ {"path"} : name[x] # i
  PROVE  data'[i] = data[i] /\ (i \in synced => i \in synced')
<1>t. TypeOK /\ \A u \in Uploads : Handles(u) BY DEF TransferInv
<1>y. "tmp" \in Names \ {"path"} /\ \A k : Tmp(k) \in Names \ {"path"} BY DEF Names, Tmp
<1>c. ASSUME NEW u \in Uploads, NEW y \in Names \ {"path"}, Create(u, y), up[u].at = "asked"
      PROVE  data'[i] = data[i] /\ (i \in synced => i \in synced')
  <2>1. PICK j : j = IF name[y] = None THEN u ELSE name[y] OBVIOUS
  <2>2. j # i BY <1>c, <2>1 DEF Unborn
  <2>3. data' = [data EXCEPT ![j] = <<>>] /\ synced' = synced \ {j} BY <1>c, <2>1 DEF Create
  <2>q. QED BY <1>t, <2>2, <2>3 DEF TypeOK
<1>1. ASSUME NEW u \in Uploads, Handler(u) \/ Drop(u)
      PROVE  data'[i] = data[i] /\ (i \in synced => i \in synced')
  <2>1. CASE BeginStaged(u) \/ BeginResume(u)
    <3>1. UNCHANGED <<data, synced>> \/ \E y \in Names \ {"path"} : Create(u, y)
      BY <1>y, <2>1 DEF BeginStaged, BeginResume
    <3>2. up[u].at = "asked" BY <2>1 DEF BeginStaged, BeginResume
    <3>q. QED BY <1>c, <3>1, <3>2
  <2>3. CASE Receive(u)
    <3>1. CASE verb[u] = "putz" BY <2>3, <3>1 DEF Receive
    <3>2. CASE verb[u] # "putz"
      <4>1. up[u].fd = name[Tmp(verb[u])] BY <1>t, <2>3, <3>2 DEF Receive, Handles
      <4>2. up[u].fd # i BY <1>y, <4>1
      <4>3. PICK s : data' = [data EXCEPT ![up[u].fd] = s] /\ synced' = synced \ {up[u].fd}
        BY <2>3, <3>2 DEF Receive
      <4>q. QED BY <1>t, <4>2, <4>3 DEF TypeOK
    <3>q. QED BY <3>1, <3>2
  <2>4. CASE Stored(u)
    <3>1. verb[u] \in {"put", "sync", "resume"} BY <1>t, <2>4 DEF InPlace, Stored, Handles, Verbs
    <3>2. data' = data /\ synced \subseteq synced' BY <2>4, <3>1 DEF Stored
    <3>q. QED BY <3>2
  <2>5. CASE \/ \E k \in Verbs, v \in Versions : Ask(u, k, v)
             \/ Skip(u) \/ BeginPutZ(u) \/ CannotOpen(u) \/ Verify(u) \/ RemoveTmp(u) \/ Rename(u) \/ Drop(u)
    <3>1. UNCHANGED <<data, synced>>
      BY <2>5 DEF Ask, Skip, BeginPutZ, CannotOpen, Verify, RemoveTmp, Rename, Drop
    <3>q. QED BY <3>1
  <2>6. ~WriteInPlace(u) BY DEF InPlace
  <2>q. QED BY <1>1, <2>1, <2>3, <2>4, <2>5, <2>6 DEF Handler
<1>3. CASE UNCHANGED <<data, synced>> BY <1>3
<1>q. QED BY <1>1, <1>3 DEF Next, Open, Stream, vars

\* The file is replaced by a rename of a whole version, or removed.
LEMMA StepPath ==
  ASSUME TransferInv, [Next]_vars, \A u \in Uploads : ~InPlace(u)
  PROVE  \/ name'["path"] = name["path"]
         \/ \E u \in Uploads : Stored(u) /\ verb[u] = "sync" /\ name'["path"] = None
         \/ \E u \in Uploads : /\ Rename(u) /\ name[Tmp(verb[u])] # None /\ Tmp(verb[u]) \in Names
                              /\ name'["path"] = name[Tmp(verb[u])] /\ up'[u].at = "ok" /\ ~Ended(u)
                              /\ \A w \in Uploads \ {u} : up'[w] = up[w]
<1>t. TypeOK /\ \A u \in Uploads : Handles(u) BY DEF TransferInv
<1>y. "path" \in Names /\ "tmp" \in Names \ {"path"} /\ \A k : Tmp(k) \in Names \ {"path"} BY DEF Names, Tmp
<1>1. ASSUME NEW u \in Uploads, Rename(u), name' # name
      PROVE  /\ Rename(u) /\ name[Tmp(verb[u])] # None /\ Tmp(verb[u]) \in Names
             /\ name'["path"] = name[Tmp(verb[u])] /\ up'[u].at = "ok" /\ ~Ended(u)
             /\ \A w \in Uploads \ {u} : up'[w] = up[w]
  <2>1. /\ name[Tmp(verb[u])] # None /\ ~Ended(u)
        /\ name' = [name EXCEPT !["path"] = name[Tmp(verb[u])], ![Tmp(verb[u])] = None]
        /\ Goto(u, "ok")
    BY <1>1, RenameGives
  <2>2. up'[u].at = "ok" /\ \A w \in Uploads \ {u} : up'[w] = up[w] BY <1>t, <2>1 DEF Goto, TypeOK
  <2>q. QED BY <1>1, <1>t, <1>y, <2>1, <2>2 DEF TypeOK
<1>2. ASSUME NEW u \in Uploads, Handler(u) \/ Drop(u), ~Rename(u)
      PROVE  name'["path"] = name["path"] \/ (Stored(u) /\ verb[u] = "sync" /\ name'["path"] = None)
  <2>1. CASE BeginStaged(u) \/ BeginResume(u)
    <3>1. name' = name \/ \E x \in Names \ {"path"} : \E j : name' = [name EXCEPT ![x] = j]
      BY <1>y, <2>1 DEF BeginStaged, BeginResume, Create
    <3>q. QED BY <1>t, <1>y, <3>1 DEF TypeOK
  <2>4. CASE Stored(u)
    <3>1. verb[u] \in {"put", "sync", "resume"} BY <1>t, <2>4 DEF InPlace, Stored, Handles, Verbs
    <3>2. name' = name \/ (verb[u] = "sync" /\ name' = [name EXCEPT !["path"] = None])
      BY <2>4, <3>1 DEF Stored
    <3>q. QED BY <1>t, <1>y, <2>4, <3>2 DEF TypeOK
  <2>5. CASE \/ \E k \in Verbs, v \in Versions : Ask(u, k, v)
             \/ Skip(u) \/ BeginPutZ(u) \/ CannotOpen(u) \/ Receive(u) \/ Verify(u) \/ Drop(u)
    <3>1. name' = name BY <2>5 DEF Ask, Skip, BeginPutZ, CannotOpen, Receive, Verify, Drop
    <3>q. QED BY <3>1
  <2>7. CASE RemoveTmp(u)
    <3>1. name' = name \/ \E x \in Names \ {"path"} : name' = [name EXCEPT ![x] = None]
      BY <1>y, <2>7 DEF RemoveTmp
    <3>q. QED BY <1>t, <1>y, <3>1 DEF TypeOK
  <2>8. ~WriteInPlace(u) BY DEF InPlace
  <2>q. QED BY <1>2, <2>1, <2>4, <2>5, <2>7, <2>8 DEF Handler
<1>3. CASE Crash BY <1>3, <1>t, <1>y DEF Crash, TypeOK
<1>4. CASE UNCHANGED name BY <1>4
<1>q. QED BY <1>1, <1>2, <1>3, <1>4 DEF Next, Open, Stream, vars

\* A verb and its version are given once; only a crash is a crash.
LEMMA StepVerbs ==
  ASSUME TransferInv, [Next]_vars
  PROVE  /\ \A u \in Uploads : verb'[u] = verb[u] \/ (verb[u] = None /\ up[u].at = "idle")
         /\ \A u \in Uploads : up[u].at # "idle" => file'[u] = file[u]
         /\ powerCut => powerCut'
         /\ ~Crash => powerCut' = powerCut /\ crashes' = crashes
         /\ failed \subseteq failed'
<1>t. TypeOK /\ \A u \in Uploads : Handles(u) BY DEF TransferInv
<1>1. ASSUME NEW w \in Uploads, Handler(w) \/ Drop(w)
      PROVE  /\ \A u \in Uploads : verb'[u] = verb[u] \/ (verb[u] = None /\ up[u].at = "idle")
             /\ \A u \in Uploads : up[u].at # "idle" => file'[u] = file[u]
             /\ UNCHANGED <<powerCut, crashes>> /\ failed \subseteq failed'
  <2>1. /\ \A u \in Uploads \ {w} : verb'[u] = verb[u] /\ file'[u] = file[u]
        /\ UNCHANGED <<crashes, powerCut>>
        /\ UNCHANGED request \/ \E k \in Verbs, v \in Versions : Ask(w, k, v)
        /\ FailsAlone(w)
    BY <1>1, <1>t, OthersStay
  <2>2. UNCHANGED request \/ (up[w].at = "idle" /\ verb[w] = None) BY <1>t, <2>1 DEF Ask, Handles
  <2>3. (verb'[w] = verb[w] /\ file'[w] = file[w]) \/ (up[w].at = "idle" /\ verb[w] = None) BY <2>2 DEF request
  <2>q. QED BY <2>1, <2>3 DEF FailsAlone
<1>2. CASE UNCHANGED <<request, crashes, powerCut, failed>> BY <1>2 DEF request
<1>3. CASE Crash BY <1>3 DEF Crash, request
<1>q. QED BY <1>1, <1>2, <1>3 DEF Next, Open, Stream, vars, faults

\* What an upload has written was flushed before it was renamed.
Flushes(u) == verb[u] \in {"put", None} /\ <<u, "flush">> \notin failed

\* While every version is whole, no upload has written in place.
LEMMA AtomicSteps ==
  ASSUME NameAssumption, TransferInv, [Next]_vars, Atomic'
  PROVE  /\ Atomic /\ \A u \in Uploads : ~InPlace(u)
         /\ \A u \in Uploads : Flushes(u)' => Flushes(u)
<1>t. \A u \in Uploads : Handles(u) BY DEF TransferInv
<1>v. /\ \A u \in Uploads : verb'[u] = verb[u] \/ verb[u] = None
      /\ powerCut => powerCut'
      /\ failed \subseteq failed'
  BY StepVerbs
<1>n. None # "putz" BY NameAssumption DEF Verbs
<1>f. \A u \in Uploads : Flushes(u)' => Flushes(u) BY <1>v DEF Flushes
<1>1. Atomic
  <2>1. \A u \in Uploads : verb'[u] # "putz" /\ (powerCut' => Flushes(u)') BY DEF Atomic, Flushes
  <2>2. \A u \in Uploads : verb[u] # "putz" /\ (powerCut => Flushes(u)) BY <1>f, <1>n, <1>v, <2>1
  <2>q. QED BY <2>2 DEF Atomic, Flushes
<1>2. ASSUME NEW u \in Uploads PROVE ~InPlace(u)
  BY <1>1, <1>t DEF Atomic, InPlace, WriteInPlace, Handles
<1>q. QED BY <1>1, <1>2, <1>f

----------------------------------------------------------------------------
(* Readers see one version.                                                *)

\* What the path leads to is whole and, where only PUT wrote and flushed, on
\* the disk.
PathInv ==
  Atomic /\ name["path"] # None =>
    /\ \E v \in Versions : Whole(data[name["path"]], v)
    /\ (\A u \in Uploads : Flushes(u)) => name["path"] \in synced

LEMMA PathStays ==
  ASSUME NameAssumption, BlocksAssumption, TransferInv, PathInv, [Next]_vars
  PROVE  PathInv'
<1>t. TypeOK /\ Directory /\ \A u \in Uploads : Handles(u) BY DEF TransferInv
<1>y. "path" \in Names BY DEF Names
<1> SUFFICES ASSUME Atomic', name'["path"] # None
             PROVE  /\ \E v \in Versions : Whole(data'[name'["path"]], v)
                    /\ (\A u \in Uploads : Flushes(u)') => name'["path"] \in synced'
  BY DEF PathInv, Whole, Flushes
<1>a. /\ Atomic /\ \A u \in Uploads : ~InPlace(u)
      /\ \A u \in Uploads : Flushes(u)' => Flushes(u)
  BY AtomicSteps
<1>1. CASE Crash
  <2>1. name'["path"] = name["path"] /\ synced' = synced BY <1>1, <1>t, <1>y DEF Crash, TypeOK
  <2>2. /\ \E v \in Versions : Whole(data[name["path"]], v)
        /\ (\A u \in Uploads : Flushes(u)) => name["path"] \in synced
    BY <1>a, <2>1 DEF PathInv
  <2>3. name["path"] \in Inodes BY <1>t, <1>y, <2>1 DEF TypeOK
  <2>4. powerCut' => \A u \in Uploads : Flushes(u) BY <1>a DEF Atomic, Flushes
  <2>5. data'[name["path"]] = data[name["path"]] BY <1>1, <1>t, <2>2, <2>3, <2>4, CrashData
  <2>q. QED BY <1>a, <2>1, <2>2, <2>5
<1>2. CASE ~Crash /\ name'["path"] = name["path"]
  <2>1. PICK i \in Inodes : i = name["path"] BY <1>2, <1>t, <1>y DEF TypeOK
  <2>2. ~Unborn(i) /\ \A x \in Names \ {"path"} : name[x] # i BY <1>2, <1>t, <1>y, <2>1 DEF Directory
  <2>3. data'[i] = data[i] /\ (i \in synced => i \in synced') BY <1>2, <1>a, <2>2, StepData
  <2>q. QED BY <1>2, <1>a, <2>1, <2>3 DEF PathInv
<1>3. ASSUME NEW u \in Uploads, Rename(u), ~Ended(u), name'["path"] = name[Tmp(verb[u])]
      PROVE  /\ \E v \in Versions : Whole(data'[name'["path"]], v)
             /\ (\A w \in Uploads : Flushes(w)') => name'["path"] \in synced'
  <2>1. up[u].at = "rename" /\ UNCHANGED <<data, synced>> BY <1>3 DEF Rename
  <2>2. /\ verb[u] \in Verbs /\ file[u] \in Versions /\ Whole(data[name[Tmp(verb[u])]], file[u])
        /\ verb[u] = "put" => name["put.tmp"] \in synced \/ <<u, "flush">> \in failed
    BY <1>t, <2>1 DEF Handles
  <2>3. Flushes(u)' => name[Tmp(verb[u])] \in synced
    <3>1. Flushes(u)' => verb[u] = "put" /\ <<u, "flush">> \notin failed
      BY <1>a, <2>2, NameAssumption DEF Flushes, Verbs
    <3>q. QED BY <2>2, <3>1 DEF Tmp
  <2>4. Whole(data[name[Tmp(verb[u])]], file[u]) BY <2>2
  <2>q. QED BY <1>3, <2>1, <2>2, <2>3, <2>4
<1>q. QED BY <1>1, <1>2, <1>3, <1>a, StepPath

LEMMA PathInitially ==
  ASSUME Init PROVE PathInv
<1>1. name["path"] = Old /\ data[Old] = [b \in 1..Blocks |-> Old] /\ synced = {Old}
  BY DEF Init, Names, Inodes
<1>q. QED BY <1>1 DEF PathInv, Whole, Versions

\* Whoever opens the file sees one version, all of it, through any number of
\* uploads, crashes of the daemon and lost connections, if uploads that stage
\* under one name do not overlap (HandleTransfer, HandleSync, HandleResume).
THEOREM FileIsWhole ==
  ASSUME ~Overlap PROVE Spec => []PathWhole
<1>1. Init => TransferInv /\ PathInv
  BY TransferInitially, PathInitially, NameAssumption, BlocksAssumption, BoundAssumption
<1>2. TransferInv /\ PathInv /\ [Next]_vars => TransferInv' /\ PathInv'
  BY TransferStep, PathStays, NameAssumption, BlocksAssumption, BoundAssumption
<1>3. PathInv => PathWhole BY DEF PathInv, PathWhole
<1>q. QED BY <1>1, <1>2, <1>3, PTL DEF Spec

\* If the file a waiting request has opened is not that of the path any more, a
\* PUT has replaced it, and what it put there is there.
Replaces(w) == verb[w] = "put" /\ up[w].at = "ok" /\ Holds(w)

SkipInv ==
  \A u \in Uploads : up[u].at = "asked" /\ up[u].fd # None /\ up[u].fd # name["path"] =>
    \E w \in Uploads \ {u} : Replaces(w)

\* While a request waits nobody but a PUT is at work.
LEMMA AskedAlone ==
  ASSUME TransferInv, NEW u \in Uploads, up[u].at = "asked", up[u].fd # None
  PROVE  /\ \A w \in Uploads : ~InPlace(w)
         /\ \A w \in Uploads \ {u} : ~Ended(w) => verb[w] = "put"
<1>t. Exclusive /\ \A w \in Uploads : Handles(w) BY DEF TransferInv
<1>1. ~Ended(u) /\ verb[u] \in Verbs \ {"put"} BY <1>t DEF Ended, Handles
<1>2. ASSUME NEW w \in Uploads \ {u}, ~Ended(w) PROVE verb[w] = "put"
  <2>1. Apart(verb[u], verb[w]) BY <1>1, <1>2, <1>t DEF Exclusive
  <2>2. verb[w] \in Verbs BY <1>2, <1>t DEF Handles, Ended
  <2>q. QED BY <1>1, <2>1, <2>2 DEF Apart, Tmp, Verbs
<1>3. ASSUME NEW w \in Uploads PROVE ~InPlace(w)
  <2>1. CASE w = u BY <2>1 DEF InPlace, Stored, WriteInPlace
  <2>2. CASE w # u
    <3>1. InPlace(w) => ~Ended(w) /\ verb[w] = "putz"
      BY <1>t DEF InPlace, Stored, WriteInPlace, Ended, Handles
    <3>q. QED BY <1>2, <2>2, <3>1
  <2>q. QED BY <2>1, <2>2
<1>q. QED BY <1>2, <1>3

\* A PUT that has put its version there: until the path leads elsewhere it
\* holds it.
LEMMA ReplacesStays ==
  ASSUME NameAssumption, TransferInv, [Next]_vars, ~Crash, \A v \in Uploads : ~InPlace(v),
         name'["path"] = name["path"], NEW w \in Uploads, Replaces(w)
  PROVE  Replaces(w)'
<1>t. TypeOK /\ Directory BY DEF TransferInv
<1>y. "path" \in Names BY DEF Names
<1>1. verb[w] = "put" /\ up[w].at = "ok" /\ name["path"] # None /\ Whole(data[name["path"]], file[w])
  BY DEF Replaces, Holds
<1>2. PICK i \in Inodes : i = name["path"] BY <1>1, <1>t, <1>y DEF TypeOK
<1>3. ~Unborn(i) /\ \A x \in Names \ {"path"} : name[x] # i BY <1>1, <1>2, <1>t, <1>y DEF Directory
<1>4. data'[i] = data[i] BY <1>3, StepData
<1>5. verb'[w] = verb[w] /\ file'[w] = file[w] BY <1>1, StepVerbs
<1>6. up'[w].at = "ok"
  <2>1. ASSUME NEW v \in Uploads, Handler(v) \/ Drop(v) PROVE up'[w] = up[w]
    <3>1. v # w
      BY <1>1, <2>1
      DEF Handler, Drop, Ask, Skip, BeginStaged, BeginPutZ, BeginResume, CannotOpen, Receive, Stored,
          WriteInPlace, Verify, RemoveTmp, Rename
    <3>q. QED BY <1>t, <2>1, <3>1, OthersStay
  <2>2. CASE UNCHANGED up BY <1>1, <2>2
  <2>q. QED BY <1>1, <2>1, <2>2 DEF Next, Open, Stream, vars
<1>q. QED BY <1>1, <1>2, <1>4, <1>5, <1>6 DEF Replaces, Holds, Whole

LEMMA SkipStays ==
  ASSUME NameAssumption, TransferInv, SkipInv, [Next]_vars PROVE SkipInv'
<1>t. TypeOK /\ \A w \in Uploads : Handles(w) BY DEF TransferInv
<1> SUFFICES ASSUME NEW u \in Uploads, up'[u].at = "asked", up'[u].fd # None, up'[u].fd # name'["path"]
             PROVE  \E w \in Uploads \ {u} : Replaces(w)'
  BY DEF SkipInv, Replaces, Holds, Whole
<1>c. ~Crash
  <2>1. Crash => up'[u] = IF Ended(u) THEN up[u] ELSE [up[u] EXCEPT !.at = "error"] BY DEF Crash
  <2>2. [up[u] EXCEPT !.at = "error"].at = "error" BY <1>t DEF TypeOK
  <2>q. QED BY <2>1, <2>2 DEF Ended
<1>1. ~(Handler(u) \/ Drop(u))
  <2>1. ASSUME NEW k \in Verbs, NEW v \in Versions, Ask(u, k, v) PROVE FALSE
    <3>1. PICK r : /\ r = [at |-> "asked", fd |-> IF k = "put" THEN None ELSE name["path"], n |-> 0]
                   /\ up' = [up EXCEPT ![u] = r] /\ name' = name
      BY <2>1 DEF Ask
    <3>2. up'[u].fd = IF k = "put" THEN None ELSE name["path"] BY <1>t, <3>1 DEF TypeOK
    <3>q. QED BY <3>1, <3>2
  <2>2. ASSUME \/ Skip(u) \/ BeginStaged(u) \/ BeginPutZ(u) \/ BeginResume(u) \/ CannotOpen(u)
               \/ Receive(u) \/ Stored(u) \/ WriteInPlace(u) \/ Verify(u) \/ RemoveTmp(u) \/ Rename(u) \/ Drop(u)
        PROVE  FALSE
    <3>1. up'[u].at # "asked"
      BY <1>t, <2>2
      DEF Skip, BeginStaged, BeginPutZ, BeginResume, CannotOpen, Receive, Stored, WriteInPlace, Verify,
          RemoveTmp, Rename, AfterFailedRename, Drop, Create, Goto, TypeOK
    <3>q. QED BY <3>1
  <2>q. QED BY <2>1, <2>2 DEF Handler
<1>2. up'[u] = up[u]
  <2>1. ASSUME NEW w \in Uploads \ {u}, Handler(w) \/ Drop(w) PROVE up'[u] = up[u] BY <1>t, <2>1, OthersStay
  <2>2. CASE UNCHANGED up BY <2>2
  <2>q. QED BY <1>1, <1>c, <2>1, <2>2 DEF Next, Open, Stream, vars
<1>3. up[u].at = "asked" /\ up[u].fd # None BY <1>2
<1>4. \A w \in Uploads : ~InPlace(w) BY <1>3, AskedAlone
<1>5. CASE name'["path"] = name["path"]
  <2>1. PICK w \in Uploads \ {u} : Replaces(w) BY <1>2, <1>5, <1>3 DEF SkipInv
  <2>q. QED BY <1>4, <1>5, <1>c, <2>1, ReplacesStays
<1>6. ASSUME NEW w \in Uploads, Rename(w), name'["path"] = name[Tmp(verb[w])], name[Tmp(verb[w])] # None,
             up'[w].at = "ok", ~Ended(w)
      PROVE  \E v \in Uploads \ {u} : Replaces(v)'
  <2>1. w # u BY <1>2, <1>3, <1>6
  <2>2. up[w].at = "rename" /\ UNCHANGED <<data, request>> BY <1>6, RenameGives
  <2>3. Whole(data[name[Tmp(verb[w])]], file[w]) BY <1>t, <2>2 DEF Handles
  <2>4. verb[w] = "put" BY <1>3, <1>6, <2>1, AskedAlone
  <2>5. verb'[w] = verb[w] /\ file'[w] = file[w] BY <2>2 DEF request
  <2>q. QED BY <1>6, <2>1, <2>2, <2>3, <2>4, <2>5 DEF Replaces, Holds, Whole
<1>7. ASSUME NEW w \in Uploads, Stored(w), verb[w] = "sync" PROVE FALSE
  <2>1. w # u /\ ~Ended(w) BY <1>3, <1>7 DEF Stored, Ended
  <2>q. QED BY <1>3, <1>7, <2>1, AskedAlone
<1>q. QED BY <1>4, <1>5, <1>6, <1>7, StepPath

LEMMA OkInstalls ==
  ASSUME BlocksAssumption, TransferInv, SkipInv, [Next]_vars, NEW u \in Uploads, up[u].at # "ok", up'[u].at = "ok"
  PROVE  \/ Holds(u)'
         \/ verb[u] = "resume" /\ <<u, "rename">> \in failed'
         \/ /\ up[u].at = "asked" /\ up[u].fd # name["path"]
            /\ \E w \in Uploads \ {u} : Replaces(w)
<1>t. TypeOK /\ Handles(u) BY DEF TransferInv
<1>y. "path" \in Names /\ Tmp(verb[u]) \in Names \ {"path"} BY DEF Names, Tmp
<1>1. ASSUME NEW w \in Uploads \ {u}, Handler(w) \/ Drop(w) PROVE FALSE
  <2>1. up'[u] = up[u] BY <1>1, <1>t, OthersStay
  <2>q. QED BY <2>1
<1>2. CASE Skip(u)
  <2>1. up[u].at = "asked" /\ Found(u) /\ UNCHANGED <<name, data, file>> BY <1>2 DEF Skip, request
  <2>2. up[u].fd # None /\ Whole(data[up[u].fd], file[u]) BY <2>1 DEF Found
  <2>3. CASE up[u].fd = name["path"] BY <2>1, <2>2, <2>3 DEF Holds, Whole
  <2>4. CASE up[u].fd # name["path"] BY <2>1, <2>2, <2>4 DEF SkipInv
  <2>q. QED BY <2>3, <2>4
<1>3. CASE WriteInPlace(u)
  <2>1. CASE up' = [up EXCEPT ![u].n = @ + 1]
    <3>1. up'[u].at = up[u].at BY <2>1, <1>t DEF TypeOK
    <3>q. QED BY <3>1
  <2>2. CASE up[u].n = Blocks /\ UNCHANGED data
    <3>1. up[u].at = "write" /\ UNCHANGED <<name, data, file>> BY <1>3, <2>2 DEF WriteInPlace, request
    <3>2. name["path"] # None /\ Whole(data[name["path"]], file[u]) BY <1>t, <2>2, <3>1 DEF Handles, Whole
    <3>q. QED BY <3>1, <3>2 DEF Holds, Whole
  <2>3. CASE Goto(u, "error")
    <3>1. up'[u].at = "error" BY <2>3, <1>t DEF Goto, TypeOK
    <3>q. QED BY <3>1
  <2>q. QED BY <1>3, <2>1, <2>2, <2>3 DEF WriteInPlace
<1>4. CASE Rename(u)
  <2>1. /\ up[u].at = "rename" /\ name[Tmp(verb[u])] # None /\ UNCHANGED <<data, request>>
        /\ verb[u] \in {"put", "sync", "resume"}
        /\ \/ name' = [name EXCEPT !["path"] = name[Tmp(verb[u])], ![Tmp(verb[u])] = None]
           \/ Fails(u, "rename") /\ Goto(u, AfterFailedRename(verb[u]))
    BY <1>4, RenameGives
  <2>2. Whole(data[name[Tmp(verb[u])]], file[u]) /\ file'[u] = file[u] BY <1>t, <2>1 DEF Handles, request
  <2>3. CASE name' = [name EXCEPT !["path"] = name[Tmp(verb[u])], ![Tmp(verb[u])] = None]
    <3>1. name'["path"] = name[Tmp(verb[u])] BY <1>t, <1>y, <2>3 DEF TypeOK
    <3>q. QED BY <2>1, <2>2, <3>1 DEF Holds, Whole
  <2>4. CASE Fails(u, "rename") /\ Goto(u, AfterFailedRename(verb[u]))
    <3>1. up'[u].at = AfterFailedRename(verb[u]) BY <1>t, <2>4 DEF Goto, TypeOK
    <3>2. verb[u] = "resume" BY <2>1, <3>1 DEF AfterFailedRename
    <3>q. QED BY <2>4, <3>2 DEF Fails
  <2>q. QED BY <2>1, <2>3, <2>4
<1>5. CASE \/ \E k \in Verbs, v \in Versions : Ask(u, k, v)
           \/ BeginStaged(u) \/ BeginPutZ(u) \/ BeginResume(u) \/ CannotOpen(u)
           \/ Receive(u) \/ Stored(u) \/ Verify(u) \/ RemoveTmp(u) \/ Drop(u)
  <2>1. up'[u].at # "ok"
    BY <1>5, <1>t
    DEF Ask, Drop, BeginStaged, BeginPutZ, BeginResume, CannotOpen, Receive, Stored, Verify, RemoveTmp, Create,
        Goto, TypeOK
  <2>q. QED BY <2>1
<1>6. CASE Crash
  <2>1. up'[u] = IF Ended(u) THEN up[u] ELSE [up[u] EXCEPT !.at = "error"] BY <1>6 DEF Crash
  <2>2. [up[u] EXCEPT !.at = "error"].at = "error" BY <1>t DEF TypeOK
  <2>q. QED BY <2>1, <2>2
<1>7. CASE UNCHANGED up BY <1>7
<1>q. QED BY <1>1, <1>2, <1>3, <1>4, <1>5, <1>6, <1>7 DEF Next, Handler, Open, Stream, vars

\* An upload is answered OK, or SKIP, only when the file is what it sent
\* (HandleTransfer, HandleSync, HandleResume, HandlePutZ), if uploads that
\* could touch one another's files do not overlap; but a RESUME is answered OK
\* although its rename has failed, and a SKIP may come after a PUT has put
\* another version there.
THEOREM OkIsInstalled ==
  ASSUME ~Overlap PROVE Spec => OkMeansInstalled
<1>1. Init => TransferInv /\ SkipInv
  <2>1. ASSUME Init, NEW u \in Uploads PROVE up[u].at = "idle" BY <2>1 DEF Init
  <2>2. Init => SkipInv BY <2>1 DEF SkipInv
  <2>q. QED BY <2>2, TransferInitially, NameAssumption, BlocksAssumption, BoundAssumption
<1>2. TransferInv /\ SkipInv /\ [Next]_vars => TransferInv' /\ SkipInv'
  BY TransferStep, SkipStays, NameAssumption, BlocksAssumption, BoundAssumption
<1>3. TransferInv /\ SkipInv /\ [Next]_vars =>
        [\A u \in Uploads : up[u].at # "ok" /\ up'[u].at = "ok" =>
           \/ Holds(u)'
           \/ verb[u] = "resume" /\ <<u, "rename">> \in failed'
           \/ /\ up[u].at = "asked" /\ up[u].fd # name["path"]
              /\ \E w \in Uploads \ {u} : verb[w] = "put" /\ up[w].at = "ok" /\ Holds(w)]_vars
  BY OkInstalls, BlocksAssumption DEF Replaces
<1>q. QED BY <1>1, <1>2, <1>3, PTL DEF Spec, OkMeansInstalled

\* The file is missing only after a SYNC removed it.
PresentInv == (\A u \in Uploads : verb[u] # "sync") => name["path"] # None

LEMMA PresentStays ==
  ASSUME NameAssumption, TransferInv, PresentInv, [Next]_vars
  PROVE  PresentInv'
<1>t. TypeOK /\ \A u \in Uploads : Handles(u) BY DEF TransferInv
<1>y. "path" \in Names /\ "tmp" \in Names \ {"path"} /\ \A k : Tmp(k) \in Names \ {"path"} BY DEF Names, Tmp
<1> SUFFICES ASSUME \A u \in Uploads : verb'[u] # "sync" PROVE name'["path"] # None BY DEF PresentInv
<1>1. /\ \A u \in Uploads : verb'[u] = verb[u] \/ verb[u] = None BY StepVerbs
<1>2. None # "sync" /\ None \notin Uploads BY NameAssumption DEF Verbs
<1>3. name["path"] # None BY <1>1, <1>2 DEF PresentInv
<1>4. \A u \in Uploads : verb[u] # "sync" BY <1>1, <1>2
<1>5. CASE Crash
  <2>1. name' = [name EXCEPT !["put.tmp"] = None] BY <1>5 DEF Crash
  <2>q. QED BY <1>3, <1>t, <1>y, <2>1 DEF TypeOK
<1>6. CASE UNCHANGED name BY <1>3, <1>6
<1>7. CASE \E x \in Names \ {"path"} : \E r : name' = [name EXCEPT ![x] = r] BY <1>3, <1>7, <1>t, <1>y DEF TypeOK
<1>8. ASSUME NEW u \in Uploads,
             \/ \E k \in Verbs, v \in Versions : Ask(u, k, v)
             \/ Skip(u) \/ BeginPutZ(u) \/ CannotOpen(u) \/ Receive(u) \/ WriteInPlace(u) \/ Verify(u) \/ Drop(u)
      PROVE  UNCHANGED name
  BY <1>8 DEF Ask, Skip, BeginPutZ, CannotOpen, Receive, WriteInPlace, Verify, Drop
<1>9. ASSUME NEW u \in Uploads, BeginStaged(u) \/ BeginResume(u)
      PROVE  UNCHANGED name \/ \E x \in Names \ {"path"} : \E r : name' = [name EXCEPT ![x] = r]
  BY <1>9, <1>y DEF BeginStaged, BeginResume, Create
<1>10. ASSUME NEW u \in Uploads, RemoveTmp(u)
       PROVE  UNCHANGED name \/ \E x \in Names \ {"path"} : \E r : name' = [name EXCEPT ![x] = r]
  BY <1>10, <1>y DEF RemoveTmp
<1>13. ASSUME NEW u \in Uploads, Stored(u) PROVE name'["path"] # None
  <2>1. up[u].at = "receive" BY <1>13 DEF Stored
  <2>2. verb[u] \in Verbs BY <1>t, <2>1 DEF Handles
  <2>3. CASE verb[u] \in {"put", "resume"} BY <1>3, <1>13, <2>3 DEF Stored
  <2>4. CASE verb[u] = "putz"
    <3>1. name' = [name EXCEPT !["path"] = name["path"]] \/ name' = name BY <1>3, <1>13, <2>4 DEF Stored, Create
    <3>q. QED BY <1>3, <1>t, <1>y, <3>1 DEF TypeOK
  <2>q. QED BY <1>4, <2>2, <2>3, <2>4 DEF Verbs
<1>14. ASSUME NEW u \in Uploads, Rename(u) PROVE name'["path"] # None
  <2>1. /\ name[Tmp(verb[u])] # None
        /\ name' = name \/ name' = [name EXCEPT !["path"] = name[Tmp(verb[u])], ![Tmp(verb[u])] = None]
    BY <1>14, RenameGives
  <2>q. QED BY <1>3, <1>t, <1>y, <2>1 DEF TypeOK
<1>15. CASE \E u \in Uploads : Handler(u) \/ Drop(u)
  BY <1>6, <1>7, <1>8, <1>9, <1>10, <1>13, <1>14, <1>15 DEF Handler
<1>16. CASE \E d \in Downloads : Open(d) \/ Stream(d) BY <1>6, <1>16 DEF Open, Stream
<1>q. QED BY <1>5, <1>6, <1>15, <1>16 DEF Next, vars

\* The file is there at every moment unless a SYNC removed it: PUT and RESUME
\* rename over it, PUTZ truncates it (HandleTransfer, HandleResume,
\* HandlePutZ), if uploads of one temporary file do not overlap.
THEOREM FileNeverMissing ==
  ASSUME ~Overlap PROVE Spec => PathNeverMissing
<1>1. Init => TransferInv BY TransferInitially, NameAssumption, BlocksAssumption, BoundAssumption
<1>2. Init => PresentInv
  <2>1. "path" \in Names BY DEF Names
  <2>2. Old # None BY NameAssumption
  <2>q. QED BY <2>1, <2>2 DEF Init, PresentInv
<1>3. TransferInv /\ PresentInv /\ [Next]_vars => TransferInv' /\ PresentInv'
  BY TransferStep, PresentStays, NameAssumption, BlocksAssumption, BoundAssumption
<1>4. TransferInv /\ PresentInv /\ [Next]_vars =>
        [(\A u \in Uploads : verb'[u] # "sync") => name'["path"] # None]_vars
  BY PresentStays, NameAssumption DEF PresentInv
<1>q. QED BY <1>1, <1>2, <1>3, <1>4, PTL DEF Spec, PathNeverMissing

----------------------------------------------------------------------------
(* Downloads.                                                              *)

\* An inode nobody will write any more: no temporary name leads to it.
Final(i) == ~Unborn(i) /\ \A x \in Names \ {"path"} : name[x] # i

Of(blocks, v) == blocks = [b \in 1..Len(blocks) |-> v]

\* A download streams a whole version that nobody writes.
Streams(d) ==
  /\ down[d].at = "stream" => Final(down[d].fd) /\ \E v \in Versions : Whole(data[down[d].fd], v) /\ Of(down[d].got, v)
  /\ down[d].at = "done" => \E v \in Versions : Of(down[d].got, v)
  /\ down[d].at # "idle" => down[d].size = Blocks /\ Len(down[d].got) <= Blocks

StreamInv == Atomic => \A d \in Downloads : Streams(d)

LEMMA FinalStays ==
  ASSUME NameAssumption, TransferInv, [Next]_vars, ~Crash, \A u \in Uploads : ~InPlace(u),
         NEW i \in Inodes, Final(i)
  PROVE  Final(i)' /\ data'[i] = data[i]
<1>1. ~Unborn(i) /\ \A x \in Names \ {"path"} : name[x] # i BY DEF Final
<1>2. ~Unborn(i)' BY <1>1, StepUnborn
<1>3. ASSUME NEW x \in Names \ {"path"} PROVE name'[x] # i
  <2>1. name'[x] \in {name[x], None} \/ Unborn(name'[x]) BY StepNames
  <2>2. i # None BY NameAssumption DEF Inodes
  <2>q. QED BY <1>1, <2>1, <2>2
<1>4. data'[i] = data[i] BY <1>1, StepData
<1>q. QED BY <1>2, <1>3, <1>4 DEF Final

\* The next block of a file of one version is of that version.
LEMMA AppendOf ==
  ASSUME NEW v \in Versions, NEW s \in BlockSeqs, Of(s, v)
  PROVE  Of(Append(s, v), v) /\ Len(Append(s, v)) = Len(s) + 1
<1>1. s = [b \in 1..Len(s) |-> v] BY DEF Of
<1>2. s \in Seq(Versions \cup {Hole}) BY DEF BlockSeqs
<1>3. Append(s, v) \in Seq(Versions \cup {Hole}) /\ Len(Append(s, v)) = Len(s) + 1 BY <1>2
<1>4. \A b \in 1..(Len(s) + 1) : Append(s, v)[b] = v
  <2>1. \A b \in 1..Len(s) : s[b] = v BY <1>1
  <2>q. QED BY <1>2, <2>1
<1>5. PICK r : r = [b \in 1..(Len(s) + 1) |-> v] OBVIOUS
<1>6. r \in Seq(Versions \cup {Hole}) /\ Len(r) = Len(s) + 1 /\ \A b \in 1..(Len(s) + 1) : r[b] = v
  BY <1>2, <1>5
<1>7. Append(s, v) = r BY <1>3, <1>4, <1>6
<1>q. QED BY <1>3, <1>5, <1>7 DEF Of

LEMMA StreamStays ==
  ASSUME NameAssumption, BlocksAssumption, TransferInv, PathInv, StreamInv, [Next]_vars
  PROVE  StreamInv'
<1>t. TypeOK /\ RestOK /\ Directory BY DEF TransferInv
<1>y. "path" \in Names BY DEF Names
<1> SUFFICES ASSUME Atomic', NEW d \in Downloads PROVE Streams(d)' BY DEF StreamInv
<1>a. Atomic /\ \A u \in Uploads : ~InPlace(u) BY AtomicSteps
<1>s. Streams(d) BY <1>a DEF StreamInv
<1>r. down[d] \in DownRecords /\ (down[d].at = "stream" => down[d].fd \in Inodes)
  BY <1>t DEF RestOK, DownRecords
<1>1. CASE Crash
  <2>1. down'[d] = IF down[d].at = "stream" THEN [down[d] EXCEPT !.at = "idle"] ELSE down[d] BY <1>1 DEF Crash
  <2>2. CASE down[d].at = "stream"
    <3>1. down'[d].at = "idle" BY <1>r, <2>1, <2>2 DEF DownRecords
    <3>q. QED BY <3>1 DEF Streams
  <2>3. CASE down[d].at # "stream" BY <1>s, <2>1, <2>3 DEF Streams, Of
  <2>q. QED BY <2>2, <2>3
<1>2. CASE ~Crash /\ down'[d] = down[d]
  <2>1. down[d].at = "stream" => Final(down[d].fd)' /\ data'[down[d].fd] = data[down[d].fd]
    BY <1>2, <1>a, <1>r, <1>s, FinalStays DEF Streams
  <2>2. down[d].at = "stream" => Final(down[d].fd) /\ \E v \in Versions : Whole(data[down[d].fd], v) /\ Of(down[d].got, v)
    BY <1>s DEF Streams
  <2>3. down'[d].at = "stream" => Final(down[d].fd)' /\ \E v \in Versions : Whole(data'[down[d].fd], v) /\ Of(down[d].got, v)
    BY <1>2, <2>1, <2>2
  <2>q. QED BY <1>2, <1>s, <2>3 DEF Streams, Of, Final, Whole
<1>3. CASE Open(d)
  <2>1. UNCHANGED <<name, data, up, verb>> BY <1>3 DEF Open, request
  <2>2. PICK i \in Inodes : i = name["path"] /\ i # None
    <3>1. name["path"] # None BY <1>3 DEF Open
    <3>q. QED BY <1>t, <1>y, <3>1 DEF TypeOK
  <2>3. PICK r : r = [at |-> "stream", fd |-> i, size |-> Len(data[i]), got |-> <<>>] OBVIOUS
  <2>4. r.at = "stream" /\ r.fd = i /\ r.size = Len(data[i]) /\ r.got = <<>> BY <2>3
  <2>5. down'[d] = r BY <1>3, <1>t, <2>2, <2>3 DEF Open, TypeOK
  <2>6. Final(i) BY <1>t, <1>y, <2>2 DEF Directory, Final
  <2>7. PICK v \in Versions : Whole(data[i], v) BY <1>a, <2>2 DEF PathInv
  <2>8. Len(data[i]) = Blocks BY <2>7, BlocksAssumption DEF Whole
  <2>9. Of(<<>>, v) /\ Len(<<>>) <= Blocks BY BlocksAssumption DEF Of
  <2>10. Final(i)' BY <2>1, <2>6 DEF Final, Unborn
  <2>q. QED BY <2>1, <2>4, <2>5, <2>7, <2>8, <2>9, <2>10 DEF Streams, Of, Whole
<1>4. CASE Stream(d)
  <2>1. UNCHANGED <<name, data, up, verb>> /\ down[d].at = "stream" BY <1>4 DEF Stream, request
  <2>2. PICK f, i : f = down[d] /\ i = f.fd OBVIOUS
  <2>3. PICK v \in Versions : Whole(data[i], v) /\ Of(f.got, v) BY <1>s, <2>1, <2>2 DEF Streams
  <2>4. f \in DownRecords /\ f.size = Blocks /\ Len(f.got) <= Blocks BY <1>r, <1>s, <2>1, <2>2 DEF Streams
  <2>5. Final(i)' BY <1>s, <2>1, <2>2 DEF Streams, Final, Unborn
  <2>6. Len(data[i]) = Blocks /\ \A b \in 1..Blocks : data[i][b] = v BY <2>3, BlocksAssumption DEF Whole
  <2>7. Len(f.got) \in Nat BY <2>4 DEF DownRecords, BlockSeqs
  <2>8. CASE Len(f.got) + 1 <= Len(data[i])
    <3>1. data[i][Len(f.got) + 1] = v BY <2>6, <2>7, <2>8, BlocksAssumption
    <3>2. down' = [down EXCEPT ![d] = [f EXCEPT !.got = Append(f.got, v)]]
      BY <1>4, <2>2, <2>8, <3>1 DEF Stream
    <3>3. PICK r : r = [f EXCEPT !.got = Append(f.got, v)] OBVIOUS
    <3>4. r.at = f.at /\ r.fd = f.fd /\ r.size = f.size /\ r.got = Append(f.got, v)
      BY <2>4, <3>3 DEF DownRecords
    <3>5. down'[d] = r BY <1>t, <3>2, <3>3 DEF TypeOK
    <3>6. f.got \in BlockSeqs BY <2>4 DEF DownRecords
    <3>7. Of(Append(f.got, v), v) /\ Len(Append(f.got, v)) = Len(f.got) + 1 BY <2>3, <3>6, AppendOf
    <3>8. Len(Append(f.got, v)) <= Blocks BY <2>6, <2>8, <3>7
    <3>q. QED BY <2>1, <2>2, <2>3, <2>4, <2>5, <3>4, <3>5, <3>7, <3>8 DEF Streams, Of, Whole
  <2>9. CASE ~(Len(f.got) + 1 <= Len(data[i]))
    <3>1. down' = [down EXCEPT ![d] = [f EXCEPT !.at = "done"]] BY <1>4, <2>2, <2>9 DEF Stream
    <3>3. PICK r : r = [f EXCEPT !.at = "done"] OBVIOUS
    <3>4. r.at = "done" /\ r.size = f.size /\ r.got = f.got BY <2>4, <3>3 DEF DownRecords
    <3>5. down'[d] = r BY <1>t, <3>1, <3>3 DEF TypeOK
    <3>q. QED BY <2>3, <2>4, <3>4, <3>5 DEF Streams, Of
  <2>q. QED BY <2>8, <2>9
<1>5. ASSUME ~Crash, ~Open(d), ~Stream(d) PROVE down'[d] = down[d]
  <2>1. ASSUME NEW e \in Downloads \ {d}, Open(e) \/ Stream(e) PROVE down'[d] = down[d]
    <3>1. \E r : down' = [down EXCEPT ![e] = r] BY <2>1 DEF Open, Stream
    <3>q. QED BY <1>t, <3>1 DEF TypeOK
  <2>2. CASE \E u \in Uploads : Handler(u) \/ Drop(u) BY <1>t, <2>2, OthersStay
  <2>3. CASE UNCHANGED down BY <2>3
  <2>q. QED BY <1>5, <2>1, <2>2, <2>3 DEF Next, vars
<1>q. QED BY <1>1, <1>2, <1>3, <1>4, <1>5

\* A download that RecvFile accepts is one version, all of it, however the
\* file is replaced while it streams, if uploads that stage under one name do
\* not overlap.
THEOREM DownloadsAreWhole ==
  ASSUME ~Overlap PROVE Spec => []DownloadWhole
<1>1. Init => TransferInv /\ PathInv /\ StreamInv
  <2>1. Init => StreamInv BY DEF Init, StreamInv, Streams
  <2>q. QED BY <2>1, TransferInitially, PathInitially, NameAssumption, BlocksAssumption, BoundAssumption
<1>2. TransferInv /\ PathInv /\ StreamInv /\ [Next]_vars => TransferInv' /\ PathInv' /\ StreamInv'
  BY TransferStep, PathStays, StreamStays, NameAssumption, BlocksAssumption, BoundAssumption
<1>3. TransferInv /\ StreamInv => DownloadWhole
  <2> SUFFICES ASSUME TransferInv, StreamInv, Atomic, NEW d \in Downloads, Accepted(d)
               PROVE  \E v \in Versions : Whole(Kept(d), v)
    BY DEF DownloadWhole
  <2>1. PICK f : f = down[d] OBVIOUS
  <2>2. f \in DownRecords /\ f.at = "done" /\ Len(f.got) >= f.size BY <2>1 DEF TransferInv, RestOK, Accepted
  <2>3. f.size = Blocks /\ Len(f.got) <= Blocks /\ \E v \in Versions : Of(f.got, v)
    BY <2>1, <2>2 DEF StreamInv, Streams
  <2>4. PICK v \in Versions : Of(f.got, v) BY <2>3
  <2>5. f.got \in BlockSeqs BY <2>2 DEF DownRecords
  <2>6. Len(f.got) = Blocks BY <2>2, <2>3, <2>5, BlocksAssumption DEF BlockSeqs
  <2>7. SubSeq(f.got, 1, Blocks) = f.got BY <2>5, <2>6 DEF BlockSeqs
  <2>q. QED BY <2>1, <2>3, <2>4, <2>6, <2>7 DEF Kept, Whole, Of
<1>q. QED BY <1>1, <1>2, <1>3, PTL DEF Spec

----------------------------------------------------------------------------
(* A failed upload leaves no trace.                                        *)

\* An upload that is answered OK, writes in place, or failed in doing so.
Source(w) == up[w].at \in {"write", "ok"} \/ <<w, "write">> \in failed

\* Without a crash every block of the file is an old one, or of such an upload.
Sourced ==
  crashes = 0 /\ name["path"] # None =>
    \A b \in DOMAIN data[name["path"]] :
      \/ data[name["path"]][b] = Old
      \/ \E w \in Uploads : Source(w) /\ file[w] = data[name["path"]][b]

\* Who has a temporary file is at work on it.
Owns(u, x) == ~Ended(u) /\ up[u].at # "asked" /\ verb[u] # "putz" /\ Tmp(verb[u]) = x

\* A temporary file that nobody works on was left by a failed operation.
LeftBy(x, u) ==
  \/ x = "put.tmp" /\ verb[u] = "put" /\ <<u, "remove">> \in failed
  \/ x = "tmp" /\ verb[u] \in {"sync", "resume"} /\ \E op \in {"remove", "rename"} : <<u, op>> \in failed

Tidy ==
  crashes = 0 => \A x \in Names \ {"path"} : name[x] # None => \E u \in Uploads : Owns(u, x) \/ LeftBy(x, u)

\* A source stays one.
LEMMA StepSources ==
  ASSUME TransferInv, [Next]_vars, ~Crash, NEW w \in Uploads, Source(w)
  PROVE  Source(w)' /\ file'[w] = file[w]
<1>t. TypeOK /\ Handles(w) BY DEF TransferInv
<1>o. "write" \in Operations BY DEF Operations
<1>i. up[w].at # "idle" BY <1>o, <1>t DEF Source, Handles
<1>1. file'[w] = file[w] /\ failed \subseteq failed' BY <1>i, StepVerbs
<1>2. CASE <<w, "write">> \in failed BY <1>1, <1>2 DEF Source
<1>3. CASE up[w].at \in {"write", "ok"}
  <2>1. ASSUME NEW u \in Uploads, Handler(u) \/ Drop(u) PROVE Source(w)'
    <3>1. CASE u # w
      <4>1. up'[w] = up[w] BY <1>t, <2>1, <3>1, OthersStay
      <4>q. QED BY <1>3, <4>1 DEF Source
    <3>2. CASE u = w
      <4>1. WriteInPlace(w)
        BY <1>3, <2>1, <3>2
        DEF Handler, Drop, Ask, Skip, BeginStaged, BeginPutZ, BeginResume, CannotOpen, Receive, Stored, Verify,
            RemoveTmp, Rename
      <4>2. up'[w].at \in {"write", "ok"} \/ Fails(w, "write")
        BY <1>t, <4>1 DEF WriteInPlace, Goto, TypeOK
      <4>q. QED BY <4>2 DEF Source, Fails
    <3>q. QED BY <3>1, <3>2
  <2>2. ASSUME UNCHANGED up PROVE Source(w)'
    <3>1. up'[w].at = up[w].at BY <2>2
    <3>q. QED BY <1>3, <3>1 DEF Source
  <2>3. up' = up \/ \E u \in Uploads : Handler(u) \/ Drop(u) BY DEF Next, Open, Stream, vars
  <2>4. CASE up' = up BY <1>1, <2>2, <2>4
  <2>5. CASE \E u \in Uploads : Handler(u) \/ Drop(u) BY <1>1, <2>1, <2>5
  <2>q. QED BY <2>3, <2>4, <2>5
<1>4. <<w, "write">> \in failed \/ up[w].at \in {"write", "ok"} BY DEF Source
<1>q. QED BY <1>1, <1>2, <1>3, <1>4

LEMMA SourcedStays ==
  ASSUME NameAssumption, BlocksAssumption, BoundAssumption, TransferInv, Sourced, [Next]_vars
  PROVE  Sourced'
<1>t. TypeOK /\ Directory /\ \A u \in Uploads : Handles(u) BY DEF TransferInv
<1>y. "path" \in Names BY DEF Names
<1> SUFFICES ASSUME crashes' = 0, name'["path"] # None, NEW b \in DOMAIN data'[name'["path"]]
             PROVE  \/ data'[name'["path"]][b] = Old
                    \/ \E w \in Uploads : Source(w)' /\ file'[w] = data'[name'["path"]][b]
  BY DEF Sourced, Source
<1>c. ~Crash
  <2>1. crashes \in Nat BY <1>t, BoundAssumption DEF TypeOK
  <2>q. QED BY <2>1 DEF Crash
<1>d. crashes = 0 BY <1>c, StepVerbs
<1>s. \A w \in Uploads : Source(w) => Source(w)' /\ file'[w] = file[w]
  BY <1>c, StepSources
<1>1. CASE name["path"] # None /\ name'["path"] = name["path"] /\ data'[name["path"]] = data[name["path"]]
  BY <1>1, <1>d, <1>s DEF Sourced
<1>2. CASE \A u \in Uploads : ~InPlace(u)
  <2>1. CASE name'["path"] = name["path"]
    <3>1. PICK i \in Inodes : i = name["path"] BY <1>t, <1>y, <2>1 DEF TypeOK
    <3>2. ~Unborn(i) /\ \A x \in Names \ {"path"} : name[x] # i BY <1>t, <1>y, <2>1, <3>1 DEF Directory
    <3>3. data'[i] = data[i] BY <1>2, <1>c, <3>2, StepData
    <3>q. QED BY <1>1, <2>1, <3>1, <3>3
  <2>2. CASE \E u \in Uploads : /\ Rename(u) /\ name[Tmp(verb[u])] # None /\ Tmp(verb[u]) \in Names
                                /\ name'["path"] = name[Tmp(verb[u])] /\ up'[u].at = "ok" /\ ~Ended(u)
    <3>1. PICK u \in Uploads : Rename(u) /\ name'["path"] = name[Tmp(verb[u])] /\ up'[u].at = "ok"
      BY <2>2
    <3>2. up[u].at = "rename" /\ UNCHANGED <<data, file>> BY <3>1, RenameGives DEF Rename, request
    <3>3. Whole(data[name[Tmp(verb[u])]], file[u]) BY <1>t, <3>2 DEF Handles
    <3>4. data'[name'["path"]][b] = file'[u] BY <3>1, <3>2, <3>3 DEF Whole
    <3>q. QED BY <3>1, <3>4 DEF Source
  <2>q. QED BY <1>2, <2>1, <2>2, StepPath
<1>3. ASSUME NEW u \in Uploads, Create(u, "path") PROVE FALSE
  <2>1. Create(u, "path") BY <1>3
  <2>2. PICK i : i = IF name["path"] = None THEN u ELSE name["path"] OBVIOUS
  <2>3. i \in Inodes BY <1>t, <1>y, <2>2 DEF TypeOK, Inodes
  <2>4. name' = [name EXCEPT !["path"] = i] /\ data' = [data EXCEPT ![i] = <<>>] BY <2>1, <2>2 DEF Create
  <2>5. data'[name'["path"]] = <<>> BY <1>t, <1>y, <2>3, <2>4 DEF TypeOK
  <2>6. b \in DOMAIN <<>> BY <2>5
  <2>q. QED BY <2>6
<1>4. ASSUME NEW u \in Uploads, WriteInPlace(u)
      PROVE  \/ data'[name'["path"]][b] = Old
             \/ \E w \in Uploads : Source(w)' /\ file'[w] = data'[name'["path"]][b]
  <2>1. up[u].at = "write" /\ name' = name BY <1>4 DEF WriteInPlace
  <2>2. PICK i \in Inodes : i = name["path"] BY <1>t, <1>y, <2>1 DEF TypeOK
  <2>3. up[u].fd = i /\ up[u].n = Len(data[i]) BY <1>t, <2>1, <2>2 DEF Handles
  <2>4. CASE data' = [data EXCEPT ![i] = Put(@, up[u].n + 1, file[u])]
    <3>1. data' = [data EXCEPT ![i] = Put(data[i], Len(data[i]) + 1, file[u])]
      BY <2>3, <2>4
    <3>2. data'[i] = Put(data[i], Len(data[i]) + 1, file[u]) BY <1>t, <3>1 DEF TypeOK
    <3>3. PICK s : s = data[i] OBVIOUS
    <3>4. Len(s) \in Nat /\ DOMAIN s = 1..Len(s) BY <1>t, <3>3 DEF TypeOK
    <3>5. b \in 1..(Len(s) + 1) /\ data'[i][b] = IF b = Len(s) + 1 THEN file[u] ELSE s[b]
      BY <2>1, <2>2, <3>2, <3>3, <3>4 DEF Put
    <3>6. CASE b = Len(s) + 1
      <4>1. data'[name'["path"]][b] = file[u] BY <2>1, <2>2, <3>5, <3>6
      <4>q. QED BY <1>s, <2>1, <4>1 DEF Source
    <3>7. CASE b # Len(s) + 1
      <4>1. b \in DOMAIN data[name["path"]] /\ data'[name'["path"]][b] = data[name["path"]][b]
        BY <2>1, <2>2, <3>3, <3>4, <3>5, <3>7
      <4>q. QED BY <1>d, <1>s, <2>1, <4>1 DEF Sourced
    <3>q. QED BY <3>6, <3>7
  <2>5. CASE UNCHANGED data
    <3>1. name["path"] # None BY <2>1
    <3>q. QED BY <1>1, <2>1, <2>5, <3>1
  <2>q. QED BY <1>4, <2>3, <2>4, <2>5 DEF WriteInPlace
<1>5. ASSUME NEW u \in Uploads, Stored(u), verb[u] = "putz", ~Create(u, "path")
      PROVE  \/ data'[name'["path"]][b] = Old
             \/ \E w \in Uploads : Source(w)' /\ file'[w] = data'[name'["path"]][b]
  <2>1. UNCHANGED <<name, data>> BY <1>5 DEF Stored
  <2>2. name["path"] # None BY <2>1
  <2>q. QED BY <1>1, <2>1, <2>2
<1>q. QED BY <1>2, <1>3, <1>4, <1>5 DEF InPlace

\* What a failed operation left was left by it.
LEMMA LeftStays ==
  ASSUME TransferInv, [Next]_vars, NEW x, NEW u \in Uploads, LeftBy(x, u)
  PROVE  LeftBy(x, u)'
<1>1. Handles(u) BY DEF TransferInv
<1>2. \E op \in Operations : <<u, op>> \in failed BY DEF LeftBy, Operations
<1>3. up[u].at # "idle" BY <1>1, <1>2 DEF Handles
<1>4. verb'[u] = verb[u] /\ failed \subseteq failed' BY <1>3, StepVerbs
<1>q. QED BY <1>4 DEF LeftBy

\* A step of one upload that tidies up what it leaves.
LEMMA TidyAfter ==
  ASSUME TransferInv, [Next]_vars, Tidy, crashes = 0, crashes' = 0, NEW u \in Uploads,
         \A w \in Uploads \ {u} : up'[w] = up[w] /\ verb'[w] = verb[w],
         \A x \in Names \ {"path"} : name'[x] # None =>
           Owns(u, x)' \/ LeftBy(x, u)' \/ (name[x] # None /\ ~Owns(u, x))
  PROVE  Tidy'
<1> SUFFICES ASSUME NEW x \in Names \ {"path"}, name'[x] # None
             PROVE  \E w \in Uploads : Owns(w, x)' \/ LeftBy(x, w)'
  BY DEF Tidy, Owns, Ended, Tmp, LeftBy
<1>1. CASE Owns(u, x)' \/ LeftBy(x, u)' BY <1>1
<1>2. CASE name[x] # None /\ ~Owns(u, x)
  <2>1. PICK w \in Uploads : Owns(w, x) \/ LeftBy(x, w) BY <1>2 DEF Tidy
  <2>2. CASE LeftBy(x, w) BY <2>2, LeftStays
  <2>3. CASE Owns(w, x)
    <3>1. w # u BY <1>2, <2>3
    <3>2. Owns(w, x)' BY <2>3, <3>1 DEF Owns, Ended, Tmp
    <3>q. QED BY <3>2
  <2>q. QED BY <2>1, <2>2, <2>3
<1>q. QED BY <1>1, <1>2

LEMMA TidyStays ==
  ASSUME NameAssumption, BoundAssumption, TransferInv, Tidy, [Next]_vars
  PROVE  Tidy'
<1>t. TypeOK /\ \A u \in Uploads : Handles(u) BY DEF TransferInv
<1>y. "path" \in Names /\ "tmp" \in Names \ {"path"} /\ \A k : Tmp(k) \in Names \ {"path"} BY DEF Names, Tmp
<1> SUFFICES ASSUME crashes' = 0 PROVE Tidy' BY DEF Tidy
<1>c. ~Crash
  <2>1. crashes \in Nat BY <1>t, BoundAssumption DEF TypeOK
  <2>q. QED BY <2>1 DEF Crash
<1>d. crashes = 0 BY <1>c, StepVerbs
<1>1. CASE UNCHANGED <<name, up, verb, failed>> BY <1>1, <1>d DEF Tidy, Owns, Ended, Tmp, LeftBy
<1>2. ASSUME NEW u \in Uploads, Handler(u) \/ Drop(u) PROVE Tidy'
  <2>o. \A w \in Uploads \ {u} : up'[w] = up[w] /\ verb'[w] = verb[w] BY <1>2, <1>t, OthersStay
  <2>a. SUFFICES ASSUME NEW x \in Names \ {"path"}, name'[x] # None
                 PROVE  Owns(u, x)' \/ LeftBy(x, u)' \/ (name[x] # None /\ ~Owns(u, x))
    BY <1>d, <2>o, TidyAfter
  <2>v. UNCHANGED request => Tmp(verb[u])' = Tmp(verb[u]) /\ verb'[u] = verb[u] BY DEF request, Tmp
  \* A request, and what becomes of it before there is a temporary file.
  <2>1. CASE \/ \E k \in Verbs, v \in Versions : Ask(u, k, v)
             \/ Skip(u) \/ BeginPutZ(u) \/ CannotOpen(u)
    <3>1. up[u].at \in {"idle", "asked"} /\ name' = name BY <2>1 DEF Ask, Skip, BeginPutZ, CannotOpen
    <3>2. ~Owns(u, x) BY <3>1 DEF Owns, Ended
    <3>q. QED BY <2>a, <3>1, <3>2
  <2>2. CASE BeginStaged(u) \/ BeginResume(u)
    <3>1. /\ up[u].at = "asked" /\ verb[u] \in {"put", "sync", "resume"} /\ UNCHANGED request
          /\ name' = name \/ \E j : name' = [name EXCEPT ![Tmp(verb[u])] = j]
      BY <2>2 DEF BeginStaged, BeginResume, Create, Tmp
    <3>2. up'[u].at = "receive" BY <1>t, <2>2, <3>1 DEF BeginStaged, BeginResume, Create, TypeOK
    <3>3. CASE x = Tmp(verb[u]) BY <2>v, <3>1, <3>2, <3>3 DEF Owns, Ended
    <3>4. CASE x # Tmp(verb[u])
      <4>1. name'[x] = name[x] BY <1>t, <1>y, <3>1, <3>4 DEF TypeOK
      <4>2. ~Owns(u, x) BY <3>1 DEF Owns
      <4>q. QED BY <2>a, <4>1, <4>2
    <3>q. QED BY <3>3, <3>4
  <2>3. CASE Receive(u) \/ Verify(u)
    <3>1. name' = name /\ UNCHANGED request /\ up'[u].at \in {"receive", "rename", "remove"}
      BY <1>t, <2>3 DEF Receive, Verify, Goto, TypeOK
    <3>2. Owns(u, x) => Owns(u, x)' BY <2>v, <3>1 DEF Owns, Ended
    <3>q. QED BY <2>a, <3>1, <3>2
  <2>4. CASE Stored(u)
    <3>1. up[u].at = "receive" /\ UNCHANGED request BY <2>4 DEF Stored
    <3>2. verb[u] \in Verbs BY <1>t, <3>1 DEF Handles
    <3>3. CASE verb[u] = "putz"
      <4>1. name' = name \/ \E j : name' = [name EXCEPT !["path"] = j] BY <2>4, <3>3 DEF Stored, Create
      <4>2. name'[x] = name[x] BY <1>t, <1>y, <4>1 DEF TypeOK
      <4>q. QED BY <2>a, <3>3, <4>2 DEF Owns
    <3>4. CASE verb[u] # "putz"
      <4>1. up'[u].at \in {"rename", "verify"} /\ (name' = name \/ name' = [name EXCEPT !["path"] = None])
        BY <2>4, <3>2, <3>4, <1>t DEF Stored, Goto, Verbs, TypeOK
      <4>2. name'[x] = name[x] BY <4>1, <1>t, <1>y DEF TypeOK
      <4>3. Owns(u, x) => Owns(u, x)' BY <2>v, <3>1, <4>1 DEF Owns, Ended
      <4>q. QED BY <2>a, <4>2, <4>3
    <3>q. QED BY <3>3, <3>4
  <2>5. CASE WriteInPlace(u)
    <3>1. name' = name /\ up[u].at = "write" BY <2>5 DEF WriteInPlace
    <3>2. verb[u] = "putz" BY <1>t, <3>1 DEF Handles
    <3>q. QED BY <2>a, <3>1, <3>2 DEF Owns
  <2>6. CASE RemoveTmp(u)
    <3>1. /\ up[u].at = "remove" /\ UNCHANGED request
          /\ name' = [name EXCEPT ![Tmp(verb[u])] = None] \/ (Fails(u, "remove") /\ name' = name)
      BY <2>6 DEF RemoveTmp
    <3>2. verb[u] \in {"put", "sync", "resume"} BY <1>t, <3>1 DEF Handles, Verbs
    <3>3. CASE name' = [name EXCEPT ![Tmp(verb[u])] = None]
      <4>1. x # Tmp(verb[u]) /\ name'[x] = name[x] BY <2>a, <3>3, <1>t, <1>y DEF TypeOK
      <4>q. QED BY <2>a, <4>1 DEF Owns
    <3>4. CASE Fails(u, "remove") /\ name' = name
      <4>1. CASE x = Tmp(verb[u])
        <5>1. <<u, "remove">> \in failed' /\ verb'[u] = verb[u] BY <2>v, <3>1, <3>4 DEF Fails
        <5>2. (x = "put.tmp" /\ verb[u] = "put") \/ (x = "tmp" /\ verb[u] \in {"sync", "resume"})
          BY <3>2, <4>1 DEF Tmp
        <5>q. QED BY <5>1, <5>2 DEF LeftBy
      <4>2. CASE x # Tmp(verb[u]) BY <2>a, <3>4, <4>2 DEF Owns
      <4>q. QED BY <4>1, <4>2
    <3>q. QED BY <3>1, <3>3, <3>4
  <2>7. CASE Rename(u)
    <3>1. /\ verb[u] \in {"put", "sync", "resume"}
          /\ \/ name' = [name EXCEPT !["path"] = name[Tmp(verb[u])], ![Tmp(verb[u])] = None]
             \/ Fails(u, "rename") /\ Goto(u, AfterFailedRename(verb[u])) /\ name' = name
      BY <2>7, RenameGives
    <3>2. UNCHANGED request BY <2>7 DEF Rename
    <3>3. CASE name' = [name EXCEPT !["path"] = name[Tmp(verb[u])], ![Tmp(verb[u])] = None]
      <4>1. x # Tmp(verb[u]) /\ name'[x] = name[x] BY <2>a, <3>3, <1>t, <1>y DEF TypeOK
      <4>q. QED BY <2>a, <4>1 DEF Owns
    <3>4. CASE Fails(u, "rename") /\ Goto(u, AfterFailedRename(verb[u])) /\ name' = name
      <4>1. CASE verb[u] = "put"
        <5>1. up'[u].at = "remove" BY <1>t, <3>4, <4>1 DEF Goto, AfterFailedRename, TypeOK
        <5>2. Owns(u, x) => Owns(u, x)' BY <2>v, <3>2, <5>1 DEF Owns, Ended
        <5>q. QED BY <2>a, <3>4, <5>2
      <4>2. CASE verb[u] # "put"
        <5>1. <<u, "rename">> \in failed' /\ verb'[u] \in {"sync", "resume"} BY <2>v, <3>1, <3>2, <3>4, <4>2 DEF Fails
        <5>2. Tmp(verb[u]) = "tmp" BY <4>2 DEF Tmp
        <5>3. CASE x = "tmp" BY <5>1, <5>3 DEF LeftBy
        <5>4. CASE x # "tmp" BY <2>a, <3>4, <5>2, <5>4 DEF Owns
        <5>q. QED BY <5>3, <5>4
      <4>q. QED BY <4>1, <4>2
    <3>q. QED BY <3>1, <3>3, <3>4
  <2>8. CASE Drop(u)
    <3>1. up[u].at = "receive" /\ UNCHANGED request /\ name' = name BY <2>8 DEF Drop
    <3>2. CASE verb[u] = "putz" BY <2>a, <3>1, <3>2 DEF Owns
    <3>3. CASE verb[u] # "putz"
      <4>1. verb[u] \in Verbs BY <1>t, <3>1 DEF Handles
      <4>2. up'[u].at \in {"remove", "verify"} BY <1>t, <2>8, <3>3, <4>1 DEF Drop, Goto, Verbs, TypeOK
      <4>3. Owns(u, x) => Owns(u, x)' BY <2>v, <3>1, <4>2 DEF Owns, Ended
      <4>q. QED BY <2>a, <3>1, <4>3
    <3>q. QED BY <3>2, <3>3
  <2>q. QED BY <1>2, <2>1, <2>2, <2>3, <2>4, <2>5, <2>6, <2>7, <2>8 DEF Handler
<1>q. QED BY <1>1, <1>2, <1>c DEF Next, Open, Stream, vars, request, faults

TraceInv == TransferInv /\ Sourced /\ Tidy

LEMMA TraceInitially ==
  ASSUME NameAssumption, BlocksAssumption, BoundAssumption, Init PROVE TraceInv
<1>1. name["path"] = Old /\ data[Old] = [b \in 1..Blocks |-> Old] BY DEF Init, Names, Inodes
<1>2. Sourced BY <1>1 DEF Sourced
<1>3. \A x \in Names \ {"path"} : name[x] = None BY DEF Init
<1>q. QED BY <1>2, <1>3, TransferInitially DEF TraceInv, Tidy

LEMMA TraceShows ==
  ASSUME NameAssumption, TraceInv PROVE FailedUploadLeavesNoTrace
<1>1. NoLitter
  <2> SUFFICES ASSUME crashes = 0, \A u \in Uploads : Ended(u)
               PROVE  /\ name["put.tmp"] # None => Failed({"put"}, "remove")
                      /\ name["tmp"] # None => \E op \in {"remove", "rename"} : Failed({"sync", "resume"}, op)
    BY DEF NoLitter
  <2>1. "put.tmp" \in Names \ {"path"} /\ "tmp" \in Names \ {"path"} BY DEF Names
  <2>2. \A x \in Names \ {"path"} : name[x] # None => \E u \in Uploads : LeftBy(x, u)
    BY DEF TraceInv, Tidy, Owns
  <2>q. QED BY <2>1, <2>2 DEF LeftBy, Failed
<1>2. FailedUploadChangesNothing
  <2>1. \A u \in Uploads : Source(u) => up[u].at \notin {"idle", "error"} \/ <<u, "write">> \in failed
    BY DEF Source
  <2>q. QED BY <2>1 DEF FailedUploadChangesNothing, TraceInv, Sourced
<1>q. QED BY <1>1, <1>2 DEF FailedUploadLeavesNoTrace

\* An upload that fails leaves no block of its own in the file, unless it is a
\* PUTZ that failed in writing it; and no temporary file beside it, unless the
\* daemon crashed, the file could not be removed, or it is a SYNC or RESUME that
\* could not rename it (HandleTransfer, HandleSync, HandleResume, HandlePutZ),
\* if uploads that stage under one name do not overlap.
THEOREM NoTraceIsLeft ==
  ASSUME ~Overlap PROVE Spec => []FailedUploadLeavesNoTrace
<1>1. Init => TraceInv BY TraceInitially, NameAssumption, BlocksAssumption, BoundAssumption
<1>2. TraceInv /\ [Next]_vars => TraceInv'
  BY TransferStep, SourcedStays, TidyStays, NameAssumption, BlocksAssumption, BoundAssumption DEF TraceInv
<1>3. TraceInv => FailedUploadLeavesNoTrace BY TraceShows, NameAssumption
<1>q. QED BY <1>1, <1>2, <1>3, PTL DEF Spec

----------------------------------------------------------------------------
(* ParallelTransfer.                                                       *)

FetchRecords == [at : {"idle", "open", "ready", "expired", "error"}, inode : Nat, size : Nat,
                 asked : Int, hash : Seq(Nat), conns : Int]
ChunkRecords == [at : {"idle", "open", "done", "error"}, inode : Nat, offset : Nat, got : Seq(Nat)]
UploadRecords == [at : {"idle", "receive", "write", "ok", "error"},
                  verb : {"none", "MPUT", "PIPE_UP"}, content : Seq(Nat), inode : Nat]

ChunkIndex == 0..(MostConns - 1)

\* The end of chunk i of a download r.
End(r, i) ==
  LET size == r.size \div r.conns
      end == i * size + (IF i = r.conns - 1 THEN r.size - i * size ELSE size) IN
  IF end < Len(inodes[Now]) THEN end ELSE Len(inodes[Now])

\* A download r, with chunks c, of the file as it is: its chunks are the parts
\* of it that the announced number of connections makes.
Current(r, c) ==
  /\ r.inode = Now /\ r.size = Len(inodes[Now])
  /\ r.at \in {"ready", "expired"} /\ r.asked > 0 =>
       /\ r.hash = inodes[Now]
       /\ \A i \in 0..(r.conns - 1) :
            /\ c[i].at = "open" => c[i].inode = Now
            /\ c[i].at \in {"open", "done"} => c[i].offset = i * (r.size \div r.conns)
            /\ c[i].at = "done" => c[i].got = SubSeq(inodes[Now], c[i].offset + 1, End(r, i))

\* Chunk i, a record c, of a download r: nothing came before it was done, and
\* where no number above zero was asked for there is at most the first one, and
\* nothing comes at all.
ChunkOK(r, i, c) ==
  /\ c.inode \in 1..Now
  /\ r.at \in {"idle", "open", "error"} => c.at = "idle"
  /\ c.at # "done" => c.got = <<>>
  /\ r.asked <= 0 => c.got = <<>> /\ (c.at = "open" => i = 0 /\ c.offset = 0 /\ r.conns < 0)

\* The number of connections a session keeps for the number asked for.
ConnsOK(r) ==
  r.at \in {"ready", "expired"} =>
    (r.asked > 0 /\ r.conns \in 1..MostConns) \/ (r.asked <= 0 /\ r.conns <= 0)

FetchOK(f) ==
  /\ fetch[f].inode \in 1..Now /\ ConnsOK(fetch[f])
  /\ \A i \in ChunkIndex : ChunkOK(fetch[f], i, chunk[f][i])
  /\ fetch[f].at = "idle" \/ f \in changed \/ Current(fetch[f], chunk[f])

ParallelInv == ParallelTypeOK /\ \A f \in Fetches : FetchOK(f)

LEMMA Parts ==
  ASSUME NEW s \in Seq(Nat), NEW m \in Nat, NEW n \in Int, n <= Len(s)
  PROVE  SubSeq(s, m + 1, n) \in Seq(Nat)
OBVIOUS

LEMMA Division ==
  ASSUME NEW a \in Nat, NEW n \in Nat \ {0}
  PROVE  a \div n \in Nat /\ n * (a \div n) <= a
OBVIOUS

LEMMA FetchTypes ==
  ASSUME ParallelAssumption, ParallelTypeOK, NEW f \in Fetches
  PROVE  /\ fetch[f] \in FetchRecords
         /\ fetch[f].size \in Nat /\ fetch[f].conns \in Int /\ fetch[f].asked \in Int
         /\ \A i \in ChunkIndex : i \in Nat /\ chunk[f][i] \in ChunkRecords
         /\ Now \in 1..Now /\ Now \in Nat
         /\ \A k \in 1..Now : inodes[k] \in Seq(Nat)
<1>1. fetch[f] \in FetchRecords BY DEF ParallelTypeOK, FetchRecords
<1>2. fetch[f].size \in Nat /\ fetch[f].conns \in Int /\ fetch[f].asked \in Int BY <1>1 DEF FetchRecords
<1>6. \A i \in ChunkIndex : i \in Nat BY DEF ParallelAssumption, ChunkIndex
<1>7. chunk \in [Fetches -> [ChunkIndex -> ChunkRecords]] BY DEF ParallelTypeOK, ChunkRecords, ChunkIndex
<1>8. inodes \in Seq(Seq(Nat)) /\ Len(inodes) # 0 BY DEF ParallelTypeOK
<1>9. Now \in 1..Now /\ Now \in Nat /\ \A k \in 1..Now : inodes[k] \in Seq(Nat) BY <1>8 DEF Now
<1>q. QED BY <1>1, <1>2, <1>6, <1>7, <1>9

\* The size of a chunk, if there is a number of connections to divide by.
LEMMA ChunkSizes ==
  ASSUME ParallelAssumption, ParallelTypeOK, NEW f \in Fetches, fetch[f].conns # 0
  PROVE  /\ ChunkSize(f) \in Int
         /\ fetch[f].conns > 0 => ChunkSize(f) = fetch[f].size \div fetch[f].conns
         /\ fetch[f].conns < 0 => ChunkSize(f) <= 0
<1>1. PICK n \in Int, a \in Nat : n = fetch[f].conns /\ a = fetch[f].size BY FetchTypes
<1>2. CASE n > 0
  <2>1. a \div n \in Nat BY <1>2, Division
  <2>2. ChunkSize(f) = a \div n BY <1>1, <1>2 DEF ChunkSize
  <2>q. QED BY <1>1, <1>2, <2>1, <2>2
<1>3. CASE n < 0
  <2>1. -n \in Nat \ {0} BY <1>3
  <2>2. PICK q \in Nat : q = a \div (-n) BY <2>1, Division
  <2>3. ChunkSize(f) = -q BY <1>1, <1>3, <2>2 DEF ChunkSize
  <2>q. QED BY <1>1, <1>3, <2>3
<1>q. QED BY <1>1, <1>2, <1>3

\* A step of one download.
LEMMA FetchKeeps ==
  ASSUME ParallelInv, NEW f \in Fetches, UNCHANGED <<inodes, upload, changed>>, broken' \in 0..MaxBroken,
         NEW r \in FetchRecords, r.inode \in 1..Now, fetch' = [fetch EXCEPT ![f] = r], ConnsOK(r),
         NEW c \in [ChunkIndex -> ChunkRecords], \A i \in ChunkIndex : ChunkOK(r, i, c[i]),
         chunk' = [chunk EXCEPT ![f] = c],
         f \in changed \/ Current(r, c)
  PROVE  ParallelInv'
<1>t. ParallelTypeOK BY DEF ParallelInv
<1>1. /\ fetch \in [Fetches -> FetchRecords] /\ chunk \in [Fetches -> [ChunkIndex -> ChunkRecords]]
  BY <1>t DEF ParallelTypeOK, FetchRecords, ChunkRecords, ChunkIndex
<1>2. fetch'[f] = r /\ chunk'[f] = c BY <1>1
<1>3. \A g \in Fetches \ {f} : fetch'[g] = fetch[g] /\ chunk'[g] = chunk[g] BY <1>1
<1>4. /\ fetch' \in [Fetches -> FetchRecords] /\ chunk' \in [Fetches -> [ChunkIndex -> ChunkRecords]]
  BY <1>1
<1>5. ParallelTypeOK' BY <1>t, <1>4 DEF ParallelTypeOK, FetchRecords, ChunkRecords, ChunkIndex
<1>6. FetchOK(f)'
  <2>1. Now' = Now BY DEF Now
  <2>2. Current(r, c) => Current(r, c)' BY DEF Current, End, Now
  <2>3. ConnsOK(r)' BY DEF ConnsOK
  <2>4. \A i \in ChunkIndex : ChunkOK(r, i, c[i])' BY <2>1 DEF ChunkOK
  <2>q. QED BY <1>2, <2>1, <2>2, <2>3, <2>4 DEF FetchOK
<1>7. ASSUME NEW g \in Fetches \ {f} PROVE FetchOK(g)'
  <2>1. FetchOK(g) BY DEF ParallelInv
  <2>2. PICK o, e : o = fetch[g] /\ e = chunk[g] OBVIOUS
  <2>3. fetch'[g] = o /\ chunk'[g] = e BY <1>3, <2>2
  <2>4. Now' = Now BY DEF Now
  <2>5. Current(o, e) => Current(o, e)' BY DEF Current, End, Now
  <2>6. ConnsOK(o) => ConnsOK(o)' BY DEF ConnsOK
  <2>7. \A i \in ChunkIndex : ChunkOK(o, i, e[i]) => ChunkOK(o, i, e[i])' BY <2>4 DEF ChunkOK
  <2>q. QED BY <2>1, <2>2, <2>3, <2>4, <2>5, <2>6, <2>7 DEF FetchOK
<1>q. QED BY <1>5, <1>6, <1>7 DEF ParallelInv

LEMMA OpenMKeeps ==
  ASSUME ParallelAssumption, ParallelInv, NEW f \in Fetches, OpenM(f) PROVE ParallelInv'
<1>t. ParallelTypeOK /\ FetchOK(f) BY DEF ParallelInv
<1>1. inodes[Now] \in Seq(Nat) /\ Now \in Nat /\ Now \in 1..Now BY <1>t, FetchTypes
<1>2. PICK n \in Counts :
        fetch' = [fetch EXCEPT ![f] = [NoFetch EXCEPT !.at = "open", !.inode = Now,
                                                      !.size = Len(inodes[Now]), !.asked = n]]
  BY DEF OpenM
<1>3. PICK r : r = [NoFetch EXCEPT !.at = "open", !.inode = Now, !.size = Len(inodes[Now]), !.asked = n] OBVIOUS
<1>4. n \in Int /\ <<>> \in Seq(Nat) BY DEF ParallelAssumption
<1>5. r \in FetchRecords /\ r.at = "open" /\ r.inode = Now /\ r.size = Len(inodes[Now])
  <2>1. r = [at |-> "open", inode |-> Now, size |-> Len(inodes[Now]), asked |-> n, hash |-> <<>>, conns |-> 1]
    BY <1>3 DEF NoFetch
  <2>2. Len(inodes[Now]) \in Nat BY <1>1
  <2>q. QED BY <1>1, <1>4, <2>1, <2>2 DEF FetchRecords
<1>6. chunk[f] \in [ChunkIndex -> ChunkRecords] BY <1>t DEF ParallelTypeOK, ChunkRecords, ChunkIndex
<1>7. chunk' = [chunk EXCEPT ![f] = chunk[f]] BY <1>t DEF OpenM, ParallelTypeOK
<1>8. \A i \in ChunkIndex : ChunkOK(r, i, chunk[f][i])
  <2>1. fetch[f].at = "idle" BY DEF OpenM
  <2>q. QED BY <1>5, <2>1, <1>t DEF FetchOK, ChunkOK
<1>9. Current(r, chunk[f]) /\ ConnsOK(r) BY <1>5 DEF Current, ConnsOK
<1>10. UNCHANGED <<inodes, upload, changed>> /\ broken' \in 0..MaxBroken BY <1>t DEF OpenM, ParallelTypeOK
<1>q. QED BY <1>1, <1>2, <1>3, <1>5, <1>6, <1>7, <1>8, <1>9, <1>10, FetchKeeps

LEMMA AnnounceKeeps ==
  ASSUME ParallelAssumption, ParallelInv, NEW f \in Fetches, Announce(f) PROVE ParallelInv'
<1>t. ParallelTypeOK /\ FetchOK(f) BY DEF ParallelInv
<1>1. PICK o : o = fetch[f] OBVIOUS
<1>2. o \in FetchRecords /\ o.at = "open" /\ o.inode \in 1..Now
  BY <1>t, <1>1 DEF Announce, ParallelTypeOK, FetchRecords, FetchOK
<1>3. inodes[o.inode] \in Seq(Nat)
  <2>1. inodes \in Seq(Seq(Nat)) BY <1>t DEF ParallelTypeOK
  <2>q. QED BY <1>2, <2>1 DEF Now
<1>4. PICK k : k = Conns(o.size, o.asked) OBVIOUS
<1>5. k \in Int /\ ((o.asked > 0 /\ k \in 1..MostConns) \/ (o.asked <= 0 /\ k <= 0))
  <2>1. PICK a \in Int, z \in Nat : a = o.asked /\ z = o.size BY <1>2 DEF FetchRecords
  <2>q. QED BY <1>4, <2>1 DEF ParallelAssumption, Conns
<1>6. PICK r : r = [o EXCEPT !.at = "ready", !.hash = inodes[o.inode], !.conns = k] OBVIOUS
<1>7. /\ r \in FetchRecords /\ r.at = "ready" /\ r.inode = o.inode /\ r.size = o.size /\ r.asked = o.asked
      /\ r.hash = inodes[o.inode] /\ r.conns = k
  BY <1>2, <1>3, <1>5, <1>6 DEF FetchRecords
<1>8. fetch' = [fetch EXCEPT ![f] = r] BY <1>t, <1>1, <1>4, <1>6 DEF Announce, ParallelTypeOK
<1>9. chunk[f] \in [ChunkIndex -> ChunkRecords] BY <1>t DEF ParallelTypeOK, ChunkRecords, ChunkIndex
<1>10. chunk' = [chunk EXCEPT ![f] = chunk[f]] BY <1>t DEF Announce, ParallelTypeOK
<1>11. \A i \in ChunkIndex : chunk[f][i].at = "idle" /\ ChunkOK(r, i, chunk[f][i])
  BY <1>t, <1>1, <1>2, <1>7 DEF FetchOK, ChunkOK
<1>12. ConnsOK(r) BY <1>5, <1>7 DEF ConnsOK
<1>13. f \in changed \/ Current(r, chunk[f])
  <2>1. f \in changed \/ Current(o, chunk[f]) BY <1>t, <1>1, <1>2 DEF FetchOK
  <2>2. r.asked > 0 => r.conns \in 1..MostConns
    <3>1. o.asked \in Int BY <1>2 DEF FetchRecords
    <3>q. QED BY <1>5, <1>7, <3>1
  <2>3. r.asked > 0 => \A i \in 0..(r.conns - 1) : i \in ChunkIndex
    BY <2>2 DEF ParallelAssumption, ChunkIndex
  <2>q. QED BY <1>2, <1>7, <1>11, <2>1, <2>3 DEF Current
<1>14. UNCHANGED <<inodes, upload, changed>> /\ broken' \in 0..MaxBroken BY <1>t DEF Announce, ParallelTypeOK
<1>q. QED BY <1>2, <1>7, <1>8, <1>9, <1>10, <1>11, <1>12, <1>13, <1>14, FetchKeeps

\* A download that goes from one state to another keeps what holds of it.
LEMMA Onwards ==
  ASSUME NEW o \in FetchRecords, NEW r \in FetchRecords, NEW e, NEW c, NEW g \in BOOLEAN,
         r.inode = o.inode, r.size = o.size, r.asked = o.asked, r.hash = o.hash, r.conns = o.conns,
         r.at \in {"ready", "expired"} => o.at \in {"ready", "expired"},
         r.at \in {"idle", "open", "error"} => o.at \in {"idle", "open", "error"},
         \A i \in ChunkIndex : /\ c[i].inode = e[i].inode /\ c[i].offset = e[i].offset /\ c[i].got = e[i].got
                               /\ c[i].at = e[i].at \/ (e[i].at = "open" /\ c[i].at = "error"),
         ConnsOK(o), ParallelAssumption, \A i \in ChunkIndex : ChunkOK(o, i, e[i]), g \/ Current(o, e)
  PROVE  ConnsOK(r) /\ (\A i \in ChunkIndex : ChunkOK(r, i, c[i])) /\ (g \/ Current(r, c))
<1>1. ConnsOK(r) BY DEF ConnsOK
<1>2. ASSUME NEW i \in ChunkIndex PROVE ChunkOK(r, i, c[i]) BY DEF ChunkOK
<1>3. ASSUME Current(o, e) PROVE Current(r, c)
  <2>1. r.inode = Now /\ r.size = Len(inodes[Now]) BY <1>3 DEF Current
  <2>2. ASSUME r.at \in {"ready", "expired"}, r.asked > 0, NEW i \in 0..(r.conns - 1)
        PROVE  /\ r.hash = inodes[Now]
               /\ c[i].at = "open" => c[i].inode = Now
               /\ c[i].at \in {"open", "done"} => c[i].offset = i * (r.size \div r.conns)
               /\ c[i].at = "done" => c[i].got = SubSeq(inodes[Now], c[i].offset + 1, End(r, i))
    <3>1. i \in ChunkIndex
      <4>1. r.asked \in Int BY DEF FetchRecords
      <4>2. r.conns \in 1..MostConns BY <1>1, <2>2, <4>1 DEF ConnsOK
      <4>q. QED BY <4>2 DEF ParallelAssumption, ChunkIndex
    <3>2. End(r, i) = End(o, i) BY DEF End
    <3>3. /\ r.hash = inodes[Now]
          /\ e[i].at = "open" => e[i].inode = Now
          /\ e[i].at \in {"open", "done"} => e[i].offset = i * (r.size \div r.conns)
          /\ e[i].at = "done" => e[i].got = SubSeq(inodes[Now], e[i].offset + 1, End(r, i))
      BY <1>3, <2>2, <3>2 DEF Current
    <3>q. QED BY <3>1, <3>3
  <2>3. r.at \in {"ready", "expired"} /\ r.asked > 0 => r.hash = inodes[Now] BY <1>3 DEF Current
  <2>q. QED BY <2>1, <2>2, <2>3 DEF Current
<1>q. QED BY <1>1, <1>2, <1>3

LEMMA CleanupKeeps ==
  ASSUME ParallelAssumption, ParallelInv, NEW f \in Fetches, Cleanup(f) PROVE ParallelInv'
<1>t. ParallelTypeOK /\ FetchOK(f) BY DEF ParallelInv
<1>1. PICK o \in FetchRecords : o = fetch[f] BY <1>t, FetchTypes
<1>2. o.at = "ready" /\ o.inode \in 1..Now BY <1>t, <1>1 DEF Cleanup, FetchOK
<1>3. PICK r \in FetchRecords : r = [o EXCEPT !.at = "expired"] BY DEF FetchRecords
<1>4. /\ r.at = "expired" /\ r.inode = o.inode /\ r.size = o.size
      /\ r.asked = o.asked /\ r.hash = o.hash /\ r.conns = o.conns
  BY <1>3 DEF FetchRecords
<1>5. fetch' = [fetch EXCEPT ![f] = r] BY <1>t, <1>1, <1>3 DEF Cleanup, ParallelTypeOK
<1>6. chunk[f] \in [ChunkIndex -> ChunkRecords] BY <1>t DEF ParallelTypeOK, ChunkRecords, ChunkIndex
<1>7. chunk' = [chunk EXCEPT ![f] = chunk[f]] BY <1>t DEF Cleanup, ParallelTypeOK
<1>8. PICK g \in BOOLEAN : g <=> f \in changed OBVIOUS
<1>9. ConnsOK(o) /\ (\A i \in ChunkIndex : ChunkOK(o, i, chunk[f][i])) /\ (g \/ Current(o, chunk[f]))
  BY <1>t, <1>1, <1>2, <1>8 DEF FetchOK
<1>10. ConnsOK(r) /\ (\A i \in ChunkIndex : ChunkOK(r, i, chunk[f][i])) /\ (g \/ Current(r, chunk[f]))
  BY <1>2, <1>4, <1>9, Onwards
<1>11. UNCHANGED <<inodes, upload, changed>> /\ broken' \in 0..MaxBroken BY <1>t DEF Cleanup, ParallelTypeOK
<1>q. QED BY <1>2, <1>4, <1>5, <1>6, <1>7, <1>8, <1>10, <1>11, FetchKeeps

\* The end of the daemon ends every request, and forgets every session.
LEMMA PanicKeeps ==
  ASSUME ParallelAssumption, ParallelInv, NEW f \in Fetches, Panic(f) PROVE ParallelInv'
<1>t. ParallelTypeOK BY DEF ParallelInv
<1>1. /\ fetch \in [Fetches -> FetchRecords] /\ chunk \in [Fetches -> [ChunkIndex -> ChunkRecords]]
      /\ upload \in [Uploaders -> UploadRecords]
  BY <1>t DEF ParallelTypeOK, FetchRecords, ChunkRecords, UploadRecords, ChunkIndex
<1>2. /\ fetch' = [g \in Fetches |-> CASE fetch[g].at = "open"  -> [fetch[g] EXCEPT !.at = "error"]
                                       [] fetch[g].at = "ready" -> [fetch[g] EXCEPT !.at = "expired"]
                                       [] OTHER -> fetch[g]]
      /\ chunk' = [g \in Fetches |-> [i \in ChunkIndex |->
                     IF chunk[g][i].at = "open" THEN [chunk[g][i] EXCEPT !.at = "error"] ELSE chunk[g][i]]]
      /\ upload' = [u \in Uploaders |-> IF upload[u].at \in {"receive", "write"}
                                        THEN [upload[u] EXCEPT !.at = "error"] ELSE upload[u]]
      /\ UNCHANGED <<inodes, changed, broken>>
  BY DEF Panic, ChunkIndex
<1>3. ASSUME NEW g \in Fetches
      PROVE  /\ fetch'[g] \in FetchRecords
             /\ \/ fetch[g].at = "open" /\ fetch'[g] = [fetch[g] EXCEPT !.at = "error"]
                \/ fetch[g].at = "ready" /\ fetch'[g] = [fetch[g] EXCEPT !.at = "expired"]
                \/ fetch'[g] = fetch[g]
  <2>1. PICK o \in FetchRecords : o = fetch[g] BY <1>1
  <2>2. [o EXCEPT !.at = "error"] \in FetchRecords /\ [o EXCEPT !.at = "expired"] \in FetchRecords
    BY DEF FetchRecords
  <2>3. \/ fetch[g].at = "open" /\ fetch'[g] = [fetch[g] EXCEPT !.at = "error"]
        \/ fetch[g].at = "ready" /\ fetch'[g] = [fetch[g] EXCEPT !.at = "expired"]
        \/ fetch'[g] = fetch[g]
    BY <1>2
  <2>q. QED BY <2>1, <2>2, <2>3
<1>4. ASSUME NEW g \in Fetches, NEW i \in ChunkIndex
      PROVE  /\ chunk'[g][i] \in ChunkRecords
             /\ \/ chunk[g][i].at = "open" /\ chunk'[g][i] = [chunk[g][i] EXCEPT !.at = "error"]
                \/ chunk'[g][i] = chunk[g][i]
  <2>1. PICK c \in ChunkRecords : c = chunk[g][i] BY <1>1
  <2>2. [c EXCEPT !.at = "error"] \in ChunkRecords BY DEF ChunkRecords
  <2>3. \/ chunk[g][i].at = "open" /\ chunk'[g][i] = [chunk[g][i] EXCEPT !.at = "error"]
        \/ chunk'[g][i] = chunk[g][i]
    BY <1>2
  <2>q. QED BY <2>1, <2>2, <2>3
<1>5. ParallelTypeOK'
  <2>1. fetch' \in [Fetches -> FetchRecords] BY <1>2, <1>3
  <2>2. chunk' \in [Fetches -> [ChunkIndex -> ChunkRecords]]
    <3>1. ASSUME NEW g \in Fetches PROVE chunk'[g] \in [ChunkIndex -> ChunkRecords]
      <4>1. PICK h : h = chunk'[g] OBVIOUS
      <4>2. h = [i \in ChunkIndex |-> h[i]] BY <1>2, <4>1
      <4>3. \A i \in ChunkIndex : h[i] \in ChunkRecords BY <1>4, <4>1
      <4>q. QED BY <4>1, <4>2, <4>3
    <3>2. chunk' = [g \in Fetches |-> chunk'[g]] BY <1>2
    <3>q. QED BY <3>1, <3>2
  <2>3. upload' \in [Uploaders -> UploadRecords]
    <3>1. ASSUME NEW r \in UploadRecords PROVE [r EXCEPT !.at = "error"] \in UploadRecords BY DEF UploadRecords
    <3>q. QED BY <1>1, <1>2, <3>1
  <2>q. QED
    BY <1>t, <1>2, <2>1, <2>2, <2>3
    DEF ParallelTypeOK, FetchRecords, ChunkRecords, UploadRecords, ChunkIndex
<1>6. ASSUME NEW g \in Fetches PROVE FetchOK(g)'
  <2>1. FetchOK(g) BY DEF ParallelInv
  <2>2. PICK o \in FetchRecords, r \in FetchRecords : o = fetch[g] /\ r = fetch'[g] BY <1>1, <1>3
  <2>3. PICK e, c : e = chunk[g] /\ c = chunk'[g] OBVIOUS
  <2>4. /\ r.inode = o.inode /\ r.size = o.size /\ r.asked = o.asked /\ r.hash = o.hash /\ r.conns = o.conns
        /\ r.at \in {"ready", "expired"} => o.at \in {"ready", "expired"}
        /\ r.at \in {"idle", "open", "error"} => o.at \in {"idle", "open", "error"}
        /\ r.at = "idle" <=> o.at = "idle"
    BY <1>3, <2>2 DEF FetchRecords
  <2>5. ASSUME NEW i \in ChunkIndex
        PROVE  /\ c[i].inode = e[i].inode /\ c[i].offset = e[i].offset /\ c[i].got = e[i].got
               /\ c[i].at = e[i].at \/ (e[i].at = "open" /\ c[i].at = "error")
    <3>1. PICK y \in ChunkRecords, z \in ChunkRecords : y = e[i] /\ z = c[i] BY <1>1, <1>4, <2>3
    <3>2. z = y \/ (y.at = "open" /\ z = [y EXCEPT !.at = "error"]) BY <1>4, <2>3, <3>1
    <3>q. QED BY <3>1, <3>2 DEF ChunkRecords
  <2>6. PICK k \in BOOLEAN : k <=> (g \in changed \/ o.at = "idle") OBVIOUS
  <2>7. ConnsOK(o) /\ (\A i \in ChunkIndex : ChunkOK(o, i, e[i])) /\ (k \/ Current(o, e))
    BY <2>1, <2>2, <2>3, <2>6 DEF FetchOK
  <2>8. ConnsOK(r) /\ (\A i \in ChunkIndex : ChunkOK(r, i, c[i])) /\ (k \/ Current(r, c))
    BY <2>4, <2>5, <2>7, Onwards
  <2>9. Now' = Now BY <1>2 DEF Now
  <2>10. Current(r, c) => Current(r, c)' BY <1>2 DEF Current, End, Now
  <2>11. ConnsOK(r)' BY <2>8 DEF ConnsOK
  <2>12. \A i \in ChunkIndex : ChunkOK(r, i, c[i])' BY <2>8, <2>9 DEF ChunkOK
  <2>13. o.inode \in 1..Now BY <2>1, <2>2 DEF FetchOK
  <2>q. QED BY <1>2, <2>2, <2>3, <2>4, <2>6, <2>8, <2>9, <2>10, <2>11, <2>12, <2>13 DEF FetchOK
<1>q. QED BY <1>5, <1>6 DEF ParallelInv

\* A step of one chunk of a download.
LEMMA ChunkKeeps ==
  ASSUME ParallelAssumption, ParallelInv, NEW f \in Fetches, UNCHANGED <<inodes, fetch, upload, changed>>,
         broken' \in 0..MaxBroken, fetch[f].at \in {"ready", "expired"},
         NEW i \in ChunkIndex, NEW c \in ChunkRecords, ChunkOK(fetch[f], i, c),
         chunk' = [chunk EXCEPT ![f][i] = c],
         Current(fetch[f], chunk[f]) /\ fetch[f].asked > 0 /\ i < fetch[f].conns =>
           /\ c.at = "open" => c.inode = Now
           /\ c.at \in {"open", "done"} => c.offset = i * (fetch[f].size \div fetch[f].conns)
           /\ c.at = "done" => c.got = SubSeq(inodes[Now], c.offset + 1, End(fetch[f], i))
  PROVE  ParallelInv'
<1>t. ParallelTypeOK /\ FetchOK(f) BY DEF ParallelInv
<1>1. chunk \in [Fetches -> [ChunkIndex -> ChunkRecords]] BY <1>t DEF ParallelTypeOK, ChunkRecords, ChunkIndex
<1>2. PICK e : e = [chunk[f] EXCEPT ![i] = c] OBVIOUS
<1>3. e \in [ChunkIndex -> ChunkRecords] /\ e[i] = c /\ \A j \in ChunkIndex \ {i} : e[j] = chunk[f][j]
  BY <1>1, <1>2
<1>4. chunk' = [chunk EXCEPT ![f] = e] BY <1>1, <1>2
<1>5. \A j \in ChunkIndex : ChunkOK(fetch[f], j, e[j]) BY <1>3, <1>t DEF FetchOK
<1>6. /\ fetch[f] \in FetchRecords /\ fetch[f].inode \in 1..Now /\ fetch' = [fetch EXCEPT ![f] = fetch[f]]
      /\ ConnsOK(fetch[f])
  BY <1>t DEF ParallelTypeOK, FetchRecords, FetchOK
<1>7. f \in changed \/ Current(fetch[f], e)
  <2>1. f \in changed \/ Current(fetch[f], chunk[f]) BY <1>t DEF FetchOK
  <2>2. fetch[f].asked > 0 =>
          \A j \in 0..(fetch[f].conns - 1) : j \in ChunkIndex /\ (j = i => i < fetch[f].conns)
    <3>1. fetch[f].asked \in Int BY <1>6 DEF FetchRecords
    <3>2. fetch[f].asked > 0 => fetch[f].conns \in 1..MostConns BY <1>6, <3>1 DEF ConnsOK
    <3>3. ASSUME NEW n \in 1..MostConns, NEW j \in 0..(n - 1) PROVE j \in 0..(MostConns - 1) /\ j < n
      BY DEF ParallelAssumption
    <3>q. QED BY <3>2, <3>3 DEF ChunkIndex
  <2>q. QED BY <1>3, <2>1, <2>2 DEF Current
<1>q. QED BY <1>3, <1>4, <1>5, <1>6, <1>7, FetchKeeps

LEMMA OpenCKeeps ==
  ASSUME ParallelAssumption, ParallelInv, NEW f \in Fetches, NEW i \in ChunkIndex, OpenC(f, i) PROVE ParallelInv'
<1>t. ParallelTypeOK /\ FetchOK(f) BY DEF ParallelInv
<1>1. /\ i \in Nat /\ Now \in 1..Now /\ Now \in Nat /\ <<>> \in Seq(Nat)
      /\ fetch[f].conns \in Int /\ fetch[f].asked \in Int
  BY <1>t, FetchTypes
<1>2. fetch[f].at \in {"ready", "expired"} /\ ConnsOK(fetch[f]) BY <1>t DEF OpenC, FetchOK
<1>3. /\ UNCHANGED <<inodes, fetch, upload, changed>> /\ broken' \in 0..MaxBroken
  BY <1>t DEF OpenC, ParallelTypeOK
<1>4. CASE chunk' = [chunk EXCEPT ![f][i] = [NoChunk EXCEPT !.at = "error"]]
  <2>1. PICK c : c = [NoChunk EXCEPT !.at = "error"] OBVIOUS
  <2>2. c \in ChunkRecords /\ c.at = "error" /\ c.inode = 1 /\ c.got = <<>>
    BY <1>1, <2>1 DEF NoChunk, ChunkRecords
  <2>3. 1 \in 1..Now BY <1>1
  <2>4. ChunkOK(fetch[f], i, c) BY <1>2, <2>2, <2>3 DEF ChunkOK
  <2>q. QED BY <1>2, <1>3, <1>4, <2>1, <2>2, <2>4, ChunkKeeps
<1>5. CASE /\ fetch[f].conns # 0
           /\ chunk' = [chunk EXCEPT ![f][i] = [NoChunk EXCEPT !.at = "open", !.inode = Now,
                                                               !.offset = i * ChunkSize(f)]]
  <2>1. ChunkSize(f) \in Int BY <1>t, <1>5, ChunkSizes
  <2>p. fetch[f].asked > 0 => fetch[f].conns \in 1..MostConns BY <1>1, <1>2 DEF ConnsOK
  <2>z. fetch[f].asked <= 0 => i = 0 /\ fetch[f].conns < 0
    <3>1. i = 0 \/ i < fetch[f].conns BY DEF OpenC
    <3>2. fetch[f].asked <= 0 => fetch[f].conns <= 0 BY <1>1, <1>2 DEF ConnsOK
    <3>q. QED BY <1>1, <1>5, <3>1, <3>2
  <2>2. PICK o \in Nat : o = i * ChunkSize(f)
    <3>1. CASE fetch[f].asked > 0
      <4>1. fetch[f].conns \in Nat \ {0} BY <2>p, <3>1 DEF ParallelAssumption
      <4>2. fetch[f].size \div fetch[f].conns \in Nat BY <4>1, <1>t, FetchTypes, Division
      <4>3. ChunkSize(f) \in Nat BY <1>t, <1>5, <4>1, <4>2, ChunkSizes
      <4>q. QED BY <1>1, <4>3
    <3>2. CASE fetch[f].asked <= 0
      <4>1. i * ChunkSize(f) = 0 BY <2>1, <2>z, <3>2
      <4>q. QED BY <4>1
    <3>q. QED BY <1>1, <3>1, <3>2
  <2>3. PICK c : c = [NoChunk EXCEPT !.at = "open", !.inode = Now, !.offset = o] OBVIOUS
  <2>4. c \in ChunkRecords /\ c.at = "open" /\ c.inode = Now /\ c.got = <<>> /\ c.offset = o
    BY <1>1, <2>3 DEF NoChunk, ChunkRecords
  <2>5. fetch[f].asked <= 0 => i = 0 /\ o = 0 /\ fetch[f].conns < 0
    <3>1. i = 0 => o = 0 BY <2>1, <2>2
    <3>q. QED BY <2>z, <3>1
  <2>6. ChunkOK(fetch[f], i, c) BY <1>1, <1>2, <2>4, <2>5 DEF ChunkOK
  <2>7. fetch[f].asked > 0 /\ i < fetch[f].conns => o = i * (fetch[f].size \div fetch[f].conns)
    <3>1. i < fetch[f].conns => fetch[f].conns > 0 BY <1>1
    <3>q. QED BY <1>t, <1>5, <2>2, <3>1, ChunkSizes
  <2>q. QED BY <1>2, <1>3, <1>5, <2>2, <2>3, <2>4, <2>6, <2>7, ChunkKeeps
<1>q. QED BY <1>4, <1>5 DEF OpenC

\* What a chunk streams: nothing, if no number above zero was asked for.
LEMMA Streamed ==
  ASSUME NEW s \in Seq(Nat), NEW m \in Int, NEW e \in Int, m = 0, e <= 0
  PROVE  SubSeq(s, m + 1, e) = <<>>
OBVIOUS

LEMMA CopyNKeeps ==
  ASSUME ParallelAssumption, ParallelInv, NEW f \in Fetches, NEW i \in ChunkIndex, CopyN(f, i)
  PROVE  ParallelInv'
<1>t. ParallelTypeOK /\ FetchOK(f) BY DEF ParallelInv
<1>1. PICK c \in ChunkRecords : c = chunk[f][i] BY <1>t, FetchTypes
<1>2. /\ c.at = "open" /\ c.inode \in 1..Now /\ ChunkOK(fetch[f], i, c) /\ ConnsOK(fetch[f])
  BY <1>t, <1>1 DEF CopyN, FetchOK, ChunkOK
<1>3. PICK s \in Seq(Nat) : s = inodes[c.inode] BY <1>t, <1>2, FetchTypes
<1>4. fetch[f].at \in {"ready", "expired"}
  <2>1. fetch[f].at \in {"idle", "open", "ready", "expired", "error"} BY <1>t DEF ParallelTypeOK
  <2>q. QED BY <1>2, <2>1 DEF ChunkOK
<1>5. i \in Nat /\ fetch[f].conns \in Int /\ fetch[f].asked \in Int /\ c.offset \in Nat
  BY <1>t, FetchTypes DEF ChunkRecords
<1>6. fetch[f].conns # 0
  <2>1. fetch[f].asked > 0 => fetch[f].conns \in 1..MostConns BY <1>2, <1>4, <1>5 DEF ConnsOK
  <2>2. fetch[f].asked <= 0 => fetch[f].conns < 0 BY <1>2 DEF ChunkOK
  <2>q. QED BY <1>5, <2>1, <2>2
<1>7. PICK w \in Int : w = ChunkSize(f) BY <1>t, <1>6, ChunkSizes
<1>8. PICK n \in Int : n = ChunkLength(f, i)
  <2>1. fetch[f].size \in Nat BY <1>t, FetchTypes
  <2>2. ChunkLength(f, i) = fetch[f].size - i * w \/ ChunkLength(f, i) = w BY <1>7 DEF ChunkLength
  <2>3. i * w \in Int BY <1>5
  <2>q. QED BY <2>1, <2>2, <2>3
<1>9. PICK end \in Int : end = IF c.offset + n < Len(s) THEN c.offset + n ELSE Len(s) BY <1>5
<1>10. end <= Len(s) BY <1>5, <1>9
<1>11. SubSeq(s, c.offset + 1, end) \in Seq(Nat) /\ (fetch[f].asked <= 0 => SubSeq(s, c.offset + 1, end) = <<>>)
  <2>1. CASE fetch[f].asked > 0
    <3>1. SubSeq(s, c.offset + 1, end) \in Seq(Nat) BY <1>5, <1>10, Parts
    <3>q. QED BY <1>5, <2>1, <3>1
  <2>2. CASE fetch[f].asked <= 0
    <3>1. i = 0 /\ c.offset = 0 /\ fetch[f].conns < 0 BY <1>2, <2>2 DEF ChunkOK
    <3>2. w <= 0 BY <1>t, <1>6, <1>7, <3>1, ChunkSizes
    <3>3. n = w BY <1>5, <1>7, <1>8, <3>1 DEF ChunkLength
    <3>4. end <= 0 BY <1>5, <1>9, <3>1, <3>2, <3>3
    <3>5. PICK g : g = SubSeq(s, c.offset + 1, end) OBVIOUS
    <3>6. g = <<>> BY <1>5, <3>1, <3>4, <3>5, Streamed
    <3>7. <<>> \in Seq(Nat) OBVIOUS
    <3>q. QED BY <3>5, <3>6, <3>7, Zenon
  <2>q. QED BY <1>5, <2>1, <2>2
<1>12. UNCHANGED <<inodes, fetch, upload, changed>> /\ broken' \in 0..MaxBroken
  <2>1. UNCHANGED <<inodes, fetch, upload, changed>> BY DEF CopyN
  <2>2. \/ broken' = broken
        \/ broken < MaxBroken /\ broken' = broken + 1
    BY DEF CopyN
  <2>3. broken \in 0..MaxBroken BY <1>t DEF ParallelTypeOK
  <2>4. broken' \in 0..MaxBroken BY <2>2, <2>3 DEF ParallelAssumption
  <2>q. QED BY <2>1, <2>4
<1>13. CASE chunk' = [chunk EXCEPT ![f][i].at = "done", ![f][i].got = SubSeq(s, c.offset + 1, end)]
  <2>1. PICK e : e = [c EXCEPT !.at = "done", !.got = SubSeq(s, c.offset + 1, end)] OBVIOUS
  <2>2. /\ e \in ChunkRecords /\ e.inode = c.inode /\ e.at = "done" /\ e.offset = c.offset
        /\ e.got = SubSeq(s, c.offset + 1, end)
    BY <1>11, <2>1 DEF ChunkRecords
  <2>3. chunk' = [chunk EXCEPT ![f][i] = e]
    BY <1>1, <1>t, <1>13, <2>1 DEF ParallelTypeOK, ChunkIndex
  <2>4. ChunkOK(fetch[f], i, e) BY <1>2, <1>4, <1>11, <2>2 DEF ChunkOK
  <2>5. ASSUME Current(fetch[f], chunk[f]), fetch[f].asked > 0, i < fetch[f].conns
        PROVE  /\ c.inode = Now /\ c.offset = i * (fetch[f].size \div fetch[f].conns)
               /\ end = End(fetch[f], i)
    <3>1. i \in 0..(fetch[f].conns - 1) BY <1>5, <2>5
    <3>2. c.inode = Now /\ c.offset = i * (fetch[f].size \div fetch[f].conns)
      BY <1>1, <1>2, <1>4, <2>5, <3>1 DEF Current
    <3>3. w = fetch[f].size \div fetch[f].conns
      <4>1. fetch[f].conns > 0 BY <1>5, <2>5
      <4>q. QED BY <1>t, <1>6, <1>7, <4>1, ChunkSizes
    <3>q. QED BY <1>3, <1>7, <1>8, <1>9, <3>2, <3>3 DEF End, ChunkLength
  <2>6. Current(fetch[f], chunk[f]) /\ fetch[f].asked > 0 /\ i < fetch[f].conns =>
          /\ e.inode = Now /\ e.offset = i * (fetch[f].size \div fetch[f].conns)
          /\ e.got = SubSeq(inodes[Now], e.offset + 1, End(fetch[f], i))
    BY <1>3, <2>2, <2>5
  <2>q. QED BY <1>4, <1>12, <2>2, <2>3, <2>4, <2>6, ChunkKeeps
<1>14. CASE chunk' = [chunk EXCEPT ![f][i].at = "error"]
  <2>1. PICK e : e = [c EXCEPT !.at = "error"] OBVIOUS
  <2>2. e \in ChunkRecords /\ e.inode = c.inode /\ e.at = "error" /\ e.got = c.got BY <2>1 DEF ChunkRecords
  <2>3. chunk' = [chunk EXCEPT ![f][i] = e] BY <1>1, <1>t, <1>14, <2>1 DEF ParallelTypeOK, ChunkIndex
  <2>4. ChunkOK(fetch[f], i, e) BY <1>2, <1>4, <2>2 DEF ChunkOK
  <2>q. QED BY <1>4, <1>12, <2>2, <2>3, <2>4, ChunkKeeps
<1>q. QED BY <1>1, <1>3, <1>8, <1>9, <1>13, <1>14 DEF CopyN

\* A step of an upload: downloads it changes the file under are counted so.
LEMMA UploadKeeps ==
  ASSUME ParallelAssumption, ParallelInv, UNCHANGED <<fetch, chunk>>,
         upload' \in [Uploaders -> UploadRecords], broken' \in 0..MaxBroken,
         inodes' \in Seq(Seq(Nat)), Len(inodes') \in Now..(MaxReplaced + 1),
         (inodes' = inodes /\ changed' = changed) \/ Changes
  PROVE  ParallelInv'
<1>t. ParallelTypeOK BY DEF ParallelInv
<1>1. /\ Now \in Nat \ {0} /\ Now' \in Nat /\ Now <= Now' /\ Now' \in 1..(MaxReplaced + 1)
      /\ Len(inodes') = Now'
  <2>1. Now \in Nat \ {0} BY <1>t DEF ParallelTypeOK, Now
  <2>q. QED BY <2>1 DEF ParallelAssumption, Now
<1>2. changed' \subseteq Fetches BY <1>t DEF ParallelTypeOK, Changes
<1>3. ParallelTypeOK' BY <1>1, <1>2, <1>t DEF ParallelTypeOK, UploadRecords
<1>4. ASSUME NEW f \in Fetches PROVE FetchOK(f)'
  <2>1. FetchOK(f) BY DEF ParallelInv
  <2>2. /\ fetch'[f].inode \in 1..Now' /\ ConnsOK(fetch[f])'
        /\ \A i \in ChunkIndex : ChunkOK(fetch[f], i, chunk[f][i])'
    <3>1. \A k \in 1..Now : k \in 1..Now' BY <1>1
    <3>2. fetch'[f] = fetch[f] /\ chunk'[f] = chunk[f] OBVIOUS
    <3>3. ConnsOK(fetch[f]) => ConnsOK(fetch[f])' BY DEF ConnsOK
    <3>4. \A i \in ChunkIndex : ChunkOK(fetch[f], i, chunk[f][i]) => ChunkOK(fetch[f], i, chunk[f][i])'
      BY <3>1 DEF ChunkOK
    <3>5. /\ fetch[f].inode \in 1..Now /\ ConnsOK(fetch[f])
          /\ \A i \in ChunkIndex : ChunkOK(fetch[f], i, chunk[f][i])
      BY <2>1 DEF FetchOK
    <3>q. QED BY <3>1, <3>2, <3>3, <3>4, <3>5
  <2>3. CASE inodes' = inodes /\ changed' = changed
    <3>1. Current(fetch[f], chunk[f]) => Current(fetch[f], chunk[f])' BY <2>3 DEF Current, End, Now
    <3>q. QED BY <2>1, <2>2, <2>3, <3>1 DEF FetchOK
  <2>4. CASE Changes
    <3>1. fetch[f].at = "idle" \/ f \in changed' BY <2>4 DEF Changes
    <3>q. QED BY <2>1, <2>2, <3>1 DEF FetchOK
  <2>q. QED BY <2>3, <2>4
<1>q. QED BY <1>3, <1>4 DEF ParallelInv

\* An element of a sequence is replaced, if there is one.
LEMMA Replaced ==
  ASSUME NEW S, NEW s \in Seq(S), NEW k \in Nat, NEW e, e \in S \/ k \notin 1..Len(s)
  PROVE  [s EXCEPT ![k] = e] \in Seq(S) /\ Len([s EXCEPT ![k] = e]) = Len(s)
<1>1. PICK n \in Nat : n = Len(s) OBVIOUS
<1>2. PICK t : t = [i \in 1..n |-> IF i = k THEN e ELSE s[i]] OBVIOUS
<1>3. t \in Seq(S) /\ Len(t) = n
  <2>1. \A i \in 1..n : (IF i = k THEN e ELSE s[i]) \in S BY <1>1
  <2>q. QED BY <1>2, <2>1
<1>4. [s EXCEPT ![k] = e] = t
  <2>1. DOMAIN s = 1..n BY <1>1
  <2>2. [s EXCEPT ![k] = e] = [i \in DOMAIN s |-> IF i = k THEN e ELSE s[i]] OBVIOUS
  <2>q. QED BY <1>2, <2>1, <2>2
<1>q. QED BY <1>1, <1>3, <1>4

LEMMA UploadsKeep ==
  ASSUME ParallelAssumption, ParallelInv, NEW u \in Uploaders, Begin(u) \/ Received(u) \/ Written(u)
  PROVE  ParallelInv'
<1>t. ParallelTypeOK BY DEF ParallelInv
<1>1. PICK r : r = upload[u] OBVIOUS
<1>2. /\ upload \in [Uploaders -> UploadRecords] /\ r \in UploadRecords
      /\ r.inode \in Nat /\ r.content \in Seq(Nat) /\ r.verb \in {"none", "MPUT", "PIPE_UP"}
  BY <1>t, <1>1 DEF ParallelTypeOK, UploadRecords
<1>3. /\ inodes \in Seq(Seq(Nat)) /\ Len(inodes) \in 1..(MaxReplaced + 1) /\ Len(inodes) = Now
      /\ Now \in Nat
  BY <1>t DEF ParallelTypeOK, Now
<1>4. Now \in Now..(MaxReplaced + 1) BY <1>3 DEF ParallelAssumption
<1>5. broken' \in 0..MaxBroken
  <2>1. broken \in 0..MaxBroken BY <1>t DEF ParallelTypeOK
  <2>2. broken' = broken \/ (broken < MaxBroken /\ broken' = broken + 1) BY DEF Begin, Received, Written
  <2>q. QED BY <2>1, <2>2 DEF ParallelAssumption
<1>6. UNCHANGED <<fetch, chunk>> BY DEF Begin, Received, Written
<1>7. CASE Begin(u)
  <2>1. PICK c \in Contents, v \in {"MPUT", "PIPE_UP"} :
          upload' = [upload EXCEPT ![u] = [NoUpload EXCEPT !.at = "receive", !.verb = v, !.content = c]]
    BY <1>7 DEF Begin
  <2>2. c \in Seq(Nat) BY DEF ParallelAssumption
  <2>3. [NoUpload EXCEPT !.at = "receive", !.verb = v, !.content = c] \in UploadRecords
    BY <2>2 DEF NoUpload, UploadRecords
  <2>4. upload' \in [Uploaders -> UploadRecords] BY <1>2, <2>1, <2>3
  <2>5. inodes' = inodes /\ changed' = changed BY <1>7 DEF Begin
  <2>q. QED BY <1>3, <1>4, <1>5, <1>6, <2>4, <2>5, UploadKeeps
<1>8. CASE Received(u)
  <2>1. CASE upload' = [upload EXCEPT ![u].at = "write", ![u].inode = Now]
             /\ inodes' = [inodes EXCEPT ![Now] = <<>>] /\ Changes
    <3>1. [r EXCEPT !.at = "write", !.inode = Now] \in UploadRecords BY <1>2, <1>3 DEF UploadRecords
    <3>2. upload' = [upload EXCEPT ![u] = [r EXCEPT !.at = "write", !.inode = Now]] BY <1>1, <1>2, <2>1
    <3>3. upload' \in [Uploaders -> UploadRecords] BY <1>2, <3>1, <3>2
    <3>4. <<>> \in Seq(Nat) OBVIOUS
    <3>5. inodes' \in Seq(Seq(Nat)) /\ Len(inodes') = Now BY <1>3, <2>1, <3>4, Replaced
    <3>q. QED BY <1>4, <1>5, <1>6, <2>1, <3>3, <3>5, UploadKeeps
  <2>2. CASE upload' = [upload EXCEPT ![u].at = "error"] /\ UNCHANGED <<inodes, changed>>
    <3>1. [r EXCEPT !.at = "error"] \in UploadRecords BY <1>2 DEF UploadRecords
    <3>2. upload' \in [Uploaders -> UploadRecords] BY <1>1, <1>2, <2>2, <3>1
    <3>q. QED BY <1>3, <1>4, <1>5, <1>6, <2>2, <3>2, UploadKeeps
  <2>q. QED BY <1>8, <2>1, <2>2 DEF Received
<1>9. CASE Written(u)
  <2>1. Changes BY <1>9 DEF Written
  <2>2. CASE /\ inodes' = [inodes EXCEPT ![r.inode] =
                   IF Len(@) > Len(r.content) THEN r.content \o SubSeq(@, Len(r.content) + 1, Len(@)) ELSE r.content]
             /\ upload' = [upload EXCEPT ![u].at = "ok"]
    <3>1. [r EXCEPT !.at = "ok"] \in UploadRecords BY <1>2 DEF UploadRecords
    <3>2. upload' \in [Uploaders -> UploadRecords] BY <1>1, <1>2, <2>2, <3>1
    <3>3. CASE r.inode \in 1..Now
      <4>1. PICK s : s = inodes[r.inode] OBVIOUS
      <4>2. s \in Seq(Nat) BY <1>3, <3>3, <4>1
      <4>3. PICK e : e = IF Len(s) > Len(r.content) THEN r.content \o SubSeq(s, Len(r.content) + 1, Len(s))
                         ELSE r.content
        OBVIOUS
      <4>4. Len(s) > Len(r.content) => SubSeq(s, Len(r.content) + 1, Len(s)) \in Seq(Nat) BY <1>2, <4>2, Parts
      <4>5. e \in Seq(Nat) BY <1>2, <4>2, <4>3, <4>4
      <4>6. inodes' = [inodes EXCEPT ![r.inode] = e] BY <2>2, <4>1, <4>3
      <4>7. inodes' \in Seq(Seq(Nat)) /\ Len(inodes') = Now BY <1>2, <1>3, <4>5, <4>6, Replaced
      <4>q. QED BY <1>4, <1>5, <1>6, <2>1, <3>2, <4>7, UploadKeeps
    <3>4. CASE r.inode \notin 1..Now
      <4>1. PICK e : inodes' = [inodes EXCEPT ![r.inode] = e] BY <2>2
      <4>2. inodes' \in Seq(Seq(Nat)) /\ Len(inodes') = Now BY <1>2, <1>3, <3>4, <4>1, Replaced
      <4>q. QED BY <1>4, <1>5, <1>6, <2>1, <3>2, <4>2, UploadKeeps
    <3>q. QED BY <3>3, <3>4
  <2>3. CASE /\ upload' = [upload EXCEPT ![u].at = IF r.verb = "MPUT" THEN "ok" ELSE "error"]
             /\ UNCHANGED inodes
    <3>1. PICK a \in {"ok", "error"} : a = IF r.verb = "MPUT" THEN "ok" ELSE "error" OBVIOUS
    <3>2. [r EXCEPT !.at = a] \in UploadRecords BY <1>2, <3>1 DEF UploadRecords
    <3>3. upload' \in [Uploaders -> UploadRecords] BY <1>1, <1>2, <2>3, <3>1, <3>2
    <3>q. QED BY <1>3, <1>4, <1>5, <1>6, <2>1, <2>3, <3>3, UploadKeeps
  <2>q. QED BY <1>1, <1>9, <2>2, <2>3 DEF Written
<1>q. QED BY <1>7, <1>8, <1>9

LEMMA ReplaceKeeps ==
  ASSUME ParallelAssumption, ParallelInv, Replace PROVE ParallelInv'
<1>t. ParallelTypeOK BY DEF ParallelInv
<1>1. PICK c \in Contents : inodes' = Append(inodes, c) BY DEF Replace
<1>2. c \in Seq(Nat) BY DEF ParallelAssumption
<1>3. inodes \in Seq(Seq(Nat)) /\ Now \in Nat /\ Now <= MaxReplaced /\ Len(inodes) = Now
  BY <1>t DEF Replace, ParallelTypeOK, Now
<1>4. inodes' \in Seq(Seq(Nat)) /\ Len(inodes') = Now + 1 BY <1>1, <1>2, <1>3
<1>5. Len(inodes') \in Now..(MaxReplaced + 1) BY <1>3, <1>4 DEF ParallelAssumption
<1>6. upload' \in [Uploaders -> UploadRecords] /\ broken' \in 0..MaxBroken
  BY <1>t DEF Replace, ParallelTypeOK, UploadRecords
<1>q. QED BY <1>4, <1>5, <1>6, UploadKeeps DEF Replace

LEMMA ParallelInitially ==
  ASSUME ParallelAssumption, ParallelInit PROVE ParallelInv
<1>1. PICK c \in Contents : inodes = <<c>> BY DEF ParallelInit
<1>2. c \in Seq(Nat) BY DEF ParallelAssumption
<1>3. inodes \in Seq(Seq(Nat)) /\ Len(inodes) = 1 BY <1>1, <1>2
<1>4. 1 \in 1..(MaxReplaced + 1) /\ 0 \in 0..MaxBroken
  BY DEF ParallelAssumption
<1>5. <<>> \in Seq(Nat) OBVIOUS
<1>6. NoFetch \in FetchRecords BY <1>4, <1>5 DEF NoFetch, FetchRecords
<1>7. NoChunk \in ChunkRecords BY <1>5 DEF NoChunk, ChunkRecords
<1>8. NoUpload \in UploadRecords BY <1>5 DEF NoUpload, UploadRecords
<1>9. ParallelTypeOK
  BY <1>3, <1>4, <1>6, <1>7, <1>8
  DEF ParallelInit, ParallelTypeOK, FetchRecords, ChunkRecords, UploadRecords
<1>10. ASSUME NEW f \in Fetches PROVE FetchOK(f)
  <2>1. fetch[f] = NoFetch /\ \A i \in ChunkIndex : chunk[f][i] = NoChunk BY DEF ParallelInit, ChunkIndex
  <2>2. Now = 1 BY <1>3 DEF Now
  <2>q. QED BY <2>1, <2>2 DEF FetchOK, ConnsOK, ChunkOK, NoFetch, NoChunk
<1>q. QED BY <1>9, <1>10 DEF ParallelInv

LEMMA ParallelStep ==
  ASSUME ParallelAssumption, ParallelInv, [ParallelNext]_parallelVars PROVE ParallelInv'
<1>1. CASE UNCHANGED parallelVars
  <2>1. ParallelTypeOK' BY <1>1 DEF ParallelInv, ParallelTypeOK, parallelVars
  <2>2. ASSUME NEW f \in Fetches PROVE FetchOK(f)'
    <3>1. FetchOK(f) BY DEF ParallelInv
    <3>2. Current(fetch[f], chunk[f]) => Current(fetch[f], chunk[f])'
      BY <1>1 DEF Current, End, Now, parallelVars
    <3>q. QED BY <1>1, <3>1, <3>2 DEF FetchOK, ConnsOK, ChunkOK, Now, parallelVars
  <2>q. QED BY <2>1, <2>2 DEF ParallelInv
<1>2. CASE ParallelNext
  <2>1. \A i : i \in 0..(MostConns - 1) <=> i \in ChunkIndex BY DEF ChunkIndex
  <2>q. QED
    BY <1>2, <2>1, OpenMKeeps, AnnounceKeeps, PanicKeeps, CleanupKeeps, OpenCKeeps, CopyNKeeps, UploadsKeep, ReplaceKeeps
    DEF ParallelNext
<1>q. QED BY <1>1, <1>2

LEMMA Monotone ==
  ASSUME NEW i \in Nat, NEW n \in Nat, NEW w \in Nat, i <= n
  PROVE  i * w <= n * w /\ i * w \in Nat /\ n * w \in Nat
OBVIOUS

\* Where part i of n of a file of the given length begins and ends.
PartEnd(length, n, i) == IF i = n - 1 THEN length ELSE (i + 1) * (length \div n)

\* The parts are within the file, and every block of it is in one.
LEMMA PartsCover ==
  ASSUME NEW length \in Nat, NEW n \in Nat \ {0}
  PROVE  /\ \A i \in 0..(n - 1) : /\ i * (length \div n) \in Nat /\ PartEnd(length, n, i) \in Nat
                                  /\ i * (length \div n) <= PartEnd(length, n, i)
                                  /\ PartEnd(length, n, i) <= length
         /\ \A k \in 1..length : \E i \in 0..(n - 1) : i * (length \div n) < k /\ k <= PartEnd(length, n, i)
<1>1. PICK w \in Nat : w = length \div n /\ n * w <= length BY Division
<1>2. n - 1 \in Nat OBVIOUS
<1>3. ASSUME NEW i \in 0..(n - 1)
      PROVE  /\ i * w \in Nat /\ PartEnd(length, n, i) \in Nat
             /\ i * w <= PartEnd(length, n, i) /\ PartEnd(length, n, i) <= length
  <2>1. i \in Nat /\ i + 1 \in Nat /\ i + 1 <= n /\ i <= n OBVIOUS
  <2>2. i * w <= n * w /\ i * w \in Nat BY <2>1, Monotone
  <2>3. (i + 1) * w <= n * w /\ (i + 1) * w \in Nat BY <2>1, Monotone
  <2>4. i * w <= (i + 1) * w BY <2>1, Monotone
  <2>q. QED BY <1>1, <2>2, <2>3, <2>4 DEF PartEnd
<1>4. ASSUME NEW k \in 1..length PROVE \E i \in 0..(n - 1) : i * w < k /\ k <= PartEnd(length, n, i)
  <2>1. CASE (n - 1) * w < k
    <3>1. n - 1 \in 0..(n - 1) /\ PartEnd(length, n, n - 1) = length BY <1>2 DEF PartEnd
    <3>q. QED BY <2>1, <3>1
  <2>2. CASE k <= (n - 1) * w
    <3>1. w # 0 BY <2>2
    <3>2. PICK i \in Nat : i = (k - 1) \div w /\ w * i <= k - 1 /\ k - 1 < w * i + w
      <4>1. k - 1 \in Nat /\ w \in Nat \ {0} BY <3>1
      <4>q. QED BY <4>1
    <3>3. i * w < k /\ k <= (i + 1) * w BY <3>2
    <3>4. i < n - 1
      <4>1. SUFFICES ASSUME n - 1 <= i PROVE FALSE BY <1>2, <3>2
      <4>2. (n - 1) * w <= i * w BY <1>2, <3>2, <4>1, Monotone
      <4>3. i * w \in Nat /\ (n - 1) * w \in Nat BY <1>2, <3>2, Monotone
      <4>q. QED BY <2>2, <3>3, <4>2, <4>3
    <3>5. i \in 0..(n - 1) /\ PartEnd(length, n, i) = (i + 1) * w BY <1>1, <3>2, <3>4 DEF PartEnd
    <3>q. QED BY <3>3, <3>5
  <2>3. (n - 1) * w \in Nat BY <1>2, Monotone
  <2>q. QED BY <2>1, <2>2, <2>3
<1>q. QED BY <1>1, <1>3, <1>4

LEMMA PartBlocks ==
  ASSUME NEW s \in Seq(Nat), NEW m \in Nat, NEW n \in Nat, m <= n, n <= Len(s)
  PROVE  /\ DOMAIN SubSeq(s, m + 1, n) = 1..(n - m)
         /\ \A j \in 1..(n - m) : SubSeq(s, m + 1, n)[j] = s[m + j]
OBVIOUS

LEMMA AllCame ==
  ASSUME ParallelAssumption, ParallelInv, NEW f \in Fetches \ changed, fetch[f].asked > 0, Came(f)
  PROVE  /\ Assembled(f) = {<<j, fetch[f].hash[j]>> : j \in DOMAIN fetch[f].hash}
         /\ fetch[f].size = Len(fetch[f].hash)
<1>t. ParallelTypeOK /\ FetchOK(f) BY DEF ParallelInv
<1>1. PICK s : s = inodes[Now] OBVIOUS
<1>2. s \in Seq(Nat) BY <1>t, <1>1, FetchTypes
<1>3. PICK n \in Nat \ {0} : n = fetch[f].conns
  <2>1. fetch[f].conns \in 1..MostConns \/ fetch[f].asked <= 0 BY <1>t DEF FetchOK, ConnsOK, Came
  <2>2. fetch[f].asked \in Int BY <1>t, FetchTypes
  <2>q. QED BY <2>1, <2>2 DEF ParallelAssumption
<1>4. /\ fetch[f].at \in {"ready", "expired"} /\ \A i \in 0..(n - 1) : chunk[f][i].at = "done"
  BY <1>3 DEF Came
<1>5. Current(fetch[f], chunk[f]) BY <1>4, <1>t DEF FetchOK
<1>6. fetch[f].size = Len(s) /\ fetch[f].hash = s BY <1>1, <1>4, <1>5 DEF Current
<1>l. PICK len \in Nat : len = Len(s) BY <1>2
<1>7. PICK w \in Nat : w = len \div n BY Division
<1>8. PICK begin, end : /\ begin = [i \in 0..(n - 1) |-> i * w]
                        /\ end = [i \in 0..(n - 1) |-> PartEnd(len, n, i)]
  OBVIOUS
<1>9. /\ \A i \in 0..(n - 1) : begin[i] \in Nat /\ end[i] \in Nat /\ begin[i] <= end[i] /\ end[i] <= len
      /\ \A k \in 1..len : \E i \in 0..(n - 1) : begin[i] < k /\ k <= end[i]
  <2>1. \A i \in 0..(n - 1) : begin[i] = i * (len \div n) /\ end[i] = PartEnd(len, n, i)
    BY <1>7, <1>8
  <2>2. ASSUME NEW i \in 0..(n - 1)
        PROVE  begin[i] \in Nat /\ end[i] \in Nat /\ begin[i] <= end[i] /\ end[i] <= len
    BY <2>1, PartsCover
  <2>3. ASSUME NEW k \in 1..len PROVE \E i \in 0..(n - 1) : begin[i] < k /\ k <= end[i]
    <3>1. PICK i \in 0..(n - 1) : i * (len \div n) < k /\ k <= PartEnd(len, n, i) BY PartsCover
    <3>q. QED BY <2>1, <3>1
  <2>q. QED BY <2>2, <2>3
<1>10. ASSUME NEW i \in 0..(n - 1)
       PROVE  /\ chunk[f][i].offset = begin[i]
              /\ DOMAIN chunk[f][i].got = 1..(end[i] - begin[i])
              /\ \A j \in 1..(end[i] - begin[i]) : chunk[f][i].got[j] = s[begin[i] + j]
  <2>1. chunk[f][i].offset = begin[i] BY <1>3, <1>4, <1>5, <1>6, <1>l, <1>7, <1>8 DEF Current
  <2>2. PICK b, e \in Nat : b = begin[i] /\ e = end[i] /\ b <= e /\ e <= len BY <1>9
  <2>3. End(fetch[f], i) = e
    <3>1. b = i * w BY <1>8, <2>2
    <3>2. PICK x \in Int : x = b + (IF i = n - 1 THEN len - b ELSE w) OBVIOUS
    <3>3. End(fetch[f], i) = IF x < len THEN x ELSE len
      BY <1>1, <1>l, <1>3, <1>6, <1>7, <3>1, <3>2 DEF End
    <3>4. x = e
      <4>1. CASE i = n - 1
        <5>1. e = len BY <1>7, <1>8, <2>2, <4>1 DEF PartEnd
        <5>q. QED BY <3>2, <4>1, <5>1
      <4>2. CASE i # n - 1
        <5>1. e = (i + 1) * w BY <1>7, <1>8, <2>2, <4>2 DEF PartEnd
        <5>2. (i + 1) * w = b + w BY <3>1
        <5>q. QED BY <3>2, <4>2, <5>1, <5>2
      <4>q. QED BY <4>1, <4>2
    <3>q. QED BY <2>2, <3>3, <3>4
  <2>4. chunk[f][i].got = SubSeq(s, b + 1, e)
    BY <1>1, <1>3, <1>4, <1>5, <2>1, <2>2, <2>3 DEF Current
  <2>5. /\ DOMAIN SubSeq(s, b + 1, e) = 1..(e - b)
        /\ \A j \in 1..(e - b) : SubSeq(s, b + 1, e)[j] = s[b + j]
    <3>1. b \in Nat /\ e \in Nat /\ b <= e /\ e <= Len(s) BY <1>l, <2>2
    <3>q. QED BY <1>2, <3>1, PartBlocks
  <2>q. QED BY <2>1, <2>2, <2>4, <2>5
<1>11. ASSUME NEW i \in 0..(n - 1), NEW j \in 1..(end[i] - begin[i])
       PROVE  begin[i] + j \in 1..len
  <2>1. PICK b, e \in Nat : b = begin[i] /\ e = end[i] /\ b <= e /\ e <= len BY <1>9
  <2>2. j \in 1..(e - b) BY <2>1
  <2>3. b + j \in 1..len BY <2>1, <2>2
  <2>q. QED BY <2>1, <2>3
<1>12. ASSUME NEW e \in Assembled(f) PROVE e \in {<<k, s[k]>> : k \in 1..len}
  <2>1. PICK i \in 0..(n - 1) :
          \E j \in DOMAIN chunk[f][i].got : e = <<chunk[f][i].offset + j, chunk[f][i].got[j]>>
    BY <1>3, <1>12 DEF Assembled
  <2>2. PICK j \in 1..(end[i] - begin[i]) : e = <<begin[i] + j, s[begin[i] + j]>>
    <3>1. PICK g : g = chunk[f][i].got OBVIOUS
    <3>2. DOMAIN g = 1..(end[i] - begin[i]) /\ \A j \in 1..(end[i] - begin[i]) : g[j] = s[begin[i] + j]
      BY <1>10, <3>1
    <3>3. chunk[f][i].offset = begin[i] BY <1>10
    <3>4. PICK j \in DOMAIN g : e = <<begin[i] + j, g[j]>> BY <2>1, <3>1, <3>3
    <3>q. QED BY <3>2, <3>4
  <2>q. QED BY <1>11, <2>2
<1>13. ASSUME NEW k \in 1..len PROVE <<k, s[k]>> \in Assembled(f)
  <2>1. PICK i \in 0..(n - 1) : begin[i] < k /\ k <= end[i] BY <1>9
  <2>2. PICK b, e \in Nat : b = begin[i] /\ e = end[i] BY <1>9
  <2>3. k - b \in 1..(e - b) /\ k = b + (k - b) BY <2>1, <2>2
  <2>4. PICK j \in 1..(end[i] - begin[i]) : k = begin[i] + j BY <2>2, <2>3
  <2>5. <<k, s[k]>> = <<chunk[f][i].offset + j, chunk[f][i].got[j]>> /\ j \in DOMAIN chunk[f][i].got
    BY <1>10, <2>4
  <2>6. <<k, s[k]>> \in {<<chunk[f][i].offset + h, chunk[f][i].got[h]>> : h \in DOMAIN chunk[f][i].got}
    BY <2>5
  <2>q. QED BY <1>3, <2>6 DEF Assembled
<1>14. DOMAIN s = 1..len BY <1>2, <1>l
<1>q. QED BY <1>6, <1>12, <1>13, <1>14

LEMMA ChunksShow ==
  ASSUME ParallelAssumption, ParallelInv PROVE ChunksMakeFile
<1>1. ASSUME NEW f \in Fetches PROVE FetchOK(f) BY DEF ParallelInv
<1>2. ASSUME NEW f \in Fetches, ~(fetch[f].asked > 0), NEW i \in 0..(MostConns - 1)
      PROVE  chunk[f][i].got = <<>>
  <2>1. fetch[f].asked \in Int BY FetchTypes DEF ParallelInv
  <2>2. fetch[f].asked <= 0 BY <1>2, <2>1
  <2>q. QED BY <1>1, <2>2 DEF FetchOK, ChunkOK, ChunkIndex
<1>q. QED BY <1>2, AllCame DEF ChunksMakeFile

\* The chunks of a file that nobody changes make up the file that was
\* announced, whatever its size, the number of connections above zero that was
\* asked for and the order of the chunks; for any other number, at which the
\* daemon may end in a panic, no byte comes (HandleGetM, HandleGetC).
THEOREM ChunksAreTheFile == ParallelSpec => []ChunksMakeFile
<1>1. ParallelInit => ParallelInv BY ParallelInitially, ParallelAssumption
<1>2. ParallelInv /\ [ParallelNext]_parallelVars => ParallelInv' BY ParallelStep, ParallelAssumption
<1>3. ParallelInv => ChunksMakeFile BY ChunksShow, ParallelAssumption
<1>q. QED BY <1>1, <1>2, <1>3, PTL DEF ParallelSpec

----------------------------------------------------------------------------
(* The three together.                                                     *)

LEMMA Components == MCSpec => Spec /\ ParallelSpec /\ DeploySpec
<1>1. MCInit => Init /\ ParallelInit /\ DeployInit BY DEF MCInit
<1>2. [MCNext]_<<about, vars, parallelVars, deployVars>> =>
        [Next]_vars /\ [ParallelNext]_parallelVars /\ [DeployNext]_deployVars
  BY DEF MCNext
<1>q. QED BY <1>1, <1>2, PTL DEF MCSpec, Spec, ParallelSpec, DeploySpec

\* A download is one version of the file, all of it, in one piece or in
\* chunks, of which at least one was asked for (HandleTransfer, RecvFile,
\* HandleGetM, HandleGetC).
THEOREM DownloadsAreOneVersion ==
  ASSUME ~Overlap PROVE MCSpec => []DownloadIsOneVersion
<1>1. MCSpec => Spec /\ ParallelSpec BY Components
<1>2. Spec => []DownloadWhole BY DownloadsAreWhole
<1>3. ParallelSpec => []ChunksMakeFile BY ChunksAreTheFile
<1>q. QED BY <1>1, <1>2, <1>3, PTL DEF DownloadIsOneVersion

\* Every variable of the three models keeps its type.
THEOREM FilesTypes ==
  ASSUME ~Overlap PROVE MCSpec => []AllTypeOK
<1>1. Spec => []TypeOK
  <2>1. Init => TransferInv BY TransferInitially, NameAssumption, BlocksAssumption, BoundAssumption
  <2>2. TransferInv /\ [Next]_vars => TransferInv'
    BY TransferStep, NameAssumption, BlocksAssumption, BoundAssumption
  <2>3. TransferInv => TypeOK BY DEF TransferInv
  <2>q. QED BY <2>1, <2>2, <2>3, PTL DEF Spec
<1>2. ParallelSpec => []ParallelTypeOK
  <2>1. ParallelInit => ParallelInv BY ParallelInitially, ParallelAssumption
  <2>2. ParallelInv /\ [ParallelNext]_parallelVars => ParallelInv' BY ParallelStep, ParallelAssumption
  <2>3. ParallelInv => ParallelTypeOK BY DEF ParallelInv
  <2>q. QED BY <2>1, <2>2, <2>3, PTL DEF ParallelSpec
<1>3. DeploySpec => []DeployTypeOK BY DeploysKeepTypes
<1>q. QED BY <1>1, <1>2, <1>3, Components, PTL DEF AllTypeOK
=============================================================================
