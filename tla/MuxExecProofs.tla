--------------------------- MODULE MuxExecProofs ---------------------------
(***************************************************************************)
(* Proofs about MuxExec, for any set of calls and any number of crashes    *)
(* and resets: its types and its mutex; an answer belongs to the call it   *)
(* is returned to, the session a call leaves behind is clean, a command    *)
(* runs twice only if its session was lost under it, and the pool as a     *)
(* whole implements ExecService.                                           *)
(*                                                                         *)
(* The answers rest on two facts: a connection holds at most one line or   *)
(* command at a time (LoadInv), and that one belongs to the call that is   *)
(* waiting on the connection (OwnerInv).  The runs rest on an account of   *)
(* those that took place and those still pending (RunsInv): of the first   *)
(* line of a call, and of the line of its one retry.                       *)
(***************************************************************************)
EXTENDS MuxExec, TLAPS

----------------------------------------------------------------------------
(* Types, the mutex, the pooled session.                                   *)

\* The lines the model writes are lines of their channel.
LEMMA LineTypes ==
  ASSUME NEW c \in Calls \cup {None}
  PROVE  /\ \A t \in {"MUX", "EXEJ"} : Line(t, c) \in UpLines
         /\ \A t \in {"MUX_OK", "LINE", "REPLY", "REFUSED"} : Line(t, c) \in DownLines
         /\ \A t \in {"REPLY", "REFUSED", "error"} : Line(t, c) \in Outcomes
         /\ \A x \in UpLines : x.call \in Calls \cup {None}
         /\ \A x \in DownLines : x.type \in {"REPLY", "REFUSED"} => x \in Outcomes
BY DEF Line, UpLines, DownLines, Outcomes

\* The connections a call dials are connections, and None is none of them.
LEMMA ConnTypes ==
  /\ \A c \in Calls : OneShot(c) \in Conns /\ Dialed(c) \in Conns
  /\ None \notin Calls /\ None \notin Conns
BY NoneAssumption DEF OneShot, Dialed, Conns, Stages

\* Pushing to, popping from and emptying a channel keeps its type.
LEMMA SeqTypes ==
  ASSUME NEW S
  PROVE  /\ <<>> \in Seq(S)
         /\ \A s \in Seq(S), x \in S : Append(s, x) \in Seq(S)
         /\ \A s \in Seq(S) : s # <<>> => Head(s) \in S /\ Tail(s) \in Seq(S)
OBVIOUS

\* What a step may do to the channel to the daemon keeps its type.
LEMMA UpTypes ==
  ASSUME TypeOK, NEW k \in Conns
  PROVE  /\ [up EXCEPT ![k] = <<>>] \in [Conns -> Seq(UpLines)]
         /\ \A x \in UpLines : /\ [up EXCEPT ![k] = Append(@, x)] \in [Conns -> Seq(UpLines)]
                              /\ [up EXCEPT ![k] = <<x>>] \in [Conns -> Seq(UpLines)]
         /\ up[k] # <<>> => /\ Head(up[k]) \in UpLines
                           /\ [up EXCEPT ![k] = Tail(@)] \in [Conns -> Seq(UpLines)]
<1>1. up \in [Conns -> Seq(UpLines)]
  BY DEF TypeOK
<1>2. \A x \in UpLines : <<x>> \in Seq(UpLines)
  OBVIOUS
<1>3. QED BY <1>1, <1>2, SeqTypes

\* What a step may do to the channel to the client keeps its type.
LEMMA DownTypes ==
  ASSUME TypeOK, NEW k \in Conns
  PROVE  /\ \A x \in DownLines : [down EXCEPT ![k] = Append(@, x)] \in [Conns -> Seq(DownLines)]
         /\ [down EXCEPT ![k] = <<>>] \in [Conns -> Seq(DownLines)]
         /\ down[k] # <<>> => /\ Head(down[k]) \in DownLines
                             /\ [down EXCEPT ![k] = Tail(@)] \in [Conns -> Seq(DownLines)]
<1>1. down \in [Conns -> Seq(DownLines)]
  BY DEF TypeOK
<1>2. QED BY <1>1, SeqTypes

\* Empty channels are channels.
LEMMA EmptyTypes ==
  /\ [k \in Conns |-> <<>>] \in [Conns -> Seq(UpLines)]
  /\ [k \in Conns |-> <<>>] \in [Conns -> Seq(DownLines)]
BY SeqTypes

\* The types of what the client's part of a step assigns.
ClientTypes ==
  /\ pc \in [Calls -> {"idle", "lock", "dial1", "await1", "done"} \cup Holding]
  /\ mu \in Calls \cup {None}
  /\ sess \in Conns \cup {None}
  /\ noMux \in BOOLEAN
  /\ reused \in [Calls -> BOOLEAN]
  /\ retried \in [Calls -> BOOLEAN]
  /\ result \in [Calls -> Outcomes \cup {None}]
  /\ closed \in [Conns -> BOOLEAN]

\* A call that returns an error assigns values of their types.
LEMMA ReturnTypes ==
  ASSUME TypeOK, NEW c \in Calls, Return(c, "error")
  PROVE  /\ pc' \in [Calls -> {"idle", "lock", "dial1", "await1", "done"} \cup Holding]
         /\ mu' \in Calls \cup {None}
         /\ result' \in [Calls -> Outcomes \cup {None}]
<1>1. Line("error", c) \in Outcomes
  BY LineTypes
<1>2. QED BY <1>1 DEF TypeOK, Return, Goto

\* A failed round trip, retried or not, assigns values of their types.
LEMMA FailedTypes ==
  ASSUME TypeOK, NEW c \in Calls, NEW kind, Failed(c, kind)
  PROVE  ClientTypes'
<1>1. CASE Return(c, "error") /\ UNCHANGED retried
  BY <1>1, ReturnTypes DEF Failed, TypeOK, ClientTypes
<1>2. CASE /\ retried' = [retried EXCEPT ![c] = TRUE]
           /\ Goto(c, "dial")
           /\ UNCHANGED <<mu, result>>
  BY <1>2 DEF Failed, TypeOK, ClientTypes, Goto, Holding
<1>3. QED BY <1>1, <1>2 DEF Failed

\* Giving up the session assigns values of their types.
LEMMA GiveUpTypes ==
  ASSUME TypeOK, NEW c \in Calls, GiveUpMux(c), noMux' \in BOOLEAN
  PROVE  ClientTypes'
<1>1. CASE Return(c, "error")
  BY <1>1, ReturnTypes DEF GiveUpMux, TypeOK, ClientTypes
<1>2. CASE Goto(c, "dial1") /\ mu' = None /\ UNCHANGED result
  BY <1>2 DEF GiveUpMux, TypeOK, ClientTypes, Goto, Holding
<1>3. QED BY <1>1, <1>2 DEF GiveUpMux

----------------------------------------------------------------------------
\* A call that is about to use the session finds one.
SessionUsed == \A c \in Calls : pc[c] \in {"send", "await"} => sess # None

\* One more run of a call.
LEMMA OneMoreRun ==
  ASSUME NEW f \in [Calls -> Nat], NEW c \in Calls
  PROVE  [f EXCEPT ![c] = f[c] + 1] \in [Calls -> Nat]
OBVIOUS

\* Every step keeps TypeOK.
LEMMA TypeStep ==
  ASSUME TypeOK, SessionUsed, [Next]_vars
  PROVE  TypeOK'
<1> USE LineTypes, ConnTypes DEF TypeOK, Holding, Goto
<1>1. ASSUME NEW c \in Calls, Invoke(c) PROVE TypeOK'
  BY <1>1 DEF Invoke, daemon, wires, faults
<1>2. ASSUME NEW c \in Calls, Lock(c) PROVE TypeOK'
  BY <1>2 DEF Lock, daemon, wires, faults
<1>3. ASSUME NEW c \in Calls, Dial(c) PROVE TypeOK'
  BY <1>3, UpTypes DEF Dial, faults
<1>4. ASSUME NEW c \in Calls, DialFails(c) PROVE TypeOK'
  BY <1>4 DEF DialFails, Return, daemon, wires, faults
<1>5. ASSUME NEW c \in Calls, Established(c) PROVE TypeOK'
  BY <1>5, DownTypes DEF Established, daemon, faults
<1>6. ASSUME NEW c \in Calls, NotMux(c) PROVE TypeOK'
  <2>1. Dialed(c) \in Conns /\ down[Dialed(c)] # <<>>
    BY <1>6 DEF NotMux
  <2>2. down' \in [Conns -> Seq(DownLines)]
    BY <1>6, <2>1, DownTypes DEF NotMux
  <2>3. ClientTypes'
    BY <1>6, GiveUpTypes DEF NotMux
  <2>4. QED BY <1>6, <2>2, <2>3 DEF NotMux, GiveUpMux, ClientTypes, daemon, faults
<1>7. ASSUME NEW c \in Calls, ProbeFails(c) PROVE TypeOK'
  <2>1. ClientTypes'
    BY <1>7, GiveUpTypes DEF ProbeFails
  <2>2. QED BY <1>7, <2>1 DEF ProbeFails, GiveUpMux, ClientTypes, daemon, faults
<1>8. ASSUME NEW c \in Calls, Send(c) PROVE TypeOK'
  BY <1>8, UpTypes DEF Send, daemon, faults
<1>9. ASSUME NEW c \in Calls, SendFails(c) PROVE TypeOK'
  <2>1. ClientTypes'
    BY <1>9, FailedTypes DEF SendFails
  <2>2. QED BY <1>9, <2>1 DEF SendFails, ClientTypes, daemon, faults
<1>10. ASSUME NEW c \in Calls, Receive(c) PROVE TypeOK'
  <2> DEFINE m == Head(down[sess])
  <2>1. sess \in Conns
    BY <1>10 DEF Receive, SessionUsed
  <2>2. m \in DownLines /\ down' \in [Conns -> Seq(DownLines)]
    BY <1>10, <2>1, DownTypes DEF Receive
  <2>3. ClientTypes'
    <3>1. CASE Failed(c, "bad")
      BY <3>1, FailedTypes
    <3>2. CASE /\ m.type \in {"REPLY", "REFUSED"}
               /\ Goto(c, "done")
               /\ result' = [result EXCEPT ![c] = m]
               /\ mu' = None
               /\ UNCHANGED <<sess, noMux, reused, retried, closed>>
      <4>1. m \in Outcomes
        BY <2>2, <3>2, LineTypes
      <4>2. QED BY <4>1, <3>2 DEF ClientTypes
    <3>3. QED BY <1>10, <3>1, <3>2 DEF Receive
  <2>4. QED BY <1>10, <2>2, <2>3 DEF Receive, ClientTypes, daemon, faults
<1>11. ASSUME NEW c \in Calls, ReceiveFails(c) PROVE TypeOK'
  <2>1. ClientTypes'
    BY <1>11, FailedTypes DEF ReceiveFails
  <2>2. QED BY <1>11, <2>1 DEF ReceiveFails, ClientTypes, daemon, faults
<1>12. ASSUME NEW c \in Calls, ReceiveTimesOut(c) PROVE TypeOK'
  <2>1. ClientTypes'
    BY <1>12, FailedTypes DEF ReceiveTimesOut
  <2>2. QED BY <1>12, <2>1 DEF ReceiveTimesOut, ClientTypes, daemon, faults
<1>13. ASSUME NEW c \in Calls, Dial1(c) PROVE TypeOK'
  BY <1>13, UpTypes DEF Dial1, faults
<1>14. ASSUME NEW c \in Calls, Dial1Fails(c) PROVE TypeOK'
  BY <1>14 DEF Dial1Fails, Answer1, daemon, faults
<1>15. ASSUME NEW c \in Calls, Receive1(c) PROVE TypeOK'
  <2>1. Head(down[OneShot(c)]) \in DownLines /\ down' \in [Conns -> Seq(DownLines)]
    BY <1>15, DownTypes DEF Receive1
  <2>2. result' \in [Calls -> Outcomes \cup {None}]
    BY <1>15, <2>1 DEF Receive1
  <2>3. QED BY <1>15, <2>1, <2>2 DEF Receive1, daemon, faults
<1>16. ASSUME NEW c \in Calls, Receive1Fails(c) PROVE TypeOK'
  BY <1>16 DEF Receive1Fails, Answer1, daemon, faults
<1>17. ASSUME NEW k \in Conns, TakeMux(k) PROVE TypeOK'
  BY <1>17, UpTypes, DownTypes DEF TakeMux, Pop, Deliver, client, faults
<1>18. ASSUME NEW k \in Conns, PeekExpires(k) PROVE TypeOK'
  BY <1>18 DEF PeekExpires, client, wires, faults
<1>19. ASSUME NEW k \in Conns, ShellEchoes(k) PROVE TypeOK'
  BY <1>19, UpTypes, DownTypes DEF ShellEchoes, Pop, Deliver, client, daemon, faults
<1>20. ASSUME NEW k \in Conns, TakeCommand(k) PROVE TypeOK'
  <2>1. Head(up[k]).call \in Calls \cup {None} /\ up' \in [Conns -> Seq(UpLines)]
    BY <1>20, UpTypes DEF TakeCommand, HasCommand, Pop
  <2>2. QED BY <1>20, <2>1 DEF TakeCommand, client, faults
<1>21. ASSUME NEW k \in Conns, Refuse(k) PROVE TypeOK'
  <2>1. Head(up[k]).call \in Calls \cup {None} /\ up' \in [Conns -> Seq(UpLines)]
    BY <1>21, UpTypes DEF Refuse, HasCommand, Pop
  <2>2. down' \in [Conns -> Seq(DownLines)]
    BY <1>21, <2>1, DownTypes DEF Refuse, Deliver
  <2>3. QED BY <1>21, <2>1, <2>2 DEF Refuse, AfterAnswer, client, faults
<1>22. ASSUME NEW k \in Conns, Execute(k) PROVE TypeOK'
  <2>1. runs' \in [Calls -> Nat]
    <3>1. PICK d : d = cur[k] /\ runs' = [runs EXCEPT ![d] = runs[d] + 1]
      BY <1>22 DEF Execute
    <3>2. CASE d \in Calls
      BY <3>1, <3>2, OneMoreRun
    <3>3. CASE d \notin Calls
      <4>1. runs' = runs
        BY <3>1, <3>3
      <4>2. QED BY <4>1
    <3>4. QED BY <3>2, <3>3
  <2>2. QED BY <1>22, <2>1 DEF Execute, client, wires, faults
<1>23. ASSUME NEW k \in Conns, Reply(k) PROVE TypeOK'
  <2>1. down' \in [Conns -> Seq(DownLines)]
    BY <1>23, DownTypes DEF Reply, Deliver
  <2>2. QED BY <1>23, <2>1 DEF Reply, AfterAnswer, client, faults
<1>24. ASSUME NEW k \in Conns, IdleClose(k) PROVE TypeOK'
  BY <1>24, UpTypes DEF IdleClose, client, faults
<1>25. ASSUME NEW k \in Conns, Hangup(k) PROVE TypeOK'
  BY <1>25, UpTypes DEF Hangup, client, faults
<1>26. ASSUME NEW k \in Conns, Reset(k) PROVE TypeOK'
  BY <1>26, BoundAssumption, DownTypes DEF Reset, client, daemon
<1>27. CASE Crash
  <2>1. up' \in [Conns -> Seq(UpLines)] /\ down' \in [Conns -> Seq(DownLines)]
    BY <1>27, EmptyTypes DEF Crash
  <2>2. crashes' \in 0..MaxCrashes
    BY <1>27, BoundAssumption DEF Crash
  <2>3. QED BY <1>27, <2>1, <2>2 DEF Crash, client
<1>28. CASE Restart
  BY <1>28 DEF Restart, client, wires, faults
<1>29. CASE UNCHANGED vars
  BY <1>29 DEF vars, client, daemon, wires, faults
<1>30. QED
  BY <1>1, <1>2, <1>3, <1>4, <1>5, <1>6, <1>7, <1>8, <1>9, <1>10, <1>11, <1>12,
     <1>13, <1>14, <1>15, <1>16, <1>17, <1>18, <1>19, <1>20, <1>21, <1>22, <1>23,
     <1>24, <1>25, <1>26, <1>27, <1>28, <1>29
     DEF Next, ClientStep, DaemonStep

\* Every step keeps the mutex with the one call that is inside execViaMux,
\* and the session it uses in place.
LEMMA LockStep ==
  ASSUME TypeOK, LockInv, SessionUsed, [Next]_vars
  PROVE  LockInv' /\ SessionUsed'
<1>t. pc \in [Calls -> {"idle", "lock", "dial1", "await1", "done"} \cup Holding]
  BY DEF TypeOK
<1> USE <1>t, ConnTypes DEF LockInv, SessionUsed, Holding, Goto
<1>1. CASE UNCHANGED client
  BY <1>1 DEF client
<1>2. ASSUME NEW c \in Calls, Invoke(c) \/ Lock(c) \/ Dial(c) \/ Established(c) \/ Send(c)
      PROVE  LockInv' /\ SessionUsed'
  <2>1. CASE Invoke(c)       BY <2>1 DEF Invoke
  <2>2. CASE Lock(c)         BY <2>2 DEF Lock
  <2>3. CASE Dial(c)         BY <2>3 DEF Dial
  <2>4. CASE Established(c)  BY <2>4 DEF Established
  <2>5. CASE Send(c)         BY <2>5 DEF Send
  <2>6. QED BY <1>2, <2>1, <2>2, <2>3, <2>4, <2>5
<1>3. ASSUME NEW c \in Calls, DialFails(c) \/ NotMux(c) \/ ProbeFails(c)
      PROVE  LockInv' /\ SessionUsed'
  <2>1. /\ pc[c] \in {"dial", "probe"} /\ mu' = None /\ UNCHANGED sess
        /\ Goto(c, "done") \/ Goto(c, "dial1")
    BY <1>3 DEF DialFails, NotMux, ProbeFails, GiveUpMux, Return
  <2>2. QED BY <2>1
<1>4. ASSUME NEW c \in Calls, NEW kind, pc[c] \in {"send", "await"}, Failed(c, kind)
      PROVE  LockInv' /\ SessionUsed'
  <2>1. sess' = None /\ mu = c
    BY <1>4 DEF Failed
  <2>2. CASE Goto(c, "done") /\ mu' = None
    BY <2>1, <2>2
  <2>3. CASE Goto(c, "dial") /\ mu' = mu
    BY <2>1, <2>3
  <2>4. QED BY <1>4, <2>2, <2>3 DEF Failed, Return
<1>5. ASSUME NEW c \in Calls,
             Receive(c) \/ SendFails(c) \/ ReceiveFails(c) \/ ReceiveTimesOut(c)
      PROVE  LockInv' /\ SessionUsed'
  <2>1. CASE \E kind : Failed(c, kind)
    BY <2>1, <1>4, <1>5 DEF Receive, SendFails, ReceiveFails, ReceiveTimesOut
  <2>2. CASE pc[c] = "await" /\ Goto(c, "done") /\ mu' = None /\ UNCHANGED sess
    BY <2>2
  <2>3. QED BY <1>5, <2>1, <2>2 DEF Receive, SendFails, ReceiveFails, ReceiveTimesOut
<1>6. ASSUME NEW c \in Calls, Dial1(c) \/ Dial1Fails(c) \/ Receive1(c) \/ Receive1Fails(c)
      PROVE  LockInv' /\ SessionUsed'
  <2>1. pc[c] \in {"dial1", "await1"} /\ UNCHANGED <<mu, sess>>
    BY <1>6 DEF Dial1, Dial1Fails, Receive1, Receive1Fails, Answer1
  <2>2. Goto(c, "await1") \/ Goto(c, "done")
    <3>1. CASE Dial1(c)          BY <3>1 DEF Dial1
    <3>2. CASE Dial1Fails(c)     BY <3>2 DEF Dial1Fails, Answer1
    <3>3. CASE Receive1(c)       BY <3>3 DEF Receive1
    <3>4. CASE Receive1Fails(c)  BY <3>4 DEF Receive1Fails, Answer1
    <3>5. QED BY <1>6, <3>1, <3>2, <3>3, <3>4
  <2>3. QED BY <2>1, <2>2
<1>7. ASSUME (\E k \in Conns : DaemonStep(k) \/ Reset(k)) \/ Crash \/ Restart \/ UNCHANGED vars
      PROVE  UNCHANGED client
  BY <1>7 DEF DaemonStep, TakeMux, PeekExpires, ShellEchoes, TakeCommand, Refuse, Execute,
              Reply, IdleClose, Hangup, Reset, Crash, Restart, vars
<1>8. QED
  BY <1>1, <1>2, <1>3, <1>5, <1>6, <1>7 DEF Next, ClientStep

\* Types, mutex and session hold initially.
LEMMA BaseInit == Init => TypeOK /\ LockInv /\ SessionUsed
<1> SUFFICES ASSUME Init PROVE TypeOK /\ LockInv /\ SessionUsed
  OBVIOUS
<1>1. up \in [Conns -> Seq(UpLines)] /\ down \in [Conns -> Seq(DownLines)]
  BY EmptyTypes DEF Init
<1>2. crashes \in 0..MaxCrashes /\ resets \in 0..MaxResets
  BY BoundAssumption DEF Init
<1>3. TypeOK
  BY <1>1, <1>2 DEF Init, TypeOK
<1>4. LockInv /\ SessionUsed
  BY ConnTypes DEF Init, LockInv, SessionUsed, Holding
<1>5. QED BY <1>3, <1>4

\* Types, mutex and session hold in every state.
LEMMA Base == Spec => [](TypeOK /\ LockInv /\ SessionUsed)
<1>1. TypeOK /\ LockInv /\ SessionUsed /\ [Next]_vars => (TypeOK /\ LockInv /\ SessionUsed)'
  BY TypeStep, LockStep
<1>2. QED BY BaseInit, <1>1, PTL DEF Spec

\* Every variable of MuxExec stays in its type, whatever the interleaving of
\* calls, handlers, crashes and resets.
THEOREM TypeCorrect == Spec => []TypeOK
BY Base, PTL

----------------------------------------------------------------------------
(* The session and the connections.                                        *)

\* Every step keeps SessionInv: the pooled session is an open connection, and
\* a call that dials found none.
LEMMA SessionStep ==
  ASSUME TypeOK, LockInv, SessionInv, FreshInv, [Next]_vars
  PROVE  SessionInv'
<1>t. /\ pc \in [Calls -> {"idle", "lock", "dial1", "await1", "done"} \cup Holding]
      /\ sess \in Conns \cup {None}
      /\ srv \in [Conns -> {"none", "verb", "loop", "exec", "ran", "shell", "gone"}]
      /\ closed \in [Conns -> BOOLEAN]
      /\ retried \in [Calls -> BOOLEAN]
  BY DEF TypeOK
<1> USE <1>t, ConnTypes DEF SessionInv, Goto
<1>1. ASSUME NEW c \in Calls, Invoke(c) PROVE SessionInv'
  BY <1>1 DEF Invoke, daemon, wires
<1>2. ASSUME NEW c \in Calls, Lock(c) PROVE SessionInv'
  BY <1>2 DEF Lock, daemon, wires
<1>3. ASSUME NEW c \in Calls, Dial(c) PROVE SessionInv'
  BY <1>3 DEF Dial
<1>4. ASSUME NEW c \in Calls, DialFails(c) PROVE SessionInv'
  BY <1>4 DEF DialFails, Return, daemon, wires
<1>5. ASSUME NEW c \in Calls, Established(c) PROVE SessionInv'
  <2>1. ~closed[Dialed(c)] /\ srv[Dialed(c)] # "none" /\ Dialed(c)[2] # "oneshot"
    BY <1>5 DEF Established, FreshInv, Dialed
  <2>2. \A d \in Calls : pc'[d] \notin {"dial", "probe"}
    BY <1>5 DEF Established, LockInv, Holding
  <2>3. QED BY <1>5, <2>1, <2>2 DEF Established, daemon
<1>6. ASSUME NEW c \in Calls, NotMux(c) \/ ProbeFails(c) PROVE SessionInv'
  <2>1. sess = None /\ UNCHANGED <<sess, srv>>
    BY <1>6 DEF NotMux, ProbeFails, GiveUpMux, daemon
  <2>2. Goto(c, "done") \/ Goto(c, "dial1")
    BY <1>6 DEF NotMux, ProbeFails, GiveUpMux, Return
  <2>3. QED BY <2>1, <2>2
<1>7. ASSUME NEW c \in Calls, Send(c) PROVE SessionInv'
  BY <1>7 DEF Send, daemon
<1>8. ASSUME NEW c \in Calls, NEW kind, pc[c] \in {"send", "await"}, Failed(c, kind)
      PROVE  SessionInv'
  <2>1. sess' = None
    BY <1>8 DEF Failed
  <2>2. Goto(c, "done") \/ Goto(c, "dial")
    BY <1>8 DEF Failed, Return
  <2>3. \A d \in Calls \ {c} : pc[d] \notin Holding
    BY <1>8 DEF LockInv, Holding
  <2>4. QED BY <2>1, <2>2, <2>3 DEF Holding
<1>9. ASSUME NEW c \in Calls,
             Receive(c) \/ SendFails(c) \/ ReceiveFails(c) \/ ReceiveTimesOut(c)
      PROVE  SessionInv'
  <2>1. CASE \E kind : Failed(c, kind)
    BY <2>1, <1>8, <1>9 DEF Receive, SendFails, ReceiveFails, ReceiveTimesOut
  <2>2. CASE Goto(c, "done") /\ UNCHANGED <<sess, srv, closed>>
    BY <2>2
  <2>3. QED
    BY <1>9, <2>1, <2>2 DEF Receive, SendFails, ReceiveFails, ReceiveTimesOut, daemon
<1>10. ASSUME NEW c \in Calls, Dial1(c) PROVE SessionInv'
  BY <1>10 DEF Dial1
<1>11. ASSUME NEW c \in Calls, Dial1Fails(c) \/ Receive1(c) \/ Receive1Fails(c)
       PROVE  SessionInv'
  <2>1. Goto(c, "done") /\ UNCHANGED <<sess, srv>>
    BY <1>11 DEF Dial1Fails, Receive1, Receive1Fails, Answer1, daemon
  <2>2. closed' = closed \/ closed' = [closed EXCEPT ![OneShot(c)] = TRUE]
    BY <1>11 DEF Dial1Fails, Receive1, Receive1Fails
  <2>3. OneShot(c)[2] = "oneshot"
    BY DEF OneShot
  <2>4. QED BY <2>1, <2>2, <2>3
<1>12. ASSUME NEW k \in Conns, DaemonStep(k) PROVE SessionInv'
  <2>1. UNCHANGED <<client, closed>>
    BY <1>12 DEF DaemonStep, TakeMux, PeekExpires, ShellEchoes, TakeCommand, Refuse,
                 Execute, Reply, IdleClose, Hangup, wires
  <2>2. \A j \in Conns : srv[j] # "none" => srv'[j] # "none"
    BY <1>12 DEF DaemonStep, TakeMux, PeekExpires, ShellEchoes, TakeCommand, Refuse,
                 Execute, Reply, IdleClose, Hangup, daemon, AfterAnswer
  <2>3. QED BY <2>1, <2>2 DEF client
<1>13. ASSUME Crash \/ Restart \/ UNCHANGED vars \/ \E k \in Conns : Reset(k)
       PROVE  SessionInv'
  <2>1. UNCHANGED <<client, closed>>
    BY <1>13 DEF Crash, Restart, Reset, vars, wires
  <2>2. \A j \in Conns : srv[j] # "none" => srv'[j] # "none"
    BY <1>13 DEF Crash, Restart, Reset, vars, daemon
  <2>3. QED BY <2>1, <2>2 DEF client
<1>14. QED
  BY <1>1, <1>2, <1>3, <1>4, <1>5, <1>6, <1>7, <1>9, <1>10, <1>11, <1>12, <1>13
     DEF Next, ClientStep

\* FreshInv says of every connection and of every call:
FreshConn(k) ==
  srv[k] = "none" => up[k] = <<>> /\ down[k] = <<>> /\ cur[k] = None /\ ~closed[k]

FreshCall(c) ==
  /\ pc[c] \in {"idle", "lock"} => srv[<<c, "first">>] = "none" /\ ~retried[c]
  /\ ~retried[c] => srv[<<c, "retry">>] = "none"
  /\ pc[c] = "dial" => srv[Dialed(c)] = "none"
  /\ pc[c] \notin {"await1", "done"} => srv[OneShot(c)] = "none"
  /\ pc[c] = "probe" => ~closed[Dialed(c)] /\ srv[Dialed(c)] # "none"
  /\ pc[c] = "await1" => ~closed[OneShot(c)] /\ srv[OneShot(c)] # "none"

\* FreshInv is a fact of each connection and each call ...
LEMMA FreshParts ==
  FreshInv <=> (\A k \in Conns : FreshConn(k)) /\ (\A c \in Calls : FreshCall(c))
BY DEF FreshInv, FreshConn, FreshCall

\* ... in the next state too.
LEMMA FreshPartsNext ==
  FreshInv' <=> (\A k \in Conns : FreshConn(k)') /\ (\A c \in Calls : FreshCall(c)')
BY DEF FreshInv, FreshConn, FreshCall

\* A step that leaves a call alone, dials nothing for it and closes none of
\* its own connections keeps its part of FreshInv.
LEMMA FreshOther ==
  ASSUME NEW d \in Calls, FreshCall(d),
         pc'[d] = pc[d], retried'[d] = retried[d],
         \A x \in Stages : /\ srv'[<<d, x>>] = "none" <=> srv[<<d, x>>] = "none"
                           /\ closed'[<<d, x>>] = closed[<<d, x>>]
  PROVE  FreshCall(d)'
BY DEF FreshCall, Dialed, OneShot, Stages

\* Every step keeps FreshInv: a connection is untouched until it is dialed.
LEMMA FreshStep ==
  ASSUME TypeOK, LockInv, SessionInv, FreshInv, [Next]_vars
  PROVE  FreshInv'
<1>a. ASSUME NEW k \in Conns PROVE FreshConn(k)
  BY FreshParts
<1>b. ASSUME NEW c \in Calls PROVE FreshCall(c)
  BY FreshParts
<1>t. /\ pc \in [Calls -> {"idle", "lock", "dial1", "await1", "done"} \cup Holding]
      /\ sess \in Conns \cup {None}
      /\ srv \in [Conns -> {"none", "verb", "loop", "exec", "ran", "shell", "gone"}]
      /\ cur \in [Conns -> Calls \cup {None}]
      /\ up \in [Conns -> Seq(UpLines)]
      /\ down \in [Conns -> Seq(DownLines)]
      /\ closed \in [Conns -> BOOLEAN]
      /\ retried \in [Calls -> BOOLEAN]
  BY DEF TypeOK
<1> USE <1>t, ConnTypes DEF Goto
<1>1. ASSUME NEW k \in Conns, DaemonStep(k) PROVE FreshInv'
  <2>1. UNCHANGED <<client, closed>>
    BY <1>1 DEF DaemonStep, TakeMux, PeekExpires, ShellEchoes, TakeCommand, Refuse,
                Execute, Reply, IdleClose, Hangup, wires
  <2>2. \A j \in Conns : srv'[j] = "none" <=> srv[j] = "none"
    BY <1>1 DEF DaemonStep, TakeMux, PeekExpires, ShellEchoes, TakeCommand, Refuse,
                HasCommand, Execute, Reply, IdleClose, Hangup, daemon, AfterAnswer
  <2>3. srv[k] # "none"
    BY <1>1, <1>a DEF DaemonStep, TakeMux, PeekExpires, ShellEchoes, TakeCommand, Refuse,
                HasCommand, Execute, Reply, IdleClose, Hangup
  <2>4. \A j \in Conns \ {k} : up'[j] = up[j] /\ down'[j] = down[j] /\ cur'[j] = cur[j]
    BY <1>1 DEF DaemonStep, TakeMux, PeekExpires, ShellEchoes, TakeCommand, Refuse,
                Execute, Reply, IdleClose, Hangup, wires, daemon, Pop, Deliver
  <2>5. \A j \in Conns : FreshConn(j)'
    BY <2>1, <2>2, <2>3, <2>4, <1>a DEF FreshConn
  <2>6. \A c \in Calls : FreshCall(c)'
    BY <2>1, <2>2, <1>b, FreshOther DEF client, Conns
  <2>7. QED BY <2>5, <2>6, FreshPartsNext
<1>2. ASSUME Crash \/ Restart \/ UNCHANGED vars \/ \E k \in Conns : Reset(k)
      PROVE  FreshInv'
  <2>1. UNCHANGED <<client, closed>>
    BY <1>2 DEF Crash, Restart, Reset, vars, wires
  <2>2. \A j \in Conns : srv'[j] = "none" <=> srv[j] = "none"
    BY <1>2 DEF Crash, Restart, Reset, vars, daemon
  <2>3. \A j \in Conns : /\ up'[j] = up[j] \/ up'[j] = <<>>
                         /\ down'[j] = down[j] \/ down'[j] = <<>>
                         /\ cur'[j] = cur[j] \/ cur'[j] = None
    BY <1>2 DEF Crash, Restart, Reset, vars, wires, daemon
  <2>4. \A j \in Conns : FreshConn(j)'
    BY <2>1, <2>2, <2>3, <1>a DEF FreshConn
  <2>5. \A c \in Calls : FreshCall(c)'
    BY <2>1, <2>2, <1>b, FreshOther DEF client, Conns
  <2>6. QED BY <2>4, <2>5, FreshPartsNext
\* A client step of c that dials nothing: c's part is left to show.
<1>3. ASSUME NEW c \in Calls,
             \A d \in Calls \ {c} : pc'[d] = pc[d] /\ retried'[d] = retried[d],
             UNCHANGED <<srv, cur>>,
             NEW k \in Conns, srv[k] # "none",
             closed' = closed \/ closed' = [closed EXCEPT ![k] = TRUE],
             \A j \in Conns \ {k} : up'[j] = up[j] /\ down'[j] = down[j],
             k = sess \/ k[1] = c,
             k = sess => \A d \in Calls \ {c} : pc[d] \notin Holding,
             FreshCall(c)'
      PROVE  FreshInv'
  <2>1. \A j \in Conns : FreshConn(j)'
    BY <1>3, <1>a DEF FreshConn
  <2>2. ASSUME NEW d \in Calls \ {c} PROVE FreshCall(d)'
    <3>1. CASE k[1] = c
      <4>1. \A x \in Stages : <<d, x>> # k /\ <<d, x>> \in Conns
        BY <3>1 DEF Conns
      <4>2. \A x \in Stages : closed'[<<d, x>>] = closed[<<d, x>>]
        BY <4>1, <1>3
      <4>3. QED BY <4>2, <1>3, <1>b, FreshOther
    <3>2. CASE k = sess
      <4>1. pc[d] # "probe" /\ OneShot(d) # k
        BY <3>2, <1>3 DEF Holding, SessionInv, OneShot
      <4>2. closed'[OneShot(d)] = closed[OneShot(d)]
        BY <4>1, <1>3
      <4>3. pc'[d] = pc[d] /\ retried'[d] = retried[d] /\ UNCHANGED srv
        BY <1>3
      <4>4. FreshCall(d)
        BY <1>b
      <4>5. QED BY <4>1, <4>2, <4>3, <4>4 DEF FreshCall, Dialed, OneShot
    <3>3. QED BY <3>1, <3>2, <1>3
  <2>3. QED BY <2>1, <2>2, <1>3, FreshPartsNext
<1>4. ASSUME NEW c \in Calls, Dial(c) PROVE FreshInv'
  <2>1. \A d \in Calls \ {c}, x \in Stages : <<d, x>> # Dialed(c) /\ <<d, x>> \in Conns
    BY DEF Dialed, Conns
  <2>2. \A d \in Calls \ {c} : FreshCall(d)'
    BY <1>4, <2>1, <1>b, FreshOther DEF Dial
  <2>3. FreshConn(Dialed(c)) /\ FreshCall(c)
    BY <1>a, <1>b
  <2>4. FreshCall(c)'
    BY <1>4, <2>3 DEF Dial, FreshCall, FreshConn, Dialed, OneShot, Conns, Stages
  <2>5. \A j \in Conns : FreshConn(j)'
    BY <1>4, <1>a DEF Dial, FreshConn
  <2>6. QED BY <2>2, <2>4, <2>5, FreshPartsNext
<1>5. ASSUME NEW c \in Calls, Dial1(c) PROVE FreshInv'
  <2>1. \A d \in Calls \ {c}, x \in Stages : <<d, x>> # OneShot(c) /\ <<d, x>> \in Conns
    BY DEF OneShot, Conns
  <2>2. \A d \in Calls \ {c} : FreshCall(d)'
    BY <1>5, <2>1, <1>b, FreshOther DEF Dial1
  <2>3. FreshConn(OneShot(c)) /\ FreshCall(c)
    BY <1>a, <1>b
  <2>4. FreshCall(c)'
    BY <1>5, <2>3 DEF Dial1, FreshCall, FreshConn, Dialed, OneShot, Conns, Stages
  <2>5. \A j \in Conns : FreshConn(j)'
    BY <1>5, <1>a DEF Dial1, FreshConn
  <2>6. QED BY <2>2, <2>4, <2>5, FreshPartsNext
\* A client step of c that touches no connection.
<1>6. ASSUME NEW c \in Calls, Invoke(c) \/ Lock(c) \/ DialFails(c) \/ Dial1Fails(c)
      PROVE  FreshInv'
  <2>1. /\ UNCHANGED <<srv, cur, up, down, closed, retried>>
        /\ \A d \in Calls \ {c} : pc'[d] = pc[d]
    BY <1>6 DEF Invoke, Lock, DialFails, Dial1Fails, Return, Answer1, daemon, wires
  <2>2. FreshCall(c)
    BY <1>b
  <2>3. pc'[c] \in {"lock", "done"} \/ (pc[c] = "lock" /\ pc'[c] \in {"dial1", "send", "dial"})
    BY <1>6 DEF Invoke, Lock, DialFails, Dial1Fails, Return, Answer1
  <2>4. pc'[c] = "lock" => pc[c] = "idle"
    BY <1>6 DEF Invoke, Lock, DialFails, Dial1Fails, Return, Answer1
  <2>5. FreshCall(c)'
    BY <2>1, <2>2, <2>3, <2>4 DEF FreshCall, Dialed, OneShot
  <2>6. \A d \in Calls \ {c} : FreshCall(d)'
    BY <2>1, <1>b, FreshOther
  <2>7. \A j \in Conns : FreshConn(j)'
    BY <2>1, <1>a DEF FreshConn
  <2>8. QED BY <2>5, <2>6, <2>7, FreshPartsNext
<1>7. ASSUME NEW c \in Calls, Established(c) \/ NotMux(c) \/ ProbeFails(c) PROVE FreshInv'
  <2>1. FreshCall(c) /\ pc[c] = "probe"
    BY <1>b, <1>7 DEF Established, NotMux, ProbeFails
  <2>2. srv[Dialed(c)] # "none" /\ Dialed(c)[1] = c /\ Dialed(c) \in Conns
    BY <2>1 DEF FreshCall, Dialed
  <2>3. /\ UNCHANGED <<srv, cur, retried>>
        /\ closed' = closed \/ closed' = [closed EXCEPT ![Dialed(c)] = TRUE]
        /\ \A j \in Conns \ {Dialed(c)} : up'[j] = up[j] /\ down'[j] = down[j]
    BY <1>7 DEF Established, NotMux, ProbeFails, GiveUpMux, daemon
  <2>4. Goto(c, "send") \/ Goto(c, "done") \/ Goto(c, "dial1")
    BY <1>7 DEF Established, NotMux, ProbeFails, GiveUpMux, Return
  <2>5. FreshCall(c)'
    BY <2>1, <2>3, <2>4 DEF FreshCall, Dialed, OneShot
  <2>6. \A d \in Calls \ {c} : pc[d] \notin Holding
    BY <2>1 DEF LockInv, Holding
  <2>7. \A d \in Calls \ {c} : pc'[d] = pc[d] /\ retried'[d] = retried[d]
    BY <2>3, <2>4
  <2>8. QED BY <2>2, <2>3, <2>5, <2>6, <2>7, <1>3
<1>8. ASSUME NEW c \in Calls,
             Send(c) \/ Receive(c) \/ SendFails(c) \/ ReceiveFails(c) \/ ReceiveTimesOut(c)
      PROVE  FreshInv'
  <2>1. FreshCall(c) /\ pc[c] \in {"send", "await"}
    BY <1>b, <1>8 DEF Send, Receive, SendFails, ReceiveFails, ReceiveTimesOut
  <2>2. sess \in Conns /\ srv[sess] # "none"
    BY <2>1 DEF SessionInv
  <2>3. /\ UNCHANGED <<srv, cur>>
        /\ closed' = closed \/ closed' = [closed EXCEPT ![sess] = TRUE]
        /\ \A j \in Conns \ {sess} : up'[j] = up[j] /\ down'[j] = down[j]
    BY <1>8 DEF Send, Receive, SendFails, ReceiveFails, ReceiveTimesOut, Failed, daemon
  <2>4. \/ UNCHANGED retried /\ Goto(c, "await")
        \/ UNCHANGED retried /\ Goto(c, "done")
        \/ ~retried[c] /\ retried' = [retried EXCEPT ![c] = TRUE] /\ Goto(c, "dial")
    BY <1>8 DEF Send, Receive, SendFails, ReceiveFails, ReceiveTimesOut, Failed, Return
  <2>5. FreshCall(c)'
    BY <2>1, <2>3, <2>4 DEF FreshCall, Dialed, OneShot
  <2>6. \A d \in Calls \ {c} : pc[d] \notin Holding
    BY <2>1 DEF LockInv, Holding
  <2>7. \A d \in Calls \ {c} : pc'[d] = pc[d] /\ retried'[d] = retried[d]
    BY <2>4
  <2>8. QED BY <2>2, <2>3, <2>5, <2>6, <2>7, <1>3
<1>9. ASSUME NEW c \in Calls, Receive1(c) \/ Receive1Fails(c) PROVE FreshInv'
  <2>1. FreshCall(c) /\ pc[c] = "await1"
    BY <1>b, <1>9 DEF Receive1, Receive1Fails
  <2>2. OneShot(c) \in Conns /\ srv[OneShot(c)] # "none" /\ OneShot(c)[1] = c
    BY <2>1 DEF FreshCall, OneShot
  <2>3. /\ UNCHANGED <<srv, cur, retried, sess>>
        /\ closed' = [closed EXCEPT ![OneShot(c)] = TRUE]
        /\ \A j \in Conns \ {OneShot(c)} : up'[j] = up[j] /\ down'[j] = down[j]
        /\ Goto(c, "done")
    BY <1>9 DEF Receive1, Receive1Fails, Answer1, daemon
  <2>4. FreshCall(c)'
    BY <2>1, <2>3 DEF FreshCall, Dialed, OneShot
  <2>5. OneShot(c) # sess
    BY <2>2 DEF SessionInv, OneShot
  <2>6. \A d \in Calls \ {c} : pc'[d] = pc[d] /\ retried'[d] = retried[d]
    BY <2>3
  <2>7. QED BY <2>2, <2>3, <2>4, <2>5, <2>6, <1>3
<1>10. QED
  BY <1>1, <1>2, <1>4, <1>5, <1>6, <1>7, <1>8, <1>9 DEF Next, ClientStep

----------------------------------------------------------------------------
(* What the calls observe.                                                 *)

\* Popping the only line of a channel empties it.
LEMMA Short ==
  ASSUME NEW S, NEW s \in Seq(S), Len(s) <= 1, s # <<>>
  PROVE  Tail(s) = <<>>
OBVIOUS

\* Pushing a line to an empty channel leaves that line alone in it.
LEMMA OneLine ==
  ASSUME NEW x
  PROVE  /\ Append(<<>>, x) = <<x>> /\ Len(<<x>>) = 1 /\ Head(<<x>>) = x
         /\ <<x>> # <<>> /\ Len(<<>>) = 0
OBVIOUS

----------------------------------------------------------------------------
(* What happens to one connection.                                         *)

\* A step that leaves one line in one direction leaves a single exchange.
LEMMA SingleLine ==
  ASSUME NEW j \in Conns, cur'[j] = None,
         \/ up'[j] = <<>> /\ (down'[j] = <<>> \/ \E x : down'[j] = <<x>>)
         \/ down'[j] = <<>> /\ (up'[j] = <<>> \/ \E x : up'[j] = <<x>>)
  PROVE  Single(j)'
<1>1. Len(<<>>) <= 1
  OBVIOUS
<1>2. ASSUME NEW x PROVE Len(<<x>>) <= 1
  OBVIOUS
<1>3. Len(up'[j]) <= 1
  BY <1>1, <1>2
<1>4. Len(down'[j]) <= 1
  BY <1>1, <1>2
<1>5. QED BY <1>3, <1>4 DEF Single

\* A step that at most takes something away from a connection.
LEMMA SingleKept ==
  ASSUME NEW j \in Conns, Single(j),
         up'[j] = up[j] \/ up'[j] = <<>>,
         down'[j] = down[j] \/ down'[j] = <<>>,
         cur'[j] = cur[j] \/ cur'[j] = None
  PROVE  Single(j)' /\ (Idle(j) => Idle(j)')
<1>1. Len(<<>>) <= 1
  OBVIOUS
<1>2. QED BY <1>1 DEF Single, Idle

\* What a connection still carries keeps its owner, if the owner still waits.
LEMMA OwnedKept ==
  ASSUME NEW j \in Conns, Owned(j),
         up'[j] = up[j] \/ up'[j] = <<>>,
         down'[j] = down[j] \/ down'[j] = <<>>,
         \/ cur'[j] = cur[j] /\ (srv'[j] = srv[j] \/ {srv[j], srv'[j]} \cap {"exec", "ran"} = {})
         \/ cur'[j] = None /\ srv'[j] \notin {"exec", "ran"},
         \A d \in Calls : Owns(j, d) => Owns(j, d)',
         \A d \in Calls : runs[d] > 0 => runs'[d] > 0
  PROVE  Owned(j)'
<1>1. \A d : Owns(j, d) => Owns(j, d)' /\ d \in Calls
  BY DEF Owns
<1>2. up'[j] # <<>> /\ Head(up'[j]).type = "EXEJ" => Owns(j, Head(up[j]).call)'
  BY <1>1 DEF Owned, Owns
<1>3. down'[j] # <<>> /\ Head(down'[j]).type \in {"REPLY", "REFUSED"} =>
        /\ Owns(j, Head(down[j]).call)'
        /\ Head(down'[j]).type = "REPLY" => runs'[Head(down'[j]).call] > 0
  BY <1>1 DEF Owned, Owns
<1>4. cur'[j] # None <=> srv'[j] \in {"exec", "ran"}
  BY DEF Owned
<1>5. cur'[j] # None => Owns(j, cur[j])'
  BY <1>1, <1>4 DEF Owned, Owns
<1>6. srv'[j] = "ran" => runs'[cur'[j]] > 0
  BY <1>1, <1>4 DEF Owned
<1>7. QED BY <1>2, <1>3, <1>4, <1>5, <1>6 DEF Owned

\* Owning depends on the client alone.
LEMMA OwnsKept ==
  ASSUME UNCHANGED <<pc, sess, closed>>, NEW j, NEW d
  PROVE  Owns(j, d)' <=> Owns(j, d)
BY DEF Owns

----------------------------------------------------------------------------
(* Steps of the daemon.                                                    *)

Answers(k) == Single(k) /\ Owned(k)

\* A step of the handler of k keeps what k carries single and owned.
LEMMA DaemonAnswers ==
  ASSUME TypeOK, NEW k \in Conns, Answers(k), DaemonStep(k)
  PROVE  Answers(k)' /\ (Idle(k) => Idle(k)')
<1> USE DEF TypeOK
<1>0. /\ up[k] \in Seq(UpLines) /\ down[k] \in Seq(DownLines)
      /\ up[k] # <<>> => Tail(up[k]) = <<>> /\ Head(up[k]) \in UpLines
      /\ Single(k) /\ Owned(k) /\ None \notin Calls
      /\ \A d \in Calls : runs[d] \in Nat
  <2>1. up[k] \in Seq(UpLines) /\ down[k] \in Seq(DownLines)
    OBVIOUS
  <2>2. up[k] # <<>> => Tail(up[k]) = <<>>
    BY <2>1, Short DEF Answers, Single
  <2>3. up[k] # <<>> => Head(up[k]) \in UpLines
    BY <2>1, SeqTypes
  <2>4. QED BY <2>1, <2>2, <2>3, ConnTypes DEF Answers
<1>1. \A d : Owns(k, d)' <=> Owns(k, d)
  BY OwnsKept DEF DaemonStep, TakeMux, PeekExpires, ShellEchoes, TakeCommand, Refuse,
                  Execute, Reply, IdleClose, Hangup, wires, client
\* The line of a shell or of the greeting belongs to nobody.
<1>2. CASE TakeMux(k) \/ ShellEchoes(k)
  <2>1. up[k] # <<>> /\ up'[k] = <<>> /\ cur'[k] = cur[k] /\ runs' = runs
    BY <1>2, <1>0 DEF TakeMux, ShellEchoes, Pop, daemon
  <2>2. down[k] = <<>> /\ cur[k] = None
    BY <2>1, <1>0 DEF Single
  <2>3. srv'[k] \notin {"exec", "ran"}
    BY <1>2 DEF TakeMux, ShellEchoes, daemon
  <2>4. \/ down'[k] = <<>>
        \/ \E t \in {"MUX_OK", "LINE"} : down'[k] = <<Line(t, None)>>
    BY <1>2, <2>2, OneLine DEF TakeMux, ShellEchoes, Deliver
  <2>5. Single(k)'
    BY <2>1, <2>2, <2>4, SingleLine
  <2>6. Owned(k)'
    BY <2>1, <2>2, <2>3, <2>4, OneLine DEF Owned, Line
  <2>7. QED BY <2>1, <2>5, <2>6 DEF Answers, Idle
<1>3. CASE TakeCommand(k)
  <2>1. /\ up[k] # <<>> /\ up'[k] = <<>> /\ down' = down /\ runs' = runs
        /\ Head(up[k]).type = "EXEJ"
        /\ cur'[k] = Head(up[k]).call /\ srv'[k] = "exec"
    BY <1>3, <1>0 DEF TakeCommand, HasCommand, Pop
  <2>2. down[k] = <<>> /\ Owns(k, cur'[k])
    BY <2>1, <1>0 DEF Single, Owned
  <2>3. cur'[k] # None
    BY <2>2, <1>0 DEF Owns
  <2>4. QED BY <2>1, <2>2, <2>3, <1>1, OneLine DEF Answers, Single, Owned, Idle
<1>4. CASE Refuse(k)
  <2>1. /\ up[k] # <<>> /\ up'[k] = <<>> /\ cur' = cur /\ runs' = runs
        /\ Head(up[k]).type = "EXEJ" /\ srv'[k] \notin {"exec", "ran"}
    BY <1>4, <1>0 DEF Refuse, HasCommand, Pop, AfterAnswer
  <2>2. down[k] = <<>> /\ cur[k] = None /\ Owns(k, Head(up[k]).call)
    BY <2>1, <1>0 DEF Single, Owned
  <2>3. down'[k] = <<>> \/ down'[k] = <<Line("REFUSED", Head(up[k]).call)>>
    BY <1>4, <2>2, OneLine DEF Refuse, Deliver
  <2>4. Single(k)'
    BY <2>1, <2>2, <2>3, SingleLine
  <2>5. Owned(k)'
    BY <2>1, <2>2, <2>3, <1>1, OneLine DEF Owned, Line
  <2>6. QED BY <2>1, <2>4, <2>5 DEF Answers, Idle
<1>5. CASE Execute(k)
  <2>1. /\ up' = up /\ down' = down /\ cur' = cur /\ srv[k] = "exec" /\ srv'[k] = "ran"
        /\ cur[k] # None
    BY <1>5, <1>0 DEF Execute, wires, Owned
  <2>2. cur[k] \in Calls
    BY <2>1, <1>0 DEF Owned, Owns
  <2>3. runs'[cur[k]] > 0 /\ \A d \in Calls : runs[d] > 0 => runs'[d] > 0
    BY <1>5, <2>2, <1>0 DEF Execute
  <2>4. Single(k)' /\ (Idle(k) => Idle(k)')
    BY <2>1, <1>0 DEF Single, Idle
  <2>5. \A d : Owns(k, d) => d \in Calls
    BY DEF Owns
  <2>6. Owned(k)'
    BY <2>1, <2>3, <2>5, <1>0, <1>1 DEF Owned
  <2>7. QED BY <2>4, <2>6 DEF Answers
<1>6. CASE Reply(k)
  <2>1. /\ up' = up /\ cur[k] # None /\ cur'[k] = None /\ runs' = runs
        /\ srv[k] = "ran" /\ srv'[k] \notin {"exec", "ran"}
    BY <1>6, <1>0 DEF Reply, Owned, AfterAnswer
  <2>2. up[k] = <<>> /\ down[k] = <<>> /\ Owns(k, cur[k]) /\ runs[cur[k]] > 0
    BY <2>1, <1>0 DEF Single, Owned
  <2>3. down'[k] = <<>> \/ down'[k] = <<Line("REPLY", cur[k])>>
    BY <1>6, <2>2, OneLine DEF Reply, Deliver
  <2>4. Single(k)'
    BY <2>1, <2>2, <2>3, SingleLine
  <2>5. Owned(k)'
    BY <2>1, <2>2, <2>3, <1>1, OneLine DEF Owned, Line
  <2>6. QED BY <2>1, <2>4, <2>5 DEF Answers, Idle
<1>7. CASE PeekExpires(k) \/ IdleClose(k) \/ Hangup(k)
  <2>1. /\ up'[k] = up[k] \/ up'[k] = <<>>
        /\ down' = down /\ cur' = cur /\ runs' = runs
        /\ {srv[k], srv'[k]} \cap {"exec", "ran"} = {}
    BY <1>7 DEF PeekExpires, IdleClose, Hangup, wires
  <2>2. Single(k)' /\ (Idle(k) => Idle(k)')
    BY <2>1, <1>0, SingleKept
  <2>3. Owned(k)'
    BY <2>1, <1>0, <1>1, OwnedKept
  <2>4. QED BY <2>2, <2>3 DEF Answers
<1>8. QED
  BY <1>2, <1>3, <1>4, <1>5, <1>6, <1>7 DEF DaemonStep

----------------------------------------------------------------------------
(* The invariant over all connections.                                     *)

AnswerInv == \A j \in Conns : Answers(j)
IdleInv == sess # None => Idle(sess) \/ \E c \in Calls : pc[c] = "await"

\* LoadInv and OwnerInv, regrouped by connection.
LEMMA InvParts == LoadInv /\ OwnerInv <=> AnswerInv /\ IdleInv
BY DEF LoadInv, OwnerInv, AnswerInv, IdleInv, Answers

\* Every step of the daemon keeps the exchanges single and owned.
LEMMA DaemonStepAnswers ==
  ASSUME TypeOK, AnswerInv, IdleInv, NEW k \in Conns, DaemonStep(k)
  PROVE  AnswerInv' /\ IdleInv'
<1> USE DEF TypeOK
<1>1. Answers(k)' /\ (Idle(k) => Idle(k)')
  BY DaemonAnswers DEF AnswerInv
<1>2. UNCHANGED <<pc, sess, closed>>
  BY DEF DaemonStep, TakeMux, PeekExpires, ShellEchoes, TakeCommand, Refuse, Execute,
         Reply, IdleClose, Hangup, wires, client
<1>3. \A d \in Calls : runs[d] > 0 => runs'[d] > 0
  <2>1. CASE Execute(k)
    BY <2>1 DEF Execute
  <2>2. CASE runs' = runs
    BY <2>2
  <2>3. QED
    BY <2>1, <2>2 DEF DaemonStep, TakeMux, PeekExpires, ShellEchoes, TakeCommand, Refuse,
                      Reply, IdleClose, Hangup, daemon
<1>4. ASSUME NEW j \in Conns \ {k} PROVE Answers(j)' /\ (Idle(j) => Idle(j)')
  <2>1. up'[j] = up[j] /\ down'[j] = down[j] /\ cur'[j] = cur[j] /\ srv'[j] = srv[j]
    BY DEF DaemonStep, TakeMux, PeekExpires, ShellEchoes, TakeCommand, Refuse, Execute,
           Reply, IdleClose, Hangup, wires, daemon, Pop, Deliver
  <2>2. Single(j) /\ Owned(j)
    BY DEF AnswerInv, Answers
  <2>3. Single(j)' /\ (Idle(j) => Idle(j)')
    BY <2>1, <2>2, SingleKept
  <2>4. \A d \in Calls : Owns(j, d) => Owns(j, d)'
    BY <1>2, OwnsKept
  <2>5. Owned(j)'
    BY <2>1, <2>2, <2>4, <1>3, OwnedKept
  <2>6. QED BY <2>3, <2>5 DEF Answers
<1>5. AnswerInv'
  BY <1>1, <1>4 DEF AnswerInv
<1>6. IdleInv'
  BY <1>1, <1>2, <1>4 DEF IdleInv
<1>7. QED BY <1>5, <1>6

\* Crashes, restarts and resets only take lines away.
LEMMA FaultAnswers ==
  ASSUME TypeOK, AnswerInv, IdleInv,
         Crash \/ Restart \/ UNCHANGED vars \/ \E k \in Conns : Reset(k)
  PROVE  AnswerInv' /\ IdleInv'
<1> USE DEF TypeOK
<1>1. UNCHANGED <<pc, sess, closed, runs>>
  BY DEF Crash, Restart, Reset, vars, client, daemon, wires
<1>2. ASSUME NEW j \in Conns PROVE Answers(j)' /\ (Idle(j) => Idle(j)')
  <2>1. /\ up'[j] = up[j] \/ up'[j] = <<>>
        /\ down'[j] = down[j] \/ down'[j] = <<>>
        /\ \/ cur'[j] = cur[j] /\ srv'[j] = srv[j]
           \/ cur'[j] = None /\ srv'[j] \in {"none", "gone"}
    BY DEF Crash, Restart, Reset, vars, daemon, wires
  <2>2. Single(j) /\ Owned(j)
    BY DEF AnswerInv, Answers
  <2>3. Single(j)' /\ (Idle(j) => Idle(j)')
    BY <2>1, <2>2, SingleKept
  <2>4. \A d \in Calls : Owns(j, d) => Owns(j, d)'
    BY <1>1, OwnsKept
  <2>5. Owned(j)'
    BY <2>1, <2>2, <2>4, <1>1, OwnedKept
  <2>6. QED BY <2>3, <2>5 DEF Answers
<1>3. QED BY <1>1, <1>2 DEF AnswerInv, IdleInv

----------------------------------------------------------------------------
(* Steps of the client.                                                    *)

\* A step of c that adds nothing to any connection, after which whatever c
\* owned is either gone from its connection or closed.
LEMMA ClientAnswers ==
  ASSUME TypeOK, AnswerInv, NEW c \in Calls, UNCHANGED <<srv, cur, runs>>,
         NEW k \in Conns,
         \A j \in Conns \ {k} : /\ up'[j] = up[j] /\ down'[j] = down[j]
                               /\ \A d \in Calls : Owns(j, d) => Owns(j, d)',
         up'[k] = up[k],
         \/ down'[k] = down[k] /\ closed'[k]
         \/ down[k] # <<>> /\ down'[k] = Tail(down[k])
  PROVE  AnswerInv' /\ (down[k] # <<>> /\ down'[k] = Tail(down[k]) => Idle(k)')
<1> USE DEF TypeOK
<1>1. ASSUME NEW j \in Conns \ {k} PROVE Answers(j)'
  <2>1. Single(j) /\ Owned(j)
    BY DEF AnswerInv, Answers
  <2>2. Single(j)'
    BY <2>1, SingleKept
  <2>3. Owned(j)'
    BY <2>1, OwnedKept
  <2>4. QED BY <2>2, <2>3 DEF Answers
<1>2. Single(k) /\ Owned(k)
  BY DEF AnswerInv, Answers
<1>3. CASE down'[k] = down[k] /\ closed'[k]
  <2>1. Single(k)'
    BY <1>2, <1>3, SingleKept
  <2>2. \A d \in Calls : Owns(k, d) => Owns(k, d)'
    BY <1>3 DEF Owns
  <2>3. Owned(k)'
    BY <1>2, <1>3, <2>2, OwnedKept
  <2>4. down[k] # Tail(down[k]) \/ down[k] = <<>>
    <3>1. ASSUME down[k] # <<>> PROVE down[k] # Tail(down[k])
      BY <3>1, <1>2, Short DEF Single
    <3>2. QED BY <3>1
  <2>5. QED BY <2>1, <2>3, <2>4, <1>1, <1>3 DEF AnswerInv, Answers
<1>4. CASE down[k] # <<>> /\ down'[k] = Tail(down[k])
  <2>1. down'[k] = <<>> /\ up[k] = <<>> /\ cur[k] = None
    BY <1>2, <1>4, Short DEF Single
  <2>2. Single(k)' /\ Idle(k)'
    BY <2>1, SingleLine DEF Idle
  <2>3. Owned(k)'
    BY <2>1, <1>2 DEF Owned
  <2>4. QED BY <2>2, <2>3, <1>1 DEF AnswerInv, Answers
<1>5. QED BY <1>3, <1>4

\* A step of c leaves what the other calls own with them.
LEMMA OwnsOther ==
  ASSUME TypeOK, LockInv, NEW c \in Calls, NEW j,
         \A d \in Calls \ {c} : pc'[d] = pc[d],
         closed[j] => closed'[j],
         sess' = sess \/ pc[c] \in Holding
  PROVE  \A d \in Calls \ {c} : Owns(j, d) => Owns(j, d)'
<1>1. SUFFICES ASSUME NEW d \in Calls \ {c}, Owns(j, d) PROVE Owns(j, d)'
  OBVIOUS
<1>2. CASE pc[d] = "await"
  <2>1. pc[c] \notin Holding
    BY <1>2 DEF LockInv, Holding
  <2>2. QED BY <1>1, <1>2, <2>1 DEF Owns
<1>3. CASE pc[d] # "await"
  BY <1>1, <1>3 DEF Owns
<1>4. QED BY <1>2, <1>3

\* A call owns nothing but closed connections unless it waits.
LEMMA OwnsNothing ==
  ASSUME NEW c \in Calls, NEW j, pc[c] \notin {"await", "await1"},
         closed[j] => closed'[j]
  PROVE  Owns(j, c) => Owns(j, c)'
BY DEF Owns

\* Only connection k changes, and it carries at most the line of c.
LEMMA DialedAnswers ==
  ASSUME TypeOK, AnswerInv, NEW k \in Conns, Idle(k),
         UNCHANGED <<cur, runs, down>>,
         \A j \in Conns \ {k} : up'[j] = up[j] /\ srv'[j] = srv[j],
         srv'[k] \notin {"exec", "ran"},
         NEW x, up'[k] = <<x>> \/ up'[k] = <<>>,
         x.type = "EXEJ" => Owns(k, x.call)',
         \A j \in Conns, d \in Calls : Owns(j, d) => Owns(j, d)'
  PROVE  AnswerInv'
<1> USE DEF TypeOK
<1>1. ASSUME NEW j \in Conns \ {k} PROVE Answers(j)'
  <2>1. Single(j) /\ Owned(j)
    BY DEF AnswerInv, Answers
  <2>2. Single(j)'
    BY <2>1, SingleKept
  <2>3. Owned(j)'
    BY <2>1, OwnedKept
  <2>4. QED BY <2>2, <2>3 DEF Answers
<1>2. Single(k)'
  BY SingleLine DEF Idle
<1>3. up'[k] # <<>> => Head(up'[k]) = x
  BY OneLine
<1>4. Owned(k)'
  BY <1>3 DEF Owned, Idle
<1>5. QED BY <1>1, <1>2, <1>4 DEF AnswerInv, Answers

\* Every step of a call keeps the exchanges single and owned.
LEMMA ClientStepAnswers ==
  ASSUME TypeOK, LockInv, SessionInv, FreshInv, AnswerInv, IdleInv,
         NEW c \in Calls, Invoke(c) \/ ClientStep(c)
  PROVE  AnswerInv' /\ IdleInv'
<1> USE ConnTypes DEF TypeOK, Goto
<1>1. CASE Invoke(c) \/ Lock(c) \/ DialFails(c) \/ Dial1Fails(c)
  <2>1. /\ UNCHANGED <<srv, cur, up, down, closed, runs, sess>>
        /\ \A d \in Calls \ {c} : pc'[d] = pc[d]
        /\ pc[c] \notin {"await", "await1"}
    BY <1>1 DEF Invoke, Lock, DialFails, Dial1Fails, Return, Answer1, daemon, wires
  <2>2. \A j \in Conns, d \in Calls : Owns(j, d) => Owns(j, d)'
    BY <2>1, OwnsOther, OwnsNothing
  <2>3. ASSUME NEW j \in Conns PROVE Answers(j)' /\ (Idle(j) => Idle(j)')
    <3>1. Single(j) /\ Owned(j)
      BY DEF AnswerInv, Answers
    <3>2. Single(j)' /\ (Idle(j) => Idle(j)')
      BY <2>1, <3>1, SingleKept
    <3>3. Owned(j)'
      BY <2>1, <2>2, <3>1, OwnedKept
    <3>4. QED BY <3>2, <3>3 DEF Answers
  <2>4. IdleInv'
    BY <2>1, <2>3 DEF IdleInv
  <2>5. QED BY <2>3, <2>4 DEF AnswerInv
<1>2. CASE Dial(c)
  <2>1. Dialed(c) \in Conns /\ Idle(Dialed(c)) /\ sess = None /\ pc[c] = "dial"
    BY <1>2 DEF Dial, FreshInv, Idle, SessionInv
  <2>2. \A j \in Conns, d \in Calls : Owns(j, d) => Owns(j, d)'
    BY <1>2, <2>1, OwnsOther, OwnsNothing DEF Dial
  <2>3. /\ UNCHANGED <<cur, runs, down, sess>>
        /\ \A j \in Conns \ {Dialed(c)} : up'[j] = up[j] /\ srv'[j] = srv[j]
        /\ srv'[Dialed(c)] = "verb" /\ up'[Dialed(c)] = <<Line("MUX", None)>>
    BY <1>2, <2>1 DEF Dial
  <2>4. AnswerInv'
    BY <2>1, <2>2, <2>3, DialedAnswers DEF Line
  <2>5. QED BY <2>1, <2>3, <2>4 DEF IdleInv
<1>3. CASE Dial1(c)
  <2>0. OneShot(c) \in Conns /\ pc[c] = "dial1" /\ OneShot(c) # sess
    BY <1>3 DEF Dial1, SessionInv, OneShot
  <2>1. Idle(OneShot(c))
    BY <2>0 DEF FreshInv, Idle
  <2>2. \A j \in Conns, d \in Calls : Owns(j, d) => Owns(j, d)'
    BY <1>3, <2>0, <2>1, OwnsOther, OwnsNothing DEF Dial1
  <2>3. /\ UNCHANGED <<cur, runs, down, sess>>
        /\ \A j \in Conns \ {OneShot(c)} : up'[j] = up[j] /\ srv'[j] = srv[j]
        /\ srv'[OneShot(c)] = "verb" /\ up'[OneShot(c)] = <<Line("EXEJ", c)>>
        /\ pc' = [pc EXCEPT ![c] = "await1"]
    BY <1>3, <2>1 DEF Dial1
  <2>4. Owns(OneShot(c), c)'
    BY <2>3 DEF Owns, OneShot
  <2>5. AnswerInv'
    BY <2>0, <2>1, <2>2, <2>3, <2>4, DialedAnswers DEF Line
  <2>6. IdleInv'
    BY <2>0, <2>1, <2>3 DEF IdleInv, Idle
  <2>7. QED BY <2>5, <2>6
<1>4. CASE Send(c)
  <2>0. PICK k \in Conns : k = sess
    BY <1>4 DEF Send, SessionInv
  <2>1. k = sess /\ pc[c] = "send" /\ \A d \in Calls : pc[d] # "await"
    BY <1>4, <2>0 DEF Send, LockInv, Holding
  <2>2. Idle(k)
    BY <2>1 DEF IdleInv
  <2>3. \A j \in Conns, d \in Calls : Owns(j, d) => Owns(j, d)'
    BY <1>4, <2>1, OwnsOther, OwnsNothing DEF Send
  <2>4. /\ UNCHANGED <<cur, runs, down, srv, sess>>
        /\ \A j \in Conns \ {k} : up'[j] = up[j]
        /\ up'[k] = <<>> \/ up'[k] = <<Line("EXEJ", c)>>
        /\ pc' = [pc EXCEPT ![c] = "await"]
    BY <1>4, <2>1, <2>2, OneLine DEF Send, Idle, daemon
  <2>5. Owns(k, c)'
    BY <2>1, <2>4 DEF Owns
  <2>6. srv'[k] \notin {"exec", "ran"}
    BY <2>1, <2>2, <2>4 DEF AnswerInv, Answers, Owned, Idle
  <2>7. AnswerInv'
    <3>1. PICK x : x = Line("EXEJ", c)
      OBVIOUS
    <3>2. Owns(k, x.call)'
      BY <3>1, <2>5 DEF Line
    <3>3. up'[k] = <<x>> \/ up'[k] = <<>>
      BY <3>1, <2>4
    <3>4. \A j \in Conns \ {k} : up'[j] = up[j] /\ srv'[j] = srv[j]
      BY <2>4
    <3>5. QED BY <3>2, <3>3, <3>4, <2>2, <2>3, <2>4, <2>6, DialedAnswers
  <2>8. QED BY <2>1, <2>4, <2>7 DEF IdleInv
<1>5. CASE Established(c) \/ NotMux(c) \/ ProbeFails(c)
  <2>0. PICK k \in Conns : k = Dialed(c)
    BY ConnTypes
  <2>1. pc[c] = "probe" /\ k = Dialed(c) /\ sess = None
    BY <1>5, <2>0 DEF Established, NotMux, ProbeFails, SessionInv
  <2>2. /\ UNCHANGED <<srv, cur, runs, up>>
        /\ \A d \in Calls \ {c} : pc'[d] = pc[d]
        /\ \A j \in Conns \ {k} : down'[j] = down[j]
        /\ \A j \in Conns : closed[j] => closed'[j]
        /\ \/ down'[k] = down[k] /\ closed'[k] /\ sess' = None
           \/ down[k] # <<>> /\ down'[k] = Tail(down[k]) /\ sess' \in {None, k}
    BY <1>5, <2>1 DEF Established, NotMux, ProbeFails, GiveUpMux, Return, daemon
  <2>3. \A j \in Conns, d \in Calls : Owns(j, d) => Owns(j, d)'
    BY <2>1, <2>2, OwnsOther, OwnsNothing DEF Holding
  <2>4. AnswerInv' /\ (down[k] # <<>> /\ down'[k] = Tail(down[k]) => Idle(k)')
    BY <2>1, <2>2, <2>3, ClientAnswers
  <2>5. QED BY <2>2, <2>4 DEF IdleInv
<1>6. CASE Receive(c) \/ SendFails(c) \/ ReceiveFails(c) \/ ReceiveTimesOut(c)
  <2>0. PICK k \in Conns : k = sess
    BY <1>6 DEF Receive, SendFails, ReceiveFails, ReceiveTimesOut, SessionInv
  <2>1. pc[c] \in {"send", "await"} /\ k = sess
    BY <1>6, <2>0 DEF Receive, SendFails, ReceiveFails, ReceiveTimesOut
  <2>2. /\ UNCHANGED <<srv, cur, runs, up>>
        /\ \A d \in Calls \ {c} : pc'[d] = pc[d]
        /\ \A j \in Conns \ {k} : down'[j] = down[j]
        /\ \A j \in Conns : closed[j] => closed'[j]
        /\ \/ down'[k] = down[k] /\ closed'[k] /\ sess' = None
           \/ down[k] # <<>> /\ down'[k] = Tail(down[k]) /\ sess' \in {None, k}
    BY <1>6, <2>1 DEF Receive, SendFails, ReceiveFails, ReceiveTimesOut, Failed, Return, daemon
  <2>3. ASSUME NEW j \in Conns \ {k} PROVE \A d \in Calls : Owns(j, d) => Owns(j, d)'
    <3>1. \A d \in Calls \ {c} : Owns(j, d) => Owns(j, d)'
      BY <2>1, <2>2, OwnsOther DEF Holding
    <3>2. Owns(j, c) => Owns(j, c)'
      BY <2>1, <2>2 DEF Owns
    <3>3. QED BY <3>1, <3>2
  <2>4. AnswerInv' /\ (down[k] # <<>> /\ down'[k] = Tail(down[k]) => Idle(k)')
    BY <2>1, <2>2, <2>3, ClientAnswers
  <2>5. sess' # None => sess' = k /\ Idle(k)'
    BY <2>1, <2>2, <2>4
  <2>6. sess' # None => Idle(sess)'
    BY <2>5 DEF Idle
  <2>7. QED BY <2>4, <2>6 DEF IdleInv
<1>7. CASE Receive1(c) \/ Receive1Fails(c)
  <2> DEFINE k == OneShot(c)
  <2>1. pc[c] = "await1" /\ k \in Conns /\ k # sess
    BY <1>7 DEF Receive1, Receive1Fails, SessionInv, OneShot
  <2>2. /\ UNCHANGED <<srv, cur, runs, up, sess>>
        /\ \A d \in Calls \ {c} : pc'[d] = pc[d]
        /\ \A j \in Conns \ {k} : down'[j] = down[j]
        /\ \A j \in Conns : closed[j] => closed'[j]
        /\ \/ down'[k] = down[k] /\ closed'[k]
           \/ down[k] # <<>> /\ down'[k] = Tail(down[k])
    BY <1>7, <2>1 DEF Receive1, Receive1Fails, Answer1, daemon
  <2>3. ASSUME NEW j \in Conns \ {k} PROVE \A d \in Calls : Owns(j, d) => Owns(j, d)'
    <3>1. \A d \in Calls \ {c} : Owns(j, d) => Owns(j, d)'
      BY <2>1, <2>2, OwnsOther
    <3>2. Owns(j, c) => Owns(j, c)'
      BY <2>1, <2>2 DEF Owns
    <3>3. QED BY <3>1, <3>2
  <2>4. AnswerInv'
    BY <2>1, <2>2, <2>3, ClientAnswers
  <2>5. IdleInv'
    BY <2>1, <2>2 DEF IdleInv, Idle
  <2>6. QED BY <2>4, <2>5
<1>8. QED
  BY <1>1, <1>2, <1>3, <1>4, <1>5, <1>6, <1>7 DEF ClientStep

----------------------------------------------------------------------------
(* The answers.                                                            *)

\* What waits on an open connection is the answer of the call that waits.
LEMMA AnswerStep ==
  ASSUME TypeOK, LockInv, SessionInv, FreshInv, AnswerInv, AnswersMatch, [Next]_vars
  PROVE  AnswersMatch'
<1>t. /\ pc \in [Calls -> {"idle", "lock", "dial1", "await1", "done"} \cup Holding]
      /\ sess \in Conns \cup {None}
      /\ result \in [Calls -> Outcomes \cup {None}]
      /\ runs \in [Calls -> Nat]
  BY DEF TypeOK
<1> USE <1>t, ConnTypes DEF AnswersMatch
<1>1. ASSUME NEW c \in Calls, NEW k \in Conns, ~closed[k], down[k] # <<>>,
             Head(down[k]).type \in {"REPLY", "REFUSED"},
             \/ pc[c] = "await" /\ k = sess
             \/ pc[c] = "await1" /\ k = OneShot(c)
      PROVE  /\ Head(down[k]).call = c
             /\ Head(down[k]).type = "REPLY" => runs[c] > 0
  <2> DEFINE d == Head(down[k]).call
  <2>1. Owns(k, d) /\ (Head(down[k]).type = "REPLY" => runs[d] > 0)
    BY <1>1 DEF AnswerInv, Answers, Owned
  <2>2. CASE pc[d] = "await" /\ k = sess
    <3>1. sess[2] # "oneshot"
      BY <2>2 DEF SessionInv
    <3>2. pc[c] = "await"
      BY <1>1, <2>2, <3>1 DEF OneShot
    <3>3. d = c
      BY <2>1, <2>2, <3>2 DEF LockInv, Holding, Owns
    <3>4. QED BY <2>1, <3>3
  <2>3. CASE pc[d] = "await1" /\ k = OneShot(d)
    <3>1. k # sess
      BY <2>3, <1>1 DEF SessionInv, OneShot
    <3>2. d = c
      BY <1>1, <2>3, <3>1 DEF OneShot
    <3>3. QED BY <2>1, <3>2
  <2>4. QED BY <1>1, <2>1, <2>2, <2>3 DEF Owns
<1>2. CASE UNCHANGED <<result, runs>>
  BY <1>2
<1>3. ASSUME NEW k \in Conns, Execute(k) PROVE AnswersMatch'
  <2>1. result' = result /\ \A d \in Calls : runs[d] > 0 => runs'[d] > 0
    BY <1>3 DEF Execute, client
  <2>2. QED BY <2>1
<1>4. ASSUME NEW c \in Calls, runs' = runs,
             result' = result \/ result' = [result EXCEPT ![c] = Line("error", c)]
      PROVE  AnswersMatch'
  BY <1>4 DEF Line
<1>5. ASSUME NEW c \in Calls, Receive(c) PROVE AnswersMatch'
  <2>1. sess \in Conns /\ ~closed[sess] /\ pc[c] = "await" /\ down[sess] # <<>>
    BY <1>5 DEF Receive, SessionInv
  <2>2. CASE Failed(c, "bad")
    BY <1>5, <2>2, <1>4 DEF Receive, Failed, Return, daemon
  <2>3. CASE /\ Head(down[sess]).type \in {"REPLY", "REFUSED"}
             /\ result' = [result EXCEPT ![c] = Head(down[sess])]
    <3>1. /\ Head(down[sess]).call = c
          /\ Head(down[sess]).type = "REPLY" => runs[c] > 0
      BY <2>1, <2>3, <1>1
    <3>2. runs' = runs
      BY <1>5 DEF Receive, daemon
    <3>3. QED BY <2>3, <3>1, <3>2
  <2>4. QED BY <1>5, <2>2, <2>3 DEF Receive
<1>6. ASSUME NEW c \in Calls, Receive1(c) PROVE AnswersMatch'
  <2>1. /\ OneShot(c) \in Conns /\ ~closed[OneShot(c)] /\ pc[c] = "await1"
        /\ down[OneShot(c)] # <<>>
    BY <1>6 DEF Receive1, FreshInv
  <2>2. runs' = runs
    BY <1>6 DEF Receive1, daemon
  <2>3. CASE Head(down[OneShot(c)]).type \in {"REPLY", "REFUSED"}
    <3>1. /\ Head(down[OneShot(c)]).call = c
          /\ Head(down[OneShot(c)]).type = "REPLY" => runs[c] > 0
      BY <2>1, <2>3, <1>1
    <3>2. result' = [result EXCEPT ![c] = Head(down[OneShot(c)])]
      BY <1>6, <2>3 DEF Receive1
    <3>3. QED BY <2>2, <3>1, <3>2
  <2>4. CASE Head(down[OneShot(c)]).type \notin {"REPLY", "REFUSED"}
    BY <1>6, <2>2, <2>4, <1>4 DEF Receive1
  <2>5. QED BY <2>3, <2>4
<1>7. ASSUME NEW c \in Calls, Invoke(c) \/ ClientStep(c), ~Receive(c), ~Receive1(c)
      PROVE  AnswersMatch'
  <2>1. runs' = runs
    BY <1>7 DEF ClientStep, Invoke, Lock, Dial, DialFails, Established, NotMux, ProbeFails,
                GiveUpMux, Send, SendFails, ReceiveFails, ReceiveTimesOut, Dial1,
                Dial1Fails, Receive1Fails, Answer1, daemon
  <2>2. result' = result \/ result' = [result EXCEPT ![c] = Line("error", c)]
    BY <1>7 DEF ClientStep, Invoke, Lock, Dial, DialFails, Established, NotMux, ProbeFails,
                GiveUpMux, Send, SendFails, ReceiveFails, ReceiveTimesOut, Dial1,
                Dial1Fails, Receive1Fails, Answer1, Failed, Return
  <2>3. QED BY <2>1, <2>2, <1>4
<1>8. ASSUME \/ \E k \in Conns : (DaemonStep(k) /\ ~Execute(k)) \/ Reset(k)
             \/ Crash \/ Restart \/ UNCHANGED vars
      PROVE  UNCHANGED <<result, runs>>
  BY <1>8 DEF DaemonStep, TakeMux, PeekExpires, ShellEchoes, TakeCommand, Refuse, Reply,
              IdleClose, Hangup, Reset, Crash, Restart, vars, client, daemon
<1>9. QED BY <1>2, <1>3, <1>5, <1>6, <1>7, <1>8 DEF Next

Inv == TypeOK /\ LockInv /\ SessionInv /\ FreshInv /\ AnswerInv /\ IdleInv /\ AnswersMatch

\* The inductive invariant holds initially ...
LEMMA InvInit == Init => Inv
<1> SUFFICES ASSUME Init PROVE Inv
  OBVIOUS
<1>1. TypeOK /\ LockInv
  BY BaseInit
<1>2. SessionInv /\ FreshInv /\ IdleInv /\ AnswersMatch
  BY ConnTypes DEF Init, SessionInv, FreshInv, IdleInv, AnswersMatch, Dialed, OneShot,
                   Conns, Stages
<1>3. AnswerInv
  BY OneLine DEF Init, AnswerInv, Answers, Single, Owned
<1>4. QED BY <1>1, <1>2, <1>3 DEF Inv

\* ... every step keeps it ...
LEMMA InvStep == Inv /\ [Next]_vars => Inv'
<1> SUFFICES ASSUME Inv, [Next]_vars PROVE Inv'
  OBVIOUS
<1> USE DEF Inv
<1>1. SessionUsed
  BY DEF SessionUsed, SessionInv
<1>2. TypeOK' /\ LockInv' /\ SessionInv' /\ FreshInv' /\ AnswersMatch'
  BY <1>1, TypeStep, LockStep, SessionStep, FreshStep, AnswerStep
<1>3. AnswerInv' /\ IdleInv'
  BY DaemonStepAnswers, FaultAnswers, ClientStepAnswers DEF Next
<1>4. QED BY <1>2, <1>3

\* ... and so it holds in every state.
LEMMA Invariance == Spec => []Inv
BY InvInit, InvStep, PTL DEF Spec

\* Every answer a call returns is its own, and an execution envelope is
\* returned only for a command that the daemon ran (roundtrip, execViaMux and
\* the one-shot path of ExecCommandStructuredTimeout).
THEOREM AnswersAreOwn == Spec => []AnswersMatch
BY Invariance, PTL DEF Inv

\* A session whose mutex is free has no command, reply or handshake line left
\* on it and was not closed: the next call starts a fresh exchange.
THEOREM FreeSessionIsClean == Spec => []SessionCleanWhenFree
<1>1. Inv => SessionCleanWhenFree
  BY ConnTypes DEF Inv, SessionCleanWhenFree, IdleInv, LockInv, SessionInv, Holding
<1>2. QED BY Invariance, <1>1, PTL

\* The inductive invariant the runs check is the one that is proved.
THEOREM Inductive == Spec => [](TypeOK /\ IInv)
<1>1. Inv => TypeOK /\ IInv
  BY InvParts DEF Inv, IInv
<1>2. QED BY Invariance, <1>1, PTL

----------------------------------------------------------------------------
(* How often a command runs.                                               *)

\* The command of c will be executed by the handler of k, if that lives on.
Pending(k, c) ==
  \/ up[k] # <<>> /\ Head(up[k]).type = "EXEJ" /\ Head(up[k]).call = c
  \/ srv[k] = "exec" /\ cur[k] = c

Retry(c) == <<c, "retry">>

\* The runs of c there were and those that are pending: of its first line, by
\* whatever connection it went, and of the line of its retry.
Old(c) == \E k \in Conns \ {Retry(c)} : Pending(k, c)
New(c) == Pending(Retry(c), c)
Due(c) == runs[c] + (IF Old(c) THEN 1 ELSE 0) + (IF New(c) THEN 1 ELSE 0)

\* The line of this attempt has not been written yet.
Unsent(c) == pc[c] \in {"idle", "lock", "dial", "probe", "send", "dial1"}

\* Connection k holds the command of c or the answer to it.
Holds(k, c) ==
  \/ Pending(k, c)
  \/ srv[k] = "ran" /\ cur[k] = c
  \/ down[k] # <<>> /\ Head(down[k]).call = c

\* A first line is one, a retry is made only of a session that was reused and,
\* if the first line may still run or has run, only of one that was lost.
RunsOf(c) ==
  /\ \A j, k \in Conns \ {Retry(c)} : Pending(j, c) /\ Pending(k, c) => j = k
  /\ retried[c] => reused[c] /\ pc[c] \notin {"idle", "lock", "dial1", "await1"}
  /\ retried[c] /\ pc[c] = "send" => sess = Retry(c)
  /\ ~retried[c] => Due(c) <= 1
  /\ ~retried[c] /\ Unsent(c) => Due(c) = 0
  /\ retried[c] /\ Unsent(c) => Due(c) <= 1 /\ ~New(c) /\ (Due(c) > 0 => c \in lost)
  /\ Due(c) <= 2 /\ (Due(c) > 1 => c \in lost)
  /\ pc[c] = "await" /\ ~retried[c] /\ c \notin lost /\ Due(c) > 0 =>
       Holds(sess, c) /\ ~cut[sess]

RunsInv == \A c \in Calls : RunsOf(c)

\* What a handler that is gone did not read is not read any more.
GoneInv == \A k \in Conns : srv[k] = "gone" => up[k] = <<>>

\* What is under way is of a call that was made.
MadeInv == \A k \in Conns, c \in Calls : Carries(k, c) => pc[c] # "idle"

\* A channel with at most one line holds its head, or nothing.
LEMMA LineSet ==
  ASSUME NEW S, NEW s \in Seq(S), Len(s) <= 1
  PROVE  /\ s = <<>> => {s[i] : i \in DOMAIN s} = {}
         /\ s # <<>> => {s[i] : i \in DOMAIN s} = {Head(s)}
<1>1. CASE s = <<>>
  BY <1>1
<1>2. CASE s # <<>>
  <2>1. Len(s) = 1
    <3>1. PICK n : n = Len(s)
      OBVIOUS
    <3>2. n \in Nat /\ n # 0
      BY <1>2, <3>1
    <3>3. n <= 1
      BY <3>1
    <3>4. n = 1
      BY <3>2, <3>3
    <3>5. QED BY <3>1, <3>4
  <2>2. DOMAIN s = 1..1
    BY <2>1
  <2>3. Head(s) = s[1]
    BY <1>2
  <2>4. QED BY <1>2, <2>2, <2>3
<1>3. QED BY <1>1, <1>2

\* The calls of the lines of two such channels are those of their heads.
LEMMA CallsAreHeads ==
  ASSUME NEW u \in Seq(UpLines), NEW d \in Seq(DownLines), Len(u) <= 1, Len(d) <= 1, NEW c
  PROVE  (\E m \in {u[i] : i \in DOMAIN u} \cup {d[i] : i \in DOMAIN d} : m.call = c)
           <=> (u # <<>> /\ Head(u).call = c) \/ (d # <<>> /\ Head(d).call = c)
<1>1. PICK U : U = {u[i] : i \in DOMAIN u}
  OBVIOUS
<1>2. PICK D : D = {d[i] : i \in DOMAIN d}
  OBVIOUS
<1>3. (u = <<>> => U = {}) /\ (u # <<>> => U = {Head(u)})
  BY <1>1, LineSet
<1>4. (d = <<>> => D = {}) /\ (d # <<>> => D = {Head(d)})
  BY <1>2, LineSet
<1>5. (\E m \in U \cup D : m.call = c)
        <=> (u # <<>> /\ Head(u).call = c) \/ (d # <<>> /\ Head(d).call = c)
  <2>1. PICK hu, hd : hu = Head(u) /\ hd = Head(d)
    OBVIOUS
  <2>2. /\ \A m : m \in U <=> u # <<>> /\ m = hu
        /\ \A m : m \in D <=> d # <<>> /\ m = hd
    BY <1>3, <1>4, <2>1
  <2>3. QED BY <2>1, <2>2
<1>6. QED BY <1>1, <1>2, <1>5

\* What is under way on k for c, head by head.
HeadsOf(k, c) ==
  \/ cur[k] = c
  \/ up[k] # <<>> /\ Head(up[k]).call = c
  \/ down[k] # <<>> /\ Head(down[k]).call = c

\* What a connection carries is what its handler works on, and the head of
\* either channel: now ...
LEMMA CarriesIs ==
  ASSUME TypeOK, NEW k \in Conns, Single(k), NEW c \in Calls
  PROVE  Carries(k, c) <=> HeadsOf(k, c)
BY CallsAreHeads DEF TypeOK, Single, Carries, LinesOf, HeadsOf

\* ... and after a step.
LEMMA CarriesNext ==
  ASSUME TypeOK', NEW k \in Conns, Single(k)', NEW c \in Calls
  PROVE  Carries(k, c)' <=> HeadsOf(k, c)'
BY CallsAreHeads DEF TypeOK, Single, Carries, LinesOf, HeadsOf

\* Runs and pending runs are counted.
LEMMA DueIs ==
  ASSUME TypeOK, NEW c \in Calls
  PROVE  runs[c] \in Nat /\ Due(c) \in Nat /\ Due(c) >= runs[c]
         /\ (Old(c) \/ New(c) => Due(c) > runs[c])
         /\ (Due(c) = 0 => runs[c] = 0 /\ ~Old(c) /\ ~New(c))
         /\ (~Old(c) /\ ~New(c) => Due(c) = runs[c])
<1>1. runs[c] \in Nat
  BY DEF TypeOK
<1>2. QED BY <1>1 DEF Due

\* A step after which nothing more is pending adds nothing to what is due.
LEMMA DueShrinks ==
  ASSUME TypeOK, NEW c \in Calls, runs'[c] = runs[c],
         \A k \in Conns : Pending(k, c)' => Pending(k, c)
  PROVE  /\ Due(c)' \in Nat /\ Due(c)' <= Due(c) /\ Due(c) \in Nat
         /\ New(c)' => New(c)
         /\ Old(c)' => Old(c)
<1>1. Retry(c) \in Conns
  BY DEF Retry, Conns, Stages
<1>2. New(c)' => New(c)
  BY <1>1 DEF New, Retry
<1>3. Old(c)' => Old(c)
  BY DEF Old, Retry
<1>4. runs[c] \in Nat
  BY DEF TypeOK
<1>5. QED BY <1>2, <1>3, <1>4 DEF Due

\* A call that takes no step, while others, the daemon or the network do.
LEMMA RunsOfKept ==
  ASSUME TypeOK, NEW c \in Calls, RunsOf(c), runs'[c] = runs[c],
         \A k \in Conns : Pending(k, c)' => Pending(k, c),
         pc'[c] = pc[c], retried'[c] = retried[c], reused'[c] = reused[c], lost \subseteq lost',
         pc[c] \in {"send", "await"} => sess' = sess,
         pc[c] = "await" /\ ~retried[c] /\ c \notin lost' /\ Due(c)' > 0
           /\ Holds(sess, c) /\ ~cut[sess] => Holds(sess, c)' /\ ~cut[sess]'
  PROVE  RunsOf(c)'
<1>1. /\ Due(c)' \in Nat /\ Due(c)' <= Due(c) /\ Due(c) \in Nat
      /\ New(c)' => New(c)
  BY DueShrinks
<1>2. \A j, k \in Conns \ {Retry(c)} : Pending(j, c)' /\ Pending(k, c)' => j = k
  BY DEF RunsOf
<1>3. retried'[c] => reused'[c] /\ pc'[c] \notin {"idle", "lock", "dial1", "await1"}
  BY DEF RunsOf
<1>4. retried'[c] /\ pc'[c] = "send" => sess' = Retry(c)
  BY DEF RunsOf
<1>5. Unsent(c)' <=> Unsent(c)
  BY DEF Unsent
<1>6. /\ ~retried'[c] => Due(c)' <= 1
      /\ ~retried'[c] /\ Unsent(c)' => Due(c)' = 0
  BY <1>1, <1>5 DEF RunsOf
<1>7. retried'[c] /\ Unsent(c)' => Due(c)' <= 1 /\ ~New(c)' /\ (Due(c)' > 0 => c \in lost')
  BY <1>1, <1>5 DEF RunsOf
<1>8. Due(c)' <= 2 /\ (Due(c)' > 1 => c \in lost')
  BY <1>1 DEF RunsOf
<1>9. pc'[c] = "await" /\ ~retried'[c] /\ c \notin lost' /\ Due(c)' > 0 =>
        Holds(sess, c)' /\ ~cut[sess]'
  BY <1>1 DEF RunsOf
<1>10. QED BY <1>2, <1>3, <1>4, <1>6, <1>7, <1>8, <1>9 DEF RunsOf, Retry

\* A connection not dialed yet has nothing pending.
LEMMA NothingPending ==
  ASSUME FreshInv, NEW k \in Conns, srv[k] = "none", NEW c \in Calls
  PROVE  ~Pending(k, c)
BY DEF FreshInv, Pending

\* Before its retry, nothing of a call is pending on the connection of that.
LEMMA NoRetryYet ==
  ASSUME FreshInv, NEW c \in Calls, ~retried[c]
  PROVE  ~New(c)
<1>1. Retry(c) \in Conns /\ srv[Retry(c)] = "none"
  BY DEF FreshInv, Retry, Conns, Stages
<1>2. QED BY <1>1, NothingPending DEF New

\* A handler takes nothing up that is not pending, and gives up what it holds
\* on a live connection only by not running it.
LEMMA DaemonHolds ==
  ASSUME TypeOK, NEW k \in Conns, Answers(k), DaemonStep(k), ~Execute(k), NEW c \in Calls
  PROVE  /\ Pending(k, c)' => Pending(k, c)
         /\ Holds(k, c) /\ ~closed[k] /\ ~cut[k] =>
              Holds(k, c)' \/ (Pending(k, c) /\ ~Pending(k, c)')
         /\ HeadsOf(k, c)' => HeadsOf(k, c)
<1> USE DEF TypeOK
<1>0. /\ up[k] # <<>> => Tail(up[k]) = <<>>
      /\ Single(k) /\ Owned(k) /\ c # None
  <2>1. up[k] \in Seq(UpLines)
    OBVIOUS
  <2>2. up[k] # <<>> => Tail(up[k]) = <<>>
    BY <2>1, Short DEF Answers, Single
  <2>3. QED BY <2>2, ConnTypes DEF Answers
<1>1. CASE TakeMux(k) \/ ShellEchoes(k)
  <2>1. up[k] # <<>> /\ up'[k] = <<>> /\ cur'[k] = cur[k]
    BY <1>1, <1>0 DEF TakeMux, ShellEchoes, Pop, daemon
  <2>2. down[k] = <<>> /\ cur[k] = None
    BY <2>1, <1>0 DEF Single
  <2>3. PICK x : (down'[k] = <<>> \/ down'[k] = <<x>>) /\ x.call = None
    <3>1. PICK t : t \in {"MUX_OK", "LINE"} /\ Deliver(k, Line(t, None))
      BY <1>1 DEF TakeMux, ShellEchoes
    <3>2. PICK x : x = Line(t, None)
      OBVIOUS
    <3>3. down'[k] = <<>> \/ down'[k] = <<x>>
      BY <2>2, <3>1, <3>2, OneLine DEF Deliver
    <3>4. QED BY <3>2, <3>3 DEF Line
  <2>4. down'[k] # <<>> => Head(down'[k]).call = None
    BY <2>3, OneLine
  <2>5. QED BY <2>1, <2>2, <2>4, <1>0 DEF Pending, Holds, HeadsOf
<1>2. CASE TakeCommand(k)
  <2>1. /\ up[k] # <<>> /\ up'[k] = <<>> /\ down' = down
        /\ Head(up[k]).type = "EXEJ"
        /\ cur'[k] = Head(up[k]).call /\ srv'[k] = "exec"
    BY <1>2, <1>0 DEF TakeCommand, HasCommand, Pop
  <2>2. down[k] = <<>> /\ cur[k] = None
    BY <2>1, <1>0 DEF Single
  <2>3. QED BY <2>1, <2>2, <1>0 DEF Pending, Holds, HeadsOf
<1>3. CASE Refuse(k)
  <2>1. /\ up[k] # <<>> /\ up'[k] = <<>> /\ cur' = cur
        /\ Head(up[k]).type = "EXEJ"
    BY <1>3, <1>0 DEF Refuse, HasCommand, Pop
  <2>2. down[k] = <<>> /\ cur[k] = None
    BY <2>1, <1>0 DEF Single
  <2>3. PICK x : x = Line("REFUSED", Head(up[k]).call)
    OBVIOUS
  <2>4. x.call = Head(up[k]).call
    BY <2>3 DEF Line
  <2>5. /\ down'[k] = <<>> \/ down'[k] = <<x>>
        /\ ~closed[k] /\ ~cut[k] => down'[k] = <<x>>
    BY <1>3, <2>2, <2>3, OneLine DEF Refuse, Deliver
  <2>6. QED BY <2>1, <2>2, <2>4, <2>5, <1>0, OneLine DEF Pending, Holds, HeadsOf
<1>4. CASE Reply(k)
  <2>1. up' = up /\ cur[k] # None /\ cur'[k] = None /\ srv[k] = "ran"
    BY <1>4, <1>0 DEF Reply, Owned
  <2>2. up[k] = <<>> /\ down[k] = <<>>
    BY <2>1, <1>0 DEF Single
  <2>3. PICK x : x = Line("REPLY", cur[k])
    OBVIOUS
  <2>4. x.call = cur[k]
    BY <2>3 DEF Line
  <2>5. /\ down'[k] = <<>> \/ down'[k] = <<x>>
        /\ ~closed[k] /\ ~cut[k] => down'[k] = <<x>>
    BY <1>4, <2>2, <2>3, OneLine DEF Reply, Deliver
  <2>6. QED BY <2>1, <2>2, <2>4, <2>5, <1>0, OneLine DEF Pending, Holds, HeadsOf
<1>5. CASE PeekExpires(k) \/ IdleClose(k) \/ Hangup(k)
  <2>1. /\ up'[k] = up[k] \/ up'[k] = <<>>
        /\ down' = down /\ cur' = cur
        /\ {srv[k], srv'[k]} \cap {"exec", "ran"} = {}
    BY <1>5 DEF PeekExpires, IdleClose, Hangup, wires
  <2>2. QED BY <2>1, <1>0 DEF Pending, Holds, HeadsOf
<1>6. QED
  BY <1>1, <1>2, <1>3, <1>4, <1>5 DEF DaemonStep

\* The handler of k touches k alone, and nothing of the client's.
LEMMA DaemonFrame ==
  ASSUME TypeOK, NEW k \in Conns, DaemonStep(k)
  PROVE  /\ UNCHANGED <<client, closed, cut, faults>>
         /\ \A j \in Conns \ {k} :
              up'[j] = up[j] /\ down'[j] = down[j] /\ cur'[j] = cur[j] /\ srv'[j] = srv[j]
         /\ ~Execute(k) => runs' = runs
<1> USE DEF TypeOK
<1>1. UNCHANGED <<client, closed, cut, faults>>
  BY DEF DaemonStep, TakeMux, PeekExpires, ShellEchoes, TakeCommand, Refuse, Execute,
         Reply, IdleClose, Hangup, wires
<1>2. \A j \in Conns \ {k} :
        up'[j] = up[j] /\ down'[j] = down[j] /\ cur'[j] = cur[j] /\ srv'[j] = srv[j]
  BY DEF DaemonStep, TakeMux, PeekExpires, ShellEchoes, TakeCommand, Refuse, Execute,
         Reply, IdleClose, Hangup, wires, daemon, Pop, Deliver
<1>3. ~Execute(k) => runs' = runs
  BY DEF DaemonStep, TakeMux, PeekExpires, ShellEchoes, TakeCommand, Refuse,
         Reply, IdleClose, Hangup, daemon
<1>4. QED BY <1>1, <1>2, <1>3

\* No step of a handler makes more runs of a command due.
LEMMA DaemonRuns ==
  ASSUME Inv, RunsInv, NEW k \in Conns, DaemonStep(k), ~Execute(k), NEW c \in Calls
  PROVE  RunsOf(c)'
<1> USE DEF Inv
<1>1. /\ UNCHANGED <<pc, sess, reused, retried, closed, cut, lost>> /\ runs' = runs
      /\ \A j \in Conns \ {k} :
           up'[j] = up[j] /\ down'[j] = down[j] /\ cur'[j] = cur[j] /\ srv'[j] = srv[j]
  BY DaemonFrame DEF client, faults
<1>2. Answers(k) /\ RunsOf(c)
  BY DEF AnswerInv, RunsInv
<1>3. \A j \in Conns : Pending(j, c)' => Pending(j, c)
  BY <1>1, <1>2, DaemonHolds DEF Pending
<1>4. ASSUME pc[c] = "await", ~retried[c], Due(c)' > 0, Holds(sess, c), ~cut[sess]
      PROVE  Holds(sess, c)'
  <2>1. sess \in Conns /\ ~closed[sess]
    BY <1>4 DEF SessionInv, TypeOK
  <2>2. CASE sess # k
    BY <1>1, <1>4, <2>1, <2>2 DEF Holds, Pending
  <2>3. CASE sess = k
    <3>1. Holds(k, c)' \/ (Pending(k, c) /\ ~Pending(k, c)')
      BY <1>2, <1>4, <2>1, <2>3, DaemonHolds
    <3>2. ASSUME Pending(k, c), ~Pending(k, c)' PROVE FALSE
      <4>1. k # Retry(c) /\ ~New(c)
        BY <1>4, <3>2, NoRetryYet DEF New
      <4>2. Old(c)
        BY <3>2, <4>1 DEF Old
      <4>3. runs[c] = 0
        BY <1>2, <1>4, <4>2, DueIs DEF RunsOf
      <4>4. \A j \in Conns \ {Retry(c)} : ~Pending(j, c)'
        BY <1>2, <1>3, <3>2, <4>1 DEF RunsOf
      <4>5. ~Old(c)' /\ ~New(c)'
        BY <1>3, <4>1, <4>4, DueShrinks, <1>1 DEF Old, Retry
      <4>6. Due(c)' = 0
        BY <1>1, <4>3, <4>5 DEF Due
      <4>7. QED BY <1>4, <4>6
    <3>3. QED BY <1>1, <2>3, <3>1, <3>2 DEF Holds, Pending
  <2>4. QED BY <2>2, <2>3
<1>5. QED BY <1>1, <1>2, <1>3, <1>4, RunsOfKept

\* A run that takes place is one that was pending.
LEMMA ExecuteRuns ==
  ASSUME Inv, RunsInv, NEW k \in Conns, Execute(k), NEW c \in Calls
  PROVE  RunsOf(c)'
<1> USE DEF Inv
<1>1. /\ UNCHANGED <<pc, sess, reused, retried, closed, cut, lost, up, down, cur>>
      /\ srv[k] = "exec" /\ srv'[k] = "ran" /\ \A j \in Conns \ {k} : srv'[j] = srv[j]
      /\ runs' = [runs EXCEPT ![cur[k]] = @ + 1]
  BY DEF Execute, client, wires, faults, TypeOK
<1>2. Single(k) /\ Owned(k) /\ RunsOf(c) /\ runs \in [Calls -> Nat]
  BY DEF AnswerInv, Answers, RunsInv, TypeOK
<1>3. cur[k] \in Calls /\ cur[k] # None /\ up[k] = <<>>
  <2>1. cur[k] # None /\ cur[k] \in Calls
    BY <1>1, <1>2 DEF Owned, Owns
  <2>2. QED BY <1>2, <2>1 DEF Single
<1>4. /\ \A j \in Conns : Pending(j, c)' => Pending(j, c)
      /\ \A j \in Conns \ {k} : Pending(j, c)' <=> Pending(j, c)
  BY <1>1, <1>3 DEF Pending
<1>5. \A j \in Conns : Holds(j, c) => Holds(j, c)'
  BY <1>1, <1>3 DEF Holds, Pending
<1>6. CASE c # cur[k]
  <2>1. runs'[c] = runs[c]
    BY <1>1, <1>2, <1>3, <1>6
  <2>2. ASSUME pc[c] = "await", Holds(sess, c) PROVE Holds(sess, c)'
    <3>1. sess \in Conns
      BY <2>2 DEF SessionInv, TypeOK
    <3>2. QED BY <1>1, <1>5, <2>2, <3>1 DEF Holds, Pending
  <2>3. QED BY <1>1, <1>2, <1>4, <2>1, <2>2, RunsOfKept
<1>7. CASE c = cur[k]
  <2>1. runs'[c] = runs[c] + 1 /\ runs[c] \in Nat
    BY <1>1, <1>2, <1>3, <1>7
  <2>2. Pending(k, c) /\ ~Pending(k, c)'
    BY <1>1, <1>3, <1>7 DEF Pending
  <2>3. Due(c)' = Due(c) /\ (New(c)' => New(c))
    <3>1. CASE k = Retry(c)
      <4>1. New(c) /\ ~New(c)'
        BY <2>2, <3>1 DEF New, Retry
      <4>2. Old(c)' <=> Old(c)
        BY <1>4, <3>1 DEF Old, Retry
      <4>3. QED BY <2>1, <4>1, <4>2 DEF Due
    <3>2. CASE k # Retry(c)
      <4>1. Old(c)
        BY <2>2, <3>2 DEF Old
      <4>2. \A j \in Conns \ {Retry(c)} : ~Pending(j, c)'
        BY <1>2, <1>4, <2>2, <3>2 DEF RunsOf
      <4>3. ~Old(c)'
        BY <4>2 DEF Old, Retry
      <4>4. Retry(c) \in Conns
        BY DEF Retry, Conns, Stages
      <4>5. New(c)' <=> New(c)
        BY <1>4, <3>2, <4>4 DEF New, Retry
      <4>6. QED BY <2>1, <4>1, <4>3, <4>5 DEF Due
    <3>3. QED BY <3>1, <3>2
  <2>4. Unsent(c)' <=> Unsent(c)
    BY <1>1 DEF Unsent
  <2>5. ASSUME pc[c] = "await", Holds(sess, c) PROVE Holds(sess, c)'
    <3>1. sess \in Conns
      BY <2>5 DEF SessionInv, TypeOK
    <3>2. QED BY <1>1, <1>5, <2>5, <3>1 DEF Holds, Pending
  <2>6. \A i, j \in Conns \ {Retry(c)} : Pending(i, c)' /\ Pending(j, c)' => i = j
    BY <1>2, <1>4 DEF RunsOf
  <2>7. /\ retried'[c] => reused'[c] /\ pc'[c] \notin {"idle", "lock", "dial1", "await1"}
        /\ retried'[c] /\ pc'[c] = "send" => sess' = Retry(c)
    BY <1>1, <1>2 DEF RunsOf
  <2>8. /\ ~retried'[c] => Due(c)' <= 1
        /\ ~retried'[c] /\ Unsent(c)' => Due(c)' = 0
        /\ retried'[c] /\ Unsent(c)' => Due(c)' <= 1 /\ ~New(c)' /\ (Due(c)' > 0 => c \in lost')
        /\ Due(c)' <= 2 /\ (Due(c)' > 1 => c \in lost')
    BY <1>1, <1>2, <2>3, <2>4 DEF RunsOf
  <2>9. pc'[c] = "await" /\ ~retried'[c] /\ c \notin lost' /\ Due(c)' > 0 =>
          Holds(sess, c)' /\ ~cut[sess]'
    BY <1>1, <1>2, <2>3, <2>5 DEF RunsOf
  <2>10. QED BY <2>6, <2>7, <2>8, <2>9 DEF RunsOf, Retry
<1>8. QED BY <1>6, <1>7

\* A connection that breaks under a call makes it a lost one.
LEMMA FaultRuns ==
  ASSUME Inv, RunsInv, NEW c \in Calls,
         Crash \/ Restart \/ UNCHANGED vars \/ \E k \in Conns : Reset(k)
  PROVE  RunsOf(c)'
<1> USE DEF Inv
<1>1. UNCHANGED <<pc, sess, reused, retried, closed, runs>> /\ lost \subseteq lost'
  BY DEF Crash, Restart, Reset, vars, client, daemon, wires, faults
<1>2. RunsOf(c) /\ c # None
  BY ConnTypes DEF RunsInv
<1>3. \A j \in Conns : Pending(j, c)' => Pending(j, c)
  <2>1. ASSUME NEW j \in Conns
        PROVE  /\ up'[j] = up[j] \/ up'[j] = <<>>
               /\ (cur'[j] = cur[j] /\ srv'[j] = srv[j]) \/ srv'[j] # "exec"
    BY DEF Crash, Restart, Reset, vars, daemon, wires
  <2>2. QED BY <2>1 DEF Pending
<1>4. ASSUME pc[c] = "await", c \notin lost', Holds(sess, c), ~cut[sess]
      PROVE  Holds(sess, c)' /\ ~cut[sess]'
  <2>1. sess \in Conns /\ ~closed[sess] /\ Single(sess)
    BY <1>4 DEF SessionInv, TypeOK, AnswerInv, Answers
  <2>2. Carries(sess, c)
    BY <1>4, <2>1, CarriesIs DEF Holds, Pending, HeadsOf
  <2>3. CASE Crash
    BY <1>4, <2>1, <2>2, <2>3 DEF Crash
  <2>4. ASSUME NEW k \in Conns, Reset(k) PROVE Holds(sess, c)' /\ ~cut[sess]'
    <3>1. k # sess
      BY <1>4, <2>2, <2>4 DEF Reset
    <3>2. /\ down'[sess] = down[sess] /\ cut'[sess] = cut[sess] /\ UNCHANGED <<up, cur, srv>>
      BY <2>1, <2>4, <3>1 DEF Reset, daemon, TypeOK
    <3>3. QED BY <1>1, <1>4, <3>2 DEF Holds, Pending
  <2>5. CASE Restart \/ UNCHANGED vars
    BY <1>1, <1>4, <2>5 DEF Restart, vars, daemon, wires, Holds, Pending
  <2>6. QED BY <2>3, <2>4, <2>5
<1>5. QED BY <1>1, <1>2, <1>3, <1>4, RunsOfKept

\* A step of c writes no line but its own and the probe, reads at most the one
\* line there is, and touches nothing but its one-shot connection unless it
\* holds the mutex.
LEMMA ClientFrame ==
  ASSUME Inv, NEW c \in Calls, Invoke(c) \/ ClientStep(c)
  PROVE  /\ UNCHANGED <<cur, runs, lost, cut>>
         /\ pc'[c] # "idle"
         /\ \A d \in Calls \ {c} :
              pc'[d] = pc[d] /\ retried'[d] = retried[d] /\ reused'[d] = reused[d]
         /\ sess' = sess \/ pc[c] \in Holding
         /\ \A j \in Conns :
              /\ srv'[j] = srv[j] \/ (srv[j] = "none" /\ srv'[j] = "verb")
              /\ \/ up'[j] = up[j]
                 \/ srv'[j] # "gone" /\ up'[j] = <<Line("MUX", None)>>
                 \/ srv'[j] # "gone" /\ up'[j] = <<Line("EXEJ", c)>>
              /\ down'[j] = down[j] \/ down'[j] = <<>>
              /\ pc[c] \notin Holding /\ j # OneShot(c) =>
                   up'[j] = up[j] /\ down'[j] = down[j] /\ srv'[j] = srv[j]
<1> USE DEF Inv, TypeOK, Goto
<1>0. \A j \in Conns : down[j] # <<>> => Tail(down[j]) = <<>>
  <2>1. ASSUME NEW j \in Conns, down[j] # <<>> PROVE Tail(down[j]) = <<>>
    <3>1. down[j] \in Seq(DownLines) /\ Len(down[j]) <= 1
      BY DEF AnswerInv, Answers, Single
    <3>2. QED BY <2>1, <3>1, Short
  <2>2. QED BY <2>1
<1>1. CASE Invoke(c) \/ Lock(c) \/ DialFails(c) \/ Dial1Fails(c)
  BY <1>1, ConnTypes DEF Invoke, Lock, DialFails, Dial1Fails, Return, Answer1, daemon, wires, faults
<1>2. CASE Dial(c)
  <2>1. srv[Dialed(c)] = "none" /\ Dialed(c) \in Conns /\ pc[c] \in Holding
    BY <1>2, ConnTypes DEF Dial, FreshInv, Holding
  <2>2. QED BY <1>2, <2>1 DEF Dial, faults
<1>3. CASE Dial1(c)
  <2>1. srv[OneShot(c)] = "none" /\ OneShot(c) \in Conns
    BY <1>3, ConnTypes DEF Dial1, FreshInv
  <2>2. QED BY <1>3, <2>1 DEF Dial1, faults
<1>4. CASE Established(c) \/ NotMux(c) \/ ProbeFails(c)
  <2>1. pc[c] \in Holding /\ Dialed(c) \in Conns
    BY <1>4, ConnTypes DEF Established, NotMux, ProbeFails, Holding
  <2>2. QED BY <1>0, <1>4, <2>1 DEF Established, NotMux, ProbeFails, GiveUpMux, Return, daemon, faults
<1>5. CASE Send(c)
  <2>1. pc[c] \in Holding /\ sess \in Conns /\ Idle(sess)
    BY <1>5 DEF Send, Holding, SessionInv, IdleInv, LockInv
  <2>2. up[sess] = <<>>
    BY <2>1 DEF Idle
  <2>3. \/ up' = up
        \/ srv[sess] # "gone" /\ up' = [up EXCEPT ![sess] = <<Line("EXEJ", c)>>]
    BY <1>5, <2>2, OneLine DEF Send
  <2>4. QED BY <1>5, <2>1, <2>3 DEF Send, daemon, faults
<1>6. CASE SendFails(c) \/ Receive(c) \/ ReceiveFails(c) \/ ReceiveTimesOut(c)
  <2>1. pc[c] \in Holding /\ sess \in Conns
    BY <1>6 DEF SendFails, Receive, ReceiveFails, ReceiveTimesOut, Holding, SessionInv
  <2>2. /\ UNCHANGED <<daemon, up, cut, faults>>
        /\ down' = down \/ (down[sess] # <<>> /\ down' = [down EXCEPT ![sess] = Tail(@)])
    BY <1>6 DEF SendFails, Receive, ReceiveFails, ReceiveTimesOut
  <2>3. /\ pc' = [pc EXCEPT ![c] = pc'[c]] /\ retried' = [retried EXCEPT ![c] = retried'[c]]
        /\ reused' = reused /\ pc'[c] \in {"done", "dial"}
    BY <1>6 DEF SendFails, Receive, ReceiveFails, ReceiveTimesOut, Failed, Return
  <2>4. QED BY <1>0, <2>1, <2>2, <2>3 DEF daemon, faults
<1>7. CASE Receive1(c) \/ Receive1Fails(c)
  <2>1. OneShot(c) \in Conns
    BY ConnTypes
  <2>2. QED BY <1>0, <1>7, <2>1 DEF Receive1, Receive1Fails, Answer1, daemon, faults
<1>8. QED BY <1>1, <1>2, <1>3, <1>4, <1>5, <1>6, <1>7 DEF ClientStep

\* What the others have pending stays as it is.
LEMMA OtherRuns ==
  ASSUME Inv, RunsInv, NEW c \in Calls, Invoke(c) \/ ClientStep(c), NEW d \in Calls \ {c}
  PROVE  RunsOf(d)'
<1> USE DEF Inv
<1>1. /\ UNCHANGED <<cur, runs, lost, cut>>
      /\ pc'[d] = pc[d] /\ retried'[d] = retried[d] /\ reused'[d] = reused[d]
  BY ClientFrame
<1>2. pc[d] \in {"send", "await"} => pc[c] \notin Holding /\ sess' = sess
  BY ClientFrame DEF LockInv, Holding
<1>3. ASSUME NEW j \in Conns PROVE Pending(j, d)' => Pending(j, d)
  <2>1. /\ srv'[j] = srv[j] \/ srv'[j] = "verb"
        /\ up'[j] = up[j] \/ up'[j] = <<Line("MUX", None)>> \/ up'[j] = <<Line("EXEJ", c)>>
    BY ClientFrame
  <2>2. \/ up'[j] = up[j]
        \/ Head(up'[j]).type = "MUX"
        \/ Head(up'[j]).call = c
    BY <2>1, OneLine DEF Line
  <2>3. QED BY <1>1, <2>1, <2>2 DEF Pending
<1>4. ASSUME pc[d] = "await", Holds(sess, d), ~cut[sess] PROVE Holds(sess, d)' /\ ~cut[sess]'
  <2>1. sess \in Conns /\ sess # OneShot(c) /\ sess' = sess
    BY <1>2, <1>4 DEF SessionInv, TypeOK, OneShot
  <2>2. up'[sess] = up[sess] /\ down'[sess] = down[sess] /\ srv'[sess] = srv[sess]
    BY <1>2, <1>4, <2>1, ClientFrame
  <2>3. QED BY <1>1, <1>4, <2>1, <2>2 DEF Holds, Pending
<1>5. RunsOf(d)
  BY DEF RunsInv
<1>6. QED BY <1>1, <1>2, <1>3, <1>4, <1>5, RunsOfKept

\* A call that writes no line.  Its retry starts with nothing due, or with one
\* run of a line that was lost.
LEMMA OwnShrinks ==
  ASSUME TypeOK, NEW c \in Calls, RunsOf(c), runs'[c] = runs[c], lost' = lost,
         \A k \in Conns : Pending(k, c)' => Pending(k, c),
         retried'[c] => reused'[c] /\ pc'[c] \notin {"idle", "lock", "dial1", "await1"},
         retried'[c] /\ pc'[c] = "send" => sess' = Retry(c),
         pc'[c] # "await",
         \/ retried'[c] = retried[c] /\ (Unsent(c)' => Unsent(c))
         \/ /\ ~retried[c] /\ retried'[c] /\ ~New(c)
            /\ Due(c) > 0 => c \in lost
  PROVE  RunsOf(c)'
<1>1. /\ Due(c)' \in Nat /\ Due(c)' <= Due(c) /\ Due(c) \in Nat
      /\ New(c)' => New(c)
  BY DueShrinks
<1>2. \A j, k \in Conns \ {Retry(c)} : Pending(j, c)' /\ Pending(k, c)' => j = k
  BY DEF RunsOf
<1>3. /\ ~retried'[c] => Due(c)' <= 1
      /\ ~retried'[c] /\ Unsent(c)' => Due(c)' = 0
  BY <1>1 DEF RunsOf
<1>4. ASSUME retried'[c], Unsent(c)'
      PROVE  Due(c)' <= 1 /\ ~New(c)' /\ (Due(c)' > 0 => c \in lost')
  <2>1. Due(c) <= 1 /\ ~New(c) /\ (Due(c) > 0 => c \in lost)
    <3>1. CASE retried'[c] = retried[c] /\ (Unsent(c)' => Unsent(c))
      BY <1>4, <3>1 DEF RunsOf
    <3>2. CASE ~retried[c] /\ ~New(c) /\ (Due(c) > 0 => c \in lost)
      BY <3>2 DEF RunsOf
    <3>3. QED BY <3>1, <3>2
  <2>2. QED BY <1>1, <2>1
<1>5. Due(c)' <= 2 /\ (Due(c)' > 1 => c \in lost')
  BY <1>1 DEF RunsOf
<1>6. QED BY <1>2, <1>3, <1>4, <1>5 DEF RunsOf, Retry

\* The one line of an attempt: a first one, or the retry of a lost one.
LEMMA SendRuns ==
  ASSUME Inv, RunsInv, NEW c \in Calls, Send(c)
  PROVE  RunsOf(c)'
<1> USE DEF Inv
<1>1. /\ UNCHANGED <<runs, lost, sess, retried, reused, cur, srv, down, cut>>
      /\ pc[c] = "send" /\ pc'[c] = "await" /\ ~Unsent(c)' /\ Unsent(c)
  BY DEF Send, Goto, TypeOK, Unsent, daemon, faults
<1>2. sess \in Conns /\ srv[sess] # "none" /\ up[sess] = <<>> /\ cur[sess] = None
  <2>1. sess \in Conns /\ srv[sess] # "none" /\ Idle(sess)
    BY <1>1 DEF TypeOK, SessionInv, IdleInv, LockInv, Holding
  <2>2. QED BY <2>1 DEF Idle
<1>3. RunsOf(c) /\ runs[c] \in Nat /\ Retry(c) \in Conns /\ c # None
  BY ConnTypes DEF RunsInv, TypeOK, Retry, Conns, Stages
<1>4. CASE up' = up
  <2>1. \A j \in Conns : Pending(j, c)' => Pending(j, c)
    BY <1>1, <1>4 DEF Pending
  <2>2. Due(c)' \in Nat /\ Due(c)' <= Due(c) /\ Due(c) \in Nat
    BY <1>1, <2>1, DueShrinks
  <2>3. \A i, j \in Conns \ {Retry(c)} : Pending(i, c)' /\ Pending(j, c)' => i = j
    BY <1>3, <2>1 DEF RunsOf
  <2>4. Due(c)' <= 2 /\ ~(Due(c)' > 1) /\ (~retried[c] => ~(Due(c)' > 0)) /\ Due(c)' <= 1
    BY <1>1, <1>3, <2>2 DEF RunsOf
  <2>5. retried'[c] => reused'[c]
    BY <1>1, <1>3 DEF RunsOf
  <2>6. QED BY <1>1, <2>3, <2>4, <2>5 DEF RunsOf, Retry
<1>5. CASE up' # up
  <2>1. up' = [up EXCEPT ![sess] = <<Line("EXEJ", c)>>] /\ ~cut[sess]
    BY <1>2, <1>5, OneLine DEF Send
  <2>2. PICK x : x = Line("EXEJ", c)
    OBVIOUS
  <2>3. x.type = "EXEJ" /\ x.call = c /\ up'[sess] = <<x>>
    BY <1>2, <2>1, <2>2 DEF Line, TypeOK
  <2>4. Pending(sess, c)' /\ ~Pending(sess, c)
    <3>1. Pending(sess, c)'
      <4>1. up'[sess] # <<>> /\ Head(up'[sess]) = x
        BY <2>3, OneLine
      <4>2. up'[sess'] # <<>> /\ Head(up'[sess']) = x
        BY <4>1, <1>1
      <4>3. QED BY <2>3, <4>2 DEF Pending
    <3>2. QED BY <1>2, <1>3, <3>1 DEF Pending
  <2>5. \A j \in Conns \ {sess} : Pending(j, c)' <=> Pending(j, c)
    BY <1>1, <1>2, <2>1 DEF Pending, TypeOK
  <2>6. CASE ~retried[c]
    <3>1. Due(c) = 0 /\ runs[c] = 0 /\ ~Old(c) /\ ~New(c)
      BY <1>1, <1>3, <2>6, DueIs DEF RunsOf
    <3>2. sess # Retry(c)
      <4>1. srv[Retry(c)] = "none"
        BY <2>6 DEF FreshInv, Retry
      <4>2. QED BY <1>2, <4>1
    <3>3. ~New(c)'
      BY <1>3, <2>5, <3>1, <3>2 DEF New, Retry
    <3>4. \A j \in Conns \ {Retry(c)} : Pending(j, c)' => j = sess
      BY <2>5, <3>1 DEF Old
    <3>5. Due(c)' <= 2 /\ ~(Due(c)' > 1) /\ Due(c)' <= 1
      BY <1>1, <3>1, <3>3 DEF Due
    <3>6. Holds(sess, c)' /\ ~cut'[sess']
      BY <1>1, <2>1, <2>4 DEF Holds
    <3>7. QED BY <1>1, <2>6, <3>4, <3>5, <3>6 DEF RunsOf, Retry
  <2>7. CASE retried[c]
    <3>1. sess = Retry(c) /\ Due(c) <= 1 /\ ~New(c) /\ (Due(c) > 0 => c \in lost) /\ reused[c]
      BY <1>1, <1>3, <2>7 DEF RunsOf
    <3>2. Old(c)' <=> Old(c)
      BY <2>5, <3>1 DEF Old, Retry
    <3>3. Due(c) \in Nat /\ (Due(c)' = Due(c) \/ Due(c)' = Due(c) + 1)
      BY <1>1, <1>3, <3>1, <3>2 DEF Due
    <3>4. Due(c)' <= 2 /\ (Due(c)' > 1 => c \in lost')
      BY <1>1, <1>3, <3>1, <3>3, DueIs
    <3>5. \A i, j \in Conns \ {Retry(c)} : Pending(i, c)' /\ Pending(j, c)' => i = j
      BY <1>3, <2>5, <3>1 DEF RunsOf
    <3>6. QED BY <1>1, <2>7, <3>1, <3>4, <3>5 DEF RunsOf, Retry
  <2>8. QED BY <2>6, <2>7
<1>6. QED BY <1>4, <1>5

LEMMA Dial1Runs ==
  ASSUME Inv, RunsInv, NEW c \in Calls, Dial1(c)
  PROVE  RunsOf(c)'
<1> USE DEF Inv
<1>1. /\ UNCHANGED <<runs, lost, sess, retried, reused, cur, down, cut>>
      /\ pc[c] = "dial1" /\ pc'[c] = "await1" /\ ~Unsent(c)' /\ Unsent(c)
  BY DEF Dial1, Goto, TypeOK, Unsent, daemon, faults
<1>2. RunsOf(c) /\ runs[c] \in Nat /\ Retry(c) \in Conns /\ OneShot(c) # Retry(c)
  BY ConnTypes DEF RunsInv, TypeOK, Retry, OneShot, Conns, Stages
<1>3. ~retried[c] /\ Due(c) = 0 /\ runs[c] = 0 /\ ~Old(c) /\ ~New(c)
  <2>1. ~retried[c] /\ Due(c) = 0
    BY <1>1, <1>2 DEF RunsOf
  <2>2. QED BY <2>1, DueIs
<1>4. \A j \in Conns \ {OneShot(c)} : Pending(j, c)' <=> Pending(j, c)
  BY <1>1 DEF Dial1, Pending, TypeOK
<1>5. ~New(c)'
  BY <1>2, <1>3, <1>4 DEF New, Retry
<1>6. \A j \in Conns \ {Retry(c)} : Pending(j, c)' => j = OneShot(c)
  BY <1>3, <1>4 DEF Old
<1>7. Due(c)' <= 2 /\ ~(Due(c)' > 1) /\ Due(c)' <= 1
  BY <1>1, <1>3, <1>5 DEF Due
<1>8. QED BY <1>1, <1>3, <1>6, <1>7 DEF RunsOf, Retry

\* An answer is missing, the connection at its end: what was due was lost.
LEMMA LostOrUndone ==
  ASSUME Inv, RunsInv, GoneInv, NEW c \in Calls, pc[c] = "await", AtEOF(sess), ~retried[c],
         Due(c) > 0
  PROVE  c \in lost
<1> USE DEF Inv
<1>1. SUFFICES ASSUME c \notin lost PROVE FALSE
  OBVIOUS
<1>2. sess \in Conns /\ Holds(sess, c) /\ ~cut[sess]
  BY <1>1 DEF RunsInv, RunsOf, SessionInv, TypeOK
<1>3. down[sess] = <<>> /\ srv[sess] = "gone" /\ up[sess] = <<>>
  BY <1>2 DEF AtEOF, GoneInv
<1>4. QED BY <1>2, <1>3 DEF Holds, Pending

\* Every step of a call keeps the count of its own runs.
LEMMA OwnRuns ==
  ASSUME Inv, RunsInv, GoneInv, NEW c \in Calls, Invoke(c) \/ ClientStep(c)
  PROVE  RunsOf(c)'
<1> USE DEF Inv
<1>1. CASE Send(c) \/ Dial1(c)
  BY <1>1, SendRuns, Dial1Runs
<1>2. CASE ~Send(c) /\ ~Dial1(c)
  <2>1. /\ RunsOf(c) /\ runs'[c] = runs[c] /\ lost' = lost
        /\ pc \in [Calls -> {"idle", "lock", "dial1", "await1", "done"} \cup Holding]
        /\ retried \in [Calls -> BOOLEAN] /\ reused \in [Calls -> BOOLEAN]
    BY ClientFrame DEF RunsInv, TypeOK
  <2>2. ASSUME NEW j \in Conns PROVE Pending(j, c)' => Pending(j, c)
    <3>1. /\ cur' = cur /\ (srv'[j] = srv[j] \/ srv'[j] = "verb")
          /\ up'[j] = up[j] \/ up'[j] = <<Line("MUX", None)>>
      <4>1. cur' = cur /\ (srv'[j] = srv[j] \/ srv'[j] = "verb")
        BY ClientFrame
      <4>2. up'[j] = up[j] \/ up'[j] = <<Line("MUX", None)>>
        BY <1>2 DEF ClientStep, Invoke, Lock, Dial, DialFails, Established, NotMux, ProbeFails,
                    SendFails, Receive, ReceiveFails, ReceiveTimesOut, Dial1Fails, Receive1,
                    Receive1Fails, Answer1, wires, TypeOK
      <4>3. QED BY <4>1, <4>2
    <3>2. up'[j] = up[j] \/ Head(up'[j]).type = "MUX"
      BY <3>1, OneLine DEF Line
    <3>3. QED BY <3>1, <3>2 DEF Pending
  <2>3. CASE Invoke(c) \/ Dial(c) \/ DialFails(c) \/ Dial1Fails(c)
    <3>1. /\ Unsent(c) /\ pc'[c] \in {"lock", "probe", "done"} /\ retried'[c] = retried[c]
          /\ reused'[c] = reused[c] /\ (pc'[c] = "lock" => ~retried[c])
      BY <2>1, <2>3 DEF Invoke, Dial, DialFails, Dial1Fails, Return, Answer1, Goto, Unsent, RunsOf
    <3>2. retried'[c] => reused'[c] /\ pc'[c] \notin {"idle", "lock", "dial1", "await1"}
      BY <2>1, <3>1 DEF RunsOf
    <3>3. QED BY <2>1, <2>2, <3>1, <3>2, OwnShrinks
  <2>4. CASE Lock(c)
    <3>1. /\ Unsent(c) /\ ~retried[c] /\ retried'[c] = retried[c]
          /\ pc'[c] \in {"dial", "send", "dial1"}
      BY <2>1, <2>4 DEF Lock, Goto, Unsent, RunsOf
    <3>2. ~retried'[c]
      BY <3>1
    <3>3. QED BY <2>1, <2>2, <3>1, <3>2, OwnShrinks
  <2>5. CASE Established(c) \/ NotMux(c) \/ ProbeFails(c)
    <3>1. /\ Unsent(c) /\ retried'[c] = retried[c] /\ reused'[c] = reused[c]
          /\ pc'[c] \in {"send", "dial1", "done"}
          /\ pc'[c] = "dial1" => ~retried[c]
          /\ pc'[c] = "send" => sess' = Dialed(c)
      BY <2>1, <2>5 DEF Established, NotMux, ProbeFails, GiveUpMux, Return, Goto, Unsent
    <3>2. retried'[c] => reused'[c] /\ pc'[c] \notin {"idle", "lock", "dial1", "await1"}
      BY <2>1, <3>1 DEF RunsOf
    <3>3. retried'[c] /\ pc'[c] = "send" => sess' = Retry(c)
      BY <3>1 DEF Dialed, Retry
    <3>4. QED BY <2>1, <2>2, <3>1, <3>2, <3>3, OwnShrinks
  <2>6. CASE SendFails(c) \/ Receive(c) \/ ReceiveFails(c) \/ ReceiveTimesOut(c)
    <3>1. /\ reused'[c] = reused[c] /\ pc[c] \in {"send", "await"}
          /\ \/ pc'[c] = "done" /\ retried'[c] = retried[c]
             \/ /\ SendFails(c) \/ ReceiveFails(c)
                /\ pc'[c] = "dial" /\ ~retried[c] /\ retried'[c] = TRUE /\ reused[c]
      BY <2>1, <2>6 DEF SendFails, Receive, ReceiveFails, ReceiveTimesOut, Failed, SafeToRetry,
                        Return, Goto
    <3>2. CASE pc'[c] = "done" /\ retried'[c] = retried[c]
      <4>1. ~Unsent(c)'
        BY <3>2 DEF Unsent
      <4>2. retried'[c] => reused'[c]
        BY <2>1, <3>1, <3>2 DEF RunsOf
      <4>3. QED BY <2>1, <2>2, <3>2, <4>1, <4>2, OwnShrinks
    <3>3. CASE /\ SendFails(c) \/ ReceiveFails(c)
               /\ pc'[c] = "dial" /\ ~retried[c] /\ retried'[c] = TRUE /\ reused[c]
      <4>1. ~New(c) /\ Due(c) \in Nat
        BY <3>3, NoRetryYet, DueIs
      <4>2. Due(c) > 0 => c \in lost
        <5>1. CASE SendFails(c)
          BY <2>1, <3>3, <4>1, <5>1 DEF SendFails, RunsOf, Unsent
        <5>2. CASE ReceiveFails(c)
          BY <3>3, <5>2, LostOrUndone DEF ReceiveFails
        <5>3. QED BY <3>3, <5>1, <5>2
      <4>3. QED BY <2>1, <2>2, <3>1, <3>3, <4>1, <4>2, OwnShrinks
    <3>4. QED BY <3>1, <3>2, <3>3
  <2>7. CASE Receive1(c) \/ Receive1Fails(c)
    <3>1. pc[c] = "await1" /\ pc'[c] = "done" /\ retried'[c] = retried[c] /\ ~Unsent(c)'
      BY <2>1, <2>7 DEF Receive1, Receive1Fails, Answer1, Goto, Unsent
    <3>2. ~retried'[c]
      BY <2>1, <3>1 DEF RunsOf
    <3>3. QED BY <2>1, <2>2, <3>1, <3>2, OwnShrinks
  <2>8. QED BY <1>2, <2>3, <2>4, <2>5, <2>6, <2>7 DEF ClientStep
<1>3. QED BY <1>1, <1>2

\* Every step keeps the count of runs.
LEMMA RunsStep == Inv /\ RunsInv /\ GoneInv /\ [Next]_vars => RunsInv'
<1> SUFFICES ASSUME Inv, RunsInv, GoneInv, [Next]_vars, NEW c \in Calls PROVE RunsOf(c)'
  BY DEF RunsInv
<1>1. ASSUME NEW d \in Calls, Invoke(d) \/ ClientStep(d) PROVE RunsOf(c)'
  BY <1>1, OwnRuns, OtherRuns
<1>2. ASSUME NEW k \in Conns, DaemonStep(k) PROVE RunsOf(c)'
  BY <1>2, DaemonRuns, ExecuteRuns
<1>3. CASE Crash \/ Restart \/ UNCHANGED vars \/ \E k \in Conns : Reset(k)
  BY <1>3, FaultRuns
<1>4. QED BY <1>1, <1>2, <1>3 DEF Next

\* A handler that leaves has read, or throws away, what was written to it.
LEMMA GoneStep == Inv /\ GoneInv /\ [Next]_vars => GoneInv'
<1> SUFFICES ASSUME Inv, GoneInv, [Next]_vars, NEW j \in Conns, srv'[j] = "gone"
             PROVE  up'[j] = <<>>
  BY DEF GoneInv
<1> USE DEF Inv
<1>1. ASSUME NEW c \in Calls, Invoke(c) \/ ClientStep(c) PROVE up'[j] = <<>>
  <2>1. /\ srv'[j] = srv[j] \/ srv'[j] = "verb"
        /\ up'[j] = up[j] \/ srv'[j] # "gone"
    BY <1>1, ClientFrame
  <2>2. QED BY <2>1 DEF GoneInv
<1>2. ASSUME NEW k \in Conns, DaemonStep(k) PROVE up'[j] = <<>>
  <2>1. CASE j # k
    BY <1>2, <2>1, DaemonFrame DEF GoneInv
  <2>2. CASE j = k
    <3>1. Answers(k) /\ up \in [Conns -> Seq(UpLines)] /\ (srv[k] = "gone" => up[k] = <<>>)
      BY <1>2 DEF AnswerInv, TypeOK, GoneInv
    <3>2. up[k] # <<>> => Tail(up[k]) = <<>>
      BY <3>1, Short DEF AnswerInv, TypeOK, Answers, Single
    <3>3. srv[k] = "ran" => up[k] = <<>>
      BY <3>1 DEF AnswerInv, Answers, Single, Owned
    <3>4. CASE TakeMux(k) \/ Refuse(k)
      BY <2>2, <3>1, <3>2, <3>4 DEF TakeMux, Refuse, HasCommand, Pop, TypeOK
    <3>5. CASE Reply(k)
      BY <2>2, <3>3, <3>5 DEF Reply
    <3>6. CASE IdleClose(k) \/ Hangup(k)
      BY <2>2, <3>6 DEF IdleClose, Hangup, TypeOK
    <3>7. CASE PeekExpires(k) \/ ShellEchoes(k) \/ TakeCommand(k) \/ Execute(k)
      BY <2>2, <3>7 DEF PeekExpires, ShellEchoes, TakeCommand, Execute, daemon, TypeOK
    <3>8. QED BY <1>2, <3>4, <3>5, <3>6, <3>7 DEF DaemonStep
  <2>3. QED BY <2>1, <2>2
<1>3. CASE Crash \/ Restart \/ UNCHANGED vars \/ \E k \in Conns : Reset(k)
  BY <1>3 DEF Crash, Restart, Reset, vars, daemon, wires, GoneInv
<1>4. QED BY <1>1, <1>2, <1>3 DEF Next

\* What is under way is of a call that was made, and stays so.
LEMMA MadeStep == Inv /\ Inv' /\ MadeInv /\ [Next]_vars => MadeInv'
<1> SUFFICES ASSUME Inv, Inv', MadeInv, [Next]_vars,
                    NEW k \in Conns, NEW c \in Calls, Carries(k, c)'
             PROVE  pc'[c] # "idle"
  BY DEF MadeInv
<1>1. HeadsOf(k, c)' /\ (HeadsOf(k, c) => pc[c] # "idle")
  <2>1. Single(k) /\ TypeOK
    BY DEF Inv, AnswerInv, Answers
  <2>2. Single(k)' /\ TypeOK'
    BY DEF Inv, AnswerInv, Answers
  <2>3. QED BY <2>1, <2>2, CarriesIs, CarriesNext DEF MadeInv
<1>2. c # None
  BY ConnTypes
<1>3. ASSUME NEW d \in Calls, Invoke(d) \/ ClientStep(d) PROVE pc'[c] # "idle"
  <2>1. CASE c = d
    BY <1>3, <2>1, ClientFrame
  <2>2. CASE c # d
    <3>1. /\ cur' = cur /\ pc'[c] = pc[c]
          /\ \/ up'[k] = up[k]
             \/ up'[k] = <<Line("MUX", None)>>
             \/ up'[k] = <<Line("EXEJ", d)>>
          /\ down'[k] = down[k] \/ down'[k] = <<>>
      BY <1>3, <2>2, ClientFrame
    <3>2. up'[k] = up[k] \/ Head(up'[k]).call = None \/ Head(up'[k]).call = d
      BY <3>1, OneLine DEF Line
    <3>3. QED BY <1>1, <1>2, <2>2, <3>1, <3>2 DEF HeadsOf
  <2>3. QED BY <2>1, <2>2
<1>4. ASSUME NEW j \in Conns, DaemonStep(j) PROVE pc'[c] # "idle"
  <2>1. TypeOK /\ Answers(j)
    BY DEF Inv, AnswerInv
  <2>2. pc' = pc /\ UNCHANGED client
    BY <1>4, <2>1, DaemonFrame DEF client
  <2>3. HeadsOf(k, c)
    <3>1. CASE k # j
      BY <1>1, <1>4, <2>1, <3>1, DaemonFrame DEF HeadsOf
    <3>2. CASE k = j /\ ~Execute(j)
      BY <1>1, <1>4, <2>1, <3>2, DaemonHolds
    <3>3. CASE Execute(j)
      BY <1>1, <3>3 DEF Execute, wires, HeadsOf
    <3>4. QED BY <3>1, <3>2, <3>3
  <2>4. QED BY <1>1, <2>2, <2>3
<1>5. CASE Crash \/ Restart \/ UNCHANGED vars \/ \E j \in Conns : Reset(j)
  <2>1. /\ pc' = pc
        /\ cur'[k] = cur[k] \/ cur'[k] = None
        /\ up'[k] = up[k] \/ up'[k] = <<>>
        /\ down'[k] = down[k] \/ down'[k] = <<>>
    BY <1>5 DEF Crash, Restart, Reset, vars, client, daemon, wires, Inv, TypeOK
  <2>2. QED BY <1>1, <1>2, <2>1 DEF HeadsOf
<1>6. QED BY <1>3, <1>4, <1>5 DEF Next

RunInv == Inv /\ RunsInv /\ GoneInv /\ MadeInv

LEMMA RunInit == Init => RunInv
<1> SUFFICES ASSUME Init PROVE RunInv
  OBVIOUS
<1>1. Inv
  BY InvInit
<1>2. \A k \in Conns, c \in Calls : ~Pending(k, c)
  BY DEF Init, Pending
<1>3. ASSUME NEW c \in Calls PROVE RunsOf(c)
  <2>1. /\ pc[c] = "idle" /\ retried[c] = FALSE /\ runs[c] = 0
        /\ ~New(c) /\ ~Old(c)
    BY <1>2 DEF Init, New, Old, Retry, Conns, Stages
  <2>2. Due(c) = 0
    BY <2>1 DEF Due
  <2>3. QED BY <1>2, <2>1, <2>2 DEF RunsOf
<1>4. GoneInv /\ MadeInv
  <2>1. ASSUME NEW k \in Conns, NEW c \in Calls PROVE ~Carries(k, c)
    <3>1. Single(k) /\ TypeOK /\ ~HeadsOf(k, c)
      BY <1>1, ConnTypes DEF Init, HeadsOf, Inv, AnswerInv, Answers
    <3>2. QED BY <3>1, CarriesIs
  <2>2. GoneInv
    BY DEF Init, GoneInv
  <2>3. QED BY <2>1, <2>2 DEF MadeInv
<1>5. QED BY <1>1, <1>3, <1>4 DEF RunInv, RunsInv

LEMMA RunStep == RunInv /\ [Next]_vars => RunInv'
BY InvStep, RunsStep, GoneStep, MadeStep DEF RunInv

LEMMA RunInvariance == Spec => []RunInv
BY RunInit, RunStep, PTL DEF Spec

\* What is due bounds what ran.
LEMMA RunsBound == RunInv => RunTwiceOnlyIfLost
<1> SUFFICES ASSUME RunInv, NEW c \in Calls, runs[c] > 1
             PROVE  runs[c] = 2 /\ c \in lost /\ reused[c]
  BY DEF RunTwiceOnlyIfLost
<1>1. RunsOf(c) /\ runs[c] \in Nat /\ Due(c) \in Nat /\ Due(c) >= runs[c]
  BY DueIs DEF RunInv, RunsInv, Inv
<1>2. Due(c) > 1 /\ runs[c] = 2
  BY <1>1 DEF RunsOf
<1>3. c \in lost /\ retried[c]
  BY <1>1, <1>2 DEF RunsOf
<1>4. QED BY <1>1, <1>2, <1>3 DEF RunsOf

\* The retry policy of execViaMux: a command runs twice at most, and twice
\* only if the session that carried its first line was lost under it.  That
\* the session was a reused one is so because only then a retry is made.
THEOREM RunsTwiceOnlyIfLost == Spec => []RunTwiceOnlyIfLost
BY RunInvariance, RunsBound, PTL

----------------------------------------------------------------------------
(* The pool implements the abstract exec service.                          *)

\* A call that is under way has asked, and has no answer yet.
Asked == {"lock", "dial1", "await1"} \cup Holding

LEMMA PhaseIs ==
  ASSUME NEW c \in Calls
  PROVE  /\ pc[c] = "idle" => Phase[c] = "idle"
         /\ pc[c] = "done" => Phase[c] = "answered"
         /\ pc[c] \notin {"idle", "done"} => Phase[c] = "pending"
BY DEF Phase

\* A call reaches its answer from anywhere on its way, and only there.
LEMMA ClientOutcome ==
  ASSUME Inv, NEW c \in Calls, ClientStep(c)
  PROVE  /\ pc[c] \in Asked
         /\ \/ pc'[c] \in Asked /\ result' = result
            \/ pc'[c] = "done" /\ \E m \in Outcomes : result' = [result EXCEPT ![c] = m]
         /\ pc' = [pc EXCEPT ![c] = pc'[c]]
<1> USE DEF Inv
<1>0. /\ pc \in [Calls -> {"idle", "done"} \cup Asked]
      /\ \A k \in Conns : down[k] # <<>> => Head(down[k]) \in DownLines
      /\ OneShot(c) \in Conns
      /\ pc[c] \in {"send", "await"} => sess \in Conns
  BY DownTypes, ConnTypes DEF TypeOK, Asked, SessionInv
<1>1. \A t \in {"REPLY", "REFUSED", "error"} : Line(t, c) \in Outcomes
  BY LineTypes
<1>2. \A x \in DownLines : x.type \in {"REPLY", "REFUSED"} => x \in Outcomes
  BY LineTypes
<1>3. CASE Lock(c) \/ Dial(c) \/ Established(c) \/ Send(c) \/ Dial1(c)
  BY <1>0, <1>3 DEF Lock, Dial, Established, Send, Dial1, Goto, Asked, Holding
<1>4. CASE DialFails(c) \/ Dial1Fails(c) \/ Receive1Fails(c)
  BY <1>0, <1>1, <1>4 DEF DialFails, Dial1Fails, Receive1Fails, Return, Answer1, Goto, Asked, Holding
<1>5. CASE NotMux(c) \/ ProbeFails(c)
  BY <1>0, <1>1, <1>5 DEF NotMux, ProbeFails, GiveUpMux, Return, Goto, Asked, Holding
<1>6. CASE SendFails(c) \/ ReceiveFails(c) \/ ReceiveTimesOut(c)
  BY <1>0, <1>1, <1>6 DEF SendFails, ReceiveFails, ReceiveTimesOut, Failed, Return, Goto, Asked, Holding
<1>7. CASE Receive(c)
  BY <1>0, <1>1, <1>2, <1>7 DEF Receive, Failed, Return, Goto, Asked, Holding
<1>8. CASE Receive1(c)
  BY <1>0, <1>1, <1>2, <1>8 DEF Receive1, Goto, Asked, Holding
<1>9. QED BY <1>3, <1>4, <1>5, <1>6, <1>7, <1>8 DEF ClientStep

\* A step of a call is its invocation, its answer, or none of the service's.
LEMMA ClientServes ==
  ASSUME Inv, Inv', NEW c \in Calls, Invoke(c) \/ ClientStep(c)
  PROVE  [Service!ANext]_(Service!avars)
<1>1. UNCHANGED <<runs, lost>> /\ pc \in [Calls -> {"idle", "done"} \cup Asked]
  BY ClientFrame DEF Inv, TypeOK, Asked
<1>2. CASE Invoke(c)
  <2>1. pc[c] = "idle" /\ pc' = [pc EXCEPT ![c] = "lock"] /\ result' = result
    BY <1>2 DEF Invoke, Goto
  <2>2. Phase[c] = "idle" /\ Phase' = [Phase EXCEPT ![c] = "pending"]
    BY <1>1, <2>1 DEF Phase
  <2>3. AnswerKind' = AnswerKind
    BY <2>1 DEF AnswerKind
  <2>4. QED BY <1>1, <2>2, <2>3 DEF Service!ANext, Service!Ask
<1>3. CASE ClientStep(c)
  <2>1. /\ pc[c] \in Asked /\ pc' = [pc EXCEPT ![c] = pc'[c]]
        /\ \/ pc'[c] \in Asked /\ result' = result
           \/ pc'[c] = "done" /\ \E m \in Outcomes : result' = [result EXCEPT ![c] = m]
    BY <1>3, ClientOutcome
  <2>2. Phase[c] = "pending"
    BY <2>1 DEF Phase, Asked, Holding
  <2>3. CASE pc'[c] \in Asked /\ result' = result
    <3>1. Phase' = Phase
      BY <1>1, <2>1, <2>3 DEF Phase, Asked, Holding
    <3>2. AnswerKind' = AnswerKind
      BY <2>3 DEF AnswerKind
    <3>3. QED BY <1>1, <3>1, <3>2 DEF Service!avars
  <2>4. ASSUME NEW m \in Outcomes, pc'[c] = "done", result' = [result EXCEPT ![c] = m]
        PROVE  Service!Answer(c)
    <3>1. Phase' = [Phase EXCEPT ![c] = "answered"]
      BY <1>1, <2>1, <2>4 DEF Phase
    <3>2. m # None /\ m.type \in {"REPLY", "REFUSED", "error"} /\ result'[c] = m
      BY <2>4, NoneAssumption DEF Outcomes, Inv, TypeOK
    <3>3. result \in [Calls -> Outcomes \cup {None}]
      BY DEF Inv, TypeOK
    <3>4. CASE m.type = "REPLY"
      <4>1. runs[c] > 0
        BY <1>1, <3>2, <3>4 DEF Inv, AnswersMatch
      <4>2. AnswerKind' = [AnswerKind EXCEPT ![c] = "envelope"]
        BY <2>4, <3>2, <3>3, <3>4 DEF AnswerKind
      <4>3. QED BY <1>1, <2>2, <3>1, <4>1, <4>2 DEF Service!Answer
    <3>5. CASE m.type # "REPLY"
      <4>1. AnswerKind' = [AnswerKind EXCEPT ![c] = "failure"]
        BY <2>4, <3>2, <3>3, <3>5 DEF AnswerKind
      <4>2. QED BY <1>1, <2>2, <3>1, <4>1 DEF Service!Answer
    <3>6. QED BY <3>4, <3>5
  <2>5. QED BY <2>1, <2>3, <2>4 DEF Service!ANext
<1>4. QED BY <1>2, <1>3

\* A run is one of the runs the service allows: the first, or a second one of
\* a call that lost its connection.
LEMMA ExecuteServes ==
  ASSUME RunInv, NEW k \in Conns, Execute(k)
  PROVE  [Service!ANext]_(Service!avars)
<1> USE DEF RunInv, Inv
<1>1. UNCHANGED <<pc, result, lost>> /\ srv[k] = "exec" /\ runs' = [runs EXCEPT ![cur[k]] = @ + 1]
  BY DEF Execute, client, faults
<1>2. Owned(k) /\ Single(k) /\ TypeOK
  BY DEF AnswerInv, Answers
<1>3. PICK c \in Calls : c = cur[k]
  BY <1>1, <1>2 DEF Owned, Owns
<1>4. Phase' = Phase /\ AnswerKind' = AnswerKind
  BY <1>1 DEF Phase, AnswerKind
<1>5. Phase[c] # "idle"
  <2>1. Carries(k, c)
    BY <1>3 DEF Carries
  <2>2. QED BY <2>1 DEF MadeInv, Phase
<1>6. runs[c] = 0 \/ (runs[c] = 1 /\ c \in lost)
  <2>1. Old(c) \/ New(c)
    BY <1>1, <1>3 DEF Old, New, Retry, Pending
  <2>2. RunsOf(c) /\ runs[c] \in Nat /\ Due(c) \in Nat /\ Due(c) > runs[c]
    BY <2>1, DueIs DEF RunsInv
  <2>3. Due(c) <= 2 /\ (Due(c) > 1 => c \in lost)
    BY <2>2 DEF RunsOf
  <2>4. QED BY <2>2, <2>3
<1>7. Service!Run(c)
  BY <1>1, <1>3, <1>4, <1>5, <1>6 DEF Service!Run
<1>8. QED BY <1>7 DEF Service!ANext

\* A fault breaks the calls that are under way on a connection, and no other.
LEMMA FaultServes ==
  ASSUME RunInv, Crash \/ \E k \in Conns : Reset(k)
  PROVE  Service!ANext
<1>1. Phase' = Phase /\ AnswerKind' = AnswerKind /\ runs' = runs
  <2>1. UNCHANGED <<pc, result, runs>>
    BY DEF Crash, Reset, client, daemon
  <2>2. QED BY <2>1 DEF Phase, AnswerKind
<1>2. PICK S \in SUBSET {c \in Calls : \E k \in Conns : Carries(k, c)} : lost' = lost \cup S
  <2>1. CASE Crash
    <3>1. WITNESS {c \in Calls : \E k \in Conns : ~closed[k] /\ Carries(k, c)}
                    \in SUBSET {c \in Calls : \E k \in Conns : Carries(k, c)}
    <3>2. QED BY <2>1 DEF Crash
  <2>2. ASSUME NEW k \in Conns, Reset(k)
        PROVE  \E S \in SUBSET {c \in Calls : \E j \in Conns : Carries(j, c)} : lost' = lost \cup S
    <3>1. WITNESS {c \in Calls : Carries(k, c)}
                    \in SUBSET {c \in Calls : \E j \in Conns : Carries(j, c)}
    <3>2. QED BY <2>2 DEF Reset
  <2>3. QED BY <2>1, <2>2
<1>3. \A c \in S : c \in Calls /\ Phase[c] # "idle"
  BY DEF RunInv, MadeInv, Phase
<1>4. Service!Break
  BY <1>1, <1>2, <1>3 DEF Service!Break
<1>5. QED BY <1>4 DEF Service!ANext

\* Everything else is invisible to a caller.
LEMMA HiddenStep ==
  ASSUME TypeOK, UNCHANGED vars \/ Restart \/ \E k \in Conns : DaemonStep(k) /\ ~Execute(k)
  PROVE  UNCHANGED Service!avars
<1>1. UNCHANGED <<pc, result, runs, lost>>
  BY DaemonFrame DEF vars, client, daemon, faults, Restart
<1>2. QED BY <1>1 DEF Service!avars, Phase, AnswerKind

\* The pool, its one retry and its one-shot fallback together are the exec
\* service ExecCommandStructuredTimeout offers: one answer per call, an
\* envelope only for a command that ran, a second run only of a command whose
\* connection was lost.
THEOREM ServiceIsImplemented == Spec => ImplementsService
<1>1. Init => Service!AInit
  BY DEF Init, Service!AInit, Phase, AnswerKind
<1>2. ASSUME RunInv, RunInv', [Next]_vars PROVE [Service!ANext]_(Service!avars)
  <2>1. Inv /\ Inv' /\ TypeOK
    BY <1>2 DEF RunInv, Inv
  <2>2. ASSUME NEW c \in Calls, Invoke(c) \/ ClientStep(c) PROVE [Service!ANext]_(Service!avars)
    BY <2>1, <2>2, ClientServes
  <2>3. ASSUME NEW k \in Conns, DaemonStep(k) PROVE [Service!ANext]_(Service!avars)
    BY <1>2, <2>1, <2>3, ExecuteServes, HiddenStep
  <2>4. CASE Crash \/ \E k \in Conns : Reset(k)
    BY <1>2, <2>4, FaultServes
  <2>5. CASE Restart \/ UNCHANGED vars
    BY <2>1, <2>5, HiddenStep
  <2>6. QED BY <1>2, <2>2, <2>3, <2>4, <2>5 DEF Next
<1>3. QED BY <1>1, <1>2, RunInvariance, PTL DEF Spec, ImplementsService, Service!ASpec
=============================================================================
