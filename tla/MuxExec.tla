------------------------------ MODULE MuxExec ------------------------------
(***************************************************************************)
(* The persistent exec path of a long-lived client (`vssh mcp`) against    *)
(* one daemon: internal/server/mux_pool.go on the client side, HandleMux   *)
(* and the EXEJ branch of HandleTransfer on the daemon side.               *)
(*                                                                         *)
(* Every call of ExecCommandStructuredTimeout is a goroutine.  Calls to    *)
(* one host share a muxSession, whose mutex is held from the check of      *)
(* noMux to the return of execViaMux; a call that cannot use the session   *)
(* falls back to a connection of its own, outside the mutex.               *)
(*                                                                         *)
(* A call dials at most three connections: one to establish the session,  *)
(* one for the single retry, one for the one-shot fallback.  A connection  *)
(* is therefore named by the call that dialed it and the stage it was in.  *)
(***************************************************************************)
EXTENDS Naturals, Sequences

CONSTANTS Calls,       \* the exec calls, each made by a goroutine of its own
          None,        \* no call, no connection, no result yet
          MaxCrashes,  \* bound: how often the daemon may die
          MaxResets    \* bound: how often the network may cut a connection

Stages == {"first", "retry", "oneshot"}
Conns == Calls \X Stages

\* What a call returns.
Outcomes == [type : {"REPLY", "REFUSED", "error"}, call : Calls \cup {None}]

ASSUME NoneAssumption == None \notin Calls \cup Conns \cup Outcomes
ASSUME BoundAssumption == MaxCrashes \in Nat /\ MaxResets \in Nat

VARIABLES
  pc,         \* where each call is in ExecCommandStructuredTimeout
  mu,         \* the call holding muxSession.mu, or None
  sess,       \* muxSession.conn
  noMux,      \* muxSession.noMux
  reused,     \* execViaMux's local `reused`, per call
  retried,    \* whether the call is in the retry of execViaMux
  result,     \* what the call returned, None until it did
  srv,        \* the daemon's handler of each connection
  cur,        \* the call whose command that handler is executing
  up, down,   \* the lines in flight to the daemon and to the client
  closed,     \* the client closed its end
  cut,        \* the network reset the connection
  alive,      \* the daemon process runs
  speaksMux,  \* the daemon build knows the MUX verb
  runs,       \* how often the daemon executed the command of each call
  lost,       \* the calls whose connection died while it carried them
  crashes, resets

client == <<pc, mu, sess, noMux, reused, retried, result>>
daemon == <<srv, cur, alive, speaksMux, runs>>
faults == <<lost, crashes, resets>>
wires  == <<up, down, closed, cut>>
vars   == <<client, daemon, wires, faults>>

Line(t, c) == [type |-> t, call |-> c]
UpLines   == [type : {"MUX", "EXEJ"}, call : Calls \cup {None}]
DownLines == [type : {"MUX_OK", "LINE", "REPLY", "REFUSED"}, call : Calls \cup {None}]

\* The states in which execViaMux holds the session's mutex.
Holding == {"dial", "probe", "send", "await"}

TypeOK ==
  /\ pc \in [Calls -> {"idle", "lock", "dial1", "await1", "done"} \cup Holding]
  /\ mu \in Calls \cup {None}
  /\ sess \in Conns \cup {None}
  /\ noMux \in BOOLEAN
  /\ reused \in [Calls -> BOOLEAN]
  /\ retried \in [Calls -> BOOLEAN]
  /\ result \in [Calls -> Outcomes \cup {None}]
  /\ srv \in [Conns -> {"none", "verb", "loop", "exec", "ran", "shell", "gone"}]
  /\ cur \in [Conns -> Calls \cup {None}]
  /\ up \in [Conns -> Seq(UpLines)]
  /\ down \in [Conns -> Seq(DownLines)]
  /\ closed \in [Conns -> BOOLEAN]
  /\ cut \in [Conns -> BOOLEAN]
  /\ alive \in BOOLEAN
  /\ speaksMux \in BOOLEAN
  /\ runs \in [Calls -> Nat]
  /\ lost \in SUBSET Calls
  /\ crashes \in 0..MaxCrashes
  /\ resets \in 0..MaxResets

Init ==
  /\ pc = [c \in Calls |-> "idle"]
  /\ mu = None
  /\ sess = None
  /\ noMux = FALSE
  /\ reused = [c \in Calls |-> FALSE]
  /\ retried = [c \in Calls |-> FALSE]
  /\ result = [c \in Calls |-> None]
  /\ srv = [k \in Conns |-> "none"]
  /\ cur = [k \in Conns |-> None]
  /\ up = [k \in Conns |-> <<>>]
  /\ down = [k \in Conns |-> <<>>]
  /\ closed = [k \in Conns |-> FALSE]
  /\ cut = [k \in Conns |-> FALSE]
  /\ alive = TRUE
  /\ speaksMux \in BOOLEAN
  /\ runs = [c \in Calls |-> 0]
  /\ lost = {}
  /\ crashes = 0
  /\ resets = 0

----------------------------------------------------------------------------
(* The client.                                                             *)

\* The connection establish dials: the first one, or the one of the retry.
Dialed(c) == <<c, IF retried[c] THEN "retry" ELSE "first">>

\* A read of k finds the peer gone: EOF or a reset, with nothing left to read.
AtEOF(k) == down[k] = <<>> /\ (srv[k] = "gone" \/ cut[k])

Goto(c, label) == pc' = [pc EXCEPT ![c] = label]

\* execViaMux returns an answer: the deferred Unlock runs.
Return(c, type) ==
  /\ Goto(c, "done")
  /\ result' = [result EXCEPT ![c] = Line(type, c)]
  /\ mu' = None

Invoke(c) ==
  /\ pc[c] = "idle"
  /\ Goto(c, "lock")
  /\ UNCHANGED <<mu, sess, noMux, reused, retried, result, daemon, wires, faults>>

\* Mutant: the session is used without waiting for the mutex.
Lock_NoWait(c) ==
  /\ pc[c] = "lock"
  /\ mu' = IF noMux THEN None ELSE c
  /\ reused' = [reused EXCEPT ![c] = ~noMux /\ sess # None]
  /\ Goto(c, IF noMux THEN "dial1" ELSE IF sess # None THEN "send" ELSE "dial")
  /\ UNCHANGED <<sess, noMux, retried, result, daemon, wires, faults>>

\* execViaMux under the mutex: a known non-MUX daemon sends the call to the
\* one-shot path, an open session is reused, otherwise one is established.
Lock(c) ==
  /\ pc[c] = "lock"
  /\ mu = None
  /\ mu' = IF noMux THEN None ELSE c
  /\ reused' = [reused EXCEPT ![c] = ~noMux /\ sess # None]
  /\ Goto(c, IF noMux THEN "dial1" ELSE IF sess # None THEN "send" ELSE "dial")
  /\ UNCHANGED <<sess, noMux, retried, result, daemon, wires, faults>>

\* establish: dialAuth succeeds and "MUX\n" is written.
Dial(c) ==
  /\ pc[c] = "dial"
  /\ alive
  /\ srv' = [srv EXCEPT ![Dialed(c)] = "verb"]
  /\ up' = [up EXCEPT ![Dialed(c)] = <<Line("MUX", None)>>]
  /\ Goto(c, "probe")
  /\ UNCHANGED <<mu, sess, noMux, reused, retried, result, cur, alive, speaksMux,
                 runs, down, closed, cut, faults>>

\* dialAuth fails: the error is the call's answer (of the retry: the error
\* of the round trip that was retried).
DialFails(c) ==
  /\ pc[c] = "dial"
  /\ Return(c, "error")
  /\ UNCHANGED <<sess, noMux, reused, retried, daemon, wires, faults>>

\* establish reads MUX_OK: the connection becomes the session.
Established(c) ==
  LET k == Dialed(c) IN
  /\ pc[c] = "probe"
  /\ down[k] # <<>>
  /\ Head(down[k]).type = "MUX_OK"
  /\ down' = [down EXCEPT ![k] = Tail(@)]
  /\ sess' = k
  /\ Goto(c, "send")
  /\ UNCHANGED <<mu, noMux, reused, retried, result, daemon, up, closed, cut, faults>>

\* Mutant: the fall back to a one-shot connection keeps the mutex.
GiveUpMux_KeepsLock(c) ==
  /\ closed' = [closed EXCEPT ![Dialed(c)] = TRUE]
  /\ IF retried[c]
       THEN Return(c, "error")
       ELSE Goto(c, "dial1") /\ UNCHANGED <<mu, result>>
  /\ UNCHANGED <<sess, reused, retried, daemon, cut, faults>>

\* establish gives up without a session: the first time the call falls back
\* to a one-shot connection, in the retry it returns the earlier error.
GiveUpMux(c) ==
  /\ closed' = [closed EXCEPT ![Dialed(c)] = TRUE]
  /\ IF retried[c]
       THEN Return(c, "error")
       ELSE Goto(c, "dial1") /\ mu' = None /\ UNCHANGED result
  /\ UNCHANGED <<sess, reused, retried, daemon, cut, faults>>

\* A line that is not MUX_OK sets noMux for good ...
NotMux(c) ==
  LET k == Dialed(c) IN
  /\ pc[c] = "probe"
  /\ down[k] # <<>>
  /\ Head(down[k]).type # "MUX_OK"
  /\ noMux' = TRUE
  /\ down' = [down EXCEPT ![k] = Tail(@)]
  /\ UNCHANGED up
  /\ GiveUpMux(c)

\* ... a read error or an expired deadline does not.
ProbeFails(c) ==
  /\ pc[c] = "probe"
  /\ UNCHANGED <<noMux, up, down>>
  /\ GiveUpMux(c)

\* Mutant: every failed round trip is retried, a timed out read too.
SafeToRetry_Always(kind) == TRUE

\* A round trip failed: closeLocked drops the session (the QUIT line it
\* writes has the effect of the close), then execViaMux retries once if the
\* session was reused and safeToRetry accepts the error.
SafeToRetry(kind) == kind = "closed"

\* Mutant: a session whose read timed out stays in the pool.
Failed_KeepsTimedOut(c, kind) ==
  /\ IF kind = "timeout" THEN UNCHANGED <<closed, sess>>
     ELSE closed' = [closed EXCEPT ![sess] = TRUE] /\ sess' = None
  /\ IF reused[c] /\ ~retried[c] /\ SafeToRetry(kind)
       THEN /\ retried' = [retried EXCEPT ![c] = TRUE]
            /\ Goto(c, "dial")
            /\ UNCHANGED <<mu, result>>
       ELSE /\ UNCHANGED retried
            /\ Return(c, "error")
  /\ UNCHANGED <<noMux, reused>>

\* Mutant: closeLocked closes the connection but forgets to drop it.
Failed_ClosedStays(c, kind) ==
  /\ closed' = [closed EXCEPT ![sess] = TRUE]
  /\ UNCHANGED <<sess, retried>>
  /\ Return(c, "error")
  /\ UNCHANGED <<noMux, reused>>

\* Mutant: the retry does not ask whether the session was a reused one.
Failed_RetriesFresh(c, kind) ==
  /\ closed' = [closed EXCEPT ![sess] = TRUE]
  /\ sess' = None
  /\ IF ~retried[c] /\ SafeToRetry(kind)
       THEN /\ retried' = [retried EXCEPT ![c] = TRUE]
            /\ Goto(c, "dial")
            /\ UNCHANGED <<mu, result>>
       ELSE /\ UNCHANGED retried
            /\ Return(c, "error")
  /\ UNCHANGED <<noMux, reused>>

Failed(c, kind) ==
  /\ closed' = [closed EXCEPT ![sess] = TRUE]
  /\ sess' = None
  /\ IF reused[c] /\ ~retried[c] /\ SafeToRetry(kind)
       THEN /\ retried' = [retried EXCEPT ![c] = TRUE]
            /\ Goto(c, "dial")
            /\ UNCHANGED <<mu, result>>
       ELSE /\ UNCHANGED retried
            /\ Return(c, "error")
  /\ UNCHANGED <<noMux, reused>>

\* roundtrip writes the EXEJ line.  A write to a connection the peer has
\* already dropped may still succeed: the line then goes nowhere.
Send(c) ==
  /\ pc[c] = "send"
  /\ up' = IF srv[sess] = "gone" \/ cut[sess] THEN up
           ELSE [up EXCEPT ![sess] = Append(@, Line("EXEJ", c))]
  /\ Goto(c, "await")
  /\ UNCHANGED <<mu, sess, noMux, reused, retried, result, daemon, down, closed, cut, faults>>

SendFails(c) ==
  /\ pc[c] = "send"
  /\ srv[sess] = "gone" \/ cut[sess]
  /\ Failed(c, "closed")
  /\ UNCHANGED <<daemon, up, down, cut, faults>>

\* roundtrip reads one line: an envelope is the answer, anything else is a
\* JSON error, which fails the session.
Receive(c) ==
  /\ pc[c] = "await"
  /\ down[sess] # <<>>
  /\ LET m == Head(down[sess]) IN
       /\ down' = [down EXCEPT ![sess] = Tail(@)]
       /\ IF m.type \in {"REPLY", "REFUSED"}
            THEN /\ Goto(c, "done")
                 /\ result' = [result EXCEPT ![c] = m]
                 /\ mu' = None
                 /\ UNCHANGED <<sess, noMux, reused, retried, closed>>
            ELSE Failed(c, "bad")
  /\ UNCHANGED <<daemon, up, cut, faults>>

\* The read fails: EOF or reset ...
ReceiveFails(c) ==
  /\ pc[c] = "await"
  /\ AtEOF(sess)
  /\ Failed(c, "closed")
  /\ UNCHANGED <<daemon, up, down, cut, faults>>

\* ... or the read deadline passes, whatever is on its way.
ReceiveTimesOut(c) ==
  /\ pc[c] = "await"
  /\ Failed(c, "timeout")
  /\ UNCHANGED <<daemon, up, down, cut, faults>>

\* The one-shot connection: dial, write the EXEJ line, read one envelope.
OneShot(c) == <<c, "oneshot">>

Dial1(c) ==
  /\ pc[c] = "dial1"
  /\ alive
  /\ srv' = [srv EXCEPT ![OneShot(c)] = "verb"]
  /\ up' = [up EXCEPT ![OneShot(c)] = <<Line("EXEJ", c)>>]
  /\ Goto(c, "await1")
  /\ UNCHANGED <<mu, sess, noMux, reused, retried, result, cur, alive, speaksMux,
                 runs, down, closed, cut, faults>>

Answer1(c, type) ==
  /\ Goto(c, "done")
  /\ result' = [result EXCEPT ![c] = Line(type, c)]
  /\ UNCHANGED <<mu, sess, noMux, reused, retried, daemon, up, cut, faults>>

Dial1Fails(c) ==
  /\ pc[c] = "dial1"
  /\ Answer1(c, "error")
  /\ UNCHANGED <<down, closed>>

Receive1(c) ==
  LET k == OneShot(c) IN
  /\ pc[c] = "await1"
  /\ down[k] # <<>>
  /\ Goto(c, "done")
  /\ result' = [result EXCEPT ![c] = IF Head(down[k]).type \in {"REPLY", "REFUSED"}
                                     THEN Head(down[k]) ELSE Line("error", c)]
  /\ down' = [down EXCEPT ![k] = Tail(@)]
  /\ closed' = [closed EXCEPT ![k] = TRUE]
  /\ UNCHANGED <<mu, sess, noMux, reused, retried, daemon, up, cut, faults>>

\* EOF, reset or an expired deadline.
Receive1Fails(c) ==
  /\ pc[c] = "await1"
  /\ Answer1(c, "error")
  /\ closed' = [closed EXCEPT ![OneShot(c)] = TRUE]
  /\ UNCHANGED down

----------------------------------------------------------------------------
(* The daemon: one handler per connection.                                 *)

\* A handler's write reaches the client unless the connection is dead.
Deliver(k, line) ==
  down' = IF closed[k] \/ cut[k] THEN down ELSE [down EXCEPT ![k] = Append(@, line)]

Pop(k) == up' = [up EXCEPT ![k] = Tail(@)]

\* handleConnection dispatches the first line: "MUX" starts HandleMux; a
\* build without it answers with an unsupported-verb error and hangs up.
TakeMux(k) ==
  /\ srv[k] = "verb"
  /\ up[k] # <<>>
  /\ Head(up[k]).type = "MUX"
  /\ Pop(k)
  /\ srv' = [srv EXCEPT ![k] = IF speaksMux THEN "loop" ELSE "gone"]
  /\ Deliver(k, Line(IF speaksMux THEN "MUX_OK" ELSE "LINE", None))
  /\ UNCHANGED <<client, cur, alive, speaksMux, runs, closed, cut, faults>>

\* The verb did not arrive within the 500 ms of the peek: the connection
\* falls through to the interactive shell, which reads it as typed input.
PeekExpires(k) ==
  /\ srv[k] = "verb"
  /\ srv' = [srv EXCEPT ![k] = "shell"]
  /\ UNCHANGED <<client, cur, alive, speaksMux, runs, wires, faults>>

ShellEchoes(k) ==
  /\ srv[k] = "shell"
  /\ up[k] # <<>>
  /\ Pop(k)
  /\ Deliver(k, Line("LINE", None))
  /\ UNCHANGED <<client, daemon, closed, cut, faults>>

\* An EXEJ line, first of its connection or inside HandleMux's loop.
HasCommand(k) ==
  /\ srv[k] \in {"verb", "loop"}
  /\ up[k] # <<>>
  /\ Head(up[k]).type = "EXEJ"

\* The handler of a one-shot connection returns after its answer.
AfterAnswer(k) == IF k[2] = "oneshot" THEN "gone" ELSE "loop"

\* enforceExecPolicy lets the command through ...
TakeCommand(k) ==
  /\ HasCommand(k)
  /\ Pop(k)
  /\ srv' = [srv EXCEPT ![k] = "exec"]
  /\ cur' = [cur EXCEPT ![k] = Head(up[k]).call]
  /\ UNCHANGED <<client, alive, speaksMux, runs, down, closed, cut, faults>>

\* ... or refuses it: the answer is a denial and nothing runs.
Refuse(k) ==
  /\ HasCommand(k)
  /\ Pop(k)
  /\ srv' = [srv EXCEPT ![k] = AfterAnswer(k)]
  /\ Deliver(k, Line("REFUSED", Head(up[k]).call))
  /\ UNCHANGED <<client, cur, alive, speaksMux, runs, closed, cut, faults>>

\* ExecLocalStructured: the command takes effect.
Execute(k) ==
  /\ srv[k] = "exec"
  /\ srv' = [srv EXCEPT ![k] = "ran"]
  /\ runs' = [runs EXCEPT ![cur[k]] = @ + 1]
  /\ UNCHANGED <<client, cur, alive, speaksMux, wires, faults>>

Reply(k) ==
  /\ srv[k] = "ran"
  /\ srv' = [srv EXCEPT ![k] = AfterAnswer(k)]
  /\ cur' = [cur EXCEPT ![k] = None]
  /\ Deliver(k, Line("REPLY", cur[k]))
  /\ UNCHANGED <<client, alive, speaksMux, runs, up, closed, cut, faults>>

\* The 300 s read deadline of HandleMux: a line that is still on its way is
\* never read.
IdleClose(k) ==
  /\ srv[k] = "loop"
  /\ srv' = [srv EXCEPT ![k] = "gone"]
  /\ up' = [up EXCEPT ![k] = <<>>]
  /\ UNCHANGED <<client, cur, alive, speaksMux, runs, down, closed, cut, faults>>

\* A handler that reads from a dead connection returns.
Hangup(k) ==
  /\ srv[k] \in {"verb", "loop"}
  /\ closed[k] \/ cut[k]
  /\ srv' = [srv EXCEPT ![k] = "gone"]
  /\ up' = [up EXCEPT ![k] = <<>>]
  /\ UNCHANGED <<client, cur, alive, speaksMux, runs, down, closed, cut, faults>>

----------------------------------------------------------------------------
(* Faults.                                                                 *)

LinesOf(k) == {up[k][i] : i \in DOMAIN up[k]} \cup {down[k][i] : i \in DOMAIN down[k]}

\* Connection k holds call c: its command or its answer is under way.
Carries(k, c) == cur[k] = c \/ \E m \in LinesOf(k) : m.call = c

\* The daemon dies: every connection is closed, what was in flight is gone.
\* (An answer that still arrives is an answer read just before the crash.)
Crash ==
  /\ alive
  /\ crashes < MaxCrashes
  /\ crashes' = crashes + 1
  /\ alive' = FALSE
  /\ srv' = [k \in Conns |-> IF srv[k] = "none" THEN "none" ELSE "gone"]
  /\ cur' = [k \in Conns |-> None]
  /\ up' = [k \in Conns |-> <<>>]
  /\ down' = [k \in Conns |-> <<>>]
  /\ lost' = lost \cup {c \in Calls : \E k \in Conns : ~closed[k] /\ Carries(k, c)}
  /\ UNCHANGED <<client, speaksMux, runs, closed, cut, resets>>

\* The daemon comes back, possibly upgraded to a build that speaks MUX.
Restart ==
  /\ ~alive
  /\ alive' = TRUE
  /\ speaksMux' \in {speaksMux, TRUE}
  /\ UNCHANGED <<client, srv, cur, runs, wires, faults>>

\* A middlebox or a link failure resets an open connection.  What the
\* daemon's kernel already received can still be read by its handler.
Reset(k) ==
  /\ resets < MaxResets
  /\ srv[k] \notin {"none", "gone"}
  /\ ~closed[k] /\ ~cut[k]
  /\ resets' = resets + 1
  /\ cut' = [cut EXCEPT ![k] = TRUE]
  /\ down' = [down EXCEPT ![k] = <<>>]
  /\ lost' = lost \cup {c \in Calls : Carries(k, c)}
  /\ UNCHANGED <<client, daemon, up, closed, crashes>>

----------------------------------------------------------------------------
ClientStep(c) ==
  \/ Lock(c) \/ Dial(c) \/ DialFails(c) \/ Established(c) \/ NotMux(c) \/ ProbeFails(c)
  \/ Send(c) \/ SendFails(c) \/ Receive(c) \/ ReceiveFails(c) \/ ReceiveTimesOut(c)
  \/ Dial1(c) \/ Dial1Fails(c) \/ Receive1(c) \/ Receive1Fails(c)

DaemonStep(k) ==
  \/ TakeMux(k) \/ PeekExpires(k) \/ ShellEchoes(k) \/ TakeCommand(k) \/ Refuse(k)
  \/ Execute(k) \/ Reply(k) \/ IdleClose(k) \/ Hangup(k)

Next ==
  \/ \E c \in Calls : Invoke(c) \/ ClientStep(c)
  \/ \E k \in Conns : DaemonStep(k) \/ Reset(k)
  \/ Crash
  \/ Restart

Spec == Init /\ [][Next]_vars

\* Every wait of a call ends: dials and reads carry deadlines, and a Go mutex
\* is handed to each waiter in turn.  Nothing is assumed of the daemon.
FairSpec == Spec /\ \A c \in Calls : WF_vars(ClientStep(c))

----------------------------------------------------------------------------
(* Safety.                                                                 *)

\* A call that returns an answer returns its own: never the late reply of
\* another command that used the session before it (roundtrip, mux_pool.go).
\* And an execution envelope is returned only for a command that did run.
AnswersMatch ==
  \A c \in Calls : result[c] # None =>
    /\ result[c].call = c
    /\ result[c].type = "REPLY" => runs[c] > 0

\* Between calls the pooled session is clean: no command, no reply and no
\* handshake line is left on it, so the next caller starts a fresh exchange.
Idle(k) == up[k] = <<>> /\ down[k] = <<>> /\ cur[k] = None

SessionCleanWhenFree == mu = None /\ sess # None => Idle(sess) /\ ~closed[sess]

\* The retry policy of execViaMux: a command runs twice only if the reused
\* session died (daemon crash or network reset) while it carried the call; an
\* idle close or a timed out read never leads to a second execution.
RunTwiceOnlyIfLost ==
  \A c \in Calls : runs[c] > 1 => runs[c] = 2 /\ c \in lost /\ reused[c]

\* What the comments on safeToRetry and execViaMux promise: a command that
\* may already have run on the daemon is not executed again.
AtMostOnce == \A c \in Calls : runs[c] <= 1

\* Every call returns: the session's mutex is released on every path.
EveryCallReturns == \A c \in Calls : pc[c] = "lock" ~> pc[c] = "done"

----------------------------------------------------------------------------
(* The inductive invariant behind AnswersMatch and SessionCleanWhenFree.   *)

\* Call d is the one that will read k's next answer, unless k was dropped.
Owns(k, d) ==
  /\ d \in Calls
  /\ \/ closed[k]
     \/ pc[d] = "await" /\ sess = k
     \/ pc[d] = "await1" /\ k = OneShot(d)

\* At most one line or command is under way on k.
Single(k) ==
  /\ Len(up[k]) <= 1 /\ Len(down[k]) <= 1
  /\ up[k] # <<>> => down[k] = <<>> /\ cur[k] = None
  /\ down[k] # <<>> => cur[k] = None

\* The mutex: its holder is the call inside execViaMux's critical section.
LockInv == \A c \in Calls : pc[c] \in Holding <=> mu = c

SessionInv ==
  /\ sess # None => ~closed[sess] /\ sess[2] # "oneshot" /\ srv[sess] # "none"
  /\ \A c \in Calls : pc[c] \in {"send", "await"} => sess # None
  /\ \A c \in Calls : pc[c] \in {"dial", "probe"} => sess = None

\* A connection is dialed once, before anything else happens to it.
FreshInv ==
  /\ \A k \in Conns : srv[k] = "none" =>
       up[k] = <<>> /\ down[k] = <<>> /\ cur[k] = None /\ ~closed[k]
  /\ \A c \in Calls :
       /\ pc[c] \in {"idle", "lock"} => srv[<<c, "first">>] = "none" /\ ~retried[c]
       /\ ~retried[c] => srv[<<c, "retry">>] = "none"
       /\ pc[c] = "dial" => srv[Dialed(c)] = "none"
       /\ pc[c] \notin {"await1", "done"} => srv[OneShot(c)] = "none"
       /\ pc[c] = "probe" => ~closed[Dialed(c)] /\ srv[Dialed(c)] # "none"
       /\ pc[c] = "await1" => ~closed[OneShot(c)] /\ srv[OneShot(c)] # "none"

\* A connection carries at most one exchange, none when its session is idle.
LoadInv ==
  /\ \A k \in Conns : Single(k)
  /\ sess # None => Idle(sess) \/ \E c \in Calls : pc[c] = "await"

\* Whatever a connection carries belongs to the call that waits on it.
Owned(k) ==
  /\ up[k] # <<>> /\ Head(up[k]).type = "EXEJ" => Owns(k, Head(up[k]).call)
  /\ down[k] # <<>> /\ Head(down[k]).type \in {"REPLY", "REFUSED"} =>
       /\ Owns(k, Head(down[k]).call)
       /\ Head(down[k]).type = "REPLY" => runs[Head(down[k]).call] > 0
  /\ cur[k] # None <=> srv[k] \in {"exec", "ran"}
  /\ cur[k] # None => Owns(k, cur[k])
  /\ srv[k] = "ran" => runs[cur[k]] > 0

OwnerInv == \A k \in Conns : Owned(k)

IInv == LockInv /\ SessionInv /\ FreshInv /\ LoadInv /\ OwnerInv /\ AnswersMatch

----------------------------------------------------------------------------
(* Refinement: the pool implements the abstract service.                   *)

Phase == [c \in Calls |-> CASE pc[c] = "idle" -> "idle"
                            [] pc[c] = "done" -> "answered"
                            [] OTHER -> "pending"]

AnswerKind == [c \in Calls |-> IF result[c] = None THEN "none"
                               ELSE IF result[c].type = "REPLY" THEN "envelope"
                               ELSE "failure"]

Service == INSTANCE ExecService
             WITH phase <- Phase, answer <- AnswerKind, ran <- runs, broken <- lost

\* The pool, its retry and its one-shot fallback together behave as one exec
\* service: one answer per call, an envelope only for a command that ran, and
\* a second run only for a call that lost its connection (execViaMux).
ImplementsService == Service!ASpec
=============================================================================
