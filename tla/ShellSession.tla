---------------------------- MODULE ShellSession ----------------------------
(***************************************************************************)
(* The interactive shell: Connect of internal/server/client.go and the end *)
(* of handleConnection in server.go.                                       *)
(*                                                                         *)
(* The client puts its terminal into raw mode and copies it to the daemon, *)
(* window sizes in the same stream as escape sequences (one of them is     *)
(* never split here).  The daemon looks for a verb for half a second, then *)
(* starts a login shell on a pseudo terminal and copies both ways, until   *)
(* the shell ends.                                                         *)
(***************************************************************************)
EXTENDS Naturals, Sequences

CONSTANTS MaxInput,  \* bound: keys and window sizes the terminal produces
          MaxLines   \* bound: lines the shell prints

ASSUME ShellAssumption == MaxInput \in Nat /\ MaxLines \in Nat

VARIABLES
  stage,      \* handleConnection: "peek", "shell", "closing", "returned", "denied"
  tcp,        \* the client's bytes under way: 0 is a key, n > 0 the n-th size
  reader,     \* what the bufio.Reader took in while it looked for a verb
  typed,      \* what was written to the pty
  winsize,    \* the pty's window size, 0 before it is set
  sizes,      \* sizes the client sent
  input,      \* keys and sizes the client sent
  login,      \* the login shell
  output,     \* its lines: printed, still in the pty, sent on, shown
  copy,       \* the daemon's goroutines, by direction
  closed,     \* the daemon closed the connection
  term        \* Connect: its two copies, and the function itself

shellVars == <<stage, tcp, reader, typed, winsize, sizes, input, login, output, copy, closed, term>>

Key == 0

ShellTypeOK ==
  /\ stage \in {"peek", "shell", "closing", "returned", "denied"}
  /\ \A s \in {tcp, reader, typed} : s \in Seq(0..MaxInput)
  /\ {winsize, sizes, input} \subseteq 0..MaxInput
  /\ login \in {"none", "running", "exited"}
  /\ output \in [{"printed", "pty", "net", "shown"} -> 0..MaxLines]
  /\ copy \in [{"in", "out"} -> {"none", "copying", "sending", "done"}]
  /\ closed \in BOOLEAN
  /\ term \in [{"stdin", "stdout", "connect"} -> {"copying", "done"}]

ShellInit ==
  /\ stage = "peek"
  /\ tcp = <<>> /\ reader = <<>> /\ typed = <<>>
  /\ winsize = 0 /\ sizes = 0 /\ input = 0
  /\ login = "none"
  /\ output = [q \in {"printed", "pty", "net", "shown"} |-> 0]
  /\ copy = [d \in {"in", "out"} |-> "none"]
  /\ closed = FALSE
  /\ term = [c \in {"stdin", "stdout", "connect"} |-> "copying"]

Served  == <<stage, reader, typed, winsize, login, copy, closed>>
Typing  == <<tcp, sizes, input>>

----------------------------------------------------------------------------
(* The client.                                                             *)

Connected == term["connect"] = "copying"

\* Connect sends the size of the window at once, and again on SIGWINCH.
SendWinsize ==
  /\ Connected
  /\ input < MaxInput
  /\ input' = input + 1
  /\ sizes' = sizes + 1
  /\ tcp' = IF closed THEN tcp ELSE Append(tcp, sizes')
  /\ UNCHANGED <<Served, output, term>>

PressKey ==
  /\ Connected /\ term["stdin"] = "copying"
  /\ sizes > 0
  /\ input < MaxInput
  /\ input' = input + 1
  /\ IF closed THEN /\ term' = [term EXCEPT !["stdin"] = "done"]
                    /\ UNCHANGED tcp
               ELSE tcp' = Append(tcp, Key) /\ UNCHANGED term
  /\ UNCHANGED <<Served, sizes, output>>

\* The client's standard input ends.
StdinEnds ==
  /\ Connected /\ term["stdin"] = "copying"
  /\ term' = [term EXCEPT !["stdin"] = "done"]
  /\ UNCHANGED <<Served, Typing, output>>

Show ==
  /\ Connected
  /\ output["net"] > 0
  /\ output' = [output EXCEPT !["net"] = @ - 1, !["shown"] = @ + 1]
  /\ UNCHANGED <<Served, Typing, term>>

StdoutEnds ==
  /\ Connected /\ term["stdout"] = "copying"
  /\ closed /\ output["net"] = 0
  /\ term' = [term EXCEPT !["stdout"] = "done"]
  /\ UNCHANGED <<Served, Typing, output>>

\* Mutant: Connect waits for both of its copies.
ConnectReturns_Both ==
  /\ Connected
  /\ term["stdin"] = "done" /\ term["stdout"] = "done"
  /\ term' = [term EXCEPT !["connect"] = "done"]
  /\ UNCHANGED <<Served, Typing, output>>

\* The first copy to end ends Connect, which closes the connection.
ConnectReturns ==
  /\ Connected
  /\ term["stdin"] = "done" \/ term["stdout"] = "done"
  /\ term' = [term EXCEPT !["connect"] = "done"]
  /\ UNCHANGED <<Served, Typing, output>>

----------------------------------------------------------------------------
(* The daemon.                                                             *)

\* The escape sequence is no verb, or nothing comes for 500 ms: what the
\* buffered reader took in stays there, a later reader uses the connection.
Peek ==
  /\ stage = "peek"
  /\ \E n \in 0..Len(tcp) :
       /\ reader' = SubSeq(tcp, 1, n)
       /\ tcp' = SubSeq(tcp, n + 1, Len(tcp))
  /\ \/ stage' = "shell" /\ login' = "running"
        /\ copy' = [d \in {"in", "out"} |-> "copying"] /\ UNCHANGED closed
     \/ stage' = "denied" /\ closed' = TRUE /\ UNCHANGED <<login, copy>>
  /\ UNCHANGED <<typed, winsize, sizes, input, output, term>>

\* The goroutine of the shell's input: a chunk that starts with a window size
\* sets it, the rest of the chunk is dropped; any other chunk is typed.
ReadChunk ==
  /\ copy["in"] = "copying" /\ ~closed
  /\ \E n \in 1..Len(tcp) :
       /\ tcp' = SubSeq(tcp, n + 1, Len(tcp))
       /\ IF Head(tcp) # Key THEN winsize' = Head(tcp) /\ UNCHANGED typed
          ELSE typed' = typed \o SubSeq(tcp, 1, n) /\ UNCHANGED winsize
  /\ UNCHANGED <<stage, reader, sizes, input, login, output, copy, closed, term>>

\* The connection ended, at either side.
InputCopyEnds ==
  /\ copy["in"] = "copying"
  /\ closed \/ (tcp = <<>> /\ ~Connected)
  /\ copy' = [copy EXCEPT !["in"] = "sending"]
  /\ UNCHANGED <<stage, reader, typed, winsize, Typing, login, output, closed, term>>

SendOutput ==
  /\ copy["out"] = "copying" /\ ~closed /\ Connected
  /\ output["pty"] > 0
  /\ output' = [output EXCEPT !["pty"] = @ - 1, !["net"] = @ + 1]
  /\ UNCHANGED <<Served, Typing, term>>

\* The pty was hung up and is drained, or the line cannot be written.
OutputCopyEnds ==
  /\ copy["out"] = "copying"
  /\ \/ output["pty"] = 0 /\ login = "exited"
     \/ output["pty"] > 0 /\ (closed \/ ~Connected)
  /\ copy' = [copy EXCEPT !["out"] = "sending"]
  /\ UNCHANGED <<stage, reader, typed, winsize, Typing, login, output, closed, term>>

\* cmd.Wait returns and the connection is closed, whatever the pty holds.
ShellReaped ==
  /\ stage = "shell" /\ login = "exited"
  /\ stage' = "closing"
  /\ closed' = TRUE
  /\ UNCHANGED <<reader, typed, winsize, Typing, login, output, copy, term>>

\* One of the two goroutines is received from and the handler returns; the
\* other one waits for a receiver for good.
Join ==
  /\ stage = "closing"
  /\ \E d \in {"in", "out"} : copy[d] = "sending" /\ copy' = [copy EXCEPT ![d] = "done"]
  /\ stage' = "returned"
  /\ UNCHANGED <<reader, typed, winsize, Typing, login, output, closed, term>>

----------------------------------------------------------------------------
(* The login shell.                                                        *)

PrintLine ==
  /\ login = "running"
  /\ output["printed"] < MaxLines
  /\ output' = [output EXCEPT !["printed"] = @ + 1, !["pty"] = @ + 1]
  /\ UNCHANGED <<Served, Typing, term>>

LoginExits ==
  /\ login = "running"
  /\ login' = "exited"
  /\ UNCHANGED <<stage, reader, typed, winsize, Typing, output, copy, closed, term>>

----------------------------------------------------------------------------
ShellFairStep ==
  \/ Show \/ StdoutEnds \/ ConnectReturns
  \/ Peek \/ ReadChunk \/ InputCopyEnds \/ SendOutput \/ OutputCopyEnds \/ ShellReaped \/ Join

ShellNext == ShellFairStep \/ SendWinsize \/ PressKey \/ StdinEnds \/ PrintLine \/ LoginExits

\* Every step of either program uses something up, so fairness of the union is
\* fairness of each.  No key need be pressed and no shell need end.
ShellSpec == ShellInit /\ [][ShellNext]_shellVars /\ WF_shellVars(ShellFairStep)

----------------------------------------------------------------------------
\* When the shell ends, or is denied, the user gets the terminal back and the
\* daemon's handler returns with at most one of its goroutines left behind,
\* though neither program reads what would tell it so directly (Connect,
\* handleConnection).
ExitIsSeen ==
  (login = "exited" \/ stage = "denied") ~>
    /\ ~Connected
    /\ stage = "denied" \/ (stage = "returned" /\ \E d \in {"in", "out"} : copy[d] = "done")
=============================================================================
