---------------------------- MODULE ExecService ----------------------------
(***************************************************************************)
(* What ExecCommandStructuredTimeout promises its callers, without         *)
(* sessions, connections or retries (internal/server/mux_pool.go,          *)
(* internal/server/transfer.go).                                           *)
(*                                                                         *)
(* A call is pending from its invocation to its one answer.  An envelope   *)
(* is answered only for a command that ran.  A call that failed may have   *)
(* run, and may even run after it was answered; a second execution happens *)
(* only to a call whose connection was lost under it.                      *)
(***************************************************************************)
EXTENDS Naturals

CONSTANT Calls

VARIABLES phase,   \* "idle", "pending" or "answered"
          answer,  \* "none", "envelope" or "failure"
          ran,     \* how often the command ran
          broken   \* calls that lost a connection

avars == <<phase, answer, ran, broken>>

AInit ==
  /\ phase = [c \in Calls |-> "idle"]
  /\ answer = [c \in Calls |-> "none"]
  /\ ran = [c \in Calls |-> 0]
  /\ broken = {}

Ask(c) ==
  /\ phase[c] = "idle"
  /\ phase' = [phase EXCEPT ![c] = "pending"]
  /\ UNCHANGED <<answer, ran, broken>>

Run(c) ==
  /\ phase[c] # "idle"
  /\ ran[c] = 0 \/ (ran[c] = 1 /\ c \in broken)
  /\ ran' = [ran EXCEPT ![c] = @ + 1]
  /\ UNCHANGED <<phase, answer, broken>>

Break ==
  /\ \E S \in SUBSET {c \in Calls : phase[c] # "idle"} : broken' = broken \cup S
  /\ UNCHANGED <<phase, answer, ran>>

Answer(c) ==
  /\ phase[c] = "pending"
  /\ phase' = [phase EXCEPT ![c] = "answered"]
  /\ \/ ran[c] > 0 /\ answer' = [answer EXCEPT ![c] = "envelope"]
     \/ answer' = [answer EXCEPT ![c] = "failure"]
  /\ UNCHANGED <<ran, broken>>

ANext == Break \/ \E c \in Calls : Ask(c) \/ Run(c) \/ Answer(c)

ASpec == AInit /\ [][ANext]_avars
=============================================================================
