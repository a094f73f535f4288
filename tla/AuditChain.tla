----------------------------- MODULE AuditChain -----------------------------
(***************************************************************************)
(* The daemon's audit log: auditLog and lastAuditHash of                   *)
(* internal/server/audit.go, and the verifier cmdAuditVerify of            *)
(* cmd/vssh/main.go.                                                       *)
(*                                                                         *)
(* auditLog runs under one mutex, so an append is one step here; what can  *)
(* interrupt it is a write that fails half way (a full disk), a restart of *)
(* the daemon, and rotation of the file under the running daemon.          *)
(*                                                                         *)
(* A line of the file is the sequence of the pieces written to it: one     *)
(* whole record, unless an earlier write left a fragment without a         *)
(* newline, to which the next record is glued.                             *)
(***************************************************************************)
EXTENDS Naturals, Sequences, FiniteSets, SequencesExt

CONSTANTS MaxRecords, \* bound: appends attempted
          MaxTorn     \* bound: writes that fail half way

ASSUME BoundAssumption == MaxRecords \in Nat /\ MaxTorn \in Nat

VARIABLES
  lines,   \* the terminated lines of the file
  tail,    \* the pieces of an unterminated last line
  prev,    \* auditChainPrev
  seeded,  \* auditChainInit
  count,   \* appends attempted so far: the content of each record is unique
  torn     \* writes that failed half way

vars == <<lines, tail, prev, seeded, count, torn>>

\* SHA-256 of a line, as an injective function of what the line holds.
Digest(line) == [i \in DOMAIN line |-> <<line[i].id, line[i].whole>>]
NoHash == <<>>

Digests == Seq((1..MaxRecords) \X BOOLEAN)
Pieces  == [id : 1..MaxRecords, whole : BOOLEAN, prev : Digests]

TypeOK ==
  /\ lines \in Seq(Seq(Pieces) \ {<<>>})
  /\ tail \in Seq(Pieces)
  /\ prev \in Digests
  /\ seeded \in BOOLEAN
  /\ count \in 0..MaxRecords
  /\ torn \in 0..MaxTorn

Init ==
  /\ lines = <<>>
  /\ tail = <<>>
  /\ prev = NoHash
  /\ seeded = FALSE
  /\ count = 0
  /\ torn = 0

\* The lines a reader of the file sees.
Content(ls, rest) == IF rest = <<>> THEN ls ELSE Append(ls, rest)

\* lastAuditHash: the digest of the last line, terminated or not.
LastAuditHash == IF Content(lines, tail) = <<>> THEN NoHash
                 ELSE Digest(Last(Content(lines, tail)))

\* The chain value a record is written with: seeded from the file once.
ChainPrev == IF seeded THEN prev ELSE LastAuditHash

Record(whole) == [id |-> count + 1, whole |-> whole, prev |-> ChainPrev]

\* auditLog writes its record: the in-memory chain moves on to the digest of
\* the record alone, whatever it was glued to.
AuditLog ==
  /\ count < MaxRecords
  /\ count' = count + 1
  /\ seeded' = TRUE
  /\ lines' = Append(lines, Append(tail, Record(TRUE)))
  /\ tail' = <<>>
  /\ prev' = Digest(<<Record(TRUE)>>)
  /\ UNCHANGED torn

\* Mutant: the chain moves on although nothing was written.
AuditLogFails_MovesOn ==
  /\ count < MaxRecords
  /\ count' = count + 1
  /\ seeded' = TRUE
  /\ prev' = Digest(<<Record(TRUE)>>)
  /\ UNCHANGED <<lines, tail, torn>>

\* Mutant: the newline is written apart from the record, whose write failed.
AuditLogFails_Newline ==
  /\ count < MaxRecords
  /\ count' = count + 1
  /\ seeded' = TRUE
  /\ prev' = ChainPrev
  /\ lines' = Append(lines, tail)
  /\ tail' = <<>>
  /\ UNCHANGED torn

\* The file cannot be opened, or the write fails before its first byte.
AuditLogFails ==
  /\ count < MaxRecords
  /\ count' = count + 1
  /\ seeded' = TRUE
  /\ prev' = ChainPrev
  /\ UNCHANGED <<lines, tail, torn>>

\* The write stops half way: a fragment stays, the chain does not move.
AuditLogTears ==
  /\ count < MaxRecords
  /\ torn < MaxTorn
  /\ count' = count + 1
  /\ torn' = torn + 1
  /\ seeded' = TRUE
  /\ tail' = Append(tail, Record(FALSE))
  /\ prev' = ChainPrev
  /\ UNCHANGED lines

\* The daemon restarts, between appends or (torn) in the middle of one.
Restart ==
  /\ seeded' = FALSE
  /\ prev' = NoHash
  /\ UNCHANGED <<lines, tail, count, torn>>

\* Rotation drops whole lines from the head, or moves the file away.
Rotate ==
  /\ \/ \E n \in 1..Len(lines) : lines' = SubSeq(lines, n + 1, Len(lines)) /\ UNCHANGED tail
     \/ lines' = <<>> /\ tail' = <<>>
  /\ UNCHANGED <<prev, seeded, count, torn>>

Next == AuditLog \/ AuditLogFails \/ AuditLogTears \/ Restart \/ Rotate

Spec == Init /\ [][Next]_vars

----------------------------------------------------------------------------
\* A line parses when it is exactly one whole record.
ValidJSON(line) == Len(line) = 1 /\ line[1].whole

\* cmdAuditVerify: the lines it reports, the first being exempt from the
\* check of its predecessor.
Violations ==
  LET file == Content(lines, tail) IN
  {i \in DOMAIN file : \/ ~ValidJSON(file[i])
                       \/ i > 1 /\ file[i][1].prev # Digest(file[i - 1])}

\* A torn write damages two lines, the one it is glued to and the next one,
\* and the chain is sound again after that; so the verifier reports nothing
\* of a log without torn writes, across restarts, failed writes and rotation
\* (auditLog, lastAuditHash, cmdAuditVerify).
DamageIsLocal == Cardinality(Violations) <= 2 * torn
=============================================================================
