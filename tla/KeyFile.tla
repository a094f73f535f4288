------------------------------- MODULE KeyFile -------------------------------
(***************************************************************************)
(* The configuration files vssh edits (internal/server/configwrite.go, for *)
(* the vssh_config tools): authorized_keys, by AuthorizeKey and RevokeKey, *)
(* and node_keys or config, by upsertKeyed (PinNode, SetNodeConfig).       *)
(*                                                                         *)
(* Editors are tool calls, of any process, and there is no lock.  A line   *)
(* is its first field: a public key, or the name of a node.  What else a   *)
(* line holds does not matter, and a line that got spoilt is Junk.         *)
(***************************************************************************)
EXTENDS Naturals, Sequences, SequencesExt, Selection

CONSTANTS Editors, Keys, Junk,
          MaxWritten, \* bound: lines there are before vssh edits them
          MaxCrashed  \* bound: editors that die

ASSUME KeyAssumption == Junk \notin Keys /\ MaxWritten \in Nat /\ MaxCrashed \in Nat

VARIABLES
  which,     \* the file there is
  entries,   \* its lines
  unended,   \* its last line has no newline
  editor,    \* where each editor is
  claim,     \* history: whether a key is in the file, as far as is known
  crashed

keyVars == <<which, entries, unended, editor, claim, crashed>>

Fields    == Keys \cup {Junk}
Lines     == Seq(Fields)
NewEditor == [at |-> "idle", key |-> Junk, copy |-> <<>>, unended |-> FALSE, other |-> {}]

KeyTypeOK ==
  /\ which \in {"authorized_keys", "node_keys"}
  /\ entries \in Lines /\ unended \in BOOLEAN
  /\ editor \in [Editors -> [at : {"idle", "append", "loaded", "open", "done", "dead"},
                             key : Fields, copy : Lines, unended : BOOLEAN,
                             other : SUBSET Keys]]
  /\ claim \in [Keys -> {"in", "out", "any"}]
  /\ crashed \in 0..MaxCrashed

\* A file somebody wrote by hand, maybe without a newline at its end.
KeyInit ==
  /\ which \in {"authorized_keys", "node_keys"}
  /\ entries \in UNION {[1..n -> Keys] : n \in 0..MaxWritten}
  /\ unended \in IF entries = <<>> THEN {FALSE} ELSE BOOLEAN
  /\ editor = [e \in Editors |-> NewEditor]
  /\ claim = [k \in Keys |-> IF Contains(entries, k) THEN "in" ELSE "out"]
  /\ crashed = 0

Others(e, keys) == [f \in Editors |->
  IF f # e /\ editor[f].at \in {"loaded", "open"} THEN [editor[f] EXCEPT !.other = @ \cup keys] ELSE editor[f]]

Claimed(k, is, any) == [j \in Keys |-> IF j \in any THEN "any" ELSE IF j = k THEN is ELSE claim[j]]

----------------------------------------------------------------------------
\* AuthorizeKey looks for the key, and finds none in a file that cannot be
\* read ...
Authorize(e, k) ==
  /\ which = "authorized_keys" /\ editor[e].at = "idle"
  /\ \/ /\ Contains(entries, k)
        /\ editor' = [Others(e, {k}) EXCEPT ![e].at = "done"]
        /\ claim' = Claimed(k, "in", {})
     \/ /\ editor' = [editor EXCEPT ![e].at = "append", ![e].key = k]
        /\ UNCHANGED claim
  /\ UNCHANGED <<which, entries, unended, crashed>>

\* ... and appends its line, to the last line if that has no end: the key is
\* not found there, and the key before it only if something stood between.
AppendLine(e) ==
  LET k == editor[e].key
      last == IF unended /\ Last(entries) # Junk THEN {Last(entries)} ELSE {} IN
  /\ editor[e].at = "append"
  /\ \/ ~unended /\ entries' = Append(entries, k) /\ claim' = Claimed(k, "in", {})
     \/ unended /\ entries' \in {entries, Front(entries) \o <<Junk>>} /\ claim' = Claimed(k, "any", last)
  /\ unended' = FALSE
  /\ editor' = [Others(e, {k} \cup last) EXCEPT ![e].at = "done"]
  /\ UNCHANGED <<which, crashed>>

\* Mutant: one line of the key is removed.
Revoked_First(k) ==
  LET i == SelectInSeq(entries, LAMBDA l : l = k) IN [j \in 1..(Len(entries) - 1) |-> entries[IF j < i THEN j ELSE j + 1]]

\* RevokeKey removes every line of the key.
Revoked(k) == Selected(entries, Fields \ {k})

\* upsertKeyed replaces the first line of the name and removes the others, or
\* adds one.
Upserted(k) ==
  LET i == SelectInSeq(entries, LAMBDA l : l = k) IN
  IF i = 0 THEN Append(entries, k)
  ELSE SubSeq(entries, 1, i) \o Selected(SubSeq(entries, i + 1, Len(entries)), Fields \ {k})

\* The keys that are out of sight while the file is being rewritten.
Hidden == IF \E e \in Editors : editor[e].at = "open" THEN Keys ELSE {}

\* The copy is to be written; it is not the file's as to other keys.
Edits(e, k, copy, open, other) ==
  editor' = [editor EXCEPT ![e] = [at |-> "loaded", key |-> k, copy |-> copy, unended |-> open,
                                   other |-> Hidden \cup other]]

\* The file is read, or an error returned.  Nothing is written if the key to
\* revoke is not there.
Revoke(e, k) ==
  /\ which = "authorized_keys" /\ editor[e].at = "idle"
  /\ IF Contains(entries, k)
       THEN Edits(e, k, Revoked(k), unended /\ Last(entries) # k, {})
       ELSE editor' = [editor EXCEPT ![e].at = "done"]
  /\ UNCHANGED <<which, entries, unended, claim, crashed>>

\* A file that cannot be read is taken for an empty one, and is rewritten with
\* the line of k alone.
Upsert(e, k) ==
  /\ which = "node_keys" /\ editor[e].at = "idle"
  /\ \/ Edits(e, k, Upserted(k), TRUE, {})
     \/ Edits(e, k, <<k>>, TRUE, Keys \ {k})
  /\ UNCHANGED <<which, entries, unended, claim, crashed>>

\* os.WriteFile truncates it ...
TruncateKeys(e) ==
  /\ editor[e].at = "loaded"
  /\ editor' = [editor EXCEPT ![e].at = "open"]
  /\ entries' = <<>> /\ unended' = FALSE
  /\ UNCHANGED <<which, claim, crashed>>

\* ... and writes the copy.  What others have put there since is overwritten,
\* and what is longer sticks out.  Nothing is known of the keys that others
\* edited at the same time.
WriteKeys(e) ==
  LET k == editor[e].key
      is == IF which = "node_keys" THEN "in" ELSE "out"
      copy == editor[e].copy IN
  /\ editor[e].at = "open"
  /\ \E n \in 0..Len(entries) :
       LET tail == SubSeq(entries, Len(entries) - n + 1, Len(entries)) IN
       /\ IF copy = <<>> THEN n = Len(entries) ELSE n > 0 => n < Len(entries)
       /\ entries' = IF n = 0 \/ copy = <<>> THEN copy \o tail ELSE copy \o <<Junk>> \o tail
       /\ unended' = IF n = 0 THEN editor[e].unended /\ copy # <<>> ELSE unended
       /\ claim' = Claimed(k, is, editor[e].other \cup {j \in Keys : Contains(tail, j)})
  /\ editor' = [Others(e, {k}) EXCEPT ![e].at = "done"]
  /\ UNCHANGED <<which, crashed>>

\* An editor dies, or what it does to the file fails: what it has truncated
\* stays so.
EditorDies(e) ==
  /\ editor[e].at \in {"append", "loaded", "open"}
  /\ crashed < MaxCrashed
  /\ crashed' = crashed + 1
  /\ editor' = [editor EXCEPT ![e].at = "dead"]
  /\ claim' = IF editor[e].at = "open" THEN [k \in Keys |-> "any"] ELSE claim
  /\ UNCHANGED <<which, entries, unended>>

KeyNext ==
  \E e \in Editors :
    \/ \E k \in Keys : Authorize(e, k) \/ Revoke(e, k) \/ Upsert(e, k)
    \/ AppendLine(e) \/ TruncateKeys(e) \/ WriteKeys(e) \/ EditorDies(e)

KeySpec == KeyInit /\ [][KeyNext]_keyVars

----------------------------------------------------------------------------
\* A key that was authorized, or pinned, is found in the file, and one that
\* was revoked is not, however often it stood there (AuthorizeKey, RevokeKey,
\* upsertKeyed), unless
\*  - its line was added to an unended one,
\*  - another rewrite of the file went on at the same time, or
\*  - another key was pinned when the file could not be read: upsertKeyed
\*    keeps that key alone, and reports no error.
EditsHold ==
  (\A e \in Editors : editor[e].at # "open") =>
    \A k \in Keys : /\ claim[k] = "in" => Contains(entries, k)
                    /\ claim[k] = "out" => ~Contains(entries, k)
=============================================================================
