----------------------------- MODULE FleetMemory -----------------------------
(***************************************************************************)
(* What is remembered of the nodes of the fleet, in one JSON file: Load,   *)
(* SetNode, AddNote, AutoNote and Save of internal/fleet, and the commands *)
(* and tools that use them (cmd/vssh/commands_memory.go, mcp_memory.go,    *)
(* commands_discover.go, and the selectors of targets.go, which only read).*)
(*                                                                         *)
(* A user is a CLI process or a tool call of `vssh mcp`.  Each loads the   *)
(* file, changes its copy, and writes the copy back in place, without a    *)
(* lock.  A note is the number it is known by; a file cut off, or with the *)
(* end of an older and longer one behind it, is no JSON.                   *)
(***************************************************************************)
EXTENDS Integers, Sequences, SequencesExt

CONSTANTS Users,
          Members,   \* the nodes of the fleet
          Roles, NoRole,
          NoteLimit, \* maxNotes
          MostFound, \* bound: noteworthy things in an output
          MaxLosses  \* bound: users that die, or cannot write the file

ASSUME MemoryAssumption ==
  NoteLimit \in Nat \ {0} /\ MostFound \in Nat /\ MaxLosses \in Nat /\ NoRole \notin Roles

VARIABLES
  file,    \* the file, and whether it parses
  user,    \* where each user is, and its copy
  notes,   \* how many notes were made so far
  acked,   \* history: the notes a save of which was acknowledged, by node
  excused, \* history: those a concurrent save may have dropped
  losses

memoryVars == <<file, user, notes, acked, excused, losses>>

Numbers  == Nat \ {0}
Memory   == [Members -> [role : Roles \cup {NoRole}, notes : Seq(Numbers)]]
Unknown  == [role |-> NoRole, notes |-> <<>>]
NoMemory == [m \in Members |-> Unknown]
Torn     == [ok |-> FALSE, memory |-> NoMemory]
NewUser  == [at |-> "idle", copy |-> NoMemory, made |-> {}, missed |-> {}, behind |-> FALSE]

MemoryTypeOK ==
  /\ file \in [ok : BOOLEAN, memory : Memory]
  /\ user \in [Users -> [at : {"idle", "loaded", "open", "saved", "read", "failed"}, copy : Memory,
                         made : SUBSET (Members \X Numbers), missed : SUBSET Numbers,
                         behind : BOOLEAN]]
  /\ notes \in Nat
  /\ acked \subseteq Members \X Numbers /\ excused \subseteq Numbers
  /\ losses \in 0..MaxLosses

MemoryInit ==
  /\ file = [ok |-> TRUE, memory |-> NoMemory]
  /\ user = [u \in Users |-> NewUser]
  /\ notes = 0 /\ acked = {} /\ excused = {} /\ losses = 0

----------------------------------------------------------------------------
(* Changes of a copy.                                                      *)

\* The most recent notes are kept.
Latest(all) == IF Len(all) > NoteLimit THEN SubSeq(all, Len(all) - NoteLimit + 1, Len(all)) ELSE all

\* AddNote for each of the next notes.  (To cut the list off after each comes
\* to the same as once at the end.)
AddNotes(memory, m, found) ==
  [memory EXCEPT ![m].notes = Latest(@ \o [i \in 1..found |-> notes + i])]

\* Mutant: the notes are replaced with the rest.
SetNode_DropsNotes(memory, m, role) == [memory EXCEPT ![m] = [role |-> role, notes |-> <<>>]]

\* SetNode keeps the notes.
SetNode(memory, m, role) == [memory EXCEPT ![m].role = role]

----------------------------------------------------------------------------
(* The users.                                                              *)

\* Load: everything else depends on the file being JSON.  In the copy are as
\* many new notes as found, on the nodes of about.
Loads(u, copy, about, found) ==
  /\ user[u].at = "idle"
  /\ user' = [user EXCEPT ![u] = IF file.ok THEN [@ EXCEPT !.at = "loaded", !.copy = copy,
                                                            !.made = about \X ((notes + 1)..(notes + found))]
                                            ELSE [@ EXCEPT !.at = "failed"]]
  /\ notes' = notes + found
  /\ UNCHANGED <<file, acked, excused, losses>>

\* A filter: by role, for all that filters by tag, service or text do.
Find(memory, role) == {m \in Members : memory[m].role = role}

Reads(u, ok) ==
  /\ user[u].at = "idle"
  /\ user' = [user EXCEPT ![u].at = IF ok THEN "read" ELSE "failed"]
  /\ UNCHANGED <<file, notes, acked, excused, losses>>

\* memory get, find and ask: nothing found is an answer.
Read(u) == Reads(u, file.ok)

\* resolveTargets loads the memory for a literal name too; a selector has to
\* match some node.
ResolveTargets(u) ==
  \/ Reads(u, file.ok)
  \/ \E role \in Roles : Reads(u, file.ok /\ Find(file.memory, role) # {})

\* memory set.
Set(u, m, role) == Loads(u, SetNode(file.memory, m, role), {}, 0)

\* memory note.
TakeNote(u, m) == Loads(u, AddNotes(file.memory, m, 1), {m}, 1)

\* How many noteworthy things ExtractNotes returns: each full disk is one; none
\* for a blank output, which the tool takes and the command does not.
ExtractNotes == 0..MostFound

\* memory auto-note: each of them is a note.
AutoNote(u, m) ==
  \E found \in ExtractNotes : Loads(u, AddNotes(file.memory, m, found), {m}, found)

\* memory discover --apply: the nodes that answered get what was inferred.
Discover(u, reached, role) ==
  Loads(u, [m \in Members |-> IF m \in reached THEN SetNode(file.memory, m, role)[m] ELSE file.memory[m]],
        {}, 0)

\* Save, os.WriteFile: the file is truncated ...
Truncate(u) ==
  /\ user[u].at = "loaded"
  /\ user' = [user EXCEPT ![u].at = "open", ![u].behind = FALSE]
  /\ file' = Torn
  /\ UNCHANGED <<notes, acked, excused, losses>>

\* ... and written.  What another user has written since may stick out.
Write(u) ==
  LET mine == {n[2] : n \in user[u].made} IN
  /\ user[u].at = "open"
  /\ \/ file' = [ok |-> TRUE, memory |-> user[u].copy]
     \/ user[u].behind /\ file' = Torn
  /\ user' = [v \in Users |->
       IF v = u THEN [user[u] EXCEPT !.at = "saved"]
       ELSE [user[v] EXCEPT !.behind = @ \/ user[v].at = "open",
                            !.missed = IF user[v].at \in {"loaded", "open"} THEN @ \cup mine ELSE @]]
  /\ acked' = acked \cup user[u].made
  /\ excused' = excused \cup user[u].missed
  /\ UNCHANGED <<notes, losses>>

\* A user dies, or its write fails: the command, or the tool, does.
Lose(u) ==
  /\ user[u].at \in {"loaded", "open"}
  /\ losses < MaxLosses
  /\ losses' = losses + 1
  /\ user' = [user EXCEPT ![u].at = "failed"]
  /\ UNCHANGED <<file, notes, acked, excused>>

MemoryNext ==
  \E u \in Users :
    \/ Read(u) \/ ResolveTargets(u) \/ Truncate(u) \/ Write(u) \/ Lose(u)
    \/ \E m \in Members : TakeNote(u, m) \/ AutoNote(u, m) \/ \E r \in Roles : Set(u, m, r)
    \/ \E reached \in SUBSET Members, r \in Roles : Discover(u, reached, r)

MemorySpec == MemoryInit /\ [][MemoryNext]_memoryVars

----------------------------------------------------------------------------
\* An acknowledged note stays until enough newer ones have pushed it out,
\* whoever sets, notes or discovers after it, and whoever dies or reads a
\* file that is being written; it is lost only to a save by someone who had
\* loaded the file before the note was saved (Load, Save, SetNode, AddNote).
NotesSurvive ==
  file.ok => \A n \in acked :
    LET kept == file.memory[n[1]].notes IN
    \/ n[2] \in excused
    \/ Contains(kept, n[2])
    \/ Len(kept) = NoteLimit /\ \A i \in DOMAIN kept : kept[i] > n[2]
=============================================================================
