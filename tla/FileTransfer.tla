---------------------------- MODULE FileTransfer ----------------------------
(***************************************************************************)
(* Uploads to and downloads of one file of the daemon: the PUT and GET     *)
(* branches of HandleTransfer with their clients SendFile and RecvFile     *)
(* (internal/server/transfer.go), HandleSync (sync.go), HandlePutZ and     *)
(* HandleResume (transfer_advanced.go).                                    *)
(*                                                                         *)
(* Every connection is a goroutine of the daemon, and they meet in the     *)
(* file system: names, the inodes they refer to, and what is written to    *)
(* them through descriptors that outlive a rename or a removal.  A file    *)
(* version is Blocks equal blocks; an inode is the sequence of its blocks. *)
(***************************************************************************)
EXTENDS Naturals, Sequences

CONSTANTS Uploads, Downloads,  \* connections
          New,        \* the versions that are uploaded, besides
          Old,        \* the one the file has before
          Hole,       \* a block never written
          None,
          Blocks,     \* blocks per version
          Overlap,    \* uploads that stage under the same name may overlap
          MaxCrashes, \* bound: daemon crashes
          MaxDrops    \* bound: lost connections and file operations that fail

Verbs == {"put", "sync", "resume", "putz"}

ASSUME NameAssumption ==
  Old \notin Uploads \cup New /\ None \notin Uploads \cup New \cup Verbs \cup {Old}
ASSUME BlocksAssumption == Blocks \in Nat \ {0}
ASSUME OverlapAssumption == Overlap \in BOOLEAN
ASSUME BoundAssumption == MaxCrashes \in Nat /\ MaxDrops \in Nat

\* The file itself, path.vssh.tmp.<pid> and path.tmp.  An inode is named by
\* the upload that created it.
Names    == {"path", "put.tmp", "tmp"}
Inodes   == Uploads \cup {Old}
Versions == New \cup {Old}

VARIABLES
  name,    \* the directory: the inode of each name
  data,    \* the blocks of each inode
  synced,  \* the inodes flushed to disk since they were written
  verb,    \* the verb of each upload, None before it begins
  file,    \* the version it sends
  up,      \* the upload handlers: where they are, descriptor, blocks taken
  offered, \* the offset RESUME answered with, if it answered CONTINUE
  down,    \* the downloads: descriptor, announced size, blocks streamed
  crashes, drops,
  failed,  \* history: the uploads of which a file operation failed, and which
  powerCut \* one of the crashes was a power failure

request == <<verb, file>>
faults == <<crashes, drops, failed, powerCut>>
vars == <<name, data, synced, request, up, offered, down, faults>>

TypeOK ==
  /\ name \in [Names -> Inodes \cup {None}]
  /\ data \in [Inodes -> Seq(Versions \cup {Hole})]
  /\ synced \subseteq Inodes
  /\ verb \in [Uploads -> Verbs \cup {None}]
  /\ file \in [Uploads -> Versions \cup {None}]
  /\ up \in [Uploads -> [at : {"idle", "asked", "receive", "write", "verify", "rename",
                               "remove", "ok", "error"},
                         fd : Inodes \cup {None}, n : 0..Blocks]]
  /\ offered \in [Uploads -> 0..Blocks \cup {None}]
  /\ down \in [Downloads -> [at : {"idle", "stream", "done"}, fd : Inodes \cup {None},
                             size : Nat, got : Seq(Versions \cup {Hole})]]
  /\ crashes \in 0..MaxCrashes
  /\ drops \in 0..MaxDrops
  /\ failed \subseteq Uploads \X {"flush", "write", "rename", "remove"}
  /\ powerCut \in BOOLEAN

Whole(s, v) == s = [i \in 1..Blocks |-> v]

Init ==
  /\ name = [x \in Names |-> IF x = "path" THEN Old ELSE None]
  /\ data = [i \in Inodes |-> IF i = Old THEN [b \in 1..Blocks |-> Old] ELSE <<>>]
  /\ synced = {Old}
  /\ verb = [u \in Uploads |-> None]
  /\ file = [u \in Uploads |-> None]
  /\ up = [u \in Uploads |-> [at |-> "idle", fd |-> None, n |-> 0]]
  /\ offered = [u \in Uploads |-> None]
  /\ down = [d \in Downloads |-> [at |-> "idle", fd |-> None, size |-> 0, got |-> <<>>]]
  /\ crashes = 0
  /\ drops = 0
  /\ failed = {}
  /\ powerCut = FALSE

----------------------------------------------------------------------------
Ended(u)  == up[u].at \in {"idle", "ok", "error"}
Goto(u, label) == up' = [up EXCEPT ![u].at = label]

\* An operation on a file, whichever, fails, or op of upload u does.
Trouble == drops < MaxDrops /\ drops' = drops + 1
Fails(u, op) == Trouble /\ failed' = failed \cup {<<u, op>>}
Works == UNCHANGED <<drops, failed>>

\* Mutant: PUT and SYNC write the file in place.
Tmp_InPlace(k) == "path"

\* The name a verb stages under: path.vssh.tmp.<pid> or path.tmp.
Tmp(k) == IF k = "put" THEN "put.tmp" ELSE "tmp"

\* os.Create of a name: a new inode, or the existing one truncated.
Create(u, x) ==
  LET i == IF name[x] = None THEN u ELSE name[x] IN
  /\ name' = [name EXCEPT ![x] = i]
  /\ data' = [data EXCEPT ![i] = <<>>]
  /\ synced' = synced \ {i}
  /\ up' = [up EXCEPT ![u] = [at |-> IF up[u].at = "asked" THEN "receive" ELSE "write",
                              fd |-> i, n |-> 0]]

\* Two uploads can be told apart in the file system: they stage under
\* different names, and neither writes in place.
Apart(k, j) == Tmp(k) # Tmp(j) /\ "putz" \notin {k, j}

\* A request for verb k with version v arrives.  All but PUT open the file
\* there is, ...
Ask(u, k, v) ==
  /\ up[u].at = "idle"
  /\ Overlap \/ \A w \in Uploads : Ended(w) \/ Apart(k, verb[w])
  /\ verb' = [verb EXCEPT ![u] = k]
  /\ file' = [file EXCEPT ![u] = v]
  /\ up' = [up EXCEPT ![u] = [at |-> "asked", fd |-> IF k = "put" THEN None ELSE name["path"],
                              n |-> 0]]
  /\ UNCHANGED <<name, data, synced, offered, down, faults>>

\* ... hash what they opened, whatever the name leads to by then, ...
Found(u) == up[u].fd # None /\ Whole(data[up[u].fd], file[u])

\* ... and answer SKIP if that is the content offered.
Skip(u) ==
  /\ up[u].at = "asked"
  /\ Found(u)
  /\ Goto(u, "ok")
  /\ UNCHANGED <<name, data, synced, offered, down, request, faults>>

\* PUT and SYNC stage into a fresh temporary file.
BeginStaged(u) ==
  /\ up[u].at = "asked"
  /\ verb[u] \in {"put", "sync"}
  /\ ~Found(u)
  /\ Create(u, Tmp(verb[u]))
  /\ UNCHANGED <<offered, down, request, faults>>

\* PUTZ takes the whole file into memory first.
BeginPutZ(u) ==
  /\ up[u].at = "asked"
  /\ verb[u] = "putz"
  /\ ~Found(u)
  /\ up' = [up EXCEPT ![u].at = "receive", ![u].fd = None]
  /\ UNCHANGED <<name, data, synced, offered, down, request, faults>>

\* Mutant: RESUME appends to the file itself.
BeginResume_InPlace(u) ==
  /\ up[u].at = "asked"
  /\ verb[u] = "resume"
  /\ name["path"] # None
  /\ ~Found(u)
  /\ up' = [up EXCEPT ![u] = [at |-> "receive", fd |-> name["path"], n |-> 0]]
  /\ offered' = [offered EXCEPT ![u] = Len(data[name["path"]])]
  /\ UNCHANGED <<name, data, synced, down, request, faults>>

\* RESUME appends to what it finds under path.tmp, whoever left it there.
BeginResume(u) ==
  /\ up[u].at = "asked"
  /\ verb[u] = "resume"
  /\ ~Found(u)
  /\ IF name["tmp"] = None
       THEN Create(u, "tmp") /\ UNCHANGED offered
       ELSE LET n == Len(data[name["tmp"]]) IN
            /\ up' = [up EXCEPT ![u] = [at |-> "receive", fd |-> name["tmp"], n |-> n]]
            /\ offered' = [offered EXCEPT ![u] = n]
            /\ UNCHANGED <<name, data, synced>>
  /\ UNCHANGED <<down, request, faults>>

\* The temporary file cannot be created, or opened: PUT and SYNC give up, and
\* RESUME goes on to verify what there is.
CannotOpen(u) ==
  /\ up[u].at = "asked"
  /\ verb[u] # "putz"
  /\ ~Found(u)
  /\ Trouble
  /\ Goto(u, IF verb[u] = "resume" THEN "verify" ELSE "error")
  /\ UNCHANGED <<name, data, synced, offered, down, request, crashes, failed, powerCut>>

\* A write of version v at block b, leaving holes behind the end.
Put(s, b, v) == [i \in 1..(IF b > Len(s) THEN b ELSE Len(s)) |->
                   IF i = b THEN v ELSE IF i <= Len(s) THEN s[i] ELSE Hole]

\* Mutant: one block too many is taken.
Receive_OneMore(u) ==
  LET i == up[u].fd
      b == IF offered[u] = None THEN up[u].n + 1 ELSE Len(data[i]) + 1 IN
  /\ up[u].at = "receive"
  /\ up[u].n <= Blocks
  /\ up' = [up EXCEPT ![u].n = @ + 1]
  /\ IF verb[u] = "putz" THEN UNCHANGED <<data, synced>>
     ELSE /\ data' = [data EXCEPT ![i] = Put(@, b, file[u])]
          /\ synced' = synced \ {i}
  /\ UNCHANGED <<name, offered, down, request, faults>>

\* One block arrives.  PUT, SYNC and a RESUME from scratch write it at their
\* own offset, a continued RESUME at the end of the file.
Receive(u) ==
  LET i == up[u].fd
      b == IF offered[u] = None THEN up[u].n + 1 ELSE Len(data[i]) + 1 IN
  /\ up[u].at = "receive"
  /\ up[u].n < Blocks
  /\ up' = [up EXCEPT ![u].n = @ + 1]
  /\ IF verb[u] = "putz" THEN UNCHANGED <<data, synced>>
     ELSE /\ data' = [data EXCEPT ![i] = Put(@, b, file[u])]
          /\ synced' = synced \ {i}
  /\ UNCHANGED <<name, offered, down, request, faults>>

\* Mutant: PUT renames without flushing.
Stored_Unsynced(u) ==
  /\ up[u].at = "receive"
  /\ up[u].n = Blocks
  /\ verb[u] = "put"
  /\ Goto(u, "rename")
  /\ UNCHANGED <<name, data, synced, offered, down, request, faults>>

\* Mutant: PUT removes the target before the rename, as SYNC does.
Stored_RemovesTarget(u) ==
  /\ up[u].at = "receive"
  /\ up[u].n = Blocks
  /\ verb[u] = "put"
  /\ synced' = synced \cup {up[u].fd}
  /\ name' = [name EXCEPT !["path"] = None]
  /\ Goto(u, "rename")
  /\ UNCHANGED <<data, offered, down, request, faults>>

\* All blocks are in: PUT flushes the file, SYNC removes the target (neither
\* looks whether that worked), RESUME verifies, PUTZ truncates the target.
Stored(u) ==
  /\ up[u].at = "receive"
  /\ up[u].n = Blocks
  /\ CASE verb[u] = "put"    -> /\ \/ Works /\ synced' = synced \cup {up[u].fd}
                                   \/ Fails(u, "flush") /\ UNCHANGED synced
                                /\ Goto(u, "rename")
                                /\ UNCHANGED <<name, data>>
       [] verb[u] = "sync"   -> /\ \/ Works /\ name' = [name EXCEPT !["path"] = None]
                                   \/ Trouble /\ UNCHANGED <<name, failed>>
                                /\ Goto(u, "rename")
                                /\ UNCHANGED <<data, synced>>
       [] verb[u] = "resume" -> Goto(u, "verify") /\ Works /\ UNCHANGED <<name, data, synced>>
       [] OTHER              -> \/ Create(u, "path") /\ Works
                                \/ /\ Trouble /\ Goto(u, "error")
                                   /\ UNCHANGED <<name, data, synced, failed>>
  /\ UNCHANGED <<offered, down, request, crashes, powerCut>>

\* os.WriteFile of PUTZ, block by block in place.  If it fails the file is left
\* as far as it got.
WriteInPlace(u) ==
  LET i == up[u].fd IN
  /\ up[u].at = "write"
  /\ \/ /\ up[u].n < Blocks
        /\ data' = [data EXCEPT ![i] = Put(@, up[u].n + 1, file[u])]
        /\ up' = [up EXCEPT ![u].n = @ + 1]
        /\ Works
     \/ up[u].n = Blocks /\ Goto(u, "ok") /\ Works /\ UNCHANGED data
     \/ Fails(u, "write") /\ Goto(u, "error") /\ UNCHANGED data
  /\ UNCHANGED <<name, synced, offered, down, request, crashes, powerCut>>

\* Mutant: only the size is compared.
Verify_SizeOnly(u) ==
  /\ up[u].at = "verify"
  /\ Goto(u, IF name["tmp"] # None /\ Len(data[name["tmp"]]) = Blocks
             THEN "rename" ELSE "remove")
  /\ UNCHANGED <<name, data, synced, offered, down, request, faults>>

\* HandleResume hashes the file it finds under the name by now.
Verify(u) ==
  /\ up[u].at = "verify"
  /\ Goto(u, IF name["tmp"] # None /\ Whole(data[name["tmp"]], file[u])
             THEN "rename" ELSE "remove")
  /\ UNCHANGED <<name, data, synced, offered, down, request, faults>>

\* Mutant: a file that failed its check stays for the next attempt.
RemoveTmp_Keeps(u) ==
  /\ up[u].at = "remove"
  /\ Goto(u, "error")
  /\ UNCHANGED <<name, data, synced, offered, down, request, faults>>

\* os.Remove of the temporary file, whether that works or not.
RemoveTmp(u) ==
  /\ up[u].at = "remove"
  /\ \/ Works /\ name' = [name EXCEPT ![Tmp(verb[u])] = None]
     \/ Fails(u, "remove") /\ UNCHANGED name
  /\ Goto(u, "error")
  /\ UNCHANGED <<data, synced, offered, down, request, crashes, powerCut>>

\* What becomes of an upload with verb k the rename of which fails: PUT cleans
\* up, SYNC answers an error and leaves path.tmp, RESUME answers OK.
AfterFailedRename(k) == CASE k = "put" -> "remove" [] k = "sync" -> "error" [] OTHER -> "ok"

\* os.Rename over the target.
Rename(u) ==
  /\ up[u].at = "rename"
  /\ \/ /\ name[Tmp(verb[u])] # None
        /\ name' = [name EXCEPT !["path"] = name[Tmp(verb[u])], ![Tmp(verb[u])] = None]
        /\ Goto(u, "ok")
        /\ Works
     \/ /\ (name[Tmp(verb[u])] = None /\ Works) \/ Fails(u, "rename")
        /\ Goto(u, AfterFailedRename(verb[u]))
        /\ UNCHANGED name
  /\ UNCHANGED <<data, synced, offered, down, request, crashes, powerCut>>

\* The connection breaks while blocks are awaited, or one cannot be written:
\* PUT and SYNC clean up, RESUME goes on to verify (and removes a partial file).
Drop(u) ==
  /\ up[u].at = "receive"
  /\ up[u].n < Blocks
  /\ Trouble
  /\ Goto(u, CASE verb[u] \in {"put", "sync"} -> "remove"
               [] verb[u] = "resume" -> "verify"
               [] OTHER -> "error")
  /\ UNCHANGED <<name, data, synced, offered, down, request, crashes, failed, powerCut>>

\* The daemon dies and restarts under another pid: the handlers are gone, a
\* stale path.vssh.tmp.<pid> stays but is nobody's temporary file any more.
\* A power failure keeps an arbitrary prefix of what was not synced.
Crash ==
  /\ crashes < MaxCrashes
  /\ crashes' = crashes + 1
  /\ name' = [name EXCEPT !["put.tmp"] = None]
  /\ up' = [u \in Uploads |-> IF Ended(u) THEN up[u] ELSE [up[u] EXCEPT !.at = "error"]]
  /\ down' = [d \in Downloads |-> IF down[d].at = "stream" THEN [down[d] EXCEPT !.at = "idle"]
                                  ELSE down[d]]
  /\ \/ UNCHANGED <<data, powerCut>>
     \/ /\ powerCut' = TRUE
        /\ \E keep \in 0..Blocks :
             data' = [i \in Inodes |-> IF i \in synced \/ Len(data[i]) <= keep THEN data[i]
                                       ELSE SubSeq(data[i], 1, keep)]
  /\ UNCHANGED <<synced, offered, request, drops, failed>>

----------------------------------------------------------------------------
(* Downloads.                                                              *)

\* GET opens the file and announces the size it has at that moment.
Open(d) ==
  /\ down[d].at = "idle"
  /\ name["path"] # None
  /\ down' = [down EXCEPT ![d] = [at |-> "stream", fd |-> name["path"],
                                  size |-> Len(data[name["path"]]), got |-> <<>>]]
  /\ UNCHANGED <<name, data, synced, up, offered, request, faults>>

\* io.CopyBuffer streams the next block, or ends where the file ends by now.
Stream(d) ==
  LET f == down[d]
      b == Len(f.got) + 1 IN
  /\ f.at = "stream"
  /\ down' = [down EXCEPT ![d] = IF b <= Len(data[f.fd])
                                 THEN [f EXCEPT !.got = Append(@, data[f.fd][b])]
                                 ELSE [f EXCEPT !.at = "done"]]
  /\ UNCHANGED <<name, data, synced, up, offered, request, faults>>

\* RecvFile keeps the announced number of blocks, if that many came.  (The
\* hash in the trailer is of what was streamed.)
Accepted(d) == down[d].at = "done" /\ Len(down[d].got) >= down[d].size
Kept(d) == SubSeq(down[d].got, 1, down[d].size)

----------------------------------------------------------------------------
Handler(u) ==
  \/ \E k \in Verbs, v \in Versions : Ask(u, k, v)
  \/ Skip(u) \/ BeginStaged(u) \/ BeginPutZ(u) \/ BeginResume(u) \/ CannotOpen(u)
  \/ Receive(u) \/ Stored(u) \/ WriteInPlace(u) \/ Verify(u) \/ RemoveTmp(u) \/ Rename(u)

Next ==
  \/ \E u \in Uploads : Handler(u) \/ Drop(u)
  \/ \E d \in Downloads : Open(d) \/ Stream(d)
  \/ Crash

Spec == Init /\ [][Next]_vars

----------------------------------------------------------------------------
\* No upload wrote in place, and none that was not flushed met a power failure.
Atomic ==
  \A u \in Uploads : /\ verb[u] # "putz"
                     /\ powerCut => verb[u] \in {"put", None} /\ <<u, "flush">> \notin failed

\* Whoever opens the file sees one version, all of it: the comment on the
\* staging of PUT promises readers an all-or-nothing view (HandleTransfer).
PathWhole ==
  Atomic /\ name["path"] # None => \E v \in Versions : Whole(data[name["path"]], v)

\* A download that RecvFile accepts is one version, all of it, however the
\* file was replaced while it streamed.
DownloadWhole ==
  Atomic => \A d \in Downloads : Accepted(d) => \E v \in Versions : Whole(Kept(d), v)

\* The file holds what upload u sent.
Holds(u) == name["path"] # None /\ Whole(data[name["path"]], file[u])

\* An upload that is answered OK is what the file holds then, with two
\* exceptions: a RESUME whose rename failed, and a SKIP for a file that a PUT
\* has replaced since it was opened (HandleTransfer, HandleSync, HandlePutZ,
\* HandleResume).
OkMeansInstalled ==
  [][\A u \in Uploads : up[u].at # "ok" /\ up'[u].at = "ok" =>
       \/ Holds(u)'
       \/ verb[u] = "resume" /\ <<u, "rename">> \in failed'
       \/ /\ up[u].at = "asked" /\ up[u].fd # name["path"]
          /\ \E w \in Uploads \ {u} : verb[w] = "put" /\ up[w].at = "ok" /\ Holds(w)]_vars

\* Replacing the file never leaves a moment without it: PUT and RESUME rename
\* over it, PUTZ truncates it, only SYNC removes it first.
PathNeverMissing ==
  [][(\A u \in Uploads : verb'[u] # "sync") => name'["path"] # None]_vars

\* Operation op of an upload with one of the verbs failed.
Failed(verbs, op) == \E u \in Uploads : verb[u] \in verbs /\ <<u, op>> \in failed

\* No temporary file of an upload outlives it, unless the daemon crashed, the
\* file could not be removed, or a SYNC or RESUME could not rename it: an
\* aborted PUT, SYNC or RESUME cleans up after itself, and a PUT that cannot
\* rename as well.
NoLitter ==
  crashes = 0 /\ (\A u \in Uploads : Ended(u)) =>
    /\ name["put.tmp"] # None => Failed({"put"}, "remove")
    /\ name["tmp"] # None => \E op \in {"remove", "rename"} : Failed({"sync", "resume"}, op)

\* An upload that fails leaves no block of its own in the file: a block of a
\* new version is from an upload that did not fail (PUT, SYNC and RESUME
\* through their temporary file, PUTZ through its memory buffer), or from a
\* PUTZ of which the writing itself failed.
FailedUploadChangesNothing ==
  crashes = 0 /\ name["path"] # None =>
    \A i \in DOMAIN data[name["path"]] : data[name["path"]][i] # Old =>
      \E u \in Uploads : /\ file[u] = data[name["path"]][i]
                         /\ up[u].at \notin {"idle", "error"} \/ <<u, "write">> \in failed
=============================================================================
