-------------------------- MODULE ParallelTransfer --------------------------
(***************************************************************************)
(* Downloads in chunks, GETM and GETC, and the uploads MPUT and PIPE_UP,   *)
(* of one file of the daemon (internal/server/transfer_advanced.go).       *)
(*                                                                         *)
(* GETM announces size, hash and a number of connections, and keeps them   *)
(* in a session; each chunk is a request of its own, on a connection of    *)
(* its own, that opens the file again by its name.  The client is not in   *)
(* the repository: it may ask for any number of connections, asks for      *)
(* every chunk, in any order, at once or not, and for the first one even   *)
(* if there are to be none, and puts them together by their offsets.       *)
(*                                                                         *)
(* A file is a sequence of blocks of one megabyte.  PUT and SYNC replace   *)
(* it by another inode, MPUT and PIPE_UP write it in place.                *)
(***************************************************************************)
EXTENDS Integers, Sequences, SequencesExt

CONSTANTS Fetches,     \* downloads
          Uploaders,   \* files of an MPUT, or a PIPE_UP
          Contents,    \* what the file may hold
          Counts,      \* the numbers of connections that are asked for
          MostConns,   \* connections of a download at most, 8
          MaxReplaced, \* bound: inodes
          MaxBroken    \* bound: connections lost, writes that fail

ASSUME ParallelAssumption ==
  /\ Counts \subseteq Int /\ MostConns \in Nat \ {0} /\ MaxReplaced \in Nat /\ MaxBroken \in Nat
  /\ Contents # {} /\ \A c \in Contents : c \in Seq(Nat)

VARIABLES
  inodes,   \* the contents of each inode; the name leads to the last
  fetch,    \* the sessions, and what GETM answered
  chunk,    \* the chunk requests of each download
  upload,
  changed,  \* history: downloads the file has changed under
  broken

parallelVars == <<inodes, fetch, chunk, upload, changed, broken>>

NoFetch  == [at |-> "idle", inode |-> 1, size |-> 0, asked |-> 1, hash |-> <<>>, conns |-> 1]
NoChunk  == [at |-> "idle", inode |-> 1, offset |-> 0, got |-> <<>>]
NoUpload == [at |-> "idle", verb |-> "none", content |-> <<>>, inode |-> 1]

ParallelTypeOK ==
  /\ inodes \in Seq(Seq(Nat)) /\ Len(inodes) \in 1..(MaxReplaced + 1)
  /\ fetch \in [Fetches -> [at : {"idle", "open", "ready", "expired", "error"}, inode : Nat, size : Nat,
                            asked : Int, hash : Seq(Nat), conns : Int]]
  /\ chunk \in [Fetches -> [0..(MostConns - 1) -> [at : {"idle", "open", "done", "error"}, inode : Nat,
                                                   offset : Nat, got : Seq(Nat)]]]
  /\ upload \in [Uploaders -> [at : {"idle", "receive", "write", "ok", "error"},
                               verb : {"none", "MPUT", "PIPE_UP"}, content : Seq(Nat), inode : Nat]]
  /\ changed \subseteq Fetches /\ broken \in 0..MaxBroken

ParallelInit ==
  /\ \E c \in Contents : inodes = <<c>>
  /\ fetch = [f \in Fetches |-> NoFetch]
  /\ chunk = [f \in Fetches |-> [i \in 0..(MostConns - 1) |-> NoChunk]]
  /\ upload = [u \in Uploaders |-> NoUpload]
  /\ changed = {} /\ broken = 0

Now == Len(inodes)

\* The file changes, or its name leads elsewhere, under the downloads begun.
Changes == changed' = changed \cup {f \in Fetches : fetch[f].at # "idle"}

----------------------------------------------------------------------------
(* Downloads.                                                              *)

\* HandleGetM opens the file and asks for its size ...
OpenM(f) ==
  /\ fetch[f].at = "idle"
  /\ \E n \in Counts :
       fetch' = [fetch EXCEPT ![f] = [NoFetch EXCEPT !.at = "open", !.inode = Now,
                                                     !.size = Len(inodes[Now]), !.asked = n]]
  /\ UNCHANGED <<inodes, chunk, upload, changed, broken>>

\* At most MostConns connections, and one for a file with less than a block
\* for each.  A number below one stays: 0 is also what Sscanf leaves behind for
\* a request without one.
Conns(size, asked) ==
  LET n == IF asked > MostConns THEN MostConns ELSE asked IN IF size < n THEN 1 ELSE n

\* ... hashes it, and keeps a session.
Announce(f) ==
  /\ fetch[f].at = "open"
  /\ fetch' = [fetch EXCEPT ![f].at = "ready", ![f].hash = inodes[fetch[f].inode],
                            ![f].conns = Conns(fetch[f].size, fetch[f].asked)]
  /\ UNCHANGED <<inodes, chunk, upload, changed, broken>>

\* The size divided by the number of connections, towards zero.
ChunkSize(f) ==
  IF fetch[f].conns > 0 THEN fetch[f].size \div fetch[f].conns
                        ELSE -(fetch[f].size \div (-fetch[f].conns))

\* Mutant: every chunk is of one size.
ChunkLength_Equal(f, i) == ChunkSize(f)

\* The last chunk takes what remains.
ChunkLength(f, i) ==
  IF i = fetch[f].conns - 1 THEN fetch[f].size - i * ChunkSize(f) ELSE ChunkSize(f)

\* HandleGetC finds the session and opens the file, or answers an error.  A
\* client asks for the chunks it was told of, or for the first all the same.
OpenC(f, i) ==
  /\ fetch[f].at \in {"ready", "expired"}
  /\ i = 0 \/ i < fetch[f].conns
  /\ chunk[f][i].at = "idle"
  /\ \/ /\ fetch[f].at = "expired"
        /\ chunk' = [chunk EXCEPT ![f][i] = [NoChunk EXCEPT !.at = "error"]]
     \/ /\ fetch[f].at = "ready" /\ fetch[f].conns # 0
        /\ chunk' = [chunk EXCEPT ![f][i] = [NoChunk EXCEPT !.at = "open", !.inode = Now,
                                                            !.offset = i * ChunkSize(f)]]
  /\ UNCHANGED <<inodes, fetch, upload, changed, broken>>

\* With no connections HandleGetC divides by zero.  Nothing recovers from that
\* in the goroutine of a connection: the daemon ends, with every session and
\* connection it has, and is started again.
Panic(f) ==
  /\ fetch[f].at = "ready" /\ fetch[f].conns = 0
  /\ fetch' = [g \in Fetches |-> CASE fetch[g].at = "open"  -> [fetch[g] EXCEPT !.at = "error"]
                                   [] fetch[g].at = "ready" -> [fetch[g] EXCEPT !.at = "expired"]
                                   [] OTHER -> fetch[g]]
  /\ chunk' = [g \in Fetches |-> [i \in 0..(MostConns - 1) |->
                 IF chunk[g][i].at = "open" THEN [chunk[g][i] EXCEPT !.at = "error"] ELSE chunk[g][i]]]
  /\ upload' = [u \in Uploaders |-> IF upload[u].at \in {"receive", "write"}
                                    THEN [upload[u] EXCEPT !.at = "error"] ELSE upload[u]]
  /\ UNCHANGED <<inodes, changed, broken>>

\* It streams its part, or as much of it as there is, and nothing if that is
\* less than nothing; the client misses what a lost connection did not deliver.
CopyN(f, i) ==
  LET c == chunk[f][i]
      there == inodes[c.inode]
      end == c.offset + ChunkLength(f, i) IN
  /\ c.at = "open"
  /\ \/ chunk' = [chunk EXCEPT ![f][i].at = "done", ![f][i].got = SubSeq(there, c.offset + 1, IF end < Len(there) THEN end ELSE Len(there))] /\ UNCHANGED broken
     \/ /\ broken < MaxBroken /\ broken' = broken + 1
        /\ chunk' = [chunk EXCEPT ![f][i].at = "error"]
  /\ UNCHANGED <<inodes, fetch, upload, changed>>

\* A session older than ten minutes is deleted.
Cleanup(f) ==
  /\ fetch[f].at = "ready"
  /\ fetch' = [fetch EXCEPT ![f].at = "expired"]
  /\ UNCHANGED <<inodes, chunk, upload, changed, broken>>

----------------------------------------------------------------------------
(* Uploads.                                                                *)

\* HandleMPut, for each file, and HandlePipeUp take the content.
Begin(u) ==
  /\ upload[u].at = "idle"
  /\ \E c \in Contents, v \in {"MPUT", "PIPE_UP"} :
       upload' = [upload EXCEPT ![u] = [NoUpload EXCEPT !.at = "receive", !.verb = v, !.content = c]]
  /\ UNCHANGED <<inodes, fetch, chunk, changed, broken>>

\* What did not arrive as announced is not written.  Else the file is
\* truncated ...
Received(u) ==
  /\ upload[u].at = "receive"
  /\ \/ /\ upload' = [upload EXCEPT ![u].at = "write", ![u].inode = Now]
        /\ inodes' = [inodes EXCEPT ![Now] = <<>>]
        /\ Changes /\ UNCHANGED broken
     \/ /\ broken < MaxBroken /\ broken' = broken + 1
        /\ upload' = [upload EXCEPT ![u].at = "error"]
        /\ UNCHANGED <<inodes, changed>>
  /\ UNCHANGED <<fetch, chunk>>

\* ... and written.  If that fails PIPE_UP answers an error, and MPUT OK.
Written(u) ==
  LET r == upload[u] IN
  /\ r.at = "write"
  /\ \/ /\ inodes' = [inodes EXCEPT ![r.inode] =
             IF Len(@) > Len(r.content) THEN r.content \o SubSeq(@, Len(r.content) + 1, Len(@)) ELSE r.content]
        /\ upload' = [upload EXCEPT ![u].at = "ok"]
        /\ UNCHANGED broken
     \/ /\ broken < MaxBroken /\ broken' = broken + 1
        /\ upload' = [upload EXCEPT ![u].at = IF r.verb = "MPUT" THEN "ok" ELSE "error"]
        /\ UNCHANGED inodes
  /\ Changes
  /\ UNCHANGED <<fetch, chunk>>

\* A PUT or a SYNC renames its temporary file.
Replace ==
  /\ Now <= MaxReplaced
  /\ \E c \in Contents : inodes' = Append(inodes, c)
  /\ Changes
  /\ UNCHANGED <<fetch, chunk, upload, broken>>

ParallelNext ==
  \/ \E f \in Fetches : \/ OpenM(f) \/ Announce(f) \/ Panic(f) \/ Cleanup(f)
                        \/ \E i \in 0..(MostConns - 1) : OpenC(f, i) \/ CopyN(f, i)
  \/ \E u \in Uploaders : Begin(u) \/ Received(u) \/ Written(u)
  \/ Replace

ParallelSpec == ParallelInit /\ [][ParallelNext]_parallelVars

----------------------------------------------------------------------------
\* What the client has put together: the chunks that came, at their offsets.
Assembled(f) ==
  UNION {{<<chunk[f][i].offset + j, chunk[f][i].got[j]>> : j \in DOMAIN chunk[f][i].got} :
           i \in 0..(fetch[f].conns - 1)}

Came(f) == fetch[f].at \in {"ready", "expired"} /\ \A i \in 0..(fetch[f].conns - 1) : chunk[f][i].at = "done"

\* The chunks of a file that nobody changes make up exactly the file that was
\* announced, whatever its size, the number of connections above zero that was
\* asked for, and the order in which the chunks come; for a number that is not
\* above zero no byte of it comes at all (HandleGetM, HandleGetC).
ChunksMakeFile ==
  \A f \in Fetches \ changed :
    IF fetch[f].asked > 0
      THEN Came(f) => /\ Assembled(f) = {<<j, fetch[f].hash[j]>> : j \in DOMAIN fetch[f].hash}
                      /\ fetch[f].size = Len(fetch[f].hash)
      ELSE \A i \in 0..(MostConns - 1) : chunk[f][i].got = <<>>
=============================================================================
