--------------------------- MODULE MCFileTransfer ---------------------------
(***************************************************************************)
(* TLC instance of the models of one file of the daemon: FileTransfer,     *)
(* under uploads that replace it and downloads; ParallelTransfer, when it  *)
(* is downloaded in chunks; and Deploy, when it is a binary that is        *)
(* installed.  A behaviour is about one of them, and the others stay as    *)
(* they began.  The versions are interchangeable.                          *)
(***************************************************************************)
EXTENDS FileTransfer, ParallelTransfer, Deploy, TLC

VARIABLE about  \* "replaced", "chunked" or "deployed"

\* A file of no, of two and of five blocks: with up to three connections,
\* sizes below, between and above multiples of the number of connections.
MCContents == {<<>>, <<6, 7>>, <<1, 2, 3, 4, 5>>}
MCCounts == -2..4

Symmetry == Permutations(New) \cup Permutations(Processes)

AllTypeOK == TypeOK /\ ParallelTypeOK /\ DeployTypeOK

\* A download is one version of the file, all of it, in one piece or in many.
DownloadIsOneVersion == DownloadWhole /\ ChunksMakeFile

\* An upload that fails leaves nothing behind: not in the file, and no file of
\* its own beside it.
FailedUploadLeavesNoTrace == FailedUploadChangesNothing /\ NoLitter

MCInit ==
  /\ about \in {"replaced", "chunked", "deployed"}
  /\ Init /\ ParallelInit /\ DeployInit
  /\ about # "chunked" => inodes = <<<<>>>>
  /\ about # "deployed" => \A d, c \in Deploys : process[d] = process[c]

MCNext ==
  /\ UNCHANGED about
  /\ about # "replaced" => UNCHANGED vars
  /\ about # "chunked" => UNCHANGED parallelVars
  /\ about # "deployed" => UNCHANGED deployVars
  /\ \/ about = "replaced" /\ Next
     \/ about = "chunked"  /\ ParallelNext
     \/ about = "deployed" /\ DeployNext

MCSpec == MCInit /\ [][MCNext]_<<about, vars, parallelVars, deployVars>>
=============================================================================
