# vssh in TLA+

vssh is a remote shell, exec, file and tunnel tool: one Go binary that is
daemon, CLI and MCP server. This directory holds TLA+ models of its stateful
parts, the TLC configurations that check them, and TLAPS proofs. Paths below are
relative to the repository.

## 1. Inventory

The daemon (`internal/server/server.go`) accepts a connection, sniffs TLS,
authenticates it, peeks at the first line for 500 ms and hands the connection to
the handler of that verb; with no verb it is an interactive shell. Every
connection is a goroutine; handlers meet in package-level maps (identities,
policies, rate windows, jobs, pending reverse accepts), in the audit file and in
the file system. Clients are the CLI (one verb per connection) and long-lived
processes (`vssh mcp`, `vssh fwd`) that pool connections.

| part | state | operations | what is hard | what makes it correct |
|---|---|---|---|---|
| MUX exec pool (`mux_pool.go`, `mux.go`, exec paths of `transfer.go`) | one `muxSession` per host: mutex, connection, `noMux` | establish, roundtrip, retry once, one-shot fallback; daemon loop | daemon crash, reset, late reply, timeout, 500 ms peek, mutex held over I/O | own answer, clean session, at most one execution, every call returns |
| background jobs (`jobs.go`), `run-async` (`commands_exec.go`) | registry of records, context, process, two locked buffers | start, status, logs, cancel; `runJob`; start, poll, fetch, promote | stale checks, separate locks, descendants holding pipes, lost calls | complete logs, truthful and final verdicts, cancel honoured |
| audit log (`audit.go`, `cmdAuditVerify`) | file, in-memory hash of last line | append, seed, verify | torn write, restart, rotation | an intact log verifies, damage stays local |
| file transfers (`transfer.go`, `sync.go`, `transfer_advanced.go`), deploys (`commands_transfer.go`) | names, inodes, descriptors, GETM sessions, staging files | PUT, SYNC, RESUME, PUTZ, MPUT, PIPE_UP, GET, GETM, GETC; deploy-binary | concurrent uploads and downloads, crash, power failure, broken connection, retried install | readers see whole versions, OK means installed, no litter |
| tunnels (`forward.go`, `fmux.go`) | two sockets and two copies per proxy, a yamux session, `revPending`, a UDP relay | open, copy, half-close, close; reverse accept, claim, reap, reconnect; SOCKS, UDP associate | half-close over three hops, back-pressure, link loss noticed at different times | no early EOF, no stuck data, every accept served or closed, tunnels go away |
| session (`server.go`, `rpc.go`, `relay.go`) | identity, transport and policy maps per connection | sniff, authenticate, dispatch, clear | peek races, stale entries, crash before the record | every action attributed and recorded |
| policy (`policy.go`, `identity.go`) | cache by mtime, rate windows, tags in `authorized_keys` | load, evaluate, rate, deny | files edited under the daemon | decisions no older than the command, rate bound |
| shell (`server.go`, `client.go`) | pty, process, two copies on each side | resize, input, output, exit | first bytes in a lost buffer, two senders and one receiver | both sides return when the shell ends |
| dialing (`ssh/peers.go`, `ssh/resolve.go`, `cmd/vssh/main.go`, `transfer.go`, `tlsident.go`) | peer list of several sources, known_hosts, expected keys, session caches | load, resolve, probe, expect, dial, pin, resume | maps walked in any order, names that contain names, addresses that move, process-wide map | a verified call runs on the node it names |
| stores (`configwrite.go`, `tlsident.go`, `fleet/memory.go`, `cmd/vssh/tunnel.go`) | small files | read, edit, rewrite; start, list, stop | several processes, no lock, crash, reused process numbers | what was acknowledged stays, every tunnel can be stopped |
| workflow (`workflow/`) | steps, trail, saved run | run, jump, abort, save, status | loops, repeated ids, unknown targets, crash | the saved status is what happened |
| agent (`agent/`) | last states, attempts, last round | collect, evaluate, act, /health | rounds longer than intervals, reads between two locks | ok is recent |
| routing (`mcp_routing.go`, `mcp_hostrecord.go`) | none that lasts | list, score, select, exec | weights against constraints, stale reports | the host chosen meets the request |
| event log, fan-out, fleet reports, CLI, MCP schema, configuration parsers, SDK, scripts | little or none | | | |

`PROJECT.json` lists each part with its status and every hazard at its line.

## 2. Modules

| module | models | EXTENDS / composes |
|---|---|---|
| `ExecService` | what an exec call promises | |
| `MuxExec` | pooled exec, client and daemon | implements `ExecService` (INSTANCE) |
| `MuxExecProofs` | theorems about `MuxExec`, its refinement of `ExecService` among them | extends it |
| `JobRegistry` | background jobs | |
| `RunAsync` | the command `run-async` | extends `JobRegistry`: its calls are the registry's |
| `ShellSession` | the interactive shell, both sides | |
| `Workflow` | a workflow run and its record | |
| `Routing` | host records, scores, the choice of a host | |
| `JobRegistryProofs` | theorems about `JobRegistry` | extends it |
| `MCWork` | instance of the ways work is given to a node, and of the choice of the node | extends `RunAsync`, `ShellSession`, `Workflow`, `Routing` |
| `WorkProofs` | theorems about `RunAsync`, `ShellSession`, `Workflow`, `Routing` | extends `MCWork`, `JobRegistryProofs`, `SelectionProofs` |
| `AuditChain` | audit log and its verifier | |
| `PeerList` | the peer list and the addresses of a name (pure operators) | |
| `Dialing` | from a name to a command on some daemon | extends `PeerList` |
| `FleetMemory`, `TunnelRecords`, `KeyFile` | the stores | |
| `Agent` | the agent's rounds and /health | |
| `MCHost` | instance of what lives on one host | extends `AuditChain`, `Dialing`, the stores and `Agent` |
| `HostProofs` | theorems about all of these | extends `MCHost`, `SelectionProofs` |
| `FileTransfer` | uploads and downloads of one file | |
| `ParallelTransfer` | downloads in chunks, uploads in place | |
| `Deploy` | deploy-binary | |
| `MCFileTransfer` | instance of the three | extends them |
| `FilesProofs` | theorems about the three | extends `MCFileTransfer` |
| `Tunnel` | one forwarded connection | |
| `ReverseForward` | `fwd -R`, both protocols | |
| `UdpAssociate` | SOCKS5 UDP ASSOCIATE of `fwd -D` | |
| `MCForwarding` | instance of the three | extends them |
| `ForwardingProofs` | theorems about the three | extends `MCForwarding` |
| `Session`, `MCSession` | connections of the daemon with policy and audit records | MC module adds the symmetry |
| `SessionProofs` | theorems about `Session` | extends it, and `SelectionProofs` |
| `Selection` | loops that keep some elements of a slice | used by `PeerList`, `KeyFile`, `Session` |
| `SelectionProofs` | lemmas about `Selected` | extends it |

The MC modules `MCWork`, `MCHost`, `MCFileTransfer` and `MCForwarding` bring
together components that share no state. A behaviour of such an instance is
about one of them (`way`, `part`, `about`, `kind`) and leaves the variables of
the others as they began, so its states are the sum, not the product, of
theirs. `RunAsync` and `Dialing` compose components that do share state, with
the component they extend.

### MuxExec

`pc` is where each goroutine stands in `ExecCommandStructuredTimeout`; `mu`,
`sess`, `noMux` are the fields of `muxSession`; `srv` is the handler of each
connection in the daemon, `up` and `down` are the lines in flight. A call dials
at most three connections, so a connection is the pair of the call and the stage
(`first`, `retry`, `oneshot`). `Lock`, `Dial`, `Established`, `NotMux`,
`ProbeFails` are `execViaMux` and `establish`; `Send`, `Receive` and their
failures are `roundtrip`; `Failed` is `closeLocked` with the retry decision of
`safeToRetry`. On the daemon `TakeMux`, `PeekExpires`, `TakeCommand`, `Refuse`,
`Execute`, `Reply`, `IdleClose` are `handleConnection`, `HandleMux` and the EXEJ
branch. A command and its envelope are the call they belong to. A policy
decision is nondeterministic here. `Crash`, `Restart` (perhaps into a newer
build) and `Reset` are the faults; `lost` is a history variable of the calls
whose connection died while it carried them, used by properties only.

`ExecService` says the same without sessions: a call is asked once, answered
once, an envelope needs a run, a second run needs a lost connection.
`ImplementsService` is that refinement. `AtMostOnce`, the stronger promise of
the comments, is refuted (section 5).

### JobRegistry

`status` is `jobRecord.info.Status`, `task` the goroutine `runJob`, `shell` and
`forked` the process and its descendants, `written` and `buffered` the output on
its way into the two `lockedBuffer`s. `job_logs` is three steps (snapshot, stdout,
stderr) and `job_cancel` three (check, cancel, snapshot), since the locks are
released between them.

### AuditChain

The file is a sequence of lines, a line the pieces written to it. `Digest` is an
injective stand-in for SHA-256. `AuditLog`, `AuditLogFails`, `AuditLogTears` are
the outcomes of one `auditLog` under its mutex; `Violations` is `cmdAuditVerify`.

### RunAsync

`async` is `cmdRunAsync`: it starts a job, polls `job_status`, fetches
`job_logs` and prints, or leaves the job running and prints its id (`Promote`).
Each call is an RPC of `JobRegistry` by the caller `Me`, or is lost on its way
there or back. `InlineIsComplete` relates what is printed to what the job's
processes wrote, with other clients canceling meanwhile.

### ShellSession

`tcp` is the client's stream of keys and window sizes, `reader` what `Peek`
took into the `bufio.Reader` that nothing reads afterwards, `copy` the daemon's
two goroutines and `term` the client's. `Join` takes the first of the two that
ends, on an unbuffered channel, and the process; one goroutine may stay.

### Workflow

Any sequence of up to `MaxSteps` steps, ids repeated or not, each with any
`on_fail`; a step succeeds or fails as it likes. `trail` is the list of results,
`Save` writes it when the run is over. `HopFactor` and `HopMargin` stand for the
code's 4 and 8.

### Routing

`Reported` and `HealthOf` are what `buildHealthRecord` and a live monitor make
of a host, `Score` adds up the code's weights, `Best` sorts as `sort.SliceStable`
does, `SelectRoute` applies the final test. `RouteServes` compares the result
with the request's constraints (`Qualified`), which it says without weights, for
requests whose possible gains stay below 1000 (`Modest`: up to nine capabilities
and a few tags).

### PeerList and Dialing

Go maps are walked in any order, so an operator of `PeerList` is the set of
results a walk may have: statistics, coordinators, Tailscale and configuration
are merged by `MergeStats`, `Enrich` and `FindPeer` into the addresses to dial.
`Dialing` runs two calls of one process: `Resolve` and `Expect` (the key of the
node in the process-wide `expectedHostKey`), `Probe`, `Dial`, `Handshake` or
`HandshakeResumed` (neither key nor pin is looked at again), `RecordPin` and
`AppendPin` as two steps, `RunCommand`. An address may move to another daemon at
any moment. `VerifiedRunsRight` is what remains true of `WrongHostRefused`: it
holds while no other name was resolved to the same address.

### FleetMemory, TunnelRecords, KeyFile

Each is a file, or a directory of files, that several processes read, change
and write back without a lock. The models have one step per read, truncation
and write, with a death between any two. What is lost to a concurrent rewrite
is tracked in history variables (`excused`, `claim`), as are a tunnel whose
record was never written (`untracked`) and that `ps` could not be asked
(`astray`), so that the properties say exactly what is promised: `NotesSurvive`,
`EditsHold`, `TunnelsAreTracked`.

`AddNotes` adds the notes a command leaves, one for `TakeNote` and any number up
to `MostFound`, none included, for `AutoNote` (`ExtractNotes`). `Upsert` has the
read that fails: the file is taken for an empty one. `WriteTunnelRecord` has the
write that fails: the start is reported all the same.

### Agent

A round tries the paths of each node in order; a probe that times out takes its
time off the clock `now`, so that a round may outlast intervals. The handler of
/health reads health and time of the last round under two locks (`IsHealthy`,
`LastRun`). `OkIsRecent` bounds by three intervals the age of what "ok" rests on.

### FileTransfer

Names map to inodes, inodes to blocks; descriptors outlive renames. `Ask` opens
the file that is there, and what it opened is hashed later (`Found`), whatever
the name leads to by then: `Skip` answers, or `BeginStaged`, `BeginPutZ` or
`BeginResume` goes on. `Stored` is what each verb does once all blocks are in
(PUT flushes, SYNC removes the target, RESUME hashes, PUTZ truncates), `Rename`
and `RemoveTmp` finish. Each of these operations on files may fail (`Fails`,
`Trouble`), with what the code makes of it: `AfterFailedRename` is an error for
SYNC, a clean-up for PUT and OK for RESUME. `failed` is a history of the failures
that the properties name as exceptions. A power failure keeps a prefix of what
was not flushed. `Overlap = FALSE` keeps two uploads that
would share a temporary name apart; `files_race` shows why that matters.
`PathWhole` and `DownloadWhole` exclude PUTZ, which writes in place, and, after
a power failure, the verbs that do not flush (`Atomic`).

`ParallelTransfer` has a file as a sequence of blocks: GETM announces size, hash
and the number of connections (`Conns` of any number asked for, below one
included: `Panic` is the division by zero), each GETC opens the name again and copies its
range (`ChunkLength`), sessions expire (`Cleanup`), MPUT and PIPE_UP write in
place, PUT and SYNC replace the inode. `ChunksMakeFile` holds for a file nobody
changed. `DownloadIsOneVersion` is it and `DownloadWhole` together.

### Deploy

The clients of `runDeployBinary` and the executions of the install command on
the node. The upload of the staging file is one step (a PUT of a path of its
own). `Start` begins an execution, by the first call or by the retry of a pooled
session; it goes on, block by block, whatever the client hears (`NoAnswer`), and
ends when the daemon is stopped (`NodeStops`). `DeployIsAtomic` holds as long as
no two executions ran at once; if they did (a retry, or two deploys of one path)
they share `path.new` and the staging file, and TLC shows a mixed binary under
the path when `~met` is left out.

### Tunnel

Three hops, each a bounded FIFO with `fin` (writer ended) and `gone` (reader
closed) flags; each proxy has two copies. `CanHalfClose` says which writers the
loops of `halfPipe` and `HandleForward` can half-close: a yamux stream never, a
TLS connection only on the client's side. That is why `AppObservesEOF` is
stated for plain links only and `TargetObservesEOF` not for FMUX.

### ReverseForward

`session` is a control connection as each side sees it (`here`, `there`):
a break is noticed by each in its own time. `port` is the session that has the
listener, `peer` the accepted connections, `offer` what the client knows of
them. FMUX streams and the RFWD/RDATA protocol with `revPending` and its reaper
are both there; a slow FMUX_OK (`FmuxTooSlow`) makes the client use the latter
for good.

### UdpAssociate

Two goroutines of the proxy, the daemon's handler and its goroutine, a stream
between them with room for two frames each way. A datagram is good, ignored (a
fragment, too short) or bad: sent on, but refused by `readUDPFrame`. Addresses
of the application are model values; `heard` is the one heard last.

### Session

`at` is where the goroutine of each connection stands in `handleConnection` and
the handler of its verb; `identity`, `transport`, `meta` are the three maps keyed
by connection, `cache` is `policyCache`, `window` is `execRate`. `Take` is a
request with the gate of its verb up to `os.Stat`; `CacheHit`, `ReadFile` and
`StorePolicy` are the rest of `LoadPolicy`, which holds no lock; `Rate` is
`rateExceeded`; `Run`, `Audit` and `Reply` follow in the handler's order.
`StreamOpens` and `StreamAudits` are `fmuxServeStream`, a goroutine that outlives
its session. `Edit` and `Retag` rewrite the policy file and the key's line in
`authorized_keys` (a line read while the file is truncated is a line without a
tag); an edit may leave the modification time as it was. A policy allows, denies
or cannot be loaded; patterns and paths are left out. A key has at most one
policy, in one file, and every policy sets the same rate. File times and the
clock never go back. `approved`, `decided`, `who`, `ran`, `answered`, `unlogged`
are history. A restart empties the rate window, so `approved` starts anew and
`RateBound` is per run of the daemon.

`MuxExec` abstracts from policy and records and models the lines of a session;
`Session` abstracts from lines and models what lies behind them.

## 3. Runs and bounds

| run | question | bounds |
|---|---|---|
| `mux` | all of MuxExec: safety, refinement, liveness, inductive invariant | 2 calls, 1 crash, 1 reset. Two calls are what it takes to share, reuse and spoil a session: the first establishes, the second reuses and retries |
| `mux_retry` | is a command executed twice? (yes) | 1 crash |
| `jobs` | all of JobRegistry, RunAsync, ShellSession, Workflow and Routing | 1 job, 2 clients (one of them run-async), 3 RPCs each, 1 lost call, 1 line per stream: records share nothing, so one job shows every race. 3 keys or window sizes, 2 lines of output. Every workflow of up to 3 steps with 2 ids, hop limit 1 per step and 2: three steps are a step before, at and behind the target of a jump. 2 hosts, 12 reports, any monitor, 5 kinds of request: nine required capabilities are the most that `Modest` allows |
| `host` | all of AuditChain, Dialing, the stores and Agent | 5 appends, 2 torn: a fragment, one glued to it, and a line on either side. 2 calls to 3 names, one part of another, 4 addresses, 1 that moves, 1 failure. 2 users of the memory of 2 nodes, 1 that dies, 2 notes kept and up to 3 found in an output, one more than are kept. 2 tunnels, 2 stops or lists, 2 process numbers, 1 fault. 3 editors of 2 keys in a file of no line or one, 1 that dies, any read that fails: two that overlap and one after. 1 watched node, 5 intervals, so that a round can outlast several |
| `wrong_host` | is the wrong host always refused? (no) | 2 calls, no moves, no failures |
| `files` | all of FileTransfer, ParallelTransfer and Deploy | 2 uploads of any verb and of 2 versions, 1 download, 2 blocks, 1 crash, 2 lost connections or failed file operations (`MaxDrops`: a rename and the removal after it); 2 blocks are the fewest with a partial file that is not empty. 1 download of 0, 2 or 5 blocks with -2 to 4 connections asked for and up to 3 granted (sizes below, between and above multiples), 1 upload, 1 replacement, 1 failure. 2 deploys by 1 process or 2, 1 lost call, stops of the node at any moment |
| `files_race` | may uploads of one path overlap? (no) | no faults |
| `tunnel` | all of Tunnel, ReverseForward and UdpAssociate | 2 chunks per direction, 1 chunk of room (so that a hop fills up), 1 link failure, each kind of link. 2 peers, 2 sessions, 1 break, 1 restart, 1 slow answer or failed Accept. 2 addresses, 3 datagrams and 3 answers, room for 2 frames: one more than fit |
| `tunnel_close` | does a tunnel end when both ends close? (over FMUX no) | no failure |
| `reverse_reconnect` | does a reverse forward come back? (no) | 3 sessions, 1 break, nothing else |
| `session` | all of Session: records, policies, rates | 2 connections of 1 key over either transport, 2 requests each and 3 in all, 1 edit, 1 change of tag, 1 tick, 1 restart, 1 failed log write; limit 1 in a window of length 0 (one tick), the smallest in which two connections compete for a place. Two loads and one edit are what it takes to store a policy late |
| `session_unaudited` | is every executed command recorded? (no) | 1 connection, no faults |

Deadlock checking is off: in every instance the system stops when its bounded
work is done. That nothing waits for ever where it should not is what the
liveness properties say.

Each property of a passing run has a mutant in `PROJECT.json`: an operator named
`<definition>_<change>` in the module that would break it.

## 4. Fairness

* `MuxExec`: weak fairness of each call's steps. Dials and reads carry
  deadlines, so every wait of a call ends, and Go hands a mutex to each waiter in
  turn. Nothing is assumed of daemon or network. (The write of one short line in
  `roundtrip` has no deadline; it goes to the socket buffer.)
* `JobRegistry`: `runJob`, the copying of output and the kill proceed. No command
  is assumed to end, no descendant to exit.
* `Tunnel`: the proxies' goroutines run, the set-up ends by its deadlines, and
  both ends read what arrives; they need never write, shut down or close.
* `ReverseForward`, `UdpAssociate`, `ShellSession`: the goroutines of both
  programs, keepalives and deadlines. Peers need not connect or close, the shell
  need not end, applications need not send or close. The fairness is stated for
  the union of these steps (`ReverseFairStep`, `UdpFairStep`, `ShellFairStep`):
  each of them uses up a byte, a frame, a goroutine or a session and there are
  finitely many of those, so the union cannot go on for ever without any one of
  them that stays enabled.
* Safety runs assume no fairness.

## 5. What the runs found

1. `mux_retry`: an EOF on a reused session is taken for an idle close and the
   command is run again, though the daemon may have died after running it.
   `RunTwiceOnlyIfLost` states what remains true: only then, only once more.
2. `files_race`: the temporary name of PUT depends on path and daemon pid only;
   concurrent uploads of one path expose a partial or mixed file.
3. `tunnel_close`: over FMUX no end of stream crosses the link and both proxies
   of a closed connection stay.
4. `session_unaudited`: EXE, job_start and restart_service run commands without
   an audit record; only their refusals are recorded.
5. `reverse_reconnect`: a client that notices a break before the daemon does asks
   for a port the daemon still holds; the refusal is taken for final and the
   reverse forward ends (`PortIsFreed` shows that the port would be free later).
6. `wrong_host`: the expected key is kept by address for the whole process, so a
   second call whose name resolves to that address replaces what the first is
   about to check. `VerifiedRunsRight` states what remains true.

`OwnLinkEnds` (with both ends closed the proxies of a plain or TLS link go away)
holds but for one case, which its first form met: when the copies out of both
ends stopped on a failed write while both directions of the link were full, no
one reads the link any more and each proxy waits to write (`Jammed`).
`PolicyFresh` is stated in file times: two edits of a policy within one tick of
the file system's clock (milliseconds on some) may leave the first in force, even
a file caught half written, until the next edit.

What the models show beside their properties, each the reason for an exception
in one of them or found while it was written:

* Exec: any first line but `MUX_OK`, the echo of a shell that a late verb ended
  up in included, marks the daemon as one without MUX for good (`mux_pool.go:97`);
  a slow FMUX_OK does the same for FMUX (`fmux.go:278`).
* Records: a stream that still dials when its FMUX session ends is recorded
  without key, transport and rule (`fmux.go:103`); a command that no policy
  decided is recorded with the rule of an earlier one of its MUX session, if the
  key lost its tag in between (`policy.go:254`); a connection that fails to
  authenticate leaves its entry in `connTransports` (`server.go:159`).
* Shell: the daemon's peek swallows the window size the client sends first
  (`client.go:30`, `server.go:221`); the pty has it after the next resize.
* Files: RESUME does not verify the partial file it continues
  (`transfer_advanced.go:187`); it answers OK though its rename failed (`:208`),
  and MPUT OK though its write failed (`:252`). A write of PUTZ that fails leaves
  part of the new file in place (`:148`). A SYNC that cannot rename has already
  removed the target and leaves `path.tmp` (`sync.go:106`). A SKIP may be answered
  for a file that a PUT has replaced since it was opened (`sync.go:44`).
* Chunks: GETM keeps a number of connections below one, 0 also for a request
  without one; GETC divides by it (`transfer_advanced.go:357`), and nothing
  recovers from the panic, so the daemon ends with all its connections.
* Tunnels: an error in writing a tunnel's record is dropped and the start is
  reported (`tunnel.go:178`): the tunnel cannot be listed or stopped.
* Keys: a pin or a node's address that is set while the file cannot be read
  replaces the whole file and reports success (`configwrite.go:78`).
* Deploys: two executions of the install command at once share `path.new` and
  may install a mix (`commands_transfer.go:156`); what the verify command says,
  or whether it ran, does not change the reported success (`:180`).
* UDP: a datagram for a name that does not resolve, or one that is a header
  only, ends the daemon's handler and the application's socket while the TCP
  connection of the association stays (`fmux.go:127`, `forward.go:578`).
* Workflow: an aborted run is saved as "aborted", not "failed" (`engine.go:22`).
* Agent: hints are keyed by public keys and looked up by names, which never
  match; the count of timeouts is never reset, so a node that timed out more
  often than the limit stays a problem for the agent's life.
* Memory: a reader that meets the file between truncation and write finds no
  JSON, and every `resolveTargets` of that moment fails.
* Routing: ten required capabilities outweigh a state to avoid; a stale host is
  never chosen for a request without capabilities and tags, avoided or not.

## 6. Proofs

Every invariant that a passing run checks, the action property `VerdictFinal` and
the refinement `ImplementsService` are theorems: they hold for all values of the
constants that meet the named assumptions, not only for those of the run. The
assumptions say that the constants are what the code has: bounds are numbers,
stand-ins such as `None` or `Nobody` are not members of the sets they stand
beside, the name of a node is no address, a source of peers is a finite list.
TLC evaluates each of them. Each theorem rests on an inductive invariant; TLC
checked it, or the properties it strengthens, before it was proved.

| module | theorems |
|---|---|
| `MuxExecProofs` | `TypeCorrect`, `AnswersAreOwn`, `FreeSessionIsClean`, `Inductive`, `RunsTwiceOnlyIfLost`, `ServiceIsImplemented` |
| `JobRegistryProofs` | `JobTypesCorrect`, `VerdictsAreTruthful`, `VerdictsAreFinal`, `LogsAreComplete`, `CancelIsAcknowledged` |
| `WorkProofs` | `StatusesAreTruthful`, `ChoicesServe`, `InlineResultsAreComplete`, `WorkTypes` |
| `HostProofs` | `TunnelsTracked`, `VerifiedRunOnTheirTarget`, `OkIsOfLate`, `AgentTypes`, `TornWritesDamageTwoLines`, `EditsAreKept`, `NotesAreKept`, `HostTypes` |
| `SessionProofs` | `AnswersAreRecorded`, `RecordsAreOwn`, `PoliciesAreFresh`, `RatesAreBounded` |
| `ForwardingProofs` | `RelaysLive`, `ClaimsAreKept`, `EofsAreComplete`, `ForwardingTypes` |
| `FilesProofs` | `FileIsWhole`, `OkIsInstalled`, `FileNeverMissing`, `DownloadsAreWhole`, `NoTraceIsLeft`, `ChunksAreTheFile`, `DownloadsAreOneVersion`, `DeploysAreAtomic`, `FilesTypes` |
| `SelectionProofs` | the lemmas about `Selected` and the least number of a set that the others cite |

### The arguments

**MuxExec.** `AnswersMatch` alone is not inductive: nothing in it says whose reply
is on the connection a call reads from. `IInv` adds `LockInv` (the mutex is held
exactly in the critical section), `SessionInv` and `FreshInv` (the session is
open and was dialed by `establish`; a connection is untouched until its own call
dials it), `LoadInv` (at most one line on a connection, and none on the pooled
one unless a call awaits its reply) and `OwnerInv` (whatever a connection carries
belongs to the call that waits on it, unless the client closed it; a reply means
the command ran). The last two need each other: an exchange is owned because
there was none before it, and there was none because its owner read each reply
or closed the connection. `RunsTwiceOnlyIfLost` counts with `RunsOf`: what a
call has run, and what a line of its may still run, is one; or two, and then the
first was lost under it. `GoneInv` and `MadeInv` say that nothing else may run
for it. From the same invariant every step is one of `ExecService` or a stutter.

**JobRegistry, RunAsync.** `JobInv` orders the goroutine, the process, its
descendants and the verdict: a verdict comes after the copying of the output.
`RepliesInv` is about calls that stand between two of their locks: what they read
so far is still true because a verdict, the output it came with and a
cancellation stay (`JobMoves`). `AsyncInv` carries that over calls that may be
lost to what `run-async` prints.

**Workflow, Routing, ShellSession.** `TrailInv` relates the verdict to the trail,
`RecordInv` what the file holds to the phase of the save. For `RouteServes` the
weights are split into what can be gained and what a violated constraint costs
(`ScoreParts`); that the first stays below the second is where `Modest` is
needed. `ShellInv` bounds the lines that are under way.

**AuditChain.** `Chained`: a whole line that follows an undamaged one bears its
hash. `Current`: the hash in memory, if there is one, is that of the last line.
A torn write damages one line more, and the verifier complains about a damaged
line or the one behind it only.

**Dialing.** For the node a command runs on nothing has to be known of how names
are resolved: `KeptIsOwn` says that an address to which one target only was
resolved keeps that target's key, ticket and session, `CallIsOwn` that a call
past the check of the key is at its target. For the types it has to be known:
`HostTypes` follows a name through the merge of the sources and the filters of
`CandidateHosts` to a host, and the pin back to the key of a node.

**KeyFile, FleetMemory, TunnelRecords, Agent.** What is promised of a file must
also be known of the copies under way. `CopyMeets` and `CopyKeeps` say of each
editor's or user's copy what would be true if it were written now, for the lines
and notes that the history variables do not excuse; `Tidy` that notes ascend, so
that those pushed out are older than those kept. `OneProcess` and `KnownProcess`
(a tunnel has one process, and who knows its number knows that one) carry
`Tracked` over reused process numbers. `Clocked`, `Counted` and `WellLately` bound
the time since the last good round in each phase of a round and of a query.

**Session.** `Handled`, `Decides` and `Recorded` say for each label of a handler
what it has decided and what is already in the log. `PolicyInv` follows the
modification time from `os.Stat` to the store: no policy in the cache or in a
handler's hand is older than the file that was found. `RateInv` is `Windowed`:
the window is the end of the approved times, and what is in front of it is older
than the window is long, also with the clock read twice.

**FileTransfer.** `Handles` ties each upload to its temporary inode and the blocks
it holds, `Directory` and `Exclusive` say that a name leads to one inode and a
temporary inode belongs to one upload, and `PathInv`, `PresentInv`, `StreamInv`
and `TraceInv` add what each theorem needs. For `OkIsInstalled`, `SkipInv` says of
an upload that has only opened the file that the name still leads there, or a
PUT has replaced it since. For `NoTraceIsLeft`, `Source` says which uploads a
block of the file can be from (one in the middle of PUTZ's write, one answered
OK, or one whose write failed), and `LeftBy` which failure leaves a temporary
name without an owner. All but the theorems about Deploy
and ParallelTransfer assume `~Overlap`, as the run `files` does, under which two
uploads that would share a temporary name stay apart, and `files_race` shows that
`PathWhole` fails without.

**ParallelTransfer, Deploy.** `FetchOK` joins `ConnsOK` (a session's connections
are above zero exactly if those asked for were) and, for each chunk, `ChunkOK`:
what it got is its range (`Current`) of the announced file, unless that was
changed, and nothing for a number below one. `ChunksShow` is that the ranges of
`ChunkLength` make up the whole, for any size and any number of connections above
zero. `Alone` and `StagedForInstall`: as
long as executions have not met, `path.new` is one execution's.

**Tunnel, ReverseForward, UdpAssociate.** `WayInv` counts, for each direction, what
was written, is under way and was read; `EofIsLast` that the end of the stream is
behind all of it. `Numbered`, `Held`, `Offered` and `OneListener` say who has a
reverse connection at each moment: the listener, the pending map, an offer or a
handler. `UdpInv` says which goroutines a socket that is open still has.

### What the proofs changed

The attempt at `EditsHold` showed the bookkeeping of `KeyFile` incomplete: its
properties held with the instance's few editors and one written line, but a key
that is found already there was not noted as at risk from a rewrite under way.
That is corrected, and the run has files with and without lines. Loops that keep some
elements of a slice (`rateExceeded`, `RevokeKey`, `upsertKeyed`, the filters of
`CandidateHosts`) are `Selected` of the module `Selection`, a recursive function
of how far the loop has come; facts about it (`SelectedEnd`: what is kept of a
window in which the old comes first is its end) are proved by taking the least
counterexample (`NatMin`).

### What TLC alone shows

* Liveness: `EveryCallReturns`, `WorkEnds`, `DataAndEndArrive`,
  `AcceptedIsServedOrClosed`, `NothingIsLeft`. Fairness and ENABLED are out of the
  prover's reach.
* The refuted claims, which are counterexamples.

No module that is proved about declares or reaches a RECURSIVE operator. That
`Digest` stands for SHA-256 without collisions is a matter of the model, not an
assumption of a theorem.


## 7. Not modelled, and why

* Wording, sizes and encodings of messages, TLS and yamux internals, the contents
  of commands: no property is about them.
* PIPE_DOWN, directory trees, owner and mode of files: the first is GET without
  a size, the others leave the states of one file as they are.
* The read-only RPCs, INFO and the relay: they copy or report and keep no state.
* Regular expressions, globs, preapproved commands, command classification:
  functions over text.
* `runMany`: independent commands, each writing its own slot of a slice.
* The event log: appends of events whose ids are unique by construction.
* diff and intent: reports over one snapshot of the nodes.
* `internal/ssh` exec and copy paths: nothing calls them. Identity rotation: one
  process, a sequence of file writes by hand.
* Parsers, argument handling, MCP schema and rendering, the SDK and scripts: no
  state of their own.

## 8. Plan

1. Abstract specifications beside `ExecService`: a service that accepts and hands
   over connections, which `ReverseForward` implements while its sessions hold,
   and a file that changes from version to version in one step, which
   `FileTransfer` implements for the verbs that rename.
2. Proofs: the step refinement of both, and action properties (a record of the
   audit log is never changed, a claimed connection never goes back).
3. Models: identity rotation, the relay.
