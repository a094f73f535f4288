------------------------------ MODULE Session ------------------------------
(***************************************************************************)
(* The daemon's connections: handleConnection of internal/server/server.go *)
(* with what every verb shares: the identity, transport and policy maps    *)
(* and the records of audit.go, the policy gates and the rate window of    *)
(* policy.go, the verbs' entry code in transfer.go, mux.go, forward.go,    *)
(* fmux.go and transfer_advanced.go.                                       *)
(*                                                                         *)
(* A connection is a goroutine.  Connections meet in the policy cache, the *)
(* rate windows and the audit log, and with whoever edits the policy file  *)
(* or the policy tags of keys.  What a verb does besides is in the other   *)
(* modules; here a request is let through or refused, runs, is recorded    *)
(* and answered.                                                           *)
(***************************************************************************)
EXTENDS Integers, Sequences, FiniteSets, Functions, Selection

CONSTANTS Conns, Keys, Transports, None,  \* Transports: TLS and plain
          PerMin,       \* the policy's rate limit ...
          Window,       \* ... in any period of this length (60 s)
          MaxRequests, MaxTaken, \* bounds: requests of a connection, of all
          MaxEdits, MaxRetags, MaxTime, MaxCrashes, MaxFails  \* bounds

ASSUME RateAssumption == PerMin \in Nat \ {0} /\ Window \in Nat
ASSUME BoundAssumption ==
  \A b \in {MaxRequests, MaxEdits, MaxRetags, MaxTime, MaxCrashes, MaxFails} : b \in Nat

\* EXE stands for job_start and restart_service too, FILE for PUT, GET and
\* the file RPCs, OTHER for the verbs no policy can scope (SYNC, RELAY, ...).
ExecVerbs == {"EXEJ", "MUX", "EXE"}
Verbs     == ExecVerbs \cup {"FILE", "FWD", "FMUX", "OTHER"}
Unscoped  == {"FMUX", "OTHER"}

\* What a policy comes to for a request (its patterns, paths or targets match or
\* not), or why it cannot be loaded; and the rules noted for the records, with
\* "error" for a policy that cannot be loaded.
Contents == {"allow", "deny", "torn", "missing"}
Rules    == {"allow", "deny", "error", "rate", "blocked"}
Denials  == Rules \ {"allow"}
Requests == Conns \X (1..MaxRequests)

ASSUME NoneAssumption == None \notin Conns \cup Keys \cup Transports \cup Verbs \cup Rules

VARIABLES
  at,        \* where each connection's handler is
  verb,      \* its verb
  req,       \* requests it took so far
  identity, transport, meta,  \* connIdentities, connTransports, connPolicyMeta
  stream,    \* the goroutine of an FMUX stream, which outlives its session
  stat, pol, \* LoadPolicy's locals: the file's mtime, the policy obtained
  disk,      \* the policy file: mtime, content and number of edits
  cache,     \* policyCache
  tagged,    \* the keys whose line in authorized_keys has a policy= tag
  window,    \* execRate
  now,       \* the clock
  log,       \* the audit log: the records of each request, in order
  crashes, fails, retags,
  \* History: the peer that authenticated, the rule that decided a request, what
  \* ran, was answered, failed to be logged, and the times of approved commands.
  who, decided, ran, answered, unlogged, approved

conn    == <<at, verb, req, stream, stat, pol>>
maps    == <<identity, transport, meta>>
files   == <<disk, tagged>>
shared  == <<cache, window, log>>
history == <<who, decided, ran, answered, unlogged, approved>>
faults  == <<crashes, fails, retags>>
vars    == <<conn, maps, files, shared, now, faults, history>>

Peers    == [key : Keys, via : Transports]
Policies == [mtime : 0..MaxEdits, rule : Contents]
Record   == [key : Keys \cup {None}, via : Transports \cup {None},
             rule : Rules \cup {None}, ok : BOOLEAN]

TypeOK ==
  /\ at \in [Conns -> {"free", "accepted", "ready", "lookup", "store", "rate", "run", "deny",
                       "audit", "reply", "streams", "open", "closed"}]
  /\ verb \in [Conns -> Verbs \cup {None}]
  /\ req \in [Conns -> 0..MaxRequests]
  /\ identity \in [Conns -> Keys \cup {None}]
  /\ transport \in [Conns -> Transports \cup {None}]
  /\ meta \in [Conns -> Rules \cup {None}]
  /\ stream \in [Conns -> {"none", "dialing"}]
  /\ stat \in [Conns -> 0..MaxEdits]
  /\ pol \in [Conns -> Policies \cup {None}]
  /\ disk \in [edits : 0..MaxEdits, mtime : 0..MaxEdits, rule : Contents]
  /\ cache \in [mtime : 0..MaxEdits, pol : Policies] \cup {None}
  /\ tagged \subseteq Keys
  /\ window \in [Keys -> Seq(0..MaxTime)] /\ \A k \in Keys : Len(window[k]) <= PerMin
  /\ now \in 0..MaxTime
  /\ log \in [Requests -> Seq(Record)]
  /\ crashes \in 0..MaxCrashes /\ fails \in 0..MaxFails /\ retags \in 0..MaxRetags
  /\ who \in [Conns -> Peers \cup {None}]
  /\ decided \in [Requests -> Rules \cup {None}]
  /\ ran \subseteq Requests /\ answered \subseteq Requests /\ unlogged \subseteq Requests
  /\ approved \in [Keys -> Seq(0..MaxTime)]

Init ==
  /\ at = [c \in Conns |-> "free"]
  /\ verb = [c \in Conns |-> None]
  /\ req = [c \in Conns |-> 0]
  /\ identity = [c \in Conns |-> None]
  /\ transport = [c \in Conns |-> None]
  /\ meta = [c \in Conns |-> None]
  /\ stream = [c \in Conns |-> "none"]
  /\ stat = [c \in Conns |-> 0]
  /\ pol = [c \in Conns |-> None]
  /\ disk = [edits |-> 0, mtime |-> 0, rule |-> "allow"]
  /\ cache = None
  /\ tagged \in SUBSET Keys
  /\ window = [k \in Keys |-> <<>>]
  /\ now = 0
  /\ log = [r \in Requests |-> <<>>]
  /\ crashes = 0 /\ fails = 0 /\ retags = 0
  /\ who = [c \in Conns |-> None]
  /\ decided = [r \in Requests |-> None]
  /\ ran = {} /\ answered = {} /\ unlogged = {}
  /\ approved = [k \in Keys |-> <<>>]

----------------------------------------------------------------------------
Goto(c, label) == at' = [at EXCEPT ![c] = label]
Taken == FoldFunction(+, 0, req)
Current(c) == <<c, req[c]>>

\* The handler returns: clearConnIdentity runs for an authenticated connection.
Close(c) ==
  /\ Goto(c, "closed")
  /\ identity' = [identity EXCEPT ![c] = None]
  /\ transport' = [transport EXCEPT ![c] = None]
  /\ meta' = [meta EXCEPT ![c] = None]
  /\ stat' = [stat EXCEPT ![c] = 0]
  /\ pol' = [pol EXCEPT ![c] = None]

----------------------------------------------------------------------------
(* Sniffing and authentication.                                            *)

\* The first byte tells TLS from plain; a bad handshake, a refused plain
\* connection or 10 s of silence end it at once.
Accept(c) ==
  /\ at[c] = "free"
  /\ \/ \E via \in Transports :
          transport' = [transport EXCEPT ![c] = via] /\ Goto(c, "accepted")
     \/ Goto(c, "closed") /\ UNCHANGED transport
  /\ UNCHANGED <<verb, req, stream, stat, pol, identity, meta, files, shared, now, faults, history>>

\* An unknown key, a wrong signature or a lost connection: the transport
\* entry stays, the deferred clearing is not set up yet.
AuthFails(c) ==
  /\ at[c] = "accepted"
  /\ Goto(c, "closed")
  /\ UNCHANGED <<verb, req, stream, stat, pol, maps, files, shared, now, faults, history>>

AuthOK(c, k) ==
  /\ at[c] = "accepted"
  /\ Goto(c, "ready")
  /\ identity' = [identity EXCEPT ![c] = k]
  /\ who' = [who EXCEPT ![c] = [key |-> k, via |-> transport[c]]]
  /\ UNCHANGED <<verb, req, stream, stat, pol, transport, meta, files, shared, now, faults,
                 decided, ran, answered, unlogged, approved>>

\* No verb within 500 ms: an interactive shell.
PeekExpires(c) ==
  /\ at[c] = "ready" /\ verb[c] = None
  /\ Goto(c, "open")
  /\ UNCHANGED <<verb, req, stream, stat, pol, maps, files, shared, now, faults, history>>

\* The key lacks the verb's capability, the verb is unknown, MUX is idle or
\* told to QUIT, the shell, the tunnel or the FMUX session ends.
Return(c) ==
  /\ at[c] \in {"ready", "open", "streams"}
  /\ Close(c)
  /\ UNCHANGED <<verb, req, stream, files, shared, now, faults, history>>

----------------------------------------------------------------------------
(* The policy gates.                                                       *)

\* Mutant: the first rule noted for a connection stays.
Decided_FirstStays(c, n, rule, label) ==
  /\ Goto(c, label)
  /\ meta' = [meta EXCEPT ![c] = IF @ = None THEN rule ELSE @]
  /\ decided' = [decided EXCEPT ![<<c, n>>] = rule]

\* The decision on request n: its rule is noted for the connection's records.
Decided(c, n, rule, label) ==
  /\ Goto(c, label)
  /\ meta' = [meta EXCEPT ![c] = rule]
  /\ decided' = [decided EXCEPT ![<<c, n>>] = rule]

\* EvalExec, PathAllowed, fwdTargetMatch; a policy that cannot be loaded denies.
Judge(c, v, n, p) ==
  /\ pol' = [pol EXCEPT ![c] = p]
  /\ CASE p.rule = "allow" -> Decided(c, n, "allow", IF v \in ExecVerbs THEN "rate" ELSE "run")
       [] p.rule = "deny"  -> Decided(c, n, "deny", "deny")
       [] OTHER -> Decided(c, n, IF v = "FWD" THEN "deny" ELSE "error", "deny")

\* A request: the first one brings the verb, MUX takes more.  The gate of a
\* key without a tag is open (enforceExecPolicy, policyPathDenied,
\* policyFwdDenied), an unscoped verb of a key with one is blocked
\* (policyBlockUnscoped), and LoadPolicy begins with the file's mtime.
Take(c, v) ==
  /\ at[c] = "ready"
  /\ verb[c] = None \/ (verb[c] = "MUX" /\ v = "MUX")
  /\ req[c] < MaxRequests /\ Taken < MaxTaken
  /\ req' = [req EXCEPT ![c] = @ + 1]
  /\ verb' = [verb EXCEPT ![c] = v]
  /\ \/ /\ identity[c] \notin tagged
        /\ Goto(c, "run")
        /\ pol' = [pol EXCEPT ![c] = None]
        /\ UNCHANGED <<meta, decided, stat>>
     \/ /\ identity[c] \in tagged /\ v \in Unscoped
        /\ Decided(c, req[c] + 1, "blocked", "deny")
        /\ pol' = [pol EXCEPT ![c] = None]
        /\ UNCHANGED stat
     \/ /\ identity[c] \in tagged /\ v \notin Unscoped
        /\ stat' = [stat EXCEPT ![c] = disk.mtime]
        /\ IF disk.rule = "missing"
             THEN Judge(c, v, req[c] + 1, [mtime |-> disk.mtime, rule |-> "missing"])
             ELSE /\ Goto(c, "lookup")
                  /\ pol' = [pol EXCEPT ![c] = None]
                  /\ UNCHANGED <<meta, decided>>
  /\ UNCHANGED <<stream, identity, transport, files, shared, now, faults,
                 who, ran, answered, unlogged, approved>>

\* Mutant: whatever was loaded once is used.
CacheValid_AnyMtime(c) == cache # None
CacheValid(c) == cache # None /\ cache.mtime = stat[c]

\* The cache holds the policy, or the error, loaded at that mtime ...
CacheHit(c) ==
  /\ at[c] = "lookup"
  /\ CacheValid(c)
  /\ Judge(c, verb[c], req[c], cache.pol)
  /\ UNCHANGED <<verb, req, stream, stat, identity, transport, files, shared, now, faults,
                 who, ran, answered, unlogged, approved>>

\* ... or the file is read as it is by now,
ReadFile(c) ==
  /\ at[c] = "lookup"
  /\ ~CacheValid(c)
  /\ pol' = [pol EXCEPT ![c] = [mtime |-> disk.mtime, rule |-> disk.rule]]
  /\ Goto(c, "store")
  /\ UNCHANGED <<verb, req, stream, stat, maps, files, shared, now, faults, history>>

\* and stored under the mtime seen before.
StorePolicy(c) ==
  /\ at[c] = "store"
  /\ cache' = [mtime |-> stat[c], pol |-> pol[c]]
  /\ Judge(c, verb[c], req[c], pol[c])
  /\ UNCHANGED <<verb, req, stream, stat, identity, transport, files, window, log, now, faults,
                 who, ran, answered, unlogged, approved>>

\* Mutant: one command more than the limit.
Exceeded_OffByOne(kept) == Len(kept) > PerMin
Exceeded(kept) == Len(kept) >= PerMin

\* rateExceeded, under the window's mutex; its two readings of the clock may
\* differ, the first one being the cutoff's.
Rate(c) ==
  LET k == identity[c] IN
  /\ at[c] = "rate"
  /\ \E start \in {now - 1, now} :
       LET kept == Selected(window[k], (start - Window)..now) IN
       IF Exceeded(kept)
         THEN /\ window' = [window EXCEPT ![k] = kept]
              /\ Decided(c, req[c], "rate", "deny")
              /\ UNCHANGED approved
         ELSE /\ window' = [window EXCEPT ![k] = Append(kept, now)]
              /\ approved' = [approved EXCEPT ![k] = Append(@, now)]
              /\ Goto(c, "run")
              /\ UNCHANGED <<meta, decided>>
  /\ UNCHANGED <<verb, req, stream, stat, pol, identity, transport, files, cache, log, now, faults,
                 who, ran, answered, unlogged>>

----------------------------------------------------------------------------
(* Running, recording, answering.                                          *)

\* Mutant: a command of a session in use is not recorded.
AfterRun_MuxOnce(c) == CASE verb[c] \in {"EXEJ", "FWD"} \/ req[c] = 1 -> "audit"
                         [] verb[c] = "FMUX" -> "streams"
                         [] OTHER -> "reply"

\* FWD is recorded once it is answered; EXE, FILE and OTHER are not recorded
\* when they were let through.
AfterRun(c) == CASE verb[c] \in {"EXEJ", "MUX", "FWD"} -> "audit"
                 [] verb[c] = "FMUX" -> "streams"
                 [] OTHER -> "reply"

\* The request takes effect.
Run(c) ==
  /\ at[c] = "run"
  /\ ran' = ran \cup {Current(c)}
  /\ answered' = IF verb[c] \in {"FWD", "FMUX"} THEN answered \cup {Current(c)} ELSE answered
  /\ Goto(c, AfterRun(c))
  /\ UNCHANGED <<verb, req, stream, stat, pol, maps, files, shared, now, faults,
                 who, decided, unlogged, approved>>

\* auditLog, under its mutex: one record, with what the maps hold by now, or
\* none if the write fails, which nobody notices.
Append1(c, r, ok) ==
  \/ /\ log' = [log EXCEPT ![r] = Append(@, [key |-> identity[c], via |-> transport[c],
                                            rule |-> meta[c], ok |-> ok])]
     /\ UNCHANGED <<fails, unlogged>>
  \/ /\ fails < MaxFails
     /\ fails' = fails + 1
     /\ unlogged' = unlogged \cup {r}
     /\ UNCHANGED log

Audit(c) ==
  /\ at[c] \in {"audit", "deny"}
  /\ Append1(c, Current(c), at[c] = "audit")
  /\ Goto(c, IF at[c] = "audit" /\ verb[c] = "FWD" THEN "open" ELSE "reply")
  /\ UNCHANGED <<verb, req, stream, stat, pol, maps, files, cache, window, now, crashes, retags,
                 who, decided, ran, answered, approved>>

Reply(c) ==
  /\ at[c] = "reply"
  /\ answered' = answered \cup {Current(c)}
  /\ IF verb[c] = "MUX" THEN Goto(c, "ready") /\ UNCHANGED <<stat, pol, maps>> ELSE Close(c)
  /\ UNCHANGED <<verb, req, stream, files, shared, now, faults,
                 who, decided, ran, unlogged, approved>>

\* fmuxServeStream: a stream of an FMUX session dials its target ...
StreamOpens(c) ==
  /\ at[c] = "streams" /\ stream[c] = "none"
  /\ req[c] < MaxRequests /\ Taken < MaxTaken
  /\ req' = [req EXCEPT ![c] = @ + 1]
  /\ stream' = [stream EXCEPT ![c] = "dialing"]
  /\ UNCHANGED <<at, verb, stat, pol, maps, files, shared, now, faults, history>>

\* ... for up to 10 s, and records the outcome, whatever became of the session.
StreamAudits(c) ==
  /\ stream[c] = "dialing"
  /\ stream' = [stream EXCEPT ![c] = "none"]
  /\ \E ok \in BOOLEAN : Append1(c, Current(c), ok)
  /\ UNCHANGED <<at, verb, req, stat, pol, maps, files, cache, window, now, crashes, retags,
                 who, decided, ran, answered, approved>>

----------------------------------------------------------------------------
(* The surroundings.                                                       *)

\* The policy file is rewritten in place (truncated first), replaced or removed;
\* its file system's clock may not have ticked since the last edit.
Edit ==
  /\ disk.edits < MaxEdits
  /\ \E rule \in Contents \ {disk.rule}, mtime \in {disk.mtime, disk.mtime + 1} :
       disk' = [edits |-> disk.edits + 1, mtime |-> mtime, rule |-> rule]
  /\ UNCHANGED <<conn, maps, tagged, shared, now, faults, history>>

\* A key's line gets or loses its tag, for good or while the file is rewritten.
Retag(k) ==
  /\ retags < MaxRetags
  /\ retags' = retags + 1
  /\ tagged' = IF k \in tagged THEN tagged \ {k} ELSE tagged \cup {k}
  /\ UNCHANGED <<conn, maps, disk, shared, now, crashes, fails, history>>

Tick ==
  /\ now < MaxTime
  /\ now' = now + 1
  /\ UNCHANGED <<conn, maps, files, shared, faults, history>>

\* The daemon dies and restarts: what is in memory is gone, the log stays.
Crash ==
  /\ crashes < MaxCrashes
  /\ crashes' = crashes + 1
  /\ at' = [c \in Conns |-> IF at[c] = "free" THEN "free" ELSE "closed"]
  /\ stream' = [c \in Conns |-> "none"]
  /\ identity' = [c \in Conns |-> None]
  /\ transport' = [c \in Conns |-> None]
  /\ meta' = [c \in Conns |-> None]
  /\ stat' = [c \in Conns |-> 0]
  /\ pol' = [c \in Conns |-> None]
  /\ cache' = None
  /\ window' = [k \in Keys |-> <<>>]
  /\ approved' = [k \in Keys |-> <<>>]
  /\ UNCHANGED <<verb, req, files, log, now, fails, retags,
                 who, decided, ran, answered, unlogged>>

----------------------------------------------------------------------------
Handler(c) ==
  \/ Accept(c) \/ AuthFails(c) \/ (\E k \in Keys : AuthOK(c, k)) \/ PeekExpires(c) \/ Return(c)
  \/ (\E v \in Verbs : Take(c, v)) \/ CacheHit(c) \/ ReadFile(c) \/ StorePolicy(c) \/ Rate(c)
  \/ Run(c) \/ Audit(c) \/ Reply(c) \/ StreamOpens(c) \/ StreamAudits(c)

Next == (\E c \in Conns : Handler(c)) \/ (\E k \in Keys : Retag(k)) \/ Edit \/ Tick \/ Crash

Spec == Init /\ [][Next]_vars

----------------------------------------------------------------------------
\* No request is recorded twice, and one that was refused, or that ran by EXEJ
\* or MUX, has its record by the time its client reads the answer, unless the
\* log could not be written.
AnsweredIsRecorded ==
  /\ \A r \in Requests : Len(log[r]) <= 1
  /\ \A r \in answered \ unlogged :
       verb[r[1]] \in {"EXEJ", "MUX"} \/ decided[r] \in Denials => log[r] # <<>>

\* A record names the key that authenticated, the transport it came by, and the
\* rule that decided this very request, where one did: the three maps it is put
\* together from are those of its connection, and of no earlier request of it.
RecordsOwn ==
  \A r \in Requests : \A i \in DOMAIN log[r] :
    verb[r[1]] # "FMUX" =>
      /\ log[r][i].key = who[r[1]].key /\ log[r][i].via = who[r[1]].via
      /\ decided[r] # None => log[r][i].rule = decided[r]
      /\ log[r][i].ok <=> decided[r] \notin Denials

\* A request is never judged by a policy older than the file it found: hot
\* reload is right up to the resolution of the file system's clock, whatever
\* other sessions load, and store late, meanwhile.
PolicyFresh ==
  \A c \in Conns : pol[c] # None => pol[c].mtime >= stat[c]

\* In no period of the window's length does a key run more commands than the
\* limit, over all its connections.
RateBound ==
  \A k \in Keys : \A i \in 1..(Len(approved[k]) - PerMin) :
    approved[k][i + PerMin] - approved[k][i] > Window

\* audit.go says of auditLog: "appends a structured, best-effort JSONL record
\* for every command the daemon executes".  EXE, job_start and restart_service
\* run commands that nothing records.
EveryExecutionRecorded ==
  \A r \in (ran \cap answered) \ unlogged : verb[r[1]] \in ExecVerbs => log[r] # <<>>
=============================================================================
