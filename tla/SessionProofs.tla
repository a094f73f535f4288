--------------------------- MODULE SessionProofs ---------------------------
(***************************************************************************)
(* Proofs about Session, for any set of connections, keys and transports   *)
(* and any number of requests, edits, crashes and failed writes of the     *)
(* log: what the audit log says of a request, when it says it, which       *)
(* policy a request is judged by, and how many commands a key may run.     *)
(***************************************************************************)
EXTENDS Session, SelectionProofs, TLAPS

Labels == {"free", "accepted", "ready", "lookup", "store", "rate", "run", "deny",
           "audit", "reply", "streams", "open", "closed"}
\* Where a request is being decided, taken or recorded.
Working == {"lookup", "store", "rate", "run", "deny", "audit"}

\* The types the proofs about the records need.
ConnTypes ==
  /\ at \in [Conns -> Labels]
  /\ verb \in [Conns -> Verbs \cup {None}]
  /\ req \in [Conns -> 0..MaxRequests]
  /\ identity \in [Conns -> Keys \cup {None}]
  /\ transport \in [Conns -> Transports \cup {None}]
  /\ meta \in [Conns -> Rules \cup {None}]
  /\ stream \in [Conns -> {"none", "dialing"}]
  /\ log \in [Requests -> Seq(Record)]
  /\ who \in [Conns -> Peers \cup {None}]
  /\ decided \in [Requests -> Rules \cup {None}]
  /\ answered \subseteq Requests

\* A connection's handler and its history: who it talks to, and which of its
\* requests can have been decided, recorded or answered.
Handled(c) ==
  /\ at[c] \notin {"free", "accepted", "closed"} =>
       who[c] = [key |-> identity[c], via |-> transport[c]]
  /\ at[c] = "accepted" => transport[c] # None
  /\ at[c] \in {"free", "accepted"} \/ verb[c] = None => req[c] = 0
  /\ at[c] \in {"free", "accepted"} => verb[c] = None
  /\ at[c] \in Working \cup {"reply", "streams"} \/ stream[c] = "dialing" => req[c] > 0
  /\ \A n \in 1..MaxRequests : n > req[c] =>
       log[<<c, n>>] = <<>> /\ decided[<<c, n>>] = None /\ <<c, n>> \notin answered

\* What is known of the request it works on, stage by stage.
Decides(c) ==
  LET r == Current(c) IN
  /\ at[c] \in Working \/ stream[c] = "dialing" => log[r] = <<>>
  /\ at[c] \in Working \ {"audit"} => r \notin answered
  /\ at[c] \in {"rate", "run", "audit"} =>
       decided[r] \notin Denials /\ (decided[r] # None => meta[c] = decided[r])
  /\ at[c] = "deny" => decided[r] \in Denials /\ meta[c] = decided[r]
  /\ stream[c] = "dialing" => at[c] \in {"streams", "closed"}
  /\ stream[c] = "dialing" \/ at[c] = "streams" => verb[c] = "FMUX"
  /\ at[c] = "reply" /\ (verb[c] \in {"EXEJ", "MUX"} \/ decided[r] \in Denials) =>
       log[r] # <<>> \/ r \in unlogged

\* The records and the answers of a connection.
Recorded(c) ==
  \A n \in 1..MaxRequests :
    /\ Len(log[<<c, n>>]) <= 1
    /\ <<c, n>> \in answered \ unlogged
         /\ (verb[c] \in {"EXEJ", "MUX"} \/ decided[<<c, n>>] \in Denials) => log[<<c, n>>] # <<>>
    /\ \A i \in DOMAIN log[<<c, n>>] : verb[c] # "FMUX" =>
         /\ log[<<c, n>>][i].key = who[c].key /\ log[<<c, n>>][i].via = who[c].via
         /\ decided[<<c, n>>] # None => log[<<c, n>>][i].rule = decided[<<c, n>>]
         /\ log[<<c, n>>][i].ok <=> decided[<<c, n>>] \notin Denials

ConnInv == \A c \in Conns : Handled(c) /\ Decides(c) /\ Recorded(c)

----------------------------------------------------------------------------
(* Requests, verdicts and types.                                           *)

\* The request a connection works on is a request, and no other connection's.
LEMMA RequestTypes ==
  ASSUME NEW c \in Conns, NEW n \in 1..MaxRequests
  PROVE  <<c, n>> \in Requests
BY DEF Requests

\* It has one as soon as it took one.
LEMMA CurrentType ==
  ASSUME ConnTypes, NEW c \in Conns, req[c] > 0
  PROVE  req[c] \in 1..MaxRequests /\ Current(c) \in Requests
<1>1. req[c] \in 0..MaxRequests
  BY DEF ConnTypes
<1>2. req[c] \in 1..MaxRequests
  BY <1>1, BoundAssumption
<1>3. QED BY <1>2, RequestTypes DEF Current

\* Whatever policy a request is judged by, it goes on only if it is allowed,
\* and the rule that decided is noted.
LEMMA JudgeDecides ==
  ASSUME NEW c, NEW v, NEW n, NEW p, Judge(c, v, n, p)
  PROVE  \E rule \in Rules, label \in {"rate", "run", "deny"} :
           /\ Decided(c, n, rule, label)
           /\ label = "deny" <=> rule \in Denials
BY DEF Judge, Rules, Denials

\* Taking a request decides it on the spot, or lets it run, or has its policy
\* looked up.
LEMMA TakeDecides ==
  ASSUME NEW c, NEW v, Take(c, v)
  PROVE  \/ /\ Goto(c, "run") \/ Goto(c, "lookup")
            /\ UNCHANGED <<meta, decided>>
         \/ \E rule \in Rules, label \in {"rate", "run", "deny"} :
              /\ Decided(c, req[c] + 1, rule, label)
              /\ label = "deny" <=> rule \in Denials
<1>1. CASE Goto(c, "run") /\ UNCHANGED <<meta, decided, stat>>
  BY <1>1
<1>2. CASE Decided(c, req[c] + 1, "blocked", "deny")
  BY <1>2 DEF Rules, Denials
<1>3. CASE Judge(c, v, req[c] + 1, [mtime |-> disk.mtime, rule |-> "missing"])
  BY <1>3, JudgeDecides
<1>4. CASE Goto(c, "lookup") /\ UNCHANGED <<meta, decided>>
  BY <1>4
<1>5. QED BY <1>1, <1>2, <1>3, <1>4 DEF Take

\* Counting a request keeps the counter in its bound.
LEMMA CountTypes ==
  ASSUME ConnTypes, NEW c \in Conns, req[c] < MaxRequests, req' = [req EXCEPT ![c] = @ + 1]
  PROVE  req' \in [Conns -> 0..MaxRequests] /\ req[c] + 1 \in 1..MaxRequests
<1>1. req \in [Conns -> 0..MaxRequests]
  BY DEF ConnTypes
<1>2. req[c] + 1 \in 1..MaxRequests
  BY <1>1, BoundAssumption
<1>3. QED BY <1>1, <1>2, BoundAssumption

\* What the maps hold makes a record.
LEMMA LogTypes ==
  ASSUME ConnTypes, NEW c \in Conns, NEW r \in Requests, NEW ok \in BOOLEAN,
         Append1(c, r, ok)
  PROVE  log' \in [Requests -> Seq(Record)]
<1> DEFINE rec == [key |-> identity[c], via |-> transport[c], rule |-> meta[c], ok |-> ok]
<1>1. rec \in Record
  BY DEF ConnTypes, Record
<1>2. log \in [Requests -> Seq(Record)] /\ log[r] \in Seq(Record)
  BY DEF ConnTypes
<1>3. Append(log[r], rec) \in Seq(Record)
  BY <1>1, <1>2
<1>4. log' = [log EXCEPT ![r] = Append(log[r], rec)] \/ log' = log
  BY DEF Append1
<1>5. QED BY <1>2, <1>3, <1>4

\* Every step keeps those types.
LEMMA ConnTypesStep ==
  ASSUME ConnTypes, ConnInv, [Next]_vars
  PROVE  ConnTypes'
<1>t. /\ at \in [Conns -> Labels] /\ verb \in [Conns -> Verbs \cup {None}]
      /\ meta \in [Conns -> Rules \cup {None}]
      /\ decided \in [Requests -> Rules \cup {None}]
  BY DEF ConnTypes
<1>1. ASSUME NEW c \in Conns, Accept(c) \/ AuthFails(c) \/ PeekExpires(c) PROVE ConnTypes'
  <2>1. Goto(c, "accepted") \/ Goto(c, "closed") \/ Goto(c, "open")
    BY <1>1 DEF Accept, AuthFails, PeekExpires
  <2>2. at' \in [Conns -> Labels]
    BY <1>t, <2>1 DEF Goto, Labels
  <2>3. transport' \in [Conns -> Transports \cup {None}]
    BY <1>1 DEF Accept, AuthFails, PeekExpires, ConnTypes, maps
  <2>4. UNCHANGED <<verb, req, stream, identity, meta, log, history>>
    BY <1>1 DEF Accept, AuthFails, PeekExpires, maps, shared
  <2>5. QED BY <2>2, <2>3, <2>4 DEF ConnTypes, history
<1>2. ASSUME NEW c \in Conns, NEW k \in Keys, AuthOK(c, k) PROVE ConnTypes'
  <2>1. transport[c] \in Transports
    BY <1>2 DEF AuthOK, ConnInv, Handled, ConnTypes
  <2>2. QED BY <1>2, <2>1 DEF AuthOK, Goto, ConnTypes, Labels, Peers, shared
<1>3. ASSUME NEW c \in Conns, Return(c) PROVE ConnTypes'
  BY <1>3 DEF Return, Close, Goto, ConnTypes, Labels, history, shared
<1>4. ASSUME NEW c \in Conns, NEW n \in 1..MaxRequests, NEW rule \in Rules, NEW label \in Labels,
             Decided(c, n, rule, label)
      PROVE  /\ at' \in [Conns -> Labels] /\ meta' \in [Conns -> Rules \cup {None}]
             /\ decided' \in [Requests -> Rules \cup {None}]
  BY <1>t, <1>4, RequestTypes DEF Decided, Goto
<1>5. ASSUME NEW c \in Conns, NEW v \in Verbs, Take(c, v) PROVE ConnTypes'
  <2>1. req' \in [Conns -> 0..MaxRequests] /\ req[c] + 1 \in 1..MaxRequests
    BY <1>5, CountTypes DEF Take
  <2>2. verb' \in [Conns -> Verbs \cup {None}]
    BY <1>t, <1>5 DEF Take
  <2>3. /\ at' \in [Conns -> Labels] /\ meta' \in [Conns -> Rules \cup {None}]
        /\ decided' \in [Requests -> Rules \cup {None}]
    <3>1. CASE (Goto(c, "run") \/ Goto(c, "lookup")) /\ UNCHANGED <<meta, decided>>
      BY <1>t, <3>1 DEF Goto, Labels
    <3>2. CASE \E rule \in Rules, label \in {"rate", "run", "deny"} :
                 Decided(c, req[c] + 1, rule, label)
      BY <1>4, <2>1, <3>2 DEF Labels
    <3>3. QED BY <1>5, <3>1, <3>2, TakeDecides
  <2>4. QED BY <1>5, <2>1, <2>2, <2>3 DEF Take, ConnTypes, shared
<1>6. ASSUME NEW c \in Conns, NEW p, Judge(c, verb[c], req[c], p), req[c] > 0,
             UNCHANGED <<verb, req, stream, identity, transport, log, who, answered>>
      PROVE  ConnTypes'
  <2>1. /\ at' \in [Conns -> Labels] /\ meta' \in [Conns -> Rules \cup {None}]
        /\ decided' \in [Requests -> Rules \cup {None}]
    BY <1>4, <1>6, CurrentType, JudgeDecides DEF Labels
  <2>2. QED BY <1>6, <2>1 DEF ConnTypes
<1>7. ASSUME NEW c \in Conns, CacheHit(c) \/ StorePolicy(c) PROVE ConnTypes'
  <2>1. req[c] > 0
    BY <1>7 DEF CacheHit, StorePolicy, ConnInv, Handled, Working
  <2>2. QED BY <1>6, <1>7, <2>1 DEF CacheHit, StorePolicy, shared
<1>8. ASSUME NEW c \in Conns, ReadFile(c) PROVE ConnTypes'
  BY <1>8 DEF ReadFile, Goto, ConnTypes, Labels, maps, history, shared
<1>9. ASSUME NEW c \in Conns, Rate(c) PROVE ConnTypes'
  <2>1. req[c] \in 1..MaxRequests
    BY <1>9, CurrentType DEF Rate, ConnInv, Handled, Working
  <2>2. \/ Decided(c, req[c], "rate", "deny")
        \/ Goto(c, "run") /\ UNCHANGED <<meta, decided>>
    BY <1>9 DEF Rate
  <2>3. /\ at' \in [Conns -> Labels] /\ meta' \in [Conns -> Rules \cup {None}]
        /\ decided' \in [Requests -> Rules \cup {None}]
    <3>1. CASE Decided(c, req[c], "rate", "deny")
      BY <1>4, <2>1, <3>1 DEF Labels, Rules
    <3>2. CASE Goto(c, "run") /\ UNCHANGED <<meta, decided>>
      BY <1>t, <3>2 DEF Goto, Labels
    <3>3. QED BY <2>2, <3>1, <3>2
  <2>4. UNCHANGED <<verb, req, stream, identity, transport, log, who, answered>>
    BY <1>9 DEF Rate
  <2>5. QED BY <2>3, <2>4 DEF ConnTypes
<1>10. ASSUME NEW c \in Conns, Run(c) PROVE ConnTypes'
  <2>1. AfterRun(c) \in Labels
    BY DEF AfterRun, Labels
  <2>2. Current(c) \in Requests
    BY <1>10, CurrentType DEF Run, ConnInv, Handled, Working
  <2>3. QED BY <1>10, <2>1, <2>2 DEF Run, Goto, ConnTypes, maps, shared
<1>11. ASSUME NEW c \in Conns, Audit(c) PROVE ConnTypes'
  <2>1. Current(c) \in Requests
    BY <1>11, CurrentType DEF Audit, ConnInv, Handled, Working
  <2>2. log' \in [Requests -> Seq(Record)]
    BY <1>11, <2>1, LogTypes DEF Audit
  <2>3. at' \in [Conns -> Labels]
    BY <1>t, <1>11 DEF Audit, Goto, Labels
  <2>4. QED BY <1>11, <2>2, <2>3 DEF Audit, ConnTypes, maps
<1>12. ASSUME NEW c \in Conns, Reply(c) PROVE ConnTypes'
  <2>1. \/ Goto(c, "ready") /\ UNCHANGED maps
        \/ Close(c)
    BY <1>12 DEF Reply
  <2>2. UNCHANGED <<verb, req, stream, log, who, decided>>
    BY <1>12 DEF Reply, shared
  <2>3. answered' \subseteq Requests
    BY <1>12, CurrentType DEF Reply, ConnInv, Handled, ConnTypes
  <2>4. QED BY <2>1, <2>2, <2>3 DEF Close, Goto, ConnTypes, Labels, maps
<1>13. ASSUME NEW c \in Conns, StreamOpens(c) PROVE ConnTypes'
  <2>1. req' \in [Conns -> 0..MaxRequests]
    BY <1>13, CountTypes DEF StreamOpens
  <2>2. QED BY <1>13, <2>1 DEF StreamOpens, ConnTypes, maps, shared, history
<1>14. ASSUME NEW c \in Conns, StreamAudits(c) PROVE ConnTypes'
  <2>1. Current(c) \in Requests
    BY <1>14, CurrentType DEF StreamAudits, ConnInv, Handled
  <2>2. log' \in [Requests -> Seq(Record)]
    BY <1>14, <2>1, LogTypes DEF StreamAudits
  <2>3. QED BY <1>14, <2>2 DEF StreamAudits, ConnTypes, maps
<1>15. CASE Crash
  <2>1. at' \in [Conns -> Labels]
    BY <1>15 DEF Crash, Labels
  <2>2. QED BY <1>15, <2>1 DEF Crash, ConnTypes
<1>16. CASE UNCHANGED <<conn, maps, log, history>>
  BY <1>16 DEF conn, maps, history, ConnTypes
<1>17. QED
  BY <1>1, <1>2, <1>3, <1>5, <1>7, <1>8, <1>9, <1>10, <1>11, <1>12, <1>13, <1>14, <1>15, <1>16
     DEF Next, Handler, Edit, Retag, Tick, vars, shared

----------------------------------------------------------------------------
(* The records.                                                            *)

\* A step that leaves a connection and its requests alone.
Untouched(d) ==
  /\ at'[d] = at[d] /\ verb'[d] = verb[d] /\ req'[d] = req[d] /\ stream'[d] = stream[d]
  /\ identity'[d] = identity[d] /\ transport'[d] = transport[d] /\ meta'[d] = meta[d]
  /\ who'[d] = who[d]
  /\ \A n \in 1..MaxRequests :
       /\ log'[<<d, n>>] = log[<<d, n>>] /\ decided'[<<d, n>>] = decided[<<d, n>>]
       /\ <<d, n>> \in answered' <=> <<d, n>> \in answered
       /\ <<d, n>> \in unlogged' <=> <<d, n>> \in unlogged

\* Every step of a handler leaves the other connections alone.
LEMMA HandlerIsOwn ==
  ASSUME ConnTypes, NEW c \in Conns, Handler(c), NEW d \in Conns, d # c
  PROVE  Untouched(d)
<1>t. /\ at \in [Conns -> Labels]
      /\ verb \in [Conns -> Verbs \cup {None}]
      /\ req \in [Conns -> 0..MaxRequests]
      /\ identity \in [Conns -> Keys \cup {None}]
      /\ transport \in [Conns -> Transports \cup {None}]
      /\ meta \in [Conns -> Rules \cup {None}]
      /\ stream \in [Conns -> {"none", "dialing"}]
      /\ who \in [Conns -> Peers \cup {None}]
      /\ DOMAIN log = Requests /\ DOMAIN decided = Requests
      /\ log = [r \in Requests |-> log[r]] /\ decided = [r \in Requests |-> decided[r]]
  BY DEF ConnTypes
<1>r. \A n \in 1..MaxRequests : <<d, n>> \in Requests /\ \A m : <<d, n>> # <<c, m>>
  BY RequestTypes
<1> USE <1>t, <1>r DEF Untouched
<1>1. CASE Accept(c) \/ AuthFails(c) \/ PeekExpires(c)
  BY <1>1 DEF Accept, AuthFails, PeekExpires, Goto, maps, shared, history
<1>2. CASE \E k \in Keys : AuthOK(c, k)
  BY <1>2 DEF AuthOK, Goto, shared
<1>3. CASE Return(c)
  BY <1>3 DEF Return, Close, Goto, shared, history
<1>4. ASSUME NEW m, NEW rule, NEW label, Decided(c, m, rule, label)
      PROVE  /\ at'[d] = at[d] /\ meta'[d] = meta[d]
             /\ \A n \in 1..MaxRequests : decided'[<<d, n>>] = decided[<<d, n>>]
  BY <1>4 DEF Decided, Goto
<1>5. CASE \E v \in Verbs : Take(c, v)
  <2>1. PICK v \in Verbs : Take(c, v)
    BY <1>5
  <2>2. /\ at'[d] = at[d] /\ meta'[d] = meta[d]
        /\ \A n \in 1..MaxRequests : decided'[<<d, n>>] = decided[<<d, n>>]
    BY <2>1, <1>4, TakeDecides DEF Goto
  <2>3. QED BY <2>1, <2>2 DEF Take, shared
<1>6. CASE CacheHit(c) \/ StorePolicy(c)
  <2>1. PICK p : Judge(c, verb[c], req[c], p)
    BY <1>6 DEF CacheHit, StorePolicy
  <2>2. /\ at'[d] = at[d] /\ meta'[d] = meta[d]
        /\ \A n \in 1..MaxRequests : decided'[<<d, n>>] = decided[<<d, n>>]
    BY <2>1, <1>4, JudgeDecides
  <2>3. QED BY <1>6, <2>2 DEF CacheHit, StorePolicy, shared
<1>7. CASE ReadFile(c)
  BY <1>7 DEF ReadFile, Goto, maps, shared, history
<1>8. CASE Rate(c)
  <2>1. \/ Decided(c, req[c], "rate", "deny")
        \/ Goto(c, "run") /\ UNCHANGED <<meta, decided>>
    BY <1>8 DEF Rate
  <2>2. /\ at'[d] = at[d] /\ meta'[d] = meta[d]
        /\ \A n \in 1..MaxRequests : decided'[<<d, n>>] = decided[<<d, n>>]
    BY <2>1, <1>4 DEF Goto
  <2>3. UNCHANGED <<verb, req, stream, identity, transport, log, who, answered, unlogged>>
    BY <1>8 DEF Rate
  <2>4. QED BY <2>2, <2>3
<1>9. CASE Run(c)
  BY <1>9 DEF Run, Goto, Current, maps, shared
<1>10. CASE Audit(c)
  <2>1. Append1(c, Current(c), at[c] = "audit")
    BY <1>10 DEF Audit
  <2>2. \A n \in 1..MaxRequests : /\ log'[<<d, n>>] = log[<<d, n>>]
                                  /\ <<d, n>> \in unlogged' <=> <<d, n>> \in unlogged
    BY <2>1 DEF Append1, Current
  <2>3. /\ UNCHANGED <<verb, req, stream, maps, who, decided, answered>>
        /\ at'[d] = at[d]
    BY <1>10 DEF Audit, Goto
  <2>4. QED BY <2>2, <2>3 DEF maps
<1>11. CASE Reply(c)
  <2>1. \/ Goto(c, "ready") /\ UNCHANGED maps
        \/ Close(c)
    BY <1>11 DEF Reply
  <2>2. /\ at'[d] = at[d] /\ identity'[d] = identity[d] /\ transport'[d] = transport[d]
        /\ meta'[d] = meta[d]
    BY <2>1 DEF Close, Goto, maps
  <2>3. QED BY <1>11, <2>2 DEF Reply, Current, shared
<1>12. CASE StreamOpens(c)
  BY <1>12 DEF StreamOpens, maps, shared, history
<1>13. CASE StreamAudits(c)
  <2>1. PICK ok \in BOOLEAN : Append1(c, Current(c), ok)
    BY <1>13 DEF StreamAudits
  <2>2. \A n \in 1..MaxRequests : /\ log'[<<d, n>>] = log[<<d, n>>]
                                  /\ <<d, n>> \in unlogged' <=> <<d, n>> \in unlogged
    BY <2>1 DEF Append1, Current
  <2>3. /\ UNCHANGED <<at, verb, req, maps, who, decided, answered>>
        /\ stream'[d] = stream[d]
    BY <1>13 DEF StreamAudits
  <2>4. QED BY <2>2, <2>3 DEF maps
<1>14. QED
  BY <1>1, <1>2, <1>3, <1>5, <1>6, <1>7, <1>8, <1>9, <1>10, <1>11, <1>12, <1>13 DEF Handler

\* A connection left alone keeps what is known of it.
LEMMA UntouchedKeeps ==
  ASSUME ConnTypes, NEW d \in Conns, Untouched(d), Handled(d), Decides(d), Recorded(d)
  PROVE  Handled(d)' /\ Decides(d)' /\ Recorded(d)'
<1>1. Handled(d)'
  BY DEF Untouched, Handled
<1>2. Recorded(d)'
  BY DEF Untouched, Recorded
<1>3. Decides(d)'
  <2>1. CASE req[d] = 0
    BY <2>1 DEF Untouched, Handled, Decides, Working, Current
  <2>2. CASE req[d] # 0
    <3>1. req[d] \in 1..MaxRequests
      BY <2>2, CurrentType DEF ConnTypes
    <3>2. QED BY <3>1 DEF Untouched, Decides, Current
  <2>3. QED BY <2>1, <2>2
<1>4. QED BY <1>1, <1>2, <1>3

\* The facts about one connection, and what its verb's records depend on.
ConnOK(c) == Handled(c) /\ Decides(c) /\ Recorded(c)
SameVerb(c) == (verb'[c] = verb[c] /\ who'[c] = who[c]) \/ req[c] = 0

\* Deciding a request that has neither record nor answer changes nothing of
\* what is recorded and answered.
LEMMA RecordedStays ==
  ASSUME ConnTypes, NEW c \in Conns, Handled(c), Recorded(c), SameVerb(c),
         UNCHANGED <<log, answered, unlogged>>,
         \A n \in 1..MaxRequests : \/ decided'[<<c, n>>] = decided[<<c, n>>]
                                   \/ log[<<c, n>>] = <<>> /\ <<c, n>> \notin answered
  PROVE  Recorded(c)'
<1> SUFFICES ASSUME NEW n \in 1..MaxRequests
             PROVE  /\ Len(log[<<c, n>>]) <= 1
                    /\ <<c, n>> \in answered \ unlogged
                         /\ (verb'[c] \in {"EXEJ", "MUX"} \/ decided'[<<c, n>>] \in Denials)
                         => log[<<c, n>>] # <<>>
                    /\ \A i \in DOMAIN log[<<c, n>>] : verb'[c] # "FMUX" =>
                         /\ log[<<c, n>>][i].key = who'[c].key
                         /\ log[<<c, n>>][i].via = who'[c].via
                         /\ decided'[<<c, n>>] # None => log[<<c, n>>][i].rule = decided'[<<c, n>>]
                         /\ log[<<c, n>>][i].ok <=> decided'[<<c, n>>] \notin Denials
  BY DEF Recorded
<1>1. CASE log[<<c, n>>] = <<>> /\ <<c, n>> \notin answered
  BY <1>1
<1>2. CASE ~(log[<<c, n>>] = <<>> /\ <<c, n>> \notin answered)
  <2>1. decided'[<<c, n>>] = decided[<<c, n>>]
    BY <1>2
  <2>2. req[c] # 0
    <3>1. n > 0
      OBVIOUS
    <3>2. QED BY <1>2, <3>1 DEF Handled
  <2>3. QED BY <2>1, <2>2 DEF Recorded, SameVerb
<1>3. QED BY <1>1, <1>2

\* Before a request: connecting, authenticating, closing.
LEMMA EntrySteps ==
  ASSUME ConnTypes, NEW c \in Conns, ConnOK(c),
         \/ Accept(c) \/ AuthFails(c) \/ (\E k \in Keys : AuthOK(c, k))
         \/ PeekExpires(c) \/ Return(c)
  PROVE  ConnOK(c)'
<1>t. at \in [Conns -> Labels] /\ identity \in [Conns -> Keys \cup {None}]
      /\ transport \in [Conns -> Transports \cup {None}] /\ who \in [Conns -> Peers \cup {None}]
      /\ None \notin Transports
  BY NoneAssumption DEF ConnTypes
<1>1. UNCHANGED <<verb, req, stream, log, decided, answered, unlogged>>
  BY DEF Accept, AuthFails, AuthOK, PeekExpires, Return, shared, history
<1>2. \/ at[c] = "free" /\ Goto(c, "accepted") /\ transport'[c] # None
      \/ at[c] \in {"free", "accepted", "ready", "open", "streams"} /\ Goto(c, "closed")
      \/ /\ at[c] = "accepted" /\ Goto(c, "ready")
         /\ who'[c] = [key |-> identity'[c], via |-> transport'[c]]
      \/ at[c] = "ready" /\ Goto(c, "open") /\ UNCHANGED <<who, identity, transport>>
  BY <1>t DEF Accept, AuthFails, AuthOK, PeekExpires, Return, Close, maps, history
<1>3. at[c] # "accepted" => who' = who
  BY DEF Accept, AuthFails, AuthOK, PeekExpires, Return, history
<1>4. SameVerb(c)
  BY <1>1, <1>3 DEF SameVerb, ConnOK, Handled
<1>5. Recorded(c)'
  BY <1>1, <1>4, RecordedStays DEF ConnOK
<1>6. Handled(c)'
  BY <1>t, <1>1, <1>2 DEF ConnOK, Handled, Goto, Working
<1>7. Decides(c)'
  <2>1. Current(c)' = Current(c)
    BY <1>1 DEF Current
  <2>2. QED BY <1>t, <1>1, <1>2, <2>1 DEF ConnOK, Decides, Handled, Goto, Working
<1>8. QED BY <1>5, <1>6, <1>7 DEF ConnOK

\* What a step that decides request n of a connection leaves as it was.
LEMMA DecidedTypes ==
  ASSUME ConnTypes, NEW c \in Conns, NEW n \in 1..MaxRequests, NEW rule, NEW label,
         Decided(c, n, rule, label)
  PROVE  /\ at'[c] = label /\ meta'[c] = rule /\ decided'[<<c, n>>] = rule
         /\ \A m \in 1..MaxRequests \ {n} : decided'[<<c, m>>] = decided[<<c, m>>]
<1>1. <<c, n>> \in Requests
  BY RequestTypes
<1>2. QED BY <1>1 DEF ConnTypes, Decided, Goto

\* A decision on the request of a connection, taken now or before, leaves
\* everything right for the stages that follow.
LEMMA DecisionStep ==
  ASSUME ConnTypes, NEW c \in Conns, ConnOK(c), NEW n \in 1..MaxRequests,
         req'[c] = n, req[c] <= n,
         at[c] \notin {"free", "accepted", "closed"}, stream[c] = "none",
         log[<<c, n>>] = <<>>, <<c, n>> \notin answered,
         NEW rule \in Rules, NEW label \in {"rate", "run", "deny"},
         Decided(c, n, rule, label), label = "deny" <=> rule \in Denials,
         verb'[c] # None, SameVerb(c),
         UNCHANGED <<stream, identity, transport, who, log, answered, unlogged>>
  PROVE  ConnOK(c)'
<1>1. /\ at'[c] = label /\ meta'[c] = rule /\ decided'[<<c, n>>] = rule
      /\ \A m \in 1..MaxRequests \ {n} : decided'[<<c, m>>] = decided[<<c, m>>]
  BY DecidedTypes
<1>2. Recorded(c)'
  BY <1>1, RecordedStays DEF ConnOK
<1>3. req[c] \in Int
  BY BoundAssumption DEF ConnTypes
<1>4. \A m \in 1..MaxRequests : m > n =>
        log[<<c, m>>] = <<>> /\ decided'[<<c, m>>] = None /\ <<c, m>> \notin answered
  BY <1>1, <1>3 DEF ConnOK, Handled
<1>5. Handled(c)'
  BY <1>1, <1>4 DEF ConnOK, Handled
<1>6. Current(c)' = <<c, n>>
  BY DEF Current
<1>7. Decides(c)'
  BY <1>1, <1>6 DEF Decides, Working
<1>8. QED BY <1>2, <1>5, <1>7 DEF ConnOK

\* Taking a request, and deciding it.
LEMMA TakeSteps ==
  ASSUME ConnTypes, NEW c \in Conns, ConnOK(c), NEW v \in Verbs, Take(c, v)
  PROVE  ConnOK(c)'
<1> DEFINE n == req[c] + 1
<1>1. n \in 1..MaxRequests /\ req[c] < n /\ req'[c] = n
  <2>1. n \in 1..MaxRequests /\ req[c] \in Nat
    BY CountTypes, BoundAssumption DEF Take, ConnTypes
  <2>2. req'[c] = n
    BY DEF Take, ConnTypes
  <2>3. QED BY <2>1, <2>2
<1>2. log[<<c, n>>] = <<>> /\ decided[<<c, n>>] = None /\ <<c, n>> \notin answered
  BY <1>1 DEF ConnOK, Handled
<1>3. at[c] = "ready" /\ stream[c] = "none"
  BY DEF ConnOK, Decides, Take, ConnTypes
<1>4. verb'[c] = v /\ (verb[c] = None \/ verb[c] = v)
  BY DEF Take, ConnTypes
<1>5. SameVerb(c)
  BY <1>4 DEF Take, SameVerb, ConnOK, Handled
<1>6. UNCHANGED <<stream, identity, transport, who, log, answered, unlogged>>
  BY DEF Take, shared
<1>7. CASE \E rule \in Rules, label \in {"rate", "run", "deny"} :
             Decided(c, n, rule, label) /\ (label = "deny" <=> rule \in Denials)
  <2>1. PICK rule \in Rules, label \in {"rate", "run", "deny"} :
               Decided(c, n, rule, label) /\ (label = "deny" <=> rule \in Denials)
    BY <1>7
  <2>2. at[c] \notin {"free", "accepted", "closed"} /\ req[c] <= n /\ verb'[c] # None
    BY <1>1, <1>3, <1>4, NoneAssumption, BoundAssumption DEF ConnTypes
  <2>3. QED BY <1>1, <1>2, <1>3, <1>5, <1>6, <2>1, <2>2, DecisionStep
<1>8. CASE (Goto(c, "run") \/ Goto(c, "lookup")) /\ UNCHANGED <<meta, decided>>
  <2>1. at'[c] \in {"run", "lookup"} /\ Current(c)' = <<c, n>>
    BY <1>1, <1>8 DEF ConnTypes, Goto, Current
  <2>2. Recorded(c)'
    BY <1>5, <1>6, <1>8, RecordedStays DEF ConnOK
  <2>3. req[c] \in Int
    BY BoundAssumption DEF ConnTypes
  <2>4. Handled(c)'
    BY <1>1, <1>3, <1>4, <1>6, <1>8, <2>1, <2>3, NoneAssumption DEF ConnOK, Handled
  <2>5. Decides(c)'
    BY <1>2, <1>3, <1>6, <1>8, <2>1, NoneAssumption DEF Decides, Working, Denials
  <2>6. QED BY <2>2, <2>4, <2>5 DEF ConnOK
<1>9. QED BY <1>7, <1>8, TakeDecides

\* The policy is found or read, the rate is checked.
LEMMA GateSteps ==
  ASSUME ConnTypes, NEW c \in Conns, ConnOK(c),
         CacheHit(c) \/ ReadFile(c) \/ StorePolicy(c) \/ Rate(c)
  PROVE  ConnOK(c)'
<1>1. at[c] \in {"lookup", "store", "rate"} /\ stream[c] = "none"
  BY DEF CacheHit, ReadFile, StorePolicy, Rate, ConnOK, Decides, ConnTypes
<1>2. req[c] \in 1..MaxRequests /\ req[c] > 0 /\ verb[c] # None
  BY <1>1, CurrentType DEF ConnOK, Handled, Working
<1>3. log[Current(c)] = <<>> /\ Current(c) \notin answered
  BY <1>1 DEF ConnOK, Decides, Working
<1>4. UNCHANGED <<verb, req, stream, identity, transport, who, log, answered, unlogged>>
  BY DEF CacheHit, ReadFile, StorePolicy, Rate, maps, shared, history
<1>5. ASSUME NEW rule \in Rules, NEW label \in {"rate", "run", "deny"},
             Decided(c, req[c], rule, label), label = "deny" <=> rule \in Denials
      PROVE  ConnOK(c)'
  BY <1>1, <1>2, <1>3, <1>4, <1>5, DecisionStep DEF Current, SameVerb
<1>6. CASE CacheHit(c) \/ StorePolicy(c)
  <2>1. PICK p : Judge(c, verb[c], req[c], p)
    BY <1>6 DEF CacheHit, StorePolicy
  <2>2. QED BY <2>1, <1>5, JudgeDecides
<1>7. CASE Rate(c) /\ Decided(c, req[c], "rate", "deny")
  BY <1>5, <1>7 DEF Rules, Denials
<1>8. CASE /\ UNCHANGED <<meta, decided>>
           /\ \/ ReadFile(c)
              \/ Rate(c) /\ Goto(c, "run")
  <2>1. /\ at[c] \in {"lookup", "rate"} /\ at'[c] \in {"store", "run"}
        /\ at'[c] = "run" => at[c] = "rate"
    BY <1>8 DEF ReadFile, Rate, Goto, ConnTypes
  <2>2. Recorded(c)'
    BY <1>4, <1>8, RecordedStays DEF ConnOK, SameVerb
  <2>3. Handled(c)'
    BY <1>1, <1>4, <1>8, <2>1 DEF ConnOK, Handled, Working
  <2>4. Current(c)' = Current(c)
    BY <1>4 DEF Current
  <2>5. Decides(c)'
    BY <1>1, <1>4, <1>8, <2>1, <2>4 DEF ConnOK, Decides, Working
  <2>6. QED BY <2>2, <2>3, <2>5 DEF ConnOK
<1>9. CASE ReadFile(c)
  <2>1. UNCHANGED <<meta, decided>>
    BY <1>9 DEF ReadFile, maps, history
  <2>2. QED BY <1>8, <1>9, <2>1
<1>10. CASE Rate(c)
  <2>1. \/ Decided(c, req[c], "rate", "deny")
        \/ Goto(c, "run") /\ UNCHANGED <<meta, decided>>
    BY <1>10 DEF Rate
  <2>2. QED BY <1>7, <1>8, <1>10, <2>1
<1>11. QED BY <1>6, <1>9, <1>10

\* The request takes effect.
LEMMA RunStep ==
  ASSUME ConnTypes, NEW c \in Conns, ConnOK(c), Run(c)
  PROVE  ConnOK(c)'
<1>1. at[c] = "run" /\ at'[c] = AfterRun(c) /\ stream[c] = "none"
  BY DEF Run, Goto, ConnOK, Decides, ConnTypes
<1>2. req[c] \in 1..MaxRequests /\ req[c] > 0 /\ verb[c] # None
  BY <1>1, CurrentType DEF ConnOK, Handled, Working
<1>3. /\ UNCHANGED <<verb, req, stream, identity, transport, meta, who, log, decided, unlogged>>
      /\ answered' = IF verb[c] \in {"FWD", "FMUX"} THEN answered \cup {Current(c)} ELSE answered
  BY DEF Run, maps, shared
<1>4. Current(c)' = Current(c) /\ Current(c) = <<c, req[c]>>
  BY <1>3 DEF Current
<1>5. /\ log[Current(c)] = <<>>
      /\ decided[Current(c)] \notin Denials
      /\ decided[Current(c)] # None => meta[c] = decided[Current(c)]
  BY <1>1 DEF ConnOK, Decides, Working
<1>6. /\ at'[c] \in {"audit", "streams", "reply"}
      /\ at'[c] = "streams" => verb[c] = "FMUX"
      /\ at'[c] = "reply" => verb[c] \notin {"EXEJ", "MUX"}
  BY <1>1 DEF AfterRun
<1>7. Recorded(c)'
  BY <1>3, <1>4, <1>5 DEF ConnOK, Recorded
<1>8. Handled(c)'
  BY <1>1, <1>2, <1>3, <1>4, <1>6 DEF ConnOK, Handled
<1>9. Decides(c)'
  BY <1>1, <1>3, <1>4, <1>5, <1>6 DEF Decides, Working
<1>10. QED BY <1>7, <1>8, <1>9 DEF ConnOK

\* A record is written, or lost.
LEMMA WrittenOrLost ==
  ASSUME ConnTypes, NEW c \in Conns, NEW r \in Requests, NEW ok \in BOOLEAN, log[r] = <<>>,
         Append1(c, r, ok)
  PROVE  /\ \A q \in Requests \ {r} : /\ log'[q] = log[q]
                                      /\ q \in unlogged' <=> q \in unlogged
         /\ unlogged \subseteq unlogged'
         /\ \/ r \in unlogged' /\ log'[r] = <<>>
            \/ /\ log'[r] # <<>> /\ Len(log'[r]) = 1 /\ DOMAIN log'[r] = {1}
               /\ log'[r][1] = [key |-> identity[c], via |-> transport[c],
                                rule |-> meta[c], ok |-> ok]
<1> DEFINE rec == [key |-> identity[c], via |-> transport[c], rule |-> meta[c], ok |-> ok]
<1>1. CASE log' = [log EXCEPT ![r] = Append(@, rec)] /\ UNCHANGED unlogged
  <2>1. log'[r] = Append(<<>>, rec) /\ \A q \in Requests \ {r} : log'[q] = log[q]
    BY <1>1 DEF ConnTypes
  <2>2. Append(<<>>, rec) = <<rec>>
    OBVIOUS
  <2>3. /\ <<rec>> # <<>> /\ Len(<<rec>>) = 1 /\ DOMAIN <<rec>> = {1} /\ <<rec>>[1] = rec
    OBVIOUS
  <2>4. QED BY <1>1, <2>1, <2>2, <2>3
<1>2. CASE unlogged' = unlogged \cup {r} /\ UNCHANGED log
  BY <1>2
<1>3. QED BY <1>1, <1>2 DEF Append1

\* The record of a request, allowed or refused.
LEMMA AuditStep ==
  ASSUME ConnTypes, NEW c \in Conns, ConnOK(c), Audit(c)
  PROVE  ConnOK(c)'
<1> DEFINE r == Current(c)
<1>1. at[c] \in {"audit", "deny"} /\ stream[c] = "none"
  BY DEF Audit, ConnOK, Decides, ConnTypes
<1>2. req[c] \in 1..MaxRequests /\ req[c] > 0 /\ verb[c] # None /\ r \in Requests
  BY <1>1, CurrentType DEF ConnOK, Handled, Working
<1>3. UNCHANGED <<verb, req, stream, identity, transport, meta, who, decided, answered>>
  BY DEF Audit, maps
<1>4. r' = r /\ r = <<c, req[c]>>
  BY <1>3 DEF Current
<1>5. /\ log[r] = <<>>
      /\ at[c] = "audit" => decided[r] \notin Denials
      /\ at[c] = "deny" => decided[r] \in Denials
      /\ decided[r] # None => meta[c] = decided[r]
  BY <1>1 DEF ConnOK, Decides, Working
<1>6. /\ \A q \in Requests \ {r} : /\ log'[q] = log[q]
                                   /\ q \in unlogged' <=> q \in unlogged
      /\ \/ r \in unlogged' /\ log'[r] = <<>>
         \/ /\ log'[r] # <<>> /\ Len(log'[r]) = 1 /\ DOMAIN log'[r] = {1}
            /\ log'[r][1] = [key |-> identity[c], via |-> transport[c],
                             rule |-> meta[c], ok |-> at[c] = "audit"]
  BY <1>2, <1>5, WrittenOrLost DEF Audit
<1>7. at'[c] \in {"open", "reply"} /\ (at'[c] = "open" => at[c] = "audit")
  BY DEF Audit, Goto, ConnTypes
<1>8. who[c] = [key |-> identity[c], via |-> transport[c]]
  BY <1>1 DEF ConnOK, Handled
<1>9. Recorded(c)'
  <2> SUFFICES ASSUME NEW n \in 1..MaxRequests
               PROVE  /\ Len(log'[<<c, n>>]) <= 1
                      /\ <<c, n>> \in answered \ unlogged'
                           /\ (verb[c] \in {"EXEJ", "MUX"} \/ decided[<<c, n>>] \in Denials)
                           => log'[<<c, n>>] # <<>>
                      /\ \A i \in DOMAIN log'[<<c, n>>] : verb[c] # "FMUX" =>
                           /\ log'[<<c, n>>][i].key = who[c].key
                           /\ log'[<<c, n>>][i].via = who[c].via
                           /\ decided[<<c, n>>] # None => log'[<<c, n>>][i].rule = decided[<<c, n>>]
                           /\ log'[<<c, n>>][i].ok <=> decided[<<c, n>>] \notin Denials
    BY <1>3 DEF Recorded
  <2>1. CASE n # req[c]
    <3>1. <<c, n>> \in Requests \ {r}
      BY <2>1, <1>4, RequestTypes
    <3>2. log'[<<c, n>>] = log[<<c, n>>] /\ (<<c, n>> \in unlogged' <=> <<c, n>> \in unlogged)
      BY <3>1, <1>6
    <3>3. QED BY <3>2 DEF ConnOK, Recorded
  <2>2. CASE n = req[c] /\ r \in unlogged' /\ log'[r] = <<>>
    BY <2>2, <1>4
  <2>3. CASE n = req[c] /\ log'[r] # <<>>
    <3>1. /\ Len(log'[r]) = 1 /\ DOMAIN log'[r] = {1}
          /\ log'[r][1] = [key |-> identity[c], via |-> transport[c],
                           rule |-> meta[c], ok |-> at[c] = "audit"]
      BY <2>3, <1>6
    <3>2. log'[r][1].ok <=> decided[r] \notin Denials
      <4>1. log'[r][1].ok = (at[c] = "audit")
        BY <3>1
      <4>2. at[c] = "audit" <=> decided[r] \notin Denials
        BY <1>1, <1>5
      <4>3. QED BY <4>1, <4>2
    <3>3. /\ log'[r][1].key = who[c].key /\ log'[r][1].via = who[c].via
          /\ log'[r][1].rule = meta[c]
      BY <3>1, <1>8
    <3>4. <<c, n>> = r
      BY <2>3, <1>4
    <3>5. \A i \in DOMAIN log'[r] : i = 1
      BY <3>1
    <3>6. /\ \A i \in DOMAIN log'[r] : /\ log'[r][i].key = who[c].key
                                      /\ log'[r][i].via = who[c].via
                                      /\ log'[r][i].rule = meta[c]
          /\ Len(log'[r]) <= 1
      BY <3>1, <3>3, <3>5
    <3>7. \A i \in DOMAIN log'[r] : log'[r][i].ok <=> decided[r] \notin Denials
      BY <3>2, <3>5
    <3>8. QED BY <2>3, <3>4, <3>6, <3>7, <1>5
  <2>4. QED BY <2>1, <2>2, <2>3, <1>6
<1>10. Handled(c)'
  <2>1. \A n \in 1..MaxRequests : n > req[c] => log'[<<c, n>>] = log[<<c, n>>]
    BY <1>2, <1>4, <1>6, RequestTypes
  <2>2. QED BY <1>1, <1>2, <1>3, <1>7, <2>1 DEF ConnOK, Handled
<1>11. Decides(c)'
  BY <1>1, <1>3, <1>4, <1>6, <1>7 DEF Decides, Working
<1>12. QED BY <1>9, <1>10, <1>11 DEF ConnOK

\* The answer goes out.
LEMMA ReplyStep ==
  ASSUME ConnTypes, NEW c \in Conns, ConnOK(c), Reply(c)
  PROVE  ConnOK(c)'
<1>1. at[c] = "reply" /\ at'[c] \in {"ready", "closed"} /\ stream[c] = "none"
  BY DEF Reply, Close, Goto, ConnOK, Decides, ConnTypes
<1>2. req[c] \in 1..MaxRequests /\ req[c] > 0 /\ verb[c] # None
  BY <1>1, CurrentType DEF ConnOK, Handled
<1>3. /\ UNCHANGED <<verb, req, stream, who, log, decided, unlogged>>
      /\ answered' = answered \cup {Current(c)}
      /\ at'[c] = "ready" => UNCHANGED <<identity, transport>>
  BY DEF Reply, Close, Goto, maps, shared, ConnTypes
<1>4. Current(c)' = Current(c) /\ Current(c) = <<c, req[c]>>
  BY <1>3 DEF Current
<1>5. verb[c] \in {"EXEJ", "MUX"} \/ decided[Current(c)] \in Denials =>
        log[Current(c)] # <<>> \/ Current(c) \in unlogged
  BY <1>1 DEF ConnOK, Decides
<1>6. Recorded(c)'
  BY <1>3, <1>4, <1>5 DEF ConnOK, Recorded
<1>7. Handled(c)'
  BY <1>1, <1>2, <1>3, <1>4 DEF ConnOK, Handled, Working
<1>8. Decides(c)'
  BY <1>1, <1>3, <1>4 DEF Decides, Working
<1>9. QED BY <1>6, <1>7, <1>8 DEF ConnOK

\* A stream of an FMUX session starts ...
LEMMA StreamOpensStep ==
  ASSUME ConnTypes, NEW c \in Conns, ConnOK(c), StreamOpens(c)
  PROVE  ConnOK(c)'
<1> DEFINE n == req[c] + 1
<1>1. n \in 1..MaxRequests /\ req'[c] = n /\ req[c] \in Nat
  <2>1. n \in 1..MaxRequests /\ req[c] \in Nat
    BY CountTypes, BoundAssumption DEF StreamOpens, ConnTypes
  <2>2. QED BY <2>1 DEF StreamOpens, ConnTypes
<1>2. log[<<c, n>>] = <<>> /\ Current(c)' = <<c, n>>
  BY <1>1 DEF ConnOK, Handled, Current
<1>3. at[c] = "streams" /\ verb[c] = "FMUX" /\ stream'[c] = "dialing" /\ verb[c] # None
  BY NoneAssumption DEF StreamOpens, ConnOK, Decides, ConnTypes, Verbs
<1>4. UNCHANGED <<at, verb, identity, transport, who, log, decided, answered, unlogged>>
  BY DEF StreamOpens, maps, shared, history
<1>5. Recorded(c)'
  BY <1>4 DEF ConnOK, Recorded
<1>6. Handled(c)'
  BY <1>1, <1>3, <1>4 DEF ConnOK, Handled
<1>7. Decides(c)'
  BY <1>2, <1>3, <1>4 DEF Decides, Working
<1>8. QED BY <1>5, <1>6, <1>7 DEF ConnOK

\* ... and is recorded, whatever became of the session.
LEMMA StreamAuditsStep ==
  ASSUME ConnTypes, NEW c \in Conns, ConnOK(c), StreamAudits(c)
  PROVE  ConnOK(c)'
<1> DEFINE r == Current(c)
<1>1. /\ stream[c] = "dialing" /\ at[c] \in {"streams", "closed"} /\ verb[c] = "FMUX"
      /\ log[r] = <<>> /\ stream'[c] = "none"
  BY DEF StreamAudits, ConnOK, Decides, ConnTypes
<1>2. req[c] \in 1..MaxRequests /\ req[c] > 0 /\ r \in Requests
  BY <1>1, CurrentType DEF ConnOK, Handled
<1>3. UNCHANGED <<at, verb, req, identity, transport, meta, who, decided, answered>>
  BY DEF StreamAudits, maps
<1>4. r' = r /\ r = <<c, req[c]>>
  BY <1>3 DEF Current
<1>5. PICK ok \in BOOLEAN : Append1(c, r, ok)
  BY DEF StreamAudits
<1>6. /\ \A q \in Requests \ {r} : /\ log'[q] = log[q]
                                   /\ q \in unlogged' <=> q \in unlogged
      /\ (r \in unlogged' /\ log'[r] = <<>>) \/ (log'[r] # <<>> /\ Len(log'[r]) = 1)
  BY <1>1, <1>2, <1>5, WrittenOrLost
<1>7. ASSUME NEW n \in 1..MaxRequests
      PROVE  /\ Len(log'[<<c, n>>]) <= 1
             /\ <<c, n>> \in answered \ unlogged'
                  /\ (verb[c] \in {"EXEJ", "MUX"} \/ decided[<<c, n>>] \in Denials)
                  => log'[<<c, n>>] # <<>>
             /\ n > req[c] => log'[<<c, n>>] = log[<<c, n>>]
  <2>1. CASE n # req[c]
    <3>1. <<c, n>> \in Requests \ {r}
      BY <2>1, <1>4, RequestTypes
    <3>2. log'[<<c, n>>] = log[<<c, n>>] /\ (<<c, n>> \in unlogged' <=> <<c, n>> \in unlogged)
      BY <3>1, <1>6
    <3>3. QED BY <3>2 DEF ConnOK, Recorded
  <2>2. CASE n = req[c]
    <3>1. <<c, n>> = r /\ ~(n > req[c])
      BY <2>2, <1>2, <1>4
    <3>2. Len(log'[r]) <= 1 /\ (r \in unlogged' \/ log'[r] # <<>>)
      <4>1. CASE r \in unlogged' /\ log'[r] = <<>>
        BY <4>1
      <4>2. CASE log'[r] # <<>> /\ Len(log'[r]) = 1
        BY <4>2
      <4>3. QED BY <1>6, <4>1, <4>2
    <3>3. QED BY <3>1, <3>2
  <2>3. QED BY <2>1, <2>2
<1>8. Recorded(c)'
  BY <1>1, <1>3, <1>7 DEF Recorded
<1>9. Handled(c)'
  BY <1>1, <1>2, <1>3, <1>7 DEF ConnOK, Handled
<1>10. Decides(c)'
  BY <1>1, <1>3, <1>4 DEF ConnOK, Decides, Working
<1>11. QED BY <1>8, <1>9, <1>10 DEF ConnOK

\* Every step keeps what is known of every connection.
LEMMA ConnInvStep ==
  ASSUME ConnTypes, ConnInv, [Next]_vars
  PROVE  ConnInv'
<1>1. ASSUME NEW c \in Conns, Handler(c) PROVE ConnInv'
  <2>1. ConnOK(c)
    BY DEF ConnInv, ConnOK
  <2>2. ConnOK(c)'
    <3>1. CASE \/ Accept(c) \/ AuthFails(c) \/ (\E k \in Keys : AuthOK(c, k))
               \/ PeekExpires(c) \/ Return(c)
      BY <2>1, <3>1, EntrySteps
    <3>2. CASE \E v \in Verbs : Take(c, v)
      BY <2>1, <3>2, TakeSteps
    <3>3. CASE CacheHit(c) \/ ReadFile(c) \/ StorePolicy(c) \/ Rate(c)
      BY <2>1, <3>3, GateSteps
    <3>4. CASE Run(c) \/ Audit(c) \/ Reply(c)
      BY <2>1, <3>4, RunStep, AuditStep, ReplyStep
    <3>5. CASE StreamOpens(c) \/ StreamAudits(c)
      BY <2>1, <3>5, StreamOpensStep, StreamAuditsStep
    <3>6. QED BY <1>1, <3>1, <3>2, <3>3, <3>4, <3>5 DEF Handler
  <2>3. ASSUME NEW d \in Conns, d # c PROVE ConnOK(d)'
    <3>1. Untouched(d)
      BY <1>1, <2>3, HandlerIsOwn
    <3>2. Handled(d) /\ Decides(d) /\ Recorded(d)
      BY DEF ConnInv
    <3>3. QED BY <3>1, <3>2, UntouchedKeeps DEF ConnOK
  <2>4. QED BY <2>2, <2>3 DEF ConnInv, ConnOK
<1>2. CASE UNCHANGED <<conn, maps, log, history>>
  <2>1. \A d \in Conns : Untouched(d)
    BY <1>2 DEF Untouched, conn, maps, history
  <2>2. QED BY <2>1, UntouchedKeeps DEF ConnInv
<1>3. CASE Crash
  <2>1. ASSUME NEW c \in Conns PROVE Handled(c)' /\ Decides(c)' /\ Recorded(c)'
    <3>1. at'[c] \in {"free", "closed"} /\ (at'[c] = "free" => at[c] = "free") /\ stream'[c] = "none"
      BY <1>3 DEF Crash
    <3>2. UNCHANGED <<verb, req, who, log, decided, answered, unlogged>>
      BY <1>3 DEF Crash
    <3>3. Handled(c) /\ Recorded(c)
      BY DEF ConnInv
    <3>4. QED BY <3>1, <3>2, <3>3 DEF Handled, Decides, Recorded, Working
  <2>2. QED BY <2>1 DEF ConnInv
<1>4. QED BY <1>1, <1>2, <1>3 DEF Next, Edit, Retag, Tick, vars, shared

\* Nothing is recorded initially.
LEMMA ConnInit == Init => ConnTypes /\ ConnInv
<1> SUFFICES ASSUME Init PROVE ConnTypes /\ ConnInv
  OBVIOUS
<1>1. log \in [Requests -> Seq(Record)]
  BY DEF Init
<1>2. ConnTypes
  BY <1>1, BoundAssumption DEF Init, ConnTypes, Labels
<1>3. ASSUME NEW c \in Conns PROVE Handled(c) /\ Decides(c) /\ Recorded(c)
  BY RequestTypes DEF Init, Handled, Decides, Recorded, Working
<1>4. QED BY <1>2, <1>3 DEF ConnInv

\* What is known of the connections holds in every state.
LEMMA ConnsAreRight == Spec => [](ConnTypes /\ ConnInv)
<1>1. ConnTypes /\ ConnInv /\ [Next]_vars => (ConnTypes /\ ConnInv)'
  BY ConnTypesStep, ConnInvStep
<1>2. QED BY ConnInit, <1>1, PTL DEF Spec

\* No request is recorded twice, and one that was refused, or that ran by EXEJ
\* or MUX, has its record by the time its client reads the answer, unless the
\* log could not be written (auditLog and its callers).
THEOREM AnswersAreRecorded == Spec => []AnsweredIsRecorded
<1>1. ConnTypes /\ ConnInv => AnsweredIsRecorded
  <2> SUFFICES ASSUME ConnInv, NEW r \in Requests
               PROVE  /\ Len(log[r]) <= 1
                      /\ r \in answered \ unlogged
                           /\ (verb[r[1]] \in {"EXEJ", "MUX"} \/ decided[r] \in Denials)
                           => log[r] # <<>>
    BY DEF AnsweredIsRecorded, ConnTypes
  <2>1. PICK c \in Conns, n \in 1..MaxRequests : r = <<c, n>>
    BY DEF Requests
  <2>2. Recorded(c)
    BY DEF ConnInv
  <2>3. QED BY <2>1, <2>2 DEF Recorded
<1>2. QED BY ConnsAreRight, <1>1, PTL

\* A record names the key that authenticated, the transport it came by and
\* the rule that decided this very request, whatever the connection's maps
\* held for its earlier requests or hold for others (auditLog, connIdentity).
THEOREM RecordsAreOwn == Spec => []RecordsOwn
<1>1. ConnTypes /\ ConnInv => RecordsOwn
  <2> SUFFICES ASSUME ConnInv, NEW r \in Requests, NEW i \in DOMAIN log[r], verb[r[1]] # "FMUX"
               PROVE  /\ log[r][i].key = who[r[1]].key /\ log[r][i].via = who[r[1]].via
                      /\ decided[r] # None => log[r][i].rule = decided[r]
                      /\ log[r][i].ok <=> decided[r] \notin Denials
    BY DEF RecordsOwn
  <2>1. PICK c \in Conns, n \in 1..MaxRequests : r = <<c, n>>
    BY DEF Requests
  <2>2. Recorded(c)
    BY DEF ConnInv
  <2>3. QED BY <2>1, <2>2 DEF Recorded
<1>2. QED BY ConnsAreRight, <1>1, PTL

----------------------------------------------------------------------------
(* The policy.                                                             *)

\* The mtime a session found is never ahead of the file's, and what it has
\* loaded, or finds in the cache, was read no earlier than its mtime says.
PolicyInv ==
  /\ at \in [Conns -> Labels]
  /\ stat \in [Conns -> Nat]
  /\ pol = [c \in Conns |-> pol[c]]
  /\ disk.mtime \in Nat
  /\ \A c \in Conns :
       /\ stat[c] <= disk.mtime
       /\ pol[c] # None \/ at[c] = "store" => pol[c].mtime \in Nat /\ pol[c].mtime >= stat[c]
  /\ cache # None =>
       cache.mtime \in Nat /\ cache.pol.mtime \in Nat /\ cache.pol.mtime >= cache.mtime

\* Judging a policy no older than the file the request found.
LEMMA JudgeFresh ==
  ASSUME PolicyInv, NEW c \in Conns, NEW v, NEW n, NEW p, Judge(c, v, n, p),
         p.mtime \in Nat, p.mtime >= stat'[c], stat'[c] <= disk.mtime,
         stat' \in [Conns -> Nat], \A d \in Conns \ {c} : stat'[d] = stat[d],
         UNCHANGED disk,
         cache' # None => /\ cache'.mtime \in Nat /\ cache'.pol.mtime \in Nat
                          /\ cache'.pol.mtime >= cache'.mtime
  PROVE  PolicyInv'
<1>1. PICK label \in {"rate", "run", "deny"} : at' = [at EXCEPT ![c] = label]
  BY JudgeDecides DEF Decided, Goto
<1>2. pol' = [pol EXCEPT ![c] = p]
  BY DEF Judge
<1>3. /\ at' \in [Conns -> Labels] /\ pol' = [d \in Conns |-> pol'[d]] /\ pol'[c] = p
      /\ \A d \in Conns \ {c} : at'[d] = at[d] /\ pol'[d] = pol[d]
      /\ disk'.mtime \in Nat /\ at'[c] # "store"
  BY <1>1, <1>2 DEF PolicyInv, Labels
<1>4. ASSUME NEW d \in Conns
      PROVE  /\ stat'[d] <= disk'.mtime
             /\ pol'[d] # None \/ at'[d] = "store" =>
                  pol'[d].mtime \in Nat /\ pol'[d].mtime >= stat'[d]
  <2>1. CASE d = c
    BY <1>3, <2>1
  <2>2. CASE d # c
    BY <1>3, <2>2 DEF PolicyInv
  <2>3. QED BY <2>1, <2>2
<1>5. QED BY <1>3, <1>4 DEF PolicyInv

\* A step of a handler that does not touch the policy.
LEMMA PolicyAside ==
  ASSUME PolicyInv, NEW c \in Conns, NEW label \in Labels \ {"store"},
         at' = [at EXCEPT ![c] = label],
         \/ UNCHANGED <<stat, pol>>
         \/ UNCHANGED stat /\ pol' = [pol EXCEPT ![c] = None]
         \/ stat' = [stat EXCEPT ![c] = 0] /\ pol' = [pol EXCEPT ![c] = None]
         \/ stat' = [stat EXCEPT ![c] = disk.mtime] /\ pol' = [pol EXCEPT ![c] = None],
         UNCHANGED <<disk, cache>>
  PROVE  PolicyInv'
BY DEF PolicyInv

\* Every step keeps PolicyInv.
LEMMA PolicyStep ==
  ASSUME PolicyInv, [Next]_vars
  PROVE  PolicyInv'
<1>1. ASSUME NEW c \in Conns,
             \/ Accept(c) \/ AuthFails(c) \/ (\E k \in Keys : AuthOK(c, k)) \/ PeekExpires(c)
             \/ Return(c) \/ Run(c) \/ Audit(c) \/ Reply(c)
      PROVE  PolicyInv'
  <2>1. UNCHANGED <<disk, cache>>
    BY <1>1 DEF Accept, AuthFails, AuthOK, PeekExpires, Return, Run, Audit, Reply, files, shared
  <2>2. PICK label \in Labels \ {"store"} : at' = [at EXCEPT ![c] = label]
    <3>1. AfterRun(c) \in Labels \ {"store"}
      BY DEF AfterRun, Labels
    <3>2. QED
      BY <1>1, <3>1 DEF Accept, AuthFails, AuthOK, PeekExpires, Return, Run, Audit, Reply, Close,
                        Goto, Labels
  <2>3. \/ UNCHANGED <<stat, pol>>
        \/ stat' = [stat EXCEPT ![c] = 0] /\ pol' = [pol EXCEPT ![c] = None]
    BY <1>1 DEF Accept, AuthFails, AuthOK, PeekExpires, Return, Run, Audit, Reply, Close
  <2>4. QED BY <2>1, <2>2, <2>3, PolicyAside
<1>2. ASSUME NEW c \in Conns, NEW v \in Verbs, Take(c, v) PROVE PolicyInv'
  <2>1. UNCHANGED <<disk, cache>>
    BY <1>2 DEF Take, files, shared
  <2>2. CASE Goto(c, "run") /\ pol' = [pol EXCEPT ![c] = None] /\ UNCHANGED stat
    BY <2>1, <2>2, PolicyAside DEF Goto, Labels
  <2>3. CASE /\ Decided(c, req[c] + 1, "blocked", "deny")
             /\ pol' = [pol EXCEPT ![c] = None] /\ UNCHANGED stat
    BY <2>1, <2>3, PolicyAside DEF Decided, Goto, Labels
  <2>4. CASE /\ stat' = [stat EXCEPT ![c] = disk.mtime]
             /\ Judge(c, v, req[c] + 1, [mtime |-> disk.mtime, rule |-> "missing"])
    <3>1. /\ stat' \in [Conns -> Nat] /\ stat'[c] = disk.mtime /\ disk.mtime \in Nat
          /\ \A d \in Conns \ {c} : stat'[d] = stat[d]
      BY <2>4 DEF PolicyInv
    <3>2. cache' # None => /\ cache'.mtime \in Nat /\ cache'.pol.mtime \in Nat
                           /\ cache'.pol.mtime >= cache'.mtime
      BY <2>1 DEF PolicyInv
    <3>3. disk.mtime >= stat'[c] /\ stat'[c] <= disk.mtime
      BY <3>1
    <3>4. QED BY <2>1, <2>4, <3>1, <3>2, <3>3, JudgeFresh
  <2>5. CASE /\ stat' = [stat EXCEPT ![c] = disk.mtime]
             /\ Goto(c, "lookup") /\ pol' = [pol EXCEPT ![c] = None]
    BY <2>1, <2>5, PolicyAside DEF Goto, Labels
  <2>6. QED BY <1>2, <2>2, <2>3, <2>4, <2>5 DEF Take
<1>3. ASSUME NEW c \in Conns, CacheHit(c) PROVE PolicyInv'
  <2>1. /\ cache # None /\ cache.mtime = stat[c] /\ UNCHANGED <<stat, disk, cache>>
        /\ Judge(c, verb[c], req[c], cache.pol)
    BY <1>3 DEF CacheHit, CacheValid, files, shared
  <2>2. /\ cache.pol.mtime \in Nat /\ cache.pol.mtime >= stat[c] /\ stat[c] <= disk.mtime
        /\ stat \in [Conns -> Nat]
    BY <2>1 DEF PolicyInv
  <2>3. cache.pol.mtime >= cache.mtime /\ cache.mtime \in Nat
    BY <2>1 DEF PolicyInv
  <2>4. QED BY <2>1, <2>2, <2>3, JudgeFresh
<1>4. ASSUME NEW c \in Conns, ReadFile(c) PROVE PolicyInv'
  BY <1>4 DEF ReadFile, Goto, PolicyInv, Labels, files, shared
<1>5. ASSUME NEW c \in Conns, StorePolicy(c) PROVE PolicyInv'
  <2>1. /\ at[c] = "store" /\ UNCHANGED <<stat, disk>>
        /\ cache' = [mtime |-> stat[c], pol |-> pol[c]]
        /\ Judge(c, verb[c], req[c], pol[c])
    BY <1>5 DEF StorePolicy, files
  <2>2. /\ pol[c].mtime \in Nat /\ pol[c].mtime >= stat[c] /\ stat[c] <= disk.mtime
        /\ stat \in [Conns -> Nat]
    BY <2>1 DEF PolicyInv
  <2>3. cache'.mtime = stat[c] /\ cache'.pol = pol[c]
    BY <2>1
  <2>4. QED BY <2>1, <2>2, <2>3, JudgeFresh
<1>6. ASSUME NEW c \in Conns, Rate(c) PROVE PolicyInv'
  <2>1. UNCHANGED <<stat, pol, disk, cache>>
    BY <1>6 DEF Rate, files
  <2>2. at' = [at EXCEPT ![c] = "deny"] \/ at' = [at EXCEPT ![c] = "run"]
    BY <1>6 DEF Rate, Decided, Goto
  <2>3. QED BY <2>1, <2>2, PolicyAside DEF Labels
<1>7. CASE Edit
  <2>1. PICK rule \in Contents, mtime \in {disk.mtime, disk.mtime + 1} :
          disk' = [edits |-> disk.edits + 1, mtime |-> mtime, rule |-> rule]
    BY <1>7 DEF Edit
  <2>2. UNCHANGED <<at, stat, pol, cache>>
    BY <1>7 DEF Edit, conn, shared
  <2>3. disk'.mtime \in {disk.mtime, disk.mtime + 1}
    BY <2>1
  <2>4. QED BY <2>2, <2>3 DEF PolicyInv
<1>8. CASE Crash
  <2>1. /\ stat' = [c \in Conns |-> 0] /\ pol' = [c \in Conns |-> None] /\ cache' = None
        /\ disk' = disk /\ at' = [c \in Conns |-> IF at[c] = "free" THEN "free" ELSE "closed"]
    BY <1>8 DEF Crash, files
  <2>2. QED BY <2>1 DEF PolicyInv, Labels
<1>9. CASE UNCHANGED <<at, stat, pol, disk, cache>>
  BY <1>9 DEF PolicyInv
<1>10. QED
  <2>1. ASSUME NEW c \in Conns, StreamOpens(c) \/ StreamAudits(c)
        PROVE  UNCHANGED <<at, stat, pol, disk, cache>>
    BY <2>1 DEF StreamOpens, StreamAudits, files, shared
  <2>2. ASSUME (\E k \in Keys : Retag(k)) \/ Tick \/ UNCHANGED vars
        PROVE  UNCHANGED <<at, stat, pol, disk, cache>>
    BY <2>2 DEF Retag, Tick, vars, conn, files, shared
  <2>3. ASSUME NEW c \in Conns, Handler(c) PROVE PolicyInv'
    <3>1. CASE \/ Accept(c) \/ AuthFails(c) \/ (\E k \in Keys : AuthOK(c, k)) \/ PeekExpires(c)
               \/ Return(c) \/ Run(c) \/ Audit(c) \/ Reply(c)
      BY <3>1, <1>1
    <3>2. CASE \/ (\E v \in Verbs : Take(c, v)) \/ CacheHit(c) \/ ReadFile(c)
               \/ StorePolicy(c) \/ Rate(c)
      BY <3>2, <1>2, <1>3, <1>4, <1>5, <1>6
    <3>3. CASE StreamOpens(c) \/ StreamAudits(c)
      BY <3>3, <2>1, <1>9
    <3>4. QED BY <2>3, <3>1, <3>2, <3>3 DEF Handler
  <2>4. QED BY <1>7, <1>8, <1>9, <2>2, <2>3 DEF Next

\* A request is never judged by a policy older than the file it found, whatever
\* other sessions load, and store late, meanwhile (LoadPolicy, policyCache).
THEOREM PoliciesAreFresh == Spec => []PolicyFresh
<1>1. Init => PolicyInv
  BY DEF Init, PolicyInv, Labels
<1>2. PolicyInv /\ [Next]_vars => PolicyInv'
  BY PolicyStep
<1>3. PolicyInv => PolicyFresh
  BY DEF PolicyInv, PolicyFresh
<1>4. QED BY <1>1, <1>2, <1>3, PTL DEF Spec

----------------------------------------------------------------------------
(* The rate limit.                                                         *)

\* Of a key: a are the times of its approved commands, w is its window, at t.
\* The window is the end of a, and what is in front of it is too old to count.
Windowed(a, w, t) ==
  /\ a \in Seq(Nat) /\ w \in Seq(Nat)
  /\ \A i \in 1..Len(a) : a[i] <= t /\ \A j \in 1..i - 1 : a[j] <= a[i]
  /\ \E m \in 0..Len(a) :
       /\ Len(w) = Len(a) - m
       /\ \A i \in 1..Len(w) : w[i] = a[m + i]
       /\ \A i \in 1..m : a[i] + Window < t
  /\ \A i \in 1..Len(a) - PerMin : a[i + PerMin] - a[i] > Window

RateInv ==
  /\ now \in Nat
  /\ window = [k \in Keys |-> window[k]] /\ approved = [k \in Keys |-> approved[k]]
  /\ \A k \in Keys : Windowed(approved[k], window[k], now)

\* What rateExceeded keeps of a window is its end, and the rest is too old.
LEMMA WindowKept ==
  ASSUME NEW a, NEW w, NEW t \in Nat, Windowed(a, w, t), NEW start \in {t - 1, t},
         NEW kept, kept = Selected(w, (start - Window)..t)
  PROVE  Windowed(a, kept, t)
<1>0. Window \in Nat /\ PerMin \in Nat \ {0}
  BY RateAssumption
<1>1. PICK l \in Nat : l = Len(a)
  BY DEF Windowed
<1>2. PICK m \in 0..l : /\ Len(w) = l - m
                        /\ \A i \in 1..l - m : w[i] = a[m + i]
                        /\ \A i \in 1..m : a[i] + Window < t
  BY <1>1 DEF Windowed
<1>3. /\ a \in Seq(Nat) /\ w \in Seq(Nat) /\ w \in Seq(Int)
      /\ \A i \in 1..l : a[i] \in Nat /\ a[i] <= t /\ \A j \in 1..i - 1 : a[j] <= a[i]
  BY <1>1 DEF Windowed
<1>4. ASSUME NEW i \in 1..(l - m) - 1, w[i] \in (start - Window)..t
      PROVE  w[i + 1] \in (start - Window)..t
  <2>1. i \in 1..l - m /\ i + 1 \in 1..l - m /\ m + (i + 1) \in 1..l /\ m + i \in 1..(m + (i + 1)) - 1
    BY <1>1, <1>2
  <2>2. w[i] = a[m + i] /\ w[i + 1] = a[m + (i + 1)] /\ m + i \in 1..l
    BY <1>1, <1>2, <2>1
  <2>3. /\ a[m + i] <= a[m + (i + 1)] /\ a[m + (i + 1)] <= t
        /\ a[m + i] \in Nat /\ a[m + (i + 1)] \in Nat
    BY <1>3, <2>1, <2>2
  <2>4. start \in Int /\ start - Window \in Int
    BY <1>0
  <2>5. QED BY <1>4, <2>2, <2>3, <2>4
<1>5. PICK n \in 0..(l - m) :
        /\ kept = SubSeq(w, n + 1, l - m)
        /\ \A i \in 1..n : w[i] \notin (start - Window)..t
  BY <1>2, <1>3, <1>4, SelectedEnd
<1>6. kept \in Seq(Nat) /\ Len(kept) = (l - m) - n /\ \A i \in 1..(l - m) - n : kept[i] = w[n + i]
  <2>1. n \in 0..Len(w) /\ kept = SubSeq(w, n + 1, Len(w))
    BY <1>2, <1>5
  <2>2. /\ kept \in Seq(Nat) /\ Len(kept) = Len(w) - n
        /\ \A i \in 1..Len(w) - n : kept[i] = w[n + i]
    BY <1>3, <2>1, EndOf
  <2>3. QED BY <1>2, <2>2
<1>7. m + n \in 0..l /\ Len(kept) = l - (m + n)
  BY <1>6
<1>8. ASSUME NEW i \in 1..Len(kept) PROVE kept[i] = a[(m + n) + i]
  <2>1. i \in 1..(l - m) - n /\ n + i \in 1..l - m /\ m + (n + i) = (m + n) + i
    BY <1>6
  <2>2. QED BY <1>2, <1>6, <2>1
<1>9. ASSUME NEW i \in 1..m + n PROVE a[i] + Window < t
  <2>1. CASE i \in 1..m
    BY <1>2, <2>1
  <2>2. CASE i \notin 1..m
    <3>1. i - m \in 1..n /\ i - m \in 1..l - m /\ m + (i - m) = i /\ i \in 1..l
      BY <2>2
    <3>2. w[i - m] = a[i] /\ w[i - m] \notin (start - Window)..t
      BY <1>2, <1>5, <3>1
    <3>3. a[i] \in Nat /\ a[i] <= t
      BY <1>3, <3>1
    <3>4. a[i] < start - Window
      BY <1>0, <3>2, <3>3
    <3>5. QED BY <1>0, <3>3, <3>4
  <2>3. QED BY <2>1, <2>2
<1>10. QED BY <1>1, <1>3, <1>6, <1>7, <1>8, <1>9 DEF Windowed

\* One more command while the window has room.
LEMMA OneMore ==
  ASSUME NEW a, NEW w, NEW t \in Nat, Windowed(a, w, t), ~Exceeded(w)
  PROVE  Windowed(Append(a, t), Append(w, t), t)
<1>0. Window \in Nat /\ PerMin \in Nat \ {0}
  BY RateAssumption
<1>1. PICK l \in Nat : l = Len(a)
  BY DEF Windowed
<1>2. PICK m \in 0..l : /\ Len(w) = l - m
                        /\ \A i \in 1..l - m : w[i] = a[m + i]
                        /\ \A i \in 1..m : a[i] + Window < t
  BY <1>1 DEF Windowed
<1>3. /\ a \in Seq(Nat) /\ w \in Seq(Nat)
      /\ \A i \in 1..l : a[i] \in Nat /\ a[i] <= t /\ \A j \in 1..i - 1 : a[j] <= a[i]
      /\ \A i \in 1..l - PerMin : a[i + PerMin] - a[i] > Window
  BY <1>1 DEF Windowed
<1>4. l - m < PerMin
  BY <1>0, <1>2 DEF Exceeded
<1>5. PICK b, v : b = Append(a, t) /\ v = Append(w, t)
  OBVIOUS
<1>6. /\ b \in Seq(Nat) /\ Len(b) = l + 1 /\ b[l + 1] = t /\ \A i \in 1..l : b[i] = a[i]
      /\ v \in Seq(Nat) /\ Len(v) = (l - m) + 1 /\ v[(l - m) + 1] = t
      /\ \A i \in 1..l - m : v[i] = w[i]
  BY <1>1, <1>2, <1>3, <1>5
<1>7. ASSUME NEW i \in 1..l + 1 PROVE b[i] <= t /\ \A j \in 1..i - 1 : b[j] <= b[i]
  <2>1. CASE i = l + 1
    <3>1. b[i] = t
      BY <1>6, <2>1
    <3>2. \A j \in 1..i - 1 : j \in 1..l
      BY <2>1
    <3>3. \A j \in 1..i - 1 : b[j] <= t
      BY <1>3, <1>6, <3>2
    <3>4. QED BY <3>1, <3>3
  <2>2. CASE i # l + 1
    <3>1. i \in 1..l /\ \A j \in 1..i - 1 : j \in 1..l
      BY <2>2
    <3>2. QED BY <1>3, <1>6, <3>1
  <2>3. QED BY <2>1, <2>2
<1>8. m \in 0..l + 1 /\ Len(v) = (l + 1) - m
  BY <1>6
<1>9. ASSUME NEW i \in 1..(l - m) + 1 PROVE v[i] = b[m + i]
  <2>1. CASE i = (l - m) + 1
    BY <1>6, <2>1
  <2>2. CASE i # (l - m) + 1
    <3>1. i \in 1..l - m /\ m + i \in 1..l
      BY <2>2
    <3>2. QED BY <1>2, <1>6, <3>1
  <2>3. QED BY <2>1, <2>2
<1>10. ASSUME NEW i \in 1..m PROVE b[i] + Window < t
  <2>1. i \in 1..l
    OBVIOUS
  <2>2. QED BY <1>2, <1>6, <2>1
<1>11. ASSUME NEW i \in 1..(l + 1) - PerMin PROVE b[i + PerMin] - b[i] > Window
  <2>1. CASE i = (l + 1) - PerMin
    <3>1. i \in 1..m /\ i \in 1..l /\ i + PerMin = l + 1
      BY <1>0, <1>4, <2>1
    <3>2. a[i] + Window < t /\ a[i] \in Nat /\ b[i] = a[i] /\ b[i + PerMin] = t
      BY <1>2, <1>3, <1>6, <3>1
    <3>3. QED BY <1>0, <3>2
  <2>2. CASE i # (l + 1) - PerMin
    <3>1. i \in 1..l - PerMin /\ i \in 1..l /\ i + PerMin \in 1..l
      BY <1>0, <2>2
    <3>2. QED BY <1>3, <1>6, <3>1
  <2>3. QED BY <2>1, <2>2
<1>12. \E x \in 0..Len(b) :
         /\ Len(v) = Len(b) - x
         /\ \A i \in 1..Len(v) : v[i] = b[x + i]
         /\ \A i \in 1..x : b[i] + Window < t
  BY <1>6, <1>8, <1>9, <1>10
<1>13. QED BY <1>5, <1>6, <1>7, <1>11, <1>12 DEF Windowed

\* Time passes.
LEMMA Later ==
  ASSUME NEW a, NEW w, NEW t \in Nat, Windowed(a, w, t)
  PROVE  Windowed(a, w, t + 1)
<1>1. PICK m \in 0..Len(a) : /\ Len(w) = Len(a) - m
                             /\ \A i \in 1..Len(w) : w[i] = a[m + i]
                             /\ \A i \in 1..m : a[i] + Window < t
  BY DEF Windowed
<1>2. a \in Seq(Nat) /\ Len(a) \in Nat /\ \A i \in 1..Len(a) : a[i] \in Nat
  BY DEF Windowed
<1>3. \A i \in 1..m : i \in 1..Len(a)
  BY <1>2
<1>4. ASSUME NEW i \in 1..m PROVE a[i] + Window < t + 1
  <2>1. a[i] \in Nat /\ Window \in Nat
    BY <1>2, <1>3, RateAssumption
  <2>2. a[i] + Window < t
    BY <1>1
  <2>3. QED BY <2>1, <2>2
<1>5. \A i \in 1..Len(a) : a[i] <= t + 1 /\ \A j \in 1..i - 1 : a[j] <= a[i]
  BY <1>2 DEF Windowed
<1>6. QED BY <1>1, <1>4, <1>5 DEF Windowed

\* Every step keeps RateInv.
LEMMA RateStep == RateInv /\ [Next]_vars => RateInv'
<1> SUFFICES ASSUME RateInv, [Next]_vars PROVE RateInv'
  OBVIOUS
<1>1. CASE UNCHANGED <<window, approved, now>>
  BY <1>1 DEF RateInv
<1>2. ASSUME NEW c \in Conns, Rate(c) PROVE RateInv'
  <2>0. PICK key : key = identity[c]
    OBVIOUS
  <2>1. PICK start \in {now - 1, now} :
          \/ /\ window' = [window EXCEPT ![key] = Selected(window[key], (start - Window)..now)]
             /\ UNCHANGED approved
          \/ /\ ~Exceeded(Selected(window[key], (start - Window)..now))
             /\ window' = [window EXCEPT ![key] =
                             Append(Selected(window[key], (start - Window)..now), now)]
             /\ approved' = [approved EXCEPT ![key] = Append(@, now)]
    BY <1>2, <2>0, Zenon DEF Rate
  <2>2. now' = now
    BY <1>2 DEF Rate
  <2>3. PICK kept : kept = Selected(window[key], (start - Window)..now)
    OBVIOUS
  <2>4. ASSUME NEW k \in Keys PROVE Windowed(approved'[k], window'[k], now)
    <3>0. PICK t \in Nat : t = now
      BY DEF RateInv
    <3>1. PICK a, w : a = approved[k] /\ w = window[k] /\ t = now
      BY <3>0
    <3>2. Windowed(a, w, t)
      BY <3>1 DEF RateInv
    <3>3. CASE k # key
      BY <2>1, <3>1, <3>2, <3>3 DEF RateInv
    <3>4. CASE k = key
      <4>1. Windowed(a, kept, t)
        BY <2>3, <3>1, <3>2, <3>4, WindowKept
      <4>2. CASE window' = [window EXCEPT ![key] = kept] /\ UNCHANGED approved
        BY <3>1, <3>4, <4>1, <4>2 DEF RateInv
      <4>3. CASE /\ ~Exceeded(kept) /\ window' = [window EXCEPT ![key] = Append(kept, now)]
                 /\ approved' = [approved EXCEPT ![key] = Append(@, now)]
        <5>1. Windowed(Append(a, t), Append(kept, t), t)
          BY <4>1, <4>3, OneMore
        <5>2. QED BY <3>1, <3>4, <4>3, <5>1 DEF RateInv
      <4>4. QED BY <2>1, <2>3, <4>2, <4>3
    <3>5. QED BY <3>3, <3>4
  <2>5. window' = [k \in Keys |-> window'[k]] /\ approved' = [k \in Keys |-> approved'[k]]
    BY <2>1 DEF RateInv
  <2>6. QED BY <2>2, <2>4, <2>5 DEF RateInv
<1>3. CASE Tick
  <2>1. PICK t \in Nat : t = now
    BY DEF RateInv
  <2>2. \A k \in Keys : Windowed(approved[k], window[k], t + 1)
    BY <2>1, Later DEF RateInv
  <2>3. now' = t + 1 /\ UNCHANGED <<window, approved>>
    BY <1>3, <2>1 DEF Tick, shared, history
  <2>4. QED BY <2>2, <2>3 DEF RateInv
<1>4. CASE Crash
  <2>1. /\ window' = [k \in Keys |-> <<>>] /\ approved' = [k \in Keys |-> <<>>] /\ now' = now
    BY <1>4 DEF Crash
  <2>2. ASSUME NEW t \in Nat PROVE Windowed(<<>>, <<>>, t)
    BY RateAssumption DEF Windowed
  <2>3. QED BY <2>1, <2>2 DEF RateInv
<1>5. QED
  <2>1. ASSUME NEW c \in Conns, Handler(c), ~Rate(c) PROVE UNCHANGED <<window, approved, now>>
    BY <2>1 DEF Handler, Accept, AuthFails, AuthOK, PeekExpires, Return, Take, CacheHit, ReadFile,
         StorePolicy, Run, Audit, Reply, StreamOpens, StreamAudits, shared, history
  <2>2. ASSUME (\E k \in Keys : Retag(k)) \/ Edit \/ UNCHANGED vars
        PROVE  UNCHANGED <<window, approved, now>>
    BY <2>2 DEF Retag, Edit, vars, shared, history
  <2>3. QED BY <1>1, <1>2, <1>3, <1>4, <2>1, <2>2 DEF Next

\* In no period of the window's length does a key run more commands than the
\* limit, whatever the limit, the window and the connections (rateExceeded).
THEOREM RatesAreBounded == Spec => []RateBound
<1>1. Init => RateInv
  BY RateAssumption DEF Init, RateInv, Windowed
<1>2. RateInv => RateBound
  BY DEF RateInv, RateBound, Windowed
<1>3. QED BY <1>1, <1>2, RateStep, PTL DEF Spec
=============================================================================
