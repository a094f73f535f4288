----------------------------- MODULE WorkProofs -----------------------------
(***************************************************************************)
(* Proofs about the ways work is run for a user: what the status of a      *)
(* workflow's run says (Workflow), what the choice of a host keeps to      *)
(* (Routing), and what `vssh run-async` prints (RunAsync, on top of the    *)
(* invariants of JobRegistryProofs).  They hold for any set of jobs,       *)
(* callers, hosts, reports and requests, and for workflows of any length.  *)
(***************************************************************************)
EXTENDS MCWork, JobRegistryProofs, SelectionProofs, FiniteSetTheorems, Integers, TLAPS

----------------------------------------------------------------------------
(* Least and greatest members.                                             *)

\* The least member of a set of naturals is one of its members.
LEMMA MinIs ==
  ASSUME NEW T, T \subseteq Nat, T # {}
  PROVE  Min(T) \in T
BY NatMin DEF Min

\* The greatest member of a bounded set of naturals is one of its members.
LEMMA MaxIs ==
  ASSUME NEW T, NEW n \in Nat, T \subseteq 0..n, T # {}
  PROVE  Max(T) \in T
BY NatMax DEF Max

----------------------------------------------------------------------------
(* The record of a workflow's run.                                         *)

\* Where a run stands and what its status says of its trail so far.
TrailInv ==
  /\ \A k \in DOMAIN trail :
       trail[k].action = "aborted" => k = Len(trail) /\ next = Len(flow) + 1
  /\ verdict = "aborted" <=> \E k \in DOMAIN trail : trail[k].action = "aborted"
  /\ verdict = "success" <=> \A k \in DOMAIN trail : trail[k].action \notin {"jumped", "aborted"}
  /\ verdict = "success" =>
       next = Len(trail) + 1 /\ \A k \in DOMAIN trail : trail[k].step = k

\* What the run's file holds, and what `workflow status` made of it.
RecordInv ==
  /\ phase \in {"saving", "saved"} => ~(next <= Len(flow) /\ Len(trail) < MaxHops)
  /\ phase = "running" => file = Absent
  /\ phase = "saving" => file = Partial
  /\ phase = "saved" => file = Run
  /\ phase = "unsaved" => file \in {Absent, Partial}
  /\ asked # Absent => phase = "saved" /\ asked = Run

FlowInv == TrailInv /\ RecordInv

\* A step id leads to a step, or to 0 if no step has it.
LEMMA IndexIs ==
  ASSUME FlowTypeOK, NEW id
  PROVE  Index(id) \in 0..Len(flow)
<1>1. PICK I : I = {i \in 1..Len(flow) : flow[i].id = id}
  OBVIOUS
<1>2. Index(id) = IF I # {} THEN Max(I) ELSE 0
  BY <1>1 DEF Index, SelectLastInSeq
<1>3. Len(flow) \in Nat
  BY DEF FlowTypeOK
<1>4. I # {} => Max(I) \in I
  BY <1>1, <1>3, MaxIs
<1>5. QED BY <1>1, <1>2, <1>3, <1>4

\* What a step adds to the trail.
LEMMA TrailGrows ==
  ASSUME FlowTypeOK, Looping, NEW a \in Actions, Recorded(a)
  PROVE  /\ trail' \in Seq([step : 1..Len(flow), action : Actions])
         /\ Len(trail') = Len(trail) + 1 /\ Len(trail) \in Nat /\ Len(flow) \in Nat
         /\ DOMAIN trail' = DOMAIN trail \cup {Len(trail) + 1}
         /\ DOMAIN trail = 1..Len(trail)
         /\ \A k \in DOMAIN trail : trail'[k] = trail[k]
         /\ trail'[Len(trail) + 1] = [step |-> next, action |-> a]
         /\ \A k \in DOMAIN trail : trail[k].action \in Actions
<1>1. next \in 1..Len(flow) /\ Len(flow) \in Nat
  BY DEF FlowTypeOK, Looping
<1>2. PICK R : R = [step : 1..Len(flow), action : Actions]
  OBVIOUS
<1>3. PICK e : e = [step |-> next, action |-> a]
  OBVIOUS
<1>4. e \in R /\ \A r \in R : r.action \in Actions
  BY <1>1, <1>2, <1>3
<1>5. trail \in Seq(R) /\ trail' = Append(trail, e)
  BY <1>2, <1>3 DEF FlowTypeOK, Recorded
<1>6. /\ trail' \in Seq(R) /\ Len(trail') = Len(trail) + 1 /\ Len(trail) \in Nat
      /\ DOMAIN trail' = 1..Len(trail) + 1 /\ DOMAIN trail = 1..Len(trail)
      /\ \A k \in DOMAIN trail : trail'[k] = trail[k] /\ trail[k] \in R
      /\ trail'[Len(trail) + 1] = e
  BY <1>4, <1>5
<1>7. DOMAIN trail' = DOMAIN trail \cup {Len(trail) + 1}
  BY <1>6
<1>8. QED BY <1>1, <1>2, <1>3, <1>4, <1>6, <1>7

\* While steps are taken, none has ended the run.
LEMMA NotAborted ==
  ASSUME FlowTypeOK, TrailInv, Looping
  PROVE  /\ \A k \in DOMAIN trail : trail[k].action # "aborted"
         /\ verdict # "aborted"
<1>1. next \in 1..Len(flow) /\ Len(flow) \in Nat
  BY DEF FlowTypeOK, Looping
<1>2. QED BY <1>1 DEF TrailInv

\* A step of the loop keeps the types and what the trail says: it goes on to
\* the next step, or ends the run, or jumps.
LEMMA LoopStep ==
  ASSUME FlowTypeOK, FlowInv, Looping, NEW a \in Actions, Recorded(a),
         UNCHANGED <<flow, dryRun, phase, file, asked>>,
         \/ a \in {"ok", "skipped", "continued"} /\ next' = next + 1 /\ verdict' = verdict
         \/ a = "aborted" /\ next' = Len(flow) + 1 /\ verdict' = "aborted"
         \/ /\ a = "jumped" /\ next' \in 1..Len(flow)
            /\ verdict' = IF verdict = "success" THEN "failed" ELSE verdict
  PROVE  FlowTypeOK' /\ FlowInv'
<1>t. TrailInv /\ phase = "running" /\ file = Absent /\ asked = Absent
  BY DEF FlowInv, RecordInv, Looping
<1>n. next \in 1..Len(flow) /\ Len(flow) \in Nat
  BY DEF FlowTypeOK, Looping
<1>c. \A k \in DOMAIN trail : trail[k].action # "aborted"
  BY <1>t, NotAborted
<1>v. verdict \in {"success", "failed"}
  BY <1>t, NotAborted DEF FlowTypeOK
<1>g. /\ trail' \in Seq([step : 1..Len(flow), action : Actions])
      /\ Len(trail') = Len(trail) + 1 /\ Len(trail) \in Nat
      /\ DOMAIN trail' = DOMAIN trail \cup {Len(trail) + 1}
      /\ \A k \in DOMAIN trail : trail'[k] = trail[k]
      /\ trail'[Len(trail) + 1].step = next /\ trail'[Len(trail) + 1].action = a
  <2>1. PICK e : e = [step |-> next, action |-> a]
    OBVIOUS
  <2>2. e.step = next /\ e.action = a
    BY <2>1
  <2>3. trail'[Len(trail) + 1] = e
    BY <2>1, TrailGrows
  <2>4. QED BY <2>2, <2>3, TrailGrows
<1>1. next' \in 1..Len(flow) + 1 /\ verdict' \in {"success", "failed", "aborted"}
  BY <1>n, <1>v
<1>2. FlowTypeOK'
  BY <1>t, <1>g, <1>1 DEF FlowTypeOK
<1>3. \A k \in DOMAIN trail' : trail'[k].action = "aborted" =>
        k = Len(trail') /\ next' = Len(flow') + 1
  BY <1>c, <1>g
<1>4. verdict' = "aborted" <=> \E k \in DOMAIN trail' : trail'[k].action = "aborted"
  BY <1>c, <1>g, <1>v
<1>5. verdict' = "success" <=>
        \A k \in DOMAIN trail' : trail'[k].action \notin {"jumped", "aborted"}
  BY <1>t, <1>g, <1>v DEF TrailInv
<1>6. verdict' = "success" =>
        next' = Len(trail') + 1 /\ \A k \in DOMAIN trail' : trail'[k].step = k
  BY <1>t, <1>g, <1>v DEF TrailInv
<1>7. TrailInv'
  BY <1>3, <1>4, <1>5, <1>6 DEF TrailInv
<1>8. RecordInv'
  BY <1>t DEF RecordInv, Absent
<1>9. QED BY <1>2, <1>7, <1>8 DEF FlowInv

\* Every step of a run, and of those who ask about it, keeps the invariant.
LEMMA FlowStep ==
  ASSUME FlowTypeOK, FlowInv, [FlowNext]_flowVars
  PROVE  FlowTypeOK' /\ FlowInv'
<1>1. CASE Proceed
  <2>1. PICK a \in {"ok", "skipped"} : Recorded(a)
    BY <1>1 DEF Proceed
  <2>2. QED BY <1>1, <2>1, LoopStep DEF Proceed, Actions
<1>2. CASE Tolerate
  BY <1>2, LoopStep DEF Tolerate, Failing, Actions
<1>3. CASE Abort
  BY <1>3, LoopStep DEF Abort, Failing, Actions
<1>4. CASE Jump
  <2>1. next' \in 1..Len(flow)
    <3>1. Index(flow[next].onFail) \in 0..Len(flow) /\ Len(flow) \in Nat
      BY IndexIs DEF FlowTypeOK
    <3>2. QED BY <1>4, <3>1 DEF Jump
  <2>2. QED BY <1>4, <2>1, LoopStep DEF Jump, Failing, Actions
<1>5. CASE Save \/ Saved \/ Die
  <2>1. FlowTypeOK'
    BY <1>5 DEF Save, Saved, Die, FlowTypeOK, Run
  <2>2. TrailInv'
    BY <1>5 DEF Save, Saved, Die, FlowInv, TrailInv
  <2>3. RecordInv'
    BY <1>5 DEF Save, Saved, Die, FlowInv, RecordInv, Looping, MaxHops, Run, Absent, Partial
  <2>4. QED BY <2>1, <2>2, <2>3 DEF FlowInv
<1>6. CASE Status
  <2>1. FlowTypeOK'
    BY <1>6 DEF Status, FlowTypeOK, Run
  <2>2. TrailInv'
    BY <1>6 DEF Status, FlowInv, TrailInv
  <2>3. RecordInv'
    BY <1>6 DEF Status, FlowInv, FlowTypeOK, RecordInv, MaxHops, Run, Absent, Partial
  <2>4. QED BY <2>1, <2>2, <2>3 DEF FlowInv
<1>7. CASE UNCHANGED flowVars
  BY <1>7 DEF flowVars, FlowTypeOK, FlowInv, TrailInv, RecordInv, MaxHops, Run
<1>8. QED BY <1>1, <1>2, <1>3, <1>4, <1>5, <1>6, <1>7 DEF FlowNext

\* A run begins with nothing in its trail and nothing in its file.
LEMMA FlowStart == FlowInit => FlowTypeOK /\ FlowInv
<1> SUFFICES ASSUME FlowInit PROVE FlowTypeOK /\ FlowInv
  OBVIOUS
<1>1. PICK n \in 1..MaxSteps : flow \in [1..n -> Steps]
  BY DEF FlowInit
<1>2. n \in Nat
  BY WorkflowAssumption
<1>3. flow \in Seq(Steps) /\ Len(flow) = n
  BY <1>1, <1>2
<1>4. DOMAIN trail = {} /\ Len(trail) = 0 /\ trail \in Seq([step : 1..Len(flow), action : Actions])
  BY DEF FlowInit
<1>5. FlowTypeOK
  BY <1>2, <1>3, <1>4 DEF FlowInit, FlowTypeOK
<1>6. FlowInv
  BY <1>4 DEF FlowInit, FlowInv, TrailInv, RecordInv, Absent
<1>7. QED BY <1>5, <1>6

\* A hop limit of a hop a step or more lets every step run once.
LEMMA HopsAreEnough ==
  ASSUME NEW n \in Nat
  PROVE  n * HopFactor + HopMargin >= n
<1>1. \A f \in Nat \ {0} : n * f >= n
  OBVIOUS
<1>2. PICK p : p = n * HopFactor
  OBVIOUS
<1>3. p \in Nat /\ p >= n
  BY <1>1, <1>2, WorkflowAssumption
<1>4. p + HopMargin >= n
  BY <1>3, WorkflowAssumption
<1>5. QED BY <1>2, <1>4

\* What the status of a finished run says is true: success means that every
\* step ran once, in order, and failed only where the workflow tolerates it; a
\* jump or an abort is never reported as success, nothing runs after an abort,
\* and `workflow status` answers with such a record or not at all
\* (Workflow.Run, SaveRun).
THEOREM StatusesAreTruthful == FlowSpec => []StatusIsTruthful
<1>1. FlowTypeOK /\ FlowInv => StatusIsTruthful
  <2> SUFFICES ASSUME FlowTypeOK, FlowInv PROVE StatusIsTruthful
    OBVIOUS
  <2>t. /\ Len(flow) \in Nat /\ Len(trail) \in Nat /\ next \in 1..Len(flow) + 1
        /\ DOMAIN trail = 1..Len(trail)
    BY DEF FlowTypeOK
  <2>1. ASSUME phase = "saved", verdict = "success"
        PROVE  [k \in DOMAIN trail |-> trail[k].step] = [k \in 1..Len(flow) |-> k]
    <3>1. next = Len(trail) + 1 /\ \A k \in DOMAIN trail : trail[k].step = k
      BY <2>1 DEF FlowInv, TrailInv
    <3>2. ~(next <= Len(flow) /\ Len(trail) < MaxHops)
      BY <2>1 DEF FlowInv, RecordInv
    <3>3. PICK m : m = MaxHops
      OBVIOUS
    <3>4. m \in Nat /\ m >= Len(flow)
      BY <2>t, <3>3, HopsAreEnough, WorkflowAssumption DEF MaxHops
    <3>5. Len(trail) = Len(flow)
      BY <2>t, <3>1, <3>2, <3>3, <3>4
    <3>6. QED BY <2>t, <3>1, <3>5
  <2>2. verdict = "aborted" <=> Did("aborted") # {}
    BY DEF FlowInv, TrailInv, Did
  <2>3. verdict = "success" <=> \A k \in DOMAIN trail : trail[k].action \notin {"jumped", "aborted"}
    BY DEF FlowInv, TrailInv
  <2>4. \A k \in DOMAIN trail : trail[k].action = "aborted" => k = Len(trail)
    BY DEF FlowInv, TrailInv
  <2>5. asked # Absent => phase = "saved" /\ asked = Run
    BY DEF FlowInv, RecordInv
  <2>6. QED BY <2>1, <2>2, <2>3, <2>4, <2>5 DEF StatusIsTruthful
<1>2. QED BY FlowStart, FlowStep, <1>1, PTL DEF FlowSpec

----------------------------------------------------------------------------
(* The choice of a host.                                                   *)

\* The decision is selectRoute's, and stays what it was.
RouteInv ==
  request.at \in {"decided", "run"} =>
    route = IF Missing(Best) # {} \/ Score(Best) < 0 THEN 0 ELSE Best

\* A host's health, and what is known of the host.
LEMMA HealthIs ==
  ASSUME NEW l, l.monitor \in Monitors, l.report.online \in {"yes", "no", "unsaid"},
         l.report.seen \in {"lately", "before", "unsaid"}, l.report.full \in BOOLEAN
  PROVE  /\ HealthOf(l) \in HealthStates
         /\ Down(l) => HealthOf(l) = "offline"
         /\ Strained(l) => HealthOf(l) = "degraded"
         /\ Sure(l) => HealthOf(l) \in {"online", "unknown"}
<1>1. Reported(l.report) \in HealthStates
  BY DEF Reported, HealthStates
<1>2. HealthOf(l) \in HealthStates
  BY <1>1 DEF HealthOf, HealthStates, Monitors
<1>3. Down(l) => HealthOf(l) = "offline"
  BY DEF Down, HealthOf, Reported
<1>4. Strained(l) => HealthOf(l) = "degraded"
  BY DEF Strained, HealthOf, Reported
<1>5. Sure(l) => HealthOf(l) \in {"online", "unknown"}
  BY DEF Sure, Down, Strained, HealthOf, Reported, Monitors
<1>6. QED BY <1>2, <1>3, <1>4, <1>5

\* What can be required of hosts and preferred in them is counted.
LEMMA RequestIs ==
  ASSUME RouteTypeOK
  PROVE  /\ IsFiniteSet(request.of.required) /\ IsFiniteSet(request.of.preferred)
         /\ Cardinality(request.of.required) \in Nat
         /\ Cardinality(request.of.preferred) \in Nat
         /\ request.of.target \in Hosts \cup {0}
<1>1. request.of \in Requests
  BY DEF RouteTypeOK
<1>2. IsFiniteSet(request.of.required) /\ IsFiniteSet(request.of.preferred)
  BY <1>1, RequestAssumption
<1>3. QED BY <1>1, <1>2, RequestAssumption, FS_CardinalityType

\* What a record says of its host is what a report and a monitor can say.
LEMMA ListedIs ==
  ASSUME RouteTypeOK, NEW h \in Hosts
  PROVE  /\ listed[h].monitor \in Monitors
         /\ listed[h].report.online \in {"yes", "no", "unsaid"}
         /\ listed[h].report.seen \in {"lately", "before", "unsaid"}
         /\ listed[h].report.full \in BOOLEAN
<1>1. listed[h].report \in Reports /\ listed[h].monitor \in Monitors
  BY DEF RouteTypeOK
<1>2. QED BY <1>1, ReportAssumption

\* The weight of each state of health.
LEMMA WeightIs ==
  /\ Weight("online") = 20 /\ Weight("unknown") = 0 /\ Weight("stale") = -10
  /\ Weight("degraded") = -50 /\ Weight("offline") = -1000
BY DEF Weight

\* What makes up a score: a capabilities that are there and m that are
\* missing, p preferred tags, the weight w of the host's health, and what is
\* taken off because that is to be avoided, v, or another host is asked for, t.
ScoreParts(h, a, m, p, w, v, t) ==
  /\ Score(h) = 100 * a - 1000 * m + 10 * p + w - v - t
  /\ Missing(h) = {} => m = 0 /\ a = Cardinality(request.of.required)
  /\ Missing(h) # {} => m >= 1
  /\ p = Cardinality(request.of.preferred \cap listed[h].report.tags)
  /\ w = Weight(HealthOf(listed[h]))
  /\ v = 0 <=> HealthOf(listed[h]) \notin request.of.avoid
  /\ t = 0 <=> request.of.target \in {0, h}

\* Every score is made up so.
LEMMA ScoreIs ==
  ASSUME RouteTypeOK, NEW h \in Hosts
  PROVE  \E a \in 0..Cardinality(request.of.required), m \in Nat,
            p \in 0..Cardinality(request.of.preferred), w \in {20, 0, -10, -50, -1000},
            v \in {0, 1000}, t \in {0, 10000} : ScoreParts(h, a, m, p, w, v, t)
<1> DEFINE r == request.of
           R == request.of.required
           A == R \ Missing(h)
           P == request.of.preferred \cap listed[h].report.tags
<1>1. IsFiniteSet(R) /\ IsFiniteSet(r.preferred)
  BY RequestIs
<1>2. A \subseteq R /\ Missing(h) \subseteq R /\ P \subseteq r.preferred
  BY DEF Missing
<1>3. IsFiniteSet(A) /\ Cardinality(A) <= Cardinality(R)
  BY <1>1, <1>2, FS_Subset
<1>4. IsFiniteSet(P) /\ Cardinality(P) <= Cardinality(r.preferred)
  BY <1>1, <1>2, FS_Subset
<1>5. IsFiniteSet(Missing(h))
  BY <1>1, <1>2, FS_Subset
<1>6. /\ Cardinality(A) \in Nat /\ Cardinality(P) \in Nat /\ Cardinality(Missing(h)) \in Nat
      /\ Cardinality(R) \in Nat /\ Cardinality(r.preferred) \in Nat
  BY <1>1, <1>3, <1>4, <1>5, FS_CardinalityType
<1>7. Missing(h) = {} <=> Cardinality(Missing(h)) = 0
  BY <1>5, FS_EmptySet
<1>8. Missing(h) = {} => A = R
  OBVIOUS
<1>9. Missing(h) = {} => Cardinality(Missing(h)) = 0 /\ Cardinality(A) = Cardinality(R)
  BY <1>7, <1>8
<1>10. Missing(h) # {} => Cardinality(Missing(h)) >= 1
  BY <1>6, <1>7
<1>11. PICK w : w = Weight(HealthOf(listed[h]))
  OBVIOUS
<1>12. w \in {20, 0, -10, -50, -1000}
  <2>1. HealthOf(listed[h]) \in HealthStates
    BY ListedIs, HealthIs
  <2>2. QED BY <1>11, <2>1, WeightIs DEF HealthStates
<1>13. PICK v : v = IF HealthOf(listed[h]) \in r.avoid THEN 1000 ELSE 0
  OBVIOUS
<1>14. PICK t : t = IF r.target \notin {0, h} THEN 10000 ELSE 0
  OBVIOUS
<1>15. Score(h) = 100 * Cardinality(A) - 1000 * Cardinality(Missing(h)) + 10 * Cardinality(P)
                  + w - v - t
  BY <1>11, <1>13, <1>14 DEF Score
<1>16. ScoreParts(h, Cardinality(A), Cardinality(Missing(h)), Cardinality(P), w, v, t)
  BY <1>9, <1>10, <1>11, <1>13, <1>14, <1>15 DEF ScoreParts
<1>17. Cardinality(A) \in 0..Cardinality(R) /\ Cardinality(P) \in 0..Cardinality(r.preferred)
  BY <1>3, <1>4, <1>6
<1>18. v \in {0, 1000} /\ t \in {0, 10000}
  BY <1>13, <1>14
<1>19. QED BY <1>6, <1>12, <1>16, <1>17, <1>18

\* Scores are numbers, and bounded.
LEMMA ScoreBounded ==
  ASSUME RouteTypeOK, NEW h \in Hosts
  PROVE  /\ Score(h) \in Int
         /\ Score(h) <= 100 * Cardinality(request.of.required)
                        + 10 * Cardinality(request.of.preferred) + 20
<1>1. PICK R \in Nat, P \in Nat :
        R = Cardinality(request.of.required) /\ P = Cardinality(request.of.preferred)
  BY RequestIs
<1>2. PICK a \in 0..R, m \in Nat, p \in 0..P, w \in {20, 0, -10, -50, -1000},
           v \in {0, 1000}, t \in {0, 10000} : ScoreParts(h, a, m, p, w, v, t)
  BY <1>1, ScoreIs
<1>3. Score(h) = 100 * a - 1000 * m + 10 * p + w - v - t
  BY <1>2 DEF ScoreParts
<1>4. QED BY <1>1, <1>2, <1>3

\* Of finitely many hosts one has the highest score, and Best is such a host.
LEMMA BestIs ==
  ASSUME RouteTypeOK
  PROVE  Best \in Hosts /\ \A g \in Hosts : Score(g) <= Score(Best)
<1>1. PICK B \in Int : \A h \in Hosts : Score(h) \in Int /\ Score(h) <= B
  <2>1. 100 * Cardinality(request.of.required) + 10 * Cardinality(request.of.preferred) + 20 \in Int
    BY RequestIs
  <2>2. QED BY <2>1, ScoreBounded
<1>2. PICK D : D = {B - Score(h) : h \in Hosts}
  OBVIOUS
<1>3. \A h \in Hosts : B - Score(h) \in Nat
  BY <1>1
<1>4. D \subseteq Nat
  BY <1>2, <1>3
<1>5. 1 \in Hosts /\ Hosts \subseteq Nat
  BY HostAssumption DEF Hosts
<1>6. D # {}
  BY <1>2, <1>5
<1>7. PICK d \in D : \A e \in D : d <= e
  BY <1>4, <1>6, NatMin
<1>8. PICK h \in Hosts : d = B - Score(h)
  BY <1>2
<1>9. \A g \in Hosts : B - Score(h) <= B - Score(g)
  BY <1>2, <1>7, <1>8
<1>10. \A g \in Hosts : Score(g) <= Score(h)
  BY <1>1, <1>9
<1>11. PICK T : T = {x \in Hosts : \A g \in Hosts : Score(g) <= Score(x)}
  OBVIOUS
<1>12. h \in T /\ T \subseteq Nat
  BY <1>5, <1>10, <1>11
<1>13. Best \in T
  BY <1>11, <1>12, MinIs DEF Best
<1>14. QED BY <1>11, <1>13

\* Hosts and requests that stay the same are scored the same.
LEMMA SameBest ==
  ASSUME request'.of = request.of, listed' = listed
  PROVE  /\ Best' = Best
         /\ Missing(Best)' = Missing(Best)
         /\ Score(Best)' = Score(Best)
<1>1. \A h : Missing(h)' = Missing(h)
  BY DEF Missing
<1>2. \A h : Score(h)' = Score(h)
  BY <1>1 DEF Score
<1>3. Best' = Best
  BY <1>2 DEF Best
<1>4. QED BY <1>1, <1>2, <1>3

\* Every step keeps the types and the decision.
LEMMA RouteStep ==
  ASSUME RouteTypeOK, RouteInv, [RouteNext]_routeVars
  PROVE  RouteTypeOK' /\ RouteInv'
<1>1. CASE Ask
  BY <1>1 DEF Ask, RouteTypeOK, RouteInv
<1>2. ASSUME NEW h \in Hosts, ListHost(h) PROVE RouteTypeOK' /\ RouteInv'
  <2>1. PICK r \in Reports, m \in Monitors :
          listed' = [listed EXCEPT ![h] = [report |-> r, monitor |-> m, is |-> TRUE]]
    BY <1>2 DEF ListHost, Monitors
  <2>2. listed' \in [Hosts -> [report : Reports, monitor : Monitors, is : BOOLEAN]]
    BY <2>1 DEF RouteTypeOK
  <2>3. /\ request' \in [at : {"none", "listing", "listed", "decided", "run"}, of : Requests]
        /\ request'.at \in {"listing", "listed"}
    BY <1>2 DEF ListHost, RouteTypeOK
  <2>4. QED BY <1>2, <2>2, <2>3 DEF ListHost, RouteTypeOK, RouteInv
<1>3. CASE SelectRoute
  <2>1. Best \in Hosts
    BY BestIs
  <2>2. /\ request' \in [at : {"none", "listing", "listed", "decided", "run"}, of : Requests]
        /\ request'.of = request.of /\ listed' = listed
    BY <1>3 DEF SelectRoute, RouteTypeOK
  <2>3. RouteTypeOK'
    BY <1>3, <2>1, <2>2 DEF SelectRoute, RouteTypeOK
  <2>4. RouteInv'
    BY <1>3, <2>2, SameBest DEF SelectRoute, RouteInv
  <2>5. QED BY <2>3, <2>4
<1>4. CASE ExecRouted
  <2>1. /\ request' \in [at : {"none", "listing", "listed", "decided", "run"}, of : Requests]
        /\ request'.of = request.of /\ listed' = listed /\ request.at = "decided"
    BY <1>4 DEF ExecRouted, RouteTypeOK
  <2>2. RouteTypeOK'
    BY <1>4, <2>1 DEF ExecRouted, RouteTypeOK
  <2>3. RouteInv'
    BY <1>4, <2>1, SameBest DEF ExecRouted, RouteInv
  <2>4. QED BY <2>2, <2>3
<1>5. CASE UNCHANGED routeVars
  <2>1. request'.of = request.of /\ UNCHANGED <<request, listed, route>>
    BY <1>5 DEF routeVars
  <2>2. QED BY <2>1, SameBest DEF RouteTypeOK, RouteInv
<1>6. QED BY <1>1, <1>2, <1>3, <1>4, <1>5 DEF RouteNext

\* No host is listed and nothing is asked for.
LEMMA RouteStart == RouteInit => RouteTypeOK /\ RouteInv
<1> SUFFICES ASSUME RouteInit PROVE RouteTypeOK /\ RouteInv
  OBVIOUS
<1>1. (CHOOSE r \in Requests : TRUE) \in Requests
  BY RequestAssumption
<1>2. (CHOOSE r \in Reports : TRUE) \in Reports
  BY ReportAssumption
<1>3. NotListed \in [report : Reports, monitor : Monitors, is : BOOLEAN]
  BY <1>2 DEF NotListed, Monitors
<1>4. QED BY <1>1, <1>3 DEF RouteInit, RouteTypeOK, RouteInv

\* The host chosen meets every constraint of a modest request, and among hosts
\* as healthy none has more of the preferred tags.
LEMMA ChosenServes ==
  ASSUME RouteTypeOK, Modest, Missing(Best) = {}, Score(Best) >= 0
  PROVE  /\ Qualified(Best) /\ HealthOf(listed[Best]) \notin request.of.avoid
         /\ \A h \in Hosts : Qualified(h) /\ HealthOf(listed[h]) = HealthOf(listed[Best]) =>
              Cardinality(request.of.preferred \cap listed[h].report.tags)
                <= Cardinality(request.of.preferred \cap listed[Best].report.tags)
<1>b. Best \in Hosts /\ \A g \in Hosts : Score(g) <= Score(Best)
  BY BestIs
<1>1. PICK R \in Nat, P \in Nat :
        R = Cardinality(request.of.required) /\ P = Cardinality(request.of.preferred)
  BY RequestIs
<1>2. 100 * R + 10 * P + 20 < 1000
  BY <1>1 DEF Modest
<1>3. PICK a \in 0..R, m \in Nat, p \in 0..P, w \in {20, 0, -10, -50, -1000},
           v \in {0, 1000}, t \in {0, 10000} : ScoreParts(Best, a, m, p, w, v, t)
  BY <1>b, <1>1, ScoreIs
<1>4. Score(Best) = 100 * R + 10 * p + w - v - t
  BY <1>1, <1>3 DEF ScoreParts
<1>5. v = 0 /\ t = 0 /\ w # -1000
  BY <1>2, <1>3, <1>4
<1>6. HealthOf(listed[Best]) \notin request.of.avoid /\ request.of.target \in {0, Best}
  BY <1>3, <1>5 DEF ScoreParts
<1>7. HealthOf(listed[Best]) # "offline"
  BY <1>3, <1>5, WeightIs DEF ScoreParts
<1>8. ~Down(listed[Best]) /\ (Strained(listed[Best]) => "degraded" \notin request.of.avoid)
  BY <1>b, <1>6, <1>7, ListedIs, HealthIs
<1>9. ASSUME NEW h \in Hosts, Qualified(h), HealthOf(listed[h]) = HealthOf(listed[Best])
      PROVE  Cardinality(request.of.preferred \cap listed[h].report.tags)
               <= Cardinality(request.of.preferred \cap listed[Best].report.tags)
  <2>1. PICK b \in 0..R, n \in Nat, q \in 0..P, x \in {20, 0, -10, -50, -1000},
             y \in {0, 1000}, z \in {0, 10000} : ScoreParts(h, b, n, q, x, y, z)
    BY <1>1, ScoreIs
  <2>2. x = w /\ y = 0
    BY <1>3, <1>6, <1>9, <2>1 DEF ScoreParts
  <2>3. Missing(h) = {} /\ request.of.target \in {0, h}
    BY <1>9 DEF Qualified
  <2>4. n = 0 /\ b = R /\ z = 0
    BY <1>1, <2>1, <2>3 DEF ScoreParts
  <2>5. Score(h) = 100 * R + 10 * q + w
    BY <2>1, <2>2, <2>4 DEF ScoreParts
  <2>6. q <= p
    BY <1>b, <1>3, <1>4, <1>5, <2>1, <2>5
  <2>7. QED BY <1>3, <2>1, <2>6 DEF ScoreParts
<1>10. QED BY <1>6, <1>8, <1>9 DEF Qualified

\* If not even the best host will do, no host meets the constraints without
\* doubt.
LEMMA NoneServes ==
  ASSUME RouteTypeOK, Modest, Missing(Best) # {} \/ Score(Best) < 0,
         NEW h \in Hosts, Qualified(h), Sure(listed[h])
  PROVE  HealthOf(listed[h]) \in request.of.avoid
<1> SUFFICES ASSUME HealthOf(listed[h]) \notin request.of.avoid PROVE FALSE
  OBVIOUS
<1>b. Best \in Hosts /\ Score(h) <= Score(Best)
  BY BestIs
<1>1. PICK R \in Nat, P \in Nat :
        R = Cardinality(request.of.required) /\ P = Cardinality(request.of.preferred)
  BY RequestIs
<1>2. 100 * R + 10 * P + 20 < 1000
  BY <1>1 DEF Modest
<1>3. PICK b \in 0..R, n \in Nat, q \in 0..P, x \in {20, 0, -10, -50, -1000},
           y \in {0, 1000}, z \in {0, 10000} : ScoreParts(h, b, n, q, x, y, z)
  BY <1>1, ScoreIs
<1>4. x \in {20, 0}
  BY <1>3, ListedIs, HealthIs, WeightIs DEF ScoreParts
<1>5. n = 0 /\ y = 0 /\ z = 0
  BY <1>3 DEF ScoreParts, Qualified
<1>6. Score(h) = 100 * b + 10 * q + x
  BY <1>3, <1>5 DEF ScoreParts
<1>7. Score(h) \in Int /\ Score(h) >= 0
  BY <1>3, <1>4, <1>6
<1>8. PICK a \in 0..R, m \in Nat, p \in 0..P, w \in {20, 0, -10, -50, -1000},
           v \in {0, 1000}, t \in {0, 10000} : ScoreParts(Best, a, m, p, w, v, t)
  BY <1>b, <1>1, ScoreIs
<1>9. Score(Best) = 100 * a - 1000 * m + 10 * p + w - v - t
  BY <1>8 DEF ScoreParts
<1>10. Score(Best) \in Int /\ Score(Best) >= 0
  BY <1>b, <1>7, <1>8, <1>9
<1>11. Missing(Best) # {}
  BY <1>10
<1>12. m >= 1
  BY <1>8, <1>11 DEF ScoreParts
<1>13. QED BY <1>2, <1>8, <1>9, <1>10, <1>12

\* The sums of weights decide as the constraints do, for every modest request,
\* any number of hosts and whatever is reported of them: the host chosen meets
\* the constraints and is preferred to others as healthy, and a host that
\* meets them without doubt is not passed over (selectRoute).
THEOREM ChoicesServe == RouteSpec => []RouteServes
<1>1. RouteTypeOK /\ RouteInv => RouteServes
  <2> SUFFICES ASSUME RouteTypeOK, RouteInv, request.at \in {"decided", "run"}, Modest
               PROVE  IF route = 0
                      THEN \A h \in Hosts : Qualified(h) /\ Sure(listed[h]) =>
                             HealthOf(listed[h]) \in request.of.avoid
                      ELSE /\ Qualified(route) /\ HealthOf(listed[route]) \notin request.of.avoid
                           /\ \A h \in Hosts :
                                Qualified(h) /\ HealthOf(listed[h]) = HealthOf(listed[route]) =>
                                  Cardinality(request.of.preferred \cap listed[h].report.tags)
                                    <= Cardinality(request.of.preferred \cap listed[route].report.tags)
    BY DEF RouteServes
  <2>1. Best \in Hosts /\ Score(Best) \in Int /\ 0 \notin Hosts
    BY BestIs, ScoreBounded DEF Hosts
  <2>2. CASE Missing(Best) # {} \/ Score(Best) < 0
    <3>1. route = 0
      BY <2>2 DEF RouteInv
    <3>2. QED BY <2>2, <3>1, NoneServes
  <2>3. CASE Missing(Best) = {} /\ Score(Best) >= 0
    <3>1. route = Best /\ route # 0
      BY <2>1, <2>3 DEF RouteInv
    <3>2. QED BY <2>3, <3>1, ChosenServes
  <2>4. QED BY <2>1, <2>2, <2>3
<1>2. QED BY RouteStart, RouteStep, <1>1, PTL DEF RouteSpec

----------------------------------------------------------------------------
(* vssh run-async.                                                         *)

\* A call for a job's status, or its logs, is about a job there is, and what
\* it answers of a finished job stays true.
StatusOf(w) ==
  rpc[w].op \in {"status", "logs"} =>
    /\ status[rpc[w].job] # "none"
    /\ rpc[w].at = "done" => rpc[w].info # "none"
    /\ rpc[w].at \in {"out", "err"} => rpc[w].op = "logs" /\ rpc[w].info # "none"
    /\ rpc[w].at \in {"out", "err", "done"} /\ rpc[w].info \in Verdicts =>
         status[rpc[w].job] = rpc[w].info

StatusInv == \A w \in Clients : StatusOf(w)

\* The result kept is the job's verdict.
Inline ==
  /\ result \in [kind : {"inline"}, status : Verdicts, logs : [Streams -> Nat], lost : BOOLEAN]
  /\ result.status = status[async.job]

\* Where the command stands, the call it waits for and the result it keeps.
AsyncInv ==
  /\ way # "async" => async.at = "start"
  /\ async.at \notin {"start", "end"} => async.job \in Jobs /\ status[async.job] # "none"
  /\ async.at = "polling" => rpc[Me].op = "status" /\ rpc[Me].job = async.job
  /\ async.at = "fetching" =>
       /\ rpc[Me].op = "logs" /\ rpc[Me].job = async.job
       /\ rpc[Me].at \in {"out", "err", "done"} => rpc[Me].info \in Verdicts
  /\ async.at \in {"fetch", "fetching"} => Inline /\ ~result.lost
  /\ async.at = "end" /\ result.kind = "inline" =>
       async.job \in Jobs /\ Inline /\ (~result.lost => result.logs = written[async.job])

\* A call that is not idle is one about a job.
LEMMA CallIs ==
  ASSUME TypeOK, NEW w \in Clients, rpc[w].op # "none"
  PROVE  rpc[w] \in RPCs /\ rpc[w].job \in Jobs /\ status[rpc[w].job] \in Statuses
<1>1. rpc[w] \in RPCs
  BY DEF TypeOK, Idle
<1>2. rpc[w].job \in Jobs
  BY <1>1 DEF RPCs
<1>3. QED BY <1>1, <1>2 DEF TypeOK

\* What was answered stays true while the call is not continued.
LEMMA StatusWaits ==
  ASSUME TypeOK, JobInv, [Next]_vars, NEW w \in Clients, StatusOf(w), rpc'[w] = rpc[w]
  PROVE  StatusOf(w)'
<1>1. CASE rpc[w].op \notin {"status", "logs"}
  BY <1>1 DEF StatusOf
<1>2. CASE rpc[w].op \in {"status", "logs"}
  <2>1. JobMoves(rpc[w].job)
    BY <1>2, CallIs, JobMovesStep
  <2>2. QED BY <1>2, <2>1 DEF JobMoves, StatusOf
<1>3. QED BY <1>1, <1>2

\* Every step keeps what the calls for a status say.
LEMMA StatusStep ==
  ASSUME TypeOK, JobInv, StatusInv, [Next]_vars
  PROVE  StatusInv'
<1>r. rpc \in [Clients -> RPCs \cup {Idle}] /\ status \in [Jobs -> Statuses]
  BY DEF TypeOK
<1>0. ASSUME NEW w \in Clients, NEW r, rpc' = [rpc EXCEPT ![w] = r], StatusOf(w)'
      PROVE  StatusInv'
  <2>1. \A v \in Clients \ {w} : rpc'[v] = rpc[v]
    BY <1>r, <1>0
  <2>2. QED BY <1>0, <2>1, StatusWaits DEF StatusInv
<1>1. ASSUME NEW w \in Clients, NEW op \in {"start", "status", "logs", "cancel"},
             NEW j \in Jobs, NEW at \in {"check", "snapshot"}, Begin(w, op, j, at),
             status'[j] # "none"
      PROVE  StatusInv'
  <2>1. PICK r : r = [op |-> op, job |-> j, at |-> at, seen |-> "none",
                      info |-> "none", logs |-> Silent]
    OBVIOUS
  <2>2. r.op = op /\ r.job = j /\ r.at = at
    BY <2>1
  <2>3. rpc' = [rpc EXCEPT ![w] = r] /\ rpc'[w] = r
    BY <1>r, <1>1, <2>1 DEF Begin
  <2>4. StatusOf(w)'
    BY <1>1, <2>2, <2>3 DEF StatusOf
  <2>5. QED BY <2>3, <2>4, <1>0
<1>2. ASSUME NEW w \in Clients, CancelCheck(w) \/ CancelAct(w) PROVE StatusInv'
  <2>1. rpc[w].at \in {"check", "cancel"}
    BY <1>2 DEF CancelCheck, CancelAct, At
  <2>2. rpc[w] \in RPCs
    BY <2>1, CallType
  <2>3. PICK r : rpc' = [rpc EXCEPT ![w] = r] /\ r.op = rpc[w].op /\ r.job = rpc[w].job
                 /\ r.at \in {"cancel", "snapshot"}
    <3>1. CASE CancelCheck(w)
      <4>1. PICK r : r = [rpc[w] EXCEPT !.seen = status[rpc[w].job], !.at = "cancel"]
        OBVIOUS
      <4>2. r.op = rpc[w].op /\ r.job = rpc[w].job /\ r.at = "cancel"
        BY <2>2, <4>1 DEF RPCs
      <4>3. rpc' = [rpc EXCEPT ![w] = r]
        BY <1>r, <3>1, <4>1 DEF CancelCheck
      <4>4. QED BY <4>2, <4>3
    <3>2. CASE CancelAct(w)
      <4>1. PICK r : r = [rpc[w] EXCEPT !.at = "snapshot"]
        OBVIOUS
      <4>2. r.op = rpc[w].op /\ r.job = rpc[w].job /\ r.at = "snapshot"
        BY <2>2, <4>1 DEF RPCs
      <4>3. rpc' = [rpc EXCEPT ![w] = r]
        BY <1>r, <3>2, <4>1 DEF CancelAct
      <4>4. QED BY <4>2, <4>3
    <3>3. QED BY <1>2, <3>1, <3>2
  <2>4. rpc'[w] = r /\ status' = status
    BY <1>r, <1>2, <2>3 DEF CancelCheck, CancelAct
  <2>5. StatusOf(w)'
    BY <2>3, <2>4 DEF StatusInv, StatusOf
  <2>6. QED BY <2>3, <2>5, <1>0
<1>4. ASSUME NEW w \in Clients, Snapshot(w) PROVE StatusInv'
  <2> DEFINE at == IF rpc[w].op = "logs" THEN "out" ELSE "done"
  <2>1. rpc[w] \in RPCs /\ rpc[w].job \in Jobs
    BY <1>4, CallType DEF Snapshot, At
  <2>2. PICK r : r = [rpc[w] EXCEPT !.info = status[rpc[w].job], !.at = at]
    OBVIOUS
  <2>3. r.at = at /\ r.op = rpc[w].op /\ r.job = rpc[w].job /\ r.info = status[rpc[w].job]
    BY <2>1, <2>2 DEF RPCs
  <2>4. rpc' = [rpc EXCEPT ![w] = r] /\ rpc'[w] = r /\ status' = status
    BY <1>r, <1>4, <2>2 DEF Snapshot
  <2>5. StatusOf(w)'
    BY <2>3, <2>4 DEF StatusInv, StatusOf
  <2>6. QED BY <2>4, <2>5, <1>0
<1>5. ASSUME NEW w \in Clients, NEW s \in Streams, ReadLog(w, s) PROVE StatusInv'
  <2> DEFINE at == IF s = "out" THEN "err" ELSE "done"
  <2>1. rpc[w] \in RPCs /\ rpc[w].job \in Jobs /\ rpc[w].at \in {"out", "err"}
    BY <1>5, CallType DEF ReadLog, At, Streams
  <2>2. PICK r : r = [rpc[w] EXCEPT !.logs[s] = buffered[rpc[w].job][s], !.at = at]
    OBVIOUS
  <2>3. r.at = at /\ r.op = rpc[w].op /\ r.job = rpc[w].job /\ r.info = rpc[w].info
    BY <2>1, <2>2 DEF RPCs
  <2>4. rpc' = [rpc EXCEPT ![w] = r] /\ rpc'[w] = r /\ status' = status
    BY <1>r, <1>5, <2>2 DEF ReadLog
  <2>5. StatusOf(w)'
    BY <2>1, <2>3, <2>4 DEF StatusInv, StatusOf
  <2>6. QED BY <2>4, <2>5, <1>0
<1>6. ASSUME UNCHANGED rpc PROVE StatusInv'
  BY <1>6, StatusWaits DEF StatusInv
<1>7. ASSUME NEW w \in Clients, NEW j \in Jobs, JobStart(w, j) PROVE StatusInv'
  <2>1. status'[j] # "none"
    BY <1>r, <1>7 DEF JobStart
  <2>2. QED BY <1>7, <2>1, <1>1 DEF JobStart
<1>8. ASSUME NEW w \in Clients, NEW op \in {"status", "logs", "cancel"}, NEW j \in Jobs,
             Query(w, op, j)
      PROVE  StatusInv'
  BY <1>8, <1>1 DEF Query
<1>9. QED
  BY <1>2, <1>4, <1>5, <1>6, <1>7, <1>8
     DEF Next, Runtime, Command, Caller, RunStarts, Kill, RunReturns, Record, Copy, Fork,
         DescendantsExit, ShellExits, Write, vars

\* The command takes the daemon's steps, or none of them.
LEMMA WorkIsJobs ==
  ASSUME AsyncInv, MCNext
  PROVE  [Next]_vars
<1>1. ASSUME NEW j \in Jobs, StartJob(j) PROVE Next
  BY <1>1, AsyncAssumption DEF StartJob, Next, Caller
<1>2. ASSUME Poll \/ FetchLogs PROVE Next
  <2>1. PICK op \in {"status", "logs"} : Query(Me, op, async.job)
    BY <1>2 DEF Poll, FetchLogs
  <2>2. async.job \in Jobs
    BY <1>2 DEF AsyncInv, Poll, FetchLogs
  <2>3. QED BY <2>1, <2>2, AsyncAssumption DEF Next, Caller
<1>3. ASSUME AsyncStep PROVE [Next]_vars
  BY <1>1, <1>2, <1>3 DEF AsyncStep, Started, Polled, Fetched, Promote, CallFails
<1>4. ASSUME AsyncNext PROVE [Next]_vars
  BY <1>3, <1>4, AsyncAssumption DEF AsyncNext, Next, Caller
<1>5. QED BY <1>4 DEF MCNext

\* While the command waits, what it knows of its job stays true, and so does
\* what it knows of its call if the call stays the same call.
LEMMA AsyncWaits ==
  ASSUME TypeOK, JobInv, AsyncTypeOK, AsyncInv, [Next]_vars, UNCHANGED asyncVars, way' = way,
         async.at \in {"polling", "fetching"} =>
           /\ rpc'[Me].op = rpc[Me].op /\ rpc'[Me].job = rpc[Me].job
           /\ rpc'[Me].at \in {"out", "err", "done"} =>
                rpc[Me].op = "status" \/ rpc'[Me].info \in Verdicts
  PROVE  AsyncInv'
<1>0. async' = async /\ result' = result
  BY DEF asyncVars
<1>1. async.job \in Jobs => JobMoves(async.job)
  BY JobMovesStep
<1>2. Inline /\ async.job \in Jobs => Inline'
  BY <1>0, <1>1 DEF Inline, JobMoves
<1>3. Inline => status[async.job] \in Verdicts
  BY DEF Inline
<1>4. Inline /\ async.job \in Jobs => written'[async.job] = written[async.job]
  BY <1>1, <1>3 DEF JobMoves
<1>5. async.job \in Jobs /\ status[async.job] # "none" => status'[async.job] # "none"
  BY <1>1 DEF JobMoves
<1>6. QED BY <1>0, <1>2, <1>4, <1>5 DEF AsyncInv

\* A step of the daemon, or of another caller, leaves the command's call
\* alone, or carries it on.
LEMMA DaemonStep ==
  ASSUME TypeOK, JobInv, StatusInv, AsyncTypeOK, AsyncInv, [Next]_vars, UNCHANGED asyncVars,
         way' = way,
         \/ rpc'[Me] = rpc[Me]
         \/ Snapshot(Me) \/ \E s \in Streams : ReadLog(Me, s)
  PROVE  AsyncInv'
<1>r. rpc \in [Clients -> RPCs \cup {Idle}] /\ Me \in Clients
  BY AsyncAssumption DEF TypeOK
<1>1. CASE rpc'[Me] = rpc[Me]
  BY <1>1, AsyncWaits DEF AsyncInv
<1>2. CASE Snapshot(Me)
  <2> DEFINE at == IF rpc[Me].op = "logs" THEN "out" ELSE "done"
  <2>1. rpc[Me] \in RPCs
    BY <1>2, CallType, AsyncAssumption DEF Snapshot, At
  <2>2. PICK r : r = [rpc[Me] EXCEPT !.info = status[rpc[Me].job], !.at = at]
    OBVIOUS
  <2>3. r.op = rpc[Me].op /\ r.job = rpc[Me].job /\ r.info = status[rpc[Me].job]
    BY <2>1, <2>2 DEF RPCs
  <2>4. rpc'[Me] = r
    BY <1>r, <1>2, <2>2 DEF Snapshot
  <2>5. async.at = "fetching" => status[rpc[Me].job] \in Verdicts
    BY DEF AsyncInv, Inline
  <2>6. QED BY <2>3, <2>4, <2>5, AsyncWaits DEF AsyncInv
<1>3. ASSUME NEW s \in Streams, ReadLog(Me, s) PROVE AsyncInv'
  <2> DEFINE at == IF s = "out" THEN "err" ELSE "done"
  <2>1. rpc[Me] \in RPCs /\ rpc[Me].at \in {"out", "err"}
    BY <1>3, CallType, AsyncAssumption DEF ReadLog, At, Streams
  <2>2. PICK r : r = [rpc[Me] EXCEPT !.logs[s] = buffered[rpc[Me].job][s], !.at = at]
    OBVIOUS
  <2>3. r.op = rpc[Me].op /\ r.job = rpc[Me].job /\ r.info = rpc[Me].info
    BY <2>1, <2>2 DEF RPCs
  <2>4. rpc'[Me] = r
    BY <1>r, <1>3, <2>2 DEF ReadLog
  <2>5. QED BY <2>1, <2>3, <2>4, AsyncWaits DEF AsyncInv
<1>4. QED BY <1>1, <1>2, <1>3

\* The steps of the command itself.
LEMMA CommandStep ==
  ASSUME TypeOK, JobInv, RepliesInv, StatusInv, AsyncTypeOK, AsyncInv, way = "async", way' = way,
         AsyncStep
  PROVE  AsyncTypeOK' /\ AsyncInv'
<1>t. /\ async \in [at : {"start", "starting", "poll", "polling", "fetch", "fetching", "end"},
                    job : Jobs \cup {"none"}]
      /\ rpc \in [Clients -> RPCs \cup {Idle}] /\ status \in [Jobs -> Statuses]
      /\ Me \in Clients
  BY AsyncAssumption DEF AsyncTypeOK, TypeOK
<1>s. ASSUME NEW at \in {"start", "starting", "poll", "polling", "fetch", "fetching", "end"},
             Step(at)
      PROVE  /\ async' \in [at : {"start", "starting", "poll", "polling", "fetch", "fetching", "end"},
                            job : Jobs \cup {"none"}]
             /\ async'.at = at /\ async'.job = async.job
  BY <1>t, <1>s DEF Step
<1>1. ASSUME NEW j \in Jobs, StartJob(j) PROVE AsyncTypeOK' /\ AsyncInv'
  <2>1. async' = [at |-> "starting", job |-> j] /\ lost' = lost /\ result' = result
    BY <1>1 DEF StartJob
  <2>2. status'[j] # "none"
    BY <1>t, <1>1 DEF StartJob, JobStart
  <2>3. async'.at = "starting" /\ async'.job = j
    BY <2>1
  <2>4. AsyncTypeOK'
    BY <2>1 DEF AsyncTypeOK
  <2>5. AsyncInv'
    BY <2>2, <2>3 DEF AsyncInv
  <2>6. QED BY <2>4, <2>5
<1>2. CASE Started
  <2>1. async'.at = "poll" /\ async'.job = async.job /\ AsyncTypeOK'
    BY <1>2, <1>s DEF Started, AsyncTypeOK
  <2>2. AsyncInv'
    BY <1>2, <2>1 DEF Started, AsyncInv, vars
  <2>3. QED BY <2>1, <2>2
<1>3. ASSUME NEW op \in {"status", "logs"},
             NEW at \in {"polling", "fetching"}, op = "status" <=> at = "polling",
             async.at = (IF at = "polling" THEN "poll" ELSE "fetch"),
             Query(Me, op, async.job), Step(at), UNCHANGED <<lost, result>>
      PROVE  AsyncTypeOK' /\ AsyncInv'
  <2>1. async'.at = at /\ async'.job = async.job /\ AsyncTypeOK'
    BY <1>3, <1>s DEF AsyncTypeOK
  <2>2. PICK r : r = [op |-> op, job |-> async.job, at |-> "snapshot", seen |-> "none",
                      info |-> "none", logs |-> Silent]
    OBVIOUS
  <2>3. rpc'[Me] = r /\ status' = status
    BY <1>t, <1>3, <2>2 DEF Query, Begin
  <2>4. rpc'[Me].op = op /\ rpc'[Me].job = async.job /\ rpc'[Me].at = "snapshot"
    BY <2>2, <2>3
  <2>5. AsyncInv'
    BY <1>3, <2>1, <2>3, <2>4 DEF AsyncInv, Inline
  <2>6. QED BY <2>1, <2>5
<1>4. CASE Poll
  BY <1>4, <1>3 DEF Poll
<1>5. CASE FetchLogs
  BY <1>5, <1>3 DEF FetchLogs
<1>6. CASE Polled
  <2>1. /\ rpc[Me].at = "done" /\ rpc[Me].op = "status" /\ rpc[Me].job = async.job
        /\ async.job \in Jobs /\ status[async.job] # "none"
    BY <1>6 DEF Polled, Answered, AsyncInv
  <2>2. rpc[Me] \in RPCs
    BY <1>t, <2>1, CallIs
  <2>3. /\ rpc[Me].info \in Statuses /\ rpc[Me].info # "none"
        /\ rpc[Me].info \in Verdicts => status[async.job] = rpc[Me].info
    BY <1>t, <2>1, <2>2 DEF RPCs, StatusInv, StatusOf
  <2>4. CASE rpc[Me].info = "running"
    <3>1. async'.at = "poll" /\ async'.job = async.job /\ AsyncTypeOK'
      BY <1>6, <2>4, <1>s DEF Polled, AsyncTypeOK
    <3>2. AsyncInv'
      BY <1>6, <2>1, <3>1 DEF Polled, AsyncInv, vars
    <3>3. QED BY <3>1, <3>2
  <2>5. CASE rpc[Me].info # "running"
    <3>1. rpc[Me].info \in Verdicts
      BY <2>3, <2>5 DEF Statuses
    <3>2. PICK r : r = [kind |-> "inline", status |-> rpc[Me].info, logs |-> Silent, lost |-> FALSE]
      OBVIOUS
    <3>3. /\ r \in [kind : {"inline"}, status : Verdicts, logs : [Streams -> Nat], lost : BOOLEAN]
          /\ r.status = rpc[Me].info /\ r.lost = FALSE
      BY <3>1, <3>2 DEF Silent
    <3>4. Step("fetch") /\ result' = r /\ lost' = lost /\ UNCHANGED vars
      BY <1>6, <2>5, <3>2 DEF Polled
    <3>5. async'.at = "fetch" /\ async'.job = async.job /\ AsyncTypeOK'
      BY <3>3, <3>4, <1>s DEF AsyncTypeOK
    <3>6. status' = status
      BY <3>4 DEF vars
    <3>7. Inline' /\ ~result'.lost
      BY <2>3, <3>1, <3>3, <3>4, <3>5, <3>6 DEF Inline
    <3>8. AsyncInv'
      BY <2>1, <3>5, <3>6, <3>7 DEF AsyncInv
    <3>9. QED BY <3>5, <3>8
  <2>6. QED BY <2>4, <2>5
<1>7. CASE Fetched
  <2>1. /\ rpc[Me].at = "done" /\ rpc[Me].op = "logs" /\ rpc[Me].job = async.job
        /\ async.job \in Jobs /\ rpc[Me].info \in Verdicts /\ Inline
    BY <1>7 DEF Fetched, Answered, AsyncInv
  <2>2. rpc[Me] \in RPCs
    BY <1>t, <2>1, CallIs
  <2>3. rpc[Me].logs = written[async.job]
    <3>1. /\ rpc[Me].logs["out"] = written[async.job]["out"]
          /\ rpc[Me].logs["err"] = written[async.job]["err"]
      BY <1>t, <2>1 DEF RepliesInv, LogsOf
    <3>2. rpc[Me].logs \in [Streams -> Nat] /\ written[async.job] \in [Streams -> 0..MaxOutput]
      BY <2>1, <2>2 DEF RPCs, TypeOK
    <3>3. QED BY <3>1, <3>2 DEF Streams
  <2>4. rpc[Me].logs \in [Streams -> Nat]
    BY <2>2 DEF RPCs
  <2>5. PICK r : r = [result EXCEPT !.logs = rpc[Me].logs]
    OBVIOUS
  <2>6. /\ r \in [kind : {"inline"}, status : Verdicts, logs : [Streams -> Nat], lost : BOOLEAN]
        /\ r.status = result.status /\ r.logs = rpc[Me].logs
    BY <2>1, <2>4, <2>5 DEF Inline
  <2>7. result' = r /\ Step("end") /\ lost' = lost /\ UNCHANGED vars
    BY <1>7, <2>5 DEF Fetched, PrintResult
  <2>8. async'.at = "end" /\ async'.job = async.job /\ AsyncTypeOK'
    BY <2>6, <2>7, <1>s DEF AsyncTypeOK
  <2>9. status' = status /\ written' = written
    BY <2>7 DEF vars, process
  <2>10. Inline'
    BY <2>1, <2>6, <2>7, <2>8, <2>9 DEF Inline
  <2>11. AsyncInv'
    BY <2>1, <2>3, <2>6, <2>7, <2>8, <2>9, <2>10 DEF AsyncInv
  <2>12. QED BY <2>8, <2>11
<1>8. ASSUME NEW r, r.kind \in {"error", "promoted"}, PrintResult(r), lost' \in 0..MaxLost
      PROVE  AsyncTypeOK' /\ AsyncInv'
  <2>1. async'.at = "end" /\ AsyncTypeOK' /\ result'.kind # "inline"
    BY <1>8, <1>s DEF PrintResult, AsyncTypeOK
  <2>2. QED BY <2>1 DEF AsyncInv
<1>9. CASE Promote
  BY <1>9, <1>8 DEF Promote, AsyncTypeOK
<1>10. CASE CallFails
  <2>1. lost' \in 0..MaxLost /\ UNCHANGED vars
    BY <1>10, AsyncAssumption DEF CallFails, AsyncTypeOK
  <2>2. CASE async.at \in {"start", "starting"}
    <3>1. PrintResult([kind |-> "error"])
      BY <1>10, <2>2 DEF CallFails
    <3>2. QED BY <2>1, <3>1, <1>8
  <2>3. CASE async.at \in {"poll", "polling"}
    <3>1. Step("poll") /\ result' = result
      BY <1>10, <2>3 DEF CallFails
    <3>2. async'.at = "poll" /\ async'.job = async.job /\ AsyncTypeOK'
      BY <2>1, <3>1, <1>s DEF AsyncTypeOK
    <3>3. AsyncInv'
      BY <2>1, <2>3, <3>2 DEF AsyncInv, vars
    <3>4. QED BY <3>2, <3>3
  <2>4. CASE async.at \in {"fetch", "fetching"}
    <3>1. Inline /\ async.job \in Jobs
      BY <2>4 DEF AsyncInv
    <3>2. PICK r : r = [result EXCEPT !.lost = TRUE]
      OBVIOUS
    <3>3. /\ r \in [kind : {"inline"}, status : Verdicts, logs : [Streams -> Nat], lost : BOOLEAN]
          /\ r.status = result.status /\ r.lost = TRUE
      BY <3>1, <3>2 DEF Inline
    <3>4. result' = r /\ Step("end")
      BY <1>10, <2>4, <3>2 DEF CallFails, PrintResult
    <3>5. async'.at = "end" /\ async'.job = async.job /\ AsyncTypeOK'
      BY <2>1, <3>3, <3>4, <1>s DEF AsyncTypeOK
    <3>6. Inline'
      BY <2>1, <3>1, <3>3, <3>4, <3>5 DEF Inline, vars
    <3>7. AsyncInv'
      BY <3>1, <3>3, <3>4, <3>5, <3>6 DEF AsyncInv
    <3>8. QED BY <3>5, <3>7
  <2>5. async.at # "end"
    BY <1>10 DEF CallFails
  <2>6. QED BY <1>t, <2>2, <2>3, <2>4, <2>5
<1>11. QED BY <1>1, <1>2, <1>4, <1>5, <1>6, <1>7, <1>9, <1>10 DEF AsyncStep

\* A call that none of the callers begins or continues stays what it was.
LEMMA OthersStep ==
  ASSUME TypeOK,
         \/ \E j \in Jobs : Runtime(j) \/ Command(j)
         \/ \E w \in Clients \ {Me} : Caller(w)
  PROVE  rpc'[Me] = rpc[Me]
<1>r. rpc \in [Clients -> RPCs \cup {Idle}] /\ Me \in Clients
  BY AsyncAssumption DEF TypeOK
<1>1. ASSUME NEW j \in Jobs, Runtime(j) \/ Command(j) PROVE rpc'[Me] = rpc[Me]
  BY <1>1 DEF Runtime, Command, RunStarts, Kill, RunReturns, Record, Copy, Fork,
              DescendantsExit, ShellExits, Write
<1>2. ASSUME NEW w \in Clients \ {Me}, Caller(w) PROVE rpc'[Me] = rpc[Me]
  <2>1. ASSUME NEW op, NEW j, NEW at, Begin(w, op, j, at) PROVE rpc'[Me] = rpc[Me]
    BY <1>r, <2>1 DEF Begin
  <2>2. ASSUME NEW s \in Streams, ReadLog(w, s) PROVE rpc'[Me] = rpc[Me]
    BY <1>r, <2>2 DEF ReadLog
  <2>3. ASSUME CancelCheck(w) \/ CancelAct(w) \/ Snapshot(w) PROVE rpc'[Me] = rpc[Me]
    BY <1>r, <2>3 DEF CancelCheck, CancelAct, Snapshot
  <2>4. QED BY <1>2, <2>1, <2>2, <2>3 DEF Caller, JobStart, Query
<1>3. QED BY <1>1, <1>2

\* The inductive invariant of jobs and of the command on top of them.
WorkInv ==
  TypeOK /\ JobInv /\ RepliesInv /\ StatusInv /\ AsyncTypeOK /\ AsyncInv

\* Every step keeps it.
LEMMA WorkStep ==
  ASSUME WorkInv, [MCNext]_<<way, parts>>
  PROVE  WorkInv'
<1> USE DEF WorkInv
<1>0. CASE UNCHANGED <<way, parts>>
  <2>1. UNCHANGED <<way, vars, asyncVars>>
    BY <1>0 DEF parts
  <2>2. [Next]_vars
    BY <2>1
  <2>3. TypeOK' /\ JobInv' /\ RepliesInv' /\ StatusInv'
    BY <2>2, TypeStep, JobStep, RepliesStep, StatusStep
  <2>4. AsyncTypeOK'
    BY <2>1 DEF asyncVars, AsyncTypeOK
  <2>5. rpc'[Me] = rpc[Me]
    BY <2>1 DEF vars
  <2>6. AsyncInv'
    BY <2>1, <2>2, <2>5, DaemonStep
  <2>7. QED BY <2>3, <2>4, <2>6
<1>1. CASE MCNext
  <2>1. [Next]_vars /\ way' = way
    BY <1>1, WorkIsJobs DEF MCNext
  <2>2. TypeOK' /\ JobInv' /\ RepliesInv' /\ StatusInv'
    BY <2>1, TypeStep, JobStep, RepliesStep, StatusStep
  <2>3. ASSUME UNCHANGED asyncVars PROVE AsyncTypeOK'
    BY <2>3 DEF asyncVars, AsyncTypeOK
  <2>4. CASE way # "async"
    <3>1. UNCHANGED asyncVars /\ async.at = "start"
      BY <1>1, <2>4 DEF MCNext, AsyncInv
    <3>2. AsyncInv'
      BY <2>1, <2>4, <3>1 DEF asyncVars, AsyncInv
    <3>3. QED BY <2>2, <2>3, <3>1, <3>2
  <2>5. CASE way = "async"
    <3>1. AsyncNext
      BY <1>1, <2>5 DEF MCNext
    <3>2. CASE AsyncStep
      BY <2>1, <2>2, <2>5, <3>2, CommandStep
    <3>3. CASE ~AsyncStep
      <4>1. UNCHANGED asyncVars
        BY <3>1, <3>3 DEF AsyncNext
      <4>2. \/ rpc'[Me] = rpc[Me]
            \/ Snapshot(Me) \/ \E s \in Streams : ReadLog(Me, s)
        BY <3>1, <3>3, OthersStep DEF AsyncNext
      <4>3. AsyncInv'
        BY <2>1, <4>1, <4>2, DaemonStep
      <4>4. QED BY <2>2, <2>3, <4>1, <4>3
    <3>4. QED BY <3>2, <3>3
  <2>6. QED BY <2>4, <2>5
<1>2. QED BY <1>0, <1>1

\* It holds initially.
LEMMA WorkStart == MCInit => WorkInv
<1> SUFFICES ASSUME MCInit PROVE WorkInv
  OBVIOUS
<1>1. TypeOK /\ JobInv /\ RepliesInv
  BY JobInit, RepliesInit DEF MCInit
<1>2. StatusInv
  BY DEF MCInit, Init, Idle, StatusInv, StatusOf
<1>3. AsyncTypeOK /\ AsyncInv
  BY AsyncAssumption DEF MCInit, AsyncInit, AsyncTypeOK, AsyncInv, NoResult
<1>4. QED BY <1>1, <1>2, <1>3 DEF WorkInv

\* A result that run-async prints inline is the job's verdict, which is final,
\* and, unless the call for the logs failed, all of its output, although both
\* come from calls of their own while the job's processes go on and others
\* cancel it (cmdRunAsync, rpcJobStatus, rpcJobLogs, runJob).
THEOREM InlineResultsAreComplete == MCSpec => []InlineIsComplete
<1>1. WorkInv => InlineIsComplete
  BY DEF WorkInv, AsyncInv, Inline, InlineIsComplete
<1>2. QED BY WorkStart, WorkStep, <1>1, PTL DEF MCSpec

----------------------------------------------------------------------------
(* The interactive shell, and the types of all parts.                      *)

\* No size is sent that is not counted as input, and no line is shown, under
\* way or in the pty that was not printed.
ShellInv ==
  /\ sizes <= input
  /\ output["pty"] + output["net"] + output["shown"] <= output["printed"]

\* What the shell's lines are.
Lines == [{"printed", "pty", "net", "shown"} -> 0..MaxLines]

\* A line that moves on is still the same number of lines.
LEMMA LineMoves ==
  ASSUME output \in Lines, ShellInv, output["pty"] > 0 \/ output["net"] > 0,
         \/ /\ output["net"] > 0
            /\ output' = [output EXCEPT !["net"] = @ - 1, !["shown"] = @ + 1]
         \/ /\ output["pty"] > 0
            /\ output' = [output EXCEPT !["pty"] = @ - 1, !["net"] = @ + 1]
  PROVE  /\ output' \in Lines
         /\ output'["pty"] + output'["net"] + output'["shown"] <= output'["printed"]
<1>1. PICK a \in 0..MaxLines, b \in 0..MaxLines, c \in 0..MaxLines, d \in 0..MaxLines :
        a = output["printed"] /\ b = output["pty"] /\ c = output["net"] /\ d = output["shown"]
  BY ShellAssumption DEF Lines
<1>2. b + c + d <= a
  BY <1>1 DEF ShellInv
<1>3. b > 0 \/ c > 0
  BY <1>1
<1>4. CASE output["net"] > 0 /\ output' = [output EXCEPT !["net"] = @ - 1, !["shown"] = @ + 1]
  <2>1. c - 1 \in 0..MaxLines /\ d + 1 \in 0..MaxLines
    BY <1>1, <1>2, <1>4, ShellAssumption
  <2>2. /\ output'["printed"] = a /\ output'["pty"] = b
        /\ output'["net"] = c - 1 /\ output'["shown"] = d + 1
    BY <1>1, <1>4 DEF Lines
  <2>3. output' \in Lines
    BY <1>1, <1>4, <2>1 DEF Lines
  <2>4. QED BY <1>1, <1>2, <2>2, <2>3
<1>5. CASE output["pty"] > 0 /\ output' = [output EXCEPT !["pty"] = @ - 1, !["net"] = @ + 1]
  <2>1. b - 1 \in 0..MaxLines /\ c + 1 \in 0..MaxLines
    BY <1>1, <1>2, <1>5, ShellAssumption
  <2>2. /\ output'["printed"] = a /\ output'["pty"] = b - 1
        /\ output'["net"] = c + 1 /\ output'["shown"] = d
    BY <1>1, <1>5 DEF Lines
  <2>3. output' \in Lines
    BY <1>1, <1>5, <2>1 DEF Lines
  <2>4. QED BY <1>1, <1>2, <2>2, <2>3
<1>6. QED BY <1>4, <1>5

\* What is sent, taken in and typed is a sequence of the same things.
LEMMA SeqSteps ==
  ASSUME NEW S, NEW s \in Seq(S)
  PROVE  /\ \A e \in S : Append(s, e) \in Seq(S)
         /\ \A r \in Seq(S) : r \o s \in Seq(S)
         /\ \A n \in 0..Len(s) :
              SubSeq(s, 1, n) \in Seq(S) /\ SubSeq(s, n + 1, Len(s)) \in Seq(S)
         /\ Len(s) > 0 => Head(s) \in S
<1>1. Len(s) \in Nat /\ (Len(s) > 0 => s # <<>>)
  OBVIOUS
<1>2. \A n \in 0..Len(s) :
        SubSeq(s, 1, n) \in Seq(S) /\ SubSeq(s, n + 1, Len(s)) \in Seq(S)
  BY <1>1
<1>3. \A e \in S : Append(s, e) \in Seq(S)
  OBVIOUS
<1>4. \A r \in Seq(S) : r \o s \in Seq(S)
  OBVIOUS
<1>5. Len(s) > 0 => Head(s) \in S
  BY <1>1
<1>6. QED BY <1>2, <1>3, <1>4, <1>5

\* Every step keeps the types of the shell's variables.
LEMMA ShellStep ==
  ASSUME ShellTypeOK, ShellInv, [ShellNext]_shellVars
  PROVE  ShellTypeOK' /\ ShellInv'
<1>t. /\ tcp \in Seq(0..MaxInput) /\ reader \in Seq(0..MaxInput) /\ typed \in Seq(0..MaxInput)
      /\ winsize \in 0..MaxInput /\ sizes \in 0..MaxInput /\ input \in 0..MaxInput
      /\ output \in Lines
      /\ copy \in [{"in", "out"} -> {"none", "copying", "sending", "done"}]
      /\ term \in [{"stdin", "stdout", "connect"} -> {"copying", "done"}]
  BY DEF ShellTypeOK, Lines
<1>s. ASSUME /\ tcp' \in Seq(0..MaxInput) /\ reader' \in Seq(0..MaxInput) /\ typed' \in Seq(0..MaxInput)
             /\ winsize' \in 0..MaxInput /\ sizes' \in 0..MaxInput /\ input' \in 0..MaxInput
             /\ output' \in Lines
             /\ stage' \in {"peek", "shell", "closing", "returned", "denied"}
             /\ login' \in {"none", "running", "exited"} /\ closed' \in BOOLEAN
             /\ copy' \in [{"in", "out"} -> {"none", "copying", "sending", "done"}]
             /\ term' \in [{"stdin", "stdout", "connect"} -> {"copying", "done"}]
      PROVE  ShellTypeOK'
  BY <1>s DEF ShellTypeOK, Lines
<1>i. ASSUME UNCHANGED <<sizes, input, output>> PROVE ShellInv'
  BY <1>i DEF ShellInv
<1>1. CASE SendWinsize
  <2>1. input' \in 0..MaxInput /\ sizes' \in 0..MaxInput /\ sizes' <= input'
    BY <1>t, <1>1, ShellAssumption DEF SendWinsize, ShellInv
  <2>2. tcp' \in Seq(0..MaxInput)
    BY <1>t, <1>1, <2>1, SeqSteps DEF SendWinsize
  <2>3. QED BY <1>1, <2>1, <2>2 DEF SendWinsize, Served, ShellTypeOK, ShellInv
<1>2. CASE PressKey
  <2>1. input' \in 0..MaxInput /\ sizes' = sizes /\ sizes' <= input' /\ 0 \in 0..MaxInput
    BY <1>t, <1>2, ShellAssumption DEF PressKey, ShellInv
  <2>2. tcp' \in Seq(0..MaxInput)
    <3>1. Append(tcp, Key) \in Seq(0..MaxInput)
      BY <1>t, <2>1, SeqSteps DEF Key
    <3>2. tcp' = tcp \/ tcp' = Append(tcp, Key)
      BY <1>2 DEF PressKey
    <3>3. QED BY <1>t, <3>1, <3>2
  <2>3. term' \in [{"stdin", "stdout", "connect"} -> {"copying", "done"}]
    BY <1>t, <1>2 DEF PressKey
  <2>4. QED BY <1>2, <2>1, <2>2, <2>3 DEF PressKey, Served, ShellTypeOK, ShellInv
<1>3. CASE StdinEnds \/ StdoutEnds \/ ConnectReturns
  <2>1. term' \in [{"stdin", "stdout", "connect"} -> {"copying", "done"}]
    BY <1>t, <1>3 DEF StdinEnds, StdoutEnds, ConnectReturns
  <2>2. UNCHANGED <<Served, Typing, output>>
    BY <1>3 DEF StdinEnds, StdoutEnds, ConnectReturns
  <2>3. QED BY <2>1, <2>2, <1>i DEF Served, Typing, ShellTypeOK
<1>4. CASE Show \/ SendOutput
  <2>1. /\ output' \in Lines
        /\ output'["pty"] + output'["net"] + output'["shown"] <= output'["printed"]
    BY <1>t, <1>4, LineMoves DEF Show, SendOutput
  <2>2. UNCHANGED <<Served, Typing, term>>
    BY <1>4 DEF Show, SendOutput
  <2>3. QED BY <2>1, <2>2 DEF Served, Typing, ShellTypeOK, ShellInv, Lines
<1>5. CASE Peek
  <2>1. PICK n \in 0..Len(tcp) :
          reader' = SubSeq(tcp, 1, n) /\ tcp' = SubSeq(tcp, n + 1, Len(tcp))
    BY <1>5 DEF Peek
  <2>2. reader' \in Seq(0..MaxInput) /\ tcp' \in Seq(0..MaxInput)
    BY <1>t, <2>1, SeqSteps
  <2>3. copy' \in [{"in", "out"} -> {"none", "copying", "sending", "done"}]
    BY <1>t, <1>5 DEF Peek
  <2>4. /\ stage' \in {"shell", "denied"} /\ login' \in {"none", "running", "exited"}
        /\ closed' \in BOOLEAN
    BY <1>5 DEF Peek, ShellTypeOK
  <2>5. UNCHANGED <<typed, winsize, sizes, input, output, term>>
    BY <1>5 DEF Peek
  <2>6. QED BY <1>t, <2>2, <2>3, <2>4, <2>5, <1>s, <1>i
<1>6. CASE ReadChunk
  <2>1. PICK n \in 1..Len(tcp) :
          /\ tcp' = SubSeq(tcp, n + 1, Len(tcp))
          /\ IF Head(tcp) # Key THEN winsize' = Head(tcp) /\ UNCHANGED typed
             ELSE typed' = typed \o SubSeq(tcp, 1, n) /\ UNCHANGED winsize
    BY <1>6 DEF ReadChunk
  <2>2. n \in 0..Len(tcp) /\ Len(tcp) > 0
    BY <1>t
  <2>3. /\ tcp' \in Seq(0..MaxInput) /\ SubSeq(tcp, 1, n) \in Seq(0..MaxInput)
        /\ Head(tcp) \in 0..MaxInput
    BY <1>t, <2>1, <2>2, SeqSteps
  <2>4. typed' \in Seq(0..MaxInput) /\ winsize' \in 0..MaxInput
    <3>1. typed \o SubSeq(tcp, 1, n) \in Seq(0..MaxInput)
      BY <1>t, <2>3, SeqSteps
    <3>2. QED BY <1>t, <2>1, <2>3, <3>1
  <2>5. QED BY <1>6, <2>3, <2>4, <1>i DEF ReadChunk, ShellTypeOK
<1>7. CASE InputCopyEnds \/ OutputCopyEnds \/ Join
  <2>1. copy' \in [{"in", "out"} -> {"none", "copying", "sending", "done"}]
    BY <1>t, <1>7 DEF InputCopyEnds, OutputCopyEnds, Join
  <2>2. /\ stage' \in {"peek", "shell", "closing", "returned", "denied"}
        /\ UNCHANGED <<reader, typed, winsize, Typing, login, output, closed, term>>
    BY <1>7 DEF InputCopyEnds, OutputCopyEnds, Join, ShellTypeOK
  <2>3. QED BY <2>1, <2>2, <1>i DEF Typing, ShellTypeOK
<1>8. CASE ShellReaped \/ LoginExits
  <2>1. UNCHANGED <<reader, typed, winsize, Typing, output, copy, term>>
    BY <1>8 DEF ShellReaped, LoginExits
  <2>2. /\ stage' \in {"peek", "shell", "closing", "returned", "denied"}
        /\ login' \in {"none", "running", "exited"} /\ closed' \in BOOLEAN
    BY <1>8 DEF ShellReaped, LoginExits, ShellTypeOK
  <2>3. QED BY <2>1, <2>2, <1>i DEF Typing, ShellTypeOK
<1>9. CASE PrintLine
  <2>1. PICK a \in 0..MaxLines, b \in 0..MaxLines, c \in 0..MaxLines, d \in 0..MaxLines :
          a = output["printed"] /\ b = output["pty"] /\ c = output["net"] /\ d = output["shown"]
    BY <1>t, ShellAssumption DEF Lines
  <2>2. b + c + d <= a /\ a < MaxLines
    BY <1>9, <2>1 DEF ShellInv, PrintLine
  <2>3. a + 1 \in 0..MaxLines /\ b + 1 \in 0..MaxLines
    BY <2>1, <2>2, ShellAssumption
  <2>4. output' = [output EXCEPT !["printed"] = @ + 1, !["pty"] = @ + 1]
    BY <1>9 DEF PrintLine
  <2>5. /\ output'["printed"] = a + 1 /\ output'["pty"] = b + 1
        /\ output'["net"] = c /\ output'["shown"] = d
    BY <1>t, <2>1, <2>4 DEF Lines
  <2>6. output' \in Lines
    BY <1>t, <2>1, <2>3, <2>4 DEF Lines
  <2>7. output'["pty"] + output'["net"] + output'["shown"] <= output'["printed"]
    BY <2>1, <2>2, <2>5
  <2>8. UNCHANGED <<Served, Typing, term>>
    BY <1>9 DEF PrintLine
  <2>9. QED BY <2>6, <2>7, <2>8 DEF Served, Typing, ShellTypeOK, ShellInv, Lines
<1>10. CASE UNCHANGED shellVars
  <2>1. ShellTypeOK'
    BY <1>t, <1>10, <1>s DEF shellVars, ShellTypeOK
  <2>2. QED BY <1>10, <2>1, <1>i DEF shellVars
<1>11. QED
  BY <1>1, <1>2, <1>3, <1>4, <1>5, <1>6, <1>7, <1>8, <1>9, <1>10 DEF ShellNext, ShellFairStep

\* The variables of every part stay in their types, whichever way work is run
\* (JobRegistry, RunAsync, ShellSession, Workflow, Routing).
THEOREM WorkTypes == MCSpec => []AllTypeOK
<1> DEFINE Inv == WorkInv /\ ShellTypeOK /\ ShellInv /\ FlowTypeOK /\ FlowInv
                  /\ RouteTypeOK /\ RouteInv
<1>1. MCInit => Inv
  <2> SUFFICES ASSUME MCInit PROVE Inv
    OBVIOUS
  <2>1. <<>> \in Seq(0..MaxInput) /\ 0 \in 0..MaxInput /\ 0 \in 0..MaxLines
    BY ShellAssumption
  <2>2. ShellInit
    BY DEF MCInit
  <2>3. ShellTypeOK
    BY <2>1, <2>2 DEF ShellInit, ShellTypeOK
  <2>4. ShellInv
    BY <2>2 DEF ShellInit, ShellInv
  <2>5. FlowTypeOK /\ FlowInv /\ RouteTypeOK /\ RouteInv
    BY FlowStart, RouteStart DEF MCInit
  <2>6. QED BY <2>3, <2>4, <2>5, WorkStart
<1>2. Inv /\ [MCNext]_<<way, parts>> => Inv'
  <2> SUFFICES ASSUME Inv, [MCNext]_<<way, parts>> PROVE Inv'
    OBVIOUS
  <2>1. [ShellNext]_shellVars
    BY DEF MCNext, parts
  <2>2. [FlowNext]_flowVars
    BY DEF MCNext, parts
  <2>3. [RouteNext]_routeVars
    BY DEF MCNext, parts
  <2>4. QED BY <2>1, <2>2, <2>3, WorkStep, ShellStep, FlowStep, RouteStep
<1>3. Inv => AllTypeOK
  BY DEF AllTypeOK, WorkInv
<1>4. QED BY <1>1, <1>2, <1>3, PTL DEF MCSpec
=============================================================================
