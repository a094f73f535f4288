--------------------------- MODULE SelectionProofs ---------------------------
(***************************************************************************)
(* Facts about least and greatest numbers, and about what the loops of     *)
(* Selection keep: of any sequence just the elements to be kept, and of an *)
(* ascending one, where the great are kept, its end.                       *)
(***************************************************************************)
EXTENDS Selection, Integers, WellFoundedInduction, TLAPS

\* A set of naturals that is not empty has a least member.
LEMMA NatMin ==
  ASSUME NEW T, T \subseteq Nat, T # {}
  PROVE  \E x \in T : \A y \in T : x <= y
<1>1. PICK R : R = OpToRel(<, Nat)
  OBVIOUS
<1>2. IsWellFoundedOn(R, Nat)
  BY <1>1, NatLessThanWellFounded
<1>3. PICK x \in T : \A y \in T : ~(<<y, x>> \in R)
  BY <1>2, WFMin
<1>4. ASSUME NEW y \in T, y < x PROVE <<y, x>> \in R
  <2>1. <<y, x>> \in Nat \X Nat
    OBVIOUS
  <2>2. QED BY <1>1, <1>4, <2>1 DEF OpToRel
<1>5. \A y \in T : ~(y < x)
  BY <1>3, <1>4
<1>6. \A y \in T : x <= y
  BY <1>5
<1>7. QED BY <1>6

\* A bounded set of naturals that is not empty has a greatest member.
LEMMA NatMax ==
  ASSUME NEW T, NEW n \in Nat, T \subseteq 0..n, T # {}
  PROVE  \E x \in T : \A y \in T : x >= y
<1>1. PICK S : S = {n - x : x \in T}
  OBVIOUS
<1>2. \A x \in T : n - x \in Nat
  OBVIOUS
<1>3. S \subseteq Nat
  BY <1>1, <1>2
<1>4. S # {}
  BY <1>1
<1>5. PICK s \in S : \A y \in S : s <= y
  BY <1>3, <1>4, NatMin
<1>6. PICK x \in T : s = n - x
  BY <1>1
<1>7. \A y \in T : n - y \in S
  BY <1>1
<1>8. \A y \in T : n - x <= n - y
  BY <1>5, <1>6, <1>7
<1>9. QED BY <1>8

----------------------------------------------------------------------------
(* What the loop has kept after each of its rounds.                        *)

\* kept is the value of the loop's result after each of the first n rounds.
Loop(kept, s, keep, n) ==
  kept = [i \in 0..n |->
    IF i = 0 THEN <<>> ELSE IF s[i] \in keep THEN Append(kept[i - 1], s[i]) ELSE kept[i - 1]]

\* The loop has a value after any number of rounds.
LEMMA LoopExists ==
  ASSUME NEW s, NEW keep, NEW n \in Nat
  PROVE  \E kept : Loop(kept, s, keep, n)
<1> DEFINE T == {m \in Nat : ~\E kept : Loop(kept, s, keep, m)}
<1>1. SUFFICES ASSUME T # {} PROVE FALSE
  OBVIOUS
<1>2. PICK m \in T : \A y \in T : m <= y
  BY <1>1, NatMin
<1>3. CASE m = 0
  <2>1. PICK kept : kept = [i \in 0..0 |-> <<>>]
    OBVIOUS
  <2>2. kept = [i \in 0..m |->
          IF i = 0 THEN <<>> ELSE IF s[i] \in keep THEN Append(kept[i - 1], s[i]) ELSE kept[i - 1]]
    <3>1. \A i \in 0..m : i = 0
      BY <1>3
    <3>2. QED BY <2>1, <3>1, <1>3
  <2>3. QED BY <2>2 DEF Loop
<1>4. CASE m # 0
  <2>1. m - 1 \in Nat /\ ~(m <= m - 1)
    BY <1>4
  <2>2. m - 1 \notin T
    BY <1>2, <2>1
  <2>3. PICK old : Loop(old, s, keep, m - 1)
    BY <2>1, <2>2
  <2>4. PICK kept : kept = [i \in 0..m |->
          IF i < m THEN old[i] ELSE IF s[m] \in keep THEN Append(old[m - 1], s[m]) ELSE old[m - 1]]
    OBVIOUS
  <2>5. ASSUME NEW i \in 0..m
        PROVE  kept[i] = IF i = 0 THEN <<>> ELSE IF s[i] \in keep THEN Append(kept[i - 1], s[i]) ELSE kept[i - 1]
    <3>1. CASE i = m
      <4>1. kept[m - 1] = old[m - 1]
        BY <2>1, <2>4
      <4>2. QED BY <3>1, <4>1, <2>4, <1>4
    <3>2. CASE i < m /\ i # 0
      <4>1. i \in 0..(m - 1) /\ i - 1 \in 0..m /\ i - 1 < m
        BY <3>2
      <4>2. kept[i] = old[i] /\ kept[i - 1] = old[i - 1]
        BY <3>2, <4>1, <2>4
      <4>3. old[i] = IF s[i] \in keep THEN Append(old[i - 1], s[i]) ELSE old[i - 1]
        BY <2>3, <3>2, <4>1 DEF Loop
      <4>4. QED BY <4>2, <4>3, <3>2
    <3>3. CASE i < m /\ i = 0
      <4>1. 0 \in 0..(m - 1)
        BY <2>1
      <4>2. old[0] = <<>>
        BY <2>3, <4>1 DEF Loop
      <4>3. QED BY <3>3, <4>2, <2>4
    <3>4. QED BY <3>1, <3>2, <3>3
  <2>6. Loop(kept, s, keep, m)
    BY <2>4, <2>5 DEF Loop
  <2>7. QED BY <2>6
<1>5. QED BY <1>3, <1>4

\* Selected is what the loop has kept at its end; where it starts and how it
\* goes on.
LEMMA SelectedLoop ==
  ASSUME NEW S, NEW s \in Seq(S), NEW keep
  PROVE  \E kept : /\ Selected(s, keep) = kept[Len(s)]
                   /\ kept[0] = <<>>
                   /\ \A i \in 1..Len(s) :
                        kept[i] = IF s[i] \in keep THEN Append(kept[i - 1], s[i]) ELSE kept[i - 1]
<1> DEFINE kept == CHOOSE f : f = [i \in 0..Len(s) |->
             IF i = 0 THEN <<>> ELSE IF s[i] \in keep THEN Append(f[i - 1], s[i]) ELSE f[i - 1]]
<1>1. Len(s) \in Nat
  OBVIOUS
<1>2. Selected(s, keep) = kept[Len(s)]
  BY DEF Selected
<1>3. kept = CHOOSE f : Loop(f, s, keep, Len(s))
  BY DEF Loop
<1>4. Loop(kept, s, keep, Len(s))
  BY <1>1, <1>3, LoopExists
<1> HIDE DEF kept
<1>5. kept[0] = <<>>
  BY <1>1, <1>4 DEF Loop
<1>6. ASSUME NEW i \in 1..Len(s)
      PROVE  kept[i] = IF s[i] \in keep THEN Append(kept[i - 1], s[i]) ELSE kept[i - 1]
  <2>1. i \in 0..Len(s) /\ i # 0
    BY <1>1
  <2>2. QED BY <1>4, <2>1 DEF Loop
<1>7. QED BY <1>2, <1>5, <1>6

\* What is kept is what was there and is to be kept.
LEMMA SelectedMembers ==
  ASSUME NEW S, NEW s \in Seq(S), NEW keep
  PROVE  /\ Selected(s, keep) \in Seq(S)
         /\ \A x : (\E i \in DOMAIN Selected(s, keep) : Selected(s, keep)[i] = x)
                     <=> x \in keep /\ \E i \in DOMAIN s : s[i] = x
<1>1. PICK kept : /\ Selected(s, keep) = kept[Len(s)]
                  /\ kept[0] = <<>>
                  /\ \A i \in 1..Len(s) :
                       kept[i] = IF s[i] \in keep THEN Append(kept[i - 1], s[i]) ELSE kept[i - 1]
  BY SelectedLoop
<1> DEFINE Right(n) == /\ kept[n] \in Seq(S)
                       /\ \A x : (\E i \in DOMAIN kept[n] : kept[n][i] = x)
                                   <=> x \in keep /\ \E i \in 1..n : s[i] = x
           T == {n \in 0..Len(s) : ~Right(n)}
<1>2. Len(s) \in Nat /\ DOMAIN s = 1..Len(s)
  OBVIOUS
<1>3. ASSUME T # {} PROVE FALSE
  <2>1. T \subseteq Nat
    OBVIOUS
  <2>2. PICK m \in T : \A y \in T : m <= y
    BY <1>3, <2>1, NatMin
  <2>3. m # 0
    <3>1. <<>> \in Seq(S) /\ DOMAIN <<>> = {}
      OBVIOUS
    <3>2. Right(0)
      BY <1>1, <3>1
    <3>3. QED BY <2>2, <3>2
  <2>4. m \in 1..Len(s) /\ m - 1 \in 0..Len(s) /\ ~(m <= m - 1)
    BY <1>2, <2>2, <2>3
  <2>5. Right(m - 1)
    BY <2>2, <2>4
  <2>6. PICK old : old = kept[m - 1]
    OBVIOUS
  <2>7. old \in Seq(S) /\ s[m] \in S
    BY <2>4, <2>5, <2>6
  <2>8. 1..m = 1..(m - 1) \cup {m}
    BY <2>4
  <2>9. ASSUME NEW x
        PROVE  (\E i \in DOMAIN old : old[i] = x) <=> x \in keep /\ \E i \in 1..(m - 1) : s[i] = x
    BY <2>5, <2>6
  <2>10. CASE s[m] \in keep
    <3>1. PICK new : new = Append(old, s[m])
      OBVIOUS
    <3>2. kept[m] = new
      BY <1>1, <2>4, <2>6, <2>10, <3>1
    <3>3. /\ new \in Seq(S) /\ DOMAIN new = 1..Len(old) + 1 /\ DOMAIN old = 1..Len(old)
          /\ Len(old) \in Nat /\ new[Len(old) + 1] = s[m]
          /\ \A i \in 1..Len(old) : new[i] = old[i]
      BY <2>7, <3>1
    <3>4. ASSUME NEW x
          PROVE  (\E i \in DOMAIN new : new[i] = x) <=> x = s[m] \/ \E i \in DOMAIN old : old[i] = x
      BY <3>3
    <3>5. ASSUME NEW x
          PROVE  (\E i \in 1..m : s[i] = x) <=> x = s[m] \/ \E i \in 1..(m - 1) : s[i] = x
      BY <2>8
    <3>6. ASSUME NEW x
          PROVE  (\E i \in DOMAIN new : new[i] = x) <=> x \in keep /\ \E i \in 1..m : s[i] = x
      BY <2>9, <2>10, <3>4, <3>5
    <3>7. Right(m)
      BY <3>2, <3>3, <3>6
    <3>8. QED BY <2>2, <3>7
  <2>11. CASE s[m] \notin keep
    <3>1. kept[m] = old
      BY <1>1, <2>4, <2>6, <2>11
    <3>2. ASSUME NEW x
          PROVE  x \in keep /\ (\E i \in 1..m : s[i] = x) <=> x \in keep /\ \E i \in 1..(m - 1) : s[i] = x
      BY <2>8, <2>11
    <3>3. Right(m)
      BY <2>7, <2>9, <3>1, <3>2
    <3>4. QED BY <2>2, <3>3
  <2>12. QED BY <2>10, <2>11
<1>4. Right(Len(s))
  <2> HIDE DEF Right
  <2>1. T = {}
    BY <1>3
  <2>2. Len(s) \in 0..Len(s)
    BY <1>2
  <2>3. QED BY <2>1, <2>2
<1>5. QED BY <1>1, <1>2, <1>4

\* Of an ascending sequence, from which what is great enough is kept, that is
\* the end.
LEMMA SelectedEnd ==
  ASSUME NEW s \in Seq(Int), NEW keep,
         \A i \in 1..Len(s) - 1 : s[i] \in keep => s[i + 1] \in keep
  PROVE  \E m \in 0..Len(s) : /\ Selected(s, keep) = SubSeq(s, m + 1, Len(s))
                              /\ \A i \in 1..m : s[i] \notin keep
                              /\ \A i \in m + 1..Len(s) : s[i] \in keep
<1>1. PICK kept : /\ Selected(s, keep) = kept[Len(s)]
                  /\ kept[0] = <<>>
                  /\ \A i \in 1..Len(s) :
                       kept[i] = IF s[i] \in keep THEN Append(kept[i - 1], s[i]) ELSE kept[i - 1]
  BY SelectedLoop
<1> DEFINE Ends(n, m) == /\ kept[n] = SubSeq(s, m + 1, n)
                         /\ \A i \in 1..m : s[i] \notin keep
                         /\ \A i \in m + 1..n : s[i] \in keep
           T == {n \in 0..Len(s) : ~\E m \in 0..n : Ends(n, m)}
<1>2. Len(s) \in Nat
  OBVIOUS
<1>3. ASSUME T # {} PROVE FALSE
  <2>1. T \subseteq Nat
    OBVIOUS
  <2>2. PICK n \in T : \A y \in T : n <= y
    BY <1>3, <2>1, NatMin
  <2>3. n # 0
    <3>1. SubSeq(s, 1, 0) = <<>>
      OBVIOUS
    <3>2. Ends(0, 0)
      BY <1>1, <3>1
    <3> HIDE DEF Ends
    <3>3. 0 \notin T
      BY <3>2
    <3>4. QED BY <2>2, <3>3
  <2>4. n \in 1..Len(s) /\ n - 1 \in 0..Len(s) /\ ~(n <= n - 1)
    BY <1>2, <2>2, <2>3
  <2>5. PICK m \in 0..(n - 1) : Ends(n - 1, m)
    BY <2>2, <2>4
  <2>6. m \in 0..n /\ n \in 0..n /\ m \in Nat /\ n \in Nat
    BY <2>4
  <2>7. CASE s[n] \in keep
    <3>1. Append(SubSeq(s, m + 1, n - 1), s[n]) = SubSeq(s, m + 1, n)
      BY <2>4, <2>5, <2>6
    <3>2. kept[n] = SubSeq(s, m + 1, n)
      BY <1>1, <2>4, <2>5, <2>7, <3>1
    <3>3. \A i \in m + 1..n : i = n \/ i \in m + 1..n - 1
      BY <2>6
    <3>4. Ends(n, m)
      BY <2>5, <2>7, <3>2, <3>3
    <3>5. QED BY <2>2, <2>6, <3>4
  <2>8. CASE s[n] \notin keep
    <3>1. m = n - 1
      <4>1. ASSUME m < n - 1 PROVE FALSE
        <5>1. n - 1 \in m + 1..n - 1 /\ n - 1 \in 1..Len(s) - 1 /\ (n - 1) + 1 = n
          BY <1>2, <2>4, <2>6, <4>1
        <5>2. s[n - 1] \in keep
          BY <2>5, <5>1
        <5>3. QED BY <2>8, <5>1, <5>2
      <4>2. QED BY <2>6, <4>1
    <3>2. SubSeq(s, n, n - 1) = <<>> /\ SubSeq(s, n + 1, n) = <<>>
      BY <2>4
    <3>3. kept[n] = SubSeq(s, n + 1, n)
      BY <1>1, <2>4, <2>5, <2>8, <3>1, <3>2
    <3>4. \A i \in 1..n : i = n \/ i \in 1..m
      BY <2>6, <3>1
    <3>5. Ends(n, n)
      BY <2>5, <2>6, <2>8, <3>3, <3>4
    <3>6. QED BY <2>2, <2>6, <3>5
  <2>9. QED BY <2>7, <2>8
<1>4. PICK m \in 0..Len(s) : Ends(Len(s), m)
  <2> HIDE DEF Ends
  <2>1. T = {}
    BY <1>3
  <2>2. Len(s) \in 0..Len(s)
    BY <1>2
  <2>3. QED BY <2>1, <2>2
<1>5. QED BY <1>1, <1>4

\* The end of a sequence, without the first m.
LEMMA EndOf ==
  ASSUME NEW S, NEW s \in Seq(S), NEW m \in 0..Len(s)
  PROVE  /\ SubSeq(s, m + 1, Len(s)) \in Seq(S) /\ Len(SubSeq(s, m + 1, Len(s))) = Len(s) - m
         /\ \A i \in 1..Len(s) - m : SubSeq(s, m + 1, Len(s))[i] = s[m + i]
<1>1. PICK l \in Nat : l = Len(s)
  OBVIOUS
<1>2. PICK p \in 1..l + 1 : p = m + 1
  BY <1>1
<1>3. SubSeq(s, p, l) \in Seq(S) /\ Len(SubSeq(s, p, l)) = (l - p) + 1
  BY <1>1, <1>2
<1>4. \A i \in 1..(l - p) + 1 : SubSeq(s, p, l)[i] = s[(p - 1) + i]
  BY <1>1, <1>2
<1>5. QED BY <1>1, <1>2, <1>3, <1>4

=============================================================================
