-------------------------- MODULE ScoringEngineProofs --------------------------
(***************************************************************************)
(* Proofs about ScoringEngine and about the packs it scores by, for any    *)
(* ids, cues, packs, pack files and lengths of a declaration.              *)
(*                                                                         *)
(* What is proved of the engine rests on EngineInv: the scorecard rolls up *)
(* one finding for each obligation declared, in the order of the sort key, *)
(* which no two findings of one contact share.  So the set of findings     *)
(* determines their list, and everything on the scorecard.  What dict.-    *)
(* fromkeys returns is shown by induction along the declaration, what      *)
(* sorted() returns by building the ordered list one finding at a time.    *)
(*                                                                         *)
(* What is proved of ScorePacks rests on PacksInv: an assessment is by a   *)
(* pack of a valid file, as it is or with a sibling's disclosures, and as  *)
(* long as nobody publishes under a load, that file is the cached one.     *)
(***************************************************************************)
EXTENDS ScoringEngine, ScorePacks, WellFoundedInduction, FiniteSetTheorems, TLAPS

(* Of any severities there is a worst, and min() finds it among them.      *)
LEMMA WorstExists ==
  ASSUME NEW S \in SUBSET Severities, S # {}
  PROVE  \E s \in S : \A other \in S : Rank[s] <= Rank[other]
  <1>1. CASE "critical" \in S
    BY <1>1 DEF Severities, Rank
  <1>2. CASE "critical" \notin S /\ "high" \in S
    BY <1>2 DEF Severities, Rank
  <1>3. CASE "critical" \notin S /\ "high" \notin S /\ "medium" \in S
    BY <1>3 DEF Severities, Rank
  <1>4. CASE S = {"low"}
    BY <1>4 DEF Rank
  <1> QED
    BY <1>1, <1>2, <1>3, <1>4 DEF Severities

(* Where _severity answers critical or high, _disposition does not answer  *)
(* compliant: an unmet obligation is not compliant, nothing measured is    *)
(* indeterminate, and a cue that severe is a consequential one.            *)
LEMMA SevereIsNotCompliant ==
  ASSUME NEW failing, NEW measured \in BOOLEAN,
         NEW cues \in [Cues -> CueSet], NEW seen \in SUBSET Cues,
         Severity(failing, measured, cues, seen) \in {"critical", "high"}
  PROVE  Disposition(failing, measured, cues, seen) # "compliant"
  <1>1. CASE ~measured
    BY <1>1 DEF Disposition
  <1>2. CASE measured /\ failing # {}
    BY <1>2 DEF Disposition
  <1>3. CASE measured /\ failing = {}
    <2> DEFINE S == {cues[cue].severity : cue \in Vulnerabilities(cues, seen)}
    <2>1. S \subseteq Severities
      BY DEF Vulnerabilities, CueSet
    <2>2. S # {}
      BY <1>3 DEF Severity
    <2>3. Severity(failing, measured, cues, seen)
            = CHOOSE s \in S : \A other \in S : Rank[s] <= Rank[other]
      <3>1. {f.severity : f \in failing} \cup S \cup (IF measured THEN {} ELSE {"critical"}) = S
        BY <1>3
      <3> QED
        BY <2>2, <3>1 DEF Severity
    <2>4. Severity(failing, measured, cues, seen) \in S
      BY <2>1, <2>2, <2>3, WorstExists
    <2>5. ConsequentialCue(cues, seen)
      BY <2>4 DEF ConsequentialCue
    <2> QED
      BY <1>3, <2>5 DEF Disposition
  <1> QED
    BY <1>1, <1>2, <1>3

(* Any scorecard the engine makes of well-formed inputs has the property.  *)
LEMMA SevereScorecardIsReviewed ==
  ASSUME NEW p \in Packs, NEW seen \in SUBSET Cues, NEW failing, NEW measured \in BOOLEAN,
         Severity(failing, measured, p.cues, seen) \in {"critical", "high"}
  PROVE  Disposition(failing, measured, p.cues, seen) # "compliant"
  <1>1. p.cues \in [Cues -> CueSet]
    BY PackAssumption DEF ScorePack
  <1> QED
    BY <1>1, SevereIsNotCompliant

LEMMA LeastExists ==
  ASSUME NEW S \in SUBSET Nat, S # {}
  PROVE  \E least \in S : \A other \in S : least <= other
  <1>1. PICK least \in S : \A other \in S : <<other, least>> \notin OpToRel(<, Nat)
    BY NatLessThanWellFounded, WFMin
  <1>2. \A other \in S : ~(other < least)
    BY <1>1 DEF OpToRel
  <1> QED
    BY <1>2

(* Induction over a set, which needs no operator for a parameter.          *)
LEMMA SetInduction ==
  ASSUME NEW S, 0 \in S, \A n \in Nat : n \in S => n + 1 \in S
  PROVE  \A n \in Nat : n \in S
  <1> DEFINE rest == {n \in Nat : n \notin S}
  <1>1. ASSUME rest # {} PROVE FALSE
    <2>1. PICK least \in rest : \A other \in rest : least <= other
      BY <1>1, LeastExists
    <2>2. least # 0 /\ least - 1 \in Nat
      BY <2>1
    <2>3. least - 1 \in S
      BY <2>1, <2>2
    <2> QED
      BY <2>1, <2>2, <2>3
  <1> QED
    BY <1>1

-----------------------------------------------------------------------------
(* dict.fromkeys.                                                          *)

(* The recursion of Distinct is well defined.                              *)
LEMMA AppendingExists ==
  ASSUME NEW N \in Nat, NEW next
  PROVE  \E F : F = [n \in 0..N |-> IF n = 0 THEN <<>> ELSE F[n - 1] \o next[n]]
  <1> DEFINE Join(a, b) == a \o b
  <1> DEFINE S == {m \in Nat : \E F : F = [n \in 0..m |-> IF n = 0 THEN <<>> ELSE Join(F[n - 1], next[n])]}
  <1> HIDE DEF Join
  <1>1. 0 \in S
    <2> DEFINE F == [n \in 0..0 |-> <<>>]
    <2>1. F = [n \in 0..0 |-> IF n = 0 THEN <<>> ELSE Join(F[n - 1], next[n])]
      OBVIOUS
    <2> QED
      BY <2>1
  <1>2. ASSUME NEW m \in Nat, m \in S
        PROVE  m + 1 \in S
    <2>1. PICK F : F = [n \in 0..m |-> IF n = 0 THEN <<>> ELSE Join(F[n - 1], next[n])]
      BY <1>2
    <2> DEFINE G == [n \in 0..(m + 1) |-> IF n = m + 1 THEN Join(F[m], next[n]) ELSE F[n]]
    <2>2. ASSUME NEW n \in 0..(m + 1)
          PROVE  G[n] = IF n = 0 THEN <<>> ELSE Join(G[n - 1], next[n])
      <3>1. CASE n = m + 1
        <4>1. G[n - 1] = F[m]
          BY <3>1
        <4> QED
          BY <3>1, <4>1
      <3>2. CASE n = 0
        BY <2>1, <3>2
      <3>3. CASE n \in 1..m
        <4>1. G[n - 1] = F[n - 1] /\ G[n] = F[n]
          BY <3>3
        <4>2. F[n] = Join(F[n - 1], next[n])
          BY <2>1, <3>3
        <4> QED
          BY <3>3, <4>1, <4>2
      <3> QED
        BY <3>1, <3>2, <3>3
    <2>3. G = [n \in 0..(m + 1) |-> IF n = 0 THEN <<>> ELSE Join(G[n - 1], next[n])]
      BY <2>2
    <2> HIDE DEF G
    <2> QED
      BY <2>3
  <1> HIDE DEF S
  <1>3. N \in S
    BY <1>1, <1>2, SetInduction
  <1> QED
    BY <1>3 DEF S, Join

LEMMA DistinctUnrolls ==
  ASSUME NEW V, NEW ids \in Seq(V)
  PROVE  \E F : /\ F = [n \in 0..Len(ids) |->
                          IF n = 0 THEN <<>>
                          ELSE F[n - 1] \o (IF \E j \in 1..(n - 1) : ids[j] = ids[n]
                                            THEN <<>> ELSE <<ids[n]>>)]
                /\ Distinct(ids) = F[Len(ids)]
  <1> DEFINE next == [n \in 1..Len(ids) |-> IF \E j \in 1..(n - 1) : ids[j] = ids[n]
                                            THEN <<>> ELSE <<ids[n]>>]
             kept == CHOOSE F : F = [n \in 0..Len(ids) |->
                                       IF n = 0 THEN <<>>
                                       ELSE F[n - 1] \o (IF \E j \in 1..(n - 1) : ids[j] = ids[n]
                                                         THEN <<>> ELSE <<ids[n]>>)]
  <1>1. \E F : F = [n \in 0..Len(ids) |-> IF n = 0 THEN <<>> ELSE F[n - 1] \o next[n]]
    <2> HIDE DEF next
    <2>1. Len(ids) \in Nat
      OBVIOUS
    <2> QED
      BY <2>1, AppendingExists
  <1>2. \E F : F = [n \in 0..Len(ids) |->
                      IF n = 0 THEN <<>>
                      ELSE F[n - 1] \o (IF \E j \in 1..(n - 1) : ids[j] = ids[n]
                                        THEN <<>> ELSE <<ids[n]>>)]
    BY <1>1
  <1>3. Distinct(ids) = kept[Len(ids)]
    BY DEF Distinct
  <1>4. kept = [n \in 0..Len(ids) |->
                  IF n = 0 THEN <<>>
                  ELSE kept[n - 1] \o (IF \E j \in 1..(n - 1) : ids[j] = ids[n]
                                       THEN <<>> ELSE <<ids[n]>>)]
    BY <1>2
  <1> HIDE DEF kept
  <1> QED
    BY <1>3, <1>4
(* What is kept of the first n ids of a declaration: they, each once.      *)
KeepsEach(list, ids, n) ==
  /\ \A k \in DOMAIN list : \E i \in 1..n : list[k] = ids[i]
  /\ \A i \in 1..n : \E k \in DOMAIN list : list[k] = ids[i]
  /\ \A i, j \in DOMAIN list : list[i] = list[j] => i = j

LEMMA KeepsOneMore ==
  ASSUME NEW V, NEW ids \in Seq(V), NEW n \in Nat, n + 1 <= Len(ids),
         NEW old \in Seq(V), KeepsEach(old, ids, n),
         NEW new, new = old \o (IF \E j \in 1..n : ids[j] = ids[n + 1] THEN <<>> ELSE <<ids[n + 1]>>)
  PROVE  new \in Seq(V) /\ KeepsEach(new, ids, n + 1)
  <1>a. n + 1 \in 1..Len(ids) /\ ids[n + 1] \in V
    OBVIOUS
  <1>b. \A i \in 1..(n + 1) : i \in 1..n \/ i = n + 1
    OBVIOUS
  <1>c. 1..n \subseteq 1..(n + 1) /\ n + 1 \in 1..(n + 1)
    OBVIOUS
  <1>1. CASE \E j \in 1..n : ids[j] = ids[n + 1]
    <2>1. new = old \o <<>>
      BY <1>1
    <2>2. new = old
      BY <2>1
    <2>3. ASSUME NEW k \in DOMAIN old PROVE \E i \in 1..(n + 1) : old[k] = ids[i]
      <3>1. PICK i \in 1..n : old[k] = ids[i]
        BY DEF KeepsEach
      <3> QED
        BY <1>c, <3>1
    <2>4. ASSUME NEW i \in 1..(n + 1) PROVE \E k \in DOMAIN old : old[k] = ids[i]
      <3>1. PICK j \in 1..n : ids[j] = ids[i]
        BY <1>1, <1>b
      <3> QED
        BY <3>1 DEF KeepsEach
    <2>5. KeepsEach(old, ids, n + 1)
      BY <2>3, <2>4 DEF KeepsEach
    <2> QED
      BY <2>2, <2>5
  <1>2. CASE ~ \E j \in 1..n : ids[j] = ids[n + 1]
    <2> DEFINE m == Len(old)
    <2>1. m \in Nat /\ DOMAIN old = 1..m
      OBVIOUS
    <2>2. new = old \o <<ids[n + 1]>>
      BY <1>2
    <2>3. /\ new \in Seq(V) /\ DOMAIN new = 1..(m + 1)
          /\ new[m + 1] = ids[n + 1]
          /\ \A k \in 1..m : new[k] = old[k]
      BY <1>a, <2>1, <2>2
    <2> HIDE DEF m
    <2>4. \A k \in 1..m : old[k] # ids[n + 1]
      BY <1>2, <2>1 DEF KeepsEach
    <2>5. \A k \in 1..(m + 1) : k \in 1..m \/ k = m + 1
      BY <2>1
    <2>6. 1..m \subseteq 1..(m + 1) /\ m + 1 \in 1..(m + 1)
      BY <2>1
    <2>7. ASSUME NEW k \in DOMAIN new PROVE \E i \in 1..(n + 1) : new[k] = ids[i]
      <3>1. CASE k = m + 1
        BY <1>c, <2>3, <3>1
      <3>2. CASE k \in 1..m
        <4>1. PICK i \in 1..n : old[k] = ids[i]
          BY <2>1, <3>2 DEF KeepsEach
        <4> QED
          BY <1>c, <2>3, <3>2, <4>1
      <3> QED
        BY <2>3, <2>5, <2>7, <3>1, <3>2
    <2>8. ASSUME NEW i \in 1..(n + 1) PROVE \E k \in DOMAIN new : new[k] = ids[i]
      <3>1. CASE i = n + 1
        BY <2>3, <2>6, <3>1
      <3>2. CASE i \in 1..n
        <4>1. PICK k \in 1..m : old[k] = ids[i]
          BY <2>1, <3>2 DEF KeepsEach
        <4> QED
          BY <2>3, <2>6, <4>1
      <3> QED
        BY <1>b, <2>8, <3>1, <3>2
    <2>9. ASSUME NEW i \in DOMAIN new, NEW j \in DOMAIN new, new[i] = new[j]
          PROVE  i = j
      <3>1. (i \in 1..m \/ i = m + 1) /\ (j \in 1..m \/ j = m + 1)
        BY <2>3, <2>5
      <3>2. CASE i \in 1..m /\ j \in 1..m
        BY <2>1, <2>3, <2>9, <3>2 DEF KeepsEach
      <3>3. CASE i \in 1..m /\ j = m + 1
        BY <2>3, <2>4, <2>9, <3>3
      <3>4. CASE i = m + 1 /\ j \in 1..m
        BY <2>3, <2>4, <2>9, <3>4
      <3> QED
        BY <3>1, <3>2, <3>3, <3>4
    <2> QED
      BY <2>3, <2>7, <2>8, <2>9 DEF KeepsEach
  <1> QED
    BY <1>1, <1>2

LEMMA DistinctIs ==
  ASSUME NEW V, NEW ids \in Seq(V)
  PROVE  /\ Distinct(ids) \in Seq(V)
         /\ ToSet(Distinct(ids)) = ToSet(ids)
         /\ \A i, j \in DOMAIN Distinct(ids) : Distinct(ids)[i] = Distinct(ids)[j] => i = j
  <1> DEFINE next == [n \in 1..Len(ids) |-> IF \E j \in 1..(n - 1) : ids[j] = ids[n]
                                            THEN <<>> ELSE <<ids[n]>>]
             Join(a, b) == a \o b
  <1>1. PICK kept : /\ kept = [n \in 0..Len(ids) |->
                                 IF n = 0 THEN <<>>
                                 ELSE kept[n - 1] \o (IF \E j \in 1..(n - 1) : ids[j] = ids[n]
                                                      THEN <<>> ELSE <<ids[n]>>)]
                    /\ Distinct(ids) = kept[Len(ids)]
    BY DistinctUnrolls
  <1>2. Len(ids) \in Nat /\ DOMAIN ids = 1..Len(ids)
    OBVIOUS
  <1>3. \A n \in 1..Len(ids) : next[n] = IF \E j \in 1..(n - 1) : ids[j] = ids[n]
                                         THEN <<>> ELSE <<ids[n]>>
    OBVIOUS
  <1>4. \A n \in 1..Len(ids) : n \in 0..Len(ids) /\ n # 0
    BY <1>2
  <1>5. kept[0] = <<>> /\ \A n \in 1..Len(ids) : kept[n] = Join(kept[n - 1], next[n])
    <2> DEFINE Body(n) == IF n = 0 THEN <<>>
                          ELSE kept[n - 1] \o (IF \E j \in 1..(n - 1) : ids[j] = ids[n]
                                               THEN <<>> ELSE <<ids[n]>>)
    <2>1. kept = [n \in 0..Len(ids) |-> Body(n)]
      BY <1>1
    <2>2. Body(0) = <<>>
      OBVIOUS
    <2>3. ASSUME NEW n \in 1..Len(ids) PROVE Body(n) = Join(kept[n - 1], next[n])
      BY <1>3, <1>4
    <2> HIDE DEF Body, Join, next
    <2>4. \A n \in 0..Len(ids) : kept[n] = Body(n)
      BY <2>1
    <2> QED
      BY <1>2, <1>4, <2>2, <2>3, <2>4
  <1> HIDE DEF next
  <1> DEFINE S == {n \in Nat : n <= Len(ids) => kept[n] \in Seq(V) /\ KeepsEach(kept[n], ids, n)}
  <1>6. 0 \in S
    <2>1. <<>> \in Seq(V) /\ KeepsEach(<<>>, ids, 0)
      BY DEF KeepsEach
    <2> QED
      BY <1>5, <2>1
  <1>7. ASSUME NEW n \in Nat, n \in S
        PROVE  n + 1 \in S
    <2> SUFFICES ASSUME n + 1 <= Len(ids)
                 PROVE  kept[n + 1] \in Seq(V) /\ KeepsEach(kept[n + 1], ids, n + 1)
      OBVIOUS
    <2>1. kept[n] \in Seq(V) /\ KeepsEach(kept[n], ids, n)
      BY <1>2, <1>7
    <2>2. n + 1 \in 1..Len(ids) /\ (n + 1) - 1 = n
      BY <1>2
    <2>3. kept[n + 1] = kept[n] \o next[n + 1]
      BY <1>5, <2>2
    <2>4. next[n + 1] = IF \E j \in 1..n : ids[j] = ids[n + 1] THEN <<>> ELSE <<ids[n + 1]>>
      BY <1>3, <2>2
    <2>5. kept[n + 1] = kept[n] \o (IF \E j \in 1..n : ids[j] = ids[n + 1]
                                    THEN <<>> ELSE <<ids[n + 1]>>)
      BY <2>3, <2>4
    <2> QED
      BY <2>1, <2>5, KeepsOneMore
  <1> HIDE DEF S
  <1>8. Len(ids) \in S
    BY <1>2, <1>6, <1>7, SetInduction
  <1>9. Distinct(ids) \in Seq(V) /\ KeepsEach(Distinct(ids), ids, Len(ids))
    BY <1>1, <1>2, <1>8 DEF S
  <1> QED
    BY <1>2, <1>9 DEF ToSet, KeepsEach

-----------------------------------------------------------------------------
(* sorted().                                                               *)

Orders(p, n, R) ==
  /\ p \in [1..n -> 1..n]
  /\ \A x \in 1..n : \E i \in 1..n : p[i] = x
  /\ \A i, j \in 1..n : i < j => <<p[i], p[j]>> \in R

(* Places 1..n can be put in any order that is total and transitive: the   *)
(* next place is inserted before the first that it comes before.           *)
LEMMA OrderGrows ==
  ASSUME NEW n \in Nat, NEW R,
         \A i, j \in 1..(n + 1) : <<i, j>> \in R \/ <<j, i>> \in R,
         \A i, j, k \in 1..(n + 1) : <<i, j>> \in R /\ <<j, k>> \in R => <<i, k>> \in R,
         NEW p, Orders(p, n, R)
  PROVE  \E q : Orders(q, n + 1, R)
  <1> DEFINE after == {i \in 1..n : <<p[i], n + 1>> \notin R} \cup {n + 1}
  <1>1. \E k \in after : \A other \in after : k <= other
    <2>1. after \in SUBSET Nat /\ after # {}
      OBVIOUS
    <2> HIDE DEF after
    <2> QED
      BY <2>1, LeastExists
  <1>2. PICK k \in after : \A other \in after : k <= other
    BY <1>1
  <1> DEFINE q == [i \in 1..(n + 1) |-> IF i < k THEN p[i] ELSE IF i = k THEN n + 1 ELSE p[i - 1]]
  <1>3. k \in 1..(n + 1) /\ \A i \in 1..n : p[i] \in 1..n
    <2>1. after \subseteq 1..(n + 1)
      OBVIOUS
    <2>2. k \in 1..(n + 1)
      BY <1>2, <2>1
    <2> QED
      BY <2>2 DEF Orders
  <1>4. q \in [1..(n + 1) -> 1..(n + 1)]
    BY <1>3
  <1>5. ASSUME NEW x \in 1..(n + 1)
        PROVE  \E i \in 1..(n + 1) : q[i] = x
    <2>1. CASE x = n + 1
      BY <1>3, <2>1
    <2>2. CASE x \in 1..n
      <3>1. PICK i \in 1..n : p[i] = x
        BY <2>2 DEF Orders
      <3>2. CASE i < k
        BY <3>1, <3>2
      <3>3. CASE i >= k
        <4>1. i + 1 \in 1..(n + 1) /\ q[i + 1] = p[i]
          BY <1>3, <3>3
        <4> QED
          BY <3>1, <4>1
      <3> QED
        BY <1>3, <3>2, <3>3
    <2> QED
      BY <2>1, <2>2
  <1>6. ASSUME NEW i \in 1..n, i < k
        PROVE  <<p[i], n + 1>> \in R
    BY <1>2, <1>3, <1>6
  <1>7. ASSUME NEW i \in 1..n, i >= k
        PROVE  <<n + 1, p[i]>> \in R
    <2>1. k \in 1..n /\ <<p[k], n + 1>> \notin R
      BY <1>2, <1>3, <1>7
    <2>2. p[k] \in 1..(n + 1) /\ p[i] \in 1..(n + 1) /\ n + 1 \in 1..(n + 1)
      BY <1>3, <2>1
    <2>3. <<n + 1, p[k]>> \in R
      BY <2>1, <2>2
    <2>4. CASE i = k
      BY <2>3, <2>4
    <2>5. CASE i > k
      <3>1. <<p[k], p[i]>> \in R
        BY <2>1, <2>5 DEF Orders
      <3> QED
        BY <2>2, <2>3, <3>1
    <2> QED
      BY <1>3, <1>7, <2>4, <2>5
  <1>8. ASSUME NEW i \in 1..(n + 1), NEW j \in 1..(n + 1), i < j
        PROVE  <<q[i], q[j]>> \in R
    <2>1. CASE j < k
      <3>1. q[i] = p[i] /\ q[j] = p[j] /\ i \in 1..n /\ j \in 1..n
        BY <1>3, <1>8, <2>1
      <3> QED
        BY <1>8, <3>1 DEF Orders
    <2>2. CASE j = k
      <3>1. q[i] = p[i] /\ q[j] = n + 1 /\ i \in 1..n /\ i < k
        BY <1>3, <1>8, <2>2
      <3> QED
        BY <1>6, <3>1
    <2>3. CASE j > k /\ i < k
      <3>1. q[i] = p[i] /\ q[j] = p[j - 1] /\ i \in 1..n /\ j - 1 \in 1..n /\ i < j - 1
        BY <1>3, <1>8, <2>3
      <3> QED
        BY <3>1 DEF Orders
    <2>4. CASE j > k /\ i = k
      <3>1. q[i] = n + 1 /\ q[j] = p[j - 1] /\ j - 1 \in 1..n /\ j - 1 >= k
        BY <1>3, <1>8, <2>4
      <3> QED
        BY <1>7, <3>1
    <2>5. CASE j > k /\ i > k
      <3>1. q[i] = p[i - 1] /\ q[j] = p[j - 1] /\ i - 1 \in 1..n /\ j - 1 \in 1..n /\ i - 1 < j - 1
        BY <1>3, <1>8, <2>5
      <3> QED
        BY <3>1 DEF Orders
    <2> QED
      BY <1>3, <1>8, <2>1, <2>2, <2>3, <2>4, <2>5
  <1> HIDE DEF q
  <1>9. Orders(q, n + 1, R)
    BY <1>4, <1>5, <1>8 DEF Orders
  <1> QED
    BY <1>9

LEMMA OrderExists ==
  ASSUME NEW N \in Nat, NEW R,
         \A i, j \in 1..N : <<i, j>> \in R \/ <<j, i>> \in R,
         \A i, j, k \in 1..N : <<i, j>> \in R /\ <<j, k>> \in R => <<i, k>> \in R
  PROVE  \E p : Orders(p, N, R)
  <1> DEFINE S == {n \in Nat : n <= N => \E p : Orders(p, n, R)}
  <1>1. 0 \in S
    <2>1. Orders([i \in 1..0 |-> 0], 0, R)
      BY DEF Orders
    <2> QED
      BY <2>1
  <1>2. ASSUME NEW n \in Nat, n \in S
        PROVE  n + 1 \in S
    <2>1. ASSUME n + 1 <= N
          PROVE  \E p : Orders(p, n + 1, R)
      <3>1. PICK p : Orders(p, n, R)
        BY <1>2, <2>1
      <3>2. 1..(n + 1) \subseteq 1..N
        BY <2>1
      <3>3. \A i, j \in 1..(n + 1) : <<i, j>> \in R \/ <<j, i>> \in R
        BY <3>2
      <3>4. \A i, j, k \in 1..(n + 1) : <<i, j>> \in R /\ <<j, k>> \in R => <<i, k>> \in R
        BY <3>2
      <3> QED
        BY <3>1, <3>3, <3>4, OrderGrows
    <2> QED
      BY <2>1
  <1> HIDE DEF S
  <1>3. N \in S
    BY <1>1, <1>2, SetInduction
  <1> QED
    BY <1>3 DEF S
(* An order of n places uses each of them once.                            *)
LEMMA OrdersAreOneToOne ==
  ASSUME NEW n \in Nat, NEW R, NEW p, Orders(p, n, R)
  PROVE  \A i, j \in 1..n : p[i] = p[j] => i = j
  <1>1. p \in Surjection(1..n, 1..n)
    BY DEF Orders, Surjection
  <1>2. IsFiniteSet(1..n)
    BY FS_Interval
  <1>3. p \in Injection(1..n, 1..n)
    BY <1>1, <1>2, FS_SurjSameCardinalityImpliesInj
  <1> QED
    BY <1>3 DEF Injection, IsInjective

(* The findings an assessment can make.                                    *)
Graded == [id : Ids, kind : {"disclosure", "script_segment", "unconfigured"},
           status : Statuses, severity : Severities]

LEMMA GradedFields ==
  ASSUME NEW f \in Graded
  PROVE  f.id \in Ids /\ f.id \in Int /\ f.severity \in Severities
  <1>1. f.id \in Ids /\ f.severity \in Severities
    BY DEF Graded
  <1>2. \A id \in Ids : id \in Int
    <2>1. Ids \subseteq Nat
      BY PackAssumption
    <2> QED
      BY <2>1
  <1> QED
    BY <1>1, <1>2

LEMMA RankIs ==
  ASSUME NEW s \in Severities, NEW t \in Severities
  PROVE  /\ Rank[s] \in 0..3
         /\ Rank[s] = Rank[t] => s = t
  BY DEF Severities, Rank

(* Before is a strict order that tells findings of two obligations apart.  *)
LEMMA BeforeIsOrder ==
  ASSUME NEW f \in Graded, NEW g \in Graded
  PROVE  /\ ~Before(f, g) \/ ~Before(g, f)
         /\ f.id # g.id => Before(f, g) \/ Before(g, f)
  <1>1. f.id \in Int /\ g.id \in Int /\ f.severity \in Severities /\ g.severity \in Severities
    BY GradedFields
  <1>2. Rank[f.severity] \in 0..3 /\ Rank[g.severity] \in 0..3
    BY <1>1, RankIs
  <1> QED
    BY <1>1, <1>2 DEF Before, Satisfied

LEMMA BeforeIsTransitive ==
  ASSUME NEW f \in Graded, NEW g \in Graded, NEW h \in Graded,
         ~Before(g, f), ~Before(h, g)
  PROVE  ~Before(h, f)
  <1>1. /\ f.id \in Int /\ g.id \in Int /\ h.id \in Int
        /\ f.severity \in Severities /\ g.severity \in Severities /\ h.severity \in Severities
    BY GradedFields
  <1>2. Rank[f.severity] \in 0..3 /\ Rank[g.severity] \in 0..3 /\ Rank[h.severity] \in 0..3
    BY <1>1, RankIs
  <1> QED
    BY <1>1, <1>2 DEF Before, Satisfied

Rearranges(p, list, sorted, n) ==
  /\ p \in [1..n -> 1..n]
  /\ \A x \in 1..n : \E i \in 1..n : p[i] = x
  /\ \A i, j \in 1..n : p[i] = p[j] => i = j
  /\ \A i \in 1..n : sorted[i] = list[p[i]]

LEMMA SortedIs ==
  ASSUME NEW n \in Nat, NEW list \in [1..n -> Graded], NEW sorted, sorted = Sorted(list)
  PROVE  /\ sorted \in [1..n -> Graded]
         /\ \E p : Rearranges(p, list, sorted, n)
         /\ \A i, j \in 1..n : i < j => ~Before(sorted[j], sorted[i])
  <1> DEFINE R == {pair \in (1..n) \X (1..n) : ~Before(list[pair[2]], list[pair[1]])}
             Right(fs) == \A i, j \in DOMAIN fs : i < j => ~Before(fs[j], fs[i])
  <1>1. \A i, j \in 1..n : <<i, j>> \in R <=> ~Before(list[j], list[i])
    OBVIOUS
  <1>2. \A i \in 1..n : list[i] \in Graded
    OBVIOUS
  <1> HIDE DEF R
  <1>3. \E p : Orders(p, n, R)
    <2>1. \A i, j \in 1..n : <<i, j>> \in R \/ <<j, i>> \in R
      BY <1>1, <1>2, BeforeIsOrder
    <2>2. \A i, j, k \in 1..n : <<i, j>> \in R /\ <<j, k>> \in R => <<i, k>> \in R
      BY <1>1, <1>2, BeforeIsTransitive
    <2> QED
      BY <2>1, <2>2, OrderExists
  <1>4. PICK p : Orders(p, n, R)
    BY <1>3
  <1>5. p \in [1..n -> 1..n] /\ ToSet(p) = 1..n
    BY <1>4 DEF Orders, ToSet
  <1>6. DOMAIN list = 1..n
    OBVIOUS
  <1> DEFINE mine == [i \in 1..n |-> list[p[i]]]
  <1>7. mine \in Rearrangements(list)
    BY <1>5, <1>6 DEF Rearrangements
  <1>8. Right(mine)
    <2>1. ASSUME NEW i \in 1..n, NEW j \in 1..n, i < j
          PROVE  ~Before(list[p[j]], list[p[i]])
      BY <1>1, <1>4, <1>5, <2>1 DEF Orders
    <2> QED
      BY <2>1
  <1> HIDE DEF mine
  <1>9. Sorted(list) \in Rearrangements(list) /\ Right(Sorted(list))
    BY <1>7, <1>8 DEF Sorted
  <1>10. PICK q \in [1..n -> 1..n] : ToSet(q) = 1..n /\ Sorted(list) = [i \in 1..n |-> list[q[i]]]
    BY <1>6, <1>9 DEF Rearrangements
  <1>11. \A x \in 1..n : \E i \in 1..n : q[i] = x
    BY <1>10 DEF ToSet
  <1>12. Orders(q, n, (1..n) \X (1..n))
    BY <1>10, <1>11 DEF Orders
  <1>13. \A i, j \in 1..n : q[i] = q[j] => i = j
    BY <1>12, OrdersAreOneToOne
  <1>14. DOMAIN Sorted(list) = 1..n /\ \A i \in 1..n : Sorted(list)[i] = list[q[i]]
    BY <1>10
  <1>15. Sorted(list) \in [1..n -> Graded]
    BY <1>2, <1>10
  <1>16. \A i, j \in 1..n : i < j => ~Before(Sorted(list)[j], Sorted(list)[i])
    BY <1>9, <1>14
  <1> QED
    <2>1. Rearranges(q, list, Sorted(list), n)
      BY <1>10, <1>11, <1>13, <1>14 DEF Rearranges
    <2> QED
      BY <1>15, <1>16, <2>1

(* What an assessment makes of a declaration: one finding for each of its  *)
(* ids, in the order of the sort key.                                      *)
Orderly(findings, ids, heard) ==
  /\ findings \in Seq(Graded)
  /\ ToSet(findings) = {Finding(id, heard[id]) : id \in ToSet(ids)}
  /\ \A i, j \in DOMAIN findings : findings[i].id = findings[j].id => i = j
  /\ \A i, j \in DOMAIN findings : i < j => Before(findings[i], findings[j])

LEMMA FindingIs ==
  ASSUME pack \in Packs, NEW id \in Ids, NEW manner \in Manners
  PROVE  /\ Finding(id, manner) \in Graded
         /\ Finding(id, manner).id = id
  <1>1. pack \in ScorePack
    BY PackAssumption
  <1>2. StatusOf(Adherence(manner)) \in Statuses
    BY DEF StatusOf, Adherence, Manners, Statuses
  <1>3. CASE Configured(id)
    <2>1. pack.requirements[id] \in Requirement
      BY <1>1, <1>3 DEF ScorePack, Configured
    <2>2. pack.requirements[id].kind \in {"disclosure", "script_segment"}
          /\ pack.requirements[id].severity \in Severities
      BY <2>1 DEF Requirement
    <2>3. Finding(id, manner)
            = [id |-> id, kind |-> pack.requirements[id].kind, status |-> StatusOf(Adherence(manner)),
               severity |-> pack.requirements[id].severity]
      BY <1>3 DEF Finding
    <2> QED
      BY <1>2, <2>2, <2>3 DEF Graded
  <1>4. CASE ~Configured(id)
    BY <1>4 DEF Finding, Graded, Statuses, Severities
  <1> QED
    BY <1>3, <1>4

LEMMA FindingsAreOrderly ==
  ASSUME pack \in Packs, NEW ids \in Seq(Ids), NEW heard \in [Ids -> Manners]
  PROVE  Orderly(Findings(ids, heard), ids, heard)
  <1> DEFINE owed == Distinct(ids)
             n == Len(owed)
             list == [i \in DOMAIN owed |-> Finding(owed[i], heard[owed[i]])]
             findings == Findings(ids, heard)
  <1>1. /\ owed \in Seq(Ids) /\ ToSet(owed) = ToSet(ids)
        /\ \A i, j \in DOMAIN owed : owed[i] = owed[j] => i = j
    BY DistinctIs
  <1>2. n \in Nat /\ DOMAIN owed = 1..n /\ \A i \in 1..n : owed[i] \in Ids
    BY <1>1
  <1>3. findings = Sorted(list)
    BY DEF Findings
  <1>4. \A i \in 1..n : /\ list[i] = Finding(owed[i], heard[owed[i]])
                        /\ list[i] \in Graded /\ list[i].id = owed[i]
    BY <1>2, FindingIs
  <1>5. list \in [1..n -> Graded]
    BY <1>2, <1>4
  <1> HIDE DEF list, findings, owed, n
  <1>6. /\ findings \in [1..n -> Graded]
        /\ \A i, j \in 1..n : i < j => ~Before(findings[j], findings[i])
    BY <1>2, <1>3, <1>5, SortedIs
  <1>7. PICK p : Rearranges(p, list, findings, n)
    BY <1>2, <1>3, <1>5, SortedIs
  <1>a. /\ p \in [1..n -> 1..n]
        /\ \A x \in 1..n : \E i \in 1..n : p[i] = x
        /\ \A i, j \in 1..n : p[i] = p[j] => i = j
        /\ \A i \in 1..n : findings[i] = list[p[i]]
    BY <1>7 DEF Rearranges
  <1>8. findings \in Seq(Graded) /\ DOMAIN findings = 1..n
    BY <1>2, <1>6
  <1>9. \A i, j \in 1..n : findings[i].id = findings[j].id => i = j
    <2> SUFFICES ASSUME NEW i \in 1..n, NEW j \in 1..n, findings[i].id = findings[j].id
                 PROVE  i = j
      OBVIOUS
    <2>1. p[i] \in 1..n /\ p[j] \in 1..n
      BY <1>a
    <2>2. findings[i].id = owed[p[i]] /\ findings[j].id = owed[p[j]]
      BY <1>4, <1>a, <2>1
    <2>3. p[i] = p[j]
      BY <1>1, <1>2, <2>1, <2>2
    <2> QED
      BY <1>a, <2>3
  <1>10. \A i, j \in 1..n : i < j => Before(findings[i], findings[j])
    <2> SUFFICES ASSUME NEW i \in 1..n, NEW j \in 1..n, i < j
                 PROVE  Before(findings[i], findings[j])
      OBVIOUS
    <2>1. findings[i].id # findings[j].id
      BY <1>9
    <2>2. findings[i] \in Graded /\ findings[j] \in Graded
      BY <1>6
    <2> QED
      BY <1>6, <2>1, <2>2, BeforeIsOrder
  <1>11. ToSet(findings) = {Finding(id, heard[id]) : id \in ToSet(ids)}
    <2>1. ASSUME NEW f \in ToSet(findings)
          PROVE  \E id \in ToSet(ids) : f = Finding(id, heard[id])
      <3>1. PICK i \in 1..n : f = findings[i]
        BY <1>8, <2>1 DEF ToSet
      <3>2. f = Finding(owed[p[i]], heard[owed[p[i]]]) /\ p[i] \in 1..n
        BY <1>4, <1>a, <3>1
      <3>3. owed[p[i]] \in ToSet(ids)
        BY <1>1, <1>2, <3>2 DEF ToSet
      <3> QED
        BY <3>2, <3>3
    <2>2. ASSUME NEW id \in ToSet(ids)
          PROVE  Finding(id, heard[id]) \in ToSet(findings)
      <3>1. PICK x \in 1..n : owed[x] = id
        BY <1>1, <1>2, <2>2 DEF ToSet
      <3>2. PICK i \in 1..n : p[i] = x
        BY <1>a
      <3>3. findings[i] = Finding(id, heard[id])
        BY <1>4, <1>a, <3>1, <3>2
      <3> QED
        BY <1>8, <3>3 DEF ToSet
    <2> QED
      BY <2>1, <2>2
  <1> QED
    BY <1>8, <1>9, <1>10, <1>11 DEF Orderly, findings
-----------------------------------------------------------------------------
(* Two lists in the order of the sort key that hold the same findings, one *)
(* of each obligation, are one list: at the first place where they differ, *)
(* each would have to come before the other.                               *)
InOrder(findings) ==
  /\ findings \in Seq(Graded)
  /\ \A i, j \in DOMAIN findings : findings[i].id = findings[j].id => i = j
  /\ \A i, j \in DOMAIN findings : i < j => Before(findings[i], findings[j])

LEMMA AgreeWhereBothAre ==
  ASSUME NEW fs, NEW gs, InOrder(fs), InOrder(gs), ToSet(fs) = ToSet(gs)
  PROVE  \A k \in DOMAIN fs \cap DOMAIN gs : fs[k] = gs[k]
  <1>1. /\ fs \in Seq(Graded) /\ DOMAIN fs = 1..Len(fs) /\ Len(fs) \in Nat
        /\ gs \in Seq(Graded) /\ DOMAIN gs = 1..Len(gs) /\ Len(gs) \in Nat
    BY DEF InOrder
  <1> DEFINE differ == {k \in DOMAIN fs \cap DOMAIN gs : fs[k] # gs[k]}
  <1>2. ASSUME differ # {} PROVE FALSE
    <2>1. differ \in SUBSET Nat
      BY <1>1
    <2>2. PICK k \in differ : \A other \in differ : k <= other
      BY <1>2, <2>1, LeastExists
    <2>3. /\ k \in DOMAIN fs /\ k \in DOMAIN gs /\ fs[k] # gs[k] /\ k \in Nat
          /\ fs[k] \in Graded /\ gs[k] \in Graded
      BY <1>1, <2>2
    <2>4. \A i \in 1..(k - 1) : i \in DOMAIN fs /\ i \in DOMAIN gs /\ fs[i] = gs[i]
      <3> SUFFICES ASSUME NEW i \in 1..(k - 1)
                   PROVE  i \in DOMAIN fs /\ i \in DOMAIN gs /\ fs[i] = gs[i]
        OBVIOUS
      <3>1. i \in DOMAIN fs /\ i \in DOMAIN gs /\ ~(k <= i)
        BY <1>1, <2>3
      <3> QED
        BY <2>2, <3>1
    <2>5. PICK l \in DOMAIN fs : fs[l] = gs[k]
      BY <2>3 DEF ToSet
    <2>6. PICK m \in DOMAIN gs : gs[m] = fs[k]
      BY <2>3 DEF ToSet
    <2>7. l > k
      <3>1. l \in Nat /\ l # k
        BY <1>1, <2>3, <2>5
      <3>2. CASE l < k
        <4>1. l \in 1..(k - 1)
          BY <1>1, <2>3, <2>5, <3>2
        <4>2. gs[l] = gs[k] /\ l \in DOMAIN gs
          BY <2>4, <2>5, <4>1
        <4> QED
          BY <2>3, <3>1, <4>2 DEF InOrder
      <3> QED
        BY <2>3, <3>1, <3>2
    <2>8. m > k
      <3>1. m \in Nat /\ m # k
        BY <1>1, <2>3, <2>6
      <3>2. CASE m < k
        <4>1. m \in 1..(k - 1)
          BY <1>1, <2>3, <2>6, <3>2
        <4>2. fs[m] = fs[k] /\ m \in DOMAIN fs
          BY <2>4, <2>6, <4>1
        <4> QED
          BY <2>3, <3>1, <4>2 DEF InOrder
      <3> QED
        BY <2>3, <3>1, <3>2
    <2>9. Before(fs[k], gs[k]) /\ Before(gs[k], fs[k])
      BY <2>3, <2>5, <2>6, <2>7, <2>8 DEF InOrder
    <2> QED
      BY <2>3, <2>9, BeforeIsOrder
  <1> QED
    BY <1>2

LEMMA NeitherIsLonger ==
  ASSUME NEW fs, NEW gs, InOrder(fs), InOrder(gs), ToSet(fs) = ToSet(gs),
         NEW n \in Nat, NEW m \in Nat, DOMAIN fs = 1..n, DOMAIN gs = 1..m
  PROVE  n >= m
  <1> SUFFICES ASSUME n + 1 <= m PROVE FALSE
    OBVIOUS
  <1>1. n + 1 \in 1..m
    OBVIOUS
  <1>2. PICK i \in 1..n : fs[i] = gs[n + 1]
    BY <1>1 DEF ToSet
  <1>3. i \in 1..m /\ i # n + 1
    BY <1>2
  <1>4. gs[i] = gs[n + 1]
    BY <1>2, <1>3, AgreeWhereBothAre
  <1> QED
    BY <1>1, <1>3, <1>4 DEF InOrder

LEMMA SameFindingsSameList ==
  ASSUME NEW fs, NEW gs, InOrder(fs), InOrder(gs), ToSet(fs) = ToSet(gs)
  PROVE  fs = gs
  <1> DEFINE n == Len(fs)
             m == Len(gs)
  <1>1. /\ fs \in Seq(Graded) /\ DOMAIN fs = 1..n /\ n \in Nat
        /\ gs \in Seq(Graded) /\ DOMAIN gs = 1..m /\ m \in Nat
    BY DEF InOrder
  <1>2. \A k \in DOMAIN fs \cap DOMAIN gs : fs[k] = gs[k]
    BY AgreeWhereBothAre
  <1> HIDE DEF n, m
  <1>3. n = m
    BY <1>1, NeitherIsLonger
  <1> QED
    BY <1>1, <1>2, <1>3
-----------------------------------------------------------------------------
(* More failing findings and more cues never make the roll-up milder.      *)

SeveritiesInPlay(failing, measured, cues, seen) ==
  {f.severity : f \in failing} \cup {cues[cue].severity : cue \in Vulnerabilities(cues, seen)}
    \cup (IF measured THEN {} ELSE {"critical"})

LEMMA SeverityIs ==
  ASSUME NEW failing \in SUBSET Graded, NEW measured \in BOOLEAN,
         NEW cues \in [Cues -> CueSet], NEW seen \in SUBSET Cues, NEW s,
         s = Severity(failing, measured, cues, seen)
  PROVE  /\ s \in Severities
         /\ \A other \in SeveritiesInPlay(failing, measured, cues, seen) : Rank[s] <= Rank[other]
         /\ s \in SeveritiesInPlay(failing, measured, cues, seen) \/ s = "low"
  <1> DEFINE S == SeveritiesInPlay(failing, measured, cues, seen)
  <1>1. S \subseteq Severities
    <2>1. {f.severity : f \in failing} \subseteq Severities
      BY DEF Graded
    <2>2. {cues[cue].severity : cue \in Vulnerabilities(cues, seen)} \subseteq Severities
      BY DEF Vulnerabilities, CueSet
    <2> QED
      BY <2>1, <2>2 DEF SeveritiesInPlay, Severities
  <1>2. CASE S = {}
    BY <1>2 DEF Severity, SeveritiesInPlay, Severities
  <1>3. CASE S # {}
    <2>1. s = CHOOSE t \in S : \A other \in S : Rank[t] <= Rank[other]
      BY <1>3 DEF Severity, SeveritiesInPlay
    <2> HIDE DEF S
    <2>2. s \in S /\ \A other \in S : Rank[s] <= Rank[other]
      BY <1>1, <1>3, <2>1, WorstExists
    <2> QED
      BY <1>1, <2>2 DEF S
  <1> QED
    BY <1>2, <1>3

LEMMA RollUpIsMonotonic ==
  ASSUME NEW fewer \in SUBSET Graded, NEW more \in SUBSET Graded, fewer \subseteq more,
         NEW measured \in BOOLEAN, NEW cues \in [Cues -> CueSet],
         NEW less \in SUBSET Cues, NEW seen \in SUBSET Cues, less \subseteq seen
  PROVE  /\ Gravity[Disposition(fewer, measured, cues, less)]
              <= Gravity[Disposition(more, measured, cues, seen)]
         /\ Rank[Severity(fewer, measured, cues, less)] >= Rank[Severity(more, measured, cues, seen)]
  <1>1. Vulnerabilities(cues, less) \subseteq Vulnerabilities(cues, seen)
    BY DEF Vulnerabilities
  <1>2. ConsequentialCue(cues, less) => ConsequentialCue(cues, seen)
    BY <1>1 DEF ConsequentialCue
  <1>3. Gravity[Disposition(fewer, measured, cues, less)]
          <= Gravity[Disposition(more, measured, cues, seen)]
    <2> DEFINE Open(failing) == \E f \in failing : f.status \in {"gap", "unverifiable", "pending"}
               Breach(failing) == \E f \in failing : f.severity \in {"critical", "high"}
               Wrong(failing, cue) == failing # {} \/ cue
    <2>1. /\ Open(fewer) => Open(more)
          /\ Breach(fewer) => Breach(more)
          /\ Wrong(fewer, ConsequentialCue(cues, less)) => Wrong(more, ConsequentialCue(cues, seen))
      BY <1>2
    <2>2. \A failing, set :
            Disposition(failing, measured, cues, set)
              = IF ~measured THEN "indeterminate"
                ELSE IF Open(failing) THEN "indeterminate"
                ELSE IF Breach(failing) THEN "non_compliant"
                ELSE IF Wrong(failing, ConsequentialCue(cues, set)) THEN "remediate"
                ELSE "compliant"
      BY DEF Disposition
    <2> HIDE DEF Open, Breach, Wrong
    <2> QED
      BY <2>1, <2>2 DEF Gravity
  <1>4. Rank[Severity(fewer, measured, cues, less)] >= Rank[Severity(more, measured, cues, seen)]
    <2> DEFINE mild == Severity(fewer, measured, cues, less)
               grave == Severity(more, measured, cues, seen)
    <2>1. /\ mild \in Severities
          /\ mild \in SeveritiesInPlay(fewer, measured, cues, less) \/ mild = "low"
      BY SeverityIs
    <2>2. /\ grave \in Severities
          /\ \A other \in SeveritiesInPlay(more, measured, cues, seen) : Rank[grave] <= Rank[other]
      BY SeverityIs
    <2>3. SeveritiesInPlay(fewer, measured, cues, less)
            \subseteq SeveritiesInPlay(more, measured, cues, seen)
      BY <1>1 DEF SeveritiesInPlay
    <2> HIDE DEF mild, grave
    <2>4. CASE mild \in SeveritiesInPlay(fewer, measured, cues, less)
      <3>1. Rank[grave] <= Rank[mild]
        BY <2>2, <2>3, <2>4
      <3>2. Rank[grave] \in 0..3 /\ Rank[mild] \in 0..3
        BY <2>1, <2>2, RankIs
      <3> QED
        BY <3>1, <3>2 DEF mild, grave
    <2>5. CASE mild = "low"
      <3>1. Rank[grave] \in 0..3 /\ Rank[mild] = 3
        BY <2>2, <2>5, RankIs DEF Rank
      <3> QED
        BY <3>1 DEF mild, grave
    <2> QED
      BY <2>1, <2>4, <2>5
  <1> QED
    BY <1>3, <1>4

(* round() of a ratio grows with what is counted.                          *)
LEMMA DivisionGrows ==
  ASSUME NEW a \in Nat, NEW b \in Nat, a <= b, NEW d \in Nat, d > 0
  PROVE  a \div d <= b \div d
  <1> DEFINE p == a \div d
             q == b \div d
  <1>1. p \in Int /\ q \in Int
    OBVIOUS
  <1>2. d * p <= a /\ b < d * (q + 1)
    OBVIOUS
  <1> HIDE DEF p, q
  <1>3. ASSUME p >= q + 1 PROVE FALSE
    <2>1. d * p >= d * (q + 1)
      BY <1>1, <1>3
    <2>2. d * p \in Int /\ d * (q + 1) \in Int
      BY <1>1
    <2> QED
      BY <1>2, <2>1, <2>2
  <1> QED
    BY <1>1, <1>3 DEF p, q

LEMMA RatioGrows ==
  ASSUME NEW s \in Nat, NEW t \in Nat, s <= t, NEW total \in Nat
  PROVE  Ratio(s, total) <= Ratio(t, total)
  <1>1. CASE total = 0
    BY <1>1 DEF Ratio
  <1>2. CASE total # 0
    <2>1. /\ 20000 * s + total \in Nat /\ 20000 * t + total \in Nat
          /\ 20000 * s + total <= 20000 * t + total
          /\ 2 * total \in Nat /\ 2 * total > 0
      BY <1>2
    <2>2. (20000 * s + total) \div (2 * total) <= (20000 * t + total) \div (2 * total)
      BY <2>1, DivisionGrows
    <2> QED
      BY <1>2, <2>2 DEF Ratio
  <1> QED
    BY <1>1, <1>2

(* As many findings are of a sort as obligations have one of it.           *)
LEMMA CountedByObligation ==
  ASSUME NEW findings, InOrder(findings), NEW places \in SUBSET DOMAIN findings
  PROVE  /\ IsFiniteSet(places) /\ IsFiniteSet({findings[i].id : i \in places})
         /\ Cardinality(places) \in Nat
         /\ Cardinality(places) = Cardinality({findings[i].id : i \in places})
  <1> DEFINE named == {findings[i].id : i \in places}
             name == [i \in places |-> findings[i].id]
  <1>1. IsFiniteSet(places)
    <2>1. DOMAIN findings = 1..Len(findings) /\ Len(findings) \in Nat
      BY DEF InOrder
    <2>2. IsFiniteSet(DOMAIN findings)
      BY <2>1, FS_Interval
    <2> QED
      BY <2>2, FS_Subset
  <1>2. name \in Bijection(places, named)
    <2>1. name \in [places -> named]
      OBVIOUS
    <2>2. \A i, j \in places : name[i] = name[j] => i = j
      BY DEF InOrder
    <2>3. \A x \in named : \E i \in places : name[i] = x
      OBVIOUS
    <2> QED
      BY <2>1, <2>2, <2>3 DEF Bijection, Injection, Surjection, IsInjective
  <1>3. Cardinality(places) \in Nat
    BY <1>1, FS_CardinalityType
  <1> HIDE DEF named, name
  <1>4. IsFiniteSet(named) /\ Cardinality(named) = Cardinality(places)
    BY <1>1, <1>2, FS_Bijection DEF ExistsBijection
  <1> QED
    BY <1>1, <1>3, <1>4 DEF named
-----------------------------------------------------------------------------
(* The inductive invariant: the scorecard is the engine's answer to the    *)
(* inputs as they are now, and the inputs are what they may be.            *)
InputsOK ==
  /\ declared \in Seq(Ids)
  /\ pack \in Packs
  /\ said \in [Ids -> Manners]
  /\ detected \subseteq Cues
  /\ over \in BOOLEAN

CardIsCurrent == card = ScoreOf(declared, said)

LEMMA DeclarationsAreLists == BoundedSeq(Ids, MaxDeclared) \subseteq Seq(Ids)
  <1>1. ASSUME NEW ids \in BoundedSeq(Ids, MaxDeclared) PROVE ids \in Seq(Ids)
    <2>1. PICK m \in 0..MaxDeclared : ids \in [1..m -> Ids]
      BY DEF BoundedSeq, SeqOf
    <2>2. m \in Nat
      BY PackAssumption
    <2> QED
      BY <2>1, <2>2
  <1> QED
    BY <1>1

LEMMA InitEstablishes == Init => InputsOK /\ CardIsCurrent
  <1> SUFFICES ASSUME Init PROVE InputsOK /\ CardIsCurrent
    OBVIOUS
  <1>1. declared \in Seq(Ids)
    BY DeclarationsAreLists DEF Init
  <1>2. said \in [Ids -> Manners]
    BY DEF Init, Manners
  <1> QED
    BY <1>1, <1>2 DEF Init, InputsOK, CardIsCurrent

LEMMA AssessEstablishes == Assess => CardIsCurrent'
  <1> SUFFICES ASSUME Assess PROVE CardIsCurrent'
    OBVIOUS
  <1>1. PICK findings : findings = Findings(declared, said)' /\ card' = Scorecard(findings)'
    BY DEF Assess
  <1>2. card' = Scorecard(Findings(declared, said))'
    BY <1>1 DEF Scorecard, ScorecardId
  <1> QED
    BY <1>2 DEF CardIsCurrent, ScoreOf

LEMMA StepPreserves == InputsOK /\ CardIsCurrent /\ [Next]_vars => (InputsOK /\ CardIsCurrent)'
  <1> SUFFICES ASSUME InputsOK, CardIsCurrent, [Next]_vars PROVE InputsOK' /\ CardIsCurrent'
    OBVIOUS
  <1>1. CASE UNCHANGED vars
    <2>1. InputsOK'
      BY <1>1 DEF vars, InputsOK
    <2>2. ScoreOf(declared, said)' = ScoreOf(declared, said)
      BY <1>1 DEF vars, ScoreOf, Scorecard, ScorecardId, Findings, Finding, Configured, Adherence
    <2> QED
      BY <1>1, <2>1, <2>2 DEF vars, CardIsCurrent
  <1>2. ASSUME NEW ids \in BoundedSeq(Ids, MaxDeclared), Declare(ids) PROVE InputsOK' /\ Assess
    BY <1>2, DeclarationsAreLists DEF Declare, InputsOK
  <1>3. ASSUME NEW p \in Packs, Deploy(p) PROVE InputsOK' /\ Assess
    BY <1>3 DEF Deploy, InputsOK
  <1>4. ASSUME NEW id \in Ids, NEW manner \in Manners, Say(id, manner) PROVE InputsOK' /\ Assess
    BY <1>4 DEF Say, InputsOK
  <1>5. ASSUME NEW cue \in Cues, Give(cue) PROVE InputsOK' /\ Assess
    BY <1>5 DEF Give, InputsOK
  <1>6. ASSUME HangUp PROVE InputsOK' /\ Assess
    BY <1>6 DEF HangUp, InputsOK
  <1> QED
    BY <1>1, <1>2, <1>3, <1>4, <1>5, <1>6, AssessEstablishes DEF Next

(* The scorecard of a list of findings, by the pack and the cues alone.    *)
FailingOf(findings) == {f \in ToSet(findings) : ~Satisfied(f)}

Key(findings) ==
  [i \in DOMAIN findings |-> <<findings[i].id, findings[i].status, findings[i].severity>>]

CardBy(findings, by, cues) ==
  LET failing == FailingOf(findings)
      measured == findings # <<>>
      disposition == Disposition(failing, measured, by.cues, cues)
  IN  [scorecard_id          |-> [pack |-> by.version, findings |-> Key(findings), signals |-> cues],
       findings              |-> findings,
       disclosure_score      |-> KindScore(findings, "disclosure", "script_segment"),
       adherence_score       |-> KindScore(findings, "script_segment", "disclosure"),
       disposition           |-> disposition,
       requires_human_review |-> disposition # "compliant",
       severity              |-> Severity(failing, measured, by.cues, cues)]

(* What a current scorecard is: one finding for each obligation declared,  *)
(* in the order of the sort key, and their roll-up.                        *)
EngineInv ==
  /\ InputsOK
  /\ card = CardBy(card.findings, pack, detected)
  /\ Orderly(card.findings, declared, said)

LEMMA CurrentIsOrderly ==
  ASSUME InputsOK, CardIsCurrent
  PROVE  EngineInv
  <1>1. Orderly(Findings(declared, said), declared, said)
    BY FindingsAreOrderly DEF InputsOK
  <1>2. card = CardBy(Findings(declared, said), pack, detected)
    BY DEF CardIsCurrent, ScoreOf, Scorecard, ScorecardId, CardBy, FailingOf, Key
  <1>3. card.findings = Findings(declared, said)
    BY <1>2 DEF CardBy
  <1> QED
    BY <1>1, <1>2, <1>3 DEF EngineInv

THEOREM EngineInvariance == Spec => []EngineInv
  <1>1. InputsOK /\ CardIsCurrent => EngineInv
    BY CurrentIsOrderly
  <1> QED
    BY InitEstablishes, StepPreserves, <1>1, PTL DEF Spec

-----------------------------------------------------------------------------
(* The roll-up of a scorecard, over its failing findings.                  *)
LEMMA CardIs ==
  ASSUME EngineInv
  PROVE  LET failing == FailingOf(card.findings)
             measured == card.findings # <<>>
         IN  /\ card.disposition = Disposition(failing, measured, pack.cues, detected)
             /\ card.severity = Severity(failing, measured, pack.cues, detected)
             /\ card.requires_human_review = (card.disposition # "compliant")
  <1> DEFINE findings == card.findings
  <1>1. card = CardBy(findings, pack, detected)
    BY DEF EngineInv
  <1> HIDE DEF findings
  <1> QED
    BY <1>1 DEF CardBy, findings

(* Severity and disposition are rolled up apart from each other; still, no *)
(* scorecard of critical or high severity goes without human review.       *)
THEOREM SevereReviewed == Spec => []SevereCardsAreReviewed
  <1>1. EngineInv => SevereCardsAreReviewed
    <2> SUFFICES ASSUME EngineInv, card.severity \in {"critical", "high"}
                 PROVE  card.requires_human_review
      BY DEF SevereCardsAreReviewed
    <2>1. pack \in Packs /\ detected \in SUBSET Cues
      BY DEF EngineInv, InputsOK
    <2> QED
      BY <2>1, CardIs, SevereScorecardIsReviewed
  <1> QED
    BY <1>1, EngineInvariance, PTL

(* Nothing passes that was not measured, whatever the contact declared and *)
(* the pack configures.                                                    *)
THEOREM UnmeasuredFails == Spec => []NothingUnmeasuredPasses
  <1>1. EngineInv => NothingUnmeasuredPasses
    <2> SUFFICES ASSUME EngineInv, card.disposition = "compliant"
                 PROVE  /\ declared # <<>>
                        /\ \A id \in ToSet(declared) : Configured(id) /\ said[id] = "inside"
                        /\ \A cue \in detected :
                             pack.cues[cue].kind = "vulnerability"
                               => pack.cues[cue].severity \in {"medium", "low"}
      BY DEF NothingUnmeasuredPasses
    <2> DEFINE findings == card.findings
               failing == FailingOf(findings)
    <2>1. Disposition(failing, findings # <<>>, pack.cues, detected) = "compliant"
      BY CardIs
    <2>2. findings # <<>> /\ failing = {} /\ ~ConsequentialCue(pack.cues, detected)
      BY <2>1 DEF Disposition
    <2>3. /\ findings \in Seq(Graded)
          /\ ToSet(findings) = {Finding(id, said[id]) : id \in ToSet(declared)}
      BY DEF EngineInv, Orderly
    <2>4. declared # <<>>
      <3>1. ToSet(findings) # {}
        <4> HIDE DEF findings
        <4>1. findings # <<>> /\ findings \in Seq(Graded)
          BY <2>2, <2>3
        <4>2. 1 \in DOMAIN findings
          BY <4>1
        <4> QED
          BY <4>2 DEF ToSet
      <3>2. ToSet(declared) # {}
        BY <2>3, <3>1
      <3> QED
        BY <3>2 DEF ToSet
    <2>5. ASSUME NEW id \in ToSet(declared)
          PROVE  Configured(id) /\ said[id] = "inside"
      <3>1. Satisfied(Finding(id, said[id]))
        BY <2>2, <2>3 DEF FailingOf
      <3>2. said[id] \in Manners
        BY DEF EngineInv, InputsOK, ToSet
      <3>3. Configured(id)
        BY <3>1 DEF Satisfied, Finding
      <3>4. StatusOf(Adherence(said[id])) = "present"
        BY <3>1, <3>3 DEF Satisfied, Finding
      <3> QED
        BY <3>2, <3>3, <3>4 DEF StatusOf, Adherence, Manners
    <2>6. ASSUME NEW cue \in detected, pack.cues[cue].kind = "vulnerability"
          PROVE  pack.cues[cue].severity \in {"medium", "low"}
      <3>1. pack \in ScorePack /\ cue \in Cues
        BY PackAssumption DEF EngineInv, InputsOK
      <3>2. pack.cues[cue].severity \in Severities
        BY <3>1 DEF ScorePack, CueSet
      <3>3. pack.cues[cue].severity \notin {"critical", "high"}
        BY <2>2, <2>6 DEF ConsequentialCue, Vulnerabilities
      <3> QED
        BY <3>2, <3>3 DEF Severities
    <2> QED
      BY <2>4, <2>5, <2>6
  <1> QED
    BY <1>1, EngineInvariance, PTL
-----------------------------------------------------------------------------
(* Two assessments.                                                        *)

LEMMA CurrentIsInOrder ==
  EngineInv => /\ InOrder(card.findings)
               /\ ToSet(card.findings) \in SUBSET Graded
               /\ FailingOf(card.findings) \in SUBSET Graded
  <1> SUFFICES ASSUME EngineInv
               PROVE  InOrder(card.findings) /\ ToSet(card.findings) \in SUBSET Graded
    BY DEF FailingOf
  <1> DEFINE findings == card.findings
  <1>1. InOrder(findings)
    BY DEF EngineInv, Orderly, InOrder
  <1> HIDE DEF findings
  <1>2. ToSet(findings) \in SUBSET Graded
    BY <1>1 DEF InOrder, ToSet
  <1> QED
    BY <1>1, <1>2 DEF findings

(* Both ends of a step have a current scorecard.                           *)
BothCurrent == EngineInv /\ EngineInv'

LEMMA BothInOrder ==
  ASSUME BothCurrent
  PROVE  InOrder(card.findings) /\ InOrder(card'.findings)
  <1>1. InOrder(card.findings)
    BY CurrentIsInOrder DEF BothCurrent
  <1>2. Orderly(card.findings, declared, said)'
    BY DEF BothCurrent, EngineInv
  <1>3. InOrder(card'.findings)
    BY <1>2 DEF Orderly, InOrder
  <1> QED
    BY <1>1, <1>3

(* The order of a declaration, and how often it names an obligation, move  *)
(* nothing on the scorecard.                                               *)
LEMMA SameObligationsSameCard ==
  ASSUME BothCurrent, UNCHANGED <<pack, said, detected, over>>,
         ToSet(declared) = ToSet(declared')
  PROVE  card = card'
  <1>1. \A id, manner : Finding(id, manner)' = Finding(id, manner)
    BY DEF Finding, Configured, Adherence
  <1>2. ToSet(card.findings) = {Finding(id, said[id]) : id \in ToSet(declared)}
    BY DEF BothCurrent, EngineInv, Orderly
  <1>3. ToSet(card'.findings) = {Finding(id, said[id])' : id \in ToSet(declared')}
    BY DEF BothCurrent, EngineInv, Orderly
  <1>4. ToSet(card'.findings) = ToSet(card.findings)
    BY <1>1, <1>2, <1>3
  <1>5. card'.findings = card.findings
    BY <1>4, BothInOrder, SameFindingsSameList
  <1>6. card = CardBy(card.findings, pack, detected) /\ card' = CardBy(card'.findings, pack', detected')
    BY DEF BothCurrent, EngineInv
  <1> QED
    BY <1>5, <1>6

THEOREM OrderMovesNothing == Spec => DeclarationOrderIsIrrelevant
  <1>1. BothCurrent =>
          [ UNCHANGED <<pack, said, detected, over>> /\ ToSet(declared) = ToSet(declared') =>
              card = card' ]_vars
    BY SameObligationsSameCard
  <1> QED
    BY <1>1, EngineInvariance, PTL DEF BothCurrent, DeclarationOrderIsIrrelevant

-----------------------------------------------------------------------------
(* A finding's id, status and severity tell, with the version of the pack, *)
(* what kind of obligation it is about.                                    *)
LEMMA KindOfFinding ==
  ASSUME InputsOK, NEW id \in Ids, NEW manner \in Manners
  PROVE  /\ Finding(id, manner).status = "gap" => Finding(id, manner).kind = "unconfigured"
         /\ Finding(id, manner).status # "gap" =>
              /\ id \in DOMAIN pack.requirements
              /\ Finding(id, manner).kind = pack.requirements[id].kind
  <1>1. StatusOf(Adherence(manner)) # "gap"
    BY DEF StatusOf, Adherence, Manners
  <1> QED
    BY <1>1 DEF Finding, Configured

KindsAreOfThePack ==
  \A f \in ToSet(card.findings) :
    /\ f.status = "gap" => f.kind = "unconfigured"
    /\ f.status # "gap" => f.id \in DOMAIN pack.requirements /\ f.kind = pack.requirements[f.id].kind

LEMMA KindsAre == EngineInv => KindsAreOfThePack
  <1> SUFFICES ASSUME EngineInv, NEW f \in ToSet(card.findings)
               PROVE  /\ f.status = "gap" => f.kind = "unconfigured"
                      /\ f.status # "gap" =>
                           f.id \in DOMAIN pack.requirements /\ f.kind = pack.requirements[f.id].kind
    BY DEF KindsAreOfThePack
  <1>1. PICK id \in ToSet(declared) : f = Finding(id, said[id])
    BY DEF EngineInv, Orderly
  <1>2. InputsOK /\ id \in Ids /\ said[id] \in Manners /\ pack \in Packs
    BY DEF EngineInv, InputsOK, ToSet
  <1>3. f.id = id
    BY <1>1, <1>2, FindingIs
  <1> QED
    BY <1>1, <1>2, <1>3, KindOfFinding

LEMMA SameIdSameCard ==
  ASSUME BothCurrent, KindsAreOfThePack, KindsAreOfThePack',
         card.scorecard_id = card'.scorecard_id
  PROVE  card = card'
  <1> DEFINE fs == card.findings
             gs == card'.findings
  <1>1. card = CardBy(fs, pack, detected) /\ card' = CardBy(gs, pack', detected')
    BY DEF BothCurrent, EngineInv
  <1>2. InOrder(fs) /\ InOrder(gs)
    BY BothInOrder
  <1>3. /\ \A f \in ToSet(fs) :
             /\ f.status = "gap" => f.kind = "unconfigured"
             /\ f.status # "gap" =>
                  f.id \in DOMAIN pack.requirements /\ f.kind = pack.requirements[f.id].kind
        /\ \A f \in ToSet(gs) :
             /\ f.status = "gap" => f.kind = "unconfigured"
             /\ f.status # "gap" =>
                  f.id \in DOMAIN pack'.requirements /\ f.kind = pack'.requirements[f.id].kind
    BY DEF KindsAreOfThePack
  <1>4. pack \in Packs /\ pack' \in Packs
    BY DEF BothCurrent, EngineInv, InputsOK
  <1> HIDE DEF fs, gs
  <1>5. /\ card.scorecard_id = [pack |-> pack.version, findings |-> Key(fs), signals |-> detected]
        /\ card'.scorecard_id = [pack |-> pack'.version, findings |-> Key(gs), signals |-> detected']
    BY <1>1 DEF CardBy
  <1>6. pack.version = pack'.version /\ Key(fs) = Key(gs) /\ detected = detected'
    <2> DEFINE a == card.scorecard_id
               b == card'.scorecard_id
    <2>1. a = b
      OBVIOUS
    <2>2. /\ a = [pack |-> pack.version, findings |-> Key(fs), signals |-> detected]
          /\ b = [pack |-> pack'.version, findings |-> Key(gs), signals |-> detected']
      BY <1>5
    <2>3. \A r, v, k, s : r = [pack |-> v, findings |-> k, signals |-> s] =>
                            r.pack = v /\ r.findings = k /\ r.signals = s
      OBVIOUS
    <2> DEFINE v == pack.version
               w == pack'.version
               d == detected'
               k == Key(fs)
               l == Key(gs)
    <2>4. a = [pack |-> v, findings |-> k, signals |-> detected] /\ b = [pack |-> w, findings |-> l, signals |-> d]
      BY <2>2
    <2> HIDE DEF a, b, v, w, d, k, l
    <2>5. a.pack = v /\ a.findings = k /\ a.signals = detected
      BY <2>3, <2>4
    <2>6. b.pack = w /\ b.findings = l /\ b.signals = d
      BY <2>3, <2>4
    <2>7. v = w /\ k = l /\ detected = d
      BY <2>1, <2>5, <2>6
    <2> QED
      BY <2>7 DEF v, w, d, k, l
  <1>7. /\ pack.cues = pack'.cues
        /\ \A id \in DOMAIN pack.requirements \cap DOMAIN pack'.requirements :
             pack.requirements[id].kind = pack'.requirements[id].kind
    BY <1>4, <1>6, PackAssumption
  <1>8. /\ DOMAIN fs = DOMAIN gs
        /\ \A i \in DOMAIN fs : /\ fs[i].id = gs[i].id /\ fs[i].status = gs[i].status
                                /\ fs[i].severity = gs[i].severity
    <2>1. DOMAIN Key(fs) = DOMAIN fs /\ DOMAIN Key(gs) = DOMAIN gs
      BY DEF Key
    <2>2. /\ \A i \in DOMAIN fs : Key(fs)[i] = <<fs[i].id, fs[i].status, fs[i].severity>>
          /\ \A i \in DOMAIN gs : Key(gs)[i] = <<gs[i].id, gs[i].status, gs[i].severity>>
      BY DEF Key
    <2> QED
      BY <1>6, <2>1, <2>2
  <1>9. ASSUME NEW i \in DOMAIN fs
        PROVE  fs[i] = gs[i]
    <2>1. fs[i] \in Graded /\ gs[i] \in Graded
      BY <1>2, <1>8 DEF InOrder
    <2>2. fs[i] \in ToSet(fs) /\ gs[i] \in ToSet(gs)
      BY <1>8 DEF ToSet
    <2>3. fs[i].kind = gs[i].kind
      BY <1>3, <1>7, <1>8, <2>2
    <2>4. fs[i].id = gs[i].id /\ fs[i].status = gs[i].status /\ fs[i].severity = gs[i].severity
      BY <1>8
    <2> QED
      BY <2>1, <2>3, <2>4 DEF Graded
  <1>10. fs = gs
    <2>1. fs \in Seq(Graded) /\ gs \in Seq(Graded)
      BY <1>2 DEF InOrder
    <2> QED
      BY <1>8, <1>9, <2>1
  <1>11. CardBy(gs, pack', detected') = CardBy(gs, pack, detected)
    BY <1>6, <1>7 DEF CardBy
  <1> QED
    BY <1>1, <1>10, <1>11

(* Two assessments with one scorecard id are one scorecard, so that the    *)
(* store's upsert by id never replaces a verdict by another.               *)
THEOREM IdsAreFaithful == Spec => SameIdSameScorecard
  <1>1. BothCurrent /\ KindsAreOfThePack /\ KindsAreOfThePack' =>
          [ card.scorecard_id = card'.scorecard_id => card = card' ]_vars
    BY SameIdSameCard
  <1> QED
    BY <1>1, KindsAre, EngineInvariance, PTL DEF BothCurrent, SameIdSameScorecard
-----------------------------------------------------------------------------
(* One fact more.                                                          *)

(* The obligations of a kind that are met, and those a score counts.       *)
MetOf(findings, kind) == {f.id : f \in {g \in ToSet(findings) : Satisfied(g) /\ g.kind = kind}}
CountedOf(findings, other) == {f.id : f \in {g \in ToSet(findings) : g.kind # other}}

LEMMA ScoreByObligation ==
  ASSUME NEW findings, InOrder(findings), NEW kind, NEW other
  PROVE  /\ IsFiniteSet(MetOf(findings, kind)) /\ IsFiniteSet(CountedOf(findings, other))
         /\ Cardinality(MetOf(findings, kind)) \in Nat
         /\ Cardinality(CountedOf(findings, other)) \in Nat
         /\ KindScore(findings, kind, other)
              = Ratio(Cardinality(MetOf(findings, kind)), Cardinality(CountedOf(findings, other)))
  <1> DEFINE met == {i \in DOMAIN findings : Satisfied(findings[i]) /\ findings[i].kind = kind}
             counted == {i \in DOMAIN findings : findings[i].kind # other}
  <1>1. KindScore(findings, kind, other) = Ratio(Cardinality(met), Cardinality(counted))
    BY DEF KindScore, CountIf
  <1>2. {findings[i].id : i \in met} = MetOf(findings, kind)
    BY DEF MetOf, ToSet
  <1>3. {findings[i].id : i \in counted} = CountedOf(findings, other)
    BY DEF CountedOf, ToSet
  <1>4. met \in SUBSET DOMAIN findings /\ counted \in SUBSET DOMAIN findings
    OBVIOUS
  <1> HIDE DEF met, counted
  <1>5. /\ IsFiniteSet({findings[i].id : i \in met})
        /\ Cardinality(met) \in Nat
        /\ Cardinality(met) = Cardinality({findings[i].id : i \in met})
    BY <1>4, CountedByObligation
  <1>6. /\ IsFiniteSet({findings[i].id : i \in counted})
        /\ Cardinality(counted) \in Nat
        /\ Cardinality(counted) = Cardinality({findings[i].id : i \in counted})
    BY <1>4, CountedByObligation
  <1> QED
    BY <1>1, <1>2, <1>3, <1>5, <1>6

LEMMA MoreMetScoresHigher ==
  ASSUME NEW fs, NEW gs, InOrder(fs), InOrder(gs), NEW kind, NEW other,
         MetOf(fs, kind) \subseteq MetOf(gs, kind),
         CountedOf(fs, other) = CountedOf(gs, other)
  PROVE  KindScore(fs, kind, other) <= KindScore(gs, kind, other)
  <1> DEFINE s == Cardinality(MetOf(fs, kind))
             t == Cardinality(MetOf(gs, kind))
             total == Cardinality(CountedOf(gs, other))
  <1>1. s \in Nat /\ KindScore(fs, kind, other) = Ratio(s, total)
    BY ScoreByObligation
  <1>2. /\ t \in Nat /\ total \in Nat /\ KindScore(gs, kind, other) = Ratio(t, total)
        /\ IsFiniteSet(MetOf(gs, kind))
    BY ScoreByObligation
  <1>3. s <= t
    BY <1>2, FS_Subset
  <1> HIDE DEF s, t, total
  <1>4. Ratio(s, total) <= Ratio(t, total)
    BY <1>1, <1>2, <1>3, RatioGrows
  <1> QED
    BY <1>1, <1>2, <1>4

(* An obligation met: its finding is satisfied, or is the gap it was.      *)
LEMMA MetIsNoWorse ==
  ASSUME BothCurrent, UNCHANGED <<declared, pack, detected, over>>,
         NEW met \in Ids, said' = [said EXCEPT ![met] = "inside"],
         NEW id \in ToSet(declared)
  PROVE  /\ Finding(id, said[id])' = Finding(id, said[id]) \/ Satisfied(Finding(id, said[id])')
         /\ (Finding(id, said[id])').id = Finding(id, said[id]).id
         /\ (Finding(id, said[id])').kind = Finding(id, said[id]).kind
  <1>1. \A manner : Finding(id, manner)' = Finding(id, manner)
    BY DEF Finding, Configured, Adherence
  <1>2. said \in [Ids -> Manners] /\ id \in Ids
    BY DEF BothCurrent, EngineInv, InputsOK, ToSet
  <1>3. said'[id] = said[id] \/ said'[id] = "inside"
    BY <1>2
  <1>4. Finding(id, said[id])' = Finding(id, said'[id])
    BY <1>1 DEF Finding, Configured, Adherence
  <1>5. ASSUME said'[id] = "inside"
        PROVE  Finding(id, said'[id]) = Finding(id, said[id]) \/ Satisfied(Finding(id, said'[id]))
    BY <1>5 DEF Finding, Configured, Adherence, StatusOf, Satisfied
  <1>6. /\ Finding(id, said'[id]).id = Finding(id, said[id]).id
        /\ Finding(id, said'[id]).kind = Finding(id, said[id]).kind
    BY DEF Finding
  <1> QED
    BY <1>3, <1>4, <1>5, <1>6

(* What the two lists of findings then have to do with each other.         *)
NoWorse(fs, gs) ==
  /\ FailingOf(gs) \subseteq FailingOf(fs)
  /\ fs = <<>> <=> gs = <<>>
  /\ \A kind : MetOf(fs, kind) \subseteq MetOf(gs, kind)
  /\ \A other : CountedOf(fs, other) = CountedOf(gs, other)

LEMMA EmptyIsSetless ==
  ASSUME NEW fs, InOrder(fs)
  PROVE  fs = <<>> <=> ToSet(fs) = {}
  <1>1. fs \in Seq(Graded)
    BY DEF InOrder
  <1>2. fs # <<>> => 1 \in DOMAIN fs
    BY <1>1
  <1> QED
    BY <1>1, <1>2 DEF ToSet

LEMMA DutyMetIsNoWorse ==
  ASSUME BothCurrent, UNCHANGED <<declared, pack, detected, over>>,
         NEW met \in Ids, said' = [said EXCEPT ![met] = "inside"]
  PROVE  NoWorse(card.findings, card'.findings)
  <1> DEFINE was(id) == Finding(id, said[id])
             now(id) == Finding(id, said[id])'
             fs == card.findings
             gs == card'.findings
  <1>1. InOrder(fs) /\ InOrder(gs)
    BY BothInOrder
  <1>2. ToSet(fs) = {was(id) : id \in ToSet(declared)}
    BY DEF BothCurrent, EngineInv, Orderly
  <1>3. ToSet(gs) = {now(id) : id \in ToSet(declared)}
    BY DEF BothCurrent, EngineInv, Orderly
  <1>4. \A id \in ToSet(declared) : /\ now(id) = was(id) \/ Satisfied(now(id))
                                    /\ now(id).id = was(id).id
                                    /\ now(id).kind = was(id).kind
    BY MetIsNoWorse
  <1> HIDE DEF was, now, fs, gs
  <1>5. FailingOf(gs) \subseteq FailingOf(fs)
    BY <1>2, <1>3, <1>4 DEF FailingOf
  <1>6. fs = <<>> <=> gs = <<>>
    <2>1. ToSet(fs) = {} <=> ToSet(gs) = {}
      BY <1>2, <1>3
    <2> QED
      BY <1>1, <2>1, EmptyIsSetless
  <1>7. \A kind : MetOf(fs, kind) \subseteq MetOf(gs, kind)
    <2> SUFFICES ASSUME NEW kind, NEW x \in MetOf(fs, kind) PROVE x \in MetOf(gs, kind)
      OBVIOUS
    <2>1. PICK id \in ToSet(declared) : Satisfied(was(id)) /\ was(id).kind = kind /\ x = was(id).id
      BY <1>2 DEF MetOf
    <2>2. now(id) \in ToSet(gs) /\ Satisfied(now(id)) /\ now(id).kind = kind /\ x = now(id).id
      BY <1>3, <1>4, <2>1
    <2> QED
      BY <2>2 DEF MetOf
  <1>8. \A other : CountedOf(fs, other) = CountedOf(gs, other)
    <2> SUFFICES ASSUME NEW other PROVE CountedOf(fs, other) = CountedOf(gs, other)
      OBVIOUS
    <2>1. CountedOf(fs, other) = {was(id).id : id \in {i \in ToSet(declared) : was(i).kind # other}}
      BY <1>2 DEF CountedOf
    <2>2. CountedOf(gs, other) = {now(id).id : id \in {i \in ToSet(declared) : now(i).kind # other}}
      BY <1>3 DEF CountedOf
    <2> QED
      BY <1>4, <2>1, <2>2
  <1> QED
    BY <1>5, <1>6, <1>7, <1>8 DEF NoWorse, fs, gs

(* The figures of the two scorecards.                                      *)
LEMMA FiguresAre ==
  ASSUME BothCurrent
  PROVE  /\ card.disposition
              = Disposition(FailingOf(card.findings), card.findings # <<>>, pack.cues, detected)
         /\ card.severity
              = Severity(FailingOf(card.findings), card.findings # <<>>, pack.cues, detected)
         /\ card.disclosure_score = KindScore(card.findings, "disclosure", "script_segment")
         /\ card.adherence_score = KindScore(card.findings, "script_segment", "disclosure")
         /\ card'.disposition
              = Disposition(FailingOf(card'.findings), card'.findings # <<>>, pack'.cues, detected')
         /\ card'.severity
              = Severity(FailingOf(card'.findings), card'.findings # <<>>, pack'.cues, detected')
         /\ card'.disclosure_score = KindScore(card'.findings, "disclosure", "script_segment")
         /\ card'.adherence_score = KindScore(card'.findings, "script_segment", "disclosure")
  <1> DEFINE fs == card.findings
             gs == card'.findings
  <1>1. card = CardBy(fs, pack, detected) /\ card' = CardBy(gs, pack', detected')
    BY DEF BothCurrent, EngineInv
  <1> HIDE DEF fs, gs
  <1> QED
    BY <1>1 DEF CardBy, fs, gs

LEMMA DutyMetHelps ==
  ASSUME BothCurrent, UNCHANGED <<declared, pack, detected, over>>,
         NEW met \in Ids, said' = [said EXCEPT ![met] = "inside"]
  PROVE  /\ NoGraver
         /\ card.disclosure_score <= card'.disclosure_score
         /\ card.adherence_score <= card'.adherence_score
  <1> DEFINE fs == card.findings
             gs == card'.findings
  <1>1. InOrder(fs) /\ InOrder(gs)
    BY BothInOrder
  <1>2. NoWorse(fs, gs)
    BY DutyMetIsNoWorse
  <1>3. FailingOf(fs) \in SUBSET Graded
    BY CurrentIsInOrder DEF BothCurrent
  <1>4. detected \in SUBSET Cues /\ pack.cues \in [Cues -> CueSet]
    BY PackAssumption DEF BothCurrent, EngineInv, InputsOK, ScorePack
  <1>5. /\ card.disposition = Disposition(FailingOf(fs), fs # <<>>, pack.cues, detected)
        /\ card.severity = Severity(FailingOf(fs), fs # <<>>, pack.cues, detected)
        /\ card'.disposition = Disposition(FailingOf(gs), gs # <<>>, pack.cues, detected)
        /\ card'.severity = Severity(FailingOf(gs), gs # <<>>, pack.cues, detected)
    BY FiguresAre
  <1>6. /\ card.disclosure_score = KindScore(fs, "disclosure", "script_segment")
        /\ card.adherence_score = KindScore(fs, "script_segment", "disclosure")
        /\ card'.disclosure_score = KindScore(gs, "disclosure", "script_segment")
        /\ card'.adherence_score = KindScore(gs, "script_segment", "disclosure")
    BY FiguresAre
  <1> HIDE DEF fs, gs
  <1>7. FailingOf(gs) \in SUBSET Graded /\ FailingOf(gs) \subseteq FailingOf(fs)
    BY <1>2, <1>3 DEF NoWorse
  <1>8. (fs # <<>>) = (gs # <<>>)
    BY <1>2 DEF NoWorse
  <1>9. /\ Gravity[Disposition(FailingOf(gs), fs # <<>>, pack.cues, detected)]
             <= Gravity[Disposition(FailingOf(fs), fs # <<>>, pack.cues, detected)]
        /\ Rank[Severity(FailingOf(gs), fs # <<>>, pack.cues, detected)]
             >= Rank[Severity(FailingOf(fs), fs # <<>>, pack.cues, detected)]
    <2> DEFINE measured == fs # <<>>
    <2>1. measured \in BOOLEAN
      OBVIOUS
    <2> HIDE DEF measured
    <2>2. /\ Gravity[Disposition(FailingOf(gs), measured, pack.cues, detected)]
               <= Gravity[Disposition(FailingOf(fs), measured, pack.cues, detected)]
          /\ Rank[Severity(FailingOf(gs), measured, pack.cues, detected)]
               >= Rank[Severity(FailingOf(fs), measured, pack.cues, detected)]
      BY <1>3, <1>4, <1>7, <2>1, RollUpIsMonotonic
    <2> QED
      BY <2>2 DEF measured
  <1>10. NoGraver
    <2> DEFINE mild == Gravity[card'.disposition]
               grave == Gravity[card.disposition]
               low == Rank[card'.severity]
               high == Rank[card.severity]
    <2>1. mild <= grave /\ low >= high
      BY <1>5, <1>8, <1>9
    <2>2. /\ mild \in Int /\ grave \in Int
          /\ low \in Int /\ high \in Int
      <3>1. \A failing, measured, cues, seen : Gravity[Disposition(failing, measured, cues, seen)] \in Int
        BY DEF Gravity, Disposition
      <3>2. \A failing \in SUBSET Graded, measured \in BOOLEAN :
              Severity(failing, measured, pack.cues, detected) \in Severities
        BY <1>4, SeverityIs
      <3>3. \A s \in Severities : Rank[s] \in Int
        BY RankIs
      <3>4. card.severity \in Severities /\ card'.severity \in Severities
        BY <1>3, <1>5, <1>7, <3>2
      <3> QED
        BY <1>5, <3>1, <3>3, <3>4
    <2> HIDE DEF mild, grave, low, high
    <2>3. grave >= mild /\ high <= low
      BY <2>1, <2>2
    <2> QED
      BY <2>3 DEF NoGraver, mild, grave, low, high
  <1>11. /\ KindScore(fs, "disclosure", "script_segment") <= KindScore(gs, "disclosure", "script_segment")
         /\ KindScore(fs, "script_segment", "disclosure") <= KindScore(gs, "script_segment", "disclosure")
    BY <1>1, <1>2, MoreMetScoresHigher DEF NoWorse
  <1> QED
    BY <1>6, <1>10, <1>11

(* A cue given: the findings stay, and one cue more is rolled up.          *)
LEMMA CueGivenIsOneMore ==
  ASSUME [Next]_vars, detected # detected'
  PROVE  UNCHANGED <<declared, pack, said, over>> /\ detected \subseteq detected'
  <1>1. \E cue \in Cues : Give(cue)
    BY DEF Next, vars, Declare, Deploy, Say, HangUp
  <1> QED
    BY <1>1 DEF Give

LEMMA CueGivenHurts ==
  ASSUME BothCurrent, [Next]_vars, detected # detected'
  PROVE  /\ NoMilder
         /\ card.disclosure_score = card'.disclosure_score
         /\ card.adherence_score = card'.adherence_score
  <1> DEFINE fs == card.findings
             gs == card'.findings
  <1>1. UNCHANGED <<declared, pack, said, over>> /\ detected \subseteq detected'
    BY CueGivenIsOneMore
  <1>2. gs = fs
    <2>1. \A id, manner : Finding(id, manner)' = Finding(id, manner)
      BY <1>1 DEF Finding, Configured, Adherence
    <2>2. ToSet(fs) = {Finding(id, said[id]) : id \in ToSet(declared)}
      BY DEF BothCurrent, EngineInv, Orderly
    <2>3. ToSet(gs) = {Finding(id, said[id])' : id \in ToSet(declared')}
      BY DEF BothCurrent, EngineInv, Orderly
    <2>4. ToSet(gs) = ToSet(fs)
      BY <1>1, <2>1, <2>2, <2>3
    <2> QED
      BY <2>4, BothInOrder, SameFindingsSameList
  <1>3. FailingOf(fs) \in SUBSET Graded
    BY CurrentIsInOrder DEF BothCurrent
  <1>4. /\ detected \in SUBSET Cues /\ detected' \in SUBSET Cues
        /\ pack.cues \in [Cues -> CueSet]
    BY PackAssumption DEF BothCurrent, EngineInv, InputsOK, ScorePack
  <1>5. /\ card.disposition = Disposition(FailingOf(fs), fs # <<>>, pack.cues, detected)
        /\ card.severity = Severity(FailingOf(fs), fs # <<>>, pack.cues, detected)
        /\ card'.disposition = Disposition(FailingOf(gs), gs # <<>>, pack.cues, detected')
        /\ card'.severity = Severity(FailingOf(gs), gs # <<>>, pack.cues, detected')
        /\ card.disclosure_score = KindScore(fs, "disclosure", "script_segment")
        /\ card.adherence_score = KindScore(fs, "script_segment", "disclosure")
        /\ card'.disclosure_score = KindScore(gs, "disclosure", "script_segment")
        /\ card'.adherence_score = KindScore(gs, "script_segment", "disclosure")
    BY <1>1, FiguresAre
  <1> HIDE DEF fs, gs
  <1>6. /\ Gravity[Disposition(FailingOf(fs), fs # <<>>, pack.cues, detected)]
             <= Gravity[Disposition(FailingOf(fs), fs # <<>>, pack.cues, detected')]
        /\ Rank[Severity(FailingOf(fs), fs # <<>>, pack.cues, detected)]
             >= Rank[Severity(FailingOf(fs), fs # <<>>, pack.cues, detected')]
    <2> DEFINE measured == fs # <<>>
               all == FailingOf(fs)
    <2>1. measured \in BOOLEAN /\ all \in SUBSET Graded /\ all \subseteq all
      BY <1>3
    <2> HIDE DEF measured, all
    <2>2. /\ Gravity[Disposition(all, measured, pack.cues, detected)]
               <= Gravity[Disposition(all, measured, pack.cues, detected')]
          /\ Rank[Severity(all, measured, pack.cues, detected)]
               >= Rank[Severity(all, measured, pack.cues, detected')]
      BY <1>1, <1>4, <2>1, RollUpIsMonotonic
    <2> QED
      BY <2>2 DEF measured, all
  <1> QED
    BY <1>2, <1>5, <1>6 DEF NoMilder

(* Facts move the verdict one way only: an obligation met never makes the  *)
(* contact look worse, a cue given never makes it look better.             *)
THEOREM FactsMoveOneWay == Spec => DutiesHelpAndCuesHurt
  <1>1. BothCurrent /\ [Next]_vars =>
          [ /\ UNCHANGED <<declared, pack, detected, over>>
                 /\ (\E id \in Ids : said' = [said EXCEPT ![id] = "inside"]) =>
                 /\ NoGraver
                 /\ card.disclosure_score <= card'.disclosure_score
                 /\ card.adherence_score <= card'.adherence_score
            /\ detected # detected' =>
                 /\ NoMilder
                 /\ card.disclosure_score = card'.disclosure_score
                 /\ card.adherence_score = card'.adherence_score ]_vars
    BY DutyMetHelps, CueGivenHurts
  <1> QED
    BY <1>1, EngineInvariance, PTL DEF BothCurrent, DutiesHelpAndCuesHurt, Spec
-----------------------------------------------------------------------------
(* The type of the variables; the scores are shares, in ten-thousandths.   *)
LEMMA RatioIsAShare ==
  ASSUME NEW s \in Nat, NEW total \in Nat, s <= total
  PROVE  Ratio(s, total) \in Nat /\ Ratio(s, total) <= 10000
  <1>1. CASE total = 0
    BY <1>1 DEF Ratio
  <1>2. CASE total # 0
    <2>1. Ratio(s, total) <= Ratio(total, total)
      BY RatioGrows
    <2>2. Ratio(total, total) = 10000
      BY <1>2 DEF Ratio
    <2>3. Ratio(s, total) \in Nat
      BY <1>2 DEF Ratio
    <2> QED
      BY <2>1, <2>2, <2>3
  <1> QED
    BY <1>1, <1>2

LEMMA ScoreIsAShare ==
  ASSUME NEW findings, InOrder(findings), NEW kind, NEW other, kind # other
  PROVE  KindScore(findings, kind, other) \in 0..10000
  <1> DEFINE s == Cardinality(MetOf(findings, kind))
             total == Cardinality(CountedOf(findings, other))
  <1>1. /\ s \in Nat /\ total \in Nat /\ IsFiniteSet(CountedOf(findings, other))
        /\ KindScore(findings, kind, other) = Ratio(s, total)
    BY ScoreByObligation
  <1>2. MetOf(findings, kind) \subseteq CountedOf(findings, other)
    BY DEF MetOf, CountedOf
  <1>3. s <= total
    BY <1>1, <1>2, FS_Subset
  <1> HIDE DEF s, total
  <1>4. s \in Nat /\ total \in Nat
    BY <1>1
  <1> DEFINE score == KindScore(findings, kind, other)
  <1>5. score \in Nat /\ score <= 10000
    <2>1. Ratio(s, total) \in Nat /\ Ratio(s, total) <= 10000
      BY <1>3, <1>4, RatioIsAShare
    <2> QED
      BY <1>1, <2>1
  <1> HIDE DEF score
  <1>6. score \in 0..10000
    BY <1>5
  <1> QED
    BY <1>6 DEF score

THEOREM TypeCorrect == Spec => []TypeOK
  <1>1. EngineInv => TypeOK
    <2> SUFFICES ASSUME EngineInv PROVE TypeOK
      OBVIOUS
    <2> DEFINE fs == card.findings
    <2>1. InOrder(fs) /\ FailingOf(fs) \in SUBSET Graded
      BY CurrentIsInOrder
    <2>2. card = CardBy(fs, pack, detected)
      BY DEF EngineInv
    <2>3. InputsOK /\ pack.cues \in [Cues -> CueSet]
      BY PackAssumption DEF EngineInv, InputsOK, ScorePack
    <2> HIDE DEF fs
    <2>4. /\ card.disclosure_score = KindScore(fs, "disclosure", "script_segment")
          /\ card.adherence_score = KindScore(fs, "script_segment", "disclosure")
          /\ card.severity = Severity(FailingOf(fs), fs # <<>>, pack.cues, detected)
      BY <2>2 DEF CardBy
    <2>5. card.disclosure_score \in 0..10000 /\ card.adherence_score \in 0..10000
      <3>1. /\ KindScore(fs, "disclosure", "script_segment") \in 0..10000
            /\ KindScore(fs, "script_segment", "disclosure") \in 0..10000
        BY <2>1, ScoreIsAShare
      <3> QED
        BY <2>4, <3>1
    <2>6. card.severity \in Severities
      <3>1. (fs # <<>>) \in BOOLEAN /\ detected \in SUBSET Cues
        BY <2>3 DEF InputsOK
      <3> QED
        BY <2>1, <2>3, <2>4, <3>1, SeverityIs
    <2>7. \A i \in DOMAIN fs : fs[i].status \in Statuses
      <3> SUFFICES ASSUME NEW i \in DOMAIN fs PROVE fs[i].status \in Statuses
        OBVIOUS
      <3>1. fs[i] \in Graded
        BY <2>1 DEF InOrder
      <3> QED
        BY <3>1 DEF Graded
    <2>8. \A i \in DOMAIN card.findings : card.findings[i].status \in Statuses
      BY <2>7 DEF fs
    <2>9. /\ declared \in Seq(Ids) /\ pack \in Packs /\ said \in [Ids -> Manners]
          /\ detected \subseteq Cues /\ over \in BOOLEAN
      BY <2>3 DEF InputsOK
    <2> QED
      BY <2>5, <2>6, <2>8, <2>9, PTL DEF TypeOK
  <1> QED
    BY <1>1, EngineInvariance, PTL

-----------------------------------------------------------------------------
(* First finds the least of a set of natural numbers.                      *)
LEMMA FirstIsLeast ==
  ASSUME NEW S \in SUBSET Nat, S # {}
  PROVE  First(S) \in S /\ \A other \in S : First(S) <= other
  BY LeastExists DEF First

(* What a loaded pack and one with the sibling's disclosures are made of.  *)
LEMMA LoadedFields ==
  ASSUME NEW f, NEW p \in DOMAIN f.packs
  PROVE  /\ DOMAIN Load(f) = DOMAIN f.packs
         /\ Load(f)[p] = [pack_id |-> p, version |-> f.version, market |-> f.packs[p].market,
                          product |-> f.packs[p].product,
                          requirements |-> NativeObligations(f.packs[p])]
  BY DEF Load

LEMMA MergedIs ==
  ASSUME NEW f, NEW p \in DOMAIN f.packs, NEW s
  PROVE  Merged(Load(f)[p], s)
           = [pack_id |-> p, version |-> f.version, market |-> f.packs[p].market,
              product |-> f.packs[p].product,
              requirements |->
                [id \in DOMAIN NativeObligations(f.packs[p]) \cup DOMAIN SiblingObligations(s) |->
                   IF id \in DOMAIN SiblingObligations(s) THEN SiblingObligations(s)[id]
                   ELSE NativeObligations(f.packs[p])[id]]]
  <1> DEFINE theirs == SiblingObligations(s)
             ours == NativeObligations(f.packs[p])
             both == [id \in DOMAIN ours \cup DOMAIN theirs |->
                        IF id \in DOMAIN theirs THEN theirs[id] ELSE ours[id]]
  <1>1. Load(f)[p] = [pack_id |-> p, version |-> f.version, market |-> f.packs[p].market,
                      product |-> f.packs[p].product, requirements |-> ours]
    BY LoadedFields
  <1>2. Merged(Load(f)[p], s) = [Load(f)[p] EXCEPT !.requirements = both]
    BY <1>1 DEF Merged
  <1> HIDE DEF theirs, ours, both
  <1>3. Merged(Load(f)[p], s) = [pack_id |-> p, version |-> f.version, market |-> f.packs[p].market,
                                 product |-> f.packs[p].product, requirements |-> both]
    BY <1>1, <1>2
  <1> QED
    BY <1>3 DEF both, theirs, ours

LEMMA PackFields ==
  ASSUME NEW f, NEW p \in DOMAIN f.packs, NEW q,
         q = Load(f)[p] \/ \E s : q = Merged(Load(f)[p], s)
  PROVE  /\ q.pack_id = p /\ q.version = f.version
         /\ q.market = Load(f)[p].market /\ q.product = Load(f)[p].product
  <1>0. Load(f)[p] = [pack_id |-> p, version |-> f.version, market |-> f.packs[p].market,
                      product |-> f.packs[p].product,
                      requirements |-> NativeObligations(f.packs[p])]
    BY DEF Load
  <1> DEFINE loaded == Load(f)[p]
  <1>a. /\ loaded.pack_id = p /\ loaded.version = f.version
        /\ loaded.market = f.packs[p].market /\ loaded.product = f.packs[p].product
    BY <1>0
  <1>1. CASE q = Load(f)[p]
    BY <1>1, <1>a
  <1>2. CASE \E s : q = Merged(Load(f)[p], s)
    <2>1. PICK s : q = Merged(Load(f)[p], s)
      BY <1>2
    <2>2. q.pack_id = p /\ q.version = f.version
          /\ q.market = f.packs[p].market /\ q.product = f.packs[p].product
      <3>1. PICK all : Merged(Load(f)[p], s) = [pack_id |-> p, version |-> f.version,
                                                market |-> f.packs[p].market,
                                                product |-> f.packs[p].product,
                                                requirements |-> all]
        BY MergedIs
      <3> QED
        BY <2>1, <3>1
    <2> QED
      BY <2>2, <1>a
  <1> QED
    BY <1>1, <1>2

LEMMA MergedRequirements ==
  ASSUME NEW f, NEW p \in DOMAIN f.packs, NEW s
  PROVE  /\ Load(f)[p].requirements = NativeObligations(f.packs[p])
         /\ Merged(Load(f)[p], s).requirements
              = [id \in DOMAIN NativeObligations(f.packs[p]) \cup DOMAIN SiblingObligations(s) |->
                   IF id \in DOMAIN SiblingObligations(s) THEN SiblingObligations(s)[id]
                   ELSE NativeObligations(f.packs[p])[id]]
  <1>1. Load(f)[p].requirements = NativeObligations(f.packs[p])
    BY DEF Load
  <1> DEFINE all == [id \in DOMAIN NativeObligations(f.packs[p]) \cup DOMAIN SiblingObligations(s) |->
                       IF id \in DOMAIN SiblingObligations(s) THEN SiblingObligations(s)[id]
                       ELSE NativeObligations(f.packs[p])[id]]
  <1>2. Merged(Load(f)[p], s)
          = [pack_id |-> p, version |-> f.version, market |-> f.packs[p].market,
             product |-> f.packs[p].product, requirements |-> all]
    BY MergedIs
  <1> HIDE DEF all
  <1>3. Merged(Load(f)[p], s).requirements = all
    BY <1>2
  <1> QED
    BY <1>1, <1>3 DEF all

-----------------------------------------------------------------------------
(* The assessment that just ended is by a pack of a valid file, as it is   *)
(* or with the disclosures of the sibling file, which did not clash.       *)
FromFile(f) ==
  /\ ValidFile(f)
  /\ answer.packs = Load(f)
  /\ \E p \in Candidates(answer.packs, answer.contact) :
       \/ ~UsesSibling /\ answer.pack = answer.packs[p]
       \/ /\ UsesSibling /\ Mergeable(answer.packs[p], siblingFile)
          /\ answer.pack = Merged(answer.packs[p], siblingFile)

AnswerInOrder ==
  Scored =>
    /\ \E f \in PackFiles : FromFile(f)
    /\ answer.met = {id \in DOMAIN answer.pack.requirements : Met(answer.pack, id, answer.said)}

(* Until the cache is filled nothing is scored, and while a call loads a   *)
(* file that nobody replaced, what others loaded, cached and scored by is  *)
(* that file.                                                              *)
FilledFirst ==
  cached = None => scoredBy = {} /\ \A call \in Calls : calls[call].stage # "loaded"

LoadsAgree ==
  ~republished =>
    /\ \A call \in Calls :
         calls[call].stage = "read" => calls[call].packs = Load(packFile)
    /\ \A call \in Calls : calls[call].stage = "loaded" => calls[call].packs = cached
    /\ cached # None =>
         /\ \A call \in Calls : Loading(call) => cached = Load(packFile)
         /\ \A v \in scoredBy : \E p \in DOMAIN cached : cached[p].version = v

PacksInv ==
  /\ PackTypeOK
  /\ AnswerInOrder
  /\ RefusesForNow
  /\ FilledFirst
  /\ LoadsAgree

LEMMA LoadedIsAFile ==
  ASSUME NEW packs \in Loaded
  PROVE  packs # None /\ \E f \in PackFiles : ValidFile(f) /\ packs = Load(f)
  BY NoneAssumption DEF Loaded

LEMMA ChosenPack ==
  ASSUME NEW f \in PackFiles, NEW c, Candidates(Load(f), c) # {}
  PROVE  /\ First(Candidates(Load(f), c)) \in Candidates(Load(f), c)
         /\ First(Candidates(Load(f), c)) \in DOMAIN f.packs
  <1>1. Candidates(Load(f), c) \subseteq DOMAIN f.packs
    BY DEF Candidates, Load
  <1>2. DOMAIN f.packs \subseteq Nat
    BY PackFileAssumption
  <1> QED
    BY <1>1, <1>2, FirstIsLeast

LEMMA PackForIs ==
  ASSUME NEW f \in PackFiles, ValidFile(f), NEW c,
         siblingFile \in SiblingFiles \cup {None}
  PROVE  /\ PackFor(Load(f), c) # None =>
              \E p \in Candidates(Load(f), c) :
                \/ ~UsesSibling /\ PackFor(Load(f), c) = Load(f)[p]
                \/ /\ UsesSibling /\ Mergeable(Load(f)[p], siblingFile)
                   /\ PackFor(Load(f), c) = Merged(Load(f)[p], siblingFile)
         /\ PackFor(Load(f), c) = None =>
              \/ Candidates(Load(f), c) = {}
              \/ /\ UsesSibling
                 /\ \E p \in Candidates(Load(f), c) : ~Mergeable(Load(f)[p], siblingFile)
  <1> DEFINE p == First(Candidates(Load(f), c))
  <1>1. Load(f) # None
    BY NoneAssumption
  <1>2. CASE Candidates(Load(f), c) = {}
    BY <1>2 DEF PackFor
  <1>3. CASE Candidates(Load(f), c) # {}
    <2>1. p \in Candidates(Load(f), c) /\ p \in DOMAIN f.packs
      BY <1>3, ChosenPack
    <2>2. Load(f)[p] # None
      BY <2>1, NoneAssumption
    <2>3. UsesSibling /\ Mergeable(Load(f)[p], siblingFile)
            => Merged(Load(f)[p], siblingFile) # None
      BY <2>1, NoneAssumption DEF UsesSibling
    <2>4. PackFor(Load(f), c) =
            IF ~UsesSibling THEN Load(f)[p]
            ELSE IF Mergeable(Load(f)[p], siblingFile) THEN Merged(Load(f)[p], siblingFile) ELSE None
      BY <1>1, <1>3 DEF PackFor
    <2> HIDE DEF p
    <2> QED
      BY <2>1, <2>2, <2>3, <2>4
  <1> QED
    BY <1>2, <1>3

(* The version of a pack is that of its file.                              *)
LEMMA PackForVersion ==
  ASSUME NEW f \in PackFiles, ValidFile(f), NEW c, PackFor(Load(f), c) # None,
         siblingFile \in SiblingFiles \cup {None}
  PROVE  /\ PackFor(Load(f), c).version = f.version
         /\ \E p \in DOMAIN Load(f) : Load(f)[p].version = f.version
  <1>1. PICK p \in Candidates(Load(f), c) :
          \/ PackFor(Load(f), c) = Load(f)[p]
          \/ PackFor(Load(f), c) = Merged(Load(f)[p], siblingFile)
    BY PackForIs
  <1>2. p \in DOMAIN f.packs /\ p \in DOMAIN Load(f)
    BY DEF Candidates, Load
  <1>3. PackFor(Load(f), c).version = f.version
    BY <1>1, <1>2, PackFields
  <1>4. Load(f)[p].version = f.version
    BY <1>2, PackFields
  <1> QED
    BY <1>2, <1>3, <1>4

(* A step that ends no assessment leaves none to speak of.                 *)
LEMMA NothingAnswered ==
  ASSUME answer' = None
  PROVE  AnswerInOrder' /\ RefusesForNow'
  BY DEF AnswerInOrder, RefusesForNow, Scored

LEMMA PacksInit == PackInit => PacksInv
  <1> SUFFICES ASSUME PackInit
               PROVE  PacksInv
    OBVIOUS
  <1>1. PackTypeOK
    BY DEF PackInit, PackTypeOK, Idle
  <1>2. AnswerInOrder /\ RefusesForNow
    BY DEF PackInit, AnswerInOrder, RefusesForNow, Scored
  <1>3. FilledFirst /\ LoadsAgree
    BY DEF PackInit, FilledFirst, LoadsAgree, Idle, Loading
  <1> QED
    BY <1>1, <1>2, <1>3 DEF PacksInv

LEMMA PacksKeep == PacksInv /\ [PackNext]_packVars => PacksInv'
  <1> SUFFICES ASSUME PacksInv, [PackNext]_packVars
               PROVE  PacksInv'
    OBVIOUS
  <1> USE DEF PacksInv
  <1>1. ASSUME NEW f \in PackFiles, Publish(f)
        PROVE  PacksInv'
    <2>1. PackTypeOK'
      BY <1>1 DEF PackTypeOK, Publish
    <2>2. FilledFirst'
      BY <1>1 DEF FilledFirst, Publish
    <2>3. LoadsAgree'
      BY <1>1 DEF LoadsAgree, Publish, Loading, PackTypeOK
    <2> QED
      BY <1>1, <2>1, <2>2, <2>3, NothingAnswered DEF Publish
  <1>2. ASSUME NEW s \in SiblingFiles, PublishSibling(s)
        PROVE  PacksInv'
    BY <1>2, NothingAnswered
      DEF PublishSibling, PackTypeOK, FilledFirst, LoadsAgree, Loading
  <1>3. ASSUME NEW call \in Calls, Look(call)
        PROVE  PacksInv'
    <2>1. PackTypeOK'
      BY <1>3 DEF PackTypeOK, Look
    <2>2. FilledFirst'
      BY <1>3 DEF FilledFirst, Look, PackTypeOK
    <2>3. LoadsAgree'
      BY <1>3 DEF LoadsAgree, Look, Loading, PackTypeOK
    <2> QED
      BY <1>3, <2>1, <2>2, <2>3, NothingAnswered DEF Look
  <1>4. ASSUME NEW call \in Calls, ReadPackFile(call)
        PROVE  PacksInv'
    <2>1. Load(packFile) \in Loaded
      BY <1>4 DEF Loaded, ReadPackFile, PackTypeOK
    <2>2. PackTypeOK'
      BY <1>4, <2>1 DEF PackTypeOK, ReadPackFile
    <2>3. FilledFirst'
      BY <1>4 DEF FilledFirst, ReadPackFile, PackTypeOK
    <2>4. LoadsAgree'
      BY <1>4 DEF LoadsAgree, ReadPackFile, Loading, PackTypeOK
    <2> QED
      BY <1>4, <2>2, <2>3, <2>4, NothingAnswered DEF ReadPackFile
  <1>5. ASSUME NEW call \in Calls, NEW c \in Contacts, RefusePackFile(call, c)
        PROVE  PacksInv'
    <2>1. answer' = [contact |-> c, packs |-> None, pack |-> None, said |-> {}, met |-> {}]
      BY <1>5 DEF RefusePackFile, Answer
    <2>2. PackTypeOK'
      BY <1>5, <2>1 DEF PackTypeOK, RefusePackFile, Idle
    <2>3. FilledFirst' /\ LoadsAgree'
      BY <1>5 DEF FilledFirst, LoadsAgree, RefusePackFile, Loading, PackTypeOK, Idle
    <2>4. AnswerInOrder'
      BY <2>1 DEF AnswerInOrder, Scored
    <2>5. RefusesForNow'
      BY <1>5 DEF RefusesForNow, RefusePackFile
    <2> QED
      BY <2>2, <2>3, <2>4, <2>5
  <1>6. ASSUME NEW call \in Calls, FillCache(call)
        PROVE  PacksInv'
    <2>1. calls[call].packs \in Loaded /\ calls[call].packs # None
      BY <1>6, LoadedIsAFile DEF FillCache, PackTypeOK
    <2>2. PackTypeOK'
      BY <1>6, <2>1 DEF PackTypeOK, FillCache
    <2>3. FilledFirst'
      BY <1>6, <2>1 DEF FilledFirst, FillCache, PackTypeOK
    <2>4. LoadsAgree'
      BY <1>6, <2>1 DEF LoadsAgree, FilledFirst, FillCache, Loading, PackTypeOK
    <2> QED
      BY <1>6, <2>2, <2>3, <2>4, NothingAnswered DEF FillCache
  <1>7. ASSUME NEW call \in Calls, NEW c \in Contacts, NEW said_ \in SUBSET Wordings,
               ScoreContact(call, c, said_)
        PROVE  PacksInv'
    <2> DEFINE packs == calls[call].packs
               p == PackFor(packs, c)
    <2>1. calls[call].stage = "loaded" /\ packs \in Loaded
      BY <1>7 DEF ScoreContact, PackTypeOK
    <2>2. PICK f \in PackFiles : ValidFile(f) /\ packs = Load(f)
      BY <2>1, LoadedIsAFile
    <2>3. /\ packFile' = packFile /\ siblingFile' = siblingFile /\ cached' = cached
          /\ republished' = republished
          /\ calls' = [calls EXCEPT ![call] = Idle]
          /\ scoredBy' = IF p = None THEN scoredBy ELSE scoredBy \cup {p.version}
          /\ answer' = [contact |-> c, packs |-> packs, pack |-> p, said |-> said_,
                        met |-> IF p = None THEN {}
                                ELSE {id \in DOMAIN p.requirements : Met(p, id, said_)}]
      BY <1>7 DEF ScoreContact, Answer
    <2>4. p # None => /\ p.version = f.version
                      /\ \E q \in DOMAIN packs : packs[q].version = p.version
      BY <2>2, PackForVersion DEF PackTypeOK
    <2>5. f.version \in Nat
      BY PackFileAssumption
    <2>6. AnswerInOrder'
      <3>1. SUFFICES ASSUME p # None
                     PROVE  /\ \E g \in PackFiles : FromFile(g)'
                            /\ answer'.met = {id \in DOMAIN answer'.pack.requirements :
                                                Met(answer'.pack, id, answer'.said)}
        BY <2>3 DEF AnswerInOrder, Scored
      <3>2. PICK q \in Candidates(packs, c) :
              \/ ~UsesSibling /\ p = packs[q]
              \/ /\ UsesSibling /\ Mergeable(packs[q], siblingFile)
                 /\ p = Merged(packs[q], siblingFile)
        BY <2>2, <3>1, PackForIs DEF PackTypeOK
      <3>3. UsesSibling' <=> UsesSibling
        BY <2>3 DEF UsesSibling
      <3> HIDE DEF packs, p
      <3>4. FromFile(f)'
        BY <2>2, <2>3, <3>2, <3>3 DEF FromFile
      <3> QED
        BY <2>3, <3>1, <3>4
    <2>7. RefusesForNow'
      <3>1. UsesSibling' <=> UsesSibling
        BY <2>3 DEF UsesSibling
      <3>2. p = None => \/ Candidates(packs, c) = {}
                        \/ /\ UsesSibling
                           /\ \E q \in Candidates(packs, c) : ~Mergeable(packs[q], siblingFile)
        BY <2>2, PackForIs DEF PackTypeOK
      <3> HIDE DEF packs, p
      <3> QED
        BY <2>2, <2>3, <3>1, <3>2 DEF RefusesForNow
    <2> HIDE DEF p
    <2>8. PackTypeOK'
      <3>1. /\ packFile' \in PackFiles /\ siblingFile' \in SiblingFiles \cup {None}
            /\ cached' \in Loaded \cup {None} /\ republished' \in BOOLEAN
        BY <2>3 DEF PackTypeOK
      <3>2. calls' \in [Calls -> [stage : {"idle", "missed"}, packs : {None}]
                                   \cup [stage : {"read", "loaded"}, packs : Loaded]]
        BY <2>3 DEF PackTypeOK, Idle
      <3>3. scoredBy' \subseteq Nat
        BY <2>3, <2>4, <2>5 DEF PackTypeOK
      <3>4. /\ answer'.contact \in Contacts
            /\ answer'.said \subseteq Wordings
            /\ answer'.pack # None => answer'.met \subseteq DOMAIN answer'.pack.requirements
        BY <2>3
      <3> QED
        BY <3>1, <3>2, <3>3, <3>4 DEF PackTypeOK
    <2>9. FilledFirst'
      BY <2>1, <2>3 DEF FilledFirst
    <2>10. LoadsAgree'
      <3> SUFFICES ASSUME ~republished
                   PROVE  LoadsAgree'
        BY <2>3 DEF LoadsAgree
      <3>1. packs = cached
        BY <2>1 DEF LoadsAgree
      <3>2. \A other \in Calls : calls'[other].stage # "idle" => calls'[other] = calls[other]
        BY <2>3 DEF PackTypeOK, Idle
      <3>3. \A other \in Calls : Loading(other)' => Loading(other)
        BY <3>2 DEF Loading
      <3>4. \A v \in scoredBy' : v \in scoredBy \/ \E q \in DOMAIN cached : cached[q].version = v
        BY <2>3, <2>4, <3>1
      <3> HIDE DEF packs
      <3> QED
        BY <2>3, <3>2, <3>3, <3>4 DEF LoadsAgree
    <2> QED
      BY <2>6, <2>7, <2>8, <2>9, <2>10
  <1>8. CASE Restart
    <2>1. PackTypeOK'
      BY <1>8 DEF Restart, PackTypeOK, Idle
    <2>2. FilledFirst' /\ LoadsAgree'
      BY <1>8 DEF Restart, FilledFirst, LoadsAgree, Loading, Idle
    <2> QED
      BY <1>8, <2>1, <2>2, NothingAnswered DEF Restart
  <1>9. CASE UNCHANGED packVars
    BY <1>9 DEF packVars, PackTypeOK, AnswerInOrder, RefusesForNow, FilledFirst, LoadsAgree,
                Loading, Scored, FromFile, UsesSibling
  <1> QED
    BY <1>1, <1>2, <1>3, <1>4, <1>5, <1>6, <1>7, <1>8, <1>9 DEF PackNext

THEOREM PacksInvariance == PackSpec => []PacksInv
  BY PacksInit, PacksKeep, PTL DEF PackSpec

(* Every variable keeps its type.                                          *)
THEOREM PacksTyped == PackSpec => []PackTypeOK
  BY PacksInvariance, PTL DEF PacksInv

(* Whatever was published, cached and merged before, a contact is scored   *)
(* by a pack of its own market and product.                                *)
THEOREM PacksAreTheContacts == PackSpec => []NoBorrowedPack
  <1>1. PacksInv => NoBorrowedPack
    <2> SUFFICES ASSUME PacksInv, Scored
                 PROVE  /\ answer.pack.market = answer.contact.market
                        /\ answer.contact.product \in {"", answer.pack.product}
      BY DEF NoBorrowedPack
    <2>1. PICK f \in PackFiles : FromFile(f)
      BY DEF PacksInv, AnswerInOrder
    <2>2. PICK p \in Candidates(answer.packs, answer.contact) :
            \/ answer.pack = answer.packs[p]
            \/ answer.pack = Merged(answer.packs[p], siblingFile)
      BY <2>1 DEF FromFile
    <2>3. answer.packs = Load(f) /\ p \in DOMAIN f.packs
      BY <2>1, <2>2 DEF FromFile, Candidates, Load
    <2>4. answer.pack.market = answer.packs[p].market
          /\ answer.pack.product = answer.packs[p].product
      BY <2>2, <2>3, PackFields
    <2> QED
      BY <2>2, <2>4 DEF Candidates
  <1> QED
    BY <1>1, PacksInvariance, PTL

-----------------------------------------------------------------------------
(* ById: with distinct ids, a document is found under its own.             *)
LEMMA ByIdFinds ==
  ASSUME NEW list, NEW i \in DOMAIN list,
         \A j, k \in DOMAIN list : list[j].id = list[k].id => j = k
  PROVE  list[i].id \in DOMAIN ById(list) /\ ById(list)[list[i].id] = list[i]
  <1>1. (CHOOSE j \in DOMAIN list : list[j].id = list[i].id) = i
    OBVIOUS
  <1> QED
    BY <1>1 DEF ById

LEMMA SiblingDisclosure ==
  ASSUME NEW s, ValidSibling(s), NEW i \in DOMAIN s.disclosures
  PROVE  LET d == s.disclosures[i] IN
         /\ d.id \in DOMAIN SiblingObligations(s)
         /\ SiblingObligations(s)[d.id].steps = <<Step(d.entry, d.wordings)>>
  <1>1. \A j, k \in DOMAIN s.disclosures : s.disclosures[j].id = s.disclosures[k].id => j = k
    BY DEF ValidSibling, DistinctIds
  <1>2. /\ s.disclosures[i].id \in DOMAIN ById(s.disclosures)
        /\ ById(s.disclosures)[s.disclosures[i].id] = s.disclosures[i]
    BY <1>1, ByIdFinds
  <1> QED
    BY <1>2 DEF SiblingObligations

LEMMA SupplementAdds ==
  ASSUME PacksInv, Scored
  PROVE  LET scored == answer.pack.requirements
             ours   == answer.packs[answer.pack.pack_id].requirements
         IN  /\ \A id \in DOMAIN ours : id \in DOMAIN scored /\ scored[id] = ours[id]
             /\ UsesSibling =>
                  \A i \in DOMAIN siblingFile.disclosures :
                    \E id \in DOMAIN scored :
                      scored[id].steps = <<Step(siblingFile.disclosures[i].entry,
                                                siblingFile.disclosures[i].wordings)>>
  <1>1. PICK f \in PackFiles : FromFile(f)
    BY DEF PacksInv, AnswerInOrder
  <1>2. PICK p \in Candidates(answer.packs, answer.contact) :
          /\ answer.packs = Load(f)
          /\ \/ ~UsesSibling /\ answer.pack = answer.packs[p]
             \/ /\ UsesSibling /\ Mergeable(answer.packs[p], siblingFile)
                /\ answer.pack = Merged(answer.packs[p], siblingFile)
    BY <1>1 DEF FromFile
  <1>3. p \in DOMAIN f.packs
    BY <1>2 DEF Candidates, Load
  <1>4. CASE ~UsesSibling /\ answer.pack = answer.packs[p]
    <2>1. answer.pack = Load(f)[p]
      BY <1>2, <1>4
    <2>2. answer.pack.pack_id = p
      BY <1>3, <2>1, PackFields
    <2> QED
      BY <1>4, <2>2
  <1>5. CASE /\ UsesSibling /\ Mergeable(answer.packs[p], siblingFile)
             /\ answer.pack = Merged(answer.packs[p], siblingFile)
    <2> DEFINE ours == NativeObligations(f.packs[p])
               theirs == SiblingObligations(siblingFile)
               scored == answer.pack.requirements
    <2>1. /\ answer.pack.pack_id = p
          /\ answer.packs[p].requirements = ours
          /\ DOMAIN scored = DOMAIN ours \cup DOMAIN theirs
          /\ \A id \in DOMAIN scored :
               scored[id] = IF id \in DOMAIN theirs THEN theirs[id] ELSE ours[id]
      <3>1. answer.pack = Merged(Load(f)[p], siblingFile) /\ answer.packs[p] = Load(f)[p]
        BY <1>2, <1>5
      <3>2. answer.pack.pack_id = p
        BY <1>3, <3>1, PackFields
      <3>3. /\ Load(f)[p].requirements = ours
            /\ scored = [id \in DOMAIN ours \cup DOMAIN theirs |->
                           IF id \in DOMAIN theirs THEN theirs[id] ELSE ours[id]]
        BY <1>3, <3>1, MergedRequirements
      <3> HIDE DEF scored, ours, theirs
      <3>4. /\ DOMAIN scored = DOMAIN ours \cup DOMAIN theirs
            /\ \A id \in DOMAIN scored :
                 scored[id] = IF id \in DOMAIN theirs THEN theirs[id] ELSE ours[id]
        BY <3>3
      <3> QED
        BY <3>1, <3>2, <3>3, <3>4 DEF scored
    <2>2. ValidSibling(siblingFile) /\ DOMAIN ours \cap DOMAIN theirs = {}
      BY <1>5, <2>1 DEF Mergeable, Disjoint
    <2>3. ASSUME NEW i \in DOMAIN siblingFile.disclosures
          PROVE  \E id \in DOMAIN theirs :
                   theirs[id].steps = <<Step(siblingFile.disclosures[i].entry,
                                             siblingFile.disclosures[i].wordings)>>
      BY <2>2, <2>3, SiblingDisclosure
    <2> HIDE DEF ours, theirs, scored
    <2>4. \A id \in DOMAIN ours : id \in DOMAIN scored /\ scored[id] = ours[id]
      BY <2>1, <2>2
    <2>5. \A id \in DOMAIN theirs : id \in DOMAIN scored /\ scored[id] = theirs[id]
      BY <2>1
    <2>6. \A i \in DOMAIN siblingFile.disclosures :
            \E id \in DOMAIN scored :
              scored[id].steps = <<Step(siblingFile.disclosures[i].entry,
                                        siblingFile.disclosures[i].wordings)>>
      BY <2>3, <2>5
    <2> QED
      BY <2>1, <2>4, <2>6 DEF scored
  <1> QED
    BY <1>2, <1>4, <1>5

(* A sibling file only ever adds to the pack it is merged into, and all of *)
(* what it holds.                                                          *)
THEOREM SupplementsOnlyAdd == PackSpec => []SupplementNeverReplaces
  <1>1. PacksInv => SupplementNeverReplaces
    BY SupplementAdds DEF SupplementNeverReplaces
  <1> QED
    BY <1>1, PacksInvariance, PTL

-----------------------------------------------------------------------------
(* A refusal in spite of a valid file has a reason of that moment.         *)
THEOREM RefusalsAreOfTheMoment == PackSpec => []RefusesForNow
  BY PacksInvariance, PTL DEF PacksInv

(* What is scored by before the file is published anew under a load is the *)
(* cached file, which has one version.                                     *)
THEOREM OneVersion == PackSpec => []OneVersionUnlessRepublished
  <1>1. PacksInv => OneVersionUnlessRepublished
    <2> SUFFICES ASSUME PacksInv, ~republished, NEW v \in scoredBy, NEW w \in scoredBy
                 PROVE  v = w
      BY DEF OneVersionUnlessRepublished
    <2>1. cached # None
      BY DEF PacksInv, FilledFirst
    <2>2. PICK f \in PackFiles : cached = Load(f)
      BY <2>1, LoadedIsAFile DEF PacksInv, PackTypeOK
    <2>3. \A p \in DOMAIN cached : cached[p].version = f.version
      BY <2>2 DEF Load
    <2> QED
      BY <2>1, <2>3 DEF PacksInv, LoadsAgree
  <1> QED
    BY <1>1, PacksInvariance, PTL

-----------------------------------------------------------------------------
(* Within an obligation, a step that comes twice is worded alike.          *)
Consistent(requirements) ==
  /\ DOMAIN requirements \subseteq Nat
  /\ \A id \in DOMAIN requirements :
       \A i, j \in DOMAIN requirements[id].steps :
         requirements[id].steps[i].entry = requirements[id].steps[j].entry
           => requirements[id].steps[i].wordings = requirements[id].steps[j].wordings

LEMMA NativeIsConsistent ==
  ASSUME NEW f \in PackFiles, NEW p \in DOMAIN f.packs
  PROVE  Consistent(NativeObligations(f.packs[p]))
  <1> DEFINE all == NativeObligations(f.packs[p])
             documents == ById(f.packs[p].requirements)
  <1>1. DOMAIN all \subseteq Nat
    BY PackFileAssumption DEF NativeObligations, ById
  <1>2. ASSUME NEW id \in DOMAIN all, NEW i \in DOMAIN all[id].steps
        PROVE  all[id].steps[i].wordings = f.packs[p].phrases[all[id].steps[i].entry]
    BY <1>2 DEF NativeObligations, Step
  <1> HIDE DEF all
  <1> QED
    BY <1>1, <1>2 DEF Consistent, all

LEMMA SiblingIsConsistent ==
  ASSUME NEW s \in SiblingFiles
  PROVE  Consistent(SiblingObligations(s))
  <1> DEFINE all == SiblingObligations(s)
  <1>1. DOMAIN all \subseteq Nat
    BY PackFileAssumption DEF SiblingObligations, ById
  <1>2. ASSUME NEW id \in DOMAIN all, NEW i \in DOMAIN all[id].steps
        PROVE  i = 1
    BY <1>2 DEF SiblingObligations
  <1> HIDE DEF all
  <1> QED
    BY <1>1, <1>2 DEF Consistent, all

LEMMA ScoredIsConsistent ==
  ASSUME PacksInv, Scored
  PROVE  Consistent(answer.pack.requirements)
  <1>1. PICK f \in PackFiles : FromFile(f)
    BY DEF PacksInv, AnswerInOrder
  <1>2. PICK p \in DOMAIN f.packs :
          \/ answer.pack = Load(f)[p]
          \/ \E s \in SiblingFiles : answer.pack = Merged(Load(f)[p], s)
    BY <1>1 DEF FromFile, Candidates, Load, UsesSibling, PacksInv, PackTypeOK
  <1>3. Consistent(Load(f)[p].requirements)
    <2>1. Load(f)[p].requirements = NativeObligations(f.packs[p])
      BY DEF Load
    <2> QED
      BY <2>1, NativeIsConsistent
  <1>4. ASSUME NEW s \in SiblingFiles, answer.pack = Merged(Load(f)[p], s)
        PROVE  Consistent(answer.pack.requirements)
    <2>1. Consistent(SiblingObligations(s))
      BY SiblingIsConsistent
    <2> DEFINE theirs == SiblingObligations(s)
               ours == NativeObligations(f.packs[p])
               both == answer.pack.requirements
    <2>2. /\ DOMAIN both = DOMAIN ours \cup DOMAIN theirs
          /\ \A id \in DOMAIN both : both[id] = IF id \in DOMAIN theirs THEN theirs[id] ELSE ours[id]
      <3>1. both = [id \in DOMAIN ours \cup DOMAIN theirs |->
                      IF id \in DOMAIN theirs THEN theirs[id] ELSE ours[id]]
        BY <1>4, MergedRequirements
      <3> HIDE DEF both, ours, theirs
      <3> QED
        BY <3>1
    <2>3. Consistent(ours)
      BY NativeIsConsistent
    <2> HIDE DEF theirs, ours, both
    <2> QED
      BY <2>1, <2>2, <2>3 DEF Consistent, theirs, ours, both
  <1> QED
    BY <1>2, <1>3, <1>4

(* The lexicon words an entry as the first obligation that has it.         *)
LEMMA LexiconWords ==
  ASSUME NEW requirements, Consistent(requirements),
         NEW id \in DOMAIN requirements, NEW i \in DOMAIN requirements[id].steps
  PROVE  LET mine == requirements[id].steps[i] IN
         /\ mine.entry \in DOMAIN Lexicon(requirements)
         /\ \E owner \in DOMAIN requirements :
              /\ owner <= id
              /\ \E j \in DOMAIN requirements[owner].steps :
                   /\ requirements[owner].steps[j].entry = mine.entry
                   /\ Lexicon(requirements)[mine.entry] = requirements[owner].steps[j].wordings
  <1> DEFINE entry == requirements[id].steps[i].entry
             owners == {o \in DOMAIN requirements : entry \in Entries(requirements[o])}
             owner == First(owners)
             j == WordingIn(requirements[owner], entry)
  <1>1. entry \in Entries(requirements[id]) /\ id \in owners
    BY DEF Entries
  <1>2. owners \in SUBSET Nat
    BY DEF Consistent
  <1>3. owner \in owners /\ owner <= id
    <2> HIDE DEF owners
    <2> QED
      BY <1>1, <1>2, FirstIsLeast
  <1>4. entry \in Entries(requirements[owner])
    BY <1>3
  <1>5. \E k \in DOMAIN requirements[owner].steps : requirements[owner].steps[k].entry = entry
    BY <1>4 DEF Entries
  <1>6. j \in DOMAIN requirements[owner].steps /\ requirements[owner].steps[j].entry = entry
    <2> HIDE DEF entry, owner
    <2> QED
      BY <1>5 DEF WordingIn
  <1>7. entry \in UNION {Entries(requirements[o]) : o \in DOMAIN requirements}
    BY <1>1
  <1>8. Lexicon(requirements)[entry] = requirements[owner].steps[j].wordings
        /\ entry \in DOMAIN Lexicon(requirements)
    BY <1>7 DEF Lexicon
  <1> HIDE DEF owner, j
  <1> QED
    BY <1>3, <1>6, <1>8

(* An obligation none of whose steps an earlier one words differently is   *)
(* judged by its own wordings.                                             *)
LEMMA UnsharedIsJudgedAsWritten ==
  ASSUME NEW p, Consistent(p.requirements), NEW id \in DOMAIN p.requirements, NEW said_,
         \A earlier \in DOMAIN p.requirements : earlier < id =>
           \A i \in DOMAIN p.requirements[id].steps, j \in DOMAIN p.requirements[earlier].steps :
             p.requirements[id].steps[i].entry = p.requirements[earlier].steps[j].entry
               => p.requirements[id].steps[i].wordings = p.requirements[earlier].steps[j].wordings
  PROVE  Met(p, id, said_) <=> MetByItsOwnWording(p, id, said_)
  <1> DEFINE requirements == p.requirements
  <1>1. ASSUME NEW i \in DOMAIN requirements[id].steps
        PROVE  /\ requirements[id].steps[i].entry \in DOMAIN Lexicon(requirements)
               /\ Lexicon(requirements)[requirements[id].steps[i].entry]
                    = requirements[id].steps[i].wordings
    <2>1. /\ requirements[id].steps[i].entry \in DOMAIN Lexicon(requirements)
          /\ \E owner \in DOMAIN requirements :
               /\ owner <= id
               /\ \E j \in DOMAIN requirements[owner].steps :
                    /\ requirements[owner].steps[j].entry = requirements[id].steps[i].entry
                    /\ Lexicon(requirements)[requirements[id].steps[i].entry]
                         = requirements[owner].steps[j].wordings
      BY <1>1, LexiconWords
    <2> PICK owner \in DOMAIN requirements :
          /\ owner <= id
          /\ \E j \in DOMAIN requirements[owner].steps :
               /\ requirements[owner].steps[j].entry = requirements[id].steps[i].entry
               /\ Lexicon(requirements)[requirements[id].steps[i].entry]
                    = requirements[owner].steps[j].wordings
      BY <2>1
    <2>2. CASE owner = id
      BY <2>1, <2>2 DEF Consistent
    <2>3. CASE owner # id
      <3>1. owner < id
        BY <2>1, <2>3 DEF Consistent
      <3> QED
        BY <2>1, <3>1
    <2> QED
      BY <2>2, <2>3
  <1>2. Met(p, id, said_) <=>
          \A i \in DOMAIN requirements[id].steps :
            /\ requirements[id].steps[i].entry \in DOMAIN Lexicon(requirements)
            /\ Lexicon(requirements)[requirements[id].steps[i].entry] \cap said_ # {}
    BY DEF Met, Entries
  <1> QED
    BY <1>1, <1>2 DEF MetByItsOwnWording

(* The one way to be judged by other wordings than one's own is a step     *)
(* that an obligation earlier in the order of ids words differently.       *)
THEOREM MisjudgedStepsAreShared == PackSpec => []OnlySharedStepsAreMisjudged
  <1>1. PacksInv => OnlySharedStepsAreMisjudged
    <2> SUFFICES ASSUME PacksInv, Scored, NEW id \in DOMAIN answer.pack.requirements,
                        (id \in answer.met) # MetByItsOwnWording(answer.pack, id, answer.said)
                 PROVE  \E earlier \in DOMAIN answer.pack.requirements :
                          /\ earlier < id
                          /\ \E i \in DOMAIN answer.pack.requirements[id].steps,
                               j \in DOMAIN answer.pack.requirements[earlier].steps :
                               LET mine   == answer.pack.requirements[id].steps[i]
                                   theirs == answer.pack.requirements[earlier].steps[j]
                               IN  mine.entry = theirs.entry /\ mine.wordings # theirs.wordings
      BY DEF OnlySharedStepsAreMisjudged
    <2>1. id \in answer.met <=> Met(answer.pack, id, answer.said)
      BY DEF PacksInv, AnswerInOrder
    <2>a. ~(id \in answer.met <=> MetByItsOwnWording(answer.pack, id, answer.said))
      <3>1. MetByItsOwnWording(answer.pack, id, answer.said) \in BOOLEAN
        BY DEF MetByItsOwnWording
      <3>2. (id \in answer.met) \in BOOLEAN
        OBVIOUS
      <3> HIDE DEF MetByItsOwnWording
      <3> QED
        BY <3>1, <3>2, Zenon
    <2>2. ~(Met(answer.pack, id, answer.said) <=> MetByItsOwnWording(answer.pack, id, answer.said))
      BY <2>1, <2>a
    <2>3. Consistent(answer.pack.requirements)
      BY ScoredIsConsistent
    <2> QED
      BY <2>2, <2>3, UnsharedIsJudgedAsWritten
  <1> QED
    BY <1>1, PacksInvariance, PTL
===============================================================================
