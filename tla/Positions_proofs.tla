-------------------------- MODULE Positions_proofs --------------------------
(* What Positions' operators give, for sets of positions of any size.        *)
EXTENDS Positions, FiniteSetsExt, FiniteSetTheorems, WellFoundedInduction, TLAPS

\* A nonempty set of naturals has a smallest member, and it is Min.
LEMMA Smallest ==
  ASSUME NEW S, S \subseteq Nat, S # {}
  PROVE  Min(S) \in S /\ \A k \in S : Min(S) <= k
  <1> DEFINE R == OpToRel(<, Nat)
  <1>1. IsWellFoundedOn(R, Nat)
    BY NatLessThanWellFounded, Zenon
  <1>2. ASSUME NEW k \in Nat, NEW n \in Nat, k < n
        PROVE  <<k, n>> \in R
    BY <1>2, Zenon DEF OpToRel
  <1> HIDE DEF R
  <1>3. PICK n \in S : \A k \in S : <<k, n>> \notin R
    BY <1>1, WFMin, Zenon
  <1>4. \A k \in S : n <= k
    <2> SUFFICES ASSUME NEW k \in S PROVE n <= k
      OBVIOUS
    <2>1. k \in Nat /\ n \in Nat
      OBVIOUS
    <2>2. ~ (k < n)
      BY <1>2, <1>3, <2>1, Zenon
    <2> QED BY <2>1, <2>2
  <1>5. n \in S /\ \A y \in S : n <= y
    BY <1>4
  <1>6. Min(S) = CHOOSE x \in S : \A y \in S : x <= y
    BY DEF Min
  <1> QED BY <1>5, <1>6

\* What holds of 0 and of every number whose predecessor it holds of, up to m.
LEMMA CountingUp ==
  ASSUME NEW m \in Nat, NEW S, 0 \in S, \A k \in 1 .. m : k - 1 \in S => k \in S
  PROVE  0 .. m \subseteq S
  <1> DEFINE missing == {k \in 0 .. m : k \notin S}
  <1> SUFFICES ASSUME missing # {} PROVE FALSE
    OBVIOUS
  <1>1. missing \in SUBSET Nat
    OBVIOUS
  <1> DEFINE least == Min(missing)
  <1>2. least \in missing /\ \A k \in missing : least <= k
    BY <1>1, Smallest
  <1> HIDE DEF least
  <1>3. least # 0
    BY <1>2
  <1>4. least \in 1 .. m /\ least - 1 \in 0 .. m /\ least - 1 \notin missing
    BY <1>2, <1>3
  <1> QED BY <1>2, <1>4

\* Counting the members of F from below meets every number up to their count,
\* and meets it at a member.
LEMMA CountFromBelow ==
  ASSUME NEW n \in Nat, NEW F \in SUBSET (1 .. n), NEW k \in 1 .. Cardinality(F)
  PROVE  \E i \in F : Cardinality({j \in F : j <= i}) = k
  <1> DEFINE Below(m) == {j \in F : j <= m}
             Enough == {m \in 0 .. n : Cardinality(Below(m)) >= k}
  <1>0. \A i \in F : i \in Nat /\ 1 <= i /\ i <= n
    OBVIOUS
  <1>1. IsFiniteSet(F) /\ Cardinality(F) \in Nat
    <2>1. IsFiniteSet(1 .. n)
      BY FS_Interval
    <2> QED BY <2>1, FS_Subset, FS_CardinalityType
  <1>2. ASSUME NEW m \in 0 .. n
        PROVE  IsFiniteSet(Below(m)) /\ Cardinality(Below(m)) \in Nat
    <2>1. Below(m) \in SUBSET F
      OBVIOUS
    <2> HIDE DEF Below
    <2> QED BY <1>1, <2>1, FS_Subset, FS_CardinalityType
  <1>3. n \in Enough
    <2>1. Below(n) = F
      BY <1>0
    <2>2. Cardinality(Below(n)) >= k
      BY <1>1, <2>1
    <2> HIDE DEF Below
    <2> QED BY <2>2
  <1> DEFINE top == Min(Enough)
  <1>4. top \in Enough /\ \A m \in Enough : top <= m
    <2>1. Enough \subseteq 0 .. n
      OBVIOUS
    <2> HIDE DEF Enough
    <2>2. Enough \subseteq Nat /\ Enough # {}
      BY <1>3, <2>1
    <2> QED BY <2>2, Smallest
  <1> HIDE DEF top
  <1>5. top # 0
    <2>0. \A j : j \notin Below(0)
      <3>1. \A j \in F : ~(j <= 0)
        BY <1>0
      <3> QED BY <3>1
    <2>1. Below(0) = {}
      <3> HIDE DEF Below
      <3> QED BY <2>0
    <2>2. Cardinality(Below(0)) = 0
      BY <2>1, FS_EmptySet
    <2> QED BY <1>1, <1>4, <2>2
  <1>6. top \in 1 .. n /\ top - 1 \in 0 .. n /\ top - 1 \notin Enough
    <2>1. top \in 1 .. n /\ top - 1 \in 0 .. n
      BY <1>4, <1>5
    <2> HIDE DEF Enough
    <2> QED BY <1>4, <2>1
  <1>7. Cardinality(Below(top - 1)) < k
    <2> HIDE DEF Below
    <2> QED BY <1>2, <1>6
  <1>8. \/ Below(top) = Below(top - 1)
        \/ top \in F /\ Below(top) = Below(top - 1) \union {top}
    <2>1. CASE top \in F
      <3>1. \A j \in F : j <= top <=> j <= top - 1 \/ j = top
        BY <1>0, <1>6
      <3>2. \A j : j \in Below(top) <=> j \in Below(top - 1) \union {top}
        BY <2>1, <3>1, <1>6
      <3> HIDE DEF Below
      <3> QED BY <2>1, <3>2
    <2>2. CASE top \notin F
      <3>1. \A j \in F : j <= top <=> j <= top - 1
        BY <1>0, <1>6, <2>2
      <3> QED BY <3>1
    <2> QED BY <2>1, <2>2
  <1>9. Cardinality(Below(top)) >= k
    <2> HIDE DEF Below
    <2> QED BY <1>4
  <1> HIDE DEF Below, Enough
  <1>10. Below(top) = Below(top - 1) \union {top} /\ top \in F
    BY <1>2, <1>6, <1>7, <1>8, <1>9
  <1>11. Cardinality(Below(top)) <= Cardinality(Below(top - 1)) + 1
    <2>1. IsFiniteSet(Below(top - 1)) /\ Cardinality(Below(top - 1)) \in Nat
      BY <1>2, <1>6
    <2>2. Cardinality(Below(top - 1) \union {top}) =
            IF top \in Below(top - 1) THEN Cardinality(Below(top - 1))
            ELSE Cardinality(Below(top - 1)) + 1
      BY <2>1, FS_AddElement
    <2> QED BY <1>10, <2>1, <2>2
  <1>12. Cardinality(Below(top)) = k
    BY <1>1, <1>2, <1>6, <1>7, <1>9, <1>11
  <1> QED BY <1>10, <1>12 DEF Below

\* How many members are counted tells which one is looked at.
LEMMA CountsDiffer ==
  ASSUME NEW n \in Nat, NEW F \in SUBSET (1 .. n), NEW i \in F, NEW l \in F, i < l
  PROVE  /\ Cardinality({j \in F : j <= i}) < Cardinality({j \in F : j <= l})
         /\ Cardinality({j \in F : j <= i}) \in 1 .. Cardinality(F)
  <1> DEFINE Low == {j \in F : j <= i}
             High == {j \in F : j <= l}
  <1>1. IsFiniteSet(F) /\ Cardinality(F) \in Nat
    <2>1. IsFiniteSet(1 .. n)
      BY FS_Interval
    <2> QED BY <2>1, FS_Subset, FS_CardinalityType
  <1>2. i \in Nat /\ l \in Nat /\ \A j \in F : j \in Nat
    OBVIOUS
  <1>3. High \in SUBSET F /\ Low \in SUBSET High /\ l \in High /\ l \notin Low /\ i \in Low
    <2>1. \A j \in F : j <= i => j <= l
      BY <1>2
    <2>2. High \in SUBSET F /\ Low \in SUBSET High
      BY <2>1
    <2>3. i <= i /\ l <= l /\ ~(l <= i)
      BY <1>2
    <2> QED BY <2>2, <2>3
  <1> HIDE DEF Low, High
  <1>4. /\ IsFiniteSet(High) /\ Cardinality(High) \in Nat /\ Cardinality(High) <= Cardinality(F)
    BY <1>1, <1>3, FS_Subset, FS_CardinalityType
  <1>5. /\ IsFiniteSet(Low) /\ Cardinality(Low) \in Nat /\ Cardinality(Low) <= Cardinality(High)
        /\ Cardinality(Low) # Cardinality(High)
    BY <1>3, <1>4, FS_Subset, FS_CardinalityType
  <1>6. Cardinality(Low) # 0
    BY <1>3, <1>5, FS_EmptySet
  <1> QED BY <1>1, <1>4, <1>5, <1>6 DEF Low, High

\* InOrder lists the members of F, each once, upwards.
THEOREM OrderOfPositions ==
  ASSUME NEW n \in Nat, NEW F \in SUBSET (1 .. n)
  PROVE  /\ IsFiniteSet(F) /\ Cardinality(F) \in Nat /\ Cardinality(F) <= n
         /\ InOrder(F) \in [1 .. Cardinality(F) -> F]
         /\ \A i \in F : \E k \in 1 .. Cardinality(F) : InOrder(F)[k] = i
         /\ \A k, l \in 1 .. Cardinality(F) : k < l <=> InOrder(F)[k] < InOrder(F)[l]
         /\ \A k, l \in 1 .. Cardinality(F) : InOrder(F)[k] = InOrder(F)[l] => k = l
  <1> DEFINE Count(i) == Cardinality({j \in F : j <= i})
             At(k) == CHOOSE i \in F : Count(i) = k
  <1>1. IsFiniteSet(F) /\ Cardinality(F) \in Nat /\ Cardinality(F) <= n
    <2>1. IsFiniteSet(1 .. n) /\ Cardinality(1 .. n) = n
      BY FS_Interval
    <2> QED BY <2>1, FS_Subset, FS_CardinalityType
  <1>2. ASSUME NEW k \in 1 .. Cardinality(F) PROVE At(k) \in F /\ Count(At(k)) = k
    <2>1. \E i \in F : Count(i) = k
      BY CountFromBelow
    <2> QED BY <2>1
  <1>3. ASSUME NEW i \in F, NEW l \in F, i < l
        PROVE  Count(i) < Count(l)
    BY <1>3, CountsDiffer
  <1>4. ASSUME NEW i \in F PROVE Count(i) \in 1 .. Cardinality(F)
    <2> DEFINE Low == {j \in F : j <= i}
    <2>1. Low \in SUBSET F /\ i \in Low
      OBVIOUS
    <2> HIDE DEF Low
    <2>2. IsFiniteSet(Low) /\ Cardinality(Low) \in Nat /\ Cardinality(Low) <= Cardinality(F)
      BY <1>1, <2>1, FS_Subset, FS_CardinalityType
    <2>3. Cardinality(Low) # 0
      BY <2>1, <2>2, FS_EmptySet
    <2> QED BY <1>1, <2>2, <2>3 DEF Low
  <1>5. InOrder(F) = [k \in 1 .. Cardinality(F) |-> At(k)]
    BY DEF InOrder
  <1> HIDE DEF At, Count
  <1>6. \A i \in F : i \in Nat
    OBVIOUS
  <1>7. \A i, l \in F : Count(i) = Count(l) => i = l
    BY <1>3, <1>4, <1>6
  <1>8. \A i, l \in F : i < l <=> Count(i) < Count(l)
    BY <1>3, <1>4, <1>6
  <1>9. \A k \in 1 .. Cardinality(F) : InOrder(F)[k] = At(k)
    BY <1>5
  <1>10. InOrder(F) \in [1 .. Cardinality(F) -> F]
    BY <1>2, <1>5
  <1>11. ASSUME NEW i \in F PROVE \E k \in 1 .. Cardinality(F) : InOrder(F)[k] = i
    <2>1. At(Count(i)) = i
      BY <1>2, <1>4, <1>7
    <2> QED BY <1>4, <1>9, <2>1
  <1>12. ASSUME NEW k \in 1 .. Cardinality(F), NEW l \in 1 .. Cardinality(F)
         PROVE  /\ k < l <=> InOrder(F)[k] < InOrder(F)[l]
                /\ InOrder(F)[k] = InOrder(F)[l] => k = l
    <2>1. Count(At(k)) = k /\ Count(At(l)) = l /\ At(k) \in F /\ At(l) \in F
      BY <1>2
    <2>2. k < l <=> At(k) < At(l)
      <3>1. At(k) < At(l) <=> Count(At(k)) < Count(At(l))
        BY <1>8, <2>1, Zenon
      <3> QED BY <2>1, <3>1
    <2>3. At(k) = At(l) => k = l
      BY <2>1
    <2> QED BY <1>9, <2>2, <2>3
  <1> QED BY <1>1, <1>10, <1>11, <1>12

\* Picked gives the entries at the positions, in order, and nothing else.
THEOREM PickedEntries ==
  ASSUME NEW S, NEW s \in Seq(S), NEW F \in SUBSET (DOMAIN s)
  PROVE  /\ Picked(s, F) \in Seq(S)
         /\ Len(Picked(s, F)) = Cardinality(F) /\ Len(Picked(s, F)) <= Len(s)
         /\ IsFiniteSet(F) /\ Cardinality(F) \in Nat
         /\ DOMAIN Picked(s, F) = 1 .. Cardinality(F)
         /\ InOrder(F) \in [1 .. Cardinality(F) -> F]
         /\ \A k \in 1 .. Cardinality(F) : Picked(s, F)[k] = s[InOrder(F)[k]]
         /\ \A i \in F : \E k \in 1 .. Cardinality(F) : InOrder(F)[k] = i
  <1>1. Len(s) \in Nat /\ DOMAIN s = 1 .. Len(s) /\ F \in SUBSET (1 .. Len(s))
        /\ \A i \in F : s[i] \in S
    OBVIOUS
  <1>2. /\ IsFiniteSet(F) /\ Cardinality(F) \in Nat /\ Cardinality(F) <= Len(s)
        /\ InOrder(F) \in [1 .. Cardinality(F) -> F]
        /\ \A i \in F : \E k \in 1 .. Cardinality(F) : InOrder(F)[k] = i
    BY <1>1, OrderOfPositions
  <1>3. Picked(s, F) = [k \in 1 .. Cardinality(F) |-> s[InOrder(F)[k]]]
    BY DEF Picked
  <1>4. \A k \in 1 .. Cardinality(F) : s[InOrder(F)[k]] \in S
    BY <1>1, <1>2
  <1> DEFINE c == Cardinality(F)
             p == Picked(s, F)
             o == InOrder(F)
  <1>5. c \in Nat /\ c <= Len(s) /\ p = [k \in 1 .. c |-> s[o[k]]] /\ \A k \in 1 .. c : s[o[k]] \in S
    BY <1>2, <1>3, <1>4
  <1> HIDE DEF c, p, o
  <1>6. p \in Seq(S) /\ Len(p) = c /\ DOMAIN p = 1 .. c /\ \A k \in 1 .. c : p[k] = s[o[k]]
    BY <1>5
  <1> QED BY <1>2, <1>5, <1>6 DEF c, p, o

\* All positions give the sequence itself.
THEOREM PickedAll ==
  ASSUME NEW S, NEW s \in Seq(S)
  PROVE  Picked(s, DOMAIN s) = s
  <1> DEFINE n == Len(s)
             F == 1 .. n
             At(k) == CHOOSE i \in F : Cardinality({j \in F : j <= i}) = k
  <1>1. n \in Nat /\ DOMAIN s = F /\ s = [k \in F |-> s[k]]
    OBVIOUS
  <1>2. Cardinality(F) = n
    BY <1>1, FS_Interval
  <1>3. ASSUME NEW i \in F PROVE Cardinality({j \in F : j <= i}) = i
    <2>1. i \in Nat /\ i >= 1 /\ i <= n
      BY <1>1
    <2>2. {j \in F : j <= i} = 1 .. i
      BY <1>1, <2>1
    <2>3. Cardinality(1 .. i) = i
      BY <2>1, FS_Interval
    <2> QED BY <2>2, <2>3
  <1>4. ASSUME NEW k \in F PROVE At(k) = k
    BY <1>3
  <1>5. InOrder(F) = [k \in F |-> At(k)]
    BY <1>2 DEF InOrder
  <1>6. Picked(s, F) = [k \in F |-> s[InOrder(F)[k]]]
    BY <1>2 DEF Picked
  <1> HIDE DEF At, F
  <1>7. \A k \in F : InOrder(F)[k] = k
    BY <1>4, <1>5
  <1>8. Picked(s, F) = [k \in F |-> s[k]]
    BY <1>6, <1>7
  <1> QED BY <1>1, <1>8
=============================================================================
