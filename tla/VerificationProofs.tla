------------------------- MODULE VerificationProofs -------------------------
(***************************************************************************)
(* Proofs about what is verified when it is read: Merkle trees and the     *)
(* paths in them, the complaints and the question bundles that rest on     *)
(* them, and the vaults of answers that HQ opens.  For cohorts and bundles *)
(* of every size and every number of answers and damaged fields.           *)
(***************************************************************************)
EXTENDS AnswerVault, Complaint, SealedPaper,
        WellFoundedInduction, SequenceTheorems, FiniteSetTheorems, TLAPS

-----------------------------------------------------------------------------
(* Numbers and sequences. *)

\* A set of naturals has a least element.
LEMMA NatHasLeast ==
  ASSUME NEW T \in SUBSET Nat, T # {}
  PROVE  \E m \in T : \A n \in T : m <= n
<1>1. PICK m \in T : \A n \in T : ~(<<n, m>> \in OpToRel(<, Nat))
  BY NatLessThanWellFounded, WFMin
<1>2. \A n \in T : ~(n < m)
  BY <1>1 DEF OpToRel
<1> QED
  BY <1>2

\* An interval from one tells its end.
LEMMA SameEnd == \A k, l \in Nat : 1..k = 1..l => k = l
<1> SUFFICES ASSUME NEW k \in Nat, NEW l \in Nat, 1..k = 1..l PROVE k = l
  OBVIOUS
<1>1. k # 0 => k \in 1..l
  OBVIOUS
<1>2. l # 0 => l \in 1..k
  OBVIOUS
<1> QED
  BY <1>1, <1>2

\* A function on 1..m is a sequence of that length.
LEMMA LenOfFunction ==
  ASSUME NEW m \in Nat, NEW f, DOMAIN f = 1..m, f = [i \in DOMAIN f |-> f[i]]
  PROVE  Len(f) = m
<1> DEFINE S == {f[i] : i \in 1..m}
<1>1. f \in [1..m -> S]
  OBVIOUS
<1> HIDE DEF S
<1>2. f \in Seq(S)
  BY <1>1, SeqDef
<1>3. Len(f) \in Nat /\ DOMAIN f = 1..Len(f)
  BY <1>2, LenProperties
<1> QED
  BY <1>3, SameEnd

\* What is left of a sequence without one of its elements.
LEMMA WithoutOne ==
  ASSUME NEW S, NEW s \in Seq(S), NEW i \in DOMAIN s
  PROVE  /\ RemoveAt(s, i) \in Seq(S)
         /\ Len(RemoveAt(s, i)) = Len(s) - 1
         /\ \A k \in DOMAIN RemoveAt(s, i) : RemoveAt(s, i)[k] = s[IF k < i THEN k ELSE k + 1]
<1>1. Len(s) \in Nat /\ i \in 1..Len(s)
  BY LenProperties
<1> DEFINE before == SubSeq(s, 1, i - 1)
           after == SubSeq(s, i + 1, Len(s))
<1>2. before \in Seq(S) /\ Len(before) = i - 1 /\ \A k \in 1..(i - 1) : before[k] = s[k]
  BY <1>1, SubSeqProperties
<1>3. after \in Seq(S) /\ Len(after) = Len(s) - i /\ \A k \in 1..(Len(s) - i) : after[k] = s[i + k]
  BY <1>1, SubSeqProperties
<1>4. RemoveAt(s, i) = before \o after
  BY DEF RemoveAt
<1> HIDE DEF before, after
<1>5. /\ before \o after \in Seq(S)
      /\ Len(before \o after) = Len(s) - 1
      /\ \A k \in 1..(Len(s) - 1) :
           (before \o after)[k] = IF k <= i - 1 THEN before[k] ELSE after[k - (i - 1)]
  BY <1>1, <1>2, <1>3, ConcatProperties
<1>6. DOMAIN (before \o after) = 1..(Len(s) - 1)
  BY <1>5, LenProperties
<1>7. ASSUME NEW k \in 1..(Len(s) - 1) PROVE (before \o after)[k] = s[IF k < i THEN k ELSE k + 1]
  <2>1. CASE k < i
    BY <1>1, <1>2, <1>5, <2>1
  <2>2. CASE ~(k < i)
    <3>1. /\ k - (i - 1) \in 1..(Len(s) - i) /\ i + (k - (i - 1)) = k + 1
          /\ ~(k <= i - 1)
      BY <1>1, <2>2
    <3>2. (before \o after)[k] = IF k <= i - 1 THEN before[k] ELSE after[k - (i - 1)]
      BY <1>5
    <3>3. (before \o after)[k] = after[k - (i - 1)]
      BY <3>1, <3>2, Zenon
    <3>4. after[k - (i - 1)] = s[i + (k - (i - 1))]
      BY <1>3, <3>1, Zenon
    <3> QED
      BY <2>2, <3>1, <3>3, <3>4, Zenon
  <2> QED
    BY <2>1, <2>2
<1> QED
  BY <1>4, <1>5, <1>6, <1>7

-----------------------------------------------------------------------------
(* Merkle trees. *)

\* Levels(leaves) is what its definition says: a level and, above each, the next.
LEMMA LevelsAre ==
  ASSUME NEW leaves, Len(leaves) \in Nat
  PROVE  /\ Levels(leaves)[0] = leaves
         /\ \A l \in 1..Len(leaves) : Levels(leaves)[l] = NextLevel(Levels(leaves)[l - 1])
<1> DEFINE R(f, m) == f = [l \in 0..m |-> IF l = 0 THEN leaves ELSE NextLevel(f[l - 1])]
           T == {m \in Nat : ~ \E f : R(f, m)}
<1>1. \E f : R(f, 0)
  <2>1. R([l \in 0..0 |-> leaves], 0)
    OBVIOUS
  <2> QED
    BY <2>1
<1>2. ASSUME NEW m \in Nat, NEW f, R(f, m) PROVE \E g : R(g, m + 1)
  <2> DEFINE g == [l \in 0..(m + 1) |-> IF l = m + 1 THEN NextLevel(f[m]) ELSE f[l]]
  <2>0. g = [l \in 0..(m + 1) |-> IF l = m + 1 THEN NextLevel(f[m]) ELSE f[l]]
    OBVIOUS
  <2>1. \A l \in 0..m : g[l] = f[l]
    BY <2>0
  <2>2. \A l \in 0..m : f[l] = IF l = 0 THEN leaves ELSE NextLevel(f[l - 1])
    BY <1>2
  <2>3. ASSUME NEW l \in 0..(m + 1) PROVE g[l] = IF l = 0 THEN leaves ELSE NextLevel(g[l - 1])
    <3>1. CASE l = m + 1
      <4>1. g[l] = NextLevel(f[m]) /\ l # 0 /\ l - 1 = m
        BY <2>0, <3>1
      <4>2. g[m] = f[m]
        BY <2>1
      <4> HIDE DEF g
      <4> QED
        BY <4>1, <4>2
    <3>2. CASE l # m + 1
      <4>1. l \in 0..m /\ (l # 0 => l - 1 \in 0..m)
        BY <3>2
      <4> HIDE DEF g
      <4> QED
        BY <2>1, <2>2, <4>1
    <3> QED
      BY <3>1, <3>2
  <2>4. R(g, m + 1)
    <3>1. g = [l \in 0..(m + 1) |-> g[l]]
      BY <2>0
    <3> HIDE DEF g
    <3> QED
      BY <2>3, <3>1
  <2> QED
    BY <2>4
<1> HIDE DEF R
<1>3. T = {}
  <2> SUFFICES ASSUME T # {} PROVE FALSE
    OBVIOUS
  <2>1. PICK m \in T : \A o \in T : m <= o
    BY NatHasLeast
  <2>2. m # 0
    BY <1>1
  <2>3. m - 1 \in Nat /\ m - 1 \notin T
    BY <2>1, <2>2
  <2>4. PICK f : R(f, m - 1)
    BY <2>3
  <2>5. \E g : R(g, (m - 1) + 1)
    BY <1>2, <2>3, <2>4
  <2>6. (m - 1) + 1 = m
    OBVIOUS
  <2> QED
    BY <2>5, <2>6
<1>4. \E f : R(f, Len(leaves))
  BY <1>3
<1>5. Levels(leaves) = CHOOSE f : R(f, Len(leaves))
  BY DEF Levels, R
<1>6. R(Levels(leaves), Len(leaves))
  BY <1>4, <1>5
<1> QED
  BY <1>6 DEF R

\* The position of a node is half that of the one below it.
LEMMA PositionsAre ==
  ASSUME NEW index, NEW height \in Nat
  PROVE  /\ Positions(index, height)[0] = index
         /\ \A k \in 1..height : Positions(index, height)[k] = Positions(index, height)[k - 1] \div 2
<1> DEFINE R(f, m) == f = [k \in 0..m |-> IF k = 0 THEN index ELSE f[k - 1] \div 2]
           T == {m \in Nat : ~ \E f : R(f, m)}
<1>1. \E f : R(f, 0)
  <2>1. R([k \in 0..0 |-> index], 0)
    OBVIOUS
  <2> QED
    BY <2>1
<1>2. ASSUME NEW m \in Nat, NEW f, R(f, m) PROVE \E g : R(g, m + 1)
  <2> DEFINE g == [k \in 0..(m + 1) |-> IF k = m + 1 THEN f[m] \div 2 ELSE f[k]]
  <2>1. \A k \in 0..m : g[k] = f[k]
    OBVIOUS
  <2>2. \A k \in 0..m : f[k] = IF k = 0 THEN index ELSE f[k - 1] \div 2
    BY <1>2
  <2>3. g = [k \in 0..(m + 1) |-> g[k]] /\ g[m + 1] = f[m] \div 2
    OBVIOUS
  <2>4. ASSUME NEW k \in 0..(m + 1) PROVE g[k] = IF k = 0 THEN index ELSE g[k - 1] \div 2
    <3> HIDE DEF g
    <3>1. CASE k = m + 1
      <4>1. k # 0 /\ k - 1 = m /\ g[m] = f[m]
        BY <2>1, <3>1
      <4> QED
        BY <2>3, <3>1, <4>1
    <3>2. CASE k # m + 1
      <4>1. k \in 0..m /\ (k # 0 => k - 1 \in 0..m)
        BY <3>2
      <4> QED
        BY <2>1, <2>2, <4>1
    <3> QED
      BY <3>1, <3>2
  <2> HIDE DEF g
  <2> QED
    BY <2>3, <2>4
<1> HIDE DEF R
<1>3. T = {}
  <2> SUFFICES ASSUME T # {} PROVE FALSE
    OBVIOUS
  <2>1. PICK m \in T : \A o \in T : m <= o
    BY NatHasLeast
  <2>2. m # 0
    BY <1>1
  <2>3. m - 1 \in Nat /\ m - 1 \notin T
    BY <2>1, <2>2
  <2>4. PICK f : R(f, m - 1)
    BY <2>3
  <2>5. \E g : R(g, (m - 1) + 1)
    BY <1>2, <2>3, <2>4
  <2>6. (m - 1) + 1 = m
    OBVIOUS
  <2> QED
    BY <2>5, <2>6
<1>4. PICK f : R(f, height)
  BY <1>3
<1>5. Positions(index, height) = CHOOSE g : R(g, height)
  BY DEF Positions, R
<1>6. R(Positions(index, height), height)
  BY <1>4, <1>5
<1> QED
  BY <1>6 DEF R

\* A power of two is twice the one before it.
LEMMA DoublingsAre ==
  ASSUME NEW n \in Nat
  PROVE  /\ Doublings(n)[0] = 1
         /\ \A k \in 1..n : Doublings(n)[k] = 2 * Doublings(n)[k - 1]
<1> DEFINE R(f, m) == f = [k \in 0..m |-> IF k = 0 THEN 1 ELSE 2 * f[k - 1]]
           T == {m \in Nat : ~ \E f : R(f, m)}
<1>1. \E f : R(f, 0)
  <2>1. R([k \in 0..0 |-> 1], 0)
    OBVIOUS
  <2> QED
    BY <2>1
<1>2. ASSUME NEW m \in Nat, NEW f, R(f, m) PROVE \E g : R(g, m + 1)
  <2> DEFINE g == [k \in 0..(m + 1) |-> IF k = m + 1 THEN 2 * f[m] ELSE f[k]]
  <2>1. \A k \in 0..m : g[k] = f[k]
    OBVIOUS
  <2>2. \A k \in 0..m : f[k] = IF k = 0 THEN 1 ELSE 2 * f[k - 1]
    BY <1>2
  <2>3. g = [k \in 0..(m + 1) |-> g[k]] /\ g[m + 1] = 2 * f[m]
    OBVIOUS
  <2>4. ASSUME NEW k \in 0..(m + 1) PROVE g[k] = IF k = 0 THEN 1 ELSE 2 * g[k - 1]
    <3> HIDE DEF g
    <3>1. CASE k = m + 1
      <4>1. k # 0 /\ k - 1 = m /\ g[m] = f[m]
        BY <2>1, <3>1
      <4> QED
        BY <2>3, <3>1, <4>1
    <3>2. CASE k # m + 1
      <4>1. k \in 0..m /\ (k # 0 => k - 1 \in 0..m)
        BY <3>2
      <4> QED
        BY <2>1, <2>2, <4>1
    <3> QED
      BY <3>1, <3>2
  <2> HIDE DEF g
  <2> QED
    BY <2>3, <2>4
<1> HIDE DEF R
<1>3. T = {}
  <2> SUFFICES ASSUME T # {} PROVE FALSE
    OBVIOUS
  <2>1. PICK m \in T : \A o \in T : m <= o
    BY NatHasLeast
  <2>2. m # 0
    BY <1>1
  <2>3. m - 1 \in Nat /\ m - 1 \notin T
    BY <2>1, <2>2
  <2>4. PICK f : R(f, m - 1)
    BY <2>3
  <2>5. \E g : R(g, (m - 1) + 1)
    BY <1>2, <2>3, <2>4
  <2>6. (m - 1) + 1 = m
    OBVIOUS
  <2> QED
    BY <2>5, <2>6
<1>4. PICK f : R(f, n)
  BY <1>3
<1>5. Doublings(n) = CHOOSE g : R(g, n)
  BY DEF Doublings, R
<1>6. R(Doublings(n), n)
  BY <1>4, <1>5
<1> QED
  BY <1>6 DEF R

\* The nodes of a walk past siblings on their sides.
Passes(node, hashes, sides) ==
    \A k \in 1..Len(hashes) :
        node[k] = IF sides[k] = "right" THEN hashPair(node[k - 1], hashes[k])
                  ELSE hashPair(hashes[k], node[k - 1])

\* A walk passes one sibling after the other.
LEMMA WalkIs ==
  ASSUME NEW leaf, NEW hashes, NEW sides, Len(hashes) \in Nat
  PROVE  \E node : /\ node[0] = leaf /\ Walk(leaf, hashes, sides) = node[Len(hashes)]
                    /\ Passes(node, hashes, sides)
<1> DEFINE R(f, m) == f = [k \in 0..m |-> IF k = 0 THEN leaf ELSE (IF sides[k] = "right" THEN hashPair(f[k - 1], hashes[k]) ELSE hashPair(hashes[k], f[k - 1]))]
           T == {m \in Nat : ~ \E f : R(f, m)}
<1>1. \E f : R(f, 0)
  <2>1. R([k \in 0..0 |-> leaf], 0)
    OBVIOUS
  <2> QED
    BY <2>1
<1>2. ASSUME NEW m \in Nat, NEW f, R(f, m) PROVE \E g : R(g, m + 1)
  <2> DEFINE g == [k \in 0..(m + 1) |-> IF k = m + 1 THEN (IF sides[(m + 1)] = "right" THEN hashPair(f[m], hashes[(m + 1)]) ELSE hashPair(hashes[(m + 1)], f[m])) ELSE f[k]]
  <2>1. \A k \in 0..m : g[k] = f[k]
    OBVIOUS
  <2>2. \A k \in 0..m : f[k] = IF k = 0 THEN leaf ELSE (IF sides[k] = "right" THEN hashPair(f[k - 1], hashes[k]) ELSE hashPair(hashes[k], f[k - 1]))
    BY <1>2
  <2>3. g = [k \in 0..(m + 1) |-> g[k]] /\ g[m + 1] = (IF sides[(m + 1)] = "right" THEN hashPair(f[m], hashes[(m + 1)]) ELSE hashPair(hashes[(m + 1)], f[m]))
    OBVIOUS
  <2>4. ASSUME NEW k \in 0..(m + 1) PROVE g[k] = IF k = 0 THEN leaf ELSE (IF sides[k] = "right" THEN hashPair(g[k - 1], hashes[k]) ELSE hashPair(hashes[k], g[k - 1]))
    <3> HIDE DEF g
    <3>1. CASE k = m + 1
      <4>1. k # 0 /\ k - 1 = m /\ g[m] = f[m]
        BY <2>1, <3>1
      <4> QED
        BY <2>3, <3>1, <4>1
    <3>2. CASE k # m + 1
      <4>1. k \in 0..m /\ (k # 0 => k - 1 \in 0..m)
        BY <3>2
      <4> QED
        BY <2>1, <2>2, <4>1
    <3> QED
      BY <3>1, <3>2
  <2> HIDE DEF g
  <2> QED
    BY <2>3, <2>4
<1> HIDE DEF R
<1>3. T = {}
  <2> SUFFICES ASSUME T # {} PROVE FALSE
    OBVIOUS
  <2>1. PICK m \in T : \A o \in T : m <= o
    BY NatHasLeast
  <2>2. m # 0
    BY <1>1
  <2>3. m - 1 \in Nat /\ m - 1 \notin T
    BY <2>1, <2>2
  <2>4. PICK f : R(f, m - 1)
    BY <2>3
  <2>5. \E g : R(g, (m - 1) + 1)
    BY <1>2, <2>3, <2>4
  <2>6. (m - 1) + 1 = m
    OBVIOUS
  <2> QED
    BY <2>5, <2>6
<1>4. PICK f : R(f, Len(hashes))
  BY <1>3
<1>5. Walk(leaf, hashes, sides) = (CHOOSE g : R(g, Len(hashes)))[Len(hashes)]
  BY DEF Walk, R
<1>6. PICK node : R(node, Len(hashes)) /\ Walk(leaf, hashes, sides) = node[Len(hashes)]
  BY <1>4, <1>5
<1>7. Passes(node, hashes, sides) /\ node[0] = leaf
  <2>1. PICK n \in Nat : n = Len(hashes)
    OBVIOUS
  <2>2. R(node, n)
    BY <1>6, <2>1
  <2>3. /\ node[0] = leaf
        /\ \A k \in 1..n : node[k] = IF sides[k] = "right" THEN hashPair(node[k - 1], hashes[k])
                                     ELSE hashPair(hashes[k], node[k - 1])
    <3> HIDE <2>1
    <3>1. \A k \in 0..n : node[k] = IF k = 0 THEN leaf
             ELSE IF sides[k] = "right" THEN hashPair(node[k - 1], hashes[k])
                  ELSE hashPair(hashes[k], node[k - 1])
      BY <2>2 DEF R
    <3> QED
      BY <3>1
  <2> QED
    BY <2>1, <2>3 DEF Passes
<1> QED
  BY <1>6, <1>7

\* A level has half as many nodes as the one below it, rounded up, and they are pairs.
LEMMA NextLen ==
  ASSUME NEW level, Len(level) \in Nat
  PROVE  /\ Len(NextLevel(level)) = (Len(level) + 1) \div 2
         /\ \A i \in 1..((Len(level) + 1) \div 2) : NextLevel(level)[i] =
              hashPair(level[2 * i - 1], level[IF 2 * i <= Len(level) THEN 2 * i ELSE 2 * i - 1])
<1>1. PICK m \in Nat : m = (Len(level) + 1) \div 2
  OBVIOUS
<1>2. NextLevel(level) = [i \in 1..m |->
        hashPair(level[2 * i - 1], level[IF 2 * i <= Len(level) THEN 2 * i ELSE 2 * i - 1])]
  BY <1>1 DEF NextLevel
<1>3. PICK f : f = NextLevel(level)
  OBVIOUS
<1>4. DOMAIN f = 1..m /\ f = [i \in DOMAIN f |-> f[i]]
  BY <1>2, <1>3
<1>5. Len(f) = m
  BY <1>4, LenOfFunction
<1> QED
  BY <1>1, <1>2, <1>3, <1>5

\* Half of at least one, rounded up, is at least one.
LEMMA HalfLeft == \A m \in Nat : m >= 1 => (m + 1) \div 2 \in Nat /\ (m + 1) \div 2 >= 1
<1> SUFFICES ASSUME NEW m \in Nat, m >= 1 PROVE (m + 1) \div 2 \in Nat /\ (m + 1) \div 2 >= 1
  OBVIOUS
<1> QED
  OBVIOUS

\* No level is empty, and each is half as long as the one below it.
LEMMA LevelSizes ==
  ASSUME NEW leaves, Len(leaves) \in Nat \ {0}
  PROVE  /\ \A l \in 0..Len(leaves) : Len(Levels(leaves)[l]) \in Nat \ {0}
         /\ \A l \in 1..Len(leaves) :
              Len(Levels(leaves)[l]) = (Len(Levels(leaves)[l - 1]) + 1) \div 2
<1> DEFINE P(l) == Len(Levels(leaves)[l]) \in Nat \ {0}
           T == {l \in 0..Len(leaves) : ~P(l)}
<1>1. P(0)
  BY LevelsAre
<1>2. ASSUME NEW l \in 1..Len(leaves), P(l - 1)
      PROVE  P(l) /\ Len(Levels(leaves)[l]) = (Len(Levels(leaves)[l - 1]) + 1) \div 2
  <2>1. Levels(leaves)[l] = NextLevel(Levels(leaves)[l - 1])
    BY LevelsAre
  <2>2. Len(Levels(leaves)[l]) = (Len(Levels(leaves)[l - 1]) + 1) \div 2
    BY <1>2, <2>1, NextLen
  <2>3. PICK m \in Nat \ {0} : m = Len(Levels(leaves)[l - 1])
    BY <1>2
  <2>4. m \in Nat /\ m >= 1
    OBVIOUS
  <2>5. (m + 1) \div 2 \in Nat /\ (m + 1) \div 2 >= 1
    BY <2>4, HalfLeft
  <2>6. PICK j \in Nat : j = (m + 1) \div 2 /\ j >= 1
    BY <2>5
  <2>7. Len(Levels(leaves)[l]) = (m + 1) \div 2
    BY <2>2, <2>3
  <2>8. j \in Nat \ {0}
    BY <2>6
  <2>9. Len(Levels(leaves)[l]) = j
    BY <2>6, <2>7
  <2>10. P(l)
    BY <2>8, <2>9
  <2> HIDE DEF P
  <2> QED
    BY <2>2, <2>10
<1> HIDE DEF P
<1>3. T = {}
  <2> SUFFICES ASSUME T # {} PROVE FALSE
    OBVIOUS
  <2>1. T \in SUBSET Nat
    OBVIOUS
  <2>2. PICK m \in T : \A o \in T : m <= o
    BY <2>1, NatHasLeast
  <2>3. m \in 1..Len(leaves) /\ ~P(m) /\ m - 1 \in 0..Len(leaves) /\ ~(m <= m - 1)
    BY <1>1, <2>2
  <2>4. P(m - 1)
    BY <2>2, <2>3
  <2> QED
    BY <1>2, <2>3, <2>4
<1>4. \A l \in 0..Len(leaves) : P(l)
  BY <1>3
<1>5. \A l \in 1..Len(leaves) : l - 1 \in 0..Len(leaves)
  OBVIOUS
<1> QED
  BY <1>2, <1>4, <1>5 DEF P

\* Some level has a single node, and the first that has is the top.
LEMMA HeightIs ==
  ASSUME NEW leaves, Len(leaves) \in Nat \ {0}
  PROVE  /\ Height(leaves) \in 0..Len(leaves)
         /\ Len(Levels(leaves)[Height(leaves)]) = 1
<1> DEFINE n == Len(leaves)
           size(l) == Len(Levels(leaves)[l])
           Q(l) == size(l) <= n - l
           T == {l \in 0..n : ~Q(l)}
           S == {h \in 0..n : size(h) = 1}
<1>1. n \in Nat \ {0} /\ size(0) = n
  BY LevelsAre
<1>2. /\ \A l \in 0..n : size(l) \in Nat \ {0}
      /\ \A l \in 1..n : size(l) = (size(l - 1) + 1) \div 2
  BY LevelSizes
<1> HIDE DEF n, size
<1>3. ASSUME S = {} PROVE FALSE
  <2>1. \A l \in 0..n : size(l) \in Nat /\ size(l) >= 2
    BY <1>2, <1>3
  <2>2. ASSUME NEW l \in 1..n, Q(l - 1) PROVE Q(l)
    <3>1. l - 1 \in 0..n
      BY <1>1
    <3>2. PICK m \in Nat : m = size(l - 1)
      BY <2>1, <3>1
    <3>3. m >= 2 /\ m <= n - (l - 1)
      BY <2>1, <2>2, <3>1, <3>2
    <3>4. (m + 1) \div 2 <= m - 1
      BY <3>3
    <3>5. size(l) = (m + 1) \div 2
      BY <1>2, <3>2
    <3>6. m - 1 <= n - l /\ (m + 1) \div 2 \in Nat
      BY <1>1, <3>3
    <3> QED
      BY <1>1, <3>4, <3>5, <3>6
  <2>3. T = {}
    <3> SUFFICES ASSUME T # {} PROVE FALSE
      OBVIOUS
    <3>1. T \in SUBSET Nat
      BY <1>1
    <3>2. PICK m \in T : \A o \in T : m <= o
      BY <3>1, NatHasLeast
    <3>3. Q(0)
      BY <1>1
    <3> HIDE DEF Q
    <3>4. m \in 1..n /\ ~Q(m) /\ m - 1 \in 0..n /\ ~(m <= m - 1)
      BY <1>1, <3>2, <3>3
    <3>5. Q(m - 1)
      BY <3>2, <3>4
    <3> QED
      BY <2>2, <3>4, <3>5
  <2>4. n \in 0..n /\ n \notin T
    BY <1>1, <2>3
  <2>5. size(n) <= n - n
    BY <2>4
  <2> QED
    BY <1>1, <2>1, <2>4, <2>5
<1>4. PICK h \in S : \A o \in S : h <= o
  <2>1. S \in SUBSET Nat
    BY <1>1
  <2> QED
    BY <1>3, <2>1, NatHasLeast
<1>5. \A k \in 0..(h - 1) : size(k) > 1
  <2> SUFFICES ASSUME NEW k \in 0..(h - 1) PROVE size(k) > 1
    OBVIOUS
  <2>1. k \in 0..n /\ ~(h <= k)
    BY <1>1, <1>4
  <2>2. size(k) # 1
    BY <1>4, <2>1
  <2> QED
    BY <1>2, <2>1, <2>2
<1>6. Height(leaves) = CHOOSE g \in 0..n : size(g) = 1 /\ \A k \in 0..(g - 1) : size(k) > 1
  BY DEF Height, n, size
<1>7. Height(leaves) \in 0..n /\ size(Height(leaves)) = 1
  BY <1>4, <1>5, <1>6
<1> QED
  BY <1>7 DEF n, size

\* The way up from a leaf stays within the levels.
LEMMA PositionsFit ==
  ASSUME NEW leaves, Len(leaves) \in Nat \ {0}, NEW index \in 0..(Len(leaves) - 1)
  PROVE  \A k \in 0..Height(leaves) :
           /\ Positions(index, Height(leaves))[k] \in Nat
           /\ Positions(index, Height(leaves))[k] < Len(Levels(leaves)[k])
<1> DEFINE n == Len(leaves)
           h == Height(leaves)
           size(l) == Len(Levels(leaves)[l])
           pos(k) == Positions(index, h)[k]
           P(k) == pos(k) \in Nat /\ pos(k) < size(k)
           T == {k \in 0..h : ~P(k)}
<1>1. n \in Nat \ {0} /\ h \in 0..n /\ h \in Nat
  BY HeightIs
<1>2. /\ \A l \in 0..n : size(l) \in Nat \ {0}
      /\ \A l \in 1..n : size(l) = (size(l - 1) + 1) \div 2
      /\ size(0) = n
  BY LevelSizes, LevelsAre
<1>3. pos(0) = index /\ \A k \in 1..h : pos(k) = pos(k - 1) \div 2
  BY <1>1, PositionsAre
<1>4. index \in Nat /\ index < n
  BY <1>1
<1> HIDE DEF n, h, size, pos
<1>5. P(0)
  BY <1>2, <1>3, <1>4
<1>6. ASSUME NEW k \in 1..h, P(k - 1) PROVE P(k)
  <2>1. k \in 1..n /\ k - 1 \in 0..n
    BY <1>1
  <2>2. PICK p \in Nat : p = pos(k - 1)
    BY <1>6
  <2>3. PICK m \in Nat : m = size(k - 1)
    BY <1>2, <2>1
  <2>4. p < m
    BY <1>6, <2>2, <2>3
  <2>5. p \div 2 \in Nat /\ p \div 2 < (m + 1) \div 2
    BY <2>4
  <2>6. pos(k) = p \div 2 /\ size(k) = (m + 1) \div 2
    BY <1>2, <1>3, <2>1, <2>2, <2>3
  <2> QED
    BY <2>5, <2>6
<1> HIDE DEF P
<1>7. T = {}
  <2> SUFFICES ASSUME T # {} PROVE FALSE
    OBVIOUS
  <2>1. T \in SUBSET Nat
    BY <1>1
  <2>2. PICK m \in T : \A o \in T : m <= o
    BY <2>1, NatHasLeast
  <2>3. m \in 1..h /\ ~P(m) /\ m - 1 \in 0..h /\ ~(m <= m - 1)
    BY <1>1, <1>5, <2>2
  <2>4. P(m - 1)
    BY <2>2, <2>3
  <2> QED
    BY <1>6, <2>3, <2>4
<1> QED
  BY <1>7 DEF P, pos, size, h

\* From every leaf the path to the top leads to the root.
LEMMA PathLeadsToRoot ==
  ASSUME NEW leaves, Len(leaves) \in Nat \ {0}, NEW index \in 0..(Len(leaves) - 1)
  PROVE  /\ Len(siblings(leaves, index)) = Height(leaves)
         /\ Walk(leaves[index + 1], siblings(leaves, index), Sides(index, Height(leaves)))
              = RootOf(leaves)
<1> DEFINE n == Len(leaves)
           h == Height(leaves)
           lv == Levels(leaves)
           size(l) == Len(lv[l])
           pos == Positions(index, h)
           hashes == siblings(leaves, index)
           sides == Sides(index, h)
<1>1. n \in Nat \ {0} /\ h \in 0..n /\ h \in Nat /\ size(h) = 1
  BY HeightIs
<1>2. /\ \A l \in 0..n : size(l) \in Nat \ {0}
      /\ \A l \in 1..n : lv[l] = NextLevel(lv[l - 1])
      /\ lv[0] = leaves
  BY LevelSizes, LevelsAre
<1>3. \A k \in 0..h : pos[k] \in Nat /\ pos[k] < size(k)
  BY PositionsFit
<1>4. pos[0] = index /\ \A k \in 1..h : pos[k] = pos[k - 1] \div 2
  BY <1>1, PositionsAre
<1>5. hashes = [k \in 1..h |-> Sibling(lv[k - 1], pos[k - 1])]
  BY DEF siblings
<1>6. sides = [k \in 1..h |-> IF pos[k - 1] % 2 = 0 THEN "right" ELSE "left"]
  BY DEF Sides
<1>7. RootOf(leaves) = lv[h][1]
  BY DEF RootOf
<1> HIDE DEF n, h, lv, size, pos, hashes, sides
<1>8. Len(hashes) = h
  <2>1. DOMAIN hashes = 1..h /\ hashes = [k \in DOMAIN hashes |-> hashes[k]]
    BY <1>5
  <2> QED
    BY <1>1, <2>1, LenOfFunction
<1>9. PICK node : /\ node[0] = leaves[index + 1] /\ Walk(leaves[index + 1], hashes, sides) = node[h]
                  /\ \A k \in 1..h :
                       node[k] = IF sides[k] = "right" THEN hashPair(node[k - 1], hashes[k])
                                 ELSE hashPair(hashes[k], node[k - 1])
  <2>1. Len(hashes) \in Nat
    BY <1>1, <1>8
  <2>2. PICK node : /\ node[0] = leaves[index + 1]
                    /\ Walk(leaves[index + 1], hashes, sides) = node[Len(hashes)]
                    /\ Passes(node, hashes, sides)
    BY <2>1, WalkIs
  <2> QED
    BY <1>8, <2>2 DEF Passes
<1> DEFINE P(k) == node[k] = lv[k][pos[k] + 1]
           T == {k \in 0..h : ~P(k)}
<1>10. P(0)
  BY <1>2, <1>4, <1>9
<1>11. ASSUME NEW k \in 1..h, P(k - 1) PROVE P(k)
  <2>1. k \in 1..n /\ k - 1 \in 0..n /\ k - 1 \in 0..h
    BY <1>1
  <2>2. PICK p \in Nat : p = pos[k - 1]
    BY <1>3, <2>1
  <2>3. PICK m \in Nat : m = Len(lv[k - 1])
    BY <1>2, <2>1 DEF size
  <2>4. p < m
    BY <1>3, <2>1, <2>2, <2>3 DEF size
  <2>5. PICK q \in Nat : q = p \div 2
    OBVIOUS
  <2>6. q + 1 \in 1..((m + 1) \div 2)
    <3>1. p \div 2 + 1 <= (m + 1) \div 2
      BY <2>4
    <3> QED
      BY <2>5, <3>1
  <2>7. lv[k][q + 1] = hashPair(lv[k - 1][2 * (q + 1) - 1],
                                lv[k - 1][IF 2 * (q + 1) <= m THEN 2 * (q + 1) ELSE 2 * (q + 1) - 1])
    <3>1. \A i \in 1..((m + 1) \div 2) : NextLevel(lv[k - 1])[i] =
              hashPair(lv[k - 1][2 * i - 1], lv[k - 1][IF 2 * i <= m THEN 2 * i ELSE 2 * i - 1])
      BY <2>3, NextLen
    <3> QED
      BY <1>2, <2>1, <2>6, <3>1
  <2>8. pos[k] = q
    BY <1>4, <2>2, <2>5
  <2>9. hashes[k] = Sibling(lv[k - 1], p) /\ sides[k] = IF p % 2 = 0 THEN "right" ELSE "left"
    BY <1>5, <1>6, <2>2
  <2>10. node[k - 1] = lv[k - 1][p + 1]
    BY <1>11, <2>2
  <2>11. CASE p % 2 = 0
    <3>1. p = 2 * q
      BY <2>5, <2>11
    <3>2. Sibling(lv[k - 1], p) = lv[k - 1][(IF p + 1 < m THEN p + 1 ELSE p) + 1]
      BY <2>3, <2>11 DEF Sibling
    <3>3. 2 * (q + 1) - 1 = p + 1 /\ 2 * (q + 1) = p + 2 /\ (p + 1) + 1 = p + 2
      BY <3>1
    <3>4. p + 1 < m <=> p + 2 <= m
      OBVIOUS
    <3>5. lv[k][q + 1] = hashPair(lv[k - 1][p + 1], Sibling(lv[k - 1], p))
      <4>1. CASE p + 2 <= m
        BY <2>7, <3>2, <3>3, <3>4, <4>1
      <4>2. CASE ~(p + 2 <= m)
        BY <2>7, <3>2, <3>3, <3>4, <4>2
      <4> QED
        BY <4>1, <4>2
    <3>6. node[k] = hashPair(node[k - 1], hashes[k])
      BY <1>9, <2>9, <2>11
    <3> QED
      BY <2>8, <2>9, <2>10, <3>5, <3>6
  <2>12. CASE p % 2 # 0
    <3>1. p = 2 * q + 1
      BY <2>5, <2>12
    <3>2. Sibling(lv[k - 1], p) = lv[k - 1][(p - 1) + 1]
      <4>1. p - 1 < m
        BY <2>4
      <4> QED
        BY <2>3, <2>12, <4>1 DEF Sibling
    <3>3. 2 * (q + 1) - 1 = (p - 1) + 1 /\ 2 * (q + 1) = p + 1 /\ p + 1 <= m
      BY <2>4, <3>1
    <3>4. lv[k][q + 1] = hashPair(Sibling(lv[k - 1], p), lv[k - 1][p + 1])
      BY <2>7, <3>2, <3>3
    <3>5. node[k] = hashPair(hashes[k], node[k - 1])
      BY <1>9, <2>9, <2>12
    <3> QED
      BY <2>8, <2>9, <2>10, <3>4, <3>5
  <2> QED
    BY <2>11, <2>12
<1> HIDE DEF P
<1>12. T = {}
  <2> SUFFICES ASSUME T # {} PROVE FALSE
    OBVIOUS
  <2>1. T \in SUBSET Nat
    BY <1>1
  <2>2. PICK m \in T : \A o \in T : m <= o
    BY <2>1, NatHasLeast
  <2>3. m \in 1..h /\ ~P(m) /\ m - 1 \in 0..h /\ ~(m <= m - 1)
    BY <1>1, <1>10, <2>2
  <2>4. P(m - 1)
    BY <2>2, <2>3
  <2> QED
    BY <1>11, <2>3, <2>4
<1>13. P(h)
  BY <1>1, <1>12
<1>14. pos[h] = 0
  BY <1>1, <1>3
<1>15. node[h] = lv[h][1]
  BY <1>13, <1>14 DEF P
<1> QED
  BY <1>7, <1>8, <1>9, <1>15 DEF h, hashes, sides

\* An ideal hash: a pair tells what it was made of.
LEMMA PairTells ==
  ASSUME NEW a, NEW b, NEW c, NEW d, hashPair(a, b) = hashPair(c, d)
  PROVE  a = c /\ b = d
BY DEF hashPair

\* Walks past the same siblings that end in the same root set out from the same leaf.
LEMMA WalkTellsLeaves ==
  ASSUME NEW l, NEW r, NEW hashes, NEW sides, Len(hashes) \in Nat,
         Walk(l, hashes, sides) = Walk(r, hashes, sides)
  PROVE  l = r
<1>1. PICK x : /\ x[0] = l /\ Walk(l, hashes, sides) = x[Len(hashes)] /\ Passes(x, hashes, sides)
  BY WalkIs
<1>2. PICK y : /\ y[0] = r /\ Walk(r, hashes, sides) = y[Len(hashes)] /\ Passes(y, hashes, sides)
  BY WalkIs
<1> PICK n \in Nat : n = Len(hashes)
  OBVIOUS
<1> DEFINE T == {k \in 0..n : x[k] = y[k]}
<1>3. n \in T /\ T \in SUBSET Nat
  <2>1. x[n] = y[n]
    BY <1>1, <1>2
  <2> QED
    BY <2>1
<1>4. PICK m \in T : \A o \in T : m <= o
  BY <1>3, NatHasLeast
<1>5. ASSUME m # 0 PROVE FALSE
  <2>1. m \in 1..n /\ m - 1 \in 0..n /\ ~(m <= m - 1)
    BY <1>3, <1>4, <1>5
  <2>2. x[m] = y[m]
    BY <1>4
  <2>3. x[m - 1] = y[m - 1]
    <3>1. CASE sides[m] = "right"
      <4>1. x[m] = hashPair(x[m - 1], hashes[m]) /\ y[m] = hashPair(y[m - 1], hashes[m])
        BY <1>1, <1>2, <2>1, <3>1 DEF Passes
      <4> QED
        BY <2>2, <4>1, PairTells
    <3>2. CASE sides[m] # "right"
      <4>1. x[m] = hashPair(hashes[m], x[m - 1]) /\ y[m] = hashPair(hashes[m], y[m - 1])
        BY <1>1, <1>2, <2>1, <3>2 DEF Passes
      <4> QED
        BY <2>2, <4>1, PairTells
    <3> QED
      BY <3>1, <3>2
  <2> QED
    BY <1>4, <2>1, <2>3
<1>6. x[0] = y[0]
  BY <1>4, <1>5
<1> QED
  BY <1>1, <1>2, <1>6

\* What a walk ends in is the leaf itself or a pair.
LEMMA WalkEnds ==
  ASSUME NEW leaf, NEW hashes, NEW sides, Len(hashes) \in Nat
  PROVE  \/ Walk(leaf, hashes, sides) = leaf
         \/ \E a, b : Walk(leaf, hashes, sides) = hashPair(a, b)
<1>1. PICK node : /\ node[0] = leaf /\ Walk(leaf, hashes, sides) = node[Len(hashes)]
                  /\ Passes(node, hashes, sides)
  BY WalkIs
<1>2. PICK n \in Nat : n = Len(hashes)
  OBVIOUS
<1>3. CASE n = 0
  BY <1>1, <1>2, <1>3
<1>4. CASE n # 0
  <2>1. n \in 1..n
    BY <1>4
  <2>2. node[n] = IF sides[n] = "right" THEN hashPair(node[n - 1], hashes[n])
                  ELSE hashPair(hashes[n], node[n - 1])
    BY <1>1, <1>2, <2>1 DEF Passes
  <2> QED
    BY <1>1, <1>2, <2>2
<1> QED
  BY <1>3, <1>4

-----------------------------------------------------------------------------
(* Complaints about receipts. *)

\* The receipt as issued: its proof leads from its answers to its root.
LEMMA IssuedVerifies ==
  ASSUME NEW r \in Issued
  PROVE  /\ r.is = "receipt" /\ r.answers = Answers /\ Len(r.proof) \in Nat
         /\ r = [is |-> "receipt", answers |-> Answers, index |-> r.index, proof |-> r.proof, root |-> r.root]
         /\ verifyMerkleProof(LeafOf(r.answers), r.proof, r.index) = r.root
         /\ r.root # Zero
<1>1. PICK n \in 1..MaxCohort : r \in {IssuedReceipt(n, i) : i \in 0..(n - 1)}
  BY Zenon DEF Issued
<1>2. PICK index \in 0..(n - 1) : r = IssuedReceipt(n, index)
  BY <1>1
<1>3. PICK leaves : leaves = [i \in 1..n |-> CohortLeaf(i - 1, index)]
  OBVIOUS
<1>4. n \in Nat \ {0}
  BY ComplaintAssumption
<1>5. Len(leaves) = n
  <2>1. n \in Nat /\ DOMAIN leaves = 1..n /\ leaves = [i \in DOMAIN leaves |-> leaves[i]]
    BY <1>3, <1>4
  <2> QED
    BY <2>1, LenOfFunction
<1>6. leaves[index + 1] = LeafOf(Answers)
  <2>1. index + 1 \in 1..n /\ (index + 1) - 1 = index
    BY <1>4
  <2> QED
    BY <1>3, <2>1 DEF CohortLeaf
<1>7. r = [is |-> "receipt", answers |-> Answers, index |-> index,
           proof |-> siblings(leaves, index), root |-> RootOf(leaves)]
  BY <1>2, <1>3 DEF IssuedReceipt
<1>8. /\ r.is = "receipt" /\ r.answers = Answers /\ r.index = index
      /\ r.proof = siblings(leaves, index) /\ r.root = RootOf(leaves)
  BY <1>7
<1>9. /\ Len(siblings(leaves, index)) = Height(leaves) /\ Height(leaves) \in Nat
      /\ Walk(leaves[index + 1], siblings(leaves, index), Sides(index, Height(leaves))) = RootOf(leaves)
  <2>1. Height(leaves) \in 0..Len(leaves)
    BY <1>4, <1>5, HeightIs
  <2> QED
    BY <1>4, <1>5, <2>1, PathLeadsToRoot
<1>10. verifyMerkleProof(LeafOf(r.answers), r.proof, r.index) = r.root
  BY <1>6, <1>8, <1>9 DEF verifyMerkleProof
<1>11. r.root # Zero
  <2>1. \/ RootOf(leaves) = LeafOf(Answers)
        \/ \E a, b : RootOf(leaves) = hashPair(a, b)
    BY <1>6, <1>9, WalkEnds
  <2>2. \A x : LeafOf(x)[1] = "leaf"
    BY DEF LeafOf
  <2>3. \A a, b : hashPair(a, b)[1] = "pair"
    BY DEF hashPair
  <2>4. Zero[1] = "zero"
    BY DEF Zero
  <2>5. RootOf(leaves)[1] # Zero[1]
    BY <2>1, <2>2, <2>3, <2>4
  <2> QED
    BY <1>8, <2>5
<1> QED
  BY <1>7, <1>8, <1>9, <1>10, <1>11

\* What is judged by its answers leads from them to its own root: over the place, proof and
\* root of an issued receipt that are the answers of this receipt, for an ideal hash has no
\* other leaf at the end of the same path.  An issued receipt is judged by its answers.
LEMMA VerdictOnText ==
  ASSUME NEW t, NEW c
  PROVE  /\ VerdictOn(t, c) \in Verdicts
         /\ VerdictOn(t, c) \in {"COMPLAINT_DISMISSED", "TAMPERING_DETECTED"} =>
              /\ \A r \in Issued : Copies(t, r) => t.answers = r.answers
              /\ VerdictOn(t, c) = "COMPLAINT_DISMISSED" <=> c = t.answers.q2
         /\ VerdictOn(t, c) \in {"PROOF_INVALID", "NO_ONCHAIN_ROOT"} => t \notin Issued
<1>1. CASE t.root = Zero
  <2>1. VerdictOn(t, c) = "NO_ONCHAIN_ROOT"
    BY <1>1 DEF VerdictOn
  <2>2. t \notin Issued
    BY <1>1, IssuedVerifies
  <2> QED
    BY <2>1, <2>2 DEF Verdicts
<1>2. CASE t.root # Zero /\ verifyMerkleProof(LeafOf(t.answers), t.proof, t.index) # t.root
  <2>1. VerdictOn(t, c) = "PROOF_INVALID"
    BY <1>2 DEF VerdictOn
  <2>2. t \notin Issued
    BY <1>2, IssuedVerifies
  <2> QED
    BY <2>1, <2>2 DEF Verdicts
<1>3. CASE t.root # Zero /\ verifyMerkleProof(LeafOf(t.answers), t.proof, t.index) = t.root
  <2>1. VerdictOn(t, c) = IF t.answers.q2 = c THEN "COMPLAINT_DISMISSED" ELSE "TAMPERING_DETECTED"
    BY <1>3 DEF VerdictOn
  <2>2. ASSUME NEW r \in Issued, Copies(t, r) PROVE t.answers = r.answers
    <3>1. /\ verifyMerkleProof(LeafOf(r.answers), r.proof, r.index) = r.root
          /\ Len(r.proof) \in Nat
      BY IssuedVerifies
    <3>2. verifyMerkleProof(LeafOf(t.answers), r.proof, r.index) = r.root
      BY <1>3, <2>2 DEF Copies
    <3>3. LeafOf(t.answers) = LeafOf(r.answers)
      BY <3>1, <3>2, WalkTellsLeaves DEF verifyMerkleProof
    <3> QED
      BY <3>3 DEF LeafOf
  <2> QED
    BY <2>1, <2>2 DEF Verdicts
<1> QED
  BY <1>1, <1>2, <1>3

\* At first nothing is filed and no verdict shown.
LEMMA ComplaintInvInit == ComplaintInit => ComplaintInv
<1> SUFFICES ASSUME ComplaintInit PROVE ComplaintInv
  OBVIOUS
<1>1. Garbled \in Texts
  BY DEF Texts
<1> QED
  BY <1>1, ComplaintAssumption
  DEF ComplaintInit, ComplaintInv, ComplaintTypeOK, VerdictFits, NoFiling, NoVerdictYet

\* A verdict that is shown, of what was filed.
LEMMA ShowVerdictStep ==
  ASSUME ComplaintInv, filing.is = "file", NEW v,
         v = IF filing.of = Partial THEN "PROOF_INVALID" ELSE VerdictOn(filing.of, filing.claim),
         ShowVerdict(v)
  PROVE  ComplaintInv'
<1>1. /\ verdict' = [is |-> v, of |-> filing.of, claim |-> filing.claim]
      /\ filing' = NoFiling /\ UNCHANGED <<text, receipt, claim>>
  BY DEF ShowVerdict
<1>2. filing.of \in Texts /\ filing.claim \in Claims /\ filing.of # Garbled
  BY DEF ComplaintInv, ComplaintTypeOK, NoFiling
<1>3. /\ v \in Verdicts
      /\ v \in {"COMPLAINT_DISMISSED", "TAMPERING_DETECTED"} =>
           /\ \A r \in Issued : Copies(filing.of, r) => filing.of.answers = r.answers
           /\ v = "COMPLAINT_DISMISSED" <=> filing.claim = filing.of.answers.q2
      /\ v \in {"PROOF_INVALID", "NO_ONCHAIN_ROOT"} => filing.of \notin Issued
  <2>1. CASE filing.of = Partial
    <3>1. Partial.is = "partial"
      BY DEF Partial
    <3>2. Partial \notin Issued
      BY <3>1, IssuedVerifies
    <3> QED
      BY <2>1, <3>2 DEF Verdicts
  <2>2. CASE filing.of # Partial
    <3>1. v = VerdictOn(filing.of, filing.claim)
      BY <2>2
    <3> QED
      BY <3>1, VerdictOnText
  <2> QED
    BY <2>1, <2>2
<1>4. verdict'.is = v /\ verdict'.of = filing.of /\ verdict'.claim = filing.claim
  BY <1>1
<1>5. verdict' \in [is : Verdicts, of : Texts, claim : Claims]
  BY <1>1, <1>2, <1>3
<1>6. VerdictFits'
  BY <1>3, <1>4 DEF VerdictFits
<1>7. filing' = NoFiling /\ filing'.is # "file"
  BY <1>1 DEF NoFiling
<1>8. ComplaintTypeOK'
  BY <1>1, <1>5 DEF ComplaintInv, ComplaintTypeOK
<1> QED
  BY <1>6, <1>7, <1>8 DEF ComplaintInv

\* What is filed is a text that parses, and every verdict shown fits.
LEMMA ComplaintInvStep == ComplaintInv /\ [ComplaintNext]_complaintVars => ComplaintInv'
<1> SUFFICES ASSUME ComplaintInv, [ComplaintNext]_complaintVars PROVE ComplaintInv'
  OBVIOUS
<1>1. /\ text \in Texts /\ receipt \in Issued \cup {Garbled} /\ claim \in Claims
      /\ filing \in {NoFiling, [is |-> "issue"]} \cup [is : {"file"}, of : Texts, claim : Claims]
      /\ verdict \in {NoVerdictYet, [is |-> "error"]} \cup [is : Verdicts, of : Texts, claim : Claims]
      /\ filing.is = "file" => filing.of # Garbled
      /\ VerdictFits
  BY DEF ComplaintInv, ComplaintTypeOK
<1>2. /\ Garbled \in Texts /\ Partial \in Texts /\ Issued \subseteq Texts
      /\ \A r \in Issued : ForgedReceipt(r) \in Texts /\ Unanchored(r) \in Texts
  BY DEF Texts
<1>3. CASE UNCHANGED verdict /\ UNCHANGED filing /\ text' \in Texts
           /\ UNCHANGED receipt /\ claim' \in Claims
  BY <1>1, <1>3 DEF ComplaintInv, ComplaintTypeOK, VerdictFits
<1>4. CASE GenerateDemoReceipt
  <2>1. filing' = [is |-> "issue"] /\ UNCHANGED <<text, receipt, claim, verdict>>
    BY <1>4 DEF GenerateDemoReceipt
  <2> QED
    BY <1>1, <2>1 DEF ComplaintInv, ComplaintTypeOK, VerdictFits
<1>5. CASE IssueDemoReceipt
  <2>1. PICK r \in Issued : receipt' = r /\ text' = r /\ filing' = NoFiling /\ UNCHANGED <<claim, verdict>>
    BY <1>5 DEF IssueDemoReceipt
  <2>2. NoFiling.is # "file"
    BY DEF NoFiling
  <2> QED
    BY <1>1, <1>2, <2>1, <2>2 DEF ComplaintInv, ComplaintTypeOK, VerdictFits
<1>6. CASE EditReceipt
  <2>1. text' \in Texts
    BY <1>6 DEF EditReceipt
  <2> QED
    BY <1>1, <1>3, <1>6, <2>1 DEF EditReceipt
<1>7. CASE EditClaim
  BY <1>1, <1>3, <1>7 DEF EditClaim
<1>8. CASE TamperReceipt
  <2>1. text' \in Texts
    BY <1>1, <1>2, <1>8 DEF TamperReceipt
  <2> QED
    BY <1>1, <1>3, <1>8, <2>1 DEF TamperReceipt
<1>9. CASE SubmitComplaint
  <2>1. CASE text = Garbled
    <3>1. verdict' = [is |-> "error"] /\ UNCHANGED <<text, receipt, claim, filing>>
      BY <1>9, <2>1 DEF SubmitComplaint
    <3>2. VerdictFits'
      BY <3>1 DEF VerdictFits
    <3> QED
      BY <1>1, <3>1, <3>2 DEF ComplaintInv, ComplaintTypeOK
  <2>2. CASE text # Garbled
    <3>1. /\ verdict' = NoVerdictYet /\ filing' = [is |-> "file", of |-> text, claim |-> claim]
          /\ UNCHANGED <<text, receipt, claim>>
      BY <1>9, <2>2 DEF SubmitComplaint
    <3>2. VerdictFits'
      BY <3>1 DEF VerdictFits, NoVerdictYet
    <3>3. filing'.of # Garbled /\ filing' \in [is : {"file"}, of : Texts, claim : Claims]
      BY <1>1, <2>2, <3>1
    <3> QED
      BY <1>1, <3>1, <3>2, <3>3 DEF ComplaintInv, ComplaintTypeOK
  <2> QED
    BY <2>1, <2>2
<1>10. CASE VerifyComplaint
  BY <1>10, ShowVerdictStep DEF VerifyComplaint
<1>11. CASE FileComplaintLocal
  <2>1. CASE filing.of = Partial
    <3>1. verdict' = [is |-> "error"] /\ filing' = NoFiling /\ UNCHANGED <<text, receipt, claim>>
      BY <1>11, <2>1 DEF FileComplaintLocal
    <3>2. VerdictFits' /\ filing'.is # "file"
      BY <3>1 DEF VerdictFits, NoFiling
    <3> QED
      BY <1>1, <3>1, <3>2 DEF ComplaintInv, ComplaintTypeOK
  <2>2. CASE filing.of # Partial
    BY <1>11, <2>2, ShowVerdictStep DEF FileComplaintLocal
  <2> QED
    BY <2>1, <2>2
<1>12. CASE UNCHANGED complaintVars
  BY <1>1, <1>3, <1>12 DEF complaintVars
<1> QED
  BY <1>4, <1>5, <1>6, <1>7, <1>8, <1>9, <1>10, <1>11, <1>12 DEF ComplaintNext

\* Whatever visitors paste, receipts of their own making included: texts, filings and verdicts
\* of the portal are of their kinds, only what parses is filed, and every verdict fits.
THEOREM ComplaintInvariant == ComplaintSpec => []ComplaintInv
<1>1. ComplaintInit => ComplaintInv
  BY ComplaintInvInit
<1>2. ComplaintInv /\ [ComplaintNext]_complaintVars => ComplaintInv'
  BY ComplaintInvStep
<1> QED
  BY <1>1, <1>2, PTL DEF ComplaintSpec

\* Whatever visitors paste: a complaint about a receipt as it was issued, of any place in a
\* cohort of any size, is dismissed when the claim is what the receipt holds and answered with
\* tampering when it is not, and answers altered over the place, proof and root of an issued
\* receipt get neither verdict.  A receipt with a root of its own may get either: it is judged
\* by that root (complaint.ts 157), and the theorem says only that the verdict follows the claim.
THEOREM VerdictAlwaysFits == ComplaintSpec => []VerdictFits
<1>1. ComplaintInv => VerdictFits
  BY DEF ComplaintInv
<1> QED
  BY <1>1, ComplaintInvariant, PTL

-----------------------------------------------------------------------------
(* Question bundles. *)

\* A power of two outgrows its exponent.
LEMMA DoublingsGrow ==
  ASSUME NEW n \in Nat
  PROVE  \A k \in 0..n : Doublings(n)[k] \in Nat /\ Doublings(n)[k] > k
<1> DEFINE power(k) == Doublings(n)[k]
           P(k) == power(k) \in Nat /\ power(k) > k
           T == {k \in 0..n : ~P(k)}
<1>1. power(0) = 1 /\ \A k \in 1..n : power(k) = 2 * power(k - 1)
  BY DoublingsAre
<1> HIDE DEF power
<1>2. P(0)
  BY <1>1
<1>3. ASSUME NEW k \in 1..n, P(k - 1) PROVE P(k)
  <2>1. PICK p \in Nat : p = power(k - 1)
    BY <1>3
  <2>2. p > k - 1
    BY <1>3, <2>1
  <2>3. power(k) = 2 * p
    BY <1>1, <2>1
  <2> QED
    BY <2>2, <2>3
<1> HIDE DEF P
<1>4. T = {}
  <2> SUFFICES ASSUME T # {} PROVE FALSE
    OBVIOUS
  <2>1. T \in SUBSET Nat
    OBVIOUS
  <2>2. PICK m \in T : \A o \in T : m <= o
    BY <2>1, NatHasLeast
  <2>3. m \in 1..n /\ ~P(m) /\ m - 1 \in 0..n /\ ~(m <= m - 1)
    BY <1>2, <2>2
  <2>4. P(m - 1)
    BY <2>2, <2>3
  <2> QED
    BY <1>3, <2>3, <2>4
<1> QED
  BY <1>4 DEF P, power

\* There is a least power of two with room for n leaves.
LEMMA WidthIs ==
  ASSUME NEW n \in Nat
  PROVE  Width(n) \in Nat /\ Width(n) >= n
<1> DEFINE W == {Doublings(n)[k] : k \in 0..n}
           S == {w \in W : w >= n}
<1>1. /\ \A k \in 0..n : Doublings(n)[k] \in Nat
      /\ Doublings(n)[n] > n
  BY DoublingsGrow
<1>2. S # {} /\ S \in SUBSET Nat
  <2>1. W \subseteq Nat
    BY <1>1
  <2>2. Doublings(n)[n] \in W
    OBVIOUS
  <2>3. Doublings(n)[n] >= n
    BY <1>1
  <2> QED
    BY <2>1, <2>2, <2>3
<1>3. PICK w \in S : \A o \in S : w <= o
  BY <1>2, NatHasLeast
<1>4. \A k \in 0..n : Doublings(n)[k] >= n => w <= Doublings(n)[k]
  BY <1>3
<1>5. w \in W /\ w >= n
  BY <1>3
<1>6. Width(n) \in W /\ Width(n) >= n
  BY <1>4, <1>5 DEF Width
<1> QED
  BY <1>1, <1>6

\* Padding leaves the leaves where they are.
LEMMA PaddedIs ==
  ASSUME NEW leaves, Len(leaves) \in Nat
  PROVE  /\ Len(Padded(leaves)) \in Nat
         /\ Len(Padded(leaves)) >= Len(leaves)
         /\ \A i \in 1..Len(leaves) : Padded(leaves)[i] = leaves[i]
<1>1. PICK n \in Nat : n = Len(leaves)
  OBVIOUS
<1>2. PICK w \in Nat : w = Width(n) /\ w >= n
  BY WidthIs
<1>3. Padded(leaves) = [i \in 1..w |-> IF i <= n THEN leaves[i] ELSE Zero]
  BY <1>1, <1>2 DEF Padded
<1>4. PICK f : f = Padded(leaves)
  OBVIOUS
<1>5. Len(f) = w
  <2>1. DOMAIN f = 1..w /\ f = [i \in DOMAIN f |-> f[i]]
    BY <1>3, <1>4
  <2> QED
    BY <2>1, LenOfFunction
<1>6. \A i \in 1..n : f[i] = leaves[i]
  BY <1>2, <1>3, <1>4
<1> QED
  BY <1>1, <1>2, <1>4, <1>5, <1>6

\* Either sealer's tree has, at each question's place, the leaf of its sealed bytes.
LEMMA BundleLeavesAre ==
  ASSUME SealedTypeOK
  PROVE  /\ Len(BundleLeaves) \in Nat \ {0}
         /\ \A q \in Items : /\ q \in 0..(Len(BundleLeaves) - 1)
                             /\ BundleLeaves[q + 1] = questionLeaf(q, Sealed(q))
<1>1. PICK n \in Nat \ {0} : n = bundle.count
  <2>1. bundle.count \in 1..MaxItems
    BY DEF SealedTypeOK
  <2> QED
    BY <2>1, SealedAssumption
<1>2. PICK leaves : leaves = [i \in 1..n |-> questionLeaf(i - 1, Sealed(i - 1))]
  OBVIOUS
<1>3. Len(leaves) = n
  <2>1. DOMAIN leaves = 1..n /\ leaves = [i \in DOMAIN leaves |-> leaves[i]] /\ n \in Nat
    BY <1>2
  <2> QED
    BY <2>1, LenOfFunction
<1>4. BundleLeaves = IF bundle.sealer = "demo" THEN Padded(leaves) ELSE leaves
  BY <1>1, <1>2 DEF BundleLeaves
<1>5. PICK w \in Nat : w = Len(BundleLeaves) /\ w >= n /\ \A i \in 1..n : BundleLeaves[i] = leaves[i]
  <2>1. CASE bundle.sealer = "demo"
    BY <1>3, <1>4, <2>1, PaddedIs
  <2>2. CASE bundle.sealer # "demo"
    BY <1>3, <1>4, <2>2
  <2> QED
    BY <2>1, <2>2
<1>6. w \in Nat \ {0} /\ \A q \in 0..(n - 1) : q \in 0..(w - 1)
  BY <1>5
<1>7. \A q \in 0..(n - 1) : q + 1 \in 1..n /\ (q + 1) - 1 = q
  OBVIOUS
<1>8. \A q \in 0..(n - 1) : BundleLeaves[q + 1] = questionLeaf(q, Sealed(q))
  BY <1>2, <1>5, <1>7
<1> QED
  BY <1>1, <1>5, <1>6, <1>8 DEF Items

\* Past T0 a question opens exactly from the bytes that were sealed.
LEMMA OpensSealedBytes ==
  ASSUME SealedTypeOK, seed = masterSeed, NEW q \in Items, NEW b \in Bytes, b.of = q
  PROVE  /\ openQuestion(q, b) \in {"plain", "integrity", "decrypt"}
         /\ openQuestion(q, b) = "plain" <=> b = Sealed(q)
<1>1. PICK leaves : leaves = BundleLeaves
  OBVIOUS
<1>2. /\ Len(leaves) \in Nat \ {0} /\ q \in 0..(Len(leaves) - 1)
      /\ leaves[q + 1] = questionLeaf(q, Sealed(q))
  BY <1>1, BundleLeavesAre
<1>3. PICK path : path = proofPath(q)
  OBVIOUS
<1>4. path.hashes = siblings(leaves, q) /\ path.sides = Sides(q, Height(leaves))
  BY <1>1, <1>3 DEF proofPath
<1>5. /\ Len(path.hashes) \in Nat
      /\ Walk(questionLeaf(q, Sealed(q)), path.hashes, path.sides) = questionsRoot
  <2>1. Height(leaves) \in 0..Len(leaves)
    BY <1>2, HeightIs
  <2>2. Height(leaves) \in Nat
    BY <1>2, <2>1
  <2> QED
    BY <1>1, <1>2, <1>4, <2>2, PathLeadsToRoot DEF questionsRoot
<1>6. verifyPath(questionLeaf(q, b), path, questionsRoot) <=> b = Sealed(q)
  <2>1. ASSUME verifyPath(questionLeaf(q, b), path, questionsRoot) PROVE b = Sealed(q)
    <3>1. questionLeaf(q, b) = questionLeaf(q, Sealed(q))
      BY <1>5, <2>1, WalkTellsLeaves DEF verifyPath
    <3> QED
      BY <3>1 DEF questionLeaf
  <2>2. ASSUME b = Sealed(q) PROVE verifyPath(questionLeaf(q, b), path, questionsRoot)
    BY <1>5, <2>2 DEF verifyPath
  <2> QED
    BY <2>1, <2>2
<1>7. CASE b = Sealed(q)
  <2>1. ~b.flipped
    BY <1>7 DEF Sealed
  <2>2. unsealOne(b, questionAesKey(seed, q))
    BY <2>1 DEF unsealOne
  <2>3. openQuestion(q, b) = "plain"
    BY <1>3, <1>6, <1>7, <2>2 DEF openQuestion
  <2> QED
    BY <1>7, <2>3
<1>8. CASE b # Sealed(q)
  <2>1. openQuestion(q, b) = "integrity"
    BY <1>3, <1>6, <1>8 DEF openQuestion
  <2> QED
    BY <1>8, <2>1
<1> QED
  BY <1>7, <1>8

\* At first nothing is opened.
LEMMA SealedInvInit == SealedInit => SealedInv
<1> SUFFICES ASSUME SealedInit PROVE SealedInv
  OBVIOUS
<1>1. opening = {} /\ tampered = {} /\ opened = [q \in Items |-> Unopened]
  BY DEF SealedInit
<1>2. Len(Phases) = 5
  BY DEF Phases
<1>3. SealedTypeOK
  BY <1>1, <1>2 DEF SealedInit, SealedTypeOK
<1> QED
  BY <1>1, <1>3 DEF SealedInv

\* Questions are live in the last phase, and in no other.
LEMMA PhasesAre == Len(Phases) = 5 /\ \A p \in 1..5 : Phases[p] = "live" <=> p = 5
BY DEF Phases

\* What is opened was selected past T0, and T0 does not come again.
LEMMA SealedInvStep == SealedInv /\ [SealedNext]_paperBundleVars => SealedInv'
<1> SUFFICES ASSUME SealedInv, [SealedNext]_paperBundleVars PROVE SealedInv'
  OBVIOUS
<1> DEFINE Shown == {Unopened} \cup [shows : {"plain", "integrity", "decrypt"}, from : Bytes]
<1>1. /\ bundle \in [sealer : {"demo", "edge"}, count : 1..MaxItems]
      /\ phase \in 1..5 /\ seed \in {NoSeed, masterSeed}
      /\ tampered \subseteq Items /\ opening \subseteq Bytes /\ opened \in [Items -> Shown]
      /\ \A b \in opening : b.of \in Items /\ PastT0
      /\ \A q \in Items : opened[q] # Unopened =>
           /\ PastT0
           /\ opened[q].shows = "plain" <=> opened[q].from = Sealed(q)
  BY PhasesAre DEF SealedInv, SealedTypeOK
<1>2. bundle' = bundle /\ Items' = Items
  <2>1. bundle' = bundle
    BY DEF SealedNext, SealBundle, Advance, Select, ToggleTamper, Opened, paperBundleVars
  <2> QED
    BY <2>1 DEF Items
<1>3. /\ SealedInv' <=>
         /\ phase' \in 1..5 /\ seed' \in {NoSeed, masterSeed}
         /\ tampered' \subseteq Items /\ opening' \subseteq Bytes /\ opened' \in [Items -> Shown]
         /\ \A b \in opening' : b.of \in Items /\ PastT0'
         /\ \A q \in Items : opened'[q] # Unopened =>
              /\ PastT0'
              /\ opened'[q].shows = "plain" <=> opened'[q].from = Sealed(q)
  BY <1>1, <1>2, PhasesAre DEF SealedInv, SealedTypeOK
<1> HIDE DEF Shown
<1>4. ASSUME ~PastT0, UNCHANGED <<tampered, opening, opened>>,
             phase' \in 1..5, seed' \in {NoSeed, masterSeed}
      PROVE  SealedInv'
  <2>1. opening = {} /\ \A q \in Items : opened[q] = Unopened
    BY <1>1, <1>4
  <2> QED
    BY <1>1, <1>3, <1>4, <2>1
<1>5. CASE SealBundle
  <2>1. phase = 1 /\ phase' = 2 /\ UNCHANGED <<seed, tampered, opening, opened>>
    BY <1>5 DEF SealBundle
  <2>2. ~PastT0
    BY <2>1, PhasesAre DEF PastT0
  <2> QED
    BY <1>1, <1>4, <2>1, <2>2
<1>6. CASE Advance
  <2>1. /\ phase \in 2..4 /\ phase' = phase + 1 /\ seed' \in {seed, masterSeed}
        /\ UNCHANGED <<tampered, opening, opened>>
    BY <1>6, PhasesAre DEF Advance, MayAdvance
  <2>2. ~PastT0
    BY <2>1, PhasesAre DEF PastT0
  <2>3. phase' \in 1..5
    BY <2>1
  <2> QED
    BY <1>1, <1>4, <2>1, <2>2, <2>3
<1>7. ASSUME NEW q \in Items, Select(q) PROVE SealedInv'
  <2>1. PICK c : c = [of |-> q, flipped |-> q \in tampered]
    OBVIOUS
  <2>2. /\ PastT0 /\ opening' = opening \cup {c}
        /\ UNCHANGED <<phase, seed, tampered, opened>>
    BY <1>1, <1>7, <2>1 DEF Select, PastT0
  <2>3. c.of = q /\ c \in Bytes
    <3>1. q \in 0..(MaxItems - 1)
      BY <1>1, SealedAssumption DEF Items
    <3> QED
      BY <2>1, <3>1 DEF Bytes
  <2>4. PastT0'
    BY <2>2 DEF PastT0
  <2> QED
    BY <1>1, <1>3, <2>2, <2>3, <2>4
<1>8. ASSUME NEW q \in Items, ToggleTamper(q) PROVE SealedInv'
  <2>1. /\ tampered' \subseteq Items
        /\ opened' = [opened EXCEPT ![q] = Unopened]
        /\ UNCHANGED <<phase, seed, opening>>
    BY <1>1, <1>8 DEF ToggleTamper
  <2>2. opened' \in [Items -> Shown]
    BY <1>1, <2>1 DEF Shown
  <2>3. \A p \in Items : opened'[p] # Unopened => opened'[p] = opened[p]
    BY <1>1, <2>1
  <2>4. PastT0' = PastT0
    BY <2>1 DEF PastT0
  <2> QED
    BY <1>1, <1>3, <2>1, <2>2, <2>3, <2>4
<1>9. ASSUME NEW b \in opening, Opened(b) PROVE SealedInv'
  <2>1. PICK o : o = openQuestion(b.of, b)
    OBVIOUS
  <2>2. PICK s : s = [shows |-> o, from |-> b]
    OBVIOUS
  <2>3. /\ opening' = opening \ {b} /\ opened' = [opened EXCEPT ![b.of] = s]
        /\ UNCHANGED <<phase, seed, tampered>>
    BY <1>9, <2>1, <2>2 DEF Opened
  <2>4. b \in Bytes /\ b.of \in Items /\ PastT0 /\ SealedTypeOK
    BY <1>1 DEF SealedInv
  <2>5. o \in {"plain", "integrity", "decrypt"} /\ (o = "plain" <=> b = Sealed(b.of))
    BY <2>1, <2>4, OpensSealedBytes DEF PastT0
  <2>6. s.shows = o /\ s.from = b
    BY <2>2
  <2>7. s \in Shown
    BY <2>2, <2>4, <2>5 DEF Shown
  <2>8. opened' \in [Items -> Shown] /\ opened'[b.of] = s
        /\ \A p \in Items : p # b.of => opened'[p] = opened[p]
    BY <1>1, <2>3, <2>4, <2>7
  <2>9. PastT0'
    BY <2>3, <2>4 DEF PastT0
  <2>10. \A q \in Items : opened'[q] # Unopened =>
           (opened'[q].shows = "plain" <=> opened'[q].from = Sealed(q))
    BY <1>1, <2>5, <2>6, <2>8
  <2> QED
    BY <1>1, <1>3, <2>3, <2>8, <2>9, <2>10
<1>10. CASE UNCHANGED paperBundleVars
  <2>1. UNCHANGED <<phase, seed, tampered, opening, opened>>
    BY <1>10 DEF paperBundleVars
  <2>2. PastT0' = PastT0
    BY <2>1 DEF PastT0
  <2> QED
    BY <1>1, <1>3, <2>1, <2>2
<1> QED
  BY <1>5, <1>6, <1>7, <1>8, <1>9, <1>10 DEF SealedNext

\* The state of the pipeline page is well formed, and what is being opened, or was, was
\* selected past T0 (PipelineDemo.tsx, select).
THEOREM SealedInvariant == SealedSpec => []SealedInv
<1>1. SealedInit => SealedInv
  BY SealedInvInit
<1>2. SealedInv /\ [SealedNext]_paperBundleVars => SealedInv'
  BY SealedInvStep
<1> QED
  BY <1>1, <1>2, PTL DEF SealedSpec

\* A question of a bundle of any size, from either sealer, is opened only past T0 and is
\* readable exactly when the bytes it was opened from are those that were sealed, in whatever
\* order openings end and questions are altered and restored.
THEOREM OpensAlwaysWhatWasSealed == SealedSpec => []OpensWhatWasSealed
<1>1. SealedInv => OpensWhatWasSealed
  BY DEF SealedInv, OpensWhatWasSealed, PastT0, Viewer
<1> QED
  BY <1>1, SealedInvariant, PTL

-----------------------------------------------------------------------------
(* The answers, from the Edge to HQ. *)

\* Rows whose indices differ are listed by index, each once: the number of rows before a row
\* tells it from the others.
LEMMA OrderedLists ==
  ASSUME NEW S, IsFiniteSet(S), \A r \in S : r.index \in Nat,
         \A r, s \in S : r.index = s.index => r = s
  PROVE  /\ Cardinality(S) \in Nat
         /\ Ordered(S) \in Seq(S) /\ Len(Ordered(S)) = Cardinality(S)
         /\ \A k, l \in 1..Cardinality(S) : k < l => Ordered(S)[k].index < Ordered(S)[l].index
         /\ \A r \in S : \E k \in 1..Cardinality(S) : Ordered(S)[k] = r
<1> DEFINE below(r) == {s \in S : s.index < r.index}
           rank(r) == Cardinality(below(r))
           n == Cardinality(S)
           f == [r \in S |-> rank(r) + 1]
<1>1. n \in Nat
  BY FS_CardinalityType
<1>2. ASSUME NEW r \in S PROVE IsFiniteSet(below(r)) /\ rank(r) \in Nat /\ rank(r) < n
  <2>1. below(r) \subseteq S \ {r}
    OBVIOUS
  <2>2. IsFiniteSet(S \ {r}) /\ Cardinality(S \ {r}) = n - 1
    BY FS_RemoveElement
  <2>3. IsFiniteSet(below(r)) /\ rank(r) <= n - 1
    BY <2>1, <2>2, FS_Subset
  <2> HIDE DEF below, n
  <2>4. rank(r) \in Nat
    BY <2>3, FS_CardinalityType
  <2> QED
    BY <1>1, <2>3, <2>4
<1>3. ASSUME NEW r \in S, NEW s \in S, r.index < s.index PROVE rank(r) < rank(s)
  <2>0. \A q \in S : q.index < r.index => q.index < s.index /\ q # r
    <3> SUFFICES ASSUME NEW q \in S, q.index < r.index PROVE q.index < s.index /\ q # r
      OBVIOUS
    <3>1. q.index \in Nat /\ r.index \in Nat /\ s.index \in Nat
      OBVIOUS
    <3> QED
      BY <1>3, <3>1
  <2>1. below(r) \subseteq below(s) \ {r} /\ r \in below(s)
    BY <1>3, <2>0
  <2> HIDE DEF below
  <2>2. /\ IsFiniteSet(below(s)) /\ rank(s) \in Nat /\ rank(r) \in Nat
        /\ IsFiniteSet(below(s) \ {r}) /\ Cardinality(below(s) \ {r}) = rank(s) - 1
    BY <1>2, <2>1, FS_RemoveElement
  <2>3. rank(r) <= rank(s) - 1
    BY <2>1, <2>2, FS_Subset
  <2> QED
    BY <2>2, <2>3
<1> HIDE DEF rank, n, below
<1>4. \A r \in S : rank(r) \in Nat /\ rank(r) < n
  BY <1>2
<1>5. \A r, s \in S : rank(r) < rank(s) => r.index < s.index
  <2> SUFFICES ASSUME NEW r \in S, NEW s \in S, rank(r) < rank(s) PROVE r.index < s.index
    OBVIOUS
  <2>1. r.index \in Nat /\ s.index \in Nat /\ rank(r) \in Nat /\ rank(s) \in Nat
    BY <1>4
  <2>2. CASE r.index = s.index
    <3>1. r = s
      BY <2>2
    <3> QED
      BY <2>1, <3>1
  <2>3. CASE s.index < r.index
    <3>1. rank(s) < rank(r)
      BY <1>3, <2>3
    <3> QED
      BY <2>1, <3>1
  <2> QED
    BY <2>1, <2>2, <2>3
<1>6. \A r, s \in S : rank(r) = rank(s) => r = s
  <2> SUFFICES ASSUME NEW r \in S, NEW s \in S, rank(r) = rank(s) PROVE r = s
    OBVIOUS
  <2>1. ~(r.index < s.index) /\ ~(s.index < r.index)
    BY <1>3, <1>4
  <2> QED
    BY <2>1
<1>7. f \in Injection(S, 1..n)
  <2>1. f \in [S -> 1..n]
    BY <1>1, <1>4
  <2>2. \A r, s \in S : f[r] = f[s] => r = s
    BY <1>4, <1>6
  <2> HIDE DEF f
  <2> QED
    BY <2>1, <2>2 DEF Injection, IsInjective
<1>8. IsFiniteSet(1..n) /\ Cardinality(1..n) = n
  <2>1. IsFiniteSet(1..n) /\ Cardinality(1..n) = IF 1 > n THEN 0 ELSE n - 1 + 1
    BY <1>1, FS_Interval
  <2> QED
    BY <1>1, <2>1
<1>9. \A k \in 1..n : \E r \in S : f[r] = k
  <2> HIDE DEF f
  <2>0. Cardinality(S) = Cardinality(1..n)
    BY <1>8 DEF n
  <2>1. f \in Surjection(S, 1..n)
    BY <1>7, <1>8, <2>0, FS_Injection
  <2> QED
    BY <2>1 DEF Surjection
<1>10. ASSUME NEW k \in 1..n PROVE \E r \in S : rank(r) = k - 1
  <2>1. PICK r \in S : f[r] = k
    BY <1>9
  <2>2. rank(r) + 1 = k
    BY <2>1
  <2>3. rank(r) = k - 1
    BY <1>1, <1>4, <2>2
  <2> QED
    BY <2>3
<1> DEFINE nth(k) == CHOOSE r \in S : rank(r) = k - 1
<1>11. \A k \in 1..n : nth(k) \in S /\ rank(nth(k)) = k - 1
  BY <1>10
<1>12. Ordered(S) = [k \in 1..n |-> nth(k)]
  BY DEF Ordered, n, rank, below
<1> HIDE DEF nth
<1>13. Ordered(S) \in Seq(S) /\ Len(Ordered(S)) = n /\ \A k \in 1..n : Ordered(S)[k] = nth(k)
  <2>1. Ordered(S) \in [1..n -> S]
    BY <1>11, <1>12
  <2>2. Ordered(S) \in Seq(S)
    BY <1>1, <2>1, SeqDef
  <2> QED
    BY <1>1, <1>12, <2>1, <2>2, LenProperties
<1>14. \A k, l \in 1..n : k < l => nth(k).index < nth(l).index
  <2> SUFFICES ASSUME NEW k \in 1..n, NEW l \in 1..n, k < l PROVE nth(k).index < nth(l).index
    OBVIOUS
  <2>1. k - 1 < l - 1
    BY <1>1
  <2>2. rank(nth(k)) < rank(nth(l))
    BY <1>11, <2>1
  <2> QED
    BY <1>5, <1>11, <2>2
<1>15. ASSUME NEW r \in S PROVE \E k \in 1..n : nth(k) = r
  <2>1. rank(r) + 1 \in 1..n
    BY <1>1, <1>4
  <2>2. nth(rank(r) + 1) \in S /\ rank(nth(rank(r) + 1)) = rank(r)
    BY <1>4, <1>11, <2>1
  <2> QED
    BY <1>6, <2>1, <2>2
<1> QED
  BY <1>1, <1>13, <1>14, <1>15 DEF n

\* There are m numbers up to m.
LEMMA CountUpTo == \A m \in Nat : Cardinality(1..m) = m
<1> SUFFICES ASSUME NEW m \in Nat PROVE Cardinality(1..m) = m
  OBVIOUS
<1>1. IsFiniteSet(1..m) /\ Cardinality(1..m) = IF 1 > m THEN 0 ELSE m - 1 + 1
  BY FS_Interval
<1> QED
  BY <1>1

\* Records whose indices ascend are in the order of their indices.
LEMMA SortedStays ==
  ASSUME NEW R, NEW rs \in Seq(R), \A i \in DOMAIN rs : rs[i].index \in Nat,
         \A i, j \in DOMAIN rs : i < j => rs[i].index < rs[j].index
  PROVE  recordToChain(rs) = rs
<1> DEFINE precedes(j, k) == rs[j].index < rs[k].index \/ (rs[j].index = rs[k].index /\ j < k)
           before(k) == {j \in DOMAIN rs : precedes(j, k)}
<1>1. Len(rs) \in Nat /\ DOMAIN rs = 1..Len(rs)
  BY LenProperties
<1>2. ASSUME NEW k \in DOMAIN rs PROVE Cardinality(before(k)) = k - 1
  <2>1. \A j \in DOMAIN rs : precedes(j, k) <=> j < k
    <3> SUFFICES ASSUME NEW j \in DOMAIN rs PROVE precedes(j, k) <=> j < k
      OBVIOUS
    <3>1. j \in Nat /\ k \in Nat /\ rs[j].index \in Nat /\ rs[k].index \in Nat
      BY <1>1
    <3>2. CASE j < k
      BY <3>1, <3>2
    <3>3. CASE k < j
      <4>1. rs[k].index < rs[j].index
        BY <3>3
      <4> QED
        BY <3>1, <3>3, <4>1
    <3>4. CASE k = j
      BY <3>1, <3>4
    <3> QED
      BY <3>1, <3>2, <3>3, <3>4
  <2> HIDE DEF precedes
  <2>2. before(k) = 1..(k - 1)
    BY <1>1, <2>1
  <2>3. PICK m \in Nat : m = k - 1
    BY <1>1
  <2> HIDE DEF before
  <2> QED
    BY <2>2, <2>3, CountUpTo
<1> HIDE DEF before
<1>3. ASSUME NEW i \in DOMAIN rs
      PROVE  (CHOOSE k \in DOMAIN rs : Cardinality(before(k)) = i - 1) = i
  <2>1. \A k \in DOMAIN rs : Cardinality(before(k)) = i - 1 <=> k = i
    BY <1>1, <1>2
  <2> QED
    BY <2>1
<1>4. recordToChain(rs) = [i \in DOMAIN rs |-> rs[CHOOSE k \in DOMAIN rs : Cardinality(before(k)) = i - 1]]
  BY DEF recordToChain, before, precedes
<1>5. recordToChain(rs) = [i \in DOMAIN rs |-> rs[i]]
  BY <1>3, <1>4
<1>6. rs = [i \in DOMAIN rs |-> rs[i]]
  <2>1. rs \in [1..Len(rs) -> R]
    BY LenProperties
  <2> QED
    BY <1>1, <2>1
<1> QED
  BY <1>5, <1>6

-----------------------------------------------------------------------------
(* What the vaults check. *)

\* The portal's vault opens a bundle exactly if its five checks hold.
LEMMA PortalOpens ==
  ASSUME NEW b, NEW key
  PROVE  LET rs == recordToChain(b.manifest.records)
             all == /\ manifestHash(b.manifest) = b.manifestHash /\ Signed(b)
                    /\ verifyChain(rs) /\ leavesBound(rs)
                    /\ \A i \in DOMAIN rs : opens(rs[i].envelope, key)
         IN  /\ all => ingestBundle(b, key) = OpenedAs(rs) /\ ingestBundle(b, key).ok = TRUE
             /\ ~all => ingestBundle(b, key).ok = FALSE
<1> DEFINE rs == recordToChain(b.manifest.records)
           cs == Checks(b, rs, key)
           F == {i \in 1..Len(cs) : ~cs[i].holds}
           failing == IF F # {} THEN Min(F) ELSE 0
           all == /\ manifestHash(b.manifest) = b.manifestHash /\ Signed(b)
                  /\ verifyChain(rs) /\ leavesBound(rs)
                  /\ \A i \in DOMAIN rs : opens(rs[i].envelope, key)
<1>1. ingestBundle(b, key) = IF failing = 0 THEN OpenedAs(rs) ELSE Refused(cs[failing].name)
  BY DEF ingestBundle, SelectInSeq
<1>2. F = {} <=> all
  <2>1. Len(cs) = 5
    BY DEF Checks
  <2>2. /\ cs[1].holds <=> manifestHash(b.manifest) = b.manifestHash
        /\ cs[2].holds <=> Signed(b)
        /\ cs[3].holds <=> verifyChain(rs)
        /\ cs[4].holds <=> leavesBound(rs)
        /\ cs[5].holds <=> \A i \in DOMAIN rs : opens(rs[i].envelope, key)
    BY DEF Checks
  <2> HIDE DEF rs, cs
  <2>3. F = {} <=> \A i \in 1..5 : cs[i].holds
    BY <2>1
  <2>4. 1..5 = {1, 2, 3, 4, 5}
    OBVIOUS
  <2> QED
    BY <2>2, <2>3, <2>4
<1>3. F # {} => failing # 0
  <2> SUFFICES ASSUME F # {} PROVE failing # 0
    OBVIOUS
  <2>1. F \subseteq 1..5
    BY DEF Checks
  <2> HIDE DEF F
  <2>2. F \in SUBSET Nat
    BY <2>1
  <2>3. \E x \in F : \A y \in F : x <= y
    BY <2>2, NatHasLeast
  <2>4. Min(F) \in F
    BY <2>3 DEF Min
  <2> QED
    BY <2>1, <2>4
<1>4. \A by : Refused(by).ok = FALSE
  BY DEF Refused
<1>5. \A s : OpenedAs(s).ok = TRUE
  BY DEF OpenedAs
<1> HIDE DEF rs, cs, F
<1>6. all => ingestBundle(b, key) = OpenedAs(rs)
  BY <1>1, <1>2
<1>7. ~all => ingestBundle(b, key) = Refused(cs[failing].name)
  BY <1>1, <1>2, <1>3
<1> QED
  BY <1>4, <1>5, <1>6, <1>7 DEF rs

\* The reference opens it exactly if the same holds, of the records as the manifest has them.
LEMMA ReferenceOpens ==
  ASSUME NEW b, NEW key
  PROVE  LET rs == b.manifest.records
             chain == recordToChain(rs)
             all == /\ manifestHash(b.manifest) = b.manifestHash /\ Signed(b)
                    /\ verifyChain(chain) /\ leavesBound(rs)
                    /\ \A i \in DOMAIN rs : opens(rs[i].envelope, key)
         IN  /\ all => ingest(b, key) = [OpenedAs(rs) EXCEPT !.answerRoot = chain[Len(chain)].root]
             /\ ~all => ingest(b, key).ok = FALSE
BY DEF ingest, Refused

LEMMA UnmarkedSelf == \A r : ~Marked(r, r)
BY DEF Marked

\* A bundle that was touched is refused for its hash or its signature.
LEMMA TouchedRefused ==
  ASSUME NEW b \in SyncBundles, Betrays(b)
  PROVE  ~(manifestHash(b.manifest) = b.manifestHash /\ Signed(b))
<1> SUFFICES ASSUME manifestHash(b.manifest) = b.manifestHash, Signed(b) PROVE FALSE
  OBVIOUS
<1>1. b.manifestHash = <<"sha256", b.manifest>> /\ b.nodeSig.by = "node"
  BY DEF manifestHash, SyncBundles
<1>2. b.nodeSig = [by |-> b.nodePubkey, over |-> <<"sha256", b.manifest>>]
  BY DEF Signed, verifyNodeSig, signRoot, manifestHash
<1>3. b.nodeSig.by = b.nodePubkey /\ b.nodeSig.over = <<"sha256", b.manifest>>
  BY <1>2
<1>4. \A m : <<"sha256", m>> # <<"sha256">>
  <2> SUFFICES ASSUME NEW m PROVE Len(<<"sha256", m>>) # Len(<<"sha256">>)
    OBVIOUS
  <2> QED
    OBVIOUS
<1>5. b.manifestHash # <<"sha256">> /\ b.nodeSig.over # <<"sha256">> /\ b.nodePubkey # "another node"
  BY <1>1, <1>3, <1>4
<1>6. b.manifestHash[2] = b.manifest
  BY <1>1
<1>7. Unlike(b.manifest.records, b.manifest.records)
  BY <1>5, <1>6 DEF Betrays
<1> QED
  BY <1>7, UnmarkedSelf DEF Unlike

\* What the Edge exported carries its own hash and signature, and lists its rows by index.
LEMMA ExportedFits ==
  ASSUME NEW b \in SyncBundles, Exported(b)
  PROVE  LET rs == b.manifest.records
         IN  /\ manifestHash(b.manifest) = b.manifestHash /\ Signed(b)
             /\ rs \in Seq(VaultRows) /\ recordToChain(rs) = rs
             /\ ~b.touched
             /\ Len(rs) \in Nat \ {0} /\ DOMAIN rs = 1..Len(rs)
<1> DEFINE rs == b.manifest.records
<1>1. b.manifest \in Manifests
  BY DEF SyncBundles
<1>2. rs \in Seq(VaultRows)
  BY <1>1 DEF Manifests
<1>3. b = SyncBundle(rs)
  BY DEF Exported
<1>4. /\ b.manifest = [count |-> Len(rs), records |-> rs]
      /\ b.manifestHash = manifestHash(b.manifest)
      /\ b.nodeSig = signRoot("node", manifestHash(b.manifest))
      /\ b.nodePubkey = "node" /\ b.touched = FALSE
  BY <1>3 DEF SyncBundle
<1>5. manifestHash(b.manifest) = b.manifestHash /\ Signed(b)
  BY <1>4 DEF Signed, verifyNodeSig
<1>6. \A i, j \in DOMAIN rs : i < j => rs[i].index < rs[j].index
  BY DEF Exported
<1> HIDE DEF rs
<1>7. DOMAIN rs = 1..Len(rs) /\ Len(rs) \in Nat /\ (rs # <<>> => Len(rs) # 0)
  <2>1. DOMAIN rs = 1..Len(rs) /\ Len(rs) \in Nat
    BY <1>2, LenProperties
  <2>2. Len(rs) = 0 => rs = <<>>
    BY <1>2, EmptySeq
  <2> QED
    BY <2>1, <2>2
<1>8. \A i \in DOMAIN rs : rs[i] \in VaultRows /\ rs[i].index \in Nat
  <2>1. \A i \in DOMAIN rs : rs[i] \in VaultRows
    BY <1>2, <1>7, ElementOfSeq
  <2> QED
    BY <2>1 DEF VaultRows
<1>9. recordToChain(rs) = rs
  BY <1>2, <1>6, <1>8, SortedStays
<1>10. rs # <<>>
  BY DEF Exported, rs
<1> QED
  BY <1>2, <1>4, <1>5, <1>7, <1>9, <1>10 DEF rs

\* What is inserted, as Content has it.
InsertedSound == committed \subseteq Contents /\ \A c \in committed : SealedWhole(c)

\* A chain does not end in a leaf that was damaged.
LEMMA SoundRootNotJunk ==
  ASSUME NEW root \in VaultRoots, NEW e
  PROVE  nextRoot(root, leafOf(e)) # JunkRoot
<1>1. root \in Seq(Seq(Envelopes)) /\ JunkLeaf \in Seq(Envelopes)
  BY EmptySeq DEF VaultRoots, JunkLeaf
<1>2. PICK T : T = Seq(Envelopes) \cup {leafOf(e)}
  OBVIOUS
<1>3. root \in Seq(T)
  <2>1. root \in [1..Len(root) -> Seq(Envelopes)] /\ Len(root) \in Nat
    BY <1>1, LenProperties
  <2>2. root \in [1..Len(root) -> T]
    BY <1>2, <2>1
  <2> QED
    BY <2>1, <2>2, SeqDef
<1>4. Append(root, leafOf(e))[Len(root) + 1] = leafOf(e) /\ Len(Append(root, leafOf(e))) = Len(root) + 1
  BY <1>2, <1>3, AppendProperties
<1>5. Len(JunkRoot) = 2 /\ JunkRoot[2] = <<>>
  BY DEF JunkRoot, JunkLeaf
<1>6. leafOf(e) # <<>>
  BY DEF leafOf
<1>7. Len(root) \in Nat
  BY <1>3, LenProperties
<1> SUFFICES ASSUME Append(root, leafOf(e)) = JunkRoot PROVE FALSE
  BY DEF nextRoot
<1>8. Len(root) + 1 = 2
  BY <1>4, <1>5
<1> QED
  BY <1>4, <1>5, <1>6, <1>7, <1>8

\* Of rows that were written and may be damaged, those that verify, whole, are what was
\* inserted; and what was inserted verifies.
LEMMA VerifiedIsInserted ==
  ASSUME InsertedSound, NEW rs \in Seq(VaultRows), \A i \in DOMAIN rs : WasWritten(rs[i])
  PROVE  /\ verifyChain(rs) /\ leavesBound(rs) /\ \A i \in DOMAIN rs : rs[i].envelope.sound
         <=> \A i \in DOMAIN rs :
               /\ Content(rs[i]) \in committed
               /\ rs[i].prevRoot = IF i = 1 THEN GENESIS ELSE rs[i - 1].root
<1>1. DOMAIN rs = 1..Len(rs) /\ Len(rs) \in Nat /\ \A i \in DOMAIN rs : rs[i] \in VaultRows
  BY LenProperties, ElementOfSeq
<1>2. ASSUME verifyChain(rs), leavesBound(rs), NEW i \in DOMAIN rs
      PROVE  /\ Content(rs[i]) \in committed
             /\ rs[i].prevRoot = IF i = 1 THEN GENESIS ELSE rs[i - 1].root
  <2>1. \A j \in DOMAIN rs : rs[j].leaf = leafOf(rs[j].envelope) /\ rs[j].root # JunkRoot
    <3> SUFFICES ASSUME NEW j \in DOMAIN rs PROVE rs[j].leaf = leafOf(rs[j].envelope) /\ rs[j].root # JunkRoot
      OBVIOUS
    <3>1. rs[j].leaf = leafOf(rs[j].envelope) /\ rs[j].root = nextRoot(rs[j].prevRoot, rs[j].leaf)
      BY <1>1, <1>2 DEF verifyChain, leavesBound
    <3>2. rs[j].prevRoot \in VaultRoots
      BY <1>1 DEF VaultRows
    <3> QED
      BY <3>1, <3>2, SoundRootNotJunk
  <2>2. rs[i].prevRoot = IF i = 1 THEN GENESIS ELSE rs[i - 1].root
    BY <1>1, <1>2 DEF verifyChain
  <2>3. rs[i].prevRoot # JunkRoot
    <3>1. CASE i = 1
      BY <2>2, <3>1 DEF GENESIS, JunkRoot
    <3>2. CASE i # 1
      <4>1. i - 1 \in DOMAIN rs
        BY <1>1, <3>2
      <4> QED
        BY <2>1, <2>2, <3>2, <4>1
    <3> QED
      BY <3>1, <3>2
  <2>4. PICK c \in committed : WrittenAs(rs[i], c)
    BY DEF WasWritten
  <2>5. rs[i].leaf # JunkLeaf
    BY <2>1 DEF leafOf, JunkLeaf
  <2>6. rs[i].leaf = c.leaf /\ rs[i].prevRoot = c.prevRoot /\ rs[i].root = c.root
    BY <2>1, <2>3, <2>4, <2>5 DEF WrittenAs
  <2>7. <<rs[i].envelope>> = <<c.envelope>>
    BY <2>1, <2>6 DEF InsertedSound, SealedWhole, leafOf
  <2>8. rs[i].envelope = c.envelope
    BY <2>7
  <2>9. c \in Contents
    BY DEF InsertedSound
  <2>10. Content(rs[i]) = c
    BY <2>6, <2>8, <2>9 DEF Content, Contents
  <2> QED
    BY <2>2, <2>10
<1>3. ASSUME NEW i \in DOMAIN rs, Content(rs[i]) \in committed,
             rs[i].prevRoot = IF i = 1 THEN GENESIS ELSE rs[i - 1].root
      PROVE  /\ rs[i].leaf = leafOf(rs[i].envelope) /\ rs[i].envelope.sound
             /\ rs[i].root = nextRoot(rs[i].prevRoot, rs[i].leaf)
  <2>1. SealedWhole(Content(rs[i]))
    BY <1>3 DEF InsertedSound
  <2> QED
    BY <2>1 DEF SealedWhole, Content
<1>4. ASSUME \A i \in DOMAIN rs : /\ Content(rs[i]) \in committed
                                  /\ rs[i].prevRoot = IF i = 1 THEN GENESIS ELSE rs[i - 1].root
      PROVE  verifyChain(rs) /\ leavesBound(rs) /\ \A i \in DOMAIN rs : rs[i].envelope.sound
  BY <1>1, <1>3, <1>4 DEF verifyChain, leavesBound
<1> QED
  BY <1>2, <1>4

\* A root of a chain lists the leaves up to its record.
LEMMA ChainRoots ==
  ASSUME NEW rs \in Seq(VaultRows), verifyChain(rs)
  PROVE  \A i \in DOMAIN rs : /\ Len(rs[i].root) = i
                              /\ \A j \in 1..i : rs[i].root[j] = rs[j].leaf
<1> DEFINE P(i) == Len(rs[i].root) = i /\ \A j \in 1..i : rs[i].root[j] = rs[j].leaf
           T == {i \in DOMAIN rs : ~P(i)}
<1>1. DOMAIN rs = 1..Len(rs) /\ Len(rs) \in Nat /\ \A i \in DOMAIN rs : rs[i] \in VaultRows
  BY LenProperties, ElementOfSeq
<1>2. \A i \in DOMAIN rs :
        /\ rs[i].leaf \in Seq(Envelopes) /\ rs[i].root \in Seq(Seq(Envelopes))
        /\ rs[i].prevRoot \in Seq(Seq(Envelopes))
        /\ rs[i].prevRoot = IF i = 1 THEN <<>> ELSE rs[i - 1].root
        /\ rs[i].root = Append(rs[i].prevRoot, rs[i].leaf)
  BY <1>1 DEF VaultRows, VaultRoots, verifyChain, GENESIS, nextRoot
<1>3. ASSUME NEW i \in DOMAIN rs, i # 1 => P(i - 1) PROVE P(i)
  <2>1. PICK q : q = rs[i].prevRoot
    OBVIOUS
  <2>2. q \in Seq(Seq(Envelopes)) /\ rs[i].leaf \in Seq(Envelopes) /\ rs[i].root = Append(q, rs[i].leaf)
    BY <1>2, <2>1
  <2>3. Len(q) = i - 1 /\ \A j \in 1..(i - 1) : q[j] = rs[j].leaf
    <3>1. CASE i = 1
      BY <1>2, <2>1, <3>1
    <3>2. CASE i # 1
      BY <1>2, <1>3, <2>1, <3>2
    <3> QED
      BY <3>1, <3>2
  <2>4. /\ Len(Append(q, rs[i].leaf)) = Len(q) + 1
        /\ \A j \in 1..Len(q) : Append(q, rs[i].leaf)[j] = q[j]
        /\ Append(q, rs[i].leaf)[Len(q) + 1] = rs[i].leaf
    BY <2>2, AppendProperties
  <2>5. i \in Nat
    BY <1>1
  <2> QED
    BY <2>2, <2>3, <2>4, <2>5
<1> HIDE DEF P
<1>4. T = {}
  <2> SUFFICES ASSUME T # {} PROVE FALSE
    OBVIOUS
  <2>1. T \in SUBSET Nat
    BY <1>1
  <2>2. PICK m \in T : \A n \in T : m <= n
    BY <2>1, NatHasLeast
  <2>3. m \in DOMAIN rs /\ ~P(m) /\ m \in Nat
    BY <2>1
  <2>4. m # 1 => m - 1 \in DOMAIN rs /\ m - 1 \notin T
    <3> SUFFICES ASSUME m # 1 PROVE m - 1 \in DOMAIN rs /\ m - 1 \notin T
      OBVIOUS
    <3>1. m - 1 \in DOMAIN rs /\ ~(m <= m - 1)
      BY <1>1, <2>3
    <3> QED
      BY <2>2, <3>1
  <2>5. m # 1 => P(m - 1)
    BY <2>4
  <2> QED
    BY <1>3, <2>3, <2>5
<1> QED
  BY <1>4 DEF P

\* The verdict on a bundle that is as the Edge sent it, or shows that it is not.
LEMMA VerdictRight ==
  ASSUME InsertedSound, NEW b \in SyncBundles, IF b.touched THEN Betrays(b) ELSE Exported(b),
         NEW k \in Keys
  PROVE  LET portal == ingestBundle(b, k)
             reference == ingest(b, k)
             rs == b.manifest.records
         IN  /\ portal.ok <=> Genuine(b) /\ \A i \in DOMAIN rs : rs[i].envelope.key = k
             /\ portal.ok <=> reference.ok
             /\ portal.ok => /\ portal = reference
                             /\ \A i \in DOMAIN rs : leafOf(sealRecord(portal.opened[i], k))
                                                       = portal.answerRoot[i]
                             /\ Len(portal.answerRoot) = portal.count
<1> DEFINE rs == b.manifest.records
<1>1. CASE b.touched
  <2>1. ~(manifestHash(b.manifest) = b.manifestHash /\ Signed(b))
    BY <1>1, TouchedRefused
  <2>2. ingestBundle(b, k).ok = FALSE
    BY <2>1, PortalOpens
  <2>3. ingest(b, k).ok = FALSE
    BY <2>1, ReferenceOpens
  <2>4. ~Genuine(b)
    BY <1>1 DEF Genuine
  <2> QED
    BY <2>2, <2>3, <2>4
<1>2. CASE ~b.touched
  <2>1. /\ manifestHash(b.manifest) = b.manifestHash /\ Signed(b)
        /\ rs \in Seq(VaultRows) /\ recordToChain(rs) = rs
        /\ Len(rs) \in Nat \ {0} /\ DOMAIN rs = 1..Len(rs)
    BY <1>2, ExportedFits
  <2> DEFINE mine == \A i \in DOMAIN rs : rs[i].envelope.key = k
             held == /\ verifyChain(rs) /\ leavesBound(rs)
                     /\ \A i \in DOMAIN rs : opens(rs[i].envelope, k)
  <2>2. held <=> Genuine(b) /\ mine
    <3>1. \A i \in DOMAIN rs : WasWritten(rs[i])
      BY <1>2 DEF Exported
    <3>2. /\ verifyChain(rs) /\ leavesBound(rs) /\ \A i \in DOMAIN rs : rs[i].envelope.sound
          <=> \A i \in DOMAIN rs :
                /\ Content(rs[i]) \in committed
                /\ rs[i].prevRoot = IF i = 1 THEN GENESIS ELSE rs[i - 1].root
      BY <2>1, <3>1, VerifiedIsInserted
    <3>3. held <=> verifyChain(rs) /\ leavesBound(rs) /\ (\A i \in DOMAIN rs : rs[i].envelope.sound) /\ mine
      BY DEF opens
    <3> QED
      BY <1>2, <3>2, <3>3 DEF Genuine
  <2>3. /\ held => ingestBundle(b, k) = OpenedAs(rs) /\ ingestBundle(b, k).ok = TRUE
        /\ ~held => ingestBundle(b, k).ok = FALSE
    BY <2>1, PortalOpens
  <2>4. /\ held => ingest(b, k) = [OpenedAs(rs) EXCEPT !.answerRoot = rs[Len(rs)].root]
        /\ ~held => ingest(b, k).ok = FALSE
    BY <2>1, ReferenceOpens
  <2>5. [OpenedAs(rs) EXCEPT !.answerRoot = rs[Len(rs)].root] = OpenedAs(rs)
    BY DEF OpenedAs
  <2>6. ASSUME held, NEW i \in DOMAIN rs
        PROVE  leafOf(sealRecord(OpenedAs(rs).opened[i], k)) = OpenedAs(rs).answerRoot[i]
    <3>1. OpenedAs(rs).opened[i] = rs[i].envelope.record /\ OpenedAs(rs).answerRoot = rs[Len(rs)].root
      BY <2>1 DEF OpenedAs
    <3>2. rs[Len(rs)].root[i] = rs[i].leaf
      BY <2>1, <2>6, ChainRoots
    <3>3. rs[i].leaf = leafOf(rs[i].envelope) /\ opens(rs[i].envelope, k)
      BY <2>6 DEF leavesBound
    <3>4. rs[i].envelope \in Envelopes
      <4> HIDE DEF rs
      <4>1. rs[i] \in VaultRows
        BY <2>1, ElementOfSeq
      <4> QED
        BY <4>1 DEF VaultRows
    <3>5. sealRecord(rs[i].envelope.record, k) = rs[i].envelope
      BY <3>3, <3>4 DEF sealRecord, opens, Envelopes
    <3> QED
      BY <3>1, <3>2, <3>3, <3>5
  <2>7. held => Len(OpenedAs(rs).answerRoot) = OpenedAs(rs).count
    BY <2>1, ChainRoots DEF OpenedAs
  <2> HIDE DEF held
  <2>8. held => ingest(b, k) = ingestBundle(b, k)
    BY <2>3, <2>4, <2>5
  <2> HIDE DEF rs, mine
  <2> QED
    BY <2>2, <2>3, <2>4, <2>6, <2>7, <2>8 DEF rs, mine
<1> QED
  BY <1>1, <1>2

-----------------------------------------------------------------------------
(* What stays true while rows and bundles are damaged. *)

LEMMA VaultInvInit == VaultInit => VaultInv
<1> SUFFICES ASSUME VaultInit PROVE VaultInv
  OBVIOUS
<1>1. IsFiniteSet({}) /\ Cardinality({}) = 0
  BY FS_EmptySet
<1>2. /\ {sealingKey, hqKey} \subseteq Keys \cup {NoKey} /\ answerRows = {} /\ committed = {} /\ bundles = {}
      /\ damage = 0 /\ shown = Nothing
  BY DEF VaultInit
<1>3. VaultTypeOK
  BY <1>1, <1>2, VaultAssumption DEF VaultTypeOK
<1> QED
  BY <1>1, <1>2, <1>3 DEF VaultInv

\* What was inserted stays inserted.
LEMMA WrittenStays ==
  ASSUME committed \subseteq committed'
  PROVE  /\ \A r : WasWritten(r) => WasWritten(r)'
         /\ \A b : (IF b.touched THEN Betrays(b) ELSE Exported(b))
                     => (IF b.touched THEN Betrays(b) ELSE Exported(b))'
<1>1. \A r : WasWritten(r) => WasWritten(r)'
  BY DEF WasWritten
<1>2. \A b : Exported(b) => Exported(b)'
  BY <1>1 DEF Exported
<1> QED
  BY <1>1, <1>2

\* What a configuration, a submission and a damaged row leave of the invariant.
LEMMA BundlesStay ==
  ASSUME VaultInv, committed \subseteq committed', UNCHANGED <<bundles, shown>>
  PROVE  /\ bundles' \subseteq SyncBundles
         /\ \A b \in bundles' : (IF b.touched THEN Betrays(b) ELSE Exported(b))'
         /\ shown' # Nothing => \E b \in bundles', k \in Keys : shown' = Verdict(b, k)
<1>1. /\ bundles \subseteq SyncBundles /\ \A b \in bundles : IF b.touched THEN Betrays(b) ELSE Exported(b)
      /\ shown # Nothing => \E b \in bundles, k \in Keys : shown = Verdict(b, k)
  BY DEF VaultInv
<1>2. \A b \in bundles' : (IF b.touched THEN Betrays(b) ELSE Exported(b))'
  BY <1>1, WrittenStays
<1> QED
  BY <1>1, <1>2

LEMMA ConfigureStep ==
  ASSUME VaultInv, NEW k \in Keys \cup {NoKey}, ConfigureEdge(k) \/ ConfigurePortal(k)
  PROVE  VaultInv'
<1>1. /\ {sealingKey', hqKey'} \subseteq Keys \cup {NoKey}
      /\ UNCHANGED <<answerRows, committed, bundles, damage, shown>>
  BY DEF VaultInv, VaultTypeOK, ConfigureEdge, ConfigurePortal
<1>2. VaultTypeOK'
  BY <1>1 DEF VaultInv, VaultTypeOK
<1>3. \A r \in answerRows' : WasWritten(r)'
  BY <1>1, WrittenStays DEF VaultInv
<1> QED
  BY <1>1, <1>2, <1>3, BundlesStay DEF VaultInv

\* The row with the greatest index is the last of the list.
LEMMA LastRowGreatest ==
  ASSUME VaultInv, answerRows # {}
  PROVE  LastRow \in answerRows /\ \A r \in answerRows : r.index <= LastRow.index
<1>1. /\ IsFiniteSet(answerRows) /\ \A r \in answerRows : r.index \in Nat
      /\ \A r, s \in answerRows : r.index = s.index => r = s
  BY DEF VaultInv, VaultTypeOK
<1> DEFINE n == Cardinality(answerRows)
<1>2. /\ n \in Nat
      /\ Ordered(answerRows) \in Seq(answerRows) /\ Len(Ordered(answerRows)) = n
      /\ \A k, l \in 1..n : k < l => Ordered(answerRows)[k].index < Ordered(answerRows)[l].index
      /\ \A r \in answerRows : \E k \in 1..n : Ordered(answerRows)[k] = r
  BY <1>1, OrderedLists
<1>3. LastRow = Ordered(answerRows)[n]
  BY DEF LastRow
<1> HIDE DEF n
<1>4. n \in 1..n
  BY <1>2
<1>5. LastRow \in answerRows
  BY <1>2, <1>3, <1>4, ElementOfSeq
<1>6. ASSUME NEW r \in answerRows PROVE r.index <= LastRow.index
  <2>1. PICK k \in 1..n : Ordered(answerRows)[k] = r
    BY <1>2
  <2>2. r.index \in Nat /\ LastRow.index \in Nat
    BY <1>1, <1>5
  <2>3. k < n \/ k = n
    BY <1>2
  <2>4. CASE k < n
    BY <1>2, <1>3, <1>4, <2>1, <2>2, <2>4
  <2>5. CASE k = n
    BY <1>3, <2>1, <2>2, <2>5
  <2> QED
    BY <2>3, <2>4, <2>5
<1> QED
  BY <1>5, <1>6

LEMMA SubmitStep == VaultInv /\ Submit => VaultInv'
<1> SUFFICES ASSUME VaultInv, Submit PROVE VaultInv'
  OBVIOUS
<1>1. PICK envelope : envelope = sealRecord(Cardinality(committed) + 1, sealingKey)
  OBVIOUS
<1>2. PICK r : r = Row(IF answerRows = {} THEN ChainRecord(0, leafOf(envelope), GENESIS)
                       ELSE ChainRecord(LastRow.index + 1, leafOf(envelope), LastRow.root), envelope)
  OBVIOUS
<1>3. /\ sealingKey # NoKey /\ Cardinality(committed) < MaxRecords
      /\ answerRows' = answerRows \cup {r} /\ committed' = committed \cup {Content(r)}
      /\ UNCHANGED <<sealingKey, hqKey, bundles, damage, shown>>
  BY <1>1, <1>2 DEF Submit
<1>4. /\ {sealingKey, hqKey} \subseteq Keys \cup {NoKey} /\ damage \in 0..MaxDamage
      /\ \A s \in answerRows : s.index \in Nat /\ s.sync \in {"SEALED", "SYNCED"}
      /\ \A s, t \in answerRows : s.index = t.index => s = t
      /\ IsFiniteSet(answerRows) /\ IsFiniteSet(committed)
      /\ committed \subseteq Contents /\ answerRows \subseteq VaultRows
      /\ \A c \in committed : SealedWhole(c)
      /\ \A s \in answerRows : WasWritten(s)
  BY DEF VaultInv, VaultTypeOK
<1>5. Cardinality(committed) \in Nat
  BY <1>4, FS_CardinalityType
<1>6. envelope \in Envelopes /\ envelope.sound /\ leafOf(envelope) \in Seq(Envelopes)
  <2>1. envelope \in Envelopes /\ envelope.sound
    BY <1>1, <1>3, <1>4, <1>5 DEF sealRecord, Envelopes
  <2> QED
    BY <2>1 DEF leafOf
<1>7. PICK prev, place : /\ prev = (IF answerRows = {} THEN GENESIS ELSE LastRow.root)
                         /\ place = (IF answerRows = {} THEN 0 ELSE LastRow.index + 1)
  OBVIOUS
<1>8. prev \in VaultRoots /\ place \in Nat /\ \A s \in answerRows : s.index < place
  <2>1. CASE answerRows = {}
    BY <1>7, <2>1, EmptySeq DEF GENESIS, VaultRoots
  <2>2. CASE answerRows # {}
    <3>1. LastRow \in answerRows /\ \A s \in answerRows : s.index <= LastRow.index
      BY <2>2, LastRowGreatest
    <3>2. LastRow.root \in VaultRoots /\ LastRow.index \in Nat
      BY <1>4, <3>1 DEF VaultRows
    <3>3. prev = LastRow.root /\ place = LastRow.index + 1
      BY <1>7, <2>2
    <3>4. \A s \in answerRows : s.index < place
      BY <1>4, <3>1, <3>2, <3>3
    <3> QED
      BY <3>2, <3>3, <3>4
  <2> QED
    BY <2>1, <2>2
<1>9. r = [index |-> place, leaf |-> leafOf(envelope), prevRoot |-> prev,
           root |-> nextRoot(prev, leafOf(envelope)), envelope |-> envelope, sync |-> "SEALED"]
  BY <1>2, <1>7 DEF Row, ChainRecord
<1>10. nextRoot(prev, leafOf(envelope)) \in VaultRoots
  <2>1. prev \in Seq(Seq(Envelopes))
    BY <1>8 DEF VaultRoots
  <2>2. Append(prev, leafOf(envelope)) \in Seq(Seq(Envelopes))
    BY <1>6, <2>1, AppendProperties
  <2> QED
    BY <2>2 DEF nextRoot, VaultRoots
<1>11. r \in VaultRows
  BY <1>6, <1>8, <1>9, <1>10 DEF VaultRows
<1>12. Content(r) = [leaf |-> r.leaf, prevRoot |-> r.prevRoot, root |-> r.root, envelope |-> r.envelope]
  BY DEF Content
<1>13. Content(r) \in Contents
  BY <1>11, <1>12 DEF VaultRows, Contents
<1>14. SealedWhole(Content(r))
  BY <1>6, <1>9, <1>12 DEF SealedWhole
<1>15. WasWritten(r)'
  <2>1. WrittenAs(r, Content(r))
    BY <1>12 DEF WrittenAs
  <2> QED
    BY <1>3, <2>1 DEF WasWritten
<1>16. /\ IsFiniteSet(answerRows') /\ IsFiniteSet(committed')
       /\ Cardinality(committed') <= MaxRecords
  <2>1. IsFiniteSet(answerRows \cup {r})
    BY <1>4, FS_AddElement
  <2>2. /\ IsFiniteSet(committed \cup {Content(r)})
        /\ Cardinality(committed \cup {Content(r)}) =
             IF Content(r) \in committed THEN Cardinality(committed) ELSE Cardinality(committed) + 1
    BY <1>4, FS_AddElement
  <2> QED
    BY <1>3, <1>5, <2>1, <2>2, VaultAssumption
<1>17. VaultTypeOK'
  <2>1. \A s, t \in answerRows' : s.index = t.index => s = t
    <3> SUFFICES ASSUME NEW s \in answerRows', NEW t \in answerRows', s.index = t.index PROVE s = t
      OBVIOUS
    <3>1. s \in answerRows => s.index < place /\ s.index \in Nat
      BY <1>4, <1>8
    <3>2. t \in answerRows => t.index < place /\ t.index \in Nat
      BY <1>4, <1>8
    <3>3. r.index = place
      BY <1>9
    <3> QED
      BY <1>3, <1>4, <1>8, <3>1, <3>2, <3>3
  <2>2. \A s \in answerRows' : s.index \in Nat /\ s.sync \in {"SEALED", "SYNCED"}
    BY <1>3, <1>4, <1>8, <1>9
  <2> QED
    BY <1>3, <1>4, <1>16, <2>1, <2>2 DEF VaultTypeOK
<1>18. committed \subseteq committed' /\ UNCHANGED <<bundles, shown>>
  BY <1>3
<1>19. \A s \in answerRows' : WasWritten(s)'
  BY <1>3, <1>4, <1>15, <1>18, WrittenStays
<1>20. /\ committed' \subseteq Contents /\ answerRows' \subseteq VaultRows
       /\ \A c \in committed' : SealedWhole(c)
  BY <1>3, <1>4, <1>11, <1>13, <1>14
<1> QED
  BY <1>16, <1>17, <1>18, <1>19, <1>20, BundlesStay DEF VaultInv

LEMMA ExportStep == VaultInv /\ Export => VaultInv'
<1> SUFFICES ASSUME VaultInv, Export PROVE VaultInv'
  OBVIOUS
<1>1. PICK out, leaves : out = {r \in answerRows : r.sync = "SEALED"} /\ leaves = {r.leaf : r \in out}
  OBVIOUS
<1>2. /\ out # {} /\ out \subseteq answerRows
      /\ bundles' = bundles \cup {SyncBundle(Ordered(out))}
      /\ answerRows' = {IF r.leaf \in leaves THEN [r EXCEPT !.sync = "SYNCED"] ELSE r : r \in answerRows}
      /\ UNCHANGED <<sealingKey, hqKey, committed, damage, shown>>
  BY <1>1 DEF Export
<1>3. /\ {sealingKey, hqKey} \subseteq Keys \cup {NoKey} /\ damage \in 0..MaxDamage
      /\ Cardinality(committed) <= MaxRecords
      /\ \A s \in answerRows : s.index \in Nat /\ s.sync \in {"SEALED", "SYNCED"}
      /\ \A s, t \in answerRows : s.index = t.index => s = t
      /\ IsFiniteSet(answerRows) /\ IsFiniteSet(committed)
      /\ committed \subseteq Contents /\ answerRows \subseteq VaultRows /\ bundles \subseteq SyncBundles
      /\ \A c \in committed : SealedWhole(c)
      /\ \A s \in answerRows : WasWritten(s)
      /\ \A b \in bundles : IF b.touched THEN Betrays(b) ELSE Exported(b)
      /\ shown # Nothing => \E b \in bundles, k \in Keys : shown = Verdict(b, k)
  BY DEF VaultInv, VaultTypeOK
<1>4. IsFiniteSet(out)
  BY <1>2, <1>3, FS_Subset
<1> DEFINE n == Cardinality(out)
<1>5. /\ n \in Nat /\ Ordered(out) \in Seq(out) /\ Len(Ordered(out)) = n
      /\ \A k, l \in 1..n : k < l => Ordered(out)[k].index < Ordered(out)[l].index
      /\ \A r \in out : \E k \in 1..n : Ordered(out)[k] = r
  BY <1>2, <1>3, <1>4, OrderedLists
<1> HIDE DEF n
<1>6. PICK rs : rs = Ordered(out)
  OBVIOUS
<1>7. /\ rs \in Seq(VaultRows) /\ rs # <<>> /\ DOMAIN rs = 1..n /\ Len(rs) \in Nat
      /\ \A i \in DOMAIN rs : rs[i] \in out
  <2>1. rs \in Seq(out) /\ Len(rs) = n
    BY <1>5, <1>6
  <2>2. DOMAIN rs = 1..n /\ rs \in [1..n -> out]
    BY <2>1, LenProperties
  <2>3. rs \in [1..n -> VaultRows]
    BY <1>2, <1>3, <2>2
  <2>4. rs \in Seq(VaultRows)
    BY <1>5, <2>3, SeqDef
  <2>5. \E k : k \in DOMAIN rs
    BY <1>2, <1>5, <2>2
  <2>6. DOMAIN <<>> = {}
    OBVIOUS
  <2> QED
    BY <1>5, <2>1, <2>2, <2>4, <2>5, <2>6
<1>8. SyncBundle(rs) \in SyncBundles /\ ~SyncBundle(rs).touched /\ SyncBundle(rs).manifest.records = rs
  <2>1. PICK m : m = [count |-> Len(rs), records |-> rs]
    OBVIOUS
  <2>2. m \in Manifests /\ m.records = rs
    BY <1>7, <2>1 DEF Manifests
  <2>3. manifestHash(m) \in ManifestHashes
    BY <2>2 DEF manifestHash, ManifestHashes
  <2>4. SyncBundle(rs) = [manifest |-> m, manifestHash |-> manifestHash(m),
                          nodeSig |-> [by |-> "node", over |-> manifestHash(m)], nodePubkey |-> "node",
                          touched |-> FALSE]
    BY <2>1 DEF SyncBundle, signRoot
  <2> QED
    BY <2>2, <2>3, <2>4 DEF SyncBundles
<1>9. Exported(SyncBundle(rs))
  <2>1. \A i \in DOMAIN rs : WasWritten(rs[i])
    BY <1>2, <1>3, <1>7
  <2>2. \A i, j \in DOMAIN rs : i < j => rs[i].index < rs[j].index
    BY <1>5, <1>6, <1>7
  <2> QED
    BY <1>7, <1>8, <2>1, <2>2 DEF Exported
<1>10. committed \subseteq committed'
  BY <1>2
<1> DEFINE g == [r \in answerRows |-> IF r.leaf \in leaves THEN [r EXCEPT !.sync = "SYNCED"] ELSE r]
<1>11. answerRows' = {g[r] : r \in answerRows}
  BY <1>2
<1>12. ASSUME NEW r \in answerRows
       PROVE  /\ g[r] \in VaultRows /\ g[r].index = r.index /\ g[r].leaf = r.leaf
              /\ g[r].prevRoot = r.prevRoot /\ g[r].root = r.root
  <2>1. r \in VaultRows
    BY <1>3
  <2>2. /\ [r EXCEPT !.sync = "SYNCED"] \in VaultRows /\ [r EXCEPT !.sync = "SYNCED"].index = r.index
        /\ [r EXCEPT !.sync = "SYNCED"].leaf = r.leaf
        /\ [r EXCEPT !.sync = "SYNCED"].prevRoot = r.prevRoot
        /\ [r EXCEPT !.sync = "SYNCED"].root = r.root
    BY <2>1 DEF VaultRows
  <2>3. g[r] = [r EXCEPT !.sync = "SYNCED"] \/ g[r] = r
    OBVIOUS
  <2> HIDE DEF g
  <2> QED
    BY <2>1, <2>2, <2>3
<1>13. IsFiniteSet(answerRows')
  <2>1. g \in [answerRows -> answerRows']
    BY <1>11
  <2> HIDE DEF g
  <2>2. g \in Surjection(answerRows, answerRows')
    BY <1>11, <2>1 DEF Surjection
  <2> QED
    BY <1>3, <2>2, FS_Surjection
<1> HIDE DEF g
<1>14. answerRows' \subseteq VaultRows
  BY <1>11, <1>12
<1>15. VaultTypeOK'
  <2>1. \A s, t \in answerRows' : s.index = t.index => s = t
    <3> SUFFICES ASSUME NEW s \in answerRows', NEW t \in answerRows', s.index = t.index PROVE s = t
      OBVIOUS
    <3>1. PICK p \in answerRows : s = g[p]
      BY <1>11
    <3>2. PICK q \in answerRows : t = g[q]
      BY <1>11
    <3>3. p.index = q.index
      BY <1>12, <3>1, <3>2
    <3> QED
      BY <1>3, <3>1, <3>2, <3>3
  <2>2. \A s \in answerRows' : s.index \in Nat /\ s.sync \in {"SEALED", "SYNCED"}
    BY <1>14 DEF VaultRows
  <2> QED
    BY <1>2, <1>3, <2>1, <2>2 DEF VaultTypeOK
<1>16. \A s \in answerRows' : WasWritten(s)'
  <2> SUFFICES ASSUME NEW s \in answerRows' PROVE WasWritten(s)'
    OBVIOUS
  <2>1. PICK p \in answerRows : s = g[p]
    BY <1>11
  <2>2. PICK c \in committed : WrittenAs(p, c)
    BY <1>3 DEF WasWritten
  <2>3. WrittenAs(s, c)
    BY <1>12, <2>1, <2>2 DEF WrittenAs
  <2> QED
    BY <1>2, <2>3 DEF WasWritten
<1>17. \A b \in bundles' : (IF b.touched THEN Betrays(b) ELSE Exported(b))'
  <2>1. \A b \in bundles' : IF b.touched THEN Betrays(b) ELSE Exported(b)
    BY <1>2, <1>3, <1>6, <1>8, <1>9
  <2> QED
    BY <1>10, <2>1, WrittenStays
<1>18. bundles' \subseteq SyncBundles /\ bundles \subseteq bundles'
  BY <1>2, <1>3, <1>6, <1>8
<1>19. shown' # Nothing => \E b \in bundles', k \in Keys : shown' = Verdict(b, k)
  BY <1>2, <1>3, <1>18
<1>20. /\ IsFiniteSet(committed') /\ committed' \subseteq Contents /\ \A c \in committed' : SealedWhole(c)
  BY <1>2, <1>3
<1> QED
  BY <1>13, <1>14, <1>15, <1>16, <1>17, <1>18, <1>19, <1>20 DEF VaultInv

LEMMA IngestStep ==
  ASSUME VaultInv, NEW b \in bundles, Ingest(b)
  PROVE  VaultInv'
<1>1. /\ hqKey \in Keys /\ shown' = Verdict(b, hqKey)
      /\ UNCHANGED <<sealingKey, hqKey, answerRows, committed, bundles, damage>>
  BY DEF Ingest, VaultInv, VaultTypeOK
<1>2. \E c \in bundles', k \in Keys : shown' = Verdict(c, k)
  BY <1>1
<1>3. VaultTypeOK'
  BY <1>1 DEF VaultInv, VaultTypeOK
<1>4. /\ \A r \in answerRows' : WasWritten(r)'
      /\ \A c \in bundles' : (IF c.touched THEN Betrays(c) ELSE Exported(c))'
  BY <1>1, WrittenStays DEF VaultInv
<1> QED
  BY <1>1, <1>2, <1>3, <1>4 DEF VaultInv

LEMMA JunkTypes == JunkLeaf \in Seq(Envelopes) /\ JunkRoot \in VaultRoots
<1>1. JunkLeaf \in Seq(Envelopes)
  BY DEF JunkLeaf
<1> QED
  BY <1>1 DEF JunkRoot, VaultRoots

\* A damaged row is a row still; it is marked where it was damaged, and what was marked
\* before stays so.
LEMMA DamagedRow ==
  ASSUME NEW r \in VaultRows, NEW d \in Damaged(r)
  PROVE  /\ d \in VaultRows /\ d.index \in {r.index, 2 * MaxRecords}
         /\ WasWritten(r) => WasWritten(d)
         /\ d # r => Marked(d, r)
         /\ \A s : Marked(r, s) => Marked(d, s)
<1>1. /\ r = [index |-> r.index, leaf |-> r.leaf, prevRoot |-> r.prevRoot, root |-> r.root,
              envelope |-> r.envelope, sync |-> r.sync]
      /\ r.index \in Nat /\ r.leaf \in Seq(Envelopes) /\ r.prevRoot \in VaultRoots /\ r.root \in VaultRoots
      /\ r.envelope \in Envelopes /\ r.sync \in {"SEALED", "SYNCED"}
  BY DEF VaultRows
<1>2. 2 * MaxRecords \in Nat
  BY VaultAssumption
<1>3. CASE d = [r EXCEPT !.index = 2 * MaxRecords]
  <2>1. /\ d \in VaultRows /\ d.index = 2 * MaxRecords /\ d.leaf = r.leaf /\ d.prevRoot = r.prevRoot
        /\ d.root = r.root /\ d.envelope = r.envelope
    BY <1>2, <1>3 DEF VaultRows
  <2>2. r.index = 2 * MaxRecords => d = r
    BY <1>1, <1>3
  <2> QED
    BY <2>1, <2>2 DEF Marked, WasWritten, WrittenAs
<1>4. CASE d = [r EXCEPT !.leaf = JunkLeaf]
  <2>1. /\ d \in VaultRows /\ d.index = r.index /\ d.leaf = JunkLeaf /\ d.prevRoot = r.prevRoot
        /\ d.root = r.root /\ d.envelope = r.envelope
    BY <1>4, JunkTypes DEF VaultRows
  <2>2. r.leaf = JunkLeaf => d = r
    BY <1>1, <1>4
  <2> QED
    BY <2>1, <2>2 DEF Marked, WasWritten, WrittenAs
<1>5. CASE d = [r EXCEPT !.prevRoot = JunkRoot]
  <2>1. /\ d \in VaultRows /\ d.index = r.index /\ d.leaf = r.leaf /\ d.prevRoot = JunkRoot
        /\ d.root = r.root /\ d.envelope = r.envelope
    BY <1>5, JunkTypes DEF VaultRows
  <2>2. r.prevRoot = JunkRoot => d = r
    BY <1>1, <1>5
  <2> QED
    BY <2>1, <2>2 DEF Marked, WasWritten, WrittenAs
<1>6. CASE d = [r EXCEPT !.root = JunkRoot]
  <2>1. /\ d \in VaultRows /\ d.index = r.index /\ d.leaf = r.leaf /\ d.prevRoot = r.prevRoot
        /\ d.root = JunkRoot /\ d.envelope = r.envelope
    BY <1>6, JunkTypes DEF VaultRows
  <2>2. r.root = JunkRoot => d = r
    BY <1>1, <1>6
  <2> QED
    BY <2>1, <2>2 DEF Marked, WasWritten, WrittenAs
<1>7. CASE d = [r EXCEPT !.envelope.sound = FALSE]
  <2>1. PICK e : e = [r.envelope EXCEPT !.sound = FALSE]
    OBVIOUS
  <2>2. e \in Envelopes /\ ~e.sound /\ (r.envelope.sound = FALSE => e = r.envelope)
    BY <1>1, <2>1 DEF Envelopes
  <2>3. r.envelope.sound \in BOOLEAN
    BY <1>1 DEF Envelopes
  <2>4. d = [r EXCEPT !.envelope = e]
    BY <1>7, <2>1
  <2>5. /\ d \in VaultRows /\ d.index = r.index /\ d.leaf = r.leaf /\ d.prevRoot = r.prevRoot
        /\ d.root = r.root /\ d.envelope = e
    BY <2>2, <2>4 DEF VaultRows
  <2>6. ~r.envelope.sound => d = r
    BY <1>1, <2>2, <2>3, <2>4
  <2> QED
    BY <2>2, <2>5, <2>6 DEF Marked, WasWritten, WrittenAs
<1> QED
  BY <1>3, <1>4, <1>5, <1>6, <1>7 DEF Damaged

LEMMA DamageRowStep == VaultInv /\ DamageRow => VaultInv'
<1> SUFFICES ASSUME VaultInv, DamageRow PROVE VaultInv'
  OBVIOUS
<1>1. /\ damage < MaxDamage /\ damage' = damage + 1
      /\ UNCHANGED <<sealingKey, hqKey, committed, bundles, shown>>
  BY DEF DamageRow
<1>2. /\ {sealingKey, hqKey} \subseteq Keys \cup {NoKey} /\ damage \in 0..MaxDamage
      /\ Cardinality(committed) <= MaxRecords
      /\ \A s \in answerRows : s.index \in Nat /\ s.sync \in {"SEALED", "SYNCED"}
      /\ \A s, t \in answerRows : s.index = t.index => s = t
      /\ IsFiniteSet(answerRows) /\ IsFiniteSet(committed)
      /\ committed \subseteq Contents /\ answerRows \subseteq VaultRows
      /\ \A c \in committed : SealedWhole(c)
      /\ \A s \in answerRows : WasWritten(s)
  BY DEF VaultInv, VaultTypeOK
<1>3. damage' \in 0..MaxDamage
  BY <1>1, <1>2, VaultAssumption
<1>4. /\ IsFiniteSet(answerRows') /\ answerRows' \subseteq VaultRows
      /\ \A s, t \in answerRows' : s.index = t.index => s = t
      /\ \A s \in answerRows' : WasWritten(s)
  <2>1. PICK r \in answerRows :
         \/ answerRows' = answerRows \ {r}
         \/ \E d \in (Damaged(r) \cup {[r EXCEPT !.envelope = s.envelope] : s \in answerRows}) \ {r} :
              /\ \A s \in answerRows \ {r} : s.index # d.index
              /\ answerRows' = (answerRows \ {r}) \cup {d}
    BY DEF DamageRow
  <2>2. IsFiniteSet(answerRows \ {r}) /\ r \in VaultRows /\ WasWritten(r)
    BY <1>2, FS_RemoveElement
  <2>3. CASE answerRows' = answerRows \ {r}
    BY <1>2, <2>2, <2>3
  <2>4. ASSUME NEW d \in Damaged(r) \cup {[r EXCEPT !.envelope = s.envelope] : s \in answerRows},
               \A s \in answerRows \ {r} : s.index # d.index,
               answerRows' = (answerRows \ {r}) \cup {d}
        PROVE  /\ IsFiniteSet(answerRows') /\ answerRows' \subseteq VaultRows
               /\ \A s, t \in answerRows' : s.index = t.index => s = t
               /\ \A s \in answerRows' : WasWritten(s)
    <3>1. d \in VaultRows /\ WasWritten(d)
      <4>1. CASE d \in Damaged(r)
        BY <2>2, <4>1, DamagedRow
      <4>2. CASE d \in {[r EXCEPT !.envelope = s.envelope] : s \in answerRows}
        <5>1. PICK s \in answerRows : d = [r EXCEPT !.envelope = s.envelope]
          BY <4>2
        <5>2. s.envelope \in Envelopes
          BY <1>2 DEF VaultRows
        <5>3. d \in VaultRows /\ d.leaf = r.leaf /\ d.prevRoot = r.prevRoot /\ d.root = r.root
          BY <2>2, <5>1, <5>2 DEF VaultRows
        <5> QED
          BY <2>2, <5>3 DEF WasWritten, WrittenAs
      <4> QED
        BY <2>4, <4>1, <4>2
    <3>2. IsFiniteSet((answerRows \ {r}) \cup {d})
      BY <2>2, FS_AddElement
    <3> QED
      BY <1>2, <2>4, <3>1, <3>2
  <2> QED
    BY <2>1, <2>3, <2>4
<1>5. \A s \in answerRows' : s.index \in Nat /\ s.sync \in {"SEALED", "SYNCED"}
  BY <1>4 DEF VaultRows
<1>6. VaultTypeOK'
  BY <1>1, <1>2, <1>3, <1>4, <1>5 DEF VaultTypeOK
<1>7. \A s \in answerRows' : WasWritten(s)'
  BY <1>1, <1>4, WrittenStays
<1>8. /\ IsFiniteSet(committed') /\ committed' \subseteq Contents /\ \A c \in committed' : SealedWhole(c)
  BY <1>1, <1>2
<1> QED
  BY <1>1, <1>4, <1>6, <1>7, <1>8, BundlesStay DEF VaultInv

\* A bundle that arrived, and what is damaged of it.
LEMMA BundleFields ==
  ASSUME NEW b \in SyncBundles
  PROVE  /\ b = [manifest |-> b.manifest, manifestHash |-> b.manifestHash, nodeSig |-> b.nodeSig,
                 nodePubkey |-> b.nodePubkey, touched |-> b.touched]
         /\ b.manifest = [count |-> b.manifest.count, records |-> b.manifest.records]
         /\ b.manifest \in Manifests /\ b.manifest.records \in Seq(VaultRows)
         /\ b.manifestHash \in ManifestHashes
         /\ b.nodeSig.by = "node" /\ b.nodeSig.over \in ManifestHashes
         /\ b.nodePubkey \in {"node", "another node"} /\ b.touched \in BOOLEAN
<1>1. /\ b = [manifest |-> b.manifest, manifestHash |-> b.manifestHash, nodeSig |-> b.nodeSig,
              nodePubkey |-> b.nodePubkey, touched |-> b.touched]
      /\ b.manifest \in Manifests /\ b.manifestHash \in ManifestHashes
      /\ b.nodeSig.by = "node" /\ b.nodeSig.over \in ManifestHashes
      /\ b.nodePubkey \in {"node", "another node"} /\ b.touched \in BOOLEAN
  BY DEF SyncBundles
<1>2. b.manifest = [count |-> b.manifest.count, records |-> b.manifest.records]
  BY <1>1 DEF Manifests
<1>3. b.manifest.records \in Seq(VaultRows)
  BY <1>1 DEF Manifests
<1> QED
  BY <1>1, <1>2, <1>3

\* The bundle before: its hash is junk, or it is of the records the bundle has or once had.
LEMMA HashIsOf ==
  ASSUME NEW b \in SyncBundles, IF b.touched THEN Betrays(b) ELSE Exported(b)
  PROVE  \/ b.manifestHash = <<"sha256">> \/ b.nodeSig.over = <<"sha256">>
         \/ b.nodePubkey = "another node"
         \/ /\ b.manifestHash # <<"sha256">>
            /\ b.manifestHash[2].records \in Seq(VaultRows)
            /\ \/ Unlike(b.manifest.records, b.manifestHash[2].records)
               \/ ~b.touched /\ b.manifestHash[2].records = b.manifest.records
<1>1. b.manifestHash # <<"sha256">> => b.manifestHash[2].records \in Seq(VaultRows)
  BY BundleFields DEF ManifestHashes, Manifests
<1>2. CASE b.touched
  BY <1>1, <1>2 DEF Betrays
<1>3. CASE ~b.touched
  <2>1. b = SyncBundle(b.manifest.records)
    BY <1>3 DEF Exported
  <2>2. b.manifestHash = <<"sha256", [count |-> Len(b.manifest.records), records |-> b.manifest.records]>>
    BY <2>1 DEF SyncBundle, manifestHash
  <2>3. b.manifestHash[2].records = b.manifest.records
    BY <2>2
  <2>4. Len(b.manifestHash) = 2
    BY <2>2
  <2>5. Len(<<"sha256">>) = 1
    OBVIOUS
  <2> QED
    BY <1>1, <1>3, <2>3, <2>4, <2>5
<1> QED
  BY <1>2, <1>3

\* Records that were damaged, or are fewer, do not fit the hash of those that were.
LEMMA RecordsBetray ==
  ASSUME NEW b \in SyncBundles, IF b.touched THEN Betrays(b) ELSE Exported(b),
         NEW m \in Seq(VaultRows),
         \A n \in Seq(VaultRows) : Unlike(b.manifest.records, n) => Unlike(m, n),
         b.touched \/ Unlike(m, b.manifest.records),
         NEW e, e = [[b EXCEPT !.manifest.records = m] EXCEPT !.touched = TRUE]
  PROVE  e \in SyncBundles /\ e.touched = TRUE /\ Betrays(e)
<1>1. PICK f : f = [b.manifest EXCEPT !.records = m]
  OBVIOUS
<1>2. f \in Manifests /\ f.records = m
  BY <1>1, BundleFields DEF Manifests
<1>3. e = [[b EXCEPT !.manifest = f] EXCEPT !.touched = TRUE]
  BY <1>1
<1>4. /\ e \in SyncBundles /\ e.touched = TRUE /\ e.manifest = f /\ e.manifestHash = b.manifestHash
      /\ e.nodeSig = b.nodeSig /\ e.nodePubkey = b.nodePubkey
  BY <1>2, <1>3 DEF SyncBundles
<1>5. e.manifest.records = m
  BY <1>2, <1>4
<1> QED
  BY <1>4, <1>5, HashIsOf DEF Betrays

\* Records of which one is gone are fewer than those they were, or are said to be.
LEMMA FewerUnlike ==
  ASSUME NEW rs, NEW m, NEW n, Len(rs) \in Nat, Len(n) \in Nat, Len(m) = Len(rs) - 1, Len(rs) <= Len(n)
  PROVE  Unlike(m, n)
<1>1. PICK k \in Nat : k = Len(rs)
  OBVIOUS
<1>2. PICK l \in Nat : l = Len(n)
  OBVIOUS
<1>3. k - 1 <= l /\ k - 1 # l
  BY <1>1, <1>2
<1>4. Len(m) <= Len(n) /\ Len(m) # Len(n)
  BY <1>1, <1>2, <1>3
<1> QED
  BY <1>4 DEF Unlike

LEMMA DamagedBundle ==
  ASSUME NEW b \in SyncBundles, IF b.touched THEN Betrays(b) ELSE Exported(b),
         NEW d \in DamagedBundles(b) \ {b}, NEW e, e = [d EXCEPT !.touched = TRUE]
  PROVE  e \in SyncBundles /\ e.touched = TRUE /\ Betrays(e)
<1> DEFINE rs == b.manifest.records
<1>1. rs \in Seq(VaultRows) /\ Len(rs) \in Nat /\ DOMAIN rs = 1..Len(rs)
  BY BundleFields, LenProperties
<1>2. ASSUME NEW i \in DOMAIN rs, d = [b EXCEPT !.manifest.records = RemoveAt(rs, i)]
      PROVE  e \in SyncBundles /\ e.touched = TRUE /\ Betrays(e)
  <2>1. PICK m : m = RemoveAt(rs, i)
    OBVIOUS
  <2> HIDE DEF rs
  <2>2. m \in Seq(VaultRows) /\ Len(m) = Len(rs) - 1
    BY <1>1, <2>1, WithoutOne
  <2>3. \A n \in Seq(VaultRows) : Len(n) \in Nat
    BY LenProperties
  <2>4. ASSUME NEW n \in Seq(VaultRows), Unlike(rs, n) PROVE Unlike(m, n)
    <3>1. Len(rs) <= Len(n)
      BY <2>4 DEF Unlike
    <3> QED
      BY <1>1, <2>2, <2>3, <3>1, FewerUnlike
  <2>5. Unlike(m, rs)
    <3>1. Len(rs) <= Len(rs)
      BY <1>1
    <3> QED
      BY <1>1, <2>2, <3>1, FewerUnlike
  <2>6. e = [[b EXCEPT !.manifest.records = m] EXCEPT !.touched = TRUE]
    BY <1>2, <2>1
  <2> QED
    BY <2>2, <2>4, <2>5, <2>6, RecordsBetray DEF rs
<1>3. ASSUME NEW i \in DOMAIN rs, NEW r \in Damaged(rs[i]), d = [b EXCEPT !.manifest.records[i] = r]
      PROVE  e \in SyncBundles /\ e.touched = TRUE /\ Betrays(e)
  <2>1. PICK m : m = [rs EXCEPT ![i] = r]
    OBVIOUS
  <2>2. d = [b EXCEPT !.manifest.records = m]
    BY <1>3, <2>1
  <2>3. r # rs[i]
    <3> SUFFICES ASSUME r = rs[i] PROVE FALSE
      OBVIOUS
    <3>1. m = rs
      <4> HIDE DEF rs
      <4>1. rs \in [1..Len(rs) -> VaultRows]
        BY <1>1, LenProperties
      <4> QED
        BY <2>1, <4>1
    <3>2. [b.manifest EXCEPT !.records = rs] = b.manifest
      <4>1. b.manifest = [count |-> b.manifest.count, records |-> b.manifest.records]
        BY BundleFields
      <4> QED
        BY <4>1
    <3>3. d = [b EXCEPT !.manifest = b.manifest]
      BY <2>2, <3>1, <3>2
    <3>4. [b EXCEPT !.manifest = b.manifest] = b
      <4>1. b = [manifest |-> b.manifest, manifestHash |-> b.manifestHash, nodeSig |-> b.nodeSig,
                 nodePubkey |-> b.nodePubkey, touched |-> b.touched]
        BY BundleFields
      <4> QED
        BY <4>1
    <3> QED
      BY <3>3, <3>4
  <2> HIDE DEF rs
  <2>4. rs[i] \in VaultRows
    BY <1>1, ElementOfSeq
  <2>5. r \in VaultRows /\ Marked(r, rs[i]) /\ \A s : Marked(rs[i], s) => Marked(r, s)
    BY <1>3, <2>3, <2>4, DamagedRow
  <2>6. /\ m \in Seq(VaultRows) /\ Len(m) = Len(rs) /\ DOMAIN m = DOMAIN rs /\ m[i] = r
        /\ \A j \in DOMAIN rs : j # i => m[j] = rs[j]
    <3>1. rs \in [1..Len(rs) -> VaultRows]
      BY <1>1, LenProperties
    <3>2. m \in [1..Len(rs) -> VaultRows] /\ m[i] = r /\ \A j \in DOMAIN rs : j # i => m[j] = rs[j]
      BY <1>1, <2>1, <2>5, <3>1
    <3>3. m \in Seq(VaultRows)
      BY <1>1, <3>2, SeqDef
    <3>4. DOMAIN m = 1..Len(m) /\ Len(m) \in Nat /\ DOMAIN m = 1..Len(rs)
      BY <3>2, <3>3, LenProperties
    <3>5. Len(m) = Len(rs)
      BY <1>1, <3>4, SameEnd
    <3> QED
      BY <1>1, <3>2, <3>3, <3>4, <3>5
  <2>7. ASSUME NEW n \in Seq(VaultRows), Unlike(rs, n) PROVE Unlike(m, n)
    <3>1. CASE Len(rs) = Len(n)
      <4>1. PICK j \in DOMAIN rs : Marked(rs[j], n[j])
        BY <2>7, <3>1 DEF Unlike
      <4>2. Marked(m[j], n[j])
        BY <2>5, <2>6, <4>1
      <4> QED
        BY <2>6, <2>7, <4>2 DEF Unlike
    <3>2. CASE Len(rs) # Len(n)
      BY <2>6, <2>7, <3>2 DEF Unlike
    <3> QED
      BY <3>1, <3>2
  <2>8. Unlike(m, rs)
    BY <1>1, <2>5, <2>6 DEF Unlike
  <2>9. e = [[b EXCEPT !.manifest.records = m] EXCEPT !.touched = TRUE]
    BY <2>2
  <2> QED
    BY <2>6, <2>7, <2>8, <2>9, RecordsBetray DEF rs
<1>4. <<"sha256">> \in ManifestHashes
  BY DEF ManifestHashes
<1>5. CASE d = [b EXCEPT !.manifestHash = <<"sha256">>]
  BY <1>4, <1>5 DEF SyncBundles, Betrays
<1>6. CASE d = [b EXCEPT !.nodeSig = signRoot("node", <<"sha256">>)]
  <2>1. PICK g : g = signRoot("node", <<"sha256">>)
    OBVIOUS
  <2>2. g \in [by : {"node"}, over : ManifestHashes] /\ g.over = <<"sha256">>
    BY <1>4, <2>1 DEF signRoot
  <2>3. e = [[b EXCEPT !.nodeSig = g] EXCEPT !.touched = TRUE]
    BY <1>6, <2>1
  <2>4. e \in SyncBundles /\ e.touched = TRUE /\ e.nodeSig = g
    BY <2>2, <2>3 DEF SyncBundles
  <2> QED
    BY <2>2, <2>4 DEF Betrays
<1>7. CASE d = [b EXCEPT !.nodePubkey = "another node"]
  BY <1>7 DEF SyncBundles, Betrays
<1>8. \/ \E i \in DOMAIN rs : d = [b EXCEPT !.manifest.records = RemoveAt(rs, i)]
      \/ \E i \in DOMAIN rs : \E r \in Damaged(rs[i]) : d = [b EXCEPT !.manifest.records[i] = r]
      \/ d = [b EXCEPT !.manifestHash = <<"sha256">>]
      \/ d = [b EXCEPT !.nodeSig = signRoot("node", <<"sha256">>)]
      \/ d = [b EXCEPT !.nodePubkey = "another node"]
  <2> DEFINE drops == {[b EXCEPT !.manifest.records = RemoveAt(rs, i)] : i \in DOMAIN rs}
             edits(i) == {[b EXCEPT !.manifest.records[i] = r] : r \in Damaged(rs[i])}
             others == {[b EXCEPT !.manifestHash = <<"sha256">>],
                        [b EXCEPT !.nodeSig = signRoot("node", <<"sha256">>)],
                        [b EXCEPT !.nodePubkey = "another node"]}
  <2>1. DamagedBundles(b) = drops \cup (UNION {edits(i) : i \in DOMAIN rs}) \cup others
    BY DEF DamagedBundles
  <2>2. d \in drops => \E i \in DOMAIN rs : d = [b EXCEPT !.manifest.records = RemoveAt(rs, i)]
    BY Zenon
  <2>3. \A i \in DOMAIN rs : d \in edits(i) => \E r \in Damaged(rs[i]) : d = [b EXCEPT !.manifest.records[i] = r]
    BY Zenon
  <2>4. d \in others => \/ d = [b EXCEPT !.manifestHash = <<"sha256">>]
                        \/ d = [b EXCEPT !.nodeSig = signRoot("node", <<"sha256">>)]
                        \/ d = [b EXCEPT !.nodePubkey = "another node"]
    BY Zenon
  <2> HIDE DEF drops, edits, others
  <2>5. d \in drops \/ d \in others \/ \E i \in DOMAIN rs : d \in edits(i)
    <3>1. d \in drops \/ d \in others \/ d \in UNION {edits(i) : i \in DOMAIN rs}
      BY <2>1, Zenon
    <3> QED
      BY <3>1, Zenon
  <2> QED
    BY <2>2, <2>3, <2>4, <2>5, Zenon
<1> QED
  BY <1>2, <1>3, <1>5, <1>6, <1>7, <1>8, Zenon

LEMMA DamageBundleStep == VaultInv /\ DamageBundle => VaultInv'
<1> SUFFICES ASSUME VaultInv, DamageBundle PROVE VaultInv'
  OBVIOUS
<1>1. /\ damage < MaxDamage /\ damage' = damage + 1
      /\ UNCHANGED <<sealingKey, hqKey, answerRows, committed, shown>>
  BY DEF DamageBundle
<1>2. PICK b \in bundles : \E d \in DamagedBundles(b) \ {b} :
        bundles' = bundles \cup {[d EXCEPT !.touched = TRUE]}
  BY DEF DamageBundle
<1> PICK d \in DamagedBundles(b) \ {b} : bundles' = bundles \cup {[d EXCEPT !.touched = TRUE]}
  BY <1>2
<1>3. PICK e : e = [d EXCEPT !.touched = TRUE]
  OBVIOUS
<1>4. /\ bundles \subseteq SyncBundles /\ \A c \in bundles : IF c.touched THEN Betrays(c) ELSE Exported(c)
      /\ shown # Nothing => \E c \in bundles, k \in Keys : shown = Verdict(c, k)
      /\ \A s \in answerRows : WasWritten(s)
  BY DEF VaultInv
<1>5. e \in SyncBundles /\ e.touched = TRUE /\ Betrays(e)
  BY <1>2, <1>3, <1>4, DamagedBundle
<1>6. bundles' = bundles \cup {e}
  BY <1>3
<1>7. bundles' \subseteq SyncBundles /\ \A c \in bundles' : IF c.touched THEN Betrays(c) ELSE Exported(c)
  BY <1>4, <1>5, <1>6
<1>8. \A c \in bundles' : (IF c.touched THEN Betrays(c) ELSE Exported(c))'
  BY <1>1, <1>7, WrittenStays
<1>9. \A s \in answerRows' : WasWritten(s)'
  BY <1>1, <1>4, WrittenStays
<1>10. shown' # Nothing => \E c \in bundles', k \in Keys : shown' = Verdict(c, k)
  BY <1>1, <1>4, <1>6
<1>11. damage \in 0..MaxDamage
  BY DEF VaultInv, VaultTypeOK
<1>12. damage' \in 0..MaxDamage
  BY <1>1, <1>11, VaultAssumption
<1>13. VaultTypeOK'
  BY <1>1, <1>12 DEF VaultInv, VaultTypeOK
<1> QED
  BY <1>1, <1>7, <1>8, <1>9, <1>10, <1>13 DEF VaultInv

LEMMA VaultInvStep == VaultInv /\ [VaultNext]_vaultVars => VaultInv'
<1> SUFFICES ASSUME VaultInv, [VaultNext]_vaultVars PROVE VaultInv'
  OBVIOUS
<1>1. ASSUME NEW k \in Keys \cup {NoKey}, ConfigureEdge(k) \/ ConfigurePortal(k) PROVE VaultInv'
  BY <1>1, ConfigureStep
<1>2. CASE Submit
  BY <1>2, SubmitStep
<1>3. CASE DamageRow
  BY <1>3, DamageRowStep
<1>4. CASE Export
  BY <1>4, ExportStep
<1>5. CASE DamageBundle
  BY <1>5, DamageBundleStep
<1>6. ASSUME NEW b \in bundles, Ingest(b) PROVE VaultInv'
  BY <1>6, IngestStep
<1>7. CASE UNCHANGED vaultVars
  <2>1. UNCHANGED <<sealingKey, hqKey, answerRows, committed, bundles, damage, shown>>
    BY <1>7 DEF vaultVars
  <2>2. VaultTypeOK'
    BY <2>1 DEF VaultInv, VaultTypeOK
  <2>3. \A s \in answerRows' : WasWritten(s)'
    BY <2>1, WrittenStays DEF VaultInv
  <2> QED
    BY <2>1, <2>2, <2>3, BundlesStay DEF VaultInv
<1> QED
  BY <1>1, <1>2, <1>3, <1>4, <1>5, <1>6, <1>7 DEF VaultNext

\* What was inserted commits to its own envelope, a row and a record of a bundle is what was
\* inserted but for what hashes to nothing, and a bundle that was damaged betrays it: in
\* every behaviour, whatever the keys, the number of records and of damaged fields.
THEOREM VaultInvariant == VaultSpec => []VaultInv
<1>1. VaultInit => VaultInv
  BY VaultInvInit
<1>2. VaultInv /\ [VaultNext]_vaultVars => VaultInv'
  BY VaultInvStep
<1> QED
  BY <1>1, <1>2, PTL DEF VaultSpec

\* A vault opens a bundle exactly if it is as the Edge signed it, its rows are those that
\* were inserted, chained from genesis, and all are sealed to the key in use; it then shows
\* the records as they were sealed, and the portal and its reference agree.
THEOREM VaultsAlwaysOpenWhatWasSealed == VaultSpec => []VaultsOpenWhatWasSealed
<1>1. VaultInv => VaultsOpenWhatWasSealed
  <2> SUFFICES ASSUME VaultInv, shown # Nothing PROVE VaultsOpenWhatWasSealed
    BY DEF VaultsOpenWhatWasSealed
  <2>1. PICK b \in bundles, k \in Keys : shown = Verdict(b, k)
    BY DEF VaultInv
  <2>2. InsertedSound /\ b \in SyncBundles /\ (IF b.touched THEN Betrays(b) ELSE Exported(b))
    BY DEF VaultInv, InsertedSound
  <2>3. shown.portal = ingestBundle(b, k) /\ shown.reference = ingest(b, k) /\ shown.of = b /\ shown.key = k
    BY <2>1 DEF Verdict
  <2>4. shown.portal.ok => Displayed = shown.portal.opened
    BY DEF Displayed
  <2> QED
    BY <2>2, <2>3, <2>4, VerdictRight DEF VaultsOpenWhatWasSealed
<1> QED
  BY <1>1, VaultInvariant, PTL
=============================================================================
