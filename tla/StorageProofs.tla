---------------------------- MODULE StorageProofs ----------------------------
(***************************************************************************)
(* Proofs about what a node keeps: the nodes it knows in the buckets of    *)
(* its routing table (RoutingTable), and the files of the logger on disk   *)
(* (LogArchive).                                                           *)
(***************************************************************************)
EXTENDS LogArchive, RoutingTable, SequenceTheorems, FiniteSetTheorems, WellFoundedInduction, TLAPS

-----------------------------------------------------------------------------
(* The routing table: slices of nodes.                                       *)

\* A set of numbers that is not empty has a smallest one.
LEMMA Smallest ==
    ASSUME NEW S \in SUBSET Nat, S # {}
    PROVE  \E n \in S : \A m \in S : n <= m
<1> DEFINE R == OpToRel(<, Nat)
<1>1. IsWellFoundedOn(R, Nat)
  BY NatLessThanWellFounded, Zenon
<1>2. \A a \in Nat, b \in Nat : a < b => <<a, b>> \in R
  BY DEF OpToRel
<1> HIDE DEF R
<1>3. PICK x \in S : \A y \in S : ~(<<y, x>> \in R)
  BY <1>1, WFMin, Zenon
<1>4. \A m \in S : ~(m < x)
  BY <1>2, <1>3, Zenon
<1> QED
  BY <1>4

\* CutOut takes the node out of a slice in which nobody is twice.
LEMMA CutOutIs ==
    ASSUME NEW s \in Seq(Distances), NEW n, IsInjective(s)
    PROVE  /\ CutOut(s, n) \in Seq(Distances)
           /\ Range(CutOut(s, n)) = Range(s) \ {n}
           /\ IsInjective(CutOut(s, n))
           /\ Len(CutOut(s, n)) = IF n \in Range(s) THEN Len(s) - 1 ELSE Len(s)
<1> DEFINE at == {i \in 1..Len(s) : s[i] = n}
<1>1. CASE at = {}
  <2>1. CutOut(s, n) = s
    BY <1>1 DEF CutOut
  <2>2. n \notin Range(s)
    BY <1>1 DEF Range
  <2> QED  BY <2>1, <2>2
<1>2. CASE at # {}
  <2> DEFINE k == CHOOSE i \in at : \A j \in at : i <= j
  <2>1. k \in at
    <3>1. at \in SUBSET Nat
      OBVIOUS
    <3> HIDE DEF at
    <3>2. \E i \in at : \A j \in at : i <= j
      BY <1>2, <3>1, Smallest
    <3> QED  BY <3>2
  <2>2. CutOut(s, n) = SubSeq(s, 1, k - 1) \o SubSeq(s, k + 1, Len(s))
    BY <1>2, Zenon DEF CutOut
  <2> HIDE DEF k
  <2> DEFINE a == SubSeq(s, 1, k - 1)
             b == SubSeq(s, k + 1, Len(s))
             r == a \o b
  <2>3. k \in 1..Len(s) /\ s[k] = n /\ Len(s) \in Nat
    BY <2>1
  <2>4. a \in Seq(Distances) /\ Len(a) = k - 1 /\ \A j \in 1..(k - 1) : a[j] = s[j]
    BY <2>3
  <2>5. b \in Seq(Distances) /\ Len(b) = Len(s) - k /\ \A j \in 1..(Len(s) - k) : b[j] = s[k + j]
    BY <2>3
  <2> HIDE DEF a, b
  <2>6. r \in Seq(Distances) /\ Len(r) = Len(s) - 1
    <3>0. a \in Seq(Distances) /\ b \in Seq(Distances)
      BY <2>4, <2>5, Zenon
    <3>1. r \in Seq(Distances)
      BY <3>0
    <3>2. Len(r) = Len(a) + Len(b)
      BY <3>0
    <3>3. Len(a) = k - 1 /\ Len(b) = Len(s) - k
      BY <2>4, <2>5, Zenon
    <3> QED  BY <3>1, <3>2, <3>3, <2>3
  <2>7. \A j \in 1..Len(r) : r[j] = IF j < k THEN s[j] ELSE s[j + 1]
    BY <2>3, <2>4, <2>5, <2>6
  <2> HIDE DEF r
  <2>8. \A i \in 1..Len(s), j \in 1..Len(s) : s[i] = s[j] => i = j
    BY DEF IsInjective
  <2>9. Range(r) = Range(s) \ {n}
    <3>1. ASSUME NEW x \in Range(r) PROVE x \in Range(s) /\ x # n
      <4>1. PICK j \in 1..Len(r) : x = r[j]
        BY <2>6 DEF Range
      <4>2. CASE j < k
        <5>1. j \in 1..Len(s) /\ j # k /\ r[j] = s[j]
          BY <2>3, <2>6, <2>7, <4>2
        <5> QED  BY <2>3, <2>8, <4>1, <5>1 DEF Range
      <4>3. CASE ~(j < k)
        <5>1. j + 1 \in 1..Len(s) /\ j + 1 # k /\ r[j] = s[j + 1]
          BY <2>3, <2>6, <2>7, <4>3
        <5> QED  BY <2>3, <2>8, <4>1, <5>1 DEF Range
      <4> QED  BY <4>2, <4>3, Zenon
    <3>2. ASSUME NEW x \in Range(s), x # n PROVE x \in Range(r)
      <4>1. PICK j \in 1..Len(s) : x = s[j]
        BY DEF Range
      <4>2. j # k
        BY <2>3, <3>2, <4>1
      <4>3. CASE j < k
        <5>1. j \in 1..Len(r) /\ r[j] = x
          BY <2>3, <2>6, <2>7, <4>1, <4>3
        <5> QED  BY <2>6, <5>1 DEF Range
      <4>4. CASE j > k
        <5>1. j - 1 \in 1..Len(r) /\ r[j - 1] = x
          BY <2>3, <2>6, <2>7, <4>1, <4>4
        <5> QED  BY <2>6, <5>1 DEF Range
      <4> QED  BY <2>3, <4>2, <4>3, <4>4
    <3> QED  BY <3>1, <3>2
  <2>10. IsInjective(r)
    <3> SUFFICES ASSUME NEW i \in 1..Len(r), NEW j \in 1..Len(r), r[i] = r[j]
                 PROVE  i = j
      BY <2>6 DEF IsInjective
    <3> DEFINE oi == IF i < k THEN i ELSE i + 1
               oj == IF j < k THEN j ELSE j + 1
    <3>1. oi \in 1..Len(s) /\ oj \in 1..Len(s) /\ r[i] = s[oi] /\ r[j] = s[oj]
      BY <2>3, <2>6, <2>7
    <3>2. oi = oj
      <4> HIDE DEF oi, oj
      <4> QED  BY <2>8, <3>1, Zenon
    <3> QED  BY <2>3, <2>6, <3>2
  <2>11. n \in Range(s)
    BY <2>3 DEF Range
  <2>12. CutOut(s, n) = r
    BY <2>2, Zenon DEF a, b, r
  <2> QED  BY <2>6, <2>9, <2>10, <2>11, <2>12, Zenon
<1> QED  BY <1>1, <1>2

\* A new node at the end of a slice.
LEMMA AppendIs ==
    ASSUME NEW r \in Seq(Distances), NEW n \in Distances, IsInjective(r), n \notin Range(r)
    PROVE  /\ Append(r, n) \in Seq(Distances)
           /\ Range(Append(r, n)) = Range(r) \cup {n}
           /\ IsInjective(Append(r, n))
           /\ Len(Append(r, n)) = Len(r) + 1
<1> DEFINE t == Append(r, n)
<1>1. t \in Seq(Distances) /\ Len(t) = Len(r) + 1 /\ \A j \in 1..Len(r) : t[j] = r[j]
  OBVIOUS
<1>2. t[Len(r) + 1] = n /\ Len(r) \in Nat
  OBVIOUS
<1> HIDE DEF t
<1>3. Range(t) = Range(r) \cup {n}
  <2>1. ASSUME NEW x \in Range(t) PROVE x \in Range(r) \cup {n}
    <3>1. PICK j \in 1..Len(t) : x = t[j]
      BY <1>1 DEF Range
    <3> QED  BY <1>1, <1>2, <3>1 DEF Range
  <2>2. ASSUME NEW x \in Range(r) PROVE x \in Range(t)
    BY <1>1, <1>2 DEF Range
  <2>3. n \in Range(t)
    BY <1>1, <1>2 DEF Range
  <2> QED  BY <2>1, <2>2, <2>3, Zenon
<1>4. IsInjective(t)
  <2> SUFFICES ASSUME NEW i \in 1..Len(t), NEW j \in 1..Len(t), t[i] = t[j]
               PROVE  i = j
    BY <1>1 DEF IsInjective
  <2>1. \A h \in 1..Len(r) : t[h] # n
    <3> SUFFICES ASSUME NEW h \in 1..Len(r) PROVE r[h] # n
      BY <1>1, Zenon
    <3>1. r[h] \in Range(r)
      BY DEF Range
    <3> QED  BY <3>1, Zenon
  <2>2. i \in 1..Len(r) /\ j \in 1..Len(r) => i = j
    BY <1>1 DEF IsInjective
  <2> QED  BY <1>1, <1>2, <2>1, <2>2
<1> QED  BY <1>1, <1>3, <1>4, Zenon DEF t

\* What moves to the tail stays in the slice, once.
LEMMA ToTailIs ==
    ASSUME NEW s \in Seq(Distances), NEW n \in Distances, IsInjective(s)
    PROVE  /\ ToTail(s, n) \in Seq(Distances)
           /\ Range(ToTail(s, n)) = Range(s) \cup {n}
           /\ IsInjective(ToTail(s, n))
           /\ Len(ToTail(s, n)) = IF n \in Range(s) THEN Len(s) ELSE Len(s) + 1
<1> DEFINE r == CutOut(s, n)
<1>1. r \in Seq(Distances) /\ Range(r) = Range(s) \ {n} /\ IsInjective(r)
  BY CutOutIs
<1>2. Len(r) = IF n \in Range(s) THEN Len(s) - 1 ELSE Len(s)
  BY CutOutIs
<1>3. ToTail(s, n) = Append(r, n)
  BY DEF ToTail
<1> HIDE DEF r
<1>4. n \notin Range(r)
  BY <1>1
<1>5. Append(r, n) \in Seq(Distances) /\ IsInjective(Append(r, n)) /\ Len(Append(r, n)) = Len(r) + 1
  BY <1>1, <1>4, AppendIs, Zenon
<1>6. Range(Append(r, n)) = Range(s) \cup {n}
  <2>1. Range(Append(r, n)) = Range(r) \cup {n}
    BY <1>1, <1>4, AppendIs
  <2> QED  BY <1>1, <2>1, Zenon
<1>7. Len(s) \in Nat
  OBVIOUS
<1> QED  BY <1>2, <1>3, <1>5, <1>6, <1>7

\* f has taken the nodes of s that are in S, up to each of the first n.
Takes(s, S, f, n) ==
    f = [i \in 0..n |->
           IF i = 0 THEN <<>> ELSE IF s[i] \in S THEN Append(f[i - 1], s[i]) ELSE f[i - 1]]

\* One more node.
LEMMA TakesOne ==
    ASSUME NEW s \in Seq(Distances), NEW S, NEW m \in 1..Len(s), NEW g, Takes(s, S, g, m - 1)
    PROVE  \E f : Takes(s, S, f, m)
<1> DEFINE f == [i \in 0..m |-> IF i < m THEN g[i]
                                ELSE IF s[m] \in S THEN Append(g[m - 1], s[m]) ELSE g[m - 1]]
<1>1. m \in Nat \ {0}
  OBVIOUS
<1>2. \A i \in 0..(m - 1) : g[i] = IF i = 0 THEN <<>>
                                   ELSE IF s[i] \in S THEN Append(g[i - 1], s[i]) ELSE g[i - 1]
  BY <1>1, Zenon DEF Takes
<1>3. ASSUME NEW i \in 0..m
      PROVE  f[i] = IF i = 0 THEN <<>> ELSE IF s[i] \in S THEN Append(f[i - 1], s[i]) ELSE f[i - 1]
  <2>1. CASE i = 0
    <3>1. g[0] = <<>>
      BY <1>1, <1>2
    <3> QED  BY <1>1, <2>1, <3>1
  <2>2. CASE i # 0 /\ i < m
    <3>1. i \in 0..(m - 1)
      BY <1>1, <2>2
    <3>2. g[i] = IF s[i] \in S THEN Append(g[i - 1], s[i]) ELSE g[i - 1]
      BY <1>2, <2>2, <3>1, Zenon
    <3>3. f[i] = g[i] /\ f[i - 1] = g[i - 1]
      BY <1>1, <2>2
    <3> HIDE DEF f
    <3> QED  BY <2>2, <3>2, <3>3
  <2>3. CASE i = m
    <3>1. f[i] = IF s[m] \in S THEN Append(g[m - 1], s[m]) ELSE g[m - 1]
      BY <1>1, <2>3
    <3>2. f[i - 1] = g[m - 1]
      BY <1>1, <2>3
    <3> HIDE DEF f
    <3> QED  BY <1>1, <2>3, <3>1, <3>2, Zenon
  <2> QED  BY <1>1, <2>1, <2>2, <2>3
<1>4. Takes(s, S, f, m)
  <2>1. f = [i \in 0..m |-> f[i]]
    OBVIOUS
  <2> HIDE DEF f
  <2> QED  BY <1>3, <2>1, Zenon DEF Takes
<1> HIDE DEF f
<1> QED  BY <1>4, Zenon

\* The split takes the nodes one by one.
LEMMA AmongTakes ==
    ASSUME NEW s \in Seq(Distances), NEW S
    PROVE  \E f : Takes(s, S, f, Len(s)) /\ Among(s, S) = f[Len(s)]
<1> DEFINE bad == {n \in 0..Len(s) : ~\E f : Takes(s, S, f, n)}
<1>1. bad = {}
  <2> SUFFICES ASSUME bad # {} PROVE FALSE
    OBVIOUS
  <2>1. bad \in SUBSET Nat
    OBVIOUS
  <2>2. PICK m \in bad : \A k \in bad : m <= k
    <3> HIDE DEF bad
    <3> QED  BY <2>1, Smallest
  <2>3. m \in 0..Len(s) /\ ~\E f : Takes(s, S, f, m)
    BY <2>2, Zenon
  <2>4. m # 0
    <3>1. Takes(s, S, [i \in 0..0 |-> <<>>], 0)
      BY DEF Takes
    <3> QED  BY <2>3, <3>1, Zenon
  <2>5. m \in 1..Len(s) /\ m - 1 \in 0..Len(s)
    BY <2>3, <2>4
  <2>6. m - 1 \notin bad
    <3> HIDE DEF bad
    <3> QED  BY <2>2, <2>5
  <2>7. \E g : Takes(s, S, g, m - 1)
    BY <2>5, <2>6, Zenon
  <2> QED  BY <2>3, <2>5, <2>7, TakesOne, Zenon
<1>2. Len(s) \in 0..Len(s)
  OBVIOUS
<1>3. \E f : Takes(s, S, f, Len(s))
  BY <1>1, <1>2, Zenon
<1> DEFINE taken == CHOOSE f : Takes(s, S, f, Len(s))
<1>4. Takes(s, S, taken, Len(s))
  BY <1>3, Zenon
<1>5. Among(s, S) = taken[Len(s)]
  BY Zenon DEF Among, Takes
<1> HIDE DEF taken
<1> QED  BY <1>4, <1>5, Zenon

\* What the split takes: the nodes in S, each once.
LEMMA AmongIs ==
    ASSUME NEW s \in Seq(Distances), NEW S, IsInjective(s)
    PROVE  /\ Among(s, S) \in Seq(Distances)
           /\ Range(Among(s, S)) = Range(s) \cap S
           /\ IsInjective(Among(s, S))
           /\ Len(Among(s, S)) <= Len(s)
<1>1. PICK f : Takes(s, S, f, Len(s)) /\ Among(s, S) = f[Len(s)]
  BY AmongTakes, Zenon
<1>2. Len(s) \in Nat /\ DOMAIN s = 1..Len(s) /\ \A j \in 1..Len(s) : s[j] \in Distances
  OBVIOUS
<1>3. f[0] = <<>>
  BY <1>1, <1>2 DEF Takes
<1>4. \A i \in 1..Len(s) : f[i] = IF s[i] \in S THEN Append(f[i - 1], s[i]) ELSE f[i - 1]
  <2> SUFFICES ASSUME NEW i \in 1..Len(s)
               PROVE  f[i] = IF s[i] \in S THEN Append(f[i - 1], s[i]) ELSE f[i - 1]
    OBVIOUS
  <2>1. i \in 0..Len(s) /\ i # 0
    OBVIOUS
  <2> QED  BY <1>1, <2>1, Zenon DEF Takes
<1>5. \A i \in 1..Len(s), j \in 1..Len(s) : s[i] = s[j] => i = j
  BY DEF IsInjective
<1> DEFINE Upto(i) == {s[j] : j \in 1..i}
           Right(i) == /\ f[i] \in Seq(Distances) /\ Len(f[i]) <= i
                       /\ IsInjective(f[i]) /\ Range(f[i]) = Upto(i) \cap S
           bad == {i \in 0..Len(s) : ~Right(i)}
<1>6. Right(0)
  <2>1. <<>> \in Seq(Distances) /\ Len(<<>>) <= 0
    OBVIOUS
  <2>2. Upto(0) = {}
    OBVIOUS
  <2>3. IsInjective(<<>>) /\ Range(<<>>) = {}
    BY DEF IsInjective, Range
  <2> QED  BY <1>3, <2>1, <2>2, <2>3, Zenon
<1>7. ASSUME NEW i \in 1..Len(s), Right(i - 1) PROVE Right(i)
  <2>1. Upto(i) = Upto(i - 1) \cup {s[i]}
    BY <1>2
  <2>2. s[i] \notin Upto(i - 1)
    BY <1>2, <1>5
  <2>3. f[i - 1] \in Seq(Distances) /\ Len(f[i - 1]) <= i - 1 /\ IsInjective(f[i - 1])
    BY <1>7, Zenon
  <2>4. Range(f[i - 1]) = Upto(i - 1) \cap S
    BY <1>7
  <2>5. s[i] \in Distances /\ i \in Nat /\ Len(f[i - 1]) \in Nat
    BY <1>2, <2>3
  <2> HIDE DEF Upto
  <2>6. CASE s[i] \in S
    <3>1. s[i] \notin Range(f[i - 1])
      BY <2>2, <2>4
    <3>2. f[i] = Append(f[i - 1], s[i])
      BY <1>4, <2>6, Zenon
    <3>3. f[i] \in Seq(Distances) /\ Len(f[i]) = Len(f[i - 1]) + 1 /\ IsInjective(f[i])
      BY <2>3, <2>5, <3>1, <3>2, AppendIs
    <3>4. Range(f[i]) = Range(f[i - 1]) \cup {s[i]}
      BY <2>3, <2>5, <3>1, <3>2, AppendIs, Zenon
    <3>5. Len(f[i]) <= i
      BY <2>3, <2>5, <3>3
    <3>6. Range(f[i]) = Upto(i) \cap S
      BY <2>1, <2>4, <2>6, <3>4, Zenon
    <3> QED  BY <3>3, <3>5, <3>6
  <2>7. CASE s[i] \notin S
    <3>1. f[i] = f[i - 1]
      BY <1>4, <2>7, Zenon
    <3>2. Len(f[i]) <= i
      BY <2>3, <2>5, <3>1
    <3>3. Range(f[i]) = Upto(i) \cap S
      BY <2>1, <2>4, <2>7, <3>1
    <3> QED  BY <2>3, <3>1, <3>2, <3>3, Zenon
  <2> QED  BY <2>6, <2>7, Zenon
<1>8. bad = {}
  <2> SUFFICES ASSUME bad # {} PROVE FALSE
    BY Zenon
  <2> HIDE DEF Right
  <2>1. bad \in SUBSET Nat
    OBVIOUS
  <2>2. PICK m \in bad : \A k \in bad : m <= k
    <3> HIDE DEF bad
    <3> QED  BY <2>1, Smallest
  <2>3. m \in 0..Len(s) /\ ~Right(m)
    BY <2>2, Zenon
  <2>4. m \in 1..Len(s) /\ m - 1 \in 0..Len(s)
    BY <1>2, <1>6, <2>3
  <2>5. m - 1 \notin bad
    <3> HIDE DEF bad
    <3> QED  BY <2>2, <2>4
  <2>6. Right(m - 1)
    BY <2>4, <2>5, Zenon
  <2> QED  BY <1>7, <2>3, <2>4, <2>6, Zenon
<1>9. Right(Len(s))
  <2> HIDE DEF Right
  <2>1. Len(s) \in 0..Len(s)
    BY <1>2
  <2> QED  BY <1>8, <2>1, Zenon
<1>10. Upto(Len(s)) = Range(s)
  BY <1>2 DEF Range
<1> QED  BY <1>1, <1>9, <1>10

-----------------------------------------------------------------------------
(* The ranges of the buckets.                                                *)

BucketState == [sl : Nat, el : Nat, nodes : Seq(Distances), cache : Seq(Distances)]

\* The buckets follow one another and cover the space.
RangesFollow(bs) ==
    /\ bs \in Seq(BucketState) /\ Len(bs) >= 1
    /\ bs[1].sl = 0 /\ bs[Len(bs)].el = MaxDistance
    /\ \A i \in 1..Len(bs) : bs[i].sl <= bs[i].el
    /\ \A i \in 2..Len(bs) : bs[i].sl = bs[i - 1].el + 1

LEMMA RangeNumbers ==
    ASSUME NEW bs, RangesFollow(bs)
    PROVE  Len(bs) \in Nat /\ \A k \in 1..Len(bs) : bs[k].sl \in Nat /\ bs[k].el \in Nat
<1>1. bs \in Seq(BucketState)
  BY DEF RangesFollow
<1>2. Len(bs) \in Nat /\ \A k \in 1..Len(bs) : bs[k] \in BucketState
  BY <1>1
<1> QED  BY <1>2, Zenon DEF BucketState

\* Two buckets have no distance in common.
LEMMA RangesApart ==
    ASSUME NEW bs, RangesFollow(bs), NEW i \in 1..Len(bs), NEW j \in 1..Len(bs), i < j
    PROVE  bs[i].el < bs[j].sl
<1> DEFINE bad == {k \in 1..Len(bs) : i < k /\ ~(bs[i].el < bs[k].sl)}
<1>1. Len(bs) \in Nat /\ \A k \in 1..Len(bs) : bs[k].sl \in Nat /\ bs[k].el \in Nat
  BY RangeNumbers, Zenon
<1>2. bad = {}
  <2> SUFFICES ASSUME bad # {} PROVE FALSE
    OBVIOUS
  <2>1. bad \in SUBSET Nat
    BY <1>1
  <2>2. PICK m \in bad : \A k \in bad : m <= k
    <3> HIDE DEF bad
    <3> QED  BY <2>1, Smallest
  <2>3. m \in 1..Len(bs) /\ i < m /\ ~(bs[i].el < bs[m].sl)
    BY <2>2, Zenon
  <2>4. bs[m].sl = bs[m - 1].el + 1
    BY <1>1, <2>3 DEF RangesFollow
  <2>5. m - 1 # i /\ m - 1 \in 1..Len(bs) /\ i < m - 1
    BY <1>1, <2>3, <2>4
  <2>6. m - 1 \notin bad
    <3> HIDE DEF bad
    <3> QED  BY <1>1, <2>2, <2>3, <2>5
  <2>7. bs[i].el < bs[m - 1].sl
    BY <2>5, <2>6, Zenon
  <2>8. bs[m - 1].sl <= bs[m - 1].el
    BY <2>5, Zenon DEF RangesFollow
  <2>9. bs[i].el \in Nat /\ bs[m].sl \in Nat /\ bs[m - 1].sl \in Nat /\ bs[m - 1].el \in Nat
    BY <1>1, <2>3, <2>5, Zenon
  <2>10. ~(bs[i].el < bs[m].sl)
    BY <2>3, Zenon
  <2>11. \A v \in Nat, w \in Nat, x \in Nat, y \in Nat : v < x /\ x <= y /\ w = y + 1 => v < w
    OBVIOUS
  <2> QED  BY <2>4, <2>7, <2>8, <2>9, <2>10, <2>11, Zenon
<1> QED  BY <1>2

InRange(b, n) == b.sl <= n /\ n <= b.el

\* Every distance has a bucket (findBucketIndex).
LEMMA RangesCover ==
    ASSUME NEW bs, RangesFollow(bs), NEW n \in Distances
    PROVE  \E i \in 1..Len(bs) : InRange(bs[i], n)
<1> DEFINE at == {i \in 1..Len(bs) : n <= bs[i].el}
<1>1. Len(bs) \in Nat /\ \A k \in 1..Len(bs) : bs[k].sl \in Nat /\ bs[k].el \in Nat
  BY RangeNumbers
<1>2. n \in Nat /\ n <= MaxDistance
  BY RtAssumption
<1>3. Len(bs) \in at
  BY <1>1, <1>2 DEF RangesFollow
<1>4. at \in SUBSET Nat
  BY <1>1
<1>5. PICK m \in at : \A k \in at : m <= k
  <2> HIDE DEF at
  <2> QED  BY <1>3, <1>4, Smallest, Zenon
<1>6. bs[m].sl <= n
  <2>1. CASE m = 1
    BY <1>2, <2>1 DEF RangesFollow
  <2>2. CASE m # 1
    <3>1. m - 1 \in 1..Len(bs) /\ m \in 2..Len(bs) /\ m - 1 \notin at
      BY <1>1, <1>5, <2>2
    <3>2. bs[m].sl = bs[m - 1].el + 1
      BY <3>1, Zenon DEF RangesFollow
    <3> QED  BY <1>1, <1>2, <3>1, <3>2
  <2> QED  BY <2>1, <2>2, Zenon
<1> QED  BY <1>5, <1>6, Zenon DEF InRange

\* ... and only one.
LEMMA OneRange ==
    ASSUME NEW bs, RangesFollow(bs), NEW n \in Distances,
           NEW i \in 1..Len(bs), NEW j \in 1..Len(bs), InRange(bs[i], n), InRange(bs[j], n)
    PROVE  i = j
<1>1. bs[i].sl \in Nat /\ bs[i].el \in Nat /\ bs[j].sl \in Nat /\ bs[j].el \in Nat /\ Len(bs) \in Nat
  BY RangeNumbers
<1>2. n \in Nat
  BY RtAssumption
<1>3. ~(i < j)
  BY <1>1, <1>2, RangesApart DEF InRange
<1>4. ~(j < i)
  BY <1>1, <1>2, RangesApart DEF InRange
<1> QED  BY <1>1, <1>3, <1>4

LEMMA IndexOfIs ==
    ASSUME RangesFollow(buckets), NEW n \in Distances
    PROVE  IndexOf(n) \in 1..Len(buckets) /\ InRange(buckets[IndexOf(n)], n)
<1>1. \E i \in 1..Len(buckets) : buckets[i].sl <= n /\ n <= buckets[i].el
  BY RangesCover, Zenon DEF InRange
<1> QED  BY <1>1, Zenon DEF IndexOf, InRange

-----------------------------------------------------------------------------
(* The routing table: the invariant.                                         *)

HealthState == [stale : BOOLEAN, fails : Nat]
MaintState ==
    [pc : {"idle", "next", "probe", "replace"}, todo : Seq(Nat \X Nat), node : Distances \cup {-1},
     same : BOOLEAN, fails : Nat, bucket : Nat]

NodesInPlace(b) ==
    /\ Len(b.nodes) <= maxSize /\ IsInjective(b.nodes)
    /\ \A n \in Range(b.nodes) : InRange(b, n)

TableGood(bs) ==
    /\ RangesFollow(bs)
    /\ \A i \in 1..Len(bs) : NodesInPlace(bs[i]) /\ bs[i].cache = <<>>

HasNode(bs, n) == \E i \in 1..Len(bs) : n \in Range(bs[i].nodes)

RtTypeOK ==
    /\ health \in [Distances -> HealthState] /\ missed \in [Distances -> Nat]
    /\ maint \in MaintState

\* The failures on record are probes missed since the node was last heard of;
\* nothing is on record of a node that is not in the table.
FailuresTrue ==
    \A n \in Distances : health[n].fails <= missed[n] /\ (~HasNode(buckets, n) => health[n].fails = 0)

\* Maintenance holds a bucket and its node; the count it took before the
\* probe is still true if nothing was heard of the node since.
ProbeTrue ==
    maint.pc = "probe" =>
        /\ maint.node \in Distances /\ maint.bucket \in 1..Len(buckets)
        /\ maint.node \in Range(buckets[maint.bucket].nodes)
        /\ maint.same => maint.fails <= missed[maint.node]

DropTrue ==
    maint.pc = "replace" =>
        /\ maint.node \in Distances /\ maint.bucket \in 1..Len(buckets)
        /\ ~HasNode(buckets, maint.node)
        /\ missed[maint.node] >= RemoveAfterFailures

\* The members are the nodes of the buckets.
MembersTrue == members \subseteq Distances /\ \A n \in Distances : n \in members <=> HasNode(buckets, n)

RtInv == TableGood(buckets) /\ RtTypeOK /\ FailuresTrue /\ ProbeTrue /\ DropTrue /\ MembersTrue

\* A bucket of the table: its fields, its nodes.
LEMMA BucketFacts ==
    ASSUME NEW bs, TableGood(bs), NEW i \in 1..Len(bs)
    PROVE  /\ bs \in Seq(BucketState) /\ Len(bs) \in Nat /\ bs[i] \in BucketState
           /\ bs[i].nodes \in Seq(Distances) /\ IsInjective(bs[i].nodes)
           /\ Len(bs[i].nodes) <= maxSize /\ Len(bs[i].nodes) \in Nat
           /\ bs[i].sl \in Nat /\ bs[i].el \in Nat /\ bs[i].cache = <<>>
           /\ \A n \in Range(bs[i].nodes) : n \in Distances /\ InRange(bs[i], n)
<1>1. bs \in Seq(BucketState) /\ NodesInPlace(bs[i]) /\ bs[i].cache = <<>>
  BY Zenon DEF TableGood, RangesFollow
<1>2. bs[i] \in BucketState /\ Len(bs) \in Nat
  BY <1>1
<1>3. bs[i].nodes \in Seq(Distances) /\ bs[i].sl \in Nat /\ bs[i].el \in Nat
  BY <1>2, Zenon DEF BucketState
<1>4. \A n \in Range(bs[i].nodes) : n \in Distances
  BY <1>3 DEF Range
<1> QED  BY <1>1, <1>2, <1>3, <1>4 DEF NodesInPlace

\* A node is in the bucket of its distance, or nowhere.
LEMMA NodeInItsBucket ==
    ASSUME NEW bs, TableGood(bs), NEW n \in Distances, NEW i \in 1..Len(bs), InRange(bs[i], n)
    PROVE  HasNode(bs, n) <=> n \in Range(bs[i].nodes)
<1>1. ASSUME NEW j \in 1..Len(bs), n \in Range(bs[j].nodes) PROVE i = j
  <2>1. InRange(bs[j], n)
    BY <1>1, BucketFacts, Zenon
  <2> QED  BY <2>1, OneRange, Zenon DEF TableGood
<1> QED  BY <1>1, Zenon DEF HasNode

\* The nodes of one bucket are replaced.
WithNodes(bs, i, s) == [bs EXCEPT ![i].nodes = s]

LEMMA NodesReplaced ==
    ASSUME NEW bs, TableGood(bs), NEW i \in 1..Len(bs), NEW s \in Seq(Distances),
           IsInjective(s), Len(s) <= maxSize, \A n \in Range(s) : InRange(bs[i], n)
    PROVE  LET cs == WithNodes(bs, i, s) IN
           /\ TableGood(cs) /\ Len(cs) = Len(bs) /\ cs[i].nodes = s
           /\ \A j \in 1..Len(bs) : j # i => cs[j] = bs[j]
<1> DEFINE cs == WithNodes(bs, i, s)
           b == [bs[i] EXCEPT !.nodes = s]
<1>1. bs \in Seq(BucketState) /\ Len(bs) \in Nat /\ bs[i] \in BucketState /\ bs[i].cache = <<>>
  BY BucketFacts
<1>2. b \in BucketState /\ b.sl = bs[i].sl /\ b.el = bs[i].el /\ b.nodes = s /\ b.cache = <<>>
  <2>1. b.sl = bs[i].sl /\ b.el = bs[i].el /\ b.nodes = s /\ b.cache = bs[i].cache
    BY <1>1 DEF BucketState
  <2>2. \A c \in BucketState : [c EXCEPT !.nodes = s] \in BucketState
    BY Zenon DEF BucketState
  <2>3. b \in BucketState
    BY <1>1, <2>2
  <2> QED  BY <1>1, <2>1, <2>3, Zenon
<1>3. cs = [bs EXCEPT ![i] = b]
  BY Zenon DEF WithNodes
<1> HIDE DEF b, cs
<1>4. cs \in Seq(BucketState) /\ Len(cs) = Len(bs)
  BY <1>1, <1>2, <1>3
<1>5. cs[i] = b /\ \A j \in 1..Len(bs) : j # i => cs[j] = bs[j]
  BY <1>1, <1>3
<1>6. \A j \in 1..Len(bs) : cs[j].sl = bs[j].sl /\ cs[j].el = bs[j].el
  BY <1>2, <1>5
<1>7. RangesFollow(cs)
  <2>1. \A j \in 2..Len(bs) : cs[j].sl = cs[j - 1].el + 1
    <3> SUFFICES ASSUME NEW j \in 2..Len(bs) PROVE cs[j].sl = cs[j - 1].el + 1
      BY Zenon
    <3>1. j \in 1..Len(bs) /\ j - 1 \in 1..Len(bs)
      BY <1>1
    <3>2. bs[j].sl = bs[j - 1].el + 1
      BY Zenon DEF TableGood, RangesFollow
    <3> QED  BY <1>6, <3>1, <3>2, Zenon
  <2>2. cs[1].sl = 0 /\ cs[Len(bs)].el = MaxDistance /\ Len(bs) >= 1
    BY <1>1, <1>6 DEF TableGood, RangesFollow
  <2>3. \A j \in 1..Len(bs) : cs[j].sl <= cs[j].el
    BY <1>6, Zenon DEF TableGood, RangesFollow
  <2> QED  BY <1>4, <2>1, <2>2, <2>3, Zenon DEF RangesFollow
<1>8. ASSUME NEW j \in 1..Len(bs) PROVE NodesInPlace(cs[j]) /\ cs[j].cache = <<>>
  <2>1. CASE j = i
    <3>1. \A n \in Range(s) : InRange(b, n)
      BY <1>2, Zenon DEF InRange
    <3> QED  BY <1>2, <1>5, <2>1, <3>1, Zenon DEF NodesInPlace
  <2>2. CASE j # i
    BY <1>5, <2>2, Zenon DEF TableGood
  <2> QED  BY <2>1, <2>2, Zenon
<1>9. TableGood(cs)
  BY <1>4, <1>7, <1>8, Zenon DEF TableGood
<1> QED  BY <1>2, <1>4, <1>5, <1>9, Zenon DEF cs

-----------------------------------------------------------------------------
(* The split of a bucket.                                                    *)

\* The halves: the nodes of each are the ones in its range.
LEMMA HalvesAre ==
    ASSUME NEW b \in BucketState, b.sl < b.el, NodesInPlace(b)
    PROVE  LET h == Halves(b) IN
           /\ Len(h) = 2 /\ h[1] \in BucketState /\ h[2] \in BucketState
           /\ h[1].sl = b.sl /\ h[2].el = b.el /\ h[2].sl = h[1].el + 1
           /\ h[1].sl <= h[1].el /\ h[2].sl <= h[2].el
           /\ h[1].cache = <<>> /\ h[2].cache = <<>>
           /\ NodesInPlace(h[1]) /\ NodesInPlace(h[2])
           /\ \A n : n \in Range(b.nodes) <=> n \in Range(h[1].nodes) \/ n \in Range(h[2].nodes)
<1> DEFINE mid == (b.sl + b.el) \div 2
           L == {x \in Distances : x <= mid}
           R == {x \in Distances : x > mid}
           s1 == Among(b.nodes, L)
           s2 == Among(b.nodes, R)
           h1 == NewBucket(b.sl, mid, s1)
           h2 == NewBucket(mid + 1, b.el, s2)
<1>1. Halves(b) = <<h1, h2>>
  BY Zenon DEF Halves
<1>2. /\ b.sl \in Nat /\ b.el \in Nat /\ b.nodes \in Seq(Distances) /\ Len(b.nodes) \in Nat
      /\ IsInjective(b.nodes) /\ Len(b.nodes) <= maxSize /\ \A n \in Range(b.nodes) : InRange(b, n)
  BY DEF BucketState, NodesInPlace
<1>3. mid \in Nat /\ b.sl <= mid /\ mid < b.el
  BY <1>2
<1> HIDE DEF mid, L, R
<1>4. s1 \in Seq(Distances) /\ Range(s1) = Range(b.nodes) \cap L /\ IsInjective(s1) /\ Len(s1) <= Len(b.nodes)
  BY <1>2, AmongIs, Zenon
<1>5. s2 \in Seq(Distances) /\ Range(s2) = Range(b.nodes) \cap R /\ IsInjective(s2) /\ Len(s2) <= Len(b.nodes)
  BY <1>2, AmongIs, Zenon
<1> HIDE DEF s1, s2
<1>6. Len(s1) \in Nat /\ Len(s2) \in Nat /\ maxSize \in Nat
  BY <1>4, <1>5, RtAssumption
<1>7. h1 \in BucketState /\ h1.sl = b.sl /\ h1.el = mid /\ h1.nodes = s1 /\ h1.cache = <<>>
  BY <1>2, <1>3, <1>4 DEF NewBucket, BucketState
<1>8. h2 \in BucketState /\ h2.sl = mid + 1 /\ h2.el = b.el /\ h2.nodes = s2 /\ h2.cache = <<>>
  BY <1>2, <1>3, <1>5 DEF NewBucket, BucketState
<1> HIDE DEF h1, h2
<1>9. \A n \in Range(b.nodes) : n \in Distances /\ n \in Nat /\ b.sl <= n /\ n <= b.el
  <2>1. \A n \in Range(b.nodes) : n \in Distances
    BY <1>2 DEF Range
  <2>2. \A n \in Distances : n \in Nat
    BY RtAssumption
  <2> QED  BY <1>2, <2>1, <2>2, Zenon DEF InRange
<1>10. NodesInPlace(h1)
  <2>1. \A n \in Range(s1) : b.sl <= n /\ n <= mid
    BY <1>4, <1>9 DEF L
  <2>2. Len(s1) <= maxSize
    BY <1>2, <1>4, <1>6
  <2> QED  BY <1>4, <1>7, <2>1, <2>2, Zenon DEF NodesInPlace, InRange
<1>11. NodesInPlace(h2)
  <2>1. \A n \in Range(s2) : mid + 1 <= n /\ n <= b.el
    BY <1>3, <1>5, <1>9 DEF R
  <2>2. Len(s2) <= maxSize
    BY <1>2, <1>5, <1>6
  <2> QED  BY <1>5, <1>8, <2>1, <2>2, Zenon DEF NodesInPlace, InRange
<1>12. \A n : n \in Range(b.nodes) <=> n \in Range(s1) \/ n \in Range(s2)
  <2>1. \A n \in Range(b.nodes) : n \in Range(s1) \/ n \in Range(s2)
    BY <1>3, <1>4, <1>5, <1>9 DEF L, R
  <2> QED  BY <1>4, <1>5, <2>1, Zenon
<1>13. <<h1, h2>>[1] = h1 /\ <<h1, h2>>[2] = h2 /\ Len(<<h1, h2>>) = 2
  OBVIOUS
<1> QED  BY <1>1, <1>2, <1>3, <1>7, <1>8, <1>10, <1>11, <1>12, <1>13

\* The place of every bucket after a split.
Spliced(bs, i, h) == SubSeq(bs, 1, i - 1) \o h \o SubSeq(bs, i + 1, Len(bs))

LEMMA SplitPlaces ==
    ASSUME NEW bs \in Seq(BucketState), NEW i \in 1..Len(bs), NEW h \in Seq(BucketState), Len(h) = 2
    PROVE  LET cs == Spliced(bs, i, h) IN
           /\ cs \in Seq(BucketState) /\ Len(cs) = Len(bs) + 1
           /\ cs[i] = h[1] /\ cs[i + 1] = h[2]
           /\ \A j \in 1..(i - 1) : cs[j] = bs[j]
           /\ \A j \in (i + 2)..(Len(bs) + 1) : cs[j] = bs[j - 1]
<1> DEFINE a == SubSeq(bs, 1, i - 1)
           d == SubSeq(bs, i + 1, Len(bs))
           p == a \o h
           cs == p \o d
<1>1. Len(bs) \in Nat /\ i \in Nat /\ i >= 1 /\ i <= Len(bs)
  OBVIOUS
<1>2. a \in Seq(BucketState) /\ Len(a) = i - 1 /\ \A j \in 1..(i - 1) : a[j] = bs[j]
  BY <1>1
<1>3. d \in Seq(BucketState) /\ Len(d) = Len(bs) - i /\ \A j \in 1..(Len(bs) - i) : d[j] = bs[i + j]
  BY <1>1
<1> HIDE DEF a, d
<1>4. p \in Seq(BucketState) /\ Len(p) = i + 1
  <2>1. p \in Seq(BucketState)
    BY <1>2, ConcatProperties, Zenon
  <2>2. Len(p) = Len(a) + Len(h)
    BY <1>2, ConcatProperties, Zenon
  <2> QED  BY <1>1, <1>2, <2>1, <2>2
<1>5. p[i] = h[1] /\ p[i + 1] = h[2] /\ \A j \in 1..(i - 1) : p[j] = bs[j]
  <2>1. \A j \in 1..Len(p) : p[j] = IF j <= Len(a) THEN a[j] ELSE h[j - Len(a)]
    BY <1>2, <1>4
  <2> HIDE DEF p
  <2>2. i \in 1..Len(p) /\ i + 1 \in 1..Len(p) /\ i - Len(a) = 1 /\ (i + 1) - Len(a) = 2
    BY <1>1, <1>2, <1>4
  <2>3. ~(i <= Len(a)) /\ ~(i + 1 <= Len(a))
    BY <1>1, <1>2
  <2>4. p[i] = h[1] /\ p[i + 1] = h[2]
    BY <2>1, <2>2, <2>3, Zenon
  <2>5. ASSUME NEW j \in 1..(i - 1) PROVE p[j] = bs[j]
    BY <1>1, <1>2, <1>4, <2>1
  <2> QED  BY <2>4, <2>5
<1> HIDE DEF p
<1>6. cs \in Seq(BucketState) /\ Len(cs) = Len(bs) + 1
  <2>1. cs \in Seq(BucketState)
    BY <1>3, <1>4, ConcatProperties, Zenon
  <2>2. Len(cs) = Len(p) + Len(d)
    BY <1>3, <1>4, ConcatProperties, Zenon
  <2> QED  BY <1>1, <1>3, <1>4, <2>1, <2>2
<1>7. \A j \in 1..(i + 1) : cs[j] = p[j]
  BY <1>1, <1>3, <1>4
<1>8. \A j \in (i + 2)..(Len(bs) + 1) : cs[j] = d[j - (i + 1)]
  BY <1>1, <1>3, <1>4
<1> HIDE DEF cs
<1>9. \A j \in (i + 2)..(Len(bs) + 1) : cs[j] = bs[j - 1]
  <2> SUFFICES ASSUME NEW j \in (i + 2)..(Len(bs) + 1) PROVE cs[j] = bs[j - 1]
    OBVIOUS
  <2>1. j - (i + 1) \in 1..(Len(bs) - i) /\ i + (j - (i + 1)) = j - 1
    BY <1>1
  <2>2. d[j - (i + 1)] = bs[i + (j - (i + 1))]
    BY <1>3, <2>1, Zenon
  <2> QED  BY <1>8, <2>1, <2>2, Zenon
<1>10. cs[i] = h[1] /\ cs[i + 1] = h[2] /\ \A j \in 1..(i - 1) : cs[j] = bs[j]
  BY <1>1, <1>5, <1>7
<1> QED  BY <1>6, <1>9, <1>10, Zenon DEF cs, p, a, d, Spliced

\* The table cs is bs with the halves h of the bucket b in the place of bucket i.
SplitOf(bs, i, b, h, cs) ==
    /\ TableGood(bs) /\ i \in 1..Len(bs) /\ b \in BucketState
    /\ b.sl = bs[i].sl /\ b.el = bs[i].el /\ b.sl < b.el /\ NodesInPlace(b)
    /\ h = Halves(b) /\ cs \in Seq(BucketState) /\ Len(cs) = Len(bs) + 1
    /\ cs[i] = h[1] /\ cs[i + 1] = h[2]
    /\ \A j \in 1..(i - 1) : cs[j] = bs[j]
    /\ \A j \in (i + 2)..(Len(bs) + 1) : cs[j] = bs[j - 1]

\* A bucket is split: the table stays good, nobody is lost.
LEMMA SplitGood ==
    ASSUME NEW bs, NEW i, NEW b, NEW h, NEW cs, SplitOf(bs, i, b, h, cs)
    PROVE  /\ TableGood(cs)
           /\ \A n \in Range(b.nodes) : HasNode(cs, n)
           /\ \A j \in 1..Len(bs) : j # i => \A n \in Range(bs[j].nodes) : HasNode(cs, n)
           /\ \A n : HasNode(cs, n) =>
                n \in Range(b.nodes) \/ \E j \in 1..Len(bs) : j # i /\ n \in Range(bs[j].nodes)
<1>1. /\ TableGood(bs) /\ i \in 1..Len(bs) /\ b \in BucketState
      /\ b.sl = bs[i].sl /\ b.el = bs[i].el /\ b.sl < b.el /\ NodesInPlace(b) /\ h = Halves(b)
  BY Zenon DEF SplitOf
<1>2. cs \in Seq(BucketState) /\ Len(cs) = Len(bs) + 1 /\ cs[i] = h[1] /\ cs[i + 1] = h[2]
  BY Zenon DEF SplitOf
<1>3. /\ \A j \in 1..(i - 1) : cs[j] = bs[j]
      /\ \A j \in (i + 2)..(Len(bs) + 1) : cs[j] = bs[j - 1]
  BY Zenon DEF SplitOf
<1>4. /\ h[1].sl = b.sl /\ h[2].el = b.el /\ h[2].sl = h[1].el + 1
      /\ h[1].sl <= h[1].el /\ h[2].sl <= h[2].el
      /\ h[1].cache = <<>> /\ h[2].cache = <<>>
      /\ NodesInPlace(h[1]) /\ NodesInPlace(h[2])
  BY <1>1, HalvesAre, Zenon
<1>5. RangesFollow(bs) /\ \A k \in 1..Len(bs) : NodesInPlace(bs[k]) /\ bs[k].cache = <<>>
  BY <1>1, Zenon DEF TableGood
<1>6. /\ bs[1].sl = 0 /\ bs[Len(bs)].el = MaxDistance
      /\ \A k \in 1..Len(bs) : bs[k].sl <= bs[k].el
      /\ \A k \in 2..Len(bs) : bs[k].sl = bs[k - 1].el + 1
  BY <1>5, Zenon DEF RangesFollow
<1>7. i \in 1..Len(bs) /\ Len(bs) \in Nat /\ Len(cs) = Len(bs) + 1
  BY <1>1, <1>2, BucketFacts, Zenon
<1>8. ASSUME NEW j \in 1..Len(cs)
      PROVE  NodesInPlace(cs[j]) /\ cs[j].cache = <<>> /\ cs[j].sl <= cs[j].el
  <2>1. CASE j < i
    <3>1. j \in 1..(i - 1) /\ j \in 1..Len(bs)
      BY <1>7, <2>1
    <3> QED  BY <1>3, <1>5, <1>6, <3>1, Zenon
  <2>2. CASE j = i \/ j = i + 1
    BY <1>2, <1>4, <2>2, Zenon
  <2>3. CASE j > i + 1
    <3>1. j \in (i + 2)..(Len(bs) + 1) /\ j - 1 \in 1..Len(bs)
      BY <1>7, <2>3
    <3> QED  BY <1>3, <1>5, <1>6, <3>1, Zenon
  <2>4. j < i \/ j = i \/ j = i + 1 \/ j > i + 1
    BY <1>7
  <2> QED  BY <2>1, <2>2, <2>3, <2>4, Zenon
<1>9. ASSUME NEW j \in 2..Len(cs) PROVE cs[j].sl = cs[j - 1].el + 1
  <2>1. CASE j < i
    <3>1. j \in 1..(i - 1) /\ j - 1 \in 1..(i - 1) /\ j \in 2..Len(bs)
      BY <1>7, <2>1
    <3>2. cs[j] = bs[j] /\ cs[j - 1] = bs[j - 1]
      BY <1>3, <3>1, Zenon
    <3> QED  BY <1>6, <3>1, <3>2, Zenon
  <2>2. CASE j = i
    <3>1. i - 1 \in 1..(i - 1) /\ i \in 2..Len(bs)
      BY <1>7, <2>2
    <3>2. cs[i].sl = bs[i].sl /\ cs[i - 1] = bs[i - 1]
      BY <1>1, <1>2, <1>3, <1>4, <3>1, Zenon
    <3> QED  BY <1>6, <2>2, <3>1, <3>2, Zenon
  <2>3. CASE j = i + 1
    <3>1. j - 1 = i
      BY <1>7, <2>3
    <3> QED  BY <1>2, <1>4, <2>3, <3>1, Zenon
  <2>4. CASE j = i + 2
    <3>1. j - 1 = i + 1 /\ j \in (i + 2)..(Len(bs) + 1) /\ i + 1 \in 2..Len(bs) /\ (i + 1) - 1 = i
      BY <1>7, <2>4
    <3>2. cs[j] = bs[i + 1] /\ cs[j - 1] = h[2]
      BY <1>2, <1>3, <3>1, Zenon
    <3>3. bs[i + 1].sl = bs[i].el + 1
      BY <1>6, <3>1, Zenon
    <3> QED  BY <1>1, <1>4, <3>2, <3>3, Zenon
  <2>5. CASE j > i + 2
    <3>1. j \in (i + 2)..(Len(bs) + 1) /\ j - 1 \in (i + 2)..(Len(bs) + 1) /\ j - 1 \in 2..Len(bs)
      BY <1>7, <2>5
    <3>2. cs[j] = bs[j - 1] /\ cs[j - 1] = bs[(j - 1) - 1]
      BY <1>3, <3>1, Zenon
    <3> QED  BY <1>6, <3>1, <3>2, Zenon
  <2>6. j < i \/ j = i \/ j = i + 1 \/ j = i + 2 \/ j > i + 2
    BY <1>7
  <2> QED  BY <2>1, <2>2, <2>3, <2>4, <2>5, <2>6, Zenon
<1>10. cs[1].sl = 0 /\ cs[Len(cs)].el = MaxDistance /\ Len(cs) >= 1
  <2>2. ASSUME i # 1 PROVE cs[1] = bs[1]
    <3>1. 1 \in 1..(i - 1)
      BY <1>7, <2>2
    <3> QED  BY <1>3, <3>1, Zenon
  <2>4. ASSUME i # Len(bs) PROVE cs[Len(cs)] = bs[Len(bs)]
    <3>1. Len(cs) \in (i + 2)..(Len(bs) + 1) /\ Len(cs) - 1 = Len(bs)
      BY <1>7, <2>4
    <3> QED  BY <1>3, <3>1, Zenon
  <2>5. Len(cs) >= 1
    BY <1>7
  <2>6. cs[1].sl = 0
    <3>1. CASE i = 1
      BY <1>1, <1>2, <1>4, <1>6, <3>1, Zenon
    <3> QED  BY <1>6, <2>2, <3>1, Zenon
  <2>7. cs[Len(cs)].el = MaxDistance
    <3>1. CASE i = Len(bs)
      BY <1>1, <1>2, <1>4, <1>6, <3>1, Zenon
    <3> QED  BY <1>6, <2>4, <3>1, Zenon
  <2> QED  BY <2>5, <2>6, <2>7, Zenon
<1>11. TableGood(cs)
  <2>1. RangesFollow(cs)
    BY <1>2, <1>8, <1>9, <1>10, Zenon DEF RangesFollow
  <2> QED  BY <1>8, <2>1, Zenon DEF TableGood
<1>12. ASSUME NEW n \in Range(b.nodes) PROVE HasNode(cs, n)
  <2>1. i \in 1..Len(cs) /\ i + 1 \in 1..Len(cs)
    BY <1>7
  <2>2. n \in Range(h[1].nodes) \/ n \in Range(h[2].nodes)
    BY <1>1, HalvesAre, Zenon
  <2> QED  BY <1>2, <2>1, <2>2, Zenon DEF HasNode
<1>13. ASSUME NEW j \in 1..Len(bs), j # i, NEW n \in Range(bs[j].nodes) PROVE HasNode(cs, n)
  <2>1. CASE j < i
    <3>1. j \in 1..Len(cs) /\ j \in 1..(i - 1)
      BY <1>7, <2>1
    <3> QED  BY <1>3, <3>1, Zenon DEF HasNode
  <2>2. CASE j > i
    <3>1. j + 1 \in 1..Len(cs) /\ j + 1 \in (i + 2)..(Len(bs) + 1) /\ (j + 1) - 1 = j
      BY <1>7, <2>2
    <3>2. cs[j + 1] = bs[j]
      BY <1>3, <3>1, Zenon
    <3> QED  BY <3>1, <3>2, Zenon DEF HasNode
  <2>3. j < i \/ j > i
    BY <1>7, <1>13
  <2> QED  BY <2>1, <2>2, <2>3, Zenon
<1>14. ASSUME NEW k \in 1..Len(cs), NEW n \in Range(cs[k].nodes)
       PROVE  n \in Range(b.nodes) \/ \E j \in 1..Len(bs) : j # i /\ n \in Range(bs[j].nodes)
  <2>1. CASE k < i
    <3>1. k \in 1..Len(bs) /\ k \in 1..(i - 1) /\ k # i
      BY <1>7, <2>1
    <3> QED  BY <1>3, <3>1, Zenon
  <2>2. CASE k = i \/ k = i + 1
    <3>1. n \in Range(h[1].nodes) \/ n \in Range(h[2].nodes)
      BY <1>2, <2>2, Zenon
    <3>2. n \in Range(h[1].nodes) \/ n \in Range(h[2].nodes) => n \in Range(b.nodes)
      BY <1>1, HalvesAre
    <3> QED  BY <3>1, <3>2, Zenon
  <2>3. CASE k > i + 1
    <3>1. k \in (i + 2)..(Len(bs) + 1) /\ k - 1 \in 1..Len(bs) /\ k - 1 # i
      BY <1>7, <2>3
    <3> QED  BY <1>3, <3>1, Zenon
  <2>4. k < i \/ k = i \/ k = i + 1 \/ k > i + 1
    BY <1>7
  <2> QED  BY <2>1, <2>2, <2>3, <2>4, Zenon
<1> QED  BY <1>11, <1>12, <1>13, <1>14, Zenon DEF HasNode

-----------------------------------------------------------------------------
(* The routing table: the steps.                                             *)

\* A sequence of two different nodes in a bucket: its range can be halved.
LEMMA RangeOfTwo ==
    ASSUME NEW b \in BucketState, NodesInPlace(b), Len(b.nodes) >= 2
    PROVE  b.sl < b.el
<1>1. /\ b.sl \in Nat /\ b.el \in Nat /\ b.nodes \in Seq(Distances) /\ Len(b.nodes) \in Nat
      /\ IsInjective(b.nodes) /\ \A n \in Range(b.nodes) : InRange(b, n)
  BY DEF BucketState, NodesInPlace
<1>2. 1 \in DOMAIN b.nodes /\ 2 \in DOMAIN b.nodes
  BY <1>1
<1>3. b.nodes[1] # b.nodes[2]
  BY <1>1, <1>2 DEF IsInjective
<1>4. b.nodes[1] \in Range(b.nodes) /\ b.nodes[2] \in Range(b.nodes)
  BY <1>2, Zenon DEF Range
<1>5. b.nodes[1] \in Nat /\ b.nodes[2] \in Nat
  <2>1. b.nodes[1] \in Distances /\ b.nodes[2] \in Distances
    BY <1>1, <1>2
  <2>2. \A n \in Distances : n \in Nat
    BY RtAssumption
  <2> QED  BY <2>1, <2>2, Zenon
<1> QED  BY <1>1, <1>3, <1>4, <1>5 DEF InRange

\* AddNode of the bucket, before the table looks at its size.
LEMMA BucketAddIs ==
    ASSUME NEW bs, TableGood(bs), NEW i \in 1..Len(bs), NEW n \in Distances, InRange(bs[i], n),
           NEW b, b = BucketAdd(bs[i], n)
    PROVE  /\ b \in BucketState /\ b.sl = bs[i].sl /\ b.el = bs[i].el /\ NodesInPlace(b)
           /\ Range(bs[i].nodes) \subseteq Range(b.nodes)
           /\ n \in Range(b.nodes) <=> n \in Range(bs[i].nodes) \/ Len(bs[i].nodes) < maxSize
           /\ \A m \in Range(b.nodes) : m # n => m \in Range(bs[i].nodes)
           /\ Len(b.nodes) < maxSize => b = [bs[i] EXCEPT !.nodes = b.nodes]
<1> DEFINE c == bs[i]
           t == ToTail(c.nodes, n)
<1>1. /\ c \in BucketState /\ c.nodes \in Seq(Distances) /\ IsInjective(c.nodes) /\ c.cache = <<>>
      /\ Len(c.nodes) <= maxSize /\ Len(c.nodes) \in Nat /\ NodesInPlace(c)
      /\ \A m \in Range(c.nodes) : InRange(c, m)
  BY BucketFacts, Zenon DEF TableGood
<1>2. maxSize \in Nat /\ maxSize >= 2
  BY RtAssumption
<1> HIDE DEF c
<1>3. CASE n \in Range(c.nodes) \/ Len(c.nodes) < maxSize
  <2>1. /\ t \in Seq(Distances) /\ Range(t) = Range(c.nodes) \cup {n} /\ IsInjective(t)
        /\ Len(t) = IF n \in Range(c.nodes) THEN Len(c.nodes) ELSE Len(c.nodes) + 1
    BY <1>1, ToTailIs, Zenon
  <2>2. b = [c EXCEPT !.nodes = t]
    BY <1>3 DEF BucketAdd, c
  <2> HIDE DEF t
  <2>3. b.sl = c.sl /\ b.el = c.el /\ b.nodes = t
    BY <1>1, <2>2 DEF BucketState
  <2>4. b \in BucketState
    BY <1>1, <2>1, <2>2, Zenon DEF BucketState
  <2>5. Len(t) <= maxSize
    BY <1>1, <1>2, <1>3, <2>1
  <2>6. \A m \in Range(t) : InRange(b, m)
    BY <1>1, <2>1, <2>3, Zenon DEF InRange, c
  <2>7. NodesInPlace(b)
    BY <2>1, <2>3, <2>5, <2>6, Zenon DEF NodesInPlace
  <2>8. /\ Range(c.nodes) \subseteq Range(t) /\ n \in Range(t)
        /\ \A m \in Range(t) : m # n => m \in Range(c.nodes)
    BY <2>1, Zenon
  <2> QED  BY <1>3, <2>2, <2>3, <2>4, <2>7, <2>8, Zenon DEF c
<1>4. CASE ~(n \in Range(c.nodes) \/ Len(c.nodes) < maxSize)
  <2> DEFINE q == Push(c.cache, n)
  <2>1. b = [c EXCEPT !.cache = q]
    BY <1>4, Zenon DEF BucketAdd, c
  <2>2. q \in Seq(Distances)
    <3>1. <<>> \in Seq(Distances) /\ IsInjective(<<>>)
      BY DEF IsInjective
    <3>2. ToTail(<<>>, n) \in Seq(Distances)
      BY <3>1, ToTailIs, Zenon
    <3> QED  BY <1>1, <3>1, <3>2, Zenon DEF Push
  <2> HIDE DEF q
  <2>3. b.sl = c.sl /\ b.el = c.el /\ b.nodes = c.nodes
    BY <1>1, <2>1 DEF BucketState
  <2>4. b \in BucketState
    BY <1>1, <2>1, <2>2, Zenon DEF BucketState
  <2>5. NodesInPlace(b)
    BY <1>1, <2>3, Zenon DEF NodesInPlace, InRange
  <2>6. ~(Len(b.nodes) < maxSize)
    BY <1>4, <2>3, Zenon
  <2> QED  BY <1>4, <2>3, <2>4, <2>5, <2>6, Zenon DEF c
<1> QED  BY <1>3, <1>4, Zenon

\* A full bucket is split.
LEMMA TableSplits ==
    ASSUME NEW bs, TableGood(bs), NEW i \in 1..Len(bs), NEW b \in BucketState,
           b.sl = bs[i].sl, b.el = bs[i].el, NodesInPlace(b), Len(b.nodes) >= 2
    PROVE  LET cs == Spliced(bs, i, Halves(b)) IN
           /\ TableGood(cs)
           /\ \A n \in Range(b.nodes) : HasNode(cs, n)
           /\ \A j \in 1..Len(bs) : j # i => \A n \in Range(bs[j].nodes) : HasNode(cs, n)
           /\ \A n : HasNode(cs, n) =>
                n \in Range(b.nodes) \/ \E j \in 1..Len(bs) : j # i /\ n \in Range(bs[j].nodes)
<1> DEFINE h == Halves(b)
           cs == Spliced(bs, i, h)
<1>1. b.sl < b.el
  BY RangeOfTwo, Zenon
<1>2. Len(h) = 2 /\ h[1] \in BucketState /\ h[2] \in BucketState
  BY <1>1, HalvesAre, Zenon
<1>3. h \in Seq(BucketState)
  <2>1. \E x, y : h = <<x, y>>
    BY Zenon DEF Halves
  <2>2. PICK x, y : h = <<x, y>>
    BY <2>1, Zenon
  <2> HIDE DEF h
  <2>3. x \in BucketState /\ y \in BucketState
    BY <1>2, <2>2, Zenon
  <2> QED  BY <2>2, <2>3
<1>4. bs \in Seq(BucketState)
  BY BucketFacts, Zenon
<1> HIDE DEF h
<1>5. /\ cs \in Seq(BucketState) /\ Len(cs) = Len(bs) + 1
      /\ cs[i] = h[1] /\ cs[i + 1] = h[2]
      /\ \A j \in 1..(i - 1) : cs[j] = bs[j]
      /\ \A j \in (i + 2)..(Len(bs) + 1) : cs[j] = bs[j - 1]
  BY <1>2, <1>3, <1>4, SplitPlaces, Zenon
<1>6. h = Halves(b)
  BY Zenon DEF h
<1> HIDE DEF cs
<1>7. /\ TableGood(cs)
      /\ \A n \in Range(b.nodes) : HasNode(cs, n)
      /\ \A j \in 1..Len(bs) : j # i => \A n \in Range(bs[j].nodes) : HasNode(cs, n)
      /\ \A n : HasNode(cs, n) =>
           n \in Range(b.nodes) \/ \E j \in 1..Len(bs) : j # i /\ n \in Range(bs[j].nodes)
  <2>1. SplitOf(bs, i, b, h, cs)
    BY <1>1, <1>5, <1>6, Zenon DEF SplitOf
  <2> QED  BY <2>1, SplitGood, Zenon
<1> QED  BY <1>7, Zenon DEF cs, h

\* AddNode of the table: the bucket takes the node, or is split.
TableAdd(bs, i, b) ==
    IF Len(b.nodes) >= maxSize THEN Spliced(bs, i, Halves(b)) ELSE [bs EXCEPT ![i] = b]

LEMMA TableAdds ==
    ASSUME NEW bs, TableGood(bs), NEW i \in 1..Len(bs), NEW n \in Distances, InRange(bs[i], n),
           NEW b, b = BucketAdd(bs[i], n), NEW cs, cs = TableAdd(bs, i, b)
    PROVE  /\ TableGood(cs)
           /\ HasNode(cs, n) <=> HasNode(bs, n) \/ Len(bs[i].nodes) < maxSize
           /\ n \notin Range(b.nodes) => ~HasNode(bs, n)
           /\ \A m : m # n => (HasNode(bs, m) <=> HasNode(cs, m))
<1>1. /\ b \in BucketState /\ b.sl = bs[i].sl /\ b.el = bs[i].el /\ NodesInPlace(b)
      /\ Range(bs[i].nodes) \subseteq Range(b.nodes)
      /\ n \in Range(b.nodes) <=> n \in Range(bs[i].nodes) \/ Len(bs[i].nodes) < maxSize
      /\ \A m \in Range(b.nodes) : m # n => m \in Range(bs[i].nodes)
      /\ Len(b.nodes) < maxSize => b = [bs[i] EXCEPT !.nodes = b.nodes]
  BY BucketAddIs
<1>2. maxSize \in Nat /\ maxSize >= 2 /\ Len(b.nodes) \in Nat /\ b.nodes \in Seq(Distances)
  BY <1>1, RtAssumption DEF BucketState
<1>3. HasNode(bs, n) <=> n \in Range(bs[i].nodes)
  BY NodeInItsBucket, Zenon
<1>4. CASE Len(b.nodes) >= maxSize
  <2>1. Len(b.nodes) >= 2
    BY <1>2, <1>4
  <2>2. cs = Spliced(bs, i, Halves(b))
    BY <1>4 DEF TableAdd
  <2>3. /\ TableGood(cs)
        /\ \A m \in Range(b.nodes) : HasNode(cs, m)
        /\ \A j \in 1..Len(bs) : j # i => \A m \in Range(bs[j].nodes) : HasNode(cs, m)
        /\ \A m : HasNode(cs, m) =>
             m \in Range(b.nodes) \/ \E j \in 1..Len(bs) : j # i /\ m \in Range(bs[j].nodes)
    BY <1>1, <2>1, <2>2, TableSplits
  <2>4. \A m : HasNode(bs, m) => HasNode(cs, m)
    BY <1>1, <2>3, Zenon DEF HasNode
  <2>5. \A m : m # n /\ HasNode(cs, m) => HasNode(bs, m)
    BY <1>1, <2>3, Zenon DEF HasNode
  <2>6. HasNode(cs, n) => HasNode(bs, n) \/ Len(bs[i].nodes) < maxSize
    BY <1>1, <2>3, Zenon DEF HasNode
  <2> QED  BY <1>1, <1>3, <2>3, <2>4, <2>5, <2>6, Zenon
<1>5. CASE ~(Len(b.nodes) >= maxSize)
  <2>1. Len(b.nodes) < maxSize
    BY <1>2, <1>5
  <2>2. cs = WithNodes(bs, i, b.nodes)
    BY <1>1, <1>5, <2>1, Zenon DEF WithNodes, TableAdd
  <2>3. \A m \in Range(b.nodes) : InRange(bs[i], m)
    BY <1>1 DEF NodesInPlace, InRange
  <2>4. IsInjective(b.nodes) /\ Len(b.nodes) <= maxSize
    BY <1>1 DEF NodesInPlace
  <2>5. /\ TableGood(cs) /\ Len(cs) = Len(bs) /\ cs[i].nodes = b.nodes
        /\ \A j \in 1..Len(bs) : j # i => cs[j] = bs[j]
    BY <1>2, <2>2, <2>3, <2>4, NodesReplaced
  <2>6. \A j \in 1..Len(bs) : \A m : m # n => (m \in Range(cs[j].nodes) <=> m \in Range(bs[j].nodes))
    BY <1>1, <2>5, Zenon
  <2>7. \A m : m # n => (HasNode(bs, m) <=> HasNode(cs, m))
    BY <2>5, <2>6, Zenon DEF HasNode
  <2>8. InRange(cs[i], n) /\ i \in 1..Len(cs)
    <3>1. cs[i] = [bs[i] EXCEPT !.nodes = b.nodes]
      BY <2>2, BucketFacts DEF WithNodes
    <3>2. cs[i].sl = bs[i].sl /\ cs[i].el = bs[i].el
      BY <3>1, BucketFacts DEF BucketState
    <3> QED  BY <2>5, <3>2, Zenon DEF InRange
  <2>9. HasNode(cs, n) <=> n \in Range(b.nodes)
    BY <2>5, <2>8, NodeInItsBucket, Zenon
  <2> QED  BY <1>1, <1>3, <2>5, <2>7, <2>9, Zenon
<1> QED  BY <1>4, <1>5

LEMMA ListedIs == ASSUME NEW n PROVE Listed(n) <=> HasNode(buckets, n)
  BY Zenon DEF Listed, HasNode

\* The bucket and the record of a node, in a state of the invariant.
LEMMA NodeFacts ==
    ASSUME RtInv, NEW n \in Distances
    PROVE  /\ IndexOf(n) \in 1..Len(buckets) /\ InRange(buckets[IndexOf(n)], n)
           /\ HasNode(buckets, n) <=> n \in Range(buckets[IndexOf(n)].nodes)
           /\ health[n] \in HealthState /\ health[n].fails \in Nat /\ missed[n] \in Nat
<1>1. TableGood(buckets)
  BY Zenon DEF RtInv
<1>2. IndexOf(n) \in 1..Len(buckets) /\ InRange(buckets[IndexOf(n)], n)
  BY <1>1, IndexOfIs, Zenon DEF TableGood
<1>3. HasNode(buckets, n) <=> n \in Range(buckets[IndexOf(n)].nodes)
  BY <1>1, <1>2, NodeInItsBucket, Zenon
<1>4. health[n] \in HealthState /\ missed[n] \in Nat
  BY DEF RtInv, RtTypeOK
<1> QED  BY <1>2, <1>3, <1>4, Zenon DEF HealthState

\* The record of one node is set.
LEMMA HealthSet ==
    ASSUME RtInv, NEW n \in Distances, NEW v \in HealthState
    PROVE  LET h == [health EXCEPT ![n] = v] IN
           h \in [Distances -> HealthState] /\ h[n] = v /\ \A m \in Distances : m # n => h[m] = health[m]
  BY Zenon DEF RtInv, RtTypeOK

LEMMA MissedSet ==
    ASSUME RtInv, NEW n \in Distances, NEW v \in Nat
    PROVE  LET h == [missed EXCEPT ![n] = v] IN
           h \in [Distances -> Nat] /\ h[n] = v /\ \A m \in Distances : m # n => h[m] = missed[m]
  BY Zenon DEF RtInv, RtTypeOK

LEMMA NewHealthIs == NewHealth \in HealthState /\ NewHealth.fails = 0
  BY DEF NewHealth, HealthState

\* A node moves to the tail of its bucket: nobody comes or goes.
LEMMA MovesToTail ==
    ASSUME NEW bs, TableGood(bs), NEW i \in 1..Len(bs), NEW n \in Range(bs[i].nodes)
    PROVE  LET cs == WithNodes(bs, i, ToTail(bs[i].nodes, n)) IN
           /\ TableGood(cs) /\ Len(cs) = Len(bs)
           /\ \A j \in 1..Len(bs) : Range(cs[j].nodes) = Range(bs[j].nodes)
           /\ \A m : HasNode(cs, m) <=> HasNode(bs, m)
<1> DEFINE s == ToTail(bs[i].nodes, n)
           cs == WithNodes(bs, i, s)
<1>1. /\ bs[i].nodes \in Seq(Distances) /\ IsInjective(bs[i].nodes) /\ Len(bs[i].nodes) <= maxSize
      /\ \A m \in Range(bs[i].nodes) : m \in Distances /\ InRange(bs[i], m)
  BY BucketFacts, Zenon
<1>2. n \in Distances
  BY <1>1, Zenon
<1>3. s \in Seq(Distances) /\ Range(s) = Range(bs[i].nodes) /\ IsInjective(s) /\ Len(s) = Len(bs[i].nodes)
  <2>1. /\ s \in Seq(Distances) /\ Range(s) = Range(bs[i].nodes) \cup {n} /\ IsInjective(s)
        /\ Len(s) = IF n \in Range(bs[i].nodes) THEN Len(bs[i].nodes) ELSE Len(bs[i].nodes) + 1
    BY <1>1, <1>2, ToTailIs, Zenon
  <2> HIDE DEF s
  <2> QED  BY <2>1, Zenon
<1> HIDE DEF s
<1>4. /\ TableGood(cs) /\ Len(cs) = Len(bs) /\ cs[i].nodes = s
      /\ \A j \in 1..Len(bs) : j # i => cs[j] = bs[j]
  BY <1>1, <1>3, NodesReplaced
<1> HIDE DEF cs
<1>5. \A j \in 1..Len(bs) : Range(cs[j].nodes) = Range(bs[j].nodes)
  BY <1>3, <1>4
<1>6. \A m : HasNode(cs, m) <=> HasNode(bs, m)
  BY <1>4, <1>5, Zenon DEF HasNode
<1> QED  BY <1>4, <1>5, <1>6, Zenon DEF cs, s

\* A node is cut out of its bucket: it is in the table no more, the others are.
LEMMA IsCutOut ==
    ASSUME NEW bs, TableGood(bs), NEW i \in 1..Len(bs), NEW n \in Range(bs[i].nodes)
    PROVE  LET cs == WithNodes(bs, i, CutOut(bs[i].nodes, n)) IN
           /\ TableGood(cs) /\ Len(cs) = Len(bs)
           /\ ~HasNode(cs, n) /\ \A m : m # n => (HasNode(cs, m) <=> HasNode(bs, m))
<1> DEFINE s == CutOut(bs[i].nodes, n)
           cs == WithNodes(bs, i, s)
<1>1. /\ bs[i].nodes \in Seq(Distances) /\ IsInjective(bs[i].nodes) /\ Len(bs[i].nodes) <= maxSize
      /\ Len(bs[i].nodes) \in Nat /\ maxSize \in Nat
      /\ \A m \in Range(bs[i].nodes) : m \in Distances /\ InRange(bs[i], m)
  BY BucketFacts, RtAssumption, Zenon
<1>2. n \in Distances
  BY <1>1, Zenon
<1>3. /\ s \in Seq(Distances) /\ Range(s) = Range(bs[i].nodes) \ {n} /\ IsInjective(s)
      /\ Len(s) <= maxSize
  <2>1. /\ s \in Seq(Distances) /\ Range(s) = Range(bs[i].nodes) \ {n} /\ IsInjective(s)
        /\ Len(s) = IF n \in Range(bs[i].nodes) THEN Len(bs[i].nodes) - 1 ELSE Len(bs[i].nodes)
    BY <1>1, CutOutIs, Zenon
  <2> HIDE DEF s
  <2> QED  BY <1>1, <2>1
<1> HIDE DEF s
<1>4. /\ TableGood(cs) /\ Len(cs) = Len(bs) /\ cs[i].nodes = s
      /\ \A j \in 1..Len(bs) : j # i => cs[j] = bs[j]
  BY <1>1, <1>3, NodesReplaced, Zenon
<1> HIDE DEF cs
<1>5. ~HasNode(cs, n)
  <2> SUFFICES ASSUME NEW j \in 1..Len(bs), n \in Range(cs[j].nodes) PROVE FALSE
    BY <1>4, Zenon DEF HasNode
  <2>1. j # i
    BY <1>3, <1>4, Zenon
  <2>2. n \in Range(bs[j].nodes)
    BY <1>4, <2>1, Zenon
  <2>3. InRange(bs[j], n) /\ InRange(bs[i], n)
    BY <1>1, <2>2, BucketFacts, Zenon
  <2> QED  BY <1>2, <2>1, <2>3, OneRange, Zenon DEF TableGood
<1>6. ASSUME NEW m, m # n PROVE HasNode(cs, m) <=> HasNode(bs, m)
  <2>1. \A j \in 1..Len(bs) : m \in Range(cs[j].nodes) <=> m \in Range(bs[j].nodes)
    BY <1>3, <1>4, <1>6, Zenon
  <2> QED  BY <1>4, <2>1, Zenon DEF HasNode
<1> QED  BY <1>4, <1>5, <1>6, Zenon DEF cs, s

\* Heard: the count of maintenance is no longer good for the node.
LEMMA HeardIs ==
    ASSUME RtInv, NEW n \in Distances, Heard(n)
    PROVE  /\ missed' \in [Distances -> Nat] /\ missed'[n] = 0
           /\ \A m \in Distances : m # n => missed'[m] = missed[m]
           /\ maint' \in MaintState /\ maint'.pc = maint.pc /\ maint'.node = maint.node
           /\ maint'.bucket = maint.bucket /\ maint'.fails = maint.fails
           /\ maint'.same => maint.same /\ maint.node # n
<1>1. missed' \in [Distances -> Nat] /\ missed'[n] = 0 /\ \A m \in Distances : m # n => missed'[m] = missed[m]
  BY MissedSet DEF Heard
<1>2. maint \in MaintState /\ maint' = [maint EXCEPT !.same = maint.same /\ maint.node # n]
  BY DEF RtInv, RtTypeOK, Heard
<1>3. /\ maint'.pc = maint.pc /\ maint'.node = maint.node
      /\ maint'.bucket = maint.bucket /\ maint'.fails = maint.fails /\ maint'.todo = maint.todo
  BY <1>2 DEF MaintState
<1>4. maint'.same = (maint.same /\ maint.node # n)
  BY <1>2 DEF MaintState
<1>5. maint' \in MaintState
  BY <1>2, Zenon DEF MaintState
<1> QED  BY <1>1, <1>3, <1>4, <1>5, Zenon

\* While AddNode and Remove run, maintenance is between two probes.
LEMMA BetweenProbes ==
    ASSUME maint'.pc \in {"idle", "next"}
    PROVE  ProbeTrue' /\ DropTrue'
  BY Zenon DEF ProbeTrue, DropTrue

LEMMA AddInv == ASSUME RtInv, NEW n \in Distances, RtAdd(n) PROVE RtInv'
<1> DEFINE i == IndexOf(n)
           b == BucketAdd(buckets[i], n)
<1>1. TableGood(buckets) /\ i \in 1..Len(buckets) /\ InRange(buckets[i], n)
  BY NodeFacts, Zenon DEF RtInv
<1>2. buckets' = TableAdd(buckets, i, b)
  BY Zenon DEF RtAdd, TableAdd, Spliced
<1>3. health' = [health EXCEPT ![n] = IF n \in Range(b.nodes) THEN NewHealth ELSE health[n]]
  BY Zenon DEF RtAdd
<1>4. /\ Unlocked /\ Heard(n)
      /\ members' = IF Len(buckets[i].nodes) < maxSize THEN members \cup {n} ELSE members
  BY Zenon DEF RtAdd
<1> HIDE DEF i, b
<1>5. b = BucketAdd(buckets[i], n)
  BY Zenon DEF b
<1>6. /\ TableGood(buckets')
      /\ HasNode(buckets', n) <=> HasNode(buckets, n) \/ Len(buckets[i].nodes) < maxSize
      /\ n \notin Range(b.nodes) => ~HasNode(buckets, n)
      /\ \A m : m # n => (HasNode(buckets, m) <=> HasNode(buckets', m))
  BY <1>1, <1>2, <1>5, TableAdds
<1>7. /\ missed' \in [Distances -> Nat] /\ missed'[n] = 0
      /\ \A m \in Distances : m # n => missed'[m] = missed[m]
      /\ maint' \in MaintState /\ maint'.pc = maint.pc
  BY <1>4, HeardIs, Zenon
<1>8. /\ health' \in [Distances -> HealthState] /\ health'[n].fails = 0
      /\ \A m \in Distances : m # n => health'[m] = health[m]
  <2>1. CASE n \in Range(b.nodes)
    BY <1>3, <2>1, HealthSet, NewHealthIs, Zenon
  <2>2. CASE n \notin Range(b.nodes)
    <3>1. health[n] \in HealthState
      BY NodeFacts, Zenon
    <3>2. health[n].fails = 0
      BY <1>6, <2>2, Zenon DEF RtInv, FailuresTrue
    <3>3. health' = [health EXCEPT ![n] = health[n]]
      BY <1>3, <2>2, Zenon
    <3> QED  BY <3>1, <3>2, <3>3, HealthSet, Zenon
  <2> QED  BY <2>1, <2>2, Zenon
<1>9. FailuresTrue'
  <2> SUFFICES ASSUME NEW m \in Distances
               PROVE  health'[m].fails <= missed'[m] /\ (~HasNode(buckets', m) => health'[m].fails = 0)
    BY Zenon DEF FailuresTrue
  <2>1. CASE m = n
    BY <1>7, <1>8, <2>1
  <2>2. CASE m # n
    BY <1>6, <1>7, <1>8, <2>2, Zenon DEF RtInv, FailuresTrue
  <2> QED  BY <2>1, <2>2, Zenon
<1>10. ProbeTrue' /\ DropTrue'
  BY <1>4, <1>7, BetweenProbes, Zenon DEF Unlocked
<1>11. MembersTrue'
  <2>1. CASE Len(buckets[i].nodes) < maxSize
    BY <1>4, <1>6, <2>1, Zenon DEF RtInv, MembersTrue
  <2>2. CASE ~(Len(buckets[i].nodes) < maxSize)
    BY <1>4, <1>6, <2>2, Zenon DEF RtInv, MembersTrue
  <2> QED  BY <2>1, <2>2, Zenon
<1> QED  BY <1>6, <1>7, <1>8, <1>9, <1>10, <1>11, Zenon DEF RtInv, RtTypeOK

LEMMA RemoveInv == ASSUME RtInv, NEW n \in Distances, RtRemove(n) PROVE RtInv'
<1> DEFINE i == IndexOf(n)
<1>1. TableGood(buckets) /\ i \in 1..Len(buckets) /\ n \in Range(buckets[i].nodes)
  BY NodeFacts, ListedIs, Zenon DEF RtInv, RtRemove
<1>2. buckets[i].cache = <<>>
  BY <1>1 DEF TableGood
<1>3. buckets' = WithNodes(buckets, i, CutOut(buckets[i].nodes, n))
  <2>1. buckets' = [buckets EXCEPT ![i] = BucketRemove(buckets[i], n)]
    BY DEF RtRemove
  <2>2. BucketRemove(buckets[i], n) = [buckets[i] EXCEPT !.nodes = CutOut(buckets[i].nodes, n)]
    BY <1>2 DEF BucketRemove
  <2> HIDE DEF i
  <2> QED  BY <2>1, <2>2, Zenon DEF WithNodes
<1>4. health' = [m \in Distances |-> IF m = n THEN NewHealth ELSE health[m]]
  BY <1>2, Zenon DEF RtRemove
<1>5. Unlocked /\ missed' = [missed EXCEPT ![n] = 0] /\ maint' = maint /\ members' = members \ {n}
  BY Zenon DEF RtRemove
<1> HIDE DEF i
<1>6. /\ TableGood(buckets') /\ ~HasNode(buckets', n)
      /\ \A m : m # n => (HasNode(buckets', m) <=> HasNode(buckets, m))
  BY <1>1, <1>3, IsCutOut, Zenon
<1>7. health' \in [Distances -> HealthState]
  BY <1>4, NewHealthIs DEF RtInv, RtTypeOK
<1>10. missed' \in [Distances -> Nat] /\ missed'[n] = 0 /\ \A m \in Distances : m # n => missed'[m] = missed[m]
  BY <1>5, MissedSet, Zenon
<1>8. FailuresTrue'
  <2> SUFFICES ASSUME NEW m \in Distances
               PROVE  health'[m].fails <= missed'[m] /\ (~HasNode(buckets', m) => health'[m].fails = 0)
    BY Zenon DEF FailuresTrue
  <2>1. CASE m = n
    BY <1>4, <1>10, <2>1, NewHealthIs
  <2>2. CASE m # n
    BY <1>4, <1>6, <1>10, <2>2, Zenon DEF RtInv, FailuresTrue
  <2> QED  BY <2>1, <2>2, Zenon
<1>9. ProbeTrue' /\ DropTrue'
  BY <1>5, BetweenProbes, Zenon DEF Unlocked
<1>11. MembersTrue'
  BY <1>5, <1>6, Zenon DEF RtInv, MembersTrue
<1> QED  BY <1>5, <1>6, <1>7, <1>8, <1>9, <1>10, <1>11, Zenon DEF RtInv, RtTypeOK

\* The empty table.
LEMMA EmptyTable ==
    ASSUME NEW bs, bs = <<NewBucket(0, MaxDistance, <<>>)>>
    PROVE  TableGood(bs) /\ \A n : ~HasNode(bs, n)
<1> DEFINE b == NewBucket(0, MaxDistance, <<>>)
<1>1. bs = <<b>> /\ MaxDistance \in Nat
  BY RtAssumption, Zenon
<1>2. b \in BucketState /\ b.sl = 0 /\ b.el = MaxDistance /\ b.nodes = <<>> /\ b.cache = <<>>
  BY <1>1 DEF NewBucket, BucketState
<1> HIDE DEF b
<1>3. bs \in Seq(BucketState) /\ Len(bs) = 1 /\ bs[1] = b
  BY <1>1, <1>2
<1>4. RangesFollow(bs)
  BY <1>1, <1>2, <1>3 DEF RangesFollow
<1>5. Len(b.nodes) <= maxSize /\ DOMAIN b.nodes = {}
  BY <1>2, RtAssumption
<1>6. NodesInPlace(b) /\ Range(b.nodes) = {}
  BY <1>5, Zenon DEF NodesInPlace, IsInjective, Range
<1>7. TableGood(bs)
  BY <1>2, <1>3, <1>4, <1>6 DEF TableGood
<1>8. \A i \in 1..Len(bs) : bs[i] = b
  BY <1>3
<1> QED  BY <1>6, <1>7, <1>8, Zenon DEF HasNode

LEMMA ClearInv == ASSUME RtInv, RtClear PROVE RtInv'
<1>1. /\ Unlocked /\ buckets' = <<NewBucket(0, MaxDistance, <<>>)>> /\ members' = {}
      /\ health' = [n \in Distances |-> NewHealth] /\ missed' = [n \in Distances |-> 0]
      /\ maint' = [maint EXCEPT !.todo = <<>>]
  BY Zenon DEF RtClear
<1>2. TableGood(buckets') /\ \A n : ~HasNode(buckets', n)
  BY <1>1, EmptyTable, Zenon
<1>3. maint \in MaintState /\ <<>> \in Seq(Nat \X Nat)
  BY DEF RtInv, RtTypeOK
<1>4. maint' \in MaintState /\ maint'.pc = maint.pc
  BY <1>1, <1>3, Zenon DEF MaintState
<1>5. health' \in [Distances -> HealthState] /\ missed' \in [Distances -> Nat]
  BY <1>1, NewHealthIs
<1>6. FailuresTrue'
  BY <1>1, NewHealthIs DEF FailuresTrue
<1>7. ProbeTrue' /\ DropTrue'
  BY <1>1, <1>4, BetweenProbes, Zenon DEF Unlocked
<1>8. MembersTrue'
  BY <1>1, <1>2, Zenon DEF MembersTrue
<1> QED  BY <1>2, <1>4, <1>5, <1>6, <1>7, <1>8, Zenon DEF RtInv, RtTypeOK

LEMMA TouchInv == ASSUME RtInv, NEW n \in Distances, RtTouch(n) PROVE RtInv'
<1> DEFINE i == IndexOf(n)
<1>1. TableGood(buckets) /\ i \in 1..Len(buckets) /\ n \in Range(buckets[i].nodes) /\ HasNode(buckets, n)
  BY NodeFacts, ListedIs DEF RtInv, RtTouch
<1>2. buckets' = WithNodes(buckets, i, ToTail(buckets[i].nodes, n))
  BY Zenon DEF RtTouch, WithNodes
<1>3. health' = [health EXCEPT ![n] = NewHealth] /\ Heard(n) /\ members' = members
  BY Zenon DEF RtTouch
<1> HIDE DEF i
<1>4. /\ TableGood(buckets') /\ Len(buckets') = Len(buckets)
      /\ \A j \in 1..Len(buckets) : Range(buckets'[j].nodes) = Range(buckets[j].nodes)
      /\ \A m : HasNode(buckets', m) <=> HasNode(buckets, m)
  BY <1>1, <1>2, MovesToTail, Zenon
<1>5. /\ missed' \in [Distances -> Nat] /\ missed'[n] = 0
      /\ \A m \in Distances : m # n => missed'[m] = missed[m]
      /\ maint' \in MaintState /\ maint'.pc = maint.pc /\ maint'.node = maint.node
      /\ maint'.bucket = maint.bucket /\ maint'.fails = maint.fails
      /\ maint'.same => maint.same /\ maint.node # n
  BY <1>3, HeardIs, Zenon
<1>6. /\ health' \in [Distances -> HealthState] /\ health'[n].fails = 0
      /\ \A m \in Distances : m # n => health'[m] = health[m]
  BY <1>3, HealthSet, NewHealthIs, Zenon
<1>7. FailuresTrue'
  <2> SUFFICES ASSUME NEW m \in Distances
               PROVE  health'[m].fails <= missed'[m] /\ (~HasNode(buckets', m) => health'[m].fails = 0)
    BY DEF FailuresTrue
  <2>1. CASE m = n
    BY <1>5, <1>6, <2>1
  <2>2. CASE m # n
    BY <1>4, <1>5, <1>6, <2>2, Zenon DEF RtInv, FailuresTrue
  <2> QED  BY <2>1, <2>2
<1>8. ProbeTrue'
  BY <1>4, <1>5, Zenon DEF RtInv, ProbeTrue
<1>9. DropTrue'
  BY <1>1, <1>4, <1>5, Zenon DEF RtInv, DropTrue
<1>10. MembersTrue'
  BY <1>3, <1>4, Zenon DEF RtInv, MembersTrue
<1> QED  BY <1>4, <1>5, <1>6, <1>7, <1>8, <1>9, <1>10, Zenon DEF RtInv, RtTypeOK

\* A step of the record of a node in the table, which no count that is still
\* good exceeds.
LEMMA RecordStep ==
    ASSUME RtInv, NEW n \in Distances, NEW v \in HealthState, NEW k \in Nat, NEW w \in BOOLEAN,
           HasNode(buckets, n), v.fails <= k, w => maint.same /\ (maint.node = n => missed[n] <= k),
           health' = [health EXCEPT ![n] = v], missed' = [missed EXCEPT ![n] = k],
           maint' = [maint EXCEPT !.same = w], UNCHANGED <<buckets, members>>
    PROVE  RtInv'
<1>1. /\ health' \in [Distances -> HealthState] /\ health'[n] = v
      /\ \A m \in Distances : m # n => health'[m] = health[m]
  BY HealthSet, Zenon
<1>2. /\ missed' \in [Distances -> Nat] /\ missed'[n] = k
      /\ \A m \in Distances : m # n => missed'[m] = missed[m]
  BY MissedSet, Zenon
<1>3. maint \in MaintState
  BY Zenon DEF RtInv, RtTypeOK
<1>4. /\ maint' \in MaintState /\ maint'.same = w /\ maint'.pc = maint.pc
      /\ maint'.node = maint.node /\ maint'.bucket = maint.bucket /\ maint'.fails = maint.fails
  BY <1>3, Zenon DEF MaintState
<1>5. FailuresTrue'
  <2> SUFFICES ASSUME NEW m \in Distances
               PROVE  health'[m].fails <= missed'[m] /\ (~HasNode(buckets, m) => health'[m].fails = 0)
    BY Zenon DEF FailuresTrue
  <2>1. CASE m = n
    BY <1>1, <1>2, <2>1, Zenon
  <2>2. CASE m # n
    BY <1>1, <1>2, <2>2, Zenon DEF RtInv, FailuresTrue
  <2> QED  BY <2>1, <2>2, Zenon
<1>6. ProbeTrue'
  <2> SUFFICES ASSUME maint.pc = "probe"
               PROVE  /\ maint.node \in Distances /\ maint.bucket \in 1..Len(buckets)
                      /\ maint.node \in Range(buckets[maint.bucket].nodes)
                      /\ w => maint.fails <= missed'[maint.node]
    BY <1>4, Zenon DEF ProbeTrue
  <2>1. /\ maint.node \in Distances /\ maint.bucket \in 1..Len(buckets)
        /\ maint.node \in Range(buckets[maint.bucket].nodes)
        /\ maint.same => maint.fails <= missed[maint.node]
    BY Zenon DEF RtInv, ProbeTrue
  <2>2. maint.fails \in Nat /\ missed[maint.node] \in Nat
    BY <1>3, <2>1, NodeFacts, Zenon DEF MaintState
  <2>3. ASSUME w PROVE maint.fails <= missed'[maint.node]
    <3>1. CASE maint.node = n
      BY <1>2, <2>1, <2>2, <2>3, <3>1
    <3>2. CASE maint.node # n
      BY <1>2, <2>1, <2>3, <3>2, Zenon
    <3> QED  BY <3>1, <3>2, Zenon
  <2> QED  BY <2>1, <2>3, Zenon
<1>7. DropTrue'
  BY <1>2, <1>4, Zenon DEF RtInv, DropTrue
<1>8. MembersTrue'
  BY Zenon DEF RtInv, MembersTrue
<1> QED  BY <1>1, <1>2, <1>4, <1>5, <1>6, <1>7, <1>8, Zenon DEF RtInv, RtTypeOK

LEMMA SetHealthInv ==
    ASSUME RtInv, NEW n \in Distances, NEW f \in 0..(RemoveAfterFailures - 1), NEW at, RtSetHealth(n, f, at)
    PROVE  RtInv'
<1> DEFINE v == [stale |-> IF at = "kept" THEN health[n].stale ELSE at = "old", fails |-> f]
           k == IF at = "kept" /\ f < missed[n] THEN missed[n] ELSE f
           w == maint.same /\ (at = "kept" \/ maint.node # n)
<1>1. health[n] \in HealthState /\ missed[n] \in Nat /\ f \in Nat
  BY NodeFacts, RtAssumption
<1>2. v \in HealthState /\ v.fails = f
  <2>1. health[n].stale \in BOOLEAN
    BY <1>1, Zenon DEF HealthState
  <2>2. (IF at = "kept" THEN health[n].stale ELSE at = "old") \in BOOLEAN
    BY <2>1, Zenon
  <2> QED  BY <1>1, <2>2, Zenon DEF HealthState
<1>3. k \in Nat /\ f <= k /\ (at = "kept" => missed[n] <= k)
  BY <1>1
<1>4. w \in BOOLEAN /\ (w => maint.same /\ (maint.node = n => missed[n] <= k))
  <2>1. maint.same \in BOOLEAN
    BY Zenon DEF RtInv, RtTypeOK, MaintState
  <2> HIDE DEF k
  <2> QED  BY <1>3, <2>1, Zenon
<1>5. HasNode(buckets, n)
  BY ListedIs, Zenon DEF RtSetHealth
<1>6. /\ health' = [health EXCEPT ![n] = v] /\ missed' = [missed EXCEPT ![n] = k]
      /\ maint' = [maint EXCEPT !.same = w] /\ UNCHANGED <<buckets, members>>
  BY Zenon DEF RtSetHealth
<1> HIDE DEF v, k, w
<1> QED  BY <1>2, <1>3, <1>4, <1>5, <1>6, RecordStep, Zenon

LEMMA AgesInv == ASSUME RtInv, NEW n \in Distances, RtAges(n) PROVE RtInv'
<1> DEFINE v == [health[n] EXCEPT !.stale = TRUE]
<1>1. health[n] \in HealthState /\ missed[n] \in Nat /\ health[n].fails <= missed[n]
  BY NodeFacts, Zenon DEF RtInv, FailuresTrue
<1>2. v \in HealthState /\ v.fails = health[n].fails
  BY <1>1, Zenon DEF HealthState
<1>3. HasNode(buckets, n)
  BY ListedIs, Zenon DEF RtAges
<1>4. health' = [health EXCEPT ![n] = v]
  BY DEF RtAges
<1>5. UNCHANGED <<buckets, maint, missed, members>>
  BY DEF RtAges
<1> HIDE DEF v
<1>6. missed' = [missed EXCEPT ![n] = missed[n]]
  BY <1>5 DEF RtInv, RtTypeOK
<1>7. maint \in MaintState
  BY Zenon DEF RtInv, RtTypeOK
<1>8. maint' = [maint EXCEPT !.same = maint.same] /\ maint.same \in BOOLEAN
  BY <1>5, <1>7, Zenon DEF MaintState
<1>9. missed[n] <= missed[n]
  BY <1>1
<1> QED  BY <1>1, <1>2, <1>3, <1>4, <1>5, <1>6, <1>8, <1>9, RecordStep, Zenon

\* A step of maintenance that leaves the table alone.
LEMMA MaintStep ==
    ASSUME RtInv, maint' \in MaintState, ProbeTrue', DropTrue', UNCHANGED <<buckets, health, missed, members>>
    PROVE  RtInv'
  BY DEF RtInv, RtTypeOK, FailuresTrue, MembersTrue

LEMMA StartsInv == ASSUME RtInv, MaintStarts PROVE RtInv'
<1> DEFINE t == [i \in 1..Len(buckets) |-> <<buckets[i].sl, buckets[i].el>>]
<1>1. Len(buckets) \in Nat /\ \A i \in 1..Len(buckets) : buckets[i].sl \in Nat /\ buckets[i].el \in Nat
  BY RangeNumbers, Zenon DEF RtInv, TableGood
<1>2. t \in Seq(Nat \X Nat)
  BY <1>1
<1>3. maint' = [NoMaint EXCEPT !.pc = "next", !.todo = t] /\ UNCHANGED <<buckets, health, missed, members>>
  BY DEF MaintStarts
<1> HIDE DEF t
<1>4. maint' = [pc |-> "next", todo |-> t, node |-> -1, same |-> FALSE, fails |-> 0, bucket |-> 0]
  BY <1>3, Zenon DEF NoMaint
<1>5. maint' \in MaintState /\ maint'.pc = "next"
  BY <1>2, <1>4 DEF MaintState
<1> QED  BY <1>3, <1>5, BetweenProbes, MaintStep, Zenon

\* The round goes on with the buckets that are left.
LEMMA MaintBackIs ==
    ASSUME RtInv
    PROVE  /\ maint.todo \in Seq(Nat \X Nat) /\ MaintBack \in MaintState /\ MaintBack.pc = "next"
           /\ MaintBack = [pc |-> "next", todo |-> maint.todo, node |-> -1, same |-> FALSE, fails |-> 0, bucket |-> 0]
<1> DEFINE t == maint.todo
<1>1. t \in Seq(Nat \X Nat)
  BY DEF RtInv, RtTypeOK, MaintState
<1>2. MaintBack = [NoMaint EXCEPT !.pc = "next", !.todo = t]
  BY DEF MaintBack
<1> HIDE DEF t
<1>3. MaintBack = [pc |-> "next", todo |-> t, node |-> -1, same |-> FALSE, fails |-> 0, bucket |-> 0]
  BY <1>2, Zenon DEF NoMaint
<1>4. MaintBack \in MaintState /\ MaintBack.pc = "next"
  BY <1>1, <1>3 DEF MaintState
<1> QED  BY <1>1, <1>3, <1>4, Zenon DEF t

LEMMA NextInv == ASSUME RtInv, MaintNext PROVE RtInv'
<1> DEFINE at == {i \in 1..Len(buckets) : <<buckets[i].sl, buckets[i].el>> = Head(maint.todo)
                      /\ buckets[i].nodes # <<>> /\ health[Head(buckets[i].nodes)].stale}
           i == CHOOSE i \in at : TRUE
           n == Head(buckets[i].nodes)
<1>1. maint \in MaintState /\ maint.pc = "next" /\ UNCHANGED <<buckets, health, missed, members>> /\ TableGood(buckets)
  BY Zenon DEF MaintNext, RtInv, RtTypeOK
<1>2. CASE maint.todo = <<>>
  <2>1. maint' = NoMaint
    BY <1>2, Zenon DEF MaintNext
  <2>2. maint' \in MaintState /\ maint'.pc = "idle"
    BY <2>1 DEF NoMaint, MaintState
  <2> QED  BY <1>1, <2>2, BetweenProbes, MaintStep, Zenon
<1>3. CASE maint.todo # <<>> /\ at = {}
  <2>1. maint' = [maint EXCEPT !.todo = Tail(maint.todo)]
    BY <1>3, Zenon DEF MaintNext
  <2>2. Tail(maint.todo) \in Seq(Nat \X Nat)
    BY <1>1, <1>3 DEF MaintState
  <2> HIDE DEF at
  <2>3. maint' \in MaintState /\ maint'.pc = "next"
    BY <1>1, <2>1, <2>2, Zenon DEF MaintState
  <2> QED  BY <1>1, <2>3, BetweenProbes, MaintStep, Zenon
<1>4. CASE maint.todo # <<>> /\ at # {}
  <2>1. i \in at
    BY <1>4, Zenon
  <2>2. i \in 1..Len(buckets) /\ buckets[i].nodes # <<>>
    BY <2>1, Zenon
  <2>3. maint' = [maint EXCEPT !.pc = "probe", !.todo = Tail(maint.todo), !.node = n, !.bucket = i,
                               !.same = TRUE, !.fails = health[n].fails]
    BY <1>4, Zenon DEF MaintNext
  <2> HIDE DEF at, i
  <2>4. buckets[i].nodes \in Seq(Distances) /\ i \in Nat
    BY <1>1, <2>2, BucketFacts
  <2>5. n \in Range(buckets[i].nodes) /\ n \in Distances
    <3>1. 1 \in DOMAIN buckets[i].nodes /\ n = buckets[i].nodes[1]
      BY <2>2, <2>4
    <3> QED  BY <2>4, <3>1 DEF Range
  <2> HIDE DEF n
  <2>6. Tail(maint.todo) \in Seq(Nat \X Nat)
    BY <1>1, <1>4 DEF MaintState
  <2>7. health[n].fails \in Nat /\ health[n].fails <= missed[n]
    BY <2>5, NodeFacts, Zenon DEF RtInv, FailuresTrue
  <2> DEFINE f == health[n].fails
             r == Tail(maint.todo)
  <2>8. maint' = [maint EXCEPT !.pc = "probe", !.todo = r, !.node = n, !.bucket = i, !.same = TRUE, !.fails = f]
    BY <2>3, Zenon
  <2>9. f \in Nat /\ r \in Seq(Nat \X Nat) /\ f <= missed[n]
    BY <2>6, <2>7, Zenon
  <2> HIDE DEF f, r
  <2>10. maint' = [pc |-> "probe", todo |-> r, node |-> n, same |-> TRUE, fails |-> f, bucket |-> i]
    BY <1>1, <2>8, Zenon DEF MaintState
  <2>11. maint' \in MaintState
    BY <2>4, <2>5, <2>9, <2>10 DEF MaintState
  <2>12. ProbeTrue' /\ DropTrue'
    BY <1>1, <2>2, <2>5, <2>9, <2>10, Zenon DEF ProbeTrue, DropTrue
  <2> QED  BY <1>1, <2>11, <2>12, MaintStep
<1> QED  BY <1>2, <1>3, <1>4

LEMMA AnsweredInv == ASSUME RtInv, ProbeAnswered PROVE RtInv'
<1> DEFINE n == maint.node
           i == maint.bucket
<1>1. /\ maint.pc = "probe" /\ TableGood(buckets) /\ n \in Distances /\ i \in 1..Len(buckets)
      /\ n \in Range(buckets[i].nodes)
  BY DEF ProbeAnswered, RtInv, ProbeTrue
<1>2. maint' = MaintBack /\ members' = members
  BY Zenon DEF ProbeAnswered
<1>3. maint' \in MaintState /\ ProbeTrue' /\ DropTrue'
  BY <1>2, MaintBackIs, BetweenProbes, Zenon
<1>4. CASE ~ProbeCounts
  <2>1. UNCHANGED <<buckets, health, missed, members>>
    BY <1>2, <1>4, Zenon DEF ProbeAnswered
  <2> QED  BY <1>3, <2>1, MaintStep, Zenon
<1>5. CASE ProbeCounts
  <2>1. /\ buckets' = WithNodes(buckets, i, ToTail(buckets[i].nodes, n))
        /\ health' = [health EXCEPT ![n] = NewHealth] /\ missed' = [missed EXCEPT ![n] = 0]
    BY <1>5, Zenon DEF ProbeAnswered, WithNodes
  <2> HIDE DEF n, i
  <2>2. TableGood(buckets') /\ \A m : HasNode(buckets', m) <=> HasNode(buckets, m)
    BY <1>1, <2>1, MovesToTail, Zenon
  <2>3. /\ health' \in [Distances -> HealthState] /\ health'[n].fails = 0
        /\ \A m \in Distances : m # n => health'[m] = health[m]
    BY <1>1, <2>1, HealthSet, NewHealthIs, Zenon
  <2>4. missed' \in [Distances -> Nat] /\ missed'[n] = 0 /\ \A m \in Distances : m # n => missed'[m] = missed[m]
    BY <1>1, <2>1, MissedSet, Zenon
  <2>5. FailuresTrue'
    <3> SUFFICES ASSUME NEW m \in Distances
                 PROVE  health'[m].fails <= missed'[m] /\ (~HasNode(buckets', m) => health'[m].fails = 0)
      BY Zenon DEF FailuresTrue
    <3>1. CASE m = n
      BY <2>3, <2>4, <3>1
    <3>2. CASE m # n
      BY <2>2, <2>3, <2>4, <3>2, Zenon DEF RtInv, FailuresTrue
    <3> QED  BY <3>1, <3>2, Zenon
  <2>6. MembersTrue'
    BY <1>2, <2>2, Zenon DEF RtInv, MembersTrue
  <2> QED  BY <1>3, <2>2, <2>3, <2>4, <2>5, <2>6, Zenon DEF RtInv, RtTypeOK
<1> QED  BY <1>4, <1>5, Zenon

LEMMA MissedInv == ASSUME RtInv, ProbeMissed PROVE RtInv'
<1> DEFINE n == maint.node
           i == maint.bucket
           v == IF missed[n] < RemoveAfterFailures THEN missed[n] + 1 ELSE missed[n]
           w == [health[n] EXCEPT !.fails = maint.fails + 1]
<1>1. /\ maint.pc = "probe" /\ TableGood(buckets) /\ n \in Distances /\ i \in 1..Len(buckets)
      /\ n \in Range(buckets[i].nodes) /\ i \in Nat /\ maint.fails \in Nat
  BY Zenon DEF ProbeMissed, RtInv, ProbeTrue, RtTypeOK, MaintState
<1>2. RemoveAfterFailures \in Nat /\ missed[n] \in Nat /\ health[n] \in HealthState
  BY <1>1, NodeFacts, RtAssumption, Zenon
<1>3. HasNode(buckets, n)
  BY <1>1, Zenon DEF HasNode
<1>4. CASE ~ProbeCounts
  <2>1. maint' = MaintBack /\ UNCHANGED <<buckets, health, missed, members>>
    BY <1>4, Zenon DEF ProbeMissed
  <2>2. maint' \in MaintState /\ ProbeTrue' /\ DropTrue'
    BY <2>1, MaintBackIs, BetweenProbes, Zenon
  <2> QED  BY <2>1, <2>2, MaintStep, Zenon
<1>5. CASE ProbeCounts
  <2>1. maint.fails <= missed[n]
    BY <1>1, <1>5, Zenon DEF ProbeCounts, RtInv, ProbeTrue
  <2>2. v \in Nat /\ missed[n] <= v
    BY <1>2
  <2>3. missed' = [missed EXCEPT ![n] = v]
    BY <1>5, Zenon DEF ProbeMissed
  <2> HIDE DEF v
  <2>4. missed' \in [Distances -> Nat] /\ missed'[n] = v /\ \A m \in Distances : m # n => missed'[m] = missed[m]
    BY <1>1, <2>2, <2>3, MissedSet, Zenon
  <2>5. CASE maint.fails + 1 < RemoveAfterFailures
    <3>1. /\ health' = [health EXCEPT ![n] = w] /\ maint' = MaintBack /\ buckets' = buckets
          /\ members' = members
      BY <1>5, <2>5, Zenon DEF ProbeMissed
    <3>2. w \in HealthState /\ w.fails = maint.fails + 1 /\ w.fails <= v
      BY <1>1, <1>2, <2>1, <2>5 DEF HealthState, v
    <3> HIDE DEF w
    <3>3. /\ health' \in [Distances -> HealthState] /\ health'[n] = w
          /\ \A m \in Distances : m # n => health'[m] = health[m]
      BY <1>1, <3>1, <3>2, HealthSet, Zenon
    <3>4. FailuresTrue'
      <4> SUFFICES ASSUME NEW m \in Distances
                   PROVE  health'[m].fails <= missed'[m] /\ (~HasNode(buckets, m) => health'[m].fails = 0)
        BY <3>1, Zenon DEF FailuresTrue
      <4>1. CASE m = n
        BY <1>3, <2>4, <3>2, <3>3, <4>1, Zenon
      <4>2. CASE m # n
        BY <2>4, <3>3, <4>2, Zenon DEF RtInv, FailuresTrue
      <4> QED  BY <4>1, <4>2, Zenon
    <3>5. maint' \in MaintState /\ ProbeTrue' /\ DropTrue'
      BY <3>1, MaintBackIs, BetweenProbes, Zenon
    <3>6. MembersTrue'
      BY <3>1, Zenon DEF RtInv, MembersTrue
    <3> QED  BY <1>1, <2>4, <3>1, <3>3, <3>4, <3>5, <3>6, Zenon DEF RtInv, RtTypeOK
  <2>6. CASE ~(maint.fails + 1 < RemoveAfterFailures)
    <3>1. /\ health' = [health EXCEPT ![n] = NewHealth]
          /\ buckets' = WithNodes(buckets, i, CutOut(buckets[i].nodes, n))
          /\ maint' = [MaintBack EXCEPT !.pc = "replace", !.bucket = i, !.node = n]
          /\ members' = members \ {n}
      BY <1>5, <2>6, Zenon DEF ProbeMissed, WithNodes
    <3>2. v >= RemoveAfterFailures
      BY <1>1, <1>2, <2>1, <2>6 DEF v
    <3> DEFINE r == maint.todo
    <3>3. r \in Seq(Nat \X Nat)
      BY MaintBackIs, Zenon
    <3>4. MaintBack = [pc |-> "next", todo |-> r, node |-> -1, same |-> FALSE, fails |-> 0, bucket |-> 0]
      BY MaintBackIs
    <3> HIDE DEF n, i, r
    <3>5. maint' = [pc |-> "replace", todo |-> r, node |-> n, same |-> FALSE, fails |-> 0, bucket |-> i]
      BY <3>1, <3>4, Zenon
    <3>6. maint' \in MaintState /\ maint'.pc = "replace" /\ maint'.node = n /\ maint'.bucket = i
      BY <1>1, <3>3, <3>5 DEF MaintState
    <3>7. /\ TableGood(buckets') /\ Len(buckets') = Len(buckets)
          /\ ~HasNode(buckets', n) /\ \A m : m # n => (HasNode(buckets', m) <=> HasNode(buckets, m))
      BY <1>1, <3>1, IsCutOut, Zenon
    <3>8. /\ health' \in [Distances -> HealthState] /\ health'[n].fails = 0
          /\ \A m \in Distances : m # n => health'[m] = health[m]
      BY <1>1, <3>1, HealthSet, NewHealthIs
    <3>9. FailuresTrue'
      <4> SUFFICES ASSUME NEW m \in Distances
                   PROVE  health'[m].fails <= missed'[m] /\ (~HasNode(buckets', m) => health'[m].fails = 0)
        BY DEF FailuresTrue
      <4>1. CASE m = n
        BY <2>2, <2>4, <3>8, <4>1
      <4>2. CASE m # n
        BY <2>4, <3>7, <3>8, <4>2, Zenon DEF RtInv, FailuresTrue
      <4> QED  BY <4>1, <4>2
    <3>10. ProbeTrue'
      BY <3>6, Zenon DEF ProbeTrue
    <3>11. DropTrue'
      BY <1>1, <2>4, <3>2, <3>6, <3>7, Zenon DEF DropTrue
    <3>12. MembersTrue'
      BY <3>1, <3>7, Zenon DEF RtInv, MembersTrue
    <3> QED  BY <2>4, <3>6, <3>7, <3>8, <3>9, <3>10, <3>11, <3>12, Zenon DEF RtInv, RtTypeOK
  <2> QED  BY <2>5, <2>6, Zenon
<1> QED  BY <1>4, <1>5

\* The cache of a bucket of the table is empty: no candidate is tried.
LEMMA ReplacesInv == ASSUME RtInv, MaintReplaces PROVE RtInv'
<1> DEFINE i == maint.bucket
<1>1. /\ TableGood(buckets) /\ i \in 1..Len(buckets) /\ maint.node \in Distances /\ ~HasNode(buckets, maint.node)
      /\ maint' = MaintBack /\ missed' = [missed EXCEPT ![maint.node] = 0] /\ members' = members
  BY Zenon DEF MaintReplaces, RtInv, DropTrue
<1>2. /\ buckets \in Seq(BucketState) /\ buckets[i] \in BucketState /\ buckets[i].cache = <<>>
  BY <1>1, BucketFacts, Zenon
<1>3. PICK k \in 0..Len(buckets[i].cache) :
         k = Len(buckets[i].cache) => buckets' = [buckets EXCEPT ![i].cache = <<>>] /\ UNCHANGED health
  BY Zenon DEF MaintReplaces
<1>4. k = Len(buckets[i].cache)
  BY <1>2, <1>3
<1>5. [buckets[i] EXCEPT !.cache = <<>>] = buckets[i]
  BY <1>2, Zenon DEF BucketState
<1>6. buckets' = [buckets EXCEPT ![i] = buckets[i]] /\ UNCHANGED health
  BY <1>3, <1>4, <1>5
<1>7. buckets' = buckets
  BY <1>1, <1>2, <1>6
<1>8. maint' \in MaintState /\ ProbeTrue' /\ DropTrue'
  BY <1>1, MaintBackIs, BetweenProbes, Zenon
<1>9. missed' \in [Distances -> Nat] /\ missed'[maint.node] = 0
      /\ \A m \in Distances : m # maint.node => missed'[m] = missed[m]
  BY <1>1, MissedSet, Zenon
<1>10. FailuresTrue'
  <2> SUFFICES ASSUME NEW m \in Distances
               PROVE  health[m].fails <= missed'[m] /\ (~HasNode(buckets, m) => health[m].fails = 0)
    BY <1>6, <1>7, Zenon DEF FailuresTrue
  <2>1. CASE m = maint.node
    <3>1. health[m].fails = 0
      BY <1>1, <2>1, Zenon DEF RtInv, FailuresTrue
    <3>2. missed'[m] = 0
      BY <1>9, <2>1, Zenon
    <3> QED  BY <3>1, <3>2
  <2>2. CASE m # maint.node
    BY <1>9, <2>2, Zenon DEF RtInv, FailuresTrue
  <2> QED  BY <2>1, <2>2, Zenon
<1>11. MembersTrue'
  BY <1>1, <1>7, Zenon DEF RtInv, MembersTrue
<1> QED  BY <1>6, <1>7, <1>8, <1>9, <1>10, <1>11, Zenon DEF RtInv, RtTypeOK

LEMMA RtInitInv == ASSUME RtInit PROVE RtInv
<1>6. TableGood(buckets) /\ (\A n : ~HasNode(buckets, n)) /\ members = {}
  BY EmptyTable, Zenon DEF RtInit
<1>7. maint = NoMaint /\ NoMaint \in MaintState /\ NoMaint.pc = "idle"
  BY DEF RtInit, NoMaint, MaintState
<1>8. \A n \in Distances : health[n] = NewHealth /\ missed[n] = 0
  BY Zenon DEF RtInit
<1>9. health \in [Distances -> HealthState] /\ missed \in [Distances -> Nat]
  BY NewHealthIs, Zenon DEF RtInit
<1>10. FailuresTrue
  BY <1>8, NewHealthIs DEF FailuresTrue
<1>11. ProbeTrue /\ DropTrue /\ MembersTrue
  BY <1>6, <1>7, Zenon DEF ProbeTrue, DropTrue, MembersTrue
<1> QED  BY <1>6, <1>7, <1>9, <1>10, <1>11, Zenon DEF RtInv, RtTypeOK

\* One step per operation of the table and of its maintenance.
LEMMA RtInvStep == ASSUME RtInv, [RtNext]_rtVars PROVE RtInv'
<1>1. CASE \E n \in Distances : RtAdd(n) \/ RtRemove(n) \/ RtTouch(n) \/ RtAges(n)
  BY <1>1, AddInv, RemoveInv, TouchInv, AgesInv, Zenon
<1>2. CASE \E n \in Distances : \E f \in 0..(RemoveAfterFailures - 1) : \E at \in {"kept", "old", "now"} :
               RtSetHealth(n, f, at)
  BY <1>2, SetHealthInv, Zenon
<1>3. CASE MaintStarts
  BY <1>3, StartsInv, Zenon
<1>4. CASE MaintNext
  BY <1>4, NextInv, Zenon
<1>5. CASE ProbeAnswered
  BY <1>5, AnsweredInv
<1>6. CASE ProbeMissed
  BY <1>6, MissedInv
<1>7. CASE MaintReplaces
  BY <1>7, ReplacesInv
<1>8. CASE UNCHANGED rtVars
  BY <1>8 DEF rtVars, RtInv, RtTypeOK, FailuresTrue, ProbeTrue, DropTrue, MembersTrue
<1>9. CASE RtClear
  BY <1>9, ClearInv, Zenon
<1> QED  BY <1>1, <1>2, <1>3, <1>4, <1>5, <1>6, <1>7, <1>8, <1>9, Zenon DEF RtNext

LEMMA RtInvSound == ASSUME RtInv PROVE RoutingTableSound
<1>1. TableGood(buckets) /\ RangesFollow(buckets) /\ Len(buckets) \in Nat
  BY RangeNumbers, Zenon DEF RtInv, TableGood
<1>2. ASSUME NEW i \in 1..Len(buckets)
      PROVE  LET b == buckets[i] IN
             /\ b.sl <= b.el /\ Len(b.nodes) <= maxSize /\ Len(b.cache) <= maxSize
             /\ IsInjective(b.nodes \o b.cache)
             /\ Range(b.nodes) \cup Range(b.cache) \subseteq b.sl..b.el
             /\ i > 1 => b.sl = buckets[i - 1].el + 1
  <2>1. /\ buckets[i].nodes \in Seq(Distances) /\ IsInjective(buckets[i].nodes)
        /\ Len(buckets[i].nodes) <= maxSize /\ buckets[i].cache = <<>>
        /\ buckets[i].sl \in Nat /\ buckets[i].el \in Nat
        /\ \A n \in Range(buckets[i].nodes) : n \in Distances /\ InRange(buckets[i], n)
    BY <1>1, BucketFacts, Zenon
  <2>2. buckets[i].nodes \o buckets[i].cache = buckets[i].nodes
    BY <2>1
  <2>3. Range(buckets[i].cache) = {} /\ Len(buckets[i].cache) = 0
    BY <2>1 DEF Range
  <2>4. \A n \in Distances : n \in Nat
    BY RtAssumption
  <2>5. Range(buckets[i].nodes) \subseteq buckets[i].sl..buckets[i].el
    BY <2>1, <2>4 DEF InRange
  <2>6. buckets[i].sl <= buckets[i].el /\ (i > 1 => buckets[i].sl = buckets[i - 1].el + 1)
    BY <1>1 DEF RangesFollow
  <2>7. maxSize >= 0
    BY RtAssumption
  <2>8. Len(buckets[i].cache) <= maxSize /\ IsInjective(buckets[i].nodes \o buckets[i].cache)
    BY <2>1, <2>2, <2>3, <2>7, Zenon
  <2>9. Range(buckets[i].nodes) \cup Range(buckets[i].cache) \subseteq buckets[i].sl..buckets[i].el
    BY <2>3, <2>5, Zenon
  <2> QED  BY <2>1, <2>6, <2>8, <2>9, Zenon
<1>3. buckets[1].sl = 0 /\ buckets[Len(buckets)].el = MaxDistance
  BY <1>1, Zenon DEF RangesFollow
<1>4. TableSound
  BY <1>2, <1>3, Zenon DEF TableSound
<1>5. DroppedWasSilent
  BY Zenon DEF RtInv, DropTrue, DroppedWasSilent
<1>6. HoldsItsMembers
  <2>1. \A n \in Distances : n \in members <=> Listed(n)
    BY ListedIs, Zenon DEF RtInv, MembersTrue
  <2>2. members \subseteq Distances
    BY Zenon DEF RtInv, MembersTrue
  <2> QED  BY <2>1, <2>2, Zenon DEF HoldsItsMembers
<1> QED  BY <1>4, <1>5, <1>6, Zenon DEF RoutingTableSound

\* However many nodes come, go, answer or stay silent, and whatever
\* maintenance probes meanwhile, the buckets of the table cover the space of
\* distances one after another, every node is once in the bucket of its
\* distance, maintenance drops only nodes with RemoveAfterFailures failures
\* in a row, and the table holds exactly the nodes AddNode found room for,
\* less those removed or dropped since: no split loses one, and no candidate
\* of a replacement cache fills a place (AddNode, splitBucket, Remove, Touch,
\* SetNodeHealth, Clear, Maintain).
THEOREM RoutingTableStaysSound == RtSpec => []RoutingTableSound
<1>1. RtInit => RtInv
  BY RtInitInv
<1>2. RtInv /\ [RtNext]_rtVars => RtInv'
  BY RtInvStep
<1>3. RtInv => RoutingTableSound
  BY RtInvSound
<1> QED  BY <1>1, <1>2, <1>3, PTL DEF RtSpec

-----------------------------------------------------------------------------
(* LogArchive: the invariant.                                                *)

\* A file is the set of its lines.
File == SUBSET Nat
ActiveFile == [lines : File, open : BOOLEAN]
ArchiverState == [pc : {"idle", "pack", "remove"}, file : File]
LogHistory == [count : Nat, kept : SUBSET Nat, expired : SUBSET Nat]

LogTypeOK ==
    /\ active \in ActiveFile /\ pendingLogs \subseteq File /\ IsFiniteSet(pendingLogs)
    /\ archives \subseteq File
    /\ archiveQueue \in Seq(File) /\ archiveTasks \in Int
    /\ tasksOf \in [Goroutines -> Seq(File)]
    /\ archiver \in ArchiverState /\ logged \in LogHistory

\* The rotated files that goroutines have yet to queue, each by its place.
Unqueued(tasks) == UNION {{g} \X (1..Len(tasks[g])) : g \in Goroutines}
InHand(a) == IF a.pc = "idle" THEN 0 ELSE 1

\* archiveTasks counts the files that are rotated and not yet packed, in the
\* goroutines' hands, in the channel and in the archive loop's.
TasksCounted ==
    /\ IsFiniteSet(Unqueued(tasksOf))
    /\ archiveTasks = Cardinality(Unqueued(tasksOf)) + Len(archiveQueue) + InHand(archiver)

\* The loop removes a file only when its archive is published; the opener has
\* nothing in its hands before it looks at .pending.
ArchiverSteps ==
    /\ archiver.pc = "idle" => archiver = NoArchive
    /\ archiver.pc = "remove" => archiver.file \in archives
    /\ sink = "starting" => tasksOf["opener"] = <<>>

LogInv == LogTypeOK /\ TasksCounted /\ ArchiverSteps /\ NoLogLost /\ CloseDrains

-----------------------------------------------------------------------------
(* LogArchive: counting the tasks.                                           *)

LEMMA UnqueuedPairs ==
    ASSUME NEW tasks
    PROVE  \A x : x \in Unqueued(tasks) <=> \E g \in Goroutines : \E i \in 1..Len(tasks[g]) : x = <<g, i>>
BY DEF Unqueued

\* A goroutine that had none has new tasks.
LEMMA UnqueuedGrows ==
    ASSUME NEW tasks \in [Goroutines -> Seq(File)], IsFiniteSet(Unqueued(tasks)),
           NEW g \in Goroutines, tasks[g] = <<>>, NEW s \in Seq(File)
    PROVE  /\ IsFiniteSet(Unqueued([tasks EXCEPT ![g] = s]))
           /\ Cardinality(Unqueued([tasks EXCEPT ![g] = s])) = Cardinality(Unqueued(tasks)) + Len(s)
<1> DEFINE t == [tasks EXCEPT ![g] = s]
           more == {g} \X (1..Len(s))
<1>1. Len(s) \in Nat /\ Len(<<>>) = 0
  OBVIOUS
<1>2. \A h \in Goroutines : t[h] = IF h = g THEN s ELSE tasks[h]
  OBVIOUS
<1> HIDE DEF t
<1>3. Unqueued(t) = Unqueued(tasks) \cup more
  <2>1. \A i \in 1..Len(tasks[g]) : FALSE
    BY <1>1
  <2> QED  BY <1>2, <2>1 DEF Unqueued
<1>4. Unqueued(tasks) \cap more = {}
  <2>1. \A i \in 1..Len(tasks[g]) : FALSE
    BY <1>1
  <2> QED  BY <2>1 DEF Unqueued
<1>5. IsFiniteSet(more) /\ Cardinality(more) = Len(s)
  <2>1. IsFiniteSet(1..Len(s)) /\ Cardinality(1..Len(s)) = Len(s)
    <3> DEFINE n == Len(s)
    <3>1. n \in Nat
      BY <1>1
    <3> HIDE DEF n
    <3>2. 1 \in Int /\ n \in Int /\ (IF 1 > n THEN 0 ELSE n - 1 + 1) = n
      BY <3>1
    <3>3. IsFiniteSet(1..n) /\ Cardinality(1..n) = IF 1 > n THEN 0 ELSE n - 1 + 1
      BY <3>2, FS_Interval, Zenon
    <3> QED  BY <3>2, <3>3 DEF n
  <2>2. IsFiniteSet({g}) /\ Cardinality({g}) = 1
    BY FS_Singleton, Zenon
  <2>3. IsFiniteSet(more) /\ Cardinality(more) = 1 * Len(s)
    <3> DEFINE I == 1..Len(s)
    <3>1. IsFiniteSet(I) /\ Cardinality(I) = Len(s)
      BY <2>1
    <3> HIDE DEF I
    <3>2. IsFiniteSet({g} \X I) /\ Cardinality({g} \X I) = Cardinality({g}) * Cardinality(I)
      BY <3>1, <2>2, FS_Product, Zenon
    <3> QED  BY <3>1, <3>2, <2>2 DEF I
  <2> QED  BY <2>3, <1>1
<1>6. /\ IsFiniteSet(Unqueued(t))
      /\ Cardinality(Unqueued(t)) = Cardinality(Unqueued(tasks)) + Cardinality(more) - Cardinality({})
  BY <1>3, <1>4, <1>5, FS_Union, SMTT(30)
<1>7. Cardinality(Unqueued(tasks)) \in Nat /\ Cardinality({}) = 0
  BY FS_CardinalityType, FS_EmptySet
<1> QED  BY <1>1, <1>5, <1>6, <1>7 DEF t

\* A goroutine queues its next task.
LEMMA UnqueuedShrinks ==
    ASSUME NEW tasks \in [Goroutines -> Seq(File)], IsFiniteSet(Unqueued(tasks)),
           NEW g \in Goroutines, tasks[g] # <<>>
    PROVE  /\ IsFiniteSet(Unqueued([tasks EXCEPT ![g] = Tail(tasks[g])]))
           /\ Cardinality(Unqueued([tasks EXCEPT ![g] = Tail(tasks[g])])) = Cardinality(Unqueued(tasks)) - 1
<1> DEFINE n == Len(tasks[g])
           tl == Tail(tasks[g])
           t == [tasks EXCEPT ![g] = tl]
<1>1. tasks[g] \in Seq(File) /\ n \in Nat /\ n >= 1
  OBVIOUS
<1>2. tl \in Seq(File) /\ Len(tl) = n - 1
  BY <1>1, HeadTailProperties
<1> HIDE DEF tl
<1>3. \A h \in Goroutines : t[h] = IF h = g THEN tl ELSE tasks[h]
  OBVIOUS
<1>4. 1..(n - 1) = (1..n) \ {n} /\ n \in 1..n
  BY <1>1
<1> HIDE DEF n, t
<1>5. Unqueued(t) = Unqueued(tasks) \ {<<g, n>>}
  <2>1. \A h \in Goroutines : 1..Len(t[h]) = IF h = g THEN (1..n) \ {n} ELSE 1..Len(tasks[h])
    BY <1>2, <1>3, <1>4, Zenon
  <2>2. 1..Len(tasks[g]) = 1..n
    BY DEF n
  <2>3. ASSUME NEW x PROVE x \in Unqueued(t) <=> x \in Unqueued(tasks) /\ x # <<g, n>>
    <3>1. ASSUME NEW h \in Goroutines, NEW i
          PROVE  i \in 1..Len(t[h]) <=> i \in 1..Len(tasks[h]) /\ <<h, i>> # <<g, n>>
      BY <2>1, <2>2, Zenon
    <3> QED  BY <3>1, UnqueuedPairs
  <2> QED  BY <2>3
<1>6. <<g, n>> \in Unqueued(tasks)
  BY <1>4 DEF Unqueued, n
<1> QED  BY <1>5, <1>6, FS_RemoveElement, Zenon DEF t, tl

LEMMA UnqueuedNone ==
    ASSUME NEW tasks, \A g \in Goroutines : tasks[g] = <<>>
    PROVE  IsFiniteSet(Unqueued(tasks)) /\ Cardinality(Unqueued(tasks)) = 0
<1>1. Len(<<>>) = 0 /\ 1..0 = {}
  OBVIOUS
<1>2. Unqueued(tasks) = {}
  BY <1>1 DEF Unqueued
<1> QED  BY <1>2, FS_EmptySet

\* The converse: a count of zero leaves nothing to queue.
LEMMA UnqueuedEmpty ==
    ASSUME NEW tasks \in [Goroutines -> Seq(File)], IsFiniteSet(Unqueued(tasks)),
           Cardinality(Unqueued(tasks)) = 0
    PROVE  \A g \in Goroutines : tasks[g] = <<>>
<1> SUFFICES ASSUME NEW g \in Goroutines, tasks[g] # <<>> PROVE FALSE
  OBVIOUS
<1>1. tasks[g] \in Seq(File) /\ 1 \in 1..Len(tasks[g])
  OBVIOUS
<1>2. <<g, 1>> \in Unqueued(tasks)
  BY <1>1 DEF Unqueued
<1> QED  BY <1>2, FS_EmptySet

-----------------------------------------------------------------------------
(* LogArchive: the steps.                                                    *)

RotationState == [lines : File, open : BOOLEAN, pend : SUBSET File, new : Seq(File), failed : BOOLEAN]

\* A rotation, whether it fails or not, moves lines from the active file to
\* .pending and loses none.
LEMMA RotationKeepsLines ==
    ASSUME NEW f \in ActiveFile, NEW pend \in SUBSET File, IsFiniteSet(pend),
           NEW r \in Rotations(f, pend) \cup {NoRotation(f, pend)}
    PROVE  /\ r \in RotationState /\ IsFiniteSet(r.pend)
           /\ r.lines \cup (UNION r.pend) = f.lines \cup (UNION pend)
<1>1. f.lines \in File /\ f.open \in BOOLEAN /\ {} \in File
  BY DEF ActiveFile, File
<1>2. pend \cup {f.lines} \in SUBSET File /\ IsFiniteSet(pend \cup {f.lines})
  BY <1>1, FS_AddElement
<1>3. <<>> \in Seq(File) /\ <<f.lines>> \in Seq(File)
  BY <1>1
<1>4. /\ r.lines \in File /\ r.open \in BOOLEAN /\ r.failed \in BOOLEAN /\ r.new \in {<<>>, <<f.lines>>}
      /\ \/ r.lines = f.lines /\ r.pend = pend
         \/ r.lines = {} /\ r.pend = pend \cup {f.lines}
      /\ r = Rotation(r.lines, r.open, r.pend, r.new, r.failed)
  <2>1. \E open \in BOOLEAN, new \in {<<>>, <<f.lines>>}, failed \in BOOLEAN :
           \/ r = Rotation(f.lines, open, pend, new, failed)
           \/ r = Rotation({}, open, pend \cup {f.lines}, new, failed)
    BY <1>1, Zenon DEF Rotations, RotationsDone, RotationsFailed, NoRotation
  <2>2. PICK open \in BOOLEAN, new \in {<<>>, <<f.lines>>}, failed \in BOOLEAN :
           \/ r = Rotation(f.lines, open, pend, new, failed)
           \/ r = Rotation({}, open, pend \cup {f.lines}, new, failed)
    BY <2>1, Zenon
  <2>3. CASE r = Rotation(f.lines, open, pend, new, failed)
    BY <1>1, <2>3, Zenon DEF Rotation
  <2>4. CASE r = Rotation({}, open, pend \cup {f.lines}, new, failed)
    BY <1>1, <2>4 DEF Rotation
  <2> QED  BY <2>2, <2>3, <2>4
<1>5. r.pend \in SUBSET File /\ IsFiniteSet(r.pend)
  BY <1>2, <1>4, Zenon
<1>6. r \in RotationState
  BY <1>3, <1>4, <1>5, Zenon DEF Rotation, RotationState
<1>7. r.lines \cup (UNION r.pend) = f.lines \cup (UNION pend)
  BY <1>4
<1> QED  BY <1>5, <1>6, <1>7

\* A goroutine without tasks has rotated files; lines may have been written.
LEMMA LogInvRotated ==
    ASSUME LogInv, NEW g \in Goroutines, tasksOf[g] = <<>>, NEW s \in Seq(File),
           tasksOf' = [tasksOf EXCEPT ![g] = s], archiveTasks' = archiveTasks + Len(s),
           active' \in ActiveFile, pendingLogs' \subseteq File, IsFiniteSet(pendingLogs'), logged' \in LogHistory,
           UNCHANGED <<archives, archiveQueue, archiver>>,
           NoLogLost', sink' # "closed", sink' = "starting" => sink = "starting" /\ g # "opener"
    PROVE  LogInv'
<1>1. /\ tasksOf \in [Goroutines -> Seq(File)] /\ IsFiniteSet(Unqueued(tasksOf)) /\ archiveTasks \in Int
      /\ archiveQueue \in Seq(File) /\ Len(archiveQueue) \in Nat /\ Len(s) \in Nat
  BY DEF LogInv, LogTypeOK, TasksCounted
<1>2. LogTypeOK'
  BY <1>1 DEF LogInv, LogTypeOK
<1>3. /\ IsFiniteSet(Unqueued(tasksOf'))
      /\ Cardinality(Unqueued(tasksOf')) = Cardinality(Unqueued(tasksOf)) + Len(s)
      /\ Cardinality(Unqueued(tasksOf)) \in Nat
  BY <1>1, UnqueuedGrows, FS_CardinalityType, Zenon
<1>4. InHand(archiver) \in {0, 1} /\ InHand(archiver)' = InHand(archiver)
  BY DEF InHand
<1>5. archiveTasks' = Cardinality(Unqueued(tasksOf')) + Len(archiveQueue') + InHand(archiver')
  BY <1>1, <1>3, <1>4 DEF LogInv, TasksCounted
<1>6. TasksCounted'
  BY <1>3, <1>5, Zenon DEF TasksCounted
<1>7. ArchiverSteps'
  <2>1. sink' = "starting" => tasksOf'["opener"] = tasksOf["opener"]
    BY <1>1 DEF Goroutines
  <2> QED  BY <2>1 DEF LogInv, ArchiverSteps
<1>8. CloseDrains'
  BY DEF CloseDrains
<1> QED  BY <1>2, <1>6, <1>7, <1>8, Zenon DEF LogInv

LEMMA LogInvWrites ==
    ASSUME LogInv, NEW w \in LogWriters, LogWrites(w)
    PROVE  LogInv'
<1>1. /\ active \in ActiveFile /\ pendingLogs \in SUBSET File /\ IsFiniteSet(pendingLogs)
      /\ logged \in LogHistory /\ logged.count \in Nat
      /\ UNCHANGED <<archives, archiveQueue, archiver, sink>> /\ sink = "open" /\ tasksOf[w] = <<>> /\ w \in Goroutines
  BY DEF LogInv, LogTypeOK, LogHistory, LogWrites, Goroutines
<1> DEFINE line == logged.count + 1
           F(r) == [lines |-> IF r.open THEN r.lines \cup {line} ELSE r.lines, open |-> r.open]
<1>2. PICK r1 \in Rotations(active, pendingLogs) \cup {NoRotation(active, pendingLogs)} :
        \E r2 \in Rotations(F(r1), r1.pend) \cup {NoRotation(F(r1), r1.pend)} :
          /\ active' = [lines |-> r2.lines, open |-> r2.open]
          /\ pendingLogs' = r2.pend
          /\ tasksOf' = [tasksOf EXCEPT ![w] = r1.new \o r2.new]
          /\ archiveTasks' = archiveTasks + Len(r1.new \o r2.new)
          /\ logged' = [logged EXCEPT !.count = line, !.kept = IF r1.open THEN logged.kept \cup {line} ELSE logged.kept]
  BY Zenon DEF LogWrites, Counted
<1>3. /\ r1 \in RotationState /\ IsFiniteSet(r1.pend)
      /\ r1.lines \cup (UNION r1.pend) = active.lines \cup (UNION pendingLogs)
  BY <1>1, <1>2, RotationKeepsLines
<1>4. line \in Nat
  BY <1>1
<1> HIDE DEF line
<1>5. F(r1) \in ActiveFile /\ r1.pend \in SUBSET File /\ r1.open \in BOOLEAN /\ r1.new \in Seq(File)
  BY <1>3, <1>4, Zenon DEF RotationState, ActiveFile, File
<1> DEFINE f == F(r1)
<1>6. f.lines = IF r1.open THEN r1.lines \cup {line} ELSE r1.lines
  OBVIOUS
<1>7. PICK r2 \in Rotations(f, r1.pend) \cup {NoRotation(f, r1.pend)} :
          /\ active' = [lines |-> r2.lines, open |-> r2.open]
          /\ pendingLogs' = r2.pend
          /\ tasksOf' = [tasksOf EXCEPT ![w] = r1.new \o r2.new]
          /\ archiveTasks' = archiveTasks + Len(r1.new \o r2.new)
          /\ logged' = [logged EXCEPT !.count = line, !.kept = IF r1.open THEN logged.kept \cup {line} ELSE logged.kept]
  BY <1>2, Zenon
<1>8. f \in ActiveFile
  BY <1>5
<1> HIDE DEF f, F
<1>9. /\ r2 \in RotationState /\ IsFiniteSet(r2.pend)
      /\ r2.lines \cup (UNION r2.pend) = f.lines \cup (UNION r1.pend)
  BY <1>3, <1>5, <1>7, <1>8, RotationKeepsLines
<1> DEFINE s == r1.new \o r2.new
<1>10. /\ active' \in ActiveFile /\ active'.lines = r2.lines /\ pendingLogs' \subseteq File /\ IsFiniteSet(pendingLogs')
       /\ s \in Seq(File)
  BY <1>5, <1>7, <1>9 DEF RotationState, ActiveFile
<1> DEFINE k == IF r1.open THEN logged.kept \cup {line} ELSE logged.kept
<1>11. k \in SUBSET Nat
  BY <1>1, <1>4 DEF LogHistory
<1>12. logged' = [logged EXCEPT !.count = line, !.kept = k]
  BY <1>7
<1> HIDE DEF k
<1>13. logged' \in LogHistory /\ logged'.kept = k /\ logged'.expired = logged.expired
  BY <1>1, <1>4, <1>11, <1>12, Zenon DEF LogHistory
<1>14. NoLogLost'
  <2>1. logged.kept \subseteq active.lines \cup (UNION pendingLogs) \cup (UNION archives) \cup logged.expired
    BY Zenon DEF LogInv, NoLogLost
  <2>2. k \subseteq r2.lines \cup (UNION r2.pend) \cup (UNION archives) \cup logged.expired
    BY <1>3, <1>6, <1>9, <2>1 DEF k
  <2> QED  BY <1>1, <1>7, <1>10, <1>13, <2>2, Zenon DEF NoLogLost
<1>15. tasksOf' = [tasksOf EXCEPT ![w] = s] /\ archiveTasks' = archiveTasks + Len(s)
  BY <1>7
<1> HIDE DEF s
<1> QED  BY <1>1, <1>10, <1>13, <1>14, <1>15, LogInvRotated, Zenon

LEMMA LogInvRotates ==
    ASSUME LogInv, LogRotates
    PROVE  LogInv'
<1>1. /\ active \in ActiveFile /\ pendingLogs \in SUBSET File /\ IsFiniteSet(pendingLogs)
      /\ logged \in LogHistory /\ UNCHANGED <<archives, archiveQueue, archiver, sink, logged>>
      /\ sink \in {"starting", "open"} /\ tasksOf["rotation"] = <<>>
  BY DEF LogInv, LogTypeOK, LogRotates
<1>2. "rotation" \in Goroutines /\ "rotation" # "opener"
  BY LogAssumption DEF Goroutines
<1>3. PICK r \in Rotations(active, pendingLogs) :
          /\ active' = [lines |-> r.lines, open |-> r.open]
          /\ pendingLogs' = r.pend
          /\ tasksOf' = [tasksOf EXCEPT !["rotation"] = r.new]
          /\ archiveTasks' = archiveTasks + Len(r.new)
  BY Zenon DEF LogRotates, Counted
<1>4. /\ r \in RotationState /\ IsFiniteSet(r.pend)
      /\ r.lines \cup (UNION r.pend) = active.lines \cup (UNION pendingLogs)
  BY <1>1, <1>3, RotationKeepsLines, Zenon
<1>5. /\ active' \in ActiveFile /\ active'.lines = r.lines /\ pendingLogs' \subseteq File /\ IsFiniteSet(pendingLogs')
      /\ r.new \in Seq(File)
  BY <1>3, <1>4, Zenon DEF RotationState, ActiveFile
<1>6. NoLogLost'
  <2>1. logged.kept \subseteq active.lines \cup (UNION pendingLogs) \cup (UNION archives) \cup logged.expired
    BY DEF LogInv, NoLogLost
  <2> QED  BY <1>1, <1>3, <1>4, <1>5, <2>1, Zenon DEF NoLogLost
<1> QED  BY <1>1, <1>2, <1>3, <1>5, <1>6, LogInvRotated, Zenon

\* What is left in .pending goes to the opener; when .pending cannot be read,
\* it stays there.
LEMMA LogInvRecovers ==
    ASSUME LogInv, LogRecovers
    PROVE  LogInv'
<1>1. /\ pendingLogs \in SUBSET File /\ IsFiniteSet(pendingLogs) /\ active \in ActiveFile /\ logged \in LogHistory
      /\ UNCHANGED <<active, pendingLogs, archives, archiveQueue, archiver, logged>>
      /\ sink = "starting" /\ sink' = "open" /\ tasksOf["opener"] = <<>>
      /\ archiveTasks \in Int /\ tasksOf \in [Goroutines -> Seq(File)]
  BY DEF LogInv, LogTypeOK, ArchiverSteps, LogRecovers
<1>2. "opener" \in Goroutines
  BY Zenon DEF Goroutines
<1>3. NoLogLost'
  BY <1>1 DEF LogInv, NoLogLost
<1> DEFINE n == Cardinality(pendingLogs)
<1>4. n \in Nat
  BY <1>1, FS_CardinalityType
<1>5. CASE \E files \in Injection(1..n, pendingLogs) :
             tasksOf' = [tasksOf EXCEPT !["opener"] = files] /\ archiveTasks' = archiveTasks + n
  <2>1. PICK files \in [1..n -> pendingLogs] :
             tasksOf' = [tasksOf EXCEPT !["opener"] = files] /\ archiveTasks' = archiveTasks + n
    BY <1>5, Zenon DEF Injection
  <2> HIDE DEF n
  <2>2. files \in Seq(File) /\ Len(files) = n
    BY <1>1, <1>4, <2>1
  <2> QED  BY <1>1, <1>2, <1>3, <2>1, <2>2, LogInvRotated, Zenon
<1>6. CASE UNCHANGED <<tasksOf, archiveTasks>>
  <2>1. LogTypeOK' /\ CloseDrains'
    BY <1>1, <1>6, Zenon DEF LogInv, LogTypeOK, CloseDrains
  <2>2. TasksCounted'
    BY <1>1, <1>6, Zenon DEF LogInv, TasksCounted
  <2>3. ArchiverSteps'
    BY <1>1, <1>6 DEF LogInv, ArchiverSteps
  <2> QED  BY <1>3, <2>1, <2>2, <2>3, Zenon DEF LogInv
<1> QED  BY <1>5, <1>6, Zenon DEF LogRecovers

LEMMA LogInvQueues ==
    ASSUME LogInv, NEW g \in Goroutines, LogQueues(g)
    PROVE  LogInv'
<1> DEFINE h == Head(tasksOf[g])
           tl == Tail(tasksOf[g])
<1>1. /\ UNCHANGED <<active, pendingLogs, archives, archiveTasks, archiver, sink, logged>>
      /\ tasksOf[g] # <<>> /\ archiveQueue' = Append(archiveQueue, h) /\ tasksOf' = [tasksOf EXCEPT ![g] = tl]
  BY DEF LogQueues
<1>2. /\ tasksOf \in [Goroutines -> Seq(File)] /\ IsFiniteSet(Unqueued(tasksOf)) /\ tasksOf[g] \in Seq(File)
      /\ archiveQueue \in Seq(File) /\ Len(archiveQueue) \in Nat /\ archiveTasks \in Int
  BY DEF LogInv, LogTypeOK, TasksCounted
<1>3. h \in File /\ tl \in Seq(File)
  BY <1>1, <1>2, HeadTailProperties
<1>4. /\ IsFiniteSet(Unqueued(tasksOf')) /\ Cardinality(Unqueued(tasksOf)) \in Nat
      /\ Cardinality(Unqueued(tasksOf')) = Cardinality(Unqueued(tasksOf)) - 1
  BY <1>1, <1>2, UnqueuedShrinks, FS_CardinalityType, Zenon
<1>5. sink # "closed" /\ (sink = "starting" => g # "opener")
  BY <1>1 DEF LogInv, CloseDrains, ArchiverSteps
<1> HIDE DEF h, tl
<1>6. archiveQueue' \in Seq(File) /\ Len(archiveQueue') = Len(archiveQueue) + 1
  BY <1>1, <1>2, <1>3
<1>7. LogTypeOK'
  BY <1>1, <1>2, <1>3, <1>6, Zenon DEF LogInv, LogTypeOK
<1>8. TasksCounted'
  <2>1. InHand(archiver) \in {0, 1} /\ InHand(archiver') = InHand(archiver)
    BY <1>1, Zenon DEF InHand
  <2>2. archiveTasks' = Cardinality(Unqueued(tasksOf')) + Len(archiveQueue') + InHand(archiver')
    BY <1>1, <1>2, <1>4, <1>6, <2>1 DEF LogInv, TasksCounted
  <2> QED  BY <1>4, <2>2 DEF TasksCounted
<1>9. ArchiverSteps' /\ CloseDrains' /\ NoLogLost'
  BY <1>1, <1>2, <1>5, Zenon DEF LogInv, ArchiverSteps, CloseDrains, NoLogLost, Goroutines
<1> QED  BY <1>7, <1>8, <1>9, Zenon DEF LogInv

\* The archive loop takes a task.
LEMMA LogInvTakes ==
    ASSUME LogInv, ArchTakes
    PROVE  LogInv'
<1>1. /\ UNCHANGED <<active, pendingLogs, archives, archiveTasks, tasksOf, sink, logged>>
      /\ sink # "closed" /\ archiver.pc = "idle" /\ archiveQueue # <<>>
      /\ archiver' = [pc |-> "pack", file |-> Head(archiveQueue)] /\ archiveQueue' = Tail(archiveQueue)
  BY DEF ArchTakes
<1>2. archiveQueue \in Seq(File) /\ Len(archiveQueue) \in Nat /\ archiveTasks \in Int
      /\ IsFiniteSet(Unqueued(tasksOf)) /\ Cardinality(Unqueued(tasksOf)) \in Nat
  BY FS_CardinalityType DEF LogInv, LogTypeOK, TasksCounted
<1>3. /\ Head(archiveQueue) \in File /\ archiveQueue' \in Seq(File) /\ Len(archiveQueue') = Len(archiveQueue) - 1
  BY <1>1, <1>2, HeadTailProperties, Zenon
<1>4. archiver' \in ArchiverState /\ archiver'.pc = "pack"
  BY <1>1, <1>3, Zenon DEF ArchiverState
<1>5. LogTypeOK'
  BY <1>1, <1>3, <1>4, Zenon DEF LogInv, LogTypeOK
<1>6. TasksCounted'
  <2>1. InHand(archiver) = 0 /\ InHand(archiver') = 1
    BY <1>1, <1>4, Zenon DEF InHand
  <2>2. archiveTasks' = Cardinality(Unqueued(tasksOf')) + Len(archiveQueue') + InHand(archiver')
    BY <1>1, <1>2, <1>3, <2>1 DEF LogInv, TasksCounted
  <2> QED  BY <1>1, <1>2, <2>2, Zenon DEF TasksCounted
<1>7. ArchiverSteps' /\ CloseDrains' /\ NoLogLost'
  BY <1>1, <1>4 DEF LogInv, ArchiverSteps, CloseDrains, NoLogLost
<1> QED  BY <1>5, <1>6, <1>7 DEF LogInv

\* The archive is published.
LEMMA LogInvPacks ==
    ASSUME LogInv, ArchPacks
    PROVE  LogInv'
<1>1. /\ UNCHANGED <<active, pendingLogs, archiveQueue, archiveTasks, tasksOf, sink, logged>>
      /\ archiver.pc = "pack" /\ archiver' = [archiver EXCEPT !.pc = "remove"]
      /\ archives' = archives \cup {archiver.file} /\ archiver \in ArchiverState
  BY DEF ArchPacks, LogInv, LogTypeOK
<1>2. archiver' \in ArchiverState /\ archiver'.pc = "remove" /\ archiver'.file = archiver.file
      /\ archiver.file \in File
  BY <1>1 DEF ArchiverState
<1>3. LogTypeOK'
  BY <1>1, <1>2 DEF LogInv, LogTypeOK
<1>4. InHand(archiver') = InHand(archiver)
  BY <1>1, <1>2 DEF InHand
<1>5. TasksCounted'
  BY <1>1, <1>4 DEF LogInv, TasksCounted
<1>6. ArchiverSteps' /\ CloseDrains'
  BY <1>1, <1>2 DEF LogInv, ArchiverSteps, CloseDrains
<1>7. NoLogLost'
  BY <1>1 DEF LogInv, NoLogLost
<1> QED  BY <1>3, <1>5, <1>6, <1>7 DEF LogInv

\* The archive loop is done with its task: the source is removed, or stays.
LEMMA LogInvTaskDone ==
    ASSUME LogInv, archiver.pc \in {"pack", "remove"}, archiver' = NoArchive, archiveTasks' = archiveTasks - 1,
           UNCHANGED <<active, archiveQueue, tasksOf, sink>>,
           pendingLogs' \subseteq pendingLogs, archives' \subseteq archives, logged' \in LogHistory, NoLogLost'
    PROVE  LogInv'
<1>1. /\ IsFiniteSet(Unqueued(tasksOf)) /\ Cardinality(Unqueued(tasksOf)) \in Nat /\ Len(archiveQueue) \in Nat
      /\ archiveTasks \in Int /\ IsFiniteSet(pendingLogs')
  BY FS_CardinalityType, FS_Subset DEF LogInv, LogTypeOK, TasksCounted
<1>2. NoArchive \in ArchiverState /\ NoArchive.pc = "idle"
  BY DEF NoArchive, ArchiverState, File
<1>3. LogTypeOK'
  BY <1>1, <1>2 DEF LogInv, LogTypeOK
<1>4. InHand(archiver) = 1 /\ InHand(archiver') = 0
  BY <1>2 DEF InHand
<1>5. archiveTasks' = Cardinality(Unqueued(tasksOf')) + Len(archiveQueue') + InHand(archiver')
  BY <1>1, <1>4 DEF LogInv, TasksCounted
<1>6. TasksCounted'
  BY <1>1, <1>5, Zenon DEF TasksCounted
<1>7. ArchiverSteps' /\ CloseDrains'
  BY <1>2 DEF LogInv, ArchiverSteps, CloseDrains
<1> QED  BY <1>3, <1>6, <1>7, Zenon DEF LogInv

LEMMA LogInvRemoves ==
    ASSUME LogInv, ArchRemoves \/ ArchFails
    PROVE  LogInv'
<1>1. logged \in LogHistory
  BY DEF LogInv, LogTypeOK
<1>2. CASE ArchFails
  <2>1. NoLogLost'
    BY <1>2 DEF ArchFails, LogInv, NoLogLost
  <2> QED  BY <1>1, <1>2, <2>1, LogInvTaskDone, Zenon DEF ArchFails
<1>3. CASE ArchRemoves
  <2>1. PICK old \in SUBSET archives :
           archives' = archives \ old /\ logged' = [logged EXCEPT !.expired = logged.expired \cup UNION old]
    BY <1>3, Zenon DEF ArchRemoves
  <2>2. archives \subseteq SUBSET Nat
    BY DEF LogInv, LogTypeOK, File
  <2> DEFINE e == logged.expired \cup (UNION old)
  <2>3. e \in SUBSET Nat
    BY <1>1, <2>1, <2>2 DEF LogHistory
  <2>4. logged' = [logged EXCEPT !.expired = e]
    BY <2>1
  <2> HIDE DEF e
  <2>5. logged' \in LogHistory /\ logged'.kept = logged.kept /\ logged'.expired = e
    BY <1>1, <2>3, <2>4 DEF LogHistory
  <2>6. /\ pendingLogs' = pendingLogs \ {archiver.file} /\ archiver.pc = "remove" /\ archiver.file \in archives
        /\ UNCHANGED active
    BY <1>3, Zenon DEF ArchRemoves, LogInv, ArchiverSteps
  <2>7. NoLogLost'
    <3>1. logged.kept \subseteq active.lines \cup (UNION pendingLogs) \cup (UNION archives) \cup logged.expired
      BY DEF LogInv, NoLogLost
    <3>2. (UNION pendingLogs) \subseteq (UNION pendingLogs') \cup (UNION archives)
      BY <2>6
    <3>3. (UNION archives) \cup logged.expired = (UNION archives') \cup e
      BY <2>1 DEF e
    <3> QED  BY <2>5, <2>6, <3>1, <3>2, <3>3, Zenon DEF NoLogLost
  <2> QED  BY <1>3, <2>1, <2>5, <2>6, <2>7, LogInvTaskDone DEF ArchRemoves
<1> QED  BY <1>2, <1>3

\* Close, a crash and the next start.
LEMMA LogInvOpensCloses ==
    ASSUME LogInv, LogCloses \/ LogClosed \/ LogCrashes \/ LogOpens
    PROVE  LogInv'
<1>1. /\ UNCHANGED <<pendingLogs, archives, logged>>
      /\ active \in ActiveFile /\ tasksOf \in [Goroutines -> Seq(File)] /\ IsFiniteSet(Unqueued(tasksOf))
      /\ archiveQueue \in Seq(File) /\ Len(archiveQueue) \in Nat /\ Cardinality(Unqueued(tasksOf)) \in Nat
  BY FS_CardinalityType DEF LogCloses, LogClosed, LogCrashes, LogOpens, LogInv, LogTypeOK, TasksCounted
<1>2. active' \in ActiveFile /\ active'.lines = active.lines
  BY <1>1, Zenon DEF LogCloses, LogClosed, LogCrashes, LogOpens, ActiveFile
<1>3. NoLogLost'
  BY <1>1, <1>2 DEF LogInv, NoLogLost
<1>4. CASE LogCrashes
  <2>1. /\ sink' = "down" /\ archiveQueue' = <<>> /\ archiveTasks' = 0 /\ archiver' = NoArchive
        /\ tasksOf' = [g \in Goroutines |-> <<>>]
    BY <1>4 DEF LogCrashes
  <2>2. NoArchive \in ArchiverState /\ NoArchive.pc = "idle"
    BY DEF NoArchive, ArchiverState, File
  <2>3. LogTypeOK'
    BY <1>1, <1>2, <2>1, <2>2 DEF LogInv, LogTypeOK
  <2>4. IsFiniteSet(Unqueued(tasksOf')) /\ Cardinality(Unqueued(tasksOf')) = 0
    BY <2>1, UnqueuedNone, Zenon
  <2>5. InHand(archiver') = 0 /\ Len(archiveQueue') = 0
    BY <2>1, <2>2 DEF InHand
  <2>6. TasksCounted'
    BY <2>1, <2>4, <2>5 DEF TasksCounted
  <2>7. ArchiverSteps' /\ CloseDrains'
    BY <2>1, <2>2 DEF ArchiverSteps, CloseDrains
  <2> QED  BY <1>3, <2>3, <2>6, <2>7 DEF LogInv
<1>5. CASE LogCloses \/ LogClosed \/ LogOpens
  <2>1. UNCHANGED <<archiveQueue, archiveTasks, tasksOf, archiver>>
    BY <1>5, Zenon DEF LogCloses, LogClosed, LogOpens
  <2>2. LogTypeOK' /\ TasksCounted'
    BY <1>1, <1>2, <2>1 DEF LogInv, LogTypeOK, TasksCounted
  <2>3. "opener" \in Goroutines
    BY DEF Goroutines
  <2>4. ArchiverSteps'
    BY <1>1, <1>5, <2>1, <2>3, Zenon DEF LogCloses, LogClosed, LogOpens, LogInv, ArchiverSteps
  <2>5. CASE sink' = "closed"
    <3>1. archiveTasks = 0 /\ archiver = NoArchive
      BY <1>5, <2>5, Zenon DEF LogCloses, LogClosed, LogOpens
    <3>2. InHand(archiver) = 0
      BY <3>1, Zenon DEF InHand, NoArchive
    <3>3. Len(archiveQueue) = 0 /\ Cardinality(Unqueued(tasksOf)) = 0
      BY <1>1, <3>1, <3>2 DEF LogInv, TasksCounted
    <3>4. archiveQueue = <<>>
      BY <1>1, <3>3
    <3>5. \A g \in Goroutines : tasksOf[g] = <<>>
      BY <1>1, <3>3, UnqueuedEmpty, Zenon
    <3> QED  BY <1>3, <2>1, <2>2, <2>4, <3>4, <3>5, Zenon DEF LogInv, CloseDrains
  <2>6. CASE sink' # "closed"
    BY <1>3, <2>2, <2>4, <2>6, Zenon DEF LogInv, CloseDrains
  <2> QED  BY <2>5, <2>6
<1> QED  BY <1>4, <1>5

LEMMA LogInvInductive ==
    /\ LogInit => LogInv
    /\ LogInv /\ [LogNext]_logVars => LogInv'
<1>1. ASSUME LogInit PROVE LogInv
  <2>1. NoArchive \in ArchiverState /\ NoArchive.pc = "idle" /\ {} \in File
    BY DEF NoArchive, ArchiverState, File
  <2>2. LogTypeOK
    <3>1. active \in ActiveFile /\ logged \in LogHistory
      BY <1>1, <2>1, Zenon DEF LogInit, ActiveFile, LogHistory
    <3>2. pendingLogs \subseteq File /\ IsFiniteSet(pendingLogs) /\ archives \subseteq File
      BY <1>1, FS_EmptySet, Zenon DEF LogInit
    <3>3. /\ archiveQueue \in Seq(File) /\ archiveTasks \in Int
          /\ tasksOf \in [Goroutines -> Seq(File)] /\ archiver \in ArchiverState
      BY <1>1, <2>1 DEF LogInit
    <3> QED  BY <3>1, <3>2, <3>3, Zenon DEF LogTypeOK
  <2>3. IsFiniteSet(Unqueued(tasksOf)) /\ Cardinality(Unqueued(tasksOf)) = 0
    BY <1>1, UnqueuedNone, Zenon DEF LogInit
  <2>4. InHand(archiver) = 0 /\ Len(archiveQueue) = 0
    BY <1>1, <2>1, Zenon DEF LogInit, InHand
  <2>5. TasksCounted
    BY <1>1, <2>3, <2>4, SMTT(30) DEF LogInit, TasksCounted
  <2>6. ArchiverSteps /\ NoLogLost /\ CloseDrains
    BY <1>1, <2>1, Zenon DEF LogInit, ArchiverSteps, NoLogLost, CloseDrains
  <2> QED  BY <2>2, <2>5, <2>6, Zenon DEF LogInv
<1>2. ASSUME LogInv, LogNext PROVE LogInv'
  BY <1>2, LogInvWrites, LogInvQueues, LogInvRotates, LogInvTakes, LogInvPacks, LogInvRemoves,
     LogInvOpensCloses, LogInvRecovers, Zenon
  DEF LogNext
<1>3. ASSUME LogInv, UNCHANGED logVars PROVE LogInv'
  BY <1>3 DEF logVars, LogInv, LogTypeOK, TasksCounted, ArchiverSteps, NoLogLost, CloseDrains
<1> QED  BY <1>1, <1>2, <1>3

\* However writers, the rotation ticker, the archive loop and failures
\* interleave, every line written without an error is in some file until the
\* retention removes it, and when Close has returned (splitSink.Close waits for
\* archiveTasks) no rotated file is left in a hand that nobody empties.
THEOREM LinesAreKept == LogSpec => []LogKept
<1>1. LogInv => LogKept
  BY DEF LogInv, LogKept
<1> QED  BY <1>1, LogInvInductive, PTL DEF LogSpec

=============================================================================
