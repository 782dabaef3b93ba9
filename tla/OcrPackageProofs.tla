------------------------- MODULE OcrPackageProofs -------------------------
(***************************************************************************)
(* Proofs about the modules Semver and OcrPackage: what Parse accepts and  *)
(* how Compare orders is right for every text and every two versions, and  *)
(* OcrPackage for any builds, any versions and any number of changes to    *)
(* the executable.                                                         *)
(***************************************************************************)
EXTENDS OcrPackage, SequenceTheorems, FiniteSetTheorems, WellFoundedInduction, TLAPS

----------------------------------------------------------------------------
(* Numbers, and texts.                                                     *)

\* A set of numbers that is not empty has a least.
LEMMA Smallest ==
  ASSUME NEW S \in SUBSET Nat, S # {}
  PROVE  \E n \in S : \A m \in S : n <= m
<1>1. \E n \in S : \A m \in S : ~ (<<m, n>> \in OpToRel(<, Nat))
  BY WFMin, NatLessThanWellFounded, Zenon
<1>2. PICK n \in S : \A m \in S : ~(m < n)
  BY <1>1, Zenon DEF OpToRel
<1> QED
  BY <1>2

\* Induction, of the numbers in a set.
LEMMA Induct ==
  ASSUME NEW S, 0 \in S, \A n \in Nat : n \in S => n + 1 \in S
  PROVE  \A n \in Nat : n \in S
<1> SUFFICES ASSUME Nat \ S # {} PROVE FALSE
  OBVIOUS
<1>1. PICK n \in Nat \ S : \A m \in Nat \ S : n <= m
  BY Smallest
<1>2. n - 1 \in Nat /\ n - 1 \in S
  BY <1>1
<1> QED
  BY <1>1, <1>2

\* A text is a sequence of code points.
Text == Seq(Nat)

\* A text is its characters.
LEMMA TextIs ==
  ASSUME NEW t \in Text
  PROVE  /\ Len(t) \in Nat /\ DOMAIN t = 1 .. Len(t)
         /\ \A i \in 1 .. Len(t) : t[i] \in Nat
         /\ t = <<>> <=> Len(t) = 0
<1>1. Len(t) \in Nat /\ t \in [1 .. Len(t) -> Nat]
  BY LenProperties DEF Text
<1> QED
  BY <1>1, EmptySeq DEF Text

\* Two texts of the same characters are the same.
LEMMA SameText ==
  ASSUME NEW t \in Text, NEW u \in Text, Len(t) = Len(u),
         \A i \in 1 .. Len(t) : t[i] = u[i]
  PROVE  t = u
BY SeqEqual DEF Text

\* A part of a text.
LEMMA PartIs ==
  ASSUME NEW t \in Text, NEW i \in Nat, i > 0, NEW j \in Nat, j <= Len(t)
  PROVE  /\ SubSeq(t, i, j) \in Text
         /\ Len(SubSeq(t, i, j)) = IF i <= j THEN j - i + 1 ELSE 0
         /\ \A k \in 1 .. j - i + 1 : SubSeq(t, i, j)[k] = t[i + k - 1]
<1>1. \A k \in i .. j : t[k] \in Nat
  BY TextIs
<1> QED
  BY <1>1, SubSeqProperties DEF Text

\* A part of a part.
LEMMA PartOfPart ==
  ASSUME NEW t \in Text, NEW j \in Nat, j <= Len(t),
         NEW k \in Nat, k > 0, NEW l \in Nat, l <= j
  PROVE  SubSeq(SubSeq(t, 1, j), k, l) = SubSeq(t, k, l)
<1> PICK p, q, r : p = SubSeq(t, 1, j) /\ q = SubSeq(p, k, l) /\ r = SubSeq(t, k, l)
  OBVIOUS
<1>1. p \in Text /\ Len(p) = j /\ \A i \in 1 .. j : p[i] = t[i]
  BY PartIs, TextIs
<1>2. /\ q \in Text /\ Len(q) = IF k <= l THEN l - k + 1 ELSE 0
      /\ \A i \in 1 .. l - k + 1 : q[i] = p[k + i - 1]
  <2>1. p \in Text /\ l <= Len(p)
    BY <1>1
  <2> QED
    BY ONLY <2>1, q = SubSeq(p, k, l), k \in Nat, k > 0, l \in Nat, PartIs
<1>3. /\ r \in Text /\ Len(r) = IF k <= l THEN l - k + 1 ELSE 0
      /\ \A i \in 1 .. l - k + 1 : r[i] = t[k + i - 1]
  BY PartIs, TextIs
<1> QED
  BY <1>1, <1>2, <1>3, SameText

\* The least number of a set.
LEMMA MinIs ==
  ASSUME NEW S \in SUBSET Nat, S # {}
  PROVE  Min(S) \in S /\ \A m \in S : Min(S) <= m
BY Smallest DEF Min

\* strings.Cut: before is what stands in front of the first separator.
LEMMA CutAt ==
  ASSUME NEW t \in Text, NEW sep
  PROVE  \E e \in 1 .. Len(t) + 1 :
           /\ Before(t, sep) = SubSeq(t, 1, e - 1)
           /\ After(t, sep) = SubSeq(t, e + 1, Len(t))
           /\ \A j \in 1 .. e - 1 : t[j] # sep
           /\ Found(t, sep) <=> e <= Len(t)
           /\ e <= Len(t) => t[e] = sep
<1> DEFINE I == {j \in 1 .. Len(t) : t[j] = sep}
<1> PICK i : i = IF I # {} THEN Min(I) ELSE 0
  OBVIOUS
<1>1. Len(t) \in Nat /\ DOMAIN t = 1 .. Len(t)
  BY TextIs
<1>2. \/ i = 0 /\ \A j \in 1 .. Len(t) : t[j] # sep
      \/ i \in 1 .. Len(t) /\ t[i] = sep /\ \A j \in 1 .. i - 1 : t[j] # sep
  <2>1. CASE I = {}
    BY <2>1
  <2>2. CASE I # {}
    <3>1. I \in SUBSET Nat
      BY <1>1
    <3>2. i = Min(I)
      BY <2>2
    <3>3. i \in I /\ \A m \in I : i <= m
      <4> HIDE DEF I
      <4> QED
        BY <2>2, <3>1, <3>2, MinIs
    <3>4. i \in 1 .. Len(t) /\ t[i] = sep
      BY <3>3
    <3>5. ASSUME NEW j \in 1 .. i - 1, t[j] = sep PROVE FALSE
      <4>1. j \in I
        BY <1>1, <3>4, <3>5
      <4> QED
        BY <1>1, <3>3, <3>4, <4>1
    <3> QED
      BY <3>4, <3>5
  <2> QED
    BY <2>1, <2>2
<1>3. Before(t, sep) = IF i = 0 THEN t ELSE SubSeq(t, 1, i - 1)
  BY DEF Before, SelectInSeq
<1> PICK e : e = IF i = 0 THEN Len(t) + 1 ELSE i
  OBVIOUS
<1>4. e \in 1 .. Len(t) + 1 /\ Before(t, sep) = SubSeq(t, 1, e - 1)
  <2>1. t = SubSeq(t, 1, Len(t))
    <3> PICK p : p = SubSeq(t, 1, Len(t))
      OBVIOUS
    <3>1. p \in Text /\ Len(p) = Len(t) /\ \A k \in 1 .. Len(p) : p[k] = t[k]
      BY <1>1, PartIs
    <3> QED
      BY <3>1, SameText
  <2>2. e \in 1 .. Len(t) + 1
    BY <1>1, <1>2
  <2>3. CASE i = 0
    <3>1. e - 1 = Len(t)
      BY <1>1, <2>3
    <3> QED
      BY <1>3, <2>1, <2>2, <2>3, <3>1
  <2>4. CASE i # 0
    BY <1>3, <2>2, <2>4
  <2> QED
    BY <2>3, <2>4
<1>5. After(t, sep) = SubSeq(t, e + 1, Len(t))
  <2> PICK p : p = Before(t, sep)
    OBVIOUS
  <2>1. Len(p) = e - 1
    <3> PICK m \in Nat : m = e - 1 /\ m <= Len(t)
      <4>1. e - 1 \in Nat /\ e - 1 <= Len(t)
        BY <1>1, <1>4
      <4> QED
        BY <4>1
    <3>1. Len(SubSeq(t, 1, m)) = m
      BY PartIs
    <3> QED
      BY <1>4, <3>1
  <2>2. (e - 1) + 2 = e + 1
    BY <1>1, <1>4
  <2>3. After(t, sep) = SubSeq(t, Len(p) + 2, Len(t))
    BY DEF After
  <2> QED
    BY <2>1, <2>2, <2>3
<1>6. /\ \A j \in 1 .. e - 1 : t[j] # sep
      /\ Found(t, sep) <=> e <= Len(t)
      /\ e <= Len(t) => t[e] = sep
  <2>1. CASE i = 0
    BY <1>1, <1>2, <2>1 DEF Found
  <2>2. CASE i # 0
    BY <1>1, <1>2, <2>2 DEF Found
  <2> QED
    BY <2>1, <2>2
<1> QED
  BY <1>4, <1>5, <1>6

IsRank(rank, ends, n) ==
  /\ \A e \in ends : rank[e] \in 1 .. n /\ rank[e] = Cardinality({x \in ends : x <= e})
  /\ \A d, e \in ends : d < e <=> rank[d] < rank[e]
  /\ \A k \in 1 .. n : \E e \in ends : rank[e] = k

\* The ranks of the members of a finite set of numbers are 1 to their number.
LEMMA Ranks ==
  ASSUME NEW ends \in SUBSET Nat, IsFiniteSet(ends)
  PROVE  \E rank : IsRank(rank, ends, Cardinality(ends))
<1> PICK n : n = Cardinality(ends)
  OBVIOUS
<1> DEFINE UpTo(e) == {x \in ends : x <= e}
<1>1. n \in Nat
  BY FS_CardinalityType
<1>2. ASSUME NEW e \in ends
      PROVE  IsFiniteSet(UpTo(e)) /\ Cardinality(UpTo(e)) \in 1 .. n
  <2>1. IsFiniteSet(UpTo(e)) /\ Cardinality(UpTo(e)) <= n
    BY FS_Subset
  <2>2. Cardinality(UpTo(e)) \in Nat
    BY <2>1, FS_CardinalityType
  <2>3. e \in UpTo(e)
    OBVIOUS
  <2>4. Cardinality(UpTo(e)) # 0
    BY <2>1, <2>3, FS_EmptySet
  <2> QED
    BY <1>1, <2>1, <2>2, <2>4
<1>3. ASSUME NEW d \in ends, NEW e \in ends, d < e
      PROVE  Cardinality(UpTo(d)) < Cardinality(UpTo(e))
  <2>1. UpTo(d) \in SUBSET UpTo(e) /\ e \in UpTo(e) /\ e \notin UpTo(d)
    <3>1. \A x \in ends : x \in Nat
      OBVIOUS
    <3>2. \A x \in UpTo(d) : x \in UpTo(e)
      BY <1>3, <3>1
    <3>3. ~(e <= d)
      BY <1>3, <3>1
    <3>4. e \in UpTo(e) /\ e \notin UpTo(d)
      BY <3>1, <3>3
    <3> HIDE DEF UpTo
    <3> QED
      BY <3>2, <3>4
  <2> HIDE DEF UpTo
  <2>2. /\ Cardinality(UpTo(d)) <= Cardinality(UpTo(e))
        /\ Cardinality(UpTo(e)) = Cardinality(UpTo(d)) => UpTo(e) = UpTo(d)
    BY <1>2, <2>1, FS_Subset
  <2> QED
    BY <1>1, <1>2, <2>1, <2>2
<1> DEFINE rank == [e \in ends |-> Cardinality(UpTo(e))]
<1>4. rank \in [ends -> 1 .. n] /\ \A e \in ends : rank[e] = Cardinality(UpTo(e))
  <2> HIDE DEF UpTo
  <2> QED
    BY <1>2
<1>5. \A d, e \in ends : d < e => rank[d] < rank[e]
  <2> HIDE DEF UpTo
  <2> QED
    BY <1>3
<1> HIDE DEF rank
<1>6. rank \in Injection(ends, 1 .. n)
  <2>1. ASSUME NEW d \in ends, NEW e \in ends, rank[d] = rank[e] PROVE d = e
    BY <1>1, <1>4, <1>5, <2>1
  <2> QED
    BY <1>4, <2>1 DEF Injection, IsInjective
<1>7. rank \in Surjection(ends, 1 .. n)
  <2>1. IsFiniteSet(1 .. n) /\ Cardinality(1 .. n) = n
    BY <1>1, FS_Interval
  <2> QED
    BY <1>6, <2>1, FS_Injection
<1>8. \A k \in 1 .. n : \E e \in ends : rank[e] = k
  BY <1>7 DEF Surjection
<1> QED
  BY <1>1, <1>4, <1>5, <1>8 DEF IsRank

----------------------------------------------------------------------------
(* Split, Cut and the identifiers between dots.                            *)

\* The pieces of a text between its separators: the k-th is what stands between
\* end[k - 1] and end[k].
Cuts(t, sep, n, end) ==
  /\ end \in [0 .. n -> Nat] /\ end[0] = 0 /\ end[n] = Len(t) + 1
  /\ \A k \in 1 .. n : end[k - 1] < end[k]
  /\ \A k \in 1 .. n - 1 : end[k] \in 1 .. Len(t) /\ t[end[k]] = sep
  /\ \A k \in 1 .. n : \A i \in end[k - 1] + 1 .. end[k] - 1 : i \in 1 .. Len(t) /\ t[i] # sep
  /\ \A i \in 1 .. Len(t) :
       IF t[i] = sep THEN \E k \in 1 .. n - 1 : end[k] = i
       ELSE \E k \in 1 .. n : end[k - 1] < i /\ i < end[k]

Piece(t, end, k) == SubSeq(t, end[k - 1] + 1, end[k] - 1)

IsSplit(t, sep, n, end) ==
  /\ n \in Nat /\ n > 0 /\ Cuts(t, sep, n, end)
  /\ Split(t, sep) = [k \in 1 .. n |-> Piece(t, end, k)]

\* strings.Split finds just these.
LEMMA SplitAt ==
  ASSUME NEW t \in Text, NEW sep
  PROVE  \E n, end : IsSplit(t, sep, n, end)
<1> PICK len \in Nat : len = Len(t) /\ DOMAIN t = 1 .. len
  BY TextIs
<1> DEFINE ends == {i \in DOMAIN t : t[i] = sep} \cup {Len(t) + 1}
           Rank(e) == Cardinality({x \in ends : x <= e})
           n == Cardinality(ends)
           End(k) == IF k = 0 THEN 0 ELSE CHOOSE e \in ends : Rank(e) = k
           end == [k \in 0 .. n |-> End(k)]
<1>1. /\ \A e \in ends : e \in 1 .. len + 1
      /\ \A e \in ends : e # len + 1 => t[e] = sep
      /\ len + 1 \in ends
      /\ \A i \in 1 .. len : t[i] = sep => i \in ends
  OBVIOUS
<1>2. ends \in SUBSET Nat
  BY <1>1
<1>3. Split(t, sep) = [k \in 1 .. n |-> SubSeq(t, End(k - 1) + 1, End(k) - 1)]
  BY Zenon DEF Split
<1> HIDE DEF ends
<1>4. IsFiniteSet(ends) /\ n \in Nat
  <2>1. \A e \in ends : e <= len + 1
    BY <1>1
  <2>2. IsFiniteSet(ends)
    <3> PICK m \in Nat : m = len + 1
      OBVIOUS
    <3> QED
      BY <1>2, <2>1, FS_BoundedSetOfNaturals
  <2> QED
    BY <2>2, FS_CardinalityType
<1> PICK rank :
      /\ \A e \in ends : rank[e] \in 1 .. n /\ rank[e] = Rank(e)
      /\ \A d, e \in ends : d < e <=> rank[d] < rank[e]
      /\ \A k \in 1 .. n : \E e \in ends : rank[e] = k
  BY <1>2, <1>4, Ranks DEF IsRank
<1> HIDE DEF n, Rank
<1>5. ASSUME NEW k \in 1 .. n PROVE End(k) \in ends /\ rank[End(k)] = k
  <2>1. \E e \in ends : Rank(e) = k
    OBVIOUS
  <2>2. End(k) \in ends /\ Rank(End(k)) = k
    BY <1>4, <2>1
  <2> QED
    BY <2>2
<1>6. end \in [0 .. n -> Nat] /\ end[0] = 0 /\ \A k \in 1 .. n : end[k] \in ends /\ rank[end[k]] = k
  <2>1. \A k \in 1 .. n : End(k) \in Nat
    BY <1>2, <1>5
  <2>2. End(0) = 0
    OBVIOUS
  <2> HIDE DEF End
  <2> QED
    BY <1>4, <1>5, <2>1, <2>2
<1>7. Split(t, sep) = [k \in 1 .. n |-> SubSeq(t, end[k - 1] + 1, end[k] - 1)]
  <2>1. \A k \in 1 .. n : End(k - 1) = end[k - 1] /\ End(k) = end[k]
    <3> HIDE DEF End
    <3> QED
      BY <1>4
  <2> HIDE DEF end, End
  <2> QED
    BY <1>3, <2>1
<1> HIDE DEF end
<1>8. n > 0 /\ end[n] = len + 1
  <2>1. rank[len + 1] \in 1 .. n
    BY <1>1
  <2>2. end[n] \in ends /\ rank[end[n]] = n
    BY <1>4, <1>6, <2>1
  <2>3. ~(end[n] < len + 1)
    BY <1>1, <1>4, <2>1, <2>2
  <2> QED
    BY <1>1, <1>4, <2>1, <2>2, <2>3
<1>9. ASSUME NEW k \in 1 .. n PROVE end[k - 1] < end[k]
  <2>1. CASE k = 1
    BY <1>1, <1>6, <2>1
  <2>2. CASE k # 1
    <3>1. k - 1 \in 1 .. n
      BY <1>4, <2>2
    <3> QED
      BY <1>4, <1>6, <3>1
  <2> QED
    BY <2>1, <2>2
<1>10. ASSUME NEW k \in 1 .. n - 1 PROVE end[k] \in 1 .. len /\ t[end[k]] = sep
  <2>1. k \in 1 .. n /\ n \in 1 .. n /\ k < n
    BY <1>4
  <2>2. end[k] < end[n]
    BY <1>4, <1>6, <2>1
  <2> QED
    BY <1>1, <1>4, <1>6, <1>8, <2>1, <2>2
<1>11. ASSUME NEW k \in 1 .. n, NEW i \in end[k - 1] + 1 .. end[k] - 1
       PROVE  i \in 1 .. len /\ t[i] # sep
  <2>1. end[k - 1] \in Nat /\ end[k] \in 1 .. len + 1
    BY <1>1, <1>4, <1>6
  <2>2. i \in 1 .. len
    BY <2>1
  <2>3. ASSUME t[i] = sep PROVE FALSE
    <3>1. i \in ends /\ rank[i] \in 1 .. n
      BY <1>1, <2>2, <2>3
    <3>2. rank[i] < k
      BY <1>6, <2>1, <2>2, <3>1
    <3>3. k - 1 \in 1 .. n
      BY <1>4, <3>1, <3>2
    <3>4. k - 1 < rank[i]
      <4> PICK e : e = end[k - 1]
        OBVIOUS
      <4>1. e \in ends /\ rank[e] = k - 1
        BY <1>6, <3>3
      <4>2. e < i
        BY <2>1
      <4> QED
        BY <3>1, <4>1, <4>2
    <3> QED
      BY <1>4, <3>1, <3>2, <3>4
  <2> QED
    BY <2>2, <2>3
<1>12. ASSUME NEW i \in 1 .. len, t[i] = sep PROVE \E k \in 1 .. n - 1 : end[k] = i
  <2>1. i \in ends
    BY <1>1, <1>12
  <2> PICK r \in 1 .. n : r = rank[i]
    BY <2>1
  <2> PICK e : e = end[r]
    OBVIOUS
  <2>2. e \in ends /\ rank[e] = r
    BY <1>6
  <2>3. e \in Nat /\ ~(e < i) /\ ~(i < e)
    BY <1>1, <2>1, <2>2
  <2>4. e = i
    BY <2>3
  <2>5. ASSUME r = n PROVE FALSE
    <3>1. e = end[n]
      BY <2>5
    <3> QED
      BY <1>8, <2>4, <3>1
  <2>6. r \in 1 .. n - 1
    BY <1>4, <2>5
  <2> QED
    BY <2>4, <2>6
<1>13. ASSUME NEW i \in 1 .. len, t[i] # sep
       PROVE  \E k \in 1 .. n : end[k - 1] < i /\ i < end[k]
  <2> DEFINE S == {k \in 1 .. n : i < end[k]}
  <2>1. S \in SUBSET Nat /\ n \in S
    BY <1>4, <1>8
  <2>2. PICK k \in S : \A j \in S : k <= j
    <3> HIDE DEF S
    <3> QED
      BY <2>1, Smallest
  <2>3. k \in 1 .. n /\ i < end[k]
    BY <2>2
  <2>4. CASE k = 1
    BY <1>6, <2>3, <2>4
  <2>5. CASE k # 1
    <3>1. k - 1 \in 1 .. n - 1
      BY <1>4, <2>3, <2>5
    <3>2. end[k - 1] \in 1 .. len /\ t[end[k - 1]] = sep
      BY <1>10, <3>1
    <3>3. ~(i < end[k - 1])
      BY <1>4, <2>2, <2>3, <3>1
    <3>4. i # end[k - 1]
      BY <1>13, <3>2
    <3> QED
      BY <2>3, <3>2, <3>3, <3>4
  <2> QED
    BY <2>4, <2>5
<1>14. Cuts(t, sep, n, end)
  BY <1>6, <1>8, <1>9, <1>10, <1>11, <1>12, <1>13 DEF Cuts
<1>15. Split(t, sep) = [k \in 1 .. n |-> Piece(t, end, k)]
  BY <1>7 DEF Piece
<1>16. IsSplit(t, sep, n, end)
  BY <1>4, <1>8, <1>14, <1>15, Zenon DEF IsSplit
<1> QED
  BY <1>16

\* What stands between two places of a text.
Between(t, a, b, p) ==
  /\ p \in Text /\ Len(p) = b - a - 1 /\ DOMAIN p = 1 .. b - a - 1
  /\ p = <<>> <=> b = a + 1
  /\ \A i \in 1 .. b - a - 1 : p[i] = t[a + i]

\* A piece of a text is what stands between its ends.
LEMMA PieceIs ==
  ASSUME NEW t \in Text, NEW sep, NEW n, NEW end, IsSplit(t, sep, n, end),
         NEW k \in 1 .. n
  PROVE  Between(t, end[k - 1], end[k], Piece(t, end, k))
<1>0. n \in Nat /\ Cuts(t, sep, n, end)
  BY DEF IsSplit
<1> PICK len \in Nat : len = Len(t)
  BY TextIs
<1>1. k - 1 \in 0 .. n /\ k \in 0 .. n
  BY <1>0
<1> PICK a, b \in Nat : a = end[k - 1] /\ b = end[k] /\ a < b
  BY <1>0, <1>1 DEF Cuts
<1>2. b <= len + 1
  <2>1. CASE k = n
    BY <1>0, <2>1 DEF Cuts
  <2>2. CASE k # n
    <3>1. k \in 1 .. n - 1
      BY <1>0, <2>2
    <3> QED
      BY <1>0, <3>1 DEF Cuts
  <2> QED
    BY <2>1, <2>2
<1> PICK i, j \in Nat : i = a + 1 /\ j = b - 1 /\ i > 0 /\ j <= len
  BY <1>2
<1>3. b - a - 1 = j - i + 1 /\ (i <= j <=> j - i + 1 > 0) /\ \A l \in Nat : i + l - 1 = a + l
  BY ONLY a \in Nat, b \in Nat, i = a + 1, j = b - 1
<1>4. /\ SubSeq(t, i, j) \in Text /\ Len(SubSeq(t, i, j)) = IF i <= j THEN j - i + 1 ELSE 0
      /\ \A l \in 1 .. j - i + 1 : SubSeq(t, i, j)[l] = t[i + l - 1]
  BY ONLY PartIs, t \in Text, i \in Nat, i > 0, j \in Nat, j <= len, len = Len(t)
<1>5. Piece(t, end, k) = SubSeq(t, i, j)
  BY DEF Piece
<1> DEFINE p == Piece(t, end, k)
<1>6. p \in Text /\ Len(p) = IF i <= j THEN j - i + 1 ELSE 0
  BY <1>4, <1>5
<1>7. \A l \in 1 .. j - i + 1 : p[l] = t[i + l - 1]
  BY <1>4, <1>5
<1> HIDE DEF p
<1>8. Len(p) = b - a - 1
  BY ONLY <1>3, <1>6, i \in Nat, j \in Nat, a \in Nat, b \in Nat, a < b
<1>9. DOMAIN p = 1 .. b - a - 1 /\ (p = <<>> <=> b = a + 1)
  <2>1. DOMAIN p = 1 .. Len(p) /\ (p = <<>> <=> Len(p) = 0)
    BY <1>6, TextIs
  <2> QED
    BY <1>8, <2>1
<1>10. ASSUME NEW l \in 1 .. b - a - 1 PROVE p[l] = t[a + l]
  <2>1. l \in 1 .. j - i + 1 /\ l \in Nat
    BY ONLY <1>3, l \in 1 .. b - a - 1, a \in Nat, b \in Nat
  <2> QED
    BY <1>3, <1>7, <2>1
<1> QED
  BY <1>6, <1>8, <1>9, <1>10 DEF p, Between

\* Of the pieces of a text at its dots, validIdentifiers asks what items 9 and
\* 10 ask of the text.
LEMMA IdentifiersAreValid ==
  ASSUME NEW t \in Text, NEW prerelease \in BOOLEAN
  PROVE  ValidIdentifiers(t, prerelease) <=>
           IsIdentifiers(t) /\ (prerelease => NoLeadingZeros(t))
<1> PICK len \in Nat : len = Len(t) /\ DOMAIN t = 1 .. len /\ (t = <<>> <=> len = 0)
  BY TextIs
<1> PICK n, end : IsSplit(t, Dot, n, end)
  BY SplitAt
<1>0. n \in Nat /\ n > 0 /\ Cuts(t, Dot, n, end)
  BY DEF IsSplit
<1>1. /\ \A k \in 0 .. n : end[k] \in Nat
      /\ end[0] = 0 /\ end[n] = len + 1
      /\ \A k \in 1 .. n : end[k - 1] < end[k]
      /\ \A k \in 1 .. n - 1 : end[k] \in 1 .. len /\ t[end[k]] = Dot
      /\ \A k \in 1 .. n : \A i \in end[k - 1] + 1 .. end[k] - 1 : i \in 1 .. len /\ t[i] # Dot
      /\ \A i \in 1 .. len : t[i] = Dot => \E k \in 1 .. n - 1 : end[k] = i
      /\ \A i \in 1 .. len : t[i] # Dot => \E k \in 1 .. n : end[k - 1] < i /\ i < end[k]
  BY <1>0 DEF Cuts
<1> DEFINE piece(k) == Piece(t, end, k)
           Valid(p) == /\ p # <<>>
                       /\ ~(prerelease /\ Numeric(p) /\ Len(p) > 1 /\ p[1] = Zero)
                       /\ \A i \in DOMAIN p : p[i] \in Digit \cup Letter \cup {Dash}
<1>2. ValidIdentifiers(t, prerelease) <=> \A k \in 1 .. n : Valid(piece(k))
  BY <1>0 DEF ValidIdentifiers, IsSplit
<1>3. ASSUME NEW k \in 1 .. n
      PROVE  Between(t, end[k - 1], end[k], piece(k))
  BY PieceIs
<1> HIDE DEF piece
<1>4. ASSUME NEW k \in 1 .. n
      PROVE  \E a, b \in Nat :
               /\ a = end[k - 1] /\ b = end[k] /\ a < b /\ b <= len + 1
               /\ Between(t, a, b, piece(k))
               /\ \A i \in a + 1 .. b - 1 : i \in 1 .. len /\ t[i] # Dot
  <2>1. k - 1 \in 0 .. n /\ k \in 0 .. n
    BY <1>0
  <2> PICK a, b \in Nat : a = end[k - 1] /\ b = end[k]
    BY <1>1, <2>1
  <2>2. a < b /\ \A i \in a + 1 .. b - 1 : i \in 1 .. len /\ t[i] # Dot
    BY <1>1
  <2>3. b <= len + 1
    <3>1. CASE k = n
      BY <1>1, <3>1
    <3>2. CASE k # n
      <4>1. k \in 1 .. n - 1
        BY <1>0, <3>2
      <4> QED
        BY <1>1, <4>1
    <3> QED
      BY <3>1, <3>2
  <2> QED
    BY <1>3, <2>2, <2>3
<1>5. ASSUME \A k \in 1 .. n : Valid(piece(k))
      PROVE  IsIdentifiers(t) /\ (prerelease => NoLeadingZeros(t))
  <2>1. ASSUME NEW k \in 1 .. n PROVE end[k - 1] + 1 < end[k]
    <3> PICK a, b \in Nat : a = end[k - 1] /\ b = end[k] /\ a < b /\ Between(t, a, b, piece(k))
      BY <1>4
    <3>1. b # a + 1
      BY <1>5 DEF Between
    <3> QED
      BY <3>1
  <2>2. len > 0 /\ t[1] # Dot
    <3>1. 1 \in end[1 - 1] + 1 .. end[1] - 1
      BY <1>0, <1>1, <2>1
    <3> QED
      BY <1>0, <1>1, <3>1
  <2>3. t[len] # Dot
    <3>1. n \in 1 .. n
      BY <1>0
    <3> PICK a, b \in Nat : a = end[n - 1] /\ b = end[n] /\ \A i \in a + 1 .. b - 1 : t[i] # Dot
      BY <1>4, <3>1
    <3>2. b = len + 1 /\ a + 1 < b
      BY <1>1, <2>1, <3>1
    <3> QED
      BY <3>2
  <2>4. ASSUME NEW i \in 1 .. len PROVE t[i] \in Digit \cup Letter \cup {Dash, Dot}
    <3>1. CASE t[i] = Dot
      BY <3>1
    <3>2. CASE t[i] # Dot
      <4> PICK k \in 1 .. n : end[k - 1] < i /\ i < end[k]
        BY <1>1, <3>2
      <4> PICK a, b \in Nat : a = end[k - 1] /\ b = end[k] /\ Between(t, a, b, piece(k))
        BY <1>4
      <4>1. i - a \in 1 .. b - a - 1 /\ a + (i - a) = i
        OBVIOUS
      <4>2. piece(k)[i - a] = t[i]
        BY <4>1 DEF Between
      <4>3. piece(k)[i - a] \in Digit \cup Letter \cup {Dash}
        BY <1>5, <4>1 DEF Between
      <4> QED
        BY <4>2, <4>3
    <3> QED
      BY <3>1, <3>2
  <2>5. ASSUME NEW i \in 1 .. len - 1, t[i] = Dot, t[i + 1] = Dot PROVE FALSE
    <3> PICK k \in 1 .. n - 1 : end[k] = i
      BY <1>1, <2>5
    <3>1. k + 1 \in 1 .. n /\ (k + 1) - 1 = k
      BY <1>0
    <3>2. i + 1 < end[k + 1]
      BY <2>1, <3>1
    <3> PICK l \in 1 .. n : l = k + 1 /\ l - 1 = k
      BY <3>1
    <3> PICK a, b \in Nat : /\ a = end[l - 1] /\ b = end[l]
                            /\ \A j \in a + 1 .. b - 1 : t[j] # Dot
      BY <1>4
    <3>3. a = i /\ i + 1 \in a + 1 .. b - 1
      BY <3>2
    <3> QED
      BY <2>5, <3>3
  <2>6. IsIdentifiers(t)
    BY <2>2, <2>3, <2>4, <2>5 DEF IsIdentifiers
  <2>7. ASSUME prerelease,
               NEW i \in 1 .. len, NEW j \in 1 .. len, i <= j,
               Numeric(SubSeq(t, i, j)),
               i = 1 \/ t[i - 1] = Dot, j = len \/ t[j + 1] = Dot
        PROVE  IsNumber(SubSeq(t, i, j))
    <3> DEFINE p == SubSeq(t, i, j)
    <3>1. /\ p \in Text /\ Len(p) = j - i + 1
          /\ \A l \in 1 .. j - i + 1 : p[l] = t[i + l - 1]
      BY <2>7, PartIs
    <3>2. DOMAIN p = 1 .. j - i + 1
      BY <3>1, TextIs
    <3> HIDE DEF p
    <3>3. \A l \in i .. j : t[l] # Dot
      <4> TAKE l \in i .. j
      <4>1. l - i + 1 \in 1 .. j - i + 1 /\ i + (l - i + 1) - 1 = l
        OBVIOUS
      <4>2. p[l - i + 1] \in Digit
        BY <2>7, <3>2, <4>1 DEF Numeric, p
      <4>3. p[l - i + 1] = t[l]
        BY <3>1, <4>1
      <4>4. Dot \notin Digit
        BY DEF Digit, Dot
      <4> QED
        BY ONLY <4>2, <4>3, <4>4
    <3> PICK k \in 1 .. n : end[k - 1] < i /\ i < end[k]
      <4>1. t[i] # Dot
        BY <2>7, <3>3
      <4> QED
        BY <1>1, <4>1
    <3> PICK a, b \in Nat :
          /\ a = end[k - 1] /\ b = end[k] /\ a < i /\ i < b /\ b <= len + 1
          /\ Between(t, a, b, piece(k))
          /\ \A l \in a + 1 .. b - 1 : t[l] # Dot
      BY <1>4
    <3>4. a = i - 1
      <4> SUFFICES ASSUME a # i - 1 PROVE FALSE
        OBVIOUS
      <4>1. i - 1 \in a + 1 .. b - 1 /\ i # 1
        BY ONLY a \in Nat, b \in Nat, i \in Nat, a < i, i < b, a # i - 1
      <4>2. t[i - 1] # Dot
        BY <4>1
      <4> QED
        BY ONLY <2>7, <4>1, <4>2
    <3>5. ~(b <= j)
      <4> SUFFICES ASSUME b <= j PROVE FALSE
        OBVIOUS
      <4>1. k \in 1 .. n - 1
        BY <1>0, <1>1
      <4>2. t[b] = Dot
        BY <1>1, <4>1
      <4> QED
        BY <3>3, <4>2
    <3>6. b = j + 1
      <4> SUFFICES ASSUME b # j + 1 PROVE FALSE
        OBVIOUS
      <4>1. j + 1 \in a + 1 .. b - 1 /\ j # len
        BY ONLY <2>7, <3>5, a \in Nat, b \in Nat, i \in Nat, j \in Nat, len \in Nat,
           i <= j, a < i, b <= len + 1, b # j + 1
      <4>2. t[j + 1] # Dot
        BY <4>1
      <4> QED
        BY ONLY <2>7, <4>1, <4>2
    <3>7. piece(k) = p
      BY <1>0, <3>4, <3>6 DEF piece, Piece, p
    <3>8. ~(Numeric(p) /\ Len(p) > 1 /\ p[1] = Zero)
      BY <1>5, <2>7, <3>7
    <3>9. IsNumber(p)
      BY <2>7, <3>8 DEF IsNumber, p
    <3> QED
      BY <3>9 DEF p
  <2>8. prerelease => NoLeadingZeros(t)
    BY <2>7 DEF NoLeadingZeros
  <2> QED
    BY <2>6, <2>8
<1>6. ASSUME IsIdentifiers(t), prerelease => NoLeadingZeros(t), NEW k \in 1 .. n
      PROVE  Valid(piece(k))
  <2> PICK a, b \in Nat :
        /\ a = end[k - 1] /\ b = end[k] /\ a < b /\ b <= len + 1
        /\ Between(t, a, b, piece(k))
        /\ \A i \in a + 1 .. b - 1 : i \in 1 .. len /\ t[i] # Dot
    BY <1>4
  <2>1. /\ len > 0 /\ t[1] # Dot /\ t[len] # Dot
        /\ \A i \in 1 .. len : t[i] \in Digit \cup Letter \cup {Dash, Dot}
        /\ \A i \in 1 .. len - 1 : ~(t[i] = Dot /\ t[i + 1] = Dot)
    BY <1>6 DEF IsIdentifiers
  <2>2. a = 0 \/ (a \in 1 .. len /\ t[a] = Dot)
    <3>1. CASE k = 1
      BY <1>1, <3>1
    <3>2. CASE k # 1
      <4>1. k - 1 \in 1 .. n - 1
        BY <1>0, <3>2
      <4> QED
        BY <1>1, <4>1
    <3> QED
      BY <3>1, <3>2
  <2>3. b = len + 1 \/ (b \in 1 .. len /\ t[b] = Dot)
    <3>1. CASE k = n
      BY <1>1, <3>1
    <3>2. CASE k # n
      <4>1. k \in 1 .. n - 1
        BY <1>0, <3>2
      <4> QED
        BY <1>1, <4>1
    <3> QED
      BY <3>1, <3>2
  <2>4. b # a + 1
    BY <2>1, <2>2, <2>3
  <2>5. piece(k) # <<>>
    BY <2>4 DEF Between
  <2>6. ASSUME NEW i \in DOMAIN piece(k)
        PROVE  piece(k)[i] \in Digit \cup Letter \cup {Dash}
    <3>1. i \in 1 .. b - a - 1 /\ piece(k)[i] = t[a + i]
      BY <2>6 DEF Between
    <3>2. a + i \in a + 1 .. b - 1
      BY ONLY <3>1, a \in Nat, b \in Nat
    <3> QED
      BY <2>1, <3>1, <3>2
  <2>7. ASSUME prerelease, Numeric(piece(k)), Len(piece(k)) > 1, piece(k)[1] = Zero
        PROVE  FALSE
    <3> PICK i, j \in Nat : i = a + 1 /\ j = b - 1
      OBVIOUS
    <3>1. piece(k) = SubSeq(t, i, j)
      BY DEF piece, Piece
    <3>2. i \in 1 .. len /\ j \in 1 .. len /\ i <= j
      BY ONLY <2>4, a \in Nat, b \in Nat, a < b, b <= len + 1, len \in Nat,
         i \in Nat, j \in Nat, i = a + 1, j = b - 1
    <3>3. (i = 1 \/ t[i - 1] = Dot) /\ (j = len \/ t[j + 1] = Dot)
      <4>1. i - 1 = a /\ j + 1 = b /\ (a = 0 => i = 1) /\ (b = len + 1 => j = len)
        BY ONLY a \in Nat, b \in Nat, i = a + 1, j = b - 1, len \in Nat
      <4>2. (i = 1 \/ t[a] = Dot) /\ (j = len \/ t[b] = Dot)
        BY ONLY <2>2, <2>3, <4>1
      <4> QED
        BY ONLY <4>1, <4>2
    <3>4. IsNumber(piece(k))
      BY <1>6, <2>7, <3>1, <3>2, <3>3 DEF NoLeadingZeros
    <3> QED
      BY <2>7, <3>4 DEF IsNumber
  <2> QED
    BY <2>5, <2>6, <2>7
<1> QED
  BY <1>2, <1>5, <1>6

\* validCoreNumber asks for what item 2 calls a number.
LEMMA CoreNumber ==
  ASSUME NEW t \in Text
  PROVE  ValidCoreNumber(t) <=> IsNumber(t)
<1>1. Numeric(t) => Len(t) \in Nat /\ Len(t) # 0
  BY TextIs DEF Numeric
<1>2. t = <<Zero>> => Len(t) = 1
  OBVIOUS
<1>3. ASSUME Numeric(t), Len(t) = 1, t[1] = Zero PROVE t = <<Zero>>
  <2>1. <<Zero>> \in Text
    BY DEF Text, Zero
  <2> QED
    BY <1>3, <2>1, SameText
<1>4. CASE Numeric(t)
  <2> PICK len \in Nat : len = Len(t) /\ len # 0
    BY <1>1, <1>4
  <2>1. CASE len = 1
    BY <1>2, <1>3, <1>4, <2>1 DEF ValidCoreNumber, IsNumber
  <2>2. CASE len # 1
    <3>1. len > 1 /\ t # <<Zero>>
      BY <1>2, <2>2
    <3> QED
      BY <3>1 DEF ValidCoreNumber, IsNumber
  <2> QED
    BY <2>1, <2>2
<1> QED
  BY <1>4 DEF ValidCoreNumber, IsNumber

\* Between the two dots of a core there are digits only.
LEMMA CoreDots ==
  ASSUME NEW t \in Text, NEW len \in Nat, len = Len(t),
         NEW i \in 1 .. len, NEW j \in 1 .. len, i < j,
         IsNumber(SubSeq(t, 1, i - 1)), IsNumber(SubSeq(t, i + 1, j - 1)),
         IsNumber(SubSeq(t, j + 1, len)), NEW l \in 1 .. len
  PROVE  l = i \/ l = j \/ t[l] \in Digit
<1>1. ASSUME NEW a \in Nat, NEW b \in Nat, a > 0, b <= len, IsNumber(SubSeq(t, a, b)), l \in a .. b
      PROVE  t[l] \in Digit
  <2> DEFINE p == SubSeq(t, a, b)
  <2>1. /\ p \in Text /\ Len(p) = IF a <= b THEN b - a + 1 ELSE 0
        /\ \A k \in 1 .. b - a + 1 : p[k] = t[a + k - 1]
    BY <1>1, PartIs
  <2>2. PICK k \in 1 .. b - a + 1 : k = l - a + 1 /\ a + k - 1 = l
    BY ONLY a \in Nat, b \in Nat, l \in a .. b, <1>1
  <2>3. Len(p) = b - a + 1
    BY <2>1, <2>2
  <2>4. DOMAIN p = 1 .. b - a + 1
    BY <2>1, <2>3, TextIs
  <2>5. p[k] \in Digit
    BY <1>1, <2>4 DEF IsNumber, Numeric
  <2> QED
    BY <2>1, <2>2, <2>5
<1>2. l \in 1 .. i - 1 \/ l = i \/ l \in i + 1 .. j - 1 \/ l = j \/ l \in j + 1 .. len
  BY ONLY l \in 1 .. len, i \in 1 .. len, j \in 1 .. len, len \in Nat
<1>3. l \in 1 .. i - 1 \/ l \in i + 1 .. j - 1 \/ l \in j + 1 .. len => t[l] \in Digit
  BY <1>1
<1> QED
  BY <1>2, <1>3

\* Three pieces at the dots that are numbers are a core.
LEMMA CoreIsValid ==
  ASSUME NEW t \in Text
  PROVE  Len(Split(t, Dot)) = 3 /\ (\A k \in 1 .. 3 : ValidCoreNumber(Split(t, Dot)[k]))
           <=> IsCore(t)
<1> PICK len \in Nat : len = Len(t) /\ DOMAIN t = 1 .. len /\ (t = <<>> <=> len = 0)
  BY TextIs
<1> PICK n, end : IsSplit(t, Dot, n, end)
  BY SplitAt
<1>0. n \in Nat /\ n > 0 /\ Cuts(t, Dot, n, end)
  BY DEF IsSplit
<1>1. /\ \A k \in 0 .. n : end[k] \in Nat
      /\ end[0] = 0 /\ end[n] = len + 1
      /\ \A k \in 1 .. n : end[k - 1] < end[k]
      /\ \A k \in 1 .. n - 1 : end[k] \in 1 .. len /\ t[end[k]] = Dot
      /\ \A i \in 1 .. len : t[i] = Dot => \E k \in 1 .. n - 1 : end[k] = i
  BY <1>0 DEF Cuts
<1> DEFINE piece(k) == Piece(t, end, k)
<1>2. /\ Split(t, Dot) = [k \in 1 .. n |-> piece(k)] /\ Len(Split(t, Dot)) = n
      /\ \A k \in 1 .. n : Split(t, Dot)[k] = piece(k)
  BY <1>0 DEF IsSplit
<1>3. \A k \in 1 .. n : Between(t, end[k - 1], end[k], piece(k))
  BY PieceIs
<1>4. ASSUME NEW k \in 1 .. n PROVE ValidCoreNumber(piece(k)) <=> IsNumber(piece(k))
  BY <1>3, CoreNumber DEF Between
<1> HIDE DEF piece
<1>5. ASSUME n = 3, NEW i, NEW j, i = end[1], j = end[2]
      PROVE  /\ piece(1) = SubSeq(t, 1, i - 1) /\ piece(2) = SubSeq(t, i + 1, j - 1)
             /\ piece(3) = SubSeq(t, j + 1, len)
  <2>1. end[1 - 1] = 0 /\ end[2 - 1] = i /\ end[3 - 1] = j /\ end[3] = len + 1
    BY <1>1, <1>5
  <2>2. /\ piece(1) = SubSeq(t, end[1 - 1] + 1, end[1] - 1)
        /\ piece(2) = SubSeq(t, end[2 - 1] + 1, end[2] - 1)
        /\ piece(3) = SubSeq(t, end[3 - 1] + 1, end[3] - 1)
    BY DEF piece, Piece
  <2>3. 0 + 1 = 1 /\ (len + 1) - 1 = len
    OBVIOUS
  <2> QED
    BY <1>5, <2>1, <2>2, <2>3, Zenon
<1>6. ASSUME n = 3, \A k \in 1 .. 3 : IsNumber(piece(k)) PROVE IsCore(t)
  <2> PICK i, j \in Nat : i = end[1] /\ j = end[2]
    BY <1>1, <1>6
  <2>1. 0 < i /\ i < j /\ j < len + 1 /\ t[i] = Dot /\ t[j] = Dot
    <3>1. 1 \in 1 .. n - 1 /\ 2 \in 1 .. n - 1 /\ 2 \in 1 .. n /\ 2 - 1 = 1
      BY <1>6
    <3> QED
      BY <1>1, <3>1
  <2>2. /\ IsNumber(SubSeq(t, 1, i - 1)) /\ IsNumber(SubSeq(t, i + 1, j - 1))
        /\ IsNumber(SubSeq(t, j + 1, len))
    <3>1. IsNumber(piece(1)) /\ IsNumber(piece(2)) /\ IsNumber(piece(3))
      BY <1>6
    <3>2. /\ piece(1) = SubSeq(t, 1, i - 1) /\ piece(2) = SubSeq(t, i + 1, j - 1)
          /\ piece(3) = SubSeq(t, j + 1, len)
      BY <1>5, <1>6
    <3> QED
      BY <3>1, <3>2
  <2> QED
    BY <2>1, <2>2 DEF IsCore
<1>7. ASSUME IsCore(t) PROVE n = 3 /\ \A k \in 1 .. 3 : IsNumber(piece(k))
  <2> PICK i \in 1 .. len, j \in 1 .. len :
        /\ i < j /\ t[i] = Dot /\ t[j] = Dot
        /\ IsNumber(SubSeq(t, 1, i - 1)) /\ IsNumber(SubSeq(t, i + 1, j - 1))
        /\ IsNumber(SubSeq(t, j + 1, len))
    BY <1>7 DEF IsCore
  <2>1. Dot \notin Digit
    BY DEF Digit, Dot
  <2>2. ASSUME NEW l \in 1 .. len, t[l] = Dot PROVE l = i \/ l = j
    BY <2>1, <2>2, CoreDots
  <2>3. \A k \in 1 .. n - 1 : end[k] = i \/ end[k] = j
    BY <1>1, <2>2
  <2> PICK x \in 1 .. n - 1, y \in 1 .. n - 1 : end[x] = i /\ end[y] = j
    BY <1>1
  <2>4. x # y /\ n >= 3
    BY <1>0
  <2>5. end[1] < end[2]
    <3>1. 2 \in 1 .. n /\ 2 - 1 = 1
      BY <1>0, <2>4
    <3> QED
      BY <1>1, <3>1
  <2>6. end[1] = i /\ end[2] = j
    <3>1. 1 \in 1 .. n - 1 /\ 2 \in 1 .. n - 1
      BY <1>0, <2>4
    <3> QED
      BY <2>3, <2>5, <3>1
  <2>7. n = 3
    <3> SUFFICES ASSUME n > 3 PROVE FALSE
      BY <1>0, <2>4
    <3>1. 3 \in 1 .. n - 1 /\ 3 \in 1 .. n /\ 3 - 1 = 2
      BY <1>0
    <3>2. end[2] < end[3]
      BY <1>1, <3>1
    <3> QED
      BY <2>3, <2>6, <3>1, <3>2
  <2>8. \A k \in 1 .. 3 : k = 1 \/ k = 2 \/ k = 3
    OBVIOUS
  <2>9. /\ piece(1) = SubSeq(t, 1, i - 1) /\ piece(2) = SubSeq(t, i + 1, j - 1)
        /\ piece(3) = SubSeq(t, j + 1, len)
    BY <1>5, <2>6, <2>7
  <2>10. IsNumber(piece(1)) /\ IsNumber(piece(2)) /\ IsNumber(piece(3))
    BY <2>9
  <2> QED
    BY <2>7, <2>8, <2>10
<1> QED
  BY <1>0, <1>2, <1>4, <1>6, <1>7

\* Characters of the two parts of a grammar.
LEMMA Distinct ==
  /\ Plus \notin Digit \cup Letter \cup {Dash, Dot}
  /\ Dash \notin Digit \cup {Dot} /\ Plus # Dash /\ Plus \notin Digit \cup {Dot}
BY DEF Plus, Dash, Dot, Digit, Letter

\* Every character of a core is a digit or a dot.
LEMMA CoreChars ==
  ASSUME NEW t \in Text, IsCore(t), NEW l \in 1 .. Len(t)
  PROVE  t[l] \in Digit \cup {Dot}
<1> PICK len \in Nat : len = Len(t) /\ DOMAIN t = 1 .. len
  BY TextIs
<1> PICK i \in 1 .. len, j \in 1 .. len :
      /\ i < j /\ t[i] = Dot /\ t[j] = Dot
      /\ IsNumber(SubSeq(t, 1, i - 1)) /\ IsNumber(SubSeq(t, i + 1, j - 1))
      /\ IsNumber(SubSeq(t, j + 1, len))
  BY DEF IsCore
<1> QED
  BY CoreDots

\* The division of a text into a core of c characters, a pre-release up to the
\* p-th, and a build.
Divides(t, c, p) ==
  /\ IsCore(SubSeq(t, 1, c))
  /\ c < p => /\ t[c + 1] = Dash
              /\ IsIdentifiers(SubSeq(t, c + 2, p)) /\ NoLeadingZeros(SubSeq(t, c + 2, p))
  /\ p < Len(t) => /\ t[p + 1] = Plus
                   /\ IsIdentifiers(SubSeq(t, p + 2, Len(t)))

\* The tail of a part.
LEMMA PartTail ==
  ASSUME NEW t \in Text, NEW i \in Nat, i > 0, NEW j \in Nat, j <= Len(t)
  PROVE  /\ SubSeq(t, i, j) # <<>> <=> i <= j
         /\ i <= j => SubSeq(t, i, j)[1] = t[i] /\ Tail(SubSeq(t, i, j)) = SubSeq(t, i + 1, j)
<1> PICK len \in Nat : len = Len(t)
  BY TextIs
<1> PICK p : p = SubSeq(t, i, j)
  OBVIOUS
<1>1. /\ p \in Text /\ Len(p) = IF i <= j THEN j - i + 1 ELSE 0
      /\ \A k \in 1 .. j - i + 1 : p[k] = t[i + k - 1]
  BY PartIs
<1>2. p = <<>> <=> Len(p) = 0
  BY <1>1, TextIs
<1>3. ASSUME i <= j PROVE p[1] = t[i] /\ Tail(p) = SubSeq(t, i + 1, j)
  <2>1. 1 \in 1 .. j - i + 1 /\ i + 1 - 1 = i /\ i \in 1 .. len /\ j \in i .. len
    BY <1>3
  <2>2. p[1] = t[i]
    BY <1>1, <2>1
  <2>3. Tail(p) = SubSeq(t, i + 1, j)
    BY <2>1, HeadTailOfSubSeq DEF Text
  <2> QED
    BY <2>2, <2>3
<1> QED
  BY <1>1, <1>2, <1>3

\* The grammar asks for some such division.
LEMMA GrammarDivides ==
  ASSUME NEW t \in Text
  PROVE  InGrammar(t) <=> \E c \in 0 .. Len(t) : \E p \in c .. Len(t) : Divides(t, c, p)
<1> PICK len \in Nat : len = Len(t)
  BY TextIs
<1> DEFINE Body(c, p) ==
      LET pre == SubSeq(t, c + 1, p)
          build == SubSeq(t, p + 1, len)
      IN  /\ IsCore(SubSeq(t, 1, c))
          /\ pre # <<>> => /\ pre[1] = Dash /\ IsIdentifiers(Tail(pre))
                           /\ NoLeadingZeros(Tail(pre))
          /\ build # <<>> => build[1] = Plus /\ IsIdentifiers(Tail(build))
<1>1. InGrammar(t) <=> \E c \in 0 .. len : \E p \in c .. len : Body(c, p)
  BY Zenon DEF InGrammar
<1>2. ASSUME NEW c \in 0 .. len, NEW p \in c .. len PROVE Body(c, p) <=> Divides(t, c, p)
  <2> PICK i, j \in Nat : i = c + 1 /\ j = p + 1 /\ i + 1 = c + 2 /\ j + 1 = p + 2
    OBVIOUS
  <2>1. /\ SubSeq(t, i, p) # <<>> <=> i <= p
        /\ i <= p => SubSeq(t, i, p)[1] = t[i] /\ Tail(SubSeq(t, i, p)) = SubSeq(t, i + 1, p)
    BY PartTail
  <2>2. /\ SubSeq(t, j, len) # <<>> <=> j <= len
        /\ j <= len => SubSeq(t, j, len)[1] = t[j] /\ Tail(SubSeq(t, j, len)) = SubSeq(t, j + 1, len)
    <3>1. j > 0 /\ len <= Len(t)
      OBVIOUS
    <3> QED
      BY ONLY <3>1, PartTail, t \in Text, j \in Nat, len \in Nat
  <2>3. (i <= p <=> c < p) /\ (j <= len <=> p < len)
    OBVIOUS
  <2> QED
    BY <2>1, <2>2, <2>3 DEF Divides
<1> HIDE DEF Body
<1> QED
  BY <1>1, <1>2

\* The first separator in the first n characters, or the place behind them.
First(t, sep, e, n) ==
  /\ e \in 1 .. n + 1 /\ \A k \in 1 .. e - 1 : t[k] # sep
  /\ e <= n => t[e] = sep

\* A division is where the first plus and the first dash before it are.
LEMMA DivisionIsUnique ==
  ASSUME NEW t \in Text, NEW len, len = Len(t),
         NEW c \in 0 .. len, NEW p \in c .. len, Divides(t, c, p),
         NEW e, First(t, Plus, e, len), NEW d, First(t, Dash, d, e - 1)
  PROVE  c = d - 1 /\ p = e - 1
<1> len \in Nat
  BY TextIs
<1>0. /\ e \in 1 .. len + 1 /\ \A k \in 1 .. e - 1 : t[k] # Plus
      /\ e <= len => t[e] = Plus
      /\ d \in 1 .. e /\ \A k \in 1 .. d - 1 : t[k] # Dash
      /\ d <= e - 1 => t[d] = Dash
  <2>1. /\ e \in 1 .. len + 1 /\ \A k \in 1 .. e - 1 : t[k] # Plus
        /\ e <= len => t[e] = Plus
    BY DEF First
  <2>2. (e - 1) + 1 = e
    BY <2>1
  <2> QED
    BY <2>1, <2>2 DEF First
<1>1. ASSUME NEW l \in 1 .. c PROVE t[l] \in Digit \cup {Dot}
  <2> DEFINE q == SubSeq(t, 1, c)
  <2>1. q \in Text /\ Len(q) = c /\ q[l] = t[l]
    <3>1. /\ q \in Text /\ Len(q) = IF 1 <= c THEN c - 1 + 1 ELSE 0
          /\ \A k \in 1 .. c - 1 + 1 : q[k] = t[1 + k - 1]
      BY PartIs
    <3>2. l \in 1 .. c - 1 + 1 /\ 1 + l - 1 = l
      OBVIOUS
    <3> QED
      BY <3>1, <3>2
  <2>2. IsCore(q)
    BY DEF Divides
  <2> HIDE DEF q
  <2>3. q[l] \in Digit \cup {Dot}
    BY <2>1, <2>2, CoreChars
  <2> QED
    BY <2>1, <2>3
<1>2. ASSUME c < p, NEW l \in c + 2 .. p PROVE t[l] # Plus
  <2> PICK i \in Nat : i = c + 2
    OBVIOUS
  <2> DEFINE q == SubSeq(t, i, p)
  <2>1. /\ q \in Text /\ Len(q) = IF i <= p THEN p - i + 1 ELSE 0
        /\ \A k \in 1 .. p - i + 1 : q[k] = t[i + k - 1]
    BY PartIs
  <2>2. IsIdentifiers(q)
    BY <1>2 DEF Divides
  <2> HIDE DEF q
  <2> PICK k \in 1 .. p - i + 1 : k = l - i + 1 /\ i + k - 1 = l
    OBVIOUS
  <2>3. k \in DOMAIN q
    BY <2>1, TextIs
  <2>4. q[k] \in Digit \cup Letter \cup {Dash, Dot}
    BY <2>2, <2>3 DEF IsIdentifiers
  <2> QED
    BY <2>1, <2>4, Distinct
<1>3. ASSUME NEW l \in 1 .. p PROVE t[l] # Plus
  <2>1. CASE l <= c
    BY <1>1, <2>1, Distinct
  <2>2. CASE l = c + 1
    BY <2>2, Distinct DEF Divides
  <2>3. CASE l > c + 1
    BY <1>2, <2>3
  <2> QED
    BY <2>1, <2>2, <2>3
<1>4. p < len => t[p + 1] = Plus
  BY DEF Divides
<1>5. p = e - 1
  <2>1. ~(e <= p)
    BY <1>0, <1>3
  <2>2. ~(p + 1 < e)
    BY <1>0, <1>4
  <2> QED
    BY <1>0, <2>1, <2>2
<1>6. \A l \in 1 .. c : t[l] # Dash
  BY <1>1, Distinct
<1>7. c < p => t[c + 1] = Dash
  BY DEF Divides
<1>8. c = d - 1
  <2>1. ~(d <= c)
    BY <1>0, <1>5, <1>6
  <2>2. ~(c + 1 < d)
    BY <1>0, <1>5, <1>7
  <2> QED
    BY <1>0, <2>1, <2>2
<1> QED
  BY <1>5, <1>8

\* Parse takes what the grammar derives, and nothing else.
THEOREM ParsesIsInGrammar ==
  ASSUME NEW t \in Text
  PROVE  Parses(t) <=> InGrammar(t)
<1> PICK len \in Nat : len = Len(t)
  BY TextIs
<1> DEFINE w == WithoutBuild(t)
<1>1. PICK e \in 1 .. len + 1 :
        /\ w = SubSeq(t, 1, e - 1) /\ After(t, Plus) = SubSeq(t, e + 1, len)
        /\ \A k \in 1 .. e - 1 : t[k] # Plus
        /\ Found(t, Plus) <=> e <= len
        /\ e <= len => t[e] = Plus
  BY CutAt DEF WithoutBuild
<1> PICK p \in 0 .. len : p = e - 1 /\ p + 1 = e /\ p + 2 = e + 1
  OBVIOUS
<1> HIDE DEF w
<1>2. /\ w \in Text /\ Len(w) = p
      /\ \A k \in 1 .. p : w[k] = t[k]
  <2>1. /\ w \in Text /\ Len(w) = IF 1 <= p THEN p - 1 + 1 ELSE 0
        /\ \A k \in 1 .. p - 1 + 1 : w[k] = t[1 + k - 1]
    BY <1>1, PartIs
  <2>2. \A k \in 1 .. p : k \in 1 .. p - 1 + 1 /\ 1 + k - 1 = k
    OBVIOUS
  <2>3. (IF 1 <= p THEN p - 1 + 1 ELSE 0) = p
    OBVIOUS
  <2> QED
    BY <2>1, <2>2, <2>3
<1>3. PICK d \in 1 .. p + 1 :
        /\ Before(w, Dash) = SubSeq(w, 1, d - 1) /\ After(w, Dash) = SubSeq(w, d + 1, p)
        /\ \A k \in 1 .. d - 1 : w[k] # Dash
        /\ Found(w, Dash) <=> d <= p
        /\ d <= p => w[d] = Dash
  <2>1. PICK d \in 1 .. Len(w) + 1 :
          /\ Before(w, Dash) = SubSeq(w, 1, d - 1) /\ After(w, Dash) = SubSeq(w, d + 1, Len(w))
          /\ \A k \in 1 .. d - 1 : w[k] # Dash
          /\ Found(w, Dash) <=> d <= Len(w)
          /\ d <= Len(w) => w[d] = Dash
    <3>1. w \in Text
      BY <1>2
    <3> QED
      BY ONLY <3>1, CutAt
  <2> QED
    BY <1>2, <2>1
<1> PICK c \in 0 .. p : c = d - 1 /\ c + 1 = d /\ c + 2 = d + 1
  OBVIOUS
<1>4. SubSeq(w, 1, c) = SubSeq(t, 1, c) /\ SubSeq(w, c + 2, p) = SubSeq(t, c + 2, p)
  BY <1>1, PartOfPart
<1> DEFINE u == SubSeq(t, 1, c)
           x == SubSeq(t, c + 2, p)
           y == SubSeq(t, p + 2, len)
<1>5. u \in Text /\ x \in Text /\ y \in Text
  <2> PICK i, j \in Nat : i = c + 2 /\ j = p + 2 /\ i > 0 /\ j > 0
    OBVIOUS
  <2>1. p \in Nat /\ c \in Nat /\ p <= Len(t) /\ c <= Len(t) /\ len <= Len(t)
    OBVIOUS
  <2>2. SubSeq(t, 1, c) \in Text
    <3> PICK k \in Nat : k = 1 /\ k > 0
      OBVIOUS
    <3> QED
      BY ONLY <2>1, PartIs, t \in Text, k \in Nat, k > 0, k = 1
  <2>3. SubSeq(t, i, p) \in Text
    BY <2>1, PartIs
  <2>4. SubSeq(t, j, len) \in Text
    BY ONLY <2>1, PartIs, t \in Text, j \in Nat, j > 0, len \in Nat
  <2> QED
    BY <2>2, <2>3, <2>4
<1> HIDE DEF u, x, y
<1>6. Parses(t) <=> /\ p < len => ValidIdentifiers(y, FALSE)
                    /\ c < p => ValidIdentifiers(x, TRUE)
                    /\ Len(Split(u, Dot)) = 3 /\ \A k \in 1 .. 3 : ValidCoreNumber(Split(u, Dot)[k])
  <2>1. Core(t) = Split(u, Dot)
    BY <1>3, <1>4 DEF Core, u, w
  <2>2. /\ Found(t, Plus) <=> p < len
        /\ Found(w, Dash) <=> c < p
    BY <1>1, <1>3
  <2>3. After(t, Plus) = y
    BY <1>1 DEF y
  <2>4. After(w, Dash) = x
    BY <1>3, <1>4 DEF x
  <2> QED
    BY <2>1, <2>2, <2>3, <2>4 DEF Parses, w
<1>7. Divides(t, c, p) <=> /\ p < len => IsIdentifiers(y)
                           /\ c < p => IsIdentifiers(x) /\ NoLeadingZeros(x)
                           /\ IsCore(u)
  <2>1. (p < len => t[p + 1] = Plus) /\ (c < p => t[c + 1] = Dash)
    BY <1>1, <1>2, <1>3
  <2> QED
    BY <2>1 DEF Divides, u, x, y
<1>8. Parses(t) <=> Divides(t, c, p)
  <2>1. ValidIdentifiers(y, FALSE) <=> IsIdentifiers(y)
    BY <1>5, IdentifiersAreValid
  <2>2. ValidIdentifiers(x, TRUE) <=> IsIdentifiers(x) /\ NoLeadingZeros(x)
    BY <1>5, IdentifiersAreValid
  <2>3. Len(Split(u, Dot)) = 3 /\ (\A k \in 1 .. 3 : ValidCoreNumber(Split(u, Dot)[k])) <=> IsCore(u)
    BY <1>5, CoreIsValid
  <2> QED
    BY <1>6, <1>7, <2>1, <2>2, <2>3
<1>9. ASSUME NEW b \in 0 .. len, NEW q \in b .. len, Divides(t, b, q) PROVE b = c /\ q = p
  <2>1. First(t, Plus, e, len)
    BY <1>1 DEF First
  <2>2. First(t, Dash, d, e - 1)
    BY <1>2, <1>3 DEF First
  <2>3. b = d - 1 /\ q = e - 1
    BY <1>9, <2>1, <2>2, DivisionIsUnique
  <2> QED
    BY <2>3
<1>10. c \in 0 .. len /\ p \in c .. len
  OBVIOUS
<1> QED
  BY <1>8, <1>9, <1>10, GrammarDivides

----------------------------------------------------------------------------
(* The order of texts, and of numbers by their digits.                     *)

\* Two sequences up to a place.
LEMMA SamePrefix ==
  ASSUME NEW S, NEW a \in Seq(S), NEW b \in Seq(S), NEW m \in Nat, m <= Len(a), m <= Len(b)
  PROVE  SubSeq(a, 1, m) = SubSeq(b, 1, m) <=> \A i \in 1 .. m : a[i] = b[i]
<1> PICK p, q : p = SubSeq(a, 1, m) /\ q = SubSeq(b, 1, m)
  OBVIOUS
<1>1. Len(a) \in Nat /\ Len(b) \in Nat
  BY LenProperties
<1>2. (\A i \in 1 .. m : a[i] \in S) /\ (\A i \in 1 .. m : b[i] \in S)
  BY <1>1, ElementOfSeq
<1>3. /\ p \in Seq(S) /\ Len(p) = (IF 1 <= m THEN m - 1 + 1 ELSE 0)
      /\ \A i \in 1 .. m - 1 + 1 : p[i] = a[1 + i - 1]
  BY <1>2, SubSeqProperties
<1>4. /\ q \in Seq(S) /\ Len(q) = (IF 1 <= m THEN m - 1 + 1 ELSE 0)
      /\ \A i \in 1 .. m - 1 + 1 : q[i] = b[1 + i - 1]
  BY <1>2, SubSeqProperties
<1>5. (IF 1 <= m THEN m - 1 + 1 ELSE 0) = m /\ \A i \in 1 .. m : i \in 1 .. m - 1 + 1 /\ 1 + i - 1 = i
  BY ONLY m \in Nat
<1>6. Len(p) = m /\ Len(q) = m /\ \A i \in 1 .. m : p[i] = a[i] /\ q[i] = b[i]
  BY <1>3, <1>4, <1>5
<1>7. (\A i \in 1 .. m : p[i] = q[i]) => p = q
  BY <1>3, <1>4, <1>6, SeqEqual
<1> QED
  BY <1>6, <1>7

\* Two sequences are the same before the k-th of their elements, and not there.
DifferAt(a, b, k) ==
  /\ k \in Nat /\ k >= 1 /\ \A i \in 1 .. k - 1 : a[i] = b[i]
  /\ \/ Len(a) = k - 1 /\ Len(b) >= k
     \/ Len(b) = k - 1 /\ Len(a) >= k
     \/ Len(a) >= k /\ Len(b) >= k /\ a[k] # b[k]

\* Sequences that are not the same differ somewhere for the first time.
LEMMA FirstDifference ==
  ASSUME NEW S, NEW a \in Seq(S), NEW b \in Seq(S), a # b
  PROVE  \E k : DifferAt(a, b, k)
<1> PICK la, lb \in Nat : la = Len(a) /\ lb = Len(b)
  BY LenProperties
<1> DEFINE Differ(k) == /\ k >= 1
                        /\ \/ k > la /\ k <= lb
                           \/ k > lb /\ k <= la
                           \/ k <= la /\ k <= lb /\ a[k] # b[k]
           D == {k \in Nat : Differ(k)}
<1>1. \E k \in Nat : Differ(k)
  <2>1. CASE la = lb
    <3>1. PICK k \in 1 .. la : a[k] # b[k]
      BY <2>1, SeqEqual
    <3> QED
      BY <2>1, <3>1
  <2>2. CASE la < lb
    <3>1. Differ(lb)
      BY <2>2
    <3> QED
      BY <3>1
  <2>3. CASE lb < la
    <3>1. Differ(la)
      BY <2>3
    <3> QED
      BY <3>1
  <2> QED
    BY <2>1, <2>2, <2>3
<1>2. PICK k \in Nat : Differ(k) /\ \A j \in Nat : Differ(j) => k <= j
  <2> HIDE DEF Differ
  <2>1. D \in SUBSET Nat /\ D # {}
    BY <1>1
  <2>2. PICK k \in D : \A j \in D : k <= j
    <3> HIDE DEF D
    <3> QED
      BY <2>1, Smallest
  <2> QED
    BY <2>2
<1>3. k \in Nat /\ k >= 1 /\ \A j \in 1 .. k - 1 : ~Differ(j)
  <2>1. k \in Nat /\ k >= 1
    BY <1>2
  <2>2. ASSUME NEW j \in 1 .. k - 1, Differ(j) PROVE FALSE
    <3> HIDE DEF Differ
    <3>1. k <= j
      BY <1>2, <2>2
    <3> QED
      BY <2>1, <3>1
  <2> HIDE DEF Differ
  <2> QED
    BY <2>1, <2>2
<1>4. k - 1 <= la /\ k - 1 <= lb
  <2>1. CASE k = 1
    BY <2>1
  <2>2. CASE k # 1
    <3>1. k - 1 \in 1 .. k - 1
      BY <1>3, <2>2
    <3>2. ~Differ(k - 1)
      BY <1>3, <3>1
    <3> QED
      BY <1>2, <1>3, <2>2, <3>2
  <2> QED
    BY <2>1, <2>2
<1>5. \A j \in 1 .. k - 1 : a[j] = b[j]
  <2> TAKE j \in 1 .. k - 1
  <2>1. j <= la /\ j <= lb /\ ~Differ(j) /\ j \in Nat /\ j >= 1
    BY <1>3, <1>4
  <2> QED
    BY <2>1
<1>6. DifferAt(a, b, k)
  BY <1>2, <1>3, <1>4, <1>5 DEF DifferAt
<1> QED
  BY <1>6

\* The order of Go strings, by the first difference.
LEMMA TextLessIs ==
  ASSUME NEW a \in Text, NEW b \in Text
  PROVE  TextLess(a, b) <=>
           \E k \in 1 .. Len(b) : /\ \A i \in 1 .. k - 1 : a[i] = b[i]
                                  /\ Len(a) = k - 1 \/ (Len(a) >= k /\ a[k] < b[k])
<1> PICK la, lb \in Nat : la = Len(a) /\ lb = Len(b)
  BY TextIs
<1>1. ASSUME NEW k \in 1 .. lb, la = k - 1 \/ la >= k
      PROVE  SubSeq(a, 1, k - 1) = SubSeq(b, 1, k - 1) <=> \A i \in 1 .. k - 1 : a[i] = b[i]
  <2> PICK m \in Nat : m = k - 1 /\ m <= la /\ m <= lb
    BY <1>1
  <2>1. m <= Len(a) /\ m <= Len(b)
    OBVIOUS
  <2>2. SubSeq(a, 1, m) = SubSeq(b, 1, m) <=> \A i \in 1 .. m : a[i] = b[i]
    BY <2>1, SamePrefix DEF Text
  <2> QED
    BY <2>2
<1> QED
  BY <1>1 DEF TextLess

\* It is a total order.
LEMMA TextOrder ==
  ASSUME NEW a \in Text, NEW b \in Text
  PROVE  /\ TextLess(a, b) \/ TextLess(b, a) \/ a = b
         /\ ~(TextLess(a, b) /\ TextLess(b, a)) /\ ~TextLess(a, a)
<1> PICK la, lb \in Nat : la = Len(a) /\ lb = Len(b)
  BY TextIs
<1> DEFINE Less(x, y, lx, ly, k) == /\ \A i \in 1 .. k - 1 : x[i] = y[i]
                                    /\ lx = k - 1 \/ (lx >= k /\ x[k] < y[k])
<1>1. /\ TextLess(a, b) <=> \E k \in 1 .. lb : Less(a, b, la, lb, k)
      /\ TextLess(b, a) <=> \E k \in 1 .. la : Less(b, a, lb, la, k)
      /\ TextLess(a, a) <=> \E k \in 1 .. la : Less(a, a, la, la, k)
  BY TextLessIs
<1>2. (\A i \in 1 .. la : a[i] \in Nat) /\ (\A i \in 1 .. lb : b[i] \in Nat)
  BY TextIs
<1>3. ASSUME NEW k \in 1 .. lb, Less(a, b, la, lb, k), NEW l \in 1 .. la, Less(b, a, lb, la, l)
      PROVE  FALSE
  <2>1. CASE k < l
    BY <1>2, <1>3, <2>1
  <2>2. CASE l < k
    BY <1>2, <1>3, <2>2
  <2>3. CASE k = l
    BY <1>2, <1>3, <2>3
  <2> QED
    BY <2>1, <2>2, <2>3
<1>4. ASSUME NEW k \in 1 .. la, Less(a, a, la, la, k) PROVE FALSE
  BY <1>2, <1>4
<1>5. ASSUME a # b PROVE TextLess(a, b) \/ TextLess(b, a)
  <2>1. PICK k : DifferAt(a, b, k)
    BY <1>5, FirstDifference DEF Text
  <2>2. /\ k \in Nat /\ k >= 1 /\ \A i \in 1 .. k - 1 : a[i] = b[i]
        /\ \/ la = k - 1 /\ lb >= k
           \/ lb = k - 1 /\ la >= k
           \/ la >= k /\ lb >= k /\ a[k] # b[k]
    BY <2>1 DEF DifferAt
  <2>3. CASE la = k - 1 /\ lb >= k
    BY <1>1, <2>2, <2>3
  <2>4. CASE lb = k - 1 /\ la >= k
    BY <1>1, <2>2, <2>4
  <2>5. CASE la >= k /\ lb >= k /\ a[k] # b[k]
    <3>1. a[k] \in Nat /\ b[k] \in Nat
      BY <1>2, <2>2, <2>5
    <3>2. a[k] < b[k] \/ b[k] < a[k]
      BY <2>5, <3>1
    <3> QED
      BY <1>1, <2>2, <2>5, <3>2
  <2> QED
    BY <2>2, <2>3, <2>4, <2>5
<1> QED
  BY <1>1, <1>3, <1>4, <1>5

\* f starts with first, and what it is at each later place is made of the one
\* before.
Steps(V) == [Nat -> [V -> V]]
Repeats(f, V, first, Step, len) ==
  /\ f \in [0 .. len -> V] /\ f[0] = first
  /\ \A k \in 1 .. len : f[k] = Step[k][f[k - 1]]

\* There is such a function.
LEMMA Recursive ==
  ASSUME NEW V, NEW first \in V, NEW Step \in Steps(V), NEW len \in Nat
  PROVE  \E f : Repeats(f, V, first, Step, len)
<1> DEFINE Is(f, m) == Repeats(f, V, first, Step, m)
           S == {m \in Nat : \E f : Is(f, m)}
<1> USE DEF Repeats, Steps
<1>1. 0 \in S
  <2>1. Is([k \in 0 .. 0 |-> first], 0)
    OBVIOUS
  <2> QED
    BY <2>1
<1>2. ASSUME NEW m \in Nat, m \in S PROVE m + 1 \in S
  <2>1. PICK f : Is(f, m)
    BY <1>2
  <2> PICK g : g = [k \in 0 .. m + 1 |-> IF k <= m THEN f[k] ELSE Step[m + 1][f[m]]]
    OBVIOUS
  <2>2. g \in [0 .. m + 1 -> V]
    BY <2>1
  <2>3. Is(g, m + 1)
    BY <2>1, <2>2
  <2> HIDE DEF Is
  <2> QED
    BY <2>3
<1>3. len \in S
  <2> HIDE DEF S
  <2> QED
    BY <1>1, <1>2, Induct
<1> QED
  BY <1>3

\* What the digits of a number come to, from the first on.
IsValue(v, t) ==
  /\ v[0] = 0 /\ Value(t) = v[Len(t)]
  /\ \A k \in 0 .. Len(t) : v[k] \in Nat
  /\ \A k \in 1 .. Len(t) : v[k] = 10 * v[k - 1] + t[k] - Zero

\* The recursion of Value ends.
LEMMA ValueDef ==
  ASSUME NEW t \in Text, Numeric(t)
  PROVE  \E v : IsValue(v, t)
<1> PICK len \in Nat : len = Len(t)
  BY TextIs
<1> DEFINE Then(k, x) == 10 * x + t[k] - Zero
<1>1. \A k \in 1 .. len, x \in Nat : Then(k, x) \in Nat
  <2> TAKE k \in 1 .. len, x \in Nat
  <2>1. t[k] \in Nat /\ t[k] >= 48
    BY TextIs DEF Numeric, Digit
  <2> QED
    BY <2>1 DEF Zero
<1> DEFINE v == CHOOSE f : f = [k \in 0 .. len |-> IF k = 0 THEN 0 ELSE 10 * f[k - 1] + t[k] - Zero]
<1>2. Value(t) = v[len]
  BY Zenon DEF Value
<1> HIDE DEF v
<1>2a. v = CHOOSE f : f = [k \in 0 .. len |-> IF k = 0 THEN 0 ELSE Then(k, f[k - 1])]
  BY Zenon DEF v
<1> HIDE DEF Then
<1> DEFINE Step == [k \in Nat |-> [x \in Nat |-> IF k \in 1 .. len THEN Then(k, x) ELSE 0]]
<1>3. Step \in Steps(Nat)
  BY <1>1 DEF Steps
<1>4. \A k \in 1 .. len, x \in Nat : Step[k][x] = Then(k, x)
  OBVIOUS
<1> HIDE DEF Step
<1>5. PICK f : Repeats(f, Nat, 0, Step, len)
  BY <1>3, Recursive
<1>6. \A k \in 1 .. len : f[k - 1] \in Nat /\ f[k] = Then(k, f[k - 1])
  <2> TAKE k \in 1 .. len
  <2>1. k - 1 \in 0 .. len /\ f \in [0 .. len -> Nat] /\ f[k] = Step[k][f[k - 1]]
    BY <1>5 DEF Repeats
  <2>2. f[k - 1] \in Nat
    BY <2>1
  <2> QED
    BY <1>4, <2>1, <2>2
<1>7. f = [k \in 0 .. len |-> IF k = 0 THEN 0 ELSE Then(k, f[k - 1])]
  BY <1>5, <1>6 DEF Repeats
<1>8. v = [k \in 0 .. len |-> IF k = 0 THEN 0 ELSE Then(k, v[k - 1])]
  BY <1>7, <1>2a, Zenon
<1>9. v[0] = 0 /\ \A k \in 1 .. len : v[k] = Then(k, v[k - 1])
  BY <1>8
<1>10. \A k \in 0 .. len : v[k] \in Nat
  <2> DEFINE S == {k \in Nat : k <= len => v[k] \in Nat}
  <2>1. 0 \in S
    BY <1>9
  <2>2. ASSUME NEW k \in Nat, k \in S PROVE k + 1 \in S
    <3> SUFFICES ASSUME k + 1 <= len PROVE v[k + 1] \in Nat
      OBVIOUS
    <3>1. k + 1 \in 1 .. len /\ (k + 1) - 1 = k /\ v[k] \in Nat
      BY <2>2
    <3> QED
      BY <1>1, <1>9, <3>1
  <2>3. \A k \in Nat : k \in S
    <3> HIDE DEF S
    <3> QED
      BY <2>1, <2>2, Induct
  <2> QED
    BY <2>3
<1>11. IsValue(v, t)
  BY <1>2, <1>9, <1>10 DEF IsValue, Then
<1> QED
  BY <1>11

\* The digits of a number.
LEMMA Digits ==
  ASSUME NEW t \in Text, Numeric(t), NEW len \in Nat, len = Len(t)
  PROVE  \A i \in 1 .. len : t[i] \in Nat /\ t[i] >= 48 /\ t[i] <= 57
<1> TAKE i \in 1 .. len
<1>1. DOMAIN t = 1 .. len
  BY TextIs
<1>2. t[i] \in 48 .. 57
  BY <1>1 DEF Numeric, Digit
<1> QED
  BY <1>2

\* A digit more does not change which of two numbers is the greater.
LEMMA DigitMore ==
  ASSUME NEW x \in Nat, NEW y \in Nat, x < y,
         NEW c \in Nat, NEW d \in Nat, c <= 57, d >= 48
  PROVE  10 * x + c - 48 < 10 * y + d - 48
<1>1. 10 * x + 10 <= 10 * y
  OBVIOUS
<1> QED
  BY <1>1, SMTT(30)

\* Two numbers of the same length that are the same but for a first digit:
\* the one with the smaller digit is the smaller.
LEMMA FirstDigit ==
  ASSUME NEW a \in Text, NEW b \in Text, Numeric(a), Numeric(b), NEW len \in Nat,
         len = Len(a), len = Len(b),
         NEW k \in 1 .. len, \A i \in 1 .. k - 1 : a[i] = b[i], a[k] < b[k]
  PROVE  Value(a) < Value(b)
<1>1. PICK v : IsValue(v, a)
  BY ValueDef
<1>2. PICK w : IsValue(w, b)
  BY ValueDef
<1>3. \A i \in 1 .. len : a[i] \in Nat /\ b[i] \in Nat /\ a[i] >= 48 /\ b[i] >= 48 /\ a[i] <= 57 /\ b[i] <= 57
  BY Digits
<1>4. /\ v[0] = 0 /\ Value(a) = v[len] /\ \A i \in 0 .. len : v[i] \in Nat
      /\ \A i \in 1 .. len : v[i] = 10 * v[i - 1] + a[i] - 48
  BY <1>1 DEF IsValue, Zero
<1>5. /\ w[0] = 0 /\ Value(b) = w[len] /\ \A i \in 0 .. len : w[i] \in Nat
      /\ \A i \in 1 .. len : w[i] = 10 * w[i - 1] + b[i] - 48
  BY <1>2 DEF IsValue, Zero
<1> DEFINE S == {i \in Nat : /\ i < k => v[i] = w[i]
                             /\ k <= i /\ i <= len => v[i] < w[i]}
<1>6. 0 \in S
  BY <1>4, <1>5
<1>7. ASSUME NEW i \in Nat, i \in S PROVE i + 1 \in S
  <2> SUFFICES ASSUME i + 1 <= len
               PROVE  /\ i + 1 < k => v[i + 1] = w[i + 1]
                      /\ k <= i + 1 => v[i + 1] < w[i + 1]
    OBVIOUS
  <2> PICK j \in 1 .. len : j = i + 1 /\ j - 1 = i
    OBVIOUS
  <2>1. v[i] \in Nat /\ w[i] \in Nat /\ v[j] = 10 * v[i] + a[j] - 48 /\ w[j] = 10 * w[i] + b[j] - 48
    BY <1>4, <1>5
  <2>2. a[j] \in Nat /\ b[j] \in Nat /\ a[j] >= 48 /\ b[j] >= 48 /\ a[j] <= 57 /\ b[j] <= 57
    BY <1>3
  <2>3. CASE j < k
    <3>1. a[j] = b[j] /\ v[i] = w[i]
      BY <1>7, <2>3
    <3> QED
      BY <2>1, <2>3, <3>1
  <2>4. CASE j = k
    <3>1. v[i] = w[i]
      BY <1>7, <2>4
    <3> QED
      BY <2>1, <2>2, <2>4, <3>1
  <2>5. CASE j > k
    <3>1. v[i] < w[i]
      BY <1>7, <2>5
    <3>2. 10 * v[i] + a[j] - 48 < 10 * w[i] + b[j] - 48
      BY <2>1, <2>2, <3>1, DigitMore
    <3> QED
      BY <2>1, <2>5, <3>2
  <2> QED
    BY <2>3, <2>4, <2>5
<1>8. \A i \in Nat : i \in S
  <2> HIDE DEF S
  <2> QED
    BY <1>6, <1>7, Induct
<1>9. v[len] < w[len]
  BY <1>8
<1> QED
  BY <1>4, <1>5, <1>9

\* A number of fewer digits is smaller than one with no zero in front.
LEMMA FewerDigits ==
  ASSUME NEW a \in Text, NEW b \in Text, IsNumber(a), IsNumber(b), Len(a) < Len(b)
  PROVE  Value(a) < Value(b)
<1> PICK la, lb \in Nat : la = Len(a) /\ lb = Len(b)
  BY TextIs
<1>0. Numeric(a) /\ Numeric(b) /\ la >= 1 /\ la < lb
  BY TextIs DEF IsNumber, Numeric
<1>1. PICK v : IsValue(v, a)
  BY <1>0, ValueDef
<1>2. PICK w : IsValue(w, b)
  BY <1>0, ValueDef
<1>3. \A i \in 1 .. la : a[i] \in Nat /\ a[i] >= 48 /\ a[i] <= 57
  BY <1>0, Digits
<1>3b. \A i \in 1 .. lb : b[i] \in Nat /\ b[i] >= 48 /\ b[i] <= 57
  BY <1>0, Digits
<1>4. /\ v[0] = 0 /\ Value(a) = v[la] /\ \A i \in 0 .. la : v[i] \in Nat
      /\ \A i \in 1 .. la : v[i] = 10 * v[i - 1] + a[i] - 48
  BY <1>1 DEF IsValue, Zero
<1>5. /\ w[0] = 0 /\ Value(b) = w[lb] /\ \A i \in 0 .. lb : w[i] \in Nat
      /\ \A i \in 1 .. lb : w[i] = 10 * w[i - 1] + b[i] - 48
  BY <1>2 DEF IsValue, Zero
<1>6. b[1] > 48
  <2>1. b[1] # 48
    BY <1>0 DEF IsNumber, Zero
  <2>2. b[1] \in Nat /\ b[1] >= 48
    BY <1>3b, <1>0
  <2> QED
    BY <2>1, <2>2
<1>7. w[1] >= 1
  <2>1. w[1] = 10 * w[1 - 1] + b[1] - 48
    BY <1>5, <1>0
  <2>2. b[1] \in Nat
    BY <1>3b, <1>0
  <2> QED
    BY <1>5, <1>6, <2>1, <2>2
<1> PICK d \in Nat : d = lb - la /\ d >= 1
  BY <1>0
\* The digits of b in front of as many as a has.
<1>8. \A i \in 1 .. d : w[i] >= 1
  <2> DEFINE S == {i \in Nat : i + 1 <= d => w[i + 1] >= 1}
  <2>1. 0 \in S
    BY <1>7
  <2>2. ASSUME NEW i \in Nat, i \in S PROVE i + 1 \in S
    <3> SUFFICES ASSUME i + 2 <= d PROVE w[i + 2] >= 1
      OBVIOUS
    <3> PICK j, k \in Nat : j = i + 2 /\ k = i + 1
      OBVIOUS
    <3>1. j \in 1 .. lb /\ k \in 0 .. lb /\ j - 1 = k
      BY <1>0
    <3>2. w[k] \in Nat /\ w[k] >= 1 /\ w[j] = 10 * w[k] + b[j] - 48
      BY <1>5, <2>2, <3>1
    <3>3. b[j] \in Nat /\ b[j] >= 48
      BY <1>3b, <3>1
    <3> QED
      BY <3>2, <3>3
  <2>3. \A i \in Nat : i \in S
    <3> HIDE DEF S
    <3> QED
      BY <2>1, <2>2, Induct
  <2> SUFFICES ASSUME NEW i \in 1 .. d PROVE w[i] >= 1
    OBVIOUS
  <2> PICK j \in Nat : j = i - 1 /\ j + 1 = i
    OBVIOUS
  <2>4. j \in S
    BY <2>3
  <2> QED
    BY <2>4
<1> DEFINE S == {i \in Nat : i <= la => v[i] < w[d + i]}
<1>9. 0 \in S
  <2>1. w[d] >= 1 /\ d + 0 = d /\ w[d] \in Nat
    BY <1>0, <1>5, <1>8
  <2> QED
    BY <1>4, <2>1
<1>10. ASSUME NEW i \in Nat, i \in S PROVE i + 1 \in S
  <2> SUFFICES ASSUME i + 1 <= la PROVE v[i + 1] < w[d + (i + 1)]
    OBVIOUS
  <2> PICK j \in Nat : j = i + 1
    OBVIOUS
  <2> PICK k \in Nat : k = d + (i + 1)
    OBVIOUS
  <2> PICK l \in Nat : l = d + i
    OBVIOUS
  <2>1. j \in 1 .. la /\ j - 1 = i /\ i \in 0 .. la /\ k \in 1 .. lb /\ k - 1 = l /\ l \in 0 .. lb
    BY <1>0
  <2>2. v[i] \in Nat /\ w[l] \in Nat /\ v[j] = 10 * v[i] + a[j] - 48 /\ w[k] = 10 * w[l] + b[k] - 48
    BY <1>4, <1>5, <2>1
  <2>3. a[j] \in Nat /\ b[k] \in Nat /\ a[j] >= 48 /\ b[k] >= 48 /\ a[j] <= 57 /\ b[k] <= 57
    BY <1>3, <1>3b, <2>1
  <2>4. v[i] < w[l]
    BY <1>10, <2>1
  <2>5. 10 * v[i] + a[j] - 48 < 10 * w[l] + b[k] - 48
    BY <2>2, <2>3, <2>4, DigitMore
  <2> QED
    BY <2>2, <2>5
<1>11. \A i \in Nat : i \in S
  <2> HIDE DEF S
  <2> QED
    BY <1>9, <1>10, Induct
<1>12. v[la] < w[lb]
  <2>1. la \in S /\ d + la = lb
    BY <1>11
  <2> QED
    BY <2>1
<1> QED
  BY <1>4, <1>5, <1>12

----------------------------------------------------------------------------
(* Compare.                                                                *)

\* A loop returns its first comparison that decides, or what follows the loop.
LEMMA LoopIs ==
  ASSUME NEW n \in Nat, NEW f \in [1 .. n -> Int], NEW last \in Int,
         NEW k \in 1 .. n + 1, \A j \in 1 .. k - 1 : f[j] = 0, k <= n => f[k] # 0
  PROVE  FirstOf(f \o <<last>>) = IF k <= n THEN f[k] ELSE last
<1> PICK r : r = f \o <<last>>
  OBVIOUS
<1>1. /\ Len(r) = n + 1 /\ \A j \in 1 .. n : r[j] = f[j]
      /\ r[n + 1] = last
  <2>1. f \in Seq(Int) /\ Len(f) = n
    BY IsASeq, LenProperties
  <2> PICK l : l = <<last>>
    OBVIOUS
  <2>2. l \in Seq(Int) /\ Len(l) = 1 /\ l[1] = last
    OBVIOUS
  <2>3. r = f \o l
    OBVIOUS
  <2>4. /\ Len(r) = Len(f) + Len(l)
        /\ \A i \in 1 .. Len(f) + Len(l) : r[i] = IF i <= Len(f) THEN f[i] ELSE l[i - Len(f)]
    BY <2>1, <2>2, <2>3, ConcatProperties
  <2>5. n + 1 - n = 1 /\ n + 1 \in 1 .. n + 1 /\ ~(n + 1 <= n)
    OBVIOUS
  <2> QED
    BY <2>1, <2>2, <2>4, <2>5
<1> DEFINE I == {j \in 1 .. n + 1 : r[j] # 0}
<1>2. FirstOf(r) = LET i == IF I # {} THEN Min(I) ELSE 0 IN IF i = 0 THEN 0 ELSE r[i]
  BY <1>1 DEF FirstOf, SelectInSeq
<1>3. \A j \in I : k <= j
  BY <1>1
<1>4. CASE k \in I
  <2>1. I \in SUBSET Nat
    OBVIOUS
  <2> HIDE DEF I
  <2> PICK m : m = Min(I)
    OBVIOUS
  <2>2. m \in I /\ m <= k
    BY <1>4, <2>1, MinIs
  <2>3. m = k /\ m # 0
    BY <1>3, <2>1, <2>2
  <2>4. FirstOf(r) = r[k]
    BY <1>2, <1>4, <2>3
  <2> QED
    BY <1>1, <2>4
<1>5. CASE k \notin I
  <2>1. r[k] = 0
    BY <1>5
  <2>2. k = n + 1
    BY <1>1, <2>1
  <2>3. last = 0 /\ \A j \in 1 .. n + 1 : r[j] = 0
    BY <1>1, <2>1, <2>2
  <2>4. I = {}
    BY <2>3
  <2> QED
    BY <1>2, <2>2, <2>3, <2>4
<1> QED
  BY <1>4, <1>5

\* Nothing is trimmed off a number without zeros in front.
LEMMA TrimmedIs ==
  ASSUME NEW t \in Text, IsNumber(t)
  PROVE  Trimmed(t) = t
<1> PICK len \in Nat : len = Len(t)
  BY TextIs
<1> DEFINE I == {j \in 1 .. len : t[j] # Zero}
<1>0. len >= 1
  BY TextIs DEF IsNumber, Numeric
<1>1. Trimmed(t) = LET i == IF I # {} THEN Min(I) ELSE 0
                   IN  IF i = 0 THEN <<Zero>> ELSE SubSeq(t, i, len)
  BY DEF Trimmed, SelectInSeq
<1>2. CASE t[1] # Zero
  <2>1. 1 \in I /\ I \in SUBSET Nat /\ I # {} /\ \A j \in I : j >= 1
    BY <1>0, <1>2
  <2> HIDE DEF I
  <2> PICK m : m = Min(I)
    OBVIOUS
  <2>2. m \in I /\ m <= 1
    BY <2>1, MinIs
  <2>3. m = 1
    BY <2>1, <2>2
  <2>4. Trimmed(t) = SubSeq(t, 1, len)
    BY <1>1, <2>1, <2>3
  <2> PICK p : p = SubSeq(t, 1, len)
    OBVIOUS
  <2>5. p \in Text /\ Len(p) = len /\ \A k \in 1 .. len : p[k] = t[k]
    <3>1. /\ p \in Text /\ Len(p) = IF 1 <= len THEN len - 1 + 1 ELSE 0
          /\ \A k \in 1 .. len - 1 + 1 : p[k] = t[1 + k - 1]
      BY PartIs
    <3>2. len - 1 + 1 = len /\ \A k \in 1 .. len : 1 + k - 1 = k
      OBVIOUS
    <3> QED
      BY <1>0, <3>1, <3>2
  <2> QED
    BY <2>4, <2>5, SameText
<1>3. CASE t[1] = Zero
  <2>1. len = 1
    BY <1>0, <1>3 DEF IsNumber
  <2>2. I = {}
    BY <1>3, <2>1
  <2>3. Trimmed(t) = <<Zero>>
    BY <1>1, <2>2
  <2> PICK p : p = <<Zero>>
    OBVIOUS
  <2>4. p \in Text /\ Len(p) = 1 /\ p[1] = Zero
    BY DEF Text, Zero
  <2>5. \A i \in 1 .. Len(t) : p[i] = t[i]
    BY <1>3, <2>1, <2>4
  <2>6. p = t
    BY <2>1, <2>4, <2>5, SameText
  <2> QED
    BY <2>3, <2>6
<1> QED
  BY <1>2, <1>3

\* A comparison decides between less, more and the same.
Decides(by, less, more, same) ==
  /\ by = Sign(less, more) /\ ~(less /\ more)
  /\ less \/ more <=> ~same

\* Of two numbers of the same length, the one that is less as a text is less.
LEMMA SameLength ==
  ASSUME NEW a \in Text, NEW b \in Text, Numeric(a), Numeric(b), Len(a) = Len(b),
         TextLess(a, b)
  PROVE  Value(a) < Value(b)
<1> PICK len \in Nat : len = Len(a) /\ len = Len(b)
  BY TextIs
<1>1. PICK k \in 1 .. len : /\ \A i \in 1 .. k - 1 : a[i] = b[i]
                            /\ len = k - 1 \/ (len >= k /\ a[k] < b[k])
  BY TextLessIs
<1>2. a[k] < b[k]
  BY <1>1
<1> QED
  BY <1>1, <1>2, FirstDigit

\* CompareNumeric is the order of the values.
LEMMA NumericOrder ==
  ASSUME NEW a \in Text, NEW b \in Text, IsNumber(a), IsNumber(b)
  PROVE  Decides(CompareNumeric(a, b), Value(a) < Value(b), Value(b) < Value(a), a = b)
<1> PICK la, lb \in Nat : la = Len(a) /\ lb = Len(b)
  BY TextIs
<1> PICK x, y : x = Value(a) /\ y = Value(b)
  OBVIOUS
<1>1. Numeric(a) /\ Numeric(b)
  BY DEF IsNumber
<1>2. x \in Nat /\ y \in Nat
  <2>1. PICK v : IsValue(v, a)
    BY <1>1, ValueDef
  <2>2. PICK w : IsValue(w, b)
    BY <1>1, ValueDef
  <2>3. la \in 0 .. la /\ lb \in 0 .. lb
    OBVIOUS
  <2> QED
    BY <2>1, <2>2, <2>3 DEF IsValue
<1>3. CompareNumeric(a, b) = IF la # lb THEN Sign(la < lb, TRUE)
                             ELSE Sign(TextLess(a, b), TextLess(b, a))
  BY TrimmedIs DEF CompareNumeric
<1>4. CASE la < lb
  <2>1. x < y
    BY <1>4, FewerDigits
  <2>2. ~(y < x) /\ a # b
    BY <1>2, <1>4, <2>1
  <2> QED
    BY <1>3, <1>4, <2>1, <2>2 DEF Decides, Sign
<1>5. CASE lb < la
  <2>1. y < x
    BY <1>5, FewerDigits
  <2>2. ~(x < y) /\ a # b /\ ~(la < lb) /\ la # lb
    BY <1>2, <1>5, <2>1
  <2> QED
    BY <1>3, <2>1, <2>2 DEF Decides, Sign
<1>6. CASE la = lb
  <2>1. TextLess(a, b) => x < y
    BY <1>1, <1>6, SameLength
  <2>2. TextLess(b, a) => y < x
    BY <1>1, <1>6, SameLength
  <2>3. /\ TextLess(a, b) \/ TextLess(b, a) \/ a = b
        /\ ~(TextLess(a, b) /\ TextLess(b, a))
    BY TextOrder
  <2>4. a = b => x = y
    OBVIOUS
  <2>5. ~(x < y /\ y < x) /\ (x = y => ~(x < y) /\ ~(y < x))
    BY <1>2
  <2>6. CompareNumeric(a, b) = Sign(TextLess(a, b), TextLess(b, a))
    BY <1>3, <1>6
  <2>7. (TextLess(a, b) <=> x < y) /\ (TextLess(b, a) <=> y < x)
    BY <2>1, <2>2, <2>3, <2>4, <2>5
  <2>8. Decides(CompareNumeric(a, b), x < y, y < x, a = b)
    BY <2>3, <2>4, <2>5, <2>6, <2>7, Zenon DEF Decides, Sign
  <2> QED
    BY <2>8
<1> QED
  BY <1>4, <1>5, <1>6

\* An identifier between two dots of a pre-release.
IsIdentifier(t) == t \in Text /\ (Numeric(t) => IsNumber(t))

\* CompareIdentifier is the order of identifiers.
LEMMA IdentifierOrder ==
  ASSUME NEW a, NEW b, IsIdentifier(a), IsIdentifier(b)
  PROVE  Decides(CompareIdentifier(a, b), IdentifierPrecedes(a, b),
                 IdentifierPrecedes(b, a), a = b)
<1>1. a \in Text /\ b \in Text
  BY DEF IsIdentifier
<1>2. CASE Numeric(a) /\ Numeric(b)
  <2>1. IsNumber(a) /\ IsNumber(b)
    BY <1>2 DEF IsIdentifier
  <2>2. Decides(CompareNumeric(a, b), Value(a) < Value(b), Value(b) < Value(a), a = b)
    BY <1>1, <2>1, NumericOrder
  <2>3. /\ CompareIdentifier(a, b) = CompareNumeric(a, b)
        /\ IdentifierPrecedes(a, b) <=> Value(a) < Value(b)
        /\ IdentifierPrecedes(b, a) <=> Value(b) < Value(a)
    BY <1>2 DEF CompareIdentifier, IdentifierPrecedes
  <2> QED
    BY <2>2, <2>3, Zenon DEF Decides, Sign
<1>3. CASE ~(Numeric(a) /\ Numeric(b))
  <2>1. /\ TextLess(a, b) \/ TextLess(b, a) \/ a = b
        /\ ~(TextLess(a, b) /\ TextLess(b, a)) /\ ~TextLess(a, a)
    BY <1>1, TextOrder
  <2>2. a = b => ~Numeric(a) /\ ~Numeric(b)
    BY <1>3
  <2>3. CompareIdentifier(a, b) = Sign(Numeric(a) \/ (~Numeric(b) /\ TextLess(a, b)),
                                       Numeric(b) \/ TextLess(b, a))
    BY <1>3 DEF CompareIdentifier
  <2>4. CASE Numeric(a)
    BY <1>3, <2>2, <2>3, <2>4, Zenon DEF IdentifierPrecedes, Decides, Sign
  <2>5. CASE ~Numeric(a) /\ Numeric(b)
    BY <1>3, <2>2, <2>3, <2>5, Zenon DEF IdentifierPrecedes, Decides, Sign
  <2>6. CASE ~Numeric(a) /\ ~Numeric(b)
    <3>1. /\ IdentifierPrecedes(a, b) <=> TextLess(a, b)
          /\ IdentifierPrecedes(b, a) <=> TextLess(b, a)
      BY <2>6 DEF IdentifierPrecedes
    <3>2. a = b => ~TextLess(a, b) /\ ~TextLess(b, a)
      BY <2>1
    <3> QED
      BY <2>1, <2>3, <2>6, <3>1, <3>2, Zenon DEF Decides, Sign
  <2> QED
    BY <2>4, <2>5, <2>6
<1> QED
  BY <1>2, <1>3

\* Sequences of identifiers, and their order (item 11).
AreIdentifiers(x) == x \in Seq(Text) /\ \A i \in 1 .. Len(x) : IsIdentifier(x[i])

PrereleasePrecedes(x, y) ==
  \/ x # <<>> /\ y = <<>>
  \/ x # <<>> /\ Len(x) < Len(y) /\ x = SubSeq(y, 1, Len(x))
  \/ \E k \in 1 .. Count(x, y) : /\ IdentifierPrecedes(x[k], y[k])
                                 /\ SubSeq(x, 1, k - 1) = SubSeq(y, 1, k - 1)

\* The first identifier that is not the same, or the first that is missing,
\* makes the one of two pre-releases precede the other.
LEMMA PrereleaseLess ==
  ASSUME NEW x, NEW y, AreIdentifiers(x), AreIdentifiers(y), x # <<>>, y # <<>>,
         NEW k \in Nat, k >= 1, \A i \in 1 .. k - 1 : x[i] = y[i],
         \/ Len(x) = k - 1 /\ Len(y) >= k
         \/ Len(x) >= k /\ Len(y) >= k /\ IdentifierPrecedes(x[k], y[k])
  PROVE  /\ PrereleasePrecedes(x, y) /\ ~PrereleasePrecedes(y, x)
         /\ ComparePrerelease(x, y) = -1 /\ ComparePrerelease(y, x) = 1
<1> PICK n, m \in Nat : n = Len(x) /\ m = Len(y)
  BY LenProperties DEF AreIdentifiers
<1>0. /\ x \in Seq(Text) /\ y \in Seq(Text)
      /\ \A i \in 1 .. n : IsIdentifier(x[i])
      /\ \A i \in 1 .. m : IsIdentifier(y[i])
  BY DEF AreIdentifiers
<1> PICK p \in Nat : p = k - 1 /\ p + 1 = k
  OBVIOUS
<1> PICK count : count = IF n < m THEN n ELSE m
  OBVIOUS
<1>1. Count(x, y) = count /\ Count(y, x) = count /\ count \in Nat /\ count <= n /\ count <= m
  BY DEF Count
<1>2. k <= m /\ p <= n /\ (k <= n \/ n = p) /\ p <= m
  OBVIOUS
<1>3. \A i \in 1 .. count : IsIdentifier(x[i]) /\ IsIdentifier(y[i])
  BY <1>0, <1>1
<1>4. \A i \in 1 .. count :
        /\ IdentifierPrecedes(x[i], y[i]) =>
             /\ CompareIdentifier(x[i], y[i]) = -1 /\ CompareIdentifier(y[i], x[i]) = 1
             /\ ~IdentifierPrecedes(y[i], x[i]) /\ x[i] # y[i]
        /\ x[i] = y[i] =>
             /\ CompareIdentifier(x[i], y[i]) = 0 /\ CompareIdentifier(y[i], x[i]) = 0
             /\ ~IdentifierPrecedes(y[i], x[i])
  <2> TAKE i \in 1 .. count
  <2> PICK a, b : a = x[i] /\ b = y[i]
    OBVIOUS
  <2>1. IsIdentifier(a) /\ IsIdentifier(b)
    BY <1>3
  <2>2. /\ Decides(CompareIdentifier(a, b), IdentifierPrecedes(a, b), IdentifierPrecedes(b, a), a = b)
        /\ Decides(CompareIdentifier(b, a), IdentifierPrecedes(b, a), IdentifierPrecedes(a, b), b = a)
    BY <2>1, IdentifierOrder
  <2>3. /\ IdentifierPrecedes(a, b) =>
             /\ CompareIdentifier(a, b) = -1 /\ CompareIdentifier(b, a) = 1
             /\ ~IdentifierPrecedes(b, a) /\ a # b
        /\ a = b => /\ CompareIdentifier(a, b) = 0 /\ CompareIdentifier(b, a) = 0
                    /\ ~IdentifierPrecedes(b, a)
    BY <2>2 DEF Decides, Sign
  <2> QED
    BY <2>3
<1>5. \A i \in 1 .. count : CompareIdentifier(x[i], y[i]) \in Int /\ CompareIdentifier(y[i], x[i]) \in Int
  <2> TAKE i \in 1 .. count
  <2>1. /\ Decides(CompareIdentifier(x[i], y[i]), IdentifierPrecedes(x[i], y[i]),
                   IdentifierPrecedes(y[i], x[i]), x[i] = y[i])
        /\ Decides(CompareIdentifier(y[i], x[i]), IdentifierPrecedes(y[i], x[i]),
                   IdentifierPrecedes(x[i], y[i]), y[i] = x[i])
    BY <1>3, IdentifierOrder
  <2> QED
    BY <2>1 DEF Decides, Sign
<1> PICK f, g : /\ f = [i \in 1 .. count |-> CompareIdentifier(x[i], y[i])]
                /\ g = [i \in 1 .. count |-> CompareIdentifier(y[i], x[i])]
  OBVIOUS
<1> PICK last, tsal : last = Sign(n < m, n > m) /\ tsal = Sign(m < n, m > n)
  OBVIOUS
<1>6. ComparePrerelease(x, y) = FirstOf(f \o <<last>>) /\ ComparePrerelease(y, x) = FirstOf(g \o <<tsal>>)
  BY <1>1 DEF ComparePrerelease
<1>7. f \in [1 .. count -> Int] /\ g \in [1 .. count -> Int] /\ last \in Int /\ tsal \in Int
  BY <1>5 DEF Sign
<1>8. /\ \A i \in 1 .. p : i \in 1 .. count /\ x[i] = y[i] /\ f[i] = 0 /\ g[i] = 0
      /\ \A i \in 1 .. k - 1 : i \in 1 .. p
  <2>1. p <= count
    BY <1>1, <1>2
  <2> QED
    BY <1>1, <1>4, <2>1
<1>9. CASE n = p
  <2>1. count = p /\ n < m /\ k \in 1 .. count + 1 /\ ~(k <= count)
    BY <1>1, <1>2, <1>9
  <2>2. last = -1 /\ tsal = 1
    BY <2>1 DEF Sign
  <2>3. ComparePrerelease(x, y) = -1 /\ ComparePrerelease(y, x) = 1
    <3>1. count \in Nat /\ k \in 1 .. count + 1 /\ ~(k <= count)
      BY <1>1, <2>1
    <3>2. \A i \in 1 .. k - 1 : f[i] = 0
      BY <1>8
    <3>3. \A i \in 1 .. k - 1 : g[i] = 0
      BY <1>8
    <3>4. FirstOf(f \o <<last>>) = last
      BY ONLY <1>7, <3>1, <3>2, LoopIs
    <3>5. FirstOf(g \o <<tsal>>) = tsal
      BY ONLY <1>7, <3>1, <3>3, LoopIs
    <3> QED
      BY <1>6, <2>2, <3>4, <3>5
  <2>4. PrereleasePrecedes(x, y)
    <3>1. SubSeq(x, 1, p) = SubSeq(y, 1, p) <=> \A i \in 1 .. p : x[i] = y[i]
      BY <1>0, <1>2, SamePrefix
    <3>2. SubSeq(x, 1, n) = SubSeq(y, 1, n)
      BY <1>8, <1>9, <3>1
    <3>3. SubSeq(x, 1, n) = x
      <4> PICK z : z = SubSeq(x, 1, n)
        OBVIOUS
      <4>1. /\ z \in Seq(Text) /\ Len(z) = (IF 1 <= n THEN n - 1 + 1 ELSE 0)
            /\ \A i \in 1 .. n - 1 + 1 : z[i] = x[1 + i - 1]
        <5>1. \A i \in 1 .. n : x[i] \in Text
          BY <1>0, ElementOfSeq
        <5> QED
          BY <5>1, SubSeqProperties
      <4>2. Len(z) = n /\ \A i \in 1 .. n : z[i] = x[i]
        <5>1. (IF 1 <= n THEN n - 1 + 1 ELSE 0) = n /\ \A i \in 1 .. n : i \in 1 .. n - 1 + 1 /\ 1 + i - 1 = i
          BY ONLY n \in Nat
        <5> QED
          BY <4>1, <5>1
      <4> QED
        BY <1>0, <4>1, <4>2, SeqEqual
    <3> QED
      BY <2>1, <3>2, <3>3 DEF PrereleasePrecedes
  <2>5. ~PrereleasePrecedes(y, x)
    <3>1. ~(m < n)
      BY <2>1
    <3>2. \A i \in 1 .. count : ~IdentifierPrecedes(y[i], x[i])
      BY <1>4, <1>8, <2>1
    <3> QED
      BY <1>1, <3>1, <3>2 DEF PrereleasePrecedes
  <2> QED
    BY <2>3, <2>4, <2>5
<1>10. CASE n # p
  <2>1. k <= n /\ k \in 1 .. count /\ k <= count /\ k \in 1 .. count + 1
    BY <1>1, <1>2, <1>10
  <2>2. IdentifierPrecedes(x[k], y[k])
    BY <1>10
  <2>3. f[k] = -1 /\ g[k] = 1 /\ ~IdentifierPrecedes(y[k], x[k]) /\ x[k] # y[k]
    BY <1>4, <2>1, <2>2
  <2>4. ComparePrerelease(x, y) = -1 /\ ComparePrerelease(y, x) = 1
    <3>1. f[k] # 0 /\ g[k] # 0
      BY <2>3
    <3>2. \A i \in 1 .. k - 1 : f[i] = 0
      BY <1>8
    <3>3. \A i \in 1 .. k - 1 : g[i] = 0
      BY <1>8
    <3>4. count \in Nat /\ k \in 1 .. count + 1 /\ k <= count
      BY <1>1, <2>1
    <3>5. f \in [1 .. count -> Int] /\ last \in Int
      BY <1>7
    <3>6. g \in [1 .. count -> Int] /\ tsal \in Int
      BY <1>7
    <3>7. (k <= count => f[k] # 0) /\ (k <= count => g[k] # 0)
      BY <3>1
    <3>8. FirstOf(f \o <<last>>) = f[k]
      <4>1. FirstOf(f \o <<last>>) = IF k <= count THEN f[k] ELSE last
        BY ONLY <3>2, <3>4, <3>5, <3>7, LoopIs
      <4> QED
        BY ONLY <3>4, <4>1
    <3>9. FirstOf(g \o <<tsal>>) = g[k]
      <4>1. FirstOf(g \o <<tsal>>) = IF k <= count THEN g[k] ELSE tsal
        BY ONLY <3>3, <3>4, <3>6, <3>7, LoopIs
      <4> QED
        BY ONLY <3>4, <4>1
    <3> QED
      BY <1>6, <2>3, <3>8, <3>9
  <2>5. PrereleasePrecedes(x, y)
    <3>1. SubSeq(x, 1, p) = SubSeq(y, 1, p) <=> \A i \in 1 .. p : x[i] = y[i]
      BY <1>0, <1>2, SamePrefix
    <3>2. SubSeq(x, 1, k - 1) = SubSeq(y, 1, k - 1)
      BY <1>8, <3>1
    <3> QED
      BY <1>1, <2>1, <2>2, <3>2 DEF PrereleasePrecedes
  <2>6. ~PrereleasePrecedes(y, x)
    <3>1. ASSUME m < n, y = SubSeq(x, 1, m) PROVE FALSE
      <4>1. y[k] = x[k]
        <5> PICK z : z = SubSeq(x, 1, m)
          OBVIOUS
        <5>1. \A i \in 1 .. m : x[i] \in Text
          BY <1>0, <3>1, ElementOfSeq
        <5>2. \A i \in 1 .. m - 1 + 1 : z[i] = x[1 + i - 1]
          BY <5>1, SubSeqProperties
        <5>3. k \in 1 .. m - 1 + 1 /\ 1 + k - 1 = k
          BY <1>2
        <5> QED
          BY <3>1, <5>2, <5>3
      <4> QED
        BY <2>3, <4>1
    <3>2. ASSUME NEW l \in 1 .. count, IdentifierPrecedes(y[l], x[l]),
                 SubSeq(y, 1, l - 1) = SubSeq(x, 1, l - 1)
          PROVE  FALSE
      <4>1. CASE l < k
        <5>1. l \in 1 .. p
          BY <4>1
        <5> QED
          BY <1>4, <1>8, <3>2, <5>1
      <4>2. CASE l = k
        BY <2>3, <3>2, <4>2
      <4>3. CASE l > k
        <5> PICK q \in Nat : q = l - 1 /\ q <= n /\ q <= m /\ k \in 1 .. q
          BY <1>1, <4>3
        <5>1. SubSeq(y, 1, q) = SubSeq(x, 1, q) <=> \A i \in 1 .. q : y[i] = x[i]
          BY <1>0, SamePrefix
        <5>2. y[k] = x[k]
          BY <3>2, <5>1
        <5> QED
          BY <2>3, <5>2
      <4> QED
        BY <1>1, <4>1, <4>2, <4>3
    <3> QED
      BY <1>1, <3>1, <3>2 DEF PrereleasePrecedes
  <2> QED
    BY <2>4, <2>5, <2>6
<1> QED
  BY <1>9, <1>10

\* ComparePrerelease is the order of pre-releases, none being the last.
LEMMA PrereleaseOrder ==
  ASSUME NEW x, NEW y, AreIdentifiers(x), AreIdentifiers(y)
  PROVE  Decides(ComparePrerelease(x, y), PrereleasePrecedes(x, y),
                 PrereleasePrecedes(y, x), x = y)
<1> PICK n, m \in Nat : n = Len(x) /\ m = Len(y)
  BY LenProperties DEF AreIdentifiers
<1>0. /\ x \in Seq(Text) /\ y \in Seq(Text)
      /\ \A i \in 1 .. n : IsIdentifier(x[i])
      /\ \A i \in 1 .. m : IsIdentifier(y[i])
      /\ x = <<>> <=> n = 0
      /\ y = <<>> <=> m = 0
  BY EmptySeq DEF AreIdentifiers
<1>1. Count(x, y) = (IF n < m THEN n ELSE m) /\ Count(y, x) = (IF m < n THEN m ELSE n)
  BY DEF Count
<1>2. CASE x = <<>> \/ y = <<>>
  <2>1. ComparePrerelease(x, y) = Sign(x # <<>>, y # <<>>)
    BY <1>2 DEF ComparePrerelease
  <2>2. 1 .. Count(x, y) = {} /\ 1 .. Count(y, x) = {}
    BY <1>0, <1>1, <1>2
  <2>3. PrereleasePrecedes(x, y) <=> x # <<>> /\ y = <<>>
    <3>1. x # <<>> => ~(n < m)
      BY <1>0, <1>2
    <3> QED
      BY <2>2, <3>1 DEF PrereleasePrecedes
  <2>4. PrereleasePrecedes(y, x) <=> y # <<>> /\ x = <<>>
    <3>1. y # <<>> => ~(m < n)
      BY <1>0, <1>2
    <3> QED
      BY <2>2, <3>1 DEF PrereleasePrecedes
  <2> QED
    BY <1>2, <2>1, <2>3, <2>4, Zenon DEF Decides, Sign
<1>3. CASE x # <<>> /\ y # <<>> /\ x # y
  <2>1. PICK k : DifferAt(x, y, k)
    BY <1>0, <1>3, FirstDifference
  <2>2. /\ k \in Nat /\ k >= 1 /\ \A i \in 1 .. k - 1 : x[i] = y[i]
        /\ \/ n = k - 1 /\ m >= k
           \/ m = k - 1 /\ n >= k
           \/ n >= k /\ m >= k /\ x[k] # y[k]
    BY <2>1 DEF DifferAt
  <2>3. n >= k /\ m >= k /\ x[k] # y[k] =>
          IdentifierPrecedes(x[k], y[k]) \/ IdentifierPrecedes(y[k], x[k])
    <3> SUFFICES ASSUME n >= k, m >= k, x[k] # y[k]
                 PROVE  IdentifierPrecedes(x[k], y[k]) \/ IdentifierPrecedes(y[k], x[k])
      OBVIOUS
    <3>1. IsIdentifier(x[k]) /\ IsIdentifier(y[k])
      BY <1>0, <2>2
    <3>2. Decides(CompareIdentifier(x[k], y[k]), IdentifierPrecedes(x[k], y[k]),
                  IdentifierPrecedes(y[k], x[k]), x[k] = y[k])
      BY <3>1, IdentifierOrder
    <3> QED
      BY <3>2 DEF Decides
  <2>4. CASE \/ n = k - 1 /\ m >= k
             \/ n >= k /\ m >= k /\ IdentifierPrecedes(x[k], y[k])
    <3>1. /\ PrereleasePrecedes(x, y) /\ ~PrereleasePrecedes(y, x)
          /\ ComparePrerelease(x, y) = -1 /\ ComparePrerelease(y, x) = 1
      BY <1>3, <2>2, <2>4, PrereleaseLess
    <3> QED
      BY <1>3, <3>1 DEF Decides, Sign
  <2>5. CASE \/ m = k - 1 /\ n >= k
             \/ n >= k /\ m >= k /\ IdentifierPrecedes(y[k], x[k])
    <3>1. /\ PrereleasePrecedes(y, x) /\ ~PrereleasePrecedes(x, y)
          /\ ComparePrerelease(y, x) = -1 /\ ComparePrerelease(x, y) = 1
      BY <1>3, <2>2, <2>5, PrereleaseLess
    <3> QED
      BY <1>3, <3>1 DEF Decides, Sign
  <2> QED
    BY <2>2, <2>3, <2>4, <2>5
<1>4. CASE x # <<>> /\ y # <<>> /\ x = y
  <2>1. Count(x, y) = n
    BY <1>1, <1>4
  <2>2. \A i \in 1 .. n : /\ CompareIdentifier(x[i], y[i]) = 0
                          /\ ~IdentifierPrecedes(x[i], y[i])
    <3> TAKE i \in 1 .. n
    <3>1. Decides(CompareIdentifier(x[i], x[i]), IdentifierPrecedes(x[i], x[i]),
                  IdentifierPrecedes(x[i], x[i]), x[i] = x[i])
      BY <1>0, IdentifierOrder
    <3> QED
      BY <1>4, <3>1 DEF Decides, Sign
  <2> PICK f : f = [i \in 1 .. n |-> CompareIdentifier(x[i], y[i])]
    OBVIOUS
  <2>3. f \in [1 .. n -> Int] /\ \A i \in 1 .. n : f[i] = 0
    BY <2>2
  <2>4. ComparePrerelease(x, y) = FirstOf(f \o <<0>>)
    <3>1. Sign(n < m, n > m) = 0
      BY <1>4 DEF Sign
    <3> QED
      BY <1>4, <2>1, <3>1 DEF ComparePrerelease
  <2>5. FirstOf(f \o <<0>>) = 0
    <3> PICK k \in Nat : k = n + 1
      OBVIOUS
    <3>1. k \in 1 .. n + 1 /\ ~(k <= n) /\ 0 \in Int /\ \A i \in 1 .. k - 1 : f[i] = 0
      BY <2>3
    <3> QED
      BY ONLY n \in Nat, <2>3, <3>1, LoopIs
  <2>6. ~PrereleasePrecedes(x, y)
    BY <1>4, <2>1, <2>2 DEF PrereleasePrecedes
  <2> QED
    BY <1>4, <2>4, <2>5, <2>6 DEF Decides, Sign
<1> QED
  BY <1>2, <1>3, <1>4

\* What Cut gives are texts.
LEMMA CutTexts ==
  ASSUME NEW t \in Text, NEW sep
  PROVE  Before(t, sep) \in Text /\ After(t, sep) \in Text
<1> PICK len \in Nat : len = Len(t)
  BY TextIs
<1>1. PICK e \in 1 .. len + 1 : /\ Before(t, sep) = SubSeq(t, 1, e - 1)
                                /\ After(t, sep) = SubSeq(t, e + 1, len)
  BY CutAt
<1> PICK p, q \in Nat : p = e - 1 /\ q = e + 1 /\ q > 0 /\ p <= len
  OBVIOUS
<1>2. SubSeq(t, 1, p) \in Text
  BY ONLY t \in Text, p \in Nat, p <= len, len = Len(t), PartIs
<1>3. SubSeq(t, q, len) \in Text
  BY ONLY t \in Text, q \in Nat, q > 0, len \in Nat, len = Len(t), len <= len, PartIs
<1> QED
  BY <1>1, <1>2, <1>3

\* And so are all that Split gives.
LEMMA SplitTexts ==
  ASSUME NEW t \in Text, NEW sep
  PROVE  Split(t, sep) \in Seq(Text) /\ DOMAIN Split(t, sep) = 1 .. Len(Split(t, sep))
<1>1. PICK n, end : IsSplit(t, sep, n, end)
  BY SplitAt
<1>2. n \in Nat /\ Split(t, sep) = [k \in 1 .. n |-> Piece(t, end, k)]
  BY <1>1 DEF IsSplit
<1>3. \A k \in 1 .. n : Piece(t, end, k) \in Text
  BY <1>1, PieceIs DEF Between
<1>4. Split(t, sep) \in [1 .. n -> Text]
  BY <1>2, <1>3
<1> QED
  BY <1>2, <1>4, IsASeq, LenProperties

\* A version: three numbers, and the identifiers of a pre-release.
IsVersion(v) ==
  /\ v = [core |-> v.core, prerelease |-> v.prerelease]
  /\ v.core \in Seq(Text) /\ Len(v.core) = 3 /\ \A k \in 1 .. 3 : IsNumber(v.core[k])
  /\ AreIdentifiers(v.prerelease)

\* What Parse accepts is one.
LEMMA ParsesToVersion ==
  ASSUME NEW t \in Text, Parses(t)
  PROVE  IsVersion(Version(t))
<1> PICK v : v = Version(t)
  OBVIOUS
<1> PICK w : w = WithoutBuild(t)
  OBVIOUS
<1>1. w \in Text
  BY CutTexts DEF WithoutBuild
<1> PICK u, x : u = Before(w, Dash) /\ x = After(w, Dash)
  OBVIOUS
<1>2. u \in Text /\ x \in Text
  BY <1>1, CutTexts
<1> PICK c, ids : c = Split(u, Dot) /\ ids = Split(x, Dot)
  OBVIOUS
<1>3. /\ c \in Seq(Text) /\ ids \in Seq(Text) /\ DOMAIN c = 1 .. Len(c) /\ DOMAIN ids = 1 .. Len(ids)
  BY <1>2, SplitTexts
<1>4. /\ v = [core |-> c, prerelease |-> IF Found(w, Dash) THEN ids ELSE <<>>]
  BY DEF Version, Core
<1>5. /\ Len(c) = 3 /\ \A k \in 1 .. 3 : ValidCoreNumber(c[k])
      /\ Found(w, Dash) => ValidIdentifiers(x, TRUE)
  BY DEF Parses, Core
<1>6. \A k \in 1 .. 3 : IsNumber(c[k])
  <2> TAKE k \in 1 .. 3
  <2>1. c[k] \in Text
    BY <1>3, <1>5, ElementOfSeq
  <2> QED
    BY <1>5, <2>1, CoreNumber
<1>7. AreIdentifiers(v.prerelease)
  <2>1. CASE Found(w, Dash)
    <3>1. v.prerelease = ids
      BY <1>4, <2>1
    <3>2. ASSUME NEW k \in 1 .. Len(ids) PROVE IsIdentifier(ids[k])
      <4>1. ids[k] \in Text
        BY <1>3, ElementOfSeq
      <4>2. ~(Numeric(ids[k]) /\ Len(ids[k]) > 1 /\ ids[k][1] = Zero)
        BY <1>3, <1>5, <2>1 DEF ValidIdentifiers
      <4> QED
        BY <4>1, <4>2 DEF IsIdentifier, IsNumber
    <3> QED
      BY <1>3, <3>1, <3>2 DEF AreIdentifiers
  <2>2. CASE ~Found(w, Dash)
    <3>1. v.prerelease = <<>>
      BY <1>4, <2>2
    <3> PICK none : none = <<>>
      OBVIOUS
    <3>2. none \in Seq(Text) /\ Len(none) = 0
      BY EmptySeq
    <3>3. v.prerelease = none /\ 1 .. Len(none) = {}
      BY <3>1, <3>2
    <3> QED
      BY <3>2, <3>3 DEF AreIdentifiers
  <2> QED
    BY <2>1, <2>2
<1>8. v.core = c /\ v = [core |-> v.core, prerelease |-> v.prerelease]
  BY <1>4
<1>9. IsVersion(v)
  BY <1>3, <1>5, <1>6, <1>7, <1>8 DEF IsVersion
<1> QED
  BY <1>9

\* Three numbers compared with three: the first that is not the same decides.
LEMMA CoreOrder ==
  ASSUME NEW v, NEW w, IsVersion(v), IsVersion(w), NEW k \in 1 .. 3,
         \A j \in 1 .. k - 1 : v.core[j] = w.core[j],
         Value(v.core[k]) < Value(w.core[k])
  PROVE  /\ Compare(v, w) = -1 /\ Compare(w, v) = 1
         /\ Precedes(v, w) /\ ~Precedes(w, v) /\ v.core # w.core
<1> PICK a, b : a = v.core /\ b = w.core
  OBVIOUS
<1>1. \A j \in 1 .. 3 : a[j] \in Text /\ b[j] \in Text /\ IsNumber(a[j]) /\ IsNumber(b[j])
  BY ElementOfSeq DEF IsVersion
<1> DEFINE A(j) == Value(a[j])
           B(j) == Value(b[j])
<1>2. \A j \in 1 .. 3 :
        /\ Decides(CompareNumeric(a[j], b[j]), A(j) < B(j), B(j) < A(j), a[j] = b[j])
        /\ Decides(CompareNumeric(b[j], a[j]), B(j) < A(j), A(j) < B(j), b[j] = a[j])
  BY <1>1, NumericOrder
<1>3. \A j \in 1 .. 3 :
        /\ A(j) < B(j) => /\ CompareNumeric(a[j], b[j]) = -1 /\ CompareNumeric(b[j], a[j]) = 1
                          /\ ~(B(j) < A(j)) /\ a[j] # b[j]
        /\ a[j] = b[j] => /\ CompareNumeric(a[j], b[j]) = 0 /\ CompareNumeric(b[j], a[j]) = 0
                          /\ ~(B(j) < A(j))
        /\ CompareNumeric(a[j], b[j]) \in Int /\ CompareNumeric(b[j], a[j]) \in Int
  <2> HIDE DEF A, B
  <2> QED
    BY <1>2 DEF Decides, Sign
<1>4. A(k) < B(k) /\ \A j \in 1 .. k - 1 : a[j] = b[j]
  OBVIOUS
<1> HIDE DEF A, B
<1> PICK f, g : /\ f = [j \in 1 .. 3 |-> CompareNumeric(a[j], b[j])]
                /\ g = [j \in 1 .. 3 |-> CompareNumeric(b[j], a[j])]
  OBVIOUS
<1>5. f \in [1 .. 3 -> Int] /\ g \in [1 .. 3 -> Int]
  BY <1>3
<1>6. f[k] = -1 /\ g[k] = 1 /\ ~(B(k) < A(k)) /\ a[k] # b[k]
  BY <1>3, <1>4
<1>7. \A j \in 1 .. k - 1 : j \in 1 .. 3 /\ f[j] = 0 /\ g[j] = 0 /\ ~(B(j) < A(j))
  BY <1>3, <1>4
<1> PICK p, q : /\ p = ComparePrerelease(v.prerelease, w.prerelease)
                /\ q = ComparePrerelease(w.prerelease, v.prerelease)
  OBVIOUS
<1>8. p \in Int /\ q \in Int
  <2>1. AreIdentifiers(v.prerelease) /\ AreIdentifiers(w.prerelease)
    BY DEF IsVersion
  <2> QED
    BY <2>1, PrereleaseOrder DEF Decides, Sign
<1>9. Compare(v, w) = FirstOf(f \o <<p>>) /\ Compare(w, v) = FirstOf(g \o <<q>>)
  BY DEF Compare
<1>10. 3 \in Nat /\ k \in 1 .. 3 + 1 /\ k <= 3 /\ f[k] # 0 /\ g[k] # 0
  BY <1>6
<1>11. FirstOf(f \o <<p>>) = f[k]
  <2>1. \A j \in 1 .. k - 1 : f[j] = 0
    BY <1>7
  <2> QED
    BY ONLY <1>5, <1>8, <1>10, <2>1, LoopIs
<1>12. FirstOf(g \o <<q>>) = g[k]
  <2>1. \A j \in 1 .. k - 1 : g[j] = 0
    BY <1>7
  <2> QED
    BY ONLY <1>5, <1>8, <1>10, <2>1, LoopIs
<1>13. Precedes(v, w)
  BY <1>4 DEF Precedes, A, B
<1>14. ~Precedes(w, v)
  <2>1. ASSUME NEW l \in 1 .. 3, B(l) < A(l), \A j \in 1 .. l - 1 : b[j] = a[j] PROVE FALSE
    <3>1. CASE l < k
      <4>1. l \in 1 .. k - 1
        BY <3>1
      <4> QED
        BY <1>7, <2>1, <4>1
    <3>2. CASE l = k
      BY <1>6, <2>1, <3>2
    <3>3. CASE l > k
      <4>1. k \in 1 .. l - 1
        BY <3>3
      <4> QED
        BY <1>6, <2>1, <4>1
    <3> QED
      BY <3>1, <3>2, <3>3
  <2>2. v.core # w.core
    BY <1>6
  <2> QED
    BY <2>1, <2>2 DEF Precedes, A, B
<1> QED
  BY <1>6, <1>9, <1>11, <1>12, <1>13, <1>14

\* Compare decides between two versions by the precedence of semver.org, and
\* finds two the same only if they are, but for builds.
THEOREM CompareIsPrecedes ==
  ASSUME NEW t \in Text, NEW u \in Text, Parses(t), Parses(u)
  PROVE  Decides(Compare(Version(t), Version(u)), Precedes(Version(t), Version(u)),
                 Precedes(Version(u), Version(t)), Version(t) = Version(u))
<1> PICK v, w : v = Version(t) /\ w = Version(u)
  OBVIOUS
<1>1. IsVersion(v) /\ IsVersion(w)
  BY ParsesToVersion
<1> PICK a, b, x, y : a = v.core /\ b = w.core /\ x = v.prerelease /\ y = w.prerelease
  OBVIOUS
<1>2. \A j \in 1 .. 3 : a[j] \in Text /\ b[j] \in Text /\ IsNumber(a[j]) /\ IsNumber(b[j])
  BY <1>1, ElementOfSeq DEF IsVersion
<1>3. Decides(ComparePrerelease(x, y), PrereleasePrecedes(x, y), PrereleasePrecedes(y, x), x = y)
  BY <1>1, PrereleaseOrder DEF IsVersion
<1>4. v = w <=> a = b /\ x = y
  BY <1>1 DEF IsVersion
<1>5. CASE a # b
  <2>1. PICK k : DifferAt(a, b, k)
    BY <1>1, <1>5, FirstDifference DEF IsVersion
  <2>2. k \in 1 .. 3 /\ (\A j \in 1 .. k - 1 : a[j] = b[j]) /\ a[k] # b[k]
    BY <1>1, <2>1 DEF DifferAt, IsVersion
  <2>3. Decides(CompareNumeric(a[k], b[k]), Value(a[k]) < Value(b[k]),
                Value(b[k]) < Value(a[k]), a[k] = b[k])
    BY <1>2, <2>2, NumericOrder
  <2>4. CASE Value(a[k]) < Value(b[k])
    <3>1. Compare(v, w) = -1 /\ Precedes(v, w) /\ ~Precedes(w, v)
      BY <1>1, <2>2, <2>4, CoreOrder
    <3> QED
      BY <1>4, <1>5, <3>1 DEF Decides, Sign
  <2>5. CASE Value(b[k]) < Value(a[k])
    <3>1. Compare(v, w) = 1 /\ Precedes(w, v) /\ ~Precedes(v, w)
      BY <1>1, <2>2, <2>5, CoreOrder
    <3> QED
      BY <1>4, <1>5, <3>1 DEF Decides, Sign
  <2> QED
    BY <2>2, <2>3, <2>4, <2>5 DEF Decides
<1>6. CASE a = b
  <2>1. \A j \in 1 .. 3 : /\ CompareNumeric(a[j], b[j]) = 0
                          /\ ~(Value(a[j]) < Value(b[j])) /\ ~(Value(b[j]) < Value(a[j]))
    <3> TAKE j \in 1 .. 3
    <3>1. Decides(CompareNumeric(a[j], b[j]), Value(a[j]) < Value(b[j]),
                  Value(b[j]) < Value(a[j]), a[j] = b[j])
      BY <1>2, NumericOrder
    <3>2. a[j] = b[j]
      BY <1>6
    <3> QED
      BY <3>1, <3>2 DEF Decides, Sign
  <2>2. /\ Precedes(v, w) <=> PrereleasePrecedes(x, y)
        /\ Precedes(w, v) <=> PrereleasePrecedes(y, x)
    BY <1>6, <2>1 DEF Precedes, PrereleasePrecedes
  <2> PICK f, p : f = [j \in 1 .. 3 |-> CompareNumeric(a[j], b[j])] /\ p = ComparePrerelease(x, y)
    OBVIOUS
  <2>3. f \in [1 .. 3 -> Int] /\ p \in Int /\ \A j \in 1 .. 4 - 1 : f[j] = 0
    BY <1>3, <2>1 DEF Decides, Sign
  <2>4. FirstOf(f \o <<p>>) = p
    <3> PICK k, n \in Nat : k = 4 /\ n = 3
      OBVIOUS
    <3>1. k \in 1 .. n + 1 /\ ~(k <= n) /\ f \in [1 .. n -> Int] /\ \A j \in 1 .. k - 1 : f[j] = 0
      BY <2>3
    <3> QED
      BY ONLY n \in Nat, <2>3, <3>1, LoopIs
  <2>5. Compare(v, w) = p
    BY <2>4 DEF Compare
  <2>6. v = w <=> x = y
    BY <1>4, <1>6
  <2>7. Decides(Compare(v, w), Precedes(v, w), Precedes(w, v), v = w)
    BY <1>3, <2>2, <2>5, <2>6, Zenon DEF Decides, Sign
  <2> QED
    BY <2>7
<1> QED
  BY <1>5, <1>6
----------------------------------------------------------------------------
(* Precedence is transitive.                                               *)

\* The order of sequences that the order R of their elements makes: y goes on
\* where x ends, or the k-th is the first that is not the same and is less.
Lexical(R, x, y, k) ==
  /\ k \in Nat /\ k >= 1 /\ \A i \in 1 .. k - 1 : x[i] = y[i]
  /\ \/ Len(x) = k - 1 /\ Len(y) >= k
     \/ Len(x) >= k /\ Len(y) >= k /\ <<x[k], y[k]>> \in R

\* It is transitive if R is.
LEMMA LexicalTransitive ==
  ASSUME NEW S, NEW R,
         \A a, b, c \in S : <<a, b>> \in R /\ <<b, c>> \in R => <<a, c>> \in R,
         NEW x \in Seq(S), NEW y \in Seq(S), NEW z \in Seq(S),
         NEW k, NEW l, Lexical(R, x, y, k), Lexical(R, y, z, l)
  PROVE  \E m : Lexical(R, x, z, m)
<1> PICK lx, ly, lz \in Nat : lx = Len(x) /\ ly = Len(y) /\ lz = Len(z)
  BY LenProperties
<1>1. /\ k \in Nat /\ k >= 1 /\ \A i \in 1 .. k - 1 : x[i] = y[i]
      /\ \/ lx = k - 1 /\ ly >= k
         \/ lx >= k /\ ly >= k /\ <<x[k], y[k]>> \in R
  BY DEF Lexical
<1>2. /\ l \in Nat /\ l >= 1 /\ \A i \in 1 .. l - 1 : y[i] = z[i]
      /\ \/ ly = l - 1 /\ lz >= l
         \/ ly >= l /\ lz >= l /\ <<y[l], z[l]>> \in R
  BY DEF Lexical
<1>3. CASE k < l
  <2>1. (\A i \in 1 .. k - 1 : x[i] = z[i]) /\ y[k] = z[k] /\ lz >= k
    BY <1>1, <1>2, <1>3
  <2>2. Lexical(R, x, z, k)
    BY <1>1, <2>1 DEF Lexical
  <2> QED
    BY <2>2
<1>4. CASE l < k
  <2>1. (\A i \in 1 .. l - 1 : x[i] = z[i]) /\ x[l] = y[l] /\ lx >= l /\ ly >= l
    BY <1>1, <1>2, <1>4
  <2>2. lz >= l /\ <<y[l], z[l]>> \in R
    BY <1>2, <2>1
  <2>3. Lexical(R, x, z, l)
    BY <1>2, <2>1, <2>2 DEF Lexical
  <2> QED
    BY <2>3
<1>5. CASE k = l
  <2>1. (\A i \in 1 .. k - 1 : x[i] = z[i]) /\ ly >= k /\ lz >= k /\ <<y[k], z[k]>> \in R
    BY <1>1, <1>2, <1>5
  <2>2. ASSUME lx >= k, <<x[k], y[k]>> \in R PROVE <<x[k], z[k]>> \in R
    <3>1. x[k] \in S /\ y[k] \in S /\ z[k] \in S
      BY <1>1, <2>1, <2>2, ElementOfSeq
    <3> QED
      BY <2>1, <2>2, <3>1
  <2>3. Lexical(R, x, z, k)
    BY <1>1, <2>1, <2>2 DEF Lexical
  <2> QED
    BY <2>3
<1> QED
  BY <1>1, <1>2, <1>3, <1>4, <1>5

\* The order of Go strings is transitive.
LEMMA TextTransitive ==
  ASSUME NEW a \in Text, NEW b \in Text, NEW c \in Text, TextLess(a, b), TextLess(b, c)
  PROVE  TextLess(a, c)
<1> PICK R : R = {p \in Nat \X Nat : p[1] < p[2]}
  OBVIOUS
<1>1. \A m, n \in Nat : <<m, n>> \in R <=> m < n
  OBVIOUS
<1>2. \A m, n, o \in Nat : <<m, n>> \in R /\ <<n, o>> \in R => <<m, o>> \in R
  BY <1>1
<1>3. ASSUME NEW t \in Text, NEW u \in Text
      PROVE  TextLess(t, u) <=> \E k : Lexical(R, t, u, k)
  <2> PICK lt, lu \in Nat : lt = Len(t) /\ lu = Len(u)
    BY TextIs
  <2>1. (\A i \in 1 .. lt : t[i] \in Nat) /\ (\A i \in 1 .. lu : u[i] \in Nat)
    BY TextIs
  <2>2. TextLess(t, u) <=>
          \E k \in 1 .. lu : /\ \A i \in 1 .. k - 1 : t[i] = u[i]
                             /\ lt = k - 1 \/ (lt >= k /\ t[k] < u[k])
    BY TextLessIs
  <2>3. ASSUME NEW k \in 1 .. lu PROVE lt >= k => (<<t[k], u[k]>> \in R <=> t[k] < u[k])
    BY <1>1, <2>1
  <2>4. ASSUME NEW k, Lexical(R, t, u, k) PROVE k \in 1 .. lu
    BY <2>4 DEF Lexical
  <2>5. ASSUME NEW k \in 1 .. lu, \A i \in 1 .. k - 1 : t[i] = u[i],
               lt = k - 1 \/ (lt >= k /\ t[k] < u[k])
        PROVE  Lexical(R, t, u, k)
    BY <2>3, <2>5 DEF Lexical
  <2>6. ASSUME NEW k, Lexical(R, t, u, k) PROVE TextLess(t, u)
    <3>1. k \in 1 .. lu /\ (lt >= k => (<<t[k], u[k]>> \in R <=> t[k] < u[k]))
      BY <2>3, <2>4, <2>6
    <3>2. (\A i \in 1 .. k - 1 : t[i] = u[i]) /\ (lt = k - 1 \/ (lt >= k /\ t[k] < u[k]))
      BY <2>6, <3>1 DEF Lexical
    <3> QED
      BY <2>2, <3>1, <3>2
  <2> QED
    BY <2>2, <2>5, <2>6
<1>4. PICK k, l : Lexical(R, a, b, k) /\ Lexical(R, b, c, l)
  BY <1>3
<1>5. \E m : Lexical(R, a, c, m)
  BY <1>2, <1>4, LexicalTransitive DEF Text
<1> QED
  BY <1>3, <1>5

\* So is that of identifiers.
LEMMA IdentifierTransitive ==
  ASSUME NEW a, NEW b, NEW c, IsIdentifier(a), IsIdentifier(b), IsIdentifier(c),
         IdentifierPrecedes(a, b), IdentifierPrecedes(b, c)
  PROVE  IdentifierPrecedes(a, c)
<1>1. a \in Text /\ b \in Text /\ c \in Text
  BY DEF IsIdentifier
<1>2. \A t \in Text : Numeric(t) => Value(t) \in Nat
  <2> TAKE t \in Text
  <2> SUFFICES ASSUME Numeric(t) PROVE Value(t) \in Nat
    OBVIOUS
  <2>1. PICK v : IsValue(v, t)
    BY ValueDef
  <2>2. Len(t) \in 0 .. Len(t)
    BY TextIs
  <2> QED
    BY <2>1, <2>2 DEF IsValue
<1>3. CASE Numeric(c)
  <2>1. Numeric(a) /\ Numeric(b) /\ Value(a) < Value(b) /\ Value(b) < Value(c)
    BY <1>3 DEF IdentifierPrecedes
  <2>2. Value(a) < Value(c)
    BY <1>1, <1>2, <1>3, <2>1
  <2> QED
    BY <1>3, <2>1, <2>2 DEF IdentifierPrecedes
<1>4. CASE ~Numeric(c) /\ Numeric(a)
  BY <1>4 DEF IdentifierPrecedes
<1>5. CASE ~Numeric(c) /\ ~Numeric(a)
  <2>1. TextLess(a, b) /\ TextLess(b, c)
    BY <1>5 DEF IdentifierPrecedes
  <2>2. TextLess(a, c)
    BY <1>1, <2>1, TextTransitive
  <2> QED
    BY <1>5, <2>2 DEF IdentifierPrecedes
<1> QED
  BY <1>3, <1>4, <1>5

\* And that of pre-releases.
LEMMA PrereleaseTransitive ==
  ASSUME NEW x, NEW y, NEW z, AreIdentifiers(x), AreIdentifiers(y), AreIdentifiers(z),
         PrereleasePrecedes(x, y), PrereleasePrecedes(y, z)
  PROVE  PrereleasePrecedes(x, z)
<1> DEFINE S == {t \in Text : IsIdentifier(t)}
<1> PICK R : R = {p \in S \X S : IdentifierPrecedes(p[1], p[2])}
  OBVIOUS
<1>1. \A a, b \in S : <<a, b>> \in R <=> IdentifierPrecedes(a, b)
  OBVIOUS
<1>2. \A a \in S : IsIdentifier(a)
  OBVIOUS
<1>3. \A a, b, c \in S : <<a, b>> \in R /\ <<b, c>> \in R => <<a, c>> \in R
  BY <1>1, <1>2, IdentifierTransitive
<1>4. ASSUME NEW t, AreIdentifiers(t) PROVE t \in Seq(S) /\ (t = <<>> <=> Len(t) = 0) /\ Len(t) \in Nat
  <2> PICK n \in Nat : n = Len(t)
    BY <1>4, LenProperties DEF AreIdentifiers
  <2>1. t \in Seq(Text) /\ \A i \in 1 .. n : IsIdentifier(t[i])
    BY <1>4 DEF AreIdentifiers
  <2>2. \A i \in 1 .. n : t[i] \in S
    BY <2>1, ElementOfSeq
  <2>3. t \in [1 .. n -> Text]
    BY <2>1, LenProperties
  <2>4. t \in [1 .. n -> S]
    <3> HIDE DEF S
    <3> QED
      BY <2>2, <2>3
  <2> HIDE DEF S
  <2>5. t \in Seq(S)
    BY <2>4, IsASeq
  <2> QED
    BY <2>1, <2>5, EmptySeq
<1> HIDE DEF S
<1>5. ASSUME NEW t, NEW u, AreIdentifiers(t), AreIdentifiers(u), t # <<>>, u # <<>>
      PROVE  PrereleasePrecedes(t, u) <=> \E k : Lexical(R, t, u, k)
  <2> PICK n, m \in Nat : n = Len(t) /\ m = Len(u)
    BY <1>4, <1>5
  <2>1. t \in Seq(S) /\ u \in Seq(S)
    BY <1>4, <1>5
  <2>2. (\A i \in 1 .. n : t[i] \in S) /\ (\A i \in 1 .. m : u[i] \in S)
    BY <2>1, ElementOfSeq
  <2>3. ASSUME NEW v, NEW w, AreIdentifiers(v), AreIdentifiers(w), v # <<>>, w # <<>>,
               NEW k, Lexical(R, v, w, k)
        PROVE  PrereleasePrecedes(v, w) /\ ~PrereleasePrecedes(w, v)
    <3>1. k \in Nat /\ k >= 1 /\ \A i \in 1 .. k - 1 : v[i] = w[i]
      BY <2>3 DEF Lexical
    <3>2. ASSUME Len(v) >= k, Len(w) >= k, <<v[k], w[k]>> \in R
          PROVE  IdentifierPrecedes(v[k], w[k])
      <4>1. v \in Seq(S) /\ w \in Seq(S) /\ Len(v) \in Nat /\ Len(w) \in Nat
        BY <1>4, <2>3
      <4>2. k \in 1 .. Len(v) /\ k \in 1 .. Len(w)
        BY <3>1, <3>2, <4>1
      <4>3. v[k] \in S /\ w[k] \in S
        BY <4>1, <4>2, ElementOfSeq
      <4> QED
        BY <1>1, <3>2, <4>3
    <3>3. \/ Len(v) = k - 1 /\ Len(w) >= k
          \/ Len(v) >= k /\ Len(w) >= k /\ IdentifierPrecedes(v[k], w[k])
      BY <2>3, <3>2 DEF Lexical
    <3> QED
      BY <2>3, <3>1, <3>3, PrereleaseLess
  <2>4. ASSUME PrereleasePrecedes(t, u) PROVE \E k : Lexical(R, t, u, k)
    <3>1. t # u
      <4>1. Decides(ComparePrerelease(t, u), PrereleasePrecedes(t, u), PrereleasePrecedes(u, t), t = u)
        BY <1>5, PrereleaseOrder
      <4> QED
        BY <2>4, <4>1 DEF Decides
    <3>2. PICK k : DifferAt(t, u, k)
      BY <2>1, <3>1, FirstDifference
    <3>3. /\ k \in Nat /\ k >= 1 /\ \A i \in 1 .. k - 1 : t[i] = u[i] /\ u[i] = t[i]
          /\ \/ n = k - 1 /\ m >= k
             \/ m = k - 1 /\ n >= k
             \/ n >= k /\ m >= k /\ t[k] # u[k]
      BY <3>2 DEF DifferAt
    <3>4. n >= k /\ m >= k /\ t[k] # u[k] => <<t[k], u[k]>> \in R \/ <<u[k], t[k]>> \in R
      <4> SUFFICES ASSUME n >= k, m >= k, t[k] # u[k]
                   PROVE  <<t[k], u[k]>> \in R \/ <<u[k], t[k]>> \in R
        OBVIOUS
      <4>1. t[k] \in S /\ u[k] \in S
        BY <2>2, <3>3
      <4>2. Decides(CompareIdentifier(t[k], u[k]), IdentifierPrecedes(t[k], u[k]),
                    IdentifierPrecedes(u[k], t[k]), t[k] = u[k])
        BY <1>2, <4>1, IdentifierOrder
      <4> QED
        BY <1>1, <4>1, <4>2 DEF Decides
    <3>5. Lexical(R, t, u, k) \/ Lexical(R, u, t, k)
      BY <3>3, <3>4 DEF Lexical
    <3>6. ~Lexical(R, u, t, k)
      BY <1>5, <2>3, <2>4
    <3> QED
      BY <3>5, <3>6
  <2> QED
    BY <1>5, <2>3, <2>4
<1>6. x # <<>> /\ y # <<>>
  <2>1. ASSUME NEW t, NEW u, AreIdentifiers(t), AreIdentifiers(u), PrereleasePrecedes(t, u)
        PROVE  t # <<>>
    <3>1. ASSUME t = <<>> PROVE 1 .. Count(t, u) = {}
      <4>1. Len(t) = 0 /\ Len(u) \in Nat
        BY <1>4, <2>1, <3>1
      <4> QED
        BY <4>1 DEF Count
    <3> QED
      BY <2>1, <3>1 DEF PrereleasePrecedes
  <2> QED
    BY <2>1
<1>7. CASE z = <<>>
  BY <1>6, <1>7 DEF PrereleasePrecedes
<1>8. CASE z # <<>>
  <2>1. PICK k, l : Lexical(R, x, y, k) /\ Lexical(R, y, z, l)
    BY <1>5, <1>6, <1>8
  <2>2. x \in Seq(S) /\ y \in Seq(S) /\ z \in Seq(S)
    BY <1>4
  <2>3. \E m : Lexical(R, x, z, m)
    BY <1>3, <2>1, <2>2, LexicalTransitive
  <2> QED
    BY <1>5, <1>6, <1>8, <2>3
<1> QED
  BY <1>7, <1>8

\* The core decides, or if it is the same the pre-release.
CorePrecedes(a, b) ==
  \E k \in 1 .. 3 : Value(a[k]) < Value(b[k]) /\ \A j \in 1 .. k - 1 : a[j] = b[j]

\* Item 11, by its two parts.
LEMMA PrecedesIs ==
  ASSUME NEW v, NEW w
  PROVE  Precedes(v, w) <=>
           CorePrecedes(v.core, w.core)
           \/ (v.core = w.core /\ PrereleasePrecedes(v.prerelease, w.prerelease))
BY DEF Precedes, CorePrecedes, PrereleasePrecedes

\* The precedence of versions is transitive: with the theorem above it is a total
\* order, but for builds, and so is Compare.
THEOREM PrecedesIsTransitive ==
  ASSUME NEW s \in Text, NEW t \in Text, NEW u \in Text, Parses(s), Parses(t), Parses(u),
         Precedes(Version(s), Version(t)), Precedes(Version(t), Version(u))
  PROVE  Precedes(Version(s), Version(u))
<1> PICK p, v, w : p = Version(s) /\ v = Version(t) /\ w = Version(u)
  OBVIOUS
<1>1. IsVersion(p) /\ IsVersion(v) /\ IsVersion(w)
  BY ParsesToVersion
<1>2. /\ CorePrecedes(p.core, v.core)
         \/ (p.core = v.core /\ PrereleasePrecedes(p.prerelease, v.prerelease))
      /\ CorePrecedes(v.core, w.core)
         \/ (v.core = w.core /\ PrereleasePrecedes(v.prerelease, w.prerelease))
  BY PrecedesIs
<1> DEFINE S == {a \in Text : IsNumber(a)}
<1>3. \A a \in S : Value(a) \in Nat
  <2> TAKE a \in S
  <2>1. PICK f : IsValue(f, a)
    BY ValueDef DEF IsNumber
  <2>2. Len(a) \in 0 .. Len(a)
    BY TextIs
  <2> QED
    BY <2>1, <2>2 DEF IsValue
<1>4. \A k \in 1 .. 3 : p.core[k] \in S /\ v.core[k] \in S /\ w.core[k] \in S
  BY <1>1, ElementOfSeq DEF IsVersion
<1>5. ASSUME CorePrecedes(p.core, v.core), CorePrecedes(v.core, w.core)
      PROVE  CorePrecedes(p.core, w.core)
  <2> PICK a, b, c : a = p.core /\ b = v.core /\ c = w.core
    OBVIOUS
  <2>1. \A k \in 1 .. 3 : Value(a[k]) \in Nat /\ Value(b[k]) \in Nat /\ Value(c[k]) \in Nat
    BY <1>3, <1>4
  <2>2. PICK k \in 1 .. 3 : Value(a[k]) < Value(b[k]) /\ \A j \in 1 .. k - 1 : a[j] = b[j]
    BY <1>5 DEF CorePrecedes
  <2>3. PICK l \in 1 .. 3 : Value(b[l]) < Value(c[l]) /\ \A j \in 1 .. l - 1 : b[j] = c[j]
    BY <1>5 DEF CorePrecedes
  <2>4. CASE k < l
    <3>1. Value(a[k]) < Value(c[k]) /\ \A j \in 1 .. k - 1 : a[j] = c[j]
      BY <2>2, <2>3, <2>4
    <3> QED
      BY <3>1 DEF CorePrecedes
  <2>5. CASE l < k
    <3>1. Value(a[l]) < Value(c[l]) /\ \A j \in 1 .. l - 1 : a[j] = c[j]
      BY <2>2, <2>3, <2>5
    <3> QED
      BY <3>1 DEF CorePrecedes
  <2>6. CASE k = l
    <3>1. Value(a[k]) < Value(c[k]) /\ \A j \in 1 .. k - 1 : a[j] = c[j]
      BY <2>1, <2>2, <2>3, <2>6
    <3> QED
      BY <3>1 DEF CorePrecedes
  <2> QED
    BY <2>4, <2>5, <2>6
<1>6. ASSUME PrereleasePrecedes(p.prerelease, v.prerelease), PrereleasePrecedes(v.prerelease, w.prerelease)
      PROVE  PrereleasePrecedes(p.prerelease, w.prerelease)
  BY <1>1, <1>6, PrereleaseTransitive DEF IsVersion
<1>7. CorePrecedes(p.core, w.core)
      \/ (p.core = w.core /\ PrereleasePrecedes(p.prerelease, w.prerelease))
  BY <1>2, <1>5, <1>6, Zenon
<1>8. Precedes(p, w)
  BY <1>7, PrecedesIs
<1> QED
  BY <1>8

----------------------------------------------------------------------------
(* OcrPackage: the inductive invariant.                                    *)

\* What the process p has read is what the file f holds, as far as it went.
ReadOf(p, f) == \A k \in 1 .. Len(sum[p]) : sum[p][k] = content[f][k]

\* No file is open that is still to be made; a process has a file open from
\* its open on, and has read all of it from its hash on.
ProcInv ==
  /\ name # None => name <= rebuilds
  /\ \A p \in Proc :
       /\ handle[p] # None => handle[p] <= rebuilds
       /\ pc[p] \in {"hash", "hashed", "fill", "settings"} \/ result[p] = "ok"
            => handle[p] # None
       /\ pc[p] \in {"start", "open"} => sum[p] = <<>>
       /\ pc[p] \in {"hashed", "fill", "settings"} \/ result[p] = "ok"
            => Len(sum[p]) = Pieces
       /\ pc[p] = "done" <=> result[p] # "none"

\* LoadPackage keeps to the manifest and the file it has opened.
LoadInv ==
  /\ pc["load"] \notin {"start", "done"} => got # None
  /\ handle["load"] # None /\ ~torn => ReadOf("load", handle["load"])
  /\ pc["load"] = "settings" \/ result["load"] = "ok" => sum["load"] = got.sha256
  /\ result["load"] = "ok" /\ ~torn => Settings(handle["load"])

\* As long as nobody touches the executable, WritePackage has only seen the
\* file that LoadPackage is to see.
StillWrite ==
  /\ pc["write"] # "start"
  /\ pc["write"] # "done" \/ result["write"] = "ok" => name # None /\ Settings(name)
  /\ pc["write"] \in {"hash", "hashed", "fill"} =>
       handle["write"] = name /\ ReadOf("write", name)
  /\ pc["write"] = "fill" => Parses(version)

StillLoad ==
  /\ pc["load"] = "start" /\ result["write"] = "ok" =>
       /\ manifest \in Manifest
       /\ manifest.version = version /\ Parses(version)
       /\ manifest.sha256 = content[name]
  /\ pc["load"] # "start" => result["write"] = "ok"
  /\ pc["load"] \notin {"start", "done"} => got.sha256 = content[name] /\ Fits(version)
  /\ pc["load"] \in {"hash", "hashed", "settings"} =>
       traits = Trait /\ handle["load"] = name /\ ReadOf("load", name)
  /\ WrittenLoads

IInv ==
  TypeOK /\ ProcInv /\ LoadInv /\ (still => StillWrite /\ StillLoad)

USE PackageAssumption, ManifestAssumption
    DEF vars, fileVars, procVars, historyVars, Pieces, File, Proc, Trait

\* A process that has read all of a file has what it holds.
LEMMA WholeFile ==
  ASSUME TypeOK, NEW p \in Proc, NEW f \in File, Len(sum[p]) = Pieces, ReadOf(p, f)
  PROVE  sum[p] = content[f]
<1>1. sum[p] \in Seq(Build) /\ content[f] \in [1 .. Pieces -> Build]
  BY DEF TypeOK
<1>2. sum[p] \in [1 .. Pieces -> Build]
  BY <1>1, LenProperties
<1> QED
  BY <1>1, <1>2 DEF ReadOf

\* The invariant holds at first.
LEMMA InitIInv == Init => IInv
<1> SUFFICES ASSUME Init PROVE IInv
  OBVIOUS
<1>1. TypeOK
  <2>1. <<>> \in Seq(Build) /\ Len(<<>>) = 0
    BY EmptySeq
  <2>2. content \in [File -> [1 .. Pieces -> Build]]
    BY DEF Init
  <2>3. manifest \in Manifest \cup {None, Torn}
    BY <2>2 DEF Init, Manifest
  <2>4. sum \in [Proc -> Seq(Build)] /\ \A p \in Proc : Len(sum[p]) <= Pieces
    BY <2>1 DEF Init
  <2>5. /\ name \in File \cup {None} /\ rebuilds \in 0 .. MaxRebuild
        /\ handle \in [Proc -> File \cup {None}]
    BY DEF Init
  <2> QED
    BY <2>2, <2>3, <2>4, <2>5 DEF Init, TypeOK
<1>2. ProcInv /\ LoadInv
  BY DEF Init, ProcInv, LoadInv
<1> QED
  BY <1>1, <1>2 DEF Init, IInv

\* Every step of either process and of what happens meanwhile keeps it.
LEMMA StepIInv == IInv /\ [Next]_vars => IInv'
<1> SUFFICES ASSUME IInv, [Next]_vars PROVE IInv'
  OBVIOUS
<1>0. TypeOK /\ ProcInv /\ LoadInv /\ (still => StillWrite /\ StillLoad)
  BY DEF IInv
<1>1. CASE WriteSettings
  <2>1. TypeOK'
    BY <1>0, <1>1 DEF WriteSettings, Return, Go, TypeOK
  <2>2. ProcInv'
    BY <1>0, <1>1 DEF WriteSettings, Return, Go, TypeOK, ProcInv
  <2>3. LoadInv'
    BY <1>0, <1>1 DEF WriteSettings, Return, Go, TypeOK, LoadInv, ReadOf, Settings
  <2>4. (still => StillWrite /\ StillLoad)'
    BY <1>0, <1>1
       DEF WriteSettings, Return, Go, TypeOK, ProcInv, StillWrite, StillLoad, WrittenLoads, ReadOf,
           Settings
  <2> QED
    BY <2>1, <2>2, <2>3, <2>4 DEF IInv
<1>2. CASE WriteOpens
  <2>1. TypeOK'
    BY <1>0, <1>2 DEF WriteOpens, Open, Return, Go, TypeOK
  <2>2. ProcInv'
    <3>1. CASE Return("write", "missing") /\ UNCHANGED handle
      BY <1>0, <1>2, <3>1 DEF WriteOpens, Return, TypeOK, ProcInv
    <3>2. CASE name # None /\ Go("write", "hash") /\ handle' = [handle EXCEPT !["write"] = name]
      BY <1>0, <1>2, <3>2 DEF WriteOpens, Open, Go, TypeOK, ProcInv
    <3> QED
      BY <1>2, <3>1, <3>2 DEF WriteOpens, Open
  <2>3. LoadInv'
    BY <1>0, <1>2 DEF WriteOpens, Open, Return, Go, TypeOK, LoadInv, ReadOf, Settings
  <2>4. (still => StillWrite /\ StillLoad)'
    BY <1>0, <1>2
       DEF WriteOpens, Open, Return, Go, TypeOK, ProcInv, StillWrite, StillLoad, WrittenLoads, ReadOf,
           Settings
  <2> QED
    BY <2>1, <2>2, <2>3, <2>4 DEF IInv
<1>3. CASE WriteCreates
  <2>1. TypeOK'
    BY <1>0, <1>3 DEF WriteCreates, Return, Go, TypeOK
  <2>2. ProcInv'
    BY <1>0, <1>3 DEF WriteCreates, Return, Go, TypeOK, ProcInv
  <2>3. LoadInv'
    BY <1>0, <1>3 DEF WriteCreates, Return, Go, TypeOK, LoadInv, ReadOf, Settings
  <2>4. (still => StillWrite /\ StillLoad)'
    BY <1>0, <1>3
       DEF WriteCreates, Return, Go, TypeOK, ProcInv, StillWrite, StillLoad, WrittenLoads, ReadOf,
           Settings, Validated
  <2> QED
    BY <2>1, <2>2, <2>3, <2>4 DEF IInv
<1>4. CASE WriteFills
  <2>0. sum["write"] \in [1 .. Pieces -> Build]
    <3>1. sum["write"] \in Seq(Build) /\ Len(sum["write"]) = Pieces
      BY <1>0, <1>4 DEF WriteFills, TypeOK, ProcInv
    <3> QED
      BY <3>1, LenProperties
  <2> PICK m : m = [version |-> version, sha256 |-> sum["write"]]
    OBVIOUS
  <2>5. m \in Manifest /\ m.version = version /\ m.sha256 = sum["write"]
    BY <1>0, <2>0 DEF TypeOK, Manifest
  <2>6. /\ pc["write"] = "fill" /\ pc' = [pc EXCEPT !["write"] = "done"]
        /\ UNCHANGED <<fileVars, version, ended, handle, sum, got, historyVars>>
        /\ \/ manifest' = m /\ result' = [result EXCEPT !["write"] = "ok"]
           \/ manifest' = manifest /\ result' = [result EXCEPT !["write"] = "manifest"]
    BY <1>4 DEF WriteFills, Return
  <2>1. TypeOK'
    BY <1>0, <2>5, <2>6 DEF TypeOK
  <2>2. ProcInv'
    BY <1>0, <1>4 DEF WriteFills, Return, Go, TypeOK, ProcInv
  <2>3. LoadInv'
    BY <1>0, <1>4 DEF WriteFills, Return, Go, TypeOK, LoadInv, ReadOf, Settings
  <2>4. (still => StillWrite /\ StillLoad)'
    <3> SUFFICES ASSUME still PROVE StillWrite' /\ StillLoad'
      BY <1>4 DEF WriteFills
    <3>1. sum["write"] = content[name] /\ Parses(version)
      BY <1>0, <1>4, WholeFile DEF WriteFills, TypeOK, ProcInv, StillWrite
    <3>2. StillLoad /\ result["write"] = "none"
      BY <1>0, <2>6 DEF ProcInv
    <3>3. StillWrite'
      BY <1>0, <1>4 DEF WriteFills, Return, TypeOK, ProcInv, StillWrite, ReadOf, Settings
    <3>4. pc["load"] = "start"
      BY <3>2 DEF StillLoad, TypeOK
    <3>5. StillLoad'
      <4>1. /\ pc'["load"] = "start" /\ UNCHANGED <<content, name, version>>
            /\ result'["write"] = "ok" => manifest' = m
        BY <1>0, <2>6, <3>4 DEF TypeOK
      <4> QED
        BY <2>5, <3>1, <4>1 DEF StillLoad, WrittenLoads
    <3> QED
      BY <3>3, <3>5
  <2> QED
    BY <2>1, <2>2, <2>3, <2>4 DEF IInv
<1>5. CASE LoadManifest
  <2>1. TypeOK'
    BY <1>0, <1>5 DEF LoadManifest, Return, Go, TypeOK
  <2>2. ProcInv'
    BY <1>0, <1>5 DEF LoadManifest, Return, Go, TypeOK, ProcInv
  <2>3. LoadInv'
    BY <1>0, <1>5 DEF LoadManifest, Return, Go, TypeOK, ProcInv, LoadInv, ReadOf, Settings
  <2>4. (still => StillWrite /\ StillLoad)'
    <3> SUFFICES ASSUME still' PROVE StillWrite' /\ StillLoad'
      OBVIOUS
    <3>1. still /\ result["write"] = "ok" /\ pc["load"] = "start"
      BY <1>5 DEF LoadManifest
    <3>2. /\ manifest \in Manifest /\ manifest.version = version
          /\ Parses(version) /\ manifest.sha256 = content[name]
      BY <1>0, <3>1 DEF StillLoad
    <3>3. /\ UNCHANGED <<fileVars, version, manifest, ended, handle, sum, torn>>
          /\ \/ /\ Fits(version) /\ got' = manifest
                /\ pc' = [pc EXCEPT !["load"] = "open"] /\ result' = result
             \/ /\ ~Fits(version) /\ got' = got
                /\ pc' = [pc EXCEPT !["load"] = "done"]
                /\ result' = [result EXCEPT !["load"] = "limit"]
      BY <1>5, <3>2, ManifestAssumption DEF LoadManifest, Go, Return
    <3>4. StillWrite'
      BY <1>0, <3>1, <3>3 DEF TypeOK, ProcInv, StillWrite, ReadOf, Settings
    <3>5. StillLoad'
      <4>1. /\ result'["write"] = "ok"
            /\ \/ Fits(version) /\ pc'["load"] = "open" /\ got'.sha256 = content[name]
               \/ ~Fits(version) /\ pc'["load"] = "done" /\ result'["load"] = "limit"
        BY <1>0, <3>1, <3>2, <3>3 DEF TypeOK
      <4>2. WrittenLoads'
        BY <3>3, <4>1 DEF WrittenLoads, Fits
      <4> QED
        BY <3>3, <4>1, <4>2 DEF StillLoad, Fits
    <3> QED
      BY <3>4, <3>5
  <2> QED
    BY <2>1, <2>2, <2>3, <2>4 DEF IInv
<1>6. CASE LoadOpens
  <2>1. TypeOK'
    BY <1>0, <1>6 DEF LoadOpens, Open, Return, Go, TypeOK
  <2>2. ProcInv'
    <3>1. CASE \E r \in {"missing", "escape", "size", "permission"} : Return("load", r) /\ UNCHANGED handle
      BY <1>0, <1>6, <3>1 DEF LoadOpens, Return, TypeOK, ProcInv
    <3>2. CASE name # None /\ Go("load", "hash") /\ handle' = [handle EXCEPT !["load"] = name]
      BY <1>0, <1>6, <3>2 DEF LoadOpens, Open, Go, TypeOK, ProcInv
    <3> QED
      BY <1>6, <3>1, <3>2 DEF LoadOpens, Open
  <2>3. LoadInv'
    BY <1>0, <1>6 DEF LoadOpens, Open, Return, Go, TypeOK, ProcInv, LoadInv, ReadOf, Settings
  <2>4. (still => StillWrite /\ StillLoad)'
    <3> SUFFICES ASSUME still PROVE StillWrite' /\ StillLoad'
      BY <1>6 DEF LoadOpens
    <3>1. /\ pc["load"] = "open" /\ UNCHANGED <<fileVars, version, manifest, sum, got>>
          /\ result["write"] = "ok" /\ name # None /\ got.sha256 = content[name]
          /\ Fits(version)
      BY <1>0, <1>6 DEF LoadOpens, Open, StillWrite, StillLoad
    <3>2. /\ pc'["write"] = pc["write"] /\ handle'["write"] = handle["write"]
          /\ result'["write"] = result["write"]
          /\ \/ /\ pc'["load"] = "done" /\ traits # Trait
                /\ result'["load"] \in {"escape", "size", "permission"}
             \/ pc'["load"] = "hash" /\ traits = Trait /\ handle'["load"] = name
      BY <1>0, <1>6, <3>1 DEF LoadOpens, Open, Return, Go, TypeOK
    <3>3. StillWrite'
      BY <1>0, <3>1, <3>2 DEF StillWrite, ReadOf, Settings
    <3>4. sum["load"] = <<>> /\ Len(<<>>) = 0
      BY <1>0, <3>1 DEF ProcInv
    <3>5. ReadOf("load", name)'
      BY <3>1, <3>4 DEF ReadOf
    <3>6. WrittenLoads'
      BY <3>1, <3>2 DEF WrittenLoads, Fits
    <3>7. StillLoad'
      BY <3>1, <3>2, <3>5, <3>6 DEF StillLoad, Fits
    <3> QED
      BY <3>3, <3>7
  <2> QED
    BY <2>1, <2>2, <2>3, <2>4 DEF IInv
<1>7. CASE LoadCompares
  <2>1. TypeOK'
    BY <1>0, <1>7 DEF LoadCompares, Return, Go, TypeOK
  <2>2. ProcInv'
    BY <1>0, <1>7 DEF LoadCompares, Return, Go, TypeOK, ProcInv
  <2>3. LoadInv'
    BY <1>0, <1>7 DEF LoadCompares, Return, Go, TypeOK, ProcInv, LoadInv, ReadOf, Settings
  <2>4. (still => StillWrite /\ StillLoad)'
    <3> SUFFICES ASSUME still PROVE StillWrite' /\ StillLoad'
      BY <1>7 DEF LoadCompares
    <3>1. sum["load"] = got.sha256
      BY <1>0, <1>7, WholeFile DEF LoadCompares, TypeOK, ProcInv, StillWrite, StillLoad, WrittenLoads
    <3> QED
      BY <1>0, <1>7, <3>1
         DEF LoadCompares, Return, Go, TypeOK, ProcInv, StillWrite, StillLoad, WrittenLoads, ReadOf,
             Settings
  <2> QED
    BY <2>1, <2>2, <2>3, <2>4 DEF IInv
<1>8. CASE LoadSettings
  <2>1. TypeOK'
    BY <1>0, <1>8 DEF LoadSettings, Return, Go, TypeOK
  <2>2. ProcInv'
    BY <1>0, <1>8 DEF LoadSettings, Return, Go, TypeOK, ProcInv
  <2>3. LoadInv'
    BY <1>0, <1>8 DEF LoadSettings, Return, Go, TypeOK, ProcInv, LoadInv, ReadOf, Settings
  <2>4. (still => StillWrite /\ StillLoad)'
    BY <1>0, <1>8
       DEF LoadSettings, Return, Go, TypeOK, ProcInv, StillWrite, StillLoad, WrittenLoads, ReadOf,
           Settings
  <2> QED
    BY <2>1, <2>2, <2>3, <2>4 DEF IInv
<1>9. ASSUME NEW p \in Proc, Hash(p)
      PROVE  IInv'
  <2>1. CASE UNCHANGED sum
    <3>1. TypeOK'
      BY <1>0, <1>9, <2>1 DEF Hash, Return, Go, TypeOK
    <3>2. ProcInv'
      BY <1>0, <1>9, <2>1 DEF Hash, Return, Go, TypeOK, ProcInv
    <3>3. LoadInv'
      BY <1>0, <1>9, <2>1 DEF Hash, Return, Go, TypeOK, ProcInv, LoadInv, ReadOf, Settings
    <3>4. (still => StillWrite /\ StillLoad)'
      <4>1. CASE Return(p, "cancelled")
        BY <1>0, <1>9, <2>1, <4>1
           DEF Hash, Return, TypeOK, ProcInv, StillWrite, StillLoad, WrittenLoads, ReadOf,
               Settings
      <4>2. CASE Go(p, "hashed")
        BY <1>0, <1>9, <2>1, <4>2
           DEF Hash, Go, TypeOK, ProcInv, StillWrite, StillLoad, WrittenLoads, ReadOf,
               Settings
      <4>3. CASE UNCHANGED <<pc, result>>
        BY <1>0, <1>9, <2>1, <4>3
           DEF Hash, TypeOK, ProcInv, StillWrite, StillLoad, WrittenLoads, ReadOf, Settings
      <4> QED
        BY <1>9, <4>1, <4>2, <4>3 DEF Hash
    <3> QED
      BY <3>1, <3>2, <3>3, <3>4 DEF IInv
  <2>2. CASE Len(sum[p]) < Pieces /\ UNCHANGED <<pc, result>>
               /\ sum' = [sum EXCEPT ![p] = Append(sum[p], content[handle[p]][Len(sum[p]) + 1])]
    <3> PICK f : f = handle[p]
      OBVIOUS
    <3> DEFINE n == Len(sum[p])
    <3>1. pc[p] = "hash" /\ f \in File /\ sum[p] \in Seq(Build) /\ n \in 0 .. 1
      <4>1. pc[p] = "hash" /\ handle[p] \in File
        BY <1>0, <1>9 DEF Hash, TypeOK, ProcInv
      <4>2. sum[p] \in Seq(Build) /\ n < 2
        BY <1>0, <2>2 DEF TypeOK
      <4>3. n \in Nat
        BY <4>2, LenProperties
      <4> HIDE DEF n
      <4>4. n \in 0 .. 1
        BY <4>2, <4>3
      <4> QED
        BY <4>1, <4>2, <4>4
    <3>2. content[f][n + 1] \in Build
      <4>1. content[f] \in [1 .. Pieces -> Build] /\ n \in 0 .. 1
        BY <1>0, <3>1 DEF TypeOK
      <4> HIDE DEF n
      <4> QED
        BY <4>1
    <3>3. /\ sum' \in [Proc -> Seq(Build)] /\ Len(sum'[p]) = n + 1
          /\ sum'[p][n + 1] = content[f][n + 1]
          /\ \A k \in 1 .. n : sum'[p][k] = sum[p][k]
          /\ \A q \in Proc : q # p => sum'[q] = sum[q]
      <4> PICK b : b = content[f][n + 1]
        OBVIOUS
      <4>1. b \in Build /\ sum' = [sum EXCEPT ![p] = Append(sum[p], b)] /\ sum \in [Proc -> Seq(Build)]
        BY <1>0, <2>2, <3>2 DEF TypeOK
      <4>2. /\ Append(sum[p], b) \in Seq(Build) /\ Len(Append(sum[p], b)) = n + 1
            /\ Append(sum[p], b)[n + 1] = b
            /\ \A k \in 1 .. n : Append(sum[p], b)[k] = sum[p][k]
        BY <3>1, <4>1, AppendProperties
      <4> QED
        BY <4>1, <4>2
    <3>4. /\ UNCHANGED <<fileVars, version, manifest, ended, handle, got, historyVars, pc, result>>
      BY <1>9, <2>2 DEF Hash
    <3> HIDE DEF n
    <3>5. TypeOK'
      <4>1. \A q \in Proc : Len(sum'[q]) <= Pieces
        BY <1>0, <3>1, <3>3 DEF TypeOK
      <4>2. sum' \in [Proc -> Seq(Build)]
        BY <3>3
      <4> QED
        BY <1>0, <3>4, <4>1, <4>2 DEF TypeOK
    <3>6. ProcInv'
      <4>1. \A q \in Proc : q # p => sum'[q] = sum[q]
        BY <3>3
      <4>2. UNCHANGED <<fileVars, handle, pc, result>> /\ pc[p] = "hash" /\ p \in Proc
        BY <3>1, <3>4
      <4>3. result[p] # "ok"
        BY <1>0, <3>1 DEF ProcInv
      <4> QED
        BY <1>0, <4>1, <4>2, <4>3 DEF ProcInv
    <3>7. ReadOf(p, f) => ReadOf(p, f)'
      <4>1. n \in Nat /\ Len(sum'[p]) = n + 1 /\ content' = content
        BY <3>1, <3>3, <3>4
      <4>2. \A k \in 1 .. Len(sum'[p]) : k \in 1 .. n \/ k = n + 1
        BY <4>1
      <4>3. ReadOf(p, f) => \A k \in 1 .. n : sum[p][k] = content[f][k]
        BY DEF ReadOf, n
      <4> QED
        BY <3>3, <4>1, <4>2, <4>3 DEF ReadOf
    <3>8. \A q \in Proc, g \in File : q # p => (ReadOf(q, g)' <=> ReadOf(q, g))
      BY <3>3, <3>4 DEF ReadOf
    <3>9. LoadInv'
      BY <1>0, <3>1, <3>3, <3>4, <3>7, <3>8 DEF TypeOK, ProcInv, LoadInv, Settings
    <3>10. (still => StillWrite /\ StillLoad)'
      BY <1>0, <3>1, <3>3, <3>4, <3>7, <3>8 DEF TypeOK, ProcInv, StillWrite, StillLoad, WrittenLoads, Settings
    <3> QED
      BY <3>5, <3>6, <3>9, <3>10 DEF IInv
  <2> QED
    BY <1>9, <2>1, <2>2 DEF Hash
<1>10. ASSUME NEW p \in Proc, EndContext(p)
       PROVE  IInv'
  BY <1>0, <1>10
     DEF EndContext, IInv, TypeOK, ProcInv, LoadInv, StillWrite, StillLoad, WrittenLoads, ReadOf,
         Settings
<1>11. ASSUME NEW b \in Build, Replace(b)
       PROVE  IInv'
  <2>1. /\ rebuilds < MaxRebuild /\ rebuilds' = rebuilds + 1 /\ name' = rebuilds + 1 /\ still' = FALSE
        /\ content' = [content EXCEPT ![rebuilds + 1] = [k \in 1 .. Pieces |-> b]]
        /\ UNCHANGED <<traits, version, manifest, procVars, torn>>
    BY <1>11 DEF Replace, Touch
  <2>2. rebuilds \in Nat /\ rebuilds + 1 \in File
    BY <1>0, <2>1 DEF TypeOK
  <2> PICK whole : whole = [k \in 1 .. Pieces |-> b]
    OBVIOUS
  <2>7. whole \in [1 .. Pieces -> Build] /\ content' = [content EXCEPT ![rebuilds + 1] = whole]
    BY <2>1
  <2>8. content' \in [File -> [1 .. Pieces -> Build]]
    BY <1>0, <2>7 DEF TypeOK
  <2>9. rebuilds' \in 0 .. MaxRebuild
    BY <2>1, <2>2
  <2>3. TypeOK'
    BY <1>0, <2>1, <2>2, <2>8, <2>9 DEF TypeOK
  <2>4. ProcInv'
    BY <1>0, <2>1, <2>2 DEF TypeOK, ProcInv
  <2>5. \A f \in File : f <= rebuilds => content'[f] = content[f]
    BY <1>0, <2>1, <2>2 DEF TypeOK
  <2>6. LoadInv'
    BY <1>0, <2>1, <2>5 DEF TypeOK, ProcInv, LoadInv, ReadOf, Settings
  <2> QED
    BY <2>1, <2>3, <2>4, <2>6 DEF IInv
<1>12. ASSUME NEW b \in Build, Rewrite(b)
       PROVE  IInv'
  <2>1. /\ rebuilds < MaxRebuild /\ rebuilds' = rebuilds + 1 /\ name' = name /\ name # None /\ still' = FALSE
        /\ \E k \in 1 .. Pieces : content' = [content EXCEPT ![name][k] = b]
        /\ torn' = (torn \/ handle["load"] = name)
        /\ UNCHANGED <<traits, version, manifest, procVars>>
    BY <1>12 DEF Rewrite, Touch
  <2>6. content' \in [File -> [1 .. Pieces -> Build]]
    <3>1. PICK k \in 1 .. Pieces : content' = [content EXCEPT ![name][k] = b]
      BY <2>1
    <3>2. content \in [File -> [1 .. Pieces -> Build]] /\ name \in File
      BY <1>0, <2>1 DEF TypeOK
    <3> PICK one : one = [content[name] EXCEPT ![k] = b]
      OBVIOUS
    <3>3. one \in [1 .. Pieces -> Build]
      BY <3>2
    <3>4. content' = [content EXCEPT ![name] = one]
      BY <3>1
    <3> QED
      BY <3>2, <3>3, <3>4
  <2>7. rebuilds' \in 0 .. MaxRebuild
    BY <1>0, <2>1 DEF TypeOK
  <2>2. TypeOK'
    BY <1>0, <2>1, <2>6, <2>7 DEF TypeOK
  <2>3. ProcInv'
    BY <1>0, <2>1 DEF TypeOK, ProcInv
  <2>4. \A f \in File : f # name => content'[f] = content[f]
    BY <1>0, <2>1 DEF TypeOK
  <2>5. LoadInv'
    BY <1>0, <2>1, <2>4 DEF TypeOK, ProcInv, LoadInv, ReadOf, Settings
  <2> QED
    BY <2>1, <2>2, <2>3, <2>5 DEF IInv
<1>13. CASE Unlink
  <2>1. /\ rebuilds < MaxRebuild /\ rebuilds' = rebuilds + 1 /\ name' = None /\ still' = FALSE
        /\ UNCHANGED <<content, traits, version, manifest, procVars, torn>>
    BY <1>13 DEF Unlink, Touch
  <2>2. rebuilds' \in 0 .. MaxRebuild
    BY <1>0, <2>1 DEF TypeOK
  <2>3. TypeOK'
    BY <1>0, <2>1, <2>2 DEF TypeOK
  <2>4. ProcInv' /\ LoadInv'
    BY <1>0, <2>1 DEF TypeOK, ProcInv, LoadInv, ReadOf, Settings
  <2> QED
    BY <2>1, <2>3, <2>4 DEF IInv
<1>14. CASE UNCHANGED vars
  BY <1>0, <1>14 DEF IInv, TypeOK, ProcInv, LoadInv, StillWrite, StillLoad, WrittenLoads, ReadOf, Settings
<1> QED
  BY <1>1, <1>2, <1>3, <1>4, <1>5, <1>6, <1>7, <1>8, <1>9, <1>10, <1>11, <1>12, <1>13, <1>14
     DEF Next

----------------------------------------------------------------------------
(* The invariant, and what follows from it.                                *)

\* The inductive invariant of a package that is written and loaded while its
\* executable changes.
THEOREM Invariant == Spec => []IInv
BY InitIInv, StepIInv, PTL DEF Spec

\* The manifest and what either process has read keep their types.
THEOREM TypeCorrect == Spec => []TypeOK
<1>1. IInv => TypeOK
  BY DEF IInv
<1> QED
  BY <1>1, Invariant, PTL

\* A package that was loaded is one executable, whole, with the digest of its
\* manifest and the settings of the host.
THEOREM OneBuild == Spec => []LoadedIsOneBuild
<1>1. IInv => LoadedIsOneBuild
  <2> SUFFICES ASSUME IInv, result["load"] = "ok", ~torn
               PROVE  got.sha256 = content[handle["load"]] /\ Settings(handle["load"])
    BY DEF LoadedIsOneBuild
  <2>1. /\ TypeOK /\ handle["load"] \in File /\ Len(sum["load"]) = Pieces
        /\ ReadOf("load", handle["load"]) /\ sum["load"] = got.sha256
        /\ Settings(handle["load"])
    BY DEF IInv, TypeOK, ProcInv, LoadInv
  <2> QED
    BY <2>1, WholeFile
<1> QED
  BY <1>1, Invariant, PTL

\* What was written of an untouched executable is loaded just when it has what
\* LoadPackage alone asks for: a manifest within the limit, and an executable
\* in the directory, of an accepted size, with a permission bit.
THEOREM WrittenIsLoaded == Spec => []WrittenLoads
<1>1. IInv => WrittenLoads
  BY DEF IInv, StillLoad, WrittenLoads
<1> QED
  BY <1>1, Invariant, PTL

----------------------------------------------------------------------------
(* Versions.                                                               *)

\* WritePackage goes by Parse, and LoadPackage goes on with what it accepts.
VersionInv ==
  /\ result["write"] = "version" => ~Parses(version)
  /\ pc["write"] = "fill" => Parses(version)
  /\ pc["load"] \notin {"start", "done"} \/ result["load"] = "ok" =>
       got # None /\ Parses(got.version)

\* Every step keeps it.
LEMMA StepVersion == IInv /\ VersionInv /\ [Next]_vars => VersionInv'
<1> SUFFICES ASSUME IInv, VersionInv, [Next]_vars PROVE VersionInv'
  OBVIOUS
<1>0. TypeOK /\ ProcInv
  BY DEF IInv
<1> USE <1>0 DEF VersionInv, Return, Go, TypeOK, ProcInv
<1>1. CASE WriteSettings
  BY <1>1 DEF WriteSettings
<1>2. CASE WriteOpens
  BY <1>2 DEF WriteOpens, Open
<1>3. CASE WriteCreates
  BY <1>3 DEF WriteCreates, Validated
<1>4. CASE WriteFills
  BY <1>4 DEF WriteFills
<1>5. CASE LoadManifest
  BY <1>5 DEF LoadManifest
<1>6. CASE LoadOpens
  BY <1>6 DEF LoadOpens, Open
<1>7. CASE LoadCompares
  BY <1>7 DEF LoadCompares
<1>8. CASE LoadSettings
  BY <1>8 DEF LoadSettings
<1>9. ASSUME NEW p \in Proc, Hash(p) PROVE VersionInv'
  BY <1>9 DEF Hash
<1>10. ASSUME NEW p \in Proc, EndContext(p) PROVE VersionInv'
  BY <1>10 DEF EndContext
<1>11. ASSUME NEW b \in Build, Replace(b) \/ Rewrite(b) PROVE VersionInv'
  BY <1>11 DEF Replace, Rewrite, Touch
<1>12. CASE Unlink
  BY <1>12 DEF Unlink, Touch
<1>13. CASE UNCHANGED vars
  BY <1>13
<1> QED
  BY <1>1, <1>2, <1>3, <1>4, <1>5, <1>6, <1>7, <1>8, <1>9, <1>10, <1>11, <1>12, <1>13 DEF Next

\* It is an invariant.
THEOREM VersionInvariant == Spec => []VersionInv
<1>1. Init => VersionInv
  BY DEF Init, VersionInv
<1> QED
  BY <1>1, Invariant, StepVersion, PTL DEF Spec

\* WritePackage refuses a version just when it is none to semver.org.
THEOREM ParsesGrammar == Spec => []ParseIsGrammar
<1>1. TypeOK /\ VersionInv => ParseIsGrammar
  <2> SUFFICES ASSUME TypeOK, VersionInv PROVE ParseIsGrammar
    OBVIOUS
  <2>1. version \in Text
    BY VersionAssumption DEF TypeOK, Text
  <2>2. Parses(version) <=> InGrammar(version)
    BY <2>1, ParsesIsInGrammar
  <2> QED
    BY <2>2 DEF VersionInv, ParseIsGrammar
<1> QED
  BY <1>1, TypeCorrect, VersionInvariant, PTL

\* A loaded version takes its place among all others by the precedence of
\* semver.org.
THEOREM ComparesByPrecedence == Spec => []CompareIsPrecedence
<1>1. IInv /\ VersionInv => CompareIsPrecedence
  <2> SUFFICES ASSUME IInv, VersionInv, result["load"] = "ok", NEW t \in Others, Parses(t)
               PROVE  /\ Compare(Version(got.version), Version(t)) =
                           Sign(Precedes(Version(got.version), Version(t)),
                                Precedes(Version(t), Version(got.version)))
                      /\ ~Precedes(Version(got.version), Version(t)) /\
                         ~Precedes(Version(t), Version(got.version)) =>
                           Version(got.version) = Version(t)
    BY DEF CompareIsPrecedence
  <2>1. got \in Manifest
    BY DEF IInv, TypeOK, VersionInv
  <2>2. got.version \in Text /\ t \in Text /\ Parses(got.version)
    BY <2>1, VersionAssumption DEF Manifest, Text, VersionInv
  <2>3. Decides(Compare(Version(got.version), Version(t)),
                Precedes(Version(got.version), Version(t)),
                Precedes(Version(t), Version(got.version)),
                Version(got.version) = Version(t))
    BY <2>2, CompareIsPrecedes
  <2> QED
    BY <2>3 DEF Decides
<1> QED
  BY <1>1, Invariant, VersionInvariant, PTL

=============================================================================
