--------------------------- MODULE SequenceFacts ----------------------------
(***************************************************************************)
(* Facts about sequences without duplicates, and about sequences of which  *)
(* elements are left out.  The proofs about the dispatcher, the client     *)
(* cache, the buffers, the RPC connection and the selectors share them.    *)
(***************************************************************************)
EXTENDS Integers, Sequences, SequencesExt, Places, FiniteSetTheorems, SequenceTheorems, TLAPS

Distinct(s) == \A i, j \in 1 .. Len(s) : s[i] = s[j] => i = j

LEMMA HowManyPlaces ==
  ASSUME NEW n \in Nat
  PROVE  IsFiniteSet(1 .. n) /\ Cardinality(1 .. n) = n
<1>1. IsFiniteSet(1 .. n) /\ Cardinality(1 .. n) = IF 1 > n THEN 0 ELSE n - 1 + 1
  BY FS_Interval
<1>2. QED
  BY <1>1

(***************************************************************************)
(* The elements of a sequence are finitely many, and there are as many of  *)
(* them as the sequence is long if and only if no two are the same.        *)
(***************************************************************************)
LEMMA DistinctIsCounted ==
  ASSUME NEW S, NEW s \in Seq(S)
  PROVE  /\ IsFiniteSet(ToSet(s))
         /\ Len(s) = Cardinality(ToSet(s)) <=> Distinct(s)
<1>1. s \in [1 .. Len(s) -> ToSet(s)] /\ Len(s) \in Nat
  BY DEF ToSet
<1>2. s \in Surjection(1 .. Len(s), ToSet(s))
  BY <1>1 DEF Surjection, ToSet
<1>3. IsFiniteSet(1 .. Len(s)) /\ Cardinality(1 .. Len(s)) = Len(s)
  BY <1>1, HowManyPlaces
<1>4. Distinct(s) <=> s \in Injection(1 .. Len(s), ToSet(s))
  BY <1>1 DEF Distinct, Injection, IsInjective
<1>5. QED
  BY <1>2, <1>3, <1>4, FS_Surjection

(***************************************************************************)
(* An element is put in front, and the last one may have to go.            *)
(***************************************************************************)
LEMMA PutInFront ==
  ASSUME NEW S, NEW s \in Seq(S), Distinct(s), NEW e \in S, e \notin ToSet(s)
  PROVE  /\ <<e>> \o s \in Seq(S)
         /\ Distinct(<<e>> \o s)
         /\ ToSet(<<e>> \o s) = ToSet(s) \cup {e}
<1> DEFINE r == <<e>> \o s
<1>1. /\ r \in Seq(S) /\ Len(r) = Len(s) + 1
      /\ r[1] = e
      /\ \A i \in 1 .. Len(s) : r[i + 1] = s[i]
  OBVIOUS
<1>2. \A i \in 1 .. Len(r) : i = 1 \/ (i - 1 \in 1 .. Len(s) /\ r[i] = s[i - 1])
  BY <1>1
<1> HIDE DEF r
<1>3. Distinct(r)
  <2>1. \A i \in 1 .. Len(s) : s[i] # e
    BY DEF ToSet
  <2>2. ASSUME NEW i \in 1 .. Len(r), NEW j \in 1 .. Len(r), r[i] = r[j] PROVE i = j
    <3>1. r[i] = e <=> i = 1
      BY <1>1, <1>2, <2>1
    <3>2. r[j] = e <=> j = 1
      BY <1>1, <1>2, <2>1
    <3>3. CASE i # 1 /\ j # 1
      <4>1. /\ i - 1 \in 1 .. Len(s) /\ j - 1 \in 1 .. Len(s)
            /\ s[i - 1] = s[j - 1]
        BY <3>3, <1>2, <2>2
      <4>2. i - 1 = j - 1
        BY <4>1 DEF Distinct
      <4>3. QED
        BY <4>2
    <3>4. QED
      BY <2>2, <3>1, <3>2, <3>3
  <2>3. QED
    BY <2>2 DEF Distinct
<1>4. ToSet(r) = ToSet(s) \cup {e}
  <2>1. \A x \in ToSet(r) : x \in ToSet(s) \cup {e}
    BY <1>1, <1>2 DEF ToSet
  <2>2. ASSUME NEW x \in ToSet(s) PROVE x \in ToSet(r)
    <3>1. PICK i \in 1 .. Len(s) : s[i] = x
      BY DEF ToSet
    <3>2. i + 1 \in 1 .. Len(r) /\ r[i + 1] = x
      BY <1>1, <3>1
    <3>3. QED
      BY <3>2 DEF ToSet
  <2>3. e \in ToSet(r)
    BY <1>1 DEF ToSet
  <2>4. QED
    BY <2>1, <2>2, <2>3
<1>5. QED
  BY <1>1, <1>3, <1>4 DEF r

(***************************************************************************)
(* The first elements of a sequence.                                       *)
(***************************************************************************)
LEMMA PrefixOf ==
  ASSUME NEW S, NEW s \in Seq(S), NEW n \in 0 .. Len(s)
  PROVE  /\ SubSeq(s, 1, n) \in Seq(S) /\ Len(SubSeq(s, 1, n)) = n
         /\ \A i \in 1 .. n : SubSeq(s, 1, n)[i] = s[i]
<1>1. n \in Nat /\ Len(s) \in Nat /\ \A i \in 1 .. n : s[i] \in S
  OBVIOUS
<1>2. /\ SubSeq(s, 1, n) \in Seq(S)
      /\ Len(SubSeq(s, 1, n)) = IF 1 <= n THEN n - 1 + 1 ELSE 0
      /\ \A i \in 1 .. n - 1 + 1 : SubSeq(s, 1, n)[i] = s[1 + i - 1]
  BY <1>1, SubSeqProperties
<1>3. n - 1 + 1 = n /\ (1 <= n \/ n = 0) /\ \A i \in 1 .. n : 1 + i - 1 = i
  BY <1>1
<1>4. QED
  BY <1>2, <1>3

LEMMA TakeOffTheEnd ==
  ASSUME NEW S, NEW s \in Seq(S), Distinct(s), s # <<>>
  PROVE  /\ Front(s) \in Seq(S) /\ Distinct(Front(s))
         /\ Last(s) \in ToSet(s)
         /\ ToSet(Front(s)) = ToSet(s) \ {Last(s)}
<1>1. Len(s) \in Nat \ {0}
  OBVIOUS
<1>2. /\ Front(s) \in Seq(S) /\ Len(Front(s)) = Len(s) - 1
      /\ \A i \in 1 .. Len(s) - 1 : Front(s)[i] = s[i]
  <2>1. Len(s) - 1 \in 0 .. Len(s)
    BY <1>1
  <2>2. QED
    BY <2>1, PrefixOf DEF Front
<1>3. QED
  BY <1>1, <1>2 DEF Distinct, ToSet, Last

(***************************************************************************)
(* An element is taken out.                                                *)
(***************************************************************************)
LEMMA RemovedAt ==
  ASSUME NEW S, NEW s \in Seq(S), NEW n \in 1 .. Len(s)
  PROVE  /\ RemoveAt(s, n) \in Seq(S) /\ Len(RemoveAt(s, n)) = Len(s) - 1
         /\ \A i \in 1 .. Len(s) - 1 : RemoveAt(s, n)[i] = IF i < n THEN s[i] ELSE s[i + 1]
<1> DEFINE r == RemoveAt(s, n)
<1>0. Len(s) \in Nat /\ n \in Int /\ 1 <= n /\ n <= Len(s)
  OBVIOUS
<1>1. /\ r \in Seq(S) /\ Len(r) = Len(s) - 1
      /\ \A i \in 1 .. Len(s) - 1 : r[i] = IF i < n THEN s[i] ELSE s[i + 1]
  <2> DEFINE a == SubSeq(s, 1, n - 1)
             b == SubSeq(s, n + 1, Len(s))
  <2>1. \A i \in 1 .. Len(s) : s[i] \in S
    OBVIOUS
  <2>2. /\ a \in Seq(S) /\ Len(a) = n - 1
        /\ \A i \in 1 .. n - 1 : a[i] = s[i]
    BY <2>1, SubSeqProperties
  <2>3. /\ b \in Seq(S) /\ Len(b) = Len(s) - n
        /\ \A i \in 1 .. Len(s) - n : b[i] = s[n + i]
    BY <2>1, SubSeqProperties
  <2>4. r = a \o b
    BY DEF RemoveAt
  <2> HIDE DEF a, b, r
  <2>5. /\ r \in Seq(S) /\ Len(r) = Len(a) + Len(b)
        /\ \A i \in 1 .. Len(a) + Len(b) : r[i] = IF i <= Len(a) THEN a[i] ELSE b[i - Len(a)]
    BY <2>2, <2>3, <2>4, ConcatProperties
  <2>6. ASSUME NEW i \in 1 .. Len(s) - 1
        PROVE  r[i] = IF i < n THEN s[i] ELSE s[i + 1]
    <3>0. i \in Int /\ 1 <= i /\ i <= Len(s) - 1 /\ Len(a) + Len(b) = Len(s) - 1
      BY <1>0, <2>2, <2>3
    <3>1. CASE i < n
      BY <1>0, <3>0, <3>1, <2>2, <2>5
    <3>2. CASE ~(i < n)
      <4>1. r[i] = b[i - (n - 1)]
        BY <1>0, <3>0, <3>2, <2>2, <2>5
      <4>2. i - (n - 1) \in 1 .. Len(s) - n /\ n + (i - (n - 1)) = i + 1
        BY <1>0, <3>0, <3>2
      <4>3. QED
        BY <3>2, <4>1, <4>2, <2>3
    <3>3. QED
      BY <3>1, <3>2
  <2>7. QED
    BY <2>2, <2>3, <2>5, <2>6
<1>2. QED
  BY <1>1

LEMMA TakeOut ==
  ASSUME NEW S, NEW s \in Seq(S), Distinct(s), NEW n \in 1 .. Len(s)
  PROVE  /\ RemoveAt(s, n) \in Seq(S) /\ Distinct(RemoveAt(s, n))
         /\ ToSet(RemoveAt(s, n)) = ToSet(s) \ {s[n]}
<1> DEFINE r == RemoveAt(s, n)
<1>0. Len(s) \in Nat /\ n \in Int /\ 1 <= n /\ n <= Len(s)
  OBVIOUS
<1>1. /\ r \in Seq(S) /\ Len(r) = Len(s) - 1
      /\ \A i \in 1 .. Len(s) - 1 : r[i] = IF i < n THEN s[i] ELSE s[i + 1]
  BY RemovedAt
<1> HIDE DEF r
<1>2. Distinct(r)
  BY <1>1 DEF Distinct
<1>3. ToSet(r) = ToSet(s) \ {s[n]}
  <2>1. \A x \in ToSet(r) : x \in ToSet(s) /\ x # s[n]
    BY <1>1 DEF ToSet, Distinct
  <2>2. ASSUME NEW x \in ToSet(s), x # s[n] PROVE x \in ToSet(r)
    <3>1. PICK i \in 1 .. Len(s) : s[i] = x
      BY DEF ToSet
    <3>2. CASE i < n
      BY <3>1, <3>2, <1>1 DEF ToSet
    <3>3. CASE i > n
      <4>1. i - 1 \in 1 .. Len(r) /\ r[i - 1] = s[i]
        BY <3>3, <1>1
      <4>2. QED
        BY <4>1, <3>1, <1>1 DEF ToSet
    <3>4. QED
      BY <3>1, <3>2, <3>3, <2>2
  <2>3. QED
    BY <2>1, <2>2
<1>4. QED
  BY <1>1, <1>2, <1>3 DEF r

-----------------------------------------------------------------------------
(***************************************************************************)
(* r is what is left of s when the elements at places other than those in  *)
(* I are left out.                                                         *)
(***************************************************************************)
Leaves(r, s, I) ==
  \E f \in [1 .. Len(r) -> I] :
    /\ \A i, j \in 1 .. Len(r) : i < j => f[i] < f[j]
    /\ \A n \in I : \E i \in 1 .. Len(r) : f[i] = n
    /\ \A i \in 1 .. Len(r) : r[i] = s[f[i]]

\* Elements keep their order, none is doubled, and those at I are all there.
LEMMA WhatIsLeft ==
  ASSUME NEW S, NEW s \in Seq(S), NEW I \in SUBSET (1 .. Len(s)),
         NEW T, NEW r \in Seq(T), Leaves(r, s, I)
  PROVE  /\ r \in Seq(S) /\ Len(r) <= Len(s)
         /\ ToSet(r) = {s[n] : n \in I}
         /\ Distinct(s) => Distinct(r)
<1>1. PICK f \in [1 .. Len(r) -> I] :
        /\ \A i, j \in 1 .. Len(r) : i < j => f[i] < f[j]
        /\ \A n \in I : \E i \in 1 .. Len(r) : f[i] = n
        /\ \A i \in 1 .. Len(r) : r[i] = s[f[i]]
  BY DEF Leaves
<1>0. Len(r) \in Nat /\ Len(s) \in Nat /\ \A i \in 1 .. Len(r) : f[i] \in I /\ f[i] \in 1 .. Len(s)
  <2>1. Len(r) \in Nat /\ Len(s) \in Nat
    OBVIOUS
  <2>2. f \in [1 .. Len(r) -> I]
    OBVIOUS
  <2>3. QED
    BY <2>1, <2>2
<1>2. \A i, j \in 1 .. Len(r) : f[i] = f[j] => i = j
  BY <1>0, <1>1
<1>3. r \in Seq(S)
  <2>1. \A i \in 1 .. Len(r) : r[i] \in S
    BY <1>0, <1>1
  <2>2. QED
    BY <2>1
<1>4. Len(r) <= Len(s)
  <2>1. f \in Injection(1 .. Len(r), 1 .. Len(s))
    BY <1>0, <1>2 DEF Injection, IsInjective
  <2>2. /\ IsFiniteSet(1 .. Len(s))
        /\ Cardinality(1 .. Len(s)) = Len(s) /\ Cardinality(1 .. Len(r)) = Len(r)
    BY <1>0, HowManyPlaces
  <2>3. QED
    BY <2>1, <2>2, FS_Injection
<1>5. ToSet(r) = {s[n] : n \in I}
  <2>1. ToSet(r) = {r[i] : i \in 1 .. Len(r)}
    BY DEF ToSet
  <2>2. \A i \in 1 .. Len(r) : r[i] \in {s[n] : n \in I}
    BY <1>0, <1>1
  <2>3. \A n \in I : s[n] \in {r[i] : i \in 1 .. Len(r)}
    BY <1>0, <1>1
  <2>4. QED
    BY <2>1, <2>2, <2>3
<1>6. Distinct(s) => Distinct(r)
  BY <1>0, <1>1, <1>2 DEF Distinct
<1>7. QED
  BY <1>3, <1>4, <1>5, <1>6

-----------------------------------------------------------------------------
(***************************************************************************)
(* The least of a set of natural numbers, and induction for a set.         *)
(***************************************************************************)
LEMMA LeastOf ==
  ASSUME NEW T \in SUBSET Nat, T # {}
  PROVE  \E n \in T : \A m \in T : n <= m
<1> DEFINE R == OpToRel(<, Nat)
<1>1. PICK n \in T : \A m \in T : ~(<<m, n>> \in R)
  <2>1. IsWellFoundedOn(R, Nat)
    BY NatLessThanWellFounded
  <2> HIDE DEF R
  <2>2. QED
    BY <2>1, WFMin
<1>2. ASSUME NEW m \in T PROVE n <= m
  <2>1. m < n => <<m, n>> \in R
    BY DEF OpToRel
  <2> HIDE DEF R
  <2>2. m \in Nat /\ n \in Nat
    OBVIOUS
  <2>3. QED
    BY <1>1, <2>1, <2>2
<1>3. QED
  BY <1>2

LEMMA SetInduction ==
  ASSUME NEW D, 0 \in D, \A n \in Nat : n \in D => n + 1 \in D
  PROVE  Nat \subseteq D
<1>1. SUFFICES ASSUME Nat \ D # {} PROVE FALSE
  OBVIOUS
<1>2. PICK m \in Nat \ D : \A k \in Nat \ D : m <= k
  BY <1>1, LeastOf
<1>3. m # 0 /\ m - 1 \in Nat /\ ~(m <= m - 1) /\ m - 1 + 1 = m
  OBVIOUS
<1>4. m - 1 \in D
  BY <1>2, <1>3
<1>5. QED
  BY <1>3, <1>4

(***************************************************************************)
(* A function whose values each follow from the one before: there is one,  *)
(* so a function that is defined by such a recursion is that.              *)
(***************************************************************************)
Recursively(f, n, base, F) == f[0] = base /\ \A k \in 1 .. n : f[k] = F[k][f[k - 1]]

LEMMA FunctionByRecursion ==
  ASSUME NEW V, NEW base \in V, NEW n \in Nat, NEW F \in [1 .. n -> [V -> V]]
  PROVE  \E f \in [0 .. n -> V] : Recursively(f, n, base, F)
<1> DEFINE Fits(m, f) == f[0] = base /\ \A k \in 1 .. m : f[k] = F[k][f[k - 1]]
           D == {m \in Nat : m <= n => \E f \in [0 .. m -> V] : Fits(m, f)}
<1>1. 0 \in D
  <2>1. [k \in 0 .. 0 |-> base] \in [0 .. 0 -> V] /\ Fits(0, [k \in 0 .. 0 |-> base])
    OBVIOUS
  <2> HIDE DEF Fits
  <2>2. QED
    BY <2>1
<1>2. ASSUME NEW m \in Nat, m \in D PROVE m + 1 \in D
  <2>1. SUFFICES ASSUME m + 1 <= n PROVE \E f \in [0 .. m + 1 -> V] : Fits(m + 1, f)
    OBVIOUS
  <2>2. PICK g \in [0 .. m -> V] : Fits(m, g)
    BY <1>2, <2>1
  <2> DEFINE h == [k \in 0 .. m + 1 |-> IF k = m + 1 THEN F[m + 1][g[m]] ELSE g[k]]
  <2>3. g[m] \in V /\ m + 1 \in 1 .. n
    BY <2>1
  <2>4. F[m + 1] \in [V -> V]
    BY <2>3
  <2>5. F[m + 1][g[m]] \in V
    BY <2>3, <2>4
  <2>6. h \in [0 .. m + 1 -> V]
    <3>1. ASSUME NEW k \in 0 .. m + 1 PROVE h[k] \in V
      <4>1. k = m + 1 \/ k \in 0 .. m
        OBVIOUS
      <4>2. QED
        BY <2>5, <4>1
    <3>2. QED
      BY <3>1
  <2>7. h[0] = base
    BY <2>2
  <2>8. ASSUME NEW k \in 1 .. m + 1 PROVE h[k] = F[k][h[k - 1]]
    <3>1. k - 1 \in 0 .. m + 1 /\ k - 1 # m + 1 /\ k \in 0 .. m + 1
      OBVIOUS
    <3>2. h[k - 1] = g[k - 1]
      BY <3>1
    <3>3. CASE k = m + 1
      <4>1. k - 1 = m /\ h[k] = F[m + 1][g[m]]
        BY <3>1, <3>3
      <4> HIDE DEF h
      <4>2. QED
        BY <3>2, <3>3, <4>1
    <3>4. CASE k # m + 1
      <4>1. k \in 1 .. m /\ h[k] = g[k]
        BY <3>1, <3>4
      <4>2. g[k] = F[k][g[k - 1]]
        BY <2>2, <4>1
      <4> HIDE DEF h
      <4>3. QED
        BY <3>2, <4>1, <4>2
    <3>5. QED
      BY <3>3, <3>4
  <2> HIDE DEF h
  <2>9. Fits(m + 1, h)
    BY <2>7, <2>8
  <2> HIDE DEF Fits
  <2>10. QED
    BY <2>6, <2>9
<1> HIDE DEF D
<1>3. n \in D
  BY <1>1, <1>2, SetInduction
<1>4. QED
  BY <1>3 DEF D, Recursively

(***************************************************************************)
(* AtPlaces is defined by recursion along the list.                        *)
(***************************************************************************)
LEMMA AmongIsRecursive ==
  ASSUME NEW S, NEW s \in Seq(S), NEW I
  PROVE  Among(s, I) = [n \in 0 .. Len(s) |->
                          IF n = 0 THEN <<>>
                          ELSE IF n \in I THEN Append(Among(s, I)[n - 1], s[n])
                          ELSE Among(s, I)[n - 1]]
<1> DEFINE Step(g, n) == IF n = 0 THEN <<>>
                         ELSE IF n \in I THEN Append(g[n - 1], s[n])
                         ELSE g[n - 1]
           Defined(m, g) == g = [n \in 0 .. m |-> Step(g, n)]
           D == {m \in Nat : \E g : Defined(m, g)}
<1>1. 0 \in D
  <2>1. Defined(0, [n \in 0 .. 0 |-> <<>>])
    OBVIOUS
  <2> HIDE DEF Defined
  <2>2. QED
    BY <2>1
<1>2. ASSUME NEW m \in Nat, m \in D PROVE m + 1 \in D
  <2>1. PICK g : Defined(m, g)
    BY <1>2
  <2> DEFINE h == [n \in 0 .. m + 1 |-> IF n = m + 1 THEN Step(g, n) ELSE g[n]]
  <2>2. ASSUME NEW n \in 0 .. m + 1 PROVE h[n] = Step(h, n)
    <3>1. CASE n = 0
      BY <2>1, <3>1
    <3>2. CASE n # 0
      <4>1. n - 1 \in 0 .. m + 1 /\ n - 1 # m + 1 /\ n - 1 \in 0 .. m
        BY <3>2
      <4>2. h[n - 1] = g[n - 1]
        BY <4>1
      <4>3. Step(h, n) = Step(g, n)
        BY <4>2
      <4>4. h[n] = Step(g, n)
        <5> HIDE DEF Step
        <5>1. n = m + 1 \/ n \in 0 .. m
          OBVIOUS
        <5>2. n \in 0 .. m => g[n] = Step(g, n)
          BY <2>1
        <5>3. QED
          BY <5>1, <5>2
      <4>5. QED
        BY <4>3, <4>4
    <3>3. QED
      BY <3>1, <3>2
  <2>3. h = [n \in 0 .. m + 1 |-> h[n]]
    OBVIOUS
  <2> HIDE DEF h, Step
  <2>4. Defined(m + 1, h)
    BY <2>2, <2>3
  <2>5. m + 1 \in Nat
    OBVIOUS
  <2> HIDE DEF Defined
  <2>6. QED
    BY <2>4, <2>5
<1>3. Len(s) \in D
  <2>1. Len(s) \in Nat
    OBVIOUS
  <2> HIDE DEF D
  <2>2. QED
    BY <1>1, <1>2, <2>1, SetInduction
<1>4. Among(s, I) = CHOOSE g : Defined(Len(s), g)
  BY DEF Among
<1>5. Defined(Len(s), Among(s, I))
  <2> HIDE DEF Defined
  <2> QED BY <1>3, <1>4
<1>6. QED
  BY <1>5

LEMMA AtPlacesLeaves ==
  ASSUME NEW S, NEW s \in Seq(S), NEW I \in SUBSET (1 .. Len(s))
  PROVE  AtPlaces(s, I) \in Seq(S) /\ Leaves(AtPlaces(s, I), s, I)
<1> DEFINE a == Among(s, I)
           P(n) == a[n] \in Seq(S) /\ Leaves(a[n], s, I \cap (1 .. n))
           D == {n \in Nat : n <= Len(s) => P(n)}
<1>0. Len(s) \in Nat
  OBVIOUS
<1>1. \A n \in 0 .. Len(s) : a[n] = IF n = 0 THEN <<>>
                                    ELSE IF n \in I THEN Append(a[n - 1], s[n])
                                    ELSE a[n - 1]
  <2> DEFINE e(n) == IF n = 0 THEN <<>> ELSE IF n \in I THEN Append(a[n - 1], s[n]) ELSE a[n - 1]
  <2>1. a = [n \in 0 .. Len(s) |-> e(n)]
    BY AmongIsRecursive
  <2> HIDE DEF a, e
  <2>2. \A n \in 0 .. Len(s) : a[n] = e(n)
    BY <2>1
  <2>3. QED
    BY <2>2 DEF e
<1> HIDE DEF a
<1>2. 0 \in D
  <2>1. a[0] = <<>> /\ I \cap (1 .. 0) = {}
    BY <1>0, <1>1
  <2>2. <<>> \in Seq(S) /\ Leaves(<<>>, s, {})
    <3>1. <<>> \in [1 .. Len(<<>>) -> {}]
      OBVIOUS
    <3>2. <<>> \in Seq(S) /\ Len(<<>>) = 0 /\ 1 .. 0 = {}
      OBVIOUS
    <3>3. QED
      BY <3>1, <3>2 DEF Leaves
  <2>3. QED
    BY <2>1, <2>2
<1>3. ASSUME NEW n \in Nat, n \in D PROVE n + 1 \in D
  <2>1. SUFFICES ASSUME n + 1 <= Len(s) PROVE P(n + 1)
    <3> HIDE DEF P
    <3> QED BY <1>3
  <2>2. a[n] \in Seq(S) /\ Leaves(a[n], s, I \cap (1 .. n)) /\ n + 1 \in 1 .. Len(s)
    BY <1>0, <1>3, <2>1
  <2>3. a[n + 1] = IF n + 1 \in I THEN Append(a[n], s[n + 1]) ELSE a[n]
    <3>1. n + 1 - 1 = n /\ n + 1 # 0 /\ n + 1 \in 0 .. Len(s)
      BY <2>2
    <3>2. QED
      BY <1>1, <3>1
  <2>4. CASE n + 1 \notin I
    <3>1. I \cap (1 .. n + 1) = I \cap (1 .. n)
      BY <2>4
    <3>2. QED
      BY <2>2, <2>3, <2>4, <3>1
  <2>5. CASE n + 1 \in I
    <3> DEFINE q == a[n]
               r == Append(a[n], s[n + 1])
               J == I \cap (1 .. n)
               K == I \cap (1 .. n + 1)
    <3>1. s[n + 1] \in S
      BY <2>2
    <3>2. /\ r \in Seq(S) /\ Len(r) = Len(q) + 1 /\ Len(q) \in Nat
          /\ r[Len(q) + 1] = s[n + 1] /\ \A i \in 1 .. Len(q) : r[i] = q[i]
      BY <2>2, <3>1
    <3>3. K = J \cup {n + 1} /\ \A j \in J : j \in Nat /\ j < n + 1
      BY <2>5
    <3>4. PICK f \in [1 .. Len(q) -> J] :
            /\ \A i, j \in 1 .. Len(q) : i < j => f[i] < f[j]
            /\ \A m \in J : \E i \in 1 .. Len(q) : f[i] = m
            /\ \A i \in 1 .. Len(q) : q[i] = s[f[i]]
      BY <2>2 DEF Leaves
    <3> HIDE DEF q, r, J, K
    <3> DEFINE g == [i \in 1 .. Len(q) + 1 |-> IF i = Len(q) + 1 THEN n + 1 ELSE f[i]]
    <3>5. \A i \in 1 .. Len(q) + 1 : i \in 1 .. Len(q) \/ i = Len(q) + 1
      BY <3>2
    <3>6. /\ g[Len(q) + 1] = n + 1
          /\ \A i \in 1 .. Len(q) : g[i] = f[i] /\ f[i] \in J /\ i \in 1 .. Len(q) + 1
      BY <3>2
    <3>7. g \in [1 .. Len(r) -> K]
      BY <3>2, <3>3, <3>5, <3>6
    <3> HIDE DEF g
    <3>8. ASSUME NEW i \in 1 .. Len(r), NEW j \in 1 .. Len(r), i < j PROVE g[i] < g[j]
      <4>1. i \in 1 .. Len(q) /\ g[i] = f[i] /\ f[i] \in J
        BY <3>2, <3>6, <3>8
      <4>2. CASE j \in 1 .. Len(q)
        BY <3>4, <3>6, <3>8, <4>1, <4>2
      <4>3. CASE j = Len(q) + 1
        BY <3>3, <3>6, <4>1, <4>3
      <4>4. QED
        BY <3>2, <3>5, <4>2, <4>3
    <3>9. ASSUME NEW m \in K PROVE \E i \in 1 .. Len(r) : g[i] = m
      <4>1. CASE m = n + 1
        BY <3>2, <3>6, <4>1
      <4>2. CASE m \in J
        BY <3>2, <3>4, <3>6, <4>2
      <4>3. QED
        BY <3>3, <4>1, <4>2
    <3>10. \A i \in 1 .. Len(r) : r[i] = s[g[i]]
      BY <3>2, <3>4, <3>5, <3>6
    <3>11. Leaves(r, s, K)
      BY <3>7, <3>8, <3>9, <3>10 DEF Leaves
    <3>12. QED
      BY <2>3, <2>5, <3>2, <3>11 DEF r, K
  <2>6. QED
    BY <2>4, <2>5
<1>4. P(Len(s))
  <2> HIDE DEF D
  <2>1. Len(s) \in D
    BY <1>0, <1>2, <1>3, SetInduction
  <2>2. QED
    BY <1>0, <2>1 DEF D
<1>5. I \cap (1 .. Len(s)) = I
  OBVIOUS
<1>6. QED
  BY <1>4, <1>5 DEF AtPlaces, a

LEMMA PrefixLeaves ==
  ASSUME NEW S, NEW s \in Seq(S), NEW n \in 0 .. Len(s)
  PROVE  /\ SubSeq(s, 1, n) \in Seq(S) /\ Len(SubSeq(s, 1, n)) = n
         /\ \A i \in 1 .. n : SubSeq(s, 1, n)[i] = s[i]
         /\ Leaves(SubSeq(s, 1, n), s, 1 .. n)
<1> DEFINE r == SubSeq(s, 1, n)
<1>1. r \in Seq(S) /\ Len(r) = n /\ \A i \in 1 .. n : r[i] = s[i]
  BY PrefixOf
<1> HIDE DEF r
<1>2. Leaves(r, s, 1 .. n)
  <2>1. [i \in 1 .. n |-> i] \in [1 .. Len(r) -> 1 .. n]
    BY <1>1
  <2>2. QED
    BY <1>1, <2>1 DEF Leaves
<1>3. QED
  BY <1>1, <1>2 DEF r

LEMMA RemoveAtLeaves ==
  ASSUME NEW S, NEW s \in Seq(S), NEW n \in 1 .. Len(s)
  PROVE  RemoveAt(s, n) \in Seq(S) /\ Leaves(RemoveAt(s, n), s, (1 .. Len(s)) \ {n})
<1> DEFINE r == RemoveAt(s, n)
           I == (1 .. Len(s)) \ {n}
           f == [i \in 1 .. Len(s) - 1 |-> IF i < n THEN i ELSE i + 1]
<1>0. Len(s) \in Nat /\ n \in Nat /\ 1 <= n /\ n <= Len(s)
  OBVIOUS
<1>1. /\ r \in Seq(S) /\ Len(r) = Len(s) - 1
      /\ \A i \in 1 .. Len(s) - 1 : r[i] = IF i < n THEN s[i] ELSE s[i + 1]
  BY RemovedAt
<1> HIDE DEF r
<1>2. f \in [1 .. Len(r) -> I]
  BY <1>0, <1>1
<1>3. ASSUME NEW m \in I PROVE \E i \in 1 .. Len(r) : f[i] = m
  <2>1. CASE m < n
    BY <1>0, <1>1, <2>1
  <2>2. CASE m > n
    <3>1. m - 1 \in 1 .. Len(r) /\ ~(m - 1 < n) /\ f[m - 1] = m
      BY <1>0, <1>1, <2>2
    <3>2. QED
      BY <3>1
  <2>3. m \in Nat /\ m # n
    BY <1>0
  <2> HIDE DEF f
  <2>4. QED
    BY <1>0, <2>1, <2>2, <2>3
<1>4. \A i, j \in 1 .. Len(r) : i < j => f[i] < f[j]
  BY <1>0, <1>1
<1>5. \A i \in 1 .. Len(r) : r[i] = s[f[i]]
  BY <1>0, <1>1
<1>6. Leaves(r, s, I)
  <2> HIDE DEF f
  <2> QED BY <1>2, <1>3, <1>4, <1>5 DEF Leaves
<1>7. QED
  BY <1>1, <1>6 DEF r

=============================================================================
