-------------------------- MODULE StructureProofs ---------------------------
(***************************************************************************)
(* Proofs about the two data structures of SequentialParts: the list arena *)
(* of a selector and the indexed heap of a scheduler, for any number of    *)
(* nodes, of elements and of priorities.                                   *)
(***************************************************************************)
EXTENDS SequentialParts, SequenceFacts

LEMMA PartsTypes ==
  /\ SizeLimit \in Nat /\ RotationDepth \in Nat /\ MaxFailures \in Nat /\ MaxMessages \in Nat /\ MaxRestarts \in Nat
  /\ MaxNodes \in Nat /\ MaxElements \in Nat /\ SizeLimit >= 2 /\ MaxFailures >= 1
  /\ Absent \notin Seq(Log!Entries) /\ Absent # -1
BY PartsAssumption

-----------------------------------------------------------------------------
(***************************************************************************)
(* Following links.                                                        *)
(***************************************************************************)
LEMMA AlongIs ==
  ASSUME NEW link, NEW first, NEW n \in Nat
  PROVE  /\ Along(link, first, n)[0] = first
         /\ \A k \in 1 .. n :
              Along(link, first, n)[k] =
                IF Along(link, first, n)[k - 1] \in DOMAIN link THEN link[Along(link, first, n)[k - 1]]
                ELSE Along(link, first, n)[k - 1]
<1> DEFINE V == DOMAIN link \cup {link[i] : i \in DOMAIN link} \cup {first}
           I == DOMAIN link
<1>0. first \in V /\ \A i \in I : link[i] \in V
  OBVIOUS
<1> HIDE DEF V
<1> DEFINE F == [k \in 1 .. n |-> [v \in V |-> IF v \in I THEN link[v] ELSE v]]
           Is(f) == f = [k \in 0 .. n |->
                           IF k = 0 THEN first
                           ELSE IF f[k - 1] \in DOMAIN link THEN link[f[k - 1]]
                           ELSE f[k - 1]]
<1>1. F \in [1 .. n -> [V -> V]]
  BY <1>0
<1>2. PICK f \in [0 .. n -> V] : f[0] = first /\ \A k \in 1 .. n : f[k] = F[k][f[k - 1]]
  <2> HIDE DEF F
  <2>1. \E f \in [0 .. n -> V] : Recursively(f, n, first, F)
    BY <1>0, <1>1, FunctionByRecursion
  <2> QED BY <2>1 DEF Recursively
<1>3. Is(f)
  <2>1. ASSUME NEW k \in 0 .. n
        PROVE  f[k] = IF k = 0 THEN first
                      ELSE IF f[k - 1] \in DOMAIN link THEN link[f[k - 1]]
                      ELSE f[k - 1]
    <3>1. CASE k = 0
      BY <1>2, <3>1
    <3>2. CASE k # 0
      <4>1. k \in 1 .. n /\ k - 1 \in 0 .. n
        BY <3>2
      <4>2. f[k - 1] \in V
        BY <4>1
      <4>3. F[k][f[k - 1]] = IF f[k - 1] \in I THEN link[f[k - 1]] ELSE f[k - 1]
        BY <4>1, <4>2
      <4>4. QED
        BY <1>2, <3>2, <4>1, <4>3
    <3>3. QED
      BY <3>1, <3>2
  <2>2. f = [k \in 0 .. n |-> f[k]]
    OBVIOUS
  <2>3. QED
    BY <2>1, <2>2
<1> DEFINE g == CHOOSE h : Is(h)
<1>4. Is(g)
  <2> HIDE DEF Is
  <2> QED BY <1>3
<1>5. Along(link, first, n) = g
  BY DEF Along
<1> HIDE DEF g
<1>6. g[0] = first
  BY <1>4
<1>7. \A k \in 1 .. n : g[k] = IF g[k - 1] \in I THEN link[g[k - 1]] ELSE g[k - 1]
  BY <1>4
<1>8. QED
  BY <1>5, <1>6, <1>7

(***************************************************************************)
(* The elements of s are linked, one to the next, and the last to end.     *)
(***************************************************************************)
Chain(s, link, first, end) ==
  /\ Distinct(s)
  /\ first = IF Len(s) = 0 THEN end ELSE s[1]
  /\ \A k \in 1 .. Len(s) : link[s[k]] = IF k = Len(s) THEN end ELSE s[k + 1]

LEMMA AlongAChain ==
  ASSUME NEW link, NEW first, NEW end, NEW n \in Nat,
         NEW s \in Seq(DOMAIN link), Chain(s, link, first, end), Len(s) <= n
  PROVE  \A k \in 0 .. Len(s) : Along(link, first, n)[k] = IF k = Len(s) THEN end ELSE s[k + 1]
<1> DEFINE at == Along(link, first, n)
           Is(k) == at[k] = IF k = Len(s) THEN end ELSE s[k + 1]
           D == {k \in Nat : k <= Len(s) => Is(k)}
<1>0. Len(s) \in Nat /\ \A k \in 1 .. Len(s) : s[k] \in DOMAIN link
  OBVIOUS
<1>2. /\ at[0] = first
      /\ \A k \in 1 .. n : at[k] = IF at[k - 1] \in DOMAIN link THEN link[at[k - 1]] ELSE at[k - 1]
  BY AlongIs
<1> HIDE DEF at
<1>3. 0 \in D
  BY <1>0, <1>2 DEF Chain
<1>4. ASSUME NEW k \in Nat, k \in D PROVE k + 1 \in D
  <2>1. SUFFICES ASSUME k + 1 <= Len(s) PROVE Is(k + 1)
    OBVIOUS
  <2>2. k + 1 \in 1 .. n /\ k + 1 - 1 = k /\ k <= Len(s) /\ k # Len(s) /\ k + 1 \in 1 .. Len(s)
    BY <1>0, <2>1
  <2>3. at[k] = s[k + 1]
    BY <1>4, <2>2
  <2>4. at[k + 1] = link[s[k + 1]]
    BY <1>0, <1>2, <2>2, <2>3
  <2>5. link[s[k + 1]] = IF k + 1 = Len(s) THEN end ELSE s[k + 1 + 1]
    BY <2>2 DEF Chain
  <2>6. QED
    BY <2>4, <2>5
<1>5. Nat \subseteq D
  <2> HIDE DEF D
  <2> QED BY <1>3, <1>4, SetInduction
<1>6. QED
  BY <1>0, <1>5 DEF at

Found(link, first, n) == {Along(link, first, n)[k] : k \in 0 .. n}

\* A chain that ends outside of the linked ones: what is found along it.
LEMMA FoundAlong ==
  ASSUME NEW link, NEW first, NEW end, end \notin DOMAIN link, NEW n \in Nat,
         NEW s \in Seq(DOMAIN link), Chain(s, link, first, end), Len(s) <= n
  PROVE  Found(link, first, n) = ToSet(s) \cup {end}
<1> DEFINE at == Along(link, first, n)
           m == Len(s)
           D == {k \in Nat : m + k <= n => at[m + k] = end}
<1>0. m \in Nat /\ \A k \in 1 .. m : s[k] \in DOMAIN link
  OBVIOUS
<1>2. \A k \in 1 .. n : at[k] = IF at[k - 1] \in DOMAIN link THEN link[at[k - 1]] ELSE at[k - 1]
  BY AlongIs
<1>3. \A k \in 0 .. m : at[k] = IF k = m THEN end ELSE s[k + 1]
  BY AlongAChain
<1> HIDE DEF at, m
<1>4. 0 \in D
  BY <1>0, <1>3
<1>5. ASSUME NEW k \in Nat, k \in D PROVE k + 1 \in D
  <2>1. SUFFICES ASSUME m + (k + 1) <= n PROVE at[m + (k + 1)] = end
    OBVIOUS
  <2>2. m + (k + 1) \in 1 .. n /\ m + (k + 1) - 1 = m + k /\ m + k <= n
    BY <1>0, <2>1
  <2>3. at[m + k] = end
    BY <1>5, <2>2
  <2>4. at[m + (k + 1)] = IF at[m + k] \in DOMAIN link THEN link[at[m + k]] ELSE at[m + k]
    <3> DEFINE i == m + k
               j == m + (k + 1)
    <3>1. j \in 1 .. n /\ j - 1 = i
      BY <1>0, <2>2
    <3> HIDE DEF i, j
    <3>2. at[j] = IF at[i] \in DOMAIN link THEN link[at[i]] ELSE at[i]
      BY <1>2, <3>1
    <3>3. QED
      BY <3>2 DEF i, j
  <2>5. QED
    BY <2>3, <2>4
<1>6. Nat \subseteq D
  <2> HIDE DEF D
  <2> QED BY <1>4, <1>5, SetInduction
<1>7. ASSUME NEW k \in 0 .. n PROVE at[k] = end \/ at[k] \in ToSet(s)
  <2>1. CASE k < m
    <3>1. k \in 0 .. m /\ k # m /\ k + 1 \in 1 .. m
      BY <1>0, <2>1
    <3>2. s[k + 1] \in ToSet(s)
      BY <3>1 DEF ToSet, m
    <3>3. QED
      BY <1>3, <3>1, <3>2
  <2>2. CASE ~(k < m)
    <3>1. k - m \in Nat /\ m + (k - m) = k
      BY <1>0, <2>2
    <3>2. k - m \in D
      BY <1>6, <3>1
    <3>3. QED
      BY <3>1, <3>2
  <2>3. QED
    BY <2>1, <2>2
<1>8. ASSUME NEW x \in ToSet(s) PROVE \E k \in 0 .. n : at[k] = x
  <2>1. PICK i \in 1 .. m : s[i] = x
    BY DEF ToSet, m
  <2>2. i - 1 \in 0 .. m /\ i - 1 # m /\ i - 1 + 1 = i /\ i - 1 \in 0 .. n
    BY <1>0, <2>1 DEF m
  <2>3. at[i - 1] = x
    BY <1>3, <2>1, <2>2
  <2>4. QED
    BY <2>2, <2>3
<1>9. m \in 0 .. n /\ at[m] = end
  BY <1>0, <1>3 DEF m
<1>10. QED
  BY <1>7, <1>8, <1>9 DEF at, Found

\* As many as there are elements are links enough.
LEMMA ChainFits ==
  ASSUME NEW I, IsFiniteSet(I), NEW s \in Seq(I), Distinct(s)
  PROVE  Len(s) \in Nat /\ Cardinality(I) \in Nat /\ Len(s) <= Cardinality(I)
<1>1. IsFiniteSet(ToSet(s)) /\ Len(s) = Cardinality(ToSet(s))
  BY DistinctIsCounted
<1>2. ToSet(s) \subseteq I
  BY DEF ToSet
<1>3. QED
  BY <1>1, <1>2, FS_Subset, FS_CardinalityType

(***************************************************************************)
(* A stack of free places: one is pushed, and one is popped.               *)
(***************************************************************************)
Stacked(link, top, F) ==
  \E s \in Seq(DOMAIN link) : Chain(s, link, top, -1) /\ ToSet(s) = F

LEMMA PushedOn ==
  ASSUME NEW link, NEW link2, NEW top, NEW F, Stacked(link, top, F), NEW x, x \notin F,
         x \in DOMAIN link2, DOMAIN link \subseteq DOMAIN link2,
         \A i \in F : link2[i] = link[i], link2[x] = top
  PROVE  Stacked(link2, x, F \cup {x})
<1>1. PICK s \in Seq(DOMAIN link) : Chain(s, link, top, -1) /\ ToSet(s) = F
  BY DEF Stacked
<1> DEFINE r == <<x>> \o s
<1>2. Len(s) \in Nat /\ \A i \in 1 .. Len(s) : s[i] \in DOMAIN link /\ s[i] \in F
  BY <1>1 DEF ToSet
<1>3. s \in Seq(DOMAIN link2)
  BY <1>2
<1>4. /\ r \in Seq(DOMAIN link2) /\ Len(r) = Len(s) + 1
      /\ r[1] = x
      /\ \A i \in 1 .. Len(s) : r[i + 1] = s[i]
  BY <1>3
<1>5. Distinct(r) /\ ToSet(r) = F \cup {x}
  BY <1>1, <1>3, PutInFront DEF Chain
<1> HIDE DEF r
<1>6. ASSUME NEW k \in 1 .. Len(r) PROVE link2[r[k]] = IF k = Len(r) THEN -1 ELSE r[k + 1]
  <2>1. CASE k = 1
    <3>1. link2[r[k]] = top
      BY <1>4, <2>1
    <3>2. CASE Len(s) = 0
      BY <1>1, <1>4, <2>1, <3>1, <3>2 DEF Chain
    <3>3. CASE Len(s) # 0
      <4>1. top = s[1] /\ 1 \in 1 .. Len(s) /\ k # Len(r)
        BY <1>1, <1>2, <1>4, <2>1, <3>3 DEF Chain
      <4>2. QED
        BY <1>4, <2>1, <3>1, <4>1
    <3>4. QED
      BY <3>2, <3>3
  <2>2. CASE k # 1
    <3>1. k - 1 \in 1 .. Len(s) /\ k - 1 + 1 = k
      BY <1>2, <1>4, <2>2
    <3>2. r[k] = s[k - 1] /\ link2[r[k]] = link[s[k - 1]]
      BY <1>2, <1>4, <3>1
    <3>3. link[s[k - 1]] = IF k - 1 = Len(s) THEN -1 ELSE s[k]
      BY <1>1, <3>1 DEF Chain
    <3>4. k - 1 = Len(s) <=> k = Len(r)
      BY <1>2, <1>4
    <3>5. k - 1 # Len(s) => k \in 1 .. Len(s) /\ r[k + 1] = s[k]
      BY <1>2, <1>4, <3>1
    <3>6. QED
      BY <3>2, <3>3, <3>4, <3>5
  <2>3. QED
    BY <2>1, <2>2
<1>7. x = IF Len(r) = 0 THEN -1 ELSE r[1]
  BY <1>2, <1>4
<1>8. QED
  BY <1>4, <1>5, <1>6, <1>7 DEF Stacked, Chain

LEMMA PoppedFrom ==
  ASSUME NEW link, NEW top, NEW F, Stacked(link, top, F)
  PROVE  /\ F \subseteq DOMAIN link
         /\ -1 \notin DOMAIN link => (top = -1 <=> F = {})
         /\ -1 \notin DOMAIN link /\ top # -1 => top \in F /\ Stacked(link, link[top], F \ {top})
<1>1. PICK s \in Seq(DOMAIN link) : Chain(s, link, top, -1) /\ ToSet(s) = F
  BY DEF Stacked
<1>2. Len(s) \in Nat /\ F = {s[i] : i \in 1 .. Len(s)} /\ \A i \in 1 .. Len(s) : s[i] \in DOMAIN link
  BY <1>1 DEF ToSet
<1>3. top = IF Len(s) = 0 THEN -1 ELSE s[1]
  BY <1>1 DEF Chain
<1>4. F \subseteq DOMAIN link
  BY <1>2
<1>5. -1 \notin DOMAIN link => (top = -1 <=> F = {})
  <2>1. CASE Len(s) = 0
    BY <1>2, <1>3, <2>1
  <2>2. CASE Len(s) # 0
    <3>1. 1 \in 1 .. Len(s)
      BY <1>2, <2>2
    <3>2. QED
      BY <1>2, <1>3, <2>2, <3>1
  <2>3. QED
    BY <2>1, <2>2
<1>6. ASSUME -1 \notin DOMAIN link, top # -1
      PROVE  top \in F /\ Stacked(link, link[top], F \ {top})
  <2>1. Len(s) # 0 /\ top = s[1] /\ 1 \in 1 .. Len(s)
    BY <1>2, <1>3, <1>6
  <2> DEFINE r == RemoveAt(s, 1)
  <2>2. /\ r \in Seq(DOMAIN link) /\ Len(r) = Len(s) - 1
        /\ \A i \in 1 .. Len(s) - 1 : r[i] = s[i + 1]
    <3>1. \A i \in 1 .. Len(s) - 1 : ~(i < 1)
      BY <1>2
    <3>2. QED
      BY <2>1, <3>1, RemovedAt
  <2>3. Distinct(r) /\ ToSet(r) = F \ {top}
    BY <1>1, <2>1, TakeOut DEF Chain
  <2> HIDE DEF r
  <2>4. ASSUME NEW k \in 1 .. Len(r) PROVE link[r[k]] = IF k = Len(r) THEN -1 ELSE r[k + 1]
    <3>1. k + 1 \in 1 .. Len(s) /\ r[k] = s[k + 1] /\ (k = Len(r) <=> k + 1 = Len(s))
      BY <1>2, <2>2
    <3>2. link[s[k + 1]] = IF k + 1 = Len(s) THEN -1 ELSE s[k + 1 + 1]
      BY <1>1, <3>1 DEF Chain
    <3>3. k # Len(r) => r[k + 1] = s[k + 1 + 1]
      BY <1>2, <2>2
    <3>4. QED
      BY <3>1, <3>2, <3>3
  <2>5. link[top] = IF Len(r) = 0 THEN -1 ELSE r[1]
    <3>1. link[s[1]] = IF 1 = Len(s) THEN -1 ELSE s[1 + 1]
      BY <1>1, <2>1 DEF Chain
    <3>2. Len(r) # 0 => r[1] = s[1 + 1]
      BY <1>2, <2>1, <2>2
    <3>3. QED
      BY <1>2, <2>1, <2>2, <3>1, <3>2
  <2>6. QED
    BY <1>2, <2>1, <2>2, <2>3, <2>4, <2>5 DEF Stacked, Chain
<1>7. QED
  BY <1>4, <1>5, <1>6

\* Only the links of the free ones matter.
LEMMA SameStack ==
  ASSUME NEW link, NEW link2, NEW top, NEW F, Stacked(link, top, F),
         DOMAIN link \subseteq DOMAIN link2, \A i \in F : link2[i] = link[i]
  PROVE  Stacked(link2, top, F)
<1>1. PICK s \in Seq(DOMAIN link) : Chain(s, link, top, -1) /\ ToSet(s) = F
  BY DEF Stacked
<1>2. Len(s) \in Nat /\ \A i \in 1 .. Len(s) : s[i] \in DOMAIN link2 /\ s[i] \in F
  BY <1>1 DEF ToSet
<1>3. s \in Seq(DOMAIN link2)
  BY <1>2
<1>4. Chain(s, link2, top, -1)
  BY <1>1, <1>2 DEF Chain
<1>5. QED
  BY <1>1, <1>3, <1>4 DEF Stacked

-----------------------------------------------------------------------------
\* The instances have the operators of the modules they extend.
LEMMA SameOperators ==
  /\ \A S : Heap!Cardinality(S) = Cardinality(S) /\ Arena!Cardinality(S) = Cardinality(S)
  /\ \A link, first, n : Heap!Along(link, first, n) = Along(link, first, n)
  /\ \A link, first, n : Arena!Along(link, first, n) = Along(link, first, n)
BY DEF Heap!Cardinality, Arena!Cardinality, Cardinality, Heap!Along, Arena!Along, Along

(***************************************************************************)
(* The heap: N ids, of which n are in the heap.                            *)
(***************************************************************************)
PlacesOf(n) == 0 .. n - 1

Heaps(N, n) ==
  {h \in [elements : [PlacesOf(N) -> [index : PlacesOf(N) \cup {-1}, pv : Priorities \cup {Absent}]],
          ordering : [PlacesOf(n) -> PlacesOf(N)]] :
     /\ \A p \in PlacesOf(n) : /\ h.elements[h.ordering[p]].index = p
                               /\ h.elements[h.ordering[p]].pv # Absent
     /\ \A i \in PlacesOf(N) : h.elements[i].pv # Absent =>
          h.elements[i].index \in PlacesOf(n) /\ h.ordering[h.elements[i].index] = i}

Pv(h, p) == h.elements[h.ordering[p]].pv

\* The same elements, the others in the same state.
Rearranged(h, g, N) ==
  \A i \in PlacesOf(N) : /\ g.elements[i].pv = h.elements[i].pv
                         /\ h.elements[i].pv = Absent => g.elements[i] = h.elements[i]

Parent(p) == (p - 1) \div 2

\* Seen from a place below the top.
LEMMA ParentIs ==
  ASSUME NEW n \in Nat, NEW p \in PlacesOf(n), p # 0
  PROVE  Parent(p) \in PlacesOf(n) /\ Parent(p) < p /\ (p = 2 * Parent(p) + 1 \/ p = 2 * Parent(p) + 2)
BY DEF Parent, PlacesOf

LEMMA HeapOf ==
  ASSUME NEW N \in Nat, NEW n \in Nat, NEW h \in Heaps(N, n)
  PROVE  /\ DOMAIN h.elements = PlacesOf(N) /\ DOMAIN h.ordering = PlacesOf(n)
         /\ h = [elements |-> h.elements, ordering |-> h.ordering]
         /\ \A p \in PlacesOf(n) :
              /\ h.ordering[p] \in PlacesOf(N) /\ Pv(h, p) \in Priorities /\ Pv(h, p) \in Int
              /\ h.elements[h.ordering[p]].index = p /\ h.elements[h.ordering[p]].pv # Absent
         /\ \A i \in PlacesOf(N) :
              /\ h.elements[i] \in [index : PlacesOf(N) \cup {-1}, pv : Priorities \cup {Absent}]
              /\ h.elements[i].pv # Absent =>
                   h.elements[i].index \in PlacesOf(n) /\ h.ordering[h.elements[i].index] = i
<1>1. /\ h.elements \in [PlacesOf(N) -> [index : PlacesOf(N) \cup {-1}, pv : Priorities \cup {Absent}]]
      /\ h.ordering \in [PlacesOf(n) -> PlacesOf(N)]
      /\ h = [elements |-> h.elements, ordering |-> h.ordering]
  BY DEF Heaps
<1>2. /\ \A p \in PlacesOf(n) : /\ h.elements[h.ordering[p]].index = p
                                /\ h.elements[h.ordering[p]].pv # Absent
      /\ \A i \in PlacesOf(N) : h.elements[i].pv # Absent =>
           h.elements[i].index \in PlacesOf(n) /\ h.ordering[h.elements[i].index] = i
  BY DEF Heaps
<1>3. \A i \in PlacesOf(N) : h.elements[i] \in [index : PlacesOf(N) \cup {-1}, pv : Priorities \cup {Absent}]
  BY <1>1
<1>4. \A p \in PlacesOf(n) : h.ordering[p] \in PlacesOf(N)
  BY <1>1
<1>5. ASSUME NEW p \in PlacesOf(n) PROVE Pv(h, p) \in Priorities /\ Pv(h, p) \in Int
  <2>1. h.elements[h.ordering[p]].pv \in Priorities \cup {Absent}
    BY <1>3, <1>4
  <2>2. QED
    BY <2>1, <1>2, PartsAssumption DEF Pv
<1>6. QED
  BY <1>1, <1>2, <1>3, <1>4, <1>5

(***************************************************************************)
(* Two elements trade places.                                              *)
(***************************************************************************)
LEMMA TradeIs ==
  ASSUME NEW N \in Nat, NEW n \in Nat, NEW h \in Heaps(N, n),
         NEW p \in PlacesOf(n), NEW q \in PlacesOf(n), p # q
  PROVE  LET g == Heap!Trade(h, p, q) IN
           /\ g \in Heaps(N, n) /\ Rearranged(h, g, N)
           /\ Pv(g, p) = Pv(h, q) /\ Pv(g, q) = Pv(h, p)
           /\ \A r \in PlacesOf(n) : r # p /\ r # q => Pv(g, r) = Pv(h, r)
           /\ g.elements[h.ordering[p]].index = q
<1> DEFINE a == h.ordering[p]
           b == h.ordering[q]
           es == [h.elements EXCEPT ![a].index = q, ![b].index = p]
           ord == [h.ordering EXCEPT ![p] = b, ![q] = a]
           g == Heap!Trade(h, p, q)
           E == [index : PlacesOf(N) \cup {-1}, pv : Priorities \cup {Absent}]
<1>1. /\ a \in PlacesOf(N) /\ b \in PlacesOf(N) /\ h.elements[a].index = p /\ h.elements[b].index = q
      /\ h.elements[a].pv # Absent /\ h.elements[b].pv # Absent
      /\ h.elements \in [PlacesOf(N) -> E] /\ h.ordering \in [PlacesOf(n) -> PlacesOf(N)]
  <2>1. h.elements \in [PlacesOf(N) -> E] /\ h.ordering \in [PlacesOf(n) -> PlacesOf(N)]
    BY DEF Heaps
  <2>2. QED
    BY <2>1, HeapOf
<1>2. a # b
  BY <1>1
<1>4. p \in PlacesOf(N) \cup {-1} /\ q \in PlacesOf(N) \cup {-1}
  <2>1. h.elements[a] \in E /\ h.elements[b] \in E
    BY <1>1
  <2>2. QED
    BY <1>1, <2>1
<1>5. g.elements = es /\ g.ordering = ord /\ g = [elements |-> es, ordering |-> ord]
  BY DEF Heap!Trade
<1>6. /\ \A i \in PlacesOf(N) : /\ es[i] \in E /\ es[i].pv = h.elements[i].pv
                                /\ es[i].index = IF i = b THEN p ELSE IF i = a THEN q ELSE h.elements[i].index
                                /\ i # a /\ i # b => es[i] = h.elements[i]
      /\ es \in [PlacesOf(N) -> E]
  <2>1. ASSUME NEW i \in PlacesOf(N)
        PROVE  /\ es[i] \in E /\ es[i].pv = h.elements[i].pv
               /\ es[i].index = IF i = b THEN p ELSE IF i = a THEN q ELSE h.elements[i].index
               /\ i # a /\ i # b => es[i] = h.elements[i]
    <3>1. h.elements[i] \in E
      BY <1>1
    <3>2. CASE i = b
      BY <1>1, <1>2, <1>4, <3>1, <3>2
    <3>3. CASE i = a
      BY <1>1, <1>2, <1>4, <3>1, <3>3
    <3>4. CASE i # a /\ i # b
      BY <1>1, <1>2, <3>1, <3>4
    <3>5. QED
      BY <3>2, <3>3, <3>4
  <2>2. es = [i \in PlacesOf(N) |-> es[i]]
    BY <1>1
  <2> HIDE DEF es
  <2>3. es \in [PlacesOf(N) -> E]
    BY <2>1, <2>2
  <2>4. QED
    BY <2>1, <2>3
<1>7. /\ \A r \in PlacesOf(n) : ord[r] = IF r = q THEN a ELSE IF r = p THEN b ELSE h.ordering[r]
      /\ ord \in [PlacesOf(n) -> PlacesOf(N)]
  BY <1>1
<1> HIDE DEF es, ord, E, a, b, g
<1>8. \A r \in PlacesOf(n) : es[ord[r]].index = r /\ es[ord[r]].pv # Absent
  <2> SUFFICES ASSUME NEW r \in PlacesOf(n) PROVE es[ord[r]].index = r /\ es[ord[r]].pv # Absent
    OBVIOUS
  <2>1. CASE r = q
    BY <1>1, <1>2, <1>6, <1>7, <2>1
  <2>2. CASE r = p
    BY <1>1, <1>2, <1>6, <1>7, <2>2
  <2>3. CASE r # p /\ r # q
    <3>1. /\ ord[r] = h.ordering[r] /\ h.ordering[r] \in PlacesOf(N)
          /\ h.elements[h.ordering[r]].index = r /\ h.elements[h.ordering[r]].pv # Absent
      BY <1>7, <2>3, HeapOf
    <3>2. h.ordering[r] # a /\ h.ordering[r] # b
      BY <1>1, <2>3, <3>1
    <3>3. QED
      BY <1>6, <3>1, <3>2
  <2>4. QED
    BY <2>1, <2>2, <2>3
<1>9. ASSUME NEW i \in PlacesOf(N), es[i].pv # Absent
      PROVE  es[i].index \in PlacesOf(n) /\ ord[es[i].index] = i
  <2>1. h.elements[i].index \in PlacesOf(n) /\ h.ordering[h.elements[i].index] = i
    BY <1>6, <1>9, HeapOf
  <2>2. CASE i = a
    BY <1>1, <1>2, <1>6, <1>7, <2>2
  <2>3. CASE i = b
    BY <1>1, <1>2, <1>6, <1>7, <2>3
  <2>4. CASE i # a /\ i # b
    <3>1. h.elements[i].index # p /\ h.elements[i].index # q
      BY <2>1, <2>4 DEF a, b
    <3>2. QED
      BY <1>6, <1>7, <2>1, <2>4, <3>1
  <2>5. QED
    BY <2>2, <2>3, <2>4
<1>10. g \in Heaps(N, n)
  <2>1. g \in [elements : [PlacesOf(N) -> E], ordering : [PlacesOf(n) -> PlacesOf(N)]]
    BY <1>5, <1>6, <1>7
  <2>2. QED
    BY <1>5, <1>8, <1>9, <2>1 DEF Heaps, E
<1>11. Rearranged(h, g, N)
  BY <1>1, <1>5, <1>6 DEF Rearranged
<1>12. ASSUME NEW r \in PlacesOf(n)
       PROVE  Pv(g, r) = IF r = q THEN Pv(h, p) ELSE IF r = p THEN Pv(h, q) ELSE Pv(h, r)
  <2>1. ord[r] \in PlacesOf(N)
    BY <1>7
  <2>2. Pv(g, r) = h.elements[ord[r]].pv
    BY <1>5, <1>6, <2>1 DEF Pv
  <2>3. QED
    BY <1>7, <2>2 DEF Pv, a, b
<1>13. g.elements[a].index = q
  BY <1>1, <1>2, <1>5, <1>6
<1>14. QED
  BY <1>10, <1>11, <1>12, <1>13 DEF a, g

(***************************************************************************)
(* Loops: what is rearranged step by step.                                 *)
(***************************************************************************)
Rearrangements(h, N, n) == {g \in Heaps(N, n) : Rearranged(h, g, N)}

LEMMA HowManyFromZero ==
  ASSUME NEW n \in Nat
  PROVE  IsFiniteSet(PlacesOf(n)) /\ Cardinality(PlacesOf(n)) = n
<1>1. IsFiniteSet(0 .. n - 1) /\ Cardinality(0 .. n - 1) = IF 0 > n - 1 THEN 0 ELSE n - 1 - 0 + 1
  BY FS_Interval
<1>2. QED
  BY <1>1 DEF PlacesOf

LEMMA RearrangedAgain ==
  ASSUME NEW N \in Nat, NEW h, NEW g, NEW k, Rearranged(h, g, N), Rearranged(g, k, N)
  PROVE  Rearranged(h, k, N)
BY DEF Rearranged

\* A step of swim() or sink() does nothing, or trades the element's place with another's.
LEMMA SwimStepTrades ==
  ASSUME NEW N \in Nat, NEW n \in Nat, NEW h \in Heaps(N, n), NEW id \in PlacesOf(N), h.elements[id].pv # Absent
  PROVE  LET q == h.elements[id].index IN
         /\ q \in PlacesOf(n) /\ h.ordering[q] = id
         /\ Heap!SwimStep(h, id) =
              IF q > 0 /\ Pv(h, Parent(q)) > Pv(h, q) THEN Heap!Trade(h, q, Parent(q)) ELSE h
         /\ Heap!SwimStep(h, id) \in Rearrangements(h, N, n)
<1> DEFINE q == h.elements[id].index
<1>1. q \in PlacesOf(n) /\ h.ordering[q] = id
  BY HeapOf
<1>2. Heap!SwimStep(h, id) =
        IF q > 0 /\ Pv(h, Parent(q)) > Pv(h, q) THEN Heap!Trade(h, q, Parent(q)) ELSE h
  BY <1>1 DEF Heap!SwimStep, Heap!After, Pv, Parent
<1>3. h \in Rearrangements(h, N, n)
  BY DEF Rearrangements, Rearranged
<1>4. q > 0 => Heap!Trade(h, q, Parent(q)) \in Rearrangements(h, N, n)
  <2> HIDE DEF q
  <2>1. SUFFICES ASSUME q > 0 PROVE Heap!Trade(h, q, Parent(q)) \in Rearrangements(h, N, n)
    OBVIOUS
  <2>2. q # 0
    BY <2>1
  <2>3. Parent(q) \in PlacesOf(n) /\ Parent(q) # q
    BY <1>1, <2>2, ParentIs DEF PlacesOf
  <2>4. QED
    BY <1>1, <2>3, TradeIs DEF Rearrangements
<1>5. QED
  BY <1>1, <1>2, <1>3, <1>4

LEMMA SinkStepTrades ==
  ASSUME NEW N \in Nat, NEW n \in Nat, NEW h \in Heaps(N, n), NEW id \in PlacesOf(N), h.elements[id].pv # Absent
  PROVE  LET q == h.elements[id].index
             Comes(i) == \A j \in PlacesOf(n) : Parent(j) = q /\ j # 0 => Pv(h, i) <= Pv(h, j)
         IN
         /\ q \in PlacesOf(n) /\ h.ordering[q] = id
         /\ \/ /\ Heap!SinkStep(h, id) = h
               /\ Comes(q)
            \/ \E c \in PlacesOf(n) :
                 /\ c # 0 /\ Parent(c) = q /\ c > q /\ Pv(h, c) < Pv(h, q) /\ Comes(c)
                 /\ Heap!SinkStep(h, id) = Heap!Trade(h, q, c)
         /\ Heap!SinkStep(h, id) \in Rearrangements(h, N, n)
<1> DEFINE q == h.elements[id].index
           Comes(i) == \A j \in PlacesOf(n) : Parent(j) = q /\ j # 0 => Pv(h, i) <= Pv(h, j)
           Best(i, j) == IF j < n /\ Pv(h, i) > Pv(h, j) THEN j ELSE i
           one == Best(q, 2 * q + 1)
           both == Best(one, 2 * q + 2)
<1>1. q \in PlacesOf(n) /\ h.ordering[q] = id
  BY HeapOf
<1>2. Cardinality(DOMAIN h.ordering) = n
  BY HeapOf, HowManyFromZero
<1>3. Heap!SinkStep(h, id) = IF q < n \div 2 /\ both # q THEN Heap!Trade(h, q, both) ELSE h
  <2> DEFINE limit == Heap!Cardinality(DOMAIN h.ordering)
             HBest(i, j) == IF j < limit /\ Heap!After(h, h.ordering[i], h.ordering[j]) THEN j ELSE i
             hboth == HBest(HBest(q, 2 * q + 1), 2 * q + 2)
  <2>1. Heap!SinkStep(h, id) = IF q < limit \div 2 /\ hboth # q THEN Heap!Trade(h, q, hboth) ELSE h
    BY Zenon DEF Heap!SinkStep
  <2>3. limit = n
    BY <1>2, SameOperators
  <2>2. \A i, j : HBest(i, j) = Best(i, j)
    BY <2>3 DEF Heap!After, Pv
  <2> HIDE DEF limit, HBest, Best, q
  <2>4. hboth = both
    BY <2>2
  <2> HIDE DEF hboth, both
  <2>5. QED
    BY <2>1, <2>3, <2>4
<1>4. h \in Rearrangements(h, N, n)
  BY DEF Rearrangements, Rearranged
<1> DEFINE l == 2 * q + 1
           r == 2 * q + 2
<1>5. /\ q \in Nat /\ q < n
      /\ \A j \in PlacesOf(n) : Parent(j) = q /\ j # 0 => j = l \/ j = r
      /\ \A j \in {l, r} : Parent(j) = q /\ j # 0 /\ j > q /\ j \in Nat
      /\ l < n => l \in PlacesOf(n) /\ Pv(h, l) \in Int
      /\ r < n => r \in PlacesOf(n) /\ Pv(h, r) \in Int
      /\ Pv(h, q) \in Int
  <2> HIDE DEF q
  <2>1. q \in Nat /\ q < n
    BY <1>1 DEF PlacesOf
  <2>2. \A j \in PlacesOf(n) : Parent(j) = q /\ j # 0 => j = l \/ j = r
    BY ParentIs
  <2>3. \A j \in {l, r} : Parent(j) = q /\ j # 0 /\ j > q /\ j \in Nat
    BY <2>1 DEF Parent
  <2>4. (l < n => l \in PlacesOf(n)) /\ (r < n => r \in PlacesOf(n))
    BY <2>1 DEF PlacesOf
  <2>5. QED
    BY <1>1, <2>1, <2>2, <2>3, <2>4, HeapOf
<1>6. ~(q < n \div 2) => ~(l < n) /\ ~(r < n)
  <2> HIDE DEF q
  <2>1. q \in Nat
    BY <1>5
  <2>2. QED
    BY <2>1
<1>7. \A j \in PlacesOf(n) : j < n
  BY DEF PlacesOf
<1> DEFINE lv == Pv(h, l)
           rv == Pv(h, r)
           qv == Pv(h, q)
<1>8. \/ both = q /\ (l < n => qv <= lv) /\ (r < n => qv <= rv)
      \/ both = l /\ l < n /\ lv < qv /\ (r < n => lv <= rv)
      \/ both = r /\ r < n /\ rv < qv /\ (l < n => rv <= lv)
  <2>1. CASE l < n /\ qv > lv
    <3>1. one = l
      BY <2>1
    <3>2. both = IF r < n /\ lv > rv THEN r ELSE l
      BY <3>1
    <3> HIDE DEF one, both, l, r, lv, rv, qv, q
    <3>3. QED
      BY <1>5, <2>1, <3>2 DEF lv, rv, qv
  <2>2. CASE ~(l < n /\ qv > lv)
    <3>1. one = q
      BY <2>2
    <3>2. both = IF r < n /\ qv > rv THEN r ELSE q
      BY <3>1
    <3> HIDE DEF one, both, l, r, lv, rv, qv, q
    <3>3. QED
      BY <1>5, <2>2, <3>2 DEF lv, rv, qv
  <2>3. QED
    BY <2>1, <2>2
<1> HIDE DEF one, both, q, l, r, lv, rv, qv
<1>9. CASE Heap!SinkStep(h, id) = h /\ both = q
  <2>1. Comes(q)
    BY <1>5, <1>7, <1>8, <1>9 DEF lv, rv, qv
  <2>2. QED
    BY <1>1, <1>4, <1>9, <2>1 DEF q
<1>10. CASE ~(q < n \div 2)
  <2>1. Comes(q)
    BY <1>5, <1>6, <1>7, <1>10
  <2>2. QED
    BY <1>1, <1>3, <1>4, <1>10, <2>1 DEF q
<1>11. CASE q < n \div 2 /\ both # q
  <2>1. /\ both \in PlacesOf(n) /\ both # 0 /\ Parent(both) = q /\ both > q /\ Pv(h, both) < Pv(h, q)
        /\ Comes(both)
    BY <1>5, <1>7, <1>8, <1>11 DEF lv, rv, qv
  <2>2. Heap!SinkStep(h, id) = Heap!Trade(h, q, both)
    BY <1>3, <1>11
  <2>3. Heap!Trade(h, q, both) \in Rearrangements(h, N, n)
    BY <1>1, <1>11, <2>1, TradeIs DEF Rearrangements
  <2>4. QED
    BY <1>1, <2>1, <2>2, <2>3 DEF q
<1>12. QED
  BY <1>3, <1>9, <1>10, <1>11

(***************************************************************************)
(* The order of the heap, around a place q: everything is in order except  *)
(* for what is at q and what is above it, or for what is below it; and     *)
(* what is below q comes after what is above it.                           *)
(***************************************************************************)
ParentFirst(h, p) == Pv(h, Parent(p)) <= Pv(h, p)
AllInOrder(h, n) == \A p \in PlacesOf(n) : p # 0 => ParentFirst(h, p)
Around(h, n, q) == \A p \in PlacesOf(n) : p # 0 /\ Parent(p) = q /\ q # 0 => Pv(h, Parent(q)) <= Pv(h, p)
UpFrom(h, n, q)   == Around(h, n, q) /\ \A p \in PlacesOf(n) : p # 0 /\ p # q => ParentFirst(h, p)
DownFrom(h, n, q) == Around(h, n, q) /\ \A p \in PlacesOf(n) : p # 0 /\ Parent(p) # q => ParentFirst(h, p)

LEMMA SwimStepOrders ==
  ASSUME NEW N \in Nat, NEW n \in Nat, NEW h \in Heaps(N, n), NEW id \in PlacesOf(N), h.elements[id].pv # Absent,
         UpFrom(h, n, h.elements[id].index)
  PROVE  LET g == Heap!SwimStep(h, id) IN
           \/ g = h /\ AllInOrder(h, n)
           \/ UpFrom(g, n, g.elements[id].index) /\ g.elements[id].index < h.elements[id].index
<1> DEFINE q == h.elements[id].index
           g == Heap!SwimStep(h, id)
           m == Parent(q)
<1>1. /\ q \in PlacesOf(n) /\ h.ordering[q] = id
      /\ g = IF q > 0 /\ Pv(h, Parent(q)) > Pv(h, q) THEN Heap!Trade(h, q, Parent(q)) ELSE h
  BY SwimStepTrades
<1>2. /\ \A p \in PlacesOf(n) : p # 0 /\ p # q => ParentFirst(h, p)
      /\ Around(h, n, q)
  BY DEF UpFrom
<1> HIDE DEF g, q
<1>3. \A p \in PlacesOf(n) : p \in Nat /\ Pv(h, p) \in Int /\ (p # 0 => Parent(p) \in PlacesOf(n) /\ Parent(p) < p)
  BY HeapOf, ParentIs DEF PlacesOf
<1>4. CASE ~(q > 0 /\ Pv(h, m) > Pv(h, q))
  <2>1. q # 0 => ParentFirst(h, q)
    BY <1>1, <1>3, <1>4 DEF ParentFirst
  <2>2. AllInOrder(h, n)
    BY <1>2, <2>1 DEF AllInOrder
  <2>3. QED
    BY <1>1, <1>4, <2>2 DEF g
<1>5. CASE q > 0 /\ Pv(h, m) > Pv(h, q)
  <2>1. q # 0 /\ m \in PlacesOf(n) /\ m < q /\ m # q
    BY <1>1, <1>3, <1>5
  <2>2. /\ g \in Heaps(N, n)
        /\ Pv(g, q) = Pv(h, m) /\ Pv(g, m) = Pv(h, q)
        /\ \A r \in PlacesOf(n) : r # q /\ r # m => Pv(g, r) = Pv(h, r)
        /\ g.elements[id].index = m
    BY <1>1, <1>5, <2>1, TradeIs
  <2>3. ASSUME NEW p \in PlacesOf(n), p # 0, p # m PROVE ParentFirst(g, p)
    <3>1. Parent(p) \in PlacesOf(n) /\ Parent(p) < p
      BY <1>3, <2>3
    <3>2. CASE p = q
      BY <1>1, <1>3, <1>5, <2>1, <2>2, <3>2 DEF ParentFirst
    <3>3. CASE p # q /\ Parent(p) = q
      <4>1. Pv(h, m) <= Pv(h, p)
        BY <1>2, <2>1, <2>3, <3>3 DEF Around
      <4>2. QED
        BY <2>2, <2>3, <3>1, <3>3, <4>1 DEF ParentFirst
    <3>4. CASE p # q /\ Parent(p) = m
      <4>1. Pv(h, m) <= Pv(h, p)
        BY <1>2, <2>3, <3>4 DEF ParentFirst
      <4>2. Pv(h, q) <= Pv(h, p)
        BY <1>1, <1>3, <1>5, <2>1, <4>1
      <4>3. QED
        BY <2>2, <2>3, <3>1, <3>4, <4>2 DEF ParentFirst
    <3>5. CASE p # q /\ Parent(p) # q /\ Parent(p) # m
      BY <1>2, <2>2, <2>3, <3>1, <3>5 DEF ParentFirst
    <3>6. QED
      BY <3>2, <3>3, <3>4, <3>5
  <2>4. ASSUME NEW p \in PlacesOf(n), p # 0, Parent(p) = m, m # 0 PROVE Pv(g, Parent(m)) <= Pv(g, p)
    <3>1. Parent(m) \in PlacesOf(n) /\ Parent(m) < m /\ Parent(m) # q /\ Parent(m) # m
      BY <1>3, <2>1, <2>4
    <3>2. Pv(h, Parent(m)) <= Pv(h, m)
      BY <1>2, <2>1, <2>4 DEF ParentFirst
    <3>3. Pv(g, Parent(m)) = Pv(h, Parent(m))
      BY <2>2, <3>1
    <3>4. CASE p = q
      BY <2>2, <3>2, <3>3, <3>4
    <3>5. CASE p # q
      <4>1. p # m
        BY <1>3, <2>4
      <4>2. Pv(h, m) <= Pv(h, p) /\ Pv(g, p) = Pv(h, p)
        BY <1>2, <2>2, <2>4, <3>5, <4>1 DEF ParentFirst
      <4>3. QED
        BY <1>3, <2>1, <3>1, <3>2, <3>3, <4>2
    <3>6. QED
      BY <3>4, <3>5
  <2>5. UpFrom(g, n, m)
    BY <2>3, <2>4 DEF UpFrom, Around
  <2>6. QED
    BY <2>1, <2>2, <2>5 DEF g, q
<1>6. QED
  BY <1>4, <1>5

LEMMA SinkStepOrders ==
  ASSUME NEW N \in Nat, NEW n \in Nat, NEW h \in Heaps(N, n), NEW id \in PlacesOf(N), h.elements[id].pv # Absent,
         DownFrom(h, n, h.elements[id].index)
  PROVE  LET g == Heap!SinkStep(h, id) IN
           \/ g = h /\ AllInOrder(h, n)
           \/ DownFrom(g, n, g.elements[id].index) /\ g.elements[id].index > h.elements[id].index
<1> DEFINE q == h.elements[id].index
           g == Heap!SinkStep(h, id)
           Comes(i) == \A j \in PlacesOf(n) : Parent(j) = q /\ j # 0 => Pv(h, i) <= Pv(h, j)
<1>1. /\ q \in PlacesOf(n) /\ h.ordering[q] = id
      /\ \/ g = h /\ Comes(q)
         \/ \E c \in PlacesOf(n) :
              /\ c # 0 /\ Parent(c) = q /\ c > q /\ Pv(h, c) < Pv(h, q) /\ Comes(c)
              /\ g = Heap!Trade(h, q, c)
  BY SinkStepTrades
<1>2. /\ \A p \in PlacesOf(n) : p # 0 /\ Parent(p) # q => ParentFirst(h, p)
      /\ Around(h, n, q)
  BY DEF DownFrom
<1> HIDE DEF g, q
<1>3. \A p \in PlacesOf(n) : p \in Nat /\ Pv(h, p) \in Int /\ (p # 0 => Parent(p) \in PlacesOf(n) /\ Parent(p) < p)
  BY HeapOf, ParentIs DEF PlacesOf
<1>4. CASE g = h /\ Comes(q)
  <2>1. AllInOrder(h, n)
    BY <1>2, <1>4 DEF AllInOrder, ParentFirst
  <2>2. QED
    BY <1>4, <2>1 DEF g
<1>5. CASE \E c \in PlacesOf(n) :
             /\ c # 0 /\ Parent(c) = q /\ c > q /\ Pv(h, c) < Pv(h, q) /\ Comes(c)
             /\ g = Heap!Trade(h, q, c)
  <2>1. PICK c \in PlacesOf(n) :
             /\ c # 0 /\ Parent(c) = q /\ c > q /\ Pv(h, c) < Pv(h, q) /\ Comes(c)
             /\ g = Heap!Trade(h, q, c)
    BY <1>5
  <2>2. c # q
    BY <1>1, <1>3, <2>1
  <2>3. /\ g \in Heaps(N, n)
        /\ Pv(g, q) = Pv(h, c) /\ Pv(g, c) = Pv(h, q)
        /\ \A r \in PlacesOf(n) : r # q /\ r # c => Pv(g, r) = Pv(h, r)
        /\ g.elements[id].index = c
    BY <1>1, <2>1, <2>2, TradeIs
  <2>4. ASSUME NEW p \in PlacesOf(n), p # 0, Parent(p) # c PROVE ParentFirst(g, p)
    <3>1. Parent(p) \in PlacesOf(n) /\ Parent(p) < p
      BY <1>3, <2>4
    <3>2. CASE p = q
      <4>1. Pv(h, Parent(q)) <= Pv(h, c)
        BY <1>2, <2>1, <2>4, <3>2 DEF Around
      <4>2. Parent(q) # q /\ Parent(q) # c
        BY <1>3, <2>4, <3>1, <3>2
      <4>3. QED
        BY <2>3, <3>1, <3>2, <4>1, <4>2 DEF ParentFirst
    <3>3. CASE p = c
      BY <1>1, <1>3, <2>1, <2>3, <3>3 DEF ParentFirst
    <3>4. CASE p # q /\ p # c /\ Parent(p) = q
      <4>1. Pv(h, c) <= Pv(h, p)
        BY <2>1, <2>4, <3>4
      <4>2. QED
        BY <2>3, <2>4, <3>4, <4>1 DEF ParentFirst
    <3>5. CASE p # q /\ p # c /\ Parent(p) # q
      BY <1>2, <2>3, <2>4, <3>1, <3>5 DEF ParentFirst
    <3>6. QED
      BY <3>2, <3>3, <3>4, <3>5
  <2>5. ASSUME NEW p \in PlacesOf(n), p # 0, Parent(p) = c PROVE Pv(g, Parent(c)) <= Pv(g, p)
    <3>1. p # c /\ p # q /\ Parent(p) # q
      BY <1>1, <1>3, <2>1, <2>2, <2>5
    <3>2. Pv(h, c) <= Pv(h, p)
      BY <1>2, <2>5, <3>1 DEF ParentFirst
    <3>3. QED
      BY <2>1, <2>3, <3>1, <3>2
  <2>6. DownFrom(g, n, c)
    BY <2>4, <2>5 DEF DownFrom, Around
  <2>7. QED
    BY <2>1, <2>3, <2>6 DEF g, q
<1>6. QED
  BY <1>1, <1>4, <1>5

LEMMA SwimIs ==
  ASSUME NEW N \in Nat, NEW n \in Nat, NEW h \in Heaps(N, n), NEW id \in PlacesOf(N), h.elements[id].pv # Absent
  PROVE  \E f \in [0 .. n -> Rearrangements(h, N, n)] :
           /\ f[0] = h
           /\ \A k \in 1 .. n : f[k] = Heap!SwimStep(f[k - 1], id)
           /\ Heap!Swim(h, id) = f[n]
<1> DEFINE V == Rearrangements(h, N, n)
           F == [k \in 1 .. n |-> [g \in V |-> Heap!SwimStep(g, id)]]
           Is(f) == f = [k \in 0 .. n |-> IF k = 0 THEN h ELSE Heap!SwimStep(f[k - 1], id)]
           x == CHOOSE f : Is(f)
<1>1. h \in V
  BY DEF Rearrangements, Rearranged
<1>2. ASSUME NEW g \in V PROVE Heap!SwimStep(g, id) \in V
  <2>1. g \in Heaps(N, n) /\ Rearranged(h, g, N) /\ g.elements[id].pv # Absent
    BY DEF Rearrangements, Rearranged
  <2>2. Heap!SwimStep(g, id) \in Rearrangements(g, N, n)
    BY <2>1, SwimStepTrades
  <2>3. QED
    BY <2>1, <2>2, RearrangedAgain DEF Rearrangements
<1>3. F \in [1 .. n -> [V -> V]]
  BY <1>2
<1> HIDE DEF V
<1>4. PICK f \in [0 .. n -> V] : f[0] = h /\ \A k \in 1 .. n : f[k] = F[k][f[k - 1]]
  <2> HIDE DEF F
  <2>1. \E f \in [0 .. n -> V] : Recursively(f, n, h, F)
    BY <1>1, <1>3, FunctionByRecursion
  <2> QED BY <2>1 DEF Recursively
<1>5. ASSUME NEW k \in 1 .. n PROVE k - 1 \in 0 .. n /\ f[k - 1] \in V /\ f[k] = Heap!SwimStep(f[k - 1], id)
  <2>1. k - 1 \in 0 .. n
    OBVIOUS
  <2>2. f[k - 1] \in V
    BY <2>1
  <2>3. F[k][f[k - 1]] = Heap!SwimStep(f[k - 1], id)
    BY <2>2
  <2>4. QED
    BY <1>4, <2>1, <2>2, <2>3
<1>6. Is(f)
  <2>1. ASSUME NEW k \in 0 .. n PROVE f[k] = IF k = 0 THEN h ELSE Heap!SwimStep(f[k - 1], id)
    <3>1. k = 0 \/ k \in 1 .. n
      OBVIOUS
    <3>2. QED
      BY <1>4, <1>5, <3>1
  <2>2. f = [k \in 0 .. n |-> f[k]]
    OBVIOUS
  <2>3. QED
    BY <2>1, <2>2
<1>7. Is(x)
  <2> HIDE DEF Is
  <2> QED BY <1>6
<1>8. Heap!Swim(h, id) = x[n]
  <2>1. Heap!Cardinality(DOMAIN h.ordering) = n
    BY SameOperators, HeapOf, HowManyFromZero
  <2>2. QED
    BY <2>1 DEF Heap!Swim
<1> HIDE DEF x
<1>9. x[0] = h /\ \A k \in 1 .. n : x[k] = Heap!SwimStep(x[k - 1], id)
  BY <1>7
<1>10. x \in [0 .. n -> V]
  <2> DEFINE D == {k \in Nat : k <= n => x[k] \in V}
  <2>1. 0 \in D
    BY <1>1, <1>9
  <2>2. ASSUME NEW k \in Nat, k \in D PROVE k + 1 \in D
    <3>1. SUFFICES ASSUME k + 1 <= n PROVE x[k + 1] \in V
      OBVIOUS
    <3>2. k + 1 \in 1 .. n /\ k + 1 - 1 = k /\ k <= n
      BY <3>1
    <3>3. x[k] \in V /\ x[k + 1] = Heap!SwimStep(x[k], id)
      BY <1>9, <2>2, <3>2
    <3>4. QED
      BY <1>2, <3>3
  <2>3. Nat \subseteq D
    <3> HIDE DEF D
    <3> QED BY <2>1, <2>2, SetInduction
  <2>4. \A k \in 0 .. n : x[k] \in V
    BY <2>3
  <2>5. x = [k \in 0 .. n |-> x[k]]
    BY <1>7
  <2>6. QED
    BY <2>4, <2>5
<1>11. QED
  BY <1>8, <1>9, <1>10 DEF V

LEMMA SinkIs ==
  ASSUME NEW N \in Nat, NEW n \in Nat, NEW h \in Heaps(N, n), NEW id \in PlacesOf(N), h.elements[id].pv # Absent
  PROVE  \E f \in [0 .. n -> Rearrangements(h, N, n)] :
           /\ f[0] = h
           /\ \A k \in 1 .. n : f[k] = Heap!SinkStep(f[k - 1], id)
           /\ Heap!Sink(h, id) = f[n]
<1> DEFINE V == Rearrangements(h, N, n)
           F == [k \in 1 .. n |-> [g \in V |-> Heap!SinkStep(g, id)]]
           Is(f) == f = [k \in 0 .. n |-> IF k = 0 THEN h ELSE Heap!SinkStep(f[k - 1], id)]
           x == CHOOSE f : Is(f)
<1>1. h \in V
  BY DEF Rearrangements, Rearranged
<1>2. ASSUME NEW g \in V PROVE Heap!SinkStep(g, id) \in V
  <2>1. g \in Heaps(N, n) /\ Rearranged(h, g, N) /\ g.elements[id].pv # Absent
    BY DEF Rearrangements, Rearranged
  <2>2. Heap!SinkStep(g, id) \in Rearrangements(g, N, n)
    BY <2>1, SinkStepTrades
  <2>3. QED
    BY <2>1, <2>2, RearrangedAgain DEF Rearrangements
<1>3. F \in [1 .. n -> [V -> V]]
  BY <1>2
<1> HIDE DEF V
<1>4. PICK f \in [0 .. n -> V] : f[0] = h /\ \A k \in 1 .. n : f[k] = F[k][f[k - 1]]
  <2> HIDE DEF F
  <2>1. \E f \in [0 .. n -> V] : Recursively(f, n, h, F)
    BY <1>1, <1>3, FunctionByRecursion
  <2> QED BY <2>1 DEF Recursively
<1>5. ASSUME NEW k \in 1 .. n PROVE k - 1 \in 0 .. n /\ f[k - 1] \in V /\ f[k] = Heap!SinkStep(f[k - 1], id)
  <2>1. k - 1 \in 0 .. n
    OBVIOUS
  <2>2. f[k - 1] \in V
    BY <2>1
  <2>3. F[k][f[k - 1]] = Heap!SinkStep(f[k - 1], id)
    BY <2>2
  <2>4. QED
    BY <1>4, <2>1, <2>2, <2>3
<1>6. Is(f)
  <2>1. ASSUME NEW k \in 0 .. n PROVE f[k] = IF k = 0 THEN h ELSE Heap!SinkStep(f[k - 1], id)
    <3>1. k = 0 \/ k \in 1 .. n
      OBVIOUS
    <3>2. QED
      BY <1>4, <1>5, <3>1
  <2>2. f = [k \in 0 .. n |-> f[k]]
    OBVIOUS
  <2>3. QED
    BY <2>1, <2>2
<1>7. Is(x)
  <2> HIDE DEF Is
  <2> QED BY <1>6
<1>8. Heap!Sink(h, id) = x[n]
  <2>1. Heap!Cardinality(DOMAIN h.ordering) = n
    BY SameOperators, HeapOf, HowManyFromZero
  <2>2. QED
    BY <2>1 DEF Heap!Sink
<1> HIDE DEF x
<1>9. x[0] = h /\ \A k \in 1 .. n : x[k] = Heap!SinkStep(x[k - 1], id)
  BY <1>7
<1>10. x \in [0 .. n -> V]
  <2> DEFINE D == {k \in Nat : k <= n => x[k] \in V}
  <2>1. 0 \in D
    BY <1>1, <1>9
  <2>2. ASSUME NEW k \in Nat, k \in D PROVE k + 1 \in D
    <3>1. SUFFICES ASSUME k + 1 <= n PROVE x[k + 1] \in V
      OBVIOUS
    <3>2. k + 1 \in 1 .. n /\ k + 1 - 1 = k /\ k <= n
      BY <3>1
    <3>3. x[k] \in V /\ x[k + 1] = Heap!SinkStep(x[k], id)
      BY <1>9, <2>2, <3>2
    <3>4. QED
      BY <1>2, <3>3
  <2>3. Nat \subseteq D
    <3> HIDE DEF D
    <3> QED BY <2>1, <2>2, SetInduction
  <2>4. \A k \in 0 .. n : x[k] \in V
    BY <2>3
  <2>5. x = [k \in 0 .. n |-> x[k]]
    BY <1>7
  <2>6. QED
    BY <2>4, <2>5
<1>11. QED
  BY <1>8, <1>9, <1>10 DEF V


(***************************************************************************)
(* swim() and sink() rearrange the heap, and put it in order.              *)
(***************************************************************************)
LEMMA SwimOrders ==
  ASSUME NEW N \in Nat, NEW n \in Nat, NEW h \in Heaps(N, n), NEW id \in PlacesOf(N), h.elements[id].pv # Absent,
         UpFrom(h, n, h.elements[id].index)
  PROVE  Heap!Swim(h, id) \in Rearrangements(h, N, n) /\ AllInOrder(Heap!Swim(h, id), n)
<1> DEFINE V == Rearrangements(h, N, n)
           At(g) == g.elements[id].index
           Ordered(g) == AllInOrder(g, n) /\ Heap!SwimStep(g, id) = g
           OnTheWay(g, k) == UpFrom(g, n, At(g)) /\ At(g) + k <= n
<1>1. PICK f \in [0 .. n -> V] :
           /\ f[0] = h
           /\ \A k \in 1 .. n : f[k] = Heap!SwimStep(f[k - 1], id)
           /\ Heap!Swim(h, id) = f[n]
  BY SwimIs
<1>2. ASSUME NEW g \in V
      PROVE  g \in Heaps(N, n) /\ g.elements[id].pv # Absent /\ At(g) \in Nat /\ At(g) < n
  <2>1. g \in Heaps(N, n) /\ g.elements[id].pv # Absent
    BY DEF Rearrangements, Rearranged
  <2>2. At(g) \in PlacesOf(n)
    BY <2>1, HeapOf
  <2> HIDE DEF At
  <2>3. QED
    BY <2>1, <2>2 DEF PlacesOf
<1> DEFINE D == {k \in Nat : k <= n => Ordered(f[k]) \/ OnTheWay(f[k], k)}
<1>3. 0 \in D
  <2>1. At(h) \in Nat /\ At(h) < n
    BY <1>2 DEF Rearrangements, Rearranged
  <2> HIDE DEF At
  <2>2. At(h) + 0 <= n
    BY <2>1
  <2>3. OnTheWay(f[0], 0)
    BY <1>1, <2>2 DEF At
  <2> HIDE DEF OnTheWay
  <2>4. QED
    BY <2>3
<1>4. ASSUME NEW k \in Nat, k \in D PROVE k + 1 \in D
  <2>1. SUFFICES ASSUME k + 1 <= n PROVE Ordered(f[k + 1]) \/ OnTheWay(f[k + 1], k + 1)
    <3> HIDE DEF Ordered, OnTheWay
    <3> QED OBVIOUS
  <2>2. k + 1 \in 1 .. n /\ k + 1 - 1 = k /\ k \in 0 .. n /\ k + 1 \in 0 .. n
    BY <2>1
  <2>3. f[k + 1] = Heap!SwimStep(f[k], id) /\ f[k] \in V /\ f[k + 1] \in V
    BY <1>1, <2>2
  <2>4. Ordered(f[k]) \/ OnTheWay(f[k], k)
    <3> HIDE DEF Ordered, OnTheWay
    <3> QED BY <1>4, <2>1
  <2>5. CASE Ordered(f[k])
    BY <2>3, <2>5
  <2>6. CASE OnTheWay(f[k], k)
    <3>1. f[k] \in Heaps(N, n) /\ f[k].elements[id].pv # Absent
      BY <1>2, <2>3
    <3>2. UpFrom(f[k], n, f[k].elements[id].index)
      BY <2>6
    <3>3. \/ f[k + 1] = f[k] /\ AllInOrder(f[k], n)
          \/ UpFrom(f[k + 1], n, At(f[k + 1])) /\ At(f[k + 1]) < At(f[k])
      BY <2>3, <3>1, <3>2, SwimStepOrders
    <3>4. At(f[k]) \in Nat /\ At(f[k + 1]) \in Nat
      BY <1>2, <2>3
    <3>5. CASE f[k + 1] = f[k] /\ AllInOrder(f[k], n)
      BY <2>3, <3>5
    <3>6. CASE UpFrom(f[k + 1], n, At(f[k + 1])) /\ At(f[k + 1]) < At(f[k])
      <4>1. At(f[k]) + k <= n
        BY <2>6
      <4> HIDE DEF At
      <4>2. At(f[k + 1]) + (k + 1) <= n
        BY <3>4, <3>6, <4>1
      <4>3. QED
        BY <3>6, <4>2
    <3>7. QED
      BY <3>3, <3>5, <3>6
  <2>7. QED
    BY <2>4, <2>5, <2>6
<1>5. Ordered(f[n]) \/ OnTheWay(f[n], n)
  <2> HIDE DEF Ordered, OnTheWay
  <2>1. Nat \subseteq D
    <3> HIDE DEF D
    <3> QED BY <1>3, <1>4, SetInduction
  <2>2. QED
    BY <2>1
<1>6. n \in 0 .. n /\ f[n] \in V
  OBVIOUS
<1>7. CASE OnTheWay(f[n], n)
  <2>1. At(f[n]) \in Nat /\ At(f[n]) + n <= n /\ At(f[n]) < n
    BY <1>2, <1>6, <1>7
  <2>2. At(f[n]) = 0
    <3> HIDE DEF At
    <3> QED BY <2>1
  <2>3. AllInOrder(f[n], n)
    BY <1>7, <2>2 DEF UpFrom, AllInOrder
  <2>4. QED
    BY <1>1, <1>6, <2>3
<1>8. QED
  BY <1>1, <1>5, <1>6, <1>7

\* Where swim() finds nothing to do it leaves the heap as it is.
LEMMA SwimStays ==
  ASSUME NEW N \in Nat, NEW n \in Nat, NEW h \in Heaps(N, n), NEW id \in PlacesOf(N), h.elements[id].pv # Absent,
         Heap!SwimStep(h, id) = h
  PROVE  Heap!Swim(h, id) = h
<1>1. PICK f \in [0 .. n -> Rearrangements(h, N, n)] :
           /\ f[0] = h
           /\ \A k \in 1 .. n : f[k] = Heap!SwimStep(f[k - 1], id)
           /\ Heap!Swim(h, id) = f[n]
  BY SwimIs
<1> DEFINE D == {k \in Nat : k <= n => f[k] = h}
<1>2. 0 \in D
  BY <1>1
<1>3. ASSUME NEW k \in Nat, k \in D PROVE k + 1 \in D
  <2>1. SUFFICES ASSUME k + 1 <= n PROVE f[k + 1] = h
    OBVIOUS
  <2>2. k + 1 \in 1 .. n /\ k + 1 - 1 = k /\ k <= n
    BY <2>1
  <2>3. f[k + 1] = Heap!SwimStep(f[k], id) /\ f[k] = h
    BY <1>1, <1>3, <2>2
  <2>4. QED
    BY <2>3
<1>4. Nat \subseteq D
  <2> HIDE DEF D
  <2> QED BY <1>2, <1>3, SetInduction
<1>5. QED
  BY <1>1, <1>4

LEMMA SinkOrders ==
  ASSUME NEW N \in Nat, NEW n \in Nat, NEW h \in Heaps(N, n), NEW id \in PlacesOf(N), h.elements[id].pv # Absent,
         DownFrom(h, n, h.elements[id].index)
  PROVE  Heap!Sink(h, id) \in Rearrangements(h, N, n) /\ AllInOrder(Heap!Sink(h, id), n)
<1> DEFINE V == Rearrangements(h, N, n)
           At(g) == g.elements[id].index
           Ordered(g) == AllInOrder(g, n) /\ Heap!SinkStep(g, id) = g
           OnTheWay(g, k) == DownFrom(g, n, At(g)) /\ k <= At(g)
<1>1. PICK f \in [0 .. n -> V] :
           /\ f[0] = h
           /\ \A k \in 1 .. n : f[k] = Heap!SinkStep(f[k - 1], id)
           /\ Heap!Sink(h, id) = f[n]
  BY SinkIs
<1>2. ASSUME NEW g \in V
      PROVE  g \in Heaps(N, n) /\ g.elements[id].pv # Absent /\ At(g) \in Nat /\ At(g) < n
  <2>1. g \in Heaps(N, n) /\ g.elements[id].pv # Absent
    BY DEF Rearrangements, Rearranged
  <2>2. At(g) \in PlacesOf(n)
    BY <2>1, HeapOf
  <2> HIDE DEF At
  <2>3. QED
    BY <2>1, <2>2 DEF PlacesOf
<1> DEFINE D == {k \in Nat : k <= n => Ordered(f[k]) \/ OnTheWay(f[k], k)}
<1>3. 0 \in D
  <2>1. At(h) \in Nat
    BY <1>2 DEF Rearrangements, Rearranged
  <2> HIDE DEF At
  <2>2. 0 <= At(h)
    BY <2>1
  <2>3. OnTheWay(f[0], 0)
    BY <1>1, <2>2 DEF At
  <2> HIDE DEF OnTheWay
  <2>4. QED
    BY <2>3
<1>4. ASSUME NEW k \in Nat, k \in D PROVE k + 1 \in D
  <2>1. SUFFICES ASSUME k + 1 <= n PROVE Ordered(f[k + 1]) \/ OnTheWay(f[k + 1], k + 1)
    <3> HIDE DEF Ordered, OnTheWay
    <3> QED OBVIOUS
  <2>2. k + 1 \in 1 .. n /\ k + 1 - 1 = k /\ k \in 0 .. n /\ k + 1 \in 0 .. n
    BY <2>1
  <2>3. f[k + 1] = Heap!SinkStep(f[k], id) /\ f[k] \in V /\ f[k + 1] \in V
    BY <1>1, <2>2
  <2>4. Ordered(f[k]) \/ OnTheWay(f[k], k)
    <3> HIDE DEF Ordered, OnTheWay
    <3> QED BY <1>4, <2>1
  <2>5. CASE Ordered(f[k])
    BY <2>3, <2>5
  <2>6. CASE OnTheWay(f[k], k)
    <3>1. f[k] \in Heaps(N, n) /\ f[k].elements[id].pv # Absent
      BY <1>2, <2>3
    <3>2. DownFrom(f[k], n, f[k].elements[id].index)
      BY <2>6
    <3>3. \/ f[k + 1] = f[k] /\ AllInOrder(f[k], n)
          \/ DownFrom(f[k + 1], n, At(f[k + 1])) /\ At(f[k + 1]) > At(f[k])
      BY <2>3, <3>1, <3>2, SinkStepOrders
    <3>4. At(f[k]) \in Nat /\ At(f[k + 1]) \in Nat
      BY <1>2, <2>3
    <3>5. CASE f[k + 1] = f[k] /\ AllInOrder(f[k], n)
      BY <2>3, <3>5
    <3>6. CASE DownFrom(f[k + 1], n, At(f[k + 1])) /\ At(f[k + 1]) > At(f[k])
      <4>1. k <= At(f[k])
        BY <2>6
      <4> HIDE DEF At
      <4>2. k + 1 <= At(f[k + 1])
        BY <3>4, <3>6, <4>1
      <4>3. QED
        BY <3>6, <4>2
    <3>7. QED
      BY <3>3, <3>5, <3>6
  <2>7. QED
    BY <2>4, <2>5, <2>6
<1>5. Ordered(f[n]) \/ OnTheWay(f[n], n)
  <2> HIDE DEF Ordered, OnTheWay
  <2>1. Nat \subseteq D
    <3> HIDE DEF D
    <3> QED BY <1>3, <1>4, SetInduction
  <2>2. QED
    BY <2>1
<1>6. n \in 0 .. n /\ f[n] \in V
  OBVIOUS
<1>7. ~OnTheWay(f[n], n)
  <2>1. At(f[n]) \in Nat /\ At(f[n]) < n
    BY <1>2, <1>6
  <2> HIDE DEF At
  <2>2. QED
    BY <2>1
<1>8. QED
  BY <1>1, <1>5, <1>6, <1>7

-----------------------------------------------------------------------------
(***************************************************************************)
(* A heap in order, of which the other ids are on the free stack.          *)
(***************************************************************************)
FreeIn(h, N) == {i \in PlacesOf(N) : h.elements[i].pv = Absent}
IndexOf(h, N) == [i \in PlacesOf(N) |-> h.elements[i].index]

HeapFits(h, top, N, n) ==
  /\ N \in Nat /\ n \in Nat /\ N <= MaxElements
  /\ h \in Heaps(N, n) /\ AllInOrder(h, n)
  /\ Stacked(IndexOf(h, N), top, FreeIn(h, N))

LEMMA NotAPlace == \A n : -1 \notin PlacesOf(n)
BY DEF PlacesOf

\* While an id is not in the heap there is room for it.
LEMMA RoomFor ==
  ASSUME NEW N \in Nat, NEW n \in Nat, NEW h \in Heaps(N, n), NEW id \in PlacesOf(N), h.elements[id].pv = Absent
  PROVE  n \in PlacesOf(N)
<1> DEFINE S == PlacesOf(N) \ {id}
<1>1. h.ordering \in Injection(PlacesOf(n), S)
  <2>1. \A p \in PlacesOf(n) : h.ordering[p] \in S
    BY HeapOf
  <2>2. \A p, q \in PlacesOf(n) : h.ordering[p] = h.ordering[q] => p = q
    BY HeapOf
  <2>3. h.ordering = [p \in PlacesOf(n) |-> h.ordering[p]]
    BY DEF Heaps
  <2> HIDE DEF S
  <2>4. QED
    BY <2>1, <2>2, <2>3 DEF Injection, IsInjective
<1>2. IsFiniteSet(S) /\ Cardinality(S) = N - 1
  BY HowManyFromZero, FS_RemoveElement
<1>3. IsFiniteSet(PlacesOf(n)) /\ Cardinality(PlacesOf(n)) = n
  BY HowManyFromZero
<1> HIDE DEF S
<1>4. n <= N - 1
  BY <1>1, <1>2, <1>3, FS_Injection
<1>5. QED
  BY <1>4 DEF PlacesOf

\* What swim() and sink() do to the heap, the free ids do not see.
LEMMA RearrangedFits ==
  ASSUME NEW N \in Nat, NEW n \in Nat, N <= MaxElements, NEW h \in Heaps(N, n), NEW top,
         Stacked(IndexOf(h, N), top, FreeIn(h, N)),
         NEW g \in Rearrangements(h, N, n), AllInOrder(g, n)
  PROVE  HeapFits(g, top, N, n)
<1>1. g \in Heaps(N, n) /\ Rearranged(h, g, N)
  BY DEF Rearrangements
<1>2. FreeIn(g, N) = FreeIn(h, N)
  BY <1>1 DEF Rearranged, FreeIn
<1>3. \A i \in FreeIn(h, N) : IndexOf(g, N)[i] = IndexOf(h, N)[i]
  BY <1>1 DEF Rearranged, FreeIn, IndexOf
<1>4. DOMAIN IndexOf(h, N) = PlacesOf(N) /\ DOMAIN IndexOf(g, N) = PlacesOf(N)
  BY DEF IndexOf
<1>5. Stacked(IndexOf(g, N), top, FreeIn(h, N))
  BY <1>3, <1>4, SameStack
<1>6. QED
  BY <1>1, <1>2, <1>5 DEF HeapFits

(***************************************************************************)
(* An element is added.                                                    *)
(***************************************************************************)
NewId(top, N) == IF top # -1 THEN top ELSE N
NewN(top, N) == IF top # -1 THEN N ELSE N + 1
NewTop(h, top) == IF top # -1 THEN h.elements[top].index ELSE top

WithNew(h, top, N, n, p) ==
  [elements |-> [i \in PlacesOf(N) \cup {NewId(top, N)} |->
                   IF i = NewId(top, N) THEN [index |-> n, pv |-> p] ELSE h.elements[i]],
   ordering |-> [i \in 0 .. n |-> IF i = n THEN NewId(top, N) ELSE h.ordering[i]]]

LEMMA AddedFits ==
  ASSUME NEW h, NEW top, NEW N, NEW n, HeapFits(h, top, N, n), NEW p \in Priorities, NewId(top, N) < MaxElements
  PROVE  LET id == NewId(top, N)
             g  == Heap!Swim(WithNew(h, top, N, n, p), id)
         IN
         /\ HeapFits(g, NewTop(h, top), NewN(top, N), n + 1)
         /\ id \in PlacesOf(NewN(top, N)) /\ id \notin {i \in PlacesOf(N) : h.elements[i].pv # Absent}
         /\ top = -1 <=> \A i \in PlacesOf(N) : h.elements[i].pv # Absent
         /\ \A i \in PlacesOf(NewN(top, N)) : g.elements[i].pv = IF i = id THEN p ELSE h.elements[i].pv
<1> DEFINE id == NewId(top, N)
           new == WithNew(h, top, N, n, p)
           M == NewN(top, N)
           E == [index : PlacesOf(M) \cup {-1}, pv : Priorities \cup {Absent}]
<1>1. /\ N \in Nat /\ n \in Nat /\ N <= MaxElements /\ h \in Heaps(N, n) /\ AllInOrder(h, n)
      /\ Stacked(IndexOf(h, N), top, FreeIn(h, N)) /\ DOMAIN IndexOf(h, N) = PlacesOf(N)
      /\ MaxElements \in Nat /\ Priorities \subseteq Int /\ Absent \notin Int
  BY PartsAssumption, PartsTypes DEF HeapFits, IndexOf
<1>2. /\ top = -1 <=> FreeIn(h, N) = {}
      /\ top # -1 => top \in FreeIn(h, N) /\ Stacked(IndexOf(h, N), IndexOf(h, N)[top], FreeIn(h, N) \ {top})
  BY <1>1, NotAPlace, PoppedFrom
<1>3. top = -1 <=> \A i \in PlacesOf(N) : h.elements[i].pv # Absent
  BY <1>2 DEF FreeIn
<1>4. top # -1 => id = top /\ M = N /\ top \in PlacesOf(N) /\ h.elements[top].pv = Absent
  BY <1>2 DEF NewId, NewN, FreeIn
<1>5. top = -1 => id = N /\ M = N + 1
  BY DEF NewId, NewN
<1>6. /\ M \in Nat /\ M <= MaxElements /\ id \in PlacesOf(M) /\ PlacesOf(M) = PlacesOf(N) \cup {id}
      /\ \A i \in PlacesOf(M) : i # id => i \in PlacesOf(N)
      /\ id \notin {i \in PlacesOf(N) : h.elements[i].pv # Absent}
  <2>1. CASE top # -1
    <3>1. id = top /\ M = N /\ top \in PlacesOf(N) /\ h.elements[top].pv = Absent
      BY <1>4, <2>1
    <3> HIDE DEF id, M
    <3>2. QED
      BY <1>1, <3>1
  <2>2. CASE top = -1
    <3>1. id = N /\ M = N + 1
      BY <1>5, <2>2
    <3>2. id < MaxElements
      OBVIOUS
    <3> HIDE DEF id, M
    <3>3. QED
      BY <1>1, <3>1, <3>2 DEF PlacesOf
  <2>3. QED
    BY <2>1, <2>2
<1>7. n \in PlacesOf(M)
  <2>1. CASE top # -1
    BY <1>1, <1>4, <2>1, RoomFor
  <2>2. CASE top = -1
    <3>1. h.ordering \in Injection(PlacesOf(n), PlacesOf(N))
      <4>1. \A q \in PlacesOf(n) : h.ordering[q] \in PlacesOf(N)
        BY <1>1, HeapOf
      <4>2. \A r, q \in PlacesOf(n) : h.ordering[r] = h.ordering[q] => r = q
        BY <1>1, HeapOf
      <4>3. h.ordering = [q \in PlacesOf(n) |-> h.ordering[q]]
        BY <1>1 DEF Heaps
      <4>4. QED
        BY <4>1, <4>2, <4>3 DEF Injection, IsInjective
    <3>2. IsFiniteSet(PlacesOf(N)) /\ Cardinality(PlacesOf(N)) = N
      BY <1>1, HowManyFromZero
    <3>3. IsFiniteSet(PlacesOf(n)) /\ Cardinality(PlacesOf(n)) = n
      BY <1>1, HowManyFromZero
    <3>4. n <= N
      BY <3>1, <3>2, <3>3, FS_Injection
    <3>5. QED
      BY <1>1, <1>5, <2>2, <3>4 DEF PlacesOf
  <2>3. QED
    BY <2>1, <2>2
<1>8. PlacesOf(n + 1) = 0 .. n /\ \A i \in PlacesOf(n + 1) : i = n \/ (i # n /\ i \in PlacesOf(n))
  BY <1>1 DEF PlacesOf
<1>9. n \notin PlacesOf(n) /\ PlacesOf(n) \subseteq PlacesOf(n + 1) /\ n \in PlacesOf(n + 1)
  BY <1>1 DEF PlacesOf
<1> DEFINE es == new.elements
           ord == new.ordering
<1>10. /\ new = [elements |-> es, ordering |-> ord]
       /\ DOMAIN es = PlacesOf(M) /\ DOMAIN ord = PlacesOf(n + 1)
       /\ es = [i \in PlacesOf(M) |-> es[i]] /\ ord = [i \in PlacesOf(n + 1) |-> ord[i]]
       /\ \A i \in PlacesOf(M) : es[i] = IF i = id THEN [index |-> n, pv |-> p] ELSE h.elements[i]
       /\ \A i \in PlacesOf(n + 1) : ord[i] = IF i = n THEN id ELSE h.ordering[i]
  BY <1>6, <1>8 DEF WithNew
<1> HIDE DEF new, es, ord, id, M
<1>20. es[id].index = n /\ es[id].pv = p /\ p # Absent
  <2>1. p # Absent
    BY PartsAssumption
  <2>2. es[id] = [index |-> n, pv |-> p]
    BY <1>6, <1>10
  <2>3. QED
    BY <2>1, <2>2
<1>11. \A i \in PlacesOf(M) : es[i] \in E
  <2> SUFFICES ASSUME NEW i \in PlacesOf(M) PROVE es[i] \in E
    OBVIOUS
  <2>1. CASE i = id
    BY <1>7, <1>10, <2>1
  <2>2. CASE i # id
    <3>1. i \in PlacesOf(N) /\ es[i] = h.elements[i]
      BY <1>6, <1>10, <2>2
    <3>2. h.elements[i] \in [index : PlacesOf(N) \cup {-1}, pv : Priorities \cup {Absent}]
      BY <1>1, <3>1, HeapOf
    <3>3. PlacesOf(N) \subseteq PlacesOf(M)
      BY <1>6
    <3>4. QED
      BY <3>1, <3>2, <3>3
  <2>3. QED
    BY <2>1, <2>2
<1>12. ASSUME NEW r \in PlacesOf(n)
       PROVE  /\ h.ordering[r] \in PlacesOf(M) /\ h.ordering[r] # id /\ h.elements[h.ordering[r]].index = r
              /\ h.elements[h.ordering[r]].pv # Absent /\ es[h.ordering[r]] = h.elements[h.ordering[r]]
              /\ ord[r] = h.ordering[r] /\ Pv(new, r) = Pv(h, r)
  <2>1. /\ h.ordering[r] \in PlacesOf(N) /\ h.elements[h.ordering[r]].index = r
        /\ h.elements[h.ordering[r]].pv # Absent
    BY <1>1, HeapOf
  <2>2. h.ordering[r] \in PlacesOf(M) /\ h.ordering[r] # id
    BY <1>6, <2>1
  <2>3. es[h.ordering[r]] = h.elements[h.ordering[r]]
    BY <1>10, <2>2
  <2>4. r \in PlacesOf(n + 1) /\ r # n
    BY <1>9
  <2>5. ord[r] = h.ordering[r]
    BY <1>10, <2>4
  <2>6. QED
    BY <2>1, <2>2, <2>3, <2>5 DEF Pv, es, ord
<1>13. new \in Heaps(M, n + 1)
  <2>1. \A r \in PlacesOf(n + 1) : ord[r] \in PlacesOf(M) /\ es[ord[r]].index = r /\ es[ord[r]].pv # Absent
    <3> SUFFICES ASSUME NEW r \in PlacesOf(n + 1)
                 PROVE  ord[r] \in PlacesOf(M) /\ es[ord[r]].index = r /\ es[ord[r]].pv # Absent
      OBVIOUS
    <3>1. CASE r = n
      BY <1>6, <1>9, <1>10, <1>20, <3>1
    <3>2. CASE r # n
      BY <1>8, <1>12, <3>2
    <3>3. QED
      BY <3>1, <3>2
  <2>2. ASSUME NEW i \in PlacesOf(M), es[i].pv # Absent
        PROVE  es[i].index \in PlacesOf(n + 1) /\ ord[es[i].index] = i
    <3>1. CASE i = id
      BY <1>9, <1>10, <3>1
    <3>2. CASE i # id
      <4>1. i \in PlacesOf(N) /\ es[i] = h.elements[i]
        BY <1>6, <1>10, <3>2
      <4>2. h.elements[i].index \in PlacesOf(n) /\ h.ordering[h.elements[i].index] = i
        BY <1>1, <2>2, <4>1, HeapOf
      <4>3. QED
        BY <1>9, <1>12, <4>1, <4>2
    <3>3. QED
      BY <3>1, <3>2
  <2>3. es \in [PlacesOf(M) -> E] /\ ord \in [PlacesOf(n + 1) -> PlacesOf(M)]
    BY <1>10, <1>11, <2>1
  <2>4. new \in [elements : [PlacesOf(M) -> E], ordering : [PlacesOf(n + 1) -> PlacesOf(M)]]
    BY <1>10, <2>3
  <2>5. QED
    BY <2>1, <2>2, <2>4 DEF Heaps, es, ord
<1>14. UpFrom(new, n + 1, n) /\ es[id].index = n /\ es[id].pv # Absent
  <2>1. \A r \in PlacesOf(n + 1) : r # 0 => Parent(r) \in PlacesOf(n)
    <3> SUFFICES ASSUME NEW r \in PlacesOf(n + 1), r # 0 PROVE Parent(r) \in PlacesOf(n)
      OBVIOUS
    <3>1. n + 1 \in Nat
      BY <1>1
    <3>2. Parent(r) \in PlacesOf(n + 1) /\ Parent(r) < r
      BY <3>1, ParentIs
    <3>3. QED
      BY <1>1, <3>2 DEF PlacesOf
  <2>2. Around(new, n + 1, n)
    BY <1>9, <2>1 DEF Around
  <2>3. ASSUME NEW r \in PlacesOf(n + 1), r # 0, r # n PROVE ParentFirst(new, r)
    <3>1. r \in PlacesOf(n) /\ Parent(r) \in PlacesOf(n)
      BY <1>8, <2>1, <2>3
    <3>2. ParentFirst(h, r)
      BY <1>1, <2>3, <3>1 DEF AllInOrder
    <3>3. QED
      BY <1>12, <3>1, <3>2 DEF ParentFirst
  <2>4. QED
    BY <1>20, <2>2, <2>3 DEF UpFrom
<1> DEFINE g == Heap!Swim(new, id)
<1>15. g \in Rearrangements(new, M, n + 1) /\ AllInOrder(g, n + 1)
  <2>1. new.elements[id].index = n /\ new.elements[id].pv # Absent
    BY <1>14 DEF es
  <2>2. n + 1 \in Nat /\ UpFrom(new, n + 1, new.elements[id].index)
    BY <1>1, <1>14, <2>1
  <2>3. QED
    BY <1>6, <1>13, <2>1, <2>2, SwimOrders
<1> HIDE DEF g
<1>16. Stacked(IndexOf(new, M), NewTop(h, top), FreeIn(new, M))
  <2>1. DOMAIN IndexOf(new, M) = PlacesOf(M) /\ \A i \in PlacesOf(M) : IndexOf(new, M)[i] = es[i].index
    BY DEF IndexOf, es
  <2>2. FreeIn(new, M) = FreeIn(h, N) \ {id}
    <3>1. FreeIn(new, M) = {i \in PlacesOf(M) : es[i].pv = Absent}
      BY DEF FreeIn, es
    <3>2. ASSUME NEW i \in PlacesOf(M), i # id PROVE i \in PlacesOf(N) /\ es[i].pv = h.elements[i].pv
      BY <1>6, <1>10, <3>2
    <3>3. QED
      BY <1>6, <1>20, <3>1, <3>2 DEF FreeIn
  <2>3. CASE top # -1
    <3>1. /\ NewTop(h, top) = IndexOf(h, N)[top]
          /\ Stacked(IndexOf(h, N), NewTop(h, top), FreeIn(h, N) \ {id})
      BY <1>2, <1>4, <2>3 DEF NewTop, IndexOf, id
    <3>2. \A i \in FreeIn(h, N) \ {id} : IndexOf(new, M)[i] = IndexOf(h, N)[i]
      BY <1>6, <1>10, <2>1 DEF FreeIn, IndexOf
    <3>3. DOMAIN IndexOf(h, N) \subseteq DOMAIN IndexOf(new, M)
      BY <1>1, <1>6, <2>1
    <3>4. Stacked(IndexOf(new, M), NewTop(h, top), FreeIn(h, N) \ {id})
      BY <3>1, <3>2, <3>3, SameStack
    <3>5. QED
      BY <2>2, <3>4
  <2>4. CASE top = -1
    <3>1. FreeIn(new, M) = {} /\ NewTop(h, top) = -1 /\ FreeIn(h, N) = {}
      BY <1>2, <2>2, <2>4 DEF NewTop
    <3>2. Stacked(IndexOf(h, N), -1, FreeIn(h, N))
      BY <1>1, <2>4
    <3>3. DOMAIN IndexOf(h, N) \subseteq DOMAIN IndexOf(new, M)
      BY <1>1, <1>6, <2>1
    <3>4. QED
      BY <3>1, <3>2, <3>3, SameStack
  <2>5. QED
    BY <2>3, <2>4
<1>17. HeapFits(g, NewTop(h, top), M, n + 1)
  <2>1. n + 1 \in Nat
    BY <1>1
  <2>2. QED
    BY <1>6, <1>13, <1>15, <1>16, <2>1, RearrangedFits
<1>18. \A i \in PlacesOf(M) : g.elements[i].pv = IF i = id THEN p ELSE h.elements[i].pv
  <2>1. \A i \in PlacesOf(M) : g.elements[i].pv = es[i].pv
    BY <1>15 DEF Rearrangements, Rearranged, es
  <2>2. QED
    BY <1>10, <2>1
<1>19. QED
  BY <1>3, <1>6, <1>17, <1>18 DEF g, new, id, M

(***************************************************************************)
(* An element is removed: the last one of the heap comes in its place.     *)
(***************************************************************************)
LastOf(h, n) == h.ordering[n - 1]

CutFrom(h, top, n, id) ==
  [elements |-> [h.elements EXCEPT ![LastOf(h, n)].index = h.elements[id].index,
                                   ![id] = [index |-> top, pv |-> Absent]],
   ordering |-> [i \in 0 .. n - 2 |-> IF i = h.elements[id].index THEN LastOf(h, n) ELSE h.ordering[i]]]

AfterRemoval(h, top, n, id) ==
  LET cut  == CutFrom(h, top, n, id)
      last == LastOf(h, n)
      swum == Heap!Swim(cut, last)
  IN IF last = id THEN cut ELSE IF swum # cut THEN swum ELSE Heap!Sink(cut, last)

LEMMA CutFits ==
  ASSUME NEW h, NEW top, NEW N, NEW n, HeapFits(h, top, N, n), NEW id \in PlacesOf(N), h.elements[id].pv # Absent
  PROVE  LET cut  == CutFrom(h, top, n, id)
             q    == h.elements[id].index
             last == LastOf(h, n)
         IN
         /\ n - 1 \in Nat /\ cut \in Heaps(N, n - 1)
         /\ \A i \in PlacesOf(N) : cut.elements[i].pv = IF i = id THEN Absent ELSE h.elements[i].pv
         /\ Stacked(IndexOf(cut, N), id, FreeIn(cut, N))
         /\ q \in PlacesOf(n) /\ last \in PlacesOf(N)
         /\ last = id => AllInOrder(cut, n - 1)
         /\ last # id => /\ q \in PlacesOf(n - 1)
                         /\ cut.elements[last].index = q /\ cut.elements[last].pv # Absent
                         /\ Around(cut, n - 1, q)
                         /\ \A p \in PlacesOf(n - 1) : p # 0 /\ p # q /\ Parent(p) # q => ParentFirst(cut, p)
<1> DEFINE cut == CutFrom(h, top, n, id)
           q == h.elements[id].index
           last == LastOf(h, n)
           es == cut.elements
           ord == cut.ordering
           E == [index : PlacesOf(N) \cup {-1}, pv : Priorities \cup {Absent}]
           l == n - 1
<1>1. /\ N \in Nat /\ n \in Nat /\ h \in Heaps(N, n) /\ AllInOrder(h, n)
      /\ Stacked(IndexOf(h, N), top, FreeIn(h, N)) /\ DOMAIN IndexOf(h, N) = PlacesOf(N)
  BY DEF HeapFits, IndexOf
<1>2. q \in PlacesOf(n) /\ h.ordering[q] = id
  BY <1>1, HeapOf
<1>3. /\ l \in Nat /\ l \in PlacesOf(n) /\ l \notin PlacesOf(l) /\ PlacesOf(l) = 0 .. n - 2
      /\ \A p \in PlacesOf(l) : p \in PlacesOf(n) /\ p # l
      /\ \A p \in PlacesOf(n) : p = l \/ p \in PlacesOf(l)
  BY <1>1, <1>2 DEF PlacesOf
<1>4. /\ last \in PlacesOf(N) /\ h.elements[last].index = l /\ h.elements[last].pv # Absent
      /\ last = h.ordering[l]
  BY <1>1, <1>3, HeapOf DEF LastOf
<1>5. last = id <=> q = l
  BY <1>2, <1>4
<1>6. top \in PlacesOf(N) \cup {-1}
  <2>1. top = -1 \/ top \in FreeIn(h, N)
    BY <1>1, NotAPlace, PoppedFrom
  <2>2. QED
    BY <2>1 DEF FreeIn
<1>7. /\ \A i \in PlacesOf(N) : h.elements[i] \in E
      /\ h.elements = [i \in PlacesOf(N) |-> h.elements[i]]
  BY <1>1 DEF Heaps
<1>8. /\ DOMAIN es = PlacesOf(N) /\ es = [i \in PlacesOf(N) |-> es[i]]
      /\ es[id].index = top /\ es[id].pv = Absent /\ es[id] \in E
      /\ last # id => /\ es[last] \in E /\ es[last].index = q /\ es[last].pv = h.elements[last].pv
      /\ \A i \in PlacesOf(N) : i # id /\ i # last => es[i] = h.elements[i]
  <2> DEFINE e1 == [h.elements EXCEPT ![last].index = q]
             x == [index |-> top, pv |-> Absent]
  <2>1. es = [e1 EXCEPT ![id] = x]
    BY DEF CutFrom
  <2>2. e1 = [i \in PlacesOf(N) |-> IF i = last THEN [h.elements[last] EXCEPT !.index = q] ELSE h.elements[i]]
    BY <1>4, <1>7
  <2>3. x \in E /\ x.index = top /\ x.pv = Absent
    BY <1>6
  <2> DEFINE y == [h.elements[last] EXCEPT !.index = q]
  <2>4. last # id => y \in E /\ y.index = q /\ y.pv = h.elements[last].pv
    <3>1. h.elements[last] \in E
      BY <1>4, <1>7
    <3>2. h.elements[id].index \in PlacesOf(N) \cup {-1}
      BY <1>7
    <3>3. QED
      BY <3>1, <3>2
  <2> HIDE DEF es, e1, x, y, E, last, q
  <2>5. es = [i \in PlacesOf(N) |-> IF i = id THEN x ELSE IF i = last THEN y ELSE h.elements[i]]
    BY <2>1, <2>2 DEF y
  <2>6. /\ es[id] = x
        /\ last # id => es[last] = y
        /\ \A i \in PlacesOf(N) : i # id /\ i # last => es[i] = h.elements[i]
        /\ DOMAIN es = PlacesOf(N)
    BY <1>4, <2>5
  <2>7. es = [i \in PlacesOf(N) |-> es[i]]
    BY <2>5
  <2>8. QED
    BY <2>3, <2>4, <2>6, <2>7
<1>9. /\ DOMAIN ord = PlacesOf(l) /\ ord = [i \in PlacesOf(l) |-> ord[i]]
      /\ \A i \in PlacesOf(l) : ord[i] = IF i = q THEN last ELSE h.ordering[i]
      /\ cut = [elements |-> es, ordering |-> ord]
  BY <1>3 DEF CutFrom
<1> HIDE DEF cut, q, last, es, ord, E, l
<1>10. ASSUME NEW r \in PlacesOf(l)
       PROVE  /\ ord[r] \in PlacesOf(N) /\ es[ord[r]].index = r /\ es[ord[r]].pv # Absent
              /\ Pv(cut, r) = IF r = q THEN Pv(h, l) ELSE Pv(h, r)
  <2>1. CASE r = q
    <3>1. ord[r] = last /\ last # id
      BY <1>3, <1>5, <1>9, <2>1
    <3>2. Pv(cut, r) = Pv(h, l)
      BY <1>4, <1>8, <3>1 DEF Pv, es, ord
    <3>3. QED
      BY <1>4, <1>8, <2>1, <3>1, <3>2
  <2>2. CASE r # q
    <3>1. ord[r] = h.ordering[r] /\ r \in PlacesOf(n) /\ r # l
      BY <1>3, <1>9, <2>2
    <3>2. /\ h.ordering[r] \in PlacesOf(N) /\ h.elements[h.ordering[r]].index = r
          /\ h.elements[h.ordering[r]].pv # Absent
      BY <1>1, <3>1, HeapOf
    <3>3. h.ordering[r] # id /\ h.ordering[r] # last
      BY <1>4, <2>2, <3>1, <3>2 DEF q
    <3>4. es[ord[r]] = h.elements[h.ordering[r]]
      BY <1>8, <3>1, <3>2, <3>3
    <3>5. Pv(cut, r) = Pv(h, r)
      BY <3>4 DEF Pv, es, ord
    <3>6. QED
      BY <2>2, <3>1, <3>2, <3>4, <3>5
  <2>3. QED
    BY <2>1, <2>2
<1>11. \A i \in PlacesOf(N) : es[i] \in E
  BY <1>4, <1>7, <1>8
<1>12. cut \in Heaps(N, l)
  <2>1. ASSUME NEW i \in PlacesOf(N), es[i].pv # Absent
        PROVE  es[i].index \in PlacesOf(l) /\ ord[es[i].index] = i
    <3>1. i # id
      BY <1>8, <2>1
    <3>2. CASE i = last
      <4>1. q \in PlacesOf(l) /\ es[i].index = q
        BY <1>2, <1>3, <1>5, <1>8, <3>1, <3>2
      <4>2. QED
        BY <1>9, <3>2, <4>1
    <3>3. CASE i # last
      <4>1. es[i] = h.elements[i]
        BY <1>8, <3>1, <3>3
      <4>2. h.elements[i].index \in PlacesOf(n) /\ h.ordering[h.elements[i].index] = i
        BY <1>1, <2>1, <4>1, HeapOf
      <4>3. h.elements[i].index # l /\ h.elements[i].index # q
        BY <1>2, <1>4, <3>1, <3>3, <4>2
      <4>4. QED
        BY <1>3, <1>9, <4>1, <4>2, <4>3
    <3>4. QED
      BY <3>2, <3>3
  <2>2. es \in [PlacesOf(N) -> E] /\ ord \in [PlacesOf(l) -> PlacesOf(N)]
    BY <1>8, <1>9, <1>10, <1>11
  <2>3. cut \in [elements : [PlacesOf(N) -> E], ordering : [PlacesOf(l) -> PlacesOf(N)]]
    BY <1>9, <2>2
  <2>4. QED
    BY <1>10, <2>1, <2>3 DEF Heaps, es, ord, E
<1>13. \A i \in PlacesOf(N) : es[i].pv = IF i = id THEN Absent ELSE h.elements[i].pv
  BY <1>8
<1>14. Stacked(IndexOf(cut, N), id, FreeIn(cut, N))
  <2>1. DOMAIN IndexOf(cut, N) = PlacesOf(N) /\ \A i \in PlacesOf(N) : IndexOf(cut, N)[i] = es[i].index
    BY DEF IndexOf, es
  <2>2. FreeIn(cut, N) = FreeIn(h, N) \cup {id}
    BY <1>13 DEF FreeIn, es
  <2>3. \A i \in FreeIn(h, N) : IndexOf(cut, N)[i] = IndexOf(h, N)[i]
    <3>1. \A i \in FreeIn(h, N) : i \in PlacesOf(N) /\ i # id /\ i # last
      BY <1>4 DEF FreeIn
    <3>2. QED
      BY <1>8, <2>1, <3>1 DEF IndexOf
  <2>4. id \notin FreeIn(h, N) /\ id \in DOMAIN IndexOf(cut, N) /\ IndexOf(cut, N)[id] = top
    BY <1>8, <2>1 DEF FreeIn
  <2>5. Stacked(IndexOf(cut, N), id, FreeIn(h, N) \cup {id})
    BY <1>1, <2>1, <2>3, <2>4, PushedOn
  <2>6. QED
    BY <2>2, <2>5
<1>15. \A p \in PlacesOf(n) : p \in Nat /\ Pv(h, p) \in Int /\ (p # 0 => Parent(p) \in PlacesOf(n) /\ Parent(p) < p)
  BY <1>1, HeapOf, ParentIs DEF PlacesOf
<1>16. \A p \in PlacesOf(l) : p # 0 => Parent(p) \in PlacesOf(l)
  BY <1>3, ParentIs
<1>17. ASSUME NEW p \in PlacesOf(l), p # 0, p # q, Parent(p) # q PROVE ParentFirst(cut, p)
  <2>1. p \in PlacesOf(n) /\ Parent(p) \in PlacesOf(l)
    BY <1>3, <1>16, <1>17
  <2>2. ParentFirst(h, p)
    BY <1>1, <1>17, <2>1 DEF AllInOrder
  <2>3. QED
    BY <1>10, <1>17, <2>1, <2>2 DEF ParentFirst
<1>18. ASSUME last = id PROVE AllInOrder(cut, l)
  <2>1. ASSUME NEW p \in PlacesOf(l), p # 0 PROVE ParentFirst(cut, p)
    <3>1. p # q /\ Parent(p) # q
      BY <1>3, <1>5, <1>16, <1>18, <2>1
    <3>2. QED
      BY <1>17, <2>1, <3>1
  <2>2. QED
    BY <2>1 DEF AllInOrder
<1>19. ASSUME last # id PROVE Around(cut, l, q)
  <2>1. ASSUME NEW p \in PlacesOf(l), p # 0, Parent(p) = q, q # 0 PROVE Pv(cut, Parent(q)) <= Pv(cut, p)
    <3>1. q \in PlacesOf(l) /\ p \in PlacesOf(n) /\ p # q
      BY <1>3, <1>15, <1>16, <2>1
    <3>2. Parent(q) \in PlacesOf(l) /\ Parent(q) \in PlacesOf(n) /\ Parent(q) # q
      BY <1>3, <1>15, <1>16, <2>1, <3>1
    <3>3. Pv(h, Parent(q)) <= Pv(h, q) /\ Pv(h, q) <= Pv(h, p)
      BY <1>1, <1>2, <2>1, <3>1 DEF AllInOrder, ParentFirst
    <3>4. Pv(h, Parent(q)) <= Pv(h, p)
      BY <1>2, <1>15, <3>1, <3>2, <3>3
    <3>5. Pv(cut, Parent(q)) = Pv(h, Parent(q)) /\ Pv(cut, p) = Pv(h, p)
      BY <1>10, <3>1, <3>2
    <3>6. QED
      BY <3>4, <3>5
  <2>2. QED
    BY <2>1 DEF Around
<1>20. last # id => q \in PlacesOf(l) /\ es[last].index = q /\ es[last].pv # Absent
  BY <1>2, <1>3, <1>4, <1>5, <1>8
<1>21. QED
  BY <1>2, <1>3, <1>4, <1>12, <1>13, <1>14, <1>17, <1>18, <1>19, <1>20 DEF cut, q, last, es, l

LEMMA RemovedFits ==
  ASSUME NEW h, NEW top, NEW N, NEW n, HeapFits(h, top, N, n), NEW id \in PlacesOf(N), h.elements[id].pv # Absent
  PROVE  LET g == AfterRemoval(h, top, n, id) IN
         /\ HeapFits(g, id, N, n - 1)
         /\ \A i \in PlacesOf(N) : g.elements[i].pv = IF i = id THEN Absent ELSE h.elements[i].pv
<1> DEFINE cut == CutFrom(h, top, n, id)
           q == h.elements[id].index
           last == LastOf(h, n)
           l == n - 1
           g == AfterRemoval(h, top, n, id)
           swum == Heap!Swim(cut, last)
           sunk == Heap!Sink(cut, last)
<1>1. /\ N \in Nat /\ N <= MaxElements /\ n \in Nat
  BY DEF HeapFits
<1>2. /\ l \in Nat /\ cut \in Heaps(N, l)
      /\ \A i \in PlacesOf(N) : cut.elements[i].pv = IF i = id THEN Absent ELSE h.elements[i].pv
      /\ Stacked(IndexOf(cut, N), id, FreeIn(cut, N))
      /\ q \in PlacesOf(n) /\ last \in PlacesOf(N)
      /\ last = id => AllInOrder(cut, l)
      /\ last # id => /\ q \in PlacesOf(l)
                      /\ cut.elements[last].index = q /\ cut.elements[last].pv # Absent
                      /\ Around(cut, l, q)
                      /\ \A p \in PlacesOf(l) : p # 0 /\ p # q /\ Parent(p) # q => ParentFirst(cut, p)
  BY CutFits
<1>3. g = IF last = id THEN cut ELSE IF swum # cut THEN swum ELSE sunk
  BY DEF AfterRemoval
<1> HIDE DEF cut, q, last, l, g, swum, sunk
<1>4. SUFFICES g \in Rearrangements(cut, N, l) /\ AllInOrder(g, l)
  <2>1. ASSUME g \in Rearrangements(cut, N, l), AllInOrder(g, l)
        PROVE  /\ HeapFits(g, id, N, l)
               /\ \A i \in PlacesOf(N) : g.elements[i].pv = IF i = id THEN Absent ELSE h.elements[i].pv
    <3>1. HeapFits(g, id, N, l)
      BY <1>1, <1>2, <2>1, RearrangedFits
    <3>2. \A i \in PlacesOf(N) : g.elements[i].pv = cut.elements[i].pv
      BY <2>1 DEF Rearrangements, Rearranged
    <3>3. QED
      BY <1>2, <3>1, <3>2
  <2>2. QED
    BY <2>1 DEF g, l
<1>5. CASE last = id
  BY <1>2, <1>3, <1>5 DEF Rearrangements, Rearranged
<1>6. CASE last # id
  <2>1. /\ q \in PlacesOf(l) /\ cut.elements[last].index = q /\ cut.elements[last].pv # Absent
        /\ Around(cut, l, q)
        /\ \A p \in PlacesOf(l) : p # 0 /\ p # q /\ Parent(p) # q => ParentFirst(cut, p)
    BY <1>2, <1>6
  <2>2. \A p \in PlacesOf(l) : p \in Nat /\ Pv(cut, p) \in Int /\ (p # 0 => Parent(p) \in PlacesOf(l) /\ Parent(p) < p)
    BY <1>1, <1>2, HeapOf, ParentIs DEF PlacesOf
  <2>3. CASE q # 0 /\ Pv(cut, Parent(q)) > Pv(cut, q)
    <3>1. ASSUME NEW p \in PlacesOf(l), p # 0, p # q PROVE ParentFirst(cut, p)
      <4>1. CASE Parent(p) = q
        <5>1. Pv(cut, Parent(q)) <= Pv(cut, p)
          BY <2>1, <2>3, <3>1, <4>1 DEF Around
        <5>2. Pv(cut, q) <= Pv(cut, p)
          BY <2>1, <2>2, <2>3, <5>1
        <5>3. QED
          BY <4>1, <5>2 DEF ParentFirst
      <4>2. CASE Parent(p) # q
        BY <2>1, <3>1, <4>2
      <4>3. QED
        BY <4>1, <4>2
    <3>2. UpFrom(cut, l, cut.elements[last].index)
      BY <2>1, <3>1 DEF UpFrom
    <3>3. swum \in Rearrangements(cut, N, l) /\ AllInOrder(swum, l)
      BY <1>1, <1>2, <2>1, <3>2, SwimOrders DEF swum
    <3>4. swum # cut
      <4>1. ~ParentFirst(cut, q)
        BY <2>1, <2>2, <2>3 DEF ParentFirst
      <4>2. QED
        BY <2>1, <2>3, <3>3, <4>1 DEF AllInOrder
    <3>5. QED
      BY <1>3, <1>6, <3>3, <3>4
  <2>4. CASE ~(q # 0 /\ Pv(cut, Parent(q)) > Pv(cut, q))
    <3>1. Heap!SwimStep(cut, last) = cut
      <4>1. Heap!SwimStep(cut, last) =
              IF q > 0 /\ Pv(cut, Parent(q)) > Pv(cut, q) THEN Heap!Trade(cut, q, Parent(q)) ELSE cut
        BY <1>1, <1>2, <2>1, SwimStepTrades
      <4>2. q > 0 => q # 0
        BY <2>1, <2>2
      <4>3. QED
        BY <2>4, <4>1, <4>2
    <3>2. swum = cut
      BY <1>1, <1>2, <2>1, <3>1, SwimStays DEF swum
    <3>3. q # 0 => ParentFirst(cut, q)
      BY <2>1, <2>2, <2>4 DEF ParentFirst
    <3>4. DownFrom(cut, l, cut.elements[last].index)
      BY <2>1, <3>3 DEF DownFrom
    <3>5. sunk \in Rearrangements(cut, N, l) /\ AllInOrder(sunk, l)
      BY <1>1, <1>2, <2>1, <3>4, SinkOrders DEF sunk
    <3>6. QED
      BY <1>3, <1>6, <3>2, <3>5
  <2>5. QED
    BY <2>3, <2>4
<1>7. QED
  BY <1>5, <1>6

(***************************************************************************)
(* The state of the heap.                                                  *)
(***************************************************************************)
HeapIs(h, top) == elements = h.elements /\ ordering = h.ordering /\ heap_free_top = top

HeapSound == \E h, top, N, n : HeapFits(h, top, N, n) /\ HeapIs(h, top)

InHeap(h, N)  == {i \in PlacesOf(N) : h.elements[i].pv # Absent}
QueueOf(h, N) == [i \in InHeap(h, N) |-> h.elements[i].pv]
FrontOf(h, n) == IF n = 0 THEN -1 ELSE h.ordering[0]

\* What the operators of the modules say of it.
HeapSeen(h, N, n) ==
  /\ Heap!Ids = PlacesOf(N)
  /\ Heap!Valid = InHeap(h, N)
  /\ Heap!Length = n
  /\ Heap!Cardinality(Heap!Ids) = N
  /\ [i \in Heap!Ids |-> elements[i].index] = IndexOf(h, N)
  /\ [i \in Heap!Valid |-> elements[i].pv] = QueueOf(h, N)
  /\ (IF Heap!Length = 0 THEN -1 ELSE ordering[0]) = FrontOf(h, n)

LEMMA HeapIsSeen ==
  ASSUME NEW h, NEW top, NEW N, NEW n, HeapFits(h, top, N, n)
  PROVE  /\ HeapIs(h, top) => HeapSeen(h, N, n)
         /\ HeapIs(h, top)' => HeapSeen(h, N, n)'
<1>1. /\ DOMAIN h.elements = PlacesOf(N) /\ DOMAIN h.ordering = PlacesOf(n)
      /\ Heap!Cardinality(PlacesOf(N)) = N /\ Heap!Cardinality(PlacesOf(n)) = n
  <2>1. N \in Nat /\ n \in Nat /\ h \in Heaps(N, n)
    BY DEF HeapFits
  <2>2. QED
    BY <2>1, HeapOf, HowManyFromZero, SameOperators
<1>2. ASSUME HeapIs(h, top) PROVE HeapSeen(h, N, n)
  <2>1. elements = h.elements /\ ordering = h.ordering
    BY <1>2 DEF HeapIs
  <2>2. Heap!Ids = PlacesOf(N) /\ Heap!Length = n /\ Heap!Cardinality(Heap!Ids) = N
    BY <1>1, <2>1 DEF Heap!Ids, Heap!Length
  <2>3. Heap!Valid = InHeap(h, N)
    BY <2>1, <2>2 DEF Heap!Valid, InHeap
  <2>4. [i \in Heap!Ids |-> elements[i].index] = IndexOf(h, N)
    BY <2>1, <2>2 DEF IndexOf
  <2>5. [i \in Heap!Valid |-> elements[i].pv] = QueueOf(h, N)
    BY <2>1, <2>3 DEF QueueOf
  <2>6. (IF Heap!Length = 0 THEN -1 ELSE ordering[0]) = FrontOf(h, n)
    BY <2>1, <2>2 DEF FrontOf
  <2>7. QED
    BY <2>2, <2>3, <2>4, <2>5, <2>6 DEF HeapSeen
<1>3. ASSUME HeapIs(h, top)' PROVE HeapSeen(h, N, n)'
  <2>1. elements' = h.elements /\ ordering' = h.ordering
    BY <1>3 DEF HeapIs
  <2>2. (Heap!Ids = PlacesOf(N) /\ Heap!Length = n /\ Heap!Cardinality(Heap!Ids) = N)'
    BY <1>1, <2>1 DEF Heap!Ids, Heap!Length
  <2>3. (Heap!Valid = InHeap(h, N))'
    BY <2>1, <2>2 DEF Heap!Valid, InHeap
  <2>4. ([i \in Heap!Ids |-> elements[i].index] = IndexOf(h, N))'
    BY <2>1, <2>2 DEF IndexOf
  <2>5. ([i \in Heap!Valid |-> elements[i].pv] = QueueOf(h, N))'
    BY <2>1, <2>3 DEF QueueOf
  <2>6. ((IF Heap!Length = 0 THEN -1 ELSE ordering[0]) = FrontOf(h, n))'
    BY <2>1, <2>2 DEF FrontOf
  <2>7. QED
    BY <2>2, <2>3, <2>4, <2>5, <2>6 DEF HeapSeen
<1>4. QED
  BY <1>2, <1>3

LEMMA HeapSoundImpliesInv ==
  ASSUME HeapSound
  PROVE  Heap!Inv
<1>1. PICK h, top, N, n : HeapFits(h, top, N, n) /\ HeapIs(h, top)
  BY DEF HeapSound
<1>2. HeapSeen(h, N, n)
  BY <1>1, HeapIsSeen
<1>3. /\ N \in Nat /\ n \in Nat /\ N <= MaxElements /\ h \in Heaps(N, n) /\ AllInOrder(h, n)
      /\ Stacked(IndexOf(h, N), top, FreeIn(h, N)) /\ DOMAIN IndexOf(h, N) = PlacesOf(N)
  BY <1>1 DEF HeapFits, IndexOf
<1>4. elements = h.elements /\ ordering = h.ordering /\ heap_free_top = top
  BY <1>1 DEF HeapIs
<1>5. top \in PlacesOf(N) \cup {-1}
  <2>1. top = -1 \/ top \in FreeIn(h, N)
    BY <1>3, NotAPlace, PoppedFrom
  <2>2. QED
    BY <2>1 DEF FreeIn
<1>6. Heap!TypeOK
  <2>1. /\ elements \in [PlacesOf(N) -> [index : PlacesOf(N) \cup {-1}, pv : Priorities \cup {Absent}]]
        /\ ordering \in [PlacesOf(n) -> PlacesOf(N)]
    BY <1>3, <1>4 DEF Heaps
  <2>2. PlacesOf(N) = 0 .. N - 1 /\ PlacesOf(n) = 0 .. n - 1
    BY DEF PlacesOf
  <2>3. Heap!Ids = PlacesOf(N) /\ Heap!Cardinality(Heap!Ids) = N /\ Heap!Length = n
    BY <1>2 DEF HeapSeen
  <2>4. QED
    BY <1>3, <1>4, <1>5, <2>1, <2>2, <2>3 DEF Heap!TypeOK
<1>7. Heap!IndexesMatch
  <2>1. /\ Heap!Ids = PlacesOf(N) /\ Heap!Valid = InHeap(h, N) /\ Heap!Cardinality(Heap!Ids) = N
        /\ [i \in Heap!Ids |-> elements[i].index] = IndexOf(h, N)
    BY <1>2 DEF HeapSeen
  <2>2. DOMAIN ordering = {elements[i].index : i \in Heap!Valid}
    <3>1. \A p \in PlacesOf(n) : h.ordering[p] \in InHeap(h, N) /\ h.elements[h.ordering[p]].index = p
      BY <1>3, HeapOf DEF InHeap
    <3>2. \A i \in InHeap(h, N) : h.elements[i].index \in PlacesOf(n)
      BY <1>3, HeapOf DEF InHeap
    <3>3. DOMAIN h.ordering = PlacesOf(n)
      BY <1>3, HeapOf
    <3>4. QED
      BY <1>4, <2>1, <3>1, <3>2, <3>3
  <2>3. \A i \in Heap!Valid : ordering[elements[i].index] = i
    BY <1>3, <1>4, <2>1, HeapOf DEF InHeap
  <2>4. {Along(IndexOf(h, N), top, N)[k] : k \in 0 .. N} = FreeIn(h, N) \cup {-1}
    <3>1. PICK s \in Seq(PlacesOf(N)) : Chain(s, IndexOf(h, N), top, -1) /\ ToSet(s) = FreeIn(h, N)
      BY <1>3 DEF Stacked
    <3>2. Len(s) <= N
      BY <1>3, <3>1, HowManyFromZero, ChainFits DEF Chain
    <3>3. -1 \notin DOMAIN IndexOf(h, N) /\ s \in Seq(DOMAIN IndexOf(h, N))
      BY <1>3, <3>1, NotAPlace
    <3>4. Found(IndexOf(h, N), top, N) = ToSet(s) \cup {-1}
      <4>1. N \in Nat
        BY <1>3
      <4>2. Chain(s, IndexOf(h, N), top, -1)
        BY <3>1
      <4>3. QED
        BY <3>2, <3>3, <4>1, <4>2, FoundAlong
    <3>5. QED
      BY <3>1, <3>4 DEF Found
  <2>5. FreeIn(h, N) = Heap!Ids \ Heap!Valid
    BY <2>1 DEF FreeIn, InHeap
  <2>6. Heap!Along(IndexOf(h, N), top, N) = Along(IndexOf(h, N), top, N)
    BY SameOperators
  <2>7. {Heap!Along([i \in Heap!Ids |-> elements[i].index], heap_free_top, Heap!Cardinality(Heap!Ids))[k] :
           k \in 0 .. Heap!Cardinality(Heap!Ids)} = (Heap!Ids \ Heap!Valid) \cup {-1}
    BY <1>4, <2>1, <2>4, <2>5, <2>6
  <2>8. QED
    BY <2>2, <2>3, <2>7 DEF Heap!IndexesMatch
<1>8. Heap!HeapOrdered
  <2>1. ASSUME NEW p \in DOMAIN ordering \ {0}
        PROVE  elements[ordering[(p - 1) \div 2]].pv <= elements[ordering[p]].pv
    <3>1. p \in PlacesOf(n) /\ p # 0
      BY <1>3, <1>4, HeapOf
    <3>2. Pv(h, Parent(p)) <= Pv(h, p)
      BY <1>3, <3>1 DEF AllInOrder, ParentFirst
    <3>3. QED
      BY <1>4, <3>2 DEF Pv, Parent
  <2>2. QED
    BY <2>1 DEF Heap!HeapOrdered
<1>9. QED
  BY <1>6, <1>7, <1>8 DEF Heap!Inv

(***************************************************************************)
(* What the heap promises: of the elements, one with the earliest time is  *)
(* in front.                                                               *)
(***************************************************************************)
LEMMA FrontIsFirst ==
  ASSUME NEW h, NEW top, NEW N, NEW n, HeapFits(h, top, N, n)
  PROVE  Heap!Abstract!IsFront(QueueOf(h, N), FrontOf(h, n))
<1>1. N \in Nat /\ n \in Nat /\ h \in Heaps(N, n) /\ AllInOrder(h, n)
  BY DEF HeapFits
<1>2. DOMAIN QueueOf(h, N) = InHeap(h, N) /\ \A i \in InHeap(h, N) : QueueOf(h, N)[i] = h.elements[i].pv
  BY DEF QueueOf
<1>3. /\ \A p \in PlacesOf(n) : h.ordering[p] \in InHeap(h, N) /\ p \in Nat /\ Pv(h, p) \in Int
      /\ \A i \in InHeap(h, N) : h.elements[i].index \in PlacesOf(n) /\ h.ordering[h.elements[i].index] = i
  BY <1>1, HeapOf DEF InHeap, PlacesOf
<1>4. CASE n = 0
  <2>1. InHeap(h, N) = {}
    BY <1>3, <1>4 DEF PlacesOf
  <2>2. QED
    BY <1>2, <1>4, <2>1 DEF FrontOf, Heap!Abstract!IsFront
<1>5. CASE n # 0
  <2>1. 0 \in PlacesOf(n)
    BY <1>1, <1>5 DEF PlacesOf
  <2>2. ASSUME NEW p \in PlacesOf(n), \A q \in PlacesOf(n) : q < p => Pv(h, 0) <= Pv(h, q)
        PROVE  Pv(h, 0) <= Pv(h, p)
    <3>1. CASE p = 0
      BY <1>3, <2>1, <3>1
    <3>2. CASE p # 0
      <4>1. Parent(p) \in PlacesOf(n) /\ Parent(p) < p
        BY <1>1, <3>2, ParentIs
      <4>2. Pv(h, Parent(p)) <= Pv(h, p)
        BY <1>1, <3>2 DEF AllInOrder, ParentFirst
      <4>3. QED
        BY <1>3, <2>1, <2>2, <4>1, <4>2
    <3>3. QED
      BY <3>1, <3>2
  <2>3. \A p \in PlacesOf(n) : Pv(h, 0) <= Pv(h, p)
    <3> DEFINE S == {p \in PlacesOf(n) : ~(Pv(h, 0) <= Pv(h, p))}
    <3>1. SUFFICES ASSUME S # {} PROVE FALSE
      OBVIOUS
    <3>2. S \subseteq Nat
      BY <1>3
    <3>3. PICK p \in S : \A q \in S : p <= q
      <4> HIDE DEF S
      <4> QED BY <3>1, <3>2, LeastOf
    <3>4. \A q \in PlacesOf(n) : q < p => Pv(h, 0) <= Pv(h, q)
      BY <1>3, <3>3
    <3>5. QED
      BY <2>2, <3>3, <3>4
  <2>4. \A i \in InHeap(h, N) : Pv(h, 0) <= h.elements[i].pv
    BY <1>3, <2>3 DEF Pv
  <2>5. FrontOf(h, n) = h.ordering[0] /\ h.ordering[0] \in InHeap(h, N)
    BY <1>3, <1>5, <2>1 DEF FrontOf
  <2>6. QED
    BY <1>2, <2>4, <2>5 DEF Heap!Abstract!IsFront, Pv
<1>6. QED
  BY <1>4, <1>5

(***************************************************************************)
(* The operations.                                                         *)
(***************************************************************************)
LEMMA EmptyFits == HeapFits([elements |-> <<>>, ordering |-> <<>>], -1, 0, 0)
<1> DEFINE h == [elements |-> <<>>, ordering |-> <<>>]
<1>1. PlacesOf(0) = {} /\ h.elements = <<>> /\ h.ordering = <<>> /\ MaxElements \in Nat
  BY PartsTypes DEF PlacesOf
<1>2. h \in Heaps(0, 0)
  <2>1. \A T : <<>> \in [PlacesOf(0) -> T]
    BY <1>1
  <2>2. h \in [elements : [PlacesOf(0) -> [index : PlacesOf(0) \cup {-1}, pv : Priorities \cup {Absent}]],
               ordering : [PlacesOf(0) -> PlacesOf(0)]]
    BY <2>1
  <2> HIDE DEF h
  <2>3. QED
    BY <1>1, <2>2 DEF Heaps
<1>3. Stacked(IndexOf(h, 0), -1, FreeIn(h, 0))
  <2>1. <<>> \in Seq(DOMAIN IndexOf(h, 0)) /\ Len(<<>>) = 0 /\ ToSet(<<>>) = {}
    BY DEF ToSet
  <2>2. FreeIn(h, 0) = {}
    BY <1>1 DEF FreeIn
  <2>3. Chain(<<>>, IndexOf(h, 0), -1, -1)
    BY <2>1 DEF Chain, Distinct
  <2>4. QED
    BY <2>1, <2>2, <2>3 DEF Stacked
<1> HIDE DEF h
<1>4. AllInOrder(h, 0)
  BY <1>1 DEF AllInOrder
<1>5. HeapFits(h, -1, 0, 0)
  BY <1>1, <1>2, <1>3, <1>4 DEF HeapFits
<1>6. QED
  BY <1>5 DEF h

LEMMA AddElementIs ==
  ASSUME NEW h, NEW top, NEW N, NEW n, HeapFits(h, top, N, n), HeapIs(h, top),
         NEW p \in Priorities, Heap!AddElement(p)
  PROVE  /\ NewId(top, N) < MaxElements
         /\ HeapIs(Heap!Swim(WithNew(h, top, N, n, p), NewId(top, N)), NewTop(h, top))'
<1> DEFINE id == IF heap_free_top # -1 THEN heap_free_top ELSE Heap!Cardinality(Heap!Ids)
           new == [elements |-> [i \in Heap!Ids \cup {id} |->
                                   IF i = id THEN [index |-> Heap!Length, pv |-> p] ELSE elements[i]],
                   ordering |-> [i \in 0 .. Heap!Length |-> IF i = Heap!Length THEN id ELSE ordering[i]]]
           g == Heap!Swim(new, id)
<1>1. /\ id < MaxElements /\ elements' = g.elements /\ ordering' = g.ordering
      /\ heap_free_top' = IF heap_free_top # -1 THEN elements[id].index ELSE heap_free_top
  BY DEF Heap!AddElement
<1>2. elements = h.elements /\ ordering = h.ordering /\ heap_free_top = top
  BY DEF HeapIs
<1>3. Heap!Ids = PlacesOf(N) /\ Heap!Length = n /\ Heap!Cardinality(Heap!Ids) = N
  BY HeapIsSeen DEF HeapSeen
<1>4. id = NewId(top, N)
  BY <1>2, <1>3 DEF NewId
<1>5. new = WithNew(h, top, N, n, p)
  <2>1. [i \in Heap!Ids \cup {id} |-> IF i = id THEN [index |-> Heap!Length, pv |-> p] ELSE elements[i]]
          = [i \in PlacesOf(N) \cup {NewId(top, N)} |->
               IF i = NewId(top, N) THEN [index |-> n, pv |-> p] ELSE h.elements[i]]
    <3> HIDE DEF id
    <3> QED BY <1>2, <1>3, <1>4
  <2>2. [i \in 0 .. Heap!Length |-> IF i = Heap!Length THEN id ELSE ordering[i]]
          = [i \in 0 .. n |-> IF i = n THEN NewId(top, N) ELSE h.ordering[i]]
    <3> HIDE DEF id
    <3> QED BY <1>2, <1>3, <1>4
  <2>3. QED
    BY <2>1, <2>2 DEF WithNew
<1> HIDE DEF new, id
<1>6. heap_free_top' = NewTop(h, top)
  BY <1>1, <1>2, <1>4 DEF NewTop, NewId
<1>7. QED
  BY <1>1, <1>4, <1>5, <1>6 DEF HeapIs

LEMMA RemoveElementIs ==
  ASSUME NEW h, NEW top, NEW N, NEW n, HeapFits(h, top, N, n), HeapIs(h, top),
         NEW id \in PlacesOf(N), Heap!RemoveElement(id)
  PROVE  HeapIs(AfterRemoval(h, top, n, id), id)'
<1> DEFINE index == elements[id].index
           last == ordering[Heap!Length - 1]
           cut == [elements |-> [elements EXCEPT ![last].index = index,
                                                 ![id] = [index |-> heap_free_top, pv |-> Absent]],
                   ordering |-> [i \in 0 .. Heap!Length - 2 |-> IF i = index THEN last ELSE ordering[i]]]
           swum == Heap!Swim(cut, last)
           g == IF last = id THEN cut ELSE IF swum # cut THEN swum ELSE Heap!Sink(cut, last)
<1>1. elements' = g.elements /\ ordering' = g.ordering /\ heap_free_top' = id
  BY DEF Heap!RemoveElement
<1>2. elements = h.elements /\ ordering = h.ordering /\ heap_free_top = top
  BY DEF HeapIs
<1>3. Heap!Length = n
  BY HeapIsSeen DEF HeapSeen
<1>4. last = LastOf(h, n) /\ index = h.elements[id].index
  BY <1>2, <1>3 DEF LastOf
<1>5. cut = CutFrom(h, top, n, id)
  <2> HIDE DEF last, index
  <2>1. [elements EXCEPT ![last].index = index, ![id] = [index |-> heap_free_top, pv |-> Absent]]
          = [h.elements EXCEPT ![LastOf(h, n)].index = h.elements[id].index,
                               ![id] = [index |-> top, pv |-> Absent]]
    BY <1>2, <1>4
  <2>2. [i \in 0 .. Heap!Length - 2 |-> IF i = index THEN last ELSE ordering[i]]
          = [i \in 0 .. n - 2 |-> IF i = h.elements[id].index THEN LastOf(h, n) ELSE h.ordering[i]]
    BY <1>2, <1>3, <1>4
  <2>3. QED
    BY <2>1, <2>2 DEF CutFrom
<1> HIDE DEF cut, last
<1>6. g = AfterRemoval(h, top, n, id)
  BY <1>4, <1>5 DEF AfterRemoval
<1> HIDE DEF g
<1>7. QED
  BY <1>1, <1>6 DEF HeapIs

\* What of the queue changes.
QueueGains(q, N, r, M, i, p) ==
  /\ i \in 0 .. N /\ i \notin DOMAIN q
  /\ IF DOMAIN q = 0 .. N - 1 THEN N < MaxElements /\ M = N + 1 ELSE i < N /\ M = N
  /\ r = [j \in DOMAIN q \cup {i} |-> IF j = i THEN p ELSE q[j]]

QueueLoses(q, r, i) == r = [j \in DOMAIN q \ {i} |-> q[j]]

LEMMA QueueAdded ==
  ASSUME NEW h, NEW top, NEW N, NEW n, HeapFits(h, top, N, n), NEW p \in Priorities, NewId(top, N) < MaxElements,
         NEW g, NEW M, HeapFits(g, NewTop(h, top), M, n + 1), M = NewN(top, N),
         NewId(top, N) \in PlacesOf(M), NewId(top, N) \notin InHeap(h, N),
         top = -1 <=> \A i \in PlacesOf(N) : h.elements[i].pv # Absent,
         \A i \in PlacesOf(M) : g.elements[i].pv = IF i = NewId(top, N) THEN p ELSE h.elements[i].pv
  PROVE  QueueGains(QueueOf(h, N), N, QueueOf(g, M), M, NewId(top, N), p)
<1> DEFINE id == NewId(top, N)
           q == QueueOf(h, N)
<1>1. N \in Nat /\ h \in Heaps(N, n) /\ p # Absent
  BY PartsAssumption DEF HeapFits
<1>2. DOMAIN q = InHeap(h, N) /\ \A i \in InHeap(h, N) : q[i] = h.elements[i].pv
  BY DEF QueueOf
<1>3. top = -1 <=> InHeap(h, N) = 0 .. N - 1
  BY DEF InHeap, PlacesOf
<1>4. M = IF top # -1 THEN N ELSE N + 1
  BY DEF NewN
<1>5. top # -1 => id = top
  BY DEF NewId
<1>6. top = -1 => id = N
  BY DEF NewId
<1> HIDE DEF q, id
<1>7. id \in 0 .. M - 1 /\ id \notin InHeap(h, N) /\ id < MaxElements
  BY DEF PlacesOf, id
<1>8. InHeap(g, M) = InHeap(h, N) \cup {id}
  <2>1. \A i \in PlacesOf(N) : i \in PlacesOf(M)
    BY <1>1, <1>4 DEF PlacesOf
  <2>2. \A i \in PlacesOf(M) : i \in PlacesOf(N) \/ i = id
    BY <1>1, <1>4, <1>6 DEF PlacesOf
  <2>3. \A i \in PlacesOf(M) : g.elements[i].pv = IF i = id THEN p ELSE h.elements[i].pv
    BY DEF id
  <2>4. id \in PlacesOf(M)
    BY <1>7 DEF PlacesOf
  <2>5. QED
    BY <1>1, <1>7, <2>1, <2>2, <2>3, <2>4 DEF InHeap
<1>9. \A j \in InHeap(g, M) : g.elements[j].pv = IF j = id THEN p ELSE q[j]
  <2>1. \A i \in PlacesOf(M) : g.elements[i].pv = IF i = id THEN p ELSE h.elements[i].pv
    BY DEF id
  <2>2. \A j \in InHeap(g, M) : j \in PlacesOf(M)
    BY DEF InHeap
  <2>3. QED
    BY <1>2, <1>8, <2>1, <2>2
<1>10. QueueOf(g, M) = [j \in DOMAIN q \cup {id} |-> IF j = id THEN p ELSE q[j]]
  BY <1>2, <1>8, <1>9 DEF QueueOf
<1>11. IF DOMAIN q = 0 .. N - 1 THEN N < MaxElements /\ M = N + 1 ELSE id < N /\ M = N
  BY <1>1, <1>2, <1>3, <1>4, <1>6, <1>7
<1>12. id \in 0 .. N /\ id \notin DOMAIN q
  BY <1>1, <1>2, <1>4, <1>7
<1>13. QED
  BY <1>10, <1>11, <1>12 DEF QueueGains, id, q

LEMMA QueueRemoved ==
  ASSUME NEW h, NEW N, NEW id \in PlacesOf(N), NEW g,
         \A i \in PlacesOf(N) : g.elements[i].pv = IF i = id THEN Absent ELSE h.elements[i].pv
  PROVE  QueueLoses(QueueOf(h, N), QueueOf(g, N), id)
<1>1. InHeap(g, N) = InHeap(h, N) \ {id}
  BY DEF InHeap
<1>2. \A j \in InHeap(g, N) : g.elements[j].pv = h.elements[j].pv /\ j \in InHeap(h, N)
  BY DEF InHeap
<1>3. DOMAIN QueueOf(h, N) = InHeap(h, N) /\ \A i \in InHeap(h, N) : QueueOf(h, N)[i] = h.elements[i].pv
  BY DEF QueueOf
<1>4. QED
  BY <1>1, <1>2, <1>3 DEF QueueOf, QueueLoses


(***************************************************************************)
(* A step of the heap is a step of the queue.                              *)
(***************************************************************************)
QueueSeen(q, f, N) ==
  /\ [i \in Heap!Valid |-> elements[i].pv] = q
  /\ (IF Heap!Length = 0 THEN -1 ELSE ordering[0]) = f
  /\ Heap!Cardinality(Heap!Ids) = N

QueueStep(q, N, r, f, M) ==
  \/ /\ \E p \in Priorities, i \in 0 .. N : QueueGains(q, N, r, M, i, p)
     /\ Heap!Abstract!IsFront(r, f)
  \/ /\ \E i \in DOMAIN q : QueueLoses(q, r, i)
     /\ Heap!Abstract!IsFront(r, f)
     /\ M = N
  \/ r = <<>> /\ f = -1 /\ M = 0

LEMMA QueueStepIs ==
  ASSUME NEW q, NEW f, NEW N, NEW r, NEW g, NEW M, QueueSeen(q, f, N), QueueSeen(r, g, M)', QueueStep(q, N, r, g, M)
  PROVE  Heap!Abstract!Next
<1>1. /\ [i \in Heap!Valid |-> elements[i].pv] = q
      /\ (IF Heap!Length = 0 THEN -1 ELSE ordering[0]) = f
      /\ Heap!Cardinality(Heap!Ids) = N
  BY DEF QueueSeen
<1>2. /\ [i \in Heap!Valid' |-> elements'[i].pv] = r
      /\ (IF Heap!Length' = 0 THEN -1 ELSE ordering'[0]) = g
      /\ Heap!Cardinality(Heap!Ids') = M
  BY DEF QueueSeen
<1>3. ASSUME NEW p \in Priorities, NEW i \in 0 .. N, QueueGains(q, N, r, M, i, p), Heap!Abstract!IsFront(r, g)
      PROVE  Heap!Abstract!AddElement(p)
  BY <1>1, <1>2, <1>3 DEF Heap!Abstract!AddElement, QueueGains
<1>4. ASSUME NEW i \in DOMAIN q, QueueLoses(q, r, i), Heap!Abstract!IsFront(r, g), M = N
      PROVE  Heap!Abstract!RemoveElement(i)
  BY <1>1, <1>2, <1>4 DEF Heap!Abstract!RemoveElement, QueueLoses
<1>5. ASSUME r = <<>>, g = -1, M = 0 PROVE Heap!Abstract!Clear
  BY <1>2, <1>5 DEF Heap!Abstract!Clear
<1>6. QED
  BY <1>1, <1>3, <1>4, <1>5 DEF QueueStep, Heap!Abstract!Next

HeapGoesOn(h, N) ==
  \E g, t, M, m : /\ HeapFits(g, t, M, m) /\ HeapIs(g, t)'
                  /\ QueueStep(QueueOf(h, N), N, QueueOf(g, M), FrontOf(g, m), M)

LEMMA HeapSteps ==
  ASSUME NEW h, NEW top, NEW N, NEW n, HeapFits(h, top, N, n), HeapIs(h, top), Heap!Next
  PROVE  HeapGoesOn(h, N)
<1> DEFINE q == QueueOf(h, N)
<1>1. Heap!Valid = InHeap(h, N) /\ DOMAIN q = InHeap(h, N)
  BY HeapIsSeen DEF HeapSeen, QueueOf
<1> HIDE DEF q
<1>2. ASSUME NEW p \in Priorities, Heap!AddElement(p) PROVE HeapGoesOn(h, N)
  <2> DEFINE id == NewId(top, N)
             M == NewN(top, N)
             g == Heap!Swim(WithNew(h, top, N, n, p), id)
             t == NewTop(h, top)
  <2>1. id < MaxElements /\ HeapIs(g, t)'
    BY <1>2, AddElementIs
  <2>2. /\ HeapFits(g, t, M, n + 1) /\ id \in PlacesOf(M)
        /\ id \notin {i \in PlacesOf(N) : h.elements[i].pv # Absent}
        /\ top = -1 <=> \A i \in PlacesOf(N) : h.elements[i].pv # Absent
        /\ \A i \in PlacesOf(M) : g.elements[i].pv = IF i = id THEN p ELSE h.elements[i].pv
    BY <2>1, AddedFits
  <2>3. id \notin InHeap(h, N)
    BY <2>2 DEF InHeap
  <2> HIDE DEF g
  <2>4. QueueGains(q, N, QueueOf(g, M), M, id, p) /\ id \in 0 .. N
    <3>1. QueueGains(QueueOf(h, N), N, QueueOf(g, M), M, id, p)
      BY <2>1, <2>2, <2>3, QueueAdded
    <3>2. QED
      BY <3>1 DEF q, QueueGains
  <2> HIDE DEF id, M, t
  <2>5. Heap!Abstract!IsFront(QueueOf(g, M), FrontOf(g, n + 1))
    BY <2>2, FrontIsFirst
  <2>6. QueueStep(q, N, QueueOf(g, M), FrontOf(g, n + 1), M)
    BY <2>4, <2>5 DEF QueueStep
  <2>7. QED
    BY <2>1, <2>2, <2>6 DEF HeapGoesOn, q
<1>3. ASSUME NEW id \in Heap!Valid, Heap!RemoveElement(id) PROVE HeapGoesOn(h, N)
  <2> DEFINE g == AfterRemoval(h, top, n, id)
  <2>1. id \in PlacesOf(N) /\ h.elements[id].pv # Absent /\ id \in DOMAIN q
    BY <1>1 DEF InHeap
  <2>2. HeapIs(g, id)'
    BY <1>3, <2>1, RemoveElementIs
  <2>3. /\ HeapFits(g, id, N, n - 1)
        /\ \A i \in PlacesOf(N) : g.elements[i].pv = IF i = id THEN Absent ELSE h.elements[i].pv
    BY <2>1, RemovedFits
  <2> HIDE DEF g
  <2>4. QueueLoses(q, QueueOf(g, N), id)
    BY <2>1, <2>3, QueueRemoved DEF q
  <2>5. Heap!Abstract!IsFront(QueueOf(g, N), FrontOf(g, n - 1))
    BY <2>3, FrontIsFirst
  <2>6. QueueStep(q, N, QueueOf(g, N), FrontOf(g, n - 1), N)
    BY <2>1, <2>4, <2>5 DEF QueueStep
  <2>7. QED
    BY <2>2, <2>3, <2>6 DEF HeapGoesOn, q
<1>4. CASE Heap!Clear
  <2> DEFINE g == [elements |-> <<>>, ordering |-> <<>>]
  <2>1. HeapFits(g, -1, 0, 0)
    BY EmptyFits
  <2>2. HeapIs(g, -1)'
    BY <1>4 DEF Heap!Clear, HeapIs
  <2>3. QueueOf(g, 0) = <<>> /\ FrontOf(g, 0) = -1
    <3>1. InHeap(g, 0) = {}
      BY DEF InHeap, PlacesOf
    <3>2. QED
      BY <3>1 DEF QueueOf, FrontOf
  <2> HIDE DEF g
  <2>4. QueueStep(q, N, QueueOf(g, 0), FrontOf(g, 0), 0)
    BY <2>3 DEF QueueStep
  <2>5. QED
    BY <2>1, <2>2, <2>4 DEF HeapGoesOn, q
<1>5. QED
  BY <1>2, <1>3, <1>4 DEF Heap!Next

LEMMA HeapImplements ==
  /\ Heap!Init => HeapSound /\ Heap!Abstract!Init
  /\ HeapSound /\ Heap!Next => HeapSound' /\ Heap!Abstract!Next
  /\ HeapSound /\ UNCHANGED heapVars => HeapSound' /\ UNCHANGED Heap!Abstract!vars
<1>1. ASSUME NEW h, NEW top, NEW N, NEW n, HeapFits(h, top, N, n)
      PROVE  /\ HeapIs(h, top) => QueueSeen(QueueOf(h, N), FrontOf(h, n), N)
             /\ HeapIs(h, top)' => QueueSeen(QueueOf(h, N), FrontOf(h, n), N)'
  BY <1>1, HeapIsSeen DEF HeapSeen, QueueSeen
<1>2. ASSUME Heap!Init PROVE HeapSound /\ Heap!Abstract!Init
  <2> DEFINE g == [elements |-> <<>>, ordering |-> <<>>]
  <2>1. HeapFits(g, -1, 0, 0)
    BY EmptyFits
  <2>2. HeapIs(g, -1)
    BY <1>2 DEF Heap!Init, HeapIs
  <2>3. QueueOf(g, 0) = <<>> /\ FrontOf(g, 0) = -1
    <3>1. InHeap(g, 0) = {}
      BY DEF InHeap, PlacesOf
    <3>2. QED
      BY <3>1 DEF QueueOf, FrontOf
  <2> HIDE DEF g
  <2>4. QueueSeen(<<>>, -1, 0)
    BY <1>1, <2>1, <2>2, <2>3
  <2>5. QED
    BY <2>1, <2>2, <2>4 DEF HeapSound, QueueSeen, Heap!Abstract!Init
<1>3. ASSUME HeapSound, Heap!Next PROVE HeapSound' /\ Heap!Abstract!Next
  <2>1. PICK h, top, N, n : HeapFits(h, top, N, n) /\ HeapIs(h, top)
    BY <1>3 DEF HeapSound
  <2>2. PICK g, t, M, m : /\ HeapFits(g, t, M, m) /\ HeapIs(g, t)'
                          /\ QueueStep(QueueOf(h, N), N, QueueOf(g, M), FrontOf(g, m), M)
    BY <1>3, <2>1, HeapSteps DEF HeapGoesOn
  <2>3. QueueSeen(QueueOf(h, N), FrontOf(h, n), N) /\ QueueSeen(QueueOf(g, M), FrontOf(g, m), M)'
    BY <1>1, <2>1, <2>2
  <2>4. Heap!Abstract!Next
    BY <2>2, <2>3, QueueStepIs
  <2>5. QED
    BY <2>2, <2>4 DEF HeapSound
<1>4. ASSUME HeapSound, UNCHANGED heapVars PROVE HeapSound' /\ UNCHANGED Heap!Abstract!vars
  <2>1. PICK h, top, N, n : HeapFits(h, top, N, n) /\ HeapIs(h, top)
    BY <1>4 DEF HeapSound
  <2>2. HeapIs(h, top)'
    BY <1>4, <2>1 DEF HeapIs, heapVars
  <2>3. HeapSound'
    BY <2>1, <2>2 DEF HeapSound
  <2>4. QueueSeen(QueueOf(h, N), FrontOf(h, n), N) /\ QueueSeen(QueueOf(h, N), FrontOf(h, n), N)'
    BY <1>1, <2>1, <2>2
  <2>5. UNCHANGED Heap!Abstract!vars
    BY <2>4 DEF QueueSeen, Heap!Abstract!vars
  <2>6. QED
    BY <2>3, <2>5
<1>5. QED
  BY <1>2, <1>3, <1>4

-----------------------------------------------------------------------------
(***************************************************************************)
(* The arena: the elements s of a list, which is itself l, on both sides.  *)
(***************************************************************************)
At(s, l, k) == IF k \in 1 .. Len(s) THEN s[k] ELSE l

NextOf(nd) == [i \in DOMAIN nd |-> nd[i].next]

Ring(nd, s, l) ==
  /\ Distinct(s) /\ l \notin ToSet(s)
  /\ \A k \in 0 .. Len(s) : nd[At(s, l, k)].next = At(s, l, k + 1)

\* The nodes V are linked, both ways, into the lists L.
Linked(nd, V, L) ==
  /\ V \subseteq DOMAIN nd
  /\ \A i \in V : /\ nd[i].prev \in V /\ nd[nd[i].prev].next = i
                  /\ nd[i].next \in V /\ nd[nd[i].next].prev = i
                  /\ nd[i].data <=> i \notin DOMAIN L
  /\ DOMAIN L \subseteq V
  /\ \A l \in DOMAIN L : L[l] \in Seq(V \ DOMAIN L) /\ Ring(nd, L[l], l)
  /\ \A i \in V \ DOMAIN L : \E l \in DOMAIN L : i \in ToSet(L[l])

\* A place in a ring, except for the list itself, is there once.
LEMMA AtIsOnce ==
  ASSUME NEW V, NEW s \in Seq(V), NEW l, Distinct(s), l \notin ToSet(s)
  PROVE  /\ Len(s) \in Nat
         /\ At(s, l, 0) = l /\ At(s, l, Len(s) + 1) = l
         /\ \A k \in 1 .. Len(s) : At(s, l, k) = s[k] /\ s[k] \in V /\ s[k] # l
         /\ \A k \in 0 .. Len(s) + 1 : At(s, l, k) = l => k = 0 \/ k = Len(s) + 1
         /\ \A k \in 0 .. Len(s) + 1, m \in 1 .. Len(s) : At(s, l, k) = s[m] => k = m
<1>1. Len(s) \in Nat /\ \A k \in 1 .. Len(s) : s[k] \in V /\ s[k] # l /\ At(s, l, k) = s[k]
  BY DEF ToSet, At
<1>2. 0 \notin 1 .. Len(s) /\ Len(s) + 1 \notin 1 .. Len(s)
  BY <1>1
<1>3. At(s, l, 0) = l /\ At(s, l, Len(s) + 1) = l
  BY <1>2 DEF At
<1>4. \A k \in 0 .. Len(s) + 1 : k \in 1 .. Len(s) \/ k = 0 \/ k = Len(s) + 1
  BY <1>1
<1>5. \A k \in 0 .. Len(s) + 1 : At(s, l, k) = l => k = 0 \/ k = Len(s) + 1
  BY <1>1, <1>4
<1>6. ASSUME NEW k \in 0 .. Len(s) + 1, NEW m \in 1 .. Len(s), At(s, l, k) = s[m] PROVE k = m
  <2>1. k \in 1 .. Len(s)
    BY <1>1, <1>3, <1>4, <1>6
  <2>2. QED
    BY <1>1, <1>6, <2>1 DEF Distinct
<1>7. QED
  BY <1>1, <1>3, <1>5, <1>6

Neighbours(nd, s, l) ==
  \A k \in 0 .. Len(s) : /\ nd[At(s, l, k)].next = At(s, l, k + 1)
                          /\ nd[At(s, l, k + 1)].prev = At(s, l, k)

OnRing(V, L, s, l) ==
  \A k \in 0 .. Len(s) + 1 : At(s, l, k) \in V /\ (At(s, l, k) \in DOMAIN L <=> At(s, l, k) = l)

\* Of a node in a list, the neighbours.
LEMMA InARing ==
  ASSUME NEW nd, NEW V, NEW L, Linked(nd, V, L), NEW l \in DOMAIN L
  PROVE  /\ L[l] \in Seq(V \ DOMAIN L) /\ l \in V /\ Len(L[l]) \in Nat
         /\ Distinct(L[l]) /\ l \notin ToSet(L[l])
         /\ OnRing(V, L, L[l], l)
         /\ Neighbours(nd, L[l], l)
<1> DEFINE s == L[l]
<1>1. /\ s \in Seq(V \ DOMAIN L) /\ l \in V /\ Ring(nd, s, l)
      /\ \A i \in V : nd[nd[i].next].prev = i
  BY DEF Linked
<1> HIDE DEF s
<1>2. /\ Distinct(s) /\ l \notin ToSet(s)
      /\ \A k \in 0 .. Len(s) : nd[At(s, l, k)].next = At(s, l, k + 1)
  BY <1>1 DEF Ring
<1>3. Len(s) \in Nat /\ \A k \in 1 .. Len(s) : s[k] \in V /\ s[k] \notin DOMAIN L /\ s[k] # l
  BY <1>1, <1>2, AtIsOnce
<1>4. \A k \in 0 .. Len(s) + 1 : At(s, l, k) \in V /\ (At(s, l, k) \in DOMAIN L <=> At(s, l, k) = l)
  BY <1>1, <1>3 DEF At
<1>5. \A k \in 0 .. Len(s) : nd[At(s, l, k + 1)].prev = At(s, l, k)
  <2>1. \A k \in 0 .. Len(s) : k \in 0 .. Len(s) + 1
    BY <1>3
  <2>2. QED
    BY <1>1, <1>2, <1>4, <2>1
<1>6. Neighbours(nd, s, l)
  BY <1>2, <1>5 DEF Neighbours
<1>7. OnRing(V, L, s, l)
  BY <1>4 DEF OnRing
<1>8. QED
  BY <1>1, <1>2, <1>3, <1>6, <1>7 DEF s

\* An element is on one list only, and is not its own neighbour.
LEMMA OnOneList ==
  ASSUME NEW nd, NEW V, NEW L, Linked(nd, V, L), NEW e \in V \ DOMAIN L
  PROVE  /\ nd[e].prev # e /\ nd[e].next # e
         /\ \E l \in DOMAIN L : e \in ToSet(L[l])
         /\ \A l, m \in DOMAIN L : e \in ToSet(L[l]) /\ e \in ToSet(L[m]) => l = m
<1>1. PICK l \in DOMAIN L : e \in ToSet(L[l])
  BY DEF Linked
<1>2. /\ L[l] \in Seq(V \ DOMAIN L) /\ Len(L[l]) \in Nat /\ Distinct(L[l]) /\ l \notin ToSet(L[l])
      /\ \A k \in 0 .. Len(L[l]) :
              /\ nd[At(L[l], l, k)].next = At(L[l], l, k + 1)
              /\ nd[At(L[l], l, k + 1)].prev = At(L[l], l, k)
  <2>1. /\ L[l] \in Seq(V \ DOMAIN L) /\ Len(L[l]) \in Nat /\ Distinct(L[l]) /\ l \notin ToSet(L[l])
        /\ Neighbours(nd, L[l], l)
    BY <1>1, InARing
  <2>2. QED
    BY <2>1 DEF Neighbours
<1>3. /\ \A k \in 1 .. Len(L[l]) : At(L[l], l, k) = L[l][k]
      /\ \A k \in 0 .. Len(L[l]) + 1, m \in 1 .. Len(L[l]) : At(L[l], l, k) = L[l][m] => k = m
  BY <1>2, AtIsOnce
<1>4. PICK j \in 1 .. Len(L[l]) : e = L[l][j]
  BY <1>1 DEF ToSet
<1>5. nd[e].next # e
  <2>1. nd[e].next = At(L[l], l, j + 1) /\ j + 1 \in 0 .. Len(L[l]) + 1 /\ j + 1 # j
    BY <1>2, <1>3, <1>4
  <2>2. QED
    BY <1>3, <1>4, <2>1
<1>6. nd[e].prev # e
  <2>1. j - 1 \in 0 .. Len(L[l]) /\ j - 1 + 1 = j
    BY <1>2
  <2>2. nd[e].prev = At(L[l], l, j - 1) /\ j - 1 \in 0 .. Len(L[l]) + 1 /\ j - 1 # j
    BY <1>2, <1>3, <1>4, <2>1
  <2>3. QED
    BY <1>3, <1>4, <2>2
<1>7. ASSUME NEW a \in DOMAIN L, NEW b \in DOMAIN L, e \in ToSet(L[a]), e \in ToSet(L[b]) PROVE a = b
  <2> DEFINE D == {k \in Nat : \A i, m \in DOMAIN L : \A p \in 1 .. Len(L[i]), q \in 1 .. Len(L[m]) :
                                 k = p /\ L[i][p] = L[m][q] => i = m}
  <2>1. \A i \in DOMAIN L : /\ Len(L[i]) \in Nat /\ L[i] \in Seq(V \ DOMAIN L)
                            /\ \A k \in 1 .. Len(L[i]) : At(L[i], i, k) = L[i][k] /\ L[i][k] \notin DOMAIN L
                            /\ At(L[i], i, 0) = i
                            /\ \A k \in 0 .. Len(L[i]) : nd[At(L[i], i, k + 1)].prev = At(L[i], i, k)
    <3>1. ASSUME NEW i \in DOMAIN L
          PROVE  /\ Len(L[i]) \in Nat /\ L[i] \in Seq(V \ DOMAIN L)
                 /\ \A k \in 1 .. Len(L[i]) : At(L[i], i, k) = L[i][k] /\ L[i][k] \notin DOMAIN L
                 /\ At(L[i], i, 0) = i
                 /\ \A k \in 0 .. Len(L[i]) : nd[At(L[i], i, k + 1)].prev = At(L[i], i, k)
      <4>1. /\ L[i] \in Seq(V \ DOMAIN L) /\ Distinct(L[i]) /\ i \notin ToSet(L[i]) /\ Len(L[i]) \in Nat
            /\ \A k \in 0 .. Len(L[i]) : nd[At(L[i], i, k + 1)].prev = At(L[i], i, k)
        <5>1. /\ L[i] \in Seq(V \ DOMAIN L) /\ Distinct(L[i]) /\ i \notin ToSet(L[i]) /\ Len(L[i]) \in Nat
              /\ Neighbours(nd, L[i], i)
          BY InARing
        <5>2. QED
          BY <5>1 DEF Neighbours
      <4>2. /\ \A k \in 1 .. Len(L[i]) : At(L[i], i, k) = L[i][k] /\ L[i][k] \in V \ DOMAIN L
            /\ At(L[i], i, 0) = i
        BY <4>1, AtIsOnce
      <4>3. QED
        BY <4>1, <4>2
    <3>2. QED
      BY <3>1
  <2>2. 0 \in D
    BY <2>1
  <2>3. ASSUME NEW k \in Nat, k \in D PROVE k + 1 \in D
    <3>1. SUFFICES ASSUME NEW i \in DOMAIN L, NEW m \in DOMAIN L, NEW p \in 1 .. Len(L[i]), NEW q \in 1 .. Len(L[m]),
                          k + 1 = p, L[i][p] = L[m][q]
                   PROVE  i = m
      OBVIOUS
    <3>2. Len(L[i]) \in Nat /\ Len(L[m]) \in Nat
      BY <2>1
    <3>3. k \in 0 .. Len(L[i]) /\ q - 1 \in 0 .. Len(L[m]) /\ q - 1 + 1 = q
      BY <3>1, <3>2
    <3>4. At(L[i], i, p) = L[i][p] /\ At(L[m], m, q) = L[m][q]
      BY <2>1
    <3>5. At(L[i], i, k) = At(L[m], m, q - 1)
      <4>1. nd[At(L[i], i, k + 1)].prev = At(L[i], i, k) /\ nd[At(L[m], m, q - 1 + 1)].prev = At(L[m], m, q - 1)
        BY <2>1, <3>3
      <4>2. At(L[i], i, k + 1) = At(L[m], m, q - 1 + 1)
        BY <3>1, <3>3, <3>4
      <4>3. QED
        BY <4>1, <4>2
    <3>6. k = 0 \/ k \in 1 .. Len(L[i])
      BY <3>2, <3>3
    <3>7. q - 1 = 0 \/ q - 1 \in 1 .. Len(L[m])
      BY <3>2, <3>3
    <3>8. /\ k = 0 => At(L[i], i, k) = i
          /\ k # 0 => At(L[i], i, k) = L[i][k] /\ L[i][k] \notin DOMAIN L
          /\ q - 1 = 0 => At(L[m], m, q - 1) = m
          /\ q - 1 # 0 => At(L[m], m, q - 1) = L[m][q - 1] /\ L[m][q - 1] \notin DOMAIN L
      BY <2>1, <3>6, <3>7
    <3>9. CASE k # 0 /\ q - 1 # 0
      <4>1. k \in 1 .. Len(L[i]) /\ q - 1 \in 1 .. Len(L[m]) /\ L[i][k] = L[m][q - 1]
        BY <3>5, <3>6, <3>7, <3>8, <3>9
      <4>2. QED
        BY <2>3, <4>1
    <3>10. CASE k = 0 \/ q - 1 = 0
      BY <3>5, <3>8, <3>10
    <3>11. QED
      BY <3>9, <3>10
  <2>4. Nat \subseteq D
    <3> HIDE DEF D
    <3> QED BY <2>2, <2>3, SetInduction
  <2>5. PICK p \in 1 .. Len(L[a]), q \in 1 .. Len(L[b]) : L[a][p] = e /\ L[b][q] = e
    BY <1>7 DEF ToSet
  <2>6. p \in D
    <3>1. p \in Nat
      BY <2>1
    <3> HIDE DEF D
    <3>2. QED
      BY <2>4, <3>1
  <2>7. QED
    BY <2>5, <2>6
<1>8. QED
  BY <1>1, <1>5, <1>6, <1>7

\* The sequences that Lists speaks of.
LEMMA WithoutIs ==
  ASSUME NEW V, NEW s \in Seq(V), Distinct(s), NEW e
  PROVE  LET r == Arena!Abstract!Without(s, e) IN
         /\ r \in Seq(V) /\ Distinct(r) /\ ToSet(r) = ToSet(s) \ {e}
         /\ e \notin ToSet(s) => r = s
         /\ \A j \in 1 .. Len(s) : s[j] = e =>
              /\ Len(r) = Len(s) - 1
              /\ \A i \in 1 .. Len(s) - 1 : r[i] = IF i < j THEN s[i] ELSE s[i + 1]
<1>1. Arena!Abstract!Contains(s, e) <=> e \in ToSet(s)
  BY DEF Arena!Abstract!Contains, ToSet
<1>2. \A n : Arena!Abstract!RemoveAt(s, n) = RemoveAt(s, n)
  BY DEF Arena!Abstract!RemoveAt, RemoveAt
<1> DEFINE r == Arena!Abstract!Without(s, e)
<1>3. CASE e \notin ToSet(s)
  <2>1. r = s
    BY <1>1, <1>3 DEF Arena!Abstract!Without
  <2>2. \A j \in 1 .. Len(s) : s[j] # e
    BY <1>3 DEF ToSet
  <2> HIDE DEF r
  <2>3. QED
    BY <1>3, <2>1, <2>2 DEF r
<1>4. CASE e \in ToSet(s)
  <2>1. PICK j \in 1 .. Len(s) : s[j] = e
    BY <1>4 DEF ToSet
  <2>2. DOMAIN s = 1 .. Len(s) /\ \A k \in 1 .. Len(s) : s[k] = e => k = j
    BY <2>1 DEF Distinct
  <2>3. Arena!Abstract!Place(s, e) = j
    BY <2>1, <2>2 DEF Arena!Abstract!Place
  <2>4. r = RemoveAt(s, j)
    BY <1>1, <1>2, <1>4, <2>3 DEF Arena!Abstract!Without
  <2>5. /\ RemoveAt(s, j) \in Seq(V) /\ Len(RemoveAt(s, j)) = Len(s) - 1
        /\ \A i \in 1 .. Len(s) - 1 : RemoveAt(s, j)[i] = IF i < j THEN s[i] ELSE s[i + 1]
    BY RemovedAt
  <2>6. Distinct(RemoveAt(s, j)) /\ ToSet(RemoveAt(s, j)) = ToSet(s) \ {e}
    BY <2>1, TakeOut
  <2> HIDE DEF r
  <2>7. QED
    BY <1>4, <2>2, <2>4, <2>5, <2>6 DEF r
<1>5. QED
  BY <1>3, <1>4

LEMMA PutBeforeIs ==
  ASSUME NEW V, NEW s \in Seq(V), Distinct(s), NEW e \in V, e \notin ToSet(s),
         NEW l, l \notin ToSet(s), NEW j \in 1 .. Len(s) + 1
  PROVE  LET r == Arena!Abstract!PutBefore(s, At(s, l, j), e) IN
         /\ r \in Seq(V) /\ Distinct(r) /\ ToSet(r) = ToSet(s) \cup {e}
         /\ Len(r) = Len(s) + 1
         /\ \A i \in 1 .. Len(s) + 1 : r[i] = IF i < j THEN s[i] ELSE IF i = j THEN e ELSE s[i - 1]
<1> DEFINE r == Arena!Abstract!PutBefore(s, At(s, l, j), e)
           b == At(s, l, j)
<1>0. Len(s) \in Nat /\ \A i \in 1 .. Len(s) : s[i] \in V
  OBVIOUS
<1>1. Arena!Abstract!Contains(s, b) <=> b \in ToSet(s)
  BY DEF Arena!Abstract!Contains, ToSet
<1>2. /\ r \in Seq(V) /\ Len(r) = Len(s) + 1
      /\ \A i \in 1 .. Len(s) + 1 : r[i] = IF i < j THEN s[i] ELSE IF i = j THEN e ELSE s[i - 1]
  <2>1. CASE j = Len(s) + 1
    <3>1. b = l
      BY <1>0, <2>1 DEF At
    <3>2. r = Append(s, e)
      BY <1>1, <3>1 DEF Arena!Abstract!PutBefore
    <3> HIDE DEF r
    <3>3. /\ r \in Seq(V) /\ Len(r) = Len(s) + 1 /\ r[Len(s) + 1] = e
          /\ \A i \in 1 .. Len(s) : r[i] = s[i]
      BY <3>2
    <3>4. \A i \in 1 .. Len(s) + 1 : i = j \/ (i \in 1 .. Len(s) /\ i < j)
      BY <1>0, <2>1
    <3>5. QED
      BY <2>1, <3>3, <3>4
  <2>2. CASE j # Len(s) + 1
    <3>1. j \in 1 .. Len(s) /\ b = s[j] /\ b \in ToSet(s)
      BY <1>0, <2>2 DEF At, ToSet
    <3>2. DOMAIN s = 1 .. Len(s) /\ \A k \in 1 .. Len(s) : s[k] = b => k = j
      BY <3>1 DEF Distinct
    <3>3. Arena!Abstract!Place(s, b) = j
      BY <3>1, <3>2 DEF Arena!Abstract!Place
    <3>4. r = SubSeq(s, 1, j - 1) \o <<e>> \o SubSeq(s, j, Len(s))
      BY <1>1, <3>1, <3>3 DEF Arena!Abstract!PutBefore, Arena!Abstract!InsertAt
    <3> DEFINE x == SubSeq(s, 1, j - 1)
               y == SubSeq(s, j, Len(s))
    <3>5. x \in Seq(V) /\ Len(x) = j - 1 /\ \A i \in 1 .. j - 1 : x[i] = s[i]
      BY <1>0, <3>1, PrefixOf
    <3>6. y \in Seq(V) /\ Len(y) = Len(s) - j + 1 /\ \A i \in 1 .. Len(s) - j + 1 : y[i] = s[j + i - 1]
      BY <1>0, <3>1
    <3> HIDE DEF r, x, y
    <3>7. <<e>> \in Seq(V) /\ Len(<<e>>) = 1 /\ <<e>>[1] = e
      OBVIOUS
    <3> DEFINE z == x \o <<e>>
    <3>8. z \in Seq(V) /\ Len(z) = j /\ z[j] = e /\ \A i \in 1 .. j - 1 : z[i] = s[i]
      BY <3>1, <3>5, <3>7
    <3> HIDE DEF z
    <3>9. r = z \o y
      BY <3>4 DEF x, y, z
    <3>10. r \in Seq(V) /\ Len(r) = Len(s) + 1
      <4>1. r \in Seq(V) /\ Len(r) = Len(z) + Len(y)
        BY <3>6, <3>8, <3>9, ConcatProperties
      <4>2. QED
        BY <1>0, <3>1, <3>6, <3>8, <4>1
    <3>11. ASSUME NEW i \in 1 .. Len(s) + 1 PROVE r[i] = IF i < j THEN s[i] ELSE IF i = j THEN e ELSE s[i - 1]
      <4>1. CASE i <= j
        <5>1. i \in 1 .. Len(z)
          BY <3>1, <3>8, <4>1
        <5>2. r[i] = z[i]
          BY <3>6, <3>8, <3>9, <5>1
        <5>3. i < j => i \in 1 .. j - 1
          BY <3>1
        <5>4. QED
          BY <3>1, <3>8, <4>1, <5>2, <5>3
      <4>2. CASE i > j
        <5>1. i - j \in 1 .. Len(s) - j + 1 /\ j + (i - j) = i /\ j + (i - j) - 1 = i - 1
          BY <1>0, <3>1, <4>2
        <5>2. r[i] = y[i - j]
          BY <3>1, <3>6, <3>8, <3>9, <4>2, <5>1
        <5>3. QED
          BY <3>1, <3>6, <4>2, <5>1, <5>2
      <4>3. QED
        BY <3>1, <4>1, <4>2
    <3>12. QED
      BY <3>10, <3>11
  <2>3. QED
    BY <2>1, <2>2
<1> HIDE DEF r, b
<1>3. ASSUME NEW i \in 1 .. Len(s) + 1
      PROVE  \/ i < j /\ i \in 1 .. Len(s) /\ r[i] = s[i]
             \/ i = j /\ r[i] = e
             \/ i > j /\ i - 1 \in 1 .. Len(s) /\ r[i] = s[i - 1]
  BY <1>0, <1>2
<1>4. \A i \in 1 .. Len(s) : s[i] # e
  BY DEF ToSet
<1>5. Distinct(r)
  <2>1. ASSUME NEW a \in 1 .. Len(s) + 1, NEW c \in 1 .. Len(s) + 1, r[a] = r[c] PROVE a = c
    <3>1. \A m, n \in 1 .. Len(s) : s[m] = s[n] => m = n
      BY DEF Distinct
    <3>2. CASE a = j
      BY <1>3, <1>4, <2>1, <3>2
    <3>3. CASE c = j
      BY <1>3, <1>4, <2>1, <3>3
    <3>4. CASE a # j /\ c # j
      <4> DEFINE m == IF a < j THEN a ELSE a - 1
                 n == IF c < j THEN c ELSE c - 1
      <4>1. m \in 1 .. Len(s) /\ r[a] = s[m]
        BY <1>3, <3>4
      <4>2. n \in 1 .. Len(s) /\ r[c] = s[n]
        BY <1>3, <3>4
      <4> HIDE DEF m, n
      <4>3. m = n
        BY <2>1, <3>1, <4>1, <4>2
      <4>4. QED
        BY <1>0, <3>4, <4>3 DEF m, n
    <3>5. QED
      BY <3>2, <3>3, <3>4
  <2>2. QED
    BY <1>2, <2>1 DEF Distinct
<1>6. ToSet(r) = ToSet(s) \cup {e}
  <2>1. ASSUME NEW x \in ToSet(r) PROVE x \in ToSet(s) \cup {e}
    <3>1. PICK i \in 1 .. Len(s) + 1 : x = r[i]
      BY <1>2 DEF ToSet
    <3>2. \A k \in 1 .. Len(s) : s[k] \in ToSet(s)
      BY DEF ToSet
    <3>3. QED
      BY <1>3, <3>1, <3>2
  <2>2. e \in ToSet(r)
    BY <1>2, <1>3 DEF ToSet
  <2>3. ASSUME NEW i \in 1 .. Len(s) PROVE s[i] \in ToSet(r)
    <3>1. CASE i < j
      <4>1. i \in 1 .. Len(s) + 1 /\ r[i] = s[i]
        BY <1>0, <1>2, <3>1
      <4>2. QED
        BY <1>2, <4>1 DEF ToSet
    <3>2. CASE ~(i < j)
      <4>1. i + 1 \in 1 .. Len(s) + 1 /\ i + 1 - 1 = i /\ ~(i + 1 < j) /\ i + 1 # j
        BY <1>0, <3>2
      <4>2. r[i + 1] = s[i] /\ i + 1 \in 1 .. Len(r)
        BY <1>2, <4>1
      <4>3. \A k \in 1 .. Len(r) : r[k] \in ToSet(r)
        BY DEF ToSet
      <4>4. QED
        BY <4>2, <4>3
    <3>3. QED
      BY <3>1, <3>2
  <2>4. \A x \in ToSet(s) : \E i \in 1 .. Len(s) : x = s[i]
    BY DEF ToSet
  <2>5. QED
    BY <2>1, <2>2, <2>3, <2>4
<1>7. QED
  BY <1>2, <1>5, <1>6 DEF r, b

(***************************************************************************)
(* An element e leaves its list.                                           *)
(***************************************************************************)
UnlinkedFrom(nd, nd2, V, e) ==
  \A i \in V \ {e} :
    /\ nd2[i].next = IF i = nd[e].prev THEN nd[e].next ELSE nd[i].next
    /\ nd2[i].prev = IF i = nd[e].next THEN nd[e].prev ELSE nd[i].prev
    /\ nd2[i].data = nd[i].data

ListsWithout(L, e) == [l \in DOMAIN L |-> Arena!Abstract!Without(L[l], e)]

LEMMA RingWithout ==
  ASSUME NEW nd, NEW V, NEW L, Linked(nd, V, L), NEW e \in V \ DOMAIN L,
         NEW nd2, UnlinkedFrom(nd, nd2, V, e), NEW l \in DOMAIN L
  PROVE  LET r == Arena!Abstract!Without(L[l], e) IN
         /\ r \in Seq((V \ {e}) \ DOMAIN L)
         /\ Ring(nd2, r, l)
         /\ ToSet(r) = ToSet(L[l]) \ {e}
<1> DEFINE s == L[l]
           r == Arena!Abstract!Without(s, e)
           n == Len(s)
<1>0. /\ s \in Seq(V \ DOMAIN L) /\ l \in V /\ n \in Nat /\ Distinct(s) /\ l \notin ToSet(s)
      /\ OnRing(V, L, s, l) /\ Neighbours(nd, s, l)
  BY InARing
<1>1. /\ s \in Seq(V \ DOMAIN L) /\ l \in V /\ n \in Nat /\ Distinct(s) /\ l \notin ToSet(s)
      /\ \A k \in 0 .. n + 1 : At(s, l, k) \in V /\ (At(s, l, k) \in DOMAIN L <=> At(s, l, k) = l)
  BY <1>0 DEF OnRing
<1>2. \A k \in 0 .. n : /\ nd[At(s, l, k)].next = At(s, l, k + 1)
                        /\ nd[At(s, l, k + 1)].prev = At(s, l, k)
  BY <1>0 DEF Neighbours
<1>3. /\ At(s, l, 0) = l /\ At(s, l, n + 1) = l
      /\ \A k \in 1 .. n : At(s, l, k) = s[k] /\ s[k] # l
      /\ \A k \in 0 .. n + 1 : At(s, l, k) = l => k = 0 \/ k = n + 1
      /\ \A k \in 0 .. n + 1, m \in 1 .. n : At(s, l, k) = s[m] => k = m
  BY <1>1, AtIsOnce
<1>4. /\ r \in Seq(V \ DOMAIN L) /\ Distinct(r) /\ ToSet(r) = ToSet(s) \ {e}
      /\ e \notin ToSet(s) => r = s
      /\ \A j \in 1 .. n : s[j] = e =>
              /\ Len(r) = n - 1
              /\ \A i \in 1 .. n - 1 : r[i] = IF i < j THEN s[i] ELSE s[i + 1]
  BY <1>1, WithoutIs
<1>5. e \in V /\ e # l /\ nd[nd[e].prev].next = e /\ nd[nd[e].next].prev = e
  BY DEF Linked
<1> HIDE DEF s, r, n
<1>10. r \in Seq((V \ {e}) \ DOMAIN L)
  <2>1. Len(r) \in Nat /\ \A i \in 1 .. Len(r) : r[i] \in V \ DOMAIN L /\ r[i] \in ToSet(r)
    BY <1>4 DEF ToSet
  <2>2. \A i \in 1 .. Len(r) : r[i] \in (V \ {e}) \ DOMAIN L
    BY <1>4, <2>1
  <2>3. QED
    BY <1>4, <2>2
\* Whose successor is e
<1>6. ASSUME NEW k \in 0 .. n, At(s, l, k) # e
      PROVE  nd2[At(s, l, k)].next = IF At(s, l, k + 1) = e THEN nd[e].next ELSE At(s, l, k + 1)
  <2>1. At(s, l, k) \in V \ {e} /\ k \in 0 .. n + 1
    BY <1>1, <1>6
  <2>2. At(s, l, k) = nd[e].prev <=> At(s, l, k + 1) = e
    BY <1>2, <1>5
  <2>3. QED
    BY <1>2, <2>1, <2>2 DEF UnlinkedFrom
<1>7. CASE e \notin ToSet(s)
  <2>1. \A k \in 0 .. n + 1 : At(s, l, k) # e
    BY <1>5, <1>7 DEF At, ToSet, n
  <2>2. \A k \in 0 .. n : nd2[At(s, l, k)].next = At(s, l, k + 1)
    <3>1. \A k \in 0 .. n : k \in 0 .. n + 1 /\ k + 1 \in 0 .. n + 1
      BY <1>1
    <3>2. QED
      BY <1>6, <2>1, <3>1
  <2>3. Ring(nd2, r, l)
    BY <1>1, <1>4, <1>7, <2>2 DEF Ring, n
  <2>4. QED
    BY <1>4, <1>10, <2>3 DEF r, s
<1>8. CASE e \in ToSet(s)
  <2>1. PICK j \in 1 .. n : s[j] = e
    BY <1>8 DEF ToSet, n
  <2>2. /\ Len(r) = n - 1
        /\ \A i \in 1 .. n - 1 : r[i] = IF i < j THEN s[i] ELSE s[i + 1]
    BY <1>4, <2>1
  <2>3. ASSUME NEW k \in 0 .. n PROVE At(r, l, k) = IF k < j THEN At(s, l, k) ELSE At(s, l, k + 1)
    <3>1. CASE k \in 1 .. n - 1
      <4>1. At(r, l, k) = r[k] /\ k \in 1 .. n /\ k + 1 \in 1 .. n
        BY <1>1, <2>2, <3>1 DEF At
      <4>2. QED
        BY <1>3, <2>2, <3>1, <4>1
    <3>2. CASE k = 0
      BY <1>1, <1>3, <2>1, <2>2, <3>2 DEF At
    <3>3. CASE k = n /\ k # 0
      <4>1. At(r, l, k) = l /\ ~(k < j)
        BY <1>1, <2>1, <2>2, <3>3 DEF At
      <4>2. QED
        BY <1>3, <3>3, <4>1
    <3>4. QED
      BY <1>1, <3>1, <3>2, <3>3
  <2>4. \A k \in 0 .. n + 1 : At(s, l, k) = e <=> k = j
    BY <1>1, <1>3, <2>1
  <2>5. nd[e].next = At(s, l, j + 1)
    BY <1>1, <1>2, <1>3, <2>1
  <2>6. ASSUME NEW k \in 0 .. n - 1 PROVE nd2[At(r, l, k)].next = At(r, l, k + 1)
    <3>0. k \in 0 .. n /\ k + 1 \in 0 .. n /\ k + 1 \in 0 .. n + 1 /\ k + 2 \in 0 .. n + 1 /\ k + 1 + 1 = k + 2
      BY <1>1, <2>6
    <3>1. CASE k < j
      <4>1. At(r, l, k) = At(s, l, k) /\ At(s, l, k) # e
        <5>1. k \in 0 .. n + 1 /\ k # j
          BY <1>1, <3>0, <3>1
        <5>2. QED
          BY <2>3, <2>4, <3>0, <3>1, <5>1
      <4>2. nd2[At(r, l, k)].next = IF k + 1 = j THEN At(s, l, j + 1) ELSE At(s, l, k + 1)
        BY <1>6, <2>4, <2>5, <3>0, <4>1
      <4>3. At(r, l, k + 1) = IF k + 1 < j THEN At(s, l, k + 1) ELSE At(s, l, k + 1 + 1)
        BY <2>3, <3>0
      <4>4. k + 1 < j \/ k + 1 = j
        BY <3>1
      <4>5. QED
        BY <4>2, <4>3, <4>4
    <3>2. CASE ~(k < j)
      <4>1. At(r, l, k) = At(s, l, k + 1) /\ At(s, l, k + 1) # e /\ At(s, l, k + 2) # e
        BY <2>3, <2>4, <3>0, <3>2
      <4>2. nd2[At(s, l, k + 1)].next = At(s, l, k + 2)
        BY <1>6, <3>0, <4>1
      <4>3. At(r, l, k + 1) = At(s, l, k + 2)
        BY <2>3, <3>0, <3>2
      <4>4. QED
        BY <4>1, <4>2, <4>3
    <3>3. QED
      BY <3>1, <3>2
  <2>7. Ring(nd2, r, l)
    BY <1>1, <1>4, <2>2, <2>6 DEF Ring
  <2>8. QED
    BY <1>4, <1>10, <2>7 DEF r, s
<1>9. QED
  BY <1>7, <1>8

LEMMA Unlinking ==
  ASSUME NEW nd, NEW V, NEW L, Linked(nd, V, L), NEW e \in V \ DOMAIN L,
         NEW nd2, V \ {e} \subseteq DOMAIN nd2, UnlinkedFrom(nd, nd2, V, e)
  PROVE  Linked(nd2, V \ {e}, ListsWithout(L, e))
<1> DEFINE M == ListsWithout(L, e)
<1>1. /\ \A i \in V : /\ nd[i].prev \in V /\ nd[nd[i].prev].next = i
                      /\ nd[i].next \in V /\ nd[nd[i].next].prev = i
                      /\ nd[i].data <=> i \notin DOMAIN L
      /\ DOMAIN L \subseteq V /\ e \in V /\ e \notin DOMAIN L
      /\ \A i \in V \ DOMAIN L : \E l \in DOMAIN L : i \in ToSet(L[l])
  BY DEF Linked
<1>2. nd[e].prev # e /\ nd[e].next # e
  BY OnOneList
<1>3. DOMAIN M = DOMAIN L /\ \A l \in DOMAIN L : M[l] = Arena!Abstract!Without(L[l], e)
  BY DEF ListsWithout
<1> HIDE DEF M
<1>4. ASSUME NEW i \in V \ {e}
      PROVE  /\ nd2[i].prev \in V \ {e} /\ nd2[nd2[i].prev].next = i
             /\ nd2[i].next \in V \ {e} /\ nd2[nd2[i].next].prev = i
             /\ nd2[i].data <=> i \notin DOMAIN M
  <2> DEFINE p == nd[e].prev
             n == nd[e].next
  <2>1. /\ nd2[i].next = IF i = p THEN n ELSE nd[i].next
        /\ nd2[i].prev = IF i = n THEN p ELSE nd[i].prev
        /\ nd2[i].data = nd[i].data
    BY DEF UnlinkedFrom
  <2>2. /\ p \in V \ {e} /\ n \in V \ {e} /\ nd[p].next = e /\ nd[n].prev = e
    BY <1>1, <1>2
  <2>3. /\ \A x \in V : nd[x].next = e <=> x = p
        /\ \A x \in V : nd[x].prev = e <=> x = n
    BY <1>1
  <2>4. \A x \in V \ {e} : /\ nd2[x].next = IF x = p THEN n ELSE nd[x].next
                           /\ nd2[x].prev = IF x = n THEN p ELSE nd[x].prev
    BY DEF UnlinkedFrom
  <2> HIDE DEF p, n
  <2>5. nd2[i].prev \in V \ {e} /\ nd2[nd2[i].prev].next = i
    <3>1. CASE i = n
      BY <2>1, <2>2, <2>4, <3>1
    <3>2. CASE i # n
      <4>1. nd2[i].prev = nd[i].prev /\ nd[i].prev \in V \ {e} /\ nd[nd[i].prev].next = i
        BY <1>1, <2>1, <2>3, <3>2
      <4>2. nd[i].prev # p
        BY <2>2, <4>1
      <4>3. QED
        BY <2>4, <4>1, <4>2
    <3>3. QED
      BY <3>1, <3>2
  <2>6. nd2[i].next \in V \ {e} /\ nd2[nd2[i].next].prev = i
    <3>1. CASE i = p
      BY <2>1, <2>2, <2>4, <3>1
    <3>2. CASE i # p
      <4>1. nd2[i].next = nd[i].next /\ nd[i].next \in V \ {e} /\ nd[nd[i].next].prev = i
        BY <1>1, <2>1, <2>3, <3>2
      <4>2. nd[i].next # n
        BY <2>2, <4>1
      <4>3. QED
        BY <2>4, <4>1, <4>2
    <3>3. QED
      BY <3>1, <3>2
  <2>7. QED
    BY <1>1, <1>3, <2>1, <2>5, <2>6
<1>5. \A l \in DOMAIN M : M[l] \in Seq((V \ {e}) \ DOMAIN M) /\ Ring(nd2, M[l], l) /\ ToSet(M[l]) = ToSet(L[l]) \ {e}
  <2>1. ASSUME NEW l \in DOMAIN M
        PROVE  M[l] \in Seq((V \ {e}) \ DOMAIN M) /\ Ring(nd2, M[l], l) /\ ToSet(M[l]) = ToSet(L[l]) \ {e}
    <3>1. l \in DOMAIN L /\ M[l] = Arena!Abstract!Without(L[l], e)
      BY <1>3
    <3>2. /\ Arena!Abstract!Without(L[l], e) \in Seq((V \ {e}) \ DOMAIN L)
          /\ Ring(nd2, Arena!Abstract!Without(L[l], e), l)
          /\ ToSet(Arena!Abstract!Without(L[l], e)) = ToSet(L[l]) \ {e}
      BY <3>1, RingWithout
    <3>3. QED
      BY <1>3, <3>1, <3>2
  <2>2. QED
    BY <2>1
<1>6. \A i \in (V \ {e}) \ DOMAIN M : \E l \in DOMAIN M : i \in ToSet(M[l])
  BY <1>1, <1>3, <1>5
<1>7. DOMAIN M \subseteq V \ {e}
  BY <1>1, <1>3
<1>8. Linked(nd2, V \ {e}, M)
  BY <1>4, <1>5, <1>6, <1>7 DEF Linked
<1>9. QED
  BY <1>8 DEF M

(***************************************************************************)
(* An element e is linked in before b.                                     *)
(***************************************************************************)
LinkedBefore(nd, nd2, V, b, e) ==
  /\ \A i \in V : /\ nd2[i].next = IF i = nd[b].prev THEN e ELSE nd[i].next
                  /\ nd2[i].prev = IF i = b THEN e ELSE nd[i].prev
                  /\ nd2[i].data = nd[i].data
  /\ nd2[e].prev = nd[b].prev /\ nd2[e].next = b /\ nd2[e].data = TRUE

ListWith(s, l, b, e) == IF b = l \/ b \in ToSet(s) THEN Arena!Abstract!PutBefore(s, b, e) ELSE s

ListsWith(L, b, e) == [l \in DOMAIN L |-> ListWith(L[l], l, b, e)]

Gains(r, s, l, b, e) == ToSet(r) = IF b = l \/ b \in ToSet(s) THEN ToSet(s) \cup {e} ELSE ToSet(s)

LEMMA RingWith ==
  ASSUME NEW nd, NEW V, NEW L, Linked(nd, V, L), NEW b \in V, NEW e, e \notin V,
         NEW nd2, LinkedBefore(nd, nd2, V, b, e), NEW l \in DOMAIN L
  PROVE  LET r == ListWith(L[l], l, b, e) IN
         /\ r \in Seq((V \cup {e}) \ DOMAIN L)
         /\ Ring(nd2, r, l)
         /\ Gains(r, L[l], l, b, e)
<1> DEFINE s == L[l]
           r == ListWith(s, l, b, e)
           n == Len(s)
           W == (V \cup {e}) \ DOMAIN L
<1>0. /\ s \in Seq(V \ DOMAIN L) /\ l \in V /\ n \in Nat /\ Distinct(s) /\ l \notin ToSet(s)
      /\ OnRing(V, L, s, l) /\ Neighbours(nd, s, l)
  BY InARing
<1>1. \A k \in 0 .. n + 1 : At(s, l, k) \in V /\ (At(s, l, k) \in DOMAIN L <=> At(s, l, k) = l)
  BY <1>0 DEF OnRing
<1>2. \A k \in 0 .. n : /\ nd[At(s, l, k)].next = At(s, l, k + 1)
                        /\ nd[At(s, l, k + 1)].prev = At(s, l, k)
  BY <1>0 DEF Neighbours
<1>3. /\ At(s, l, 0) = l /\ At(s, l, n + 1) = l
      /\ \A k \in 1 .. n : At(s, l, k) = s[k] /\ s[k] # l
      /\ \A k \in 0 .. n + 1 : At(s, l, k) = l => k = 0 \/ k = n + 1
      /\ \A k \in 0 .. n + 1, m \in 1 .. n : At(s, l, k) = s[m] => k = m
  BY <1>0, AtIsOnce
<1>4. e # l /\ e \notin DOMAIN L /\ nd[nd[b].prev].next = b
  BY DEF Linked
<1>5. s \in Seq(W) /\ e \in W /\ e \notin ToSet(s)
  BY <1>0, <1>4 DEF ToSet
<1> HIDE DEF s, r, n, W
<1>6. ASSUME NEW k \in 0 .. n
      PROVE  nd2[At(s, l, k)].next = IF At(s, l, k + 1) = b THEN e ELSE At(s, l, k + 1)
  <2>1. At(s, l, k) \in V
    BY <1>0, <1>1
  <2>2. At(s, l, k) = nd[b].prev <=> At(s, l, k + 1) = b
    BY <1>2, <1>4
  <2>3. QED
    BY <1>2, <2>1, <2>2 DEF LinkedBefore
<1>7. CASE ~(b = l \/ b \in ToSet(s))
  <2>1. r = s
    BY <1>7 DEF r, ListWith
  <2>2. \A k \in 0 .. n + 1 : At(s, l, k) # b
    BY <1>7 DEF At, ToSet, n
  <2>3. \A k \in 0 .. n : nd2[At(s, l, k)].next = At(s, l, k + 1)
    <3>1. \A k \in 0 .. n : k + 1 \in 0 .. n + 1
      BY <1>0
    <3>2. QED
      BY <1>6, <2>2, <3>1
  <2>4. Ring(nd2, r, l)
    BY <1>0, <2>1, <2>3 DEF Ring, n
  <2>5. QED
    BY <1>5, <1>7, <2>1, <2>4 DEF r, s, W, Gains
<1>8. CASE b = l \/ b \in ToSet(s)
  <2>1. PICK j \in 1 .. n + 1 : /\ At(s, l, j) = b
                                /\ \A k \in 0 .. n : At(s, l, k + 1) = b <=> k + 1 = j
    <3>0. n + 1 \in 1 .. n + 1 /\ \A k \in 0 .. n : k + 1 \in 0 .. n + 1 /\ k + 1 # 0
      BY <1>0
    <3>1. CASE b = l
      <4>1. \A k \in 0 .. n : At(s, l, k + 1) = b <=> k + 1 = n + 1
        BY <1>3, <3>0, <3>1
      <4>2. QED
        BY <1>3, <3>0, <3>1, <4>1
    <3>2. CASE b \in ToSet(s)
      <4>1. PICK j \in 1 .. n : b = s[j]
        BY <3>2 DEF ToSet, n
      <4>2. j \in 1 .. n + 1 /\ At(s, l, j) = b
        BY <1>0, <1>3, <4>1
      <4>3. \A k \in 0 .. n : At(s, l, k + 1) = b <=> k + 1 = j
        BY <1>3, <3>0, <4>1, <4>2
      <4>4. QED
        BY <4>2, <4>3
    <3>3. QED
      BY <1>8, <3>1, <3>2
  <2>2. r = Arena!Abstract!PutBefore(s, At(s, l, j), e)
    BY <1>8, <2>1 DEF r, ListWith
  <2>3. /\ r \in Seq(W) /\ Distinct(r) /\ ToSet(r) = ToSet(s) \cup {e} /\ Len(r) = n + 1
        /\ \A i \in 1 .. n + 1 : r[i] = IF i < j THEN s[i] ELSE IF i = j THEN e ELSE s[i - 1]
    <3>1. j \in 1 .. Len(s) + 1
      BY DEF n
    <3>2. QED
      BY <1>0, <1>5, <2>2, <3>1, PutBeforeIs DEF n
  <2>4. ASSUME NEW k \in 0 .. n + 2
        PROVE  At(r, l, k) = IF k < j THEN At(s, l, k) ELSE IF k = j THEN e ELSE At(s, l, k - 1)
    <3>1. CASE k \in 1 .. n + 1
      <4>1. At(r, l, k) = r[k]
        BY <2>3, <3>1 DEF At
      <4>2. k < j => k \in 1 .. n /\ At(s, l, k) = s[k]
        BY <1>0, <1>3, <3>1
      <4>3. k > j => k - 1 \in 1 .. n /\ At(s, l, k - 1) = s[k - 1]
        BY <1>0, <1>3, <3>1
      <4>4. k < j \/ k = j \/ k > j
        BY <1>0, <3>1
      <4>5. QED
        BY <1>0, <2>3, <3>1, <4>1, <4>2, <4>3, <4>4
    <3>2. CASE k = 0
      BY <1>0, <1>3, <2>3, <3>2 DEF At
    <3>3. CASE k = n + 2
      <4>1. At(r, l, k) = l /\ ~(k < j) /\ k # j /\ k - 1 = n + 1
        BY <1>0, <2>3, <3>3 DEF At
      <4>2. QED
        BY <1>3, <4>1
    <3>4. QED
      BY <1>0, <3>1, <3>2, <3>3
  <2>5. ASSUME NEW k \in 0 .. n + 1 PROVE nd2[At(r, l, k)].next = At(r, l, k + 1)
    <3>0. k \in 0 .. n + 2 /\ k + 1 \in 0 .. n + 2 /\ k + 1 - 1 = k
      BY <1>0
    <3>1. CASE k < j
      <4>1. At(r, l, k) = At(s, l, k) /\ k \in 0 .. n
        BY <1>0, <2>4, <3>0, <3>1
      <4>2. nd2[At(s, l, k)].next = IF k + 1 = j THEN e ELSE At(s, l, k + 1)
        BY <1>6, <2>1, <4>1
      <4>3. At(r, l, k + 1) = IF k + 1 < j THEN At(s, l, k + 1) ELSE IF k + 1 = j THEN e ELSE At(s, l, k + 1 - 1)
        BY <2>4, <3>0
      <4>4. k + 1 < j \/ k + 1 = j
        BY <3>1
      <4>5. QED
        BY <4>1, <4>2, <4>3, <4>4
    <3>2. CASE k = j
      <4>1. At(r, l, k) = e /\ At(r, l, k + 1) = At(s, l, j)
        BY <2>4, <3>0, <3>2
      <4>2. nd2[e].next = b
        BY DEF LinkedBefore
      <4>3. QED
        BY <2>1, <4>1, <4>2
    <3>3. CASE k > j
      <4>1. k - 1 \in 0 .. n /\ k - 1 + 1 = k /\ ~(k < j) /\ k # j /\ ~(k + 1 < j) /\ k + 1 # j
        BY <1>0, <3>3
      <4>2. At(r, l, k) = At(s, l, k - 1) /\ At(r, l, k + 1) = At(s, l, k)
        BY <2>4, <3>0, <4>1
      <4>3. nd2[At(s, l, k - 1)].next = IF At(s, l, k - 1 + 1) = b THEN e ELSE At(s, l, k - 1 + 1)
        BY <1>6, <4>1
      <4>4. At(s, l, k - 1 + 1) = b <=> k - 1 + 1 = j
        BY <2>1, <4>1
      <4>5. QED
        BY <4>1, <4>2, <4>3, <4>4
    <3>4. QED
      BY <3>1, <3>2, <3>3
  <2>6. Ring(nd2, r, l)
    BY <1>0, <1>4, <2>3, <2>5 DEF Ring
  <2>7. QED
    BY <1>8, <2>3, <2>6 DEF r, s, W, Gains
<1>9. QED
  BY <1>7, <1>8

LEMMA Inserting ==
  ASSUME NEW nd, NEW V, NEW L, Linked(nd, V, L), NEW b \in V, NEW e, e \notin V,
         NEW nd2, V \cup {e} \subseteq DOMAIN nd2, LinkedBefore(nd, nd2, V, b, e)
  PROVE  Linked(nd2, V \cup {e}, ListsWith(L, b, e))
<1> DEFINE M == ListsWith(L, b, e)
           p == nd[b].prev
<1>1. /\ \A i \in V : /\ nd[i].prev \in V /\ nd[nd[i].prev].next = i
                      /\ nd[i].next \in V /\ nd[nd[i].next].prev = i
                      /\ nd[i].data <=> i \notin DOMAIN L
      /\ DOMAIN L \subseteq V /\ e \notin DOMAIN L
      /\ \A i \in V \ DOMAIN L : \E l \in DOMAIN L : i \in ToSet(L[l])
  BY DEF Linked
<1>2. DOMAIN M = DOMAIN L /\ \A l \in DOMAIN L : M[l] = ListWith(L[l], l, b, e)
  BY DEF ListsWith
<1>3. /\ \A i \in V : /\ nd2[i].next = IF i = p THEN e ELSE nd[i].next
                      /\ nd2[i].prev = IF i = b THEN e ELSE nd[i].prev
                      /\ nd2[i].data = nd[i].data
      /\ nd2[e].prev = p /\ nd2[e].next = b /\ nd2[e].data = TRUE
  BY DEF LinkedBefore
<1>4. p \in V /\ nd[p].next = b
  BY <1>1
<1> HIDE DEF M, p
<1>5. ASSUME NEW i \in V
      PROVE  /\ nd2[i].prev \in V \cup {e} /\ nd2[nd2[i].prev].next = i
             /\ nd2[i].next \in V \cup {e} /\ nd2[nd2[i].next].prev = i
             /\ nd2[i].data <=> i \notin DOMAIN M
  <2>1. nd2[i].prev \in V \cup {e} /\ nd2[nd2[i].prev].next = i
    <3>1. CASE i = b
      BY <1>3, <3>1
    <3>2. CASE i # b
      <4>1. nd2[i].prev = nd[i].prev /\ nd[i].prev \in V /\ nd[nd[i].prev].next = i
        BY <1>1, <1>3, <3>2
      <4>2. nd[i].prev # p
        BY <1>4, <3>2, <4>1
      <4>3. QED
        BY <1>3, <4>1, <4>2
    <3>3. QED
      BY <3>1, <3>2
  <2>2. nd2[i].next \in V \cup {e} /\ nd2[nd2[i].next].prev = i
    <3>1. CASE i = p
      BY <1>3, <3>1
    <3>2. CASE i # p
      <4>1. nd2[i].next = nd[i].next /\ nd[i].next \in V /\ nd[nd[i].next].prev = i
        BY <1>1, <1>3, <3>2
      <4>2. nd[i].next # b
        BY <3>2, <4>1 DEF p
      <4>3. QED
        BY <1>3, <4>1, <4>2
    <3>3. QED
      BY <3>1, <3>2
  <2>3. QED
    BY <1>1, <1>2, <1>3, <2>1, <2>2
<1>6. /\ nd2[e].prev \in V \cup {e} /\ nd2[nd2[e].prev].next = e
      /\ nd2[e].next \in V \cup {e} /\ nd2[nd2[e].next].prev = e
      /\ nd2[e].data <=> e \notin DOMAIN M
  BY <1>1, <1>2, <1>3, <1>4
<1>7. ASSUME NEW l \in DOMAIN M
      PROVE  /\ M[l] \in Seq((V \cup {e}) \ DOMAIN M) /\ Ring(nd2, M[l], l)
             /\ (b = l \/ b \in ToSet(L[l])) => ToSet(M[l]) = ToSet(L[l]) \cup {e}
             /\ ~(b = l \/ b \in ToSet(L[l])) => ToSet(M[l]) = ToSet(L[l])
  <2>1. l \in DOMAIN L /\ M[l] = ListWith(L[l], l, b, e)
    BY <1>2
  <2> DEFINE r == ListWith(L[l], l, b, e)
  <2>2. r \in Seq((V \cup {e}) \ DOMAIN L) /\ Ring(nd2, r, l)
    BY <2>1, RingWith
  <2>4. Gains(r, L[l], l, b, e)
    BY <2>1, RingWith
  <2>3. QED
    BY <1>2, <2>1, <2>2, <2>4 DEF Gains
<1>8. ASSUME NEW i \in (V \cup {e}) \ DOMAIN M PROVE \E l \in DOMAIN M : i \in ToSet(M[l])
  <2>1. CASE i = e
    <3>1. PICK l \in DOMAIN L : b = l \/ b \in ToSet(L[l])
      BY <1>1
    <3>2. QED
      BY <1>2, <1>7, <2>1, <3>1
  <2>2. CASE i # e
    <3>1. PICK l \in DOMAIN L : i \in ToSet(L[l])
      BY <1>1, <1>2, <2>2
    <3>2. QED
      BY <1>2, <1>7, <3>1
  <2>3. QED
    BY <2>1, <2>2
<1>9. DOMAIN M \subseteq V \cup {e}
  BY <1>1, <1>2
<1>10. Linked(nd2, V \cup {e}, M)
  BY <1>5, <1>6, <1>7, <1>8, <1>9 DEF Linked
<1>11. QED
  BY <1>10 DEF M

(***************************************************************************)
(* A list comes, and a list goes with its elements.                        *)
(***************************************************************************)
LEMMA SameRing ==
  ASSUME NEW nd, NEW s, NEW l, Ring(nd, s, l), NEW nd2,
         \A k \in 0 .. Len(s) : nd2[At(s, l, k)] = nd[At(s, l, k)]
  PROVE  Ring(nd2, s, l)
BY DEF Ring

ListsAnd(L, e) == [l \in DOMAIN L \cup {e} |-> IF l = e THEN <<>> ELSE L[l]]

ListsBut(L, l) == [m \in DOMAIN L \ {l} |-> L[m]]

LEMMA NewList ==
  ASSUME NEW nd, NEW V, NEW L, Linked(nd, V, L), NEW e, e \notin V,
         NEW nd2, V \cup {e} \subseteq DOMAIN nd2, \A i \in V : nd2[i] = nd[i],
         nd2[e].prev = e, nd2[e].next = e, nd2[e].data = FALSE
  PROVE  Linked(nd2, V \cup {e}, ListsAnd(L, e))
<1> DEFINE M == [l \in DOMAIN L \cup {e} |-> IF l = e THEN <<>> ELSE L[l]]
<1>1. /\ \A i \in V : /\ nd[i].prev \in V /\ nd[nd[i].prev].next = i
                      /\ nd[i].next \in V /\ nd[nd[i].next].prev = i
                      /\ nd[i].data <=> i \notin DOMAIN L
      /\ DOMAIN L \subseteq V /\ e \notin DOMAIN L
      /\ \A l \in DOMAIN L : L[l] \in Seq(V \ DOMAIN L) /\ Ring(nd, L[l], l)
      /\ \A i \in V \ DOMAIN L : \E l \in DOMAIN L : i \in ToSet(L[l])
  BY DEF Linked
<1>2. /\ DOMAIN M = DOMAIN L \cup {e} /\ M[e] = <<>>
      /\ \A l \in DOMAIN L : M[l] = L[l]
  BY <1>1
<1> HIDE DEF M
<1>3. (V \cup {e}) \ DOMAIN M = V \ DOMAIN L
  BY <1>1, <1>2
<1>4. \A i \in V \cup {e} : /\ nd2[i].prev \in V \cup {e} /\ nd2[nd2[i].prev].next = i
                            /\ nd2[i].next \in V \cup {e} /\ nd2[nd2[i].next].prev = i
                            /\ nd2[i].data <=> i \notin DOMAIN M
  BY <1>1, <1>2
<1>5. M[e] \in Seq((V \cup {e}) \ DOMAIN M) /\ Ring(nd2, M[e], e)
  <2>1. <<>> \in Seq((V \cup {e}) \ DOMAIN M) /\ Len(<<>>) = 0 /\ ToSet(<<>>) = {} /\ Distinct(<<>>)
    BY DEF ToSet, Distinct
  <2>2. At(<<>>, e, 0) = e /\ At(<<>>, e, 1) = e
    BY <2>1 DEF At
  <2>3. Ring(nd2, <<>>, e)
    BY <2>1, <2>2 DEF Ring
  <2>4. QED
    BY <1>2, <2>1, <2>3
<1>6. ASSUME NEW l \in DOMAIN L PROVE M[l] \in Seq((V \cup {e}) \ DOMAIN M) /\ Ring(nd2, M[l], l)
  <2>1. L[l] \in Seq(V \ DOMAIN L) /\ Ring(nd, L[l], l) /\ Len(L[l]) \in Nat /\ OnRing(V, L, L[l], l)
    BY <1>1, InARing
  <2>2. \A k \in 0 .. Len(L[l]) : nd2[At(L[l], l, k)] = nd[At(L[l], l, k)]
    BY <2>1 DEF OnRing
  <2>3. Ring(nd2, L[l], l)
    BY <2>1, <2>2, SameRing
  <2>4. QED
    BY <1>2, <1>3, <2>1, <2>3
<1>7. \A l \in DOMAIN M : M[l] \in Seq((V \cup {e}) \ DOMAIN M) /\ Ring(nd2, M[l], l)
  BY <1>2, <1>5, <1>6
<1>8. \A i \in (V \cup {e}) \ DOMAIN M : \E l \in DOMAIN M : i \in ToSet(M[l])
  BY <1>1, <1>2, <1>3
<1>9. DOMAIN M \subseteq V \cup {e}
  BY <1>1, <1>2
<1>10. Linked(nd2, V \cup {e}, M)
  BY <1>4, <1>7, <1>8, <1>9 DEF Linked
<1>11. QED
  BY <1>10 DEF M, ListsAnd

LEMMA ListRemoved ==
  ASSUME NEW nd, NEW V, NEW L, Linked(nd, V, L), NEW l \in DOMAIN L,
         NEW nd2, V \ ({l} \cup ToSet(L[l])) \subseteq DOMAIN nd2,
         \A i \in V \ ({l} \cup ToSet(L[l])) : nd2[i] = nd[i]
  PROVE  Linked(nd2, V \ ({l} \cup ToSet(L[l])), ListsBut(L, l))
<1> DEFINE s == L[l]
           n == Len(s)
           W == V \ ({l} \cup ToSet(s))
           M == [m \in DOMAIN L \ {l} |-> L[m]]
<1>1. /\ \A i \in V : /\ nd[i].prev \in V /\ nd[nd[i].prev].next = i
                      /\ nd[i].next \in V /\ nd[nd[i].next].prev = i
                      /\ nd[i].data <=> i \notin DOMAIN L
      /\ DOMAIN L \subseteq V
      /\ \A m \in DOMAIN L : L[m] \in Seq(V \ DOMAIN L) /\ Ring(nd, L[m], m)
      /\ \A i \in V \ DOMAIN L : \E m \in DOMAIN L : i \in ToSet(L[m])
  BY DEF Linked
<1>2. /\ s \in Seq(V \ DOMAIN L) /\ n \in Nat /\ l \notin ToSet(s)
      /\ OnRing(V, L, s, l) /\ Neighbours(nd, s, l)
  BY InARing
<1>3. \A i \in ToSet(s) : i \in V /\ i \notin DOMAIN L
  BY <1>2 DEF ToSet
<1>4. DOMAIN M = DOMAIN L \ {l} /\ \A m \in DOMAIN M : M[m] = L[m]
  OBVIOUS
\* What is next to the list is of the list.
<1>5. \A i \in V : i \in W <=> \A k \in 0 .. n : i # At(s, l, k)
  <2>1. At(s, l, 0) = l /\ 0 \in 0 .. n
    BY <1>2 DEF At, n
  <2>2. \A k \in 1 .. n : At(s, l, k) = s[k] /\ s[k] \in ToSet(s) /\ k \in 0 .. n
    BY <1>2 DEF At, ToSet, n
  <2>3. \A i \in ToSet(s) : \E k \in 1 .. n : i = s[k]
    BY DEF ToSet, n
  <2>4. \A k \in 0 .. n : k = 0 \/ k \in 1 .. n
    BY <1>2
  <2> HIDE DEF n, s
  <2>5. QED
    BY <2>1, <2>2, <2>3, <2>4
<1>6. \A k \in 0 .. n : /\ nd[At(s, l, k)].next = At(s, l, k + 1)
                        /\ nd[At(s, l, k + 1)].prev = At(s, l, k)
  BY <1>2 DEF Neighbours
<1>7. \A k \in 0 .. n + 1 : \E m \in 0 .. n : At(s, l, k) = At(s, l, m)
  <2>1. At(s, l, 0) = l /\ At(s, l, n + 1) = l /\ 0 \in 0 .. n
    BY <1>2 DEF At, n
  <2>2. \A k \in 0 .. n + 1 : k = n + 1 \/ k \in 0 .. n
    BY <1>2
  <2> HIDE DEF n, s
  <2>3. QED
    BY <2>1, <2>2
<1>8. \A k \in 1 .. n + 1 : \E m \in 0 .. n : k = m + 1
  BY <1>2
<1>9. \A k \in 0 .. n : \E m \in 0 .. n : At(s, l, k) = At(s, l, m + 1)
  <2>1. At(s, l, 0) = l /\ At(s, l, n + 1) = l /\ n \in 0 .. n
    BY <1>2 DEF At, n
  <2>2. \A k \in 0 .. n : k = 0 \/ (k - 1 \in 0 .. n /\ k - 1 + 1 = k)
    BY <1>2
  <2> HIDE DEF n, s
  <2>3. QED
    BY <2>1, <2>2
<1> HIDE DEF s, n, W, M
<1>10. ASSUME NEW i \in W
       PROVE  /\ nd2[i].prev \in W /\ nd2[nd2[i].prev].next = i
              /\ nd2[i].next \in W /\ nd2[nd2[i].next].prev = i
              /\ nd2[i].data <=> i \notin DOMAIN M
  <2>1. i \in V /\ \A x \in W : nd2[x] = nd[x]
    BY DEF W, s
  <2>2. nd[i].prev \in W
    <3>1. ASSUME NEW k \in 0 .. n, nd[i].prev = At(s, l, k) PROVE FALSE
      <4>1. nd[At(s, l, k)].next = At(s, l, k + 1)
        BY <1>6
      <4>2. i = At(s, l, k + 1)
        BY <1>1, <2>1, <3>1, <4>1
      <4>3. k + 1 \in 0 .. n + 1
        BY <1>2
      <4>4. QED
        BY <1>5, <1>7, <2>1, <4>2, <4>3
    <3>2. QED
      BY <1>1, <1>5, <2>1, <3>1
  <2>3. nd[i].next \in W
    <3>1. ASSUME NEW k \in 0 .. n, nd[i].next = At(s, l, k) PROVE FALSE
      <4>1. PICK m \in 0 .. n : At(s, l, k) = At(s, l, m + 1)
        BY <1>9
      <4>2. i = At(s, l, m)
        BY <1>1, <1>6, <2>1, <3>1, <4>1
      <4>3. QED
        BY <1>5, <2>1, <4>2
    <3>2. QED
      BY <1>1, <1>5, <2>1, <3>1
  <2>4. i # l
    BY DEF W
  <2>5. QED
    BY <1>1, <1>4, <2>1, <2>2, <2>3, <2>4
<1>11. ASSUME NEW m \in DOMAIN M PROVE M[m] \in Seq(W \ DOMAIN M) /\ Ring(nd2, M[m], m)
  <2>1. m \in DOMAIN L /\ m # l /\ M[m] = L[m]
    BY <1>4
  <2>2. /\ L[m] \in Seq(V \ DOMAIN L) /\ Ring(nd, L[m], m) /\ Len(L[m]) \in Nat /\ OnRing(V, L, L[m], m)
    BY <1>1, <2>1, InARing
  <2>3. \A k \in 1 .. Len(L[m]) : L[m][k] \in V \ DOMAIN L /\ L[m][k] \in ToSet(L[m])
    BY <2>2 DEF ToSet
  <2>4. \A k \in 1 .. Len(L[m]) : L[m][k] \notin ToSet(s)
    <3>1. \A e \in V \ DOMAIN L : e \in ToSet(L[m]) /\ e \in ToSet(L[l]) => m = l
      BY <2>1, OnOneList
    <3>2. QED
      BY <2>1, <2>3, <3>1 DEF s
  <2>5. \A k \in 1 .. Len(L[m]) : L[m][k] \in W \ DOMAIN M
    BY <1>4, <2>3, <2>4 DEF W
  <2>6. m \in W
    BY <1>1, <1>3, <2>1 DEF W
  <2>7. \A k \in 0 .. Len(L[m]) : nd2[At(L[m], m, k)] = nd[At(L[m], m, k)]
    <3>1. \A k \in 0 .. Len(L[m]) : At(L[m], m, k) \in W
      BY <2>5, <2>6 DEF At
    <3>2. QED
      BY <3>1 DEF W, s
  <2>8. Ring(nd2, L[m], m)
    BY <2>2, <2>7, SameRing
  <2>9. QED
    BY <2>1, <2>2, <2>5, <2>8
<1>12. ASSUME NEW i \in W \ DOMAIN M PROVE \E m \in DOMAIN M : i \in ToSet(M[m])
  <2>1. i \in V \ DOMAIN L /\ i \notin ToSet(s)
    BY <1>4 DEF W
  <2>2. PICK m \in DOMAIN L : i \in ToSet(L[m])
    BY <1>1, <2>1
  <2>3. m # l
    BY <2>1, <2>2 DEF s
  <2>4. QED
    BY <1>4, <2>2, <2>3
<1>13. DOMAIN M \subseteq W
  BY <1>1, <1>3, <1>4 DEF W
<1>14. W \subseteq DOMAIN nd2
  BY DEF W, s
<1>15. Linked(nd2, W, M)
  BY <1>10, <1>11, <1>12, <1>13, <1>14 DEF Linked
<1>16. QED
  BY <1>15 DEF W, M, s, ListsBut

(***************************************************************************)
(* What is found along a list is its elements.                             *)
(***************************************************************************)
FollowOf(link, first, l, n) ==
  LET at   == Along(link, first, n)
      ends == {k \in 0 .. n : at[k] = l}
      len  == IF ends = {} THEN n ELSE CHOOSE k \in ends : \A m \in ends : k <= m
  IN [k \in 1 .. len |-> at[k - 1]]

LEMMA FollowIs ==
  ASSUME NEW N \in Nat, NEW nd, DOMAIN nd = PlacesOf(N), NEW V, NEW L, Linked(nd, V, L), NEW l \in DOMAIN L
  PROVE  FollowOf(NextOf(nd), nd[l].next, l, N) = L[l]
<1> DEFINE s == L[l]
           n == Len(s)
           link == NextOf(nd)
           at == Along(link, nd[l].next, N)
           ends == {k \in 0 .. N : at[k] = l}
<1>1. /\ s \in Seq(V \ DOMAIN L) /\ n \in Nat /\ Distinct(s) /\ l \notin ToSet(s) /\ V \subseteq PlacesOf(N)
      /\ Neighbours(nd, s, l) /\ l \in V
  BY InARing DEF Linked
<1>2. DOMAIN link = PlacesOf(N) /\ \A i \in PlacesOf(N) : link[i] = nd[i].next
  BY DEF NextOf
<1>3. s \in Seq(PlacesOf(N)) /\ \A k \in 1 .. n : s[k] \in PlacesOf(N) /\ s[k] # l
  BY <1>1 DEF ToSet
<1>4. n <= N
  BY <1>1, <1>3, HowManyFromZero, ChainFits
<1> HIDE DEF s, n, link, at
<1>5. \A k \in 0 .. n : At(s, l, k + 1) = IF k = n THEN l ELSE s[k + 1]
  BY <1>1 DEF At, n
<1>6. \A k \in 1 .. n : At(s, l, k) = s[k]
  BY DEF At, n
<1>7. At(s, l, 0) = l
  BY DEF At
<1>8. Chain(s, link, nd[l].next, l)
  <2>1. nd[l].next = IF n = 0 THEN l ELSE s[1]
    <3>1. nd[At(s, l, 0)].next = At(s, l, 0 + 1) /\ 0 \in 0 .. n
      BY <1>1 DEF Neighbours, n
    <3>2. QED
      BY <1>5, <1>7, <3>1
  <2>2. ASSUME NEW k \in 1 .. n PROVE link[s[k]] = IF k = n THEN l ELSE s[k + 1]
    <3>1. nd[At(s, l, k)].next = At(s, l, k + 1) /\ k \in 0 .. n
      BY <1>1 DEF Neighbours, n
    <3>2. QED
      BY <1>2, <1>3, <1>5, <1>6, <3>1
  <2>3. QED
    BY <1>1, <2>1, <2>2 DEF Chain, n
<1>9. \A k \in 0 .. n : at[k] = IF k = n THEN l ELSE s[k + 1]
  <2>1. s \in Seq(DOMAIN link) /\ n <= N
    BY <1>2, <1>3, <1>4
  <2>2. QED
    <3> DEFINE first == nd[l].next
    <3>1. Chain(s, link, first, l) /\ Len(s) <= N
      BY <1>4, <1>8 DEF n
    <3> HIDE DEF first
    <3>2. \A k \in 0 .. Len(s) : Along(link, first, N)[k] = IF k = Len(s) THEN l ELSE s[k + 1]
      BY <2>1, <3>1, AlongAChain
    <3>3. QED
      BY <3>2 DEF at, n, first
<1>10. n \in ends /\ \A k \in ends : n <= k
  <2>1. n \in ends
    BY <1>1, <1>4, <1>9
  <2>2. ASSUME NEW k \in ends, k < n PROVE FALSE
    <3>1. k \in 0 .. n /\ k # n /\ k + 1 \in 1 .. n /\ at[k] = l
      BY <1>1, <2>2
    <3>2. QED
      BY <1>3, <1>9, <3>1
  <2>3. QED
    BY <1>1, <2>1, <2>2
<1>11. ends # {} /\ (CHOOSE k \in ends : \A m \in ends : k <= m) = n
  <2>1. \A k \in ends : (\A m \in ends : k <= m) => k = n
    BY <1>1, <1>10
  <2> HIDE DEF ends
  <2>2. QED
    BY <1>10, <2>1
<1>12. FollowOf(link, nd[l].next, l, N) = [k \in 1 .. n |-> at[k - 1]]
  <2>1. FollowOf(link, nd[l].next, l, N) =
          [k \in 1 .. (IF ends = {} THEN N ELSE CHOOSE k \in ends : \A m \in ends : k <= m) |-> at[k - 1]]
    BY DEF FollowOf, at
  <2> HIDE DEF ends
  <2>2. QED
    BY <1>11, <2>1
<1>13. \A k \in 1 .. n : at[k - 1] = s[k]
  <2>1. \A k \in 1 .. n : k - 1 \in 0 .. n /\ k - 1 # n /\ k - 1 + 1 = k
    BY <1>1
  <2>2. QED
    BY <1>9, <2>1
<1>14. s = [k \in 1 .. n |-> s[k]]
  BY <1>1 DEF n
<1>15. [k \in 1 .. n |-> at[k - 1]] = s
  BY <1>13, <1>14
<1>16. QED
  BY <1>12, <1>15 DEF link, s

(***************************************************************************)
(* The arena: N nodes, of which the ones that are not in use are on the    *)
(* free stack.                                                             *)
(***************************************************************************)
Nodes(N) == [PlacesOf(N) -> [prev : PlacesOf(N) \cup {-1}, next : PlacesOf(N) \cup {-1}, data : BOOLEAN]]

UsedIn(nd) == {i \in DOMAIN nd : nd[i].prev # -1}

ArenaFits(nd, top, N, L) ==
  /\ N \in Nat /\ N <= MaxNodes
  /\ nd \in Nodes(N) /\ L = [l \in DOMAIN L |-> L[l]]
  /\ Linked(nd, UsedIn(nd), L)
  /\ Stacked(NextOf(nd), top, PlacesOf(N) \ UsedIn(nd))

ArenaIs(nd, top) == nodes = nd /\ arena_free_top = top

ArenaSound == \E nd, top, N, L : ArenaFits(nd, top, N, L) /\ ArenaIs(nd, top)

\* What the operators of the modules say of it.
ArenaSeen(nd, N, L) ==
  /\ Arena!Ids = PlacesOf(N)
  /\ Arena!Size = N
  /\ Arena!Valid = UsedIn(nd)
  /\ Arena!Lists = DOMAIN L
  /\ Arena!Members = UsedIn(nd) \ DOMAIN L
  /\ Arena!Links = NextOf(nd)
  /\ \A l \in DOMAIN L : Arena!Follow(l) = L[l]
  /\ [l \in Arena!Lists |-> Arena!Follow(l)] = L

LEMMA ArenaIsSeen ==
  ASSUME NEW nd, NEW top, NEW N, NEW L, ArenaFits(nd, top, N, L)
  PROVE  /\ ArenaIs(nd, top) => ArenaSeen(nd, N, L)
         /\ ArenaIs(nd, top)' => ArenaSeen(nd, N, L)'
<1>1. /\ N \in Nat /\ DOMAIN nd = PlacesOf(N) /\ Arena!Cardinality(PlacesOf(N)) = N
      /\ Linked(nd, UsedIn(nd), L) /\ L = [l \in DOMAIN L |-> L[l]]
      /\ \A i \in PlacesOf(N) : nd[i].data \in BOOLEAN
  BY HowManyFromZero, SameOperators DEF ArenaFits, Nodes
<1>2. /\ DOMAIN L \subseteq UsedIn(nd)
      /\ \A i \in UsedIn(nd) : i \in PlacesOf(N) /\ (nd[i].data <=> i \notin DOMAIN L)
  BY <1>1 DEF Linked, UsedIn
<1>3. \A l \in DOMAIN L : FollowOf(NextOf(nd), nd[l].next, l, N) = L[l]
  BY <1>1, FollowIs
<1>4. ASSUME ArenaIs(nd, top) PROVE ArenaSeen(nd, N, L)
  <2>1. nodes = nd
    BY <1>4 DEF ArenaIs
  <2>2. Arena!Ids = PlacesOf(N) /\ Arena!Size = N
    BY <1>1, <2>1 DEF Arena!Ids, Arena!Size
  <2>3. Arena!Valid = UsedIn(nd)
    BY <1>1, <2>1, <2>2 DEF Arena!Valid, UsedIn
  <2>4. Arena!Lists = DOMAIN L /\ Arena!Members = UsedIn(nd) \ DOMAIN L
    BY <1>2, <2>1, <2>3 DEF Arena!Lists, Arena!Members
  <2>5. Arena!Links = NextOf(nd)
    BY <2>1 DEF Arena!Links, Arena!Ids, NextOf
  <2>6. ASSUME NEW l \in DOMAIN L PROVE Arena!Follow(l) = L[l]
    <3>1. Arena!Follow(l) = FollowOf(Arena!Links, nodes[l].next, l, Arena!Size)
      BY SameOperators DEF Arena!Follow, FollowOf
    <3>2. QED
      BY <1>3, <2>1, <2>2, <2>5, <3>1
  <2>7. [l \in Arena!Lists |-> Arena!Follow(l)] = L
    BY <1>1, <2>4, <2>6
  <2>8. QED
    BY <2>2, <2>3, <2>4, <2>5, <2>6, <2>7 DEF ArenaSeen
<1>5. ASSUME ArenaIs(nd, top)' PROVE ArenaSeen(nd, N, L)'
  <2>1. nodes' = nd
    BY <1>5 DEF ArenaIs
  <2>2. (Arena!Ids = PlacesOf(N) /\ Arena!Size = N)'
    BY <1>1, <2>1 DEF Arena!Ids, Arena!Size
  <2>3. (Arena!Valid = UsedIn(nd))'
    BY <1>1, <2>1, <2>2 DEF Arena!Valid, UsedIn
  <2>4. (Arena!Lists = DOMAIN L /\ Arena!Members = UsedIn(nd) \ DOMAIN L)'
    BY <1>2, <2>1, <2>3 DEF Arena!Lists, Arena!Members
  <2>5. (Arena!Links = NextOf(nd))'
    BY <2>1 DEF Arena!Links, Arena!Ids, NextOf
  <2>6. ASSUME NEW l \in DOMAIN L PROVE (Arena!Follow(l) = L[l])'
    <3>1. (Arena!Follow(l) = FollowOf(Arena!Links, nodes[l].next, l, Arena!Size))'
      BY SameOperators DEF Arena!Follow, FollowOf
    <3>2. QED
      BY <1>3, <2>1, <2>2, <2>5, <3>1
  <2>7. ([l \in Arena!Lists |-> Arena!Follow(l)] = L)'
    BY <1>1, <2>4, <2>6
  <2>8. QED
    BY <2>2, <2>3, <2>4, <2>5, <2>6, <2>7 DEF ArenaSeen
<1>6. QED
  BY <1>4, <1>5

\* The top of the free stack, and its bottom.
LEMMA TopIsFree ==
  ASSUME NEW nd, NEW top, NEW N, NEW L, ArenaFits(nd, top, N, L)
  PROVE  /\ top = -1 \/ (top \in PlacesOf(N) /\ top \notin UsedIn(nd))
         /\ top = -1 <=> UsedIn(nd) = PlacesOf(N)
         /\ DOMAIN NextOf(nd) = PlacesOf(N) /\ DOMAIN nd = PlacesOf(N) /\ UsedIn(nd) \subseteq PlacesOf(N)
<1> DEFINE F == PlacesOf(N) \ UsedIn(nd)
<1>1. /\ DOMAIN NextOf(nd) = PlacesOf(N) /\ DOMAIN nd = PlacesOf(N) /\ UsedIn(nd) \subseteq PlacesOf(N)
      /\ Stacked(NextOf(nd), top, F)
  BY DEF ArenaFits, Nodes, NextOf, UsedIn
<1>2. -1 \notin DOMAIN NextOf(nd)
  BY <1>1, NotAPlace
<1> HIDE DEF F
<1>3. (top = -1 <=> F = {}) /\ (top # -1 => top \in F)
  BY <1>1, <1>2, PoppedFrom
<1>4. QED
  BY <1>1, <1>3 DEF F

LEMMA ArenaSoundImpliesInv ==
  ASSUME ArenaSound
  PROVE  Arena!Inv
<1>1. PICK nd, top, N, L : ArenaFits(nd, top, N, L) /\ ArenaIs(nd, top)
  BY DEF ArenaSound
<1>2. /\ Arena!Ids = PlacesOf(N) /\ Arena!Size = N /\ Arena!Valid = UsedIn(nd)
      /\ Arena!Links = NextOf(nd) /\ nodes = nd /\ arena_free_top = top
  BY <1>1, ArenaIsSeen DEF ArenaSeen, ArenaIs
<1>3. /\ N \in Nat /\ N <= MaxNodes /\ nd \in Nodes(N) /\ Linked(nd, UsedIn(nd), L)
      /\ Stacked(NextOf(nd), top, PlacesOf(N) \ UsedIn(nd))
  BY <1>1 DEF ArenaFits
<1>4. /\ top = -1 \/ (top \in PlacesOf(N) /\ top \notin UsedIn(nd))
      /\ DOMAIN NextOf(nd) = PlacesOf(N)
  BY <1>1, TopIsFree
<1>5. Arena!TypeOK
  BY <1>2, <1>3, <1>4 DEF Arena!TypeOK, Nodes, PlacesOf
<1>6. Arena!LinksMatch
  BY <1>2, <1>3 DEF Arena!LinksMatch, Linked
<1>7. Arena!FreeStackIsComplete
  <2> DEFINE F == PlacesOf(N) \ UsedIn(nd)
  <2>1. PICK s \in Seq(PlacesOf(N)) : Chain(s, NextOf(nd), top, -1) /\ ToSet(s) = F
    BY <1>3, <1>4 DEF Stacked
  <2>2. Len(s) <= N
    BY <1>3, <2>1, HowManyFromZero, ChainFits DEF Chain
  <2>3. -1 \notin DOMAIN NextOf(nd) /\ s \in Seq(DOMAIN NextOf(nd)) /\ -1 \notin F
    BY <1>4, <2>1, NotAPlace
  <2> HIDE DEF F
  <2>4. Found(NextOf(nd), top, N) = F \cup {-1}
    <3>1. Chain(s, NextOf(nd), top, -1) /\ N \in Nat
      BY <1>3, <2>1
    <3>2. Found(NextOf(nd), top, N) = ToSet(s) \cup {-1}
      BY <2>2, <2>3, <3>1, FoundAlong
    <3>3. QED
      BY <2>1, <3>2
  <2>5. {Arena!Along(Arena!Links, arena_free_top, Arena!Size)[k] : k \in 0 .. Arena!Size} = F \cup {-1}
    BY <1>2, <2>4, SameOperators DEF Found
  <2>6. QED
    BY <1>2, <2>3, <2>5 DEF Arena!FreeStackIsComplete, F
<1>8. QED
  BY <1>5, <1>6, <1>7 DEF Arena!Inv

(***************************************************************************)
(* Assignments to the fields of a node.                                    *)
(***************************************************************************)
WithNext(nd, i, x) == [nd EXCEPT ![i].next = x]
WithPrev(nd, i, x) == [nd EXCEPT ![i].prev = x]
WithNode(nd, N, i, node) == [j \in PlacesOf(N) \cup {i} |-> IF j = i THEN node ELSE nd[j]]

LEMMA NextSet ==
  ASSUME NEW N, NEW nd \in Nodes(N), NEW i \in PlacesOf(N), NEW x \in PlacesOf(N) \cup {-1}
  PROVE  /\ WithNext(nd, i, x) \in Nodes(N)
         /\ \A j \in PlacesOf(N) : /\ WithNext(nd, i, x)[j].next = IF j = i THEN x ELSE nd[j].next
                                   /\ WithNext(nd, i, x)[j].prev = nd[j].prev
                                   /\ WithNext(nd, i, x)[j].data = nd[j].data
                                   /\ j # i => WithNext(nd, i, x)[j] = nd[j]
BY DEF Nodes, WithNext

LEMMA PrevSet ==
  ASSUME NEW N, NEW nd \in Nodes(N), NEW i \in PlacesOf(N), NEW x \in PlacesOf(N) \cup {-1}
  PROVE  /\ WithPrev(nd, i, x) \in Nodes(N)
         /\ \A j \in PlacesOf(N) : /\ WithPrev(nd, i, x)[j].prev = IF j = i THEN x ELSE nd[j].prev
                                   /\ WithPrev(nd, i, x)[j].next = nd[j].next
                                   /\ WithPrev(nd, i, x)[j].data = nd[j].data
                                   /\ j # i => WithPrev(nd, i, x)[j] = nd[j]
BY DEF Nodes, WithPrev

\* The nodes that are in use are the linked ones.
LEMMA UseOf ==
  ASSUME NEW N, NEW nd \in Nodes(N), NEW V, NEW L, Linked(nd, V, L),
         \A j \in PlacesOf(N) \ V : nd[j].prev = -1
  PROVE  UsedIn(nd) = V /\ V \subseteq PlacesOf(N)
<1>1. DOMAIN nd = PlacesOf(N) /\ V \subseteq PlacesOf(N) /\ \A i \in V : nd[i].prev \in V
  BY DEF Linked, Nodes
<1>2. \A i \in V : nd[i].prev # -1
  BY <1>1, NotAPlace
<1>3. QED
  BY <1>1, <1>2 DEF UsedIn

(***************************************************************************)
(* A node is taken.                                                        *)
(***************************************************************************)
NodeTop(nd, top) == IF top # -1 THEN nd[top].next ELSE top

LEMMA Taken ==
  ASSUME NEW nd, NEW top, NEW N, NEW L, ArenaFits(nd, top, N, L), top = -1 => N < MaxNodes
  PROVE  LET id == NewId(top, N)  M == NewN(top, N) IN
         /\ M \in Nat /\ M <= MaxNodes /\ PlacesOf(N) \cup {id} = PlacesOf(M)
         /\ id \in PlacesOf(M) /\ id \notin UsedIn(nd) /\ PlacesOf(N) \subseteq PlacesOf(M)
<1> DEFINE id == NewId(top, N)
           M == NewN(top, N)
<1>1. N \in Nat /\ N <= MaxNodes /\ MaxNodes \in Nat
  BY PartsTypes DEF ArenaFits
<1>2. top = -1 \/ (top \in PlacesOf(N) /\ top \notin UsedIn(nd))
  BY TopIsFree
<1>3. UsedIn(nd) \subseteq PlacesOf(N)
  BY TopIsFree
<1>4. CASE top = -1
  <2>1. id = N /\ M = N + 1
    BY <1>4 DEF NewId, NewN
  <2> HIDE DEF id, M
  <2>2. M \in Nat /\ M <= MaxNodes /\ id \notin PlacesOf(N) /\ PlacesOf(M) = PlacesOf(N) \cup {id}
    BY <1>1, <1>4, <2>1 DEF PlacesOf
  <2>3. QED
    BY <1>3, <2>2 DEF id, M
<1>5. CASE top # -1
  <2>1. id = top /\ M = N
    BY <1>5 DEF NewId, NewN
  <2> HIDE DEF id, M
  <2>2. QED
    BY <1>1, <1>2, <1>5, <2>1 DEF id, M
<1>6. QED
  BY <1>4, <1>5

LEMMA StackPopped ==
  ASSUME NEW nd, NEW top, NEW N, NEW L, ArenaFits(nd, top, N, L), top = -1 => N < MaxNodes,
         NEW nd2 \in Nodes(NewN(top, N)), UsedIn(nd2) = UsedIn(nd) \cup {NewId(top, N)},
         \A j \in PlacesOf(N) \ UsedIn(nd2) : nd2[j] = nd[j]
  PROVE  Stacked(NextOf(nd2), NodeTop(nd, top), PlacesOf(NewN(top, N)) \ UsedIn(nd2))
<1> DEFINE id == NewId(top, N)
           M == NewN(top, N)
           F == PlacesOf(N) \ UsedIn(nd)
           G == PlacesOf(M) \ UsedIn(nd2)
<1>1. PlacesOf(N) \cup {id} = PlacesOf(M) /\ id \notin UsedIn(nd) /\ PlacesOf(N) \subseteq PlacesOf(M)
  BY Taken
<1>2. /\ DOMAIN NextOf(nd) = PlacesOf(N) /\ DOMAIN nd = PlacesOf(N)
      /\ top = -1 <=> UsedIn(nd) = PlacesOf(N)
      /\ UsedIn(nd) \subseteq PlacesOf(N)
  BY TopIsFree
<1>3. DOMAIN NextOf(nd2) = PlacesOf(M) /\ DOMAIN nd2 = PlacesOf(M)
  BY DEF NextOf, Nodes
<1>4. G = F \ {id}
  BY <1>1, <1>2
<1>5. Stacked(NextOf(nd), top, F) /\ -1 \notin DOMAIN NextOf(nd)
  BY <1>2, NotAPlace DEF ArenaFits
<1>6. Stacked(NextOf(nd), NodeTop(nd, top), G)
  <2>1. CASE top = -1
    <3>1. NodeTop(nd, top) = top /\ G = F
      BY <1>2, <1>4, <2>1 DEF NodeTop
    <3>2. QED
      BY <1>5, <3>1
  <2>2. CASE top # -1
    <3>1. id = top /\ NodeTop(nd, top) = nd[top].next
      BY <2>2 DEF NewId, NodeTop
    <3> HIDE DEF F, G, id
    <3>2. top \in F /\ Stacked(NextOf(nd), NextOf(nd)[top], F \ {top})
      BY <1>5, <2>2, PoppedFrom
    <3>3. NextOf(nd)[top] = nd[top].next
      BY <1>2, <3>2 DEF NextOf, F
    <3>4. QED
      BY <1>4, <3>1, <3>2, <3>3
  <2>3. QED
    BY <2>1, <2>2
<1>7. \A i \in G : NextOf(nd2)[i] = NextOf(nd)[i]
  <2>1. \A i \in G : i \in PlacesOf(N) /\ i \in PlacesOf(M) /\ i \notin UsedIn(nd2)
    BY <1>1, <1>4
  <2>2. QED
    BY <1>2, <1>3, <2>1 DEF NextOf
<1> HIDE DEF G
<1>8. DOMAIN NextOf(nd) \subseteq DOMAIN NextOf(nd2)
  BY <1>1, <1>2, <1>3
<1>9. Stacked(NextOf(nd2), NodeTop(nd, top), G)
  BY <1>6, <1>7, <1>8, SameStack
<1>10. QED
  BY <1>9 DEF G

(***************************************************************************)
(* A list is added, and an element.                                        *)
(***************************************************************************)
WithList(nd, top, N) ==
  WithNode(nd, N, NewId(top, N), [prev |-> NewId(top, N), next |-> NewId(top, N), data |-> FALSE])

WithElement(nd, top, N, b) ==
  WithPrev(WithNext(WithNode(nd, N, NewId(top, N), [prev |-> nd[b].prev, next |-> b, data |-> TRUE]),
                    nd[b].prev, NewId(top, N)),
           b, NewId(top, N))

NodesOf(N) == [prev : PlacesOf(N) \cup {-1}, next : PlacesOf(N) \cup {-1}, data : BOOLEAN]

LEMMA NodeAdded ==
  ASSUME NEW nd, NEW top, NEW N, NEW L, ArenaFits(nd, top, N, L), top = -1 => N < MaxNodes,
         NEW node \in NodesOf(NewN(top, N))
  PROVE  LET id == NewId(top, N)  g == WithNode(nd, N, id, node) IN
         /\ g \in Nodes(NewN(top, N))
         /\ g[id] = node
         /\ \A j \in PlacesOf(N) : j # id => g[j] = nd[j]
<1> DEFINE id == NewId(top, N)
           M == NewN(top, N)
           g == WithNode(nd, N, id, node)
<1>1. PlacesOf(N) \cup {id} = PlacesOf(M) /\ PlacesOf(N) \subseteq PlacesOf(M)
  BY Taken
<1>2. \A j \in PlacesOf(N) : nd[j] \in NodesOf(M)
  <2>1. \A j \in PlacesOf(N) : nd[j] \in [prev : PlacesOf(N) \cup {-1}, next : PlacesOf(N) \cup {-1}, data : BOOLEAN]
    BY DEF ArenaFits, Nodes
  <2>2. QED
    BY <1>1, <2>1 DEF NodesOf
<1> HIDE DEF id, M
<1>3. node \in NodesOf(M)
  BY DEF M
<1>4. g = [j \in PlacesOf(M) |-> IF j = id THEN node ELSE nd[j]]
  BY <1>1 DEF WithNode
<1>5. g \in [PlacesOf(M) -> NodesOf(M)]
  BY <1>1, <1>2, <1>3, <1>4
<1>6. g[id] = node /\ \A j \in PlacesOf(N) : j # id => g[j] = nd[j]
  BY <1>1, <1>4
<1> HIDE DEF g
<1>7. g \in Nodes(M)
  BY <1>5 DEF NodesOf, Nodes
<1>8. QED
  BY <1>6, <1>7 DEF g, id, M

LEMMA ListAdded ==
  ASSUME NEW nd, NEW top, NEW N, NEW L, ArenaFits(nd, top, N, L), top = -1 => N < MaxNodes
  PROVE  ArenaFits(WithList(nd, top, N), NodeTop(nd, top), NewN(top, N), ListsAnd(L, NewId(top, N)))
<1> DEFINE id == NewId(top, N)
           M == NewN(top, N)
           g == WithList(nd, top, N)
           V == UsedIn(nd)
<1>1. /\ M \in Nat /\ M <= MaxNodes /\ PlacesOf(N) \cup {id} = PlacesOf(M)
      /\ id \in PlacesOf(M) /\ id \notin V
  BY Taken
<1>2. V \subseteq PlacesOf(N) /\ DOMAIN nd = PlacesOf(N)
  BY TopIsFree
<1>3. /\ g \in Nodes(M) /\ g[id].prev = id /\ g[id].next = id /\ g[id].data = FALSE
      /\ \A j \in PlacesOf(N) : j # id => g[j] = nd[j]
  <2> DEFINE node == [prev |-> id, next |-> id, data |-> FALSE]
  <2>1. node \in NodesOf(M) /\ node.prev = id /\ node.next = id /\ node.data = FALSE
    BY <1>1 DEF NodesOf
  <2>2. g = WithNode(nd, N, id, node)
    BY DEF WithList
  <2> HIDE DEF node, g
  <2>3. g \in Nodes(M) /\ g[id] = node /\ \A j \in PlacesOf(N) : j # id => g[j] = nd[j]
    BY <2>1, <2>2, NodeAdded
  <2>4. QED
    BY <2>1, <2>3
<1> HIDE DEF id, M, g
<1>4. DOMAIN g = PlacesOf(M)
  BY <1>3 DEF Nodes
<1>5. Linked(g, V \cup {id}, ListsAnd(L, id))
  <2>1. V \cup {id} \subseteq DOMAIN g
    BY <1>1, <1>2, <1>4
  <2>2. \A i \in V : g[i] = nd[i]
    BY <1>1, <1>2, <1>3
  <2>3. Linked(nd, V, L)
    BY DEF ArenaFits
  <2> HIDE DEF V
  <2>4. QED
    BY <1>1, <1>3, <2>1, <2>2, <2>3, NewList
<1>6. UsedIn(g) = V \cup {id}
  <2>1. \A j \in PlacesOf(M) \ (V \cup {id}) : g[j].prev = -1
    BY <1>1, <1>2, <1>3 DEF UsedIn
  <2> HIDE DEF V
  <2>2. QED
    BY <1>3, <1>5, <2>1, UseOf
<1>7. Stacked(NextOf(g), NodeTop(nd, top), PlacesOf(M) \ UsedIn(g))
  <2>1. \A j \in PlacesOf(N) \ UsedIn(g) : g[j] = nd[j]
    BY <1>3, <1>6
  <2>2. QED
    BY <1>3, <1>6, <2>1, StackPopped DEF id, M
<1>8. ListsAnd(L, id) = [l \in DOMAIN ListsAnd(L, id) |-> ListsAnd(L, id)[l]]
  BY DEF ListsAnd
<1>9. ArenaFits(g, NodeTop(nd, top), M, ListsAnd(L, id))
  BY <1>1, <1>3, <1>5, <1>6, <1>7, <1>8 DEF ArenaFits
<1>10. QED
  BY <1>9 DEF g, M, id

LEMMA ElementAdded ==
  ASSUME NEW nd, NEW top, NEW N, NEW L, ArenaFits(nd, top, N, L), top = -1 => N < MaxNodes, NEW b \in UsedIn(nd)
  PROVE  ArenaFits(WithElement(nd, top, N, b), NodeTop(nd, top), NewN(top, N), ListsWith(L, b, NewId(top, N)))
<1> DEFINE id == NewId(top, N)
           M == NewN(top, N)
           V == UsedIn(nd)
           p == nd[b].prev
           g0 == WithNode(nd, N, id, [prev |-> p, next |-> b, data |-> TRUE])
           g1 == WithNext(g0, p, id)
           g == WithPrev(g1, b, id)
<1>1. /\ M \in Nat /\ M <= MaxNodes /\ PlacesOf(N) \cup {id} = PlacesOf(M)
      /\ id \in PlacesOf(M) /\ id \notin V
  BY Taken
<1>2. V \subseteq PlacesOf(N) /\ DOMAIN nd = PlacesOf(N)
  BY TopIsFree
<1>3. Linked(nd, V, L) /\ p \in V
  BY DEF ArenaFits, Linked
<1>4. p \in PlacesOf(M) /\ b \in PlacesOf(M) /\ p # id /\ b # id
  BY <1>1, <1>2, <1>3
<1>5. /\ g0 \in Nodes(M) /\ g0[id].prev = p /\ g0[id].next = b /\ g0[id].data = TRUE
      /\ \A j \in PlacesOf(N) : j # id => g0[j] = nd[j]
  <2> DEFINE node == [prev |-> p, next |-> b, data |-> TRUE]
  <2>1. node \in NodesOf(M) /\ node.prev = p /\ node.next = b /\ node.data = TRUE
    BY <1>4 DEF NodesOf
  <2>2. g0 = WithNode(nd, N, id, node)
    OBVIOUS
  <2> HIDE DEF node, g0
  <2>3. g0 \in Nodes(M) /\ g0[id] = node /\ \A j \in PlacesOf(N) : j # id => g0[j] = nd[j]
    BY <2>1, <2>2, NodeAdded
  <2>4. QED
    BY <2>1, <2>3
<1> HIDE DEF id, M, g0, p
<1>6. /\ g1 \in Nodes(M)
      /\ \A j \in PlacesOf(M) : /\ g1[j].next = IF j = p THEN id ELSE g0[j].next
                                /\ g1[j].prev = g0[j].prev
                                /\ g1[j].data = g0[j].data
                                /\ j # p => g1[j] = g0[j]
  BY <1>1, <1>4, <1>5, NextSet
<1> HIDE DEF g1
<1>7. /\ g \in Nodes(M)
      /\ \A j \in PlacesOf(M) : /\ g[j].prev = IF j = b THEN id ELSE g1[j].prev
                                /\ g[j].next = g1[j].next
                                /\ g[j].data = g1[j].data
                                /\ j # b => g[j] = g1[j]
  BY <1>1, <1>4, <1>6, PrevSet
<1> HIDE DEF g
<1>8. DOMAIN g = PlacesOf(M)
  BY <1>7 DEF Nodes
<1>9. LinkedBefore(nd, g, V, b, id)
  <2>1. ASSUME NEW i \in V
        PROVE  /\ g[i].next = IF i = nd[b].prev THEN id ELSE nd[i].next
               /\ g[i].prev = IF i = b THEN id ELSE nd[i].prev
               /\ g[i].data = nd[i].data
    <3>1. i \in PlacesOf(M) /\ i \in PlacesOf(N) /\ i # id
      BY <1>1, <1>2
    <3>2. QED
      BY <1>5, <1>6, <1>7, <3>1 DEF p
  <2>2. g[id].prev = nd[b].prev /\ g[id].next = b /\ g[id].data = TRUE
    BY <1>1, <1>4, <1>5, <1>6, <1>7 DEF p
  <2>3. QED
    BY <2>1, <2>2 DEF LinkedBefore
<1>10. Linked(g, V \cup {id}, ListsWith(L, b, id))
  <2>1. V \cup {id} \subseteq DOMAIN g
    BY <1>1, <1>2, <1>8
  <2> HIDE DEF V
  <2>2. b \in V
    BY DEF V
  <2>3. QED
    BY <1>1, <1>3, <1>9, <2>1, <2>2, Inserting
<1>11. UsedIn(g) = V \cup {id}
  <2>1. ASSUME NEW j \in PlacesOf(M) \ (V \cup {id}) PROVE g[j].prev = -1
    <3>1. j \in PlacesOf(N) /\ j # b /\ j # p /\ j # id
      BY <1>1, <1>3
    <3>2. g[j] = nd[j]
      BY <1>5, <1>6, <1>7, <3>1
    <3>3. QED
      BY <1>2, <3>1, <3>2 DEF UsedIn
  <2> HIDE DEF V
  <2>2. QED
    BY <1>7, <1>10, <2>1, UseOf
<1>12. Stacked(NextOf(g), NodeTop(nd, top), PlacesOf(M) \ UsedIn(g))
  <2>1. ASSUME NEW j \in PlacesOf(N) \ UsedIn(g) PROVE g[j] = nd[j]
    <3>1. j # id /\ j # b /\ j # p /\ j \in PlacesOf(M)
      BY <1>1, <1>3, <1>11
    <3>2. QED
      BY <1>5, <1>6, <1>7, <3>1
  <2>2. QED
    BY <1>7, <1>11, <2>1, StackPopped DEF id, M
<1>13. ListsWith(L, b, id) = [l \in DOMAIN ListsWith(L, b, id) |-> ListsWith(L, b, id)[l]]
  BY DEF ListsWith
<1>14. ArenaFits(g, NodeTop(nd, top), M, ListsWith(L, b, id))
  BY <1>1, <1>7, <1>10, <1>11, <1>12, <1>13 DEF ArenaFits
<1>15. QED
  BY <1>14 DEF g, g1, g0, p, M, id, WithElement


(***************************************************************************)
(* An element is unlinked: then it moves, or it is removed.                *)
(***************************************************************************)
CutNode(nd, e) == WithPrev(WithNext(nd, nd[e].prev, nd[e].next), nd[e].next, nd[e].prev)

MovedNode(nd, b, e) ==
  LET cut      == CutNode(nd, e)
      new_prev == cut[b].prev
      new_next == cut[new_prev].next
  IN WithPrev(WithNext(WithPrev(WithNext(cut, new_prev, e), e, new_prev), e, new_next), new_next, e)

RemovedNode(nd, top, e) == [CutNode(nd, e) EXCEPT ![e] = [prev |-> -1, next |-> top, data |-> FALSE]]

CutLinks(nd, cut, N, e) ==
  \A i \in PlacesOf(N) :
    /\ cut[i].next = IF i = nd[e].prev THEN nd[e].next ELSE nd[i].next
    /\ cut[i].prev = IF i = nd[e].next THEN nd[e].prev ELSE nd[i].prev
    /\ cut[i].data = nd[i].data
    /\ i # nd[e].prev /\ i # nd[e].next => cut[i] = nd[i]

LEMMA CutNodeIs ==
  ASSUME NEW nd, NEW top, NEW N, NEW L, ArenaFits(nd, top, N, L), NEW e \in UsedIn(nd) \ DOMAIN L
  PROVE  LET cut == CutNode(nd, e) IN
         /\ cut \in Nodes(N) /\ CutLinks(nd, cut, N, e)
         /\ Linked(cut, UsedIn(nd) \ {e}, ListsWithout(L, e))
         /\ nd[e].prev # e /\ nd[e].next # e
         /\ nd[e].prev \in UsedIn(nd) /\ nd[e].next \in UsedIn(nd)
<1> DEFINE p == nd[e].prev
           n == nd[e].next
           V == UsedIn(nd)
           g1 == WithNext(nd, p, n)
           g == WithPrev(g1, n, p)
<1>1. nd \in Nodes(N) /\ Linked(nd, V, L)
  BY DEF ArenaFits
<1>2. V \subseteq PlacesOf(N) /\ DOMAIN nd = PlacesOf(N)
  BY TopIsFree
<1>3. p \in V /\ n \in V
  BY <1>1 DEF Linked
<1>4. p # e /\ n # e
  <2> HIDE DEF V
  <2>1. e \in V \ DOMAIN L
    BY DEF V
  <2>2. QED
    BY <1>1, <2>1, OnOneList
<1>5. p \in PlacesOf(N) /\ n \in PlacesOf(N)
  BY <1>2, <1>3
<1> HIDE DEF V, p, n
<1>6. /\ g1 \in Nodes(N)
      /\ \A j \in PlacesOf(N) : /\ g1[j].next = IF j = p THEN n ELSE nd[j].next
                                /\ g1[j].prev = nd[j].prev
                                /\ g1[j].data = nd[j].data
                                /\ j # p => g1[j] = nd[j]
  BY <1>1, <1>5, NextSet
<1> HIDE DEF g1
<1>7. /\ g \in Nodes(N)
      /\ \A j \in PlacesOf(N) : /\ g[j].prev = IF j = n THEN p ELSE g1[j].prev
                                /\ g[j].next = g1[j].next
                                /\ g[j].data = g1[j].data
                                /\ j # n => g[j] = g1[j]
  BY <1>5, <1>6, PrevSet
<1> HIDE DEF g
<1>8. CutLinks(nd, g, N, e)
  <2>1. \A i \in PlacesOf(N) : /\ g[i].next = IF i = p THEN n ELSE nd[i].next
                               /\ g[i].prev = IF i = n THEN p ELSE nd[i].prev
                               /\ g[i].data = nd[i].data
                               /\ i # p /\ i # n => g[i] = nd[i]
    BY <1>6, <1>7
  <2>2. QED
    BY <2>1 DEF CutLinks, p, n
<1>9. Linked(g, V \ {e}, ListsWithout(L, e))
  <2>1. DOMAIN g = PlacesOf(N)
    BY <1>7 DEF Nodes
  <2>2. V \ {e} \subseteq DOMAIN g
    BY <1>2, <2>1
  <2>3. UnlinkedFrom(nd, g, V, e)
    <3>1. \A i \in V \ {e} : i \in PlacesOf(N)
      BY <1>2
    <3>2. QED
      BY <1>8, <3>1 DEF UnlinkedFrom, CutLinks
  <2>4. e \in V \ DOMAIN L
    BY DEF V
  <2>5. QED
    BY <1>1, <2>2, <2>3, <2>4, Unlinking
<1>10. QED
  BY <1>3, <1>4, <1>7, <1>8, <1>9 DEF CutNode, g, g1, V, p, n

LEMMA ElementRemoved ==
  ASSUME NEW nd, NEW top, NEW N, NEW L, ArenaFits(nd, top, N, L), NEW e \in UsedIn(nd) \ DOMAIN L
  PROVE  ArenaFits(RemovedNode(nd, top, e), e, N, ListsWithout(L, e))
<1> DEFINE V == UsedIn(nd)
           W == V \ {e}
           cut == CutNode(nd, e)
           free == [prev |-> -1, next |-> top, data |-> FALSE]
           g == RemovedNode(nd, top, e)
           M == ListsWithout(L, e)
<1>1. /\ N \in Nat /\ N <= MaxNodes
      /\ Stacked(NextOf(nd), top, PlacesOf(N) \ V)
  BY DEF ArenaFits
<1>2. /\ V \subseteq PlacesOf(N) /\ DOMAIN nd = PlacesOf(N) /\ DOMAIN NextOf(nd) = PlacesOf(N)
      /\ top \in PlacesOf(N) \cup {-1} /\ e \in PlacesOf(N)
  BY TopIsFree
<1>3. /\ cut \in Nodes(N) /\ CutLinks(nd, cut, N, e) /\ Linked(cut, W, M)
      /\ nd[e].prev \in V /\ nd[e].next \in V
  BY CutNodeIs
<1>4. free \in NodesOf(N) /\ free.prev = -1 /\ free.next = top
  BY <1>2 DEF NodesOf
<1> HIDE DEF free, cut
<1>5. /\ g \in Nodes(N) /\ g[e] = free /\ \A i \in PlacesOf(N) : i # e => g[i] = cut[i]
  <2>1. g = [cut EXCEPT ![e] = free]
    BY DEF RemovedNode, cut, free
  <2>2. cut \in [PlacesOf(N) -> NodesOf(N)]
    BY <1>3 DEF Nodes, NodesOf
  <2> HIDE DEF g
  <2>3. g \in [PlacesOf(N) -> NodesOf(N)] /\ g[e] = free /\ \A i \in PlacesOf(N) : i # e => g[i] = cut[i]
    BY <1>2, <1>4, <2>1, <2>2
  <2>4. QED
    BY <2>3 DEF Nodes, NodesOf
<1> HIDE DEF g
<1>6. DOMAIN g = PlacesOf(N) /\ DOMAIN NextOf(g) = PlacesOf(N)
  BY <1>5 DEF Nodes, NextOf
<1>7. Linked(g, W, M)
  <2>1. /\ W \subseteq PlacesOf(N) /\ e \notin W
        /\ \A i \in W : /\ cut[i].prev \in W /\ cut[cut[i].prev].next = i
                        /\ cut[i].next \in W /\ cut[cut[i].next].prev = i
                        /\ cut[i].data <=> i \notin DOMAIN M
        /\ DOMAIN M \subseteq W
        /\ \A l \in DOMAIN M : M[l] \in Seq(W \ DOMAIN M) /\ Ring(cut, M[l], l)
        /\ \A i \in W \ DOMAIN M : \E l \in DOMAIN M : i \in ToSet(M[l])
    <3>1. W \subseteq PlacesOf(N) /\ e \notin W
      BY <1>2
    <3> HIDE DEF W, M
    <3>2. QED
      BY <1>3, <3>1 DEF Linked
  <2> HIDE DEF W, M
  <2>2. \A i \in W : g[i] = cut[i]
    BY <1>5, <2>1
  <2>3. ASSUME NEW l \in DOMAIN M PROVE Ring(g, M[l], l)
    <3>1. Ring(cut, M[l], l) /\ OnRing(W, M, M[l], l) /\ Len(M[l]) \in Nat
      BY <1>3, <2>1, InARing
    <3>2. \A k \in 0 .. Len(M[l]) : g[At(M[l], l, k)] = cut[At(M[l], l, k)]
      BY <2>2, <3>1 DEF OnRing
    <3>3. QED
      BY <3>1, <3>2, SameRing
  <2>4. W \subseteq DOMAIN g
    BY <1>6, <2>1
  <2>5. \A i \in W : /\ g[i].prev \in W /\ g[g[i].prev].next = i
                     /\ g[i].next \in W /\ g[g[i].next].prev = i
                     /\ g[i].data <=> i \notin DOMAIN M
    BY <2>1, <2>2
  <2>6. QED
    BY <2>1, <2>3, <2>4, <2>5 DEF Linked
<1>8. UsedIn(g) = W
  <2>1. \A j \in PlacesOf(N) \ W : g[j].prev = -1
    <3>1. ASSUME NEW j \in PlacesOf(N) \ W, j # e PROVE g[j].prev = -1
      <4>1. j \notin V /\ j # nd[e].prev /\ j # nd[e].next
        BY <1>3, <3>1
      <4>2. g[j] = nd[j]
        BY <1>3, <1>5, <3>1, <4>1 DEF CutLinks
      <4>3. QED
        BY <1>2, <4>1, <4>2 DEF UsedIn
    <3>2. QED
      BY <1>4, <1>5, <3>1
  <2> HIDE DEF W, M
  <2>2. QED
    BY <1>5, <1>7, <2>1, UseOf
<1>9. Stacked(NextOf(g), e, PlacesOf(N) \ UsedIn(g))
  <2> DEFINE F == PlacesOf(N) \ V
  <2>1. PlacesOf(N) \ UsedIn(g) = F \cup {e} /\ e \notin F
    BY <1>2, <1>8
  <2>2. \A i \in F : NextOf(g)[i] = NextOf(nd)[i]
    <3>1. ASSUME NEW i \in F PROVE NextOf(g)[i] = NextOf(nd)[i]
      <4>1. i \in PlacesOf(N) /\ i # e /\ i # nd[e].prev /\ i # nd[e].next
        BY <1>3
      <4>2. g[i] = nd[i]
        BY <1>3, <1>5, <4>1 DEF CutLinks
      <4>3. QED
        BY <1>2, <1>6, <4>1, <4>2 DEF NextOf
    <3>2. QED
      BY <3>1
  <2>3. NextOf(g)[e] = top
    BY <1>2, <1>4, <1>5, <1>6 DEF NextOf
  <2>4. Stacked(NextOf(nd), top, F)
    BY <1>1
  <2> HIDE DEF F
  <2>5. Stacked(NextOf(g), e, F \cup {e})
    BY <1>2, <1>6, <2>1, <2>2, <2>3, <2>4, PushedOn
  <2>6. QED
    BY <2>1, <2>5
<1>10. M = [l \in DOMAIN M |-> M[l]]
  BY DEF ListsWithout
<1>11. ArenaFits(g, e, N, M)
  <2> HIDE DEF M
  <2>1. QED
    BY <1>1, <1>5, <1>7, <1>8, <1>9, <1>10 DEF ArenaFits
<1>12. QED
  BY <1>11 DEF g

FourSet(cut, g, N, p, e, n) ==
  /\ g \in Nodes(N)
  /\ \A i \in PlacesOf(N) :
       /\ g[i].next = IF i = e THEN n ELSE IF i = p THEN e ELSE cut[i].next
       /\ g[i].prev = IF i = n THEN e ELSE IF i = e THEN p ELSE cut[i].prev
       /\ g[i].data = cut[i].data
       /\ i # p /\ i # e /\ i # n => g[i] = cut[i]

LEMMA FourAssigned ==
  ASSUME NEW N, NEW cut \in Nodes(N), NEW p \in PlacesOf(N), NEW e \in PlacesOf(N), NEW n \in PlacesOf(N)
  PROVE  FourSet(cut, WithPrev(WithNext(WithPrev(WithNext(cut, p, e), e, p), e, n), n, e), N, p, e, n)
<1> DEFINE g1 == WithNext(cut, p, e)
           g2 == WithPrev(g1, e, p)
           g3 == WithNext(g2, e, n)
           g  == WithPrev(g3, n, e)
<1>1. /\ g1 \in Nodes(N)
      /\ \A j \in PlacesOf(N) : /\ g1[j].next = IF j = p THEN e ELSE cut[j].next
                                /\ g1[j].prev = cut[j].prev
                                /\ g1[j].data = cut[j].data
                                /\ j # p => g1[j] = cut[j]
  BY NextSet
<1> HIDE DEF g1
<1>2. /\ g2 \in Nodes(N)
      /\ \A j \in PlacesOf(N) : /\ g2[j].prev = IF j = e THEN p ELSE g1[j].prev
                                /\ g2[j].next = g1[j].next
                                /\ g2[j].data = g1[j].data
                                /\ j # e => g2[j] = g1[j]
  BY <1>1, PrevSet
<1> HIDE DEF g2
<1>3. /\ g3 \in Nodes(N)
      /\ \A j \in PlacesOf(N) : /\ g3[j].next = IF j = e THEN n ELSE g2[j].next
                                /\ g3[j].prev = g2[j].prev
                                /\ g3[j].data = g2[j].data
                                /\ j # e => g3[j] = g2[j]
  BY <1>2, NextSet
<1> HIDE DEF g3
<1>4. /\ g \in Nodes(N)
      /\ \A j \in PlacesOf(N) : /\ g[j].prev = IF j = n THEN e ELSE g3[j].prev
                                /\ g[j].next = g3[j].next
                                /\ g[j].data = g3[j].data
                                /\ j # n => g[j] = g3[j]
  BY <1>3, PrevSet
<1> HIDE DEF g
<1>5. \A i \in PlacesOf(N) :
        /\ g[i].next = IF i = e THEN n ELSE IF i = p THEN e ELSE cut[i].next
        /\ g[i].prev = IF i = n THEN e ELSE IF i = e THEN p ELSE cut[i].prev
        /\ g[i].data = cut[i].data
        /\ i # p /\ i # e /\ i # n => g[i] = cut[i]
  BY <1>1, <1>2, <1>3, <1>4
<1>6. FourSet(cut, g, N, p, e, n)
  BY <1>4, <1>5 DEF FourSet
<1>7. QED
  BY <1>6 DEF g, g3, g2, g1

LEMMA ElementMoved ==
  ASSUME NEW nd, NEW top, NEW N, NEW L, ArenaFits(nd, top, N, L),
         NEW e \in UsedIn(nd) \ DOMAIN L, NEW b \in UsedIn(nd), b # e
  PROVE  ArenaFits(MovedNode(nd, b, e), top, N, ListsWith(ListsWithout(L, e), b, e))
<1> DEFINE V == UsedIn(nd)
           W == V \ {e}
           cut == CutNode(nd, e)
           p == cut[b].prev
           n == cut[p].next
           g == MovedNode(nd, b, e)
           M == ListsWithout(L, e)
<1>1. /\ N \in Nat /\ N <= MaxNodes /\ nd \in Nodes(N) /\ Linked(nd, V, L)
      /\ Stacked(NextOf(nd), top, PlacesOf(N) \ V)
  BY DEF ArenaFits
<1>2. V \subseteq PlacesOf(N) /\ DOMAIN nd = PlacesOf(N) /\ DOMAIN NextOf(nd) = PlacesOf(N)
  BY TopIsFree
<1>3. /\ cut \in Nodes(N) /\ CutLinks(nd, cut, N, e) /\ Linked(cut, W, M)
      /\ nd[e].prev \in V /\ nd[e].next \in V
  BY CutNodeIs
<1> HIDE DEF cut
<1>4. b \in W /\ e \notin W /\ W \subseteq PlacesOf(N) /\ W \cup {e} = V /\ e \in PlacesOf(N)
  BY <1>2
<1> HIDE DEF W
<1>5. p \in W /\ n = b
  BY <1>3, <1>4 DEF Linked
<1>6. p \in PlacesOf(N) /\ b \in PlacesOf(N) /\ p # e
  BY <1>4, <1>5
<1>7. FourSet(cut, g, N, p, e, b)
  <2>1. g = WithPrev(WithNext(WithPrev(WithNext(cut, p, e), e, p), e, b), b, e)
    BY <1>5 DEF MovedNode, cut
  <2> HIDE DEF g, p
  <2>2. QED
    BY <1>3, <1>4, <1>6, <2>1, FourAssigned
<1> HIDE DEF g
<1>8. LinkedBefore(cut, g, W, b, e)
  <2>1. \A i \in W : /\ g[i].next = IF i = cut[b].prev THEN e ELSE cut[i].next
                     /\ g[i].prev = IF i = b THEN e ELSE cut[i].prev
                     /\ g[i].data = cut[i].data
    <3>1. \A i \in W : i \in PlacesOf(N) /\ i # e
      BY <1>4
    <3>2. QED
      BY <1>7, <3>1 DEF FourSet
  <2>2. g[e].prev = cut[b].prev /\ g[e].next = b /\ g[e].data = cut[e].data
    BY <1>4, <1>7 DEF FourSet
  <2>3. cut[e].data = nd[e].data /\ nd[e].data \in BOOLEAN /\ nd[e].data
    <3>1. nd[e].data <=> e \notin DOMAIN L
      BY <1>1 DEF Linked
    <3>2. nd[e].data \in BOOLEAN
      BY <1>1, <1>4 DEF Nodes
    <3>3. cut[e].data = nd[e].data
      BY <1>3, <1>4 DEF CutLinks
    <3>4. QED
      BY <3>1, <3>2, <3>3
  <2>4. QED
    BY <2>1, <2>2, <2>3 DEF LinkedBefore
<1>9. DOMAIN g = PlacesOf(N) /\ DOMAIN NextOf(g) = PlacesOf(N) /\ g \in Nodes(N)
  BY <1>7 DEF FourSet, Nodes, NextOf
<1>10. Linked(g, V, ListsWith(M, b, e))
  <2>1. W \cup {e} \subseteq DOMAIN g
    BY <1>2, <1>4, <1>9
  <2> HIDE DEF M
  <2>2. Linked(g, W \cup {e}, ListsWith(M, b, e))
    BY <1>3, <1>4, <1>8, <2>1, Inserting
  <2>3. QED
    BY <1>4, <2>2
<1>11. ASSUME NEW j \in PlacesOf(N) \ V PROVE g[j] = nd[j]
  <2>1. j # e /\ j # p /\ j # b /\ j # nd[e].prev /\ j # nd[e].next
    BY <1>3, <1>4, <1>5
  <2>2. g[j] = cut[j]
    BY <1>7, <2>1 DEF FourSet
  <2>3. cut[j] = nd[j]
    BY <1>3, <2>1 DEF CutLinks
  <2>4. QED
    BY <2>2, <2>3
<1>12. UsedIn(g) = V
  <2>1. \A j \in PlacesOf(N) \ V : g[j].prev = -1
    <3>1. \A j \in PlacesOf(N) \ V : nd[j].prev = -1
      BY <1>2 DEF UsedIn
    <3>2. QED
      BY <1>11, <3>1
  <2> HIDE DEF V, M
  <2>2. QED
    BY <1>9, <1>10, <2>1, UseOf
<1>13. Stacked(NextOf(g), top, PlacesOf(N) \ UsedIn(g))
  <2>1. \A i \in PlacesOf(N) \ V : NextOf(g)[i] = NextOf(nd)[i]
    BY <1>2, <1>9, <1>11 DEF NextOf
  <2> DEFINE F == PlacesOf(N) \ V
  <2>2. Stacked(NextOf(nd), top, F) /\ \A i \in F : NextOf(g)[i] = NextOf(nd)[i]
    BY <1>1, <2>1
  <2> HIDE DEF F
  <2>3. Stacked(NextOf(g), top, F)
    BY <1>2, <1>9, <2>2, SameStack
  <2>4. QED
    BY <1>12, <2>3 DEF F
<1> DEFINE K == ListsWith(M, b, e)
<1>14. K = [l \in DOMAIN K |-> K[l]]
  BY DEF ListsWith
<1>15. ArenaFits(g, top, N, K)
  <2>1. Linked(g, V, K)
    BY <1>10
  <2> HIDE DEF K, V
  <2>2. QED
    BY <1>1, <1>9, <1>12, <1>13, <1>14, <2>1 DEF ArenaFits
<1>16. QED
  BY <1>15 DEF g

LEMMA MovedNowhere ==
  ASSUME NEW nd, NEW top, NEW N, NEW L, ArenaFits(nd, top, N, L), NEW e \in UsedIn(nd) \ DOMAIN L
  PROVE  MovedNode(nd, e, e) = nd
<1> DEFINE V == UsedIn(nd)
           cut == CutNode(nd, e)
           p == nd[e].prev
           n == nd[e].next
           g == MovedNode(nd, e, e)
<1>1. nd \in Nodes(N) /\ Linked(nd, V, L)
  BY DEF ArenaFits
<1>2. V \subseteq PlacesOf(N) /\ DOMAIN nd = PlacesOf(N)
  BY TopIsFree
<1>3. /\ cut \in Nodes(N) /\ CutLinks(nd, cut, N, e)
      /\ p # e /\ n # e /\ p \in V /\ n \in V
  BY CutNodeIs
<1> HIDE DEF cut
<1>4. e \in PlacesOf(N) /\ p \in PlacesOf(N) /\ n \in PlacesOf(N)
  BY <1>2, <1>3
<1>5. nd[p].next = e /\ nd[n].prev = e
  BY <1>1 DEF Linked
<1>6. cut[e].prev = p /\ cut[p].next = n
  BY <1>3, <1>4 DEF CutLinks
<1>7. FourSet(cut, g, N, p, e, n)
  <2>1. g = WithPrev(WithNext(WithPrev(WithNext(cut, p, e), e, p), e, n), n, e)
    BY <1>6 DEF MovedNode, cut
  <2> HIDE DEF g, p, n
  <2>2. QED
    BY <1>3, <1>4, <2>1, FourAssigned
<1> HIDE DEF g
<1>8. ASSUME NEW i \in PlacesOf(N) PROVE g[i] = nd[i]
  <2> HIDE DEF V
  <2>1. g[i].next = nd[i].next /\ g[i].prev = nd[i].prev /\ g[i].data = nd[i].data
    <3>1. /\ g[i].next = IF i = e THEN n ELSE IF i = p THEN e ELSE cut[i].next
          /\ g[i].prev = IF i = n THEN e ELSE IF i = e THEN p ELSE cut[i].prev
          /\ g[i].data = cut[i].data
      BY <1>7 DEF FourSet
    <3>2. /\ cut[i].next = IF i = p THEN n ELSE nd[i].next
          /\ cut[i].prev = IF i = n THEN p ELSE nd[i].prev
          /\ cut[i].data = nd[i].data
      BY <1>3 DEF CutLinks
    <3>3. QED
      BY <1>3, <1>5, <3>1, <3>2
  <2>2. /\ g[i] \in [prev : PlacesOf(N) \cup {-1}, next : PlacesOf(N) \cup {-1}, data : BOOLEAN]
        /\ nd[i] \in [prev : PlacesOf(N) \cup {-1}, next : PlacesOf(N) \cup {-1}, data : BOOLEAN]
    BY <1>1, <1>7 DEF FourSet, Nodes
  <2>3. QED
    BY <2>1, <2>2
<1>9. g \in Nodes(N)
  BY <1>7 DEF FourSet
<1>10. g = nd
  BY <1>1, <1>8, <1>9 DEF Nodes
<1>11. QED
  BY <1>10 DEF g

(***************************************************************************)
(* A list is removed: its elements, in order, and then the list itself are *)
(* pushed on the stack.                                                    *)
(***************************************************************************)
Freed(next) == [prev |-> -1, next |-> next, data |-> FALSE]

GoneNodes(nd, top, N, l, s) ==
  [i \in PlacesOf(N) |->
     IF i = l
       THEN Freed(IF s = <<>> THEN top ELSE s[Len(s)])
     ELSE IF \E k \in DOMAIN s : s[k] = i
       THEN LET k == CHOOSE k \in DOMAIN s : s[k] = i IN Freed(IF k = 1 THEN top ELSE s[k - 1])
     ELSE nd[i]]

GoneAre(g, nd, top, N, l, s) ==
  /\ g \in Nodes(N)
  /\ g[l] = Freed(IF Len(s) = 0 THEN top ELSE s[Len(s)])
  /\ \A k \in 1 .. Len(s) : g[s[k]] = Freed(IF k = 1 THEN top ELSE s[k - 1])
  /\ \A i \in PlacesOf(N) : i # l /\ i \notin ToSet(s) => g[i] = nd[i]

LEMMA GoneNodesAre ==
  ASSUME NEW N, NEW nd \in Nodes(N), NEW top \in PlacesOf(N) \cup {-1},
         NEW l \in PlacesOf(N), NEW s \in Seq(PlacesOf(N)), Distinct(s), l \notin ToSet(s)
  PROVE  GoneAre(GoneNodes(nd, top, N, l, s), nd, top, N, l, s)
<1> DEFINE g == GoneNodes(nd, top, N, l, s)
           n == Len(s)
           X == IF s = <<>> THEN top ELSE s[Len(s)]
           Y(k) == IF k = 1 THEN top ELSE s[k - 1]
           At1(i) == CHOOSE k \in DOMAIN s : s[k] = i
<1>1. /\ n \in Nat /\ DOMAIN s = 1 .. n /\ (s = <<>> <=> n = 0)
      /\ \A k \in 1 .. n : s[k] \in PlacesOf(N) /\ s[k] # l
      /\ \A k, m \in 1 .. n : s[k] = s[m] => k = m
      /\ ToSet(s) = {s[k] : k \in 1 .. n}
  BY DEF ToSet, Distinct
<1>2. \A x \in PlacesOf(N) \cup {-1} : Freed(x) \in NodesOf(N)
  BY DEF Freed, NodesOf
<1>3. X \in PlacesOf(N) \cup {-1} /\ \A k \in 1 .. n : Y(k) \in PlacesOf(N) \cup {-1}
  BY <1>1
<1>4. nd \in [PlacesOf(N) -> NodesOf(N)]
  BY DEF Nodes, NodesOf
<1>5. \A k \in 1 .. n : At1(s[k]) = k
  BY <1>1
<1> HIDE DEF X, Y, At1, n
<1>6. g = [i \in PlacesOf(N) |-> IF i = l THEN Freed(X)
                                 ELSE IF \E k \in DOMAIN s : s[k] = i THEN Freed(Y(At1(i)))
                                 ELSE nd[i]]
  BY DEF GoneNodes, X, Y, At1
<1> HIDE DEF g
<1>7. g[l] = Freed(X)
  BY <1>6
<1>8. \A k \in 1 .. n : g[s[k]] = Freed(Y(k))
  BY <1>1, <1>5, <1>6
<1>9. \A i \in PlacesOf(N) : i # l /\ i \notin ToSet(s) => g[i] = nd[i]
  BY <1>1, <1>6
<1>10. \A i \in PlacesOf(N) : g[i] \in NodesOf(N)
  <2>1. g[l] \in NodesOf(N)
    BY <1>2, <1>3, <1>7
  <2>2. \A k \in 1 .. n : g[s[k]] \in NodesOf(N)
    BY <1>2, <1>3, <1>8
  <2>3. QED
    BY <1>1, <1>4, <1>9, <2>1, <2>2
<1>11. g \in [PlacesOf(N) -> NodesOf(N)]
  BY <1>6, <1>10
<1>12. g \in Nodes(N)
  BY <1>11 DEF Nodes, NodesOf
<1>13. X = IF n = 0 THEN top ELSE s[n]
  BY <1>1 DEF X, n
<1>14. QED
  BY <1>7, <1>8, <1>9, <1>12, <1>13 DEF GoneAre, g, n, Y

LEMMA ListGone ==
  ASSUME NEW nd, NEW top, NEW N, NEW L, ArenaFits(nd, top, N, L), NEW l \in DOMAIN L
  PROVE  ArenaFits(GoneNodes(nd, top, N, l, L[l]), l, N, ListsBut(L, l))
<1> DEFINE V == UsedIn(nd)
           s == L[l]
           n == Len(s)
           g == GoneNodes(nd, top, N, l, s)
           W == V \ ({l} \cup ToSet(s))
           F == PlacesOf(N) \ V
           link == NextOf(g)
           Top(k) == IF k = 0 THEN top ELSE s[k]
           Free(k) == F \cup {s[j] : j \in 1 .. k}
           StackedSoFar(k) == Stacked(link, Top(k), Free(k))
<1>1. /\ N \in Nat /\ N <= MaxNodes /\ nd \in Nodes(N) /\ Linked(nd, V, L)
      /\ Stacked(NextOf(nd), top, F)
  BY DEF ArenaFits
<1>2. /\ V \subseteq PlacesOf(N) /\ DOMAIN nd = PlacesOf(N) /\ DOMAIN NextOf(nd) = PlacesOf(N)
      /\ top \in PlacesOf(N) \cup {-1}
  BY TopIsFree
<1>3. s \in Seq(V \ DOMAIN L) /\ l \in V /\ n \in Nat /\ Distinct(s) /\ l \notin ToSet(s)
  BY <1>1, InARing
<1>4. s \in Seq(PlacesOf(N)) /\ l \in PlacesOf(N)
  BY <1>2, <1>3
<1>5. /\ \A k \in 1 .. n : s[k] \in V
      /\ \A k, m \in 1 .. n : s[k] = s[m] => k = m
      /\ ToSet(s) = {s[k] : k \in 1 .. n} /\ ToSet(s) \subseteq V
  BY <1>3 DEF ToSet, Distinct
<1> HIDE DEF s
<1>6. /\ g \in Nodes(N)
      /\ g[l] = Freed(IF n = 0 THEN top ELSE s[n])
      /\ \A k \in 1 .. n : g[s[k]] = Freed(IF k = 1 THEN top ELSE s[k - 1])
      /\ \A i \in PlacesOf(N) : i # l /\ i \notin ToSet(s) => g[i] = nd[i]
  <2>1. GoneAre(g, nd, top, N, l, s)
    BY <1>1, <1>2, <1>3, <1>4, GoneNodesAre
  <2>2. QED
    BY <2>1 DEF GoneAre
<1> HIDE DEF g
<1>7. DOMAIN g = PlacesOf(N) /\ DOMAIN link = PlacesOf(N) /\ \A i \in PlacesOf(N) : link[i] = g[i].next
  BY <1>6 DEF Nodes, NextOf
<1>8. Linked(g, W, ListsBut(L, l))
  <2>1. W \subseteq DOMAIN g
    BY <1>2, <1>7
  <2>2. \A i \in W : g[i] = nd[i]
    BY <1>2, <1>6
  <2> HIDE DEF V
  <2>3. QED
    BY <1>1, <2>1, <2>2, ListRemoved DEF s
<1>9. UsedIn(g) = W
  <2>1. ASSUME NEW j \in PlacesOf(N) \ W PROVE g[j].prev = -1
    <3>1. CASE j = l
      BY <1>6, <3>1 DEF Freed
    <3>2. CASE j \in ToSet(s)
      <4>1. PICK k \in 1 .. n : j = s[k]
        BY <1>5, <3>2
      <4>2. g[j] = Freed(IF k = 1 THEN top ELSE s[k - 1])
        BY <1>6, <4>1
      <4>3. QED
        BY <4>2 DEF Freed
    <3>3. CASE j # l /\ j \notin ToSet(s)
      <4>1. j \notin V /\ g[j] = nd[j]
        BY <1>6, <3>3
      <4>2. QED
        BY <1>2, <4>1 DEF UsedIn
    <3>4. QED
      BY <3>1, <3>2, <3>3
  <2> HIDE DEF W
  <2>2. QED
    BY <1>6, <1>8, <2>1, UseOf
<1>10. \A k \in 0 .. n : StackedSoFar(k)
  <2> DEFINE D == {k \in Nat : k <= n => StackedSoFar(k)}
  <2>1. 0 \in D
    <3>1. Free(0) = F /\ Top(0) = top
      OBVIOUS
    <3>2. \A i \in F : link[i] = NextOf(nd)[i]
      <4>1. \A i \in F : i \in PlacesOf(N) /\ i # l /\ i \notin ToSet(s)
        BY <1>3, <1>5
      <4>2. QED
        BY <1>2, <1>6, <1>7, <4>1 DEF NextOf
    <3> HIDE DEF F, link, Free, Top
    <3>3. Stacked(link, top, F)
      BY <1>1, <1>2, <1>7, <3>2, SameStack
    <3>4. QED
      BY <3>1, <3>3
  <2>2. ASSUME NEW k \in Nat, k \in D PROVE k + 1 \in D
    <3>1. SUFFICES ASSUME k + 1 <= n PROVE StackedSoFar(k + 1)
      OBVIOUS
    <3>2. k + 1 \in 1 .. n /\ k <= n /\ k + 1 # 0
      BY <1>3, <3>1
    <3>3. Stacked(link, Top(k), Free(k))
      BY <2>2, <3>2
    <3>4. Free(k + 1) = Free(k) \cup {s[k + 1]} /\ Top(k + 1) = s[k + 1]
      <4>1. 1 .. k + 1 = (1 .. k) \cup {k + 1}
        OBVIOUS
      <4>2. {s[j] : j \in 1 .. k + 1} = {s[j] : j \in 1 .. k} \cup {s[k + 1]}
        BY <4>1
      <4>3. QED
        BY <3>2, <4>2
    <3>5. s[k + 1] \notin Free(k)
      <4>1. s[k + 1] \in V /\ \A j \in 1 .. k : j \in 1 .. n /\ j # k + 1
        BY <1>3, <1>5, <3>2
      <4>2. QED
        BY <1>5, <3>2, <4>1
    <3>6. s[k + 1] \in DOMAIN link /\ link[s[k + 1]] = Top(k)
      <4>1. s[k + 1] \in PlacesOf(N)
        BY <1>2, <1>5, <3>2
      <4>2. link[s[k + 1]] = IF k + 1 = 1 THEN top ELSE s[k + 1 - 1]
        <5> DEFINE j == k + 1
        <5>1. j \in 1 .. n /\ s[j] \in PlacesOf(N)
          BY <3>2, <4>1
        <5> HIDE DEF j, link
        <5>2. g[s[j]] = Freed(IF j = 1 THEN top ELSE s[j - 1])
          BY <1>6, <5>1
        <5>3. link[s[j]] = IF j = 1 THEN top ELSE s[j - 1]
          BY <1>7, <5>1, <5>2 DEF Freed
        <5>4. QED
          BY <5>3 DEF j
      <4>3. k + 1 = 1 <=> k = 0
        OBVIOUS
      <4>4. k + 1 - 1 = k
        OBVIOUS
      <4>5. QED
        BY <1>7, <4>1, <4>2, <4>3, <4>4
    <3> HIDE DEF link, Free, Top
    <3>7. Stacked(link, s[k + 1], Free(k) \cup {s[k + 1]})
      BY <3>3, <3>5, <3>6, PushedOn
    <3>8. QED
      BY <3>4, <3>7
  <2>3. Nat \subseteq D
    <3> HIDE DEF D
    <3>1. QED
      BY <2>1, <2>2, SetInduction
  <2> HIDE DEF StackedSoFar
  <2>4. QED
    BY <1>3, <2>3
<1>11. Stacked(link, l, PlacesOf(N) \ UsedIn(g))
  <2>1. PlacesOf(N) \ UsedIn(g) = Free(n) \cup {l} /\ l \notin Free(n)
    <3>1. Free(n) = F \cup ToSet(s)
      BY <1>5
    <3>2. l \notin F /\ l \in PlacesOf(N) /\ l \in V
      BY <1>3, <1>4
    <3>3. ToSet(s) \subseteq V /\ ToSet(s) \subseteq PlacesOf(N)
      BY <1>2, <1>5
    <3> HIDE DEF V, Free
    <3>4. QED
      BY <1>3, <1>9, <3>1, <3>2, <3>3
  <2>2. Stacked(link, Top(n), Free(n))
    <3>1. n \in 0 .. n
      BY <1>3
    <3> HIDE DEF StackedSoFar
    <3>2. StackedSoFar(n)
      BY <1>10, <3>1
    <3>3. QED
      BY <3>2 DEF StackedSoFar
  <2>3. link[l] = Top(n)
    BY <1>4, <1>6, <1>7 DEF Freed
  <2> HIDE DEF link, Free, Top
  <2>4. Stacked(link, l, Free(n) \cup {l})
    BY <1>4, <1>7, <2>1, <2>2, <2>3, PushedOn
  <2>5. QED
    BY <2>1, <2>4
<1> DEFINE K == ListsBut(L, l)
<1>12. K = [m \in DOMAIN K |-> K[m]]
  BY DEF ListsBut
<1>13. ArenaFits(g, l, N, K)
  <2> HIDE DEF K, W
  <2>1. Linked(g, UsedIn(g), K)
    BY <1>8, <1>9 DEF K
  <2>2. QED
    BY <1>1, <1>6, <1>11, <1>12, <2>1 DEF ArenaFits
<1>14. QED
  BY <1>13 DEF g, s

(***************************************************************************)
(* The operations of the arena are these.                                  *)
(***************************************************************************)
LEMMA TakesNodeIs ==
  ASSUME NEW nd, NEW top, NEW N, NEW L, ArenaFits(nd, top, N, L), ArenaIs(nd, top), NEW i, Arena!TakesNode(i)
  PROVE  /\ i = NewId(top, N) /\ arena_free_top' = NodeTop(nd, top)
         /\ top = -1 => N < MaxNodes
<1>1. nodes = nd /\ arena_free_top = top /\ Arena!Size = N
  BY ArenaIsSeen DEF ArenaIs, ArenaSeen
<1>2. QED
  BY <1>1 DEF Arena!TakesNode, NewId, NodeTop

LEMMA ExtendedIs ==
  ASSUME NEW nd, NEW top, NEW N, NEW L, ArenaFits(nd, top, N, L), ArenaIs(nd, top), NEW i, NEW node
  PROVE  Arena!Extended(i, node) = WithNode(nd, N, i, node)
<1>1. nodes = nd /\ Arena!Ids = PlacesOf(N)
  BY ArenaIsSeen DEF ArenaIs, ArenaSeen
<1>2. QED
  BY <1>1 DEF Arena!Extended, WithNode

LEMMA UnlinkedIs ==
  ASSUME NEW nd, NEW top, ArenaIs(nd, top), NEW e
  PROVE  Arena!Unlinked(e) = CutNode(nd, e)
BY DEF ArenaIs, Arena!Unlinked, CutNode, WithPrev, WithNext

LEMMA AddListIs ==
  ASSUME NEW nd, NEW top, NEW N, NEW L, ArenaFits(nd, top, N, L), ArenaIs(nd, top), Arena!AddList
  PROVE  ArenaIs(WithList(nd, top, N), NodeTop(nd, top))' /\ (top = -1 => N < MaxNodes)
<1>1. PICK i : Arena!TakesNode(i) /\ nodes' = Arena!Extended(i, Arena!Node(i, i, FALSE))
  BY DEF Arena!AddList
<1>2. i = NewId(top, N) /\ arena_free_top' = NodeTop(nd, top) /\ (top = -1 => N < MaxNodes)
  BY <1>1, TakesNodeIs
<1>3. nodes' = WithNode(nd, N, i, Arena!Node(i, i, FALSE))
  BY <1>1, ExtendedIs
<1>4. nodes' = WithList(nd, top, N)
  BY <1>2, <1>3 DEF WithList, Arena!Node
<1>5. QED
  BY <1>2, <1>4 DEF ArenaIs

LEMMA AddElementBeforeIs ==
  ASSUME NEW nd, NEW top, NEW N, NEW L, ArenaFits(nd, top, N, L), ArenaIs(nd, top),
         NEW b, Arena!AddElementBefore(b)
  PROVE  ArenaIs(WithElement(nd, top, N, b), NodeTop(nd, top))' /\ (top = -1 => N < MaxNodes)
<1>1. PICK i : /\ Arena!TakesNode(i)
               /\ nodes' = [Arena!Extended(i, Arena!Node(nodes[b].prev, b, TRUE)) EXCEPT
                              ![nodes[b].prev].next = i, ![b].prev = i]
  BY DEF Arena!AddElementBefore
<1>2. i = NewId(top, N) /\ arena_free_top' = NodeTop(nd, top) /\ (top = -1 => N < MaxNodes)
  BY <1>1, TakesNodeIs
<1>3. nodes = nd
  BY DEF ArenaIs
<1>4. Arena!Extended(i, Arena!Node(nd[b].prev, b, TRUE)) = WithNode(nd, N, i, Arena!Node(nd[b].prev, b, TRUE))
  BY ExtendedIs
<1>5. nodes' = WithElement(nd, top, N, b)
  BY <1>1, <1>2, <1>3, <1>4 DEF WithElement, WithPrev, WithNext, Arena!Node
<1>6. QED
  BY <1>2, <1>5 DEF ArenaIs

LEMMA MoveElementBeforeIs ==
  ASSUME NEW nd, NEW top, ArenaIs(nd, top), NEW b, NEW e, Arena!MoveElementBefore(b, e)
  PROVE  ArenaIs(MovedNode(nd, b, e), top)'
<1> DEFINE cut == CutNode(nd, e)
           p == cut[b].prev
           n == cut[p].next
<1>1. Arena!Unlinked(e) = cut
  BY UnlinkedIs
<1> HIDE DEF cut
<1>2. /\ nodes' = [cut EXCEPT ![p].next = e, ![e].prev = p, ![e].next = n, ![n].prev = e]
      /\ UNCHANGED arena_free_top
  BY <1>1 DEF Arena!MoveElementBefore
<1>3. nodes' = WithPrev(WithNext(WithPrev(WithNext(cut, p, e), e, p), e, n), n, e)
  BY <1>2 DEF WithPrev, WithNext
<1>4. nodes' = MovedNode(nd, b, e)
  BY <1>3 DEF MovedNode, cut
<1>5. QED
  BY <1>2, <1>4 DEF ArenaIs

LEMMA RemoveNodeIs ==
  ASSUME NEW nd, NEW top, ArenaIs(nd, top), NEW e, Arena!RemoveElement(e)
  PROVE  ArenaIs(RemovedNode(nd, top, e), e)'
<1>1. Arena!Unlinked(e) = CutNode(nd, e) /\ arena_free_top = top
  BY UnlinkedIs DEF ArenaIs
<1>2. nodes' = [Arena!Unlinked(e) EXCEPT ![e] = Arena!Node(-1, arena_free_top, FALSE)] /\ arena_free_top' = e
  BY DEF Arena!RemoveElement
<1>3. Arena!Node(-1, arena_free_top, FALSE) = [prev |-> -1, next |-> top, data |-> FALSE]
  BY <1>1 DEF Arena!Node
<1>4. nodes' = RemovedNode(nd, top, e)
  BY <1>1, <1>2, <1>3 DEF RemovedNode
<1>5. QED
  BY <1>2, <1>4 DEF ArenaIs

LEMMA RemoveListIs ==
  ASSUME NEW nd, NEW top, NEW N, NEW L, ArenaFits(nd, top, N, L), ArenaIs(nd, top),
         NEW l \in DOMAIN L, Arena!RemoveList(l)
  PROVE  ArenaIs(GoneNodes(nd, top, N, l, L[l]), l)'
<1>1. nodes = nd /\ arena_free_top = top /\ Arena!Ids = PlacesOf(N) /\ Arena!Follow(l) = L[l]
  BY ArenaIsSeen DEF ArenaIs, ArenaSeen
<1> DEFINE s == Arena!Follow(l)
<1>2. s = L[l]
  BY <1>1
<1> HIDE DEF s
<1>3. /\ nodes' = [i \in Arena!Ids |->
                     IF i = l
                       THEN Arena!Node(-1, IF s = <<>> THEN arena_free_top ELSE s[Len(s)], FALSE)
                     ELSE IF \E k \in DOMAIN s : s[k] = i
                       THEN LET k == CHOOSE k \in DOMAIN s : s[k] = i IN
                              Arena!Node(-1, IF k = 1 THEN arena_free_top ELSE s[k - 1], FALSE)
                     ELSE nodes[i]]
      /\ arena_free_top' = l
  BY DEF Arena!RemoveList, s
<1>4. nodes' = GoneNodes(nd, top, N, l, s)
  BY <1>1, <1>3 DEF GoneNodes, Arena!Node, Freed
<1>5. QED
  BY <1>2, <1>3, <1>4 DEF ArenaIs

(***************************************************************************)
(* What the lists say of the ids.                                          *)
(***************************************************************************)
ElementsOf(L) == UNION {ToSet(L[l]) : l \in DOMAIN L}
UsedBy(L)     == DOMAIN L \cup ElementsOf(L)

FreshId(L, N, M, i) ==
  \/ i \in 0 .. N - 1 /\ i \notin UsedBy(L) /\ M = N
  \/ 0 .. N - 1 \subseteq UsedBy(L) /\ N < MaxNodes /\ i = N /\ M = N + 1

\* A step of Lists.
ListsStep(L, N, K, M) ==
  \/ \E i \in 0 .. N : FreshId(L, N, M, i) /\ K = ListsAnd(L, i)
  \/ \E b \in UsedBy(L) : \E i \in 0 .. N : FreshId(L, N, M, i) /\ K = ListsWith(L, b, i)
  \/ /\ \E b \in UsedBy(L), e \in ElementsOf(L) : b # e /\ K = ListsWith(ListsWithout(L, e), b, e)
     /\ M = N
  \/ \E e \in ElementsOf(L) : K = ListsWithout(L, e) /\ M = N
  \/ \E l \in DOMAIN L : K = ListsBut(L, l) /\ M = N
  \/ K = L /\ M = N

LEMMA UsedIs ==
  ASSUME NEW nd, NEW top, NEW N, NEW L, ArenaFits(nd, top, N, L)
  PROVE  /\ ElementsOf(L) = UsedIn(nd) \ DOMAIN L /\ UsedBy(L) = UsedIn(nd)
         /\ \A l \in DOMAIN L : L[l] \in Seq(UsedIn(nd)) /\ Distinct(L[l])
<1> DEFINE V == UsedIn(nd)
<1>1. Linked(nd, V, L)
  BY DEF ArenaFits
<1> HIDE DEF V
<1>2. /\ DOMAIN L \subseteq V
      /\ \A i \in V \ DOMAIN L : \E l \in DOMAIN L : i \in ToSet(L[l])
  BY <1>1 DEF Linked
<1>3. \A l \in DOMAIN L : L[l] \in Seq(V \ DOMAIN L) /\ Distinct(L[l])
  BY <1>1, InARing
<1>4. \A l \in DOMAIN L : ToSet(L[l]) \subseteq V \ DOMAIN L /\ L[l] \in Seq(V)
  BY <1>3 DEF ToSet
<1>5. ElementsOf(L) = V \ DOMAIN L
  BY <1>2, <1>4 DEF ElementsOf
<1>6. QED
  BY <1>2, <1>3, <1>4, <1>5 DEF UsedBy, V

LEMMA FreshIs ==
  ASSUME NEW nd, NEW top, NEW N, NEW L, ArenaFits(nd, top, N, L), top = -1 => N < MaxNodes
  PROVE  NewId(top, N) \in 0 .. N /\ FreshId(L, N, NewN(top, N), NewId(top, N))
<1>1. N \in Nat /\ UsedBy(L) = UsedIn(nd)
  BY UsedIs DEF ArenaFits
<1>2. /\ top = -1 \/ (top \in PlacesOf(N) /\ top \notin UsedIn(nd))
      /\ top = -1 => UsedIn(nd) = PlacesOf(N)
  BY TopIsFree
<1>3. CASE top = -1
  <2>1. NewId(top, N) = N /\ NewN(top, N) = N + 1
    BY <1>3 DEF NewId, NewN
  <2>2. QED
    BY <1>1, <1>2, <1>3, <2>1 DEF FreshId, PlacesOf
<1>4. CASE top # -1
  <2>1. NewId(top, N) = top /\ NewN(top, N) = N
    BY <1>4 DEF NewId, NewN
  <2>2. top \in 0 .. N - 1 /\ top \notin UsedBy(L) /\ top \in 0 .. N
    BY <1>1, <1>2, <1>4 DEF PlacesOf
  <2>3. QED
    BY <2>1, <2>2 DEF FreshId
<1>5. QED
  BY <1>3, <1>4

LEMMA ArenaStarts ==
  ASSUME Arena!Init
  PROVE  ArenaFits([i \in {} |-> Arena!Node(-1, -1, FALSE)], -1, 0, <<>>)
         /\ ArenaIs([i \in {} |-> Arena!Node(-1, -1, FALSE)], -1)
<1> DEFINE nd == [i \in {} |-> Arena!Node(-1, -1, FALSE)]
<1>1. PlacesOf(0) = {} /\ MaxNodes \in Nat /\ DOMAIN nd = {}
  BY PartsTypes DEF PlacesOf
<1>2. nd \in Nodes(0)
  BY <1>1 DEF Nodes
<1>3. ArenaIs(nd, -1)
  BY DEF Arena!Init, ArenaIs
<1> HIDE DEF nd
<1>4. UsedIn(nd) = {}
  BY <1>1 DEF UsedIn
<1>5. DOMAIN <<>> = {} /\ <<>> = [l \in DOMAIN <<>> |-> <<>>[l]]
  OBVIOUS
<1>6. Linked(nd, {}, <<>>)
  BY <1>1, <1>5 DEF Linked
<1>7. Stacked(NextOf(nd), -1, {})
  <2>1. <<>> \in Seq(DOMAIN NextOf(nd)) /\ Len(<<>>) = 0 /\ ToSet(<<>>) = {}
    BY DEF ToSet
  <2>2. Chain(<<>>, NextOf(nd), -1, -1)
    BY <2>1 DEF Chain, Distinct
  <2>3. QED
    BY <2>1, <2>2 DEF Stacked
<1>8. PlacesOf(0) \ UsedIn(nd) = {}
  BY <1>1
<1>9. ArenaFits(nd, -1, 0, <<>>)
  <2>1. ASSUME NEW L, L = [l \in DOMAIN L |-> L[l]], Linked(nd, {}, L)
        PROVE  ArenaFits(nd, -1, 0, L)
    <3>1. 0 \in Nat /\ 0 <= MaxNodes
      BY <1>1
    <3>2. /\ Linked(nd, UsedIn(nd), L)
          /\ Stacked(NextOf(nd), -1, PlacesOf(0) \ UsedIn(nd))
      BY <2>1, <1>4, <1>7, <1>8
    <3>3. QED
      BY <2>1, <1>2, <3>1, <3>2 DEF ArenaFits
  <2>2. QED
    BY <2>1, <1>5, <1>6
<1>10. QED
  BY <1>3, <1>9 DEF nd

ArenaGoesOn(L, N) ==
  \E g, t, M, K : ArenaFits(g, t, M, K) /\ ArenaIs(g, t)' /\ ListsStep(L, N, K, M)

LEMMA ArenaSteps ==
  ASSUME NEW nd, NEW top, NEW N, NEW L, ArenaFits(nd, top, N, L), ArenaIs(nd, top), Arena!Next
  PROVE  ArenaGoesOn(L, N)
<1>1. /\ Arena!Valid = UsedIn(nd) /\ Arena!Lists = DOMAIN L /\ Arena!Members = UsedIn(nd) \ DOMAIN L
  BY ArenaIsSeen DEF ArenaSeen
<1>2. UsedBy(L) = UsedIn(nd) /\ ElementsOf(L) = UsedIn(nd) \ DOMAIN L
  BY UsedIs
<1>3. CASE Arena!AddList
  <2>1. ArenaIs(WithList(nd, top, N), NodeTop(nd, top))' /\ (top = -1 => N < MaxNodes)
    BY <1>3, AddListIs
  <2>2. ArenaFits(WithList(nd, top, N), NodeTop(nd, top), NewN(top, N), ListsAnd(L, NewId(top, N)))
    BY <2>1, ListAdded
  <2>3. NewId(top, N) \in 0 .. N /\ FreshId(L, N, NewN(top, N), NewId(top, N))
    BY <2>1, FreshIs
  <2>4. ListsStep(L, N, ListsAnd(L, NewId(top, N)), NewN(top, N))
    BY <2>3 DEF ListsStep
  <2>5. QED
    BY <2>1, <2>2, <2>4 DEF ArenaGoesOn
<1>4. ASSUME NEW b \in Arena!Valid, Arena!AddElementBefore(b) PROVE ArenaGoesOn(L, N)
  <2>1. ArenaIs(WithElement(nd, top, N, b), NodeTop(nd, top))' /\ (top = -1 => N < MaxNodes)
    BY <1>4, AddElementBeforeIs
  <2>2. b \in UsedIn(nd) /\ b \in UsedBy(L)
    BY <1>1, <1>2
  <2>3. ArenaFits(WithElement(nd, top, N, b), NodeTop(nd, top), NewN(top, N), ListsWith(L, b, NewId(top, N)))
    BY <2>1, <2>2, ElementAdded
  <2>4. NewId(top, N) \in 0 .. N /\ FreshId(L, N, NewN(top, N), NewId(top, N))
    BY <2>1, FreshIs
  <2>5. ListsStep(L, N, ListsWith(L, b, NewId(top, N)), NewN(top, N))
    BY <2>2, <2>4 DEF ListsStep
  <2>6. QED
    BY <2>1, <2>3, <2>5 DEF ArenaGoesOn
<1>5. ASSUME NEW b \in Arena!Valid, NEW e \in Arena!Members, Arena!MoveElementBefore(b, e)
      PROVE  ArenaGoesOn(L, N)
  <2>1. ArenaIs(MovedNode(nd, b, e), top)'
    BY <1>5, MoveElementBeforeIs
  <2>2. e \in UsedIn(nd) \ DOMAIN L /\ b \in UsedIn(nd) /\ b \in UsedBy(L) /\ e \in ElementsOf(L)
    BY <1>1, <1>2
  <2>3. CASE b = e
    <3>1. ArenaIs(nd, top)'
      BY <2>1, <2>2, <2>3, MovedNowhere
    <3>2. ListsStep(L, N, L, N)
      BY DEF ListsStep
    <3>3. QED
      BY <3>1, <3>2 DEF ArenaGoesOn
  <2>4. CASE b # e
    <3>1. ArenaFits(MovedNode(nd, b, e), top, N, ListsWith(ListsWithout(L, e), b, e))
      BY <2>2, <2>4, ElementMoved
    <3>2. ListsStep(L, N, ListsWith(ListsWithout(L, e), b, e), N)
      BY <2>2, <2>4 DEF ListsStep
    <3>3. QED
      BY <2>1, <3>1, <3>2 DEF ArenaGoesOn
  <2>5. QED
    BY <2>3, <2>4
<1>6. ASSUME NEW e \in Arena!Members, Arena!RemoveElement(e) PROVE ArenaGoesOn(L, N)
  <2>1. ArenaIs(RemovedNode(nd, top, e), e)'
    BY <1>6, RemoveNodeIs
  <2>2. e \in UsedIn(nd) \ DOMAIN L /\ e \in ElementsOf(L)
    BY <1>1, <1>2
  <2>3. ArenaFits(RemovedNode(nd, top, e), e, N, ListsWithout(L, e))
    BY <2>2, ElementRemoved
  <2>4. ListsStep(L, N, ListsWithout(L, e), N)
    BY <2>2 DEF ListsStep
  <2>5. QED
    BY <2>1, <2>3, <2>4 DEF ArenaGoesOn
<1>7. ASSUME NEW l \in Arena!Lists, Arena!RemoveList(l) PROVE ArenaGoesOn(L, N)
  <2>1. l \in DOMAIN L
    BY <1>1
  <2>2. ArenaIs(GoneNodes(nd, top, N, l, L[l]), l)'
    BY <1>7, <2>1, RemoveListIs
  <2>3. ArenaFits(GoneNodes(nd, top, N, l, L[l]), l, N, ListsBut(L, l))
    BY <2>1, ListGone
  <2>4. ListsStep(L, N, ListsBut(L, l), N)
    BY <2>1 DEF ListsStep
  <2>5. QED
    BY <2>2, <2>3, <2>4 DEF ArenaGoesOn
<1>8. QED
  BY <1>3, <1>4, <1>5, <1>6, <1>7 DEF Arena!Next

(***************************************************************************)
(* A step of the arena is a step of Lists, or changes nothing there.       *)
(***************************************************************************)
LEMMA ListsStepIs ==
  ASSUME NEW nd, NEW top, NEW N, NEW L, ArenaFits(nd, top, N, L), NEW K, NEW M,
         [l \in Arena!Lists |-> Arena!Follow(l)] = L, Arena!Size = N,
         ([l \in Arena!Lists |-> Arena!Follow(l)] = K)', (Arena!Size = M)',
         ListsStep(L, N, K, M)
  PROVE  [Arena!Abstract!Next]_(Arena!Abstract!vars)
<1>1. \A s : Arena!Abstract!ToSet(s) = ToSet(s)
  BY DEF Arena!Abstract!ToSet, ToSet
<1>2. \A s, x : Arena!Abstract!Contains(s, x) <=> x \in ToSet(s)
  BY DEF Arena!Abstract!Contains, ToSet
<1>3. Arena!Abstract!Elements = ElementsOf(L)
  BY <1>1 DEF Arena!Abstract!Elements, ElementsOf
<1>4. Arena!Abstract!Used = UsedBy(L)
  BY <1>3 DEF Arena!Abstract!Used, UsedBy
<1>5. \A l \in DOMAIN L : \A b : Arena!Abstract!Holds(l, b) <=> b = l \/ b \in ToSet(L[l])
  BY <1>2 DEF Arena!Abstract!Holds
<1>6. ASSUME NEW i, FreshId(L, N, M, i) PROVE Arena!Abstract!NewId(i)
  BY <1>4, <1>6 DEF Arena!Abstract!NewId, FreshId
<1>7. ASSUME NEW i \in 0 .. N, FreshId(L, N, M, i), K = ListsAnd(L, i) PROVE Arena!Abstract!AddList
  <2>1. Arena!Abstract!NewId(i)
    BY <1>6, <1>7
  <2>2. K = [l \in DOMAIN L \cup {i} |-> IF l = i THEN <<>> ELSE L[l]]
    BY <1>7 DEF ListsAnd
  <2>3. QED
    BY <2>1, <2>2 DEF Arena!Abstract!AddList
<1>8. ASSUME NEW b \in UsedBy(L), NEW i \in 0 .. N, FreshId(L, N, M, i), K = ListsWith(L, b, i)
      PROVE  Arena!Abstract!AddElementBefore(b)
  <2>1. Arena!Abstract!NewId(i)
    BY <1>6, <1>8
  <2>2. \A l \in DOMAIN L : ListWith(L[l], l, b, i) =
           IF Arena!Abstract!Holds(l, b) THEN Arena!Abstract!PutBefore(L[l], b, i) ELSE L[l]
    BY <1>5 DEF ListWith
  <2>3. K = [l \in DOMAIN L |->
               IF Arena!Abstract!Holds(l, b) THEN Arena!Abstract!PutBefore(L[l], b, i) ELSE L[l]]
    BY <1>8, <2>2 DEF ListsWith
  <2>4. QED
    BY <2>1, <2>3 DEF Arena!Abstract!AddElementBefore
<1>9. ASSUME NEW b \in UsedBy(L), NEW e \in ElementsOf(L), b # e,
             K = ListsWith(ListsWithout(L, e), b, e), M = N
      PROVE  Arena!Abstract!MoveElementBefore(b, e)
  <2> DEFINE rest(l) == Arena!Abstract!Without(L[l], e)
  <2>1. ASSUME NEW l \in DOMAIN L
        PROVE  ListWith(rest(l), l, b, e) =
                 IF Arena!Abstract!Holds(l, b) THEN Arena!Abstract!PutBefore(rest(l), b, e) ELSE rest(l)
    <3>1. L[l] \in Seq(UsedIn(nd)) /\ Distinct(L[l])
      BY UsedIs
    <3>2. ToSet(rest(l)) = ToSet(L[l]) \ {e}
      BY <3>1, WithoutIs
    <3>3. b \in ToSet(rest(l)) <=> b \in ToSet(L[l])
      BY <1>9, <3>2
    <3> HIDE DEF rest
    <3>4. QED
      BY <1>5, <3>3 DEF ListWith
  <2>2. DOMAIN ListsWithout(L, e) = DOMAIN L /\ \A l \in DOMAIN L : ListsWithout(L, e)[l] = rest(l)
    BY DEF ListsWithout
  <2> HIDE DEF rest
  <2>3. K = [l \in DOMAIN L |->
               IF Arena!Abstract!Holds(l, b) THEN Arena!Abstract!PutBefore(rest(l), b, e) ELSE rest(l)]
    BY <1>9, <2>1, <2>2 DEF ListsWith
  <2>4. K = [l \in DOMAIN L |->
               IF Arena!Abstract!Holds(l, b)
                 THEN Arena!Abstract!PutBefore(Arena!Abstract!Without(L[l], e), b, e)
                 ELSE Arena!Abstract!Without(L[l], e)]
    BY <2>3 DEF rest
  <2>5. QED
    BY <1>9, <2>4 DEF Arena!Abstract!MoveElementBefore
<1>10. ASSUME NEW e \in ElementsOf(L), K = ListsWithout(L, e), M = N
       PROVE  Arena!Abstract!RemoveElement(e)
  BY <1>10 DEF Arena!Abstract!RemoveElement, ListsWithout
<1>11. ASSUME NEW l \in DOMAIN L, K = ListsBut(L, l), M = N PROVE Arena!Abstract!RemoveList(l)
  BY <1>11 DEF Arena!Abstract!RemoveList, ListsBut
<1>12. ASSUME K = L, M = N PROVE UNCHANGED Arena!Abstract!vars
  BY <1>12 DEF Arena!Abstract!vars
<1>13. L = [l \in Arena!Lists |-> Arena!Follow(l)]
  OBVIOUS
<1>14. Arena!Abstract!Next \/ UNCHANGED Arena!Abstract!vars
  BY <1>3, <1>4, <1>7, <1>8, <1>9, <1>10, <1>11, <1>12 DEF ListsStep, Arena!Abstract!Next
<1>15. QED
  BY <1>14

LEMMA ArenaImplements ==
  /\ Arena!Init => ArenaSound /\ Arena!Abstract!Init
  /\ ArenaSound /\ Arena!Next => ArenaSound' /\ [Arena!Abstract!Next]_(Arena!Abstract!vars)
  /\ ArenaSound /\ UNCHANGED arenaVars => ArenaSound' /\ UNCHANGED Arena!Abstract!vars
<1>1. ASSUME Arena!Init PROVE ArenaSound /\ Arena!Abstract!Init
  <2> DEFINE nd == [i \in {} |-> Arena!Node(-1, -1, FALSE)]
  <2>1. ArenaFits(nd, -1, 0, <<>>) /\ ArenaIs(nd, -1)
    BY <1>1, ArenaStarts
  <2> HIDE DEF nd
  <2>2. ArenaSeen(nd, 0, <<>>)
    BY <2>1, ArenaIsSeen
  <2>3. QED
    BY <2>1, <2>2 DEF ArenaSound, ArenaSeen, Arena!Abstract!Init
<1>2. ASSUME ArenaSound, Arena!Next PROVE ArenaSound' /\ [Arena!Abstract!Next]_(Arena!Abstract!vars)
  <2>1. PICK nd, top, N, L : ArenaFits(nd, top, N, L) /\ ArenaIs(nd, top)
    BY <1>2 DEF ArenaSound
  <2>2. PICK g, t, M, K : ArenaFits(g, t, M, K) /\ ArenaIs(g, t)' /\ ListsStep(L, N, K, M)
    BY <1>2, <2>1, ArenaSteps DEF ArenaGoesOn
  <2>3. ArenaSeen(nd, N, L) /\ ArenaSeen(g, M, K)'
    BY <2>1, <2>2, ArenaIsSeen
  <2>4. ArenaSound'
    BY <2>2 DEF ArenaSound
  <2>5. /\ [l \in Arena!Lists |-> Arena!Follow(l)] = L /\ Arena!Size = N
        /\ ([l \in Arena!Lists |-> Arena!Follow(l)] = K)' /\ (Arena!Size = M)'
    BY <2>3 DEF ArenaSeen
  <2>6. [Arena!Abstract!Next]_(Arena!Abstract!vars)
    BY <2>1, <2>2, <2>5, ListsStepIs
  <2>7. QED
    BY <2>4, <2>6
<1>3. ASSUME ArenaSound, UNCHANGED arenaVars PROVE ArenaSound' /\ UNCHANGED Arena!Abstract!vars
  <2>1. PICK nd, top, N, L : ArenaFits(nd, top, N, L) /\ ArenaIs(nd, top)
    BY <1>3 DEF ArenaSound
  <2>2. ArenaIs(nd, top)'
    BY <1>3, <2>1 DEF ArenaIs, arenaVars
  <2>3. ArenaSound'
    BY <2>1, <2>2 DEF ArenaSound
  <2>4. ArenaSeen(nd, N, L) /\ ArenaSeen(nd, N, L)'
    BY <2>1, <2>2, ArenaIsSeen
  <2>5. UNCHANGED Arena!Abstract!vars
    BY <2>4 DEF ArenaSeen, Arena!Abstract!vars
  <2>6. QED
    BY <2>3, <2>5
<1>4. QED
  BY <1>1, <1>2, <1>3

-----------------------------------------------------------------------------
(***************************************************************************)
(* Both structures, in a behaviour of the parts: a step of one leaves the  *)
(* other alone.                                                            *)
(***************************************************************************)
ListsGoOn == [Arena!Abstract!Next]_(Arena!Abstract!vars)
QueueGoesOn == [Heap!Abstract!Next]_(Heap!Abstract!vars)

LEMMA StructuresStart ==
  PartsInit => ArenaSound /\ HeapSound /\ Arena!Abstract!Init /\ Heap!Abstract!Init
BY ArenaImplements, HeapImplements DEF PartsInit

LEMMA OneAtATime ==
  [PartsNext]_partsVars => /\ Arena!Next \/ UNCHANGED arenaVars
                           /\ Heap!Next \/ UNCHANGED heapVars
<1>1. CASE PartsNext
  BY <1>1 DEF PartsNext
<1>2. CASE UNCHANGED partsVars
  BY <1>2 DEF partsVars
<1>3. QED
  BY <1>1, <1>2

LEMMA StructuresGoOn ==
  ArenaSound /\ HeapSound /\ [PartsNext]_partsVars
    => ArenaSound' /\ HeapSound' /\ ListsGoOn /\ QueueGoesOn
BY OneAtATime, ArenaImplements, HeapImplements DEF ListsGoOn, QueueGoesOn

LEMMA StructuresStaySound == PartsSpec => [](ArenaSound /\ HeapSound)
BY StructuresStart, StructuresGoOn, PTL DEF PartsSpec

(***************************************************************************)
(* After any sequence of calls: the list arena's links match, each way,    *)
(* its lists are disjoint rings through their roots, and each node that is *)
(* in no list is on the free stack once; the heap's indexes match, no      *)
(* element is before its parent, and each other element is on the heap's   *)
(* free stack once.                                                        *)
(***************************************************************************)
THEOREM StructuresInvariance == PartsSpec => [](Arena!Inv /\ Heap!Inv)
BY StructuresStaySound, ArenaSoundImpliesInv, HeapSoundImpliesInv, PTL

(***************************************************************************)
(* Each call of list_arena_t does to its lists what the call says, and to  *)
(* no other element, list or id; and each call of indexed_heap_t does so   *)
(* to its elements, whose first is then at the front.                      *)
(***************************************************************************)
THEOREM PartsImplement == PartsSpec => ImplementsAbstract
<1>1. PartsInit => Arena!Abstract!Init /\ Heap!Abstract!Init
  BY StructuresStart
<1>2. ArenaSound /\ HeapSound /\ [PartsNext]_partsVars
        => /\ [Arena!Abstract!Next]_(Arena!Abstract!vars)
           /\ [Heap!Abstract!Next]_(Heap!Abstract!vars)
  BY StructuresGoOn DEF ListsGoOn, QueueGoesOn
<1>3. PartsSpec => Arena!Abstract!Spec /\ Heap!Abstract!Spec
  BY <1>1, <1>2, StructuresStaySound, PTL DEF PartsSpec, Arena!Abstract!Spec, Heap!Abstract!Spec
<1>4. QED
  BY <1>3 DEF ImplementsAbstract, Arena!ImplementsLists, Heap!ImplementsPriorityQueue

=============================================================================
