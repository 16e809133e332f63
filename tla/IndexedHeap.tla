---------------------------- MODULE IndexedHeap -----------------------------
(***************************************************************************)
(* indexed_heap_t (cuti/cuti/indexed_heap.hpp), as default_scheduler_t     *)
(* uses it: a binary heap of ids, with the earliest time in front, and for *)
(* each id its place in the heap, so that it can be removed from there.    *)
(* The slots of unused ids form a stack, linked by index_.  Indexes start  *)
(* at 0 as they do in the code.  Values are not modelled.                  *)
(***************************************************************************)
EXTENDS Integers, FiniteSets, Places

CONSTANTS
  MaxSize,        \* the largest value of an int in the code
  Priorities,     \* points in time
  None            \* std::nullopt

VARIABLES
  elements,       \* elements_: [index, pv] for each id
  free_top,       \* free_top_
  ordering        \* ordering_

vars == <<elements, free_top, ordering>>

Ids    == DOMAIN elements
Valid  == {i \in Ids : elements[i].pv # None}     \* valid_id()
Length == Cardinality(DOMAIN ordering)            \* ordering_size()

TypeOK ==
  /\ Ids = 0 .. Cardinality(Ids) - 1 /\ Cardinality(Ids) <= MaxSize
  /\ elements \in [Ids -> [index : Ids \cup {-1}, pv : Priorities \cup {None}]]
  /\ free_top \in Ids \cup {-1}
  /\ ordering \in [0 .. Length - 1 -> Ids]

Init ==
  /\ elements = <<>>
  /\ free_top = -1
  /\ ordering = <<>>

-----------------------------------------------------------------------------
(***************************************************************************)
(* The heap operations, on records [elements, ordering].                   *)
(***************************************************************************)
\* cmp_ (std::greater): does a come after b?
After(h, a, b) == h.elements[a].pv > h.elements[b].pv

\* The elements at i and j trade places.
Trade(h, i, j) ==
  LET a == h.ordering[i]  b == h.ordering[j] IN
    [elements |-> [h.elements EXCEPT ![a].index = j, ![b].index = i],
     ordering |-> [h.ordering EXCEPT ![i] = b, ![j] = a]]

\* Mutant of SwimStep: the wrong parent, as if indexes started at 1.
SwimStepFromOne(h, id) ==
  LET index == h.elements[id].index  parent == index \div 2 IN
    IF index > 0 /\ After(h, h.ordering[parent], id) THEN Trade(h, index, parent) ELSE h

SwimStep(h, id) ==
  LET index == h.elements[id].index  parent == (index - 1) \div 2 IN
    IF index > 0 /\ After(h, h.ordering[parent], id) THEN Trade(h, index, parent) ELSE h

\* A loop, of which a step changes nothing when it is over.
Swim(h, id) ==
  LET n == Cardinality(DOMAIN h.ordering)
      swum[k \in 0 .. n] == IF k = 0 THEN h ELSE SwimStep(swum[k - 1], id)
  IN swum[n]

\* Of the children, in order, the last one that comes before all seen so far.
SinkStep(h, id) ==
  LET index   == h.elements[id].index
      limit   == Cardinality(DOMAIN h.ordering)
      Best(i, j) == IF j < limit /\ After(h, h.ordering[i], h.ordering[j]) THEN j ELSE i
      highest == Best(Best(index, 2 * index + 1), 2 * index + 2)
  IN IF index < limit \div 2 /\ highest # index THEN Trade(h, index, highest) ELSE h

Sink(h, id) ==
  LET n == Cardinality(DOMAIN h.ordering)
      sunk[k \in 0 .. n] == IF k = 0 THEN h ELSE SinkStep(sunk[k - 1], id)
  IN sunk[n]

-----------------------------------------------------------------------------
AddElement(p) ==
  LET id  == IF free_top # -1 THEN free_top ELSE Cardinality(Ids)
      new == [elements |-> [i \in Ids \cup {id} |->
                              IF i = id THEN [index |-> Length, pv |-> p] ELSE elements[i]],
              ordering |-> [i \in 0 .. Length |-> IF i = Length THEN id ELSE ordering[i]]]
      h   == Swim(new, id)
  IN /\ id < MaxSize                   \* or an exception is thrown
     /\ elements' = h.elements
     /\ ordering' = h.ordering
     /\ free_top' = IF free_top # -1 THEN elements[id].index ELSE free_top

(***************************************************************************)
(* The last element of the heap moves to the place of the removed one; it  *)
(* need not come after the elements above that place, so it may have to    *)
(* move up from there.                                                     *)
(***************************************************************************)
RemoveElement(id) ==
  LET index == elements[id].index
      last  == ordering[Length - 1]
      cut   == [elements |-> [elements EXCEPT ![last].index = index,
                                              ![id] = [index |-> free_top, pv |-> None]],
                ordering |-> [i \in 0 .. Length - 2 |->
                                IF i = index THEN last ELSE ordering[i]]]
      swum  == Swim(cut, last)
      h     == IF last = id THEN cut ELSE IF swum # cut THEN swum ELSE Sink(cut, last)
  IN /\ elements' = h.elements
     /\ ordering' = h.ordering
     /\ free_top' = id

Clear ==
  /\ elements' = <<>>
  /\ free_top' = -1
  /\ ordering' = <<>>

Next ==
  \/ \E p \in Priorities : AddElement(p)
  \/ \E id \in Valid : RemoveElement(id)
  \/ Clear

Spec == Init /\ [][Next]_vars

-----------------------------------------------------------------------------
(***************************************************************************)
(* The heap and the ids' places in it are each other's inverse, so that an *)
(* id can be removed from anywhere; and the other slots are all on the     *)
(* free stack, so that no id is lost or given out twice.                   *)
(***************************************************************************)
IndexesMatch ==
  LET at   == Along([i \in Ids |-> elements[i].index], free_top, Cardinality(Ids))
      free == {at[n] : n \in 0 .. Cardinality(Ids)}
  IN /\ DOMAIN ordering = {elements[i].index : i \in Valid}
     /\ \A i \in Valid : ordering[elements[i].index] = i
     /\ free = (Ids \ Valid) \cup {-1}

(***************************************************************************)
(* No element comes after its children, also after one was removed from    *)
(* the middle of the heap.                                                 *)
(***************************************************************************)
HeapOrdered ==
  \A i \in DOMAIN ordering \ {0} :
    elements[ordering[(i - 1) \div 2]].pv <= elements[ordering[i]].pv

\* The integrity of the heap: every operation relies on it and restores it.
Inv ==
  /\ TypeOK
  /\ IndexesMatch
  /\ HeapOrdered

(***************************************************************************)
(* The heap is a priority queue.                                           *)
(***************************************************************************)
Abstract == INSTANCE PriorityQueue
              WITH queue    <- [i \in Valid |-> elements[i].pv],
                   front    <- IF Length = 0 THEN -1 ELSE ordering[0],
                   capacity <- Cardinality(Ids)

ImplementsPriorityQueue == Abstract!Spec

=============================================================================
