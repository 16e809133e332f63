----------------------------- MODULE ListArena ------------------------------
(***************************************************************************)
(* list_arena_t (cuti/cuti/list_arena.hpp): circular doubly-linked lists   *)
(* in one array.  A list is the node that stands for its past-the-end      *)
(* position; the free nodes form a stack, linked by next_, and are marked  *)
(* by a prev_ of -1.  Of an element's value only its presence is modelled. *)
(*                                                                         *)
(* Every selector keeps its registrations in such an arena, and hands out  *)
(* the ids as cancellation tickets.                                        *)
(***************************************************************************)
EXTENDS Integers, FiniteSets, Sequences, Places

CONSTANT MaxSize   \* max_size, the largest value of an int in the code

VARIABLES
  nodes,           \* nodes_: [prev, next, data] for each id
  free_top         \* free_top_

vars == <<nodes, free_top>>

Size    == Cardinality(DOMAIN nodes)
Ids     == DOMAIN nodes
Valid   == {i \in Ids : nodes[i].prev # -1}        \* is_valid()
Lists   == {i \in Valid : ~nodes[i].data}          \* is_list()
Members == {i \in Valid : nodes[i].data}           \* is_element()

Node(p, n, d) == [prev |-> p, next |-> n, data |-> d]

TypeOK ==
  /\ Ids = 0 .. Size - 1
  /\ Size <= MaxSize
  /\ nodes \in [Ids -> [prev : Ids \cup {-1}, next : Ids \cup {-1}, data : BOOLEAN]]
  /\ free_top \in Ids \cup {-1}

Init ==
  /\ nodes = [i \in {} |-> Node(-1, -1, FALSE)]
  /\ free_top = -1

(***************************************************************************)
(* A node comes from the free stack or, when that is empty, from the end   *)
(* of the array; out of ids, an exception is thrown and nothing changes.   *)
(***************************************************************************)
TakesNode(i) ==
  IF free_top # -1
    THEN i = free_top /\ free_top' = nodes[i].next
    ELSE i = Size /\ Size < MaxSize /\ UNCHANGED free_top

Extended(i, node) == [j \in Ids \cup {i} |-> IF j = i THEN node ELSE nodes[j]]

AddList ==
  \E i \in 0 .. Size :
    /\ TakesNode(i)
    /\ nodes' = Extended(i, Node(i, i, FALSE))

AddElementBefore(before) ==
  \E i \in 0 .. Size :
    /\ TakesNode(i)
    /\ LET prev == nodes[before].prev IN
         nodes' = [Extended(i, Node(prev, before, TRUE)) EXCEPT
                     ![prev].next = i, ![before].prev = i]

(***************************************************************************)
(* The neighbours an element has just left may be the new ones: they are   *)
(* looked up after it is unlinked.  In the case that element == before the *)
(* element keeps its prev_ when it is unlinked, and is linked back there.  *)
(***************************************************************************)
Unlinked(i) ==
  LET p == nodes[i].prev  n == nodes[i].next IN
    [nodes EXCEPT ![p].next = n, ![n].prev = p]

\* Mutant of MoveElementBefore: the element's new successor is before.
MoveTowardsItself(before, element) ==
  /\ LET cut      == Unlinked(element)
         new_prev == cut[before].prev
     IN nodes' = [cut EXCEPT ![new_prev].next = element,
                             ![element].prev  = new_prev,
                             ![element].next  = before,
                             ![before].prev   = element]
  /\ UNCHANGED free_top

MoveElementBefore(before, element) ==
  /\ LET cut      == Unlinked(element)
         new_prev == cut[before].prev
         new_next == cut[new_prev].next
     IN nodes' = [cut EXCEPT ![new_prev].next = element,
                             ![element].prev  = new_prev,
                             ![element].next  = new_next,
                             ![new_next].prev = element]
  /\ UNCHANGED free_top

RemoveElement(element) ==
  /\ nodes' = [Unlinked(element) EXCEPT ![element] = Node(-1, free_top, FALSE)]
  /\ free_top' = element

(***************************************************************************)
(* The elements of a list, found by following next_.                       *)
(***************************************************************************)
Links == [i \in Ids |-> nodes[i].next]

Follow(l) ==
  LET at   == Along(Links, nodes[l].next, Size)
      ends == {n \in 0 .. Size : at[n] = l}
      len  == IF ends = {} THEN Size ELSE CHOOSE n \in ends : \A m \in ends : n <= m
  IN [n \in 1 .. len |-> at[n - 1]]

\* Removes the elements in order, and then the list: each is pushed on the stack.
RemoveList(l) ==
  LET s == Follow(l) IN
    /\ nodes' = [i \in Ids |->
                   IF i = l
                     THEN Node(-1, IF s = <<>> THEN free_top ELSE s[Len(s)], FALSE)
                   ELSE IF \E k \in DOMAIN s : s[k] = i
                     THEN LET k == CHOOSE k \in DOMAIN s : s[k] = i IN
                            Node(-1, IF k = 1 THEN free_top ELSE s[k - 1], FALSE)
                   ELSE nodes[i]]
    /\ free_top' = l

Next ==
  \/ AddList
  \/ \E before \in Valid : AddElementBefore(before)
  \/ \E before \in Valid, element \in Members : MoveElementBefore(before, element)
  \/ \E element \in Members : RemoveElement(element)
  \/ \E l \in Lists : RemoveList(l)

Spec == Init /\ [][Next]_vars

-----------------------------------------------------------------------------
(***************************************************************************)
(* Links go both ways, between nodes that are in use.  So every element is *)
(* on a list of its own, and it can be moved and removed from wherever it  *)
(* is without naming its list.                                             *)
(***************************************************************************)
LinksMatch ==
  \A i \in Valid :
    /\ nodes[i].prev \in Valid /\ nodes[nodes[i].prev].next = i
    /\ nodes[i].next \in Valid /\ nodes[nodes[i].next].prev = i

(***************************************************************************)
(* Every free node is on the free stack, and no other node is: no id is    *)
(* lost, and none is given out that is in use.                             *)
(***************************************************************************)
FreeStackIsComplete ==
  LET at    == Along(Links, free_top, Size)
      stack == {at[n] : n \in 0 .. Size}
  IN /\ stack \ {-1} = Ids \ Valid
     /\ -1 \in stack

\* The integrity of the arena: every operation relies on it and restores it.
Inv ==
  /\ TypeOK
  /\ LinksMatch
  /\ FreeStackIsComplete

(***************************************************************************)
(* The arena is a collection of lists.                                     *)
(***************************************************************************)
Abstract == INSTANCE Lists WITH lists    <- [l \in Lists |-> Follow(l)],
                                capacity <- Size

ImplementsLists == Abstract!Spec

=============================================================================
