------------------------------- MODULE Lists -------------------------------
(***************************************************************************)
(* What list_arena_t promises (the comment at the top of list_arena.hpp):  *)
(* a collection of lists of which the elements can be rearranged freely,   *)
(* where lists and elements have small ids that stay the same as long as   *)
(* they exist.  An id beyond the ones that were ever used is only given    *)
(* out when every other id is in use, so that ids can index arrays.        *)
(***************************************************************************)
EXTENDS Integers, Sequences, SequencesExt

CONSTANT MaxSize   \* max_size: ids are less than this

VARIABLES
  lists,           \* the elements of each list, in order
  capacity         \* the ids that were ever used are 0 .. capacity - 1

vars == <<lists, capacity>>

Elements == UNION {ToSet(lists[l]) : l \in DOMAIN lists}
Used     == DOMAIN lists \cup Elements

Init ==
  /\ lists = <<>>
  /\ capacity = 0

NewId(i) ==
  \/ /\ i \in 0 .. capacity - 1 /\ i \notin Used
     /\ UNCHANGED capacity
  \/ /\ 0 .. capacity - 1 \subseteq Used
     /\ capacity < MaxSize
     /\ i = capacity
     /\ capacity' = capacity + 1

\* The place of x in a list without duplicates.
Place(s, x) == CHOOSE k \in DOMAIN s : s[k] = x

\* The list s with e put before b, or at its end when b is past its end.
PutBefore(s, b, e) == IF Contains(s, b) THEN InsertAt(s, Place(s, b), e) ELSE Append(s, e)

Without(s, e) == IF Contains(s, e) THEN RemoveAt(s, Place(s, e)) ELSE s

\* The list that the id b denotes a place on.
Holds(l, b) == b = l \/ Contains(lists[l], b)

AddList ==
  \E i \in 0 .. capacity :
    /\ NewId(i)
    /\ lists' = [l \in DOMAIN lists \cup {i} |-> IF l = i THEN <<>> ELSE lists[l]]

AddElementBefore(b) ==
  \E i \in 0 .. capacity :
    /\ NewId(i)
    /\ lists' = [l \in DOMAIN lists |->
                   IF Holds(l, b) THEN PutBefore(lists[l], b, i) ELSE lists[l]]

MoveElementBefore(b, e) ==
  /\ b # e
  /\ lists' = [l \in DOMAIN lists |->
                 LET rest == Without(lists[l], e) IN
                   IF Holds(l, b) THEN PutBefore(rest, b, e) ELSE rest]
  /\ UNCHANGED capacity

RemoveElement(e) ==
  /\ lists' = [l \in DOMAIN lists |-> Without(lists[l], e)]
  /\ UNCHANGED capacity

RemoveList(l) ==
  /\ lists' = [m \in DOMAIN lists \ {l} |-> lists[m]]
  /\ UNCHANGED capacity

Next ==
  \/ AddList
  \/ \E b \in Used : AddElementBefore(b)
  \/ \E b \in Used, e \in Elements : MoveElementBefore(b, e)
  \/ \E e \in Elements : RemoveElement(e)
  \/ \E l \in DOMAIN lists : RemoveList(l)

Spec == Init /\ [][Next]_vars

=============================================================================
