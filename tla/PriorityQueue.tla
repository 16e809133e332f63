--------------------------- MODULE PriorityQueue ----------------------------
(***************************************************************************)
(* What indexed_heap_t promises: a queue of elements with priorities, with *)
(* ids that are stable and small.  The front element is one of those with  *)
(* the highest priority; which one is unspecified.  The scheduler's alarms *)
(* are such a queue: an earlier time is a higher priority.                 *)
(***************************************************************************)
EXTENDS Integers

CONSTANTS MaxSize, Priorities

VARIABLES
  queue,      \* the priority of each element, by id
  front,      \* the id of the front element, or -1
  capacity    \* the ids that were ever used are 0 .. capacity - 1

vars == <<queue, front, capacity>>

IsFront(q, f) ==
  IF DOMAIN q = {} THEN f = -1
  ELSE f \in DOMAIN q /\ \A i \in DOMAIN q : q[f] <= q[i]

Init ==
  /\ queue = <<>>
  /\ front = -1
  /\ capacity = 0

AddElement(p) ==
  /\ \E i \in 0 .. capacity :
       /\ i \notin DOMAIN queue
       /\ IF DOMAIN queue = 0 .. capacity - 1
            THEN capacity < MaxSize /\ capacity' = capacity + 1
            ELSE i < capacity /\ UNCHANGED capacity
       /\ queue' = [j \in DOMAIN queue \cup {i} |-> IF j = i THEN p ELSE queue[j]]
  /\ IsFront(queue', front')

RemoveElement(i) ==
  /\ queue' = [j \in DOMAIN queue \ {i} |-> queue[j]]
  /\ IsFront(queue', front')
  /\ UNCHANGED capacity

Clear ==
  /\ queue' = <<>>
  /\ front' = -1
  /\ capacity' = 0

Next ==
  \/ \E p \in Priorities : AddElement(p)
  \/ \E i \in DOMAIN queue : RemoveElement(i)
  \/ Clear

Spec == Init /\ [][Next]_vars

=============================================================================
