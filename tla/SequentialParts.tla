--------------------------- MODULE SequentialParts ---------------------------
(***************************************************************************)
(* The components that one thread uses at a time: the list arena of a      *)
(* selector, the indexed heap of a scheduler, and the log, whose reports   *)
(* hold a mutex.  A behaviour is one of any of them, so that a run can go  *)
(* over several; the variables of the others keep their initial values.    *)
(***************************************************************************)
EXTENDS Integers, Sequences

CONSTANTS
  MaxNodes,                                              \* of the list arena
  MaxElements, Priorities,                               \* of the heap
  SizeLimit, RotationDepth, MaxFailures, MaxMessages, MaxRestarts,    \* of the log
  Absent

VARIABLES
  part,                                                  \* the component
  nodes, arena_free_top,
  elements, heap_free_top, ordering,
  files, rotate_reported, n_failures, reported, restarts, written

Arena == INSTANCE ListArena WITH MaxSize <- MaxNodes, free_top <- arena_free_top
Heap  == INSTANCE IndexedHeap WITH MaxSize <- MaxElements, free_top <- heap_free_top,
                                   None <- Absent
Log   == INSTANCE Logger

ASSUME PartsAssumption ==
  /\ {MaxNodes, MaxElements, SizeLimit, RotationDepth, MaxFailures, MaxMessages, MaxRestarts}
       \subseteq Nat
  /\ SizeLimit >= 2 /\ MaxFailures >= 1
  /\ Priorities \subseteq Int
  /\ Absent \notin Int /\ Absent \notin Seq(Log!Entries)

arenaVars == <<nodes, arena_free_top>>
heapVars  == <<elements, heap_free_top, ordering>>
logVars   == <<files, rotate_reported, n_failures, reported, restarts, written>>
partsVars == <<part, arenaVars, heapVars, logVars>>

PartsInit ==
  /\ part \in {"arena", "heap", "log"}
  /\ Arena!Init
  /\ Heap!Init
  /\ Log!LoggerInit

PartsNext ==
  \/ part = "arena" /\ Arena!Next     /\ UNCHANGED <<part, heapVars, logVars>>
  \/ part = "heap"  /\ Heap!Next      /\ UNCHANGED <<part, arenaVars, logVars>>
  \/ part = "log"   /\ Log!LoggerNext /\ UNCHANGED <<part, arenaVars, heapVars>>

PartsSpec == PartsInit /\ [][PartsNext]_partsVars

-----------------------------------------------------------------------------
(***************************************************************************)
(* The integrity of each component, which each operation relies on and     *)
(* restores: links, indexes and free stacks match, the heap is ordered,    *)
(* and a log file has no second notice of a rotation that keeps failing.   *)
(***************************************************************************)
PartsInv == Arena!Inv /\ Heap!Inv /\ Log!LoggerInv

(***************************************************************************)
(* The arena is a collection of lists with stable, small ids, and the heap *)
(* a priority queue.                                                       *)
(***************************************************************************)
ImplementsAbstract == Arena!ImplementsLists /\ Heap!ImplementsPriorityQueue

(***************************************************************************)
(* Whatever step of a report or a rotation fails, and whenever the process *)
(* is killed and started again: the files go on to hold what they held, in *)
(* order, and what is written, except for the oldest file that is deleted. *)
(***************************************************************************)
LogIsKept == Log!LogIsKept

(***************************************************************************)
(* Every message of a process that precedes one in the log is there too,   *)
(* or is counted by a notice, once.                                        *)
(***************************************************************************)
LossesAreTold == Log!LossesAreTold

=============================================================================
