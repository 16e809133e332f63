--------------------------- MODULE RequestServer ---------------------------
(***************************************************************************)
(* What dispatcher_t promises to its peers and to its owner, with no       *)
(* threads, locks or event loops in sight:                                 *)
(*                                                                         *)
(* - requests are handled while run() runs and at no other time, no more   *)
(*   than max_concurrent_requests_ at once and no more than one of each    *)
(*   connection;                                                           *)
(* - a connection is dropped when its peer closes it, when a request       *)
(*   breaks it or is interrupted by stop(), or when it is idle and its     *)
(*   place is taken because max_connections_ connections are idle.         *)
(***************************************************************************)
EXTENDS Naturals, FiniteSets

CONSTANTS Clients, MaxConcurrentRequests, MaxConnections

VARIABLES
  conn,     \* "away", "queued", "idle", "busy" or "gone"
  running,  \* is a call of run() in progress?
  stopping  \* has it caught a signal?

vars == <<conn, running, stopping>>

InState(s) == {c \in Clients : conn[c] = s}

Init ==
  /\ conn = [c \in Clients |-> "away"]
  /\ running = FALSE
  /\ stopping = FALSE

(***************************************************************************)
(* A connection becomes idle.  One that is idle has to go if and only if   *)
(* there are too many.                                                     *)
(***************************************************************************)
BecomesIdle(c) ==
  IF MaxConnections # 0 /\ Cardinality(InState("idle")) = MaxConnections
    THEN \E d \in InState("idle") : conn' = [conn EXCEPT ![d] = "gone", ![c] = "idle"]
    ELSE conn' = [conn EXCEPT ![c] = "idle"]

Connect(c) ==
  /\ conn[c] = "away"
  /\ conn' = [conn EXCEPT ![c] = "queued"]
  /\ UNCHANGED <<running, stopping>>

Accept(c) ==
  /\ running
  /\ conn[c] = "queued"
  /\ BecomesIdle(c)
  /\ UNCHANGED <<running, stopping>>

Begin(c) ==
  /\ running
  /\ conn[c] = "idle"
  /\ Cardinality(InState("busy")) < MaxConcurrentRequests
  /\ conn' = [conn EXCEPT ![c] = "busy"]
  /\ UNCHANGED <<running, stopping>>

Finish(c) ==
  /\ conn[c] = "busy"
  /\ BecomesIdle(c)
  /\ UNCHANGED <<running, stopping>>

\* The peer closed an idle connection, or the request broke a busy one.
Drop(c) ==
  /\ running
  /\ conn[c] \in {"idle", "busy"}
  /\ conn' = [conn EXCEPT ![c] = "gone"]
  /\ UNCHANGED <<running, stopping>>

Run ==
  /\ ~running
  /\ running' = TRUE
  /\ UNCHANGED <<conn, stopping>>

CatchSignal ==
  /\ running /\ ~stopping
  /\ stopping' = TRUE
  /\ UNCHANGED <<conn, running>>

Return ==
  /\ running /\ stopping
  /\ InState("busy") = {}
  /\ running' = FALSE
  /\ stopping' = FALSE
  /\ UNCHANGED conn

Next ==
  \/ \E c \in Clients : Connect(c) \/ Accept(c) \/ Begin(c) \/ Finish(c) \/ Drop(c)
  \/ Run \/ CatchSignal \/ Return

Spec == Init /\ [][Next]_vars

=============================================================================
