---------------------------- MODULE MCDispatcher ----------------------------
(* Dispatcher for TLC.                                                     *)
EXTENDS Dispatcher, TLC

\* The clients are interchangeable; the threads are joined in order.
Symmetry == Permutations(Clients)

(***************************************************************************)
(* A bound on the liveness checks: once one of the clients has connected,  *)
(* the dispatcher is not stopped, and no peer closes its connection.       *)
(***************************************************************************)
Latecomer == CHOOSE c \in Clients : TRUE

LatecomerIsPatient ==
  \/ peer[Latecomer] = "away"
  \/ signals = 0 /\ ~dispatcher_stopping /\ \A c \in Clients : eof[c] => peer[c] = "gone"

LivenessSpec == Init /\ [][Next /\ LatecomerIsPatient']_vars /\ Fairness
=============================================================================
