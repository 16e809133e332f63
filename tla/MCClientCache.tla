--------------------------- MODULE MCClientCache ----------------------------
(* ClientCache for TLC.                                                    *)
EXTENDS ClientCache, TLC

\* Callers, connections and servers are interchangeable.
Symmetry == Permutations(Callers) \cup Permutations(Clients) \cup Permutations(Addresses)
=============================================================================
