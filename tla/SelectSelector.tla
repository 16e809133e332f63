--------------------------- MODULE SelectSelector ---------------------------
(***************************************************************************)
(* select_selector_t (cuti/cuti/select_selector.cpp) keeps nothing in the  *)
(* kernel: it builds sets of file descriptors from the watched list for    *)
(* each call of select(), which counts the bits it leaves set.  A bit      *)
(* stands for all registrations of an event, but is found for one of them. *)
(* File descriptors are less than FD_SETSIZE.                              *)
(***************************************************************************)
EXTENDS Registrations

CallWhen(e) ==
  /\ \E ticket \in 2 .. slots : Arena!NewId(ticket) /\ AddWatched(ticket, e)
  /\ UNCHANGED <<pending_list, ready, result>>

Cancel(ticket) == RemoveRegistration(ticket)

\* The events of the watched registrations of which select() leaves the bit set.
BitsSet == {callbacks[t] : t \in ToSet(watched_list)} \cap ready

(***************************************************************************)
(* The search goes along the watched list until it has found as many as    *)
(* there are bits set, and takes what it finds off the list at once.       *)
(***************************************************************************)
IsFound(i) ==
  /\ callbacks[watched_list[i]] \in BitsSet
  /\ Cardinality({j \in 1 .. i - 1 : callbacks[watched_list[j]] \in BitsSet})
       < Cardinality(BitsSet)

Found == AtPlaces(watched_list, {i \in DOMAIN watched_list : IsFound(i)})

\* select() is interrupted, or a callback is pending: then it does not look.
Select ==
  /\ Tickets # {}
  /\ \E found \in {<<>>, Found} :
       /\ pending_list # <<>> => found = <<>>
       /\ TakeFirst(found)

SelectReady == BitsSet # {} /\ pending_list = <<>> /\ TakeFirst(Found)

=============================================================================
