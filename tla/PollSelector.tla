---------------------------- MODULE PollSelector ----------------------------
(***************************************************************************)
(* poll_selector_t (cuti/cuti/poll_selector.cpp): an array of pollfds is   *)
(* indexed by the ids of the arena.  The ids of the lists, and of          *)
(* callbacks that are gone or no longer watched, must be those of inactive *)
(* pollfds.                                                                *)
(***************************************************************************)
EXTENDS Registrations

CONSTANT MaxPollfds        \* max_pollfds_size_

VARIABLE pollfds           \* the event to poll for, or None: an inactive pollfd

(***************************************************************************)
(* make_ticket().  When there are too many pollfds an exception is thrown, *)
(* and the callback is removed from the arena again.                       *)
(***************************************************************************)
CallWhen(e) ==
  /\ \E ticket \in 2 .. slots :
       /\ Arena!NewId(ticket)
       /\ IF ticket + 1 > MaxPollfds
            THEN UNCHANGED <<callbacks, watched_list, pollfds>>
            ELSE /\ AddWatched(ticket, e)
                 /\ pollfds' = [i \in DOMAIN pollfds \cup 0 .. ticket |->
                                  IF i = ticket THEN e
                                  ELSE IF i \in DOMAIN pollfds THEN pollfds[i] ELSE None]
  /\ UNCHANGED <<pending_list, ready, result>>

\* cancel_ticket()
Cancel(ticket) ==
  /\ pollfds' = [pollfds EXCEPT ![ticket] = None]
  /\ RemoveRegistration(ticket)

(***************************************************************************)
(* select().  poll() counts the pollfds with an event, unless it is        *)
(* interrupted; as many of the watched callbacks have to be found.         *)
(***************************************************************************)
Reported == {i \in DOMAIN pollfds : pollfds[i] \in ready}

Find(found) ==
  /\ Tickets # {}
  /\ pollfds' = [i \in DOMAIN pollfds |-> IF i \in found THEN None ELSE pollfds[i]]
  /\ TakeFirst(On(watched_list, found))

Select ==
  \E found \in {{}, Reported} :
    /\ pending_list # <<>> => found = {}
    /\ Find(found)

SelectReady == Reported # {} /\ pending_list = <<>> /\ Find(Reported)

(***************************************************************************)
(* The active pollfds are those of the watched callbacks.  So every event  *)
(* that poll() counts is found (the assert that count == 0), and none is   *)
(* taken for that of a callback that has the same id later.                *)
(***************************************************************************)
PollsForWatched ==
  /\ \E size \in 0 .. MaxPollfds : DOMAIN pollfds = 0 .. size - 1
  /\ {i \in DOMAIN pollfds : pollfds[i] # None} = ToSet(watched_list)
  /\ \A t \in ToSet(watched_list) : pollfds[t] = callbacks[t]

=============================================================================
