---------------------------- MODULE Registrations ----------------------------
(***************************************************************************)
(* What the four selectors have in common: the registrations are elements  *)
(* of two lists of an arena, watched and pending, and their ids are the    *)
(* tickets.  A selector differs from the others in what the kernel keeps   *)
(* of its watched registrations, and in how it finds the ready ones.       *)
(***************************************************************************)
EXTENDS Integers, FiniteSets, Sequences, SequencesExt, Places

CONSTANTS
  Events,       \* what can be waited for: pairs of a file descriptor and a direction
  MaxTickets,   \* bound: the size of the arena
  None          \* nothing

ASSUME RegistrationsAssumption ==
  /\ Events \subseteq Nat \X {"writable", "readable"}
  /\ MaxTickets \in Nat
  /\ None \notin Nat \cup Events

VARIABLES
  callbacks,               \* the callback of each ticket in use: its event
  watched_list,
  pending_list,
  slots,                   \* the arena's size
  ready,                   \* kernel: the events that are ready
  result                   \* the callback that select() last returned

arenaVars == <<callbacks, watched_list, pending_list, slots>>

Tickets == DOMAIN callbacks

\* The arena, with the ids 0 and 1 for the lists themselves.
Arena == INSTANCE Lists
           WITH MaxSize  <- MaxTickets + 2,
                lists    <- [l \in {0, 1} |-> IF l = 0 THEN watched_list ELSE pending_list],
                capacity <- slots

ArenaInit ==
  /\ callbacks = <<>>
  /\ watched_list = <<>> /\ pending_list = <<>>
  /\ slots = 2
  /\ ready = {}
  /\ result = None

\* The list s without the tickets T, and with no others.
Off(s, T) == AtPlaces(s, {i \in DOMAIN s : s[i] \notin T})
On(s, T)  == AtPlaces(s, {i \in DOMAIN s : s[i] \in T})

Without(ticket) == [t \in Tickets \ {ticket} |-> callbacks[t]]

\* A new ticket at the end of the watched list.  NewId has found it a slot.
AddWatched(ticket, e) ==
  /\ callbacks' = [t \in Tickets \cup {ticket} |-> IF t = ticket THEN e ELSE callbacks[t]]
  /\ watched_list' = Append(watched_list, ticket)

RemoveRegistration(ticket) ==
  /\ callbacks' = Without(ticket)
  /\ watched_list' = Off(watched_list, {ticket})
  /\ pending_list' = Off(pending_list, {ticket})
  /\ UNCHANGED <<slots, ready, result>>

(***************************************************************************)
(* The end of select(): the tickets that were found become pending, and    *)
(* the callback of the first pending one is returned, if there is any.     *)
(***************************************************************************)
\* Mutant of TakeFirst: the registration whose callback is returned is not removed.
TakeFirstAgain(found) ==
  LET pending == pending_list \o found IN
    /\ watched_list' = Off(watched_list, ToSet(found))
    /\ pending_list' = pending
    /\ result' = IF pending = <<>> THEN None ELSE callbacks[Head(pending)]
    /\ UNCHANGED <<callbacks, slots, ready>>

TakeFirst(found) ==
  LET pending == pending_list \o found IN
    /\ watched_list' = Off(watched_list, ToSet(found))
    /\ IF pending = <<>>
         THEN /\ result' = None
              /\ UNCHANGED <<callbacks, pending_list>>
         ELSE /\ result' = callbacks[Head(pending)]
              /\ pending_list' = Tail(pending)
              /\ callbacks' = Without(Head(pending))
    /\ UNCHANGED <<slots, ready>>

-----------------------------------------------------------------------------
(***************************************************************************)
(* The outside world.                                                      *)
(***************************************************************************)
BecomesReady(e) ==
  /\ ready' = ready \cup {e}
  /\ UNCHANGED <<arenaVars, result>>

IsOver(e) ==
  /\ ready' = ready \ {e}
  /\ UNCHANGED <<arenaVars, result>>

-----------------------------------------------------------------------------
ArenaTypeOK ==
  /\ Tickets \subseteq 2 .. slots - 1
  /\ slots \in 2 .. MaxTickets + 2
  /\ callbacks \in [Tickets -> Events]
  /\ watched_list \in Seq(Tickets) /\ pending_list \in Seq(Tickets)
  /\ ready \subseteq Events
  /\ result \in Events \cup {None}

\* Each registration is on one of the lists, once.
OnOneList ==
  /\ IsInjective(watched_list \o pending_list)
  /\ ToSet(watched_list \o pending_list) = Tickets

=============================================================================
