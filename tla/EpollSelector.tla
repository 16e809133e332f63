--------------------------- MODULE EpollSelector ----------------------------
(***************************************************************************)
(* epoll_selector_t (cuti/cuti/epoll_selector.cpp): two epoll instances in *)
(* the kernel hold a ticket for each file descriptor they watch.           *)
(*                                                                         *)
(* Tickets are recycled, and the kernel only knows tickets.  So whatever   *)
(* happens to a registration, the kernel must have forgotten its ticket by *)
(* the time the ticket can be given out again.                             *)
(***************************************************************************)
EXTENDS Registrations

CONSTANT MaxEvents         \* the size of epoll_events, 16 in the code

VARIABLES
  fds,                     \* fd_ of each registration, -1 once its event is not watched
  interest                 \* kernel: the ticket each event is watched for, or None

epollVars == <<fds, interest>>

EpollInit ==
  /\ fds = <<>>
  /\ interest = [e \in Events |-> None]

(***************************************************************************)
(* make_ticket().  EPOLL_CTL_ADD fails when the instance already watches   *)
(* the file descriptor; the new registration is then removed again.        *)
(***************************************************************************)
\* Mutant of CallWhen: the file descriptor is not added to the epoll instance.
CallWhenUnwatched(e) ==
  /\ \E ticket \in 2 .. slots :
       /\ Arena!NewId(ticket)
       /\ AddWatched(ticket, e)
       /\ fds' = [t \in Tickets \cup {ticket} |-> IF t = ticket THEN e[1] ELSE fds[t]]
  /\ UNCHANGED <<interest, pending_list, ready, result>>

CallWhen(e) ==
  /\ \E ticket \in 2 .. slots :
       /\ Arena!NewId(ticket)
       /\ IF interest[e] # None
            THEN UNCHANGED <<callbacks, watched_list, epollVars>>
            ELSE /\ AddWatched(ticket, e)
                 /\ fds' = [t \in Tickets \cup {ticket} |-> IF t = ticket THEN e[1] ELSE fds[t]]
                 /\ interest' = [interest EXCEPT ![e] = ticket]
  /\ UNCHANGED <<pending_list, ready, result>>

\* cancel_when_writable() or cancel_when_readable(), whichever suits the ticket.
Cancel(ticket) ==
  /\ interest' = IF fds[ticket] = -1 THEN interest
                 ELSE [interest EXCEPT ![<<fds[ticket], callbacks[ticket][2]>>] = None]
  /\ fds' = [t \in Tickets \ {ticket} |-> fds[t]]
  /\ RemoveRegistration(ticket)

-----------------------------------------------------------------------------
(***************************************************************************)
(* select().  What it finds is a batch of tickets from each instance, and  *)
(* nothing if it is interrupted.  It looks when no callback is pending.    *)
(***************************************************************************)
Reported == {interest[e] : e \in {d \in ready : interest[d] # None}}

\* The ways in which the kernel can report as many of the tickets R as there is room for.
BatchesOf(R) ==
  LET n == IF Cardinality(R) < MaxEvents THEN Cardinality(R) ELSE MaxEvents
  IN {<<>>} \cup {b \in [1 .. n -> R] : IsInjective(b)}

Batches ==
  LET Of(event) == BatchesOf({t \in Reported : callbacks[t][2] = event}) IN
    {w \o r : w \in Of("writable"), r \in Of("readable")}

\* Mutant of Uninterested: the kernel goes on watching for what it has reported.
StillInterested(batch) == interest

\* delete_epoll_event(), for each ticket of a batch.
Uninterested(batch) ==
  [e \in Events |-> IF Contains(batch, interest[e]) THEN None ELSE interest[e]]

SelectBatch(batch) ==
  /\ Tickets # {}
  /\ pending_list # <<>> => batch = <<>>
  /\ interest' = Uninterested(batch)
  /\ TakeFirst(batch)
  /\ fds' = [t \in DOMAIN callbacks' |-> IF Contains(batch, t) THEN -1 ELSE fds[t]]

Select == \E batch \in Batches : SelectBatch(batch)

\* A select() that is told of the event e.
SelectEvent(e) ==
  /\ e \in ready /\ interest[e] # None /\ pending_list = <<>>
  /\ \E batch \in Batches : Contains(batch, interest[e]) /\ SelectBatch(batch)

-----------------------------------------------------------------------------
(***************************************************************************)
(* The kernel has the tickets of the watched registrations and no others:  *)
(* each epoll_ctl(EPOLL_CTL_DEL) succeeds, as is asserted, and no ticket   *)
(* is reported that has been recycled.  And fd_ tells which list a         *)
(* registration is on: that is how cancel_ticket() knows if there is an    *)
(* epoll event to delete.                                                  *)
(***************************************************************************)
KernelHasWatched ==
  /\ interest \in [Events -> ToSet(watched_list) \cup {None}]
  /\ \A t \in ToSet(watched_list) : interest[callbacks[t]] = t
  /\ \A e \in Events : interest[e] # None => callbacks[interest[e]] = e
  /\ fds = [t \in Tickets |-> IF Contains(pending_list, t) THEN -1 ELSE callbacks[t][1]]

=============================================================================
