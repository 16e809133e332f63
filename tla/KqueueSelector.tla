--------------------------- MODULE KqueueSelector ---------------------------
(***************************************************************************)
(* kqueue_selector_t (cuti/cuti/kqueue_selector.cpp) works as the epoll    *)
(* selector does, but with one queue for both directions, and with events  *)
(* that the kernel deletes as it reports them (EV_ONESHOT).                *)
(*                                                                         *)
(* EV_ADD for an event that is being watched already does not fail, but    *)
(* replaces the ticket.  The callers of a selector never watch an event    *)
(* twice, and that is the precondition of CallWhen here.                   *)
(***************************************************************************)
EXTENDS Registrations

CONSTANT MaxKevents        \* num_events, 16 in the code

VARIABLES
  fds,                     \* fd_ of each registration, -1 once its event is not watched
  interest                 \* kernel: the ticket (udata) of each event, or None

Epoll == INSTANCE EpollSelector WITH MaxEvents <- MaxKevents

CallWhen(e) ==
  /\ interest[e] = None
  /\ Epoll!CallWhen(e)

Cancel(ticket) == Epoll!Cancel(ticket)

Batches == Epoll!BatchesOf(Epoll!Reported)

Select == \E batch \in Batches : Epoll!SelectBatch(batch)

SelectEvent(e) ==
  /\ e \in ready /\ interest[e] # None /\ pending_list = <<>>
  /\ \E batch \in Batches : Contains(batch, interest[e]) /\ Epoll!SelectBatch(batch)

=============================================================================
