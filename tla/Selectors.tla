----------------------------- MODULE Selectors ------------------------------
(***************************************************************************)
(* A selector of any kind (cuti/cuti/selector_factory.cpp): which one an   *)
(* event loop gets is a choice of the user among those the platform has,   *)
(* and must make no difference.                                            *)
(***************************************************************************)
EXTENDS Registrations

CONSTANTS MaxEvents, MaxKevents, MaxPollfds

ASSUME SelectorsAssumption ==
  /\ {MaxEvents, MaxKevents} \subseteq Nat \ {0}
  /\ MaxPollfds \in Nat

VARIABLES
  kind,                    \* which selector this is; the variables of others do not change
  fds, interest,           \* of the epoll and the kqueue selector
  pollfds                  \* of the poll selector

vars == <<kind, arenaVars, ready, result, fds, interest, pollfds>>

Poll   == INSTANCE PollSelector
Select == INSTANCE SelectSelector
Epoll  == INSTANCE EpollSelector
Kqueue == INSTANCE KqueueSelector

\* available_selector_factories()
Kinds == {"poll", "select", "epoll", "kqueue"}

Init ==
  /\ kind \in Kinds
  /\ ArenaInit
  /\ Epoll!EpollInit
  /\ pollfds = <<>>

PollNext ==
  /\ kind = "poll"
  /\ \/ \E e \in Events : Poll!CallWhen(e)
     \/ \E ticket \in Tickets : Poll!Cancel(ticket)
     \/ Poll!Select
  /\ UNCHANGED <<kind, fds, interest>>

SelectNext ==
  /\ kind = "select"
  /\ \/ \E e \in Events : Select!CallWhen(e)
     \/ \E ticket \in Tickets : Select!Cancel(ticket)
     \/ Select!Select
  /\ UNCHANGED <<kind, fds, interest, pollfds>>

EpollNext ==
  /\ kind = "epoll"
  /\ \/ \E e \in Events : Epoll!CallWhen(e)
     \/ \E ticket \in Tickets : Epoll!Cancel(ticket)
     \/ Epoll!Select
  /\ UNCHANGED <<kind, pollfds>>

KqueueNext ==
  /\ kind = "kqueue"
  /\ \/ \E e \in Events : Kqueue!CallWhen(e)
     \/ \E ticket \in Tickets : Kqueue!Cancel(ticket)
     \/ Kqueue!Select
  /\ UNCHANGED <<kind, pollfds>>

World ==
  /\ \E e \in Events : BecomesReady(e) \/ IsOver(e)
  /\ UNCHANGED <<kind, fds, interest, pollfds>>

Next == PollNext \/ SelectNext \/ EpollNext \/ KqueueNext \/ World

(***************************************************************************)
(* An event loop goes on to call select(), and it is not always            *)
(* interrupted; epoll_wait() and kevent() favour no event when there are   *)
(* more than MaxEvents.                                                    *)
(***************************************************************************)
SelectAny ==
  \/ kind = "poll"   /\ Poll!Select   /\ UNCHANGED <<kind, fds, interest>>
  \/ kind = "select" /\ Select!Select /\ UNCHANGED <<kind, fds, interest, pollfds>>
  \/ kind = "epoll"  /\ Epoll!Select  /\ UNCHANGED <<kind, pollfds>>
  \/ kind = "kqueue" /\ Kqueue!Select /\ UNCHANGED <<kind, pollfds>>

\* A select() of which the system call is not interrupted.
SelectReady ==
  \/ kind = "poll"   /\ Poll!SelectReady   /\ UNCHANGED <<kind, fds, interest>>
  \/ kind = "select" /\ Select!SelectReady /\ UNCHANGED <<kind, fds, interest, pollfds>>

\* One in which the kernel reports the event e.
SelectEvent(e) ==
  \/ kind = "epoll"  /\ Epoll!SelectEvent(e)  /\ UNCHANGED <<kind, pollfds>>
  \/ kind = "kqueue" /\ Kqueue!SelectEvent(e) /\ UNCHANGED <<kind, pollfds>>

Fairness ==
  /\ WF_vars(SelectAny)
  /\ SF_vars(SelectReady)
  /\ \A e \in Events : SF_vars(SelectEvent(e))

Spec     == Init /\ [][Next]_vars
FairSpec == Spec /\ Fairness

-----------------------------------------------------------------------------
(***************************************************************************)
(* What every operation relies on: each registration is on one list, and   *)
(* the kernel, or the array for poll(), has exactly the watched ones.  So  *)
(* whatever the kernel reports is found, and is not taken for the event of *)
(* a callback that was given the ticket of another.                        *)
(***************************************************************************)
Inv ==
  /\ ArenaTypeOK
  /\ OnOneList
  /\ kind = "poll" => Poll!PollsForWatched
  /\ kind \in {"epoll", "kqueue"} => Epoll!KernelHasWatched

(***************************************************************************)
(* Each of them is a selector_t.                                           *)
(***************************************************************************)
Abstract == INSTANCE Selector
              WITH Tickets  <- 2 .. MaxTickets + 1,
                   detected <- ToSet(pending_list)

ImplementsSelector == Abstract!Spec

(***************************************************************************)
(* No event starves: a callback is selected, unless it is cancelled, when  *)
(* its event remains ready, whatever other events there are.               *)
(***************************************************************************)
ReadyIsSelected ==
  \A t \in 2 .. MaxTickets + 1 :
    (t \in Tickets /\ callbacks[t] \in ready) ~> (t \notin Tickets \/ callbacks[t] \notin ready)

=============================================================================
