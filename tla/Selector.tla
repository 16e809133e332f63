------------------------------ MODULE Selector ------------------------------
(***************************************************************************)
(* What selector_t promises (the comments in selector.hpp): each callback  *)
(* that is scheduled is selected at most once, only after its event was    *)
(* detected, and not after it was cancelled; its ticket is valid until     *)
(* then.  An event may be over by the time its callback is selected.       *)
(***************************************************************************)
EXTENDS Naturals

CONSTANTS
  Tickets,     \* what callbacks are identified by
  Events,      \* what can be waited for: pairs of a file descriptor and a direction
  None         \* no callback

VARIABLES
  callbacks,   \* the event of each ticket
  detected,    \* the tickets of which the event has been detected
  ready,       \* the events that a poll would report now
  result       \* what select() last returned: the event, or None

vars == <<callbacks, detected, ready, result>>

Init ==
  /\ callbacks = <<>>
  /\ detected = {}
  /\ ready = {}
  /\ result = None

Without(t) == [u \in DOMAIN callbacks \ {t} |-> callbacks[u]]

CallWhen(e, t) ==
  /\ t \notin DOMAIN callbacks
  /\ callbacks' = [u \in DOMAIN callbacks \cup {t} |-> IF u = t THEN e ELSE callbacks[u]]
  /\ UNCHANGED <<detected, ready, result>>

Cancel(t) ==
  /\ callbacks' = Without(t)
  /\ detected' = detected \ {t}
  /\ UNCHANGED <<ready, result>>

Select ==
  /\ DOMAIN callbacks # {}
  /\ \E new \in SUBSET {t \in DOMAIN callbacks \ detected : callbacks[t] \in ready} :
       \/ /\ detected \cup new = {}
          /\ result' = None
          /\ UNCHANGED <<callbacks, detected>>
       \/ \E t \in detected \cup new :
            /\ result' = callbacks[t]
            /\ callbacks' = Without(t)
            /\ detected' = (detected \cup new) \ {t}
  /\ UNCHANGED ready

BecomesReady(e) ==
  /\ ready' = ready \cup {e}
  /\ UNCHANGED <<callbacks, detected, result>>

IsOver(e) ==
  /\ ready' = ready \ {e}
  /\ UNCHANGED <<callbacks, detected, result>>

Next ==
  \/ \E e \in Events, t \in Tickets : CallWhen(e, t)
  \/ \E t \in DOMAIN callbacks : Cancel(t)
  \/ Select
  \/ \E e \in Events : BecomesReady(e) \/ IsOver(e)

Spec == Init /\ [][Next]_vars

=============================================================================
