----------------------------- MODULE NbBuffers ------------------------------
(***************************************************************************)
(* A buffer of either direction, with the scheduler it has its callbacks   *)
(* registered with.                                                        *)
(***************************************************************************)
EXTENDS NbInbuf, NbOutbuf

VARIABLE
  direction      \* "in" or "out"; the variables of the other do not change

inVars  == <<ep, at_eof, sent, got>>
outVars == <<wp, limit, written, taken>>
vars    == <<callbackVars, direction, buf, rp, error_status, inVars, outVars>>

Init ==
  /\ direction \in {"in", "out"}
  /\ CallbacksInit
  /\ InbufInit
  /\ OutbufInit

Next ==
  \/ direction = "in" /\ InbufNext /\ UNCHANGED <<direction, outVars>>
  \/ direction = "out" /\ OutbufNext /\ UNCHANGED <<direction, inVars>>

(***************************************************************************)
(* Time passes, and the scheduler calls alarms that are due (Scheduler's   *)
(* AlarmsGoOff).  A source need never become readable, nor a sink writable.*)
(***************************************************************************)
TimePassesBy ==
  Tick /\ UNCHANGED <<direction, buf, rp, error_status, inVars, outVars>>

AlarmGoesOff ==
  \E t \in DOMAIN timers :
    \/ /\ OnAlreadyReady(t)
       /\ UNCHANGED <<direction, buf, rp, error_status, inVars, outVars>>
    \/ direction = "in"  /\ InbufOnNextTick(t)  /\ UNCHANGED <<direction, outVars>>
    \/ direction = "out" /\ OutbufOnNextTick(t) /\ UNCHANGED <<direction, inVars>>

Fairness == WF_vars(TimePassesBy) /\ WF_vars(AlarmGoesOff)

Spec     == Init /\ [][Next]_vars
FairSpec == Spec /\ Fairness

-----------------------------------------------------------------------------
(***************************************************************************)
(* What the handlers and the user rely on, whichever of them is called     *)
(* next: every call from the scheduler is expected, a pending callback has *)
(* something that will call it, nothing else is registered, and the        *)
(* characters are a stream.                                                *)
(***************************************************************************)
Inv ==
  /\ direction \in {"in", "out"}
  /\ CallbacksTypeOK
  /\ TicketsAreKnown
  /\ direction = "in"  => InbufInv
  /\ direction = "out" => OutbufInv

(***************************************************************************)
(* A callback is called when the buffer is readable (data, EOF or error),  *)
(* or writable; and one that waited for a full output buffer is called     *)
(* when all of its characters have been flushed ("The buffer becomes       *)
(* writable again when all characters have been flushed", nb_outbuf.hpp).  *)
(***************************************************************************)
CalledWhenReady ==
  [][(callback /\ outcome' = "called") =>
       IF direction = "in" THEN Readable'
       ELSE Writable' /\ (~Writable => Unsent' = <<>>)]_vars

(***************************************************************************)
(* With the checker on, a user whose peer is silent or stuck is not left   *)
(* waiting, unless the checker is started anew again and again.            *)
(***************************************************************************)
SilenceIsReported ==
  \/ []<>(checker = NewChecker)
  \/ (callback /\ checker # None) ~> (~callback \/ checker = None)

=============================================================================
