---------------------------- MODULE SignalHandler ----------------------------
(***************************************************************************)
(* signal_handler_t (cuti/cuti/signal_handler.cpp) for one signal: the     *)
(* steps of a constructor and a destructor, as functions of what the       *)
(* process has set up for the signal,                                      *)
(*                                                                         *)
(*   action      what the system does: its default, or handler_routine     *)
(*   current     curr_impls[sig]                                           *)
(*   prevImpl    the prev_impl_ of each handler                            *)
(*   prevAction  the prev_action_ of each handler                          *)
(*                                                                         *)
(* Handlers come and go while the process has one thread, so the signal    *)
(* arrives between two of these steps; it is blocked within a step.        *)
(***************************************************************************)
CONSTANTS Handlers, None

Signals ==
  [action     : {"default", "handler_routine"},
   current    : Handlers \cup {None},
   prevImpl   : [Handlers -> Handlers \cup {None}],
   prevAction : [Handlers -> {"default", "handler_routine"}]]

NoHandlers ==
  [action     |-> "default",
   current    |-> None,
   prevImpl   |-> [h \in Handlers |-> None],
   prevAction |-> [h \in Handlers |-> "default"]]

\* Mutant of SetUpImpl: the enclosing handler is not remembered.
SetUpImplAlone(s, h) == [s EXCEPT !.current = h]

\* The two steps of the constructor,
SetUpImpl(s, h)  == [s EXCEPT !.prevImpl[h] = s.current, !.current = h]
Redirect(s, h)   == [s EXCEPT !.prevAction[h] = s.action, !.action = "handler_routine"]

\* and those of the destructor.
RestoreAction(s, h) == [s EXCEPT !.action = s.prevAction[h]]
RestoreImpl(s, h)   == [s EXCEPT !.current = s.prevImpl[h]]

(***************************************************************************)
(* What an arriving signal does: handler_routine() calls back the current  *)
(* handler, and aborts the process if there is none.                       *)
(***************************************************************************)
Effect(s) ==
  IF s.action = "default" THEN "killed" ELSE IF s.current = None THEN "aborted" ELSE "called"

=============================================================================
