--------------------------- MODULE NestedHandlers ---------------------------
(***************************************************************************)
(* Handlers of one signal whose lifetimes nest, as signal_handler.hpp      *)
(* demands.  A signal may arrive in each state.                            *)
(***************************************************************************)
EXTENDS Sequences, SequencesExt, SignalHandler

VARIABLES
  signal,        \* what the process has set up
  lifetimes,     \* the handlers that exist, or are being made or destroyed, innermost last
  doing          \* "nothing", "constructing" or "destroying" the innermost one

nestVars == <<signal, lifetimes, doing>>

NestInit == signal = NoHandlers /\ lifetimes = <<>> /\ doing = "nothing"

BeginConstruct(h) ==
  /\ doing = "nothing" /\ ~Contains(lifetimes, h)
  /\ signal' = SetUpImpl(signal, h)
  /\ lifetimes' = Append(lifetimes, h)
  /\ doing' = "constructing"

EndConstruct ==
  /\ doing = "constructing"
  /\ signal' = Redirect(signal, Last(lifetimes))
  /\ doing' = "nothing"
  /\ UNCHANGED lifetimes

BeginDestroy ==
  /\ doing = "nothing" /\ lifetimes # <<>>
  /\ signal' = RestoreAction(signal, Last(lifetimes))
  /\ doing' = "destroying"
  /\ UNCHANGED lifetimes

EndDestroy ==
  /\ doing = "destroying"
  /\ signal' = RestoreImpl(signal, Last(lifetimes))
  /\ lifetimes' = Front(lifetimes)
  /\ doing' = "nothing"

NestNext == (\E h \in Handlers : BeginConstruct(h)) \/ EndConstruct \/ BeginDestroy \/ EndDestroy

-----------------------------------------------------------------------------
(***************************************************************************)
(* "the signal handler constructed last must be destroyed first"           *)
(* (signal_handler.hpp): whenever a signal comes, the innermost handler is *)
(* the one that is called, also between the steps of a constructor or a    *)
(* destructor; only without an enclosing one the default action is taken.  *)
(***************************************************************************)
InnermostIsCalled ==
  /\ signal \in Signals
  /\ Effect(signal) # "aborted"
  /\ Effect(signal) = "killed" => Len(lifetimes) <= (IF doing = "nothing" THEN 0 ELSE 1)
  /\ signal.current = IF lifetimes = <<>> THEN None ELSE Last(lifetimes)

(***************************************************************************)
(* Each handler remembers what it has replaced: the one it is nested in,   *)
(* and the action that was taken before it.                                *)
(***************************************************************************)
LifetimesNest ==
  /\ lifetimes \in Seq(Handlers)
  /\ \A i, j \in 1 .. Len(lifetimes) : lifetimes[i] = lifetimes[j] => i = j
  /\ doing \in {"nothing", "constructing", "destroying"}
  /\ doing # "nothing" => lifetimes # <<>>

\* The action when n handlers are complete.
ActionOf(n) == IF n = 0 THEN "default" ELSE "handler_routine"

RememberTheEnclosing ==
  LET n == Len(lifetimes)
  IN /\ \A i \in 1 .. n :
          signal.prevImpl[lifetimes[i]] = IF i = 1 THEN None ELSE lifetimes[i - 1]
     /\ \A i \in 1 .. n :
          (i < n \/ doing # "constructing") => signal.prevAction[lifetimes[i]] = ActionOf(i - 1)
     /\ signal.action = ActionOf(IF doing = "nothing" THEN n ELSE n - 1)

NestInv == LifetimesNest /\ RememberTheEnclosing /\ InnermostIsCalled

=============================================================================
