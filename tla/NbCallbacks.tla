---------------------------- MODULE NbCallbacks -----------------------------
(***************************************************************************)
(* What nb_inbuf_t and nb_outbuf_t have in common: the way they get their  *)
(* user called back.  Device stands for the source of the one and the sink *)
(* of the other, ready for "readable" and "writable".                      *)
(*                                                                         *)
(* While a buffer waits for its device, two callbacks are registered with  *)
(* the scheduler: one for the device, and one for the next tick of the     *)
(* throughput checker.  Each of them undoes the other, and the user may    *)
(* cancel, replace, or switch the checker on and off at any time.  What is *)
(* registered is kept apart here from the tickets the buffer remembers.    *)
(***************************************************************************)
EXTENDS Integers, Sequences, SequencesExt, ThroughputChecker

CONSTANTS
  Tickets,        \* bound: the scheduler's cancellation tickets
  None,           \* nothing
  BufSize,        \* bufsize
  StreamLength    \* bound: the characters the source has before its eof, or the user writes

ASSUME NbCallbacksAssumption ==
  /\ None \notin Tickets \cup Checkers
  /\ BufSize \in Nat \ {0}
  /\ StreamLength \in Nat

VARIABLES
  buf, rp,                       \* buf_ and rp_ (an offset in buf_)
  error_status,                  \* error_status_: is there an error?
  checker,                       \* checker_
  device_ticket, alarm_ticket,   \* readable_ticket_ or writable_ticket_; alarm_ticket_
  callback,                      \* callback_: is there one?
  watches, timers,               \* what is registered with the scheduler
  outcome                        \* what became of the last callback

tickets      == <<device_ticket, alarm_ticket>>
callbackVars == <<checker, tickets, callback, watches, timers, outcome>>

Characters == 0 .. StreamLength   \* those of the stream start at 1

CallbacksTypeOK ==
  /\ checker \in Checkers \cup {None}
  /\ {device_ticket, alarm_ticket} \subseteq Tickets \cup {None}
  /\ callback \in BOOLEAN
  /\ watches \subseteq Tickets
  /\ DOMAIN timers \subseteq Tickets
  /\ \A t \in DOMAIN timers :
       timers[t] \in [handler : {"on_already_ready", "on_next_tick"}, left : 0 .. TickLength]
  /\ outcome \in {"none", "called", "thrown"}

CallbacksInit ==
  /\ checker = None
  /\ device_ticket = None /\ alarm_ticket = None
  /\ callback = FALSE
  /\ watches = {} /\ timers = <<>>
  /\ outcome = "none"

-----------------------------------------------------------------------------
(***************************************************************************)
(* The scheduler's timers, with and without one of them.                   *)
(***************************************************************************)
Without(ts, t) == [u \in DOMAIN ts \ {t} |-> ts[u]]
With(ts, t, h, left) ==
  [u \in DOMAIN ts \cup {t} |-> IF u = t THEN [handler |-> h, left |-> Max({left, 0})] ELSE ts[u]]

OtherTimers  == Without(timers, alarm_ticket)
OtherWatches == watches \ {device_ticket}

\* scheduler.call_alarm() for the checker's next tick, the others being ts.
CallTick(ts, c) ==
  \E t \in Tickets \ DOMAIN ts :
    /\ alarm_ticket' = t
    /\ timers' = With(ts, t, "on_next_tick", c.left)

\* source_->call_when_readable() or sink_->call_when_writable(), the other watches being ws.
Watch(ws) ==
  \E t \in Tickets \ ws :
    /\ device_ticket' = t
    /\ watches' = ws \cup {t}

(***************************************************************************)
(* The callback's end: what is left with the scheduler is ws and ts.       *)
(***************************************************************************)
Forget(ws, ts, why) ==
  /\ device_ticket' = None /\ alarm_ticket' = None
  /\ watches' = ws
  /\ timers' = ts
  /\ callback' = FALSE
  /\ outcome' = why

-----------------------------------------------------------------------------
(***************************************************************************)
(* What the user calls; ready tells if the buffer is readable or writable. *)
(***************************************************************************)
Cancel == Forget(OtherWatches, OtherTimers, "none") /\ UNCHANGED checker

CallWhen(ready) ==
  /\ IF ready
       THEN \E t \in Tickets \ DOMAIN OtherTimers :
              /\ alarm_ticket' = t
              /\ timers' = With(OtherTimers, t, "on_already_ready", 0)
              /\ device_ticket' = None /\ watches' = OtherWatches
       ELSE /\ Watch(OtherWatches)
            /\ IF checker # None
                 THEN CallTick(OtherTimers, checker)
                 ELSE alarm_ticket' = None /\ timers' = OtherTimers
  /\ callback' = TRUE /\ outcome' = "none"
  /\ UNCHANGED checker

(***************************************************************************)
(* The scheduler throws: the earlier callback is gone by then, and what    *)
(* was registered for the new one is undone.                               *)
(***************************************************************************)
CallWhenThrows == Forget(OtherWatches, OtherTimers, "thrown") /\ UNCHANGED checker

DisableThroughputChecking ==
  /\ checker' = None
  /\ IF device_ticket # None /\ alarm_ticket # None
       THEN timers' = OtherTimers /\ alarm_ticket' = None
       ELSE UNCHANGED <<timers, alarm_ticket>>
  /\ UNCHANGED <<device_ticket, callback, watches, outcome>>

EnableThroughputChecking ==
  /\ checker' = NewChecker
  /\ IF device_ticket # None
       THEN CallTick(OtherTimers, NewChecker)
       ELSE UNCHANGED <<timers, alarm_ticket>>
  /\ UNCHANGED <<device_ticket, callback, watches, outcome>>

-----------------------------------------------------------------------------
(***************************************************************************)
(* What the scheduler calls.                                               *)
(***************************************************************************)
Due(t, handler) == t \in DOMAIN timers /\ timers[t] = [handler |-> handler, left |-> 0]

OnAlreadyReady(t) ==
  /\ Due(t, "on_already_ready")
  /\ Forget(watches, Without(timers, t), "called")
  /\ UNCHANGED checker

Recorded(n) == IF checker = None THEN None ELSE RecordTransfer(checker, n)
Failed(c)   == c # None /\ TooSlow(c)

\* The device was ready, and there is nothing to wait for any more.
DoneWith(t) == Forget(watches \ {t}, OtherTimers, "called")

\* Mutant of WatchAgain: the device is not watched again.
WatchNoMore(t) ==
  /\ device_ticket' = None
  /\ watches' = watches \ {t}
  /\ UNCHANGED <<alarm_ticket, callback, timers, outcome>>

\* There is more to wait for: the device is watched again, or the scheduler throws.
WatchAgain(t) ==
  \/ Watch(watches \ {t}) /\ UNCHANGED <<alarm_ticket, callback, timers, outcome>>
  \/ Forget(watches \ {t}, OtherTimers, "thrown")

\* A tick finds the peer too slow, or there is another tick, or the scheduler throws.
TickFails(t) == Forget(OtherWatches, Without(timers, t), "called")

NextTick(t) ==
  \/ /\ CallTick(Without(timers, t), checker')
     /\ UNCHANGED <<device_ticket, callback, watches, outcome>>
  \/ Forget(OtherWatches, Without(timers, t), "thrown")

\* Time passes: a timer that is due may be called late.
Tick ==
  /\ checker' = IF checker = None THEN None ELSE TimePasses(checker)
  /\ timers' = [t \in DOMAIN timers |-> [timers[t] EXCEPT !.left = Max({@ - 1, 0})]]
  /\ UNCHANGED <<tickets, callback, watches, outcome>>

-----------------------------------------------------------------------------
(***************************************************************************)
(* What is registered with the scheduler is what the buffer remembers the  *)
(* tickets of: nothing is leaked, and no ticket is stale.                  *)
(***************************************************************************)
TicketsAreKnown ==
  /\ watches = {device_ticket} \ {None}
  /\ DOMAIN timers = {alarm_ticket} \ {None}

(***************************************************************************)
(* Whatever is registered with the scheduler, a call from it finds what    *)
(* the handler asserts: the ticket is the one the buffer remembers, there  *)
(* is a callback, and a buffer that watches its device is not ready and    *)
(* has no error.  So nothing that was cancelled or replaced is ever called.*)
(***************************************************************************)
AssertsHold(ready, error) ==
  /\ \A t \in watches : t = device_ticket /\ callback /\ ~ready /\ ~error
  /\ \A t \in DOMAIN timers :
       /\ t = alarm_ticket /\ callback
       /\ timers[t].handler = "on_already_ready" => device_ticket = None
       /\ timers[t].handler = "on_next_tick" =>
            ~ready /\ ~error /\ checker # None /\ device_ticket # None

(***************************************************************************)
(* A callback that is pending has not been called yet, and there is        *)
(* something that will call it: an alarm if the buffer is ready already,   *)
(* and otherwise the device, with the next tick of the checker if there is *)
(* one.                                                                    *)
(***************************************************************************)
CallbackIsScheduled(ready) ==
  callback =>
    /\ outcome = "none"
    /\ IF ready
         THEN DOMAIN timers # {}
         ELSE watches # {} /\ (checker # None => DOMAIN timers # {})

=============================================================================
