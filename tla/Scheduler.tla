----------------------------- MODULE Scheduler ------------------------------
(***************************************************************************)
(* default_scheduler_t (cuti/cuti/default_scheduler.cpp): the alarms, a    *)
(* priority queue (see PriorityQueue), and a selector (see Selector) make  *)
(* one source of callbacks, wait().                                        *)
(*                                                                         *)
(* One thread uses a scheduler at a time.  It calls wait(), runs the       *)
(* callback it gets, which may schedule and cancel others, and so on.      *)
(* While wait() is in progress only time and the network move.             *)
(***************************************************************************)
EXTENDS Naturals, FiniteSets

CONSTANTS
  Events,        \* what can be waited for: a file descriptor and a direction
  Tickets,       \* bound: the tickets of alarms, and those of the selector
  MaxTime,       \* bound: the last point in time
  Nothing        \* nothing

ASSUME SchedulerAssumption ==
  /\ MaxTime \in Nat
  /\ Nothing \notin Events \cup Tickets

VARIABLES
  now,
  alarms,                    \* alarms_: the time of each ticket
  poll_first,                \* poll_first_
  loop,                      \* "idle" (not in wait()), "timed" or "untimed" (its loops)
  alarm_id,                  \* wait()'s alarm_id: the front element
  returned,                  \* what wait() returned last: "alarm", "io", "nothing"
  callbacks, detected, ready, result        \* the selector

ioVars        == <<callbacks, detected, ready, result>>
schedulerVars == <<now, alarms, poll_first, loop, alarm_id, returned, ioVars>>

Io == INSTANCE Selector WITH None <- Nothing

Times   == 0 .. MaxTime
HasWork == DOMAIN callbacks # {}

SchedulerTypeOK ==
  /\ now \in Times
  /\ DOMAIN alarms \subseteq Tickets /\ alarms \in [DOMAIN alarms -> Times]
  /\ poll_first \in BOOLEAN
  /\ loop \in {"idle", "timed", "untimed"}
  /\ alarm_id \in (IF loop = "timed" THEN DOMAIN alarms ELSE {Nothing})
  /\ returned \in {"alarm", "io", "nothing"}
  /\ DOMAIN callbacks \subseteq Tickets /\ callbacks \in [DOMAIN callbacks -> Events]
  /\ detected \subseteq DOMAIN callbacks
  /\ ready \subseteq Events
  /\ result \in Events \cup {Nothing}

SchedulerInit ==
  /\ now = 0
  /\ alarms = <<>>
  /\ poll_first = FALSE
  /\ loop = "idle"
  /\ alarm_id = Nothing
  /\ returned = "nothing"
  /\ Io!Init

-----------------------------------------------------------------------------
(***************************************************************************)
(* What a callback may do.                                                 *)
(***************************************************************************)
CallAlarm(t, when) ==
  /\ loop = "idle"
  /\ t \notin DOMAIN alarms
  /\ alarms' = [u \in DOMAIN alarms \cup {t} |-> IF u = t THEN when ELSE alarms[u]]
  /\ UNCHANGED <<now, poll_first, loop, alarm_id, returned, ioVars>>

\* Mutant of CancelAlarm: it is called by another thread.
CancelAlarmUnconfined(t) ==
  /\ alarms' = [u \in DOMAIN alarms \ {t} |-> alarms[u]]
  /\ UNCHANGED <<now, poll_first, loop, alarm_id, returned, ioVars>>

CancelAlarm(t) ==
  /\ loop = "idle"
  /\ alarms' = [u \in DOMAIN alarms \ {t} |-> alarms[u]]
  /\ UNCHANGED <<now, poll_first, loop, alarm_id, returned, ioVars>>

CallWhen(e, t) ==
  /\ loop = "idle"
  /\ Io!CallWhen(e, t)
  /\ UNCHANGED <<now, alarms, poll_first, loop, alarm_id, returned>>

CancelWhen(t) ==
  /\ loop = "idle"
  /\ Io!Cancel(t)
  /\ UNCHANGED <<now, alarms, poll_first, loop, alarm_id, returned>>

-----------------------------------------------------------------------------
(***************************************************************************)
(* wait().                                                                 *)
(***************************************************************************)
\* Mutant of IsFirst: a max heap.
IsLast(t) == \A u \in DOMAIN alarms : alarms[t] >= alarms[u]

IsFirst(t) == \A u \in DOMAIN alarms : alarms[t] <= alarms[u]

Wait ==
  /\ loop = "idle"
  /\ \/ \E t \in DOMAIN alarms :
          /\ IsFirst(t)
          /\ alarm_id' = t
          /\ loop' = "timed"
          /\ UNCHANGED returned
     \/ /\ DOMAIN alarms = {} /\ HasWork
        /\ loop' = "untimed"
        /\ UNCHANGED <<alarm_id, returned>>
     \/ /\ DOMAIN alarms = {} /\ ~HasWork
        /\ returned' = "nothing"
        /\ UNCHANGED <<loop, alarm_id>>
  /\ UNCHANGED <<now, alarms, poll_first, ioVars>>

\* wait() returns the selector's callback, if there is one.
ReturnIfSelected ==
  IF result' = Nothing
    THEN UNCHANGED <<loop, alarm_id, returned>>
    ELSE /\ loop' = "idle"
         /\ alarm_id' = Nothing
         /\ returned' = "io"

Expired == loop = "timed" /\ alarms[alarm_id] <= now

\* Mutant of PollForIo: the next callback may be the selector's again.
PollForIoAlways ==
  /\ Expired
  /\ poll_first /\ HasWork
  /\ Io!Select
  /\ ReturnIfSelected
  /\ UNCHANGED <<now, alarms, poll_first>>

PollForIo ==
  /\ Expired
  /\ poll_first /\ HasWork
  /\ poll_first' = FALSE
  /\ Io!Select
  /\ ReturnIfSelected
  /\ UNCHANGED <<now, alarms>>

\* Mutant of SelectAlarm: the next callback may be an alarm's again.
SelectAlarmAlways ==
  /\ Expired
  /\ ~(poll_first /\ HasWork)
  /\ alarms' = [u \in DOMAIN alarms \ {alarm_id} |-> alarms[u]]
  /\ alarm_id' = Nothing
  /\ returned' = "alarm"
  /\ loop' = "idle"
  /\ UNCHANGED <<now, poll_first, ioVars>>

SelectAlarm ==
  /\ Expired
  /\ ~(poll_first /\ HasWork)
  /\ poll_first' = TRUE
  /\ alarms' = [u \in DOMAIN alarms \ {alarm_id} |-> alarms[u]]
  /\ alarm_id' = Nothing
  /\ returned' = "alarm"
  /\ loop' = "idle"
  /\ UNCHANGED <<now, ioVars>>

WaitForIo ==
  /\ \/ loop = "timed" /\ alarms[alarm_id] > now /\ HasWork
     \/ loop = "untimed"
  /\ Io!Select
  /\ ReturnIfSelected
  /\ UNCHANGED <<now, alarms, poll_first>>

Sleep ==
  /\ loop = "timed" /\ alarms[alarm_id] > now /\ ~HasWork
  /\ now' = alarms[alarm_id]
  /\ UNCHANGED <<alarms, poll_first, loop, alarm_id, returned, ioVars>>

-----------------------------------------------------------------------------
Tick ==
  /\ now < MaxTime
  /\ now' = now + 1
  /\ UNCHANGED <<alarms, poll_first, loop, alarm_id, returned, ioVars>>

BecomesReady(e) ==
  /\ Io!BecomesReady(e)
  /\ UNCHANGED <<now, alarms, poll_first, loop, alarm_id, returned>>

IsOver(e) ==
  /\ Io!IsOver(e)
  /\ UNCHANGED <<now, alarms, poll_first, loop, alarm_id, returned>>

InWait == PollForIo \/ SelectAlarm \/ WaitForIo \/ Sleep

SchedulerNext ==
  \/ \E t \in Tickets, when \in Times : CallAlarm(t, when)
  \/ \E t \in DOMAIN alarms : CancelAlarm(t)
  \/ \E e \in Events, t \in Tickets : CallWhen(e, t)
  \/ \E t \in DOMAIN callbacks : CancelWhen(t)
  \/ Wait \/ InWait
  \/ Tick
  \/ \E e \in Events : BecomesReady(e) \/ IsOver(e)

(***************************************************************************)
(* An event loop calls wait() again and again, time passes, and the        *)
(* selector detects what is ready (see EpollSelector and PollSelector).    *)
(***************************************************************************)
DetectsAny == (PollForIo \/ WaitForIo) /\ result' # Nothing

SchedulerFairness ==
  /\ WF_schedulerVars(Wait) /\ WF_schedulerVars(InWait) /\ WF_schedulerVars(Tick)
  /\ SF_schedulerVars(DetectsAny)

SchedulerSpec     == SchedulerInit /\ [][SchedulerNext]_schedulerVars
SchedulerFairSpec == SchedulerSpec /\ SchedulerFairness

-----------------------------------------------------------------------------
(***************************************************************************)
(* The state is well typed, and the alarm that wait() keeps the id of, from *)
(* one poll to the next, is there all the time and stays the first.        *)
(***************************************************************************)
WaitsForTheFirst == loop = "timed" => IsFirst(alarm_id)

SchedulerInv == SchedulerTypeOK /\ WaitsForTheFirst

(***************************************************************************)
(* An alarm goes off at its time or later, and alarms that are due go off  *)
(* in the order of their times.                                            *)
(***************************************************************************)
AlarmsInOrder ==
  [][\A t \in DOMAIN alarms :
       (loop = "timed" /\ loop' = "idle" /\ t \notin DOMAIN alarms')
         => alarms[t] <= now /\ \A u \in DOMAIN alarms : alarms[t] <= alarms[u]]_schedulerVars

(***************************************************************************)
(* A stream of network events that never dries up does not keep alarms     *)
(* from going off.                                                         *)
(***************************************************************************)
AlarmsGoOff ==
  (\E t \in DOMAIN alarms : alarms[t] <= now)
    ~> (returned = "alarm" \/ \A t \in DOMAIN alarms : alarms[t] > now)

(***************************************************************************)
(* A stream of alarms that are due does not keep network events from being *)
(* handled.                                                                *)
(***************************************************************************)
IoIsHandled ==
  (\E t \in DOMAIN callbacks : callbacks[t] \in ready)
    ~> (returned = "io" \/ \A t \in DOMAIN callbacks : callbacks[t] \notin ready)

=============================================================================
