----------------------------- MODULE CoreMutex -----------------------------
(***************************************************************************)
(* core_mutex_t and the wakeup flag of the dispatcher's core               *)
(* (cuti/cuti/dispatcher.cpp), step by step.                               *)
(*                                                                         *)
(* The holder of the core mutex sits in select_client(), waiting for       *)
(* network events.  A thread that is done with a request must push it      *)
(* aside, so it registers as an urgent waiter and raises a wakeup flag: an *)
(* atomic counter, and an event pipe that holds a byte when the counter is *)
(* not zero.  The thread in run() raises the same flag, without the        *)
(* internal mutex, when the dispatcher is stopped.                         *)
(*                                                                         *)
(* Everything between two accesses to state that is shared without the     *)
(* internal mutex (the counter, the pipe, the condition variables' wait    *)
(* sets) is one action.  A condition variable is the set of threads that   *)
(* sleep on it; a thread may also wake up without being notified.          *)
(***************************************************************************)
EXTENDS Naturals, FiniteSets

CONSTANTS Threads, \* the pooled threads
          None     \* "no thread"

ASSUME ThreadsAssumption == IsFiniteSet(Threads) /\ None \notin Threads

VARIABLES
  pc,               \* where each thread is
  main,             \* where the thread in run() is
  task,             \* what serve() does outside the lock: nothing, a client, exit
  internal,         \* the thread that owns internal_mutex_, or None
  locked,           \* locked_
  n_urgent_waiters, \* n_urgent_waiters_
  urgent_cv,        \* asleep on unlocked_with_urgent_waiters_
  normal_cv,        \* asleep on unlocked_without_urgent_waiters_
  counter,          \* the wakeup flag's counter_
  pipe              \* the number of bytes in the wakeup flag's event pipe

mutexVars == <<internal, locked, n_urgent_waiters>>
cvVars    == <<urgent_cv, normal_cv>>
flagVars  == <<counter, pipe>>
vars      == <<pc, main, task, mutexVars, cvVars, flagVars>>

(***************************************************************************)
(* outside: not using the mutex.  raise, write: registered, in raise().    *)
(* urgent_wait, normal_wait: in a wait().  lower, read: in lower().        *)
(* holding: has the core mutex.  selecting: in select_client().  unlock:   *)
(* done with the mutex.  notify_urgent, notify_normal: unlocked, about to  *)
(* notify.  exited: left serve().                                          *)
(***************************************************************************)
Labels == {"outside", "raise", "write", "urgent_wait", "lower", "read",
           "normal_wait", "holding", "selecting", "unlock",
           "notify_urgent", "notify_normal", "exited"}

TypeOK ==
  /\ pc \in [Threads -> Labels]
  /\ main \in {"outside", "raise", "write", "raised"}
  /\ task \in [Threads -> {"none", "client", "exit"}]
  /\ internal \in Threads \cup {None}
  /\ locked \in BOOLEAN
  /\ n_urgent_waiters \in Nat
  /\ urgent_cv \subseteq Threads
  /\ normal_cv \subseteq Threads
  /\ counter \in Nat
  /\ pipe \in Nat

Init ==
  /\ pc = [t \in Threads |-> "outside"]
  /\ main = "outside"
  /\ task = [t \in Threads |-> "none"]
  /\ internal = None
  /\ locked = FALSE
  /\ n_urgent_waiters = 0
  /\ urgent_cv = {}
  /\ normal_cv = {}
  /\ counter = 0
  /\ pipe = 0

Goto(t, label) == pc' = [pc EXCEPT ![t] = label]

-----------------------------------------------------------------------------
(***************************************************************************)
(* urgent_lock(), for a thread that has a client to hand back.             *)
(***************************************************************************)
UrgentEnter(t) ==
  /\ pc[t] = "outside" /\ task[t] = "client"
  /\ internal = None
  /\ \/ /\ locked
        /\ n_urgent_waiters' = n_urgent_waiters + 1
        /\ internal' = t
        /\ Goto(t, "raise")
        /\ UNCHANGED locked
     \/ /\ ~locked
        /\ locked' = TRUE
        /\ Goto(t, "holding")
        /\ UNCHANGED <<internal, n_urgent_waiters>>
  /\ UNCHANGED <<main, task, cvVars, flagVars>>

\* wait(internal_lock): release the internal mutex and sleep.
UrgentSleep(t) ==
  /\ Goto(t, "urgent_wait")
  /\ urgent_cv' = urgent_cv \cup {t}
  /\ internal' = None

\* Mutant: every raise() writes to the pipe.
RaiseAlwaysWrites(t) ==
  /\ pc[t] = "raise"
  /\ counter' = counter + 1
  /\ Goto(t, "write")
  /\ UNCHANGED <<main, task, mutexVars, cvVars, pipe>>

\* raise(): only the thread that moves the counter from 0 writes to the pipe.
Raise(t) ==
  /\ pc[t] = "raise"
  /\ counter' = counter + 1
  /\ IF counter = 0
       THEN Goto(t, "write") /\ UNCHANGED <<urgent_cv, internal>>
       ELSE UrgentSleep(t)
  /\ UNCHANGED <<main, task, locked, n_urgent_waiters, normal_cv, pipe>>

Write(t) ==
  /\ pc[t] = "write"
  /\ pipe' = pipe + 1
  /\ UrgentSleep(t)
  /\ UNCHANGED <<main, task, locked, n_urgent_waiters, normal_cv, counter>>

\* Mutant: "if" where the code has "do ... while(locked_)".
UrgentWakeOnce(t) ==
  /\ pc[t] = "urgent_wait" /\ t \notin urgent_cv
  /\ internal = None
  /\ Goto(t, "lower") /\ internal' = t
  /\ UNCHANGED <<main, task, locked, n_urgent_waiters, cvVars, flagVars>>

\* wait() returns once the internal mutex is available.
UrgentWake(t) ==
  /\ pc[t] = "urgent_wait" /\ t \notin urgent_cv
  /\ internal = None
  /\ IF locked
       THEN urgent_cv' = urgent_cv \cup {t} /\ UNCHANGED <<pc, internal>>
       ELSE Goto(t, "lower") /\ internal' = t /\ UNCHANGED urgent_cv
  /\ UNCHANGED <<main, task, locked, n_urgent_waiters, normal_cv, flagVars>>

\* The rest of urgent_lock() after lower().
UrgentTake(t) ==
  /\ n_urgent_waiters' = n_urgent_waiters - 1
  /\ locked' = TRUE
  /\ internal' = None
  /\ Goto(t, "holding")

\* lower(): the thread that moves the counter to 0 reads from the pipe.
Lower(t) ==
  /\ pc[t] = "lower"
  /\ counter > 0
  /\ counter' = counter - 1
  /\ IF counter = 1
       THEN Goto(t, "read") /\ UNCHANGED mutexVars
       ELSE UrgentTake(t)
  /\ UNCHANGED <<main, task, cvVars, pipe>>

Read(t) ==
  /\ pc[t] = "read"
  /\ pipe > 0
  /\ pipe' = pipe - 1
  /\ UrgentTake(t)
  /\ UNCHANGED <<main, task, cvVars, counter>>

-----------------------------------------------------------------------------
(***************************************************************************)
(* normal_lock(), entered or resumed after a wait().                       *)
(***************************************************************************)
\* Mutant: n_urgent_waiters_ is not looked at.
BargingNormalLock(t) ==
  /\ \/ pc[t] = "outside" /\ task[t] = "none"
     \/ pc[t] = "normal_wait" /\ t \notin normal_cv
  /\ internal = None
  /\ IF locked
       THEN /\ normal_cv' = normal_cv \cup {t}
            /\ Goto(t, "normal_wait")
            /\ UNCHANGED locked
       ELSE /\ locked' = TRUE
            /\ Goto(t, "holding")
            /\ UNCHANGED normal_cv
  /\ UNCHANGED <<main, task, internal, n_urgent_waiters, urgent_cv, flagVars>>

NormalLock(t) ==
  /\ \/ pc[t] = "outside" /\ task[t] = "none"
     \/ pc[t] = "normal_wait" /\ t \notin normal_cv
  /\ internal = None
  /\ IF locked \/ n_urgent_waiters # 0
       THEN /\ normal_cv' = normal_cv \cup {t}
            /\ Goto(t, "normal_wait")
            /\ UNCHANGED locked
       ELSE /\ locked' = TRUE
            /\ Goto(t, "holding")
            /\ UNCHANGED normal_cv
  /\ UNCHANGED <<main, task, internal, n_urgent_waiters, urgent_cv, flagVars>>

-----------------------------------------------------------------------------
(***************************************************************************)
(* The holder leaves serve() if the dispatcher is stopping.  Otherwise it  *)
(* waits in select_client() until a client has sent a request, or until it *)
(* gets the pipe's readable event and finds the flag up.                   *)
(***************************************************************************)
CheckStopping(t) ==
  /\ pc[t] = "holding"
  /\ \/ /\ main = "outside"
        /\ Goto(t, "selecting")
        /\ task' = [task EXCEPT ![t] = "none"]
     \/ /\ main # "outside"
        /\ Goto(t, "unlock")
        /\ task' = [task EXCEPT ![t] = "exit"]
  /\ UNCHANGED <<main, mutexVars, cvVars, flagVars>>

SelectClient(t) ==
  /\ pc[t] = "selecting"
  /\ task' = [task EXCEPT ![t] = "client"]
  /\ Goto(t, "unlock")
  /\ UNCHANGED <<main, mutexVars, cvVars, flagVars>>

\* Mutant: the holder only gives way when the dispatcher stops.
PushedAsideToStop(t) ==
  /\ pc[t] = "selecting"
  /\ pipe > 0 /\ counter > 0 /\ main = "raised"
  /\ Goto(t, "unlock")
  /\ UNCHANGED <<main, task, mutexVars, cvVars, flagVars>>

PushedAside(t) ==
  /\ pc[t] = "selecting"
  /\ pipe > 0 /\ counter > 0
  /\ Goto(t, "unlock")
  /\ UNCHANGED <<main, task, mutexVars, cvVars, flagVars>>

(***************************************************************************)
(* unlock(): which condition variable to notify is decided under the       *)
(* internal mutex; the notification comes after it is released.            *)
(***************************************************************************)
\* Mutant: the urgent waiters' condition variable is forgotten.
UnlockForNormal(t) ==
  /\ pc[t] = "unlock"
  /\ internal = None
  /\ locked' = FALSE
  /\ Goto(t, "notify_normal")
  /\ UNCHANGED <<main, task, internal, n_urgent_waiters, cvVars, flagVars>>

Unlock(t) ==
  /\ pc[t] = "unlock"
  /\ internal = None
  /\ locked' = FALSE
  /\ Goto(t, IF n_urgent_waiters # 0 THEN "notify_urgent" ELSE "notify_normal")
  /\ UNCHANGED <<main, task, internal, n_urgent_waiters, cvVars, flagVars>>

\* notify_one() on the condition variable whose sleepers are cv.
NotifyOne(cv, cvNext) ==
  IF cv = {} THEN cvNext = cv ELSE \E u \in cv : cvNext = cv \ {u}

AfterUnlock(t) == IF task[t] = "exit" THEN "exited" ELSE "outside"

NotifyUrgent(t) ==
  /\ pc[t] = "notify_urgent"
  /\ NotifyOne(urgent_cv, urgent_cv')
  /\ Goto(t, AfterUnlock(t))
  /\ UNCHANGED <<main, task, mutexVars, normal_cv, flagVars>>

\* Mutant: a thread that leaves serve() notifies nobody.
NotifyUnlessExiting(t) ==
  /\ pc[t] = "notify_normal"
  /\ IF task[t] = "exit" THEN UNCHANGED normal_cv ELSE NotifyOne(normal_cv, normal_cv')
  /\ Goto(t, AfterUnlock(t))
  /\ UNCHANGED <<main, task, mutexVars, urgent_cv, flagVars>>

NotifyNormal(t) ==
  /\ pc[t] = "notify_normal"
  /\ NotifyOne(normal_cv, normal_cv')
  /\ Goto(t, AfterUnlock(t))
  /\ UNCHANGED <<main, task, mutexVars, urgent_cv, flagVars>>

\* A condition variable may wake a thread that nobody notified.
SpuriousWake(t) ==
  /\ t \in urgent_cv \cup normal_cv
  /\ urgent_cv' = urgent_cv \ {t}
  /\ normal_cv' = normal_cv \ {t}
  /\ UNCHANGED <<pc, main, task, mutexVars, flagVars>>

-----------------------------------------------------------------------------
(***************************************************************************)
(* The thread in run(): it stops the dispatcher, raises the flag, and      *)
(* lowers it when every pooled thread has been joined.  (A thread that is  *)
(* outside without a client need not have been started.)  No other thread  *)
(* is there to see the steps of that lower().  The next run() starts new   *)
(* threads.                                                                *)
(***************************************************************************)
MainStop ==
  /\ main = "outside"
  /\ main' = "raise"
  /\ UNCHANGED <<pc, task, mutexVars, cvVars, flagVars>>

MainRaise ==
  /\ main = "raise"
  /\ counter' = counter + 1
  /\ main' = IF counter = 0 THEN "write" ELSE "raised"
  /\ UNCHANGED <<pc, task, mutexVars, cvVars, pipe>>

MainWrite ==
  /\ main = "write"
  /\ pipe' = pipe + 1
  /\ main' = "raised"
  /\ UNCHANGED <<pc, task, mutexVars, cvVars, counter>>

Joined(t) == pc[t] = "exited" \/ (pc[t] = "outside" /\ task[t] = "none")

MainLower ==
  /\ main = "raised"
  /\ \A t \in Threads : Joined(t)
  /\ counter > 0 /\ (counter = 1 => pipe > 0)
  /\ counter' = counter - 1
  /\ pipe' = IF counter = 1 THEN pipe - 1 ELSE pipe
  /\ main' = "outside"
  /\ pc' = [t \in Threads |-> "outside"]
  /\ task' = [t \in Threads |-> "none"]
  /\ UNCHANGED <<mutexVars, cvVars>>

-----------------------------------------------------------------------------
\* What a thread does without waiting for the network or a request handler.
Progress(t) ==
  \/ Raise(t) \/ Write(t) \/ UrgentWake(t) \/ Lower(t) \/ Read(t)
  \/ (pc[t] = "normal_wait" /\ NormalLock(t))
  \/ CheckStopping(t) \/ PushedAside(t) \/ Unlock(t) \/ NotifyUrgent(t) \/ NotifyNormal(t)

ThreadNext(t) ==
  \/ UrgentEnter(t) \/ Raise(t) \/ Write(t)
  \/ UrgentWake(t) \/ Lower(t) \/ Read(t)
  \/ NormalLock(t)
  \/ CheckStopping(t) \/ SelectClient(t) \/ PushedAside(t)
  \/ Unlock(t) \/ NotifyUrgent(t) \/ NotifyNormal(t)
  \/ SpuriousWake(t)

Next ==
  \/ \E t \in Threads : ThreadNext(t)
  \/ MainStop \/ MainRaise \/ MainWrite \/ MainLower

Spec == Init /\ [][Next]_vars

(***************************************************************************)
(* A runnable thread runs, and the internal mutex, which is never held     *)
(* while waiting for the network or a request, is granted in the end.  The *)
(* selector delivers the readable event of the pipe.  A request handler    *)
(* may run forever, except that join() interrupts it; a thread that has    *)
(* nothing to wait for yet need not start, and no client need ever send.   *)
(***************************************************************************)
Fairness ==
  /\ \A t \in Threads : WF_vars(Progress(t))
  /\ \A t \in Threads : WF_vars(main # "outside" /\ UrgentEnter(t))
  /\ WF_vars(MainRaise) /\ WF_vars(MainWrite) /\ WF_vars(MainLower)

FairSpec == Spec /\ Fairness

-----------------------------------------------------------------------------
Holding(t)    == pc[t] \in {"holding", "selecting", "unlock"}
Registered(t) == pc[t] \in {"raise", "write", "urgent_wait", "lower", "read"}

\* Threads whose raise() has counted and whose lower() has not.
Raised(t)     == pc[t] \in {"write", "urgent_wait", "lower"}
MainRaised    == main \in {"write", "raised"}

Waiters == {t \in Threads : Registered(t)}
Raisers == {t \in Threads : Raised(t)}

(***************************************************************************)
(* At most one thread is between core_lock_t's constructor and destructor, *)
(* whatever the order in which urgent and normal threads arrive, sleep and *)
(* are woken, so core_dispatcher_t's state needs no other protection.      *)
(***************************************************************************)
MutualExclusion ==
  /\ \A t, u \in Threads : Holding(t) /\ Holding(u) => t = u
  /\ locked <=> \E t \in Threads : Holding(t)

(***************************************************************************)
(* The assert(was_up) of urgent_lock() holds, with the flag raised and     *)
(* lowered by several threads at once: the counter is the number of urgent *)
(* threads that raised it, plus one while the dispatcher is stopping.      *)
(***************************************************************************)
FlagCountsRaisers ==
  counter = Cardinality(Raisers) + (IF MainRaised THEN 1 ELSE 0)

(***************************************************************************)
(* lower() reads from the pipe with the internal mutex held, which would   *)
(* stop every thread if the byte were not there.  A raised flag, once its  *)
(* raise() has returned, can be seen by the selector; a lowered one leaves *)
(* no byte that would make the selector spin.                              *)
(***************************************************************************)
PipeFollowsFlag ==
  /\ \A t \in Threads : pc[t] = "read" => pipe > 0
  /\ (main # "write" /\ \A t \in Threads : pc[t] \notin {"write", "read"})
       => pipe = IF counter > 0 THEN 1 ELSE 0

(***************************************************************************)
(* The inductive invariant behind these: who owns the internal mutex, that *)
(* nobody lowers the flag while the core mutex is held, what is counted by *)
(* n_urgent_waiters_, and the pipe's bytes while some thread is between    *)
(* the counter and the pipe.                                               *)
(***************************************************************************)
InternalOwner ==
  \A t \in Threads : internal = t <=> pc[t] \in {"raise", "write", "lower", "read"}

LowerWhileFree ==
  \A t \in Threads : pc[t] \in {"lower", "read"} => ~locked

\* Who comes with a client to hand back, and who does not.
TasksFit ==
  \A t \in Threads :
    /\ Registered(t) => task[t] = "client"
    /\ pc[t] = "normal_wait" => task[t] = "none"
    /\ pc[t] = "exited" => task[t] = "exit"

CountsWaiters == n_urgent_waiters = Cardinality(Waiters)

Writing == main = "write" \/ \E t \in Threads : pc[t] = "write"
Reading == \E t \in Threads : pc[t] = "read"
One(b)  == IF b THEN 1 ELSE 0

PipeBytes ==
  /\ ~(main = "write" /\ \E t \in Threads : pc[t] = "write")
  /\ pipe + One(Writing) = One(counter > 0) + One(Reading)

IInv ==
  /\ TypeOK
  /\ MutualExclusion
  /\ InternalOwner
  /\ LowerWhileFree
  /\ TasksFit
  /\ CountsWaiters
  /\ FlagCountsRaisers
  /\ PipeBytes

(***************************************************************************)
(* core_mutex_t is a priority lock.                                        *)
(***************************************************************************)
Holder ==
  IF \E t \in Threads : Holding(t) THEN CHOOSE t \in Threads : Holding(t) ELSE None

PL == INSTANCE PriorityLock
        WITH holder  <- Holder,
             urgent  <- {t \in Threads : task[t] = "client"},
             waiters <- Waiters

ImplementsPriorityLock == PL!Spec

(***************************************************************************)
(* The point of the wakeup flag: a thread that comes back with a request   *)
(* it has handled does not wait for network traffic.  The holder gives way *)
(* even if no client ever sends anything.                                  *)
(***************************************************************************)
HolderGivesWay == (locked /\ n_urgent_waiters > 0) ~> ~locked

(***************************************************************************)
(* No wakeup is lost between unlock()'s decision and its notification: a   *)
(* free lock that somebody sleeps on is taken.                             *)
(***************************************************************************)
FreeLockIsTaken == (~locked /\ urgent_cv \cup normal_cv # {}) ~> locked

(***************************************************************************)
(* stop() wakes everybody, one after the other, so run() returns.          *)
(***************************************************************************)
StopCompletes == main = "raise" ~> main = "outside"

=============================================================================
