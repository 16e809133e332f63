---------------------------- MODULE PriorityLock ----------------------------
(***************************************************************************)
(* What the dispatcher expects of its core mutex: one holder at a time,    *)
(* and threads that come back with a request they have handled go before   *)
(* the threads that merely want to wait for the next one.                  *)
(*                                                                         *)
(* An urgent thread that finds the lock held registers itself first; while *)
(* anybody is registered, no normal thread gets the lock.  CoreMutex shows *)
(* that core_mutex_t implements this specification, and Dispatcher uses it *)
(* in the place of core_mutex_t.                                           *)
(***************************************************************************)
CONSTANTS Threads, \* the threads that compete for the lock
          None     \* "no thread", not a member of Threads

VARIABLES holder,  \* the thread that holds the lock, or None
          urgent,  \* the threads that have a handled request to hand back
          waiters  \* those of them that are registered (n_urgent_waiters_)

vars == <<holder, urgent, waiters>>

Init ==
  /\ holder = None
  /\ urgent = {}
  /\ waiters = {}

(***************************************************************************)
(* urgent_lock() on a locked mutex, up to its wait.                        *)
(***************************************************************************)
Register(t) ==
  /\ t \in urgent \ waiters
  /\ holder # None
  /\ waiters' = waiters \cup {t}
  /\ UNCHANGED <<holder, urgent>>

(***************************************************************************)
(* The end of urgent_lock(), registered or not.                            *)
(***************************************************************************)
UrgentLock(t) ==
  /\ t \in urgent
  /\ holder = None
  /\ holder' = t
  /\ waiters' = waiters \ {t}
  /\ UNCHANGED urgent

(***************************************************************************)
(* The end of normal_lock().                                               *)
(***************************************************************************)
NormalLock(t) ==
  /\ t \notin urgent
  /\ holder = None
  /\ waiters = {}
  /\ holder' = t
  /\ UNCHANGED <<urgent, waiters>>

(***************************************************************************)
(* Only the holder hands back a request, and only the holder gets one.     *)
(***************************************************************************)
Work(t) ==
  /\ holder = t
  /\ \/ urgent' = urgent \cup {t}
     \/ urgent' = urgent \ {t}
  /\ UNCHANGED <<holder, waiters>>

Unlock(t) ==
  /\ holder = t
  /\ holder' = None
  /\ UNCHANGED <<urgent, waiters>>

Next == \E t \in Threads :
          \/ Register(t) \/ UrgentLock(t) \/ NormalLock(t)
          \/ Work(t) \/ Unlock(t)

Spec == Init /\ [][Next]_vars

=============================================================================
