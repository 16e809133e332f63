-------------------------- MODULE SequentialProofs --------------------------
(***************************************************************************)
(* Proofs about the mutex of cuti, core_mutex_t (CoreMutex), for any       *)
(* finite set of threads; and about what one thread uses at a time, under  *)
(* such a mutex: the client cache (ClientCache), for any number of         *)
(* threads, servers and connections, any size of the cache and any maximum *)
(* age; and the log (SequentialParts), for any number of files with room   *)
(* for two entries, any number of messages, processes and failures and any *)
(* point where a report or a rotation fails.  The log is one of the parts  *)
(* of SequentialParts; the two others are in StructureProofs.              *)
(***************************************************************************)
EXTENDS CoreMutex, ClientCache, StructureProofs

-----------------------------------------------------------------------------
(***************************************************************************)
(* The mutex.                                                              *)
(***************************************************************************)
LEMMA FiniteCounts ==
  /\ IsFiniteSet(Waiters) /\ Cardinality(Waiters) \in Nat
  /\ IsFiniteSet(Raisers) /\ Cardinality(Raisers) \in Nat
<1>1. Waiters \subseteq Threads /\ Raisers \subseteq Threads
  BY DEF Waiters, Raisers
<1>2. QED
  BY <1>1, ThreadsAssumption, FS_Subset, FS_CardinalityType

(***************************************************************************)
(* A thread that is counted makes the count positive; one that joins or    *)
(* leaves changes it by one.                                               *)
(***************************************************************************)
LEMMA CountJoins ==
  ASSUME NEW S, IsFiniteSet(S), NEW x, x \notin S
  PROVE  Cardinality(S \cup {x}) = Cardinality(S) + 1
BY FS_AddElement

LEMMA CountLeaves ==
  ASSUME NEW S, IsFiniteSet(S), NEW x \in S
  PROVE  /\ Cardinality(S \ {x}) = Cardinality(S) - 1
         /\ Cardinality(S) > 0
<1>1. Cardinality(S \ {x}) = Cardinality(S) - 1
  BY FS_RemoveElement
<1>2. Cardinality(S) \in Nat /\ Cardinality(S) # 0
  BY FS_EmptySet, FS_CardinalityType
<1>3. QED
  BY <1>1, <1>2

LEMMA InitIInv == Init => IInv
<1> SUFFICES ASSUME Init PROVE IInv
  OBVIOUS
<1>1. Waiters = {} /\ Raisers = {}
  BY DEF Init, Waiters, Raisers, Registered, Raised
<1>2. Cardinality(Waiters) = 0 /\ Cardinality(Raisers) = 0
  BY <1>1, FS_EmptySet
<1>3. TypeOK
  BY ThreadsAssumption DEF Init, TypeOK, Labels
<1>4. MutualExclusion /\ InternalOwner /\ LowerWhileFree /\ TasksFit
  BY ThreadsAssumption DEF Init, TasksFit, Registered, MutualExclusion, Holding, InternalOwner, LowerWhileFree
<1>5. CountsWaiters /\ FlagCountsRaisers
  BY <1>2 DEF Init, CountsWaiters, FlagCountsRaisers, MainRaised
<1>6. PipeBytes
  BY DEF Init, PipeBytes, Writing, Reading, One
<1>7. QED
  BY <1>3, <1>4, <1>5, <1>6 DEF IInv

(***************************************************************************)
(* The conjuncts that do not count.                                        *)
(***************************************************************************)
ControlInv == MutualExclusion /\ InternalOwner /\ LowerWhileFree /\ TasksFit

LEMMA NextControl ==
  ASSUME IInv, NEW t \in Threads, ThreadNext(t)
  PROVE  ControlInv'
<1> USE ThreadsAssumption DEF IInv, TypeOK, Labels, ControlInv, MutualExclusion, Holding, InternalOwner,
        LowerWhileFree, TasksFit, Registered, Goto, mutexVars, cvVars, flagVars
<1>1. CASE UrgentEnter(t)
  BY <1>1 DEF UrgentEnter
<1>2. CASE Raise(t)
  BY <1>2 DEF Raise, UrgentSleep
<1>3. CASE Write(t)
  BY <1>3 DEF Write, UrgentSleep
<1>4. CASE UrgentWake(t)
  BY <1>4 DEF UrgentWake
<1>5. CASE Lower(t)
  BY <1>5 DEF Lower, UrgentTake
<1>6. CASE Read(t)
  BY <1>6 DEF Read, UrgentTake
<1>7. CASE NormalLock(t)
  BY <1>7 DEF NormalLock
<1>8. CASE CheckStopping(t)
  BY <1>8 DEF CheckStopping
<1>9. CASE SelectClient(t)
  BY <1>9 DEF SelectClient
<1>10. CASE PushedAside(t)
  BY <1>10 DEF PushedAside
<1>11. CASE Unlock(t)
  BY <1>11 DEF Unlock
<1>12. CASE NotifyUrgent(t)
  BY <1>12 DEF NotifyUrgent, AfterUnlock
<1>13. CASE NotifyNormal(t)
  BY <1>13 DEF NotifyNormal, AfterUnlock
<1>14. CASE SpuriousWake(t)
  BY <1>14 DEF SpuriousWake
<1>15. QED
  BY <1>1, <1>2, <1>3, <1>4, <1>5, <1>6, <1>7, <1>8, <1>9, <1>10, <1>11,
     <1>12, <1>13, <1>14 DEF ThreadNext

(***************************************************************************)
(* How a thread's step moves it in and out of the two counted sets.        *)
(***************************************************************************)
LEMMA NextCounts ==
  ASSUME IInv, NEW t \in Threads, ThreadNext(t)
  PROVE  CountsWaiters' /\ FlagCountsRaisers' /\ n_urgent_waiters' \in Nat /\ counter' \in Nat
<1> USE DEF IInv, TypeOK, Labels, CountsWaiters, FlagCountsRaisers, MainRaised,
        Goto, mutexVars, cvVars, flagVars
<1> DEFINE Keeps  == Waiters' = Waiters /\ Raisers' = Raisers
<1>0. IsFiniteSet(Waiters) /\ IsFiniteSet(Raisers)
  BY FiniteCounts
<1>k. ASSUME Keeps, UNCHANGED <<main, n_urgent_waiters, counter>>
      PROVE  CountsWaiters' /\ FlagCountsRaisers' /\ n_urgent_waiters' \in Nat /\ counter' \in Nat
  BY <1>k
<1>1. CASE UrgentEnter(t)
  <2>1. CASE locked
    <3>1. Waiters' = Waiters \cup {t} /\ t \notin Waiters /\ Raisers' = Raisers
      BY <1>1, <2>1 DEF UrgentEnter, Waiters, Raisers, Registered, Raised
    <3>2. Cardinality(Waiters') = Cardinality(Waiters) + 1
      BY <3>1, <1>0, CountJoins
    <3>3. QED
      BY <1>1, <2>1, <3>1, <3>2 DEF UrgentEnter
  <2>2. CASE ~locked
    BY <1>1, <1>k, <2>2 DEF UrgentEnter, Waiters, Raisers, Registered, Raised
  <2>3. QED
    BY <2>1, <2>2
<1>2. CASE Raise(t)
  <2>1. Waiters' = Waiters /\ Raisers' = Raisers \cup {t} /\ t \notin Raisers
    BY <1>2 DEF Raise, UrgentSleep, Waiters, Raisers, Registered, Raised
  <2>2. Cardinality(Raisers') = Cardinality(Raisers) + 1
    BY <2>1, <1>0, CountJoins
  <2>3. QED
    BY <1>2, <2>1, <2>2, FiniteCounts DEF Raise, UrgentSleep
<1>3. CASE Write(t)
  BY <1>3, <1>k DEF Write, UrgentSleep, Waiters, Raisers, Registered, Raised
<1>4. CASE UrgentWake(t)
  BY <1>4, <1>k DEF UrgentWake, Waiters, Raisers, Registered, Raised
<1>5. CASE Lower(t)
  <2>1. Raisers' = Raisers \ {t} /\ t \in Raisers
    BY <1>5 DEF Lower, UrgentTake, Waiters, Raisers, Registered, Raised
  <2>2. Cardinality(Raisers') = Cardinality(Raisers) - 1
    BY <2>1, <1>0, CountLeaves
  <2>3. FlagCountsRaisers' /\ counter' \in Nat
    BY <1>5, <2>2, FiniteCounts DEF Lower, UrgentTake
  <2>4. CASE counter = 1
    <3>1. Waiters' = Waiters /\ UNCHANGED n_urgent_waiters
      BY <1>5, <2>4 DEF Lower, Waiters, Raisers, Registered, Raised
    <3>2. QED
      BY <2>3, <3>1
  <2>5. CASE counter # 1
    <3>1. Waiters' = Waiters \ {t} /\ t \in Waiters
      BY <1>5, <2>5 DEF Lower, UrgentTake, Waiters, Raisers, Registered, Raised
    <3>2. Cardinality(Waiters') = Cardinality(Waiters) - 1 /\ Cardinality(Waiters) > 0
      BY <3>1, <1>0, CountLeaves
    <3>3. n_urgent_waiters' = n_urgent_waiters - 1
      BY <1>5, <2>5 DEF Lower, UrgentTake
    <3>4. QED
      BY <2>3, <3>2, <3>3
  <2>6. QED
    BY <2>4, <2>5
<1>6. CASE Read(t)
  <2>1. Waiters' = Waiters \ {t} /\ t \in Waiters /\ Raisers' = Raisers
    BY <1>6 DEF Read, UrgentTake, Waiters, Raisers, Registered, Raised
  <2>2. Cardinality(Waiters') = Cardinality(Waiters) - 1 /\ Cardinality(Waiters) > 0
    BY <2>1, <1>0, CountLeaves
  <2>3. QED
    BY <1>6, <2>1, <2>2 DEF Read, UrgentTake
<1>7. CASE NormalLock(t)
  BY <1>7, <1>k DEF NormalLock, Waiters, Raisers, Registered, Raised
<1>8. CASE CheckStopping(t)
  BY <1>8, <1>k DEF CheckStopping, Waiters, Raisers, Registered, Raised
<1>9. CASE SelectClient(t)
  BY <1>9, <1>k DEF SelectClient, Waiters, Raisers, Registered, Raised
<1>10. CASE PushedAside(t)
  BY <1>10, <1>k DEF PushedAside, Waiters, Raisers, Registered, Raised
<1>11. CASE Unlock(t)
  BY <1>11, <1>k DEF Unlock, Waiters, Raisers, Registered, Raised
<1>12. CASE NotifyUrgent(t)
  BY <1>12, <1>k DEF NotifyUrgent, AfterUnlock, Waiters, Raisers, Registered, Raised
<1>13. CASE NotifyNormal(t)
  BY <1>13, <1>k DEF NotifyNormal, AfterUnlock, Waiters, Raisers, Registered, Raised
<1>14. CASE SpuriousWake(t)
  BY <1>14, <1>k DEF SpuriousWake, Waiters, Raisers, Registered, Raised
<1>15. QED
  BY <1>1, <1>2, <1>3, <1>4, <1>5, <1>6, <1>7, <1>8, <1>9, <1>10, <1>11,
     <1>12, <1>13, <1>14 DEF ThreadNext

(***************************************************************************)
(* The bytes in the pipe.                                                  *)
(***************************************************************************)
LEMMA NextPipe ==
  ASSUME IInv, NEW t \in Threads, ThreadNext(t)
  PROVE  PipeBytes' /\ pipe' \in Nat
<1> USE DEF IInv, TypeOK, Labels, PipeBytes, Writing, Reading, One, InternalOwner,
        Goto, mutexVars, cvVars, flagVars
<1>1. CASE UrgentEnter(t)
  BY <1>1 DEF UrgentEnter
<1>2. CASE Raise(t)
  <2>1. ~Writing \/ counter > 0
    BY <1>2, FiniteCounts, CountLeaves DEF FlagCountsRaisers, MainRaised, Raisers, Raised
  <2>2. QED
    BY <1>2, <2>1 DEF Raise, UrgentSleep
<1>3. CASE Write(t)
  BY <1>3 DEF Write, UrgentSleep
<1>4. CASE UrgentWake(t)
  BY <1>4 DEF UrgentWake
<1>5. CASE Lower(t)
  BY <1>5 DEF Lower, UrgentTake
<1>6. CASE Read(t)
  BY <1>6 DEF Read, UrgentTake
<1>7. CASE NormalLock(t)
  BY <1>7 DEF NormalLock
<1>8. CASE CheckStopping(t)
  BY <1>8 DEF CheckStopping
<1>9. CASE SelectClient(t)
  BY <1>9 DEF SelectClient
<1>10. CASE PushedAside(t)
  BY <1>10 DEF PushedAside
<1>11. CASE Unlock(t)
  BY <1>11 DEF Unlock
<1>12. CASE NotifyUrgent(t)
  BY <1>12 DEF NotifyUrgent, AfterUnlock
<1>13. CASE NotifyNormal(t)
  BY <1>13 DEF NotifyNormal, AfterUnlock
<1>14. CASE SpuriousWake(t)
  BY <1>14 DEF SpuriousWake
<1>15. QED
  BY <1>1, <1>2, <1>3, <1>4, <1>5, <1>6, <1>7, <1>8, <1>9, <1>10, <1>11,
     <1>12, <1>13, <1>14 DEF ThreadNext

LEMMA ThreadStep ==
  ASSUME IInv, NEW t \in Threads, ThreadNext(t)
  PROVE  IInv'
<1>1. ControlInv'
  BY NextControl
<1>2. CountsWaiters' /\ FlagCountsRaisers' /\ n_urgent_waiters' \in Nat /\ counter' \in Nat
  BY NextCounts
<1>3. PipeBytes' /\ pipe' \in Nat
  BY NextPipe
<1>4. TypeOK'
  <2> USE <1>2, <1>3 DEF IInv, TypeOK, Labels, Goto, mutexVars, cvVars, flagVars
  <2>1. CASE UrgentEnter(t)
    BY <2>1 DEF UrgentEnter
  <2>2. CASE Raise(t)
    BY <2>2 DEF Raise, UrgentSleep
  <2>3. CASE Write(t)
    BY <2>3 DEF Write, UrgentSleep
  <2>4. CASE UrgentWake(t)
    BY <2>4 DEF UrgentWake
  <2>5. CASE Lower(t)
    BY <2>5 DEF Lower, UrgentTake
  <2>6. CASE Read(t)
    BY <2>6 DEF Read, UrgentTake
  <2>7. CASE NormalLock(t)
    BY <2>7 DEF NormalLock
  <2>8. CASE CheckStopping(t)
    BY <2>8 DEF CheckStopping
  <2>9. CASE SelectClient(t)
    BY <2>9 DEF SelectClient
  <2>10. CASE PushedAside(t)
    BY <2>10 DEF PushedAside
  <2>11. CASE Unlock(t)
    BY <2>11 DEF Unlock, NotifyOne, AfterUnlock
  <2>12. CASE NotifyUrgent(t)
    BY <2>12 DEF NotifyUrgent, NotifyOne, AfterUnlock
  <2>13. CASE NotifyNormal(t)
    BY <2>13 DEF NotifyNormal, NotifyOne, AfterUnlock
  <2>14. CASE SpuriousWake(t)
    BY <2>14 DEF SpuriousWake
  <2> QED
    BY <2>1, <2>2, <2>3, <2>4, <2>5, <2>6, <2>7,
       <2>8, <2>9, <2>10, <2>11, <2>12, <2>13, <2>14 DEF ThreadNext
<1>5. QED
  BY <1>1, <1>2, <1>3, <1>4 DEF IInv, ControlInv

(***************************************************************************)
(* The steps of run() and the stuttering step.                             *)
(***************************************************************************)
LEMMA MainStep ==
  ASSUME IInv, MainStop \/ MainRaise \/ MainWrite \/ MainLower \/ UNCHANGED vars
  PROVE  IInv'
<1> USE DEF IInv, TypeOK, Labels, mutexVars, cvVars, flagVars
<1>1. CASE MainLower
  <2>1. Waiters = {} /\ Raisers = {} /\ Waiters' = {} /\ Raisers' = {}
    BY <1>1 DEF MainLower, Joined, Waiters, Raisers, Registered, Raised
  <2>2. CountsWaiters' /\ FlagCountsRaisers'
    BY <1>1, <2>1, FS_EmptySet DEF MainLower, CountsWaiters, FlagCountsRaisers, MainRaised
  <2>3. MutualExclusion' /\ InternalOwner' /\ LowerWhileFree' /\ TasksFit'
    BY <1>1, ThreadsAssumption
    DEF MainLower, Joined, TasksFit, Registered, MutualExclusion, Holding, InternalOwner, LowerWhileFree
  <2>4. PipeBytes' /\ TypeOK'
    BY <1>1 DEF MainLower, Joined, PipeBytes, Writing, Reading, One
  <2>5. QED
    BY <2>2, <2>3, <2>4
<1>2. CASE MainStop \/ MainRaise \/ MainWrite \/ UNCHANGED vars
  <2>1. /\ UNCHANGED <<pc, task, mutexVars, cvVars>>
        /\ Waiters' = Waiters /\ Raisers' = Raisers
    BY <1>2 DEF MainStop, MainRaise, MainWrite, vars, Waiters, Raisers, Registered, Raised
  <2>2. /\ MutualExclusion' /\ InternalOwner' /\ LowerWhileFree' /\ TasksFit'
        /\ CountsWaiters'
    BY <2>1 DEF TasksFit, Registered, MutualExclusion, Holding, InternalOwner, LowerWhileFree, CountsWaiters
  <2>3. FlagCountsRaisers'
    BY <1>2, <2>1, FiniteCounts
    DEF MainStop, MainRaise, MainWrite, vars, FlagCountsRaisers, MainRaised
  <2>4. main = "raise" /\ counter = 0 => \A t \in Threads : pc[t] # "write"
    BY FiniteCounts, FS_EmptySet DEF FlagCountsRaisers, MainRaised, Raisers, Raised
  <2>5. PipeBytes' /\ TypeOK'
    BY <1>2, <2>1, <2>4
    DEF MainStop, MainRaise, MainWrite, vars, PipeBytes, Writing, Reading, One
  <2>6. QED
    BY <2>2, <2>3, <2>5
<1>3. QED
  BY <1>1, <1>2

(***************************************************************************)
(* IInv is an invariant of CoreMutex.                                      *)
(***************************************************************************)
THEOREM Invariance == Spec => []IInv
<1>1. IInv /\ [Next]_vars => IInv'
  BY ThreadStep, MainStep DEF Next
<1>2. QED
  BY InitIInv, <1>1, PTL DEF Spec

(***************************************************************************)
(* The variables keep their types; in particular n_urgent_waiters_ and the *)
(* flag's counter never wrap around below zero.                            *)
(***************************************************************************)
THEOREM TypeCorrect == Spec => []TypeOK
<1>1. IInv => TypeOK
  BY DEF IInv
<1>2. QED
  BY Invariance, <1>1, PTL

(***************************************************************************)
(* At most one thread holds the core mutex, and locked_ says whether one   *)
(* does.                                                                   *)
(***************************************************************************)
THEOREM MutexIsExclusive == Spec => []MutualExclusion
<1>1. IInv => MutualExclusion
  BY DEF IInv
<1>2. QED
  BY Invariance, <1>1, PTL

(***************************************************************************)
(* The flag counts those that raised it, so the assert(was_up) after each  *)
(* lower() holds.                                                          *)
(***************************************************************************)
THEOREM FlagIsCounted == Spec => []FlagCountsRaisers
<1>1. IInv => FlagCountsRaisers
  BY DEF IInv
<1>2. QED
  BY Invariance, <1>1, PTL

THEOREM FlagIsUpWhenLowered ==
  Spec => [](\A t \in Threads : pc[t] = "lower" => counter > 0)
<1>1. ASSUME IInv, NEW t \in Threads, pc[t] = "lower" PROVE counter > 0
  <2>1. t \in Raisers
    BY <1>1 DEF Raisers, Raised
  <2>2. Cardinality(Raisers) > 0
    BY <2>1, FiniteCounts, CountLeaves
  <2>3. QED
    BY <1>1, <2>2, FiniteCounts DEF IInv, FlagCountsRaisers
<1>2. IInv => \A t \in Threads : pc[t] = "lower" => counter > 0
  BY <1>1
<1>3. QED
  BY Invariance, <1>2, PTL

(***************************************************************************)
(* The event pipe agrees with the counter, and the read() of lower() never *)
(* blocks.                                                                 *)
(***************************************************************************)
THEOREM PipeIsConsistent == Spec => []PipeFollowsFlag
<1>1. ASSUME IInv PROVE PipeFollowsFlag
  <2>1. main = "write" => counter > 0
    BY <1>1, FiniteCounts DEF IInv, FlagCountsRaisers, MainRaised, TypeOK
  <2>2. ASSUME NEW t \in Threads, pc[t] = "read" PROVE pipe > 0
    BY <1>1, <2>1, <2>2 DEF IInv, TypeOK, InternalOwner, PipeBytes, Writing, Reading, One
  <2>3. ASSUME main # "write", \A t \in Threads : pc[t] \notin {"write", "read"}
        PROVE  pipe = IF counter > 0 THEN 1 ELSE 0
    BY <1>1, <2>3 DEF IInv, TypeOK, PipeBytes, Writing, Reading, One
  <2>4. QED
    BY <2>2, <2>3 DEF PipeFollowsFlag
<1>2. QED
  BY Invariance, <1>1, PTL

(***************************************************************************)
(* The refinement.                                                         *)
(***************************************************************************)
HolderIsUnique ==
  /\ \A t \in Threads : Holding(t) => Holder = t
  /\ (\A t \in Threads : ~Holding(t)) => Holder = None
  /\ Holder # None => locked

LEMMA HolderLemma == IInv => HolderIsUnique
<1> SUFFICES ASSUME IInv PROVE HolderIsUnique
  OBVIOUS
<1>1. ASSUME NEW t \in Threads, Holding(t) PROVE Holder = t /\ locked
  BY <1>1 DEF IInv, MutualExclusion, Holder
<1>2. ASSUME \A t \in Threads : ~Holding(t) PROVE Holder = None
  BY <1>2 DEF Holder
<1>3. QED
  BY <1>1, <1>2 DEF HolderIsUnique

LEMMA SameHolder ==
  ASSUME HolderIsUnique, HolderIsUnique', \A t \in Threads : Holding(t)' <=> Holding(t)
  PROVE  Holder' = Holder
<1>1. CASE \E t \in Threads : Holding(t)
  BY <1>1 DEF HolderIsUnique
<1>2. CASE \A t \in Threads : ~Holding(t)
  BY <1>2 DEF HolderIsUnique
<1>3. QED
  BY <1>1, <1>2

LEMMA ThreadStepRefines ==
  ASSUME IInv, HolderIsUnique, HolderIsUnique', NEW t \in Threads, ThreadNext(t)
  PROVE  [PL!Next]_(PL!vars)
<1> DEFINE Asking == {u \in Threads : task[u] = "client"}
           Quiet == Holder' = Holder /\ Waiters' = Waiters /\ Asking' = Asking
<1> USE DEF IInv, TypeOK, Labels, Goto, mutexVars, cvVars, flagVars
<1>0. TypeOK /\ MutualExclusion
  BY DEF IInv
<1>q. Quiet => [PL!Next]_(PL!vars)
  BY DEF PL!vars
<1>1. CASE UrgentEnter(t)
  <2>1. CASE locked
    <3>1. Holder' = Holder
      BY <1>1, <2>1, SameHolder DEF UrgentEnter, Holding
    <3>2. Holder # None
      <4>1. PICK u \in Threads : Holding(u)
        BY <1>0, <2>1 DEF MutualExclusion
      <4>2. Holder = u
        BY <4>1 DEF HolderIsUnique
      <4>3. QED
        BY <4>2, ThreadsAssumption
    <3>3. PL!Register(t)
      BY <1>1, <2>1, <3>1, <3>2 DEF UrgentEnter, Waiters, Registered, PL!Register
    <3>4. QED
      BY <3>3 DEF PL!Next
  <2>2. CASE ~locked
    <3>1. Holder = None /\ Holder' = t
      BY <1>0, <1>1, <2>2 DEF UrgentEnter, MutualExclusion, HolderIsUnique, Holding
    <3>2. PL!UrgentLock(t)
      BY <1>1, <2>2, <3>1 DEF UrgentEnter, Waiters, Registered, PL!UrgentLock
    <3>3. QED
      BY <3>2 DEF PL!Next
  <2>3. QED
    BY <2>1, <2>2
<1>2. CASE Raise(t) \/ Write(t) \/ UrgentWake(t)
  <2>1. Holder' = Holder
    BY <1>2, SameHolder DEF Raise, Write, UrgentWake, UrgentSleep, Holding
  <2>2. Quiet
    BY <1>2, <2>1 DEF Raise, Write, UrgentWake, UrgentSleep, Waiters, Registered
  <2>3. QED
    BY <1>q, <2>2
<1>3. CASE Lower(t) /\ counter = 1
  <2>1. Holder' = Holder
    BY <1>3, SameHolder DEF Lower, Holding
  <2>2. Quiet
    BY <1>3, <2>1 DEF Lower, Waiters, Registered
  <2>3. QED
    BY <1>q, <2>2
<1>4. CASE (Lower(t) /\ counter # 1) \/ Read(t)
  <2>1. UrgentTake(t) /\ pc[t] \in {"lower", "read"} /\ UNCHANGED task
    BY <1>4 DEF Lower, Read
  <2>2. Holder = None
    BY <1>0, <2>1 DEF LowerWhileFree, MutualExclusion, HolderIsUnique
  <2>3. Holder' = t
    BY <2>1 DEF UrgentTake, HolderIsUnique, Holding
  <2>4. task[t] = "client"
    BY <2>1 DEF TasksFit, Registered
  <2>5. PL!UrgentLock(t)
    BY <2>1, <2>2, <2>3, <2>4 DEF UrgentTake, Waiters, Registered, PL!UrgentLock
  <2>6. QED
    BY <2>5 DEF PL!Next
<1>5. CASE NormalLock(t)
  <2>1. CASE locked \/ n_urgent_waiters # 0
    <3>1. Holder' = Holder
      BY <1>5, <2>1, SameHolder DEF NormalLock, Holding
    <3>2. Quiet
      BY <1>5, <2>1, <3>1 DEF NormalLock, Waiters, Registered
    <3>3. QED
      BY <1>q, <3>2
  <2>2. CASE ~locked /\ n_urgent_waiters = 0
    <3>1. Waiters = {}
      BY <2>2, FiniteCounts, FS_EmptySet DEF CountsWaiters
    <3>2. Holder = None /\ Holder' = t
      BY <1>0, <1>5, <2>2 DEF NormalLock, MutualExclusion, HolderIsUnique, Holding
    <3>3. Waiters' = Waiters /\ Asking' = Asking
      BY <1>5, <2>2 DEF NormalLock, Waiters, Registered
    <3>4. task[t] # "client"
      BY <1>5 DEF NormalLock, TasksFit
    <3>5. PL!NormalLock(t)
      BY <3>1, <3>2, <3>3, <3>4 DEF PL!NormalLock
    <3>6. QED
      BY <3>5 DEF PL!Next
  <2>3. QED
    BY <2>1, <2>2
<1>6. CASE CheckStopping(t) \/ SelectClient(t)
  <2>1. Holder' = Holder
    BY <1>6, SameHolder DEF CheckStopping, SelectClient, Holding
  <2>2. Holder = t
    BY <1>6 DEF CheckStopping, SelectClient, Holding, HolderIsUnique
  <2>3. Waiters' = Waiters
    BY <1>6 DEF CheckStopping, SelectClient, Waiters, Registered
  <2>4. Asking' = Asking \cup {t} \/ Asking' = Asking \ {t}
    BY <1>6 DEF CheckStopping, SelectClient
  <2>5. PL!Work(t)
    BY <2>1, <2>2, <2>3, <2>4 DEF PL!Work
  <2>6. QED
    BY <2>5 DEF PL!Next
<1>7. CASE Unlock(t)
  <2>1. Holder = t
    BY <1>7 DEF Unlock, Holding, HolderIsUnique
  <2>2. Holder' = None
    BY <1>0, <1>7 DEF Unlock, Holding, HolderIsUnique, MutualExclusion
  <2>3. PL!Unlock(t)
    BY <1>7, <2>1, <2>2 DEF Unlock, Waiters, Registered, PL!Unlock
  <2>4. QED
    BY <2>3 DEF PL!Next
<1>8. CASE PushedAside(t) \/ NotifyUrgent(t) \/ NotifyNormal(t) \/ SpuriousWake(t)
  <2>1. Holder' = Holder
    BY <1>8, SameHolder
    DEF PushedAside, NotifyUrgent, NotifyNormal, AfterUnlock, SpuriousWake, Holding
  <2>2. Quiet
    BY <1>8, <2>1
    DEF PushedAside, NotifyUrgent, NotifyNormal, AfterUnlock, SpuriousWake, Waiters, Registered
  <2>3. QED
    BY <1>q, <2>2
<1>9. QED
  BY <1>1, <1>2, <1>3, <1>4, <1>5, <1>6, <1>7, <1>8 DEF ThreadNext

LEMMA MainStepRefines ==
  ASSUME IInv, HolderIsUnique, HolderIsUnique',
         MainStop \/ MainRaise \/ MainWrite \/ MainLower \/ UNCHANGED vars
  PROVE  UNCHANGED PL!vars
<1> DEFINE Asking == {u \in Threads : task[u] = "client"}
<1> USE DEF IInv, TypeOK, Labels, mutexVars, cvVars, flagVars
<1>1. Holder' = Holder
  BY SameHolder DEF MainStop, MainRaise, MainWrite, MainLower, Joined, vars, Holding
<1>2. Waiters' = Waiters
  BY DEF MainStop, MainRaise, MainWrite, MainLower, Joined, vars, Waiters, Registered
<1>3. Asking' = Asking
  BY DEF MainStop, MainRaise, MainWrite, MainLower, Joined, vars, TasksFit
<1>4. QED
  BY <1>1, <1>2, <1>3 DEF PL!vars

(***************************************************************************)
(* core_mutex_t implements the priority lock: one holder, and no thread    *)
(* without a client to hand back gets the mutex while another waits with   *)
(* one.                                                                    *)
(***************************************************************************)
THEOREM CoreMutexIsPriorityLock == Spec => ImplementsPriorityLock
<1>1. Init => PL!Init
  <2> SUFFICES ASSUME Init PROVE PL!Init
    OBVIOUS
  <2>1. Holder = None /\ Waiters = {} /\ {u \in Threads : task[u] = "client"} = {}
    BY DEF Init, Holder, Holding, Waiters, Registered
  <2>2. QED
    BY <2>1 DEF PL!Init
<1>2. IInv /\ HolderIsUnique /\ HolderIsUnique' /\ [Next]_vars => [PL!Next]_(PL!vars)
  BY ThreadStepRefines, MainStepRefines DEF Next
<1>3. QED
  BY <1>1, <1>2, HolderLemma, Invariance, PTL DEF Spec, ImplementsPriorityLock, PL!Spec

-----------------------------------------------------------------------------
(***************************************************************************)
(* The client cache.                                                       *)
(***************************************************************************)
LEMMA CacheInitInv == CacheInit => CacheInv
<1> SUFFICES ASSUME CacheInit PROVE CacheInv
  OBVIOUS
<1>1. entries = <<>> /\ entries \in Seq(Entry) /\ Len(entries) = 0 /\ DOMAIN entries = {}
  BY EmptySeq DEF CacheInit
<1>2. Cached = {} /\ InUse = {}
  BY <1>1 DEF Cached, InUse, CacheInit
<1>3. QED
  BY <1>1, <1>2, ClientCacheAssumption
     DEF CacheInit, CacheInv, CacheTypeOK, OneOwner, NewestFirst, InThePast, CallsFit, ServesItsCall

-----------------------------------------------------------------------------
(***************************************************************************)
(* The searches of obtain() and of invalidate_entries().                   *)
(***************************************************************************)
Positions == 1 .. Len(entries)

LEMMA FreshIsPrefix ==
  ASSUME CacheInv, NEW x
  PROVE  /\ FreshLength(x) \in 0 .. Len(entries)
         /\ FreshLength(x) = Len(entries) \/ ~IsFresh(entries[FreshLength(x) + 1], x)
         /\ Fresh(x) \in Seq(Entry) /\ Len(Fresh(x)) = FreshLength(x)
         /\ \A i \in 1 .. FreshLength(x) : Fresh(x)[i] = entries[i] /\ IsFresh(entries[i], x)
         /\ Leaves(Fresh(x), entries, 1 .. FreshLength(x))
<1>1. entries \in Seq(Entry) /\ Len(entries) \in Nat
  BY DEF CacheInv, CacheTypeOK
<1> DEFINE Stops(n) == n = Len(entries) \/ ~IsFresh(entries[n + 1], x)
           IsIt(n)  == (\A i \in 1 .. n : IsFresh(entries[i], x)) /\ Stops(n)
<1>2. \E n \in 0 .. Len(entries) : IsIt(n)
  <2> DEFINE T == {n \in 0 .. Len(entries) : Stops(n)}
  <2>1. T \in SUBSET Nat /\ Len(entries) \in T
    BY <1>1
  <2>2. PICK n \in T : \A m \in T : n <= m
    <3> HIDE DEF T
    <3> QED BY <2>1, LeastOf
  <2>3. n \in 0 .. Len(entries) /\ Stops(n)
    OBVIOUS
  <2>4. ASSUME NEW i \in 1 .. n PROVE IsFresh(entries[i], x)
    <3>1. i - 1 \in 0 .. Len(entries) /\ ~(n <= i - 1) /\ i - 1 + 1 = i
      BY <1>1, <2>3
    <3>2. i - 1 \notin T
      BY <2>2, <3>1
    <3>3. ~Stops(i - 1)
      BY <3>1, <3>2
    <3>4. QED
      BY <3>1, <3>3
  <2>5. QED
    BY <2>3, <2>4
<1>3. FreshLength(x) = CHOOSE n \in 0 .. Len(entries) : IsIt(n)
  BY DEF FreshLength
<1>4. FreshLength(x) \in 0 .. Len(entries) /\ IsIt(FreshLength(x))
  <2> HIDE DEF IsIt
  <2> QED BY <1>2, <1>3
<1>5. QED
  BY <1>1, <1>4, PrefixLeaves DEF Fresh

LEMMA FirstFit ==
  ASSUME CacheInv, NEW x, NEW fits \in SUBSET (1 .. FreshLength(x)), fits # {}
  PROVE  (CHOOSE i \in fits : \A j \in fits : i <= j) \in fits
<1>1. fits \in SUBSET Nat
  BY FreshIsPrefix
<1>2. \E i \in fits : \A j \in fits : i <= j
  BY <1>1, LeastOf
<1>3. QED
  BY <1>2

\* What is newer than that is in the prefix.
LEMMA NewerIsFresh ==
  ASSUME CacheInv, NEW x \in Int, NEW i \in DOMAIN entries, entries[i].timestamp > x
  PROVE  i \in 1 .. FreshLength(x)
<1>1. /\ DOMAIN entries = 1 .. Len(entries) /\ Len(entries) \in Nat
      /\ FreshLength(x) \in 0 .. Len(entries)
      /\ \A n \in DOMAIN entries : entries[n] \in Entry
  BY FreshIsPrefix DEF CacheInv, CacheTypeOK
<1>2. SUFFICES ASSUME i > FreshLength(x) PROVE FALSE
  BY <1>1
<1> DEFINE n == FreshLength(x) + 1
<1>3. n \in DOMAIN entries /\ FreshLength(x) # Len(entries) /\ n <= i
  BY <1>1, <1>2
<1>4. ~IsFresh(entries[n], x)
  BY <1>3, FreshIsPrefix
<1> HIDE DEF n
<1>5. entries[n].timestamp \in Nat /\ entries[i].timestamp \in Nat
  BY <1>1, <1>3 DEF Entry
<1>6. n = i \/ n < i
  BY <1>1, <1>3
<1>7. n < i => entries[n].timestamp >= entries[i].timestamp
  BY <1>3 DEF CacheInv, NewestFirst
<1>8. QED
  BY <1>4, <1>5, <1>6, <1>7 DEF IsFresh

\* What is left of the fresh entries is left of the entries.
LEMMA LeftOfFresh ==
  ASSUME CacheInv, NEW x, NEW I \in SUBSET (1 .. FreshLength(x)), NEW r, Leaves(r, Fresh(x), I)
  PROVE  Leaves(r, entries, I)
<1>1. \A i \in I : Fresh(x)[i] = entries[i]
  BY FreshIsPrefix
<1>2. PICK f \in [1 .. Len(r) -> I] :
        /\ \A i, j \in 1 .. Len(r) : i < j => f[i] < f[j]
        /\ \A n \in I : \E i \in 1 .. Len(r) : f[i] = n
        /\ \A i \in 1 .. Len(r) : r[i] = Fresh(x)[f[i]]
  BY DEF Leaves
<1>3. \A i \in 1 .. Len(r) : f[i] \in I
  OBVIOUS
<1>4. \A i \in 1 .. Len(r) : r[i] = entries[f[i]]
  BY <1>1, <1>2, <1>3
<1>5. QED
  BY <1>2, <1>4 DEF Leaves

(***************************************************************************)
(* Wherever entries are left out, the invariants hold of what is left.     *)
(***************************************************************************)
LEMMA WhatStaysInTheCache ==
  ASSUME CacheInv, NEW I \in SUBSET Positions, entries' \in Seq(Entry), Leaves(entries', entries, I),
         now' = now
  PROVE  /\ Len(entries') <= MaxCachesize
         /\ Cached' = {entries[i].client : i \in I}
         /\ \A i, j \in DOMAIN entries' : entries'[i].client = entries'[j].client => i = j
         /\ NewestFirst' /\ InThePast'
<1>1. /\ entries \in Seq(Entry) /\ Len(entries) <= MaxCachesize /\ Len(entries) \in Nat
      /\ MaxCachesize \in Nat /\ DOMAIN entries = Positions /\ DOMAIN entries' = 1 .. Len(entries')
      /\ Len(entries') \in Nat
  BY ClientCacheAssumption DEF CacheInv, CacheTypeOK, Positions
<1>2. PICK f \in [1 .. Len(entries') -> I] :
        /\ \A i, j \in 1 .. Len(entries') : i < j => f[i] < f[j]
        /\ \A n \in I : \E i \in 1 .. Len(entries') : f[i] = n
        /\ \A i \in 1 .. Len(entries') : entries'[i] = entries[f[i]]
  BY DEF Leaves
<1>3. Len(entries') <= MaxCachesize
  <2>1. Len(entries') <= Len(entries)
    BY <1>1, WhatIsLeft DEF Positions
  <2>2. QED
    BY <1>1, <2>1
<1>4. \A i \in 1 .. Len(entries') : f[i] \in I /\ f[i] \in Positions /\ f[i] \in Nat
  <2>1. \A i \in 1 .. Len(entries') : f[i] \in I
    BY <1>2
  <2>2. \A i \in I : i \in Positions /\ i \in Nat
    BY <1>1 DEF Positions
  <2>3. QED
    BY <2>1, <2>2
<1>5. Cached' = {entries[i].client : i \in I}
  <2>1. Cached' = {entries'[i].client : i \in 1 .. Len(entries')}
    BY <1>1 DEF Cached
  <2>2. \A i \in 1 .. Len(entries') : entries'[i].client \in {entries[n].client : n \in I}
    BY <1>2, <1>4
  <2>3. \A n \in I : entries[n].client \in {entries'[i].client : i \in 1 .. Len(entries')}
    BY <1>2
  <2>4. QED
    BY <2>1, <2>2, <2>3
<1>6. \A i, j \in DOMAIN entries' : entries'[i].client = entries'[j].client => i = j
  <2>1. \A m, n \in Positions : entries[m].client = entries[n].client => m = n
    BY <1>1 DEF CacheInv, OneOwner
  <2>2. \A i, j \in 1 .. Len(entries') : f[i] = f[j] => i = j
    BY <1>1, <1>2, <1>4
  <2>3. QED
    BY <1>1, <1>2, <1>4, <2>1, <2>2
<1>7. NewestFirst' /\ InThePast'
  <2>1. /\ DOMAIN entries = Positions /\ now' = now
        /\ \A i \in Positions : entries[i].timestamp <= now
        /\ \A i, j \in Positions : i < j => entries[i].timestamp >= entries[j].timestamp
    BY <1>1 DEF CacheInv, NewestFirst, InThePast
  <2>2. InThePast'
    BY <1>1, <1>2, <1>4, <2>1 DEF InThePast
  <2>3. NewestFirst'
    BY <1>1, <1>2, <1>4, <2>1 DEF NewestFirst
  <2> QED
    BY <2>2, <2>3
<1>8. QED
  BY <1>3, <1>5, <1>6, <1>7

\* Whose connections are in the cache, entry by entry.
LEMMA EntriesAreOfDifferentClients ==
  ASSUME CacheInv, NEW I \in SUBSET Positions
  PROVE  /\ Cached = {entries[i].client : i \in Positions}
         /\ {entries[i].client : i \in Positions \ I} = Cached \ {entries[i].client : i \in I}
         /\ Cached \subseteq Clients
<1>1. /\ DOMAIN entries = Positions
      /\ \A i, j \in Positions : entries[i].client = entries[j].client => i = j
      /\ \A i \in Positions : entries[i].client \in Clients
  <2>1. entries \in Seq(Entry) /\ DOMAIN entries = Positions
    BY DEF CacheInv, CacheTypeOK, Positions
  <2>2. \A i \in Positions : entries[i] \in Entry
    BY <2>1 DEF Positions
  <2>3. QED
    BY <2>1, <2>2 DEF CacheInv, OneOwner, Entry
<1>2. QED
  BY <1>1 DEF Cached

\* One thread's connection changes.
LEMMA InUseAfter ==
  ASSUME CacheInv, NEW t \in Callers, NEW d \in Clients \cup {Nothing},
         d = Nothing \/ d = client[t] \/ d \notin InUse,
         client' = [client EXCEPT ![t] = d]
  PROVE  /\ InUse' = (InUse \ {client[t]}) \cup ({d} \ {Nothing})
         /\ client[t] \in InUse \cup {Nothing}
         /\ client' \in [Callers -> Clients \cup {Nothing}]
         /\ \A u, v \in Callers : client'[u] # Nothing /\ client'[u] = client'[v] => u = v
<1>1. /\ client \in [Callers -> Clients \cup {Nothing}]
      /\ \A u, v \in Callers : client[u] # Nothing /\ client[u] = client[v] => u = v
  BY DEF CacheInv, CacheTypeOK, OneOwner
<1>2. \A u \in Callers : client'[u] = IF u = t THEN d ELSE client[u]
  BY <1>1
<1>3. client' \in [Callers -> Clients \cup {Nothing}]
  BY <1>1
<1>4. \A u, v \in Callers : client'[u] # Nothing /\ client'[u] = client'[v] => u = v
  BY <1>1, <1>2 DEF InUse
<1>5. InUse' = (InUse \ {client[t]}) \cup ({d} \ {Nothing})
  BY <1>1, <1>2 DEF InUse
<1>6. QED
  BY <1>3, <1>4, <1>5 DEF InUse

-----------------------------------------------------------------------------
(***************************************************************************)
(* obtain().                                                               *)
(***************************************************************************)
LEMMA ExpiredAreTheRest ==
  ASSUME CacheInv, NEW x
  PROVE  /\ {entries[i].client : i \in 1 .. FreshLength(x)} = Cached \ Expired(x)
         /\ Expired(x) \subseteq Cached
         /\ 1 .. FreshLength(x) \subseteq Positions
<1>1. Len(entries) \in Nat /\ FreshLength(x) \in 0 .. Len(entries)
  BY FreshIsPrefix DEF CacheInv, CacheTypeOK
<1>2. /\ 1 .. FreshLength(x) \subseteq Positions
      /\ FreshLength(x) + 1 .. Len(entries) = Positions \ (1 .. FreshLength(x))
  BY <1>1 DEF Positions
<1>3. Expired(x) = Cached \ {entries[i].client : i \in 1 .. FreshLength(x)}
  BY <1>2, EntriesAreOfDifferentClients DEF Expired
<1>4. {entries[i].client : i \in 1 .. FreshLength(x)} \subseteq Cached
  <2>1. Cached = {entries[i].client : i \in Positions}
    BY <1>2, EntriesAreOfDifferentClients
  <2> QED
    BY <1>2, <2>1
<1>5. QED
  BY <1>2, <1>3, <1>4

LEMMA ObtainFinds ==
  ASSUME CacheInv, NEW t \in Callers, Obtain(t)
  PROVE  \/ /\ entries' = Fresh(expiry[t]) /\ client' = client
            /\ at' = [at EXCEPT ![t] = "create"]
            /\ \A i \in 1 .. FreshLength(expiry[t]) : address[entries[i].client] # call[t]
         \/ \E pos \in 1 .. FreshLength(expiry[t]) :
              /\ address[entries[pos].client] = call[t] /\ IsFresh(entries[pos], expiry[t])
              /\ \A i \in 1 .. FreshLength(expiry[t]) : address[entries[i].client] = call[t] => pos <= i
              /\ entries' \in Seq(Entry)
              /\ Leaves(entries', entries, (1 .. FreshLength(expiry[t])) \ {pos})
              /\ client' = [client EXCEPT ![t] = entries[pos].client]
              /\ at' = [at EXCEPT ![t] = "use"]
<1> DEFINE x     == expiry[t]
           found == Fresh(x)
           len   == FreshLength(x)
           fits  == {i \in DOMAIN found : IsFor(found[i], call[t])}
           pos   == CHOOSE i \in fits : \A j \in fits : i <= j
<1>1. IF fits = {} THEN entries' = found /\ client' = client /\ at' = [at EXCEPT ![t] = "create"]
                   ELSE /\ entries' = RemoveAt(found, pos)
                        /\ client' = [client EXCEPT ![t] = found[pos].client]
                        /\ at' = [at EXCEPT ![t] = "use"]
  BY DEF Obtain
<1>2. /\ DOMAIN found = 1 .. len /\ found \in Seq(Entry) /\ Len(found) = len
      /\ \A i \in 1 .. len : found[i] = entries[i] /\ IsFresh(entries[i], x)
      /\ len \in Nat
  BY FreshIsPrefix DEF CacheInv, CacheTypeOK
<1>3. \A i \in 1 .. len : i \in fits <=> address[entries[i].client] = call[t]
  BY <1>2 DEF IsFor
<1>4. fits \subseteq 1 .. len
  BY <1>2
<1>5. CASE fits # {}
  <2>1. pos \in fits /\ \A i \in fits : pos <= i
    <3>1. fits \in SUBSET Nat
      BY <1>2, <1>4
    <3> HIDE DEF fits
    <3>2. QED
      BY <1>5, <3>1, LeastOf
  <2>2. pos \in 1 .. len
    BY <1>4, <2>1
  <2> HIDE DEF fits, pos, len, found
  <2>3. found[pos] = entries[pos] /\ IsFresh(entries[pos], x) /\ address[entries[pos].client] = call[t]
    BY <1>2, <1>3, <2>1, <2>2
  <2>4. entries' \in Seq(Entry) /\ Leaves(entries', found, (1 .. len) \ {pos})
    BY <1>1, <1>2, <1>5, <2>2, RemoveAtLeaves
  <2>5. Leaves(entries', entries, (1 .. len) \ {pos})
    <3>1. (1 .. len) \ {pos} \in SUBSET (1 .. len)
      OBVIOUS
    <3>2. QED
      BY <2>4, <3>1, LeftOfFresh DEF found, len
  <2>6. \A i \in 1 .. len : address[entries[i].client] = call[t] => pos <= i
    BY <1>3, <2>1
  <2>7. client' = [client EXCEPT ![t] = entries[pos].client] /\ at' = [at EXCEPT ![t] = "use"]
    BY <1>1, <1>5, <2>3
  <2>8. QED
    BY <2>2, <2>3, <2>4, <2>5, <2>6, <2>7 DEF len
<1>6. CASE fits = {}
  BY <1>1, <1>3, <1>6
<1>7. QED
  BY <1>5, <1>6

LEMMA ObtainKeeps ==
  ASSUME CacheInv, NEW t \in Callers, Obtain(t)
  PROVE  CacheInv'
<1> DEFINE x == expiry[t]
<1>1. /\ at[t] = "obtain" /\ expiry' = [expiry EXCEPT ![t] = Nothing]
      /\ dead' = dead \cup Expired(x) /\ UNCHANGED <<now, address, call>>
  BY DEF Obtain
<1> HIDE DEF x
<1>2. /\ now \in 0 .. MaxTime /\ address \in [Clients -> Addresses \cup {Nothing}]
      /\ call \in [Callers -> Addresses \cup {Nothing}] /\ dead \subseteq Clients
      /\ expiry \in [Callers -> (-MaxAge .. MaxTime) \cup {Nothing}]
      /\ at \in [Callers -> {"idle", "obtain", "create", "use", "invalidate"}]
      /\ client \in [Callers -> Clients \cup {Nothing}]
      /\ Cached \cap InUse = {} /\ (Cached \cup InUse) \cap dead = {}
      /\ Cached \cup InUse \cup dead = {c \in Clients : address[c] # Nothing}
      /\ Cached \subseteq Clients /\ Expired(x) \subseteq Cached
      /\ {entries[i].client : i \in 1 .. FreshLength(x)} = Cached \ Expired(x)
      /\ 1 .. FreshLength(x) \subseteq Positions
  BY EntriesAreOfDifferentClients, ExpiredAreTheRest DEF CacheInv, CacheTypeOK, OneOwner, Positions
<1>3. client[t] = Nothing
  BY <1>1 DEF CacheInv, CallsFit
<1>4. CASE entries' = Fresh(x) /\ client' = client /\ at' = [at EXCEPT ![t] = "create"]
  <2>1. entries' \in Seq(Entry) /\ Leaves(entries', entries, 1 .. FreshLength(x))
    BY <1>4, FreshIsPrefix
  <2>2. /\ Len(entries') <= MaxCachesize
        /\ Cached' = {entries[i].client : i \in 1 .. FreshLength(x)}
        /\ \A i, j \in DOMAIN entries' : entries'[i].client = entries'[j].client => i = j
        /\ NewestFirst' /\ InThePast'
    BY <1>1, <1>2, <2>1, WhatStaysInTheCache
  <2>3. CacheTypeOK'
    BY <1>1, <1>2, <1>4, <2>1, <2>2 DEF CacheTypeOK
  <2>4. Cached' = Cached \ Expired(x) /\ InUse' = InUse
    BY <1>2, <1>4, <2>2 DEF InUse
  <2>5. OneOwner'
    BY <1>1, <1>2, <1>4, <2>2, <2>4 DEF OneOwner, CacheInv
  <2>6. ServesItsCall'
    BY <1>1, <1>4 DEF ServesItsCall, CacheInv
  <2>7. CallsFit'
    BY <1>1, <1>2, <1>3, <1>4 DEF CallsFit, CacheInv
  <2>8. QED
    BY <2>2, <2>3, <2>5, <2>6, <2>7 DEF CacheInv
<1>5. ASSUME NEW pos \in 1 .. FreshLength(x),
             address[entries[pos].client] = call[t],
             entries' \in Seq(Entry),
             Leaves(entries', entries, (1 .. FreshLength(x)) \ {pos}),
             client' = [client EXCEPT ![t] = entries[pos].client],
             at' = [at EXCEPT ![t] = "use"]
      PROVE  CacheInv'
  <2> DEFINE d == entries[pos].client
             I == (1 .. FreshLength(x)) \ {pos}
  <2>1. I \in SUBSET Positions /\ pos \in Positions
    BY <1>2, <1>5
  <2>2. d \in Cached /\ d \in Clients /\ d \notin Expired(x) /\ d \notin InUse /\ d # Nothing
    BY <1>2, <1>5, <2>1, EntriesAreOfDifferentClients, ClientCacheAssumption
  <2>3. {entries[i].client : i \in I} = Cached \ (Expired(x) \cup {d})
    <3>1. \A i, j \in Positions : entries[i].client = entries[j].client => i = j
      BY DEF CacheInv, OneOwner, CacheTypeOK, Positions
    <3>2. {entries[i].client : i \in I} = {entries[i].client : i \in 1 .. FreshLength(x)} \ {d}
      BY <1>2, <1>5, <2>1, <3>1
    <3>3. QED
      BY <1>2, <3>2
  <2> HIDE DEF d, I
  <2>4. /\ Len(entries') <= MaxCachesize
        /\ Cached' = Cached \ (Expired(x) \cup {d})
        /\ \A i, j \in DOMAIN entries' : entries'[i].client = entries'[j].client => i = j
        /\ NewestFirst' /\ InThePast'
    BY <1>1, <1>5, <2>1, <2>3, WhatStaysInTheCache DEF I
  <2>5. /\ InUse' = InUse \cup {d}
        /\ client' \in [Callers -> Clients \cup {Nothing}]
        /\ \A u, v \in Callers : client'[u] # Nothing /\ client'[u] = client'[v] => u = v
    <3>1. client' = [client EXCEPT ![t] = d]
      BY <1>5 DEF d
    <3>2. /\ InUse' = (InUse \ {client[t]}) \cup ({d} \ {Nothing})
          /\ client' \in [Callers -> Clients \cup {Nothing}]
          /\ \A u, v \in Callers : client'[u] # Nothing /\ client'[u] = client'[v] => u = v
      BY <2>2, <3>1, InUseAfter
    <3>3. QED
      BY <1>3, <2>2, <3>2 DEF InUse
  <2>6. CacheTypeOK'
    BY <1>1, <1>2, <1>5, <2>4, <2>5 DEF CacheTypeOK
  <2>7. OneOwner'
    BY <1>1, <1>2, <2>2, <2>4, <2>5 DEF OneOwner
  <2>8. ServesItsCall'
    BY <1>1, <1>2, <1>5 DEF ServesItsCall, CacheInv, d
  <2>9. CallsFit'
    <3>1. client' = [client EXCEPT ![t] = d]
      BY <1>5 DEF d
    <3>2. QED
      BY <1>1, <1>2, <1>5, <2>2, <3>1 DEF CallsFit, CacheInv
  <2>10. QED
    BY <2>4, <2>6, <2>7, <2>8, <2>9 DEF CacheInv
<1>6. \/ entries' = Fresh(x) /\ client' = client /\ at' = [at EXCEPT ![t] = "create"]
      \/ \E pos \in 1 .. FreshLength(x) :
           /\ address[entries[pos].client] = call[t]
           /\ entries' \in Seq(Entry)
           /\ Leaves(entries', entries, (1 .. FreshLength(x)) \ {pos})
           /\ client' = [client EXCEPT ![t] = entries[pos].client]
           /\ at' = [at EXCEPT ![t] = "use"]
  BY ObtainFinds DEF x
<1>7. QED
  BY <1>4, <1>5, <1>6

LEMMA CreateKeeps ==
  ASSUME CacheInv, NEW t \in Callers, NEW c \in Clients, Create(t, c)
  PROVE  CacheInv'
<1>1. /\ at[t] = "create" /\ at' = [at EXCEPT ![t] = "use"] /\ address[c] = Nothing
      /\ address' = [address EXCEPT ![c] = call[t]]
      /\ client' = [client EXCEPT ![t] = c]
      /\ UNCHANGED <<now, entries, call, expiry, dead>>
  BY DEF Create
<1>2. /\ address \in [Clients -> Addresses \cup {Nothing}]
      /\ call \in [Callers -> Addresses \cup {Nothing}]
      /\ client \in [Callers -> Clients \cup {Nothing}]
      /\ Cached \cap InUse = {} /\ (Cached \cup InUse) \cap dead = {}
      /\ Cached \cup InUse \cup dead = {d \in Clients : address[d] # Nothing}
      /\ c \notin Cached /\ c \notin InUse /\ c \notin dead /\ c # Nothing
  BY <1>1, ClientCacheAssumption DEF CacheInv, CacheTypeOK, OneOwner
<1>t. /\ client[t] = Nothing /\ call[t] # Nothing
      /\ at \in [Callers -> {"idle", "obtain", "create", "use", "invalidate"}]
      /\ expiry \in [Callers -> (-MaxAge .. MaxTime) \cup {Nothing}]
  BY <1>1 DEF CacheInv, CacheTypeOK, CallsFit
<1>3. /\ InUse' = InUse \cup {c}
      /\ client' \in [Callers -> Clients \cup {Nothing}]
      /\ \A u, v \in Callers : client'[u] # Nothing /\ client'[u] = client'[v] => u = v
  <2>1. /\ InUse' = (InUse \ {client[t]}) \cup ({c} \ {Nothing})
        /\ client' \in [Callers -> Clients \cup {Nothing}]
        /\ \A u, v \in Callers : client'[u] # Nothing /\ client'[u] = client'[v] => u = v
    BY <1>1, <1>2, InUseAfter
  <2>2. QED
    BY <1>t, <1>2, <2>1 DEF InUse
<1>4. Cached' = Cached
  BY <1>1 DEF Cached
<1>5. CacheTypeOK' /\ NewestFirst' /\ InThePast'
  BY <1>t, <1>1, <1>2, <1>3 DEF CacheInv, CacheTypeOK, NewestFirst, InThePast
<1>6. OneOwner'
  <2>1. {d \in Clients : address'[d] # Nothing} = {d \in Clients : address[d] # Nothing} \cup {c}
    BY <1>t, <1>1, <1>2
  <2>2. QED
    BY <1>1, <1>2, <1>3, <1>4, <2>1 DEF CacheInv, OneOwner
<1>7. ServesItsCall'
  <2>1. ASSUME NEW u \in Callers, client'[u] # Nothing PROVE address'[client'[u]] = call'[u]
    <3>1. CASE u = t
      BY <1>1, <1>2, <3>1
    <3>2. CASE u # t
      <4>1. client'[u] = client[u] /\ client[u] \in InUse /\ client[u] # c /\ client[u] \in Clients
        BY <1>1, <1>2, <2>1, <3>2 DEF InUse
      <4>2. QED
        BY <1>1, <1>2, <2>1, <4>1 DEF CacheInv, ServesItsCall
    <3>3. QED
      BY <3>1, <3>2
  <2>2. QED
    BY <2>1 DEF ServesItsCall
<1>8. CallsFit'
  BY <1>t, <1>1, <1>2 DEF CacheInv, CallsFit
<1>9. QED
  BY <1>5, <1>6, <1>7, <1>8 DEF CacheInv

\* A thread that looks at the clock before it waits for the mutex.
LEMMA LookAtClockKeeps ==
  ASSUME CacheInv, NEW t \in Callers, (\E a \in Addresses : StartObtain(t, a)) \/ Fail(t)
  PROVE  CacheInv'
<1>1. /\ expiry' = [expiry EXCEPT ![t] = now - MaxAge]
      /\ UNCHANGED <<now, entries, address, client, dead>>
  BY DEF StartObtain, Fail
<1>2. /\ now \in 0 .. MaxTime /\ MaxAge \in Nat /\ MaxTime \in Nat /\ Nothing \notin Int
      /\ Nothing \notin Addresses
      /\ at \in [Callers -> {"idle", "obtain", "create", "use", "invalidate"}]
      /\ call \in [Callers -> Addresses \cup {Nothing}]
      /\ expiry \in [Callers -> (-MaxAge .. MaxTime) \cup {Nothing}]
  BY ClientCacheAssumption DEF CacheInv, CacheTypeOK
<1>3. now - MaxAge \in -MaxAge .. MaxTime /\ now - MaxAge # Nothing
  BY <1>2
<1>4. Cached' = Cached /\ InUse' = InUse
  BY <1>1 DEF Cached, InUse
<1>5. OneOwner' /\ NewestFirst' /\ InThePast'
  BY <1>1, <1>4 DEF CacheInv, OneOwner, NewestFirst, InThePast
<1> DEFINE e == now - MaxAge
<1> HIDE DEF e
<1>6. /\ expiry' = [expiry EXCEPT ![t] = e] /\ e # Nothing
      /\ expiry' \in [Callers -> (-MaxAge .. MaxTime) \cup {Nothing}]
  BY <1>1, <1>2, <1>3 DEF e
<1>7. ASSUME NEW a \in Addresses, StartObtain(t, a)
      PROVE  CacheTypeOK' /\ CallsFit' /\ ServesItsCall'
  <2>1. /\ at[t] = "idle" /\ at' = [at EXCEPT ![t] = "obtain"]
        /\ call' = [call EXCEPT ![t] = a] /\ a # Nothing
    BY <1>2, <1>7 DEF StartObtain
  <2>2. client[t] = Nothing
    BY <2>1 DEF CacheInv, CallsFit
  <2>3. CacheTypeOK'
    BY <1>1, <1>2, <1>6, <2>1 DEF CacheInv, CacheTypeOK
  <2>4. CallsFit'
    BY <1>1, <1>2, <1>6, <2>1, <2>2 DEF CacheInv, CallsFit
  <2>5. ServesItsCall'
    BY <1>1, <1>2, <2>1, <2>2 DEF CacheInv, ServesItsCall
  <2>6. QED
    BY <2>3, <2>4, <2>5
<1>8. CASE Fail(t)
  <2>1. /\ at[t] \in {"create", "use"} /\ at' = [at EXCEPT ![t] = "invalidate"]
        /\ call' = call
    BY <1>8 DEF Fail
  <2>2. CacheTypeOK'
    BY <1>1, <1>2, <1>6, <2>1 DEF CacheInv, CacheTypeOK
  <2>3. CallsFit'
    BY <1>1, <1>2, <1>6, <2>1 DEF CacheInv, CallsFit
  <2>4. ServesItsCall'
    BY <1>1, <2>1 DEF CacheInv, ServesItsCall
  <2>5. QED
    BY <1>5, <2>2, <2>3, <2>4 DEF CacheInv
<1>9. QED
  BY <1>5, <1>7, <1>8 DEF CacheInv

-----------------------------------------------------------------------------
(***************************************************************************)
(* invalidate_entries() and store().                                       *)
(***************************************************************************)
LEMMA InvalidateLeaves ==
  ASSUME CacheInv, NEW t \in Callers, Invalidate(t)
  PROVE  /\ entries' \in Seq(Entry) /\ Len(entries') <= MaxCachesize
         /\ \A i, j \in DOMAIN entries' : entries'[i].client = entries'[j].client => i = j
         /\ NewestFirst' /\ InThePast'
         /\ Cached' = {c \in Cached \ Expired(expiry[t]) : address[c] # call[t]}
         /\ dead' = dead \cup ({client[t]} \ {Nothing}) \cup (Cached \ Cached')
<1> DEFINE x == expiry[t]
           a == call[t]
           failed == {client[t]} \ {Nothing}
           I == {i \in 1 .. FreshLength(x) : address[entries[i].client] # a}
<1>1. /\ DOMAIN Fresh(x) = 1 .. FreshLength(x) /\ Fresh(x) \in Seq(Entry) /\ Len(Fresh(x)) = FreshLength(x)
      /\ \A i \in 1 .. FreshLength(x) : Fresh(x)[i] = entries[i]
  BY FreshIsPrefix
<1>2. {i \in DOMAIN Fresh(x) : ~IsFor(Fresh(x)[i], a)} = I
  BY <1>1 DEF IsFor
<1>3. I \in SUBSET (1 .. Len(Fresh(x)))
  BY <1>1
<1> HIDE DEF I, x, a, failed
<1>4. entries' \in Seq(Entry) /\ Leaves(entries', Fresh(x), I)
  BY <1>1, <1>2, <1>3, AtPlacesLeaves DEF Invalidate, x, a
<1>5. Leaves(entries', entries, I) /\ I \in SUBSET Positions
  BY <1>1, <1>3, <1>4, LeftOfFresh, ExpiredAreTheRest
<1>6. /\ Len(entries') <= MaxCachesize
      /\ Cached' = {entries[i].client : i \in I}
      /\ \A i, j \in DOMAIN entries' : entries'[i].client = entries'[j].client => i = j
      /\ NewestFirst' /\ InThePast'
  BY <1>4, <1>5, WhatStaysInTheCache DEF Invalidate
<1>7. {entries[i].client : i \in I} =
        {c \in {entries[i].client : i \in 1 .. FreshLength(x)} : address[c] # a}
  BY DEF I
<1>8. Cached' = {c \in Cached \ Expired(x) : address[c] # a}
  BY <1>6, <1>7, ExpiredAreTheRest
<1>9. dead' = dead \cup Expired(x) \cup failed \cup {c \in Cached : address[c] = a}
  BY DEF Invalidate, x, a, failed
<1>10. dead' = dead \cup failed \cup (Cached \ Cached')
  BY <1>8, <1>9, ExpiredAreTheRest
<1>11. QED
  BY <1>4, <1>6, <1>8, <1>10 DEF x, a, failed

LEMMA FailureKeeps ==
  ASSUME CacheInv, NEW t \in Callers, Invalidate(t)
  PROVE  CacheInv' /\ \A c \in Cached' : address[c] # call[t]
<1> DEFINE failed == {client[t]} \ {Nothing}
<1>1. /\ at[t] = "invalidate" /\ at' = [at EXCEPT ![t] = "idle"]
      /\ call' = [call EXCEPT ![t] = Nothing]
      /\ expiry' = [expiry EXCEPT ![t] = Nothing]
      /\ client' = [client EXCEPT ![t] = Nothing]
      /\ UNCHANGED <<now, address>>
  BY DEF Invalidate
<1> HIDE DEF failed
<1>2. /\ address \in [Clients -> Addresses \cup {Nothing}]
      /\ call \in [Callers -> Addresses \cup {Nothing}] /\ dead \subseteq Clients
      /\ client \in [Callers -> Clients \cup {Nothing}] /\ now \in 0 .. MaxTime
      /\ at \in [Callers -> {"idle", "obtain", "create", "use", "invalidate"}]
      /\ expiry \in [Callers -> (-MaxAge .. MaxTime) \cup {Nothing}]
      /\ Cached \cap InUse = {} /\ (Cached \cup InUse) \cap dead = {}
      /\ Cached \cup InUse \cup dead = {d \in Clients : address[d] # Nothing}
  BY DEF CacheInv, CacheTypeOK, OneOwner
<1>3. /\ entries' \in Seq(Entry) /\ Len(entries') <= MaxCachesize
      /\ \A i, j \in DOMAIN entries' : entries'[i].client = entries'[j].client => i = j
      /\ NewestFirst' /\ InThePast'
      /\ Cached' = {c \in Cached \ Expired(expiry[t]) : address[c] # call[t]}
      /\ dead' = dead \cup failed \cup (Cached \ Cached')
  BY InvalidateLeaves DEF failed
<1>4. /\ InUse' = InUse \ {client[t]}
      /\ client[t] \in InUse \cup {Nothing}
      /\ client' \in [Callers -> Clients \cup {Nothing}]
      /\ \A u, v \in Callers : client'[u] # Nothing /\ client'[u] = client'[v] => u = v
  <2>1. /\ InUse' = (InUse \ {client[t]}) \cup ({Nothing} \ {Nothing})
        /\ client[t] \in InUse \cup {Nothing}
        /\ client' \in [Callers -> Clients \cup {Nothing}]
        /\ \A u, v \in Callers : client'[u] # Nothing /\ client'[u] = client'[v] => u = v
    <3>1. Nothing \in Clients \cup {Nothing}
      OBVIOUS
    <3>2. QED
      BY <1>1, <3>1, InUseAfter
  <2>2. QED
    BY <2>1
<1>5. failed \subseteq InUse /\ InUse' = InUse \ failed
  BY <1>4 DEF failed, InUse
<1>6. dead' \subseteq Clients
  BY <1>2, <1>3, <1>5
<1>7. CacheTypeOK'
  BY <1>1, <1>2, <1>3, <1>4, <1>6 DEF CacheTypeOK
<1>8. OneOwner'
  BY <1>1, <1>2, <1>3, <1>4, <1>5 DEF OneOwner
<1>9. ServesItsCall'
  BY <1>1, <1>2 DEF ServesItsCall, CacheInv
<1>10. CallsFit'
  BY <1>1, <1>2 DEF CallsFit, CacheInv
<1>11. QED
  BY <1>3, <1>7, <1>8, <1>9, <1>10 DEF CacheInv

LEMMA StoreKeeps ==
  ASSUME CacheInv, NEW t \in Callers, Store(t)
  PROVE  CacheInv'
<1> DEFINE e == [client |-> client[t], timestamp |-> now]
           stored == <<e>> \o entries
           n == Len(entries)
<1>0. /\ at[t] = "use" /\ at' = [at EXCEPT ![t] = "idle"] /\ expiry' = expiry
      /\ at \in [Callers -> {"idle", "obtain", "create", "use", "invalidate"}]
      /\ expiry \in [Callers -> (-MaxAge .. MaxTime) \cup {Nothing}]
      /\ client[t] # Nothing
  BY DEF Store, CacheInv, CacheTypeOK, CallsFit
<1>1. /\ client[t] # Nothing
      /\ IF n = MaxCachesize
           THEN entries' = Front(stored) /\ dead' = dead \cup {Last(stored).client}
           ELSE entries' = stored /\ dead' = dead
      /\ client' = [client EXCEPT ![t] = Nothing]
      /\ call' = [call EXCEPT ![t] = Nothing]
      /\ UNCHANGED <<now, address>>
  BY <1>0 DEF Store
<1>2. /\ entries \in Seq(Entry) /\ n <= MaxCachesize /\ n \in Nat /\ MaxCachesize \in Nat
      /\ address \in [Clients -> Addresses \cup {Nothing}]
      /\ call \in [Callers -> Addresses \cup {Nothing}] /\ dead \subseteq Clients
      /\ client \in [Callers -> Clients \cup {Nothing}] /\ now \in 0 .. MaxTime
      /\ Cached \cap InUse = {} /\ (Cached \cup InUse) \cap dead = {}
      /\ Cached \cup InUse \cup dead = {d \in Clients : address[d] # Nothing}
      /\ client[t] \in Clients /\ client[t] \in InUse
      /\ DOMAIN entries = 1 .. n
  BY <1>1, ClientCacheAssumption DEF CacheInv, CacheTypeOK, OneOwner, InUse
<1>3. e \in Entry /\ e.client = client[t] /\ e.timestamp = now
  BY <1>2 DEF Entry
<1> HIDE DEF e, n
<1>4. /\ stored \in Seq(Entry) /\ Len(stored) = n + 1 /\ stored[1] = e
      /\ \A i \in 1 .. n : stored[i + 1] = entries[i]
  BY <1>2, <1>3 DEF n
<1> HIDE DEF stored
<1>5. \A i \in 1 .. n + 1 : i = 1 \/ (i - 1 \in 1 .. n /\ stored[i] = entries[i - 1])
  <2>1. \A i \in 1 .. n + 1 : i = 1 \/ (i - 1 \in 1 .. n /\ i - 1 + 1 = i)
    BY <1>2
  <2>2. QED
    BY <1>4, <2>1
\* How many of what could be stored are stored.
<1> DEFINE k == IF n = MaxCachesize THEN n ELSE n + 1
<1>6. /\ entries' \in Seq(Entry) /\ Len(entries') = k /\ k \in Nat /\ k <= MaxCachesize
      /\ \A i \in 1 .. k : i \in 1 .. n + 1 /\ entries'[i] = stored[i]
      /\ dead' = dead \cup {stored[i].client : i \in k + 1 .. n + 1}
  <2>1. CASE n = MaxCachesize
    <3>1. entries' = SubSeq(stored, 1, n) /\ dead' = dead \cup {stored[n + 1].client}
      <4>1. Len(stored) - 1 = n
        BY <1>2, <1>4
      <4>2. QED
        BY <1>1, <1>4, <2>1, <4>1 DEF Front, Last
    <3>2. /\ entries' \in Seq(Entry) /\ Len(entries') = n
          /\ \A i \in 1 .. n : entries'[i] = stored[i]
      <4>1. n \in 0 .. Len(stored)
        BY <1>2, <1>4
      <4>2. QED
        BY <1>4, <3>1, <4>1, PrefixOf
    <3>3. n + 1 .. n + 1 = {n + 1}
      BY <1>2
    <3>4. {stored[i].client : i \in n + 1 .. n + 1} = {stored[n + 1].client}
      BY <3>3
    <3>5. k = n /\ \A i \in 1 .. n : i \in 1 .. n + 1
      BY <1>2, <2>1
    <3> HIDE DEF k
    <3>6. QED
      BY <1>2, <2>1, <3>1, <3>2, <3>4, <3>5
  <2>2. CASE n # MaxCachesize
    <3>1. n + 2 .. n + 1 = {} /\ k + 1 = n + 2 /\ k = n + 1
      BY <1>2, <2>2
    <3>2. {stored[i].client : i \in k + 1 .. n + 1} = {}
      BY <3>1
    <3> HIDE DEF k
    <3>3. QED
      BY <1>1, <1>2, <1>4, <2>2, <3>1, <3>2
  <2>3. QED
    BY <2>1, <2>2
<1>k. k = n \/ k = n + 1
  OBVIOUS
<1> HIDE DEF k
<1>7. /\ \A i, j \in 1 .. n + 1 : stored[i].client = stored[j].client => i = j
      /\ {stored[i].client : i \in 1 .. n + 1} = Cached \cup {client[t]}
      /\ \A i, j \in 1 .. n + 1 : i < j => stored[i].timestamp >= stored[j].timestamp
      /\ \A i \in 1 .. n + 1 : stored[i].timestamp <= now
  <2>1. /\ \A i \in 1 .. n : entries[i].client \in Cached /\ entries[i].client # client[t]
        /\ \A i, j \in 1 .. n : entries[i].client = entries[j].client => i = j
        /\ \A i \in 1 .. n : entries[i].timestamp <= now /\ entries[i].timestamp \in Nat
        /\ \A i, j \in 1 .. n : i < j => entries[i].timestamp >= entries[j].timestamp
    <3>1. \A i \in 1 .. n : entries[i] \in Entry
      BY <1>2 DEF n
    <3>2. \A i \in 1 .. n : entries[i].timestamp \in Nat
      BY <3>1 DEF Entry
    <3>3. QED
      BY <1>2, <3>2 DEF CacheInv, OneOwner, NewestFirst, InThePast, Cached
  <2>2. ASSUME NEW i \in 1 .. n + 1, NEW j \in 1 .. n + 1
        PROVE  /\ stored[i].client = stored[j].client => i = j
               /\ i < j => stored[i].timestamp >= stored[j].timestamp
               /\ stored[i].timestamp <= now
    <3>1. i \in Nat /\ j \in Nat /\ now \in Nat /\ (i - 1 = j - 1 => i = j) /\ (i < j => i - 1 < j - 1)
      BY <1>2
    <3>2. CASE i = 1 /\ j = 1
      BY <1>3, <1>4, <3>1, <3>2
    <3>3. CASE i = 1 /\ j # 1
      BY <1>3, <1>4, <1>5, <2>1, <3>1, <3>3
    <3>4. CASE i # 1 /\ j = 1
      <4>1. ~(i < j)
        BY <1>2, <3>4
      <4>2. QED
        BY <1>3, <1>4, <1>5, <2>1, <3>4, <4>1
    <3>5. CASE i # 1 /\ j # 1
      BY <1>5, <2>1, <3>1, <3>5
    <3>6. QED
      BY <3>2, <3>3, <3>4, <3>5
  <2>3. {stored[i].client : i \in 1 .. n + 1} = Cached \cup {client[t]}
    <3>1. \A i \in 1 .. n + 1 : stored[i].client \in Cached \cup {client[t]}
      BY <1>3, <1>4, <1>5, <2>1
    <3>2. 1 \in 1 .. n + 1 /\ \A i \in 1 .. n : i + 1 \in 1 .. n + 1
      BY <1>2
    <3>3. \A c \in Cached : \E i \in 1 .. n : entries[i].client = c
      BY <1>2 DEF Cached
    <3>4. QED
      BY <1>3, <1>4, <3>1, <3>2, <3>3
  <2>4. QED
    BY <2>2, <2>3
<1>8. /\ Cached' = {stored[i].client : i \in 1 .. k}
      /\ DOMAIN entries' = 1 .. k
  <2>1. DOMAIN entries' = 1 .. k
    BY <1>6
  <2>2. QED
    BY <1>6, <2>1 DEF Cached
<1>9. /\ Cached' \cup {stored[i].client : i \in k + 1 .. n + 1} = Cached \cup {client[t]}
      /\ Cached' \cap {stored[i].client : i \in k + 1 .. n + 1} = {}
  <2>1. /\ (1 .. k) \cup (k + 1 .. n + 1) = 1 .. n + 1
        /\ (1 .. k) \cap (k + 1 .. n + 1) = {}
    BY <1>2, <1>6, <1>k
  <2> DEFINE A == 1 .. k
             B == k + 1 .. n + 1
             C == 1 .. n + 1
  <2> HIDE DEF A, B, C
  <2>2. A \cup B = C /\ A \cap B = {}
    BY <2>1 DEF A, B, C
  <2>3. \A i, j \in C : stored[i].client = stored[j].client => i = j
    BY <1>7 DEF C
  <2>4. {stored[i].client : i \in A} \cap {stored[i].client : i \in B} = {}
    BY <2>2, <2>3
  <2>5. {stored[i].client : i \in A} \cup {stored[i].client : i \in B} = {stored[i].client : i \in C}
    BY <2>2
  <2>6. QED
    BY <1>7, <1>8, <2>4, <2>5 DEF A, B, C
<1>10. /\ InUse' = InUse \ {client[t]}
       /\ client' \in [Callers -> Clients \cup {Nothing}]
       /\ \A u, v \in Callers : client'[u] # Nothing /\ client'[u] = client'[v] => u = v
  BY <1>1, InUseAfter
<1>11. OneOwner'
  <2>1. \A i, j \in DOMAIN entries' : entries'[i].client = entries'[j].client => i = j
    BY <1>6, <1>7, <1>8
  <2>2. QED
    BY <1>1, <1>2, <1>6, <1>9, <1>10, <2>1 DEF OneOwner
<1>12. NewestFirst' /\ InThePast'
  BY <1>1, <1>6, <1>7, <1>8 DEF NewestFirst, InThePast
<1>13. CacheTypeOK'
  <2>1. dead' \subseteq Clients
    BY <1>2, <1>6, <1>9
  <2>2. QED
    BY <1>0, <1>1, <1>2, <1>6, <1>10, <2>1 DEF CacheTypeOK
<1>14. ServesItsCall'
  BY <1>1, <1>2 DEF ServesItsCall, CacheInv
<1>15. CallsFit'
  BY <1>0, <1>1, <1>2 DEF CallsFit, CacheInv
<1>16. QED
  BY <1>11, <1>12, <1>13, <1>14, <1>15 DEF CacheInv

-----------------------------------------------------------------------------
(***************************************************************************)
(* The inductive invariant.                                                *)
(***************************************************************************)
LEMMA StepsKeepInv ==
  ASSUME CacheInv, [CacheNext]_cacheVars
  PROVE  CacheInv'
<1>1. ASSUME NEW t \in Callers, (\E a \in Addresses : StartObtain(t, a)) \/ Obtain(t) PROVE CacheInv'
  BY <1>1, ObtainKeeps, LookAtClockKeeps
<1>2. ASSUME NEW t \in Callers, NEW c \in Clients, Create(t, c) PROVE CacheInv'
  BY <1>2, CreateKeeps
<1>3. ASSUME NEW t \in Callers, Store(t) \/ Fail(t) \/ Invalidate(t) PROVE CacheInv'
  BY <1>3, FailureKeeps, LookAtClockKeeps, StoreKeeps
<1>4. CASE Tick
  <2>1. /\ now < MaxTime /\ now' = now + 1 /\ now \in 0 .. MaxTime
        /\ UNCHANGED <<entries, address, at, call, expiry, client, dead>>
        /\ entries \in Seq(Entry)
    BY <1>4 DEF Tick, CacheInv, CacheTypeOK
  <2>2. now' \in 0 .. MaxTime
    BY <2>1, ClientCacheAssumption
  <2>3. \A i \in DOMAIN entries : entries[i].timestamp \in Nat
    <3>1. \A i \in DOMAIN entries : entries[i] \in Entry
      BY <2>1
    <3>2. QED
      BY <3>1 DEF Entry
  <2>4. InThePast'
    BY <2>1, <2>3 DEF CacheInv, InThePast
  <2>5. Cached' = Cached /\ InUse' = InUse
    BY <2>1 DEF Cached, InUse
  <2>6. CacheTypeOK'
    BY <2>1, <2>2 DEF CacheInv, CacheTypeOK
  <2>7. OneOwner' /\ NewestFirst' /\ CallsFit' /\ ServesItsCall'
    BY <2>1, <2>5 DEF CacheInv, OneOwner, NewestFirst, CallsFit, ServesItsCall
  <2>8. QED
    BY <2>4, <2>6, <2>7 DEF CacheInv
<1>5. CASE UNCHANGED cacheVars
  <2>1. Cached' = Cached /\ InUse' = InUse
    BY <1>5 DEF cacheVars, Cached, InUse
  <2>2. CacheTypeOK'
    BY <1>5 DEF cacheVars, CacheInv, CacheTypeOK
  <2>3. OneOwner' /\ NewestFirst' /\ InThePast' /\ CallsFit' /\ ServesItsCall'
    BY <1>5, <2>1 DEF cacheVars, CacheInv, OneOwner, NewestFirst, InThePast, CallsFit, ServesItsCall
  <2>4. QED
    BY <2>2, <2>3 DEF CacheInv
<1>6. QED
  BY <1>1, <1>2, <1>3, <1>4, <1>5 DEF CacheNext

(***************************************************************************)
(* Every connection has one owner, and the entries are sorted: whatever    *)
(* the threads do with the cache, no connection is used twice or lost.     *)
(***************************************************************************)
THEOREM CacheInvariance == CacheSpec => []CacheInv
<1>1. QED
  BY CacheInitInv, StepsKeepInv, PTL DEF CacheSpec

(***************************************************************************)
(* Of the connections to its server that are not too old for it, a call    *)
(* gets the one used last, whatever happens while it waits for the mutex.  *)
(***************************************************************************)
LEMMA ObtainFits ==
  ASSUME CacheInv, NEW t \in Callers, Obtain(t)
  PROVE  \/ Usable(t) = {} /\ client'[t] = Nothing
         \/ \E i \in Usable(t) :
              /\ client'[t] = entries[i].client
              /\ \A j \in Usable(t) : entries[j].timestamp <= entries[i].timestamp
<1>1. /\ client \in [Callers -> Clients \cup {Nothing}] /\ client[t] = Nothing
      /\ expiry[t] \in Int
      /\ DOMAIN entries = 1 .. Len(entries) /\ Len(entries) \in Nat
      /\ \A n \in DOMAIN entries : entries[n] \in Entry
  BY ClientCacheAssumption DEF Obtain, CacheInv, CacheTypeOK, CallsFit
<1>2. \A n \in DOMAIN entries : entries[n].timestamp \in Nat
  BY <1>1 DEF Entry
<1>3. FreshLength(expiry[t]) \in 0 .. Len(entries)
  BY FreshIsPrefix
<1>4. \A i \in Usable(t) : /\ i \in DOMAIN entries /\ i \in 1 .. FreshLength(expiry[t])
                           /\ address[entries[i].client] = call[t]
  BY <1>1, NewerIsFresh DEF Usable
<1>5. CASE /\ client' = client
           /\ \A i \in 1 .. FreshLength(expiry[t]) : address[entries[i].client] # call[t]
  BY <1>1, <1>4, <1>5
<1>6. ASSUME NEW pos \in 1 .. FreshLength(expiry[t]),
             address[entries[pos].client] = call[t], IsFresh(entries[pos], expiry[t]),
             \A i \in 1 .. FreshLength(expiry[t]) : address[entries[i].client] = call[t] => pos <= i,
             client' = [client EXCEPT ![t] = entries[pos].client]
      PROVE  /\ pos \in Usable(t) /\ client'[t] = entries[pos].client
             /\ \A j \in Usable(t) : entries[j].timestamp <= entries[pos].timestamp
  <2>1. pos \in DOMAIN entries
    BY <1>1, <1>3
  <2>2. pos \in Usable(t)
    BY <1>6, <2>1 DEF Usable, IsFresh
  <2>3. ASSUME NEW j \in Usable(t) PROVE entries[j].timestamp <= entries[pos].timestamp
    <3>1. j \in DOMAIN entries /\ j \in 1 .. FreshLength(expiry[t]) /\ pos <= j
      BY <1>4, <1>6
    <3>2. pos = j \/ pos < j
      BY <1>1, <2>1, <3>1
    <3>3. pos < j => entries[pos].timestamp >= entries[j].timestamp
      BY <2>1, <3>1 DEF CacheInv, NewestFirst
    <3>4. entries[pos].timestamp \in Nat /\ entries[j].timestamp \in Nat
      BY <1>2, <2>1, <3>1
    <3>5. QED
      BY <3>2, <3>3, <3>4
  <2>4. client'[t] = entries[pos].client
    BY <1>1, <1>6
  <2>5. QED
    BY <2>2, <2>3, <2>4
<1>7. \/ /\ client' = client
         /\ \A i \in 1 .. FreshLength(expiry[t]) : address[entries[i].client] # call[t]
      \/ \E pos \in 1 .. FreshLength(expiry[t]) :
           /\ address[entries[pos].client] = call[t] /\ IsFresh(entries[pos], expiry[t])
           /\ \A i \in 1 .. FreshLength(expiry[t]) : address[entries[i].client] = call[t] => pos <= i
           /\ client' = [client EXCEPT ![t] = entries[pos].client]
  BY ObtainFinds
<1>8. QED
  BY <1>5, <1>6, <1>7

\* Which step a thread takes from where it is.
LEMMA LeavesByItsOwnStep ==
  ASSUME CacheInv, CacheNext, NEW u \in Callers, at'[u] # at[u]
  PROVE  /\ at[u] = "obtain" => Obtain(u)
         /\ at[u] = "invalidate" => Invalidate(u)
<1>1. at \in [Callers -> {"idle", "obtain", "create", "use", "invalidate"}]
  BY DEF CacheInv, CacheTypeOK
<1>2. ASSUME NEW t \in Callers,
             \/ (\E a \in Addresses : StartObtain(t, a)) \/ Obtain(t)
             \/ (\E c \in Clients : Create(t, c)) \/ Store(t) \/ Fail(t) \/ Invalidate(t)
      PROVE  (at[u] = "obtain" => Obtain(u)) /\ (at[u] = "invalidate" => Invalidate(u))
  <2>1. \E label : at' = [at EXCEPT ![t] = label]
    BY <1>2, ObtainFinds DEF StartObtain, Create, Store, Fail, Invalidate
  <2>2. u = t
    BY <1>1, <2>1
  <2>3. /\ (\E a \in Addresses : StartObtain(t, a)) => at[t] = "idle"
        /\ (\E c \in Clients : Create(t, c)) => at[t] = "create"
        /\ Store(t) \/ Fail(t) => at[t] \in {"create", "use"}
        /\ Obtain(t) => at[t] = "obtain"
        /\ Invalidate(t) => at[t] = "invalidate"
    BY DEF StartObtain, Create, Store, Fail, Obtain, Invalidate
  <2>4. QED
    BY <1>2, <2>2, <2>3
<1>3. ~Tick
  BY DEF Tick
<1>4. QED
  BY <1>2, <1>3 DEF CacheNext

THEOREM ConnectionsFit == CacheSpec => FitsTheCall
<1> DEFINE Fits == \A t \in Callers :
       at[t] = "obtain" /\ at'[t] # "obtain" =>
         \/ Usable(t) = {} /\ client'[t] = Nothing
         \/ \E i \in Usable(t) :
              /\ client'[t] = entries[i].client
              /\ \A j \in Usable(t) : entries[j].timestamp <= entries[i].timestamp
<1>1. ASSUME CacheInv, [CacheNext]_cacheVars PROVE [Fits]_cacheVars
  <2>1. SUFFICES ASSUME CacheNext, NEW t \in Callers, at[t] = "obtain", at'[t] # "obtain"
                 PROVE  Obtain(t)
    BY <1>1, ObtainFits
  <2>2. QED
    BY <1>1, <2>1, LeavesByItsOwnStep
<1>2. QED
  BY <1>1, CacheInvariance, PTL DEF CacheSpec, FitsTheCall

(***************************************************************************)
(* No call after a failure gets a connection made before it to the server  *)
(* that failed, unless it was in use at that time.                         *)
(***************************************************************************)
THEOREM FailuresInvalidate == CacheSpec => FailureInvalidates
<1> DEFINE Clean == \A t \in Callers :
             at[t] = "invalidate" /\ at'[t] # "invalidate" => \A c \in Cached' : address[c] # call[t]
<1>1. ASSUME CacheInv, [CacheNext]_cacheVars PROVE [Clean]_cacheVars
  <2>1. SUFFICES ASSUME CacheNext, NEW t \in Callers, at[t] = "invalidate", at'[t] # "invalidate"
                 PROVE  \A c \in Cached' : address[c] # call[t]
    BY <1>1 DEF cacheVars
  <2>2. Invalidate(t)
    BY <1>1, <2>1, LeavesByItsOwnStep
  <2>3. QED
    BY <1>1, <2>2, FailureKeeps
<1>2. QED
  BY <1>1, CacheInvariance, PTL DEF CacheSpec, FailureInvalidates

-----------------------------------------------------------------------------
(***************************************************************************)
(* The log.  What a list of entries tells is counted along it.             *)
(***************************************************************************)
CountsUp(f, s, process, n) ==
  /\ f[0] = 0
  /\ \A k \in 1 .. n :
       f[k] = IF s[k].process = process THEN f[k - 1] + Log!Tells(s[k]) ELSE f[k - 1]

LEMMA TellsANumber ==
  ASSUME NEW e \in Log!Entries
  PROVE  Log!Tells(e) \in Nat
BY PartsTypes DEF Log!Tells, Log!Entries

LEMMA ToldCountsUp ==
  ASSUME NEW s \in Seq(Log!Entries), NEW process, NEW n \in 0 .. Len(s)
  PROVE  \E f \in [0 .. n -> Nat] : CountsUp(f, s, process, n) /\ Log!Told(s, process, n) = f[n]
<1> DEFINE F == [k \in 1 .. n |-> [v \in Nat |->
                   IF s[k].process = process THEN v + Log!Tells(s[k]) ELSE v]]
           Is(f) == f = [k \in 0 .. n |->
                           IF k = 0 THEN 0
                           ELSE IF s[k].process = process THEN f[k - 1] + Log!Tells(s[k])
                           ELSE f[k - 1]]
<1>1. n \in Nat /\ \A k \in 1 .. n : s[k] \in Log!Entries /\ Log!Tells(s[k]) \in Nat
  BY TellsANumber
<1>2. F \in [1 .. n -> [Nat -> Nat]]
  BY <1>1
<1>3. PICK f \in [0 .. n -> Nat] : f[0] = 0 /\ \A k \in 1 .. n : f[k] = F[k][f[k - 1]]
  <2> DEFINE V == Nat
             base == 0
  <2> HIDE DEF F
  <2>1. n \in Nat /\ base \in V /\ F \in [1 .. n -> [V -> V]]
    BY <1>1, <1>2
  <2> HIDE DEF V, base
  <2>2. \E f \in [0 .. n -> V] : Recursively(f, n, base, F)
    BY <2>1, FunctionByRecursion
  <2> QED BY <2>2 DEF V, base, Recursively
<1>4. Is(f)
  <2>1. ASSUME NEW k \in 0 .. n
        PROVE  f[k] = IF k = 0 THEN 0
                      ELSE IF s[k].process = process THEN f[k - 1] + Log!Tells(s[k])
                      ELSE f[k - 1]
    <3>1. CASE k = 0
      BY <1>3, <3>1
    <3>2. CASE k # 0
      <4>1. k \in 1 .. n /\ k - 1 \in 0 .. n
        BY <1>1, <3>2
      <4>2. f[k - 1] \in Nat
        BY <4>1
      <4>3. F[k][f[k - 1]] = IF s[k].process = process THEN f[k - 1] + Log!Tells(s[k]) ELSE f[k - 1]
        BY <4>1, <4>2
      <4>4. QED
        BY <1>3, <3>2, <4>1, <4>3
    <3>3. QED
      BY <3>1, <3>2
  <2>2. f = [k \in 0 .. n |-> f[k]]
    OBVIOUS
  <2>3. QED
    BY <2>1, <2>2
<1> DEFINE g == CHOOSE h : Is(h)
<1>5. Is(g)
  <2> HIDE DEF Is
  <2> QED BY <1>4
<1>6. Log!Told(s, process, n) = g[n]
  BY DEF Log!Told
<1> HIDE DEF g
<1>7. CountsUp(g, s, process, n)
  BY <1>1, <1>5 DEF CountsUp
<1>8. g \in [0 .. n -> Nat]
  <2> DEFINE D == {k \in Nat : k <= n => g[k] \in Nat}
  <2>1. 0 \in D
    BY <1>7 DEF CountsUp
  <2>2. ASSUME NEW k \in Nat, k \in D PROVE k + 1 \in D
    <3>1. SUFFICES ASSUME k + 1 <= n PROVE g[k + 1] \in Nat
      OBVIOUS
    <3>2. k + 1 \in 1 .. n /\ k + 1 - 1 = k /\ k <= n
      BY <1>1, <3>1
    <3>3. g[k] \in Nat
      BY <2>2, <3>2
    <3>4. g[k + 1] = IF s[k + 1].process = process THEN g[k] + Log!Tells(s[k + 1]) ELSE g[k]
      BY <1>7, <3>2 DEF CountsUp
    <3>5. Log!Tells(s[k + 1]) \in Nat
      BY <1>1, <3>2
    <3>6. QED
      BY <3>3, <3>4, <3>5
  <2>3. Nat \subseteq D
    <3> HIDE DEF D
    <3> QED BY <2>1, <2>2, SetInduction
  <2>4. \A k \in 0 .. n : g[k] \in Nat
    BY <1>1, <2>3
  <2>5. g = [k \in 0 .. n |-> g[k]]
    BY <1>5
  <2>6. QED
    BY <2>4, <2>5
<1>9. QED
  BY <1>6, <1>7, <1>8

LEMMA CountsAgree ==
  ASSUME NEW s \in Seq(Log!Entries), NEW t \in Seq(Log!Entries), NEW process,
         NEW m \in 0 .. Len(s), NEW n \in 0 .. Len(t), m <= n,
         \A k \in 1 .. m : s[k] = t[k],
         NEW f \in [0 .. m -> Nat], CountsUp(f, s, process, m),
         NEW g \in [0 .. n -> Nat], CountsUp(g, t, process, n)
  PROVE  f[m] = g[m]
<1> DEFINE D == {k \in Nat : k <= m => f[k] = g[k]}
<1>1. 0 \in D
  BY DEF CountsUp
<1>2. ASSUME NEW k \in Nat, k \in D PROVE k + 1 \in D
  <2>1. SUFFICES ASSUME k + 1 <= m PROVE f[k + 1] = g[k + 1]
    OBVIOUS
  <2>2. k + 1 \in 1 .. m /\ k + 1 \in 1 .. n /\ k + 1 - 1 = k /\ k <= m
    BY <2>1
  <2>3. f[k] = g[k] /\ s[k + 1] = t[k + 1]
    BY <1>2, <2>2
  <2>4. f[k + 1] = IF s[k + 1].process = process THEN f[k] + Log!Tells(s[k + 1]) ELSE f[k]
    BY <2>2 DEF CountsUp
  <2>5. g[k + 1] = IF t[k + 1].process = process THEN g[k] + Log!Tells(t[k + 1]) ELSE g[k]
    BY <2>2 DEF CountsUp
  <2>6. QED
    BY <2>3, <2>4, <2>5
<1>3. m \in Nat
  OBVIOUS
<1> HIDE DEF D
<1>4. m \in D
  BY <1>1, <1>2, <1>3, SetInduction
<1>5. QED
  BY <1>3, <1>4 DEF D

\* What the first n entries tell does not depend on what follows,
LEMMA SameTold ==
  ASSUME NEW s \in Seq(Log!Entries), NEW t \in Seq(Log!Entries), NEW process,
         NEW n \in 0 .. Len(s), n <= Len(t), \A k \in 1 .. n : s[k] = t[k]
  PROVE  /\ Log!Told(s, process, n) = Log!Told(t, process, n)
         /\ Log!ManyLost(s, process, n) <=> Log!ManyLost(t, process, n)
<1>1. n \in 0 .. Len(t) /\ n <= n
  OBVIOUS
<1>2. PICK f \in [0 .. n -> Nat] : CountsUp(f, s, process, n) /\ Log!Told(s, process, n) = f[n]
  BY ToldCountsUp
<1>3. PICK g \in [0 .. n -> Nat] : CountsUp(g, t, process, n) /\ Log!Told(t, process, n) = g[n]
  BY <1>1, ToldCountsUp
<1>4. f[n] = g[n]
  <2>1. \A k \in 1 .. n : s[k] = t[k]
    OBVIOUS
  <2>2. f \in [0 .. n -> Nat] /\ g \in [0 .. n -> Nat] /\ CountsUp(f, s, process, n) /\ CountsUp(g, t, process, n)
    BY <1>2, <1>3
  <2>3. QED
    BY <1>1, <2>1, <2>2, CountsAgree, SMTT(30)
<1>5. QED
  BY <1>2, <1>3, <1>4 DEF Log!ManyLost

\* and the next entry adds what it tells.
LEMMA ToldNext ==
  ASSUME NEW s \in Seq(Log!Entries), NEW process, NEW n \in 1 .. Len(s)
  PROVE  Log!Told(s, process, n) =
           IF s[n].process = process THEN Log!Told(s, process, n - 1) + Log!Tells(s[n])
           ELSE Log!Told(s, process, n - 1)
<1>1. n \in 0 .. Len(s) /\ n - 1 \in 0 .. Len(s) /\ n - 1 <= n /\ n - 1 \in 0 .. n
  OBVIOUS
<1>2. PICK f \in [0 .. n -> Nat] : CountsUp(f, s, process, n) /\ Log!Told(s, process, n) = f[n]
  BY <1>1, ToldCountsUp
<1>3. PICK g \in [0 .. n - 1 -> Nat] : CountsUp(g, s, process, n - 1) /\ Log!Told(s, process, n - 1) = g[n - 1]
  BY <1>1, ToldCountsUp
<1>4. g[n - 1] = f[n - 1]
  BY <1>1, <1>2, <1>3, CountsAgree
<1>5. QED
  BY <1>2, <1>3, <1>4 DEF CountsUp

LEMMA ToldIsANumber ==
  ASSUME NEW s \in Seq(Log!Entries), NEW process, NEW n \in 0 .. Len(s)
  PROVE  /\ Log!Told(s, process, n) \in Nat
         /\ (\A k \in 1 .. n : s[k].process # process \/ Log!Tells(s[k]) = 0) => Log!Told(s, process, n) = 0
<1>1. PICK f \in [0 .. n -> Nat] : CountsUp(f, s, process, n) /\ Log!Told(s, process, n) = f[n]
  BY ToldCountsUp
<1>2. ASSUME \A k \in 1 .. n : s[k].process # process \/ Log!Tells(s[k]) = 0
      PROVE  f[n] = 0
  <2> DEFINE D == {k \in Nat : k <= n => f[k] = 0}
  <2>1. 0 \in D
    BY <1>1 DEF CountsUp
  <2>2. ASSUME NEW k \in Nat, k \in D PROVE k + 1 \in D
    <3>1. SUFFICES ASSUME k + 1 <= n PROVE f[k + 1] = 0
      OBVIOUS
    <3>2. k + 1 \in 1 .. n /\ k + 1 - 1 = k /\ k <= n
      BY <3>1
    <3>3. f[k] = 0
      BY <2>2, <3>2
    <3>4. s[k + 1].process # process \/ Log!Tells(s[k + 1]) = 0
      BY <1>2, <3>2
    <3>5. QED
      BY <1>1, <3>2, <3>3, <3>4 DEF CountsUp
  <2>3. n \in Nat
    OBVIOUS
  <2> HIDE DEF D
  <2>4. n \in D
    BY <2>1, <2>2, <2>3, SetInduction
  <2>5. QED
    BY <2>3, <2>4 DEF D
<1>3. n \in 0 .. n
  OBVIOUS
<1>4. QED
  BY <1>1, <1>2, <1>3

-----------------------------------------------------------------------------
(***************************************************************************)
(* What the files hold together, from the oldest to the newest.            *)
(***************************************************************************)
Dir == [Log!Levels -> Seq(Log!Entries) \cup {Absent}]

Gathers(g, fs) ==
  /\ g[0] = <<>>
  /\ \A k \in 1 .. RotationDepth + 1 :
       g[k] = IF Log!NthOldest(fs, k) = Absent THEN g[k - 1] ELSE g[k - 1] \o Log!NthOldest(fs, k)

LEMMA FilesOf ==
  ASSUME NEW fs \in Dir
  PROVE  \A l \in Log!Levels : fs[l] # Absent => fs[l] \in Seq(Log!Entries)
BY DEF Dir

LEMMA LevelOf ==
  ASSUME NEW k \in 1 .. RotationDepth + 1
  PROVE  /\ RotationDepth + 1 - k \in Log!Levels /\ k - 1 \in 0 .. RotationDepth + 1
         /\ k \in 0 .. RotationDepth + 1
BY PartsTypes DEF Log!Levels

LEMMA NthIs == \A fs, k : Log!NthOldest(fs, k) = fs[RotationDepth + 1 - k]
BY DEF Log!NthOldest

LEMMA NthIsAt ==
  ASSUME NEW fs \in Dir
  PROVE  \A k \in 1 .. RotationDepth + 1 : Log!NthOldest(fs, k) = fs[RotationDepth + 1 - k]
BY NthIs, PartsTypes

LEMMA NthOldestIs ==
  ASSUME NEW fs \in Dir, NEW k \in 1 .. RotationDepth + 1
  PROVE  Log!NthOldest(fs, k) = Absent \/ Log!NthOldest(fs, k) \in Seq(Log!Entries)
BY LevelOf, FilesOf DEF Log!NthOldest

LEMMA GatheredTypes ==
  ASSUME NEW fs \in Dir, NEW V, NEW g \in [0 .. RotationDepth + 1 -> V], Gathers(g, fs)
  PROVE  g \in [0 .. RotationDepth + 1 -> Seq(Log!Entries)]
<1> DEFINE D == {k \in Nat : k <= RotationDepth + 1 => g[k] \in Seq(Log!Entries)}
<1>1. 0 \in D
  BY EmptySeq DEF Gathers
<1>2. ASSUME NEW k \in Nat, k \in D PROVE k + 1 \in D
  <2>1. SUFFICES ASSUME k + 1 <= RotationDepth + 1 PROVE g[k + 1] \in Seq(Log!Entries)
    OBVIOUS
  <2> DEFINE f == Log!NthOldest(fs, k + 1)
  <2>2. k + 1 \in 1 .. RotationDepth + 1 /\ k + 1 - 1 = k /\ k <= RotationDepth + 1
    BY <2>1, PartsTypes
  <2>3. g[k] \in Seq(Log!Entries)
    BY <1>2, <2>2
  <2>4. f = Absent \/ f \in Seq(Log!Entries)
    BY <2>2, NthOldestIs
  <2>5. g[k + 1] = IF f = Absent THEN g[k] ELSE g[k] \o f
    <3>1. g[k + 1] = IF f = Absent THEN g[k + 1 - 1] ELSE g[k + 1 - 1] \o f
      BY <2>2 DEF Gathers
    <3>2. QED
      BY <2>2, <3>1, Zenon
  <2> HIDE DEF f
  <2>6. QED
    BY <2>3, <2>4, <2>5
<1>3. Nat \subseteq D
  <2> HIDE DEF D
  <2> QED BY <1>1, <1>2, SetInduction
<1>4. \A k \in 0 .. RotationDepth + 1 : g[k] \in Seq(Log!Entries)
  BY <1>3, PartsTypes
<1>5. QED
  BY <1>4

LEMMA KeptIsGathered ==
  ASSUME NEW fs \in Dir
  PROVE  \E g \in [0 .. RotationDepth + 1 -> Seq(Log!Entries)] :
           Gathers(g, fs) /\ Log!KeptIn(fs) = g[RotationDepth + 1]
<1> DEFINE n == RotationDepth + 1
           V == Seq(Log!Entries)
           base == <<>>
           F == [k \in 1 .. n |-> [v \in V |->
                   IF Log!NthOldest(fs, k) = Absent THEN v ELSE v \o Log!NthOldest(fs, k)]]
           Is(f) == f = [k \in 0 .. n |->
                           IF k = 0 THEN <<>>
                           ELSE IF Log!NthOldest(fs, k) = Absent THEN f[k - 1]
                           ELSE f[k - 1] \o Log!NthOldest(fs, k)]
<1>1. n \in Nat /\ base \in V
  BY PartsTypes, EmptySeq
<1>2. F \in [1 .. n -> [V -> V]]
  <2>1. ASSUME NEW k \in 1 .. n, NEW v \in V
        PROVE  (IF Log!NthOldest(fs, k) = Absent THEN v ELSE v \o Log!NthOldest(fs, k)) \in V
    <3>1. Log!NthOldest(fs, k) = Absent \/ Log!NthOldest(fs, k) \in Seq(Log!Entries)
      BY NthOldestIs
    <3>2. QED
      BY <3>1
  <2>2. QED
    BY <2>1
<1>3. PICK f \in [0 .. n -> V] : f[0] = <<>> /\ \A k \in 1 .. n : f[k] = F[k][f[k - 1]]
  <2> HIDE DEF F, V, base, n
  <2>1. \E f \in [0 .. n -> V] : Recursively(f, n, base, F)
    BY <1>1, <1>2, FunctionByRecursion
  <2>2. QED
    BY <2>1 DEF base, Recursively
<1>4. \A k \in 1 .. n : f[k] = IF Log!NthOldest(fs, k) = Absent THEN f[k - 1] ELSE f[k - 1] \o Log!NthOldest(fs, k)
  <2>1. SUFFICES ASSUME NEW k \in 1 .. n
                 PROVE  f[k] = IF Log!NthOldest(fs, k) = Absent THEN f[k - 1] ELSE f[k - 1] \o Log!NthOldest(fs, k)
    OBVIOUS
  <2>2. f[k - 1] \in V
    BY LevelOf, <1>3
  <2>3. F[k][f[k - 1]] = IF Log!NthOldest(fs, k) = Absent THEN f[k - 1] ELSE f[k - 1] \o Log!NthOldest(fs, k)
    BY <2>2
  <2>4. QED
    BY <1>3, <2>3
<1>5. Is(f)
  <2> HIDE DEF F, V, n
  <2>1. \A k \in 0 .. n : k # 0 => k \in 1 .. n
    BY <1>1
  <2>2. f = [k \in 0 .. n |-> f[k]]
    OBVIOUS
  <2>3. QED
    BY <1>3, <1>4, <2>1, <2>2
<1> DEFINE g == CHOOSE h : Is(h)
<1>6. Is(g)
  <2> HIDE DEF Is
  <2> QED BY <1>5
<1>7. Log!KeptIn(fs) = g[n]
  BY DEF Log!KeptIn
<1> HIDE DEF g
<1>8. g = [k \in 0 .. n |-> g[k]] /\ Gathers(g, fs)
  <2>1. 0 \in 0 .. n /\ \A k \in 1 .. n : k \in 0 .. n /\ k # 0
    BY <1>1
  <2> HIDE DEF n, V, F
  <2>2. g = [k \in 0 .. n |-> g[k]]
    BY <1>6
  <2>3. g[0] = <<>>
    BY <1>6, <2>1
  <2>4. ASSUME NEW k \in 1 .. n
        PROVE  g[k] = IF Log!NthOldest(fs, k) = Absent THEN g[k - 1]
                      ELSE g[k - 1] \o Log!NthOldest(fs, k)
    BY <1>6, <2>1, Zenon
  <2>5. QED
    BY <2>2, <2>3, <2>4 DEF Gathers, n
<1>9. g \in [0 .. n -> {g[k] : k \in 0 .. n}]
  BY <1>8
<1>10. QED
  BY <1>7, <1>8, <1>9, GatheredTypes

LEMMA GatheredIsKept ==
  ASSUME NEW fs \in Dir, NEW h \in [0 .. RotationDepth + 1 -> Seq(Log!Entries)], Gathers(h, fs)
  PROVE  Log!KeptIn(fs) = h[RotationDepth + 1] /\ Log!KeptIn(fs) \in Seq(Log!Entries)
<1>1. PICK g \in [0 .. RotationDepth + 1 -> Seq(Log!Entries)] :
        Gathers(g, fs) /\ Log!KeptIn(fs) = g[RotationDepth + 1]
  BY KeptIsGathered
<1> DEFINE D == {k \in Nat : k <= RotationDepth + 1 => g[k] = h[k]}
<1>2. 0 \in D
  BY <1>1 DEF Gathers
<1>3. ASSUME NEW k \in Nat, k \in D PROVE k + 1 \in D
  <2>1. SUFFICES ASSUME k + 1 <= RotationDepth + 1 PROVE g[k + 1] = h[k + 1]
    OBVIOUS
  <2>2. k + 1 \in 1 .. RotationDepth + 1 /\ k + 1 - 1 = k /\ k <= RotationDepth + 1
    BY <2>1, PartsTypes
  <2>3. QED
    BY <1>1, <1>3, <2>2 DEF Gathers
<1>4. RotationDepth + 1 \in Nat /\ RotationDepth + 1 \in 0 .. RotationDepth + 1
  BY PartsTypes
<1> HIDE DEF D
<1>5. RotationDepth + 1 \in D
  BY <1>2, <1>3, <1>4, SetInduction
<1>6. QED
  BY <1>1, <1>4, <1>5 DEF D

LEMMA KeptIsASeq ==
  ASSUME NEW fs \in Dir
  PROVE  Log!KeptIn(fs) \in Seq(Log!Entries)
<1>1. RotationDepth + 1 \in 0 .. RotationDepth + 1
  BY PartsTypes
<1>2. QED
  BY <1>1, KeptIsGathered

\* A file that is appended to, or made, at the new end.
LEMMA AppendedIsKept ==
  ASSUME NEW fs \in Dir, fs[0] # Absent, NEW e \in Log!Entries, NEW fs2 \in Dir,
         fs2[0] = Append(fs[0], e), \A l \in Log!Levels : l # 0 => fs2[l] = fs[l]
  PROVE  Log!KeptIn(fs2) = Append(Log!KeptIn(fs), e)
<1> DEFINE n == RotationDepth + 1
<1>1. n \in Nat /\ n \in 1 .. n /\ n - 1 \in 0 .. n /\ 0 \in Log!Levels /\ n \in 0 .. n
  BY PartsTypes DEF Log!Levels
<1>2. fs[0] \in Seq(Log!Entries) /\ Append(fs[0], e) \in Seq(Log!Entries)
  BY <1>1, FilesOf
<1>4. PICK g \in [0 .. n -> Seq(Log!Entries)] : Gathers(g, fs) /\ Log!KeptIn(fs) = g[n]
  BY KeptIsGathered
<1> DEFINE h == [g EXCEPT ![n] = Append(g[n], e)]
<1>5. g[n] \in Seq(Log!Entries) /\ g[n - 1] \in Seq(Log!Entries)
  BY <1>1
<1>6. h \in [0 .. n -> Seq(Log!Entries)] /\ h[n] = Append(g[n], e) /\ \A k \in 0 .. n : k # n => h[k] = g[k]
  BY <1>1, <1>5
<1>7. /\ Log!NthOldest(fs, n) = fs[0] /\ Log!NthOldest(fs2, n) = Append(fs[0], e)
      /\ Append(fs[0], e) # Absent
      /\ \A k \in 1 .. n : k # n => Log!NthOldest(fs2, k) = Log!NthOldest(fs, k)
  <2>1. fs2[0] = Append(fs[0], e) /\ \A l \in Log!Levels : l # 0 => fs2[l] = fs[l]
    OBVIOUS
  <2>2. \A k \in 1 .. n : n - k \in Log!Levels /\ (k # n => n - k # 0) /\ n - n = 0
    BY PartsTypes DEF Log!Levels
  <2>3. Append(fs[0], e) # Absent
    BY <1>2, PartsTypes
  <2>4. \A k \in 1 .. n : Log!NthOldest(fs, k) = fs[n - k] /\ Log!NthOldest(fs2, k) = fs2[n - k]
    BY NthIsAt, PartsTypes
  <2> HIDE DEF n
  <2>5. Log!NthOldest(fs, n) = fs[0] /\ Log!NthOldest(fs2, n) = fs2[0]
    BY <1>1, <2>2, <2>4
  <2>6. \A k \in 1 .. n : k # n => fs2[n - k] = fs[n - k]
    BY <2>1, <2>2
  <2>7. QED
    BY <2>1, <2>3, <2>4, <2>5, <2>6
<1> HIDE DEF h
<1>8. g[n] = g[n - 1] \o fs[0]
  BY <1>1, <1>4, <1>7 DEF Gathers
<1>9. g[n - 1] \o Append(fs[0], e) = Append(g[n], e)
  <2>1. ASSUME NEW s \in Seq(Log!Entries), NEW t \in Seq(Log!Entries)
        PROVE  s \o Append(t, e) = Append(s \o t, e)
    OBVIOUS
  <2>2. QED
    BY <1>2, <1>5, <1>8, <2>1
<1>10. Gathers(h, fs2)
  <2>1. h[0] = <<>>
    BY <1>1, <1>4, <1>6, PartsTypes DEF Gathers
  <2>2. ASSUME NEW k \in 1 .. n
        PROVE  h[k] = IF Log!NthOldest(fs2, k) = Absent THEN h[k - 1]
                      ELSE h[k - 1] \o Log!NthOldest(fs2, k)
    <3>1. k \in 0 .. n /\ k - 1 \in 0 .. n /\ k - 1 # n
      BY <1>1
    <3>2. h[k - 1] = g[k - 1]
      BY <1>6, <3>1
    <3>3. CASE k = n
      BY <1>6, <1>7, <1>9, <3>2, <3>3
    <3>4. CASE k # n
      <4>1. g[k] = IF Log!NthOldest(fs, k) = Absent THEN g[k - 1]
                   ELSE g[k - 1] \o Log!NthOldest(fs, k)
        BY <1>4 DEF Gathers
      <4>2. h[k] = g[k] /\ Log!NthOldest(fs2, k) = Log!NthOldest(fs, k)
        BY <1>6, <1>7, <3>1, <3>4
      <4>3. QED
        BY <3>2, <4>1, <4>2
    <3>5. QED
      BY <3>3, <3>4
  <2>3. QED
    BY <2>1, <2>2 DEF Gathers
<1>11. QED
  BY <1>4, <1>6, <1>10, GatheredIsKept

LEMMA OpenedIsKept ==
  ASSUME NEW fs \in Dir, fs[0] = Absent, NEW fs2 \in Dir,
         fs2[0] = <<>>, \A l \in Log!Levels : l # 0 => fs2[l] = fs[l]
  PROVE  Log!KeptIn(fs2) = Log!KeptIn(fs)
<1> DEFINE n == RotationDepth + 1
<1>1. n \in Nat /\ n \in 1 .. n /\ n - 1 \in 0 .. n /\ 0 \in Log!Levels /\ n \in 0 .. n
  BY PartsTypes DEF Log!Levels
<1>2. <<>> \in Seq(Log!Entries)
  BY EmptySeq
<1>4. PICK g \in [0 .. n -> Seq(Log!Entries)] : Gathers(g, fs) /\ Log!KeptIn(fs) = g[n]
  BY KeptIsGathered
<1>5. /\ Log!NthOldest(fs, n) = Absent /\ Log!NthOldest(fs2, n) = <<>> /\ <<>> # Absent
      /\ \A k \in 1 .. n : k # n => Log!NthOldest(fs2, k) = Log!NthOldest(fs, k)
  <2>1. fs2[0] = <<>> /\ \A l \in Log!Levels : l # 0 => fs2[l] = fs[l]
    OBVIOUS
  <2>2. \A k \in 1 .. n : n - k \in Log!Levels /\ (k # n => n - k # 0) /\ n - n = 0
    BY PartsTypes DEF Log!Levels
  <2>3. <<>> # Absent
    BY <1>2, PartsTypes
  <2>4. \A k \in 1 .. n : Log!NthOldest(fs, k) = fs[n - k] /\ Log!NthOldest(fs2, k) = fs2[n - k]
    BY NthIsAt, PartsTypes
  <2> HIDE DEF n
  <2>5. Log!NthOldest(fs, n) = fs[0] /\ Log!NthOldest(fs2, n) = fs2[0]
    BY <1>1, <2>2, <2>4
  <2>6. \A k \in 1 .. n : k # n => fs2[n - k] = fs[n - k]
    BY <2>1, <2>2
  <2>7. QED
    BY <2>1, <2>3, <2>4, <2>5, <2>6
<1>6. g[n] = g[n - 1] /\ g[n - 1] \o <<>> = g[n - 1]
  <2>1. g[n] = g[n - 1]
    BY <1>1, <1>4, <1>5 DEF Gathers
  <2>2. g[n - 1] \in Seq(Log!Entries)
    BY <1>1
  <2>3. QED
    BY <2>1, <2>2, ConcatEmptySeq
<1>7. Gathers(g, fs2)
  <2>1. ASSUME NEW k \in 1 .. n
        PROVE  g[k] = IF Log!NthOldest(fs2, k) = Absent THEN g[k - 1]
                      ELSE g[k - 1] \o Log!NthOldest(fs2, k)
    <3>1. CASE k = n
      BY <1>5, <1>6, <3>1
    <3>2. CASE k # n
      <4>1. g[k] = IF Log!NthOldest(fs, k) = Absent THEN g[k - 1]
                   ELSE g[k - 1] \o Log!NthOldest(fs, k)
        BY <1>4 DEF Gathers
      <4>2. QED
        BY <1>5, <3>2, <4>1
    <3>3. QED
      BY <3>1, <3>2
  <2>2. QED
    BY <1>4, <2>1 DEF Gathers
<1>8. QED
  BY <1>4, <1>7, GatheredIsKept

LEMMA Associative ==
  ASSUME NEW r \in Seq(Log!Entries), NEW s \in Seq(Log!Entries), NEW t \in Seq(Log!Entries)
  PROVE  (r \o s) \o t = r \o (s \o t)
BY ConcatAssociative

\* The first step of a rotation deletes the oldest file,
OldestOf(fs) == IF fs[RotationDepth] = Absent THEN <<>> ELSE fs[RotationDepth]

LEMMA OldestIsASeq ==
  ASSUME NEW fs \in Dir
  PROVE  OldestOf(fs) \in Seq(Log!Entries)
BY FilesOf, EmptySeq, PartsTypes DEF OldestOf, Log!Levels

LEMMA DeletedIsGone ==
  ASSUME NEW fs \in Dir, NEW fs2 \in Dir,
         fs2[RotationDepth] = Absent, \A l \in Log!Levels : l # RotationDepth => fs2[l] = fs[l]
  PROVE  Log!KeptIn(fs) = OldestOf(fs) \o Log!KeptIn(fs2)
<1> DEFINE n == RotationDepth + 1
           d == OldestOf(fs)
<1>1. n \in Nat /\ 1 \in 1 .. n /\ 0 \in 0 .. n /\ n \in 0 .. n /\ 1 - 1 = 0 /\ n # 0
  BY PartsTypes
<1>2. PICK g \in [0 .. n -> Seq(Log!Entries)] : Gathers(g, fs) /\ Log!KeptIn(fs) = g[n]
  BY KeptIsGathered
<1>3. PICK h \in [0 .. n -> Seq(Log!Entries)] : Gathers(h, fs2) /\ Log!KeptIn(fs2) = h[n]
  BY KeptIsGathered
<1>4. /\ Log!NthOldest(fs, 1) = fs[RotationDepth] /\ Log!NthOldest(fs2, 1) = Absent
      /\ \A k \in 1 .. n : k # 1 => Log!NthOldest(fs2, k) = Log!NthOldest(fs, k)
  <2>1. \A k \in 1 .. n : n - k \in Log!Levels /\ (k # 1 => n - k # RotationDepth) /\ n - 1 = RotationDepth
    BY PartsTypes DEF Log!Levels
  <2>2. \A k \in 1 .. n : Log!NthOldest(fs, k) = fs[n - k] /\ Log!NthOldest(fs2, k) = fs2[n - k]
    BY NthIsAt, PartsTypes
  <2> HIDE DEF n
  <2>3. QED
    BY <1>1, <2>1, <2>2
<1>5. d \in Seq(Log!Entries) /\ d \o <<>> = d /\ <<>> \o d = d
  BY OldestIsASeq, ConcatEmptySeq
<1> DEFINE D == {k \in Nat : k <= RotationDepth => g[k + 1] = d \o h[k + 1]}
<1>6. 0 \in D
  <2>1. g[1] = IF fs[RotationDepth] = Absent THEN g[0] ELSE g[0] \o fs[RotationDepth]
    BY <1>1, <1>2, <1>4 DEF Gathers
  <2>2. h[1] = h[0] /\ h[0] = <<>> /\ g[0] = <<>>
    BY <1>1, <1>2, <1>3, <1>4 DEF Gathers
  <2>3. g[1] = d
    BY <1>5, <2>1, <2>2 DEF OldestOf
  <2>4. QED
    BY <1>5, <2>2, <2>3
<1>7. ASSUME NEW k \in Nat, k \in D PROVE k + 1 \in D
  <2>1. SUFFICES ASSUME k + 1 <= RotationDepth PROVE g[k + 1 + 1] = d \o h[k + 1 + 1]
    OBVIOUS
  <2> DEFINE j == k + 1 + 1
             f == Log!NthOldest(fs, j)
  <2>2. j \in 1 .. n /\ j # 1 /\ j - 1 = k + 1 /\ k <= RotationDepth /\ k + 1 \in 0 .. n
    BY <2>1, PartsTypes
  <2>3. g[k + 1] = d \o h[k + 1]
    BY <1>7, <2>2
  <2>4. f = Absent \/ f \in Seq(Log!Entries)
    BY <2>2, NthOldestIs
  <2> HIDE DEF j
  <2>5. g[j] = IF f = Absent THEN g[j - 1] ELSE g[j - 1] \o f
    BY <1>2, <2>2 DEF Gathers
  <2>6. h[j] = IF f = Absent THEN h[j - 1] ELSE h[j - 1] \o f
    <3>1. h[j] = IF Log!NthOldest(fs2, j) = Absent THEN h[j - 1] ELSE h[j - 1] \o Log!NthOldest(fs2, j)
      BY <1>3, <2>2 DEF Gathers
    <3>2. QED
      BY <1>4, <2>2, <3>1
  <2> HIDE DEF f, d
  <2>7. h[k + 1] \in Seq(Log!Entries)
    BY <2>2
  <2>8. f # Absent => (d \o h[k + 1]) \o f = d \o (h[k + 1] \o f)
    BY <1>5, <2>4, <2>7, Associative
  <2>9. g[j] = d \o h[j]
    BY <2>2, <2>3, <2>5, <2>6, <2>8
  <2>10. QED
    BY <2>9 DEF j
<1> HIDE DEF D
<1>8. RotationDepth \in D
  BY <1>6, <1>7, PartsTypes, SetInduction
<1>9. QED
  BY <1>2, <1>3, <1>8, PartsTypes DEF D

\* and each of the others gives a file the number that the step before has made free.
LEMMA RenamedIsKept ==
  ASSUME NEW fs \in Dir, NEW fs2 \in Dir, NEW i \in 0 .. RotationDepth - 1, fs[i + 1] = Absent,
         fs2[i + 1] = fs[i], fs2[i] = Absent,
         \A l \in Log!Levels : l # i /\ l # i + 1 => fs2[l] = fs[l]
  PROVE  Log!KeptIn(fs2) = Log!KeptIn(fs)
<1> DEFINE n == RotationDepth + 1
           m == RotationDepth - i
<1>1. /\ n \in Nat /\ m \in 1 .. n /\ m + 1 \in 1 .. n /\ m - 1 \in 0 .. n /\ m \in 0 .. n /\ n \in 0 .. n
      /\ m # 0 /\ m # m + 1 /\ m + 1 - 1 = m /\ m + 1 \in 0 .. n /\ m + 1 # m - 1 /\ m # m - 1 /\ 0 \in 0 .. n
  BY PartsTypes
<1>2. PICK g \in [0 .. n -> Seq(Log!Entries)] : Gathers(g, fs) /\ Log!KeptIn(fs) = g[n]
  BY KeptIsGathered
<1> DEFINE h == [g EXCEPT ![m] = g[m + 1]]
           f == fs[i]
<1>3. /\ Log!NthOldest(fs, m) = Absent /\ Log!NthOldest(fs2, m) = f
      /\ Log!NthOldest(fs, m + 1) = f /\ Log!NthOldest(fs2, m + 1) = Absent
      /\ \A k \in 1 .. n : k # m /\ k # m + 1 => Log!NthOldest(fs2, k) = Log!NthOldest(fs, k)
  <2>1. /\ n - m = i + 1 /\ n - (m + 1) = i
        /\ \A k \in 1 .. n : n - k \in Log!Levels /\ (k # m => n - k # i + 1) /\ (k # m + 1 => n - k # i)
    BY PartsTypes DEF Log!Levels
  <2>2. \A k \in 1 .. n : Log!NthOldest(fs, k) = fs[n - k] /\ Log!NthOldest(fs2, k) = fs2[n - k]
    <3>1. \A k \in 1 .. n : Log!NthOldest(fs, k) = fs[n - k]
      BY NthIsAt, PartsTypes
    <3>2. \A k \in 1 .. n : Log!NthOldest(fs2, k) = fs2[n - k]
      BY NthIsAt, PartsTypes
    <3>3. QED
      BY <3>1, <3>2
  <2> HIDE DEF n, m
  <2>3. QED
    BY <1>1, <2>1, <2>2
<1> HIDE DEF m, f
<1>4. /\ h \in [0 .. n -> Seq(Log!Entries)] /\ h[m] = g[m + 1] /\ \A k \in 0 .. n : k # m => h[k] = g[k]
  BY <1>1
<1> HIDE DEF h
<1>5. g[m] = g[m - 1] /\ g[m + 1] = IF f = Absent THEN g[m] ELSE g[m] \o f
  BY <1>1, <1>2, <1>3 DEF Gathers
<1>6. Gathers(h, fs2)
  <2>1. h[0] = <<>>
    BY <1>1, <1>2, <1>4 DEF Gathers
  <2>2. ASSUME NEW k \in 1 .. n
        PROVE  h[k] = IF Log!NthOldest(fs2, k) = Absent THEN h[k - 1]
                      ELSE h[k - 1] \o Log!NthOldest(fs2, k)
    <3>1. k \in 0 .. n /\ k - 1 \in 0 .. n
      BY <1>1
    <3>2. CASE k = m
      <4>1. h[m - 1] = g[m - 1]
        BY <1>1, <1>4
      <4>2. h[m] = IF f = Absent THEN h[m - 1] ELSE h[m - 1] \o f
        BY <1>4, <1>5, <4>1
      <4>3. QED
        BY <1>3, <3>2, <4>2
    <3>3. CASE k = m + 1
      BY <1>1, <1>3, <1>4, <3>3
    <3>4. CASE k # m /\ k # m + 1
      <4>1. k - 1 # m
        BY <1>1, <3>1, <3>4
      <4>2. h[k] = g[k] /\ h[k - 1] = g[k - 1] /\ Log!NthOldest(fs2, k) = Log!NthOldest(fs, k)
        BY <1>3, <1>4, <3>1, <3>4, <4>1
      <4>3. g[k] = IF Log!NthOldest(fs, k) = Absent THEN g[k - 1]
                   ELSE g[k - 1] \o Log!NthOldest(fs, k)
        BY <1>2 DEF Gathers
      <4>4. QED
        BY <4>2, <4>3
    <3>5. QED
      BY <3>2, <3>3, <3>4
  <2>3. QED
    BY <2>1, <2>2 DEF Gathers
<1>7. h[n] = g[n]
  BY <1>1, <1>4, <1>3
<1>8. QED
  BY <1>2, <1>4, <1>6, <1>7, GatheredIsKept

LEMMA RotateStepIs ==
  ASSUME NEW fs \in Dir, NEW step \in 1 .. RotationDepth + 1, NEW fs2, fs2 = Log!RotateStep(fs, step)
  PROVE  /\ fs2 \in Dir
         /\ step = 1 =>
              fs2[RotationDepth] = Absent /\ \A l \in Log!Levels : l # RotationDepth => fs2[l] = fs[l]
         /\ step # 1 /\ fs[RotationDepth - step + 1] = Absent => fs2 = fs
         /\ step # 1 /\ fs[RotationDepth - step + 1] # Absent =>
              LET i == RotationDepth - step + 1 IN
                /\ fs2[i + 1] = fs[i] /\ fs2[i] = Absent
                /\ \A l \in Log!Levels : l # i /\ l # i + 1 => fs2[l] = fs[l]
<1> DEFINE i == RotationDepth - step + 1
<1>1. CASE step = 1
  <2>1. fs2 = [fs EXCEPT ![RotationDepth] = Absent]
    BY <1>1 DEF Log!RotateStep
  <2>2. RotationDepth \in Log!Levels
    BY PartsTypes DEF Log!Levels
  <2>3. QED
    BY <1>1, <2>1, <2>2 DEF Dir
<1>2. CASE step # 1
  <2>1. i \in Log!Levels /\ i + 1 \in Log!Levels /\ i # i + 1
    BY <1>2, PartsTypes DEF Log!Levels
  <2>2. fs2 = IF fs[i] = Absent THEN fs ELSE [fs EXCEPT ![i + 1] = fs[i], ![i] = Absent]
    BY <1>2 DEF Log!RotateStep
  <2> HIDE DEF i
  <2>3. CASE fs[i] = Absent
    BY <1>2, <2>2, <2>3 DEF i
  <2>4. CASE fs[i] # Absent
    <3>1. fs2 = [fs EXCEPT ![i + 1] = fs[i], ![i] = Absent] /\ fs[i] \in Seq(Log!Entries)
      BY <2>1, <2>2, <2>4, FilesOf
    <3>2. /\ fs2 \in Dir /\ fs2[i + 1] = fs[i] /\ fs2[i] = Absent
          /\ \A l \in Log!Levels : l # i /\ l # i + 1 => fs2[l] = fs[l]
      BY <2>1, <3>1 DEF Dir
    <3>3. QED
      BY <1>2, <2>4, <3>2 DEF i
  <2>5. QED
    BY <2>3, <2>4
<1>3. QED
  BY <1>1, <1>2

LEMMA RotationGoesOn ==
  ASSUME NEW fs \in Dir, NEW n \in 0 .. RotationDepth + 1
  PROVE  \E f \in [0 .. n -> Dir] :
           /\ f[0] = fs /\ \A k \in 1 .. n : f[k] = Log!RotateStep(f[k - 1], k)
           /\ Log!AfterRotateSteps(fs, n) = f[n]
<1> DEFINE V == Dir
           F == [k \in 1 .. n |-> [v \in V |-> Log!RotateStep(v, k)]]
           Is(f) == f = [k \in 0 .. n |-> IF k = 0 THEN fs ELSE Log!RotateStep(f[k - 1], k)]
<1>1. /\ n \in Nat /\ 0 \in 0 .. n /\ n \in 0 .. n
      /\ \A k \in 1 .. n : k \in 1 .. RotationDepth + 1 /\ k - 1 \in 0 .. n /\ k \in 0 .. n /\ k # 0
  BY PartsTypes
<1>2. F \in [1 .. n -> [V -> V]]
  <2>1. ASSUME NEW k \in 1 .. n, NEW v \in V PROVE Log!RotateStep(v, k) \in V
    BY <1>1, RotateStepIs
  <2>2. QED
    BY <2>1
<1>3. PICK f \in [0 .. n -> V] : f[0] = fs /\ \A k \in 1 .. n : f[k] = F[k][f[k - 1]]
  <2> HIDE DEF F, V
  <2>1. fs \in V
    BY DEF V
  <2>2. \E f \in [0 .. n -> V] : Recursively(f, n, fs, F)
    BY <1>1, <1>2, <2>1, FunctionByRecursion
  <2>3. QED
    BY <2>2 DEF Recursively
<1>4. \A k \in 1 .. n : f[k] = Log!RotateStep(f[k - 1], k)
  BY <1>1, <1>3
<1>5. Is(f)
  <2>1. \A k \in 0 .. n : k # 0 => k \in 1 .. n
    BY <1>1
  <2>2. f = [k \in 0 .. n |-> f[k]]
    OBVIOUS
  <2>3. QED
    BY <1>3, <1>4, <2>1, <2>2
<1> DEFINE g == CHOOSE h : Is(h)
<1>6. Is(g)
  <2> HIDE DEF Is
  <2> QED BY <1>5
<1>7. Log!AfterRotateSteps(fs, n) = g[n]
  BY DEF Log!AfterRotateSteps
<1> HIDE DEF g
<1>0. g = [k \in 0 .. n |-> g[k]]
  BY <1>6
<1>8. g[0] = fs /\ \A k \in 1 .. n : g[k] = Log!RotateStep(g[k - 1], k)
  BY <1>1, <1>6
<1> DEFINE D == {k \in Nat : k <= n => g[k] \in Dir}
<1>9. 0 \in D
  BY <1>8
<1>10. ASSUME NEW k \in Nat, k \in D PROVE k + 1 \in D
  <2>1. SUFFICES ASSUME k + 1 <= n PROVE g[k + 1] \in Dir
    OBVIOUS
  <2>2. k + 1 \in 1 .. n /\ k + 1 - 1 = k /\ k <= n /\ k + 1 \in 1 .. RotationDepth + 1
    BY <1>1, <2>1, PartsTypes
  <2>3. g[k] \in Dir /\ g[k + 1] = Log!RotateStep(g[k], k + 1)
    <3>1. g[k + 1] = Log!RotateStep(g[k + 1 - 1], k + 1)
      BY <1>8, <2>2
    <3>2. QED
      BY <1>10, <2>2, <3>1
  <2>4. QED
    BY <2>2, <2>3, RotateStepIs
<1>11. Nat \subseteq D
  <2> HIDE DEF D
  <2> QED BY <1>9, <1>10, SetInduction
<1>12. \A k \in 0 .. n : g[k] \in Dir
  BY <1>1, <1>11
<1>13. g \in [0 .. n -> Dir]
  BY <1>0, <1>12
<1>14. QED
  BY <1>7, <1>8, <1>13

\* How far a rotation gets: no file is lost but the oldest, and the log file is the last to go.
RotatedSoFar(fs, fs2, steps) ==
  /\ \A l \in Log!Levels : fs2[l] # Absent => \E m \in Log!Levels : fs2[l] = fs[m]
  /\ steps = 0 => fs2 = fs
  /\ steps # 0 => /\ Log!KeptIn(fs) = OldestOf(fs) \o Log!KeptIn(fs2)
                  /\ fs2[RotationDepth - steps + 1] = Absent
  /\ steps <= RotationDepth => fs2[0] = fs[0]

LEMMA RotatesFurther ==
  ASSUME NEW fs \in Dir, NEW fs1 \in Dir, NEW k \in 0 .. RotationDepth, RotatedSoFar(fs, fs1, k)
  PROVE  RotatedSoFar(fs, Log!RotateStep(fs1, k + 1), k + 1)
<1> DEFINE fs2 == Log!RotateStep(fs1, k + 1)
           i == RotationDepth - (k + 1) + 1
<1>1. /\ k + 1 \in 1 .. RotationDepth + 1 /\ i = RotationDepth - k /\ i \in Log!Levels /\ i + 1 = RotationDepth - k + 1
      /\ k # 0 => i + 1 \in Log!Levels /\ i \in 0 .. RotationDepth - 1
      /\ k + 1 # 0 /\ (k + 1 = 1 <=> k = 0) /\ RotationDepth \in Log!Levels /\ 0 \in Log!Levels
      /\ k + 1 <= RotationDepth => k <= RotationDepth /\ i # 0 /\ i + 1 # 0 /\ RotationDepth # 0
  BY PartsTypes DEF Log!Levels
<1>2. fs2 = Log!RotateStep(fs1, k + 1)
  OBVIOUS
<1> HIDE DEF fs2, i
<1>3. /\ fs2 \in Dir
      /\ k = 0 => fs2[RotationDepth] = Absent /\ \A l \in Log!Levels : l # RotationDepth => fs2[l] = fs1[l]
      /\ k # 0 /\ fs1[i] = Absent => fs2 = fs1
      /\ k # 0 /\ fs1[i] # Absent =>
           /\ fs2[i + 1] = fs1[i] /\ fs2[i] = Absent
           /\ \A l \in Log!Levels : l # i /\ l # i + 1 => fs2[l] = fs1[l]
  BY <1>1, <1>2, RotateStepIs DEF i
<1>4. CASE k = 0
  <2>1. fs1 = fs /\ i = RotationDepth
    BY <1>1, <1>4, PartsTypes DEF RotatedSoFar
  <2>2. Log!KeptIn(fs) = OldestOf(fs) \o Log!KeptIn(fs2)
    BY <1>3, <1>4, <2>1, DeletedIsGone
  <2>3. k + 1 <= RotationDepth => fs2[0] = fs[0]
    BY <1>1, <1>3, <1>4, <2>1
  <2>4. \A l \in Log!Levels : fs2[l] # Absent => \E m \in Log!Levels : fs2[l] = fs[m]
    BY <1>3, <1>4, <2>1
  <2>5. QED
    BY <1>1, <1>2, <1>3, <1>4, <2>1, <2>2, <2>3, <2>4 DEF RotatedSoFar, i
<1>5. CASE k # 0 /\ fs1[i] = Absent
  <2>1. fs2 = fs1
    BY <1>3, <1>5
  <2>2. QED
    BY <1>1, <1>2, <1>5, <2>1 DEF RotatedSoFar, i
<1>6. CASE k # 0 /\ fs1[i] # Absent
  <2>1. fs1[i + 1] = Absent
    BY <1>1, <1>6 DEF RotatedSoFar
  <2>2. Log!KeptIn(fs2) = Log!KeptIn(fs1)
    BY <1>1, <1>3, <1>6, <2>1, RenamedIsKept
  <2>3. \A l \in Log!Levels : fs2[l] # Absent => \E m \in Log!Levels : fs2[l] = fs1[m]
    BY <1>1, <1>3, <1>6
  <2>4. \A l \in Log!Levels : fs2[l] # Absent => \E m \in Log!Levels : fs2[l] = fs[m]
    BY <2>3 DEF RotatedSoFar
  <2>5. k + 1 <= RotationDepth => fs2[0] = fs[0]
    BY <1>1, <1>3, <1>6 DEF RotatedSoFar
  <2>6. Log!KeptIn(fs) = OldestOf(fs) \o Log!KeptIn(fs2)
    BY <1>6, <2>2 DEF RotatedSoFar
  <2>7. QED
    BY <1>1, <1>2, <1>3, <1>6, <2>4, <2>5, <2>6 DEF RotatedSoFar, i
<1>7. QED
  BY <1>2, <1>4, <1>5, <1>6

LEMMA Rotation ==
  ASSUME NEW fs \in Dir, NEW n \in 0 .. RotationDepth + 1
  PROVE  Log!AfterRotateSteps(fs, n) \in Dir /\ RotatedSoFar(fs, Log!AfterRotateSteps(fs, n), n)
<1>1. PICK f \in [0 .. n -> Dir] :
        /\ f[0] = fs /\ \A k \in 1 .. n : f[k] = Log!RotateStep(f[k - 1], k)
        /\ Log!AfterRotateSteps(fs, n) = f[n]
  BY RotationGoesOn
<1> DEFINE D == {k \in Nat : k <= n => RotatedSoFar(fs, f[k], k)}
<1>2. 0 \in D
  BY <1>1 DEF RotatedSoFar
<1>3. ASSUME NEW k \in Nat, k \in D PROVE k + 1 \in D
  <2>1. SUFFICES ASSUME k + 1 <= n PROVE RotatedSoFar(fs, f[k + 1], k + 1)
    OBVIOUS
  <2>2. k + 1 \in 1 .. n /\ k + 1 - 1 = k /\ k <= n /\ k \in 0 .. RotationDepth /\ k \in 0 .. n
    BY <2>1, PartsTypes
  <2>3. f[k] \in Dir /\ RotatedSoFar(fs, f[k], k) /\ f[k + 1] = Log!RotateStep(f[k], k + 1)
    BY <1>1, <1>3, <2>2
  <2>4. QED
    BY <2>2, <2>3, RotatesFurther
<1>4. n \in Nat /\ n \in 0 .. n
  BY PartsTypes
<1>5. n \in D
  <2> HIDE DEF D
  <2> QED BY <1>2, <1>3, <1>4, SetInduction
<1>6. QED
  BY <1>1, <1>4, <1>5

-----------------------------------------------------------------------------
(***************************************************************************)
(* A log, whose reports are those of process r.                            *)
(***************************************************************************)
Logs == [files : Dir, rotate_reported : BOOLEAN, written : Seq(Log!Entries)]

InOrder(s, r) ==
  /\ \A i \in 1 .. Len(s) : s[i].process <= r
  /\ \A i, j \in 1 .. Len(s) : i < j /\ s[i].what = "rotating" => s[j].process > s[i].process

\* r has not written, in s, that the files are rotated.
NotNoticed(s, r) == \A i \in 1 .. Len(s) : ~(s[i].what = "rotating" /\ s[i].process = r)

EndOf(kept, s) ==
  /\ Len(kept) <= Len(s)
  /\ \A i \in 1 .. Len(kept) : kept[i] = s[Len(s) - Len(kept) + i]

LogKeeps(log, r) ==
  /\ log \in Logs
  /\ \A l \in Log!Levels : log.files[l] # Absent => InOrder(log.files[l], r)
  /\ EndOf(Log!KeptIn(log.files), log.written)

LogFits(log, r) ==
  /\ LogKeeps(log, r)
  /\ log.files[0] # Absent =>
       NotNoticed(log.files[0], r) \/ (log.rotate_reported /\ Len(log.files[0]) >= SizeLimit)

\* The log has a file to which an entry can be appended.
Appendable(log, r) == log.files[0] # Absent /\ NotNoticed(log.files[0], r)

EntryOf(e, r) == e \in Log!Entries /\ e.process = r
Noise(e) == e.what \in {"rotating", "part"}

\* w2 continues w with noise, and with e if that has been written.
Wrote(w, w2, r, ok, e) ==
  /\ Len(w) <= Len(w2)
  /\ \A i \in 1 .. Len(w) : w2[i] = w[i]
  /\ \A i \in Len(w) + 1 .. Len(w2) :
       w2[i].process = r /\ (Noise(w2[i]) \/ (ok /\ i = Len(w2) /\ w2[i] = e))
  /\ ok => Len(w) < Len(w2) /\ w2[Len(w2)] = e

\* What is in the files has grown by what is written, or the oldest file has been deleted.
Grew(log, log2) ==
  LET added == Len(log2.written) - Len(log.written) IN
    /\ Len(Log!KeptIn(log2.files)) = Len(Log!KeptIn(log.files)) + added
    /\ Len(OldestOf(log2.files)) = Len(OldestOf(log.files)) + (IF RotationDepth = 0 THEN added ELSE 0)

Rotated(log, log2) ==
  LET added == Len(log2.written) - Len(log.written)
      oldest == Len(OldestOf(log.files))
  IN \E n \in Nat :
       /\ Len(Log!KeptIn(log2.files)) = Len(Log!KeptIn(log.files)) + added - n
       /\ IF RotationDepth = 0 THEN oldest <= n /\ n <= oldest + added ELSE n = oldest

LEMMA ZeroIsALevel == 0 \in Log!Levels /\ RotationDepth \in Log!Levels
BY PartsTypes DEF Log!Levels

LEMMA AppendedIs ==
  ASSUME NEW log \in Logs, log.files[0] # Absent, NEW e \in Log!Entries,
         NEW log2, log2 = Log!Appended(log, e)
  PROVE  /\ log2 \in Logs
         /\ log2.files[0] = Append(log.files[0], e) /\ log2.files[0] # Absent
         /\ \A l \in Log!Levels : l # 0 => log2.files[l] = log.files[l]
         /\ log2.rotate_reported = log.rotate_reported
         /\ log2.written = Append(log.written, e)
<1> DEFINE fs == log.files
           s  == Append(fs[0], e)
<1>1. fs \in Dir /\ log.written \in Seq(Log!Entries) /\ log.rotate_reported \in BOOLEAN
  BY DEF Logs
<1>2. fs[0] \in Seq(Log!Entries) /\ s \in Seq(Log!Entries) /\ s # Absent
  <2>1. fs[0] \in Seq(Log!Entries)
    BY <1>1, ZeroIsALevel, FilesOf
  <2>2. s \in Seq(Log!Entries)
    BY <2>1
  <2>3. QED
    BY <2>1, <2>2, PartsTypes
<1>3. log2 = [log EXCEPT !.files = [fs EXCEPT ![0] = s], !.written = Append(log.written, e)]
  BY DEF Log!Appended
<1> HIDE DEF s
<1>4. [fs EXCEPT ![0] = s] \in Dir /\ [fs EXCEPT ![0] = s][0] = s
      /\ \A l \in Log!Levels : l # 0 => [fs EXCEPT ![0] = s][l] = fs[l]
  BY <1>1, <1>2, ZeroIsALevel DEF Dir
<1>5. log2.files = [fs EXCEPT ![0] = s] /\ log2.written = Append(log.written, e)
      /\ log2.rotate_reported = log.rotate_reported
      /\ log2 = [files |-> log2.files, rotate_reported |-> log2.rotate_reported, written |-> log2.written]
  BY <1>3 DEF Logs
<1>6. Append(log.written, e) \in Seq(Log!Entries)
  BY <1>1
<1>7. log2 \in Logs
  <2> HIDE DEF fs
  <2> QED BY <1>1, <1>4, <1>5, <1>6 DEF Logs
<1>8. QED
  BY <1>2, <1>4, <1>5, <1>7 DEF s

LEMMA OpenedIs ==
  ASSUME NEW log \in Logs, NEW log2, log2 = Log!Opened(log)
  PROVE  /\ log2 \in Logs
         /\ log.files[0] # Absent => log2 = log
         /\ log.files[0] = Absent => log2.files[0] = <<>>
         /\ log2.files[0] # Absent
         /\ \A l \in Log!Levels : l # 0 => log2.files[l] = log.files[l]
         /\ log2.rotate_reported = log.rotate_reported /\ log2.written = log.written
<1> DEFINE fs == log.files
<1>1. fs \in Dir /\ log.written \in Seq(Log!Entries) /\ log.rotate_reported \in BOOLEAN
  BY DEF Logs
<1>2. <<>> \in Seq(Log!Entries) /\ <<>> # Absent
  BY EmptySeq, PartsTypes
<1>3. CASE fs[0] # Absent
  <2>1. log2 = log
    BY <1>3 DEF Log!Opened
  <2>2. QED
    BY <1>3, <2>1
<1>4. CASE fs[0] = Absent
  <2>1. log2 = [log EXCEPT !.files = [fs EXCEPT ![0] = <<>>]]
    BY <1>4 DEF Log!Opened
  <2>2. [fs EXCEPT ![0] = <<>>] \in Dir /\ [fs EXCEPT ![0] = <<>>][0] = <<>>
        /\ \A l \in Log!Levels : l # 0 => [fs EXCEPT ![0] = <<>>][l] = fs[l]
    BY <1>1, <1>2, ZeroIsALevel DEF Dir
  <2>3. log2.files = [fs EXCEPT ![0] = <<>>] /\ log2.written = log.written
        /\ log2.rotate_reported = log.rotate_reported
        /\ log2 = [files |-> log2.files, rotate_reported |-> log2.rotate_reported, written |-> log2.written]
    BY <2>1 DEF Logs
  <2>4. QED
    BY <1>1, <1>2, <1>4, <2>2, <2>3 DEF Logs
<1>5. QED
  BY <1>3, <1>4

LEMMA RenamedIs ==
  ASSUME NEW log \in Logs, NEW fs2 \in Dir, NEW log2, log2 = [log EXCEPT !.files = fs2]
  PROVE  /\ log2 \in Logs /\ log2.files = fs2 /\ log2.written = log.written
         /\ log2.rotate_reported = log.rotate_reported
BY DEF Logs

LEMMA FlaggedIs ==
  ASSUME NEW log \in Logs, NEW b \in BOOLEAN, NEW log2, log2 = [log EXCEPT !.rotate_reported = b]
  PROVE  /\ log2 \in Logs /\ log2.files = log.files /\ log2.written = log.written
         /\ log2.rotate_reported = b
BY DEF Logs

LEMMA BackendReportIs ==
  ASSUME NEW log, NEW e, NEW o \in Log!BackendReport(log, e)
  PROVE  \E h \in Log!OpenLogHandle(log) : IF h.ok THEN o \in Log!WriteEntry(h.log, e) ELSE o = h
BY DEF Log!BackendReport, Log!Then

LEMMA WriteEntryIs ==
  ASSUME NEW log, NEW e, NEW o \in Log!WriteEntry(log, e)
  PROVE  \/ o.log = Log!Appended(log, e) /\ o.ok = TRUE
         \/ o.log = log /\ o.ok = FALSE
         \/ o.log = Log!Appended(log, Log!Entry("part", 0)) /\ o.ok = FALSE
BY DEF Log!WriteEntry, Log!Outcome

\* The notice is written, and the files are rotated if that has succeeded.
NoticesAndRotates(log, h) ==
  \E o \in Log!WriteEntry(log, Log!Entry("rotating", 0)) :
    IF o.ok THEN h \in Log!Rotate([o.log EXCEPT !.rotate_reported = TRUE]) ELSE h = o

LEMMA OpenLogHandleIs ==
  ASSUME NEW log, NEW h \in Log!OpenLogHandle(log), NEW opened, opened = Log!Opened(log)
  PROVE  \/ h.log = log /\ h.ok = FALSE
         \/ Len(opened.files[0]) < SizeLimit /\ h.log = opened /\ h.ok = TRUE
         \/ ~(Len(opened.files[0]) < SizeLimit) /\ opened.rotate_reported /\ h \in Log!Rotate(opened)
         \/ ~(Len(opened.files[0]) < SizeLimit) /\ ~opened.rotate_reported /\ NoticesAndRotates(opened, h)
BY DEF Log!OpenLogHandle, Log!Then, Log!Outcome, NoticesAndRotates

LEMMA RotateIs ==
  ASSUME NEW log, NEW h \in Log!Rotate(log)
  PROVE  \/ /\ \E n \in 0 .. RotationDepth :
                 h.log = [log EXCEPT !.files = Log!AfterRotateSteps(log.files, n)]
            /\ h.ok = FALSE
         \/ LET rotated == [[log EXCEPT !.files = Log!AfterRotateSteps(log.files, RotationDepth + 1)]
                              EXCEPT !.rotate_reported = FALSE]
            IN (h.log = rotated /\ h.ok = FALSE) \/ (h.log = Log!Opened(rotated) /\ h.ok = TRUE)
BY DEF Log!Rotate, Log!Outcome

LEMMA LogTypes ==
  ASSUME NEW log \in Logs
  PROVE  /\ log.files \in Dir /\ log.written \in Seq(Log!Entries) /\ log.rotate_reported \in BOOLEAN
         /\ Log!KeptIn(log.files) \in Seq(Log!Entries) /\ OldestOf(log.files) \in Seq(Log!Entries)
         /\ Len(log.written) \in Nat /\ Len(Log!KeptIn(log.files)) \in Nat /\ Len(OldestOf(log.files)) \in Nat
         /\ log.files[0] # Absent => log.files[0] \in Seq(Log!Entries) /\ Len(log.files[0]) \in Nat
<1>1. log.files \in Dir /\ log.written \in Seq(Log!Entries) /\ log.rotate_reported \in BOOLEAN
  BY DEF Logs
<1>2. Log!KeptIn(log.files) \in Seq(Log!Entries) /\ OldestOf(log.files) \in Seq(Log!Entries)
  BY <1>1, KeptIsASeq, OldestIsASeq
<1>3. log.files[0] # Absent => log.files[0] \in Seq(Log!Entries)
  BY <1>1, FilesOf, ZeroIsALevel
<1>4. QED
  BY <1>1, <1>2, <1>3

LEMMA OpeningFits ==
  ASSUME NEW r, NEW log, LogFits(log, r), NEW log2, log2 = Log!Opened(log)
  PROVE  LogFits(log2, r) /\ Grew(log, log2) /\ log2.written = log.written /\ log2.files[0] # Absent
<1>1. log \in Logs
  BY DEF LogFits, LogKeeps
<1>2. CASE log.files[0] # Absent
  <2>1. log2 = log
    BY <1>1, <1>2, OpenedIs
  <2>2. QED
    BY <1>1, <1>2, <2>1, LogTypes DEF LogFits, Grew
<1>3. CASE log.files[0] = Absent
  <2>1. /\ log2 \in Logs /\ log2.files[0] = <<>> /\ log2.files[0] # Absent
        /\ \A l \in Log!Levels : l # 0 => log2.files[l] = log.files[l]
        /\ log2.written = log.written
    BY <1>1, <1>3, OpenedIs
  <2>2. Log!KeptIn(log2.files) = Log!KeptIn(log.files)
    BY <1>1, <1>3, <2>1, LogTypes, OpenedIsKept
  <2>3. OldestOf(log2.files) = OldestOf(log.files)
    BY <1>3, <2>1, ZeroIsALevel DEF OldestOf
  <2>4. Len(<<>>) = 0 /\ \A i \in 1 .. 0 : FALSE
    OBVIOUS
  <2>5. InOrder(log2.files[0], r) /\ NotNoticed(log2.files[0], r)
    BY <2>1, <2>4 DEF InOrder, NotNoticed
  <2>6. LogKeeps(log2, r)
    BY <2>1, <2>2, <2>5 DEF LogKeeps, LogFits
  <2>7. Grew(log, log2)
    BY <1>1, <2>1, <2>2, <2>3, LogTypes DEF Grew
  <2>8. QED
    BY <2>1, <2>5, <2>6, <2>7 DEF LogFits
<1>4. QED
  BY <1>2, <1>3

LEMMA AppendingIsInOrder ==
  ASSUME NEW r \in Nat, NEW s \in Seq(Log!Entries), InOrder(s, r), NotNoticed(s, r),
         NEW e, EntryOf(e, r), NEW s2, s2 = Append(s, e)
  PROVE  /\ InOrder(s2, r) /\ Len(s2) = Len(s) + 1
         /\ e.what # "rotating" => NotNoticed(s2, r)
<1>1. /\ Len(s2) = Len(s) + 1 /\ s2[Len(s) + 1] = e /\ \A i \in 1 .. Len(s) : s2[i] = s[i]
      /\ Len(s) \in Nat
  BY DEF EntryOf
<1>2. \A i \in 1 .. Len(s) : s[i].process \in Nat
  <2>1. \A i \in 1 .. Len(s) : s[i] \in Log!Entries
    OBVIOUS
  <2>2. QED
    <3>1. \A x \in Log!Entries : x.process \in 0 .. MaxRestarts
      BY DEF Log!Entries
    <3>2. QED
      BY <2>1, <3>1
<1>3. e.process = r
  BY DEF EntryOf
<1>4. \A i \in 1 .. Len(s2) : i \in 1 .. Len(s) \/ i = Len(s) + 1
  BY <1>1
<1>5. \A i \in 1 .. Len(s2) : s2[i].process <= r
  BY <1>1, <1>3, <1>4 DEF InOrder
<1>6. ASSUME NEW i \in 1 .. Len(s2), NEW j \in 1 .. Len(s2), i < j, s2[i].what = "rotating"
      PROVE  s2[j].process > s2[i].process
  <2>1. i \in 1 .. Len(s) /\ s[i].what = "rotating" /\ s2[i] = s[i]
    BY <1>1, <1>6
  <2>2. CASE j \in 1 .. Len(s)
    BY <1>1, <1>6, <2>1, <2>2 DEF InOrder
  <2>3. CASE j = Len(s) + 1
    <3>1. s2[j].process = r
      BY <1>1, <1>3, <2>3
    <3>2. s[i].process <= r /\ s[i].process # r
      BY <2>1 DEF InOrder, NotNoticed
    <3>3. QED
      BY <1>2, <2>1, <3>1, <3>2
  <2>4. QED
    BY <1>4, <2>2, <2>3
<1>7. e.what # "rotating" => NotNoticed(s2, r)
  BY <1>1, <1>4 DEF NotNoticed
<1>8. QED
  BY <1>1, <1>5, <1>6, <1>7 DEF InOrder

LEMMA AppendingKeeps ==
  ASSUME NEW r \in Nat, NEW log, LogKeeps(log, r), Appendable(log, r), NEW e, EntryOf(e, r),
         NEW log2, log2 = Log!Appended(log, e)
  PROVE  /\ LogKeeps(log2, r) /\ Grew(log, log2)
         /\ log2.rotate_reported = log.rotate_reported
         /\ log2.files[0] # Absent /\ Len(log2.files[0]) = Len(log.files[0]) + 1
         /\ e.what # "rotating" => NotNoticed(log2.files[0], r)
<1>1. log \in Logs /\ log.files[0] # Absent /\ e \in Log!Entries /\ e.process = r
  BY DEF LogKeeps, Appendable, EntryOf
<1>2. /\ log2 \in Logs
      /\ log2.files[0] = Append(log.files[0], e) /\ log2.files[0] # Absent
      /\ \A l \in Log!Levels : l # 0 => log2.files[l] = log.files[l]
      /\ log2.rotate_reported = log.rotate_reported
      /\ log2.written = Append(log.written, e)
  BY <1>1, AppendedIs
<1> DEFINE s == log.files[0]
           w == log.written
           kept == Log!KeptIn(log.files)
           w2 == log2.written
           kept2 == Log!KeptIn(log2.files)
<1>3. /\ s \in Seq(Log!Entries) /\ w \in Seq(Log!Entries) /\ kept \in Seq(Log!Entries)
      /\ InOrder(s, r) /\ NotNoticed(s, r)
      /\ Len(w) \in Nat /\ Len(kept) \in Nat /\ Len(s) \in Nat
  BY <1>1, LogTypes, ZeroIsALevel DEF LogKeeps, Appendable
<1>4. /\ InOrder(log2.files[0], r) /\ Len(log2.files[0]) = Len(s) + 1
      /\ e.what # "rotating" => NotNoticed(log2.files[0], r)
  BY <1>2, <1>3, AppendingIsInOrder
<1>5. kept2 = Append(kept, e)
  BY <1>1, <1>2, LogTypes, AppendedIsKept
<1>6. /\ Len(w2) = Len(w) + 1 /\ w2[Len(w) + 1] = e /\ \A i \in 1 .. Len(w) : w2[i] = w[i]
      /\ Len(kept2) = Len(kept) + 1 /\ kept2[Len(kept) + 1] = e /\ \A i \in 1 .. Len(kept) : kept2[i] = kept[i]
  BY <1>1, <1>2, <1>3, <1>5
<1>7. EndOf(kept2, w2)
  <2>1. Len(kept) <= Len(w) /\ \A i \in 1 .. Len(kept) : kept[i] = w[Len(w) - Len(kept) + i]
    BY DEF LogKeeps, EndOf
  <2> HIDE DEF w, kept, w2, kept2
  <2>2. Len(w2) - Len(kept2) = Len(w) - Len(kept)
    BY <1>3, <1>6
  <2>3. ASSUME NEW i \in 1 .. Len(kept2) PROVE kept2[i] = w2[Len(w) - Len(kept) + i]
    <3>1. CASE i \in 1 .. Len(kept)
      BY <1>3, <1>6, <2>1, <3>1
    <3>2. CASE i = Len(kept) + 1
      BY <1>3, <1>6, <2>1, <3>2
    <3>3. QED
      BY <1>3, <1>6, <3>1, <3>2
  <2>4. Len(kept2) <= Len(w2)
    BY <1>3, <1>6, <2>1
  <2>5. \A i \in 1 .. Len(kept2) : kept2[i] = w2[Len(w2) - Len(kept2) + i]
    BY <2>2, <2>3
  <2>6. QED
    BY <2>4, <2>5 DEF EndOf
<1>8. LogKeeps(log2, r)
  BY <1>2, <1>4, <1>7 DEF LogKeeps
<1>9. Grew(log, log2)
  <2>1. RotationDepth # 0 => OldestOf(log2.files) = OldestOf(log.files)
    BY <1>2, ZeroIsALevel DEF OldestOf
  <2>2. RotationDepth = 0 => OldestOf(log2.files) = log2.files[0] /\ OldestOf(log.files) = s
    BY <1>1, <1>2 DEF OldestOf
  <2>3. Len(OldestOf(log.files)) \in Nat
    BY <1>1, LogTypes
  <2> HIDE DEF w, kept, w2, kept2, s
  <2>4. Len(w2) - Len(w) = 1
    BY <1>3, <1>6
  <2>5. Len(kept2) = Len(kept) + 1
    BY <1>6
  <2>6. Len(OldestOf(log2.files)) = Len(OldestOf(log.files)) + (IF RotationDepth = 0 THEN 1 ELSE 0)
    BY <1>4, <2>1, <2>2, <2>3
  <2>7. QED
    BY <2>4, <2>5, <2>6 DEF Grew, w, w2, kept, kept2
<1>10. QED
  BY <1>2, <1>4, <1>8, <1>9

LEMMA AppendingWrites ==
  ASSUME NEW r, NEW log \in Logs, log.files[0] # Absent, NEW e, EntryOf(e, r),
         NEW log2, log2 = Log!Appended(log, e)
  PROVE  /\ Wrote(log.written, log2.written, r, TRUE, e)
         /\ Noise(e) => Wrote(log.written, log2.written, r, FALSE, Absent)
<1> DEFINE w == log.written
           w2 == log2.written
<1>1. w2 = Append(w, e) /\ e \in Log!Entries /\ w \in Seq(Log!Entries) /\ e.process = r
  BY AppendedIs, LogTypes DEF EntryOf
<1> HIDE DEF w, w2
<1>2. /\ Len(w) \in Nat /\ Len(w2) = Len(w) + 1
      /\ w2[Len(w) + 1] = e /\ \A i \in 1 .. Len(w) : w2[i] = w[i]
  BY <1>1
<1>3. Wrote(w, w2, r, TRUE, e) /\ (Noise(e) => Wrote(w, w2, r, FALSE, Absent))
  BY <1>1, <1>2 DEF Wrote
<1>4. QED
  BY <1>3 DEF w, w2

LEMMA WroteNothing ==
  ASSUME NEW r, NEW w, Len(w) \in Nat
  PROVE  Wrote(w, w, r, FALSE, Absent)
BY DEF Wrote

\* Files that are renamed, as far as a rotation gets.
LEMMA RotatingKeeps ==
  ASSUME NEW r, NEW log, LogKeeps(log, r), NEW n \in 0 .. RotationDepth + 1,
         NEW log2 \in Logs, log2.files = Log!AfterRotateSteps(log.files, n), log2.written = log.written
  PROVE  /\ LogKeeps(log2, r)
         /\ IF n = 0 THEN Grew(log, log2) ELSE Rotated(log, log2)
         /\ n <= RotationDepth => log2.files[0] = log.files[0]
         /\ n = RotationDepth + 1 => log2.files[0] = Absent
<1> DEFINE fs == log.files
           fs2 == log2.files
           w == log.written
           kept == Log!KeptIn(fs)
           kept2 == Log!KeptIn(fs2)
           d == OldestOf(fs)
<1>1. /\ log \in Logs /\ EndOf(kept, w) /\ \A l \in Log!Levels : fs[l] # Absent => InOrder(fs[l], r)
  BY DEF LogKeeps
<1>2. /\ fs \in Dir /\ w \in Seq(Log!Entries) /\ kept \in Seq(Log!Entries) /\ d \in Seq(Log!Entries)
      /\ Len(w) \in Nat /\ Len(kept) \in Nat /\ Len(d) \in Nat
      /\ fs2 \in Dir /\ kept2 \in Seq(Log!Entries) /\ Len(kept2) \in Nat
  BY <1>1, LogTypes
<1>3. RotatedSoFar(fs, fs2, n)
  BY <1>2, Rotation
<1>4. \A l \in Log!Levels : fs2[l] # Absent => InOrder(fs2[l], r)
  BY <1>1, <1>3 DEF RotatedSoFar
<1>5. CASE n = 0
  <2>1. fs2 = fs
    BY <1>3, <1>5 DEF RotatedSoFar
  <2>2. LogKeeps(log2, r)
    BY <1>1, <2>1 DEF LogKeeps
  <2>3. Grew(log, log2)
    BY <1>2, <2>1 DEF Grew
  <2>4. n # RotationDepth + 1
    BY <1>5, PartsTypes
  <2>5. QED
    BY <1>5, <2>1, <2>2, <2>3, <2>4
<1>6. CASE n # 0
  <2>1. kept = d \o kept2
    BY <1>3, <1>6 DEF RotatedSoFar
  <2>2. Len(kept) = Len(d) + Len(kept2) /\ \A i \in 1 .. Len(kept2) : kept[Len(d) + i] = kept2[i]
    BY <1>2, <2>1
  <2> HIDE DEF w, kept, kept2, d
  <2>3. EndOf(kept2, w)
    <3>1. Len(kept) <= Len(w) /\ \A i \in 1 .. Len(kept) : kept[i] = w[Len(w) - Len(kept) + i]
      BY <1>1 DEF EndOf
    <3>2. ASSUME NEW i \in 1 .. Len(kept2) PROVE kept2[i] = w[Len(w) - Len(kept2) + i]
      <4>1. Len(d) + i \in 1 .. Len(kept) /\ Len(w) - Len(kept) + (Len(d) + i) = Len(w) - Len(kept2) + i
        BY <1>2, <2>2
      <4>2. kept[Len(d) + i] = w[Len(w) - Len(kept) + (Len(d) + i)]
        BY <3>1, <4>1
      <4>3. QED
        BY <2>2, <4>1, <4>2
    <3>3. QED
      BY <1>2, <2>2, <3>1, <3>2 DEF EndOf
  <2>4. LogKeeps(log2, r)
    BY <1>4, <2>3 DEF LogKeeps, w, kept2
  <2>5. Rotated(log, log2)
    <3>1. Len(kept2) = Len(kept) + 0 - Len(d)
      BY <1>2, <2>2
    <3>2. Len(w) - Len(w) = 0
      BY <1>2
    <3>3. Len(kept2) = Len(kept) + (Len(w) - Len(w)) - Len(d)
      BY <3>1, <3>2
    <3>4. Len(d) <= Len(d) /\ Len(d) <= Len(d) + (Len(w) - Len(w))
      BY <1>2
    <3>5. QED
      BY <1>2, <3>3, <3>4 DEF Rotated, w, kept, kept2, d
  <2>6. n <= RotationDepth => log2.files[0] = log.files[0]
    BY <1>3 DEF RotatedSoFar
  <2>7. n = RotationDepth + 1 => RotationDepth - n + 1 = 0
    BY PartsTypes
  <2>8. n = RotationDepth + 1 => log2.files[0] = Absent
    BY <1>3, <1>6, <2>7 DEF RotatedSoFar
  <2>9. QED
    BY <1>6, <2>4, <2>5, <2>6, <2>8
<1>7. QED
  BY <1>5, <1>6

LEMMA RotateFits ==
  ASSUME NEW r, NEW log, LogFits(log, r), NEW h \in Log!Rotate(log)
  PROVE  /\ LogFits(h.log, r) /\ h.log.written = log.written /\ h.ok \in BOOLEAN
         /\ h.ok => h.log.files[0] # Absent /\ Len(h.log.files[0]) = 0 /\ NotNoticed(h.log.files[0], r)
         /\ (Grew(log, h.log) /\ ~h.ok) \/ Rotated(log, h.log)
<1>1. log \in Logs /\ LogKeeps(log, r)
  BY DEF LogFits, LogKeeps
<1> DEFINE After(n) == [log EXCEPT !.files = Log!AfterRotateSteps(log.files, n)]
           rotated == [After(RotationDepth + 1) EXCEPT !.rotate_reported = FALSE]
<1>2. ASSUME NEW n \in 0 .. RotationDepth + 1
      PROVE  Log!AfterRotateSteps(log.files, n) \in Dir
  BY <1>1, LogTypes, Rotation
<1>3. ASSUME NEW n \in 0 .. RotationDepth, h.log = After(n), h.ok = FALSE
      PROVE  /\ LogFits(h.log, r) /\ h.log.written = log.written
             /\ Grew(log, h.log) \/ Rotated(log, h.log)
  <2>1. n \in 0 .. RotationDepth + 1 /\ n <= RotationDepth
    BY PartsTypes
  <2>2. /\ h.log \in Logs /\ h.log.files = Log!AfterRotateSteps(log.files, n)
        /\ h.log.written = log.written /\ h.log.rotate_reported = log.rotate_reported
    BY <1>1, <1>2, <1>3, <2>1, RenamedIs
  <2>3. LogKeeps(h.log, r) /\ (Grew(log, h.log) \/ Rotated(log, h.log)) /\ h.log.files[0] = log.files[0]
    BY <1>1, <2>1, <2>2, RotatingKeeps
  <2>4. QED
    BY <2>2, <2>3 DEF LogFits
<1>4. /\ rotated \in Logs /\ rotated.files = Log!AfterRotateSteps(log.files, RotationDepth + 1)
      /\ rotated.written = log.written
  <2>1. RotationDepth + 1 \in 0 .. RotationDepth + 1
    BY PartsTypes
  <2> DEFINE renamed == After(RotationDepth + 1)
  <2>2. /\ renamed \in Logs /\ renamed.files = Log!AfterRotateSteps(log.files, RotationDepth + 1)
        /\ renamed.written = log.written
    BY <1>1, <1>2, <2>1, RenamedIs
  <2>3. rotated = [renamed EXCEPT !.rotate_reported = FALSE]
    OBVIOUS
  <2> HIDE DEF renamed, rotated
  <2>4. QED
    BY <2>2, <2>3, FlaggedIs
<1>5. LogKeeps(rotated, r) /\ Rotated(log, rotated) /\ rotated.files[0] = Absent /\ LogFits(rotated, r)
  <2>1. RotationDepth + 1 \in 0 .. RotationDepth + 1 /\ RotationDepth + 1 # 0
    BY PartsTypes
  <2> HIDE DEF rotated
  <2>2. LogKeeps(rotated, r) /\ Rotated(log, rotated) /\ rotated.files[0] = Absent
    BY <1>1, <1>4, <2>1, RotatingKeeps
  <2>3. QED
    BY <2>2 DEF LogFits
<1>6. \/ (\E n \in 0 .. RotationDepth : h.log = After(n)) /\ h.ok = FALSE
      \/ h.log = rotated /\ h.ok = FALSE
      \/ h.log = Log!Opened(rotated) /\ h.ok = TRUE
  BY RotateIs
<1> HIDE DEF rotated
<1>7. CASE h.log = Log!Opened(rotated) /\ h.ok = TRUE
  <2> DEFINE log2 == h.log
  <2>1. /\ LogFits(log2, r) /\ Grew(rotated, log2) /\ log2.written = rotated.written
        /\ log2.files[0] # Absent
    BY <1>5, <1>7, OpeningFits
  <2>2. log2.files[0] = <<>>
    BY <1>4, <1>5, <1>7, OpenedIs
  <2>3. Len(<<>>) = 0 /\ \A i \in 1 .. 0 : FALSE
    OBVIOUS
  <2>4. NotNoticed(log2.files[0], r)
    BY <2>2, <2>3 DEF NotNoticed
  <2>5. Len(Log!KeptIn(log2.files)) = Len(Log!KeptIn(rotated.files))
    <3>1. log2 \in Logs
      BY <2>1 DEF LogFits, LogKeeps
    <3>2. Len(log2.written) - Len(rotated.written) = 0 /\ Len(Log!KeptIn(rotated.files)) \in Nat
      BY <1>4, <2>1, <3>1, LogTypes
    <3>3. QED
      BY <2>1, <3>2 DEF Grew
  <2>6. Rotated(log, log2)
    BY <1>4, <1>5, <2>1, <2>5 DEF Rotated
  <2>7. QED
    BY <1>4, <1>7, <2>1, <2>2, <2>3, <2>4, <2>6
<1>8. CASE h.log = rotated /\ h.ok = FALSE
  BY <1>4, <1>5, <1>8
<1>9. QED
  BY <1>3, <1>6, <1>7, <1>8

LEMMA OneAfterTheOther ==
  ASSUME NEW a \in Logs, NEW b \in Logs, NEW c \in Logs,
         Len(a.written) <= Len(b.written), Len(b.written) <= Len(c.written)
  PROVE  /\ Grew(a, b) /\ Grew(b, c) => Grew(a, c)
         /\ Grew(a, b) /\ Rotated(b, c) => Rotated(a, c)
         /\ Rotated(a, b) /\ Grew(b, c) => Rotated(a, c)
<1> DEFINE wa == Len(a.written)
           wb == Len(b.written)
           wc == Len(c.written)
           ka == Len(Log!KeptIn(a.files))
           kb == Len(Log!KeptIn(b.files))
           kc == Len(Log!KeptIn(c.files))
           da == Len(OldestOf(a.files))
           db == Len(OldestOf(b.files))
           dc == Len(OldestOf(c.files))
<1>1. /\ wa \in Nat /\ wb \in Nat /\ wc \in Nat /\ ka \in Nat /\ kb \in Nat /\ kc \in Nat
      /\ da \in Nat /\ db \in Nat /\ dc \in Nat /\ wa <= wb /\ wb <= wc
  BY LogTypes
<1>2. /\ Grew(a, b) <=> kb = ka + (wb - wa) /\ db = da + (IF RotationDepth = 0 THEN wb - wa ELSE 0)
      /\ Grew(b, c) <=> kc = kb + (wc - wb) /\ dc = db + (IF RotationDepth = 0 THEN wc - wb ELSE 0)
      /\ Grew(a, c) <=> kc = ka + (wc - wa) /\ dc = da + (IF RotationDepth = 0 THEN wc - wa ELSE 0)
  BY DEF Grew
<1>3. /\ Rotated(a, b) <=>
           \E n \in Nat :
             /\ kb = ka + (wb - wa) - n
             /\ IF RotationDepth = 0 THEN da <= n /\ n <= da + (wb - wa) ELSE n = da
      /\ Rotated(b, c) <=>
           \E n \in Nat :
             /\ kc = kb + (wc - wb) - n
             /\ IF RotationDepth = 0 THEN db <= n /\ n <= db + (wc - wb) ELSE n = db
      /\ Rotated(a, c) <=>
           \E n \in Nat :
             /\ kc = ka + (wc - wa) - n
             /\ IF RotationDepth = 0 THEN da <= n /\ n <= da + (wc - wa) ELSE n = da
  BY DEF Rotated
<1> HIDE DEF wa, wb, wc, ka, kb, kc, da, db, dc
<1>4. Grew(a, b) /\ Grew(b, c) => Grew(a, c)
  BY <1>1, <1>2
<1>5. ASSUME Grew(a, b), Rotated(b, c) PROVE Rotated(a, c)
  <2>1. PICK n \in Nat : kc = kb + (wc - wb) - n /\ IF RotationDepth = 0 THEN db <= n /\ n <= db + (wc - wb) ELSE n = db
    BY <1>3, <1>5
  <2>2. kc = ka + (wc - wa) - n /\ IF RotationDepth = 0 THEN da <= n /\ n <= da + (wc - wa) ELSE n = da
    BY <1>1, <1>2, <1>5, <2>1
  <2>3. QED
    BY <1>3, <2>2
<1>6. ASSUME Rotated(a, b), Grew(b, c) PROVE Rotated(a, c)
  <2>1. PICK n \in Nat : kb = ka + (wb - wa) - n /\ IF RotationDepth = 0 THEN da <= n /\ n <= da + (wb - wa) ELSE n = da
    BY <1>3, <1>6
  <2>2. kc = ka + (wc - wa) - n /\ IF RotationDepth = 0 THEN da <= n /\ n <= da + (wc - wa) ELSE n = da
    BY <1>1, <1>2, <1>6, <2>1
  <2>3. QED
    BY <1>3, <2>2
<1>7. QED
  BY <1>4, <1>5, <1>6

LEMMA WroteMore ==
  ASSUME NEW u \in Seq(Log!Entries), NEW v \in Seq(Log!Entries), NEW w \in Seq(Log!Entries),
         NEW r, NEW ok \in BOOLEAN, NEW e, Wrote(u, v, r, FALSE, Absent), Wrote(v, w, r, ok, e)
  PROVE  Wrote(u, w, r, ok, e)
<1>1. Len(u) \in Nat /\ Len(v) \in Nat /\ Len(w) \in Nat /\ Len(u) <= Len(v) /\ Len(v) <= Len(w)
  BY DEF Wrote
<1>2. \A i \in 1 .. Len(u) : w[i] = u[i]
  BY <1>1 DEF Wrote
<1>3. ASSUME NEW i \in Len(u) + 1 .. Len(w)
      PROVE  w[i].process = r /\ (Noise(w[i]) \/ (ok /\ i = Len(w) /\ w[i] = e))
  <2>1. CASE i <= Len(v)
    <3>1. i \in Len(u) + 1 .. Len(v) /\ i \in 1 .. Len(v)
      BY <1>1, <2>1
    <3>2. w[i] = v[i] /\ v[i].process = r /\ Noise(v[i])
      BY <3>1 DEF Wrote
    <3>3. QED
      BY <3>2
  <2>2. CASE ~(i <= Len(v))
    <3>1. i \in Len(v) + 1 .. Len(w)
      BY <1>1, <2>2
    <3>2. QED
      BY <3>1 DEF Wrote
  <2>3. QED
    BY <2>1, <2>2
<1>4. ok => Len(u) < Len(w) /\ w[Len(w)] = e
  BY <1>1 DEF Wrote
<1>5. QED
  BY <1>1, <1>2, <1>3, <1>4 DEF Wrote

LEMMA EntryIs ==
  ASSUME NEW r \in 0 .. MaxRestarts, restarts = r, NEW what \in {"message", "lost", "rotating", "part"},
         NEW n \in 0 .. MaxMessages
  PROVE  /\ EntryOf(Log!Entry(what, n), r)
         /\ Log!Entry(what, n).what = what /\ Log!Entry(what, n).n = n
BY DEF EntryOf, Log!Entry, Log!Entries

LEMMA WritingFits ==
  ASSUME NEW r \in 0 .. MaxRestarts, restarts = r, NEW log, LogFits(log, r), Appendable(log, r),
         NEW e, EntryOf(e, r), NEW o \in Log!WriteEntry(log, e)
  PROVE  /\ LogKeeps(o.log, r) /\ o.ok \in BOOLEAN
         /\ Wrote(log.written, o.log.written, r, o.ok, e) /\ Grew(log, o.log)
         /\ o.log.rotate_reported = log.rotate_reported
         /\ o.log.files[0] # Absent
         /\ o.ok => Len(o.log.files[0]) = Len(log.files[0]) + 1
         /\ ~o.ok \/ e.what # "rotating" => LogFits(o.log, r)
<1>1. LogKeeps(log, r) /\ log \in Logs /\ r \in Nat /\ log.files[0] # Absent
  BY PartsTypes DEF LogFits, LogKeeps, Appendable
<1> DEFINE piece == Log!Entry("part", 0)
<1>2. EntryOf(piece, r) /\ piece.what = "part" /\ Noise(piece)
  BY EntryIs, PartsTypes DEF Noise
<1> HIDE DEF piece
<1>3. CASE o.log = Log!Appended(log, e) /\ o.ok = TRUE
  <2> DEFINE log2 == o.log
  <2>0. log2 = Log!Appended(log, e)
    BY <1>3
  <2> HIDE DEF log2
  <2>1. /\ LogKeeps(log2, r) /\ Grew(log, log2)
        /\ log2.rotate_reported = log.rotate_reported
        /\ log2.files[0] # Absent /\ Len(log2.files[0]) = Len(log.files[0]) + 1
        /\ e.what # "rotating" => NotNoticed(log2.files[0], r)
    BY <1>1, <2>0, AppendingKeeps
  <2>2. Wrote(log.written, log2.written, r, TRUE, e)
    BY <1>1, <2>0, AppendingWrites
  <2>3. QED
    BY <1>3, <2>1, <2>2 DEF LogFits, log2
<1>4. CASE o.log = log /\ o.ok = FALSE
  <2>1. Grew(log, log)
    BY <1>1, LogTypes DEF Grew
  <2>2. Wrote(log.written, log.written, r, FALSE, e)
    BY <1>1, LogTypes DEF Wrote
  <2>3. QED
    BY <1>1, <1>4, <2>1, <2>2
<1>5. CASE o.log = Log!Appended(log, piece) /\ o.ok = FALSE
  <2> DEFINE log2 == o.log
  <2>0. log2 = Log!Appended(log, piece)
    BY <1>5
  <2> HIDE DEF log2
  <2>1. /\ LogKeeps(log2, r) /\ Grew(log, log2)
        /\ log2.rotate_reported = log.rotate_reported
        /\ log2.files[0] # Absent
        /\ piece.what # "rotating" => NotNoticed(log2.files[0], r)
    BY <1>1, <1>2, <2>0, AppendingKeeps
  <2>2. Wrote(log.written, log2.written, r, FALSE, e)
    <3>1. Wrote(log.written, log2.written, r, FALSE, Absent)
      BY <1>1, <1>2, <2>0, AppendingWrites
    <3>2. QED
      BY <3>1 DEF Wrote
  <2>3. LogFits(log2, r)
    BY <1>2, <2>1 DEF LogFits
  <2>4. QED
    BY <1>5, <2>1, <2>2, <2>3 DEF log2
<1>6. QED
  BY <1>3, <1>4, <1>5, WriteEntryIs DEF piece

LEMMA OpenLogHandleFits ==
  ASSUME NEW r \in 0 .. MaxRestarts, restarts = r, NEW log, LogFits(log, r), NEW h \in Log!OpenLogHandle(log)
  PROVE  /\ LogFits(h.log, r) /\ h.ok \in BOOLEAN
         /\ Wrote(log.written, h.log.written, r, FALSE, Absent)
         /\ h.ok => Appendable(h.log, r) /\ Len(h.log.files[0]) < SizeLimit
         /\ Grew(log, h.log) \/ (Rotated(log, h.log) /\ (h.ok => Len(h.log.files[0]) = 0))
         /\ log.files[0] # Absent /\ Len(log.files[0]) < SizeLimit => Grew(log, h.log)
<1> DEFINE opened == Log!Opened(log)
<1>1. log \in Logs /\ LogKeeps(log, r)
  BY DEF LogFits, LogKeeps
<1>2. /\ LogFits(opened, r) /\ Grew(log, opened) /\ opened.written = log.written
      /\ opened.files[0] # Absent
  BY OpeningFits
<1>3. opened \in Logs /\ (log.files[0] # Absent => opened = log)
  BY <1>1, OpenedIs
<1> HIDE DEF opened
<1>4. Len(log.written) \in Nat /\ opened.files[0] \in Seq(Log!Entries) /\ Len(opened.files[0]) \in Nat
      /\ log.written \in Seq(Log!Entries)
  BY <1>1, <1>2, <1>3, LogTypes
<1>5. Wrote(log.written, log.written, r, FALSE, Absent)
  BY <1>4, WroteNothing
<1>6. CASE h.log = log /\ h.ok = FALSE
  <2>1. Grew(log, log)
    BY <1>1, LogTypes DEF Grew
  <2>2. QED
    BY <1>5, <1>6, <2>1
<1>7. CASE Len(opened.files[0]) < SizeLimit /\ h.log = opened /\ h.ok = TRUE
  <2>1. NotNoticed(opened.files[0], r)
    BY <1>2, <1>4, <1>7, PartsTypes DEF LogFits
  <2>2. QED
    BY <1>2, <1>5, <1>7, <2>1 DEF Appendable
<1> DEFINE full == ~(Len(opened.files[0]) < SizeLimit)
<1>8. full => ~(log.files[0] # Absent /\ Len(log.files[0]) < SizeLimit)
  BY <1>3
<1>9. CASE full /\ opened.rotate_reported /\ h \in Log!Rotate(opened)
  <2>1. /\ LogFits(h.log, r) /\ h.log.written = opened.written /\ h.ok \in BOOLEAN
        /\ h.ok => h.log.files[0] # Absent /\ Len(h.log.files[0]) = 0 /\ NotNoticed(h.log.files[0], r)
        /\ (Grew(opened, h.log) /\ ~h.ok) \/ Rotated(opened, h.log)
    BY <1>2, <1>9, RotateFits
  <2>2. h.log \in Logs
    BY <2>1 DEF LogFits, LogKeeps
  <2>3. (Grew(log, h.log) /\ ~h.ok) \/ Rotated(log, h.log)
    BY <1>1, <1>2, <1>3, <1>4, <2>1, <2>2, OneAfterTheOther
  <2>4. h.ok => Appendable(h.log, r) /\ Len(h.log.files[0]) < SizeLimit
    BY <2>1, PartsTypes DEF Appendable
  <2> HIDE DEF full
  <2>5. QED
    BY <1>2, <1>5, <1>8, <1>9, <2>1, <2>3, <2>4
<1>10. ASSUME full, ~opened.rotate_reported, NEW o \in Log!WriteEntry(opened, Log!Entry("rotating", 0)),
              IF o.ok THEN h \in Log!Rotate([o.log EXCEPT !.rotate_reported = TRUE]) ELSE h = o
       PROVE  /\ LogFits(h.log, r) /\ h.ok \in BOOLEAN
              /\ Wrote(log.written, h.log.written, r, FALSE, Absent)
              /\ h.ok => Appendable(h.log, r) /\ Len(h.log.files[0]) < SizeLimit
              /\ (Grew(log, h.log) /\ ~h.ok) \/ (Rotated(log, h.log) /\ (h.ok => Len(h.log.files[0]) = 0))
  <2> DEFINE e == Log!Entry("rotating", 0)
  <2>1. EntryOf(e, r) /\ e.what = "rotating" /\ Noise(e)
    BY EntryIs, PartsTypes DEF Noise
  <2>2. o \in Log!WriteEntry(opened, e)
    BY <1>10
  <2> HIDE DEF e, full
  <2>3. Appendable(opened, r)
    BY <1>2, <1>10 DEF LogFits, Appendable
  <2>4. /\ LogKeeps(o.log, r) /\ o.ok \in BOOLEAN
        /\ Wrote(opened.written, o.log.written, r, o.ok, e) /\ Grew(opened, o.log)
        /\ o.log.files[0] # Absent
        /\ o.ok => Len(o.log.files[0]) = Len(opened.files[0]) + 1
        /\ ~o.ok => LogFits(o.log, r)
    BY <1>2, <2>1, <2>2, <2>3, WritingFits
  <2>5. o.log \in Logs
    BY <2>4 DEF LogKeeps
  <2>6. Wrote(log.written, o.log.written, r, FALSE, Absent)
    BY <1>2, <2>1, <2>4 DEF Wrote
  <2>7. Grew(log, o.log)
    <3>1. Len(log.written) <= Len(opened.written) /\ Len(opened.written) <= Len(o.log.written)
      BY <1>2, <1>4, <2>4 DEF Wrote
    <3>2. QED
      BY <1>1, <1>2, <1>3, <2>4, <2>5, <3>1, OneAfterTheOther
  <2>8. CASE ~o.ok
    BY <1>10, <2>4, <2>6, <2>7, <2>8
  <2>9. CASE o.ok
    <3> DEFINE noticed == [o.log EXCEPT !.rotate_reported = TRUE]
    <3>1. /\ noticed \in Logs /\ noticed.files = o.log.files /\ noticed.written = o.log.written
          /\ noticed.rotate_reported = TRUE
      BY <2>5, FlaggedIs
    <3>2. h \in Log!Rotate(noticed)
      BY <1>10, <2>9
    <3> HIDE DEF noticed
    <3>3. Len(noticed.files[0]) >= SizeLimit
      <4>1. Len(noticed.files[0]) = Len(opened.files[0]) + 1
        BY <2>4, <2>9, <3>1
      <4>2. ~(Len(opened.files[0]) < SizeLimit)
        BY <1>10 DEF full
      <4>3. QED
        BY <1>4, <4>1, <4>2, PartsTypes
    <3>4. LogFits(noticed, r)
      BY <2>4, <3>1, <3>3 DEF LogFits, LogKeeps
    <3>5. /\ LogFits(h.log, r) /\ h.log.written = noticed.written /\ h.ok \in BOOLEAN
          /\ h.ok => h.log.files[0] # Absent /\ Len(h.log.files[0]) = 0 /\ NotNoticed(h.log.files[0], r)
          /\ (Grew(noticed, h.log) /\ ~h.ok) \/ Rotated(noticed, h.log)
      BY <3>2, <3>4, RotateFits
    <3>6. h.log \in Logs /\ Len(noticed.written) \in Nat
      BY <3>1, <3>5, LogTypes DEF LogFits, LogKeeps
    <3>7. Grew(log, noticed) /\ Len(log.written) <= Len(noticed.written)
      BY <2>6, <2>7, <3>1 DEF Grew, Wrote
    <3>8. (Grew(log, h.log) /\ ~h.ok) \/ Rotated(log, h.log)
      BY <1>1, <3>1, <3>5, <3>6, <3>7, OneAfterTheOther
    <3>9. h.ok => Appendable(h.log, r) /\ Len(h.log.files[0]) < SizeLimit
      BY <3>5, PartsTypes DEF Appendable
    <3>10. QED
      BY <2>6, <3>1, <3>5, <3>8, <3>9
  <2>10. QED
    BY <2>4, <2>8, <2>9
<1>11. \/ h.log = log /\ h.ok = FALSE
       \/ Len(opened.files[0]) < SizeLimit /\ h.log = opened /\ h.ok = TRUE
       \/ full /\ opened.rotate_reported /\ h \in Log!Rotate(opened)
       \/ full /\ ~opened.rotate_reported /\ NoticesAndRotates(opened, h)
  <2>1. opened = Log!Opened(log)
    BY DEF opened
  <2>2. QED
    BY <2>1, OpenLogHandleIs
<1> HIDE DEF full
<1>12. CASE full /\ ~opened.rotate_reported /\ NoticesAndRotates(opened, h)
  <2>1. PICK o \in Log!WriteEntry(opened, Log!Entry("rotating", 0)) :
               IF o.ok THEN h \in Log!Rotate([o.log EXCEPT !.rotate_reported = TRUE]) ELSE h = o
    BY <1>12 DEF NoticesAndRotates
  <2>2. /\ LogFits(h.log, r) /\ h.ok \in BOOLEAN
        /\ Wrote(log.written, h.log.written, r, FALSE, Absent)
        /\ h.ok => Appendable(h.log, r) /\ Len(h.log.files[0]) < SizeLimit
        /\ (Grew(log, h.log) /\ ~h.ok) \/ (Rotated(log, h.log) /\ (h.ok => Len(h.log.files[0]) = 0))
    BY <1>10, <1>12, <2>1
  <2>3. QED
    BY <1>8, <1>12, <2>2
<1>13. QED
  BY <1>6, <1>7, <1>9, <1>11, <1>12

\* What a report by the back end does to the log.
LEMMA BackendReportFits ==
  ASSUME NEW r \in 0 .. MaxRestarts, restarts = r, NEW log, LogFits(log, r),
         NEW e, EntryOf(e, r), e.what # "rotating", NEW o \in Log!BackendReport(log, e)
  PROVE  /\ LogFits(o.log, r) /\ o.ok \in BOOLEAN
         /\ Wrote(log.written, o.log.written, r, o.ok, e)
         /\ Grew(log, o.log) \/ (Rotated(log, o.log) /\ (o.ok => o.log.files[0] # Absent /\ Len(o.log.files[0]) = 1))
         /\ log.files[0] # Absent /\ Len(log.files[0]) < SizeLimit => Grew(log, o.log)
<1>1. PICK h \in Log!OpenLogHandle(log) : IF h.ok THEN o \in Log!WriteEntry(h.log, e) ELSE o = h
  BY BackendReportIs
<1>2. /\ LogFits(h.log, r) /\ h.ok \in BOOLEAN
      /\ Wrote(log.written, h.log.written, r, FALSE, Absent)
      /\ h.ok => Appendable(h.log, r) /\ Len(h.log.files[0]) < SizeLimit
      /\ Grew(log, h.log) \/ (Rotated(log, h.log) /\ (h.ok => Len(h.log.files[0]) = 0))
      /\ log.files[0] # Absent /\ Len(log.files[0]) < SizeLimit => Grew(log, h.log)
  BY OpenLogHandleFits
<1>3. CASE ~h.ok
  <2>1. o = h
    BY <1>1, <1>3
  <2>2. o.ok = FALSE
    BY <1>2, <1>3, <2>1
  <2>3. Wrote(log.written, o.log.written, r, FALSE, e)
    BY <1>2, <2>1 DEF Wrote
  <2>4. QED
    BY <1>2, <2>1, <2>2, <2>3
<1>4. CASE h.ok
  <2>1. /\ LogKeeps(o.log, r) /\ o.ok \in BOOLEAN
        /\ Wrote(h.log.written, o.log.written, r, o.ok, e) /\ Grew(h.log, o.log)
        /\ o.log.files[0] # Absent
        /\ o.ok => Len(o.log.files[0]) = Len(h.log.files[0]) + 1
        /\ LogFits(o.log, r)
    BY <1>1, <1>2, <1>4, WritingFits
  <2>2. log \in Logs /\ h.log \in Logs /\ o.log \in Logs
    BY <1>2, <2>1 DEF LogFits, LogKeeps
  <2>3. Wrote(log.written, o.log.written, r, o.ok, e)
    <3> DEFINE u == log.written
               v == h.log.written
               w == o.log.written
               ok == o.ok
    <3>1. /\ u \in Seq(Log!Entries) /\ v \in Seq(Log!Entries) /\ w \in Seq(Log!Entries) /\ ok \in BOOLEAN
          /\ Wrote(u, v, r, FALSE, Absent) /\ Wrote(v, w, r, ok, e)
      BY <1>2, <2>1, <2>2, LogTypes
    <3> HIDE DEF u, v, w, ok
    <3>2. Wrote(u, w, r, ok, e)
      BY <3>1, WroteMore
    <3>3. QED
      BY <3>2 DEF u, w, ok
  <2>4. Len(log.written) <= Len(h.log.written) /\ Len(h.log.written) <= Len(o.log.written)
    BY <1>2, <2>1 DEF Wrote
  <2>5. (Grew(log, h.log) => Grew(log, o.log)) /\ (Rotated(log, h.log) => Rotated(log, o.log))
    BY <2>1, <2>2, <2>4, OneAfterTheOther
  <2>6. Len(h.log.files[0]) = 0 /\ o.ok => Len(o.log.files[0]) = 1
    BY <2>1
  <2>7. QED
    BY <1>2, <1>4, <2>1, <2>3, <2>5, <2>6
<1>5. QED
  BY <1>3, <1>4

-----------------------------------------------------------------------------
(***************************************************************************)
(* What is told of the losses of process r by the time it has reported     *)
(* rep messages, and counts nf of them as failures.                        *)
(***************************************************************************)
CountedFor(w, r, nf, rep) ==
  LET told == Log!Told(w, r, Len(w)) IN
    IF Log!ManyLost(w, r, Len(w)) \/ nf = MaxFailures THEN told + nf <= rep ELSE told + nf = rep

FollowIn(w, r) == \A i \in 1 .. Len(w) : w[i].process <= r

Whole(log, r, nf, rep) ==
  /\ LogFits(log, r)
  /\ FollowIn(log.written, r)
  /\ Log!EachTellsLosses(log.written)
  /\ CountedFor(log.written, r, nf, rep)

LEMMA ToldQuiet ==
  ASSUME NEW s \in Seq(Log!Entries), NEW p, NEW n \in 0 .. Len(s), NEW m \in 0 .. n,
         \A k \in m + 1 .. n : s[k].process # p \/ Log!Tells(s[k]) = 0
  PROVE  Log!Told(s, p, n) = Log!Told(s, p, m)
<1> DEFINE D == {j \in Nat : m + j <= n => Log!Told(s, p, m + j) = Log!Told(s, p, m)}
<1>1. 0 \in D
  BY m + 0 = m
<1>2. ASSUME NEW j \in Nat, j \in D PROVE j + 1 \in D
  <2>1. SUFFICES ASSUME m + (j + 1) <= n PROVE Log!Told(s, p, m + (j + 1)) = Log!Told(s, p, m)
    OBVIOUS
  <2> DEFINE k == m + (j + 1)
  <2>2. k \in 1 .. Len(s) /\ k \in m + 1 .. n /\ k - 1 = m + j /\ m + j <= n
    BY <2>1
  <2>3. Log!Told(s, p, m + j) = Log!Told(s, p, m) /\ Log!Told(s, p, m + j) \in Nat
    <3>1. m + j \in 0 .. Len(s)
      BY <2>2
    <3>2. QED
      BY <1>2, <2>2, <3>1, ToldIsANumber
  <2>4. s[k].process # p \/ Log!Tells(s[k]) = 0
    BY <2>2
  <2> HIDE DEF k
  <2>5. Log!Told(s, p, k) = IF s[k].process = p THEN Log!Told(s, p, k - 1) + Log!Tells(s[k])
                            ELSE Log!Told(s, p, k - 1)
    BY <2>2, ToldNext
  <2>6. Log!Told(s, p, k) = Log!Told(s, p, m)
    BY <2>2, <2>3, <2>4, <2>5
  <2>7. QED
    BY <2>6 DEF k
<1>3. n - m \in Nat /\ m + (n - m) = n
  OBVIOUS
<1> HIDE DEF D
<1>4. n - m \in D
  BY <1>1, <1>2, <1>3, SetInduction
<1>5. QED
  BY <1>3, <1>4 DEF D

LEMMA NoiseTellsNothing ==
  ASSUME NEW e, Noise(e)
  PROVE  Log!Tells(e) = 0 /\ e.what # "lost" /\ e.what # "message"
BY DEF Noise, Log!Tells

LEMMA WhatIsTold ==
  ASSUME NEW w \in Seq(Log!Entries), NEW w2 \in Seq(Log!Entries), NEW r, NEW ok \in BOOLEAN,
         NEW e, EntryOf(e, r), Wrote(w, w2, r, ok, e), NEW n, n = IF ok THEN Len(w2) - 1 ELSE Len(w2)
  PROVE  /\ n \in Len(w) .. Len(w2)
         /\ Log!Told(w2, r, n) = Log!Told(w, r, Len(w))
         /\ Log!ManyLost(w2, r, n) <=> Log!ManyLost(w, r, Len(w))
         /\ Log!Told(w2, r, Len(w2)) = Log!Told(w, r, Len(w)) + (IF ok THEN Log!Tells(e) ELSE 0)
         /\ Log!ManyLost(w2, r, Len(w2)) <=>
              Log!ManyLost(w, r, Len(w)) \/ (ok /\ e.what = "lost" /\ e.n = MaxFailures)
<1> DEFINE m == Len(w)
<1>1. m \in Nat /\ Len(w2) \in Nat /\ m <= Len(w2) /\ \A i \in 1 .. m : w2[i] = w[i]
  BY DEF Wrote
<1>2. n \in m .. Len(w2) /\ (ok => n + 1 = Len(w2) /\ w2[n + 1] = e) /\ (~ok => n = Len(w2))
  BY <1>1 DEF Wrote
<1>3. \A k \in m + 1 .. n : Noise(w2[k])
  BY <1>1, <1>2 DEF Wrote
<1>4. Log!Told(w2, r, n) = Log!Told(w2, r, m)
  <2>1. \A k \in m + 1 .. n : w2[k].process # r \/ Log!Tells(w2[k]) = 0
    BY <1>3, NoiseTellsNothing
  <2>2. n \in 0 .. Len(w2) /\ m \in 0 .. n
    BY <1>1, <1>2
  <2>3. QED
    BY <2>1, <2>2, ToldQuiet
<1>5. /\ Log!Told(w2, r, m) = Log!Told(w, r, m)
      /\ Log!ManyLost(w2, r, m) <=> Log!ManyLost(w, r, m)
  <2>1. m \in 0 .. Len(w2) /\ m <= Len(w)
    BY <1>1
  <2>2. QED
    BY <1>1, <2>1, SameTold
<1>6. Log!ManyLost(w2, r, n) <=> Log!ManyLost(w2, r, m)
  <2>1. \A k \in 1 .. n : k \in 1 .. m \/ w2[k].what # "lost"
    BY <1>1, <1>2, <1>3, NoiseTellsNothing
  <2>2. \A k \in 1 .. m : k \in 1 .. n
    BY <1>1, <1>2
  <2>3. QED
    BY <2>1, <2>2 DEF Log!ManyLost
<1>7. Log!Told(w2, r, Len(w2)) = Log!Told(w, r, Len(w)) + (IF ok THEN Log!Tells(e) ELSE 0)
  <2>1. Log!Told(w, r, m) \in Nat
    <3>1. m \in 0 .. Len(w)
      BY <1>1
    <3>2. QED
      BY <3>1, ToldIsANumber
  <2>2. CASE ok
    <3>1. Len(w2) \in 1 .. Len(w2) /\ w2[Len(w2)] = e /\ Len(w2) - 1 = n /\ e.process = r
      BY <1>1, <1>2, <2>2 DEF EntryOf
    <3>2. Log!Told(w2, r, Len(w2)) = Log!Told(w2, r, n) + Log!Tells(e)
      BY <3>1, ToldNext
    <3>3. QED
      BY <1>4, <1>5, <2>2, <3>2
  <2>3. CASE ~ok
    BY <1>2, <1>4, <1>5, <2>1, <2>3
  <2>4. QED
    BY <2>2, <2>3
<1>8. Log!ManyLost(w2, r, Len(w2)) <=>
        Log!ManyLost(w2, r, n) \/ (ok /\ e.what = "lost" /\ e.n = MaxFailures)
  <2>1. CASE ok
    <3>1. \A k \in 1 .. Len(w2) : k \in 1 .. n \/ k = Len(w2)
      BY <1>1, <1>2, <2>1
    <3>2. Len(w2) \in 1 .. Len(w2) /\ w2[Len(w2)] = e /\ e.process = r /\ \A k \in 1 .. n : k \in 1 .. Len(w2)
      BY <1>1, <1>2, <2>1 DEF EntryOf
    <3>3. QED
      BY <2>1, <3>1, <3>2 DEF Log!ManyLost
  <2>2. CASE ~ok
    BY <1>2, <2>2
  <2>3. QED
    BY <2>1, <2>2
<1>9. QED
  BY <1>2, <1>4, <1>5, <1>6, <1>7, <1>8

LEMMA ToldInAll ==
  ASSUME NEW w \in Seq(Log!Entries), NEW w2 \in Seq(Log!Entries), NEW r, NEW ok \in BOOLEAN,
         NEW e, EntryOf(e, r), Wrote(w, w2, r, ok, e)
  PROVE  /\ Log!Told(w2, r, Len(w2)) = Log!Told(w, r, Len(w)) + (IF ok THEN Log!Tells(e) ELSE 0)
         /\ Log!ManyLost(w2, r, Len(w2)) <=>
              Log!ManyLost(w, r, Len(w)) \/ (ok /\ e.what = "lost" /\ e.n = MaxFailures)
<1> DEFINE n == IF ok THEN Len(w2) - 1 ELSE Len(w2)
<1>1. n = IF ok THEN Len(w2) - 1 ELSE Len(w2)
  OBVIOUS
<1> HIDE DEF n
<1>2. QED
  BY <1>1, WhatIsTold

LEMMA EachGoesOnToTell ==
  ASSUME NEW w \in Seq(Log!Entries), NEW w2 \in Seq(Log!Entries), NEW r, NEW ok \in BOOLEAN,
         NEW e, EntryOf(e, r), Wrote(w, w2, r, ok, e),
         Log!EachTellsLosses(w),
         ok /\ e.what = "message" =>
           IF Log!ManyLost(w, r, Len(w)) THEN Log!Told(w, r, Len(w)) <= e.n - 1
           ELSE Log!Told(w, r, Len(w)) = e.n - 1
  PROVE  Log!EachTellsLosses(w2)
<1> DEFINE n == IF ok THEN Len(w2) - 1 ELSE Len(w2)
           Fine(s, p) == IF Log!ManyLost(s, s[p].process, p - 1)
                         THEN Log!Told(s, s[p].process, p - 1) <= s[p].n - 1
                         ELSE Log!Told(s, s[p].process, p - 1) = s[p].n - 1
<1>1. Len(w) \in Nat /\ Len(w2) \in Nat /\ Len(w) <= Len(w2) /\ \A i \in 1 .. Len(w) : w2[i] = w[i]
  BY DEF Wrote
<1>2. \A p \in 1 .. Len(w) : w[p].what = "message" => Fine(w, p)
  BY DEF Log!EachTellsLosses
<1>3. ASSUME NEW p \in 1 .. Len(w2), w2[p].what = "message" PROVE Fine(w2, p)
  <2>1. CASE p \in 1 .. Len(w)
    <3>1. p - 1 \in 0 .. Len(w2) /\ p - 1 <= Len(w) /\ \A k \in 1 .. p - 1 : w2[k] = w[k]
      BY <1>1, <2>1
    <3>2. w2[p] = w[p]
      BY <1>1, <2>1
    <3> DEFINE q == w[p].process
    <3>3. /\ Log!Told(w2, q, p - 1) = Log!Told(w, q, p - 1)
          /\ Log!ManyLost(w2, q, p - 1) <=> Log!ManyLost(w, q, p - 1)
      BY <3>1, SameTold
    <3>4. Fine(w, p)
      BY <1>2, <1>3, <2>1, <3>2
    <3>5. QED
      BY <3>2, <3>3, <3>4
  <2>2. CASE ~(p \in 1 .. Len(w))
    <3>1. p \in Len(w) + 1 .. Len(w2)
      BY <1>1, <2>2
    <3>2. ok /\ p = Len(w2) /\ w2[p] = e /\ e.process = r
      BY <1>3, <3>1, NoiseTellsNothing DEF Wrote, EntryOf
    <3>3. n = p - 1
      BY <3>2
    <3> HIDE DEF n
    <3>4. n = IF ok THEN Len(w2) - 1 ELSE Len(w2)
      BY DEF n
    <3>5. /\ Log!Told(w2, r, n) = Log!Told(w, r, Len(w))
          /\ Log!ManyLost(w2, r, n) <=> Log!ManyLost(w, r, Len(w))
      BY <3>4, WhatIsTold
    <3>6. QED
      BY <1>3, <3>2, <3>3, <3>5
  <2>3. QED
    BY <2>1, <2>2
<1>4. DOMAIN w2 = 1 .. Len(w2)
  OBVIOUS
<1>5. QED
  BY <1>3, <1>4 DEF Log!EachTellsLosses

LEMMA FollowingOn ==
  ASSUME NEW r \in Nat, NEW w \in Seq(Log!Entries), NEW w2 \in Seq(Log!Entries), NEW ok, NEW e,
         Wrote(w, w2, r, ok, e), FollowIn(w, r)
  PROVE  FollowIn(w2, r)
<1>1. \A i \in 1 .. Len(w2) : i \in 1 .. Len(w) \/ i \in Len(w) + 1 .. Len(w2)
  OBVIOUS
<1>2. QED
  BY <1>1 DEF FollowIn, Wrote

-----------------------------------------------------------------------------
(***************************************************************************)
(* The two parts of a report: the notice, and the message.                 *)
(***************************************************************************)
Continues(log, log2) == Len(log.written) <= Len(log2.written) /\ (Grew(log, log2) \/ Rotated(log, log2))

LEMMA NothingIsLost ==
  ASSUME NEW w \in Seq(Log!Entries), NEW r, NEW nf \in Nat, NEW rep \in Nat, CountedFor(w, r, nf, rep)
  PROVE  nf <= rep /\ Log!Told(w, r, Len(w)) \in Nat
<1>1. Len(w) \in 0 .. Len(w)
  OBVIOUS
<1>2. Log!Told(w, r, Len(w)) \in Nat
  BY <1>1, ToldIsANumber
<1>3. QED
  BY <1>2 DEF CountedFor

LEMMA NoticeFits ==
  ASSUME NEW r \in 0 .. MaxRestarts, restarts = r, NEW nf \in 0 .. MaxFailures, n_failures = nf,
         NEW rep \in 0 .. MaxMessages, NEW log, Whole(log, r, nf, rep), NEW o \in Log!LostNotice(log)
  PROVE  /\ Whole(o.log, r, IF o.ok THEN 0 ELSE nf, rep) /\ o.ok \in BOOLEAN
         /\ Len(log.written) <= Len(o.log.written)
         /\ Grew(log, o.log) \/ (Rotated(log, o.log) /\ (o.ok => o.log.files[0] # Absent /\ Len(o.log.files[0]) = 1))
<1>1. log \in Logs /\ LogFits(log, r) /\ r \in Nat /\ nf \in Nat /\ rep \in Nat
  BY PartsTypes DEF Whole, LogFits, LogKeeps
<1>2. log.written \in Seq(Log!Entries) /\ Len(log.written) \in Nat
  BY <1>1, LogTypes
<1>3. nf <= rep /\ Log!Told(log.written, r, Len(log.written)) \in Nat
  BY <1>1, <1>2, NothingIsLost DEF Whole
<1>4. CASE nf = 0
  <2>1. o.log = log /\ o.ok = TRUE
    BY <1>4 DEF Log!LostNotice, Log!Outcome
  <2>2. Grew(log, log)
    BY <1>1, LogTypes DEF Grew
  <2>3. (IF o.ok THEN 0 ELSE nf) = nf
    BY <1>4, <2>1
  <2>4. Whole(o.log, r, IF o.ok THEN 0 ELSE nf, rep)
    BY <2>1, <2>3
  <2>5. Len(log.written) <= Len(o.log.written)
    BY <1>2, <2>1
  <2>6. Grew(log, o.log)
    BY <2>1, <2>2
  <2>7. QED
    BY <2>1, <2>4, <2>5, <2>6
<1>5. CASE nf # 0
  <2> DEFINE e == Log!Entry("lost", nf)
             w == log.written
             w2 == o.log.written
             ok == o.ok
  <2>1. EntryOf(e, r) /\ e.what = "lost" /\ e.n = nf
    BY <1>3, EntryIs, PartsTypes
  <2>2. o \in Log!BackendReport(log, e)
    BY <1>5 DEF Log!LostNotice
  <2> HIDE DEF e
  <2>3. /\ LogFits(o.log, r) /\ ok \in BOOLEAN
        /\ Wrote(w, w2, r, ok, e)
        /\ Grew(log, o.log) \/ (Rotated(log, o.log) /\ (o.ok => o.log.files[0] # Absent /\ Len(o.log.files[0]) = 1))
    BY <1>1, <2>1, <2>2, BackendReportFits
  <2>4. w \in Seq(Log!Entries) /\ w2 \in Seq(Log!Entries) /\ FollowIn(w, r)
        /\ Log!EachTellsLosses(w) /\ CountedFor(w, r, nf, rep)
    BY <1>2, <2>3, LogTypes DEF LogFits, LogKeeps, Whole
  <2> HIDE DEF w, w2, ok
  <2>5. FollowIn(w2, r)
    BY <1>1, <2>3, <2>4, FollowingOn
  <2>6. Log!EachTellsLosses(w2)
    BY <2>1, <2>3, <2>4, EachGoesOnToTell
  <2>7. CountedFor(w2, r, IF ok THEN 0 ELSE nf, rep)
    <3> DEFINE told == Log!Told(w, r, Len(w))
               told2 == Log!Told(w2, r, Len(w2))
               many == Log!ManyLost(w, r, Len(w))
               many2 == Log!ManyLost(w2, r, Len(w2))
               n == IF ok THEN Len(w2) - 1 ELSE Len(w2)
    <3>1. told2 = told + (IF ok THEN Log!Tells(e) ELSE 0) /\ (many2 <=> many \/ (ok /\ nf = MaxFailures))
      BY <2>1, <2>3, <2>4, ToldInAll
    <3>2. Log!Tells(e) = nf
      BY <2>1 DEF Log!Tells
    <3>3. told \in Nat /\ IF many \/ nf = MaxFailures THEN told + nf <= rep ELSE told + nf = rep
      BY <1>3, <2>4 DEF CountedFor, w
    <3> HIDE DEF told, told2, many, many2
    <3>4. CASE ok
      <4>1. told2 = told + nf /\ (many2 <=> many \/ nf = MaxFailures)
        BY <3>1, <3>2, <3>4
      <4>2. IF many2 \/ 0 = MaxFailures THEN told2 + 0 <= rep ELSE told2 + 0 = rep
        BY <1>1, <3>3, <4>1, PartsTypes
      <4>3. QED
        BY <3>4, <4>2 DEF CountedFor, told2, many2
    <3>5. CASE ~ok
      <4>1. told2 = told /\ (many2 <=> many)
        BY <3>1, <3>3, <3>5
      <4>2. IF many2 \/ nf = MaxFailures THEN told2 + nf <= rep ELSE told2 + nf = rep
        BY <3>3, <4>1
      <4>3. QED
        BY <3>5, <4>2 DEF CountedFor, told2, many2
    <3>6. QED
      BY <3>4, <3>5
  <2>8. Len(w) <= Len(w2)
    BY <2>3 DEF Wrote
  <2>9. QED
    BY <2>3, <2>5, <2>6, <2>7, <2>8 DEF Whole, w, w2, ok
<1>6. QED
  BY <1>4, <1>5

LEMMA MessageFits ==
  ASSUME NEW r \in 0 .. MaxRestarts, restarts = r, NEW rep \in 0 .. MaxMessages, rep < MaxMessages,
         NEW log, Whole(log, r, 0, rep), NEW o \in Log!BackendReport(log, Log!Entry("message", rep + 1))
  PROVE  /\ Whole(o.log, r, IF o.ok THEN 0 ELSE 1, rep + 1) /\ o.ok \in BOOLEAN
         /\ Continues(log, o.log)
         /\ log.files[0] # Absent /\ Len(log.files[0]) = 1 => Grew(log, o.log)
<1>1. log \in Logs /\ LogFits(log, r) /\ r \in Nat /\ rep \in Nat /\ rep + 1 \in 0 .. MaxMessages
  BY PartsTypes DEF Whole, LogFits, LogKeeps
<1> DEFINE e == Log!Entry("message", rep + 1)
           w == log.written
           w2 == o.log.written
           ok == o.ok
<1>2. EntryOf(e, r) /\ e.what = "message" /\ e.n = rep + 1
  BY <1>1, EntryIs
<1>3. o \in Log!BackendReport(log, e)
  OBVIOUS
<1> HIDE DEF e
<1>4. /\ LogFits(o.log, r) /\ ok \in BOOLEAN
      /\ Wrote(w, w2, r, ok, e)
      /\ Grew(log, o.log) \/ Rotated(log, o.log)
      /\ log.files[0] # Absent /\ Len(log.files[0]) < SizeLimit => Grew(log, o.log)
  BY <1>1, <1>2, <1>3, BackendReportFits
<1>5. w \in Seq(Log!Entries) /\ w2 \in Seq(Log!Entries) /\ FollowIn(w, r)
      /\ Log!EachTellsLosses(w) /\ CountedFor(w, r, 0, rep)
  BY <1>1, <1>4, LogTypes DEF LogFits, LogKeeps, Whole
<1>6. log.files[0] # Absent /\ Len(log.files[0]) = 1 => Grew(log, o.log)
  BY <1>4, PartsTypes
<1> HIDE DEF w, w2, ok
<1>7. FollowIn(w2, r)
  BY <1>1, <1>4, <1>5, FollowingOn
<1> DEFINE told == Log!Told(w, r, Len(w))
           told2 == Log!Told(w2, r, Len(w2))
           many == Log!ManyLost(w, r, Len(w))
           many2 == Log!ManyLost(w2, r, Len(w2))
<1>8. told \in Nat /\ IF many THEN told <= rep ELSE told = rep
  <2>1. told \in Nat
    BY <1>1, <1>5, NothingIsLost
  <2>2. IF many \/ 0 = MaxFailures THEN told + 0 <= rep ELSE told + 0 = rep
    BY <1>5 DEF CountedFor
  <2> HIDE DEF told, many
  <2>3. QED
    BY <2>1, <2>2, PartsTypes
<1>9. Log!EachTellsLosses(w2)
  <2>1. IF many THEN told <= e.n - 1 ELSE told = e.n - 1
    <3> HIDE DEF told, many
    <3> QED BY <1>1, <1>2, <1>8
  <2>2. QED
    BY <1>2, <1>4, <1>5, <2>1, EachGoesOnToTell
<1>10. CountedFor(w2, r, IF ok THEN 0 ELSE 1, rep + 1)
  <2> DEFINE n == IF ok THEN Len(w2) - 1 ELSE Len(w2)
  <2>1. told2 = told + (IF ok THEN Log!Tells(e) ELSE 0) /\ (many2 <=> many)
    BY <1>2, <1>4, <1>5, ToldInAll
  <2>2. Log!Tells(e) = 1
    BY <1>2 DEF Log!Tells
  <2> HIDE DEF told, told2, many, many2
  <2>3. CASE ok
    <3>1. IF many2 \/ 0 = MaxFailures THEN told2 + 0 <= rep + 1 ELSE told2 + 0 = rep + 1
      BY <1>1, <1>8, <2>1, <2>2, <2>3, PartsTypes
    <3>2. QED
      BY <2>3, <3>1 DEF CountedFor, told2, many2
  <2>4. CASE ~ok
    <3>1. IF many2 \/ 1 = MaxFailures THEN told2 + 1 <= rep + 1 ELSE told2 + 1 = rep + 1
      BY <1>1, <1>8, <2>1, <2>2, <2>4, PartsTypes
    <3>2. QED
      BY <2>4, <3>1 DEF CountedFor, told2, many2
  <2>5. QED
    BY <2>3, <2>4
<1>11. Len(w) <= Len(w2)
  BY <1>4 DEF Wrote
<1>12. QED
  BY <1>4, <1>6, <1>7, <1>9, <1>10, <1>11 DEF Whole, Continues, w, w2, ok

\* Both, one after the other: at most one of them deletes a file.
LEMMA NoticeThenMessage ==
  ASSUME NEW r \in 0 .. MaxRestarts, restarts = r, NEW nf \in 0 .. MaxFailures, n_failures = nf,
         NEW rep \in 0 .. MaxMessages, rep < MaxMessages,
         NEW log, Whole(log, r, nf, rep), NEW o \in Log!LostNotice(log), o.ok,
         NEW p \in Log!BackendReport(o.log, Log!Entry("message", rep + 1))
  PROVE  Whole(p.log, r, IF p.ok THEN 0 ELSE 1, rep + 1) /\ p.ok \in BOOLEAN /\ Continues(log, p.log)
<1>1. /\ Whole(o.log, r, 0, rep)
      /\ Len(log.written) <= Len(o.log.written)
      /\ Grew(log, o.log) \/ (Rotated(log, o.log) /\ o.log.files[0] # Absent /\ Len(o.log.files[0]) = 1)
  BY NoticeFits
<1>2. /\ Whole(p.log, r, IF p.ok THEN 0 ELSE 1, rep + 1) /\ p.ok \in BOOLEAN
      /\ Continues(o.log, p.log)
      /\ o.log.files[0] # Absent /\ Len(o.log.files[0]) = 1 => Grew(o.log, p.log)
  BY <1>1, MessageFits
<1>3. log \in Logs /\ o.log \in Logs /\ p.log \in Logs
  BY <1>1, <1>2 DEF Whole, LogFits, LogKeeps
<1>4. Len(log.written) <= Len(p.log.written)
  <2>1. Len(log.written) \in Nat /\ Len(o.log.written) \in Nat /\ Len(p.log.written) \in Nat
    BY <1>3, LogTypes
  <2>2. Len(log.written) <= Len(o.log.written) /\ Len(o.log.written) <= Len(p.log.written)
    BY <1>1, <1>2 DEF Continues
  <2>3. QED
    BY <2>1, <2>2
<1>5. Grew(log, p.log) \/ Rotated(log, p.log)
  <2>1. Len(log.written) <= Len(o.log.written) /\ Len(o.log.written) <= Len(p.log.written)
    BY <1>1, <1>2 DEF Continues
  <2>2. /\ Grew(log, o.log) /\ Grew(o.log, p.log) => Grew(log, p.log)
        /\ Grew(log, o.log) /\ Rotated(o.log, p.log) => Rotated(log, p.log)
        /\ Rotated(log, o.log) /\ Grew(o.log, p.log) => Rotated(log, p.log)
    BY <1>3, <2>1, OneAfterTheOther, SMTT(30)
  <2>3. QED
    BY <1>1, <1>2, <2>2 DEF Continues
<1>6. QED
  BY <1>2, <1>4, <1>5 DEF Continues

-----------------------------------------------------------------------------
(***************************************************************************)
(* The invariant of the log, of its state as a record.                     *)
(***************************************************************************)
LEMMA EndIs ==
  ASSUME NEW kept \in Seq(Log!Entries), NEW w \in Seq(Log!Entries), Len(kept) <= Len(w)
  PROVE  EndOf(kept, w) <=> kept = SubSeq(w, Len(w) - Len(kept) + 1, Len(w))
<1> DEFINE m == Len(w) - Len(kept) + 1
           n == Len(w)
           t == SubSeq(w, m, n)
<1>1. /\ Len(w) \in Nat /\ Len(kept) \in Nat /\ m \in Int /\ n \in Int /\ m >= 1
      /\ n - m + 1 = Len(kept) /\ (m <= n <=> Len(kept) # 0) /\ m - 1 = Len(w) - Len(kept)
  OBVIOUS
<1>2. \A i \in m .. n : w[i] \in Log!Entries
  BY <1>1
<1> HIDE DEF m, n
<1>3. /\ t \in Seq(Log!Entries)
      /\ Len(t) = IF m <= n THEN n - m + 1 ELSE 0
      /\ \A i \in 1 .. n - m + 1 : t[i] = w[m + i - 1]
  BY <1>1, <1>2, SubSeqProperties
<1>4. Len(t) = Len(kept) /\ \A i \in 1 .. Len(kept) : t[i] = w[Len(w) - Len(kept) + i]
  <2>1. \A i \in 1 .. Len(kept) : m + i - 1 = Len(w) - Len(kept) + i
    BY <1>1
  <2>2. QED
    BY <1>1, <1>3, <2>1
<1> HIDE DEF t
<1>5. kept = t <=> \A i \in 1 .. Len(kept) : kept[i] = t[i]
  BY <1>3, <1>4, SeqEqual
<1>6. QED
  BY <1>4, <1>5 DEF EndOf, t, m, n

LEMMA OfFiles ==
  ASSUME NEW fs \in Dir, NEW r \in Nat
  PROVE  (\A l \in Log!Levels : fs[l] # Absent => InOrder(fs[l], r)) <=>
           /\ \A l \in Log!Levels : fs[l] # Absent => \A i \in DOMAIN fs[l] : fs[l][i].process <= r
           /\ \A l \in Log!Levels : fs[l] # Absent =>
                \A i \in DOMAIN fs[l], j \in DOMAIN fs[l] :
                  i < j /\ fs[l][i].what = "rotating" => fs[l][j].process > fs[l][i].process
<1>1. \A l \in Log!Levels : fs[l] # Absent => fs[l] \in Seq(Log!Entries) /\ DOMAIN fs[l] = 1 .. Len(fs[l])
  BY FilesOf
<1>2. QED
  BY <1>1 DEF InOrder

\* What LoggerInv says, of a log that is not necessarily the present one.
InvOf(log, r, nf, rep) ==
  LET fs == log.files
      w  == log.written
      told == Log!Told(w, r, Len(w))
  IN
  /\ /\ fs \in [Log!Levels -> Seq(Log!Entries) \cup {Absent}] /\ log.rotate_reported \in BOOLEAN
     /\ w \in Seq(Log!Entries)
  /\ /\ \A p \in DOMAIN w : w[p].process <= r
     /\ \A l \in Log!Levels : fs[l] # Absent => \A i \in DOMAIN fs[l] : fs[l][i].process <= r
  /\ \A l \in Log!Levels : fs[l] # Absent =>
       \A i \in DOMAIN fs[l], j \in DOMAIN fs[l] :
         i < j /\ fs[l][i].what = "rotating" => fs[l][j].process > fs[l][i].process
  /\ fs[0] # Absent =>
       \A i \in DOMAIN fs[0] :
         fs[0][i].what = "rotating" /\ fs[0][i].process = r =>
           log.rotate_reported /\ Len(fs[0]) >= SizeLimit
  /\ Log!EachTellsLosses(w)
  /\ IF Log!ManyLost(w, r, Len(w)) \/ nf = MaxFailures THEN told + nf <= rep ELSE told + nf = rep
  /\ Len(Log!KeptIn(fs)) <= Len(w)
  /\ Log!KeptIn(fs) = SubSeq(w, Len(w) - Len(Log!KeptIn(fs)) + 1, Len(w))

LEMMA WholeIsInv ==
  ASSUME NEW log, log = [files |-> log.files, rotate_reported |-> log.rotate_reported, written |-> log.written],
         NEW r \in Nat, NEW nf, NEW rep
  PROVE  Whole(log, r, nf, rep) <=> InvOf(log, r, nf, rep)
<1> DEFINE fs == log.files
           w  == log.written
           kept == Log!KeptIn(fs)
<1>1. log \in Logs <=> fs \in Dir /\ log.rotate_reported \in BOOLEAN /\ w \in Seq(Log!Entries)
  BY DEF Logs
<1>2. SUFFICES ASSUME log \in Logs PROVE Whole(log, r, nf, rep) <=> InvOf(log, r, nf, rep)
  BY <1>1 DEF Whole, LogFits, LogKeeps, InvOf, Dir
<1>3. /\ fs \in Dir /\ w \in Seq(Log!Entries) /\ kept \in Seq(Log!Entries) /\ log.rotate_reported \in BOOLEAN
      /\ fs[0] # Absent => fs[0] \in Seq(Log!Entries)
  BY <1>2, LogTypes
<1>4. DOMAIN w = 1 .. Len(w) /\ (fs[0] # Absent => DOMAIN fs[0] = 1 .. Len(fs[0]))
  BY <1>3
<1>5. FollowIn(w, r) <=> \A p \in DOMAIN w : w[p].process <= r
  BY <1>4 DEF FollowIn
<1>6. EndOf(kept, w) <=> Len(kept) <= Len(w) /\ kept = SubSeq(w, Len(w) - Len(kept) + 1, Len(w))
  BY <1>3, EndIs DEF EndOf
<1>7. (fs[0] # Absent => NotNoticed(fs[0], r) \/ (log.rotate_reported /\ Len(fs[0]) >= SizeLimit)) <=>
      (fs[0] # Absent =>
         \A i \in DOMAIN fs[0] :
           fs[0][i].what = "rotating" /\ fs[0][i].process = r =>
             log.rotate_reported /\ Len(fs[0]) >= SizeLimit)
  BY <1>4 DEF NotNoticed
<1>8. (\A l \in Log!Levels : fs[l] # Absent => InOrder(fs[l], r)) <=>
           /\ \A l \in Log!Levels : fs[l] # Absent => \A i \in DOMAIN fs[l] : fs[l][i].process <= r
           /\ \A l \in Log!Levels : fs[l] # Absent =>
                \A i \in DOMAIN fs[l], j \in DOMAIN fs[l] :
                  i < j /\ fs[l][i].what = "rotating" => fs[l][j].process > fs[l][i].process
  BY <1>3, OfFiles
<1>9. fs \in [Log!Levels -> Seq(Log!Entries) \cup {Absent}]
  BY <1>3 DEF Dir
<1>10. QED
  BY <1>2, <1>3, <1>5, <1>6, <1>7, <1>8, <1>9, Zenon DEF Whole, LogFits, LogKeeps, CountedFor, InvOf

LEMMA LogNow ==
  ASSUME Log!LoggerInv, NEW log, log = Log!Log
  PROVE  /\ log.files = files /\ log.rotate_reported = rotate_reported /\ log.written = written
         /\ restarts \in 0 .. MaxRestarts /\ n_failures \in 0 .. MaxFailures /\ reported \in 0 .. MaxMessages
         /\ Whole(log, restarts, n_failures, reported)
<1>1. /\ log.files = files /\ log.rotate_reported = rotate_reported /\ log.written = written
      /\ log = [files |-> log.files, rotate_reported |-> log.rotate_reported, written |-> log.written]
  BY DEF Log!Log
<1>2. /\ restarts \in 0 .. MaxRestarts /\ n_failures \in 0 .. MaxFailures /\ reported \in 0 .. MaxMessages
      /\ restarts \in Nat
  BY PartsTypes DEF Log!LoggerInv, Log!LoggerTypeOK
<1>3. InvOf(log, restarts, n_failures, reported)
  BY <1>1 DEF InvOf, Log!LoggerInv, Log!LoggerTypeOK, Log!ProcessesFollow, Log!NoticeIsNotRepeated,
     Log!NoticeIsRemembered, Log!LossesAreTold, Log!LossesAreCounted, Log!KeptIsLast, Log!Kept
<1>4. Whole(log, restarts, n_failures, reported)
  BY <1>1, <1>2, <1>3, WholeIsInv
<1>5. QED
  BY <1>1, <1>2, <1>4

LEMMA LogThen ==
  ASSUME NEW r \in 0 .. MaxRestarts, NEW nf \in 0 .. MaxFailures, NEW rep \in 0 .. MaxMessages,
         NEW log, Whole(log, r, nf, rep), Log!LogIs(log),
         restarts' = r, n_failures' = nf, reported' = rep
  PROVE  Log!LoggerInv'
<1>1. log = [files |-> log.files, rotate_reported |-> log.rotate_reported, written |-> log.written] /\ r \in Nat
  BY PartsTypes DEF Whole, LogFits, LogKeeps, Logs
<1>2. InvOf(log, r, nf, rep)
  BY <1>1, WholeIsInv
<1>3. files' = log.files /\ rotate_reported' = log.rotate_reported /\ written' = log.written
  BY DEF Log!LogIs
<1>4. QED
  BY <1>2, <1>3 DEF InvOf, Log!LoggerInv, Log!LoggerTypeOK, Log!ProcessesFollow, Log!NoticeIsNotRepeated,
     Log!NoticeIsRemembered, Log!LossesAreTold, Log!LossesAreCounted, Log!KeptIsLast, Log!Kept

LEMMA LossIsCounted ==
  ASSUME NEW r \in Nat, NEW nf \in 0 .. MaxFailures, NEW rep \in Nat, NEW log, Whole(log, r, nf, rep)
  PROVE  Whole(log, r, IF nf = MaxFailures THEN MaxFailures ELSE nf + 1, rep + 1)
<1> DEFINE w == log.written
           told == Log!Told(w, r, Len(w))
           many == Log!ManyLost(w, r, Len(w))
           nf2 == IF nf = MaxFailures THEN MaxFailures ELSE nf + 1
<1>1. w \in Seq(Log!Entries) /\ nf \in Nat /\ CountedFor(w, r, nf, rep)
  BY PartsTypes, LogTypes DEF Whole, LogFits, LogKeeps
<1>2. told \in Nat
  BY <1>1, NothingIsLost
<1>3. IF many \/ nf = MaxFailures THEN told + nf <= rep ELSE told + nf = rep
  BY <1>1 DEF CountedFor
<1> HIDE DEF told, many
<1>4. IF many \/ nf2 = MaxFailures THEN told + nf2 <= rep + 1 ELSE told + nf2 = rep + 1
  BY <1>1, <1>2, <1>3, PartsTypes
<1>5. CountedFor(w, r, nf2, rep + 1)
  BY <1>4 DEF CountedFor, told, many
<1>6. QED
  BY <1>5 DEF Whole

\* A report leaves the log in one of these states.
LEMMA ReportFits ==
  ASSUME Log!LoggerInv, Log!Report
  PROVE  \E log \in Logs, nf \in 0 .. MaxFailures :
           /\ Whole(log, restarts, nf, reported + 1) /\ Continues(Log!Log, log)
           /\ Log!LogIs(log) /\ n_failures' = nf /\ reported' = reported + 1 /\ restarts' = restarts
           /\ reported + 1 \in 0 .. MaxMessages
<1> DEFINE log == Log!Log
<1>1. /\ restarts \in 0 .. MaxRestarts /\ n_failures \in 0 .. MaxFailures /\ reported \in 0 .. MaxMessages
      /\ Whole(log, restarts, n_failures, reported)
  BY LogNow
<1>2. reported < MaxMessages /\ reported' = reported + 1 /\ restarts' = restarts /\ reported + 1 \in 0 .. MaxMessages
  BY <1>1, PartsTypes DEF Log!Report
<1>3. PICK o \in Log!LostNotice(log) :
        IF ~o.ok
          THEN /\ Log!LogIs(o.log)
               /\ n_failures' = IF n_failures = MaxFailures THEN MaxFailures ELSE n_failures + 1
          ELSE \E p \in Log!BackendReport(o.log, Log!Entry("message", reported')) :
                 Log!LogIs(p.log) /\ n_failures' = IF p.ok THEN 0 ELSE 1
  BY DEF Log!Report
<1> HIDE DEF log
<1>4. /\ Whole(o.log, restarts, IF o.ok THEN 0 ELSE n_failures, reported) /\ o.ok \in BOOLEAN
      /\ Len(log.written) <= Len(o.log.written)
      /\ Grew(log, o.log) \/ Rotated(log, o.log)
  BY <1>1, NoticeFits
<1>5. CASE ~o.ok
  <2> DEFINE nf == IF n_failures = MaxFailures THEN MaxFailures ELSE n_failures + 1
  <2>1. nf \in 0 .. MaxFailures /\ (nf = MaxFailures \/ nf = n_failures + 1)
    BY <1>1, PartsTypes
  <2>2. Whole(o.log, restarts, nf, reported + 1)
    BY <1>1, <1>4, <1>5, LossIsCounted
  <2>3. o.log \in Logs
    BY <1>4 DEF Whole, LogFits, LogKeeps
  <2>4. QED
    BY <1>2, <1>3, <1>4, <1>5, <2>1, <2>2, <2>3 DEF Continues, log
<1>6. CASE o.ok
  <2>1. PICK p \in Log!BackendReport(o.log, Log!Entry("message", reported + 1)) :
               Log!LogIs(p.log) /\ n_failures' = IF p.ok THEN 0 ELSE 1
    BY <1>2, <1>3, <1>6
  <2> DEFINE nf == IF p.ok THEN 0 ELSE 1
  <2>2. Whole(p.log, restarts, nf, reported + 1) /\ p.ok \in BOOLEAN /\ Continues(log, p.log)
    BY <1>1, <1>2, <1>6, <2>1, NoticeThenMessage
  <2>3. nf \in 0 .. MaxFailures
    BY PartsTypes
  <2>4. p.log \in Logs
    BY <2>2 DEF Whole, LogFits, LogKeeps
  <2>5. QED
    BY <1>2, <2>1, <2>2, <2>3, <2>4 DEF log
<1>7. QED
  BY <1>4, <1>5, <1>6

\* Another process comes: the log tells nothing of its messages, and it has noticed nothing.
Killed(log) == [Log!Opened(log) EXCEPT !.rotate_reported = FALSE]

LEMMA AnotherProcess ==
  ASSUME NEW r \in Nat, NEW nf, NEW rep, NEW log, Whole(log, r, nf, rep)
  PROVE  /\ Whole(Killed(log), r + 1, 0, 0) /\ Grew(log, Killed(log))
         /\ Killed(log).written = log.written
<1> DEFINE log2 == Killed(log)
           opened == Log!Opened(log)
           w == log.written
           q == r + 1
<1>1. /\ LogFits(opened, r) /\ Grew(log, opened) /\ opened.written = w
      /\ log \in Logs /\ opened \in Logs /\ opened.files[0] # Absent
  BY OpeningFits DEF Whole, LogFits, LogKeeps
<1>2. log2 = [opened EXCEPT !.rotate_reported = FALSE]
  BY DEF Killed
<1> HIDE DEF opened, log2
<1>3. log2 \in Logs /\ log2.files = opened.files /\ log2.written = w
  BY <1>1, <1>2, FlaggedIs
<1>4. w \in Seq(Log!Entries) /\ Len(w) \in Nat /\ opened.files \in Dir
      /\ \A l \in Log!Levels : log2.files[l] # Absent => log2.files[l] \in Seq(Log!Entries)
  BY <1>1, <1>3, LogTypes, FilesOf
<1>5. ASSUME NEW s \in Seq(Log!Entries), InOrder(s, r) PROVE InOrder(s, q) /\ NotNoticed(s, q)
  <2>1. \A i \in 1 .. Len(s) : s[i].process \in Nat
    <3>1. \A i \in 1 .. Len(s) : s[i] \in Log!Entries
      OBVIOUS
    <3>2. QED
      BY <3>1, PartsTypes DEF Log!Entries
  <2>2. \A i \in 1 .. Len(s) : s[i].process <= q /\ s[i].process # q
    BY <1>5, <2>1 DEF InOrder
  <2>3. QED
    BY <1>5, <2>2 DEF InOrder, NotNoticed
<1>6. LogKeeps(log2, q)
  BY <1>1, <1>3, <1>4, <1>5 DEF LogKeeps, LogFits
<1>7. NotNoticed(log2.files[0], q)
  BY <1>1, <1>3, <1>4, <1>5, ZeroIsALevel DEF LogKeeps, LogFits
<1>8. \A i \in 1 .. Len(w) : w[i].process <= r /\ w[i].process \in Nat
  <2>1. \A i \in 1 .. Len(w) : w[i] \in Log!Entries
    BY <1>4
  <2>2. QED
    BY <2>1, PartsTypes DEF Log!Entries, Whole, FollowIn
<1>9. FollowIn(w, q) /\ \A i \in 1 .. Len(w) : w[i].process # q
  BY <1>8 DEF FollowIn
<1>10. Log!Told(w, q, Len(w)) = 0 /\ ~Log!ManyLost(w, q, Len(w))
  <2>1. Len(w) \in 0 .. Len(w)
    BY <1>4
  <2>2. Log!Told(w, q, Len(w)) = 0
    BY <1>4, <1>9, <2>1, ToldIsANumber
  <2>3. QED
    BY <1>9, <2>2 DEF Log!ManyLost
<1>11. CountedFor(w, q, 0, 0)
  BY <1>10 DEF CountedFor
<1>12. Log!EachTellsLosses(w)
  BY DEF Whole
<1>13. Whole(log2, q, 0, 0)
  BY <1>3, <1>6, <1>7, <1>9, <1>11, <1>12 DEF Whole, LogFits
<1>14. Grew(log, log2)
  BY <1>1, <1>3 DEF Grew
<1>15. QED
  BY <1>3, <1>13, <1>14 DEF log2

LEMMA RestartFits ==
  ASSUME Log!LoggerInv, Log!Restart
  PROVE  \E log \in Logs :
           /\ Whole(log, restarts + 1, 0, 0) /\ Continues(Log!Log, log)
           /\ Log!LogIs(log) /\ n_failures' = 0 /\ reported' = 0 /\ restarts' = restarts + 1
           /\ restarts + 1 \in 0 .. MaxRestarts
<1> DEFINE log == Log!Log
           m == Log!Entry("message", reported + 1)
<1>1. /\ restarts \in 0 .. MaxRestarts /\ n_failures \in 0 .. MaxFailures /\ reported \in 0 .. MaxMessages
      /\ Whole(log, restarts, n_failures, reported)
  BY LogNow
<1>2. /\ reported < MaxMessages /\ n_failures' = 0 /\ reported' = 0 /\ restarts' = restarts + 1
      /\ restarts + 1 \in 0 .. MaxRestarts /\ restarts \in Nat
  BY <1>1, PartsTypes DEF Log!Restart
<1>3. \E o \in Log!LostNotice(log) :
        \/ Log!LogIs(Killed(o.log))
        \/ o.ok /\ \E p \in Log!BackendReport(o.log, m) : Log!LogIs(Killed(p.log))
  BY DEF Log!Restart, Log!Then, Killed
<1>4. PICK o \in Log!LostNotice(log) :
        \/ Log!LogIs(Killed(o.log))
        \/ o.ok /\ \E p \in Log!BackendReport(o.log, m) : Log!LogIs(Killed(p.log))
  BY <1>3
<1> HIDE DEF log
<1>5. /\ Whole(o.log, restarts, IF o.ok THEN 0 ELSE n_failures, reported) /\ o.ok \in BOOLEAN
      /\ Continues(log, o.log)
  BY <1>1, NoticeFits DEF Continues
<1>6. \E nf, rep, p : Whole(p.log, restarts, nf, rep) /\ Continues(log, p.log) /\ Log!LogIs(Killed(p.log))
  <2>1. CASE Log!LogIs(Killed(o.log))
    BY <1>5, <2>1
  <2>2. CASE o.ok /\ \E p \in Log!BackendReport(o.log, m) : Log!LogIs(Killed(p.log))
    <3>1. PICK p \in Log!BackendReport(o.log, m) : Log!LogIs(Killed(p.log))
      BY <2>2
    <3>2. Whole(p.log, restarts, IF p.ok THEN 0 ELSE 1, reported + 1) /\ Continues(log, p.log)
      BY <1>1, <1>2, <2>2, <3>1, NoticeThenMessage
    <3>3. QED
      BY <3>1, <3>2
  <2>3. QED
    BY <1>4, <2>1, <2>2
<1>7. PICK nf, rep, p : Whole(p.log, restarts, nf, rep) /\ Continues(log, p.log) /\ Log!LogIs(Killed(p.log))
  BY <1>6
<1> DEFINE log2 == Killed(p.log)
<1>8. Whole(log2, restarts + 1, 0, 0) /\ Grew(p.log, log2) /\ log2.written = p.log.written
  BY <1>2, <1>7, AnotherProcess
<1>9. Log!LogIs(log2)
  BY <1>7
<1> HIDE DEF log2
<1>10. log \in Logs /\ p.log \in Logs /\ log2 \in Logs
  BY <1>1, <1>7, <1>8 DEF Whole, LogFits, LogKeeps
<1>11. Len(p.log.written) \in Nat
  BY <1>10, LogTypes
<1>12. Continues(log, log2)
  BY <1>7, <1>8, <1>10, <1>11, OneAfterTheOther DEF Continues
<1>13. QED
  BY <1>2, <1>8, <1>9, <1>10, <1>12 DEF log

-----------------------------------------------------------------------------
LEMMA LogStarts ==
  ASSUME Log!LoggerInit
  PROVE  Log!LoggerInv
<1> DEFINE log == Log!Log
           fs0 == [l \in Log!Levels |-> Absent]
<1>1. /\ files = [i \in Log!Levels |-> IF i = 0 THEN <<>> ELSE Absent]
      /\ rotate_reported = FALSE /\ n_failures = 0 /\ reported = 0 /\ restarts = 0 /\ written = <<>>
  BY DEF Log!LoggerInit
<1>2. <<>> \in Seq(Log!Entries) /\ Len(<<>>) = 0 /\ <<>> # Absent /\ DOMAIN <<>> = {} /\ \A i \in 1 .. 0 : FALSE
  <2>1. <<>> \in Seq(Log!Entries)
    BY EmptySeq
  <2>2. <<>> # Absent
    BY <2>1, PartsTypes
  <2>3. Len(<<>>) = 0 /\ DOMAIN <<>> = {} /\ \A i \in 1 .. 0 : FALSE
    OBVIOUS
  <2>4. QED
    BY <2>1, <2>2, <2>3
<1>3. files \in Dir /\ files[0] = <<>> /\ \A l \in Log!Levels : files[l] # Absent => files[l] = <<>>
  BY <1>1, <1>2, ZeroIsALevel DEF Dir
<1>4. Log!KeptIn(files) = <<>>
  <2>1. PICK g \in [0 .. RotationDepth + 1 -> Seq(Log!Entries)] :
          Gathers(g, files) /\ Log!KeptIn(files) = g[RotationDepth + 1]
    BY <1>3, KeptIsGathered
  <2> DEFINE D == {k \in Nat : k <= RotationDepth + 1 => g[k] = <<>>}
  <2>2. 0 \in D
    BY <2>1 DEF Gathers
  <2>3. ASSUME NEW k \in Nat, k \in D PROVE k + 1 \in D
    <3>1. SUFFICES ASSUME k + 1 <= RotationDepth + 1 PROVE g[k + 1] = <<>>
      OBVIOUS
    <3> DEFINE j == k + 1
               f == Log!NthOldest(files, j)
    <3>2. j \in 1 .. RotationDepth + 1 /\ j - 1 = k /\ k <= RotationDepth + 1
      BY <3>1, PartsTypes
    <3>3. g[k] = <<>>
      BY <2>3, <3>2
    <3>4. f = Absent \/ f = <<>>
      BY <1>3, <3>2, LevelOf DEF Log!NthOldest
    <3> HIDE DEF j, f
    <3>5. g[j] = IF f = Absent THEN g[j - 1] ELSE g[j - 1] \o f
      BY <2>1, <3>2 DEF Gathers, f
    <3>6. <<>> \o <<>> = <<>>
      BY <1>2, ConcatEmptySeq
    <3>7. g[j] = <<>>
      BY <3>2, <3>3, <3>4, <3>5, <3>6
    <3>8. QED
      BY <3>7 DEF j
  <2>4. RotationDepth + 1 \in Nat /\ RotationDepth + 1 <= RotationDepth + 1
    BY PartsTypes
  <2> HIDE DEF D
  <2>5. RotationDepth + 1 \in D
    BY <2>2, <2>3, <2>4, SetInduction
  <2>6. QED
    BY <2>1, <2>4, <2>5 DEF D
<1>5. SubSeq(written, Len(written) - Len(Log!KeptIn(files)) + 1, Len(written)) = <<>>
  <2>1. EndOf(Log!KeptIn(files), written)
    BY <1>1, <1>2, <1>4 DEF EndOf
  <2>2. QED
    BY <1>1, <1>2, <1>4, <2>1, EndIs
<1>6. Log!Told(written, restarts, Len(written)) = 0 /\ ~Log!ManyLost(written, restarts, Len(written))
  <2>1. 0 \in 0 .. Len(written) /\ \A k \in 1 .. 0 : FALSE
    BY <1>1, <1>2
  <2>2. Log!Told(written, restarts, 0) = 0
    BY <1>1, <1>2, <2>1, ToldIsANumber
  <2>3. ~Log!ManyLost(written, restarts, 0)
    BY <2>1 DEF Log!ManyLost
  <2>4. QED
    BY <1>1, <1>2, <2>2, <2>3
<1>7. Log!LoggerTypeOK
  <2>1. 0 \in 0 .. MaxFailures /\ 0 \in 0 .. MaxMessages /\ 0 \in 0 .. MaxRestarts
    BY PartsTypes
  <2>2. files \in [Log!Levels -> Seq(Log!Entries) \cup {Absent}]
    BY <1>3 DEF Dir
  <2>3. QED
    BY <1>1, <1>2, <2>1, <2>2 DEF Log!LoggerTypeOK
<1>8. Log!ProcessesFollow /\ Log!NoticeIsNotRepeated /\ Log!NoticeIsRemembered
  BY <1>1, <1>2, <1>3 DEF Log!ProcessesFollow, Log!NoticeIsNotRepeated, Log!NoticeIsRemembered
<1>9. Log!LossesAreTold
  BY <1>1, <1>2 DEF Log!LossesAreTold, Log!EachTellsLosses
<1>10. Log!LossesAreCounted
  BY <1>1, <1>6, PartsTypes DEF Log!LossesAreCounted
<1>11. Log!KeptIsLast
  BY <1>1, <1>2, <1>4, <1>5 DEF Log!KeptIsLast, Log!Kept
<1>12. QED
  BY <1>7, <1>8, <1>9, <1>10, <1>11 DEF Log!LoggerInv

\* Each step of the log: it becomes another one, which continues it.
LEMMA LogSteps ==
  ASSUME Log!LoggerInv, Log!LoggerNext
  PROVE  \E log \in Logs, r \in 0 .. MaxRestarts, nf \in 0 .. MaxFailures, rep \in 0 .. MaxMessages :
           /\ Whole(log, r, nf, rep) /\ Continues(Log!Log, log) /\ Log!LogIs(log)
           /\ n_failures' = nf /\ reported' = rep /\ restarts' = r
<1>1. restarts \in 0 .. MaxRestarts
  BY DEF Log!LoggerInv, Log!LoggerTypeOK
<1>2. 0 \in 0 .. MaxFailures /\ 0 \in 0 .. MaxMessages
  BY PartsTypes
<1>3. CASE Log!Report
  BY <1>1, <1>3, ReportFits
<1>4. CASE Log!Restart
  BY <1>2, <1>4, RestartFits
<1>5. QED
  BY <1>3, <1>4 DEF Log!LoggerNext

LEMMA LogGoesOn ==
  ASSUME Log!LoggerInv, PartsNext
  PROVE  Log!LoggerInv'
<1>1. CASE Log!LoggerNext
  BY <1>1, LogSteps, LogThen
<1>2. CASE UNCHANGED logVars
  BY <1>2 DEF logVars, Log!LoggerInv, Log!LoggerTypeOK, Log!ProcessesFollow, Log!NoticeIsNotRepeated,
     Log!NoticeIsRemembered, Log!LossesAreTold, Log!LossesAreCounted, Log!KeptIsLast, Log!Kept
<1>3. QED
  BY <1>1, <1>2 DEF PartsNext

(***************************************************************************)
(* At every moment, whatever has failed and whoever was killed: the files  *)
(* hold the end of what was written, in order; the notice of a rotation is *)
(* remembered while the file it is in is there, and not repeated; and the  *)
(* messages that are not in the log were told of or are still counted.     *)
(***************************************************************************)
THEOREM LogInvariance == PartsSpec => []Log!LoggerInv
<1>1. PartsInit => Log!LoggerInv
  BY LogStarts DEF PartsInit
<1>2. Log!LoggerInv /\ [PartsNext]_partsVars => Log!LoggerInv'
  <2>1. CASE PartsNext
    BY <2>1, LogGoesOn
  <2>2. CASE UNCHANGED partsVars
    BY <2>2 DEF partsVars, logVars, Log!LoggerInv, Log!LoggerTypeOK, Log!ProcessesFollow, Log!NoticeIsNotRepeated,
     Log!NoticeIsRemembered, Log!LossesAreTold, Log!LossesAreCounted, Log!KeptIsLast, Log!Kept
  <2>3. QED
    BY <2>1, <2>2
<1>3. QED
  BY <1>1, <1>2, PTL DEF PartsSpec

LEMMA LogContinues ==
  ASSUME Log!LoggerInv, Log!LoggerNext
  PROVE  Log!Continued
<1>1. PICK log \in Logs, r \in 0 .. MaxRestarts, nf \in 0 .. MaxFailures, rep \in 0 .. MaxMessages :
        /\ Whole(log, r, nf, rep) /\ Continues(Log!Log, log) /\ Log!LogIs(log)
        /\ n_failures' = nf /\ reported' = rep /\ restarts' = r
  BY LogSteps
<1> DEFINE log0 == Log!Log
           w == Len(log0.written)
           w2 == Len(log.written)
           k == Len(Log!KeptIn(log0.files))
           k2 == Len(Log!KeptIn(log.files))
           d == Len(OldestOf(log0.files))
<1>2. log0.files = files /\ log0.written = written /\ log0 \in Logs
  BY LogNow DEF Whole, LogFits, LogKeeps
<1>3. Continues(log0, log)
  BY <1>1
<1> HIDE DEF log0
<1>4. w \in Nat /\ w2 \in Nat /\ k \in Nat /\ k2 \in Nat /\ d \in Nat
  BY <1>1, <1>2, LogTypes
<1>5. d = Log!OldestLength
  BY <1>2 DEF OldestOf, Log!OldestLength
<1>6. /\ files' = log.files /\ written' = log.written
      /\ Log!KeptIn(log.files) = SubSeq(log.written, w2 - k2 + 1, w2)
  <2>1. EndOf(Log!KeptIn(log.files), log.written) /\ k2 <= w2
    BY <1>1 DEF Whole, LogFits, LogKeeps, EndOf
  <2>2. Log!KeptIn(log.files) \in Seq(Log!Entries) /\ log.written \in Seq(Log!Entries)
    BY <1>1, LogTypes
  <2>3. QED
    BY <1>1, <2>1, <2>2, EndIs DEF Log!LogIs
<1>7. \E n \in Log!MayBeDeleted(w2 - w) : k2 = k + (w2 - w) - n /\ n \in Nat
  <2>1. w <= w2 /\ (Grew(log0, log) \/ Rotated(log0, log))
    BY <1>3 DEF Continues
  <2>2. CASE Grew(log0, log)
    <3>1. k2 = k + (w2 - w)
      BY <2>2 DEF Grew
    <3> HIDE DEF w, w2, k, k2
    <3>2. k2 = k + (w2 - w) - 0
      BY <1>4, <3>1
    <3>3. 0 \in Log!MayBeDeleted(w2 - w)
      BY DEF Log!MayBeDeleted
    <3>4. QED
      BY <3>2, <3>3
  <2>3. CASE Rotated(log0, log)
    <3>1. PICK n \in Nat : /\ k2 = k + (w2 - w) - n
                           /\ IF RotationDepth = 0 THEN d <= n /\ n <= d + (w2 - w) ELSE n = d
      BY <2>3 DEF Rotated
    <3> HIDE DEF w, w2, k, k2, d
    <3>2. n \in Log!MayBeDeleted(w2 - w)
      BY <1>4, <1>5, <3>1, PartsTypes DEF Log!MayBeDeleted
    <3>3. QED
      BY <3>1, <3>2
  <2>4. QED
    BY <2>1, <2>2, <2>3
<1>8. PICK n \in Log!MayBeDeleted(w2 - w) : k2 = k + (w2 - w) - n /\ n \in Nat
  BY <1>7
<1>9. w2 - k2 + 1 = w - k + n + 1
  <2> HIDE DEF w, w2, k, k2
  <2> QED BY <1>4, <1>8
<1>10. Log!KeptIn(log.files) = SubSeq(log.written, w - k + n + 1, w2)
  BY <1>6, <1>9
<1>11. QED
  BY <1>2, <1>6, <1>8, <1>10 DEF Log!Continued, Log!Kept

(***************************************************************************)
(* Before each message in the log, every earlier message of its process is *)
(* there too or is counted by a notice, once: logger_t::report() forgets   *)
(* the failures only when it has written of them.                          *)
(***************************************************************************)
THEOREM LossesAreToldInvariance == PartsSpec => []LossesAreTold
<1>1. Log!LoggerInv => LossesAreTold
  BY DEF Log!LoggerInv, LossesAreTold
<1>2. QED
  BY <1>1, LogInvariance, PTL

(***************************************************************************)
(* No report and no rotation, even if it fails or is killed half-way,      *)
(* loses or reorders anything in the files, except for the oldest file     *)
(* that a rotation deletes: a file is never renamed to one that exists.    *)
(***************************************************************************)
THEOREM LogIsContinued == PartsSpec => LogIsKept
<1>1. Log!LoggerInv /\ [PartsNext]_partsVars => [Log!Continued]_(Log!logVars)
  <2>1. ASSUME Log!LoggerInv, PartsNext PROVE Log!Continued \/ UNCHANGED Log!logVars
    <3>1. CASE Log!LoggerNext
      BY <2>1, <3>1, LogContinues
    <3>2. CASE UNCHANGED logVars
      BY <3>2 DEF logVars, Log!logVars
    <3>3. QED
      BY <2>1, <3>1, <3>2 DEF PartsNext
  <2>2. CASE UNCHANGED partsVars
    BY <2>2 DEF partsVars, logVars, Log!logVars
  <2>3. QED
    BY <2>1, <2>2
<1>2. QED
  BY <1>1, LogInvariance, PTL DEF PartsSpec, LogIsKept, Log!LogIsKept

(***************************************************************************)
(* The integrity of the three parts, at every moment: the links, indexes   *)
(* and free stacks of the list arena and the indexed heap, and what the    *)
(* log's files hold.                                                       *)
(***************************************************************************)
THEOREM PartsInvariance == PartsSpec => []PartsInv
BY StructuresInvariance, LogInvariance, PTL DEF PartsInv

=============================================================================
