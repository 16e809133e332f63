-------------------------- MODULE DispatcherProofs --------------------------
(***************************************************************************)
(* Proofs about Dispatcher, for any number of threads, clients, requests   *)
(* and connections.                                                        *)
(***************************************************************************)
EXTENDS Dispatcher, SequenceFacts

-----------------------------------------------------------------------------
(***************************************************************************)
(* The list of monitored clients.                                          *)
(***************************************************************************)
LEMMA MonitoredIsDistinct ==
  ASSUME IInv
  PROVE  Distinct(monitored_clients) /\ IsFiniteSet(Monitored)
BY DistinctIsCounted DEF IInv, TypeOK, ClientOwnership, Monitored

LEMMA MonitorPutsInFront ==
  ASSUME IInv, NEW c \in Clients, c \notin Monitored, Monitor(c)
  PROVE  /\ monitored_clients' \in Seq(Clients)
         /\ Len(monitored_clients') = Cardinality(Monitored')
         /\ Evicted \subseteq Monitored
         /\ Monitored' = (Monitored \ Evicted) \cup {c}
         /\ peer' = [d \in Clients |-> IF d = c THEN "accepted"
                                       ELSE IF d \in Evicted THEN "gone" ELSE peer[d]]
         /\ Lose(Evicted)
<1> DEFINE rest == IF Full THEN Front(monitored_clients) ELSE monitored_clients
<1>1. monitored_clients \in Seq(Clients) /\ Distinct(monitored_clients)
  BY MonitoredIsDistinct DEF IInv, TypeOK
<1>2. Full => monitored_clients # <<>>
  BY <1>1 DEF Full
<1>3. /\ rest \in Seq(Clients) /\ Distinct(rest)
      /\ ToSet(rest) = Monitored \ Evicted
      /\ Evicted \subseteq Monitored
  BY <1>1, <1>2, TakeOffTheEnd DEF Monitored, Evicted
<1>4. monitored_clients' = <<c>> \o rest
  BY DEF Monitor
<1> HIDE DEF rest
<1>5. /\ monitored_clients' \in Seq(Clients) /\ Distinct(monitored_clients')
      /\ Monitored' = (Monitored \ Evicted) \cup {c}
  BY <1>3, <1>4, PutInFront DEF Monitored
<1>6. peer' = [d \in Clients |-> IF d = c THEN "accepted"
                                 ELSE IF d \in Evicted THEN "gone" ELSE peer[d]]
  BY DEF Monitor
<1>7. QED
  BY <1>3, <1>5, <1>6, DistinctIsCounted DEF Monitored, Monitor

LEMMA LosingIsTyped ==
  ASSUME TypeOK, NEW closed, Lose(closed)
  PROVE  input' \in [Clients -> Nat] /\ eof' \in [Clients -> BOOLEAN]
BY DEF TypeOK, Lose

LEMMA UnmonitorTakesOut ==
  ASSUME IInv, NEW i \in DOMAIN monitored_clients, Unmonitor(i)
  PROVE  /\ monitored_clients' \in Seq(Clients)
         /\ Len(monitored_clients') = Cardinality(Monitored')
         /\ monitored_clients[i] \in Monitored /\ monitored_clients[i] \in Clients
         /\ Monitored' = Monitored \ {monitored_clients[i]}
<1>0. monitored_clients \in Seq(Clients) /\ Distinct(monitored_clients)
  BY MonitoredIsDistinct DEF IInv, TypeOK
<1>1. monitored_clients \in Seq(Clients) /\ Distinct(monitored_clients) /\ i \in 1 .. Len(monitored_clients)
  BY <1>0
<1>2. /\ monitored_clients' \in Seq(Clients) /\ Distinct(monitored_clients')
      /\ Monitored' = Monitored \ {monitored_clients[i]}
  BY <1>1, TakeOut DEF Unmonitor, Monitored
<1>3. monitored_clients[i] \in Monitored /\ monitored_clients[i] \in Clients
  BY <1>1 DEF Monitored, ToSet
<1>4. QED
  BY <1>2, <1>3, DistinctIsCounted DEF Monitored

-----------------------------------------------------------------------------
(***************************************************************************)
(* The initial state.                                                      *)
(***************************************************************************)
LEMMA InitIInv == Init => IInv
<1> SUFFICES ASSUME Init PROVE IInv
  OBVIOUS
<1> USE DispatcherAssumption DEF Init, Threads, Mutex!Init
<1>1. TypeOK
  <2>1. <<>> \in Seq(Clients) /\ 0 \in 0 .. MaxConcurrentRequests
    BY EmptySeq
  <2>2. QED
    BY <2>1 DEF TypeOK, Labels
<1>2. ThreadsFit /\ RunFits /\ RequestsAreThere /\ AssertsHold
  BY DEF ThreadsFit, Fits, RunFits, RequestsAreThere, Urgent, AssertsHold
<1>3. ClientOwnership
  <2>1. Monitored = {} /\ Cardinality({}) = 0
    BY FS_EmptySet DEF Monitored, ToSet
  <2>2. QED
    BY <2>1 DEF ClientOwnership, Urgent
<1>4. Counts
  <2>1. Idlers = {} /\ Cardinality({}) = 0
    BY FS_EmptySet DEF Idlers, Idle, Live
  <2>2. Cardinality(waiters) = 0
    BY <2>1
  <2>3. QED
    BY <2>1, <2>2 DEF Counts
<1>5. QED
  BY <1>1, <1>2, <1>3, <1>4 DEF IInv

-----------------------------------------------------------------------------
(***************************************************************************)
(* Types.  No counter is decremented when it is zero: n_idle_threads and   *)
(* the flag are counts, and a request that is handled has been there.      *)
(***************************************************************************)
LEMMA CountsAreFinite ==
  ASSUME IInv
  PROVE  /\ IsFiniteSet(Idlers) /\ IsFiniteSet(waiters)
         /\ Cardinality(Idlers) \in Nat
         /\ Cardinality(waiters) \in Nat
<1>1. IsFiniteSet(Threads)
  BY FS_Interval, DispatcherAssumption DEF Threads
<1>2. waiters \subseteq Threads /\ Idlers \subseteq Threads
  BY DEF IInv, TypeOK, Idlers
<1>3. QED
  BY <1>1, <1>2, FS_Subset, FS_CardinalityType

LEMMA IdlerIsCounted ==
  ASSUME IInv, NEW t \in Idlers
  PROVE  /\ n_idle_threads > 0
         /\ Cardinality(Idlers \ {t}) = n_idle_threads - 1
<1>1. Cardinality(Idlers \ {t}) = Cardinality(Idlers) - 1
  BY CountsAreFinite, FS_RemoveElement
<1>2. Cardinality(Idlers) # 0
  BY CountsAreFinite, FS_EmptySet
<1>3. QED
  BY <1>1, <1>2, CountsAreFinite DEF IInv, Counts

LEMMA ThreadTypes ==
  ASSUME IInv, NEW t \in Threads, ThreadNext(t)
  PROVE  TypeOK'
<1> USE DispatcherAssumption DEF Goto, lockVars, coreVars, threadVars, poolVars, runVars, peerVars
<1>t. TypeOK
  BY DEF IInv
<1>1. CASE NormalLock(t)
  BY <1>1, <1>t DEF NormalLock, Mutex!NormalLock, TypeOK, Labels
<1>2. CASE UrgentRegister(t)
  BY <1>2, <1>t DEF UrgentRegister, Mutex!Register, TypeOK, Labels
<1>3. CASE UrgentLock(t)
  BY <1>3, <1>t DEF UrgentLock, Mutex!UrgentLock, TypeOK, Labels
<1>4. CASE Resume(t)
  <2>1. /\ current_client[t] \in Clients /\ current_client[t] \notin Monitored
    BY <1>4, <1>t DEF Resume, IInv, ThreadsFit, Fits, TypeOK, ClientOwnership
  <2>2. /\ monitored_clients' \in Seq(Clients)
        /\ peer' \in [Clients -> {"away", "queued", "accepted", "gone"}]
        /\ input' \in [Clients -> Nat] /\ eof' \in [Clients -> BOOLEAN]
    <3>1. CASE Monitor(current_client[t])
      BY <1>t, <2>1, <3>1, MonitorPutsInFront, LosingIsTyped DEF TypeOK
    <3>2. CASE /\ peer' = [peer EXCEPT ![current_client[t]] = "gone"]
               /\ Lose({current_client[t]})
               /\ UNCHANGED monitored_clients
      BY <1>t, <3>2, LosingIsTyped DEF TypeOK
    <3>3. QED
      BY <1>4, <3>1, <3>2 DEF Resume
  <2>3. /\ UNCHANGED <<lockVars, woken_up, selected_client, handler_completed, thread_flag,
                       n_threads, frozen, runVars>>
        /\ served_clients' \subseteq served_clients /\ detected' \subseteq detected
        /\ current_client' = [current_client EXCEPT ![t] = None]
        /\ n_idle_threads' = n_idle_threads + 1 /\ pc' = [pc EXCEPT ![t] = "check"]
    BY <1>4 DEF Resume
  <2>4. QED
    BY <1>t, <2>2, <2>3 DEF TypeOK, Labels
<1>5. CASE CheckStopping(t)
  <2>1. n_idle_threads > 0
    BY <1>5, IdlerIsCounted DEF CheckStopping, IInv, ThreadsFit, Fits, Idlers, Idle, Live
  <2>2. n_idle_threads' \in Nat
    BY <1>5, <1>t, <2>1 DEF CheckStopping, TypeOK
  <2>3. QED
    BY <1>5, <1>t, <2>2 DEF CheckStopping, TypeOK, Labels
<1>6. CASE OnWakeupFlag(t)
  BY <1>6, <1>t DEF OnWakeupFlag, TypeOK
<1>16. CASE SelectorFinds(t)
  <2>1. Ready \subseteq Clients \cup {"flag", "listener"}
    BY <1>t DEF Ready, ToSet, TypeOK
  <2>2. QED
    BY <1>16, <1>t, <2>1 DEF SelectorFinds, TypeOK
<1>7. CASE OnListenerReady(t)
  <2>1. PICK c \in Clients : peer[c] = "queued" /\ Monitor(c)
    BY <1>7 DEF OnListenerReady
  <2>2. c \notin Monitored
    BY <2>1 DEF IInv, ClientOwnership
  <2>3. /\ monitored_clients' \in Seq(Clients)
        /\ peer' \in [Clients -> {"away", "queued", "accepted", "gone"}]
        /\ input' \in [Clients -> Nat] /\ eof' \in [Clients -> BOOLEAN]
    BY <1>t, <2>1, <2>2, MonitorPutsInFront, LosingIsTyped DEF TypeOK
  <2>4. QED
    BY <1>7, <1>t, <2>3 DEF OnListenerReady, TypeOK
<1>8. ASSUME NEW i \in DOMAIN monitored_clients, OnClientReadable(t, i)
      PROVE  TypeOK'
  <2>1. /\ monitored_clients' \in Seq(Clients)
        /\ monitored_clients[i] \in Clients
    BY <1>8, UnmonitorTakesOut DEF OnClientReadable
  <2>2. QED
    BY <1>8, <1>t, <2>1 DEF OnClientReadable, TypeOK
<1>9. CASE PushedAside(t)
  BY <1>9, <1>t DEF PushedAside, TypeOK, Labels
<1>10. CASE TakeClient(t)
  <2>1. n_idle_threads > 0
    BY <1>10, IdlerIsCounted DEF TakeClient, IInv, ThreadsFit, Fits, Idlers, Idle, Live
  <2>2. n_threads' \in 0 .. MaxConcurrentRequests
    BY <1>10, <1>t DEF TakeClient, TypeOK, CanAdd
  <2>3. pc' \in [Threads -> Labels]
    <3>1. pc \in [Threads -> Labels] /\ {"unlock", "enter"} \subseteq Labels
      BY <1>t DEF TypeOK, Labels
    <3>2. CASE pc' = [pc EXCEPT ![t] = "unlock", ![n_threads + 1] = "enter"]
      BY <3>1, <3>2
    <3>3. CASE pc' = [pc EXCEPT ![t] = "unlock"]
      BY <3>1, <3>3
    <3>4. QED
      BY <1>10, <3>2, <3>3 DEF TakeClient
  <2>4. QED
    BY <1>10, <1>t, <2>1, <2>2, <2>3 DEF TakeClient, TypeOK
<1>11. CASE Unlock(t)
  BY <1>11, <1>t DEF Unlock, Mutex!Unlock, TypeOK, Labels
<1>12. CASE HandlerCompletes(t)
  <2>1. current_client[t] \in Clients /\ input[current_client[t]] > 0
    BY <1>12, <1>t DEF HandlerCompletes, IInv, ThreadsFit, Fits, RequestsAreThere, Urgent, TypeOK
  <2>2. QED
    BY <1>12, <1>t, <2>1 DEF HandlerCompletes, TypeOK, Labels
<1>13. CASE HandlerInterrupted(t)
  BY <1>13, <1>t DEF HandlerInterrupted, TypeOK, Labels
<1>14. QED
  BY <1>1, <1>2, <1>3, <1>4, <1>5, <1>6, <1>7, <1>8, <1>9, <1>10, <1>11, <1>12, <1>13, <1>16
     DEF ThreadNext

LEMMA OtherTypes ==
  ASSUME IInv, RunStart \/ RunNext \/ Stop \/ PeerNext
  PROVE  TypeOK'
<1> USE DispatcherAssumption DEF Goto, lockVars, coreVars, threadVars, poolVars, runVars, peerVars
<1>t. TypeOK
  BY DEF IInv
<1>1. CASE RunStart
  BY <1>1, <1>t DEF RunStart, TypeOK, Labels, Threads
<1>2. CASE RunCatchSignal
  BY <1>2, <1>t DEF RunCatchSignal, TypeOK
<1>3. CASE RunRaise
  BY <1>3, <1>t DEF RunRaise, TypeOK
<1>4. CASE PoolFreeze
  BY <1>4, <1>t DEF PoolFreeze, TypeOK
<1>5. CASE JoinInterrupts
  BY <1>5, <1>t DEF JoinInterrupts, TypeOK
<1>6. CASE Joined
  BY <1>6, <1>t DEF Joined, TypeOK
<1>7. CASE RunReturn
  <2>1. flag' \in Nat /\ n_threads' \in 0 .. MaxConcurrentRequests
    BY <1>7, <1>t DEF RunReturn, TypeOK
  <2>2. pc' \in [Threads -> Labels]
    BY <1>7 DEF RunReturn, Labels
  <2>3. QED
    BY <1>7, <1>t, <2>1, <2>2 DEF RunReturn, TypeOK
<1>8. CASE Stop
  BY <1>8, <1>t DEF Stop, TypeOK
<1>9. ASSUME NEW c \in Clients, Connect(c) \/ SendRequest(c) \/ Close(c) \/ InputError(c)
      PROVE  TypeOK'
  <2>1. CASE Connect(c)
    BY <2>1, <1>t DEF Connect, TypeOK
  <2>2. CASE SendRequest(c)
    BY <2>2, <1>t DEF SendRequest, TypeOK
  <2>3. CASE Close(c)
    BY <2>3, <1>t DEF Close, TypeOK
  <2>4. CASE InputError(c)
    BY <2>4, <1>t DEF InputError, TypeOK
  <2>5. QED
    BY <1>9, <2>1, <2>2, <2>3, <2>4
<1>10. QED
  BY <1>1, <1>2, <1>3, <1>4, <1>5, <1>6, <1>7, <1>8, <1>9 DEF RunNext, PeerNext

(***************************************************************************)
(* A thread that takes a step is one that join() has still to wait for.    *)
(***************************************************************************)
LEMMA ThreadIsThere ==
  ASSUME IInv, NEW t \in Threads, ThreadNext(t)
  PROVE  /\ pc[t] \notin {"absent", "dead"}
         /\ main # "outside"
         /\ frozen => joining <= n_threads
<1>1. pc[t] \notin {"absent", "dead"}
  BY DEF ThreadNext, NormalLock, UrgentRegister, UrgentLock, Resume, CheckStopping, SelectorFinds,
         OnWakeupFlag, OnListenerReady, OnClientReadable, Selecting, PushedAside, TakeClient, Unlock,
         HandlerCompletes, HandlerInterrupted
<1>2. t <= n_threads /\ t \in 1 .. MaxConcurrentRequests /\ n_threads \in Nat /\ joining \in Nat
  BY <1>1 DEF IInv, TypeOK, ThreadsFit, Fits, Threads
<1>3. QED
  BY <1>1, <1>2 DEF IInv, RunFits

LEMMA ThreadsStayFit ==
  ASSUME IInv, NEW t \in Threads, ThreadNext(t)
  PROVE  ThreadsFit'
<1> USE DispatcherAssumption
    DEF Goto, lockVars, coreVars, threadVars, poolVars, runVars, peerVars, Fits, Threads
<1>t. TypeOK
  BY DEF IInv
<1> SUFFICES ASSUME NEW u \in Threads PROVE Fits(u)'
  BY DEF ThreadsFit
<1>u. Fits(t) /\ Fits(u) /\ (t = u \/ t # u)
  BY DEF IInv, ThreadsFit
<1>1. CASE NormalLock(t)
  BY <1>1, <1>t, <1>u DEF NormalLock, Mutex!NormalLock, TypeOK, Urgent
<1>2. CASE UrgentRegister(t)
  BY <1>2, <1>t, <1>u DEF UrgentRegister, Mutex!Register, TypeOK, Urgent
<1>3. CASE UrgentLock(t)
  BY <1>3, <1>t, <1>u DEF UrgentLock, Mutex!UrgentLock, TypeOK, Urgent
<1>4. CASE Resume(t)
  BY <1>4, <1>t, <1>u DEF Resume, TypeOK
<1>5. CASE CheckStopping(t)
  BY <1>5, <1>t, <1>u DEF CheckStopping, TypeOK
<1>6. CASE OnWakeupFlag(t)
  BY <1>6, <1>t, <1>u DEF OnWakeupFlag, TypeOK
<1>16. CASE SelectorFinds(t)
  BY <1>16, <1>t, <1>u DEF SelectorFinds, TypeOK
<1>7. CASE OnListenerReady(t)
  BY <1>7, <1>t, <1>u DEF OnListenerReady, TypeOK
<1>8. ASSUME NEW i \in DOMAIN monitored_clients, OnClientReadable(t, i)
      PROVE  Fits(u)'
  BY <1>8, <1>t, <1>u DEF OnClientReadable, TypeOK
<1>9. CASE PushedAside(t)
  BY <1>9, <1>t, <1>u DEF PushedAside, TypeOK
<1>10. CASE TakeClient(t)
  <2>1. pc[t] = "select" /\ selected_client # None /\ current_client'[t] = selected_client
    BY <1>10, <1>t DEF TakeClient, TypeOK
  <2>2. UNCHANGED <<holder, waiters, thread_flag, handler_completed, dispatcher_stopping>>
    BY <1>10 DEF TakeClient
  <2>3. CASE n_idle_threads = 1 /\ CanAdd
    <3>1. /\ n_threads' = n_threads + 1 /\ n_threads' \in Threads /\ t # n_threads + 1
          /\ pc' = [pc EXCEPT ![t] = "unlock", ![n_threads + 1] = "enter"]
      BY <1>10, <1>t, <1>u, <2>1, <2>3 DEF TakeClient, TypeOK, CanAdd
    <3>2. CASE u = t
      BY <1>t, <1>u, <2>1, <2>2, <3>1, <3>2 DEF TypeOK
    <3>3. CASE u = n_threads + 1
      <4>1. current_client'[u] = current_client[u] /\ pc'[u] = "enter"
        BY <1>10, <1>t, <3>1, <3>3 DEF TakeClient, TypeOK
      <4>2. QED
        BY <1>t, <1>u, <2>2, <3>1, <3>3, <4>1 DEF TypeOK
    <3>4. CASE u # t /\ u # n_threads + 1
      <4>1. current_client'[u] = current_client[u] /\ pc'[u] = pc[u]
        BY <1>10, <1>t, <3>1, <3>4 DEF TakeClient, TypeOK
      <4>2. u > n_threads <=> u > n_threads'
        BY <1>t, <3>1, <3>4 DEF TypeOK
      <4>3. QED
        BY <1>t, <1>u, <2>2, <4>1, <4>2 DEF TypeOK
    <3>5. QED
      BY <3>2, <3>3, <3>4
  <2>4. CASE ~(n_idle_threads = 1 /\ CanAdd)
    BY <1>10, <1>t, <1>u, <2>1, <2>2, <2>4 DEF TakeClient, TypeOK
  <2>5. QED
    BY <2>3, <2>4
<1>11. CASE Unlock(t)
  BY <1>11, <1>t, <1>u DEF Unlock, Mutex!Unlock, TypeOK
<1>12. CASE HandlerCompletes(t)
  BY <1>12, <1>t, <1>u DEF HandlerCompletes, TypeOK
<1>13. CASE HandlerInterrupted(t)
  BY <1>13, <1>t, <1>u DEF HandlerInterrupted, TypeOK
<1>14. QED
  BY <1>1, <1>2, <1>3, <1>4, <1>5, <1>6, <1>7, <1>8, <1>9, <1>10, <1>11, <1>12, <1>13, <1>16
     DEF ThreadNext

LEMMA ThreadsKeepRun ==
  ASSUME IInv, NEW t \in Threads, ThreadNext(t)
  PROVE  RunFits'
<1> USE DispatcherAssumption
    DEF Goto, lockVars, coreVars, threadVars, poolVars, runVars, peerVars
<1>t. TypeOK /\ RunFits
  BY DEF IInv
<1>m. /\ pc[t] \notin {"absent", "dead"} /\ main # "outside" /\ n_threads > 0
      /\ frozen => t \notin 1 .. joining - 1
  BY <1>t, ThreadIsThere DEF RunFits, Threads
<1>k. ASSUME UNCHANGED <<main, frozen, joining, n_threads, dispatcher_stopping>>,
             main = "running" /\ n_idle_threads' = 0 => n_threads = MaxConcurrentRequests,
             \A u \in Threads \ {t} : pc'[u] = pc[u]
      PROVE  RunFits'
  <2>1. frozen => \A u \in 1 .. joining - 1 : u \in Threads \ {t} /\ pc[u] = "dead"
    BY <1>t, <1>m DEF RunFits, Threads, TypeOK
  <2>2. QED
    BY <1>k, <1>t, <1>m, <2>1 DEF RunFits
<1>r. main = "running" /\ n_idle_threads = 0 => n_threads = MaxConcurrentRequests
  BY <1>t DEF RunFits
<1>1. CASE \/ NormalLock(t) \/ UrgentRegister(t) \/ UrgentLock(t) \/ PushedAside(t) \/ Unlock(t)
           \/ HandlerCompletes(t) \/ HandlerInterrupted(t)
           \/ SelectorFinds(t) \/ OnWakeupFlag(t) \/ OnListenerReady(t) \/ \E i \in DOMAIN monitored_clients : OnClientReadable(t, i)
  <2>1. /\ UNCHANGED <<main, frozen, joining, n_threads, dispatcher_stopping, n_idle_threads>>
        /\ \A u \in Threads \ {t} : pc'[u] = pc[u]
    BY <1>1, <1>t DEF NormalLock, UrgentRegister, UrgentLock, PushedAside, Unlock, TypeOK,
       HandlerCompletes, HandlerInterrupted, SelectorFinds, OnWakeupFlag, OnListenerReady, OnClientReadable
  <2>2. QED
    BY <2>1, <1>k, <1>r
<1>2. CASE Resume(t)
  BY <1>2, <1>t, <1>k DEF Resume, TypeOK
<1>3. CASE CheckStopping(t)
  BY <1>3, <1>t, <1>k, <1>r DEF CheckStopping, TypeOK, RunFits
<1>4. CASE TakeClient(t)
  <2>1. CASE CanAdd
    <3>1. /\ UNCHANGED <<main, frozen, joining, dispatcher_stopping>> /\ ~frozen
          /\ n_threads' > 0
      BY <1>4, <1>t, <1>m, <2>1 DEF TakeClient, CanAdd, TypeOK
    <3>2. n_idle_threads' # 0
      <4>1. n_idle_threads > 0 /\ n_idle_threads \in Nat
        BY <1>4, <1>t, IdlerIsCounted DEF TakeClient, IInv, ThreadsFit, Fits, Idlers, Idle, Live, TypeOK
      <4>2. QED
        BY <1>4, <4>1, <2>1 DEF TakeClient
    <3>3. QED
      BY <1>t, <1>m, <3>1, <3>2 DEF RunFits
  <2>2. CASE ~CanAdd
    <3>1. main = "running" => n_threads = MaxConcurrentRequests
      BY <1>t, <2>2 DEF CanAdd, RunFits, TypeOK
    <3>2. QED
      BY <1>4, <1>t, <1>k, <2>2, <3>1 DEF TakeClient, TypeOK
  <2>3. QED
    BY <2>1, <2>2
<1>5. QED
  BY <1>1, <1>2, <1>3, <1>4 DEF ThreadNext

LEMMA ThreadsKeepRequests ==
  ASSUME IInv, NEW t \in Threads, ThreadNext(t)
  PROVE  RequestsAreThere'
<1> USE DispatcherAssumption
    DEF Goto, lockVars, coreVars, threadVars, poolVars, runVars, peerVars, IInv, ThreadsFit, Fits, RequestsAreThere, Urgent, ClientOwnership, AssertsHold
<1>t. TypeOK
  BY DEF IInv
<1>1. CASE NormalLock(t)
  BY <1>1, <1>t DEF NormalLock, Mutex!NormalLock, TypeOK
<1>2. CASE UrgentRegister(t)
  BY <1>2, <1>t DEF UrgentRegister, Mutex!Register, TypeOK
<1>3. CASE UrgentLock(t)
  BY <1>3, <1>t DEF UrgentLock, Mutex!UrgentLock, TypeOK
<1>4. CASE Resume(t)
  <2> DEFINE c == current_client[t]
  <2>1. /\ c \in Clients /\ c \in served_clients /\ c \notin Monitored
        /\ current_client' = [current_client EXCEPT ![t] = None]
        /\ pc' = [pc EXCEPT ![t] = "check"]
        /\ UNCHANGED selected_client
    BY <1>4, <1>t DEF Resume, TypeOK
  <2>2. \A d \in served_clients : d # c => input'[d] = input[d]
    <3>1. CASE Monitor(c)
      <4>1. Evicted \subseteq Monitored /\ Lose(Evicted)
        BY <2>1, <3>1, MonitorPutsInFront
      <4>2. QED
        BY <4>1 DEF Lose
    <3>2. CASE Lose({c})
      BY <3>2 DEF Lose
    <3>3. QED
      BY <1>4, <3>1, <3>2 DEF Resume
  <2>3. t \in Urgent /\ c # None
    BY <2>1 DEF Urgent
  <2>4. selected_client # None => selected_client \in served_clients /\ selected_client # c
    BY <2>3 DEF ClientOwnership
  <2>5. ASSUME NEW u \in Urgent, u # t
        PROVE  current_client[u] \in served_clients /\ current_client[u] # c
    BY <2>3, <2>5 DEF ClientOwnership, Urgent
  <2>6. selected_client' # None => input'[selected_client'] > 0
    BY <2>1, <2>2, <2>4 DEF RequestsAreThere
  <2>7. ASSUME NEW u \in Urgent', pc'[u] \in {"unlock", "handle"}
        PROVE  input'[current_client'[u]] > 0
    <3>1. u # t
      BY <1>t, <2>1, <2>7 DEF TypeOK
    <3>2. u \in Urgent /\ current_client'[u] = current_client[u] /\ pc'[u] = pc[u]
      BY <1>t, <2>1, <2>7, <3>1 DEF Urgent, TypeOK
    <3>3. QED
      BY <2>2, <2>5, <2>7, <3>1, <3>2 DEF RequestsAreThere
  <2>8. QED
    BY <2>6, <2>7 DEF RequestsAreThere
<1>5. CASE CheckStopping(t)
  BY <1>5, <1>t DEF CheckStopping, TypeOK
<1>6. CASE OnWakeupFlag(t)
  BY <1>6, <1>t DEF OnWakeupFlag, TypeOK
<1>16. CASE SelectorFinds(t)
  BY <1>16, <1>t DEF SelectorFinds, TypeOK
<1>7. CASE OnListenerReady(t)
  <2>1. PICK c \in Clients : peer[c] = "queued" /\ Monitor(c)
    BY <1>7 DEF OnListenerReady
  <2>2. c \notin Monitored
    BY <2>1
  <2>3. Evicted \subseteq Monitored /\ Lose(Evicted)
    BY <2>1, <2>2, MonitorPutsInFront
  <2>4. \A d \in served_clients : input'[d] = input[d]
    BY <2>3 DEF Lose
  <2>5. UNCHANGED <<pc, current_client, selected_client>>
    BY <1>7 DEF OnListenerReady
  <2>6. QED
    BY <1>t, <2>4, <2>5 DEF TypeOK
<1>8. ASSUME NEW i \in DOMAIN monitored_clients, OnClientReadable(t, i)
      PROVE  RequestsAreThere'
  BY <1>8, <1>t, UnmonitorTakesOut DEF OnClientReadable, TypeOK
<1>9. CASE PushedAside(t)
  BY <1>9, <1>t DEF PushedAside, TypeOK
<1>10. CASE TakeClient(t)
  BY <1>10, <1>t DEF TakeClient, TypeOK
<1>11. CASE Unlock(t)
  BY <1>11, <1>t DEF Unlock, Mutex!Unlock, TypeOK
<1>12. CASE HandlerCompletes(t)
  BY <1>12, <1>t DEF HandlerCompletes, TypeOK
<1>13. CASE HandlerInterrupted(t)
  BY <1>13, <1>t DEF HandlerInterrupted, TypeOK
<1>14. QED
  BY <1>1, <1>2, <1>3, <1>4, <1>5, <1>6, <1>7, <1>8, <1>9, <1>10, <1>11, <1>12, <1>13, <1>16
     DEF ThreadNext

LEMMA ThreadsKeepAsserts ==
  ASSUME IInv, NEW t \in Threads, ThreadNext(t)
  PROVE  AssertsHold'
<1> USE DispatcherAssumption
    DEF Goto, lockVars, coreVars, threadVars, poolVars, runVars, peerVars, IInv, ThreadsFit, Fits, AssertsHold, RunFits
<1>t. TypeOK
  BY DEF IInv
<1>m. main # "outside" /\ (frozen => joining <= n_threads) /\ n_threads \in Nat /\ joining \in Nat
  BY ThreadIsThere DEF IInv, TypeOK
<1>o. \A u \in Threads : pc[u] = "select" /\ pc[t] \in {"resume", "check", "select", "unlock", "exit"} => u = t
  BY DEF IInv, ThreadsFit, Fits
<1>1. CASE NormalLock(t)
  BY <1>1, <1>t, <1>m, <1>o DEF NormalLock, Mutex!NormalLock, TypeOK
<1>2. CASE UrgentRegister(t)
  BY <1>2, <1>t, <1>m, <1>o DEF UrgentRegister, Mutex!Register, TypeOK
<1>3. CASE UrgentLock(t)
  BY <1>3, <1>t, <1>m, <1>o DEF UrgentLock, Mutex!UrgentLock, TypeOK
<1>4. CASE Resume(t)
  BY <1>4, <1>t, <1>m, <1>o DEF Resume, TypeOK
<1>5. CASE CheckStopping(t)
  BY <1>5, <1>t, <1>m, <1>o DEF CheckStopping, TypeOK
<1>16. CASE SelectorFinds(t)
  BY <1>16, <1>t, <1>m, <1>o DEF SelectorFinds, TypeOK
<1>6. CASE OnWakeupFlag(t)
  <2>1. UNCHANGED <<pc, main, joining, n_threads, selected_client, frozen>> /\ selected_client = None /\ pc[t] = "select"
    BY <1>6 DEF OnWakeupFlag, Selecting
  <2>2. QED
    BY <2>1, <1>m, <1>t DEF RunFits
<1>7. CASE OnListenerReady(t)
  BY <1>7, <1>t, <1>m, <1>o DEF OnListenerReady, TypeOK
<1>8. ASSUME NEW i \in DOMAIN monitored_clients, OnClientReadable(t, i)
      PROVE  AssertsHold'
  <2>1. UNCHANGED <<pc, main, joining, n_threads, woken_up, frozen>> /\ ~woken_up /\ pc[t] = "select"
    BY <1>8 DEF OnClientReadable, Selecting
  <2>2. QED
    BY <2>1, <1>m, <1>t DEF RunFits
<1>9. CASE PushedAside(t)
  BY <1>9, <1>t, <1>m, <1>o DEF PushedAside, TypeOK
<1>10. CASE TakeClient(t)
  BY <1>10, <1>t, <1>m, <1>o DEF TakeClient, TypeOK
<1>11. CASE Unlock(t)
  BY <1>11, <1>t, <1>m, <1>o DEF Unlock, Mutex!Unlock, TypeOK
<1>12. CASE HandlerCompletes(t)
  BY <1>12, <1>t, <1>m, <1>o DEF HandlerCompletes, TypeOK
<1>13. CASE HandlerInterrupted(t)
  BY <1>13, <1>t, <1>m, <1>o DEF HandlerInterrupted, TypeOK
<1>14. QED
  BY <1>1, <1>2, <1>3, <1>4, <1>5, <1>6, <1>7, <1>8, <1>9, <1>10, <1>11, <1>12, <1>13, <1>16
     DEF ThreadNext

-----------------------------------------------------------------------------
(***************************************************************************)
(* Clients move from one owner to another.                                 *)
(***************************************************************************)
Accepted == {c \in Clients : peer[c] = "accepted"}

LEMMA ThreadsKeepOwnership ==
  ASSUME IInv, NEW t \in Threads, ThreadNext(t)
  PROVE  ClientOwnership'
<1> USE DispatcherAssumption
    DEF Goto, lockVars, coreVars, threadVars, poolVars, runVars, peerVars
<1>t. TypeOK /\ ClientOwnership
  BY DEF IInv
<1>a. Accepted = Monitored \cup served_clients
  BY <1>t DEF Accepted, ClientOwnership
<1> DEFINE Owned ==
      /\ Len(monitored_clients) = Cardinality(Monitored)
      /\ Monitored \cap served_clients = {}
      /\ Monitored \cup served_clients = Accepted
      /\ served_clients = ({current_client[u] : u \in Threads} \cup {selected_client}) \ {None}
      /\ \A u \in Threads : current_client[u] # None => current_client[u] # selected_client
      /\ \A u, v \in Threads :
           current_client[u] # None /\ current_client[u] = current_client[v] => u = v
<1>o. Owned
  BY <1>t DEF ClientOwnership, Accepted, Urgent
<1>d. SUFFICES Owned'
  BY DEF ClientOwnership, Accepted, Urgent
<1>1. CASE UNCHANGED <<monitored_clients, served_clients, peer, current_client, selected_client>>
  BY <1>1, <1>a, <1>o DEF Monitored, Accepted
<1>2. CASE Resume(t)
  <2> DEFINE c == current_client[t]
  <2>1. /\ c \in Clients /\ c \in served_clients /\ c \notin Monitored
        /\ served_clients' = served_clients \ {c}
        /\ current_client' = [current_client EXCEPT ![t] = None]
        /\ selected_client' = selected_client
    <3>1. /\ served_clients' = served_clients \ {c}
          /\ current_client' = [current_client EXCEPT ![t] = None]
          /\ selected_client' = selected_client
      BY <1>2 DEF Resume
    <3>2. c \in Clients
      BY <1>2, <1>t DEF Resume, IInv, ThreadsFit, Fits, TypeOK
    <3>3. c \in served_clients /\ c \notin Monitored
      BY <1>o, <3>2
    <3> QED
      BY <3>1, <3>2, <3>3
  <2>2. /\ Len(monitored_clients') = Cardinality(Monitored')
        /\ Monitored' \cap served_clients' = {}
        /\ Monitored' \cup served_clients' = Accepted'
    <3>1. CASE Monitor(c)
      <4>1. /\ Evicted \subseteq Monitored
            /\ Monitored' = (Monitored \ Evicted) \cup {c}
            /\ Accepted' = (Accepted \ Evicted) \cup {c}
            /\ Len(monitored_clients') = Cardinality(Monitored')
        BY <2>1, <3>1, MonitorPutsInFront DEF Accepted
      <4>2. QED
        BY <4>1, <2>1, <1>a, <1>o
    <3>2. CASE peer' = [peer EXCEPT ![c] = "gone"] /\ UNCHANGED monitored_clients
      <4>1. Monitored' = Monitored /\ Accepted' = Accepted \ {c}
        BY <1>t, <2>1, <3>2 DEF Monitored, Accepted, TypeOK
      <4>2. QED
        BY <4>1, <2>1, <3>2, <1>a, <1>o
    <3>3. QED
      BY <1>2, <3>1, <3>2 DEF Resume
  <2>3. \A u \in Threads : current_client'[u] = IF u = t THEN None ELSE current_client[u]
    BY <2>1, <1>t DEF TypeOK
  <2>4. served_clients' = ({current_client'[u] : u \in Threads} \cup {selected_client'}) \ {None}
    BY <2>1, <2>3, <1>o
  <2>5. QED
    BY <2>1, <2>2, <2>3, <2>4, <1>o
<1>3. CASE OnListenerReady(t)
  <2>1. PICK c \in Clients : peer[c] = "queued" /\ Monitor(c)
    BY <1>3 DEF OnListenerReady
  <2>2. c \notin Monitored /\ c \notin served_clients
    BY <2>1, <1>a DEF Accepted
  <2>3. /\ Evicted \subseteq Monitored
        /\ Monitored' = (Monitored \ Evicted) \cup {c}
        /\ Accepted' = (Accepted \ Evicted) \cup {c}
        /\ Len(monitored_clients') = Cardinality(Monitored')
    BY <2>1, <2>2, MonitorPutsInFront DEF Accepted
  <2>4. UNCHANGED <<served_clients, current_client, selected_client>>
    BY <1>3 DEF OnListenerReady
  <2>5. QED
    BY <2>2, <2>3, <2>4, <1>a, <1>o
<1>4. ASSUME NEW i \in DOMAIN monitored_clients, OnClientReadable(t, i)
      PROVE  Owned'
  <2> DEFINE c == monitored_clients[i]
  <2>1. /\ Len(monitored_clients') = Cardinality(Monitored')
        /\ c \in Monitored /\ c \in Clients
        /\ Monitored' = Monitored \ {c}
    BY <1>4, UnmonitorTakesOut DEF OnClientReadable
  <2>2. selected_client = None /\ UNCHANGED current_client
    BY <1>4 DEF OnClientReadable, Selecting
  <2>3. CASE /\ served_clients' = served_clients \cup {c} /\ selected_client' = c
             /\ UNCHANGED peer
    BY <1>a, <1>o, <2>1, <2>2, <2>3 DEF Accepted
  <2>4. CASE /\ peer' = [peer EXCEPT ![c] = "gone"]
             /\ UNCHANGED <<served_clients, selected_client>>
    <3>1. Accepted' = Accepted \ {c}
      BY <1>t, <2>1, <2>4 DEF Accepted, TypeOK
    <3>2. QED
      BY <3>1, <1>a, <1>o, <2>1, <2>2, <2>4
  <2>5. QED
    BY <1>4, <2>3, <2>4 DEF OnClientReadable
<1>5. CASE TakeClient(t)
  <2>1. /\ UNCHANGED <<monitored_clients, served_clients, peer>>
        /\ selected_client # None /\ selected_client' = None
        /\ current_client[t] = None
        /\ current_client' = [current_client EXCEPT ![t] = selected_client]
    BY <1>5 DEF TakeClient, IInv, ThreadsFit, Fits
  <2>2. \A u \in Threads : current_client'[u] = IF u = t THEN selected_client ELSE current_client[u]
    BY <2>1, <1>t DEF TypeOK
  <2>3. served_clients' = ({current_client'[u] : u \in Threads} \cup {selected_client'}) \ {None}
    BY <2>1, <2>2, <1>o
  <2>4. Monitored' = Monitored /\ Accepted' = Accepted
    BY <2>1 DEF Monitored, Accepted
  <2>5. QED
    BY <2>1, <2>2, <2>3, <2>4, <1>a, <1>o
<1>6. QED
  BY <1>1, <1>2, <1>3, <1>4, <1>5
     DEF ThreadNext, NormalLock, UrgentRegister, UrgentLock, CheckStopping, SelectorFinds, OnWakeupFlag,
         PushedAside, Unlock, HandlerCompletes, HandlerInterrupted

-----------------------------------------------------------------------------
(***************************************************************************)
(* Threads become idle and are idle no more; urgent threads raise the flag *)
(* when they register, and lower it again.                                 *)
(***************************************************************************)
LEMMA ThreadsKeepCounts ==
  ASSUME IInv, NEW t \in Threads, ThreadNext(t)
  PROVE  Counts'
<1> USE DispatcherAssumption
    DEF Goto, lockVars, coreVars, threadVars, poolVars, runVars, peerVars
<1>t. TypeOK /\ Fits(t)
  BY DEF IInv, ThreadsFit
<1>c. /\ n_idle_threads = Cardinality(Idlers) /\ IsFiniteSet(Idlers)
      /\ IsFiniteSet(waiters) /\ Cardinality(waiters) \in Nat /\ Cardinality(Idlers) \in Nat
      /\ flag = Cardinality(waiters) + (IF main \in {"freeze", "join", "join_wait"} THEN 1 ELSE 0)
  BY CountsAreFinite DEF IInv, Counts
<1>s. ASSUME UNCHANGED <<n_idle_threads, flag, waiters, main>>,
             \A u \in Threads : Idle(u)' <=> Idle(u)
      PROVE  Counts'
  <2>1. Idlers' = Idlers
    BY <1>s DEF Idlers
  <2>2. QED
    BY <1>s, <1>c, <2>1 DEF Counts
<1>1. CASE NormalLock(t) \/ Unlock(t) \/ PushedAside(t)
  BY <1>1, <1>t, <1>s DEF NormalLock, Unlock, PushedAside, Mutex!NormalLock, Mutex!Unlock,
     TypeOK, Idle, Live, Fits
<1>2. CASE \/ HandlerCompletes(t) \/ HandlerInterrupted(t)
           \/ SelectorFinds(t) \/ OnWakeupFlag(t) \/ OnListenerReady(t) \/ \E i \in DOMAIN monitored_clients : OnClientReadable(t, i)
  BY <1>2, <1>t, <1>s DEF HandlerCompletes, HandlerInterrupted, SelectorFinds, OnWakeupFlag, OnListenerReady,
     OnClientReadable, TypeOK, Idle, Live, Fits
<1>3. CASE UrgentRegister(t)
  <2>1. /\ UNCHANGED <<n_idle_threads, main>> /\ flag' = flag + 1
        /\ t \notin waiters /\ waiters' = waiters \cup {t}
        /\ Idlers' = Idlers
    BY <1>3, <1>t DEF UrgentRegister, Mutex!Register, TypeOK, Idlers, Idle, Live, Fits, Urgent
  <2>2. Cardinality(waiters') = Cardinality(waiters) + 1
    BY <2>1, <1>c, FS_AddElement
  <2>3. QED
    BY <2>1, <2>2, <1>c DEF Counts
<1>4. CASE UrgentLock(t)
  <2>1. /\ UNCHANGED <<n_idle_threads, main>>
        /\ waiters' = waiters \ {t}
        /\ Idlers' = Idlers
    BY <1>4, <1>t DEF UrgentLock, Mutex!UrgentLock, TypeOK, Idlers, Idle, Live, Fits, Urgent
  <2>2. CASE t \in waiters
    <3>1. Cardinality(waiters') = Cardinality(waiters) - 1 /\ flag' = flag - 1
      BY <1>4, <2>1, <2>2, <1>c, FS_RemoveElement DEF UrgentLock
    <3>2. QED
      BY <2>1, <3>1, <1>c DEF Counts
  <2>3. CASE t \notin waiters
    <3>1. waiters' = waiters /\ flag' = flag
      BY <1>4, <2>1, <2>3 DEF UrgentLock
    <3>2. QED
      BY <2>1, <3>1, <1>c DEF Counts
  <2>4. QED
    BY <2>2, <2>3
<1>5. CASE Resume(t)
  <2>1. /\ UNCHANGED <<flag, waiters, main>> /\ n_idle_threads' = n_idle_threads + 1
        /\ t \notin Idlers /\ Idlers' = Idlers \cup {t}
    BY <1>5, <1>t DEF Resume, TypeOK, Idlers, Idle, Live, Fits
  <2>2. Cardinality(Idlers') = Cardinality(Idlers) + 1
    BY <2>1, <1>c, FS_AddElement
  <2>3. QED
    BY <2>1, <2>2, <1>c DEF Counts
<1>6. CASE CheckStopping(t)
  <2>1. CASE dispatcher_stopping
    <3>1. /\ UNCHANGED <<flag, waiters, main>> /\ n_idle_threads' = n_idle_threads - 1
          /\ t \in Idlers /\ Idlers' = Idlers \ {t}
      BY <1>6, <1>t, <2>1 DEF CheckStopping, TypeOK, Idlers, Idle, Live, Fits
    <3>2. QED
      BY <3>1, <1>c, IdlerIsCounted DEF Counts
  <2>2. CASE ~dispatcher_stopping
    BY <1>6, <1>t, <1>s, <2>2 DEF CheckStopping, TypeOK, Idle, Live, Fits
  <2>3. QED
    BY <2>1, <2>2
<1>7. CASE TakeClient(t)
  <2>1. /\ UNCHANGED <<flag, waiters, main>> /\ t \in Idlers
        /\ current_client' = [current_client EXCEPT ![t] = selected_client]
        /\ selected_client # None
    BY <1>7, <1>t DEF TakeClient, Idlers, Idle, Live, Fits
  <2>2. CASE n_idle_threads = 1 /\ CanAdd
    <3> DEFINE new == n_threads + 1
    <3>1. /\ new \in Threads /\ UNCHANGED n_idle_threads
          /\ pc' = [pc EXCEPT ![t] = "unlock", ![new] = "enter"]
      BY <1>7, <1>t, <2>2 DEF TakeClient, CanAdd, Threads, TypeOK
    <3>2. pc[new] = "absent" /\ current_client[new] = None /\ new # t /\ new \notin Idlers
      BY <3>1, <2>1, <1>t DEF IInv, ThreadsFit, Fits, TypeOK, Idlers, Idle, Live
    <3> HIDE DEF new
    <3>3. Idlers' = (Idlers \ {t}) \cup {new}
      <4>1. \A u \in Threads : Idle(u)' <=> (Idle(u) /\ u # t) \/ u = new
        BY <2>1, <3>1, <3>2, <1>t DEF Idle, Live, TypeOK
      <4>2. QED
        BY <3>1, <4>1 DEF Idlers
    <3>4. /\ IsFiniteSet(Idlers \ {t})
          /\ Cardinality(Idlers') = Cardinality(Idlers \ {t}) + 1
      BY <1>c, <3>2, <3>3, FS_RemoveElement, FS_AddElement
    <3>5. QED
      BY <2>1, <3>1, <3>4, <1>c, IdlerIsCounted DEF Counts
  <2>3. CASE ~(n_idle_threads = 1 /\ CanAdd)
    <3>1. /\ n_idle_threads' = n_idle_threads - 1
          /\ pc' = [pc EXCEPT ![t] = "unlock"]
      BY <1>7, <2>3 DEF TakeClient
    <3>2. Idlers' = Idlers \ {t}
      <4>1. \A u \in Threads : Idle(u)' <=> Idle(u) /\ u # t
        BY <2>1, <3>1, <1>t DEF Idle, Live, TypeOK
      <4>2. QED
        BY <4>1 DEF Idlers
    <3>3. QED
      BY <2>1, <3>1, <3>2, <1>c, IdlerIsCounted DEF Counts
  <2>4. QED
    BY <2>2, <2>3
<1>8. QED
  BY <1>1, <1>2, <1>3, <1>4, <1>5, <1>6, <1>7 DEF ThreadNext

-----------------------------------------------------------------------------
(***************************************************************************)
(* run(), stop() and the peers.  When run() has joined its threads, and    *)
(* when it is not running, there is nobody else.                           *)
(***************************************************************************)
LEMMA NobodyIsLeft ==
  ASSUME IInv, main = "outside" \/ (main = "join" /\ joining > n_threads)
  PROVE  /\ \A t \in Threads : pc[t] \in {"absent", "dead"} /\ current_client[t] = None
         /\ holder = None /\ waiters = {} /\ Urgent = {} /\ Idlers = {}
         /\ n_idle_threads = 0
         /\ flag = IF main = "outside" THEN 0 ELSE 1
         /\ selected_client = None /\ ~woken_up /\ served_clients = {}
<1>t. TypeOK /\ RunFits /\ ThreadsFit /\ AssertsHold /\ ClientOwnership /\ Counts
  BY DEF IInv
<1>n. n_threads \in Nat /\ joining \in Nat
  BY <1>t DEF TypeOK
<1>1. ASSUME NEW t \in Threads
      PROVE  pc[t] \in {"absent", "dead"} /\ current_client[t] = None
  <2>1. t \in Nat \ {0} /\ Fits(t)
    BY <1>t DEF Threads, ThreadsFit
  <2>2. CASE t > n_threads
    BY <2>1, <2>2 DEF Fits
  <2>3. CASE t <= n_threads
    <3>1. frozen /\ joining > n_threads
      BY <1>t, <1>n, <2>1, <2>3 DEF RunFits
    <3>2. t \in 1 .. joining - 1
      BY <1>n, <2>1, <2>3, <3>1
    <3>3. pc[t] = "dead"
      BY <1>t, <3>1, <3>2 DEF RunFits
    <3>4. QED
      BY <2>1, <3>3 DEF Fits
  <2>4. QED
    BY <1>n, <2>1, <2>2, <2>3
<1>2. Urgent = {} /\ Idlers = {}
  BY <1>1 DEF Urgent, Idlers, Idle, Live
<1>3. holder = None /\ waiters = {}
  BY <1>1, <1>t DEF TypeOK, ThreadsFit, Fits
<1>4. n_idle_threads = 0 /\ flag = IF main = "outside" THEN 0 ELSE 1
  BY <1>2, <1>3, <1>t, FS_EmptySet DEF Counts
<1>5. selected_client = None /\ ~woken_up
  BY <1>1, <1>t DEF AssertsHold
<1>6. served_clients = {}
  BY <1>1, <1>5, <1>t DEF ClientOwnership
<1>7. QED
  BY <1>1, <1>2, <1>3, <1>4, <1>5, <1>6

LEMMA RunStartKeeps ==
  ASSUME IInv, RunStart
  PROVE  IInv'
<1> USE DispatcherAssumption DEF lockVars, coreVars, threadVars, poolVars, runVars, peerVars
<1>t. TypeOK /\ RunFits /\ ThreadsFit /\ AssertsHold /\ ClientOwnership /\ Counts /\ RequestsAreThere
  BY DEF IInv
<1>n. /\ 1 \in Threads /\ n_threads = 0 /\ n_threads' = 1
      /\ main = "outside" /\ main' = "running"
      /\ n_idle_threads' = 1 /\ pc' = [pc EXCEPT ![1] = "enter"]
      /\ UNCHANGED <<lockVars, coreVars, current_client, handler_completed, thread_flag,
                     frozen, dispatcher_stopping, joining, signals, peerVars>>
  BY <1>t DEF RunStart, RunFits, Threads
<1>e. /\ \A t \in Threads : current_client[t] = None /\ pc[t] \in {"absent", "dead"}
      /\ holder = None /\ waiters = {} /\ Urgent = {} /\ Idlers = {}
      /\ flag = 0 /\ selected_client = None /\ ~woken_up
  BY <1>n, NobodyIsLeft
<1>1. TypeOK'
  BY OtherTypes
<1>2. ThreadsFit'
  <2> SUFFICES ASSUME NEW t \in Threads PROVE Fits(t)'
    BY DEF ThreadsFit
  <2>1. Fits(t) /\ t \in Nat \ {0}
    BY <1>t DEF ThreadsFit, Threads
  <2>2. pc'[t] = IF t = 1 THEN "enter" ELSE pc[t]
    BY <1>n, <1>t DEF TypeOK
  <2>3. QED
    BY <1>n, <1>e, <2>1, <2>2 DEF Fits
<1>3. RunFits'
  BY <1>n, <1>t DEF RunFits
<1>4. RequestsAreThere' /\ ClientOwnership' /\ AssertsHold'
  BY <1>n, <1>t, <1>e DEF RequestsAreThere, ClientOwnership, AssertsHold, Urgent, Monitored
<1>5. Counts'
  <2>1. \A t \in Threads : Idle(t)' <=> t = 1
    BY <1>n, <1>e, <1>t DEF Idle, Live, TypeOK
  <2>2. Idlers' = {1}
    BY <2>1, <1>n DEF Idlers
  <2>3. Cardinality({1}) = 1 /\ Cardinality({}) = 0
    BY FS_EmptySet, FS_Singleton
  <2>4. QED
    BY <1>n, <1>e, <2>2, <2>3 DEF Counts
<1>6. QED
  BY <1>1, <1>2, <1>3, <1>4, <1>5 DEF IInv

LEMMA RunReturnKeeps ==
  ASSUME IInv, RunReturn
  PROVE  IInv'
<1> USE DispatcherAssumption DEF lockVars, coreVars, threadVars, poolVars, runVars, peerVars
<1>t. TypeOK /\ RunFits /\ ThreadsFit /\ AssertsHold /\ ClientOwnership /\ Counts /\ RequestsAreThere
  BY DEF IInv
<1>e. /\ \A t \in Threads : current_client[t] = None
      /\ holder = None /\ waiters = {} /\ Urgent = {} /\ Idlers = {}
      /\ n_idle_threads = 0 /\ flag = 1 /\ selected_client = None /\ ~woken_up
  BY NobodyIsLeft DEF RunReturn
<1>n. /\ main' = "outside" /\ flag' = 0 /\ n_threads' = 0
      /\ dispatcher_stopping' = FALSE /\ frozen' = FALSE
      /\ pc' = [t \in Threads |-> "absent"]
      /\ thread_flag' = [t \in Threads |-> FALSE]
      /\ handler_completed' = [t \in Threads |-> TRUE]
      /\ UNCHANGED <<holder, waiters, coreVars, current_client, n_idle_threads, signals, peerVars>>
  BY <1>e DEF RunReturn
<1>1. TypeOK'
  BY OtherTypes DEF RunNext
<1>2. ThreadsFit'
  BY <1>n, <1>e DEF ThreadsFit, Fits, Threads
<1>3. RunFits'
  BY <1>n, <1>e DEF RunFits
<1>4. RequestsAreThere' /\ ClientOwnership' /\ AssertsHold'
  BY <1>n, <1>t, <1>e DEF RequestsAreThere, ClientOwnership, AssertsHold, Urgent, Monitored
<1>5. Counts'
  <2>1. Idlers' = {} /\ Cardinality({}) = 0
    BY <1>n, FS_EmptySet DEF Idlers, Idle, Live
  <2>2. QED
    BY <1>n, <1>e, <2>1 DEF Counts
<1>6. QED
  BY <1>1, <1>2, <1>3, <1>4, <1>5 DEF IInv

\* What run() does while its threads are there, stop(), and the peers.
LEMMA OthersKeep ==
  ASSUME IInv,
         \/ RunCatchSignal \/ RunRaise \/ PoolFreeze \/ JoinInterrupts \/ Joined
         \/ Stop \/ PeerNext
  PROVE  IInv'
<1> USE DispatcherAssumption DEF lockVars, coreVars, threadVars, poolVars, runVars, peerVars
<1>t. TypeOK /\ RunFits /\ ThreadsFit /\ AssertsHold /\ ClientOwnership /\ Counts /\ RequestsAreThere
  BY DEF IInv
<1>1. TypeOK'
  BY OtherTypes DEF RunNext
<1>u. /\ UNCHANGED <<holder, waiters, coreVars, pc, current_client, handler_completed,
                     n_threads, n_idle_threads>>
      /\ dispatcher_stopping => dispatcher_stopping'
      /\ \A t \in Threads : thread_flag'[t] => thread_flag[t] \/ dispatcher_stopping'
      /\ \A c \in served_clients : input[c] > 0 => input'[c] > 0
      /\ \A c \in Clients : peer'[c] = "accepted" <=> peer[c] = "accepted"
  <2>1. served_clients \subseteq Clients /\ \A c \in Clients : input[c] \in Nat
    BY <1>t DEF TypeOK
  <2>2. CASE RunCatchSignal \/ RunRaise \/ PoolFreeze \/ Joined \/ Stop
    BY <2>1, <2>2 DEF RunCatchSignal, RunRaise, PoolFreeze, Joined, Stop
  <2>3. CASE JoinInterrupts
    BY <2>1, <2>3, <1>t DEF JoinInterrupts, RunFits, TypeOK
  <2>4. ASSUME NEW d \in Clients, Connect(d) \/ SendRequest(d) \/ Close(d) \/ InputError(d)
        PROVE  /\ \A c \in served_clients : input[c] > 0 => input'[c] > 0
               /\ \A c \in Clients : peer'[c] = "accepted" <=> peer[c] = "accepted"
               /\ UNCHANGED <<lockVars, coreVars, threadVars, poolVars, runVars>>
    <3>1. CASE Connect(d)
      BY <2>1, <3>1, <1>t DEF Connect, TypeOK
    <3>2. CASE SendRequest(d)
      BY <2>1, <3>2, <1>t DEF SendRequest, TypeOK
    <3>3. CASE Close(d)
      BY <2>1, <3>3, <1>t DEF Close, TypeOK
    <3>4. CASE InputError(d)
      BY <2>1, <3>4, <1>t DEF InputError, TypeOK
    <3>5. QED
      BY <2>4, <3>1, <3>2, <3>3, <3>4
  <2>5. QED
    BY <2>2, <2>3, <2>4 DEF PeerNext
<1>2. ThreadsFit'
  BY <1>u, <1>t DEF ThreadsFit, Fits
<1>3. RunFits' /\ AssertsHold'
  <2>0. n_threads \in Nat /\ joining \in Nat
    BY <1>t DEF TypeOK
  <2>1. CASE RunCatchSignal
    BY <2>1, <1>u, <1>t DEF RunCatchSignal, RunFits, AssertsHold
  <2>2. CASE RunRaise
    BY <2>2, <1>u, <1>t DEF RunRaise, RunFits, AssertsHold
  <2>3. CASE PoolFreeze
    BY <2>0, <2>3, <1>u, <1>t DEF PoolFreeze, RunFits, AssertsHold
  <2>4. CASE JoinInterrupts
    BY <2>0, <2>4, <1>u, <1>t DEF JoinInterrupts, RunFits, AssertsHold
  <2>5. CASE Joined
    <3>1. /\ frozen /\ frozen' /\ joining <= n_threads /\ joining' = joining + 1
          /\ main' = "join" /\ dispatcher_stopping /\ dispatcher_stopping'
          /\ pc[joining] = "dead" /\ joining \in 1 .. n_threads + 1
          /\ main \in {"join", "join_wait"}
      BY <2>5, <1>t DEF Joined, RunFits
    <3>2. \A t \in 1 .. joining' - 1 : t = joining \/ t \in 1 .. joining - 1
      BY <2>0, <3>1
    <3>3. joining' \in 1 .. n_threads + 1 /\ n_threads > 0
      BY <2>0, <3>1
    <3>4. RunFits'
      BY <1>u, <1>t, <3>1, <3>2, <3>3 DEF RunFits
    <3>5. joining' > n_threads => n_idle_threads = 0 /\ flag > 0
      <4>1. SUFFICES ASSUME joining' > n_threads
                     PROVE  n_idle_threads = 0 /\ flag > 0
        OBVIOUS
      <4>2. ASSUME NEW t \in Threads PROVE ~Idle(t)
        <5>1. t \in Nat \ {0} /\ Fits(t)
          BY <1>t DEF Threads, ThreadsFit
        <5>2. t > n_threads \/ t \in 1 .. joining' - 1
          BY <2>0, <3>1, <4>1, <5>1
        <5>3. pc[t] \in {"absent", "dead"}
          BY <1>t, <3>1, <3>2, <5>1, <5>2 DEF RunFits, Fits
        <5>4. QED
          BY <5>3 DEF Idle, Live
      <4>3. Idlers = {} /\ Cardinality({}) = 0
        BY <4>2, FS_EmptySet DEF Idlers
      <4>4. flag = Cardinality(waiters) + 1 /\ Cardinality(waiters) \in Nat
        BY <1>t, <3>1, CountsAreFinite DEF Counts
      <4>5. QED
        BY <1>t, <4>3, <4>4 DEF Counts
    <3>6. UNCHANGED flag
      BY <2>5 DEF Joined
    <3>7. QED
      BY <1>u, <1>t, <3>1, <3>4, <3>5, <3>6 DEF AssertsHold
  <2>6. CASE Stop \/ PeerNext
    BY <2>6, <1>u, <1>t DEF Stop, PeerNext, Connect, SendRequest, Close, InputError, RunFits, AssertsHold
  <2>7. QED
    BY <2>1, <2>2, <2>3, <2>4, <2>5, <2>6
<1>4. RequestsAreThere'
  <2>1. selected_client # None => selected_client \in served_clients
    BY <1>t DEF ClientOwnership
  <2>2. \A t \in Urgent : current_client[t] \in served_clients
    BY <1>t DEF ClientOwnership, Urgent
  <2>3. Urgent' = Urgent /\ selected_client \in Clients \cup {None}
    BY <1>u, <1>t DEF Urgent, TypeOK
  <2>4. QED
    BY <1>u, <1>t, <2>1, <2>2, <2>3 DEF RequestsAreThere
<1>5. ClientOwnership'
  <2>1. {c \in Clients : peer'[c] = "accepted"} = {c \in Clients : peer[c] = "accepted"}
    BY <1>u
  <2>2. QED
    BY <1>u, <1>t, <2>1 DEF ClientOwnership, Monitored, Urgent
<1>6. Counts'
  <2>1. Idlers' = Idlers
    BY <1>u DEF Idlers, Idle, Live
  <2>2. flag' = Cardinality(waiters) + (IF main' \in {"freeze", "join", "join_wait"} THEN 1 ELSE 0)
    <3>1. CASE RunRaise
      BY <3>1, <1>t, CountsAreFinite DEF RunRaise, Counts
    <3>2. CASE RunCatchSignal \/ PoolFreeze \/ JoinInterrupts \/ Joined \/ Stop \/ PeerNext
      BY <3>2, <1>t DEF RunCatchSignal, PoolFreeze, JoinInterrupts, Joined, Stop, PeerNext,
         Connect, SendRequest, Close, InputError, Counts
    <3>3. QED
      BY <3>1, <3>2
  <2>3. QED
    BY <1>u, <1>t, <2>1, <2>2 DEF Counts
<1>7. QED
  BY <1>1, <1>2, <1>3, <1>4, <1>5, <1>6 DEF IInv

-----------------------------------------------------------------------------
(***************************************************************************)
(* The inductive invariant.                                                *)
(***************************************************************************)
LEMMA StepsKeepIInv ==
  ASSUME IInv, [Next]_vars
  PROVE  IInv'
<1>1. ASSUME NEW t \in Threads, ThreadNext(t) PROVE IInv'
  BY <1>1, ThreadTypes, ThreadsStayFit, ThreadsKeepRun, ThreadsKeepRequests, ThreadsKeepOwnership,
     ThreadsKeepCounts, ThreadsKeepAsserts DEF IInv
<1>2. CASE RunStart
  BY <1>2, RunStartKeeps
<1>3. CASE RunNext \/ Stop \/ PeerNext
  BY <1>3, RunReturnKeeps, OthersKeep DEF RunNext
<1>4. CASE UNCHANGED vars
  BY <1>4 DEF vars, lockVars, coreVars, threadVars, poolVars, runVars, peerVars,
     IInv, TypeOK, ThreadsFit, Fits, RunFits, RequestsAreThere, ClientOwnership, Counts, AssertsHold,
     Monitored, Urgent, Idlers, Idle, Live
<1>5. QED
  BY <1>1, <1>2, <1>3, <1>4 DEF Next

(***************************************************************************)
(* Every assert in the dispatcher holds, every client has one owner, and   *)
(* the counts of idle and of urgent threads are right, however the threads *)
(* interleave.                                                             *)
(***************************************************************************)
THEOREM Invariance == Spec => []IInv
<1>1. Init => IInv
  BY InitIInv
<1>2. IInv /\ [Next]_vars => IInv'
  BY StepsKeepIInv
<1>3. QED
  BY <1>1, <1>2, PTL DEF Spec

-----------------------------------------------------------------------------
(***************************************************************************)
(* Consequences of the invariant.                                          *)
(***************************************************************************)
LEMMA EachServesOne ==
  ASSUME IInv, selected_client = None
  PROVE  /\ IsFiniteSet(Threads) /\ Cardinality(Threads) = MaxConcurrentRequests
         /\ IsFiniteSet(Urgent) /\ Cardinality(Urgent) \in Nat
         /\ Cardinality(served_clients) = Cardinality(Urgent)
<1>1. IsFiniteSet(Threads) /\ Cardinality(Threads) = MaxConcurrentRequests
  BY FS_Interval, DispatcherAssumption DEF Threads
<1>2. IsFiniteSet(Urgent) /\ Cardinality(Urgent) \in Nat
  BY <1>1, FS_Subset, FS_CardinalityType DEF Urgent
<1>3. served_clients = {current_client[u] : u \in Urgent}
  BY DEF IInv, ClientOwnership, Urgent
<1>4. \A u, v \in Urgent : current_client[u] = current_client[v] => u = v
  BY DEF IInv, ClientOwnership
<1>5. [u \in Urgent |-> current_client[u]] \in Bijection(Urgent, served_clients)
  BY <1>3, <1>4 DEF Bijection, Injection, IsInjective, Surjection
<1>6. Cardinality(served_clients) = Cardinality(Urgent)
  BY <1>2, <1>5, FS_Bijection DEF ExistsBijection
<1>7. QED
  BY <1>1, <1>2, <1>6

LEMMA IInvMeansSomebodyMonitors == IInv => SomebodyMonitors
<1> SUFFICES ASSUME IInv, main = "running", Idlers = {}
             PROVE  Cardinality(served_clients) = MaxConcurrentRequests
  BY DEF SomebodyMonitors
<1>1. n_threads = MaxConcurrentRequests /\ ~dispatcher_stopping
  BY FS_EmptySet DEF IInv, Counts, RunFits
<1>2. ASSUME NEW t \in Threads PROVE current_client[t] # None
  <2>1. t <= n_threads /\ Fits(t)
    BY <1>1 DEF Threads, IInv, ThreadsFit
  <2>2. pc[t] \notin {"absent", "dead", "exit"}
    BY <2>1, <1>1, DispatcherAssumption DEF Fits, Threads
  <2>3. QED
    BY <2>2 DEF Idlers, Idle, Live
<1>3. Urgent = Threads
  BY <1>2 DEF Urgent
<1>4. selected_client = None
  <2>1. \A t \in Threads : pc[t] # "select"
    BY <1>2 DEF IInv, ThreadsFit, Fits
  <2>2. QED
    BY <2>1 DEF IInv, AssertsHold
<1>5. QED
  BY <1>3, <1>4, EachServesOne

(***************************************************************************)
(* There is a thread to monitor the connections, however many requests     *)
(* take long, until the maximum number of them is being handled.           *)
(***************************************************************************)
THEOREM ThereIsAMonitor == Spec => []SomebodyMonitors
BY Invariance, IInvMeansSomebodyMonitors, PTL

(***************************************************************************)
(* run() leaves no thread, lock, raised flag or served client behind.      *)
(***************************************************************************)
THEOREM NothingIsLeft == Spec => []RunLeavesNothing
<1>1. IInv => RunLeavesNothing
  BY NobodyIsLeft DEF RunLeavesNothing
<1>2. QED
  BY <1>1, Invariance, PTL

-----------------------------------------------------------------------------
(***************************************************************************)
(* dispatcher_t implements RequestServer.                                  *)
(***************************************************************************)
LEMMA SameCardinality == \A S : Server!Cardinality(S) = Cardinality(S)
BY DEF Server!Cardinality, Cardinality

LEMMA StatesOfConnections ==
  ASSUME IInv
  PROVE  /\ Server!InState("idle") = Monitored
         /\ Server!InState("busy") = served_clients
         /\ Cardinality(Server!InState("idle")) = Len(monitored_clients)
<1>1. /\ served_clients \subseteq Clients /\ Monitored \cap served_clients = {}
      /\ Monitored \cup served_clients = {c \in Clients : peer[c] = "accepted"}
      /\ Len(monitored_clients) = Cardinality(Monitored)
      /\ peer \in [Clients -> {"away", "queued", "accepted", "gone"}]
  BY DEF IInv, TypeOK, ClientOwnership
<1>2. QED
  BY <1>1 DEF Server!InState, Conn

LEMMA MonitoringMakesIdle ==
  ASSUME IInv, NEW c \in Clients, c \notin Monitored, Monitor(c),
         served_clients' = served_clients \ {c}
  PROVE  Server!BecomesIdle(c)
<1>t. /\ peer \in [Clients -> {"away", "queued", "accepted", "gone"}]
      /\ monitored_clients \in Seq(Clients)
      /\ Monitored \cap served_clients = {}
      /\ Monitored \cup served_clients = {d \in Clients : peer[d] = "accepted"}
  BY DEF IInv, TypeOK, ClientOwnership
<1>1. /\ Evicted \subseteq Monitored
      /\ peer' = [d \in Clients |-> IF d = c THEN "accepted"
                                    ELSE IF d \in Evicted THEN "gone" ELSE peer[d]]
  BY MonitorPutsInFront
<1>2. Conn' = [d \in Clients |-> IF d = c THEN "idle"
                                 ELSE IF d \in Evicted THEN "gone" ELSE Conn[d]]
  BY <1>1 DEF Conn
<1>3. Full <=> MaxConnections # 0 /\ Cardinality(Server!InState("idle")) = MaxConnections
  BY StatesOfConnections DEF Full
<1>4. CASE Full
  <2>1. Last(monitored_clients) \in Server!InState("idle") /\ Last(monitored_clients) # c
    BY <1>1, <1>4, StatesOfConnections DEF Evicted
  <2>2. Conn' = [Conn EXCEPT ![Last(monitored_clients)] = "gone", ![c] = "idle"]
    BY <1>2, <1>4, <2>1 DEF Conn, Evicted
  <2>3. QED
    BY <1>3, <1>4, <2>1, <2>2, SameCardinality DEF Server!BecomesIdle
<1>5. CASE ~Full
  <2>1. Conn' = [Conn EXCEPT ![c] = "idle"]
    BY <1>2, <1>5 DEF Conn, Evicted
  <2>2. QED
    BY <1>3, <1>5, <2>1, SameCardinality DEF Server!BecomesIdle
<1>6. QED
  BY <1>4, <1>5

LEMMA ThreadStepRefines ==
  ASSUME IInv, NEW t \in Threads, ThreadNext(t)
  PROVE  Server!Next \/ UNCHANGED Server!vars
<1> USE DEF Goto, lockVars, coreVars, threadVars, poolVars, runVars, peerVars
<1>t. /\ peer \in [Clients -> {"away", "queued", "accepted", "gone"}]
      /\ current_client \in [Threads -> Clients \cup {None}]
      /\ monitored_clients \in Seq(Clients)
      /\ Monitored \cap served_clients = {}
      /\ Monitored \cup served_clients = {d \in Clients : peer[d] = "accepted"}
  BY DEF IInv, TypeOK, ClientOwnership
<1>m. main # "outside"
  BY ThreadIsThere
<1>1. CASE UNCHANGED <<peer, served_clients, main, dispatcher_stopping>>
  BY <1>1 DEF Server!vars, Conn
<1>2. CASE Resume(t)
  <2> DEFINE c == current_client[t]
  <2>1. /\ c \in Clients /\ c \in served_clients /\ c \notin Monitored
        /\ served_clients' = served_clients \ {c}
        /\ UNCHANGED <<main, dispatcher_stopping>>
    BY <1>2, <1>t DEF Resume, IInv, ThreadsFit, Fits, ClientOwnership
  <2>2. Conn[c] = "busy"
    BY <2>1, <1>t DEF Conn
  <2>3. CASE Monitor(c)
    <3>1. Server!BecomesIdle(c)
      BY <2>1, <2>3, MonitoringMakesIdle
    <3>2. Server!Finish(c)
      BY <2>1, <2>2, <3>1 DEF Server!Finish
    <3>3. QED
      BY <2>1, <3>2 DEF Server!Next
  <2>4. CASE peer' = [peer EXCEPT ![c] = "gone"]
    <3>1. Conn' = [Conn EXCEPT ![c] = "gone"]
      BY <2>1, <2>4, <1>t DEF Conn
    <3>2. Server!Drop(c)
      BY <2>1, <2>2, <3>1, <1>m DEF Server!Drop
    <3>3. QED
      BY <2>1, <3>2 DEF Server!Next
  <2>5. QED
    BY <1>2, <2>3, <2>4 DEF Resume
<1>3. CASE OnListenerReady(t)
  <2>1. PICK c \in Clients : peer[c] = "queued" /\ Monitor(c)
    BY <1>3 DEF OnListenerReady
  <2>2. /\ c \notin Monitored /\ c \notin served_clients
        /\ served_clients' = served_clients \ {c}
        /\ UNCHANGED <<main, dispatcher_stopping>>
    BY <1>3, <2>1, <1>t DEF OnListenerReady
  <2>3. Server!BecomesIdle(c) /\ Conn[c] = "queued"
    BY <2>1, <2>2, MonitoringMakesIdle DEF Conn
  <2>4. Server!Accept(c)
    BY <2>2, <2>3, <1>m DEF Server!Accept
  <2>5. QED
    BY <2>4 DEF Server!Next
<1>4. ASSUME NEW i \in DOMAIN monitored_clients, OnClientReadable(t, i)
      PROVE  Server!Next
  <2> DEFINE c == monitored_clients[i]
  <2>1. c \in Monitored /\ c \in Clients /\ c \notin served_clients /\ peer[c] = "accepted"
    BY <1>4, <1>t, UnmonitorTakesOut DEF OnClientReadable
  <2>2. Conn[c] = "idle" /\ UNCHANGED <<main, dispatcher_stopping>>
    BY <1>4, <2>1 DEF Conn, OnClientReadable
  <2>3. CASE UNCHANGED peer /\ served_clients' = served_clients \cup {c}
    <3>1. Conn' = [Conn EXCEPT ![c] = "busy"]
      BY <2>1, <2>3 DEF Conn
    <3>2. Cardinality(served_clients) < MaxConcurrentRequests
      <4>1. selected_client = None /\ current_client[t] = None
        BY <1>4 DEF OnClientReadable, Selecting, IInv, ThreadsFit, Fits
      <4>2. Urgent \subseteq Threads /\ Urgent # Threads
        BY <4>1 DEF Urgent
      <4>3. QED
        BY <4>1, <4>2, EachServesOne, FS_Subset, DispatcherAssumption
    <3>3. Server!Begin(c)
      BY <2>2, <3>1, <3>2, <1>m, StatesOfConnections, SameCardinality DEF Server!Begin
    <3>4. QED
      BY <2>1, <3>3 DEF Server!Next
  <2>4. CASE peer' = [peer EXCEPT ![c] = "gone"] /\ UNCHANGED served_clients
    <3>1. Conn' = [Conn EXCEPT ![c] = "gone"]
      BY <2>1, <2>4, <1>t DEF Conn
    <3>2. Server!Drop(c)
      BY <2>2, <3>1, <1>m DEF Server!Drop
    <3>3. QED
      BY <2>1, <3>2 DEF Server!Next
  <2>5. QED
    BY <1>4, <2>3, <2>4 DEF OnClientReadable
<1>5. QED
  BY <1>1, <1>2, <1>3, <1>4
     DEF ThreadNext, NormalLock, UrgentRegister, UrgentLock, CheckStopping, SelectorFinds, OnWakeupFlag,
         PushedAside, TakeClient, Unlock, HandlerCompletes, HandlerInterrupted

LEMMA OtherStepRefines ==
  ASSUME IInv, RunStart \/ RunNext \/ Stop \/ PeerNext \/ UNCHANGED vars
  PROVE  Server!Next \/ UNCHANGED Server!vars
<1> USE DEF lockVars, coreVars, threadVars, poolVars, runVars, peerVars
<1>1. CASE UNCHANGED <<peer, served_clients, main, dispatcher_stopping>>
  BY <1>1 DEF Server!vars, Conn
<1>2. CASE RunStart
  <2>1. Server!Run
    BY <1>2 DEF RunStart, Server!Run, Conn
  <2>2. QED
    BY <2>1 DEF Server!Next
<1>3. CASE RunCatchSignal
  <2>1. Server!CatchSignal
    BY <1>3 DEF RunCatchSignal, Server!CatchSignal, Conn, IInv, RunFits
  <2>2. QED
    BY <2>1 DEF Server!Next
<1>4. CASE RunReturn
  <2>1. Server!InState("busy") = {}
    BY <1>4, NobodyIsLeft, StatesOfConnections DEF RunReturn
  <2>2. Server!Return
    BY <1>4, <2>1 DEF RunReturn, Server!Return, Conn, IInv, RunFits
  <2>3. QED
    BY <2>2 DEF Server!Next
<1>5. CASE RunRaise \/ PoolFreeze \/ JoinInterrupts \/ Joined
  <2>1. (main # "outside")' <=> main # "outside"
    BY <1>5 DEF RunRaise, PoolFreeze, JoinInterrupts, Joined
  <2>2. UNCHANGED <<peer, served_clients, dispatcher_stopping>>
    BY <1>5 DEF RunRaise, PoolFreeze, JoinInterrupts, Joined
  <2>3. QED
    BY <2>1, <2>2 DEF Server!vars, Conn
<1>6. ASSUME NEW c \in Clients, Connect(c) \/ SendRequest(c) \/ Close(c) \/ InputError(c)
      PROVE  Server!Next \/ UNCHANGED Server!vars
  <2>1. CASE Connect(c)
    <3>1. Server!Connect(c)
      BY <2>1 DEF Connect, Server!Connect, Conn, IInv, TypeOK
    <3>2. QED
      BY <3>1 DEF Server!Next
  <2>2. CASE SendRequest(c) \/ Close(c) \/ InputError(c)
    BY <2>2, <1>1 DEF SendRequest, Close, InputError
  <2>3. QED
    BY <1>6, <2>1, <2>2
<1>7. QED
  BY <1>1, <1>2, <1>3, <1>4, <1>5, <1>6 DEF RunNext, PeerNext, Stop, vars

(***************************************************************************)
(* The dispatcher's threads, locks and lists together do what              *)
(* RequestServer says and nothing else: no more requests at once than      *)
(* allowed, none outside run(), no connection dropped without a reason.    *)
(***************************************************************************)
THEOREM DispatcherIsRequestServer == Spec => ImplementsRequestServer
<1>1. Init => Server!Init
  <2> SUFFICES ASSUME Init PROVE Server!Init
    OBVIOUS
  <2>1. Conn = [c \in Clients |-> "away"]
    BY DEF Init, Conn
  <2>2. QED
    BY <2>1 DEF Init, Server!Init
<1>2. IInv /\ [Next]_vars => [Server!Next]_(Server!vars)
  BY ThreadStepRefines, OtherStepRefines DEF Next
<1>3. QED
  BY <1>1, <1>2, Invariance, PTL DEF Spec, ImplementsRequestServer, Server!Spec

=============================================================================
