----------------------------- MODULE Dispatcher -----------------------------
(***************************************************************************)
(* dispatcher_t (cuti/cuti/dispatcher.cpp): a pool of threads that share   *)
(* one scheduler, guarded by the core mutex, on which they wait for new    *)
(* connections and for requests on the connections they monitor.           *)
(*                                                                         *)
(* The thread that selects a client handles its request on a scheduler of  *)
(* its own, while another thread takes over the monitoring.  run() starts  *)
(* the first thread and, when stop() is called, stops them all.            *)
(*                                                                         *)
(* The core mutex is a PriorityLock (see CoreMutex); raising the wakeup    *)
(* flag and lowering it are single steps here.  A request is a unit: what  *)
(* is read and written to handle it, and what can go wrong with it, is the *)
(* subject of other modules.  An event that finds nothing to do (a         *)
(* spurious readable event, a failed accept()) changes nothing.            *)
(***************************************************************************)
EXTENDS Naturals, FiniteSets, Sequences, SequencesExt

CONSTANTS
  Clients,               \* the connections peers may make
  None,                  \* no thread, no client
  MaxConcurrentRequests, \* max_concurrent_requests_ (0, no limit, is not modelled)
  MaxConnections,        \* max_connections_ (0 is no limit)
  MaxRequests,           \* bound: the requests that wait in a connection
  MaxSignals             \* bound: the unread calls of stop()

ASSUME DispatcherAssumption ==
  /\ IsFiniteSet(Clients)
  /\ None \notin Clients \cup Nat
  /\ Clients \cap {"flag", "listener"} = {}
  /\ MaxConcurrentRequests \in Nat \ {0}
  /\ MaxConnections \in Nat
  /\ MaxRequests \in Nat
  /\ MaxSignals \in Nat

Threads == 1 .. MaxConcurrentRequests

VARIABLES
  holder, waiters,       \* the core mutex
  flag,                  \* the core's wakeup flag
  monitored_clients,     \* most recently active first
  served_clients,
  woken_up,
  selected_client,
  detected,              \* the events that the selector has found and not delivered
  pc,                    \* where each thread is in serve()
  current_client,        \* serve()'s current_client
  handler_completed,     \* serve()'s handler_completed
  thread_flag,           \* the thread's own wakeup flag
  n_threads,             \* threads_.size(): threads 1 .. n_threads exist
  frozen,
  n_idle_threads,
  dispatcher_stopping,
  main,                  \* where the thread in run() is
  joining,               \* the thread that thread_pool_t::join() is at
  signals,               \* the bytes in the signal pipe
  peer,                  \* "away", "queued" (to be accepted), "accepted" or "gone"
  input,                 \* the requests that are waiting in the connection
  eof                    \* the peer has closed the connection

lockVars   == <<holder, waiters, flag>>
coreVars   == <<monitored_clients, served_clients, woken_up, selected_client, detected>>
threadVars == <<pc, current_client, handler_completed, thread_flag>>
poolVars   == <<n_threads, frozen, n_idle_threads>>
runVars    == <<dispatcher_stopping, main, joining, signals>>
peerVars   == <<peer, input, eof>>
vars       == <<lockVars, coreVars, threadVars, poolVars, runVars, peerVars>>

Urgent == {t \in Threads : current_client[t] # None}

Mutex == INSTANCE PriorityLock WITH urgent <- Urgent

(***************************************************************************)
(* absent: not started.  enter: about to lock the core mutex.  waiting:    *)
(* registered as an urgent waiter.  resume, check, select, unlock, exit:   *)
(* holding it.  handle: in handle_request().  dead: joined_ is set.        *)
(***************************************************************************)
Labels == {"absent", "enter", "waiting", "resume", "check", "select", "unlock",
           "exit", "handle", "dead"}

TypeOK ==
  /\ holder \in Threads \cup {None}
  /\ waiters \subseteq Threads
  /\ flag \in Nat
  /\ monitored_clients \in Seq(Clients)
  /\ served_clients \subseteq Clients
  /\ woken_up \in BOOLEAN
  /\ selected_client \in Clients \cup {None}
  /\ detected \subseteq Clients \cup {"flag", "listener"}
  /\ pc \in [Threads -> Labels]
  /\ current_client \in [Threads -> Clients \cup {None}]
  /\ handler_completed \in [Threads -> BOOLEAN]
  /\ thread_flag \in [Threads -> BOOLEAN]
  /\ n_threads \in 0 .. MaxConcurrentRequests
  /\ frozen \in BOOLEAN
  /\ n_idle_threads \in Nat
  /\ dispatcher_stopping \in BOOLEAN
  /\ main \in {"outside", "running", "raise", "freeze", "join", "join_wait"}
  /\ joining \in Nat
  /\ signals \in Nat
  /\ peer \in [Clients -> {"away", "queued", "accepted", "gone"}]
  /\ input \in [Clients -> Nat]
  /\ eof \in [Clients -> BOOLEAN]

Init ==
  /\ flag = 0
  /\ monitored_clients = <<>>
  /\ served_clients = {}
  /\ woken_up = FALSE
  /\ selected_client = None
  /\ detected = {}
  /\ pc = [t \in Threads |-> "absent"]
  /\ current_client = [t \in Threads |-> None]
  /\ handler_completed = [t \in Threads |-> TRUE]
  /\ thread_flag = [t \in Threads |-> FALSE]
  /\ n_threads = 0
  /\ frozen = FALSE
  /\ n_idle_threads = 0
  /\ dispatcher_stopping = FALSE
  /\ main = "outside"
  /\ joining = 0
  /\ signals = 0
  /\ peer = [c \in Clients |-> "away"]
  /\ input = [c \in Clients |-> 0]
  /\ eof = [c \in Clients |-> FALSE]
  /\ Mutex!Init

Goto(t, label) == pc' = [pc EXCEPT ![t] = label]

-----------------------------------------------------------------------------
(***************************************************************************)
(* core_lock_t's constructor.                                              *)
(***************************************************************************)
NormalLock(t) ==
  /\ pc[t] = "enter"
  /\ Goto(t, "check")
  /\ UNCHANGED <<flag, coreVars, current_client, handler_completed, thread_flag,
                 poolVars, runVars, peerVars>>
  /\ Mutex!NormalLock(t)

UrgentRegister(t) ==
  /\ pc[t] = "enter"
  /\ flag' = flag + 1
  /\ Goto(t, "waiting")
  /\ UNCHANGED <<coreVars, current_client, handler_completed, thread_flag,
                 poolVars, runVars, peerVars>>
  /\ Mutex!Register(t)

UrgentLock(t) ==
  /\ pc[t] \in {"enter", "waiting"}
  /\ IF t \in waiters THEN flag > 0 /\ flag' = flag - 1 ELSE UNCHANGED flag
  /\ Goto(t, "resume")
  /\ UNCHANGED <<coreVars, current_client, handler_completed, thread_flag,
                 poolVars, runVars, peerVars>>
  /\ Mutex!UrgentLock(t)

-----------------------------------------------------------------------------
(***************************************************************************)
(* resume_monitoring().                                                    *)
(***************************************************************************)
Full == MaxConnections # 0 /\ Len(monitored_clients) = MaxConnections

\* Mutant of Monitor: the limit is not enforced.
MonitorWithoutLimit(c) ==
  /\ monitored_clients' = <<c>> \o monitored_clients
  /\ peer' = [peer EXCEPT ![c] = "accepted"]
  /\ UNCHANGED <<input, eof>>

Evicted == IF Full THEN {Last(monitored_clients)} ELSE {}

\* What there is to read on connections that are closed is lost.
Lose(closed) ==
  /\ input' = [c \in Clients |-> IF c \in closed THEN 0 ELSE input[c]]
  /\ eof' = [c \in Clients |-> c \in closed \/ eof[c]]

\* The connection goes to the front of the list, at the expense of the last one.
Monitor(c) ==
  /\ monitored_clients' = <<c>> \o (IF Full THEN Front(monitored_clients) ELSE monitored_clients)
  /\ peer' = [d \in Clients |->
                IF d = c THEN "accepted" ELSE IF d \in Evicted THEN "gone" ELSE peer[d]]
  /\ Lose(Evicted)

(***************************************************************************)
(* The thread hands back the client whose request it has handled, unless   *)
(* that was interrupted, or an error in its input or output broke the      *)
(* connection.                                                             *)
(***************************************************************************)
Resume(t) ==
  /\ pc[t] = "resume"
  /\ LET c == current_client[t] IN
       /\ served_clients' = served_clients \ {c}
       /\ \/ /\ peer' = [peer EXCEPT ![c] = "gone"]
             /\ Lose({c})
             /\ UNCHANGED <<monitored_clients, detected>>
          \/ /\ handler_completed[t]
             /\ Monitor(c) /\ detected' = detected \ Evicted
  /\ current_client' = [current_client EXCEPT ![t] = None]
  /\ n_idle_threads' = n_idle_threads + 1
  /\ Goto(t, "check")
  /\ UNCHANGED <<lockVars, woken_up, selected_client, handler_completed, thread_flag,
                 n_threads, frozen, runVars>>

CheckStopping(t) ==
  /\ pc[t] = "check"
  /\ IF dispatcher_stopping
       THEN Goto(t, "exit") /\ n_idle_threads' = n_idle_threads - 1
       ELSE Goto(t, "select") /\ UNCHANGED n_idle_threads
  /\ UNCHANGED <<lockVars, coreVars, current_client, handler_completed, thread_flag,
                 n_threads, frozen, runVars, peerVars>>

-----------------------------------------------------------------------------
(***************************************************************************)
(* The callbacks that select_client()'s loop invokes.  When there are no   *)
(* events left that it found before, the selector finds all that are       *)
(* ready.  It delivers them in some order, one by one and in whichever     *)
(* select_client() call, as the scheduler is shared.  One that is stale by *)
(* then is of no consequence.                                              *)
(***************************************************************************)
Selecting(t) == pc[t] = "select" /\ ~woken_up /\ selected_client = None

Readable(c) == input[c] > 0 \/ eof[c]

Ready ==
  {c \in ToSet(monitored_clients) : Readable(c)}
    \cup {e \in {"flag"} : flag > 0}
    \cup {e \in {"listener"} : \E c \in Clients : peer[c] = "queued"}

SelectorFinds(t) ==
  /\ Selecting(t)
  /\ detected = {} /\ Ready # {}
  /\ detected' = Ready
  /\ UNCHANGED <<lockVars, monitored_clients, served_clients, woken_up, selected_client,
                 threadVars, poolVars, runVars, peerVars>>

OnWakeupFlag(t) ==
  /\ Selecting(t)
  /\ "flag" \in detected /\ detected' = detected \ {"flag"}
  /\ woken_up' = (flag > 0)
  /\ UNCHANGED <<lockVars, monitored_clients, served_clients, selected_client,
                 threadVars, poolVars, runVars, peerVars>>

OnListenerReady(t) ==
  /\ Selecting(t)
  /\ "listener" \in detected /\ detected' = detected \ ({"listener"} \cup Evicted)
  /\ \E c \in Clients : peer[c] = "queued" /\ Monitor(c)
  /\ UNCHANGED <<lockVars, served_clients, woken_up, selected_client,
                 threadVars, poolVars, runVars>>

\* Mutant of Unmonitor: the client is served, but not taken from the list.
UnmonitorNothing(i) == UNCHANGED monitored_clients

Unmonitor(i) == monitored_clients' = RemoveAt(monitored_clients, i)

\* There is a request, or the end of the input.
OnClientReadable(t, i) ==
  /\ Selecting(t)
  /\ LET c == monitored_clients[i] IN
       /\ c \in detected /\ detected' = detected \ {c}
       /\ \/ /\ input[c] > 0
             /\ served_clients' = served_clients \cup {c}
             /\ selected_client' = c
             /\ UNCHANGED peer
          \/ /\ input[c] = 0 /\ eof[c]
             /\ peer' = [peer EXCEPT ![c] = "gone"]
             /\ UNCHANGED <<served_clients, selected_client>>
  /\ Unmonitor(i)
  /\ UNCHANGED <<lockVars, woken_up, threadVars, poolVars, runVars, input, eof>>

(***************************************************************************)
(* The end of select_client(), and what serve() does with the result.  The *)
(* thread that takes the last idle thread's place as a server of requests  *)
(* adds a thread to the pool if it can.                                    *)
(***************************************************************************)
\* Mutant of PushedAside: woken_up_ is not reset.
PushedAsideForGood(t) ==
  /\ pc[t] = "select" /\ woken_up
  /\ Goto(t, "unlock")
  /\ UNCHANGED <<lockVars, coreVars, current_client, handler_completed, thread_flag,
                 poolVars, runVars, peerVars>>

PushedAside(t) ==
  /\ pc[t] = "select" /\ woken_up
  /\ woken_up' = FALSE
  /\ Goto(t, "unlock")
  /\ UNCHANGED <<lockVars, monitored_clients, served_clients, selected_client, detected,
                 current_client, handler_completed, thread_flag, poolVars,
                 runVars, peerVars>>

\* Mutant of CanAdd: the last thread of the pool is never started.
CanAddOffByOne == ~frozen /\ n_threads + 1 < MaxConcurrentRequests

CanAdd == ~frozen /\ n_threads < MaxConcurrentRequests

TakeClient(t) ==
  /\ pc[t] = "select" /\ selected_client # None
  /\ selected_client' = None
  /\ current_client' = [current_client EXCEPT ![t] = selected_client]
  /\ IF n_idle_threads = 1 /\ CanAdd
       THEN /\ pc' = [pc EXCEPT ![t] = "unlock", ![n_threads + 1] = "enter"]
            /\ n_threads' = n_threads + 1
            /\ UNCHANGED n_idle_threads
       ELSE /\ Goto(t, "unlock")
            /\ n_idle_threads' = n_idle_threads - 1
            /\ UNCHANGED n_threads
  /\ UNCHANGED <<lockVars, monitored_clients, served_clients, woken_up, detected,
                 handler_completed, thread_flag, frozen, runVars, peerVars>>

(***************************************************************************)
(* core_lock_t's destructor.                                               *)
(***************************************************************************)
Unlock(t) ==
  /\ pc[t] \in {"unlock", "exit"}
  /\ Goto(t, IF pc[t] = "exit" THEN "dead"
             ELSE IF current_client[t] # None THEN "handle" ELSE "enter")
  /\ UNCHANGED <<flag, coreVars, current_client, handler_completed, thread_flag,
                 poolVars, runVars, peerVars>>
  /\ Mutex!Unlock(t)

-----------------------------------------------------------------------------
(***************************************************************************)
(* handle_request().  It ends with the request, or when the thread's own   *)
(* wakeup flag is raised.                                                  *)
(***************************************************************************)
HandlerCompletes(t) ==
  /\ pc[t] = "handle"
  /\ input' = [input EXCEPT ![current_client[t]] = @ - 1]
  /\ handler_completed' = [handler_completed EXCEPT ![t] = TRUE]
  /\ Goto(t, "enter")
  /\ UNCHANGED <<lockVars, coreVars, current_client, thread_flag, poolVars, runVars,
                 peer, eof>>

HandlerInterrupted(t) ==
  /\ pc[t] = "handle"
  /\ thread_flag[t]
  /\ thread_flag' = [thread_flag EXCEPT ![t] = FALSE]
  /\ handler_completed' = [handler_completed EXCEPT ![t] = FALSE]
  /\ Goto(t, "enter")
  /\ UNCHANGED <<lockVars, coreVars, current_client, poolVars, runVars, peerVars>>

-----------------------------------------------------------------------------
(***************************************************************************)
(* run().                                                                  *)
(***************************************************************************)
RunStart ==
  /\ main = "outside"
  /\ n_idle_threads' = 1
  /\ n_threads' = 1
  /\ pc' = [pc EXCEPT ![1] = "enter"]
  /\ main' = "running"
  /\ UNCHANGED <<lockVars, coreVars, current_client, handler_completed, thread_flag,
                 frozen, dispatcher_stopping, joining, signals, peerVars>>

RunCatchSignal ==
  /\ main = "running"
  /\ signals > 0
  /\ signals' = signals - 1
  /\ dispatcher_stopping' = TRUE
  /\ main' = "raise"
  /\ UNCHANGED <<lockVars, coreVars, threadVars, poolVars, joining, peerVars>>

RunRaise ==
  /\ main = "raise"
  /\ flag' = flag + 1
  /\ main' = "freeze"
  /\ UNCHANGED <<holder, waiters, coreVars, threadVars, poolVars, dispatcher_stopping,
                 joining, signals, peerVars>>

\* thread_pool_t::join() freezes the pool, then joins the threads one by one.
PoolFreeze ==
  /\ main = "freeze"
  /\ frozen' = TRUE
  /\ joining' = 1
  /\ main' = "join"
  /\ UNCHANGED <<lockVars, coreVars, threadVars, n_threads, n_idle_threads,
                 dispatcher_stopping, signals, peerVars>>

\* Mutant of JoinInterrupts: the thread's own flag is not raised.
JoinWithoutInterrupt ==
  /\ main = "join"
  /\ joining <= n_threads /\ pc[joining] # "dead"
  /\ main' = "join_wait"
  /\ UNCHANGED <<lockVars, coreVars, threadVars, poolVars, dispatcher_stopping,
                 joining, signals, peerVars>>

\* pooled_thread_t::join() on a thread that is still in serve().
JoinInterrupts ==
  /\ main = "join"
  /\ joining <= n_threads /\ pc[joining] # "dead"
  /\ thread_flag' = [thread_flag EXCEPT ![joining] = TRUE]
  /\ main' = "join_wait"
  /\ UNCHANGED <<lockVars, coreVars, pc, current_client, handler_completed, poolVars,
                 dispatcher_stopping, joining, signals, peerVars>>

Joined ==
  /\ main \in {"join", "join_wait"}
  /\ joining <= n_threads /\ pc[joining] = "dead"
  /\ joining' = joining + 1
  /\ main' = "join"
  /\ UNCHANGED <<lockVars, coreVars, threadVars, poolVars, dispatcher_stopping,
                 signals, peerVars>>

\* Mutant of RunReturn: the core's flag is left raised.
RunReturnFlagged ==
  /\ main = "join" /\ joining > n_threads
  /\ flag > 0
  /\ dispatcher_stopping' = FALSE
  /\ frozen' = FALSE
  /\ n_threads' = 0
  /\ pc' = [t \in Threads |-> "absent"]
  /\ thread_flag' = [t \in Threads |-> FALSE]
  /\ handler_completed' = [t \in Threads |-> TRUE]
  /\ joining' = 0
  /\ main' = "outside"
  /\ UNCHANGED <<lockVars, coreVars, current_client, n_idle_threads, signals, peerVars>>

RunReturn ==
  /\ main = "join" /\ joining > n_threads
  /\ flag > 0 /\ flag' = flag - 1
  /\ dispatcher_stopping' = FALSE
  /\ frozen' = FALSE
  /\ n_threads' = 0
  /\ pc' = [t \in Threads |-> "absent"]
  /\ thread_flag' = [t \in Threads |-> FALSE]
  /\ handler_completed' = [t \in Threads |-> TRUE]
  /\ joining' = 0
  /\ main' = "outside"
  /\ UNCHANGED <<holder, waiters, coreVars, current_client, n_idle_threads,
                 signals, peerVars>>

Stop ==
  /\ signals < MaxSignals
  /\ signals' = signals + 1
  /\ UNCHANGED <<lockVars, coreVars, threadVars, poolVars, dispatcher_stopping, main,
                 joining, peerVars>>

-----------------------------------------------------------------------------
(***************************************************************************)
(* The peers.                                                              *)
(***************************************************************************)
Connect(c) ==
  /\ peer[c] = "away"
  /\ peer' = [peer EXCEPT ![c] = "queued"]
  /\ UNCHANGED <<lockVars, coreVars, threadVars, poolVars, runVars, input, eof>>

Connected(c) == peer[c] \in {"queued", "accepted"}

SendRequest(c) ==
  /\ Connected(c) /\ ~eof[c]
  /\ input[c] < MaxRequests
  /\ input' = [input EXCEPT ![c] = @ + 1]
  /\ UNCHANGED <<lockVars, coreVars, threadVars, poolVars, runVars, peer, eof>>

Close(c) ==
  /\ Connected(c) /\ ~eof[c]
  /\ eof' = [eof EXCEPT ![c] = TRUE]
  /\ UNCHANGED <<lockVars, coreVars, threadVars, poolVars, runVars, peer, input>>

(***************************************************************************)
(* An input error on the connection: requests that have not been read are  *)
(* lost, and the buffer reports the end of the input.                      *)
(***************************************************************************)
InputError(c) ==
  /\ Connected(c)
  /\ eof' = [eof EXCEPT ![c] = TRUE]
  /\ input' = [input EXCEPT ![c] = IF c \in served_clients THEN 1 ELSE 0]
  /\ UNCHANGED <<lockVars, coreVars, threadVars, poolVars, runVars, peer>>

-----------------------------------------------------------------------------
ThreadNext(t) ==
  \/ NormalLock(t) \/ UrgentRegister(t) \/ UrgentLock(t)
  \/ Resume(t) \/ CheckStopping(t)
  \/ SelectorFinds(t) \/ OnWakeupFlag(t) \/ OnListenerReady(t)
  \/ (\E i \in DOMAIN monitored_clients : OnClientReadable(t, i))
  \/ PushedAside(t) \/ TakeClient(t) \/ Unlock(t)
  \/ HandlerCompletes(t) \/ HandlerInterrupted(t)

\* The thread that has called run().
RunNext ==
  \/ RunCatchSignal \/ RunRaise \/ PoolFreeze \/ JoinInterrupts \/ Joined \/ RunReturn

PeerNext == \E c \in Clients : Connect(c) \/ SendRequest(c) \/ Close(c) \/ InputError(c)

Next ==
  \/ \E t \in Threads : ThreadNext(t)
  \/ RunStart \/ RunNext
  \/ Stop
  \/ PeerNext

Spec == Init /\ [][Next]_vars

(***************************************************************************)
(* Threads run, and a core mutex that is free is taken by one of those     *)
(* that want it (see CoreMutex), but not by each of them in the end.       *)
(* Nothing is assumed of peers, of the owner (run() and stop()), of        *)
(* request handlers, or of the order in which the selector delivers the    *)
(* events it has found.                                                    *)
(***************************************************************************)
Step(t) ==
  \/ Resume(t) \/ CheckStopping(t)
  \/ SelectorFinds(t) \/ OnWakeupFlag(t) \/ OnListenerReady(t)
  \/ (\E i \in DOMAIN monitored_clients : OnClientReadable(t, i))
  \/ PushedAside(t) \/ TakeClient(t)
  \/ Unlock(t) \/ HandlerInterrupted(t)

Fairness ==
  /\ \A t \in Threads : WF_vars(Step(t))
  /\ WF_vars(\E t \in Threads : NormalLock(t) \/ UrgentLock(t))
  /\ WF_vars(RunNext)

FairSpec == Spec /\ Fairness

-----------------------------------------------------------------------------
Monitored == ToSet(monitored_clients)
Live(t)   == pc[t] \notin {"absent", "dead"}
Idle(t)   == Live(t) /\ pc[t] # "exit" /\ current_client[t] = None
Idlers    == {t \in Threads : Idle(t)}

(***************************************************************************)
(* "Each client is either being monitored or being served" (the comment on *)
(* core_dispatcher_t's lists), and a served client has exactly one owner:  *)
(* select_client()'s result or one thread's current_client.  Neither       *)
(* evictions nor stop() disturb that, so no client is used or destroyed by *)
(* two threads.                                                            *)
(***************************************************************************)
ClientOwnership ==
  /\ Len(monitored_clients) = Cardinality(Monitored)
  /\ Monitored \cap served_clients = {}
  /\ Monitored \cup served_clients = {c \in Clients : peer[c] = "accepted"}
  /\ served_clients = ({current_client[t] : t \in Threads} \cup {selected_client}) \ {None}
  /\ \A t \in Urgent : current_client[t] # selected_client
  /\ \A t, u \in Urgent : current_client[t] = current_client[u] => t = u

(***************************************************************************)
(* n_idle_threads_ counts the threads that are not serving a client, and   *)
(* the wakeup flag counts those that need it: every assert on them holds.  *)
(***************************************************************************)
Counts ==
  /\ n_idle_threads = Cardinality(Idlers)
  /\ flag = Cardinality(waiters) + (IF main \in {"freeze", "join", "join_wait"} THEN 1 ELSE 0)

(***************************************************************************)
(* The asserts of select_client() and run(): a wakeup and a selection      *)
(* exclude each other, and neither survives the call; all threads are      *)
(* accounted for when they have been joined.                               *)
(***************************************************************************)
AssertsHold ==
  /\ ~(woken_up /\ selected_client # None)
  /\ (woken_up \/ selected_client # None) => \E t \in Threads : pc[t] = "select"
  /\ main = "outside" => n_idle_threads = 0
  /\ (main = "join" /\ joining > n_threads) => n_idle_threads = 0 /\ flag > 0

(***************************************************************************)
(* A new thread is started in time: while run() waits for a signal, there  *)
(* is a thread to monitor the connections unless the maximum number of     *)
(* requests is being handled.                                              *)
(***************************************************************************)
SomebodyMonitors ==
  main = "running" =>
    Idlers # {} \/ Cardinality(served_clients) = MaxConcurrentRequests

(***************************************************************************)
(* Where a thread is decides if it has the core mutex and a client; the    *)
(* threads of the pool are 1 .. n_threads, and they only end, and requests *)
(* are only interrupted, when run() is being stopped.                      *)
(***************************************************************************)
Fits(t) ==
  /\ pc[t] = "absent" <=> t > n_threads
  /\ holder = t <=> pc[t] \in {"resume", "check", "select", "unlock", "exit"}
  /\ t \in waiters <=> pc[t] = "waiting"
  /\ pc[t] \in {"waiting", "resume", "handle"} => current_client[t] # None
  /\ pc[t] \in {"absent", "check", "select", "exit", "dead"} => current_client[t] = None
  /\ pc[t] \in {"exit", "dead"} \/ thread_flag[t] \/ ~handler_completed[t] => dispatcher_stopping

ThreadsFit == \A t \in Threads : Fits(t)

(***************************************************************************)
(* How far run() has got.  No thread is added behind the back of join():   *)
(* until then there is an idle thread, or all that there can be.           *)
(***************************************************************************)
RunFits ==
  /\ main = "outside" => n_threads = 0 /\ n_idle_threads = 0
  /\ main # "outside" => n_threads > 0
  /\ main = "running" /\ n_idle_threads = 0 => n_threads = MaxConcurrentRequests
  /\ dispatcher_stopping <=> main \notin {"outside", "running"}
  /\ frozen <=> main \in {"join", "join_wait"}
  /\ frozen => /\ joining \in 1 .. n_threads + 1
               /\ \A t \in 1 .. joining - 1 : pc[t] = "dead"
  /\ main = "join_wait" => joining <= n_threads

(***************************************************************************)
(* A request that is to be handled is there: no handler waits for one.     *)
(***************************************************************************)
RequestsAreThere ==
  /\ selected_client # None => input[selected_client] > 0
  /\ \A t \in Urgent : pc[t] \in {"unlock", "handle"} => input[current_client[t]] > 0

\* What the threads rely on whenever one of them has the core mutex or has not.
IInv ==
  /\ TypeOK
  /\ ThreadsFit
  /\ RunFits
  /\ RequestsAreThere
  /\ ClientOwnership
  /\ Counts
  /\ AssertsHold

(***************************************************************************)
(* When run() returns nothing of it is left that the next call would       *)
(* stumble over: no thread, lock, raised flag, or client without an owner. *)
(***************************************************************************)
RunLeavesNothing ==
  main = "outside" =>
    /\ holder = None /\ waiters = {} /\ flag = 0
    /\ served_clients = {}
    /\ ~woken_up

(***************************************************************************)
(* dispatcher_t is a RequestServer.                                        *)
(***************************************************************************)
Conn == [c \in Clients |-> IF peer[c] # "accepted" THEN peer[c]
                           ELSE IF c \in served_clients THEN "busy" ELSE "idle"]

Server == INSTANCE RequestServer
            WITH conn <- Conn,
                 running <- main # "outside",
                 stopping <- dispatcher_stopping

ImplementsRequestServer == Server!Spec

(***************************************************************************)
(* stop() makes run() return, even if no request ever completes: idle      *)
(* threads are woken by the core's flag, and the others, one at a time, by *)
(* their own.                                                              *)
(***************************************************************************)
StopReturns == (signals > 0 /\ main # "outside") ~> main = "outside"

\* Every request is over at some time: its method returns, and the throughput
\* checker ends the transfers of a peer that is too slow.
HandlersReturn == \A t \in Threads : []<>(pc[t] # "handle")

(***************************************************************************)
(* A request on a monitored connection is taken up, unless its connection  *)
(* is evicted or run() is stopped: neither threads that handle other       *)
(* requests, provided that these are over at some time, nor connections    *)
(* that send requests again and again, nor threads that push the one that  *)
(* monitors aside to hand back their clients, keep it waiting forever.     *)
(***************************************************************************)
RequestIsTakenUp ==
  HandlersReturn =>
    \A c \in Clients :
      (c \in Monitored /\ input[c] > 0 /\ main = "running")
        ~> (c \notin Monitored \/ main # "running")

=============================================================================
