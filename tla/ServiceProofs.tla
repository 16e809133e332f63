--------------------------- MODULE ServiceProofs ----------------------------
(***************************************************************************)
(* Proofs about an encoding service, from its launch to its calls: the     *)
(* processes and signal handlers of a service, the scheduler that runs its *)
(* event loop, and one encode call.                                        *)
(***************************************************************************)
EXTENDS EncodeCall, Services, Scheduler, SequenceFacts, TLAPS

-----------------------------------------------------------------------------
(*****************************************************************************)
(* The processes of a service.  A step is one launch's: what concerns one    *)
(* launch alone, LocalInv, is enough for what the launches owe each other,   *)
(* the pidfile, and each step leaves the other launches untouched.           *)
(*****************************************************************************)
ProcessPCs == [parent : D!ParentPCs, child : D!ChildPCs, server : D!ServerPCs]
PipeEnds  == [reader : SUBSET D!Processes, writer : SUBSET D!Processes]

\* What concerns one launch alone,
PidfilePart(l) ==
  /\ D!PidfileIsExplained(l)
  /\ D!Owns(l) => pidfile = l
  /\ pc[l].server = "exited" => pidfile # l

LocalInv(l) ==
  D!ForksInOrder(l) /\ D!PipeTellsTheTruth(l) /\ D!HandlerInPlace(l) /\ PidfilePart(l)

\* and what leaves it alone.
Untouched(l) ==
  /\ pc'[l] = pc[l] /\ ends'[l] = ends[l] /\ signal'[l] = signal[l]
  /\ byte'[l] = byte[l] /\ thrown'[l] = thrown[l] /\ stopping'[l] = stopping[l]
  /\ pidfile' = l <=> pidfile = l

KeepsInv(l) ==
  /\ D!DaemonTypeOK' /\ config' = config
  /\ LocalInv(l)'
  /\ \A k \in Launches \ {l} : Untouched(k)

LEMMA GotoServer ==
  ASSUME D!DaemonTypeOK, NEW l \in Launches, NEW step \in D!ServerPCs, D!Goto(l, "server", step)
  PROVE  /\ pc' \in [Launches -> ProcessPCs]
         /\ pc'[l].server = step /\ pc'[l].child = pc[l].child /\ pc'[l].parent = pc[l].parent
         /\ \A k \in Launches \ {l} : pc'[k] = pc[k]
BY DEF D!Goto, D!DaemonTypeOK, ProcessPCs

LEMMA GotoChild ==
  ASSUME D!DaemonTypeOK, NEW l \in Launches, NEW step \in D!ChildPCs, D!Goto(l, "child", step)
  PROVE  /\ pc' \in [Launches -> ProcessPCs]
         /\ pc'[l].server = pc[l].server /\ pc'[l].child = step /\ pc'[l].parent = pc[l].parent
         /\ \A k \in Launches \ {l} : pc'[k] = pc[k]
BY DEF D!Goto, D!DaemonTypeOK, ProcessPCs

LEMMA GotoParent ==
  ASSUME D!DaemonTypeOK, NEW l \in Launches, NEW step \in D!ParentPCs, D!Goto(l, "parent", step)
  PROVE  /\ pc' \in [Launches -> ProcessPCs]
         /\ pc'[l].server = pc[l].server /\ pc'[l].child = pc[l].child /\ pc'[l].parent = step
         /\ \A k \in Launches \ {l} : pc'[k] = pc[k]
BY DEF D!Goto, D!DaemonTypeOK, ProcessPCs

LEMMA CloseIs ==
  ASSUME D!DaemonTypeOK, NEW l \in Launches, NEW p \in D!Processes, D!Close(l, p)
  PROVE  /\ ends' \in [Launches -> PipeEnds]
         /\ ends'[l].writer = ends[l].writer \ {p} /\ ends'[l].reader = ends[l].reader \ {p}
         /\ \A k \in Launches \ {l} : ends'[k] = ends[k]
BY DEF D!Close, D!DaemonTypeOK, PipeEnds

LEMMA InheritIs ==
  ASSUME D!DaemonTypeOK, NEW l \in Launches, NEW p \in D!Processes, NEW q \in D!Processes, D!Inherit(l, p, q)
  PROVE  /\ ends' \in [Launches -> PipeEnds]
         /\ ends'[l].writer = IF p \in ends[l].writer THEN ends[l].writer \cup {q} ELSE ends[l].writer
         /\ \A k \in Launches \ {l} : ends'[k] = ends[k]
BY DEF D!Inherit, D!DaemonTypeOK, PipeEnds

LEMMA LeaveIs ==
  ASSUME D!DaemonTypeOK, NEW l \in Launches, D!HandlerInPlace(l), D!Leave(l),
         pc[l].server \in D!Initializing \cup {"redirect_fds", "run"}
  PROVE  /\ pc' \in [Launches -> ProcessPCs]
         /\ pc'[l].child = pc[l].child /\ pc'[l].parent = pc[l].parent
         /\ pc'[l].server \in {"restore_action", "delete_pidfile", "close_pipe"}
         /\ pc'[l].server = "restore_action" <=> pc[l].server \in {"redirect_fds", "run"}
         /\ pc'[l].server = "delete_pidfile" =>
              D!HasPidfile(l) /\ pc[l].server \notin {"user", "logging", "pidfile"}
         /\ pc'[l].server = "close_pipe" =>
              ~D!HasPidfile(l) \/ pc[l].server \in {"user", "logging", "pidfile"}
         /\ \A k \in Launches \ {l} : pc'[k] = pc[k]
         /\ ends' = ends /\ byte' = byte
<1> DEFINE handled == signal[l].action # "default"
           step == IF handled THEN "restore_action"
                   ELSE IF D!HasPidfile(l) /\ pc[l].server \notin {"user", "logging", "pidfile"}
                      THEN "delete_pidfile" ELSE "close_pipe"
<1>1. D!Goto(l, "server", step) /\ ends' = ends /\ byte' = byte
  BY DEF D!Leave
<1>2. handled <=> pc[l].server \in {"redirect_fds", "run"}
  BY DEF D!HandlerInPlace, D!Initializing, D!Handles
<1>3. step \in D!ServerPCs /\ step \in {"restore_action", "delete_pidfile", "close_pipe"}
  BY DEF D!ServerPCs, D!Unwinding
<1>4. /\ pc' \in [Launches -> ProcessPCs]
      /\ pc'[l].server = step /\ pc'[l].child = pc[l].child /\ pc'[l].parent = pc[l].parent
      /\ \A k \in Launches \ {l} : pc'[k] = pc[k]
  BY <1>1, <1>3, GotoServer
<1>5. /\ step = "restore_action" <=> pc[l].server \in {"redirect_fds", "run"}
      /\ step = "delete_pidfile" => D!HasPidfile(l) /\ pc[l].server \notin {"user", "logging", "pidfile"}
      /\ step = "close_pipe" => ~D!HasPidfile(l) \/ pc[l].server \in {"user", "logging", "pidfile"}
  BY <1>2
<1> HIDE DEF step
<1> QED
  BY <1>1, <1>3, <1>4, <1>5
LEMMA LocalInvHolds ==
  ASSUME D!DaemonInv, NEW l \in Launches
  PROVE  LocalInv(l) /\ D!DaemonTypeOK
BY DEF D!DaemonInv, LocalInv, PidfilePart, D!PidfileHasOneOwner

LEMMA UntouchedKeeps ==
  ASSUME NEW k \in Launches, LocalInv(k), Untouched(k), config' = config
  PROVE  LocalInv(k)'
BY DEF LocalInv, PidfilePart, Untouched, D!ForksInOrder, D!PipeTellsTheTruth, D!HandlerInPlace, D!PidfileIsExplained,
       D!Owns, D!HasPidfile

\* The launch's own facts are enough for what the parents say, and for what a signal finds.
AllLocalInv == D!DaemonTypeOK /\ \A l \in Launches : LocalInv(l)

LEMMA LocalInvIsEnough == AllLocalInv => D!DaemonInv
<1> SUFFICES ASSUME D!DaemonTypeOK, \A l \in Launches : LocalInv(l)
             PROVE  D!DaemonInv
  BY DEF AllLocalInv
<1>1. D!PidfileHasOneOwner
  BY DEF LocalInv, PidfilePart, D!PidfileHasOneOwner
<1>2. ASSUME NEW l \in Launches
      PROVE  /\ pc[l].server \in D!ServerPCs /\ pc[l].child \in D!ChildPCs /\ pc[l].parent \in D!ParentPCs
             /\ signal[l].action \in {"default", "handler_routine"}
  BY DEF D!DaemonTypeOK, D!Handler!Signals
<1>3. D!SignalFindsService
  <2> SUFFICES ASSUME NEW l \in Launches
               PROVE  /\ D!Handler!Effect(signal[l]) # "aborted"
                      /\ ~D!Ended(l, "server") /\ D!Handler!Effect(signal[l]) = "called" =>
                           pc[l].server \notin D!Initializing \cup {"none", "delete_pidfile", "close_pipe"}
    BY DEF D!SignalFindsService
  <2>1. "handler" # None
    BY ServicesAssumption
  <2> QED
    BY <1>2, <2>1
    DEF LocalInv, PidfilePart, D!HandlerInPlace, D!Handles, D!Made, D!Handler!Effect, D!Ended, D!ServerPCs, D!Initializing,
        D!Confirming, D!Unwinding
<1>4. D!OutcomeIsTrue
  <2> SUFFICES ASSUME NEW l \in Launches, config[l].daemon
               PROVE  /\ pc[l].parent = "success" =>
                           \/ pc[l].server \in {"close_writer", "run"} /\ D!Handler!Effect(signal[l]) = "called"
                           \/ pc[l].server \in D!Unwinding /\ (stopping[l] \/ thrown[l] \/ ~config[l].service)
                           \/ pc[l].server \in {"exited", "killed"}
                      /\ pc[l].parent = "failure" /\ pc[l].child # "killed" =>
                           /\ pc[l].server \in {"none", "exited", "killed"} /\ ~byte[l]
                           /\ pc[l].server # "killed" => pidfile # l
    BY DEF D!OutcomeIsTrue
  <2>1. "handler" # None
    BY ServicesAssumption
  <2>2. D!ForksInOrder(l) /\ D!PipeTellsTheTruth(l)
    BY DEF LocalInv
  <2>3. pc[l].server \in {"close_writer", "run"} => D!Handler!Effect(signal[l]) = "called"
    BY <1>2, <2>1 DEF LocalInv, PidfilePart, D!HandlerInPlace, D!Handles, D!Made, D!Handler!Effect, D!Confirming
  <2>4. pc[l].server \in {"none", "exited"} => pidfile # l
    BY DEF LocalInv, PidfilePart, D!PidfileIsExplained, D!Owns
  <2>5. byte[l] => \/ pc[l].server \in {"close_writer", "run"}
                   \/ pc[l].server \in D!Unwinding /\ (stopping[l] \/ thrown[l] \/ ~config[l].service)
                   \/ pc[l].server \in {"exited", "killed"}
    BY <2>2 DEF D!PipeTellsTheTruth
  <2>6. byte[l] => pc[l].server # "none"
    BY <2>5 DEF D!Unwinding
  <2>7. pc[l].parent = "failure" /\ pc[l].child # "killed" =>
          pc[l].server \in {"none", "exited", "killed"} /\ ~byte[l]
    BY <1>2, <2>2, <2>6 DEF D!ForksInOrder, D!PipeTellsTheTruth, D!ChildPCs
  <2> QED
    BY <2>2, <2>3, <2>4, <2>5, <2>7 DEF D!PipeTellsTheTruth
<1> QED
  BY <1>1, <1>3, <1>4 DEF D!DaemonInv, LocalInv, PidfilePart
-----------------------------------------------------------------------------
LEMMA DaemonInitIsFine ==
  ASSUME D!DaemonInit
  PROVE  D!DaemonInv
<1> USE ServicesAssumption
<1>1. D!DaemonTypeOK
  BY DEF D!DaemonInit, D!DaemonTypeOK, D!ParentPCs, D!ChildPCs, D!ServerPCs, D!Processes,
         D!Handler!NoHandlers, D!Handler!Signals
<1>2. ASSUME NEW l \in Launches
      PROVE  LocalInv(l)
  <2>1. pidfile # l
    BY DEF D!DaemonInit
  <2>2. /\ pc[l].parent = "start" /\ pc[l].child = "none" /\ pc[l].server = "none" /\ ~byte[l]
        /\ "parent" \in ends[l].writer /\ signal[l].action = "default" /\ signal[l].current = None
    BY DEF D!DaemonInit, D!Handler!NoHandlers
  <2> QED
    BY <2>1, <2>2
    DEF LocalInv, PidfilePart, D!ForksInOrder, D!PipeTellsTheTruth, D!HandlerInPlace, D!PidfileIsExplained,
        D!Owns, D!Confirming, D!Unwinding
<1> QED
  BY <1>1, <1>2, LocalInvIsEnough DEF AllLocalInv

LEMMA ServerStays ==
  ASSUME NEW l \in Launches, LocalInv(l), pc'[l].server = pc[l].server,
         UNCHANGED <<config, signal, pidfile>>
  PROVE  D!HandlerInPlace(l)' /\ PidfilePart(l)'
BY DEF LocalInv, PidfilePart, D!HandlerInPlace, D!PidfileIsExplained, D!Owns, D!HasPidfile

LEMMA StartKeeps ==
  ASSUME D!DaemonInv, NEW l \in Launches, D!Start(l)
  PROVE  KeepsInv(l)
<1> USE DEF D!Processes
<1>1. LocalInv(l) /\ D!DaemonTypeOK
  BY LocalInvHolds
<1>2. UNCHANGED <<thrown, byte, pidfile, config, signal, stopping, signals, kills>>
  BY DEF D!Start, D!Rest
<1>3. pc[l].parent = "start" /\ pc[l].child = "none" /\ pc[l].server = "none"
  BY <1>1 DEF D!Start, LocalInv, D!ForksInOrder
<1>4. CASE config[l].daemon /\ pc' = [pc EXCEPT ![l].parent = "wait", ![l].child = "setsid"]
             /\ D!Inherit(l, "parent", "child")
  <2>1. /\ pc' \in [Launches -> ProcessPCs] /\ \A k \in Launches \ {l} : pc'[k] = pc[k]
        /\ pc'[l].parent = "wait" /\ pc'[l].child = "setsid" /\ pc'[l].server = "none"
    <3>1. pc \in [Launches -> ProcessPCs] /\ "wait" \in D!ParentPCs /\ "setsid" \in D!ChildPCs
      BY <1>1 DEF D!DaemonTypeOK, ProcessPCs, D!ParentPCs, D!ChildPCs
    <3>2. pc' = [pc EXCEPT ![l].parent = "wait", ![l].child = "setsid"]
      BY <1>4
    <3> QED
      BY <1>3, <3>1, <3>2 DEF ProcessPCs
  <2>2. /\ ends' \in [Launches -> PipeEnds] /\ \A k \in Launches \ {l} : ends'[k] = ends[k]
        /\ "parent" \in ends'[l].writer /\ "child" \in ends'[l].writer
    BY <1>1, <1>3, <1>4, InheritIs DEF LocalInv, D!PipeTellsTheTruth
  <2>3. D!HandlerInPlace(l)' /\ PidfilePart(l)'
    BY <1>1, <1>2, <1>3, <2>1, ServerStays
  <2>4. D!ForksInOrder(l)' /\ D!PipeTellsTheTruth(l)'
    BY <1>1, <1>2, <1>3, <2>1, <2>2 DEF LocalInv, D!ForksInOrder, D!PipeTellsTheTruth, D!Unwinding
  <2>5. D!DaemonTypeOK'
    BY <1>1, <1>2, <2>1, <2>2 DEF D!DaemonTypeOK, ProcessPCs, PipeEnds
  <2> QED
    BY <1>2, <2>1, <2>2, <2>3, <2>4, <2>5 DEF KeepsInv, LocalInv, Untouched
<1>5. CASE config[l].daemon /\ D!Exit(l, "parent", "failure")
  <2>1. /\ pc' \in [Launches -> ProcessPCs] /\ \A k \in Launches \ {l} : pc'[k] = pc[k]
        /\ pc'[l].parent = "failure" /\ pc'[l].child = "none" /\ pc'[l].server = "none"
    BY <1>1, <1>3, <1>5, GotoParent DEF D!Exit, D!ParentPCs
  <2>2. /\ ends' \in [Launches -> PipeEnds] /\ \A k \in Launches \ {l} : ends'[k] = ends[k]
    BY <1>1, <1>5, CloseIs DEF D!Exit
  <2>3. D!HandlerInPlace(l)' /\ PidfilePart(l)'
    BY <1>1, <1>2, <1>3, <2>1, ServerStays
  <2>4. D!ForksInOrder(l)' /\ D!PipeTellsTheTruth(l)'
    BY <1>1, <1>2, <1>3, <2>1, <2>2 DEF LocalInv, D!ForksInOrder, D!PipeTellsTheTruth, D!Unwinding
  <2>5. D!DaemonTypeOK'
    BY <1>1, <1>2, <2>1, <2>2 DEF D!DaemonTypeOK, ProcessPCs, PipeEnds
  <2> QED
    BY <1>2, <2>1, <2>2, <2>3, <2>4, <2>5 DEF KeepsInv, LocalInv, Untouched
<1>6. CASE ~config[l].daemon
  <2>1. /\ pc' = [pc EXCEPT ![l].parent = "in_foreground", ![l].server = "user"]
        /\ D!Close(l, "parent")
    BY <1>6 DEF D!Start
  <2>2. /\ pc' \in [Launches -> ProcessPCs] /\ \A k \in Launches \ {l} : pc'[k] = pc[k]
        /\ pc'[l].parent = "in_foreground" /\ pc'[l].child = "none" /\ pc'[l].server = "user"
    BY <1>1, <1>3, <2>1 DEF D!DaemonTypeOK, ProcessPCs, D!ParentPCs, D!ChildPCs, D!ServerPCs, D!Initializing
  <2>3. /\ ends' \in [Launches -> PipeEnds] /\ \A k \in Launches \ {l} : ends'[k] = ends[k]
    BY <1>1, <2>1, CloseIs
  <2>4. D!HandlerInPlace(l)' /\ PidfilePart(l)'
    BY <1>1, <1>2, <1>3, <2>2
    DEF LocalInv, PidfilePart, D!HandlerInPlace, D!PidfileIsExplained, D!Owns, D!HasPidfile, D!Initializing, D!Confirming
  <2>5. D!ForksInOrder(l)' /\ D!PipeTellsTheTruth(l)'
    BY <1>1, <1>2, <1>3, <1>6, <2>2, <2>3 DEF LocalInv, D!ForksInOrder, D!PipeTellsTheTruth, D!Unwinding
  <2>6. D!DaemonTypeOK'
    BY <1>1, <1>2, <2>2, <2>3 DEF D!DaemonTypeOK, ProcessPCs, PipeEnds
  <2> QED
    BY <1>2, <2>2, <2>3, <2>4, <2>5, <2>6 DEF KeepsInv, LocalInv, Untouched
<1> QED
  BY <1>4, <1>5, <1>6 DEF D!Start

LEMMA ChildStepKeeps ==
  ASSUME D!DaemonInv, NEW l \in Launches, D!ChildStep(l)
  PROVE  KeepsInv(l)
<1> USE DEF D!Processes
<1>1. LocalInv(l) /\ D!DaemonTypeOK
  BY LocalInvHolds
<1>2. UNCHANGED <<thrown, byte, pidfile, config, signal, stopping, signals, kills>>
  BY DEF D!ChildStep, D!Rest
<1>3. CASE pc[l].child = "setsid" /\ D!Goto(l, "child", "fork") /\ ends' = ends
  <2>1. /\ pc' \in [Launches -> ProcessPCs] /\ \A k \in Launches \ {l} : pc'[k] = pc[k]
        /\ pc'[l].parent = pc[l].parent /\ pc'[l].child = "fork" /\ pc'[l].server = pc[l].server
    BY <1>1, <1>3, GotoChild DEF D!ChildPCs
  <2>2. D!HandlerInPlace(l)' /\ PidfilePart(l)'
    BY <1>1, <1>2, <2>1, ServerStays
  <2>3. D!ForksInOrder(l)' /\ D!PipeTellsTheTruth(l)'
    BY <1>1, <1>2, <1>3, <2>1 DEF LocalInv, D!ForksInOrder, D!PipeTellsTheTruth
  <2>4. D!DaemonTypeOK'
    BY <1>1, <1>2, <1>3, <2>1 DEF D!DaemonTypeOK, ProcessPCs
  <2> QED
    BY <1>2, <1>3, <2>1, <2>2, <2>3, <2>4 DEF KeepsInv, LocalInv, Untouched
<1>4. CASE pc[l].child \in {"setsid", "fork"} /\ D!Exit(l, "child", "exited_1")
  <2>1. /\ pc' \in [Launches -> ProcessPCs] /\ \A k \in Launches \ {l} : pc'[k] = pc[k]
        /\ pc'[l].parent = pc[l].parent /\ pc'[l].child = "exited_1" /\ pc'[l].server = pc[l].server
    BY <1>1, <1>4, GotoChild DEF D!Exit, D!ChildPCs
  <2>2. /\ ends' \in [Launches -> PipeEnds] /\ \A k \in Launches \ {l} : ends'[k] = ends[k]
        /\ ends'[l].writer = ends[l].writer \ {"child"}
    BY <1>1, <1>4, CloseIs DEF D!Exit
  <2>3. D!HandlerInPlace(l)' /\ PidfilePart(l)'
    BY <1>1, <1>2, <2>1, ServerStays
  <2>4. D!ForksInOrder(l)' /\ D!PipeTellsTheTruth(l)'
    BY <1>1, <1>2, <1>4, <2>1, <2>2 DEF LocalInv, D!ForksInOrder, D!PipeTellsTheTruth
  <2>5. D!DaemonTypeOK'
    BY <1>1, <1>2, <2>1, <2>2 DEF D!DaemonTypeOK, ProcessPCs, PipeEnds
  <2> QED
    BY <1>2, <2>1, <2>2, <2>3, <2>4, <2>5 DEF KeepsInv, LocalInv, Untouched
<1>5. CASE /\ pc[l].child = "fork"
           /\ pc' = [pc EXCEPT ![l].child = "return", ![l].server = "user"]
           /\ D!Inherit(l, "child", "server")
  <2>1. /\ pc' \in [Launches -> ProcessPCs] /\ \A k \in Launches \ {l} : pc'[k] = pc[k]
        /\ pc'[l].parent = pc[l].parent /\ pc'[l].child = "return" /\ pc'[l].server = "user"
        /\ pc[l].server = "none"
    BY <1>1, <1>5
    DEF LocalInv, D!ForksInOrder, D!DaemonTypeOK, ProcessPCs, D!ChildPCs, D!ServerPCs, D!Initializing
  <2>2. /\ ends' \in [Launches -> PipeEnds] /\ \A k \in Launches \ {l} : ends'[k] = ends[k]
        /\ ends'[l].writer = IF "child" \in ends[l].writer THEN ends[l].writer \cup {"server"} ELSE ends[l].writer
    BY <1>1, <1>5, InheritIs
  <2>3. D!HandlerInPlace(l)' /\ PidfilePart(l)'
    BY <1>1, <1>2, <2>1
    DEF LocalInv, PidfilePart, D!HandlerInPlace, D!PidfileIsExplained, D!Owns, D!HasPidfile, D!Initializing, D!Confirming
  <2>4. D!ForksInOrder(l)' /\ D!PipeTellsTheTruth(l)'
    BY <1>1, <1>2, <1>5, <2>1, <2>2 DEF LocalInv, D!ForksInOrder, D!PipeTellsTheTruth, D!Unwinding
  <2>5. D!DaemonTypeOK'
    BY <1>1, <1>2, <2>1, <2>2 DEF D!DaemonTypeOK, ProcessPCs, PipeEnds
  <2> QED
    BY <1>2, <2>1, <2>2, <2>3, <2>4, <2>5 DEF KeepsInv, LocalInv, Untouched
<1>6. CASE pc[l].child = "return" /\ D!Exit(l, "child", "exited_0")
  <2>1. /\ pc' \in [Launches -> ProcessPCs] /\ \A k \in Launches \ {l} : pc'[k] = pc[k]
        /\ pc'[l].parent = pc[l].parent /\ pc'[l].child = "exited_0" /\ pc'[l].server = pc[l].server
    BY <1>1, <1>6, GotoChild DEF D!Exit, D!ChildPCs
  <2>2. /\ ends' \in [Launches -> PipeEnds] /\ \A k \in Launches \ {l} : ends'[k] = ends[k]
        /\ ends'[l].writer = ends[l].writer \ {"child"}
    BY <1>1, <1>6, CloseIs DEF D!Exit
  <2>3. D!HandlerInPlace(l)' /\ PidfilePart(l)'
    BY <1>1, <1>2, <2>1, ServerStays
  <2>4. D!ForksInOrder(l)' /\ D!PipeTellsTheTruth(l)'
    BY <1>1, <1>2, <1>6, <2>1, <2>2 DEF LocalInv, D!ForksInOrder, D!PipeTellsTheTruth
  <2>5. D!DaemonTypeOK'
    BY <1>1, <1>2, <2>1, <2>2 DEF D!DaemonTypeOK, ProcessPCs, PipeEnds
  <2> QED
    BY <1>2, <2>1, <2>2, <2>3, <2>4, <2>5 DEF KeepsInv, LocalInv, Untouched
<1> QED
  BY <1>3, <1>4, <1>5, <1>6 DEF D!ChildStep
LEMMA AwaitChildKeeps ==
  ASSUME D!DaemonInv, NEW l \in Launches, D!AwaitChild(l)
  PROVE  KeepsInv(l)
<1> USE DEF D!Processes
<1>1. LocalInv(l) /\ D!DaemonTypeOK
  BY LocalInvHolds
<1>2. UNCHANGED <<thrown, byte, pidfile, config, signal, stopping, signals, kills>>
  BY DEF D!AwaitChild, D!Rest
<1>3. pc[l].parent = "wait" /\ D!Ended(l, "child")
  BY DEF D!AwaitChild
<1>4. CASE pc[l].child = "exited_0" /\ D!Goto(l, "parent", "close_writer") /\ ends' = ends
  <2>1. /\ pc' \in [Launches -> ProcessPCs] /\ \A k \in Launches \ {l} : pc'[k] = pc[k]
        /\ pc'[l].parent = "close_writer" /\ pc'[l].child = pc[l].child /\ pc'[l].server = pc[l].server
    BY <1>1, <1>4, GotoParent DEF D!ParentPCs
  <2>2. D!HandlerInPlace(l)' /\ PidfilePart(l)'
    BY <1>1, <1>2, <2>1, ServerStays
  <2>3. D!ForksInOrder(l)' /\ D!PipeTellsTheTruth(l)'
    BY <1>1, <1>2, <1>3, <1>4, <2>1 DEF LocalInv, D!ForksInOrder, D!PipeTellsTheTruth
  <2>4. D!DaemonTypeOK'
    BY <1>1, <1>2, <1>4, <2>1 DEF D!DaemonTypeOK, ProcessPCs
  <2> QED
    BY <1>2, <1>4, <2>1, <2>2, <2>3, <2>4 DEF KeepsInv, LocalInv, Untouched
<1>5. CASE pc[l].child # "exited_0" /\ D!Exit(l, "parent", "failure")
  <2>1. /\ pc' \in [Launches -> ProcessPCs] /\ \A k \in Launches \ {l} : pc'[k] = pc[k]
        /\ pc'[l].parent = "failure" /\ pc'[l].child = pc[l].child /\ pc'[l].server = pc[l].server
    BY <1>1, <1>5, GotoParent DEF D!Exit, D!ParentPCs
  <2>2. /\ ends' \in [Launches -> PipeEnds] /\ \A k \in Launches \ {l} : ends'[k] = ends[k]
        /\ ends'[l].writer = ends[l].writer \ {"parent"}
    BY <1>1, <1>5, CloseIs DEF D!Exit
  <2>3. D!HandlerInPlace(l)' /\ PidfilePart(l)'
    BY <1>1, <1>2, <2>1, ServerStays
  <2>4. pc[l].child \notin {"setsid", "fork", "return"}
    BY <1>3 DEF D!Ended
  <2>5. D!ForksInOrder(l)' /\ D!PipeTellsTheTruth(l)'
    BY <1>1, <1>2, <1>3, <1>5, <2>1, <2>2, <2>4 DEF LocalInv, D!ForksInOrder, D!PipeTellsTheTruth
  <2>6. D!DaemonTypeOK'
    BY <1>1, <1>2, <2>1, <2>2 DEF D!DaemonTypeOK, ProcessPCs, PipeEnds
  <2> QED
    BY <1>2, <2>1, <2>2, <2>3, <2>5, <2>6 DEF KeepsInv, LocalInv, Untouched
<1> QED
  BY <1>4, <1>5 DEF D!AwaitChild

LEMMA CloseWriterKeeps ==
  ASSUME D!DaemonInv, NEW l \in Launches, D!CloseWriter(l)
  PROVE  KeepsInv(l)
<1> USE DEF D!Processes
<1>1. LocalInv(l) /\ D!DaemonTypeOK
  BY LocalInvHolds
<1>2. UNCHANGED <<thrown, byte, pidfile, config, signal, stopping, signals, kills>>
  BY DEF D!CloseWriter, D!Rest
<1>3. pc[l].parent = "close_writer" /\ D!Goto(l, "parent", "read")
  BY DEF D!CloseWriter
<1>4. /\ pc' \in [Launches -> ProcessPCs] /\ \A k \in Launches \ {l} : pc'[k] = pc[k]
      /\ pc'[l].parent = "read" /\ pc'[l].child = pc[l].child /\ pc'[l].server = pc[l].server
  BY <1>1, <1>3, GotoParent DEF D!ParentPCs
<1>5. /\ ends' \in [Launches -> PipeEnds] /\ \A k \in Launches \ {l} : ends'[k] = ends[k]
      /\ ends'[l].writer = ends[l].writer \ {"parent"}
  BY <1>1 DEF D!CloseWriter, D!DaemonTypeOK, PipeEnds
<1>6. D!HandlerInPlace(l)' /\ PidfilePart(l)'
  BY <1>1, <1>2, <1>4, ServerStays
<1>7. D!ForksInOrder(l)' /\ D!PipeTellsTheTruth(l)'
  BY <1>1, <1>2, <1>3, <1>4, <1>5 DEF LocalInv, D!ForksInOrder, D!PipeTellsTheTruth
<1>8. D!DaemonTypeOK'
  BY <1>1, <1>2, <1>4, <1>5 DEF D!DaemonTypeOK, ProcessPCs, PipeEnds
<1> QED
  BY <1>2, <1>4, <1>5, <1>6, <1>7, <1>8 DEF KeepsInv, LocalInv, Untouched

LEMMA ReadKeeps ==
  ASSUME D!DaemonInv, NEW l \in Launches, D!Read(l)
  PROVE  KeepsInv(l)
<1> USE DEF D!Processes
<1>1. LocalInv(l) /\ D!DaemonTypeOK
  BY LocalInvHolds
<1>2. UNCHANGED <<thrown, byte, pidfile, config, signal, stopping, signals, kills>>
  BY DEF D!Read, D!Rest
<1>3. pc[l].parent = "read"
  BY DEF D!Read
<1>4. PICK step \in {"success", "failure"} :
        /\ D!Exit(l, "parent", step)
        /\ step = "success" => byte[l]
        /\ step = "failure" => ~byte[l] /\ ends[l].writer = {}
  BY DEF D!Read
<1>5. /\ pc' \in [Launches -> ProcessPCs] /\ \A k \in Launches \ {l} : pc'[k] = pc[k]
      /\ pc'[l].parent = step /\ pc'[l].child = pc[l].child /\ pc'[l].server = pc[l].server
  <2>1. step \in D!ParentPCs
    BY DEF D!ParentPCs
  <2> QED
    BY <1>1, <1>4, <2>1, GotoParent DEF D!Exit
<1>6. /\ ends' \in [Launches -> PipeEnds] /\ \A k \in Launches \ {l} : ends'[k] = ends[k]
      /\ ends'[l].writer = ends[l].writer \ {"parent"}
  BY <1>1, <1>4, CloseIs DEF D!Exit
<1>7. D!HandlerInPlace(l)' /\ PidfilePart(l)'
  BY <1>1, <1>2, <1>5, ServerStays
<1>8. D!ForksInOrder(l)' /\ D!PipeTellsTheTruth(l)'
  BY <1>1, <1>2, <1>3, <1>4, <1>5, <1>6 DEF LocalInv, D!ForksInOrder, D!PipeTellsTheTruth
<1>9. D!DaemonTypeOK'
  BY <1>1, <1>2, <1>5, <1>6 DEF D!DaemonTypeOK, ProcessPCs, PipeEnds
<1> QED
  BY <1>2, <1>5, <1>6, <1>7, <1>8, <1>9 DEF KeepsInv, LocalInv, Untouched

-----------------------------------------------------------------------------
Live(step) == step \in D!ServerPCs \ {"none", "exited", "killed"}

LEMMA ServerAdvances ==
  ASSUME D!DaemonTypeOK, NEW l \in Launches, LocalInv(l),
         Live(pc[l].server), Live(pc'[l].server), pc'[l].server # "close_writer",
         pc'[l].parent = pc[l].parent, pc'[l].child = pc[l].child,
         config' = config, ends'[l] = ends[l], byte'[l] = byte[l], stopping'[l] = stopping[l],
         byte[l] => pc'[l].server \in {"run"} \cup D!Unwinding,
         byte[l] /\ pc'[l].server \in D!Unwinding => stopping[l] \/ thrown'[l] \/ ~config[l].service
  PROVE  D!ForksInOrder(l)' /\ D!PipeTellsTheTruth(l)'
BY DEF Live, LocalInv, D!ForksInOrder, D!PipeTellsTheTruth

\* The server leaves at a step before run(), or at run() for a reason.
LEMMA LeaveKeeps ==
  ASSUME D!DaemonInv, NEW l \in Launches, D!Leave(l),
         pc[l].server \in D!Initializing \cup {"redirect_fds", "run"},
         thrown' \in [Launches -> BOOLEAN], \A k \in Launches \ {l} : thrown'[k] = thrown[k],
         pc[l].server = "run" => stopping[l] \/ thrown'[l] \/ ~config[l].service,
         UNCHANGED <<pidfile, config, signal, stopping, signals, kills>>
  PROVE  KeepsInv(l)
<1>1. LocalInv(l) /\ D!DaemonTypeOK
  BY LocalInvHolds
<1>2. /\ pc' \in [Launches -> ProcessPCs] /\ \A k \in Launches \ {l} : pc'[k] = pc[k]
      /\ pc'[l].parent = pc[l].parent /\ pc'[l].child = pc[l].child
      /\ pc'[l].server \in {"restore_action", "delete_pidfile", "close_pipe"}
      /\ pc'[l].server = "restore_action" <=> pc[l].server \in {"redirect_fds", "run"}
      /\ pc'[l].server = "delete_pidfile" =>
              D!HasPidfile(l) /\ pc[l].server \notin {"user", "logging", "pidfile"}
      /\ pc'[l].server = "close_pipe" =>
           ~D!HasPidfile(l) \/ pc[l].server \in {"user", "logging", "pidfile"}
      /\ ends' = ends /\ byte' = byte
  BY <1>1, LeaveIs DEF LocalInv
<1>3. byte[l] => pc[l].server = "run"
  BY <1>1 DEF LocalInv, D!PipeTellsTheTruth, D!Initializing, D!Unwinding
<1>4. D!ForksInOrder(l)' /\ D!PipeTellsTheTruth(l)'
  <2>1. Live(pc[l].server) /\ Live(pc'[l].server) /\ pc'[l].server \in D!Unwinding
    BY <1>2 DEF Live, D!ServerPCs, D!Initializing, D!Unwinding
  <2> QED
    BY <1>1, <1>2, <1>3, <2>1, ServerAdvances
<1>5. D!HandlerInPlace(l)'
  <2>1. CASE pc[l].server \in {"redirect_fds", "run"}
    BY <1>1, <1>2, <2>1 DEF LocalInv, D!HandlerInPlace, D!Initializing, D!Confirming
  <2>2. CASE pc[l].server \in D!Initializing
    <3>1. pc'[l].server \in {"delete_pidfile", "close_pipe"}
      BY <1>2, <2>2 DEF D!Initializing
    <3> QED
      BY <1>1, <2>2, <3>1 DEF LocalInv, D!HandlerInPlace, D!Initializing, D!Confirming
  <2> QED
    BY <2>1, <2>2
<1>6. PidfilePart(l)'
  <2>1. D!PidfileIsExplained(l)'
    BY <1>1, <1>2 DEF LocalInv, PidfilePart, D!PidfileIsExplained, D!Owns, D!HasPidfile
  <2>2. D!Owns(l)' => pidfile' = l
    <3>1. SUFFICES ASSUME D!Owns(l)'
                   PROVE  D!Owns(l)
      BY <1>1 DEF LocalInv, PidfilePart
    <3>2. D!HasPidfile(l) /\ pc'[l].server \in {"restore_action", "delete_pidfile"}
      BY <1>2, <3>1 DEF D!Owns, D!HasPidfile
    <3> QED
      BY <1>2, <3>2 DEF D!Owns, D!Initializing
  <2> QED
    BY <1>2, <2>1, <2>2 DEF PidfilePart
<1>7. D!DaemonTypeOK'
  BY <1>1, <1>2 DEF D!DaemonTypeOK, ProcessPCs
<1> QED
  BY <1>2, <1>4, <1>5, <1>6, <1>7 DEF KeepsInv, LocalInv, Untouched

LEMMA ThrowKeeps ==
  ASSUME D!DaemonInv, NEW l \in Launches, D!Throw(l),
         pc[l].server \in D!Initializing \cup {"redirect_fds", "run"},
         UNCHANGED <<pidfile, config, signal, stopping, signals, kills>>
  PROVE  KeepsInv(l)
<1>1. D!DaemonTypeOK
  BY LocalInvHolds
<1>2. /\ D!Leave(l) /\ thrown' \in [Launches -> BOOLEAN] /\ thrown'[l]
      /\ \A k \in Launches \ {l} : thrown'[k] = thrown[k]
  BY <1>1 DEF D!Throw, D!DaemonTypeOK
<1> QED
  BY <1>2, LeaveKeeps

\* The server goes on to a step of the initialization.
LEMMA InitializingKeeps ==
  ASSUME D!DaemonInv, NEW l \in Launches, NEW step \in D!Initializing \cup {"set_up_impl"}, D!Done(l, step),
         pc[l].server \in D!Initializing, D!Owns(l) <=> step \notin {"user", "logging", "pidfile"} /\ D!HasPidfile(l),
         step = "write_pid" => D!HasPidfile(l),
         UNCHANGED <<pidfile, config, signal, stopping, signals, kills>>
  PROVE  KeepsInv(l)
<1>1. LocalInv(l) /\ D!DaemonTypeOK
  BY LocalInvHolds
<1>2. /\ pc' \in [Launches -> ProcessPCs] /\ \A k \in Launches \ {l} : pc'[k] = pc[k]
      /\ pc'[l].parent = pc[l].parent /\ pc'[l].child = pc[l].child /\ pc'[l].server = step
      /\ UNCHANGED <<ends, thrown, byte>>
  <2>1. step \in D!ServerPCs
    BY DEF D!ServerPCs
  <2> QED
    BY <1>1, <2>1, GotoServer DEF D!Done
<1>3. ~byte[l]
  BY <1>1 DEF LocalInv, D!PipeTellsTheTruth, D!Initializing, D!Unwinding
<1>4. D!ForksInOrder(l)' /\ D!PipeTellsTheTruth(l)'
  BY <1>1, <1>2, <1>3, ServerAdvances DEF Live, D!ServerPCs, D!Initializing
<1>5. D!HandlerInPlace(l)'
  BY <1>1, <1>2 DEF LocalInv, D!HandlerInPlace, D!Initializing, D!Confirming
<1>6. PidfilePart(l)'
  BY <1>1, <1>2 DEF LocalInv, PidfilePart, D!PidfileIsExplained, D!Owns, D!HasPidfile, D!Initializing
<1>7. D!DaemonTypeOK'
  BY <1>1, <1>2 DEF D!DaemonTypeOK, ProcessPCs
<1> QED
  BY <1>2, <1>4, <1>5, <1>6, <1>7 DEF KeepsInv, LocalInv, Untouched

LEMMA CreatePidfileKeeps ==
  ASSUME D!DaemonInv, NEW l \in Launches, D!CreatePidfile(l)
  PROVE  KeepsInv(l)
<1>1. LocalInv(l) /\ D!DaemonTypeOK
  BY LocalInvHolds
<1>2. UNCHANGED <<config, signal, stopping, signals, kills>> /\ pc[l].server = "pidfile"
  BY DEF D!CreatePidfile, D!Rest
<1>3. ~byte[l] /\ pidfile # l
  BY <1>1, <1>2 DEF LocalInv, PidfilePart, D!PipeTellsTheTruth, D!PidfileIsExplained, D!Owns, D!Unwinding
<1>4. CASE ~D!HasPidfile(l) /\ D!Done(l, "directory") /\ UNCHANGED pidfile
  BY <1>2, <1>4, InitializingKeeps DEF D!Initializing, D!Owns
<1>5. CASE D!HasPidfile(l) /\ pidfile = None /\ D!Done(l, "write_pid") /\ pidfile' = l
  <2>1. /\ pc' \in [Launches -> ProcessPCs] /\ \A k \in Launches \ {l} : pc'[k] = pc[k]
        /\ pc'[l].parent = pc[l].parent /\ pc'[l].child = pc[l].child /\ pc'[l].server = "write_pid"
        /\ UNCHANGED <<ends, thrown, byte>>
    BY <1>1, <1>5, GotoServer DEF D!Done, D!ServerPCs, D!Initializing
  <2>2. D!ForksInOrder(l)' /\ D!PipeTellsTheTruth(l)'
    BY <1>1, <1>2, <1>3, <2>1, ServerAdvances DEF Live, D!ServerPCs, D!Initializing
  <2>3. D!HandlerInPlace(l)'
    BY <1>1, <1>2, <2>1 DEF LocalInv, D!HandlerInPlace, D!Initializing, D!Confirming
  <2>4. PidfilePart(l)'
    BY <1>1, <1>2, <1>3, <1>5, <2>1 DEF LocalInv, PidfilePart, D!PidfileIsExplained, D!Owns, D!HasPidfile
  <2>5. D!DaemonTypeOK'
    BY <1>1, <1>2, <1>5, <2>1 DEF D!DaemonTypeOK, ProcessPCs
  <2>6. \A k \in Launches \ {l} : pidfile' # k /\ pidfile # k
    BY <1>5, ServicesAssumption
  <2> QED
    BY <1>2, <2>1, <2>2, <2>3, <2>4, <2>5, <2>6 DEF KeepsInv, LocalInv, Untouched
<1>6. CASE D!Throw(l) /\ UNCHANGED pidfile
  BY <1>2, <1>6, ThrowKeeps DEF D!Initializing
<1> QED
  BY <1>4, <1>5, <1>6 DEF D!CreatePidfile

LEMMA WritePidKeeps ==
  ASSUME D!DaemonInv, NEW l \in Launches, D!WritePid(l)
  PROVE  KeepsInv(l)
<1>1. LocalInv(l)
  BY LocalInvHolds
<1>2. pc[l].server = "write_pid" /\ UNCHANGED <<pidfile, config, signal, stopping, signals, kills>>
  BY DEF D!WritePid, D!Rest
<1>3. CASE D!Done(l, "directory")
  BY <1>1, <1>2, <1>3, InitializingKeeps
  DEF LocalInv, PidfilePart, D!PidfileIsExplained, D!Owns, D!Initializing
<1>4. CASE D!Throw(l)
  BY <1>2, <1>4, ThrowKeeps DEF D!Initializing
<1> QED
  BY <1>3, <1>4 DEF D!WritePid

LEMMA InitializeKeeps ==
  ASSUME D!DaemonInv, NEW l \in Launches, D!Initialize(l)
  PROVE  KeepsInv(l)
<1>1. UNCHANGED <<pidfile, config, signal, stopping, signals, kills>>
  BY DEF D!Initialize, D!Rest
<1>2. CASE D!Throw(l)
  BY <1>1, <1>2, ThrowKeeps DEF D!Initialize, D!Initializing
<1>3. CASE pc[l].server = "user" /\ D!Done(l, "logging")
  BY <1>1, <1>3, InitializingKeeps DEF D!Initializing, D!Owns
<1>4. CASE pc[l].server = "logging" /\ D!Done(l, "pidfile")
  BY <1>1, <1>4, InitializingKeeps DEF D!Initializing, D!Owns
<1>5. CASE pc[l].server = "directory" /\ D!Done(l, "service")
  BY <1>1, <1>5, InitializingKeeps DEF D!Initializing, D!Owns
<1>6. CASE pc[l].server = "service" /\ D!Done(l, "set_up_impl")
  BY <1>1, <1>6, InitializingKeeps DEF D!Initializing, D!Owns
<1>7. CASE pc[l].server = "service" /\ D!Return(l)
  <2>1. D!DaemonTypeOK
    BY LocalInvHolds
  <2>2. D!Leave(l) /\ UNCHANGED thrown
    BY <1>7 DEF D!Return
  <2> QED
    BY <1>1, <1>7, <2>1, <2>2, LeaveKeeps DEF D!DaemonTypeOK, D!Initializing
<1> QED
  BY <1>2, <1>3, <1>4, <1>5, <1>6, <1>7 DEF D!Initialize

LEMMA RedirectStandardFdsKeeps ==
  ASSUME D!DaemonInv, NEW l \in Launches, D!RedirectStandardFds(l)
  PROVE  KeepsInv(l)
<1>1. LocalInv(l) /\ D!DaemonTypeOK
  BY LocalInvHolds
<1>2. pc[l].server = "redirect_fds" /\ UNCHANGED <<pidfile, config, signal, stopping, signals, kills>>
  BY DEF D!RedirectStandardFds, D!Rest
<1>3. CASE D!Done(l, "close_reader")
  <2>1. /\ pc' \in [Launches -> ProcessPCs] /\ \A k \in Launches \ {l} : pc'[k] = pc[k]
        /\ pc'[l].parent = pc[l].parent /\ pc'[l].child = pc[l].child /\ pc'[l].server = "close_reader"
        /\ UNCHANGED <<ends, thrown, byte>>
    BY <1>1, <1>3, GotoServer DEF D!Done, D!ServerPCs, D!Confirming
  <2>2. ~byte[l]
    BY <1>1, <1>2 DEF LocalInv, D!PipeTellsTheTruth, D!Unwinding
  <2>3. D!ForksInOrder(l)' /\ D!PipeTellsTheTruth(l)'
    BY <1>1, <1>2, <2>1, <2>2, ServerAdvances DEF Live, D!ServerPCs, D!Confirming
  <2>4. D!HandlerInPlace(l)'
    BY <1>1, <1>2, <2>1 DEF LocalInv, D!HandlerInPlace, D!Initializing, D!Confirming
  <2>5. PidfilePart(l)'
    BY <1>1, <1>2, <2>1 DEF LocalInv, PidfilePart, D!PidfileIsExplained, D!Owns, D!HasPidfile
  <2>6. D!DaemonTypeOK'
    BY <1>1, <1>2, <2>1 DEF D!DaemonTypeOK, ProcessPCs
  <2> QED
    BY <1>2, <2>1, <2>3, <2>4, <2>5, <2>6 DEF KeepsInv, LocalInv, Untouched
<1>4. CASE D!Throw(l)
  BY <1>2, <1>4, ThrowKeeps
<1> QED
  BY <1>3, <1>4 DEF D!RedirectStandardFds

LEMMA RunReturnsKeeps ==
  ASSUME D!DaemonInv, NEW l \in Launches, D!RunReturns(l)
  PROVE  KeepsInv(l)
<1>1. D!DaemonTypeOK
  BY LocalInvHolds
<1>2. /\ pc[l].server = "run" /\ (stopping[l] \/ ~config[l].service)
      /\ D!Leave(l) /\ thrown' = thrown
      /\ UNCHANGED <<pidfile, config, signal, stopping, signals, kills>>
  BY DEF D!RunReturns, D!Return, D!Rest
<1>3. /\ thrown' \in [Launches -> BOOLEAN] /\ \A k \in Launches \ {l} : thrown'[k] = thrown[k]
      /\ pc[l].server = "run" => stopping[l] \/ thrown'[l] \/ ~config[l].service
  BY <1>1, <1>2 DEF D!DaemonTypeOK
<1>4. D!Leave(l) /\ pc[l].server \in D!Initializing \cup {"redirect_fds", "run"}
  BY <1>2
<1>5. UNCHANGED <<pidfile, config, signal, stopping, signals, kills>>
  BY <1>2
<1> QED
  BY <1>3, <1>4, <1>5, LeaveKeeps

LEMMA RunThrowsKeeps ==
  ASSUME D!DaemonInv, NEW l \in Launches, D!RunThrows(l)
  PROVE  KeepsInv(l)
<1>1. D!DaemonTypeOK
  BY LocalInvHolds
<1>2. /\ pc[l].server = "run" /\ D!Throw(l)
      /\ UNCHANGED <<pidfile, config, signal, stopping, signals, kills>>
  BY DEF D!RunThrows, D!Rest
<1> QED
  BY <1>2, ThrowKeeps
-----------------------------------------------------------------------------
\* What is set up for the signal at a step of the server that has not been killed.
HandlerAt(s, step) ==
  /\ step \in D!Initializing \cup {"none", "set_up_impl", "delete_pidfile", "close_pipe", "exited"} =>
       s.action = "default" /\ s.current = None
  /\ step \in {"redirect", "restore_impl"} => s.action = "default" /\ D!Made(s)
  /\ step \in D!Confirming \cup {"redirect_fds", "run", "restore_action"} => D!Handles(s)

LEMMA HandleKeeps ==
  ASSUME D!DaemonInv, NEW l \in Launches,
         NEW s \in D!Handler!Signals, NEW step \in D!ServerPCs, D!Handle(l, s, step), HandlerAt(s, step),
         Live(pc[l].server), Live(step), step # "close_writer",
         byte[l] => pc[l].server \in D!Unwinding /\ step \in D!Unwinding,
         pc[l].server \notin D!Initializing \cup {"close_pipe"},
         step \notin D!Initializing,
         step = "close_pipe" => ~D!HasPidfile(l), step = "delete_pidfile" => D!HasPidfile(l)
  PROVE  KeepsInv(l)
<1>1. LocalInv(l) /\ D!DaemonTypeOK
  BY LocalInvHolds
<1>2. /\ pc' \in [Launches -> ProcessPCs] /\ \A k \in Launches \ {l} : pc'[k] = pc[k]
      /\ pc'[l].parent = pc[l].parent /\ pc'[l].child = pc[l].child /\ pc'[l].server = step
  BY <1>1, GotoServer DEF D!Handle
<1>3. /\ signal' \in [Launches -> D!Handler!Signals] /\ \A k \in Launches \ {l} : signal'[k] = signal[k]
      /\ signal'[l] = s
  BY <1>1 DEF D!Handle, D!DaemonTypeOK
<1>4. UNCHANGED <<config, thrown, ends, byte, stopping, pidfile, signals, kills>>
  BY DEF D!Handle
<1>5. D!DaemonTypeOK'
  BY <1>1, <1>2, <1>3, <1>4 DEF D!DaemonTypeOK, ProcessPCs
<1>6. D!ForksInOrder(l)' /\ D!PipeTellsTheTruth(l)'
  <2>1. byte[l] /\ step \in D!Unwinding => stopping[l] \/ thrown'[l] \/ ~config[l].service
    BY <1>1, <1>4 DEF LocalInv, D!PipeTellsTheTruth
  <2> QED
    BY <1>1, <1>2, <1>4, <2>1, ServerAdvances
<1>7. D!HandlerInPlace(l)'
  BY <1>2, <1>3 DEF D!HandlerInPlace, HandlerAt, D!Made, D!Handles, Live
<1>8. PidfilePart(l)'
  BY <1>1, <1>2, <1>4 DEF LocalInv, PidfilePart, D!PidfileIsExplained, D!Owns, D!HasPidfile, D!Initializing, Live
<1> QED
  BY <1>2, <1>3, <1>4, <1>5, <1>6, <1>7, <1>8 DEF KeepsInv, LocalInv, Untouched

LEMMA HandlerStepKeeps ==
  ASSUME D!DaemonInv, NEW l \in Launches, D!HandlerStep(l)
  PROVE  KeepsInv(l)
<1>1. LocalInv(l) /\ signal[l] \in D!Handler!Signals
  BY LocalInvHolds DEF D!DaemonTypeOK
<1>2. PICK s \in D!Handler!Signals, step \in D!ServerPCs :
        /\ D!Handle(l, s, step) /\ HandlerAt(s, step)
        /\ \/ pc[l].server = "set_up_impl" /\ step = "redirect"
           \/ pc[l].server = "redirect" /\ step \in {"redirect_fds", "run"}
           \/ pc[l].server = "restore_action" /\ step = "restore_impl"
           \/ /\ pc[l].server = "restore_impl"
              /\ step = IF D!HasPidfile(l) THEN "delete_pidfile" ELSE "close_pipe"
  <2>1. CASE pc[l].server = "set_up_impl"
    <3> DEFINE s == D!Handler!SetUpImpl(signal[l], "handler")
    <3>1. D!Handle(l, s, "redirect") /\ "redirect" \in D!ServerPCs
      BY <2>1 DEF D!HandlerStep, D!ServerPCs
    <3>2. s \in D!Handler!Signals /\ s.action = "default" /\ D!Made(s)
      BY <1>1, <2>1 DEF LocalInv, D!HandlerInPlace, D!Handler!Signals, D!Handler!SetUpImpl, D!Made
    <3> HIDE DEF s
    <3>3. HandlerAt(s, "redirect")
      BY <3>2 DEF HandlerAt, D!Initializing, D!Confirming
    <3> QED
      BY <2>1, <3>1, <3>2, <3>3
  <2>2. CASE pc[l].server = "redirect"
    <3> DEFINE s    == D!Handler!Redirect(signal[l], "handler")
               step == IF config[l].daemon THEN "redirect_fds" ELSE "run"
    <3>1. D!Handle(l, s, step) /\ step \in D!ServerPCs /\ step \in {"redirect_fds", "run"}
      BY <2>2 DEF D!HandlerStep, D!ServerPCs
    <3>2. s \in D!Handler!Signals /\ D!Handles(s)
      BY <1>1, <2>2 DEF LocalInv, D!HandlerInPlace, D!Handler!Signals, D!Handler!Redirect, D!Made, D!Handles
    <3> HIDE DEF s, step
    <3>3. HandlerAt(s, step)
      BY <3>1, <3>2 DEF HandlerAt, D!Initializing, D!Confirming
    <3> QED
      BY <2>2, <3>1, <3>2, <3>3
  <2>3. CASE pc[l].server = "restore_action"
    <3> DEFINE s == D!Handler!RestoreAction(signal[l], "handler")
    <3>1. D!Handle(l, s, "restore_impl") /\ "restore_impl" \in D!ServerPCs
      BY <2>3 DEF D!HandlerStep, D!ServerPCs, D!Unwinding
    <3>2. s \in D!Handler!Signals /\ s.action = "default" /\ D!Made(s)
      BY <1>1, <2>3 DEF LocalInv, D!HandlerInPlace, D!Handler!Signals, D!Handler!RestoreAction, D!Made, D!Handles
    <3> HIDE DEF s
    <3>3. HandlerAt(s, "restore_impl")
      BY <3>2 DEF HandlerAt, D!Initializing, D!Confirming
    <3> QED
      BY <2>3, <3>1, <3>2, <3>3
  <2>4. CASE pc[l].server = "restore_impl"
    <3> DEFINE s    == D!Handler!RestoreImpl(signal[l], "handler")
               step == IF D!HasPidfile(l) THEN "delete_pidfile" ELSE "close_pipe"
    <3>1. D!Handle(l, s, step) /\ step \in D!ServerPCs /\ step \in {"delete_pidfile", "close_pipe"}
      BY <2>4 DEF D!HandlerStep, D!ServerPCs, D!Unwinding
    <3>2. s \in D!Handler!Signals /\ s.action = "default" /\ s.current = None
      BY <1>1, <2>4 DEF LocalInv, D!HandlerInPlace, D!Handler!Signals, D!Handler!RestoreImpl, D!Made
    <3> HIDE DEF s
    <3>3. HandlerAt(s, step)
      BY <3>1, <3>2 DEF HandlerAt, D!Initializing, D!Confirming
    <3> QED
      BY <2>4, <3>1, <3>2, <3>3
  <2> QED
    BY <2>1, <2>2, <2>3, <2>4 DEF D!HandlerStep
<1>3. Live(pc[l].server) /\ Live(step) /\ pc[l].server \notin D!Initializing \cup {"close_pipe"}
      /\ step \notin D!Initializing
  BY <1>2 DEF Live, D!ServerPCs, D!Initializing, D!Unwinding
<1>4. byte[l] => pc[l].server \in D!Unwinding /\ step \in D!Unwinding
  BY <1>1, <1>2 DEF LocalInv, D!PipeTellsTheTruth, D!Unwinding
<1>5. (step = "close_pipe" => ~D!HasPidfile(l)) /\ (step = "delete_pidfile" => D!HasPidfile(l))
  BY <1>2
<1> QED
  BY <1>2, <1>3, <1>4, <1>5, HandleKeeps
-----------------------------------------------------------------------------
\* A process ends because of a signal.
LEMMA KilledServerKeeps ==
  ASSUME D!DaemonInv, NEW l \in Launches, D!Exit(l, "server", "killed"), Live(pc[l].server),
         signals' \in [Launches -> 0 .. MaxSignals], kills' \in 0 .. MaxKills,
         UNCHANGED <<config, thrown, byte, signal, stopping, pidfile>>
  PROVE  KeepsInv(l)
<1> USE DEF D!Processes
<1>1. LocalInv(l) /\ D!DaemonTypeOK
  BY LocalInvHolds
<1>2. /\ pc' \in [Launches -> ProcessPCs] /\ \A k \in Launches \ {l} : pc'[k] = pc[k]
      /\ pc'[l].parent = pc[l].parent /\ pc'[l].child = pc[l].child /\ pc'[l].server = "killed"
  BY <1>1, GotoServer DEF D!Exit, D!ServerPCs
<1>3. /\ ends' \in [Launches -> PipeEnds] /\ \A k \in Launches \ {l} : ends'[k] = ends[k]
      /\ ends'[l].writer = ends[l].writer \ {"server"}
  BY <1>1, CloseIs DEF D!Exit
<1>4. D!ForksInOrder(l)' /\ D!PipeTellsTheTruth(l)'
  BY <1>1, <1>2, <1>3 DEF Live, LocalInv, D!ForksInOrder, D!PipeTellsTheTruth, D!Unwinding
<1>5. D!HandlerInPlace(l)'
  <2>1. signal[l].action = "handler_routine" => signal[l].current = "handler"
    BY <1>1 DEF Live, LocalInv, D!HandlerInPlace, D!Made, D!Handles, D!ServerPCs, D!Unwinding
  <2> QED
    BY <1>2, <2>1 DEF D!HandlerInPlace, D!Initializing, D!Confirming
<1>6. PidfilePart(l)'
  BY <1>1, <1>2 DEF LocalInv, PidfilePart, D!PidfileIsExplained, D!Owns, D!HasPidfile
<1>7. D!DaemonTypeOK'
  BY <1>1, <1>2, <1>3 DEF D!DaemonTypeOK, ProcessPCs, PipeEnds
<1> QED
  BY <1>2, <1>3, <1>4, <1>5, <1>6, <1>7 DEF KeepsInv, LocalInv, Untouched

LEMMA SignalKeeps ==
  ASSUME D!DaemonInv, NEW l \in Launches, D!Signal(l)
  PROVE  KeepsInv(l)
<1>1. LocalInv(l) /\ D!DaemonTypeOK
  BY LocalInvHolds
<1>2. /\ signals' \in [Launches -> 0 .. MaxSignals] /\ kills' \in 0 .. MaxKills
      /\ UNCHANGED <<config, thrown, byte, signal, pidfile>>
  <2>1. /\ signals[l] < MaxSignals /\ signals' = [signals EXCEPT ![l] = @ + 1] /\ kills' = kills
        /\ UNCHANGED <<config, thrown, byte, signal, pidfile>>
    BY DEF D!Signal
  <2>2. signals \in [Launches -> 0 .. MaxSignals] /\ kills \in 0 .. MaxKills
    BY <1>1 DEF D!DaemonTypeOK
  <2> QED
    BY <2>1, <2>2, ServicesAssumption
<1>3. Live(pc[l].server)
  BY <1>1 DEF D!Signal, D!Ended, Live, D!DaemonTypeOK
<1>4. CASE stopping' = [stopping EXCEPT ![l] = @ \/ config[l].service] /\ UNCHANGED <<pc, ends>>
  <2>1. /\ stopping' \in [Launches -> BOOLEAN] /\ \A k \in Launches \ {l} : stopping'[k] = stopping[k]
        /\ stopping[l] => stopping'[l]
    BY <1>1, <1>4 DEF D!DaemonTypeOK
  <2>2. D!ForksInOrder(l)' /\ D!PipeTellsTheTruth(l)' /\ D!HandlerInPlace(l)' /\ PidfilePart(l)'
    BY <1>1, <1>2, <1>4, <2>1
    DEF LocalInv, D!ForksInOrder, D!PipeTellsTheTruth, D!HandlerInPlace, PidfilePart, D!PidfileIsExplained,
        D!Owns, D!HasPidfile
  <2>3. D!DaemonTypeOK'
    BY <1>1, <1>2, <1>4, <2>1 DEF D!DaemonTypeOK
  <2> QED
    BY <1>2, <1>4, <2>1, <2>2, <2>3 DEF KeepsInv, LocalInv, Untouched
<1>5. CASE D!Exit(l, "server", "killed") /\ UNCHANGED stopping
  BY <1>2, <1>3, <1>5, KilledServerKeeps
<1> QED
  BY <1>4, <1>5 DEF D!Signal

LEMMA KillKeeps ==
  ASSUME D!DaemonInv, NEW l \in Launches, NEW p \in D!Processes, D!Kill(l, p)
  PROVE  KeepsInv(l)
<1>1. LocalInv(l) /\ D!DaemonTypeOK
  BY LocalInvHolds
<1>2. /\ signals' \in [Launches -> 0 .. MaxSignals] /\ kills' \in 0 .. MaxKills
      /\ UNCHANGED <<config, thrown, byte, signal, stopping, pidfile>>
      /\ D!Exit(l, p, "killed") /\ ~D!Ended(l, p)
  <2>1. /\ kills < MaxKills /\ kills' = kills + 1 /\ signals' = signals
        /\ UNCHANGED <<config, thrown, byte, signal, stopping, pidfile>>
        /\ D!Exit(l, p, "killed") /\ ~D!Ended(l, p)
    BY DEF D!Kill
  <2>2. signals \in [Launches -> 0 .. MaxSignals] /\ kills \in 0 .. MaxKills
    BY <1>1 DEF D!DaemonTypeOK
  <2> QED
    BY <2>1, <2>2, ServicesAssumption
<1>3. CASE p = "server"
  <2>1. Live(pc[l].server)
    BY <1>1, <1>2, <1>3 DEF D!Ended, Live, D!DaemonTypeOK
  <2>2. D!Exit(l, "server", "killed")
    BY <1>2, <1>3
  <2> QED
    BY <1>2, <2>1, <2>2, KilledServerKeeps
<1>4. CASE p = "child"
  <2>1. D!Exit(l, "child", "killed") /\ pc[l].child # "none"
    BY <1>2, <1>4 DEF D!Ended
  <2>2. /\ pc' \in [Launches -> ProcessPCs] /\ \A k \in Launches \ {l} : pc'[k] = pc[k]
        /\ pc'[l].parent = pc[l].parent /\ pc'[l].child = "killed" /\ pc'[l].server = pc[l].server
    BY <1>1, <2>1, GotoChild DEF D!Exit, D!ChildPCs
  <2>3. /\ ends' \in [Launches -> PipeEnds] /\ \A k \in Launches \ {l} : ends'[k] = ends[k]
        /\ ends'[l].writer = ends[l].writer \ {"child"}
    BY <1>1, <2>1, CloseIs DEF D!Exit, D!Processes
  <2>4. D!HandlerInPlace(l)' /\ PidfilePart(l)'
    BY <1>1, <1>2, <2>2, ServerStays
  <2>5. pc[l].child # "exited_0"
    BY <1>2, <1>4 DEF D!Ended
  <2>6. D!ForksInOrder(l)' /\ D!PipeTellsTheTruth(l)'
    BY <1>1, <1>2, <2>1, <2>2, <2>3, <2>5 DEF LocalInv, D!ForksInOrder, D!PipeTellsTheTruth
  <2>7. D!DaemonTypeOK'
    BY <1>1, <1>2, <2>2, <2>3 DEF D!DaemonTypeOK, ProcessPCs, PipeEnds
  <2> QED
    BY <1>2, <2>2, <2>3, <2>4, <2>6, <2>7 DEF KeepsInv, LocalInv, Untouched
<1>5. CASE p = "parent"
  <2>1. D!Exit(l, "parent", "killed")
    BY <1>2, <1>5
  <2>2. /\ pc' \in [Launches -> ProcessPCs] /\ \A k \in Launches \ {l} : pc'[k] = pc[k]
        /\ pc'[l].parent = "killed" /\ pc'[l].child = pc[l].child /\ pc'[l].server = pc[l].server
    BY <1>1, <2>1, GotoParent DEF D!Exit, D!ParentPCs
  <2>3. /\ ends' \in [Launches -> PipeEnds] /\ \A k \in Launches \ {l} : ends'[k] = ends[k]
        /\ ends'[l].writer = ends[l].writer \ {"parent"}
    BY <1>1, <2>1, CloseIs DEF D!Exit, D!Processes
  <2>4. D!HandlerInPlace(l)' /\ PidfilePart(l)'
    BY <1>1, <1>2, <2>2, ServerStays
  <2>5. D!ForksInOrder(l)' /\ D!PipeTellsTheTruth(l)'
    BY <1>1, <1>2, <2>2, <2>3 DEF LocalInv, D!ForksInOrder, D!PipeTellsTheTruth
  <2>6. D!DaemonTypeOK'
    BY <1>1, <1>2, <2>2, <2>3 DEF D!DaemonTypeOK, ProcessPCs, PipeEnds
  <2> QED
    BY <1>2, <2>2, <2>3, <2>4, <2>5, <2>6 DEF KeepsInv, LocalInv, Untouched
<1> QED
  BY <1>3, <1>4, <1>5 DEF D!Processes

LEMMA ConfirmKeeps ==
  ASSUME D!DaemonInv, NEW l \in Launches, D!Confirm(l)
  PROVE  KeepsInv(l)
<1> USE DEF D!Processes
<1>1. LocalInv(l) /\ D!DaemonTypeOK
  BY LocalInvHolds
<1>2. UNCHANGED <<thrown, pidfile, config, signal, stopping, signals, kills>>
  BY DEF D!Confirm, D!Rest
<1>3. CASE pc[l].server = "confirm" /\ D!Exit(l, "server", "killed") /\ UNCHANGED byte
  BY <1>1, <1>2, <1>3, KilledServerKeeps DEF D!DaemonTypeOK, Live, D!ServerPCs, D!Confirming
<1>4. ASSUME NEW step \in {"confirm", "close_writer", "run"}, D!Goto(l, "server", step),
             pc[l].server \in D!Confirming,
             ends' \in [Launches -> PipeEnds], \A k \in Launches \ {l} : ends'[k] = ends[k] /\ byte'[k] = byte[k],
             ends[l].writer \subseteq ends'[l].writer \cup {"server"},
             byte' \in [Launches -> BOOLEAN], byte'[l] <=> step # "confirm",
             step # "run" /\ "server" \in ends[l].writer => "server" \in ends'[l].writer,
             byte[l] => byte'[l]
      PROVE  KeepsInv(l)
  <2>1. /\ pc' \in [Launches -> ProcessPCs] /\ \A k \in Launches \ {l} : pc'[k] = pc[k]
        /\ pc'[l].parent = pc[l].parent /\ pc'[l].child = pc[l].child /\ pc'[l].server = step
    <3>1. step \in D!ServerPCs
      BY DEF D!ServerPCs, D!Confirming
    <3> QED
      BY <1>1, <1>4, <3>1, GotoServer
  <2>2. D!HandlerInPlace(l)'
    BY <1>1, <1>2, <1>4, <2>1 DEF LocalInv, D!HandlerInPlace, D!Initializing, D!Confirming
  <2>3. PidfilePart(l)'
    BY <1>1, <1>2, <1>4, <2>1 DEF LocalInv, PidfilePart, D!PidfileIsExplained, D!Owns, D!HasPidfile, D!Confirming
  <2>4. D!ForksInOrder(l)'
    BY <1>1, <1>2, <1>4, <2>1 DEF LocalInv, D!ForksInOrder, D!Confirming
  <2>5. D!PipeTellsTheTruth(l)'
    BY <1>1, <1>2, <1>4, <2>1 DEF LocalInv, D!PipeTellsTheTruth, D!Confirming, D!Unwinding
  <2>6. D!DaemonTypeOK'
    BY <1>1, <1>2, <1>4, <2>1 DEF D!DaemonTypeOK, ProcessPCs, PipeEnds
  <2> QED
    BY <1>2, <1>4, <2>1, <2>2, <2>3, <2>4, <2>5, <2>6 DEF KeepsInv, LocalInv, Untouched
<1>5. CASE /\ pc[l].server = "close_reader" /\ D!Goto(l, "server", "confirm")
           /\ ends' = [ends EXCEPT ![l].reader = @ \ {"server"}] /\ UNCHANGED byte
  <2>1. /\ ends' \in [Launches -> PipeEnds] /\ \A k \in Launches \ {l} : ends'[k] = ends[k]
        /\ ends'[l].writer = ends[l].writer
    BY SMTT(30), <1>1, <1>5 DEF D!DaemonTypeOK, PipeEnds
  <2>2. byte \in [Launches -> BOOLEAN] /\ ~byte[l]
    BY <1>1, <1>5 DEF LocalInv, D!DaemonTypeOK, D!PipeTellsTheTruth, D!Unwinding
  <2> QED
    BY <1>4, <1>5, <2>1, <2>2 DEF D!Confirming
<1>6. CASE /\ pc[l].server = "confirm" /\ D!Goto(l, "server", "close_writer")
           /\ byte' = [byte EXCEPT ![l] = TRUE] /\ UNCHANGED ends
  <2>1. byte' \in [Launches -> BOOLEAN] /\ byte'[l] /\ \A k \in Launches \ {l} : byte'[k] = byte[k]
    BY <1>1, <1>6 DEF D!DaemonTypeOK
  <2>2. ends' \in [Launches -> PipeEnds]
    BY <1>1, <1>6 DEF D!DaemonTypeOK, PipeEnds
  <2> QED
    BY <1>4, <1>6, <2>1, <2>2 DEF D!Confirming
<1>7. CASE /\ pc[l].server = "close_writer" /\ D!Goto(l, "server", "run")
           /\ ends' = [ends EXCEPT ![l].writer = @ \ {"server"}] /\ UNCHANGED byte
  <2>1. /\ ends' \in [Launches -> PipeEnds] /\ \A k \in Launches \ {l} : ends'[k] = ends[k]
        /\ ends'[l].writer = ends[l].writer \ {"server"}
    <3>1. ends \in [Launches -> PipeEnds]
      BY <1>1 DEF D!DaemonTypeOK, PipeEnds
    <3>2. ends' = [ends EXCEPT ![l].writer = @ \ {"server"}]
      BY <1>7
    <3> QED
      BY <3>1, <3>2 DEF PipeEnds
  <2>2. byte \in [Launches -> BOOLEAN] /\ byte[l]
    BY <1>1, <1>7 DEF LocalInv, D!DaemonTypeOK, D!PipeTellsTheTruth
  <2> QED
    BY <1>4, <1>7, <2>1, <2>2 DEF D!Confirming
<1> QED
  BY <1>3, <1>5, <1>6, <1>7 DEF D!Confirm
LEMMA UnwindKeeps ==
  ASSUME D!DaemonInv, NEW l \in Launches, D!Unwind(l)
  PROVE  KeepsInv(l)
<1> USE DEF D!Processes
<1>1. LocalInv(l) /\ D!DaemonTypeOK
  BY LocalInvHolds
<1>2. UNCHANGED <<config, signal, stopping, signals, kills>>
  BY DEF D!Unwind, D!Rest
<1>3. CASE pc[l].server = "delete_pidfile" /\ D!Done(l, "close_pipe") /\ pidfile' = None
  <2>1. /\ pc' \in [Launches -> ProcessPCs] /\ \A k \in Launches \ {l} : pc'[k] = pc[k]
        /\ pc'[l].parent = pc[l].parent /\ pc'[l].child = pc[l].child /\ pc'[l].server = "close_pipe"
        /\ UNCHANGED <<ends, thrown, byte>>
    BY <1>1, <1>3, GotoServer DEF D!Done, D!ServerPCs, D!Unwinding
  <2>2. byte[l] => stopping[l] \/ thrown[l] \/ ~config[l].service
    BY <1>1, <1>3 DEF LocalInv, D!PipeTellsTheTruth, D!Unwinding
  <2>3. D!ForksInOrder(l)' /\ D!PipeTellsTheTruth(l)'
    BY <1>1, <1>2, <1>3, <2>1, <2>2, ServerAdvances DEF Live, D!ServerPCs, D!Unwinding
  <2>4. D!HandlerInPlace(l)'
    BY <1>1, <1>2, <1>3, <2>1 DEF LocalInv, D!HandlerInPlace, D!Initializing, D!Confirming
  <2>5. pidfile = l /\ \A k \in Launches : pidfile' # k
    BY <1>1, <1>3, ServicesAssumption DEF LocalInv, PidfilePart, D!PidfileIsExplained, D!Owns
  <2>6. PidfilePart(l)'
    BY <1>1, <1>2, <2>1, <2>5 DEF LocalInv, PidfilePart, D!PidfileIsExplained, D!Owns, D!HasPidfile
  <2>7. D!DaemonTypeOK'
    BY <1>1, <1>2, <1>3, <2>1 DEF D!DaemonTypeOK, ProcessPCs
  <2> QED
    BY <1>2, <2>1, <2>3, <2>4, <2>5, <2>6, <2>7 DEF KeepsInv, LocalInv, Untouched
<1>4. CASE /\ pc[l].server = "close_pipe"
           /\ pc' = [pc EXCEPT ![l].server = "exited",
                               ![l].parent = IF @ # "in_foreground" THEN @
                                             ELSE IF thrown[l] THEN "failure" ELSE "success"]
           /\ D!Close(l, "server")
           /\ UNCHANGED <<thrown, byte, pidfile>>
  <2>1. /\ pc' \in [Launches -> ProcessPCs] /\ \A k \in Launches \ {l} : pc'[k] = pc[k]
        /\ pc'[l].child = pc[l].child /\ pc'[l].server = "exited"
        /\ pc[l].parent # "in_foreground" => pc'[l].parent = pc[l].parent
        /\ pc[l].parent = "in_foreground" => pc'[l].parent \in {"failure", "success"}
    <3>1. pc \in [Launches -> ProcessPCs]
      BY <1>1 DEF D!DaemonTypeOK, ProcessPCs
    <3>2. "exited" \in D!ServerPCs /\ "failure" \in D!ParentPCs /\ "success" \in D!ParentPCs
      BY DEF D!ServerPCs, D!ParentPCs
    <3>3. PICK step \in D!ParentPCs :
            /\ pc' = [pc EXCEPT ![l].server = "exited", ![l].parent = step]
            /\ pc[l].parent # "in_foreground" => step = pc[l].parent
            /\ pc[l].parent = "in_foreground" => step \in {"failure", "success"}
      BY <1>4, <3>1, <3>2 DEF ProcessPCs
    <3> QED
      BY <3>1, <3>2, <3>3 DEF ProcessPCs
  <2>2. /\ ends' \in [Launches -> PipeEnds] /\ \A k \in Launches \ {l} : ends'[k] = ends[k]
        /\ ends'[l].writer = ends[l].writer \ {"server"}
    BY <1>1, <1>4, CloseIs
  <2>3. D!ForksInOrder(l)' /\ D!PipeTellsTheTruth(l)'
    BY <1>1, <1>2, <1>4, <2>1, <2>2 DEF LocalInv, D!ForksInOrder, D!PipeTellsTheTruth, D!Unwinding
  <2>4. D!HandlerInPlace(l)'
    BY <1>1, <1>2, <1>4, <2>1 DEF LocalInv, D!HandlerInPlace, D!Initializing, D!Confirming
  <2>5. PidfilePart(l)'
    BY <1>1, <1>2, <1>4, <2>1 DEF LocalInv, PidfilePart, D!PidfileIsExplained, D!Owns, D!HasPidfile
  <2>6. D!DaemonTypeOK'
    BY <1>1, <1>2, <1>4, <2>1, <2>2 DEF D!DaemonTypeOK, ProcessPCs, PipeEnds
  <2> QED
    BY <1>2, <1>4, <2>1, <2>2, <2>3, <2>4, <2>5, <2>6 DEF KeepsInv, LocalInv, Untouched
<1> QED
  BY <1>3, <1>4 DEF D!Unwind

LEMMA RemovePidfileKeeps ==
  ASSUME D!DaemonInv, D!RemovePidfile
  PROVE  D!DaemonInv'
<1>1. D!DaemonTypeOK /\ \A l \in Launches : LocalInv(l)
  BY LocalInvHolds DEF D!DaemonInv
<1>2. UNCHANGED <<config, pc, thrown, ends, byte, signal, stopping, signals, kills>> /\ pidfile' = None
  BY DEF D!RemovePidfile, D!Rest
<1>3. D!DaemonTypeOK'
  BY <1>1, <1>2 DEF D!DaemonTypeOK
<1>4. ASSUME NEW l \in Launches
      PROVE  LocalInv(l)'
  <2>1. ~D!Owns(l) /\ pidfile' # l
    <3>1. pc[l].server \in D!ServerPCs
      BY <1>1 DEF D!DaemonTypeOK
    <3>2. pidfile = l => D!Ended(l, "server")
      BY DEF D!RemovePidfile
    <3>3. D!Owns(l) => pidfile = l
      BY <1>1 DEF LocalInv, PidfilePart
    <3>4. D!Ended(l, "server") => ~D!Owns(l)
      BY <3>1 DEF D!Ended, D!Owns, D!ServerPCs, D!Initializing, D!Confirming, D!Unwinding
    <3> QED
      BY <1>2, <3>2, <3>3, <3>4, ServicesAssumption
  <2> QED
    BY <1>1, <1>2, <2>1
    DEF LocalInv, PidfilePart, D!ForksInOrder, D!PipeTellsTheTruth, D!HandlerInPlace, D!PidfileIsExplained,
        D!Owns, D!HasPidfile
<1>5. AllLocalInv'
  BY <1>3, <1>4 DEF AllLocalInv
<1> QED
  BY <1>5, LocalInvIsEnough, PTL
-----------------------------------------------------------------------------
LEMMA KeepsInvIsEnough ==
  ASSUME D!DaemonInv, NEW l \in Launches, KeepsInv(l)
  PROVE  D!DaemonInv'
<1>1. ASSUME NEW k \in Launches
      PROVE  LocalInv(k)'
  <2>1. CASE k = l
    BY <2>1 DEF KeepsInv
  <2>2. CASE k # l
    <3>1. Untouched(k) /\ config' = config
      BY <2>2 DEF KeepsInv
    <3> QED
      BY <3>1, LocalInvHolds, UntouchedKeeps
  <2> QED
    BY <2>1, <2>2
<1>2. AllLocalInv'
  BY <1>1 DEF KeepsInv, AllLocalInv
<1> QED
  BY <1>2, LocalInvIsEnough, PTL

LEMMA DaemonStepsKeepInv ==
  ASSUME D!DaemonInv, D!DaemonNext
  PROVE  D!DaemonInv'
<1>1. ASSUME NEW l \in Launches,
             \/ D!ParentStep(l) \/ D!ChildStep(l) \/ D!ServerStep(l) \/ D!RunThrows(l) \/ D!Signal(l)
             \/ \E p \in D!Processes : D!Kill(l, p)
      PROVE  D!DaemonInv'
  <2>1. CASE D!ParentStep(l)
    BY <2>1, StartKeeps, AwaitChildKeeps, CloseWriterKeeps, ReadKeeps, KeepsInvIsEnough DEF D!ParentStep
  <2>2. CASE D!ChildStep(l)
    BY <2>2, ChildStepKeeps, KeepsInvIsEnough
  <2>3. CASE D!ServerStep(l)
    BY <2>3, InitializeKeeps, CreatePidfileKeeps, WritePidKeeps, HandlerStepKeeps, RedirectStandardFdsKeeps,
       ConfirmKeeps, RunReturnsKeeps, UnwindKeeps, KeepsInvIsEnough DEF D!ServerStep
  <2>4. CASE D!RunThrows(l)
    BY <2>4, RunThrowsKeeps, KeepsInvIsEnough
  <2>5. CASE D!Signal(l)
    BY <2>5, SignalKeeps, KeepsInvIsEnough
  <2>6. CASE \E p \in D!Processes : D!Kill(l, p)
    BY <2>6, KillKeeps, KeepsInvIsEnough
  <2> QED
    BY <1>1, <2>1, <2>2, <2>3, <2>4, <2>5, <2>6
<1> QED
  BY <1>1, RemovePidfileKeeps DEF D!DaemonNext
-----------------------------------------------------------------------------
LEMMA NestTypes ==
  ASSUME N!NestInv
  PROVE  /\ nestSignal \in N!Signals /\ lifetimes \in Seq(Handlers) /\ Len(lifetimes) \in Nat
         /\ \A i \in 1 .. Len(lifetimes) : lifetimes[i] \in Handlers
         /\ lifetimes # <<>> => Len(lifetimes) >= 1 /\ N!Last(lifetimes) = lifetimes[Len(lifetimes)]
<1>1. nestSignal \in N!Signals /\ lifetimes \in Seq(Handlers)
  BY DEF N!NestInv, N!LifetimesNest, N!InnermostIsCalled
<1>2. Len(lifetimes) \in Nat /\ \A i \in 1 .. Len(lifetimes) : lifetimes[i] \in Handlers
  BY <1>1
<1>3. lifetimes # <<>> => Len(lifetimes) >= 1
  BY <1>1
<1> QED
  BY <1>1, <1>2, <1>3 DEF N!Last

LEMMA NestInitIsFine ==
  ASSUME N!NestInit
  PROVE  N!NestInv
<1>1. lifetimes = <<>> /\ nestSignal = N!NoHandlers /\ doing = "nothing" /\ Len(lifetimes) = 0
      /\ lifetimes \in Seq(Handlers)
  BY DEF N!NestInit
<1>2. nestSignal \in N!Signals /\ nestSignal.action = "default" /\ nestSignal.current = None
  BY <1>1 DEF N!NoHandlers, N!Signals
<1>3. N!LifetimesNest
  BY <1>1 DEF N!LifetimesNest
<1>4. N!RememberTheEnclosing
  BY <1>1, <1>2 DEF N!RememberTheEnclosing, N!ActionOf
<1>5. N!InnermostIsCalled
  BY <1>1, <1>2 DEF N!InnermostIsCalled, N!Effect
<1> QED
  BY <1>3, <1>4, <1>5 DEF N!NestInv

LEMMA BeginConstructKeeps ==
  ASSUME N!NestInv, NEW h \in Handlers, N!BeginConstruct(h)
  PROVE  N!NestInv'
<1> DEFINE n == Len(lifetimes)
<1>1. /\ doing = "nothing" /\ doing' = "constructing" /\ lifetimes' = Append(lifetimes, h)
      /\ nestSignal' = N!SetUpImpl(nestSignal, h) /\ ~N!Contains(lifetimes, h)
  BY DEF N!BeginConstruct
<1>2. /\ lifetimes \in Seq(Handlers) /\ n \in Nat /\ nestSignal \in N!Signals
      /\ \A i \in 1 .. n : lifetimes[i] \in Handlers
      /\ lifetimes # <<>> => n >= 1 /\ N!Last(lifetimes) = lifetimes[n]
  BY NestTypes
<1>3. \A i \in 1 .. n : lifetimes[i] # h
  BY <1>1, <1>2 DEF N!Contains
<1>4. /\ lifetimes' \in Seq(Handlers) /\ Len(lifetimes') = n + 1 /\ lifetimes' # <<>>
      /\ lifetimes'[n + 1] = h /\ \A i \in 1 .. n : lifetimes'[i] = lifetimes[i]
  BY <1>1, <1>2
<1>5. /\ nestSignal' \in N!Signals /\ nestSignal'.action = nestSignal.action /\ nestSignal'.current = h
      /\ nestSignal'.prevImpl[h] = nestSignal.current /\ nestSignal'.prevAction = nestSignal.prevAction
      /\ \A g \in Handlers \ {h} : nestSignal'.prevImpl[g] = nestSignal.prevImpl[g]
  BY <1>1, <1>2 DEF N!SetUpImpl, N!Signals
<1>6. nestSignal.current = IF n = 0 THEN None ELSE lifetimes[n]
  BY <1>2 DEF N!NestInv, N!InnermostIsCalled
<1>7. nestSignal.action = N!ActionOf(n)
  BY <1>1 DEF N!NestInv, N!RememberTheEnclosing
<1>8. \A i \in 1 .. n : /\ nestSignal.prevImpl[lifetimes[i]] = IF i = 1 THEN None ELSE lifetimes[i - 1]
                        /\ nestSignal.prevAction[lifetimes[i]] = N!ActionOf(i - 1)
  BY <1>1 DEF N!NestInv, N!RememberTheEnclosing
<1>9. \A i, j \in 1 .. n : lifetimes[i] = lifetimes[j] => i = j
  BY DEF N!NestInv, N!LifetimesNest
<1> HIDE DEF n
<1>10. N!LifetimesNest'
  BY <1>1, <1>2, <1>3, <1>4, <1>9 DEF N!LifetimesNest
<1>11. N!RememberTheEnclosing'
  <2>1. ASSUME NEW i \in 1 .. n + 1
        PROVE  /\ nestSignal'.prevImpl[lifetimes'[i]] = IF i = 1 THEN None ELSE lifetimes'[i - 1]
               /\ i < n + 1 => nestSignal'.prevAction[lifetimes'[i]] = N!ActionOf(i - 1)
    <3>1. CASE i = n + 1
      BY <1>2, <1>4, <1>5, <1>6, <3>1
    <3>2. CASE i \in 1 .. n
      <4>1. lifetimes'[i] = lifetimes[i] /\ lifetimes[i] \in Handlers \ {h}
        BY <1>2, <1>3, <1>4, <3>2
      <4>2. i # 1 => i - 1 \in 1 .. n
        BY <1>2, <3>2
      <4> QED
        BY <1>4, <1>5, <1>8, <3>2, <4>1, <4>2
    <3> QED
      BY <1>2, <2>1, <3>1, <3>2
  <2>2. nestSignal'.action = N!ActionOf((n + 1) - 1)
    BY <1>2, <1>5, <1>7
  <2> QED
    BY <1>1, <1>4, <2>1, <2>2 DEF N!RememberTheEnclosing
<1>12. N!InnermostIsCalled'
  <2>1. N!Last(lifetimes') = h
    BY <1>2, <1>4 DEF N!Last
  <2>2. nestSignal'.action = "default" => n = 0
    BY <1>5, <1>7 DEF N!ActionOf
  <2>3. h # None
    BY ServicesAssumption
  <2> QED
    BY <1>1, <1>2, <1>4, <1>5, <2>1, <2>2, <2>3 DEF N!InnermostIsCalled, N!Effect
<1> QED
  BY <1>10, <1>11, <1>12 DEF N!NestInv

LEMMA EndConstructKeeps ==
  ASSUME N!NestInv, N!EndConstruct
  PROVE  N!NestInv'
<1> DEFINE n == Len(lifetimes)
<1>1. /\ doing = "constructing" /\ doing' = "nothing" /\ lifetimes' = lifetimes /\ lifetimes # <<>>
      /\ nestSignal' = N!Redirect(nestSignal, N!Last(lifetimes))
  BY DEF N!EndConstruct, N!NestInv, N!LifetimesNest
<1>2. /\ lifetimes \in Seq(Handlers) /\ n \in Nat /\ nestSignal \in N!Signals /\ n >= 1
      /\ \A i \in 1 .. n : lifetimes[i] \in Handlers
      /\ N!Last(lifetimes) = lifetimes[n]
  BY <1>1, NestTypes
<1>3. PICK h \in Handlers : h = lifetimes[n]
  BY <1>2
<1>4. /\ nestSignal' \in N!Signals /\ nestSignal'.action = "handler_routine"
      /\ nestSignal'.current = nestSignal.current /\ nestSignal'.prevImpl = nestSignal.prevImpl
      /\ nestSignal'.prevAction[h] = nestSignal.action
      /\ \A g \in Handlers \ {h} : nestSignal'.prevAction[g] = nestSignal.prevAction[g]
  BY <1>1, <1>2, <1>3 DEF N!Redirect, N!Signals
<1>5. nestSignal.action = N!ActionOf(n - 1)
  BY <1>1 DEF N!NestInv, N!RememberTheEnclosing
<1>6. \A i \in 1 .. n : /\ nestSignal.prevImpl[lifetimes[i]] = IF i = 1 THEN None ELSE lifetimes[i - 1]
                        /\ i < n => nestSignal.prevAction[lifetimes[i]] = N!ActionOf(i - 1)
  BY <1>1 DEF N!NestInv, N!RememberTheEnclosing
<1>7. \A i, j \in 1 .. n : lifetimes[i] = lifetimes[j] => i = j
  BY DEF N!NestInv, N!LifetimesNest
<1>8. N!LifetimesNest'
  BY <1>1 DEF N!NestInv, N!LifetimesNest
<1> HIDE DEF n
<1>9. N!RememberTheEnclosing'
  <2>1. ASSUME NEW i \in 1 .. n
        PROVE  nestSignal'.prevAction[lifetimes[i]] = N!ActionOf(i - 1)
    <3>1. CASE i = n
      BY <1>3, <1>4, <1>5, <3>1
    <3>2. CASE i # n
      <4>1. i < n /\ lifetimes[i] \in Handlers \ {h}
        BY <1>2, <1>3, <1>7, <3>2
      <4> QED
        BY <1>4, <1>6, <4>1
    <3> QED
      BY <3>1, <3>2
  <2>2. nestSignal'.action = N!ActionOf(n)
    BY <1>2, <1>4 DEF N!ActionOf
  <2>3. \A i \in 1 .. n : nestSignal'.prevImpl[lifetimes[i]] = IF i = 1 THEN None ELSE lifetimes[i - 1]
    BY <1>4, <1>6
  <2> QED
    BY <1>1, <2>1, <2>2, <2>3 DEF N!RememberTheEnclosing, n
<1>10. N!InnermostIsCalled'
  <2>1. nestSignal.current = N!Last(lifetimes)
    BY <1>1 DEF N!NestInv, N!InnermostIsCalled
  <2>2. N!Last(lifetimes) # None
    BY <1>2, <1>3, ServicesAssumption
  <2> QED
    BY <1>1, <1>4, <2>1, <2>2 DEF N!InnermostIsCalled, N!Effect
<1> QED
  BY <1>8, <1>9, <1>10 DEF N!NestInv

LEMMA BeginDestroyKeeps ==
  ASSUME N!NestInv, N!BeginDestroy
  PROVE  N!NestInv'
<1> DEFINE n == Len(lifetimes)
<1>1. /\ doing = "nothing" /\ doing' = "destroying" /\ lifetimes' = lifetimes /\ lifetimes # <<>>
      /\ nestSignal' = N!RestoreAction(nestSignal, N!Last(lifetimes))
  BY DEF N!BeginDestroy
<1>2. /\ lifetimes \in Seq(Handlers) /\ n \in Nat /\ nestSignal \in N!Signals /\ n >= 1
      /\ \A i \in 1 .. n : lifetimes[i] \in Handlers
      /\ N!Last(lifetimes) = lifetimes[n]
  BY <1>1, NestTypes
<1>3. \A i \in 1 .. n : nestSignal.prevAction[lifetimes[i]] = N!ActionOf(i - 1)
  BY <1>1 DEF N!NestInv, N!RememberTheEnclosing
<1>4. \A i \in 1 .. n : nestSignal.prevImpl[lifetimes[i]] = IF i = 1 THEN None ELSE lifetimes[i - 1]
  BY <1>1 DEF N!NestInv, N!RememberTheEnclosing
<1>5. /\ nestSignal' \in N!Signals /\ nestSignal'.action = N!ActionOf(n - 1)
      /\ nestSignal'.current = nestSignal.current /\ nestSignal'.prevImpl = nestSignal.prevImpl
      /\ nestSignal'.prevAction = nestSignal.prevAction
  <2>1. PICK h \in Handlers : h = lifetimes[n]
    BY <1>2
  <2>2. nestSignal.prevAction[h] = N!ActionOf(n - 1)
    BY <1>2, <1>3, <2>1
  <2> QED
    BY <1>1, <1>2, <2>1, <2>2 DEF N!RestoreAction, N!Signals
<1>6. N!LifetimesNest'
  BY <1>1 DEF N!NestInv, N!LifetimesNest
<1>7. N!RememberTheEnclosing'
  BY <1>1, <1>3, <1>4, <1>5 DEF N!RememberTheEnclosing
<1>8. N!InnermostIsCalled'
  <2>1. nestSignal.current = N!Last(lifetimes)
    BY <1>1 DEF N!NestInv, N!InnermostIsCalled
  <2>2. N!Last(lifetimes) # None
    BY <1>2, ServicesAssumption
  <2>3. nestSignal'.action = "default" => n <= 1
    BY <1>2, <1>5 DEF N!ActionOf
  <2> QED
    BY <1>1, <1>5, <2>1, <2>2, <2>3 DEF N!InnermostIsCalled, N!Effect
<1> QED
  BY <1>6, <1>7, <1>8 DEF N!NestInv

LEMMA EndDestroyKeeps ==
  ASSUME N!NestInv, N!EndDestroy
  PROVE  N!NestInv'
<1> DEFINE n == Len(lifetimes)
<1>1. /\ doing = "destroying" /\ doing' = "nothing" /\ lifetimes' = N!Front(lifetimes) /\ lifetimes # <<>>
      /\ nestSignal' = N!RestoreImpl(nestSignal, N!Last(lifetimes))
  BY DEF N!EndDestroy, N!NestInv, N!LifetimesNest
<1>2. /\ lifetimes \in Seq(Handlers) /\ n \in Nat /\ nestSignal \in N!Signals /\ n >= 1
      /\ \A i \in 1 .. n : lifetimes[i] \in Handlers
      /\ N!Last(lifetimes) = lifetimes[n]
  BY <1>1, NestTypes
<1>3. /\ lifetimes' \in Seq(Handlers) /\ Len(lifetimes') = n - 1
      /\ \A i \in 1 .. n - 1 : lifetimes'[i] = lifetimes[i]
      /\ lifetimes' = <<>> <=> n = 1
  <2>1. lifetimes' = SubSeq(lifetimes, 1, n - 1) /\ n - 1 \in 0 .. n
    BY <1>1, <1>2 DEF N!Front
  <2>2. /\ SubSeq(lifetimes, 1, n - 1) \in Seq(Handlers) /\ Len(SubSeq(lifetimes, 1, n - 1)) = n - 1
        /\ \A i \in 1 .. n - 1 : SubSeq(lifetimes, 1, n - 1)[i] = lifetimes[i]
    BY <1>2, <2>1, PrefixOf
  <2> HIDE DEF n
  <2>3. lifetimes' \in Seq(Handlers) /\ Len(lifetimes') = n - 1
    BY <2>1, <2>2
  <2>4. lifetimes' = <<>> <=> Len(lifetimes') = 0
    BY <2>3, EmptySeq
  <2> QED
    BY <1>2, <2>1, <2>2, <2>3, <2>4
<1>4. \A i \in 1 .. n : /\ nestSignal.prevImpl[lifetimes[i]] = IF i = 1 THEN None ELSE lifetimes[i - 1]
                        /\ nestSignal.prevAction[lifetimes[i]] = N!ActionOf(i - 1)
  BY <1>1 DEF N!NestInv, N!RememberTheEnclosing
<1>5. nestSignal.action = N!ActionOf(n - 1)
  BY <1>1 DEF N!NestInv, N!RememberTheEnclosing
<1>6. /\ nestSignal' \in N!Signals /\ nestSignal'.action = N!ActionOf(n - 1)
      /\ nestSignal'.current = IF n = 1 THEN None ELSE lifetimes[n - 1]
      /\ nestSignal'.prevImpl = nestSignal.prevImpl /\ nestSignal'.prevAction = nestSignal.prevAction
  <2>1. PICK h \in Handlers : h = lifetimes[n]
    BY <1>2
  <2>2. nestSignal.prevImpl[h] = IF n = 1 THEN None ELSE lifetimes[n - 1]
    <3>1. n \in 1 .. n
      BY <1>2
    <3> HIDE DEF n
    <3> QED
      BY <1>4, <2>1, <3>1
  <2> QED
    BY <1>1, <1>2, <1>5, <2>1, <2>2 DEF N!RestoreImpl, N!Signals
<1>7. \A i, j \in 1 .. n : lifetimes[i] = lifetimes[j] => i = j
  BY DEF N!NestInv, N!LifetimesNest
<1> HIDE DEF n
<1>8. N!LifetimesNest'
  BY <1>1, <1>2, <1>3, <1>7 DEF N!LifetimesNest
<1>9. N!RememberTheEnclosing'
  <2>1. ASSUME NEW i \in 1 .. n - 1
        PROVE  /\ nestSignal'.prevImpl[lifetimes'[i]] = IF i = 1 THEN None ELSE lifetimes'[i - 1]
               /\ nestSignal'.prevAction[lifetimes'[i]] = N!ActionOf(i - 1)
    <3>1. i \in 1 .. n /\ lifetimes'[i] = lifetimes[i]
      BY <1>2, <1>3
    <3>2. i # 1 => lifetimes'[i - 1] = lifetimes[i - 1]
      BY <1>2, <1>3
    <3> QED
      BY <1>4, <1>6, <3>1, <3>2
  <2> QED
    BY <1>1, <1>3, <1>6, <2>1 DEF N!RememberTheEnclosing
<1>10. N!InnermostIsCalled'
  <2>1. nestSignal'.action = "default" <=> n = 1
    BY <1>2, <1>6 DEF N!ActionOf
  <2>2. n # 1 => N!Last(lifetimes') = lifetimes[n - 1] /\ lifetimes[n - 1] # None
    BY <1>2, <1>3, ServicesAssumption DEF N!Last
  <2> QED
    BY <1>1, <1>2, <1>3, <1>6, <2>1, <2>2 DEF N!InnermostIsCalled, N!Effect
<1> QED
  BY <1>8, <1>9, <1>10 DEF N!NestInv
LEMMA NestStepsKeepInv ==
  ASSUME N!NestInv, N!NestNext
  PROVE  N!NestInv'
BY BeginConstructKeeps, EndConstructKeeps, BeginDestroyKeeps, EndDestroyKeeps DEF N!NestNext

-----------------------------------------------------------------------------
LEMMA DaemonIsAlone ==
  ASSUME D!DaemonInv, UNCHANGED daemonVars
  PROVE  D!DaemonInv'
<1>1. UNCHANGED <<config, pc, thrown, ends, byte, signal, stopping, pidfile, signals, kills>>
  BY DEF daemonVars
<1>2. D!DaemonTypeOK'
  BY <1>1 DEF D!DaemonInv, D!DaemonTypeOK
<1>3. ASSUME NEW l \in Launches
      PROVE  LocalInv(l)'
  BY <1>1, LocalInvHolds, UntouchedKeeps DEF Untouched
<1>4. AllLocalInv'
  BY <1>2, <1>3 DEF AllLocalInv
<1> QED
  BY <1>4, LocalInvIsEnough, PTL

LEMMA NestIsAlone ==
  ASSUME N!NestInv, UNCHANGED nestVars
  PROVE  N!NestInv'
BY DEF nestVars, N!NestInv, N!LifetimesNest, N!RememberTheEnclosing, N!InnermostIsCalled

LEMMA ServicesStepsKeepInv ==
  ASSUME ServicesInv, [ServicesNext]_servicesVars
  PROVE  ServicesInv'
<1>1. D!DaemonInv /\ N!NestInv
  BY DEF ServicesInv
<1>2. CASE D!DaemonNext /\ UNCHANGED nestVars
  BY <1>1, <1>2, DaemonStepsKeepInv, NestIsAlone DEF ServicesInv
<1>3. CASE N!NestNext /\ UNCHANGED daemonVars
  BY <1>1, <1>3, NestStepsKeepInv, DaemonIsAlone DEF ServicesInv
<1>4. CASE UNCHANGED servicesVars
  BY <1>1, <1>4, DaemonIsAlone, NestIsAlone DEF ServicesInv, servicesVars
<1> QED
  BY <1>2, <1>3, <1>4 DEF ServicesNext

(***************************************************************************)
(* Whatever fails, is killed or is signalled: the pidfile has one owner,   *)
(* the parent's exit code tells what became of the grandchild, and a       *)
(* signal finds the handler made last while there is something to call.    *)
(***************************************************************************)
THEOREM ServicesInvariance == ServicesSpec => []ServicesInv
<1>1. ServicesInit => ServicesInv
  BY DaemonInitIsFine, NestInitIsFine DEF ServicesInit, ServicesInv
<1>2. ServicesInv /\ [ServicesNext]_servicesVars => ServicesInv'
  BY ServicesStepsKeepInv
<1> QED
  BY <1>1, <1>2, PTL DEF ServicesSpec

-----------------------------------------------------------------------------
(*****************************************************************************)
(* The default scheduler.  The id that wait() keeps while it polls is that   *)
(* of the first alarm throughout: nobody schedules or cancels an alarm       *)
(* meanwhile.  That makes the alarm that goes off the earliest one, however  *)
(* many polls came between.                                                  *)
(*****************************************************************************)
(***************************************************************************)
(* The type and the choice of the first alarm, step by step.               *)
(***************************************************************************)
\* The selector keeps to its type, whatever it selects.
LEMMA SelectKeepsType ==
  ASSUME SchedulerInv, Io!Select
  PROVE  /\ DOMAIN callbacks' \subseteq Tickets /\ callbacks' \in [DOMAIN callbacks' -> Events]
         /\ detected' \subseteq DOMAIN callbacks'
         /\ ready' \subseteq Events
         /\ result' \in Events \cup {Nothing}
BY DEF SchedulerInv, SchedulerTypeOK, Io!Select, Io!Without

LEMMA SchedulerInitIsFine == SchedulerInit => SchedulerInv
<1> SUFFICES ASSUME SchedulerInit
             PROVE  SchedulerInv
  OBVIOUS
<1>1. \A S : <<>> \in [DOMAIN <<>> -> S] /\ DOMAIN <<>> = {}
  OBVIOUS
<1>2. /\ DOMAIN alarms = {} /\ alarms \in [DOMAIN alarms -> Times]
      /\ DOMAIN callbacks = {} /\ callbacks \in [DOMAIN callbacks -> Events]
  BY <1>1 DEF SchedulerInit, Io!Init
<1>3. now \in Times
  BY SchedulerAssumption DEF SchedulerInit, Times
<1> QED
  BY <1>2, <1>3 DEF SchedulerInit, Io!Init, SchedulerInv, SchedulerTypeOK, WaitsForTheFirst

LEMMA SchedulerStepsKeepInv ==
  ASSUME SchedulerInv, [SchedulerNext]_schedulerVars
  PROVE  SchedulerInv'
<1> USE SchedulerAssumption DEF SchedulerInv
<1>1. ASSUME NEW t \in Tickets, NEW when \in Times, CallAlarm(t, when)
      PROVE  SchedulerInv'
  BY <1>1 DEF CallAlarm, SchedulerTypeOK, WaitsForTheFirst, ioVars
<1>2. ASSUME NEW t \in DOMAIN alarms, CancelAlarm(t)
      PROVE  SchedulerInv'
  BY <1>2 DEF CancelAlarm, SchedulerTypeOK, WaitsForTheFirst, ioVars
<1>3. ASSUME NEW e \in Events, NEW t \in Tickets, CallWhen(e, t)
      PROVE  SchedulerInv'
  BY <1>3 DEF CallWhen, Io!CallWhen, SchedulerTypeOK, WaitsForTheFirst
<1>4. ASSUME NEW t \in DOMAIN callbacks, CancelWhen(t)
      PROVE  SchedulerInv'
  BY <1>4 DEF CancelWhen, Io!Cancel, Io!Without, SchedulerTypeOK, WaitsForTheFirst
<1>5. CASE Wait
  BY <1>5 DEF Wait, IsFirst, SchedulerTypeOK, WaitsForTheFirst, ioVars
<1>6. CASE PollForIo
  BY <1>6, SelectKeepsType
  DEF PollForIo, Expired, ReturnIfSelected, IsFirst, SchedulerTypeOK, WaitsForTheFirst
<1>7. CASE SelectAlarm
  BY <1>7 DEF SelectAlarm, Expired, SchedulerTypeOK, WaitsForTheFirst, ioVars
<1>8. CASE WaitForIo
  BY <1>8, SelectKeepsType
  DEF WaitForIo, ReturnIfSelected, IsFirst, SchedulerTypeOK, WaitsForTheFirst
<1>9. CASE Sleep
  BY <1>9 DEF Sleep, IsFirst, SchedulerTypeOK, WaitsForTheFirst, ioVars
<1>10. CASE Tick
  BY <1>10 DEF Tick, IsFirst, SchedulerTypeOK, Times, WaitsForTheFirst, ioVars
<1>11. ASSUME NEW e \in Events, BecomesReady(e) \/ IsOver(e)
       PROVE  SchedulerInv'
  BY <1>11 DEF BecomesReady, IsOver, Io!BecomesReady, Io!IsOver, IsFirst, SchedulerTypeOK, WaitsForTheFirst
<1>12. CASE UNCHANGED schedulerVars
  BY <1>12 DEF schedulerVars, ioVars, IsFirst, SchedulerTypeOK, WaitsForTheFirst
<1> QED
  BY <1>1, <1>2, <1>3, <1>4, <1>5, <1>6, <1>7, <1>8, <1>9, <1>10, <1>11, <1>12 DEF SchedulerNext, InWait

(***************************************************************************)
(* Whatever alarms and events there are, the alarm that wait() waits for   *)
(* is always there, and none is earlier.                                   *)
(***************************************************************************)
THEOREM SchedulerInvariance == SchedulerSpec => []SchedulerInv
BY SchedulerInitIsFine, SchedulerStepsKeepInv, PTL DEF SchedulerSpec

-----------------------------------------------------------------------------
(***************************************************************************)
(* An alarm goes off at its time or later, and in the order of the times.  *)
(***************************************************************************)
THEOREM OrderIsKept == SchedulerSpec => AlarmsInOrder
<1> DEFINE InOrder ==
      \A t \in DOMAIN alarms :
        (loop = "timed" /\ loop' = "idle" /\ t \notin DOMAIN alarms')
          => alarms[t] <= now /\ \A u \in DOMAIN alarms : alarms[t] <= alarms[u]
<1>1. ASSUME SchedulerInv, [SchedulerNext]_schedulerVars
      PROVE  [InOrder]_schedulerVars
  <2>1. SUFFICES ASSUME NEW t \in DOMAIN alarms, loop = "timed", t \notin DOMAIN alarms'
                 PROVE  alarms[t] <= now /\ \A u \in DOMAIN alarms : alarms[t] <= alarms[u]
    OBVIOUS
  <2>2. SelectAlarm /\ t = alarm_id
    <3>1. DOMAIN alarms' # DOMAIN alarms /\ alarms' # alarms
      BY <2>1
    <3>2. SelectAlarm
      BY <1>1, <2>1, <3>1
      DEF SchedulerNext, InWait, schedulerVars, CallAlarm, CancelAlarm, CallWhen, CancelWhen, Wait, PollForIo,
          WaitForIo, Sleep, Tick, BecomesReady, IsOver
    <3> QED
      BY <2>1, <3>2 DEF SelectAlarm
  <2> QED
    BY <1>1, <2>1, <2>2 DEF SelectAlarm, Expired, SchedulerInv, WaitsForTheFirst, IsFirst
<1>2. SchedulerInv /\ [SchedulerNext]_schedulerVars => [InOrder]_schedulerVars
  BY <1>1
<1> HIDE DEF InOrder
<1>3. SchedulerSpec => [][InOrder]_schedulerVars
  BY <1>2, SchedulerInvariance, PTL DEF SchedulerSpec
<1> QED
  BY <1>3 DEF AlarmsInOrder, InOrder

-----------------------------------------------------------------------------
(*****************************************************************************)
(* An encode call.  The tokens on the wire, with what both ends remember,    *)
(* are one request and one reply: the server's place in the request follows  *)
(* from how much of it has been taken, and every frame taken is in the       *)
(* encoder, in a sample on its way, or in one that was received.             *)
(*****************************************************************************)
\* The request of n frames, token by token.
LEMMA RequestIs ==
  ASSUME NEW n \in Nat
  PROVE  /\ Len(Request(n)) = n + 3
         /\ Request(n)[1] = Word("params") /\ Request(n)[2] = Word("begin")
         /\ \A f \in 1 .. n : Request(n)[f + 2] = Token("frame", f)
         /\ Request(n)[n + 3] = Word("end")
<1> DEFINE T == {Word("params"), Word("begin"), Word("end")} \cup {Token("frame", f) : f \in 1 .. n}
           a == <<Word("params"), Word("begin")>>
           b == [f \in 1 .. n |-> Token("frame", f)]
           c == <<Word("end")>>
<1>1. a \in Seq(T) /\ Len(a) = 2 /\ a[1] = Word("params") /\ a[2] = Word("begin")
  OBVIOUS
<1>2. c \in Seq(T) /\ Len(c) = 1 /\ c[1] = Word("end")
  OBVIOUS
<1>3. b \in Seq(T) /\ Len(b) = n /\ \A f \in 1 .. n : b[f] = Token("frame", f)
  <2>1. b \in [1 .. n -> T]
    <3>1. \A f \in 1 .. n : Token("frame", f) \in T
      OBVIOUS
    <3> HIDE DEF T
    <3> QED
      BY <3>1
  <2>2. b \in Seq(T)
    BY SMTT(30), <2>1 DEF Seq
  <2> QED
    BY <2>2, LenProperties
<1>4. Request(n) = (a \o b) \o c
  BY DEF Request
<1> HIDE DEF a, b, c, T
<1>5. /\ a \o b \in Seq(T) /\ Len(a \o b) = n + 2
      /\ (a \o b)[1] = Word("params") /\ (a \o b)[2] = Word("begin")
      /\ \A f \in 1 .. n : (a \o b)[f + 2] = Token("frame", f)
  <2>1. /\ a \o b \in Seq(T) /\ Len(a \o b) = Len(a) + Len(b)
        /\ \A i \in 1 .. Len(a) + Len(b) : (a \o b)[i] = IF i <= Len(a) THEN a[i] ELSE b[i - Len(a)]
    BY <1>1, <1>3, ConcatProperties
  <2>2. \A i \in 1 .. n + 2 : (a \o b)[i] = IF i <= 2 THEN a[i] ELSE b[i - 2]
    BY <1>1, <1>3, <2>1
  <2>3. \A f \in 1 .. n : f + 2 \in 1 .. n + 2 /\ ~(f + 2 <= 2) /\ f + 2 - 2 = f
    OBVIOUS
  <2>4. 1 \in 1 .. n + 2 /\ 2 \in 1 .. n + 2
    OBVIOUS
  <2> QED
    BY <1>1, <1>3, <2>1, <2>2, <2>3, <2>4
<1> DEFINE d == a \o b
<1>6. /\ d \in Seq(T) /\ Len(d) = n + 2
      /\ d[1] = Word("params") /\ d[2] = Word("begin")
      /\ \A f \in 1 .. n : d[f + 2] = Token("frame", f)
  BY <1>5
<1>7. Request(n) = d \o c
  BY <1>4
<1> HIDE DEF d
<1>8. /\ Len(d \o c) = n + 3
      /\ \A i \in 1 .. n + 2 : (d \o c)[i] = d[i]
      /\ (d \o c)[n + 3] = c[1]
  <2>1. /\ Len(d \o c) = Len(d) + Len(c)
        /\ \A i \in 1 .. Len(d) + Len(c) : (d \o c)[i] = IF i <= Len(d) THEN d[i] ELSE c[i - Len(d)]
    BY <1>2, <1>6, ConcatProperties
  <2>2. \A i \in 1 .. n + 3 : (d \o c)[i] = IF i <= n + 2 THEN d[i] ELSE c[i - (n + 2)]
    BY <1>2, <1>6, <2>1
  <2>3. n + 3 \in 1 .. n + 3 /\ ~(n + 3 <= n + 2) /\ n + 3 - (n + 2) = 1
    OBVIOUS
  <2>4. \A i \in 1 .. n + 2 : i \in 1 .. n + 3 /\ i <= n + 2
    OBVIOUS
  <2> QED
    BY <1>2, <1>6, <2>1, <2>2, <2>3, <2>4
<1>9. /\ 1 \in 1 .. n + 2 /\ 2 \in 1 .. n + 2
      /\ \A f \in 1 .. n : f + 2 \in 1 .. n + 2
  OBVIOUS
<1> QED
  BY <1>2, <1>6, <1>7, <1>8, <1>9

LEMMA RequestHasTokens ==
  ASSUME NEW n \in 0 .. MaxFrames, NEW i \in 1 .. n + 3
  PROVE  Request(n)[i] \in Tokens
<1>1. n \in Nat /\ n <= MaxFrames
  BY EncodeCallAssumption
<1>2. Word("params") \in Tokens /\ Word("begin") \in Tokens /\ Word("end") \in Tokens
  BY EncodeCallAssumption DEF Word, Token, Tokens, Words
<1>3. \A f \in 1 .. n : Token("frame", f) \in Tokens
  BY <1>1, EncodeCallAssumption DEF Token, Tokens, Frames
<1>4. i = 1 \/ i = 2 \/ i = n + 3 \/ (i - 2 \in 1 .. n /\ i - 2 + 2 = i)
  BY <1>1
<1> QED
  BY <1>1, <1>2, <1>3, <1>4, RequestIs

-----------------------------------------------------------------------------
\* A token is put at the end of a stream, or taken from its front.
LEMMA PutToken ==
  ASSUME NEW s \in Seq(Tokens), NEW t \in Tokens
  PROVE  /\ Append(s, t) \in Seq(Tokens) /\ Len(Append(s, t)) = Len(s) + 1
         /\ DOMAIN s = 1 .. Len(s) /\ DOMAIN Append(s, t) = 1 .. Len(s) + 1
         /\ \A i \in 1 .. Len(s) : Append(s, t)[i] = s[i]
         /\ Append(s, t)[Len(s) + 1] = t
         /\ Len(s) \in Nat
BY AppendProperties, LenProperties

LEMMA TakeToken ==
  ASSUME NEW s \in Seq(Tokens), s # <<>>
  PROVE  /\ Tail(s) \in Seq(Tokens) /\ Len(Tail(s)) = Len(s) - 1
         /\ DOMAIN s = 1 .. Len(s) /\ DOMAIN Tail(s) = 1 .. Len(s) - 1
         /\ \A i \in 1 .. Len(s) - 1 : Tail(s)[i] = s[i + 1]
         /\ Head(s) = s[1] /\ Head(s) \in Tokens
         /\ Len(s) \in Nat /\ 1 <= Len(s)
<1>1. /\ Tail(s) \in Seq(Tokens) /\ Len(Tail(s)) = Len(s) - 1
      /\ \A i \in 1 .. Len(Tail(s)) : Tail(s)[i] = s[i + 1]
      /\ Head(s) = s[1] /\ Head(s) \in Tokens
  BY HeadTailProperties
<1>2. DOMAIN s = 1 .. Len(s) /\ DOMAIN Tail(s) = 1 .. Len(Tail(s)) /\ Len(s) \in Nat
  BY <1>1, LenProperties
<1>3. Len(s) # 0
  BY EmptySeq
<1> QED
  BY <1>1, <1>2, <1>3

\* What is written to a connection that holds.
LEMMA TokensAre ==
  /\ \A w \in Words : Word(w) \in Tokens /\ Word(w).kind = w
  /\ \A k \in {"frame", "sample"}, f \in Frames :
       Token(k, f) \in Tokens /\ Token(k, f).kind = k /\ Token(k, f).frame = f
BY DEF Word, Token, Tokens, Words

\* The samples on the wire when one more token is written, and when one is taken off.
LEMMA ReplyWritten ==
  ASSUME reply \in Seq(Tokens), NEW t \in Tokens, reply' = Append(reply, t)
  PROVE  /\ OnTheWire' = OnTheWire \cup IF t.kind = "sample" THEN {t.frame} ELSE {}
         /\ EndIsSent' <=> EndIsSent \/ t.kind = "end"
<1> DEFINE n == Len(reply)
<1>1. /\ n \in Nat /\ DOMAIN reply = 1 .. n /\ DOMAIN reply' = 1 .. n + 1
      /\ \A i \in 1 .. n : reply'[i] = reply[i]
      /\ reply'[n + 1] = t
  BY PutToken
<1> HIDE DEF n
<1>2. 1 .. n + 1 = (1 .. n) \cup {n + 1}
  BY <1>1
<1> QED
  BY <1>1, <1>2 DEF OnTheWire, EndIsSent, SentAt

LEMMA ReplyRead ==
  ASSUME reply \in Seq(Tokens), reply # <<>>, reply' = Tail(reply)
  PROVE  /\ OnTheWire = OnTheWire' \cup IF reply[1].kind = "sample" THEN {reply[1].frame} ELSE {}
         /\ EndIsSent <=> EndIsSent' \/ reply[1].kind = "end"
<1> DEFINE n == Len(reply)
<1>1. /\ n \in Nat /\ 1 <= n /\ DOMAIN reply = 1 .. n /\ DOMAIN reply' = 1 .. n - 1
      /\ \A i \in 1 .. n - 1 : reply'[i] = reply[i + 1]
  BY TakeToken
<1> HIDE DEF n
<1>2. \A i \in 1 .. n : i = 1 \/ (i - 1 \in 1 .. n - 1 /\ reply'[i - 1] = reply[i])
  <2>1. \A i \in 1 .. n : i = 1 \/ (i - 1 \in 1 .. n - 1 /\ i - 1 + 1 = i)
    BY <1>1
  <2> QED
    BY <1>1, <2>1
<1>3. \A i \in 1 .. n - 1 : i + 1 \in 1 .. n
  BY <1>1
<1>4. 1 \in 1 .. n
  BY <1>1
<1>5. OnTheWire \subseteq OnTheWire' \cup IF reply[1].kind = "sample" THEN {reply[1].frame} ELSE {}
  <2> SUFFICES ASSUME NEW i \in 1 .. n, reply[i].kind = "sample"
               PROVE  reply[i].frame \in OnTheWire' \cup IF reply[1].kind = "sample" THEN {reply[1].frame} ELSE {}
    BY <1>1 DEF OnTheWire, SentAt
  <2>1. CASE i = 1
    BY <2>1
  <2>2. CASE i # 1
    <3>1. i - 1 \in DOMAIN reply' /\ reply'[i - 1] = reply[i]
      BY <1>1, <1>2, <2>2
    <3> DEFINE k == i - 1
    <3>2. k \in DOMAIN reply' /\ SentAt(k)' /\ reply'[k].frame = reply[i].frame
      BY <3>1 DEF SentAt
    <3> HIDE DEF k
    <3> QED
      BY <3>2 DEF OnTheWire
  <2> QED
    BY <2>1, <2>2
<1>6. OnTheWire' \cup (IF reply[1].kind = "sample" THEN {reply[1].frame} ELSE {}) \subseteq OnTheWire
  BY <1>1, <1>3, <1>4 DEF OnTheWire, SentAt
<1>7. EndIsSent <=> EndIsSent' \/ reply[1].kind = "end"
  <2>1. ASSUME EndIsSent, reply[1].kind # "end"
        PROVE  EndIsSent'
    <3>1. PICK i \in 1 .. n : reply[i].kind = "end"
      BY <1>1, <2>1 DEF EndIsSent
    <3>2. i # 1
      BY <2>1, <3>1
    <3>3. i - 1 \in DOMAIN reply' /\ reply'[i - 1] = reply[i]
      BY <1>1, <1>2, <3>2
    <3> QED
      BY <3>1, <3>3 DEF EndIsSent
  <2>2. ASSUME EndIsSent'
        PROVE  EndIsSent
    <3> PICK i \in 1 .. n - 1 : reply'[i].kind = "end"
      BY <1>1, <2>2 DEF EndIsSent
    <3> QED
      BY <1>1, <1>3 DEF EndIsSent
  <2>3. reply[1].kind = "end" => EndIsSent
    BY <1>1, <1>4 DEF EndIsSent
  <2> QED
    BY <2>1, <2>2, <2>3
<1> QED
  BY <1>5, <1>6, <1>7

\* What an action that writes or reads a token does to a stream.
LEMMA WireIsKept ==
  ASSUME NEW s \in Seq(Tokens), Len(s) <= WireSize, NEW t \in Tokens
  PROVE  /\ CanPut(s) => Put(s, t) \in Seq(Tokens) /\ Len(Put(s, t)) <= WireSize
         /\ Rest(s) \in Seq(Tokens) /\ Len(Rest(s)) <= WireSize
         /\ s # <<>> => Tail(s) \in Seq(Tokens) /\ Len(Tail(s)) <= WireSize
         /\ Peek(s) \in Tokens
<1>1. WireSize \in Nat /\ Len(s) \in Nat
  BY EncodeCallAssumption, LenProperties
<1>2. CASE s = <<>>
  BY <1>1, <1>2, PutToken, TokensAre DEF CanPut, Put, Rest, Peek, Words
<1>3. CASE s # <<>>
  BY <1>1, <1>3, PutToken, TakeToken DEF CanPut, Put, Rest, Peek
<1> QED
  BY <1>2, <1>3

LEMMA EmptyWire == <<>> \in Seq(Tokens) /\ Len(<<>>) <= WireSize
BY EncodeCallAssumption

\* A word that is read off a stream without tokens is the end of the file.
LEMMA PeekIs ==
  ASSUME NEW s \in Seq(Tokens), CanPeek(s)
  PROVE  /\ s # <<>> => Peek(s) = s[1] /\ Peek(s) = Head(s)
         /\ s = <<>> => Peek(s).kind = "eof" /\ broken
BY TakeToken, TokensAre DEF CanPeek, Peek, Words

\* A sample at the front of the reply is one of a frame that the server has got.
LEMMA SampleIsOfAFrame ==
  ASSUME Inv, CanPeek(reply), Peek(reply).kind = "sample"
  PROVE  /\ ~broken /\ reply # <<>> /\ reply[1].kind = "sample"
         /\ Peek(reply).frame = reply[1].frame /\ reply[1].frame \in OnTheWire
         /\ reply[1].frame \in 1 .. frames /\ 1 .. frames \subseteq Frames
<1>1. reply \in Seq(Tokens) /\ frames \in 0 .. MaxFrames
  BY DEF Inv, TypeOK
<1>2. reply # <<>>
  BY <1>1, PeekIs
<1>3. ~broken
  BY <1>2 DEF Inv
<1>4. Peek(reply) = reply[1] /\ 1 \in DOMAIN reply
  BY <1>1, <1>2, PeekIs, TakeToken
<1>5. reply[1].frame \in OnTheWire
  BY <1>4 DEF OnTheWire, SentAt
<1>6. OnTheWire \subseteq 1 .. frames
  BY <1>3 DEF Inv, NothingTwice, FramesRead
<1>7. 1 .. frames \subseteq Frames
  BY <1>1, EncodeCallAssumption DEF Frames
<1>8. reply[1].frame \in 1 .. frames
  BY <1>5, <1>6
<1> QED
  BY <1>2, <1>3, <1>4, <1>5, <1>7, <1>8

\* The three outcomes of a call of the encoding session.
LEMMA EncodeFrameDoes ==
  ASSUME TypeOK, EncodeFrame
  PROVE  /\ hand \in Frames
         /\ \/ at' = "write_exception" /\ UNCHANGED <<hand, delayed>>
            \/ at' = "check_eos" /\ delayed' = delayed \cup {hand} /\ UNCHANGED hand
            \/ /\ at' = "write_sample" /\ hand' \in delayed \cup {hand}
               /\ delayed' = (delayed \cup {hand}) \ {hand'}
<1>1. hand \in Frames /\ delayed \subseteq Frames /\ 0 \notin Frames
  BY EncodeCallAssumption DEF EncodeFrame, TypeOK, Handling, Frames
<1>2. CASE SessionFails
  BY <1>1, <1>2 DEF SessionFails, Fail, GoTo
<1>3. ASSUME NEW o \in Encoded(hand), Handle(o, "write_sample", "check_eos")
      PROVE  \/ at' = "check_eos" /\ delayed' = delayed \cup {hand} /\ UNCHANGED hand
             \/ /\ at' = "write_sample" /\ hand' \in delayed \cup {hand}
                /\ delayed' = (delayed \cup {hand}) \ {hand'}
  <2>1. \/ o.sample = 0 /\ o.delayed = delayed \cup {hand}
        \/ o.sample \in delayed \cup {hand} /\ o.delayed = (delayed \cup {hand}) \ {o.sample}
    BY <1>3 DEF Encoded, SampleOf, NoneOf, NoSample
  <2> QED
    BY <1>1, <1>3, <2>1 DEF Handle, GoTo, NoSample
<1> QED
  BY <1>1, <1>2, <1>3 DEF EncodeFrame

LEMMA FlushSamplesDoes ==
  ASSUME TypeOK, FlushSamples
  PROVE  \/ at' = "write_exception" /\ UNCHANGED <<hand, delayed>>
         \/ at' = "write_end_sequence" /\ delayed = {} /\ delayed' = {} /\ UNCHANGED hand
         \/ at' = "write_flushed" /\ hand' \in delayed /\ delayed' = delayed \ {hand'}
<1>1. delayed \subseteq Frames /\ 0 \notin Frames
  BY EncodeCallAssumption DEF TypeOK, Frames
<1>2. CASE SessionFails
  BY <1>1, <1>2 DEF SessionFails, Fail, GoTo
<1>3. ASSUME NEW o \in Flushed, Handle(o, "write_flushed", "write_end_sequence")
      PROVE  \/ at' = "write_end_sequence" /\ delayed = {} /\ delayed' = {} /\ UNCHANGED hand
             \/ at' = "write_flushed" /\ hand' \in delayed /\ delayed' = delayed \ {hand'}
  <2>1. \/ delayed = {} /\ o.sample = 0 /\ o.delayed = {}
        \/ o.sample \in delayed /\ o.delayed = delayed \ {o.sample}
    BY <1>3 DEF Flushed, SampleOf, NoneOf, NoSample
  <2> QED
    BY <1>1, <1>3, <2>1 DEF Handle, GoTo, NoSample
<1> QED
  BY <1>2, <1>3 DEF FlushSamples

LEMMA TypeIsKept ==
  ASSUME Inv, Next
  PROVE  TypeOK'
<1> USE EncodeCallAssumption
<1> TypeOK
  BY DEF Inv
<1>1. /\ request \in Seq(Tokens) /\ Len(request) <= WireSize
      /\ reply \in Seq(Tokens) /\ Len(reply) <= WireSize
      /\ frames \in Nat /\ frames <= MaxFrames /\ Len(Request(frames)) = frames + 3
      /\ written \in 0 .. frames + 3
  BY RequestIs DEF TypeOK
<1>2. \A w \in {request, reply} : w # <<>> => Tail(w) \in Seq(Tokens) /\ Len(Tail(w)) <= WireSize
  BY <1>1, WireIsKept, TokensAre DEF Words
<1>3. \A w \in {request, reply} : Rest(w) \in Seq(Tokens) /\ Len(Rest(w)) <= WireSize /\ Peek(w) \in Tokens
  BY <1>1, WireIsKept, TokensAre DEF Words
<1>4. \A w \in {request, reply}, t \in Tokens :
        CanPut(w) => Put(w, t) \in Seq(Tokens) /\ Len(Put(w, t)) <= WireSize
  BY <1>1, WireIsKept
<1>w. \A w \in {request, reply} : CanPeek(w) /\ Peek(w).kind # "eof" => w # <<>>
  BY TokensAre DEF Peek, Words
<1>5. CASE ReadReply
  <2>1. Peek(reply).kind # "eof" /\ reply # <<>>
    BY <1>5, TokensAre DEF ReadReply, Follows, Peek, Words
  <2>2. Peek(reply).kind = "sample" => Peek(reply).frame \in Frames
    BY <1>5, SampleIsOfAFrame DEF ReadReply
  <2>3. received' \in Seq(Frames)
    BY <1>5, <2>2, AppendProperties DEF ReadReply, TypeOK
  <2>4. expects' \in {"headers", "begin", "samples", "eom"}
    BY <1>5 DEF ReadReply, Follows, TypeOK
  <2> QED
    BY <1>2, <1>5, <2>1, <2>3, <2>4 DEF ReadReply, TypeOK, server
<1>6. CASE OnReplyRead
  BY <1>6 DEF OnReplyRead, TypeOK, network, server
<1>7. CASE OnReplyError
  <2>1. reply' \in Seq(Tokens) /\ Len(reply') <= WireSize
    BY <1>1, <1>3, <1>7 DEF OnReplyError
  <2> QED
    BY <1>7, <2>1 DEF OnReplyError, TypeOK, server
<1>8. CASE DrainMessage
  <2>1. reply' \in Seq(Tokens) /\ Len(reply') <= WireSize
    BY <1>1, <1>3, <1>8 DEF DrainMessage
  <2> QED
    BY <1>8, <2>1 DEF DrainMessage, TypeOK, server
<1>9. CASE OnRequestError
  BY <1>9 DEF OnRequestError, TypeOK, network, server
<1>10. CASE WriteRequest
  <2>1. Request(frames)[written + 1] \in Tokens /\ written + 1 \in 0 .. frames + 3
    BY <1>1, <1>10, RequestHasTokens DEF WriteRequest, TypeOK
  <2>2. request' \in Seq(Tokens) /\ Len(request') <= WireSize
    BY <1>1, <1>4, <1>10, <2>1 DEF WriteRequest
  <2> QED
    BY <1>1, <1>10, <2>1, <2>2 DEF WriteRequest, TypeOK, server
<1>11. CASE WriteEom
  <2>1. request' \in Seq(Tokens) /\ Len(request') <= WireSize
    BY <1>1, <1>4, <1>11, TokensAre DEF WriteEom, Words
  <2> QED
    BY <1>11, <2>1 DEF WriteEom, TypeOK, server
<1>12. CASE Read
  <2>1. request' \in Seq(Tokens) /\ Len(request') <= WireSize
    <3>1. request' = request \/ (request' = Tail(request) /\ request # <<>>)
      BY <1>w, <1>12 DEF Read, Reads
    <3> QED
      BY <1>1, <1>2, <3>1
  <2>2. /\ hand' \in 0 .. MaxFrames
        /\ at' \in Handling => hand' \in Frames
    BY SMTT(30), <1>3, <1>12 DEF Read, Reads, Fail, GoTo, TypeOK, Tokens, Words, Frames, Handling
  <2>3. at' \in Steps
    BY <1>12 DEF Read, Reads, Fail, GoTo, Steps
  <2> QED
    BY <1>12, <2>1, <2>2, <2>3 DEF Read, TypeOK, client
<1>13. CASE Write
  <2>1. \A w \in Words : Word(w) \in Tokens
    BY TokensAre
  <2>2. at \in Handling => Token("sample", hand) \in Tokens
    BY TokensAre DEF TypeOK
  <2>3. reply' \in Seq(Tokens) /\ Len(reply') <= WireSize
    BY <1>1, <1>4, <1>13, <2>1, <2>2 DEF Write, Writes, Words, Handling
  <2>4. at' \in Steps /\ at' \notin Handling
    BY <1>13 DEF Write, Writes, GoTo, Steps, Handling
  <2> QED
    BY <1>13, <2>3, <2>4 DEF Write, TypeOK, client
<1>14. CASE CreateSession \/ SampleHeaders
  BY <1>14 DEF CreateSession, SampleHeaders, Fail, GoTo, Steps, Handling, TypeOK, network, client
<1>15. CASE AbortServer
  BY <1>15, EmptyWire DEF AbortServer, GoTo, Steps, Handling, TypeOK, client
<1>16. CASE Break
  BY <1>16, EmptyWire DEF Break, TypeOK, client, server
<1>17. CASE CheckEos
  <2>1. request' \in Seq(Tokens) /\ Len(request') <= WireSize
    BY <1>1, <1>2, <1>w, <1>17 DEF CheckEos
  <2> QED
    BY <1>17, <2>1 DEF CheckEos, GoTo, Steps, Handling, TypeOK, client
<1>18. CASE DrainRequest
  <2>1. request' \in Seq(Tokens) /\ Len(request') <= WireSize
    BY <1>1, <1>3, <1>18 DEF DrainRequest
  <2> QED
    BY <1>18, <2>1 DEF DrainRequest, GoTo, Steps, Handling, TypeOK, client
<1>19. CASE CheckEom
  BY <1>19 DEF CheckEom, Fail, GoTo, Steps, Handling, TypeOK, network, client
<1>20. CASE EncodeFrame
  <2>1. /\ delayed' \subseteq Frames /\ hand' \in Frames
        /\ at' \in {"write_exception", "check_eos", "write_sample"}
    BY <1>20, EncodeFrameDoes DEF TypeOK
  <2>2. hand' \in 0 .. MaxFrames
    BY <2>1 DEF Frames
  <2> QED
    BY <1>20, <2>1, <2>2 DEF EncodeFrame, Steps, TypeOK, network, client
<1>21. CASE FlushSamples
  <2>1. /\ delayed' \subseteq Frames /\ (at' = "write_flushed" => hand' \in Frames)
        /\ (at' # "write_flushed" => hand' = hand)
        /\ at' \in {"write_exception", "write_end_sequence", "write_flushed"}
    BY <1>21, FlushSamplesDoes DEF TypeOK
  <2>2. hand' \in 0 .. MaxFrames
    BY <2>1 DEF Frames, TypeOK
  <2> QED
    BY <1>21, <2>1, <2>2 DEF FlushSamples, Steps, Handling, TypeOK, network, client
<1> QED
  BY <1>5, <1>6, <1>7, <1>8, <1>9, <1>10, <1>11, <1>12, <1>13, <1>14, <1>15, <1>16, <1>17, <1>18, <1>19,
     <1>20, <1>21
  DEF Next, ClientInput, ClientOutput, ServerStep

-----------------------------------------------------------------------------
\* A sample is added to those that the client has.
LEMMA OneMoreReceived ==
  ASSUME NEW s \in Seq(Frames), NEW f \in Frames
  PROVE  /\ ToSet(Append(s, f)) = ToSet(s) \cup {f}
         /\ f \notin ToSet(s) /\ Distinct(s) => Distinct(Append(s, f))
<1> DEFINE n == Len(s)
<1>1. /\ n \in Nat /\ DOMAIN s = 1 .. n /\ DOMAIN Append(s, f) = 1 .. n + 1
      /\ Len(Append(s, f)) = n + 1
      /\ \A i \in 1 .. n : Append(s, f)[i] = s[i]
      /\ Append(s, f)[n + 1] = f
  BY AppendProperties, LenProperties
<1> DEFINE t == Append(s, f)
<1>2. /\ DOMAIN t = 1 .. n + 1 /\ Len(t) = n + 1 /\ t[n + 1] = f
      /\ \A i \in 1 .. n : t[i] = s[i]
  BY <1>1
<1>3. Len(s) = n
  OBVIOUS
<1> HIDE DEF n, t
<1>4. 1 .. n + 1 = (1 .. n) \cup {n + 1}
  BY <1>1
<1>5. ToSet(t) = ToSet(s) \cup {f}
  BY <1>1, <1>2, <1>4 DEF ToSet
<1>6. f \notin ToSet(s) /\ Distinct(s) => Distinct(t)
  BY <1>1, <1>2, <1>3, <1>4 DEF ToSet, Distinct
<1> QED
  BY <1>5, <1>6 DEF t

\* When the client is to read the end of the samples it has one of each frame.
LEMMA EndMeansAll ==
  ASSUME Inv, input_state = "reading_reply", ~broken, reply # <<>>, reply[1].kind = "end"
  PROVE  1 .. frames \subseteq ToSet(received)
<1> DEFINE n == Len(reply)
<1>1. reply \in Seq(Tokens) /\ frames \in 0 .. MaxFrames
  BY DEF Inv, TypeOK
<1>2. DOMAIN reply = 1 .. n /\ n \in Nat /\ 1 <= n
  BY <1>1, TakeToken
<1> HIDE DEF n
<1>3. EndIsSent
  BY <1>2 DEF EndIsSent
<1>4. /\ at \in Ending \cup {"check_eom"} /\ delayed = {} /\ frames + 3 <= Taken
      /\ \A i, j \in DOMAIN reply : i < j /\ reply[i].kind = "end" => ~SentAt(j)
      /\ FramesRead \subseteq InHand \cup delayed \cup OnTheWire \cup ToSet(received)
  BY <1>3 DEF Inv, EndIsLast, NothingLost
<1>5. InHand = {}
  BY <1>4 DEF InHand, Handling, Ending
<1>6. OnTheWire = {}
  <2>1. \A j \in 1 .. n : j = 1 \/ 1 < j
    BY <1>2
  <2>2. \A j \in 1 .. n : ~SentAt(j)
    BY <1>2, <1>4, <2>1 DEF SentAt
  <2> QED
    BY <1>2, <2>2 DEF OnTheWire
<1>7. FramesRead = 1 .. frames
  <2>1. request \in Seq(Tokens) /\ written \in 0 .. Len(Request(frames)) /\ frames \in Nat
    BY <1>1 DEF Inv, TypeOK
  <2>2. Taken \in Int
    BY <2>1, RequestIs, LenProperties DEF Taken
  <2> QED
    BY <1>4, <2>1, <2>2 DEF FramesRead
<1> QED
  BY <1>4, <1>5, <1>6, <1>7

LEMMA ClientIsKept ==
  ASSUME Inv, Distinct(received), Next
  PROVE  Distinct(received)' /\ ClientHasAll'
<1> TypeOK /\ ClientHasAll
  BY DEF Inv
<1>1. CASE ReadReply
  <2>1. /\ input_state = "reading_reply" /\ Peek(reply).kind # "eof" /\ reply # <<>>
        /\ reply \in Seq(Tokens) /\ received \in Seq(Frames)
    BY <1>1, TokensAre DEF ReadReply, Follows, Peek, Words, TypeOK
  <2>2. /\ ~broken /\ Peek(reply) = reply[1]
    BY <2>1, PeekIs DEF CanPeek, Inv
  <2>3. CASE Peek(reply).kind = "sample"
    <3> DEFINE f == reply[1].frame
    <3>1. received' = Append(received, f) /\ f \in 1 .. frames /\ f \in Frames /\ f \in OnTheWire
      BY <1>1, <2>2, <2>3, SampleIsOfAFrame DEF ReadReply
    <3> HIDE DEF f
    <3>2. f \notin ToSet(received)
      BY <2>2, <3>1 DEF Inv, NothingTwice
    <3>3. Distinct(received') /\ ToSet(received') = ToSet(received) \cup {f}
      BY <2>1, <3>1, <3>2, OneMoreReceived
    <3>4. expects' = "samples" /\ UNCHANGED <<frames, input_state, ex>>
      BY <1>1, <2>3 DEF ReadReply, Follows
    <3>5. Distinct(received)'
      BY <3>3 DEF Distinct
    <3>6. ToSet(received)' = ToSet(received')
      OBVIOUS
    <3> QED
      BY <2>1, <3>1, <3>3, <3>4, <3>5, <3>6 DEF ClientHasAll
  <2>4. CASE Peek(reply).kind # "sample"
    <3>1. received' = received /\ UNCHANGED <<frames, input_state, ex>>
      BY <1>1, <2>4 DEF ReadReply
    <3>2. expects' = "eom" => reply[1].kind = "end"
      BY <1>1, <2>2 DEF ReadReply, Follows
    <3>3. expects' = "eom" => 1 .. frames \subseteq ToSet(received)
      BY <2>1, <2>2, <3>2, EndMeansAll
    <3> QED
      BY <2>1, <3>1, <3>3 DEF ClientHasAll, Distinct
  <2> QED
    BY <2>3, <2>4
<1>2. CASE OnReplyRead
  BY <1>2 DEF OnReplyRead, ClientHasAll, Distinct, network, server
<1>3. CASE OnReplyError \/ OnRequestError
  BY <1>3 DEF OnReplyError, OnRequestError, ClientHasAll, Distinct, network, server
<1>4. CASE DrainMessage
  BY <1>4 DEF DrainMessage, ClientHasAll, Distinct, server
<1>5. CASE ClientOutput
  BY <1>5 DEF ClientOutput, WriteRequest, WriteEom, ClientHasAll, Distinct, server
<1>6. CASE ServerStep \/ AbortServer \/ Break
  <2>1. UNCHANGED client
    BY <1>6
    DEF ServerStep, Read, Write, CreateSession, SampleHeaders, CheckEos, EncodeFrame, FlushSamples,
        CheckEom, DrainRequest, AbortServer, Break
  <2> QED
    BY <2>1 DEF client, ClientHasAll, Distinct
<1> QED
  BY <1>1, <1>2, <1>3, <1>4, <1>5, <1>6 DEF Next, ClientInput

-----------------------------------------------------------------------------
\* After the first call of flush() the server does not come back to the frames.
LEMMA FlushIsKept ==
  ASSUME Inv, Next
  PROVE  flush_called' => at' \in Flushing \cup Ending
<1>1. flush_called => at \in Flushing \cup Ending
  BY DEF Inv
<1>2. CASE ClientInput \/ ClientOutput \/ OnRequestError \/ Break
  BY <1>1, <1>2
  DEF ClientInput, ReadReply, OnReplyRead, OnReplyError, DrainMessage, ClientOutput, WriteRequest, WriteEom,
      OnRequestError, Break, server
<1>3. CASE Read
  BY <1>1, <1>3 DEF Read, Reads, Fail, GoTo, Flushing, Ending
<1>4. CASE Write
  BY <1>1, <1>4 DEF Write, Writes, GoTo, Flushing, Ending
<1>5. CASE CreateSession \/ SampleHeaders \/ AbortServer
  BY <1>1, <1>5 DEF CreateSession, SampleHeaders, AbortServer, GoTo, Fail, Flushing, Ending
<1>6. CASE CheckEos \/ CheckEom \/ DrainRequest
  BY <1>1, <1>6 DEF CheckEos, CheckEom, DrainRequest, GoTo, Fail, Flushing, Ending
<1>7. CASE EncodeFrame
  BY <1>1, <1>7 DEF EncodeFrame, Flushing, Ending
<1>8. CASE FlushSamples
  BY <1>8, FlushSamplesDoes DEF Inv, Flushing, Ending
<1> QED
  BY <1>2, <1>3, <1>4, <1>5, <1>6, <1>7, <1>8 DEF Next, ServerStep

-----------------------------------------------------------------------------
(***************************************************************************)
(* The request on the wire, and the server's place in it.                  *)
(***************************************************************************)
LEMMA TakenIsInt ==
  ASSUME TypeOK
  PROVE  /\ Taken \in Int /\ frames \in Nat /\ written \in Int
         /\ Taken = written + (IF output_state = "output_done" THEN 1 ELSE 0) - Len(request)
         /\ Len(request) \in Nat
<1>1. /\ request \in Seq(Tokens) /\ frames \in Nat
      /\ written \in 0 .. Len(Request(frames))
  BY EncodeCallAssumption DEF TypeOK
<1>2. Len(request) \in Nat /\ Len(Request(frames)) = frames + 3
  BY <1>1, RequestIs, LenProperties
<1> QED
  BY <1>1, <1>2 DEF Taken

\* Steps that neither write nor read the request.
LEMMA RequestUntouched ==
  ASSUME RequestInOrder, UNCHANGED <<request, frames, written>>,
         output_state' = "output_done" <=> output_state = "output_done"
  PROVE  RequestInOrder' /\ Taken' = Taken
BY DEF RequestInOrder, Taken

LEMMA RequestWritten ==
  ASSUME TypeOK, RequestInOrder, ~broken, ClientOutput
  PROVE  RequestInOrder' /\ Taken' = Taken
<1> DEFINE n == Len(request)
<1>1. /\ Taken \in Int /\ frames \in Nat /\ written \in Int /\ n \in Nat
      /\ request \in Seq(Tokens) /\ 0 <= Taken /\ DOMAIN request = 1 .. n
      /\ Taken = written - n /\ output_state # "output_done"
      /\ frames \in 0 .. MaxFrames /\ frames' = frames
  BY TakenIsInt, LenProperties
  DEF TypeOK, RequestInOrder, ClientOutput, WriteRequest, WriteEom, server
<1>2. \A i \in 1 .. n : request[i] = Request(frames)[Taken + i]
  BY <1>1 DEF RequestInOrder
<1>3. CASE WriteRequest
  <2> DEFINE t == Request(frames)[written + 1]
  <2>1. /\ request' = Append(request, t) /\ written' = written + 1
        /\ output_state' # "output_done"
    BY <1>3 DEF WriteRequest, Put
  <2>2. written + 1 \in 1 .. frames + 3
    BY SMTT(30), <1>1, <1>3, RequestIs DEF WriteRequest, TypeOK
  <2>3. t \in Tokens
    BY <1>1, <2>2, RequestHasTokens
  <2> HIDE DEF t
  <2>4. /\ Len(request') = n + 1 /\ DOMAIN request' = 1 .. n + 1
        /\ \A i \in 1 .. n : request'[i] = request[i]
        /\ request'[n + 1] = t
    BY <1>1, <2>1, <2>3, PutToken
  <2> HIDE DEF n
  <2>5. Taken' = Taken
    BY <1>1, <2>1, <2>4 DEF Taken
  <2>6. \A i \in 1 .. n + 1 : Taken + i <= written + 1
    BY <1>1
  <2>7. \A i \in 1 .. n + 1 : i \in 1 .. n \/ (i = n + 1 /\ Taken + i = written + 1)
    BY <1>1
  <2>8. \A i \in 1 .. n + 1 : request'[i] = Request(frames)[Taken + i]
    BY <1>2, <2>4, <2>7 DEF t
  <2> QED
    BY <1>1, <2>1, <2>4, <2>5, <2>6, <2>8 DEF RequestInOrder
<1>4. CASE WriteEom
  <2>1. /\ request' = Append(request, Word("eom")) /\ written' = written
        /\ output_state' = "output_done" /\ Word("eom") \in Tokens
    BY <1>4, TokensAre DEF WriteEom, Put, Words
  <2>4. /\ Len(request') = n + 1 /\ DOMAIN request' = 1 .. n + 1
        /\ \A i \in 1 .. n : request'[i] = request[i]
        /\ request'[n + 1] = Word("eom")
    BY <1>1, <2>1, PutToken
  <2> HIDE DEF n
  <2>5. Taken' = Taken
    BY <1>1, <2>1, <2>4 DEF Taken
  <2>6. \A i \in 1 .. n + 1 : (i \in 1 .. n /\ Taken + i <= written) \/ (i = n + 1 /\ ~(Taken + i <= written))
    BY <1>1
  <2>7. \A i \in 1 .. n + 1 :
          request'[i] = IF Taken + i <= written THEN Request(frames)[Taken + i] ELSE Word("eom")
    BY <1>2, <2>4, <2>6
  <2> QED
    BY <1>1, <2>1, <2>4, <2>5, <2>7 DEF RequestInOrder
<1> QED
  BY <1>3, <1>4 DEF ClientOutput

LEMMA RequestTaken ==
  ASSUME TypeOK, RequestInOrder, request # <<>>, request' = Tail(request),
         UNCHANGED <<frames, written, output_state>>
  PROVE  RequestInOrder' /\ Taken' = Taken + 1
<1> DEFINE n == Len(request)
<1>1. /\ Taken \in Int /\ frames \in Nat /\ written \in Int /\ n \in Nat /\ 1 <= n
      /\ 0 <= Taken /\ DOMAIN request = 1 .. n
      /\ Len(request') = n - 1 /\ DOMAIN request' = 1 .. n - 1
      /\ \A i \in 1 .. n - 1 : request'[i] = request[i + 1]
  BY TakenIsInt, TakeToken DEF TypeOK, RequestInOrder
<1>2. Taken' = Taken + 1
  BY <1>1, TakenIsInt DEF Taken
<1> HIDE DEF n
<1>3. \A i \in 1 .. n - 1 : i + 1 \in 1 .. n /\ Taken + 1 + i = Taken + (i + 1)
  BY <1>1
<1>4. \A i \in 1 .. n - 1 :
        request'[i] = IF Taken + 1 + i <= written THEN Request(frames)[Taken + 1 + i] ELSE Word("eom")
  BY <1>1, <1>3 DEF RequestInOrder
<1> QED
  BY <1>1, <1>2, <1>4 DEF RequestInOrder

\* What the first token on the wire tells of how many the server has got.
LEMMA FrontOfRequest ==
  ASSUME TypeOK, RequestInOrder, ~broken, CanPeek(request)
  PROVE  /\ request # <<>> /\ Peek(request) = request[1]
         /\ Peek(request).kind = "params" => Taken = 0
         /\ Peek(request).kind = "begin"  => Taken = 1
         /\ Peek(request).kind = "frame"  =>
              Peek(request).frame = Taken - 1 /\ Taken - 1 \in 1 .. frames
         /\ Peek(request).kind = "end"    => Taken = frames + 2
<1>1. /\ request \in Seq(Tokens) /\ frames \in 0 .. MaxFrames
      /\ written \in 0 .. frames + 3 /\ frames \in Nat /\ Taken \in Int /\ 0 <= Taken
  BY TakenIsInt, RequestIs DEF TypeOK, RequestInOrder
<1>2. request # <<>> /\ Peek(request) = request[1] /\ 1 \in DOMAIN request
  BY <1>1, PeekIs, TakeToken
<1> DEFINE t == request[1]
<1>3. t = IF Taken + 1 <= written THEN Request(frames)[Taken + 1] ELSE Word("eom")
  BY <1>2 DEF RequestInOrder
<1> HIDE DEF t
<1>4. CASE ~(Taken + 1 <= written)
  <2>1. t.kind = "eom"
    BY <1>3, <1>4, TokensAre DEF Words
  <2> QED
    BY <1>2, <2>1 DEF t
<1>5. CASE Taken + 1 <= written
  <2>1. t = Request(frames)[Taken + 1]
    BY <1>3, <1>5
  <2>2. \/ Taken = 0 /\ t = Word("params")
        \/ Taken = 1 /\ t = Word("begin")
        \/ Taken = frames + 2 /\ t = Word("end")
        \/ Taken - 1 \in 1 .. frames /\ t = Token("frame", Taken - 1)
    <3>1. Taken = 0 \/ Taken = 1 \/ Taken = frames + 2 \/ (Taken - 1 \in 1 .. frames /\ Taken + 1 = Taken - 1 + 2)
      BY <1>1, <1>5
    <3>2. Taken = frames + 2 => Taken + 1 = frames + 3
      BY <1>1
    <3>3. /\ Request(frames)[1] = Word("params") /\ Request(frames)[2] = Word("begin")
          /\ Request(frames)[frames + 3] = Word("end")
          /\ \A f \in 1 .. frames : Request(frames)[f + 2] = Token("frame", f)
      BY <1>1, RequestIs
    <3>4. CASE Taken - 1 \in 1 .. frames /\ Taken + 1 = Taken - 1 + 2
      <4> DEFINE f == Taken - 1
      <4>1. f \in 1 .. frames /\ Taken + 1 = f + 2
        BY <3>4
      <4> HIDE DEF f
      <4>2. t = Token("frame", f)
        BY <2>1, <3>3, <4>1
      <4> QED
        BY <4>1, <4>2 DEF f
    <3>5. CASE Taken = frames + 2
      <4>1. t = Request(frames)[frames + 3]
        BY <2>1, <3>2, <3>5
      <4> QED
        BY <3>3, <3>5, <4>1
    <3>6. CASE Taken = 0 \/ Taken = 1
      <4>1. (Taken = 0 => Taken + 1 = 1) /\ (Taken = 1 => Taken + 1 = 2)
        OBVIOUS
      <4> QED
        BY <2>1, <3>3, <3>6, <4>1
    <3> QED
      BY <3>1, <3>4, <3>5, <3>6
  <2>3. Taken - 1 \in 1 .. frames => Taken - 1 \in Frames
    BY <1>1, EncodeCallAssumption DEF Frames
  <2>4. \/ Taken = 0 /\ t.kind = "params"
        \/ Taken = 1 /\ t.kind = "begin"
        \/ Taken = frames + 2 /\ t.kind = "end"
        \/ Taken - 1 \in 1 .. frames /\ t.kind = "frame" /\ t.frame = Taken - 1
    BY <2>2, <2>3, TokensAre DEF Words
  <2> QED
    BY <1>2, <2>4 DEF t
<1> QED
  BY <1>4, <1>5

LEMMA RequestIsKept ==
  ASSUME Inv, Next, ~broken'
  PROVE  RequestInOrder' /\ ServerFollowsRequest'
<1>1. ~broken
  BY DEF Next, ClientInput, ReadReply, OnReplyRead, OnReplyError, DrainMessage, ClientOutput, WriteRequest,
         WriteEom, OnRequestError, ServerStep, Read, Write, CreateSession, SampleHeaders, CheckEos,
         EncodeFrame, FlushSamples, CheckEom, DrainRequest, AbortServer, Break, network
<1>2. TypeOK /\ RequestInOrder /\ ServerFollowsRequest
  BY <1>1 DEF Inv
<1>3. Taken \in Int /\ frames \in Nat
  BY <1>2, TakenIsInt
<1>4. CASE ClientInput \/ OnRequestError
  <2>1. UNCHANGED <<request, frames, written, at, hand>>
    BY <1>4
    DEF ClientInput, ReadReply, OnReplyRead, OnReplyError, DrainMessage, OnRequestError, network, server
  <2>2. output_state' = "output_done" <=> output_state = "output_done"
    BY <1>4
    DEF ClientInput, ReadReply, OnReplyRead, OnReplyError, DrainMessage, OnRequestError, network, server
  <2>3. RequestInOrder' /\ Taken' = Taken
    BY <1>2, <2>1, <2>2, RequestUntouched
  <2> QED
    BY <1>2, <2>1, <2>3 DEF ServerFollowsRequest
<1>5. CASE ClientOutput
  <2>1. UNCHANGED <<frames, at, hand>>
    BY <1>5 DEF ClientOutput, WriteRequest, WriteEom, server
  <2>2. RequestInOrder' /\ Taken' = Taken
    BY <1>1, <1>2, <1>5, RequestWritten
  <2> QED
    BY <1>2, <2>1, <2>2 DEF ServerFollowsRequest
<1>6. CASE Write \/ CreateSession \/ SampleHeaders \/ EncodeFrame \/ FlushSamples \/ CheckEom
  <2>1. UNCHANGED <<request, frames, written, output_state>>
    BY <1>6
    DEF Write, CreateSession, SampleHeaders, EncodeFrame, FlushSamples, CheckEom, network, client
  <2>2. RequestInOrder' /\ Taken' = Taken
    BY <1>2, <2>1, RequestUntouched
  <2>3. CASE Write
    <3>1. /\ at \in {"write_begin_sequence", "write_sample"} => Taken \in 2 .. frames + 2
          /\ at' = "check_eos" => at \in {"write_begin_sequence", "write_sample"}
          /\ at' # "encode_frame"
      BY <1>2, <1>3, <2>3 DEF Write, Writes, GoTo, ServerFollowsRequest, Encoding
    <3>2. /\ at' \in {"read_begin_sequence", "check_eos", "flush_samples", "check_eom", "write_eom", "drain_request"}
          /\ at' = "read_begin_sequence" => Taken = 1
          /\ at' \in {"flush_samples", "check_eom"} => Taken = frames + 3
      BY <1>2, <2>3 DEF Write, Writes, GoTo, ServerFollowsRequest, Flushing
    <3> QED
      BY <2>1, <2>2, <3>1, <3>2 DEF ServerFollowsRequest, Encoding, Flushing
  <2>4. CASE CreateSession \/ SampleHeaders \/ CheckEom
    BY <1>2, <2>1, <2>2, <2>4
    DEF CreateSession, SampleHeaders, CheckEom, Fail, GoTo, ServerFollowsRequest, Encoding, Flushing
  <2>5. CASE EncodeFrame
    <3>1. at = "encode_frame" /\ at' \in {"write_exception", "check_eos", "write_sample"}
      BY <1>2, <2>5, EncodeFrameDoes DEF EncodeFrame
    <3> QED
      BY <1>2, <2>1, <2>2, <3>1 DEF ServerFollowsRequest, Encoding, Flushing
  <2>6. CASE FlushSamples
    <3>1. at = "flush_samples" /\ at' \in {"write_exception", "write_end_sequence", "write_flushed"}
      BY <1>2, <2>6, FlushSamplesDoes DEF FlushSamples
    <3> QED
      BY <1>2, <2>1, <2>2, <3>1 DEF ServerFollowsRequest, Encoding, Flushing
  <2> QED
    BY <1>6, <2>3, <2>4, <2>5, <2>6
<1>7. CASE Read \/ CheckEos \/ DrainRequest
  <2>1. UNCHANGED <<frames, written, output_state>> /\ CanPeek(request)
    BY <1>7 DEF Read, Reads, CheckEos, DrainRequest, client
  <2>2. request # <<>> /\ Rest(request) = Tail(request)
    BY <1>1, <1>2, <2>1, FrontOfRequest DEF Rest
  <2>3. UNCHANGED request => RequestInOrder' /\ Taken' = Taken
    BY <1>2, <2>1, RequestUntouched
  <2>4. request' = Tail(request) => RequestInOrder' /\ Taken' = Taken + 1
    BY <1>2, <2>1, <2>2, RequestTaken
  <2>5. CASE Read
    <3>1. CASE UNCHANGED request /\ at' = "write_exception"
      BY <2>3, <3>1 DEF ServerFollowsRequest, Encoding, Flushing
    <3>2. CASE Reads("read_params", "params", "create_session") /\ request' = Tail(request)
      BY <1>1, <1>2, <2>1, <2>4, <3>2, FrontOfRequest
      DEF Reads, Fail, GoTo, ServerFollowsRequest, Encoding, Flushing
    <3>3. CASE Reads("read_begin_sequence", "begin", "write_begin_sequence") /\ request' = Tail(request)
      BY <1>1, <1>2, <2>1, <2>4, <3>3, FrontOfRequest
      DEF Reads, Fail, GoTo, ServerFollowsRequest, Encoding, Flushing
    <3>4. CASE /\ Reads("read_frame", "frame", "encode_frame") /\ hand' = Peek(request).frame
               /\ request' = Tail(request) /\ Peek(request).kind = "frame"
      <4>1. /\ hand' = Taken - 1 /\ Taken - 1 \in 1 .. frames
            /\ at' = "encode_frame" /\ Taken' = Taken + 1 /\ RequestInOrder'
        BY <1>1, <1>2, <2>1, <2>4, <3>4, FrontOfRequest DEF Reads, Fail, GoTo
      <4>2. Taken + 1 \in 2 .. frames + 2 /\ Taken + 1 > 2 /\ Taken - 1 = Taken + 1 - 2
        BY <1>3, <4>1
      <4>3. Taken' \in 2 .. frames + 2 /\ Taken' > 2 /\ hand' = Taken' - 2
        <5> DEFINE k == Taken + 1
        <5>1. k \in 2 .. frames + 2 /\ k > 2 /\ hand' = k - 2 /\ Taken' = k
          BY <1>3, <4>1, <4>2
        <5> HIDE DEF k
        <5> QED
          BY <5>1
      <4> QED
        BY <2>1, <4>1, <4>3 DEF ServerFollowsRequest, Flushing
    <3>5. request' = Tail(request) \/ (UNCHANGED request /\ at' = "write_exception")
      BY <2>5 DEF Read, Reads, Fail, GoTo
    <3>6. CASE request' = Tail(request) /\ ~(UNCHANGED request /\ at' = "write_exception")
      BY <2>5, <3>2, <3>3, <3>4, <3>6 DEF Read, Reads, Fail, GoTo
    <3> QED
      BY <3>1, <3>5, <3>6
  <2>6. CASE CheckEos
    <3>1. CASE Peek(request).kind = "end"
      <4>1. /\ Taken = frames + 2 /\ at' = "flush_samples" /\ Taken' = Taken + 1
            /\ RequestInOrder'
        BY <1>1, <1>2, <2>1, <2>4, <2>6, <3>1, FrontOfRequest DEF CheckEos, GoTo
      <4>2. Taken + 1 = frames + 3
        BY <1>3, <4>1
      <4> QED
        BY <2>1, <4>1, <4>2 DEF ServerFollowsRequest, Encoding, Flushing
    <3>2. CASE Peek(request).kind # "end"
      BY <1>2, <2>1, <2>3, <2>6, <3>2 DEF CheckEos, GoTo, ServerFollowsRequest, Encoding, Flushing
    <3> QED
      BY <3>1, <3>2
  <2>7. CASE DrainRequest
    BY <2>1, <2>2, <2>4, <2>7 DEF DrainRequest, GoTo, ServerFollowsRequest, Encoding, Flushing
  <2> QED
    BY <1>7, <2>5, <2>6, <2>7
<1>8. ~AbortServer /\ ~Break
  BY DEF AbortServer, Break
<1> QED
  BY <1>4, <1>5, <1>6, <1>7, <1>8 DEF Next, ServerStep

-----------------------------------------------------------------------------
(***************************************************************************)
(* The frames that the server has got, and what has become of them.        *)
(***************************************************************************)
\* What the invariant says of the samples while the connection holds.
Samples == NothingTwice /\ NothingLost /\ EndIsLast

LEMMA FramesReadAre ==
  ASSUME TypeOK
  PROVE  /\ UNCHANGED <<frames, Taken>> => FramesRead' = FramesRead
         /\ frames' = frames /\ Taken' = Taken + 1 =>
              /\ FramesRead \subseteq FramesRead'
              /\ Taken \in {0, 1} \/ frames + 2 <= Taken => FramesRead' = FramesRead
              /\ \A f \in 1 .. frames :
                   Taken = f + 1 => FramesRead' = FramesRead \cup {f} /\ f \notin FramesRead
         /\ frames + 3 <= Taken => FramesRead = 1 .. frames
<1>1. Taken \in Int /\ frames \in Nat
  BY TakenIsInt
<1> QED
  BY <1>1 DEF FramesRead

\* The client takes a token of the reply, and keeps it if it is a sample.
LEMMA ReplyTakenKeepsSamples ==
  ASSUME TypeOK, Samples, reply # <<>>, reply' = Tail(reply),
         UNCHANGED <<frames, Taken, at, hand, delayed>>,
         received \in Seq(Frames), reply[1].kind = "sample" => reply[1].frame \in Frames,
         \/ received' = received /\ (input_state' = "reading_reply" => reply[1].kind # "sample")
         \/ received' = Append(received, reply[1].frame) /\ reply[1].kind = "sample",
         input_state' = "reading_reply" => input_state = "reading_reply"
  PROVE  Samples'
<1> DEFINE n == Len(reply)
           f == reply[1].frame
<1>1. /\ reply \in Seq(Tokens) /\ n \in Nat /\ 1 <= n
      /\ DOMAIN reply = 1 .. n /\ DOMAIN reply' = 1 .. n - 1
      /\ \A i \in 1 .. n - 1 : reply'[i] = reply[i + 1]
  BY TakeToken DEF TypeOK
<1>2. /\ OnTheWire = OnTheWire' \cup IF reply[1].kind = "sample" THEN {f} ELSE {}
      /\ EndIsSent' => EndIsSent
  BY <1>1, ReplyRead
<1>3. FramesRead' = FramesRead /\ InHand' = InHand
  BY FramesReadAre DEF InHand
<1> HIDE DEF n, f
<1>4. \A i \in 1 .. n - 1 : i + 1 \in 1 .. n /\ i + 1 # 1 /\ SentAt(i)' = SentAt(i + 1)
  BY <1>1 DEF SentAt
<1>5. \A i, j \in 1 .. n : SentAt(i) /\ SentAt(j) /\ reply[i].frame = reply[j].frame => i = j
  BY <1>1 DEF Samples, NothingTwice
<1>6. \A i, j \in 1 .. n - 1 :
        SentAt(i)' /\ SentAt(j)' /\ reply'[i].frame = reply'[j].frame => i = j
  <2> SUFFICES ASSUME NEW i \in 1 .. n - 1, NEW j \in 1 .. n - 1,
                      SentAt(i)', SentAt(j)', reply'[i].frame = reply'[j].frame
               PROVE  i = j
    OBVIOUS
  <2>1. /\ i + 1 \in 1 .. n /\ SentAt(i + 1) /\ reply'[i] = reply[i + 1]
        /\ j + 1 \in 1 .. n /\ SentAt(j + 1) /\ reply'[j] = reply[j + 1]
    BY <1>1, <1>4
  <2>2. reply[i + 1].frame = reply[j + 1].frame
    BY <2>1
  <2>3. i + 1 = j + 1
    BY <1>5, <2>1, <2>2
  <2> QED
    BY <1>1, <2>3
<1>7. reply[1].kind = "sample" => f \notin OnTheWire'
  <2> SUFFICES ASSUME reply[1].kind = "sample", NEW i \in 1 .. n - 1, SentAt(i)', f = reply'[i].frame
               PROVE  FALSE
    BY <1>1 DEF OnTheWire
  <2>1. i + 1 \in 1 .. n /\ i + 1 # 1 /\ SentAt(i + 1) /\ reply[i + 1].frame = f /\ 1 \in 1 .. n
    BY <1>1, <1>4
  <2>2. SentAt(1) /\ reply[1].frame = f
    BY DEF SentAt, f
  <2> QED
    BY <1>5, <2>1, <2>2
<1>8. \/ ToSet(received') = ToSet(received) /\ (input_state' = "reading_reply" => OnTheWire' = OnTheWire)
      \/ /\ ToSet(received') = ToSet(received) \cup {f} /\ OnTheWire = OnTheWire' \cup {f}
         /\ f \notin OnTheWire'
  BY <1>2, <1>7, OneMoreReceived DEF f
<1>9. ToSet(received)' = ToSet(received') /\ OnTheWire' \subseteq OnTheWire
  BY <1>2
<1>10. NothingTwice'
  BY <1>1, <1>3, <1>6, <1>8, <1>9 DEF Samples, NothingTwice
<1>11. NothingLost'
  BY <1>2, <1>3, <1>8, <1>9 DEF Samples, NothingLost
<1>12. EndIsLast'
  <2>1. \A i, j \in 1 .. n - 1 : i < j /\ reply'[i].kind = "end" => ~SentAt(j)'
    <3> SUFFICES ASSUME NEW i \in 1 .. n - 1, NEW j \in 1 .. n - 1, i < j, reply'[i].kind = "end"
                 PROVE  ~SentAt(j)'
      OBVIOUS
    <3>1. i + 1 < j + 1 /\ i + 1 \in 1 .. n /\ j + 1 \in 1 .. n /\ reply[i + 1].kind = "end"
      BY <1>1
    <3> QED
      BY <1>1, <1>4, <3>1 DEF Samples, EndIsLast
  <2> QED
    BY <1>1, <1>2, <2>1 DEF Samples, EndIsLast
<1> QED
  BY <1>10, <1>11, <1>12 DEF Samples

\* Steps that leave the reply alone.
LEMMA ReplyUntouchedKeepsSamples ==
  ASSUME TypeOK, Samples, UNCHANGED <<frames, reply, received>>,
         input_state' = "reading_reply" => input_state = "reading_reply",
         NEW Got, FramesRead' = FramesRead \cup Got, Got \cap FramesRead = {}, Taken <= Taken', Taken' \in Int,
         InHand' \cup delayed' \subseteq InHand \cup delayed \cup Got,
         InHand' \cap delayed' = {},
         at' \notin Ending => at \notin Ending,
         at' \notin Ending \/ EndIsSent => InHand \cup delayed \cup Got \subseteq InHand' \cup delayed',
         at' \in {"write_end_sequence", "check_eom"} => delayed' = {},
         EndIsSent => at' \in Ending \cup {"check_eom"} /\ delayed' = {}
  PROVE  Samples'
<1>1. /\ OnTheWire' = OnTheWire /\ ToSet(received)' = ToSet(received) /\ (EndIsSent' <=> EndIsSent)
      /\ \A i \in DOMAIN reply : SentAt(i)' <=> SentAt(i)
  BY DEF OnTheWire, EndIsSent, SentAt
<1>2. NothingTwice'
  BY <1>1 DEF Samples, NothingTwice
<1>3. NothingLost'
  BY <1>1 DEF Samples, NothingLost
<1>4. EndIsLast'
  <2>1. Taken \in Int /\ frames \in Nat
    BY TakenIsInt
  <2>2. frames + 3 <= Taken => frames' + 3 <= Taken'
    BY <2>1
  <2> QED
    BY <1>1, <2>2 DEF Samples, EndIsLast
<1> QED
  BY <1>2, <1>3, <1>4 DEF Samples

\* The server writes a token of the reply.
LEMMA ReplyWrittenKeepsSamples ==
  ASSUME TypeOK, Samples, NEW t \in Tokens, reply' = Append(reply, t),
         UNCHANGED <<frames, Taken, received, input_state, delayed>>,
         IF t.kind = "sample" THEN InHand = {t.frame} ELSE InHand = {},
         InHand' = {},
         t.kind = "sample" => ~EndIsSent,
         at' \notin Ending => at \notin Ending,
         t.kind = "end" => ~EndIsSent /\ delayed = {} /\ frames + 3 <= Taken /\ at \notin Ending,
         EndIsSent \/ t.kind = "end" => at' \in Ending \cup {"check_eom"},
         at' \in {"write_end_sequence", "check_eom"} => delayed = {}
  PROVE  Samples'
<1> DEFINE n == Len(reply)
<1>1. /\ reply \in Seq(Tokens) /\ n \in Nat /\ DOMAIN reply = 1 .. n /\ DOMAIN reply' = 1 .. n + 1
      /\ \A i \in 1 .. n : reply'[i] = reply[i]
      /\ reply'[n + 1] = t
  BY PutToken DEF TypeOK
<1>2. /\ OnTheWire' = OnTheWire \cup (IF t.kind = "sample" THEN {t.frame} ELSE {})
      /\ EndIsSent' <=> EndIsSent \/ t.kind = "end"
  BY <1>1, ReplyWritten
<1> HIDE DEF n
<1>3. FramesRead' = FramesRead /\ ToSet(received)' = ToSet(received)
  BY FramesReadAre
<1>4. OnTheWire' = OnTheWire \cup InHand
  BY <1>2
<1>5. \A i \in 1 .. n + 1 : \/ i \in 1 .. n /\ SentAt(i)' = SentAt(i) /\ reply'[i] = reply[i]
                            \/ i = n + 1 /\ reply'[i] = t /\ SentAt(i)' = (t.kind = "sample")
  BY <1>1 DEF SentAt
<1>6. \A i, j \in 1 .. n + 1 :
        SentAt(i)' /\ SentAt(j)' /\ reply'[i].frame = reply'[j].frame => i = j
  <2>1. \A i \in 1 .. n : SentAt(i) => reply[i].frame \in OnTheWire
    BY <1>1 DEF OnTheWire
  <2>2. t.kind = "sample" => t.frame \notin OnTheWire
    BY DEF Samples, NothingTwice
  <2>3. \A i, j \in 1 .. n : SentAt(i) /\ SentAt(j) /\ reply[i].frame = reply[j].frame => i = j
    BY <1>1 DEF Samples, NothingTwice
  <2> QED
    BY <1>5, <2>1, <2>2, <2>3
<1>7. NothingTwice'
  BY <1>1, <1>3, <1>4, <1>6 DEF Samples, NothingTwice
<1>8. NothingLost'
  BY <1>2, <1>3, <1>4 DEF Samples, NothingLost
<1>9. EndIsLast'
  <2>1. \A i, j \in 1 .. n + 1 : i < j /\ reply'[i].kind = "end" => ~SentAt(j)'
    <3> SUFFICES ASSUME NEW i \in 1 .. n + 1, NEW j \in 1 .. n + 1, i < j, reply'[i].kind = "end"
                 PROVE  ~SentAt(j)'
      OBVIOUS
    <3>1. i \in 1 .. n /\ reply[i].kind = "end"
      BY <1>1
    <3>2. EndIsSent
      BY <1>1, <3>1 DEF EndIsSent
    <3>3. CASE j \in 1 .. n
      BY SMTT(30), <1>1, <1>5, <3>1, <3>3 DEF Samples, EndIsLast, SentAt
    <3>4. CASE j = n + 1
      BY <1>1, <3>2, <3>4 DEF SentAt
    <3> QED
      BY <1>1, <3>3, <3>4
  <2>2. EndIsSent' => at' \in Ending \cup {"check_eom"} /\ delayed' = {} /\ frames' + 3 <= Taken'
    BY <1>2 DEF Samples, EndIsLast
  <2> QED
    BY <1>1, <2>1, <2>2 DEF EndIsLast
<1> QED
  BY <1>7, <1>8, <1>9 DEF Samples

LEMMA SamplesAreKept ==
  ASSUME Inv, Next, ~broken'
  PROVE  Samples'
<1>1. ~broken /\ ~AbortServer /\ ~Break
  BY DEF Next, ClientInput, ReadReply, OnReplyRead, OnReplyError, DrainMessage, ClientOutput, WriteRequest,
         WriteEom, OnRequestError, ServerStep, Read, Write, CreateSession, SampleHeaders, CheckEos,
         EncodeFrame, FlushSamples, CheckEom, DrainRequest, AbortServer, Break, network
<1>2. TypeOK /\ RequestInOrder /\ ServerFollowsRequest /\ Samples
  BY <1>1 DEF Inv, Samples
<1>3. /\ Taken \in Int /\ frames \in Nat /\ received \in Seq(Frames) /\ reply \in Seq(Tokens)
      /\ NothingTwice /\ NothingLost /\ EndIsLast
  BY <1>2, TakenIsInt DEF TypeOK, Samples
<1>4. reply # <<>> /\ reply[1].kind = "sample" => reply[1].frame \in Frames
  BY <1>3, TakeToken DEF Tokens, Words
<1>5. CASE ReadReply \/ OnReplyError \/ DrainMessage
  <2>1. UNCHANGED <<request, frames, written, at, hand, delayed>> /\ CanPeek(reply)
    BY <1>5 DEF ReadReply, OnReplyError, DrainMessage, server
  <2>2. output_state' = "output_done" <=> output_state = "output_done"
    BY <1>5 DEF ReadReply, OnReplyError, DrainMessage
  <2>3. Taken' = Taken
    BY <1>2, <2>1, <2>2, RequestUntouched
  <2>4. reply # <<>> /\ Peek(reply) = reply[1] /\ Rest(reply) = Tail(reply)
    BY <1>1, <1>3, <2>1, PeekIs DEF Rest
  <2>5. CASE reply' = Tail(reply)
    <3>1. \/ received' = received /\ (input_state' = "reading_reply" => reply[1].kind # "sample")
          \/ received' = Append(received, reply[1].frame) /\ reply[1].kind = "sample"
      BY <1>5, <2>4 DEF ReadReply, OnReplyError, DrainMessage
    <3>2. input_state' = "reading_reply" => input_state = "reading_reply"
      BY <1>5 DEF ReadReply, OnReplyError, DrainMessage
    <3> QED
      BY <1>2, <1>3, <1>4, <2>1, <2>3, <2>4, <2>5, <3>1, <3>2, ReplyTakenKeepsSamples
  <2>6. CASE reply' # Tail(reply)
    <3>1. OnReplyError /\ reply' = reply /\ received' = received /\ input_state' = "draining_message"
      BY <1>5, <2>4, <2>6 DEF ReadReply, OnReplyError, DrainMessage
    <3>2. /\ OnTheWire' = OnTheWire /\ ToSet(received)' = ToSet(received) /\ (EndIsSent' <=> EndIsSent)
          /\ InHand' = InHand /\ FramesRead' = FramesRead
          /\ \A i \in DOMAIN reply : SentAt(i)' <=> SentAt(i)
      BY <2>1, <2>3, <3>1 DEF OnTheWire, EndIsSent, SentAt, InHand, FramesRead
    <3>3. NothingTwice'
      BY <1>3, <2>1, <3>1, <3>2 DEF NothingTwice
    <3>4. NothingLost' /\ EndIsLast'
      BY <1>3, <2>1, <2>3, <3>1, <3>2 DEF NothingLost, EndIsLast
    <3> QED
      BY <3>3, <3>4 DEF Samples
  <2> QED
    BY <2>5, <2>6
<1> DEFINE SamplesStay(Got) ==
      /\ UNCHANGED <<frames, reply, received>>
      /\ input_state' = "reading_reply" => input_state = "reading_reply"
      /\ FramesRead' = FramesRead \cup Got /\ Got \cap FramesRead = {} /\ Taken <= Taken' /\ Taken' \in Int
      /\ InHand' \cup delayed' \subseteq InHand \cup delayed \cup Got
      /\ InHand' \cap delayed' = {}
      /\ at' \notin Ending => at \notin Ending
      /\ at' \notin Ending \/ EndIsSent => InHand \cup delayed \cup Got \subseteq InHand' \cup delayed'
      /\ at' \in {"write_end_sequence", "check_eom"} => delayed' = {}
      /\ EndIsSent => at' \in Ending \cup {"check_eom"} /\ delayed' = {}
<1>6. ASSUME NEW Got, SamplesStay(Got)
      PROVE  Samples'
  BY <1>2, <1>6, ReplyUntouchedKeepsSamples
<1>7. CASE OnReplyRead \/ OnRequestError \/ ClientOutput
  <2>1. UNCHANGED <<frames, reply, received, at, hand, delayed>> /\ Taken' = Taken
    <3>1. CASE OnReplyRead \/ OnRequestError
      <4>1. /\ UNCHANGED <<request, frames, written, reply, received, at, hand, delayed>>
            /\ output_state' = "output_done" <=> output_state = "output_done"
        BY <3>1 DEF OnReplyRead, OnRequestError, network, server
      <4> QED
        BY <1>2, <4>1, RequestUntouched
    <3>2. CASE ClientOutput
      BY <1>1, <1>2, <3>2, RequestWritten DEF ClientOutput, WriteRequest, WriteEom, server
    <3> QED
      BY <1>7, <3>1, <3>2
  <2>2. input_state' = "reading_reply" => input_state = "reading_reply"
    BY <1>7 DEF OnReplyRead, OnRequestError, ClientOutput, WriteRequest, WriteEom
  <2>3. InHand' = InHand /\ FramesRead' = FramesRead
    BY <2>1 DEF InHand, FramesRead
  <2>4. SamplesStay({})
    BY <1>3, <2>1, <2>2, <2>3 DEF NothingTwice, EndIsLast
  <2> QED
    BY <1>6, <2>4
<1>8. CASE CreateSession \/ SampleHeaders \/ CheckEom \/ EncodeFrame \/ FlushSamples
  <2>1. UNCHANGED <<request, frames, written, output_state, reply, received, input_state>>
    BY <1>8 DEF CreateSession, SampleHeaders, CheckEom, EncodeFrame, FlushSamples, network, client
  <2>2. Taken' = Taken /\ FramesRead' = FramesRead
    BY <1>2, <2>1, RequestUntouched DEF FramesRead
  <2>3. CASE CreateSession \/ SampleHeaders \/ CheckEom
    <3>1. /\ UNCHANGED delayed /\ InHand = {} /\ InHand' = {} /\ at \notin Ending
          /\ at' \notin {"write_end_sequence", "check_eom"}
          /\ at = "check_eom" => at' \in Ending
      BY <2>3 DEF CreateSession, SampleHeaders, CheckEom, GoTo, Fail, InHand, Handling, Ending
    <3>2. SamplesStay({})
      BY <1>3, <2>1, <2>2, <3>1 DEF NothingTwice, EndIsLast
    <3> QED
      BY <1>6, <3>2
  <2>4. CASE EncodeFrame
    <3>1. at = "encode_frame" /\ InHand = {hand} /\ ~EndIsSent /\ at \notin Ending
      BY <1>3, <2>4 DEF EncodeFrame, InHand, Handling, EndIsLast, Ending
    <3>2. \/ at' = "write_exception" /\ InHand' = {} /\ delayed' = delayed
          \/ at' = "check_eos" /\ InHand' = {} /\ delayed' = delayed \cup {hand}
          \/ /\ at' = "write_sample" /\ InHand' = {hand'} /\ hand' \in delayed \cup {hand}
             /\ delayed' = (delayed \cup {hand}) \ {hand'}
      BY <1>2, <2>4, EncodeFrameDoes DEF InHand, Handling
    <3>3. SamplesStay({})
      BY <1>3, <2>1, <2>2, <3>1, <3>2 DEF Ending
    <3> QED
      BY <1>6, <3>3
  <2>5. CASE FlushSamples
    <3>1. at = "flush_samples" /\ InHand = {} /\ ~EndIsSent /\ at \notin Ending
      BY <1>3, <2>5 DEF FlushSamples, InHand, Handling, EndIsLast, Ending
    <3>2. \/ at' = "write_exception" /\ InHand' = {} /\ delayed' = delayed
          \/ at' = "write_end_sequence" /\ InHand' = {} /\ delayed' = delayed /\ delayed = {}
          \/ /\ at' = "write_flushed" /\ InHand' = {hand'} /\ hand' \in delayed
             /\ delayed' = delayed \ {hand'}
      BY <1>2, <2>5, FlushSamplesDoes DEF InHand, Handling
    <3>3. SamplesStay({})
      BY <1>3, <2>1, <2>2, <3>1, <3>2 DEF Ending
    <3> QED
      BY <1>6, <3>3
  <2> QED
    BY <1>8, <2>3, <2>4, <2>5
<1>9. CASE Read \/ CheckEos \/ DrainRequest
  <2>1. UNCHANGED <<frames, written, output_state, reply, received, input_state, delayed>> /\ CanPeek(request)
    BY <1>9 DEF Read, Reads, CheckEos, DrainRequest, client
  <2>2. request # <<>> /\ Rest(request) = Tail(request)
    BY <1>1, <1>2, <2>1, FrontOfRequest DEF Rest
  <2>3. UNCHANGED request => Taken' = Taken /\ FramesRead' = FramesRead
    BY <1>2, <2>1, RequestUntouched DEF FramesRead
  <2>4. request' = Tail(request) => Taken' = Taken + 1
    BY <1>2, <2>1, <2>2, RequestTaken
  <2>5. CASE DrainRequest
    <3>1. at \in Ending /\ at' \in Ending /\ InHand = {} /\ InHand' = {} /\ Taken' = Taken + 1
      BY <2>2, <2>4, <2>5 DEF DrainRequest, GoTo, Ending, InHand, Handling
    <3>2. FramesRead \subseteq FramesRead' /\ (frames + 3 <= Taken => FramesRead' = FramesRead)
      BY <1>2, <1>3, <2>1, <3>1, FramesReadAre
    <3> DEFINE Got == FramesRead' \ FramesRead
    <3>3. /\ FramesRead' = FramesRead \cup Got /\ Got \cap FramesRead = {}
          /\ EndIsSent => Got = {}
      BY <1>3, <3>2 DEF EndIsLast
    <3> HIDE DEF Got
    <3>4. SamplesStay(Got)
      BY <1>3, <2>1, <3>1, <3>3 DEF NothingTwice, EndIsLast, Ending
    <3> QED
      BY <1>6, <3>4
  <2>6. CASE Read \/ CheckEos
    <3>1. ~EndIsSent /\ InHand = {} /\ at \notin Ending
      BY <1>3, <2>6 DEF Read, Reads, CheckEos, EndIsLast, Ending, InHand, Handling
    <3>2. at' \notin {"write_end_sequence", "check_eom"}
      BY <2>6 DEF Read, Reads, CheckEos, GoTo, Fail
    <3>3. CASE at' = "encode_frame"
      <4>1. /\ Peek(request).kind = "frame" /\ request' = Tail(request) /\ hand' = Peek(request).frame
        BY <2>6, <3>3 DEF Read, Reads, CheckEos, GoTo, Fail
      <4>2. hand' = Taken - 1 /\ Taken - 1 \in 1 .. frames /\ Taken' = Taken + 1
        BY <1>1, <1>2, <2>1, <2>4, <4>1, FrontOfRequest
      <4> DEFINE f == Taken - 1
      <4>3. f \in 1 .. frames /\ Taken = f + 1 /\ hand' = f
        BY <1>3, <4>2
      <4> HIDE DEF f
      <4>4. FramesRead' = FramesRead \cup {f} /\ f \notin FramesRead
        BY <1>2, <2>1, <4>2, <4>3, FramesReadAre
      <4>5. InHand' = {f} /\ f \notin delayed
        BY <1>3, <3>3, <4>3, <4>4 DEF InHand, Handling, NothingTwice
      <4>6. Taken <= Taken' /\ Taken' \in Int
        BY <1>3, <4>2
      <4>7. SamplesStay({f})
        BY <2>1, <3>1, <3>2, <4>4, <4>5, <4>6
      <4> QED
        BY <1>6, <4>7
    <3>4. CASE at' # "encode_frame"
      <4>1. InHand' = {}
        BY <2>6, <3>4 DEF Read, Reads, CheckEos, GoTo, Fail, InHand, Handling
      <4>2. \/ UNCHANGED request
            \/ request' = Tail(request) /\ Peek(request).kind \in {"params", "begin", "end"}
        BY <2>6, <3>4 DEF Read, Reads, CheckEos, GoTo, Fail
      <4>3. \/ Taken' = Taken /\ FramesRead' = FramesRead
            \/ Taken' = Taken + 1 /\ (Taken \in {0, 1} \/ frames + 2 <= Taken)
        BY <1>1, <1>2, <1>3, <2>1, <2>3, <2>4, <4>2, FrontOfRequest
      <4>4. FramesRead' = FramesRead /\ Taken <= Taken' /\ Taken' \in Int
        BY <1>2, <1>3, <2>1, <4>3, FramesReadAre
      <4>5. SamplesStay({})
        BY <2>1, <3>1, <3>2, <4>1, <4>4
      <4> QED
        BY <1>6, <4>5
    <3> QED
      BY <3>3, <3>4
  <2> QED
    BY <1>9, <2>5, <2>6
<1>10. CASE Write
  <2>1. UNCHANGED <<request, frames, written, output_state, received, input_state, delayed>>
    BY <1>10 DEF Write, client
  <2>2. Taken' = Taken
    BY <1>2, <2>1, RequestUntouched
  <2>3. ASSUME NEW step, NEW t \in Tokens, NEW next, Writes(step, t, next)
        PROVE  at = step /\ at' = next /\ reply' = Append(reply, t)
    BY <1>1, <2>3 DEF Writes, Put, GoTo
  <2>4. \A w \in Words : Word(w) \in Tokens /\ Word(w).kind = w
    BY TokensAre
  <2>5. at \in Handling =>
          Token("sample", hand) \in Tokens /\ Token("sample", hand).kind = "sample"
          /\ Token("sample", hand).frame = hand
    BY <1>2, TokensAre DEF TypeOK
  <2>6. at \in Flushing => frames + 3 <= Taken
    BY <1>2, <1>3 DEF ServerFollowsRequest
  <2>7. EndIsSent => at \in Ending \cup {"check_eom"}
    BY <1>3 DEF EndIsLast
  <2>8. at \in {"write_end_sequence", "check_eom"} => delayed = {}
    BY <1>3 DEF EndIsLast
  <2> DEFINE Puts(t) ==
        /\ t \in Tokens /\ reply' = Append(reply, t)
        /\ IF t.kind = "sample" THEN InHand = {t.frame} ELSE InHand = {}
        /\ InHand' = {}
        /\ t.kind = "sample" => ~EndIsSent
        /\ at' \notin Ending => at \notin Ending
        /\ t.kind = "end" => ~EndIsSent /\ delayed = {} /\ frames + 3 <= Taken /\ at \notin Ending
        /\ EndIsSent \/ t.kind = "end" => at' \in Ending \cup {"check_eom"}
        /\ at' \in {"write_end_sequence", "check_eom"} => delayed = {}
  <2>9. ASSUME NEW t, Puts(t)
        PROVE  Samples'
    BY <1>2, <2>1, <2>2, <2>9, ReplyWrittenKeepsSamples
  <2>10. CASE Writes("write_headers", Word("headers"), "read_begin_sequence")
    <3>1. /\ at = "write_headers" /\ at' = "read_begin_sequence" /\ reply' = Append(reply, Word("headers"))
          /\ Word("headers") \in Tokens /\ Word("headers").kind = "headers"
      BY <2>3, <2>4, <2>10 DEF Words
    <3>2. InHand = {} /\ InHand' = {} /\ (EndIsSent => at' \in Ending) /\ (at \in Ending <=> at' \in Ending)
      BY <2>7, <3>1 DEF InHand, Handling, Ending
    <3>3. Puts(Word("headers"))
      BY <3>1, <3>2
    <3> QED
      BY <2>9, <3>3
  <2>11. CASE Writes("write_begin_sequence", Word("begin"), "check_eos")
    <3>1. /\ at = "write_begin_sequence" /\ at' = "check_eos" /\ reply' = Append(reply, Word("begin"))
          /\ Word("begin") \in Tokens /\ Word("begin").kind = "begin"
      BY <2>3, <2>4, <2>11 DEF Words
    <3>2. InHand = {} /\ InHand' = {} /\ (EndIsSent => at' \in Ending) /\ (at \in Ending <=> at' \in Ending)
      BY <2>7, <3>1 DEF InHand, Handling, Ending
    <3>3. Puts(Word("begin"))
      BY <3>1, <3>2
    <3> QED
      BY <2>9, <3>3
  <2>12. CASE \/ Writes("write_sample", Token("sample", hand), "check_eos")
              \/ Writes("write_flushed", Token("sample", hand), "flush_samples")
    <3>1. at \in Handling
      BY <2>12 DEF Writes, Handling
    <3>2. /\ reply' = Append(reply, Token("sample", hand)) /\ at' \in {"check_eos", "flush_samples"}
          /\ Token("sample", hand) \in Tokens /\ Token("sample", hand).kind = "sample"
          /\ Token("sample", hand).frame = hand
      BY <2>3, <2>5, <2>12, <3>1
    <3>3. InHand = {hand} /\ InHand' = {} /\ ~EndIsSent /\ at \notin Ending
      BY <2>7, <3>1, <3>2 DEF InHand, Handling, Ending
    <3>4. Puts(Token("sample", hand))
      BY <3>2, <3>3
    <3> QED
      BY <2>9, <3>4
  <2>13. CASE Writes("write_end_sequence", Word("end"), "check_eom")
    <3>1. at = "write_end_sequence" /\ at' = "check_eom" /\ reply' = Append(reply, Word("end"))
      BY <2>3, <2>4, <2>13 DEF Words
    <3>2. delayed = {} /\ frames + 3 <= Taken /\ ~EndIsSent /\ at \notin Ending
      BY <2>6, <2>7, <2>8, <3>1 DEF Flushing, Ending
    <3>3. InHand = {} /\ InHand' = {}
      BY <3>1 DEF InHand, Handling
    <3>4. Puts(Word("end"))
      BY <2>4, <3>1, <3>2, <3>3 DEF Words
    <3> QED
      BY <2>9, <3>4
  <2>14. CASE Writes("write_exception", Word("error"), "write_eom")
    <3>1. /\ at = "write_exception" /\ at' = "write_eom" /\ reply' = Append(reply, Word("error"))
          /\ Word("error") \in Tokens /\ Word("error").kind = "error"
      BY <2>3, <2>4, <2>14 DEF Words
    <3>2. InHand = {} /\ InHand' = {} /\ (EndIsSent => at' \in Ending) /\ (at \in Ending <=> at' \in Ending)
      BY <2>7, <3>1 DEF InHand, Handling, Ending
    <3>3. Puts(Word("error"))
      BY <3>1, <3>2
    <3> QED
      BY <2>9, <3>3
  <2>15. CASE Writes("write_eom", Word("eom"), "drain_request")
    <3>1. /\ at = "write_eom" /\ at' = "drain_request" /\ reply' = Append(reply, Word("eom"))
          /\ Word("eom") \in Tokens /\ Word("eom").kind = "eom"
      BY <2>3, <2>4, <2>15 DEF Words
    <3>2. InHand = {} /\ InHand' = {} /\ (EndIsSent => at' \in Ending) /\ (at \in Ending <=> at' \in Ending)
      BY <2>7, <3>1 DEF InHand, Handling, Ending
    <3>3. Puts(Word("eom"))
      BY <3>1, <3>2
    <3> QED
      BY <2>9, <3>3
  <2> QED
    BY <1>10, <2>10, <2>11, <2>12, <2>13, <2>14, <2>15 DEF Write
<1> QED
  BY <1>1, <1>5, <1>7, <1>8, <1>9, <1>10 DEF Next, ServerStep, ClientInput

-----------------------------------------------------------------------------
LEMMA EncodeStarts == Init => Inv
<1> SUFFICES ASSUME Init
             PROVE  Inv
  OBVIOUS
<1>1. /\ <<>> \in Seq(Tokens) /\ <<>> \in Seq(Frames) /\ Len(<<>>) = 0 /\ ToSet(<<>>) = {}
      /\ DOMAIN <<>> = {}
  BY DEF ToSet
<1>2. Cardinality({}) = 0
  BY FS_EmptySet
<1>3. frames \in 0 .. MaxFrames /\ frames \in Nat /\ Len(Request(frames)) = frames + 3
  BY EncodeCallAssumption, RequestIs DEF Init
<1>4. TypeOK
  <2>1. /\ 0 \in 0 .. MaxFrames /\ 0 <= WireSize
        /\ 0 \in 0 .. Len(Request(frames)) /\ 0 # Len(Request(frames))
    BY <1>3, EncodeCallAssumption
  <2> QED
    BY <1>1, <1>3, <2>1 DEF Init, TypeOK, Steps, Handling
<1>5. SamplesMatchFrames /\ FlushIsLast /\ ClientHasAll
  BY <1>1, <1>2 DEF Init, SamplesMatchFrames, Succeeded, FlushIsLast, ClientHasAll
<1>6. Taken = 0
  <2>1. written = 0 /\ output_state # "output_done" /\ Len(request) = 0
    BY <1>1 DEF Init
  <2> QED
    BY <2>1 DEF Taken
<1>7. FramesRead = {} /\ InHand = {} /\ OnTheWire = {} /\ ~EndIsSent
  BY <1>1, <1>3, <1>6 DEF Init, FramesRead, InHand, OnTheWire, EndIsSent, Handling
<1>8. RequestInOrder /\ ServerFollowsRequest
  BY <1>1, <1>6 DEF Init, RequestInOrder, ServerFollowsRequest, Encoding, Flushing
<1>9. NothingTwice /\ NothingLost /\ EndIsLast
  BY <1>1, <1>7 DEF Init, NothingTwice, NothingLost, EndIsLast
<1> QED
  BY <1>4, <1>5, <1>8, <1>9 DEF Init, Inv

LEMMA EncodeStepsKeepInv == Inv /\ [Next]_vars => Inv'
<1>1. ASSUME Inv, Next
      PROVE  Inv'
  <2>1. TypeOK'
    BY <1>1, TypeIsKept
  <2>2. received \in Seq(Frames) /\ received' \in Seq(Frames)
    BY <1>1, <2>1 DEF Inv, TypeOK
  <2>3. Distinct(received)
    BY <1>1, <2>2, DistinctIsCounted DEF Inv, SamplesMatchFrames
  <2>4. Distinct(received)' /\ ClientHasAll'
    BY <1>1, <2>3, ClientIsKept
  <2>5. Distinct(received')
    BY <2>4 DEF Distinct
  <2>6. Cardinality(ToSet(received')) = Len(received')
    BY <2>2, <2>5, DistinctIsCounted
  <2>7. SamplesMatchFrames'
    BY <2>4, <2>6 DEF SamplesMatchFrames, Succeeded, ClientHasAll
  <2>8. flush_called' => at' \in Flushing \cup Ending
    BY <1>1, FlushIsKept
  <2>9. FlushIsLast'
    BY <2>8 DEF FlushIsLast, Flushing, Ending
  <2>10. ~broken' => (RequestInOrder /\ ServerFollowsRequest /\ NothingTwice /\ NothingLost /\ EndIsLast)'
    BY <1>1, RequestIsKept, SamplesAreKept DEF Samples
  <2>11. broken' => request' = <<>> /\ reply' = <<>>
    <3>1. request \in Seq(Tokens) /\ reply \in Seq(Tokens) /\ (broken => request = <<>> /\ reply = <<>>)
      BY <1>1 DEF Inv, TypeOK
    <3>2. CASE Break \/ AbortServer
      BY <3>2 DEF Break, AbortServer
    <3>3. CASE ~Break /\ ~AbortServer
      <4>1. broken' = broken
        BY <1>1, <3>3
        DEF Next, ClientInput, ReadReply, OnReplyRead, OnReplyError, DrainMessage, ClientOutput, WriteRequest,
            WriteEom, OnRequestError, ServerStep, Read, Write, CreateSession, SampleHeaders, CheckEos,
            EncodeFrame, FlushSamples, CheckEom, DrainRequest, network
      <4>2. SUFFICES ASSUME broken, request = <<>>, reply = <<>>
                     PROVE  request' = <<>> /\ reply' = <<>>
        BY <3>1, <4>1
      <4>3. Peek(request).kind = "eof" /\ Peek(reply).kind = "eof"
        BY <4>2, TokensAre DEF Peek, Words
      <4>4. Rest(request) = request /\ Rest(reply) = reply /\ \A t : Put(request, t) = request /\ Put(reply, t) = reply
        BY <4>2 DEF Rest, Put
      <4>5. UNCHANGED <<request, reply>>
        <5>1. CASE ClientInput \/ OnRequestError
          BY <4>3, <4>4, <5>1
          DEF ClientInput, ReadReply, OnReplyRead, OnReplyError, DrainMessage, OnRequestError, network, Follows
        <5>2. CASE ClientOutput \/ Write
          BY <4>4, <5>2 DEF ClientOutput, WriteRequest, WriteEom, Write, Writes
        <5>3. CASE Read \/ CheckEos \/ DrainRequest
          BY <4>3, <4>4, <5>3 DEF Read, Reads, CheckEos, DrainRequest
        <5>4. CASE CreateSession \/ SampleHeaders \/ EncodeFrame \/ FlushSamples \/ CheckEom
          BY <5>4 DEF CreateSession, SampleHeaders, EncodeFrame, FlushSamples, CheckEom, network
        <5> QED
          BY <1>1, <3>3, <5>1, <5>2, <5>3, <5>4 DEF Next, ServerStep
      <4> QED
        BY <4>2, <4>5
    <3> QED
      BY <3>2, <3>3
  <2> QED
    BY <2>1, <2>4, <2>7, <2>8, <2>9, <2>10, <2>11 DEF Inv
<1>2. ASSUME Inv, UNCHANGED vars
      PROVE  Inv'
  <2>1. UNCHANGED <<request, reply, broken, frames, written, output_state, input_state, ex, expects, received,
                    at, hand, delayed, flush_called>>
    BY <1>2 DEF vars, network, client, server
  <2>2. /\ Taken' = Taken /\ FramesRead' = FramesRead /\ InHand' = InHand /\ OnTheWire' = OnTheWire
        /\ (EndIsSent' <=> EndIsSent) /\ \A i \in DOMAIN reply : SentAt(i)' <=> SentAt(i)
    BY <2>1 DEF Taken, FramesRead, InHand, OnTheWire, EndIsSent, SentAt
  <2>3. TypeOK' /\ SamplesMatchFrames' /\ FlushIsLast' /\ ClientHasAll'
    BY <1>2, <2>1 DEF Inv, TypeOK, SamplesMatchFrames, Succeeded, FlushIsLast, ClientHasAll
  <2>4. ~broken => RequestInOrder' /\ ServerFollowsRequest'
    BY <1>2, <2>1, <2>2 DEF Inv, RequestInOrder, ServerFollowsRequest
  <2>5. ~broken => NothingTwice' /\ NothingLost' /\ EndIsLast'
    BY <1>2, <2>1, <2>2 DEF Inv, NothingTwice, NothingLost, EndIsLast
  <2> QED
    BY <1>2, <2>1, <2>3, <2>4, <2>5 DEF Inv
<1> QED
  BY <1>1, <1>2

(***************************************************************************)
(* However the two streams run, and wherever a session or the connection   *)
(* fails: the samples that the client has are those of its frames, one of  *)
(* each when the call succeeds, and flush() comes after the last frame.    *)
(***************************************************************************)
THEOREM EncodeInvariance == Spec => []Inv
BY EncodeStarts, EncodeStepsKeepInv, PTL DEF Spec

(***************************************************************************)
(* No frame's sample is received twice, none is of a frame that the client *)
(* did not send, and a call that succeeds has received them all.           *)
(***************************************************************************)
THEOREM SamplesMatch == Spec => []SamplesMatchFrames
<1>1. Inv => SamplesMatchFrames
  BY DEF Inv
<1> QED
  BY <1>1, EncodeInvariance, PTL

=============================================================================
