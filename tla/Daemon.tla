------------------------------- MODULE Daemon -------------------------------
(***************************************************************************)
(* run_service() on POSIX (cuti/cuti/service.cpp), for programs that are   *)
(* started with the same pidfile.  A daemon is the grandchild of the       *)
(* process that was started, which waits for it to initialize and reports  *)
(* the outcome: the parent reads the byte that the grandchild writes, or   *)
(* the end of a pipe that everybody else has closed.                       *)
(*                                                                         *)
(* Every step may fail, every process may be killed at every step, and the *)
(* signal that stops the service may come at every step.  A process that   *)
(* writes to a pipe without readers is killed by SIGPIPE.                  *)
(***************************************************************************)
EXTENDS Integers, FiniteSets

CONSTANTS
  Launches,     \* the starts of the program
  Configs,      \* how they may be configured: functions on Launches, to records of Booleans
                \*   daemon, pidfile, service (FALSE: a dry run)
  MaxSignals,   \* bound: the stop signals that each is sent
  MaxKills,     \* bound: the processes that are killed
  None

VARIABLES
  config,       \* each launch's configuration
  pc,           \* where its processes are: "parent", "child" and "server"
  thrown,       \* the server is left by an exception
  ends,         \* who has the pipe's reader and writer open
  byte,         \* whether the pipe holds a byte
  signal,       \* what the server has set up for the signal
  stopping,     \* service->stop() has been called
  pidfile,      \* the launch whose process id it holds
  signals,      \* the stop signals that its server was sent
  kills         \* the processes that were killed

daemonVars ==
  <<config, pc, thrown, ends, byte, signal, stopping, pidfile, signals, kills>>

Processes == {"parent", "child", "server"}

\* The server's steps, in order: it is the grandchild, or the foreground process.
Initializing == {"user", "logging", "pidfile", "write_pid", "directory", "service"}
Confirming   == {"close_reader", "confirm", "close_writer"}
Unwinding    == {"restore_action", "restore_impl", "delete_pidfile", "close_pipe"}
ServerPCs    == Initializing \cup Confirming \cup Unwinding
                  \cup {"none", "set_up_impl", "redirect", "redirect_fds", "run", "exited", "killed"}
ParentPCs    == {"start", "wait", "close_writer", "read", "in_foreground", "success", "failure", "killed"}
ChildPCs     == {"none", "setsid", "fork", "return", "exited_0", "exited_1", "killed"}

Ended(l, p) == pc[l][p] \in {"none", "success", "failure", "in_foreground",
                             "exited", "exited_0", "exited_1", "killed"}

\* Each process has one handler, in run_as_daemon() or in run_attended().
Handler == INSTANCE SignalHandler WITH Handlers <- {"handler"}

DaemonTypeOK ==
  /\ config \in Configs
  /\ pc \in [Launches -> [parent : ParentPCs, child : ChildPCs, server : ServerPCs]]
  /\ ends \in [Launches -> [reader : SUBSET Processes, writer : SUBSET Processes]]
  /\ signal \in [Launches -> Handler!Signals]
  /\ thrown \in [Launches -> BOOLEAN] /\ byte \in [Launches -> BOOLEAN]
  /\ stopping \in [Launches -> BOOLEAN]
  /\ pidfile \in Launches \cup {None}
  /\ signals \in [Launches -> 0 .. MaxSignals] /\ kills \in 0 .. MaxKills

DaemonInit ==
  /\ config \in Configs
  /\ pc = [l \in Launches |-> [parent |-> "start", child |-> "none", server |-> "none"]]
  /\ thrown = [l \in Launches |-> FALSE]
  /\ ends = [l \in Launches |-> [reader |-> {"parent"}, writer |-> {"parent"}]]
  /\ byte = [l \in Launches |-> FALSE]
  /\ signal = [l \in Launches |-> Handler!NoHandlers]
  /\ stopping = [l \in Launches |-> FALSE]
  /\ pidfile = None
  /\ signals = [l \in Launches |-> 0] /\ kills = 0

-----------------------------------------------------------------------------
\* Process p goes to a step; one that has ended has closed its ends of the pipe.
Goto(l, p, step) == pc' = [pc EXCEPT ![l][p] = step]

Close(l, p) ==
  ends' = [ends EXCEPT ![l] = [reader |-> @.reader \ {p}, writer |-> @.writer \ {p}]]

Exit(l, p, how) == Goto(l, p, how) /\ Close(l, p)

\* After fork() both processes have the ends of the first.
Inherit(l, p, q) ==
  ends' = [ends EXCEPT ![l] = [reader |-> IF p \in @.reader THEN @.reader \cup {q} ELSE @.reader,
                               writer |-> IF p \in @.writer THEN @.writer \cup {q} ELSE @.writer]]

Rest == <<config, signal, stopping, signals, kills>>

-----------------------------------------------------------------------------
(* The parent and the child.                                               *)

\* run_service(), up to the first fork(), which may fail as the pipe may.
Start(l) ==
  /\ pc[l].parent = "start"
  /\ IF config[l].daemon
       THEN \/ /\ pc' = [pc EXCEPT ![l].parent = "wait", ![l].child = "setsid"]
               /\ Inherit(l, "parent", "child")
            \/ Exit(l, "parent", "failure")
       ELSE /\ pc' = [pc EXCEPT ![l].parent = "in_foreground", ![l].server = "user"]
            /\ Close(l, "parent")
  /\ UNCHANGED <<thrown, byte, pidfile, Rest>>

\* setsid() and the second fork(): the child that fails exits with a code.
ChildStep(l) ==
  /\ CASE pc[l].child = "setsid" ->
            (Goto(l, "child", "fork") /\ UNCHANGED ends) \/ Exit(l, "child", "exited_1")
       [] pc[l].child = "fork" ->
            \/ /\ pc' = [pc EXCEPT ![l].child = "return", ![l].server = "user"]
               /\ Inherit(l, "child", "server")
            \/ Exit(l, "child", "exited_1")
       [] pc[l].child = "return" -> Exit(l, "child", "exited_0")
       [] OTHER -> FALSE
  /\ UNCHANGED <<thrown, byte, pidfile, Rest>>

\* await_child()
AwaitChild(l) ==
  /\ pc[l].parent = "wait" /\ Ended(l, "child")
  /\ IF pc[l].child = "exited_0"
       THEN Goto(l, "parent", "close_writer") /\ UNCHANGED ends
       ELSE Exit(l, "parent", "failure")
  /\ UNCHANGED <<thrown, byte, pidfile, Rest>>

\* Mutant of CloseWriter: the parent keeps its own end of the pipe open.
KeepWriter(l) ==
  /\ pc[l].parent = "close_writer"
  /\ Goto(l, "parent", "read")
  /\ UNCHANGED <<ends, thrown, byte, pidfile, Rest>>

\* confirmation_pipe_t::await(), in two steps.
CloseWriter(l) ==
  /\ pc[l].parent = "close_writer"
  /\ Goto(l, "parent", "read")
  /\ ends' = [ends EXCEPT ![l].writer = @ \ {"parent"}]
  /\ UNCHANGED <<thrown, byte, pidfile, Rest>>

Read(l) ==
  /\ pc[l].parent = "read"
  /\ \/ byte[l] /\ Exit(l, "parent", "success")
     \/ ~byte[l] /\ ends[l].writer = {} /\ Exit(l, "parent", "failure")
  /\ UNCHANGED <<thrown, byte, pidfile, Rest>>

ParentStep(l) == Start(l) \/ AwaitChild(l) \/ CloseWriter(l) \/ Read(l)

-----------------------------------------------------------------------------
(* The server.                                                             *)

Done(l, step) == Goto(l, "server", step) /\ UNCHANGED <<ends, thrown, byte>>

HasPidfile(l) == config[l].pidfile

\* A return or an exception destroys what has been made, the last one first.
Leave(l) ==
  LET handled == signal[l].action # "default"
      step    == IF handled THEN "restore_action"
                 ELSE IF HasPidfile(l) /\ pc[l].server \notin {"user", "logging", "pidfile"}
                      THEN "delete_pidfile" ELSE "close_pipe"
  IN Goto(l, "server", step) /\ UNCHANGED <<ends, byte>>

Throw(l)  == Leave(l) /\ thrown' = [thrown EXCEPT ![l] = TRUE]
Return(l) == Leave(l) /\ UNCHANGED thrown

(***************************************************************************)
(* pidfile_t::pidfile_t(): the file must not exist, and is deleted if the  *)
(* process id cannot be written.                                           *)
(***************************************************************************)
CreatePidfile(l) ==
  /\ pc[l].server = "pidfile"
  /\ IF ~HasPidfile(l) THEN Done(l, "directory") /\ UNCHANGED pidfile
     ELSE \/ pidfile = None /\ Done(l, "write_pid") /\ pidfile' = l
          \/ Throw(l) /\ UNCHANGED pidfile
  /\ UNCHANGED Rest

WritePid(l) ==
  /\ pc[l].server = "write_pid"
  /\ Done(l, "directory") \/ Throw(l)
  /\ UNCHANGED <<pidfile, Rest>>

\* user and umask, the logging backend, the directory and the service.
Initialize(l) ==
  /\ \/ /\ pc[l].server = "user"
        /\ Done(l, "logging") \/ Throw(l)
     \/ /\ pc[l].server = "logging"
        /\ Done(l, "pidfile") \/ Throw(l)
     \/ /\ pc[l].server = "directory"
        /\ Done(l, "service") \/ Throw(l)
     \/ /\ pc[l].server = "service"
        /\ \/ Throw(l)
           \/ IF config[l].daemon \/ config[l].service THEN Done(l, "set_up_impl") ELSE Return(l)
  /\ UNCHANGED <<pidfile, Rest>>

Handle(l, s, step) ==
  /\ signal' = [signal EXCEPT ![l] = s]
  /\ Goto(l, "server", step)
  /\ UNCHANGED <<config, thrown, ends, byte, stopping, pidfile, signals, kills>>

\* The signal handler is made after the service, and destroyed before it.
HandlerStep(l) ==
  CASE pc[l].server = "set_up_impl" ->
         Handle(l, Handler!SetUpImpl(signal[l], "handler"), "redirect")
    [] pc[l].server = "redirect" ->
         Handle(l, Handler!Redirect(signal[l], "handler"),
                IF config[l].daemon THEN "redirect_fds" ELSE "run")
    [] pc[l].server = "restore_action" ->
         Handle(l, Handler!RestoreAction(signal[l], "handler"), "restore_impl")
    [] pc[l].server = "restore_impl" ->
         Handle(l, Handler!RestoreImpl(signal[l], "handler"),
                IF HasPidfile(l) THEN "delete_pidfile" ELSE "close_pipe")
    [] OTHER -> FALSE

RedirectStandardFds(l) ==
  /\ pc[l].server = "redirect_fds"
  /\ Done(l, "close_reader") \/ Throw(l)
  /\ UNCHANGED <<pidfile, Rest>>

\* confirmation_pipe_t::confirm(), in three steps.
Confirm(l) ==
  /\ CASE pc[l].server = "close_reader" ->
            /\ Goto(l, "server", "confirm")
            /\ ends' = [ends EXCEPT ![l].reader = @ \ {"server"}]
            /\ UNCHANGED byte
       [] pc[l].server = "confirm" ->
            IF ends[l].reader = {} THEN Exit(l, "server", "killed") /\ UNCHANGED byte
            ELSE Goto(l, "server", "close_writer") /\ byte' = [byte EXCEPT ![l] = TRUE] /\ UNCHANGED ends
       [] pc[l].server = "close_writer" ->
            /\ Goto(l, "server", "run")
            /\ ends' = [ends EXCEPT ![l].writer = @ \ {"server"}]
            /\ UNCHANGED byte
       [] OTHER -> FALSE
  /\ UNCHANGED <<thrown, pidfile, Rest>>

\* service->run(), which returns when stop() has been called before or during it.
RunReturns(l) ==
  /\ pc[l].server = "run"
  /\ stopping[l] \/ ~config[l].service
  /\ Return(l)
  /\ UNCHANGED <<pidfile, Rest>>

RunThrows(l) ==
  /\ pc[l].server = "run" /\ config[l].service
  /\ Throw(l)
  /\ UNCHANGED <<pidfile, Rest>>

\* The pidfile_t and the confirmation pipe are destroyed, and main() returns.
Unwind(l) ==
  /\ \/ /\ pc[l].server = "delete_pidfile"
        /\ Done(l, "close_pipe")
        /\ pidfile' = None
     \/ /\ pc[l].server = "close_pipe"
        /\ pc' = [pc EXCEPT ![l].server = "exited",
                            ![l].parent = IF @ # "in_foreground" THEN @
                                          ELSE IF thrown[l] THEN "failure" ELSE "success"]
        /\ Close(l, "server")
        /\ UNCHANGED <<thrown, byte, pidfile>>
  /\ UNCHANGED Rest

ServerStep(l) ==
  \/ Initialize(l) \/ CreatePidfile(l) \/ WritePid(l) \/ HandlerStep(l)
  \/ RedirectStandardFds(l) \/ Confirm(l) \/ RunReturns(l) \/ Unwind(l)

-----------------------------------------------------------------------------
(* The outside world.                                                      *)

\* Mutant of Signal: a stop is only heard by a service that runs.
SignalWhileRunning(l) ==
  /\ signals[l] < MaxSignals /\ signals' = [signals EXCEPT ![l] = @ + 1]
  /\ ~Ended(l, "server")
  /\ IF Handler!Effect(signal[l]) = "called"
       THEN /\ stopping' = [stopping EXCEPT ![l] = @ \/ (config[l].service /\ pc[l].server = "run")]
            /\ UNCHANGED <<pc, ends>>
       ELSE Exit(l, "server", "killed") /\ UNCHANGED stopping
  /\ UNCHANGED <<config, thrown, byte, signal, pidfile, kills>>

\* SIGTERM for a daemon, SIGINT in the foreground.
Signal(l) ==
  /\ signals[l] < MaxSignals /\ signals' = [signals EXCEPT ![l] = @ + 1]
  /\ ~Ended(l, "server")
  /\ IF Handler!Effect(signal[l]) = "called"
       THEN stopping' = [stopping EXCEPT ![l] = @ \/ config[l].service] /\ UNCHANGED <<pc, ends>>
       ELSE Exit(l, "server", "killed") /\ UNCHANGED stopping
  /\ UNCHANGED <<config, thrown, byte, signal, pidfile, kills>>

Kill(l, p) ==
  /\ kills < MaxKills /\ kills' = kills + 1
  /\ ~Ended(l, p)
  /\ Exit(l, p, "killed")
  /\ UNCHANGED <<config, thrown, byte, signal, stopping, pidfile, signals>>

\* A pidfile whose process is gone is removed by hand.
RemovePidfile ==
  /\ pidfile # None /\ Ended(pidfile, "server")
  /\ pidfile' = None
  /\ UNCHANGED <<config, pc, thrown, ends, byte, Rest>>

DaemonNext ==
  \/ \E l \in Launches :
       \/ ParentStep(l) \/ ChildStep(l) \/ ServerStep(l) \/ RunThrows(l) \/ Signal(l)
       \/ \E p \in Processes : Kill(l, p)
  \/ RemovePidfile


-----------------------------------------------------------------------------
Owns(l) ==
  /\ HasPidfile(l)
  /\ pc[l].server \notin {"none", "user", "logging", "pidfile", "close_pipe", "exited", "killed"}

(***************************************************************************)
(* A server has the pidfile to itself from its creation to its deletion,   *)
(* so no two servers run with the same one; and one that has not been      *)
(* killed leaves none behind, whatever made it end.                        *)
(***************************************************************************)
PidfileHasOneOwner ==
  \A l \in Launches : (Owns(l) => pidfile = l) /\ (pc[l].server = "exited" => pidfile # l)

(***************************************************************************)
(* A signal that comes between the steps of the handler's constructor or   *)
(* destructor finds what it calls, and calls it while the service exists.  *)
(***************************************************************************)
SignalFindsService ==
  \A l \in Launches :
    /\ Handler!Effect(signal[l]) # "aborted"
    /\ ~Ended(l, "server") /\ Handler!Effect(signal[l]) = "called" =>
         pc[l].server \notin Initializing \cup {"none", "delete_pidfile", "close_pipe"}

(***************************************************************************)
(* "service failed to initialize": the parent reports success only if the  *)
(* grandchild could serve, with its pidfile and its signal handler in      *)
(* place, unless it has ended since; and failure only if the grandchild    *)
(* will never serve and can be started again, unless someone killed it or  *)
(* the processes between them.                                             *)
(***************************************************************************)
OutcomeIsTrue ==
  \A l \in Launches : config[l].daemon =>
    /\ pc[l].parent = "success" =>
         \/ pc[l].server \in {"close_writer", "run"} /\ Handler!Effect(signal[l]) = "called"
         \/ pc[l].server \in Unwinding /\ (stopping[l] \/ thrown[l] \/ ~config[l].service)
         \/ pc[l].server \in {"exited", "killed"}
    /\ pc[l].parent = "failure" /\ pc[l].child # "killed" =>
         /\ pc[l].server \in {"none", "exited", "killed"} /\ ~byte[l]
         /\ pc[l].server # "killed" => pidfile # l

(***************************************************************************)
(* What makes them true.  A process is there once the one before it has    *)
(* forked, and a parent that has given up on it leaves nobody to serve.    *)
(***************************************************************************)
ForksInOrder(l) ==
  /\ pc[l].parent = "start" => pc[l].child = "none" /\ pc[l].server = "none"
  /\ pc[l].child \in {"setsid", "fork", "exited_1"} => pc[l].server = "none"
  /\ config[l].daemon =>
       /\ pc[l].parent # "in_foreground"
       /\ pc[l].child = "none" => pc[l].server = "none"
       /\ pc[l].child \in {"return", "exited_0"} => pc[l].server # "none"
       /\ pc[l].parent \in {"close_writer", "read"} => pc[l].child = "exited_0"
       /\ pc[l].parent = "failure" => pc[l].child \notin {"setsid", "fork", "return"}

(***************************************************************************)
(* Who may still write the byte has the pipe open, and the byte is there   *)
(* once the server has confirmed.                                          *)
(***************************************************************************)
PipeTellsTheTruth(l) ==
  /\ byte[l] => pc[l].server \in {"close_writer", "run", "exited", "killed"} \cup Unwinding
  /\ pc[l].server = "close_writer" => byte[l]
  /\ byte[l] /\ pc[l].server \in Unwinding => stopping[l] \/ thrown[l] \/ ~config[l].service
  /\ config[l].daemon =>
       /\ pc[l].parent \in {"start", "wait", "close_writer"} => "parent" \in ends[l].writer
       /\ pc[l].child \in {"setsid", "fork", "return"} => "child" \in ends[l].writer
       /\ pc[l].server \notin {"none", "exited", "killed"} /\ ~byte[l] => "server" \in ends[l].writer
       /\ pc[l].parent = "success" => byte[l]
       /\ pc[l].parent = "failure" /\ pc[l].child = "exited_0" =>
            pc[l].server \in {"exited", "killed"} /\ ~byte[l]

(***************************************************************************)
(* How much of the handler there is at each of the server's steps.         *)
(***************************************************************************)
Made(s)    == s.current = "handler" /\ s.prevImpl["handler"] = None
Handles(s) == s.action = "handler_routine" /\ s.prevAction["handler"] = "default" /\ Made(s)

HandlerInPlace(l) ==
  /\ pc[l].server \in Initializing \cup {"none", "set_up_impl", "delete_pidfile", "close_pipe", "exited"} =>
       signal[l].action = "default" /\ signal[l].current = None
  /\ pc[l].server \in {"redirect", "restore_impl"} =>
       signal[l].action = "default" /\ Made(signal[l])
  /\ pc[l].server \in Confirming \cup {"redirect_fds", "run", "restore_action"} =>
       Handles(signal[l])
  /\ pc[l].server = "killed" =>
       (signal[l].action = "handler_routine" => signal[l].current = "handler")

\* The pidfile names its owner, or one who was killed.
PidfileIsExplained(l) ==
  /\ pidfile = l => HasPidfile(l) /\ (Owns(l) \/ pc[l].server = "killed")
  /\ pc[l].server \in {"write_pid", "delete_pidfile"} => HasPidfile(l)

DaemonInv ==
  /\ DaemonTypeOK
  /\ \A l \in Launches :
       ForksInOrder(l) /\ PipeTellsTheTruth(l) /\ HandlerInPlace(l) /\ PidfileIsExplained(l)
  /\ PidfileHasOneOwner /\ SignalFindsService /\ OutcomeIsTrue

(***************************************************************************)
(* The process that was started does not wait forever for the grandchild's *)
(* answer, whatever becomes of the others.                                 *)
(***************************************************************************)
ParentIsTold ==
  \A l \in Launches :
    pc[l].parent = "wait" ~> pc[l].parent \in {"success", "failure", "killed"}

(***************************************************************************)
(* "Causes the current or next call to run() to return" (service.hpp): a   *)
(* server that is sent the signal ends, also if it comes before run(), and *)
(* is neither lost nor turned into something to wait for.                  *)
(***************************************************************************)
StopIsHeard == \A l \in Launches : signals[l] > 0 ~> Ended(l, "server")

=============================================================================
