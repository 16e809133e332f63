------------------------------ MODULE Services ------------------------------
(***************************************************************************)
(* The processes of a service, and signal handlers that nest within one of *)
(* them.  A behaviour is one of either.                                    *)
(***************************************************************************)
EXTENDS Integers

CONSTANTS Launches, Configs, MaxSignals, MaxKills, Handlers, None

ASSUME ServicesAssumption ==
  /\ MaxSignals \in Nat /\ MaxKills \in Nat
  /\ Configs \subseteq [Launches -> [daemon : BOOLEAN, pidfile : BOOLEAN, service : BOOLEAN]]
  /\ None \notin Launches \cup Handlers \cup {"handler"}

VARIABLES
  part,
  config, pc, thrown, ends, byte, signal, stopping, pidfile, signals, kills,
  nestSignal, lifetimes, doing

D == INSTANCE Daemon
N == INSTANCE NestedHandlers WITH signal <- nestSignal

daemonVars ==
  <<config, pc, thrown, ends, byte, signal, stopping, pidfile, signals, kills>>
nestVars     == <<nestSignal, lifetimes, doing>>
servicesVars == <<part, daemonVars, nestVars>>

ServicesInit ==
  /\ part \in {"daemon", "nested"}
  /\ D!DaemonInit
  /\ N!NestInit

ServicesNext ==
  \/ part = "daemon" /\ D!DaemonNext /\ UNCHANGED <<part, nestVars>>
  \/ part = "nested" /\ N!NestNext   /\ UNCHANGED <<part, daemonVars>>

ServicesFairness ==
  \A l \in Launches :
    /\ WF_servicesVars(part = "daemon" /\ D!ParentStep(l) /\ UNCHANGED <<part, nestVars>>)
    /\ WF_servicesVars(part = "daemon" /\ D!ChildStep(l)  /\ UNCHANGED <<part, nestVars>>)
    /\ WF_servicesVars(part = "daemon" /\ D!ServerStep(l) /\ UNCHANGED <<part, nestVars>>)

ServicesSpec == ServicesInit /\ [][ServicesNext]_servicesVars /\ ServicesFairness

-----------------------------------------------------------------------------
(***************************************************************************)
(* The launched programs share a pidfile only one after the other, their   *)
(* parents report what has become of them, and a signal finds the handler  *)
(* that was made last.                                                     *)
(***************************************************************************)
ServicesInv == D!DaemonInv /\ N!NestInv

(***************************************************************************)
(* The process that was started does not wait forever for the grandchild's *)
(* answer.                                                                 *)
(***************************************************************************)
ParentIsTold == D!ParentIsTold

(***************************************************************************)
(* A server that is sent the stop signal ends, whenever that comes.        *)
(***************************************************************************)
StopIsHeard == D!StopIsHeard

=============================================================================
