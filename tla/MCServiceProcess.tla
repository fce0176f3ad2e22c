-------------------------- MODULE MCServiceProcess --------------------------
(***************************************************************************)
(* The end of a service process seen from both sides: from the inside,     *)
(* where order_shutdown takes its runtimes down, and from the outside,     *)
(* where commands start, stop and kill it.  The two meet in one number     *)
(* only, AppTimeout, so a behaviour chooses one of them (`part') and runs  *)
(* it while the other keeps its initial state.  Fairness is that of the    *)
(* component's own specification, for the part that runs.                  *)
(***************************************************************************)
EXTENDS GlobalRuntime, DaemonControl

CONSTANTS r1, r2, r3, t1

VARIABLE part

ASSUME ProcessAssumption == DaemonAssumption

\* Two of three runtimes are declared, one of them twice, and Main in the
\* middle; r3 becomes an omitted stage when it is registered.
MCOrders == <<r2, Main, r1, r2>>

ProcessInit == part \in {"runtime", "daemon"} /\ Init /\ DaemonInit

ProcessNext ==
    /\ UNCHANGED part
    /\ \/ part = "runtime" /\ Next /\ UNCHANGED daemonVars
       \/ part = "daemon" /\ DaemonNext /\ UNCHANGED vars

ProcessFairness ==
    /\ WF_vars(part = "runtime" /\ Coordinator)
    /\ \A t \in Tasks : WF_vars(part = "runtime" /\ GuardSteps(t))
    /\ \A c \in Commands : WF_daemonVars(part = "daemon" /\ CommandStep(c))
    /\ WF_daemonVars(part = "daemon" /\ Tick)
    /\ \A s \in Services :
          WF_daemonVars(part = "daemon" /\ svc[s] = "stopping" /\ EndService(s))

ProcessSpec ==
    ProcessInit /\ [][ProcessNext]_<<part, vars, daemonVars>> /\ ProcessFairness
=============================================================================
