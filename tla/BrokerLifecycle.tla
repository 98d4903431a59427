--------------------------- MODULE BrokerLifecycle ---------------------------
(***************************************************************************)
(* The life of the broker process: the threads of its four managers, which *)
(* GlobalContext starts, the global state they push forward and wait for,  *)
(* the events that wake them, main(), the Windows service it may run as,   *)
(* and the ways out of it.  The driver of an earlier process may still be  *)
(* loaded (DriverService has the brokers of a machine, and their crashes). *)
(*                                                                         *)
(* The state-changed event of a manager is manual-reset and nothing resets *)
(* it.  After the first state change of all, WaitForState finds it set and *)
(* returns without looking at the state again.                             *)
(***************************************************************************)
EXTENDS Integers, Sequences

CONSTANTS Modes,      \* the modes main() may be started in
          MayFail     \* may a call to the system fail without a cause given here?

ASSUME LifecycleAssumption ==
    /\ Modes \subseteq {"run-standalone", "install-service", "run-as-service"}
    /\ MayFail \in BOOLEAN

Managers == {"Service", "Irp", "Connector", "Driver"}

(* CFB::Broker::State                                                       *)
Uninitialized == 1
ServiceManagerReady == 2
IrpManagerReady == 3
ConnectorManagerReady == 4
Running == 5
ConnectorManagerDone == 6
IrpManagerDone == 7
ServiceManagerDone == 8
Finished == 9

VARIABLES
    state,       \* GlobalContext::m_State
    changed,     \* managers whose state-changed event is set
    terminated,  \* managers whose termination event is set
    termination, \* the global termination event
    stopping,    \* how far GlobalContext::Stop has got; 0 if not called
    pc,          \* where the thread of each manager is
    notifying    \* the managers that a thread in SetState still has to notify

globalVars == <<state, changed, terminated, termination, stopping>>

VARIABLES
    main,        \* where main() is
    mode,        \* the mode it was started in
    privileged,  \* is SeDebugPrivilege enabled?
    loaded,      \* is the driver running?
    handles,     \* managers that have opened the device
    service      \* Win32Service::m_State, and whether it has reported its end

processVars == <<main, mode, privileged, loaded, handles, service>>

VARIABLE failed  \* history: a call that a Setup or the listener needs failed

vars == <<globalVars, pc, notifying, processVars, failed>>
-----------------------------------------------------------------------------
(* The global constructor of a new process starts the four threads; main()  *)
(* comes after.                                                             *)
ThreadsStart == [m \in Managers |-> IF m = "Service" THEN "open" ELSE "setup"]

NobodyToNotify == [m \in Managers |-> <<>>]

Init ==
    /\ state = Uninitialized
    /\ changed = {}
    /\ terminated = {}
    /\ termination = FALSE
    /\ stopping = 0
    /\ pc = ThreadsStart
    /\ notifying = NobodyToNotify
    /\ main = "privileges"
    /\ mode \in Modes
    /\ privileged = FALSE
    /\ loaded \in BOOLEAN
    /\ handles = {}
    /\ service = "none"
    /\ failed = FALSE
-----------------------------------------------------------------------------
At(m, place) == pc[m] = place /\ notifying[m] = <<>>

Goto(m, place) == pc' = [pc EXCEPT ![m] = place]

(* What ends the loop of ManagerBase::WaitForState, which polls every ten   *)
(* seconds: the state is reached, or either of the manager's events is set. *)
(* Mutations: only that very state lets a thread through, not one past it;  *)
(* termination is not waited for.                                           *)
InStateOnly(m, wanted) == state = wanted \/ m \in terminated
DeafToTermination(m, wanted) == state >= wanted \/ m \in changed
LetThrough(m, wanted) == state >= wanted \/ m \in changed \/ m \in terminated

WaitForState(m, wanted, from, to) ==
    /\ At(m, from)
    /\ LetThrough(m, wanted)
    /\ Goto(m, to)
    /\ UNCHANGED <<globalVars, notifying, processVars, failed>>

(* GlobalContext::SetState under m_StateMutex: the last manager to be ready *)
(* stands for all of them, and a step back is warned about and made.        *)
SetState(m, new, from, to) ==
    LET applied == CASE new = ConnectorManagerReady -> Running
                     [] new = ServiceManagerDone -> Finished
                     [] OTHER -> new
    IN /\ At(m, from)
       /\ state' = applied
       /\ notifying' = [notifying EXCEPT ![m] = <<"Service", "Connector", "Irp", "Driver">>]
       /\ Goto(m, to)
       /\ UNCHANGED <<changed, terminated, termination, stopping,
                      processVars, failed>>

(* ... and then, without the mutex, each manager's NotifyStateChange.       *)
NotifyStateChange(m) ==
    /\ notifying[m] # <<>>
    /\ changed' = changed \cup {Head(notifying[m])}
    /\ notifying' = [notifying EXCEPT ![m] = Tail(@)]
    /\ UNCHANGED <<state, terminated, termination, stopping, pc, processVars, failed>>

SetupFails(m) ==
    /\ Goto(m, "failed")
    /\ failed' = TRUE
    /\ UNCHANGED <<globalVars, notifying, processVars>>
-----------------------------------------------------------------------------
(* ServiceManager::Setup extracts the driver and starts its service;        *)
(* StartService refuses a service that already runs.                        *)
LoadDriver ==
    /\ At("Service", "open")
    /\ \/ /\ ~loaded
          /\ loaded' = TRUE
          /\ Goto("Service", "ready")
          /\ UNCHANGED <<globalVars, notifying, main, mode, privileged, handles, service,
                         failed>>
       \/ /\ loaded \/ MayFail
          /\ SetupFails("Service")

ServiceManager ==
    \/ LoadDriver
    \/ SetState("Service", ServiceManagerReady, "ready", "run")
    \/ WaitForState("Service", Running, "run", "serve")
    \/ WaitForState("Service", IrpManagerDone, "serve", "done")

(* IrpManager and DriverManager open the device, which takes a privilege    *)
(* that main() enables after it has started them.  The test of the handle   *)
(* does not see INVALID_HANDLE_VALUE: IrpManager fails at its first IOCTL,  *)
(* DriverManager makes none and goes on without a device.                   *)
OpenDevice(m, next) ==
    /\ At(m, "open")
    /\ \/ /\ loaded
          /\ privileged
          /\ Goto(m, next)
          /\ handles' = handles \cup {m}
          /\ UNCHANGED failed
       \/ /\ ~loaded \/ ~privileged \/ MayFail
          /\ Goto(m, IF m = "Driver" THEN next ELSE "failed")
          /\ failed' = TRUE
          /\ UNCHANGED handles
    /\ UNCHANGED <<globalVars, notifying, main, mode, privileged, loaded, service>>

(* A loop that ends with the event given.                                   *)
Serve(m, event, next) ==
    /\ At(m, "serve")
    /\ event
    /\ Goto(m, next)
    /\ UNCHANGED <<globalVars, notifying, processVars, failed>>

IrpManager ==
    \/ WaitForState("Irp", ServiceManagerReady, "setup", "open")
    \/ OpenDevice("Irp", "ready")
    \/ SetState("Irp", IrpManagerReady, "ready", "run")
    \/ WaitForState("Irp", Running, "run", "serve")
    \/ Serve("Irp", termination, "leave")
    \/ SetState("Irp", IrpManagerDone, "leave", "done")

(* SetCallback and the connectors, between the wait and the announcement,   *)
(* are in IrpPump.                                                          *)
ConnectorManager ==
    \/ WaitForState("Connector", IrpManagerReady, "setup", "ready")
    \/ SetState("Connector", ConnectorManagerReady, "ready", "run")
    \/ WaitForState("Connector", Running, "run", "serve")
    \/ Serve("Connector", "Connector" \in terminated, "leave")
    \/ SetState("Connector", ConnectorManagerDone, "leave", "done")

DriverManager ==
    \/ WaitForState("Driver", ServiceManagerReady, "setup", "open")
    \/ OpenDevice("Driver", "run")
    \/ WaitForState("Driver", Running, "run", "serve")
    \/ Serve("Driver", termination, "done")

(* The listener of DriverManager may fail to start, and its thread ends;    *)
(* it may fail later in a wait, and it stops the broker.                    *)
ListenerFails ==
    /\ At("Driver", "serve")
    /\ MayFail
    /\ failed' = TRUE
    /\ \/ Goto("Driver", "done") /\ UNCHANGED stopping
       \/ stopping = 0 /\ stopping' = 1 /\ UNCHANGED pc
    /\ UNCHANGED <<state, changed, terminated, termination, notifying,
                   processVars>>
-----------------------------------------------------------------------------
(* CtrlHandler, which only a standalone broker has.                         *)
CtrlC ==
    /\ main = "wait"
    /\ mode = "run-standalone"
    /\ stopping = 0
    /\ stopping' = 1
    /\ UNCHANGED <<state, changed, terminated, termination, pc, notifying,
                   processVars, failed>>

(* Mutation: one step too many.                                             *)
StopStepsMore == 1 .. 6
StopSteps == 1 .. 5

(* GlobalContext::Stop: the four managers, then the global event.           *)
Stop ==
    /\ stopping \in StopSteps
    /\ stopping' = stopping + 1
    /\ IF stopping <= 4
       THEN /\ terminated' = terminated \cup
                   {<<"Service", "Connector", "Irp", "Driver">>[stopping]}
            /\ UNCHANGED termination
       ELSE termination' = TRUE /\ UNCHANGED terminated
    /\ UNCHANGED <<state, changed, pc, notifying, processVars, failed>>

MainTo(place) ==
    /\ main' = place
    /\ UNCHANGED <<globalVars, pc, notifying, mode, failed>>

(* Without the privileges, main() leaves through exit().                    *)
AcquirePrivileges ==
    /\ main = "privileges"
    /\ \/ MainTo("wait") /\ privileged' = TRUE
       \/ MainTo("destroy") /\ UNCHANGED privileged
    /\ UNCHANGED <<loaded, handles, service>>

(* RunAsBackgroundService constructs the Win32Service, which reports itself *)
(* running, and enters the dispatcher; either may fail.                     *)
RunAsBackgroundService ==
    /\ main = "wait"
    /\ mode = "run-as-service"
    /\ service = "none"
    /\ \/ service' = "running" /\ UNCHANGED <<main, mode, globalVars, pc, notifying, failed>>
       \/ MayFail /\ MainTo("destroy") /\ UNCHANGED service
    /\ UNCHANGED <<privileged, loaded, handles>>

ServiceGoes(from, to) ==
    /\ service = from
    /\ service' = to
    /\ UNCHANGED <<globalVars, pc, notifying, main, mode, privileged, loaded, handles,
                   failed>>

(* The SCM's handler calls Win32Service::Stop, which tells no manager; the  *)
(* event is manual-reset and set since the service runs: RunForever polls   *)
(* m_State until it sees this, and reports the service stopped.             *)
ScmStops == ServiceGoes("running", "stopping")
RunForeverEnds == ServiceGoes("stopping", "stopped")

(* A standalone broker waits for the termination event, a service for the   *)
(* dispatcher to return; an installer does not wait at all.                 *)
MainReturns ==
    /\ main = "wait"
    /\ mode = "run-standalone" => termination
    /\ mode = "run-as-service" => service = "stopped"
    /\ MainTo("destroy")
    /\ UNCHANGED <<privileged, loaded, handles, service>>

(* The threads have been joined.  Mutation: they were detached.             *)
Detached == TRUE
Joined == \A m \in Managers : At(m, "done") \/ At(m, "failed")

(* ~GlobalContext joins the four threads; destroying the ServiceManager     *)
(* then stops the driver.  If its Setup failed it may have no handle on the *)
(* service to stop it with.                                                 *)
Destroy ==
    /\ main = "destroy"
    /\ Joined
    /\ MainTo("gone")
    /\ loaded' \in IF pc["Service"] = "failed" \/ MayFail THEN {FALSE, loaded} ELSE {FALSE}
    /\ UNCHANGED <<privileged, handles, service>>
-----------------------------------------------------------------------------
Next ==
    \/ ServiceManager \/ IrpManager \/ ConnectorManager \/ DriverManager
    \/ \E m \in Managers : NotifyStateChange(m)
    \/ ListenerFails \/ CtrlC \/ Stop
    \/ AcquirePrivileges \/ RunAsBackgroundService \/ ScmStops \/ RunForeverEnds
    \/ MainReturns \/ Destroy

Spec == Init /\ [][Next]_vars

(* Every thread that can go on does.  Nobody has to type Ctrl-C, and the    *)
(* SCM does not have to stop the service; the listener need not fail.       *)
Fairness ==
    /\ WF_vars(ServiceManager)
    /\ WF_vars(IrpManager)
    /\ WF_vars(ConnectorManager)
    /\ WF_vars(DriverManager)
    /\ \A m \in Managers : WF_vars(NotifyStateChange(m))
    /\ WF_vars(Stop)
    /\ WF_vars(AcquirePrivileges)
    /\ WF_vars(RunAsBackgroundService)
    /\ WF_vars(RunForeverEnds)
    /\ WF_vars(MainReturns)
    /\ WF_vars(Destroy)

FairSpec == Spec /\ Fairness
-----------------------------------------------------------------------------
(* The global state moves within EnumGlobalState; each manager is at a      *)
(* place of its own path; events belong to managers.                        *)
TypeOK ==
    /\ state \in Uninitialized .. Finished
    /\ changed \subseteq Managers
    /\ terminated \subseteq Managers
    /\ termination \in BOOLEAN
    /\ stopping \in 0 .. 6
    /\ pc \in [Managers -> {"setup", "open", "ready", "run", "serve", "leave",
                            "done", "failed"}]
    /\ notifying \in [Managers -> Seq(Managers)]
    /\ main \in {"privileges", "wait", "destroy", "gone"}
    /\ mode \in Modes
    /\ {privileged, loaded, failed} \subseteq BOOLEAN
    /\ handles \subseteq {"Irp", "Driver"}
    /\ service \in {"none", "running", "stopping", "stopped"}

(* The driver is stopped only when no manager can still use the handle it   *)
(* has opened on the device, its thread having ended, however the process   *)
(* comes to its end.                                                        *)
DriverOutlivesHandles ==
    \A m \in handles : pc[m] \notin {"done", "failed"} => loaded

Serving ==
    /\ \A m \in {"Irp", "Connector", "Driver"} : pc[m] = "serve"
    /\ handles = {"Irp", "Driver"}

(* Startup gets through, though the threads pass each other and the state   *)
(* may step back: unless a call fails or something stops it, all managers   *)
(* serve, those that need it with the device open.                          *)
StartupServes == <>(Serving \/ failed \/ stopping > 0 \/ main = "destroy")

(* Once asked to stop, a standalone broker ends, at whatever point of their *)
(* setup, service or failure its threads are.  Not so the other modes: they *)
(* leave main() without GlobalContext::Stop, and join threads nobody wakes. *)
StopEnds == mode = "run-standalone" /\ stopping > 0 ~> main = "gone"
-----------------------------------------------------------------------------
(* "Synchronizes on the Global state semaphore to execute code only when in *)
(* a specific state": unless it is told to stop, a thread that has waited   *)
(* for a state finds the broker in that state or past it.                   *)
Waits ==
    {<<"Service", "run", Running>>, <<"Service", "serve", IrpManagerDone>>,
     <<"Irp", "setup", ServiceManagerReady>>, <<"Irp", "run", Running>>,
     <<"Connector", "setup", IrpManagerReady>>, <<"Connector", "run", Running>>,
     <<"Driver", "setup", ServiceManagerReady>>, <<"Driver", "run", Running>>}

WaitIsKept ==
    [][\A w \in Waits : pc[w[1]] = w[2] /\ pc'[w[1]] # w[2] =>
            state >= w[3] \/ w[1] \in terminated]_vars
=============================================================================
