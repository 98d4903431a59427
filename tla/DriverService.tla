---------------------------- MODULE DriverService ----------------------------
(***************************************************************************)
(* The brokers of a machine and the driver they share: ServiceManager's    *)
(* Setup extracts the driver to a file all brokers use, registers and      *)
(* starts its service; the destructor stops it and deletes the service,    *)
(* also when Setup failed.  The service control manager (external) keeps   *)
(* the entry of the service, which goes when it is marked for deletion, no *)
(* handle on it is left and the driver is unloaded.                        *)
(***************************************************************************)
EXTENDS DriverLifecycle

CONSTANTS Brokers,      \* the processes that run a broker, one after another
          MaxCrashes,   \* bound: how many times a broker is killed
          MaxFailures   \* bound: how many calls fail without a cause given here

ASSUME ServiceAssumption ==
    /\ Brokers \subseteq Privileged
    /\ MaxCrashes \in Nat
    /\ MaxFailures \in Nat

VARIABLES
    file,      \* the driver's file in the temporary directory
    writer,    \* the broker that has it open, for itself alone
    entry,     \* the service in the SCM's database
    hold,      \* the handle each broker has on the service
    bpc,       \* where each broker is
    starter,   \* the broker whose StartService waits for DriverEntry
    crashes,   \* history: brokers killed
    failures   \* history: calls that failed without a cause given here

fileVars == <<file, writer>>
faultVars == <<crashes, failures>>
serviceVars == <<fileVars, entry, hold, bpc, starter, faultVars>>
allVars == <<vars, driverVars, serviceVars>>

ServiceInit ==
    /\ Init
    /\ DriverInit
    /\ file = "none"
    /\ writer = None
    /\ entry = "none"
    /\ hold = [b \in Brokers |-> "none"]
    /\ bpc = [b \in Brokers |-> "off"]
    /\ starter = None
    /\ crashes = 0
    /\ failures = 0
-----------------------------------------------------------------------------
Goto(b, place) == bpc' = [bpc EXCEPT ![b] = place]

Hold(b, handle) == hold' = [hold EXCEPT ![b] = handle]

Fault ==
    /\ failures < MaxFailures
    /\ failures' = failures + 1
    /\ UNCHANGED crashes

(* A call fails for the reason given, or for none.                          *)
FailsIf(reason) == (reason /\ UNCHANGED faultVars) \/ Fault

StartBroker(b) ==
    /\ bpc[b] = "off"
    /\ Goto(b, "extract")
    /\ UNCHANGED <<vars, driverVars, fileVars, entry, hold, starter, faultVars>>

(* ExtractDriverFromResource: CREATE_ALWAYS empties the file, which nobody  *)
(* else may have open, and WriteFile fills it.                              *)
OpenFile(b) ==
    /\ bpc[b] = "extract"
    /\ \/ /\ writer = None
          /\ writer' = b
          /\ file' = "partial"
          /\ Goto(b, "write")
          /\ UNCHANGED faultVars
       \/ /\ FailsIf(writer # None)
          /\ Goto(b, "failed")
          /\ UNCHANGED fileVars
    /\ UNCHANGED <<vars, driverVars, entry, hold, starter>>

WriteFile(b) ==
    /\ bpc[b] = "write"
    /\ writer' = None
    /\ \/ file' = "whole" /\ Goto(b, "create") /\ UNCHANGED faultVars
       \/ Fault /\ Goto(b, "failed") /\ UNCHANGED file
    /\ UNCHANGED <<vars, driverVars, entry, hold, starter>>

(* LoadDriver.  A service that exists is opened like one just created; only *)
(* the creator keeps a handle until then.                                   *)
CreateService(b) ==
    /\ bpc[b] = "create"
    /\ \/ /\ entry = "none"
          /\ entry' = "listed"
          /\ Hold(b, "created")
          /\ Goto(b, "open")
          /\ UNCHANGED faultVars
       \/ /\ entry = "listed"
          /\ Goto(b, "open")
          /\ UNCHANGED <<entry, hold, faultVars>>
       \/ /\ FailsIf(entry = "marked")
          /\ Goto(b, "failed")
          /\ UNCHANGED <<entry, hold>>
    /\ UNCHANGED <<vars, driverVars, fileVars, starter>>

OpenService(b) ==
    /\ bpc[b] = "open"
    /\ \/ /\ entry # "none"
          /\ Hold(b, "opened")
          /\ Goto(b, "start")
          /\ UNCHANGED faultVars
       \/ /\ FailsIf(entry = "none")
          /\ Hold(b, "none")
          /\ Goto(b, "failed")
    /\ UNCHANGED <<vars, driverVars, fileVars, entry, starter>>

CanStart == entry = "listed" /\ driver = "unloaded" /\ file = "whole" /\ writer = None

(* StartService enters the driver and returns when DriverEntry does.        *)
StartService(b) ==
    /\ bpc[b] = "start"
    /\ \/ /\ CanStart
          /\ EnterDriver
          /\ starter' = b
          /\ Goto(b, "starting")
          /\ UNCHANGED faultVars
       \/ /\ FailsIf(~CanStart)
          /\ Goto(b, "failed")
          /\ UNCHANGED <<vars, driverVars, starter>>
    /\ UNCHANGED <<fileVars, entry, hold>>

StartReturns(place) ==
    /\ starter' = None
    /\ bpc' = [b \in Brokers |-> IF b = starter THEN place ELSE bpc[b]]

DriverEntry ==
    /\ \/ /\ CreateDevice \/ CreateSymbolicLink \/ ClearInitializing
          /\ UNCHANGED <<starter, bpc, faultVars>>
       \/ /\ PublishDevice
          /\ StartReturns("ready")
          /\ UNCHANGED faultVars
       \/ /\ CleanupOnFailure
          /\ StartReturns("failed")
          /\ FailsIf(driver = "context" /\ orphan)
    /\ UNCHANGED <<fileVars, entry, hold>>
-----------------------------------------------------------------------------
(* The managers of a broker that is ready use the device; so do clients.    *)
MayOpen(p) == p \in Brokers => bpc[p] = "ready"

UseDevice(p) ==
    /\ \/ MayOpen(p) /\ OpenDevice(p)
       \/ CloseDevice(p)
       \/ Command(p)
       \/ CommandDone(p)
    /\ UNCHANGED serviceVars

(* The broker ends, its handles on the device closed before ~ServiceManager *)
(* (see BrokerLifecycle); one whose setup failed ends in the same way.      *)
(* Mutation: it stops the driver only if its own Setup was a success.       *)
EndedByItself(b) == IF bpc[b] = "ready" THEN "stop" ELSE "off"
Ending(b) == "stop"

Leave(b) ==
    /\ bpc[b] \in {"ready", "failed"}
    /\ handles[b] = 0
    /\ Goto(b, Ending(b))
    /\ UNCHANGED <<vars, driverVars, fileVars, entry, hold, starter, faultVars>>

(* UnloadDriver, in ~ServiceManager, stops the driver with the handle on    *)
(* the service, whoever started it, ...                                     *)
(* Mutation: the service is left registered.                                *)
LeftRegistered == "off"
AfterStop == "delete"

CanStop(b) == hold[b] = "opened" /\ driver = "running"

StopDriver(b) ==
    /\ bpc[b] = "stop"
    /\ \/ /\ CanStop(b)
          /\ AskedToStop
          /\ Goto(b, AfterStop)
          /\ UNCHANGED <<vars, orphan, hold, faultVars>>
       \/ /\ FailsIf(~CanStop(b))
          /\ Hold(b, "none")
          /\ Goto(b, "off")
          /\ UNCHANGED <<vars, driverVars>>
    /\ UNCHANGED <<fileVars, entry, starter>>

(* ... and deletes the service if that succeeded.  The file stays.          *)
DeleteService(b) ==
    /\ bpc[b] = "delete"
    /\ Hold(b, "none")
    /\ Goto(b, "off")
    /\ \/ entry = "listed" /\ entry' = "marked" /\ UNCHANGED faultVars
       \/ FailsIf(entry # "listed") /\ UNCHANGED entry
    /\ UNCHANGED <<vars, driverVars, fileVars, starter>>

Unload ==
    /\ DriverUnload
    /\ UNCHANGED serviceVars

RemoveEntry ==
    /\ entry = "marked"
    /\ \A b \in Brokers : hold[b] = "none"
    /\ driver = "unloaded"
    /\ entry' = "none"
    /\ UNCHANGED <<vars, driverVars, fileVars, hold, bpc, starter, faultVars>>

(* A broker is killed: its handles are closed, and that is all.             *)
Crash(b) ==
    /\ bpc[b] # "off"
    /\ crashes < MaxCrashes
    /\ crashes' = crashes + 1
    /\ Goto(b, "off")
    /\ Hold(b, "none")
    /\ writer' = IF writer = b THEN None ELSE writer
    /\ starter' = IF starter = b THEN None ELSE starter
    /\ Exit(b)
    /\ UNCHANGED <<driverVars, file, entry, failures>>
-----------------------------------------------------------------------------
Broker(b) ==
    \/ StartBroker(b)
    \/ OpenFile(b) \/ WriteFile(b)
    \/ CreateService(b) \/ OpenService(b) \/ StartService(b)
    \/ StopDriver(b) \/ DeleteService(b)

ServiceNext ==
    \/ \E b \in Brokers : Broker(b) \/ Leave(b) \/ Crash(b)
    \/ DriverEntry \/ Unload \/ RemoveEntry
    \/ \E p \in Processes : UseDevice(p)

ServiceSpec == ServiceInit /\ [][ServiceNext]_allVars

(* The steps of a broker and of the system go on; whoever runs a broker     *)
(* ends one whose setup failed; a client does not keep a driver that was    *)
(* asked to stop.  Nobody has to start a broker.                            *)
ServiceFairness ==
    /\ \A b \in Brokers :
          /\ WF_allVars(bpc[b] # "off" /\ Broker(b))
          /\ WF_allVars(bpc[b] = "failed" /\ Leave(b))
    /\ WF_allVars(DriverEntry)
    /\ WF_allVars(Unload)
    /\ WF_allVars(RemoveEntry)
    /\ \A p \in Processes \ Brokers :
          /\ WF_allVars(CommandDone(p) /\ UNCHANGED serviceVars)
          /\ SF_allVars(driver = "stopping" /\ CloseDevice(p) /\ UNCHANGED serviceVars)

FairServiceSpec == ServiceSpec /\ ServiceFairness
-----------------------------------------------------------------------------
(* The driver and its service are in one of the states that the SCM knows,  *)
(* each broker at a step of ServiceManager; the session keeps its types.    *)
ServiceTypeOK ==
    /\ TypeOK
    /\ driver \in DriverStates
    /\ orphan \in BOOLEAN
    /\ file \in {"none", "partial", "whole"}
    /\ writer \in Brokers \cup {None}
    /\ entry \in {"none", "listed", "marked"}
    /\ hold \in [Brokers -> {"none", "created", "opened"}]
    /\ bpc \in [Brokers -> {"off", "extract", "write", "create", "open", "start",
                            "starting", "ready", "failed", "stop", "delete"}]
    /\ starter \in Brokers \cup {None}
    /\ crashes \in 0 .. MaxCrashes
    /\ failures \in 0 .. MaxFailures

(* When the last broker has gone, none killed and no call refused without a *)
(* cause, the driver does not stay loaded nor the service registered, in    *)
(* whatever order several brokers started, failed and stopped each other.   *)
NothingLeft ==
    (\A b \in Brokers : bpc[b] = "off") /\ crashes = 0 /\ failures = 0 =>
        /\ driver \in {"unloaded", "stopping"}
        /\ entry \in {"none", "marked"}

(* What a killed broker or a failed call leaves is no dead end: the setup   *)
(* that fails on it clears it away, and a broker that is started again and  *)
(* again, no other running, is ready in the end.  There are two exceptions: *)
(* DriverEntry left a device; or one broker has deleted the service that    *)
(* another had just started, and that one was killed, so that the driver    *)
(* runs and nobody gets a handle to stop it with.                           *)
Unstoppable ==
    /\ driver = "running"
    /\ entry = "marked"
    /\ \A b \in Brokers : hold[b] = "none"

Recovers ==
    \A b \in Brokers :
        /\ <>[](\A c \in Brokers \ {b} : bpc[c] = "off")
        /\ []<>(bpc[b] # "off")
        => <>[]orphan \/ <>[]Unstoppable \/ []<>(bpc[b] = "ready")

(* However brokers load and unload the driver, start, fail and are killed,  *)
(* its device behaves as DeviceSession says: a context is replaced only     *)
(* when nobody has the device open.                                         *)
ImplementsSessions == Spec
=============================================================================
