--------------------------- MODULE DriverLifecycle ---------------------------
(***************************************************************************)
(* How the driver comes and goes: the steps of DriverEntry with what each  *)
(* undoes when it fails, the window in which the device can be opened and  *)
(* the driver does not know it yet, and DriverUnloadRoutine.  The I/O      *)
(* manager (external) calls DriverUnloadRoutine when a stop was asked for  *)
(* and no handle is left, and lets nobody open the device in between.      *)
(* Who asks for the loading and the stop is in DriverService.              *)
(***************************************************************************)
EXTENDS DeviceSession

VARIABLES
    driver,   \* how far DriverEntry got, or the way out
    orphan    \* a device that a failed DriverEntry left in the namespace

driverVars == <<driver, orphan>>

DriverStates ==
    {"unloaded", "context", "device", "linked", "open", "running", "stopping"}

DriverInit ==
    /\ driver = "unloaded"
    /\ orphan = FALSE

DriverIs(state) == driver' = state

(* Globals = new GlobalContext(), and the dispatch table.                   *)
EnterDriver ==
    /\ DriverIs("context")
    /\ ResetContext
    /\ UNCHANGED orphan

(* The device has a name, which one left behind still holds.                *)
CreateDevice ==
    /\ driver = "context"
    /\ ~orphan
    /\ DriverIs("device")
    /\ UNCHANGED <<vars, orphan>>

CreateSymbolicLink ==
    /\ driver = "device"
    /\ DriverIs("linked")
    /\ UNCHANGED <<vars, orphan>>

(* DO_DEVICE_INITIALIZING is cleared: from here on the device can be opened.*)
ClearInitializing ==
    /\ driver = "linked"
    /\ DriverIs("open")
    /\ UNCHANGED <<vars, orphan>>

(* Globals->DeviceObject is set, and StartService returns.                  *)
PublishDevice ==
    /\ driver = "open"
    /\ DriverIs("running")
    /\ UNCHANGED <<vars, orphan>>

(* CleanupOnFailure deletes the context, and the device only if the context *)
(* knows of it: it is told after the last step that can fail.               *)
CleanupOnFailure ==
    /\ \/ driver = "context"
       \/ driver = "device"
    /\ DriverIs("unloaded")
    /\ orphan' = (orphan \/ driver = "device")
    /\ UNCHANGED vars

(* The three routines need a device that can be opened, and a command is    *)
(* refused until the driver knows its own device.                           *)
OpenDevice(p) ==
    /\ driver \in {"open", "running"}
    /\ Create(p)
    /\ UNCHANGED driverVars

CloseDevice(p) ==
    /\ Close(p) \/ CloseMeanwhile(p)
    /\ UNCHANGED driverVars

Command(p) ==
    /\ IF driver = "open" THEN RefuseUnknownDevice(p) ELSE DeviceControl(p)
    /\ UNCHANGED driverVars

CommandDone(p) ==
    /\ Execute(p)
    /\ UNCHANGED driverVars

(* A stop is asked for, and DriverUnloadRoutine is called in the end, by    *)
(* when no handle on the device is left.                                    *)
(* Mutation: the driver goes at once.                                       *)
AskedToStop ==
    /\ driver = "running"
    /\ DriverIs("stopping")

AtOnce == TRUE
NobodyHasItOpen == \A p \in Processes : handles[p] = 0

DriverUnload ==
    /\ driver = "stopping"
    /\ NobodyHasItOpen
    /\ DriverIs("unloaded")
    /\ UNCHANGED <<vars, orphan>>
=============================================================================
