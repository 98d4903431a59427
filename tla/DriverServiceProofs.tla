-------------------------- MODULE DriverServiceProofs --------------------------
(***************************************************************************)
(* Proofs about the driver's device and what is around it.  First          *)
(* DeviceSession alone, for any set of processes, any number of handles    *)
(* and any width of the session number.  Then DriverService, for any       *)
(* number of brokers and clients, of crashes and of failed calls: the      *)
(* device behaves as DeviceSession says, whose theorems therefore hold of  *)
(* a driver that is loaded and unloaded too, and nothing is left when the  *)
(* last broker has gone.                                                   *)
(***************************************************************************)
EXTENDS DriverService, TLAPS

(* The session number stays in its width, whatever the width is.            *)
LEMMA NextSessionType ==
  ASSUME session \in 0 .. Width - 1
  PROVE  NextSession \in 0 .. Width - 1
  BY SessionAssumption DEF NextSession

(* What makes the invariants inductive: a command granted is that of a      *)
(* process with a handle, and `doubled` does record what it says it does.   *)
Granted == \A p \in Processes : pc[p] = "granted" => handles[p] > 0

NoneDoubled == ~doubled => \A p \in Processes : handles[p] \in {0, 1}

Inv == TypeOK /\ OwnerIsPresent /\ Granted /\ NoneDoubled /\ Exclusive

LEMMA InvInit == Init => Inv
  <1> SUFFICES ASSUME Init PROVE Inv
      OBVIOUS
  <1>1. TypeOK
    <2>1. Width - 1 \in 0 .. Width - 1 /\ 0 \in 0 .. MaxHandles
        BY SessionAssumption
    <2> QED BY <2>1 DEF Init, TypeOK, Answers
  <1>2. OwnerIsPresent /\ Granted /\ NoneDoubled /\ Exclusive
      BY SessionAssumption DEF Init, OwnerIsPresent, Granted, NoneDoubled, Exclusive
  <1> QED BY <1>1, <1>2 DEF Inv

LEMMA InvStep == Inv /\ [Next]_vars => Inv'
  <1> SUFFICES ASSUME Inv, [Next]_vars PROVE Inv'
      OBVIOUS
  <1> USE SessionAssumption DEF Inv, TypeOK, Answers
  <1>1. ASSUME NEW p \in Processes, Create(p) PROVE Inv'
    <2>1. CASE UNCHANGED <<owner, session, handles, doubled>>
      <3>1. answer' \in {"privilege_not_held", "success", "already_attached"} /\ pc' = pc
          BY <1>1 DEF Create, Answer
      <3>2. TypeOK'
          BY <2>1, <3>1
      <3> QED BY <2>1, <3>1, <3>2
             DEF OwnerIsPresent, Granted, NoneDoubled, Exclusive
    <2>2. CASE /\ p \in Privileged
               /\ owner \in {None, p}
               /\ owner' = p
               /\ session' = SessionAfterOpen(p)
               /\ handles' = [handles EXCEPT ![p] = @ + 1]
               /\ doubled' = (doubled \/ handles[p] > 0)
               /\ Answer("success")
      <3>1. session' \in 0 .. Width - 1
          BY <2>2, NextSessionType DEF SessionAfterOpen
      <3>2. handles' \in [Processes -> 0 .. MaxHandles] /\ pc' = pc /\ pc[p] = "idle"
          BY <1>1, <2>2 DEF Create
      <3>3. answer' = "success"
          BY <2>2 DEF Answer
      <3>4. TypeOK'
          BY <2>2, <3>1, <3>2, <3>3
      <3>5. handles'[p] = handles[p] + 1 /\ \A q \in Processes : q # p => handles'[q] = handles[q]
          BY <2>2
      <3>6. OwnerIsPresent' /\ Granted'
        <4>1. handles[p] \in Nat
            OBVIOUS
        <4>2. OwnerIsPresent'
            BY <2>2, <3>5, <4>1 DEF OwnerIsPresent
        <4>3. Granted'
            BY <3>2, <3>5 DEF Granted
        <4> QED BY <4>2, <4>3
      <3>7. NoneDoubled'
        <4>1. ~doubled' => ~doubled /\ ~(handles[p] > 0)
            BY <2>2, Zenon
        <4>2. ~(handles[p] > 0) => handles'[p] = 1
            BY <3>5
        <4> QED BY <3>5, <4>1, <4>2 DEF NoneDoubled
      <3>8. Exclusive'
          BY <2>2, <3>2, <3>3 DEF Exclusive
      <3> QED BY <3>4, <3>6, <3>7, <3>8
    <2> QED BY <1>1, <2>1, <2>2 DEF Create
  <1>2. ASSUME NEW p \in Processes, Close(p) PROVE Inv'
    <2>1. TypeOK'
        BY <1>2 DEF Close, Answer, OwnerAfterClose
    <2>2. OwnerIsPresent' /\ Granted' /\ NoneDoubled'
        BY <1>2 DEF Close, OwnerAfterClose, OwnerIsPresent, Granted, NoneDoubled
    <2>3. Exclusive'
      <3>1. ~doubled => owner = p /\ handles[p] = 1
          BY <1>2 DEF Close, NoneDoubled, Exclusive
      <3>2. handles' = [handles EXCEPT ![p] = @ - 1] /\ pc' = pc /\ pc[p] = "idle"
          BY <1>2 DEF Close
      <3>3. owner' = None /\ doubled' = doubled /\ answer' = "success"
          BY <1>2 DEF Close, OwnerAfterClose, Answer
      <3> QED BY <3>1, <3>2, <3>3 DEF Exclusive
    <2> QED BY <2>1, <2>2, <2>3
  <1>3. ASSUME NEW p \in Processes, DeviceControl(p) PROVE Inv'
    <2>1. TypeOK' /\ UNCHANGED <<owner, session, handles, doubled>>
        BY <1>3 DEF DeviceControl, Answer
    <2>2. OwnerIsPresent' /\ Granted' /\ NoneDoubled'
        BY <1>3, <2>1 DEF DeviceControl, OwnerIsPresent, Granted, NoneDoubled
    <2>3. Exclusive'
        BY <1>3, <2>1 DEF DeviceControl, Answer, Exclusive
    <2> QED BY <2>1, <2>2, <2>3
  <1>4. ASSUME NEW p \in Processes, Execute(p) PROVE Inv'
      BY <1>4 DEF Execute, Answer, OwnerIsPresent, Granted, NoneDoubled, Exclusive
  <1>5. ASSUME NEW p \in Processes, CloseMeanwhile(p) PROVE Inv'
    <2>1. TypeOK'
        BY <1>5 DEF CloseMeanwhile, OwnerAfterClose
    <2>2. OwnerIsPresent' /\ Granted' /\ doubled' /\ doubled
        BY <1>5 DEF CloseMeanwhile, OwnerAfterClose, OwnerIsPresent, Granted, NoneDoubled
    <2> QED BY <2>1, <2>2 DEF NoneDoubled, Exclusive
  <1>6. ASSUME NEW p \in Processes, RefuseUnknownDevice(p) PROVE Inv'
      BY <1>6 DEF RefuseUnknownDevice, Answer, OwnerIsPresent, Granted, NoneDoubled, Exclusive
  <1>7. ASSUME NEW p \in Processes, Exit(p) PROVE Inv'
    <2>1. /\ handles' = [handles EXCEPT ![p] = 0] /\ pc' = [pc EXCEPT ![p] = "idle"]
          /\ owner' = IF handles[p] > 0 THEN None ELSE owner
          /\ answer' = answer /\ doubled' = doubled /\ session' = session
        BY <1>7 DEF Exit, OwnerAfterClose
    <2>2. 0 \in 0 .. MaxHandles
        OBVIOUS
    <2>3. TypeOK' /\ OwnerIsPresent' /\ Granted' /\ NoneDoubled'
        BY <2>1, <2>2 DEF OwnerIsPresent, Granted, NoneDoubled
    <2>4. Exclusive'
        BY <2>1 DEF Exclusive
    <2> QED BY <2>3, <2>4
  <1>8. CASE NewContext
    <2>1. Width - 1 \in 0 .. Width - 1
        OBVIOUS
    <2> QED BY <1>8, <2>1
            DEF NewContext, ResetContext, OwnerIsPresent, Granted, NoneDoubled, Exclusive
  <1>9. CASE UNCHANGED vars
      BY <1>9 DEF vars, OwnerIsPresent, Granted, NoneDoubled, Exclusive
  <1> QED BY <1>1, <1>2, <1>3, <1>4, <1>5, <1>6, <1>7, <1>8, <1>9 DEF Next

(* TypeOK: what the variables hold; with it, that the session number stays  *)
(* in the width of its field however many sessions there are.               *)
THEOREM Types == Spec => []TypeOK
  BY InvInit, InvStep, PTL DEF Spec, Inv

(* The device is always owned by nobody or by a privileged process that has *)
(* a handle on it and so will release it: DriverCreateRoutine and           *)
(* DriverCloseRoutine never leave it locked to a process that has gone.     *)
THEOREM OwnerSound == Spec => []OwnerIsPresent
  BY InvInit, InvStep, PTL DEF Spec, Inv

(* Processes that open one handle at a time have the device to themselves,  *)
(* and the unlocked check of DriverDeviceControlRoutine is then sound.      *)
THEOREM OneHandleIsExclusive == Spec => []Exclusive
  BY InvInit, InvStep, PTL DEF Spec, Inv
-----------------------------------------------------------------------------
(* Each owner starts a session of its own, and no session starts or changes *)
(* without a new owner: needs that a number and its successor differ, so    *)
(* that a width of one would not do.                                        *)
LEMMA NextSessionDiffers ==
  ASSUME Width > 1, session \in 0 .. Width - 1
  PROVE  NextSession # session
  <1>1. CASE session = Width - 1
      BY <1>1, SessionAssumption DEF NextSession
  <1>2. CASE session < Width - 1
    <2>1. (session + 1) % Width = session + 1
        BY <1>2, SessionAssumption
    <2> QED BY <2>1 DEF NextSession
  <1> QED BY <1>1, <1>2, SessionAssumption

LEMMA SessionStep ==
  ASSUME Width > 1, Inv, [Next]_vars
  PROVE  [/\ owner' # owner => None \in {owner, owner'}
          /\ owner = None /\ owner' # None => session' # session
          /\ owner # None => session' = session]_vars
  <1> USE SessionAssumption DEF Inv, TypeOK
  <1>1. ASSUME NEW p \in Processes, Create(p)
        PROVE  /\ owner' # owner => None \in {owner, owner'}
               /\ owner = None /\ owner' # None => session' # session
               /\ owner # None => session' = session
      BY <1>1, NextSessionDiffers DEF Create, SessionAfterOpen
  <1>2. ASSUME NEW p \in Processes, Close(p) \/ CloseMeanwhile(p)
        PROVE  owner' = None /\ session' = session
      BY <1>2 DEF Close, CloseMeanwhile, OwnerAfterClose
  <1>3. ASSUME NEW p \in Processes, DeviceControl(p) \/ Execute(p) \/ RefuseUnknownDevice(p)
        PROVE  owner' = owner /\ session' = session
      BY <1>3 DEF DeviceControl, Execute, RefuseUnknownDevice
  <1>4. ASSUME NEW p \in Processes, Exit(p)
        PROVE  owner' \in {None, owner} /\ session' = session
      BY <1>4 DEF Exit, OwnerAfterClose
  <1>5. ASSUME NewContext
        PROVE  owner = None /\ owner' = None
      BY <1>5 DEF NewContext, ResetContext, OwnerIsPresent
  <1> QED BY <1>1, <1>2, <1>3, <1>4, <1>5 DEF Next

(* SessionPerOwner, for every width that has at least two numbers.          *)
THEOREM SessionsAreSeparate ==
  ASSUME Width > 1
  PROVE  Spec => SessionPerOwner
  <1>1. Inv /\ [Next]_vars =>
            [/\ owner' # owner => None \in {owner, owner'}
             /\ owner = None /\ owner' # None => session' # session
             /\ owner # None => session' = session]_vars
      BY SessionStep
  <1> QED BY <1>1, InvInit, InvStep, PTL DEF Spec, SessionPerOwner
-----------------------------------------------------------------------------
(* A device that cannot be opened yet, or no more, is not open.             *)
Closed ==
    driver \in {"unloaded", "context", "device", "linked"} =>
        \A p \in Processes : handles[p] = 0

Shape ==
    /\ handles \in [Processes -> Nat]
    /\ driver \in DriverStates
    /\ Closed

LEMMA ServiceStepIsSessionStep ==
  ASSUME Shape, [ServiceNext]_allVars
  PROVE  [Next]_vars
  <1> USE SessionAssumption, ServiceAssumption
  <1>1. ASSUME NEW b \in Brokers, Broker(b) PROVE [Next]_vars
    <2>1. CASE StartService(b)
      <3>1. CASE UNCHANGED vars
          BY <3>1
      <3>2. CASE CanStart /\ EnterDriver
          BY <3>2 DEF CanStart, EnterDriver, Shape, Closed, NewContext, Next
      <3> QED BY <2>1, <3>1, <3>2 DEF StartService
    <2>2. CASE ~StartService(b)
        BY <1>1, <2>2 DEF Broker, StartBroker, OpenFile, WriteFile, CreateService,
              OpenService, StopDriver, DeleteService
    <2> QED BY <2>1, <2>2
  <1>2. ASSUME NEW b \in Brokers, Leave(b) PROVE [Next]_vars
      BY <1>2 DEF Leave
  <1>3. ASSUME NEW b \in Brokers, Crash(b) PROVE [Next]_vars
      BY <1>3 DEF Crash, Next
  <1>4. CASE DriverEntry
      BY <1>4 DEF DriverEntry, CreateDevice, CreateSymbolicLink, ClearInitializing,
            PublishDevice, CleanupOnFailure
  <1>5. CASE Unload \/ RemoveEntry
      BY <1>5 DEF Unload, DriverUnload, RemoveEntry
  <1>6. ASSUME NEW p \in Processes, UseDevice(p) PROVE [Next]_vars
      BY <1>6 DEF UseDevice, OpenDevice, CloseDevice, Command, CommandDone, Next
  <1>7. CASE UNCHANGED allVars
      BY <1>7 DEF allVars
  <1> QED BY <1>1, <1>2, <1>3, <1>4, <1>5, <1>6, <1>7 DEF ServiceNext
(* A routine of the device that a process calls changes its handles alone.  *)
LEMMA UseKeepsShape ==
  ASSUME Shape, NEW p \in Processes, UseDevice(p)
  PROVE  Shape'
  <1> USE DEF Shape
  <1>1. driver' = driver
      BY DEF UseDevice, OpenDevice, CloseDevice, Command, CommandDone, driverVars
  <1>2. CASE OpenDevice(p)
    <2>1. driver \in {"open", "running"} /\ (handles' = handles \/ handles' = [handles EXCEPT ![p] = @ + 1])
        BY <1>2 DEF OpenDevice, Create
    <2> QED BY <1>1, <2>1 DEF Closed
  <1>3. CASE CloseDevice(p)
    <2>1. handles[p] > 0 /\ handles' = [handles EXCEPT ![p] = @ - 1]
        BY <1>3 DEF CloseDevice, Close, CloseMeanwhile
    <2> QED BY <1>1, <2>1 DEF Closed
  <1>4. CASE Command(p) \/ CommandDone(p)
    <2>1. handles' = handles
        BY <1>4 DEF Command, CommandDone, RefuseUnknownDevice, DeviceControl, Execute
    <2> QED BY <1>1, <2>1 DEF Closed
  <1> QED BY <1>2, <1>3, <1>4 DEF UseDevice

LEMMA ShapeStep == Shape /\ [ServiceNext]_allVars => Shape'
  <1> SUFFICES ASSUME Shape, [ServiceNext]_allVars PROVE Shape'
      OBVIOUS
  <1>1. ASSUME NEW b \in Brokers, Broker(b) PROVE Shape'
    <2>1. handles' = handles
        BY <1>1 DEF Broker, StartBroker, OpenFile, WriteFile, CreateService, OpenService,
              StartService, EnterDriver, ResetContext, StopDriver, DeleteService, vars
    <2>2. driver' = driver \/ (driver = "unloaded" /\ driver' = "context")
                           \/ (driver = "running" /\ driver' = "stopping")
        BY <1>1 DEF Broker, StartBroker, OpenFile, WriteFile, CreateService, OpenService,
              StartService, EnterDriver, CanStart, StopDriver, AskedToStop, CanStop,
              DriverIs, DeleteService, driverVars
    <2> QED BY <2>1, <2>2 DEF Shape, Closed, DriverStates
  <1>2. ASSUME NEW b \in Brokers, Leave(b) PROVE Shape'
      BY <1>2 DEF Leave, Shape, Closed, vars, driverVars
  <1>3. ASSUME NEW b \in Brokers, Crash(b) PROVE Shape'
    <2>1. handles' = [handles EXCEPT ![b] = 0] /\ driver' = driver
        BY <1>3 DEF Crash, Exit, driverVars
    <2> QED BY <2>1 DEF Shape, Closed
  <1>4. CASE DriverEntry
    <2>1. handles' = handles
        BY <1>4 DEF DriverEntry, CreateDevice, CreateSymbolicLink, ClearInitializing,
              PublishDevice, CleanupOnFailure, vars
    <2>2. \/ driver = "context" /\ driver' = "device"
          \/ driver = "device" /\ driver' = "linked"
          \/ driver = "linked" /\ driver' = "open"
          \/ driver = "open" /\ driver' = "running"
          \/ driver \in {"context", "device"} /\ driver' = "unloaded"
        BY <1>4 DEF DriverEntry, CreateDevice, CreateSymbolicLink, ClearInitializing,
              PublishDevice, CleanupOnFailure, DriverIs
    <2> QED BY <2>1, <2>2 DEF Shape, Closed, DriverStates
  <1>5. CASE Unload
      BY <1>5 DEF Unload, DriverUnload, DriverIs, NobodyHasItOpen, Shape, Closed, DriverStates, vars
  <1>6. CASE RemoveEntry
      BY <1>6 DEF RemoveEntry, Shape, Closed, vars, driverVars
  <1>7. CASE \E p \in Processes : UseDevice(p)
      BY <1>7, UseKeepsShape
  <1>8. CASE UNCHANGED allVars
      BY <1>8 DEF allVars, vars, driverVars, Shape, Closed
  <1> QED BY <1>1, <1>2, <1>3, <1>4, <1>5, <1>6, <1>7, <1>8 DEF ServiceNext

LEMMA ShapeInit == ServiceInit => Shape
  BY DEF ServiceInit, Init, DriverInit, Shape, Closed, DriverStates

(* The device of a driver that brokers load and unload, that fails to load  *)
(* and whose brokers are killed is a device as DeviceSession describes it:  *)
(* no context is replaced under a process that has the device open.         *)
THEOREM ServiceImplementsSessions == ServiceSpec => ImplementsSessions
  <1>1. ServiceInit => Init /\ Shape
      BY ShapeInit DEF ServiceInit
  <1>2. Shape /\ [ServiceNext]_allVars => [Next]_vars /\ Shape'
      BY ServiceStepIsSessionStep, ShapeStep
  <1> QED BY <1>1, <1>2, PTL DEF ServiceSpec, Spec, ImplementsSessions
-----------------------------------------------------------------------------
(* Why nothing is left.  Without faults, a driver that was started has a    *)
(* broker with a handle on its service that will stop it; a service that is *)
(* registered has a broker that will start its driver or delete it.  As any *)
(* broker may do either for another, the invariant names no particular one. *)
Up == {"context", "device", "linked", "open", "running"}

BrokerTypes ==
    /\ hold \in [Brokers -> {"none", "created", "opened"}]
    /\ bpc \in [Brokers -> {"off", "extract", "write", "create", "open", "start",
                            "starting", "ready", "failed", "stop", "delete"}]
    /\ driver \in DriverStates
    /\ entry \in {"none", "listed", "marked"}
    /\ crashes \in Nat
    /\ failures \in Nat

Clean == crashes = 0 /\ failures = 0

EntryHasStarter ==
    driver \in Up \ {"running"} =>
        /\ starter \in Brokers
        /\ bpc[starter] = "starting"
        /\ hold[starter] = "opened"

StarterOpened ==
    \A b \in Brokers : bpc[b] = "start" => hold[b] = "opened"

RunningWillStop ==
    driver = "running" =>
        \E b \in Brokers : bpc[b] \in {"ready", "stop"} /\ hold[b] = "opened"

StoppedWillDelete ==
    driver = "stopping" /\ entry = "listed" => \E b \in Brokers : bpc[b] = "delete"

LoadedHasEntry == driver # "unloaded" => entry # "none"

Listed ==
    driver = "unloaded" /\ entry = "listed" =>
        \E b \in Brokers :
            bpc[b] \in {"extract", "write", "create", "open", "start", "delete"}

FileIsWritten ==
    /\ writer # None => writer \in Brokers /\ bpc[writer] = "write"
    /\ writer = None => file \in {"none", "whole"}
    /\ file = "none" => \A b \in Brokers : bpc[b] \in {"off", "extract"}

CleanInv ==
    /\ ~orphan
    /\ EntryHasStarter /\ StarterOpened
    /\ RunningWillStop /\ StoppedWillDelete
    /\ LoadedHasEntry /\ Listed
    /\ FileIsWritten

LeftInv == BrokerTypes /\ (Clean => CleanInv)
(* Without faults a call fails for its reason alone.                        *)
LEMMA NoFault ==
  ASSUME BrokerTypes, Clean'
  PROVE  /\ ~Fault
         /\ UNCHANGED faultVars => Clean
  BY DEF BrokerTypes, Clean, Fault, faultVars

LEMMA TypesStep == BrokerTypes /\ [ServiceNext]_allVars => BrokerTypes'
  <1> SUFFICES ASSUME BrokerTypes, [ServiceNext]_allVars PROVE BrokerTypes'
      OBVIOUS
  <1> USE DEF BrokerTypes
  <1>1. ASSUME NEW b \in Brokers, StartBroker(b) \/ OpenFile(b) \/ WriteFile(b) PROVE BrokerTypes'
      BY <1>1 DEF StartBroker, OpenFile, WriteFile, Goto, FailsIf, Fault, faultVars, driverVars
  <1>2. ASSUME NEW b \in Brokers, CreateService(b) \/ OpenService(b) PROVE BrokerTypes'
      BY <1>2 DEF CreateService, OpenService, Goto, Hold, FailsIf, Fault, faultVars, driverVars
  <1>3. ASSUME NEW b \in Brokers, StartService(b) PROVE BrokerTypes'
      BY <1>3 DEF StartService, EnterDriver, DriverIs, DriverStates, Goto, FailsIf, Fault,
            faultVars, driverVars
  <1>4. ASSUME NEW b \in Brokers, Leave(b) PROVE BrokerTypes'
      BY <1>4 DEF Leave, Ending, Goto, faultVars, driverVars
  <1>5. ASSUME NEW b \in Brokers, StopDriver(b) PROVE BrokerTypes'
      BY <1>5 DEF StopDriver, AskedToStop, AfterStop, DriverIs, DriverStates, Goto, Hold,
            FailsIf, Fault, faultVars, driverVars
  <1>6. ASSUME NEW b \in Brokers, DeleteService(b) PROVE BrokerTypes'
      BY <1>6 DEF DeleteService, Goto, Hold, FailsIf, Fault, faultVars, driverVars
  <1>7. ASSUME NEW b \in Brokers, Crash(b) PROVE BrokerTypes'
      BY <1>7 DEF Crash, Goto, Hold, driverVars
  <1>8. CASE DriverEntry
      BY <1>8 DEF DriverEntry, CreateDevice, CreateSymbolicLink, ClearInitializing,
            PublishDevice, CleanupOnFailure, StartReturns, DriverIs, DriverStates,
            FailsIf, Fault, faultVars
  <1>9. CASE Unload \/ RemoveEntry
      BY <1>9 DEF Unload, DriverUnload, RemoveEntry, DriverIs, DriverStates, serviceVars,
            faultVars, driverVars
  <1>10. ASSUME NEW p \in Processes, UseDevice(p) PROVE BrokerTypes'
    <2>1. driver' = driver
        BY <1>10 DEF UseDevice, OpenDevice, CloseDevice, Command, CommandDone, driverVars
    <2> QED BY <1>10, <2>1 DEF UseDevice, serviceVars, faultVars
  <1>11. CASE UNCHANGED allVars
      BY <1>11 DEF allVars, serviceVars, faultVars, driverVars
  <1> QED BY <1>1, <1>2, <1>3, <1>4, <1>5, <1>6, <1>7, <1>8, <1>9, <1>10, <1>11
          DEF ServiceNext, Broker
LEMMA SetupKeepsClean ==
  ASSUME BrokerTypes, Clean', CleanInv, NEW b \in Brokers,
         \/ StartBroker(b) \/ OpenFile(b) \/ WriteFile(b)
         \/ CreateService(b) \/ OpenService(b) \/ StartService(b)
  PROVE  CleanInv'
  <1> USE ServiceAssumption, SessionAssumption DEF BrokerTypes, CleanInv
  <1>0. b # None
      OBVIOUS
  <1>1. CASE StartBroker(b)
    <2>1. bpc[b] = "off" /\ bpc' = [bpc EXCEPT ![b] = "extract"]
          /\ UNCHANGED <<driver, orphan, file, writer, entry, hold, starter>>
        BY <1>1 DEF StartBroker, Goto, driverVars, fileVars
    <2> QED BY <1>0, <2>1 DEF EntryHasStarter, StarterOpened, RunningWillStop,
               StoppedWillDelete, LoadedHasEntry, Listed, FileIsWritten
  <1>2. CASE OpenFile(b)
    <2>1. /\ bpc[b] = "extract"
          /\ UNCHANGED <<driver, orphan, entry, hold, starter>>
          /\ \/ writer = None /\ writer' = b /\ file' = "partial" /\ bpc' = [bpc EXCEPT ![b] = "write"]
             \/ writer # None /\ writer' = writer /\ file' = file /\ bpc' = [bpc EXCEPT ![b] = "failed"]
        BY <1>2, NoFault DEF OpenFile, FailsIf, Goto, driverVars, fileVars
    <2>2. file # "none" \/ writer = None
        BY DEF FileIsWritten
    <2> QED BY <1>0, <2>1, <2>2 DEF EntryHasStarter, StarterOpened, RunningWillStop,
               StoppedWillDelete, LoadedHasEntry, Listed, FileIsWritten
  <1>3. CASE WriteFile(b)
    <2>1. /\ bpc[b] = "write" /\ bpc' = [bpc EXCEPT ![b] = "create"]
          /\ writer' = None /\ file' = "whole"
          /\ UNCHANGED <<driver, orphan, entry, hold, starter>>
        BY <1>3, NoFault DEF WriteFile, Goto, driverVars
    <2> QED BY <1>0, <2>1 DEF EntryHasStarter, StarterOpened, RunningWillStop,
               StoppedWillDelete, LoadedHasEntry, Listed, FileIsWritten
  <1>4. CASE CreateService(b)
    <2>1. /\ bpc[b] = "create"
          /\ UNCHANGED <<driver, orphan, file, writer, starter>>
          /\ \/ /\ entry = "none" /\ entry' = "listed" /\ bpc' = [bpc EXCEPT ![b] = "open"]
                /\ hold' = [hold EXCEPT ![b] = "created"]
             \/ entry = "listed" /\ bpc' = [bpc EXCEPT ![b] = "open"] /\ UNCHANGED <<entry, hold>>
             \/ entry = "marked" /\ bpc' = [bpc EXCEPT ![b] = "failed"] /\ UNCHANGED <<entry, hold>>
        BY <1>4, NoFault DEF CreateService, FailsIf, Goto, Hold, driverVars, fileVars
    <2> QED BY <1>0, <2>1 DEF EntryHasStarter, StarterOpened, RunningWillStop,
               StoppedWillDelete, LoadedHasEntry, Listed, FileIsWritten
  <1>5. CASE OpenService(b)
    <2>1. /\ bpc[b] = "open"
          /\ UNCHANGED <<driver, orphan, file, writer, starter, entry>>
          /\ \/ /\ entry # "none" /\ bpc' = [bpc EXCEPT ![b] = "start"]
                /\ hold' = [hold EXCEPT ![b] = "opened"]
             \/ /\ entry = "none" /\ bpc' = [bpc EXCEPT ![b] = "failed"]
                /\ hold' = [hold EXCEPT ![b] = "none"]
        BY <1>5, NoFault DEF OpenService, FailsIf, Goto, Hold, driverVars, fileVars
    <2> QED BY <1>0, <2>1 DEF EntryHasStarter, StarterOpened, RunningWillStop,
               StoppedWillDelete, LoadedHasEntry, Listed, FileIsWritten
  <1>6. CASE StartService(b)
    <2>1. /\ bpc[b] = "start"
          /\ UNCHANGED <<orphan, file, writer, entry, hold>>
          /\ \/ /\ CanStart /\ driver' = "context" /\ starter' = b
                /\ bpc' = [bpc EXCEPT ![b] = "starting"]
             \/ ~CanStart /\ UNCHANGED <<driver, starter>> /\ bpc' = [bpc EXCEPT ![b] = "failed"]
        BY <1>6, NoFault DEF StartService, EnterDriver, DriverIs, FailsIf, Goto, driverVars, fileVars
    <2>2. FileIsWritten'
        BY <1>0, <2>1 DEF FileIsWritten
    <2>3. CASE CanStart /\ driver' = "context" /\ starter' = b
        BY <2>1, <2>2, <2>3 DEF CanStart, EntryHasStarter, StarterOpened, RunningWillStop,
               StoppedWillDelete, LoadedHasEntry, Listed
    <2>4. CASE ~CanStart /\ UNCHANGED <<driver, starter>> /\ bpc' = [bpc EXCEPT ![b] = "failed"]
      <3>1. driver = "unloaded" /\ entry = "listed" =>
                writer \in Brokers /\ writer # b /\ bpc[writer] = "write"
          BY <2>1, <2>4 DEF CanStart, FileIsWritten
      <3>2. Listed'
          BY <2>1, <2>4, <3>1 DEF Listed
      <3> QED BY <2>1, <2>2, <2>4, <3>2 DEF EntryHasStarter, StarterOpened, RunningWillStop,
               StoppedWillDelete, LoadedHasEntry
    <2> QED BY <2>1, <2>3, <2>4
  <1> QED BY <1>1, <1>2, <1>3, <1>4, <1>5, <1>6
LEMMA EndKeepsClean ==
  ASSUME BrokerTypes, Clean', CleanInv, NEW b \in Brokers,
         Leave(b) \/ StopDriver(b) \/ DeleteService(b)
  PROVE  CleanInv'
  <1> USE ServiceAssumption, SessionAssumption DEF BrokerTypes, CleanInv
  <1>1. CASE Leave(b)
    <2>1. /\ bpc[b] \in {"ready", "failed"} /\ bpc' = [bpc EXCEPT ![b] = "stop"]
          /\ UNCHANGED <<driver, orphan, file, writer, entry, hold, starter>>
        BY <1>1 DEF Leave, Ending, Goto, driverVars, fileVars
    <2> QED BY <2>1 DEF EntryHasStarter, StarterOpened, RunningWillStop,
               StoppedWillDelete, LoadedHasEntry, Listed, FileIsWritten
  <1>2. CASE StopDriver(b)
    <2>1. /\ bpc[b] = "stop"
          /\ UNCHANGED <<orphan, file, writer, entry, starter>>
          /\ \/ /\ CanStop(b) /\ driver' = "stopping" /\ hold' = hold
                /\ bpc' = [bpc EXCEPT ![b] = "delete"]
             \/ /\ ~CanStop(b) /\ driver' = driver /\ hold' = [hold EXCEPT ![b] = "none"]
                /\ bpc' = [bpc EXCEPT ![b] = "off"]
        BY <1>2, NoFault DEF StopDriver, AskedToStop, DriverIs, AfterStop, FailsIf, Goto,
              Hold, driverVars, fileVars
    <2>2. FileIsWritten' /\ ~orphan'
        BY <2>1 DEF FileIsWritten
    <2>3. CASE /\ CanStop(b) /\ driver' = "stopping" /\ hold' = hold
               /\ bpc' = [bpc EXCEPT ![b] = "delete"]
        BY <2>1, <2>2, <2>3 DEF Up, CanStop, EntryHasStarter, StarterOpened, RunningWillStop,
               StoppedWillDelete, LoadedHasEntry, Listed
    <2>4. CASE /\ ~CanStop(b) /\ driver' = driver /\ hold' = [hold EXCEPT ![b] = "none"]
               /\ bpc' = [bpc EXCEPT ![b] = "off"]
        BY <2>1, <2>2, <2>4 DEF CanStop, EntryHasStarter, StarterOpened, RunningWillStop,
               StoppedWillDelete, LoadedHasEntry, Listed
    <2> QED BY <2>1, <2>3, <2>4
  <1>3. CASE DeleteService(b)
    <2>1. /\ bpc[b] = "delete" /\ bpc' = [bpc EXCEPT ![b] = "off"]
          /\ hold' = [hold EXCEPT ![b] = "none"]
          /\ UNCHANGED <<driver, orphan, file, writer, starter>>
          /\ \/ entry = "listed" /\ entry' = "marked"
             \/ entry # "listed" /\ entry' = entry
        BY <1>3, NoFault DEF DeleteService, FailsIf, Goto, Hold, driverVars, fileVars
    <2> QED BY <2>1 DEF EntryHasStarter, StarterOpened, RunningWillStop,
               StoppedWillDelete, LoadedHasEntry, Listed, FileIsWritten
  <1> QED BY <1>1, <1>2, <1>3

LEMMA SystemKeepsClean ==
  ASSUME BrokerTypes, Clean', CleanInv, DriverEntry \/ Unload \/ RemoveEntry
  PROVE  CleanInv'
  <1> USE ServiceAssumption, SessionAssumption DEF BrokerTypes, CleanInv
  <1>1. CASE DriverEntry
    <2>1. UNCHANGED <<file, writer, entry, hold>>
        BY <1>1 DEF DriverEntry, fileVars
    <2>2. ~orphan' /\ \/ /\ driver \in {"context", "device", "linked"}
                         /\ driver' \in {"device", "linked", "open"}
                         /\ UNCHANGED <<starter, bpc>>
                      \/ driver = "open" /\ driver' = "running" /\ StartReturns("ready")
        BY <1>1, NoFault DEF DriverEntry, CreateDevice, CreateSymbolicLink, ClearInitializing,
              PublishDevice, CleanupOnFailure, DriverIs, FailsIf
    <2>3. CASE /\ driver \in {"context", "device", "linked"}
               /\ driver' \in {"device", "linked", "open"}
               /\ UNCHANGED <<starter, bpc>>
      <3>1. driver \in Up \ {"running"} /\ driver' \in Up \ {"running"}
          BY <2>3 DEF Up
      <3> QED BY <2>1, <2>2, <2>3, <3>1 DEF EntryHasStarter, StarterOpened, RunningWillStop,
               StoppedWillDelete, LoadedHasEntry, Listed, FileIsWritten, Up
    <2>4. CASE driver = "open" /\ driver' = "running" /\ StartReturns("ready")
      <3>1. starter \in Brokers /\ bpc[starter] = "starting" /\ hold[starter] = "opened"
          BY <2>4 DEF EntryHasStarter, Up
      <3>2. bpc' = [bpc EXCEPT ![starter] = "ready"]
          BY <2>4, <3>1 DEF StartReturns
      <3>3. EntryHasStarter' /\ LoadedHasEntry' /\ ~orphan'
          BY <2>1, <2>2, <2>4 DEF EntryHasStarter, LoadedHasEntry
      <3>4. RunningWillStop'
          BY <2>1, <3>1, <3>2 DEF RunningWillStop
      <3>5. StarterOpened' /\ StoppedWillDelete' /\ Listed'
          BY <2>1, <2>4, <3>1, <3>2 DEF StarterOpened, StoppedWillDelete, Listed
      <3>6. FileIsWritten'
          BY <2>1, <3>1, <3>2 DEF FileIsWritten
      <3> QED BY <3>3, <3>4, <3>5, <3>6
    <2> QED BY <2>2, <2>3, <2>4
  <1>2. CASE Unload
    <2>1. /\ driver = "stopping" /\ driver' = "unloaded"
          /\ UNCHANGED <<orphan, file, writer, entry, hold, bpc, starter>>
        BY <1>2 DEF Unload, DriverUnload, DriverIs, serviceVars, fileVars
    <2> QED BY <2>1 DEF EntryHasStarter, StarterOpened, RunningWillStop,
               StoppedWillDelete, LoadedHasEntry, Listed, FileIsWritten, Up
  <1>3. CASE RemoveEntry
    <2>1. /\ driver = "unloaded" /\ entry' = "none"
          /\ UNCHANGED <<driver, orphan, file, writer, hold, bpc, starter>>
        BY <1>3 DEF RemoveEntry, driverVars, fileVars
    <2> QED BY <2>1 DEF EntryHasStarter, StarterOpened, RunningWillStop,
               StoppedWillDelete, LoadedHasEntry, Listed, FileIsWritten, Up
  <1> QED BY <1>1, <1>2, <1>3

LEMMA LeftStep == LeftInv /\ [ServiceNext]_allVars => LeftInv'
  <1> SUFFICES ASSUME LeftInv, [ServiceNext]_allVars PROVE LeftInv'
      OBVIOUS
  <1>1. BrokerTypes'
      BY TypesStep DEF LeftInv
  <1>2. ASSUME Clean' PROVE Clean
    <2>1. crashes' \in {crashes, crashes + 1} /\ failures' \in {failures, failures + 1}
      <3>1. CASE \E p \in Processes : UseDevice(p)
          BY <3>1 DEF UseDevice, serviceVars, faultVars
      <3>2. CASE \E b \in Brokers : Broker(b) \/ Leave(b) \/ Crash(b)
          BY <3>2 DEF Broker, StartBroker, OpenFile, WriteFile, CreateService, OpenService,
                StartService, StopDriver, DeleteService, Leave, Crash, FailsIf, Fault, faultVars
      <3>3. CASE DriverEntry \/ Unload \/ RemoveEntry
          BY <3>3 DEF DriverEntry, Unload, RemoveEntry, FailsIf, Fault, serviceVars, faultVars
      <3>4. CASE UNCHANGED allVars
          BY <3>4 DEF allVars, serviceVars, faultVars
      <3> QED BY <3>1, <3>2, <3>3, <3>4 DEF ServiceNext
    <2> QED BY <1>2, <2>1 DEF Clean, LeftInv, BrokerTypes
  <1>3. ASSUME Clean' PROVE CleanInv'
    <2>1. BrokerTypes /\ CleanInv
        BY <1>2, <1>3 DEF LeftInv
    <2>2. ASSUME NEW b \in Brokers, Crash(b) PROVE FALSE
        BY <1>2, <1>3, <2>2 DEF Crash, Clean
    <2>3. CASE UNCHANGED <<driver, orphan, file, writer, entry, hold, bpc, starter>>
        BY <2>1, <2>3 DEF CleanInv, EntryHasStarter, StarterOpened, RunningWillStop,
              StoppedWillDelete, LoadedHasEntry, Listed, FileIsWritten
    <2>4. (\E p \in Processes : UseDevice(p)) \/ UNCHANGED allVars =>
              UNCHANGED <<driver, orphan, file, writer, entry, hold, bpc, starter>>
        BY DEF UseDevice, OpenDevice, CloseDevice, Command, CommandDone, allVars, driverVars,
               serviceVars, fileVars
    <2> QED BY <1>3, <2>1, <2>2, <2>3, <2>4, SetupKeepsClean, EndKeepsClean,
               SystemKeepsClean DEF ServiceNext, Broker
  <1> QED BY <1>1, <1>3 DEF LeftInv

LEMMA LeftInit == ServiceInit => LeftInv
  BY SessionAssumption
     DEF ServiceInit, DriverInit, LeftInv, BrokerTypes, CleanInv, DriverStates, Up,
         EntryHasStarter, StarterOpened, RunningWillStop, StoppedWillDelete,
         LoadedHasEntry, Listed, FileIsWritten

(* When every broker has gone and nothing went wrong, the driver does not   *)
(* stay loaded and its service does not stay registered, however many       *)
(* brokers there were and in whatever order each stopped the driver of      *)
(* another: ~ServiceManager cleans up after a Setup that failed, too.       *)
THEOREM NothingIsLeft == ServiceSpec => []NothingLeft
  <1>1. LeftInv => NothingLeft
      BY DEF LeftInv, BrokerTypes, Clean, CleanInv, NothingLeft, Up, DriverStates,
             EntryHasStarter, RunningWillStop, StoppedWillDelete, Listed
  <1> QED BY <1>1, LeftInit, LeftStep, PTL DEF ServiceSpec
-----------------------------------------------------------------------------
FaultTypes == crashes \in 0 .. MaxCrashes /\ failures \in 0 .. MaxFailures

RestTypes ==
    /\ orphan \in BOOLEAN
    /\ file \in {"none", "partial", "whole"}
    /\ writer \in Brokers \cup {None}
    /\ starter \in Brokers \cup {None}

LEMMA FaultTypesStep == FaultTypes /\ [ServiceNext]_allVars => FaultTypes'
  <1> SUFFICES ASSUME FaultTypes, [ServiceNext]_allVars PROVE FaultTypes'
      OBVIOUS
  <1> USE ServiceAssumption DEF FaultTypes
  <1>1. CASE UNCHANGED faultVars
      BY <1>1 DEF faultVars
  <1>2. CASE Fault
      BY <1>2 DEF Fault
  <1>3. ASSUME NEW b \in Brokers, Crash(b) PROVE FaultTypes'
      BY <1>3 DEF Crash
  <1>4. ASSUME NEW b \in Brokers, Broker(b) \/ Leave(b) PROVE FaultTypes'
      BY <1>1, <1>2, <1>4 DEF Broker, StartBroker, OpenFile, WriteFile, CreateService,
            OpenService, StartService, StopDriver, DeleteService, Leave, FailsIf
  <1>5. CASE DriverEntry \/ Unload \/ RemoveEntry
      BY <1>1, <1>2, <1>5 DEF DriverEntry, Unload, RemoveEntry, FailsIf, serviceVars, faultVars
  <1>6. CASE UNCHANGED allVars \/ \E p \in Processes : UseDevice(p)
      BY <1>6 DEF allVars, UseDevice, serviceVars, faultVars
  <1> QED BY <1>3, <1>4, <1>5, <1>6 DEF ServiceNext

LEMMA RestTypesStep == RestTypes /\ [ServiceNext]_allVars => RestTypes'
  <1> SUFFICES ASSUME RestTypes, [ServiceNext]_allVars PROVE RestTypes'
      OBVIOUS
  <1> USE DEF RestTypes
  <1>1. ASSUME NEW b \in Brokers, Broker(b) PROVE RestTypes'
      BY <1>1 DEF Broker, StartBroker, OpenFile, WriteFile, CreateService, OpenService,
            StartService, EnterDriver, StopDriver, AskedToStop, DeleteService, fileVars, driverVars
  <1>2. ASSUME NEW b \in Brokers, Leave(b) PROVE RestTypes'
      BY <1>2 DEF Leave, fileVars, driverVars
  <1>3. ASSUME NEW b \in Brokers, Crash(b) PROVE RestTypes'
      BY <1>3 DEF Crash, driverVars
  <1>4. CASE DriverEntry
      BY <1>4 DEF DriverEntry, CreateDevice, CreateSymbolicLink, ClearInitializing,
            PublishDevice, CleanupOnFailure, StartReturns, fileVars
  <1>5. CASE Unload \/ RemoveEntry
      BY <1>5 DEF Unload, DriverUnload, RemoveEntry, serviceVars, fileVars, driverVars
  <1>6. ASSUME NEW p \in Processes, UseDevice(p) PROVE RestTypes'
      BY <1>6 DEF UseDevice, OpenDevice, CloseDevice, Command, CommandDone, serviceVars,
            fileVars, driverVars
  <1>7. CASE UNCHANGED allVars
      BY <1>7 DEF allVars, serviceVars, fileVars, driverVars
  <1> QED BY <1>1, <1>2, <1>3, <1>4, <1>5, <1>6, <1>7 DEF ServiceNext

(* The types of the whole machine; those of the device are DeviceSession's. *)
THEOREM ServiceTypes == ServiceSpec => []ServiceTypeOK
  <1>1. ServiceInit => BrokerTypes /\ RestTypes /\ FaultTypes
    <2>1. ServiceInit => BrokerTypes
        BY LeftInit DEF LeftInv
    <2>2. ServiceInit => RestTypes
        BY Zenon DEF ServiceInit, DriverInit, RestTypes
    <2>3. ServiceInit => FaultTypes
        BY ServiceAssumption DEF ServiceInit, FaultTypes
    <2> QED BY <2>1, <2>2, <2>3
  <1>2. BrokerTypes /\ RestTypes /\ FaultTypes /\ [ServiceNext]_allVars =>
            (BrokerTypes /\ RestTypes /\ FaultTypes)'
      BY TypesStep, RestTypesStep, FaultTypesStep
  <1>3. TypeOK /\ BrokerTypes /\ RestTypes /\ FaultTypes => ServiceTypeOK
      BY DEF BrokerTypes, RestTypes, FaultTypes, ServiceTypeOK
  <1>4. ServiceSpec => []TypeOK
      BY ServiceImplementsSessions, Types DEF ImplementsSessions
  <1> QED BY <1>1, <1>2, <1>3, <1>4, PTL DEF ServiceSpec

(* OwnerIsPresent and Exclusive across loads, unloads, failed setups and    *)
(* killed brokers: what DeviceSession's theorems say of one load holds of   *)
(* all of them, as ServiceImplementsSessions lets them be carried over.     *)
THEOREM OwnerSoundAcrossLoads == ServiceSpec => [](OwnerIsPresent /\ Exclusive)
  <1>1. ServiceSpec => []OwnerIsPresent /\ []Exclusive
      BY ServiceImplementsSessions, OwnerSound, OneHandleIsExclusive DEF ImplementsSessions
  <1> QED BY <1>1, PTL

(* A driver that is loaded again starts the numbers of its sessions over,   *)
(* which happens to no session under way: SessionPerOwner holds of          *)
(* DriverCreateRoutine and DriverCloseRoutine across loads as well.         *)
THEOREM SessionsAreSeparateAcrossLoads ==
  ASSUME Width > 1
  PROVE  ServiceSpec => SessionPerOwner
  <1>1. ServiceSpec => Spec
      BY ServiceImplementsSessions DEF ImplementsSessions
  <1> QED BY <1>1, SessionsAreSeparate
=============================================================================
