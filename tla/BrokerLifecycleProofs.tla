------------------------- MODULE BrokerLifecycleProofs -------------------------
(***************************************************************************)
(* Proofs about BrokerLifecycle, for any modes, with and without failures. *)
(***************************************************************************)
EXTENDS BrokerLifecycle, TLAPS

Places == {"setup", "open", "ready", "run", "serve", "leave", "done", "failed"}

Inv == TypeOK /\ DriverOutlivesHandles

(* The places at which the thread of a manager has ended.                   *)
Ended == {"done", "failed"}

(* What the steps of a manager's thread have in common: it moves, maybe     *)
(* announces a state, never unloads the driver, opens the device only while *)
(* that is loaded, and having ended does not move again.                    *)
Moves(m) ==
    /\ state' \in Uninitialized .. Finished
    /\ notifying' \in [Managers -> Seq(Managers)]
    /\ \E place \in Places : pc' = [pc EXCEPT ![m] = place]
    /\ handles \subseteq handles' /\ handles' \subseteq handles \cup {m}
    /\ handles' \subseteq {"Irp", "Driver"}
    /\ m \in handles' => loaded \/ m \in handles
    /\ pc[m] \notin Ended
    /\ loaded' \in BOOLEAN /\ (loaded => loaded')
    /\ failed' \in BOOLEAN
    /\ UNCHANGED <<changed, terminated, termination, stopping, main, mode, privileged,
                   service>>

LEMMA InvInit == Init => Inv
  <1> SUFFICES ASSUME Init PROVE Inv
      OBVIOUS
  <1>1. ThreadsStart \in [Managers -> Places]
      BY DEF ThreadsStart, Places
  <1>2. NobodyToNotify \in [Managers -> Seq(Managers)]
      BY DEF NobodyToNotify
  <1>3. TypeOK
    <2>1. 0 \in 0 .. 6
        OBVIOUS
    <2>2. pc \in [Managers -> {"setup", "open", "ready", "run", "serve", "leave",
                              "done", "failed"}]
        BY <1>1 DEF Init, Places
    <2>3. state \in Uninitialized .. Finished
        BY DEF Init, Uninitialized, Finished
    <2> QED BY <1>2, <2>1, <2>2, <2>3 DEF Init, TypeOK
  <1>4. DriverOutlivesHandles
      BY DEF Init, DriverOutlivesHandles
  <1> QED BY <1>3, <1>4 DEF Inv

LEMMA MovesKeep ==
  ASSUME Inv, NEW m \in Managers, Moves(m)
  PROVE  Inv'
  <1> USE DEF Inv
  <1>1. TypeOK'
      BY DEF Moves, TypeOK, Places
  <1>2. m \in handles' => loaded'
      BY DEF Moves, DriverOutlivesHandles, Ended
  <1>3. \A n \in handles' : n # m => n \in handles /\ pc'[n] = pc[n]
      BY DEF Moves, TypeOK
  <1>4. DriverOutlivesHandles'
      BY <1>2, <1>3 DEF Moves, DriverOutlivesHandles
  <1> QED BY <1>1, <1>4

LEMMA WaitMoves ==
  ASSUME Inv, NEW m \in Managers, NEW wanted, NEW from, NEW to \in Places,
         WaitForState(m, wanted, from, to),
         from \notin Ended
  PROVE  Moves(m)
  BY DEF WaitForState, At, Goto, Moves, Inv, TypeOK, globalVars, processVars

LEMMA SetStateMoves ==
  ASSUME Inv, NEW m \in Managers, NEW new \in Uninitialized .. Finished,
         NEW from, NEW to \in Places, SetState(m, new, from, to),
         from \notin Ended
  PROVE  Moves(m)
  <1>1. <<"Service", "Connector", "Irp", "Driver">> \in Seq(Managers)
      BY DEF Managers
  <1>2. notifying' \in [Managers -> Seq(Managers)]
      BY <1>1 DEF SetState, Inv, TypeOK
  <1>3. state' \in Uninitialized .. Finished
      BY DEF SetState, Uninitialized, Finished, Running, ConnectorManagerReady,
             ServiceManagerDone
  <1> QED BY <1>2, <1>3 DEF SetState, At, Goto, Moves, Inv, TypeOK, processVars

LEMMA LoadMoves ==
  ASSUME Inv, LoadDriver
  PROVE  Moves("Service")
  <1>1. /\ \/ pc' = [pc EXCEPT !["Service"] = "ready"] /\ loaded' = TRUE
              /\ failed' = failed
           \/ pc' = [pc EXCEPT !["Service"] = "failed"] /\ loaded' = loaded
              /\ failed' = TRUE
        /\ pc["Service"] = "open"
        /\ UNCHANGED <<globalVars, notifying, main, mode, privileged, handles, service>>
      BY DEF LoadDriver, SetupFails, At, Goto, processVars
  <1>2. "ready" \in Places /\ "failed" \in Places /\ "open" \notin Ended
      BY DEF Places, Ended
  <1>3. "Service" \notin handles
      BY DEF Inv, TypeOK
  <1>4. loaded' \in BOOLEAN /\ (loaded => loaded') /\ failed' \in BOOLEAN
    <2>1. loaded \in BOOLEAN /\ failed \in BOOLEAN
        BY DEF Inv, TypeOK
    <2> QED BY <1>1, <2>1, Zenon
  <1> QED BY <1>1, <1>2, <1>3, <1>4 DEF Moves, Inv, TypeOK, globalVars

LEMMA OpenMoves ==
  ASSUME Inv, NEW m \in {"Irp", "Driver"}, NEW next \in Places, OpenDevice(m, next)
  PROVE  Moves(m)
  <1>1. \/ /\ pc' = [pc EXCEPT ![m] = next] /\ loaded /\ failed' = failed
           /\ handles' = handles \cup {m}
        \/ /\ \E place \in Places : pc' = [pc EXCEPT ![m] = place]
           /\ failed' = TRUE
           /\ handles' = handles
      BY DEF OpenDevice, Goto, Places
  <1>2. UNCHANGED <<globalVars, notifying, main, mode, privileged, loaded, service>>
      BY DEF OpenDevice
  <1>3. pc[m] \notin Ended
      BY DEF OpenDevice, At, Ended
  <1> QED BY <1>1, <1>2, <1>3 DEF Moves, Inv, TypeOK, globalVars, Managers

LEMMA ServeMoves ==
  ASSUME Inv, NEW m \in Managers, NEW event, NEW next \in Places, Serve(m, event, next)
  PROVE  Moves(m)
  BY DEF Serve, At, Goto, Moves, Ended, Inv, TypeOK, globalVars, processVars

LEMMA ManagersKeep ==
  ASSUME Inv, ServiceManager \/ IrpManager \/ ConnectorManager \/ DriverManager
  PROVE  Inv'
  <1> USE DEF Places, Managers, Uninitialized, ServiceManagerReady, IrpManagerReady,
              ConnectorManagerReady, Running, ConnectorManagerDone, IrpManagerDone,
              ServiceManagerDone, Finished, Ended
  <1>1. CASE ServiceManager
      BY <1>1, LoadMoves, WaitMoves, SetStateMoves, MovesKeep DEF ServiceManager
  <1>2. CASE IrpManager
      BY <1>2, WaitMoves, SetStateMoves, OpenMoves, ServeMoves, MovesKeep DEF IrpManager
  <1>3. CASE ConnectorManager
      BY <1>3, WaitMoves, SetStateMoves, ServeMoves, MovesKeep DEF ConnectorManager
  <1>4. CASE DriverManager
      BY <1>4, WaitMoves, OpenMoves, ServeMoves, MovesKeep DEF DriverManager
  <1> QED BY <1>1, <1>2, <1>3, <1>4

LEMMA InvStep == Inv /\ [Next]_vars => Inv'
  <1> SUFFICES ASSUME Inv, [Next]_vars PROVE Inv'
      OBVIOUS
  <1> USE DEF Inv
  <1>1. CASE ServiceManager \/ IrpManager \/ ConnectorManager \/ DriverManager
      BY <1>1, ManagersKeep
  <1>2. ASSUME NEW m \in Managers, NotifyStateChange(m) PROVE Inv'
    <2>1. notifying[m] \in Seq(Managers) /\ notifying[m] # <<>>
        BY <1>2 DEF NotifyStateChange, TypeOK
    <2>2. Head(notifying[m]) \in Managers /\ Tail(notifying[m]) \in Seq(Managers)
        BY <2>1
    <2> QED BY <1>2, <2>2 DEF NotifyStateChange, TypeOK, DriverOutlivesHandles, processVars
  <1>3. CASE ListenerFails
      BY <1>3 DEF ListenerFails, At, Goto, TypeOK, DriverOutlivesHandles, Managers,
                  processVars
  <1>4. CASE CtrlC
      BY <1>4 DEF CtrlC, TypeOK, DriverOutlivesHandles, processVars
  <1>5. CASE Stop
    <2>1. stopping \in 1 .. 4 =>
              <<"Service", "Connector", "Irp", "Driver">>[stopping] \in Managers
        BY DEF Managers
    <2>2. stopping \in 1 .. 5 /\ stopping' = stopping + 1
        BY <1>5 DEF Stop, StopSteps
    <2>3. terminated' \subseteq Managers /\ termination' \in BOOLEAN
      <3>1. CASE stopping <= 4
          BY <1>5, <2>1, <2>2, <3>1 DEF Stop, TypeOK
      <3>2. CASE ~(stopping <= 4)
          BY <1>5, <3>2 DEF Stop, TypeOK
      <3> QED BY <3>1, <3>2
    <2>4. UNCHANGED <<state, changed, pc, notifying, processVars, failed>>
        BY <1>5 DEF Stop
    <2>5. TypeOK'
        BY <2>2, <2>3, <2>4 DEF TypeOK, processVars
    <2>6. DriverOutlivesHandles'
        BY <2>4 DEF DriverOutlivesHandles, processVars
    <2> QED BY <2>5, <2>6
  <1>6. CASE AcquirePrivileges \/ RunAsBackgroundService \/ MainReturns
    <2>1. UNCHANGED <<globalVars, pc, notifying, mode, loaded, handles, failed>>
        BY <1>6 DEF AcquirePrivileges, RunAsBackgroundService, MainReturns, MainTo
    <2>2. /\ main' \in {"wait", "destroy", main}
          /\ privileged' \in BOOLEAN
          /\ service' \in {"running", service}
        BY <1>6 DEF AcquirePrivileges, RunAsBackgroundService, MainReturns, MainTo, TypeOK
    <2>3. TypeOK'
        BY <2>1, <2>2 DEF TypeOK, globalVars
    <2>4. DriverOutlivesHandles'
        BY <2>1 DEF DriverOutlivesHandles
    <2> QED BY <2>3, <2>4
  <1>7. CASE Destroy
    <2>1. \A m \in {"Irp", "Driver"} : pc[m] \in {"done", "failed"}
        BY <1>7 DEF Destroy, Joined, At, Managers
    <2>2. loaded' \in BOOLEAN /\ pc' = pc /\ handles' = handles
        BY <1>7 DEF Destroy, MainTo, TypeOK
    <2>3. TypeOK'
        BY <1>7, <2>2 DEF Destroy, MainTo, TypeOK, globalVars
    <2> QED BY <2>1, <2>2, <2>3 DEF DriverOutlivesHandles, TypeOK
  <1>8. CASE ScmStops \/ RunForeverEnds
    <2>1. /\ service' \in {"stopping", "stopped"}
          /\ UNCHANGED <<globalVars, pc, notifying, main, mode, privileged, loaded,
                         handles, failed>>
        BY <1>8 DEF ScmStops, RunForeverEnds, ServiceGoes
    <2>2. TypeOK'
        BY <2>1 DEF TypeOK, globalVars
    <2>3. DriverOutlivesHandles'
        BY <2>1 DEF DriverOutlivesHandles
    <2> QED BY <2>2, <2>3
  <1>9. CASE UNCHANGED vars
      BY <1>9 DEF vars, globalVars, processVars, TypeOK, DriverOutlivesHandles
  <1> QED BY <1>1, <1>2, <1>3, <1>4, <1>5, <1>6, <1>7, <1>8, <1>9 DEF Next

(* TypeOK; with it, that the state stays among those of State and that the  *)
(* notifications a SetState still has to send are to the four managers.     *)
THEOREM LifecycleTypes == Spec => []TypeOK
  BY InvInit, InvStep, PTL DEF Spec, Inv

(* Whatever fails and whichever way main() ends, ~GlobalContext joins the   *)
(* threads that use the device before the ServiceManager's destructor stops *)
(* the driver under it.                                                     *)
THEOREM DriverIsLast == Spec => []DriverOutlivesHandles
  BY InvInit, InvStep, PTL DEF Spec, Inv
=============================================================================
