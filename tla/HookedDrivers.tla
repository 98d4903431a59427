---------------------------- MODULE HookedDrivers ----------------------------
(***************************************************************************)
(* The hooked drivers of IrpMonitor: HookedDriverManager and the list of   *)
(* HookedDriver objects it owns, and the interception routines that the    *)
(* threads doing I/O on a hooked driver run instead of the driver's own.   *)
(*                                                                         *)
(* A target is a driver with one device.  To hook it, a HookedDriver makes *)
(* a copy of the DRIVER_OBJECT whose major functions are the interception  *)
(* routine, and points the device to that copy.  The manager's operations  *)
(* are ordered by its m_Mutex; the interception routines never take it:    *)
(* they find the HookedDriver of a device under the list's own mutex and   *)
(* go on with the raw pointer.                                             *)
(***************************************************************************)
EXTENDS Integers, FiniteSets

CONSTANTS Targets,      \* the drivers one may hook (IrpMonitor is refused)
          FastTargets,  \* those that have a FastIoDispatch table
          Hooks,        \* the HookedDriver objects, each allocated once
          Admins,       \* threads that issue IOCTLs on the device
          Threads,      \* threads that do I/O on the targets
          MaxHooked,    \* CFB_MAX_HOOKED_DRIVERS
          MaxDepth,     \* bound: nested interceptions that are followed
          None

ASSUME HookAssumption ==
    /\ FastTargets \subseteq Targets
    /\ MaxHooked \in Nat \ {0}
    /\ MaxDepth \in Nat
    /\ IsFiniteSet(Hooks)
    /\ None \notin Hooks \cup Admins \cup Targets

VARIABLES
    live,         \* HookedDriver objects: "unborn", "live" or "freed"
    target,       \* OriginalDriverObject
    state,        \* m_State
    capturing,    \* m_CapturingEnabled
    listed,       \* m_Entries; the order of the list plays no part
    total,        \* LinkedList::m_TotalEntry, what Size() returns
    mutex,        \* owner of HookedDriverManager::m_Mutex
    driverObject, \* of each target's device: the copy of a hook, or None
    fastPatched,  \* targets whose fast I/O table holds the interceptors
    refs          \* references IrpMonitor holds on each target

hookVars == <<live, target, state, capturing, listed, total, mutex,
              driverObject, fastPatched, refs>>

VARIABLES
    apc,          \* where each admin is in InsertDriver or RemoveDriver
    arg,          \* the driver it was given
    object,       \* NewHookedDriver, MatchedDriver or the popped Entry
    unloading     \* DriverUnloadRoutine is deleting the manager

adminVars == <<apc, arg, object, unloading>>

VARIABLES
    pc,           \* where each thread is in an interception routine
    device,       \* the target whose device the request is for
    fast,         \* is it a fast I/O?
    depth,        \* how many times the routine has called itself
    driver        \* CapturedIrp::m_Driver

ioVars == <<pc, device, fast, depth, driver>>

vars == <<hookVars, adminVars, ioVars>>
-----------------------------------------------------------------------------
Init ==
    /\ live = [h \in Hooks |-> "unborn"]
    /\ target = [h \in Hooks |-> None]
    /\ state = [h \in Hooks |-> "Unhooked"]
    /\ capturing = [h \in Hooks |-> FALSE]
    /\ listed = {}
    /\ total = 0
    /\ mutex = None
    /\ driverObject = [t \in Targets |-> None]
    /\ fastPatched = {}
    /\ refs = [t \in Targets |-> 0]
    /\ apc = [a \in Admins |-> "idle"]
    /\ arg = [a \in Admins |-> None]
    /\ object = [a \in Admins |-> None]
    /\ unloading = FALSE
    /\ pc = [x \in Threads |-> "idle"]
    /\ device = [x \in Threads |-> None]
    /\ fast = [x \in Threads |-> FALSE]
    /\ depth = [x \in Threads |-> 0]
    /\ driver = [x \in Threads |-> None]

CanCapture(h) == state[h] = "Hooked" /\ capturing[h]

HookOf(t) == {h \in listed : target[h] = t}

(* The two checks of InsertDriver, what its scope guard does on every way   *)
(* out, and the removal from the list.  The first definition of each pair   *)
(* is a mutation of the second: a check left out, off by one, a reference   *)
(* kept, and an entry that stays in the list.                               *)
NeverHooked(t) == FALSE
AlreadyHooked(t) == HookOf(t) # {}

FullTooLate == total > MaxHooked
Full == total >= MaxHooked

Kept(t) == refs
Released(t) == [refs EXCEPT ![t] = @ - 1]

RemovedNot(h) == listed
Removed(h) == listed \ {h}
-----------------------------------------------------------------------------
(* InsertDriver resolves the name to a referenced object before it locks;   *)
(* an unknown name, or IrpMonitor itself, leaves everything as it was.      *)
InsertDriver(a, t) ==
    /\ apc[a] = "idle"
    /\ ~unloading
    /\ apc' = [apc EXCEPT ![a] = "insert"]
    /\ arg' = [arg EXCEPT ![a] = t]
    /\ refs' = [refs EXCEPT ![t] = @ + 1]
    /\ UNCHANGED <<live, target, state, capturing, listed, total, mutex,
                   driverObject, fastPatched, object, unloading, ioVars>>

(* Already hooked, or no room: the scope guard drops the reference.         *)
InsertRefused(a) ==
    /\ apc[a] = "insert"
    /\ mutex = None
    /\ AlreadyHooked(arg[a]) \/ Full
    /\ refs' = Released(arg[a])
    /\ apc' = [apc EXCEPT ![a] = "idle"]
    /\ arg' = [arg EXCEPT ![a] = None]
    /\ UNCHANGED <<live, target, state, capturing, listed, total, mutex,
                   driverObject, fastPatched, object, unloading, ioVars>>

(* The constructor of HookedDriver: a reference of its own, then a copy of  *)
(* the driver object, still unused.                                         *)
NewHookedDriver(a, h) ==
    /\ apc[a] = "insert"
    /\ mutex = None
    /\ ~AlreadyHooked(arg[a])
    /\ ~Full
    /\ live[h] = "unborn"
    /\ mutex' = a
    /\ live' = [live EXCEPT ![h] = "live"]
    /\ target' = [target EXCEPT ![h] = arg[a]]
    /\ refs' = [refs EXCEPT ![arg[a]] = @ + 1]
    /\ object' = [object EXCEPT ![a] = h]
    /\ apc' = [apc EXCEPT ![a] = "swap"]
    /\ UNCHANGED <<state, capturing, listed, total, driverObject, fastPatched,
                   arg, unloading, ioVars>>

(* The copy shares the FastIoDispatch table with the original: writing the  *)
(* interceptors through it changes the driver's own table.  The device is   *)
(* redirected if it is still on the original driver object.                 *)
SwapCallbacks(a) ==
    LET h == object[a]
        t == target[h]
    IN /\ apc[a] = "swap"
       /\ state' = [state EXCEPT ![h] = "Hooked"]
       /\ fastPatched' = fastPatched \cup (FastTargets \cap {t})
       /\ driverObject' = [driverObject EXCEPT ![t] = IF @ = None THEN h ELSE @]
       /\ apc' = [apc EXCEPT ![a] = "link"]
       /\ UNCHANGED <<live, target, capturing, listed, total, mutex, refs,
                      arg, object, unloading, ioVars>>

(* Only now is the new HookedDriver put in the list.                        *)
InsertDone(a) ==
    /\ apc[a] = "link"
    /\ listed' = listed \cup {object[a]}
    /\ total' = total + 1
    /\ refs' = Released(arg[a])
    /\ mutex' = None
    /\ apc' = [apc EXCEPT ![a] = "idle"]
    /\ object' = [object EXCEPT ![a] = None]
    /\ arg' = [arg EXCEPT ![a] = None]
    /\ UNCHANGED <<live, target, state, capturing, driverObject, fastPatched,
                   unloading, ioVars>>
-----------------------------------------------------------------------------
(* RemoveDriver takes the entry out of the list.  LinkedList::Remove counts *)
(* it out only if RemoveEntryList returned true, which says that the list   *)
(* is now empty; the driver object is dereferenced here and once more by    *)
(* the destructor.  When the driver is not hooked nothing changes.          *)
RemoveDriver(a, h) ==
    /\ apc[a] = "idle"
    /\ ~unloading
    /\ mutex = None
    /\ h \in listed
    /\ mutex' = a
    /\ listed' = Removed(h)
    /\ total' = IF listed = {h} THEN total - 1 ELSE total
    /\ refs' = [refs EXCEPT ![target[h]] = @ - 1]
    /\ object' = [object EXCEPT ![a] = h]
    /\ apc' = [apc EXCEPT ![a] = "restore"]
    /\ UNCHANGED <<live, target, state, capturing, driverObject, fastPatched,
                   arg, unloading, ioVars>>

(* The destructor: DisableCapturing, then RestoreCallbacks, which gives up  *)
(* if the state is not Hooked and never restores the fast I/O table.        *)
RestoreCallbacks(a) ==
    LET h == object[a] IN
    /\ apc[a] = "restore"
    /\ capturing' = [capturing EXCEPT ![h] = FALSE]
    /\ IF state[h] = "Hooked"
       THEN /\ state' = [state EXCEPT ![h] = "Unhooked"]
            /\ driverObject' = [driverObject EXCEPT ![target[h]] = None]
       ELSE UNCHANGED <<state, driverObject>>
    /\ apc' = [apc EXCEPT ![a] = "free"]
    /\ UNCHANGED <<live, target, listed, total, mutex, fastPatched, refs,
                   arg, object, unloading, ioVars>>

(* The rest of the destructor: the reference, the copy and the object.      *)
Free(a) ==
    LET h == object[a] IN
    /\ apc[a] = "free"
    /\ live' = [live EXCEPT ![h] = "freed"]
    /\ refs' = [refs EXCEPT ![target[h]] = @ - 1]
    /\ object' = [object EXCEPT ![a] = None]
    /\ apc' = [apc EXCEPT ![a] = IF unloading THEN "unload" ELSE "idle"]
    /\ mutex' = IF unloading THEN mutex ELSE None
    /\ UNCHANGED <<target, state, capturing, listed, total, driverObject,
                   fastPatched, arg, unloading, ioVars>>

(* SetMonitoringState: EnableCapturing refuses a driver that is not Hooked, *)
(* and the operation reports success all the same.                          *)
SetMonitoringState(h, enable) ==
    /\ mutex = None
    /\ ~unloading
    /\ h \in listed
    /\ capturing' = [capturing EXCEPT ![h] =
                        IF enable THEN @ \/ state[h] = "Hooked" ELSE FALSE]
    /\ UNCHANGED <<live, target, state, listed, total, mutex, driverObject,
                   fastPatched, refs, adminVars, ioVars>>

(* The driver is unloaded when no request of an admin is left; deleting the *)
(* manager pops the entries one by one.                                     *)
RemoveAllDrivers(a) ==
    /\ ~unloading
    /\ \A b \in Admins : apc[b] = "idle"
    /\ unloading' = TRUE
    /\ mutex' = a
    /\ apc' = [apc EXCEPT ![a] = "unload"]
    /\ UNCHANGED <<live, target, state, capturing, listed, total, driverObject,
                   fastPatched, refs, arg, object, ioVars>>

PopBack(a, h) ==
    /\ apc[a] = "unload"
    /\ total # 0
    /\ h \in listed
    /\ listed' = Removed(h)
    /\ total' = total - 1
    /\ object' = [object EXCEPT ![a] = h]
    /\ apc' = [apc EXCEPT ![a] = "restore"]
    /\ UNCHANGED <<live, target, state, capturing, mutex, driverObject,
                   fastPatched, refs, arg, unloading, ioVars>>
-----------------------------------------------------------------------------
(* A routine returns, and its locals die with it.                           *)
Return(x) ==
    /\ pc' = [pc EXCEPT ![x] = "idle"]
    /\ device' = [device EXCEPT ![x] = None]
    /\ fast' = [fast EXCEPT ![x] = FALSE]
    /\ depth' = [depth EXCEPT ![x] = 0]
    /\ driver' = [driver EXCEPT ![x] = None]

(* The I/O manager calls the routine of the driver object the device points *)
(* to, or of the fast I/O table; the driver's own routine is no step here.  *)
Request(x, t, isFast) ==
    /\ pc[x] = "idle"
    /\ IF isFast THEN t \in fastPatched ELSE driverObject[t] # None
    /\ pc' = [pc EXCEPT ![x] = "enter"]
    /\ device' = [device EXCEPT ![x] = t]
    /\ fast' = [fast EXCEPT ![x] = isFast]
    /\ depth' = [depth EXCEPT ![x] = 0]
    /\ UNCHANGED <<hookVars, adminVars, driver>>

(* The constructor of CapturedIrp looks for the HookedDriver of the device. *)
(* It may fail for other reasons, and then the object is not valid either.  *)
NewCapturedIrp(x) ==
    /\ pc[x] = "enter"
    /\ \/ \E h \in HookOf(device[x]) :
              /\ driver' = [driver EXCEPT ![x] = h]
              /\ pc' = [pc EXCEPT ![x] = IF fast[x] THEN "original" ELSE "pre"]
       \/ /\ pc' = [pc EXCEPT ![x] = "original"]
          /\ UNCHANGED driver
    /\ UNCHANGED <<hookVars, adminVars, device, fast, depth>>

(* The fallback of an IRP calls whatever the device's driver object says.   *)
Fallback(x) ==
    /\ pc[x] = "original"
    /\ ~fast[x]
    /\ \/ /\ driverObject[device[x]] = None
          /\ Return(x)
       \/ /\ driverObject[device[x]] # None
          /\ depth[x] < MaxDepth
          /\ pc' = [pc EXCEPT ![x] = "enter"]
          /\ depth' = [depth EXCEPT ![x] = @ + 1]
          /\ UNCHANGED <<device, fast, driver>>
    /\ UNCHANGED <<hookVars, adminVars>>

(* A fast I/O calls what it takes to be the original routine through the    *)
(* driver's own table, found or not found.  If it captures, it has set the  *)
(* code of its own CapturedIrp before, and copied nothing, the buffer being *)
(* empty; what comes after that call is never reached.                      *)
CallFastIo(x) ==
    /\ pc[x] = "original"
    /\ fast[x]
    /\ depth[x] < MaxDepth
    /\ pc' = [pc EXCEPT ![x] = "enter"]
    /\ depth' = [depth EXCEPT ![x] = @ + 1]
    /\ driver' = [driver EXCEPT ![x] = None]
    /\ UNCHANGED <<hookVars, adminVars, device, fast>>

(* CapturePreCallData, if CanCapture says so; what it captured is data, and *)
(* it always succeeds.                                                      *)
CapturePre(x) ==
    /\ pc[x] = "pre"
    /\ pc' = [pc EXCEPT ![x] = "call"]
    /\ UNCHANGED <<hookVars, adminVars, device, fast, depth, driver>>

(* ExecuteOriginalCallback, which may run into an exception.                *)
ExecuteOriginal(x) ==
    /\ pc[x] = "call"
    /\ pc' \in {[pc EXCEPT ![x] = "post"], [pc EXCEPT ![x] = "disable"]}
    /\ UNCHANGED <<hookVars, adminVars, device, fast, depth, driver>>

DisableCapturing(x) ==
    /\ pc[x] = "disable"
    /\ capturing' = [capturing EXCEPT ![driver[x]] = FALSE]
    /\ pc' = [pc EXCEPT ![x] = "flag"]
    /\ UNCHANGED <<live, target, state, listed, total, mutex, driverObject,
                   fastPatched, refs, adminVars, device, fast, depth, driver>>

FlagAsInvalid(x) ==
    /\ pc[x] = "flag"
    /\ state' = [state EXCEPT ![driver[x]] = "Invalid"]
    /\ pc' = [pc EXCEPT ![x] = "post"]
    /\ UNCHANGED <<live, target, capturing, listed, total, mutex, driverObject,
                   fastPatched, refs, adminVars, device, fast, depth, driver>>

(* CanCapture is asked again, and only then is the IRP queued.              *)
CapturePost(x) ==
    /\ pc[x] = "post"
    /\ \/ /\ CanCapture(driver[x])
          /\ pc' = [pc EXCEPT ![x] = "push"]
          /\ UNCHANGED <<device, fast, depth, driver>>
       \/ /\ ~CanCapture(driver[x])
          /\ Return(x)
    /\ UNCHANGED <<hookVars, adminVars>>

Push(x) ==
    /\ pc[x] = "push"
    /\ Return(x)
    /\ UNCHANGED <<hookVars, adminVars>>
-----------------------------------------------------------------------------
Manage(a) ==
    \/ \E t \in Targets : InsertDriver(a, t)
    \/ InsertRefused(a)
    \/ \E h \in Hooks : NewHookedDriver(a, h) \/ RemoveDriver(a, h) \/ PopBack(a, h)
    \/ SwapCallbacks(a) \/ InsertDone(a)
    \/ RestoreCallbacks(a) \/ Free(a)
    \/ RemoveAllDrivers(a)

Intercept(x) ==
    \/ NewCapturedIrp(x) \/ Fallback(x) \/ CallFastIo(x)
    \/ CapturePre(x) \/ ExecuteOriginal(x) \/ DisableCapturing(x) \/ FlagAsInvalid(x)
    \/ CapturePost(x) \/ Push(x)

Next ==
    \/ \E a \in Admins : Manage(a)
    \/ \E h \in Hooks, enable \in BOOLEAN : SetMonitoringState(h, enable)
    \/ \E x \in Threads, t \in Targets, isFast \in BOOLEAN : Request(x, t, isFast)
    \/ \E x \in Threads : Intercept(x)

Spec == Init /\ [][Next]_vars
-----------------------------------------------------------------------------
(* Hooks, targets and threads keep their types; m_TotalEntry, which is      *)
(* unsigned in the code, never goes below zero.                             *)
TypeOK ==
    /\ live \in [Hooks -> {"unborn", "live", "freed"}]
    /\ target \in [Hooks -> Targets \cup {None}]
    /\ state \in [Hooks -> {"Invalid", "Unhooked", "Hooked"}]
    /\ capturing \in [Hooks -> BOOLEAN]
    /\ listed \subseteq Hooks
    /\ total \in 0 .. MaxHooked
    /\ mutex \in Admins \cup {None}
    /\ driverObject \in [Targets -> Hooks \cup {None}]
    /\ fastPatched \subseteq FastTargets
    /\ refs \in [Targets -> Int]
    /\ apc \in [Admins -> {"idle", "insert", "swap", "link", "restore", "free", "unload"}]
    /\ arg \in [Admins -> Targets \cup {None}]
    /\ object \in [Admins -> Hooks \cup {None}]
    /\ unloading \in BOOLEAN
    /\ pc \in [Threads -> {"idle", "enter", "original", "pre", "call", "disable",
                           "flag", "post", "push"}]
    /\ device \in [Threads -> Targets \cup {None}]
    /\ fast \in [Threads -> BOOLEAN]
    /\ depth \in [Threads -> 0 .. MaxDepth]
    /\ driver \in [Threads -> Hooks \cup {None}]

(* However the IOCTLs of several threads interleave, a driver is hooked at  *)
(* most once, and the list never holds more than CFB_MAX_HOOKED_DRIVERS:    *)
(* Size() may say too much, once a driver was removed, but never too little.*)
HookedOnce ==
    /\ \A h1, h2 \in listed : target[h1] = target[h2] => h1 = h2
    /\ Cardinality(listed) <= total

Working == IF mutex = None THEN {} ELSE {object[mutex]} \ {None}

(* A device is on a living copy only if its HookedDriver can be found, or   *)
(* the holder of m_Mutex is about to list or to restore it; what can be     *)
(* found is alive, and a Hooked driver does get the requests of its device, *)
(* unless the device was left on the copy of a freed one.  That happens to  *)
(* a driver flagged invalid, and to no other.                               *)
DispatchSound ==
    /\ \A t \in Targets :
           LET h == driverObject[t] IN
           h # None => IF live[h] = "freed" THEN state[h] = "Invalid"
                                           ELSE h \in HookOf(t) \cup Working
    /\ \A h \in listed : live[h] = "live"
    /\ \A h \in listed :
           state[h] = "Hooked" => \/ driverObject[target[h]] = h
                                 \/ /\ driverObject[target[h]] # None
                                    /\ live[driverObject[target[h]]] = "freed"

Inserted(h) == h \in listed \/ \E a \in Admins : object[a] = h /\ apc[a] \in {"swap", "link"}

(* "Always dereference of scope-leave. `HookedDriver` manages its own": an  *)
(* insertion that succeeds, fails or loses a race leaves one reference for  *)
(* a HookedDriver and none for itself.  (RemoveDriver and the destructor    *)
(* release that one twice, so this holds until a driver is first removed.)  *)
ReferencesBalanced ==
    \A t \in Targets :
        LET ofTarget == {h \in Hooks : target[h] = t}
            inserting == {a \in Admins : arg[a] = t}
        IN (\A h \in ofTarget : Inserted(h)) =>
               refs[t] = Cardinality(ofTarget) + Cardinality(inserting)
=============================================================================
