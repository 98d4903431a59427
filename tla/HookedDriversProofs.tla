-------------------------- MODULE HookedDriversProofs --------------------------
(***************************************************************************)
(* Proofs about HookedDrivers, for any targets, IOCTL threads, I/O threads *)
(* and limits, and any finite set of HookedDriver objects.                 *)
(***************************************************************************)
EXTENDS HookedDrivers, FiniteSetTheorems, TLAPS

(* The thread that is past the checks of InsertDriver, in RemoveDriver or   *)
(* in the unloading holds m_Mutex.                                          *)
Critical == {"swap", "link", "restore", "free", "unload"}

MutualExclusion ==
    /\ \A a \in Admins : apc[a] \in Critical => mutex = a
    /\ \A a \in Admins : apc[a] \in {"insert", "swap", "link"} => arg[a] \in Targets

(* A HookedDriver is born before it is listed, and has a target.            *)
Born == \A h \in listed : live[h] # "unborn" /\ target[h] \in Targets

(* What the holder of m_Mutex is adding has passed the checks, and nothing  *)
(* was listed since; what it is removing is not listed any more.            *)
Adding(a) ==
    /\ object[a] \in Hooks \ listed
    /\ live[object[a]] # "unborn"
    /\ target[object[a]] = arg[a]
    /\ HookOf(arg[a]) = {}
    /\ total < MaxHooked

Removing(a) ==
    /\ object[a] \in Hooks \ listed
    /\ live[object[a]] # "unborn"
    /\ target[object[a]] \in Targets

InHand ==
    \A a \in Admins :
        /\ apc[a] \in {"swap", "link"} => Adding(a)
        /\ apc[a] \in {"restore", "free"} => Removing(a)

Inv == TypeOK /\ MutualExclusion /\ Born /\ InHand /\ HookedOnce

(* Counting the list.                                                       *)
LEMMA ListIsFinite ==
  ASSUME listed \subseteq Hooks
  PROVE  IsFiniteSet(listed) /\ Cardinality(listed) \in Nat
  BY HookAssumption, FS_Subset, FS_CardinalityType

LEMMA CountAdded ==
  ASSUME listed \subseteq Hooks, NEW h \in Hooks \ listed
  PROVE  Cardinality(listed \cup {h}) = Cardinality(listed) + 1
  BY ListIsFinite, FS_AddElement

LEMMA CountRemoved ==
  ASSUME listed \subseteq Hooks, NEW h \in listed
  PROVE  /\ Cardinality(listed \ {h}) = Cardinality(listed) - 1
         /\ Cardinality(listed) >= 1
  <1>1. Cardinality(listed \ {h}) = Cardinality(listed) - 1
      BY ListIsFinite, FS_RemoveElement
  <1>2. IsFiniteSet(listed \ {h})
      BY ListIsFinite, FS_RemoveElement
  <1>3. Cardinality(listed \ {h}) \in Nat
      BY <1>2, FS_CardinalityType
  <1> QED BY <1>1, <1>3, ListIsFinite

LEMMA InvInit == Init => Inv
  <1> SUFFICES ASSUME Init PROVE Inv
      OBVIOUS
  <1> USE HookAssumption
  <1>1. TypeOK
    <2>1. 0 \in 0 .. MaxHooked /\ 0 \in 0 .. MaxDepth
        OBVIOUS
    <2>2. /\ live \in [Hooks -> {"unborn", "live", "freed"}]
          /\ target \in [Hooks -> Targets \cup {None}]
          /\ state \in [Hooks -> {"Invalid", "Unhooked", "Hooked"}]
          /\ capturing \in [Hooks -> BOOLEAN]
        BY DEF Init
    <2>3. /\ driverObject \in [Targets -> Hooks \cup {None}]
          /\ refs \in [Targets -> Int]
          /\ apc \in [Admins -> {"idle", "insert", "swap", "link", "restore", "free", "unload"}]
          /\ arg \in [Admins -> Targets \cup {None}]
          /\ object \in [Admins -> Hooks \cup {None}]
        BY DEF Init
    <2>4. /\ pc \in [Threads -> {"idle", "enter", "original", "pre", "call", "disable",
                                 "flag", "post", "push"}]
          /\ device \in [Threads -> Targets \cup {None}]
          /\ fast \in [Threads -> BOOLEAN]
          /\ depth \in [Threads -> 0 .. MaxDepth]
          /\ driver \in [Threads -> Hooks \cup {None}]
        BY <2>1 DEF Init
    <2> QED BY <2>1, <2>2, <2>3, <2>4 DEF Init, TypeOK
  <1>2. MutualExclusion /\ Born /\ InHand
      BY DEF Init, MutualExclusion, Critical, Born, InHand
  <1>3. HookedOnce
      BY FS_EmptySet DEF Init, HookedOnce
  <1> QED BY <1>1, <1>2, <1>3 DEF Inv
-----------------------------------------------------------------------------
(* The steps of an interception change nothing but the I/O thread's own     *)
(* variables, and the state and the capturing flag of its HookedDriver.     *)
LEMMA InterceptStep ==
  ASSUME Inv, NEW x \in Threads,
         Intercept(x) \/ \E t \in Targets, isFast \in BOOLEAN : Request(x, t, isFast)
  PROVE  Inv'
  <1> USE HookAssumption DEF Inv
  <1>1. UNCHANGED <<live, target, listed, total, mutex, driverObject, fastPatched,
                    refs, adminVars>>
      BY DEF Intercept, Request, NewCapturedIrp, Fallback, CallFastIo, CapturePre,
             ExecuteOriginal, DisableCapturing, FlagAsInvalid, CapturePost, Push, hookVars
  <1>2. state' \in [Hooks -> {"Invalid", "Unhooked", "Hooked"}]
      BY DEF Intercept, Request, NewCapturedIrp, Fallback, CallFastIo, CapturePre,
             ExecuteOriginal, DisableCapturing, FlagAsInvalid, CapturePost, Push, hookVars,
             TypeOK
  <1>3. capturing' \in [Hooks -> BOOLEAN]
      BY DEF Intercept, Request, NewCapturedIrp, Fallback, CallFastIo, CapturePre,
             ExecuteOriginal, DisableCapturing, FlagAsInvalid, CapturePost, Push, hookVars,
             TypeOK
  <1>4. /\ pc' \in [Threads -> {"idle", "enter", "original", "pre", "call", "disable",
                                "flag", "post", "push"}]
        /\ device' \in [Threads -> Targets \cup {None}]
        /\ fast' \in [Threads -> BOOLEAN]
        /\ depth' \in [Threads -> 0 .. MaxDepth]
        /\ driver' \in [Threads -> Hooks \cup {None}]
    <2> USE DEF TypeOK
    <2>1. CASE \E t \in Targets, isFast \in BOOLEAN : Request(x, t, isFast)
        BY <2>1 DEF Request
    <2>2. CASE NewCapturedIrp(x)
        BY <2>2 DEF NewCapturedIrp, HookOf
    <2>3. CASE Fallback(x)
      <3>1. CASE Return(x)
          BY <3>1 DEF Return
      <3>2. CASE ~Return(x)
        <4>1. /\ depth[x] \in 0 .. MaxDepth /\ depth[x] < MaxDepth
              /\ depth' = [depth EXCEPT ![x] = @ + 1]
              /\ pc' = [pc EXCEPT ![x] = "enter"]
              /\ UNCHANGED <<device, fast, driver>>
            BY <2>3, <3>2 DEF Fallback
        <4> QED BY <4>1
      <3> QED BY <3>1, <3>2
    <2>4. CASE CallFastIo(x)
        BY <2>4 DEF CallFastIo
    <2>5. CASE CapturePre(x)
        BY <2>5 DEF CapturePre
    <2>8. CASE ExecuteOriginal(x)
      <3>1. \/ pc' = [pc EXCEPT ![x] = "post"]
            \/ pc' = [pc EXCEPT ![x] = "disable"]
          BY <2>8 DEF ExecuteOriginal
      <3>2. UNCHANGED <<device, fast, depth, driver>>
          BY <2>8 DEF ExecuteOriginal
      <3> QED BY <3>1, <3>2
    <2>6. CASE DisableCapturing(x) \/ FlagAsInvalid(x)
        BY <2>6 DEF DisableCapturing, FlagAsInvalid
    <2>7. CASE CapturePost(x) \/ Push(x)
      <3>1. CASE Return(x)
          BY <3>1 DEF Return
      <3>2. CASE ~Return(x)
          BY <2>7, <3>2 DEF CapturePost, Push
      <3> QED BY <3>1, <3>2
    <2> QED BY <2>1, <2>2, <2>3, <2>4, <2>5, <2>6, <2>7, <2>8 DEF Intercept
  <1>5. TypeOK'
      BY <1>1, <1>2, <1>3, <1>4 DEF TypeOK, adminVars
  <1>6. MutualExclusion' /\ Born' /\ InHand' /\ HookedOnce'
      BY <1>1 DEF MutualExclusion, Born, InHand, Adding, Removing, HookOf, HookedOnce,
                  adminVars
  <1> QED BY <1>5, <1>6
-----------------------------------------------------------------------------
(* InsertDriver, from the reference it takes to the list.                   *)
LEMMA InsertStep ==
  ASSUME Inv, NEW a \in Admins,
         \/ \E t \in Targets : InsertDriver(a, t)
         \/ InsertRefused(a)
         \/ \E h \in Hooks : NewHookedDriver(a, h)
         \/ SwapCallbacks(a) \/ InsertDone(a)
  PROVE  Inv'
  <1> USE HookAssumption DEF Inv, Critical
  <1>1. ASSUME NEW t \in Targets, InsertDriver(a, t) PROVE Inv'
    <2>1. TypeOK'
        BY <1>1 DEF InsertDriver, TypeOK, ioVars
    <2>2. MutualExclusion' /\ Born' /\ InHand' /\ HookedOnce'
        BY <1>1 DEF InsertDriver, TypeOK, MutualExclusion, Born, InHand, Adding, Removing,
                    HookOf, HookedOnce
    <2> QED BY <2>1, <2>2
  <1>2. CASE InsertRefused(a)
    <2>1. TypeOK'
        BY <1>2 DEF InsertRefused, Released, TypeOK, MutualExclusion, ioVars
    <2>2. MutualExclusion' /\ Born' /\ InHand' /\ HookedOnce'
        BY <1>2 DEF InsertRefused, TypeOK, MutualExclusion, Born, InHand, Adding, Removing,
                    HookOf, HookedOnce
    <2> QED BY <2>1, <2>2
  <1>3. ASSUME NEW h \in Hooks, NewHookedDriver(a, h) PROVE Inv'
    <2>1. TypeOK'
        BY <1>3 DEF NewHookedDriver, TypeOK, MutualExclusion, ioVars
    <2>2. MutualExclusion' /\ Born' /\ HookedOnce'
        BY <1>3 DEF NewHookedDriver, TypeOK, MutualExclusion, Born, HookedOnce
    <2>3. InHand'
        BY <1>3 DEF NewHookedDriver, AlreadyHooked, Full, TypeOK, MutualExclusion, Born,
                    InHand, Adding, Removing, HookOf
    <2> QED BY <2>1, <2>2, <2>3
  <1>4. CASE SwapCallbacks(a)
    <2>1. TypeOK'
        BY <1>4 DEF SwapCallbacks, TypeOK, MutualExclusion, InHand, Adding, ioVars
    <2>2. MutualExclusion' /\ Born' /\ InHand' /\ HookedOnce'
        BY <1>4 DEF SwapCallbacks, TypeOK, MutualExclusion, Born, InHand, Adding, Removing,
                    HookOf, HookedOnce
    <2> QED BY <2>1, <2>2
  <1>5. CASE InsertDone(a)
    <2> DEFINE g == object[a]
    <2>1. g \in Hooks \ listed /\ total < MaxHooked /\ Adding(a) /\ arg[a] \in Targets
        BY <1>5 DEF InsertDone, InHand, Adding, MutualExclusion
    <2>2. listed \subseteq Hooks /\ total \in Nat
        BY DEF TypeOK
    <2>3. Cardinality(listed') <= total'
        BY <1>5, <2>1, <2>2, CountAdded, ListIsFinite DEF InsertDone, HookedOnce
    <2>4. TypeOK'
        BY <1>5, <2>1 DEF InsertDone, Released, TypeOK, ioVars
    <2>5. HookedOnce'
        BY <1>5, <2>1, <2>3 DEF InsertDone, HookedOnce, Adding, HookOf
    <2>6. MutualExclusion' /\ Born' /\ InHand'
        BY <1>5, <2>1 DEF InsertDone, TypeOK, MutualExclusion, Born, InHand, Adding, Removing
    <2> QED BY <2>4, <2>5, <2>6
  <1> QED BY <1>1, <1>2, <1>3, <1>4, <1>5
-----------------------------------------------------------------------------
(* RemoveDriver, the unloading, and the destructor that both run.           *)
LEMMA RemoveStep ==
  ASSUME Inv, NEW a \in Admins,
         \/ \E h \in Hooks : RemoveDriver(a, h) \/ PopBack(a, h)
         \/ RestoreCallbacks(a) \/ Free(a) \/ RemoveAllDrivers(a)
  PROVE  Inv'
  <1> USE HookAssumption DEF Inv, Critical
  <1>1. ASSUME NEW h \in Hooks, RemoveDriver(a, h) PROVE Inv'
    <2>1. listed \subseteq Hooks /\ h \in listed /\ total \in Nat
        BY <1>1 DEF RemoveDriver, TypeOK
    <2>2. total >= 1 /\ Cardinality(listed') <= total'
      <3>1. total' \in {total - 1, total} /\ listed' = listed \ {h}
          BY <1>1 DEF RemoveDriver, Removed
      <3> QED BY <2>1, <3>1, CountRemoved, ListIsFinite DEF HookedOnce
    <2>3. TypeOK'
        BY <1>1, <2>1, <2>2 DEF RemoveDriver, Removed, TypeOK, Born, ioVars
    <2>4. MutualExclusion' /\ Born' /\ InHand'
        BY <1>1, <2>1 DEF RemoveDriver, Removed, TypeOK, MutualExclusion, Born, InHand,
                          Adding, Removing
    <2>5. HookedOnce'
        BY <1>1, <2>2 DEF RemoveDriver, Removed, HookedOnce
    <2> QED BY <2>3, <2>4, <2>5
  <1>2. ASSUME NEW h \in Hooks, PopBack(a, h) PROVE Inv'
    <2>1. listed \subseteq Hooks /\ h \in listed /\ total \in Nat
        BY <1>2 DEF PopBack, TypeOK
    <2>2. total >= 1 /\ Cardinality(listed') <= total'
        BY <1>2, <2>1, CountRemoved, ListIsFinite DEF PopBack, Removed, HookedOnce
    <2>3. TypeOK'
        BY <1>2, <2>1, <2>2 DEF PopBack, Removed, TypeOK, ioVars
    <2>4. MutualExclusion' /\ Born' /\ InHand'
        BY <1>2, <2>1 DEF PopBack, Removed, TypeOK, MutualExclusion, Born, InHand,
                          Adding, Removing
    <2>5. HookedOnce'
        BY <1>2, <2>2 DEF PopBack, Removed, HookedOnce
    <2> QED BY <2>3, <2>4, <2>5
  <1>3. CASE RestoreCallbacks(a)
    <2>1. TypeOK'
        BY <1>3 DEF RestoreCallbacks, TypeOK, InHand, Removing, ioVars
    <2>2. MutualExclusion' /\ Born' /\ InHand' /\ HookedOnce'
        BY <1>3 DEF RestoreCallbacks, TypeOK, MutualExclusion, Born, InHand, Adding,
                    Removing, HookOf, HookedOnce
    <2> QED BY <2>1, <2>2
  <1>4. CASE Free(a)
    <2>1. TypeOK'
        BY <1>4 DEF Free, TypeOK, InHand, Removing, ioVars
    <2>2. MutualExclusion' /\ Born' /\ InHand' /\ HookedOnce'
        BY <1>4 DEF Free, TypeOK, MutualExclusion, Born, InHand, Adding,
                    Removing, HookOf, HookedOnce
    <2> QED BY <2>1, <2>2
  <1>5. CASE RemoveAllDrivers(a)
    <2>1. TypeOK'
        BY <1>5 DEF RemoveAllDrivers, TypeOK, ioVars
    <2>2. MutualExclusion' /\ Born' /\ InHand' /\ HookedOnce'
        BY <1>5 DEF RemoveAllDrivers, TypeOK, MutualExclusion, Born, InHand, HookedOnce
    <2> QED BY <2>1, <2>2
  <1> QED BY <1>1, <1>2, <1>3, <1>4, <1>5

LEMMA MonitorStep ==
  ASSUME Inv, NEW h \in Hooks, NEW enable \in BOOLEAN, SetMonitoringState(h, enable)
  PROVE  Inv'
  <1>1. capturing' \in [Hooks -> BOOLEAN]
    <2>1. CASE capturing' = [capturing EXCEPT ![h] = FALSE]
        BY <2>1 DEF Inv, TypeOK
    <2>2. CASE capturing' = [capturing EXCEPT ![h] = @ \/ state[h] = "Hooked"]
        BY <2>2 DEF Inv, TypeOK
    <2> QED BY <2>1, <2>2 DEF SetMonitoringState
  <1>2. UNCHANGED <<live, target, state, listed, total, mutex, driverObject,
                    fastPatched, refs, adminVars, ioVars>>
      BY DEF SetMonitoringState
  <1>3. TypeOK'
      BY <1>1, <1>2 DEF Inv, TypeOK, adminVars, ioVars
  <1>4. MutualExclusion' /\ Born' /\ InHand' /\ HookedOnce'
      BY <1>2 DEF Inv, adminVars, MutualExclusion, Born, InHand, Adding, Removing, HookOf,
                  HookedOnce
  <1> QED BY <1>3, <1>4 DEF Inv
-----------------------------------------------------------------------------
LEMMA InvStep == Inv /\ [Next]_vars => Inv'
  <1> SUFFICES ASSUME Inv, [Next]_vars PROVE Inv'
      OBVIOUS
  <1>1. ASSUME NEW a \in Admins, Manage(a) PROVE Inv'
      BY <1>1, InsertStep, RemoveStep DEF Manage
  <1>2. ASSUME NEW h \in Hooks, NEW enable \in BOOLEAN, SetMonitoringState(h, enable)
        PROVE  Inv'
      BY <1>2, MonitorStep
  <1>3. ASSUME NEW x \in Threads,
               Intercept(x) \/ \E t \in Targets, isFast \in BOOLEAN : Request(x, t, isFast)
        PROVE  Inv'
      BY <1>3, InterceptStep
  <1>4. CASE UNCHANGED vars
      BY <1>4 DEF vars, hookVars, adminVars, ioVars, Inv, TypeOK, MutualExclusion, Born,
                  InHand, Adding, Removing, HookOf, HookedOnce
  <1> QED BY <1>1, <1>2, <1>3, <1>4 DEF Next

(* Every variable keeps its type; in particular the count of hooked drivers *)
(* stays between zero and CFB_MAX_HOOKED_DRIVERS, though it may drift.      *)
THEOREM Types == Spec => []TypeOK
  BY InvInit, InvStep, PTL DEF Spec, Inv

(* Any number of threads inserting and removing drivers hook none twice,    *)
(* and the list is never longer than what Size() says.                      *)
THEOREM Once == Spec => []HookedOnce
  BY InvInit, InvStep, PTL DEF Spec, Inv
-----------------------------------------------------------------------------
(* The device of a hooked driver is on its copy, or was left on another.    *)
Reaches(h) ==
    \/ driverObject[target[h]] = h
    \/ driverObject[target[h]] # None /\ live[driverObject[target[h]]] = "freed"

(* What DispatchSound needs to be inductive: which HookedDriver a device    *)
(* may be on while m_Mutex is held, and what the holder has in hand.        *)
Dispatched ==
    \A t \in Targets :
        LET h == driverObject[t] IN
        h # None =>
            /\ target[h] = t
            /\ \/ live[h] = "freed" /\ state[h] = "Invalid"
               \/ live[h] = "live" /\ h \in listed
               \/ live[h] = "live" /\ \E a \in Admins :
                                         object[a] = h /\ apc[a] \in {"link", "restore", "free"}

Listed ==
    \A h \in listed :
        /\ live[h] = "live"
        /\ state[h] \in {"Hooked", "Invalid"}
        /\ state[h] = "Hooked" => Reaches(h)

Linking(h) == state[h] \in {"Hooked", "Invalid"} /\ (state[h] = "Hooked" => Reaches(h))

Worked ==
    \A a \in Admins :
        LET h == object[a] IN
        /\ apc[a] \in {"swap", "link", "restore", "free"} => live[h] = "live"
        /\ apc[a] = "swap" => \A t \in Targets : driverObject[t] # h
        /\ apc[a] = "link" => Linking(h)
        /\ apc[a] = "restore" => state[h] \in {"Hooked", "Invalid"}
        /\ apc[a] = "free" /\ driverObject[target[h]] = h => state[h] = "Invalid"
        /\ apc[a] \in {"restore", "free"} => HookOf(target[h]) = {}

Sound == Dispatched /\ Listed /\ Worked

LEMMA SoundImplies == Inv /\ Sound => DispatchSound
  <1> SUFFICES ASSUME Inv, Sound PROVE DispatchSound
      OBVIOUS
  <1> USE HookAssumption DEF Inv, Sound
  <1>1. ASSUME NEW a \in Admins, apc[a] \in Critical
        PROVE  object[a] # None => object[a] \in Working
      BY <1>1 DEF MutualExclusion, Working
  <1>2. ASSUME NEW t \in Targets, driverObject[t] # None
        PROVE  IF live[driverObject[t]] = "freed" THEN state[driverObject[t]] = "Invalid"
               ELSE driverObject[t] \in HookOf(t) \cup Working
      BY <1>1, <1>2 DEF Dispatched, HookOf, Critical
  <1>3. \A h \in listed :
            /\ live[h] = "live"
            /\ state[h] = "Hooked" => Reaches(h)
      BY DEF Listed
  <1> QED BY <1>2, <1>3 DEF DispatchSound, Reaches

LEMMA SoundInit == Init => Sound
  BY HookAssumption DEF Init, Sound, Dispatched, Listed, Worked

(* An interception can only flag a HookedDriver invalid.                    *)
LEMMA SoundIntercept ==
  ASSUME Inv, Sound, NEW x \in Threads,
         Intercept(x) \/ \E t \in Targets, isFast \in BOOLEAN : Request(x, t, isFast)
  PROVE  Sound'
  <1>1. UNCHANGED <<live, target, listed, total, mutex, driverObject, fastPatched,
                    refs, adminVars>>
      BY DEF Intercept, Request, NewCapturedIrp, Fallback, CallFastIo, CapturePre,
             ExecuteOriginal, DisableCapturing, FlagAsInvalid, CapturePost, Push, hookVars
  <1>2. \A h \in Hooks : state'[h] \in {state[h], "Invalid"}
      BY DEF Intercept, Request, NewCapturedIrp, Fallback, CallFastIo, CapturePre,
             ExecuteOriginal, DisableCapturing, FlagAsInvalid, CapturePost, Push, hookVars,
             Inv, TypeOK
  <1>3. Dispatched'
      BY <1>1, <1>2 DEF Inv, TypeOK, Sound, Dispatched, adminVars
  <1>4. Listed'
      BY <1>1, <1>2 DEF Inv, TypeOK, Sound, Listed, Reaches
  <1>5. Worked'
      BY <1>1, <1>2 DEF Inv, TypeOK, InHand, Adding, Removing, Sound, Worked, Linking, Reaches,
                        HookOf, adminVars
  <1> QED BY <1>3, <1>4, <1>5 DEF Sound

LEMMA SoundInsert ==
  ASSUME Inv, Sound, NEW a \in Admins,
         \/ \E t \in Targets : InsertDriver(a, t)
         \/ InsertRefused(a)
         \/ \E h \in Hooks : NewHookedDriver(a, h)
         \/ SwapCallbacks(a) \/ InsertDone(a)
  PROVE  Sound'
  <1> USE HookAssumption DEF Inv, Sound
  <1>1. ASSUME NEW t \in Targets, InsertDriver(a, t) PROVE Sound'
      BY <1>1 DEF InsertDriver, TypeOK, Dispatched, Listed, Worked, Linking, Reaches, HookOf
  <1>2. CASE InsertRefused(a)
      BY <1>2 DEF InsertRefused, TypeOK, Dispatched, Listed, Worked, Linking, Reaches, HookOf
  <1>3. ASSUME NEW h \in Hooks, NewHookedDriver(a, h) PROVE Sound'
    <2>1. \A t \in Targets : driverObject[t] # h
        BY <1>3 DEF NewHookedDriver, Dispatched
    <2>2. \A b \in Admins : apc[b] \notin Critical
        BY <1>3 DEF NewHookedDriver, MutualExclusion, TypeOK
    <2>3. h \notin listed
        BY <1>3 DEF NewHookedDriver, Born
    <2>4. Dispatched'
        BY <1>3, <2>1, <2>2 DEF NewHookedDriver, TypeOK, Dispatched, Critical
    <2>5. Listed'
        BY <1>3, <2>1, <2>3 DEF NewHookedDriver, TypeOK, Listed, Born, Reaches
    <2>6. Worked'
        BY <1>3, <2>1, <2>2 DEF NewHookedDriver, TypeOK, Worked, Critical
    <2> QED BY <2>4, <2>5, <2>6
  <1>4. CASE SwapCallbacks(a)
    <2> DEFINE g == object[a]
    <2>1. g \in Hooks \ listed /\ live[g] = "live" /\ HookOf(target[g]) = {} /\ target[g] \in Targets
        BY <1>4 DEF SwapCallbacks, InHand, Adding, Worked, MutualExclusion
    <2>2. \A b \in Admins : b # a => apc[b] \notin Critical
        BY <1>4 DEF SwapCallbacks, MutualExclusion, Critical
    <2>3. driverObject[target[g]] # None => live[driverObject[target[g]]] = "freed"
        BY <1>4, <2>1, <2>2 DEF SwapCallbacks, Dispatched, HookOf, Critical
    <2>4. Dispatched'
        BY <1>4, <2>1, <2>2, <2>3 DEF SwapCallbacks, TypeOK, Dispatched, Critical
    <2>5. Listed'
        BY <1>4, <2>1, <2>3 DEF SwapCallbacks, TypeOK, Listed, Born, Reaches, HookOf
    <2>6. Worked'
        BY <1>4, <2>1, <2>2, <2>3 DEF SwapCallbacks, TypeOK, Worked, Linking, Reaches, Critical
    <2> QED BY <2>4, <2>5, <2>6
  <1>5. CASE InsertDone(a)
    <2>1. \A b \in Admins : b # a => apc[b] \notin Critical
        BY <1>5 DEF InsertDone, MutualExclusion, Critical
    <2>2. Dispatched'
        BY <1>5, <2>1 DEF InsertDone, TypeOK, Dispatched, Critical
    <2>3. Listed'
        BY <1>5 DEF InsertDone, TypeOK, Listed, Worked, Linking, Reaches
    <2>4. Worked'
        BY <1>5, <2>1 DEF InsertDone, TypeOK, Worked, Critical
    <2> QED BY <2>2, <2>3, <2>4
  <1> QED BY <1>1, <1>2, <1>3, <1>4, <1>5

LEMMA SoundRemove ==
  ASSUME Inv, Sound, NEW a \in Admins,
         \/ \E h \in Hooks : RemoveDriver(a, h) \/ PopBack(a, h)
         \/ RestoreCallbacks(a) \/ Free(a) \/ RemoveAllDrivers(a)
  PROVE  Sound'
  <1> USE HookAssumption DEF Inv, Sound
  <1>1. ASSUME NEW h \in Hooks, RemoveDriver(a, h) \/ PopBack(a, h) PROVE Sound'
    <2>1. /\ h \in listed /\ listed' = listed \ {h}
          /\ UNCHANGED <<live, target, state, driverObject>>
          /\ apc' = [apc EXCEPT ![a] = "restore"]
          /\ object' = [object EXCEPT ![a] = h]
          /\ apc[a] \in {"idle", "unload"}
        BY <1>1 DEF RemoveDriver, PopBack, Removed
    <2>2. \A b \in Admins : b # a => apc[b] \notin Critical
        BY <1>1 DEF RemoveDriver, PopBack, MutualExclusion, Critical, TypeOK
    <2>3. Dispatched'
        BY <2>1, <2>2 DEF TypeOK, Dispatched, Critical
    <2>4. Listed'
        BY <2>1 DEF Listed, Reaches
    <2>5. Worked'
        BY <2>1, <2>2 DEF TypeOK, Worked, Listed, HookedOnce, HookOf, Critical
    <2> QED BY <2>3, <2>4, <2>5
  <1>2. CASE RestoreCallbacks(a)
    <2> DEFINE g == object[a]
    <2>1. g \in Hooks \ listed /\ live[g] = "live" /\ HookOf(target[g]) = {} /\ target[g] \in Targets
        BY <1>2 DEF RestoreCallbacks, InHand, Removing, Worked
    <2>2. \A b \in Admins : b # a => apc[b] \notin Critical
        BY <1>2 DEF RestoreCallbacks, MutualExclusion, Critical
    <2>3. Dispatched'
        BY <1>2, <2>1, <2>2 DEF RestoreCallbacks, TypeOK, Dispatched, Critical
    <2>4. Listed'
        BY <1>2, <2>1 DEF RestoreCallbacks, TypeOK, Listed, Born, Reaches, HookOf
    <2>5. Worked'
        BY <1>2, <2>1, <2>2 DEF RestoreCallbacks, TypeOK, Worked, HookOf, Critical
    <2> QED BY <2>3, <2>4, <2>5
  <1>3. CASE Free(a)
    <2> DEFINE g == object[a]
    <2>1. g \in Hooks \ listed /\ live[g] = "live" /\ target[g] \in Targets
        BY <1>3 DEF Free, InHand, Removing, Worked
    <2>2. \A b \in Admins : b # a => apc[b] \notin Critical
        BY <1>3 DEF Free, MutualExclusion, Critical
    <2>3. Dispatched'
        BY <1>3, <2>1, <2>2 DEF Free, TypeOK, Dispatched, Worked, Critical
    <2>4. Listed'
        BY <1>3, <2>1 DEF Free, TypeOK, Listed, Reaches
    <2>5. Worked'
        BY <1>3, <2>1, <2>2 DEF Free, TypeOK, Worked, Critical
    <2> QED BY <2>3, <2>4, <2>5
  <1>4. CASE RemoveAllDrivers(a)
      BY <1>4 DEF RemoveAllDrivers, TypeOK, Dispatched, Listed, Worked, Reaches
  <1> QED BY <1>1, <1>2, <1>3, <1>4

LEMMA SoundStep == Inv /\ Sound /\ [Next]_vars => Sound'
  <1> SUFFICES ASSUME Inv, Sound, [Next]_vars PROVE Sound'
      OBVIOUS
  <1>1. ASSUME NEW a \in Admins, Manage(a) PROVE Sound'
      BY <1>1, SoundInsert, SoundRemove DEF Manage
  <1>2. ASSUME NEW h \in Hooks, NEW enable \in BOOLEAN, SetMonitoringState(h, enable)
        PROVE  Sound'
      BY <1>2 DEF SetMonitoringState, adminVars, Sound, Dispatched, Listed, Worked, Linking,
                  Reaches, HookOf
  <1>3. ASSUME NEW x \in Threads,
               Intercept(x) \/ \E t \in Targets, isFast \in BOOLEAN : Request(x, t, isFast)
        PROVE  Sound'
      BY <1>3, SoundIntercept
  <1>4. CASE UNCHANGED vars
      BY <1>4 DEF vars, hookVars, adminVars, Sound, Dispatched, Listed, Worked, Linking,
                  Reaches, HookOf
  <1> QED BY <1>1, <1>2, <1>3, <1>4 DEF Next

(* However removals and insertions interleave with the requests of any      *)
(* number of threads, a device is on the copy of a HookedDriver that can be *)
(* found, or of one being worked on, or of one that was flagged invalid.    *)
THEOREM DispatchIsSound == Spec => []DispatchSound
  BY InvInit, InvStep, SoundInit, SoundStep, SoundImplies, PTL DEF Spec
-----------------------------------------------------------------------------
(* The two sets that ReferencesBalanced counts.                             *)
OfTarget(t) == {h \in Hooks : target[h] = t}
Inserting(t) == {a \in Admins : arg[a] = t}

Balanced(t) == (\A h \in OfTarget(t) : Inserted(h)) =>
                   refs[t] = Cardinality(OfTarget(t)) + Cardinality(Inserting(t))

(* What the count needs: only an insertion has an argument, no more than    *)
(* finitely many are under way, and an unborn HookedDriver has no target.   *)
Accounted ==
    /\ \A a \in Admins : apc[a] \notin {"insert", "swap", "link"} => arg[a] = None
    /\ \A h \in Hooks : live[h] = "unborn" => target[h] = None
    /\ \A t \in Targets : IsFiniteSet(Inserting(t))
    /\ \A t \in Targets : Balanced(t)

LEMMA AccountedImplies == Accounted => ReferencesBalanced
  BY DEF Accounted, Balanced, OfTarget, Inserting, ReferencesBalanced

LEMMA AccountedInit == Init => Accounted
  <1> SUFFICES ASSUME Init PROVE Accounted
      OBVIOUS
  <1>1. ASSUME NEW t \in Targets PROVE OfTarget(t) = {} /\ Inserting(t) = {} /\ refs[t] = 0
      BY <1>1, HookAssumption DEF Init, OfTarget, Inserting
  <1>2. IsFiniteSet({}) /\ Cardinality({}) = 0
      BY FS_EmptySet
  <1>3. ASSUME NEW t \in Targets PROVE IsFiniteSet(Inserting(t)) /\ Balanced(t)
      BY <1>1, <1>2, <1>3 DEF Balanced
  <1> QED BY <1>3 DEF Init, Accounted

LEMMA OfTargetIsFinite ==
  ASSUME NEW t
  PROVE  IsFiniteSet(OfTarget(t)) /\ Cardinality(OfTarget(t)) \in Nat
  <1>1. OfTarget(t) \subseteq Hooks
      BY DEF OfTarget
  <1> QED BY <1>1, HookAssumption, FS_Subset, FS_CardinalityType

(* A step that leaves the counted sets and the references as they are, and  *)
(* inserts no HookedDriver that was not inserted, keeps the account.        *)
LEMMA AccountKept ==
  ASSUME Accounted, UNCHANGED <<target, arg, refs>>,
         \A a \in Admins : apc'[a] \notin {"insert", "swap", "link"} => arg[a] = None,
         \A h \in Hooks : live'[h] = "unborn" => live[h] = "unborn",
         \A h \in Hooks : Inserted(h)' => Inserted(h)
  PROVE  Accounted'
  <1>1. ASSUME NEW t \in Targets
        PROVE  OfTarget(t)' = OfTarget(t) /\ Inserting(t)' = Inserting(t) /\ OfTarget(t) \subseteq Hooks
      BY DEF OfTarget, Inserting
  <1>2. ASSUME NEW t \in Targets PROVE IsFiniteSet(Inserting(t)') /\ Balanced(t)'
      BY <1>1, <1>2 DEF Accounted, Balanced
  <1> QED BY <1>2 DEF Accounted

(* A step that releases the reference of a HookedDriver taken out of the    *)
(* list leaves its target out of account, and the other targets as they were.*)
LEMMA AccountReleased ==
  ASSUME Inv, Accounted, UNCHANGED <<target, arg>>, NEW g \in Hooks, target[g] \in Targets,
         \A t \in Targets : t # target[g] => refs'[t] = refs[t],
         \A a \in Admins : apc'[a] \notin {"insert", "swap", "link"} => arg[a] = None,
         \A h \in Hooks : live'[h] = "unborn" => live[h] = "unborn",
         \A h \in Hooks : Inserted(h)' => Inserted(h),
         ~Inserted(g)'
  PROVE  Accounted'
  <1>1. ASSUME NEW t \in Targets
        PROVE  OfTarget(t)' = OfTarget(t) /\ Inserting(t)' = Inserting(t) /\ OfTarget(t) \subseteq Hooks
      BY DEF OfTarget, Inserting
  <1>2. ASSUME NEW t \in Targets PROVE IsFiniteSet(Inserting(t)') /\ Balanced(t)'
    <2>1. CASE t = target[g]
      <3>1. g \in OfTarget(t)
          BY <2>1 DEF OfTarget
      <3> QED BY <1>1, <3>1 DEF Accounted, Balanced
    <2>2. CASE t # target[g]
        BY <1>1, <2>2 DEF Accounted, Balanced
    <2> QED BY <2>1, <2>2
  <1> QED BY <1>2 DEF Accounted

(* InsertDriver takes a reference for itself, the constructor one for the   *)
(* HookedDriver, and every way out of InsertDriver gives the first one back.*)
LEMMA AccountedInsert ==
  ASSUME Inv, Accounted, NEW a \in Admins,
         \/ \E t \in Targets : InsertDriver(a, t)
         \/ InsertRefused(a)
         \/ \E h \in Hooks : NewHookedDriver(a, h)
         \/ SwapCallbacks(a) \/ InsertDone(a)
  PROVE  Accounted'
  <1> USE HookAssumption DEF Inv
  <1>1. ASSUME NEW u \in Targets, InsertDriver(a, u) PROVE Accounted'
    <2>1. \A h \in Hooks : Inserted(h)' => Inserted(h)
        BY <1>1 DEF InsertDriver, Inserted, TypeOK
    <2>2. a \notin Inserting(u) /\ Inserting(u)' = Inserting(u) \cup {a}
        BY <1>1 DEF InsertDriver, Inserting, Accounted, TypeOK
    <2>3. \A t \in Targets : t # u => Inserting(t)' = Inserting(t) /\ refs'[t] = refs[t]
        BY <1>1 DEF InsertDriver, Inserting, Accounted, TypeOK
    <2>4. \A t \in Targets : OfTarget(t)' = OfTarget(t) /\ OfTarget(t) \subseteq Hooks
        BY <1>1 DEF InsertDriver, OfTarget
    <2>5. /\ IsFiniteSet(Inserting(u)')
          /\ Cardinality(Inserting(u)') = Cardinality(Inserting(u)) + 1
          /\ Cardinality(Inserting(u)) \in Nat
        BY <2>2, FS_AddElement, FS_CardinalityType DEF Accounted
    <2>6. refs'[u] = refs[u] + 1 /\ refs[u] \in Int
        BY <1>1 DEF InsertDriver, TypeOK
    <2>7. ASSUME NEW t \in Targets PROVE IsFiniteSet(Inserting(t)') /\ Balanced(t)'
      <3>1. CASE t = u
        <4>1. Cardinality(OfTarget(u)) \in Nat
            BY OfTargetIsFinite
        <4> QED BY <2>1, <2>4, <2>5, <2>6, <3>1, <4>1 DEF Accounted, Balanced
      <3>2. CASE t # u
          BY <2>1, <2>3, <2>4, <3>2 DEF Accounted, Balanced
      <3> QED BY <3>1, <3>2
    <2>8. \A b \in Admins : apc'[b] \notin {"insert", "swap", "link"} => arg'[b] = None
        BY <1>1 DEF InsertDriver, Accounted, TypeOK
    <2>9. \A h \in Hooks : live'[h] = "unborn" => target'[h] = None
        BY <1>1 DEF InsertDriver, Accounted
    <2> QED BY <2>7, <2>8, <2>9 DEF Accounted
  <1>2. CASE InsertRefused(a) \/ InsertDone(a)
    <2>0. PICK u \in Targets : u = arg[a]
        BY <1>2 DEF InsertRefused, InsertDone, MutualExclusion
    <2>1. /\ apc[a] \in {"insert", "link"}
          /\ refs' = [refs EXCEPT ![u] = @ - 1]
          /\ arg' = [arg EXCEPT ![a] = None]
          /\ apc' = [apc EXCEPT ![a] = "idle"]
          /\ UNCHANGED <<live, target>>
        BY <1>2, <2>0 DEF InsertRefused, InsertDone, Released
    <2>2. ASSUME NEW h \in Hooks, Inserted(h)' PROVE Inserted(h)
        BY <1>2, <2>2 DEF InsertRefused, InsertDone, Inserted, TypeOK
    <2>3. a \in Inserting(u) /\ Inserting(u)' = Inserting(u) \ {a}
      <3>1. u # None /\ arg \in [Admins -> Targets \cup {None}]
          BY DEF TypeOK
      <3>2. \A b \in Admins : arg'[b] = IF b = a THEN None ELSE arg[b]
          BY <2>1, <3>1
      <3>3. Inserting(u) = {b \in Admins : arg[b] = u} /\ Inserting(u)' = {b \in Admins : arg'[b] = u}
          BY DEF Inserting
      <3>4. \A b \in Admins : arg'[b] = u <=> arg[b] = u /\ b # a
          BY <3>1, <3>2
      <3> QED BY <2>0, <3>3, <3>4, Zenon
    <2>4. \A t \in Targets : t # u => Inserting(t)' = Inserting(t) /\ refs'[t] = refs[t]
      <3>1. ASSUME NEW t \in Targets, t # u
            PROVE  \A b \in Admins : arg'[b] = t <=> arg[b] = t
          BY <2>0, <2>1, <3>1 DEF TypeOK
      <3>2. \A t \in Targets : t # u => refs'[t] = refs[t]
          BY <2>1 DEF TypeOK
      <3> QED BY <3>1, <3>2 DEF Inserting
    <2>5. \A t \in Targets : OfTarget(t)' = OfTarget(t) /\ OfTarget(t) \subseteq Hooks
        BY <2>1 DEF OfTarget
    <2>6. /\ IsFiniteSet(Inserting(u)')
          /\ Cardinality(Inserting(u)') = Cardinality(Inserting(u)) - 1
          /\ Cardinality(Inserting(u)) \in Nat
        BY <2>1, <2>3, FS_RemoveElement, FS_CardinalityType DEF Accounted
    <2>7. refs'[u] = refs[u] - 1 /\ refs[u] \in Int
        BY <2>1 DEF TypeOK
    <2>8. ASSUME NEW t \in Targets PROVE IsFiniteSet(Inserting(t)') /\ Balanced(t)'
      <3>1. CASE t = u
        <4>1. Cardinality(OfTarget(u)) \in Nat
            BY OfTargetIsFinite
        <4> QED BY <2>2, <2>5, <2>6, <2>7, <3>1, <4>1 DEF Accounted, Balanced
      <3>2. CASE t # u
          BY <2>2, <2>4, <2>5, <3>2 DEF Accounted, Balanced
      <3> QED BY <3>1, <3>2
    <2>9. \A b \in Admins : apc'[b] \notin {"insert", "swap", "link"} => arg'[b] = None
        BY <2>1 DEF Accounted, TypeOK
    <2>10. \A h \in Hooks : live'[h] = "unborn" => target'[h] = None
        BY <2>1 DEF Accounted
    <2> QED BY <2>8, <2>9, <2>10 DEF Accounted
  <1>3. ASSUME NEW g \in Hooks, NewHookedDriver(a, g) PROVE Accounted'
    <2>0. PICK u \in Targets : u = arg[a]
        BY <1>3 DEF NewHookedDriver, MutualExclusion
    <2>1. /\ target[g] = None /\ g \notin listed
          /\ target' = [target EXCEPT ![g] = u]
          /\ refs' = [refs EXCEPT ![u] = @ + 1]
        BY <1>3, <2>0 DEF NewHookedDriver, Accounted, Born
    <2>2. \A h \in Hooks : h # g => (Inserted(h)' => Inserted(h))
        BY <1>3 DEF NewHookedDriver, Inserted, TypeOK
    <2>3. \A t \in Targets : Inserting(t)' = Inserting(t)
        BY <1>3 DEF NewHookedDriver, Inserting
    <2>4. g \notin OfTarget(u) /\ OfTarget(u)' = OfTarget(u) \cup {g}
        BY <2>1 DEF OfTarget, TypeOK
    <2>5. \A t \in Targets : t # u => OfTarget(t)' = OfTarget(t) /\ refs'[t] = refs[t]
        BY <2>1 DEF OfTarget, TypeOK
    <2>6. \A t \in Targets : g \notin OfTarget(t) /\ OfTarget(t) \subseteq Hooks
        BY <2>1 DEF OfTarget
    <2>7. /\ Cardinality(OfTarget(u)') = Cardinality(OfTarget(u)) + 1
          /\ Cardinality(OfTarget(u)) \in Nat
        BY <2>4, OfTargetIsFinite, FS_AddElement
    <2>8. refs'[u] = refs[u] + 1 /\ refs[u] \in Int
        BY <2>1 DEF TypeOK
    <2>9. \A t \in Targets : Cardinality(Inserting(t)) \in Nat
        BY FS_CardinalityType DEF Accounted
    <2>10. ASSUME NEW t \in Targets PROVE IsFiniteSet(Inserting(t)') /\ Balanced(t)'
      <3>1. CASE t = u
        <4>1. ASSUME \A h \in OfTarget(u)' : Inserted(h)'
              PROVE  \A h \in OfTarget(u) : Inserted(h)
            BY <2>2, <2>4, <2>6, <4>1
        <4>2. Balanced(u)
            BY DEF Accounted
        <4>3. Cardinality(Inserting(u)) \in Nat
            BY <2>9
        <4>4. Balanced(u)'
            BY <2>3, <2>7, <2>8, <4>1, <4>2, <4>3 DEF Balanced
        <4> QED BY <2>3, <3>1, <4>4 DEF Accounted
      <3>2. CASE t # u
          BY <2>2, <2>3, <2>5, <2>6, <3>2 DEF Accounted, Balanced
      <3> QED BY <3>1, <3>2
    <2>11. \A b \in Admins : apc'[b] \notin {"insert", "swap", "link"} => arg'[b] = None
        BY <1>3 DEF NewHookedDriver, Accounted, TypeOK
    <2>12. \A h \in Hooks : live'[h] = "unborn" => target'[h] = None
        BY <1>3 DEF NewHookedDriver, Accounted, TypeOK
    <2> QED BY <2>10, <2>11, <2>12 DEF Accounted
  <1>4. CASE SwapCallbacks(a)
    <2>1. \A h \in Hooks : Inserted(h)' => Inserted(h)
        BY <1>4 DEF SwapCallbacks, Inserted, TypeOK
    <2>2. \A b \in Admins : apc'[b] \notin {"insert", "swap", "link"} => arg[b] = None
        BY <1>4 DEF SwapCallbacks, Accounted, TypeOK
    <2>3. UNCHANGED <<target, arg, refs, live>>
        BY <1>4 DEF SwapCallbacks
    <2> QED BY <2>1, <2>2, <2>3, AccountKept
  <1> QED BY <1>1, <1>2, <1>3, <1>4

(* Once a HookedDriver left the list nothing inserts it again.              *)
LEMMA AccountedRemove ==
  ASSUME Inv, Accounted, NEW a \in Admins,
         \/ \E h \in Hooks : RemoveDriver(a, h) \/ PopBack(a, h)
         \/ RestoreCallbacks(a) \/ Free(a) \/ RemoveAllDrivers(a)
  PROVE  Accounted'
  <1> USE HookAssumption DEF Inv
  <1>1. ASSUME NEW g \in Hooks, RemoveDriver(a, g) \/ PopBack(a, g) PROVE Accounted'
    <2>1. /\ g \in listed /\ listed' = listed \ {g}
          /\ apc' = [apc EXCEPT ![a] = "restore"]
          /\ object' = [object EXCEPT ![a] = g]
          /\ apc[a] \in {"idle", "unload"}
          /\ UNCHANGED <<live, target, arg>>
        BY <1>1 DEF RemoveDriver, PopBack, Removed
    <2>2. \A b \in Admins : b # a => apc[b] \notin {"swap", "link"}
        BY <1>1 DEF RemoveDriver, PopBack, MutualExclusion, Critical
    <2>3. \A h \in Hooks : Inserted(h)' => Inserted(h)
        BY <2>1 DEF Inserted, TypeOK
    <2>4. ~Inserted(g)'
        BY <2>1, <2>2 DEF Inserted, TypeOK
    <2>5. target[g] \in Targets
        BY <2>1 DEF Born
    <2>6. \A t \in Targets : t # target[g] => refs'[t] = refs[t]
        BY <1>1 DEF RemoveDriver, PopBack, TypeOK
    <2>7. \A b \in Admins : apc'[b] \notin {"insert", "swap", "link"} => arg[b] = None
        BY <2>1 DEF Accounted, TypeOK
    <2> QED BY <2>1, <2>3, <2>4, <2>5, <2>6, <2>7, AccountReleased
  <1>2. CASE Free(a)
    <2>1. PICK g \in Hooks \ listed : g = object[a] /\ target[g] \in Targets /\ live[g] # "unborn"
        BY <1>2 DEF Free, InHand, Removing
    <2>2. \A b \in Admins : b # a => apc[b] \notin {"swap", "link"}
        BY <1>2 DEF Free, MutualExclusion, Critical
    <2>3. \A h \in Hooks : Inserted(h)' => Inserted(h)
        BY <1>2 DEF Free, Inserted, TypeOK
    <2>4. ~Inserted(g)'
        BY <1>2, <2>1, <2>2 DEF Free, Inserted, TypeOK
    <2>5. \A t \in Targets : t # target[g] => refs'[t] = refs[t]
        BY <1>2, <2>1 DEF Free, TypeOK
    <2>6. \A b \in Admins : apc'[b] \notin {"insert", "swap", "link"} => arg[b] = None
        BY <1>2 DEF Free, Accounted, TypeOK
    <2>7. \A h \in Hooks : live'[h] = "unborn" => live[h] = "unborn"
        BY <1>2 DEF Free, TypeOK
    <2>8. UNCHANGED <<target, arg>>
        BY <1>2 DEF Free
    <2> QED BY <2>1, <2>3, <2>4, <2>5, <2>6, <2>7, <2>8, AccountReleased DEF Inv
  <1>3. CASE RestoreCallbacks(a) \/ RemoveAllDrivers(a)
    <2>1. \A h \in Hooks : Inserted(h)' => Inserted(h)
        BY <1>3 DEF RestoreCallbacks, RemoveAllDrivers, Inserted, TypeOK
    <2>2. \A b \in Admins : apc'[b] \notin {"insert", "swap", "link"} => arg[b] = None
        BY <1>3 DEF RestoreCallbacks, RemoveAllDrivers, Accounted, TypeOK
    <2>3. UNCHANGED <<target, arg, refs, live>>
        BY <1>3 DEF RestoreCallbacks, RemoveAllDrivers
    <2> QED BY <2>1, <2>2, <2>3, AccountKept
  <1> QED BY <1>1, <1>2, <1>3

LEMMA AccountedStep == Inv /\ Accounted /\ [Next]_vars => Accounted'
  <1> SUFFICES ASSUME Inv, Accounted, [Next]_vars PROVE Accounted'
      OBVIOUS
  <1>1. ASSUME NEW a \in Admins, Manage(a) PROVE Accounted'
      BY <1>1, AccountedInsert, AccountedRemove DEF Manage
  <1>2. ASSUME UNCHANGED <<live, target, listed, refs, apc, arg, object>> PROVE Accounted'
      BY <1>2, AccountKept DEF Accounted, Inserted
  <1>3. ASSUME NEW h \in Hooks, NEW enable \in BOOLEAN, SetMonitoringState(h, enable)
        PROVE  Accounted'
      BY <1>2, <1>3 DEF SetMonitoringState, adminVars
  <1>4. ASSUME NEW x \in Threads,
               Intercept(x) \/ \E t \in Targets, isFast \in BOOLEAN : Request(x, t, isFast)
        PROVE  Accounted'
      BY <1>2, <1>4 DEF Intercept, Request, NewCapturedIrp, Fallback, CallFastIo, CapturePre,
             ExecuteOriginal, DisableCapturing, FlagAsInvalid, CapturePost, Push, hookVars,
             adminVars
  <1>5. CASE UNCHANGED vars
      BY <1>2, <1>5 DEF vars, hookVars, adminVars
  <1> QED BY <1>1, <1>3, <1>4, <1>5 DEF Next

(* Until a driver is first removed, IrpMonitor holds on each target exactly *)
(* one reference for a HookedDriver of it and one for each InsertDriver     *)
(* under way, whatever number of threads insert, are refused or lose a race.*)
THEOREM References == Spec => []ReferencesBalanced
  BY InvInit, InvStep, AccountedInit, AccountedStep, AccountedImplies, PTL DEF Spec
=============================================================================
