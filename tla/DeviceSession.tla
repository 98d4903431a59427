---------------------------- MODULE DeviceSession ----------------------------
(***************************************************************************)
(* Who may command the driver: the create, close and device-control        *)
(* routines of IrpMonitor's device, and the Owner they keep in the global  *)
(* context.  Create and close hold ContextLock; the device-control routine *)
(* reads Owner without it, and acts on the command later.                  *)
(***************************************************************************)
EXTENDS Integers, FiniteSets

CONSTANTS Processes,   \* the processes that open the device
          Privileged,  \* those with SeDebugPrivilege enabled
          MaxHandles,  \* bound: handles a process has open at a time
          Width,       \* 2^32 in the code: SessionId is a ULONG
          None

ASSUME SessionAssumption ==
    /\ Privileged \subseteq Processes
    /\ None \notin Processes
    /\ MaxHandles \in Nat \ {0}
    /\ Width \in Nat \ {0}

VARIABLES
    owner,      \* GlobalContext::Owner
    session,    \* GlobalContext::SessionId
    handles,    \* handles on the device each process has open
    pc,         \* where each process is in DriverDeviceControlRoutine
    answer,     \* how the last request was completed
    doubled     \* history: has a process had two handles at a time?

vars == <<owner, session, handles, pc, answer, doubled>>

Answers ==
    {"none", "success", "privilege_not_held", "already_attached", "access_denied",
     "unsuccessful"}

Init ==
    /\ owner = None
    /\ session = Width - 1           \* -1, in a ULONG
    /\ handles = [p \in Processes |-> 0]
    /\ pc = [p \in Processes |-> "idle"]
    /\ answer = "none"
    /\ doubled = FALSE

Answer(status) == answer' = status

(* The session number, an unsigned increment.  Mutation: no wrap.           *)
NextSessionWide == session + 1
NextSession == (session + 1) % Width

(* A session starts when the device gets an owner.  Mutation: at each open. *)
SessionPerOpen(p) == NextSession
SessionAfterOpen(p) == IF owner = None THEN NextSession ELSE session

(* A close frees the device.  Mutation: the owner is left in place.         *)
OwnerStays == owner
OwnerAfterClose == None

(* DriverCreateRoutine.  A first handle starts a session; the owner may     *)
(* have more of them, and they are not counted.                             *)
Create(p) ==
    /\ pc[p] = "idle"
    /\ handles[p] < MaxHandles
    /\ \/ /\ p \notin Privileged
          /\ Answer("privilege_not_held")
          /\ UNCHANGED <<owner, session, handles, doubled>>
       \/ /\ p \in Privileged
          /\ owner \in {None, p}
          /\ owner' = p
          /\ session' = SessionAfterOpen(p)
          /\ handles' = [handles EXCEPT ![p] = @ + 1]
          /\ doubled' = (doubled \/ handles[p] > 0)
          /\ Answer("success")
       \/ /\ p \in Privileged
          /\ owner \notin {None, p}
          /\ Answer("already_attached")
          /\ UNCHANGED <<owner, session, handles, doubled>>
    /\ UNCHANGED pc

(* DriverCloseRoutine: whichever handle of whichever process is closed.     *)
Close(p) ==
    /\ pc[p] = "idle"
    /\ handles[p] > 0
    /\ owner' = OwnerAfterClose
    /\ handles' = [handles EXCEPT ![p] = @ - 1]
    /\ Answer("success")
    /\ UNCHANGED <<session, pc, doubled>>

(* DriverDeviceControlRoutine compares the caller to Owner ...              *)
DeviceControl(p) ==
    /\ pc[p] = "idle"
    /\ handles[p] > 0
    /\ \/ /\ p # owner
          /\ Answer("access_denied")
          /\ UNCHANGED pc
       \/ /\ p = owner
          /\ Answer("none")
          /\ pc' = [pc EXCEPT ![p] = "granted"]
    /\ UNCHANGED <<owner, session, handles, doubled>>

(* ... and then does what the IOCTL code says (see HookedDrivers).  Other   *)
(* threads of the process may close its other handles in between.           *)
Execute(p) ==
    /\ pc[p] = "granted"
    /\ pc' = [pc EXCEPT ![p] = "idle"]
    /\ Answer("success")
    /\ UNCHANGED <<owner, session, handles, doubled>>

CloseMeanwhile(p) ==
    /\ pc[p] = "granted"
    /\ handles[p] > 1
    /\ owner' = OwnerAfterClose
    /\ handles' = [handles EXCEPT ![p] = @ - 1]
    /\ UNCHANGED <<session, pc, answer, doubled>>

(* A command is refused as long as the driver does not know its own device  *)
(* (DriverLifecycle says when that is).                                     *)
RefuseUnknownDevice(p) ==
    /\ pc[p] = "idle"
    /\ handles[p] > 0
    /\ Answer("unsuccessful")
    /\ UNCHANGED <<owner, session, handles, pc, doubled>>

(* A process ends: the system closes the handles it has left.               *)
Exit(p) ==
    /\ handles' = [handles EXCEPT ![p] = 0]
    /\ owner' = IF handles[p] > 0 THEN OwnerAfterClose ELSE owner
    /\ pc' = [pc EXCEPT ![p] = "idle"]
    /\ UNCHANGED <<session, answer, doubled>>

(* The driver is loaded again, with a new context, nobody having it open.   *)
ResetContext ==
    /\ owner' = None
    /\ session' = Width - 1
    /\ UNCHANGED <<handles, pc, answer, doubled>>

NewContext ==
    /\ \A p \in Processes : handles[p] = 0
    /\ ResetContext

Next ==
    \/ \E p \in Processes :
           \/ Create(p) \/ Close(p)
           \/ DeviceControl(p) \/ Execute(p) \/ CloseMeanwhile(p) \/ RefuseUnknownDevice(p)
           \/ Exit(p)
    \/ NewContext

Spec == Init /\ [][Next]_vars
-----------------------------------------------------------------------------
(* The owner is a process or nobody; the session number wraps at its width; *)
(* the handles of a process stay within the bound of the model.             *)
TypeOK ==
    /\ owner \in Processes \cup {None}
    /\ session \in 0 .. Width - 1
    /\ handles \in [Processes -> 0 .. MaxHandles]
    /\ pc \in [Processes -> {"idle", "granted"}]
    /\ answer \in Answers
    /\ doubled \in BOOLEAN

(* The device is never locked to a process that has left: an owner has a    *)
(* handle and the privileges, so the next close frees the device again.     *)
OwnerIsPresent ==
    owner # None => owner \in Privileged /\ handles[owner] > 0

(* The owner changes hands only through "nobody", each time the device is   *)
(* taken a new session starts, and a session never changes under its owner: *)
(* no two owners in a row share one while the driver stays loaded.          *)
SessionPerOwner ==
    [][/\ owner' # owner => None \in {owner, owner'}
       /\ owner = None /\ owner' # None => session' # session
       /\ owner # None => session' = session]_vars

(* "Not more than one handle to the device is allowed", which the routines  *)
(* leave to the processes: while none has had two handles at a time, the    *)
(* one process with a handle is the owner, nobody is denied a command, and  *)
(* the one under way is its own, although Owner is read without the lock.   *)
Exclusive ==
    ~doubled =>
        /\ answer # "access_denied"
        /\ \A p \in Processes :
               /\ handles[p] > 0 <=> owner = p
               /\ pc[p] = "granted" => owner = p
=============================================================================
