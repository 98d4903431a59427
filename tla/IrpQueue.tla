------------------------------ MODULE IrpQueue ------------------------------
(***************************************************************************)
(* The queue of captured IRPs inside the driver: CapturedIrpManager, the   *)
(* LinkedList it stores the IRPs in, the notification event it shares with *)
(* the broker, and DriverReadRoutine, which empties it.                    *)
(*                                                                         *)
(* Producers are the threads that run an interception callback; Readers    *)
(* are the threads that have a ReadFile() on the device in flight.  Two    *)
(* locks order them: the manager's m_Mutex (held by Push, Pop, SetEvent)   *)
(* and the list's own m_Mutex (held by each list primitive, and by the     *)
(* whole of ForEach).  A step of this module is what a thread does between *)
(* two points where another thread can observe or interfere.               *)
(***************************************************************************)
EXTENDS Integers, Sequences, Functions

CONSTANTS Producers,   \* threads that push captured IRPs
          Readers,     \* threads that read the device
          Irps,        \* the CapturedIrp objects, each allocated once
          Size,        \* Size[i]: bytes of header, input and output of i
          Lengths,     \* the buffer lengths a read may be issued with
          Events,      \* the KEVENTs user-land may share with the driver
          None         \* the null pointer, and "nobody" for the locks

ASSUME QueueAssumption ==
    /\ Size \in [Irps -> Nat \ {0}]
    /\ Lengths \subseteq Nat
    /\ Producers \cap Readers = {}
    /\ None \notin Producers \cup Readers \cup Events

VARIABLES
    entries,     \* m_Entries: the linked list, head first
    total,       \* LinkedList::m_TotalEntry
    count,       \* CapturedIrpManager::m_Count
    mutex,       \* owner of CapturedIrpManager::m_Mutex
    listMutex,   \* reader walking the list under LinkedList::m_Mutex
    event,       \* CapturedIrpManager::m_Event
    signalled    \* the events that are in the signalled state

queueVars == <<entries, total, count, mutex, listMutex, event, signalled>>

VARIABLES        \* the locals of DriverReadRoutine, one copy per reader
    pc,          \* where the reader is
    requested,   \* RequestedBufferSize
    expected,    \* ExpectedBufferSize
    number,      \* DumpableIrpNumber
    copied,      \* BufferPointer - BufferPointerBase
    taken,       \* the IRPs this read has popped
    reply        \* what the request was completed with

readVars == <<pc, requested, expected, number, copied, taken, reply>>

VARIABLES        \* history
    pushed,      \* every IRP ever queued, in order
    offset,      \* offset[k + 1]: bytes of the first k IRPs of pushed
    delivered,   \* every IRP a successful read returned, in order
    lost         \* the IRPs popped by a read that then failed

histVars == <<pushed, offset, delivered, lost>>

vars == <<queueVars, readVars, histVars>>
-----------------------------------------------------------------------------
ReaderStates == {"idle", "measure", "copy", "popped"}

Statuses == {"none", "success", "buffer_too_small", "insufficient_resources",
             "bad_data", "buffer_overflow"}

NoReply == [status |-> "none", irps |-> <<>>]

Init ==
    /\ entries = <<>>
    /\ total = 0
    /\ count = 0
    /\ mutex = None
    /\ listMutex = None
    /\ event = None
    /\ signalled = {}
    /\ pc = [r \in Readers |-> "idle"]
    /\ requested = [r \in Readers |-> 0]
    /\ expected = [r \in Readers |-> 0]
    /\ number = [r \in Readers |-> 0]
    /\ copied = [r \in Readers |-> 0]
    /\ taken = [r \in Readers |-> <<>>]
    /\ reply = [r \in Readers |-> NoReply]
    /\ pushed = <<>>
    /\ offset = <<0>>
    /\ delivered = <<>>
    /\ lost = {}
-----------------------------------------------------------------------------
(* CapturedIrpManager::SetEvent, once ObReferenceObjectByHandle succeeded;  *)
(* when it fails nothing changes.  A process shares an event it created     *)
(* unsignalled.  The event replaced is dereferenced, never cleared.         *)
SetEvent(e) ==
    /\ mutex = None
    /\ e \notin signalled
    /\ event' = e
    /\ UNCHANGED <<entries, total, count, mutex, listMutex, signalled,
                   readVars, histVars>>

(* LinkedList::PushBack and PopFront on the entries.  The first definition  *)
(* of each pair is a mutation of the second: the wrong end of the list, and *)
(* an entry read but not removed.                                           *)
LinkedInFront(irp) == <<irp>> \o entries
Linked(irp) == Append(entries, irp)

UnlinkedNot == entries
Unlinked == Tail(entries)

(* CapturedIrpManager::Push, first half: m_Mutex is taken and the IRP is    *)
(* appended under the list's mutex.                                         *)
PushBack(p, irp) ==
    /\ mutex = None
    /\ listMutex = None
    /\ irp \notin Range(pushed)
    /\ mutex' = p
    /\ entries' = Linked(irp)
    /\ total' = total + 1
    /\ pushed' = Append(pushed, irp)
    /\ offset' = Append(offset, offset[Len(pushed) + 1] + Size[irp])
    /\ UNCHANGED <<count, listMutex, event, signalled, readVars, delivered, lost>>

(* CapturedIrpManager::Push, second half: the count, the event, the lock.   *)
(* Mutation: the count is forgotten.                                        *)
PushNotifyUncounted(p) ==
    /\ mutex = p
    /\ signalled' = IF event # None THEN signalled \cup {event} ELSE signalled
    /\ mutex' = None
    /\ UNCHANGED <<entries, total, count, listMutex, event, readVars, histVars>>

PushNotify(p) ==
    /\ mutex = p
    /\ count' = count + 1
    /\ signalled' = IF event # None THEN signalled \cup {event} ELSE signalled
    /\ mutex' = None
    /\ UNCHANGED <<entries, total, listMutex, event, readVars, histVars>>
-----------------------------------------------------------------------------
(* Completing a read: the request's locals die with it.                     *)
Complete(r, status, irps) ==
    /\ pc' = [pc EXCEPT ![r] = "idle"]
    /\ reply' = [reply EXCEPT ![r] = [status |-> status, irps |-> irps]]
    /\ taken' = [taken EXCEPT ![r] = <<>>]
    /\ copied' = [copied EXCEPT ![r] = 0]

(* DriverReadRoutine: ForEach takes the list's mutex and starts measuring.  *)
ReadRequest(r, len) ==
    /\ pc[r] = "idle"
    /\ listMutex = None
    /\ listMutex' = r
    /\ pc' = [pc EXCEPT ![r] = "measure"]
    /\ requested' = [requested EXCEPT ![r] = len]
    /\ expected' = [expected EXCEPT ![r] = 0]
    /\ number' = [number EXCEPT ![r] = 0]
    /\ reply' = [reply EXCEPT ![r] = NoReply]
    /\ UNCHANGED <<entries, total, count, mutex, event, signalled,
                   copied, taken, histVars>>

(* The lambda of ForEach, on the next entry of the list.                    *)
MeasureEntry(r) ==
    /\ pc[r] = "measure"
    /\ number[r] < Len(entries)
    /\ expected' = [expected EXCEPT ![r] = @ + Size[entries[number[r] + 1]]]
    /\ number' = [number EXCEPT ![r] = @ + 1]
    /\ UNCHANGED <<queueVars, pc, requested, copied, taken, reply, histVars>>

(* The walk is over: ForEach releases the list, and the buffer is checked.  *)
(* The copy needs the buffer's MDL, and a read of no bytes has none: on an  *)
(* empty queue the routine would go through a null pointer, and no step of  *)
(* this module says what happens next.                                      *)
MeasureDone(r) ==
    /\ pc[r] = "measure"
    /\ number[r] = Len(entries)
    /\ listMutex' = None
    /\ \/ /\ requested[r] < expected[r]
          /\ Complete(r, "buffer_too_small", <<>>)
       \/ /\ requested[r] >= expected[r]
          /\ requested[r] > 0
          /\ Complete(r, "insufficient_resources", <<>>)   \* no mapping of the MDL
       \/ /\ requested[r] >= expected[r]
          /\ requested[r] > 0
          /\ pc' = [pc EXCEPT ![r] = "copy"]
          /\ UNCHANGED <<copied, taken, reply>>
    /\ UNCHANGED <<entries, total, count, mutex, event, signalled,
                   requested, expected, number, histVars>>

(* CapturedIrpManager::Pop, first half: m_Mutex is taken and the head, if   *)
(* there is one, is removed under the list's mutex.  On an empty queue Pop  *)
(* returns null and the read fails, with all it has popped so far.          *)
PopFront(r) ==
    /\ pc[r] = "copy"
    /\ Len(taken[r]) < number[r]
    /\ mutex = None
    /\ listMutex = None
    /\ \/ /\ total = 0
          /\ Complete(r, "bad_data", <<>>)
          /\ lost' = lost \cup Range(taken[r])
          /\ UNCHANGED <<entries, total, mutex>>
       \/ /\ total # 0
          /\ entries # <<>>
          /\ mutex' = r
          /\ entries' = Unlinked
          /\ total' = total - 1
          /\ taken' = [taken EXCEPT ![r] = Append(@, Head(entries))]
          /\ pc' = [pc EXCEPT ![r] = "popped"]
          /\ UNCHANGED <<copied, reply, lost>>
    /\ UNCHANGED <<count, listMutex, event, signalled, requested, expected,
                   number, pushed, offset, delivered>>

(* Pop clears the event if it has emptied the queue.  Mutation: it looks at *)
(* the count before it has decremented it.                                  *)
SignalledTooLong == IF count = 0 THEN signalled \ {event} ELSE signalled
SignalledAfterPop == IF count = 1 THEN signalled \ {event} ELSE signalled

(* The popped IRP fits in what was measured.  Mutation: off by one.         *)
FitsStrictly(r, irp) == copied[r] + Size[irp] < expected[r]
Fits(r, irp) == copied[r] + Size[irp] <= expected[r]

(* CapturedIrpManager::Pop, second half, and the copy of the popped IRP by  *)
(* DriverReadRoutine.  Header, input and output are bounds-checked one by   *)
(* one; one of the checks fails exactly if the three together do not fit.   *)
PopCount(r) ==
    LET irp == taken[r][Len(taken[r])] IN
    /\ pc[r] = "popped"
    /\ mutex = r
    /\ mutex' = None
    /\ count' = count - 1
    /\ signalled' = SignalledAfterPop
    /\ \/ /\ Fits(r, irp)
          /\ copied' = [copied EXCEPT ![r] = @ + Size[irp]]
          /\ pc' = [pc EXCEPT ![r] = "copy"]
          /\ UNCHANGED <<taken, reply, lost>>
       \/ /\ ~Fits(r, irp)
          /\ Complete(r, "buffer_overflow", <<>>)
          /\ lost' = lost \cup Range(taken[r])
    /\ UNCHANGED <<entries, total, listMutex, event, requested, expected,
                   number, pushed, offset, delivered>>

(* All DumpableIrpNumber IRPs are in the buffer.                            *)
ReadDone(r) ==
    /\ pc[r] = "copy"
    /\ Len(taken[r]) = number[r]
    /\ Complete(r, "success", taken[r])
    /\ delivered' = delivered \o taken[r]
    /\ UNCHANGED <<queueVars, requested, expected, number, pushed, offset, lost>>
-----------------------------------------------------------------------------
Produce(p) == (\E irp \in Irps : PushBack(p, irp)) \/ PushNotify(p)

ReadStep(r) ==
    MeasureEntry(r) \/ MeasureDone(r) \/ PopFront(r) \/ PopCount(r) \/ ReadDone(r)

Next ==
    \/ \E e \in Events : SetEvent(e)
    \/ \E p \in Producers : Produce(p)
    \/ \E r \in Readers : ReadStep(r) \/ \E len \in Lengths : ReadRequest(r, len)

Spec == Init /\ [][Next]_vars
-----------------------------------------------------------------------------
(* Every variable has the shape its C++ type gives it; the counters are     *)
(* unsigned in the code, so a negative value here would be a wrap there.    *)
TypeOK ==
    /\ entries \in Seq(Irps)
    /\ total \in Nat
    /\ count \in Nat
    /\ mutex \in Producers \cup Readers \cup {None}
    /\ listMutex \in Readers \cup {None}
    /\ event \in Events \cup {None}
    /\ signalled \subseteq Events
    /\ pc \in [Readers -> ReaderStates]
    /\ requested \in [Readers -> Nat]
    /\ expected \in [Readers -> Nat]
    /\ number \in [Readers -> Nat]
    /\ copied \in [Readers -> Nat]
    /\ taken \in [Readers -> Seq(Irps)]
    /\ reply \in [Readers -> [status : Statuses, irps : Seq(Irps)]]
    /\ pushed \in Seq(Irps)
    /\ offset \in Seq(Nat)
    /\ delivered \in Seq(Irps)
    /\ lost \subseteq Irps

(* m_Count and m_TotalEntry count the same list, the first under m_Mutex    *)
(* and the second under the list's mutex: they may differ only by the one   *)
(* entry the holder of m_Mutex is in the middle of adding or removing.      *)
CountersAgree ==
    /\ total = Len(entries)
    /\ mutex = None => count = total
    /\ mutex \in Producers => count + 1 = total
    /\ mutex \in Readers => count = total + 1

(* "Unset the event is no data is ready": when no Push or Pop is under way, *)
(* a signalled event means that a read would find something.                *)
SignalMeansData ==
    mutex = None /\ event \in signalled => entries # <<>>

(* Whatever the readers do to each other, no IRP is duplicated and none     *)
(* vanishes unaccounted: each one pushed is in exactly one place.           *)
Conservation ==
    LET held(r) == Range(taken[r])
        settled == Range(delivered) \cup lost
    IN /\ Range(pushed) = Range(entries) \cup settled \cup UNION {held(r) : r \in Readers}
       /\ Range(entries) \cap settled = {}
       /\ Range(delivered) \cap lost = {}
       /\ \A r \in Readers : held(r) \cap (Range(entries) \cup settled) = {}
       /\ \A r1, r2 \in Readers : r1 # r2 => held(r1) \cap held(r2) = {}

(* With one reader, what it has read, what it is reading and what is still  *)
(* queued is what was captured, in the order of capture: a read does not    *)
(* skip, repeat, reorder or drop, whatever the producers do meanwhile.      *)
DeliveryInOrder ==
    \A r \in Readers : delivered \o taken[r] \o entries = pushed

(* With one reader, the snapshot measured by ForEach stays valid until the  *)
(* copy ends: neither the null Pop nor a buffer overflow can be met.        *)
SnapshotHolds ==
    \A r \in Readers : reply[r].status \notin {"bad_data", "buffer_overflow"}

(* With one reader, the queue is an in-order, exactly-once channel: a       *)
(* completed ReadFile() hands over a batch, every other step is invisible.  *)
Channel == INSTANCE IrpChannel WITH sent <- pushed, received <- delivered

ImplementsChannel == Channel!Spec
=============================================================================
