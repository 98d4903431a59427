------------------------------ MODULE IrpPump -------------------------------
(***************************************************************************)
(* The path of a captured IRP from the driver to the broker's JsonQueue    *)
(* connector: the queue of module IrpQueue, whose only reader is now the   *)
(* thread of the broker's IrpManager, and the two threads of the broker    *)
(* that meet at m_CallbackDispatcher, IrpManager and ConnectorManager.     *)
(*                                                                         *)
(* The notification event is manual-reset and has three writers: Push sets *)
(* it, the Pop that empties the queue clears it, and GetNextIrps resets it *)
(* after the read, whether or not something was queued since.              *)
(***************************************************************************)
EXTENDS IrpQueue

CONSTANTS Event,       \* m_hNewIrpEvent, the event the broker shares
          LengthWidth  \* 2^32 in the code: dataLength is a DWORD

ASSUME PumpAssumption ==
    /\ \E broker \in Readers : Readers = {broker}
    /\ Event \in Events
    /\ LengthWidth \in Nat \ {0, 1}
    /\ 0 .. LengthWidth - 1 \subseteq Lengths

Broker == CHOOSE broker \in Readers : Readers = {broker}

VARIABLES
    bpc,           \* where the thread of IrpManager is
    dataLength,    \* the local of GetNextIrps
    batch,         \* the IRPs parsed from the last read, to be dispatched
    cpc,           \* where the thread of ConnectorManager is
    callback,      \* is m_CallbackDispatcher set?
    connected,     \* is the JsonQueue in g_Connectors?
    terminating,   \* GlobalContext's termination event
    stored,        \* every IRP the JsonQueue was given, in order
    dropped,       \* history: IRPs read from the driver and given to no one
    refused        \* history: the driver refused a read of the right size

pumpVars == <<bpc, dataLength, batch, cpc, callback, connected, terminating,
              stored, dropped, refused>>

allVars == <<vars, pumpVars>>

Refusals == Statuses \ {"none", "success", "buffer_too_small"}

PumpInit ==
    /\ Init
    /\ bpc = "setup"
    /\ dataLength = 0
    /\ batch = <<>>
    /\ cpc = "waiting"
    /\ callback = FALSE
    /\ connected = FALSE
    /\ terminating = FALSE
    /\ stored = <<>>
    /\ dropped = {}
    /\ refused = FALSE
-----------------------------------------------------------------------------
(* IrpManager::Setup shares the event and announces IrpManagerReady.  Run   *)
(* then asks for state Running, but that announcement has signalled the     *)
(* thread's own state-changed event, which nothing ever resets, so its      *)
(* WaitForState returns at once (see BrokerLifecycle).                      *)
IrpManagerSetup ==
    /\ bpc = "setup"
    /\ SetEvent(Event)
    /\ bpc' = "wait"
    /\ UNCHANGED <<dataLength, batch, cpc, callback, connected, terminating,
                   stored, dropped, refused>>

(* The first length GetNextIrps tries.  Mutation: a length that no doubling *)
(* makes grow.                                                              *)
FirstLengthZero == 0
FirstLength == 1

(* WaitForMultipleObjects reports the termination event first.              *)
WakeUp ==
    /\ bpc = "wait"
    /\ ~terminating
    /\ Event \in signalled
    /\ bpc' = "read"
    /\ dataLength' = FirstLength
    /\ UNCHANGED <<vars, batch, cpc, callback, connected, terminating,
                   stored, dropped, refused>>

IrpManagerDone ==
    /\ bpc = "wait"
    /\ terminating
    /\ bpc' = "done"
    /\ UNCHANGED <<vars, dataLength, batch, cpc, callback, connected,
                   terminating, stored, dropped, refused>>

(* ReadFile enters DriverReadRoutine with a buffer of dataLength bytes.     *)
IssueRead ==
    /\ bpc = "read"
    /\ ReadRequest(Broker, dataLength)
    /\ bpc' = "reading"
    /\ UNCHANGED <<dataLength, batch, cpc, callback, connected, terminating,
                   stored, dropped, refused>>

ReadReturns == bpc = "reading" /\ pc[Broker] = "idle"

(* ERROR_INSUFFICIENT_BUFFER: the length is doubled, in 32 bits.  Mutation: *)
(* the read is retried as it was.                                           *)
NotDoubled == dataLength
Doubled == (dataLength * 2) % LengthWidth

Grow ==
    /\ ReadReturns
    /\ reply[Broker].status = "buffer_too_small"
    /\ dataLength' = Doubled
    /\ bpc' = "read"
    /\ UNCHANGED <<vars, batch, cpc, callback, connected, terminating,
                   stored, dropped, refused>>

ResetEvent ==
    /\ signalled' = signalled \ {Event}
    /\ UNCHANGED <<entries, total, count, mutex, listMutex, event,
                   readVars, histVars>>

(* Any other failure: the event is reset, and nothing comes out.            *)
GiveUp ==
    /\ ReadReturns
    /\ reply[Broker].status \in Refusals
    /\ ResetEvent
    /\ refused' = TRUE
    /\ bpc' = "wait"
    /\ UNCHANGED <<dataLength, batch, cpc, callback, connected, terminating,
                   stored, dropped>>

(* The read succeeded: its bytes are parsed into IRPs, then the event is    *)
(* reset; Push may have set it between the read and this reset.             *)
Parse ==
    /\ ReadReturns
    /\ reply[Broker].status = "success"
    /\ batch' = reply[Broker].irps
    /\ ResetEvent
    /\ bpc' = "dispatch"
    /\ UNCHANGED <<dataLength, cpc, callback, connected, terminating,
                   stored, dropped, refused>>

(* The IRP to be dispatched next.  Mutation: the batch is taken as a stack. *)
LastOfBatch == batch[Len(batch)]
NextOfBatch == Head(batch)

(* The loop of Run over the parsed IRPs: without a dispatcher it breaks and *)
(* the batch dies; with one, the IRP goes to the connectors there are.      *)
Dispatch ==
    /\ bpc = "dispatch"
    /\ \/ /\ batch = <<>>
          /\ bpc' = "wait"
          /\ UNCHANGED <<batch, stored, dropped>>
       \/ /\ batch # <<>>
          /\ ~callback
          /\ bpc' = "wait"
          /\ batch' = <<>>
          /\ dropped' = dropped \cup Range(batch)
          /\ UNCHANGED stored
       \/ /\ batch # <<>>
          /\ callback
          /\ batch' = Tail(batch)
          /\ IF connected
             THEN stored' = Append(stored, NextOfBatch) /\ UNCHANGED dropped
             ELSE dropped' = dropped \cup {NextOfBatch} /\ UNCHANGED stored
          /\ UNCHANGED bpc
    /\ UNCHANGED <<vars, dataLength, cpc, callback, connected, terminating, refused>>
-----------------------------------------------------------------------------
(* ConnectorManager::Setup asks for IrpManagerReady but is let through by   *)
(* the first state change of all, ServiceManagerReady.  It sets the         *)
(* callback, then fills g_Connectors, neither locked against IrpManager,    *)
(* and only then announces ConnectorManagerReady.                           *)
SetCallback ==
    /\ cpc = "waiting"
    /\ callback' = TRUE
    /\ cpc' = "registered"
    /\ UNCHANGED <<vars, bpc, dataLength, batch, connected, terminating,
                   stored, dropped, refused>>

AddConnectors ==
    /\ cpc = "registered"
    /\ connected' = TRUE
    /\ cpc' = "ready"
    /\ UNCHANGED <<vars, bpc, dataLength, batch, callback, terminating,
                   stored, dropped, refused>>

(* GlobalContext::Stop.                                                     *)
Stop ==
    /\ terminating' = TRUE
    /\ UNCHANGED <<vars, bpc, dataLength, batch, cpc, callback, connected,
                   stored, dropped, refused>>

(* Captures may begin before the event is shared: the ConnectorManager may  *)
(* announce Running, which is what makes ExecuteCommand forward commands to *)
(* the driver, while the IrpManager is still in its Setup.                  *)
Capture(p) == Produce(p) /\ UNCHANGED pumpVars

DriverRead == ReadStep(Broker) /\ UNCHANGED pumpVars

BrokerStep ==
    \/ IrpManagerSetup \/ WakeUp \/ IrpManagerDone \/ IssueRead
    \/ Grow \/ GiveUp \/ Parse \/ Dispatch

ConnectorStep == SetCallback \/ AddConnectors

PumpNext ==
    \/ \E p \in Producers : Capture(p)
    \/ DriverRead
    \/ BrokerStep
    \/ ConnectorStep
    \/ Stop

PumpSpec == PumpInit /\ [][PumpNext]_allVars

(* Threads that can run do run; nobody has to capture or to stop.           *)
PumpFairness ==
    /\ \A p \in Producers : WF_allVars(PushNotify(p) /\ UNCHANGED pumpVars)
    /\ WF_allVars(DriverRead)
    /\ WF_allVars(BrokerStep)
    /\ WF_allVars(ConnectorStep)

FairPumpSpec == PumpSpec /\ PumpFairness
-----------------------------------------------------------------------------
(* The queue keeps its types around the broker's thread; the read buffer's  *)
(* length is a DWORD, which wraps at its width.                             *)
PumpTypeOK ==
    /\ TypeOK
    /\ bpc \in {"setup", "wait", "read", "reading", "dispatch", "done"}
    /\ dataLength \in 0 .. LengthWidth - 1
    /\ batch \in Seq(Irps)
    /\ cpc \in {"waiting", "registered", "ready"}
    /\ {callback, connected, terminating, refused} \subseteq BOOLEAN
    /\ stored \in Seq(Irps)
    /\ dropped \subseteq Irps

(* What the broker's thread holds and has not dispatched.                   *)
InHand ==
    IF ReadReturns /\ reply[Broker].status = "success"
    THEN reply[Broker].irps ELSE batch

(* Up to what was thrown away before the connectors were up, the JsonQueue  *)
(* gets each IRP the driver delivered once and in order: what it stored and *)
(* what is in the thread's hands are the end of what was delivered.         *)
StoredInOrder ==
    LET onTheWay == stored \o InHand
        n == Len(delivered) - Len(onTheWay)
    IN /\ n >= 0
       /\ onTheWay = SubSeq(delivered, n + 1, Len(delivered))
       /\ dropped = Range(SubSeq(delivered, 1, n))

(* GetNextIrps returns: the doubling overtakes a queue that producers keep  *)
(* filling, provided all there is to capture fits in half of a DWORD.       *)
ReadTerminates == bpc = "read" ~> bpc \in {"wait", "dispatch"}

(* A wake-up is not wasted: what is queued while the event is signalled     *)
(* reaches user-land, unless the broker stops or the read is refused.       *)
SignalledIsRead ==
    \A irp \in Irps :
        (bpc = "wait" /\ Event \in signalled /\ irp \in Range(entries))
            ~> (irp \in Range(delivered) \/ terminating \/ refused)

(* "Set the event to notify the broker some data is ready": an IRP queued   *)
(* while the broker reads gets there too, with no further capture to rescue *)
(* it.  (One queued before the event is shared is announced to no one.)     *)
CapturedIsRead ==
    \A irp \in Irps :
        (bpc = "reading" /\ irp \in Range(entries))
            ~> (irp \in Range(delivered) \/ terminating \/ refused)
=============================================================================
