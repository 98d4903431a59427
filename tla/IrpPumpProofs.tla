----------------------------- MODULE IrpPumpProofs -----------------------------
(***************************************************************************)
(* Proofs about IrpPump, for any producers and IRPs and any width of the   *)
(* read's length: around the broker's thread, which resets the event       *)
(* behind the driver's back, the queue keeps every property it has alone,  *)
(* and the JsonQueue is given the IRPs in the order they were delivered.   *)
(***************************************************************************)
EXTENDS IrpPump, IrpQueueProofs

(* Only IrpManager's thread reads the device.                               *)
LEMMA BrokerReads == Broker \in Readers /\ Readers = {Broker}
  BY PumpAssumption DEF Broker

(* A step of the pump is, for the queue, one of its own, or the reset of    *)
(* the event by GetNextIrps; the length of a read is one that it allows.    *)
LengthOK == dataLength \in 0 .. LengthWidth - 1

LEMMA PumpStepIsQueueStep ==
  ASSUME LengthOK, [PumpNext]_allVars
  PROVE  [Next]_vars \/ ResetEvent
  <1>1. ASSUME NEW p \in Producers, Capture(p) PROVE Next
      BY <1>1 DEF Capture, Next
  <1>2. CASE DriverRead
      BY <1>2, BrokerReads DEF DriverRead, Next
  <1>3. CASE IssueRead
    <2>1. dataLength \in Lengths
        BY PumpAssumption DEF LengthOK
    <2> QED BY <1>3, <2>1, BrokerReads DEF IssueRead, Next
  <1>4. CASE IrpManagerSetup
    <2>1. Event \in Events
        BY PumpAssumption
    <2> QED BY <1>4, <2>1 DEF IrpManagerSetup, Next
  <1>5. CASE GiveUp \/ Parse
      BY <1>5 DEF GiveUp, Parse
  <1>6. CASE WakeUp \/ IrpManagerDone \/ Grow \/ Dispatch \/ ConnectorStep \/ Stop
      BY <1>6 DEF WakeUp, IrpManagerDone, Grow, Dispatch, ConnectorStep, SetCallback,
            AddConnectors, Stop
  <1>7. CASE UNCHANGED allVars
      BY <1>7 DEF allVars
  <1> QED BY <1>1, <1>2, <1>3, <1>4, <1>5, <1>6, <1>7 DEF PumpNext, BrokerStep

LEMMA LengthInit == PumpInit => LengthOK
  BY PumpAssumption DEF PumpInit, LengthOK

(* The doubling is done modulo the width of a DWORD, whatever it is.        *)
LEMMA LengthStep == LengthOK /\ [PumpNext]_allVars => LengthOK'
  <1> SUFFICES ASSUME LengthOK, [PumpNext]_allVars PROVE LengthOK'
      OBVIOUS
  <1>1. CASE WakeUp
      BY <1>1, PumpAssumption DEF WakeUp, FirstLength, LengthOK
  <1>2. CASE Grow
    <2>1. dataLength' = (dataLength * 2) % LengthWidth
        BY <1>2 DEF Grow, Doubled
    <2>2. dataLength * 2 \in Nat /\ LengthWidth \in Nat \ {0}
        BY PumpAssumption DEF LengthOK
    <2> QED BY <2>1, <2>2 DEF LengthOK
  <1>3. CASE ~WakeUp /\ ~Grow
    <2>1. dataLength' = dataLength
        BY <1>3 DEF PumpNext, Capture, DriverRead, BrokerStep, IrpManagerSetup, IrpManagerDone,
              IssueRead, GiveUp, Parse, Dispatch, ConnectorStep, SetCallback, AddConnectors,
              Stop, pumpVars, allVars
    <2> QED BY <2>1 DEF LengthOK
  <1> QED BY <1>1, <1>2, <1>3
-----------------------------------------------------------------------------
(* What the queue promises survives the reset of its event.                 *)
QueueInv == Base /\ SignalMeansData /\ Single(Broker)

LEMMA ResetKeepsQueue ==
  ASSUME QueueInv, ResetEvent
  PROVE  QueueInv'
  <1>1. Base'
      BY DEF QueueInv, Base, ResetEvent, readVars, histVars, TypeOK, CountersAgree, LockDiscipline
  <1>2. SignalMeansData'
      BY DEF QueueInv, ResetEvent, SignalMeansData
  <1>3. Single(Broker)'
      BY BrokerReads, SingleQuiet DEF QueueInv, ResetEvent, readVars, histVars
  <1> QED BY <1>1, <1>2, <1>3 DEF QueueInv

LEMMA QueueInit == PumpInit => QueueInv
  BY BaseInit, SingleInit, BrokerReads DEF PumpInit, QueueInv, Init, SignalMeansData

LEMMA QueueStep == LengthOK /\ QueueInv /\ [PumpNext]_allVars => QueueInv'
  <1> SUFFICES ASSUME LengthOK, QueueInv, [PumpNext]_allVars PROVE QueueInv'
      OBVIOUS
  <1>1. CASE [Next]_vars
    <2>1. Base' /\ SignalMeansData'
        BY <1>1, BaseStep, SignalStep DEF QueueInv
    <2>2. Single(Broker)'
        BY <1>1, SingleStep, BrokerReads DEF QueueInv
    <2> QED BY <2>1, <2>2 DEF QueueInv
  <1>2. CASE ResetEvent
      BY <1>2, ResetKeepsQueue
  <1> QED BY <1>1, <1>2, PumpStepIsQueueStep

(* With the broker at its end, which resets the event after each read, the  *)
(* counters still agree, a signalled event still means data, IRPs are       *)
(* still delivered once and in order, and no copy fails.                    *)
THEOREM QueueHoldsInPump ==
  PumpSpec => [](CountersAgree /\ SignalMeansData /\ DeliveryInOrder /\ SnapshotHolds)
  <1>1. QueueInv => CountersAgree /\ SignalMeansData /\ DeliveryInOrder /\ SnapshotHolds
      BY BrokerReads DEF QueueInv, Base, Single, InOrder, Clean, DeliveryInOrder, SnapshotHolds
  <1> QED BY <1>1, LengthInit, LengthStep, QueueInit, QueueStep, PTL DEF PumpSpec

(* ... and it is the channel IrpChannel describes.                          *)
THEOREM PumpIsChannel == PumpSpec => ImplementsChannel
  <1>1. PumpInit => Channel!Init
      BY DEF PumpInit, Init, Channel!Init
  <1>2. LengthOK /\ QueueInv /\ [PumpNext]_allVars => [Channel!Next]_<<pushed, delivered>>
    <2> SUFFICES ASSUME LengthOK, QueueInv, [PumpNext]_allVars
                 PROVE  [Channel!Next]_<<pushed, delivered>>
        OBVIOUS
    <2>1. CASE [Next]_vars
        BY <2>1, ChannelStep, BrokerReads DEF QueueInv
    <2>2. CASE ResetEvent
        BY <2>2 DEF ResetEvent, histVars
    <2> QED BY <2>1, <2>2, PumpStepIsQueueStep
  <1> QED BY <1>1, <1>2, LengthInit, LengthStep, QueueInit, QueueStep, PTL
         DEF PumpSpec, ImplementsChannel, Channel!Spec
-----------------------------------------------------------------------------
(* The types of the broker's threads.                                       *)
BrokerTypes ==
    /\ bpc \in {"setup", "wait", "read", "reading", "dispatch", "done"}
    /\ batch \in Seq(Irps)
    /\ cpc \in {"waiting", "registered", "ready"}
    /\ callback \in BOOLEAN /\ connected \in BOOLEAN
    /\ terminating \in BOOLEAN /\ refused \in BOOLEAN
    /\ stored \in Seq(Irps)
    /\ dropped \subseteq Irps

(* The driver works on a read only while the thread waits for it; a batch   *)
(* lives while it is dispatched; nothing is stored before the connector is  *)
(* there, and the connector is there only after the callback is.            *)
Hands ==
    /\ pc[Broker] # "idle" => bpc = "reading"
    /\ bpc # "dispatch" => batch = <<>>
    /\ cpc # "waiting" => callback
    /\ connected => cpc = "ready"
    /\ stored # <<>> => connected

(* What was delivered is what is gone, then what the JsonQueue has, then    *)
(* what the thread holds.                                                   *)
Split(gone) == delivered = gone \o (stored \o InHand) /\ dropped = Range(gone)

StoreInv == BrokerTypes /\ Hands /\ \E gone \in Seq(Irps) : Split(gone)

LEMMA Regroup ==
  ASSUME NEW s \in Seq(Irps), NEW t \in Seq(Irps), NEW u \in Seq(Irps)
  PROVE  (s \o t) \o u = s \o (t \o u)
  BY ConcatAssociative

LEMMA PutBehind ==
  ASSUME NEW s \in Seq(Irps), NEW i \in Irps, NEW t \in Seq(Irps)
  PROVE  Append(s, i) \o t = s \o (<<i>> \o t)
  <1>1. <<i>> \in Seq(Irps)
      OBVIOUS
  <1> PICK e \in Seq(Irps) : e = <<i>>
      BY <1>1, Zenon
  <1>2. Append(s, i) = s \o e
      BY AppendIsConcat
  <1>3. (s \o e) \o t = s \o (e \o t)
      BY Regroup
  <1> QED BY <1>2, <1>3, Zenon

LEMMA NextInBatch ==
  ASSUME batch \in Seq(Irps), batch # <<>>
  PROVE  NextOfBatch \in Irps /\ Tail(batch) \in Seq(Irps)
  BY HeadTailProperties DEF NextOfBatch

LEMMA HandsTypes ==
  ASSUME Base, BrokerTypes
  PROVE  /\ reply[Broker].irps \in Seq(Irps)
         /\ InHand \in Seq(Irps) /\ stored \in Seq(Irps) /\ stored \o InHand \in Seq(Irps)
  <1>1. reply[Broker].irps \in Seq(Irps) /\ batch \in Seq(Irps)
      BY BrokerReads DEF Base, TypeOK, BrokerTypes
  <1>2. InHand \in Seq(Irps)
      BY <1>1 DEF InHand
  <1> QED BY <1>1, <1>2, ConcatProperties DEF BrokerTypes

LEMMA StoreInit == PumpInit => StoreInv
  <1> SUFFICES ASSUME PumpInit PROVE StoreInv
      OBVIOUS
  <1>1. BrokerTypes /\ Hands
    <2>1. pc[Broker] = "idle"
        BY BrokerReads DEF PumpInit, Init
    <2>2. <<>> \in Seq(Irps)
        BY EmptySeq
    <2> QED BY <2>1, <2>2, Zenon DEF PumpInit, BrokerTypes, Hands
  <1>2. InHand = <<>> /\ stored = <<>> /\ delivered = <<>> /\ dropped = {}
      BY DEF PumpInit, Init, InHand, ReadReturns
  <1>3. <<>> \in Seq(Irps) /\ <<>> \o (<<>> \o <<>>) = <<>>
      BY EmptySeq, ConcatEmptySeq
  <1>4. Split(<<>>)
      BY <1>2, <1>3, RangeEmpty DEF Split
  <1> QED BY <1>1, <1>3, <1>4 DEF StoreInv

(* A step that changes neither what was delivered nor what the broker has.  *)
LEMMA StoreKept ==
  ASSUME StoreInv, BrokerTypes', Hands', UNCHANGED <<delivered, stored, dropped>>,
         InHand' = InHand
  PROVE  StoreInv'
  BY DEF StoreInv, Split

(* The driver's half of a read: until it succeeds the thread has nothing,   *)
(* then it has what the read returned.                                      *)
LEMMA StoreRead ==
  ASSUME Base, StoreInv, DriverRead
  PROVE  StoreInv'
  <1> USE BrokerReads DEF StoreInv, Base, TypeOK
  <1>1. /\ pc[Broker] # "idle" /\ bpc = "reading" /\ batch = <<>> /\ InHand = <<>>
      BY DEF DriverRead, ReadStep, MeasureEntry, MeasureDone, PopFront, PopCount, ReadDone,
             Hands, InHand, ReadReturns
  <1>2. UNCHANGED pumpVars
      BY DEF DriverRead
  <1>3. BrokerTypes' /\ Hands'
      BY <1>1, <1>2 DEF pumpVars, BrokerTypes, Hands
  <1>4. CASE ReadDone(Broker)
    <2>1. /\ delivered' = delivered \o taken[Broker]
          /\ pc'[Broker] = "idle"
          /\ reply'[Broker] = [status |-> "success", irps |-> taken[Broker]]
        BY <1>4 DEF ReadDone, Complete
    <2>2. InHand' = taken[Broker]
        BY <1>1, <1>2, <2>1 DEF InHand, ReadReturns, pumpVars
    <2>3. PICK gone \in Seq(Irps) : Split(gone)
        OBVIOUS
    <2>4. stored \in Seq(Irps) /\ taken[Broker] \in Seq(Irps)
        BY DEF BrokerTypes
    <2>5. delivered = gone \o stored
      <3>1. stored \o <<>> = stored
          BY <2>4, ConcatEmptySeq
      <3>2. delivered = gone \o (stored \o InHand)
          BY <2>3 DEF Split
      <3>3. InHand = <<>>
          BY <1>1
      <3> QED BY <3>1, <3>2, <3>3, Zenon
    <2>6. (gone \o stored) \o taken[Broker] = gone \o (stored \o taken[Broker])
      <3>1. \A t \in Seq(Irps) : (gone \o stored) \o t = gone \o (stored \o t)
          BY <2>4, Regroup, Zenon
      <3> QED BY <2>4, <3>1, Zenon
    <2>7. Split(gone)'
        BY <1>2, <2>1, <2>2, <2>3, <2>5, <2>6 DEF Split, pumpVars
    <2> QED BY <1>3, <2>7
  <1>5. CASE ~ReadDone(Broker)
    <2>1. MeasureEntry(Broker) \/ MeasureDone(Broker) \/ PopFront(Broker) \/ PopCount(Broker)
        BY <1>5 DEF DriverRead, ReadStep
    <2>2. delivered' = delivered
        BY <2>1 DEF MeasureEntry, MeasureDone, PopFront, PopCount, histVars
    <2>3. pc'[Broker] # "idle" \/ reply'[Broker].status # "success"
      <3>1. CASE MeasureEntry(Broker)
          BY <1>1, <3>1 DEF MeasureEntry
      <3>2. CASE MeasureDone(Broker)
          BY <3>2 DEF MeasureDone, Complete
      <3>3. CASE PopFront(Broker)
          BY <3>3 DEF PopFront, Complete
      <3>4. CASE PopCount(Broker)
          BY <3>4 DEF PopCount, Complete
      <3> QED BY <2>1, <3>1, <3>2, <3>3, <3>4
    <2>4. InHand' = <<>>
        BY <1>1, <1>2, <2>3 DEF InHand, ReadReturns, pumpVars
    <2> QED BY <1>1, <1>2, <1>3, <2>2, <2>4, StoreKept DEF pumpVars
  <1> QED BY <1>4, <1>5

(* The loop over the parsed IRPs.                                           *)
LEMMA StoreDispatch ==
  ASSUME Base, StoreInv, Dispatch
  PROVE  StoreInv'
  <1> USE DEF StoreInv
  <1>1. /\ bpc = "dispatch" /\ InHand = batch /\ batch \in Seq(Irps) /\ stored \in Seq(Irps)
        /\ UNCHANGED <<delivered, pc, reply, cpc, callback, connected, terminating, refused>>
      BY DEF Dispatch, InHand, ReadReturns, BrokerTypes, vars, readVars, histVars
  <1>2. PICK gone \in Seq(Irps) : Split(gone)
      OBVIOUS
  <1>3. CASE batch = <<>> /\ bpc' = "wait" /\ UNCHANGED <<batch, stored, dropped>>
    <2>1. BrokerTypes' /\ Hands'
        BY <1>1, <1>3 DEF BrokerTypes, Hands
    <2>2. InHand' = InHand
        BY <1>1, <1>3 DEF InHand, ReadReturns
    <2> QED BY <1>1, <1>3, <2>1, <2>2, StoreKept
  <1>4. CASE /\ batch # <<>> /\ ~callback /\ bpc' = "wait" /\ batch' = <<>>
             /\ dropped' = dropped \cup Range(batch) /\ UNCHANGED stored
    <2>1. stored = <<>>
        BY <1>4 DEF Hands
    <2>2. InHand' = <<>>
        BY <1>4 DEF InHand, ReadReturns
    <2>3. /\ stored \o batch = batch /\ <<>> \o <<>> = <<>>
          /\ gone \o batch \in Seq(Irps) /\ (gone \o batch) \o <<>> = gone \o batch
      <3>1. gone \o batch \in Seq(Irps) /\ <<>> \in Seq(Irps)
          BY <1>1, ConcatProperties
      <3> QED BY <1>1, <2>1, <3>1, ConcatEmptySeq
    <2>4. Range(gone \o batch) = Range(gone) \cup Range(batch)
        BY <1>1, RangeConcat
    <2>5. PICK all \in Seq(Irps) : all = gone \o batch
        BY <2>3
    <2>7. Split(all)'
      <3>1. delivered = all /\ dropped' = Range(all)
          BY <1>1, <1>2, <1>4, <2>1, <2>3, <2>4, <2>5 DEF Split
      <3>2. all \o (<<>> \o <<>>) = all
          BY <2>3, <2>5
      <3> QED BY <1>1, <1>4, <2>1, <2>2, <3>1, <3>2, Zenon DEF Split
    <2>6. BrokerTypes' /\ Hands'
      <3>1. Range(batch) \subseteq Irps /\ <<>> \in Seq(Irps)
          BY <1>1, RangeOfSeq, EmptySeq
      <3>2. BrokerTypes'
          BY <1>1, <1>4, <3>1 DEF BrokerTypes
      <3> QED BY <1>1, <1>4, <3>2 DEF Hands
    <2> QED BY <2>6, <2>7
  <1>5. CASE /\ batch # <<>> /\ connected /\ batch' = Tail(batch) /\ UNCHANGED <<bpc, dropped>>
             /\ stored' = Append(stored, NextOfBatch)
    <2>1. InHand' = Tail(batch)
        BY <1>1, <1>5 DEF InHand, ReadReturns
    <2>2. Append(stored, Head(batch)) \o Tail(batch) = stored \o batch
      <3>1. Head(batch) \in Irps /\ Tail(batch) \in Seq(Irps)
          BY <1>1, <1>5, HeadTailProperties
      <3>2. <<Head(batch)>> \in Seq(Irps) /\ batch = <<Head(batch)>> \o Tail(batch)
          BY <1>1, <1>5, <3>1, HeadTail
      <3>3. Append(stored, Head(batch)) \o Tail(batch) = stored \o (<<Head(batch)>> \o Tail(batch))
          BY <1>1, <3>1, PutBehind, Zenon
      <3> QED BY <3>2, <3>3, Zenon
    <2>3. Split(gone)'
        BY <1>1, <1>2, <1>5, <2>1, <2>2 DEF Split, NextOfBatch
    <2>4. BrokerTypes'
        BY <1>1, <1>5, NextInBatch, AppendProperties DEF BrokerTypes
    <2>5. Hands'
        BY <1>1, <1>5 DEF Hands
    <2> QED BY <2>3, <2>4, <2>5
  <1>6. CASE /\ batch # <<>> /\ ~connected /\ batch' = Tail(batch) /\ UNCHANGED <<bpc, stored>>
             /\ dropped' = dropped \cup {NextOfBatch}
    <2>1. stored = <<>>
        BY <1>6 DEF Hands
    <2>2. InHand' = Tail(batch)
        BY <1>1, <1>6 DEF InHand, ReadReturns
    <2>3. Head(batch) \in Irps /\ Tail(batch) \in Seq(Irps)
        BY <1>1, <1>6, HeadTailProperties
    <2>4. /\ stored \o batch = batch /\ stored \o Tail(batch) = Tail(batch)
        BY <1>1, <2>1, <2>3, ConcatEmptySeq
    <2>5. Append(gone, Head(batch)) \in Seq(Irps) /\ Append(gone, Head(batch)) \o Tail(batch) = gone \o batch
      <3>1. <<Head(batch)>> \in Seq(Irps) /\ batch = <<Head(batch)>> \o Tail(batch)
          BY <1>1, <1>6, <2>3, HeadTail
      <3>2. Append(gone, Head(batch)) \o Tail(batch) = gone \o (<<Head(batch)>> \o Tail(batch))
          BY <2>3, PutBehind, Zenon
      <3>3. Append(gone, Head(batch)) \in Seq(Irps)
          BY <2>3, AppendProperties
      <3> QED BY <3>1, <3>2, <3>3, Zenon
    <2>6. Range(Append(gone, Head(batch))) = Range(gone) \cup {Head(batch)}
        BY <2>3, RangeAppend
    <2>7. PICK more \in Seq(Irps) : more = Append(gone, Head(batch))
        BY <2>5
    <2>8. Split(more)'
      <3>1. delivered = gone \o batch
          BY <1>1, <1>2, <2>4, Zenon DEF Split
      <3>2. delivered = more \o (stored \o Tail(batch))
          BY <2>4, <2>5, <2>7, <3>1, Zenon
      <3>3. dropped' = Range(more)
          BY <1>2, <1>6, <2>6, <2>7 DEF Split, NextOfBatch
      <3> QED BY <1>1, <1>6, <2>2, <3>2, <3>3, Zenon DEF Split
    <2>9. BrokerTypes'
        BY <1>1, <1>6, <2>3 DEF BrokerTypes, NextOfBatch
    <2>10. Hands'
        BY <1>1, <1>6, <2>1 DEF Hands
    <2> QED BY <2>8, <2>9, <2>10
  <1> QED BY <1>3, <1>4, <1>5, <1>6 DEF Dispatch

LEMMA StoreStep == LengthOK /\ Base /\ StoreInv /\ [PumpNext]_allVars => StoreInv'
  <1> SUFFICES ASSUME LengthOK, Base, StoreInv, [PumpNext]_allVars PROVE StoreInv'
      OBVIOUS
  <1> USE BrokerReads DEF StoreInv
  <1>1. ASSUME NEW p \in Producers, Capture(p) PROVE StoreInv'
    <2>1. UNCHANGED <<pumpVars, readVars, delivered>>
        BY <1>1 DEF Capture, Produce, PushBack, PushNotify, histVars
    <2>2. BrokerTypes' /\ Hands' /\ InHand' = InHand
        BY <2>1 DEF BrokerTypes, Hands, InHand, ReadReturns, pumpVars, readVars
    <2> QED BY <2>1, <2>2, StoreKept DEF pumpVars
  <1>2. CASE DriverRead
      BY <1>2, StoreRead
  <1>3. CASE Dispatch
      BY <1>3, StoreDispatch
  <1>4. CASE IssueRead
    <2>1. /\ bpc = "read" /\ bpc' = "reading" /\ pc'[Broker] = "measure"
          /\ UNCHANGED <<batch, cpc, callback, connected, terminating, stored, dropped,
                         refused, delivered>>
        BY <1>4 DEF IssueRead, ReadRequest, histVars, Base, TypeOK
    <2>2. BrokerTypes' /\ Hands' /\ InHand' = InHand
        BY <2>1 DEF BrokerTypes, Hands, InHand, ReadReturns
    <2> QED BY <2>1, <2>2, StoreKept
  <1>5. CASE Parse
    <2>1. /\ bpc = "reading" /\ pc[Broker] = "idle" /\ bpc' = "dispatch"
          /\ reply[Broker].status = "success" /\ batch' = reply[Broker].irps
          /\ UNCHANGED <<readVars, cpc, callback, connected, terminating, stored, dropped,
                         refused, delivered>>
        BY <1>5 DEF Parse, ReadReturns, ResetEvent, histVars
    <2>2. BrokerTypes'
        BY <2>1, HandsTypes DEF BrokerTypes
    <2>3. Hands' /\ InHand' = InHand
        BY <2>1 DEF Hands, InHand, ReadReturns, readVars
    <2> QED BY <2>1, <2>2, <2>3, StoreKept
  <1>6. CASE Grow \/ GiveUp
    <2>1. /\ bpc = "reading" /\ pc[Broker] = "idle" /\ bpc' \in {"read", "wait"}
          /\ reply[Broker].status # "success" /\ refused' \in {refused, TRUE}
          /\ UNCHANGED <<readVars, batch, cpc, callback, connected, terminating, stored,
                         dropped, delivered>>
        BY <1>6 DEF Grow, GiveUp, ReadReturns, ResetEvent, Refusals, vars, histVars
    <2>2. BrokerTypes' /\ Hands' /\ InHand' = InHand
        BY <2>1 DEF BrokerTypes, Hands, InHand, ReadReturns, readVars
    <2> QED BY <2>1, <2>2, StoreKept
  <1>7. CASE IrpManagerSetup \/ WakeUp \/ IrpManagerDone
    <2>1. /\ bpc \in {"setup", "wait"} /\ bpc' \in {"wait", "read", "done"}
          /\ UNCHANGED <<readVars, batch, cpc, callback, connected, terminating, stored,
                         dropped, refused, delivered>>
        BY <1>7 DEF IrpManagerSetup, SetEvent, WakeUp, IrpManagerDone, vars, histVars
    <2>2. BrokerTypes' /\ Hands' /\ InHand' = InHand
        BY <2>1 DEF BrokerTypes, Hands, InHand, ReadReturns, readVars
    <2> QED BY <2>1, <2>2, StoreKept
  <1>8. CASE ConnectorStep \/ Stop
    <2>1. /\ UNCHANGED <<readVars, bpc, batch, stored, dropped, refused, delivered>>
          /\ \/ UNCHANGED <<cpc, callback, connected>> /\ terminating' = TRUE
             \/ /\ callback' = TRUE /\ cpc' = "registered" /\ cpc = "waiting"
                /\ UNCHANGED <<connected, terminating>>
             \/ /\ connected' = TRUE /\ cpc' = "ready" /\ cpc = "registered"
                /\ UNCHANGED <<callback, terminating>>
        BY <1>8 DEF ConnectorStep, SetCallback, AddConnectors, Stop, vars, histVars
    <2>2. InHand' = InHand
        BY <2>1 DEF InHand, ReadReturns, readVars
    <2>3. BrokerTypes'
        BY <2>1 DEF BrokerTypes
    <2>4. cpc' # "waiting" => callback'
        BY <2>1, Zenon DEF Hands
    <2>5. connected' => cpc' = "ready"
        BY <2>1 DEF Hands
    <2>6. stored' # <<>> => connected'
        BY <2>1, Zenon DEF Hands
    <2>7. Hands'
        BY <2>1, <2>4, <2>5, <2>6 DEF Hands, readVars
    <2> QED BY <2>1, <2>2, <2>3, <2>7, StoreKept
  <1>9. CASE UNCHANGED allVars
    <2>1. UNCHANGED <<pumpVars, readVars, delivered>>
        BY <1>9 DEF allVars, vars, histVars
    <2>2. BrokerTypes' /\ Hands' /\ InHand' = InHand
        BY <2>1 DEF BrokerTypes, Hands, InHand, ReadReturns, pumpVars, readVars
    <2> QED BY <2>1, <2>2, StoreKept DEF pumpVars
  <1> QED BY <1>1, <1>2, <1>3, <1>4, <1>5, <1>6, <1>7, <1>8, <1>9 DEF PumpNext, BrokerStep

(* Every variable of the pump keeps its type, the DWORD its width.          *)
THEOREM PumpTypes == PumpSpec => []PumpTypeOK
  <1>1. LengthOK /\ QueueInv /\ StoreInv => PumpTypeOK
      BY DEF LengthOK, QueueInv, Base, StoreInv, BrokerTypes, PumpTypeOK
  <1>2. QueueInv => Base
      BY DEF QueueInv
  <1> QED BY <1>1, <1>2, LengthInit, LengthStep, QueueInit, QueueStep, StoreInit, StoreStep, PTL
         DEF PumpSpec

(* A sequence in two parts, seen from its end.                              *)
LEMMA BackOfHistory ==
  ASSUME NEW g \in Seq(Irps), NEW w \in Seq(Irps)
  PROVE  LET d == g \o w
             n == Len(d) - Len(w)
         IN n >= 0 /\ w = SubSeq(d, n + 1, Len(d)) /\ g = SubSeq(d, 1, n)
  <1> DEFINE d == g \o w
  <1>1. Len(g) \in Nat /\ Len(w) \in Nat /\ d \in Seq(Irps) /\ Len(d) = Len(g) + Len(w)
      BY TwoParts, LenProperties
  <1>2. w = SubSeq(d, Len(g) + 1, Len(d))
    <2>1. CASE w = <<>>
      <3>1. Len(w) = 0
          BY <2>1
      <3>2. Len(d) < Len(g) + 1 /\ Len(g) + 1 \in Int /\ Len(d) \in Int
        <4> HIDE DEF d
        <4> QED BY <1>1, <3>1
      <3>3. SubSeq(d, Len(g) + 1, Len(d)) = <<>>
          BY <3>2, SubSeqEmpty
      <3> QED BY <2>1, <3>3
    <2>2. CASE w # <<>>
      <3>1. Len(w) > 0
          BY <2>2, EmptySeq
      <3>2. Len(g) + 1 \in Len(g) + 1 .. Len(g) + Len(w) /\ Len(d) \in Len(g) + 1 .. Len(g) + Len(w)
        <4> HIDE DEF d
        <4> QED BY <1>1, <3>1
      <3>3. SubSeq(d, Len(g) + 1, Len(d)) = SubSeq(w, (Len(g) + 1) - Len(g), Len(d) - Len(g))
          BY <3>2, SubSeqOfConcat2
      <3>4. (Len(g) + 1) - Len(g) = 1 /\ Len(d) - Len(g) = Len(w)
        <4> HIDE DEF d
        <4> QED BY <1>1
      <3> QED BY <3>3, <3>4, SubSeqFull
    <2> QED BY <2>1, <2>2
  <1>3. g = SubSeq(d, 1, Len(g))
    <2>1. CASE g = <<>>
      <3>1. Len(g) = 0
          BY <2>1
      <3> QED BY <2>1, <3>1, SubSeqEmpty
    <2>2. CASE g # <<>>
        BY <2>2, FrontOfHistory
    <2> QED BY <2>1, <2>2
  <1>4. Len(d) - Len(w) = Len(g)
    <2> HIDE DEF d
    <2> QED BY <1>1
  <1> QED BY <1>1, <1>2, <1>3, <1>4

(* StoredInOrder: whatever is captured and read before the connectors are   *)
(* up, the JsonQueue is given the end of what the driver delivered, each    *)
(* IRP once and in order.                                                   *)
THEOREM StoresInOrder == PumpSpec => []StoredInOrder
  <1>1. ASSUME QueueInv, StoreInv PROVE StoredInOrder
    <2>1. PICK gone \in Seq(Irps) : Split(gone)
        BY <1>1 DEF StoreInv
    <2> DEFINE way == stored \o InHand
    <2>2. way \in Seq(Irps)
        BY <1>1, HandsTypes DEF StoreInv, QueueInv
    <2>3. delivered = gone \o way /\ dropped = Range(gone)
        BY <2>1 DEF Split
    <2>4. /\ Len(delivered) - Len(way) >= 0
          /\ way = SubSeq(delivered, (Len(delivered) - Len(way)) + 1, Len(delivered))
          /\ gone = SubSeq(delivered, 1, Len(delivered) - Len(way))
      <3> HIDE DEF way
      <3> QED BY <2>2, <2>3, BackOfHistory
    <2> QED BY <2>3, <2>4 DEF StoredInOrder
  <1>2. QueueInv => Base
      BY DEF QueueInv
  <1> QED BY <1>1, <1>2, LengthInit, LengthStep, QueueInit, QueueStep, StoreInit, StoreStep, PTL
         DEF PumpSpec
=============================================================================
