--------------------------- MODULE IrpQueueProofs ---------------------------
(***************************************************************************)
(* Proofs about the driver's queue, for any producers, readers, IRPs and   *)
(* events: types, the two counters, the meaning of the event, conservation;*)
(* then, for one reader, delivery in order and the channel it implements.  *)
(***************************************************************************)
EXTENDS IrpQueue, SequenceTheorems, TLAPS

(* Who is inside which lock, and what that says of his locals.              *)
LockDiscipline ==
    /\ \A r \in Readers : mutex = r <=> pc[r] = "popped"
    /\ \A r \in Readers : listMutex = r <=> pc[r] = "measure"
    /\ \A r \in Readers : pc[r] = "popped" => Len(taken[r]) > 0
    /\ Len(offset) = Len(pushed) + 1

Base == TypeOK /\ CountersAgree /\ LockDiscipline

(* The size of a captured IRP, and a sum it enters, are numbers.            *)
LEMMA SizeNat == \A i \in Irps, n \in Nat : Size[i] \in Nat /\ n + Size[i] \in Nat
  BY QueueAssumption

LEMMA BaseInit == Init => Base
  BY QueueAssumption DEF Init, Base, TypeOK, CountersAgree, LockDiscipline,
     ReaderStates, Statuses, NoReply

(* Completing a read keeps the types of the four variables it sets.         *)
LEMMA CompleteType ==
  ASSUME TypeOK, NEW r \in Readers, NEW status \in Statuses,
         NEW irps \in Seq(Irps), Complete(r, status, irps)
  PROVE  /\ pc' \in [Readers -> ReaderStates]
         /\ reply' \in [Readers -> [status : Statuses, irps : Seq(Irps)]]
         /\ taken' \in [Readers -> Seq(Irps)]
         /\ copied' \in [Readers -> Nat]
  <1> DEFINE completion == [status |-> status, irps |-> irps]
  <1>1. completion \in [status : Statuses, irps : Seq(Irps)]
      OBVIOUS
  <1>2. reply' = [reply EXCEPT ![r] = completion]
      BY DEF Complete
  <1>3. reply' \in [Readers -> [status : Statuses, irps : Seq(Irps)]]
    <2> HIDE DEF completion
    <2> QED BY <1>1, <1>2 DEF TypeOK
  <1>4. "idle" \in ReaderStates /\ <<>> \in Seq(Irps) /\ 0 \in Nat
      BY DEF ReaderStates
  <1> QED BY <1>3, <1>4 DEF Complete, TypeOK

LEMMA BaseStep == Base /\ [Next]_vars => Base'
  <1> SUFFICES ASSUME Base, [Next]_vars PROVE Base'
      OBVIOUS
  <1> USE QueueAssumption DEF Base
  <1>1. ASSUME NEW e \in Events, SetEvent(e) PROVE Base'
      BY <1>1 DEF SetEvent, readVars, histVars, TypeOK, CountersAgree, LockDiscipline
  <1>2. ASSUME NEW p \in Producers, NEW irp \in Irps, PushBack(p, irp) PROVE Base'
    <2>1. TypeOK'
      <3>1. offset[Len(pushed) + 1] + Size[irp] \in Nat
        <4>1. offset[Len(pushed) + 1] \in Nat
            BY DEF TypeOK, LockDiscipline
        <4> QED BY <4>1, SizeNat
      <3>2. offset' \in Seq(Nat)
        <4>1. offset' = Append(offset, offset[Len(pushed) + 1] + Size[irp])
            BY <1>2 DEF PushBack, Linked
        <4> QED BY <3>1, <4>1 DEF TypeOK
      <3>3. entries' \in Seq(Irps) /\ pushed' \in Seq(Irps) /\ total' \in Nat
          BY <1>2 DEF PushBack, Linked, TypeOK
      <3>4. /\ mutex' = p
            /\ UNCHANGED <<count, listMutex, event, signalled, readVars, delivered, lost>>
          BY <1>2 DEF PushBack, Linked
      <3> QED BY <3>2, <3>3, <3>4 DEF readVars, TypeOK
    <2>2. CountersAgree'
        BY <1>2 DEF PushBack, Linked, CountersAgree, TypeOK
    <2>3. LockDiscipline'
        BY <1>2, SMTT(30) DEF PushBack, Linked, readVars, LockDiscipline, TypeOK
    <2> QED BY <2>1, <2>2, <2>3
  <1>3. ASSUME NEW p \in Producers, PushNotify(p) PROVE Base'
      BY <1>3 DEF PushNotify, readVars, histVars, TypeOK, CountersAgree, LockDiscipline
  <1>4. ASSUME NEW r \in Readers, NEW len \in Lengths, ReadRequest(r, len) PROVE Base'
    <2>1. TypeOK'
        BY <1>4, SMTT(30) DEF ReadRequest, histVars, TypeOK, ReaderStates, Statuses, NoReply
    <2>2. CountersAgree'
        BY <1>4 DEF ReadRequest, CountersAgree
    <2>3. LockDiscipline'
        BY <1>4 DEF ReadRequest, histVars, LockDiscipline, TypeOK
    <2> QED BY <2>1, <2>2, <2>3
  <1>5. ASSUME NEW r \in Readers, MeasureEntry(r) PROVE Base'
    <2>1. entries[number[r] + 1] \in Irps
        BY <1>5 DEF MeasureEntry, TypeOK
    <2>2. expected[r] + Size[entries[number[r] + 1]] \in Nat
      <3>1. expected[r] \in Nat
          BY DEF TypeOK
      <3> QED BY <2>1, <3>1, SizeNat
    <2>3. TypeOK'
      <3>1. expected' \in [Readers -> Nat]
        <4>1. expected' = [expected EXCEPT ![r] = @ + Size[entries[number[r] + 1]]]
            BY <1>5 DEF MeasureEntry
        <4> QED BY <2>2, <4>1 DEF TypeOK
      <3>2. number' \in [Readers -> Nat]
        <4>1. number' = [number EXCEPT ![r] = @ + 1]
            BY <1>5 DEF MeasureEntry
        <4>2. number \in [Readers -> Nat]
            BY DEF TypeOK
        <4>3. number[r] + 1 \in Nat
            BY <4>2
        <4> HIDE DEF Base
        <4> QED BY <4>1, <4>2, <4>3
      <3>3. UNCHANGED <<queueVars, pc, requested, copied, taken, reply, histVars>>
          BY <1>5 DEF MeasureEntry
      <3> QED BY <3>1, <3>2, <3>3 DEF queueVars, histVars, TypeOK
    <2>4. CountersAgree' /\ LockDiscipline'
        BY <1>5 DEF MeasureEntry, queueVars, histVars, CountersAgree, LockDiscipline
    <2> QED BY <2>3, <2>4
  <1>6. ASSUME NEW r \in Readers, MeasureDone(r) PROVE Base'
    <2>1. TypeOK'
      <3>1. {"buffer_too_small", "insufficient_resources"} \subseteq Statuses
          BY DEF Statuses
      <3>2. <<>> \in Seq(Irps) /\ "copy" \in ReaderStates
          BY DEF ReaderStates
      <3>3. CASE Complete(r, "buffer_too_small", <<>>)
          BY <1>6, <3>1, <3>2, <3>3, CompleteType DEF MeasureDone, histVars, TypeOK
      <3>4. CASE Complete(r, "insufficient_resources", <<>>)
          BY <1>6, <3>1, <3>2, <3>4, CompleteType DEF MeasureDone, histVars, TypeOK
      <3>5. CASE pc' = [pc EXCEPT ![r] = "copy"] /\ UNCHANGED <<copied, taken, reply>>
          BY <1>6, <3>2, <3>5 DEF MeasureDone, histVars, TypeOK
      <3> QED BY <1>6, <3>3, <3>4, <3>5 DEF MeasureDone
    <2>2. CountersAgree'
        BY <1>6 DEF MeasureDone, CountersAgree
    <2>3. LockDiscipline'
        BY <1>6, ZenonT(30) DEF MeasureDone, Complete, histVars, LockDiscipline, TypeOK
    <2> QED BY <2>1, <2>2, <2>3
  <1>7. ASSUME NEW r \in Readers, PopFront(r) PROVE Base'
    <2>1. CASE total = 0
      <3>1. Range(taken[r]) \subseteq Irps
          BY DEF Range, TypeOK
      <3>2. TypeOK'
        <4>1. "bad_data" \in Statuses /\ <<>> \in Seq(Irps)
            BY DEF Statuses
        <4> QED BY <1>7, <2>1, <3>1, <4>1, CompleteType DEF PopFront, Unlinked, TypeOK
      <3> QED
          BY <1>7, <2>1, <3>2, ZenonT(30) DEF PopFront, Unlinked, Complete, CountersAgree, LockDiscipline, TypeOK
    <2>2. CASE total # 0
      <3>1. /\ Head(entries) \in Irps
            /\ Tail(entries) \in Seq(Irps)
            /\ Len(Tail(entries)) = Len(entries) - 1
          BY <1>7, <2>2 DEF PopFront, Unlinked, TypeOK
      <3>2. TypeOK'
        <4>1. taken' \in [Readers -> Seq(Irps)]
          <5>1. taken' = [taken EXCEPT ![r] = Append(@, Head(entries))]
              BY <1>7, <2>2 DEF PopFront, Unlinked
          <5>2. Append(taken[r], Head(entries)) \in Seq(Irps)
              BY <3>1 DEF TypeOK
          <5> QED BY <5>1, <5>2 DEF TypeOK
        <4>2. pc' \in [Readers -> ReaderStates]
          <5>1. pc' = [pc EXCEPT ![r] = "popped"]
              BY <1>7, <2>2 DEF PopFront
          <5>2. pc \in [Readers -> ReaderStates] /\ "popped" \in ReaderStates
              BY DEF TypeOK, ReaderStates
          <5> HIDE DEF Base
          <5> QED BY <5>1, <5>2
        <4>3. total' \in Nat
          <5>1. total' = total - 1
              BY <1>7, <2>2 DEF PopFront
          <5>2. total \in Nat
              BY DEF TypeOK
          <5> HIDE DEF Base
          <5> QED BY <2>2, <5>1, <5>2
        <4>4. /\ entries' = Tail(entries) /\ mutex' = r
              /\ UNCHANGED <<count, listMutex, event, signalled, requested, expected,
                             number, copied, reply, pushed, offset, delivered, lost>>
            BY <1>7, <2>2 DEF PopFront, Unlinked
        <4> QED BY <3>1, <4>1, <4>2, <4>3, <4>4 DEF TypeOK
      <3>3. CountersAgree'
          BY <1>7, <2>2, <3>1, SMTT(30) DEF PopFront, Unlinked, CountersAgree, TypeOK
      <3>4. LockDiscipline'
        <4>1. Len(Append(taken[r], Head(entries))) > 0
          <5>1. taken[r] \in Seq(Irps)
              BY DEF TypeOK
          <5> QED BY <3>1, <5>1
        <4>2. pc' = [pc EXCEPT ![r] = "popped"]
              /\ taken' = [taken EXCEPT ![r] = Append(@, Head(entries))]
              /\ mutex = None /\ mutex' = r /\ UNCHANGED <<listMutex, offset, pushed>>
              /\ pc[r] = "copy"
            BY <1>7, <2>2 DEF PopFront, Unlinked
        <4> QED BY <4>1, <4>2 DEF LockDiscipline, TypeOK
      <3> QED BY <3>2, <3>3, <3>4
    <2> QED BY <2>1, <2>2
  <1>8. ASSUME NEW r \in Readers, PopCount(r) PROVE Base'
    <2>1. taken[r][Len(taken[r])] \in Irps
        BY <1>8 DEF PopCount, SignalledAfterPop, Fits, LockDiscipline, TypeOK
    <2>2. Range(taken[r]) \subseteq Irps
        BY DEF Range, TypeOK
    <2>3. count' \in Nat /\ CountersAgree'
        BY <1>8 DEF PopCount, SignalledAfterPop, Fits, CountersAgree, TypeOK
    <2>4. TypeOK'
      <3>1. "buffer_overflow" \in Statuses /\ <<>> \in Seq(Irps) /\ "copy" \in ReaderStates
          BY DEF Statuses, ReaderStates
      <3>2. CASE Complete(r, "buffer_overflow", <<>>) /\ lost' = lost \cup Range(taken[r])
          BY <1>8, <2>2, <2>3, <3>1, <3>2, CompleteType DEF PopCount, SignalledAfterPop, Fits, TypeOK
      <3>3. CASE /\ copied' = [copied EXCEPT ![r] = @ + Size[taken[r][Len(taken[r])]]]
                 /\ pc' = [pc EXCEPT ![r] = "copy"]
                 /\ UNCHANGED <<taken, reply, lost>>
        <4>1. copied' \in [Readers -> Nat]
          <5>1. copied[r] + Size[taken[r][Len(taken[r])]] \in Nat
            <6>1. copied[r] \in Nat
                BY DEF TypeOK
            <6> QED BY <2>1, <6>1, SizeNat
          <5> QED BY <3>3, <5>1 DEF TypeOK
        <4>2. pc' \in [Readers -> ReaderStates]
            BY <3>1, <3>3 DEF TypeOK
        <4>3. /\ mutex' = None
              /\ signalled' \subseteq signalled
              /\ UNCHANGED <<entries, total, listMutex, event, requested, expected,
                             number, pushed, offset, delivered>>
            BY <1>8 DEF PopCount, SignalledAfterPop, Fits
        <4> QED BY <2>3, <3>3, <4>1, <4>2, <4>3 DEF TypeOK
      <3> QED BY <1>8, <3>2, <3>3 DEF PopCount, SignalledAfterPop, Fits
    <2>5. LockDiscipline'
        BY <1>8, ZenonT(30) DEF PopCount, SignalledAfterPop, Fits, Complete, LockDiscipline, TypeOK
    <2> QED BY <2>3, <2>4, <2>5
  <1>9. ASSUME NEW r \in Readers, ReadDone(r) PROVE Base'
    <2>1. TypeOK'
      <3>1. "success" \in Statuses /\ taken[r] \in Seq(Irps)
          BY DEF Statuses, TypeOK
      <3>2. delivered' \in Seq(Irps)
          BY <1>9, <3>1 DEF ReadDone, TypeOK
      <3> QED BY <1>9, <3>1, <3>2, CompleteType DEF ReadDone, queueVars, TypeOK
    <2>2. CountersAgree' /\ LockDiscipline'
        BY <1>9 DEF ReadDone, Complete, queueVars, CountersAgree, LockDiscipline, TypeOK
    <2> QED BY <2>1, <2>2
  <1>10. CASE UNCHANGED vars
      BY <1>10 DEF vars, queueVars, readVars, histVars, TypeOK, CountersAgree, LockDiscipline
  <1> QED
      BY <1>1, <1>2, <1>3, <1>4, <1>5, <1>6, <1>7, <1>8, <1>9, <1>10
         DEF Next, Produce, ReadStep

(* TypeOK and CountersAgree hold for every set of producers and readers.    *)
THEOREM Types == Spec => [](TypeOK /\ CountersAgree /\ LockDiscipline)
  BY BaseInit, BaseStep, PTL DEF Spec, Base
-----------------------------------------------------------------------------
(* A signalled event means data, for every set of producers and readers:    *)
(* the Pop that empties the queue clears the event before it lets go of     *)
(* m_Mutex, and the Push that signals it has already linked its entry.      *)
LEMMA SignalStep == Base /\ SignalMeansData /\ [Next]_vars => SignalMeansData'
  <1> SUFFICES ASSUME Base, SignalMeansData, [Next]_vars PROVE SignalMeansData'
      OBVIOUS
  <1> USE QueueAssumption DEF Base, SignalMeansData
  <1>1. ASSUME NEW e \in Events, SetEvent(e) PROVE SignalMeansData'
      BY <1>1 DEF SetEvent
  <1>2. ASSUME NEW p \in Producers, NEW irp \in Irps, PushBack(p, irp)
        PROVE  SignalMeansData'
      BY <1>2 DEF PushBack, Linked
  <1>3. ASSUME NEW p \in Producers, PushNotify(p) PROVE SignalMeansData'
      BY <1>3 DEF PushNotify, CountersAgree, TypeOK
  <1>4. ASSUME NEW r \in Readers, NEW len \in Lengths, ReadRequest(r, len)
        PROVE  SignalMeansData'
      BY <1>4 DEF ReadRequest
  <1>5. ASSUME NEW r \in Readers, MeasureEntry(r) \/ MeasureDone(r) \/ ReadDone(r)
        PROVE  SignalMeansData'
      BY <1>5 DEF MeasureEntry, MeasureDone, ReadDone, queueVars
  <1>6. ASSUME NEW r \in Readers, PopFront(r) PROVE SignalMeansData'
      BY <1>6 DEF PopFront, Unlinked
  <1>7. ASSUME NEW r \in Readers, PopCount(r) PROVE SignalMeansData'
    <2>1. CASE count = 1
        BY <1>7, <2>1 DEF PopCount, SignalledAfterPop, Fits
    <2>2. CASE count # 1
      <3>1. entries' = entries /\ Len(entries) # 0
          BY <1>7, <2>2 DEF PopCount, SignalledAfterPop, Fits, CountersAgree, TypeOK
      <3> QED BY <3>1
    <2> QED BY <2>1, <2>2
  <1>8. CASE UNCHANGED vars
      BY <1>8 DEF vars, queueVars
  <1> QED
      BY <1>1, <1>2, <1>3, <1>4, <1>5, <1>6, <1>7, <1>8 DEF Next, Produce, ReadStep

THEOREM EventSound == Spec => []SignalMeansData
  <1>1. Init => SignalMeansData
      BY DEF Init, SignalMeansData
  <1> QED BY <1>1, BaseInit, BaseStep, SignalStep, PTL DEF Spec
-----------------------------------------------------------------------------
(* What the operations on sequences do to the set of their elements.        *)
LEMMA RangeAppend ==
  ASSUME NEW s \in Seq(Irps), NEW irp \in Irps
  PROVE  Range(Append(s, irp)) = Range(s) \cup {irp}
  <1>1. /\ Len(s) \in Nat /\ DOMAIN s = 1 .. Len(s)
        /\ DOMAIN Append(s, irp) = 1 .. Len(s) + 1
        /\ \A i \in 1 .. Len(s) : Append(s, irp)[i] = s[i]
        /\ Append(s, irp)[Len(s) + 1] = irp
      OBVIOUS
  <1>2. \A i : i \in 1 .. Len(s) + 1 <=> i \in 1 .. Len(s) \/ i = Len(s) + 1
      BY <1>1
  <1> QED BY <1>1, <1>2 DEF Range

LEMMA RangeConcat ==
  ASSUME NEW s \in Seq(Irps), NEW t \in Seq(Irps)
  PROVE  Range(s \o t) = Range(s) \cup Range(t)
  <1>1. /\ Len(s) \in Nat /\ Len(t) \in Nat
        /\ DOMAIN s = 1 .. Len(s) /\ DOMAIN t = 1 .. Len(t)
        /\ DOMAIN (s \o t) = 1 .. Len(s) + Len(t)
      OBVIOUS
  <1>2. /\ \A i \in 1 .. Len(s) : (s \o t)[i] = s[i]
        /\ \A i \in 1 .. Len(t) : (s \o t)[Len(s) + i] = t[i]
      BY <1>1
  <1>3. ASSUME NEW x \in Range(s \o t) PROVE x \in Range(s) \cup Range(t)
    <2>1. PICK i \in 1 .. Len(s) + Len(t) : x = (s \o t)[i]
        BY <1>1 DEF Range
    <2>2. CASE i <= Len(s)
        BY <1>1, <1>2, <2>1, <2>2 DEF Range
    <2>3. CASE ~(i <= Len(s))
      <3>1. i - Len(s) \in 1 .. Len(t) /\ Len(s) + (i - Len(s)) = i
          BY <1>1, <2>3
      <3> QED BY <1>1, <1>2, <2>1, <3>1 DEF Range
    <2> QED BY <2>2, <2>3
  <1>4. ASSUME NEW x \in Range(s) PROVE x \in Range(s \o t)
    <2>1. PICK i \in 1 .. Len(s) : x = s[i]
        BY <1>1 DEF Range
    <2>2. i \in 1 .. Len(s) + Len(t)
        BY <1>1
    <2> QED BY <1>1, <1>2, <2>1, <2>2 DEF Range
  <1>5. ASSUME NEW x \in Range(t) PROVE x \in Range(s \o t)
    <2>1. PICK i \in 1 .. Len(t) : x = t[i]
        BY <1>1 DEF Range
    <2>2. Len(s) + i \in 1 .. Len(s) + Len(t)
        BY <1>1
    <2> QED BY <1>1, <1>2, <2>1, <2>2 DEF Range
  <1> QED BY <1>3, <1>4, <1>5

(* No IRP is twice in the queue, which the removal of its head relies on.   *)
Distinct(s) == \A i, j \in 1 .. Len(s) : s[i] = s[j] => i = j

LEMMA RangeTail ==
  ASSUME NEW s \in Seq(Irps), s # <<>>, Distinct(s)
  PROVE  /\ Head(s) \in Range(s)
         /\ Range(Tail(s)) = Range(s) \ {Head(s)}
         /\ Distinct(Tail(s))
  <1>1. /\ Len(s) \in Nat /\ Len(s) > 0 /\ DOMAIN s = 1 .. Len(s) /\ Head(s) = s[1]
        /\ Tail(s) \in Seq(Irps) /\ Len(Tail(s)) = Len(s) - 1
        /\ DOMAIN Tail(s) = 1 .. Len(s) - 1
        /\ \A i \in 1 .. Len(s) - 1 : Tail(s)[i] = s[i + 1]
      OBVIOUS
  <1>2. 1 \in 1 .. Len(s) /\ \A i \in 1 .. Len(s) - 1 : i + 1 \in 1 .. Len(s) /\ i + 1 # 1
      BY <1>1
  <1>3. Head(s) \in Range(s)
      BY <1>1, <1>2 DEF Range
  <1>4. ASSUME NEW x \in Range(Tail(s)) PROVE x \in Range(s) \ {Head(s)}
    <2>1. PICK i \in 1 .. Len(s) - 1 : x = Tail(s)[i]
        BY <1>1 DEF Range
    <2>2. x = s[i + 1] /\ s[i + 1] # s[1]
        BY <1>1, <1>2, <2>1 DEF Distinct
    <2> QED BY <1>1, <1>2, <2>2 DEF Range
  <1>5. ASSUME NEW x \in Range(s), x # Head(s) PROVE x \in Range(Tail(s))
    <2>1. PICK i \in 1 .. Len(s) : x = s[i]
        BY <1>1 DEF Range
    <2>2. i - 1 \in 1 .. Len(s) - 1 /\ (i - 1) + 1 = i
        BY <1>1, <1>5, <2>1
    <2>3. x = Tail(s)[i - 1]
        BY <1>1, <2>1, <2>2
    <2> QED BY <1>1, <2>2, <2>3 DEF Range
  <1>6. Distinct(Tail(s))
    <2> SUFFICES ASSUME NEW i \in 1 .. Len(s) - 1, NEW j \in 1 .. Len(s) - 1,
                        Tail(s)[i] = Tail(s)[j]
                 PROVE  i = j
        BY <1>1 DEF Distinct
    <2>1. s[i + 1] = s[j + 1]
        BY <1>1
    <2>2. i + 1 = j + 1
        BY <1>2, <2>1 DEF Distinct
    <2> QED BY <2>2
  <1> QED BY <1>3, <1>4, <1>5, <1>6

LEMMA DistinctAppend ==
  ASSUME NEW s \in Seq(Irps), NEW irp \in Irps, Distinct(s), irp \notin Range(s)
  PROVE  Distinct(Append(s, irp))
  <1>1. /\ Len(s) \in Nat /\ DOMAIN s = 1 .. Len(s) /\ Len(Append(s, irp)) = Len(s) + 1
        /\ \A i \in 1 .. Len(s) : Append(s, irp)[i] = s[i]
        /\ Append(s, irp)[Len(s) + 1] = irp
      OBVIOUS
  <1>2. \A i \in 1 .. Len(s) : s[i] # irp
      BY <1>1 DEF Range
  <1>3. \A i \in 1 .. Len(s) + 1 : i \in 1 .. Len(s) \/ i = Len(s) + 1
      BY <1>1
  <1> QED BY <1>1, <1>2, <1>3 DEF Distinct

(* Between reads, and while it measures, a reader holds nothing.            *)
EmptyHanded == \A r \in Readers : pc[r] \in {"idle", "measure"} => taken[r] = <<>>

(* Conservation, said of one IRP at a time.                                 *)
OnePlace ==
    \A x :
        /\ x \in Range(pushed) <=> \/ x \in Range(entries) \cup Range(delivered) \cup lost
                                  \/ \E r \in Readers : x \in Range(taken[r])
        /\ ~(x \in Range(entries) /\ x \in Range(delivered) \cup lost)
        /\ ~(x \in Range(delivered) /\ x \in lost)
        /\ \A r \in Readers :
               x \in Range(taken[r]) => x \notin Range(entries) \cup Range(delivered) \cup lost
        /\ \A q, r \in Readers :
               x \in Range(taken[q]) /\ x \in Range(taken[r]) => q = r

Kept == EmptyHanded /\ Distinct(entries) /\ OnePlace

LEMMA OnePlaceIsConservation == OnePlace => Conservation
  BY DEF OnePlace, Conservation

LEMMA RangeTypes ==
  ASSUME Base
  PROVE  /\ entries \in Seq(Irps) /\ pushed \in Seq(Irps) /\ delivered \in Seq(Irps)
         /\ \A r \in Readers : taken[r] \in Seq(Irps)
  BY DEF Base, TypeOK

LEMMA RangeEmpty == Range(<<>>) = {}
  BY DEF Range

LEMMA KeptInit == Init => Kept
  <1> SUFFICES ASSUME Init PROVE Kept
      OBVIOUS
  <1>1. \A r \in Readers : taken[r] = <<>>
      BY DEF Init
  <1>2. Range(entries) = {} /\ Range(pushed) = {} /\ Range(delivered) = {} /\ lost = {}
      BY RangeEmpty DEF Init
  <1>3. OnePlace
      BY <1>1, <1>2, RangeEmpty DEF OnePlace
  <1> QED BY <1>1, <1>3 DEF Init, Kept, EmptyHanded, Distinct

(* The step that makes room for an IRP in one place takes it from another.  *)
LEMMA KeptPush ==
  ASSUME Base, Kept, NEW p \in Producers, NEW irp \in Irps, PushBack(p, irp)
  PROVE  Kept'
  <1>1. /\ entries' = Append(entries, irp) /\ pushed' = Append(pushed, irp)
        /\ irp \notin Range(pushed)
        /\ UNCHANGED <<taken, pc, delivered, lost>>
      BY DEF PushBack, Linked, readVars
  <1>2. Range(entries') = Range(entries) \cup {irp} /\ Range(pushed') = Range(pushed) \cup {irp}
      BY <1>1, RangeAppend, RangeTypes
  <1>3. Distinct(entries')
    <2>1. irp \notin Range(entries)
        BY <1>1 DEF Kept, OnePlace
    <2> QED BY <1>1, <2>1, DistinctAppend, RangeTypes DEF Kept
  <1>4. OnePlace'
      BY <1>1, <1>2 DEF Kept, OnePlace
  <1> QED BY <1>1, <1>3, <1>4 DEF Kept, EmptyHanded

(* A read ends: what it held goes with it, to where is the caller's to say. *)
LEMMA KeptComplete ==
  ASSUME Base, Kept, NEW r \in Readers, taken' = [taken EXCEPT ![r] = <<>>],
         pc' = [pc EXCEPT ![r] = "idle"],
         UNCHANGED <<entries, pushed>>,
         \/ delivered' = delivered /\ lost' = lost \cup Range(taken[r])
         \/ delivered' = delivered \o taken[r] /\ lost' = lost
  PROVE  Kept'
  <1>1. Range(taken'[r]) = {} /\ \A q \in Readers : q # r => taken'[q] = taken[q]
      BY RangeEmpty DEF Base, TypeOK
  <1>2. \/ Range(delivered') = Range(delivered) /\ lost' = lost \cup Range(taken[r])
        \/ Range(delivered') = Range(delivered) \cup Range(taken[r]) /\ lost' = lost
      BY RangeConcat, RangeTypes
  <1>3. EmptyHanded'
      BY DEF Kept, EmptyHanded, Base, TypeOK
  <1>4. OnePlace'
      BY <1>1, <1>2 DEF Kept, OnePlace
  <1> QED BY <1>3, <1>4 DEF Kept, Distinct

LEMMA KeptPop ==
  ASSUME Base, Kept, NEW r \in Readers, PopFront(r)
  PROVE  Kept'
  <1>1. CASE Complete(r, "bad_data", <<>>) /\ lost' = lost \cup Range(taken[r])
             /\ UNCHANGED entries
      BY <1>1, KeptComplete DEF PopFront, Complete
  <1>2. CASE /\ entries # <<>>
             /\ entries' = Tail(entries)
             /\ taken' = [taken EXCEPT ![r] = Append(@, Head(entries))]
             /\ pc' = [pc EXCEPT ![r] = "popped"]
             /\ UNCHANGED lost
    <2>1. UNCHANGED <<pushed, delivered>>
        BY DEF PopFront
    <2>2. Head(entries) \in Irps
        BY <1>2, RangeTypes
    <2>3. /\ Head(entries) \in Range(entries)
          /\ Range(entries') = Range(entries) \ {Head(entries)}
          /\ Distinct(entries')
        BY <1>2, RangeTail, RangeTypes DEF Kept
    <2>4. /\ taken'[r] = Append(taken[r], Head(entries))
          /\ \A q \in Readers : q # r => taken'[q] = taken[q]
        BY <1>2 DEF Base, TypeOK
    <2>5. Range(taken'[r]) = Range(taken[r]) \cup {Head(entries)}
        BY <2>2, <2>4, RangeAppend, RangeTypes
    <2>6. OnePlace'
      <3> DEFINE h == Head(entries)
      <3>1. h \in Range(entries) /\ Range(entries') = Range(entries) \ {h}
          BY <2>3
      <3>2. /\ Range(taken'[r]) = Range(taken[r]) \cup {h}
            /\ \A q \in Readers : q # r => Range(taken'[q]) = Range(taken[q])
          BY <2>4, <2>5
      <3>3. pushed' = pushed /\ delivered' = delivered /\ lost' = lost
          BY <1>2, <2>1
      <3>4. OnePlace
          BY DEF Kept
      <3> HIDE DEF h
      <3>5. h \notin Range(delivered) \cup lost /\ \A q \in Readers : h \notin Range(taken[q])
          BY <3>1, <3>4 DEF OnePlace
      <3>6. \A x, q : q \in Readers =>
                (x \in Range(taken'[q]) <=> x \in Range(taken[q]) \/ (q = r /\ x = h))
          BY <3>2
      <3>7. \A x : x \in Range(entries') <=> x \in Range(entries) /\ x # h
          BY <3>1
      <3> QED BY <3>1, <3>3, <3>4, <3>5, <3>6, <3>7 DEF OnePlace
    <2>7. EmptyHanded'
        BY <1>2, <2>4 DEF Kept, EmptyHanded, Base, TypeOK
    <2> QED BY <2>3, <2>6, <2>7 DEF Kept
  <1> QED BY <1>1, <1>2 DEF PopFront, Unlinked

LEMMA KeptQuiet ==
  ASSUME Kept, UNCHANGED <<entries, pushed, taken, delivered, lost>>,
         \A r \in Readers : pc'[r] \in {"idle", "measure"} => pc[r] \in {"idle", "measure"}
  PROVE  Kept'
  BY DEF Kept, EmptyHanded, Distinct, OnePlace

LEMMA KeptStep == Base /\ Kept /\ [Next]_vars => Kept'
  <1> SUFFICES ASSUME Base, Kept, [Next]_vars PROVE Kept'
      OBVIOUS
  <1>1. ASSUME NEW e \in Events, SetEvent(e) PROVE Kept'
      BY <1>1, KeptQuiet DEF SetEvent, readVars, histVars
  <1>2. ASSUME NEW p \in Producers, PushNotify(p) PROVE Kept'
      BY <1>2, KeptQuiet DEF PushNotify, readVars, histVars
  <1>3. ASSUME NEW p \in Producers, NEW irp \in Irps, PushBack(p, irp) PROVE Kept'
      BY <1>3, KeptPush
  <1>4. ASSUME NEW r \in Readers, NEW len \in Lengths, ReadRequest(r, len) PROVE Kept'
      BY <1>4, KeptQuiet DEF ReadRequest, histVars, Base, TypeOK
  <1>5. ASSUME NEW r \in Readers, MeasureEntry(r) PROVE Kept'
      BY <1>5, KeptQuiet DEF MeasureEntry, queueVars, histVars
  <1>6. ASSUME NEW r \in Readers, MeasureDone(r) PROVE Kept'
    <2>1. taken[r] = <<>> /\ UNCHANGED <<entries, pushed, delivered, lost>>
        BY <1>6 DEF MeasureDone, Kept, EmptyHanded, histVars
    <2>2. CASE /\ taken' = [taken EXCEPT ![r] = <<>>]
               /\ pc' = [pc EXCEPT ![r] = "idle"]
      <3>1. lost' = lost \cup Range(taken[r])
          BY <2>1, RangeEmpty
      <3> QED BY <2>1, <2>2, <3>1, KeptComplete
    <2>3. CASE taken' = taken /\ pc' = [pc EXCEPT ![r] = "copy"]
        BY <2>1, <2>3, KeptQuiet DEF Base, TypeOK
    <2> QED BY <1>6, <2>2, <2>3 DEF MeasureDone, Complete
  <1>7. ASSUME NEW r \in Readers, PopFront(r) PROVE Kept'
      BY <1>7, KeptPop
  <1>8. ASSUME NEW r \in Readers, PopCount(r) PROVE Kept'
    <2>1. UNCHANGED <<entries, pushed, delivered>>
        BY <1>8 DEF PopCount
    <2>2. CASE pc' = [pc EXCEPT ![r] = "copy"] /\ UNCHANGED <<taken, lost>>
        BY <2>1, <2>2, KeptQuiet DEF Base, TypeOK
    <2>3. CASE /\ taken' = [taken EXCEPT ![r] = <<>>]
               /\ pc' = [pc EXCEPT ![r] = "idle"]
               /\ lost' = lost \cup Range(taken[r])
        BY <2>1, <2>3, KeptComplete
    <2> QED BY <1>8, <2>2, <2>3 DEF PopCount, Complete
  <1>9. ASSUME NEW r \in Readers, ReadDone(r) PROVE Kept'
      BY <1>9, KeptComplete DEF ReadDone, Complete, queueVars
  <1>10. CASE UNCHANGED vars
      BY <1>10, KeptQuiet DEF vars, queueVars, readVars, histVars
  <1> QED BY <1>1, <1>2, <1>3, <1>4, <1>5, <1>6, <1>7, <1>8, <1>9, <1>10
         DEF Next, Produce, ReadStep

(* However many reads are in flight, and although the lock of the copy is   *)
(* released before it starts, Push and Pop keep each captured IRP in one    *)
(* place: no two reads return it, and none returns it after losing it.      *)
THEOREM NothingDuplicated == Spec => []Conservation
  <1>1. Kept => Conservation
      BY OnePlaceIsConservation DEF Kept
  <1> QED BY <1>1, BaseInit, BaseStep, KeptInit, KeptStep, PTL DEF Spec
-----------------------------------------------------------------------------
(* With one reader, which is what the broker has: every IRP captured is     *)
(* delivered once and in order, and the reader never meets the errors of    *)
(* DriverReadRoutine's copy, however the capturing threads extend the queue *)
(* while it measures and copies.                                            *)

(* offset has the prefix sums of the sizes, hence it never decreases.       *)
Offsets ==
    /\ \A i \in 1 .. Len(pushed) : offset[i + 1] = offset[i] + Size[pushed[i]]
    /\ \A i, j \in 1 .. Len(pushed) + 1 : i <= j => offset[i] <= offset[j]

InOrder(R) == (delivered \o taken[R]) \o entries = pushed

(* What the reader measured is still there: the IRPs it has taken are the   *)
(* first of them, the others are at the head of the queue, and the two byte *)
(* counts are differences of offsets.                                       *)
Snapshot(R) ==
    LET b == Len(delivered)
        t == Len(taken[R])
        n == number[R]
    IN /\ pc[R] \in {"idle", "measure"} => taken[R] = <<>> /\ copied[R] = 0
       /\ pc[R] # "idle" => /\ t <= n
                            /\ n <= t + Len(entries)
                            /\ expected[R] = offset[b + n + 1] - offset[b + 1]
       /\ pc[R] = "copy" => copied[R] = offset[b + t + 1] - offset[b + 1]
       /\ pc[R] = "popped" => copied[R] = offset[b + t] - offset[b + 1]

Clean(R) == reply[R].status \notin {"bad_data", "buffer_overflow"}

Single(R) == Offsets /\ InOrder(R) /\ Snapshot(R) /\ Clean(R)

(* The types that the proofs below go back to.                              *)
LEMMA SingleTypes ==
  ASSUME Base, NEW R \in Readers
  PROVE  /\ pushed \in Seq(Irps) /\ entries \in Seq(Irps) /\ delivered \in Seq(Irps)
         /\ taken[R] \in Seq(Irps) /\ offset \in Seq(Nat)
         /\ Len(offset) = Len(pushed) + 1
         /\ Len(pushed) \in Nat /\ Len(entries) \in Nat /\ Len(delivered) \in Nat
         /\ Len(taken[R]) \in Nat /\ number[R] \in Nat /\ expected[R] \in Nat
         /\ copied[R] \in Nat
         /\ \A i \in 1 .. Len(pushed) + 1 : offset[i] \in Nat
         /\ pc[R] = "popped" => Len(taken[R]) > 0
  <1>1. /\ pushed \in Seq(Irps) /\ entries \in Seq(Irps) /\ delivered \in Seq(Irps)
        /\ taken[R] \in Seq(Irps) /\ offset \in Seq(Nat)
        /\ number[R] \in Nat /\ expected[R] \in Nat /\ copied[R] \in Nat
      BY DEF Base, TypeOK
  <1>2. Len(offset) = Len(pushed) + 1 /\ (pc[R] = "popped" => Len(taken[R]) > 0)
      BY DEF Base, LockDiscipline
  <1>3. \A i \in 1 .. Len(offset) : offset[i] \in Nat
      BY <1>1
  <1> QED BY <1>1, <1>2, <1>3, LenProperties

(* Where the parts of the history are in it.                                *)
LEMMA TwoParts ==
  ASSUME NEW s \in Seq(Irps), NEW t \in Seq(Irps)
  PROVE  /\ s \o t \in Seq(Irps)
         /\ Len(s \o t) = Len(s) + Len(t)
         /\ \A i \in 1 .. Len(s) : (s \o t)[i] = s[i]
         /\ \A i \in 1 .. Len(t) : (s \o t)[Len(s) + i] = t[i]
  <1>1. Len(s) \in Nat /\ Len(t) \in Nat
      BY LenProperties
  <1>2. /\ s \o t \in Seq(Irps)
        /\ Len(s \o t) = Len(s) + Len(t)
        /\ \A i \in 1 .. Len(s) + Len(t) :
               (s \o t)[i] = IF i <= Len(s) THEN s[i] ELSE t[i - Len(s)]
      BY ConcatProperties
  <1>3. ASSUME NEW i \in 1 .. Len(s) PROVE (s \o t)[i] = s[i]
    <2>1. i \in 1 .. Len(s) + Len(t) /\ i <= Len(s)
        BY <1>1
    <2> QED BY <1>2, <2>1
  <1>4. ASSUME NEW i \in 1 .. Len(t) PROVE (s \o t)[Len(s) + i] = t[i]
    <2>1. /\ Len(s) + i \in 1 .. Len(s) + Len(t) /\ ~(Len(s) + i <= Len(s))
          /\ (Len(s) + i) - Len(s) = i
        BY <1>1
    <2> QED BY <1>2, <2>1
  <1> QED BY <1>2, <1>3, <1>4

(* Moving the head of the queue to what the reader has taken.               *)
LEMMA HeadTail ==
  ASSUME NEW e \in Seq(Irps), e # <<>>
  PROVE  e = <<Head(e)>> \o Tail(e)
  <1>1. Len(e) \in 1 .. Len(e) /\ 1 \in 1 .. Len(e)
      BY EmptySeq
  <1>2. SubSeq(e, 1, Len(e)) = <<e[1]>> \o SubSeq(e, 2, Len(e))
    <2>1. SubSeq(e, 1, Len(e)) = <<e[1]>> \o SubSeq(e, 1 + 1, Len(e))
        BY <1>1, SubSeqRecursiveFirst
    <2>2. 1 + 1 = 2
        OBVIOUS
    <2> QED BY <2>1, <2>2
  <1>3. SubSeq(e, 1, Len(e)) = e
      BY SubSeqFull
  <1>4. Tail(e) = SubSeq(e, 2, Len(e))
      BY TailIsSubSeq
  <1>5. Head(e) = e[1]
      OBVIOUS
  <1> QED BY <1>2, <1>3, <1>4, <1>5, Zenon

LEMMA MoveHead ==
  ASSUME NEW d \in Seq(Irps), NEW t \in Seq(Irps), NEW e \in Seq(Irps), e # <<>>
  PROVE  (d \o Append(t, Head(e))) \o Tail(e) = (d \o t) \o e
  <1>1. Head(e) \in Irps /\ Tail(e) \in Seq(Irps)
      BY HeadTailProperties
  <1>2. <<Head(e)>> \in Seq(Irps)
      BY <1>1
  <1>3. e = <<Head(e)>> \o Tail(e)
      BY HeadTail
  <1>4. Append(t, Head(e)) = t \o <<Head(e)>>
      BY <1>1, AppendIsConcat
  <1>5. t \o <<Head(e)>> \in Seq(Irps) /\ d \o t \in Seq(Irps)
      BY <1>2, ConcatProperties
  <1>6. d \o (t \o <<Head(e)>>) = (d \o t) \o <<Head(e)>>
      BY <1>2, ConcatAssociative
  <1>7. ((d \o t) \o <<Head(e)>>) \o Tail(e) = (d \o t) \o (<<Head(e)>> \o Tail(e))
      BY <1>1, <1>2, <1>5, ConcatAssociative, SMTT(30)
  <1> QED BY <1>3, <1>4, <1>6, <1>7, Zenon

LEMMA AppendLast ==
  ASSUME NEW s \in Seq(Irps), NEW e \in Seq(Irps), NEW irp \in Irps
  PROVE  s \o Append(e, irp) = Append(s \o e, irp)
  <1>1. <<irp>> \in Seq(Irps) /\ s \o e \in Seq(Irps)
      BY ConcatProperties
  <1>2. Append(e, irp) = e \o <<irp>>
      BY AppendIsConcat
  <1>3. Append(s \o e, irp) = (s \o e) \o <<irp>>
      BY <1>1, AppendIsConcat
  <1>4. (s \o e) \o <<irp>> = s \o (e \o <<irp>>)
      BY <1>1, ConcatAssociative
  <1> QED BY <1>2, <1>3, <1>4, Zenon

LEMMA SingleParts ==
  ASSUME Base, NEW R \in Readers, Single(R)
  PROVE  /\ Len(pushed) = Len(delivered) + Len(taken[R]) + Len(entries)
         /\ \A i \in 1 .. Len(taken[R]) : pushed[Len(delivered) + i] = taken[R][i]
         /\ \A i \in 1 .. Len(entries) :
                pushed[Len(delivered) + Len(taken[R]) + i] = entries[i]
  <1> DEFINE front == delivered \o taken[R]
  <1>1. /\ delivered \in Seq(Irps) /\ taken[R] \in Seq(Irps) /\ entries \in Seq(Irps)
        /\ Len(delivered) \in Nat /\ Len(taken[R]) \in Nat /\ Len(entries) \in Nat
      BY SingleTypes
  <1>2. /\ front \in Seq(Irps) /\ Len(front) = Len(delivered) + Len(taken[R])
        /\ \A i \in 1 .. Len(taken[R]) : front[Len(delivered) + i] = taken[R][i]
      BY <1>1, TwoParts
  <1>3. pushed = front \o entries
      BY DEF Single, InOrder
  <1> HIDE DEF front
  <1>4. /\ Len(pushed) = Len(front) + Len(entries)
        /\ \A i \in 1 .. Len(front) : pushed[i] = front[i]
        /\ \A i \in 1 .. Len(entries) : pushed[Len(front) + i] = entries[i]
      BY <1>1, <1>2, <1>3, TwoParts, ZenonT(30)
  <1>5. ASSUME NEW i \in 1 .. Len(taken[R])
        PROVE  Len(delivered) + i \in 1 .. Len(front)
      BY <1>1, <1>2
  <1> QED BY <1>2, <1>4, <1>5

LEMMA SingleInit ==
  ASSUME Init, NEW R \in Readers
  PROVE  Single(R)
  <1>1. Offsets
      BY DEF Init, Offsets
  <1>2. InOrder(R)
      BY ConcatEmptySeq, EmptySeq DEF Init, InOrder
  <1>3. Snapshot(R) /\ Clean(R)
      BY DEF Init, Snapshot, Clean, NoReply
  <1> QED BY <1>1, <1>2, <1>3 DEF Single
-----------------------------------------------------------------------------
(* A capture lengthens the queue and the history at the same end, and the   *)
(* offsets the reader's counts are made of stay as they were.               *)
LEMMA SinglePush ==
  ASSUME Base, NEW R \in Readers, Single(R),
         NEW p \in Producers, NEW irp \in Irps, PushBack(p, irp)
  PROVE  Single(R)'
  <1> DEFINE L == Len(pushed)
             bytes == offset[L + 1] + Size[irp]
  <1>1. /\ pushed \in Seq(Irps) /\ entries \in Seq(Irps) /\ offset \in Seq(Nat)
        /\ Len(offset) = L + 1 /\ L \in Nat
        /\ delivered \in Seq(Irps) /\ taken[R] \in Seq(Irps)
        /\ Len(entries) \in Nat /\ Len(delivered) \in Nat /\ Len(taken[R]) \in Nat
        /\ number[R] \in Nat
        /\ \A i \in 1 .. L + 1 : offset[i] \in Nat
        /\ pc[R] = "popped" => Len(taken[R]) > 0
      BY SingleTypes
  <1>2. bytes \in Nat /\ Size[irp] \in Nat
    <2>1. L + 1 \in 1 .. L + 1
        BY <1>1
    <2>2. offset[L + 1] \in Nat
        BY <1>1, <2>1
    <2> QED BY <2>2, SizeNat
  <1>3. /\ entries' = Append(entries, irp) /\ pushed' = Append(pushed, irp)
        /\ offset' = Append(offset, bytes)
        /\ UNCHANGED <<delivered, taken, pc, number, expected, copied, reply>>
      BY DEF PushBack, Linked, readVars
  <1>4. /\ Len(pushed') = L + 1
        /\ pushed'[L + 1] = irp
        /\ \A i \in 1 .. L : pushed'[i] = pushed[i]
        /\ Len(entries') = Len(entries) + 1
      BY <1>1, <1>3, AppendProperties
  <1>5. /\ offset'[L + 2] = bytes
        /\ \A i \in 1 .. L + 1 : offset'[i] = offset[i]
    <2>1. /\ offset'[(L + 1) + 1] = bytes
          /\ \A i \in 1 .. L + 1 : offset'[i] = offset[i]
        BY <1>1, <1>2, <1>3, AppendProperties
    <2>2. (L + 1) + 1 = L + 2
        BY <1>1
    <2> QED BY <2>1, <2>2
  <1>6. Offsets'
    <2>1. ASSUME NEW i \in 1 .. Len(pushed') PROVE offset'[i + 1] = offset'[i] + Size[pushed'[i]]
      <3>1. CASE i \in 1 .. L
        <4>1. offset[i + 1] = offset[i] + Size[pushed[i]]
            BY <3>1 DEF Single, Offsets
        <4>2. i \in 1 .. L + 1 /\ i + 1 \in 1 .. L + 1
            BY <1>1, <3>1
        <4> QED BY <1>4, <1>5, <3>1, <4>1, <4>2
      <3>2. CASE i = L + 1
        <4>1. i + 1 = L + 2 /\ i \in 1 .. L + 1
            BY <1>1, <3>2
        <4> QED BY <1>4, <1>5, <3>2, <4>1
      <3> QED BY <1>1, <1>4, <3>1, <3>2
    <2>2. ASSUME NEW i \in 1 .. Len(pushed') + 1, NEW j \in 1 .. Len(pushed') + 1, i <= j
          PROVE  offset'[i] <= offset'[j]
      <3>1. CASE j \in 1 .. L + 1
        <4>1. i \in 1 .. L + 1
            BY <1>1, <2>2, <3>1, <1>4
        <4>2. offset[i] <= offset[j]
            BY <2>2, <3>1, <4>1 DEF Single, Offsets
        <4> QED BY <1>5, <3>1, <4>1, <4>2
      <3>2. CASE j = L + 2 /\ i \in 1 .. L + 1
        <4>1. L + 1 \in 1 .. L + 1 /\ i <= L + 1
            BY <1>1, <3>2
        <4>2. offset[i] <= offset[L + 1]
            BY <3>2, <4>1 DEF Single, Offsets
        <4>3. offset[i] \in Nat /\ offset[L + 1] \in Nat
            BY <1>1, <3>2, <4>1
        <4>4. offset[i] <= bytes
            BY <1>2, <4>2, <4>3
        <4> QED BY <1>5, <3>2, <4>4
      <3>3. CASE j = L + 2 /\ i = L + 2
          BY <1>2, <1>5, <3>3
      <3> QED BY <1>1, <1>4, <2>2, <3>1, <3>2, <3>3
    <2> QED BY <2>1, <2>2 DEF Offsets
  <1>7. InOrder(R)'
    <2> DEFINE front == delivered \o taken[R]
    <2>1. front \in Seq(Irps) /\ pushed = front \o entries
        BY <1>1, ConcatProperties DEF Single, InOrder
    <2>2. front' = front
        BY <1>3
    <2>3. front \o Append(entries, irp) = Append(front \o entries, irp)
        BY <1>1, <2>1, AppendLast
    <2> QED BY <1>3, <2>1, <2>2, <2>3 DEF InOrder
  <1>8. Snapshot(R)'
    <2> DEFINE b == Len(delivered)
               t == Len(taken[R])
    <2>1. L = b + t + Len(entries)
        BY SingleParts
    <2>2. Snapshot(R)
        BY DEF Single
    <2>3. b + 1 \in 1 .. L + 1 /\ b + t + 1 \in 1 .. L + 1
        BY <1>1, <2>1
    <2>4. pc[R] = "popped" => b + t \in 1 .. L + 1
        BY <1>1, <2>1, SMTT(30)
    <2>5. pc[R] # "idle" => b + number[R] + 1 \in 1 .. L + 1 /\ number[R] <= t + Len(entries')
      <3>1. SUFFICES ASSUME pc[R] # "idle"
                     PROVE  /\ b + number[R] + 1 \in 1 .. L + 1
                            /\ number[R] <= t + Len(entries')
          OBVIOUS
      <3>2. number[R] <= t + Len(entries)
          BY <2>2, <3>1 DEF Snapshot
      <3>3. t \in Nat /\ b \in Nat /\ L \in Nat /\ Len(entries) \in Nat /\ number[R] \in Nat
          BY <1>1
      <3>4. Len(entries') = Len(entries) + 1
          BY <1>4
      <3> HIDE DEF b, t, L
      <3>5. b + number[R] + 1 \in 1 .. L + 1
          BY <2>1, <3>2, <3>3
      <3>6. number[R] <= t + Len(entries')
          BY <3>2, <3>3, <3>4
      <3> QED BY <3>5, <3>6
    <2> QED BY <1>3, <1>5, <2>2, <2>3, <2>4, <2>5 DEF Snapshot
  <1>9. Clean(R)'
      BY <1>3 DEF Single, Clean
  <1> QED BY <1>6, <1>7, <1>8, <1>9 DEF Single

(* Steps that touch neither the history nor the reader.                     *)
LEMMA SingleQuiet ==
  ASSUME NEW R \in Readers, Single(R),
         UNCHANGED <<pushed, offset, delivered, entries, taken, pc, number, expected,
                     copied, reply>>
  PROVE  Single(R)'
  BY DEF Single, Offsets, InOrder, Snapshot, Clean
-----------------------------------------------------------------------------
(* The measure: what it has added up is the distance of two offsets.        *)
LEMMA SingleRequest ==
  ASSUME Base, NEW R \in Readers, Single(R), NEW len \in Lengths, ReadRequest(R, len)
  PROVE  Single(R)'
  <1>1. /\ UNCHANGED <<pushed, offset, delivered, entries, taken, copied>>
        /\ pc[R] = "idle" /\ pc'[R] = "measure" /\ number'[R] = 0 /\ expected'[R] = 0
        /\ reply'[R].status = "none"
      BY DEF Base, TypeOK, ReadRequest, histVars, NoReply
  <1>2. Offsets' /\ InOrder(R)' /\ Clean(R)'
      BY <1>1 DEF Single, Offsets, InOrder, Clean
  <1>3. Snapshot(R)'
    <2>1. taken[R] = <<>> /\ copied[R] = 0
        BY <1>1 DEF Single, Snapshot
    <2>2. Len(delivered) \in Nat /\ Len(entries) \in Nat /\ Len(pushed) \in Nat
        BY SingleTypes
    <2>3. Len(pushed) = Len(delivered) + Len(taken[R]) + Len(entries)
        BY SingleParts
    <2>4. Len(taken[R]) = 0
        BY <2>1
    <2>5. Len(delivered) + 1 \in 1 .. Len(pushed) + 1
        BY <2>2, <2>3, <2>4
    <2>6. offset[Len(delivered) + 1] \in Nat
        BY <2>5, SingleTypes
    <2>7. Len(delivered) + 0 + 1 = Len(delivered) + 1
        BY <2>2
    <2> QED BY <1>1, <2>1, <2>2, <2>4, <2>6, <2>7 DEF Snapshot
  <1> QED BY <1>2, <1>3 DEF Single

LEMMA SingleMeasure ==
  ASSUME Base, NEW R \in Readers, Single(R), MeasureEntry(R)
  PROVE  Single(R)'
  <1> DEFINE b == Len(delivered)
             n == number[R]
  <1>1. /\ UNCHANGED <<pushed, offset, delivered, entries, taken, copied, pc, reply>>
        /\ pc[R] = "measure" /\ n < Len(entries)
        /\ number'[R] = n + 1 /\ expected'[R] = expected[R] + Size[entries[n + 1]]
      BY DEF Base, TypeOK, MeasureEntry, queueVars, histVars
  <1>2. Offsets' /\ InOrder(R)' /\ Clean(R)'
      BY <1>1 DEF Single, Offsets, InOrder, Clean
  <1>3. /\ taken[R] = <<>> /\ copied[R] = 0 /\ Len(taken[R]) = 0
        /\ expected[R] = offset[b + n + 1] - offset[b + 1]
      BY <1>1 DEF Single, Snapshot
  <1>4. b \in Nat /\ n \in Nat /\ Len(entries) \in Nat /\ Len(pushed) = b + 0 + Len(entries)
      BY <1>3, SingleTypes, SingleParts
  <1>5. pushed[b + n + 1] = entries[n + 1]
    <2>1. n + 1 \in 1 .. Len(entries)
        BY <1>1, <1>4
    <2>2. pushed[b + Len(taken[R]) + (n + 1)] = entries[n + 1]
        BY <2>1, SingleParts
    <2>3. b + 0 + (n + 1) = b + n + 1
        BY <1>4
    <2> QED BY <1>3, <2>2, <2>3
  <1>6. /\ b + n + 1 \in 1 .. Len(pushed) /\ (b + n + 1) + 1 = b + (n + 1) + 1
        /\ b + n + 1 \in 1 .. Len(pushed) + 1 /\ b + 1 \in 1 .. Len(pushed) + 1
        /\ n + 1 <= 0 + Len(entries) /\ 0 <= n + 1
    <2>1. n < Len(entries)
        BY <1>1
    <2> HIDE DEF b, n
    <2> QED BY <1>4, <2>1
  <1>7. offset[b + (n + 1) + 1] = offset[b + n + 1] + Size[entries[n + 1]]
      BY <1>5, <1>6 DEF Single, Offsets
  <1>8. offset[b + n + 1] \in Nat /\ offset[b + 1] \in Nat /\ Size[entries[n + 1]] \in Nat
    <2>1. entries[n + 1] \in Irps
        BY <1>1, <1>4, SingleTypes, ElementOfSeq
    <2> QED BY <1>6, <2>1, SingleTypes, SizeNat
  <1>9. expected'[R] = offset[b + (n + 1) + 1] - offset[b + 1]
    <2> DEFINE x == offset[b + n + 1]
               y == offset[b + 1]
               z == Size[entries[n + 1]]
    <2>1. x \in Nat /\ y \in Nat /\ z \in Nat
        BY <1>8
    <2>2. expected'[R] = (x - y) + z /\ offset[b + (n + 1) + 1] = x + z
        BY <1>1, <1>3, <1>7
    <2> HIDE DEF x, y, z
    <2>3. (x - y) + z = (x + z) - y
        BY <2>1
    <2> QED BY <2>2, <2>3 DEF y
  <1>10. Snapshot(R)'
      BY <1>1, <1>3, <1>6, <1>9 DEF Snapshot
  <1> QED BY <1>2, <1>10 DEF Single

(* A read that ends before it has taken anything changes nothing else.      *)
LEMMA SingleMeasured ==
  ASSUME Base, NEW R \in Readers, Single(R), MeasureDone(R)
  PROVE  Single(R)'
  <1> USE DEF Base, TypeOK
  <1>1. /\ UNCHANGED <<pushed, offset, delivered, entries, number, expected>>
        /\ pc[R] = "measure"
      BY DEF MeasureDone, histVars
  <1>2. taken[R] = <<>> /\ copied[R] = 0
      BY <1>1 DEF Single, Snapshot
  <1>3. /\ taken'[R] = <<>> /\ copied'[R] = 0
        /\ pc'[R] \in {"idle", "copy"}
        /\ reply'[R].status \in {reply[R].status, "buffer_too_small", "insufficient_resources"}
      BY <1>2 DEF MeasureDone, Complete
  <1>4. Offsets' /\ InOrder(R)' /\ Clean(R)'
      BY <1>1, <1>2, <1>3 DEF Single, Offsets, InOrder, Clean
  <1>5. Snapshot(R)'
    <2>1. Len(delivered) \in Nat /\ Len(taken[R]) = 0 /\ Len(entries) \in Nat
        BY <1>2, SingleTypes
    <2>2. Len(delivered) + 1 \in 1 .. Len(pushed) + 1
      <3>1. Len(pushed) = Len(delivered) + Len(taken[R]) + Len(entries)
          BY SingleParts
      <3> QED BY <2>1, <3>1, SMTT(30)
    <2>3. /\ offset[Len(delivered) + 0 + 1] - offset[Len(delivered) + 1] = 0
          /\ Len(delivered) + 0 + 1 = Len(delivered) + 1
      <3>1. offset[Len(delivered) + 1] \in Nat
          BY <2>2, SingleTypes
      <3>2. Len(delivered) + 0 + 1 = Len(delivered) + 1
          BY <2>1
      <3> QED BY <3>1, <3>2
    <2>4. Snapshot(R)
        BY DEF Single
    <2>5. Len(taken'[R]) = 0
        BY <1>3
    <2> QED BY <1>1, <1>2, <1>3, <2>1, <2>3, <2>4, <2>5 DEF Snapshot
  <1> QED BY <1>4, <1>5 DEF Single
-----------------------------------------------------------------------------
(* The copy: Pop finds an entry each time, because what was measured is     *)
(* still in the queue; nobody else removes anything.                        *)
LEMMA SinglePop ==
  ASSUME Base, NEW R \in Readers, Single(R), PopFront(R)
  PROVE  Single(R)'
  <1> DEFINE b == Len(delivered)
             t == Len(taken[R])
             n == number[R]
  <1>1. /\ b \in Nat /\ t \in Nat /\ n \in Nat /\ Len(entries) \in Nat
        /\ delivered \in Seq(Irps) /\ taken[R] \in Seq(Irps) /\ entries \in Seq(Irps)
      BY SingleTypes
  <1>2. pc[R] = "copy" /\ t < n
      BY DEF PopFront
  <1>3. /\ n <= t + Len(entries)
        /\ expected[R] = offset[b + n + 1] - offset[b + 1]
        /\ copied[R] = offset[b + t + 1] - offset[b + 1]
      BY <1>2 DEF Single, Snapshot
  <1>4. Len(entries) > 0
    <2> HIDE DEF t, n
    <2> QED BY <1>1, <1>2, <1>3
  <1>5. total # 0
      BY <1>1, <1>4 DEF Base, CountersAgree
  <1>6. entries # <<>> /\ Head(entries) \in Irps
      BY <1>1, <1>4, HeadTailProperties
  <1>7. /\ UNCHANGED <<pushed, offset, delivered, number, expected, copied, reply>>
        /\ entries' = Tail(entries) /\ pc'[R] = "popped"
        /\ taken'[R] = Append(taken[R], Head(entries))
      BY <1>5 DEF PopFront, Unlinked, Base, TypeOK
  <1>8. Len(taken'[R]) = t + 1 /\ Len(entries') = Len(entries) - 1
      BY <1>1, <1>6, <1>7, AppendProperties, HeadTailProperties
  <1>9. Offsets' /\ Clean(R)'
      BY <1>7 DEF Single, Offsets, Clean
  <1>10. InOrder(R)'
    <2>1. (delivered \o Append(taken[R], Head(entries))) \o Tail(entries) = pushed
        BY <1>1, <1>6, MoveHead DEF Single, InOrder
    <2> QED BY <1>7, <2>1 DEF InOrder
  <1>11. Snapshot(R)'
    <2>1. t + 1 <= n /\ n <= (t + 1) + (Len(entries) - 1) /\ b + (t + 1) = b + t + 1
      <3> HIDE DEF b, t, n
      <3> QED BY <1>1, <1>2, <1>3
    <2> QED BY <1>3, <1>7, <1>8, <2>1 DEF Snapshot
  <1> QED BY <1>9, <1>10, <1>11 DEF Single

(* ... and the IRP popped fits in what was measured for it.                 *)
LEMMA SingleCopy ==
  ASSUME Base, NEW R \in Readers, Single(R), PopCount(R)
  PROVE  Single(R)'
  <1> DEFINE b == Len(delivered)
             t == Len(taken[R])
             n == number[R]
             irp == taken[R][t]
  <1>1. /\ b \in Nat /\ t \in Nat /\ n \in Nat /\ Len(entries) \in Nat
        /\ taken[R] \in Seq(Irps) /\ copied[R] \in Nat /\ expected[R] \in Nat
        /\ \A i \in 1 .. Len(pushed) + 1 : offset[i] \in Nat
      BY SingleTypes
  <1>2. pc[R] = "popped" /\ t > 0
      BY SingleTypes DEF PopCount
  <1>3. /\ t <= n /\ n <= t + Len(entries)
        /\ expected[R] = offset[b + n + 1] - offset[b + 1]
        /\ copied[R] = offset[b + t] - offset[b + 1]
      BY <1>2 DEF Single, Snapshot
  <1>4. Len(pushed) = b + t + Len(entries) /\ pushed[b + t] = irp
    <2>1. t \in 1 .. Len(taken[R])
        BY <1>1, <1>2
    <2> QED BY <2>1, SingleParts
  <1>5. /\ b + t \in 1 .. Len(pushed) /\ b + t \in 1 .. Len(pushed) + 1
        /\ b + t + 1 \in 1 .. Len(pushed) + 1 /\ b + n + 1 \in 1 .. Len(pushed) + 1
        /\ b + 1 \in 1 .. Len(pushed) + 1 /\ b + t + 1 <= b + n + 1
    <2> HIDE DEF b, t, n
    <2> QED BY <1>1, <1>2, <1>3, <1>4
  <1>6. /\ offset[b + t + 1] = offset[b + t] + Size[irp]
        /\ offset[b + t + 1] <= offset[b + n + 1]
      BY <1>4, <1>5 DEF Single, Offsets
  <1>7. irp \in Irps /\ Size[irp] \in Nat
    <2>1. irp \in Irps
        BY <1>1, <1>2, ElementOfSeq
    <2> QED BY <2>1, SizeNat
  <1>8. /\ copied[R] + Size[irp] = offset[b + t + 1] - offset[b + 1]
        /\ copied[R] + Size[irp] <= expected[R]
    <2> DEFINE w == offset[b + 1]
               x == offset[b + t]
               y == offset[b + t + 1]
               z == offset[b + n + 1]
               k == Size[irp]
    <2>1. w \in Nat /\ x \in Nat /\ y \in Nat /\ z \in Nat /\ k \in Nat
        BY <1>1, <1>5, <1>7
    <2>2. y = x + k /\ y <= z /\ copied[R] = x - w /\ expected[R] = z - w
        BY <1>3, <1>6
    <2> SUFFICES copied[R] + k = y - w /\ copied[R] + k <= expected[R]
        OBVIOUS
    <2> HIDE DEF w, x, y, z, k
    <2> QED BY <2>1, <2>2
  <1>9. Fits(R, irp)
      BY <1>8 DEF Fits
  <1>10. /\ UNCHANGED <<pushed, offset, delivered, number, expected, entries, taken, reply>>
         /\ pc'[R] = "copy"
         /\ copied'[R] = copied[R] + Size[irp]
      BY <1>9 DEF PopCount, Base, TypeOK
  <1>11. Offsets' /\ InOrder(R)' /\ Clean(R)'
      BY <1>10 DEF Single, Offsets, InOrder, Clean
  <1>12. Snapshot(R)'
      BY <1>3, <1>8, <1>10 DEF Snapshot
  <1> QED BY <1>11, <1>12 DEF Single

(* The end of a read hands over exactly what it has taken.                  *)
LEMMA SingleDone ==
  ASSUME Base, NEW R \in Readers, Single(R), ReadDone(R)
  PROVE  Single(R)'
  <1>1. /\ delivered \in Seq(Irps) /\ taken[R] \in Seq(Irps)
      BY SingleTypes
  <1>2. /\ UNCHANGED <<pushed, offset, entries, number, expected>>
        /\ delivered' = delivered \o taken[R]
        /\ taken'[R] = <<>> /\ copied'[R] = 0 /\ pc'[R] = "idle"
        /\ reply'[R].status = "success"
      BY DEF ReadDone, Complete, queueVars, Base, TypeOK
  <1>3. Offsets' /\ Clean(R)'
      BY <1>2 DEF Single, Offsets, Clean
  <1>4. (delivered \o taken[R]) \o <<>> = delivered \o taken[R]
    <2>1. delivered \o taken[R] \in Seq(Irps)
        BY <1>1, ConcatProperties
    <2> QED BY <2>1, ConcatEmptySeq
  <1>5. InOrder(R)'
      BY <1>2, <1>4 DEF Single, InOrder
  <1>6. Snapshot(R)'
      BY <1>2 DEF Snapshot
  <1> QED BY <1>3, <1>5, <1>6 DEF Single
-----------------------------------------------------------------------------
LEMMA SingleStep ==
  ASSUME NEW R, Readers = {R}, Base, Single(R), [Next]_vars
  PROVE  Single(R)'
  <1>1. ASSUME NEW e \in Events, SetEvent(e) PROVE Single(R)'
      BY <1>1, SingleQuiet DEF SetEvent, readVars, histVars
  <1>2. ASSUME NEW p \in Producers, Produce(p) PROVE Single(R)'
    <2>1. CASE PushNotify(p)
        BY <2>1, SingleQuiet DEF PushNotify, readVars, histVars
    <2> QED BY <1>2, <2>1, SinglePush DEF Produce
  <1>3. ASSUME ReadStep(R) PROVE Single(R)'
      BY <1>3, SingleMeasure, SingleMeasured, SinglePop, SingleCopy, SingleDone DEF ReadStep
  <1>4. ASSUME NEW len \in Lengths, ReadRequest(R, len) PROVE Single(R)'
      BY <1>4, SingleRequest
  <1>5. CASE UNCHANGED vars
      BY <1>5, SingleQuiet DEF vars, queueVars, readVars, histVars
  <1> QED BY <1>1, <1>2, <1>3, <1>4, <1>5 DEF Next

(* DriverReadRoutine with one read at a time: whatever is captured while it *)
(* measures and copies, each captured IRP is in one batch, in order.        *)
THEOREM DeliveredInOrder ==
  ASSUME NEW R, Readers = {R}
  PROVE  Spec => []DeliveryInOrder
  <1>1. Base /\ Single(R) => DeliveryInOrder
      BY DEF Single, InOrder, DeliveryInOrder
  <1>2. Init => Single(R)
      BY SingleInit
  <1>3. Base /\ Single(R) /\ [Next]_vars => Single(R)'
      BY SingleStep
  <1> QED BY <1>1, <1>2, <1>3, BaseInit, BaseStep, PTL DEF Spec

(* ... and the copy meets neither an empty queue nor an IRP that is larger  *)
(* than what ForEach measured.                                              *)
THEOREM NoCopyFails ==
  ASSUME NEW R, Readers = {R}
  PROVE  Spec => []SnapshotHolds
  <1>1. Single(R) => SnapshotHolds
      BY DEF Single, Clean, SnapshotHolds
  <1>2. Init => Single(R)
      BY SingleInit
  <1>3. Base /\ Single(R) /\ [Next]_vars => Single(R)'
      BY SingleStep
  <1> QED BY <1>1, <1>2, <1>3, BaseInit, BaseStep, PTL DEF Spec
-----------------------------------------------------------------------------
(* The refinement of IrpChannel: a capture sends, the end of a read that    *)
(* has taken something receives, and no other step is seen.                 *)
LEMMA FrontOfHistory ==
  ASSUME NEW s \in Seq(Irps), NEW e \in Seq(Irps), s # <<>>
  PROVE  SubSeq(s \o e, 1, Len(s)) = s
  <1>1. 1 \in 1 .. Len(s) /\ Len(s) \in 1 .. Len(s)
      BY EmptySeq
  <1>2. SubSeq(s \o e, 1, Len(s)) = SubSeq(s, 1, Len(s))
      BY <1>1, SubSeqOfConcat1
  <1> QED BY <1>2, SubSeqFull

LEMMA DoneReceives ==
  ASSUME Base, NEW R \in Readers, Single(R), ReadDone(R), delivered' # delivered
  PROVE  \E n \in Len(delivered) + 1 .. Len(pushed) : Channel!ReceiveUpTo(n)
  <1> DEFINE next == delivered \o taken[R]
             n == Len(next)
  <1>1. /\ delivered \in Seq(Irps) /\ taken[R] \in Seq(Irps) /\ entries \in Seq(Irps)
        /\ Len(delivered) \in Nat /\ Len(taken[R]) \in Nat /\ Len(entries) \in Nat
      BY SingleTypes
  <1>2. delivered' = next /\ pushed' = pushed
      BY DEF ReadDone
  <1>3. next \in Seq(Irps) /\ n = Len(delivered) + Len(taken[R])
      BY <1>1, ConcatProperties
  <1>4. taken[R] # <<>>
      BY <1>1, <1>2, ConcatEmptySeq
  <1>5. Len(taken[R]) > 0
      BY <1>1, <1>4, EmptySeq
  <1>6. Len(pushed) = Len(delivered) + Len(taken[R]) + Len(entries)
      BY SingleParts
  <1>7. n \in Len(delivered) + 1 .. Len(pushed)
    <2> HIDE DEF n
    <2> QED BY <1>1, <1>3, <1>5, <1>6
  <1>8. next # <<>>
    <2>1. n > 0
        BY <1>1, <1>3, <1>5
    <2> QED BY <2>1
  <1>9. SubSeq(pushed, 1, n) = next
    <2>1. pushed = next \o entries
        BY DEF Single, InOrder
    <2> HIDE DEF next
    <2> QED BY <1>1, <1>3, <1>8, <2>1, FrontOfHistory
  <1>10. Channel!ReceiveUpTo(n)
      BY <1>2, <1>9 DEF Channel!ReceiveUpTo
  <1> QED BY <1>7, <1>10

LEMMA ChannelStep ==
  ASSUME NEW R, Readers = {R}, Base, Single(R), [Next]_vars
  PROVE  [Channel!Next]_<<pushed, delivered>>
  <1>1. ASSUME NEW p \in Producers, NEW irp \in Irps, PushBack(p, irp)
        PROVE  Channel!Send(irp)
      BY <1>1 DEF PushBack, Channel!Send, Range, Channel!Range
  <1>2. ASSUME ReadDone(R), delivered' # delivered PROVE Channel!Next
      BY <1>2, DoneReceives DEF Channel!Next
  <1>3. ASSUME ReadDone(R) PROVE pushed' = pushed
      BY <1>3 DEF ReadDone
  <1>4. ASSUME \/ \E e \in Events : SetEvent(e)
               \/ \E p \in Producers : PushNotify(p)
               \/ MeasureEntry(R) \/ MeasureDone(R) \/ PopFront(R) \/ PopCount(R)
               \/ \E len \in Lengths : ReadRequest(R, len)
               \/ UNCHANGED vars
        PROVE  UNCHANGED <<pushed, delivered>>
      BY <1>4 DEF SetEvent, PushNotify, MeasureEntry, MeasureDone, PopFront, PopCount,
                  ReadRequest, vars, histVars
  <1> QED BY <1>1, <1>2, <1>3, <1>4 DEF Next, Produce, ReadStep, Channel!Next

(* With one reader the queue is an in-order, exactly-once channel: Push and *)
(* Pop, the counters, the event and the buffers implement IrpChannel.       *)
THEOREM QueueIsChannel ==
  ASSUME NEW R, Readers = {R}
  PROVE  Spec => ImplementsChannel
  <1>1. Init => Channel!Init
      BY DEF Init, Channel!Init
  <1>2. Init => Single(R)
      BY SingleInit
  <1>3. Base /\ Single(R) /\ [Next]_vars => Single(R)'
      BY SingleStep
  <1>4. Base /\ Single(R) /\ [Next]_vars => [Channel!Next]_<<pushed, delivered>>
      BY ChannelStep
  <1> QED BY <1>1, <1>2, <1>3, <1>4, BaseInit, BaseStep, PTL
         DEF Spec, ImplementsChannel, Channel!Spec
=============================================================================
