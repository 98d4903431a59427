---------------------------- MODULE IrpDataProofs ----------------------------
(***************************************************************************)
(* What of the data of a request is captured, for every length of its      *)
(* buffers and every number of requests.                                   *)
(***************************************************************************)
EXTENDS IrpData, SequenceTheorems, TLAPS

(* What is kept of an input.                                                *)
InputOf(r) == Filled(IF SystemBuffer(r) # None THEN "sent" ELSE "zero", r.in)

(* The CapturedIrp under way, which WholeOrEmpty and SystemInputAsSent are  *)
(* about when it is queued.                                                 *)
UnderWay ==
    /\ pc \in {"new", "calling"} => request \in Requests
    /\ pc = "new" => major = "create" /\ input = <<>> /\ output = <<>>
    /\ pc = "calling" /\ asked =>
          /\ major = request.major
          /\ input = InputOf(request)
          /\ output = Filled("zero", request.out)
    /\ pc = "calling" /\ ~asked =>
          major = "create" /\ input = <<>> /\ output = <<>>

(* What is true of a queued IRP and of the request it was captured from.    *)
Whole(irp, from) ==
    LET r == from.request
        h == irp.header
    IN IF from.asked
       THEN <<h.major, h.in, h.out>> = <<r.major, r.in, r.out>>
       ELSE <<h.major, h.in, h.out>> = <<"create", 0, 0>>

AsSent(irp, from) == from.asked => irp.in = InputOf(from.request)

Queued ==
    /\ \E S : queue \in Seq(S)
    /\ \E S : requests \in Seq(S)
    /\ Len(queue) = Len(requests)
    /\ \A k \in 1 .. Len(queue) : Whole(queue[k], requests[k]) /\ AsSent(queue[k], requests[k])

DataInv == UnderWay /\ Queued
-----------------------------------------------------------------------------
(* A buffer has the length it was filled to, a copy that of its buffer.     *)
LEMMA FilledLength ==
    ASSUME NEW o, NEW n \in Nat
    PROVE  Filled(o, n) \in Seq({o}) /\ Len(Filled(o, n)) = n
BY DEF Filled

LEMMA CopiedLength ==
    ASSUME NEW S, NEW source, NEW buffer \in Seq(S)
    PROVE  Len(Copied(source, buffer)) = Len(buffer)
<1>1. CASE source = None
  BY <1>1 DEF Copied
<1>2. CASE source # None
  <2>1. Copied(source, buffer)
          = [i \in 1 .. Len(buffer) |-> IF i <= Len(source) THEN source[i] ELSE "other"]
    BY <1>2 DEF Copied
  <2>2. Len(buffer) \in Nat
    OBVIOUS
  <2> QED
    BY <2>1, <2>2
<1> QED
  BY <1>1, <1>2

(* What the code copies is the system buffer, if there is one.              *)
LEMMA CopiedInput ==
    ASSUME NEW r \in Requests
    PROVE  Copied(Source(r), Allocated(r.in)) = InputOf(r)
<1>1. r.in \in Nat
  BY DataAssumption DEF Requests
<1>2. Source(r) = SystemBuffer(r)
  BY DEF Source, Method
<1>3. CASE SystemBuffer(r) = None
  BY <1>2, <1>3 DEF Copied, Allocated, InputOf
<1>4. CASE SystemBuffer(r) # None
  <2>1. SystemBuffer(r) = Filled("sent", r.in)
    BY <1>4 DEF SystemBuffer
  <2>2. Len(Allocated(r.in)) = r.in /\ Len(SystemBuffer(r)) = r.in
    BY <1>1, <2>1, FilledLength DEF Allocated
  <2>3. Copied(Source(r), Allocated(r.in)) =
          [i \in 1 .. r.in |-> IF i <= r.in THEN SystemBuffer(r)[i] ELSE "other"]
    BY <1>2, <1>4, <2>2 DEF Copied
  <2>4. \A i \in 1 .. r.in : SystemBuffer(r)[i] = "sent" /\ i <= r.in
    BY <2>1, <1>1 DEF Filled
  <2> QED
    BY <2>3, <2>4, <1>4 DEF InputOf, Filled
<1> QED
  BY <1>3, <1>4

(* What comes back is as long as the buffer that was allocated for it.      *)
LEMMA PostLength ==
    ASSUME UnderWay, pc = "calling", NEW o \in PostCallData
    PROVE  Len(o) = IF asked THEN request.out ELSE 0
<1>1. request \in Requests /\ request.out \in Nat
  BY DataAssumption DEF UnderWay, Requests
<1>2. CASE ~asked
  BY <1>2 DEF UnderWay, PostCallData, OutputBuffer
<1>3. CASE asked
  <2>1. output = Filled("zero", request.out)
    BY <1>3 DEF UnderWay
  <2>2. output \in Seq({"zero"}) /\ Len(output) = request.out
    BY <1>1, <2>1, FilledLength
  <2>3. CASE o = output
    BY <1>3, <2>2, <2>3
  <2>4. CASE o \in ReadBack(request, output)
    <3>1. CASE \E source : o = Shifted(request, source)
      BY <1>1, <1>3, <3>1 DEF Shifted
    <3>2. CASE \E source : o = Copied(source, output)
      BY <1>3, <2>2, <3>2, CopiedLength
    <3> QED
      BY <2>4, <3>1, <3>2 DEF ReadBack
  <2> QED
    BY <2>3, <2>4 DEF PostCallData, OutputBuffer
<1> QED
  BY <1>2, <1>3
-----------------------------------------------------------------------------
LEMMA DataInvInit == DataInit => DataInv
<1> SUFFICES ASSUME DataInit PROVE DataInv
  OBVIOUS
<1>2. UnderWay
  BY DEF DataInit, UnderWay
<1>3. queue \in Seq({}) /\ requests \in Seq({}) /\ Len(queue) = 0 /\ Len(requests) = 0
  BY DEF DataInit
<1>4. Queued
  BY <1>3 DEF Queued
<1> QED
  BY <1>2, <1>4 DEF DataInv

LEMMA UnderWayStep == UnderWay /\ [DataNext]_vars => UnderWay'
<1> SUFFICES ASSUME UnderWay, [DataNext]_vars PROVE UnderWay'
  OBVIOUS
<1> USE DEF UnderWay
<1>1. CASE Toggle
  BY <1>1 DEF Toggle, driverVars
<1>2. CASE Intercept
  BY <1>2 DEF Intercept
<1>3. CASE CapturePreCallData
  <2>1. request \in Requests /\ asked' = capturing /\ request' = request /\ pc' = "calling"
    BY <1>3 DEF CapturePreCallData
  <2>2. CASE capturing
    <3>1. /\ major' = request.major
          /\ input' = InputOf(request)
          /\ output' = Filled("zero", request.out)
      BY <1>3, <2>1, <2>2, CopiedInput DEF CapturePreCallData, Allocated
    <3>2. InputOf(request)' = InputOf(request)
      BY <2>1 DEF InputOf, SystemBuffer
    <3>3. asked' = TRUE
      BY <2>1, <2>2, Zenon
    <3> QED
      BY <2>1, <3>1, <3>2, <3>3
  <2>3. CASE ~capturing
    <3>1. ~asked'
      BY <2>1, <2>3, Zenon
    <3> QED
      BY <1>3, <2>1, <2>3, <3>1 DEF CapturePreCallData
  <2> QED
    BY <2>2, <2>3
<1>4. CASE CapturePostCallData
  BY <1>4 DEF CapturePostCallData
<1>5. CASE DriverRead
  BY <1>5 DEF DriverRead, driverVars
<1>6. CASE GetNextIrps \/ ThroughJson
  BY <1>6 DEF GetNextIrps, ThroughJson, driverVars
<1>7. CASE UNCHANGED vars
  BY <1>7 DEF vars, driverVars
<1> QED
  BY <1>1, <1>2, <1>3, <1>4, <1>5, <1>6, <1>7 DEF DataNext

LEMMA QueuedStep == DataInv /\ [DataNext]_vars => Queued'
<1> SUFFICES ASSUME DataInv, [DataNext]_vars PROVE Queued'
  OBVIOUS
<1> USE DEF DataInv
<1>1. ASSUME UNCHANGED <<queue, requests>> PROVE Queued'
  BY <1>1 DEF Queued, Whole, AsSent, InputOf, SystemBuffer
<1>2. ASSUME CapturePostCallData, capturing PROVE Queued'
  <2>1. PICK o \in PostCallData :
           /\ queue' = Append(queue, [header |-> Header(request, major, InputBuffer, o),
                                      in |-> InputBuffer, out |-> o])
           /\ requests' = Append(requests, [request |-> request, asked |-> asked])
    BY <1>2 DEF CapturePostCallData
  <2> DEFINE irp == [header |-> Header(request, major, InputBuffer, o), in |-> InputBuffer, out |-> o]
             from == [request |-> request, asked |-> asked]
  <2>2. pc = "calling" /\ request \in Requests /\ request.in \in Nat
    BY <1>2, DataAssumption DEF CapturePostCallData, UnderWay, Requests
  <2>3. Len(o) = IF asked THEN request.out ELSE 0
    BY <2>2, PostLength
  <2>4. Whole(irp, from)
    <3>1. CASE asked
      <4>1. Len(input) = request.in
        BY <2>2, <3>1, FilledLength DEF UnderWay, InputOf
      <4> QED
        BY <2>2, <2>3, <3>1, <4>1 DEF UnderWay, Whole, Header, InputBuffer
    <3>2. CASE ~asked
      BY <2>2, <2>3, <3>2 DEF UnderWay, Whole, Header, InputBuffer
    <3> QED
      BY <3>1, <3>2
  <2>5. AsSent(irp, from)
    BY <2>2 DEF UnderWay, AsSent, InputBuffer
  <2>6. PICK S : queue \in Seq(S)
    BY DEF Queued
  <2>7. PICK T : requests \in Seq(T)
    BY DEF Queued
  <2>8. /\ queue' \in Seq(S \cup {irp})
        /\ requests' \in Seq(T \cup {from})
        /\ Len(queue') = Len(queue) + 1
        /\ Len(requests') = Len(requests) + 1
    BY <2>1, <2>6, <2>7
  <2>9. ASSUME NEW k \in 1 .. Len(queue')
        PROVE  Whole(queue'[k], requests'[k]) /\ AsSent(queue'[k], requests'[k])
    <3>1. CASE k = Len(queue')
      <4>1. queue'[k] = irp /\ requests'[k] = from
        BY <2>1, <2>6, <2>7, <2>8, <3>1 DEF Queued
      <4> QED
        BY <2>4, <2>5, <4>1
    <3>2. CASE k # Len(queue')
      <4>1. k \in 1 .. Len(queue)
        BY <2>6, <2>8, <3>2
      <4>2. queue'[k] = queue[k] /\ requests'[k] = requests[k]
        BY <2>1, <2>6, <2>7, <4>1 DEF Queued
      <4> QED
        BY <4>1, <4>2 DEF Queued
    <3> QED
      BY <3>1, <3>2
  <2> HIDE DEF irp, from
  <2>10. Len(queue') = Len(requests')
    BY <2>8 DEF Queued
  <2> QED
    BY <2>8, <2>9, <2>10 DEF Queued, Whole, AsSent, InputOf, SystemBuffer
<1> QED
  BY <1>1, <1>2 DEF DataNext, Toggle, Intercept, CapturePreCallData,
     CapturePostCallData, DriverRead, GetNextIrps, ThroughJson, vars
-----------------------------------------------------------------------------
(* Every IRP in the queue whose input was in a system buffer has it as the  *)
(* requester sent it, whatever the original routine wrote there since.      *)
THEOREM SystemInputsAsSent == DataSpec => []SystemInputAsSent
<1>1. DataInv => SystemInputAsSent
  BY DEF DataInv, Queued, AsSent, InputOf, SystemInputAsSent
<1>2. DataInv /\ [DataNext]_vars => DataInv'
  BY UnderWayStep, QueuedStep DEF DataInv
<1> QED
  BY <1>1, <1>2, DataInvInit, PTL DEF DataSpec

(* Every IRP in the queue was captured as a whole, or not at all, however   *)
(* capturing is enabled and disabled around the original routine.           *)
THEOREM QueuedWholeOrEmpty == DataSpec => []WholeOrEmpty
<1>1. DataInv => WholeOrEmpty
  BY DEF DataInv, Queued, Whole, WholeOrEmpty
<1>2. DataInv /\ [DataNext]_vars => DataInv'
  BY UnderWayStep, QueuedStep DEF DataInv
<1> QED
  BY <1>1, <1>2, DataInvInit, PTL DEF DataSpec
-----------------------------------------------------------------------------
(* An IRP that says how long its buffers are.                               *)
Headers == [major : {"control", "read", "write", "create"}, in : Nat, out : Nat,
            name : 0 .. MaxPath]
Bytes == Headers \cup Origins
Irps == {irp \in [header : Headers, in : Seq(Origins), out : Seq(Origins)] :
            irp.header.in = Len(irp.in) /\ irp.header.out = Len(irp.out)}

(* Where an IRP lies in a stream.                                           *)
LiesAt(s, from, h, in, out) ==
    /\ s[from + 1] = h
    /\ SubSeq(s, from + 2, from + 1 + Len(in)) = in
    /\ SubSeq(s, from + 2 + Len(in), from + 1 + Len(in) + Len(out)) = out

Lies(s, from, irp) == LiesAt(s, from, irp.header, irp.in, irp.out)

(* What lies behind the other is one sequence, and each lies where it was   *)
(* put.                                                                     *)
LEMMA Behind ==
    ASSUME NEW S, NEW s \in Seq(S), NEW r \in Seq(S), NEW t, t = s \o r,
           NEW m \in Nat, m = Len(s), NEW n \in Nat, n = Len(r)
    PROVE  /\ t \in Seq(S) /\ Len(t) = m + n
           /\ \A i \in 1 .. m : t[i] = s[i]
           /\ \A i \in 1 .. n : t[m + i] = r[i]
<1>1. /\ t \in Seq(S) /\ Len(t) = m + n
      /\ \A i \in 1 .. m : t[i] = s[i]
  OBVIOUS
<1>2. \A i \in 1 .. n : t[m + i] = r[i]
  <2> TAKE i \in 1 .. n
  <2>1. m + i \in 1 .. Len(s) + Len(r) /\ ~(m + i <= Len(s)) /\ (m + i) - Len(s) = i
    OBVIOUS
  <2> QED
    BY <2>1
<1> QED
  BY <1>1, <1>2

LEMMA PartIs ==
    ASSUME NEW S, NEW t \in Seq(S), NEW r \in Seq(S), NEW m \in Nat, NEW n \in Nat,
           n = Len(r), m + n <= Len(t), \A i \in 1 .. n : t[m + i] = r[i]
    PROVE  SubSeq(t, m + 1, m + n) = r
<1>1. PICK u : u = SubSeq(t, m + 1, m + n)
  OBVIOUS
<1>2. u \in Seq(S) /\ Len(u) = n
  <2>1. m + 1 \in Int /\ m + n \in Int /\ (m + n) - (m + 1) + 1 = n
    OBVIOUS
  <2> QED
    <3>1. m + 1 \in 1 .. Len(t) + 1 /\ m + n \in m .. Len(t)
      OBVIOUS
    <3>2. u \in Seq(S)
      BY <1>1, <3>1, SubSeqProperties
    <3>3. Len(u) = n
      BY <1>1, <2>1, <3>1, SubSeqProperties
    <3> QED
      BY <3>2, <3>3
<1>3. \A i \in 1 .. n : u[i] = t[m + i]
  BY <1>1
<1> QED
  BY <1>1, <1>2, <1>3, SeqEqual

(* Names for the parts of an equation, which the lemmas are matched by.    *)
Joined(t, s, h, in, out) == t = s \o ((<<h>> \o in) \o out)
LengthIs(s, m) == m = Len(s)

LEMMA ThreeBehind ==
    ASSUME NEW S, NEW s \in Seq(S), NEW h \in S, NEW in \in Seq(S), NEW out \in Seq(S),
           NEW t, Joined(t, s, h, in, out), NEW m \in Nat, LengthIs(s, m)
    PROVE  /\ t \in Seq(S) /\ Len(t) = m + 1 + Len(in) + Len(out)
           /\ \A i \in 1 .. m : t[i] = s[i]
           /\ LiesAt(t, m, h, in, out)
<1>0. /\ Len(s) \in Nat /\ Len(in) \in Nat /\ Len(out) \in Nat
      /\ m = Len(s) /\ t = s \o ((<<h>> \o in) \o out)
  BY DEF LengthIs, Joined
<1> PICK a \in Nat : a = Len(in)
  BY <1>0
<1> PICK b \in Nat : b = Len(out)
  BY <1>0
<1>1. PICK u : u = <<h>> \o in
  OBVIOUS
<1>2. <<h>> \in Seq(S) /\ Len(<<h>>) = 1 /\ <<h>>[1] = h
  OBVIOUS
<1>3. u \in Seq(S) /\ Len(u) = 1 + a /\ u[1] = h /\ \A i \in 1 .. a : u[1 + i] = in[i]
  <2>1. /\ u \in Seq(S) /\ Len(u) = 1 + a
        /\ \A i \in 1 .. 1 : u[i] = <<h>>[i]
        /\ \A i \in 1 .. a : u[1 + i] = in[i]
    BY <1>1, <1>2, Behind
  <2> QED
    BY <1>2, <2>1
<1>4. PICK v : v = u \o out
  OBVIOUS
<1>5. /\ v \in Seq(S) /\ Len(v) = 1 + a + b
      /\ \A i \in 1 .. 1 + a : v[i] = u[i]
      /\ \A i \in 1 .. b : v[1 + a + i] = out[i]
  <2>1. PICK p \in Nat : p = 1 + a
    OBVIOUS
  <2>2. p = Len(u) /\ u \in Seq(S)
    BY <1>3, <2>1
  <2>3. /\ v \in Seq(S) /\ Len(v) = p + b
        /\ \A i \in 1 .. p : v[i] = u[i]
        /\ \A i \in 1 .. b : v[p + i] = out[i]
    BY <1>4, <2>2, Behind
  <2> QED
    BY <2>1, <2>3
<1>6. /\ t \in Seq(S) /\ Len(t) = m + (1 + a + b)
      /\ \A i \in 1 .. m : t[i] = s[i]
      /\ \A i \in 1 .. 1 + a + b : t[m + i] = v[i]
  <2>1. PICK p \in Nat : p = 1 + a + b
    OBVIOUS
  <2>2. p = Len(v) /\ m = Len(s) /\ t = s \o v /\ v \in Seq(S)
    BY <1>0, <1>1, <1>4, <1>5, <2>1
  <2>3. /\ t \in Seq(S) /\ Len(t) = m + p
        /\ \A i \in 1 .. m : t[i] = s[i]
        /\ \A i \in 1 .. p : t[m + i] = v[i]
    BY <2>2, Behind
  <2> QED
    BY <2>1, <2>3
<1>7. t[m + 1] = h
  <2>1. 1 \in 1 .. 1 + a + b /\ 1 \in 1 .. 1 + a
    OBVIOUS
  <2> QED
    BY <1>3, <1>5, <1>6, <2>1
<1>8. \A i \in 1 .. a : t[(m + 1) + i] = in[i]
  <2> TAKE i \in 1 .. a
  <2>1. 1 + i \in 1 .. 1 + a + b /\ 1 + i \in 1 .. 1 + a /\ m + (1 + i) = (m + 1) + i
    OBVIOUS
  <2> QED
    BY <1>3, <1>5, <1>6, <2>1
<1>9. \A i \in 1 .. b : t[(m + 1 + a) + i] = out[i]
  <2> TAKE i \in 1 .. b
  <2>1. 1 + a + i \in 1 .. 1 + a + b /\ m + (1 + a + i) = (m + 1 + a) + i
    OBVIOUS
  <2> QED
    BY <1>5, <1>6, <2>1
<1>10. SubSeq(t, (m + 1) + 1, (m + 1) + a) = in
  <2>1. m + 1 \in Nat /\ (m + 1) + a <= Len(t)
    BY <1>6
  <2> QED
    BY <1>6, <1>8, <2>1, PartIs
<1>11. SubSeq(t, (m + 1 + a) + 1, (m + 1 + a) + b) = out
  <2>1. m + 1 + a \in Nat /\ (m + 1 + a) + b <= Len(t)
    BY <1>6
  <2> QED
    BY <1>6, <1>9, <2>1, PartIs
<1>12. (m + 1) + 1 = m + 2 /\ (m + 1 + a) + 1 = m + 2 + a /\ m + (1 + a + b) = m + 1 + a + b
  OBVIOUS
<1> QED
  BY <1>6, <1>7, <1>10, <1>11, <1>12 DEF LiesAt

Parts(irp, h, in, out) == h = irp.header /\ in = irp.in /\ out = irp.out
Extended(t, s, irp) == t = s \o Laid(irp)

LEMMA LaidBehind ==
    ASSUME NEW S, NEW s \in Seq(S), NEW irp, NEW h \in S, NEW in \in Seq(S), NEW out \in Seq(S),
           Parts(irp, h, in, out),
           NEW t, Extended(t, s, irp), NEW m \in Nat, LengthIs(s, m)
    PROVE  /\ t \in Seq(S) /\ Len(t) = m + 1 + Len(in) + Len(out)
           /\ \A i \in 1 .. m : t[i] = s[i]
           /\ Lies(t, m, irp)
<1>1. Joined(t, s, h, in, out)
  BY DEF Laid, Joined, Parts, Extended
<1>2. /\ t \in Seq(S) /\ Len(t) = m + 1 + Len(in) + Len(out)
      /\ \A i \in 1 .. m : t[i] = s[i]
      /\ LiesAt(t, m, h, in, out)
  BY <1>1, ThreeBehind
<1>3. LiesAt(t, m, irp.header, irp.in, irp.out)
  BY <1>2 DEF Parts
<1> QED
  BY <1>2, <1>3 DEF Lies

LEMMA Wider ==
    ASSUME NEW S, NEW T, S \subseteq T, NEW s \in Seq(S)
    PROVE  s \in Seq(T)
OBVIOUS

LEMMA PartKept ==
    ASSUME NEW S, NEW s \in Seq(S), NEW t \in Seq(S), Len(s) <= Len(t),
           \A i \in 1 .. Len(s) : t[i] = s[i],
           NEW i \in 1 .. Len(s) + 1, NEW j \in 0 .. Len(s)
    PROVE  SubSeq(t, i, j) = SubSeq(s, i, j)
<1>1. /\ SubSeq(s, i, j) \in Seq(S) /\ SubSeq(t, i, j) \in Seq(S)
      /\ Len(SubSeq(s, i, j)) = Len(SubSeq(t, i, j))
  OBVIOUS
<1>2. \A k \in 1 .. Len(SubSeq(s, i, j)) : SubSeq(t, i, j)[k] = SubSeq(s, i, j)[k]
  OBVIOUS
<1> QED
  BY <1>1, <1>2, SeqEqual

(* Where each IRP that was copied lies in the stream, between at[k - 1] and *)
(* at[k].                                                                   *)
Placed(at) ==
    /\ at \in [0 .. popped -> 0 .. Len(stream)]
    /\ at[0] = 0 /\ at[popped] = Len(stream)
    /\ \A k \in 1 .. popped :
          /\ at[k] = at[k - 1] + 1 + Len(queue[k].in) + Len(queue[k].out)
          /\ Lies(stream, at[k - 1], queue[k])

(* How far the reader is: it has the first IRPs, and goes on where the next *)
(* one lies.                                                                *)
Follows(at) ==
    /\ Len(irps) <= popped
    /\ offset = at[Len(irps)]
    /\ \A k \in 1 .. Len(irps) : irps[k] = queue[k]

ReadInv ==
    /\ pc \in {"idle", "new", "calling", "read", "got"}
    /\ queue \in Seq(Irps)
    /\ stream \in Seq(Bytes)
    /\ irps \in Seq(Irps)
    /\ popped \in 0 .. Len(queue)
    /\ pc \in {"idle", "new", "calling"} => irps = <<>> /\ offset = 0
    /\ pc \in {"read", "got"} => popped = Len(queue)
    /\ \E at : Placed(at) /\ (pc = "read" => Follows(at))
    /\ pc = "got" => irps = [k \in 1 .. Len(queue) |-> FromJson(queue[k])]

(* What is captured has the lengths that its header says.                   *)
LEMMA CapturedTyped ==
    ASSUME UnderWay, pc = "calling", NEW o \in PostCallData
    PROVE  [header |-> Header(request, major, InputBuffer, o), in |-> InputBuffer, out |-> o] \in Irps
<1>1. /\ request \in Requests
      /\ request.in \in Nat /\ request.out \in Nat /\ request.page \in 0 .. 1
      /\ request.name \in 1 .. MaxPath
      /\ request.major \in {"control", "read", "write", "create"}
  BY DataAssumption DEF UnderWay, Requests
<1>2. \A x \in Origins : \A n \in Nat : Filled(x, n) \in Seq(Origins)
  BY DEF Filled
<1>3. input \in Seq(Origins) /\ output \in Seq(Origins)
  <2>1. CASE asked
    <3>1. input = InputOf(request) /\ output = Filled("zero", request.out)
      BY <2>1 DEF UnderWay
    <3>2. "zero" \in Origins /\ "sent" \in Origins
      BY DEF Origins
    <3> QED
      BY <1>1, <1>2, <3>1, <3>2 DEF InputOf
  <2>2. CASE ~asked
    BY <2>2 DEF UnderWay
  <2> QED
    BY <2>1, <2>2
<1>4. o \in Seq(Origins)
  <2>1. CASE \E x \in Origins : o = Shifted(request, Filled(x, request.out))
    <3>1. PICK x \in Origins : o = Shifted(request, Filled(x, request.out))
      BY <2>1
    <3>2. o = [i \in 1 .. request.out |->
                 IF i <= request.page THEN "zero" ELSE Filled(x, request.out)[i - request.page]]
      BY <3>1 DEF Shifted
    <3>3. \A i \in 1 .. request.out : i > request.page =>
             Filled(x, request.out)[i - request.page] = x
      <4> TAKE i \in 1 .. request.out
      <4>1. i > request.page => i - request.page \in 1 .. request.out
        BY <1>1
      <4> QED
        BY <4>1 DEF Filled
    <3>4. o \in [1 .. request.out -> Origins]
      <4>1. \A i \in 1 .. request.out : ~(i <= request.page) => i > request.page
        BY <1>1
      <4> QED
        BY <3>2, <3>3, <4>1 DEF Origins
    <3> QED
      BY <1>1, <3>4
  <2>2. CASE \E u \in UserBuffer(request) : o = Copied(u, output)
    <3>1. PICK u \in UserBuffer(request) : o = Copied(u, output)
      BY <2>2
    <3>2. CASE u = None
      BY <1>3, <3>1, <3>2 DEF Copied
    <3>3. CASE u # None
      <4>1. PICK x \in Origins : u = Filled(x, request.out)
        BY <3>1, <3>3 DEF UserBuffer, Origins
      <4>2. Len(u) = request.out /\ \A i \in 1 .. request.out : u[i] = x
        BY <1>1, <4>1 DEF Filled
      <4>3. o = [i \in 1 .. Len(output) |-> IF i <= request.out THEN u[i] ELSE "other"]
        BY <3>1, <3>3, <4>2 DEF Copied
      <4>4. \A i \in 1 .. Len(output) : i <= request.out => u[i] = x
        BY <1>1, <1>3, <4>2
      <4>5. o \in [1 .. Len(output) -> Origins]
        BY <4>3, <4>4 DEF Origins
      <4> QED
        BY <1>3, <4>5
    <3> QED
      BY <3>2, <3>3
  <2> QED
    BY <1>3, <2>1, <2>2 DEF PostCallData, OutputBuffer, ReadBack, Origins
<1>5. major \in {"control", "read", "write", "create"}
  BY <1>1 DEF UnderWay
<1> QED
  BY <1>1, <1>3, <1>4, <1>5 DEF Irps, Headers, Header, InputBuffer

LEMMA IrpParts ==
    ASSUME NEW irp \in Irps
    PROVE  /\ irp = [header |-> irp.header, in |-> irp.in, out |-> irp.out]
           /\ irp.header \in Headers /\ irp.in \in Seq(Origins) /\ irp.out \in Seq(Origins)
           /\ irp.header.in = Len(irp.in) /\ irp.header.out = Len(irp.out)
           /\ Len(irp.in) \in Nat /\ Len(irp.out) \in Nat
BY DEF Irps

(* The next IRP lies behind the others, which stay where they are.          *)
LEMMA DriverReadPlaces ==
    ASSUME ReadInv, DriverRead, NEW at, Placed(at)
    PROVE  \E next : Placed(next)' /\ next[0] = 0 /\ stream' \in Seq(Bytes)
<1>1. /\ popped < Len(queue) /\ popped' = popped + 1 /\ queue' = queue
      /\ stream' = stream \o Laid(queue[popped + 1])
  BY DEF DriverRead
<1>2. PICK irp \in Irps : irp = queue[popped + 1]
  <2>1. popped + 1 \in 1 .. Len(queue)
    BY <1>1 DEF ReadInv
  <2> QED
    BY <2>1 DEF ReadInv
<1>3. PICK a \in Nat : a = Len(irp.in)
  BY IrpParts
<1>4. PICK b \in Nat : b = Len(irp.out)
  BY IrpParts
<1>5. PICK m \in Nat : m = Len(stream)
  BY DEF ReadInv
<1>6. /\ stream' \in Seq(Bytes) /\ Len(stream') = m + 1 + a + b
      /\ \A i \in 1 .. m : stream'[i] = stream[i]
      /\ Lies(stream', m, irp)
  <2>1. stream' = stream \o Laid(irp)
    BY <1>1, <1>2
  <2>2. stream \in Seq(Bytes)
    BY DEF ReadInv
  <2>3. irp.header \in Bytes /\ irp.in \in Seq(Bytes) /\ irp.out \in Seq(Bytes)
    <3>1. Origins \subseteq Bytes /\ Headers \subseteq Bytes
      BY DEF Bytes
    <3> QED
      BY <3>1, IrpParts, Wider
  <2>4. PICK h \in Bytes, in \in Seq(Bytes), out \in Seq(Bytes) :
           h = irp.header /\ in = irp.in /\ out = irp.out
    BY <2>3
  <2>7. PICK s \in Seq(Bytes) : s = stream
    BY <2>2
  <2>10. PICK t : t = stream'
    OBVIOUS
  <2>8. Extended(t, s, irp) /\ LengthIs(s, m) /\ Parts(irp, h, in, out)
    BY <1>5, <2>1, <2>4, <2>7, <2>10 DEF Extended, LengthIs, Parts
  <2>9. /\ t \in Seq(Bytes) /\ Len(t) = m + 1 + Len(in) + Len(out)
        /\ \A i \in 1 .. m : t[i] = s[i]
        /\ Lies(t, m, irp)
    BY <2>8, LaidBehind
  <2>5. /\ stream' \in Seq(Bytes) /\ Len(stream') = m + 1 + Len(in) + Len(out)
        /\ \A i \in 1 .. m : stream'[i] = stream[i]
        /\ Lies(stream', m, irp)
    BY <2>7, <2>9, <2>10
  <2>6. Len(in) = a /\ Len(out) = b
    BY <1>3, <1>4, <2>4
  <2> QED
    BY <2>5, <2>6
<1>7. popped \in Nat
  BY DEF ReadInv
<1>11. PICK next :
          next = [k \in 0 .. popped + 1 |-> IF k <= popped THEN at[k] ELSE m + 1 + a + b]
  OBVIOUS
<1>8. /\ next \in [0 .. popped' -> 0 .. Len(stream')]
      /\ \A k \in 0 .. popped : next[k] = at[k]
      /\ next[popped + 1] = m + 1 + a + b
  BY <1>1, <1>5, <1>6, <1>7, <1>11 DEF Placed
<1>9. ASSUME NEW k \in 1 .. popped'
      PROVE  /\ next[k] = next[k - 1] + 1 + Len(queue[k].in) + Len(queue[k].out)
             /\ Lies(stream', next[k - 1], queue[k])
  <2>1. CASE k = popped + 1
    <3>1. k - 1 = popped /\ k - 1 \in 0 .. popped /\ queue[k] = irp
      BY <1>2, <1>7, <2>1
    <3>2. next[k - 1] = m
      BY <1>5, <1>8, <3>1 DEF Placed
    <3>3. next[k] = m + 1 + a + b
      BY <1>8, <2>1
    <3> QED
      BY <1>3, <1>4, <1>6, <3>1, <3>2, <3>3
  <2>2. CASE k # popped + 1
    <3>1. k \in 1 .. popped /\ k \in 0 .. popped /\ k - 1 \in 0 .. popped
      BY <1>1, <1>7, <2>2
    <3>2. next[k] = at[k] /\ next[k - 1] = at[k - 1]
      BY <1>8, <3>1
    <3>3. PICK c \in Irps : c = queue[k]
      BY <1>1, <3>1 DEF ReadInv
    <3>4. PICK from \in 0 .. m : from = at[k - 1]
      BY <1>5, <3>1 DEF Placed
    <3>5. /\ at[k] = from + 1 + Len(c.in) + Len(c.out) /\ at[k] \in 0 .. m
          /\ Lies(stream, from, c)
      BY <1>5, <3>1, <3>3, <3>4 DEF Placed
    <3>6. PICK d \in Nat : d = Len(c.in)
      BY <3>3, IrpParts
    <3>7. PICK e \in Nat : e = Len(c.out)
      BY <3>3, IrpParts
    <3>8. from + 1 + d + e <= m
      <4>1. from + 1 + d + e \in 0 .. m
        BY <3>5, <3>6, <3>7, Zenon
      <4> QED
        BY <4>1
    <3>9. /\ SubSeq(stream', from + 2, from + 1 + d) = SubSeq(stream, from + 2, from + 1 + d)
          /\ SubSeq(stream', from + 2 + d, from + 1 + d + e)
                = SubSeq(stream, from + 2 + d, from + 1 + d + e)
          /\ stream'[from + 1] = stream[from + 1]
      <4>1. /\ from + 2 \in 1 .. m + 1 /\ from + 1 + d \in 0 .. m
            /\ from + 2 + d \in 1 .. m + 1 /\ from + 1 + d + e \in 0 .. m
            /\ from + 1 \in 1 .. m
        BY <3>8
      <4>2. /\ stream \in Seq(Bytes) /\ stream' \in Seq(Bytes) /\ Len(stream) <= Len(stream')
            /\ \A i \in 1 .. Len(stream) : stream'[i] = stream[i]
        BY <1>5, <1>6 DEF ReadInv
      <4> QED
        BY <1>5, <1>6, <4>1, <4>2, PartKept
    <3>10. Lies(stream', from, c)
      BY <3>5, <3>6, <3>7, <3>9 DEF Lies, LiesAt
    <3> QED
      BY <3>2, <3>3, <3>4, <3>5, <3>10
  <2> QED
    BY <2>1, <2>2
<1>10. next[0] = 0 /\ next[popped'] = Len(stream')
  <2>1. 0 \in 0 .. popped
    BY <1>7
  <2> QED
    BY <1>1, <1>6, <1>8, <2>1 DEF Placed
<1>12. Placed(next)'
  BY <1>1, <1>8, <1>9, <1>10 DEF Placed
<1> QED
  BY <1>6, <1>10, <1>12

(* The reader finds the next IRP where it was put.                          *)
LEMMA GetNextIrpsFollows ==
    ASSUME ReadInv, GetNextIrps, NEW at, Placed(at), Follows(at)
    PROVE  irps' \in Seq(Irps) /\ Follows(at)'
<1>1. /\ pc = "read" /\ offset < Len(stream) /\ UNCHANGED <<popped, queue, stream>>
      /\ popped = Len(queue) /\ irps \in Seq(Irps) /\ stream \in Seq(Bytes)
  BY DEF GetNextIrps, ReadInv
<1>2. PICK n \in Nat : n = Len(irps)
  BY <1>1
<1>3. n <= popped /\ popped \in Nat /\ offset = at[n]
  BY <1>1, <1>2 DEF Follows, ReadInv
<1>4. n + 1 \in 1 .. popped /\ (n + 1) - 1 = n
  <2>1. n # popped
    BY <1>1, <1>3 DEF Placed
  <2> QED
    BY <1>3, <2>1
<1>5. PICK irp \in Irps : irp = queue[n + 1]
  BY <1>1, <1>4 DEF ReadInv
<1>6. PICK a \in Nat : a = Len(irp.in)
  BY IrpParts
<1>7. PICK b \in Nat : b = Len(irp.out)
  BY IrpParts
<1>8. PICK m \in Nat : m = Len(stream)
  BY <1>1
<1>9. offset \in 0 .. m /\ at[n + 1] = offset + 1 + a + b /\ offset + 1 + a + b <= m
      /\ Lies(stream, offset, irp)
  <2>1. n \in 0 .. popped /\ n + 1 \in 0 .. popped
    BY <1>3, <1>4
  <2>2. at[n] \in 0 .. m /\ at[n + 1] \in 0 .. m
    BY <1>8, <2>1 DEF Placed
  <2>3. at[n + 1] = at[n] + 1 + Len(irp.in) + Len(irp.out) /\ Lies(stream, at[n], irp)
    BY <1>4, <1>5 DEF Placed
  <2> QED
    BY <1>3, <1>6, <1>7, <2>2, <2>3
<1>10. stream[offset + 1] = irp.header /\ irp.header.in = a /\ irp.header.out = b
  BY <1>6, <1>7, <1>9, IrpParts DEF Lies, LiesAt
<1>11. Buffer(offset + 1, a) = irp.in
  <2>1. offset + 1 + a <= m /\ (offset + 1) + 1 = offset + 2
    BY <1>9
  <2> QED
    BY <1>6, <1>8, <1>9, <2>1 DEF Buffer, Lies, LiesAt
<1>12. AfterInput(irp.in) = offset + 1 + a
  BY <1>6 DEF AfterInput
<1>13. Buffer(offset + 1 + a, b) = irp.out
  <2>1. offset + 1 + a + b <= m /\ (offset + 1 + a) + 1 = offset + 2 + a
    BY <1>9
  <2> QED
    BY <1>6, <1>7, <1>8, <1>9, <2>1 DEF Buffer, Lies, LiesAt
<1>14. irps' = Append(irps, irp) /\ offset' = offset + 1 + a + b
  <2>1. /\ irps' = Append(irps, [header |-> irp.header, in |-> irp.in, out |-> irp.out])
        /\ offset' = offset + 1 + Len(irp.in) + Len(irp.out)
    BY <1>10, <1>11, <1>12, <1>13 DEF GetNextIrps
  <2> QED
    BY <1>6, <1>7, <2>1, IrpParts
<1>15. /\ irps' \in Seq(Irps) /\ Len(irps') = n + 1
       /\ \A k \in 1 .. n : irps'[k] = irps[k]
       /\ irps'[n + 1] = irp
  <2>1. irps \in Seq(Irps) /\ irps' = Append(irps, irp)
    BY <1>1, <1>14
  <2> QED
    BY <1>2, <2>1, AppendProperties
<1>16. \A k \in 1 .. n + 1 : irps'[k] = queue[k]
  BY <1>2, <1>5, <1>15 DEF Follows
<1>17. Len(irps') <= popped' /\ offset' = at[Len(irps')]
  BY <1>1, <1>4, <1>9, <1>14, <1>15
<1>18. \A k \in 1 .. Len(irps') : irps'[k] = queue'[k]
  BY <1>1, <1>15, <1>16
<1> QED
  BY <1>15, <1>17, <1>18 DEF Follows

LEMMA ReadInvInit == DataInit => ReadInv
<1> SUFFICES ASSUME DataInit PROVE ReadInv
  OBVIOUS
<1>1. /\ pc = "idle" /\ irps = <<>> /\ offset = 0 /\ popped = 0
      /\ queue = <<>> /\ stream = <<>>
  BY DEF DataInit
<1>2. /\ queue \in Seq(Irps) /\ stream \in Seq(Bytes) /\ irps \in Seq(Irps)
      /\ Len(queue) = 0 /\ Len(stream) = 0
  BY <1>1
<1>3. PICK at : at = [k \in 0 .. 0 |-> 0]
  OBVIOUS
<1>4. Placed(at)
  BY <1>1, <1>2, <1>3 DEF Placed
<1> QED
  BY <1>1, <1>2, <1>4 DEF ReadInv

(* Where the IRPs lie does not change with what is queued behind them.      *)
LEMMA PlacedKept ==
    ASSUME ReadInv, NEW irp \in Irps, queue' = Append(queue, irp), popped' = popped,
           stream' = stream, NEW at, Placed(at)
    PROVE  Placed(at)' /\ queue' \in Seq(Irps) /\ popped' \in 0 .. Len(queue')
<1>1. queue \in Seq(Irps) /\ popped \in 0 .. Len(queue)
  BY DEF ReadInv
<1>2. /\ queue' \in Seq(Irps) /\ Len(queue') = Len(queue) + 1
      /\ \A k \in 1 .. popped : queue'[k] = queue[k]
  BY <1>1
<1> QED
  BY <1>1, <1>2 DEF Placed

(* JSON keeps everything of an IRP but for the end of its names.            *)
LEMMA FromJsonKeeps ==
    ASSUME NEW irp \in Irps
    PROVE  /\ FromJson(irp) \in Irps
           /\ FromJson(irp).in = irp.in /\ FromJson(irp).out = irp.out
           /\ FromJson(irp).header.major = irp.header.major
           /\ \/ FromJson(irp).header.name = irp.header.name
              \/ FromJson(irp).header.name = MaxPath - 1 /\ irp.header.name = MaxPath
<1>1. irp.header \in Headers
  BY IrpParts
<1>2. PICK n : n = Trimmed(irp.header.name)
  OBVIOUS
<1>3. n \in 0 .. MaxPath /\ (n = irp.header.name \/ (n = MaxPath - 1 /\ irp.header.name = MaxPath))
  BY <1>1, <1>2, DataAssumption DEF Trimmed, Headers
<1>4. PICK h \in Headers : h = [irp.header EXCEPT !.name = n]
  BY <1>1, <1>3 DEF Headers
<1>5. h.name = n /\ h.major = irp.header.major /\ h.in = irp.header.in /\ h.out = irp.header.out
  BY <1>1, <1>4 DEF Headers
<1>6. FromJson(irp) = [irp EXCEPT !.header = h]
  BY <1>2, <1>4, Zenon DEF FromJson
<1>7. FromJson(irp) = [header |-> h, in |-> irp.in, out |-> irp.out]
  BY <1>6 DEF Irps
<1> QED
  BY <1>3, <1>5, <1>7, IrpParts DEF Irps

LEMMA ReadInvStep == DataInv /\ ReadInv /\ [DataNext]_vars => ReadInv'
<1> SUFFICES ASSUME DataInv, ReadInv, [DataNext]_vars PROVE ReadInv'
  OBVIOUS
<1>0. PICK at : Placed(at) /\ (pc = "read" => Follows(at))
  BY DEF ReadInv
<1>1. ASSUME UNCHANGED <<queue, readVars>>, pc' = pc \/ {pc, pc'} \subseteq {"idle", "new", "calling"}
      PROVE  ReadInv'
  BY <1>1 DEF ReadInv, Placed, Follows, readVars
<1>2. CASE Toggle \/ Intercept \/ CapturePreCallData
  BY <1>1, <1>2 DEF Toggle, Intercept, CapturePreCallData
<1>3. CASE UNCHANGED vars
  BY <1>1, <1>3 DEF vars
<1>4. CASE CapturePostCallData
  <2>1. pc = "calling" /\ pc' = "idle" /\ UNCHANGED readVars /\ UnderWay
    BY <1>4 DEF CapturePostCallData, DataInv
  <2>2. CASE ~capturing
    BY <1>1, <1>4, <2>1, <2>2 DEF CapturePostCallData
  <2>3. CASE capturing
    <3>1. PICK o \in PostCallData :
             queue' = Append(queue, [header |-> Header(request, major, InputBuffer, o),
                                     in |-> InputBuffer, out |-> o])
      BY <1>4, <2>3 DEF CapturePostCallData
    <3>2. PICK irp \in Irps : queue' = Append(queue, irp)
      BY <2>1, <3>1, CapturedTyped
    <3>3. UNCHANGED <<popped, stream, offset, irps>>
      BY <2>1 DEF readVars
    <3>4. Placed(at)' /\ queue' \in Seq(Irps) /\ popped' \in 0 .. Len(queue')
      BY <1>0, <3>2, <3>3, PlacedKept
    <3> QED
      BY <2>1, <3>3, <3>4 DEF ReadInv
  <2> QED
    BY <2>2, <2>3
<1>5. CASE DriverRead
  <2>1. /\ pc = "idle" /\ pc' \in {"idle", "read"} /\ popped < Len(queue) /\ popped' = popped + 1
        /\ pc' = "read" => popped' = Len(queue)
        /\ UNCHANGED <<queue, offset, irps>>
    BY <1>5 DEF DriverRead
  <2>2. irps = <<>> /\ offset = 0 /\ popped \in 0 .. Len(queue) /\ Len(queue) \in Nat
    BY <2>1 DEF ReadInv
  <2>3. PICK next : Placed(next)' /\ next[0] = 0 /\ stream' \in Seq(Bytes)
    BY <1>0, <1>5, DriverReadPlaces
  <2>4. popped' \in 0 .. Len(queue') /\ 0 <= popped'
    BY <2>1, <2>2
  <2>5. Follows(next)'
    BY <2>1, <2>2, <2>3, <2>4 DEF Follows
  <2> QED
    BY <2>1, <2>2, <2>3, <2>4, <2>5 DEF ReadInv
<1>6. CASE GetNextIrps
  <2>1. pc = "read" /\ UNCHANGED <<pc, queue, popped, stream>>
    BY <1>6 DEF GetNextIrps
  <2>2. irps' \in Seq(Irps) /\ Follows(at)'
    BY <1>0, <1>6, <2>1, GetNextIrpsFollows
  <2>3. Placed(at)'
    BY <1>0, <2>1 DEF Placed
  <2> QED
    BY <2>1, <2>2, <2>3 DEF ReadInv
<1>7. CASE ThroughJson
  <2>1. /\ pc = "read" /\ pc' = "got" /\ offset >= Len(stream)
        /\ UNCHANGED <<queue, popped, stream, offset>>
        /\ irps' = [k \in 1 .. Len(irps) |-> FromJson(irps[k])]
    BY <1>7 DEF ThroughJson
  <2>2. /\ irps \in Seq(Irps) /\ queue \in Seq(Irps) /\ stream \in Seq(Bytes)
        /\ popped = Len(queue) /\ Follows(at)
    BY <1>0, <2>1 DEF ReadInv
  <2>3. Len(irps) = popped
    <3>1. CASE Len(irps) = popped
      BY <3>1
    <3>2. CASE Len(irps) # popped
      <4>1. Len(irps) + 1 \in 1 .. popped /\ (Len(irps) + 1) - 1 = Len(irps)
        BY <2>2, <3>2 DEF Follows
      <4>2. PICK irp \in Irps : irp = queue[Len(irps) + 1]
        BY <2>2, <4>1
      <4>3. PICK n \in Nat : n = Len(irps)
        BY <2>2
      <4>4. /\ at[n + 1] = at[n] + 1 + Len(irp.in) + Len(irp.out)
            /\ at[n + 1] \in 0 .. Len(stream) /\ at[n] \in 0 .. Len(stream)
        <5>1. n + 1 \in 1 .. popped /\ (n + 1) - 1 = n /\ n + 1 \in 0 .. popped
              /\ n \in 0 .. popped /\ irp = queue[n + 1]
          BY <2>2, <4>1, <4>2, <4>3
        <5> QED
          BY <1>0, <5>1 DEF Placed
      <4>5. at[n] = offset
        BY <2>2, <4>3 DEF Follows
      <4>6. Len(irp.in) \in Nat /\ Len(irp.out) \in Nat
        BY IrpParts
      <4> QED
        BY <2>1, <2>2, <4>4, <4>5, <4>6
    <3> QED
      BY <3>1, <3>2
  <2>4. irps = queue
    BY <2>2, <2>3, SeqEqual DEF Follows
  <2>5. irps' = [k \in 1 .. Len(queue) |-> FromJson(queue[k])]
    BY <2>1, <2>4
  <2>6. \A k \in 1 .. Len(queue) : FromJson(queue[k]) \in Irps
    BY <2>2, FromJsonKeeps
  <2>7. irps' \in Seq(Irps)
    BY <2>2, <2>5, <2>6
  <2>8. irps' = [k \in 1 .. Len(queue') |-> FromJson(queue'[k])]
    BY <2>1, <2>5
  <2> QED
    BY <1>0, <2>1, <2>2, <2>7, <2>8 DEF ReadInv, Placed
<1> QED
  BY <1>2, <1>3, <1>4, <1>5, <1>6, <1>7 DEF DataNext

(* Whatever was captured, and however much of it, the client gets all of    *)
(* it, in order, with the lengths that from_json asserts.                   *)
THEOREM ReadIsWhatWasQueued == DataSpec => []RoundTrip
<1>1. ReadInv => RoundTrip
  <2> SUFFICES ASSUME ReadInv, pc = "got"
               PROVE  RoundTrip
    BY DEF RoundTrip
  <2>1. /\ irps = [k \in 1 .. Len(queue) |-> FromJson(queue[k])]
        /\ queue \in Seq(Irps)
    BY DEF ReadInv
  <2>2. Len(irps) = Len(queue)
    BY <2>1
  <2>3. ASSUME NEW k \in 1 .. Len(irps)
        PROVE  /\ queue[k] \in Irps /\ irps[k] = FromJson(queue[k])
               /\ irps[k].header.in = Len(irps[k].in)
               /\ irps[k].header.out = Len(irps[k].out)
    <3>1. queue[k] \in Irps /\ irps[k] = FromJson(queue[k])
      BY <2>1, <2>2
    <3>2. irps[k] \in Irps
      BY <3>1, FromJsonKeeps
    <3> QED
      BY <3>1, <3>2, IrpParts
  <2> QED
    BY <2>2, <2>3, FromJsonKeeps DEF RoundTrip
<1>2. DataInv /\ ReadInv /\ [DataNext]_vars => (DataInv /\ ReadInv)'
  BY UnderWayStep, QueuedStep, ReadInvStep DEF DataInv
<1> QED
  BY <1>1, <1>2, DataInvInit, ReadInvInit, PTL DEF DataSpec
=============================================================================
