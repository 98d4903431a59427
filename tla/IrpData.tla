------------------------------ MODULE IrpData -------------------------------
(***************************************************************************)
(* The data of captured IRPs: what CapturedIrp takes from a request before *)
(* and after the original routine runs, how DriverReadRoutine lays it out, *)
(* how GetNextIrps parses it, and what JSON makes of it.  Who waits for    *)
(* whom on the way is in IrpQueue and IrpPump.                             *)
(*                                                                         *)
(* A buffer is a sequence of bytes of which only the origin is kept.       *)
(***************************************************************************)
EXTENDS Integers, Sequences

CONSTANTS MaxLength,  \* bound: how long a buffer is
          MaxRequests,\* bound: how many requests are made
          MaxPath,    \* CFB_DRIVER_MAX_PATH: the room for a name in a header
          None        \* the null pointer

ASSUME DataAssumption ==
    /\ {MaxLength, MaxRequests} \subseteq Nat
    /\ MaxPath \in Nat \ {0}

(* "sent" by the requester, "wrote" by the original routine, "before": the  *)
(* output buffer as the requester had it, "other" memory, "zero": none yet. *)
Origins == {"sent", "wrote", "before", "other", "zero"}
Buffers == UNION {[1 .. n -> Origins] : n \in 0 .. MaxLength}
Filled(origin, n) == [i \in 1 .. n |-> origin]

(* What is requested.  `method` is in the code of a control request, and in *)
(* the device's flags for reads and writes; `name` is how long the longest  *)
(* name is, which fills its field of the header at most (bound: ExportHeader*)
(* does not look whether it is longer).                                     *)
Requests ==
    [major : {"control", "read", "write", "create"},
     method : {"buffered", "direct", "neither"},
     in : 0 .. MaxLength, out : 0 .. MaxLength, page : 0 .. 1,
     name : 1 .. MaxPath]

Sensible(r) ==
    /\ r.major \in {"read", "create"} => r.in = 0
    /\ r.major \in {"write", "create"} => r.out = 0
    /\ r.page = 1 => r.major = "read" /\ r.method = "direct"

VARIABLES
    capturing, \* HookedDriver::m_CapturingEnabled
    pc,        \* where the intercepted request is
    request,   \* the request under way
    major,     \* the CapturedIrp: m_MajorFunction, at first 0: IRP_MJ_CREATE
    input,     \*   m_InputBuffer
    output,    \*   m_OutputBuffer
    asked,     \* history: was it capturing before the original routine ran?
    queue,     \* the IRPs captured: what ExportHeader and the buffers give
    requests,  \* history: the request of each
    made,      \* how many requests were made
    popped,    \* how many of them DriverReadRoutine has copied
    stream,    \* what it has copied
    offset,    \* how far GetNextIrps has parsed that
    irps       \* what it has got from it, and then what the client has

driverVars == <<request, major, input, output, asked, made>>
readVars == <<popped, stream, offset, irps>>
vars == <<capturing, pc, driverVars, queue, requests, readVars>>

DataInit ==
    /\ capturing \in BOOLEAN
    /\ pc = "idle"
    /\ request = None
    /\ major = "create"
    /\ input = <<>>
    /\ output = <<>>
    /\ asked = FALSE
    /\ queue = <<>>
    /\ requests = <<>>
    /\ made = 0
    /\ popped = 0
    /\ stream = <<>>
    /\ offset = 0
    /\ irps = <<>>
-----------------------------------------------------------------------------
(* The I/O manager: where the buffers of a request are before the call.     *)
SystemBuffer(r) ==
    IF r.in > 0 /\ \/ r.major = "control" /\ r.method # "neither"
                   \/ r.major = "write" /\ r.method = "buffered"
    THEN Filled("sent", r.in) ELSE None

Type3InputBuffer(r) == IF r.in > 0 THEN Filled("sent", r.in) ELSE None

Mdl(r) ==
    CASE r.method # "direct" -> None
      [] r.major = "write" /\ r.in > 0 -> Filled("sent", r.in)
      [] r.major \in {"control", "read"} /\ r.out > 0 -> Filled("before", r.out)
      [] OTHER -> None

(* Irp->UserBuffer, once the original routine has returned.  The routine    *)
(* may have completed the request: the I/O manager copies what was written  *)
(* in a buffer of its own when it comes to it, and frees the IRP, so that   *)
(* what is read through it is anything.                                     *)
UserBuffer(r) ==
    IF r.out = 0 \/ r.major = "write" \/ (r.method = "direct" /\ r.major = "control")
    THEN {None, Filled("other", r.out)}
    ELSE {Filled(o, r.out) : o \in {"before", "wrote", "other"}} \cup {None}
-----------------------------------------------------------------------------
(* Enable- and DisableCapturing, by a command, between any two steps.       *)
Toggle ==
    /\ capturing' = ~capturing
    /\ UNCHANGED <<pc, driverVars, queue, requests, readVars>>

(* InterceptGenericRoutine: a new CapturedIrp.                              *)
Intercept ==
    /\ pc = "idle"
    /\ made < MaxRequests
    /\ made' = made + 1
    /\ \E r \in Requests : Sensible(r) /\ request' = r
    /\ major' = "create"
    /\ input' = <<>>
    /\ output' = <<>>
    /\ pc' = "new"
    /\ UNCHANGED <<capturing, asked, queue, requests, readVars>>

(* KAlloc zeroes what it allocates.                                         *)
Allocated(n) == Filled("zero", n)

(* METHOD_FROM_CTL_CODE(m_IoctlCode) is taken before m_IoctlCode is set, so *)
(* that it is that of code 0, METHOD_BUFFERED, for every request.           *)
Method(r) == "buffered"

Source(r) ==
    CASE r.major = "control" /\ Method(r) = "neither" -> Type3InputBuffer(r)
      [] Method(r) = "buffered" -> SystemBuffer(r)
      [] Method(r) = "direct" -> Mdl(r)

(* RtlCopyMemory of as many bytes as the buffer has.                        *)
Copied(source, buffer) ==
    IF source = None THEN buffer
    ELSE [i \in 1 .. Len(buffer) |->
            IF i <= Len(source) THEN source[i] ELSE "other"]

(* CapturePreCallData, which succeeds whatever it could copy.               *)
CapturePreCallData ==
    /\ pc = "new"
    /\ pc' = "calling"
    /\ asked' = capturing
    /\ IF capturing
       THEN /\ major' = request.major
            /\ input' = Copied(Source(request), Allocated(request.in))
            /\ output' = Allocated(request.out)
       ELSE UNCHANGED <<major, input, output>>
    /\ UNCHANGED <<capturing, request, made, queue, requests, readVars>>

(* A direct read is copied as far into the buffer as its pages start; the   *)
(* bytes past the end of the buffer are not part of what is captured.       *)
Shifted(r, source) ==
    [i \in 1 .. r.out |-> IF i <= r.page THEN "zero" ELSE source[i - r.page]]

ReadBack(r, buffer) ==
    IF r.major = "read" /\ r.method = "direct" /\ r.out > 0
    THEN {Shifted(r, Filled(o, r.out)) : o \in {"before", "wrote", "other"}}
    ELSE {Copied(u, buffer) : u \in UserBuffer(r)}

(* CapturePostCallData: nothing is done without an output buffer.           *)
(* Mutation: one is allocated there.                                        *)
AllocatedLate == IF output = <<>> THEN Allocated(request.out) ELSE output
OutputBuffer == output

PostCallData ==
    IF OutputBuffer = <<>> THEN {output} ELSE ReadBack(request, OutputBuffer)

(* InputBuffer(): what CapturePreCallData has kept.  Mutation: the buffer   *)
(* is filled here, like the other one; the system buffer of METHOD_BUFFERED *)
(* is that of the input and of the output.                                  *)
OverwrittenInput ==
    IF request.major = "control" /\ request.method = "buffered"
    THEN [i \in 1 .. Len(input) |-> IF i <= request.out THEN "wrote" ELSE input[i]]
    ELSE input
InputBuffer == input

(* ExportHeader: the lengths are those of the buffers.                      *)
Header(r, m, i, o) == [major |-> m, in |-> Len(i), out |-> Len(o), name |-> r.name]

(* The original routine returns; if the driver captures, now, the IRP is    *)
(* queued with what was captured.                                           *)
CapturePostCallData ==
    /\ pc = "calling"
    /\ pc' = "idle"
    /\ IF capturing
       THEN \E o \in PostCallData :
               /\ output' = o
               /\ queue' = Append(queue, [header |-> Header(request, major, InputBuffer, o),
                                          in |-> InputBuffer, out |-> o])
               /\ requests' = Append(requests, [request |-> request, asked |-> asked])
       ELSE UNCHANGED <<output, queue, requests>>
    /\ UNCHANGED <<capturing, request, major, input, asked, made, readVars>>
-----------------------------------------------------------------------------
(* DriverReadRoutine, when all requests were made: each turn of its loop    *)
(* copies one IRP, its header, its input and its output; the last one ends  *)
(* the read.                                                                *)
Laid(irp) == <<irp.header>> \o irp.in \o irp.out

DriverRead ==
    /\ pc = "idle"
    /\ made = MaxRequests
    /\ popped < Len(queue)
    /\ popped' = popped + 1
    /\ stream' = stream \o Laid(queue[popped + 1])
    /\ pc' = IF popped' = Len(queue) THEN "read" ELSE pc
    /\ UNCHANGED <<capturing, driverVars, queue, requests, offset, irps>>

(* GetNextIrps, each turn of its loop: the header at the offset and the two *)
(* buffers after it, of which one that does not fit in the data is skipped. *)
(* Mutation: the offset is moved past the input after the output only.      *)
Buffer(from, n) ==
    IF from + n <= Len(stream) THEN SubSeq(stream, from + 1, from + n) ELSE <<>>

BeforeInput(in) == offset + 1
AfterInput(in) == offset + 1 + Len(in)

GetNextIrps ==
    /\ pc = "read"
    /\ offset < Len(stream)
    /\ LET header == stream[offset + 1]
           in == Buffer(offset + 1, header.in)
           out == Buffer(AfterInput(in), header.out)
       IN /\ irps' = Append(irps, [header |-> header, in |-> in, out |-> out])
          /\ offset' = offset + 1 + Len(in) + Len(out)
    /\ UNCHANGED <<capturing, pc, driverVars, queue, requests, popped, stream>>

(* Then to_json and from_json of CapturedIrpHeader.  A name that fills its  *)
(* field has no end there, and to_json goes on to what lies behind it;      *)
(* from_json leaves room for the end, and takes one character less.         *)
Trimmed(name) == IF name < MaxPath THEN name ELSE MaxPath - 1
FromJson(irp) == [irp EXCEPT !.header.name = Trimmed(@)]

ThroughJson ==
    /\ pc = "read"
    /\ offset >= Len(stream)
    /\ irps' = [k \in 1 .. Len(irps) |-> FromJson(irps[k])]
    /\ pc' = "got"
    /\ UNCHANGED <<capturing, driverVars, queue, requests, popped, stream, offset>>
-----------------------------------------------------------------------------
DataNext ==
    \/ Toggle
    \/ Intercept
    \/ CapturePreCallData
    \/ CapturePostCallData
    \/ DriverRead
    \/ GetNextIrps
    \/ ThroughJson

DataSpec == DataInit /\ [][DataNext]_vars
-----------------------------------------------------------------------------
(* What is captured as the input is what the requester sent.  It is not:    *)
(* METHOD_NEITHER and METHOD_*_DIRECT, which the code tells apart, are never*)
(* the method, and what is not in a system buffer is kept as zeros.         *)
InputAsSent ==
    \A k \in 1 .. Len(queue) :
        requests[k].asked => queue[k].in = Filled("sent", requests[k].request.in)

(* An input in a system buffer, that of every control but METHOD_NEITHER    *)
(* and of buffered writes, is captured as it was sent: the original routine *)
(* may write its output over it before the IRP is queued, and capturing may *)
(* be disabled and enabled meanwhile; nor are the pages of a direct control,*)
(* which are those of its output, taken for its input.                      *)
SystemInputAsSent ==
    \A k \in 1 .. Len(queue) :
        LET r == requests[k].request
        IN requests[k].asked /\ SystemBuffer(r) # None => queue[k].in = Filled("sent", r.in)

(* Capturing may be enabled or disabled while the original routine runs: an *)
(* IRP is queued with all that was asked for or, if the driver was not      *)
(* capturing at first, with nothing, as if it was an IRP_MJ_CREATE.         *)
WholeOrEmpty ==
    \A k \in 1 .. Len(queue) :
        LET r == requests[k].request
            h == queue[k].header
        IN IF requests[k].asked
           THEN <<h.major, h.in, h.out>> = <<r.major, r.in, r.out>>
           ELSE <<h.major, h.in, h.out>> = <<"create", 0, 0>>

(* A client gets every IRP of a read with the header and the bytes that     *)
(* were captured, but for the last character of a name that fills its field,*)
(* and with lengths that are those of its buffers, as from_json asserts.    *)
RoundTrip ==
    pc = "got" =>
        /\ Len(irps) = Len(queue)
        /\ \A k \in 1 .. Len(irps) :
              LET got == irps[k]
                  kept == queue[k]
              IN /\ <<got.header.major, got.in, got.out>> = <<kept.header.major, kept.in, kept.out>>
                 /\ \/ got.header.name = kept.header.name
                    \/ got.header.name = MaxPath - 1 /\ kept.header.name = MaxPath
                 /\ got.header.in = Len(got.in)
                 /\ got.header.out = Len(got.out)
=============================================================================
