----------------------------- MODULE IrpChannel -----------------------------
(***************************************************************************)
(* What the driver's queue promises its one reader, with the locks, the    *)
(* counters, the event and the buffers left out: the IRPs captured come    *)
(* out in batches, each one once, in the order they were captured.         *)
(***************************************************************************)
EXTENDS Integers, Sequences, Functions

CONSTANT Irps

VARIABLES sent,      \* the IRPs captured so far
          received   \* the IRPs handed to user-land so far

Init == sent = <<>> /\ received = <<>>

Send(irp) ==
    /\ irp \notin Range(sent)
    /\ sent' = Append(sent, irp)
    /\ UNCHANGED received

ReceiveUpTo(n) ==
    /\ received' = SubSeq(sent, 1, n)
    /\ UNCHANGED sent

Next ==
    \/ \E irp \in Irps : Send(irp)
    \/ \E n \in Len(received) + 1 .. Len(sent) : ReceiveUpTo(n)

Spec == Init /\ [][Next]_<<sent, received>>
=============================================================================
