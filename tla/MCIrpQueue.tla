----------------------------- MODULE MCIrpQueue -----------------------------
(* Instances of IrpQueue for TLC: IRPs of different sizes, read lengths     *)
(* below, between and above the sizes of the queue.                         *)
EXTENDS IrpQueue

MCIrps == 1..3
MCSize == [i \in MCIrps |-> i]
MCLengths == {1, 3, 6}
=============================================================================
