----------------------------- MODULE MCIrpPump ------------------------------
(* Instances of IrpPump for TLC: IRPs of different sizes, and a length that *)
(* is a few bits wide but still twice what all of them need.                *)
EXTENDS IrpPump

MCIrps == 1..3
MCSize == [i \in MCIrps |-> i]
MCWidth == 16
MCLengths == 0 .. MCWidth - 1
=============================================================================
