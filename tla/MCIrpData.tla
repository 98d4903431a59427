----------------------------- MODULE MCIrpData ------------------------------
(* The values of IrpData's constants for TLC.                               *)
EXTENDS IrpData
=============================================================================
