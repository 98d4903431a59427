--------------------------- MODULE MCDriverService ---------------------------
(* Instances of DriverService for TLC differ by their constants only.       *)
EXTENDS DriverService
=============================================================================
