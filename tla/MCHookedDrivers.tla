--------------------------- MODULE MCHookedDrivers ---------------------------
(* Instances of HookedDrivers for TLC.  The HookedDriver objects, the       *)
(* threads that issue IOCTLs and the threads that do I/O are each           *)
(* interchangeable among themselves.                                        *)
EXTENDS HookedDrivers, TLC

MCSymmetry ==
    Permutations(Hooks) \cup Permutations(Admins) \cup Permutations(Threads)
=============================================================================
