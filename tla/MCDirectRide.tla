---------------------------- MODULE MCDirectRide ----------------------------
(***************************************************************************)
(* Instances of DirectRide for TLC: a rider and one or two drivers, with   *)
(* the faults each run names.                                              *)
(***************************************************************************)
EXTENDS DirectRide, TLC

CONSTANTS d1, d2

MCOneDriver  == {d1}
MCTwoDrivers == {d1, d2}

MCPagesLost == {"reload", "restart"}

DriverSymmetry == Permutations(Driver)
=============================================================================
