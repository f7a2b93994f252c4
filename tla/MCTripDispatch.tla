---------------------------- MODULE MCTripDispatch ----------------------------
(* Finite instances of TripDispatch; the symmetry of drivers, calls and      *)
(* sweeps is used by the safety runs only.                                   *)
EXTENDS TripDispatch, TLC

Symmetry ==
  Permutations(Drivers) \cup Permutations(Requests) \cup Permutations(Sweepers)
=============================================================================
