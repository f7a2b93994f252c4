---------------------------- MODULE FaultBudget ----------------------------
(***************************************************************************)
(* The faults a behaviour may contain: a process that dies between two of  *)
(* its awaits, a request that is lost, a key that is lost with Redis.  The *)
(* component modules below share one counter, so that the bound is one     *)
(* number.                                                                 *)
(***************************************************************************)
EXTENDS Naturals

CONSTANT MaxFaults
ASSUME MaxFaultsAssumption == MaxFaults \in Nat

VARIABLE faults

Fault == faults < MaxFaults /\ faults' = faults + 1
NoFault == UNCHANGED faults
=============================================================================
