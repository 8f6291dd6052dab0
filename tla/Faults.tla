------------------------------- MODULE Faults -------------------------------
(***************************************************************************)
(* Failures of system and library calls, counted and bounded.  An action   *)
(* that makes such a call has a branch with Fails for the error return and *)
(* a branch with Works for the other.                                      *)
(***************************************************************************)
EXTENDS Integers

CONSTANT MaxFaults      \* bound on the failures in a behaviour

ASSUME MaxFaultsNat == MaxFaults \in Nat

VARIABLE faults         \* failures so far

Fails == faults < MaxFaults /\ faults' = faults + 1
Works == UNCHANGED faults
============================================================================
