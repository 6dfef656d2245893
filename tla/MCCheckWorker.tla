--------------------------- MODULE MCCheckWorker ---------------------------
(***************************************************************************)
(* Finite instances of CheckWorker: model values for the monitors and the  *)
(* slots, and the bounds each cfg names.                                   *)
(***************************************************************************)
EXTENDS CheckWorker, TLC

\* Slots are interchangeable in every invariant.
SlotSymmetry == Permutations(Slots)
=============================================================================
