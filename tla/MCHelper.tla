------------------------------ MODULE MCHelper ------------------------------
(* Instances of the helper for TLC: the bounds are in the .cfg files.      *)
EXTENDS HelperProperties, TLC

(* Processes are interchangeable in the invariants of helper_concurrent. *)
ProcSymmetry == Permutations(Proc)
=============================================================================
