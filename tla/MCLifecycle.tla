---------------------------- MODULE MCLifecycle ----------------------------
(* Lifecycle with its tests interchangeable: nothing tells one from another. *)
EXTENDS Lifecycle, TLC

TestSymmetry == Permutations(Tests)
=============================================================================
