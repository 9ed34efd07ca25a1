--------------------------- MODULE MCWitnessStore ---------------------------
(* Instances of WitnessStore for TLC. *)
EXTENDS WitnessStore, TLC

Symmetry == Permutations(Keys \ Trusted)
=============================================================================
