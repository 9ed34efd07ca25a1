-------------------------- MODULE MCEvidenceCatalog --------------------------
(* Instances of EvidenceCatalog for TLC. *)
EXTENDS EvidenceCatalog, TLC

Symmetry == Permutations(Nodes)
=============================================================================
