--------------------------- MODULE MCProfileStore --------------------------
(* Instances of the profile store for TLC. *)
EXTENDS ProfileStore, TLC

Symmetry == Permutations(Retrainers) \cup Permutations(Ccys)
=============================================================================
