------------------------------ MODULE MCKeyCache -----------------------------
(* An instance of the key cache for TLC. *)
EXTENDS KeyCache, TLC

Symmetry == Permutations(Threads) \cup Permutations(Admins)
=============================================================================
