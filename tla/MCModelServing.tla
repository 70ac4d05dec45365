--------------------------- MODULE MCModelServing ---------------------------
(* An instance of the serving of models for TLC. *)
EXTENDS ModelServing, TLC

\* A model whose holdout was empty, and one with a synthetic AUC.
MCScores == {[auc |-> 0, f1 |-> 1], [auc |-> 2, f1 |-> 2]}

Symmetry == Permutations(Jobs)
=============================================================================
