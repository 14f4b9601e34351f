--------------------------- MODULE MCRevisionStore ---------------------------
(* Two configurations that may be exchanged for one another.                  *)
EXTENDS RevisionStore, TLC

ContentSymmetry == Permutations(Contents)
=============================================================================
