--------------------------- MODULE MCPageManager ---------------------------
(* The page manager on a small arena: two sequences, pages of two tokens.  *)
EXTENDS PageManager

Symmetry == Permutations(SequenceIds)
=============================================================================
