------------------------------ MODULE MCEngine -----------------------------
(* The engine with two requests and the smallest channels.                 *)
EXTENDS Engine, TLC

Symmetry == Permutations(Requests)
=============================================================================
