----------------------------- MODULE MCVncPool -----------------------------
(***************************************************************************)
(* VncPool on a small instance: ranges of different sizes, and one caller  *)
(* more than the shortest of them has places.                              *)
(***************************************************************************)
EXTENDS VncPool, TLC

Symmetry == Permutations(Callers)
=============================================================================
