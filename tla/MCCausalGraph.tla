--------------------------- MODULE MCCausalGraph ---------------------------
(* CausalGraph on small sets, for TLC.                                     *)
EXTENDS CausalGraph, TLC

\* Casts and edge ids are interchangeable.
Symmetry == Permutations(Cast) \cup Permutations(EdgeId)
=============================================================================
