------------------------------ MODULE MCRouter ------------------------------
(***************************************************************************)
(* Router for TLC: callers are interchangeable, and so are stoppers.       *)
(***************************************************************************)
EXTENDS Router, TLC

Symmetry == Permutations(Callers) \cup Permutations(Stoppers)
=============================================================================
