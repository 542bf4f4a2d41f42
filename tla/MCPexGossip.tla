---------------------------- MODULE MCPexGossip ----------------------------
(***************************************************************************)
(* PexGossip for TLC: peers and rounds are interchangeable.                *)
(***************************************************************************)
EXTENDS PexGossip, TLC

Symmetry == Permutations(Peers) \cup Permutations(Rounds)
=============================================================================
