---------------------------- MODULE MCBootSocket ----------------------------
(***************************************************************************)
(* BootSocket for TLC: subscriptions and namespaces are interchangeable.   *)
(***************************************************************************)
EXTENDS BootSocket, TLC

Symmetry == Permutations(Subs) \cup Permutations(Namespaces)
=============================================================================
