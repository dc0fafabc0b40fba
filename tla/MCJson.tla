------------------------------- MODULE MCJson -------------------------------
(* One document of up to four values and three wrappers. *)
EXTENDS Json, TLC

(* Addresses are alike; the root's is not. *)
Symmetric == Permutations(Cells) \cup Permutations(Wraps \ {Root})
=============================================================================
