------------------------------- MODULE Lists -------------------------------
(* What remove_if() and its like leave of a list. *)
EXTENDS Naturals, Sequences, FiniteSets

(* The list of the elements with the given indices, in its order. *)
Keep(list, keep) ==
  [n \in 1 .. Cardinality(keep) |->
     list[CHOOSE i \in keep : Cardinality({j \in keep : j <= i}) = n]]
=============================================================================
