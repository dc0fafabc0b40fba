------------------------------ MODULE MCFlash ------------------------------
(* The instance of Flash that TLC checks: an image of three chunks whose    *)
(* first two have the same content.                                         *)
EXTENDS Flash

CONSTANTS d1, d2

Alike == [c \in Chunks |-> IF c = Last THEN d2 ELSE d1]
=============================================================================
