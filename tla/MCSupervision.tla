--------------------------- MODULE MCSupervision ---------------------------
(***************************************************************************)
(* The instance of Supervision that TLC checks for what holds: behaviours  *)
(* are followed until two gateways serve at once (the run one_gateway      *)
(* shows that this happens), from where no more is promised.               *)
(***************************************************************************)
EXTENDS Supervision

NeverTwice == ~twice
=============================================================================
