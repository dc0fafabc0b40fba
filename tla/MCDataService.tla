--------------------------- MODULE MCDataService ---------------------------
(* TLC instance of DataService: callers outside request() are all alike,   *)
(* so the first of them in the sequence Turns makes the next request.  (A  *)
(* symmetry set would be unsound for the liveness property.)               *)
EXTENDS DataService

CONSTANTS c1, c2, c3

ThreeCallers == {c1, c2, c3}
Turns == <<c1, c2, c3>>

FirstIdleCalls ==
  \A j \in DOMAIN Turns : ~Inside(Turns[j]) /\ Inside(Turns[j])' =>
    \A i \in 1 .. j - 1 : Inside(Turns[i])
=============================================================================
