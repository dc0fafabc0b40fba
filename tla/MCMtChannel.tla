---------------------------- MODULE MCMtChannel ----------------------------
(* An instance of MtChannel for TLC: the calls are interchangeable, so     *)
(* they come in the order of the sequence Turns, and the first             *)
(* and third commands are k1: the second's is equal or not.  (A symmetry   *)
(* set would be unsound for the liveness property.)                        *)
EXTENDS MtChannel, Sequences

CONSTANTS c1, c2, c3, k1

ThreeCalls == {c1, c2, c3}
Turns == <<c1, c2, c3>>

CallsInTurn ==
  /\ {cmd[c1], cmd[c3]} \subseteq {None, k1}
  /\ \A i \in 1 .. Len(Turns) - 1 :
       pc[Turns[i]] = "idle" => pc[Turns[i + 1]] = "idle"

(* The first two calls crowd, or calls are late: not both in one           *)
(* behaviour.  The third call comes upon what either left.                 *)
CrowdOfTwo == crowd \subseteq {c1, c2} /\ (crowd # {} => ~late)

(* Of the mtRecv()s only the one for the first call deserts its receive    *)
(* thread, when the commands are equal, and nobody comes after that.       *)
FirstDeserts ==
  away # {} => /\ away \subseteq {c1}
               /\ cmd[c2] \in {None, k1}
               /\ pc[c3] = "idle"
=============================================================================
