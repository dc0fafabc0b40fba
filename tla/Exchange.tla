------------------------------ MODULE Exchange ------------------------------
(***************************************************************************)
(* What the MT channel of a subsystem promises: calls take turns, a call   *)
(* is answered at most once and only during its turn, with the response to *)
(* its own request, and it succeeds exactly when it was answered.          *)
(***************************************************************************)
CONSTANT Calls       (* each made at most once *)

VARIABLES
  turn,              (* the calls whose turn it is: at most one *)
  answered,          (* calls that got their own response       *)
  succeeded, failed  (* calls that returned                     *)

vars == <<turn, answered, succeeded, failed>>

Init ==
  /\ turn = {}
  /\ answered = {}
  /\ succeeded = {}
  /\ failed = {}

Begin(c) ==
  /\ turn = {}
  /\ c \notin succeeded \cup failed
  /\ turn' = {c}
  /\ UNCHANGED <<answered, succeeded, failed>>

Answer(c) ==
  /\ c \in turn \ answered
  /\ answered' = answered \cup {c}
  /\ UNCHANGED <<turn, succeeded, failed>>

Finish(c) ==
  /\ c \in turn
  /\ turn' = {}
  /\ IF c \in answered
     THEN succeeded' = succeeded \cup {c} /\ UNCHANGED failed
     ELSE failed' = failed \cup {c} /\ UNCHANGED succeeded
  /\ UNCHANGED answered

Next == \E c \in Calls : Begin(c) \/ Answer(c) \/ Finish(c)

Spec == Init /\ [][Next]_vars
=============================================================================
