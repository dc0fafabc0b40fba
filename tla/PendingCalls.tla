---------------------------- MODULE PendingCalls ----------------------------
(***************************************************************************)
(* What the APS data service promises its callers, without list, lock or   *)
(* memory: a request is open from request()'s entry to its return, its     *)
(* callback runs only in between, callbacks run one at a time, and a       *)
(* request does not return under its running callback.                     *)
(***************************************************************************)
CONSTANT Calls     (* requests, each made at most once *)

VARIABLES
  open,            (* requests made and not yet returned   *)
  used,            (* requests made so far                 *)
  running          (* requests whose callback is at work   *)

vars == <<open, used, running>>

Init ==
  /\ open = {}
  /\ used = {}
  /\ running = {}

Open(k) ==
  /\ k \notin used
  /\ open' = open \cup {k}
  /\ used' = used \cup {k}
  /\ UNCHANGED running

Run(k) ==
  /\ k \in open
  /\ running = {}
  /\ running' = {k}
  /\ UNCHANGED <<open, used>>

Done ==
  /\ running # {}
  /\ running' = {}
  /\ UNCHANGED <<open, used>>

Close(k) ==
  /\ k \in open \ running
  /\ open' = open \ {k}
  /\ UNCHANGED <<used, running>>

Next ==
  \/ \E k \in Calls : Open(k) \/ Run(k) \/ Close(k)
  \/ Done

Spec == Init /\ [][Next]_vars
=============================================================================
