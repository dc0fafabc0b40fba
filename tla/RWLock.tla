------------------------------- MODULE RWLock -------------------------------
(***************************************************************************)
(* What klock_c promises: one exclusive holder and no shared one, or any   *)
(* number of shared holders.                                               *)
(***************************************************************************)
CONSTANT Threads

VARIABLES sharing, excluding

vars == <<sharing, excluding>>

Init == sharing = {} /\ excluding = {}

Share(t) ==
  /\ excluding = {}
  /\ t \notin sharing
  /\ sharing' = sharing \cup {t}
  /\ UNCHANGED excluding

Unshare(t) ==
  /\ t \in sharing
  /\ sharing' = sharing \ {t}
  /\ UNCHANGED excluding

Exclude(t) ==
  /\ excluding = {} /\ sharing = {}
  /\ excluding' = {t}
  /\ UNCHANGED sharing

Unexclude(t) ==
  /\ excluding = {t}
  /\ excluding' = {}
  /\ UNCHANGED sharing

Next == \E t \in Threads : Share(t) \/ Unshare(t) \/ Exclude(t) \/ Unexclude(t)

Spec == Init /\ [][Next]_vars
=============================================================================
