------------------------------- MODULE KLock -------------------------------
(***************************************************************************)
(* klock_c (kutil.cpp): a readers-writers lock from three semaphores and a *)
(* count.  exLock is held by the exclusive owner, or by the shared owners  *)
(* together; shLock protects the count; shLockPriv lets one thread at a    *)
(* time ask for the shared lock.  A thread releases only what it holds.    *)
(*                                                                         *)
(* The result of sem_wait() is not looked at.  What follows when the       *)
(* signal of a frame ends a wait, and the thread goes on without the       *)
(* semaphore, is left out here (MtChannel, Dispatch and Supervision have   *)
(* it): nothing is promised then.                                          *)
(***************************************************************************)
EXTENDS Integers, FiniteSets

CONSTANTS
  Threads,
  Nobody       (* a semaphore at 1 that serves as a mutex *)

ASSUME ThreadsAssumption == IsFiniteSet(Threads) /\ Nobody \notin Threads

VARIABLES
  shLockPriv,  (* its holder, or Nobody               *)
  shLock,      (* its holder, or Nobody               *)
  exLock,      (* the value of the semaphore          *)
  shLockCnt,   (* the shared owners                   *)
  pc           (* where each thread is                *)

vars == <<shLockPriv, shLock, exLock, shLockCnt, pc>>

(* shLockAcquire(): past shLockPriv, and from its start. *)
Gated     == {"gate", "look", "looking", "queued", "count", "counting", "counted"}
Asking    == Gated \cup {"asking"}
States    == Asking \cup {"idle", "shared", "unsharing", "exclusive", "unlocking"}

Init ==
  /\ shLockPriv = Nobody
  /\ shLock = Nobody
  /\ exLock = 1
  /\ shLockCnt = 0
  /\ pc = [t \in Threads |-> "idle"]

Go(t, from, to) == pc[t] = from /\ pc' = [pc EXCEPT ![t] = to]

(* sem_wait(shLock), and sem_post(shLock). *)
Lock(t, from, to) ==
  /\ Go(t, from, to)
  /\ shLock = Nobody
  /\ shLock' = t
  /\ UNCHANGED <<shLockPriv, exLock, shLockCnt>>

Unlock(t, from, to) ==
  /\ Go(t, from, to)
  /\ shLock' = Nobody
-----------------------------------------------------------------------------
(* shLockAcquire() *)

Ask(t) == Go(t, "idle", "asking") /\ UNCHANGED <<shLockPriv, shLock, exLock, shLockCnt>>

(* sem_wait(shLockPriv). *)
Enter(t) ==
  /\ Go(t, "asking", "gate")
  /\ shLockPriv = Nobody
  /\ shLockPriv' = t
  /\ UNCHANGED <<shLock, exLock, shLockCnt>>

(* sem_trywait(exLock). *)
TryEx(t) ==
  /\ \/ exLock > 0 /\ Go(t, "gate", "count") /\ exLock' = exLock - 1
     \/ exLock = 0 /\ Go(t, "gate", "look") /\ UNCHANGED exLock
  /\ UNCHANGED <<shLockPriv, shLock, shLockCnt>>

(* With shared owners, become one of them; without, wait for exLock. *)
Look(t) ==
  /\ \/ shLockCnt <= 0 /\ Unlock(t, "looking", "queued") /\ UNCHANGED shLockCnt
     \/ /\ shLockCnt > 0
        /\ Unlock(t, "looking", "counted")
        /\ shLockCnt' = shLockCnt + 1
  /\ UNCHANGED <<shLockPriv, exLock>>

(* sem_wait(exLock): on behalf of all shared owners. *)
TakeEx(t) ==
  /\ Go(t, "queued", "count")
  /\ exLock > 0
  /\ exLock' = exLock - 1
  /\ UNCHANGED <<shLockPriv, shLock, shLockCnt>>

Count(t) ==
  /\ Unlock(t, "counting", "counted")
  /\ shLockCnt' = shLockCnt + 1
  /\ UNCHANGED <<shLockPriv, exLock>>

(* Mutant of Pass: shLockPriv is not posted. *)
PassNot(t) ==
  /\ Go(t, "counted", "shared")
  /\ UNCHANGED <<shLockPriv, shLock, exLock, shLockCnt>>

(* sem_post(shLockPriv), and shLockAcquire() returns. *)
Pass(t) ==
  /\ Go(t, "counted", "shared")
  /\ shLockPriv' = Nobody
  /\ UNCHANGED <<shLock, exLock, shLockCnt>>

Acquire(t) ==
  \/ Enter(t) \/ TryEx(t) \/ Lock(t, "look", "looking") \/ Look(t) \/ TakeEx(t)
  \/ Lock(t, "count", "counting") \/ Count(t) \/ Pass(t)
-----------------------------------------------------------------------------
(* shLockRelease(), exLockAcquire(), exLockRelease() *)

(* Mutant of Uncount: the last shared owner is taken for one of several. *)
UncountOffByOne(t) ==
  /\ Unlock(t, "unsharing", "idle")
  /\ shLockCnt' = shLockCnt - 1
  /\ exLock' = IF shLockCnt = 2 THEN exLock + 1 ELSE exLock
  /\ UNCHANGED shLockPriv

(* The last shared owner posts exLock; with no owner nothing happens. *)
Uncount(t) ==
  /\ Unlock(t, "unsharing", "idle")
  /\ \/ shLockCnt = 0 /\ UNCHANGED <<shLockCnt, exLock>>
     \/ shLockCnt = 1 /\ shLockCnt' = 0 /\ exLock' = exLock + 1
     \/ shLockCnt > 1 /\ shLockCnt' = shLockCnt - 1 /\ UNCHANGED exLock
  /\ UNCHANGED shLockPriv

ExAcquire(t) ==
  /\ Go(t, "idle", "exclusive")
  /\ exLock > 0
  /\ exLock' = exLock - 1
  /\ UNCHANGED <<shLockPriv, shLock, shLockCnt>>

(* exLock is posted only when there is no shared owner; else -1. *)
ExRelease(t) ==
  /\ Unlock(t, "unlocking", "idle")
  /\ exLock' = IF shLockCnt = 0 THEN exLock + 1 ELSE exLock
  /\ UNCHANGED <<shLockPriv, shLockCnt>>

Release(t) ==
  \/ Lock(t, "shared", "unsharing") \/ Uncount(t)
  \/ Lock(t, "exclusive", "unlocking") \/ ExRelease(t)

Next == \E t \in Threads : Ask(t) \/ ExAcquire(t) \/ Acquire(t) \/ Release(t)

Spec == Init /\ [][Next]_vars

(***************************************************************************)
(* A thread that can run does, and an owner releases: nodeSnapshot() holds *)
(* the lock for a loop over a list.  Nobody need ask for a lock.           *)
(***************************************************************************)
Fairness == \A t \in Threads : WF_vars(Acquire(t) \/ Release(t))

FairSpec == Spec /\ Fairness
-----------------------------------------------------------------------------
Sharing   == {t \in Threads : pc[t] \in {"counted", "shared", "unsharing"}}
Excluding == {t \in Threads : pc[t] \in {"exclusive", "unlocking"}}

(* Every variable of klock_c keeps its type; exLock stays binary. *)
TypeOK ==
  /\ shLockPriv \in Threads \cup {Nobody}
  /\ shLock \in Threads \cup {Nobody}
  /\ exLock \in {0, 1}
  /\ shLockCnt \in Nat
  /\ pc \in [Threads -> States]

(* One exclusive owner and no shared one, or shared ones only: also        *)
(* between sem_trywait(exLock) and the look at the count, when the last    *)
(* shared owner may leave and an exclusive one come.                       *)
Exclusion ==
  /\ \A t, u \in Excluding : t = u
  /\ Excluding = {} \/ Sharing = {}

(* shLockCnt counts the shared owners, so exactly the last one posts       *)
(* exLock and exLockRelease() finds no shared owner and posts it too.      *)
CountExact == shLockCnt = Cardinality(Sharing)

(* Once exclusive owners stop coming (the code has none so far), a thread  *)
(* in shLockAcquire() gets the shared lock, or others get it again and     *)
(* again: no thread keeps shLockPriv while it waits for exLock in vain.    *)
SharedGranted ==
  <>[](Excluding = {}) =>
    \A t \in Threads :
      \/ pc[t] \in Asking ~> pc[t] = "shared"
      \/ []<>(\E u \in Threads : pc[u] = "counted")
-----------------------------------------------------------------------------
(* klock_c implements RWLock. *)
Promise ==
  INSTANCE RWLock WITH sharing <- Sharing, excluding <- Excluding

PromiseSpec == Promise!Spec
=============================================================================
