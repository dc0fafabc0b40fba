----------------------------- MODULE KapiProofs -----------------------------
(***************************************************************************)
(* Two data structures of the kapi library: klock_c's exclusion and exact  *)
(* count, proved for any number of threads, and its refinement of RWLock;  *)
(* the references and wrappers of JSON, for any document.                  *)
(***************************************************************************)
EXTENDS KLock, Json, FiniteSetTheorems, TLAPS

(* One thread at a time is in shLockAcquire() past shLockPriv. *)
GateInv == \A t \in Threads : pc[t] \in Gated => shLockPriv = t

(* One thread at a time has shLock. *)
InLock == {"looking", "counting", "unsharing", "unlocking"}

LockInv == \A t \in Threads : pc[t] \in InLock => shLock = t

(* A thread that has exLock for the shared owners and has not counted yet. *)
Carrying == {t \in Threads : pc[t] \in {"count", "counting"}}

(* exLock is free, or has one kind of holder. *)
TokenInv ==
  /\ Exclusion
  /\ \A t \in Carrying : Excluding = {} /\ Sharing = {}
  /\ exLock = 1 <=> Excluding = {} /\ Sharing = {} /\ Carrying = {}

IInv == TypeOK /\ GateInv /\ LockInv /\ TokenInv /\ CountExact

-----------------------------------------------------------------------------
(* Counting the shared owners. *)

(* There are finitely many shared owners, and none exactly if their        *)
(* number is 0.                                                            *)
LEMMA SharingFinite ==
  /\ IsFiniteSet(Sharing)
  /\ Cardinality(Sharing) \in Nat
  /\ Cardinality(Sharing) = 0 <=> Sharing = {}
  <1>1. IsFiniteSet(Sharing)
    BY ThreadsAssumption, FS_Subset DEF Sharing
  <1> QED
    BY <1>1, FS_CardinalityType, FS_EmptySet

(* A further shared owner adds one to their number. *)
LEMMA SharingJoins ==
  ASSUME NEW t \in Threads, t \notin Sharing, Sharing' = Sharing \cup {t}
  PROVE  Cardinality(Sharing)' = Cardinality(Sharing) + 1
  BY SharingFinite, FS_AddElement

(* A shared owner that leaves subtracts one, and was the last if the       *)
(* number was 1.                                                           *)
LEMMA SharingLeaves ==
  ASSUME NEW t \in Sharing, Sharing' = Sharing \ {t}
  PROVE  /\ Cardinality(Sharing) > 0
         /\ Cardinality(Sharing)' = Cardinality(Sharing) - 1
         /\ Cardinality(Sharing) = 1 <=> Sharing' = {}
  <1>1. /\ IsFiniteSet(Sharing \ {t})
        /\ Cardinality(Sharing \ {t}) = Cardinality(Sharing) - 1
    BY SharingFinite, FS_RemoveElement
  <1>2. /\ Cardinality(Sharing \ {t}) \in Nat
        /\ Cardinality(Sharing \ {t}) = 0 <=> Sharing \ {t} = {}
    BY <1>1, FS_CardinalityType, FS_EmptySet
  <1> QED
    BY <1>1, <1>2, SharingFinite

(* Nobody has or asks for the lock. *)
LEMMA InitInv == Init => IInv
  <1> SUFFICES ASSUME Init
               PROVE  IInv
    OBVIOUS
  <1>1. Sharing = {} /\ Excluding = {} /\ Carrying = {}
    BY DEF Init, Sharing, Excluding, Carrying
  <1>2. TypeOK
    BY DEF Init, TypeOK, States, Asking, Gated
  <1>3. GateInv /\ LockInv
    BY DEF Init, GateInv, LockInv, Asking, Gated, InLock
  <1>4. CountExact
    BY <1>1, FS_EmptySet DEF Init, CountExact
  <1>5. TokenInv
    BY <1>1 DEF Init, TokenInv, Exclusion
  <1> QED
    BY <1>2, <1>3, <1>4, <1>5 DEF IInv

-----------------------------------------------------------------------------
(* One step per action. *)

(* Every step of shLockAcquire() and exLockAcquire() keeps the invariant. *)
LEMMA AskStep ==
  ASSUME IInv, NEW t \in Threads, Ask(t) \/ ExAcquire(t) \/ Acquire(t)
  PROVE  IInv'
  <1> USE ThreadsAssumption DEF IInv, TypeOK, States, Asking, Gated, GateInv, LockInv, InLock, TokenInv,
          Exclusion, Carrying, Sharing, Excluding, Go, Lock, Unlock
  <1>1. CASE Ask(t) \/ Enter(t)
    <2>1. TypeOK' /\ GateInv' /\ LockInv' /\ TokenInv'
      BY <1>1 DEF Ask, Enter
    <2>2. Sharing' = Sharing /\ shLockCnt' = shLockCnt
      BY <1>1 DEF Ask, Enter
    <2> QED
      BY <2>1, <2>2 DEF CountExact
  <1>2. CASE ExAcquire(t)
    <2>1. TypeOK' /\ GateInv' /\ LockInv' /\ TokenInv'
      BY <1>2 DEF ExAcquire
    <2>2. Sharing' = Sharing /\ shLockCnt' = shLockCnt
      BY <1>2 DEF ExAcquire
    <2> QED
      BY <2>1, <2>2 DEF CountExact
  <1>3. CASE TryEx(t)
    <2>1. TypeOK' /\ GateInv' /\ LockInv' /\ TokenInv'
      BY <1>3 DEF TryEx
    <2>2. Sharing' = Sharing /\ shLockCnt' = shLockCnt
      BY <1>3 DEF TryEx
    <2> QED
      BY <2>1, <2>2 DEF CountExact
  <1>4. CASE Lock(t, "look", "looking") \/ Lock(t, "count", "counting")
    <2>1. TypeOK' /\ GateInv' /\ LockInv' /\ TokenInv'
      BY <1>4
    <2>2. Sharing' = Sharing /\ shLockCnt' = shLockCnt
      BY <1>4
    <2> QED
      BY <2>1, <2>2 DEF CountExact
  <1>5. CASE TakeEx(t)
    <2>1. TypeOK' /\ GateInv' /\ LockInv' /\ TokenInv'
      BY <1>5 DEF TakeEx
    <2>2. Sharing' = Sharing /\ shLockCnt' = shLockCnt
      BY <1>5 DEF TakeEx
    <2> QED
      BY <2>1, <2>2 DEF CountExact
  <1>6. CASE Pass(t)
    <2>1. TypeOK' /\ GateInv' /\ LockInv' /\ TokenInv'
      BY <1>6 DEF Pass
    <2>2. Sharing' = Sharing /\ shLockCnt' = shLockCnt
      BY <1>6 DEF Pass
    <2> QED
      BY <2>1, <2>2 DEF CountExact
  <1>7. CASE Count(t)
    <2>1. t \notin Sharing /\ Sharing' = Sharing \cup {t} /\ shLockCnt' = shLockCnt + 1
      BY <1>7 DEF Count
    <2>2. CountExact'
      BY <2>1, SharingJoins DEF CountExact
    <2>3. TypeOK' /\ GateInv' /\ LockInv' /\ TokenInv'
      BY <1>7 DEF Count
    <2> QED
      BY <2>2, <2>3
  <1>8. CASE Look(t) /\ shLockCnt <= 0
    <2>1. TypeOK' /\ GateInv' /\ LockInv' /\ TokenInv'
      BY <1>8 DEF Look
    <2>2. Sharing' = Sharing /\ shLockCnt' = shLockCnt
      BY <1>8 DEF Look
    <2> QED
      BY <2>1, <2>2 DEF CountExact
  <1>9. CASE Look(t) /\ shLockCnt > 0
    <2>1. t \notin Sharing /\ Sharing' = Sharing \cup {t} /\ shLockCnt' = shLockCnt + 1
      BY <1>9 DEF Look
    <2>2. CountExact'
      BY <2>1, SharingJoins DEF CountExact
    <2>3. Sharing # {}
      BY ONLY IInv, SharingFinite, <1>9 DEF IInv, CountExact
    <2>4. Excluding = {} /\ Carrying = {} /\ exLock = 0
      BY ONLY IInv, <2>3 DEF IInv, TokenInv, Exclusion, TypeOK
    <2>5. TypeOK' /\ GateInv' /\ LockInv'
      BY <1>9 DEF Look
    <2>6. Excluding' = Excluding /\ Carrying' = Carrying /\ exLock' = exLock
      BY <1>9 DEF Look
    <2>7. TokenInv'
      BY ONLY <2>1, <2>4, <2>6 DEF TokenInv, Exclusion
    <2> QED
      BY <2>2, <2>5, <2>7
  <1>10. shLockCnt <= 0 \/ shLockCnt > 0
    OBVIOUS
  <1> QED
    BY <1>1, <1>2, <1>3, <1>4, <1>5, <1>6, <1>7, <1>8, <1>9, <1>10 DEF Acquire

(* Every step of shLockRelease() and exLockRelease() keeps the invariant. *)
LEMMA ReleaseStep ==
  ASSUME IInv, NEW t \in Threads, Release(t)
  PROVE  IInv'
  <1> USE ThreadsAssumption DEF IInv, TypeOK, States, Asking, Gated, GateInv, LockInv, InLock, TokenInv,
          Exclusion, Carrying, Sharing, Excluding, Go, Lock, Unlock
  <1>1. CASE Lock(t, "shared", "unsharing") \/ Lock(t, "exclusive", "unlocking")
    <2>1. TypeOK' /\ GateInv' /\ LockInv' /\ TokenInv'
      BY <1>1
    <2>2. Sharing' = Sharing /\ shLockCnt' = shLockCnt
      BY <1>1
    <2> QED
      BY <2>1, <2>2 DEF CountExact
  <1>2. CASE ExRelease(t)
    <2>1. t \in Excluding
      BY <1>2 DEF ExRelease
    <2>2. Sharing = {} /\ Carrying = {} /\ Excluding = {t}
      BY ONLY IInv, <2>1 DEF IInv, TokenInv, Exclusion
    <2>3. shLockCnt = 0
      BY ONLY IInv, <2>2, FS_EmptySet DEF IInv, CountExact
    <2>4. exLock = 0
      BY ONLY IInv, <2>2 DEF IInv, TokenInv, TypeOK
    <2>5. TypeOK' /\ GateInv' /\ LockInv'
      BY <1>2, <2>3, <2>4 DEF ExRelease
    <2>6. Excluding' = {} /\ Carrying' = Carrying /\ Sharing' = Sharing /\ exLock' = 1
          /\ shLockCnt' = shLockCnt
      BY <1>2, <2>2, <2>3, <2>4 DEF ExRelease
    <2>7. TokenInv'
      BY ONLY <2>2, <2>6 DEF TokenInv, Exclusion
    <2> QED
      BY <2>5, <2>6, <2>7 DEF CountExact
  <1>3. CASE Uncount(t)
    <2>1. t \in Sharing /\ Sharing' = Sharing \ {t}
      BY <1>3 DEF Uncount
    <2>2. /\ shLockCnt > 0
          /\ Cardinality(Sharing)' = shLockCnt - 1
          /\ shLockCnt = 1 <=> Sharing' = {}
      BY ONLY IInv, <2>1, SharingLeaves DEF IInv, CountExact
    <2>3. Excluding = {} /\ Carrying = {} /\ exLock = 0
      BY ONLY IInv, <2>1 DEF IInv, TokenInv, Exclusion, TypeOK
    <2>4. /\ shLockCnt' = shLockCnt - 1
          /\ exLock' = IF shLockCnt = 1 THEN 1 ELSE 0
      BY <1>3, <2>2, <2>3 DEF Uncount
    <2>5. TypeOK' /\ GateInv' /\ LockInv'
      BY <1>3, <2>2, <2>4 DEF Uncount
    <2>6. Excluding' = Excluding /\ Carrying' = Carrying
      BY <1>3 DEF Uncount
    <2>7. TokenInv'
      BY ONLY <2>2, <2>3, <2>4, <2>6 DEF TokenInv, Exclusion
    <2> QED
      BY <2>2, <2>4, <2>5, <2>7 DEF CountExact
  <1> QED
    BY <1>1, <1>2, <1>3 DEF Release

(* Every step keeps the invariant. *)
LEMMA InvStep == IInv /\ [Next]_vars => IInv'
  <1> SUFFICES ASSUME IInv, [Next]_vars
               PROVE  IInv'
    OBVIOUS
  <1>1. ASSUME NEW t \in Threads, Ask(t) \/ ExAcquire(t) \/ Acquire(t) \/ Release(t)
        PROVE  IInv'
    BY <1>1, AskStep, ReleaseStep
  <1>2. CASE UNCHANGED vars
    BY <1>2 DEF vars, IInv, TypeOK, GateInv, LockInv, TokenInv, Exclusion, Carrying,
                CountExact, Sharing, Excluding
  <1> QED
    BY <1>1, <1>2 DEF Next

(* The whole invariant, in every behaviour. *)
THEOREM LockInvariant == Spec => []IInv
  <1> QED
    BY InitInv, InvStep, PTL DEF Spec

(* klock_c's semaphores stay binary and its count a natural number. *)
THEOREM TypeCorrect == Spec => []TypeOK
  <1>1. IInv => TypeOK
    BY DEF IInv
  <1> QED
    BY <1>1, LockInvariant, PTL

(* An exclusive owner of klock_c is alone, for any number of threads. *)
THEOREM ExclusionCorrect == Spec => []Exclusion
  <1>1. IInv => Exclusion
    BY DEF IInv, TokenInv
  <1> QED
    BY <1>1, LockInvariant, PTL

(* shLockCnt is the number of shared owners, so the last one posts exLock. *)
THEOREM CountCorrect == Spec => []CountExact
  <1>1. IInv => CountExact
    BY DEF IInv
  <1> QED
    BY <1>1, LockInvariant, PTL

-----------------------------------------------------------------------------
(* Refinement of RWLock: a thread shares from its count on. *)

(* An acquisition is a Share, an Exclude or a stutter of RWLock. *)
LEMMA AskRefines ==
  ASSUME IInv, NEW t \in Threads, Ask(t) \/ ExAcquire(t) \/ Acquire(t)
  PROVE  [Promise!Next]_(Promise!vars)
  <1> USE DEF IInv, TypeOK, Go, Lock, Unlock, Sharing, Excluding
  <1>1. CASE ExAcquire(t)
    <2>1. Sharing = {} /\ Excluding = {}
      BY ONLY IInv, <1>1 DEF IInv, TypeOK, TokenInv, ExAcquire
    <2>2. Sharing' = Sharing /\ Excluding' = {t}
      BY ONLY <1>1, <2>1, IInv DEF IInv, TypeOK, ExAcquire, Go, Sharing, Excluding
    <2>3. Promise!Exclude(t)
      BY ONLY <2>1, <2>2 DEF Promise!Exclude
    <2> QED
      BY ONLY <2>3, t \in Threads DEF Promise!Next
  <1>2. CASE Count(t) \/ (Look(t) /\ shLockCnt > 0)
    <2>1. t \notin Sharing /\ Sharing' = Sharing \cup {t} /\ Excluding' = Excluding
      BY <1>2 DEF Count, Look
    <2>2. Excluding = {}
      <3>1. CASE Count(t)
        BY ONLY IInv, t \in Threads, <3>1 DEF IInv, TokenInv, Carrying, Count, Unlock, Go
      <3>2. CASE Look(t) /\ shLockCnt > 0
        <4>1. Sharing # {}
          BY ONLY IInv, SharingFinite, <3>2 DEF IInv, CountExact
        <4> QED
          BY ONLY IInv, <4>1 DEF IInv, TokenInv, Exclusion
      <3> QED
        BY <1>2, <3>1, <3>2
    <2>3. Promise!Share(t)
      BY ONLY <2>1, <2>2 DEF Promise!Share
    <2> QED
      BY ONLY <2>3, t \in Threads DEF Promise!Next
  <1>3. CASE \/ Ask(t) \/ Enter(t) \/ TryEx(t) \/ Lock(t, "look", "looking") \/ TakeEx(t)
             \/ (Look(t) /\ shLockCnt <= 0) \/ Lock(t, "count", "counting") \/ Pass(t)
    <2>1. Sharing' = Sharing /\ Excluding' = Excluding
      BY <1>3 DEF Ask, Enter, TryEx, TakeEx, Look, Pass
    <2> QED
      BY ONLY <2>1 DEF Promise!vars
  <1>4. shLockCnt <= 0 \/ shLockCnt > 0
    OBVIOUS
  <1> QED
    BY <1>1, <1>2, <1>3, <1>4 DEF Acquire

(* A release is an Unshare, an Unexclude or a stutter of RWLock. *)
LEMMA ReleaseRefines ==
  ASSUME IInv, NEW t \in Threads, Release(t)
  PROVE  [Promise!Next]_(Promise!vars)
  <1> USE DEF IInv, TypeOK, Go, Lock, Unlock, Sharing, Excluding
  <1>1. CASE Uncount(t)
    <2>1. t \in Sharing /\ Sharing' = Sharing \ {t} /\ Excluding' = Excluding
      BY <1>1 DEF Uncount
    <2>2. Promise!Unshare(t)
      BY ONLY <2>1 DEF Promise!Unshare
    <2> QED
      BY ONLY <2>2, t \in Threads DEF Promise!Next
  <1>2. CASE ExRelease(t)
    <2>1. t \in Excluding /\ Sharing' = Sharing /\ Excluding' = Excluding \ {t}
      BY <1>2 DEF ExRelease
    <2>2. Excluding = {t}
      BY ONLY IInv, <2>1 DEF IInv, TokenInv, Exclusion
    <2>3. Promise!Unexclude(t)
      BY ONLY <2>1, <2>2 DEF Promise!Unexclude
    <2> QED
      BY ONLY <2>3, t \in Threads DEF Promise!Next
  <1>3. CASE Lock(t, "shared", "unsharing") \/ Lock(t, "exclusive", "unlocking")
    <2>1. Sharing' = Sharing /\ Excluding' = Excluding
      BY <1>3
    <2> QED
      BY ONLY <2>1 DEF Promise!vars
  <1> QED
    BY <1>1, <1>2, <1>3 DEF Release

(* klock_c is a readers-writers lock: shared and exclusive owners exclude   *)
(* each other as RWLock says, whatever the order of its semaphore calls.    *)
THEOREM Refinement == Spec => PromiseSpec
  <1>1. Init => Promise!Init
    BY DEF Init, Promise!Init, Sharing, Excluding
  <1>2. IInv /\ [Next]_vars => [Promise!Next]_(Promise!vars)
    <2> SUFFICES ASSUME IInv, [Next]_vars
                 PROVE  [Promise!Next]_(Promise!vars)
      OBVIOUS
    <2>1. ASSUME NEW t \in Threads, Ask(t) \/ ExAcquire(t) \/ Acquire(t) \/ Release(t)
          PROVE  [Promise!Next]_(Promise!vars)
      BY <2>1, AskRefines, ReleaseRefines
    <2>2. CASE UNCHANGED vars
      BY <2>2 DEF vars, Promise!vars, Sharing, Excluding
    <2> QED
      BY <2>1, <2>2 DEF Next
  <1> QED
    BY <1>1, <1>2, InitInv, InvStep, PTL DEF Spec, PromiseSpec, Promise!Spec
-----------------------------------------------------------------------------
(* JSON.  The invariant: until it is used for what it is not made for, the   *)
(* heap is a tree under the root's value (Tree), and the wrappers are a tree *)
(* under the root's, each at its own element (WrapsOK).                      *)

(* Elements by key or index. *)
KidLists == UNION {[D -> Values] : D \in SUBSET Indices}

(* Elements lie under keys in an object, one behind the other in an array. *)
Shape(v) ==
  /\ v.kind \in Counted
  /\ v.kind = "object" => DOMAIN v.kids \subseteq Keys
  /\ v.kind = "array" => \E n \in 0 .. MaxLen : DOMAIN v.kids = 1 .. n
  /\ v.kind \in {"string", "integer"} => DOMAIN v.kids = {}

HeapOK(heap) ==
  /\ heap \in [Cells -> [kind : Counted \cup {"free"}, kids : KidLists]]
  /\ \A c \in Cells : heap[c] = Free \/ Shape(heap[c])

Used(heap) == {c \in Cells : heap[c] # Free}

(* No element leads to a freed value. *)
KidsUsed(heap) ==
  \A c \in Cells : \A i \in DOMAIN heap[c].kids :
    heap[c].kids[i] \in Used(heap) \cup Singletons

(* A counted value is in one place. *)
OnePlace(heap) ==
  \A c, d \in Cells : \A i \in DOMAIN heap[c].kids, j \in DOMAIN heap[d].kids :
    heap[c].kids[i] = heap[d].kids[j] /\ heap[c].kids[i] \in Cells => c = d /\ i = j

(* The roots are used and in no place; every other value is below them. *)
Rooted(heap, R) ==
  /\ R \subseteq Used(heap)
  /\ \A c \in Cells : \A i \in DOMAIN heap[c].kids : heap[c].kids[i] \notin R
  /\ \A S \in SUBSET Cells : R \subseteq S /\ Closed(heap, S) => Used(heap) \subseteq S

Tree(heap, R) == HeapOK(heap) /\ KidsUsed(heap) /\ OnePlace(heap) /\ Rooted(heap, R)

Live(wr, w) == wr[w] # None
RootSet(wr) == IF Live(wr, Root) THEN {wr[Root].json} \ Singletons ELSE {}

(* The root owns its value, and may be a fault. *)
RootOK(heap, wr) ==
  LET r == wr[Root] IN
  Live(wr, Root) => /\ ~r.borrowed /\ r.parent = None /\ r.json \in Used(heap) \cup Singletons
                    /\ (r.type = Kind(heap, r.json) \/ (r.type = "fault" /\ r.json = Null))

(* Every other wrapper borrows the element that its parent and index name. *)
Leads(heap, wr, w) ==
  LET r == wr[w] IN
  /\ r.borrowed /\ r.parent \in Wraps /\ Live(wr, r.parent)
  /\ r.id \in DOMAIN Kids(heap, wr[r.parent].json)
  /\ Kids(heap, wr[r.parent].json)[r.id] = r.json
  /\ r.type = Kind(heap, r.json)

(* No two wrappers lead to the same element, or to the same counted value. *)
OneWrapper(wr) ==
  \A x, y \in Wraps : Live(wr, x) /\ Live(wr, y) =>
    \/ x = y
    \/ /\ <<wr[x].parent, wr[x].id>> # <<wr[y].parent, wr[y].id>>
       /\ wr[x].json = wr[y].json => wr[x].json \in Singletons

(* All of them are below the root's. *)
UnderRoot(wr) ==
  \A T \in SUBSET Wraps :
    (Live(wr, Root) => Root \in T)
    /\ (\A x \in Wraps : Live(wr, x) /\ wr[x].parent \in T => x \in T)
    => \A x \in Wraps : Live(wr, x) => x \in T

WrapsOK(heap, wr) ==
  /\ wr \in [Wraps -> WrapType \cup {None}]
  /\ RootOK(heap, wr)
  /\ \A w \in Wraps \ {Root} : Live(wr, w) => Leads(heap, wr, w)
  /\ OneWrapper(wr)
  /\ UnderRoot(wr)

Good(heap, wr) == Tree(heap, RootSet(wr)) /\ WrapsOK(heap, wr)

JsonInv == overwritten \in BOOLEAN /\ (~overwritten => ~fault /\ Good(cell, wrap))
-----------------------------------------------------------------------------
(* Heaps *)

(* What HeapOK says of one value. *)
LEMMA HeapFacts ==
  ASSUME NEW h, HeapOK(h), NEW c \in Cells
  PROVE  /\ DOMAIN h[c].kids \subseteq Indices
         /\ \A i \in DOMAIN h[c].kids : h[c].kids[i] \in Values
         /\ h[c] = [kind |-> h[c].kind, kids |-> h[c].kids]
         /\ h[c].kids = [i \in DOMAIN h[c].kids |-> h[c].kids[i]]
         /\ h[c] = Free => DOMAIN h[c].kids = {}
         /\ h[c] # Free => Shape(h[c])
<1>1. h[c] \in [kind : Counted \cup {"free"}, kids : KidLists]
  BY DEF HeapOK
<1>2. h[c].kids \in KidLists
  BY <1>1
<1>3. PICK D \in SUBSET Indices : h[c].kids \in [D -> Values]
  BY <1>2 DEF KidLists
<1>4. h[c] = Free => DOMAIN h[c].kids = {}
  BY DEF Free
<1>5. QED
  BY <1>1, <1>3, <1>4 DEF HeapOK

(* A function over indices is a list of elements. *)
LEMMA KidsList ==
  ASSUME NEW D \in SUBSET Indices, NEW k \in [D -> Values]
  PROVE  k \in KidLists
BY DEF KidLists

(* So is no element. *)
LEMMA NoKids == << >> \in KidLists /\ DOMAIN << >> = {}
<1>1. << >> \in [{} -> Values] /\ DOMAIN << >> = {}
  OBVIOUS
<1>2. QED
  BY <1>1, KidsList

(* A value may be freed, and may be given other elements. *)
LEMMA HeapMade ==
  ASSUME NEW h, h = [c \in Cells |-> h[c]],
         \A c \in Cells : h[c] = Free \/ (h[c].kids \in KidLists /\ Shape(h[c])
                                          /\ h[c] = [kind |-> h[c].kind, kids |-> h[c].kids])
  PROVE  HeapOK(h)
<1>1. Free \in [kind : Counted \cup {"free"}, kids : KidLists]
  BY NoKids DEF Free
<1>2. ASSUME NEW c \in Cells  PROVE h[c] \in [kind : Counted \cup {"free"}, kids : KidLists]
  BY <1>1 DEF Shape
<1>3. QED
  BY <1>2 DEF HeapOK

(* What is below a value is closed, and in every closed set that has it. *)
LEMMA BelowFacts ==
  ASSUME NEW h, HeapOK(h), NEW v \in Values
  PROVE  /\ Below(h, v) \subseteq Cells
         /\ v \in Singletons \/ v \in Below(h, v)
         /\ Closed(h, Below(h, v))
         /\ \A S \in SUBSET Cells :
              {v} \ Singletons \subseteq S /\ Closed(h, S) => Below(h, v) \subseteq S
<1>1. ASSUME NEW c \in Below(h, v), NEW i \in DOMAIN h[c].kids
      PROVE  h[c].kids[i] \in Below(h, v) \cup Singletons
  <2>1. c \in Cells
    BY DEF Below
  <2>2. CASE h[c].kids[i] \in Cells
    <3>1. ASSUME NEW S \in SUBSET Cells, {v} \ Singletons \subseteq S, Closed(h, S)
          PROVE  h[c].kids[i] \in S \cup Singletons
      BY <3>1 DEF Below, Closed
    <3>2. QED
      BY <2>2, <3>1 DEF Below
  <2>3. QED
    BY <2>1, <2>2, HeapFacts DEF Values
<1>2. QED
  BY <1>1 DEF Below, Closed, Values

(* Every value below another is an element of one that is. *)
LEMMA BelowHeld ==
  ASSUME NEW h, HeapOK(h), NEW v \in Values, NEW c \in Below(h, v), c # v
  PROVE  \E d \in Below(h, v) : \E i \in DOMAIN h[d].kids : h[d].kids[i] = c
<1> SUFFICES ASSUME \A d \in Below(h, v) : \A i \in DOMAIN h[d].kids : h[d].kids[i] # c
             PROVE  FALSE
  OBVIOUS
<1> DEFINE S == Below(h, v) \ {c}
<1>1. S \in SUBSET Cells /\ {v} \ Singletons \subseteq S
  BY BelowFacts
<1>2. Closed(h, S)
  BY BelowFacts DEF Closed
<1>3. QED
  BY <1>1, <1>2, BelowFacts

(* Nothing is below a value that is not counted. *)
LEMMA BelowSingle ==
  ASSUME NEW h, HeapOK(h), NEW v \in Singletons
  PROVE  Below(h, v) = {} /\ Decref(h, v) = h
<1>1. v \in Values /\ Closed(h, {}) /\ {v} \ Singletons \subseteq {}
  BY DEF Closed, Values
<1>2. Below(h, v) = {}
  BY <1>1, BelowFacts
<1>3. h = [c \in Cells |-> h[c]]
  BY DEF HeapOK
<1>4. QED
  BY <1>2, <1>3 DEF Decref

(* What lies outside leads in only to the top. *)
LEMMA OthersOut ==
  ASSUME NEW h, NEW R, Tree(h, R), NEW v \in Values,
         NEW c \in Cells \ Below(h, v), NEW i \in DOMAIN h[c].kids,
         h[c].kids[i] \in Below(h, v)
  PROVE  h[c].kids[i] = v
<1> SUFFICES ASSUME h[c].kids[i] # v  PROVE FALSE
  OBVIOUS
<1>1. PICK d \in Below(h, v) : \E j \in DOMAIN h[d].kids : h[d].kids[j] = h[c].kids[i]
  BY BelowHeld DEF Tree
<1>2. d \in Cells /\ h[c].kids[i] \in Cells
  BY BelowFacts DEF Tree
<1>3. QED
  BY <1>1, <1>2 DEF Tree, OnePlace

(* No value is below an element of its own. *)
LEMMA NotBelow ==
  ASSUME NEW h, NEW R, Tree(h, R), NEW d \in Cells, NEW i \in DOMAIN h[d].kids
  PROVE  d \notin Below(h, h[d].kids[i])
<1> DEFINE v == h[d].kids[i]
           S == Cells \ Below(h, v)
<1> SUFFICES ASSUME d \in Below(h, v)  PROVE FALSE
  OBVIOUS
<1>1. v \in Values
  BY HeapFacts DEF Tree
<1>2. v \in Cells \ Singletons
  BY <1>1, BelowSingle DEF Tree, Values
<1>3. R \subseteq S
  <2>1. ASSUME NEW r \in R, r \in Below(h, v)  PROVE FALSE
    <3>1. r # v
      BY <2>1 DEF Tree, Rooted
    <3>2. PICK e \in Below(h, v) : \E j \in DOMAIN h[e].kids : h[e].kids[j] = r
      BY <1>1, <2>1, <3>1, BelowHeld DEF Tree
    <3>3. e \in Cells
      BY <1>1, BelowFacts DEF Tree
    <3>4. QED
      BY <2>1, <3>2, <3>3 DEF Tree, Rooted
  <2>2. R \subseteq Cells
    BY DEF Tree, Rooted, Used
  <2>3. QED
    BY <2>1, <2>2
<1>4. Closed(h, S)
  <2>1. ASSUME NEW c \in S, NEW j \in DOMAIN h[c].kids, h[c].kids[j] \in Below(h, v)
        PROVE  FALSE
    <3>1. h[c].kids[j] = v
      BY <1>1, <2>1, OthersOut
    <3>2. c = d
      BY <1>2, <2>1, <3>1 DEF Tree, OnePlace
    <3>3. QED
      BY <2>1, <3>2
  <2>2. ASSUME NEW c \in S, NEW j \in DOMAIN h[c].kids  PROVE h[c].kids[j] \in Values
    BY HeapFacts DEF Tree
  <2>3. QED
    BY <2>1, <2>2 DEF Closed, Values
<1>5. v \in Used(h)
  BY <1>2 DEF Tree, KidsUsed
<1>6. v \in S
  BY <1>3, <1>4, <1>5 DEF Tree, Rooted
<1>7. QED
  BY <1>1, <1>2, <1>6, BelowFacts DEF Tree
-----------------------------------------------------------------------------
(* Changes of a tree *)

(* The program, or parse, makes a value: another root. *)
LEMMA NewTree ==
  ASSUME NEW h, NEW R, Tree(h, R), NEW c \in Cells, h[c] = Free, NEW kind \in Counted
  PROVE  Tree(New(h, c, kind), R \cup {c})
<1> DEFINE g == New(h, c, kind)
<1>1. /\ g = [d \in Cells |-> g[d]]
      /\ g[c] = [kind |-> kind, kids |-> << >>]
      /\ \A d \in Cells \ {c} : g[d] = h[d]
  BY DEF New, Tree, HeapOK
<1> HIDE DEF g
<1>2. g[c] # Free /\ g[c].kids \in KidLists /\ DOMAIN g[c].kids = {} /\ Shape(g[c])
  <2>1. 0 \in 0 .. MaxLen /\ 1 .. 0 = {}
    BY JsonAssumption
  <2>2. g[c] # Free
    BY <1>1 DEF Free, Counted
  <2>3. Shape(g[c])
    BY <1>1, <2>1, NoKids DEF Shape
  <2>4. QED
    BY <1>1, <2>2, <2>3, NoKids
<1>3. HeapOK(g)
  <2>1. ASSUME NEW d \in Cells \ {c}, h[d] # Free
        PROVE  h[d].kids \in KidLists /\ Shape(h[d]) /\ h[d] = [kind |-> h[d].kind, kids |-> h[d].kids]
    BY <2>1, HeapFacts DEF Tree, HeapOK
  <2>2. ASSUME NEW d \in Cells
        PROVE  g[d] = Free \/ (g[d].kids \in KidLists /\ Shape(g[d])
                               /\ g[d] = [kind |-> g[d].kind, kids |-> g[d].kids])
    BY <1>1, <1>2, <2>1
  <2>3. QED
    BY <1>1, <2>2, HeapMade
<1>4. Used(g) = Used(h) \cup {c} /\ c \notin Used(h)
  BY <1>1, <1>2 DEF Used
<1>5. KidsUsed(g)
  BY <1>1, <1>2, <1>4 DEF Tree, KidsUsed
<1>6. OnePlace(g)
  BY <1>1, <1>2 DEF Tree, OnePlace
<1>7. Rooted(g, R \cup {c})
  <2>1. R \cup {c} \subseteq Used(g)
    BY <1>4 DEF Tree, Rooted
  <2>2. ASSUME NEW d \in Cells, NEW i \in DOMAIN g[d].kids  PROVE g[d].kids[i] \notin R \cup {c}
    <3>1. d # c /\ g[d] = h[d]
      BY <1>1, <1>2
    <3>2. h[d].kids[i] \in Used(h) \cup Singletons
      BY <3>1 DEF Tree, KidsUsed
    <3>3. c \notin Singletons
      BY JsonAssumption DEF Singletons
    <3>4. QED
      BY <1>4, <3>1, <3>2, <3>3 DEF Tree, Rooted
  <2>3. ASSUME NEW S \in SUBSET Cells, R \cup {c} \subseteq S, Closed(g, S)
        PROVE  Used(g) \subseteq S
    <3>1. ASSUME NEW d \in S, NEW i \in DOMAIN h[d].kids  PROVE h[d].kids[i] \in S \cup Singletons
      <4>1. d # c
        BY HeapFacts DEF Tree
      <4>2. QED
        BY <1>1, <2>3, <4>1 DEF Closed
    <3>2. Closed(h, S)
      BY <3>1 DEF Closed
    <3>3. QED
      BY <1>4, <2>3, <3>2 DEF Tree, Rooted
  <2>4. QED
    BY <2>1, <2>2, <2>3 DEF Rooted
<1>8. QED
  BY <1>3, <1>5, <1>6, <1>7 DEF Tree, g

(* json_decref() of what a value points to. *)
LEMMA DecrefView ==
  ASSUME NEW h, HeapOK(h), NEW v \in Values
  PROVE  LET g == Decref(h, v)  B == Below(h, v) IN
         /\ HeapOK(g)
         /\ \A c \in B : g[c] = Free /\ DOMAIN g[c].kids = {}
         /\ \A c \in Cells \ B : g[c] = h[c]
         /\ Used(g) = Used(h) \ B
<1> DEFINE g == Decref(h, v)
           B == Below(h, v)
<1>1. B \subseteq Cells
  BY BelowFacts
<1>2. g = [c \in Cells |-> IF c \in B THEN Free ELSE h[c]]
  BY DEF Decref
<1> HIDE DEF g, B
<1>3. \A c \in B : g[c] = Free /\ DOMAIN g[c].kids = {}
  BY <1>1, <1>2, NoKids DEF Free
<1>4. \A c \in Cells \ B : g[c] = h[c]
  BY <1>2
<1>5. HeapOK(g)
  <2>1. ASSUME NEW d \in Cells, h[d] # Free
        PROVE  h[d].kids \in KidLists /\ Shape(h[d]) /\ h[d] = [kind |-> h[d].kind, kids |-> h[d].kids]
    BY <2>1, HeapFacts DEF HeapOK
  <2>2. ASSUME NEW d \in Cells
        PROVE  g[d] = Free \/ (g[d].kids \in KidLists /\ Shape(g[d])
                               /\ g[d] = [kind |-> g[d].kind, kids |-> g[d].kids])
    BY <1>3, <1>4, <2>1
  <2>3. g = [d \in Cells |-> g[d]]
    BY <1>2
  <2>4. QED
    BY <2>2, <2>3, HeapMade
<1>6. Used(g) = Used(h) \ B
  BY <1>1, <1>3, <1>4 DEF Used
<1>7. QED
  BY <1>3, <1>4, <1>5, <1>6 DEF g, B

(* A root is given up. *)
LEMMA DecrefTree ==
  ASSUME NEW h, NEW R, Tree(h, R), NEW r \in R
  PROVE  Tree(Decref(h, r), R \ {r})
<1> DEFINE g == Decref(h, r)
           B == Below(h, r)
<1>1. r \in Cells /\ r \in Values /\ HeapOK(h)
  BY DEF Tree, Rooted, Used, Values
<1>2. /\ HeapOK(g)
      /\ \A c \in B : g[c] = Free /\ DOMAIN g[c].kids = {}
      /\ \A c \in Cells \ B : g[c] = h[c]
      /\ Used(g) = Used(h) \ B
  BY <1>1, DecrefView
<1>3. B \subseteq Cells /\ r \in B
  <2>1. r \notin Singletons
    BY <1>1, JsonAssumption DEF Singletons
  <2>2. QED
    BY <1>1, <2>1, BelowFacts
<1>4. ASSUME NEW c \in Cells \ B, NEW i \in DOMAIN h[c].kids  PROVE h[c].kids[i] \notin B
  <2>1. h[c].kids[i] # r
    BY DEF Tree, Rooted
  <2>2. QED
    BY <1>1, <2>1, OthersOut
<1>5. ASSUME NEW q \in R \ {r}  PROVE q \notin B
  <2>1. ASSUME q \in B  PROVE FALSE
    <3>1. PICK d \in B : \E i \in DOMAIN h[d].kids : h[d].kids[i] = q
      BY <1>1, <2>1, BelowHeld
    <3>2. QED
      BY <1>3, <3>1 DEF Tree, Rooted
  <2>2. QED
    BY <2>1
<1> HIDE DEF g, B
<1>6. KidsUsed(g)
  <2>1. ASSUME NEW c \in Cells, NEW i \in DOMAIN g[c].kids
        PROVE  g[c].kids[i] \in Used(g) \cup Singletons
    <3>1. c \notin B /\ g[c] = h[c]
      BY <1>2
    <3>2. QED
      BY <1>2, <1>4, <3>1 DEF Tree, KidsUsed
  <2>2. QED
    BY <2>1 DEF KidsUsed
<1>7. OnePlace(g)
  <2>1. ASSUME NEW c \in Cells, NEW d \in Cells, NEW i \in DOMAIN g[c].kids, NEW j \in DOMAIN g[d].kids,
               g[c].kids[i] = g[d].kids[j], g[c].kids[i] \in Cells
        PROVE  c = d /\ i = j
    <3>1. g[c] = h[c] /\ g[d] = h[d]
      BY <1>2
    <3>2. QED
      BY <2>1, <3>1 DEF Tree, OnePlace
  <2>2. QED
    BY <2>1 DEF OnePlace
<1>8. Rooted(g, R \ {r})
  <2>1. R \ {r} \subseteq Used(g)
    BY <1>2, <1>5 DEF Tree, Rooted
  <2>2. ASSUME NEW c \in Cells, NEW i \in DOMAIN g[c].kids  PROVE g[c].kids[i] \notin R \ {r}
    <3>1. g[c] = h[c]
      BY <1>2
    <3>2. QED
      BY <3>1 DEF Tree, Rooted
  <2>3. ASSUME NEW S \in SUBSET Cells, R \ {r} \subseteq S, Closed(g, S)
        PROVE  Used(g) \subseteq S
    <3> DEFINE T == S \cup B
    <3>1. T \in SUBSET Cells /\ R \subseteq T
      BY <1>3, <2>3
    <3>2. ASSUME NEW c \in T, NEW i \in DOMAIN h[c].kids  PROVE h[c].kids[i] \in T \cup Singletons
      <4>1. CASE c \in B
        BY <1>1, <4>1, BelowFacts DEF Closed, B
      <4>2. CASE c \notin B
        BY <1>2, <2>3, <3>1, <4>2 DEF Closed
      <4>3. QED
        BY <4>1, <4>2
    <3>3. Closed(h, T)
      BY <3>2 DEF Closed
    <3>4. Used(h) \subseteq T
      BY <3>1, <3>3 DEF Tree, Rooted
    <3>5. QED
      BY <1>2, <3>4
  <2>4. QED
    BY <2>1, <2>2, <2>3 DEF Rooted
<1>9. QED
  BY <1>2, <1>6, <1>7, <1>8 DEF Tree, g
(* An element is added or filled in: with null, or with a root j that the    *)
(* container is not below.                                                   *)
LEMMA GrowTree ==
  ASSUME NEW h, NEW R, Tree(h, R), NEW g, HeapOK(g),
         NEW at \in Cells, h[at] # Free, g[at] # Free, \A c \in Cells \ {at} : g[c] = h[c],
         NEW i, NEW j \in R \cup Singletons,
         \A k \in DOMAIN h[at].kids : h[at].kids[k] \notin Singletons =>
            k \in DOMAIN g[at].kids /\ g[at].kids[k] = h[at].kids[k],
         \A k \in DOMAIN g[at].kids :
            \/ g[at].kids[k] \in Singletons
            \/ k \in DOMAIN h[at].kids /\ g[at].kids[k] = h[at].kids[k]
            \/ k = i /\ g[at].kids[k] = j,
         i \in DOMAIN g[at].kids /\ g[at].kids[i] = j,
         NEW B \in SUBSET Cells, at \notin B, {j} \ Singletons \subseteq B, Closed(h, B)
  PROVE  Tree(g, R \ {j})
<1>1. Cells \cap Singletons = {} /\ R \subseteq Cells
  BY JsonAssumption DEF Singletons, Tree, Rooted, Used
<1>2. Used(g) = Used(h)
  BY DEF Used
<1>3. KidsUsed(g)
  <2>1. ASSUME NEW k \in DOMAIN g[at].kids  PROVE g[at].kids[k] \in Used(h) \cup Singletons
    BY <1>1 DEF Tree, KidsUsed, Rooted
  <2>2. QED
    BY <1>2, <2>1 DEF Tree, KidsUsed
<1>4. OnePlace(g)
  <2>1. ASSUME NEW c \in Cells, NEW k \in DOMAIN g[c].kids, g[c].kids[k] \in Cells
        PROVE  \/ k \in DOMAIN h[c].kids /\ g[c].kids[k] = h[c].kids[k]
               \/ c = at /\ k = i /\ g[c].kids[k] = j
    BY <1>1, <2>1
  <2>2. ASSUME NEW c \in Cells, NEW k \in DOMAIN h[c].kids, j \in Cells  PROVE h[c].kids[k] # j
    BY <1>1, <2>2 DEF Tree, Rooted
  <2>3. QED
    BY <1>1, <2>1, <2>2 DEF Tree, OnePlace
<1>5. Rooted(g, R \ {j})
  <2>1. ASSUME NEW c \in Cells, NEW k \in DOMAIN g[c].kids  PROVE g[c].kids[k] \notin R \ {j}
    BY <1>1 DEF Tree, Rooted
  <2>2. ASSUME NEW S \in SUBSET Cells, R \ {j} \subseteq S, Closed(g, S)
        PROVE  Used(h) \subseteq S
    <3>1. ASSUME NEW c \in S, NEW k \in DOMAIN h[c].kids  PROVE h[c].kids[k] \in S \cup Singletons
      BY <2>2 DEF Closed
    <3>2. Closed(h, S \cup B)
      BY <3>1 DEF Closed
    <3>3. R \subseteq S \cup B /\ S \cup B \in SUBSET Cells
      BY <1>1, <2>2
    <3>4. Used(h) \subseteq S \cup B
      BY <3>2, <3>3 DEF Tree, Rooted
    <3>5. at \in S
      BY <3>4 DEF Used
    <3>6. j \in S \cup Singletons
      BY <2>2, <3>5 DEF Closed
    <3>7. R \subseteq S /\ Closed(h, S)
      BY <1>1, <2>2, <3>1, <3>6 DEF Closed
    <3>8. QED
      BY <3>7 DEF Tree, Rooted
  <2>3. QED
    BY <1>2, <2>1, <2>2 DEF Tree, Rooted
<1>6. QED
  BY <1>3, <1>4, <1>5 DEF Tree

(* Setting an element that is there, or a new one of an object. *)
LEMMA PutView ==
  ASSUME NEW h, HeapOK(h), NEW at \in Cells, h[at] # Free, NEW j \in Values,
         NEW i \in Indices, i \in DOMAIN h[at].kids \/ (i \in Keys /\ h[at].kind = "object")
  PROVE  LET g == Put(h, at, i, j) IN
         /\ HeapOK(g)
         /\ \A c \in Cells \ {at} : g[c] = h[c]
         /\ g[at] # Free /\ g[at].kind = h[at].kind
         /\ DOMAIN g[at].kids = DOMAIN h[at].kids \cup {i}
         /\ g[at].kids[i] = j
         /\ \A k \in DOMAIN h[at].kids \ {i} : g[at].kids[k] = h[at].kids[k]
<1> DEFINE g == Put(h, at, i, j)
           D == DOMAIN h[at].kids \cup {i}
           list == [k \in D |-> IF k = i THEN j ELSE h[at].kids[k]]
<1>1. /\ DOMAIN h[at].kids \subseteq Indices
      /\ \A k \in DOMAIN h[at].kids : h[at].kids[k] \in Values
      /\ h[at] = [kind |-> h[at].kind, kids |-> h[at].kids]
      /\ Shape(h[at])
  BY HeapFacts
<1>2. g = [h EXCEPT ![at].kids = list]
  BY DEF Put
<1>3. h = [c \in Cells |-> h[c]]
  BY DEF HeapOK
<1>4. list \in [D -> Values] /\ D \in SUBSET Indices
  BY <1>1
<1>5. list \in KidLists /\ DOMAIN list = D
  BY <1>4, KidsList
<1>6. /\ list[i] = j
      /\ \A k \in DOMAIN h[at].kids \ {i} : list[k] = h[at].kids[k]
  OBVIOUS
<1> HIDE DEF list, g
<1>7. g[at] = [kind |-> h[at].kind, kids |-> list]
  BY <1>1, <1>2, <1>3
<1>8. g = [c \in Cells |-> g[c]] /\ \A c \in Cells \ {at} : g[c] = h[c]
  BY <1>2, <1>3
<1>9. Shape(g[at])
  BY <1>1, <1>5, <1>7, JsonAssumption DEF Shape
<1>10. g[at] # Free
  BY <1>7, <1>9 DEF Free, Shape, Counted
<1>11. HeapOK(g)
  <2>1. ASSUME NEW c \in Cells \ {at}, h[c] # Free
        PROVE  h[c].kids \in KidLists /\ Shape(h[c]) /\ h[c] = [kind |-> h[c].kind, kids |-> h[c].kids]
    BY <2>1, HeapFacts DEF HeapOK
  <2>2. g[at].kids \in KidLists /\ g[at] = [kind |-> g[at].kind, kids |-> g[at].kids]
    BY <1>5, <1>7
  <2>3. QED
    BY <1>8, <1>9, <2>1, <2>2, HeapMade
<1>12. QED
  BY <1>5, <1>6, <1>7, <1>8, <1>10, <1>11 DEF g

(* An array is padded. *)
LEMMA PadView ==
  ASSUME NEW h, HeapOK(h), NEW at \in Cells, h[at].kind = "array",
         NEW i \in 1 .. MaxLen, i \notin DOMAIN h[at].kids
  PROVE  LET g == Padded(h, at, i) IN
         /\ HeapOK(g)
         /\ \A c \in Cells \ {at} : g[c] = h[c]
         /\ h[at] # Free /\ g[at] # Free /\ g[at].kind = h[at].kind
         /\ DOMAIN g[at].kids = 1 .. i /\ DOMAIN h[at].kids \subseteq 1 .. i
         /\ \A k \in 1 .. i : g[at].kids[k] = IF k \in DOMAIN h[at].kids THEN h[at].kids[k]
                                              ELSE Null
<1> DEFINE g == Padded(h, at, i)
           list == [k \in 1 .. i |-> IF k \in DOMAIN h[at].kids THEN h[at].kids[k] ELSE Null]
<1>1. /\ \A k \in DOMAIN h[at].kids : h[at].kids[k] \in Values
      /\ h[at] = [kind |-> h[at].kind, kids |-> h[at].kids]
      /\ h[at] # Free /\ Shape(h[at])
  <2>1. h[at] # Free
    BY DEF Free
  <2>2. QED
    BY <2>1, HeapFacts
<1>2. g = [h EXCEPT ![at].kids = list]
  BY DEF Padded
<1>3. h = [c \in Cells |-> h[c]]
  BY DEF HeapOK
<1>4. 1 .. i \in SUBSET Indices /\ Null \in Values
  BY JsonAssumption DEF Indices, Values, Singletons
<1>5. list \in KidLists /\ DOMAIN list = 1 .. i
  BY <1>1, <1>4, KidsList
<1>6. DOMAIN h[at].kids \subseteq 1 .. i
  BY <1>1, JsonAssumption DEF Shape
<1> HIDE DEF g
<1>7. g[at] = [kind |-> h[at].kind, kids |-> list]
  BY <1>1, <1>2, <1>3
<1>8. g = [c \in Cells |-> g[c]] /\ \A c \in Cells \ {at} : g[c] = h[c]
  BY <1>2, <1>3
<1>9. Shape(g[at])
  BY <1>5, <1>7, JsonAssumption DEF Shape, Counted
<1>10. g[at] # Free
  BY <1>7 DEF Free
<1>11. HeapOK(g)
  <2>1. ASSUME NEW c \in Cells \ {at}, h[c] # Free
        PROVE  h[c].kids \in KidLists /\ Shape(h[c]) /\ h[c] = [kind |-> h[c].kind, kids |-> h[c].kids]
    BY <2>1, HeapFacts DEF HeapOK
  <2>2. g[at].kids \in KidLists /\ g[at] = [kind |-> g[at].kind, kids |-> g[at].kids]
    BY <1>5, <1>7
  <2>3. QED
    BY <1>8, <1>9, <2>1, <2>2, HeapMade
<1>12. QED
  BY <1>1, <1>5, <1>6, <1>7, <1>8, <1>10, <1>11 DEF g
(* A deep copy: its top is another root, and a set of its own has it all.    *)
LEMMA CopyTree ==
  ASSUME NEW h, NEW R, Tree(h, R), NEW v \in Used(h) \cup Singletons,
         NEW f \in [Below(h, v) -> {c \in Cells : h[c] = Free}], IsInjective(f)
  PROVE  LET g == Copied(h, f)  j == CopyOf(f, v) IN
         /\ Tree(g, R \cup ({j} \ Singletons))
         /\ \A c \in Used(h) : g[c] = h[c]
         /\ j \in Values
         /\ {j} \ Singletons \subseteq Range(f) /\ Range(f) \in SUBSET Cells
         /\ Closed(g, Range(f)) /\ Range(f) \cap Used(h) = {}
<1> DEFINE S == Below(h, v)
           g == Copied(h, f)
           j == CopyOf(f, v)
           To(x) == CopyOf(f, x)
           list(d) == [i \in DOMAIN h[d].kids |-> To(h[d].kids[i])]
<1>1. Cells \cap Singletons = {} /\ HeapOK(h) /\ v \in Values
  BY JsonAssumption DEF Singletons, Tree, Used, Values
<1>2. /\ S \subseteq Used(h)
      /\ v \in Singletons \/ v \in S
      /\ Closed(h, S)
      /\ \A T \in SUBSET Cells : {v} \ Singletons \subseteq T /\ Closed(h, T) => S \subseteq T
  <2>1. Used(h) \in SUBSET Cells /\ Closed(h, Used(h)) /\ {v} \ Singletons \subseteq Used(h)
    BY DEF Used, Tree, KidsUsed, Closed
  <2>2. QED
    BY <1>1, <2>1, BelowFacts
<1>3. S \subseteq Cells
  BY <1>2 DEF Used
<1>4. /\ \A d \in S : f[d] \in Cells /\ h[f[d]] = Free /\ f[d] \in Range(f)
      /\ \A c \in Range(f) : \E d \in S : c = f[d]
      /\ \A d, e \in S : f[d] = f[e] => d = e
  BY DEF IsInjective, Range
<1>5. Range(f) \subseteq Cells /\ Range(f) \cap Used(h) = {}
  BY <1>4 DEF Used
<1>6. \A d \in S : \A i \in DOMAIN h[d].kids : h[d].kids[i] \in S \cup Singletons
  BY <1>2 DEF Closed
<1>7. \A d \in S : \A i \in DOMAIN h[d].kids :
        \/ h[d].kids[i] \in Singletons /\ To(h[d].kids[i]) = h[d].kids[i]
        \/ h[d].kids[i] \in S /\ To(h[d].kids[i]) = f[h[d].kids[i]]
  BY <1>1, <1>3, <1>6 DEF CopyOf
<1>8. \A d \in S : g[f[d]] = [kind |-> h[d].kind, kids |-> list(d)]
  <2>1. ASSUME NEW d \in S  PROVE g[f[d]] = [kind |-> h[d].kind, kids |-> list(d)]
    <3> DEFINE e == CHOOSE x \in DOMAIN f : f[x] = f[d]
    <3>1. DOMAIN f = S /\ f[d] \in Cells /\ f[d] \in Range(f)
      BY <1>4
    <3>2. e \in S /\ f[e] = f[d]
      BY <3>1
    <3>3. e = d
      BY <1>4, <3>2
    <3>4. g[f[d]] = [kind |-> h[e].kind, kids |-> list(e)]
      BY <3>1 DEF Copied
    <3>5. QED
      BY <3>3, <3>4
  <2>2. QED
    BY <2>1
<1>9. \A c \in Cells \ Range(f) : g[c] = h[c]
  BY DEF Copied
<1>10. g = [c \in Cells |-> g[c]]
  BY DEF Copied
<1>24. \A d \in S : /\ DOMAIN list(d) = DOMAIN h[d].kids
                    /\ \A i \in DOMAIN h[d].kids : list(d)[i] = To(h[d].kids[i])
                    /\ list(d) = [i \in DOMAIN list(d) |-> list(d)[i]]
  OBVIOUS
<1> HIDE DEF g, To, S, list
<1>11. \A d \in S : /\ DOMAIN g[f[d]].kids = DOMAIN h[d].kids
                    /\ \A i \in DOMAIN h[d].kids : g[f[d]].kids[i] = To(h[d].kids[i])
                    /\ g[f[d]].kind = h[d].kind
                    /\ g[f[d]] = [kind |-> g[f[d]].kind, kids |-> g[f[d]].kids]
  <2>1. ASSUME NEW d \in S
        PROVE  /\ DOMAIN g[f[d]].kids = DOMAIN h[d].kids
               /\ \A i \in DOMAIN h[d].kids : g[f[d]].kids[i] = To(h[d].kids[i])
               /\ g[f[d]].kind = h[d].kind
               /\ g[f[d]] = [kind |-> g[f[d]].kind, kids |-> g[f[d]].kids]
    <3>1. PICK k : k = list(d)
      OBVIOUS
    <3>2. g[f[d]] = [kind |-> h[d].kind, kids |-> k]
      BY <1>8, <3>1
    <3>3. DOMAIN k = DOMAIN h[d].kids /\ \A i \in DOMAIN h[d].kids : k[i] = To(h[d].kids[i])
      BY <1>24, <3>1
    <3>4. QED
      BY <3>2, <3>3
  <2>2. QED
    BY <2>1
<1>12. ASSUME NEW d \in S
       PROVE  /\ g[f[d]].kids \in KidLists /\ Shape(g[f[d]]) /\ g[f[d]] # Free
              /\ g[f[d]] = [kind |-> g[f[d]].kind, kids |-> g[f[d]].kids]
  <2>1. h[d] # Free /\ d \in Cells
    BY <1>2 DEF Used
  <2>2. Shape(h[d]) /\ DOMAIN h[d].kids \subseteq Indices
    BY <1>1, <2>1, HeapFacts
  <2>3. \A i \in DOMAIN h[d].kids : To(h[d].kids[i]) \in Values
    BY <1>3, <1>4, <1>5, <1>7 DEF Values
  <2>9. PICK k : k = list(d)
    OBVIOUS
  <2>4. k \in [DOMAIN h[d].kids -> Values]
    BY <1>24, <2>3, <2>9
  <2>10. g[f[d]] = [kind |-> h[d].kind, kids |-> k]
    BY <1>8, <2>9
  <2>5. g[f[d]].kids \in KidLists
    BY <2>2, <2>4, <2>10, KidsList
  <2>6. Shape(g[f[d]])
    BY <1>11, <2>2 DEF Shape
  <2>7. g[f[d]] # Free
    BY <2>6 DEF Free, Shape, Counted
  <2>8. QED
    BY <1>11, <2>5, <2>6, <2>7
<1>13. HeapOK(g)
  <2>1. ASSUME NEW c \in Cells \ Range(f), g[c] # Free
        PROVE  g[c].kids \in KidLists /\ Shape(g[c]) /\ g[c] = [kind |-> g[c].kind, kids |-> g[c].kids]
    BY <1>1, <1>9, <2>1, HeapFacts DEF HeapOK
  <2>2. ASSUME NEW c \in Range(f)
        PROVE  g[c].kids \in KidLists /\ Shape(g[c]) /\ g[c] = [kind |-> g[c].kind, kids |-> g[c].kids]
    <3>1. PICK d \in S : c = f[d]
      BY <1>4
    <3>2. QED
      BY <1>12, <3>1
  <2>3. QED
    BY <1>10, <2>1, <2>2, HeapMade
<1>14. Used(g) = Used(h) \cup Range(f)
  <2>1. \A c \in Range(f) : g[c] # Free
    <3>1. ASSUME NEW c \in Range(f)  PROVE g[c] # Free
      <4>1. PICK d \in S : c = f[d]
        BY <1>4
      <4>2. QED
        BY <1>12, <4>1
    <3>2. QED
      BY <3>1
  <2>2. QED
    BY <1>5, <1>9, <2>1 DEF Used
<1>15. \A c \in Range(f) : \A i \in DOMAIN g[c].kids : g[c].kids[i] \in Range(f) \cup Singletons
  <2>1. ASSUME NEW c \in Range(f), NEW i \in DOMAIN g[c].kids
        PROVE  g[c].kids[i] \in Range(f) \cup Singletons
    <3>1. PICK d \in S : c = f[d]
      BY <1>4
    <3>2. i \in DOMAIN h[d].kids /\ g[c].kids[i] = To(h[d].kids[i])
      BY <1>11, <3>1
    <3>3. QED
      BY <1>4, <1>7, <3>2
  <2>2. QED
    BY <2>1
<1>16. \A c \in Cells \ Range(f) : \A i \in DOMAIN g[c].kids :
          g[c].kids[i] \in Used(h) \cup Singletons
  BY <1>9 DEF Tree, KidsUsed
<1>17. KidsUsed(g)
  BY <1>14, <1>15, <1>16 DEF KidsUsed
<1>18. OnePlace(g)
  <2>1. ASSUME NEW c \in Cells, NEW d \in Cells, NEW k \in DOMAIN g[c].kids, NEW l \in DOMAIN g[d].kids,
               g[c].kids[k] = g[d].kids[l], g[c].kids[k] \in Cells
        PROVE  c = d /\ k = l
    <3>1. CASE c \in Range(f) /\ d \in Range(f)
      <4>1. PICK x \in S : c = f[x]
        BY <1>4, <3>1
      <4>2. PICK y \in S : d = f[y]
        BY <1>4, <3>1
      <4>3. k \in DOMAIN h[x].kids /\ g[c].kids[k] = To(h[x].kids[k])
        BY <1>11, <4>1
      <4>4. l \in DOMAIN h[y].kids /\ g[d].kids[l] = To(h[y].kids[l])
        BY <1>11, <4>2
      <4>5. h[x].kids[k] \in S /\ g[c].kids[k] = f[h[x].kids[k]]
        BY <1>1, <1>7, <2>1, <4>3
      <4>6. h[y].kids[l] \in S /\ g[d].kids[l] = f[h[y].kids[l]]
        BY <1>1, <1>7, <2>1, <4>4
      <4>7. h[x].kids[k] = h[y].kids[l]
        <5>1. PICK t, u : t = h[x].kids[k] /\ u = h[y].kids[l]
          OBVIOUS
        <5>2. t \in S /\ u \in S /\ f[t] = f[u]
          BY ONLY <2>1, <4>5, <4>6, <5>1
        <5>3. t = u
          BY <1>4, <5>2
        <5>4. QED
          BY ONLY <5>1, <5>3
      <4>8. x = y /\ k = l
        BY <1>3, <4>3, <4>4, <4>5, <4>7 DEF Tree, OnePlace
      <4>9. QED
        BY <4>1, <4>2, <4>8
    <3>2. CASE c \notin Range(f) /\ d \notin Range(f)
      BY <1>9, <2>1, <3>2 DEF Tree, OnePlace
    <3>3. CASE c \in Range(f) /\ d \notin Range(f)
      BY <1>1, <1>5, <1>15, <1>16, <2>1, <3>3
    <3>4. CASE c \notin Range(f) /\ d \in Range(f)
      BY <1>1, <1>5, <1>15, <1>16, <2>1, <3>4
    <3>5. QED
      BY <3>1, <3>2, <3>3, <3>4
  <2>2. QED
    BY <2>1 DEF OnePlace
<1>19. j \in Singletons \/ (v \in S /\ j = f[v] /\ j \in Range(f))
  BY <1>1, <1>2, <1>3, <1>4 DEF CopyOf
<1>20. Rooted(g, R \cup ({j} \ Singletons))
  <2> DEFINE Q == R \cup ({j} \ Singletons)
  <2>1. Q \subseteq Used(g)
    BY <1>14, <1>19 DEF Tree, Rooted
  <2>2. ASSUME NEW c \in Cells, NEW k \in DOMAIN g[c].kids, g[c].kids[k] \in Q  PROVE FALSE
    <3>1. CASE c \in Range(f)
      <4>1. g[c].kids[k] = j /\ j \notin Singletons
        <5>1. R \subseteq Used(h) /\ Used(h) \subseteq Cells
          BY DEF Tree, Rooted, Used
        <5>2. g[c].kids[k] \in Range(f) \cup Singletons
          BY <1>15, <3>1
        <5>3. g[c].kids[k] \notin R
          BY <1>1, <1>5, <5>1, <5>2
        <5>4. QED
          BY <2>2, <5>3
      <4>2. PICK x \in S : c = f[x]
        BY <1>4, <3>1
      <4>3. k \in DOMAIN h[x].kids /\ j = To(h[x].kids[k])
        BY <1>11, <4>1, <4>2
      <4>4. v = h[x].kids[k] /\ x \in Cells
        BY <1>1, <1>3, <1>4, <1>7, <1>19, <4>1, <4>3
      <4>5. x \notin S
        BY <4>3, <4>4, NotBelow DEF S
      <4>6. QED
        BY <4>5
    <3>2. CASE c \notin Range(f)
      <4>1. g[c] = h[c] /\ g[c].kids[k] \in Used(h) \cup Singletons
        BY <1>9, <1>16, <3>2
      <4>2. g[c].kids[k] \notin R
        BY <4>1 DEF Tree, Rooted
      <4>3. QED
        BY <1>5, <1>19, <2>2, <4>1, <4>2
    <3>3. QED
      BY <3>1, <3>2
  <2>3. ASSUME NEW T \in SUBSET Cells, Q \subseteq T, Closed(g, T)
        PROVE  Used(g) \subseteq T
    <3>1. Used(h) \subseteq T
      <4>1. ASSUME NEW c \in T, NEW k \in DOMAIN h[c].kids  PROVE h[c].kids[k] \in T \cup Singletons
        <5>1. h[c] # Free
          BY <1>1, <2>3, HeapFacts
        <5>2. g[c] = h[c]
          BY <1>5, <1>9, <2>3, <5>1 DEF Used
        <5>3. QED
          BY <2>3, <5>2 DEF Closed
      <4>2. Closed(h, T) /\ R \subseteq T
        BY <2>3, <4>1 DEF Closed
      <4>3. QED
        BY <4>2 DEF Tree, Rooted
    <3>2. Range(f) \subseteq T
      <4> DEFINE W == {d \in S : f[d] \in T}
      <4>1. ASSUME NEW d \in W, NEW k \in DOMAIN h[d].kids  PROVE h[d].kids[k] \in W \cup Singletons
        <5>1. d \in S /\ f[d] \in T
          OBVIOUS
        <5>2. g[f[d]].kids[k] \in T \cup Singletons /\ g[f[d]].kids[k] = To(h[d].kids[k])
          BY <1>11, <2>3, <5>1 DEF Closed
        <5>3. CASE h[d].kids[k] \in S /\ To(h[d].kids[k]) = f[h[d].kids[k]]
          <6>1. f[h[d].kids[k]] \notin Singletons
            BY <1>1, <1>4, <5>3
          <6>2. QED
            BY <5>2, <5>3, <6>1
        <5>4. QED
          BY <1>7, <5>1, <5>3
      <4>2. Closed(h, W)
        BY <4>1 DEF Closed
      <4>3. W \in SUBSET Cells /\ {v} \ Singletons \subseteq W
        <5>1. ASSUME v \notin Singletons  PROVE v \in S /\ f[v] \in T
          <6>1. v \in S /\ j = f[v]
            BY <1>2, <5>1 DEF CopyOf
          <6>2. j \notin Singletons
            BY <1>1, <1>4, <6>1
          <6>3. QED
            BY <2>3, <6>1, <6>2
        <5>2. QED
          BY <1>3, <5>1
      <4>4. S \subseteq W
        BY <1>2, <4>2, <4>3
      <4>5. QED
        BY <1>4, <4>4
    <3>3. QED
      BY <1>14, <3>1, <3>2
  <2>4. QED
    BY <2>1, <2>2, <2>3 DEF Rooted
<1>21. Closed(g, Range(f))
  BY <1>15 DEF Closed
<1>22. \A c \in Used(h) : g[c] = h[c]
  BY <1>5, <1>9 DEF Used
<1>23. QED
  BY <1>5, <1>13, <1>17, <1>18, <1>19, <1>20, <1>21, <1>22 DEF Tree, g, Values

(* Where the elements of a container are after one is erased. *)
Before(i, m) == IF i \in Keys \/ m < i THEN m ELSE m + 1

(* What stays in a container of which one element is erased. *)
LEMMA RemovedView ==
  ASSUME NEW h, HeapOK(h), NEW d \in Cells, NEW i \in DOMAIN h[d].kids
  PROVE  LET k == h[d].kids  l == Removed(k, i) IN
         /\ l \in KidLists /\ Shape([kind |-> h[d].kind, kids |-> l])
         /\ \A m \in DOMAIN l : Before(i, m) \in DOMAIN k \ {i} /\ l[m] = k[Before(i, m)]
         /\ \A m, n \in DOMAIN l : Before(i, m) = Before(i, n) => m = n
         /\ \A n \in DOMAIN k \ {i} : \E m \in DOMAIN l : n = Before(i, m)
         /\ \A m \in DOMAIN k \ {i} : i \in Keys \/ m < i => m \in DOMAIN l /\ l[m] = k[m]
<1> DEFINE k == h[d].kids
           l == Removed(k, i)
           kind == h[d].kind
<1>1. /\ DOMAIN k \subseteq Indices /\ \A n \in DOMAIN k : k[n] \in Values
      /\ Shape(h[d])
  BY HeapFacts
<1>2. CASE i \in Keys
  <2>1. l = [m \in DOMAIN k \ {i} |-> k[m]]
    BY <1>2 DEF Removed
  <2>2. l \in KidLists /\ DOMAIN l = DOMAIN k \ {i}
    BY <1>1, <2>1, KidsList
  <2>3. kind # "array"
    BY <1>1, <1>2, JsonAssumption DEF Shape
  <2>4. Shape([kind |-> kind, kids |-> l])
    BY <1>1, <2>2, <2>3 DEF Shape
  <2> HIDE DEF k, l
  <2>5. QED
    BY <1>2, <2>1, <2>2, <2>4 DEF Before, k, l
<1>3. CASE i \notin Keys
  <2>1. kind = "array"
    BY <1>1, <1>3 DEF Shape, Counted
  <2>2. PICK n \in 0 .. MaxLen : DOMAIN k = 1 .. n
    BY <1>1, <2>1 DEF Shape
  <2>3. n \in Nat /\ i \in 1 .. n /\ Cardinality(1 .. n) = n
    BY <2>2, JsonAssumption, FS_Interval
  <2>4. l = [m \in 1 .. n - 1 |-> IF m < i THEN k[m] ELSE k[m + 1]]
    BY <1>3, <2>2, <2>3 DEF Removed
  <2>5. 1 .. n - 1 \subseteq Indices
    BY <2>2, <2>3, JsonAssumption DEF Indices
  <2>6. \A m \in 1 .. n - 1 : m \in 1 .. n /\ m + 1 \in 1 .. n
    BY <2>3
  <2>7. l \in [1 .. n - 1 -> Values] /\ DOMAIN l = 1 .. n - 1
    BY <1>1, <2>2, <2>4, <2>6
  <2>8. l \in KidLists
    BY <2>5, <2>7, KidsList
  <2>9. Shape([kind |-> kind, kids |-> l])
    <3>1. n - 1 \in 0 .. MaxLen
      BY <2>2, <2>3, JsonAssumption
    <3>2. QED
      BY <2>1, <2>7, <3>1 DEF Shape, Counted
  <2> HIDE DEF l
  <2>10. ASSUME NEW m \in DOMAIN l
         PROVE  Before(i, m) \in DOMAIN k \ {i} /\ l[m] = k[Before(i, m)]
    BY <1>3, <2>2, <2>3, <2>4, <2>7 DEF Before
  <2>11. ASSUME NEW m \in DOMAIN l, NEW o \in DOMAIN l, Before(i, m) = Before(i, o)
         PROVE  m = o
    BY <1>3, <2>3, <2>7, <2>11 DEF Before
  <2>12. ASSUME NEW o \in DOMAIN k \ {i}  PROVE \E m \in DOMAIN l : o = Before(i, m)
    <3>1. CASE o < i
      <4>1. o \in DOMAIN l /\ o = Before(i, o)
        BY <2>2, <2>3, <2>7, <3>1 DEF Before
      <4>2. QED
        BY <4>1
    <3>2. CASE ~(o < i)
      <4>1. o - 1 \in DOMAIN l /\ o = Before(i, o - 1)
        BY <1>3, <2>2, <2>3, <2>7, <3>2 DEF Before
      <4>2. QED
        BY <4>1
    <3>3. QED
      BY <3>1, <3>2
  <2>13. ASSUME NEW m \in DOMAIN k \ {i}, m < i  PROVE m \in DOMAIN l /\ l[m] = k[m]
    BY <2>2, <2>3, <2>4, <2>7, <2>13
  <2>14. QED
    BY <1>3, <2>8, <2>9, <2>10, <2>11, <2>12, <2>13 DEF l
<1>4. QED
  BY <1>2, <1>3

(* An element is erased, and given up. *)
Erased1(h, d, i) == [Decref(h, h[d].kids[i]) EXCEPT ![d].kids = Removed(@, i)]

(* The others keep theirs, and what is not below it stays. *)
LEMMA EraseTree ==
  ASSUME NEW h, NEW R, Tree(h, R), NEW d \in Cells, NEW i \in DOMAIN h[d].kids
  PROVE  LET g == Erased1(h, d, i)  B == Below(h, h[d].kids[i]) IN
         /\ Tree(g, R)
         /\ d \notin B /\ g[d].kind = h[d].kind
         /\ \A c \in Cells \ (B \cup {d}) : g[c] = h[c]
         /\ \A m \in DOMAIN h[d].kids \ {i} : i \in Keys \/ m < i =>
              m \in DOMAIN g[d].kids /\ g[d].kids[m] = h[d].kids[m]
<1> DEFINE v == h[d].kids[i]
           B == Below(h, v)
           e == Decref(h, v)
           g == Erased1(h, d, i)
           l == Removed(h[d].kids, i)
<1>1. /\ HeapOK(h) /\ v \in Values /\ Cells \cap Singletons = {}
      /\ h[d] = [kind |-> h[d].kind, kids |-> h[d].kids] /\ h[d] # Free
  BY HeapFacts, JsonAssumption DEF Tree, Singletons
<1>2. /\ HeapOK(e)
      /\ \A c \in B : e[c] = Free /\ DOMAIN e[c].kids = {}
      /\ \A c \in Cells \ B : e[c] = h[c]
      /\ Used(e) = Used(h) \ B
  BY <1>1, DecrefView
<1>3. /\ B \subseteq Cells /\ d \notin B
      /\ v \in Singletons \/ v \in B
      /\ Closed(h, B)
  BY <1>1, BelowFacts, NotBelow
<1>4. /\ l \in KidLists /\ Shape([kind |-> h[d].kind, kids |-> l])
      /\ \A m \in DOMAIN l : Before(i, m) \in DOMAIN h[d].kids \ {i} /\ l[m] = h[d].kids[Before(i, m)]
      /\ \A m, n \in DOMAIN l : Before(i, m) = Before(i, n) => m = n
      /\ \A n \in DOMAIN h[d].kids \ {i} : \E m \in DOMAIN l : n = Before(i, m)
      /\ \A m \in DOMAIN h[d].kids \ {i} : i \in Keys \/ m < i => m \in DOMAIN l /\ l[m] = h[d].kids[m]
  BY <1>1, RemovedView
<1>5. ASSUME NEW c \in Cells \ B, NEW n \in DOMAIN h[c].kids, h[c].kids[n] \in B
      PROVE  c = d /\ n = i
  <2>1. h[c].kids[n] = v
    BY <1>1, <1>5, OthersOut
  <2>2. v \in Cells
    BY <1>3, <1>5, <2>1
  <2>3. QED
    BY <2>1, <2>2 DEF Tree, OnePlace
<1>6. e = [c \in Cells |-> e[c]] /\ e[d] = h[d]
  BY <1>2, <1>3 DEF HeapOK
<1>7. g = [e EXCEPT ![d].kids = l]
  BY <1>6 DEF Erased1
<1> HIDE DEF g, e, l, B
<1>8. g[d] = [kind |-> h[d].kind, kids |-> l]
  BY <1>1, <1>6, <1>7
<1>9. /\ g = [c \in Cells |-> g[c]]
      /\ \A c \in Cells \ {d} : g[c] = e[c]
      /\ \A c \in Cells \ (B \cup {d}) : g[c] = h[c]
      /\ \A c \in B : g[c] = Free /\ DOMAIN g[c].kids = {}
  BY <1>2, <1>3, <1>6, <1>7
<1>10. g[d] # Free
  BY <1>4, <1>8 DEF Free, Shape, Counted
<1>11. HeapOK(g)
  <2>1. ASSUME NEW c \in Cells \ {d}, e[c] # Free
        PROVE  e[c].kids \in KidLists /\ Shape(e[c]) /\ e[c] = [kind |-> e[c].kind, kids |-> e[c].kids]
    BY <1>2, <2>1, HeapFacts DEF HeapOK
  <2>2. g[d].kids \in KidLists /\ Shape(g[d]) /\ g[d] = [kind |-> g[d].kind, kids |-> g[d].kids]
    BY <1>4, <1>8
  <2>3. ASSUME NEW c \in Cells
        PROVE  g[c] = Free \/ (g[c].kids \in KidLists /\ Shape(g[c])
                               /\ g[c] = [kind |-> g[c].kind, kids |-> g[c].kids])
    BY <1>9, <2>1, <2>2
  <2>4. QED
    BY <1>9, <2>3, HeapMade
<1>12. Used(g) = Used(h) \ B
  BY <1>1, <1>2, <1>3, <1>9, <1>10 DEF Used
<1>13. g[d].kids = l
  BY <1>8
(* Each element is one that was there, in another place each. *)
<1>14. ASSUME NEW c \in Cells, NEW m \in DOMAIN g[c].kids
       PROVE  /\ c \notin B
              /\ c # d => m \in DOMAIN h[c].kids /\ g[c].kids[m] = h[c].kids[m]
              /\ c = d => Before(i, m) \in DOMAIN h[d].kids \ {i}
                          /\ g[c].kids[m] = h[d].kids[Before(i, m)]
              /\ g[c].kids[m] \notin B
              /\ g[c].kids[m] \in Used(h) \cup Singletons
              /\ g[c].kids[m] \notin R
  <2>1. c \notin B
    BY <1>9
  <2>2. CASE c # d
    <3>1. g[c] = h[c]
      BY <1>9, <2>1, <2>2
    <3>2. g[c].kids[m] \notin B
      BY <1>5, <2>1, <2>2, <3>1
    <3>3. QED
      BY <2>1, <2>2, <3>1, <3>2 DEF Tree, KidsUsed, Rooted
  <2>3. CASE c = d
    <3>1. PICK n \in DOMAIN h[d].kids \ {i} : n = Before(i, m) /\ g[c].kids[m] = h[d].kids[n]
      BY <1>4, <1>13, <2>3
    <3>2. h[d].kids[n] \notin B
      BY <1>3, <1>5, <3>1
    <3>3. QED
      BY <2>1, <2>3, <3>1, <3>2 DEF Tree, KidsUsed, Rooted
  <2>4. QED
    BY <2>2, <2>3
<1>15. KidsUsed(g)
  BY <1>12, <1>14 DEF KidsUsed
<1>16. OnePlace(g)
  <2>1. ASSUME NEW c \in Cells, NEW b \in Cells, NEW m \in DOMAIN g[c].kids, NEW n \in DOMAIN g[b].kids,
               g[c].kids[m] = g[b].kids[n], g[c].kids[m] \in Cells
        PROVE  c = b /\ m = n
    <3>1. PICK x \in DOMAIN h[c].kids :
            /\ h[c].kids[x] = g[c].kids[m]
            /\ x = IF c = d THEN Before(i, m) ELSE m
      BY <1>14
    <3>2. PICK y \in DOMAIN h[b].kids :
            /\ h[b].kids[y] = g[b].kids[n]
            /\ y = IF b = d THEN Before(i, n) ELSE n
      BY <1>14
    <3>3. c = b /\ x = y
      BY <2>1, <3>1, <3>2 DEF Tree, OnePlace
    <3>4. CASE c = d
      BY <1>4, <1>13, <3>1, <3>2, <3>3, <3>4
    <3>5. CASE c # d
      BY <3>1, <3>2, <3>3, <3>5
    <3>6. QED
      BY <3>3, <3>4, <3>5
  <2>2. QED
    BY <2>1 DEF OnePlace
<1>17. Rooted(g, R)
  <2>1. R \subseteq Used(g)
    <3>1. ASSUME NEW r \in R, r \in B  PROVE FALSE
      <4>1. r # v
        BY DEF Tree, Rooted
      <4>2. PICK c \in B : \E n \in DOMAIN h[c].kids : h[c].kids[n] = r
        BY <1>1, <3>1, <4>1, BelowHeld DEF B
      <4>3. QED
        BY <1>3, <4>2 DEF Tree, Rooted
    <3>2. QED
      BY <1>12, <3>1 DEF Tree, Rooted
  <2>2. ASSUME NEW S \in SUBSET Cells, R \subseteq S, Closed(g, S)
        PROVE  Used(g) \subseteq S
    <3> DEFINE T == S \cup B
    <3>1. T \in SUBSET Cells /\ R \subseteq T
      BY <1>3, <2>2
    <3>2. ASSUME NEW c \in T, NEW n \in DOMAIN h[c].kids  PROVE h[c].kids[n] \in T \cup Singletons
      <4>1. CASE c \in B
        BY <1>3, <4>1 DEF Closed
      <4>2. CASE c \in S \ B /\ c # d
        BY <1>9, <2>2, <4>2 DEF Closed
      <4>3. CASE c = d /\ c \in S /\ n # i
        <5>1. PICK m \in DOMAIN l : n = Before(i, m)
          BY <1>4, <4>3
        <5>2. g[d].kids[m] = h[d].kids[n]
          BY <1>4, <1>13, <5>1
        <5>3. QED
          BY <1>13, <2>2, <4>3, <5>1, <5>2 DEF Closed
      <4>4. CASE c = d /\ n = i
        BY <1>3, <4>4
      <4>5. QED
        BY <4>1, <4>2, <4>3, <4>4
    <3>3. Closed(h, T)
      BY <3>2 DEF Closed
    <3>4. Used(h) \subseteq T
      BY <3>1, <3>3 DEF Tree, Rooted
    <3>5. QED
      BY <1>12, <3>4
  <2>3. QED
    BY <1>14, <2>1, <2>2 DEF Rooted
<1>18. g[d].kind = h[d].kind
  BY <1>8
<1>19. QED
  BY <1>3, <1>4, <1>9, <1>11, <1>13, <1>15, <1>16, <1>17, <1>18 DEF Tree, g, B
-----------------------------------------------------------------------------
(* Wrappers *)

(* Without any wrapper but the root's there is little to keep. *)
LEMMA OnlyRoot ==
  ASSUME NEW h, NEW wr \in [Wraps -> WrapType \cup {None}], Tree(h, RootSet(wr)),
         RootOK(h, wr), \A x \in Wraps \ {Root} : wr[x] = None
  PROVE  Good(h, wr)
BY DEF Good, WrapsOK, OneWrapper, UnderRoot, Live

(* What the invariant says of a wrapper's value ... *)
LEMMA ValueUsed ==
  ASSUME NEW h, NEW wr, Good(h, wr), NEW w \in Wraps, Live(wr, w)
  PROVE  /\ wr[w].json \in Used(h) \cup Singletons
         /\ wr[w].type = Kind(h, wr[w].json) \/ (w = Root /\ wr[w].type = "fault" /\ wr[w].json = Null)
         /\ wr[w] \in WrapType
<1>1. CASE w = Root
  BY <1>1 DEF Good, WrapsOK, RootOK, Live
<1>2. CASE w # Root
  <2> DEFINE c == wr[wr[w].parent].json
  <2>1. Leads(h, wr, w) /\ wr[w] \in WrapType
    BY <1>2 DEF Good, WrapsOK, Live
  <2>2. wr[w].parent \in Wraps /\ wr[wr[w].parent] \in WrapType
    BY <2>1 DEF Leads, Good, WrapsOK, Live
  <2>3. c \in Cells \ Singletons /\ wr[w].id \in DOMAIN h[c].kids /\ h[c].kids[wr[w].id] = wr[w].json
    <3>1. c \in Values
      BY <2>2 DEF WrapType
    <3>2. c \notin Singletons
      BY <2>1, NoKids DEF Leads, Kids
    <3>3. QED
      BY <2>1, <3>1, <3>2 DEF Leads, Kids, Values
  <2>4. wr[w].json \in Used(h) \cup Singletons
    BY <2>3 DEF Good, Tree, KidsUsed
  <2>5. QED
    BY <2>1, <2>4 DEF Leads
<1>3. QED
  BY <1>1, <1>2

(* ... and of its parent's: the wrapper is over an element of a used cell. *)
OverElement(h, wr, w) ==
  LET p == wr[w].parent  c == wr[p].json  i == wr[w].id IN
  /\ p \in Wraps /\ Live(wr, p) /\ wr[w].borrowed
  /\ c \in Cells \ Singletons /\ c \in Used(h)
  /\ i \in DOMAIN h[c].kids /\ h[c].kids[i] = wr[w].json /\ i \in Indices
  /\ wr[w].type = Kind(h, wr[w].json)

(* A wrapper in use, other than the root's, is over such an element. *)
LEMMA ParentUsed ==
  ASSUME NEW h, NEW wr, Good(h, wr), NEW w \in Wraps \ {Root}, Live(wr, w)
  PROVE  OverElement(h, wr, w)
<1> DEFINE p == wr[w].parent
           c == wr[p].json
<1>1. Leads(h, wr, w)
  BY DEF Good, WrapsOK, Live
<1>2. p \in Wraps /\ Live(wr, p)
  BY <1>1 DEF Leads
<1>3. c \in Used(h) \cup Singletons
  BY <1>2, ValueUsed
<1>4. c \notin Singletons
  BY <1>1, NoKids DEF Leads, Kids
<1>5. c \in Cells /\ c \in Used(h)
  BY <1>3, <1>4 DEF Used
<1>6. wr[w].id \in DOMAIN h[c].kids
  BY <1>1, <1>4 DEF Leads, Kids
<1>7. wr[w].id \in Indices
  BY <1>5, <1>6, HeapFacts DEF Good, Tree
<1>8. QED
  BY <1>1, <1>2, <1>4, <1>5, <1>6, <1>7 DEF OverElement, Leads, Kids

(* The kind of a value that is used. *)
LEMMA KindOf ==
  ASSUME NEW h, HeapOK(h), NEW v \in Used(h) \cup Singletons
  PROVE  /\ Kind(h, v) \in Counted \cup {"null", "true"}
         /\ Kind(h, v) = "null" => v = Null
         /\ Kind(h, v) \in Counted <=> v \notin Singletons
         /\ v \notin Singletons => v \in Cells /\ Kind(h, v) = h[v].kind
<1>1. Null # True /\ Cells \cap Singletons = {} /\ Singletons = {Null, True}
  BY JsonAssumption DEF Singletons
<1>2. CASE v \in Singletons
  BY <1>1, <1>2 DEF Kind, Counted
<1>3. CASE v \notin Singletons
  <2>1. v \in Cells /\ h[v] # Free
    BY <1>3 DEF Used
  <2>2. h[v].kind \in Counted
    BY <2>1, HeapFacts DEF Shape
  <2>3. Kind(h, v) = h[v].kind
    BY <1>1, <1>3 DEF Kind
  <2>4. QED
    BY <1>3, <2>1, <2>2, <2>3 DEF Counted
<1>4. QED
  BY <1>2, <1>3

(* A value has been made for an assignment, apart from all that is there. *)
Grown(heap, j) ==
  /\ \A c \in Used(cell) : heap[c] = cell[c]
  /\ Tree(heap, RootSet(wrap) \cup ({j} \ Singletons))
  /\ j \in Values /\ j \notin Used(cell)
  /\ \E B \in SUBSET Cells :
       {j} \ Singletons \subseteq B /\ Closed(heap, B) /\ B \cap Used(cell) = {}

(* A new container or text is one ... *)
LEMMA GrownNew ==
  ASSUME Good(cell, wrap), NEW c \in FreeCells, NEW kind \in Counted
  PROVE  Grown(New(cell, c, kind), c)
<1> DEFINE g == New(cell, c, kind)
<1>1. c \in Cells /\ cell[c] = Free /\ c \notin Used(cell) /\ {c} \ Singletons = {c}
  BY JsonAssumption DEF FreeCells, Used, Singletons
<1>2. g[c] = [kind |-> kind, kids |-> << >>] /\ \A d \in Cells \ {c} : g[d] = cell[d]
  BY <1>1 DEF New, Good, Tree, HeapOK
<1>3. Tree(g, RootSet(wrap) \cup {c})
  BY <1>1, NewTree DEF Good
<1>4. Closed(g, {c})
  <2>1. DOMAIN g[c].kids = {}
    BY <1>2, NoKids
  <2>2. QED
    BY <2>1 DEF Closed
<1> HIDE DEF g
<1>5. \A d \in Used(cell) : g[d] = cell[d]
  BY <1>1, <1>2 DEF Used
<1>6. {c} \in SUBSET Cells /\ {c} \cap Used(cell) = {}
  BY <1>1
<1>7. QED
  BY <1>1, <1>3, <1>4, <1>5, <1>6 DEF Grown, Values, g

(* ... true needs none ... *)
LEMMA GrownTrue ==
  ASSUME Good(cell, wrap)
  PROVE  Grown(cell, True)
<1>1. True \in Singletons /\ True \in Values /\ True \notin Used(cell) /\ {True} \ Singletons = {}
  BY JsonAssumption DEF Singletons, Values, Used
<1>2. RootSet(wrap) \cup {} = RootSet(wrap)
  OBVIOUS
<1>3. Closed(cell, {}) /\ {} \in SUBSET Cells
  BY DEF Closed
<1>4. QED
  BY <1>1, <1>2, <1>3 DEF Grown, Good

(* ... and a deep copy shares nothing with what it is a copy of. *)
LEMMA GrownCopy ==
  ASSUME Good(cell, wrap), NEW w \in Wraps, Live(wrap, w),
         NEW f \in [Below(cell, wrap[w].json) -> FreeCells], IsInjective(f)
  PROVE  Grown(Copied(cell, f), CopyOf(f, wrap[w].json))
<1> DEFINE v == wrap[w].json
           j == CopyOf(f, v)
           g == Copied(cell, f)
<1>1. v \in Used(cell) \cup Singletons
  BY ValueUsed
<1>2. FreeCells = {c \in Cells : cell[c] = Free}
  BY DEF FreeCells
<1>3. /\ Tree(g, RootSet(wrap) \cup ({j} \ Singletons))
      /\ \A c \in Used(cell) : g[c] = cell[c]
      /\ j \in Values
      /\ {j} \ Singletons \subseteq Range(f) /\ Range(f) \in SUBSET Cells
      /\ Closed(g, Range(f)) /\ Range(f) \cap Used(cell) = {}
  BY <1>1, <1>2, CopyTree DEF Good
<1>4. j \notin Used(cell)
  <2>1. Cells \cap Singletons = {}
    BY JsonAssumption DEF Singletons
  <2>2. QED
    BY <1>3, <2>1 DEF Used
<1>5. QED
  BY <1>3, <1>4 DEF Grown

(* A document whose outermost value is null or true has one wrapper.         *)
LEMMA RootAlone ==
  ASSUME NEW h, NEW wr, Good(h, wr), Live(wr, Root), wr[Root].json \in Singletons
  PROVE  \A x \in Wraps \ {Root} : wr[x] = None
<1>1. ASSUME NEW x \in Wraps, Live(wr, x), wr[x].parent \in {Root}  PROVE x \in {Root}
  BY <1>1, ParentUsed DEF OverElement
<1>2. Root \in Wraps
  BY JsonAssumption
<1>3. \A x \in Wraps : Live(wr, x) => x \in {Root}
  BY <1>1, <1>2 DEF Good, WrapsOK, UnderRoot
<1>4. QED
  BY <1>3 DEF Live

(* The wrapper with nothing above it is the root's. *)
LEMMA NoParent ==
  ASSUME NEW h, NEW wr, Good(h, wr), NEW w \in Wraps, Live(wr, w)
  PROVE  wr[w].parent = None <=> w = Root
<1>1. CASE w = Root
  BY <1>1 DEF Good, WrapsOK, RootOK
<1>2. CASE w # Root
  BY <1>2, ParentUsed, JsonAssumption DEF OverElement
<1>3. QED
  BY <1>1, <1>2

(* Values that stay, with their kinds, leave the wrappers' types right. *)
LEMMA SameKind ==
  ASSUME NEW h, NEW g, NEW v \in Used(h) \cup Singletons,
         \A c \in Used(h) : g[c] # Free /\ g[c].kind = h[c].kind
  PROVE  Kind(g, v) = Kind(h, v) /\ v \in Used(g) \cup Singletons
BY JsonAssumption DEF Used, Kind, Singletons

(* The value of a wrapper that leads to null or true is replaced.            *)
LEMMA SetGood ==
  ASSUME Good(cell, wrap), NEW w \in Wraps, Live(wrap, w), wrap[w].json \in Singletons,
         NEW h, NEW j, Grown(h, j)
  PROVE  LET p  == wrap[w].parent
             g  == IF p = None THEN h ELSE Put(h, wrap[p].json, wrap[w].id, j)
             wr == [wrap EXCEPT ![w] = Wrapper(h, j, @.borrowed \/ p # None, p, @.id)]
         IN  Good(g, wr)
<1> DEFINE p  == wrap[w].parent
           i  == wrap[w].id
           at == wrap[p].json
           g  == IF p = None THEN h ELSE Put(h, at, i, j)
           new == [json |-> j, type |-> Kind(h, j), borrowed |-> wrap[w].borrowed \/ p # None,
                   parent |-> p, id |-> i]
           wr == [wrap EXCEPT ![w] = Wrapper(h, j, @.borrowed \/ p # None, p, @.id)]
<1>1. wrap \in [Wraps -> WrapType \cup {None}] /\ wrap[w] \in WrapType /\ Root \in Wraps
  BY ValueUsed, JsonAssumption DEF Good, WrapsOK
<1>2. Cells \cap Singletons = {} /\ None \notin Wraps /\ RootSet(wrap) \subseteq Used(cell)
  BY JsonAssumption DEF Singletons, Good, Tree, Rooted
<1>3. HeapOK(h) /\ Used(cell) \subseteq Used(h) /\ j \in Used(h) \cup Singletons
  BY DEF Grown, Tree, Rooted, Used, Values
<1>4. Kind(h, j) \in Counted \cup {"null", "true"}
  BY <1>3, KindOf
<1>5. new \in WrapType
  BY <1>1, <1>4 DEF WrapType, Grown, Values
<1>6. new # None
  BY <1>5, JsonAssumption
<1>7. wr[w] = new /\ \A x \in Wraps \ {w} : wr[x] = wrap[x]
  BY <1>1 DEF Wrapper
<1>8. wr \in [Wraps -> WrapType \cup {None}]
  BY <1>1, <1>5 DEF Wrapper
<1>9. \A x \in Wraps : Live(wr, x) <=> Live(wrap, x)
  BY <1>6, <1>7 DEF Live
<1>10. \A x \in Wraps : wr[x].parent = wrap[x].parent \/ wrap[x] = None
  BY <1>7
<1> HIDE DEF wr
<1>11. CASE p = None
  <2>1. w = Root /\ g = h
    BY <1>11, NoParent
  <2>2. RootSet(wrap) = {} /\ RootSet(wr) = {j} \ Singletons
    BY <2>1, <1>7, <1>9 DEF RootSet
  <2>3. Tree(h, RootSet(wr))
    BY <2>2 DEF Grown
  <2>4. RootOK(h, wr)
    <3>1. ~wrap[Root].borrowed
      BY <2>1 DEF RootOK, Good, WrapsOK
    <3>2. new.borrowed = FALSE /\ new.parent = None /\ new.json = j /\ new.type = Kind(h, j)
      BY <1>11, <2>1, <3>1
    <3> HIDE DEF new
    <3>3. QED
      BY <1>3, <1>7, <2>1, <3>2 DEF RootOK
  <2>5. \A x \in Wraps \ {Root} : wr[x] = None
    BY <2>1, <1>7, RootAlone
  <2>6. QED
    BY <2>1, <2>3, <2>4, <2>5, <1>8, OnlyRoot DEF wr
<1>12. CASE p # None
  <2>1. w # Root /\ p \in Wraps /\ Live(wrap, p) /\ at \in Used(cell) /\ at \notin Singletons
        /\ i \in DOMAIN cell[at].kids /\ cell[at].kids[i] = wrap[w].json /\ i \in Indices
    <3>1. Good(cell, wrap) /\ w \in Wraps /\ Live(wrap, w)
      OBVIOUS
    <3>2. w # Root
      BY ONLY <3>1, <1>12, NoParent
    <3>3. OverElement(cell, wrap, w)
      BY ONLY <3>1, <3>2, ParentUsed
    <3>4. QED
      BY ONLY <3>2, <3>3 DEF OverElement
  <2>2. at \in Cells /\ h[at] = cell[at] /\ h[at] # Free
    BY <2>1 DEF Used, Grown
  <2>3. g = Put(h, at, i, j) /\ j \in Values
    BY <1>12 DEF Grown
  <2> HIDE DEF g
  <2>4. /\ HeapOK(g)
        /\ \A c \in Cells \ {at} : g[c] = h[c]
        /\ g[at] # Free /\ g[at].kind = h[at].kind
        /\ DOMAIN g[at].kids = DOMAIN h[at].kids \cup {i}
        /\ g[at].kids[i] = j
        /\ \A k \in DOMAIN h[at].kids \ {i} : g[at].kids[k] = h[at].kids[k]
    <3>1. i \in DOMAIN h[at].kids
      BY <2>1, <2>2
    <3> HIDE DEF i, at
    <3>2. QED
      BY <1>3, <2>1, <2>2, <2>3, <3>1, PutView
  <2> DEFINE R == RootSet(wrap) \cup ({j} \ Singletons)
  <2>5. PICK B \in SUBSET Cells :
          {j} \ Singletons \subseteq B /\ Closed(h, B) /\ B \cap Used(cell) = {}
    BY DEF Grown
  <2>6. Tree(h, R) /\ at \notin B /\ j \in R \cup Singletons
    BY <2>1, <2>5 DEF Grown
  <2>7. Tree(g, R \ {j})
    <3>1. \A k \in DOMAIN h[at].kids : h[at].kids[k] \notin Singletons =>
            k \in DOMAIN g[at].kids /\ g[at].kids[k] = h[at].kids[k]
      BY <2>1, <2>2, <2>4
    <3>2. \A k \in DOMAIN g[at].kids :
            \/ g[at].kids[k] \in Singletons
            \/ k \in DOMAIN h[at].kids /\ g[at].kids[k] = h[at].kids[k]
            \/ k = i /\ g[at].kids[k] = j
      BY <2>4
    <3>3. i \in DOMAIN g[at].kids /\ g[at].kids[i] = j
      BY <2>4
    <3> HIDE DEF R
    <3>4. QED
      BY <2>2, <2>4, <2>5, <2>6, <3>1, <3>2, <3>3, GrowTree
  <2>8. R \ {j} = RootSet(wr)
    <3>1. RootSet(wr) = RootSet(wrap)
      BY <2>1, <1>1, <1>7, <1>9 DEF RootSet
    <3>2. j \notin RootSet(wrap)
      BY <1>2 DEF Grown
    <3>3. QED
      BY <3>1, <3>2
  <2>9. \A c \in Used(cell) : g[c] # Free /\ g[c].kind = cell[c].kind
    BY <1>3, <2>2, <2>4 DEF Grown, Used
  <2>10. \A c \in Used(h) : g[c] # Free /\ g[c].kind = h[c].kind
    BY <2>2, <2>4 DEF Used
  <2>11. RootOK(g, wr)
    <3>1. wr[Root] = wrap[Root] /\ (Live(wr, Root) => Live(wrap, Root))
      BY <1>1, <1>7, <1>9, <2>1
    <3>2. ASSUME Live(wr, Root)
          PROVE  Kind(g, wrap[Root].json) = Kind(cell, wrap[Root].json)
                 /\ wrap[Root].json \in Used(g) \cup Singletons
      BY <3>1, <3>2, <1>1, <2>9, ValueUsed, SameKind
    <3>3. QED
      BY <3>1, <3>2 DEF RootOK, Good, WrapsOK
  <2>12. ASSUME NEW x \in Wraps \ {Root}, Live(wr, x)  PROVE Leads(g, wr, x)
    <3> DEFINE q == wrap[x].parent
               c == wrap[q].json
               k == wrap[x].id
    <3>1. /\ q \in Wraps /\ Live(wrap, q) /\ wrap[x].borrowed
          /\ c \in Cells \ Singletons /\ c \in Used(cell)
          /\ k \in DOMAIN cell[c].kids /\ cell[c].kids[k] = wrap[x].json
          /\ wrap[x].type = Kind(cell, wrap[x].json)
      <4>1. Good(cell, wrap) /\ x \in Wraps \ {Root} /\ Live(wrap, x)
        BY <1>9, <2>12
      <4>2. OverElement(cell, wrap, x)
        BY ONLY <4>1, ParentUsed
      <4>3. QED
        BY ONLY <4>2 DEF OverElement
    <3>2. q # w /\ wr[q] = wrap[q] /\ Live(wr, q) /\ Kids(g, c) = g[c].kids
      BY <1>7, <1>9, <3>1 DEF Kids
    <3>3. CASE x = w
      <4>1. Kind(g, j) = Kind(h, j)
        BY <1>3, <2>10, SameKind
      <4>2. wr[x] = new /\ c = at /\ k = i
        BY <1>7, <3>3
      <4>3. new.borrowed /\ new.parent = p /\ new.id = i /\ new.json = j /\ new.type = Kind(h, j)
        BY <1>12
      <4>4. i \in DOMAIN g[at].kids /\ g[at].kids[i] = j
        BY <2>4
      <4>5. q = p /\ Kids(g, at) = g[at].kids
        BY <2>1, <3>3 DEF Kids
      <4> HIDE DEF new
      <4>6. QED
        <5>1. /\ wr[x].parent = p /\ wr[x].id = i /\ wr[x].json = j
              /\ wr[x].borrowed /\ wr[x].type = Kind(g, j)
          BY ONLY <4>1, <4>2, <4>3
        <5>2. p \in Wraps /\ Live(wr, p) /\ wr[p].json = at
          BY ONLY <3>1, <3>2, <4>2, <4>5
        <5>3. QED
          BY ONLY <3>1, <3>2, <4>2, <4>4, <4>5, <5>1, <5>2 DEF Leads
    <3>4. CASE x # w
      <4>1. wr[x] = wrap[x]
        BY <1>7, <3>4
      <4>2. Kind(g, wrap[x].json) = Kind(cell, wrap[x].json)
        BY <1>9, <2>9, <2>12, ValueUsed, SameKind
      <4>3. k \in DOMAIN g[c].kids /\ g[c].kids[k] = cell[c].kids[k]
        <5>1. CASE c = at
          <6>1. q = p
            BY <2>1, <3>1, <5>1 DEF Good, WrapsOK, OneWrapper
          <6>2. k # i
            BY <3>4, <6>1, <1>9, <2>12 DEF Good, WrapsOK, OneWrapper
          <6>3. QED
            <7>1. k \in DOMAIN h[at].kids \ {i} /\ h[at].kids = cell[at].kids
              BY <2>2, <3>1, <5>1, <6>2
            <7> HIDE DEF k, c, at, i
            <7>2. k \in DOMAIN g[at].kids /\ g[at].kids[k] = h[at].kids[k]
              BY ONLY <2>4, <7>1
            <7>3. QED
              BY ONLY <5>1, <7>1, <7>2
        <5>2. CASE c # at
          <6>1. h[c] = cell[c]
            BY <3>1 DEF Grown
          <6>2. g[c] = h[c]
            BY <2>4, <3>1, <5>2
          <6> HIDE DEF k, c
          <6>3. QED
            BY ONLY <3>1, <6>1, <6>2
        <5>3. QED
          BY <5>1, <5>2
      <4>4. QED
        BY <3>1, <3>2, <4>1, <4>2, <4>3 DEF Leads
    <3>5. QED
      BY <3>3, <3>4
  <2>13. OneWrapper(wr)
    <3>1. SUFFICES ASSUME NEW x \in Wraps, NEW y \in Wraps, Live(wr, x), Live(wr, y), x # y
                   PROVE  /\ <<wr[x].parent, wr[x].id>> # <<wr[y].parent, wr[y].id>>
                          /\ wr[x].json = wr[y].json => wr[x].json \in Singletons
      BY DEF OneWrapper
    <3>2. /\ <<wrap[x].parent, wrap[x].id>> # <<wrap[y].parent, wrap[y].id>>
          /\ wrap[x].json = wrap[y].json => wrap[x].json \in Singletons
      BY <1>9, <3>1 DEF Good, WrapsOK, OneWrapper
    <3>3. new.parent = wrap[w].parent /\ new.id = wrap[w].id /\ new.json = j
      OBVIOUS
    <3>4. j \notin Used(cell)
      BY DEF Grown
    <3>5. wrap[x].json \in Used(cell) \cup Singletons /\ wrap[y].json \in Used(cell) \cup Singletons
      BY <1>9, <3>1, ValueUsed
    <3> HIDE DEF new
    <3>6. QED
      BY <1>7, <3>1, <3>2, <3>3, <3>4, <3>5
  <2>14. UnderRoot(wr)
    <3>1. \A x \in Wraps : Live(wr, x) => wr[x].parent = wrap[x].parent
      BY <1>9, <1>10 DEF Live
    <3>2. QED
      BY <1>1, <1>9, <3>1 DEF Good, WrapsOK, UnderRoot
  <2>15. QED
    BY <1>8, <2>7, <2>8, <2>11, <2>12, <2>13, <2>14 DEF Good, WrapsOK, wr, g
<1>13. QED
  BY <1>11, <1>12

(* Values in use stay what they are, with the elements they have. *)
Kept(h, g) ==
  \A c \in Used(h) :
    /\ g[c] # Free /\ g[c].kind = h[c].kind
    /\ \A k \in DOMAIN h[c].kids : k \in DOMAIN g[c].kids /\ g[c].kids[k] = h[c].kids[k]

(* A wrapper is made for an element that has none. *)
LEMMA MakeGood ==
  ASSUME NEW h, NEW wr, Good(h, wr), NEW g, Tree(g, RootSet(wr)), Kept(h, g),
         NEW w \in Wraps, Live(wr, w), wr[w].json \in Used(h),
         NEW x \in Wraps \ {Root}, ~Live(wr, x),
         NEW i \in DOMAIN g[wr[w].json].kids,
         \A y \in Wraps : Live(wr, y) => ~(wr[y].parent = w /\ wr[y].id = i),
         i \in DOMAIN h[wr[w].json].kids \/ g[wr[w].json].kids[i] \in Singletons
  PROVE  Good(g, [wr EXCEPT ![x] = Wrapper(h, g[wr[w].json].kids[i], TRUE, w, i)])
<1> DEFINE at  == wr[w].json
           j   == g[at].kids[i]
           new == [json |-> j, type |-> Kind(h, j), borrowed |-> TRUE, parent |-> w, id |-> i]
           now == [wr EXCEPT ![x] = Wrapper(h, j, TRUE, w, i)]
<1>1. /\ wr \in [Wraps -> WrapType \cup {None}] /\ HeapOK(h) /\ HeapOK(g)
      /\ Cells \cap Singletons = {} /\ at \in Cells /\ at \notin Singletons /\ Root \in Wraps
  BY JsonAssumption DEF Good, WrapsOK, Tree, Used, Singletons
<1>2. i \in Indices /\ j \in Values
  BY <1>1, HeapFacts
<1>3. i \in DOMAIN h[at].kids => h[at].kids[i] = j
  BY DEF Kept
<1>4. j \in Used(h) \cup Singletons
  <2>1. CASE i \in DOMAIN h[at].kids
    <3>1. h[at].kids[i] \in Used(h) \cup Singletons
      BY <1>1, <2>1 DEF Good, Tree, KidsUsed
    <3>2. QED
      BY <1>3, <2>1, <3>1
  <2>2. QED
    BY <2>1
<1>5. \A c \in Used(h) : g[c] # Free /\ g[c].kind = h[c].kind
  BY DEF Kept
<1>6. Kind(h, j) \in Counted \cup {"null", "true"}
  BY <1>1, <1>4, KindOf
<1>7. Kind(g, j) = Kind(h, j)
  <2> HIDE DEF j
  <2>1. QED
    BY <1>4, <1>5, SameKind
<1>8. new \in WrapType /\ new # None
  <2> HIDE DEF j
  <2>1. new \in WrapType
    BY <1>2, <1>6 DEF WrapType
  <2>2. QED
    BY <2>1, JsonAssumption
<1>9. now[x] = new /\ \A y \in Wraps \ {x} : now[y] = wr[y]
  BY <1>1 DEF Wrapper
<1>10. now \in [Wraps -> WrapType \cup {None}]
  BY <1>1, <1>8 DEF Wrapper
<1>11. /\ new.json = j /\ new.type = Kind(h, j) /\ new.borrowed
       /\ new.parent = w /\ new.id = i
  OBVIOUS
<1>12. \A y \in Wraps : Live(now, y) <=> Live(wr, y) \/ y = x
  BY <1>8, <1>9 DEF Live
<1> HIDE DEF now, new, j, at
<1>13. w # x /\ now[w] = wr[w] /\ now[Root] = wr[Root] /\ wr[w].json = at
  BY <1>1, <1>9 DEF at
<1>14. RootSet(now) = RootSet(wr)
  BY <1>1, <1>12, <1>13 DEF RootSet
<1>15. RootOK(g, now)
  <2>1. Live(now, Root) => Live(wr, Root)
    BY <1>1, <1>12
  <2>2. ASSUME Live(wr, Root)
        PROVE  Kind(g, wr[Root].json) = Kind(h, wr[Root].json)
               /\ wr[Root].json \in Used(g) \cup Singletons
    <3>1. wr[Root].json \in Used(h) \cup Singletons
      BY <1>1, <2>2, ValueUsed
    <3>2. QED
      BY <1>5, <3>1, SameKind
  <2>3. QED
    BY <1>13, <2>1, <2>2 DEF RootOK, Good, WrapsOK
<1>16. ASSUME NEW y \in Wraps \ {Root}, Live(now, y)  PROVE Leads(g, now, y)
  <2>1. CASE y = x
    <3>1. Live(now, w) /\ Kids(g, at) = g[at].kids /\ g[at].kids[i] = j /\ i \in DOMAIN g[at].kids
      BY <1>1, <1>12 DEF Kids, j, at
    <3>2. now[y] = new /\ now[w].json = at
      BY <1>9, <1>13, <2>1
    <3>3. QED
      BY <1>7, <1>11, <3>1, <3>2 DEF Leads
  <2>2. CASE y # x
    <3> DEFINE q == wr[y].parent
               c == wr[q].json
               k == wr[y].id
    <3>1. /\ q \in Wraps /\ Live(wr, q) /\ wr[y].borrowed
          /\ c \in Cells \ Singletons /\ c \in Used(h)
          /\ k \in DOMAIN h[c].kids /\ h[c].kids[k] = wr[y].json
          /\ wr[y].type = Kind(h, wr[y].json) /\ Live(wr, y)
      <4>1. Good(h, wr) /\ y \in Wraps \ {Root} /\ Live(wr, y)
        BY <1>12, <1>16, <2>2
      <4>2. OverElement(h, wr, y)
        BY ONLY <4>1, ParentUsed
      <4>3. QED
        BY ONLY <4>1, <4>2 DEF OverElement
    <3>2. now[y] = wr[y] /\ now[q] = wr[q] /\ Live(now, q) /\ Kids(g, c) = g[c].kids
      BY <1>9, <1>12, <2>2, <3>1 DEF Kids
    <3>3. Kind(g, wr[y].json) = Kind(h, wr[y].json)
      <4>1. wr[y].json \in Used(h) \cup Singletons
        BY ONLY Good(h, wr), <1>12, <1>16, <2>2, ValueUsed
      <4>2. QED
        BY <1>5, <4>1, SameKind
    <3>4. k \in DOMAIN g[c].kids /\ g[c].kids[k] = h[c].kids[k]
      BY <3>1 DEF Kept
    <3>5. QED
      BY <3>1, <3>2, <3>3, <3>4 DEF Leads
  <2>3. QED
    BY <2>1, <2>2
<1>17. ASSUME NEW y \in Wraps, Live(wr, y), wr[y].json = j  PROVE j \in Singletons
  <2>1. SUFFICES ASSUME j \in Cells, i \in DOMAIN h[at].kids  PROVE FALSE
    BY <1>2 DEF Values, j, at
  <2>2. h[at].kids[i] = j
    BY <1>3, <2>1
  <2>3. CASE y = Root
    <3>1. j \in RootSet(wr)
      BY <1>1, <1>17, <2>1, <2>3 DEF RootSet
    <3>2. QED
      BY <1>1, <2>1, <2>2, <3>1 DEF Good, Tree, Rooted
  <2>4. CASE y # Root
    <3> DEFINE q == wr[y].parent
               c == wr[q].json
               k == wr[y].id
    <3>1. q \in Wraps /\ Live(wr, q) /\ c \in Cells \ Singletons
          /\ k \in DOMAIN h[c].kids /\ h[c].kids[k] = j
      <4>1. Good(h, wr) /\ y \in Wraps \ {Root} /\ Live(wr, y)
        BY <1>17, <2>4
      <4>2. OverElement(h, wr, y)
        BY ONLY <4>1, ParentUsed
      <4>3. QED
        BY ONLY <1>17, <4>2 DEF OverElement
    <3> HIDE DEF c, k
    <3>2. c = at /\ k = i
      BY <1>1, <2>1, <2>2, <3>1 DEF Good, Tree, OnePlace
    <3>3. q = w
      BY <1>13, <3>1, <3>2 DEF Good, WrapsOK, OneWrapper, c
    <3>4. QED
      BY <1>17, <3>2, <3>3 DEF k
  <2>5. QED
    BY <2>3, <2>4
<1>18. OneWrapper(now)
  <2>1. SUFFICES ASSUME NEW y \in Wraps, NEW z \in Wraps, Live(now, y), Live(now, z), y # z
                 PROVE  /\ <<now[y].parent, now[y].id>> # <<now[z].parent, now[z].id>>
                        /\ now[y].json = now[z].json => now[y].json \in Singletons
    BY DEF OneWrapper
  <2>2. CASE y # x /\ z # x
    BY <1>9, <1>12, <2>1, <2>2 DEF Good, WrapsOK, OneWrapper
  <2>3. CASE y = x
    BY <1>9, <1>11, <1>12, <1>17, <2>1, <2>3
  <2>4. CASE z = x
    BY <1>9, <1>11, <1>12, <1>17, <2>1, <2>4
  <2>5. QED
    BY <2>2, <2>3, <2>4
<1>19. UnderRoot(now)
  <2>1. SUFFICES ASSUME NEW T \in SUBSET Wraps, Live(now, Root) => Root \in T,
                        \A y \in Wraps : Live(now, y) /\ now[y].parent \in T => y \in T
                 PROVE  \A y \in Wraps : Live(now, y) => y \in T
    BY DEF UnderRoot
  <2>2. \A y \in Wraps : Live(wr, y) /\ wr[y].parent \in T => y \in T
    BY <1>9, <1>12, <2>1
  <2>3. \A y \in Wraps : Live(wr, y) => y \in T
    BY <1>1, <1>12, <2>1, <2>2 DEF Good, WrapsOK, UnderRoot
  <2>4. QED
    BY <1>9, <1>11, <1>12, <2>1, <2>3
<1>20. QED
  BY <1>10, <1>14, <1>15, <1>16, <1>18, <1>19 DEF Good, WrapsOK, now, j, at

(* The element is there, or null is put for it. *)
LEMMA ElementMade ==
  ASSUME NEW h, NEW R, Tree(h, R), NEW at \in Used(h), NEW i \in Indices,
         i \notin DOMAIN h[at].kids, h[at].kind = IF i \in Keys THEN "object" ELSE "array"
  PROVE  LET g == IF i \in Keys THEN Put(h, at, i, Null) ELSE Padded(h, at, i) IN
         /\ Tree(g, R) /\ Kept(h, g)
         /\ i \in DOMAIN g[at].kids /\ g[at].kids[i] = Null
<1> DEFINE g == IF i \in Keys THEN Put(h, at, i, Null) ELSE Padded(h, at, i)
<1>1. HeapOK(h) /\ at \in Cells /\ h[at] # Free
  BY DEF Tree, Used
<1>2. Null \in Singletons /\ Null \in Values /\ Null \notin R
  BY JsonAssumption DEF Singletons, Values, Tree, Rooted, Used
<1>3. /\ HeapOK(g)
      /\ \A c \in Cells \ {at} : g[c] = h[c]
      /\ g[at] # Free /\ g[at].kind = h[at].kind
      /\ i \in DOMAIN g[at].kids /\ g[at].kids[i] = Null
      /\ \A k \in DOMAIN h[at].kids : k \in DOMAIN g[at].kids /\ g[at].kids[k] = h[at].kids[k]
      /\ \A k \in DOMAIN g[at].kids :
           \/ g[at].kids[k] \in Singletons
           \/ k \in DOMAIN h[at].kids /\ g[at].kids[k] = h[at].kids[k]
  <2>1. CASE i \in Keys
    <3>1. g = Put(h, at, i, Null) /\ h[at].kind = "object"
      BY <2>1
    <3> HIDE DEF g
    <3>2. /\ HeapOK(g)
          /\ \A c \in Cells \ {at} : g[c] = h[c]
          /\ g[at] # Free /\ g[at].kind = h[at].kind
          /\ DOMAIN g[at].kids = DOMAIN h[at].kids \cup {i}
          /\ g[at].kids[i] = Null
          /\ \A k \in DOMAIN h[at].kids \ {i} : g[at].kids[k] = h[at].kids[k]
      BY <1>1, <1>2, <2>1, <3>1, PutView
    <3>3. \A k \in DOMAIN h[at].kids : k # i
      OBVIOUS
    <3>4. \A k \in DOMAIN g[at].kids : k = i \/ k \in DOMAIN h[at].kids \ {i}
      BY <3>2, <3>3
    <3>5. QED
      BY <1>2, <3>2, <3>3, <3>4
  <2>2. CASE i \notin Keys
    <3>1. g = Padded(h, at, i) /\ h[at].kind = "array" /\ i \in 1 .. MaxLen
      BY <2>2 DEF Indices
    <3> HIDE DEF g
    <3>2. /\ HeapOK(g)
          /\ \A c \in Cells \ {at} : g[c] = h[c]
          /\ h[at] # Free /\ g[at] # Free /\ g[at].kind = h[at].kind
          /\ DOMAIN g[at].kids = 1 .. i /\ DOMAIN h[at].kids \subseteq 1 .. i
          /\ \A k \in 1 .. i : g[at].kids[k] = IF k \in DOMAIN h[at].kids THEN h[at].kids[k]
                                               ELSE Null
      BY <1>1, <3>1, PadView
    <3>3. i \in 1 .. i
      BY <3>1, JsonAssumption
    <3>4. \A k \in DOMAIN h[at].kids : k \in DOMAIN g[at].kids /\ g[at].kids[k] = h[at].kids[k]
      BY <3>2
    <3>5. \A k \in DOMAIN g[at].kids :
            \/ g[at].kids[k] = Null
            \/ k \in DOMAIN h[at].kids /\ g[at].kids[k] = h[at].kids[k]
      BY <3>2
    <3>6. i \in DOMAIN g[at].kids /\ g[at].kids[i] = Null
      BY <3>2, <3>3
    <3>7. QED
      BY <1>2, <3>2, <3>4, <3>5, <3>6
  <2>3. QED
    BY <2>1, <2>2
<1> HIDE DEF g
<1>4. Tree(g, R \ {Null})
  <2>1. Closed(h, {}) /\ {} \in SUBSET Cells /\ at \notin {} /\ {Null} \ Singletons \subseteq {}
    BY <1>2 DEF Closed
  <2>2. Null \in R \cup Singletons
    BY <1>2
  <2>3. QED
    BY <1>1, <1>3, <2>1, <2>2, GrowTree
<1>5. R \ {Null} = R
  BY <1>2
<1>6. Kept(h, g)
  BY <1>1, <1>3 DEF Kept, Used
<1>7. QED
  BY <1>3, <1>4, <1>5, <1>6 DEF g

(* What is under some wrappers: they, and the wrappers in their lists.       *)
LEMMA UnderFacts ==
  ASSUME NEW S \in SUBSET Wraps
  PROVE  /\ S \subseteq Under(S) /\ Under(S) \subseteq Wraps
         /\ \A w \in Under(S) : Children(w) \subseteq Under(S)
         /\ \A T \in SUBSET Wraps :
              S \subseteq T /\ (\A w \in T : Children(w) \subseteq T) => Under(S) \subseteq T
<1>1. S \subseteq Under(S) /\ Under(S) \subseteq Wraps
  BY DEF Under
<1>2. ASSUME NEW w \in Under(S), NEW x \in Children(w)  PROVE x \in Under(S)
  <2>1. x \in Wraps
    BY DEF Children
  <2>2. ASSUME NEW T \in SUBSET Wraps, S \subseteq T, \A y \in T : Children(y) \subseteq T
        PROVE  x \in T
    <3>1. w \in T
      BY <2>2 DEF Under
    <3>2. QED
      BY <2>2, <3>1
  <2>3. QED
    BY <2>1, <2>2 DEF Under
<1>3. ASSUME NEW T \in SUBSET Wraps, S \subseteq T, \A w \in T : Children(w) \subseteq T
      PROVE  Under(S) \subseteq T
  BY <1>3 DEF Under
<1>4. QED
  BY <1>1, <1>2, <1>3

(* The root's wrapper is under no list. *)
LEMMA RootAbove ==
  ASSUME Good(cell, wrap), NEW S \in SUBSET (Wraps \ {Root})
  PROVE  Root \notin Under(S)
<1>1. \A w \in Wraps : Root \notin Children(w)
  BY JsonAssumption DEF Children, Good, WrapsOK, RootOK, Live
<1>2. \A w \in Wraps \ {Root} : Children(w) \subseteq Wraps \ {Root}
  BY <1>1 DEF Children
<1>3. Wraps \ {Root} \in SUBSET Wraps /\ S \subseteq Wraps \ {Root} /\ S \in SUBSET Wraps
  OBVIOUS
<1>4. Under(S) \subseteq Wraps \ {Root}
  <2>1. PICK T : T = Wraps \ {Root}
    OBVIOUS
  <2>2. \A w \in T : Children(w) \subseteq T
    BY ONLY <1>2, <2>1
  <2>3. T \in SUBSET Wraps /\ S \subseteq T /\ S \in SUBSET Wraps
    BY ONLY <1>3, <2>1
  <2>4. Under(S) \subseteq T
    BY ONLY <2>2, <2>3, UnderFacts
  <2>5. QED
    BY ONLY <2>1, <2>4
<1>5. QED
  BY <1>4

(* Clearing the root's list leaves no wrapper but the root's. *)
LEMMA ClearedRoot ==
  ASSUME Good(cell, wrap), Live(wrap, Root)
  PROVE  /\ Cleared(Root)[Root] = wrap[Root]
         /\ \A x \in Wraps \ {Root} : Cleared(Root)[x] = None
<1> DEFINE U == Under(Children(Root))
           T == U \cup {Root}
<1>1. Children(Root) \in SUBSET (Wraps \ {Root}) /\ Children(Root) \in SUBSET Wraps /\ Root \in Wraps
  BY JsonAssumption DEF Children, Good, WrapsOK, RootOK, Live
<1>2. Root \notin U
  BY <1>1, RootAbove
<1>3. Children(Root) \subseteq U /\ U \subseteq Wraps /\ \A w \in U : Children(w) \subseteq U
  BY <1>1, UnderFacts
<1> HIDE DEF U
<1>4. T \in SUBSET Wraps /\ Root \in T
  BY <1>1, <1>3
<1>5. ASSUME NEW x \in Wraps, Live(wrap, x), wrap[x].parent \in T  PROVE x \in T
  <2>1. x \in Children(wrap[x].parent)
    BY <1>5 DEF Children, Live
  <2>2. QED
    BY <1>3, <1>5, <2>1
<1>6. \A x \in Wraps : Live(wrap, x) => x \in T
  BY <1>4, <1>5 DEF Good, WrapsOK, UnderRoot
<1>7. \A x \in Wraps : Cleared(Root)[x] = IF x \in U THEN None ELSE wrap[x]
  BY DEF Cleared, Without, U
<1>8. QED
  BY <1>1, <1>2, <1>6, <1>7 DEF Live

(* A wrapper that leads to null or true has none in its list. *)
LEMMA ClearedSingle ==
  ASSUME Good(cell, wrap), NEW w \in Wraps, Live(wrap, w), wrap[w].json \in Singletons
  PROVE  Cleared(w) = wrap
<1>1. ASSUME NEW x \in Wraps, Live(wrap, x), wrap[x].parent = w  PROVE FALSE
  <2>1. x # Root
    BY <1>1, JsonAssumption, NoParent
  <2>2. QED
    BY <1>1, <2>1, ParentUsed DEF OverElement
<1>2. Children(w) = {}
  BY <1>1 DEF Children, Live
<1>3. Under({}) = {}
  BY UnderFacts
<1>4. wrap = [x \in Wraps |-> wrap[x]]
  BY DEF Good, WrapsOK
<1>5. QED
  BY <1>2, <1>3, <1>4 DEF Cleared, Without

(* reset() and updateParent() keep the document whole. *)
LEMMA StoreStep ==
  ASSUME JsonInv, NEW w \in Wraps, Usable(w), NEW h, NEW j, Grown(h, j), Store(w, h, j)
  PROVE  JsonInv'
<1> DEFINE old == wrap[w].json
           p == wrap[w].parent
           at == wrap[p].json
           i == wrap[w].id
<1>1. Good(cell, wrap) /\ Live(wrap, w) /\ overwritten = FALSE /\ fault = FALSE
  BY DEF JsonInv, Usable, Live
<1>2. old \in Used(cell) \cup Singletons /\ wrap[w] \in WrapType
      /\ Cells \cap Singletons = {} /\ Root \in Wraps
  BY <1>1, ValueUsed, JsonAssumption DEF Singletons
<1>3. HeapOK(h) /\ HeapOK(cell) /\ old \in Values /\ j \in Values /\ j \notin Used(cell)
      /\ \A c \in Used(cell) : h[c] = cell[c] /\ h[c] # Free
  BY <1>1, <1>2 DEF Grown, Good, Tree, Used, Values
<1>4. ~Dangling(h, old)
  BY <1>2, <1>3 DEF Dangling
<1>5. CASE p = None
  <2>1. w = Root
    BY <1>1, <1>5, NoParent
  <2>2. /\ cell' = Decref(h, old) /\ fault' = FALSE /\ overwritten' = FALSE
        /\ wrap' = [Cleared(w) EXCEPT ![w] = Wrapper(h, j, @.borrowed \/ p # None, p, @.id)]
    BY <1>1, <1>4, <1>5 DEF Store
  <2> DEFINE R == RootSet(wrap) \cup ({j} \ Singletons)
  <2>3. Tree(h, R) /\ RootSet(wrap) = {old} \ Singletons
    BY <1>1, <2>1 DEF Grown, RootSet
  <2>4. Tree(cell', {j} \ Singletons)
    <3>1. CASE old \in Singletons
      BY <1>3, <2>2, <2>3, <3>1, BelowSingle
    <3>2. CASE old \notin Singletons
      <4>1. old \in R /\ R \ {old} = {j} \ Singletons
        BY <1>2, <1>3, <2>3, <3>2
      <4> HIDE DEF R
      <4>2. QED
        BY <2>2, <2>3, <4>1, DecrefTree
    <3>3. QED
      BY <3>1, <3>2
  <2>5. j \in Used(cell') \cup Singletons
    BY <2>4 DEF Tree, Rooted
  <2>6. Kind(cell', j) = Kind(h, j)
    <3>1. CASE j \in Singletons
      BY <3>1 DEF Kind, Singletons
    <3>2. CASE j \notin Singletons
      <4>1. j \in Cells /\ cell'[j] # Free
        BY <2>5, <3>2 DEF Used
      <4>2. cell'[j] = h[j]
        BY <1>3, <2>2, <4>1, DecrefView
      <4>3. QED
        BY <4>2 DEF Kind
    <3>3. QED
      BY <3>1, <3>2
  <2> DEFINE new == [json |-> j, type |-> Kind(h, j), borrowed |-> wrap[w].borrowed \/ p # None,
                     parent |-> p, id |-> i]
  <2>7. Cleared(w) = [x \in Wraps |-> Cleared(w)[x]] /\ Cleared(w)[w] = wrap[w]
        /\ \A x \in Wraps \ {Root} : Cleared(w)[x] = None
    <3>1. Cleared(w) = [x \in Wraps |-> Cleared(w)[x]]
      BY DEF Cleared, Without
    <3>2. QED
      BY <1>1, <2>1, <3>1, ClearedRoot
  <2>8. wrap'[w] = new /\ \A x \in Wraps \ {Root} : wrap'[x] = None
    BY <2>1, <2>2, <2>7 DEF Wrapper
  <2>9. new.borrowed = FALSE /\ new.parent = None /\ new.json = j /\ new.type = Kind(h, j)
    <3>1. wrap[w].borrowed = FALSE
      BY <1>1, <1>2, <2>1 DEF RootOK, Good, WrapsOK, WrapType
    <3>2. QED
      BY <1>5, <3>1
  <2>10. new \in WrapType
    <3>1. Kind(h, j) \in Counted \cup {"null", "true"}
      BY <2>4, <2>5, <2>6, KindOf DEF Tree
    <3>2. QED
      BY <1>2, <1>3, <3>1 DEF WrapType
  <2>11. wrap' \in [Wraps -> WrapType \cup {None}]
    <3>1. wrap' = [x \in Wraps |-> wrap'[x]]
      BY <2>2, <2>7
    <3> HIDE DEF new
    <3>2. \A x \in Wraps : wrap'[x] \in WrapType \cup {None}
      BY <2>1, <2>8, <2>10
    <3>3. QED
      BY <3>1, <3>2
  <2> HIDE DEF new
  <2>12. RootSet(wrap') = {j} \ Singletons
    BY <2>1, <2>8, <2>9, <2>10, JsonAssumption DEF RootSet, Live
  <2>13. RootOK(cell', wrap')
    BY <2>1, <2>5, <2>6, <2>8, <2>9 DEF RootOK
  <2>14. Good(cell', wrap')
    BY <2>4, <2>8, <2>11, <2>12, <2>13, OnlyRoot
  <2>15. QED
    BY <2>2, <2>14 DEF JsonInv
<1>6. CASE p # None /\ old \notin Singletons
  <2>1. overwritten' = TRUE
    BY <1>1, <1>6 DEF Store
  <2>2. QED
    BY <2>1 DEF JsonInv
<1>7. CASE p # None /\ old \in Singletons
  <2>1. w # Root /\ p \in Wraps /\ Live(wrap, p) /\ at \in Used(cell) /\ at \notin Singletons
        /\ i \in DOMAIN cell[at].kids /\ cell[at].kids[i] = old
    <3>1. w # Root
      BY <1>1, <1>7, NoParent
    <3>2. OverElement(cell, wrap, w)
      BY <1>1, <3>1, ParentUsed
    <3>3. QED
      BY ONLY <3>1, <3>2 DEF OverElement
  <2>2. Decref(h, old) = h /\ Cleared(w) = wrap
    BY <1>1, <1>3, <1>7, BelowSingle, ClearedSingle
  <2>3. Kids(h, at) = cell[at].kids /\ ~Dangling(h, at)
    BY <1>3, <2>1 DEF Kids, Dangling
  <2>4. /\ cell' = Put(h, at, i, j)
        /\ wrap' = [wrap EXCEPT ![w] = Wrapper(h, j, @.borrowed \/ p # None, p, @.id)]
        /\ fault' = FALSE /\ overwritten' = FALSE
    BY <1>1, <1>4, <1>7, <2>1, <2>2, <2>3 DEF Store
  <2>5. Good(cell', wrap')
    BY <1>1, <1>7, <2>4, SetGood
  <2>6. QED
    BY <2>4, <2>5 DEF JsonInv
<1>8. QED
  BY <1>5, <1>6, <1>7

(* A wrapper is made for an element of a container. *)
LEMMA MakeStep ==
  ASSUME NEW h, NEW wr, Good(h, wr), NEW w \in Wraps, Live(wr, w), wr[w].json \in Used(h),
         NEW i \in Indices, h[wr[w].json].kind = IF i \in Keys THEN "object" ELSE "array",
         \A y \in Wraps : Live(wr, y) => ~(wr[y].parent = w /\ wr[y].id = i),
         MakeWrapper(w, h, wr, wr[w].json, i)
  PROVE  Good(cell', wrap') /\ UNCHANGED <<fault, overwritten>>
<1> DEFINE at == wr[w].json
           g  == IF i \in DOMAIN h[at].kids THEN h
                 ELSE IF i \in Keys THEN Put(h, at, i, Null) ELSE Padded(h, at, i)
<1>1. Kids(h, at) = h[at].kids
  BY JsonAssumption DEF Used, Kids, Singletons
<1>2. PICK x \in Wraps :
        /\ x # Root /\ wr[x] = None
        /\ cell' = g
        /\ wrap' = [wr EXCEPT ![x] = Wrapper(h, IF i \in DOMAIN h[at].kids THEN h[at].kids[i]
                                                ELSE Null, TRUE, w, i)]
  BY <1>1 DEF MakeWrapper
<1>3. /\ Tree(g, RootSet(wr)) /\ Kept(h, g)
      /\ i \in DOMAIN g[at].kids
      /\ g[at].kids[i] = IF i \in DOMAIN h[at].kids THEN h[at].kids[i] ELSE Null
  <2>1. CASE i \in DOMAIN h[at].kids
    BY <2>1 DEF Good, Kept, Used
  <2>2. CASE i \notin DOMAIN h[at].kids
    <3>1. Tree(h, RootSet(wr))
      BY DEF Good
    <3>2. QED
      BY <2>2, <3>1, ElementMade
  <2>3. QED
    BY <2>1, <2>2
<1>4. ~Live(wr, x)
  BY <1>2 DEF Live
<1>5. i \in DOMAIN h[at].kids \/ g[at].kids[i] \in Singletons
  BY <1>3 DEF Singletons
<1> HIDE DEF g
<1>6. Good(g, [wr EXCEPT ![x] = Wrapper(h, g[at].kids[i], TRUE, w, i)])
  BY <1>2, <1>3, <1>4, <1>5, MakeGood
<1>7. QED
  BY <1>2, <1>3, <1>6 DEF MakeWrapper

(* operator[] of a container keeps the document whole ... *)
LEMMA IndexStep ==
  ASSUME JsonInv, NEW w \in Wraps, NEW i \in Indices, Index(w, i)
  PROVE  JsonInv'
<1>1. Good(cell, wrap) /\ Live(wrap, w) /\ overwritten = FALSE /\ fault = FALSE
  BY DEF JsonInv, Index, Usable, Live
<1> DEFINE at == wrap[w].json
<1>2. HeapOK(cell) /\ at \in Used(cell) \cup Singletons
  BY <1>1, ValueUsed DEF Good, Tree
<1>3. wrap[w].type = IF i \in Keys THEN "object" ELSE "array"
  BY DEF Index
<1>4. wrap[w].type = Kind(cell, at) /\ wrap[w].type \in Counted
  BY <1>1, <1>3, ValueUsed DEF Counted
<1>5. at \in Used(cell) /\ cell[at].kind = IF i \in Keys THEN "object" ELSE "array"
  BY <1>2, <1>3, <1>4, KindOf
<1>6. \A y \in Wraps : Live(wrap, y) => ~(wrap[y].parent = w /\ wrap[y].id = i)
  BY DEF Index, Child, Children, Live
<1>7. Good(cell', wrap') /\ UNCHANGED <<fault, overwritten>>
  BY <1>1, <1>5, <1>6, MakeStep DEF Index
<1>8. QED
  BY <1>1, <1>7 DEF JsonInv

(* ... so does that of a null, which becomes an object first.                *)
LEMMA IndexNullStep ==
  ASSUME JsonInv, NEW w \in Wraps, NEW i \in Indices, IndexNull(w, i)
  PROVE  JsonInv'
<1> DEFINE p == wrap[w].parent
           at == wrap[p].json
           New1(c) == New(cell, c, "object")
           h(c) == IF p = None THEN New1(c) ELSE Put(New1(c), at, wrap[w].id, c)
           wr(c, k) == [wrap EXCEPT ![w] = Wrapper(k, c, @.borrowed \/ p # None, p, @.id)]
<1>1. Good(cell, wrap) /\ Live(wrap, w) /\ overwritten = FALSE /\ fault = FALSE
  BY DEF JsonInv, IndexNull, Usable, Live
<1>2. wrap[w].json \in Singletons
  BY <1>1, ValueUsed, KindOf DEF IndexNull, Good, Tree, Singletons
<1>3. PICK c \in FreeCells : MakeWrapper(w, h(c), wr(c, h(c)), c, i)
  BY DEF IndexNull
<1>4. Grown(New1(c), c) /\ "object" \in Counted
  BY <1>1, GrownNew DEF Counted
<1>5. Good(h(c), wr(c, New1(c)))
  BY <1>1, <1>2, <1>4, SetGood
<1>6. c \in Cells /\ cell[c] = Free /\ c \notin Singletons /\ c \notin Used(cell) /\ i \in Keys
  BY JsonAssumption DEF FreeCells, Used, Singletons, IndexNull
<1>7. New1(c)[c] = [kind |-> "object", kids |-> << >>] /\ New1(c) = [d \in Cells |-> New1(c)[d]]
  BY <1>1, <1>6 DEF New, Good, Tree, HeapOK
<1>8. h(c)[c] = New1(c)[c]
  <2>1. CASE p = None
    BY <2>1
  <2>2. CASE p # None
    <3>1. at \in Used(cell)
      BY <1>1, <2>2, NoParent, ParentUsed DEF OverElement
    <3>2. at # c
      BY <1>6, <3>1
    <3> HIDE DEF New1
    <3>3. QED
      BY <1>6, <1>7, <2>2, <3>2 DEF Put
  <2>3. QED
    BY <2>1, <2>2
<1>9. Kind(h(c), c) = Kind(New1(c), c)
  BY <1>8 DEF Kind
<1>10. wr(c, h(c)) = wr(c, New1(c))
  BY <1>9 DEF Wrapper
<1>11. h(c)[c].kind = "object" /\ h(c)[c].kids = << >> /\ c \in Used(h(c))
  BY <1>6, <1>7, <1>8 DEF Used, Free
<1>12. wr(c, h(c))[w].json = c
  BY <1>1 DEF Wrapper, Good, WrapsOK
<1> DEFINE H == h(c)
           W == wr(c, h(c))
<1>13. Good(H, W) /\ W[w].json = c /\ MakeWrapper(w, H, W, W[w].json, i)
  BY <1>3, <1>5, <1>10, <1>12
<1>14. c \in Used(H) /\ H[c].kind = "object" /\ H[c].kids = << >>
  BY <1>11
<1>15. Live(W, w)
  <2>1. W[w] = [json |-> c, type |-> Kind(H, c), borrowed |-> wrap[w].borrowed \/ p # None,
                parent |-> p, id |-> wrap[w].id]
    BY <1>1 DEF Wrapper, Good, WrapsOK
  <2>2. wrap[w] \in WrapType /\ Kind(H, c) = "object"
    BY <1>1, <1>6, <1>14, ValueUsed DEF Kind, Singletons
  <2> HIDE DEF H
  <2>3. W[w] \in WrapType
    <3>1. c \in Values /\ (wrap[w].borrowed \/ p # None) \in BOOLEAN
      BY <1>6 DEF Values
    <3>2. p \in Wraps \cup {None} /\ wrap[w].id \in Indices \cup {None}
      BY <2>2 DEF WrapType
    <3> DEFINE b == wrap[w].borrowed \/ p # None
               k == wrap[w].id
    <3> HIDE DEF p, b, k
    <3>3. W[w] = [json |-> c, type |-> Kind(H, c), borrowed |-> b, parent |-> p, id |-> k]
      BY <2>1 DEF b, k, p
    <3>4. b \in BOOLEAN /\ k \in Indices \cup {None}
      BY <3>1, <3>2 DEF b, k, p
    <3>5. QED
      BY <2>2, <3>1, <3>2, <3>3, <3>4 DEF WrapType, Counted
  <2>4. QED
    BY <2>3, JsonAssumption DEF Live
<1> HIDE DEF H, W
<1>16. ASSUME NEW y \in Wraps, Live(W, y), W[y].parent = w  PROVE FALSE
  <2>1. y # Root
    BY <1>13, <1>16, NoParent, JsonAssumption
  <2>2. W[y].id \in DOMAIN H[c].kids
    BY <1>13, <1>16, <2>1, ParentUsed DEF OverElement
  <2>3. QED
    BY <1>14, <2>2, NoKids
<1>17. Good(cell', wrap') /\ UNCHANGED <<fault, overwritten>>
  BY <1>6, <1>13, <1>14, <1>15, <1>16, MakeStep DEF Indices
<1>18. QED
  BY <1>1, <1>17 DEF JsonInv

(* erase() of an element keeps the document whole.                           *)
LEMMA EraseStep ==
  ASSUME JsonInv, NEW w \in Wraps, NEW i \in Indices, Erase(w, i)
  PROVE  JsonInv'
<1> DEFINE d == wrap[w].json
           v == cell[d].kids[i]
           B == Below(cell, v)
           U == Under(Child(w, i))
<1>1. Good(cell, wrap) /\ Live(wrap, w) /\ overwritten = FALSE /\ fault' = FALSE
  BY DEF JsonInv, Erase, Usable, Live
<1>2. /\ wrap \in [Wraps -> WrapType \cup {None}] /\ HeapOK(cell) /\ Root \in Wraps
      /\ Cells \cap Singletons = {} /\ Tree(cell, RootSet(wrap))
  BY <1>1, JsonAssumption DEF Good, WrapsOK, Tree, Singletons
<1>3. d \in Used(cell) /\ d \notin Singletons /\ i \in DOMAIN cell[d].kids /\ Kids(cell, d) = cell[d].kids
  <2>1. i \in DOMAIN Kids(cell, d)
    BY DEF Erase
  <2>2. d \notin Singletons
    BY <2>1, NoKids DEF Kids
  <2>3. QED
    BY <1>1, <2>1, <2>2, ValueUsed DEF Kids
<1>4. cell' = Erased1(cell, d, i) /\ wrap' = Without(U)
      /\ overwritten' = (i \notin Keys /\ \E x \in Children(w) : wrap[x].id > i)
  BY <1>1, <1>3 DEF Erase, Erased1
<1>5. SUFFICES ASSUME i \in Keys \/ \A x \in Children(w) : ~(wrap[x].id > i)
               PROVE  Good(cell', wrap') /\ overwritten' = FALSE
  BY <1>1, <1>4 DEF JsonInv
<1>6. d \in Cells /\ cell[d] # Free
  BY <1>3 DEF Used
<1>7. /\ Tree(cell', RootSet(wrap))
      /\ d \notin B /\ cell'[d].kind = cell[d].kind
      /\ \A c \in Cells \ (B \cup {d}) : cell'[c] = cell[c]
      /\ \A m \in DOMAIN cell[d].kids \ {i} : i \in Keys \/ m < i =>
           m \in DOMAIN cell'[d].kids /\ cell'[d].kids[m] = cell[d].kids[m]
  BY <1>2, <1>3, <1>4, <1>6, EraseTree
<1>8. v \in Values /\ v \notin RootSet(wrap) /\ B \subseteq Cells
  <2>1. v \in Values
    BY <1>2, <1>3, <1>6, HeapFacts
  <2>2. QED
    BY <1>2, <1>3, <1>6, <2>1, BelowFacts DEF Tree, Rooted
<1>9. Child(w, i) \in SUBSET (Wraps \ {Root}) /\ Child(w, i) \in SUBSET Wraps
  <2>1. ASSUME NEW x \in Child(w, i)  PROVE x \in Wraps \ {Root}
    <3>1. x \in Wraps /\ Live(wrap, x) /\ wrap[x].parent = w
      BY DEF Child, Children, Live
    <3>2. QED
      BY <1>1, <3>1, NoParent, JsonAssumption
  <2>2. QED
    BY <2>1
<1>10. /\ Root \notin U /\ U \subseteq Wraps /\ Child(w, i) \subseteq U
       /\ \A x \in U : Children(x) \subseteq U
  BY <1>1, <1>9, RootAbove, UnderFacts
<1> HIDE DEF U
<1>11. \A x \in Wraps : wrap'[x] = IF x \in U THEN None ELSE wrap[x]
  BY <1>4 DEF Without
<1>12. \A x \in Wraps : Live(wrap', x) <=> Live(wrap, x) /\ x \notin U
  BY <1>11 DEF Live
(* A wrapper that stays has a parent that stays, and another element. *)
<1>13. ASSUME NEW y \in Wraps \ {Root}, Live(wrap, y), y \notin U
       PROVE  LET q == wrap[y].parent  c == wrap[q].json  k == wrap[y].id IN
              /\ q \in Wraps /\ Live(wrap, q) /\ q \notin U
              /\ wrap[y].borrowed /\ c \in Cells \ Singletons /\ cell[c] # Free
              /\ k \in DOMAIN cell[c].kids /\ cell[c].kids[k] = wrap[y].json
              /\ wrap[y].type = Kind(cell, wrap[y].json)
              /\ c = d => q = w /\ k # i /\ (i \in Keys \/ k < i)
  <2> DEFINE q == wrap[y].parent
             c == wrap[q].json
             k == wrap[y].id
  <2>1. /\ q \in Wraps /\ Live(wrap, q) /\ wrap[y].borrowed
        /\ c \in Cells \ Singletons /\ c \in Used(cell)
        /\ k \in DOMAIN cell[c].kids /\ cell[c].kids[k] = wrap[y].json /\ k \in Indices
        /\ wrap[y].type = Kind(cell, wrap[y].json)
    <3>1. Good(cell, wrap) /\ y \in Wraps \ {Root} /\ Live(wrap, y)
      BY ONLY <1>1, <1>13
    <3>2. OverElement(cell, wrap, y)
      BY ONLY <3>1, ParentUsed
    <3>3. QED
      BY ONLY <3>2 DEF OverElement
  <2>2. y \in Children(q)
    BY <1>13 DEF Children, Live
  <2>3. q \notin U
    BY <1>10, <1>13, <2>2
  <2>4. ASSUME c = d  PROVE q = w /\ k # i /\ (i \in Keys \/ k < i)
    <3>1. q = w
      BY <1>1, <1>6, <2>1, <2>4, <1>2 DEF Good, WrapsOK, OneWrapper
    <3>2. y \in Children(w) /\ (k = i => y \in Child(w, i))
      BY <2>2, <3>1 DEF Child
    <3>3. k # i
      BY <1>10, <1>13, <3>2
    <3>4. ASSUME i \notin Keys  PROVE k < i
      <4>1. ~(k > i)
        BY <1>5, <3>2, <3>4
      <4>2. i \in Nat /\ MaxLen \in Nat
        BY <3>4, JsonAssumption DEF Indices
      <4>3. Shape(cell[d])
        BY <1>2, <1>6, HeapFacts
      <4>4. cell[d].kind = "array"
        BY <1>3, <3>4, <4>3 DEF Shape, Counted
      <4>5. PICK n \in 0 .. MaxLen : DOMAIN cell[d].kids = 1 .. n
        BY <4>3, <4>4 DEF Shape
      <4>6. k \in 1 .. n
        BY <2>1, <2>4, <4>5
      <4>7. k \in Nat
        BY <4>2, <4>6
      <4>8. QED
        BY <3>3, <4>1, <4>2, <4>7
    <3>5. QED
      BY <3>1, <3>3, <3>4
  <2>5. QED
    BY <2>1, <2>3, <2>4 DEF Used
(* Its value is not among those given up. *)
<1>14. \A y \in Wraps : Live(wrap, y) /\ y \notin U => wrap[y].json \notin B
  <2> DEFINE T == {y \in Wraps : y \in U \/ (Live(wrap, y) => wrap[y].json \notin B)}
  <2>1. Live(wrap, Root) => Root \in T
    <3>1. SUFFICES ASSUME Live(wrap, Root), wrap[Root].json \in B  PROVE FALSE
      BY <1>2
    <3>2. wrap[Root].json \in RootSet(wrap)
      BY <1>2, <1>8, <3>1 DEF RootSet
    <3>3. wrap[Root].json # v
      BY <1>8, <3>2
    <3>4. \E c \in B : \E k \in DOMAIN cell[c].kids : cell[c].kids[k] = wrap[Root].json
      BY <1>2, <1>8, <3>1, <3>3, BelowHeld
    <3>5. QED
      BY <1>2, <1>8, <3>2, <3>4 DEF Tree, Rooted
  <2>2. ASSUME NEW y \in Wraps, Live(wrap, y), wrap[y].parent \in T  PROVE y \in T
    <3>1. SUFFICES ASSUME y \notin U, wrap[y].json \in B  PROVE FALSE
      OBVIOUS
    <3>2. y # Root
      BY <1>1, <2>2, NoParent, JsonAssumption
    <3> DEFINE q == wrap[y].parent
               c == wrap[q].json
               k == wrap[y].id
    <3>3. /\ q \in Wraps /\ Live(wrap, q) /\ q \notin U
          /\ c \in Cells \ Singletons /\ k \in DOMAIN cell[c].kids /\ cell[c].kids[k] = wrap[y].json
          /\ c = d => k # i
      BY <2>2, <3>1, <3>2, <1>13
    <3>4. c \notin B
      BY <2>2, <3>3
    <3> HIDE DEF c, k
    <3>5. cell[c].kids[k] = v
      BY <1>2, <1>8, <3>1, <3>3, <3>4, OthersOut
    <3>6. v \in Cells
      BY <1>8, <3>1, <3>3, <3>5
    <3>7. c = d /\ k = i
      BY <1>2, <1>3, <1>6, <3>3, <3>5, <3>6 DEF Tree, OnePlace
    <3>8. QED
      BY <3>3, <3>7
  <2>3. T \in SUBSET Wraps
    OBVIOUS
  <2> HIDE DEF T
  <2>4. \A y \in Wraps : Live(wrap, y) => y \in T
    BY <1>1, <2>1, <2>2, <2>3 DEF Good, WrapsOK, UnderRoot
  <2>5. QED
    BY <2>4 DEF T
<1> HIDE DEF B, d
<1>15. ASSUME NEW c \in Used(cell) \cup Singletons, c \notin B
       PROVE  Kind(cell', c) = Kind(cell, c)
  <2>1. CASE c \in Singletons
    BY <2>1 DEF Kind, Singletons
  <2>2. CASE c \notin Singletons
    <3>1. c \in Cells
      BY <2>2 DEF Used
    <3>2. cell'[c].kind = cell[c].kind
      BY <1>7, <1>15, <3>1
    <3>3. QED
      BY <3>2 DEF Kind
  <2>3. QED
    BY <2>1, <2>2
<1>16. RootSet(wrap') = RootSet(wrap)
  BY <1>2, <1>10, <1>11, <1>12 DEF RootSet
<1>17. wrap' \in [Wraps -> WrapType \cup {None}]
  BY <1>2, <1>4 DEF Without
<1>18. RootOK(cell', wrap')
  <2>1. SUFFICES ASSUME Live(wrap, Root)  PROVE RootOK(cell', wrap')
    BY <1>2, <1>12 DEF RootOK
  <2>2. wrap'[Root] = wrap[Root]
    BY <1>2, <1>10, <1>11
  <2>3. wrap[Root].json \in Used(cell) \cup Singletons /\ wrap[Root].json \notin B
    BY <1>1, <1>2, <1>10, <1>14, <2>1, ValueUsed
  <2>4. wrap[Root].json \in Used(cell') \cup Singletons
    BY <1>7, <2>1 DEF RootSet, Tree, Rooted
  <2>5. Kind(cell', wrap[Root].json) = Kind(cell, wrap[Root].json)
    BY <1>15, <2>3
  <2>6. QED
    BY <1>1, <2>1, <2>2, <2>4, <2>5 DEF RootOK, Good, WrapsOK
<1>19. ASSUME NEW y \in Wraps \ {Root}, Live(wrap', y)  PROVE Leads(cell', wrap', y)
  <2> DEFINE q == wrap[y].parent
             c == wrap[q].json
             k == wrap[y].id
  <2>1. Live(wrap, y) /\ y \notin U /\ wrap'[y] = wrap[y]
    BY <1>11, <1>12, <1>19
  <2>2. /\ q \in Wraps /\ Live(wrap, q) /\ q \notin U
        /\ wrap[y].borrowed /\ c \in Cells \ Singletons /\ cell[c] # Free
        /\ k \in DOMAIN cell[c].kids /\ cell[c].kids[k] = wrap[y].json
        /\ wrap[y].type = Kind(cell, wrap[y].json)
        /\ c = d => q = w /\ k # i /\ (i \in Keys \/ k < i)
    BY <1>13, <2>1
  <2>3. wrap'[q] = wrap[q] /\ Live(wrap', q) /\ Kids(cell', c) = cell'[c].kids
    BY <1>11, <1>12, <2>2 DEF Kids
  <2>4. c \notin B
    BY <1>14, <2>2
  <2>5. k \in DOMAIN cell'[c].kids /\ cell'[c].kids[k] = cell[c].kids[k]
    <3>1. CASE c = d
      <4>1. k \in DOMAIN cell[d].kids \ {i} /\ (i \in Keys \/ k < i)
        BY <2>2, <3>1
      <4> HIDE DEF c, k
      <4>2. QED
        BY <1>7, <3>1, <4>1
    <3>2. CASE c # d
      BY <1>7, <2>2, <2>4, <3>2
    <3>3. QED
      BY <3>1, <3>2
  <2>6. wrap[y].json \in Used(cell) \cup Singletons /\ wrap[y].json \notin B
    BY <1>1, <1>14, <2>1, ValueUsed
  <2>7. Kind(cell', wrap[y].json) = Kind(cell, wrap[y].json)
    BY <1>15, <2>6
  <2>8. QED
    BY <2>1, <2>2, <2>3, <2>5, <2>7 DEF Leads
<1>20. OneWrapper(wrap')
  BY <1>1, <1>11, <1>12 DEF OneWrapper, Good, WrapsOK
<1>21. UnderRoot(wrap')
  <2>1. SUFFICES ASSUME NEW T \in SUBSET Wraps, Live(wrap', Root) => Root \in T,
                        \A y \in Wraps : Live(wrap', y) /\ wrap'[y].parent \in T => y \in T
                 PROVE  \A y \in Wraps : Live(wrap', y) => y \in T
    BY DEF UnderRoot
  <2>2. T \cup U \in SUBSET Wraps /\ (Live(wrap, Root) => Root \in T \cup U)
    BY <1>2, <1>10, <1>12, <2>1
  <2>3. ASSUME NEW y \in Wraps, Live(wrap, y), wrap[y].parent \in T \cup U  PROVE y \in T \cup U
    <3>1. CASE wrap[y].parent \in U
      <4>1. y \in Children(wrap[y].parent)
        BY <2>3 DEF Children, Live
      <4>2. QED
        BY <1>10, <3>1, <4>1
    <3>2. CASE wrap[y].parent \in T
      BY <1>11, <1>12, <2>1, <2>3, <3>2
    <3>3. QED
      BY <2>3, <3>1, <3>2
  <2>4. \A y \in Wraps : Live(wrap, y) => y \in T \cup U
    BY <1>1, <2>2, <2>3 DEF Good, WrapsOK, UnderRoot
  <2>5. QED
    BY <1>12, <2>4
<1>22. overwritten' = FALSE
  BY <1>4, <1>5
<1>23. QED
  BY <1>7, <1>16, <1>17, <1>18, <1>19, <1>20, <1>21, <1>22 DEF Good, WrapsOK

(* While the root has no wrapper there is none, and no value is in use.      *)
LEMMA NoDocument ==
  ASSUME NEW h, NEW wr, Good(h, wr), ~Live(wr, Root)
  PROVE  /\ \A x \in Wraps : wr[x] = None
         /\ Tree(h, {})
<1>1. \A x \in Wraps : Live(wr, x) => x \in {}
  <2>1. UnderRoot(wr) /\ {} \in SUBSET Wraps
    BY DEF Good, WrapsOK
  <2>2. \A x \in Wraps : Live(wr, x) /\ wr[x].parent \in {} => x \in {}
    OBVIOUS
  <2> DEFINE T == {}
  <2>3. (Live(wr, Root) => Root \in T) /\ T \in SUBSET Wraps
    OBVIOUS
  <2> HIDE DEF T
  <2>4. (\A x \in Wraps : Live(wr, x) /\ wr[x].parent \in T => x \in T)
        => \A x \in Wraps : Live(wr, x) => x \in T
    BY <2>1, <2>3 DEF UnderRoot
  <2>5. QED
    BY <2>2, <2>4 DEF T
<1>2. RootSet(wr) = {}
  BY DEF RootSet
<1>3. QED
  BY <1>1, <1>2 DEF Live, Good

(* A document is opened, or what was to be one is a fault. *)
LEMMA OpenStep ==
  ASSUME JsonInv, NEW kind \in {"object", "array"}, Open(kind)
  PROVE  JsonInv'
<1>1. wrap[Root] = None /\ UNCHANGED <<fault, overwritten>> /\ kind \in Counted
  BY DEF Open, Counted
<1>2. SUFFICES ASSUME ~overwritten  PROVE Good(cell', wrap')
  BY <1>1 DEF JsonInv
<1>3. Good(cell, wrap)
  BY <1>2 DEF JsonInv
<1>4. (\A x \in Wraps : wrap[x] = None) /\ Tree(cell, {})
  BY <1>1, <1>3, NoDocument DEF Live
<1>5. wrap \in [Wraps -> WrapType \cup {None}] /\ Root \in Wraps /\ HeapOK(cell)
  BY <1>3, JsonAssumption DEF Good, WrapsOK, Tree
<1>6. ASSUME NEW c \in FreeCells, cell' = New(cell, c, kind),
             wrap' = [wrap EXCEPT ![Root] = Wrapper(cell', c, FALSE, None, None)]
      PROVE  Good(cell', wrap')
  <2> DEFINE r == [json |-> c, type |-> Kind(cell', c), borrowed |-> FALSE,
                   parent |-> None, id |-> None]
  <2>1. c \in Cells /\ cell[c] = Free /\ c \notin Singletons
    BY JsonAssumption DEF FreeCells, Singletons
  <2>2. Tree(cell', {c})
    <3>1. Tree(cell', {} \cup {c})
      BY <1>1, <1>4, <1>6, <2>1, NewTree
    <3>2. QED
      BY <3>1
  <2>3. c \in Used(cell')
    BY <2>2 DEF Tree, Rooted
  <2>4. Kind(cell', c) \in Counted
    BY <2>1, <2>2, <2>3, KindOf DEF Tree
  <2>5. r \in WrapType
    BY <2>1, <2>4 DEF WrapType, Values
  <2>6. wrap'[Root] = r /\ \A x \in Wraps \ {Root} : wrap'[x] = None
    BY <1>4, <1>5, <1>6 DEF Wrapper
  <2>7. wrap' \in [Wraps -> WrapType \cup {None}]
    BY <1>5, <1>6, <2>5 DEF Wrapper
  <2>8. r.json = c /\ r.type = Kind(cell', c) /\ r.borrowed = FALSE /\ r.parent = None
    OBVIOUS
  <2> HIDE DEF r
  <2>9. RootSet(wrap') = {c}
    BY <2>1, <2>5, <2>6, <2>8, JsonAssumption DEF RootSet, Live
  <2>10. RootOK(cell', wrap')
    BY <2>3, <2>6, <2>8 DEF RootOK
  <2>11. QED
    BY <2>2, <2>6, <2>7, <2>9, <2>10, OnlyRoot
<1>7. ASSUME wrap' = [wrap EXCEPT ![Root] =
                        [Wrapper(cell, Null, FALSE, None, None) EXCEPT !.type = "fault"]],
             cell' = cell
      PROVE  Good(cell', wrap')
  <2> DEFINE r == [json |-> Null, type |-> "fault", borrowed |-> FALSE,
                   parent |-> None, id |-> None]
  <2>1. Null \in Singletons /\ r \in WrapType
    BY DEF Singletons, WrapType, Values
  <2>2. wrap'[Root] = r /\ \A x \in Wraps \ {Root} : wrap'[x] = None
    BY <1>4, <1>5, <1>7 DEF Wrapper
  <2>3. wrap' \in [Wraps -> WrapType \cup {None}]
    BY <1>5, <1>7, <2>1 DEF Wrapper
  <2>4. r.json = Null /\ r.type = "fault" /\ r.borrowed = FALSE /\ r.parent = None
    OBVIOUS
  <2> HIDE DEF r
  <2>5. RootSet(wrap') = {}
    BY <2>1, <2>2, <2>4 DEF RootSet
  <2>6. RootOK(cell', wrap')
    BY <2>1, <2>2, <2>4 DEF RootOK
  <2>7. QED
    BY <1>4, <1>7, <2>2, <2>3, <2>5, <2>6, OnlyRoot
<1>8. QED
  BY <1>6, <1>7 DEF Open

(* It is closed with all its wrappers. *)
LEMMA CloseStep ==
  ASSUME JsonInv, Close
  PROVE  JsonInv'
<1> DEFINE v == wrap[Root].json
<1>1. /\ Good(cell, wrap) /\ Live(wrap, Root) /\ ~overwritten /\ Root \in Wraps
      /\ UNCHANGED overwritten /\ cell' = Decref(cell, v) /\ fault' = Dangling(cell, v)
      /\ wrap' = [w \in Wraps |-> None]
  BY JsonAssumption DEF JsonInv, Close, Usable, Live
<1>2. v \in Used(cell) \cup Singletons /\ HeapOK(cell) /\ Tree(cell, RootSet(wrap))
  BY <1>1, ValueUsed DEF Good, Tree
<1>3. ~fault'
  BY <1>1, <1>2 DEF Dangling, Used
<1>4. Tree(cell', {})
  <2>1. CASE v \in Singletons
    <3>1. RootSet(wrap) = {} /\ cell' = cell
      BY <1>1, <1>2, <2>1, BelowSingle DEF RootSet
    <3>2. QED
      BY <1>2, <3>1
  <2>2. CASE v \notin Singletons
    <3>1. RootSet(wrap) = {v}
      BY <1>1, <2>2 DEF RootSet
    <3>2. v \in {v} /\ {v} \ {v} = {}
      OBVIOUS
    <3> HIDE DEF v
    <3>3. QED
      BY <1>1, <1>2, <3>1, <3>2, DecrefTree
  <2>3. QED
    BY <2>1, <2>2
<1>5. RootSet(wrap') = {} /\ RootOK(cell', wrap') /\ wrap' \in [Wraps -> WrapType \cup {None}]
      /\ \A x \in Wraps \ {Root} : wrap'[x] = None
  BY <1>1 DEF RootSet, RootOK, Live
<1>6. Good(cell', wrap')
  BY <1>4, <1>5, OnlyRoot
<1>7. QED
  BY <1>1, <1>3, <1>6 DEF JsonInv

(* At first nothing is in use. *)
LEMMA JsonFirst == JsonInit => JsonInv
<1> SUFFICES ASSUME JsonInit  PROVE JsonInv
  OBVIOUS
<1>1. /\ cell = [c \in Cells |-> Free] /\ wrap = [w \in Wraps |-> None]
      /\ fault = FALSE /\ overwritten = FALSE /\ Root \in Wraps
  BY JsonAssumption DEF JsonInit
<1>2. \A c \in Cells : cell[c] = Free /\ DOMAIN cell[c].kids = {}
  <2>1. Free.kids = << >>
    BY DEF Free
  <2>2. QED
    BY <1>1, <2>1, NoKids
<1>3. HeapOK(cell)
  BY <1>1, HeapMade
<1>4. Used(cell) = {}
  BY <1>2 DEF Used
<1>5. Tree(cell, {})
  BY <1>2, <1>3, <1>4 DEF Tree, KidsUsed, OnePlace, Rooted
<1>6. RootSet(wrap) = {} /\ RootOK(cell, wrap) /\ wrap \in [Wraps -> WrapType \cup {None}]
      /\ \A x \in Wraps \ {Root} : wrap[x] = None
  BY <1>1 DEF RootSet, RootOK, Live
<1>7. QED
  BY <1>1, <1>5, <1>6, OnlyRoot DEF JsonInv

(* Every step keeps the document whole, or is one JSON is not made for.      *)
LEMMA JsonStep == JsonInv /\ [JsonNext]_jsonVars => JsonInv'
<1> SUFFICES ASSUME JsonInv, [JsonNext]_jsonVars  PROVE JsonInv'
  OBVIOUS
<1>1. ASSUME NEW w \in Wraps, Usable(w)  PROVE Good(cell, wrap) /\ Live(wrap, w)
  BY <1>1 DEF JsonInv, Usable, Live
<1>2. CASE UNCHANGED jsonVars
  <2>1. cell' = cell /\ wrap' = wrap /\ fault' = fault /\ overwritten' = overwritten
    BY <1>2 DEF jsonVars
  <2>2. Good(cell, wrap)' = Good(cell', wrap')
    OBVIOUS
  <2>3. QED
    BY <2>1, <2>2 DEF JsonInv
<1>3. ASSUME NEW kind \in {"object", "array"}, Open(kind)  PROVE JsonInv'
  BY <1>3, OpenStep
<1>4. ASSUME NEW kind \in {"object", "array"}, NEW w \in Wraps, AssignNew(w, kind)
      PROVE  JsonInv'
  <2>1. PICK c \in FreeCells : Store(w, New(cell, c, kind), c)
    BY <1>4 DEF AssignNew
  <2>2. Usable(w) /\ Grown(New(cell, c, kind), c)
    BY <1>1, <1>4, GrownNew DEF AssignNew, Counted
  <2>3. QED
    BY <2>1, <2>2, StoreStep
<1>5. ASSUME Close  PROVE JsonInv'
  BY <1>5, CloseStep
<1>6. ASSUME NEW w \in Wraps, NEW i \in Indices, Index(w, i) \/ IndexNull(w, i) \/ Erase(w, i)
      PROVE  JsonInv'
  BY <1>6, IndexStep, IndexNullStep, EraseStep
<1>7. ASSUME NEW w \in Wraps, NEW kind \in {"string", "integer"}, Assign(w, kind)
      PROVE  JsonInv'
  <2>1. PICK c \in FreeCells : Store(w, New(cell, c, kind), c)
    BY <1>7 DEF Assign
  <2>2. Usable(w) /\ Grown(New(cell, c, kind), c)
    BY <1>1, <1>7, GrownNew DEF Assign, Counted
  <2>3. QED
    BY <2>1, <2>2, StoreStep
<1>8. ASSUME NEW w \in Wraps, AssignBool(w)  PROVE JsonInv'
  BY <1>1, <1>8, GrownTrue, StoreStep DEF AssignBool
<1>9. ASSUME NEW w \in Wraps, NEW v \in Wraps, AssignCopy(w, v)  PROVE JsonInv'
  <2>1. PICK f \in [Below(cell, wrap[v].json) -> FreeCells] :
          IsInjective(f) /\ Store(w, Copied(cell, f), CopyOf(f, wrap[v].json))
    BY <1>9 DEF AssignCopy
  <2>2. Usable(w) /\ Grown(Copied(cell, f), CopyOf(f, wrap[v].json))
    BY <1>1, <1>9, <2>1, GrownCopy DEF AssignCopy
  <2>3. QED
    BY <2>1, <2>2, StoreStep
<1>10. QED
  BY <1>2, <1>3, <1>4, <1>5, <1>6, <1>7, <1>8, <1>9 DEF JsonNext

(* A document that is whole holds every value once ...                       *)
LEMMA RefsHold == JsonInv => RefsExact
<1> SUFFICES ASSUME JsonInv, ~overwritten, NEW c \in Cells
             PROVE  Cardinality(Holders(c)) = IF cell[c] = Free THEN 0 ELSE 1
  BY DEF JsonInv, RefsExact
<1>1. Good(cell, wrap) /\ Root \in Wraps /\ Cells \cap Singletons = {}
  BY JsonAssumption DEF JsonInv, Singletons
<1> DEFINE R == RootSet(wrap)
           Places == {x \in Cells \X Indices : /\ cell[x[1]] # Free
                                               /\ x[2] \in DOMAIN cell[x[1]].kids
                                               /\ cell[x[1]].kids[x[2]] = c}
           Owners == {w \in Wraps : wrap[w] # None /\ ~wrap[w].borrowed /\ wrap[w].json = c}
<1>2. Holders(c) = Places \cup Owners
  BY DEF Holders
<1>3. Owners = IF c \in R THEN {Root} ELSE {}
  <2>1. \A w \in Owners : w = Root
    BY <1>1, ParentUsed DEF OverElement, Live
  <2>2. Root \in Owners <=> c \in R
    BY <1>1 DEF RootSet, Live, Good, WrapsOK, RootOK
  <2>3. QED
    BY <2>1, <2>2
<1>4. Tree(cell, R) /\ HeapOK(cell)
  BY <1>1 DEF Good, Tree
<1> HIDE DEF R, Owners
<1>5. CASE cell[c] = Free
  <2>1. c \notin Used(cell)
    BY <1>5 DEF Used
  <2>2. Places = {}
    BY <1>1, <1>4, <2>1 DEF Tree, KidsUsed
  <2>3. c \notin R
    BY <1>4, <2>1 DEF Tree, Rooted
  <2>4. QED
    BY <1>2, <1>3, <1>5, <2>2, <2>3, FS_EmptySet
<1>6. CASE c \in R
  <2>1. Places = {}
    BY <1>4, <1>6 DEF Tree, Rooted
  <2>2. cell[c] # Free
    BY <1>4, <1>6 DEF Tree, Rooted, Used
  <2>3. Holders(c) = {Root}
    BY <1>2, <1>3, <1>6, <2>1
  <2>4. QED
    BY <2>2, <2>3, FS_Singleton
<1>7. CASE cell[c] # Free /\ c \notin R
  <2>1. PICK d \in Cells : \E k \in DOMAIN cell[d].kids : cell[d].kids[k] = c
    <3> DEFINE S == Used(cell) \ {c}
    <3>1. SUFFICES ASSUME \A d \in Cells : \A k \in DOMAIN cell[d].kids : cell[d].kids[k] # c
                   PROVE  FALSE
      OBVIOUS
    <3>2. S \in SUBSET Cells /\ R \subseteq S
      BY <1>4, <1>7 DEF Tree, Rooted, Used
    <3>3. Closed(cell, S)
      BY <1>4, <3>1, <3>2 DEF Tree, KidsUsed, Closed
    <3>4. Used(cell) \subseteq S
      BY <1>4, <3>2, <3>3 DEF Tree, Rooted
    <3>5. QED
      BY <1>7, <3>4 DEF Used
  <2>2. PICK k \in DOMAIN cell[d].kids : cell[d].kids[k] = c
    BY <2>1
  <2>3. k \in Indices /\ cell[d] # Free
    BY <1>4, HeapFacts
  <2>4. <<d, k>> \in Places
    BY <2>2, <2>3
  <2>5. \A x \in Places : x = <<d, k>>
    <3>1. TAKE x \in Places
    <3>2. x[1] \in Cells /\ x[2] \in DOMAIN cell[x[1]].kids /\ cell[x[1]].kids[x[2]] = c
          /\ x = <<x[1], x[2]>>
      OBVIOUS
    <3>3. x[1] = d /\ x[2] = k
      BY <1>4, <2>2, <3>2 DEF Tree, OnePlace
    <3>4. QED
      BY <3>2, <3>3
  <2> HIDE DEF Places
  <2>6. Holders(c) = {<<d, k>>}
    BY <1>2, <1>3, <1>7, <2>4, <2>5
  <2>7. QED
    BY <1>7, <2>6, FS_Singleton
<1>8. QED
  BY <1>5, <1>6, <1>7

(* ... and every wrapper leads to its element. *)
LEMMA WrappersHold == JsonInv => WrappersTrue
<1> SUFFICES ASSUME JsonInv, ~overwritten, NEW w \in Wraps, wrap[w] # None, w # Root
             PROVE  /\ wrap[wrap[w].parent] # None
                    /\ LET kids == Kids(cell, wrap[wrap[w].parent].json) IN
                       wrap[w].id \in DOMAIN kids /\ kids[wrap[w].id] = wrap[w].json
                    /\ wrap[w].type = Kind(cell, wrap[w].json)
                    /\ Child(wrap[w].parent, wrap[w].id) = {w}
  BY DEF WrappersTrue
<1>1. Good(cell, wrap)
  BY DEF JsonInv
<1> DEFINE p == wrap[w].parent  c == wrap[p].json  i == wrap[w].id
<1>2. /\ p \in Wraps /\ Live(wrap, p)
      /\ c \in Cells \ Singletons
      /\ i \in DOMAIN cell[c].kids /\ cell[c].kids[i] = wrap[w].json
      /\ wrap[w].type = Kind(cell, wrap[w].json)
  <2>1. OverElement(cell, wrap, w)
    BY <1>1, ParentUsed DEF Live
  <2>2. QED
    BY ONLY <2>1 DEF OverElement
<1>3. Kids(cell, c) = cell[c].kids
  BY <1>2 DEF Kids
<1>4. \A x \in Child(p, i) : x = w
  BY <1>1 DEF Child, Children, Good, WrapsOK, OneWrapper, Live
<1>5. w \in Child(p, i)
  BY DEF Child, Children
<1>6. QED
  BY <1>2, <1>3, <1>4, <1>5 DEF Live

(***************************************************************************)
(* For every document, whatever is assigned, copied and erased: no value   *)
(* is used after it was freed, freed while a container holds it, or kept   *)
(* without a holder, until JSON is used for what it is not made for.       *)
(***************************************************************************)
THEOREM RefsCorrect == JsonSpec => []RefsExact
<1>1. JsonSpec => []JsonInv
  BY JsonFirst, JsonStep, PTL DEF JsonSpec
<1>2. QED
  BY <1>1, RefsHold, PTL

(***************************************************************************)
(* Until then every wrapper leads to the element its key or index names,   *)
(* and is the only one that does.                                          *)
(***************************************************************************)
THEOREM WrappersCorrect == JsonSpec => []WrappersTrue
<1>1. JsonSpec => []JsonInv
  BY JsonFirst, JsonStep, PTL DEF JsonSpec
<1>2. QED
  BY <1>1, WrappersHold, PTL
=============================================================================
