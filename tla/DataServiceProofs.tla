------------------------- MODULE DataServiceProofs -------------------------
(***************************************************************************)
(* The data service's invariants, proved for any number of callers,        *)
(* receivers, nodes and requests, and its refinement of PendingCalls.      *)
(***************************************************************************)
EXTENDS DataService, FiniteSetTheorems, TLAPS

-----------------------------------------------------------------------------
(* Lists: what linking in front and popping the front do. *)

(* emplace_after(before_begin()) puts n first and moves every node by one. *)
LEMMA PrependLemma ==
  ASSUME NEW S, NEW s \in Seq(S), NEW n \in S
  PROVE  /\ <<n>> \o s \in Seq(S)
         /\ Len(<<n>> \o s) = Len(s) + 1
         /\ (<<n>> \o s)[1] = n
         /\ \A i \in 1 .. Len(s) : (<<n>> \o s)[i + 1] = s[i]
         /\ \A i \in 2 .. Len(s) + 1 : (<<n>> \o s)[i] = s[i - 1]
  OBVIOUS

(* pop_front() moves every node of a non-empty list by one. *)
LEMMA TailLemma ==
  ASSUME NEW S, NEW s \in Seq(S), Len(s) > 0
  PROVE  /\ Tail(s) \in Seq(S)
         /\ Len(Tail(s)) = Len(s) - 1
         /\ Head(s) = s[1]
         /\ Head(s) \in S
         /\ \A i \in 1 .. Len(s) - 1 : Tail(s)[i] = s[i + 1]
  OBVIOUS

Elems(s) == {s[i] : i \in DOMAIN s}

NoRepeat(s) == \A i, j \in DOMAIN s : s[i] = s[j] => i = j

(* The nodes of a list after a node is linked in front. *)
LEMMA PrependRange ==
  ASSUME NEW S, NEW s \in Seq(S), NEW n \in S
  PROVE  Elems(<<n>> \o s) = Elems(s) \cup {n}
  <1> DEFINE t == <<n>> \o s
  <1> USE DEF Elems
  <1>1. /\ DOMAIN t = 1 .. Len(s) + 1
        /\ DOMAIN s = 1 .. Len(s)
        /\ Len(s) \in Nat
        /\ t[1] = n
    OBVIOUS
  <1>2. \A i \in 1 .. Len(s) : t[i + 1] = s[i]
    BY PrependLemma
  <1>3. \A i \in 2 .. Len(s) + 1 : t[i] = s[i - 1] /\ i - 1 \in 1 .. Len(s)
    BY PrependLemma
  <1>4. \A i \in 1 .. Len(s) + 1 : i = 1 \/ i \in 2 .. Len(s) + 1
    OBVIOUS
  <1>5. ASSUME NEW x \in {t[i] : i \in DOMAIN t}
        PROVE  x \in {s[i] : i \in DOMAIN s} \cup {n}
    <2>1. PICK i \in 1 .. Len(s) + 1 : x = t[i]
      BY <1>1
    <2>2. CASE i = 1
      BY <2>1, <2>2, <1>1
    <2>3. CASE i \in 2 .. Len(s) + 1
      BY <2>1, <2>3, <1>1, <1>3
    <2> QED
      BY <2>2, <2>3, <1>4
  <1>6. ASSUME NEW x \in {s[i] : i \in DOMAIN s} \cup {n}
        PROVE  x \in {t[i] : i \in DOMAIN t}
    <2>1. CASE x = n
      BY <2>1, <1>1
    <2>2. CASE x # n
      <3>1. PICK i \in 1 .. Len(s) : x = s[i]
        BY <2>2, <1>1
      <3>2. i + 1 \in 1 .. Len(s) + 1 /\ x = t[i + 1]
        BY <3>1, <1>1, <1>2
      <3> QED
        BY <3>2, <1>1
    <2> QED
      BY <2>1, <2>2
  <1> QED
    BY <1>5, <1>6

(* The nodes of a list without repetition after its front is popped. *)
LEMMA TailRange ==
  ASSUME NEW S, NEW s \in Seq(S), Len(s) > 0, NEW t, t = Tail(s),
         NoRepeat(s)
  PROVE  Elems(t) = Elems(s) \ {Head(s)}
  <1> USE DEF Elems, NoRepeat
  <1>1. /\ DOMAIN t = 1 .. Len(s) - 1
        /\ DOMAIN s = 1 .. Len(s)
        /\ Len(s) \in Nat
        /\ Head(s) = s[1]
    BY TailLemma
  <1>2. \A i \in 1 .. Len(s) - 1 : t[i] = s[i + 1] /\ i + 1 \in 1 .. Len(s)
    BY TailLemma
  <1>3. ASSUME NEW x \in {t[i] : i \in DOMAIN t}
        PROVE  x \in {s[i] : i \in DOMAIN s} \ {Head(s)}
    <2>1. PICK i \in 1 .. Len(s) - 1 : x = t[i]
      BY <1>1
    <2>2. x = s[i + 1] /\ i + 1 \in 1 .. Len(s) /\ i + 1 # 1 /\ 1 \in 1 .. Len(s)
      BY <2>1, <1>1, <1>2
    <2> QED
      BY <2>2, <1>1
  <1>4. ASSUME NEW x \in {s[i] : i \in DOMAIN s} \ {Head(s)}
        PROVE  x \in {t[i] : i \in DOMAIN t}
    <2>1. PICK i \in 1 .. Len(s) : x = s[i] /\ i # 1
      BY <1>1
    <2>2. i - 1 \in 1 .. Len(s) - 1 /\ (i - 1) + 1 = i
      BY <2>1, <1>1
    <2>3. t[i - 1] = x
      BY <2>1, <2>2, <1>2
    <2> QED
      BY <2>2, <2>3, <1>1
  <1> QED
    BY <1>3, <1>4

(* Linking a new node leaves a list without repetition. *)
LEMMA PrependDistinct ==
  ASSUME NEW S, NEW s \in Seq(S), NEW n \in S, n \notin Elems(s), NoRepeat(s),
         NEW t, t = <<n>> \o s
  PROVE  NoRepeat(t)
  <1> USE DEF Elems, NoRepeat
  <1>1. /\ DOMAIN t = 1 .. Len(s) + 1
        /\ DOMAIN s = 1 .. Len(s)
        /\ Len(s) \in Nat
        /\ t[1] = n
    OBVIOUS
  <1>2. \A i \in 2 .. Len(s) + 1 : t[i] = s[i - 1] /\ i - 1 \in DOMAIN s
    BY PrependLemma, <1>1
  <1>3. \A i \in 2 .. Len(s) + 1 : t[i] # n
    BY <1>2
  <1> QED
    BY <1>1, <1>2, <1>3

(* Popping the front leaves a list without repetition. *)
LEMMA TailDistinct ==
  ASSUME NEW S, NEW s \in Seq(S), Len(s) > 0, NEW t, t = Tail(s),
         NoRepeat(s)
  PROVE  NoRepeat(t)
  <1> USE DEF NoRepeat
  <1>1. /\ DOMAIN t = 1 .. Len(s) - 1
        /\ DOMAIN s = 1 .. Len(s)
        /\ Len(s) \in Nat
    BY TailLemma
  <1>2. \A i \in DOMAIN t : t[i] = s[i + 1] /\ i + 1 \in DOMAIN s
    BY TailLemma, <1>1
  <1> QED
    BY <1>1, <1>2
-----------------------------------------------------------------------------
(* The inductive invariant.  Its first half holds in every behaviour.      *)

InsideSet == {c \in Callers : Inside(c)}

Distinct == NoRepeat(buffer)

(* A caller inside request() has a call of its own, and its handle a node. *)
CallerInv ==
  \A c \in Callers :
    /\ Inside(c) => call[c] \in 1 .. made /\ handle[c] \in Nodes
    /\ cpc[c] \in {"checking", "asleep"} => obj[c] \in Calls

CallsDiffer ==
  \A c, d \in Callers : Inside(c) /\ Inside(d) /\ call[c] = call[d] => c = d

(* A receiver inside indicate() holds buffer__Mutex and serves some entry. *)
RcvrInv ==
  \A r \in Rcvrs : Busy(r) => bufferLock = r /\ hit[r] \in Calls

BaseInv ==
  TypeOK /\ CountExact /\ CallerInv /\ CallsDiffer /\ RcvrInv

(* The second half holds as long as no removal overtook another. *)

(* Every linked node is the handle of a caller inside request(). *)
Onto == \A n \in Linked : \E c \in Callers : Inside(c) /\ handle[c] = n

(* A waiting caller waits on its own SyncInfo, with its mutex while it tests rdy. *)
WaitInv ==
  \A c \in Callers :
    /\ cpc[c] \in {"checking", "asleep"} => obj[c] = call[c]
    /\ cpc[c] = "checking" => m[call[c]] = c

(* NoLostWakeup, for the caller that is still testing rdy too. *)
WakeupComing ==
  \A c \in Callers :
    cpc[c] \in {"checking", "asleep"} /\ rdy[obj[c]] =>
      \E r \in Rcvrs : rpc[r] = "notifying" /\ hit[r] = obj[c]

OrderInv ==
  /\ RegistryExact
  /\ CallbackInsideRequest
  /\ ~overtaken => Onto /\ WaitInv /\ WakeupComing

(* The invariant holds initially: nobody is inside request() or indicate(). *)
LEMMA InitInv == Init => BaseInv /\ OrderInv
  <1> SUFFICES ASSUME Init PROVE BaseInv /\ OrderInv
    OBVIOUS
  <1>1. \A c \in Callers : ~Inside(c)
    BY DEF Init, Inside
  <1>2. \A r \in Rcvrs : ~Busy(r)
    BY DEF Init, Busy
  <1>3. Linked = {}
    BY DEF Init, Linked
  <1>0. << >> \in Seq(Nodes) /\ Len(<< >>) = 0 /\ DOMAIN << >> = {}
    OBVIOUS
  <1>4. TypeOK
    <2>1. buffer \in Seq(Nodes)
      BY <1>0 DEF Init
    <2>2. made \in 0 .. MaxCalls
      BY ConstAssumption DEF Init
    <2> QED
      BY <1>3, <2>1, <2>2 DEF Init, TypeOK, CallerStates, RcvrStates
  <1>5. CountExact
    <2>1. {c \in Callers : Inside(c)} = {}
      BY <1>1
    <2>2. Cardinality({}) = 0
      BY FS_EmptySet
    <2> QED
      BY <1>0, <2>1, <2>2 DEF CountExact, Init
  <1>6. CallerInv /\ CallsDiffer /\ RcvrInv
    BY <1>1, <1>2 DEF CallerInv, CallsDiffer, RcvrInv, Init
  <1>7. OrderInv
    BY <1>1, <1>2, <1>3
    DEF OrderInv, RegistryExact, CallbackInsideRequest, Onto, WaitInv,
        WakeupComing, Init
  <1> QED
    BY <1>4, <1>5, <1>6, <1>7 DEF BaseInv
-----------------------------------------------------------------------------
(* Preservation of the first half. *)

(* The list and who is inside request() are untouched: so is the count. *)
LEMMA CountKept ==
  ASSUME CountExact, UNCHANGED buffer,
         \A c \in Callers : (cpc[c] # "idle") <=> (cpc'[c] # "idle")
  PROVE  CountExact'
  <1>1. {c \in Callers : Inside(c)} = {c \in Callers : Inside(c)}'
    BY DEF Inside
  <1> QED
    BY <1>1 DEF CountExact

(* Register keeps the first half: one more entry, one more caller inside. *)
LEMMA RegisterBase ==
  ASSUME BaseInv, NEW c \in Callers, Register(c)
  PROVE  BaseInv'
  <1> USE DEF BaseInv, TypeOK
  <1>1. PICK n \in Nodes \ Linked : NewEntry(c, n)
    BY DEF Register
  <1>2. /\ buffer' \in Seq(Nodes)
        /\ Len(buffer') = Len(buffer) + 1
    BY <1>1, PrependLemma DEF NewEntry
  <1>a. NoRepeat(buffer) /\ Linked = Elems(buffer) /\ Linked' = Elems(buffer')
    BY DEF CountExact, NoRepeat, Linked, Elems
  <1>b. n \in Nodes /\ n \notin Elems(buffer) /\ buffer' = <<n>> \o buffer
    BY <1>1, <1>a DEF NewEntry
  <1>0. buffer \in Seq(Nodes)
    OBVIOUS
  <1>d. Elems(buffer') = Elems(buffer) \cup {n}
    <2>1. Elems(<<n>> \o buffer) = Elems(buffer) \cup {n}
      BY ONLY <1>b, <1>0, PrependRange
    <2> QED
      BY ONLY <1>b, <2>1
  <1>3. Linked' = Linked \cup {n}
    BY <1>a, <1>d
  <1>4. Distinct'
    BY <1>a, <1>b, PrependDistinct DEF Distinct
  <1>5. made + 1 \in Calls /\ made' = made + 1
    BY ConstAssumption DEF Register, Calls
  <1>6. CountExact'
    <2>1. InsideSet' = InsideSet \cup {c} /\ c \notin InsideSet
      BY DEF Register, GoCaller, InsideSet, Inside
    <2>2. IsFiniteSet(InsideSet)
      BY ConstAssumption, FS_Subset DEF InsideSet
    <2>3. Cardinality(InsideSet') = Cardinality(InsideSet) + 1
      BY <2>1, <2>2, FS_AddElement
    <2> QED
      BY <1>2, <1>4, <2>3 DEF CountExact, InsideSet, Distinct, NoRepeat
  <1>7. TypeOK'
    <2>1. content' \in [Nodes -> Calls \cup {None}]
      BY <1>1, <1>5 DEF NewEntry
    <2>2. \A x \in Linked' : content'[x] \in Calls
      BY <1>1, <1>3, <1>5 DEF NewEntry
    <2>3. /\ cpc' \in [Callers -> CallerStates]
          /\ handle' \in [Callers -> Nodes \cup {None}]
          /\ call' \in [Callers -> Calls \cup {None}]
      BY <1>1, <1>5 DEF NewEntry, Register, GoCaller, CallerStates
    <2>4. made' \in 0 .. MaxCalls
      BY ConstAssumption DEF Register
    <2> QED
      BY <1>2, <2>1, <2>2, <2>3, <2>4 DEF Register, callVars
  <1>8. CallerInv'
    <2>1. \A d \in Callers : call'[d] = IF d = c THEN made + 1 ELSE call[d]
      BY DEF Register
    <2>2. \A d \in Callers : handle'[d] = IF d = c THEN n ELSE handle[d]
      BY <1>1 DEF NewEntry
    <2>3. \A d \in Callers : cpc'[d] = IF d = c THEN "registered" ELSE cpc[d]
      BY DEF Register, GoCaller
    <2>4. \A k : k \in 1 .. made => k \in 1 .. made'
      BY <1>5
    <2>5. made + 1 \in 1 .. made'
      BY <1>5
    <2>6. obj' = obj
      BY DEF Register
    <2> QED
      BY <2>1, <2>2, <2>3, <2>4, <2>5, <2>6 DEF CallerInv, Inside
  <1>9. CallsDiffer'
    <2>1. \A d \in Callers : Inside(d) => call[d] # made + 1
      BY DEF CallerInv
    <2> QED
      BY <2>1 DEF CallsDiffer, Register, GoCaller, Inside
  <1>10. RcvrInv'
    BY DEF Register, RcvrInv, Busy
  <1> QED
    BY <1>6, <1>7, <1>8, <1>9, <1>10

(* Remove keeps the first half: the list is not empty, for its caller is inside. *)
LEMMA RemoveBase ==
  ASSUME BaseInv, NEW c \in Callers, Remove(c)
  PROVE  BaseInv'
  <1> USE DEF BaseInv, TypeOK
  <1> DEFINE h == handle[c]
             f == Head(buffer)
  <1>1. InsideSet' = InsideSet \ {c} /\ c \in InsideSet
    BY DEF Remove, Return, GoCaller, InsideSet, Inside
  <1>2. IsFiniteSet(InsideSet)
    BY ConstAssumption, FS_Subset DEF InsideSet
  <1>3. /\ Cardinality(InsideSet') = Cardinality(InsideSet) - 1
        /\ Cardinality(InsideSet) \in Nat
    BY <1>1, <1>2, FS_RemoveElement, FS_CardinalityType
  <1>4. Len(buffer) > 0
    <2>1. Cardinality(InsideSet) # 0
      BY <1>1, <1>2, FS_EmptySet
    <2> QED
      BY <1>3, <2>1 DEF CountExact, InsideSet
  <1>5. /\ buffer' \in Seq(Nodes)
        /\ Len(buffer') = Len(buffer) - 1
        /\ f \in Nodes /\ f \in Linked
    BY <1>4, TailLemma DEF Remove, Unlink, Linked
  <1>a. NoRepeat(buffer) /\ Linked = Elems(buffer) /\ Linked' = Elems(buffer')
    BY DEF CountExact, NoRepeat, Linked, Elems
  <1>b. buffer' = Tail(buffer)
    BY DEF Remove, Unlink
  <1>6. Linked' = Linked \ {f}
    BY <1>4, <1>a, <1>b, TailRange
  <1>7. Distinct'
    BY <1>4, <1>a, <1>b, TailDistinct DEF Distinct
  <1>8. CountExact'
    BY <1>3, <1>5, <1>7 DEF CountExact, InsideSet, Distinct, NoRepeat
  <1>9. h \in Nodes
    BY DEF CallerInv, Remove, Return, GoCaller, Inside
  <1>10. content' = [content EXCEPT ![h] = content[f], ![f] = None]
    BY DEF Remove, Unlink
  <1>11. TypeOK'
    <2>1. content' \in [Nodes -> Calls \cup {None}]
      BY <1>5, <1>9, <1>10
    <2>a. \A x \in Linked : x \in Nodes /\ content[x] \in Calls
      BY DEF Linked
    <2>2. \A x \in Linked' : content'[x] \in Calls
      BY <1>5, <1>6, <1>9, <1>10, <2>a
    <2>3. /\ cpc' \in [Callers -> CallerStates]
          /\ handle' \in [Callers -> Nodes \cup {None}]
          /\ call' \in [Callers -> Calls \cup {None}]
          /\ obj' \in [Callers -> Calls \cup {None}]
      BY DEF Remove, Return, GoCaller, CallerStates
    <2>4. overtaken' \in BOOLEAN
      BY DEF Remove, Unlink
    <2> QED
      BY <1>5, <2>1, <2>2, <2>3, <2>4 DEF Remove, Return, callVars
  <1>12. CallerInv' /\ CallsDiffer'
    BY DEF CallerInv, CallsDiffer, Remove, Return, GoCaller, Inside
  <1>13. RcvrInv'
    BY DEF Remove, Return, RcvrInv, Busy
  <1> QED
    BY <1>8, <1>11, <1>12, <1>13

(* The steps of request() between its entry and its return keep the first half. *)
LEMMA WaitingBase ==
  ASSUME BaseInv, NEW c \in Callers,
         Arm(c) \/ Send(c) \/ WaitFor(c) \/ Sleep(c) \/ Timeout(c)
  PROVE  BaseInv'
  <1> USE DEF BaseInv, TypeOK, GoCaller, callVars
  <1>1. UNCHANGED <<buffer, made, call, handle, content, overtaken, rpc, hit, bufferLock>>
    BY DEF Arm, Send, WaitFor, Sleep, Timeout
  <1>2. Linked' = Linked
    BY <1>1 DEF Linked
  <1>3. PICK s \in CallerStates \ {"idle"} : cpc' = [cpc EXCEPT ![c] = s] /\ Inside(c)
    BY DEF Arm, Send, WaitFor, Sleep, Timeout, CallerStates, Inside
  <1>4. \A d \in Callers : Inside(d) <=> Inside(d)'
    BY <1>3 DEF Inside
  <1>5. CountExact'
    BY <1>1, <1>4, CountKept DEF Inside
  <1>6. content[handle[c]] \in Calls \cup {None} /\ call[c] \in Calls
    <2>1. handle[c] \in Nodes /\ call[c] \in 1 .. made
      BY <1>3 DEF CallerInv
    <2>2. \A k \in 1 .. made : k \in Calls
      BY ConstAssumption DEF Calls
    <2> QED
      BY <2>1, <2>2
  <1>7. TypeOK' /\ CallerInv'
    <2>1. CASE Arm(c)
      <3>1. /\ sync' \in [Calls -> BOOLEAN]
            /\ rdy' \in [Calls -> BOOLEAN]
        BY <2>1, <1>6 DEF Arm
      <3>2. cpc' \in [Callers -> CallerStates]
        BY <1>3
      <3> QED
        BY <1>1, <1>2, <1>4, <2>1, <3>1, <3>2 DEF Arm, CallerInv
    <2>2. CASE Send(c)
      <3>1. air' \in [Calls -> Nat]
        BY <2>2, <1>6, ConstAssumption DEF Send
      <3>2. cpc' \in [Callers -> CallerStates]
        BY <1>3
      <3> QED
        BY <1>1, <1>2, <1>4, <2>2, <3>1, <3>2 DEF Send, CallerInv
    <2>3. CASE WaitFor(c)
      <3>1. /\ m' \in [Calls -> Callers \cup {Free}]
            /\ obj' \in [Callers -> Calls \cup {None}]
        <4>1. CASE UNCHANGED <<m, obj>>
          BY <4>1
        <4>2. CASE ~UNCHANGED <<m, obj>>
          <5>1. PICK k \in Calls : m' = [m EXCEPT ![k] = c] /\ obj' = [obj EXCEPT ![c] = k]
            BY <2>3, <1>6, <4>2 DEF WaitFor
          <5> QED
            BY <5>1
        <4> QED
          BY <4>1, <4>2
      <3>2. cpc' \in [Callers -> CallerStates]
        BY <1>3
      <3>3. \A d \in Callers : cpc'[d] \in {"checking", "asleep"} => obj'[d] \in Calls
        BY <2>3, <1>6 DEF WaitFor, CallerInv
      <3> QED
        BY <1>1, <1>2, <1>4, <2>3, <3>1, <3>2, <3>3 DEF WaitFor, CallerInv
    <2>4. CASE Sleep(c)
      <3>1. m' \in [Calls -> Callers \cup {Free}]
        BY <2>4 DEF Sleep, CallerInv
      <3>2. cpc' \in [Callers -> CallerStates]
        BY <1>3
      <3> QED
        BY <1>1, <1>2, <1>4, <2>4, <3>1, <3>2 DEF Sleep, CallerInv
    <2>5. CASE Timeout(c)
      <3>1. cpc' \in [Callers -> CallerStates]
        BY <1>3
      <3> QED
        BY <1>1, <1>2, <1>4, <2>5, <3>1 DEF Timeout, CallerInv
    <2> QED
      BY <2>1, <2>2, <2>3, <2>4, <2>5
  <1>8. CallsDiffer' /\ RcvrInv'
    BY <1>1, <1>4 DEF CallsDiffer, RcvrInv, Busy
  <1> QED
    BY <1>5, <1>7, <1>8

(* Receivers keep the first half: they change no list and no caller's place in it. *)
LEMMA RcvrBase ==
  ASSUME BaseInv, NEW r \in Rcvrs, RcvrStep(r)
  PROVE  BaseInv'
  <1> USE DEF BaseInv, TypeOK, callVars
  <1>1. UNCHANGED <<buffer, made, call, handle, content, overtaken, obj, m, up>>
    BY DEF RcvrStep, Indicate, Disarm, SetReady, Notify, Wake
  <1>2. Linked' = Linked
    BY <1>1 DEF Linked
  <1>3. Busy(r) => hit[r] \in Calls /\ bufferLock = r
    BY DEF RcvrInv
  <1>4. /\ cpc' \in [Callers -> CallerStates]
        /\ \A c \in Callers : Inside(c) <=> Inside(c)'
        /\ \A c \in Callers : cpc'[c] \in {"checking", "asleep"} => cpc'[c] = cpc[c]
    <2>1. CASE UNCHANGED cpc
      BY <2>1 DEF Inside
    <2>2. CASE Notify(r) /\ cpc' # cpc
      <3>1. PICK c \in Callers : cpc[c] = "asleep" /\ cpc' = [cpc EXCEPT ![c] = "returning"]
        BY <2>2 DEF Notify, Wake
      <3> QED
        BY <3>1 DEF Inside, CallerStates
    <2> QED
      BY <2>1, <2>2 DEF RcvrStep, Indicate, Disarm, SetReady
  <1>5. CountExact'
    BY <1>1, <1>4, CountKept DEF Inside
  <1>6. CallerInv' /\ CallsDiffer'
    BY <1>1, <1>4 DEF CallerInv, CallsDiffer
  <1>7. TypeOK' /\ RcvrInv'
    <2>1. CASE Indicate(r)
      <3>1. PICK j \in Calls :
              /\ air[j] > 0
              /\ air' = [air EXCEPT ![j] = @ - 1]
              /\ \/ rpc' = [rpc EXCEPT ![r] = "idle"] /\ UNCHANGED <<bufferLock, hit>>
                 \/ \E i \in DOMAIN buffer :
                      /\ rpc' = [rpc EXCEPT ![r] = "callback"]
                      /\ bufferLock' = r
                      /\ hit' = [hit EXCEPT ![r] = content[buffer[i]]]
        BY <2>1 DEF Indicate, GoRcvr
      <3>2. air' \in [Calls -> Nat]
        BY <3>1
      <3>3. \A i \in DOMAIN buffer : content[buffer[i]] \in Calls
        BY DEF Linked
      <3>4. /\ hit' \in [Rcvrs -> Calls \cup {None}]
            /\ bufferLock' \in Rcvrs \cup {Free}
            /\ rpc' \in [Rcvrs -> RcvrStates]
        BY <3>1, <3>3 DEF RcvrStates
      <3>5. \A q \in Rcvrs : ~Busy(q)
        BY <2>1, ConstAssumption DEF Indicate, RcvrInv
      <3>6. RcvrInv'
        BY <3>1, <3>3, <3>5 DEF RcvrInv, Busy
      <3> QED
        BY <1>1, <1>2, <1>4, <2>1, <3>2, <3>4, <3>6 DEF Indicate
    <2>2. CASE Disarm(r)
      <3>1. Busy(r)
        BY <2>2 DEF Disarm, Busy
      <3>2. /\ sync' \in [Calls -> BOOLEAN]
            /\ hit' \in [Rcvrs -> Calls \cup {None}]
            /\ bufferLock' \in Rcvrs \cup {Free}
            /\ rpc' \in [Rcvrs -> RcvrStates]
        BY <2>2, <3>1, <1>3 DEF Disarm, Leave, GoRcvr, RcvrStates
      <3>3. RcvrInv'
        BY <2>2, <3>1 DEF Disarm, Leave, GoRcvr, RcvrInv, Busy
      <3> QED
        BY <1>1, <1>2, <1>4, <2>2, <3>2, <3>3 DEF Disarm
    <2>3. CASE SetReady(r)
      <3>1. Busy(r)
        BY <2>3 DEF SetReady, GoRcvr, Busy
      <3>2. /\ rdy' \in [Calls -> BOOLEAN]
            /\ rpc' \in [Rcvrs -> RcvrStates]
        BY <2>3, <3>1, <1>3 DEF SetReady, GoRcvr, RcvrStates
      <3>3. RcvrInv'
        BY <2>3, <3>1 DEF SetReady, GoRcvr, RcvrInv, Busy
      <3> QED
        BY <1>1, <1>2, <1>4, <2>3, <3>2, <3>3 DEF SetReady
    <2>4. CASE Notify(r)
      <3>1. Busy(r)
        BY <2>4 DEF Notify, Busy
      <3>2. /\ hit' \in [Rcvrs -> Calls \cup {None}]
            /\ bufferLock' \in Rcvrs \cup {Free}
            /\ rpc' \in [Rcvrs -> RcvrStates]
        BY <2>4 DEF Notify, Wake, Leave, GoRcvr, RcvrStates
      <3>3. RcvrInv'
        BY <2>4, <3>1 DEF Notify, Wake, Leave, GoRcvr, RcvrInv, Busy
      <3> QED
        BY <1>1, <1>2, <1>4, <2>4, <3>2, <3>3 DEF Notify, Wake
    <2> QED
      BY <2>1, <2>2, <2>3, <2>4 DEF RcvrStep
  <1> QED
    BY <1>5, <1>6, <1>7

(* Every step keeps the first half. *)
LEMMA BaseStep == BaseInv /\ [Next]_vars => BaseInv'
  <1> SUFFICES ASSUME BaseInv, [Next]_vars PROVE BaseInv'
    OBVIOUS
  <1>1. ASSUME NEW c \in Callers, CallerStep(c) PROVE BaseInv'
    BY <1>1, RegisterBase, WaitingBase, RemoveBase DEF CallerStep
  <1>2. ASSUME NEW r \in Rcvrs, RcvrStep(r) PROVE BaseInv'
    BY <1>2, RcvrBase
  <1>3. CASE Crash \/ UNCHANGED vars
    <2>1. /\ up' \in BOOLEAN
          /\ UNCHANGED <<made, buffer, content, bufferLock, sync, rdy, m, cpc, call,
                         handle, obj, rpc, hit, air, overtaken>>
      BY <1>3 DEF Crash, vars, callVars, BaseInv, TypeOK
    <2>2. TypeOK'
      BY <2>1 DEF BaseInv, TypeOK, Linked
    <2>3. CountExact'
      BY <2>1, CountKept DEF BaseInv
    <2>4. CallerInv' /\ CallsDiffer' /\ RcvrInv'
      BY <2>1 DEF BaseInv, CallerInv, CallsDiffer, RcvrInv, Inside, Busy
    <2> QED
      BY <2>2, <2>3, <2>4 DEF BaseInv
  <1> QED
    BY <1>1, <1>2, <1>3 DEF Next

(* Types, live entries and the exact count, in every behaviour. *)
THEOREM BaseInvariant == Spec => []BaseInv
  <1> QED
    BY InitInv, BaseStep, PTL DEF Spec

(* request() and indicate() keep every variable's type, and every linked
   node holds a live entry. *)
THEOREM TypeCorrect == Spec => []TypeOK
  <1>1. BaseInv => TypeOK
    BY DEF BaseInv
  <1> QED
    BY <1>1, BaseInvariant, PTL

(* buffer__ has one entry per caller inside request(): remove()'s pop_front()
   never meets an empty list. *)
THEOREM CountCorrect == Spec => []CountExact
  <1>1. BaseInv => CountExact
    BY DEF BaseInv
  <1> QED
    BY <1>1, BaseInvariant, PTL
-----------------------------------------------------------------------------
(* Preservation of the second half. *)

(* What the second half says, once no removal has overtaken another. *)
Orderly ==
  /\ \A c \in Callers : Inside(c) =>
       handle[c] \in Linked /\ content[handle[c]] = call[c]
  /\ \A r \in Rcvrs : Busy(r) => \E c \in Callers : Inside(c) /\ call[c] = hit[r]
  /\ Onto /\ WaitInv /\ WakeupComing

(* The second half of the invariant is Orderly, up to overtaking. *)
LEMMA OrderlyOrder == OrderInv <=> (~overtaken => Orderly)
  BY DEF OrderInv, Orderly, RegistryExact, CallbackInsideRequest

(* A new entry is at its caller's handle and disturbs no other entry. *)
LEMMA RegisterOrder ==
  ASSUME BaseInv, Orderly, NEW c \in Callers, Register(c)
  PROVE  Orderly'
  <1> USE DEF BaseInv, TypeOK
  <1>1. PICK n \in Nodes \ Linked : NewEntry(c, n)
    BY DEF Register
  <1>2. Linked = Elems(buffer) /\ Linked' = Elems(buffer')
    BY DEF Linked, Elems
  <1>3. n \in Nodes /\ buffer' = <<n>> \o buffer
    BY <1>1 DEF NewEntry
  <1>0. buffer \in Seq(Nodes)
    OBVIOUS
  <1>4. Elems(buffer') = Elems(buffer) \cup {n}
    <2>1. Elems(<<n>> \o buffer) = Elems(buffer) \cup {n}
      BY ONLY <1>3, <1>0, PrependRange
    <2> QED
      BY ONLY <1>3, <2>1
  <1>5. Linked' = Linked \cup {n} /\ n \notin Linked
    BY <1>1, <1>2, <1>4
  <1>6. \A d \in Callers :
          /\ handle'[d] = IF d = c THEN n ELSE handle[d]
          /\ call'[d] = IF d = c THEN made + 1 ELSE call[d]
          /\ Inside(d)' <=> (d = c \/ Inside(d))
          /\ d # c => cpc'[d] = cpc[d]
          /\ cpc'[c] = "registered"
    BY <1>1 DEF NewEntry, Register, GoCaller, Inside
  <1>7. /\ content'[n] = made + 1
        /\ \A x \in Linked : content'[x] = content[x]
    BY <1>1, <1>5 DEF NewEntry, Linked
  <1>8. \A d \in Callers : Inside(d)' =>
          handle'[d] \in Linked' /\ content'[handle'[d]] = call'[d]
    <2>1. \A d \in Callers : Inside(d) =>
            handle[d] \in Linked /\ content[handle[d]] = call[d]
      BY DEF Orderly
    <2>2. TAKE d \in Callers
    <2>3. CASE d = c
      BY <1>5, <1>6, <1>7, <2>3
    <2>4. CASE d # c
      BY <1>5, <1>6, <1>7, <2>1, <2>4
    <2> QED
      BY <2>3, <2>4
  <1>9. \A r \in Rcvrs : ~Busy(r)'
    BY ConstAssumption DEF Register, RcvrInv, Busy
  <1>10. Onto'
    <2>1. \A x \in Linked : \E d \in Callers : Inside(d) /\ handle[d] = x /\ d # c
      BY DEF Orderly, Onto, Register, GoCaller, Inside
    <2> QED
      BY <1>5, <1>6, <2>1 DEF Onto
  <1>11. WaitInv' /\ WakeupComing'
    <2>1. UNCHANGED <<obj, m, rdy, rpc, hit>>
      BY DEF Register, callVars
    <2>2. WaitInv /\ WakeupComing
      BY DEF Orderly
    <2>3. WaitInv'
      BY ONLY <1>6, <2>1, <2>2 DEF WaitInv
    <2>4. WakeupComing'
      BY ONLY <1>6, <2>1, <2>2 DEF WakeupComing
    <2> QED
      BY <2>3, <2>4
  <1> QED
    BY <1>8, <1>9, <1>10, <1>11 DEF Orderly

(* Between its entry and its return a caller acts on its own SyncInfo. *)
LEMMA WaitingOrder ==
  ASSUME BaseInv, Orderly, NEW c \in Callers,
         Arm(c) \/ Send(c) \/ WaitFor(c) \/ Sleep(c) \/ Timeout(c)
  PROVE  Orderly'
  <1> USE DEF BaseInv, TypeOK, GoCaller, callVars
  <1>1. UNCHANGED <<buffer, made, call, handle, content, overtaken, rpc, hit, bufferLock>>
    BY DEF Arm, Send, WaitFor, Sleep, Timeout
  <1>2. Linked' = Linked
    BY <1>1 DEF Linked
  <1>3. PICK s \in CallerStates \ {"idle"} : cpc' = [cpc EXCEPT ![c] = s] /\ Inside(c)
    BY DEF Arm, Send, WaitFor, Sleep, Timeout, CallerStates, Inside
  <1>4. \A d \in Callers : Inside(d) <=> Inside(d)'
    BY <1>3 DEF Inside
  <1>5. content[handle[c]] = call[c] /\ call[c] \in Calls
    <2>1. \A k \in 1 .. made : k \in Calls
      BY ConstAssumption DEF Calls
    <2> QED
      BY <1>3, <2>1 DEF Orderly, CallerInv
  <1>6. \A d \in Callers : Inside(d) /\ d # c => call[d] # call[c]
    BY <1>3 DEF CallsDiffer
  <1>7. /\ \A d \in Callers : Inside(d)' =>
             handle'[d] \in Linked' /\ content'[handle'[d]] = call'[d]
        /\ \A r \in Rcvrs : Busy(r)' => \E d \in Callers : Inside(d)' /\ call'[d] = hit'[r]
        /\ Onto'
    BY <1>1, <1>2, <1>4 DEF Orderly, Onto, Busy
  <1>8. WaitInv' /\ WakeupComing'
    <2>0. /\ \A d \in Callers : d # c => cpc'[d] = cpc[d]
          /\ cpc'[c] = s
      BY <1>3
    <2>1. CASE Arm(c)
      <3>1. /\ \A k \in Calls : rdy'[k] => rdy[k]
            /\ s = "armed"
            /\ UNCHANGED <<obj, m>>
        BY <1>3, <1>5, <2>1 DEF Arm, CallerStates
      <3>2. WaitInv'
        BY <1>1, <2>0, <3>1 DEF Orderly, WaitInv
      <3>3. ASSUME NEW d \in Callers, cpc'[d] \in {"checking", "asleep"}, rdy'[obj'[d]]
            PROVE  \E r \in Rcvrs : rpc'[r] = "notifying" /\ hit'[r] = obj'[d]
        <4>1. d # c /\ cpc[d] = cpc'[d] /\ obj'[d] = obj[d]
          BY <2>0, <3>1, <3>3
        <4>2. obj[d] = call[d] /\ call[d] \in Calls
          <5>1. obj[d] = call[d]
            BY <3>3, <4>1 DEF Orderly, WaitInv
          <5>2. Inside(d)
            BY <3>3, <4>1 DEF Inside
          <5>3. \A k \in 1 .. made : k \in Calls
            BY ConstAssumption DEF Calls
          <5>4. QED
            BY <5>1, <5>2, <5>3 DEF CallerInv
        <4>3. rdy[obj[d]]
          BY <3>1, <3>3, <4>1, <4>2
        <4>4. QED
          BY <1>1, <3>1, <3>3, <4>1, <4>3 DEF Orderly, WakeupComing
      <3> QED
        BY <3>2, <3>3 DEF WakeupComing
    <2>2. CASE Send(c)
      <3>1. s = "sent" /\ UNCHANGED <<obj, m, rdy>>
        BY <1>3, <2>2 DEF Send, CallerStates
      <3> QED
        BY <1>1, <2>0, <3>1 DEF Orderly, WaitInv, WakeupComing
    <2>3. CASE WaitFor(c)
      <3>1. CASE s = "returning" /\ UNCHANGED <<obj, m, rdy>>
        BY <1>1, <2>0, <3>1 DEF Orderly, WaitInv, WakeupComing
      <3>2. CASE /\ s = "checking"
                 /\ m[call[c]] = Free /\ ~rdy[call[c]]
                 /\ m' = [m EXCEPT ![call[c]] = c]
                 /\ obj' = [obj EXCEPT ![c] = call[c]]
                 /\ rdy' = rdy
        <4>1. /\ \A d \in Callers : d # c => obj'[d] = obj[d]
              /\ obj'[c] = call[c]
              /\ m'[call[c]] = c
          BY <1>5, <3>2
        <4>2. \A k \in Calls : k # call[c] => m'[k] = m[k]
          BY <3>2
        <4>3. \A d \in Callers : Inside(d) => call[d] \in Calls
          BY ConstAssumption DEF CallerInv, Calls
        <4>4. WaitInv'
          BY <1>1, <1>6, <2>0, <3>2, <4>1, <4>2, <4>3
          DEF Orderly, WaitInv, Inside
        <4>5. WakeupComing'
          BY <1>1, <2>0, <3>2, <4>1 DEF Orderly, WakeupComing
        <4> QED
          BY <4>4, <4>5
      <3>3. cpc'[c] = s
        BY <2>0
      <3> QED
        BY <1>5, <2>3, <3>1, <3>2, <3>3 DEF WaitFor
    <2>4. CASE Sleep(c)
      <3>1. /\ s = "asleep" /\ cpc[c] = "checking"
            /\ UNCHANGED <<obj, rdy>>
            /\ m' = [m EXCEPT ![obj[c]] = Free]
            /\ obj[c] = call[c]
        BY <1>3, <2>4 DEF Sleep, CallerStates, Orderly, WaitInv
      <3>2. \A k \in Calls : k # call[c] => m'[k] = m[k]
        BY <3>1
      <3>3. \A d \in Callers : Inside(d) => call[d] \in Calls
        BY ConstAssumption DEF CallerInv, Calls
      <3>4. WaitInv'
        BY <1>1, <1>6, <2>0, <3>1, <3>2, <3>3 DEF Orderly, WaitInv, Inside
      <3>5. WakeupComing'
        BY <1>1, <2>0, <3>1 DEF Orderly, WakeupComing
      <3> QED
        BY <3>4, <3>5
    <2>5. CASE Timeout(c)
      <3>1. s = "returning" /\ UNCHANGED <<obj, m, rdy>>
        BY <1>3, <2>5 DEF Timeout, CallerStates
      <3> QED
        BY <1>1, <2>0, <3>1 DEF Orderly, WaitInv, WakeupComing
    <2> QED
      BY <2>1, <2>2, <2>3, <2>4, <2>5
  <1> QED
    BY <1>7, <1>8 DEF Orderly

(* A removal that overtakes nobody takes its own node, the front, away. *)
LEMMA RemoveOrder ==
  ASSUME BaseInv, Orderly, NEW c \in Callers, Remove(c), ~overtaken'
  PROVE  Orderly'
  <1> USE DEF BaseInv, TypeOK
  <1> DEFINE h == handle[c]
  <1>1. Inside(c) /\ h \in Linked /\ content[h] = call[c]
    BY DEF Remove, Return, GoCaller, Inside, Orderly
  <1>2. h = Head(buffer)
    BY DEF Remove, Unlink
  <1>3. Len(buffer) > 0
    <2>1. buffer \in Seq(Nodes) /\ Linked = Elems(buffer)
      BY DEF Linked, Elems
    <2>2. PICK i \in DOMAIN buffer : buffer[i] = h
      BY <1>1 DEF Linked
    <2> QED
      BY <2>1, <2>2
  <1>4. NoRepeat(buffer) /\ Linked = Elems(buffer) /\ Linked' = Elems(buffer')
    BY DEF CountExact, NoRepeat, Linked, Elems
  <1>5. buffer' = Tail(buffer)
    BY DEF Remove, Unlink
  <1>6. Linked' = Linked \ {h}
    BY <1>2, <1>3, <1>4, <1>5, TailRange
  <1>7. \A x \in Linked' : content'[x] = content[x]
    BY <1>1, <1>2, <1>6 DEF Remove, Unlink, Linked
  <1>8. \A d \in Callers :
          /\ d # c => cpc'[d] = cpc[d] /\ call'[d] = call[d]
                     /\ handle'[d] = handle[d] /\ obj'[d] = obj[d]
          /\ cpc'[c] = "idle"
          /\ Inside(d)' <=> (Inside(d) /\ d # c)
    BY DEF Remove, Return, GoCaller, Inside
  <1>9. \A d \in Callers : Inside(d) /\ d # c => handle[d] # h
    BY <1>1 DEF Orderly, CallsDiffer
  <1>10. \A d \in Callers : Inside(d)' =>
           handle'[d] \in Linked' /\ content'[handle'[d]] = call'[d]
    <2>1. \A d \in Callers : Inside(d) =>
            handle[d] \in Linked /\ content[handle[d]] = call[d]
      BY DEF Orderly
    <2> SUFFICES ASSUME NEW d \in Callers, Inside(d)'
                 PROVE  handle'[d] \in Linked' /\ content'[handle'[d]] = call'[d]
      OBVIOUS
    <2>2. /\ Inside(d) /\ d # c
          /\ handle'[d] = handle[d] /\ call'[d] = call[d]
      BY ONLY <1>8, d \in Callers, Inside(d)'
    <2>3. handle[d] \in Linked'
      BY ONLY <1>6, <1>9, <2>1, <2>2, d \in Callers
    <2> QED
      BY ONLY <1>7, <2>1, <2>2, <2>3, d \in Callers
  <1>11. \A r \in Rcvrs : ~Busy(r)'
    BY ConstAssumption DEF Remove, Return, RcvrInv, Busy
  <1>12. Onto'
    <2>1. \A x \in Linked : \E d \in Callers : Inside(d) /\ handle[d] = x
      BY DEF Orderly, Onto
    <2> QED
      BY <1>6, <1>8, <2>1 DEF Onto
  <1>13. WaitInv' /\ WakeupComing'
    <2>1. UNCHANGED <<m, rdy, rpc, hit>>
      BY DEF Remove, Return, callVars
    <2>2. WaitInv /\ WakeupComing
      BY DEF Orderly
    <2>3. WaitInv'
      BY ONLY <1>8, <2>1, <2>2 DEF WaitInv
    <2>4. WakeupComing'
      BY ONLY <1>8, <2>1, <2>2 DEF WakeupComing
    <2> QED
      BY <2>3, <2>4
  <1> QED
    BY <1>10, <1>11, <1>12, <1>13 DEF Orderly

(* A receiver serves an entry of a caller inside, and wakes that caller only. *)
LEMMA RcvrOrder ==
  ASSUME BaseInv, Orderly, NEW r \in Rcvrs, RcvrStep(r)
  PROVE  Orderly'
  <1> USE DEF BaseInv, TypeOK, callVars
  <1>1. UNCHANGED <<buffer, made, call, handle, content, overtaken, obj, m>>
    BY DEF RcvrStep, Indicate, Disarm, SetReady, Notify, Wake
  <1>2. Linked' = Linked
    BY <1>1 DEF Linked
  <1>3. \A q \in Rcvrs : q # r => rpc'[q] = rpc[q] /\ hit'[q] = hit[q]
    BY DEF RcvrStep, Indicate, Disarm, SetReady, Notify, Wake, GoRcvr, Leave
  <1>4. \A c \in Callers :
          /\ Inside(c) <=> Inside(c)'
          /\ cpc'[c] \in {"checking", "asleep"} => cpc'[c] = cpc[c]
    <2>1. CASE UNCHANGED cpc
      BY <2>1 DEF Inside
    <2>2. CASE Notify(r) /\ cpc' # cpc
      <3>1. PICK c \in Callers : cpc[c] = "asleep" /\ cpc' = [cpc EXCEPT ![c] = "returning"]
        BY <2>2 DEF Notify, Wake
      <3> QED
        BY <3>1 DEF Inside, CallerStates
    <2> QED
      BY <2>1, <2>2 DEF RcvrStep, Indicate, Disarm, SetReady
  <1>5. /\ \A c \in Callers : Inside(c)' =>
             handle'[c] \in Linked' /\ content'[handle'[c]] = call'[c]
        /\ Onto'
        /\ WaitInv'
    BY <1>1, <1>2, <1>4 DEF Orderly, Onto, WaitInv
  <1>6. \A q \in Rcvrs : Busy(q)' => \E c \in Callers : Inside(c)' /\ call'[c] = hit'[q]
    <2>1. \A q \in Rcvrs : Busy(q) => \E c \in Callers : Inside(c) /\ call[c] = hit[q]
      BY DEF Orderly
    <2>2. ASSUME Busy(r)' PROVE \E c \in Callers : Inside(c) /\ call[c] = hit'[r]
      <3>1. CASE Indicate(r)
        <4>1. PICK i \in DOMAIN buffer : hit'[r] = content[buffer[i]]
          BY <2>2, <3>1 DEF Indicate, GoRcvr, Busy
        <4>2. buffer[i] \in Linked
          BY DEF Linked
        <4>3. PICK c \in Callers : Inside(c) /\ handle[c] = buffer[i]
          BY <4>2 DEF Orderly, Onto
        <4> QED
          BY <4>1, <4>3 DEF Orderly
      <3>2. CASE Disarm(r) \/ SetReady(r)
        <4>1. Busy(r) /\ hit'[r] = hit[r]
          BY <2>2, <3>2 DEF Disarm, SetReady, GoRcvr, Busy
        <4> QED
          BY <2>1, <4>1
      <3>3. CASE Notify(r)
        BY <2>2, <3>3 DEF Notify, Wake, GoRcvr, Busy
      <3> QED
        BY <3>1, <3>2, <3>3 DEF RcvrStep
    <2> QED
      BY <1>1, <1>3, <1>4, <2>1, <2>2 DEF Busy
  <1>7. WakeupComing'
    <2>1. WakeupComing /\ WaitInv
      BY DEF Orderly
    <2>2. SUFFICES ASSUME NEW c \in Callers, cpc'[c] \in {"checking", "asleep"},
                          rdy'[obj[c]]
                   PROVE  \E q \in Rcvrs : rpc'[q] = "notifying" /\ hit'[q] = obj[c]
      BY <1>1 DEF WakeupComing
    <2>3. cpc[c] \in {"checking", "asleep"} /\ cpc'[c] = cpc[c] /\ obj[c] \in Calls
      BY <1>4, <2>2 DEF CallerInv
    <2>4. CASE SetReady(r)
      <3>1. CASE obj[c] = hit[r]
        BY <2>4, <3>1 DEF SetReady, GoRcvr
      <3>2. CASE obj[c] # hit[r]
        <4>1. rdy[obj[c]] /\ rpc[r] # "notifying"
          BY <2>2, <2>3, <2>4, <3>2 DEF SetReady, GoRcvr
        <4>2. PICK q \in Rcvrs : rpc[q] = "notifying" /\ hit[q] = obj[c]
          BY <2>1, <2>3, <4>1 DEF WakeupComing
        <4> QED
          BY <1>3, <4>1, <4>2
      <3> QED
        BY <3>1, <3>2
    <2>5. CASE Indicate(r) \/ Disarm(r)
      <3>1. rdy[obj[c]] /\ rpc[r] # "notifying"
        BY <2>2, <2>5 DEF Indicate, Disarm, GoRcvr
      <3>2. PICK q \in Rcvrs : rpc[q] = "notifying" /\ hit[q] = obj[c]
        BY <2>1, <2>3, <3>1 DEF WakeupComing
      <3> QED
        BY <1>3, <3>1, <3>2
    <2>6. CASE Notify(r)
      <3>1. rdy[obj[c]] /\ m[hit[r]] = Free
        BY <2>2, <2>6 DEF Notify, Wake
      <3>2. CASE obj[c] = hit[r]
        <4>1. cpc[c] = "asleep"
          <5>1. CASE cpc[c] = "checking"
            BY <2>1, <2>3, <3>1, <3>2, <5>1, ConstAssumption DEF WaitInv
          <5> QED
            BY <2>3, <5>1
        <4>2. PICK d \in Callers : /\ cpc[d] = "asleep" /\ obj[d] = hit[r]
                                   /\ cpc' = [cpc EXCEPT ![d] = "returning"]
          BY <2>6, <3>2, <4>1 DEF Notify, Wake
        <4>3. d = c
          BY <2>1, <3>2, <4>1, <4>2 DEF WaitInv, CallsDiffer, Inside
        <4> QED
          BY <2>2, <4>2, <4>3
      <3>3. CASE obj[c] # hit[r]
        <4>1. PICK q \in Rcvrs : rpc[q] = "notifying" /\ hit[q] = obj[c]
          BY <2>1, <2>3, <3>1 DEF WakeupComing
        <4> QED
          BY <1>3, <3>3, <4>1
      <3> QED
        BY <3>2, <3>3
    <2> QED
      BY <2>4, <2>5, <2>6 DEF RcvrStep
  <1> QED
    BY <1>5, <1>6, <1>7 DEF Orderly

(* Every step keeps the second half. *)
(* What one removal did to another is not undone. *)
LEMMA OvertakenStays == BaseInv /\ [Next]_vars /\ overtaken => overtaken'
  BY DEF Next, CallerStep, RcvrStep, Register, Arm, Send, WaitFor, Sleep, Timeout,
         Remove, Unlink, Indicate, Disarm, SetReady, Notify, Wake, Crash, vars,
         BaseInv, TypeOK

(* Every step of a caller, a receiver or the crash keeps the second half. *)
LEMMA OrderStep == BaseInv /\ OrderInv /\ [Next]_vars => OrderInv'
  <1> SUFFICES ASSUME BaseInv, OrderInv, [Next]_vars, ~overtaken'
               PROVE  Orderly'
    BY DEF OrderInv, Orderly, RegistryExact, CallbackInsideRequest
  <1>1. ~overtaken
    BY OvertakenStays
  <1>2. Orderly
    BY <1>1, OrderlyOrder
  <1>3. ASSUME NEW c \in Callers, CallerStep(c) PROVE Orderly'
    BY <1>2, <1>3, RegisterOrder, WaitingOrder, RemoveOrder DEF CallerStep
  <1>4. ASSUME NEW r \in Rcvrs, RcvrStep(r) PROVE Orderly'
    BY <1>2, <1>4, RcvrOrder
  <1>5. CASE Crash \/ UNCHANGED vars
    <2>1. UNCHANGED <<buffer, content, m, rdy, cpc, call, handle, obj, rpc, hit>>
      BY <1>5 DEF Crash, vars, callVars
    <2> QED
      BY <1>2, <2>1 DEF Orderly, Onto, WaitInv, WakeupComing, Linked, Inside, Busy
  <1> QED
    BY <1>3, <1>4, <1>5 DEF Next

(* The whole invariant, in every behaviour. *)
THEOREM OrderInvariant == Spec => [](BaseInv /\ OrderInv)
  <1> QED
    BY InitInv, BaseStep, OrderStep, PTL DEF Spec

(* As long as no remove() overtook another, it_ names the caller's own entry. *)
THEOREM RegistryCorrect == Spec => []RegistryExact
  <1>1. OrderInv => RegistryExact
    BY DEF OrderInv
  <1> QED
    BY <1>1, OrderInvariant, PTL

(* As long as no remove() overtook another, indicate() runs a callback only
   while its caller is inside request(). *)
THEOREM CallbackCorrect == Spec => []CallbackInsideRequest
  <1>1. OrderInv => CallbackInsideRequest
    BY DEF OrderInv
  <1> QED
    BY <1>1, OrderInvariant, PTL

(* As long as no remove() overtook another, disarm()'s notification is never
   lost by a caller that is about to sleep. *)
THEOREM WakeupCorrect == Spec => []NoLostWakeup
  <1>1. OrderInv => NoLostWakeup
    BY DEF OrderInv, WakeupComing, NoLostWakeup
  <1> QED
    BY <1>1, OrderInvariant, PTL
-----------------------------------------------------------------------------
(* Refinement: without overtaking, the data service implements PendingCalls. *)

OpenCalls == {call[c] : c \in {d \in Callers : Inside(d)}}

Running == {hit[r] : r \in {q \in Rcvrs : Busy(q)}}

(* Nobody is served while buffer__Mutex is free, and only its holder is. *)
LEMMA RunningHolder ==
  ASSUME BaseInv
  PROVE  /\ bufferLock = Free => Running = {}
         /\ \A r \in Rcvrs : Busy(r) => Running = {hit[r]}
  BY ConstAssumption DEF BaseInv, RcvrInv, Running

(* Register opens the next call and runs nothing. *)
LEMMA RegisterOpens ==
  ASSUME BaseInv, NEW c \in Callers, Register(c)
  PROVE  /\ made + 1 \in Calls \ (1 .. made)
         /\ OpenCalls' = OpenCalls \cup {made + 1}
         /\ (1 .. made)' = (1 .. made) \cup {made + 1}
         /\ Running' = Running
  <1> USE DEF BaseInv, TypeOK
  <1>1. made + 1 \in Calls \ (1 .. made) /\ made' = made + 1
    BY ConstAssumption DEF Register, Calls
  <1>2. (1 .. made)' = (1 .. made) \cup {made + 1}
    BY <1>1
  <1>3. \A d \in Callers :
          /\ Inside(d)' <=> (d = c \/ Inside(d))
          /\ call'[d] = IF d = c THEN made + 1 ELSE call[d]
    BY DEF Register, GoCaller, Inside
  <1>4. ~Inside(c)
    BY DEF Register, GoCaller, Inside
  <1>5. OpenCalls' = OpenCalls \cup {made + 1}
    <2>1. \A k : k \in OpenCalls <=> \E d \in Callers : Inside(d) /\ call[d] = k
      BY DEF OpenCalls
    <2>2. \A k : k \in OpenCalls' <=> \E d \in Callers : Inside(d)' /\ call'[d] = k
      BY DEF OpenCalls
    <2>3. \A k : k \in OpenCalls' <=> k = made + 1 \/ k \in OpenCalls
      BY ONLY <1>3, <1>4, <2>1, <2>2, c \in Callers
    <2> QED
      BY <2>3
  <1>6. Running' = Running
    BY DEF Register, Running, Busy
  <1> QED
    BY <1>1, <1>2, <1>5, <1>6

(* Remove closes its own call, which is not running. *)
LEMMA RemoveCloses ==
  ASSUME BaseInv, NEW c \in Callers, Remove(c)
  PROVE  /\ call[c] \in Calls
         /\ call[c] \in OpenCalls \ Running
         /\ OpenCalls' = OpenCalls \ {call[c]}
         /\ (1 .. made)' = 1 .. made
         /\ Running' = Running
  <1> USE DEF BaseInv, TypeOK
  <1>1. Inside(c)
    BY DEF Remove, Return, GoCaller, Inside
  <1>2. Running = {}
    BY RunningHolder DEF Remove
  <1>3. \A d \in Callers :
          /\ Inside(d)' <=> (Inside(d) /\ d # c)
          /\ d # c => call'[d] = call[d]
    BY DEF Remove, Return, GoCaller, Inside
  <1>4. \A d \in Callers : Inside(d) /\ d # c => call[d] # call[c]
    BY <1>1 DEF CallsDiffer
  <1>5. OpenCalls' = OpenCalls \ {call[c]}
    <2>1. \A k \in OpenCalls' : \E d \in Callers : Inside(d) /\ d # c /\ call[d] = k
      BY ONLY <1>3 DEF OpenCalls
    <2>2. \A k \in OpenCalls' : k \in OpenCalls /\ k # call[c]
      BY ONLY <1>4, <2>1 DEF OpenCalls
    <2>3. \A k \in OpenCalls \ {call[c]} :
            \E d \in Callers : Inside(d)' /\ call'[d] = k
      BY ONLY <1>3 DEF OpenCalls
    <2>4. \A k \in OpenCalls \ {call[c]} : k \in OpenCalls'
      BY ONLY <2>3 DEF OpenCalls
    <2> QED
      BY ONLY <2>2, <2>4
  <1>6. call[c] \in OpenCalls /\ call[c] \in Calls
    BY <1>1, ConstAssumption DEF OpenCalls, CallerInv, Calls
  <1>7. Running' = Running /\ made' = made
    BY DEF Remove, Return, Running, Busy
  <1> QED
    BY <1>2, <1>5, <1>6, <1>7

(* A receiver runs the callback of an open request, or ends it, or stutters. *)
LEMMA RcvrRuns ==
  ASSUME BaseInv, Orderly, NEW r \in Rcvrs, RcvrStep(r)
  PROVE  /\ OpenCalls' = OpenCalls
         /\ (1 .. made)' = 1 .. made
         /\ \/ Running' = Running
            \/ Running # {} /\ Running' = {}
            \/ \E k \in Calls : k \in OpenCalls /\ Running = {} /\ Running' = {k}
  <1> USE DEF BaseInv, TypeOK
  <1>1. BaseInv' /\ Orderly'
    BY RcvrBase, RcvrOrder
  <1>2. UNCHANGED <<call, made>>
    BY DEF RcvrStep, Indicate, Disarm, SetReady, Notify, Wake
  <1>3. \A c \in Callers : Inside(c) <=> Inside(c)'
    <2>1. CASE UNCHANGED cpc
      BY <2>1 DEF Inside
    <2>2. CASE Notify(r) /\ cpc' # cpc
      <3>1. PICK c \in Callers : cpc[c] = "asleep" /\ cpc' = [cpc EXCEPT ![c] = "returning"]
        BY <2>2 DEF Notify, Wake
      <3> QED
        BY <3>1 DEF Inside, CallerStates
    <2> QED
      BY <2>1, <2>2 DEF RcvrStep, Indicate, Disarm, SetReady
  <1>4. OpenCalls' = OpenCalls
    BY <1>2, <1>3 DEF OpenCalls
  <1>5. /\ bufferLock = Free => Running = {}
        /\ Busy(r) => Running = {hit[r]}
        /\ bufferLock' = Free => Running' = {}
        /\ Busy(r)' => Running' = {hit'[r]}
    <2>1. /\ bufferLock' = Free => Running' = {}
          /\ Busy(r)' => Running' = {hit'[r]}
      BY <1>1, ConstAssumption DEF RcvrInv, Running
    <2> QED
      BY <2>1, RunningHolder
  <1>6. CASE Indicate(r)
    <2>1. CASE Busy(r)'
      <3>1. PICK c \in Callers : Inside(c)' /\ call'[c] = hit'[r]
        BY <1>1, <2>1 DEF Orderly
      <3>2. hit'[r] \in Calls
        BY <1>1, <2>1 DEF RcvrInv
      <3>3. hit'[r] \in OpenCalls
        BY <1>2, <1>3, <3>1 DEF OpenCalls
      <3>4. Running = {} /\ Running' = {hit'[r]}
        BY <1>5, <1>6, <2>1 DEF Indicate
      <3> QED
        BY <1>2, <1>4, <3>2, <3>3, <3>4
    <2>2. CASE ~Busy(r)'
      <3>1. bufferLock' = bufferLock
        BY <1>6, <2>2 DEF Indicate, GoRcvr, Busy
      <3> QED
        BY <1>2, <1>4, <1>5, <1>6, <3>1 DEF Indicate
    <2> QED
      BY <2>1, <2>2
  <1>7. CASE Disarm(r) \/ SetReady(r)
    <2>1. Busy(r)
      BY <1>7 DEF Disarm, SetReady, GoRcvr, Busy
    <2>2. CASE Busy(r)' /\ hit' = hit
      BY <1>2, <1>4, <1>5, <2>1, <2>2
    <2>3. CASE bufferLock' = Free
      BY <1>2, <1>4, <1>5, <2>1, <2>3
    <2> QED
      BY <1>7, <2>2, <2>3 DEF Disarm, SetReady, GoRcvr, Leave, Busy
  <1>8. CASE Notify(r)
    <2>1. Busy(r) /\ bufferLock' = Free
      BY <1>8 DEF Notify, Wake, Leave, Busy
    <2> QED
      BY <1>2, <1>4, <1>5, <2>1
  <1> QED
    BY <1>6, <1>7, <1>8 DEF RcvrStep

(* Without overtaking, every step is a step of PendingCalls or a stutter. *)
LEMMA PromiseStep ==
  ASSUME BaseInv, Orderly, [Next]_vars
  PROVE  [Promise!Next]_(Promise!vars)
  <1> USE DEF Promise!Next, Promise!vars, Promise!Open, Promise!Run, Promise!Done,
              Promise!Close, OpenCalls, Running
  <1>1. ASSUME NEW c \in Callers, Register(c)
        PROVE  \E k \in Calls : Promise!Open(k)
    BY <1>1, RegisterOpens
  <1>2. ASSUME NEW c \in Callers, Remove(c)
        PROVE  \E k \in Calls : Promise!Close(k)
    BY <1>2, RemoveCloses
  <1>3. ASSUME NEW c \in Callers,
               Arm(c) \/ Send(c) \/ WaitFor(c) \/ Sleep(c) \/ Timeout(c)
        PROVE  UNCHANGED Promise!vars
    <2>1. UNCHANGED <<made, call, rpc, hit>>
      BY <1>3 DEF Arm, Send, WaitFor, Sleep, Timeout
    <2>2. \A d \in Callers : Inside(d) <=> Inside(d)'
      BY <1>3 DEF Arm, Send, WaitFor, Sleep, Timeout, GoCaller, Inside, BaseInv, TypeOK
    <2> QED
      BY <2>1, <2>2 DEF Busy
  <1>4. ASSUME NEW r \in Rcvrs, RcvrStep(r)
        PROVE  [Promise!Next]_(Promise!vars)
    BY <1>4, RcvrRuns
  <1>5. CASE Crash \/ UNCHANGED vars
    <2>1. UNCHANGED <<made, call, rpc, hit, cpc>>
      BY <1>5 DEF Crash, vars
    <2> QED
      BY <2>1 DEF Inside, Busy
  <1> QED
    BY <1>1, <1>2, <1>3, <1>4, <1>5 DEF Next, CallerStep

(* As long as removals do not overtake each other, request() and indicate() *)
(* keep the promise: callbacks run one at a time, only for requests still   *)
(* open, and no request returns under its running callback.                 *)
THEOREM Refinement == Spec => PromiseSpec
  <1>1. Init => Promise!Init
    BY DEF Init, Promise!Init, Inside, Busy
  <1>2. BaseInv /\ OrderInv /\ [Next]_vars => (BaseInv /\ OrderInv)'
    BY BaseStep, OrderStep
  <1>4. BaseInv /\ OrderInv /\ [Next]_vars
          => [Promise!Next \/ overtaken']_(Promise!vars)
    BY OvertakenStays, PromiseStep, OrderlyOrder
  <1> QED
    BY <1>1, <1>2, <1>4, InitInv, PTL DEF Spec, PromiseSpec
=============================================================================
