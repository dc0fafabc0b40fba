-------------------------- MODULE SerialRingProofs --------------------------
(***************************************************************************)
(* The ring of the serial driver, for every size of it, every stream of    *)
(* bytes and any number of assemblers: RingExact, with the type invariant  *)
(* as the only strengthening, and FramesOnce, with what the assemblers     *)
(* have taken from the stream and where they stand in it.                  *)
(***************************************************************************)
EXTENDS SerialRing, WellFoundedInduction, SequenceTheorems, FiniteSetTheorems, TLAPS

(* The inductive invariant. *)
IInv == TypeOK /\ RingExact
-----------------------------------------------------------------------------
(* Arithmetic *)

(* A nonempty set of naturals has a least element, and Min is it. *)
LEMMA MinIn ==
  ASSUME NEW S \in SUBSET Nat, S # {}
  PROVE  Min(S) \in S /\ \A y \in S : Min(S) <= y
<1> DEFINE R == {ss \in Nat \X Nat : ss[1] < ss[2]}
<1>1. IsWellFoundedOn(R, Nat)
  BY NatLessThanWellFounded DEF OpToRel
<1>2. \E x \in S : \A y \in S : ~ (<<y, x>> \in R)
  BY <1>1, WFMin
<1>3. \A x, y \in Nat : <<y, x>> \in R <=> y < x
  OBVIOUS
<1> HIDE DEF R
<1>4. \E x \in S : \A y \in S : x <= y
  <2>1. PICK x \in S : \A y \in S : ~ (<<y, x>> \in R)
    BY <1>2
  <2>2. ASSUME NEW y \in S  PROVE x <= y
    <3>1. x \in Nat /\ y \in Nat
      OBVIOUS
    <3>2. ~ (<<y, x>> \in R)
      BY <2>1
    <3>3. ~ (y < x)
      BY <1>3, <3>1, <3>2
    <3>4. QED
      BY <3>1, <3>3
  <2>3. QED
    BY <2>2
<1>5. QED
  BY <1>4 DEF Min

(* Whole rounds lead back to the same place. *)
LEMMA WholeRounds ==
  ASSUME NEW N \in Nat \ {0}, NEW h \in Nat, h < N, NEW k \in Nat, NEW o \in Nat, o = N * k
  PROVE  (h + o) % N = h
OBVIOUS

(* A place is found by going round at most once. *)
LEMMA RoundOnce ==
  ASSUME NEW N \in Nat \ {0}, NEW h \in Nat, h < N, NEW a \in Nat
  PROVE  \E o \in a + 1 .. a + N : (h + o) % N = h
<1> DEFINE q == a \div N
<1>1. q \in Nat /\ a = N * q + (a % N) /\ a % N \in 0 .. N - 1
  OBVIOUS
<1>2. N * (q + 1) \in a + 1 .. a + N
  BY <1>1
<1>3. q + 1 \in Nat /\ N * (q + 1) \in Nat
  BY <1>1
<1> DEFINE o == N * (q + 1)
<1>4. (h + o) % N = h
  BY <1>3, WholeRounds
<1>5. QED
  BY <1>2, <1>4

(* An index less than two rounds ahead wraps at most once. *)
LEMMA WrapOnce ==
  ASSUME NEW N \in Nat \ {0}, NEW h \in Nat, NEW i \in Nat, h < N, i <= N
  PROVE  (h + i) % N = IF h + i < N THEN h + i ELSE h + i - N
OBVIOUS

(* At() stays inside the array. *)
LEMMA AtInRing ==
  ASSUME TypeOK, NEW i \in Nat
  PROVE  At(i) \in 0 .. Size - 1
<1>1. head + i \in Nat /\ Size \in Nat \ {0}
  BY RingAssumption DEF TypeOK
<1>2. QED
  BY <1>1 DEF At

(* Different offsets below Size are different places. *)
LEMMA AtNear ==
  ASSUME TypeOK, NEW i \in 0 .. Size
  PROVE  At(i) = IF head + i < Size THEN head + i ELSE head + i - Size
<1>1. head \in Nat /\ head < Size /\ Size \in Nat \ {0} /\ i \in Nat /\ i <= Size
  BY RingAssumption DEF TypeOK
<1>2. QED
  BY <1>1, WrapOnce DEF At

(* The bytes of the ring carry numbers. *)
LEMMA ValNat ==
  ASSUME TypeOK, NEW p \in 0 .. Size - 1
  PROVE  Val(p) \in Nat
BY RingAssumption DEF TypeOK, Val

(* The search for a SOF ends at a place not before the old Offset. *)
LEMMA PlaceNat ==
  ASSUME TypeOK, NEW t \in Threads
  PROVE  Place(t) \in Nat /\ Passed(t) \in Nat /\ FrameLen(t) \in Nat /\ FrameLen(t) > 0
<1> DEFINE S == {o \in offset[t] + 1 .. offset[t] + Size : Ends(o) \/ Found(o)}
<1>1. offset[t] \in Nat /\ head \in Nat /\ head < Size /\ Size \in Nat \ {0}
  BY RingAssumption DEF TypeOK
<1>2. PICK o \in offset[t] + 1 .. offset[t] + Size : At(o) = head
  BY <1>1, RoundOnce DEF At
<1>3. S \in SUBSET Nat /\ S # {}
  BY <1>1, <1>2 DEF Ends
<1>4. Min(S) \in Nat
  BY <1>3, MinIn
<1>5. Place(t) \in Nat
  BY <1>4 DEF Place
<1>6. Passed(t) \in Nat
  BY <1>1, <1>5 DEF Passed
<1>7. Val(At(Place(t) + 1)) \in Nat
  BY <1>5, AtInRing, ValNat
<1>8. QED
  BY <1>5, <1>6, <1>7 DEF FrameLen

(* Without an old Offset the bytes passed over are those before the place. *)
LEMMA PassedPlace ==
  ASSUME TypeOK, NEW t \in Threads, offset[t] = 0
  PROVE  Passed(t) = Place(t)
BY DEF Passed, Place
-----------------------------------------------------------------------------
(* The two actions that change the ring *)

(* Reading appends to the ring, and writes over nothing that it holds      *)
(* unless it is overrun.                                                   *)
LEMMA ReadInv ==
  ASSUME IInv, NEW h \in Hosts, Read(h)
  PROVE  IInv'
<1> DEFINE a == arrived - fetched
           b == Size - At(len)
           n == Min({a, b})
<1> USE RingAssumption
<1>1. TypeOK
  BY DEF IInv
<1>a. len \in Nat /\ fetched \in Nat /\ arrived \in Nat
  BY <1>1 DEF TypeOK
<1>2. len \in Nat /\ At(len) \in 0 .. Size - 1 /\ fetched \in Nat /\ arrived \in Nat
  BY <1>1, <1>a, AtInRing
<1>3. a \in Nat /\ b \in Nat /\ {a, b} \in SUBSET Nat /\ {a, b} # {}
  BY <1>1, <1>2 DEF Read, TypeOK
<1>4. n \in Nat /\ n <= a /\ n <= b
  BY <1>3, MinIn
<1> HIDE DEF n
<1>5. Fetch(n) /\ fetched' = fetched + n
  BY DEF Read, n
<1>b. len' = len + n
  BY <1>5 DEF Fetch
<1>d. overrun' = (overrun \/ len + n > Size)
  BY <1>5 DEF Fetch
<1>e. overrun' \in BOOLEAN /\ (~overrun' => ~overrun /\ ~ (len + n > Size))
  BY <1>d
<1>c. overrun \in BOOLEAN /\ len \in 0 .. fetched /\ (~overrun => len <= Size)
      /\ fetched \in 0 .. arrived
  BY <1>1 DEF TypeOK
<1>6. UNCHANGED <<arrived, signals, lock, head, slipped, hpc, tpc, offset, packet,
                  delivered, junk, cut>>
  BY DEF Read, out
<1> DEFINE new == [i \in 1 .. n |-> fetched + i]
<1>7. new \in Seq(1 .. Len(Stream)) /\ Len(new) = n
  BY <1>1, <1>2, <1>4 DEF TypeOK
<1>8. queue' = queue \o new /\ queue \in Seq(1 .. Len(Stream))
  BY <1>1, <1>5 DEF Fetch, TypeOK
<1>9. /\ queue' \in Seq(1 .. Len(Stream))
      /\ Len(queue') = Len(queue) + n
      /\ \A i \in 1 .. Len(queue) : queue'[i] = queue[i]
      /\ \A i \in Len(queue) + 1 .. Len(queue) + n : queue'[i] = fetched + i - Len(queue)
  BY <1>2, <1>4, <1>7, <1>8, ConcatProperties
<1>10. TypeOK'
  <2>1. ring' \in [0 .. Size - 1 -> 0 .. Len(Stream)]
    <3> DEFINE g(p) == IF p \in At(len) .. At(len) + n - 1 THEN fetched + 1 + p - At(len)
                                                           ELSE ring[p]
    <3>1. ring' = [p \in 0 .. Size - 1 |-> g(p)]
      BY <1>5 DEF Fetch
    <3>2. ASSUME NEW p \in 0 .. Size - 1  PROVE g(p) \in 0 .. Len(Stream)
      <4>1. ring[p] \in 0 .. Len(Stream) /\ arrived <= Len(Stream)
        BY <1>1 DEF TypeOK
      <4>2. CASE p \in At(len) .. At(len) + n - 1
        BY <1>2, <1>4, <4>1, <4>2
      <4>3. QED
        BY <4>1, <4>2
    <3>3. QED
      BY <3>1, <3>2
  <2>2. fetched' \in 0 .. arrived' /\ len' \in 0 .. fetched'
    BY <1>2, <1>4, <1>5, <1>6, <1>b, <1>c
  <2>3. (~overrun' => len' <= Size) /\ overrun' \in BOOLEAN
    BY <1>2, <1>4, <1>b, <1>e
  <2>4. QED
    BY <1>1, <1>6, <1>9, <2>1, <2>2, <2>3 DEF TypeOK
<1>11. RingExact'
  <2> SUFFICES ASSUME ~overrun', ~slipped'
               PROVE  len' = Len(queue') /\ \A i \in 1 .. len' : ring'[At(i - 1)'] = queue'[i]
    BY DEF RingExact
  <2>1. ~overrun /\ ~slipped /\ len + n <= Size /\ len' = len + n
    <3>1. ~overrun /\ ~ (len + n > Size)
      BY <1>e
    <3>2. ~slipped
      BY <1>6
    <3>3. QED
      BY <1>2, <1>4, <1>b, <3>1, <3>2
  <2>2. len = Len(queue) /\ \A i \in 1 .. len : ring[At(i - 1)] = queue[i]
    BY <2>1 DEF IInv, RingExact
  <2>3. ASSUME NEW i \in 1 .. len'
        PROVE  ring'[At(i - 1)'] = queue'[i]
    <3>1. At(i - 1)' = At(i - 1)
      BY <1>6 DEF At
    <3>2. i - 1 \in 0 .. Size /\ len \in 0 .. Size /\ i \in Nat
      BY <1>2, <1>4, <2>1
    <3>3. /\ At(i - 1) = IF head + (i - 1) < Size THEN head + (i - 1)
                                                  ELSE head + (i - 1) - Size
          /\ At(len) = IF head + len < Size THEN head + len ELSE head + len - Size
      BY <1>1, <3>2, AtNear
    <3>4. At(i - 1) \in 0 .. Size - 1 /\ head \in 0 .. Size - 1
      <4>1. i - 1 \in Nat /\ head \in 0 .. Size - 1
        BY <1>1, <3>2 DEF TypeOK
      <4>2. QED
        BY <1>1, <4>1, AtInRing
    <3>5. ring'[At(i - 1)] = IF At(i - 1) \in At(len) .. At(len) + n - 1
                             THEN fetched + 1 + At(i - 1) - At(len) ELSE ring[At(i - 1)]
      BY <1>5, <3>4 DEF Fetch
    <3>6. CASE i <= len
      <4>1. At(i - 1) \notin At(len) .. At(len) + n - 1
        BY <1>2, <1>4, <2>1, <3>2, <3>3, <3>4, <3>6
      <4>2. QED
        BY <1>9, <2>2, <3>1, <3>2, <3>5, <3>6, <4>1
    <3>7. CASE i > len
      <4>1. At(i - 1) = At(len) + (i - 1 - len)
        BY <1>2, <1>4, <2>1, <3>2, <3>3, <3>4, <3>7
      <4>2. i - 1 - len \in 0 .. n - 1
        BY <1>2, <1>4, <2>1, <3>2, <3>7
      <4>3. At(i - 1) \in At(len) .. At(len) + n - 1
        BY <1>2, <1>4, <4>1, <4>2
      <4>4. ring'[At(i - 1)] = fetched + i - len
        <5>1. ring'[At(i - 1)] = fetched + 1 + At(i - 1) - At(len)
          BY <3>5, <4>3
        <5>2. QED
          BY <1>2, <3>2, <4>1, <5>1
      <4>5. i \in Len(queue) + 1 .. Len(queue) + n
        BY <1>2, <1>4, <2>1, <2>2, <3>2, <3>7
      <4>6. queue'[i] = fetched + i - len
        BY <1>9, <2>2, <4>5
      <4>7. QED
        BY <3>1, <4>4, <4>6
    <3>8. QED
      BY <1>2, <3>2, <3>6, <3>7
  <2>4. QED
    BY <1>9, <2>1, <2>2, <2>3
<1>12. QED
  BY <1>10, <1>11 DEF IInv

(* Taking a frame drops what was at the head of the ring. *)
LEMMA ScanInv ==
  ASSUME IInv, NEW t \in Threads, Scan(t)
  PROVE  IInv'
<1> DEFINE P == Place(t)
           Q == Passed(t)
           F == FrameLen(t)
<1> USE RingAssumption
<1>1. TypeOK
  BY DEF IInv
<1>2. P \in Nat /\ Q \in Nat /\ F \in Nat /\ F > 0
  BY <1>1, PlaceNat
<1>3. UNCHANGED <<arrived, fetched, signals, ring, overrun, hpc, delivered, junk, cut>>
  BY DEF Scan, line, out
<1>4. lock' = Free /\ slipped' = (slipped \/ offset[t] > 0)
  BY DEF Scan
<1>5. offset[t] \in Nat /\ len \in 0 .. fetched /\ (~overrun => len <= Size) /\ fetched \in Nat
      /\ slipped \in BOOLEAN /\ queue \in Seq(1 .. Len(Stream)) /\ Len(queue) \in Nat
  BY <1>1 DEF TypeOK
<1>6. slipped' \in BOOLEAN /\ (~slipped' => ~slipped /\ offset[t] = 0)
  <2>1. slipped' \in BOOLEAN /\ (~slipped' => ~slipped /\ ~ (offset[t] > 0))
    BY <1>4
  <2>2. QED
    BY <1>5, <2>1
<1>7. tpc' \in [Threads -> {"off", "check", "lock", "scan", "packet"}]
  BY <1>1 DEF Scan, Go, TypeOK
<1>8. CASE ~Whole(t)
  <2>1. UNCHANGED <<len, head, queue, packet, offset>>
    BY <1>8 DEF Scan
  <2>2. TypeOK'
    BY <1>1, <1>3, <1>4, <1>6, <1>7, <2>1 DEF TypeOK
  <2>3. RingExact'
    BY <1>3, <1>6, <2>1 DEF IInv, RingExact, At
  <2>4. QED
    BY <2>2, <2>3 DEF IInv
<1>9. CASE Whole(t)
  <2>1. Take(t) /\ offset' = [offset EXCEPT ![t] = Q] /\ len >= F + 1 + Q
    BY <1>9 DEF Scan, Whole
  <2>2. /\ packet' = [packet EXCEPT ![t] = [i \in 1 .. F |-> ring[At(P + i)]]]
        /\ len' = len - (F + 1 + Q)
        /\ head' = At(P + 1 + F)
        /\ queue' = SubSeq(queue, P + F + 2, Len(queue))
    BY <2>1 DEF Take
  <2> HIDE DEF P, Q, F
  <2>3. head' \in 0 .. Size - 1
    <3>1. P + 1 + F \in Nat
      BY <1>2
    <3>2. QED
      BY <1>1, <2>2, <3>1, AtInRing
  <2>4. len' \in 0 .. fetched /\ (~overrun => len' <= Size)
    BY <1>2, <1>5, <2>1, <2>2
  <2>5. packet' \in [Threads -> Seq(0 .. Len(Stream))]
    <3>1. ASSUME NEW i \in 1 .. F  PROVE ring[At(P + i)] \in 0 .. Len(Stream)
      <4>1. P + i \in Nat
        BY <1>2
      <4>2. At(P + i) \in 0 .. Size - 1
        BY <1>1, <4>1, AtInRing
      <4>3. QED
        BY <1>1, <4>2 DEF TypeOK
    <3>2. [i \in 1 .. F |-> ring[At(P + i)]] \in Seq(0 .. Len(Stream))
      BY <1>2, <3>1
    <3>3. packet \in [Threads -> Seq(0 .. Len(Stream))]
      BY <1>1 DEF TypeOK
    <3>4. QED
      BY <2>2, <3>2, <3>3
  <2>6. offset' \in [Threads -> Nat]
    BY <1>1, <1>2, <2>1 DEF TypeOK
  <2>7. /\ queue' \in Seq(1 .. Len(Stream))
        /\ P + F + 2 <= Len(queue) + 1 =>
             /\ Len(queue') = Len(queue) - (P + F + 1)
             /\ \A i \in 1 .. Len(queue) - (P + F + 1) : queue'[i] = queue[i + (P + F + 1)]
    <3> DEFINE m == P + F + 2
    <3>1. m \in 1 .. Len(queue) + 1 \/ m > Len(queue)
      BY <1>2, <1>5
    <3>2. \A i \in m .. Len(queue) : i \in 1 .. Len(queue)
      BY <1>2, <1>5
    <3>3. \A i \in m .. Len(queue) : queue[i] \in 1 .. Len(Stream)
      BY <1>5, <3>2
    <3>4. queue' = SubSeq(queue, m, Len(queue)) /\ m \in Nat
      BY <1>2, <2>2
    <3> HIDE DEF m
    <3>5. queue' \in Seq(1 .. Len(Stream))
      BY <1>5, <3>3, <3>4
    <3>6. ASSUME m <= Len(queue) + 1
          PROVE  /\ Len(queue') = Len(queue) - (m - 1)
                 /\ \A i \in 1 .. Len(queue) - (m - 1) : queue'[i] = queue[i + (m - 1)]
      BY <1>5, <3>4, <3>6
    <3>7. m - 1 = P + F + 1
      BY <1>2 DEF m
    <3>8. QED
      BY <3>5, <3>6, <3>7 DEF m
  <2>8. TypeOK'
    BY <1>1, <1>3, <1>4, <1>6, <1>7, <2>3, <2>4, <2>5, <2>6, <2>7 DEF TypeOK
  <2>9. RingExact'
    <3> SUFFICES ASSUME ~overrun', ~slipped'
                 PROVE  len' = Len(queue') /\ \A i \in 1 .. len' : ring'[At(i - 1)'] = queue'[i]
      BY DEF RingExact
    <3>1. ~overrun /\ ~slipped /\ offset[t] = 0
      BY <1>3, <1>6
    <3>2. Q = P
      BY <1>1, <3>1, PassedPlace DEF P, Q
    <3>3. len = Len(queue) /\ \A i \in 1 .. len : ring[At(i - 1)] = queue[i]
      BY <3>1 DEF IInv, RingExact
    <3> DEFINE k == P + F + 1
    <3>4. k \in Nat /\ k <= len /\ len' = len - k /\ len <= Size /\ head' = At(k)
      <4>1. P + 1 + F = k /\ k \in Nat /\ F + 1 + Q = k
        BY <1>2, <3>2
      <4> HIDE DEF k
      <4>2. head' = At(P + 1 + F) /\ len' = len - (F + 1 + Q) /\ len >= F + 1 + Q
        BY <2>1, <2>2
      <4>3. head' = At(k) /\ len' = len - k /\ len >= k
        BY <4>1, <4>2
      <4>4. len \in Nat /\ len <= Size
        BY <1>5, <3>1
      <4>5. QED
        BY <4>1, <4>3, <4>4
    <3>5. P + F + 2 <= Len(queue) + 1
      BY <1>2, <1>5, <3>3, <3>4
    <3>6. Len(queue') = len - k /\ \A i \in 1 .. len - k : queue'[i] = queue[i + k]
      BY <2>7, <3>3, <3>5
    <3> HIDE DEF k
    <3>7. ASSUME NEW i \in 1 .. len'
          PROVE  ring'[At(i - 1)'] = queue'[i]
      <4>1. /\ i - 1 \in 0 .. Size /\ k \in 0 .. Size /\ i + k - 1 \in 0 .. Size
            /\ i + k - 1 < Size /\ i + k \in 1 .. len /\ i \in 1 .. len - k
        BY <1>5, <3>4
      <4>2. head \in 0 .. Size - 1 /\ head' \in 0 .. Size - 1
        BY <1>1, <2>3 DEF TypeOK
      <4>3. At(k) = IF head + k < Size THEN head + k ELSE head + k - Size
        BY <1>1, <4>1, AtNear
      <4>4. At(i + k - 1) = IF head + (i + k - 1) < Size THEN head + (i + k - 1)
                                                         ELSE head + (i + k - 1) - Size
        BY <1>1, <4>1, AtNear
      <4>5. At(i - 1)' = IF head' + (i - 1) < Size THEN head' + (i - 1)
                                                   ELSE head' + (i - 1) - Size
        <5>1. /\ head' \in Nat /\ head' < Size /\ Size \in Nat \ {0}
              /\ i - 1 \in Nat /\ i - 1 <= Size
          BY <4>1, <4>2
        <5>2. QED
          BY <5>1, WrapOnce DEF At
      <4>6. At(i - 1)' = At(i + k - 1)
        BY <3>4, <4>1, <4>2, <4>3, <4>4, <4>5
      <4>7. ring[At(i + k - 1)] = queue[i + k]
        BY <3>3, <4>1
      <4>8. QED
        BY <1>3, <3>6, <4>1, <4>6, <4>7
    <3>8. QED
      BY <3>4, <3>6, <3>7
  <2>10. QED
    BY <2>8, <2>9 DEF IInv
<1>10. QED
  BY <1>8, <1>9
-----------------------------------------------------------------------------
(* The whole *)

(* The ring is empty at the start. *)
LEMMA InitInv == Init => IInv
<1> SUFFICES ASSUME Init  PROVE IInv
  OBVIOUS
<1>1. TypeOK
  <2>1. Size \in Nat \ {0} /\ Len(Stream) \in Nat
    BY RingAssumption
  <2>2. arrived \in 0 .. Len(Stream) /\ fetched \in 0 .. arrived /\ signals \in Nat
    BY <2>1 DEF Init
  <2>3. ring \in [0 .. Size - 1 -> 0 .. Len(Stream)] /\ head \in 0 .. Size - 1
    BY <2>1 DEF Init
  <2>4. len \in 0 .. fetched /\ len <= Size
    BY <2>1 DEF Init
  <2>5. offset \in [Threads -> Nat] /\ delivered \in [Frames -> Nat]
    BY DEF Init
  <2>6. packet \in [Threads -> Seq(0 .. Len(Stream))] /\ queue \in Seq(1 .. Len(Stream))
    BY DEF Init
  <2>7. /\ lock \in ({"handler"} \X Hosts) \cup ({"assembler"} \X Threads) \cup {Free}
        /\ hpc \in [Hosts -> {"off", "lock", "read", "create"}]
        /\ tpc \in [Threads -> {"off", "check", "lock", "scan", "packet"}]
    BY DEF Init
  <2>8. {junk, overrun, slipped, cut} \subseteq BOOLEAN
    BY DEF Init
  <2>9. QED
    BY <2>2, <2>3, <2>4, <2>5, <2>6, <2>7, <2>8 DEF TypeOK
<1>2. RingExact
  BY DEF Init, RingExact
<1>3. QED
  BY <1>1, <1>2 DEF IInv

(* What does not touch the ring keeps it. *)
LEMMA RingKept ==
  ASSUME IInv, UNCHANGED buf
  PROVE  RingExact'
BY DEF IInv, RingExact, buf, At

(* Every step keeps the invariant. *)
LEMMA NextInv == IInv /\ [Next]_vars => IInv'
<1> SUFFICES ASSUME IInv, [Next]_vars  PROVE IInv'
  OBVIOUS
<1> USE RingAssumption
<1>1. TypeOK
  BY DEF IInv
<1>2. CASE Arrive
  <2>1. PICK n \in Bursts : arrived' = Min({arrived + n, Len(Stream)})
    BY <1>2 DEF Arrive
  <2>2. arrived \in 0 .. Len(Stream) /\ fetched \in 0 .. arrived /\ arrived < Len(Stream) /\ n \in Nat
    BY <1>1, <1>2 DEF Arrive, TypeOK
  <2>3. {arrived + n, Len(Stream)} \in SUBSET Nat /\ {arrived + n, Len(Stream)} # {}
    BY <2>2
  <2>4. arrived' \in {arrived + n, Len(Stream)} /\ \A y \in {arrived + n, Len(Stream)} : arrived' <= y
    BY <2>1, <2>3, MinIn
  <2>5. arrived' \in 0 .. Len(Stream) /\ fetched \in 0 .. arrived'
    BY <2>2, <2>4
  <2>6. /\ signals' = signals + 1
        /\ UNCHANGED <<fetched, lock, ring, head, len, queue, overrun, slipped, hpc, tpc, offset,
                       packet, delivered, junk, cut>>
    BY <1>2 DEF Arrive, buf, out
  <2>7. TypeOK'
    BY <1>1, <2>5, <2>6 DEF TypeOK
  <2>8. QED
    BY <1>2, <2>7, RingKept DEF IInv, Arrive
<1>3. CASE Reset
  <2>1. TypeOK'
    BY <1>1, <1>3 DEF Reset, buf, out, TypeOK
  <2>2. QED
    BY <1>3, <2>1, RingKept DEF IInv, Reset
<1>4. ASSUME NEW h \in Hosts, Interrupt(h)  PROVE IInv'
  <2>1. TypeOK'
    BY <1>1, <1>4 DEF Interrupt, GoHandler, buf, out, TypeOK
  <2>2. QED
    BY <1>4, <2>1, RingKept DEF IInv, Interrupt
<1>5. ASSUME NEW h \in Hosts, HandlerLock(h)  PROVE IInv'
  <2>1. TypeOK'
    BY <1>1, <1>5 DEF HandlerLock, GoHandler, buf, out, line, TypeOK
  <2>2. QED
    BY <1>5, <2>1, RingKept DEF IInv, HandlerLock
<1>6. ASSUME NEW h \in Hosts, HandlerUnlock(h)  PROVE IInv'
  <2>1. TypeOK'
    BY <1>1, <1>6 DEF HandlerUnlock, GoHandler, buf, out, line, TypeOK
  <2>2. QED
    BY <1>6, <2>1, RingKept DEF IInv, HandlerUnlock
<1>7. ASSUME NEW h \in Hosts, Create(h)  PROVE IInv'
  <2>1. TypeOK'
    BY <1>1, <1>7 DEF Create, GoHandler, buf, out, line, TypeOK
  <2>2. QED
    BY <1>7, <2>1, RingKept DEF IInv, Create
<1>8. ASSUME NEW t \in Threads, Check(t)  PROVE IInv'
  <2>1. TypeOK'
    BY <1>1, <1>8 DEF Check, Go, buf, out, line, TypeOK
  <2>2. QED
    BY <1>8, <2>1, RingKept DEF IInv, Check
<1>9. ASSUME NEW t \in Threads, AssemblerLock(t)  PROVE IInv'
  <2>1. TypeOK'
    BY <1>1, <1>9 DEF AssemblerLock, Go, buf, out, line, TypeOK
  <2>2. QED
    BY <1>9, <2>1, RingKept DEF IInv, AssemblerLock
<1>10. ASSUME NEW t \in Threads, Deliver(t)  PROVE IInv'
  <2>1. TypeOK'
    <3>1. tpc' \in [Threads -> {"off", "check", "lock", "scan", "packet"}]
      BY <1>1, <1>10 DEF Deliver, Go, TypeOK
    <3>2. packet' \in [Threads -> Seq(0 .. Len(Stream))]
      BY <1>1, <1>10 DEF Deliver, TypeOK
    <3>3. delivered' \in [Frames -> Nat]
      <4>1. \/ \E f \in Frames : delivered' = [delivered EXCEPT ![f] = @ + 1]
            \/ UNCHANGED delivered
        BY <1>10 DEF Deliver
      <4>2. delivered \in [Frames -> Nat]
        BY <1>1 DEF TypeOK
      <4>3. QED
        BY <4>1, <4>2
    <3>4. junk \in BOOLEAN => junk' \in BOOLEAN
      BY <1>10 DEF Deliver
    <3>5. /\ UNCHANGED <<arrived, fetched, signals>>
          /\ UNCHANGED <<lock, ring, head, len, queue, hpc, offset>>
          /\ UNCHANGED <<overrun, slipped, cut>>
      BY <1>10 DEF Deliver, line, buf
    <3>6. QED
      BY <1>1, <3>1, <3>2, <3>3, <3>4, <3>5 DEF TypeOK
  <2>2. QED
    BY <1>10, <2>1, RingKept DEF IInv, Deliver
<1>11. CASE UNCHANGED vars
  <2>1. TypeOK'
    BY <1>1, <1>11 DEF vars, TypeOK
  <2>2. QED
    BY <1>11, <2>1, RingKept DEF IInv, vars, buf
<1>12. QED
  BY <1>2, <1>3, <1>4, <1>5, <1>6, <1>7, <1>8, <1>9, <1>10, <1>11, ReadInv, ScanInv
  DEF Next, HandlerStep, AssemblerStep

(* SerialRcv() and MessageAssembler(): every variable of the driver keeps  *)
(* its type.                                                               *)
THEOREM TypeCorrect == Spec => []TypeOK
<1>1. IInv => TypeOK
  BY DEF IInv
<1>2. QED
  BY InitInv, NextInv, <1>1, PTL DEF Spec

(* SerialRcv() and MessageAssembler(): a ring that was not overrun and not *)
(* searched with an old Offset holds exactly the bytes read and not taken. *)
THEOREM RingCorrect == Spec => []RingExact
<1>1. IInv => RingExact
  BY DEF IInv
<1>2. QED
  BY InitInv, NextInv, <1>1, PTL DEF Spec

-----------------------------------------------------------------------------
(* Frames *)

(* Where the frame that begins at s ends. *)
End(s) == s + Stream[s + 1].val + 4

(* Frame f is what lies between s and End(s). *)
Begins(f, s) ==
  /\ s \in 1 .. Len(Stream) - 4
  /\ End(s) <= Len(Stream)
  /\ Stream[s].val = SOF
  /\ {i \in DOMAIN Stream : Stream[i].frame = f} = s .. End(s)
  /\ \A i \in s .. End(s) : Stream[i].pos = i - s

(* No frame lies on both sides of the boundary before i. *)
Edge(i) == i \in 1 .. Len(Stream) /\ Stream[i].frame \in Frames => Stream[i].pos = 0

(* Each frame begins somewhere, and its end is a number. *)
LEMMA FrameBegins ==
  ASSUME NEW f \in Frames
  PROVE  \E s \in 1 .. Len(Stream) : Begins(f, s)
<1>1. PICK s \in 1 .. Len(Stream) - 4 :
        /\ s + Stream[s + 1].val + 4 <= Len(Stream)
        /\ Stream[s].val = SOF
        /\ {i \in DOMAIN Stream : Stream[i].frame = f} = s .. s + Stream[s + 1].val + 4
        /\ \A i \in s .. s + Stream[s + 1].val + 4 : Stream[i].pos = i - s
  BY StreamAssumption
<1>2. s \in 1 .. Len(Stream)
  BY <1>1, RingAssumption
<1>3. QED
  BY <1>1, <1>2 DEF Begins, End

(* Its numbers. *)
LEMMA FrameNumbers ==
  ASSUME NEW f \in Frames, NEW s, Begins(f, s)
  PROVE  /\ s \in Nat /\ s >= 1 /\ s + 4 <= Len(Stream) /\ Len(Stream) \in Nat
         /\ Stream[s + 1].val \in Nat
         /\ End(s) \in Nat /\ End(s) = s + Stream[s + 1].val + 4 /\ End(s) <= Len(Stream)
<1>1. s \in Nat /\ s >= 1 /\ s + 4 <= Len(Stream) /\ Len(Stream) \in Nat
  BY RingAssumption DEF Begins
<1>2. s + 1 \in 1 .. Len(Stream)
  BY <1>1
<1>3. Stream[s + 1].val \in Nat
  BY <1>2, RingAssumption
<1>4. QED
  BY <1>1, <1>3 DEF Begins, End

(* The bytes of a frame are those between its ends. *)
LEMMA FrameBytes ==
  ASSUME NEW f \in Frames, NEW s, Begins(f, s), NEW i \in 1 .. Len(Stream)
  PROVE  /\ Stream[i].frame = f <=> s <= i /\ i <= End(s)
         /\ Stream[i].frame = f => Stream[i].pos = i - s
<1>1. i \in DOMAIN Stream /\ i \in Nat
  BY StreamAssumption, RingAssumption
<1>2. s \in Nat /\ End(s) \in Nat
  BY FrameNumbers
<1>3. Stream[i].frame = f <=> i \in s .. End(s)
  BY <1>1 DEF Begins
<1>4. QED
  BY <1>1, <1>2, <1>3 DEF Begins

(* How many there are. *)
LEMMA FrameCount ==
  ASSUME NEW f \in Frames, NEW s, Begins(f, s)
  PROVE  Cardinality({i \in DOMAIN Stream : Stream[i].frame = f}) = Stream[s + 1].val + 5
<1>1. {i \in DOMAIN Stream : Stream[i].frame = f} = s .. End(s)
  BY DEF Begins
<1>2. s \in Nat /\ End(s) \in Nat /\ Stream[s + 1].val \in Nat /\ End(s) = s + Stream[s + 1].val + 4
  BY FrameNumbers
<1>3. s \in Int /\ End(s) \in Int /\ ~ (s > End(s))
  BY <1>2
<1>4. Cardinality(s .. End(s)) = End(s) - s + 1
  BY <1>3, FS_Interval
<1>5. End(s) - s + 1 = Stream[s + 1].val + 5
  BY <1>2
<1>6. QED
  BY ONLY <1>1, <1>4, <1>5

(* What follows its SOF is what MessageAssembler() copies. *)
LEMMA CopiedFrame ==
  ASSUME NEW f \in Frames, NEW s, Begins(f, s), NEW p \in Seq(0 .. Len(Stream)),
         Len(p) = Stream[s + 1].val + 4, \A i \in 1 .. Len(p) : p[i] = s + i
  PROVE  IsFrame(p, f)
<1>1. /\ s \in Nat /\ s >= 1 /\ Stream[s + 1].val \in Nat
      /\ End(s) = s + Stream[s + 1].val + 4 /\ End(s) <= Len(Stream) /\ Len(Stream) \in Nat
  BY FrameNumbers
<1>2. Len(p) = Cardinality({i \in DOMAIN Stream : Stream[i].frame = f}) - 1
  <2>1. Cardinality({i \in DOMAIN Stream : Stream[i].frame = f}) = Stream[s + 1].val + 5
    BY FrameCount
  <2>2. QED
    BY <1>1, <2>1
<1>3. ASSUME NEW i \in DOMAIN p
      PROVE  p[i] > 0 /\ Stream[p[i]].frame = f /\ Stream[p[i]].pos = i
  <2>0. i \in 1 .. Len(p)
    BY ONLY p \in Seq(0 .. Len(Stream)), i \in DOMAIN p
  <2>1. i \in Nat /\ i >= 1 /\ i <= Stream[s + 1].val + 4 /\ p[i] = s + i
    BY <1>1, <2>0
  <2>2. s + i \in 1 .. Len(Stream) /\ s <= s + i /\ s + i <= End(s)
    <3> DEFINE n == Stream[s + 1].val
               m == Len(Stream)
               q == End(s)
    <3>1. /\ s \in Nat /\ s >= 1 /\ n \in Nat /\ q = s + n + 4 /\ q <= m /\ m \in Nat
          /\ i \in Nat /\ i >= 1 /\ i <= n + 4
      BY ONLY <1>1, <2>1
    <3> HIDE DEF n, m, q
    <3>2. s + i \in 1 .. m /\ s <= s + i /\ s + i <= q
      BY ONLY <3>1
    <3>3. QED
      BY ONLY <3>2 DEF m, q
  <2>3. PICK j : j = s + i
    OBVIOUS
  <2>4. Stream[j].frame = f /\ Stream[j].pos = j - s
    BY <2>2, <2>3, FrameBytes
  <2>5. QED
    BY <1>1, <2>1, <2>3, <2>4
<1>4. QED
  BY <1>2, <1>3 DEF IsFrame

(* A packet is one frame. *)
LEMMA OneFrame ==
  ASSUME NEW f \in Frames, NEW g \in Frames, NEW p \in Seq(0 .. Len(Stream)),
         IsFrame(p, f), IsFrame(p, g)
  PROVE  f = g
<1>1. PICK s \in 1 .. Len(Stream) : Begins(f, s)
  BY FrameBegins
<1>2. Len(p) = Stream[s + 1].val + 4 /\ Stream[s + 1].val \in Nat
  <2>1. Cardinality({i \in DOMAIN Stream : Stream[i].frame = f}) = Stream[s + 1].val + 5
    BY <1>1, FrameCount
  <2>2. Stream[s + 1].val \in Nat
    BY <1>1, FrameNumbers
  <2>3. QED
    BY <2>1, <2>2 DEF IsFrame
<1>3. 1 \in DOMAIN p
  BY <1>2
<1>4. QED
  BY <1>3 DEF IsFrame

(* The first SOF after a boundary is the beginning of a frame, and behind  *)
(* that frame there is a boundary.                                         *)
LEMMA NextFrame ==
  ASSUME NEW i \in Nat, i >= 1, Edge(i), NEW k \in Nat, i + k <= Len(Stream),
         Stream[i + k].val = SOF, \A o \in Nat : o < k => Stream[i + o].val # SOF
  PROVE  \E f \in Frames : Begins(f, i + k) /\ Edge(End(i + k) + 1)
<1>1. i + k \in 1 .. Len(Stream) /\ Len(Stream) \in Nat
  BY RingAssumption
<1>2. PICK f \in Frames : Stream[i + k].frame = f
  BY <1>1, StreamAssumption
<1>3. PICK s \in 1 .. Len(Stream) : Begins(f, s)
  BY FrameBegins
<1>4. s \in Nat /\ s >= 1 /\ End(s) \in Nat /\ s <= End(s) /\ End(s) <= Len(Stream)
  BY <1>3, FrameNumbers
<1>5. s <= i + k /\ i + k <= End(s)
  BY <1>1, <1>2, <1>3, FrameBytes
<1>6. ~ (s < i)
  <2> SUFFICES ASSUME s < i  PROVE FALSE
    OBVIOUS
  <2>1. i \in 1 .. Len(Stream) /\ s <= i /\ i <= End(s)
    BY <1>1, <1>4, <1>5
  <2>2. Stream[i].frame = f /\ Stream[i].pos = i - s
    BY <1>3, <2>1, FrameBytes
  <2>3. QED
    BY <1>4, <2>1, <2>2 DEF Edge
<1>7. s = i + k
  <2> SUFFICES ASSUME s < i + k  PROVE FALSE
    BY <1>4, <1>5
  <2>1. s - i \in Nat /\ s - i < k /\ i + (s - i) = s
    BY <1>4, <1>6
  <2>2. Stream[s].val # SOF
    BY <2>1
  <2>3. QED
    BY <1>3, <2>2 DEF Begins
<1>8. Edge(End(s) + 1)
  <2>1. PICK e : e = End(s) + 1
    OBVIOUS
  <2> SUFFICES ASSUME e \in 1 .. Len(Stream), NEW g \in Frames, Stream[e].frame = g
               PROVE  Stream[e].pos = 0
    BY <2>1 DEF Edge
  <2>2. PICK r \in 1 .. Len(Stream) : Begins(g, r)
    BY FrameBegins
  <2>3. r \in Nat /\ End(r) \in Nat
    BY <2>2, FrameNumbers
  <2>4. r <= e /\ e <= End(r) /\ Stream[e].pos = e - r
    BY <2>2, FrameBytes
  <2>5. f # g
    BY <1>3, <1>4, <2>1, FrameBytes
  <2>6. PICK d : d = End(s)
    OBVIOUS
  <2>7. d \in 1 .. Len(Stream) /\ Stream[d].frame = f
    BY <1>3, <1>4, <2>6, FrameBytes
  <2>8. ~ (r <= d)
    <3>1. SUFFICES ASSUME r <= d  PROVE FALSE
      OBVIOUS
    <3>2. d \in Nat /\ d <= e
      BY <1>4, <2>1, <2>6
    <3>3. d <= End(r)
      BY ONLY <2>3, <2>4, <3>2, e \in 1 .. Len(Stream)
    <3>4. Stream[d].frame = g
      BY <2>2, <2>7, <3>1, <3>3, FrameBytes
    <3>5. QED
      BY ONLY <2>5, <2>7, <3>4
  <2>9. QED
    BY <1>4, <2>1, <2>3, <2>4, <2>6, <2>8
<1>9. QED
  BY <1>3, <1>7, <1>8

-----------------------------------------------------------------------------
(* What becomes of the frames *)

Clean == ~overrun /\ ~slipped /\ ~cut

(* The byte that is, or will be, at the head of the ring. *)
First == fetched - len + 1

(* All bytes of the frame have left the ring. *)
Taken(f) == \A i \in 1 .. Len(Stream) : Stream[i].frame = f => i < First

(* The ring holds the last bytes read, none left out. *)
OrderInv == \A i \in 1 .. len : queue[i] = fetched - len + i

(* A packet is a frame that was taken and not yet handed on. *)
PacketInv ==
  \A t \in Threads : tpc[t] = "packet" =>
    \E f \in Frames : IsFrame(packet[t], f) /\ Taken(f) /\ delivered[f] = 0

(* No two assemblers have the same frame. *)
OneEach ==
  \A t, u \in Threads, f \in Frames :
    /\ tpc[t] = "packet" /\ IsFrame(packet[t], f)
    /\ tpc[u] = "packet" /\ IsFrame(packet[u], f)
    => t = u

DeliveredInv == \A f \in Frames : delivered[f] <= 1 /\ (delivered[f] > 0 => Taken(f))

FramesInv ==
  Clean => ~junk /\ OrderInv /\ Edge(First) /\ PacketInv /\ OneEach /\ DeliveredInv

(* The numbers behind the ring. *)
LEMMA Numbers ==
  ASSUME TypeOK
  PROVE  /\ len \in Nat /\ fetched \in Nat /\ Len(Stream) \in Nat /\ Size \in Nat
         /\ len <= fetched /\ fetched <= Len(Stream) /\ First \in Nat /\ First >= 1
BY RingAssumption DEF TypeOK, First

(* Which byte is where. *)
LEMMA RingBytes ==
  ASSUME IInv, FramesInv, Clean, NEW o \in Nat, o < len
  PROVE  /\ First + o \in 1 .. Len(Stream)
         /\ ring[At(o)] = First + o
         /\ Val(At(o)) = Stream[First + o].val
<1>1. /\ len \in Nat /\ fetched \in Nat /\ Len(Stream) \in Nat
      /\ len <= fetched /\ fetched <= Len(Stream)
  BY Numbers DEF IInv
<1>2. o + 1 \in 1 .. len /\ (o + 1) - 1 = o
  BY <1>1
<1>3. ring[At((o + 1) - 1)] = queue[o + 1]
  BY <1>2 DEF IInv, RingExact, Clean
<1>4. queue[o + 1] = fetched - len + (o + 1)
  BY <1>2 DEF FramesInv, OrderInv
<1>5. ring[At(o)] = First + o /\ First + o \in 1 .. Len(Stream)
  BY <1>1, <1>2, <1>3, <1>4 DEF First
<1>6. QED
  BY <1>5 DEF Val

(* Where the search for a SOF ends, when it found one. *)
LEMMA PlaceFirst ==
  ASSUME TypeOK, NEW t \in Threads, offset[t] = 0, Whole(t)
  PROVE  /\ Place(t) \in Nat /\ FrameLen(t) \in Nat /\ FrameLen(t) >= 4
         /\ len >= FrameLen(t) + 1 + Place(t)
         /\ Found(Place(t))
         /\ \A o \in Nat : o < Place(t) => ~Found(o)
<1> DEFINE S == {o \in offset[t] + 1 .. offset[t] + Size : Ends(o) \/ Found(o)}
           P == Place(t)
<1>1. head \in Nat /\ head < Size /\ Size \in Nat \ {0}
  BY RingAssumption DEF TypeOK
<1>2. PICK at \in 0 + 1 .. 0 + Size : At(at) = head
  BY <1>1, RoundOnce DEF At
<1>3. S \in SUBSET Nat /\ S # {}
  BY <1>1, <1>2 DEF Ends
<1>4. Min(S) \in S /\ \A y \in S : Min(S) <= y
  BY <1>3, MinIn
<1>5. P \in Nat /\ FrameLen(t) \in Nat
  BY PlaceNat
<1>6. Val(At(P + 1)) \in Nat
  BY <1>5, AtInRing, ValNat
<1>7. FrameLen(t) >= 4
  BY <1>6 DEF FrameLen
<1>8. len >= FrameLen(t) + 1 + P
  BY PassedPlace DEF Whole
<1>9. CASE Found(0)
  <2>1. P = 0
    BY <1>9 DEF Place
  <2>2. QED
    BY <1>5, <1>7, <1>8, <1>9, <2>1
<1>10. CASE ~Found(0)
  <2>1. P = Min(S)
    BY <1>10 DEF Place
  <2>2. Found(P)
    BY <1>4, <1>10, <2>1 DEF Whole, Searched
  <2>3. ASSUME NEW o \in Nat, o < P  PROVE ~Found(o)
    <3>1. CASE o = 0
      BY <1>10, <3>1
    <3>2. CASE o # 0
      <4>1. P <= Size
        BY <1>1, <1>4, <2>1
      <4>2. o \in offset[t] + 1 .. offset[t] + Size
        BY <1>1, <1>5, <2>3, <3>2, <4>1
      <4>3. o \notin S
        BY <1>4, <1>5, <2>1, <2>3
      <4>4. QED
        BY <4>2, <4>3
    <3>3. QED
      BY <3>1, <3>2
  <2>4. QED
    BY <1>5, <1>7, <1>8, <2>2, <2>3
<1>11. QED
  BY <1>9, <1>10

(* A sequence without its first m - 1 elements. *)
LEMMA DropFront ==
  ASSUME NEW S, NEW q \in Seq(S), NEW m \in 1 .. Len(q) + 1
  PROVE  /\ Len(SubSeq(q, m, Len(q))) = Len(q) - (m - 1)
         /\ \A i \in 1 .. Len(q) - (m - 1) : SubSeq(q, m, Len(q))[i] = q[i + (m - 1)]
OBVIOUS

(* What MessageAssembler() takes is a frame, and behind it the next begins. *)
LEMMA TakeFrame ==
  ASSUME IInv, FramesInv, Clean, NEW t \in Threads, offset[t] = 0, Whole(t), Take(t),
         UNCHANGED fetched
  PROVE  /\ OrderInv' /\ Edge(First') /\ First' \in Nat /\ First' > First
         /\ \E p \in Seq(0 .. Len(Stream)), f \in Frames, s \in Nat :
              /\ packet' = [packet EXCEPT ![t] = p]
              /\ IsFrame(p, f)
              /\ Begins(f, s) /\ s >= First /\ End(s) < First'
<1> DEFINE P == Place(t)
           F == FrameLen(t)
<1>1. TypeOK /\ queue \in Seq(1 .. Len(Stream))
  BY DEF IInv, TypeOK
<1>2. /\ P \in Nat /\ F \in Nat /\ F >= 4 /\ len >= F + 1 + P
      /\ Found(P) /\ \A o \in Nat : o < P => ~Found(o)
  BY <1>1, PlaceFirst
<1>3. /\ packet' = [packet EXCEPT ![t] = [i \in 1 .. F |-> ring[At(P + i)]]]
      /\ len' = len - (F + 1 + P)
      /\ queue' = SubSeq(queue, P + F + 2, Len(queue))
  BY <1>1, PassedPlace DEF Take
<1>4. F = Val(At(P + 1)) + 4
  BY DEF FrameLen
<1> HIDE DEF P, F
<1>5. /\ len \in Nat /\ fetched \in Nat /\ Len(Stream) \in Nat /\ First \in Nat /\ First >= 1
      /\ len <= fetched /\ fetched <= Len(Stream) /\ First = fetched - len + 1
  BY <1>1, Numbers DEF First
<1>6. Stream[First + P].val = SOF /\ First + P <= Len(Stream)
  BY <1>2, <1>5, RingBytes DEF Found
<1>7. ASSUME NEW o \in Nat, o < P  PROVE Stream[First + o].val # SOF
  <2>1. o < len /\ ~Found(o)
    BY <1>2, <1>5, <1>7
  <2>2. QED
    BY <2>1, RingBytes DEF Found
<1>8. Edge(First)
  BY DEF FramesInv
<1>9. PICK f \in Frames : Begins(f, First + P) /\ Edge(End(First + P) + 1)
  BY <1>2, <1>5, <1>6, <1>7, <1>8, NextFrame
<1>10. PICK s \in Nat : s = First + P
  BY <1>2, <1>5
<1>11. F = Stream[s + 1].val + 4
  <2>1. P + 1 \in Nat /\ P + 1 < len
    BY <1>2, <1>5
  <2>2. Val(At(P + 1)) = Stream[First + (P + 1)].val
    BY <2>1, RingBytes
  <2>3. First + (P + 1) = s + 1
    BY <1>2, <1>5, <1>10
  <2>4. QED
    BY <1>4, <2>2, <2>3
<1>12. Begins(f, s) /\ Edge(End(s) + 1) /\ End(s) = s + F
  <2>1. Begins(f, s) /\ Edge(End(s) + 1)
    BY <1>9, <1>10
  <2>2. End(s) = s + Stream[s + 1].val + 4 /\ Stream[s + 1].val \in Nat
    BY <2>1, FrameNumbers
  <2>3. QED
    BY <1>10, <1>11, <2>1, <2>2
<1>13. First' = First + F + 1 + P
  <2>1. First' = fetched - len' + 1
    BY DEF First
  <2>2. QED
    BY <1>2, <1>3, <1>5, <2>1
<1>14. First' = End(s) + 1 /\ First' \in Nat /\ First' > First
  BY <1>2, <1>5, <1>10, <1>12, <1>13
<1>15. Edge(First')
  BY <1>12, <1>14
<1>16. OrderInv'
  <2>1. Len(queue) = len
    BY DEF IInv, RingExact, Clean
  <2>2. P + F + 2 \in 1 .. Len(queue) + 1 /\ (P + F + 2) - 1 = P + F + 1
    BY <1>2, <1>5, <2>1
  <2>3. \A i \in 1 .. Len(queue) - (P + F + 1) : queue'[i] = queue[i + (P + F + 1)]
    BY <1>1, <1>3, <2>2, DropFront
  <2> SUFFICES ASSUME NEW i \in 1 .. len'
               PROVE  queue'[i] = fetched - len' + i
    BY DEF OrderInv
  <2>4. i \in Nat /\ i >= 1 /\ i <= len - (F + 1 + P)
    BY <1>2, <1>3, <1>5
  <2>5. i \in 1 .. Len(queue) - (P + F + 1) /\ i + (P + F + 1) \in 1 .. len
    BY <1>2, <1>5, <2>1, <2>4
  <2>6. queue'[i] = fetched - len + (i + (P + F + 1))
    BY <2>3, <2>5 DEF FramesInv, OrderInv
  <2>7. fetched - len + (i + (P + F + 1)) = fetched - (len - (F + 1 + P)) + i
    BY <1>2, <1>5, <2>4
  <2>8. QED
    BY <1>3, <2>6, <2>7
<1>17. PICK p : p = [i \in 1 .. F |-> ring[At(P + i)]]
  OBVIOUS
<1>18. ASSUME NEW i \in 1 .. F
       PROVE  p[i] = s + i /\ p[i] \in 0 .. Len(Stream)
  <2>1. P + i \in Nat /\ P + i < len
    BY <1>2, <1>5
  <2>2. ring[At(P + i)] = First + (P + i) /\ First + (P + i) \in 1 .. Len(Stream)
    BY <2>1, RingBytes
  <2>3. QED
    BY <1>2, <1>5, <1>10, <1>17, <2>2
<1>19. p \in Seq(0 .. Len(Stream)) /\ Len(p) = F
  <2>1. p \in [1 .. F -> 0 .. Len(Stream)]
    BY <1>17, <1>18
  <2>2. QED
    BY <1>2, <2>1
<1>20. IsFrame(p, f)
  <2>1. Len(p) = Stream[s + 1].val + 4 /\ \A i \in 1 .. Len(p) : p[i] = s + i
    BY <1>11, <1>18, <1>19
  <2>2. QED
    BY <1>12, <1>19, <2>1, CopiedFrame
<1>21. s >= First /\ End(s) < First'
  BY <1>2, <1>5, <1>10, <1>12, <1>14
<1>22. packet' = [packet EXCEPT ![t] = p]
  BY <1>3, <1>17
<1>23. QED
  BY <1>12, <1>14, <1>15, <1>16, <1>19, <1>20, <1>21, <1>22

(* What changes neither ring nor packets keeps it. *)
LEMMA FramesKept ==
  ASSUME FramesInv, Clean' => Clean,
         UNCHANGED <<fetched, len, queue, packet, delivered, junk>>,
         \A t \in Threads : tpc'[t] = "packet" => tpc[t] = "packet"
  PROVE  FramesInv'
<1> SUFFICES ASSUME Clean'  PROVE (~junk /\ OrderInv /\ Edge(First) /\ PacketInv /\ OneEach /\ DeliveredInv)'
  BY DEF FramesInv
<1>1. ~junk /\ OrderInv /\ Edge(First) /\ PacketInv /\ OneEach /\ DeliveredInv
  BY DEF FramesInv
<1>2. First' = First /\ \A f \in Frames : Taken(f)' <=> Taken(f)
  BY DEF First, Taken
<1>3. ~junk' /\ OrderInv' /\ Edge(First')
  BY <1>1, <1>2 DEF OrderInv
<1>4. PacketInv'
  BY <1>1, <1>2 DEF PacketInv
<1>5. OneEach'
  BY <1>1 DEF OneEach
<1>6. DeliveredInv'
  BY <1>1, <1>2 DEF DeliveredInv
<1>7. QED
  BY <1>3, <1>4, <1>5, <1>6

(* Reading leaves the head of the ring where it is. *)
LEMMA ReadFrames ==
  ASSUME IInv, FramesInv, NEW h \in Hosts, Read(h), Clean'
  PROVE  FramesInv'
<1> DEFINE a == arrived - fetched
           b == Size - At(len)
           n == Min({a, b})
<1>1. TypeOK /\ len \in Nat /\ fetched \in Nat /\ arrived \in Nat /\ fetched <= arrived
      /\ Size \in Nat /\ queue \in Seq(1 .. Len(Stream)) /\ arrived <= Len(Stream)
  BY RingAssumption DEF IInv, TypeOK
<1>2. At(len) \in 0 .. Size - 1
  BY <1>1, AtInRing
<1>3. {a, b} \in SUBSET Nat /\ {a, b} # {} /\ a \in Nat /\ b \in Nat
  BY <1>1, <1>2
<1>4. n \in Nat /\ n <= a
  BY <1>3, MinIn
<1> HIDE DEF n
<1>5. Fetch(n) /\ fetched' = fetched + n
  BY DEF Read, n
<1>6. UNCHANGED <<slipped, cut, tpc, packet, delivered, junk>> /\ (~overrun' => ~overrun)
  BY <1>5 DEF Read, out, Fetch
<1>7. Clean
  BY <1>6 DEF Clean
<1>8. len' = len + n /\ queue' = queue \o [i \in 1 .. n |-> fetched + i]
  BY <1>5 DEF Fetch
<1>9. First' = First
  <2>1. First' = fetched' - len' + 1
    BY DEF First
  <2>2. QED
    BY <1>1, <1>4, <1>5, <1>8, <2>1 DEF First
<1>10. ~junk /\ OrderInv /\ Edge(First) /\ PacketInv /\ OneEach /\ DeliveredInv
  BY <1>7 DEF FramesInv
<1>11. OrderInv'
  <2>1. Len(queue) = len
    BY <1>7 DEF IInv, RingExact, Clean
  <2> DEFINE new == [i \in 1 .. n |-> fetched + i]
  <2>2. new \in Seq(1 .. Len(Stream)) /\ Len(new) = n
    BY <1>1, <1>4
  <2>3. /\ \A i \in 1 .. Len(queue) : queue'[i] = queue[i]
        /\ \A i \in Len(queue) + 1 .. Len(queue) + n : queue'[i] = fetched + i - Len(queue)
    <3>1. queue \in Seq(1 .. Len(Stream)) /\ n \in Nat
      BY <1>1, <1>4
    <3>2. \A i \in 1 .. n : new[i] = fetched + i
      OBVIOUS
    <3> HIDE DEF new
    <3>3. queue' = queue \o new
      BY ONLY <1>8 DEF new
    <3>4. Len(queue) \in Nat
      BY ONLY <3>1
    <3>5. \A i \in 1 .. Len(queue) + n :
            queue'[i] = IF i <= Len(queue) THEN queue[i] ELSE new[i - Len(queue)]
      BY ONLY <2>2, <3>1, <3>3, ConcatProperties
    <3>6. ASSUME NEW i \in 1 .. Len(queue)  PROVE queue'[i] = queue[i]
      BY ONLY <3>1, <3>4, <3>5, i \in 1 .. Len(queue)
    <3>7. ASSUME NEW i \in Len(queue) + 1 .. Len(queue) + n
          PROVE  queue'[i] = fetched + i - Len(queue)
      <4>1. i - Len(queue) \in 1 .. n /\ i \in 1 .. Len(queue) + n /\ ~ (i <= Len(queue))
        BY ONLY <3>1, <3>4, i \in Len(queue) + 1 .. Len(queue) + n
      <4>2. queue'[i] = new[i - Len(queue)]
        BY ONLY <3>5, <4>1
      <4>3. fetched \in Int
        BY <1>1, <1>4
      <4>4. QED
        BY ONLY <3>2, <3>4, <4>1, <4>2, <4>3, i \in Len(queue) + 1 .. Len(queue) + n
    <3>8. QED
      BY ONLY <3>6, <3>7
  <2> SUFFICES ASSUME NEW i \in 1 .. len'
               PROVE  queue'[i] = fetched' - len' + i
    BY DEF OrderInv
  <2>4. fetched' - len' + i = fetched - len + i /\ i \in Nat /\ i >= 1 /\ i <= len + n
    BY <1>1, <1>4, <1>5, <1>8
  <2>5. CASE i <= len
    BY <1>1, <1>10, <2>1, <2>3, <2>4, <2>5 DEF OrderInv
  <2>6. CASE i > len
    <3>1. queue'[i] = fetched + i - len
      BY <1>1, <1>4, <2>1, <2>3, <2>4, <2>6
    <3>2. QED
      BY <1>1, <2>4, <3>1
  <2>7. QED
    BY <1>1, <2>4, <2>5, <2>6
<1>12. \A f \in Frames : Taken(f)' <=> Taken(f)
  BY <1>9 DEF Taken
<1>13. ~junk' /\ Edge(First')
  BY <1>6, <1>9, <1>10
<1>14. PacketInv'
  BY <1>6, <1>10, <1>12 DEF PacketInv
<1>15. OneEach' /\ DeliveredInv'
  BY <1>6, <1>10, <1>12 DEF OneEach, DeliveredInv
<1>16. QED
  BY <1>11, <1>13, <1>14, <1>15 DEF FramesInv

(* The frame that is taken was nobody's before. *)
LEMMA ScanFrames ==
  ASSUME IInv, FramesInv, NEW t \in Threads, Scan(t), Clean'
  PROVE  FramesInv'
<1>1. TypeOK /\ offset[t] \in Nat /\ slipped \in BOOLEAN
  BY DEF IInv, TypeOK
<1>2. UNCHANGED <<fetched, overrun, cut, delivered, junk>> /\ slipped' = (slipped \/ offset[t] > 0)
  BY DEF Scan, line, out
<1>3. Clean /\ offset[t] = 0
  <2>1. ~slipped /\ ~ (offset[t] > 0)
    BY <1>1, <1>2 DEF Clean
  <2>2. QED
    BY <1>1, <1>2, <2>1 DEF Clean
<1>4. CASE ~Whole(t)
  <2>1. UNCHANGED <<len, queue, packet>> /\ \A u \in Threads : tpc'[u] = "packet" => tpc[u] = "packet"
    BY <1>1, <1>4 DEF Scan, Go, TypeOK
  <2>2. QED
    BY <1>2, <1>3, <2>1, FramesKept
<1>5. CASE Whole(t)
  <2>1. Take(t) /\ Go(t, "scan", "packet")
    BY <1>5 DEF Scan
  <2>2. OrderInv' /\ Edge(First') /\ First' \in Nat /\ First' > First
    BY <1>2, <1>3, <1>5, <2>1, TakeFrame
  <2>3. PICK p \in Seq(0 .. Len(Stream)), f \in Frames, s \in Nat :
          /\ packet' = [packet EXCEPT ![t] = p]
          /\ IsFrame(p, f)
          /\ Begins(f, s) /\ s >= First /\ End(s) < First'
    BY <1>2, <1>3, <1>5, <2>1, TakeFrame
  <2>4. tpc' = [tpc EXCEPT ![t] = "packet"] /\ tpc[t] = "scan"
    BY <2>1 DEF Go
  <2>5. /\ tpc'[t] = "packet" /\ packet'[t] = p
        /\ \A u \in Threads \ {t} : tpc'[u] = tpc[u] /\ packet'[u] = packet[u]
    BY <1>1, <2>3, <2>4 DEF TypeOK
  <2>6. ~junk /\ PacketInv /\ OneEach /\ DeliveredInv
    BY <1>3 DEF FramesInv
  <2>7. First \in Nat /\ Len(Stream) \in Nat
    BY <1>1, Numbers
  <2>8. \A g \in Frames : Taken(g) => Taken(g)'
    <3> SUFFICES ASSUME NEW g \in Frames, Taken(g), NEW i \in 1 .. Len(Stream), Stream[i].frame = g
                 PROVE  i < First'
      BY DEF Taken
    <3>1. i < First /\ i \in Nat
      BY <2>7 DEF Taken
    <3>2. QED
      BY <2>2, <2>7, <3>1
  <2>9. Taken(f)'
    <3> SUFFICES ASSUME NEW i \in 1 .. Len(Stream), Stream[i].frame = f
                 PROVE  i < First'
      BY DEF Taken
    <3>1. i <= End(s) /\ i \in Nat /\ End(s) \in Nat
      BY <2>3, <2>7, FrameBytes, FrameNumbers
    <3>2. QED
      BY <2>2, <2>3, <3>1
  <2>10. ~Taken(f)
    <3>1. s \in 1 .. Len(Stream) /\ s <= End(s)
      <4>1. /\ s \in Nat /\ s >= 1 /\ s + 4 <= Len(Stream) /\ Len(Stream) \in Nat
            /\ Stream[s + 1].val \in Nat /\ End(s) = s + Stream[s + 1].val + 4
        BY <2>3, FrameNumbers
      <4>2. PICK v \in Nat : v = Stream[s + 1].val
        BY <4>1
      <4>3. End(s) = s + v + 4
        BY <4>1, <4>2
      <4>4. QED
        BY <4>1, <4>2, <4>3
    <3>2. Stream[s].frame = f
      BY <2>3, <3>1, FrameBytes
    <3>3. ~ (s < First)
      BY <2>3, <2>7
    <3>4. QED
      BY <3>1, <3>2, <3>3 DEF Taken
  <2>11. delivered[f] = 0
    <3>1. delivered[f] \in Nat /\ ~ (delivered[f] > 0)
      BY <1>1, <2>6, <2>10 DEF DeliveredInv, TypeOK
    <3>2. QED
      BY <3>1
  <2>12. PacketInv'
    <3> SUFFICES ASSUME NEW u \in Threads, tpc'[u] = "packet"
                 PROVE  \E g \in Frames : IsFrame(packet'[u], g) /\ Taken(g)' /\ delivered'[g] = 0
      BY DEF PacketInv
    <3>1. CASE u = t
      BY <1>2, <2>3, <2>5, <2>9, <2>11, <3>1
    <3>2. CASE u # t
      BY <1>2, <2>5, <2>6, <2>8, <3>2 DEF PacketInv
    <3>3. QED
      BY <3>1, <3>2
  <2>13. ASSUME NEW u \in Threads \ {t}, tpc[u] = "packet"
         PROVE  ~IsFrame(packet[u], f)
    <3>1. PICK g \in Frames : IsFrame(packet[u], g) /\ Taken(g)
      BY <2>6, <2>13 DEF PacketInv
    <3>2. packet[u] \in Seq(0 .. Len(Stream))
      BY <1>1 DEF TypeOK
    <3>3. g # f
      BY <2>10, <3>1
    <3>4. QED
      BY <3>1, <3>2, <3>3, OneFrame
  <2>14. OneEach'
    <3> SUFFICES ASSUME NEW u \in Threads, NEW v \in Threads, NEW g \in Frames,
                        tpc'[u] = "packet", IsFrame(packet'[u], g),
                        tpc'[v] = "packet", IsFrame(packet'[v], g)
                 PROVE  u = v
      BY DEF OneEach
    <3>1. CASE u = t /\ v # t
      <4>1. g = f
        BY <2>3, <2>5, <3>1, OneFrame
      <4>2. QED
        BY <2>5, <2>13, <3>1, <4>1
    <3>2. CASE v = t /\ u # t
      <4>1. g = f
        BY <2>3, <2>5, <3>2, OneFrame
      <4>2. QED
        BY <2>5, <2>13, <3>2, <4>1
    <3>3. CASE u # t /\ v # t
      BY <2>5, <2>6, <3>3 DEF OneEach
    <3>4. QED
      BY <3>1, <3>2, <3>3
  <2>15. DeliveredInv' /\ ~junk'
    BY <1>2, <2>6, <2>8 DEF DeliveredInv
  <2>16. QED
    BY <2>2, <2>12, <2>14, <2>15 DEF FramesInv
<1>6. QED
  BY <1>4, <1>5

(* A frame is handed on by the one that has it, and for the first time. *)
LEMMA DeliverFrames ==
  ASSUME IInv, FramesInv, NEW t \in Threads, Deliver(t), Clean'
  PROVE  FramesInv'
<1>1. TypeOK /\ delivered \in [Frames -> Nat]
  BY DEF IInv, TypeOK
<1>2. /\ UNCHANGED <<fetched, len, queue, overrun, slipped, cut>>
      /\ tpc[t] = "packet" /\ tpc' = [tpc EXCEPT ![t] = "check"]
      /\ packet' = [packet EXCEPT ![t] = << >>]
  BY DEF Deliver, line, buf, Go
<1>3. Clean
  BY <1>2 DEF Clean
<1>4. ~junk /\ OrderInv /\ Edge(First) /\ PacketInv /\ OneEach /\ DeliveredInv
  BY <1>3 DEF FramesInv
<1>5. PICK f \in Frames : IsFrame(packet[t], f) /\ Taken(f) /\ delivered[f] = 0
  BY <1>2, <1>4 DEF PacketInv
<1>6. packet[t] \in Seq(0 .. Len(Stream))
  BY <1>1 DEF TypeOK
<1>7. delivered' = [delivered EXCEPT ![f] = @ + 1] /\ UNCHANGED junk
  <2>1. PICK g \in Frames : /\ IsFrame(packet[t], g)
                            /\ delivered' = [delivered EXCEPT ![g] = @ + 1]
                            /\ UNCHANGED junk
    BY <1>5 DEF Deliver
  <2>2. g = f
    BY <1>5, <1>6, <2>1, OneFrame
  <2>3. QED
    BY <2>1, <2>2
<1>8. delivered'[f] = 1 /\ \A g \in Frames \ {f} : delivered'[g] = delivered[g]
  BY <1>1, <1>5, <1>7
<1>9. First' = First /\ \A g \in Frames : Taken(g)' <=> Taken(g)
  BY <1>2 DEF First, Taken
<1>10. tpc'[t] # "packet" /\ \A u \in Threads \ {t} : tpc'[u] = tpc[u] /\ packet'[u] = packet[u]
  BY <1>1, <1>2 DEF TypeOK
<1>11. OrderInv' /\ Edge(First') /\ ~junk'
  BY <1>2, <1>4, <1>7, <1>9 DEF OrderInv
<1>12. PacketInv'
  <2> SUFFICES ASSUME NEW u \in Threads, tpc'[u] = "packet"
               PROVE  \E g \in Frames : IsFrame(packet'[u], g) /\ Taken(g)' /\ delivered'[g] = 0
    BY DEF PacketInv
  <2>1. u # t /\ tpc[u] = "packet" /\ packet'[u] = packet[u]
    BY <1>10
  <2>2. PICK g \in Frames : IsFrame(packet[u], g) /\ Taken(g) /\ delivered[g] = 0
    BY <1>4, <2>1 DEF PacketInv
  <2>3. g # f
    BY <1>2, <1>4, <1>5, <2>1, <2>2 DEF OneEach
  <2>4. QED
    BY <1>8, <1>9, <2>1, <2>2, <2>3
<1>13. OneEach'
  BY <1>4, <1>10 DEF OneEach
<1>14. DeliveredInv'
  <2> SUFFICES ASSUME NEW g \in Frames
               PROVE  delivered'[g] <= 1 /\ (delivered'[g] > 0 => Taken(g)')
    BY DEF DeliveredInv
  <2>1. CASE g = f
    BY <1>5, <1>8, <1>9, <2>1
  <2>2. CASE g # f
    BY <1>4, <1>8, <1>9, <2>2 DEF DeliveredInv
  <2>3. QED
    BY <2>1, <2>2
<1>15. QED
  BY <1>11, <1>12, <1>13, <1>14 DEF FramesInv

(* At the start nothing was taken. *)
LEMMA InitFrames == Init => FramesInv
<1> SUFFICES ASSUME Init  PROVE FramesInv
  OBVIOUS
<1>1. len = 0 /\ fetched = 0 /\ ~junk /\ First = 1
  BY DEF Init, First
<1>2. OrderInv
  BY <1>1 DEF OrderInv
<1>3. Edge(1)
  <2> SUFFICES ASSUME 1 \in 1 .. Len(Stream), NEW f \in Frames, Stream[1].frame = f
               PROVE  Stream[1].pos = 0
    BY DEF Edge
  <2>1. PICK s \in 1 .. Len(Stream) : Begins(f, s)
    BY FrameBegins
  <2>2. s \in Nat /\ s >= 1 /\ s <= 1 /\ Stream[1].pos = 1 - s
    BY <2>1, FrameBytes, FrameNumbers
  <2>3. QED
    BY <2>2
<1>4. PacketInv /\ OneEach
  BY DEF Init, PacketInv, OneEach
<1>5. DeliveredInv
  BY DEF Init, DeliveredInv
<1>6. QED
  BY <1>1, <1>2, <1>3, <1>4, <1>5 DEF FramesInv

(* Every step keeps the frames whole and single. *)
LEMMA NextFrames == IInv /\ FramesInv /\ [Next]_vars => FramesInv'
<1> SUFFICES ASSUME IInv, FramesInv, [Next]_vars, Clean'  PROVE FramesInv'
  BY DEF FramesInv
<1>1. TypeOK
  BY DEF IInv
<1> DEFINE Still == UNCHANGED <<fetched, len, queue, packet, delivered, junk, overrun, slipped, cut>>
           NoneNew == \A t \in Threads : tpc'[t] = "packet" => tpc[t] = "packet"
<1>2. CASE Still /\ NoneNew
  BY <1>2, FramesKept DEF Clean
<1>3. CASE Arrive
  BY <1>2, <1>3 DEF Arrive, buf, out
<1>4. CASE Reset
  BY <1>4 DEF Reset, Clean
<1>5. ASSUME NEW h \in Hosts, Interrupt(h) \/ HandlerLock(h) \/ HandlerUnlock(h)  PROVE FramesInv'
  BY <1>2, <1>5 DEF Interrupt, HandlerLock, HandlerUnlock, buf, out, line
<1>6. ASSUME NEW h \in Hosts, Create(h)  PROVE FramesInv'
  <2>1. Still
    BY <1>6 DEF Create, buf, out, line
  <2>2. NoneNew
    BY <1>1, <1>6 DEF Create, TypeOK
  <2>3. QED
    BY <1>2, <2>1, <2>2
<1>7. ASSUME NEW t \in Threads, Check(t) \/ AssemblerLock(t)  PROVE FramesInv'
  <2>1. Still
    BY <1>7 DEF Check, AssemblerLock, buf, out, line
  <2>2. NoneNew
    BY <1>1, <1>7 DEF Check, AssemblerLock, Go, TypeOK
  <2>3. QED
    BY <1>2, <2>1, <2>2
<1>8. CASE UNCHANGED vars
  BY <1>2, <1>8 DEF vars
<1>9. QED
  BY <1>3, <1>4, <1>5, <1>6, <1>7, <1>8, ReadFrames, ScanFrames, DeliverFrames
  DEF Next, HandlerStep, AssemblerStep

(* MessageAssembler(): what is taken out of a ring that was not overrun,   *)
(* not searched with an old Offset and not reset is a frame that the       *)
(* coordinator sent, and none is handed on twice.                          *)
THEOREM FramesCorrect == Spec => []FramesOnce
<1>1. IInv /\ FramesInv => FramesOnce
  BY DEF FramesInv, FramesOnce, Clean, PacketInv, DeliveredInv
<1>2. QED
  BY InitInv, NextInv, InitFrames, NextFrames, <1>1, PTL DEF Spec
=============================================================================
