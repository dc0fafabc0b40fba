-------------------------- MODULE MtChannelProofs --------------------------
(***************************************************************************)
(* The MT channel's invariants, proved for any number of calls and         *)
(* commands, and its refinement of Exchange; and, for every image and      *)
(* every sequence of answers, late answers and silences of that channel,   *)
(* what flashing the coordinator through it guarantees (module Flash).     *)
(***************************************************************************)
EXTENDS MtChannel, Flash, FiniteSetTheorems, TLAPS

-----------------------------------------------------------------------------
(* The inductive invariant.  BaseInv holds in every behaviour, PromptInv   *)
(* as long as no response is late, and for the calls outside the crowd.    *)

Inside  == {c \in Calls : Live(c)}
Probing == {r \in Calls : mpc[r] = "probing"}

(* Two calls that have the subsystem at once are in the crowd, and a call  *)
(* that has not begun is not. *)
CrowdInv ==
  /\ \A c, d \in Calls : Live(c) /\ Live(d) /\ c # d => c \in crowd
  /\ \A c \in barged \cup crowd : pc[c] # "idle"

(* The mutex is held from the command to the wait, and while a receive     *)
(* thread copies.                                                          *)
MutexInv ==
  /\ \A c \in Calls : spc[c] = "sending" <=> mutex = <<"send", c>>
  /\ \A r \in Calls : mpc[r] \in {"copying", "copied"} <=> mutex = <<"recv", r>>

(* A call that has no send thread yet has sent no command. *)
Before == {"idle", "taken", "buffered", "requested", "expecting", "ready"}

SentInv ==
  \A c \in Calls : /\ pc[c] \in Before <=> spc[c] = "none"
                   /\ spc[c] \in {"none", "created"} <=> mpc[c] = "unsent"

BaseInv == TypeOK /\ TurnsCounted /\ CrowdInv /\ MutexInv /\ SentInv

(* A call that has returned has no response under way, and its send thread *)
(* has ended.                                                              *)
InTime ==
  \A c \in Calls : InFlight(c) \/ spc[c] \notin {"none", "ended"} => Live(c)

(* The channel's pointers name the call that has it to itself ... *)
Pointers ==
  \A c \in Calls \ crowd : Live(c) =>
    /\ pc[c] # "taken" => replyTo = c
    /\ pc[c] \notin {"taken", "buffered"} => request = c
    /\ pc[c] \notin {"taken", "buffered", "requested"} => expected = cmd[c]
    /\ pc[c] \notin {"taken", "buffered", "requested", "expecting"} => statusOf = c
    /\ pc[c] \in {"spawned", "joining"} => sendThread = c
    /\ pc[c] = "joining" => joins[c] = c

(* ... and the response that is being handled. *)
Handling ==
  \A r \in Calls \ crowd :
    /\ mpc[r] \in {"offered", "deliver", "copying", "copied"} => response = r
    /\ Receiving(r) => recvOf = r
    /\ r \notin away

(* What a call's frame holds at each stage of its response. *)
FrameInv ==
  \A c \in Calls \ crowd :
    /\ mpc[c] # "unsent" => asked[c] = c
    /\ rtn[c] => mpc[c] = "done"
    /\ mpc[c] = "copied" => got[c] = c
    /\ mpc[c] \notin {"copied", "done"} => got[c] = None
    /\ mpc[c] = "done" => got[c] = (IF rtn[c] THEN c ELSE None)

Unheard == \A c \in Calls \ crowd : spc[c] \in {"sending", "waiting"} => ~rtn[c]

Prompt == InTime /\ Pointers /\ Handling /\ FrameInv /\ Unheard

PromptInv == ~late => Prompt

-----------------------------------------------------------------------------
(* Nothing has happened: no call is live and no response is under way. *)
LEMMA InitInv == Init => BaseInv /\ PromptInv
  <1> SUFFICES ASSUME Init
               PROVE  BaseInv /\ PromptInv
    OBVIOUS
  <1> USE NoneAssumption DEF Init
  <1>1. TypeOK
    BY DEF TypeOK, CallStates, ThreadStates, MessageStates
  <1>2. CrowdInv /\ MutexInv /\ SentInv
    BY DEF CrowdInv, Live, MutexInv, SentInv, Before
  <1>3. PromptInv
    BY DEF PromptInv, Prompt, InTime, Pointers, Handling, FrameInv, Unheard,
           Live, InFlight, Handled, Receiving
  <1>4. TurnsCounted
    <2>1. {c \in Calls : Live(c)} = {} /\ {r \in Calls : mpc[r] = "probing"} = {}
      BY DEF Live
    <2> QED
      BY <2>1, FS_EmptySet DEF TurnsCounted
  <1> QED
    BY <1>1, <1>2, <1>3, <1>4 DEF BaseInv

(* What Written() gives, with a live target and with any target. *)
LEMMA WrittenType ==
  ASSUME NEW S, NEW f \in [Calls -> S], NEW t, NEW v \in S,
         NEW g \in Written(f, t, v)
  PROVE  g \in [Calls -> S]
  BY DEF Written

(* A write to a frame that exists changes that frame and no other. *)
LEMMA WrittenLive ==
  ASSUME NEW f, NEW t \in Calls, NEW v, Live(t), NEW g \in Written(f, t, v)
  PROVE  g = [f EXCEPT ![t] = v]
  BY DEF Written

(* No write changes a frame that does not exist. *)
LEMMA WrittenElse ==
  ASSUME NEW S, NEW f \in [Calls -> S], NEW t, NEW v \in S,
         NEW g \in Written(f, t, v), NEW d \in Calls, ~Live(d)
  PROVE  g[d] = f[d]
  BY DEF Written

(* Signal changes spc of a waiting thread at most. *)
LEMMA SignalLemma ==
  ASSUME TypeOK, Signal
  PROVE  /\ spc' \in [Calls -> ThreadStates]
         /\ \A c \in Calls : spc'[c] = spc[c]
                             \/ (spc[c] = "waiting" /\ spc'[c] = "signalled")
         /\ (\A c, d \in Calls : spc[c] = "waiting" /\ spc[d] = "waiting" => c = d)
              => \A c \in Calls : spc'[c] # "waiting"
  <1>1. CASE \A c \in Calls : spc[c] # "waiting"
    <2>1. spc' = spc
      BY <1>1 DEF Signal
    <2> QED
      BY <1>1, <2>1 DEF TypeOK
  <1>2. CASE \E c \in Calls : spc[c] = "waiting"
    <2>1. PICK c \in Calls : /\ spc[c] = "waiting"
                             /\ spc' = [spc EXCEPT ![c] = "signalled"]
      BY <1>2 DEF Signal
    <2>2. spc' \in [Calls -> ThreadStates]
      BY <2>1 DEF TypeOK, ThreadStates
    <2>3. \A d \in Calls : spc'[d] = IF d = c THEN "signalled" ELSE spc[d]
      BY <2>1 DEF TypeOK
    <2> QED
      BY <2>1, <2>2, <2>3
  <1> QED
    BY <1>1, <1>2

-----------------------------------------------------------------------------
(* Counting: one lemma for each way in and out of the subsystem. *)

(* The sets that are counted are finite. *)
LEMMA CountedFinite ==
  ASSUME BaseInv
  PROVE  /\ IsFiniteSet(Inside) /\ IsFiniteSet(Probing) /\ IsFiniteSet(barged)
         /\ Cardinality(Inside) \in Nat
         /\ Cardinality(Probing) \in Nat
         /\ Cardinality(barged) \in Nat
  <1>1. Inside \subseteq Calls /\ Probing \subseteq Calls /\ barged \subseteq Calls
    BY DEF Inside, Probing, BaseInv, TypeOK
  <1>2. IsFiniteSet(Inside) /\ IsFiniteSet(Probing) /\ IsFiniteSet(barged)
    BY <1>1, CallsAssumption, FS_Subset
  <1> QED
    BY <1>2, FS_CardinalityType

(* A step that lets nobody in or out. *)
LEMMA CountSame ==
  ASSUME BaseInv, sem' = sem, barged' = barged,
         \A c \in Calls : Live(c)' <=> Live(c),
         \A r \in Calls : mpc'[r] = "probing" <=> mpc[r] = "probing"
  PROVE  TurnsCounted'
  <1>1. Inside' = Inside /\ Probing' = Probing
    BY DEF Inside, Probing
  <1> QED
    BY <1>1 DEF BaseInv, TurnsCounted, Inside, Probing

(* sem_wait(), interrupted or not. *)
LEMMA CountEnter ==
  ASSUME BaseInv, NEW c \in Calls, Acquire(c) \/ Interrupted(c)
  PROVE  /\ TurnsCounted'
         /\ Inside # {} => barged' # {}
  <1>1. /\ pc[c] = "idle" /\ pc' = [pc EXCEPT ![c] = "taken"]
        /\ mpc' = mpc
    BY DEF Acquire, Interrupted, Enter, Go
  <1>2. /\ Probing' = Probing
        /\ Inside' = Inside \cup {c} /\ c \notin Inside
    BY <1>1 DEF Inside, Probing, Live, BaseInv, TypeOK
  <1>3. Cardinality(Inside') = Cardinality(Inside) + 1
    BY <1>2, CountedFinite, FS_AddElement
  <1>4. sem + Cardinality(Inside) + Cardinality(Probing) = 1 + Cardinality(barged)
    BY DEF BaseInv, TurnsCounted, Inside, Probing
  <1>5. sem \in Nat
    BY DEF BaseInv, TypeOK
  <1>6. CASE Acquire(c)
    <2>1. sem > 0 /\ sem' = sem - 1 /\ barged' = barged
      BY <1>6 DEF Acquire
    <2>2. sem' + Cardinality(Inside') + Cardinality(Probing') = 1 + Cardinality(barged')
      BY <2>1, <1>2, <1>3, <1>4, <1>5, CountedFinite
    <2>3. ASSUME Inside # {}
          PROVE  barged' # {}
      <3>1. Cardinality(Inside) # 0
        BY <2>3, CountedFinite, FS_EmptySet
      <3>2. Cardinality(barged) # 0
        BY <3>1, <2>1, <1>4, <1>5, CountedFinite
      <3> QED
        BY <3>2, <2>1, FS_EmptySet
    <2> QED
      BY <2>2, <2>3 DEF TurnsCounted, Inside, Probing
  <1>7. CASE Interrupted(c)
    <2>1. sem' = sem /\ barged' = barged \cup {c} /\ c \notin barged
      BY <1>1, <1>7 DEF Interrupted, BaseInv, CrowdInv
    <2>2. Cardinality(barged') = Cardinality(barged) + 1
      BY <2>1, CountedFinite, FS_AddElement
    <2>3. sem' + Cardinality(Inside') + Cardinality(Probing') = 1 + Cardinality(barged')
      BY <2>1, <2>2, <1>2, <1>3, <1>4, <1>5, CountedFinite
    <2> QED
      BY <2>1, <2>3 DEF TurnsCounted, Inside, Probing
  <1> QED
    BY <1>6, <1>7

(* sem_post() of mtSend(). *)
LEMMA CountRelease ==
  ASSUME BaseInv, NEW c \in Calls, Release(c)
  PROVE  TurnsCounted'
  <1>1. /\ pc[c] = "joining" /\ pc' = [pc EXCEPT ![c] = "done"]
        /\ UNCHANGED <<mpc, barged>> /\ sem' = sem + 1
    BY DEF Release, Go
  <1>2. /\ Probing' = Probing
        /\ Inside' = Inside \ {c} /\ c \in Inside
    BY <1>1 DEF Inside, Probing, Live, BaseInv, TypeOK
  <1>3. Cardinality(Inside') = Cardinality(Inside) - 1
    BY <1>2, CountedFinite, FS_RemoveElement
  <1>4. sem + Cardinality(Inside) + Cardinality(Probing) = 1 + Cardinality(barged)
    BY DEF BaseInv, TurnsCounted, Inside, Probing
  <1>5. sem' + Cardinality(Inside') + Cardinality(Probing') = 1 + Cardinality(barged')
    BY <1>1, <1>2, <1>3, <1>4, CountedFinite DEF BaseInv, TypeOK
  <1> QED
    BY <1>5 DEF TurnsCounted, Inside, Probing

(* sem_trywait() and sem_post() of mtRecv(). *)
LEMMA CountProbe ==
  ASSUME BaseInv, NEW r \in Calls, TryWait(r) \/ Refuse(r)
  PROVE  TurnsCounted'
  <1>1. /\ pc' = pc /\ barged' = barged
        /\ Inside' = Inside
    BY DEF TryWait, Refuse, history, Inside, Live
  <1>2. sem + Cardinality(Inside) + Cardinality(Probing) = 1 + Cardinality(barged)
    BY DEF BaseInv, TurnsCounted, Inside, Probing
  <1>3. CASE mpc[r] = "offered" /\ mpc' = [mpc EXCEPT ![r] = "probing"]
             /\ sem > 0 /\ sem' = sem - 1
    <2>1. Probing' = Probing \cup {r} /\ r \notin Probing
      BY <1>3 DEF Probing, BaseInv, TypeOK
    <2>2. Cardinality(Probing') = Cardinality(Probing) + 1
      BY <2>1, CountedFinite, FS_AddElement
    <2>3. sem' + Cardinality(Inside') + Cardinality(Probing') = 1 + Cardinality(barged')
      BY <1>1, <1>2, <1>3, <2>2, CountedFinite DEF BaseInv, TypeOK
    <2> QED
      BY <2>3 DEF TurnsCounted, Inside, Probing
  <1>4. CASE mpc[r] = "offered" /\ mpc' = [mpc EXCEPT ![r] = "deliver"] /\ sem' = sem
    BY <1>1, <1>4, CountSame DEF Live, BaseInv, TypeOK
  <1>5. CASE mpc[r] = "probing" /\ mpc' = [mpc EXCEPT ![r] = "done"] /\ sem' = sem + 1
    <2>1. Probing' = Probing \ {r} /\ r \in Probing
      BY <1>5 DEF Probing, BaseInv, TypeOK
    <2>2. Cardinality(Probing') = Cardinality(Probing) - 1
      BY <2>1, CountedFinite, FS_RemoveElement
    <2>3. sem' + Cardinality(Inside') + Cardinality(Probing') = 1 + Cardinality(barged')
      BY <1>1, <1>2, <1>5, <2>2, CountedFinite DEF BaseInv, TypeOK
    <2> QED
      BY <2>3 DEF TurnsCounted, Inside, Probing
  <1> QED
    BY <1>3, <1>4, <1>5 DEF TryWait, Refuse, Move

-----------------------------------------------------------------------------
(* BaseInv: one step per action. *)

(* mtSend() and its send thread keep the types and the mutex. *)
LEMMA SendBase ==
  ASSUME BaseInv, NEW c \in Calls,
         Acquire(c) \/ Interrupted(c) \/ SendStep(c) \/ ThreadStep(c)
  PROVE  TypeOK' /\ CrowdInv' /\ MutexInv' /\ SentInv'
  <1> USE NoneAssumption DEF BaseInv, TypeOK, CallStates, ThreadStates,
          MessageStates, channel, calls, history, Go, Run, Live, CrowdInv,
          MutexInv, SentInv, Before
  <1>1. CASE Acquire(c) \/ Interrupted(c)
    <2>1. /\ pc[c] = "idle" /\ pc' = [pc EXCEPT ![c] = "taken"]
          /\ UNCHANGED <<up, mutex, replyTo, request, expected, statusOf,
                         sendThread, response, recvOf, spc, joins, asked, rtn,
                         got, mpc, away, late>>
          /\ crowd' = IF {d \in Calls : Live(d)} = {} THEN crowd
                      ELSE crowd \cup {d \in Calls : Live(d)} \cup {c}
          /\ \E k \in Cmds : cmd' = [cmd EXCEPT ![c] = k]
      BY <1>1 DEF Acquire, Interrupted, Enter
    <2>2. sem' \in Nat /\ barged' \in {barged, barged \cup {c}}
      BY <1>1 DEF Acquire, Interrupted
    <2>3. TypeOK'
      BY <2>1, <2>2
    <2>4. MutexInv' /\ SentInv'
      BY <2>1
    <2>5. CrowdInv'
      BY <2>1, <2>2
    <2> QED
      BY <2>3, <2>4, <2>5
  <1>2. CASE SetBuffer(c)
    BY <1>2 DEF SetBuffer
  <1>3. CASE SetRequest(c)
    BY <1>3 DEF SetRequest
  <1>4. CASE SetExpected(c)
    BY <1>4 DEF SetExpected
  <1>5. CASE SetStatus(c)
    BY <1>5 DEF SetStatus
  <1>6. CASE Spawn(c)
    BY <1>6 DEF Spawn
  <1>7. CASE Join(c)
    BY <1>7 DEF Join
  <1>8. CASE Release(c)
    BY <1>8 DEF Release
  <1>9. CASE Transmit(c)
    <2>1. PICK d \in RequestOf(request) :
            /\ asked' = [asked EXCEPT ![c] = d]
            /\ mpc' = [mpc EXCEPT ![c] = IF d = None THEN "done" ELSE "air"]
      BY <1>9 DEF Transmit, Sent
    <2>2. d \in Calls \cup {None}
      BY DEF RequestOf
    <2>3. /\ mutex = None /\ mutex' = <<"send", c>>
          /\ spc[c] = "created" /\ spc' = [spc EXCEPT ![c] = "sending"]
          /\ UNCHANGED <<up, sem, replyTo, request, expected, statusOf, sendThread,
                         response, recvOf, pc, joins, cmd, rtn, got, away, late,
                         barged, crowd>>
      BY <1>9 DEF Transmit, Sent
    <2>4. mpc' = [mpc EXCEPT ![c] = "done"] \/ mpc' = [mpc EXCEPT ![c] = "air"]
      BY <2>1
    <2>5. mpc' \in [Calls -> MessageStates] /\ asked' \in [Calls -> Calls \cup {None}]
      BY <2>1, <2>2, <2>4
    <2>6. TypeOK'
      BY <2>3, <2>5
    <2>7. MutexInv'
      BY <2>3, <2>4
    <2>8. CrowdInv' /\ SentInv'
      BY <2>3, <2>4
    <2> QED
      BY <2>6, <2>7, <2>8
  <1>10. CASE Wait(c)
    BY <1>10 DEF Wait
  <1>11. CASE WaitEnds(c)
    BY <1>11 DEF WaitEnds
  <1>12. CASE Resume(c)
    BY <1>12 DEF Resume
  <1> QED
    BY <1>1, <1>2, <1>3, <1>4, <1>5, <1>6, <1>7, <1>8, <1>9, <1>10, <1>11, <1>12
       DEF SendStep, ThreadStep

(* ... and the count of those inside. *)
LEMMA SendCount ==
  ASSUME BaseInv, NEW c \in Calls,
         Acquire(c) \/ Interrupted(c) \/ SendStep(c) \/ ThreadStep(c)
  PROVE  TurnsCounted'
  <1>1. CASE Acquire(c) \/ Interrupted(c)
    BY <1>1, CountEnter
  <1>2. CASE Release(c)
    BY <1>2, CountRelease
  <1>3. CASE \/ SetBuffer(c) \/ SetRequest(c) \/ SetExpected(c) \/ SetStatus(c)
             \/ Spawn(c) \/ Join(c)
    <2>1. /\ UNCHANGED <<sem, barged, mpc>>
          /\ pc[c] \notin {"idle", "done"}
          /\ \E s \in CallStates \ {"idle", "done"} : pc' = [pc EXCEPT ![c] = s]
      BY <1>3 DEF SetBuffer, SetRequest, SetExpected, SetStatus, Spawn, Join, Go,
                  CallStates, history
    <2>2. \A d \in Calls : Live(d)' <=> Live(d)
      BY <2>1 DEF Live, BaseInv, TypeOK
    <2> QED
      BY <2>1, <2>2, CountSame
  <1>4. CASE ThreadStep(c)
    <2>1. UNCHANGED <<sem, barged, pc>>
      BY <1>4 DEF ThreadStep, Transmit, Sent, Wait, WaitEnds, Resume, history
    <2>2. \A r \in Calls : mpc'[r] = "probing" <=> mpc[r] = "probing"
      <3>1. CASE Transmit(c)
        <4>1. mpc[c] = "unsent"
          BY <3>1 DEF Transmit, Run, BaseInv, SentInv
        <4>2. mpc' = [mpc EXCEPT ![c] = "done"] \/ mpc' = [mpc EXCEPT ![c] = "air"]
          BY <3>1 DEF Transmit, Sent
        <4> QED
          BY <4>1, <4>2 DEF BaseInv, TypeOK
      <3>2. CASE ~Transmit(c)
        BY <1>4, <3>2 DEF ThreadStep, Wait, WaitEnds, Resume, BaseInv, TypeOK
      <3> QED
        BY <3>1, <3>2
    <2> QED
      BY <2>1, <2>2, CountSame DEF Live
  <1> QED
    BY <1>1, <1>2, <1>3, <1>4 DEF SendStep

(* mtRecv() and its receive thread keep the types and the mutex. *)
RecvAny(r) == Lose(r) \/ Match(r) \/ RecvStep(r) \/ Desert(r)

LEMMA RecvBase ==
  ASSUME BaseInv, NEW r \in Calls, RecvAny(r)
  PROVE  TypeOK' /\ CrowdInv' /\ MutexInv' /\ SentInv'
  <1> USE NoneAssumption DEF BaseInv, TypeOK, CallStates, ThreadStates,
          MessageStates, channel, calls, history, Move, Live, CrowdInv,
          MutexInv, SentInv, Before
  <1>1. CASE Lose(r)
    BY <1>1 DEF Lose
  <1>2. CASE Match(r)
    BY <1>2 DEF Match
  <1>3. CASE Offer(r)
    BY <1>3 DEF Offer
  <1>4. CASE TryWait(r)
    BY <1>4 DEF TryWait
  <1>5. CASE Refuse(r)
    BY <1>5 DEF Refuse
  <1>6. CASE RecvLock(r)
    BY <1>6 DEF RecvLock
  <1>7. CASE Copy(r)
    <2>1. PICK msg \in Calls \cup {None} : got' \in Written(got, replyTo, msg)
      BY <1>7 DEF Copy, Kept
    <2>2. got' \in [Calls -> Calls \cup {None}]
      BY <2>1, WrittenType
    <2>3. /\ UNCHANGED <<up, sem, mutex, replyTo, request, expected, statusOf,
                         sendThread, response, recvOf, pc, spc, joins, asked,
                         cmd, rtn, away, late, barged, crowd>>
          /\ mpc[r] = "copying"
          /\ mpc' = [mpc EXCEPT ![r] = "copied"]
      BY <1>7 DEF Copy
    <2>4. TypeOK'
      BY <2>2, <2>3
    <2>5. CrowdInv' /\ MutexInv' /\ SentInv'
      BY <2>3
    <2> QED
      BY <2>4, <2>5
  <1>8. CASE WriteStatus(r)
    <2>1. rtn' \in [Calls -> BOOLEAN]
      BY <1>8, WrittenType DEF WriteStatus
    <2>2. Signal /\ TypeOK
      BY <1>8 DEF WriteStatus
    <2>3. /\ spc' \in [Calls -> ThreadStates]
          /\ \A c \in Calls : spc'[c] = spc[c]
                              \/ (spc[c] = "waiting" /\ spc'[c] = "signalled")
      BY ONLY <2>2, SignalLemma
    <2>4. /\ UNCHANGED <<up, sem, replyTo, request, expected, statusOf, sendThread,
                         response, recvOf, pc, joins, asked, cmd, got, away,
                         late, barged, crowd>>
          /\ mpc[r] = "copied"
          /\ mpc' = [mpc EXCEPT ![r] = "done"]
          /\ mutex' = None
      BY <1>8 DEF WriteStatus
    <2>5. TypeOK'
      BY <2>1, <2>3, <2>4
    <2>6. CrowdInv' /\ SentInv'
      BY <2>3, <2>4
    <2>7. MutexInv'
      BY <2>3, <2>4
    <2> QED
      BY <2>5, <2>6, <2>7
  <1>9. CASE Desert(r)
    BY <1>9 DEF Desert
  <1> QED
    BY <1>1, <1>2, <1>3, <1>4, <1>5, <1>6, <1>7, <1>8, <1>9 DEF RecvAny, RecvStep

(* ... and the count of those inside. *)
LEMMA RecvCount ==
  ASSUME BaseInv, NEW r \in Calls, RecvAny(r)
  PROVE  TurnsCounted'
  <1>1. CASE TryWait(r) \/ Refuse(r)
    BY <1>1, CountProbe
  <1>2. CASE ~(TryWait(r) \/ Refuse(r))
    <2>1. UNCHANGED <<sem, barged, pc>>
      BY <1>2 DEF RecvAny, RecvStep, Lose, Match, Offer, RecvLock, Copy,
                  WriteStatus, Desert, history
    <2>2. \A q \in Calls : mpc'[q] = "probing" <=> mpc[q] = "probing"
      BY <1>2 DEF RecvAny, RecvStep, Lose, Match, Offer, RecvLock, Copy,
                  WriteStatus, Desert, Move, BaseInv, TypeOK
    <2> QED
      BY <2>1, <2>2, CountSame DEF Live
  <1> QED
    BY <1>1, <1>2

(* The steps of one call and its response. *)
CallAny(c) ==
  Acquire(c) \/ Interrupted(c) \/ SendStep(c) \/ ThreadStep(c) \/ RecvAny(c)

(* Every step keeps the first half, late responses or not. *)
LEMMA BaseStep == BaseInv /\ [Next]_vars => BaseInv'
  <1> SUFFICES ASSUME BaseInv, [Next]_vars
               PROVE  BaseInv'
    OBVIOUS
  <1>1. ASSUME NEW c \in Calls, CallAny(c)
        PROVE  BaseInv'
    BY <1>1, SendBase, SendCount, RecvBase, RecvCount DEF BaseInv, CallAny
  <1>2. CASE Crash \/ UNCHANGED vars
    <2>1. /\ up' \in BOOLEAN
          /\ UNCHANGED <<sem, mutex, channel, response, recvOf, pc, spc, calls,
                         mpc, away, history>>
      BY <1>2 DEF Crash, vars, channel, calls, history, BaseInv, TypeOK
    <2>2. TypeOK' /\ CrowdInv' /\ MutexInv' /\ SentInv'
      BY <2>1 DEF BaseInv, TypeOK, CrowdInv, Live, MutexInv, SentInv, channel,
                  calls, history
    <2>3. TurnsCounted'
      BY <2>1, CountSame DEF Live, history
    <2> QED
      BY <2>2, <2>3 DEF BaseInv
  <1> QED
    BY <1>1, <1>2 DEF Next, CallAny, RecvAny

(* Types, the count and the mutex, whatever is late. *)
THEOREM BaseInvariant == Spec => []BaseInv
  <1> QED
    BY InitInv, BaseStep, PTL DEF Spec

(* mtSend() and mtRecv() keep every variable's type, whoever comes in by   *)
(* an interrupted sem_wait().                                              *)
THEOREM TypeCorrect == Spec => []TypeOK
  <1>1. BaseInv => TypeOK
    BY DEF BaseInv
  <1> QED
    BY <1>1, BaseInvariant, PTL

(* The semaphore and the calls of mtSend() and the mtRecv()s past it are   *)
(* always one more than the sem_wait()s that a signal interrupted.         *)
THEOREM TurnsCorrect == Spec => []TurnsCounted
  <1>1. BaseInv => TurnsCounted
    BY DEF BaseInv
  <1> QED
    BY <1>1, BaseInvariant, PTL

-----------------------------------------------------------------------------
(* PromptInv: one step per action. *)

Running(c) == spc[c] \notin {"none", "ended"}

(* Where somebody is at work, no call but his has the subsystem to itself. *)
LEMMA Others ==
  ASSUME BaseInv, Prompt, NEW r \in Calls, Live(r) \/ InFlight(r) \/ Running(r)
  PROVE  /\ Live(r)
         /\ \A c \in Calls \ crowd : c # r => ~Live(c) /\ ~InFlight(c) /\ ~Running(c)
  <1>1. Live(r)
    BY DEF Prompt, InTime, Running
  <1>2. ASSUME NEW c \in Calls \ crowd, c # r
        PROVE  ~Live(c)
    BY <1>1, <1>2 DEF BaseInv, CrowdInv
  <1> QED
    BY <1>1, <1>2 DEF Prompt, InTime, Running

(* A call that comes in meets nobody, or is in the crowd. *)
LEMMA EnterPrompt ==
  ASSUME BaseInv, Prompt, NEW c \in Calls, Acquire(c) \/ Interrupted(c)
  PROVE  Prompt'
  <1>1. /\ pc[c] = "idle" /\ pc' = [pc EXCEPT ![c] = "taken"]
        /\ UNCHANGED <<channel, response, recvOf, spc, joins, asked, rtn, got,
                       mpc, away>>
        /\ crowd \subseteq crowd'
        /\ \E k \in Cmds : cmd' = [cmd EXCEPT ![c] = k]
    BY DEF Acquire, Interrupted, Enter, Go
  <1>2. \A d \in Calls : Live(d)' <=> Live(d) \/ d = c
    BY <1>1 DEF Live, BaseInv, TypeOK
  <1>3. \A d \in Calls \ crowd' : Live(d) => FALSE
    <2>1. crowd' = IF {d \in Calls : Live(d)} = {} THEN crowd
                   ELSE crowd \cup {d \in Calls : Live(d)} \cup {c}
      BY DEF Acquire, Interrupted, Enter
    <2> QED
      BY <2>1
  <1>4. InTime'
    BY <1>1, <1>2 DEF Prompt, InTime, InFlight, Handled, Receiving
  <1>5. Pointers'
    BY <1>1, <1>2, <1>3 DEF Pointers, BaseInv, TypeOK
  <1>6. Handling' /\ FrameInv' /\ Unheard'
    BY <1>1 DEF Prompt, Handling, FrameInv, Unheard, Receiving
  <1> QED
    BY <1>4, <1>5, <1>6 DEF Prompt

(* The fields that mtSend() writes are its own when nobody is beside it. *)
LEMMA SetPrompt ==
  ASSUME BaseInv, Prompt, NEW c \in Calls,
         \/ SetBuffer(c) \/ SetRequest(c) \/ SetExpected(c) \/ SetStatus(c)
         \/ Spawn(c) \/ Join(c)
  PROVE  Prompt'
  <1>1. Live(c)
    BY DEF SetBuffer, SetRequest, SetExpected, SetStatus, Spawn, Join, Go, Live
  <1>2. \A d \in Calls \ crowd : d # c => ~Live(d)
    BY <1>1, Others
  <1>3. /\ UNCHANGED <<response, recvOf, asked, cmd, rtn, got, mpc, away, crowd>>
        /\ \E s \in CallStates \ {"idle", "done"} : pc' = [pc EXCEPT ![c] = s]
    BY DEF SetBuffer, SetRequest, SetExpected, SetStatus, Spawn, Join, Go, calls,
           history, CallStates
  <1>4. \A d \in Calls : Live(d)' <=> Live(d)
    BY <1>1, <1>3 DEF Live, BaseInv, TypeOK
  <1>5. spc' = spc \/ (spc[c] = "none" /\ spc' = [spc EXCEPT ![c] = "created"])
    BY DEF SetBuffer, SetRequest, SetExpected, SetStatus, Spawn, Join, Go,
           BaseInv, SentInv, Before
  <1>6. InTime'
    BY <1>1, <1>3, <1>4, <1>5 DEF Prompt, InTime, InFlight, Handled, Receiving,
                                  BaseInv, TypeOK
  <1>7. Handling' /\ FrameInv'
    BY <1>3 DEF Prompt, Handling, FrameInv, Receiving
  <1>8. Unheard'
    BY <1>3, <1>5 DEF Prompt, Unheard, BaseInv, TypeOK
  <1>9. Pointers'
    <2>1. SUFFICES ASSUME c \notin crowd
                   PROVE  Pointers'
      BY <1>2, <1>3, <1>4 DEF Pointers
    <2> USE DEF Go, calls, history, BaseInv, TypeOK, Prompt, Pointers
    <2>2. CASE SetBuffer(c)
      BY <1>2, <1>4, <2>2 DEF SetBuffer
    <2>3. CASE SetRequest(c)
      BY <1>1, <1>2, <1>4, <2>3 DEF SetRequest
    <2>4. CASE SetExpected(c)
      BY <1>1, <1>2, <1>4, <2>4 DEF SetExpected
    <2>5. CASE SetStatus(c)
      BY <1>1, <1>2, <1>4, <2>5 DEF SetStatus
    <2>6. CASE Spawn(c)
      BY <1>1, <1>2, <1>4, <2>6 DEF Spawn
    <2>7. CASE Join(c)
      BY <1>1, <1>2, <1>4, <2>7 DEF Join, channel
    <2> QED
      BY <2>2, <2>3, <2>4, <2>5, <2>6, <2>7
  <1> QED
    BY <1>6, <1>7, <1>8, <1>9 DEF Prompt

(* A call that does not return early leaves nothing behind. *)
LEMMA ReleasePrompt ==
  ASSUME BaseInv, Prompt, NEW c \in Calls, Release(c), ~late'
  PROVE  Prompt'
  <1>1. /\ pc[c] = "joining" /\ pc' = [pc EXCEPT ![c] = "done"]
        /\ UNCHANGED <<channel, response, recvOf, spc, calls, mpc, away, crowd>>
        /\ spc[c] = "ended" /\ ~InFlight(c)
    BY DEF Release, Go
  <1>2. \A r \in Calls : Live(r)' <=> Live(r) /\ r # c
    BY <1>1 DEF Live, BaseInv, TypeOK
  <1>3. InTime'
    BY <1>1, <1>2 DEF Prompt, InTime, InFlight, Handled, Receiving
  <1>4. Pointers'
    BY <1>1, <1>2 DEF Prompt, Pointers, channel, calls, BaseInv, TypeOK
  <1>5. Handling' /\ FrameInv' /\ Unheard'
    BY <1>1 DEF Prompt, Handling, FrameInv, Unheard, Receiving, calls
  <1> QED
    BY <1>3, <1>4, <1>5 DEF Prompt

(* A send thread sends the command of its own call, unless that is crowded. *)
LEMMA TransmitPrompt ==
  ASSUME BaseInv, Prompt, NEW c \in Calls, Transmit(c)
  PROVE  Prompt'
  <1> USE NoneAssumption
  <1>1. PICK d \in RequestOf(request) :
          /\ asked' = [asked EXCEPT ![c] = d]
          /\ mpc' = [mpc EXCEPT ![c] = IF d = None THEN "done" ELSE "air"]
    BY DEF Transmit, Sent
  <1>2. /\ spc[c] = "created" /\ spc' = [spc EXCEPT ![c] = "sending"]
        /\ mpc[c] = "unsent"
        /\ UNCHANGED <<channel, response, recvOf, pc, joins, cmd, rtn, got, away,
                       crowd>>
    BY DEF Transmit, Sent, Run, history, BaseInv, SentInv
  <1>3. Live(c) /\ pc[c] \in {"spawned", "joining"}
    <2>1. Live(c)
      BY <1>2, Others DEF Running
    <2> QED
      BY <1>2, <2>1 DEF BaseInv, SentInv, TypeOK, CallStates, Before, Live
  <1>4. c \notin crowd => d = c
    BY <1>3 DEF Prompt, Pointers, RequestOf
  <1>5. InTime'
    BY <1>1, <1>2, <1>3 DEF Prompt, InTime, InFlight, Handled, Receiving, Live,
                            BaseInv, TypeOK
  <1>6. Pointers'
    BY <1>2 DEF Prompt, Pointers, Live, channel
  <1>7. Handling'
    BY <1>1, <1>2 DEF Prompt, Handling, Receiving, BaseInv, TypeOK
  <1>8. FrameInv'
    BY <1>1, <1>2, <1>4 DEF Prompt, FrameInv, BaseInv, TypeOK
  <1>9. Unheard'
    BY <1>2 DEF Prompt, Unheard, FrameInv, BaseInv, TypeOK
  <1> QED
    BY <1>5, <1>6, <1>7, <1>8, <1>9 DEF Prompt

(* The send thread waits and ends. *)
LEMMA ThreadPrompt ==
  ASSUME BaseInv, Prompt, NEW c \in Calls, Wait(c) \/ WaitEnds(c) \/ Resume(c)
  PROVE  Prompt'
  <1> USE DEF BaseInv, TypeOK, channel, calls, history, Run, Live, Prompt, InTime,
          Pointers, Handling, FrameInv, Unheard, InFlight, Handled, Receiving
  <1>1. CASE Wait(c)
    BY <1>1 DEF Wait
  <1>2. CASE WaitEnds(c)
    BY <1>2 DEF WaitEnds
  <1>3. CASE Resume(c)
    BY <1>3 DEF Resume
  <1> QED
    BY <1>1, <1>2, <1>3

(* mtSend() and its send thread keep the second half. *)
LEMMA SendPrompt ==
  ASSUME BaseInv, Prompt, NEW c \in Calls, ~late',
         Acquire(c) \/ Interrupted(c) \/ SendStep(c) \/ ThreadStep(c)
  PROVE  Prompt'
  BY EnterPrompt, SetPrompt, ReleasePrompt, TransmitPrompt, ThreadPrompt
     DEF SendStep, ThreadStep

(* memcpy() fills the buffer of the call whose response is handled, or of  *)
(* one in the crowd.                                                       *)
LEMMA CopyExact ==
  ASSUME BaseInv, Prompt, NEW r \in Calls, Copy(r)
  PROVE  /\ r \notin crowd => got' = [got EXCEPT ![r] = r]
         /\ \A c \in Calls \ crowd : c # r => got'[c] = got[c]
  <1>1. mpc[r] = "copying" /\ Handled(r)
    BY DEF Copy, Move, Handled, Receiving
  <1>2. Live(r) /\ pc[r] \notin Before
    BY <1>1, Others DEF InFlight, BaseInv, SentInv
  <1>3. PICK msg \in Calls \cup {None} : got' \in Written(got, replyTo, msg)
    BY DEF Copy, Kept
  <1>4. ASSUME NEW c \in Calls \ crowd, c # r
        PROVE  got'[c] = got[c]
    <2>1. ~Live(c)
      BY <1>2, <1>4, Others
    <2>2. got \in [Calls -> Calls \cup {None}] /\ c \in Calls
      BY DEF BaseInv, TypeOK
    <2>3. ASSUME NEW d \in Calls, Live(d), got' = [got EXCEPT ![d] = msg]
          PROVE  got'[c] = got[c]
      BY ONLY <2>1, <2>2, <2>3
    <2>4. \/ got' = got
          \/ \E d \in Calls : Live(d) /\ got' = [got EXCEPT ![d] = msg]
      BY <1>3 DEF Written
    <2> QED
      BY ONLY <2>3, <2>4
  <1>5. ASSUME r \notin crowd
        PROVE  got' = [got EXCEPT ![r] = r]
    <2>1. response = r /\ replyTo = r /\ Kept(response)
      BY <1>1, <1>2, <1>5 DEF Prompt, Handling, Pointers, Before, Kept, Receiving
    <2>2. got' \in Written(got, r, r)
      BY <2>1 DEF Copy
    <2> QED
      BY <1>2, <2>2, WrittenLive
  <1> QED
    BY <1>4, <1>5

(* The status written is that of the call whose response was handled, or   *)
(* of one in the crowd.                                                    *)
LEMMA WriteStatusExact ==
  ASSUME BaseInv, Prompt, NEW r \in Calls, WriteStatus(r)
  PROVE  /\ r \notin crowd => rtn' = [rtn EXCEPT ![r] = TRUE]
         /\ \A c \in Calls \ crowd : c # r => rtn'[c] = rtn[c]
  <1>1. mpc[r] = "copied" /\ Handled(r)
    BY DEF WriteStatus, Move, Handled, Receiving
  <1>2. Live(r) /\ pc[r] \notin Before
    BY <1>1, Others DEF InFlight, BaseInv, SentInv
  <1>3. rtn' \in Written(rtn, statusOf, TRUE)
    BY DEF WriteStatus
  <1>4. ASSUME NEW c \in Calls \ crowd, c # r
        PROVE  rtn'[c] = rtn[c]
    <2>1. ~Live(c)
      BY <1>2, <1>4, Others
    <2>2. rtn \in [Calls -> BOOLEAN] /\ c \in Calls
      BY DEF BaseInv, TypeOK
    <2>3. ASSUME NEW d \in Calls, Live(d), rtn' = [rtn EXCEPT ![d] = TRUE]
          PROVE  rtn'[c] = rtn[c]
      BY ONLY <2>1, <2>2, <2>3
    <2>4. \/ rtn' = rtn
          \/ \E d \in Calls : Live(d) /\ rtn' = [rtn EXCEPT ![d] = TRUE]
      BY <1>3 DEF Written
    <2> QED
      BY ONLY <2>3, <2>4
  <1>5. ASSUME r \notin crowd
        PROVE  rtn' = [rtn EXCEPT ![r] = TRUE]
    <2>1. statusOf = r
      BY <1>2, <1>5 DEF Prompt, Pointers, Before
    <2> QED
      BY <1>2, <1>3, <2>1, WrittenLive
  <1> QED
    BY <1>4, <1>5

(* mtRecv() keeps the second half: it writes to the right frames. *)
LEMMA RecvPrompt ==
  ASSUME BaseInv, Prompt, NEW r \in Calls, RecvAny(r)
  PROVE  Prompt'
  <1> USE DEF BaseInv, TypeOK, channel, calls, history, Move, Live, Prompt, InTime,
          Pointers, Handling, FrameInv, Unheard, InFlight, Handled, Receiving
  <1>1. CASE Lose(r)
    BY <1>1 DEF Lose
  <1>2. CASE Match(r)
    BY <1>2 DEF Match
  <1>3. CASE Offer(r)
    <2>1. \A c \in Calls \ crowd : c # r => ~InFlight(c)
      BY <1>3, Others DEF Offer
    <2> QED
      BY <1>3, <2>1 DEF Offer
  <1>4. CASE TryWait(r)
    <2>1. \A c \in Calls \ crowd : c # r => ~InFlight(c)
      BY <1>4, Others DEF TryWait
    <2>2. /\ UNCHANGED <<replyTo, request, expected, statusOf, sendThread, response,
                         pc, spc, joins, asked, cmd, rtn, got, away, crowd>>
          /\ mpc[r] = "offered"
          /\ \/ mpc' = [mpc EXCEPT ![r] = "probing"] /\ recvOf' = recvOf
             \/ mpc' = [mpc EXCEPT ![r] = "deliver"] /\ recvOf' = r
      BY <1>4 DEF TryWait
    <2>3. InTime' /\ Pointers' /\ Unheard'
      BY <2>2
    <2>4. FrameInv'
      BY <2>2
    <2>5. Handling'
      <3> SUFFICES ASSUME NEW c \in Calls \ crowd
                   PROVE  /\ mpc'[c] \in {"offered", "deliver", "copying", "copied"}
                               => response = c
                          /\ mpc'[c] \in {"deliver", "copying", "copied"}
                               => recvOf' = c
        BY <2>2
      <3>1. CASE c # r
        <4>1. mpc'[c] = mpc[c] /\ ~InFlight(c)
          BY <2>1, <2>2, <3>1
        <4> QED
          BY <4>1
      <3>2. CASE c = r
        BY <2>2, <3>2
      <3> QED
        BY <3>1, <3>2
    <2> QED
      BY <2>3, <2>4, <2>5
  <1>5. CASE Refuse(r)
    BY <1>5 DEF Refuse
  <1>6. CASE RecvLock(r)
    BY <1>6 DEF RecvLock
  <1>7. CASE Copy(r)
    <2>1. /\ UNCHANGED <<replyTo, request, expected, statusOf, sendThread, response,
                         recvOf, pc, spc, joins, asked, cmd, rtn, away, crowd>>
          /\ mpc[r] = "copying"
          /\ mpc' = [mpc EXCEPT ![r] = "copied"]
      BY <1>7 DEF Copy
    <2>2. InTime' /\ Pointers' /\ Handling' /\ Unheard'
      BY <2>1
    <2>3. FrameInv'
      BY <1>7, <2>1, CopyExact
    <2> QED
      BY <2>2, <2>3
  <1>8. CASE WriteStatus(r)
    <2>1. /\ UNCHANGED <<replyTo, request, expected, statusOf, sendThread, response,
                         recvOf, pc, joins, asked, cmd, got, away, crowd>>
          /\ mpc[r] = "copied"
          /\ mpc' = [mpc EXCEPT ![r] = "done"]
      BY <1>8 DEF WriteStatus
    <2>2. Signal /\ TypeOK
      BY <1>8 DEF WriteStatus
    <2>3. /\ spc' \in [Calls -> ThreadStates]
          /\ \A c \in Calls : spc'[c] = spc[c]
                              \/ (spc[c] = "waiting" /\ spc'[c] = "signalled")
          /\ (\A c, d \in Calls : spc[c] = "waiting" /\ spc[d] = "waiting" => c = d)
               => \A c \in Calls : spc'[c] # "waiting"
      BY ONLY <2>2, SignalLemma
    <2>4. /\ r \notin crowd => rtn' = [rtn EXCEPT ![r] = TRUE]
          /\ \A c \in Calls \ crowd : c # r => rtn'[c] = rtn[c]
      BY <1>8, WriteStatusExact
    <2>5. InTime' /\ Pointers'
      BY <2>1, <2>3
    <2>6. Handling' /\ FrameInv'
      BY <2>1, <2>4
    <2>7. Unheard'
      <3> SUFFICES ASSUME NEW c \in Calls \ crowd, spc'[c] \in {"sending", "waiting"}
                   PROVE  ~rtn'[c]
        BY <2>1
      <3>1. CASE c # r
        BY <2>3, <2>4, <3>1
      <3>2. CASE c = r
        <4>1. \A d \in Calls : d # r => ~Live(d)
          BY <2>1, <3>2 DEF CrowdInv
        <4>2. \A d \in Calls : spc[d] = "waiting" => d = r
          BY <4>1
        <4>3. spc'[r] # "waiting"
          BY <2>3, <4>2
        <4>4. spc[r] # "sending"
          BY <2>1 DEF MutexInv
        <4> QED
          BY <2>3, <3>2, <4>3, <4>4
      <3> QED
        BY <3>1, <3>2
    <2> QED
      BY <2>5, <2>6, <2>7
  <1>9. CASE Desert(r)
    <2>1. /\ UNCHANGED <<replyTo, request, expected, statusOf, sendThread, response,
                         recvOf, pc, spc, joins, asked, cmd, rtn, got, mpc, crowd>>
          /\ away' = away \cup {r}
          /\ Overtaken(r)
      BY <1>9 DEF Desert
    <2>2. r \in crowd
      <3>1. \A q \in Calls : q # r /\ Receiving(q) => r \in crowd
        BY <2>1 DEF Overtaken, CrowdInv
      <3> QED
        BY <2>1, <3>1 DEF Overtaken
    <2> QED
      BY <2>1, <2>2
  <1> QED
    BY <1>1, <1>2, <1>3, <1>4, <1>5, <1>6, <1>7, <1>8, <1>9 DEF RecvAny, RecvStep

(* A response that is late stays late. *)
LEMMA LateStays == [Next]_vars /\ ~late' => ~late
  BY DEF Next, vars, history, SendStep, ThreadStep, RecvStep, Acquire, Interrupted,
         Enter, SetBuffer, SetRequest, SetExpected, SetStatus, Spawn, Join, Release,
         Transmit, Sent, Wait, WaitEnds, Resume, Lose, Match, Offer, TryWait, Refuse,
         RecvLock, Copy, WriteStatus, Desert, Crash

(* Every step keeps the second half. *)
LEMMA PromptStep == BaseInv /\ PromptInv /\ [Next]_vars => PromptInv'
  <1> SUFFICES ASSUME BaseInv, PromptInv, [Next]_vars, ~late'
               PROVE  Prompt'
    BY DEF PromptInv
  <1>1. Prompt
    BY LateStays DEF PromptInv
  <1>2. ASSUME NEW c \in Calls, CallAny(c)
        PROVE  Prompt'
    BY <1>1, <1>2, SendPrompt, RecvPrompt DEF CallAny
  <1>3. CASE Crash \/ UNCHANGED vars
    <2>1. UNCHANGED <<channel, response, recvOf, pc, spc, calls, mpc, away, crowd>>
      BY <1>3 DEF Crash, vars, history
    <2> QED
      BY <1>1, <2>1 DEF Prompt, InTime, Pointers, Handling, FrameInv, Unheard,
                        Live, InFlight, Handled, Receiving, channel, calls
  <1> QED
    BY <1>2, <1>3 DEF Next, CallAny, RecvAny

(* The whole invariant, in every behaviour. *)
THEOREM PromptInvariant == Spec => [](BaseInv /\ PromptInv)
  <1> QED
    BY InitInv, BaseStep, PromptStep, PTL DEF Spec

(* With no response late, recvThread() touches only frames that exist, and *)
(* the right ones, for every call that has its turn to itself.             *)
THEOREM FramesCorrect == Spec => []FramesExact
  <1>1. BaseInv /\ PromptInv => FramesExact
    <2> SUFFICES ASSUME BaseInv, Prompt, NEW r \in Calls \ crowd,
                        mpc[r] \in {"copying", "copied"}
                 PROVE  /\ response = r /\ recvOf = r /\ Kept(r)
                        /\ replyTo = r /\ statusOf = r /\ Live(r)
      BY DEF PromptInv, FramesExact
    <2>1. Receiving(r) /\ Handled(r)
      BY DEF Receiving, Handled
    <2>2. Live(r) /\ pc[r] \notin Before
      BY <2>1, Others DEF InFlight, BaseInv, SentInv
    <2>3. /\ response = r /\ recvOf = r /\ Kept(r)
      BY <2>1 DEF Prompt, Handling, Kept
    <2> QED
      BY <2>2, <2>3 DEF Prompt, Pointers, Before
  <1> QED
    BY <1>1, PromptInvariant, PTL

(* With no response late, mtSend() returns 0 exactly with the response to  *)
(* its own command, to every call that had its turn to itself.             *)
THEOREM ResultCorrect == Spec => []ResultTrue
  <1>1. BaseInv /\ PromptInv => ResultTrue
    <2> SUFFICES ASSUME BaseInv, Prompt, NEW c \in Calls \ crowd, pc[c] = "done"
                 PROVE  IF rtn[c] THEN got[c] = c /\ asked[c] = c ELSE got[c] = None
      BY DEF PromptInv, ResultTrue
    <2>1. ~InFlight(c) /\ spc[c] \in {"none", "ended"}
      BY DEF Prompt, InTime, Live
    <2>2. mpc[c] = "done"
      BY <2>1 DEF BaseInv, TypeOK, MessageStates, InFlight, Handled, Receiving,
                  SentInv, Before
    <2> QED
      BY <2>2 DEF Prompt, FrameInv
  <1> QED
    BY <1>1, PromptInvariant, PTL

(* With no response late, no sendThread() of a call that has its turn to   *)
(* itself sleeps through its signal.                                       *)
THEOREM SignalCorrect == Spec => []NoLostSignal
  <1>1. PromptInv => NoLostSignal
    BY DEF PromptInv, Prompt, Unheard, NoLostSignal
  <1> QED
    BY <1>1, PromptInvariant, PTL

-----------------------------------------------------------------------------
(* The refinement of Exchange, by the calls that have their turns to       *)
(* themselves.                                                             *)

Turn     == {c \in Calls \ crowd : Live(c)}
Answered == {c \in Calls \ crowd : rtn[c] /\ got[c] = c}
Won      == {c \in Calls \ crowd : pc[c] = "done" /\ rtn[c]}
Lost     == {c \in Calls \ crowd : pc[c] = "done" /\ ~rtn[c]}

(* One call comes in beside another. *)
Crowding == crowd' # crowd /\ barged' # {}

(* A live call outside the crowd is the only one whose turn it is. *)
LEMMA TurnSet ==
  ASSUME BaseInv, NEW c \in Calls \ crowd, Live(c)
  PROVE  Turn = {c}
  BY DEF BaseInv, CrowdInv, Turn

(* A step that begins, answers and ends no call outside the crowd is a     *)
(* stutter of Exchange.                                                    *)
LEMMA Stutter ==
  ASSUME crowd' = crowd,
         \A c \in Calls \ crowd :
           /\ Live(c)' <=> Live(c)
           /\ pc'[c] = "done" <=> pc[c] = "done"
           /\ rtn'[c] /\ got'[c] = c <=> rtn[c] /\ got[c] = c
           /\ pc[c] = "done" => rtn'[c] = rtn[c]
  PROVE  UNCHANGED Promise!vars
  <1>1. Turn' = Turn /\ Answered' = Answered /\ Won' = Won /\ Lost' = Lost
    BY DEF Turn, Answered, Won, Lost
  <1> QED
    BY <1>1 DEF Promise!vars, Turn, Answered, Won, Lost

(* A call that comes in begins its turn, or crowds those it meets, which   *)
(* takes an interrupted wait.                                              *)
LEMMA EnterRefines ==
  ASSUME BaseInv, NEW c \in Calls, Acquire(c) \/ Interrupted(c)
  PROVE  Promise!Next \/ Crowding
  <1>1. /\ pc[c] = "idle" /\ pc' = [pc EXCEPT ![c] = "taken"]
        /\ rtn' = rtn /\ got' = got
        /\ crowd' = IF Inside = {} THEN crowd ELSE crowd \cup Inside \cup {c}
    BY DEF Acquire, Interrupted, Enter, Go, Inside
  <1>2. c \notin crowd
    BY <1>1 DEF BaseInv, CrowdInv
  <1>3. CASE Inside # {}
    <2>1. barged' # {}
      BY <1>3, CountEnter
    <2> QED
      BY <1>1, <1>2, <1>3, <2>1 DEF Crowding
  <1>4. CASE Inside = {}
    <2>1. crowd' = crowd
      BY <1>1, <1>4
    <2>2. Turn = {} /\ Turn' = {c}
      BY <1>1, <1>2, <1>4, <2>1 DEF Inside, Turn, Live, BaseInv, TypeOK
    <2>3. Answered' = Answered /\ Won' = Won /\ Lost' = Lost
      BY <1>1, <2>1 DEF Answered, Won, Lost, BaseInv, TypeOK
    <2>4. c \notin Won \cup Lost
      BY <1>1 DEF Won, Lost
    <2>5. Promise!Begin(c)
      BY <2>2, <2>3, <2>4 DEF Promise!Begin, Turn, Answered, Won, Lost
    <2> QED
      BY <2>5 DEF Promise!Next
  <1> QED
    BY <1>3, <1>4

(* A call that returns finishes its turn, if it had one to itself. *)
LEMMA ReleaseRefines ==
  ASSUME BaseInv, Prompt, NEW c \in Calls, Release(c)
  PROVE  [Promise!Next]_(Promise!vars)
  <1>1. /\ pc[c] = "joining" /\ pc' = [pc EXCEPT ![c] = "done"]
        /\ rtn' = rtn /\ got' = got /\ crowd' = crowd
    BY DEF Release, Go, calls
  <1>2. CASE c \in crowd
    <2>1. \A d \in Calls \ crowd : d # c
      BY <1>2
    <2> QED
      BY <1>1, <2>1, Stutter DEF Live, BaseInv, TypeOK
  <1>3. CASE c \notin crowd
    <2>1. Live(c)
      BY <1>1 DEF Live
    <2>2. Turn = {c}
      BY <1>3, <2>1, TurnSet
    <2>3. Turn' = {}
      BY <1>1, <2>2 DEF Turn, Live, BaseInv, TypeOK
    <2>4. Answered' = Answered /\ (c \in Answered <=> rtn[c])
      BY <1>1, <1>3 DEF Answered, Prompt, FrameInv
    <2>5. CASE rtn[c]
      <3>1. Won' = Won \cup {c} /\ Lost' = Lost
        BY <1>1, <1>3, <2>5 DEF Won, Lost, BaseInv, TypeOK
      <3>2. Promise!Finish(c)
        BY <2>2, <2>3, <2>4, <2>5, <3>1
           DEF Promise!Finish, Turn, Answered, Won, Lost
      <3> QED
        BY <3>2 DEF Promise!Next
    <2>6. CASE ~rtn[c]
      <3>1. Lost' = Lost \cup {c} /\ Won' = Won
        BY <1>1, <1>3, <2>6 DEF Won, Lost, BaseInv, TypeOK
      <3>2. Promise!Finish(c)
        BY <2>2, <2>3, <2>4, <2>6, <3>1
           DEF Promise!Finish, Turn, Answered, Won, Lost
      <3> QED
        BY <3>2 DEF Promise!Next
    <2> QED
      BY <2>5, <2>6
  <1> QED
    BY <1>2, <1>3

(* mtRecv() answers its call when it writes the status. *)
LEMMA WriteStatusRefines ==
  ASSUME BaseInv, Prompt, NEW r \in Calls, WriteStatus(r)
  PROVE  [Promise!Next]_(Promise!vars)
  <1>1. /\ mpc[r] = "copied" /\ InFlight(r)
        /\ pc' = pc /\ got' = got /\ crowd' = crowd
    BY DEF WriteStatus, Move, InFlight, Handled, Receiving, history
  <1>2. /\ r \notin crowd => rtn' = [rtn EXCEPT ![r] = TRUE]
        /\ \A c \in Calls \ crowd : c # r => rtn'[c] = rtn[c]
    BY WriteStatusExact
  <1>3. CASE r \in crowd
    <2>1. \A c \in Calls \ crowd : rtn'[c] = rtn[c]
      BY <1>2, <1>3
    <2> QED
      BY <1>1, <2>1, Stutter DEF Live
  <1>4. CASE r \notin crowd
    <2>1. Live(r) /\ ~rtn[r] /\ got[r] = r
      BY <1>1, <1>4, Others DEF Prompt, FrameInv
    <2>2. rtn'[r] /\ \A c \in Calls \ crowd : c # r => rtn'[c] = rtn[c]
      BY <1>2, <1>4 DEF BaseInv, TypeOK
    <2>3. Turn' = Turn /\ r \in Turn
      BY <1>1, <1>4, <2>1 DEF Turn, Live
    <2>4. Answered' = Answered \cup {r} /\ r \notin Answered
      BY <1>1, <1>4, <2>1, <2>2 DEF Answered
    <2>5. \A c \in Calls \ crowd : pc[c] = "done" => rtn'[c] = rtn[c]
      BY <2>1, <2>2 DEF Live
    <2>6. Won' = Won /\ Lost' = Lost
      BY <1>1, <2>5 DEF Won, Lost
    <2>7. Promise!Answer(r)
      BY <2>3, <2>4, <2>6 DEF Promise!Answer, Turn, Answered, Won, Lost
    <2> QED
      BY <2>7 DEF Promise!Next
  <1> QED
    BY <1>3, <1>4

(* The steps that are none of these stutter. *)
LEMMA QuietRefines ==
  ASSUME BaseInv, Prompt, NEW c \in Calls, CallAny(c),
         ~Acquire(c), ~Interrupted(c), ~Release(c), ~WriteStatus(c)
  PROVE  UNCHANGED Promise!vars
  <1>1. CASE \/ SetBuffer(c) \/ SetRequest(c) \/ SetExpected(c) \/ SetStatus(c)
             \/ Spawn(c) \/ Join(c)
    <2>1. /\ rtn' = rtn /\ got' = got /\ crowd' = crowd
          /\ pc[c] \notin {"idle", "done"}
          /\ \E s \in CallStates \ {"idle", "done"} : pc' = [pc EXCEPT ![c] = s]
      BY <1>1 DEF SetBuffer, SetRequest, SetExpected, SetStatus, Spawn, Join, Go,
                  calls, history, CallStates
    <2>2. \A d \in Calls : /\ Live(d)' <=> Live(d)
                           /\ pc'[d] = "done" <=> pc[d] = "done"
      BY <2>1 DEF Live, BaseInv, TypeOK
    <2> QED
      BY <2>1, <2>2, Stutter
  <1>2. CASE Copy(c)
    <2>1. rtn' = rtn /\ pc' = pc /\ crowd' = crowd /\ mpc[c] = "copying"
      BY <1>2 DEF Copy, Move, history
    <2>2. \A d \in Calls \ crowd : d # c => got'[d] = got[d]
      BY <1>2, CopyExact
    <2>3. c \notin crowd => ~rtn[c]
      BY <2>1 DEF Prompt, FrameInv
    <2>4. \A d \in Calls \ crowd : rtn'[d] /\ got'[d] = d <=> rtn[d] /\ got[d] = d
      BY <2>1, <2>2, <2>3
    <2> QED
      BY <2>1, <2>4, Stutter DEF Live
  <1>3. CASE \/ ThreadStep(c) \/ Lose(c) \/ Match(c) \/ Offer(c) \/ TryWait(c)
             \/ Refuse(c) \/ RecvLock(c) \/ Desert(c)
    <2>1. rtn' = rtn /\ got' = got /\ pc' = pc /\ crowd' = crowd
      BY <1>3 DEF ThreadStep, Transmit, Sent, Wait, WaitEnds, Resume, Lose, Match,
                  Offer, TryWait, Refuse, RecvLock, Desert, calls, history
    <2> QED
      BY <2>1, Stutter DEF Live
  <1> QED
    BY <1>1, <1>2, <1>3 DEF CallAny, SendStep, RecvAny, RecvStep

(* Without late responses every step is a step of Exchange, a stutter, or  *)
(* a call that comes in beside another.                                    *)
LEMMA StepRefines ==
  BaseInv /\ PromptInv /\ [Next]_vars
     => [Promise!Next \/ late' \/ Crowding]_(Promise!vars)
  <1> SUFFICES ASSUME BaseInv, PromptInv, [Next]_vars, ~late'
               PROVE  [Promise!Next \/ Crowding]_(Promise!vars)
    OBVIOUS
  <1>1. Prompt
    BY LateStays DEF PromptInv
  <1>2. ASSUME NEW c \in Calls, CallAny(c)
        PROVE  [Promise!Next \/ Crowding]_(Promise!vars)
    BY <1>1, <1>2, EnterRefines, ReleaseRefines, WriteStatusRefines, QuietRefines
  <1>3. CASE Crash \/ UNCHANGED vars
    <2>1. rtn' = rtn /\ got' = got /\ pc' = pc /\ crowd' = crowd
      BY <1>3 DEF Crash, vars, calls, history
    <2> QED
      BY <2>1, Stutter DEF Live
  <1> QED
    BY <1>2, <1>3 DEF Next, CallAny, RecvAny

(* With no response late, the channel is an Exchange for the calls that    *)
(* have the subsystem to themselves, and they have it until an interrupted *)
(* wait lets another in: they take turns and succeed exactly with their    *)
(* own response.                                                           *)
THEOREM Refinement == Spec => PromiseSpec
  <1>1. Init => Promise!Init
    BY DEF Init, Promise!Init, Live
  <1>2. BaseInv /\ PromptInv /\ [Next]_vars => (BaseInv /\ PromptInv)'
    BY BaseStep, PromptStep
  <1>3. BaseInv /\ PromptInv /\ [Next]_vars
          => [\/ Promise!Next
              \/ late'
              \/ crowd' # crowd /\ barged' # {}]_(Promise!vars)
    BY StepRefines DEF Crowding
  <1> QED
    BY <1>1, <1>2, <1>3, InitInv, PTL DEF Spec, PromiseSpec

-----------------------------------------------------------------------------
(* Flash: every image, and every answer to its commands                    *)

(* While a chunk is written or read it is one of the image's, and the      *)
(* answered commands are counted by the retry counters: three writes a     *)
(* round, then three reads a round.                                        *)
Budget ==
  /\ fpc \in {"write", "read"} => at \in Chunks /\ rwRetry < 3
  /\ fpc \in {"start", "handshake"} => at = 1 /\ tries = 0
  /\ fpc \in {"start", "handshake"} => wrRetry = 0 /\ rdRetry = 0 /\ rwRetry = 0
  /\ fpc = "write" => tries = 3 * rwRetry + wrRetry
  /\ fpc = "read" => tries <= 3 * rwRetry + 3 + rdRetry
  /\ tries <= 12

FlashInv == FlashTypeOK /\ AcceptedGood /\ Budget

(* Before the first write nothing is passed and nothing is counted. *)
LEMMA FlashStart ==
  ASSUME FlashInit
  PROVE  FlashInv
  <1> USE ImageAssumption DEF FlashInit
  <1>1. flash \in [Chunks -> Contents] /\ rd \in Contents
    OBVIOUS
  <1>2. FlashTypeOK
    <2>1. at \in 1 .. Last + 1 /\ unread \subseteq Chunks
      OBVIOUS
    <2>2. fpc \in States
      BY DEF States, Working
    <2>3. rtnval \in {0, -1} /\ exitStatus \in {0, -1}
      OBVIOUS
    <2>4. wrRetry \in 0 .. 2 /\ rdRetry \in 0 .. 2 /\ rwRetry \in 0 .. 3
      OBVIOUS
    <2>5. tries \in Nat
      OBVIOUS
    <2> QED
      BY ONLY <1>1, <2>1, <2>2, <2>3, <2>4, <2>5 DEF FlashTypeOK
  <1>3. AcceptedGood
    BY DEF AcceptedGood, Chunks
  <1>4. Budget
    BY DEF Budget
  <1> QED
    BY <1>2, <1>3, <1>4 DEF FlashInv

(* A write changes the flash at the chunk at hand only. *)
LEMMA FlashWrite ==
  ASSUME FlashInv, at \in Chunks, NEW c \in {flash[at], Image[at], Bad},
         flash' = [flash EXCEPT ![at] = c]
  PROVE  /\ flash' \in [Chunks -> Contents]
         /\ \A a \in Chunks : a < at => flash'[a] = flash[a]
  <1> USE ImageAssumption
  <1>1. c \in Contents
    BY DEF FlashInv, FlashTypeOK, Contents
  <1> QED
    BY <1>1 DEF FlashInv, FlashTypeOK, Chunks

(* A write leaves the chunks passed as they are, and counts its answer. *)
LEMMA WriteStep ==
  ASSUME FlashInv, Write
  PROVE  FlashInv'
  <1> USE ImageAssumption
  <1> USE DEF FlashInv, FlashTypeOK, AcceptedGood, Budget, States, Working, retries, NextRound
  <1>1. CASE WriteUnanswered
    <2>1. PICK c \in {flash[at], Image[at], Bad} : flash' = [flash EXCEPT ![at] = c]
      BY <1>1 DEF WriteUnanswered
    <2>2. at \in Chunks
      BY <1>1 DEF WriteUnanswered
    <2>3. /\ flash' \in [Chunks -> Contents]
          /\ \A a \in Chunks : a < at => flash'[a] = flash[a]
      BY ONLY FlashInv, <2>1, <2>2, FlashWrite
    <2> QED
      BY <1>1, <2>3 DEF WriteUnanswered
  <1>2. CASE WriteDone
    <2>1. PICK c \in {flash[at], Image[at], Bad} : flash' = [flash EXCEPT ![at] = c]
      BY <1>2 DEF WriteDone
    <2>2. at \in Chunks
      BY <1>2 DEF WriteDone
    <2>3. /\ flash' \in [Chunks -> Contents]
          /\ \A a \in Chunks : a < at => flash'[a] = flash[a]
      BY ONLY FlashInv, <2>1, <2>2, FlashWrite
    <2> QED
      BY <1>2, <2>3 DEF WriteDone
  <1>3. CASE WriteRefused
    BY <1>3 DEF WriteRefused
  <1> QED
    BY <1>1, <1>2, <1>3 DEF Write

(* A comparison with an answer that is this chunk's, or is not. *)
LEMMA CompareStep ==
  ASSUME FlashInv, fpc = "read", NEW fresh \in BOOLEAN, NEW answers \in {0, 1},
         Compare(fresh, answers), rd' \in Contents, fresh => rd' = flash[at],
         UNCHANGED flash
  PROVE  FlashInv'
  <1> USE ImageAssumption DEF FlashInv, FlashTypeOK, AcceptedGood, Budget, States, Working, NextRound, Chunks
  <1>1. CASE rd' = Image[at] /\ Accept(fresh)
    <2>1. /\ unread' = IF fresh THEN unread ELSE unread \cup {at}
          /\ at' = at + 1
          /\ flash' = flash
      BY <1>1 DEF Accept
    <2>2. AcceptedGood'
      <3> SUFFICES ASSUME NEW a \in Chunks, a < at + 1, a \notin unread'
                   PROVE  flash[a] = Image[a]
        BY <2>1
      <3>1. CASE a < at
        BY <2>1, <3>1
      <3>2. CASE a = at
        BY <1>1, <2>1, <3>2
      <3> QED
        BY <3>1, <3>2
    <2>3. at \in 1 .. Last /\ at + 1 \in 1 .. Last + 1
      OBVIOUS
    <2>4. fpc' \in States /\ unread' \subseteq 1 .. Last /\ exitStatus' \in {0, -1}
      BY <1>1, <2>1, <2>3 DEF Accept
    <2>5. FlashTypeOK'
      <3>1. rtnval' = rtnval /\ flash' = flash
        BY <1>1 DEF Accept
      <3>2. /\ wrRetry' = 0 /\ rdRetry' = 0 /\ rwRetry' = 0
            /\ tries' = 0
        BY <1>1 DEF Accept
      <3>3. at' \in 1 .. Last + 1 /\ unread' \subseteq Chunks
        BY <2>1, <2>3, <2>4
      <3>4. /\ wrRetry' \in 0 .. 2 /\ rdRetry' \in 0 .. 2 /\ rwRetry' \in 0 .. 3
            /\ tries' \in Nat
        BY ONLY <3>2
      <3>5. rtnval' \in {0, -1}
        BY ONLY <3>1, FlashTypeOK DEF FlashTypeOK
      <3>6. flash' \in [Chunks -> Contents]
        BY ONLY <3>1, FlashTypeOK DEF FlashTypeOK
      <3> QED
        BY ONLY <2>4, <3>3, <3>4, <3>5, <3>6, rd' \in Contents DEF FlashTypeOK
    <2>6. Budget'
      BY <1>1, <2>3 DEF Accept
    <2> QED
      BY <2>2, <2>5, <2>6
  <1>2. CASE rd' # Image[at] /\ Differ(answers)
    <2>1. FlashTypeOK' /\ Budget'
      BY <1>2 DEF Differ
    <2>2. AcceptedGood'
      BY <1>2 DEF Differ
    <2> QED
      BY <2>1, <2>2
  <1> QED
    BY <1>1, <1>2 DEF Compare

(* So does a read that is refused; any other is a comparison. *)
LEMMA ReadStep ==
  ASSUME FlashInv, Read
  PROVE  FlashInv'
  <1> USE ImageAssumption
  <1>1. CASE ReadUnanswered
    <2>1. rd' \in Contents
      BY <1>1 DEF ReadUnanswered, FlashInv, FlashTypeOK
    <2> QED
      BY ONLY FlashInv, <1>1, <2>1, CompareStep DEF ReadUnanswered
  <1>2. CASE ReadDone
    <2>1. at \in Chunks
      BY <1>2 DEF ReadDone, FlashInv, Budget
    <2>2. CASE rd' = flash[at] /\ Compare(TRUE, 1)
      <3>1. rd' \in Contents
        BY <2>1, <2>2 DEF FlashInv, FlashTypeOK
      <3> QED
        BY ONLY FlashInv, <1>2, <2>2, <3>1, CompareStep DEF ReadDone
    <2>3. CASE at > 1 /\ rd' = flash[at - 1] /\ Compare(FALSE, 1)
      <3>1. rd' \in Contents
        BY <2>1, <2>3 DEF FlashInv, FlashTypeOK, Chunks
      <3> QED
        BY ONLY FlashInv, <1>2, <2>3, <3>1, CompareStep DEF ReadDone
    <2> QED
      BY <1>2, <2>2, <2>3 DEF ReadDone
  <1>3. CASE ReadRefused
    <2>1. FlashTypeOK'
      BY <1>3 DEF ReadRefused, NextRound, FlashInv, FlashTypeOK, AcceptedGood, Budget, States, Working, retries
    <2>2. AcceptedGood'
      BY <1>3 DEF ReadRefused, NextRound, FlashInv, FlashTypeOK, AcceptedGood, Working, retries
    <2>3. Budget'
      BY <1>3 DEF ReadRefused, NextRound, FlashInv, FlashTypeOK, Budget, Working, retries
    <2> QED
      BY <2>1, <2>2, <2>3 DEF FlashInv
  <1> QED
    BY <1>1, <1>2, <1>3 DEF Read

(* Every step of the flashing keeps the invariant. *)
LEMMA FlashStep ==
  ASSUME FlashInv, [FlashNext]_flashVars
  PROVE  FlashInv'
  <1> USE ImageAssumption
  <1> USE DEF FlashInv, FlashTypeOK, AcceptedGood, Budget, States, Working, retries
  <1>1. CASE NoImage
    BY <1>1 DEF NoImage
  <1>4. CASE ImageCheck
    BY <1>4 DEF ImageCheck
  <1>5. CASE Handshake
    <2>1. 1 \in Chunks
      BY DEF Chunks
    <2> QED
      BY <1>5, <2>1 DEF Handshake
  <1>2. CASE Crc
    BY <1>2 DEF Crc
  <1>3. CASE UNCHANGED flashVars
    BY <1>3 DEF flashVars
  <1> QED
    BY <1>1, <1>2, <1>3, <1>4, <1>5, WriteStep, ReadStep DEF FlashNext

(* The whole invariant, in every behaviour. *)
THEOREM FlashInvariant == FlashSpec => []FlashInv
  <1>1. FlashInit => FlashInv
    BY FlashStart
  <1>2. FlashInv /\ [FlashNext]_flashVars => FlashInv'
    BY FlashStep
  <1> QED
    BY <1>1, <1>2, PTL DEF FlashSpec

(* flashImage() keeps every counter within the limits of its loops. *)
THEOREM FlashTypes == FlashSpec => []FlashTypeOK
  <1>1. FlashInv => FlashTypeOK
    BY DEF FlashInv
  <1> QED
    BY <1>1, FlashInvariant, PTL

(* Every chunk that sb_image_write() passed on an answer of its own is in  *)
(* the flash, for an image of any length.                                  *)
THEOREM AcceptedCorrect == FlashSpec => []AcceptedGood
  <1>1. FlashInv => AcceptedGood
    BY DEF FlashInv
  <1> QED
    BY <1>1, FlashInvariant, PTL

(* sb_image_write() gives up after at most 12 answered commands a chunk. *)
THEOREM TriesCorrect == FlashSpec => []TriesBounded
  <1>1. FlashInv => TriesBounded
    BY DEF FlashInv, Budget, TriesBounded
  <1> QED
    BY <1>1, FlashInvariant, PTL
=============================================================================
