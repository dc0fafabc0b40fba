--------------------------- MODULE DispatchProofs ---------------------------
(***************************************************************************)
(* What the start-up and the log guarantee for any number of frames, at    *)
(* any time: the commit thread finds the bus complete, and no entry of the *)
(* log is lost or written twice, but those an interrupted wait spoilt.     *)
(***************************************************************************)
EXTENDS Dispatch, SequenceTheorems, TLAPS

Entries == Threads \X Objects \X Nat

Types ==
  /\ stage \in 1 .. Len(StartUp) + 1
  /\ pc \in [Frames -> {"air", "log", "af", "ext", "done"}]
  /\ todo \in [Threads -> Seq(Objects)]
  /\ inside \subseteq Threads
  /\ data \in [Objects -> SUBSET Entries]
  /\ cpc \in {"off", "refresh", "take", "dump", "clear", "sleep"}
  /\ logged \subseteq Entries

(* What the main thread has put in place is there for good. *)
InPlace ==
  /\ linked \subseteq Objects /\ logger \subseteq Objects
  /\ stage > 3 => "msg" \in linked
  /\ stage > 4 => "msg" \in logger
  /\ stage > 5 => "af" \in linked
  /\ stage > 6 => "af" \in logger
  /\ cpc # "off" => stage > 7

(* A thread has something to log only while it runs. *)
Started(t) == IF t = Main THEN stage > 8 ELSE pc[t] # "air"
LogInv ==
  \A t \in Threads :
    /\ todo[t] # <<>> => Started(t)
    /\ t \in inside => todo[t] # <<>>

(* Until a wait is interrupted, one at most has the semaphore, and nothing  *)
(* is spoilt.                                                              *)
SemInv ==
  ~interrupted =>
    /\ raced = {} /\ spoilt = {}
    /\ \/ sem = 1 /\ inside = {} /\ ~Committing
       \/ sem = 0 /\ inside = {} /\ Committing
       \/ sem = 0 /\ (\E t \in Threads : inside = {t}) /\ ~Committing

(* What the commit thread and another use is raced, and what an object      *)
(* holds that is or was raced is spoilt.                                   *)
RaceInv ==
  /\ Committing => InUse \subseteq raced
  /\ \A x \in logged : x[2] \in raced => x \in spoilt
  /\ \A o \in Objects : \A x \in data[o] : x \in logged \ spoilt /\ x[2] = o

(* What was written, or spoilt, was added. *)
SpoiltInv == spoilt \subseteq logged /\ dumped \subseteq logged

(* The entries of a thread are numbered downwards by what it still has to log. *)
Numbered ==
  \A e \in logged : Started(e[1]) /\ e[3] > Len(todo[e[1]])

Waiting == data["msg"] \cup data["af"]

OnceInv ==
  dumped \ spoilt = IF cpc = "clear" THEN logged \ spoilt
                    ELSE logged \ (spoilt \cup Waiting)

IInv ==
  /\ Types /\ InPlace /\ LogInv /\ SemInv /\ RaceInv /\ SpoiltInv
  /\ Numbered /\ OnceInv
-----------------------------------------------------------------------------
(* Where in StartUp each step is. *)
LEMMA Places ==
  ASSUME NEW n \in 1 .. Len(StartUp)
  PROVE  /\ Len(StartUp) = 12
         /\ StartUp[n] = "msg" <=> n = 3
         /\ StartUp[n] = "msgSet" <=> n = 4
         /\ StartUp[n] = "af" <=> n = 5
         /\ StartUp[n] = "afSet" <=> n = 6
         /\ StartUp[n] = "kbRun" <=> n = 7
         /\ StartUp[n] = "reset" <=> n = 8
  BY DEF StartUp

(* The threads, and what is no thread. *)
LEMMA Names ==
  /\ Main \in Threads /\ Frames \subseteq Threads
  /\ Main \notin Frames
  BY DispatchAssumption DEF Threads

(* A step of the main thread goes one further in StartUp. *)
LEMMA NextPlace ==
  ASSUME Types, NEW x, MainStep(x)
  PROVE  /\ stage \in 1 .. Len(StartUp) /\ StartUp[stage] = x
         /\ stage' = stage + 1 /\ stage' \in 1 .. Len(StartUp) + 1
         /\ todo[Main] = << >>
  BY DEF MainStep, At, Types, StartUp

(* A later stage disturbs nothing but what is in place. *)
LEMMA StageOnly ==
  ASSUME IInv, stage' \in 1 .. Len(StartUp) + 1, stage' = stage \/ stage' = stage + 1, InPlace',
         UNCHANGED <<pc, todo, sem, inside, data, raced, dumped, logged, spoilt, interrupted>>,
         UNCHANGED cpc \/ (cpc = "off" /\ cpc' = "refresh")
  PROVE  IInv'
  <1> USE DEF IInv, Types
  <1>1. stage \in Nat /\ stage' \in Nat /\ stage' >= stage
    BY DEF StartUp
  <1>2. \A t \in Threads : Started(t) => Started(t)'
    BY <1>1 DEF Started
  <1>3. Types'
    OBVIOUS
  <1>4. LogInv'
    BY <1>2 DEF LogInv
  <1>5. Numbered'
    BY <1>2 DEF Numbered, Entries
  <1>6. SemInv' /\ RaceInv' /\ OnceInv' /\ SpoiltInv'
    BY DEF SemInv, RaceInv, OnceInv, SpoiltInv, Waiting, Committing, InUse
  <1> QED
    BY <1>3, <1>4, <1>5, <1>6 DEF IInv

(* The steps of the main thread that neither log nor begin to. *)
LEMMA MainInv ==
  ASSUME IInv,
         \/ MtHelperInit \/ MTIntfInit \/ SelfInit \/ StartZdo \/ KbRun
         \/ \E o \in Objects : KbAddObj(o) \/ KdInit(o)
         \/ \E h \in {"af", "ext"} : ApsdbInit(h)
  PROVE  IInv'
  <1> USE DEF IInv
  <1>1. CASE KbRun
    <2>1. stage = 7 /\ stage' = 8
      BY <1>1, NextPlace, Places DEF KbRun
    <2>2. InPlace'
      BY <1>1, <2>1 DEF KbRun, InPlace
    <2>3. cpc = "off"
      BY <2>1 DEF InPlace
    <2> QED
      BY <1>1, <2>1, <2>2, <2>3, StageOnly, Places DEF KbRun, StartUp
  <1>2. ASSUME NEW o \in Objects, KbAddObj(o)
        PROVE  IInv'
    <2>1. /\ stage \in 1 .. Len(StartUp) /\ StartUp[stage] = o
          /\ stage' = stage + 1 /\ stage' \in 1 .. Len(StartUp) + 1
      BY <1>2, NextPlace DEF KbAddObj
    <2>2. (o = "msg" /\ stage = 3) \/ (o = "af" /\ stage = 5)
      BY <2>1, Places DEF Objects
    <2>3. InPlace'
      BY <1>2, <2>1, <2>2 DEF KbAddObj, InPlace, Objects, bus
    <2>4. UNCHANGED <<pc, todo, sem, inside, data, raced, dumped, logged, spoilt, interrupted>> /\ UNCHANGED cpc
      BY <1>2 DEF KbAddObj, bus
    <2> QED
      BY ONLY IInv, <2>1, <2>3, <2>4, StageOnly
  <1>3. ASSUME NEW o \in Objects, KdInit(o)
        PROVE  IInv'
    <2>1. /\ stage \in 1 .. Len(StartUp)
          /\ StartUp[stage] = IF o = "msg" THEN "msgSet" ELSE "afSet"
          /\ stage' = stage + 1 /\ stage' \in 1 .. Len(StartUp) + 1
      BY <1>3, NextPlace DEF KdInit
    <2>2. (o = "msg" /\ stage = 4) \/ (o = "af" /\ stage = 6)
      BY <2>1, Places DEF Objects
    <2>3. InPlace'
      BY <1>3, <2>1, <2>2 DEF KdInit, InPlace, Objects, bus
    <2>4. UNCHANGED <<pc, todo, sem, inside, data, raced, dumped, logged, spoilt, interrupted>> /\ UNCHANGED cpc
      BY <1>3 DEF KdInit, bus
    <2> QED
      BY ONLY IInv, <2>1, <2>3, <2>4, StageOnly
  <1>4. ASSUME NEW x,
               x \in {"mtHelperInit", "MTIntfInit", "SelfInit", "initAF", "initEXT", "start_zdo"},
               MainStep(x), UNCHANGED <<linked, logger, pc, todo>>, UNCHANGED bus
        PROVE  IInv'
    <2>1. /\ stage \in 1 .. Len(StartUp) /\ StartUp[stage] = x
          /\ stage' = stage + 1 /\ stage' \in 1 .. Len(StartUp) + 1
      BY <1>4, NextPlace
    <2>2. stage \in Nat /\ stage \notin 3 .. 7
      BY <1>4, <2>1, Places
    <2>3. InPlace'
      BY <1>4, <2>1, <2>2 DEF InPlace, bus
    <2>4. UNCHANGED <<pc, todo, sem, inside, data, raced, dumped, logged, spoilt, interrupted>> /\ UNCHANGED cpc
      BY <1>4 DEF bus
    <2> QED
      BY ONLY IInv, <2>1, <2>3, <2>4, StageOnly
  <1>5. CASE MtHelperInit
    BY <1>4, <1>5 DEF MtHelperInit
  <1>6. CASE MTIntfInit
    BY <1>4, <1>6 DEF MTIntfInit
  <1>7. CASE SelfInit
    BY <1>4, <1>7 DEF SelfInit
  <1>8. ASSUME NEW h \in {"af", "ext"}, ApsdbInit(h)
        PROVE  IInv'
    BY <1>4, <1>8 DEF ApsdbInit
  <1>9. CASE StartZdo
    <2>1. CASE MainStep("start_zdo")
      BY <1>4, <1>9, <2>1 DEF StartZdo
    <2>2. CASE UNCHANGED stage
      <3>1. stage' \in 1 .. Len(StartUp) + 1 /\ stage' = stage
        BY <2>2 DEF Types, StartUp
      <3>2. InPlace'
        BY <1>9, <2>2 DEF StartZdo, InPlace, bus
      <3>3. UNCHANGED <<pc, todo, sem, inside, data, raced, dumped, logged, spoilt, interrupted>> /\ UNCHANGED cpc
        BY <1>9 DEF StartZdo, bus
      <3> QED
        BY ONLY IInv, <3>1, <3>2, <3>3, StageOnly
    <2> QED
      BY <1>9, <2>1, <2>2 DEF StartZdo
  <1> QED
    BY <1>1, <1>2, <1>3, <1>5, <1>6, <1>7, <1>8, <1>9

(* StartSystem() begins to log. *)
LEMMA ResetInv ==
  ASSUME IInv, Reset
  PROVE  IInv'
  <1> USE DEF IInv
  <1>1. /\ stage = 8 /\ stage' = 9 /\ 9 \in 1 .. Len(StartUp) + 1
        /\ todo[Main] = << >>
    BY NextPlace, Places DEF Reset
  <1>2. /\ todo' = [todo EXCEPT ![Main] = <<"msg">>]
        /\ UNCHANGED <<linked, logger, pc>> /\ UNCHANGED bus
    BY DEF Reset
  <1>3. Types'
    BY <1>1, <1>2, Names DEF Types, Objects, bus
  <1>4. InPlace'
    BY <1>1, <1>2 DEF InPlace, bus
  <1>5. \A t \in Threads : t # Main => (Started(t)' <=> Started(t)) /\ todo'[t] = todo[t]
    BY <1>2 DEF Started, Types
  <1>6. Started(Main)' /\ ~Started(Main) /\ todo'[Main] = <<"msg">>
    BY <1>1, <1>2, Names DEF Started, Types
  <1>7. LogInv'
    BY <1>2, <1>5, <1>6, Names DEF LogInv, bus
  <1>8. Numbered'
    BY <1>2, <1>5, <1>6 DEF Numbered, Types, Entries, bus
  <1>9. SemInv' /\ RaceInv' /\ OnceInv' /\ SpoiltInv'
    <2>1. InUse' = InUse
      BY <1>1, <1>2, <1>5 DEF InUse, LogInv, Types, bus
    <2> QED
      BY <1>2, <2>1 DEF SemInv, RaceInv, OnceInv, SpoiltInv, Waiting, Committing, bus
  <1> QED
    BY <1>3, <1>4, <1>7, <1>8, <1>9

(* A frame comes to its handler: until then it had nothing to log. *)
LEMMA IncomingInv ==
  ASSUME IInv, NEW f \in Frames, NEW to \in {"log", "af", "ext"},
         NEW logs \in Seq(Objects), Incoming(f, to, logs),
         UNCHANGED setup, UNCHANGED bus
  PROVE  IInv'
  <1> USE DEF IInv
  <1>1. /\ pc[f] = "air" /\ pc' = [pc EXCEPT ![f] = to]
        /\ todo' = [todo EXCEPT ![f] = logs]
    BY DEF Incoming
  <1>2. f \in Threads /\ f # Main
    BY Names
  <1>3. ~Started(f) /\ Started(f)'
    BY <1>1, <1>2 DEF Started, Types
  <1>4. \A t \in Threads : t # f => (Started(t)' <=> Started(t)) /\ todo'[t] = todo[t]
    BY <1>1 DEF Started, Types, setup, Threads
  <1>5. f \notin inside
    BY <1>2, <1>3 DEF LogInv
  <1>6. Types' /\ InPlace'
    BY <1>1, <1>2 DEF Types, InPlace, setup, bus
  <1>7. LogInv'
    BY <1>3, <1>4, <1>5 DEF LogInv, bus
  <1>8. Numbered'
    BY <1>3, <1>4 DEF Numbered, Types, Entries, bus
  <1>9. SemInv' /\ RaceInv' /\ OnceInv' /\ SpoiltInv'
    <2>1. InUse' = InUse
      BY <1>4, <1>5 DEF InUse, Types, bus
    <2> QED
      BY <2>1 DEF SemInv, RaceInv, OnceInv, SpoiltInv, Waiting, Committing, bus
  <1> QED
    BY <1>6, <1>7, <1>8, <1>9

(* A frame's thread ends. *)
LEMMA FinishInv ==
  ASSUME IInv, NEW f \in Frames, Finish(f)
  PROVE  IInv'
  <1> USE DEF IInv
  <1>1. pc' = [pc EXCEPT ![f] = "done"] /\ UNCHANGED todo /\ UNCHANGED setup /\ UNCHANGED bus
    BY DEF Finish
  <1>2. \A t \in Threads : Started(t) => Started(t)'
    BY <1>1 DEF Started, Types, setup, Threads
  <1>3. Types' /\ InPlace'
    BY <1>1 DEF Types, InPlace, setup, bus
  <1>4. LogInv'
    BY <1>1, <1>2 DEF LogInv, bus
  <1>5. Numbered'
    BY <1>1, <1>2 DEF Numbered, Types, Entries, bus
  <1>6. SemInv' /\ RaceInv' /\ OnceInv' /\ SpoiltInv'
    BY <1>1 DEF SemInv, RaceInv, OnceInv, SpoiltInv, Waiting, Committing, InUse, bus
  <1> QED
    BY <1>3, <1>4, <1>5, <1>6

(* The process ends, or a step stutters. *)
LEMMA StopInv ==
  ASSUME IInv, UNCHANGED setup, UNCHANGED pc, UNCHANGED todo, UNCHANGED bus
  PROVE  IInv'
  BY DEF IInv, Types, InPlace, LogInv, Started, SemInv, RaceInv, Numbered,
         OnceInv, SpoiltInv, Waiting, Committing, InUse, setup, bus

(* Every handler, and what becomes of the frame afterwards. *)
LEMMA FrameInv ==
  ASSUME IInv, NEW f \in Frames, FrameNext(f)
  PROVE  IInv'
  <1>1. /\ << >> \in Seq(Objects) /\ <<"msg">> \in Seq(Objects)
        /\ <<"msg", "msg">> \in Seq(Objects) /\ <<"af">> \in Seq(Objects)
    BY DEF Objects
  <1>2. CASE MT_ProcessIncoming(f)
    BY <1>1, <1>2, IncomingInv DEF MT_ProcessIncoming
  <1>3. CASE MT_SysCommandProcessing(f)
    BY <1>1, <1>3, IncomingInv DEF MT_SysCommandProcessing
  <1>4. CASE MT_UtilCommandProcessing(f)
    BY <1>1, <1>4, IncomingInv DEF MT_UtilCommandProcessing
  <1>5. CASE MT_ZdoCommandProcessing(f)
    BY <1>1, <1>5, IncomingInv DEF MT_ZdoCommandProcessing
  <1>6. CASE MT_AfCommandProcessing(f)
    BY <1>1, <1>6, IncomingInv DEF MT_AfCommandProcessing
  <1>7. CASE MT_DebugCommandProcessing(f)
    BY <1>1, <1>7, IncomingInv, StopInv DEF MT_DebugCommandProcessing, End
  <1>8. CASE Logged(f)
    BY <1>8, FinishInv DEF Logged
  <1>9. CASE Deliver(f)
    BY <1>9, FinishInv, StopInv DEF Deliver, End
  <1> QED
    BY <1>2, <1>3, <1>4, <1>5, <1>6, <1>7, <1>8, <1>9 DEF FrameNext

(* What a thread that has something to log does next leaves the others alone. *)
LEMMA LogTestInv ==
  ASSUME IInv, NEW t \in Threads, LogTest(t)
  PROVE  IInv'
  <1> USE DEF IInv
  <1>1. CASE End("null")
    BY <1>1, StopInv DEF End
  <1>2. CASE /\ todo' = [todo EXCEPT ![t] = Tail(@)]
             /\ UNCHANGED <<setup, devState, pc, bus, fault>>
    <2>1. todo[t] \in Seq(Objects) /\ todo[t] # << >> /\ t \notin inside
      BY DEF LogTest, Types
    <2>2. Tail(todo[t]) \in Seq(Objects) /\ Len(Tail(todo[t])) = Len(todo[t]) - 1
      BY <2>1, HeadTailProperties
    <2>3. Started(t)
      BY <2>1 DEF LogInv
    <2>4. UNCHANGED setup /\ UNCHANGED pc /\ UNCHANGED bus
      BY <1>2
    <2>5. \A u \in Threads : Started(u)' <=> Started(u)
      BY <2>4 DEF Started, setup
    <2>6. Types' /\ InPlace'
      BY <1>2, <2>2, <2>4 DEF Types, InPlace, setup, bus
    <2>7. LogInv'
      BY <1>2, <2>1, <2>3, <2>4, <2>5 DEF LogInv, Types, bus
    <2>8. Numbered'
      <3>1. \A u \in Threads : Len(todo'[u]) <= Len(todo[u]) /\ Len(todo'[u]) \in Nat
        BY <1>2, <2>1, <2>2 DEF Types
      <3> QED
        BY <2>4, <2>5, <3>1 DEF Numbered, Types, Entries, bus
    <2>9. SemInv' /\ RaceInv' /\ OnceInv' /\ SpoiltInv'
      <3>1. InUse' = InUse
        BY <1>2, <2>1, <2>4 DEF InUse, Types, bus
      <3> QED
        BY <2>4, <3>1 DEF SemInv, RaceInv, OnceInv, SpoiltInv, Waiting, Committing, bus
    <2> QED
      BY <2>6, <2>7, <2>8, <2>9
  <1> QED
    BY <1>1, <1>2 DEF LogTest

(* Two that use objects at once spoil what these hold, and no more. *)
LEMMA ShareInv ==
  ASSUME IInv, NEW objs, Share(objs), cpc' = "clear" <=> cpc = "clear",
         logged' = logged
  PROVE  /\ \A o \in Objects : data'[o] = data[o] \ Of(objs)
         /\ data' \in [Objects -> SUBSET Entries]
         /\ \A x \in logged : x[2] \in raced' => x \in spoilt'
         /\ \A o \in Objects : \A x \in data'[o] : x \in logged \ spoilt' /\ x[2] = o
         /\ OnceInv' /\ SpoiltInv'
  <1> USE DEF IInv
  <1>1. \A o \in Objects : data'[o] = data[o] \ Of(objs)
    BY DEF Share
  <1>2. data' \in [Objects -> SUBSET Entries]
    BY DEF Share, Types
  <1>3. /\ raced' = raced \cup objs /\ spoilt' = spoilt \cup Of(objs)
        /\ dumped' = dumped \ Of(objs)
    BY DEF Share
  <1>4. \A x \in logged : x[2] \in raced' => x \in spoilt'
    BY <1>3 DEF RaceInv, Of
  <1>5. \A o \in Objects : \A x \in data'[o] : x \in logged \ spoilt' /\ x[2] = o
    BY <1>1, <1>3 DEF RaceInv
  <1>6. Waiting' = Waiting \ Of(objs)
    BY <1>1 DEF Waiting, Objects
  <1>7. OnceInv' /\ SpoiltInv'
    BY <1>3, <1>6 DEF OnceInv, SpoiltInv, Of
  <1> QED
    BY <1>1, <1>2, <1>4, <1>5, <1>7

(* A thread gets the semaphore, or goes on without it, with its entry still *)
(* to add.                                                                 *)
LEMMA LogEnterInv ==
  ASSUME IInv, NEW t \in Threads, LogTake(t) \/ LogInterrupted(t)
  PROVE  IInv'
  <1> USE DEF IInv
  <1> DEFINE objs == {o \in {Head(todo[t])} : o \in InUse \/ Committing}
  <1>1. /\ LogEnter(t)
        /\ \/ sem > 0 /\ sem' = sem - 1 /\ interrupted' = interrupted
           \/ sem = 0 /\ sem' = sem /\ interrupted' = TRUE
    BY DEF LogTake, LogInterrupted
  <1>2. /\ todo[t] # << >> /\ t \notin inside /\ inside' = inside \cup {t}
        /\ Share(objs)
        /\ UNCHANGED setup /\ UNCHANGED <<pc, todo, cpc, logged>>
    BY <1>1 DEF LogEnter
  <1>3. \A u \in Threads : Started(u)' <=> Started(u)
    BY <1>2 DEF Started, setup
  <1>4. InUse' = InUse \cup {Head(todo[t])}
    BY <1>2 DEF InUse
  <1>5. raced' = raced \cup objs /\ spoilt' = spoilt \cup Of(objs)
    BY <1>2 DEF Share
  <1>6. objs # {} => InUse # {} \/ Committing
    OBVIOUS
  <1>7. Committing => objs = {Head(todo[t])}
    OBVIOUS
  <1> HIDE DEF objs
  <1>8. /\ data' \in [Objects -> SUBSET Entries]
        /\ \A x \in logged : x[2] \in raced' => x \in spoilt'
        /\ \A o \in Objects : \A x \in data'[o] : x \in logged \ spoilt' /\ x[2] = o
        /\ OnceInv' /\ SpoiltInv'
    BY <1>2, ShareInv
  <1>9. Types' /\ InPlace'
    BY <1>2, <1>8 DEF Types, InPlace, setup
  <1>10. LogInv'
    BY <1>2, <1>3 DEF LogInv
  <1>11. SemInv'
    <2> SUFFICES ASSUME ~interrupted'
                 PROVE  /\ raced' = {} /\ spoilt' = {} /\ sem' = 0
                        /\ inside' = {t} /\ ~Committing'
      BY DEF SemInv
    <2>1. ~interrupted /\ sem > 0 /\ sem' = sem - 1
      BY <1>1
    <2>2. raced = {} /\ spoilt = {} /\ sem = 1 /\ inside = {} /\ ~Committing
      BY <2>1 DEF SemInv
    <2>3. objs = {}
      BY <1>6, <2>2 DEF InUse
    <2>4. Of(objs) = {}
      BY <2>3 DEF Of
    <2> QED
      BY <1>2, <1>5, <2>1, <2>2, <2>3, <2>4 DEF Committing
  <1>12. RaceInv'
    <2>1. Committing' => InUse' \subseteq raced'
      BY <1>2, <1>4, <1>5, <1>7 DEF RaceInv, Committing
    <2> QED
      BY <1>2, <1>8, <2>1 DEF RaceInv
  <1>13. Numbered'
    BY <1>2, <1>3 DEF Numbered, Types, Entries
  <1> QED
    BY <1>8, <1>9, <1>10, <1>11, <1>12, <1>13

(* The new entry has the number that none of the thread's earlier ones has. *)
LEMMA LogAddInv ==
  ASSUME IInv, NEW t \in Threads, LogAdd(t)
  PROVE  IInv'
  <1> USE DEF IInv
  <1> DEFINE o == Head(todo[t])
             e == <<t, o, Len(todo[t])>>
  <1>1. /\ t \in inside /\ inside' = inside \ {t} /\ sem' = sem + 1
        /\ logged' = logged \cup {e}
        /\ \/ o \in raced /\ spoilt' = spoilt \cup {e} /\ data' = data
           \/ o \notin raced /\ data' = [data EXCEPT ![o] = @ \cup {e}] /\ spoilt' = spoilt
        /\ todo' = [todo EXCEPT ![t] = Tail(@)]
        /\ UNCHANGED setup /\ UNCHANGED <<pc, cpc, raced, dumped, interrupted>>
    BY DEF LogAdd, Entry
  <1>2. todo[t] \in Seq(Objects) /\ todo[t] # << >> /\ Started(t)
    BY <1>1 DEF LogInv, Types
  <1>3. /\ o \in Objects /\ Tail(todo[t]) \in Seq(Objects)
        /\ Len(Tail(todo[t])) = Len(todo[t]) - 1 /\ Len(todo[t]) \in Nat
    BY <1>2, HeadTailProperties
  <1>4. e \in Entries /\ e[1] = t /\ e[2] = o /\ e[3] = Len(todo[t])
    BY <1>3 DEF Entries
  <1>5. e \notin logged
    BY <1>3, <1>4 DEF Numbered
  <1>6. o \in InUse
    BY <1>1 DEF InUse
  <1>7. InUse' \subseteq InUse
    BY <1>1 DEF InUse, Types
  <1> HIDE DEF e, o
  <1>8. \A u \in Threads : Started(u)' <=> Started(u)
    BY <1>1 DEF Started, setup
  <1>9. \A u \in Threads : /\ Len(todo'[u]) <= Len(todo[u]) /\ Len(todo'[u]) \in Nat
                           /\ u # t => todo'[u] = todo[u]
                           /\ u = t => Len(todo'[u]) < Len(todo[u])
    BY <1>1, <1>3 DEF Types
  <1>10. Types' /\ InPlace'
    <2>1. data' \in [Objects -> SUBSET Entries]
      <3>1. data \in [Objects -> SUBSET Entries] /\ data[o] \cup {e} \in SUBSET Entries
        BY <1>3, <1>4 DEF Types
      <3>2. data' = data \/ data' = [data EXCEPT ![o] = data[o] \cup {e}]
        BY <1>1
      <3> QED
        BY ONLY <3>1, <3>2
    <2>2. todo' \in [Threads -> Seq(Objects)]
      BY <1>1, <1>3 DEF Types
    <2> QED
      BY <1>1, <1>4, <2>1, <2>2 DEF Types, InPlace, setup
  <1>11. LogInv'
    BY <1>1, <1>2, <1>8, <1>9 DEF LogInv
  <1>12. SemInv'
    <2> SUFFICES ASSUME ~interrupted'
                 PROVE  /\ raced' = {} /\ spoilt' = {} /\ sem' = 1
                        /\ inside' = {} /\ ~Committing'
      BY DEF SemInv
    <2>1. raced = {} /\ spoilt = {} /\ sem = 0 /\ inside = {t} /\ ~Committing
      BY <1>1 DEF SemInv
    <2> QED
      BY <1>1, <2>1 DEF Committing
  <1>13. RaceInv'
    <2>1. Committing' => InUse' \subseteq raced'
      BY <1>1, <1>7 DEF RaceInv, Committing
    <2>2. CASE o \in raced
      BY <1>1, <1>4, <1>5, <2>1, <2>2 DEF RaceInv
    <2>3. CASE o \notin raced
      <3>1. e \notin spoilt
        BY <1>5 DEF SpoiltInv
      <3>2. \A p \in Objects : data'[p] = IF p = o THEN data[p] \cup {e} ELSE data[p]
        BY <1>1, <2>3 DEF Types
      <3>3. /\ spoilt' = spoilt /\ raced' = raced
            /\ logged' = logged \cup {e} /\ e[2] = o
        BY <1>1, <1>4, <2>3
      <3>4. \A x \in logged' : x[2] \in raced' => x \in spoilt'
        BY <2>3, <3>3 DEF RaceInv
      <3>5. ASSUME NEW p \in Objects, NEW x \in data'[p]
            PROVE  x \in logged' \ spoilt' /\ x[2] = p
        <4>1. x \in data[p] => x \in logged \ spoilt /\ x[2] = p
          BY DEF RaceInv
        <4>2. x \in data[p] \/ (x = e /\ p = o)
          BY <3>2
        <4> QED
          BY ONLY <3>1, <3>3, <4>1, <4>2
      <3> QED
        BY <2>1, <3>4, <3>5 DEF RaceInv
    <2> QED
      BY <2>2, <2>3
  <1>14. Numbered'
    <2>1. \A x \in logged : Started(x[1])' /\ x[3] > Len(todo'[x[1]])
      BY <1>8, <1>9 DEF Numbered, Types, Entries
    <2>2. ASSUME NEW x \in logged', x \notin logged
          PROVE  Started(x[1])' /\ x[3] > Len(todo'[x[1]])
      <3>1. x[1] = t /\ x[3] = Len(todo[t])
        BY <1>1, <1>4, <2>2
      <3> QED
        BY <1>2, <1>3, <1>8, <1>9, <3>1
    <2> QED
      BY ONLY <2>1, <2>2 DEF Numbered
  <1>15. OnceInv'
    <2>1. CASE o \in raced
      <3>1. Waiting' = Waiting
        BY <1>1, <2>1 DEF Waiting
      <3> QED
        BY <1>1, <2>1, <3>1 DEF OnceInv
    <2>2. CASE o \notin raced
      <3>1. cpc # "clear"
        BY <1>6, <2>2 DEF RaceInv, Committing
      <3>2. Waiting' = Waiting \cup {e}
        BY <1>1, <1>3, <2>2 DEF Waiting, Types, Objects
      <3>3. e \notin dumped
        BY <1>5 DEF SpoiltInv
      <3> QED
        BY <1>1, <1>5, <2>2, <3>1, <3>2, <3>3 DEF OnceInv
    <2> QED
      BY <2>1, <2>2
  <1>16. SpoiltInv'
    BY <1>1 DEF SpoiltInv
  <1> QED
    BY <1>10, <1>11, <1>12, <1>13, <1>14, <1>15, <1>16

(* The commit thread: what it dumps is all there is, and what it resets is  *)
(* what it dumped.                                                          *)
LEMMA CommitInv ==
  ASSUME IInv, CommitNext \/ CommitInterrupted
  PROVE  IInv'
  <1> USE DEF IInv
  <1>1. /\ UNCHANGED setup /\ UNCHANGED <<pc, todo, logged, inside>>
        /\ cpc # "off" /\ cpc' \in {"refresh", "take", "dump", "clear", "sleep"}
    BY DEF CommitNext, Refresh, Idle, CommitTake, CommitInterrupted, CommitEnter, Dump,
           Clear, Sleep, CommitGo
  <1>2. \A u \in Threads : Started(u)' <=> Started(u)
    BY <1>1 DEF Started, setup
  <1>3. linked = Objects
    <2>1. stage \in Nat /\ stage > 7
      BY <1>1 DEF InPlace, Types, StartUp
    <2>2. linked \subseteq Objects /\ "msg" \in linked /\ "af" \in linked
      BY <2>1 DEF InPlace
    <2> QED
      BY ONLY <2>2 DEF Objects
  <1>4. InPlace' /\ LogInv' /\ Numbered' /\ InUse' = InUse
    BY <1>1, <1>2 DEF InPlace, LogInv, Numbered, Types, Entries, InUse, setup
  <1>5. CASE Refresh \/ Sleep
    <2>1. /\ UNCHANGED <<sem, data, raced, dumped, spoilt, interrupted>>
          /\ cpc \in {"refresh", "sleep"} /\ cpc' \in {"take", "refresh"}
      BY <1>5 DEF Refresh, Sleep, Idle, CommitGo
    <2>2. Types'
      BY <1>1, <2>1 DEF Types, setup
    <2>3. SemInv' /\ RaceInv' /\ OnceInv' /\ SpoiltInv'
      BY <1>1, <1>4, <2>1 DEF SemInv, RaceInv, OnceInv, SpoiltInv, Waiting, Committing
    <2> QED
      BY <1>4, <2>2, <2>3
  <1>6. CASE CommitTake \/ CommitInterrupted
    <2>1. /\ Share(InUse) /\ cpc = "take" /\ cpc' = "dump"
          /\ \/ sem > 0 /\ sem' = sem - 1 /\ interrupted' = interrupted
             \/ sem = 0 /\ sem' = sem /\ interrupted' = TRUE
      BY <1>6 DEF CommitTake, CommitInterrupted, CommitEnter, CommitGo
    <2>2. /\ data' \in [Objects -> SUBSET Entries]
          /\ \A x \in logged : x[2] \in raced' => x \in spoilt'
          /\ \A o \in Objects : \A x \in data'[o] : x \in logged \ spoilt' /\ x[2] = o
          /\ OnceInv'
      BY <1>1, <2>1, ShareInv
    <2>3. /\ raced' = raced \cup InUse /\ spoilt' = spoilt \cup Of(InUse)
          /\ dumped' = dumped \ Of(InUse)
      BY <2>1 DEF Share
    <2>4. Types'
      BY <1>1, <2>1, <2>2 DEF Types, setup
    <2>5. RaceInv' /\ SpoiltInv'
      BY <1>1, <1>4, <2>2, <2>3 DEF RaceInv, SpoiltInv, Of
    <2>6. SemInv'
      <3> SUFFICES ASSUME ~interrupted'
                   PROVE  /\ raced' = {} /\ spoilt' = {} /\ sem' = 0
                          /\ inside' = {} /\ Committing'
        BY DEF SemInv
      <3>1. raced = {} /\ spoilt = {} /\ sem = 1 /\ inside = {} /\ sem' = 0
        BY <2>1 DEF SemInv
      <3>2. InUse = {}
        BY <3>1 DEF InUse
      <3>3. Of(InUse) = {}
        BY <3>2 DEF Of
      <3> QED
        BY <1>1, <2>1, <2>3, <3>1, <3>2, <3>3 DEF Committing
    <2> QED
      BY <1>4, <2>2, <2>4, <2>5, <2>6
  <1>7. CASE Dump
    <2>1. /\ UNCHANGED <<sem, data, raced, spoilt, interrupted>>
          /\ cpc = "dump" /\ cpc' = "clear"
      BY <1>7 DEF Dump, CommitGo
    <2>2. dumped' = dumped \cup Waiting
      BY <1>3, <1>7 DEF Dump, Waiting, Objects
    <2>3. Waiting \subseteq logged \ spoilt
      BY DEF Waiting, RaceInv, Objects
    <2>4. Types'
      BY <1>1, <2>1 DEF Types, setup
    <2>5. SemInv' /\ RaceInv'
      BY <1>1, <1>4, <2>1 DEF SemInv, RaceInv, Committing
    <2>6. OnceInv' /\ SpoiltInv'
      BY <1>1, <2>1, <2>2, <2>3 DEF OnceInv, SpoiltInv
    <2> QED
      BY <1>4, <2>4, <2>5, <2>6
  <1>8. CASE Clear
    <2>1. /\ cpc = "clear" /\ cpc' = "sleep" /\ sem' = sem + 1
          /\ raced' = raced \cap InUse
          /\ UNCHANGED <<dumped, spoilt, interrupted>>
      BY <1>8 DEF Clear, CommitGo
    <2>2. data' = [o \in Objects |-> {}]
      BY <1>3, <1>8 DEF Clear
    <2>3. Waiting' = {}
      BY <2>2 DEF Waiting, Objects
    <2>4. Types'
      BY <1>1, <2>1, <2>2 DEF Types, setup
    <2>5. RaceInv'
      BY <1>1, <2>1, <2>2 DEF RaceInv, Committing
    <2>6. SemInv'
      <3> SUFFICES ASSUME ~interrupted'
                   PROVE  /\ raced' = {} /\ spoilt' = {} /\ sem' = 1
                          /\ inside' = {} /\ ~Committing'
        BY DEF SemInv
      <3> QED
        BY <1>1, <2>1 DEF SemInv, Committing
    <2>7. OnceInv' /\ SpoiltInv'
      BY <1>1, <2>1, <2>3 DEF OnceInv, SpoiltInv
    <2> QED
      BY <1>4, <2>4, <2>5, <2>6, <2>7
  <1> QED
    BY <1>5, <1>6, <1>7, <1>8 DEF CommitNext

(* Before the first step nothing is set up and nothing logged. *)
LEMMA InitInv == Init => IInv
  <1> SUFFICES ASSUME Init
               PROVE  IInv
    OBVIOUS
  <1> USE DEF Init
  <1>1. Types
    BY DEF Types, StartUp, Threads
  <1>2. InPlace
    BY DEF InPlace
  <1>3. LogInv
    BY Names DEF LogInv
  <1>4. SemInv /\ RaceInv /\ SpoiltInv
    BY DEF SemInv, RaceInv, SpoiltInv, Committing
  <1>5. Numbered /\ OnceInv
    BY DEF Numbered, OnceInv, Waiting, Objects
  <1> QED
    BY <1>1, <1>2, <1>3, <1>4, <1>5 DEF IInv

(* Every step keeps the invariant. *)
LEMMA NextInv == IInv /\ [Next]_vars => IInv'
  <1> SUFFICES ASSUME IInv, [Next]_vars
               PROVE  IInv'
    OBVIOUS
  <1>1. CASE MainNext
    BY <1>1, MainInv, ResetInv DEF MainNext
  <1>2. CASE CommitNext \/ CommitInterrupted
    BY <1>2, CommitInv
  <1>3. ASSUME NEW f \in Frames, FrameNext(f)
        PROVE  IInv'
    BY <1>3, FrameInv
  <1>4. ASSUME NEW t \in Threads, LogNext(t) \/ LogInterrupted(t)
        PROVE  IInv'
    BY <1>4, LogTestInv, LogEnterInv, LogAddInv DEF LogNext
  <1>5. CASE UNCHANGED vars \/ Ruined
    BY <1>5, StopInv DEF vars, Ruined, End
  <1> QED
    BY <1>1, <1>2, <1>3, <1>4, <1>5 DEF Next

(* Whenever the commit thread runs, it walks the bus with both its objects: *)
(* the order of kdInit() is enough, for frames at any time (kbus.cpp:246).  *)
THEOREM WalkedCorrect == Spec => []WalkedWhole
  <1>1. IInv => WalkedWhole
    <2> SUFFICES ASSUME IInv, cpc # "off"
                 PROVE  linked = Objects /\ logger = Objects
      BY DEF WalkedWhole
    <2>1. stage \in Nat /\ stage > 7
      BY DEF IInv, InPlace, Types, StartUp
    <2>2. /\ linked \subseteq Objects /\ "msg" \in linked /\ "af" \in linked
          /\ logger \subseteq Objects /\ "msg" \in logger /\ "af" \in logger
      BY <2>1 DEF IInv, InPlace
    <2> QED
      BY ONLY <2>2 DEF Objects
  <1> QED
    BY <1>1, InitInv, NextInv, PTL DEF Spec

(* No entry of the log is lost between the dump and the reset, and none is  *)
(* written twice, whatever the frames log meanwhile (kbus.cpp:119), but     *)
(* those in an object that two used at once, and before a signal interrupts *)
(* a sem_wait() (kbus.cpp:111) no object is.                               *)
THEOREM EachOnceCorrect == Spec => []EachOnce
  <1>1. IInv => EachOnce
    <2> SUFFICES ASSUME IInv
                 PROVE  EachOnce
      OBVIOUS
    <2>1. UNION {data[o] : o \in Objects} = Waiting
      BY DEF Objects, Waiting
    <2>2. spoilt # {} => interrupted
      BY DEF IInv, SemInv
    <2>3. cpc # "clear" => dumped \ spoilt = logged \ (spoilt \cup Waiting)
      BY DEF IInv, OnceInv
    <2> QED
      BY <2>1, <2>2, <2>3 DEF EachOnce
  <1> QED
    BY <1>1, InitInv, NextInv, PTL DEF Spec
=============================================================================
