------------------------------ MODULE Dispatch ------------------------------
(***************************************************************************)
(* What happens to a frame between the serial driver and the service it is *)
(* for, while the gateway is still starting up: the main thread's          *)
(* initialisation (kappaio.cpp, hal_init(), kdInit(), aps::init(),         *)
(* start_zdo()), the MT dispatcher and its handlers (mtproc.c, mtsys.cpp,  *)
(* mtaf.cpp, mtzdo.cpp, mtutil.cpp, mtdebug.c), and the bus (kbus.cpp) on  *)
(* which all of them log and which a thread of its own writes to a file.   *)
(*                                                                         *)
(* Each frame is handled on a thread of its own (a MessageAssembler).  Of a *)
(* frame the model keeps what the handlers' tests tell apart.              *)
(*                                                                         *)
(* The signal of the serial line, whose handler is installed without       *)
(* SA_RESTART (mtintf.c), may end a sem_wait() that blocks, and kbus.cpp    *)
(* does not look at the result: who was interrupted goes on and posts.     *)
(***************************************************************************)
EXTENDS Naturals, Sequences

CONSTANTS
  Frames,               (* frames, and the threads that handle them      *)
  Main,                 (* the main thread                               *)
  Polls                 (* times start_zdo() asks for the coordinator    *)

ASSUME DispatchAssumption ==
  /\ Main \notin Frames
  /\ Polls \in Nat

VARIABLES
  stage,       (* the step of StartUp that the main thread takes next        *)
  oob,         (* OutOfBandMessageProcess is set                            *)
  line,        (* the serial interface is open                              *)
  linked,      (* the objects in kdFile's list                              *)
  logger,      (* the ones of messagerLogger and afmsgLogger that are set   *)
  self,        (* self_cpp is set                                           *)
  handle,      (* the message handles that are set: subset of {"af", "ext"} *)
  devState,    (* TRUE: 0x09, the coordinator is up                         *)
  polls,       (* start_zdo()'s t                                           *)
  pc,          (* where each frame is: "air", "log", "af", "ext" or "done"   *)
  todo,        (* for each thread, the objects it still has to log to       *)
  sem,         (* kdFile's semaphore                                        *)
  inside,      (* the threads past sem_wait() that have not added yet       *)
  data,        (* the entries in each object, but the spoilt ones           *)
  cpc,         (* where the commit thread is                                *)
  raced,       (* objects in use by two at once, until one resets them alone *)
  dumped,      (* history: the entries that were written to the file        *)
  logged,      (* history: the entries that were added                      *)
  spoilt,      (* history: the ones that were in a raced object             *)
  interrupted, (* history: a signal ended a sem_wait()                      *)
  fault        (* "none", or what ended the process                         *)

setup == <<stage, oob, line, linked, logger, self, handle, polls>>
bus   == <<sem, inside, data, cpc, raced, dumped, logged, spoilt, interrupted>>
vars  == <<setup, devState, pc, todo, bus, fault>>

Threads == Frames \cup {Main}
Objects == {"msg", "af"}

Init ==
  /\ stage = 1
  /\ oob = FALSE /\ line = FALSE /\ self = FALSE /\ devState = FALSE
  /\ linked = {} /\ logger = {} /\ handle = {}
  /\ polls = 0
  /\ pc = [f \in Frames |-> "air"]
  /\ todo = [t \in Threads |-> <<>>]
  /\ sem = 1
  /\ inside = {} /\ raced = {}
  /\ data = [o \in Objects |-> {}]
  /\ cpc = "off"
  /\ dumped = {} /\ logged = {} /\ spoilt = {}
  /\ interrupted = FALSE
  /\ fault = "none"

Up == fault = "none"

End(why) ==
  /\ fault' = why
  /\ UNCHANGED <<setup, devState, pc, todo, bus>>
-----------------------------------------------------------------------------
(* The main thread *)

(* Mutant of StartUp: the bus runs before its second object is there. *)
StartUpRunFirst ==
  <<"mtHelperInit", "MTIntfInit", "msg", "msgSet", "kbRun", "af", "afSet",
    "reset", "SelfInit", "initAF", "initEXT", "start_zdo">>

(* hal_init(), with kdInit() in it, ProcessorReset(), aps::init(),          *)
(* start_zdo().  kbAddObj() takes two steps: the list, then the tree and    *)
(* the logger's pointer.                                                    *)
StartUp ==
  <<"mtHelperInit", "MTIntfInit", "msg", "msgSet", "af", "afSet", "kbRun",
    "reset", "SelfInit", "initAF", "initEXT", "start_zdo">>

At(s) == Up /\ stage <= Len(StartUp) /\ StartUp[stage] = s

MainStep(s) ==
  /\ At(s)
  /\ todo[Main] = <<>>
  /\ stage' = stage + 1

(* setOutOfBandMessageCallBack(mtOOBRecv) *)
MtHelperInit ==
  /\ MainStep("mtHelperInit")
  /\ oob' = TRUE
  /\ UNCHANGED <<line, linked, logger, self, handle, polls, devState, pc,
                 todo, bus, fault>>

(* From here on frames arrive: the coordinator may have been running. *)
MTIntfInit ==
  /\ MainStep("MTIntfInit")
  /\ line' = TRUE
  /\ UNCHANGED <<oob, linked, logger, self, handle, polls, devState, pc,
                 todo, bus, fault>>

(* kbAddObj(): no semaphore is taken. *)
KbAddObj(o) ==
  /\ MainStep(o)
  /\ linked' = linked \cup {o}
  /\ UNCHANGED <<oob, line, logger, self, handle, polls, devState, pc,
                 todo, bus, fault>>

KdInit(o) ==
  /\ MainStep(IF o = "msg" THEN "msgSet" ELSE "afSet")
  /\ logger' = logger \cup {o}
  /\ UNCHANGED <<oob, line, linked, self, handle, polls, devState, pc,
                 todo, bus, fault>>

KbRun ==
  /\ MainStep("kbRun")
  /\ cpc' = "refresh"
  /\ UNCHANGED <<oob, line, linked, logger, self, handle, polls, devState, pc,
                 todo, sem, inside, data, raced, dumped, logged, spoilt,
                 interrupted, fault>>

(* ProcessorReset() and StartSystem(), which log. *)
Reset ==
  /\ MainStep("reset")
  /\ todo' = [todo EXCEPT ![Main] = <<"msg">>]
  /\ UNCHANGED <<oob, line, linked, logger, self, handle, polls, devState, pc,
                 bus, fault>>

SelfInit ==
  /\ MainStep("SelfInit")
  /\ self' = TRUE
  /\ UNCHANGED <<oob, line, linked, logger, handle, polls, devState, pc,
                 todo, bus, fault>>

ApsdbInit(h) ==
  /\ MainStep(IF h = "af" THEN "initAF" ELSE "initEXT")
  /\ handle' = handle \cup {h}
  /\ UNCHANGED <<oob, line, linked, logger, self, polls, devState, pc,
                 todo, bus, fault>>

(* Mutant of StartZdo: no bound on the polls. *)
StartZdoForEver ==
  /\ MainStep("start_zdo")
  /\ devState
  /\ UNCHANGED <<oob, line, linked, logger, self, handle, polls, devState, pc,
                 todo, bus, fault>>

(* start_zdo() asks zdoCoordReady() once a second, Polls times. *)
StartZdo ==
  /\ \/ /\ MainStep("start_zdo")
        /\ devState \/ polls = Polls
        /\ UNCHANGED polls
     \/ /\ At("start_zdo") /\ todo[Main] = <<>>
        /\ ~devState /\ polls < Polls
        /\ polls' = polls + 1
        /\ UNCHANGED stage
  /\ UNCHANGED <<oob, line, linked, logger, self, handle, devState, pc,
                 todo, bus, fault>>
-----------------------------------------------------------------------------
(* A frame *)

(* MT_ProcessIncoming(): the frame f comes to the handler that the table     *)
(* has for its subsystem, which leaves it at step to with what it logs.      *)
(* OutOfBandMessageProcess is called before, set or not.                     *)
Incoming(f, to, logs) ==
  /\ Up
  /\ line
  /\ pc[f] = "air"
  /\ pc' = [pc EXCEPT ![f] = to]
  /\ todo' = [todo EXCEPT ![f] = logs]
  /\ fault' = IF oob THEN fault ELSE "null"

(* Nobody answers for a frame that is too long or of a subsystem beyond the *)
(* table; mtOOBRecv() takes the answer to a kick; an empty entry of the     *)
(* table logs the frame.                                                    *)
MT_ProcessIncoming(f) ==
  /\ \E logs \in {<<>>, <<"msg">>} : Incoming(f, "log", logs)
  /\ UNCHANGED <<setup, devState, bus>>

(* What mtRecv() gives to a waiting call is the MT channel's; the rest is   *)
(* logged, and once more when the command is unknown.                       *)
MT_SysCommandProcessing(f) ==
  /\ \E logs \in {<<>>, <<"msg">>, <<"msg", "msg">>} : Incoming(f, "log", logs)
  /\ UNCHANGED <<setup, devState, bus>>

MT_UtilCommandProcessing(f) ==
  /\ \E logs \in {<<>>, <<"msg">>, <<"msg", "msg">>} : Incoming(f, "log", logs)
  /\ UNCHANGED <<setup, devState, bus>>

(* A change of state is logged; the other commands do nothing. *)
MT_ZdoCommandProcessing(f) ==
  /\ \/ /\ Incoming(f, "log", <<>>)
        /\ UNCHANGED devState
     \/ /\ Incoming(f, "log", <<"msg">>)
        /\ devState' \in BOOLEAN
  /\ UNCHANGED <<setup, bus>>

(* Of the messages only the plain ones are logged; a confirmation, whose    *)
(* effect is the MT channel's, and an unknown command end here.             *)
MT_AfCommandProcessing(f) ==
  /\ \/ Incoming(f, "af", <<"af">>)
     \/ Incoming(f, "ext", <<>>)
     \/ Incoming(f, "log", <<>>)
  /\ UNCHANGED <<setup, devState, bus>>

(* The handler takes the length as a char: where that is signed, a length   *)
(* of 128 and more makes it write before its buffer.                        *)
MT_DebugCommandProcessing(f) ==
  \/ /\ Incoming(f, "log", <<"msg">>)
     /\ UNCHANGED <<setup, devState, bus>>
  \/ /\ Up
     /\ line
     /\ pc[f] = "air"
     /\ End("index")

Finish(f) ==
  /\ pc' = [pc EXCEPT ![f] = "done"]
  /\ UNCHANGED <<setup, devState, todo, bus, fault>>

Logged(f) ==
  /\ Up
  /\ pc[f] = "log" /\ todo[f] = <<>>
  /\ Finish(f)

(* MTAFIncomingMsgProc() and MTAFIncomingMsgEXTProc() call the handle, set  *)
(* or not, and apsMessageIndicate() takes self_cpp as it is.                *)
Deliver(f) ==
  /\ Up
  /\ pc[f] \in {"af", "ext"} /\ todo[f] = <<>>
  /\ IF self /\ pc[f] \in handle THEN Finish(f) ELSE End("null")
-----------------------------------------------------------------------------
(* Who uses an object: a thread past sem_wait() the one it adds to, the     *)
(* commit thread all of them.                                              *)

Committing == cpc \in {"dump", "clear"}
InUse      == {Head(todo[t]) : t \in inside}
Of(objs)   == {x \in logged : x[2] \in objs}

(* Two use the objects objs at once.  What these hold is open from then on, *)
(* until they are reset, and so is whether an entry is overwritten, written *)
(* or back after it was: their entries are spoilt, and no longer followed.  *)
Share(objs) ==
  /\ raced' = raced \cup objs
  /\ spoilt' = spoilt \cup Of(objs)
  /\ data' = [o \in Objects |-> data[o] \ Of(objs)]
  /\ dumped' = dumped \ Of(objs)

(* A race may end the process, at once or by what it did to the heap.      *)
Ruined ==
  /\ Up
  /\ raced \cup spoilt # {}
  /\ End("race")
-----------------------------------------------------------------------------
(* kdTraceLog(), kdAPSMessageLog(), and kbAddStr(), kbAddJSON() *)

Entry(t) == <<t, Head(todo[t]), Len(todo[t])>>

(* Only kdTraceLog() looks whether there is a logger. *)
LogTest(t) ==
  /\ Up /\ todo[t] # <<>> /\ t \notin inside
  /\ Head(todo[t]) \notin logger
  /\ IF Head(todo[t]) = "msg"
     THEN /\ todo' = [todo EXCEPT ![t] = Tail(@)]
          /\ UNCHANGED <<setup, devState, pc, bus, fault>>
     ELSE End("null")

LogEnter(t) ==
  /\ Up /\ todo[t] # <<>> /\ t \notin inside
  /\ Head(todo[t]) \in logger
  /\ inside' = inside \cup {t}
  /\ Share({o \in {Head(todo[t])} : o \in InUse \/ Committing})
  /\ UNCHANGED <<setup, devState, pc, todo, cpc, logged, fault>>

LogTake(t) ==
  /\ LogEnter(t)
  /\ sem > 0
  /\ sem' = sem - 1
  /\ UNCHANGED interrupted

(* sem_wait() blocks and a signal ends it: EINTR. *)
LogInterrupted(t) ==
  /\ LogEnter(t)
  /\ line /\ sem = 0
  /\ interrupted' = TRUE
  /\ UNCHANGED sem

(* json_array_append_new() and sem_post(). *)
LogAdd(t) ==
  LET o == Head(todo[t]) IN
  /\ Up /\ t \in inside
  /\ logged' = logged \cup {Entry(t)}
  /\ IF o \in raced
     THEN spoilt' = spoilt \cup {Entry(t)} /\ UNCHANGED data
     ELSE data' = [data EXCEPT ![o] = @ \cup {Entry(t)}] /\ UNCHANGED spoilt
  /\ todo' = [todo EXCEPT ![t] = Tail(@)]
  /\ inside' = inside \ {t}
  /\ sem' = sem + 1
  /\ UNCHANGED <<setup, devState, pc, cpc, raced, dumped, interrupted, fault>>
-----------------------------------------------------------------------------
(* kbSchdule() and kbCommit() *)

CommitGo(from, to) ==
  /\ Up
  /\ cpc = from
  /\ cpc' = to
  /\ UNCHANGED <<setup, devState, pc, todo, inside, logged, fault>>

Idle(from, to) ==
  /\ CommitGo(from, to)
  /\ UNCHANGED <<sem, data, raced, dumped, spoilt, interrupted>>

(* The walk for refreshers, without the semaphore. *)
Refresh == Idle("refresh", "take")

CommitEnter ==
  /\ CommitGo("take", "dump")
  /\ Share(InUse)

CommitTake ==
  /\ CommitEnter
  /\ sem > 0
  /\ sem' = sem - 1
  /\ UNCHANGED interrupted

CommitInterrupted ==
  /\ CommitEnter
  /\ line /\ sem = 0
  /\ interrupted' = TRUE
  /\ UNCHANGED sem

(* Mutant of Dump: the semaphore is posted as soon as the file is written. *)
DumpPosts ==
  /\ CommitGo("dump", "clear")
  /\ dumped' = dumped \cup UNION {data[o] : o \in linked}
  /\ sem' = sem + 1
  /\ UNCHANGED <<data, raced, spoilt, interrupted>>

(* json_dump_file(): the file holds what was added since the last time. *)
Dump ==
  /\ CommitGo("dump", "clear")
  /\ dumped' = dumped \cup UNION {data[o] : o \in linked}
  /\ UNCHANGED <<sem, data, raced, spoilt, interrupted>>

(* resetKbData() of every object, and sem_post().  An object that somebody  *)
(* is adding to meanwhile is not reset for certain.                        *)
Clear ==
  /\ CommitGo("clear", "sleep")
  /\ data' = [o \in Objects |-> IF o \in linked THEN {} ELSE data[o]]
  /\ raced' = raced \cap InUse
  /\ sem' = sem + 1
  /\ UNCHANGED <<dumped, spoilt, interrupted>>

(* Mutant of Sleep: the schedule ends after one commit. *)
SleepOnce == Idle("sleep", "off")

Sleep == Idle("sleep", "refresh")
-----------------------------------------------------------------------------
MainNext ==
  \/ MtHelperInit \/ MTIntfInit \/ KbRun \/ Reset \/ SelfInit \/ StartZdo
  \/ \E o \in Objects : KbAddObj(o) \/ KdInit(o)
  \/ \E h \in {"af", "ext"} : ApsdbInit(h)

FrameNext(f) ==
  \/ MT_ProcessIncoming(f)
  \/ MT_SysCommandProcessing(f) \/ MT_AfCommandProcessing(f)
  \/ MT_ZdoCommandProcessing(f) \/ MT_UtilCommandProcessing(f)
  \/ MT_DebugCommandProcessing(f)
  \/ Logged(f) \/ Deliver(f)

LogNext(t) == LogTest(t) \/ LogTake(t) \/ LogAdd(t)

CommitNext == Refresh \/ CommitTake \/ Dump \/ Clear \/ Sleep

Next ==
  \/ MainNext \/ CommitNext
  \/ \E f \in Frames : FrameNext(f)
  \/ \E t \in Threads : LogNext(t) \/ LogInterrupted(t)
  \/ CommitInterrupted \/ Ruined

Spec == Init /\ [][Next]_vars

(* The main thread and those of the frames take finitely many steps: as     *)
(* long as one of them can go on, time and again, one does, so that the     *)
(* commit thread does not keep the semaphore from all of them for ever; and *)
(* that one goes on too.  No signal need come.                              *)
Progress ==
  \/ MainNext
  \/ \E f \in Frames : Logged(f) \/ Deliver(f)
  \/ \E t \in Threads : LogNext(t)

FairSpec == Spec /\ SF_vars(Progress) /\ WF_vars(CommitNext)
-----------------------------------------------------------------------------
(* Until a signal interrupts a wait, every entry that a thread added to the *)
(* log is waiting in its object, or was written to the file: none is lost   *)
(* between the dump and the reset of the objects, and none written twice.   *)
(* Afterwards this holds of every entry whose object was not in use by two  *)
(* at once before it was reset.                                             *)
EachOnce ==
  /\ spoilt # {} => interrupted
  /\ cpc # "clear" =>
       dumped \ spoilt = logged \ (spoilt \cup UNION {data[o] : o \in Objects})

(* The commit thread walks the objects without the semaphore, and kbAddObj()*)
(* extends them without it: the order of kdInit() keeps them apart.         *)
WalkedWhole == cpc # "off" => linked = Objects /\ logger = Objects

(* What is logged reaches the file, while the process lives: time and again *)
(* there is nothing left to write, and no object that two spoilt.           *)
LogsWritten ==
  []<>(~Up \/ (raced = {} /\ \A o \in Objects : data[o] = {}))

(* The main thread gets through its initialisation, whether the coordinator *)
(* ever says that it is up or not.                                          *)
StartsUp == <>(stage > Len(StartUp) \/ ~Up)
=============================================================================
