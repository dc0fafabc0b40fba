----------------------------- MODULE MtChannel -----------------------------
(***************************************************************************)
(* The MT channel of one subsystem of the coordinator (mt_helper.cpp):     *)
(* mtSend() writes a command to the serial line and waits for at most one  *)
(* second; mtRecv(), run by the message assembler that read a response,    *)
(* copies it into the waiting call's buffer and writes the call's status.  *)
(*                                                                         *)
(* A call names mtSend()'s frame (its rtn and its reply buffer), its send  *)
(* thread, the response to that thread's command, and the mtRecv() that    *)
(* handles that response: the coordinator answers a command at most once,  *)
(* and the serial driver hands a frame to one assembler.  Every caller     *)
(* that waits passes a buffer and no callback.                             *)
(*                                                                         *)
(* A byte on the serial line raises a signal whose handler is installed    *)
(* without SA_RESTART (mtintf.c): it may end a sem_wait() that blocks, and *)
(* mtSend(), which does not look at the result, goes on all the same.      *)
(***************************************************************************)
EXTENDS Naturals, FiniteSets

CONSTANTS
  Calls,       (* calls of mtSend() that wait for a response *)
  Cmds,        (* command identifiers                        *)
  None         (* a pointer that is not set                  *)

ASSUME NoneAssumption ==
  /\ None \notin Calls \cup Cmds
  /\ None \notin {"send", "recv"} \X Calls

ASSUME CallsAssumption == IsFiniteSet(Calls)

VARIABLES
  up,          (* the process runs                                          *)
  sem,         (* the subsystem's semaphore                                 *)
  mutex,       (* <<side, call>>: the thread that holds the mutex, or None  *)
  replyTo,     (* returnBuffer: the call whose buffer takes the response    *)
  request,     (* request: the call whose command is sent                   *)
  expected,    (* rspCmdId                                                  *)
  statusOf,    (* sendStatus: the call whose rtn is written                 *)
  sendThread,  (* sendThread: the call that created the latest send thread  *)
  response,    (* response: the message to copy                             *)
  recvOf,      (* recvStatus: the mtRecv() whose status is written          *)
  pc,          (* where each mtSend() is                                    *)
  spc,         (* where its send thread is                                  *)
  joins,       (* the send thread it waits for                              *)
  asked,       (* the call whose command its send thread sent               *)
  cmd,         (* the command of each call                                  *)
  rtn,         (* TRUE: the call's rtn says success                         *)
  got,         (* the message in each call's reply buffer                   *)
  mpc,         (* where each response, or its receive thread, is            *)
  away,        (* mtRecv()s that returned before their receive thread ended *)
  late,        (* history: a call returned before its send thread, or ahead *)
               (* of its response                                           *)
  barged,      (* history: calls whose sem_wait() was interrupted           *)
  crowd        (* history: calls that had the subsystem with another        *)

channel == <<replyTo, request, expected, statusOf, sendThread>>
calls   == <<joins, asked, cmd, rtn, got>>
history == <<late, barged, crowd>>
vars == <<up, sem, mutex, channel, response, recvOf, pc, spc, calls, mpc, away,
          history>>

CallStates == {"idle", "taken", "buffered", "requested", "expecting", "ready",
               "spawned", "joining", "done"}
ThreadStates == {"none", "created", "sending", "waiting", "signalled",
                 "expired", "ended"}
MessageStates == {"unsent", "air", "matched", "offered", "probing",
                  "deliver", "copying", "copied", "done"}

Live(c)     == pc[c] \notin {"idle", "done"}           (* mtSend()'s frame exists *)
Receiving(r) == mpc[r] \in {"deliver", "copying", "copied"}
Handled(r)  == mpc[r] \in {"matched", "offered", "probing"} \/ Receiving(r)
InFlight(r) == mpc[r] = "air" \/ Handled(r)
Kept(r)     == r \in Calls /\ Handled(r) /\ r \notin away (* mtRecv()'s frame exists *)

(***************************************************************************)
(* A write of v through a pointer to the frame of t.  When that frame is   *)
(* gone the stack it was on holds something else: nothing that matters,    *)
(* or the frame of a later call (or the process ends, see Crash).          *)
(***************************************************************************)
Written(f, t, v) ==
  IF t \in Calls /\ Live(t)
  THEN {[f EXCEPT ![t] = v]}
  ELSE {f} \cup {[f EXCEPT ![d] = v] : d \in {e \in Calls : Live(e)}}

(* A read of the request of t: when the frame is gone, what it held or the *)
(* request of a later call or, None, no command that is answered.          *)
RequestOf(t) ==
  IF Live(t) THEN {t} ELSE {t, None} \cup {d \in Calls : Live(d)}

Init ==
  /\ up = TRUE
  /\ sem = 1
  /\ mutex = None
  /\ replyTo = None
  /\ request = None
  /\ expected = None
  /\ statusOf = None
  /\ sendThread = None
  /\ response = None
  /\ recvOf = None
  /\ pc = [c \in Calls |-> "idle"]
  /\ spc = [c \in Calls |-> "none"]
  /\ joins = [c \in Calls |-> None]
  /\ asked = [c \in Calls |-> None]
  /\ cmd = [c \in Calls |-> None]
  /\ rtn = [c \in Calls |-> FALSE]
  /\ got = [c \in Calls |-> None]
  /\ mpc = [r \in Calls |-> "unsent"]
  /\ away = {}
  /\ late = FALSE
  /\ barged = {}
  /\ crowd = {}
-----------------------------------------------------------------------------
(* mtSend() *)

Go(c, from, to) ==
  /\ up
  /\ pc[c] = from
  /\ pc' = [pc EXCEPT ![c] = to]

(* rtn = -1, and past sem_wait(), alone or not. *)
Enter(c) ==
  /\ Go(c, "idle", "taken")
  /\ \E k \in Cmds : cmd' = [cmd EXCEPT ![c] = k]
  /\ LET others == {d \in Calls : Live(d)}
     IN  crowd' = IF others = {} THEN crowd ELSE crowd \cup others \cup {c}
  /\ UNCHANGED <<up, mutex, channel, response, recvOf, spc, joins, asked, rtn,
                 got, mpc, away, late>>

(* Mutant of Acquire: the semaphore is taken without waiting for it. *)
AcquireTry(c) ==
  /\ Enter(c)
  /\ sem' = IF sem > 0 THEN sem - 1 ELSE sem
  /\ UNCHANGED barged

(* sem_wait() of the subsystem. *)
Acquire(c) ==
  /\ Enter(c)
  /\ sem > 0
  /\ sem' = sem - 1
  /\ UNCHANGED barged

(* sem_wait() blocks and a signal ends it: EINTR, and nothing is taken. *)
Interrupted(c) ==
  /\ Enter(c)
  /\ sem = 0
  /\ barged' = barged \cup {c}
  /\ UNCHANGED sem

(* returnBuffer, bufferSize and callback: written without the mutex. *)
SetBuffer(c) ==
  /\ Go(c, "taken", "buffered")
  /\ replyTo' = c
  /\ UNCHANGED <<up, sem, mutex, request, expected, statusOf, sendThread,
                 response, recvOf, spc, calls, mpc, away, history>>

SetRequest(c) ==
  /\ Go(c, "buffered", "requested")
  /\ request' = c
  /\ UNCHANGED <<up, sem, mutex, replyTo, expected, statusOf, sendThread,
                 response, recvOf, spc, calls, mpc, away, history>>

SetExpected(c) ==
  /\ Go(c, "requested", "expecting")
  /\ expected' = cmd[c]
  /\ UNCHANGED <<up, sem, mutex, replyTo, request, statusOf, sendThread,
                 response, recvOf, spc, calls, mpc, away, history>>

(* Mutant of SetStatus: sendStatus keeps the previous call's rtn. *)
SetStatusForgotten(c) ==
  /\ Go(c, "expecting", "ready")
  /\ statusOf' = IF statusOf = None THEN c ELSE statusOf
  /\ UNCHANGED <<up, sem, mutex, replyTo, request, expected, sendThread,
                 response, recvOf, spc, calls, mpc, away, history>>

SetStatus(c) ==
  /\ Go(c, "expecting", "ready")
  /\ statusOf' = c
  /\ UNCHANGED <<up, sem, mutex, replyTo, request, expected, sendThread,
                 response, recvOf, spc, calls, mpc, away, history>>

(* pthread_create() writes the handle before the thread runs. *)
Spawn(c) ==
  /\ Go(c, "ready", "spawned")
  /\ sendThread' = c
  /\ spc' = [spc EXCEPT ![c] = "created"]
  /\ UNCHANGED <<up, sem, mutex, replyTo, request, expected, statusOf,
                 response, recvOf, calls, mpc, away, history>>

(* pthread_join() of the handle that is there. *)
Join(c) ==
  /\ Go(c, "spawned", "joining")
  /\ joins' = [joins EXCEPT ![c] = sendThread]
  /\ UNCHANGED <<up, sem, mutex, channel, response, recvOf, spc, asked, cmd,
                 rtn, got, mpc, away, history>>

(* Two calls join one thread, which is undefined: pthread_join() waits,    *)
(* returns at once or ends the process.                                    *)
JoinedTwice(c) ==
  pc[c] = "joining" /\ \E d \in Calls \ {c} : joins[d] = joins[c]

(* Mutant of Release: a call that failed returns before sem_post(). *)
ReleaseOnSuccess(c) ==
  /\ Go(c, "joining", "done")
  /\ spc[joins[c]] = "ended" \/ JoinedTwice(c)
  /\ sem' = IF rtn[c] THEN sem + 1 ELSE sem
  /\ late' = (late \/ spc[c] # "ended" \/ InFlight(c))
  /\ UNCHANGED <<up, mutex, channel, response, recvOf, spc, calls, mpc, away,
                 barged, crowd>>

(* pthread_join() is over: sem_post() and return rtn. *)
Release(c) ==
  /\ Go(c, "joining", "done")
  /\ spc[joins[c]] = "ended" \/ JoinedTwice(c)
  /\ sem' = sem + 1
  /\ late' = (late \/ spc[c] # "ended" \/ InFlight(c))
  /\ UNCHANGED <<up, mutex, channel, response, recvOf, spc, calls, mpc, away,
                 barged, crowd>>
-----------------------------------------------------------------------------
(* sendThread(), created by call c *)

Run(c, from, to) ==
  /\ up
  /\ spc[c] = from
  /\ spc' = [spc EXCEPT ![c] = to]

(* The command of the request is on the line: its response is under way. *)
Sent(c) ==
  /\ \E d \in RequestOf(request) :
       /\ asked' = [asked EXCEPT ![c] = d]
       /\ mpc' = [mpc EXCEPT ![c] = IF d = None THEN "done" ELSE "air"]
  /\ UNCHANGED <<up, sem, channel, response, recvOf, pc, joins, cmd, rtn, got,
                 away, history>>

(* Mutant of Transmit: the command is sent before the mutex is taken. *)
TransmitUnlocked(c) ==
  /\ Run(c, "created", "sending")
  /\ Sent(c)
  /\ UNCHANGED mutex

(* The send thread locks the mutex and sends the command. *)
Transmit(c) ==
  /\ Run(c, "created", "sending")
  /\ mutex = None
  /\ mutex' = <<"send", c>>
  /\ Sent(c)

(* pthread_cond_timedwait() frees the mutex and blocks in one step. *)
Wait(c) ==
  /\ Run(c, "sending", "waiting")
  /\ mutex' = None
  /\ UNCHANGED <<up, sem, channel, response, recvOf, pc, calls, mpc, away,
                 history>>

(* The second is over, or the wait ends without cause, which POSIX allows *)
(* and nothing re-tests.                                                  *)
WaitEnds(c) ==
  /\ Run(c, "waiting", "expired") \/ Run(c, "waiting", "signalled")
  /\ UNCHANGED <<up, sem, mutex, channel, response, recvOf, pc, calls, mpc,
                 away, history>>

(* The send thread has the mutex back; after a timeout it resets the serial *)
(* interface, which discards unread input; it unlocks and ends.             *)
Resume(c) ==
  /\ mutex = None
  /\ \/ Run(c, "signalled", "ended") /\ UNCHANGED mpc
     \/ /\ Run(c, "expired", "ended")
        /\ \E lost \in SUBSET {r \in Calls : mpc[r] = "air"} :
             mpc' = [r \in Calls |-> IF r \in lost THEN "done" ELSE mpc[r]]
  /\ UNCHANGED <<up, sem, mutex, channel, response, recvOf, pc, calls, away,
                 history>>
-----------------------------------------------------------------------------
(* mtRecv() and its receive thread, for the response to call r *)

Move(r, from, to) ==
  /\ up
  /\ mpc[r] = from
  /\ mpc' = [mpc EXCEPT ![r] = to]

(* The line loses a response, or its checksum is wrong. *)
Lose(r) ==
  /\ Move(r, "air", "done")
  /\ UNCHANGED <<up, sem, mutex, channel, response, recvOf, pc, spc, calls,
                 away, history>>

(* rspCmdId is compared with the message's command. *)
Match(r) ==
  /\ \/ Move(r, "air", "matched") /\ expected = cmd[asked[r]]
     \/ Move(r, "air", "done") /\ expected # cmd[asked[r]]
  /\ UNCHANGED <<up, sem, mutex, channel, response, recvOf, pc, spc, calls,
                 away, history>>

Offer(r) ==
  /\ Move(r, "matched", "offered")
  /\ response' = r
  /\ UNCHANGED <<up, sem, mutex, channel, recvOf, pc, spc, calls, away,
                 history>>

(* Mutant of TryWait: the semaphore is only looked at. *)
TryWaitLook(r) ==
  /\ \/ sem > 0 /\ Move(r, "offered", "probing") /\ UNCHANGED recvOf
     \/ sem = 0 /\ Move(r, "offered", "deliver") /\ recvOf' = r
  /\ UNCHANGED <<up, sem, mutex, channel, response, pc, spc, calls, away,
                 history>>

(* sem_trywait(): it succeeds when no call has the channel, and fails as   *)
(* well when another mtRecv() holds the semaphore for a moment.            *)
TryWait(r) ==
  /\ \/ /\ sem > 0
        /\ Move(r, "offered", "probing")
        /\ sem' = sem - 1
        /\ UNCHANGED recvOf
     \/ /\ sem = 0
        /\ Move(r, "offered", "deliver")
        /\ recvOf' = r
        /\ UNCHANGED sem
  /\ UNCHANGED <<up, mutex, channel, response, pc, spc, calls, away, history>>

(* Nobody waits: sem_post(), and mtRecv() returns -1. *)
Refuse(r) ==
  /\ Move(r, "probing", "done")
  /\ sem' = sem + 1
  /\ UNCHANGED <<up, mutex, channel, response, recvOf, pc, spc, calls, away,
                 history>>

(* The receive thread locks the mutex. *)
RecvLock(r) ==
  /\ Move(r, "deliver", "copying")
  /\ mutex = None
  /\ mutex' = <<"recv", r>>
  /\ UNCHANGED <<up, sem, channel, response, recvOf, pc, spc, calls, away,
                 history>>

(* Two mtRecv()s at once share recvThread as well and join one thread: one *)
(* may return, and take its message with it, before its own thread ends.   *)
Overtaken(r) ==
  Receiving(r) /\ (recvOf # r \/ \E q \in Calls \ {r} : Receiving(q))

Desert(r) ==
  /\ up
  /\ Overtaken(r)
  /\ away' = away \cup {r}
  /\ UNCHANGED <<up, sem, mutex, channel, response, recvOf, pc, spc, calls,
                 mpc, history>>

(* memcpy() from response to returnBuffer.  The message of an mtRecv() that *)
(* has returned may hold anything.                                          *)
Copy(r) ==
  /\ Move(r, "copying", "copied")
  /\ \E msg \in IF Kept(response) THEN {response} ELSE Calls \cup {None} :
       got' \in Written(got, replyTo, msg)
  /\ UNCHANGED <<up, sem, mutex, channel, response, recvOf, pc, spc, joins,
                 asked, cmd, rtn, away, history>>

(* pthread_cond_signal() wakes the send thread that waits, if one does. *)
Signal ==
  LET waiting == {c \in Calls : spc[c] = "waiting"} IN
  \/ waiting = {} /\ UNCHANGED spc
  \/ \E c \in waiting : spc' = [spc EXCEPT ![c] = "signalled"]

(* Mutant of WriteStatus: only *recvStatus is written. *)
WriteStatusRecvOnly(r) ==
  /\ Move(r, "copied", "done")
  /\ Signal
  /\ mutex' = None
  /\ UNCHANGED <<up, sem, channel, response, recvOf, pc, calls, away, history>>

(* *sendStatus = *recvStatus = 0; signal; unlock; mtRecv() returns. *)
WriteStatus(r) ==
  /\ Move(r, "copied", "done")
  /\ rtn' \in Written(rtn, statusOf, TRUE)
  /\ Signal
  /\ mutex' = None
  /\ UNCHANGED <<up, sem, channel, response, recvOf, pc, joins, asked, cmd,
                 got, away, history>>
-----------------------------------------------------------------------------
(* The receive thread is about to read or write a frame that is gone. *)
Stray(r) ==
  \/ mpc[r] = "copying" /\ ~(Kept(response) /\ replyTo \in Calls /\ Live(replyTo))
  \/ mpc[r] = "copied"  /\ ~(Kept(recvOf) /\ statusOf \in Calls /\ Live(statusOf))

(* A stray access, by a send thread too, or a second join may end the      *)
(* process.                                                                *)
Crash ==
  /\ up
  /\ \E c \in Calls : \/ Stray(c) \/ JoinedTwice(c) \/ Overtaken(c)
                      \/ spc[c] = "created" /\ ~Live(request)
  /\ up' = FALSE
  /\ UNCHANGED <<sem, mutex, channel, response, recvOf, pc, spc, calls, mpc,
                 away, history>>

SendStep(c) ==
  \/ SetBuffer(c) \/ SetRequest(c) \/ SetExpected(c) \/ SetStatus(c)
  \/ Spawn(c) \/ Join(c) \/ Release(c)

ThreadStep(c) == Transmit(c) \/ Wait(c) \/ WaitEnds(c) \/ Resume(c)

RecvStep(r) ==
  \/ Offer(r) \/ TryWait(r) \/ Refuse(r) \/ RecvLock(r) \/ Copy(r)
  \/ WriteStatus(r)

Next ==
  \/ \E c \in Calls : \/ Acquire(c) \/ Interrupted(c) \/ SendStep(c)
                      \/ ThreadStep(c) \/ Lose(c) \/ Match(c) \/ RecvStep(c)
                      \/ Desert(c)
  \/ Crash

Spec == Init /\ [][Next]_vars

(***************************************************************************)
(* Threads run and the timed wait ends: every call takes finitely many     *)
(* steps, so it is enough that some step of some thread is taken as long   *)
(* as one can be.  Not counted on are Match, since the coordinator may not *)
(* answer, and Interrupted, since no signal need come: a call that waits   *)
(* needs the semaphore.                                                    *)
(***************************************************************************)
Fairness ==
  WF_vars(\E c \in Calls :
            Acquire(c) \/ SendStep(c) \/ ThreadStep(c) \/ RecvStep(c))

FairSpec == Spec /\ Fairness

-----------------------------------------------------------------------------
(* Every variable of mtSend() and mtRecv() keeps its type. *)
TypeOK ==
  /\ up \in BOOLEAN
  /\ sem \in Nat
  /\ mutex \in ({"send", "recv"} \X Calls) \cup {None}
  /\ {replyTo, request, statusOf, sendThread, response, recvOf}
       \subseteq Calls \cup {None}
  /\ expected \in Cmds \cup {None}
  /\ pc \in [Calls -> CallStates]
  /\ spc \in [Calls -> ThreadStates]
  /\ joins \in [Calls -> Calls \cup {None}]
  /\ asked \in [Calls -> Calls \cup {None}]
  /\ cmd \in [Calls -> Cmds \cup {None}]
  /\ rtn \in [Calls -> BOOLEAN]
  /\ got \in [Calls -> Calls \cup {None}]
  /\ mpc \in [Calls -> MessageStates]
  /\ away \subseteq Calls
  /\ late \in BOOLEAN
  /\ barged \subseteq Calls
  /\ crowd \subseteq Calls

(* The semaphore and those it let in, calls and the mtRecv()s that ask     *)
(* whether a call waits, are always one more than the interrupted waits:   *)
(* whatever is late, a call meets another only through an interrupted      *)
(* wait, and every such wait raises the semaphore for good.                *)
TurnsCounted ==
  sem + Cardinality({c \in Calls : Live(c)})
      + Cardinality({r \in Calls : mpc[r] = "probing"})
    = 1 + Cardinality(barged)

(* While no call has returned ahead of its response: the frames that a     *)
(* receive thread reads and writes for a call that had its turn to itself  *)
(* exist, and they are the right ones.                                     *)
FramesExact ==
  ~late => \A r \in Calls \ crowd : mpc[r] \in {"copying", "copied"} =>
             /\ response = r /\ recvOf = r /\ Kept(r)
             /\ replyTo = r /\ statusOf = r /\ Live(r)

(* While no call has returned ahead of its response: a call that had its   *)
(* turn to itself returns success with the response to its own command in  *)
(* its buffer, and failure with nothing in it, also after others crowded.  *)
ResultTrue ==
  ~late => \A c \in Calls \ crowd : pc[c] = "done" =>
             IF rtn[c] THEN got[c] = c /\ asked[c] = c ELSE got[c] = None

(* While no call has returned ahead of its response: no send thread of a   *)
(* call that has its turn to itself sleeps through its signal, since the   *)
(* command is sent with the mutex held.                                    *)
NoLostSignal ==
  ~late => \A c \in Calls \ crowd : spc[c] \in {"sending", "waiting"} => ~rtn[c]

(* Every call of mtSend() gets its turn and returns, whatever is lost or   *)
(* late and whoever comes in by an interrupted wait, unless a stray access *)
(* ends the process.                                                       *)
EveryCallReturns == up ~> (~up \/ \A c \in Calls : pc[c] = "done")
-----------------------------------------------------------------------------
(* As long as no response is late, the calls that have their turns to      *)
(* themselves use the channel as Exchange says, but that one leaves them   *)
(* when another comes in beside it.                                        *)
Promise ==
  INSTANCE Exchange WITH
    turn      <- {c \in Calls \ crowd : Live(c)},
    answered  <- {c \in Calls \ crowd : rtn[c] /\ got[c] = c},
    succeeded <- {c \in Calls \ crowd : pc[c] = "done" /\ rtn[c]},
    failed    <- {c \in Calls \ crowd : pc[c] = "done" /\ ~rtn[c]}

PromiseSpec ==
  Promise!Init /\ [][\/ Promise!Next
                     \/ late'
                     \/ crowd' # crowd /\ barged' # {}]_(Promise!vars)
=============================================================================
