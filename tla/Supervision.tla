---------------------------- MODULE Supervision ----------------------------
(***************************************************************************)
(* The life of a gateway process: kappaio (kappaio.cpp) and its pid file,  *)
(* keep-alive count, boot, watchdog and state monitor (hal.cpp), the       *)
(* watcher that restarts it (kappaio_watch.cpp) and the init scripts.      *)
(*                                                                         *)
(* The pid file is a directory entry and a set of inodes: a process that   *)
(* has opened an inode keeps it when another unlinks the name.             *)
(*                                                                         *)
(* Time is counted in looks of the watcher, ten seconds apart.  A running  *)
(* gateway counts every five seconds; forking, locking and dying take      *)
(* milliseconds, so they are over before the watcher wakes; a boot that    *)
(* nothing obstructs is seen unfinished by at most BootLooks looks.        *)
(***************************************************************************)
EXTENDS Integers, FiniteSets

CONSTANTS
  Procs,       (* process identifiers                                    *)
  Inodes,      (* inodes of the pid file                                 *)
  None,        (* no process, no inode                                   *)
  Counts,      (* the keep-alive counter runs through 0..Counts-1        *)
  BootLooks,   (* looks that see an unobstructed boot unfinished         *)
  PingLimit,   (* failed pings a process tolerates before it backs off   *)
  Backoff,     (* looks for which a process waits after a failed ping    *)
  MaxFaults    (* bound on crashes, lost answers, changes of coordinator *)

ASSUME SupervisionAssumption ==
  /\ None \notin Procs \cup Inodes
  /\ {Counts, BootLooks, PingLimit, Backoff, MaxFaults} \subseteq Nat
  /\ Counts > 2

(* There are more inodes than processes that have the pid file open. *)
ASSUME InodesSuffice ==
  \A f \in [Procs -> Inodes \cup {None}] :
    (\E p \in Procs : f[p] = None) => \E i \in Inodes : \A q \in Procs : f[q] # i

VARIABLES
  dir,         (* the inode PIDF names, or None                            *)
  content,     (* the process whose number an inode holds, or None         *)
  lock,        (* the process that holds the flock of an inode, or None    *)
  pc,          (* where each gateway is                                    *)
  fd,          (* the inode each gateway has open                          *)
  term,        (* processes with a pending SIGTERM                         *)
  kla,         (* the keep-alive file: a count, NoFile or Empty            *)
  count,       (* keepAliveCount of each gateway                           *)
  beats,       (* klaIncr() calls of each since the watcher's last look    *)
  waited,      (* looks that saw each gateway's boot unobstructed          *)
  wpc,         (* where the watcher is                                     *)
  ref, tolerance,
  coord,       (* what a ping is answered: "app", "loader", "blank", "mute"*)
  backoff,     (* looks until the last failed ping is old enough           *)
  status,      (* the monitor's status.capability, or None                 *)
  failed,      (* consecutiveFailedPing                                    *)
  kick,        (* the watchdog kick: "ready", "sent" or "lost"             *)
  faults,      (* faults so far                                            *)
  seen,        (* history: the gateway the last look found, or None        *)
  quiet,       (* history: looks since then that found it silent           *)
  twice        (* history: two gateways were serving at once               *)

file  == <<dir, content, lock>>
own   == <<count, beats, waited, status, failed, kick>>
watch == <<wpc, ref, tolerance, seen, quiet>>
radio == <<coord, backoff>>
vars  == <<file, pc, fd, term, kla, twice, own, watch, radio, faults>>

NoFile == -1
Empty  == -2

Stages == {"dead", "born", "opened", "locked", "written", "creating",
           "reset", "starting", "zdo", "running", "leaving"}
Booting(p)   == pc[p] \in {"reset", "starting", "zdo"}
Monitored(p) == pc[p] \in {"zdo", "running"}
Brief(p)     == pc[p] \in {"born", "opened", "locked", "written", "creating",
                           "leaving"}
Serving(p)   == Booting(p) \/ pc[p] = "running"
Obstructed   == coord \in {"mute", "blank"} \/ backoff > 0

Init ==
  /\ dir = None
  /\ content = [i \in Inodes |-> None]
  /\ lock = [i \in Inodes |-> None]
  /\ pc = [p \in Procs |-> "dead"]
  /\ fd = [p \in Procs |-> None]
  /\ term = {}
  /\ kla = NoFile
  /\ count = [p \in Procs |-> 1]
  /\ beats = [p \in Procs |-> 0]
  /\ waited = [p \in Procs |-> 0]
  /\ wpc = "look"
  /\ ref = 0
  /\ tolerance = 0
  /\ coord = "loader"
  /\ backoff = 0
  /\ status = [p \in Procs |-> None]
  /\ failed = [p \in Procs |-> 0]
  /\ kick = [p \in Procs |-> "ready"]
  /\ faults = 0
  /\ seen = None
  /\ quiet = 0
  /\ twice = FALSE
-----------------------------------------------------------------------------
(* main(): daemonize(), write_pid(), klaIncr() *)

Go(p, from, to) ==
  /\ p \notin term
  /\ pc[p] = from
  /\ pc' = [pc EXCEPT ![p] = to]

(* What a process starts with. *)
Fresh(p) ==
  /\ count' = [count EXCEPT ![p] = 1]
  /\ beats' = [beats EXCEPT ![p] = 0]
  /\ waited' = [waited EXCEPT ![p] = 0]
  /\ status' = [status EXCEPT ![p] = None]
  /\ failed' = [failed EXCEPT ![p] = 0]
  /\ kick' = [kick EXCEPT ![p] = "ready"]

(* exit(): the descriptor is closed, so the lock goes, and with it an inode *)
(* without a name; the pid file stays.                                      *)
Gone(p) ==
  /\ pc' = [pc EXCEPT ![p] = "dead"]
  /\ fd' = [fd EXCEPT ![p] = None]
  /\ lock' = [i \in Inodes |-> IF lock[i] = p THEN None ELSE lock[i]]
  /\ content' = [i \in Inodes |->
                   IF i # dir /\ \A q \in Procs : fd'[q] # i THEN None
                   ELSE content[i]]
  /\ term' = term \ {p}
  /\ Fresh(p)
  /\ UNCHANGED dir

(* open(PIDF, O_CREAT): the inode the name leads to, or a new one. *)
Open(p) ==
  /\ Go(p, "born", "opened")
  /\ IF dir # None
     THEN /\ fd' = [fd EXCEPT ![p] = dir]
          /\ UNCHANGED <<dir, content>>
     ELSE /\ dir' = CHOOSE i \in Inodes : \A q \in Procs : fd[q] # i
          /\ fd' = [fd EXCEPT ![p] = dir']
          /\ content' = [content EXCEPT ![dir'] = None]
  /\ UNCHANGED <<lock, term, kla, twice, own, watch, radio, faults>>

(* Mutant of Lock: the number is written whether the lock was free or not. *)
LockIgnored(p) ==
  /\ Go(p, "opened", "locked")
  /\ lock' = [lock EXCEPT ![fd[p]] = IF @ = None THEN p ELSE @]
  /\ UNCHANGED <<dir, content, fd, term, kla, twice, own, watch, radio, faults>>

(* flock(LOCK_EX|LOCK_NB): a second instance ends. *)
Lock(p) ==
  /\ pc[p] = "opened"
  /\ IF lock[fd[p]] = None
     THEN /\ Go(p, "opened", "locked")
          /\ lock' = [lock EXCEPT ![fd[p]] = p]
          /\ UNCHANGED <<dir, content, fd, term, own>>
     ELSE Gone(p)
  /\ UNCHANGED <<kla, twice, watch, radio, faults>>

(* The number and a newline, over what an earlier process left. *)
WritePid(p) ==
  /\ Go(p, "locked", "written")
  /\ content' = [content EXCEPT ![fd[p]] = p]
  /\ UNCHANGED <<dir, lock, fd, term, kla, twice, own, watch, radio, faults>>

(* Mutant of KlaIncr: the counter is not static. *)
KlaIncrRestarts(p) ==
  /\ kla' = 1
  /\ UNCHANGED count
  /\ beats' = [beats EXCEPT ![p] = IF @ < 2 THEN @ + 1 ELSE @]

(* The counter is an unsigned short: it wraps. *)
KlaIncr(p) ==
  /\ kla' = count[p]
  /\ count' = [count EXCEPT ![p] = (@ + 1) % Counts]
  /\ beats' = [beats EXCEPT ![p] = @ + 1]

(* open(O_CREAT) of the keep-alive file makes it before there is a count. *)
FirstCount(p) ==
  /\ \/ /\ Go(p, "written", "creating")
        /\ kla' = IF kla = NoFile THEN Empty ELSE kla
        /\ UNCHANGED <<count, beats, twice>>
     \/ /\ Go(p, "creating", "reset")
        /\ KlaIncr(p)
        /\ twice' = (twice \/ \E q \in Procs : Serving(q))
  /\ UNCHANGED <<file, fd, term, waited, status, failed, kick, watch, radio,
                 faults>>

(* The main loop: at most two counts between two looks. *)
Beat(p) ==
  /\ Go(p, "running", "running")
  /\ beats[p] < 2
  /\ KlaIncr(p)
  /\ UNCHANGED <<twice, file, fd, term, waited, status, failed, kick, watch, radio,
                 faults>>
-----------------------------------------------------------------------------
(* Boot: ProcessorReset(), StartSystem(), StartSystemMonitor(), startZDO() *)

(* The coordinator, if it hears the reset, comes back in its boot loader. *)
ProcessorReset(p) ==
  /\ Go(p, "reset", "starting")
  /\ coord' = IF coord \in {"mute", "blank"} THEN coord ELSE "loader"
  /\ UNCHANGED <<file, fd, term, kla, twice, own, watch, backoff, faults>>

(* systemPing(), not before the last failed ping is old enough.  There is  *)
(* no answer from a mute coordinator, and *status is left alone.           *)
SystemPing(p, kept) ==
  /\ backoff = 0
  /\ IF coord # "mute"
     THEN /\ status' = [status EXCEPT ![p] = IF kept THEN coord ELSE @]
          /\ failed' = [failed EXCEPT ![p] = 0]
          /\ UNCHANGED backoff
     ELSE /\ IF failed[p] > PingLimit
             THEN backoff' = Backoff /\ UNCHANGED failed
             ELSE failed' = [failed EXCEPT ![p] = @ + 1] /\ UNCHANGED backoff
          /\ UNCHANGED status
  /\ UNCHANGED <<count, beats, waited, kick>>

(* A round of StartSystem(): the loader is told to start the application.  *)
(* Its status is a variable of its own, and not seen by the state monitor.  *)
StartSystem(p) ==
  /\ SystemPing(p, FALSE)
  /\ Go(p, "starting", IF coord = "app" THEN "zdo" ELSE "starting")
  /\ coord' = IF coord = "loader" THEN "app" ELSE coord
  /\ UNCHANGED <<file, fd, term, kla, twice, watch, faults>>

(* start_zdo() came to an end, and what follows it: the main loop. *)
EnterLoop(p) ==
  /\ Go(p, "zdo", "running")
  /\ UNCHANGED <<file, fd, term, kla, twice, own, watch, radio, faults>>

(* Mutant of Monitor: the status is not looked at. *)
MonitorBlind(p) ==
  /\ Monitored(p)
  /\ SystemPing(p, TRUE)
  /\ UNCHANGED <<file, pc, fd, term, kla, twice, watch, coord, faults>>

(* StateMonitor(): ping, test the status of the last answered ping, exit(0) *)
(* unless it was the application's.  No answer yet: whatever the stack held.*)
Monitor(p) ==
  /\ Monitored(p)
  /\ \/ /\ SystemPing(p, TRUE)
        /\ status'[p] \in {"app", None}
        /\ UNCHANGED <<file, pc, fd, term>>
     \/ /\ backoff = 0
        /\ IF coord = "mute" THEN status[p] # "app" ELSE coord # "app"
        /\ Gone(p)
        /\ UNCHANGED backoff
  /\ UNCHANGED <<kla, twice, watch, coord, faults>>

(* WatchDogThread(): sem_wait() of OutOfBandSem, and the kick. *)
WdtKick(p) ==
  /\ Monitored(p)
  /\ kick[p] = "ready"
  /\ kick' = [kick EXCEPT ![p] = IF coord = "app" THEN "sent" ELSE "lost"]
  /\ UNCHANGED <<file, pc, fd, term, kla, twice, count, beats, waited, status, failed,
                 watch, radio, faults>>

(* That wait may end without the semaphore, when a frame's signal meets the *)
(* thread: the kick is made though the last one had no answer.              *)
KickInterrupted(p) ==
  /\ Monitored(p)
  /\ kick[p] = "lost" /\ coord = "app"
  /\ kick' = [kick EXCEPT ![p] = "sent"]
  /\ UNCHANGED <<file, pc, fd, term, kla, twice, count, beats, waited, status, failed,
                 watch, radio, faults>>

(* mtOOBRecv(): sem_post(). *)
MtOOBRecv(p) ==
  /\ kick[p] = "sent"
  /\ kick' = [kick EXCEPT ![p] = "ready"]
  /\ UNCHANGED <<file, pc, fd, term, kla, twice, count, beats, waited, status, failed,
                 watch, radio, faults>>
-----------------------------------------------------------------------------
(* SIGTERM *)

(* daemon_signal_handler(): unlink(PIDF) removes the name, whoever's it is. *)
Unlink(p) ==
  /\ p \in term
  /\ pc[p] # "leaving"
  /\ pc' = [pc EXCEPT ![p] = "leaving"]
  /\ dir' = None
  /\ content' = [i \in Inodes |->
                   IF \A q \in Procs : fd[q] # i THEN None ELSE content[i]]
  /\ UNCHANGED <<lock, fd, term, kla, twice, own, watch, radio, faults>>

Exit(p) ==
  /\ pc[p] = "leaving"
  /\ Gone(p)
  /\ UNCHANGED <<kla, twice, watch, radio, faults>>
-----------------------------------------------------------------------------
(* kappaio-watch, and the script it calls *)

Named == IF dir = None THEN None ELSE content[dir]

(* checkByPIDFile(): an empty file leaves pid uninitialised. *)
Runs(b) ==
  IF dir = None THEN ~b
  ELSE IF Named = None THEN b \in BOOLEAN
  ELSE b = (pc[Named] # "dead")

(* readKLA(): so does an empty keep-alive file. *)
KlaReads == IF kla = Empty THEN -1 .. Counts - 1 ELSE {kla}

Silent == Named # None /\ Named = seen /\ beats[Named] = 0

(* What every look does, and the looks that end in no restart. *)
Look ==
  /\ wpc = "look"
  /\ beats' = [p \in Procs |-> 0]
  /\ waited' = [p \in Procs |->
                 IF Booting(p) /\ ~Obstructed THEN waited[p] + 1 ELSE waited[p]]
  /\ UNCHANGED <<file, pc, fd, term, kla, twice, count, status, failed, kick, radio,
                 faults>>

Continue ==
  /\ wpc' = "sleep"
  /\ seen' = Named
  /\ quiet' = IF Silent THEN quiet + 1 ELSE 0

Restart ==
  /\ wpc' = "stop"
  /\ seen' = None
  /\ quiet' = 0

(* Lines 201 to 216: neither the reference nor the tolerance is touched. *)
NotRunning ==
  /\ Look
  /\ \/ Runs(FALSE)
     \/ Runs(TRUE) /\ -1 \in KlaReads
  /\ Restart
  /\ UNCHANGED <<ref, tolerance>>

Changed ==
  /\ Look
  /\ Runs(TRUE)
  /\ \E v \in KlaReads \ {-1, ref} : ref' = v
  /\ tolerance' = 0
  /\ Continue

(* Mutant of Tolerated: the tolerance is not counted. *)
ToleratedAlways ==
  /\ Look
  /\ Runs(TRUE)
  /\ ref \in KlaReads
  /\ tolerance = 0
  /\ Continue
  /\ UNCHANGED <<ref, tolerance>>

Tolerated ==
  /\ Look
  /\ Runs(TRUE)
  /\ ref \in KlaReads
  /\ tolerance = 0
  /\ tolerance' = tolerance + 1
  /\ Continue
  /\ UNCHANGED ref

Replaced ==
  /\ Look
  /\ Runs(TRUE)
  /\ ref \in KlaReads
  /\ tolerance > 0
  /\ tolerance' = 0
  /\ Restart
  /\ UNCHANGED ref

(* "stop": kill $(cat pidfile), where the file exists. *)
Stop ==
  /\ wpc = "stop"
  /\ wpc' = "start"
  /\ term' = IF Named # None /\ pc[Named] # "dead" THEN term \cup {Named} ELSE term
  /\ UNCHANGED <<file, pc, fd, kla, twice, own, ref, tolerance, seen, quiet, radio,
                 faults>>

(* "start", at once: a process number that nothing uses or names. *)
Start ==
  /\ wpc = "start"
  /\ wpc' = "sleep"
  /\ \E p \in Procs : pc[p] = "dead" /\ p # Named
  /\ LET p == CHOOSE q \in Procs : pc[q] = "dead" /\ q # Named IN
       pc' = [pc EXCEPT ![p] = "born"]
  /\ UNCHANGED <<file, fd, term, kla, twice, own, ref, tolerance, seen, quiet, radio,
                 faults>>

(* kSleep(10), with the timing of the module's head. *)
Wake ==
  /\ wpc = "sleep"
  /\ \A p \in Procs :
       /\ ~Brief(p) /\ p \notin term
       /\ pc[p] = "running" => beats[p] > 0
       /\ Booting(p) /\ ~Obstructed => waited[p] < BootLooks
  /\ wpc' = "look"
  /\ backoff' = IF backoff > 0 THEN backoff - 1 ELSE 0
  /\ UNCHANGED <<file, pc, fd, term, kla, twice, own, ref, tolerance, seen, quiet,
                 coord, faults>>
-----------------------------------------------------------------------------
(* Faults, and the coordinator *)

Fault ==
  /\ faults < MaxFaults
  /\ faults' = faults + 1

(* segfault_sigaction(): once there are threads and plugins. *)
Crash(p) ==
  /\ Fault
  /\ Serving(p)
  /\ Gone(p)
  /\ UNCHANGED <<kla, twice, watch, radio>>

LoseKick(p) ==
  /\ Fault
  /\ kick[p] = "sent"
  /\ kick' = [kick EXCEPT ![p] = "lost"]
  /\ UNCHANGED <<file, pc, fd, term, kla, twice, count, beats, waited, status, failed,
                 watch, radio>>

(* The coordinator falls silent, loses its image, or is given one again. *)
CoordFault ==
  /\ Fault
  /\ \E c \in {"app", "loader", "blank", "mute"} \ {coord} : coord' = c
  /\ UNCHANGED <<file, pc, fd, term, kla, twice, own, watch, backoff>>

(* Nobody kicks the application: its watchdog resets it. *)
Starve ==
  /\ coord = "app"
  /\ \E p \in Procs : Monitored(p)
  /\ \A p \in Procs : Monitored(p) => kick[p] = "lost"
  /\ coord' = "loader"
  /\ UNCHANGED <<file, pc, fd, term, kla, twice, own, watch, backoff, faults>>

(* delayRestart(): "kappaio-watch restart".  The watcher's handler stops    *)
(* the gateway before it ends; a second later a new watcher begins.         *)
WatcherTerm ==
  /\ Fault
  /\ wpc \in {"look", "sleep"}
  /\ wpc' = "down"
  /\ term' = IF Named # None /\ pc[Named] # "dead" THEN term \cup {Named} ELSE term
  /\ UNCHANGED <<file, pc, fd, kla, twice, own, ref, tolerance, seen, quiet, radio>>

WatcherStart ==
  /\ wpc = "down"
  /\ wpc' = "look"
  /\ ref' = 0
  /\ tolerance' = 0
  /\ seen' = None
  /\ quiet' = 0
  /\ UNCHANGED <<file, pc, fd, term, kla, twice, own, radio, faults>>

Gateway(p) ==
  \/ Open(p) \/ Lock(p) \/ WritePid(p) \/ FirstCount(p) \/ ProcessorReset(p)
  \/ StartSystem(p) \/ EnterLoop(p) \/ Unlink(p) \/ Exit(p)

Watcher ==
  \/ NotRunning \/ Changed \/ Tolerated \/ Replaced
  \/ Stop \/ Start \/ Wake \/ WatcherStart

Next ==
  \/ \E p \in Procs : \/ Gateway(p) \/ Beat(p) \/ Monitor(p)
                      \/ WdtKick(p) \/ KickInterrupted(p) \/ MtOOBRecv(p)
                      \/ Crash(p) \/ LoseKick(p)
  \/ Watcher
  \/ CoordFault \/ Starve \/ WatcherTerm

Spec == Init /\ [][Next]_vars

(* Every thread runs, the watcher wakes, the coordinator's watchdog bites. *)
FairSpec ==
  /\ Spec
  /\ WF_vars(Watcher) /\ WF_vars(Starve)
  /\ \A p \in Procs : /\ WF_vars(Gateway(p)) /\ WF_vars(Beat(p))
                      /\ WF_vars(Monitor(p)) /\ WF_vars(WdtKick(p))
                      /\ WF_vars(MtOOBRecv(p))
-----------------------------------------------------------------------------
(* Every variable of the processes, their files and the watcher keeps its   *)
(* type.                                                                    *)
TypeOK ==
  /\ dir \in Inodes \cup {None}
  /\ content \in [Inodes -> Procs \cup {None}]
  /\ lock \in [Inodes -> Procs \cup {None}]
  /\ pc \in [Procs -> Stages]
  /\ fd \in [Procs -> Inodes \cup {None}]
  /\ term \subseteq Procs
  /\ kla \in {NoFile, Empty} \cup 0 .. Counts - 1
  /\ count \in [Procs -> 0 .. Counts - 1]
  /\ beats \in [Procs -> 0 .. 3]
  /\ waited \in [Procs -> Nat]
  /\ wpc \in {"look", "stop", "start", "sleep", "down"}
  /\ ref \in 0 .. Counts - 1
  /\ tolerance \in {0, 1}
  /\ coord \in {"app", "loader", "blank", "mute"}
  /\ backoff \in 0 .. Backoff
  /\ status \in [Procs -> {None, "app", "loader", "blank"}]
  /\ failed \in [Procs -> 0 .. PingLimit + 1]
  /\ kick \in [Procs -> {"ready", "sent", "lost"}]
  /\ faults \in 0 .. MaxFaults
  /\ seen \in Procs \cup {None}
  /\ quiet \in Nat
  /\ twice \in BOOLEAN

(* The process that holds the lock of the file PIDF names is the one the    *)
(* watcher and the script find in it, once it has written its number.       *)
PidFileTrue ==
  /\ \A i \in Inodes : lock[i] # None => fd[lock[i]] = i
  /\ dir # None /\ lock[dir] # None =>
       content[dir] = lock[dir] \/ pc[lock[dir]] = "locked"

(* kappaio.cpp:57, "only one instance please": no two gateways drive the    *)
(* coordinator at once.                                                     *)
OneGateway == \A p, q \in Procs : Serving(p) /\ Serving(q) => p = q

(* The watcher lets a gateway it has found before be silent at one more     *)
(* look at the most, whatever the files held when it read them, as long as  *)
(* no other gateway writes the same keep-alive file.                        *)
SilenceBounded == ~twice => quiet <= 1

(* A gateway that counted since the look before, and that the watcher then  *)
(* found, is not restarted for want of a count, as long as no other gateway *)
(* writes the same file.  (One it has not found before may be: the          *)
(* tolerance of its predecessor is not reset.)                              *)
CountingSpared ==
  [][Replaced /\ ~twice => seen = None \/ Named # seen \/ beats[Named] = 0]_vars

(* Once the coordinator can start, a gateway gets through its boot, goes on *)
(* counting and has the application to talk to: after crashes that leave    *)
(* the pid file, a lost watchdog answer, failed pings and their waits, a    *)
(* new instance that met its predecessor's lock, a restart of the watcher.  *)
Recovers ==
  <>[](coord \in {"app", "loader"})
    => \/ <>[](coord = "app" /\ \E p \in Procs : pc[p] = "running")
       \/ <>twice
=============================================================================
