-------------------------- MODULE SupervisionProofs -------------------------
(***************************************************************************)
(* The pid file and the watcher, for any number of processes, crashes,     *)
(* signals, restarts of the watcher and changes of the coordinator:        *)
(* whoever holds the lock of the file that the name leads to is the one it *)
(* names; and, until two gateways have served at once, one that is silent  *)
(* is replaced and one that counts is spared.                              *)
(*                                                                         *)
(* The lock alone does not show the first: between the lock and the number *)
(* a signal may take the name away, and the next to open it makes an inode.*)
(* For the rest the invariant says how far the keep-alive file is ahead of *)
(* the watcher's reference.                                                *)
(***************************************************************************)
EXTENDS Supervision, TLAPS

(* Who holds a lock has the inode open, and is past write_pid()'s flock(). *)
LockInv ==
  \A i \in Inodes : lock[i] # None =>
    fd[lock[i]] = i /\ pc[lock[i]] \notin {"dead", "born", "opened"}

(* The descriptor, before the lock is tried and while it is. *)
FdInv ==
  \A p \in Procs : /\ pc[p] \in {"dead", "born"} => fd[p] = None
                   /\ pc[p] \in {"opened", "locked"} => fd[p] \in Inodes

(* From the lock to the number the lock is the process's own. *)
HolderInv == \A p \in Procs : pc[p] = "locked" => lock[fd[p]] = p

(* The number in the file that has the name. *)
NameInv ==
  dir # None /\ lock[dir] # None => content[dir] = lock[dir] \/ pc[lock[dir]] = "locked"

FileInv == LockInv /\ FdInv /\ HolderInv /\ NameInv

(* A process that has not counted has no count. *)
BeatInv ==
  /\ \A p \in Procs : pc[p] \in {"dead", "born", "opened", "locked", "written", "creating"}
                        => beats[p] = 0
  /\ \A p \in Procs : beats[p] <= 2

IInv == TypeOK /\ FileInv /\ BeatInv

(* The count n counts after count c. *)
Ahead(c, n) == IF c + n < Counts THEN c + n ELSE c + n - Counts

Early     == {"born", "opened", "locked", "written", "creating"}
Uncounted == {"written", "creating"}
Served    == {"reset", "starting", "zdo", "running"}

(* The number in the pid file is of a process that wrote it in this life.  *)
NumberInv == Named # None => pc[Named] \in {"dead"} \cup Uncounted \cup Served

(* The counter starts at one. *)
FreshInv == \A p \in Procs : pc[p] \in {"dead"} \cup Early => count[p] = 1

(* One gateway serves, and the keep-alive file holds its last count. *)
AloneInv == \A p, q \in Procs : pc[p] \in Served /\ pc[q] \in Served => p = q
CountInv ==
  \A p \in Procs : pc[p] \in Served => kla \in 0 .. Counts - 1 /\ count[p] = Ahead(kla, 1)

(* A process that has not counted is met by a watcher at its first look    *)
(* only, and a watcher that restarts has found none.                       *)
LookInv ==
  /\ wpc = "look" /\ (\E p \in Procs : pc[p] \in Early)
       => ref = 0 /\ tolerance = 0 /\ seen = None
  /\ wpc \in {"stop", "start"} => seen = None

(* The reference is behind the file by what the gateway counted since the  *)
(* look that found it; it may be anything else only where the watcher read *)
(* the file before the gateway's first count, and then it has no tolerance *)
(* to lose.                                                                *)
SeenInv == seen # None =>
  /\ pc[seen] \notin {"born", "opened", "locked"}
  /\ pc[seen] \in Uncounted /\ tolerance = 1 => ref = 0
  /\ pc[seen] \in Served => /\ beats[seen] = 0 => kla = ref
                            /\ tolerance = 1 => kla = Ahead(ref, beats[seen])

QuietInv == quiet <= tolerance

OneInv == AloneInv /\ CountInv /\ LookInv /\ SeenInv /\ QuietInv

(* What the watcher knows of the gateway it found, while there is one. *)
WatchInv == NumberInv /\ FreshInv /\ (~twice => OneInv)
-----------------------------------------------------------------------------
(* The files: what each kind of step does to them *)

(* A step of a process that is past its number. *)
LEMMA LaterStage ==
  ASSUME TypeOK, FileInv, NEW p \in Procs, NEW to \in Stages,
         pc[p] \notin {"dead", "born", "opened", "locked"},
         to \notin {"dead", "born", "opened", "locked"},
         pc' = [pc EXCEPT ![p] = to], UNCHANGED <<dir, content, lock, fd>>
  PROVE  FileInv'
<1> USE SupervisionAssumption DEF TypeOK, FileInv
<1>1. LockInv'
  BY DEF LockInv
<1>2. FdInv'
  BY DEF FdInv
<1>3. HolderInv'
  BY DEF HolderInv
<1>4. NameInv'
  BY DEF NameInv
<1>5. QED
  BY <1>1, <1>2, <1>3, <1>4

(* A step that leaves files, descriptors and stages alone. *)
LEMMA FilesKept ==
  ASSUME FileInv, UNCHANGED <<dir, content, lock, fd, pc>>
  PROVE  FileInv'
BY DEF FileInv, LockInv, FdInv, HolderInv, NameInv

(* exit(): nobody else's lock or number is touched. *)
LEMMA GoneFiles ==
  ASSUME TypeOK, FileInv, NEW p \in Procs, Gone(p)
  PROVE  FileInv'
<1> USE SupervisionAssumption DEF TypeOK, FileInv
<1>1. /\ pc' = [pc EXCEPT ![p] = "dead"]
      /\ fd' = [fd EXCEPT ![p] = None]
      /\ lock' = [i \in Inodes |-> IF lock[i] = p THEN None ELSE lock[i]]
      /\ dir # None => content'[dir] = content[dir]
      /\ dir' = dir
  BY DEF Gone
<1>2. \A i \in Inodes : lock'[i] # None => lock'[i] = lock[i] /\ lock[i] # p
  BY <1>1
<1>3. LockInv'
  BY <1>1, <1>2 DEF LockInv
<1>4. FdInv'
  BY <1>1 DEF FdInv
<1>5. HolderInv'
  BY <1>1 DEF HolderInv, FdInv
<1>6. NameInv'
  BY <1>1, <1>2 DEF NameInv
<1>7. QED
  BY <1>3, <1>4, <1>5, <1>6

(* open(): a new inode has no holder. *)
LEMMA OpenFiles ==
  ASSUME TypeOK, FileInv, NEW p \in Procs, Open(p)
  PROVE  FileInv' /\ dir' \in Inodes /\ content' \in [Inodes -> Procs \cup {None}]
         /\ fd' \in [Procs -> Inodes \cup {None}]
<1> USE SupervisionAssumption DEF TypeOK, FileInv
<1>1. /\ pc[p] = "born"
      /\ pc' = [pc EXCEPT ![p] = "opened"]
      /\ lock' = lock
  BY DEF Open, Go
<1>2. fd[p] = None
  BY <1>1 DEF FdInv
<1>3. \A i \in Inodes : lock[i] # p
  BY <1>1 DEF LockInv
<1>4. CASE dir # None
  <2>1. fd' = [fd EXCEPT ![p] = dir] /\ dir' = dir /\ content' = content /\ dir \in Inodes
    BY <1>4 DEF Open
  <2>2. LockInv'
    BY <1>1, <1>3, <2>1 DEF LockInv
  <2>3. FdInv'
    BY <1>1, <2>1 DEF FdInv
  <2>4. HolderInv'
    BY <1>1, <2>1 DEF HolderInv
  <2>5. NameInv'
    BY <1>1, <1>3, <2>1 DEF NameInv
  <2>6. QED
    BY <2>1, <2>2, <2>3, <2>4, <2>5
<1>5. CASE dir = None
  <2>1. /\ dir' = CHOOSE i \in Inodes : \A q \in Procs : fd[q] # i
        /\ fd' = [fd EXCEPT ![p] = dir']
        /\ content' = [content EXCEPT ![dir'] = None]
    BY <1>5 DEF Open
  <2>2. \E i \in Inodes : \A q \in Procs : fd[q] # i
    BY <1>2, InodesSuffice
  <2>3. dir' \in Inodes /\ \A q \in Procs : fd[q] # dir'
    BY <2>1, <2>2
  <2>4. lock[dir'] = None
    BY <2>3 DEF LockInv
  <2>5. LockInv'
    BY <1>1, <1>3, <2>1, <2>3 DEF LockInv
  <2>6. FdInv'
    BY <1>1, <2>1, <2>3 DEF FdInv
  <2>7. HolderInv'
    BY <1>1, <2>1, <2>3 DEF HolderInv
  <2>8. NameInv'
    BY <1>1, <2>4 DEF NameInv
  <2>9. QED
    BY <2>1, <2>3, <2>5, <2>6, <2>7, <2>8
<1>6. QED
  BY <1>4, <1>5

(* flock(): a lock is taken by who finds it free. *)
LEMMA LockFiles ==
  ASSUME TypeOK, FileInv, NEW p \in Procs, pc[p] = "opened", lock[fd[p]] = None,
         pc' = [pc EXCEPT ![p] = "locked"], lock' = [lock EXCEPT ![fd[p]] = p],
         UNCHANGED <<dir, content, fd>>
  PROVE  FileInv'
<1> USE SupervisionAssumption DEF TypeOK, FileInv
<1>1. fd[p] \in Inodes
  BY DEF FdInv
<1>2. LockInv'
  BY <1>1 DEF LockInv
<1>3. FdInv'
  BY <1>1 DEF FdInv
<1>4. HolderInv'
  BY <1>1 DEF HolderInv, FdInv
<1>5. NameInv'
  BY <1>1 DEF NameInv
<1>6. QED
  BY <1>2, <1>3, <1>4, <1>5

(* The number goes where the lock is. *)
LEMMA WriteFiles ==
  ASSUME TypeOK, FileInv, NEW p \in Procs, WritePid(p)
  PROVE  FileInv' /\ content' \in [Inodes -> Procs \cup {None}]
<1> USE SupervisionAssumption DEF TypeOK, FileInv
<1>1. /\ pc[p] = "locked"
      /\ pc' = [pc EXCEPT ![p] = "written"]
      /\ content' = [content EXCEPT ![fd[p]] = p]
      /\ UNCHANGED <<dir, lock, fd>>
  BY DEF WritePid, Go
<1>2. fd[p] \in Inodes /\ lock[fd[p]] = p
  BY <1>1 DEF FdInv, HolderInv
<1>3. LockInv'
  BY <1>1 DEF LockInv
<1>4. FdInv'
  BY <1>1 DEF FdInv
<1>5. HolderInv'
  BY <1>1 DEF HolderInv
<1>6. NameInv'
  BY <1>1, <1>2 DEF NameInv, LockInv
<1>7. QED
  BY <1>1, <1>2, <1>3, <1>4, <1>5, <1>6

(* unlink(): the name is gone, whoever's it was. *)
LEMMA UnlinkFiles ==
  ASSUME TypeOK, FileInv, NEW p \in Procs, Unlink(p)
  PROVE  FileInv' /\ content' \in [Inodes -> Procs \cup {None}]
<1> USE SupervisionAssumption DEF TypeOK, FileInv
<1>1. /\ pc' = [pc EXCEPT ![p] = "leaving"]
      /\ dir' = None
      /\ UNCHANGED <<lock, fd>>
  BY DEF Unlink
<1>2. content' = [i \in Inodes |-> IF \A q \in Procs : fd[q] # i THEN None ELSE content[i]]
  BY DEF Unlink
<1>3. LockInv'
  BY <1>1 DEF LockInv
<1>4. FdInv'
  BY <1>1 DEF FdInv
<1>5. HolderInv'
  BY <1>1 DEF HolderInv
<1>6. NameInv'
  BY <1>1 DEF NameInv
<1>7. QED
  BY <1>2, <1>3, <1>4, <1>5, <1>6
-----------------------------------------------------------------------------
(* Types and counts *)

(* What a step leaves alone, by parts. *)
FileTypes ==
  /\ dir \in Inodes \cup {None}
  /\ content \in [Inodes -> Procs \cup {None}]
  /\ lock \in [Inodes -> Procs \cup {None}]
  /\ pc \in [Procs -> Stages]
  /\ fd \in [Procs -> Inodes \cup {None}]
  /\ term \subseteq Procs
OwnTypes ==
  /\ count \in [Procs -> 0 .. Counts - 1]
  /\ beats \in [Procs -> 0 .. 3]
  /\ waited \in [Procs -> Nat]
  /\ status \in [Procs -> {None, "app", "loader", "blank"}]
  /\ failed \in [Procs -> 0 .. PingLimit + 1]
  /\ kick \in [Procs -> {"ready", "sent", "lost"}]
RestTypes ==
  /\ kla \in {NoFile, Empty} \cup 0 .. Counts - 1
  /\ wpc \in {"look", "stop", "start", "sleep", "down"}
  /\ ref \in 0 .. Counts - 1
  /\ tolerance \in {0, 1}
  /\ coord \in {"app", "loader", "blank", "mute"}
  /\ backoff \in 0 .. Backoff
  /\ faults \in 0 .. MaxFaults
  /\ seen \in Procs \cup {None}
  /\ quiet \in Nat
  /\ twice \in BOOLEAN

(* The types are those of the parts. *)
LEMMA Parts == TypeOK <=> FileTypes /\ OwnTypes /\ RestTypes
BY DEF TypeOK, FileTypes, OwnTypes, RestTypes

(* What a step has to show. *)
LEMMA Joined ==
  ASSUME FileTypes', OwnTypes', RestTypes', FileInv', BeatInv'
  PROVE  IInv'
BY DEF IInv, TypeOK, FileTypes, OwnTypes, RestTypes

(* exit(): what the process had is forgotten. *)
LEMMA GoneKeeps ==
  ASSUME TypeOK, BeatInv, NEW p \in Procs, Gone(p)
  PROVE  FileTypes' /\ OwnTypes' /\ BeatInv'
<1> USE SupervisionAssumption
<1>1. FileTypes'
  BY DEF Gone, TypeOK, FileTypes, Stages
<1>2. OwnTypes'
  BY DEF Gone, Fresh, TypeOK, OwnTypes
<1>3. BeatInv'
  BY DEF Gone, Fresh, TypeOK, BeatInv
<1>4. QED
  BY <1>1, <1>2, <1>3

(* klaIncr(): the count stays a count, and a process that may count has    *)
(* done so at most once since the watcher looked.                          *)
LEMMA KlaIncrKeeps ==
  ASSUME TypeOK, NEW p \in Procs, KlaIncr(p), beats[p] < 2, \A q \in Procs : beats[q] <= 2,
         UNCHANGED <<waited, status, failed, kick>>
  PROVE  /\ OwnTypes'
         /\ kla' \in 0 .. Counts - 1
         /\ \A q \in Procs : beats'[q] <= 2 /\ (q # p => beats'[q] = beats[q])
<1>1. Counts \in Nat \ {0}
  BY SupervisionAssumption
<1>2. (count[p] + 1) % Counts \in 0 .. Counts - 1
  BY <1>1 DEF TypeOK
<1>3. OwnTypes'
  BY <1>2 DEF KlaIncr, TypeOK, OwnTypes
<1>4. QED
  BY <1>3 DEF KlaIncr, TypeOK

(* systemPing(): its counter and its wait are bounded. *)
LEMMA SystemPingKeeps ==
  ASSUME TypeOK, NEW p \in Procs, NEW kept \in BOOLEAN, SystemPing(p, kept)
  PROVE  OwnTypes' /\ backoff' \in 0 .. Backoff /\ beats' = beats
<1> USE SupervisionAssumption
<1>1. status' \in [Procs -> {None, "app", "loader", "blank"}]
  BY DEF SystemPing, TypeOK
<1>2. failed' \in [Procs -> 0 .. PingLimit + 1] /\ backoff' \in 0 .. Backoff
  BY DEF SystemPing, TypeOK
<1>3. QED
  BY <1>1, <1>2 DEF SystemPing, TypeOK, OwnTypes
-----------------------------------------------------------------------------
(* Every action keeps the invariant *)

(* Nothing runs and no file is there. *)
LEMMA InitInv == Init => IInv
<1> SUFFICES ASSUME Init  PROVE IInv
  OBVIOUS
<1> USE SupervisionAssumption
<1>1. FileTypes
  BY DEF Init, FileTypes, Stages
<1>2. OwnTypes
  BY DEF Init, OwnTypes
<1>3. RestTypes
  <2>1. Backoff \in Nat /\ MaxFaults \in Nat /\ Counts \in Nat
    BY SupervisionAssumption
  <2>2. 0 \in 0 .. Backoff /\ 0 \in 0 .. MaxFaults /\ 0 \in 0 .. Counts - 1
    BY <2>1, SupervisionAssumption
  <2>3. QED
    BY <2>2 DEF Init, RestTypes
<1>4. FileInv /\ BeatInv
  BY DEF Init, FileInv, LockInv, FdInv, HolderInv, NameInv, BeatInv
<1>5. QED
  BY <1>1, <1>2, <1>3, <1>4, Parts DEF IInv

(* main() up to the first count, and the signal. *)
LEMMA StartInv ==
  ASSUME IInv, NEW p \in Procs,
         Open(p) \/ Lock(p) \/ WritePid(p) \/ Unlink(p) \/ Exit(p)
  PROVE  IInv'
<1> USE SupervisionAssumption
<1>1. TypeOK /\ FileInv /\ BeatInv /\ FileTypes /\ OwnTypes /\ RestTypes
  BY Parts DEF IInv
<1>2. CASE Open(p)
  <2>1. FileInv' /\ dir' \in Inodes /\ content' \in [Inodes -> Procs \cup {None}]
        /\ fd' \in [Procs -> Inodes \cup {None}]
    BY <1>1, <1>2, OpenFiles
  <2>2. UNCHANGED <<lock, term, kla, twice, faults>> /\ UNCHANGED own /\ UNCHANGED watch
        /\ UNCHANGED radio /\ pc' = [pc EXCEPT ![p] = "opened"] /\ pc[p] = "born"
    BY <1>2 DEF Open, Go
  <2>3. FileTypes' /\ OwnTypes' /\ RestTypes'
    BY <1>1, <2>1, <2>2 DEF FileTypes, OwnTypes, RestTypes, own, watch, radio, Stages
  <2>4. BeatInv'
    BY <1>1, <2>2 DEF BeatInv, own, FileTypes
  <2>5. QED
    BY <2>1, <2>3, <2>4, Joined
<1>3. CASE Lock(p)
  <2>1. UNCHANGED <<kla, twice, faults>> /\ UNCHANGED watch /\ UNCHANGED radio
    BY <1>3 DEF Lock
  <2>2. RestTypes'
    BY <1>1, <2>1 DEF RestTypes, watch, radio
  <2>3. CASE Gone(p)
    BY <1>1, <2>2, <2>3, GoneFiles, GoneKeeps, Joined
  <2>4. CASE /\ pc[p] = "opened"
             /\ lock[fd[p]] = None
             /\ Go(p, "opened", "locked")
             /\ lock' = [lock EXCEPT ![fd[p]] = p]
             /\ UNCHANGED <<dir, content, fd, term, own>>
    <3>1. FileInv'
      BY <1>1, <2>4, LockFiles DEF Go
    <3>2. FileTypes' /\ OwnTypes'
      BY <1>1, <2>4 DEF Go, FileTypes, OwnTypes, own, Stages
    <3>3. BeatInv'
      BY <1>1, <2>4 DEF Go, BeatInv, own, FileTypes
    <3>4. QED
      BY <2>2, <3>1, <3>2, <3>3, Joined
  <2>5. QED
    BY <1>3, <2>3, <2>4 DEF Lock
<1>4. CASE WritePid(p)
  <2>1. FileInv' /\ content' \in [Inodes -> Procs \cup {None}]
    BY <1>1, <1>4, WriteFiles
  <2>2. UNCHANGED <<dir, lock, fd, term, kla, twice, faults>> /\ UNCHANGED own
        /\ UNCHANGED watch /\ UNCHANGED radio
        /\ pc' = [pc EXCEPT ![p] = "written"] /\ pc[p] = "locked"
    BY <1>4 DEF WritePid, Go
  <2>3. FileTypes' /\ OwnTypes' /\ RestTypes'
    BY <1>1, <2>1, <2>2 DEF FileTypes, OwnTypes, RestTypes, own, watch, radio, Stages
  <2>4. BeatInv'
    BY <1>1, <2>2 DEF BeatInv, own, FileTypes
  <2>5. QED
    BY <2>1, <2>3, <2>4, Joined
<1>5. CASE Unlink(p)
  <2>1. FileInv' /\ content' \in [Inodes -> Procs \cup {None}]
    BY <1>1, <1>5, UnlinkFiles
  <2>2. UNCHANGED <<lock, fd, term, kla, twice, faults>> /\ UNCHANGED own
        /\ UNCHANGED watch /\ UNCHANGED radio
        /\ pc' = [pc EXCEPT ![p] = "leaving"] /\ dir' = None
    BY <1>5 DEF Unlink
  <2>3. FileTypes' /\ OwnTypes' /\ RestTypes'
    BY <1>1, <2>1, <2>2 DEF FileTypes, OwnTypes, RestTypes, own, watch, radio, Stages
  <2>4. BeatInv'
    BY <1>1, <2>2 DEF BeatInv, own, FileTypes
  <2>5. QED
    BY <2>1, <2>3, <2>4, Joined
<1>6. CASE Exit(p)
  <2>1. UNCHANGED <<kla, twice, faults>> /\ UNCHANGED watch /\ UNCHANGED radio /\ Gone(p)
    BY <1>6 DEF Exit
  <2>2. RestTypes'
    BY <1>1, <2>1 DEF RestTypes, watch, radio
  <2>3. QED
    BY <1>1, <2>1, <2>2, GoneFiles, GoneKeeps, Joined
<1>7. QED
  BY <1>2, <1>3, <1>4, <1>5, <1>6

(* The counts, the boot and the main loop. *)
LEMMA RunInv ==
  ASSUME IInv, NEW p \in Procs,
         FirstCount(p) \/ Beat(p) \/ ProcessorReset(p) \/ StartSystem(p) \/ EnterLoop(p)
  PROVE  IInv'
<1> USE SupervisionAssumption
<1>1. TypeOK /\ FileInv /\ BeatInv /\ FileTypes /\ OwnTypes /\ RestTypes
  BY Parts DEF IInv
<1>2. PICK to \in {"creating", "reset", "starting", "zdo", "running"} :
        /\ pc[p] \in {"written", "creating", "reset", "starting", "zdo", "running"}
        /\ pc' = [pc EXCEPT ![p] = to]
        /\ to = "creating" => pc[p] = "written" /\ UNCHANGED beats
        /\ UNCHANGED <<dir, content, lock, fd, term>>
  BY DEF FirstCount, Beat, ProcessorReset, StartSystem, EnterLoop, Go, file
<1>3. FileInv'
  BY <1>1, <1>2, LaterStage DEF Stages
<1>4. FileTypes'
  BY <1>1, <1>2 DEF FileTypes, Stages
<1>5. \A q \in Procs : pc'[q] = IF q = p THEN to ELSE pc[q]
  BY <1>1, <1>2 DEF FileTypes
<1>6. CASE KlaIncr(p) /\ beats[p] < 2 /\ to # "creating"
           /\ UNCHANGED <<waited, status, failed, kick, faults>> /\ UNCHANGED watch
           /\ UNCHANGED radio /\ twice' \in BOOLEAN
  <2>1. OwnTypes' /\ kla' \in 0 .. Counts - 1
        /\ \A q \in Procs : beats'[q] <= 2 /\ (q # p => beats'[q] = beats[q])
    BY <1>1, <1>6, KlaIncrKeeps DEF BeatInv
  <2>2. RestTypes'
    BY <1>1, <1>6, <2>1 DEF RestTypes, watch, radio
  <2>3. BeatInv'
    BY <1>1, <1>2, <1>5, <1>6, <2>1 DEF BeatInv
  <2>4. QED
    BY <1>3, <1>4, <2>1, <2>2, <2>3, Joined
<1>7. CASE OwnTypes' /\ RestTypes' /\ UNCHANGED beats
  <2>1. BeatInv'
    BY <1>1, <1>2, <1>5, <1>7 DEF BeatInv
  <2>2. QED
    BY <1>3, <1>4, <1>7, <2>1, Joined
<1>8. CASE FirstCount(p)
  <2>1. CASE /\ Go(p, "written", "creating")
             /\ kla' = IF kla = NoFile THEN Empty ELSE kla
             /\ UNCHANGED <<count, beats, twice>>
    <3>1. UNCHANGED <<waited, status, failed, kick, faults>> /\ UNCHANGED watch
          /\ UNCHANGED radio
      BY <1>8 DEF FirstCount
    <3>2. OwnTypes' /\ RestTypes'
      BY <1>1, <2>1, <3>1 DEF OwnTypes, RestTypes, watch, radio
    <3>3. QED
      BY <1>7, <2>1, <3>2
  <2>2. CASE /\ Go(p, "creating", "reset")
             /\ KlaIncr(p)
             /\ twice' = (twice \/ \E q \in Procs : Serving(q))
    <3>1. beats[p] = 0
      BY <1>1, <2>2 DEF BeatInv, Go
    <3>2. to = "reset"
      BY <1>2, <1>5, <2>2, <1>1 DEF Go, FileTypes
    <3>3. twice' \in BOOLEAN
      BY <2>2
    <3>4. UNCHANGED <<waited, status, failed, kick, faults>> /\ UNCHANGED watch
          /\ UNCHANGED radio
      BY <1>8 DEF FirstCount
    <3>5. QED
      BY <1>6, <2>2, <3>1, <3>2, <3>3, <3>4
  <2>3. QED
    BY <1>8, <2>1, <2>2 DEF FirstCount
<1>9. CASE Beat(p)
  <2>1. /\ pc' = [pc EXCEPT ![p] = "running"]
        /\ KlaIncr(p) /\ beats[p] < 2
        /\ UNCHANGED <<twice, waited, status, failed, kick, faults>> /\ UNCHANGED watch
        /\ UNCHANGED radio
    BY <1>9 DEF Beat, Go
  <2>2. to = "running"
    BY <1>1, <1>2, <2>1 DEF FileTypes
  <2>3. twice' \in BOOLEAN
    BY <1>1, <2>1 DEF RestTypes
  <2>4. QED
    BY <1>6, <2>1, <2>2, <2>3
<1>10. CASE ProcessorReset(p)
  <2>1. OwnTypes' /\ UNCHANGED beats
    BY <1>1, <1>10 DEF ProcessorReset, OwnTypes, own
  <2>2. RestTypes'
    BY <1>1, <1>10 DEF ProcessorReset, RestTypes, watch
  <2>3. QED
    BY <1>7, <2>1, <2>2
<1>11. CASE StartSystem(p)
  <2>1. OwnTypes' /\ backoff' \in 0 .. Backoff /\ UNCHANGED beats
    BY <1>1, <1>11, SystemPingKeeps DEF StartSystem
  <2>2. RestTypes'
    BY <1>1, <1>11, <2>1 DEF StartSystem, RestTypes, watch
  <2>3. QED
    BY <1>7, <2>1, <2>2
<1>12. CASE EnterLoop(p)
  <2>1. OwnTypes' /\ UNCHANGED beats
    BY <1>1, <1>12 DEF EnterLoop, OwnTypes, own
  <2>2. RestTypes'
    BY <1>1, <1>12 DEF EnterLoop, RestTypes, watch, radio
  <2>3. QED
    BY <1>7, <2>1, <2>2
<1>13. QED
  BY <1>8, <1>9, <1>10, <1>11, <1>12

(* The monitor, the watchdog thread, and what ends a process. *)
LEMMA ThreadsInv ==
  ASSUME IInv, NEW p \in Procs,
         Monitor(p) \/ WdtKick(p) \/ KickInterrupted(p) \/ MtOOBRecv(p) \/ Crash(p) \/ LoseKick(p)
  PROVE  IInv'
<1> USE SupervisionAssumption
<1>1. TypeOK /\ FileInv /\ BeatInv /\ FileTypes /\ OwnTypes /\ RestTypes
  BY Parts DEF IInv
<1>2. CASE Monitor(p)
  <2>1. UNCHANGED <<kla, twice, coord, faults>> /\ UNCHANGED watch
    BY <1>2 DEF Monitor
  <2>2. CASE SystemPing(p, TRUE) /\ UNCHANGED <<file, pc, fd, term>>
    <3>1. OwnTypes' /\ backoff' \in 0 .. Backoff /\ UNCHANGED beats
      BY <1>1, <2>2, SystemPingKeeps
    <3>2. RestTypes'
      BY <1>1, <2>1, <3>1 DEF RestTypes, watch
    <3>3. FileTypes' /\ FileInv'
      BY <1>1, <2>2, FilesKept DEF FileTypes, file
    <3>4. BeatInv'
      BY <1>1, <2>2, <3>1 DEF BeatInv
    <3>5. QED
      BY <3>1, <3>2, <3>3, <3>4, Joined
  <2>3. CASE Gone(p) /\ UNCHANGED backoff
    <3>1. RestTypes'
      BY <1>1, <2>1, <2>3 DEF RestTypes, watch
    <3>2. QED
      BY <1>1, <2>3, <3>1, GoneFiles, GoneKeeps, Joined
  <2>4. QED
    BY <1>2, <2>2, <2>3 DEF Monitor
<1>3. CASE WdtKick(p) \/ KickInterrupted(p) \/ MtOOBRecv(p) \/ LoseKick(p)
  <2>1. /\ kick' \in [Procs -> {"ready", "sent", "lost"}]
        /\ UNCHANGED <<kla, twice>> /\ UNCHANGED watch /\ UNCHANGED radio
        /\ UNCHANGED <<file, pc, fd, term>>
        /\ UNCHANGED <<count, beats, waited, status, failed>>
    BY <1>1, <1>3 DEF WdtKick, KickInterrupted, MtOOBRecv, LoseKick, OwnTypes
  <2>2. faults' \in 0 .. MaxFaults
    BY <1>1, <1>3 DEF WdtKick, KickInterrupted, MtOOBRecv, LoseKick, Fault, RestTypes
  <2>3. OwnTypes' /\ RestTypes'
    BY <1>1, <2>1, <2>2 DEF OwnTypes, RestTypes, watch, radio
  <2>4. FileTypes' /\ FileInv' /\ BeatInv'
    BY <1>1, <2>1, FilesKept DEF FileTypes, file, BeatInv
  <2>5. QED
    BY <2>3, <2>4, Joined
<1>4. CASE Crash(p)
  <2>1. faults' \in 0 .. MaxFaults /\ Gone(p)
    BY <1>1, <1>4 DEF Crash, Fault, RestTypes
  <2>2. UNCHANGED <<kla, twice>> /\ UNCHANGED watch /\ UNCHANGED radio
    BY <1>4 DEF Crash
  <2>3. RestTypes'
    BY <1>1, <2>1, <2>2 DEF RestTypes, watch, radio
  <2>4. QED
    BY <1>1, <2>1, <2>3, GoneFiles, GoneKeeps, Joined
<1>5. QED
  BY <1>2, <1>3, <1>4

(* A look: the counts of all since the last one are forgotten. *)
LEMMA LookKeeps ==
  ASSUME IInv, Look
  PROVE  /\ FileTypes' /\ OwnTypes' /\ FileInv' /\ BeatInv'
         /\ UNCHANGED <<kla, twice, coord, backoff, faults>>
<1>1. TypeOK /\ FileInv /\ BeatInv /\ FileTypes /\ OwnTypes /\ RestTypes
  BY Parts DEF IInv
<1>2. /\ beats' = [p \in Procs |-> 0]
      /\ UNCHANGED <<file, pc, fd, term>>
      /\ UNCHANGED <<kla, twice, count, status, failed, kick>>
      /\ UNCHANGED radio /\ UNCHANGED faults
  BY DEF Look
<1>3. waited' \in [Procs -> Nat]
  <2>1. waited' = [p \in Procs |-> IF Booting(p) /\ ~Obstructed THEN waited[p] + 1 ELSE waited[p]]
    BY DEF Look
  <2>2. \A p \in Procs : waited[p] \in Nat
    BY <1>1 DEF OwnTypes
  <2>3. QED
    BY <2>1, <2>2
<1>4. OwnTypes'
  BY <1>1, <1>2, <1>3 DEF OwnTypes
<1>5. FileTypes' /\ FileInv' /\ BeatInv'
  BY <1>1, <1>2, FilesKept DEF FileTypes, file, BeatInv
<1>6. QED
  BY <1>2, <1>4, <1>5 DEF radio

(* What checkByPIDFile() finds is a process or nothing. *)
LEMMA NamedProc ==
  ASSUME TypeOK
  PROVE  Named \in Procs \cup {None}
BY SupervisionAssumption DEF TypeOK, Named

(* The watcher. *)
LEMMA WatcherInv ==
  ASSUME IInv, Watcher
  PROVE  IInv'
<1> USE SupervisionAssumption
<1>1. TypeOK /\ FileInv /\ BeatInv /\ FileTypes /\ OwnTypes /\ RestTypes
  BY Parts DEF IInv
<1>2. Named \in Procs \cup {None}
  BY <1>1, NamedProc
<1>3. CASE NotRunning \/ Changed \/ Tolerated \/ Replaced
  <2>1. Look
    BY <1>3 DEF NotRunning, Changed, Tolerated, Replaced
  <2>2. /\ FileTypes' /\ OwnTypes' /\ FileInv' /\ BeatInv'
        /\ UNCHANGED <<kla, twice, coord, backoff, faults>>
    BY <2>1, LookKeeps
  <2>3. /\ wpc' \in {"stop", "sleep"}
        /\ seen' \in Procs \cup {None}
        /\ quiet' \in Nat
    <3>1. Continue \/ Restart
      BY <1>3 DEF NotRunning, Changed, Tolerated, Replaced
    <3>2. quiet \in Nat
      BY <1>1 DEF RestTypes
    <3>3. QED
      BY <1>2, <3>1, <3>2 DEF Continue, Restart
  <2>4. tolerance' \in {0, 1}
    <3>1. tolerance \in {0, 1}
      BY <1>1 DEF RestTypes
    <3>2. tolerance' = tolerance \/ tolerance' = 0 \/ (tolerance = 0 /\ tolerance' = tolerance + 1)
      BY <1>3 DEF NotRunning, Changed, Tolerated, Replaced
    <3>3. QED
      BY <3>1, <3>2
  <2>5. ref' \in 0 .. Counts - 1
    <3>1. CASE Changed
      <4>1. PICK v \in KlaReads \ {-1, ref} : ref' = v
        BY <3>1 DEF Changed
      <4>2. Counts \in Nat
        BY SupervisionAssumption
      <4>3. CASE kla = Empty
        BY <4>1, <4>2, <4>3 DEF KlaReads
      <4>4. CASE kla # Empty
        <5>1. v = kla /\ v # -1
          BY <4>1, <4>4 DEF KlaReads
        <5>2. kla \in {NoFile, Empty} \cup 0 .. Counts - 1
          BY <1>1 DEF RestTypes
        <5>3. QED
          BY <4>1, <4>4, <5>1, <5>2 DEF NoFile
      <4>5. QED
        BY <4>3, <4>4
    <3>2. CASE UNCHANGED ref
      BY <1>1, <3>2 DEF RestTypes
    <3>3. QED
      BY <1>3, <3>1, <3>2 DEF NotRunning, Tolerated, Replaced
  <2>6. RestTypes'
    BY <1>1, <2>2, <2>3, <2>4, <2>5 DEF RestTypes
  <2>7. QED
    BY <2>2, <2>6, Joined
<1>4. CASE Stop
  <2>1. /\ UNCHANGED <<file, pc, fd>> /\ UNCHANGED <<kla, twice, ref, tolerance, seen, quiet, faults>>
        /\ UNCHANGED own /\ UNCHANGED radio /\ wpc' = "start"
        /\ term' \in {term, term \cup {Named}} /\ (Named = None => term' = term)
    BY <1>4 DEF Stop
  <2>2. FileTypes' /\ OwnTypes' /\ RestTypes'
    BY <1>1, <1>2, <2>1 DEF FileTypes, OwnTypes, RestTypes, file, own, radio
  <2>3. FileInv' /\ BeatInv'
    BY <1>1, <2>1, FilesKept DEF file, own, BeatInv
  <2>4. QED
    BY <2>2, <2>3, Joined
<1>5. CASE Start
  <2> DEFINE p == CHOOSE q \in Procs : pc[q] = "dead" /\ q # Named
  <2>1. p \in Procs /\ pc[p] = "dead" /\ pc' = [pc EXCEPT ![p] = "born"]
    BY <1>5 DEF Start
  <2>2. /\ UNCHANGED <<file, fd, term>> /\ UNCHANGED <<kla, twice, ref, tolerance, seen, quiet, faults>>
        /\ UNCHANGED own /\ UNCHANGED radio /\ wpc' = "sleep"
    BY <1>5 DEF Start
  <2> HIDE DEF p
  <2>3. FileTypes' /\ OwnTypes' /\ RestTypes'
    BY <1>1, <2>1, <2>2 DEF FileTypes, OwnTypes, RestTypes, file, own, radio, Stages
  <2>4. FileInv'
    BY <1>1, <2>1, <2>2 DEF FileInv, LockInv, FdInv, HolderInv, NameInv, file, FileTypes
  <2>5. BeatInv'
    BY <1>1, <2>1, <2>2 DEF BeatInv, own, FileTypes
  <2>6. QED
    BY <2>3, <2>4, <2>5, Joined
<1>6. CASE Wake
  <2>1. /\ UNCHANGED <<file, pc, fd, term>>
        /\ UNCHANGED <<kla, twice, ref, tolerance, seen, quiet, coord, faults>>
        /\ UNCHANGED own /\ wpc' = "look"
        /\ backoff' = IF backoff > 0 THEN backoff - 1 ELSE 0
    BY <1>6 DEF Wake
  <2>2. backoff' \in 0 .. Backoff
    <3>1. Backoff \in Nat /\ backoff \in 0 .. Backoff
      BY <1>1, SupervisionAssumption DEF RestTypes
    <3>2. QED
      BY <2>1, <3>1
  <2>3. FileTypes' /\ OwnTypes' /\ RestTypes'
    BY <1>1, <2>1, <2>2 DEF FileTypes, OwnTypes, RestTypes, file, own
  <2>4. FileInv' /\ BeatInv'
    BY <1>1, <2>1, FilesKept DEF file, own, BeatInv
  <2>5. QED
    BY <2>3, <2>4, Joined
<1>7. CASE WatcherStart
  <2>1. /\ UNCHANGED <<file, pc, fd, term>> /\ UNCHANGED <<kla, twice, faults>>
        /\ UNCHANGED own /\ UNCHANGED radio
        /\ wpc' = "look" /\ ref' = 0 /\ tolerance' = 0 /\ seen' = None /\ quiet' = 0
    BY <1>7 DEF WatcherStart
  <2>2. 0 \in 0 .. Counts - 1
    BY SupervisionAssumption
  <2>3. FileTypes' /\ OwnTypes' /\ RestTypes'
    BY <1>1, <2>1, <2>2 DEF FileTypes, OwnTypes, RestTypes, file, own, radio
  <2>4. FileInv' /\ BeatInv'
    BY <1>1, <2>1, FilesKept DEF file, own, BeatInv
  <2>5. QED
    BY <2>3, <2>4, Joined
<1>8. QED
  BY <1>3, <1>4, <1>5, <1>6, <1>7 DEF Watcher

(* The coordinator, and the stop of the watcher. *)
LEMMA OutsideInv ==
  ASSUME IInv, CoordFault \/ Starve \/ WatcherTerm
  PROVE  IInv'
<1> USE SupervisionAssumption
<1>1. TypeOK /\ FileInv /\ BeatInv /\ FileTypes /\ OwnTypes /\ RestTypes
  BY Parts DEF IInv
<1>2. Named \in Procs \cup {None}
  BY <1>1, NamedProc
<1>3. faults' \in 0 .. MaxFaults
  BY <1>1 DEF CoordFault, Starve, WatcherTerm, Fault, RestTypes
<1>4. /\ UNCHANGED <<file, pc, fd>> /\ UNCHANGED <<kla, twice, backoff>> /\ UNCHANGED own
      /\ UNCHANGED <<ref, tolerance, seen, quiet>>
  BY DEF CoordFault, Starve, WatcherTerm, watch, radio
<1>5. coord' \in {"app", "loader", "blank", "mute"}
  BY <1>1 DEF CoordFault, Starve, WatcherTerm, radio, RestTypes
<1>6. wpc' \in {"look", "stop", "start", "sleep", "down"}
  BY <1>1 DEF CoordFault, Starve, WatcherTerm, watch, RestTypes
<1>7. term' \in {term, term \cup {Named}} /\ (Named = None => term' = term)
  BY DEF CoordFault, Starve, WatcherTerm
<1>8. FileTypes' /\ OwnTypes' /\ RestTypes'
  BY <1>1, <1>2, <1>3, <1>4, <1>5, <1>6, <1>7 DEF FileTypes, OwnTypes, RestTypes, file, own
<1>9. FileInv' /\ BeatInv'
  BY <1>1, <1>4, FilesKept DEF file, own, BeatInv
<1>10. QED
  BY <1>8, <1>9, Joined

(* Every step keeps the invariant. *)
LEMMA NextInv == IInv /\ [Next]_vars => IInv'
<1> SUFFICES ASSUME IInv, [Next]_vars  PROVE IInv'
  OBVIOUS
<1>1. CASE UNCHANGED vars
  <2>1. /\ UNCHANGED <<file, pc, fd, term>> /\ UNCHANGED <<kla, twice, faults>>
        /\ UNCHANGED own /\ UNCHANGED watch /\ UNCHANGED radio
    BY <1>1 DEF vars
  <2>2. FileTypes' /\ OwnTypes' /\ RestTypes'
    BY <2>1, Parts DEF IInv, FileTypes, OwnTypes, RestTypes, file, own, watch, radio
  <2>3. FileInv' /\ BeatInv'
    BY <2>1, FilesKept DEF IInv, file, own, BeatInv
  <2>4. QED
    BY <2>2, <2>3, Joined
<1>2. QED
  BY <1>1, StartInv, RunInv, ThreadsInv, WatcherInv, OutsideInv DEF Next, Gateway
-----------------------------------------------------------------------------
(* The watcher's view: what each kind of step does to it *)

(* The next count, without the remainder. *)
LEMMA NextCount ==
  ASSUME NEW c \in 0 .. Counts - 1
  PROVE  (c + 1) % Counts = Ahead(c, 1) /\ Ahead(c, 1) \in 0 .. Counts - 1
<1>1. Counts \in Nat /\ Counts > 2 /\ c \in Nat /\ c < Counts
  BY SupervisionAssumption
<1>2. CASE c + 1 < Counts
  BY <1>1, <1>2 DEF Ahead
<1>3. CASE c + 1 = Counts
  <2>1. Counts % Counts = 0
    BY <1>1
  <2>2. QED
    BY <1>1, <1>3, <2>1 DEF Ahead
<1>4. QED
  BY <1>1, <1>2, <1>3

(* A count moves the file one ahead of the reference. *)
LEMMA AheadOnce ==
  ASSUME NEW c \in 0 .. Counts - 1, NEW n \in {0, 1}
  PROVE  /\ Ahead(Ahead(c, n), 1) = Ahead(c, n + 1)
         /\ Ahead(c, n) \in 0 .. Counts - 1
         /\ Ahead(c, 0) = c /\ Ahead(c, 1) # c /\ Ahead(c, 2) # c
<1>1. Counts \in Nat /\ Counts > 2 /\ c \in Nat /\ c < Counts /\ n \in Nat
  BY SupervisionAssumption
<1>2. QED
  BY <1>1 DEF Ahead

(* A step that leaves the watcher, the counts and the stages alone. *)
LEMMA ViewKept ==
  ASSUME WatchInv,
         UNCHANGED <<dir, content, pc, kla, count, beats, twice, wpc, ref, tolerance, seen, quiet>>
  PROVE  WatchInv'
BY DEF WatchInv, OneInv, NumberInv, Named, FreshInv, AloneInv, CountInv, LookInv, SeenInv, QuietInv

(* A process goes on in its start or in its service, and nobody counts. *)
LEMMA ViewMoved ==
  ASSUME TypeOK, WatchInv, NEW p \in Procs, NEW to \in Stages \ {"dead"},
         pc' = [pc EXCEPT ![p] = to],
         to \in {"born", "opened", "locked"} => pc[p] \in {"born", "opened", "locked"},
         to \in Uncounted => pc[p] \in {"locked"} \cup Uncounted,
         to \in Served => pc[p] \in Served,
         kla' = kla \/ kla = NoFile,
         NumberInv', UNCHANGED <<count, beats, twice>>, UNCHANGED watch
  PROVE  WatchInv'
<1> USE DEF TypeOK, watch, Early, Uncounted, Served
<1>1. \A q \in Procs : pc'[q] = IF q = p THEN to ELSE pc[q]
  OBVIOUS
<1>2. FreshInv'
  BY <1>1 DEF WatchInv, FreshInv
<1>3. ASSUME ~twice'  PROVE OneInv'
  <2>1. OneInv
    BY <1>3 DEF WatchInv
  <2>2. AloneInv'
    BY <1>1, <2>1 DEF OneInv, AloneInv
  <2>3. ASSUME NEW q \in Procs, pc'[q] \in Served
        PROVE  pc[q] \in Served /\ kla \in 0 .. Counts - 1 /\ kla' = kla
    BY <1>1, <2>1, <2>3 DEF OneInv, CountInv, NoFile
  <2>4. CountInv'
    BY <2>1, <2>3 DEF OneInv, CountInv, Ahead
  <2>5. LookInv'
    BY <1>1, <2>1 DEF OneInv, LookInv
  <2>6. SeenInv'
    <3> SUFFICES ASSUME seen # None  PROVE SeenInv'
      BY DEF SeenInv
    <3>1. seen \in Procs /\ pc[seen] \notin {"born", "opened", "locked"}
      BY <2>1 DEF OneInv, SeenInv
    <3>2. pc'[seen] \notin {"born", "opened", "locked"}
      BY <1>1, <3>1
    <3>3. pc'[seen] \in Uncounted => pc[seen] \in Uncounted
      BY <1>1, <3>1
    <3>4. pc'[seen] \in Served => pc[seen] \in Served /\ kla' = kla
      BY <2>3, <3>1
    <3>5. QED
      BY <2>1, <3>1, <3>2, <3>3, <3>4 DEF OneInv, SeenInv, Ahead
  <2>7. QED
    BY <2>1, <2>2, <2>4, <2>5, <2>6 DEF OneInv, QuietInv
<1>4. QED
  BY <1>2, <1>3 DEF WatchInv

(* A process ends: what it counted is the file's until another counts. *)
LEMMA ViewGone ==
  ASSUME TypeOK, WatchInv, NEW p \in Procs, Gone(p), UNCHANGED <<kla, twice>>, UNCHANGED watch
  PROVE  WatchInv'
<1> USE DEF TypeOK, watch, Early, Uncounted, Served
<1>1. /\ \A q \in Procs : pc'[q] = IF q = p THEN "dead" ELSE pc[q]
      /\ \A q \in Procs : count'[q] = IF q = p THEN 1 ELSE count[q]
      /\ \A q \in Procs : beats'[q] = IF q = p THEN 0 ELSE beats[q]
      /\ dir' = dir /\ (dir # None => content'[dir] = content[dir])
  BY DEF Gone, Fresh
<1>2. Named' = Named /\ Named \in Procs \cup {None}
  BY <1>1, SupervisionAssumption DEF Named
<1>3. NumberInv'
  BY <1>1, <1>2 DEF WatchInv, NumberInv
<1>4. FreshInv'
  BY <1>1 DEF WatchInv, FreshInv
<1>5. ASSUME ~twice'  PROVE OneInv'
  <2>1. OneInv
    BY <1>5 DEF WatchInv
  <2>2. AloneInv'
    BY <1>1, <2>1 DEF OneInv, AloneInv
  <2>3. CountInv'
    BY <1>1, <2>1 DEF OneInv, CountInv, Ahead
  <2>4. LookInv'
    BY <1>1, <2>1 DEF OneInv, LookInv
  <2>5. SeenInv'
    BY <1>1, <2>1 DEF OneInv, SeenInv, Ahead
  <2>6. QED
    BY <2>1, <2>2, <2>3, <2>4, <2>5 DEF OneInv, QuietInv
<1>6. QED
  BY <1>3, <1>4, <1>5 DEF WatchInv

(* main() up to its number, and the signal. *)
LEMMA StartView ==
  ASSUME IInv, WatchInv, NEW p \in Procs,
         Open(p) \/ Lock(p) \/ WritePid(p) \/ Unlink(p) \/ Exit(p)
  PROVE  WatchInv'
<1> USE SupervisionAssumption
<1>1. TypeOK /\ FileInv /\ NumberInv
  BY DEF IInv, WatchInv
<1>2. Named \in Procs \cup {None}
  BY <1>1 DEF TypeOK, Named
<1>3. ASSUME NEW to \in Stages, pc' = [pc EXCEPT ![p] = to]
      PROVE  \A q \in Procs : pc'[q] = IF q = p THEN to ELSE pc[q]
  BY <1>1, <1>3 DEF TypeOK
<1>4. CASE Open(p)
  <2>1. /\ pc' = [pc EXCEPT ![p] = "opened"] /\ pc[p] = "born"
        /\ UNCHANGED <<kla, twice, count, beats>> /\ UNCHANGED watch
    BY <1>4 DEF Open, Go, own
  <2>2. NumberInv'
    <3>1. CASE dir # None
      <4>1. Named' = Named
        BY <1>4, <3>1 DEF Open, Named
      <4>2. QED
        BY <1>1, <1>2, <1>3, <2>1, <4>1 DEF NumberInv, Stages, Uncounted, Served
    <3>2. CASE dir = None
      <4>1. content' = [content EXCEPT ![dir'] = None]
        BY <1>4, <3>2 DEF Open
      <4>2. dir' \in Inodes
        BY <1>1, <1>4, OpenFiles
      <4>3. Named' = None
        BY <1>1, <4>1, <4>2 DEF Named, TypeOK
      <4>4. QED
        BY <4>3 DEF NumberInv
    <3>3. QED
      BY <3>1, <3>2
  <2>3. QED
    BY <1>1, <2>1, <2>2, ViewMoved DEF Stages, Uncounted, Served
<1>5. CASE Lock(p)
  <2>1. UNCHANGED <<kla, twice>> /\ UNCHANGED watch
    BY <1>5 DEF Lock
  <2>2. CASE Gone(p)
    BY <1>1, <2>1, <2>2, ViewGone
  <2>3. CASE Go(p, "opened", "locked") /\ UNCHANGED <<dir, content, own>>
    <3>1. pc' = [pc EXCEPT ![p] = "locked"] /\ pc[p] = "opened" /\ UNCHANGED <<count, beats>>
      BY <2>3 DEF Go, own
    <3>2. NumberInv'
      <4>1. Named' = Named
        BY <2>3 DEF Named
      <4>2. QED
        BY <1>1, <1>2, <1>3, <3>1, <4>1 DEF NumberInv, Stages, Uncounted, Served
    <3>3. QED
      BY <1>1, <2>1, <3>1, <3>2, ViewMoved DEF Stages, Uncounted, Served
  <2>4. QED
    BY <1>5, <2>2, <2>3 DEF Lock
<1>6. CASE WritePid(p)
  <2>1. /\ pc' = [pc EXCEPT ![p] = "written"] /\ pc[p] = "locked"
        /\ content' = [content EXCEPT ![fd[p]] = p] /\ dir' = dir
        /\ UNCHANGED <<kla, twice, count, beats>> /\ UNCHANGED watch
    BY <1>6 DEF WritePid, Go, own
  <2>2. NumberInv'
    <3>1. Named' \in {Named, p}
      BY <1>1, <2>1 DEF Named, TypeOK
    <3>2. QED
      BY <1>1, <1>2, <1>3, <2>1, <3>1 DEF NumberInv, Stages, Uncounted, Served
  <2>3. QED
    BY <1>1, <2>1, <2>2, ViewMoved DEF Stages, Uncounted, Served
<1>7. CASE Unlink(p)
  <2>1. /\ pc' = [pc EXCEPT ![p] = "leaving"] /\ dir' = None
        /\ UNCHANGED <<kla, twice, count, beats>> /\ UNCHANGED watch
    BY <1>7 DEF Unlink, own
  <2>2. NumberInv'
    BY <2>1 DEF NumberInv, Named
  <2>3. QED
    BY <1>1, <2>1, <2>2, ViewMoved DEF Stages, Uncounted, Served
<1>8. CASE Exit(p)
  BY <1>1, <1>8, ViewGone DEF Exit
<1>9. QED
  BY <1>4, <1>5, <1>6, <1>7, <1>8

(* klaIncr(), of the only process that serves after it. *)
LEMMA ViewCounts ==
  ASSUME IInv, WatchInv, NEW p \in Procs, NEW to \in {"reset", "running"},
         pc[p] = IF to = "reset" THEN "creating" ELSE "running",
         pc' = [pc EXCEPT ![p] = to], KlaIncr(p), beats[p] < 2,
         twice' = (twice \/ (to = "reset" /\ \E q \in Procs : pc[q] \in Served)),
         UNCHANGED <<dir, content>>, UNCHANGED watch
  PROVE  WatchInv'
<1> USE SupervisionAssumption DEF watch, Early, Uncounted, Served
<1>1. TypeOK /\ BeatInv
  BY DEF IInv
<1>2. /\ \A q \in Procs : pc'[q] = IF q = p THEN to ELSE pc[q]
      /\ kla' = count[p]
      /\ \A q \in Procs : count'[q] = IF q = p THEN (count[p] + 1) % Counts ELSE count[q]
      /\ \A q \in Procs : beats'[q] = IF q = p THEN beats[p] + 1 ELSE beats[q]
  BY <1>1 DEF KlaIncr, TypeOK
<1>3. /\ count[p] \in 0 .. Counts - 1 /\ beats[p] \in {0, 1}
      /\ \A q \in Procs : beats[q] \in Nat
      /\ ref \in 0 .. Counts - 1 /\ tolerance \in {0, 1} /\ seen \in Procs \cup {None}
  BY <1>1 DEF TypeOK
<1>4. NumberInv'
  <2>1. Named' = Named /\ Named \in Procs \cup {None}
    BY <1>1 DEF Named, TypeOK
  <2>2. QED
    BY <1>2, <2>1 DEF WatchInv, NumberInv
<1>5. FreshInv'
  BY <1>2 DEF WatchInv, FreshInv
<1>6. ASSUME ~twice'  PROVE OneInv'
  <2>1. OneInv
    BY <1>6 DEF WatchInv
  <2>2. \A q \in Procs : pc'[q] \in Served => q = p
    BY <1>2, <1>6, <2>1 DEF OneInv, AloneInv
  <2>3. AloneInv'
    BY <2>2 DEF AloneInv
  <2>4. CountInv'
    BY <1>2, <1>3, <2>2, NextCount DEF CountInv, Ahead
  <2>5. LookInv'
    BY <1>2, <2>1 DEF OneInv, LookInv
  <2>6. SeenInv'
    <3> SUFFICES ASSUME seen # None  PROVE SeenInv'
      BY DEF SeenInv
    <3>1. pc'[seen] \notin {"born", "opened", "locked"}
      BY <1>2, <1>3, <2>1 DEF OneInv, SeenInv
    <3>2. pc'[seen] \in Uncounted => pc[seen] \in Uncounted
      BY <1>2, <1>3
    <3>3. ASSUME pc'[seen] \in Served
          PROVE  seen = p /\ beats'[p] # 0 /\ (tolerance = 1 => kla' = Ahead(ref, beats'[p]))
      <4>1. seen = p /\ beats'[p] = beats[p] + 1 /\ beats'[p] # 0
        BY <1>2, <1>3, <2>2, <3>3
      <4>2. ASSUME tolerance = 1  PROVE kla' = Ahead(ref, beats[p] + 1)
        <5>1. CASE to = "reset"
          <6>1. beats[p] = 0 /\ count[p] = 1 /\ ref = 0
            BY <1>1, <2>1, <4>1, <4>2, <5>1 DEF BeatInv, WatchInv, FreshInv, OneInv, SeenInv
          <6>2. QED
            BY <1>2, <6>1 DEF Ahead
        <5>2. CASE to = "running"
          <6>1. kla = Ahead(ref, beats[p]) /\ count[p] = Ahead(kla, 1)
            BY <2>1, <4>1, <4>2, <5>2 DEF OneInv, SeenInv, CountInv
          <6>2. QED
            BY <1>2, <1>3, <6>1, AheadOnce
        <5>3. QED
          BY <5>1, <5>2
      <4>3. QED
        BY <4>1, <4>2
    <3>4. QED
      BY <2>1, <3>1, <3>2, <3>3 DEF OneInv, SeenInv
  <2>7. QED
    BY <2>1, <2>3, <2>4, <2>5, <2>6 DEF OneInv, QuietInv
<1>7. QED
  BY <1>4, <1>5, <1>6 DEF WatchInv

(* The number is of the same process as before, and that goes on. *)
LEMMA NumberKept ==
  ASSUME TypeOK, NumberInv, NEW p \in Procs, NEW to \in Uncounted \cup Served,
         pc' = [pc EXCEPT ![p] = to], UNCHANGED <<dir, content>>
  PROVE  NumberInv'
<1>1. Named' = Named /\ Named \in Procs \cup {None}
  BY SupervisionAssumption DEF Named, TypeOK
<1>2. QED
  BY <1>1 DEF NumberInv, TypeOK, Uncounted, Served

(* The counts, the boot and the main loop. *)
LEMMA RunView ==
  ASSUME IInv, WatchInv, NEW p \in Procs,
         FirstCount(p) \/ Beat(p) \/ ProcessorReset(p) \/ StartSystem(p) \/ EnterLoop(p)
  PROVE  WatchInv'
<1>1. TypeOK /\ BeatInv /\ NumberInv
  BY DEF IInv, WatchInv
<1>2. UNCHANGED <<dir, content>> /\ UNCHANGED watch
  BY DEF FirstCount, Beat, ProcessorReset, StartSystem, EnterLoop, file
<1>3. ASSUME NEW to \in {"creating", "starting", "zdo", "running"},
             pc' = [pc EXCEPT ![p] = to],
             pc[p] = "written" \/ (to # "creating" /\ pc[p] \in Served),
             kla' = kla \/ kla = NoFile,
             UNCHANGED <<count, beats, twice>>,
             to = "creating" \/ pc[p] # "written"
      PROVE  WatchInv'
  <2>1. NumberInv'
    BY <1>1, <1>2, <1>3, NumberKept DEF Uncounted, Served
  <2>2. QED
    BY <1>1, <1>2, <1>3, <2>1, ViewMoved DEF Stages, Uncounted, Served
<1>4. CASE FirstCount(p)
  <2>1. CASE /\ Go(p, "written", "creating")
             /\ kla' = IF kla = NoFile THEN Empty ELSE kla
             /\ UNCHANGED <<count, beats, twice>>
    BY <1>3, <2>1 DEF Go
  <2>2. CASE /\ Go(p, "creating", "reset")
             /\ KlaIncr(p)
             /\ twice' = (twice \/ \E q \in Procs : Serving(q))
    <3>1. pc[p] = "creating" /\ pc' = [pc EXCEPT ![p] = "reset"]
      BY <2>2 DEF Go
    <3>2. beats[p] = 0
      BY <1>1, <3>1 DEF BeatInv
    <3>3. \A q \in Procs : Serving(q) <=> pc[q] \in Served
      BY DEF Serving, Booting, Served
    <3>4. twice' = (twice \/ ("reset" = "reset" /\ \E q \in Procs : pc[q] \in Served))
      <4>1. (\E q \in Procs : Serving(q)) <=> \E q \in Procs : pc[q] \in Served
        BY <3>3
      <4>2. QED
        BY <2>2, <4>1
    <3>5. KlaIncr(p) /\ beats[p] < 2
      BY <2>2, <3>2
    <3>6. QED
      BY <1>2, <3>1, <3>4, <3>5, ViewCounts
  <2>3. QED
    BY <1>4, <2>1, <2>2 DEF FirstCount
<1>5. CASE Beat(p)
  <2>1. /\ pc[p] = "running" /\ pc' = [pc EXCEPT ![p] = "running"]
        /\ KlaIncr(p) /\ beats[p] < 2 /\ UNCHANGED twice
    BY <1>5 DEF Beat, Go
  <2>2. twice' = (twice \/ ("running" = "reset" /\ \E q \in Procs : pc[q] \in Served))
    BY <1>1, <2>1 DEF TypeOK
  <2>3. QED
    BY <1>2, <2>1, <2>2, ViewCounts
<1>6. CASE ProcessorReset(p)
  BY <1>3, <1>6 DEF ProcessorReset, Go, own, Served
<1>7. CASE StartSystem(p)
  <2>1. /\ pc[p] = "starting"
        /\ pc' = [pc EXCEPT ![p] = IF coord = "app" THEN "zdo" ELSE "starting"]
        /\ UNCHANGED <<count, beats, twice, kla>>
    BY <1>7 DEF StartSystem, SystemPing, Go
  <2>2. PICK to \in {"zdo", "starting"} : pc' = [pc EXCEPT ![p] = to]
    BY <2>1
  <2>3. QED
    BY <1>3, <2>1, <2>2 DEF Served
<1>8. CASE EnterLoop(p)
  BY <1>3, <1>8 DEF EnterLoop, Go, own, Served
<1>9. QED
  BY <1>4, <1>5, <1>6, <1>7, <1>8

(* The monitor, the watchdog thread, and what ends a process. *)
LEMMA ThreadsView ==
  ASSUME IInv, WatchInv, NEW p \in Procs,
         Monitor(p) \/ WdtKick(p) \/ KickInterrupted(p) \/ MtOOBRecv(p) \/ Crash(p) \/ LoseKick(p)
  PROVE  WatchInv'
<1>1. TypeOK
  BY DEF IInv
<1>2. CASE Gone(p) /\ UNCHANGED <<kla, twice>> /\ UNCHANGED watch
  BY <1>1, <1>2, ViewGone
<1>3. CASE UNCHANGED <<file, pc, kla, twice, count, beats>> /\ UNCHANGED watch
  BY <1>3, ViewKept DEF file, watch
<1>4. QED
  BY <1>2, <1>3 DEF Monitor, SystemPing, WdtKick, KickInterrupted, MtOOBRecv, Crash, LoseKick

(* The coordinator, and the stop of the watcher. *)
LEMMA OutsideView ==
  ASSUME IInv, WatchInv, CoordFault \/ Starve \/ WatcherTerm
  PROVE  WatchInv'
<1>1. /\ UNCHANGED <<dir, content, pc, kla, count, beats, twice, ref, tolerance, seen, quiet>>
      /\ wpc' = wpc \/ wpc' = "down"
  BY DEF CoordFault, Starve, WatcherTerm, file, own, watch
<1>2. CASE wpc' = wpc
  BY <1>1, <1>2, ViewKept
<1>3. CASE wpc' = "down"
  BY <1>1, <1>3 DEF WatchInv, OneInv, NumberInv, Named, FreshInv, AloneInv, CountInv, LookInv,
                    SeenInv, QuietInv
<1>4. QED
  BY <1>1, <1>2, <1>3

(* What a look finds running has counted, but for the watcher's first.     *)
LEMMA FoundRunning ==
  ASSUME TypeOK, NumberInv, Runs(TRUE), Named # None
  PROVE  Named \in Procs /\ pc[Named] \in Uncounted \cup Served
<1>1. Named \in Procs /\ dir # None
  BY NamedProc DEF Named
<1>2. pc[Named] # "dead"
  BY <1>1 DEF Runs
<1>3. QED
  BY <1>1, <1>2 DEF NumberInv

(* A gateway that has been silent since it was found left the file as the  *)
(* watcher read it.                                                        *)
LEMMA SilentSame ==
  ASSUME TypeOK, NumberInv, OneInv, wpc = "look", Runs(TRUE), Silent
  PROVE  kla = ref /\ KlaReads = {ref}
<1>1. Named \in Procs /\ seen = Named /\ seen # None /\ beats[seen] = 0
  BY FoundRunning DEF Silent
<1>2. pc[seen] \in Uncounted \cup Served
  BY <1>1, FoundRunning DEF Silent
<1>3. pc[seen] \notin Early
  BY <1>1 DEF OneInv, LookInv
<1>4. pc[seen] \in Served
  BY <1>2, <1>3 DEF Early, Uncounted
<1>5. kla = ref /\ kla \in 0 .. Counts - 1
  BY <1>1, <1>4 DEF OneInv, SeenInv, CountInv
<1>6. kla # Empty
  BY <1>5, SupervisionAssumption DEF Empty
<1>7. QED
  BY <1>5, <1>6 DEF KlaReads

(* Where a process has counted, the file is not empty. *)
LEMMA ServedReads ==
  ASSUME OneInv, NEW p \in Procs, pc[p] \in Served
  PROVE  KlaReads = {kla} /\ kla \in 0 .. Counts - 1
<1>1. kla \in 0 .. Counts - 1
  BY DEF OneInv, CountInv
<1>2. kla # Empty
  BY <1>1, SupervisionAssumption DEF Empty
<1>3. QED
  BY <1>1, <1>2 DEF KlaReads

(* A look: the watcher has seen what it found and counts from there. *)
LEMMA LookView ==
  ASSUME IInv, WatchInv, NotRunning \/ Changed \/ Tolerated \/ Replaced
  PROVE  WatchInv'
<1> USE SupervisionAssumption
<1>1. TypeOK /\ NumberInv
  BY DEF IInv, WatchInv
<1>2. /\ wpc = "look" /\ beats' = [p \in Procs |-> 0]
      /\ UNCHANGED <<dir, content, pc, kla, twice, count>>
  BY DEF NotRunning, Changed, Tolerated, Replaced, Look, file
<1>3. NumberInv' /\ FreshInv'
  BY <1>2 DEF WatchInv, NumberInv, Named, FreshInv
<1>4. ASSUME ~twice'  PROVE OneInv'
  <2>1. OneInv
    BY <1>2, <1>4 DEF WatchInv
  <2>2. AloneInv' /\ CountInv'
    BY <1>2, <2>1 DEF OneInv, AloneInv, CountInv, Ahead
  <2>3. tolerance \in {0, 1} /\ quiet \in Nat /\ quiet <= tolerance /\ ref \in 0 .. Counts - 1
    BY <1>1, <2>1 DEF TypeOK, OneInv, QuietInv
  <2>4. CASE Restart /\ tolerance' \in {tolerance, 0}
    <3>1. wpc' = "stop" /\ seen' = None /\ quiet' = 0
      BY <2>4 DEF Restart
    <3>2. LookInv' /\ SeenInv'
      BY <3>1 DEF LookInv, SeenInv
    <3>3. QuietInv'
      BY <2>3, <2>4, <3>1 DEF QuietInv
    <3>4. QED
      BY <2>2, <3>2, <3>3 DEF OneInv
  <2>5. CASE Changed \/ Tolerated
    <3>1. /\ Runs(TRUE)
          /\ wpc' = "sleep" /\ seen' = Named /\ quiet' = IF Silent THEN quiet + 1 ELSE 0
      BY <2>5 DEF Changed, Tolerated, Continue
    <3>2. tolerance' \in {0, 1} /\ (tolerance' = 1 => tolerance = 0 /\ ref' = ref)
      <4>1. CASE Changed
        BY <4>1 DEF Changed
      <4>2. CASE Tolerated
        <5>1. tolerance = 0 /\ tolerance' = tolerance + 1 /\ ref' = ref
          BY <4>2 DEF Tolerated
        <5>2. QED
          BY <5>1
      <4>3. QED
        BY <2>5, <4>1, <4>2
    <3>3. LookInv'
      BY <3>1 DEF LookInv
    <3>4. QuietInv'
      <4>1. CASE Silent
        <5>1. KlaReads = {ref}
          BY <1>1, <1>2, <2>1, <3>1, <4>1, SilentSame
        <5>2. Tolerated
          BY <2>5, <5>1 DEF Changed
        <5>3. tolerance = 0 /\ tolerance' = 1
          BY <5>2 DEF Tolerated
        <5>4. QED
          BY <2>3, <3>1, <4>1, <5>3 DEF QuietInv
      <4>2. CASE ~Silent
        BY <3>1, <3>2, <4>2 DEF QuietInv
      <4>3. QED
        BY <4>1, <4>2
    <3>5. SeenInv'
      <4> SUFFICES ASSUME Named # None  PROVE SeenInv'
        BY <3>1 DEF SeenInv
      <4>1. Named \in Procs /\ pc[Named] \in Uncounted \cup Served
        BY <1>1, <3>1, FoundRunning
      <4>2. beats'[Named] = 0
        BY <1>2, <4>1
      <4>3. CASE pc[Named] \in Served
        <5>1. KlaReads = {kla} /\ kla \in 0 .. Counts - 1
          BY <2>1, <4>1, <4>3, ServedReads
        <5>2. ref' = kla
          <6>1. ref' \in KlaReads
            BY <2>5 DEF Changed, Tolerated
          <6>2. QED
            BY <5>1, <6>1
        <5>3. kla' = Ahead(ref', 0)
          BY <1>2, <5>1, <5>2, AheadOnce
        <5>4. QED
          BY <1>2, <3>1, <4>2, <4>3, <5>2, <5>3 DEF SeenInv, Uncounted, Served
      <4>4. CASE pc[Named] \in Uncounted
        <5>1. ref = 0
          BY <1>2, <2>1, <4>1, <4>4 DEF OneInv, LookInv, Early, Uncounted
        <5>2. QED
          BY <1>2, <3>1, <3>2, <4>4, <5>1 DEF SeenInv, Uncounted, Served
      <4>5. QED
        BY <4>1, <4>3, <4>4
    <3>6. QED
      BY <2>2, <3>3, <3>4, <3>5 DEF OneInv
  <2>6. CASE NotRunning
    BY <2>4, <2>6 DEF NotRunning
  <2>7. CASE Replaced
    BY <2>4, <2>7 DEF Replaced
  <2>8. QED
    BY <2>5, <2>6, <2>7
<1>5. QED
  BY <1>3, <1>4 DEF WatchInv

(* The watcher. *)
LEMMA WatcherView ==
  ASSUME IInv, WatchInv, Watcher
  PROVE  WatchInv'
<1> USE SupervisionAssumption
<1>1. TypeOK /\ NumberInv
  BY DEF IInv, WatchInv
<1>2. CASE NotRunning \/ Changed \/ Tolerated \/ Replaced
  BY <1>2, LookView
<1>3. CASE Stop
  <2>1. /\ UNCHANGED <<dir, content, pc, kla, count, beats, twice, ref, tolerance, seen, quiet>>
        /\ wpc = "stop" /\ wpc' = "start"
    BY <1>3 DEF Stop, file, own
  <2>2. QED
    BY <2>1 DEF WatchInv, OneInv, NumberInv, Named, FreshInv, AloneInv, CountInv, LookInv,
                SeenInv, QuietInv
<1>4. CASE Start
  <2> DEFINE p == CHOOSE q \in Procs : pc[q] = "dead" /\ q # Named
  <2>1. p \in Procs /\ pc[p] = "dead" /\ p # Named /\ pc' = [pc EXCEPT ![p] = "born"]
    BY <1>4 DEF Start
  <2>2. /\ UNCHANGED <<dir, content, kla, count, beats, twice, ref, tolerance, seen, quiet>>
        /\ wpc = "start" /\ wpc' = "sleep"
    BY <1>4 DEF Start, file, own
  <2> HIDE DEF p
  <2>3. \A q \in Procs : pc'[q] = IF q = p THEN "born" ELSE pc[q]
    BY <1>1, <2>1 DEF TypeOK
  <2>4. Named' = Named /\ Named \in Procs \cup {None}
    BY <1>1, <2>2 DEF Named, TypeOK
  <2>5. NumberInv'
    BY <1>1, <2>1, <2>3, <2>4 DEF NumberInv
  <2>6. FreshInv'
    BY <2>1, <2>2, <2>3 DEF WatchInv, FreshInv, Early
  <2>7. ASSUME ~twice'  PROVE OneInv'
    <3>1. OneInv /\ seen = None
      BY <2>2, <2>7 DEF WatchInv, OneInv, LookInv
    <3>2. AloneInv' /\ CountInv'
      BY <2>2, <2>3, <3>1 DEF OneInv, AloneInv, CountInv, Ahead, Served
    <3>3. LookInv' /\ SeenInv' /\ QuietInv'
      BY <2>2, <3>1 DEF OneInv, LookInv, SeenInv, QuietInv
    <3>4. QED
      BY <3>2, <3>3 DEF OneInv
  <2>8. QED
    BY <2>5, <2>6, <2>7 DEF WatchInv
<1>5. CASE Wake
  <2>1. /\ UNCHANGED <<dir, content, pc, kla, count, beats, twice, ref, tolerance, seen, quiet>>
        /\ wpc = "sleep" /\ wpc' = "look"
        /\ \A p \in Procs : ~Brief(p)
    BY <1>5 DEF Wake, file, own
  <2>2. \A p \in Procs : pc[p] \notin Early
    BY <2>1 DEF Brief, Early
  <2>3. QED
    BY <2>1, <2>2 DEF WatchInv, OneInv, NumberInv, Named, FreshInv, AloneInv, CountInv, LookInv,
                      SeenInv, QuietInv
<1>6. CASE WatcherStart
  <2>1. /\ UNCHANGED <<dir, content, pc, kla, count, beats, twice>>
        /\ wpc' = "look" /\ ref' = 0 /\ tolerance' = 0 /\ seen' = None /\ quiet' = 0
    BY <1>6 DEF WatcherStart, file, own
  <2>2. QED
    BY <2>1 DEF WatchInv, OneInv, NumberInv, Named, FreshInv, AloneInv, CountInv, LookInv,
                SeenInv, QuietInv, Ahead
<1>7. QED
  BY <1>2, <1>3, <1>4, <1>5, <1>6 DEF Watcher

(* The watcher has found nothing, and nothing counts. *)
LEMMA InitView == Init => WatchInv
BY SupervisionAssumption DEF Init, WatchInv, OneInv, NumberInv, Named, FreshInv, AloneInv, CountInv,
   LookInv, SeenInv, QuietInv, Served, Early, Uncounted

(* Every step keeps the watcher's view. *)
LEMMA NextView == IInv /\ WatchInv /\ [Next]_vars => WatchInv'
<1> SUFFICES ASSUME IInv, WatchInv, [Next]_vars  PROVE WatchInv'
  OBVIOUS
<1>1. CASE UNCHANGED vars
  BY <1>1, ViewKept DEF vars, file, own, watch
<1>2. QED
  BY <1>1, StartView, RunView, ThreadsView, WatcherView, OutsideView DEF Next, Gateway

(* No gateway is replaced for a count that the watcher could have seen. *)
LEMMA ReplacedSilent ==
  ASSUME IInv, WatchInv, Replaced, ~twice, seen # None, Named = seen
  PROVE  beats[Named] = 0
<1>1. TypeOK /\ NumberInv /\ BeatInv /\ OneInv
  BY DEF IInv, WatchInv
<1>2. wpc = "look" /\ Runs(TRUE) /\ ref \in KlaReads /\ tolerance = 1
  <2>1. wpc = "look" /\ Runs(TRUE) /\ ref \in KlaReads /\ tolerance > 0
    BY DEF Replaced, Look
  <2>2. tolerance \in {0, 1}
    BY <1>1 DEF TypeOK
  <2>3. tolerance > 0
    BY <2>1
  <2>4. tolerance = 1
    BY <2>2, <2>3
  <2>5. QED
    BY <2>1, <2>4
<1>3. Named \in Procs /\ pc[seen] \in Uncounted \cup Served
  BY <1>1, <1>2, FoundRunning
<1>4. pc[seen] \in Served
  BY <1>1, <1>2, <1>3 DEF OneInv, LookInv, Early, Uncounted
<1>5. kla = ref /\ kla = Ahead(ref, beats[seen])
  BY <1>1, <1>2, <1>3, <1>4, ServedReads DEF OneInv, SeenInv
<1>6. beats[seen] \in {0, 1, 2} /\ ref \in 0 .. Counts - 1
  BY <1>1, <1>3 DEF TypeOK, BeatInv
<1>7. Ahead(ref, 1) # ref /\ Ahead(ref, 2) # ref
  BY <1>6, AheadOnce
<1>8. QED
  BY <1>5, <1>6, <1>7
-----------------------------------------------------------------------------
(* kappaio.cpp, hal.cpp, kappaio_watch.cpp: every variable keeps its type. *)
THEOREM TypeCorrect == Spec => []TypeOK
<1>1. IInv => TypeOK
  BY DEF IInv
<1>2. QED
  BY InitInv, NextInv, <1>1, PTL DEF Spec

(* write_pid() and daemon_signal_handler(): the process that holds the     *)
(* lock of the file named PIDF is the one whose number it holds, as soon   *)
(* as it has written it.                                                   *)
THEOREM PidFileCorrect == Spec => []PidFileTrue
<1>1. IInv => PidFileTrue
  BY DEF IInv, FileInv, LockInv, NameInv, PidFileTrue
<1>2. QED
  BY InitInv, NextInv, <1>1, PTL DEF Spec
(* checkByPIDFile() and readKLA(), kappaio_watch.cpp: whatever the watcher  *)
(* read, a gateway that it has found and that does not count is let go once *)
(* and then replaced.                                                       *)
THEOREM SilenceCorrect == Spec => []SilenceBounded
<1>1. IInv /\ WatchInv => SilenceBounded
  <2> SUFFICES ASSUME TypeOK, QuietInv  PROVE quiet <= 1
    BY DEF IInv, WatchInv, OneInv, SilenceBounded
  <2>1. QED
    BY DEF TypeOK, QuietInv
<1>2. QED
  BY InitInv, InitView, NextInv, NextView, <1>1, PTL DEF Spec

(* kappaio_watch.cpp, lines 201 to 216: a gateway that the watcher knows and *)
(* that counted is not killed and started again.                            *)
THEOREM SparedCorrect == Spec => CountingSpared
<1>1. IInv /\ WatchInv =>
        [Replaced /\ ~twice => seen = None \/ Named # seen \/ beats[Named] = 0]_vars
  BY ReplacedSilent
<1>2. QED
  BY InitInv, InitView, NextInv, NextView, <1>1, PTL DEF Spec, CountingSpared
=============================================================================
