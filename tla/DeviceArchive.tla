--------------------------- MODULE DeviceArchive ---------------------------
(***************************************************************************)
(* The table of joined devices and its archive (zdo.cpp, zdo_archive.cpp,  *)
(* aps_object_models_impl.hpp).                                            *)
(*                                                                         *)
(* A device that joins announces itself: a thread finds or creates its     *)
(* object, then asks it for three descriptions, each of which is archived  *)
(* by the callback that receives it.  A leave request, on a thread of its  *)
(* own, destroys the object and its entry.  The archive is one JSON file;  *)
(* every change reads it, alters the copy, empties the file and fills it.  *)
(* At its start the program rebuilds the table from the file.              *)
(*                                                                         *)
(* Callbacks run one at a time, with buffer__Mutex, inside the request     *)
(* that waits for them (see DataService).  An entry's fields are present   *)
(* or not; a device has one endpoint besides 0.  An object is a heap       *)
(* address: what a freed one held stays there until it is used again.      *)
(***************************************************************************)
EXTENDS Naturals, Sequences

CONSTANTS
  Ieees,       (* extended addresses                                        *)
  Nwks,        (* short addresses                                           *)
  Low,         (* the low 16 bits of each extended address                  *)
  Objs,        (* heap addresses of devices                                 *)
  Annces,      (* threads that handle announcements                         *)
  Leaver,      (* the thread that handles leave requests                    *)
  Nobody,
  Bad,         (* a file that does not parse                                *)
  MaxEvents    (* bound: announcements, leave requests and unforeseen ends  *)
               (* of the process in a run                                   *)

Zero   == 0                       (* an address that was not set *)
Keys   == Ieees \cup {Zero}
Addrs  == Nwks \cup {Zero}
Actors == Annces \cup {Leaver}

(* "addr" stands for ieeeAddr and nwkAddr, "simple" for SimpleDescApdu. *)
Fields == {"addr", "node", "active", "endpoint", "simple"}
Entry  == [has : SUBSET Fields, nwk : Addrs]
Absent == [has |-> {}, nwk |-> Zero]
Empty  == [k \in Keys |-> Absent]
Files  == [Keys -> Entry]

ASSUME ConstAssumption ==
  /\ Zero \notin Ieees
  /\ Low \in [Ieees -> Addrs]
  /\ Leaver \notin Annces
  /\ Nobody \notin Annces \cup Objs
  /\ Bad \notin Files
  /\ MaxEvents \in Nat

VARIABLES
  up,          (* "start": not recovered yet; "run"; "doomed": to be restarted *)
  list,        (* assocs_                                                   *)
  id, ieee,    (* the addresses of each object                              *)
  known,       (* the object's endpoint is in its endpoints_                *)
  file,        (* zdo_archive.json                                          *)
  cb,          (* buffer__Mutex: the thread whose callback runs, or Nobody  *)
  pc,          (* where each thread is                                      *)
  who,         (* the device each thread is about                           *)
  nwk,         (* the short address in each announcement                    *)
  dev,         (* the object each announcement holds                        *)
  todo,        (* the fields each thread has still to write                 *)
  copy,        (* what each thread will fill the file with                  *)
  key,         (* the entry it changed in it                                *)
  mixed,       (* threads whose open file was open in another as well       *)
  stale,       (* history: threads whose change overlaps another's          *)
  saved,       (* history: fields written since their entry was removed,    *)
               (* changes overlapped, or a write was cut short              *)
  left,        (* history: devices that left, and did not come back, since  *)
               (* changes overlapped                                        *)
  twin,        (* history: one device was looked up before it was named     *)
  crossed,     (* history: a thread in mixed left a file that does not parse *)
  events       (* events so far                                             *)

memory  == <<list, id, ieee, known>>
history == <<stale, saved, left, twin, crossed>>
threads == <<pc, who, nwk, dev, todo, copy, key, mixed>>
vars == <<up, list, id, ieee, known, file, cb, pc, who, nwk, dev, todo, copy, key,
          mixed, stale, saved, left, twin, crossed, events>>

Changing(p) == pc[p] \in {"empty", "fill"}       (* p has read the file *)
InCallback(t) == pc[t] = "read" \/ Changing(t)
Busy(t)     == pc[t] # "idle"

(* No archive is shipped with the program. *)
Init ==
  /\ up = "start"
  /\ list = {}
  /\ id = [o \in Objs |-> Zero]
  /\ ieee = [o \in Objs |-> Zero]
  /\ known = [o \in Objs |-> FALSE]
  /\ cb = Nobody
  /\ pc = [p \in Actors |-> "idle"]
  /\ who = [p \in Actors |-> Zero]
  /\ nwk = [t \in Annces |-> Zero]
  /\ dev = [t \in Annces |-> Nobody]
  /\ todo = [p \in Actors |-> << >>]
  /\ copy = [p \in Actors |-> Empty]
  /\ key = [p \in Actors |-> Zero]
  /\ file = Bad
  /\ saved = [k \in Keys |-> {}]
  /\ left = {}
  /\ stale = {} /\ mixed = {}
  /\ twin = FALSE /\ crossed = FALSE
  /\ events = 0
-----------------------------------------------------------------------------
(* Something that comes from outside. *)
Event ==
  /\ events < MaxEvents
  /\ events' = events + 1

Go(p, from, to) ==
  /\ pc[p] = from
  /\ pc' = [pc EXCEPT ![p] = to]

(* find_if() for a device that is not there: a new object in assocs_. *)
Create(o, n) ==
  /\ o \in Objs \ list
  /\ list' = list \cup {o}
  /\ id' = [id EXCEPT ![o] = n]
  /\ ieee' = [ieee EXCEPT ![o] = Zero]
  /\ known' = [known EXCEPT ![o] = FALSE]

Named(i) == {o \in list : ieee[o] = i}

(* Mutant of Lookup: the device is looked up by its short address. *)
LookupShort(i, n, o) ==
  \/ o \in {x \in list : id[x] = n} /\ UNCHANGED memory
  \/ {x \in list : id[x] = n} = {} /\ Create(o, n)

(* assocs(ieee), the overload for a uint64_t. *)
Lookup(i, n, o) ==
  \/ o \in Named(i) /\ UNCHANGED memory
  \/ Named(i) = {} /\ Create(o, Low[i])

(* device_annce_proc() up to the lookup. *)
Find(t) ==
  /\ Go(t, "idle", "name")
  /\ Event
  /\ \E i \in Ieees, n \in Nwks, o \in Objs :
       /\ Lookup(i, n, o)
       /\ who' = [who EXCEPT ![t] = i]
       /\ nwk' = [nwk EXCEPT ![t] = n]
       /\ dev' = [dev EXCEPT ![t] = o]
       /\ twin' = (twin \/ \E u \in Annces : pc[u] = "name" /\ who[u] = i)
       /\ left' = left \ {i}
  /\ UNCHANGED <<up, file, cb, todo, copy, key, mixed, stale, saved, crossed>>

(* The object gets the addresses of the announcement. *)
Name(t) ==
  /\ Go(t, "name", "node")
  /\ id' = [id EXCEPT ![dev[t]] = nwk[t]]
  /\ ieee' = [ieee EXCEPT ![dev[t]] = who[t]]
  /\ nwk' = [nwk EXCEPT ![t] = Zero]
  /\ UNCHANGED <<up, list, known, file, cb, who, dev, todo, copy, key, mixed,
                 history, events>>

(* node_desc_req(), active_ep_req() and simple_desc_req() return 0 always: *)
(* the next one follows whether there was an answer or not.  The last is   *)
(* made for the endpoints that the object has.                             *)
Asking == {"node", "active", "simple"}
After(t, stage) ==
  \/ stage = "node" /\ Go(t, pc[t], "active") /\ UNCHANGED <<who, dev>>
  \/ stage = "active" /\ known'[dev[t]] /\ Go(t, pc[t], "simple")
     /\ UNCHANGED <<who, dev>>
  \/ /\ stage = "simple" \/ (stage = "active" /\ ~known'[dev[t]])
     /\ Go(t, pc[t], "idle")
     /\ who' = [who EXCEPT ![t] = Zero]
     /\ dev' = [dev EXCEPT ![t] = Nobody]

(* No answer within the second. *)
Unanswered(t) ==
  /\ pc[t] \in Asking
  /\ UNCHANGED known
  /\ After(t, pc[t])
  /\ UNCHANGED <<up, list, id, ieee, file, cb, nwk, todo, copy, key, mixed,
                 history, events>>

(* saveDevApdu() writes the addresses first, saveEndpointApdu() the        *)
(* addresses and the endpoint.                                             *)
Writes(stage) ==
  IF stage = "simple" THEN <<"addr", "endpoint", "simple">> ELSE <<"addr", stage>>

(* An answer: its callback begins. *)
Answered(t) ==
  /\ pc[t] \in Asking
  /\ cb = Nobody
  /\ cb' = t
  /\ todo' = [todo EXCEPT ![t] = Writes(pc[t])]
  /\ Go(t, pc[t], "read")
  /\ UNCHANGED <<up, memory, file, who, nwk, dev, copy, key, mixed, history,
                 events>>
-----------------------------------------------------------------------------
(* Changes of the archive *)

(* The copy f with the field w written for entry k. *)
With(f, k, w, n) ==
  [f EXCEPT ![k] = [has |-> @.has \cup {w}, nwk |-> IF w = "addr" THEN n ELSE @.nwk]]

(* p reads the file while others are changing it: all of them are stale. *)
Overlap(p) ==
  LET others == {q \in Actors \ {p} : Changing(q)}
  IN  stale' = IF others = {} THEN stale ELSE stale \cup others \cup {p}

(* Mutant of Loaded: every change starts from an empty archive. *)
LoadedEmpty == Empty

(* A file that does not parse counts as an empty archive. *)
Loaded == IF file = Bad THEN Empty ELSE file

(* A callback reads the archive and writes its next field in the copy, for *)
(* the addresses that its object has now.                                  *)
Read(t) ==
  /\ Go(t, "read", "empty")
  /\ key' = [key EXCEPT ![t] = ieee[dev[t]]]
  /\ copy' = [copy EXCEPT ![t] =
                With(Loaded, ieee[dev[t]], Head(todo[t]), id[dev[t]])]
  /\ Overlap(t)
  /\ UNCHANGED <<up, memory, file, cb, who, nwk, dev, todo, mixed, saved, left,
                 twin, crossed, events>>

(* removeDev() reads the archive; it gives up when that does not parse. *)
ReadErase ==
  /\ \/ /\ file = Bad
        /\ Go(Leaver, "read", "idle")
        /\ who' = [who EXCEPT ![Leaver] = Zero]
        /\ left' = left \ {who[Leaver]}
        /\ UNCHANGED <<key, copy, stale>>
     \/ /\ file # Bad
        /\ Go(Leaver, "read", "empty")
        /\ key' = [key EXCEPT ![Leaver] = who[Leaver]]
        /\ copy' = [copy EXCEPT ![Leaver] = [file EXCEPT ![who[Leaver]] = Absent]]
        /\ Overlap(Leaver)
        /\ UNCHANGED <<who, left>>
  /\ UNCHANGED <<up, memory, file, cb, nwk, dev, todo, mixed, saved, twin, crossed,
                 events>>

(* json_dump_file() opens the file, which empties it, also under another   *)
(* that has it open ...                                                    *)
Truncate(p) ==
  LET others == {q \in Actors \ {p} : pc[q] = "fill"} IN
  /\ Go(p, "empty", "fill")
  /\ file' = Bad
  /\ mixed' = IF others = {} THEN mixed ELSE mixed \cup others \cup {p}
  /\ UNCHANGED <<up, memory, cb, who, nwk, dev, todo, copy, key, history, events>>

(* Fields of entry k were written or, w = {}, removed, from a copy that    *)
(* was up to date; a stale one undoes what others did.                     *)
Record(p, w) ==
  /\ stale' = stale \ {p}
  /\ IF p \in stale
     THEN /\ saved' = [k \in Keys |-> {}]
          /\ left' = {}
     ELSE /\ saved' = [saved EXCEPT ![key[p]] = IF w = {} THEN {} ELSE @ \cup w]
          /\ UNCHANGED left

(* What is in the file after p wrote it, from its own offset: its copy, or *)
(* when another had it open too the end of a longer text behind it, which  *)
(* does not parse, or its blocks among those the other wrote before.       *)
Contents(p) ==
  {copy[p]} \cup
  IF p \notin mixed THEN {}
  ELSE {Bad} \cup
       IF file = Bad THEN {}
       ELSE {[k \in Keys |-> IF k \in ks THEN copy[p][k] ELSE file[k]] :
               ks \in SUBSET Keys}

Written(p, w) ==
  /\ file' \in Contents(p)
  /\ mixed' = mixed \ {p}
  /\ crossed' = (p \in mixed /\ file' = Bad)
  /\ copy' = [copy EXCEPT ![p] = Empty]
  /\ key' = [key EXCEPT ![p] = Zero]
  /\ Record(p, w)

(* ... and writes it.  After the last field the callback ends: the list of *)
(* endpoints, if it was that, is in the object too.                        *)
Fill(t) ==
  /\ pc[t] = "fill"
  /\ Written(t, {Head(todo[t])})
  /\ todo' = [todo EXCEPT ![t] = Tail(@)]
  /\ \/ /\ Len(todo[t]) > 1
        /\ Go(t, "fill", "read")
        /\ UNCHANGED <<known, cb, who, dev>>
     \/ /\ Len(todo[t]) = 1
        /\ known' = [known EXCEPT ![dev[t]] = @ \/ Head(todo[t]) = "active"]
        /\ cb' = Nobody
        /\ After(t, Head(todo[t]))
  /\ UNCHANGED <<up, list, id, ieee, nwk, twin, events>>

FillErase ==
  /\ Go(Leaver, "fill", "idle")
  /\ Written(Leaver, {})
  /\ who' = [who EXCEPT ![Leaver] = Zero]
  /\ UNCHANGED <<up, memory, cb, nwk, dev, todo, twin, events>>
-----------------------------------------------------------------------------
Held(o) == \E t \in Annces : dev[t] = o

(* Mutant of RemoveAssoc: the object stays in the table. *)
RemoveAssocNot(n) == UNCHANGED memory

(* removeAssoc(): every object with that short address is destroyed.  What *)
(* nobody points to need not be remembered.                                *)
RemoveAssoc(n) ==
  /\ list' = {o \in list : id[o] # n}
  /\ id' = [o \in Objs |-> IF o \in list' \/ Held(o) THEN id[o] ELSE Zero]
  /\ ieee' = [o \in Objs |-> IF o \in list' \/ Held(o) THEN ieee[o] ELSE Zero]
  /\ known' = [o \in Objs |-> (o \in list' \/ Held(o)) /\ known[o]]

(* The handler of Mgmt_Leave_req, registered after the recovery.  The      *)
(* lookup creates a device that is not there, to be destroyed at once with *)
(* any other that has its short address.                                   *)
Leave ==
  /\ up # "start"
  /\ Event
  /\ Go(Leaver, "idle", "read")
  /\ \E i \in Ieees :
       /\ \/ \E o \in Named(i) : RemoveAssoc(id[o])
          \/ Named(i) = {} /\ RemoveAssoc(Low[i])
       /\ who' = [who EXCEPT ![Leaver] = i]
       /\ left' = IF \E t \in Annces : Busy(t) /\ i \in {who[t], ieee[dev[t]]}
                  THEN left ELSE left \cup {i}
  /\ UNCHANGED <<up, file, cb, nwk, dev, todo, copy, key, mixed, stale, saved,
                 twin, crossed>>
-----------------------------------------------------------------------------
(* The process and its start *)

Present == {k \in Keys : file[k].has # {}}

(* hexStrToByteVec("") has no data: the program reads address 0. *)
Complete(k) == {"node", "active"} \subseteq file[k].has

(* Mutant of Wipe: the archive is not cleared. *)
WipeNot ==
  /\ file = Bad
  /\ saved' = [k \in Keys |-> {}]
  /\ up' = "doomed"
  /\ UNCHANGED <<file, memory, cb, threads, stale, left, crossed>>

(* clear(), and a restart in a second. *)
Wipe ==
  /\ file = Bad
  /\ file' = Empty
  /\ saved' = [k \in Keys |-> {}]
  /\ up' = "doomed"
  /\ UNCHANGED <<memory, cb, threads, stale, left, crossed>>

(* The objects of the entries, found or created by short address: entries  *)
(* with the same one share an object, which gets the extended address of   *)
(* one of them.                                                            *)
Rebuild ==
  /\ file # Bad
  /\ \A k \in Present : Complete(k)
  /\ \E at \in [Present -> Objs], last \in [Objs -> Keys] :
       /\ \A k, j \in Present : at[k] = at[j] <=> file[k].nwk = file[j].nwk
       /\ \A k \in Present :
            \/ at[k] \in list /\ id[at[k]] = file[k].nwk
            \/ at[k] \notin list /\ \A o \in list : id[o] # file[k].nwk
       /\ \A o \in Objs : IF \E k \in Present : at[k] = o
                          THEN last[o] \in Present /\ at[last[o]] = o
                          ELSE last[o] = Zero
       /\ LET found(o) == last[o] \in Present /\ at[last[o]] = o
              long(k)  == IF "addr" \in file[k].has THEN k ELSE Zero
          IN  /\ list' = list \cup {at[k] : k \in Present}
              /\ id' = [o \in Objs |-> IF found(o) THEN file[last[o]].nwk ELSE id[o]]
              /\ ieee' = [o \in Objs |-> IF found(o) THEN long(last[o]) ELSE ieee[o]]
              /\ known' = [o \in Objs |-> known[o] \/ found(o)]
  /\ up' = "run"
  /\ UNCHANGED <<file, cb, threads, stale, saved, left, crossed>>

(* recoverEndpoint(); announcements are served already. *)
Recover ==
  /\ up = "start"
  /\ Wipe \/ Rebuild
  /\ twin' = (twin \/ list # {} \/ \E t \in Annces : Busy(t))
  /\ UNCHANGED events

(* recoverEndpoint() meets an entry that lacks a string: SIGSEGV. *)
Fault ==
  /\ up = "start"
  /\ file # Bad
  /\ \E k \in Present : ~Complete(k)

(* The process ends, by that fault, by the restart it asked for, or at any *)
(* moment for another reason, and kappaio-watch starts it again: no        *)
(* objects, no threads.                                                    *)
Expected == Fault \/ up = "doomed"

Restart ==
  /\ IF Expected THEN UNCHANGED events ELSE Event
  /\ list' = {}
  /\ id' = [o \in Objs |-> Zero]
  /\ ieee' = [o \in Objs |-> Zero]
  /\ known' = [o \in Objs |-> FALSE]
  /\ cb' = Nobody
  /\ pc' = [p \in Actors |-> "idle"]
  /\ who' = [p \in Actors |-> Zero]
  /\ nwk' = [t \in Annces |-> Zero]
  /\ dev' = [t \in Annces |-> Nobody]
  /\ todo' = [p \in Actors |-> << >>]
  /\ copy' = [p \in Actors |-> Empty]
  /\ key' = [p \in Actors |-> Zero]
  /\ up' = "start"
  /\ twin' = FALSE
  /\ left' = IF Busy(Leaver) THEN left \ {who[Leaver]} ELSE left
  /\ saved' = IF file = Bad THEN [k \in Keys |-> {}] ELSE saved
  /\ stale' = {} /\ mixed' = {} /\ crossed' = FALSE
  /\ UNCHANGED file

Step(t) ==
  \/ Name(t) \/ Unanswered(t) \/ Answered(t)
  \/ Read(t) \/ Truncate(t) \/ Fill(t)

StepLeave == ReadErase \/ Truncate(Leaver) \/ FillErase

Next ==
  \/ \E t \in Annces : Find(t) \/ Step(t)
  \/ Leave \/ StepLeave
  \/ Recover
  \/ Restart

Spec == Init /\ [][Next]_vars
-----------------------------------------------------------------------------
(* Every variable of the table and the archive keeps its type; an          *)
(* announcement has an object, and a callback a field to write.            *)
TypeOK ==
  /\ up \in {"start", "run", "doomed"}
  /\ list \subseteq Objs
  /\ id \in [Objs -> Addrs]
  /\ ieee \in [Objs -> Keys]
  /\ known \in [Objs -> BOOLEAN]
  /\ file \in Files \cup {Bad}
  /\ cb \in Annces \cup {Nobody}
  /\ pc \in [Actors -> {"idle", "name", "read", "empty", "fill"} \cup Asking]
  /\ who \in [Actors -> Keys]
  /\ nwk \in [Annces -> Addrs]
  /\ dev \in [Annces -> Objs \cup {Nobody}]
  /\ todo \in [Actors -> Seq(Fields)]
  /\ \A t \in Annces : /\ Busy(t) => dev[t] \in Objs
                       /\ InCallback(t) => todo[t] # << >>
  /\ copy \in [Actors -> Files]
  /\ key \in [Actors -> Keys]
  /\ saved \in [Keys -> SUBSET Fields]
  /\ left \subseteq Ieees
  /\ stale \subseteq Actors /\ mixed \subseteq Actors
  /\ twin \in BOOLEAN /\ crossed \in BOOLEAN
  /\ events \in 0 .. MaxEvents

(* What a callback has archived stays in the archive, whatever others save *)
(* or remove and whenever the process ends, unless it ends in the middle   *)
(* of a write or two changes of the file overlap.                          *)
SavedKept == file # Bad => \A k \in Keys : saved[k] \subseteq file[k].has

(* A device that left while no announcement of it was being served is      *)
(* neither in the table nor in the archive, and no restart brings it back, *)
(* unless two changes overlap, or it was in the table twice.               *)
LeftGone ==
  ~twin /\ file # Bad =>
    \A i \in left : \/ Busy(Leaver) /\ who[Leaver] = i
                    \/ file[i] = Absent /\ Named(i) = {}

(* No two objects of the table have one extended address, unless one       *)
(* device announced itself again before its first announcement was looked  *)
(* at, or before the recovery.                                             *)
OneObjectEach ==
  ~twin => \A o, x \in list : ieee[o] = ieee[x] /\ ieee[o] # Zero => o = x

(* While the archive does not parse somebody is writing it, except after   *)
(* a crash and before the recovery, which clears it, and except that two    *)
(* who had the file open at once may leave it so, until the next write.     *)
ArchiveGood ==
  file = Bad => \/ up = "start" \/ crossed
                \/ \E p \in Actors : pc[p] = "fill"
=============================================================================
