------------------------ MODULE DeviceArchiveProofs -------------------------
(***************************************************************************)
(* The archive of devices, for any number of devices, objects and          *)
(* announcements, and for any moment at which the process ends: while it   *)
(* does not parse somebody writes it, and what a callback archived stays.  *)
(* At the end, the table: no device has two objects.                       *)
(*                                                                         *)
(* A change that no other overlaps starts from all that was saved, and     *)
(* what it writes is in its copy: that is the strengthening.               *)
(***************************************************************************)
EXTENDS DeviceArchive, SequenceTheorems, TLAPS

(* Only a change in progress can be stale, and one that is not is alone. *)
StaleInv == \A p \in stale : Changing(p)
SoleInv  == \A p, q \in Actors : Changing(p) /\ p \notin stale /\ Changing(q) => p = q

(* A change that is not stale has everything saved in its copy. *)
CopyInv ==
  \A p \in Actors : Changing(p) /\ p \notin stale =>
    \A k \in Keys : (p = Leaver /\ k = key[p]) \/ saved[k] \subseteq copy[p][k].has

(* The field that a callback writes is in its copy. *)
FieldInv == \A t \in Annces : Changing(t) => Head(todo[t]) \in copy[t][key[t]].has

(* Nothing counts as saved in a file that was cut short. *)
CutInv == file = Bad /\ (\A p \in Actors : pc[p] # "fill") => \A k \in Keys : saved[k] = {}

(* Whose writes may mix has a change that overlaps. *)
MixedInv == mixed \subseteq stale

ChangeInv ==
  /\ StaleInv /\ SoleInv /\ CopyInv /\ FieldInv /\ CutInv /\ MixedInv
  /\ SavedKept /\ ArchiveGood

IInv == TypeOK /\ ChangeInv

MemTypes ==
  /\ list \subseteq Objs
  /\ id \in [Objs -> Addrs]
  /\ ieee \in [Objs -> Keys]
  /\ known \in [Objs -> BOOLEAN]
ThreadTypes ==
  /\ cb \in Annces \cup {Nobody}
  /\ pc \in [Actors -> {"idle", "name", "read", "empty", "fill"} \cup Asking]
  /\ who \in [Actors -> Keys]
  /\ nwk \in [Annces -> Addrs]
  /\ dev \in [Annces -> Objs \cup {Nobody}]
  /\ todo \in [Actors -> Seq(Fields)]
  /\ \A t \in Annces : /\ Busy(t) => dev[t] \in Objs
                       /\ InCallback(t) => todo[t] # << >>
CopyTypes ==
  /\ copy \in [Actors -> Files]
  /\ key \in [Actors -> Keys]
  /\ stale \subseteq Actors
  /\ mixed \subseteq Actors
  /\ saved \in [Keys -> SUBSET Fields]
  /\ file \in Files \cup {Bad}
RestTypes ==
  /\ up \in {"start", "run", "doomed"}
  /\ left \subseteq Ieees
  /\ twin \in BOOLEAN
  /\ crossed \in BOOLEAN
  /\ events \in 0 .. MaxEvents

(* The types are those of the parts. *)
LEMMA Parts == TypeOK <=> MemTypes /\ ThreadTypes /\ CopyTypes /\ RestTypes
BY DEF TypeOK, MemTypes, ThreadTypes, CopyTypes, RestTypes

(* What a step has to show. *)
LEMMA Joined ==
  ASSUME MemTypes', ThreadTypes', CopyTypes', RestTypes', ChangeInv'
  PROVE  IInv'
BY DEF IInv, TypeOK, MemTypes, ThreadTypes, CopyTypes, RestTypes

(* What a step may use. *)
LEMMA Split ==
  ASSUME IInv
  PROVE  TypeOK /\ MemTypes /\ ThreadTypes /\ CopyTypes /\ RestTypes /\ ChangeInv
BY Parts DEF IInv
-----------------------------------------------------------------------------
(* Archive: what each kind of step does to it *)

(* A step of a thread that neither begins nor ends a change. *)
LEMMA NoChange ==
  ASSUME ChangeInv, NEW p \in Actors, ~Changing(p),
         \A q \in Actors \ {p} : pc'[q] = pc[q] /\ todo'[q] = todo[q],
         pc'[p] \notin {"empty", "fill"}, stale \subseteq Actors,
         UNCHANGED <<up, file, copy, key, mixed, stale, saved, crossed>>
  PROVE  ChangeInv'
<1>1. \A q \in Actors : /\ Changing(q)' <=> Changing(q)
                        /\ pc'[q] = "fill" <=> pc[q] = "fill"
                        /\ Changing(q) => todo'[q] = todo[q]
  BY DEF Changing
<1>2. StaleInv' /\ SoleInv' /\ CopyInv' /\ CutInv' /\ MixedInv'
  BY <1>1 DEF ChangeInv, StaleInv, SoleInv, CopyInv, CutInv, MixedInv
<1>3. FieldInv'
  BY <1>1 DEF ChangeInv, FieldInv, Actors
<1>4. SavedKept' /\ ArchiveGood'
  BY <1>1 DEF ChangeInv, SavedKept, ArchiveGood
<1>5. QED
  BY <1>2, <1>3, <1>4 DEF ChangeInv

(* Who reads the file while nobody changes it reads all that was saved. *)
LEMMA LoadedSaved ==
  ASSUME CopyTypes, ChangeInv, \A q \in Actors : ~Changing(q)
  PROVE  /\ Loaded \in Files
         /\ \A k \in Keys : saved[k] \subseteq Loaded[k].has
<1>1. CASE file = Bad
  <2>1. \A k \in Keys : saved[k] = {}
    BY <1>1 DEF ChangeInv, CutInv, Changing
  <2>2. Loaded = Empty /\ Empty \in Files
    BY <1>1 DEF Loaded, Empty, Absent, Files, Entry, Addrs
  <2>3. QED
    BY <2>1, <2>2
<1>2. CASE file # Bad
  BY <1>2 DEF ChangeInv, SavedKept, Loaded, CopyTypes
<1>3. QED
  BY <1>1, <1>2

(* The file is a file, or what counts for one. *)
LEMMA LoadedFile ==
  ASSUME CopyTypes
  PROVE  Loaded \in Files
BY DEF Loaded, Empty, Absent, Files, Entry, Addrs, CopyTypes

(* Writing a field in a copy keeps the others. *)
LEMMA WithField ==
  ASSUME NEW f \in Files, NEW k \in Keys, NEW w \in Fields, NEW n \in Addrs
  PROVE  /\ With(f, k, w, n) \in Files
         /\ w \in With(f, k, w, n)[k].has
         /\ \A j \in Keys : f[j].has \subseteq With(f, k, w, n)[j].has
<1> DEFINE e == [has |-> f[k].has \cup {w}, nwk |-> IF w = "addr" THEN n ELSE f[k].nwk]
<1>1. f[k] \in Entry
  BY DEF Files
<1>2. f[k].has \subseteq Fields /\ f[k].nwk \in Addrs
  BY <1>1 DEF Entry
<1>3. e.has \subseteq Fields /\ e.nwk \in Addrs /\ e \in Entry
  BY <1>2 DEF Entry
<1>4. With(f, k, w, n) = [f EXCEPT ![k] = e]
  BY DEF With
<1>5. QED
  BY <1>3, <1>4 DEF Files

(* A change begins: those it meets, and itself then, are stale. *)
LEMMA Begins ==
  ASSUME ChangeInv, CopyTypes, NEW p \in Actors, ~Changing(p),
         pc \in [Actors -> {"idle", "name", "read", "empty", "fill"} \cup Asking],
         pc' = [pc EXCEPT ![p] = "empty"], Overlap(p),
         copy' \in [Actors -> Files], key' \in [Actors -> Keys],
         \A q \in Actors \ {p} : copy'[q] = copy[q] /\ key'[q] = key[q],
         UNCHANGED <<up, file, mixed, saved, crossed, todo>>,
         p \in Annces => Head(todo[p]) \in copy'[p][key'[p]].has,
         (\A q \in Actors : ~Changing(q)) =>
           \A k \in Keys : (p = Leaver /\ k = key'[p]) \/ saved[k] \subseteq copy'[p][k].has
  PROVE  ChangeInv' /\ stale' \subseteq Actors
<1> DEFINE others == {q \in Actors \ {p} : Changing(q)}
<1>1. \A q \in Actors : /\ Changing(q)' <=> Changing(q) \/ q = p
                        /\ pc'[q] = "fill" <=> pc[q] = "fill"
  BY DEF Changing
<1>2. stale' = IF others = {} THEN stale ELSE stale \cup others \cup {p}
  BY DEF Overlap
<1>3. stale \subseteq Actors /\ \A q \in stale : Changing(q) /\ q # p
  BY DEF CopyTypes, ChangeInv, StaleInv
<1>4. stale' \subseteq Actors
  BY <1>2, <1>3
<1>5. StaleInv'
  BY <1>1, <1>2, <1>3 DEF StaleInv
<1>6. \A q \in Actors : Changing(q)' /\ q \notin stale' =>
        q = p /\ \A r \in Actors : ~Changing(r)
  BY <1>1, <1>2, <1>3
<1>7. SoleInv'
  BY <1>1, <1>6 DEF SoleInv
<1>8. CopyInv'
  BY <1>6 DEF CopyInv
<1>9. FieldInv'
  BY <1>1 DEF ChangeInv, FieldInv, Actors
<1>10. CutInv' /\ SavedKept' /\ ArchiveGood'
  BY <1>1 DEF ChangeInv, CutInv, SavedKept, ArchiveGood
<1>11. MixedInv'
  BY <1>2 DEF ChangeInv, MixedInv
<1>12. QED
  BY <1>4, <1>5, <1>7, <1>8, <1>9, <1>10, <1>11 DEF ChangeInv

(* The file is emptied by somebody who is going to fill it. *)
LEMMA Truncates ==
  ASSUME ChangeInv, NEW p \in Actors, Truncate(p),
         pc \in [Actors -> {"idle", "name", "read", "empty", "fill"} \cup Asking],
         stale \subseteq Actors
  PROVE  ChangeInv'
<1> DEFINE others == {q \in Actors \ {p} : pc[q] = "fill"}
<1>1. /\ pc[p] = "empty"
      /\ pc' = [pc EXCEPT ![p] = "fill"]
      /\ file' = Bad
      /\ mixed' = IF others = {} THEN mixed ELSE mixed \cup others \cup {p}
      /\ UNCHANGED <<up, copy, key, stale, saved, todo>>
  BY DEF Truncate, Go, history
<1>2. (\A q \in Actors : Changing(q)' <=> Changing(q)) /\ pc'[p] = "fill"
  BY <1>1 DEF Changing
<1>3. StaleInv' /\ SoleInv' /\ CopyInv'
  BY <1>1, <1>2 DEF ChangeInv, StaleInv, SoleInv, CopyInv
<1>4. FieldInv'
  BY <1>1, <1>2 DEF ChangeInv, FieldInv, Actors
<1>5. CutInv' /\ SavedKept' /\ ArchiveGood'
  BY <1>1, <1>2 DEF CutInv, SavedKept, ArchiveGood
<1>6. \A q \in others : q \in stale /\ p \in stale
  BY <1>1 DEF ChangeInv, SoleInv, Changing
<1>7. MixedInv'
  BY <1>1, <1>6 DEF ChangeInv, MixedInv
<1>8. QED
  BY <1>3, <1>4, <1>5, <1>7 DEF ChangeInv

(* A write leaves the copy; under another's, a mix or what does not parse. *)
LEMMA ContentsFiles ==
  ASSUME CopyTypes, NEW p \in Actors, NEW f \in Contents(p)
  PROVE  f \in Files \cup {Bad} /\ (p \notin mixed => f = copy[p])
<1>1. copy[p] \in Files
  BY DEF CopyTypes
<1>2. CASE f = copy[p] \/ (p \in mixed /\ f = Bad)
  BY <1>1, <1>2
<1>3. ASSUME p \in mixed, file # Bad, NEW ks \in SUBSET Keys,
             f = [k \in Keys |-> IF k \in ks THEN copy[p][k] ELSE file[k]]
      PROVE  f \in Files
  <2>1. file \in Files
    BY <1>3 DEF CopyTypes
  <2>2. QED
    BY <1>1, <1>3, <2>1 DEF Files
<1>4. QED
  BY <1>2, <1>3 DEF Contents

(* The file is filled: with all that was saved and the new field, or with  *)
(* what counts for nothing.                                                *)
LEMMA Fills ==
  ASSUME ChangeInv, CopyTypes, NEW p \in Actors, NEW w \in SUBSET Fields, Written(p, w),
         pc[p] = "fill", pc'[p] \notin {"empty", "fill"},
         \A q \in Actors \ {p} : pc'[q] = pc[q] /\ todo'[q] = todo[q],
         p = Leaver => w = {}, p # Leaver => w = {Head(todo[p])}, Leaver \notin Annces,
         UNCHANGED up
  PROVE  ChangeInv' /\ CopyTypes'
<1> USE ConstAssumption
<1>1. /\ mixed' = mixed \ {p}
      /\ copy' = [copy EXCEPT ![p] = Empty]
      /\ key' = [key EXCEPT ![p] = Zero]
      /\ stale' = stale \ {p}
      /\ crossed' = (p \in mixed /\ file' = Bad)
  BY DEF Written, Record
<1>2. copy[p] \in Files /\ copy[p] # Bad /\ key[p] \in Keys /\ Zero \in Keys /\ Empty \in Files
  BY DEF CopyTypes, Keys, Empty, Absent, Files, Entry, Addrs
<1>2a. file' \in Files \cup {Bad} /\ (p \notin mixed => file' = copy[p])
  BY <1>2, ContentsFiles DEF Written
<1>2b. p \in mixed => p \in stale
  BY DEF ChangeInv, MixedInv
<1>3. \A q \in Actors : Changing(q)' <=> Changing(q) /\ q # p
  BY DEF Changing
<1>4. p \in stale => saved' = [k \in Keys |-> {}]
  BY DEF Written, Record
<1>5. p \notin stale => saved' = [saved EXCEPT ![key[p]] = IF w = {} THEN {} ELSE @ \cup w]
  BY DEF Written, Record
<1>6. CopyTypes'
  <2>1. saved' \in [Keys -> SUBSET Fields]
    <3>1. CASE p \in stale
      BY <1>4, <3>1
    <3>2. CASE p \notin stale
      BY <1>2, <1>5, <3>2 DEF CopyTypes
    <3>3. QED
      BY <3>1, <3>2
  <2>2. QED
    BY <1>1, <1>2, <1>2a, <2>1 DEF CopyTypes
<1>7. StaleInv'
  BY <1>1, <1>3 DEF ChangeInv, StaleInv, CopyTypes
<1>8. SoleInv'
  BY <1>1, <1>3 DEF ChangeInv, SoleInv
<1>9. \A k \in Keys : saved'[k] \subseteq copy[p][k].has
  <2>1. CASE p \in stale
    BY <1>4, <2>1
  <2>2. CASE p \notin stale
    <3>1. Changing(p)
      BY DEF Changing
    <3>2. \A k \in Keys : (p = Leaver /\ k = key[p]) \/ saved[k] \subseteq copy[p][k].has
      BY <2>2, <3>1 DEF ChangeInv, CopyInv
    <3>3. p # Leaver => w \subseteq copy[p][key[p]].has
      BY <3>1 DEF ChangeInv, FieldInv, Actors
    <3>4. \A k \in Keys : saved'[k] = IF k = key[p] THEN (IF w = {} THEN {} ELSE saved[k] \cup w)
                                                    ELSE saved[k]
      BY <1>2, <1>5, <2>2 DEF CopyTypes
    <3>5. QED
      BY <3>2, <3>3, <3>4
  <2>3. QED
    BY <2>1, <2>2
<1>10. CopyInv'
  <2> SUFFICES ASSUME NEW q \in Actors, Changing(q)', q \notin stale', NEW k \in Keys
               PROVE  ((q = Leaver /\ k = key[q]) \/ saved[k] \subseteq copy[q][k].has)'
    BY DEF CopyInv
  <2>1. q # p /\ Changing(q) /\ q \notin stale
    BY <1>1, <1>3
  <2>2. Changing(p)
    BY DEF Changing
  <2>3. QED
    BY <2>1, <2>2 DEF ChangeInv, SoleInv
<1>11. FieldInv'
  BY <1>1, <1>3 DEF ChangeInv, FieldInv, Actors, CopyTypes
<1>12. CutInv' /\ SavedKept'
  <2>1. CASE p \in stale
    BY <1>4, <2>1 DEF CutInv, SavedKept
  <2>2. CASE p \notin stale
    BY <1>2, <1>2a, <1>2b, <1>9, <2>2 DEF CutInv, SavedKept
  <2>3. QED
    BY <2>1, <2>2
<1>13. ArchiveGood'
  BY <1>1, <1>2, <1>2a DEF ArchiveGood
<1>14. MixedInv'
  BY <1>1 DEF ChangeInv, MixedInv
<1>15. QED
  BY <1>6, <1>7, <1>8, <1>10, <1>11, <1>12, <1>13, <1>14 DEF ChangeInv
-----------------------------------------------------------------------------
(* The table and the threads *)

(* Where an answer or its absence leads: the next question, or the end. *)
LEMMA AfterTypes ==
  ASSUME ThreadTypes, NEW t \in Annces, NEW stage, After(t, stage)
  PROVE  /\ pc' \in [Actors -> {"idle", "name", "read", "empty", "fill"} \cup Asking]
         /\ who' \in [Actors -> Keys]
         /\ dev' \in [Annces -> Objs \cup {Nobody}]
         /\ pc'[t] \in {"active", "simple", "idle"}
         /\ \A q \in Actors \ {t} : pc'[q] = pc[q] /\ who'[q] = who[q]
         /\ \A q \in Annces \ {t} : dev'[q] = dev[q]
         /\ pc'[t] # "idle" => dev'[t] = dev[t] /\ who'[t] = who[t]
<1>1. t \in Actors
  BY DEF Actors
<1>2. PICK to \in {"active", "simple", "idle"} :
        /\ pc' = [pc EXCEPT ![t] = to]
        /\ \/ UNCHANGED <<who, dev>>
           \/ /\ to = "idle"
              /\ who' = [who EXCEPT ![t] = Zero]
              /\ dev' = [dev EXCEPT ![t] = Nobody]
  BY DEF After, Go
<1>3. QED
  BY <1>1, <1>2 DEF ThreadTypes, Asking, Keys

(* An object is found, or made. *)
LEMMA LookupTypes ==
  ASSUME MemTypes, NEW i \in Ieees, NEW n, NEW o \in Objs, Lookup(i, n, o)
  PROVE  MemTypes'
<1>1. Low[i] \in Addrs
  BY ConstAssumption
<1>2. QED
  BY <1>1 DEF Lookup, Create, memory, MemTypes, Keys

(* device_annce_proc(): an object is found or made. *)
LEMMA FindInv ==
  ASSUME IInv, NEW t \in Annces, Find(t)
  PROVE  IInv'
<1>1. TypeOK /\ MemTypes /\ ThreadTypes /\ CopyTypes /\ RestTypes /\ ChangeInv
  BY Split
<1>2. PICK i \in Ieees, n \in Nwks, o \in Objs :
        /\ Lookup(i, n, o)
        /\ who' = [who EXCEPT ![t] = i]
        /\ nwk' = [nwk EXCEPT ![t] = n]
        /\ dev' = [dev EXCEPT ![t] = o]
        /\ twin' = (twin \/ \E u \in Annces : pc[u] = "name" /\ who[u] = i)
        /\ left' = left \ {i}
  BY DEF Find
<1>3. /\ pc[t] = "idle" /\ pc' = [pc EXCEPT ![t] = "name"]
      /\ UNCHANGED <<up, file, cb, todo, copy, key, mixed, stale, saved, crossed>>
      /\ events < MaxEvents /\ events' = events + 1
  BY DEF Find, Go, Event
<1>4. MemTypes'
  BY <1>1, <1>2, LookupTypes
<1>5. ThreadTypes'
  BY <1>1, <1>2, <1>3 DEF ThreadTypes, Keys, Addrs, Actors, Busy, InCallback, Changing
<1>6. CopyTypes'
  BY <1>1, <1>3 DEF CopyTypes
<1>7. RestTypes'
  <2>1. twin' \in BOOLEAN
    BY <1>2
  <2>2. QED
    BY <1>1, <1>2, <1>3, <2>1, ConstAssumption DEF RestTypes
<1>8. ChangeInv'
  <2>1. t \in Actors /\ ~Changing(t) /\ stale \subseteq Actors
    BY <1>1, <1>3 DEF Actors, Changing, CopyTypes
  <2>2. pc'[t] = "name" /\ \A q \in Actors \ {t} : pc'[q] = pc[q] /\ todo'[q] = todo[q]
    BY <1>1, <1>3, <2>1 DEF ThreadTypes
  <2>3. QED
    BY <1>1, <1>3, <2>1, <2>2, NoChange
<1>9. QED
  BY <1>4, <1>5, <1>6, <1>7, <1>8, Joined

(* The object is given the addresses of the announcement. *)
LEMMA NameInv ==
  ASSUME IInv, NEW t \in Annces, Name(t)
  PROVE  IInv'
<1>1. TypeOK /\ MemTypes /\ ThreadTypes /\ CopyTypes /\ RestTypes /\ ChangeInv
  BY Split
<1>2. /\ pc[t] = "name" /\ pc' = [pc EXCEPT ![t] = "node"]
      /\ id' = [id EXCEPT ![dev[t]] = nwk[t]]
      /\ ieee' = [ieee EXCEPT ![dev[t]] = who[t]]
      /\ nwk' = [nwk EXCEPT ![t] = Zero]
      /\ UNCHANGED <<up, list, known, file, cb, who, dev, todo, copy, key, mixed, events>>
      /\ UNCHANGED <<stale, saved, left, twin, crossed>>
  BY DEF Name, Go, history
<1>3. t \in Actors
  BY DEF Actors
<1>4. MemTypes'
  BY <1>1, <1>2, <1>3 DEF MemTypes, ThreadTypes
<1>5. ThreadTypes'
  BY <1>1, <1>2, <1>3 DEF ThreadTypes, Addrs, Busy, InCallback, Changing, Asking
<1>6. CopyTypes' /\ RestTypes'
  BY <1>1, <1>2 DEF CopyTypes, RestTypes
<1>7. ChangeInv'
  <2>1. ~Changing(t) /\ stale \subseteq Actors
    BY <1>1, <1>2 DEF Changing, CopyTypes
  <2>2. pc'[t] = "node" /\ \A q \in Actors \ {t} : pc'[q] = pc[q] /\ todo'[q] = todo[q]
    BY <1>1, <1>2, <1>3 DEF ThreadTypes
  <2>3. QED
    BY <1>1, <1>2, <1>3, <2>1, <2>2, NoChange
<1>8. QED
  BY <1>4, <1>5, <1>6, <1>7, Joined

(* A request that nobody answers. *)
LEMMA UnansweredInv ==
  ASSUME IInv, NEW t \in Annces, Unanswered(t)
  PROVE  IInv'
<1>1. TypeOK /\ MemTypes /\ ThreadTypes /\ CopyTypes /\ RestTypes /\ ChangeInv
  BY Split
<1>2. /\ pc[t] \in Asking /\ After(t, pc[t])
      /\ UNCHANGED <<known, list, id, ieee, up, file, cb, nwk, todo, copy, key, mixed, events>>
      /\ UNCHANGED <<stale, saved, left, twin, crossed>>
  BY DEF Unanswered, history
<1>3. t \in Actors
  BY DEF Actors
<1>4. /\ pc' \in [Actors -> {"idle", "name", "read", "empty", "fill"} \cup Asking]
      /\ who' \in [Actors -> Keys]
      /\ dev' \in [Annces -> Objs \cup {Nobody}]
      /\ pc'[t] \in {"active", "simple", "idle"}
      /\ \A q \in Actors \ {t} : pc'[q] = pc[q]
      /\ \A q \in Annces \ {t} : dev'[q] = dev[q]
      /\ pc'[t] # "idle" => dev'[t] = dev[t]
  BY <1>1, <1>2, AfterTypes
<1>5. MemTypes' /\ CopyTypes' /\ RestTypes'
  BY <1>1, <1>2 DEF MemTypes, CopyTypes, RestTypes
<1>6. \A q \in Annces : (Busy(q) => dev[q] \in Objs)' /\ (InCallback(q) => todo[q] # << >>)'
  BY <1>1, <1>2, <1>4 DEF ThreadTypes, Busy, InCallback, Changing, Asking, Actors
<1>7. ThreadTypes'
  BY <1>1, <1>2, <1>4, <1>6 DEF ThreadTypes
<1>8. ChangeInv'
  <2>1. ~Changing(t) /\ stale \subseteq Actors /\ pc'[t] \notin {"empty", "fill"}
    BY <1>1, <1>2, <1>4 DEF Changing, CopyTypes, Asking
  <2>2. \A q \in Actors \ {t} : pc'[q] = pc[q] /\ todo'[q] = todo[q]
    BY <1>2, <1>4
  <2>3. QED
    BY <1>1, <1>2, <1>3, <2>1, <2>2, NoChange
<1>9. QED
  BY <1>5, <1>7, <1>8, Joined

(* An answer's callback begins, with its fields to write. *)
LEMMA AnsweredInv ==
  ASSUME IInv, NEW t \in Annces, Answered(t)
  PROVE  IInv'
<1>1. TypeOK /\ MemTypes /\ ThreadTypes /\ CopyTypes /\ RestTypes /\ ChangeInv
  BY Split
<1>2. /\ pc[t] \in Asking /\ pc' = [pc EXCEPT ![t] = "read"]
      /\ cb' = t
      /\ todo' = [todo EXCEPT ![t] = Writes(pc[t])]
      /\ UNCHANGED <<up, file, who, nwk, dev, copy, key, mixed, events>>
      /\ UNCHANGED <<list, id, ieee, known>>
      /\ UNCHANGED <<stale, saved, left, twin, crossed>>
  BY DEF Answered, Go, memory, history
<1>3. t \in Actors
  BY DEF Actors
<1>4. Writes(pc[t]) \in Seq(Fields) /\ Writes(pc[t]) # << >>
  <2>1. CASE pc[t] = "simple"
    <3>1. Writes(pc[t]) = <<"addr", "endpoint", "simple">>
      BY <2>1 DEF Writes
    <3>2. <<"addr", "endpoint", "simple">> \in Seq(Fields)
      BY DEF Fields
    <3>3. QED
      BY <3>1, <3>2
  <2>2. CASE pc[t] \in {"node", "active"}
    <3>1. Writes(pc[t]) = <<"addr", pc[t]>>
      BY <2>2 DEF Writes
    <3>2. "addr" \in Fields /\ pc[t] \in Fields
      BY <2>2 DEF Fields
    <3>3. <<"addr", pc[t]>> \in Seq(Fields)
      BY <3>2
    <3>4. QED
      BY <3>1, <3>3
  <2>3. QED
    BY <1>2, <2>1, <2>2 DEF Asking
<1>5. MemTypes' /\ CopyTypes' /\ RestTypes'
  BY <1>1, <1>2 DEF MemTypes, CopyTypes, RestTypes
<1>6. \A q \in Annces : (Busy(q) => dev[q] \in Objs)' /\ (InCallback(q) => todo[q] # << >>)'
  BY <1>1, <1>2, <1>3, <1>4 DEF ThreadTypes, Busy, InCallback, Changing, Asking, Actors
<1>7. ThreadTypes'
  BY <1>1, <1>2, <1>3, <1>4, <1>6 DEF ThreadTypes
<1>8. ChangeInv'
  <2>1. ~Changing(t) /\ stale \subseteq Actors
    BY <1>1, <1>2 DEF Changing, CopyTypes, Asking
  <2>2. pc'[t] = "read" /\ \A q \in Actors \ {t} : pc'[q] = pc[q] /\ todo'[q] = todo[q]
    BY <1>1, <1>2, <1>3 DEF ThreadTypes
  <2>3. QED
    BY <1>1, <1>2, <1>3, <2>1, <2>2, NoChange
<1>9. QED
  BY <1>5, <1>7, <1>8, Joined

(* A callback reads the file: its change begins. *)
LEMMA ReadInv ==
  ASSUME IInv, NEW t \in Annces, Read(t)
  PROVE  IInv'
<1>1. TypeOK /\ MemTypes /\ ThreadTypes /\ CopyTypes /\ RestTypes /\ ChangeInv
  BY Split
<1> DEFINE k == ieee[dev[t]]
           w == Head(todo[t])
           n == id[dev[t]]
<1>2. /\ pc[t] = "read" /\ pc' = [pc EXCEPT ![t] = "empty"]
      /\ key' = [key EXCEPT ![t] = k]
      /\ copy' = [copy EXCEPT ![t] = With(Loaded, k, w, n)]
      /\ Overlap(t)
      /\ UNCHANGED <<up, file, cb, who, nwk, dev, todo, mixed, saved, left, twin, crossed, events>>
      /\ UNCHANGED <<list, id, ieee, known>>
  BY DEF Read, Go, memory
<1>3. t \in Actors
  BY DEF Actors
<1>4. dev[t] \in Objs /\ todo[t] \in Seq(Fields) /\ todo[t] # << >>
  BY <1>1, <1>2, <1>3 DEF ThreadTypes, Busy, InCallback
<1>5. k \in Keys /\ n \in Addrs /\ w \in Fields
  BY <1>1, <1>4, HeadTailProperties DEF MemTypes
<1> HIDE DEF k, w, n
<1>6. /\ With(Loaded, k, w, n) \in Files
      /\ w \in With(Loaded, k, w, n)[k].has
      /\ \A j \in Keys : Loaded[j].has \subseteq With(Loaded, k, w, n)[j].has
  BY <1>1, <1>5, LoadedFile, WithField
<1>7. /\ copy' \in [Actors -> Files] /\ key' \in [Actors -> Keys]
      /\ copy'[t] = With(Loaded, k, w, n) /\ key'[t] = k
      /\ \A q \in Actors \ {t} : copy'[q] = copy[q] /\ key'[q] = key[q]
  BY <1>1, <1>2, <1>3, <1>5, <1>6 DEF CopyTypes
<1>8. ChangeInv' /\ stale' \subseteq Actors
  <2>1. ~Changing(t)
    BY <1>2 DEF Changing
  <2>2. Head(todo[t]) \in copy'[t][key'[t]].has
    BY <1>6, <1>7 DEF w
  <2>3. ASSUME \A q \in Actors : ~Changing(q), NEW j \in Keys
        PROVE  saved[j] \subseteq copy'[t][j].has
    <3>1. saved[j] \subseteq Loaded[j].has
      BY <1>1, <2>3, LoadedSaved
    <3>2. QED
      BY <1>6, <1>7, <3>1
  <2>4. pc \in [Actors -> {"idle", "name", "read", "empty", "fill"} \cup Asking]
    BY <1>1 DEF ThreadTypes
  <2>5. QED
    BY <1>1, <1>2, <1>3, <1>7, <2>1, <2>2, <2>3, <2>4, Begins
<1>9. MemTypes' /\ CopyTypes' /\ RestTypes'
  BY <1>1, <1>2, <1>7, <1>8 DEF MemTypes, CopyTypes, RestTypes
<1>10. \A q \in Annces : (Busy(q) => dev[q] \in Objs)' /\ (InCallback(q) => todo[q] # << >>)'
  BY <1>1, <1>2, <1>3, <1>4 DEF ThreadTypes, Busy, InCallback, Changing, Actors
<1>11. ThreadTypes'
  BY <1>1, <1>2, <1>3, <1>10 DEF ThreadTypes
<1>12. QED
  BY <1>8, <1>9, <1>11, Joined

(* json_dump_file() empties the file ... *)
LEMMA TruncateInv ==
  ASSUME IInv, NEW p \in Actors, Truncate(p)
  PROVE  IInv'
<1>1. TypeOK /\ MemTypes /\ ThreadTypes /\ CopyTypes /\ RestTypes /\ ChangeInv
  BY Split
<1>2. /\ pc[p] = "empty" /\ pc' = [pc EXCEPT ![p] = "fill"]
      /\ file' = Bad /\ mixed' \subseteq mixed \cup Actors
      /\ UNCHANGED <<up, cb, who, nwk, dev, todo, copy, key, events>>
      /\ UNCHANGED <<list, id, ieee, known>>
      /\ UNCHANGED <<stale, saved, left, twin, crossed>>
  BY DEF Truncate, Go, memory, history
<1>3. MemTypes' /\ CopyTypes' /\ RestTypes'
  BY <1>1, <1>2 DEF MemTypes, CopyTypes, RestTypes
<1>4. \A q \in Annces : (Busy(q) => dev[q] \in Objs)' /\ (InCallback(q) => todo[q] # << >>)'
  BY <1>1, <1>2 DEF ThreadTypes, Busy, InCallback, Changing, Actors
<1>5. ThreadTypes'
  BY <1>1, <1>2, <1>4 DEF ThreadTypes
<1>6. ChangeInv'
  BY <1>1, Truncates DEF ThreadTypes, CopyTypes
<1>7. QED
  BY <1>3, <1>5, <1>6, Joined

(* ... and fills it; the callback goes on or ends. *)
LEMMA FillInv ==
  ASSUME IInv, NEW t \in Annces, Fill(t)
  PROVE  IInv'
<1> USE ConstAssumption
<1>1. TypeOK /\ MemTypes /\ ThreadTypes /\ CopyTypes /\ RestTypes /\ ChangeInv
  BY Split
<1> DEFINE w == Head(todo[t])
<1>2. /\ pc[t] = "fill" /\ Written(t, {w})
      /\ todo' = [todo EXCEPT ![t] = Tail(@)]
      /\ UNCHANGED <<up, list, id, ieee, nwk, twin, events>>
  BY DEF Fill
<1>3. t \in Actors /\ t # Leaver
  BY DEF Actors
<1>4. dev[t] \in Objs /\ todo[t] \in Seq(Fields) /\ todo[t] # << >>
  BY <1>1, <1>2, <1>3 DEF ThreadTypes, Busy, InCallback, Changing
<1>5. /\ w \in Fields /\ Tail(todo[t]) \in Seq(Fields)
      /\ Len(Tail(todo[t])) = Len(todo[t]) - 1 /\ Len(todo[t]) \in Nat
  BY <1>4, HeadTailProperties
<1> HIDE DEF w
<1>6. /\ pc' \in [Actors -> {"idle", "name", "read", "empty", "fill"} \cup Asking]
      /\ who' \in [Actors -> Keys]
      /\ dev' \in [Annces -> Objs \cup {Nobody}]
      /\ cb' \in Annces \cup {Nobody}
      /\ pc'[t] \in {"read", "active", "simple", "idle"}
      /\ \A q \in Actors \ {t} : pc'[q] = pc[q]
      /\ \A q \in Annces \ {t} : dev'[q] = dev[q]
      /\ pc'[t] # "idle" => dev'[t] = dev[t]
      /\ pc'[t] = "read" => Tail(todo[t]) # << >>
      /\ known' \in [Objs -> BOOLEAN]
  <2>1. CASE Len(todo[t]) > 1 /\ Go(t, "fill", "read") /\ UNCHANGED <<known, cb, who, dev>>
    <3> DEFINE rest == Tail(todo[t])
               num  == Len(todo[t])
    <3>1. rest \in Seq(Fields) /\ Len(rest) = num - 1 /\ num \in Nat /\ num > 1
      BY <1>5, <2>1
    <3> HIDE DEF rest, num
    <3>2. Len(rest) # 0
      BY <3>1
    <3>3. rest # << >>
      BY <3>2
    <3>4. Tail(todo[t]) # << >>
      BY <3>3 DEF rest
    <3>5. QED
      BY <1>1, <1>3, <2>1, <3>4 DEF Go, ThreadTypes, MemTypes
  <2>2. CASE /\ known' = [known EXCEPT ![dev[t]] = @ \/ w = "active"]
             /\ cb' = Nobody
             /\ After(t, w)
    <3>1. known' \in [Objs -> BOOLEAN]
      BY <1>1, <2>2 DEF MemTypes
    <3>2. QED
      BY <1>1, <2>2, <3>1, AfterTypes
  <2>3. QED
    BY <2>1, <2>2 DEF Fill, w
<1>7. \A q \in Actors \ {t} : pc'[q] = pc[q] /\ todo'[q] = todo[q]
  BY <1>1, <1>2, <1>6 DEF ThreadTypes
<1>8. ChangeInv' /\ CopyTypes'
  <2>1. {w} \in SUBSET Fields /\ {w} = {Head(todo[t])} /\ pc'[t] \notin {"empty", "fill"}
    BY <1>5, <1>6 DEF w
  <2>2. QED
    BY <1>1, <1>2, <1>3, <1>7, <2>1, Fills
<1>9. MemTypes'
  BY <1>1, <1>2, <1>6 DEF MemTypes
<1>10. left' \subseteq Ieees /\ crossed' \in BOOLEAN
  BY <1>1, <1>2 DEF Written, Record, RestTypes
<1>11. RestTypes'
  BY <1>1, <1>2, <1>10 DEF RestTypes
<1>12. \A q \in Annces : (Busy(q) => dev[q] \in Objs)' /\ (InCallback(q) => todo[q] # << >>)'
  <2> TAKE q \in Annces
  <2>1. CASE q = t
    <3>1. todo'[t] = Tail(todo[t])
      BY <1>1, <1>2, <1>3 DEF ThreadTypes
    <3>2. QED
      BY <1>4, <1>6, <2>1, <3>1 DEF Busy, InCallback, Changing
  <2>2. CASE q # t
    BY <1>1, <1>6, <1>7, <2>2 DEF ThreadTypes, Busy, InCallback, Changing, Actors
  <2>3. QED
    BY <2>1, <2>2
<1>13. todo' \in [Actors -> Seq(Fields)]
  BY <1>1, <1>2, <1>5 DEF ThreadTypes
<1>14. ThreadTypes'
  BY <1>1, <1>2, <1>6, <1>12, <1>13 DEF ThreadTypes
<1>15. QED
  BY <1>8, <1>9, <1>11, <1>14, Joined

(* removeDev() reads the file, or gives up. *)
LEMMA ReadEraseInv ==
  ASSUME IInv, ReadErase
  PROVE  IInv'
<1> USE ConstAssumption
<1>1. TypeOK /\ MemTypes /\ ThreadTypes /\ CopyTypes /\ RestTypes /\ ChangeInv
  BY Split
<1>2. /\ pc[Leaver] = "read"
      /\ UNCHANGED <<up, file, cb, nwk, dev, todo, mixed, saved, twin, crossed, events>>
      /\ UNCHANGED <<list, id, ieee, known>>
  BY DEF ReadErase, Go, memory
<1>3. Leaver \in Actors /\ Leaver \notin Annces /\ ~Changing(Leaver)
  BY <1>2 DEF Actors, Changing
<1>4. MemTypes'
  BY <1>1, <1>2 DEF MemTypes
<1>5. CASE /\ file = Bad
           /\ Go(Leaver, "read", "idle")
           /\ who' = [who EXCEPT ![Leaver] = Zero]
           /\ left' = left \ {who[Leaver]}
           /\ UNCHANGED <<key, copy, stale>>
  <2>1. pc' = [pc EXCEPT ![Leaver] = "idle"]
    BY <1>5 DEF Go
  <2>2. \A q \in Annces : (Busy(q) => dev[q] \in Objs)' /\ (InCallback(q) => todo[q] # << >>)'
    BY <1>1, <1>2, <1>3, <2>1 DEF ThreadTypes, Busy, InCallback, Changing, Actors
  <2>3. ThreadTypes'
    BY <1>1, <1>2, <1>3, <1>5, <2>1, <2>2 DEF ThreadTypes, Keys
  <2>4. CopyTypes' /\ RestTypes'
    BY <1>1, <1>2, <1>5 DEF CopyTypes, RestTypes
  <2>5. ChangeInv'
    <3>1. pc'[Leaver] = "idle" /\ \A q \in Actors \ {Leaver} : pc'[q] = pc[q] /\ todo'[q] = todo[q]
      BY <1>1, <1>2, <1>3, <2>1 DEF ThreadTypes
    <3>2. stale \subseteq Actors
      BY <1>1 DEF CopyTypes
    <3>3. QED
      BY <1>1, <1>2, <1>3, <1>5, <3>1, <3>2, NoChange
  <2>6. QED
    BY <1>4, <2>3, <2>4, <2>5, Joined
<1>6. CASE /\ file # Bad
           /\ Go(Leaver, "read", "empty")
           /\ key' = [key EXCEPT ![Leaver] = who[Leaver]]
           /\ copy' = [copy EXCEPT ![Leaver] = [file EXCEPT ![who[Leaver]] = Absent]]
           /\ Overlap(Leaver)
           /\ UNCHANGED <<who, left>>
  <2> DEFINE f == [file EXCEPT ![who[Leaver]] = Absent]
  <2>1. pc' = [pc EXCEPT ![Leaver] = "empty"]
    BY <1>6 DEF Go
  <2>2. who[Leaver] \in Keys
    BY <1>1, <1>3 DEF ThreadTypes
  <2>3. f \in Files /\ \A k \in Keys : k # who[Leaver] => f[k] = file[k]
    BY <1>1, <1>6 DEF CopyTypes, Files, Absent, Entry, Addrs
  <2> HIDE DEF f
  <2>4. /\ copy' \in [Actors -> Files] /\ key' \in [Actors -> Keys]
        /\ copy'[Leaver] = f /\ key'[Leaver] = who[Leaver]
        /\ \A q \in Actors \ {Leaver} : copy'[q] = copy[q] /\ key'[q] = key[q]
    BY <1>1, <1>3, <1>6, <2>2, <2>3 DEF CopyTypes, f
  <2>5. ChangeInv' /\ stale' \subseteq Actors
    <3>1. \A k \in Keys : k = key'[Leaver] \/ saved[k] \subseteq copy'[Leaver][k].has
      BY <1>1, <1>6, <2>3, <2>4 DEF ChangeInv, SavedKept
    <3>2. pc \in [Actors -> {"idle", "name", "read", "empty", "fill"} \cup Asking]
      BY <1>1 DEF ThreadTypes
    <3>3. QED
      BY <1>1, <1>2, <1>3, <1>6, <2>1, <2>4, <3>1, <3>2, Begins
  <2>6. CopyTypes' /\ RestTypes'
    BY <1>1, <1>2, <1>6, <2>4, <2>5 DEF CopyTypes, RestTypes
  <2>7. \A q \in Annces : (Busy(q) => dev[q] \in Objs)' /\ (InCallback(q) => todo[q] # << >>)'
    BY <1>1, <1>2, <1>3, <2>1 DEF ThreadTypes, Busy, InCallback, Changing, Actors
  <2>8. ThreadTypes'
    BY <1>1, <1>2, <1>3, <1>6, <2>1, <2>7 DEF ThreadTypes
  <2>9. QED
    BY <1>4, <2>5, <2>6, <2>8, Joined
<1>7. QED
  BY <1>5, <1>6 DEF ReadErase

(* removeDev() fills the file with what it left. *)
LEMMA FillEraseInv ==
  ASSUME IInv, FillErase
  PROVE  IInv'
<1> USE ConstAssumption
<1>1. TypeOK /\ MemTypes /\ ThreadTypes /\ CopyTypes /\ RestTypes /\ ChangeInv
  BY Split
<1>2. /\ pc[Leaver] = "fill" /\ pc' = [pc EXCEPT ![Leaver] = "idle"]
      /\ Written(Leaver, {})
      /\ who' = [who EXCEPT ![Leaver] = Zero]
      /\ UNCHANGED <<up, cb, nwk, dev, todo, twin, events>>
      /\ UNCHANGED <<list, id, ieee, known>>
  BY DEF FillErase, Go, memory
<1>3. Leaver \in Actors /\ Leaver \notin Annces
  BY DEF Actors
<1>4. MemTypes'
  BY <1>1, <1>2 DEF MemTypes
<1>5. \A q \in Annces : (Busy(q) => dev[q] \in Objs)' /\ (InCallback(q) => todo[q] # << >>)'
  BY <1>1, <1>2, <1>3 DEF ThreadTypes, Busy, InCallback, Changing, Actors
<1>6. ThreadTypes'
  BY <1>1, <1>2, <1>3, <1>5 DEF ThreadTypes, Keys
<1>7. left' \subseteq Ieees /\ crossed' \in BOOLEAN
  BY <1>1, <1>2 DEF Written, Record, RestTypes
<1>8. RestTypes'
  BY <1>1, <1>2, <1>7 DEF RestTypes
<1>9. ChangeInv' /\ CopyTypes'
  <2>1. pc'[Leaver] = "idle" /\ \A q \in Actors \ {Leaver} : pc'[q] = pc[q] /\ todo'[q] = todo[q]
    BY <1>1, <1>2, <1>3 DEF ThreadTypes
  <2>2. {} \in SUBSET Fields
    OBVIOUS
  <2>3. QED
    BY <1>1, <1>2, <1>3, <2>1, <2>2, Fills
<1>10. QED
  BY <1>4, <1>6, <1>8, <1>9, Joined

(* A leave request. *)
LEMMA LeaveInv ==
  ASSUME IInv, Leave
  PROVE  IInv'
<1> USE ConstAssumption
<1>1. TypeOK /\ MemTypes /\ ThreadTypes /\ CopyTypes /\ RestTypes /\ ChangeInv
  BY Split
<1>2. PICK i \in Ieees :
        /\ \E n : RemoveAssoc(n)
        /\ who' = [who EXCEPT ![Leaver] = i]
        /\ left' = IF \E t \in Annces : Busy(t) /\ i \in {who[t], ieee[dev[t]]}
                   THEN left ELSE left \cup {i}
  BY DEF Leave
<1>3. /\ pc[Leaver] = "idle" /\ pc' = [pc EXCEPT ![Leaver] = "read"]
      /\ UNCHANGED <<up, file, cb, nwk, dev, todo, copy, key, mixed, stale, saved, twin, crossed>>
      /\ events < MaxEvents /\ events' = events + 1
  BY DEF Leave, Go, Event
<1>4. Leaver \in Actors /\ Leaver \notin Annces /\ ~Changing(Leaver)
  BY <1>3 DEF Actors, Changing
<1>5. MemTypes'
  <2>1. PICK n : RemoveAssoc(n)
    BY <1>2
  <2>2. list' \subseteq Objs
    BY <1>1, <2>1 DEF RemoveAssoc, MemTypes
  <2>3. id' \in [Objs -> Addrs] /\ ieee' \in [Objs -> Keys]
    BY <1>1, <2>1 DEF RemoveAssoc, MemTypes, Addrs, Keys
  <2>4. known' \in [Objs -> BOOLEAN]
    BY <2>1 DEF RemoveAssoc
  <2>5. QED
    BY <2>2, <2>3, <2>4 DEF MemTypes
<1>6. \A q \in Annces : (Busy(q) => dev[q] \in Objs)' /\ (InCallback(q) => todo[q] # << >>)'
  BY <1>1, <1>3, <1>4 DEF ThreadTypes, Busy, InCallback, Changing, Actors
<1>7. ThreadTypes'
  BY <1>1, <1>2, <1>3, <1>4, <1>6 DEF ThreadTypes, Keys
<1>8. CopyTypes'
  BY <1>1, <1>3 DEF CopyTypes
<1>9. RestTypes'
  <2>1. left' \subseteq Ieees
    BY <1>1, <1>2 DEF RestTypes
  <2>2. QED
    BY <1>1, <1>3, <2>1 DEF RestTypes
<1>10. ChangeInv'
  <2>1. pc'[Leaver] = "read" /\ \A q \in Actors \ {Leaver} : pc'[q] = pc[q] /\ todo'[q] = todo[q]
    BY <1>1, <1>3, <1>4 DEF ThreadTypes
  <2>2. stale \subseteq Actors
    BY <1>1 DEF CopyTypes
  <2>3. QED
    BY <1>1, <1>3, <1>4, <2>1, <2>2, NoChange
<1>11. QED
  BY <1>5, <1>7, <1>8, <1>9, <1>10, Joined

(* The recovery, or the clearing of a file that does not parse. *)
LEMMA RecoverInv ==
  ASSUME IInv, Recover
  PROVE  IInv'
<1> USE ConstAssumption
<1>1. TypeOK /\ MemTypes /\ ThreadTypes /\ CopyTypes /\ RestTypes /\ ChangeInv
  BY Split
<1>2. twin' \in BOOLEAN /\ UNCHANGED events
  BY DEF Recover
<1>3. CASE Wipe
  <2>1. /\ file = Bad /\ file' = Empty
        /\ saved' = [k \in Keys |-> {}]
        /\ up' = "doomed"
        /\ UNCHANGED <<list, id, ieee, known>> /\ UNCHANGED cb
        /\ UNCHANGED <<pc, who, nwk, dev, todo, copy, key, mixed>>
        /\ UNCHANGED <<stale, left, crossed>>
    BY <1>3 DEF Wipe, memory, threads
  <2>2. Empty \in Files /\ Empty # Bad
    BY DEF Empty, Absent, Files, Entry, Addrs
  <2>3. MemTypes' /\ CopyTypes' /\ RestTypes'
    BY <1>1, <1>2, <2>1, <2>2 DEF MemTypes, CopyTypes, RestTypes
  <2>4. ThreadTypes'
    BY <1>1, <2>1 DEF ThreadTypes, Busy, InCallback, Changing
  <2>5. ChangeInv'
    BY <1>1, <2>1, <2>2
    DEF ChangeInv, StaleInv, SoleInv, CopyInv, FieldInv, CutInv, MixedInv, SavedKept, ArchiveGood, Changing
  <2>6. QED
    BY <2>3, <2>4, <2>5, Joined
<1>4. CASE Rebuild
  <2>1. /\ file # Bad /\ up' = "run"
        /\ UNCHANGED <<file, cb, stale, saved, left, crossed>>
        /\ UNCHANGED <<pc, who, nwk, dev, todo, copy, key, mixed>>
    BY <1>4 DEF Rebuild, threads
  <2>2. MemTypes'
    <3> DEFINE long(k) == IF "addr" \in file[k].has THEN k ELSE Zero
    <3>1. PICK at \in [Present -> Objs], last \in [Objs -> Keys] :
            /\ \A k, j \in Present : at[k] = at[j] <=> file[k].nwk = file[j].nwk
            /\ \A k \in Present :
                 \/ at[k] \in list /\ id[at[k]] = file[k].nwk
                 \/ at[k] \notin list /\ \A o \in list : id[o] # file[k].nwk
            /\ \A o \in Objs : IF \E k \in Present : at[k] = o
                               THEN last[o] \in Present /\ at[last[o]] = o
                               ELSE last[o] = Zero
            /\ list' = list \cup {at[k] : k \in Present}
            /\ id' = [o \in Objs |-> IF last[o] \in Present /\ at[last[o]] = o
                                     THEN file[last[o]].nwk ELSE id[o]]
            /\ ieee' = [o \in Objs |-> IF last[o] \in Present /\ at[last[o]] = o
                                       THEN long(last[o]) ELSE ieee[o]]
            /\ known' = [o \in Objs |-> known[o] \/ (last[o] \in Present /\ at[last[o]] = o)]
      BY <1>4 DEF Rebuild
    <3>2. \A k \in Keys : file[k].nwk \in Addrs
      BY <1>1, <2>1 DEF CopyTypes, Files, Entry
    <3>3. Present \subseteq Keys
      BY DEF Present
    <3>4. list' \subseteq Objs
      BY <1>1, <3>1 DEF MemTypes
    <3>5. id' \in [Objs -> Addrs]
      BY <1>1, <3>1, <3>2 DEF MemTypes
    <3>6. \A k \in Keys : long(k) \in Keys
      BY DEF Keys
    <3>7. ieee' \in [Objs -> Keys]
      BY <1>1, <3>1, <3>6 DEF MemTypes
    <3>8. known' \in [Objs -> BOOLEAN]
      BY <3>1
    <3>9. QED
      BY <3>4, <3>5, <3>7, <3>8 DEF MemTypes
  <2>3. CopyTypes' /\ RestTypes'
    BY <1>1, <1>2, <2>1 DEF CopyTypes, RestTypes
  <2>4. ThreadTypes'
    BY <1>1, <2>1 DEF ThreadTypes, Busy, InCallback, Changing
  <2>5. ChangeInv'
    BY <1>1, <2>1
    DEF ChangeInv, StaleInv, SoleInv, CopyInv, FieldInv, CutInv, MixedInv, SavedKept, ArchiveGood, Changing
  <2>6. QED
    BY <2>2, <2>3, <2>4, <2>5, Joined
<1>5. QED
  BY <1>3, <1>4 DEF Recover

(* The process ends and starts again. *)
LEMMA RestartInv ==
  ASSUME IInv, Restart
  PROVE  IInv'
<1> USE ConstAssumption
<1>1. TypeOK /\ MemTypes /\ ThreadTypes /\ CopyTypes /\ RestTypes /\ ChangeInv
  BY Split
<1>2. /\ pc' = [p \in Actors |-> "idle"] /\ stale' = {} /\ up' = "start" /\ UNCHANGED file
      /\ mixed' = {} /\ crossed' = FALSE
      /\ copy' = [p \in Actors |-> Empty]
      /\ key' = [p \in Actors |-> Zero]
      /\ saved' = IF file = Bad THEN [k \in Keys |-> {}] ELSE saved
  BY DEF Restart
<1>3. MemTypes'
  BY DEF Restart, MemTypes, Addrs, Keys
<1>4. ThreadTypes'
  <2>1. /\ cb' = Nobody
        /\ who' = [p \in Actors |-> Zero]
        /\ nwk' = [t \in Annces |-> Zero]
        /\ dev' = [t \in Annces |-> Nobody]
        /\ todo' = [p \in Actors |-> << >>]
    BY DEF Restart
  <2>2. QED
    BY <1>2, <2>1 DEF ThreadTypes, Keys, Addrs, Busy, InCallback, Changing, Actors
<1>5. CopyTypes'
  <2>1. Empty \in Files
    BY DEF Empty, Absent, Files, Entry, Addrs
  <2>2. saved' \in [Keys -> SUBSET Fields]
    BY <1>1, <1>2 DEF CopyTypes
  <2>3. QED
    BY <1>1, <1>2, <2>1, <2>2 DEF CopyTypes, Keys
<1>6. RestTypes'
  <2>1. events' \in 0 .. MaxEvents
    BY <1>1 DEF Restart, Event, RestTypes
  <2>2. left' \subseteq Ieees /\ twin' = FALSE
    BY <1>1 DEF Restart, RestTypes
  <2>3. QED
    BY <1>2, <2>1, <2>2 DEF RestTypes
<1>7. ChangeInv'
  <2>1. \A p \in Actors : ~Changing(p)' /\ pc'[p] # "fill"
    BY <1>2 DEF Changing
  <2>2. StaleInv' /\ SoleInv' /\ CopyInv'
    BY <1>2, <2>1 DEF StaleInv, SoleInv, CopyInv
  <2>3. FieldInv'
    BY <2>1 DEF FieldInv, Actors
  <2>4. CutInv' /\ SavedKept' /\ ArchiveGood' /\ MixedInv'
    BY <1>1, <1>2 DEF CutInv, ChangeInv, SavedKept, ArchiveGood, MixedInv
  <2>5. QED
    BY <2>2, <2>3, <2>4 DEF ChangeInv
<1>8. QED
  BY <1>3, <1>4, <1>5, <1>6, <1>7, Joined

(* No archive, no devices, no threads. *)
LEMMA InitInv == Init => IInv
<1> SUFFICES ASSUME Init  PROVE IInv
  OBVIOUS
<1> USE ConstAssumption
<1>1. MemTypes
  BY DEF Init, MemTypes, Addrs, Keys
<1>2. ThreadTypes
  BY DEF Init, ThreadTypes, Keys, Addrs, Busy, InCallback, Changing, Actors
<1>3. CopyTypes
  <2>1. Empty \in Files
    BY DEF Empty, Absent, Files, Entry, Addrs
  <2>2. QED
    BY <2>1 DEF Init, CopyTypes, Keys
<1>4. RestTypes
  <2>1. 0 \in 0 .. MaxEvents
    OBVIOUS
  <2>2. QED
    BY <2>1 DEF Init, RestTypes
<1>5. ChangeInv
  BY DEF Init, ChangeInv, StaleInv, SoleInv, CopyInv, FieldInv, CutInv, MixedInv,
         SavedKept, ArchiveGood, Changing, Actors
<1>6. QED
  BY <1>1, <1>2, <1>3, <1>4, <1>5, Parts DEF IInv

(* Every step keeps the invariant. *)
LEMMA NextInv == IInv /\ [Next]_vars => IInv'
<1> SUFFICES ASSUME IInv, [Next]_vars  PROVE IInv'
  OBVIOUS
<1>1. CASE UNCHANGED vars
  <2>1. TypeOK'
    BY <1>1 DEF IInv, vars, TypeOK, Busy, InCallback, Changing
  <2>2. ChangeInv'
    BY <1>1 DEF IInv, vars, ChangeInv, StaleInv, SoleInv, CopyInv, FieldInv, CutInv, MixedInv,
                SavedKept, ArchiveGood, Changing
  <2>3. QED
    BY <2>1, <2>2 DEF IInv
<1>2. \A t \in Annces : t \in Actors
  BY DEF Actors
<1>3. Leaver \in Actors
  BY DEF Actors
<1>4. QED
  BY <1>1, <1>2, <1>3, FindInv, NameInv, UnansweredInv, AnsweredInv, ReadInv, TruncateInv, FillInv,
     ReadEraseInv, FillEraseInv, LeaveInv, RecoverInv, RestartInv DEF Next, Step, StepLeave
-----------------------------------------------------------------------------
(* zdo.cpp, zdo_archive.cpp: every variable of the table and the archive   *)
(* keeps its type.                                                         *)
THEOREM TypeCorrect == Spec => []TypeOK
<1>1. IInv => TypeOK
  BY DEF IInv
<1>2. QED
  BY InitInv, NextInv, <1>1, PTL DEF Spec

(* saveDevApdu(), saveEndpointApdu(), removeDev(): what a callback has     *)
(* archived stays, unless changes overlap or the process ends in a write.  *)
THEOREM SavedCorrect == Spec => []SavedKept
<1>1. IInv => SavedKept
  BY DEF IInv, ChangeInv
<1>2. QED
  BY InitInv, NextInv, <1>1, PTL DEF Spec

(* json_dump_file(): an archive that does not parse is being written, the  *)
(* recovery has not been there yet, or two who had it open left it so.     *)
THEOREM ArchiveCorrect == Spec => []ArchiveGood
<1>1. IInv => ArchiveGood
  BY DEF IInv, ChangeInv
<1>2. QED
  BY InitInv, NextInv, <1>1, PTL DEF Spec
-----------------------------------------------------------------------------
(* The table *)

(* As long as no device was looked up before it was named: announcements   *)
(* that are about to name an object are of different devices, and no other *)
(* object of the table has the name that one is about to get.              *)
NamingInv ==
  /\ \A t \in Annces : pc[t] = "name" => who[t] # Zero
  /\ ~twin => \A t, u \in Annces :
                pc[t] = "name" /\ pc[u] = "name" /\ who[t] = who[u] => t = u
  /\ ~twin => \A t \in Annces, o \in list :
                pc[t] = "name" /\ ieee[o] = who[t] => o = dev[t]

TableInv == NamingInv /\ OneObjectEach

(* What names nobody and adds nothing keeps the table in order. *)
LEMMA TableKept ==
  ASSUME TableInv, list' \subseteq list, \A o \in list' : ieee'[o] = ieee[o], UNCHANGED twin,
         \A t \in Annces : pc'[t] = "name" => pc[t] = "name" /\ who'[t] = who[t] /\ dev'[t] = dev[t]
  PROVE  TableInv'
<1>1. NamingInv'
  BY DEF TableInv, NamingInv
<1>2. OneObjectEach'
  BY DEF TableInv, OneObjectEach
<1>3. QED
  BY <1>1, <1>2 DEF TableInv

(* device_annce_proc(): the object found has the name, or nobody has. *)
LEMMA FindTable ==
  ASSUME IInv, TableInv, NEW t \in Annces, Find(t)
  PROVE  TableInv'
<1> USE ConstAssumption
<1>1. TypeOK /\ MemTypes /\ ThreadTypes
  BY Split
<1>2. PICK i \in Ieees, n \in Nwks, o \in Objs :
        /\ Lookup(i, n, o)
        /\ who' = [who EXCEPT ![t] = i]
        /\ dev' = [dev EXCEPT ![t] = o]
        /\ twin' = (twin \/ \E u \in Annces : pc[u] = "name" /\ who[u] = i)
  BY DEF Find
<1>3. pc[t] = "idle" /\ pc' = [pc EXCEPT ![t] = "name"] /\ i # Zero /\ t \in Actors
  BY DEF Find, Go, Actors
<1>4. /\ pc'[t] = "name" /\ who'[t] = i /\ dev'[t] = o
      /\ \A u \in Annces \ {t} : pc'[u] = pc[u] /\ who'[u] = who[u] /\ dev'[u] = dev[u]
  BY <1>1, <1>2, <1>3 DEF ThreadTypes, Actors
<1>5. ~twin' => ~twin /\ \A u \in Annces : ~ (pc[u] = "name" /\ who[u] = i)
  BY <1>2
<1>6. /\ \A x \in list' : x = o \/ (x \in list /\ ieee'[x] = ieee[x])
      /\ \A x \in list' : ieee'[x] = ieee[x] \/ (x = o /\ ieee'[x] = Zero)
      /\ \A x \in list' : x \in list \/ ieee'[x] = Zero
  BY <1>1, <1>2 DEF Lookup, Create, memory, MemTypes
<1>7. ~twin => \A x \in list' : ieee'[x] = i => x = o
  <2>1. CASE o \in Named(i) /\ UNCHANGED memory
    BY <1>3, <2>1 DEF Named, memory, TableInv, OneObjectEach
  <2>2. CASE Named(i) = {} /\ Create(o, Low[i])
    BY <1>3, <1>6, <2>2 DEF Named
  <2>3. QED
    BY <1>2, <2>1, <2>2 DEF Lookup
<1>8. NamingInv'
  <2>1. \A u \in Annces : pc'[u] = "name" => who'[u] # Zero
    BY <1>3, <1>4 DEF TableInv, NamingInv
  <2>2. ASSUME ~twin', NEW u \in Annces, NEW v \in Annces,
               pc'[u] = "name", pc'[v] = "name", who'[u] = who'[v]
        PROVE  u = v
    BY <1>4, <1>5, <2>2 DEF TableInv, NamingInv
  <2>3. ASSUME ~twin', NEW u \in Annces, NEW x \in list', pc'[u] = "name", ieee'[x] = who'[u]
        PROVE  x = dev'[u]
    <3>1. CASE u = t
      BY <1>4, <1>5, <1>7, <2>3, <3>1
    <3>2. CASE u # t
      BY <1>4, <1>5, <1>6, <2>1, <2>3, <3>2 DEF TableInv, NamingInv
    <3>3. QED
      BY <3>1, <3>2
  <2>4. QED
    BY <2>1, <2>2, <2>3 DEF NamingInv
<1>9. OneObjectEach'
  <2> SUFFICES ASSUME ~twin', NEW x \in list', NEW y \in list', ieee'[x] = ieee'[y], ieee'[x] # Zero
               PROVE  x = y
    BY DEF OneObjectEach
  <2>1. x \in list /\ y \in list /\ ieee'[x] = ieee[x] /\ ieee'[y] = ieee[y]
    BY <1>6
  <2>2. QED
    BY <1>5, <2>1 DEF TableInv, OneObjectEach
<1>10. QED
  BY <1>8, <1>9 DEF TableInv

(* The object gets a name that no other one has. *)
LEMMA NameTable ==
  ASSUME IInv, TableInv, NEW t \in Annces, Name(t)
  PROVE  TableInv'
<1> USE ConstAssumption
<1>1. TypeOK /\ MemTypes /\ ThreadTypes
  BY Split
<1>2. /\ pc[t] = "name" /\ pc' = [pc EXCEPT ![t] = "node"]
      /\ ieee' = [ieee EXCEPT ![dev[t]] = who[t]]
      /\ UNCHANGED <<list, who, dev, twin>>
  BY DEF Name, Go, history
<1>3. \A u \in Annces : pc'[u] = "name" => u # t /\ pc[u] = "name"
  BY <1>1, <1>2 DEF ThreadTypes, Actors
<1>4. \A x \in list : ieee'[x] = IF x = dev[t] THEN who[t] ELSE ieee[x]
  BY <1>1, <1>2 DEF MemTypes
<1>5. NamingInv'
  <2>1. \A u \in Annces : pc'[u] = "name" => who'[u] # Zero
    BY <1>2, <1>3 DEF TableInv, NamingInv
  <2>2. ~twin' => \A u, v \in Annces :
          pc'[u] = "name" /\ pc'[v] = "name" /\ who'[u] = who'[v] => u = v
    BY <1>2, <1>3 DEF TableInv, NamingInv
  <2>3. ASSUME ~twin', NEW u \in Annces, NEW x \in list', pc'[u] = "name", ieee'[x] = who'[u]
        PROVE  x = dev'[u]
    BY <1>2, <1>3, <1>4, <2>3 DEF TableInv, NamingInv
  <2>4. QED
    BY <2>1, <2>2, <2>3 DEF NamingInv
<1>6. OneObjectEach'
  <2> SUFFICES ASSUME ~twin', NEW x \in list', NEW y \in list', ieee'[x] = ieee'[y], ieee'[x] # Zero
               PROVE  x = y
    BY DEF OneObjectEach
  <2>1. x \in list /\ y \in list /\ ~twin
    BY <1>2
  <2>2. QED
    BY <1>2, <1>4, <2>1 DEF TableInv, NamingInv, OneObjectEach
<1>7. QED
  BY <1>5, <1>6 DEF TableInv

(* recoverEndpoint(): the objects of different entries get different names. *)
LEMMA RecoverTable ==
  ASSUME IInv, TableInv, Recover
  PROVE  TableInv'
<1> USE ConstAssumption
<1>1. TypeOK /\ MemTypes /\ ThreadTypes
  BY Split
<1>2. twin' = (twin \/ list # {} \/ \E t \in Annces : Busy(t))
  BY DEF Recover
<1>3. UNCHANGED <<pc, who, dev>>
  BY DEF Recover, Wipe, Rebuild, threads
<1>4. ~twin' => list = {} /\ \A t \in Annces : pc[t] = "idle"
  BY <1>2 DEF Busy
<1>5. NamingInv'
  BY <1>3, <1>4 DEF TableInv, NamingInv
<1>6. OneObjectEach'
  <2>1. CASE Wipe
    BY <1>4, <2>1 DEF Wipe, memory, OneObjectEach
  <2>2. CASE Rebuild
    <3> DEFINE long(k) == IF "addr" \in file[k].has THEN k ELSE Zero
    <3>1. PICK at \in [Present -> Objs], last \in [Objs -> Keys] :
            /\ \A k, j \in Present : at[k] = at[j] <=> file[k].nwk = file[j].nwk
            /\ \A k \in Present :
                 \/ at[k] \in list /\ id[at[k]] = file[k].nwk
                 \/ at[k] \notin list /\ \A o \in list : id[o] # file[k].nwk
            /\ \A o \in Objs : IF \E k \in Present : at[k] = o
                               THEN last[o] \in Present /\ at[last[o]] = o
                               ELSE last[o] = Zero
            /\ list' = list \cup {at[k] : k \in Present}
            /\ id' = [o \in Objs |-> IF last[o] \in Present /\ at[last[o]] = o
                                     THEN file[last[o]].nwk ELSE id[o]]
            /\ ieee' = [o \in Objs |-> IF last[o] \in Present /\ at[last[o]] = o
                                       THEN long(last[o]) ELSE ieee[o]]
            /\ known' = [o \in Objs |-> known[o] \/ (last[o] \in Present /\ at[last[o]] = o)]
      BY <2>2 DEF Rebuild
    <3>2. ASSUME ~twin', NEW o \in list'
          PROVE  o \in Objs /\ at[last[o]] = o /\ ieee'[o] = long(last[o])
      <4>1. o \in {at[k] : k \in Present}
        BY <1>4, <3>1, <3>2
      <4>2. QED
        BY <3>1, <4>1
    <3>3. \A k \in Keys : long(k) = k \/ long(k) = Zero
      OBVIOUS
    <3>4. ASSUME ~twin', NEW x \in list', NEW y \in list', ieee'[x] = ieee'[y], ieee'[x] # Zero
          PROVE  x = y
      <4>1. /\ x \in Objs /\ at[last[x]] = x /\ ieee'[x] = long(last[x])
            /\ y \in Objs /\ at[last[y]] = y /\ ieee'[y] = long(last[y])
        BY <3>2, <3>4
      <4>2. last[x] \in Keys /\ last[y] \in Keys
        BY <4>1
      <4>3. last[x] = last[y]
        BY <3>3, <3>4, <4>1, <4>2
      <4>4. QED
        BY <4>1, <4>3
    <3>5. QED
      BY <3>4 DEF OneObjectEach
  <2>3. QED
    BY <2>1, <2>2 DEF Recover
<1>7. QED
  BY <1>5, <1>6 DEF TableInv

(* Every step keeps the table in order. *)
LEMMA NextTable == IInv /\ TableInv /\ [Next]_vars => TableInv'
<1> SUFFICES ASSUME IInv, TableInv, [Next]_vars  PROVE TableInv'
  OBVIOUS
<1> USE ConstAssumption
<1>1. TypeOK /\ MemTypes /\ ThreadTypes
  BY Split
<1>2. CASE UNCHANGED vars
  BY <1>2, TableKept DEF vars
<1>3. ASSUME NEW t \in Annces, Unanswered(t)  PROVE TableInv'
  <2>1. After(t, pc[t]) /\ UNCHANGED <<list, ieee, twin>>
    BY <1>3 DEF Unanswered, history
  <2>2. /\ pc'[t] \in {"active", "simple", "idle"}
        /\ \A q \in Actors \ {t} : pc'[q] = pc[q]
        /\ \A q \in Annces \ {t} : dev'[q] = dev[q]
    BY <1>1, <2>1, AfterTypes
  <2>3. \A q \in Annces \ {t} : who'[q] = who[q]
    BY <1>1, <2>1, AfterTypes DEF Actors
  <2>4. QED
    BY <2>1, <2>2, <2>3, TableKept DEF Actors
<1>4. ASSUME NEW t \in Annces, Answered(t) \/ Read(t)  PROVE TableInv'
  <2>1. UNCHANGED <<list, ieee, twin, who, dev>>
    BY <1>4 DEF Answered, Read, memory, history
  <2>2. \A u \in Annces : pc'[u] = "name" => pc[u] = "name"
    BY <1>1, <1>4 DEF Answered, Read, Go, ThreadTypes, Actors
  <2>3. QED
    BY <2>1, <2>2, TableKept
<1>5. ASSUME NEW p \in Actors, Truncate(p)  PROVE TableInv'
  <2>1. UNCHANGED <<list, ieee, twin, who, dev>>
    BY <1>5 DEF Truncate, memory, history
  <2>2. \A u \in Annces : pc'[u] = "name" => pc[u] = "name"
    BY <1>1, <1>5 DEF Truncate, Go, ThreadTypes, Actors
  <2>3. QED
    BY <2>1, <2>2, TableKept
<1>6. ASSUME NEW t \in Annces, Fill(t)  PROVE TableInv'
  <2>1. UNCHANGED <<list, ieee, twin>>
    BY <1>6 DEF Fill
  <2>2. CASE Go(t, "fill", "read") /\ UNCHANGED <<who, dev>>
    <3>1. \A u \in Annces : pc'[u] = "name" => pc[u] = "name"
      BY <1>1, <2>2 DEF Go, ThreadTypes, Actors
    <3>2. QED
      BY <2>1, <2>2, <3>1, TableKept
  <2>3. CASE After(t, Head(todo[t]))
    <3>1. /\ pc'[t] \in {"active", "simple", "idle"}
          /\ \A q \in Actors \ {t} : pc'[q] = pc[q]
          /\ \A q \in Annces \ {t} : dev'[q] = dev[q]
      BY <1>1, <2>3, AfterTypes
    <3>2. \A q \in Annces \ {t} : who'[q] = who[q]
      BY <1>1, <2>3, AfterTypes DEF Actors
    <3>3. QED
      BY <2>1, <3>1, <3>2, TableKept DEF Actors
  <2>4. QED
    BY <1>6, <2>2, <2>3 DEF Fill
<1>7. CASE ReadErase \/ FillErase
  <2>1. UNCHANGED <<list, ieee, twin, dev>>
    BY <1>7 DEF ReadErase, FillErase, memory
  <2>2. \A u \in Annces : u # Leaver /\ u \in Actors
    BY DEF Actors
  <2>3. \A u \in Annces : who'[u] = who[u]
    BY <1>1, <1>7, <2>2 DEF ReadErase, FillErase, ThreadTypes
  <2>4. \A u \in Annces : pc'[u] = pc[u]
    BY <1>1, <1>7, <2>2 DEF ReadErase, FillErase, Go, ThreadTypes
  <2>5. QED
    BY <2>1, <2>3, <2>4, TableKept
<1>8. CASE Leave
  <2>1. PICK n : RemoveAssoc(n)
    BY <1>8 DEF Leave
  <2>2. list' \subseteq list /\ \A o \in list' : ieee'[o] = ieee[o]
    BY <1>1, <2>1 DEF RemoveAssoc, MemTypes
  <2>3. UNCHANGED <<dev, twin>> /\ \A u \in Annces : u # Leaver /\ u \in Actors
    BY <1>8 DEF Leave, Actors
  <2>4. \A u \in Annces : pc'[u] = pc[u] /\ who'[u] = who[u]
    BY <1>1, <1>8, <2>3 DEF Leave, Go, ThreadTypes
  <2>5. QED
    BY <2>2, <2>3, <2>4, TableKept
<1>9. CASE Restart
  <2>1. list' = {} /\ \A u \in Annces : pc'[u] = "idle"
    BY <1>9 DEF Restart, Actors
  <2>2. QED
    BY <2>1 DEF TableInv, NamingInv, OneObjectEach
<1>10. Leaver \in Actors /\ \A t \in Annces : t \in Actors
  BY DEF Actors
<1>11. QED
  BY <1>2, <1>3, <1>4, <1>5, <1>6, <1>7, <1>8, <1>9, <1>10, FindTable, NameTable, RecoverTable
  DEF Next, Step, StepLeave

(* assocs(ieee), removeAssoc(), recoverEndpoint(): no two objects of the   *)
(* table have one extended address, unless a device was looked up again    *)
(* before it was named, or before the recovery.                            *)
THEOREM OneObjectCorrect == Spec => []OneObjectEach
<1>1. Init => TableInv
  BY DEF Init, TableInv, NamingInv, OneObjectEach, Actors
<1>2. TableInv => OneObjectEach
  BY DEF TableInv
<1>3. QED
  BY InitInv, NextInv, <1>1, NextTable, <1>2, PTL DEF Spec
-----------------------------------------------------------------------------
(* The devices that left *)

(* The thread of a leave request asks nobody, and there is none before the *)
(* recovery.                                                               *)
LeaverInv ==
  /\ pc[Leaver] \in {"idle", "read", "empty", "fill"}
  /\ up = "start" => pc[Leaver] = "idle"

(* Its entry goes as soon as the leave request has filled the file. *)
Erasing(i) == Busy(Leaver) /\ who[Leaver] = i

(* No announcement is about a device that left. *)
NobodyInv ==
  \A i \in left, t \in Annces : Busy(t) => who[t] # i /\ ieee[dev[t]] # i

(* It is not in the file, nor in the copy of a change that is not stale, *)
(* unless the leave request has still to read the file.                  *)
ErasedInv ==
  /\ file # Bad => \A i \in left : file[i] = Absent \/ Erasing(i)
  /\ \A p \in Actors, i \in left :
       Changing(p) /\ p \notin stale =>
         copy[p][i] = Absent \/ (pc[Leaver] = "read" /\ who[Leaver] = i)

(* It is not in the table. *)
UnlistedInv == ~twin => \A i \in left : Named(i) = {}

LeftInv == LeaverInv /\ NobodyInv /\ ErasedInv /\ UnlistedInv

AllInv == IInv /\ TableInv /\ LeftInv

(* What a step about a device that left may use. *)
LEMMA SplitAll ==
  ASSUME AllInv
  PROVE  /\ TypeOK /\ MemTypes /\ ThreadTypes /\ CopyTypes /\ RestTypes /\ ChangeInv
         /\ TableInv /\ LeaverInv /\ NobodyInv /\ ErasedInv /\ UnlistedInv
         /\ left \subseteq Ieees /\ Leaver \in Actors /\ Leaver \notin Annces
         /\ \A t \in Annces : t \in Actors /\ t # Leaver
<1>1. IInv /\ TableInv /\ LeftInv
  BY DEF AllInv
<1>2. left \subseteq Ieees
  BY <1>1, Split DEF RestTypes
<1>3. Leaver \in Actors /\ Leaver \notin Annces /\ \A t \in Annces : t \in Actors /\ t # Leaver
  BY ConstAssumption DEF Actors
<1>4. QED
  BY <1>1, <1>2, <1>3, Split DEF LeftInv

(* A step of an announcement that leaves the file, the copies and the      *)
(* leave request alone.                                                    *)
LEMMA LeftKept ==
  ASSUME AllInv, NEW t \in Annces, ~Changing(t), pc'[t] \notin {"empty", "fill"},
         \A q \in Actors \ {t} : pc'[q] = pc[q] /\ who'[q] = who[q],
         left' \subseteq left, UNCHANGED <<up, file, copy, stale>>,
         NobodyInv', UnlistedInv'
  PROVE  LeftInv'
<1>1. /\ LeaverInv /\ ErasedInv /\ Leaver \in Actors \ {t}
  BY SplitAll
<1>2. \A q \in Actors : Changing(q)' <=> Changing(q)
  BY DEF Changing
<1>3. pc'[Leaver] = pc[Leaver] /\ who'[Leaver] = who[Leaver]
  BY <1>1
<1>4. LeaverInv'
  BY <1>1, <1>3 DEF LeaverInv
<1>5. ErasedInv'
  BY <1>1, <1>2, <1>3 DEF ErasedInv, Erasing, Busy
<1>6. QED
  BY <1>4, <1>5 DEF LeftInv

(* An announcement of a device that left makes it one that did not leave. *)
LEMMA FindLeft ==
  ASSUME AllInv, NEW t \in Annces, Find(t)
  PROVE  LeftInv'
<1> USE ConstAssumption
<1>1. /\ TypeOK /\ MemTypes /\ ThreadTypes /\ NobodyInv /\ UnlistedInv /\ left \subseteq Ieees
      /\ t \in Actors /\ t # Leaver /\ \A u \in Annces : u \in Actors
  BY SplitAll
<1>2. PICK i \in Ieees, n \in Nwks, o \in Objs :
        /\ Lookup(i, n, o)
        /\ who' = [who EXCEPT ![t] = i]
        /\ dev' = [dev EXCEPT ![t] = o]
        /\ twin' = (twin \/ \E u \in Annces : pc[u] = "name" /\ who[u] = i)
        /\ left' = left \ {i}
  BY DEF Find
<1>3. /\ pc[t] = "idle" /\ pc' = [pc EXCEPT ![t] = "name"]
      /\ UNCHANGED <<up, file, copy, stale>>
  BY DEF Find, Go
<1>4. /\ \A x \in Objs : ieee'[x] = ieee[x] \/ ieee'[x] = Zero
      /\ \A x \in list' : x \in list \/ ieee'[x] = Zero
      /\ ieee'[o] = i \/ ieee'[o] = Zero
  BY <1>1, <1>2 DEF Lookup, Create, memory, MemTypes, Named
<1>5. /\ pc'[t] = "name" /\ who'[t] = i /\ dev'[t] = o
      /\ \A q \in Actors \ {t} : pc'[q] = pc[q] /\ who'[q] = who[q]
      /\ \A q \in Annces \ {t} : dev'[q] = dev[q]
  BY <1>1, <1>2, <1>3 DEF ThreadTypes
<1>6. NobodyInv'
  <2> SUFFICES ASSUME NEW j \in left', NEW u \in Annces, Busy(u)'
               PROVE  who'[u] # j /\ ieee'[dev'[u]] # j
    BY DEF NobodyInv
  <2>1. j \in left /\ j # i /\ j # Zero
    BY <1>1, <1>2
  <2>2. CASE u = t
    BY <1>4, <1>5, <2>1, <2>2
  <2>3. CASE u # t
    <3>1. Busy(u) /\ dev'[u] = dev[u] /\ who'[u] = who[u]
      BY <1>1, <1>5, <2>3 DEF Busy
    <3>2. dev[u] \in Objs /\ who[u] # j /\ ieee[dev[u]] # j
      BY <1>1, <2>1, <3>1 DEF ThreadTypes, NobodyInv
    <3>3. QED
      BY <1>4, <2>1, <3>1, <3>2
  <2>4. QED
    BY <2>2, <2>3
<1>7. UnlistedInv'
  <2> SUFFICES ASSUME ~twin', NEW j \in left', NEW x \in list', ieee'[x] = j
               PROVE  FALSE
    BY DEF UnlistedInv, Named
  <2>1. j \in left /\ j # Zero /\ ~twin
    BY <1>1, <1>2
  <2>2. x \in list /\ x \in Objs /\ ieee[x] = j
    BY <1>1, <1>4, <2>1 DEF MemTypes
  <2>3. QED
    BY <1>1, <2>1, <2>2 DEF UnlistedInv, Named
<1>8. QED
  BY <1>2, <1>3, <1>5, <1>6, <1>7, LeftKept DEF Changing

(* The name is that of a device that did not leave. *)
LEMMA NameLeft ==
  ASSUME AllInv, NEW t \in Annces, Name(t)
  PROVE  LeftInv'
<1> USE ConstAssumption
<1>1. /\ TypeOK /\ MemTypes /\ ThreadTypes /\ NobodyInv /\ UnlistedInv
      /\ t \in Actors /\ \A u \in Annces : u \in Actors
  BY SplitAll
<1>2. /\ pc[t] = "name" /\ pc' = [pc EXCEPT ![t] = "node"]
      /\ ieee' = [ieee EXCEPT ![dev[t]] = who[t]]
      /\ UNCHANGED <<list, who, dev, twin, left>>
      /\ UNCHANGED <<up, file, copy, stale>>
  BY DEF Name, Go, history
<1>3. \A i \in left : who[t] # i
  BY <1>1, <1>2 DEF NobodyInv, Busy
<1>4. \A x \in Objs : ieee'[x] = ieee[x] \/ ieee'[x] = who[t]
  BY <1>1, <1>2 DEF MemTypes
<1>5. pc'[t] = "node" /\ \A q \in Actors \ {t} : pc'[q] = pc[q] /\ who'[q] = who[q]
  BY <1>1, <1>2 DEF ThreadTypes
<1>6. NobodyInv'
  <2> SUFFICES ASSUME NEW j \in left, NEW u \in Annces, Busy(u)'
               PROVE  who[u] # j /\ ieee'[dev[u]] # j
    BY <1>2 DEF NobodyInv
  <2>1. Busy(u)
    BY <1>1, <1>2, <1>5 DEF Busy
  <2>2. dev[u] \in Objs /\ who[u] # j /\ ieee[dev[u]] # j
    BY <1>1, <2>1 DEF ThreadTypes, NobodyInv
  <2>3. QED
    BY <1>3, <1>4, <2>2
<1>7. UnlistedInv'
  BY <1>1, <1>2, <1>3, <1>4 DEF UnlistedInv, Named, MemTypes
<1>8. QED
  BY <1>2, <1>5, <1>6, <1>7, LeftKept DEF Changing

(* Answers, and what asks for them. *)
LEMMA AskLeft ==
  ASSUME AllInv, NEW t \in Annces, Unanswered(t) \/ Answered(t)
  PROVE  LeftInv'
<1>1. /\ TypeOK /\ MemTypes /\ ThreadTypes /\ NobodyInv /\ UnlistedInv
      /\ t \in Actors /\ \A u \in Annces : u \in Actors
  BY SplitAll
<1>2. /\ pc[t] \in Asking
      /\ UNCHANGED <<list, ieee, twin, left>> /\ UNCHANGED <<up, file, copy, stale>>
  BY DEF Unanswered, Answered, memory, history
<1>3. /\ pc'[t] \notin {"empty", "fill"}
      /\ \A q \in Actors \ {t} : pc'[q] = pc[q] /\ who'[q] = who[q]
      /\ \A q \in Annces \ {t} : dev'[q] = dev[q]
      /\ pc'[t] # "idle" => who'[t] = who[t] /\ dev'[t] = dev[t]
  <2>1. CASE Unanswered(t)
    BY <1>1, <2>1, AfterTypes DEF Unanswered
  <2>2. CASE Answered(t)
    BY <1>1, <2>2 DEF Answered, Go, ThreadTypes
  <2>3. QED
    BY <2>1, <2>2
<1>4. NobodyInv'
  <2> SUFFICES ASSUME NEW j \in left, NEW u \in Annces, Busy(u)'
               PROVE  who'[u] # j /\ ieee[dev'[u]] # j
    BY <1>2 DEF NobodyInv
  <2>1. Busy(u) /\ who'[u] = who[u] /\ dev'[u] = dev[u]
    BY <1>1, <1>2, <1>3 DEF Busy, Asking
  <2>2. QED
    BY <1>1, <2>1 DEF NobodyInv
<1>5. UnlistedInv'
  BY <1>1, <1>2 DEF UnlistedInv, Named
<1>6. ~Changing(t)
  BY <1>2 DEF Changing, Asking
<1>7. QED
  BY <1>2, <1>3, <1>4, <1>5, <1>6, LeftKept

(* A callback's change is about a device that did not leave. *)
LEMMA ReadLeft ==
  ASSUME AllInv, NEW t \in Annces, Read(t)
  PROVE  LeftInv'
<1> USE ConstAssumption
<1>1. /\ TypeOK /\ MemTypes /\ ThreadTypes /\ CopyTypes /\ LeaverInv /\ NobodyInv /\ ErasedInv
      /\ UnlistedInv /\ left \subseteq Ieees
      /\ t \in Actors /\ t # Leaver /\ \A u \in Annces : u \in Actors
      /\ Leaver \in Actors
  BY SplitAll
<1> DEFINE k == ieee[dev[t]]
           w == Head(todo[t])
           n == id[dev[t]]
<1>2. /\ pc[t] = "read" /\ pc' = [pc EXCEPT ![t] = "empty"]
      /\ copy' = [copy EXCEPT ![t] = With(Loaded, k, w, n)]
      /\ Overlap(t)
      /\ UNCHANGED <<up, file, who, dev, left, twin, list, ieee>>
  BY DEF Read, Go, memory
<1>3. Busy(t) /\ dev[t] \in Objs
  BY <1>1, <1>2 DEF ThreadTypes, Busy
<1>4. k \in Keys /\ \A i \in left : i # k
  BY <1>1, <1>3 DEF NobodyInv, MemTypes
<1>5. ASSUME NEW i \in left  PROVE With(Loaded, k, w, n)[i] = Loaded[i] /\ i \in Keys
  <2>1. i \in Keys /\ i # k
    BY <1>1, <1>4 DEF Keys
  <2>2. Loaded \in Files
    BY <1>1, LoadedFile
  <2>3. QED
    BY <2>1, <2>2 DEF With, Files
<1> HIDE DEF k, w, n
<1>6. \A i \in left : Loaded[i] = Absent \/ Erasing(i)
  <2>1. CASE file = Bad
    BY <1>5, <2>1 DEF Loaded, Empty
  <2>2. CASE file # Bad
    BY <1>1, <2>2 DEF Loaded, ErasedInv
  <2>3. QED
    BY <2>1, <2>2
<1>7. pc'[t] = "empty" /\ \A q \in Actors \ {t} : pc'[q] = pc[q] /\ copy'[q] = copy[q]
  BY <1>1, <1>2 DEF ThreadTypes, CopyTypes
<1>8. stale \subseteq stale' /\ (t \notin stale' => \A q \in Actors \ {t} : ~Changing(q))
  BY <1>2 DEF Overlap
<1>9. LeaverInv'
  BY <1>1, <1>2, <1>7 DEF LeaverInv
<1>10. NobodyInv'
  BY <1>1, <1>2, <1>3, <1>7 DEF NobodyInv, Busy
<1>11. UnlistedInv'
  BY <1>1, <1>2 DEF UnlistedInv, Named
<1>12. ErasedInv'
  <2>1. file' # Bad => \A i \in left' : (file[i] = Absent \/ Erasing(i))'
    BY <1>1, <1>2, <1>7 DEF ErasedInv, Erasing, Busy
  <2>2. ASSUME NEW p \in Actors, NEW i \in left', Changing(p)', p \notin stale'
        PROVE  (copy[p][i] = Absent \/ (pc[Leaver] = "read" /\ who[Leaver] = i))'
    <3>1. CASE p = t
      <4>1. ~Changing(Leaver)
        BY <1>1, <1>8, <2>2, <3>1
      <4>2. copy'[t] = With(Loaded, k, w, n)
        BY <1>1, <1>2 DEF CopyTypes
      <4>3. copy'[t][i] = Absent \/ Erasing(i)
        BY <1>2, <1>5, <1>6, <4>2
      <4>4. Erasing(i) => pc[Leaver] = "read" /\ who[Leaver] = i
        BY <1>1, <4>1 DEF Erasing, Busy, LeaverInv, Changing
      <4>5. QED
        BY <1>1, <1>2, <1>7, <3>1, <4>3, <4>4
    <3>2. CASE p # t
      <4>1. Changing(p) /\ p \notin stale
        BY <1>7, <1>8, <2>2, <3>2 DEF Changing
      <4>2. QED
        BY <1>1, <1>2, <1>7, <3>2, <4>1 DEF ErasedInv
    <3>3. QED
      BY <3>1, <3>2
  <2>3. QED
    BY <2>1, <2>2 DEF ErasedInv
<1>13. QED
  BY <1>9, <1>10, <1>11, <1>12 DEF LeftInv

(* An empty file has nobody in it. *)
LEMMA TruncateLeft ==
  ASSUME AllInv, NEW p \in Actors, Truncate(p)
  PROVE  LeftInv'
<1>1. /\ TypeOK /\ ThreadTypes /\ LeaverInv /\ NobodyInv /\ ErasedInv /\ UnlistedInv
      /\ Leaver \in Actors /\ \A u \in Annces : u \in Actors
  BY SplitAll
<1>2. /\ pc[p] = "empty" /\ pc' = [pc EXCEPT ![p] = "fill"]
      /\ file' = Bad
      /\ UNCHANGED <<up, who, dev, copy, list, ieee, stale, left, twin>>
  BY DEF Truncate, Go, memory, history
<1>3. /\ \A q \in Actors : /\ pc'[q] = pc[q] \/ (pc[q] = "empty" /\ pc'[q] = "fill")
                           /\ Changing(q)' <=> Changing(q)
  BY <1>1, <1>2 DEF ThreadTypes, Changing
<1>4. LeaverInv'
  BY <1>1, <1>2, <1>3 DEF LeaverInv
<1>5. NobodyInv'
  BY <1>1, <1>2, <1>3 DEF NobodyInv, Busy
<1>6. UnlistedInv'
  BY <1>1, <1>2 DEF UnlistedInv, Named
<1>7. ErasedInv'
  BY <1>1, <1>2, <1>3 DEF ErasedInv
<1>8. QED
  BY <1>4, <1>5, <1>6, <1>7 DEF LeftInv

(* A copy that is not stale has nobody in it who left, but the device that *)
(* is about to be erased.                                                  *)
LEMMA FillLeft ==
  ASSUME AllInv, NEW t \in Annces, Fill(t)
  PROVE  LeftInv'
<1> USE ConstAssumption
<1>1. /\ TypeOK /\ MemTypes /\ ThreadTypes /\ CopyTypes /\ ChangeInv /\ LeaverInv /\ NobodyInv
      /\ ErasedInv /\ UnlistedInv
      /\ t \in Actors /\ t # Leaver /\ \A u \in Annces : u \in Actors
      /\ Leaver \in Actors
  BY SplitAll
<1>2. /\ pc[t] = "fill"
      /\ UNCHANGED <<up, list, ieee, twin>>
      /\ file' \in Contents(t)
      /\ copy' = [copy EXCEPT ![t] = Empty]
      /\ stale' = stale \ {t}
      /\ left' = IF t \in stale THEN {} ELSE left
  BY DEF Fill, Written, Record
<1>2a. t \notin stale => file' = copy[t]
  BY <1>1, <1>2, ContentsFiles DEF ChangeInv, MixedInv
<1>3. /\ pc'[t] \notin {"empty", "fill"}
      /\ \A q \in Actors \ {t} : pc'[q] = pc[q] /\ who'[q] = who[q]
      /\ \A q \in Annces \ {t} : dev'[q] = dev[q]
      /\ pc'[t] # "idle" => who'[t] = who[t] /\ dev'[t] = dev[t]
  <2>1. CASE Go(t, "fill", "read") /\ UNCHANGED <<who, dev>>
    BY <1>1, <2>1 DEF Go, ThreadTypes
  <2>2. CASE After(t, Head(todo[t]))
    BY <1>1, <2>2, AfterTypes
  <2>3. QED
    BY <2>1, <2>2 DEF Fill
<1>4. left' \subseteq left /\ (t \in stale => left' = {})
  BY <1>2
<1>5. \A q \in Actors : Changing(q)' <=> Changing(q) /\ q # t
  BY <1>3 DEF Changing
<1>6. LeaverInv'
  BY <1>1, <1>2, <1>3 DEF LeaverInv
<1>7. NobodyInv'
  <2> SUFFICES ASSUME NEW j \in left, NEW u \in Annces, Busy(u)'
               PROVE  who'[u] # j /\ ieee[dev'[u]] # j
    BY <1>2, <1>4 DEF NobodyInv
  <2>1. Busy(u) /\ who'[u] = who[u] /\ dev'[u] = dev[u]
    BY <1>1, <1>2, <1>3 DEF Busy
  <2>2. QED
    BY <1>1, <2>1 DEF NobodyInv
<1>8. UnlistedInv'
  BY <1>1, <1>2, <1>4 DEF UnlistedInv, Named
<1>9. ErasedInv'
  <2>1. ASSUME NEW i \in left'
        PROVE  copy[t][i] = Absent \/ (pc[Leaver] = "read" /\ who[Leaver] = i)
    <3>1. t \notin stale /\ Changing(t) /\ i \in left
      BY <1>2, <1>4, <2>1 DEF Changing
    <3>2. QED
      BY <1>1, <3>1 DEF ErasedInv
  <2>2. \A i \in left' : (file[i] = Absent \/ Erasing(i))'
    <3> TAKE i \in left'
    <3>1. file' = copy[t] /\ pc'[Leaver] = pc[Leaver] /\ who'[Leaver] = who[Leaver]
      BY <1>1, <1>2, <1>2a, <1>3
    <3>2. QED
      BY <2>1, <3>1 DEF Erasing, Busy
  <2>3. ASSUME NEW p \in Actors, NEW i \in left', Changing(p)', p \notin stale'
        PROVE  (copy[p][i] = Absent \/ (pc[Leaver] = "read" /\ who[Leaver] = i))'
    <3>1. p # t /\ Changing(p) /\ p \notin stale /\ i \in left
      BY <1>2, <1>4, <1>5, <2>3
    <3>2. copy'[p] = copy[p]
      BY <1>1, <1>2, <3>1 DEF CopyTypes
    <3>3. QED
      BY <1>1, <1>3, <3>1, <3>2 DEF ErasedInv
  <2>4. QED
    BY <2>2, <2>3 DEF ErasedInv
<1>10. QED
  BY <1>6, <1>7, <1>8, <1>9 DEF LeftInv

(* removeDev(): the copy has nobody in it who left, nor then the file. *)
LEMMA EraseLeft ==
  ASSUME AllInv, ReadErase \/ FillErase
  PROVE  LeftInv'
<1> USE ConstAssumption
<1>1. /\ TypeOK /\ MemTypes /\ ThreadTypes /\ CopyTypes /\ ChangeInv /\ LeaverInv /\ NobodyInv
      /\ ErasedInv /\ UnlistedInv /\ left \subseteq Ieees
      /\ Leaver \in Actors /\ \A u \in Annces : u \in Actors /\ u # Leaver
  BY SplitAll
<1>2. /\ pc[Leaver] \in {"read", "fill"} /\ pc'[Leaver] \in {"idle", "empty"}
      /\ \A q \in Actors \ {Leaver} : pc'[q] = pc[q] /\ who'[q] = who[q]
      /\ UNCHANGED <<up, list, ieee, dev, twin>>
      /\ left' \subseteq left
  BY <1>1 DEF ReadErase, FillErase, Written, Record, Go, memory, ThreadTypes
<1>3. LeaverInv'
  BY <1>1, <1>2 DEF LeaverInv
<1>4. NobodyInv'
  BY <1>1, <1>2 DEF NobodyInv, Busy
<1>5. UnlistedInv'
  BY <1>1, <1>2 DEF UnlistedInv, Named
<1>6. CASE FillErase
  <2>1. /\ pc[Leaver] = "fill" /\ pc'[Leaver] = "idle"
        /\ file' \in Contents(Leaver)
        /\ copy' = [copy EXCEPT ![Leaver] = Empty]
        /\ stale' = stale \ {Leaver}
        /\ left' = IF Leaver \in stale THEN {} ELSE left
    BY <1>1, <1>6 DEF FillErase, Written, Record, Go, ThreadTypes
  <2>1a. Leaver \notin stale => file' = copy[Leaver]
    BY <1>1, <2>1, ContentsFiles DEF ChangeInv, MixedInv
  <2>2. ASSUME NEW i \in left'  PROVE copy[Leaver][i] = Absent
    <3>1. Leaver \notin stale /\ Changing(Leaver) /\ i \in left
      BY <1>2, <2>1, <2>2 DEF Changing
    <3>2. QED
      BY <1>1, <2>1, <3>1 DEF ErasedInv
  <2>3. ASSUME NEW p \in Actors, NEW i \in left', Changing(p)', p \notin stale'
        PROVE  copy'[p][i] = Absent
    <3>1. p # Leaver /\ Changing(p) /\ p \notin stale /\ i \in left
      BY <1>2, <2>1, <2>3 DEF Changing
    <3>2. copy'[p] = copy[p]
      BY <1>1, <2>1, <3>1 DEF CopyTypes
    <3>3. QED
      BY <1>1, <2>1, <3>1, <3>2 DEF ErasedInv
  <2>4. \A i \in left' : file'[i] = Absent
    BY <2>1, <2>1a, <2>2
  <2>5. ErasedInv'
    BY <2>3, <2>4 DEF ErasedInv
  <2>6. QED
    BY <1>3, <1>4, <1>5, <2>5 DEF LeftInv
<1>7. CASE ReadErase /\ file = Bad
  <2>1. /\ pc[Leaver] = "read" /\ pc'[Leaver] = "idle"
        /\ left' = left \ {who[Leaver]}
        /\ UNCHANGED <<file, copy, stale>>
    BY <1>1, <1>7 DEF ReadErase, Go, ThreadTypes
  <2>2. ASSUME NEW p \in Actors, NEW i \in left', Changing(p)', p \notin stale'
        PROVE  copy'[p][i] = Absent
    <3>1. Changing(p) /\ p \notin stale /\ i \in left /\ who[Leaver] # i
      BY <1>2, <2>1, <2>2 DEF Changing
    <3>2. QED
      BY <1>1, <2>1, <3>1 DEF ErasedInv
  <2>3. ErasedInv'
    BY <1>7, <2>1, <2>2 DEF ErasedInv
  <2>4. QED
    BY <1>3, <1>4, <1>5, <2>3 DEF LeftInv
<1>8. CASE ReadErase /\ file # Bad
  <2> DEFINE f == [file EXCEPT ![who[Leaver]] = Absent]
  <2>1. /\ pc[Leaver] = "read" /\ pc'[Leaver] = "empty"
        /\ copy' = [copy EXCEPT ![Leaver] = f]
        /\ Overlap(Leaver)
        /\ UNCHANGED <<file, who, left>>
    BY <1>1, <1>8 DEF ReadErase, Go, ThreadTypes
  <2>2. \A i \in left : f[i] = Absent
    <3> TAKE i \in left
    <3>1. i \in Keys /\ file \in Files
      BY <1>1, <1>8 DEF Keys, CopyTypes
    <3>2. file[i] = Absent \/ who[Leaver] = i
      BY <1>1, <1>8 DEF ErasedInv, Erasing
    <3>3. QED
      BY <3>1, <3>2 DEF Files
  <2> HIDE DEF f
  <2>3. ASSUME NEW p \in Actors, NEW i \in left', Changing(p)', p \notin stale'
        PROVE  copy'[p][i] = Absent
    <3>1. CASE p = Leaver
      BY <1>1, <2>1, <2>2, <2>3, <3>1 DEF CopyTypes
    <3>2. CASE p # Leaver
      BY <1>2, <2>1, <2>3, <3>2 DEF Overlap, Changing
    <3>3. QED
      BY <3>1, <3>2
  <2>4. \A i \in left' : (file[i] = Absent \/ Erasing(i))'
    BY <1>1, <1>8, <2>1 DEF ErasedInv, Erasing, Busy
  <2>5. ErasedInv'
    BY <2>3, <2>4 DEF ErasedInv
  <2>6. QED
    BY <1>3, <1>4, <1>5, <2>5 DEF LeftInv
<1>9. QED
  BY <1>6, <1>7, <1>8

(* A leave request is recorded when no announcement is about the device. *)
LEMMA LeaveLeft ==
  ASSUME AllInv, Leave
  PROVE  LeftInv'
<1> USE ConstAssumption
<1>1. /\ TypeOK /\ MemTypes /\ ThreadTypes /\ CopyTypes /\ TableInv /\ LeaverInv /\ NobodyInv
      /\ ErasedInv /\ UnlistedInv /\ left \subseteq Ieees
      /\ Leaver \in Actors /\ \A u \in Annces : u \in Actors /\ u # Leaver
  BY SplitAll
<1>2. PICK i \in Ieees :
        /\ \/ \E o \in Named(i) : RemoveAssoc(id[o])
           \/ Named(i) = {} /\ RemoveAssoc(Low[i])
        /\ who' = [who EXCEPT ![Leaver] = i]
        /\ left' = IF \E t \in Annces : Busy(t) /\ i \in {who[t], ieee[dev[t]]}
                   THEN left ELSE left \cup {i}
  BY DEF Leave
<1>3. /\ pc[Leaver] = "idle" /\ pc' = [pc EXCEPT ![Leaver] = "read"]
      /\ up # "start"
      /\ UNCHANGED <<up, file, copy, dev, stale, twin>>
  BY DEF Leave, Go
<1>4. /\ pc'[Leaver] = "read" /\ who'[Leaver] = i
      /\ \A q \in Actors \ {Leaver} : pc'[q] = pc[q] /\ who'[q] = who[q]
  BY <1>1, <1>2, <1>3 DEF ThreadTypes
<1>5. \A j \in left' :
        j \in left \/ (j = i /\ \A t \in Annces : Busy(t) => who[t] # i /\ ieee[dev[t]] # i)
  BY <1>2
<1>6. \A j \in left' : j \in Ieees /\ j # Zero
  BY <1>1, <1>5
<1>7. PICK n : RemoveAssoc(n)
  BY <1>2
<1>8. /\ \A x \in Objs : ieee'[x] = ieee[x] \/ ieee'[x] = Zero
      /\ list' \subseteq list
  BY <1>7 DEF RemoveAssoc
<1>9. LeaverInv'
  BY <1>3, <1>4 DEF LeaverInv
<1>10. NobodyInv'
  <2> SUFFICES ASSUME NEW j \in left', NEW u \in Annces, Busy(u)'
               PROVE  who'[u] # j /\ ieee'[dev[u]] # j
    BY <1>3 DEF NobodyInv
  <2>1. Busy(u) /\ who'[u] = who[u]
    BY <1>1, <1>4 DEF Busy
  <2>2. dev[u] \in Objs /\ who[u] # j /\ ieee[dev[u]] # j
    BY <1>1, <1>5, <2>1 DEF ThreadTypes, NobodyInv
  <2>3. QED
    BY <1>6, <1>8, <2>1, <2>2
<1>11. UnlistedInv'
  <2> SUFFICES ASSUME ~twin, NEW j \in left', NEW x \in list', ieee'[x] = j
               PROVE  FALSE
    BY <1>3 DEF UnlistedInv, Named
  <2>1. x \in list /\ ieee[x] = j /\ j # Zero
    BY <1>1, <1>6, <1>8 DEF MemTypes
  <2>2. CASE j = i
    <3>1. x \in Named(i)
      BY <2>1, <2>2 DEF Named
    <3>2. PICK o \in Named(i) : RemoveAssoc(id[o])
      BY <1>2, <3>1
    <3>3. o = x
      BY <1>1, <2>1, <3>1, <3>2 DEF Named, TableInv, OneObjectEach
    <3>4. QED
      BY <3>2, <3>3 DEF RemoveAssoc
  <2>3. CASE j # i
    BY <1>1, <1>5, <2>1, <2>3 DEF UnlistedInv, Named
  <2>4. QED
    BY <2>2, <2>3
<1>12. ErasedInv'
  <2>1. file # Bad => \A j \in left : file[j] = Absent
    BY <1>1, <1>3 DEF ErasedInv, Erasing, Busy
  <2>2. file' # Bad => \A j \in left' : (file[j] = Absent \/ Erasing(j))'
    BY <1>3, <1>4, <1>5, <2>1 DEF Erasing, Busy
  <2>3. ASSUME NEW p \in Actors, NEW j \in left', Changing(p)', p \notin stale'
        PROVE  (copy[p][j] = Absent \/ (pc[Leaver] = "read" /\ who[Leaver] = j))'
    <3>1. Changing(p) /\ p \notin stale
      BY <1>3, <1>4, <2>3 DEF Changing
    <3>2. j \in left => copy[p][j] = Absent
      BY <1>1, <1>3, <3>1 DEF ErasedInv
    <3>3. QED
      BY <1>3, <1>4, <1>5, <3>2
  <2>4. QED
    BY <2>2, <2>3 DEF ErasedInv
<1>13. QED
  BY <1>9, <1>10, <1>11, <1>12 DEF LeftInv

(* recoverEndpoint() makes objects for the entries only. *)
LEMMA RecoverLeft ==
  ASSUME AllInv, Recover
  PROVE  LeftInv'
<1> USE ConstAssumption
<1>1. /\ TypeOK /\ MemTypes /\ ThreadTypes /\ CopyTypes /\ LeaverInv /\ NobodyInv
      /\ ErasedInv /\ UnlistedInv /\ left \subseteq Ieees
      /\ Leaver \in Actors /\ \A u \in Annces : u \in Actors /\ u # Leaver
  BY SplitAll
<1>2. up = "start" /\ up' \in {"run", "doomed"} /\ (~twin' => ~twin)
  BY DEF Recover, Wipe, Rebuild
<1>3. UNCHANGED <<pc, who, dev, copy, stale, left>>
  BY DEF Recover, Wipe, Rebuild, threads
<1>4. pc[Leaver] = "idle"
  BY <1>1, <1>2 DEF LeaverInv
<1>5. LeaverInv'
  BY <1>2, <1>3, <1>4 DEF LeaverInv
<1>6. \A i \in left : i \in Keys /\ i # Zero
  BY <1>1 DEF Keys
<1>7. CASE Wipe
  <2>1. file' = Empty /\ UNCHANGED <<list, ieee>>
    BY <1>7 DEF Wipe, memory
  <2>2. NobodyInv' /\ UnlistedInv'
    BY <1>1, <1>2, <1>3, <2>1 DEF NobodyInv, UnlistedInv, Named, Busy
  <2>3. ErasedInv'
    BY <1>1, <1>3, <1>6, <2>1 DEF ErasedInv, Empty, Changing
  <2>4. QED
    BY <1>5, <2>2, <2>3 DEF LeftInv
<1>8. CASE Rebuild
  <2>1. file # Bad /\ UNCHANGED file
    BY <1>8 DEF Rebuild
  <2>2. \A i \in left : file[i] = Absent /\ i \notin Present
    BY <1>1, <1>4, <2>1 DEF ErasedInv, Erasing, Busy, Present, Absent
  <2>3. \A x \in Objs : ieee'[x] = ieee[x] \/ ieee'[x] \notin left
    <3> DEFINE long(k) == IF "addr" \in file[k].has THEN k ELSE Zero
    <3>1. PICK at \in [Present -> Objs], last \in [Objs -> Keys] :
            /\ \A k, j \in Present : at[k] = at[j] <=> file[k].nwk = file[j].nwk
            /\ \A k \in Present :
                 \/ at[k] \in list /\ id[at[k]] = file[k].nwk
                 \/ at[k] \notin list /\ \A o \in list : id[o] # file[k].nwk
            /\ \A o \in Objs : IF \E k \in Present : at[k] = o
                               THEN last[o] \in Present /\ at[last[o]] = o
                               ELSE last[o] = Zero
            /\ list' = list \cup {at[k] : k \in Present}
            /\ id' = [o \in Objs |-> IF last[o] \in Present /\ at[last[o]] = o
                                     THEN file[last[o]].nwk ELSE id[o]]
            /\ ieee' = [o \in Objs |-> IF last[o] \in Present /\ at[last[o]] = o
                                       THEN long(last[o]) ELSE ieee[o]]
            /\ known' = [o \in Objs |-> known[o] \/ (last[o] \in Present /\ at[last[o]] = o)]
      BY <1>8 DEF Rebuild
    <3>2. \A k \in Present : long(k) \notin left
      BY <1>6, <2>2
    <3>3. QED
      BY <3>1, <3>2
  <2>4. NobodyInv'
    <3> SUFFICES ASSUME NEW j \in left, NEW u \in Annces, Busy(u)
                 PROVE  who[u] # j /\ ieee'[dev[u]] # j
      BY <1>3 DEF NobodyInv, Busy
    <3>1. dev[u] \in Objs /\ who[u] # j /\ ieee[dev[u]] # j
      BY <1>1 DEF ThreadTypes, NobodyInv
    <3>2. QED
      BY <2>3, <3>1
  <2>5. UnlistedInv'
    <3>1. ~twin' => list = {}
      BY DEF Recover
    <3>2. \A x \in list' : ~twin' => x \in Objs /\ ieee'[x] \notin left
      <4> DEFINE long(k) == IF "addr" \in file[k].has THEN k ELSE Zero
      <4>1. PICK at \in [Present -> Objs], last \in [Objs -> Keys] :
              /\ \A k, j \in Present : at[k] = at[j] <=> file[k].nwk = file[j].nwk
              /\ \A k \in Present :
                   \/ at[k] \in list /\ id[at[k]] = file[k].nwk
                   \/ at[k] \notin list /\ \A o \in list : id[o] # file[k].nwk
              /\ \A o \in Objs : IF \E k \in Present : at[k] = o
                                 THEN last[o] \in Present /\ at[last[o]] = o
                                 ELSE last[o] = Zero
              /\ list' = list \cup {at[k] : k \in Present}
              /\ id' = [o \in Objs |-> IF last[o] \in Present /\ at[last[o]] = o
                                       THEN file[last[o]].nwk ELSE id[o]]
              /\ ieee' = [o \in Objs |-> IF last[o] \in Present /\ at[last[o]] = o
                                         THEN long(last[o]) ELSE ieee[o]]
              /\ known' = [o \in Objs |-> known[o] \/ (last[o] \in Present /\ at[last[o]] = o)]
        BY <1>8 DEF Rebuild
      <4>2. \A k \in Present : long(k) \notin left
        BY <1>6, <2>2
      <4>3. QED
        BY <3>1, <4>1, <4>2
    <3>3. QED
      BY <1>3, <3>2 DEF UnlistedInv, Named
  <2>6. ErasedInv'
    BY <1>1, <1>3, <2>1, <2>2 DEF ErasedInv, Changing
  <2>7. QED
    BY <1>5, <2>4, <2>5, <2>6 DEF LeftInv
<1>9. QED
  BY <1>7, <1>8 DEF Recover

(* Where a leave request was cut short the device did not leave. *)
LEMMA RestartLeft ==
  ASSUME AllInv, Restart
  PROVE  LeftInv'
<1>1. /\ ErasedInv /\ Leaver \in Actors /\ \A u \in Annces : u \in Actors
  BY SplitAll
<1>2. /\ pc' = [p \in Actors |-> "idle"] /\ list' = {} /\ UNCHANGED file
      /\ left' = IF Busy(Leaver) THEN left \ {who[Leaver]} ELSE left
  BY DEF Restart
<1>3. \A q \in Actors : pc'[q] = "idle" /\ ~Changing(q)'
  BY <1>2 DEF Changing
<1>4. LeaverInv' /\ NobodyInv' /\ UnlistedInv'
  BY <1>1, <1>2, <1>3 DEF LeaverInv, NobodyInv, UnlistedInv, Named, Busy
<1>5. ErasedInv'
  BY <1>1, <1>2, <1>3 DEF ErasedInv, Erasing
<1>6. QED
  BY <1>4, <1>5 DEF LeftInv

(* Every step keeps the devices that left away. *)
LEMMA NextLeft == AllInv /\ [Next]_vars => LeftInv'
<1> SUFFICES ASSUME AllInv, [Next]_vars  PROVE LeftInv'
  OBVIOUS
<1>1. CASE UNCHANGED vars
  BY <1>1 DEF AllInv, LeftInv, vars, LeaverInv, NobodyInv, ErasedInv, UnlistedInv, Erasing, Named,
              Busy, Changing
<1>2. Leaver \in Actors /\ \A t \in Annces : t \in Actors
  BY DEF Actors
<1>3. QED
  BY <1>1, <1>2, FindLeft, NameLeft, AskLeft, ReadLeft, TruncateLeft, FillLeft, EraseLeft, LeaveLeft,
     RecoverLeft, RestartLeft DEF Next, Step, StepLeave

(* removeAssoc(), removeDev(), recoverEndpoint(): a device that left is    *)
(* neither in the table nor in the archive, and no restart brings it back, *)
(* unless changes overlapped or it was in the table twice.                 *)
THEOREM LeftCorrect == Spec => []LeftGone
<1>1. Init => AllInv
  BY InitInv DEF Init, AllInv, TableInv, NamingInv, OneObjectEach, LeftInv, LeaverInv, NobodyInv,
                 ErasedInv, UnlistedInv, Actors
<1>2. AllInv /\ [Next]_vars => AllInv'
  BY NextInv, NextTable, NextLeft DEF AllInv
<1>3. AllInv => LeftGone
  BY DEF AllInv, LeftInv, ErasedInv, UnlistedInv, LeftGone, Erasing
<1>4. QED
  BY <1>1, <1>2, <1>3, PTL DEF Spec
=============================================================================
