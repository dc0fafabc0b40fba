----------------------------- MODULE SerialRing -----------------------------
(***************************************************************************)
(* The serial driver (mtintf.c): SerialRcv(), the handler of the signal    *)
(* the kernel sends when bytes arrive, moves them into a ring; every run   *)
(* of it starts a MessageAssembler() thread, which takes frames out of the *)
(* ring and hands them on.                                                 *)
(*                                                                         *)
(* The bytes that the coordinator will ever send are the sequence Stream;  *)
(* the ring holds indices into it.  A byte is a record: its value val, the *)
(* frame it belongs to, and its place pos in that frame, from 0 for SOF.   *)
(***************************************************************************)
EXTENDS Naturals, Sequences, FiniteSetsExt

CONSTANTS
  Stream,      (* the bytes of the line                                     *)
  Frames,      (* the frames in Stream                                      *)
  Bursts,      (* bound: how many bytes arrive at a time                    *)
  Size,        (* SERIAL_BUFFER_MAX                                         *)
  SOF,         (* MT_SOF                                                    *)
  Threads,     (* assemblers that may exist at a time                       *)
  Main,        (* the thread of the process that takes signals first        *)
  Free

(* The ring has room, and bytes carry numbers. *)
ASSUME RingAssumption ==
  /\ Size \in Nat \ {0}
  /\ Bursts \subseteq Nat
  /\ Len(Stream) \in Nat
  /\ \A i \in 1 .. Len(Stream) : Stream[i].val \in Nat

(* The coordinator sends whole frames: SOF, the number of data bytes, two   *)
(* of the command, the data and the checksum.  Between frames there may be *)
(* noise, which does not begin with a SOF.                                 *)
ASSUME StreamAssumption ==
  /\ DOMAIN Stream = 1 .. Len(Stream)
  /\ \A f \in Frames : \E s \in 1 .. Len(Stream) - 4 :
       LET e == s + Stream[s + 1].val + 4 IN
       /\ e <= Len(Stream)
       /\ Stream[s].val = SOF
       /\ {i \in DOMAIN Stream : Stream[i].frame = f} = s .. e
       /\ \A i \in s .. e : Stream[i].pos = i - s
  /\ \A i \in 1 .. Len(Stream) : Stream[i].frame \notin Frames => Stream[i].val # SOF

MinLen == 5    (* MIN_PACKET_LEN *)

Hosts == Threads \cup {Main}     (* the threads that a handler may interrupt *)

VARIABLES
  arrived,     (* bytes that have arrived at the kernel                     *)
  fetched,     (* bytes that have left the kernel's buffer                  *)
  signals,     (* signals not yet delivered                                 *)
  lock,        (* SerBufInLenME: <<side, thread>>, or Free                  *)
  ring, head, len,    (* SerBufIn, SerBufInHead, SerBufInLen                *)
  hpc,         (* where the handler that interrupted each host is           *)
  tpc,         (* where each assembler is                                   *)
  offset,      (* its Offset                                                *)
  packet,      (* its PacketBuffer                                          *)
  delivered,   (* how often each frame was handed on                        *)
  junk,        (* something else than a frame was handed on                 *)
  queue,       (* history: the bytes that should be in the ring             *)
  overrun,     (* history: more bytes than the ring takes                   *)
  slipped,     (* history: an assembler searched with an old Offset         *)
  cut          (* history: resetInterface() discarded bytes                 *)

line == <<arrived, fetched, signals>>
buf  == <<ring, head, len, queue, overrun, slipped>>
out  == <<delivered, junk>>
vars == <<arrived, fetched, signals, lock, ring, head, len, hpc, tpc, offset,
          packet, delivered, junk, queue, overrun, slipped, cut>>

At(i)  == (head + i) % Size
Val(p) == IF ring[p] = 0 THEN 0 ELSE Stream[ring[p]].val

Init ==
  /\ arrived = 0 /\ fetched = 0 /\ signals = 0
  /\ lock = Free
  /\ ring = [p \in 0 .. Size - 1 |-> 0]
  /\ head = 0 /\ len = 0
  /\ hpc = [h \in Hosts |-> "off"]
  /\ tpc = [t \in Threads |-> "off"]
  /\ offset = [t \in Threads |-> 0]
  /\ packet = [t \in Threads |-> << >>]
  /\ delivered = [f \in Frames |-> 0]
  /\ junk = FALSE
  /\ queue = << >>
  /\ overrun = FALSE /\ slipped = FALSE /\ cut = FALSE
-----------------------------------------------------------------------------
(* The line *)

(* Bytes arrive, and the kernel sends a signal. *)
Arrive ==
  /\ arrived < Len(Stream)
  /\ \E n \in Bursts : arrived' = Min({arrived + n, Len(Stream)})
  /\ signals' = signals + 1
  /\ UNCHANGED <<fetched, lock, buf, hpc, tpc, offset, packet, out, cut>>

(* resetInterface(): tcflush() discards what was not fetched. *)
Reset ==
  /\ fetched < arrived
  /\ fetched' = arrived
  /\ cut' = TRUE
  /\ UNCHANGED <<arrived, signals, lock, buf, hpc, tpc, offset, packet, out>>
-----------------------------------------------------------------------------
(* SerialRcv() *)

GoHandler(h, from, to) ==
  /\ hpc[h] = from
  /\ hpc' = [hpc EXCEPT ![h] = to]

(* The signal is blocked in the thread that handles one; while the main    *)
(* thread does, another is interrupted, wherever it is.                    *)
Interrupt(h) ==
  /\ signals > 0
  /\ h # Main => hpc[Main] # "off" /\ tpc[h] # "off"
  /\ GoHandler(h, "off", "lock")
  /\ signals' = signals - 1
  /\ UNCHANGED <<arrived, fetched, lock, buf, tpc, offset, packet, out, cut>>

HandlerLock(h) ==
  /\ GoHandler(h, "lock", "read")
  /\ lock = Free
  /\ lock' = <<"handler", h>>
  /\ UNCHANGED <<line, buf, tpc, offset, packet, out, cut>>

(* n bytes go where the ring ends, as far as the end of the array. *)
Fetch(n) ==
  LET tail == At(len)
  IN  /\ ring' = [p \in 0 .. Size - 1 |->
                    IF p \in tail .. tail + n - 1 THEN fetched + 1 + p - tail
                                                  ELSE ring[p]]
      /\ queue' = queue \o [i \in 1 .. n |-> fetched + i]
      /\ len' = len + n
      /\ overrun' = (overrun \/ len + n > Size)

(* What fits between the end of the ring and the end of the array is read. *)
Read(h) ==
  LET n == Min({arrived - fetched, Size - At(len)})
  IN  /\ hpc[h] = "read"
      /\ fetched < arrived
      /\ Fetch(n)
      /\ fetched' = fetched + n
      /\ UNCHANGED <<arrived, signals, lock, head, slipped, hpc, tpc, offset, packet, out, cut>>

(* Nothing is left to read. *)
HandlerUnlock(h) ==
  /\ GoHandler(h, "read", "create")
  /\ fetched = arrived
  /\ lock' = Free
  /\ UNCHANGED <<line, buf, tpc, offset, packet, out, cut>>

(* pthread_create() and return. *)
Create(h) ==
  /\ GoHandler(h, "create", "off")
  /\ \E t \in Threads :
       /\ tpc[t] = "off"
       /\ tpc' = [tpc EXCEPT ![t] = "check"]
       /\ offset' = [offset EXCEPT ![t] = 0]
  /\ UNCHANGED <<line, lock, buf, packet, out, cut>>

HandlerStep(h) ==
  HandlerLock(h) \/ Read(h) \/ HandlerUnlock(h) \/ Create(h)
-----------------------------------------------------------------------------
(* MessageAssembler() *)

Go(t, from, to) ==
  /\ hpc[t] = "off"
  /\ tpc[t] = from
  /\ tpc' = [tpc EXCEPT ![t] = to]

(* Mutant of Check: a frame of the least length is not looked at. *)
CheckMore(t) ==
  /\ \/ len > MinLen  /\ Go(t, "check", "lock")
     \/ len <= MinLen /\ Go(t, "check", "off")
  /\ UNCHANGED <<line, lock, buf, hpc, offset, packet, out, cut>>

(* SerBufInLen is read without the lock. *)
Check(t) ==
  /\ \/ len >= MinLen /\ Go(t, "check", "lock")
     \/ len < MinLen  /\ Go(t, "check", "off")
  /\ UNCHANGED <<line, lock, buf, hpc, offset, packet, out, cut>>

AssemblerLock(t) ==
  /\ Go(t, "lock", "scan")
  /\ lock = Free
  /\ lock' = <<"assembler", t>>
  /\ UNCHANGED <<line, buf, hpc, offset, packet, out, cut>>

(* Offset bytes are passed over to find a SOF: none at the head, else the  *)
(* first one after the Offset so far; the search ends where no frame can   *)
(* begin.                                                                  *)
Ends(o)    == At(o) = head \/ len < o + MinLen
Found(o)   == Val(At(o)) = SOF
Place(t)   == IF Found(0) THEN 0
              ELSE Min({o \in offset[t] + 1 .. offset[t] + Size : Ends(o) \/ Found(o)})
Searched(t) == Found(0) \/ ~Ends(Place(t))
Passed(t)  == IF Found(0) THEN offset[t] ELSE Place(t)

(* Mutant of FrameLen: the checksum is forgotten. *)
FrameLenShort(t) == Val(At(Place(t) + 1)) + 3

(* LEN, the command, the data and the checksum. *)
FrameLen(t) == Val(At(Place(t) + 1)) + 4
Whole(t)    == Searched(t) /\ len >= FrameLen(t) + 1 + Passed(t)

(* Mutant of Take: the checksum byte stays in the ring. *)
TakeShort(t) ==
  /\ packet' = [packet EXCEPT ![t] = [i \in 1 .. FrameLen(t) |-> ring[At(Place(t) + i)]]]
  /\ len' = len - (FrameLen(t) + Passed(t))
  /\ head' = At(Place(t) + FrameLen(t))
  /\ queue' = SubSeq(queue, Place(t) + FrameLen(t) + 2, Len(queue))

(* The frame is copied and leaves the ring with the bytes passed over. *)
Take(t) ==
  /\ packet' = [packet EXCEPT ![t] = [i \in 1 .. FrameLen(t) |-> ring[At(Place(t) + i)]]]
  /\ len' = len - (FrameLen(t) + 1 + Passed(t))
  /\ head' = At(Place(t) + 1 + FrameLen(t))
  /\ queue' = SubSeq(queue, Place(t) + FrameLen(t) + 2, Len(queue))

(* With the lock: take the next frame, or return when there is none. *)
Scan(t) ==
  /\ \/ /\ Whole(t)
        /\ Go(t, "scan", "packet")
        /\ Take(t)
        /\ offset' = [offset EXCEPT ![t] = Passed(t)]
     \/ /\ ~Whole(t)
        /\ Go(t, "scan", "off")
        /\ UNCHANGED <<len, head, queue, packet, offset>>
  /\ slipped' = (slipped \/ offset[t] > 0)
  /\ lock' = Free
  /\ UNCHANGED <<line, ring, overrun, hpc, out, cut>>

IsFrame(p, f) ==
  /\ Len(p) = Cardinality({i \in DOMAIN Stream : Stream[i].frame = f}) - 1
  /\ \A i \in DOMAIN p : p[i] > 0 /\ Stream[p[i]].frame = f /\ Stream[p[i]].pos = i

(* The checksum is right for a frame, and by chance for something else;    *)
(* then the packet is handed on, and the next one looked for.              *)
Deliver(t) ==
  /\ Go(t, "packet", "check")
  /\ \/ \E f \in Frames :
          /\ IsFrame(packet[t], f)
          /\ delivered' = [delivered EXCEPT ![f] = @ + 1]
          /\ UNCHANGED junk
     \/ /\ \A f \in Frames : ~IsFrame(packet[t], f)
        /\ junk' \in {junk, TRUE}
        /\ UNCHANGED delivered
  /\ packet' = [packet EXCEPT ![t] = << >>]
  /\ UNCHANGED <<line, lock, buf, hpc, offset, cut>>

AssemblerStep(t) == Check(t) \/ AssemblerLock(t) \/ Scan(t) \/ Deliver(t)

Next ==
  \/ Arrive
  \/ Reset
  \/ \E h \in Hosts : Interrupt(h) \/ HandlerStep(h)
  \/ \E t \in Threads : AssemblerStep(t)

Spec == Init /\ [][Next]_vars

(* A signal is delivered, and every thread that can run does.  The line    *)
(* owes nothing.                                                           *)
FairSpec ==
  /\ Spec
  /\ WF_vars(\E h \in Hosts : Interrupt(h))
  /\ \A h \in Hosts : WF_vars(HandlerLock(h)) /\ WF_vars(Read(h) \/ HandlerUnlock(h) \/ Create(h))
  /\ \A t \in Threads : WF_vars(AssemblerStep(t))
-----------------------------------------------------------------------------
(* Every variable of the driver keeps its type. *)
TypeOK ==
  /\ arrived \in 0 .. Len(Stream)
  /\ fetched \in 0 .. arrived
  /\ signals \in Nat
  /\ lock \in ({"handler"} \X Hosts) \cup ({"assembler"} \X Threads) \cup {Free}
  /\ ring \in [0 .. Size - 1 -> 0 .. Len(Stream)]
  /\ head \in 0 .. Size - 1
  /\ len \in 0 .. fetched
  /\ ~overrun => len <= Size
  /\ hpc \in [Hosts -> {"off", "lock", "read", "create"}]
  /\ tpc \in [Threads -> {"off", "check", "lock", "scan", "packet"}]
  /\ offset \in [Threads -> Nat]
  /\ packet \in [Threads -> Seq(0 .. Len(Stream))]
  /\ delivered \in [Frames -> Nat]
  /\ queue \in Seq(1 .. Len(Stream))
  /\ {junk, overrun, slipped, cut} \subseteq BOOLEAN

(* As long as the ring was not overrun and no old Offset was used, it      *)
(* holds exactly the bytes that were read and not yet taken, in order.     *)
RingExact ==
  ~overrun /\ ~slipped =>
    /\ len = Len(queue)
    /\ \A i \in 1 .. len : ring[At(i - 1)] = queue[i]

(* What is taken out is a frame, and no frame is taken twice. *)
FramesOnce ==
  ~overrun /\ ~slipped /\ ~cut =>
    /\ ~junk
    /\ \A t \in Threads : tpc[t] = "packet" => \E f \in Frames : IsFrame(packet[t], f)
    /\ \A f \in Frames : delivered[f] <= 1

(* A handler waits for the lock that the thread it interrupted holds. *)
SelfBlocked ==
  \E t \in Threads : hpc[t] = "lock" /\ lock = <<"assembler", t>>

Complete(f) ==
  \E i \in 1 .. arrived : Stream[i].frame = f
                          /\ (i < Len(Stream) => Stream[i + 1].frame # f)

(* A frame that has arrived is handed on, unless the ring is overrun, the  *)
(* interface reset, or a handler waits for its own thread.                 *)
EveryFrameDelivered ==
  \A f \in Frames :
    Complete(f) ~> (delivered[f] > 0 \/ overrun \/ slipped \/ cut \/ SelfBlocked)
=============================================================================
