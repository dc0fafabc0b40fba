------------------------------- MODULE Flash -------------------------------
(***************************************************************************)
(* Writing a firmware image to the coordinator: handleWriteFlash()         *)
(* (kappaio.cpp) and flashImage(), sb_image_write() (serial_bootload.cpp). *)
(* The image is a sequence of chunks, each written, read back and compared;*)
(* commands go through mtSend() (see MtChannel), which fails when no       *)
(* answer comes and may hand over the late answer to an earlier command.   *)
(* No name of this module is one of MtChannel's, so that both can be       *)
(* extended at once.                                                       *)
(***************************************************************************)
EXTENDS Integers

CONSTANTS
  Last,        (* the number of the image's last chunk                  *)
  Image,       (* the content of each chunk                             *)
  Data,        (* what a chunk may contain                              *)
  Bad          (* content of an erased or wrongly written chunk         *)

Chunks   == 1 .. Last
Contents == Data \cup {Bad}

ASSUME ImageAssumption ==
  /\ Last \in Nat \ {0}
  /\ Image \in [Chunks -> Data]
  /\ Bad \notin Data

VARIABLES
  fpc,         (* where the program is                                          *)
  at,          (* addr: the chunk at hand                                       *)
  wrRetry, rdRetry, rwRetry,
  rtnval,      (* what sb_image_write() will return                             *)
  rd,          (* rdRsp: the content in the last answer to a read               *)
  flash,       (* the coordinator's flash                                       *)
  exitStatus,  (* what the program returns                                      *)
  tries,       (* history: answered commands for the chunk at hand              *)
  unread       (* history: chunks accepted without reading them                 *)

retries == <<wrRetry, rdRetry, rwRetry>>
flashVars == <<fpc, at, retries, rtnval, rd, flash, exitStatus, tries, unread>>

Working == {"handshake", "write", "read", "crc"}
States  == Working \cup {"start", "done", "aborted"}

(* rdRsp is not initialised: it holds whatever was on the stack; the flash *)
(* holds an earlier image, or none.                                        *)
FlashInit ==
  /\ fpc = "start"
  /\ at = 1
  /\ wrRetry = 0 /\ rdRetry = 0 /\ rwRetry = 0
  /\ rtnval = 0
  /\ rd \in Contents
  /\ flash \in [Chunks -> Contents]
  /\ exitStatus = -1
  /\ tries = 0
  /\ unread = {}

(* No image path, or no boot loader library: nothing is done but the clean-up. *)
NoImage ==
  /\ fpc = "start"
  /\ fpc' = "done"
  /\ UNCHANGED <<at, retries, rtnval, rd, flash, exitStatus, tries, unread>>

(* sb_image_check(): size and CRC of the file; exit(-1) when they are wrong. *)
ImageCheck ==
  /\ fpc = "start"
  /\ fpc' \in {"handshake", "aborted"}
  /\ UNCHANGED <<at, retries, rtnval, rd, flash, exitStatus, tries, unread>>

(* sb_handshake(), every five seconds until it is answered; then the image *)
(* is opened once more, which may fail.                                    *)
Handshake ==
  /\ fpc = "handshake"
  /\ fpc' \in {"handshake", "write", "crc"}
  /\ UNCHANGED <<at, retries, rtnval, rd, flash, exitStatus, tries, unread>>
-----------------------------------------------------------------------------
(* sb_image_write() *)

(* The end of a round for the chunk at hand: another round goes on where   *)
(* the chunk stands, written or not; after three, exit(-1).                *)
NextRound(back) ==
  /\ rwRetry' = rwRetry + 1
  /\ wrRetry' = 0
  /\ rdRetry' = 0
  /\ fpc' = IF rwRetry + 1 < 3 THEN back ELSE "aborted"

(* mtSend() fails: the loop goes round, and no counter moves.  The command *)
(* may have been carried out.                                              *)
WriteUnanswered ==
  /\ fpc = "write"
  /\ \E c \in {flash[at], Image[at], Bad} : flash' = [flash EXCEPT ![at] = c]
  /\ UNCHANGED <<fpc, at, retries, rtnval, rd, exitStatus, tries, unread>>

(* An answer with a status other than SB_SUCCESS. *)
WriteRefused ==
  /\ fpc = "write"
  /\ tries' = tries + 1
  /\ IF wrRetry + 1 < 3
     THEN wrRetry' = wrRetry + 1 /\ UNCHANGED <<fpc, rdRetry, rwRetry>>
     ELSE NextRound("write")
  /\ UNCHANGED <<at, rtnval, rd, flash, exitStatus, unread>>

(* SB_SUCCESS, perhaps the late answer to an earlier write: the chunk is   *)
(* written, badly written, or not written.                                 *)
WriteDone ==
  /\ fpc = "write"
  /\ \E c \in {flash[at], Image[at], Bad} : flash' = [flash EXCEPT ![at] = c]
  /\ fpc' = "read"
  /\ tries' = tries + 1
  /\ UNCHANGED <<at, retries, rtnval, rd, exitStatus, unread>>

(* An answer with a status other than SB_SUCCESS, and any content. *)
ReadRefused ==
  /\ fpc = "read"
  /\ tries' = tries + 1
  /\ rd' \in Contents
  /\ IF rdRetry + 1 < 3
     THEN rdRetry' = rdRetry + 1 /\ UNCHANGED <<fpc, wrRetry, rwRetry>>
     ELSE NextRound("read")
  /\ UNCHANGED <<at, rtnval, flash, exitStatus, unread>>

(* The content agrees: the next chunk, with all counters fresh; after the  *)
(* last chunk sb_image_write() returns.                                    *)
Accept(fresh) ==
  /\ unread' = IF fresh THEN unread ELSE unread \cup {at}
  /\ wrRetry' = 0 /\ rdRetry' = 0 /\ rwRetry' = 0
  /\ tries' = 0
  /\ at' = at + 1
  /\ fpc' = IF at < Last THEN "write" ELSE "crc"
  /\ exitStatus' = IF at < Last THEN exitStatus ELSE rtnval
  /\ UNCHANGED rtnval

(* The content differs: rtnval is -1 from now on. *)
Differ(answers) ==
  /\ rtnval' = -1
  /\ tries' = tries + answers
  /\ NextRound("read")
  /\ UNCHANGED <<at, exitStatus, unread>>

(* Mutant of Compare: the content is not looked at. *)
CompareNothing(fresh, answers) == Accept(fresh)

(* memcmp() of the chunk and rdRsp, which is fresh when it was just read   *)
(* from the chunk at hand.                                                 *)
Compare(fresh, answers) ==
  \/ rd' = Image[at] /\ Accept(fresh)
  \/ rd' # Image[at] /\ Differ(answers)

(* mtSend() fails: rdRsp is compared as it is. *)
ReadUnanswered ==
  /\ fpc = "read"
  /\ UNCHANGED rd
  /\ Compare(FALSE, 0)
  /\ UNCHANGED flash

(* SB_SUCCESS: the chunk's content or, late, that of the chunk before; the *)
(* address in the answer is not compared.                                  *)
ReadDone ==
  /\ fpc = "read"
  /\ \/ rd' = flash[at] /\ Compare(TRUE, 1)
     \/ at > 1 /\ rd' = flash[at - 1] /\ Compare(FALSE, 1)
  /\ UNCHANGED flash
-----------------------------------------------------------------------------
(* handleWriteFlash() after flashImage() *)

(* Mutant of Crc: systemPing() until the image is good. *)
CrcUntilGood ==
  /\ fpc = "crc"
  /\ flash = Image
  /\ fpc' = "done"
  /\ UNCHANGED <<at, retries, rtnval, rd, flash, exitStatus, tries, unread>>

(* systemPing() until it is answered; the answer says whether the image's  *)
(* CRC is good, and is printed.                                            *)
Crc ==
  /\ fpc = "crc"
  /\ fpc' \in {"crc", "done"}
  /\ UNCHANGED <<at, retries, rtnval, rd, flash, exitStatus, tries, unread>>

Write == WriteUnanswered \/ WriteRefused \/ WriteDone
Read  == ReadUnanswered \/ ReadRefused \/ ReadDone

FlashNext == NoImage \/ ImageCheck \/ Handshake \/ Write \/ Read \/ Crc

FlashSpec == FlashInit /\ [][FlashNext]_flashVars

(* The program goes on. *)
FairFlash == FlashSpec /\ WF_flashVars(FlashNext)

(* The coordinator is not for ever silent: what is repeated is answered. *)
AnsweredFlash ==
  /\ FairFlash
  /\ SF_flashVars(Handshake /\ fpc' # "handshake")
  /\ SF_flashVars(WriteRefused \/ WriteDone)
  /\ SF_flashVars(Crc /\ fpc' = "done")
-----------------------------------------------------------------------------
(* Every variable of the flashing keeps its type. *)
FlashTypeOK ==
  /\ fpc \in States
  /\ at \in 1 .. Last + 1
  /\ wrRetry \in 0 .. 2 /\ rdRetry \in 0 .. 2
  /\ rwRetry \in 0 .. 3
  /\ rtnval \in {0, -1}
  /\ rd \in Contents
  /\ flash \in [Chunks -> Contents]
  /\ exitStatus \in {0, -1}
  /\ tries \in Nat
  /\ unread \subseteq Chunks

(* A chunk that sb_image_write() has passed is in the flash as in the      *)
(* image, unless it passed on an answer that was not this chunk's: the     *)
(* stale rdRsp of a read that failed, or a late answer.                    *)
AcceptedGood == \A a \in Chunks : a < at => a \in unread \/ flash[a] = Image[a]

(* sb_image_write() gives a chunk up after at most 12 answered commands:   *)
(* three rounds of three writes, and three reads in the last.              *)
TriesBounded == tries <= 12

(* A flashing whose commands are not for ever unanswered ends. *)
Ends == <>(fpc \in {"done", "aborted"})
=============================================================================
