---------------------------- MODULE MCSerialRing ----------------------------
(* Instance of SerialRing: three frames, a byte of noise after the first. *)
EXTENDS SerialRing

CONSTANTS f1, f2, f3, Noise

(* The bytes of frame f with n bytes of data: SOF, LEN, two of the command, *)
(* the data and the checksum.                                               *)
Bytes(f, n) ==
  [i \in 1 .. n + 5 |->
    [frame |-> f, pos |-> i - 1, val |-> IF i = 1 THEN SOF ELSE IF i = 2 THEN n ELSE 0]]

Noisy ==
  Bytes(f1, 1) \o <<[frame |-> Noise, pos |-> 0, val |-> 0]>>
    \o Bytes(f2, 0) \o Bytes(f3, 0)
=============================================================================
