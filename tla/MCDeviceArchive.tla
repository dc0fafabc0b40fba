-------------------------- MODULE MCDeviceArchive --------------------------
(* Instances of DeviceArchive: devices, addresses and objects are           *)
(* interchangeable.                                                         *)
EXTENDS DeviceArchive, TLC

LowBits == [i \in Ieees |-> Zero]

Symmetry ==
  Permutations(Objs) \cup Permutations(Annces) \cup Permutations(Ieees)
    \cup Permutations(Nwks)
=============================================================================
