------------------------------ MODULE MCPeers ------------------------------
(***************************************************************************)
(* Three applications that ask for the same endpoint, two ids to give, and *)
(* two devices that change their addresses and descriptors; and, beside    *)
(* the first state, one use of every conversion: these do not depend on    *)
(* the objects.                                                            *)
(***************************************************************************)
EXTENDS Peers

CONSTANTS a1, a2, a3

MCAskedId == (a1 :> 1) @@ (a2 :> 1) @@ (a3 :> 1)

(* a1 and a2 are of one profile and take different clusters. *)
MCAppDesc == (a1 :> [profile |-> 260, out |-> {6}])
          @@ (a2 :> [profile |-> 260, out |-> {8, 768}])
          @@ (a3 :> [profile |-> 49246, out |-> {768}])

(* Profile 260 = 0x104, 49246 = 0xC05E: both bytes differ. *)
D(profile, in, out) ==
  [endpoint |-> 11, profile |-> profile, device |-> 513, version |-> 1,
   in |-> in, out |-> out]

MCDevDescs == 1 :> {D(49246, <<768, 6>>, << >>)}
           @@ 2 :> {D(260, <<768>>, <<6>>), D(260, <<5>>, << >>)}

MCArchives == {<<[dev |-> 2, addr |-> 772, desc |-> D(260, <<768>>, <<6>>)]>>}

MCLibrary == 6 :> {0} @@ 768 :> {0, 1}

(* Lengths around every limit: of the frame's count, of an item, of a byte.  *)
MCAsduLens == {0, 1, 2, 20, 230, 231, 232, 241, 242, 243, 245, 246, 247}
MCDescribed == UNION {MCDevDescs[v] : v \in Devs}
                 \cup {D(65535, << >>, <<1, 256, 65535>>)}
MCInts == {0, 9, 258, 43981, 65534, 65535}

MCInit == PeersInit /\ CodecInit
MCNext == \/ line = Unused /\ PeersNext /\ UNCHANGED line
          \/ loaded = {} /\ locals = << >> /\ UseLine /\ UNCHANGED peersVars
MCSpec == MCInit /\ [][MCNext]_<<peersVars, line>>

(* The heap's addresses are alike. *)
Symmetric == Permutations(Objs)
=============================================================================
