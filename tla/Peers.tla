------------------------------- MODULE Peers -------------------------------
(***************************************************************************)
(* The objects of the network and how they find each other (apsdb.*,       *)
(* aps_object_models_impl.hpp): the endpoints that the applications        *)
(* (plug-ins) ask for on this device, the devices that announce themselves *)
(* or are recovered from the archive, the endpoints these list and         *)
(* describe, the pairing of a described endpoint with an application's,    *)
(* and the URI under which a paired device is shown.                       *)
(*                                                                         *)
(* The main thread loads the applications, then recovers the archive;      *)
(* assembler threads deliver messages and announcements all the time, and  *)
(* the interfaces let devices leave.  What a leave does to an announcement *)
(* that is still waiting for answers is DeviceArchive's matter; here one   *)
(* announcement's steps are over, or its requests unanswered, when the     *)
(* device leaves.                                                          *)
(***************************************************************************)
EXTENDS Codec, Lists

CONSTANTS
  Apps,       (* the applications (endpoint plug-ins)                          *)
  AskedId,    (* app -> the endpoint it asks for                               *)
  AppDesc,    (* app -> [profile, out]: how it describes that endpoint         *)
  LastId,     (* the last id newEndpoint() tries (239)                         *)
  SpareId,    (* the id it falls back to (241)                                 *)
  Strays,     (* endpoints that unasked messages are addressed to              *)
  Devs,       (* extended addresses of devices                                 *)
  Addrs,      (* their short addresses                                         *)
  DevDescs,   (* device -> the set of descriptors of its endpoint              *)
  Archives,   (* archives found at the start: sequences of [dev, addr, desc]   *)
  Library,    (* the cluster library: cluster -> the attributes it lists       *)
  Objs,       (* heap addresses of Device objects                              *)
  None

ASSUME PeersAssumption ==
  /\ LastId \in 1 .. 239 /\ SpareId \in LastId + 1 .. 255
  /\ \A a \in Apps : AskedId[a] \in 1 .. LastId
  /\ Archives \subseteq Seq([dev : Devs, addr : Addrs, desc : Described])
  /\ \A v \in Devs : DevDescs[v] \subseteq Described
  /\ \A d \in Described : d.endpoint \in 0 .. 255
  /\ Strays \subseteq 0 .. 255
  /\ None \notin Objs \cup Devs \cup Addrs \cup Nat

VARIABLES
  loaded,     (* applications whose init() is over                             *)
  got,        (* app -> the endpoint newEndpoint() gave it, or None            *)
  zdo,        (* startZDO() has run: endpoint 0 has its messageHandler         *)
  locals,     (* this device's endpoints_, newest first: [id, profile, out]    *)
  archive,    (* what recoverEndpoint() still has to go through                *)
  assocs,     (* this device's assocs_, newest first: objects                  *)
  object,     (* object -> [ieee, addr, eps]; Freed while it is not in use     *)
  uri,        (* short address -> the Device* its URI handler holds, or None   *)
  told        (* object -> endpoint -> the endpoint NewJoin was triggered for  *)
              (* since the device's last announcement                          *)

peersVars == <<loaded, got, zdo, locals, archive, assocs, object, uri, told>>

Blank(id) == [id |-> id, profile |-> 0, out |-> {}]
NoDesc    == [profile |-> 0, in |-> {}, out |-> {}]
Freed     == [ieee |-> None, addr |-> None, eps |-> << >>]
NewEp     == [desc |-> NoDesc, peer |-> None, attrs |-> {}]

PeersInit ==
  /\ loaded = {}
  /\ got = [a \in Apps |-> None]
  /\ zdo = FALSE
  /\ locals = << >>
  /\ archive \in Archives
  /\ assocs = << >>
  /\ object = [o \in Objs |-> Freed]
  /\ uri = [n \in Addrs |-> None]
  /\ told = [o \in Objs |-> << >>]
-----------------------------------------------------------------------------
(* This device's endpoints *)

EndpointExist(i) == \E l \in ToSet(locals) : l.id = i

(* endpointPtr(), endpoints(): find_if() creates what it does not find. *)
Found(i) == IF EndpointExist(i) THEN locals ELSE <<Blank(i)>> \o locals

(* Which id newEndpoint() settles on. *)
IdFor(i) ==
  LET free == {j \in 1 .. LastId : ~EndpointExist(j)} IN
  IF ~EndpointExist(i) THEN i ELSE IF free # {} THEN Min(free) ELSE SpareId

NewEndpoint(a) ==
  /\ got[a] = None
  /\ \A b \in Apps : got[b] # None => b \in loaded
  /\ got' = [got EXCEPT ![a] = IdFor(AskedId[a])]
  /\ locals' = Found(IdFor(AskedId[a]))
  /\ UNCHANGED <<loaded, zdo, archive, assocs, object, uri, told>>

(* The application (external) fills in its endpoint's simple descriptor. *)
Describe(a) ==
  /\ got[a] # None /\ a \notin loaded
  /\ loaded' = loaded \cup {a}
  /\ locals' = [i \in DOMAIN locals |->
                  IF locals[i].id = got[a]
                  THEN [id |-> got[a], profile |-> AppDesc[a].profile,
                        out |-> AppDesc[a].out]
                  ELSE locals[i]]
  /\ UNCHANGED <<got, zdo, archive, assocs, object, uri, told>>

(* apsMessageIndicate(): no request waits for the message, so it is for an   *)
(* endpoint, which has no messageHandler.  Messages of either kind.          *)
Unserved(i) ==
  /\ ~EndpointExist(i)
  /\ locals' = Found(i)
  /\ UNCHANGED <<loaded, got, zdo, archive, assocs, object, uri, told>>
-----------------------------------------------------------------------------
(* Other devices *)

(* startZDO(): the applications are loaded, endpoint 0 takes messages. *)
StartZDO ==
  /\ loaded = Apps /\ ~zdo
  /\ zdo' = TRUE
  /\ locals' = Found(0)
  /\ UNCHANGED <<loaded, got, archive, assocs, object, uri, told>>

(* find_if(assocs_, ...): the first device whose field (its extended or its  *)
(* short address) is x, or a new object, which goes in front.                *)
Places(field, x) ==
  LET hits == {i \in DOMAIN assocs : object[assocs[i]][field] = x} IN
  IF hits # {} THEN {assocs[Min(hits)]} ELSE {o \in Objs : object[o] = Freed}

Entered(o)   == IF o \in ToSet(assocs) THEN assocs ELSE <<o>> \o assocs
Endpoints(o) == IF o \in ToSet(assocs) THEN object[o].eps ELSE << >>

(* History: at the given address, only object o's joins are news now. *)
OutOfDate(o, n) ==
  [p \in Objs |-> IF p # o /\ object[p].addr = n THEN << >> ELSE told[p]]

(* device_annce_proc(): the device is entered or renamed. *)
Announce(v, n) ==
  /\ zdo
  /\ \E o \in Places("ieee", v) :
       /\ assocs' = Entered(o)
       /\ object' = [object EXCEPT ![o] =
                       [ieee |-> v, addr |-> n, eps |-> Endpoints(o)]]
       /\ told' = [OutOfDate(o, n) EXCEPT ![o] = << >>]
  /\ UNCHANGED <<loaded, got, zdo, locals, archive, uri>>

(* active_ep_req_apdu_process(): endpoints that are not there are created. *)
Listed(eps, apdu) ==
  [e \in DOMAIN eps \cup ToSet(ActiveEps(apdu)) |->
     IF e \in DOMAIN eps THEN eps[e] ELSE NewEp]

ListEndpoints(o) ==
  /\ o \in ToSet(assocs)
  /\ \E d \in DevDescs[object[o].ieee] :
       object' = [object EXCEPT ![o].eps = Listed(@, ActiveEpApdu(<<d.endpoint>>))]
  /\ UNCHANGED <<loaded, got, zdo, locals, archive, assocs, uri, told>>

(* establish_profile(): the attributes of the in-clusters the library knows. *)
Established(ins) ==
  UNION {{<<c, x>> : x \in Library[c]} : c \in ins \cap DOMAIN Library}

(* Mutant of Chosen: the search ends at the first endpoint of the profile. *)
ChosenFirst(d) ==
  LET same == {i \in DOMAIN locals : locals[i].profile = d.profile}
      fits == {i \in same : locals[i].out \cap d.in # {} /\ i = Min(same)} IN
  [peer |-> IF same = {} THEN 0 ELSE Min(same), joined |-> fits # {}]

(* aps_newpeer_handle()'s walk over this device's endpoints: it ends at the  *)
(* first of the profile that has a cluster in common; localPeer is the last  *)
(* one of the profile it came by.                                            *)
Chosen(d) ==
  LET same == {i \in DOMAIN locals : locals[i].profile = d.profile}
      fits == {i \in same : locals[i].out \cap d.in # {}} IN
  [peer |-> IF fits # {} THEN Min(fits)
            ELSE IF same # {} THEN Max(same) ELSE 0,
   joined |-> fits # {}]

(* The lists of a parsed descriptor, as the sets the pairing looks at. *)
Desc(apdu) ==
  LET s == SimpleDesc(apdu) IN
  [profile |-> s.profile, in |-> ToSet(s.in), out |-> ToSet(s.out)]

(* The endpoint after simple_desc_req_apdu_process() and                     *)
(* aps_newpeer_handle(): its peer stays when none is of the profile.         *)
Paired(ep, d) ==
  LET c == Chosen(d) IN
  [desc |-> d,
   peer |-> IF c.peer = 0 THEN ep.peer ELSE locals[c.peer].id,
   attrs |-> ep.attrs \cup (IF c.joined THEN Established(d.in) ELSE {})]

(* Mutant of Handlers: a handler that is there is kept. *)
HandlersKept(o, n, d) ==
  IF Chosen(d).joined /\ uri[n] = None THEN [uri EXCEPT ![n] = o] ELSE uri

(* notify::handler(): the URI of the device now leads to this object. *)
Handlers(o, n, d) ==
  IF Chosen(d).joined THEN [uri EXCEPT ![n] = o] ELSE uri

(* notify::trigger("NewJoin") *)
Noted(news, e, x) ==
  [k \in DOMAIN news \cup {e} |-> IF k = e THEN x ELSE news[k]]

News(o, n, e, d) ==
  LET c == Chosen(d) IN
  IF c.joined
  THEN [OutOfDate(o, n) EXCEPT ![o] = Noted(@, e, locals[c.peer].id)]
  ELSE [told EXCEPT ![o] = Noted(@, e, None)]

(* The answer to simple_desc_req(): parsed, and the endpoint paired. *)
SimpleDescRsp(o) ==
  /\ o \in ToSet(assocs)
  /\ \E d \in DevDescs[object[o].ieee] :
       /\ d.endpoint \in DOMAIN object[o].eps
       /\ LET e == d.endpoint
              x == Desc(SimpleDescApdu(d)) IN
          /\ object' = [object EXCEPT ![o].eps[e] = Paired(@, x)]
          /\ uri' = Handlers(o, object[o].addr, x)
          /\ told' = News(o, object[o].addr, e, x)
  /\ UNCHANGED <<loaded, got, zdo, locals, archive, assocs>>

(* recoverEndpoint(): the next entry of the archive, whose descriptors are   *)
(* hexadecimal text.  Looked up by its short address.                        *)
Recover ==
  /\ zdo /\ archive # << >>
  /\ LET x == Head(archive)
         e == x.desc.endpoint
         list == hexStrToByteVec(kByteToHexString(ActiveEpApdu(<<e>>)))
         d == Desc(hexStrToByteVec(kByteToHexString(SimpleDescApdu(x.desc))))
     IN \E o \in Places("addr", x.addr) :
          /\ assocs' = Entered(o)
          /\ object' = [object EXCEPT ![o] =
               [ieee |-> x.dev, addr |-> x.addr,
                eps |-> [Listed(Endpoints(o), list) EXCEPT ![e] = Paired(@, d)]]]
          /\ uri' = Handlers(o, x.addr, d)
          /\ told' = News(o, x.addr, e, d)
  /\ archive' = Tail(archive)
  /\ UNCHANGED <<loaded, got, zdo, locals>>

(* Mgmt_Leave_req: removeAssoc() destroys every device of the short address; *)
(* the URI handlers stay.                                                    *)
Leave(v) ==
  /\ \E o \in Places("ieee", v) \cap ToSet(assocs) :
       LET gone == {p \in ToSet(assocs) : object[p].addr = object[o].addr} IN
       /\ assocs' = Keep(assocs, {i \in DOMAIN assocs : assocs[i] \notin gone})
       /\ object' = [p \in Objs |-> IF p \in gone THEN Freed ELSE object[p]]
       /\ told' = [p \in Objs |-> IF p \in gone THEN << >> ELSE told[p]]
  /\ UNCHANGED <<loaded, got, zdo, locals, archive, uri>>

PeersNext ==
  \/ \E a \in Apps : NewEndpoint(a) \/ Describe(a)
  \/ \E i \in Strays : Unserved(i)
  \/ StartZDO
  \/ Recover
  \/ \E v \in Devs : Leave(v) \/ \E n \in Addrs : Announce(v, n)
  \/ \E o \in Objs : ListEndpoints(o) \/ SimpleDescRsp(o)

PeersSpec == PeersInit /\ [][PeersNext]_peersVars
-----------------------------------------------------------------------------
(* nodeSnapshot(): a device as the interface shows it.  The number of        *)
(* out-clusters shown is that of the in-clusters.                            *)
Snapshot(o) ==
  [nwkAddr |-> object[o].addr, ieeeAddr |-> object[o].ieee,
   endpoints |-> [e \in DOMAIN object[o].eps |->
     LET ep == object[o].eps[e] IN
     [paired |-> ep.peer # None, localEndpoint |-> ep.peer,
      inClusterCount |-> Cardinality(ep.desc.in),
      outClusterCount |-> Cardinality(ep.desc.in), attributes |-> ep.attrs]]]

Fits(a, d) == AppDesc[a].profile = d.profile /\ AppDesc[a].out \cap d.in # {}

(***************************************************************************)
(* aps_newpeer_handle() tells an application of every endpoint that fits   *)
(* it, announced or recovered, and tells none of one that does not fit;    *)
(* the application must not have lost its descriptor to another one it     *)
(* shares SpareId with.                                                    *)
(***************************************************************************)
AppHears ==
  \A o \in ToSet(assocs) : \A e \in DOMAIN told[o] :
    LET d == object[o].eps[e].desc IN
    IF told[o][e] = None
    THEN \A a \in Apps :
           Fits(a, d) => \E b \in Apps \ {a} : got[b] = got[a]
    ELSE \E a \in Apps : got[a] = told[o][e] /\ Fits(a, d)

(***************************************************************************)
(* Of a device whose endpoint an application was told of, the interface    *)
(* shows the present object under its present address, and the endpoint    *)
(* paired with that application's, whatever left or joined in between and  *)
(* whichever memory the objects got.                                       *)
(***************************************************************************)
ShownTrue ==
  \A o \in ToSet(assocs) : \A e \in DOMAIN told[o] :
    told[o][e] # None =>
      /\ uri[object[o].addr] = o
      /\ Snapshot(o).endpoints[e].paired
      /\ Snapshot(o).endpoints[e].localEndpoint = told[o][e]
=============================================================================
