------------------------------- MODULE Codec -------------------------------
(***************************************************************************)
(* The conversions between what the host means and the bytes it sends,     *)
(* receives and archives: AF messages (mtaf.cpp, mtaf_impl.h,              *)
(* aps_afmessage_impl), the commands to the coordinator and its answers  *)
(* (mtproc.c, mtsys.cpp, mtutil.cpp, mtzdo.cpp, hal.cpp), the descriptors  *)
(* of other devices (zdo.cpp) and their hexadecimal form in the archive    *)
(* (kutil).  All of it is pure: operators on sequences of bytes.  The      *)
(* variable line holds one use of them: what went in and what came out at  *)
(* the other end.                                                          *)
(***************************************************************************)
EXTENDS Naturals, Sequences, SequencesExt

CONSTANTS
  HighFirst,  (* hexStrToByteVec() evaluates the operand of << first: the      *)
              (* language leaves the order of the two psrc++ open              *)
  Junk,       (* what an uninitialised byte holds                              *)
  AsduLens,   (* lengths of an asdu or an item                                 *)
  Described,  (* descriptors devices give of their endpoints: in the frame    *)
              (* the lists of clusters are counted in one byte                 *)
  Ints        (* 16-bit integers                                               *)

Octet == {x \in Nat : x < 256}                         (* what fits one byte *)
Word  == {x \in Nat : x < 65536}                       (* and two *)

ASSUME CodecAssumption ==
  /\ HighFirst \in BOOLEAN
  /\ Junk \in Octet
  /\ AsduLens \subseteq Word
  /\ Ints \subseteq Word
  /\ \A d \in Described :
       /\ d \in [endpoint : Octet, profile : Word, device : Word, version : Octet,
                 in : Seq(Word), out : Seq(Word)]
       /\ Len(d.in) \in Octet /\ Len(d.out) \in Octet

VARIABLE line

Unused == [op |-> "idle"]

Byte(x) == x % 256                                       (* a uint8_t *)
-----------------------------------------------------------------------------
(* Integers as bytes, lowest first: hostIntToANSI(), kIntToMem() and the     *)
(* other way round, on a little-endian machine.                              *)
ToBytes(x, n) ==
  LET high[k \in 0 .. n] == IF k = 0 THEN x ELSE high[k - 1] \div 256
  IN  [i \in 1 .. n |-> Byte(high[i - 1])]

FromBytes(b) == FoldRight(LAMBDA byte, high : byte + 256 * high, b, 0)

(* The integers of the given widths that lie one behind the other in b. *)
Split(widths, b) ==
  LET start[k \in 1 .. Len(widths)] ==
        IF k = 1 THEN 1 ELSE start[k - 1] + widths[k - 1]
  IN  [k \in 1 .. Len(widths) |->
         FromBytes(SubSeq(b, start[k], start[k] + widths[k] - 1))]

Join(widths, xs) ==
  FlattenSeq([k \in 1 .. Len(widths) |-> ToBytes(xs[k], widths[k])])
-----------------------------------------------------------------------------
(* AF messages: objects that keep their fields in data, each at an offset    *)
(* and of a width; asdu is all that follows its offset.                      *)

(* Mutant of KrAf: the cluster takes the place of the sequence number too. *)
KrAfWide == [dstAddr |-> <<0, 2>>, dstEndpoint |-> <<2, 1>>,
             srcEndpoint |-> <<3, 1>>, clusterId |-> <<4, 3>>,
             tranSeqNum |-> <<6, 1>>, options |-> <<7, 1>>, radius |-> <<8, 1>>,
             asduLen |-> <<9, 1>>]

(* kr_afmessage: what the host sends. *)
KrAf == [dstAddr |-> <<0, 2>>, dstEndpoint |-> <<2, 1>>,
         srcEndpoint |-> <<3, 1>>, clusterId |-> <<4, 2>>,
         tranSeqNum |-> <<6, 1>>, options |-> <<7, 1>>, radius |-> <<8, 1>>,
         asduLen |-> <<9, 1>>]
KrAfAsdu == 10

(* kr_afmessage_EXT: the same with an extended address and a PAN. *)
KrAfExt == [addrMode |-> <<0, 1>>, dstAddr |-> <<1, 8>>,
            dstEndpoint |-> <<9, 1>>, dstPanId |-> <<10, 2>>,
            srcEndpoint |-> <<12, 1>>, clusterId |-> <<13, 2>>,
            tranSeqNum |-> <<15, 1>>, options |-> <<16, 1>>,
            radius |-> <<17, 1>>, asduLen |-> <<18, 2>>]
KrAfExtAsdu == 20

(* mt_afmessage: what the coordinator hands up.  The group is read as one    *)
(* byte of its two; what is not here reads as a constant.                    *)
MtAf == [groupId |-> <<0, 1>>, clusterId |-> <<2, 2>>, srcAddr |-> <<4, 2>>,
         srcEndpoint |-> <<6, 1>>, dstEndpoint |-> <<7, 1>>,
         linkQuality |-> <<9, 1>>, timeStamp |-> <<11, 4>>,
         tranSeqNum |-> <<15, 1>>, asduLen |-> <<16, 1>>]
MtAfAsdu == 17

(* mt_afmessage_EXT.  The length is read as two bytes at 26, of which the    *)
(* second is the first byte of the asdu.                                     *)
MtAfExt == [groupId |-> <<0, 1>>, clusterId |-> <<2, 2>>,
            addrMode |-> <<4, 1>>, srcAddr |-> <<5, 8>>,
            srcEndpoint |-> <<13, 1>>, srcPanId |-> <<14, 2>>,
            dstEndpoint |-> <<16, 1>>, linkQuality |-> <<18, 1>>,
            timeStamp |-> <<20, 4>>, tranSeqNum |-> <<24, 1>>,
            asduLen |-> <<26, 2>>]
MtAfExtAsdu == 27

(* The getter of a field. *)
Getter(layout, data, f) ==
  FromBytes(SubSeq(data, layout[f][1] + 1, layout[f][1] + layout[f][2]))

(* Its setter. *)
Setter(layout, data, f, x) ==
  [i \in DOMAIN data |->
     IF i \in layout[f][1] + 1 .. layout[f][1] + layout[f][2]
     THEN ToBytes(x, layout[f][2])[i - layout[f][1]]
     ELSE data[i]]

(* A message object: every setter called, in the given order, on zeroed data,*)
(* and the asdu written behind.                                              *)
Object(layout, at, m, order) ==
  FoldLeft(LAMBDA data, f : Setter(layout, data, f, m[f]),
           [i \in 1 .. at |-> 0], order) \o m.asdu
-----------------------------------------------------------------------------
(* MT commands.  A command is [type, id, len, pData]: mtMessage_t.           *)

Command(type, id, data) ==
  [type |-> type, id |-> id, len |-> Byte(Len(data)), pData |-> data]

(* MT_AfDataRequest() *)
MT_AfDataRequest(data) ==
  LET get(f) == Getter(KrAf, data, f) IN
  Command(36, 1,
    ToBytes(get("dstAddr"), 2)
      \o <<get("dstEndpoint"), get("srcEndpoint")>>
      \o ToBytes(get("clusterId"), 2)
      \o <<get("tranSeqNum"), get("options"), get("radius"), get("asduLen")>>
      \o SubSeq(data, KrAfAsdu + 1, KrAfAsdu + get("asduLen")))

(* dataRequest(): one byte more than was written. *)
DataRequestExt(data) ==
  LET get(f) == Getter(KrAfExt, data, f) IN
  Command(36, 2,
    <<get("addrMode")>> \o ToBytes(get("dstAddr"), 8) \o <<get("dstEndpoint")>>
      \o ToBytes(get("dstPanId"), 2) \o <<get("srcEndpoint")>>
      \o ToBytes(get("clusterId"), 2)
      \o <<get("tranSeqNum"), get("options"), get("radius")>>
      \o ToBytes(get("asduLen"), 2)
      \o SubSeq(data, KrAfExtAsdu + 1, KrAfExtAsdu + get("asduLen"))
      \o <<Junk>>)

(* The exclusive or of the first n bytes, n a uint8_t: a bit of it is set    *)
(* when an odd number of the bytes have it.                                  *)
CmdFCSCal(buf, n) ==
  LET bit(w) == w * (Cardinality({i \in 1 .. Byte(n) :
                                    (buf[i] \div w) % 2 = 1}) % 2)
  IN  bit(1) + bit(2) + bit(4) + bit(8) + bit(16) + bit(32) + bit(64) + bit(128)

(* MTBuildAndSendCmd(): the frame handed to SerialSend(). *)
MTBuildAndSendCmd(c) ==
  LET body == <<c.len, c.type, c.id>> \o SubSeq(c.pData, 1, c.len)
  IN  <<254>> \o body \o <<CmdFCSCal(body, c.len + 3)>>

(* What the coordinator (external) makes of a frame: its data, or nothing    *)
(* when the length or the check is wrong.                                    *)
Refused == [refused |-> TRUE]
Heard(frame) ==
  LET n == frame[2]
      body == SubSeq(frame, 2, 4 + n) IN
  IF Len(frame) = n + 5 /\ CmdFCSCal(body, n + 3) = frame[n + 5]
  THEN [type |-> frame[3], id |-> frame[4], data |-> SubSeq(frame, 5, 4 + n)]
  ELSE Refused
-----------------------------------------------------------------------------
(* The other commands, by the function that builds them. *)
mt_sysping_req         == Command(33, 1, << >>)
mt_sys_wdtkick_req     == Command(33, 68, << >>)
mt_getextaddr_req      == Command(33, 4, << >>)
mt_sysreset_req        == Command(33, 0, << >>)
register_endpoint_TI(ep, profile, device, ver) ==
  Command(36, 0, Join(<<1, 2, 2, 1, 1, 1, 1>>,
                      <<ep, profile, device, ver, 0, 0, 0>>))
register_interpan_cb_TI(ep) == Command(36, 16, <<2, ep>>)
interPanSet(ch)        == Command(36, 16, <<1, ch>>)
intraPanSet            == Command(36, 16, <<0>>)
PermitJoinReq(duration, significance) ==
  Command(37, 54, <<0, 0, duration, significance>>)
StartupFromAppReq      == Command(37, 64, <<0, 0>>)
mtUtilAssocGetWithAddress(ext) == Command(39, 74, ToBytes(ext, 8) \o <<0, 0>>)
mtUtilGetAssocCount    == Command(39, 72, <<0, Junk>>)     (* pData[1] is not set *)
mtUtilAssocFindDevice(index) == Command(39, 73, <<index>>)
mtUtilGetDeviceInfo    == Command(39, 0, << >>)
mtUtilAddrmgrNwkAddrLookup(nwk) == Command(39, 65, ToBytes(nwk, 2))
GetNvInfoReq           == Command(39, 1, << >>)

(* Their answers, by the function that reads them. *)
getAssocCount(b)   == FromBytes(SubSeq(b, 1, 2))
getAssocNwkAddr(b) == FromBytes(SubSeq(b, 1, 2))
getAssocExtAddr(b) == FromBytes(SubSeq(b, 1, 8))
getAssocInfo(b)    == Split(<<2, 2, 1, 1, 1, 1, 1, 1, 1, 1, 4, 2>>, b)
getDeviceInfo(b)   == <<b[1], FromBytes(SubSeq(b, 2, 9)),
                        FromBytes(SubSeq(b, 10, 11)), b[12], b[13], b[14]>>
GetNvInfo(b)       == Split(<<1, 8, 4, 2, 1>>, b)

(* The coordinator's non-volatile items. *)
NvLimit == 246
OsalNvRead(id, offset) == Command(33, 8, ToBytes(id, 2) \o <<offset>>)
OsalNvWrite(id, offset, value) ==
  IF Len(value) \in 1 .. NvLimit
  THEN Command(33, 9, ToBytes(id, 2) \o <<offset, Len(value)>> \o value)
  ELSE Refused

(* Mutant of NvItem: the length is taken for the first byte of the value. *)
NvItemEarly(b) == [status |-> b[1], value |-> SubSeq(b, 2, 1 + b[2])]

(* OsalNvRead()'s reading of the answer: [status, value]. *)
NvItem(b) == [status |-> b[1], value |-> SubSeq(b, 3, 2 + b[2])]

NIB == 33                                     (* the item 0x0021 *)
ChannelAt == 22
UpdateIdAt == 109
setNwkUpdateId(x) == OsalNvWrite(NIB, UpdateIdAt, <<x>>)
zcdStartupOptions(x) == OsalNvWrite(3, 0, <<x>>)
getChannel(b)     == NvItem(b).value[ChannelAt + 1]
getNwkUpdateId(b) == NvItem(b).value[UpdateIdAt + 1]

(* The coordinator (external): what a write leaves in an item, what a read   *)
(* of it answers.                                                            *)
NvStore(item, data) ==
  [i \in DOMAIN item |->
     IF i \in data[3] + 1 .. data[3] + data[4]
     THEN data[4 + i - data[3]] ELSE item[i]]
NvAnswer(item, data) ==
  LET rest == SubSeq(item, data[3] + 1, Len(item)) IN <<0, Len(rest)>> \o rest
-----------------------------------------------------------------------------
(* Hexadecimal text: sequences of character codes. *)

HexChar(n) == IF n < 10 THEN 48 + n ELSE 87 + n                   (* "%x" *)

kCharToInt(c) ==
  CASE c \in 48 .. 57  -> c - 48
    [] c \in 65 .. 70  -> c - 55
    [] c \in 97 .. 102 -> c - 87
    [] OTHER           -> 16

kByteToHexString(b) ==
  [i \in 1 .. 2 * Len(b) |->
     LET byte == b[(i + 1) \div 2] IN HexChar(IF i % 2 = 1 THEN byte \div 16 ELSE byte % 16)]

kIntToStr(x, n) == kByteToHexString(Reverse(ToBytes(x, n)))

(* From the last character backwards; a character that is no digit ends it.  *)
kStrToInt(s, n) ==
  IF \E i \in 1 .. 2 * n : kCharToInt(s[i]) > 15
  THEN [rtn |-> 0 - 1]
  ELSE [rtn |-> 2 * n,
        int |-> FromBytes([k \in 1 .. n |->
                  kCharToInt(s[2 * (n - k) + 2])
                    + 16 * kCharToInt(s[2 * (n - k) + 1])])]

(* JSON::toInteger() of a string: padded to whole bytes, at most eight. *)
toInteger(s) ==
  LET t == IF Len(s) % 2 = 1 THEN <<48>> \o s ELSE s
      half == Len(t) \div 2
  IN  kStrToInt(t, IF half < 8 THEN half ELSE 8)

(* One turn per character although each takes two: the second half of the    *)
(* bytes is what lies behind the string.                                     *)
hexStrToByteVec(s) ==
  LET size == Len(s) IN
  IF size % 2 = 1 THEN << >>
  ELSE [i \in 1 .. size |->
          IF 2 * i > size THEN Junk
          ELSE LET first == kCharToInt(s[2 * i - 1])
                   second == kCharToInt(s[2 * i])
               IN  Byte(IF HighFirst THEN 16 * first + second
                                     ELSE 16 * second + first)]
-----------------------------------------------------------------------------
(* Frames and descriptors of the device profile. *)

zdpHdr(cntr, nwk)             == <<cntr>> \o ToBytes(nwk, 2)
simple_desc_frm(cntr, nwk, e) == zdpHdr(cntr, nwk) \o <<e>>
Mgmt_Permit_Joining_req_frm(cntr, duration, tc) == <<cntr, duration, tc>>
Mgmt_Leave_req_frm(cntr, ieee) ==
  <<cntr>> \o ToBytes(ieee, 8) \o ToBytes(0, 8)

(* ZDO::APDU: an AF message to endpoint 0 of a device. *)
APDU(nwk, cluster, asdu) ==
  [dstAddr |-> nwk, dstEndpoint |-> 0, srcEndpoint |-> 0, clusterId |-> cluster,
   tranSeqNum |-> 0, options |-> 0, radius |-> 3, asduLen |-> Byte(Len(asdu)),
   asdu |-> asdu]
APDUSetters == <<"clusterId", "dstAddr", "dstEndpoint", "srcEndpoint", "options",
                 "tranSeqNum", "radius", "asduLen">>

(* Mutant of SimpleDesc: the out-clusters follow the in-clusters at once. *)
SimpleDescNoCount(b) ==
  LET in == b[7]
      list(from, n) == [i \in 1 .. n |->
                          FromBytes(SubSeq(b, from + 2 * i - 1, from + 2 * i))]
  IN  [endpoint |-> b[1], profile |-> FromBytes(SubSeq(b, 2, 3)),
       device |-> FromBytes(SubSeq(b, 4, 5)), version |-> b[6],
       in |-> list(7, in), out |-> list(7 + 2 * in, b[8 + 2 * in])]

(* message_preprocess_() and device_annce_proc()'s reading of an             *)
(* announcement, and the device's (external) writing of it.                  *)
AnnceLen == 12
Annce(asdu) ==
  IF Len(asdu) # AnnceLen THEN Refused
  ELSE LET x == Split(<<1, 2, 8, 1>>, asdu)
       IN  [nwkAddr |-> x[2], ieeeAddr |-> x[3], capability |-> x[4]]
AnnceAsdu(nwk, ieee) == Join(<<1, 2, 8, 1>>, <<0, nwk, ieee, 142>>)

(* simple_desc_req_apdu_process() *)
SimpleDesc(b) ==
  LET in == b[7]
      list(from, n) == [i \in 1 .. n |->
                          FromBytes(SubSeq(b, from + 2 * i - 1, from + 2 * i))]
  IN  [endpoint |-> b[1], profile |-> FromBytes(SubSeq(b, 2, 3)),
       device |-> FromBytes(SubSeq(b, 4, 5)), version |-> b[6],
       in |-> list(7, in), out |-> list(8 + 2 * in, b[8 + 2 * in])]

(* active_ep_req_apdu_process(): the endpoints a device lists. *)
ActiveEps(b) == SubSeq(b, 2, 1 + b[1])

(* A device (external) describes an endpoint, or lists its endpoints. *)
SimpleDescApdu(d) ==
  <<d.endpoint>> \o ToBytes(d.profile, 2) \o ToBytes(d.device, 2)
    \o <<d.version, Len(d.in)>> \o Join([i \in DOMAIN d.in |-> 2], d.in)
    \o <<Len(d.out)>> \o Join([i \in DOMAIN d.out |-> 2], d.out)
ActiveEpApdu(eps) == <<Len(eps)>> \o eps
-----------------------------------------------------------------------------
(* The longest asdu a frame can carry: CmdFCSCal()'s count is one byte.      *)
AfLimit    == 242
AfExtLimit == 231

(* What the 255 bytes of a message object leave for it. *)
ObjectRoom == 255 - KrAfAsdu
ExtRoom    == 255 - KrAfExtAsdu

Asdu(n) == [i \in 1 .. n |-> Byte(37 * i + 11)]

(* A message with n bytes of asdu and all its fields different. *)
Message(n) ==
  [APDU(513, 1284, Asdu(n)) EXCEPT !.dstEndpoint = 7, !.srcEndpoint = 8,
                                   !.tranSeqNum = 9, !.options = 48]
MessageExt(n) ==
  [addrMode |-> 3, dstAddr |-> 67305985, dstEndpoint |-> 7, dstPanId |-> 4386,
   srcEndpoint |-> 8, clusterId |-> 1284, tranSeqNum |-> 9, options |-> 48,
   radius |-> 30, asduLen |-> n, asdu |-> Asdu(n)]
ExtSetters == <<"asduLen", "radius", "options", "tranSeqNum", "clusterId",
                "srcEndpoint", "dstPanId", "dstEndpoint", "dstAddr", "addrMode">>

Sent(command) == Heard(MTBuildAndSendCmd(command))

(* The coordinator finds all of m at the offsets of the layout. *)
Carries(layout, at, data, m) ==
  /\ \A f \in DOMAIN layout : Getter(layout, data, f) = m[f]
  /\ SubSeq(data, at + 1, at + m.asduLen) = m.asdu

(* Commands of fixed length, with the data the coordinator is to find. *)
Simple ==
  {<<mt_sysping_req, << >>>>, <<mt_sys_wdtkick_req, << >>>>,
   <<mt_getextaddr_req, << >>>>, <<mt_sysreset_req, << >>>>,
   <<register_endpoint_TI(11, 260, 513, 2), <<11, 4, 1, 1, 2, 2, 0, 0, 0>>>>,
   <<register_interpan_cb_TI(12), <<2, 12>>>>, <<interPanSet(25), <<1, 25>>>>,
   <<intraPanSet, <<0>>>>, <<PermitJoinReq(60, 1), <<0, 0, 60, 1>>>>,
   <<StartupFromAppReq, <<0, 0>>>>,
   <<mtUtilAssocGetWithAddress(258), <<2, 1, 0, 0, 0, 0, 0, 0, 0, 0>>>>,
   <<mtUtilGetAssocCount, <<0, Junk>>>>, <<mtUtilAssocFindDevice(3), <<3>>>>,
   <<mtUtilGetDeviceInfo, << >>>>, <<GetNvInfoReq, << >>>>,
   <<mtUtilAddrmgrNwkAddrLookup(772), <<4, 3>>>>,
   <<zcdStartupOptions(3), <<3, 0, 0, 1, 3>>>>,
   <<OsalNvRead(NIB, 0), <<33, 0, 0>>>>}

(* What the coordinator (external) hands up of a message with n bytes. *)
Incoming(n) ==
  [groupId |-> 5, clusterId |-> 1284, srcAddr |-> 772, srcEndpoint |-> 7,
   dstEndpoint |-> 8, linkQuality |-> 200, timeStamp |-> 67305985,
   tranSeqNum |-> 9, asduLen |-> n, asdu |-> Asdu(n)]
IncomingExt(n) ==
  [f \in DOMAIN Incoming(n) \cup {"addrMode", "srcPanId"} |->
     CASE f = "addrMode" -> 3 [] f = "srcPanId" -> 4386 [] OTHER -> Incoming(n)[f]]

IncomingBytes(m) ==
  Join(<<2, 2, 2, 1, 1, 1, 1, 1, 4, 1, 1>>,
       <<m.groupId, m.clusterId, m.srcAddr, m.srcEndpoint, m.dstEndpoint, 0,
         m.linkQuality, 0, m.timeStamp, m.tranSeqNum, m.asduLen>>) \o m.asdu
IncomingExtBytes(m) ==
  Join(<<2, 2, 1, 8, 1, 2, 1, 1, 1, 1, 4, 1, 2>>,
       <<m.groupId, m.clusterId, m.addrMode, m.srcAddr, m.srcEndpoint,
         m.srcPanId, m.dstEndpoint, 0, m.linkQuality, 0, m.timeStamp,
         m.tranSeqNum, m.asduLen>>) \o m.asdu

(* loadStr() and the getters, for whoever handles the message. *)
ReceiveMessage(n) ==
  LET b == IncomingBytes(Incoming(n)) IN
  line' = [op |-> "in", message |-> Incoming(n), read |->
             [f \in DOMAIN MtAf |-> Getter(MtAf, b, f)],
           asdu |-> SubSeq(b, MtAfAsdu + 1, Len(b))]

ReceiveExt(n) ==
  LET b == IncomingExtBytes(IncomingExt(n)) IN
  line' = [op |-> "in", message |-> IncomingExt(n), read |->
             [f \in DOMAIN MtAfExt \ {"asduLen"} |-> Getter(MtAfExt, b, f)],
           asdu |-> SubSeq(b, MtAfExtAsdu + 1, Len(b))]

(* An announcement of n bytes, whole when n is AnnceLen. *)
ReceiveAnnce(n, x) ==
  line' = [op |-> "annce", n |-> n, nwkAddr |-> x,
           annce |-> Annce(SubSeq(AnnceAsdu(x, 67305985), 1, n))]

(* The requests of the device profile, to the device with address x. *)
Requests(x) ==
  {APDU(x, 2, zdpHdr(255, x)), APDU(x, 5, zdpHdr(0, x)),
   APDU(x, 4, simple_desc_frm(1, x, 11)),
   APDU(0, 54, Mgmt_Permit_Joining_req_frm(2, 60, 0)),
   APDU(0, 52, Mgmt_Leave_req_frm(3, x))}

SendRequest(m) ==
  line' = [op |-> "zdp", message |-> m, heard |->
             Sent(MT_AfDataRequest(Object(KrAf, KrAfAsdu, m, APDUSetters)))]

(* The host sends an AF message, of either kind, with n bytes of asdu. *)
SendMessage(n) ==
  line' = [op |-> "af", n |-> n, heard |->
             Sent(MT_AfDataRequest(
                    Object(KrAf, KrAfAsdu, Message(n), APDUSetters)))]

SendMessageExt(n) ==
  line' = [op |-> "ext", n |-> n, heard |->
             Sent(DataRequestExt(
                    Object(KrAfExt, KrAfExtAsdu, MessageExt(n), ExtSetters)))]

SendSimple(c) ==
  line' = [op |-> "simple", command |-> c[1], data |-> c[2], heard |-> Sent(c[1])]

(* It writes n bytes of an item, if OsalNvWrite() lets it. *)
WriteItem(n) ==
  /\ OsalNvWrite(NIB, 0, Asdu(n)) # Refused
  /\ line' = [op |-> "write", n |-> n,
              heard |-> Sent(OsalNvWrite(NIB, 0, Asdu(n)))]

(* It sets the update id and reads it, and the channel, back. *)
Item == [i \in 1 .. 116 |-> Byte(3 * i)]
ReadBack(item) == NvAnswer(item, Sent(OsalNvRead(NIB, 0)).data)

SetUpdateId(x) ==
  LET b == ReadBack(NvStore(Item, Sent(setNwkUpdateId(x)).data)) IN
  line' = [op |-> "nv", set |-> x, id |-> getNwkUpdateId(b),
           channel |-> getChannel(b)]

(* It reads the coordinator's tables, whose entries hold x. *)
ReadTables(x) ==
  LET assoc == <<x, 513, 1, 2, 3, 4, 5, 6, 7, 8, 67305985, x>>
      info == <<0, x, x, 7, 9, 1>>
      nv == <<0, x, 2048, x, 5>> IN
  line' = [op |-> "tables", tables |-> <<assoc, info, nv, x, x, x>>,
           read |-> <<getAssocInfo(Join(<<2, 2, 1, 1, 1, 1, 1, 1, 1, 1, 4, 2>>,
                                        assoc)),
                      getDeviceInfo(Join(<<1, 8, 2, 1, 1, 1>>, info)),
                      GetNvInfo(Join(<<1, 8, 4, 2, 1>>, nv)),
                      getAssocExtAddr(ToBytes(x, 8)),
                      getAssocNwkAddr(ToBytes(x, 2)),
                      getAssocCount(ToBytes(x, 2))>>]

(* It archives a descriptor, or an address, and reads it back. *)
ArchiveDesc(d) ==
  line' = [op |-> "desc", desc |-> d, parsed |-> SimpleDesc(SimpleDescApdu(d)),
           kept |-> SimpleDesc(hexStrToByteVec(
                      kByteToHexString(SimpleDescApdu(d))))]

ArchiveInt(x) ==
  LET text == kIntToStr(x, 2) IN
  line' = [op |-> "int", int |-> x, kept |-> toInteger(text),
           odd |-> toInteger(Tail(text)),
           bad |-> {kStrToInt([text EXCEPT ![i] = 71], 2).rtn : i \in 1 .. 4}]

UseLine ==
  /\ line = Unused
  /\ \/ \E n \in AsduLens : \/ n <= ObjectRoom /\ SendMessage(n)
                            \/ n <= ExtRoom /\ SendMessageExt(n)
                            \/ n <= AfLimit - 7 /\ ReceiveMessage(n)
                            \/ n <= AfExtLimit - 7 /\ ReceiveExt(n)
                            \/ WriteItem(n)
     \/ \E c \in Simple : SendSimple(c)
     \/ \E x \in Ints : \/ SetUpdateId(Byte(x)) \/ ReadTables(x) \/ ArchiveInt(x)
                        \/ \E n \in 0 .. AnnceLen : ReceiveAnnce(n, x)
                        \/ \E m \in Requests(x) : SendRequest(m)
     \/ \E d \in Described : ArchiveDesc(d)

CodecInit == line = Unused
CodecSpec == CodecInit /\ [][UseLine]_line

(***************************************************************************)
(* What the host sends is what the coordinator is told: every field of an  *)
(* AF message set by its setters arrives, in a frame whose length and      *)
(* check are right, for every asdu the one-byte length and the one-byte    *)
(* count of the check have room for; so do the other commands, and a write *)
(* of an item of every length OsalNvWrite() lets through.                  *)
(***************************************************************************)
FrameHeard ==
  /\ line.op = "af" /\ line.n <= AfLimit =>
       /\ line.heard # Refused /\ line.heard.type = 36 /\ line.heard.id = 1
       /\ Carries(KrAf, KrAfAsdu, line.heard.data, Message(line.n))
  /\ line.op = "ext" /\ line.n <= AfExtLimit =>
       /\ line.heard # Refused /\ line.heard.type = 36 /\ line.heard.id = 2
       /\ Carries(KrAfExt, KrAfExtAsdu, line.heard.data, MessageExt(line.n))
  /\ line.op = "write" =>
       /\ line.heard # Refused
       /\ SubSeq(line.heard.data, 5, 4 + line.n) = Asdu(line.n)
  /\ line.op = "zdp" => Carries(KrAf, KrAfAsdu, line.heard.data, line.message)
  /\ line.op = "simple" =>
       line.heard = [type |-> line.command.type, id |-> line.command.id,
                     data |-> line.data]

(***************************************************************************)
(* What the coordinator answers is what the host reads: the update id that *)
(* setNwkUpdateId() writes into the network item is the one                *)
(* getNwkUpdateId() reads back, the channel beside it stays, and the       *)
(* entries of the coordinator's tables are taken apart at their fields; so *)
(* are the messages it hands up, but for the length of an extended one;    *)
(* an announcement that is cut short is not taken for a device.            *)
(***************************************************************************)
AnswerTrue ==
  /\ line.op = "nv" => line.id = line.set /\ line.channel = Item[ChannelAt + 1]
  /\ line.op = "tables" => line.read = line.tables
  /\ line.op = "annce" =>
       IF line.n < AnnceLen THEN line.annce = Refused
       ELSE /\ line.annce.nwkAddr = line.nwkAddr
            /\ line.annce.ieeeAddr = 67305985
  /\ line.op = "in" => /\ \A f \in DOMAIN line.read :
                             line.read[f] = line.message[f]
                       /\ line.asdu = line.message.asdu

(***************************************************************************)
(* A device's descriptor and addresses survive the archive: what           *)
(* kByteToHexString() and kIntToStr() write, hexStrToByteVec() and         *)
(* toInteger() read back, and the parser finds in it what the device said; *)
(* a character that is no digit is noticed wherever it stands.             *)
(***************************************************************************)
DescriptorKept ==
  /\ line.op = "desc" => line.parsed = line.desc /\ line.kept = line.desc
  /\ line.op = "int" => /\ line.kept.rtn = 4 /\ line.kept.int = line.int
                        /\ line.odd.int = line.int % 4096
                        /\ line.bad = {0 - 1}
=============================================================================
