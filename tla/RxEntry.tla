-------------------------------- MODULE RxEntry --------------------------------
(***************************************************************************)
(* What becomes of one packet on the air: the data entry the RF core makes *)
(* of it, what the parser of the mode reads out of the entry (radio_if.c), *)
(* its classification (ll_manager.c), the payload of RSP_RX_PACKET         *)
(* (data_task.c) and the Packet the host's read_packets yields.            *)
(*                                                                         *)
(* A byte is known by what it is (the i-th of the PDU, the RSSI, ...); of  *)
(* its value only what a parser goes by is kept.                           *)
(***************************************************************************)
EXTENDS Naturals, Sequences, SequencesExt

CONSTANTS
    BleHeaders,     (* values of a BLE PDU's first byte                    *)
    BleLens,        (* of its length byte                                  *)
    BleChannels,    (* channel indices                                     *)
    IeeeLens,       (* PHY header of an IEEE 802.15.4 frame                *)
    PropLens,       (* bytes of a proprietary packet                       *)
    Channels,       (* numbers the host sets with SET_CHANNEL and SET_PHY  *)
    NoPacket

VARIABLES
    channel,    (* the number last set; s_channel is what the mode makes   *)
                (* of it (ChannelIn)                                       *)
    tuned,      (* the number whose channel the core receives on           *)
    stray,      (* the packet was stored while the two differed            *)
    air,        (* the packet on the air                                   *)
    entry,      (* entry_data of the finished data entry                   *)
    pkt,        (* the RadioIF_RxPacket                                    *)
    booked,     (* which counter the packet was booked in                  *)
    seen        (* the host's Packet                                       *)

entryVars == <<channel, tuned, stray, air, entry, pkt, booked, seen>>

(* A byte of an entry: what it is, and the value where one matters.        *)
Item == [what : {"len", "phr", "pdu", "crc", "rssi", "status", "time"}, i : Nat, value : Nat]

(* An advertising PDU names at least one device (6 bytes), and only an     *)
(* extended one (type 7) exceeds 37 bytes.                                 *)
BleAirs ==
    {a \in [phy : {"ble"}, head : BleHeaders, len : BleLens, ch : BleChannels, crc : BOOLEAN] :
        a.ch > 36 => a.len >= 6 /\ (a.len > 37 => a.head % 16 = 7)}

(* The channel a mode takes a number for: IEEE 802.15.4 has 11 to 26,      *)
(* takes 0 to 15 for them too and anything else for the first.             *)
IeeeChannel(c) == IF c \in 11 .. 26 THEN c ELSE IF c <= 15 THEN c + 11 ELSE 11
ChannelIn(phy, c) == IF phy = "ieee" THEN IeeeChannel(c) ELSE c

Airs ==
    BleAirs \cup
    [phy : {"ieee"}, head : {0}, len : IeeeLens, ch : {IeeeChannel(c) : c \in Channels},
     crc : BOOLEAN] \cup
    [phy : {"prop"}, head : {0}, len : PropLens, ch : Channels, crc : BOOLEAN]

(* Headers and lengths are bytes, an IEEE 802.15.4 frame has at most 127;  *)
(* no packet is not a packet.                                              *)
ASSUME RxEntryAssumption ==
    /\ BleHeaders \subseteq 0 .. 255 /\ BleLens \subseteq 0 .. 255
    /\ BleChannels \subseteq 0 .. 39 /\ Channels \subseteq Nat
    /\ IeeeLens \subseteq 0 .. 127 /\ PropLens \subseteq 0 .. 255
    /\ NoPacket \notin Airs
    /\ NoPacket \notin [data : Seq(Item), rssi : Item, time : Item, ch : Nat]

EntryInit ==
    /\ channel \in Channels /\ tuned = channel /\ stray = FALSE
    /\ air = NoPacket /\ entry = <<>> /\ pkt = NoPacket /\ booked = "no" /\ seen = NoPacket

-----------------------------------------------------------------------------
(* The channel.  A retune is a command of the RF task: it sets s_channel   *)
(* and resets the ring of entries, and only then flushes the core, which   *)
(* receives on the old channel until then.                                 *)

(* A ring reset leaves no entry that the parser has not seen.              *)
Wipe ==
    IF booked = "no" THEN air' = NoPacket /\ entry' = <<>> ELSE UNCHANGED <<air, entry>>

(* Fault: what lies in the ring is left for the parser.                    *)
SetChannelKeepsRing(c) ==
    /\ tuned = channel /\ c <= 255
    /\ channel' = c
    /\ UNCHANGED <<tuned, stray, air, entry, pkt, booked, seen>>

SetChannel(c) ==
    /\ tuned = channel /\ c <= 255
    /\ channel' = c
    /\ Wipe
    /\ UNCHANGED <<tuned, stray, pkt, booked, seen>>

(* The core's command is flushed and posted again for the new channel.     *)
Flush ==
    /\ tuned # channel
    /\ tuned' = channel
    /\ UNCHANGED <<channel, stray, air, entry, pkt, booked, seen>>

(* The same PHY on another channel; 0 leaves the channel as it is.  The    *)
(* receiver is stopped first, and a start makes the ring anew.             *)
SetPhy(c) ==
    /\ tuned = channel /\ c # 0
    /\ channel' = c /\ tuned' = c
    /\ Wipe
    /\ UNCHANGED <<stray, pkt, booked, seen>>

-----------------------------------------------------------------------------
(* The RF core.                                                            *)

B(what, i, value) == [what |-> what, i |-> i, value |-> value]
Bytes(what, n) == [i \in 1 .. n |-> B(what, i, 0)]

(* The PDU as it was sent: a BLE one is a header, its length and payload;  *)
(* an IEEE one begins with the PHY header.                                 *)
Pdu(a) ==
    CASE a.phy = "ble"  -> <<B("pdu", 1, a.head), B("pdu", 2, a.len)>>
                           \o [i \in 1 .. a.len |-> B("pdu", i + 2, 0)]
      [] a.phy = "ieee" -> <<B("phr", 1, a.len)>> \o Bytes("pdu", a.len)
      [] a.phy = "prop" -> Bytes("pdu", a.len)

(* What the RX configuration of each mode makes the core append; with      *)
(* bIncludeLenByte and bIncludeCrc, a BLE entry has layout B_crc.          *)
Appended(a) ==
    CASE a.phy = "ble"  -> Bytes("crc", 3) \o Bytes("rssi", 1)
                           \o <<B("status", 1, a.ch), B("status", 2, 0)>> \o Bytes("time", 4)
      [] a.phy = "ieee" -> Bytes("rssi", 1) \o Bytes("status", 1) \o Bytes("time", 4)
      [] a.phy = "prop" -> Bytes("status", 1) \o Bytes("rssi", 1) \o Bytes("time", 4)

Entry(a) ==
    (IF a.phy = "ble" THEN <<B("len", 1, a.len + 2)>> ELSE <<>>) \o Pdu(a) \o Appended(a)

Receive(a) ==
    /\ air = NoPacket
    /\ a.phy # "ble" => a.ch = ChannelIn(a.phy, tuned)
    /\ air' = a /\ entry' = Entry(a) /\ stray' = (tuned # channel)
    /\ UNCHANGED <<channel, tuned, pkt, booked, seen>>

-----------------------------------------------------------------------------
(* The parsers.  Indices count from 0, as in the code.                     *)

Mask6(value) == value % 64
Data(offset, n) == SubSeq(entry, offset + 1, offset + n)
ByteAt(i) == entry[i + 1]

Drop(counter) == booked' = counter /\ UNCHANGED pkt

(* A packet whose CRC is wrong is counted and dropped.                     *)
Keep(p) ==
    IF air.crc THEN booked' = "rx_ok" /\ pkt' = p ELSE Drop("rx_crc_err")

(* The four layouts in the order they are tried: the offset of the PDU and *)
(* the bytes after it.                                                     *)
Trials == <<<<0, 7>>, <<1, 7>>, <<0, 10>>, <<1, 10>>>>

PduLen(t)  == 2 + Mask6(ByteAt(t[1] + 1).value)
Matches(t) == t[1] + 1 < Len(entry) /\ t[1] + PduLen(t) + t[2] = Len(entry)

(* The layouts that fit; the first of them is taken.                       *)
Fits == {k \in DOMAIN Trials : Matches(Trials[k])}

ParseBle ==
    LET t == Trials[Min(Fits)]
        last == Len(entry) - 4
    IN IF Len(entry) < 9 \/ Fits = {} THEN Drop("rx_drop")
       ELSE Keep([data |-> Data(t[1], PduLen(t)),
                  rssi |-> ByteAt(last - 3), time |-> ByteAt(last),
                  ch |-> Mask6(ByteAt(last - 2).value)])

(* The other modes report s_channel as it is now, in one byte.             *)
OwnChannel == ChannelIn(air.phy, channel) % 256

ParseIeee ==
    IF Len(entry) <= 6 \/ 1 + ByteAt(0).value > Len(entry) - 6 THEN Drop("rx_drop")
    ELSE LET rssi == 1 + ByteAt(0).value
         IN Keep([data |-> Data(1, ByteAt(0).value),
                  rssi |-> ByteAt(rssi), time |-> ByteAt(rssi + 2), ch |-> OwnChannel])

MaxPacketData == 242

ParseProp ==
    IF Len(entry) <= 6 THEN Drop("rx_drop")
    ELSE LET n == Len(entry) - 6
         IN Keep([data |-> Data(0, IF n > MaxPacketData THEN MaxPacketData ELSE n),
                  rssi |-> ByteAt(n + 1), time |-> ByteAt(n + 2), ch |-> OwnChannel])

Parse ==
    /\ tuned = channel /\ entry # <<>> /\ booked = "no"
    /\ CASE air.phy = "ble" -> ParseBle [] air.phy = "ieee" -> ParseIeee
         [] air.phy = "prop" -> ParseProp
    /\ UNCHANGED <<channel, tuned, stray, air, entry, seen>>

-----------------------------------------------------------------------------
(* The link-layer manager.                                                 *)

AdvKind(type) ==
    CASE type \in {3, 4} -> "scan" [] type = 5 -> "connect"
      [] type \in {0, 1, 2, 6, 7} -> "adv" [] OTHER -> "unknown"

Kind(p) ==
    CASE air.phy # "ble"   -> "unclassified"
      [] p.ch \in 37 .. 39 -> AdvKind(p.data[1].value % 16)
      [] p.ch <= 36        -> IF p.data[1].value % 4 = 0 THEN "unknown" ELSE "data"
      [] OTHER             -> "unknown"

(* A BLE packet shorter than its length byte says is refused, and a longer *)
(* one cut.                                                                *)
LLRefuses(p) ==
    air.phy = "ble" /\ (Len(p.data) < 2 \/ 2 + Mask6(p.data[2].value) > Len(p.data))

LLCut(p) ==
    IF air.phy = "ble" THEN SubSeq(p.data, 1, 2 + Mask6(p.data[2].value)) ELSE p.data

-----------------------------------------------------------------------------
(* The report and what the host reads out of it.                           *)

MaxPayload == 255
MaxEmitData == MaxPayload - 13 - 3

Emitted(data) == IF Len(data) > MaxEmitData THEN SubSeq(data, 1, MaxEmitData) ELSE data

(* The payload is the packet's fields and data, one after the other.       *)
HostPacket(p) == [data |-> p.data, rssi |-> p.rssi, time |-> p.time, ch |-> p.ch]

Report ==
    /\ tuned = channel /\ pkt # NoPacket /\ seen = NoPacket /\ booked = "rx_ok"
    /\ IF LLRefuses(pkt)
       THEN booked' = "dropped_packets" /\ UNCHANGED seen
       ELSE /\ booked' = Kind(pkt)
            /\ seen' = HostPacket([pkt EXCEPT !.data = Emitted(LLCut(pkt))])
    /\ UNCHANGED <<channel, tuned, stray, air, entry, pkt>>

(* The packet has gone its way.                                            *)
Finished == booked \notin {"no", "rx_ok"}

NextPacket ==
    /\ Finished
    /\ air' = NoPacket /\ entry' = <<>> /\ pkt' = NoPacket /\ booked' = "no"
    /\ seen' = NoPacket /\ stray' = FALSE
    /\ UNCHANGED <<channel, tuned>>

EntryNext ==
    \/ \E c \in Channels : SetChannel(c) \/ SetPhy(c)
    \/ Flush
    \/ \E a \in Airs : Receive(a)
    \/ Parse \/ Report \/ NextPacket

EntrySpec == EntryInit /\ [][EntryNext]_entryVars

-----------------------------------------------------------------------------
(* Properties.                                                             *)

FirstOf(n, bytes) == SubSeq(bytes, 1, IF Len(bytes) < n THEN Len(bytes) ELSE n)

(* A received packet reaches the host with its own RSSI, time stamp and    *)
(* channel (of a number above 255 the low byte), whatever retunes come     *)
(* between storing, parsing and reporting it; the channel alone may be the *)
(* new one, in a mode whose parser asks s_channel, when the packet was     *)
(* stored between the reset and the flush of a retune.  In the modes that  *)
(* do not guess at a layout every good packet reaches it, with the bytes   *)
(* that were on the air, up to what a frame can carry; and in BLE mode     *)
(* parser and link-layer manager agree on the length, so that no packet is *)
(* dropped or cut between them.                                            *)
EntriesRead ==
    Finished =>
        /\ seen # NoPacket =>
              /\ seen.rssi.what = "rssi" /\ seen.time = B("time", 1, 0)
              /\ seen.ch = air.ch % 256 \/ (stray /\ air.phy # "ble")
        /\ air.phy \in {"ieee", "prop"} /\ air.crc /\ air.len > 0 =>
              /\ seen # NoPacket
              /\ seen.data = FirstOf(MaxEmitData, Bytes("pdu", air.len))
        /\ booked # "dropped_packets"
        /\ air.phy = "ble" /\ seen # NoPacket => seen.data = pkt.data

(* The entries of a scan have layout B_crc, and are read in that layout:   *)
(* the host gets the PDU that was sent.                                    *)
BleReadAsSent ==
    Finished /\ air.phy = "ble" /\ seen # NoPacket => seen.data = Pdu(air)
=============================================================================
