------------------------------- MODULE FrameLine -------------------------------
(***************************************************************************)
(* Frames on the serial link: the host writes a frame and a delimiter, the *)
(* reader (FrameReader) splits what has come and hands each complete frame *)
(* to the slot, where the RF task decodes it; and the other way, from      *)
(* OutputIF_sendResponse to what the host's _read_response makes of it.    *)
(* The line may lose or change a byte of a frame.                          *)
(***************************************************************************)
EXTENDS Wire, FrameReader, SequencesExt

CONSTANTS
    Frames,     (* the commands the host sends                             *)
    Answers,    (* the answers and packets the device sends                *)
    Noise,      (* the values a damaged byte may come to have              *)
    MaxSent,    (* bound: frames either way                                *)
    MaxFaults   (* bound: damaged frames                                   *)

(* The frames whose length the two bytes of its field can tell.            *)
Frame == {f \in [cmd : Byte, seq : Byte, payload : Seq(Byte)] : Len(f.payload) \div 256 \in Byte}

ASSUME FrameLineAssumption ==
    /\ Frames \subseteq Frame /\ Answers \subseteq Frame /\ Noise \subseteq Byte
    /\ MaxSent \in Nat /\ MaxFaults \in Nat

VARIABLES
    handled,    (* what the dispatcher made of each frame it was given     *)
    heard,      (* what the host made of each frame it received            *)
    sent,       (* history: the frames the host has sent                   *)
    answered,   (* history: the frames the device has sent                 *)
    faults      (* damaged frames so far                                   *)

endsVars == <<handled, heard, sent, answered, faults>>
lineVars == <<readerVars, endsVars>>

LineInit ==
    /\ ReaderInit
    /\ handled = {} /\ heard = {} /\ sent = {} /\ answered = {} /\ faults = 0

(* The wire form of every frame, computed once.                            *)
Delimited(bytes) == bytes \o <<0>>
ToDevice == [f \in Frames |-> Delimited(HostWire(f))]
ToHost   == [f \in Answers |-> Delimited(DeviceWire(f))]

(* What may arrive of some bytes: all of them, or with one lost or changed.*)
Damaged(bytes) ==
    {RemoveAt(bytes, i) : i \in DOMAIN bytes} \cup
    {[bytes EXCEPT ![i] = b] : i \in DOMAIN bytes, b \in Noise}

Arrivals(bytes) ==
    {<<bytes, 0>>} \cup
    (IF faults < MaxFaults THEN {<<d, 1>> : d \in Damaged(bytes) \ {bytes}} ELSE {})

Write(f) ==
    /\ Cardinality(sent) + Cardinality(answered) < MaxSent /\ f \notin sent
    /\ \E a \in Arrivals(ToDevice[f]) : Arrive(a[1]) /\ faults' = faults + a[2]
    /\ sent' = sent \cup {f}
    /\ UNCHANGED <<handled, heard, answered>>

(* The RF task decodes, parses and dispatches, and frees the slot.         *)
ProcessPendingCommand ==
    /\ FreeSlot
    /\ handled' = handled \cup {[raw |-> slot, got |-> parse_frame(cobs_decode(slot))]}
    /\ UNCHANGED <<heard, sent, answered, faults>>

-----------------------------------------------------------------------------
(* The device writes and the host reads.                                   *)

HostReads(run) == [raw |-> run, got |-> HostParse(HostDecode(run))]

SendResponse(f) ==
    /\ Cardinality(sent) + Cardinality(answered) < MaxSent /\ f \notin answered
    /\ \E a \in Arrivals(ToHost[f]) :
          /\ heard' = heard \cup {HostReads(SubSeq(a[1], r[1], r[2])) : r \in Runs(a[1])}
          /\ faults' = faults + a[2]
    /\ answered' = answered \cup {f}
    /\ UNCHANGED <<readerVars, handled, sent>>

LineNext ==
    \/ \E f \in Frames : Write(f)
    \/ (StartPoll \/ ReadByte \/ EndPoll) /\ UNCHANGED endsVars
    \/ ProcessPendingCommand
    \/ \E f \in Answers : SendResponse(f)

LineSpec == LineInit /\ [][LineNext]_lineVars

-----------------------------------------------------------------------------
(* Properties.                                                             *)

(* Nothing is taken for a frame, at either end, that the other end did not *)
(* send, whatever the line does to a byte.                                 *)
NothingForged ==
    /\ \A h \in handled : h.got.ok => h.got.frame \in sent
    /\ \A h \in heard : h.got.ok => h.got.frame \in answered

(* Bytes that are those of a frame are taken for that frame, whatever came *)
(* before or after them.  The ends have COBS coders and parsers of their   *)
(* own, so this is what each says of the other's.                          *)
UndamagedRead ==
    /\ \A h \in handled, f \in sent :
          Delimited(h.raw) = ToDevice[f] => h.got = [ok |-> TRUE, frame |-> f]
    /\ \A h \in heard, f \in answered :
          Delimited(h.raw) = ToHost[f] => h.got = [ok |-> TRUE, frame |-> f]

(* What the device sends over a clean line, the host hears.                *)
AnswersHeard ==
    faults = 0 => \A f \in answered : \E h \in heard : h.got = [ok |-> TRUE, frame |-> f]

FramesArrive == NothingForged /\ UndamagedRead /\ AnswersHeard
=============================================================================
