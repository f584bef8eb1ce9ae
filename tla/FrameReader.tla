------------------------------ MODULE FrameReader ------------------------------
(***************************************************************************)
(* HostIFTask_poll byte by byte: it reads what has come over the line, at  *)
(* most a budget at a time, into a buffer that a frame may overrun, and    *)
(* hands each complete frame to the slot that the RF task empties.  What   *)
(* the bytes mean is FrameLine's matter; here they may be any.             *)
(***************************************************************************)
EXTENDS Naturals, Sequences, FiniteSets

CONSTANTS
    BufLen,     (* COBS_MAX_ENCODED                                        *)
    Budget,     (* HOST_IF_TASK_RX_BUDGET_PER_POLL                         *)
    None

ASSUME ReaderAssumption == BufLen \in Nat \ {0} /\ Budget \in Nat \ {0}

VARIABLES
    line,       (* bytes that have reached the UART and are not read yet   *)
    encoded,    (* s_encoded_frame up to s_encoded_len                     *)
    overflow,   (* s_overflow                                              *)
    slot,       (* s_pending_frame while s_pending_ready, or None          *)
    budget,     (* bytes this poll may still read, or None between polls   *)
    verdicts,   (* what the reader did with each frame                     *)
    consumed    (* history: the bytes read since the start                 *)

device     == <<encoded, overflow, slot, budget, verdicts>>
readerVars == <<line, device, consumed>>

Byte == 0 .. 255

ReaderInit ==
    /\ line = <<>> /\ encoded = <<>> /\ overflow = FALSE /\ slot = None
    /\ budget = None /\ verdicts = <<>> /\ consumed = <<>>

(* The line brings more bytes.                                             *)
Arrive(bytes) ==
    /\ line' = line \o bytes
    /\ UNCHANGED <<device, consumed>>

StartPoll ==
    /\ budget = None /\ line # <<>>
    /\ budget' = Budget
    /\ UNCHANGED <<line, encoded, overflow, slot, verdicts, consumed>>

EndPoll ==
    /\ budget # None
    /\ budget = 0 \/ line = <<>>
    /\ budget' = None
    /\ UNCHANGED <<line, encoded, overflow, slot, verdicts, consumed>>

(* A delimiter after more bytes than the buffer holds: an error, and the   *)
(* buffer starts afresh.                                                   *)
EndOverlong ==
    /\ overflow
    /\ overflow' = FALSE /\ encoded' = <<>>
    /\ verdicts' = Append(verdicts, "overlong")
    /\ UNCHANGED slot

EndNothing ==
    /\ ~overflow /\ encoded = <<>>
    /\ UNCHANGED <<overflow, encoded, verdicts, slot>>

(* A delimiter after a frame: into the slot, or the busy answer.           *)
EndFrame ==
    /\ ~overflow /\ encoded # <<>>
    /\ encoded' = <<>>
    /\ IF slot = None
       THEN slot' = encoded /\ verdicts' = Append(verdicts, "taken")
       ELSE verdicts' = Append(verdicts, "busy") /\ UNCHANGED slot
    /\ UNCHANGED overflow

(* Fault: the byte that does not fit any more ends the frame.              *)
CollectForgetsOverflow(byte) ==
    /\ encoded' = IF Len(encoded) < BufLen THEN Append(encoded, byte) ELSE <<>>
    /\ UNCHANGED <<overflow, verdicts, slot>>

Collect(byte) ==
    /\ IF Len(encoded) < BufLen
       THEN encoded' = (IF overflow THEN encoded ELSE Append(encoded, byte))
            /\ UNCHANGED overflow
       ELSE overflow' = TRUE /\ UNCHANGED encoded
    /\ UNCHANGED <<verdicts, slot>>

ReadByte ==
    /\ budget # None /\ budget # 0 /\ line # <<>>
    /\ IF Head(line) = 0 THEN EndOverlong \/ EndNothing \/ EndFrame ELSE Collect(Head(line))
    /\ line' = Tail(line) /\ budget' = budget - 1
    /\ consumed' = Append(consumed, Head(line))

(* The RF task has taken the frame and frees the slot.                     *)
FreeSlot ==
    /\ slot # None
    /\ slot' = None
    /\ UNCHANGED <<line, encoded, overflow, budget, verdicts, consumed>>

(* The reader alone: any bytes may come, and the slot be freed, at any     *)
(* time.  Every step of FrameLine is one of these or leaves all of this as *)
(* it is.                                                                  *)
ReaderNext ==
    \/ \E bytes \in Seq(Byte) : Arrive(bytes)
    \/ StartPoll \/ ReadByte \/ EndPoll \/ FreeSlot

ReaderSpec == ReaderInit /\ [][ReaderNext]_readerVars

-----------------------------------------------------------------------------
(* The runs of bytes between delimiters, as pairs of first and last index; *)
(* a run that no delimiter ends is not among them.                         *)
Runs(bytes) ==
    {r \in (DOMAIN bytes) \X (DOMAIN bytes) :
        /\ r[1] <= r[2] /\ \A i \in r[1] .. r[2] : bytes[i] # 0
        /\ r[1] = 1 \/ bytes[r[1] - 1] = 0
        /\ r[2] < Len(bytes) /\ bytes[r[2] + 1] = 0}

RunLen(r) == r[2] - r[1] + 1

(* A run is the how-manieth, of the runs up to it.                         *)
Place(runs, r) == Cardinality({q \in runs : q[1] <= r[1]})

(* The bytes after the last delimiter.                                     *)
Begun(bytes) ==
    CHOOSE i \in 0 .. Len(bytes) :
        /\ i = 0 \/ bytes[i] = 0
        /\ \A j \in i + 1 .. Len(bytes) : bytes[j] # 0
Partial(bytes) == SubSeq(bytes, Begun(bytes) + 1, Len(bytes))

(* The reader is resynchronised by every delimiter: whatever came before,  *)
(* however the bytes fell into polls and whenever the slot was emptied,    *)
(* each run of bytes between delimiters has had exactly one verdict, in    *)
(* their order, "overlong" just if it exceeds the buffer; the slot holds   *)
(* one of those taken; and the buffer holds the run that has begun.        *)
ReaderSplits ==
    LET runs == Runs(consumed)
        rest == Partial(consumed)
    IN /\ Len(verdicts) = Cardinality(runs)
       /\ \A r \in runs : verdicts[Place(runs, r)] = "overlong" <=> RunLen(r) > BufLen
       /\ slot # None => \E r \in runs : /\ verdicts[Place(runs, r)] = "taken"
                                         /\ slot = SubSeq(consumed, r[1], r[2])
       /\ overflow <=> Len(rest) > BufLen
       /\ encoded = SubSeq(rest, 1, IF overflow THEN BufLen ELSE Len(rest))
=============================================================================
