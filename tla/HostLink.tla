------------------------------- MODULE HostLink -------------------------------
(***************************************************************************)
(* The host library's calls (radio.py) over the serial link to the command *)
(* slot of the firmware (host_if_task.c): sequence numbers, the filter for *)
(* stale answers, the buffer of asynchronous events, timeouts, retries and *)
(* the device reset.                                                       *)
(*                                                                         *)
(* A frame is lost, or damaged on its way to the device, wherever the link *)
(* or a full response queue may do so.  A timeout may strike at any moment *)
(* of a wait: the firmware gives no bound on how long it takes to answer.  *)
(* Frames carry the number of the command they belong to (of), which the   *)
(* program does not see and the properties use.                            *)
(***************************************************************************)
EXTENDS Naturals, Sequences, FiniteSets

CONSTANTS
    SeqMod,     (* sequence numbers in use: 0xFF is reserved               *)
    InitTries,  (* attempts of init()                                      *)
    StopTries,  (* retries of stop_rx()                                    *)
    JamTries,   (* rounds of JAM_STOP in stop_jam() before TX_STOP         *)
    MaxFrames,  (* bound: commands sent; at most SeqMod + 1, so that only  *)
                (* the number 0 comes round again                          *)
    MaxFaults,  (* bound: frames lost or damaged                           *)
    MaxAsync,   (* bound: frames the device sends of its own accord        *)
    None

ASSUME LinkAssumption ==
    /\ SeqMod \in Nat \ {0} /\ InitTries \in Nat \ {0}
    /\ StopTries \in Nat \ {0} /\ JamTries \in Nat \ {0}
    /\ MaxFrames \in 0 .. SeqMod + 1
    /\ MaxFaults \in Nat /\ MaxAsync \in Nat

VARIABLES
    nextSeq,    (* _seq                                                    *)
    lastSeq,    (* _last_seq                                               *)
    call,       (* the call in progress, or None                           *)
    pending,    (* _pending_async                                          *)
    sent,       (* commands sent so far; the last one's number             *)
    toDev,      (* frames on their way to the UART task                    *)
    slot,       (* s_pending_frame while s_pending_ready, or None          *)
    toHost,     (* response queue and serial input buffer                  *)
    receiving,  (* the device is in reception                              *)
    rspSeq,     (* s_rx_rsp_seq                                            *)
    faults, asyncs,
    accepted,   (* history: the answer the last call returned, or None     *)
    quiet       (* history: stop_rx returned since the last RX_START, on an *)
                (* answer that carried a number other than 0               *)

host   == <<nextSeq, lastSeq, call, pending, sent, accepted, quiet>>
device == <<slot, receiving, rspSeq>>
bounds == <<faults, asyncs>>
vars   == <<host, device, toDev, toHost, bounds>>

Ops      == {"RADIO_INIT", "GET", "SET", "RX_START", "RX_STOP",
             "JAM_STOP", "TX_STOP"}

ASSUME NoneAssumption == None \notin Ops

Numbers  == 0 .. SeqMod - 1
Commands == [op : Ops, seq : Numbers, of : 1 .. MaxFrames]
Answers  == [rsp : {"ACK", "DATA", "ERROR", "RX_PACKET"}, seq : Numbers,
             of : 0 .. MaxFrames]
Kinds    == {"init", "get", "set", "start_rx", "stop_rx", "stop_jam", "read_packets"}
Calls    == [kind : Kinds, op : Ops \cup {None}, left : Nat]

TypeOK ==
    /\ nextSeq \in Numbers /\ lastSeq \in Numbers
    /\ call \in Calls \cup {None} /\ pending \in Seq(Answers)
    /\ sent \in 0 .. MaxFrames
    /\ toDev \in Seq(Commands) /\ slot \in Commands \cup {None}
    /\ toHost \in Seq(Answers)
    /\ receiving \in BOOLEAN /\ rspSeq \in Numbers
    /\ faults \in 0 .. MaxFaults /\ asyncs \in 0 .. MaxAsync
    /\ accepted \in Answers \cup {None} /\ quiet \in BOOLEAN

Init ==
    /\ nextSeq = 0 /\ lastSeq = 0 /\ call = None /\ pending = <<>> /\ sent = 0
    /\ toDev = <<>> /\ slot = None /\ toHost = <<>>
    /\ receiving = FALSE /\ rspSeq = 0
    /\ faults = 0 /\ asyncs = 0 /\ accepted = None /\ quiet = FALSE

-----------------------------------------------------------------------------
(* Sending commands.                                                       *)

(* Fault: the reserved number is not skipped.                              *)
NextSeqReserved(seq) == (seq + 1) % (SeqMod + 1)

NextSeq(seq) == (seq + 1) % SeqMod

(* _send_command as a step of a call with so many more attempts left       *)
Send(kind, op, left) ==
    /\ call' = [kind |-> kind, op |-> op, left |-> left]
    /\ lastSeq' = nextSeq
    /\ nextSeq' = NextSeq(nextSeq)
    /\ sent' = sent + 1
    /\ toDev' = Append(toDev, [op |-> op, seq |-> nextSeq, of |-> sent + 1])
    /\ quiet' = (quiet /\ op # "RX_START")

(* The commands a call may need, and the attempts that follow its first.   *)
Needs(kind) == CASE kind = "init"     -> InitTries + 1
                 [] kind = "stop_rx"  -> StopTries
                 [] kind = "stop_jam" -> JamTries + 1
                 [] OTHER             -> 1

FirstOp(kind) == CASE kind = "init"     -> "RADIO_INIT"
                   [] kind = "get"      -> "GET"
                   [] kind = "start_rx" -> "RX_START"
                   [] kind = "stop_rx"  -> "RX_STOP"
                   [] kind = "stop_jam" -> "JAM_STOP"
                   [] OTHER             -> "SET"

More(kind) == CASE kind = "init"     -> InitTries - 1
                [] kind = "stop_rx"  -> StopTries - 1
                [] kind = "stop_jam" -> JamTries - 1
                [] OTHER             -> 0

BeginCall ==
    /\ call = None
    /\ \E kind \in Kinds \ {"read_packets"} :
        /\ sent + Needs(kind) <= MaxFrames
        /\ Send(kind, FirstOp(kind), More(kind))
    /\ accepted' = None
    /\ UNCHANGED <<pending, device, toHost, bounds>>

BeginStream ==
    /\ call = None
    /\ call' = [kind |-> "read_packets", op |-> None, left |-> 0]
    /\ accepted' = None
    /\ UNCHANGED <<nextSeq, lastSeq, pending, sent, quiet, device, toDev, toHost, bounds>>

(* reset_device: the device restarts, the link is emptied, numbers start   *)
(* again at 0, and init() follows.                                         *)
ResetDevice ==
    /\ call = None /\ sent + Needs("init") <= MaxFrames
    /\ call' = [kind |-> "init", op |-> "RADIO_INIT", left |-> InitTries - 1]
    /\ lastSeq' = 0 /\ nextSeq' = NextSeq(0) /\ sent' = sent + 1
    /\ toDev' = <<[op |-> "RADIO_INIT", seq |-> 0, of |-> sent + 1]>>
    /\ pending' = <<>> /\ toHost' = <<>> /\ slot' = None
    /\ receiving' = FALSE /\ rspSeq' = 0
    /\ accepted' = None
    /\ UNCHANGED <<quiet, bounds>>

-----------------------------------------------------------------------------
(* How a call goes on.                                                     *)

Return == call' = None /\ UNCHANGED <<nextSeq, lastSeq, sent, toDev>>

(* stop_jam falls back to TX_STOP once its rounds are used up.             *)
NextJamStop ==
    IF call.op = "JAM_STOP"
    THEN IF call.left > 0 THEN Send("stop_jam", "JAM_STOP", call.left - 1)
                          ELSE Send("stop_jam", "TX_STOP", 0)
    ELSE Return /\ UNCHANGED quiet

Succeed(a) ==
    IF call.op = "RADIO_INIT"
    THEN Send("init", "GET", 0) /\ accepted' = accepted
    ELSE /\ Return
         /\ accepted' = a
         /\ quiet' = (quiet \/ (call.kind = "stop_rx" /\ a.seq # 0))

Fail ==
    /\ accepted' = accepted
    /\ IF call.kind = "stop_jam" THEN NextJamStop
                                 ELSE Return /\ UNCHANGED quiet

Conclude(a) == IF a.rsp = "ERROR" THEN Fail ELSE Succeed(a)

(* Fault: a retry does not use up an attempt.                              *)
GiveUpNever ==
    /\ accepted' = accepted
    /\ CASE call.kind = "stop_jam" -> NextJamStop
         [] call.kind = "stop_rx" /\ sent < MaxFrames ->
                Send(call.kind, call.op, call.left)
         [] call.op = "RADIO_INIT" /\ call.left > 0 ->
                Send(call.kind, call.op, call.left - 1)
         [] call.kind = "stop_rx" /\ sent = MaxFrames ->
                UNCHANGED <<call, nextSeq, lastSeq, sent, toDev, quiet>>
         [] OTHER -> Return /\ UNCHANGED quiet

GiveUp ==
    /\ accepted' = accepted
    /\ IF call.kind = "stop_jam" THEN NextJamStop
       ELSE IF call.op \in {"RADIO_INIT", "RX_STOP"} /\ call.left > 0
            THEN Send(call.kind, call.op, call.left - 1)
            ELSE Return /\ UNCHANGED quiet

-----------------------------------------------------------------------------
(* _read_response                                                          *)

InCommand == call # None /\ call.kind # "read_packets"
Expected  == {IF call.op = "GET" THEN "DATA" ELSE "ACK", "ERROR"}

Wanted == {i \in DOMAIN pending : pending[i].rsp \in Expected}

Without(s, i) == SubSeq(s, 1, i - 1) \o SubSeq(s, i + 1, Len(s))

(* What was buffered for the expected responses is taken before anything   *)
(* is read.                                                                *)
TakePending ==
    /\ InCommand
    /\ \E i \in Wanted :
        /\ \A j \in Wanted : i <= j
        /\ Conclude(pending[i])
        /\ pending' = Without(pending, i)
    /\ UNCHANGED <<device, toHost, bounds>>

Async(a) == a.rsp = "ERROR" /\ a.seq = 0

(* Fault: answers are not compared with the command's number.              *)
StaleNever(a) == FALSE

Stale(a) == a.seq # 0 /\ a.seq # lastSeq

Keep(a) == pending' = Append(pending, a)

Skip == UNCHANGED <<nextSeq, lastSeq, call, sent, accepted, quiet, toDev>>

(* A frame is read while a command waits: it answers, is buffered, or is   *)
(* ignored.                                                                *)
ReadAnswer ==
    /\ InCommand /\ Wanted = {} /\ toHost # <<>>
    /\ toHost' = Tail(toHost)
    /\ LET a == Head(toHost)
       IN \/ /\ Async(a) \/ (~Stale(a) /\ a.rsp \in Expected)
             /\ Conclude(a) /\ UNCHANGED pending
          \/ /\ ~Async(a) /\ (Stale(a) \/ a.rsp \notin Expected)
             /\ Skip
             /\ IF a.seq = 0 THEN Keep(a) ELSE UNCHANGED pending
    /\ UNCHANGED <<device, bounds>>

(* read_packets takes every frame as it comes and yields those it knows.   *)
ReadStream ==
    /\ call # None /\ call.kind = "read_packets" /\ toHost # <<>>
    /\ toHost' = Tail(toHost)
    /\ UNCHANGED <<host, device, toDev, bounds>>

(* The deadline passes; init() also empties the input buffer.              *)
Timeout ==
    /\ call # None
    /\ InCommand => Wanted = {}
    /\ GiveUp
    /\ toHost' = IF call.op = "RADIO_INIT" THEN <<>> ELSE toHost
    /\ UNCHANGED <<pending, device, bounds>>

-----------------------------------------------------------------------------
(* The device.                                                             *)

Answer(c, rsp, seq) ==
    toHost' = Append(toHost, [rsp |-> rsp, seq |-> seq, of |-> c.of])

(* HostIFTask_poll hands a frame to the RF task or refuses it as busy.     *)
Arrive ==
    /\ toDev # <<>>
    /\ toDev' = Tail(toDev)
    /\ IF slot = None
       THEN slot' = Head(toDev) /\ UNCHANGED toHost
       ELSE Answer(Head(toDev), "ERROR", 0) /\ UNCHANGED slot
    /\ UNCHANGED <<host, receiving, rspSeq, bounds>>

(* Fault: RX_STOP is answered but left for a later poll to carry out.      *)
ExecuteStopLater ==
    /\ slot # None
    /\ slot' = None
    /\ receiving' \in CASE slot.op = "RADIO_INIT" -> {FALSE}
                        [] slot.op = "RX_START"   -> {receiving, TRUE}
                        [] OTHER                  -> {receiving}
    /\ \/ Answer(slot, IF slot.op = "GET" THEN "DATA" ELSE "ACK", slot.seq)
       \/ slot.op \in {"SET", "RX_START"} /\ Answer(slot, "ERROR", slot.seq)
    /\ UNCHANGED <<host, toDev, rspSeq, bounds>>

(* The RF task carries out the command, answers it and frees the slot.     *)
Execute ==
    /\ slot # None
    /\ slot' = None
    /\ receiving' \in CASE slot.op \in {"RX_STOP", "RADIO_INIT"} -> {FALSE}
                        [] slot.op = "RX_START"                -> {receiving, TRUE}
                        [] OTHER                               -> {receiving}
    /\ \/ Answer(slot, IF slot.op = "GET" THEN "DATA" ELSE "ACK", slot.seq)
       \/ slot.op \in {"SET", "RX_START"} /\ Answer(slot, "ERROR", slot.seq)
    /\ UNCHANGED <<host, toDev, rspSeq, bounds>>

(* DataTask_emitRxPacket                                                   *)
EmitPacket ==
    /\ receiving /\ asyncs < MaxAsync
    /\ toHost' = Append(toHost, [rsp |-> "RX_PACKET", seq |-> rspSeq, of |-> 0])
    /\ rspSeq' = (rspSeq + 1) % SeqMod
    /\ asyncs' = asyncs + 1
    /\ UNCHANGED <<host, toDev, slot, receiving, faults>>

(* A transmission or the start of reception failed.                        *)
ReportFailure ==
    /\ asyncs < MaxAsync
    /\ toHost' = Append(toHost, [rsp |-> "ERROR", seq |-> 0, of |-> 0])
    /\ asyncs' = asyncs + 1
    /\ UNCHANGED <<host, toDev, device, faults>>

-----------------------------------------------------------------------------
(* The link.                                                               *)

LoseAnswer ==
    /\ toHost # <<>> /\ faults < MaxFaults
    /\ toHost' = Tail(toHost)
    /\ faults' = faults + 1
    /\ UNCHANGED <<host, device, toDev, asyncs>>

(* A damaged frame is refused with the number that can still be read in    *)
(* it, be it the right one; or nothing of it arrives.                      *)
DamageCommand ==
    /\ toDev # <<>> /\ faults < MaxFaults
    /\ toDev' = Tail(toDev)
    /\ \/ UNCHANGED toHost
       \/ \E seq \in Numbers : Answer(Head(toDev), "ERROR", seq)
    /\ faults' = faults + 1
    /\ UNCHANGED <<host, device, asyncs>>

-----------------------------------------------------------------------------
Next ==
    \/ BeginCall \/ BeginStream \/ ResetDevice
    \/ TakePending \/ ReadAnswer \/ ReadStream \/ Timeout
    \/ Arrive \/ Execute \/ EmitPacket \/ ReportFailure
    \/ LoseAnswer \/ DamageCommand

Spec == Init /\ [][Next]_vars

(* Only time is fair: a deadline passes, and what is buffered is taken.    *)
(* The device need never answer.                                           *)
FairSpec == Spec /\ WF_vars(Timeout) /\ WF_vars(TakePending)

-----------------------------------------------------------------------------
(* Properties.                                                             *)

(* A call succeeds only on the answer to its own last command, through     *)
(* timeouts, retries, late answers, damage and resets, as long as that     *)
(* answer does not carry the number 0, which every filter of               *)
(* _read_response lets pass.                                               *)
AnswerIsOwn ==
    accepted # None /\ accepted.seq # 0 /\ call = None => accepted.of = sent

(* Once stop_rx has returned (on a numbered answer) the device is not      *)
(* receiving, and no packet of the old session can still turn up, until    *)
(* the host sends RX_START again.                                          *)
QuietAfterStop ==
    quiet => /\ ~receiving
             /\ \A i \in DOMAIN toHost : toHost[i].rsp # "RX_PACKET"

(* Every call comes back, also if the device never answers.                *)
EveryCallReturns == call # None ~> call = None
=============================================================================
