-------------------------------- MODULE RxPath --------------------------------
(***************************************************************************)
(* The way of a received packet (radio_if.c, data_task.c): the RF core     *)
(* stores it in a ring of data entries, the RF driver's callback raises a  *)
(* flag, RadioIF_poll moves finished entries to a queue of packets, and    *)
(* DataTask_poll hands those to the host.                                  *)
(*                                                                         *)
(* The RF core and the callback preempt the RF task anywhere.  The task is *)
(* therefore cut where they share something with it: the event flags, the  *)
(* posted RX command, and each word of the ring, which a reset rewrites    *)
(* entry by entry while the core may go on storing.  A packet is its       *)
(* number on the air; what its entry holds shows when the entry is parsed. *)
(***************************************************************************)
EXTENDS Naturals, Sequences, FiniteSets

CONSTANTS
    Entries,    (* RF_QUEUE_NUM_DATA_ENTRIES                               *)
    QueueDepth, (* RADIO_IF_RX_QUEUE_DEPTH                                 *)
    MaxPkts,    (* max_pkts of DataTask_poll                               *)
    SeqReserved,(* the sequence number kept for errors (0xFF)              *)
    MaxAir,     (* bound: packets the RF core stores                       *)
    MaxTunes,   (* bound: channel hops, retunes and starts                 *)
    None        (* an entry that is DATA_ENTRY_PENDING                     *)

ASSUME RxAssumption ==
    /\ Entries \in Nat \ {0} /\ QueueDepth \in Nat \ {0}
    /\ MaxPkts \in Nat \ {0} /\ SeqReserved \in Nat \ {0}
    /\ MaxAir \in Nat /\ MaxTunes \in Nat

VARIABLES
    mode,       (* s_rf_mode; 433 MHz, where a start does not flush, apart *)
    ring,       (* per entry: the packet it was FINISHED with, or None     *)
    cur,        (* s_rf_data_queue.pCurrEntry, where the core writes       *)
    rd,         (* s_rf_read_entry                                         *)
    at,         (* the entry that the loop of a reset is at                *)
    left,       (* entries that loop has still to clear                    *)
    cmds,       (* RX commands posted and not ended; the first receives    *)
    handle,     (* s_rf_rx_cmd is the handle of the last of them           *)
    flags,      (* s_rf_event_flags                                        *)
    pc,         (* where the RF task is                                    *)
    seen,       (* the local copy `events' of RadioIF_poll                 *)
    budget,     (* packets this DataTask_poll may still pop                *)
    queue,      (* s_rx_queue from tail to head                            *)
    metrics,    (* s_metrics                                               *)
    llDrops,    (* LLManager's s_dropped_packets                           *)
    rspSeq,     (* s_rx_rsp_seq                                            *)
    out,        (* RSP_RX_PACKET frames, in the order they were sent       *)
    air,        (* packets the core has stored so far                      *)
    tunes,      (* hops, retunes and starts so far                         *)
    wiped,      (* history: stored packets a reset threw away              *)
    raced,      (* history: a stopped receiver's full event was erased     *)
                (* unseen, or a post of the RX command failed              *)
    slipped,    (* history: the core stored a packet while the ring was    *)
                (* last being rewritten                                    *)
    astray      (* history: the packets stored from such a one on, until   *)
                (* the ring was rewritten again                            *)

core   == <<ring, cur, cmds, handle>>
loop   == <<rd, at, left, slipped>>
host   == <<queue, metrics, llDrops, rspSeq, out>>
history == <<wiped, raced, astray>>
vars   == <<mode, core, loop, flags, pc, seen, budget, host, air, tunes, history>>

Kinds   == {"good", "crc_error", "malformed"}
Packets == [id : 1 .. MaxAir]

ASSUME NoneAssumption == None \notin Packets

Modes   == {"ble", "ieee", "sub1ghz", "sub433"}
Index   == 0 .. Entries - 1
Next1(i) == (i + 1) % Entries

TypeOK ==
    /\ mode \in {"none"} \cup Modes
    /\ ring \in [Index -> Packets \cup {None}] /\ cur \in Index /\ rd \in Index
    /\ at \in Index /\ left \in 0 .. Entries
    /\ cmds \in Nat /\ handle \in BOOLEAN
    /\ flags \subseteq {"done", "full"} /\ seen \subseteq {"done", "full"}
    /\ pc \in {"idle", "create", "post", "start", "clear", "overflow", "rearm",
              "retune", "entries", "turn", "hop", "drain"}
    /\ budget \in 0 .. MaxPkts
    /\ queue \in Seq(Packets) /\ Len(queue) <= QueueDepth
    /\ metrics \in [rx_ok : 0 .. MaxAir, rx_crc_err : 0 .. MaxAir,
                    rx_drop : 0 .. MaxAir, rx_overflow : Nat]
    /\ llDrops \in 0 .. MaxAir /\ rspSeq \in 0 .. SeqReserved - 1
    /\ out \in Seq([id : 1 .. MaxAir, seq : 0 .. SeqReserved - 1])
    /\ air \in 0 .. MaxAir /\ tunes \in 0 .. MaxTunes
    /\ wiped \subseteq 1 .. MaxAir /\ raced \in BOOLEAN
    /\ slipped \in BOOLEAN /\ astray \subseteq 1 .. MaxAir

Init ==
    /\ mode = "none" /\ ring = [i \in Index |-> None] /\ cur = 0 /\ rd = 0
    /\ at = 0 /\ left = 0
    /\ cmds = 0 /\ handle = FALSE /\ flags = {} /\ pc = "idle" /\ seen = {}
    /\ budget = 0 /\ queue = <<>>
    /\ metrics = [rx_ok |-> 0, rx_crc_err |-> 0, rx_drop |-> 0,
                  rx_overflow |-> 0]
    /\ llDrops = 0 /\ rspSeq = 0 /\ out = <<>>
    /\ air = 0 /\ tunes = 0 /\ wiped = {} /\ raced = FALSE
    /\ slipped = FALSE /\ astray = {}

Running == mode # "none"
Held    == {ring[i].id : i \in {j \in Index : ring[j] # None}}
Queued  == {queue[i].id : i \in DOMAIN queue}
Sent    == {out[i].id : i \in DOMAIN out}

-----------------------------------------------------------------------------
(* The RF core and the callback.                                           *)

(* The task rewrites the ring: a loop is clearing it, or has cleared it    *)
(* and the pointers are still to be put to its first entry.                *)
Rewriting == left > 0 \/ pc = "create"

(* A packet fits into the current entry; the callback notes the event.     *)
Store ==
    /\ cmds > 0 /\ ring[cur] = None /\ air < MaxAir
    /\ ring' = [ring EXCEPT ![cur] = [id |-> air + 1]]
    /\ cur' = Next1(cur)
    /\ air' = air + 1
    /\ flags' = flags \cup {"done"}
    /\ slipped' = (slipped \/ Rewriting)
    /\ astray' = IF slipped' THEN astray \cup {air + 1} ELSE astray
    /\ UNCHANGED <<mode, rd, at, left, cmds, handle, pc, seen, budget, host, tunes,
                   wiped, raced>>

(* RadioIF_rfCallback on RF_EventRxBufFull: but for BLE it cancels the     *)
(* command it knows of.                                                    *)
Cancelled == IF handle /\ mode # "ble" THEN cmds - 1 ELSE cmds

(* Without the callback the command that finds no room may end or go on;   *)
(* that of IEEE 802.15.4 goes on.                                          *)
BufferFull ==
    /\ cmds > 0 /\ ring[cur] # None
    /\ \E ended \in IF mode = "ieee" THEN {0} ELSE {0, 1} :
           cmds' = IF Cancelled >= ended THEN Cancelled - ended ELSE 0
    /\ handle' = (handle /\ cmds' = cmds)
    /\ flags' = flags \cup {"full"}
    /\ UNCHANGED <<mode, ring, cur, loop, pc, seen, budget, host, air, tunes, history>>

-----------------------------------------------------------------------------
(* Resets and posts of the RF task.                                        *)

(* Fault: the core's entry pointer is not put back.                        *)
ResetRfDataQueueKeepsCurrent ==
    /\ rd' = 0
    /\ at' = rd /\ left' = Entries
    /\ slipped' = FALSE
    /\ UNCHANGED cur

(* The pointers first; the loop then starts at the old read entry.         *)
ResetRfDataQueue ==
    /\ cur' = 0 /\ rd' = 0
    /\ at' = rd /\ left' = Entries
    /\ slipped' = FALSE

(* One round of the loop, of a reset or of RadioIF_createRfDataQueue.      *)
ClearEntry ==
    /\ left > 0
    /\ ring' = [ring EXCEPT ![at] = None]
    /\ wiped' = IF ring[at] = None THEN wiped ELSE wiped \cup {ring[at].id}
    /\ left' = left - 1
    /\ at' = IF left = 1 THEN 0 ELSE Next1(at)
    /\ UNCHANGED <<mode, cur, rd, cmds, handle, flags, pc, seen, budget, host, air,
                   tunes, raced, slipped, astray>>

(* RadioIF_runFsAndPostRx after a flush, or the bare post for IEEE.        *)
PostAfter(rest) ==
    \/ cmds' = rest + 1 /\ handle' = TRUE /\ raced' = raced
    \/ cmds' = rest /\ handle' = FALSE /\ raced' = TRUE

(* RX_START, also while receiving: the queue of packets is dropped and the *)
(* ring is made anew under the eyes of the core.  After a restart that     *)
(* failed on 433 MHz the command before it may still be running.           *)
StartRx ==
    /\ pc = "idle" /\ tunes < MaxTunes
    /\ mode' \in Modes
    /\ Running => mode' = mode
    /\ ~Running /\ cmds > 0 => mode' = "sub433"
    /\ queue' = <<>> /\ wiped' = wiped \cup Queued
    /\ at' = 0 /\ left' = Entries /\ slipped' = FALSE
    /\ pc' = "create"
    /\ tunes' = tunes + 1
    /\ UNCHANGED <<core, rd, flags, seen, budget, metrics, llDrops, rspSeq, out, air,
                   raced, astray>>

(* Here the pointers come last.                                            *)
Created ==
    /\ pc = "create" /\ left = 0
    /\ cur' = 0 /\ rd' = 0
    /\ pc' = "post"
    /\ UNCHANGED <<mode, ring, cmds, handle, at, left, slipped, flags, seen, budget,
                   host, air, tunes, history>>

(* RadioIF_switchRfMode flushes but for 433 MHz, then FS and RX are posted. *)
PostRx ==
    /\ pc = "post"
    /\ LET rest == IF mode = "sub433" THEN cmds ELSE 0
       IN \/ cmds' = rest + 1 /\ handle' = TRUE /\ mode' = mode /\ pc' = "start"
          \/ cmds' = rest /\ handle' = FALSE /\ mode' = "none" /\ pc' = "idle"
    /\ UNCHANGED <<ring, cur, loop, flags, seen, budget, host, air, tunes, history>>

(* Flags that are cleared unread tell of a receiver that stopped.          *)
DeadOn(unread) == cmds = 0 /\ "full" \in unread

(* The flags are cleared once it is receiving.                             *)
StartedRx ==
    /\ pc = "start"
    /\ flags' = {}
    /\ raced' = (raced \/ DeadOn(flags))
    /\ pc' = "idle"
    /\ UNCHANGED <<mode, core, loop, seen, budget, host, air, tunes, wiped, astray>>

(* RadioIF_stopRfBackend: cancel and flush, and only then the reset, which *)
(* nobody can interrupt.                                                   *)
StopBackend ==
    /\ mode' = "none" /\ cmds' = 0 /\ handle' = FALSE /\ flags' = {}
    /\ ring' = [i \in Index |-> None] /\ cur' = 0 /\ rd' = 0 /\ slipped' = FALSE

(* RadioIF_stopRx                                                          *)
StopRx ==
    /\ pc = "idle" /\ Running
    /\ StopBackend
    /\ queue' = <<>>
    /\ wiped' = wiped \cup Held \cup Queued
    /\ UNCHANGED <<at, left, pc, seen, budget, metrics, llDrops, rspSeq, out, air,
                   tunes, raced, astray>>

(* RadioIF_setPhy stops reception too, but the packets queued stay there.  *)
SetPhy ==
    /\ pc = "idle"
    /\ StopBackend
    /\ wiped' = wiped \cup Held
    /\ UNCHANGED <<at, left, pc, seen, budget, host, air, tunes, raced, astray>>

(* SET_CHANNEL while receiving: RadioIF_restartRfRx between two polls.     *)
SetChannel ==
    /\ pc = "idle" /\ Running /\ tunes < MaxTunes
    /\ ResetRfDataQueue
    /\ tunes' = tunes + 1
    /\ pc' = "retune"
    /\ UNCHANGED <<mode, ring, cmds, handle, flags, seen, budget, host, air, history>>

Retuned ==
    /\ pc = "retune" /\ left = 0
    /\ PostAfter(0)
    /\ pc' = "idle"
    /\ UNCHANGED <<mode, ring, cur, loop, flags, seen, budget, host, air, tunes,
                   wiped, astray>>

-----------------------------------------------------------------------------
(* RadioIF_poll                                                            *)

PollRead ==
    /\ pc = "idle" /\ Running
    /\ seen' = flags
    /\ pc' = "clear"
    /\ UNCHANGED <<mode, core, loop, flags, budget, host, air, tunes, history>>

(* RadioIF_poll returns at once if reception is off; what was queued       *)
(* before is handed over all the same.                                     *)
PollOff ==
    /\ pc = "idle" /\ ~Running /\ queue # <<>>
    /\ budget' = MaxPkts
    /\ pc' = "drain"
    /\ UNCHANGED <<mode, core, loop, flags, seen, host, air, tunes, history>>

(* Fault: entries are looked at only if the event was seen.                *)
PollClearTrustsEvent ==
    /\ pc = "clear"
    /\ flags' = {} /\ seen' = {}
    /\ raced' = (raced \/ DeadOn(flags \ seen))
    /\ pc' = CASE "full" \in seen -> "overflow"
               [] seen = {"done"} -> "entries"
               [] OTHER           -> "turn"
    /\ budget' = MaxPkts
    /\ UNCHANGED <<mode, core, loop, host, air, tunes, wiped, astray>>

(* Entries are drained whether or not their event was seen.                *)
PollClear ==
    /\ pc = "clear"
    /\ flags' = {} /\ seen' = {}
    /\ raced' = (raced \/ DeadOn(flags \ seen))
    /\ pc' = IF "full" \in seen THEN "overflow" ELSE "entries"
    /\ budget' = MaxPkts
    /\ UNCHANGED <<mode, core, loop, host, air, tunes, wiped, astray>>

(* Fault: the overflow is counted but reception is not set going again.    *)
OverflowOnlyCounts ==
    /\ pc = "overflow"
    /\ metrics' = [metrics EXCEPT !.rx_overflow = @ + 1]
    /\ pc' = "entries"
    /\ UNCHANGED <<mode, core, loop, flags, seen, budget, queue, llDrops, rspSeq,
                   out, air, tunes, history>>

(* The ring is reset before what it holds is read.                         *)
Overflow ==
    /\ pc = "overflow"
    /\ metrics' = [metrics EXCEPT !.rx_overflow = @ + 1]
    /\ ResetRfDataQueue
    /\ pc' = "rearm"
    /\ UNCHANGED <<mode, ring, cmds, handle, flags, seen, budget, queue, llDrops,
                   rspSeq, out, air, tunes, history>>

(* IEEE: RadioIF_rearmIeee154RxAfterOverflow, which does not flush.        *)
Rearm ==
    /\ pc = "rearm" /\ left = 0
    /\ PostAfter(IF mode = "ieee" THEN cmds ELSE 0)
    /\ pc' = "entries"
    /\ UNCHANGED <<mode, ring, cur, loop, flags, seen, budget, host, air, tunes,
                   wiped, astray>>

HasPacket == ring[rd] # None

Counter(k) == CASE k = "crc_error" -> "rx_crc_err"
                [] k = "malformed" -> "rx_drop"
                [] OTHER -> IF Len(queue) < QueueDepth THEN "rx_ok"
                                                       ELSE "rx_drop"

(* Fault: a packet that finds the queue full is not counted.               *)
ProcessSilently ==
    /\ pc = "entries" /\ HasPacket
    /\ \E kind \in Kinds :
          /\ metrics' = IF Counter(kind) = "rx_drop" /\ kind = "good"
                        THEN metrics ELSE [metrics EXCEPT ![Counter(kind)] = @ + 1]
          /\ queue' = IF Counter(kind) = "rx_ok" THEN Append(queue, ring[rd])
                                                 ELSE queue
    /\ ring' = [ring EXCEPT ![rd] = None]
    /\ rd' = Next1(rd)
    /\ UNCHANGED <<mode, cur, cmds, handle, at, left, slipped, flags, pc, seen,
                   budget, llDrops, rspSeq, out, air, tunes, history>>

(* One round of the loops in RadioIF_process...Packets                     *)
Process ==
    /\ pc = "entries" /\ HasPacket
    /\ \E kind \in Kinds :
          /\ metrics' = [metrics EXCEPT ![Counter(kind)] = @ + 1]
          /\ queue' = IF Counter(kind) = "rx_ok" THEN Append(queue, ring[rd])
                                                 ELSE queue
    /\ ring' = [ring EXCEPT ![rd] = None]
    /\ rd' = Next1(rd)
    /\ UNCHANGED <<mode, cur, cmds, handle, at, left, slipped, flags, pc, seen,
                   budget, llDrops, rspSeq, out, air, tunes, history>>

EntriesDone ==
    /\ pc = "entries" /\ ~HasPacket
    /\ pc' = "turn"
    /\ UNCHANGED <<mode, core, loop, flags, seen, budget, host, air, tunes, history>>

(* RadioIF_advanceBleHopChannel, when the dwell time of a channel is over; *)
(* what the core has finished since the last look is lost.                 *)
Hop ==
    /\ pc = "turn" /\ mode = "ble" /\ tunes < MaxTunes
    /\ ResetRfDataQueue
    /\ tunes' = tunes + 1
    /\ pc' = "hop"
    /\ UNCHANGED <<mode, ring, cmds, handle, flags, seen, budget, host, air, history>>

Hopped ==
    /\ pc = "hop" /\ left = 0
    /\ PostAfter(0)
    /\ pc' = "drain"
    /\ UNCHANGED <<mode, ring, cur, loop, flags, seen, budget, host, air, tunes,
                   wiped, astray>>

(* It is not over, or this mode does not hop.                              *)
Stay ==
    /\ pc = "turn"
    /\ pc' = "drain"
    /\ UNCHANGED <<mode, core, loop, flags, seen, budget, host, air, tunes, history>>

-----------------------------------------------------------------------------
(* DataTask_poll hands packets over, a bounded number per round.           *)

(* Fault: the reserved number is skipped one packet too late.              *)
NextSeqLate == IF rspSeq = SeqReserved THEN 0 ELSE rspSeq + 1

NextSeq == IF rspSeq + 1 = SeqReserved THEN 0 ELSE rspSeq + 1

(* DataTask_emitRxPacket                                                   *)
Emit(p) ==
    /\ out' = Append(out, [id |-> p.id, seq |-> rspSeq])
    /\ rspSeq' = NextSeq
    /\ UNCHANGED llDrops

(* LLManager_processRxPacket may refuse a packet in the BLE profile, which *)
(* is that of the PHY chosen, also while reception is off.                 *)
Refuse ==
    /\ mode \in {"ble", "none"}
    /\ llDrops' = llDrops + 1
    /\ UNCHANGED <<out, rspSeq>>

Deliver ==
    /\ pc = "drain" /\ budget > 0 /\ queue # <<>>
    /\ queue' = Tail(queue)
    /\ budget' = budget - 1
    /\ Emit(Head(queue)) \/ Refuse
    /\ UNCHANGED <<mode, core, loop, flags, pc, seen, metrics, air, tunes, history>>

EndPoll ==
    /\ pc = "drain" /\ (budget = 0 \/ queue = <<>>)
    /\ pc' = "idle" /\ budget' = 0
    /\ UNCHANGED <<mode, core, loop, flags, seen, host, air, tunes, history>>

-----------------------------------------------------------------------------
Poll == PollRead \/ PollOff \/ PollClear \/ Overflow \/ Rearm \/ Process
        \/ EntriesDone \/ Hop \/ Hopped \/ Stay \/ Deliver \/ EndPoll

Command == StartRx \/ Created \/ PostRx \/ StartedRx \/ StopRx \/ SetPhy
           \/ SetChannel \/ Retuned

Next == Store \/ BufferFull \/ ClearEntry \/ Poll \/ Command

Spec == Init /\ [][Next]_vars

(* The RF task polls for ever; a poll comes to its end and a command does. *)
(* Nothing is assumed of the air, of the callback's timing or of the host. *)
Fairness ==
    /\ WF_vars(PollRead) /\ WF_vars(PollOff) /\ WF_vars(PollClear)
    /\ WF_vars(Overflow) /\ WF_vars(Rearm) /\ WF_vars(Process)
    /\ WF_vars(EntriesDone) /\ WF_vars(Stay) /\ WF_vars(Hopped)
    /\ WF_vars(Deliver) /\ WF_vars(EndPoll) /\ WF_vars(ClearEntry)
    /\ WF_vars(Created) /\ WF_vars(PostRx) /\ WF_vars(StartedRx)
    /\ WF_vars(Retuned)

FairSpec == Spec /\ Fairness

-----------------------------------------------------------------------------
(* Properties.                                                             *)

(* The ring can be read as a line: nobody is rewriting it, and the core    *)
(* stored nothing while it was last rewritten.                             *)
Legible == ~slipped /\ ~Rewriting

(* What the ring holds, from the oldest entry on.                          *)
Fill    == Cardinality({i \in Index : ring[i] # None})
RingIds == [k \in 1 .. Fill |-> IF ring[(rd + k - 1) % Entries] = None THEN 0
                                ELSE ring[(rd + k - 1) % Entries].id]

Line == [i \in DOMAIN out |-> out[i].id] \o [i \in DOMAIN queue |-> queue[i].id]
        \o IF Legible THEN RingIds ELSE <<>>

(* The finished entries are exactly those from the read entry up to the    *)
(* one the core writes next: none is finished where the reader does not    *)
(* come by.                                                                *)
RingInStep ==
    /\ cur = (rd + Fill) % Entries
    /\ \A k \in 1 .. Fill : ring[(rd + k - 1) % Entries] # None

(* Packets reach the host in the order of the air and none twice, whatever *)
(* overflows, hops, retunes and second starts come between                 *)
(* (resetRfDataQueue, createRfDataQueue, rfConsumeEntry, enqueuePacket):   *)
(* the reader and the core agree on the ring, and what was sent, what is   *)
(* queued and what the ring holds form one increasing line.  The one thing *)
(* that makes them disagree is a packet stored inside the few writes of a  *)
(* reset, for the reset comes before the flush; and then it is only the    *)
(* packets from that one to the next rewriting of the ring that may change *)
(* places, among each other and with no packet before or after them.       *)
InOrder ==
    /\ Legible => RingInStep
    /\ \A i, j \in DOMAIN Line : i < j =>
          /\ Line[i] # Line[j]
          /\ Line[i] < Line[j] \/ {Line[i], Line[j]} \subseteq astray

(* No packet vanishes unaccounted for: each one that the core stored is    *)
(* still held, or counted in s_metrics, or was thrown away by a reset; the *)
(* ones counted as received are queued, sent or refused by LLManager, or   *)
(* were queued when reception stopped; the frames sent are numbered        *)
(* without a gap and never with the number reserved for errors.            *)
Accounted ==
    /\ air = Cardinality(Held \cup Queued \cup Sent \cup wiped) + llDrops
             + metrics.rx_crc_err + metrics.rx_drop
    /\ metrics.rx_ok <= Cardinality(Queued \cup Sent \cup wiped) + llDrops
    /\ metrics.rx_ok >= Cardinality(Queued \cup Sent) + llDrops
    /\ \A i \in DOMAIN out : out[i].seq = (i - 1) % SeqReserved

(* A receiver that the RF driver stopped on a full buffer is set going     *)
(* again: it is dead, with nothing left that would restart it, only after  *)
(* the full event was erased between RadioIF_poll's read and its clear (or *)
(* by the clear in startRx), or RF_postCmd failed, which restarts ignore.  *)
DeadOnlyByRace ==
    Running /\ cmds = 0 /\ pc \in {"idle", "drain"} =>
        "full" \in flags \/ raced

(* A packet that the core stored does not lie in the ring for ever: it is  *)
(* queued, counted or thrown away, also if its entry-done event was erased *)
(* by the clear in RadioIF_poll ("Also drain if callback raced"), unless   *)
(* the core is out of step with the reader (see InOrder) or reception is   *)
(* off.  And whatever is queued leaves the queue, receiver or not.         *)
Drains == \A n \in 1 .. MaxAir :
    n \in Held \cup Queued ~>
        n \notin Queued /\ (n \notin Held \/ slipped \/ ~Running)
=============================================================================
