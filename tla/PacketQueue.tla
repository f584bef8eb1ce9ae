---------------------------- MODULE PacketQueue ----------------------------
(***************************************************************************)
(* The ring of encoded frames (packet_queue.c) between everything that     *)
(* answers the host (OutputIF_sendResponse) and the UART task, which       *)
(* writes the frames out (HostIFTask_poll).                                *)
(*                                                                         *)
(* The two tasks switch only where one yields or blocks, and the UART task *)
(* does neither inside a poll: the RF task sends while phase = "away".  A  *)
(* poll is a flush, a bounded read of the UART that may itself send errors *)
(* to the host, and a second flush; it is modelled frame by frame.  Of a   *)
(* frame only its identity is kept; one that is longer than a slot, which  *)
(* sendResponse discards without trace, is a member of TooLong.            *)
(***************************************************************************)
EXTENDS Naturals, Sequences

CONSTANTS
    Frames,     (* encoded frames                                          *)
    TooLong,    (* those that exceed PROTOCOL_MAX_PAYLOAD or a slot        *)
    Depth,      (* PACKET_QUEUE_DEPTH                                      *)
    FlushLimit, (* max_flush of HostIFTask_flushTx                         *)
    ReadLimit,  (* most errors that HOST_IF_TASK_RX_BUDGET_PER_POLL bytes  *)
                (* can cause                                               *)
    DropWrap,   (* s_drop_count is kept modulo this (2^32)                 *)
    None        (* no frame: an unused slot                                *)

ASSUME QueueAssumption ==
    /\ TooLong \subseteq Frames
    /\ Depth \in Nat \ {0}
    /\ FlushLimit \in Nat \ {0}
    /\ ReadLimit \in Nat
    /\ DropWrap \in Nat \ {0}

VARIABLES
    slots,      (* s_queue                                                 *)
    head,       (* s_head: where the next frame goes                       *)
    tail,       (* s_tail: the oldest frame                                *)
    count,      (* s_count                                                 *)
    drops,      (* s_drop_count                                            *)
    txPending,  (* TASK_EVENT_HOST_IF_TX_PENDING                           *)
    dropSeen,   (* TASK_EVENT_PACKET_QUEUE_DROPPED                         *)
    phase,      (* where in HostIFTask_poll the UART task is               *)
    budget,     (* frames that this flush may write or this read may send  *)
    out         (* the frame written last to the UART                      *)

ring == <<slots, head, tail, count, drops>>
vars == <<ring, txPending, dropSeen, phase, budget, out>>

Fits == Frames \ TooLong

TypeOK ==
    /\ slots \in [0 .. Depth - 1 -> Fits \cup {None}]
    /\ head \in 0 .. Depth - 1
    /\ tail \in 0 .. Depth - 1
    /\ count \in 0 .. Depth
    /\ drops \in 0 .. DropWrap - 1
    /\ txPending \in BOOLEAN
    /\ dropSeen \in BOOLEAN
    /\ phase \in {"away", "flush", "read", "reflush"}
    /\ budget \in Nat
    /\ out \in Fits \cup {None}

(* PacketQueue_init, TaskEvent_init                                        *)
Init ==
    /\ slots = [i \in 0 .. Depth - 1 |-> None]
    /\ head = 0 /\ tail = 0 /\ count = 0 /\ drops = 0
    /\ txPending = FALSE /\ dropSeen = FALSE
    /\ phase = "away" /\ budget = 0
    /\ out = None

Wrap(i) == i % Depth

(* Fault: a full ring takes the frame in place of its oldest.              *)
EnqueueOverOldest(f) ==
    /\ slots' = [slots EXCEPT ![head] = f]
    /\ head' = Wrap(head + 1)
    /\ tail' = IF count < Depth THEN tail ELSE Wrap(tail + 1)
    /\ count' = IF count < Depth THEN count + 1 ELSE count
    /\ txPending' = TRUE
    /\ UNCHANGED <<drops, dropSeen>>

(* Fault: the ring is full only when the count exceeds its depth.          *)
EnqueueOneMore(f) ==
    IF count > Depth
    THEN /\ drops' = (drops + 1) % DropWrap
         /\ dropSeen' = TRUE
         /\ UNCHANGED <<slots, head, tail, count, txPending>>
    ELSE /\ slots' = [slots EXCEPT ![head] = f]
         /\ head' = Wrap(head + 1)
         /\ count' = count + 1
         /\ txPending' = TRUE
         /\ UNCHANGED <<tail, drops, dropSeen>>

(* PacketQueue_enqueue of a frame that fits, and the event it raises       *)
Enqueue(f) ==
    IF count < Depth
    THEN /\ slots' = [slots EXCEPT ![head] = f]
         /\ head' = Wrap(head + 1)
         /\ count' = count + 1
         /\ txPending' = TRUE
         /\ UNCHANGED <<tail, drops, dropSeen>>
    ELSE /\ drops' = (drops + 1) % DropWrap
         /\ dropSeen' = TRUE
         /\ UNCHANGED <<slots, head, tail, count, txPending>>

(* OutputIF_sendResponse                                                   *)
SendResponse(f) ==
    IF f \in TooLong
    THEN UNCHANGED <<ring, txPending, dropSeen>>
    ELSE Enqueue(f)

-----------------------------------------------------------------------------
(* The RF task answers a command, reports an error or a received packet.   *)
Send ==
    /\ phase = "away"
    /\ \E f \in Frames : SendResponse(f)
    /\ UNCHANGED <<phase, budget, out>>

(* The UART task gets its turn.                                            *)
StartPoll ==
    /\ phase = "away"
    /\ phase' = "flush"
    /\ budget' = FlushLimit
    /\ UNCHANGED <<ring, txPending, dropSeen, out>>

-----------------------------------------------------------------------------
(* HostIFTask_flushTx, at the start and at the end of a poll               *)

Flushing == phase \in {"flush", "reflush"}

(* PacketQueue_dequeue and HostIF_writeBuffer                              *)
FlushOne ==
    /\ Flushing /\ budget > 0 /\ count > 0
    /\ out' = slots[tail]
    /\ tail' = Wrap(tail + 1)
    /\ count' = count - 1
    /\ budget' = budget - 1
    /\ UNCHANGED <<slots, head, drops, txPending, dropSeen, phase>>

AfterFlush ==
    IF phase = "flush" THEN phase' = "read" /\ budget' = ReadLimit
                       ELSE phase' = "away" /\ budget' = 0

(* Fault: the event is cleared although frames are left.                   *)
EndFlushClearsAlways ==
    /\ Flushing /\ (budget = 0 \/ count = 0)
    /\ txPending' = FALSE
    /\ AfterFlush
    /\ UNCHANGED <<ring, dropSeen, out>>

(* Fault: a flush ends only once the ring is empty.                        *)
EndFlushWhenEmpty ==
    /\ Flushing /\ count = 0
    /\ txPending' = FALSE
    /\ AfterFlush
    /\ UNCHANGED <<ring, dropSeen, out>>

EndFlush ==
    /\ Flushing /\ (budget = 0 \/ count = 0)
    /\ txPending' = (txPending /\ count > 0)
    /\ AfterFlush
    /\ UNCHANGED <<ring, dropSeen, out>>

-----------------------------------------------------------------------------
(* The read part of a poll: a frame refused because the command slot is    *)
(* taken, or too long, is answered with an error.                          *)
SendError ==
    /\ phase = "read" /\ budget > 0
    /\ \E f \in Frames : SendResponse(f)
    /\ budget' = budget - 1
    /\ UNCHANGED <<phase, out>>

EndRead ==
    /\ phase = "read"
    /\ phase' = "reflush"
    /\ budget' = FlushLimit
    /\ UNCHANGED <<ring, txPending, dropSeen, out>>

UartStep == StartPoll \/ FlushOne \/ EndFlush \/ SendError \/ EndRead

Next == Send \/ UartStep

Spec == Init /\ [][Next]_vars

(* The UART task runs: its loop has no exit, and the RF task yields or     *)
(* blocks at every turn of its own.  Nothing is assumed of who sends.      *)
FairSpec == Spec /\ WF_vars(UartStep)

-----------------------------------------------------------------------------
(* The frames in the ring, oldest first                                    *)
Content == [i \in 1 .. count |-> slots[Wrap(tail + i - 1)]]

Fifo == INSTANCE BoundedFifo
    WITH Frame <- Fits, Capacity <- Depth, LostWrap <- DropWrap,
         Nothing <- None, items <- Content, lost <- drops

(* The ring, with its three separately wrapping indices, is a bounded FIFO *)
(* (packet_queue.c:25-58, output_if.c:39-47): frames reach the UART in the *)
(* order sent, none accepted is lost or written twice, and the drop count  *)
(* counts exactly those refused because the ring was full.                 *)
ImplementsFifo == Fifo!Spec

(* Frames keep leaving although a flush stops after FlushLimit of them     *)
(* (host_if_task.c:34-39), whatever the RF task goes on sending.           *)
KeepsDelivering == Fifo!Fairness

(* Between polls the pending event says whether the ring holds a frame     *)
(* (set at output_if.c:46, cleared at host_if_task.c:42), and the drop     *)
(* event is up if the counter moved (output_if.c:44, packet_queue.c:31).   *)
EventsAgree ==
    /\ phase = "away" => (txPending <=> count > 0)
    /\ drops > 0 => dropSeen
=============================================================================
