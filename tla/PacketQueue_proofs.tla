------------------------ MODULE PacketQueue_proofs ------------------------
(***************************************************************************)
(* The ring of PacketQueue implements BoundedFifo for every depth, every   *)
(* set of frames and every flush and read limit.                           *)
(***************************************************************************)
EXTENDS PacketQueue, SequenceTheorems, TLAPS

(* The head is count places behind the tail, the places between hold       *)
(* frames, and the pending event is up while there is one.                 *)
RingFacts ==
    /\ head = Wrap(tail + count)
    /\ \A i \in 1 .. count : slots[Wrap(tail + i - 1)] \in Fits
    /\ count > 0 => txPending

Inv == TypeOK /\ RingFacts /\ EventsAgree

-----------------------------------------------------------------------------
(* Division with remainder, from 0 to below twice the divisor: what the    *)
(* wrap of an index is.                                                    *)
LEMMA WrapIs ==
    ASSUME NEW i \in 0 .. 2 * Depth - 1
    PROVE  Wrap(i) = IF i < Depth THEN i ELSE i - Depth
<1> USE QueueAssumption
<1>1. CASE i < Depth
  BY <1>1, Z3 DEF Wrap
<1>2. CASE i >= Depth
  BY <1>2, Z3 DEF Wrap
<1> QED BY <1>1, <1>2

(* The wrap of an index is an index.                                       *)
LEMMA WrapRange ==
    ASSUME NEW i \in 0 .. 2 * Depth - 1
    PROVE  Wrap(i) \in 0 .. Depth - 1
BY WrapIs, QueueAssumption

(* Two places less than Depth behind the same index differ.                *)
LEMMA WrapDistinct ==
    ASSUME NEW t \in 0 .. Depth - 1, NEW i \in 0 .. Depth - 1,
           NEW j \in 0 .. Depth - 1, i # j
    PROVE  Wrap(t + i) # Wrap(t + j)
<1>1. t + i \in 0 .. 2 * Depth - 1 /\ t + j \in 0 .. 2 * Depth - 1
  BY QueueAssumption
<1> QED BY <1>1, WrapIs, QueueAssumption

(* To go i places behind the next index is to go i + 1 behind this one.    *)
LEMMA WrapNext ==
    ASSUME NEW t \in 0 .. Depth - 1, NEW i \in 0 .. Depth - 1
    PROVE  /\ Wrap(Wrap(t + 1) + i) = Wrap(t + (i + 1))
           /\ Wrap(Wrap(t + i) + 1) = Wrap(t + (i + 1))
<1>1. t + i \in 0 .. 2 * Depth - 1 /\ t + 1 \in 0 .. 2 * Depth - 1
  BY QueueAssumption
<1>2. t + (i + 1) \in 0 .. 2 * Depth - 1
  BY QueueAssumption
<1>3. Wrap(t + 1) \in 0 .. Depth - 1 /\ Wrap(t + i) \in 0 .. Depth - 1
  BY <1>1, WrapRange
<1>4. /\ Wrap(t + 1) + i \in 0 .. 2 * Depth - 1
      /\ Wrap(t + i) + 1 \in 0 .. 2 * Depth - 1
  BY <1>3, QueueAssumption
<1> QED BY <1>1, <1>2, <1>4, WrapIs, QueueAssumption

-----------------------------------------------------------------------------
(* The invariant.                                                          *)

(* A frame sent, by either task, keeps the ring well-formed.               *)
LEMMA SendKeepsInv ==
    ASSUME Inv, NEW f \in Frames, SendResponse(f),
           phase' = phase, budget' \in Nat, out' = out
    PROVE  Inv'
<1> USE QueueAssumption
<1>1. CASE f \in TooLong \/ count >= Depth
  <2>1. UNCHANGED <<slots, head, tail, count, txPending>>
    BY <1>1 DEF SendResponse, Enqueue, ring, Inv, TypeOK
  <2>2. drops' \in 0 .. DropWrap - 1
    BY <1>1 DEF SendResponse, Enqueue, ring, Inv, TypeOK
  <2>3. dropSeen' \in BOOLEAN /\ (drops' > 0 => dropSeen')
    BY <1>1 DEF SendResponse, Enqueue, ring, Inv, TypeOK, EventsAgree
  <2> QED
    BY <2>1, <2>2, <2>3 DEF Inv, TypeOK, RingFacts, EventsAgree, Wrap
<1>2. CASE f \notin TooLong /\ count < Depth
  <2>1. /\ slots' = [slots EXCEPT ![head] = f]
        /\ head' = Wrap(head + 1)
        /\ count' = count + 1
        /\ txPending' = TRUE
        /\ UNCHANGED <<tail, drops, dropSeen>>
    BY <1>2 DEF SendResponse, Enqueue
  <2>2. f \in Fits
    BY <1>2 DEF Fits
  <2>3. head + 1 \in 0 .. 2 * Depth - 1
    BY DEF Inv, TypeOK
  <2>4. TypeOK'
    BY <1>2, <2>1, <2>2, <2>3, WrapRange DEF Inv, TypeOK
  <2>5. head' = Wrap(tail' + count')
    <3>1. tail \in 0 .. Depth - 1 /\ count \in 0 .. Depth - 1
      BY <1>2 DEF Inv, TypeOK
    <3>2. Wrap(Wrap(tail + count) + 1) = Wrap(tail + (count + 1))
      BY <3>1, WrapNext
    <3> QED BY <2>1, <3>2 DEF Inv, RingFacts
  <2>6. ASSUME NEW i \in 1 .. count' PROVE slots'[Wrap(tail' + i - 1)] \in Fits
    <3>1. tail + i - 1 = tail + (i - 1) /\ i - 1 \in 0 .. Depth - 1
      BY <1>2, <2>1 DEF Inv, TypeOK
    <3>2. tail + (i - 1) \in 0 .. 2 * Depth - 1
      BY <3>1 DEF Inv, TypeOK
    <3>3. Wrap(tail + (i - 1)) \in 0 .. Depth - 1
      BY <3>2, WrapRange
    <3>4. CASE Wrap(tail + (i - 1)) = head
      BY <2>1, <2>2, <3>1, <3>3, <3>4 DEF Inv, TypeOK
    <3>5. CASE Wrap(tail + (i - 1)) # head
      <4>1. i # count + 1
        <5>1. i = count + 1 => i - 1 = count
          BY DEF Inv, TypeOK
        <5> QED BY <3>5, <5>1 DEF Inv, RingFacts
      <4>2. i \in 1 .. count
        BY <2>1, <4>1 DEF Inv, TypeOK
      <4>3. slots[Wrap(tail + (i - 1))] \in Fits
        BY <3>1, <4>2 DEF Inv, RingFacts
      <4> QED BY <2>1, <3>1, <3>3, <3>5, <4>3 DEF Inv, TypeOK
    <3> QED BY <3>4, <3>5
  <2>7. EventsAgree' /\ (count' > 0 => txPending')
    <3>1. txPending' = TRUE /\ count' > 0
      BY <2>1 DEF Inv, TypeOK
    <3>2. drops' > 0 => dropSeen'
      BY <2>1 DEF Inv, EventsAgree
    <3> QED BY <3>1, <3>2 DEF EventsAgree
  <2> QED
    BY <2>4, <2>5, <2>6, <2>7 DEF Inv, RingFacts
<1> QED
  BY <1>1, <1>2 DEF Inv, TypeOK

(* A frame taken out keeps the ring well-formed.                           *)
LEMMA FlushKeepsInv ==
    ASSUME Inv, FlushOne
    PROVE  Inv'
<1> USE QueueAssumption
<1>1. /\ tail' = Wrap(tail + 1)
      /\ count' = count - 1
      /\ count \in 1 .. Depth
      /\ UNCHANGED <<slots, head, drops, txPending, dropSeen, phase>>
  BY DEF FlushOne, Inv, TypeOK
<1>2. tail + 1 \in 0 .. 2 * Depth - 1 /\ tail + 1 - 1 = tail
  BY DEF Inv, TypeOK
<1>3. Wrap(tail) = tail
  BY WrapIs DEF Inv, TypeOK
<1>4. slots[tail] \in Fits
  BY <1>1, <1>2, <1>3 DEF Inv, RingFacts
<1>5. TypeOK'
  BY <1>1, <1>2, <1>4, WrapRange DEF FlushOne, Inv, TypeOK
<1>6. head' = Wrap(tail' + count')
  BY <1>1, WrapNext DEF Inv, TypeOK, RingFacts
<1>7. ASSUME NEW i \in 1 .. count' PROVE slots'[Wrap(tail' + i - 1)] \in Fits
  <2>1. i + 1 \in 1 .. count /\ i - 1 \in 0 .. Depth - 1 /\ (i - 1) + 1 = i
    BY <1>1 DEF Inv, TypeOK
  <2>2. Wrap(tail' + (i - 1)) = Wrap(tail + i)
    BY <1>1, <2>1, WrapNext DEF Inv, TypeOK
  <2>3. tail' + i - 1 = tail' + (i - 1) /\ tail + (i + 1) - 1 = tail + i
    BY <1>5 DEF Inv, TypeOK
  <2> QED
    BY <1>1, <2>1, <2>2, <2>3 DEF Inv, RingFacts
<1>8. phase # "away"
  BY DEF FlushOne, Flushing
<1> QED
  BY <1>1, <1>5, <1>6, <1>7, <1>8 DEF Inv, TypeOK, RingFacts, EventsAgree

(* What the steps that neither send nor flush a frame do to the invariant. *)
LEMMA PollKeepsInv ==
    ASSUME Inv, StartPoll \/ EndFlush \/ EndRead
    PROVE  Inv'
<1> USE QueueAssumption DEF ring
<1>1. CASE StartPoll
  BY <1>1 DEF StartPoll, Inv, TypeOK, RingFacts, EventsAgree, Wrap
<1>2. CASE EndFlush
  <2>1. CASE phase = "flush"
    <3>1. TypeOK'
      BY <1>2, <2>1 DEF EndFlush, AfterFlush, Inv, TypeOK
    <3>2. RingFacts'
      BY <1>2 DEF EndFlush, Inv, RingFacts, Wrap
    <3>3. EventsAgree'
      BY <1>2, <2>1 DEF EndFlush, AfterFlush, Inv, TypeOK, RingFacts, EventsAgree
    <3> QED BY <3>1, <3>2, <3>3 DEF Inv
  <2>2. CASE phase = "reflush"
    <3>1. TypeOK'
      BY <1>2, <2>2 DEF EndFlush, AfterFlush, Inv, TypeOK
    <3>2. RingFacts'
      BY <1>2 DEF EndFlush, Inv, RingFacts, Wrap
    <3>3. EventsAgree'
      BY <1>2, <2>2 DEF EndFlush, AfterFlush, Inv, TypeOK, RingFacts, EventsAgree
    <3> QED BY <3>1, <3>2, <3>3 DEF Inv
  <2> QED BY <1>2, <2>1, <2>2 DEF EndFlush, Flushing
<1>3. CASE EndRead
  BY <1>3 DEF EndRead, Inv, TypeOK, RingFacts, EventsAgree, Wrap
<1> QED BY <1>1, <1>2, <1>3

(* The invariant holds in every state of every behaviour.                  *)
THEOREM InvHolds == Spec => []Inv
<1>1. Init => Inv
  <2> SUFFICES ASSUME Init PROVE Inv
    OBVIOUS
  <2>1. Wrap(0) = 0
    BY WrapIs, QueueAssumption
  <2>2. TypeOK
    <3>1. 0 \in 0 .. Depth - 1 /\ 0 \in 0 .. Depth /\ 0 \in 0 .. DropWrap - 1
      BY QueueAssumption
    <3>2. slots \in [0 .. Depth - 1 -> Fits \cup {None}]
      BY DEF Init
    <3> QED BY <3>1, <3>2 DEF Init, TypeOK
  <2>3. RingFacts
    BY <2>1, QueueAssumption DEF Init, RingFacts
  <2>4. EventsAgree
    <3>1. ~(count > 0) /\ ~(drops > 0)
      BY DEF Init
    <3> QED BY <3>1 DEF Init, EventsAgree
  <2> QED
    BY <2>2, <2>3, <2>4 DEF Inv
<1>2. Inv /\ [Next]_vars => Inv'
  <2> SUFFICES ASSUME Inv, [Next]_vars PROVE Inv'
    OBVIOUS
  <2>1. CASE Send
    BY <2>1, SendKeepsInv DEF Send, Inv, TypeOK
  <2>2. CASE SendError
    <3>1. budget' \in Nat
      BY <2>2 DEF SendError, Inv, TypeOK
    <3> QED BY <2>2, <3>1, SendKeepsInv DEF SendError
  <2>3. CASE FlushOne
    BY <2>3, FlushKeepsInv
  <2>4. CASE StartPoll \/ EndFlush \/ EndRead
    BY <2>4, PollKeepsInv
  <2>5. CASE UNCHANGED vars
    BY <2>5 DEF vars, ring, Inv, TypeOK, RingFacts, EventsAgree, Wrap
  <2> QED BY <2>1, <2>2, <2>3, <2>4, <2>5 DEF Next, UartStep
<1> QED BY <1>1, <1>2, PTL DEF Spec

(* The indices, the counter of dropped frames and what a poll has left to  *)
(* do keep their types (packet_queue.c:14-57): no place outside the ring   *)
(* is ever written or read.                                                *)
THEOREM TypeCorrect == Spec => []TypeOK
<1>1. Inv => TypeOK
  BY DEF Inv
<1> QED BY <1>1, InvHolds, PTL

(* The events tell what the ring holds and whether it dropped a frame      *)
(* (output_if.c:39-47, host_if_task.c:41-43).                              *)
THEOREM EventsAreRight == Spec => []EventsAgree
<1>1. Inv => EventsAgree
  BY DEF Inv
<1> QED BY <1>1, InvHolds, PTL

-----------------------------------------------------------------------------
(* The refinement.                                                         *)

(* c frames from place t on, read off the ring, are a sequence of c frames.*)
LEMMA RingIsSeq ==
    ASSUME NEW s, NEW t, NEW c \in Nat,
           \A i \in 1 .. c : s[Wrap(t + i - 1)] \in Fits
    PROVE  /\ [i \in 1 .. c |-> s[Wrap(t + i - 1)]] \in Seq(Fits)
           /\ Len([i \in 1 .. c |-> s[Wrap(t + i - 1)]]) = c
<1> DEFINE q == [i \in 1 .. c |-> s[Wrap(t + i - 1)]]
<1>1. q \in [1 .. c -> Fits]
  OBVIOUS
<1>2. q \in Seq(Fits)
  BY <1>1, SeqDef
<1>3. DOMAIN q = 1 .. c /\ DOMAIN q = 1 .. Len(q) /\ Len(q) \in Nat
  BY <1>2, LenProperties
<1>4. Len(q) = c
  BY <1>3
<1> QED BY <1>2, <1>4

(* The content of the ring is a sequence of count frames, and so it is     *)
(* after a step that keeps the invariant.                                  *)
LEMMA ContentIsSeq ==
    ASSUME Inv
    PROVE  /\ Content \in Seq(Fits)
           /\ Len(Content) = count
           /\ \A i \in 1 .. count : Content[i] = slots[Wrap(tail + i - 1)]
BY RingIsSeq DEF Content, Inv, TypeOK, RingFacts

(* What the next ring holds is a sequence of frames.                       *)
LEMMA NextContentIsSeq ==
    ASSUME Inv'
    PROVE  /\ Content' \in Seq(Fits)
           /\ Len(Content') = count'
           /\ \A i \in 1 .. count' : Content'[i] = slots'[Wrap(tail' + i - 1)]
<1>1. /\ count' \in Nat
      /\ \A i \in 1 .. count' : slots'[Wrap(tail' + i - 1)] \in Fits
  BY QueueAssumption DEF Inv, TypeOK, RingFacts
<1> QED BY <1>1, RingIsSeq DEF Content

(* Sending a frame is accepting it, losing it, or, if it is too long,      *)
(* nothing.                                                                *)
LEMMA SendRefines ==
    ASSUME Inv, Inv', NEW f \in Frames, SendResponse(f), out' = out
    PROVE  [Fifo!Next]_(Fifo!vars)
<1> USE QueueAssumption
<1>1. CASE f \in TooLong
  BY <1>1 DEF SendResponse, ring, Content, Fifo!vars, Wrap
<1>2. CASE f \notin TooLong /\ count < Depth
  <2>1. /\ slots' = [slots EXCEPT ![head] = f]
        /\ count' = count + 1
        /\ UNCHANGED <<tail, drops>>
    BY <1>2 DEF SendResponse, Enqueue
  <2>2. f \in Fits
    BY <1>2 DEF Fits
  <2>3. ASSUME NEW i \in 1 .. count PROVE Content'[i] = Content[i]
    <3>1. /\ tail \in 0 .. Depth - 1
          /\ count \in 0 .. Depth - 1
          /\ i - 1 \in 0 .. Depth - 1
          /\ i - 1 # count
          /\ tail + (i - 1) \in 0 .. 2 * Depth - 1
          /\ tail + (i - 1) = tail + i - 1
          /\ i \in 1 .. count'
      BY <1>2, <2>1 DEF Inv, TypeOK
    <3>2. Wrap(tail + (i - 1)) # head
      BY <3>1, WrapDistinct DEF Inv, RingFacts
    <3>3. Wrap(tail + (i - 1)) \in 0 .. Depth - 1
      BY <3>1, WrapRange
    <3>4. slots'[Wrap(tail + (i - 1))] = slots[Wrap(tail + (i - 1))]
      BY <2>1, <3>2, <3>3 DEF Inv, TypeOK
    <3> QED BY <2>1, <3>1, <3>4, ContentIsSeq, NextContentIsSeq
  <2>4. Content'[count + 1] = f
    <3>1. count + 1 \in 1 .. count' /\ tail + (count + 1) - 1 = tail + count
      BY <2>1 DEF Inv, TypeOK
    <3>2. Content'[count + 1] = slots'[head]
      BY <2>1, <3>1, NextContentIsSeq DEF Inv, RingFacts
    <3> QED BY <2>1, <3>2 DEF Inv, TypeOK
  <2>5. Content' = Append(Content, f)
    <3> DEFINE longer == Append(Content, f)
    <3>1. /\ longer \in Seq(Fits)
          /\ Len(longer) = count + 1
          /\ \A i \in 1 .. count : longer[i] = Content[i]
          /\ longer[count + 1] = f
      BY <2>2, ContentIsSeq, AppendProperties
    <3>2. ASSUME NEW i \in 1 .. count + 1 PROVE Content'[i] = longer[i]
      <4>1. i \in 1 .. count \/ i = count + 1
        BY DEF Inv, TypeOK
      <4> QED BY <2>3, <2>4, <3>1, <4>1
    <3> HIDE DEF longer
    <3>3. Content' = longer
      BY <2>1, <3>1, <3>2, NextContentIsSeq, SeqEqual
    <3> QED BY <3>3 DEF longer
  <2>6. Fifo!Accept(f)
    BY <1>2, <2>1, <2>5, ContentIsSeq DEF Fifo!Accept
  <2> QED BY <2>2, <2>6 DEF Fifo!Next
<1>3. CASE f \notin TooLong /\ count >= Depth
  <2>1. /\ UNCHANGED <<slots, tail, count>>
        /\ drops' = (drops + 1) % DropWrap
        /\ count = Depth
    BY <1>3 DEF SendResponse, Enqueue, Inv, TypeOK
  <2>2. Content' = Content
    BY <2>1 DEF Content, Wrap
  <2>3. Fifo!Lose
    BY <2>1, <2>2, ContentIsSeq DEF Fifo!Lose
  <2> QED BY <2>3 DEF Fifo!Next
<1> QED BY <1>1, <1>2, <1>3 DEF Inv, TypeOK

(* Writing a frame to the UART is delivering the oldest one.               *)
LEMMA FlushRefines ==
    ASSUME Inv, Inv', FlushOne
    PROVE  Fifo!Deliver
<1> USE QueueAssumption
<1>1. /\ out' = slots[tail]
      /\ tail' = Wrap(tail + 1)
      /\ count' = count - 1
      /\ count \in 1 .. Depth
      /\ UNCHANGED <<slots, drops>>
  BY DEF FlushOne, Inv, TypeOK
<1>2. Content # <<>>
  BY <1>1, ContentIsSeq, EmptySeq
<1>3. out' = Head(Content)
  <2>1. Content[1] = slots[Wrap(tail + 1 - 1)]
    BY <1>1, ContentIsSeq
  <2>2. tail + 1 - 1 = tail /\ Wrap(tail) = tail
    BY WrapIs DEF Inv, TypeOK
  <2>3. Head(Content) = Content[1]
    BY ContentIsSeq
  <2> QED BY <1>1, <2>1, <2>2, <2>3
<1>4. Content' = Tail(Content)
  <2> DEFINE rest == Tail(Content)
  <2>1. /\ rest \in Seq(Fits)
        /\ Len(rest) = count - 1
        /\ \A i \in 1 .. count - 1 : rest[i] = Content[i + 1]
    BY <1>2, ContentIsSeq, HeadTailProperties
  <2> HIDE DEF rest
  <2>2. ASSUME NEW i \in 1 .. count - 1 PROVE Content'[i] = rest[i]
    <3>1. /\ i \in 1 .. count' /\ i + 1 \in 1 .. count
          /\ i - 1 \in 0 .. Depth - 1 /\ tail \in 0 .. Depth - 1
          /\ (i - 1) + 1 = i
          /\ tail + (i + 1) - 1 = tail + i
      <4>1. tail \in 0 .. Depth - 1
        BY DEF Inv, TypeOK
      <4>2. (i - 1) + 1 = i /\ tail + (i + 1) - 1 = tail + i
        BY <4>1
      <4>3. i \in 1 .. count' /\ i + 1 \in 1 .. count /\ i - 1 \in 0 .. Depth - 1
        BY <1>1
      <4> QED BY <4>1, <4>2, <4>3
    <3>2. tail' + i - 1 = tail' + (i - 1)
      <4>1. tail' \in 0 .. Depth - 1
        BY DEF Inv, TypeOK
      <4> QED BY <4>1
    <3>3. Wrap(tail' + (i - 1)) = Wrap(tail + i)
      BY <1>1, <3>1, WrapNext
    <3>4. Content'[i] = slots[Wrap(tail + i)]
      BY <1>1, <3>1, <3>2, <3>3, NextContentIsSeq
    <3>5. Content[i + 1] = slots[Wrap(tail + i)]
      BY <3>1, ContentIsSeq
    <3> QED BY <2>1, <3>4, <3>5
  <2>3. Content' = rest
    BY <1>1, <2>1, <2>2, NextContentIsSeq, SeqEqual
  <2> QED BY <2>3 DEF rest
<1> QED BY <1>1, <1>2, <1>3, <1>4 DEF Fifo!Deliver

(* The ring is a bounded FIFO that loses exactly what does not fit.        *)
THEOREM RingIsFifo == Spec => ImplementsFifo
<1>1. Init => Fifo!Init
  <2> SUFFICES ASSUME Init PROVE Fifo!Init
    OBVIOUS
  <2>1. Content = <<>>
    BY DEF Init, Content
  <2> QED BY <2>1 DEF Init, Fifo!Init
<1>2. Inv /\ Inv' /\ [Next]_vars => [Fifo!Next]_(Fifo!vars)
  <2> SUFFICES ASSUME Inv, Inv', [Next]_vars PROVE [Fifo!Next]_(Fifo!vars)
    OBVIOUS
  <2>1. CASE Send
    BY <2>1, SendRefines DEF Send
  <2>2. CASE SendError
    BY <2>2, SendRefines DEF SendError
  <2>3. CASE FlushOne
    BY <2>3, FlushRefines DEF Fifo!Next
  <2>4. CASE StartPoll \/ EndFlush \/ EndRead
    BY <2>4 DEF StartPoll, EndFlush, EndRead, ring, Fifo!vars, Content, Wrap
  <2>5. CASE UNCHANGED vars
    BY <2>5 DEF vars, ring, Fifo!vars, Content, Wrap
  <2> QED BY <2>1, <2>2, <2>3, <2>4, <2>5 DEF Next, UartStep
<1> QED BY <1>1, <1>2, InvHolds, PTL DEF Spec, ImplementsFifo, Fifo!Spec
=============================================================================
