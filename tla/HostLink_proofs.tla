---------------------------- MODULE HostLink_proofs ----------------------------
(***************************************************************************)
(* A call of the host library returns its own answer, and after stop_rx    *)
(* the device is quiet: for any numbers of attempts, faults, asynchronous  *)
(* frames and sequence numbers, over a link that loses and damages frames. *)
(*                                                                         *)
(* The argument: since the last reset the numbers are counted up from 0,   *)
(* so whatever is under way carries the number of its command (Numbered),  *)
(* and only 0 comes round twice.  Commands are carried out and answered in *)
(* the order they were sent (Order), so the answer to the last one is the  *)
(* last answer there will be, and after the answer to RX_STOP no packet    *)
(* follows (Stopped).                                                      *)
(***************************************************************************)
EXTENDS HostLink, SequenceTheorems, TLAPS

(* Answers that report success.                                            *)
Reply(a) == a.rsp \in {"ACK", "DATA"}

(* The commands a kind of call waits for, and how many it may still send.  *)
OpsOf(kind) ==
    CASE kind = "init"     -> {"RADIO_INIT", "GET"}
      [] kind = "get"      -> {"GET"}
      [] kind = "start_rx" -> {"RX_START"}
      [] kind = "stop_rx"  -> {"RX_STOP"}
      [] kind = "stop_jam" -> {"JAM_STOP", "TX_STOP"}
      [] kind = "set"      -> {"SET"}
      [] OTHER             -> {None}

Remaining(op, left) ==
    CASE op \in {"RADIO_INIT", "JAM_STOP"} -> left + 1
      [] op = "RX_STOP"                    -> left
      [] OTHER                             -> 0

CallFacts ==
    call # None => /\ call.op \in OpsOf(call.kind)
                   /\ sent + Remaining(call.op, call.left) <= MaxFrames
                   /\ accepted = None

(* The n-th number since the last reset, counting from 0.                  *)
Number(n) == IF n < SeqMod THEN n ELSE IF n < 2 * SeqMod THEN n - SeqMod ELSE n - 2 * SeqMod

(* With b commands before the last reset: everything under way is from     *)
(* after it and carries the number of its command.                         *)
Numbered(b) ==
    /\ b \in 0 .. sent
    /\ nextSeq = Number(sent - b)
    /\ sent > b => lastSeq = Number(sent - b - 1)
    /\ \A i \in 1 .. Len(toDev) :
          toDev[i].of \in b + 1 .. sent /\ toDev[i].seq = Number(toDev[i].of - b - 1)
    /\ slot # None => slot.of \in b + 1 .. sent /\ slot.seq = Number(slot.of - b - 1)
    /\ \A k \in 1 .. Len(toHost) : Reply(toHost[k]) =>
          toHost[k].of \in b + 1 .. sent /\ toHost[k].seq = Number(toHost[k].of - b - 1)

(* Commands are under way in the order they were sent, and answered in it. *)
Order ==
    /\ \A i, j \in 1 .. Len(toDev) : i < j => toDev[i].of < toDev[j].of
    /\ slot # None => \A i \in 1 .. Len(toDev) : slot.of < toDev[i].of
    /\ \A k \in 1 .. Len(toHost) : Reply(toHost[k]) =>
          /\ slot # None => toHost[k].of < slot.of
          /\ \A i \in 1 .. Len(toDev) : toHost[k].of < toDev[i].of

(* The last command sent is the one the call waits for.                    *)
LastCommand ==
    InCommand =>
        /\ \A i \in 1 .. Len(toDev) : toDev[i].of = sent => toDev[i].op = call.op
        /\ slot # None /\ slot.of = sent => slot.op = call.op

(* An answer to the RX_STOP that stop_rx waits for has no packet behind it. *)
Stopped ==
    call # None /\ call.kind = "stop_rx" =>
        \A k \in 1 .. Len(toHost) : Reply(toHost[k]) /\ toHost[k].of = sent =>
            /\ ~receiving
            /\ \A l \in k + 1 .. Len(toHost) : toHost[l].rsp # "RX_PACKET"

Buffered == \A i \in 1 .. Len(pending) : pending[i].seq = 0

Own == accepted # None /\ accepted.seq # 0 => accepted.of = sent

Quiet ==
    quiet => /\ ~receiving
             /\ \A k \in 1 .. Len(toHost) : toHost[k].rsp # "RX_PACKET"
             /\ \A i \in 1 .. Len(toDev) : toDev[i].op # "RX_START"
             /\ slot # None => slot.op # "RX_START"

Inv ==
    /\ TypeOK /\ CallFacts
    /\ \E b \in 0 .. sent : Numbered(b)
    /\ Order /\ LastCommand /\ Stopped /\ Buffered /\ Own /\ Quiet

-----------------------------------------------------------------------------
(* Numbers.                                                                *)

(* The next number follows the last one.                                   *)
LEMMA NumberNext ==
    ASSUME NEW n \in 0 .. SeqMod
    PROVE  /\ Number(n) \in Numbers
           /\ Number(n + 1) = NextSeq(Number(n))
<1> USE LinkAssumption DEF Number, Numbers, NextSeq
<1>1. Number(n) \in 0 .. SeqMod - 1
  OBVIOUS
<1>2. CASE Number(n) = SeqMod - 1
  <2>1. (Number(n) + 1) % SeqMod = 0
    BY <1>2, Z3
  <2> QED BY <1>1, <1>2, <2>1
<1>3. CASE Number(n) < SeqMod - 1
  <2>1. (Number(n) + 1) % SeqMod = Number(n) + 1
    BY <1>1, <1>3, Z3
  <2> QED BY <1>1, <1>3, <2>1
<1> QED BY <1>1, <1>2, <1>3

(* The first number after a reset is 0, as NextSeq(0) says of the second.  *)
LEMMA NumberStart == Number(0) = 0 /\ Number(1) = NextSeq(0) /\ NextSeq(0) \in Numbers
<1>1. 0 \in 0 .. SeqMod /\ Number(0) = 0
  BY LinkAssumption DEF Number
<1>2. Number(0 + 1) = NextSeq(Number(0))
  BY <1>1, NumberNext
<1>3. NextSeq(0) \in Numbers
  BY LinkAssumption, Z3 DEF NextSeq, Numbers
<1> QED BY <1>1, <1>2, <1>3

(* Only the number 0 comes round again.                                    *)
LEMMA NumberOnce ==
    ASSUME NEW m \in 0 .. SeqMod, NEW n \in 0 .. SeqMod,
           Number(m) = Number(n), Number(m) # 0
    PROVE  m = n
BY LinkAssumption DEF Number

-----------------------------------------------------------------------------
(* What a step of a call may do: send another command, or not.             *)

Sends ==
    \E kind \in Kinds \ {"read_packets"}, op \in Ops, left \in Nat :
        /\ Send(kind, op, left)
        /\ op \in OpsOf(kind)
        /\ sent + 1 + Remaining(op, left) <= MaxFrames
        /\ accepted' = None

Ends ==
    /\ call' = None
    /\ UNCHANGED <<nextSeq, lastSeq, sent, toDev>>

EndsWithout == Ends /\ UNCHANGED <<accepted, quiet>>

EndsWith(a) ==
    /\ Ends
    /\ accepted' = a
    /\ quiet' = (quiet \/ (call.kind = "stop_rx" /\ a.seq # 0))

(* stop_jam goes on to its next command, or ends.                          *)
LEMMA NextJamStopIs ==
    ASSUME TypeOK, CallFacts, call # None, call.kind = "stop_jam", NextJamStop,
           accepted' = accepted
    PROVE  Sends \/ EndsWithout
<1> USE LinkAssumption, NoneAssumption
<1>1. /\ call.left \in Nat /\ sent \in Nat /\ accepted = None /\ MaxFrames \in Nat
      /\ call.op \in {"JAM_STOP", "TX_STOP"}
      /\ sent + Remaining(call.op, call.left) <= MaxFrames
  BY DEF TypeOK, CallFacts, OpsOf, Calls
<1>2. CASE call.op = "JAM_STOP" /\ call.left > 0
  <2>1. Send("stop_jam", "JAM_STOP", call.left - 1)
    BY <1>2 DEF NextJamStop
  <2>2. call.left - 1 \in Nat /\ sent + 1 + Remaining("JAM_STOP", call.left - 1) <= MaxFrames
    BY <1>1, <1>2 DEF Remaining
  <2>3. "JAM_STOP" \in OpsOf("stop_jam") /\ "JAM_STOP" \in Ops
        /\ "stop_jam" \in Kinds \ {"read_packets"}
    BY DEF OpsOf, Ops, Kinds
  <2> QED BY <1>1, <2>1, <2>2, <2>3 DEF Sends
<1>3. CASE call.op = "JAM_STOP" /\ ~(call.left > 0)
  <2>1. Send("stop_jam", "TX_STOP", 0)
    BY <1>3 DEF NextJamStop
  <2>2. sent + 1 + Remaining("TX_STOP", 0) <= MaxFrames
    BY <1>1, <1>3 DEF Remaining
  <2>3. "TX_STOP" \in OpsOf("stop_jam") /\ "TX_STOP" \in Ops
        /\ "stop_jam" \in Kinds \ {"read_packets"}
    BY DEF OpsOf, Ops, Kinds
  <2> QED BY <1>1, <2>1, <2>2, <2>3 DEF Sends
<1>4. CASE call.op # "JAM_STOP"
  BY <1>4 DEF NextJamStop, Return, EndsWithout, Ends
<1> QED BY <1>2, <1>3, <1>4

(* After a timeout a call tries again or ends.                             *)
LEMMA GiveUpIs ==
    ASSUME TypeOK, CallFacts, call # None, GiveUp
    PROVE  Sends \/ EndsWithout
<1> USE LinkAssumption, NoneAssumption
<1>1. accepted' = accepted /\ accepted = None
  BY DEF GiveUp, CallFacts
<1>2. CASE call.kind = "stop_jam"
  <2>1. NextJamStop
    BY <1>2 DEF GiveUp
  <2> QED BY <1>1, <1>2, <2>1, NextJamStopIs
<1>3. CASE call.kind # "stop_jam" /\ call.op \in {"RADIO_INIT", "RX_STOP"} /\ call.left > 0
  <2>1. Send(call.kind, call.op, call.left - 1)
    BY <1>3 DEF GiveUp
  <2>2. call.left - 1 \in Nat /\ sent + 1 + Remaining(call.op, call.left - 1) <= MaxFrames
    <3>1. call.left \in Nat /\ sent \in Nat /\ sent + Remaining(call.op, call.left) <= MaxFrames
      BY DEF TypeOK, CallFacts, Calls
    <3>2. CASE call.op = "RADIO_INIT"
      BY <1>3, <3>1, <3>2 DEF Remaining
    <3>3. CASE call.op = "RX_STOP"
      BY <1>3, <3>1, <3>3 DEF Remaining
    <3> QED BY <1>3, <3>2, <3>3
  <2>3. call.op \in OpsOf(call.kind) /\ call.op \in Ops /\ call.kind \in Kinds
    BY <1>3 DEF CallFacts, TypeOK, Calls, Ops
  <2>4. call.kind # "read_packets"
    BY <1>3, <2>3 DEF OpsOf, Ops
  <2> QED BY <1>1, <2>1, <2>2, <2>3, <2>4 DEF Sends
<1>4. CASE call.kind # "stop_jam" /\ ~(call.op \in {"RADIO_INIT", "RX_STOP"} /\ call.left > 0)
  BY <1>1, <1>4 DEF GiveUp, Return, EndsWithout, Ends
<1> QED BY <1>2, <1>3, <1>4

(* An answer the call waits for makes it go on or end.                     *)
LEMMA ConcludeIs ==
    ASSUME TypeOK, CallFacts, InCommand, NEW a \in Answers, a.rsp \in Expected, Conclude(a)
    PROVE  Sends \/ EndsWithout \/ (Reply(a) /\ EndsWith(a))
<1> USE LinkAssumption, NoneAssumption
<1>1. call # None /\ accepted = None
  BY DEF InCommand, CallFacts
<1>2. CASE a.rsp = "ERROR"
  <2>1. Fail
    BY <1>2 DEF Conclude
  <2>2. CASE call.kind = "stop_jam"
    BY <1>1, <2>1, <2>2, NextJamStopIs DEF Fail
  <2>3. CASE call.kind # "stop_jam"
    BY <2>1, <2>3 DEF Fail, Return, EndsWithout, Ends
  <2> QED BY <2>2, <2>3
<1>3. CASE a.rsp # "ERROR"
  <2>1. Succeed(a) /\ Reply(a)
    BY <1>3 DEF Conclude, Expected, Reply
  <2>2. CASE call.op = "RADIO_INIT"
    <3>1. Send("init", "GET", 0) /\ accepted' = None
      BY <1>1, <2>1, <2>2 DEF Succeed
    <3>2. sent + 1 + Remaining("GET", 0) <= MaxFrames
      <4>1. Remaining("GET", 0) = 0 /\ sent \in Nat /\ call.left \in Nat
        BY <1>1 DEF Remaining, TypeOK, Calls
      <4>2. sent + Remaining(call.op, call.left) <= MaxFrames
        BY <1>1 DEF CallFacts
      <4>3. Remaining(call.op, call.left) \in Nat /\ Remaining(call.op, call.left) >= 1
        BY <2>2, <4>1 DEF Remaining
      <4> QED BY <4>1, <4>2, <4>3
    <3>3. "GET" \in OpsOf("init") /\ "GET" \in Ops /\ "init" \in Kinds \ {"read_packets"}
      BY DEF OpsOf, Ops, Kinds
    <3> QED BY <3>1, <3>2, <3>3 DEF Sends
  <2>3. CASE call.op # "RADIO_INIT"
    BY <2>1, <2>3 DEF Succeed, Return, EndsWith, Ends
  <2> QED BY <2>1, <2>2, <2>3
<1> QED BY <1>2, <1>3

-----------------------------------------------------------------------------
(* Steps of the host keep the invariant.                                   *)

(* The input buffer keeps its frames, loses the first, or is emptied.      *)
Shrinks ==
    toHost' = toHost \/ (toHost # <<>> /\ toHost' = Tail(toHost)) \/ toHost' = <<>>

(* What is left in the buffer was there, by one place or none later.       *)
LEMMA ShrinkShifts ==
    ASSUME TypeOK, Shrinks
    PROVE  /\ toHost' \in Seq(Answers)
           /\ \E d \in {0, 1} : /\ Len(toHost') + d <= Len(toHost) \/ Len(toHost') = 0
                               /\ \A k \in 1 .. Len(toHost') : toHost'[k] = toHost[k + d]
<1>1. toHost \in Seq(Answers) /\ Len(toHost) \in Nat
  BY DEF TypeOK
<1>2. CASE toHost' = toHost
  BY <1>1, <1>2
<1>3. CASE toHost # <<>> /\ toHost' = Tail(toHost)
  <2>1. /\ toHost' \in Seq(Answers) /\ Len(toHost') = Len(toHost) - 1
        /\ \A k \in 1 .. Len(toHost') : toHost'[k] = toHost[k + 1]
    BY <1>1, <1>3, HeadTailProperties
  <2> QED BY <1>1, <2>1
<1>4. CASE toHost' = <<>>
  BY <1>4
<1> QED BY <1>2, <1>3, <1>4 DEF Shrinks

(* Places in a sequence of n that was the end of one of m.                 *)
LEMMA ShiftedPlace ==
    ASSUME NEW n \in Nat, NEW m \in Nat, NEW d \in {0, 1}, n + d <= m \/ n = 0,
           NEW k \in 1 .. n
    PROVE  /\ k + d \in 1 .. m
           /\ \A l \in k + 1 .. n : l \in 1 .. n /\ l + d \in k + d + 1 .. m
OBVIOUS

(* Reading, losing or flushing frames, with the other state as it is or    *)
(* the call at its end.                                                    *)
LEMMA RestKeepsInv ==
    ASSUME Inv, Shrinks,
           UNCHANGED <<nextSeq, lastSeq, sent, toDev, slot, receiving>>,
           rspSeq' \in Numbers, faults' \in 0 .. MaxFaults, asyncs' \in 0 .. MaxAsync,
           pending' \in Seq(Answers), Buffered',
           call' \in {None, call} \/ call' = [kind |-> "read_packets", op |-> None, left |-> 0],
           accepted' \in Answers \cup {None}, call' # None => accepted' = None, Own',
           quiet' \in BOOLEAN, Quiet'
    PROVE  Inv'
<1> USE LinkAssumption, NoneAssumption
<1>1. PICK d \in {0, 1} : /\ Len(toHost') + d <= Len(toHost) \/ Len(toHost') = 0
                         /\ \A k \in 1 .. Len(toHost') : toHost'[k] = toHost[k + d]
  BY ShrinkShifts DEF Inv
<1>2. /\ toHost \in Seq(Answers) /\ toHost' \in Seq(Answers)
      /\ Len(toHost) \in Nat /\ Len(toHost') \in Nat
  BY ShrinkShifts DEF Inv, TypeOK
<1>3. \A k \in 1 .. Len(toHost') : k + d \in 1 .. Len(toHost) /\ toHost'[k] = toHost[k + d]
  BY <1>1, <1>2, ShiftedPlace
<1>4. TypeOK'
  <2>1. call' \in Calls \cup {None}
    BY DEF Inv, TypeOK, Calls, Kinds
  <2> QED BY <1>2, <2>1 DEF Inv, TypeOK
<1>5. CallFacts'
  <2>1. None \in OpsOf("read_packets") /\ Remaining(None, 0) = 0
    BY DEF OpsOf, Remaining, Ops
  <2> QED BY <2>1 DEF Inv, CallFacts, TypeOK
<1>6. ASSUME NEW b \in 0 .. sent, Numbered(b) PROVE Numbered(b)'
  BY <1>3, <1>6 DEF Numbered
<1>7. Order'
  BY <1>3 DEF Inv, Order
<1>8. LastCommand'
  BY DEF Inv, LastCommand, InCommand
<1>9. Stopped'
  <2> SUFFICES ASSUME call' # None, call'.kind = "stop_rx", NEW k \in 1 .. Len(toHost'),
                      Reply(toHost'[k]), toHost'[k].of = sent'
               PROVE  /\ ~receiving'
                      /\ \A l \in k + 1 .. Len(toHost') : toHost'[l].rsp # "RX_PACKET"
    BY DEF Stopped
  <2>1. call' = call
    OBVIOUS
  <2>2. /\ ~receiving
        /\ \A l \in k + d + 1 .. Len(toHost) : toHost[l].rsp # "RX_PACKET"
    BY <1>3, <2>1 DEF Inv, Stopped, Reply
  <2>3. ASSUME NEW l \in k + 1 .. Len(toHost') PROVE toHost'[l].rsp # "RX_PACKET"
    <3>1. l \in 1 .. Len(toHost') /\ l + d \in k + d + 1 .. Len(toHost)
      BY <1>1, <1>2, ShiftedPlace
    <3> QED BY <1>3, <2>2, <3>1
  <2> QED BY <2>2, <2>3
<1> QED BY <1>4, <1>5, <1>6, <1>7, <1>8, <1>9 DEF Inv

(* Sending the next command.                                               *)
LEMMA SendsKeepInv ==
    ASSUME Inv, Sends, Shrinks, UNCHANGED <<device, bounds>>,
           pending' \in Seq(Answers), Buffered'
    PROVE  Inv'
<1> USE LinkAssumption, NoneAssumption
<1>1. PICK kind \in Kinds \ {"read_packets"}, op \in Ops, left \in Nat :
        /\ Send(kind, op, left)
        /\ op \in OpsOf(kind)
        /\ sent + 1 + Remaining(op, left) <= MaxFrames
        /\ accepted' = None
  BY DEF Sends
<1> DEFINE c == [op |-> op, seq |-> nextSeq, of |-> sent + 1]
<1>2. /\ call' = [kind |-> kind, op |-> op, left |-> left]
      /\ lastSeq' = nextSeq /\ nextSeq' = NextSeq(nextSeq)
      /\ sent' = sent + 1
      /\ toDev' = Append(toDev, c)
      /\ quiet' = (quiet /\ op # "RX_START")
  BY <1>1 DEF Send
<1>3. PICK d \in {0, 1} : /\ Len(toHost') + d <= Len(toHost) \/ Len(toHost') = 0
                         /\ \A k \in 1 .. Len(toHost') : toHost'[k] = toHost[k + d]
  BY ShrinkShifts DEF Inv
<1>4. /\ toHost' \in Seq(Answers) /\ Len(toHost) \in Nat /\ Len(toHost') \in Nat
      /\ \A k \in 1 .. Len(toHost') : k + d \in 1 .. Len(toHost) /\ toHost'[k] = toHost[k + d]
  <2>1. toHost \in Seq(Answers) /\ toHost' \in Seq(Answers)
    BY ShrinkShifts DEF Inv, TypeOK
  <2>2. Len(toHost) \in Nat /\ Len(toHost') \in Nat
    BY <2>1, LenProperties
  <2>3. \A k \in 1 .. Len(toHost') : k + d \in 1 .. Len(toHost)
    BY <1>3, <2>2, ShiftedPlace
  <2> QED BY <1>3, <2>1, <2>2, <2>3
<1>5. /\ sent \in Nat /\ sent + 1 \in 1 .. MaxFrames /\ sent <= SeqMod
      /\ slot' = slot /\ receiving' = receiving
  <2>1. sent \in Nat /\ MaxFrames \in Nat /\ MaxFrames <= SeqMod + 1
    BY DEF Inv, TypeOK
  <2>2. Remaining(op, left) \in Nat
    BY DEF Remaining
  <2> QED BY <1>1, <2>1, <2>2 DEF device
<1>6. c \in Commands
  BY <1>5 DEF Commands, Inv, TypeOK
<1>7. /\ toDev \in Seq(Commands) /\ Len(toDev) \in Nat /\ toDev' \in Seq(Commands)
      /\ Len(toDev') = Len(toDev) + 1
      /\ \A i \in 1 .. Len(toDev) : toDev'[i] = toDev[i]
      /\ toDev'[Len(toDev) + 1] = c
  <2>1. toDev \in Seq(Commands)
    BY DEF Inv, TypeOK
  <2> HIDE DEF c
  <2> QED BY <1>2, <1>6, <2>1
<1>8. c.op = op /\ c.seq = nextSeq /\ c.of = sent + 1
  OBVIOUS
<1> HIDE DEF c
<1>9. \A i \in 1 .. Len(toDev') : i \in 1 .. Len(toDev) \/ i = Len(toDev')
  BY <1>7
<1>10. PICK b \in 0 .. sent : Numbered(b)
  BY DEF Inv
<1>11. ASSUME NEW k \in 1 .. Len(toHost'), Reply(toHost'[k])
        PROVE  toHost'[k].of \in b + 1 .. sent /\ toHost'[k].seq = Number(toHost'[k].of - b - 1)
  <2>1. k + d \in 1 .. Len(toHost) /\ toHost'[k] = toHost[k + d] /\ Reply(toHost[k + d])
    BY <1>4, <1>11
  <2> QED BY <1>10, <2>1 DEF Numbered
<1>12. ASSUME NEW i \in 1 .. Len(toDev) PROVE toDev[i].of \in b + 1 .. sent
  BY <1>10 DEF Numbered
<1>13. nextSeq = Number(sent - b) /\ sent - b \in 0 .. SeqMod
  BY <1>5, <1>10 DEF Numbered
<1>14. nextSeq' \in Numbers /\ nextSeq' = Number(sent - b + 1)
  <2>1. sent - b + 1 \in 0 .. SeqMod \/ sent - b + 1 = SeqMod + 1
    BY <1>13
  <2>2. NextSeq(nextSeq) \in Numbers
    BY Z3, <1>13 DEF NextSeq, Numbers, Number
  <2> QED BY <1>2, <1>13, <2>2, NumberNext
<1>15. TypeOK'
  <2>1. call' \in Calls
    BY <1>2 DEF Calls
  <2>2. sent' \in 0 .. MaxFrames /\ quiet' \in BOOLEAN
    BY <1>2, <1>5 DEF Inv, TypeOK
  <2>3. nextSeq' \in Numbers /\ lastSeq' \in Numbers /\ rspSeq' \in Numbers
    BY <1>2, <1>14 DEF Inv, TypeOK, device
  <2>4. slot' \in Commands \cup {None} /\ receiving' \in BOOLEAN
    BY DEF Inv, TypeOK, device
  <2>5. faults' \in 0 .. MaxFaults /\ asyncs' \in 0 .. MaxAsync
    BY DEF Inv, TypeOK, bounds
  <2>6. accepted' \in Answers \cup {None}
    BY <1>1
  <2> QED BY <1>4, <1>7, <2>1, <2>2, <2>3, <2>4, <2>5, <2>6 DEF TypeOK
<1>16. CallFacts'
  BY <1>1, <1>2 DEF CallFacts
<1>17. Numbered(b)'
  <2>1. b \in 0 .. sent' /\ nextSeq' = Number(sent' - b) /\ lastSeq' = Number(sent' - b - 1)
    BY <1>2, <1>5, <1>13, <1>14
  <2>2. ASSUME NEW i \in 1 .. Len(toDev')
        PROVE  toDev'[i].of \in b + 1 .. sent' /\ toDev'[i].seq = Number(toDev'[i].of - b - 1)
    <3>1. CASE i \in 1 .. Len(toDev)
      <4>1. toDev[i].of \in b + 1 .. sent /\ toDev[i].seq = Number(toDev[i].of - b - 1)
        BY <1>10, <3>1 DEF Numbered
      <4>2. toDev'[i] = toDev[i] /\ b + 1 .. sent \subseteq b + 1 .. sent'
        BY <1>2, <1>5, <1>7, <3>1
      <4> QED BY <4>1, <4>2
    <3>2. CASE i = Len(toDev')
      <4>1. toDev'[i].of = sent + 1 /\ toDev'[i].seq = Number(sent - b)
        BY <1>7, <1>8, <1>13, <3>2
      <4>2. sent + 1 \in b + 1 .. sent' /\ (sent + 1) - b - 1 = sent - b
        BY <1>2, <1>5
      <4> QED BY <4>1, <4>2
    <3> QED BY <1>9, <3>1, <3>2
  <2>3. slot' # None => slot'.of \in b + 1 .. sent' /\ slot'.seq = Number(slot'.of - b - 1)
    BY <1>2, <1>5, <1>10 DEF Numbered
  <2>4. ASSUME NEW k \in 1 .. Len(toHost'), Reply(toHost'[k])
        PROVE  toHost'[k].of \in b + 1 .. sent' /\ toHost'[k].seq = Number(toHost'[k].of - b - 1)
    <3>1. /\ toHost'[k].of \in b + 1 .. sent
          /\ toHost'[k].seq = Number(toHost'[k].of - b - 1)
      BY <1>11, <2>4
    <3>2. b + 1 .. sent \subseteq b + 1 .. sent'
      BY <1>2, <1>5
    <3> QED BY <3>1, <3>2
  <2> QED BY <2>1, <2>2, <2>3, <2>4 DEF Numbered
<1>18. Order'
  <2>1. ASSUME NEW i \in 1 .. Len(toDev'), NEW j \in 1 .. Len(toDev'), i < j
        PROVE  toDev'[i].of < toDev'[j].of
    <3>1. CASE j \in 1 .. Len(toDev)
      <4>1. i \in 1 .. Len(toDev)
        BY <1>7, <2>1, <3>1
      <4>2. toDev[i].of < toDev[j].of
        BY <2>1, <3>1, <4>1 DEF Inv, Order
      <4> QED BY <1>7, <3>1, <4>1, <4>2
    <3>2. CASE j = Len(toDev')
      <4>1. i \in 1 .. Len(toDev) /\ toDev'[i] = toDev[i] /\ toDev'[j].of = sent + 1
        BY <1>7, <1>8, <2>1, <3>2
      <4> QED BY <1>5, <1>12, <4>1
    <3> QED BY <1>9, <3>1, <3>2
  <2>2. ASSUME slot' # None, NEW i \in 1 .. Len(toDev') PROVE slot'.of < toDev'[i].of
    <3>1. CASE i \in 1 .. Len(toDev)
      BY <1>5, <1>7, <2>2, <3>1 DEF Inv, Order
    <3>2. CASE i = Len(toDev')
      <4>1. toDev'[i].of = sent + 1
        BY <1>7, <1>8, <3>2
      <4>2. slot'.of \in b + 1 .. sent
        BY <1>5, <1>10, <2>2 DEF Numbered
      <4> QED BY <1>5, <4>1, <4>2
    <3> QED BY <1>9, <3>1, <3>2
  <2>3. ASSUME NEW k \in 1 .. Len(toHost'), Reply(toHost'[k]), slot' # None
        PROVE  toHost'[k].of < slot'.of
    BY <1>4, <1>5, <2>3 DEF Inv, Order
  <2>4. ASSUME NEW k \in 1 .. Len(toHost'), Reply(toHost'[k]), NEW i \in 1 .. Len(toDev')
        PROVE  toHost'[k].of < toDev'[i].of
    <3>1. CASE i \in 1 .. Len(toDev)
      BY <1>4, <1>7, <2>4, <3>1 DEF Inv, Order
    <3>2. CASE i = Len(toDev')
      <4>1. toDev'[i].of = sent + 1
        BY <1>7, <1>8, <3>2
      <4> QED BY <1>5, <1>11, <2>4, <4>1
    <3> QED BY <1>9, <3>1, <3>2
  <2> QED BY <2>1, <2>2, <2>3, <2>4 DEF Order
<1>19. LastCommand'
  <2>1. ASSUME NEW i \in 1 .. Len(toDev'), toDev'[i].of = sent' PROVE toDev'[i].op = call'.op
    <3>1. CASE i \in 1 .. Len(toDev)
      <4>1. toDev'[i].of \in b + 1 .. sent
        BY <1>7, <1>10, <3>1 DEF Numbered
      <4> QED BY <1>2, <1>5, <2>1, <4>1
    <3>2. CASE i = Len(toDev')
      BY <1>2, <1>7, <1>8, <3>2
    <3> QED BY <1>9, <3>1, <3>2
  <2>2. slot' # None => slot'.of # sent'
    BY <1>2, <1>5, <1>10 DEF Numbered
  <2> QED BY <2>1, <2>2 DEF LastCommand
<1>20. Stopped'
  <2>1. ASSUME NEW k \in 1 .. Len(toHost'), Reply(toHost'[k]) PROVE toHost'[k].of # sent'
    BY <1>2, <1>5, <1>11, <2>1
  <2> QED BY <2>1 DEF Stopped
<1>21. Own'
  BY <1>1 DEF Own
<1>22. Quiet'
  <2>1. ASSUME quiet', NEW i \in 1 .. Len(toDev') PROVE toDev'[i].op # "RX_START"
    <3>1. quiet /\ op # "RX_START"
      BY <1>2, <2>1
    <3>2. CASE i \in 1 .. Len(toDev)
      BY <1>7, <3>1, <3>2 DEF Inv, Quiet
    <3>3. CASE i = Len(toDev')
      BY <1>7, <1>8, <3>1, <3>3
    <3> QED BY <1>9, <3>2, <3>3
  <2>2. quiet' => quiet
    BY <1>2
  <2> QED BY <1>4, <1>5, <2>1, <2>2 DEF Inv, Quiet
<1>23. b \in 0 .. sent'
  BY <1>17 DEF Numbered
<1> QED BY <1>15, <1>16, <1>17, <1>18, <1>19, <1>20, <1>21, <1>22, <1>23 DEF Inv

-----------------------------------------------------------------------------
(* Steps of the device and of the link keep the invariant.                 *)

(* A frame is sent to the host: the answer to the command in the slot, a   *)
(* packet of the reception under way, or a report of failure.              *)
LEMMA AnswerKeepsInv ==
    ASSUME Inv, UNCHANGED <<host, toDev>>, NEW a \in Answers, toHost' = Append(toHost, a),
           slot' = slot \/ slot' = None,
           Reply(a) => slot # None /\ slot' = None /\ a.of = slot.of /\ a.seq = slot.seq,
           a.rsp = "RX_PACKET" => receiving,
           receiving' => receiving \/ (slot # None /\ slot.op = "RX_START"),
           Reply(a) /\ slot.op = "RX_STOP" => ~receiving',
           receiving' \in BOOLEAN, rspSeq' \in Numbers,
           faults' \in 0 .. MaxFaults, asyncs' \in 0 .. MaxAsync
    PROVE  Inv'
<1> USE LinkAssumption, NoneAssumption
<1>1. /\ UNCHANGED <<nextSeq, lastSeq, call, pending, sent, accepted, quiet, toDev>>
      /\ sent \in Nat
  BY DEF host, Inv, TypeOK
<1>2. /\ toHost \in Seq(Answers) /\ toHost' \in Seq(Answers)
      /\ Len(toHost) \in Nat /\ Len(toHost') = Len(toHost) + 1
      /\ \A k \in 1 .. Len(toHost) : toHost'[k] = toHost[k]
      /\ toHost'[Len(toHost) + 1] = a
  BY AppendProperties DEF Inv, TypeOK
<1>3. \A k \in 1 .. Len(toHost') :
        (k \in 1 .. Len(toHost) /\ toHost'[k] = toHost[k]) \/ (k = Len(toHost') /\ toHost'[k] = a)
  BY <1>2
<1>4. TypeOK'
  <2>1. slot' \in Commands \cup {None}
    BY DEF Inv, TypeOK
  <2> QED BY <1>1, <1>2, <2>1 DEF Inv, TypeOK
<1>5. CallFacts' /\ Buffered' /\ Own'
  BY <1>1 DEF Inv, CallFacts, Buffered, Own
<1>6. ASSUME NEW b \in 0 .. sent, Numbered(b) PROVE Numbered(b)'
  <2>1. ASSUME NEW k \in 1 .. Len(toHost'), Reply(toHost'[k])
        PROVE  toHost'[k].of \in b + 1 .. sent /\ toHost'[k].seq = Number(toHost'[k].of - b - 1)
    <3>1. CASE k \in 1 .. Len(toHost) /\ toHost'[k] = toHost[k]
      BY <1>6, <2>1, <3>1 DEF Numbered
    <3>2. CASE toHost'[k] = a
      BY <1>6, <2>1, <3>2 DEF Numbered
    <3> QED BY <1>3, <3>1, <3>2
  <2>2. slot' # None => slot'.of \in b + 1 .. sent /\ slot'.seq = Number(slot'.of - b - 1)
    BY <1>6 DEF Numbered
  <2> QED BY <1>1, <1>6, <2>1, <2>2 DEF Numbered
<1>7. Order'
  <2>1. ASSUME NEW k \in 1 .. Len(toHost'), Reply(toHost'[k])
        PROVE  /\ slot' # None => toHost'[k].of < slot'.of
               /\ \A i \in 1 .. Len(toDev') : toHost'[k].of < toDev'[i].of
    <3>1. CASE k \in 1 .. Len(toHost) /\ toHost'[k] = toHost[k]
      BY <1>1, <2>1, <3>1 DEF Inv, Order
    <3>2. CASE toHost'[k] = a
      BY <1>1, <2>1, <3>2 DEF Inv, Order
    <3> QED BY <1>3, <3>1, <3>2
  <2>2. slot' # None => \A i \in 1 .. Len(toDev') : slot'.of < toDev'[i].of
    BY <1>1 DEF Inv, Order
  <2>3. \A i, j \in 1 .. Len(toDev') : i < j => toDev'[i].of < toDev'[j].of
    BY <1>1 DEF Inv, Order
  <2> QED BY <2>1, <2>2, <2>3 DEF Order
<1>8. LastCommand'
  BY <1>1 DEF Inv, LastCommand, InCommand
<1>9. Stopped'
  <2> SUFFICES ASSUME call' # None, call'.kind = "stop_rx", NEW k \in 1 .. Len(toHost'),
                      Reply(toHost'[k]), toHost'[k].of = sent'
               PROVE  /\ ~receiving'
                      /\ \A l \in k + 1 .. Len(toHost') : toHost'[l].rsp # "RX_PACKET"
    BY DEF Stopped
  <2>1. call # None /\ call.kind = "stop_rx" /\ call.op = "RX_STOP" /\ InCommand
    BY <1>1 DEF Inv, CallFacts, OpsOf, InCommand
  <2>2. CASE k \in 1 .. Len(toHost) /\ toHost'[k] = toHost[k]
    <3>1. Reply(toHost[k]) /\ toHost[k].of = sent
      BY <1>1, <2>2
    <3>2. ~receiving /\ \A l \in k + 1 .. Len(toHost) : toHost[l].rsp # "RX_PACKET"
      BY <2>1, <2>2, <3>1 DEF Inv, Stopped
    <3>3. slot = None
      <4>1. slot # None => toHost[k].of < slot.of /\ slot.of <= sent /\ slot.of \in Nat
        <5>1. PICK b \in 0 .. sent : Numbered(b)
          BY DEF Inv
        <5>2. sent \in Nat /\ (slot # None => slot.of \in b + 1 .. sent)
          BY <5>1 DEF Numbered, Inv, TypeOK
        <5>3. slot # None => toHost[k].of < slot.of
          BY <2>2, <3>1 DEF Inv, Order
        <5> QED BY <5>2, <5>3
      <4> QED BY <1>1, <3>1, <4>1
    <3>4. ~receiving' /\ a.rsp # "RX_PACKET"
      BY <3>2, <3>3
    <3>5. \A l \in k + 1 .. Len(toHost') : l \in k + 1 .. Len(toHost) \/ l = Len(toHost')
      BY <1>2
    <3>6. \A l \in k + 1 .. Len(toHost) : toHost'[l] = toHost[l]
      BY <1>2, <2>2
    <3> QED BY <1>2, <3>2, <3>4, <3>5, <3>6
  <2>3. CASE k = Len(toHost') /\ toHost'[k] = a
    <3>1. Reply(a) /\ slot # None /\ slot.of = sent
      BY <1>1, <2>3
    <3>2. slot.op = "RX_STOP"
      BY <2>1, <3>1 DEF Inv, LastCommand
    <3>3. ~ \E l \in k + 1 .. Len(toHost') : TRUE
      BY <1>2, <2>3
    <3> QED BY <3>1, <3>2, <3>3
  <2> QED BY <1>3, <2>2, <2>3
<1>10. Quiet'
  <2> SUFFICES ASSUME quiet'
               PROVE  /\ ~receiving'
                      /\ \A k \in 1 .. Len(toHost') : toHost'[k].rsp # "RX_PACKET"
                      /\ \A i \in 1 .. Len(toDev') : toDev'[i].op # "RX_START"
                      /\ slot' # None => slot'.op # "RX_START"
    BY DEF Quiet
  <2>1. /\ ~receiving /\ \A k \in 1 .. Len(toHost) : toHost[k].rsp # "RX_PACKET"
        /\ \A i \in 1 .. Len(toDev) : toDev[i].op # "RX_START"
        /\ slot # None => slot.op # "RX_START"
    BY <1>1 DEF Inv, Quiet
  <2> QED BY <1>1, <1>3, <2>1
<1> QED BY <1>1, <1>4, <1>5, <1>6, <1>7, <1>8, <1>9, <1>10 DEF Inv

(* A command reaches the slot, is refused, or is lost.                     *)
LEMMA ArrivalKeepsInv ==
    ASSUME Inv, UNCHANGED <<host, receiving, rspSeq>>,
           toDev # <<>>, toDev' = Tail(toDev),
           slot' = slot \/ (slot = None /\ slot' = Head(toDev)),
           toHost' = toHost \/ (\E a \in Answers : a.rsp = "ERROR" /\ toHost' = Append(toHost, a)),
           faults' \in 0 .. MaxFaults, asyncs' \in 0 .. MaxAsync
    PROVE  Inv'
<1> USE LinkAssumption, NoneAssumption
<1>1. /\ UNCHANGED <<nextSeq, lastSeq, call, pending, sent, accepted, quiet>>
      /\ sent \in Nat
  BY DEF host, Inv, TypeOK
<1>2. /\ toDev \in Seq(Commands) /\ toDev' \in Seq(Commands) /\ Head(toDev) \in Commands
      /\ Len(toDev) \in Nat /\ Len(toDev') = Len(toDev) - 1
      /\ Head(toDev) = toDev[1] /\ 1 \in 1 .. Len(toDev)
      /\ \A i \in 1 .. Len(toDev') : i + 1 \in 2 .. Len(toDev) /\ toDev'[i] = toDev[i + 1]
  <2>1. toDev \in Seq(Commands)
    BY DEF Inv, TypeOK
  <2>2. /\ toDev' \in Seq(Commands) /\ Head(toDev) \in Commands
        /\ Len(toDev') = Len(toDev) - 1 /\ Len(toDev) \in Nat
        /\ \A i \in 1 .. Len(toDev') : toDev'[i] = toDev[i + 1]
    BY <2>1, HeadTailProperties
  <2>3. Len(toDev) # 0 /\ Head(toDev) = toDev[1]
    BY <2>1, EmptySeq
  <2> QED BY <2>1, <2>2, <2>3
<1>3. /\ toHost \in Seq(Answers) /\ toHost' \in Seq(Answers)
      /\ Len(toHost) \in Nat /\ Len(toHost') \in Nat
      /\ \A k \in 1 .. Len(toHost') :
           (k \in 1 .. Len(toHost) /\ toHost'[k] = toHost[k]) \/ toHost'[k].rsp = "ERROR"
  <2>1. toHost \in Seq(Answers)
    BY DEF Inv, TypeOK
  <2>2. CASE toHost' = toHost
    BY <2>1, <2>2
  <2>3. ASSUME NEW a \in Answers, a.rsp = "ERROR", toHost' = Append(toHost, a)
        PROVE <1>3!:
    <3>1. /\ toHost' \in Seq(Answers) /\ Len(toHost') = Len(toHost) + 1
          /\ \A k \in 1 .. Len(toHost) : toHost'[k] = toHost[k]
          /\ toHost'[Len(toHost) + 1] = a
      BY <2>1, <2>3, AppendProperties
    <3> QED BY <2>1, <2>3, <3>1
  <2> QED BY <2>2, <2>3
<1>4. \A k \in 1 .. Len(toHost') : Reply(toHost'[k]) \/ toHost'[k].rsp = "RX_PACKET" =>
        k \in 1 .. Len(toHost) /\ toHost'[k] = toHost[k]
  BY <1>3 DEF Reply
<1>5. \A i \in 1 .. Len(toDev') : i + 1 \in 1 .. Len(toDev) /\ toDev'[i] = toDev[i + 1]
  BY <1>2
<1>6. TypeOK'
  <2>1. slot' \in Commands \cup {None}
    BY <1>2 DEF Inv, TypeOK
  <2> QED BY <1>1, <1>2, <1>3, <2>1 DEF Inv, TypeOK
<1>7. CallFacts' /\ Buffered' /\ Own'
  BY <1>1 DEF Inv, CallFacts, Buffered, Own
<1>8. ASSUME NEW b \in 0 .. sent, Numbered(b) PROVE Numbered(b)'
  <2>1. ASSUME NEW k \in 1 .. Len(toHost'), Reply(toHost'[k])
        PROVE  toHost'[k].of \in b + 1 .. sent /\ toHost'[k].seq = Number(toHost'[k].of - b - 1)
    BY <1>4, <1>8, <2>1 DEF Numbered
  <2>2. slot' # None => slot'.of \in b + 1 .. sent /\ slot'.seq = Number(slot'.of - b - 1)
    BY <1>2, <1>8 DEF Numbered
  <2>3. ASSUME NEW i \in 1 .. Len(toDev')
        PROVE  toDev'[i].of \in b + 1 .. sent /\ toDev'[i].seq = Number(toDev'[i].of - b - 1)
    BY <1>5, <1>8 DEF Numbered
  <2> QED BY <1>1, <1>8, <2>1, <2>2, <2>3 DEF Numbered
<1>9. Order'
  <2>1. ASSUME NEW i \in 1 .. Len(toDev'), NEW j \in 1 .. Len(toDev'), i < j
        PROVE  toDev'[i].of < toDev'[j].of
    <3>1. i + 1 < j + 1
      BY <1>2, <2>1
    <3> QED BY <1>5, <3>1 DEF Inv, Order
  <2>2. ASSUME slot' # None, NEW i \in 1 .. Len(toDev') PROVE slot'.of < toDev'[i].of
    <3>1. i + 1 \in 1 .. Len(toDev) /\ 1 < i + 1 /\ toDev'[i] = toDev[i + 1]
      BY <1>2, <1>5
    <3> QED BY <1>2, <2>2, <3>1 DEF Inv, Order
  <2>3. ASSUME NEW k \in 1 .. Len(toHost'), Reply(toHost'[k])
        PROVE  /\ slot' # None => toHost'[k].of < slot'.of
               /\ \A i \in 1 .. Len(toDev') : toHost'[k].of < toDev'[i].of
    BY <1>2, <1>4, <1>5, <2>3 DEF Inv, Order
  <2> QED BY <2>1, <2>2, <2>3 DEF Order
<1>10. LastCommand'
  <2> SUFFICES ASSUME InCommand
               PROVE  /\ \A i \in 1 .. Len(toDev') : toDev'[i].of = sent => toDev'[i].op = call.op
                      /\ slot' # None /\ slot'.of = sent => slot'.op = call.op
    BY <1>1 DEF LastCommand, InCommand
  <2> QED BY <1>2, <1>5 DEF Inv, LastCommand
<1>11. Stopped'
  <2> SUFFICES ASSUME call' # None, call'.kind = "stop_rx", NEW k \in 1 .. Len(toHost'),
                      Reply(toHost'[k]), toHost'[k].of = sent'
               PROVE  /\ ~receiving'
                      /\ \A l \in k + 1 .. Len(toHost') : toHost'[l].rsp # "RX_PACKET"
    BY DEF Stopped
  <2>1. k \in 1 .. Len(toHost) /\ Reply(toHost[k]) /\ toHost[k].of = sent
    BY <1>1, <1>4
  <2>2. ~receiving /\ \A l \in k + 1 .. Len(toHost) : toHost[l].rsp # "RX_PACKET"
    BY <1>1, <2>1 DEF Inv, Stopped
  <2>3. ASSUME NEW l \in k + 1 .. Len(toHost'), toHost'[l].rsp = "RX_PACKET" PROVE FALSE
    <3>1. l \in 1 .. Len(toHost')
      BY <1>3, <2>1
    <3>2. l \in 1 .. Len(toHost) /\ toHost'[l] = toHost[l]
      BY <1>4, <2>3, <3>1
    <3>3. l \in k + 1 .. Len(toHost)
      BY <1>3, <3>2
    <3> QED BY <2>2, <2>3, <3>2, <3>3
  <2> QED BY <2>2, <2>3
<1>12. Quiet'
  BY <1>1, <1>2, <1>4, <1>5 DEF Inv, Quiet
<1> QED BY <1>1, <1>6, <1>7, <1>8, <1>9, <1>10, <1>11, <1>12 DEF Inv

-----------------------------------------------------------------------------
(* Each action keeps the invariant.                                        *)

(* What is left after an element was taken out was there before.           *)
LEMMA WithoutIs ==
    ASSUME NEW S, NEW s \in Seq(S), NEW i \in 1 .. Len(s)
    PROVE  /\ Without(s, i) \in Seq(S)
           /\ \A j \in 1 .. Len(Without(s, i)) : \E k \in 1 .. Len(s) : Without(s, i)[j] = s[k]
<1> DEFINE p == SubSeq(s, 1, i - 1)
           q == SubSeq(s, i + 1, Len(s))
<1>1. /\ p \in Seq(S) /\ Len(p) = i - 1
      /\ \A j \in 1 .. Len(p) : p[j] = s[j]
  <2>1. 1 \in 1 .. Len(s) + 1 /\ i - 1 \in 1 - 1 .. Len(s) /\ Len(s) \in Nat
    OBVIOUS
  <2>2. \A j \in 1 .. i - 1 : j \in 1 .. Len(s) /\ s[j] \in S
    BY <2>1
  <2> QED BY <2>1, <2>2, SubSeqProperties
<1>2. /\ q \in Seq(S) /\ Len(q) = Len(s) - i
      /\ \A j \in 1 .. Len(q) : q[j] = s[i + j]
  <2>1. i + 1 \in 1 .. Len(s) + 1 /\ Len(s) \in i + 1 - 1 .. Len(s) /\ Len(s) \in Nat
    OBVIOUS
  <2>2. \A j \in i + 1 .. Len(s) : j \in 1 .. Len(s) /\ s[j] \in S
    BY <2>1
  <2> QED BY <2>1, <2>2, SubSeqProperties
<1> HIDE DEF p, q
<1>3. /\ p \o q \in Seq(S) /\ Len(p \o q) = Len(p) + Len(q)
      /\ \A j \in 1 .. Len(p) + Len(q) :
            (p \o q)[j] = IF j <= Len(p) THEN p[j] ELSE q[j - Len(p)]
  BY <1>1, <1>2, ConcatProperties
<1>4. ASSUME NEW j \in 1 .. Len(p \o q) PROVE \E k \in 1 .. Len(s) : (p \o q)[j] = s[k]
  <2>1. CASE j <= Len(p)
    <3>1. (p \o q)[j] = s[j] /\ j \in 1 .. Len(s)
      BY <1>1, <1>3, <2>1
    <3> QED BY <3>1
  <2>2. CASE ~(j <= Len(p))
    <3>1. j - Len(p) \in 1 .. Len(q) /\ i + (j - Len(p)) \in 1 .. Len(s)
      BY <1>1, <1>2, <1>3, <2>2
    <3>2. (p \o q)[j] = s[i + (j - Len(p))]
      BY <1>2, <1>3, <2>2, <3>1
    <3> QED BY <3>1, <3>2
  <2> QED BY <2>1, <2>2
<1> QED BY <1>3, <1>4 DEF Without, p, q

(* A quiet device stays so while frames are read, lost or flushed.         *)
LEMMA QuietShrinks ==
    ASSUME Inv, Shrinks, UNCHANGED <<toDev, slot, receiving>>, quiet
    PROVE  Quiet'
<1>1. PICK d \in {0, 1} : /\ Len(toHost') + d <= Len(toHost) \/ Len(toHost') = 0
                         /\ \A k \in 1 .. Len(toHost') : toHost'[k] = toHost[k + d]
  BY ShrinkShifts DEF Inv
<1>2. Len(toHost) \in Nat /\ Len(toHost') \in Nat
  BY ShrinkShifts DEF Inv, TypeOK
<1>3. \A k \in 1 .. Len(toHost') : k + d \in 1 .. Len(toHost) /\ toHost'[k] = toHost[k + d]
  BY <1>1, <1>2, ShiftedPlace
<1> QED BY <1>3 DEF Inv, Quiet

(* A call ends without an answer.                                          *)
LEMMA EndKeepsInv ==
    ASSUME Inv, EndsWithout, Shrinks, UNCHANGED <<device, bounds>>,
           pending' \in Seq(Answers), Buffered'
    PROVE  Inv'
<1>1. /\ UNCHANGED <<nextSeq, lastSeq, sent, toDev, slot, receiving, rspSeq, faults, asyncs,
                     accepted, quiet>>
      /\ call' = None
  BY DEF EndsWithout, Ends, device, bounds
<1>2. Quiet'
  <2>1. CASE quiet
    BY <1>1, <2>1, QuietShrinks
  <2>2. CASE ~quiet
    BY <1>1, <2>2 DEF Quiet
  <2> QED BY <2>1, <2>2
<1>3. Own'
  BY <1>1 DEF Inv, Own
<1>4. /\ rspSeq' \in Numbers /\ faults' \in 0 .. MaxFaults /\ asyncs' \in 0 .. MaxAsync
      /\ accepted' \in Answers \cup {None} /\ quiet' \in BOOLEAN
  BY <1>1 DEF Inv, TypeOK
<1> QED BY <1>1, <1>2, <1>3, <1>4, RestKeepsInv

(* A call ends with an answer from the buffer, which carries the number 0. *)
LEMMA BufferedAnswerKeepsInv ==
    ASSUME Inv, NEW a \in Answers, a.seq = 0, EndsWith(a), Shrinks,
           UNCHANGED <<device, bounds>>, pending' \in Seq(Answers), Buffered'
    PROVE  Inv'
<1>1. /\ UNCHANGED <<nextSeq, lastSeq, sent, toDev, slot, receiving, rspSeq, faults, asyncs>>
      /\ call' = None /\ accepted' = a /\ quiet' = quiet
  BY DEF EndsWith, Ends, device, bounds, Inv, TypeOK
<1>2. Quiet'
  <2>1. CASE quiet
    BY <1>1, <2>1, QuietShrinks
  <2>2. CASE ~quiet
    BY <1>1, <2>2 DEF Quiet
  <2> QED BY <2>1, <2>2
<1>3. Own'
  BY <1>1 DEF Own
<1>4. /\ rspSeq' \in Numbers /\ faults' \in 0 .. MaxFaults /\ asyncs' \in 0 .. MaxAsync
      /\ accepted' \in Answers \cup {None} /\ quiet' \in BOOLEAN
  BY <1>1 DEF Inv, TypeOK
<1> QED BY <1>1, <1>2, <1>3, <1>4, RestKeepsInv

(* A call ends with the frame it has just read.                            *)
LEMMA AnswerReadKeepsInv ==
    ASSUME Inv, InCommand, toHost # <<>>, toHost' = Tail(toHost),
           Reply(Head(toHost)), ~Stale(Head(toHost)), EndsWith(Head(toHost)),
           UNCHANGED <<device, bounds, pending>>
    PROVE  Inv'
<1> USE LinkAssumption, NoneAssumption
<1> DEFINE a == Head(toHost)
<1>1. /\ UNCHANGED <<nextSeq, lastSeq, sent, toDev, slot, receiving, rspSeq, faults, asyncs, pending>>
      /\ call' = None /\ accepted' = a
      /\ quiet' = (quiet \/ (call.kind = "stop_rx" /\ a.seq # 0))
  BY DEF EndsWith, Ends, device, bounds
<1>2. /\ toHost \in Seq(Answers) /\ Len(toHost) \in Nat /\ 1 \in 1 .. Len(toHost)
      /\ a = toHost[1] /\ a \in Answers
      /\ Len(toHost') = Len(toHost) - 1
      /\ \A k \in 1 .. Len(toHost') : toHost'[k] = toHost[k + 1]
  <2>1. toHost \in Seq(Answers)
    BY DEF Inv, TypeOK
  <2>2. /\ a \in Answers /\ Len(toHost') = Len(toHost) - 1 /\ Len(toHost) \in Nat
        /\ \A k \in 1 .. Len(toHost') : toHost'[k] = toHost[k + 1]
    BY <2>1, HeadTailProperties
  <2>3. Len(toHost) # 0 /\ a = toHost[1]
    BY <2>1, EmptySeq
  <2> QED BY <2>1, <2>2, <2>3
<1>3. Reply(a) /\ (a.seq # 0 => a.seq = lastSeq)
  BY DEF Stale
<1> HIDE DEF a
<1>4. ASSUME a.seq # 0 PROVE a.of = sent
  <2>1. PICK b \in 0 .. sent : Numbered(b)
    BY DEF Inv
  <2>2. a.of \in b + 1 .. sent /\ a.seq = Number(a.of - b - 1)
    BY <1>2, <1>3, <2>1 DEF Numbered
  <2>3. /\ sent \in Nat /\ b \in Nat /\ sent > b
        /\ a.of - b - 1 \in 0 .. SeqMod /\ sent - b - 1 \in 0 .. SeqMod
    <3>1. sent \in Nat /\ sent <= SeqMod + 1
      BY DEF Inv, TypeOK
    <3> QED BY <2>2, <3>1
  <2>4. Number(a.of - b - 1) = Number(sent - b - 1)
    BY <1>3, <1>4, <2>1, <2>2, <2>3 DEF Numbered
  <2>5. a.of - b - 1 = sent - b - 1
    BY <1>4, <2>2, <2>3, <2>4, NumberOnce
  <2> QED BY <2>2, <2>3, <2>5
<1>5. Own'
  BY <1>1, <1>4 DEF Own
<1>6. Shrinks
  BY DEF Shrinks
<1>7. Quiet'
  <2>1. CASE quiet
    BY <1>1, <1>6, <2>1, QuietShrinks
  <2>2. CASE call.kind = "stop_rx" /\ a.seq # 0
    <3>1. a.of = sent /\ call # None /\ sent \in Nat
      BY <1>4, <2>2 DEF InCommand, Inv, TypeOK
    <3>2. ~receiving /\ \A l \in 1 + 1 .. Len(toHost) : toHost[l].rsp # "RX_PACKET"
      BY <1>2, <1>3, <2>2, <3>1 DEF Inv, Stopped
    <3>3. \A k \in 1 .. Len(toHost') : toHost'[k].rsp # "RX_PACKET"
      <4>1. \A k \in 1 .. Len(toHost') : k + 1 \in 1 + 1 .. Len(toHost)
        BY <1>2
      <4> QED BY <1>2, <3>2, <4>1
    <3>4. PICK b \in 0 .. sent : Numbered(b)
      BY DEF Inv
    <3>5. slot = None
      <4>1. slot # None => sent < slot.of /\ slot.of \in b + 1 .. sent
        BY <1>2, <1>3, <3>1, <3>4 DEF Inv, Order, Numbered
      <4> QED BY <3>1, <4>1
    <3>6. ASSUME NEW i \in 1 .. Len(toDev) PROVE FALSE
      <4>1. sent < toDev[i].of /\ toDev[i].of \in b + 1 .. sent
        BY <1>2, <1>3, <3>1, <3>4 DEF Inv, Order, Numbered
      <4> QED BY <3>1, <4>1
    <3> QED BY <1>1, <3>2, <3>3, <3>5, <3>6 DEF Quiet
  <2>3. CASE ~quiet /\ ~(call.kind = "stop_rx" /\ a.seq # 0)
    BY <1>1, <2>3 DEF Quiet
  <2> QED BY <2>1, <2>2, <2>3
<1>8. /\ rspSeq' \in Numbers /\ faults' \in 0 .. MaxFaults /\ asyncs' \in 0 .. MaxAsync
      /\ accepted' \in Answers \cup {None} /\ quiet' \in BOOLEAN
      /\ pending' \in Seq(Answers) /\ Buffered'
  <2>1. quiet' \in BOOLEAN
    <3>1. quiet \in BOOLEAN
      BY DEF Inv, TypeOK
    <3> QED BY <1>1, <3>1, Zenon
  <2>2. Buffered'
    BY <1>1 DEF Inv, Buffered
  <2> QED BY <1>1, <1>2, <2>1, <2>2 DEF Inv, TypeOK
<1> QED BY <1>1, <1>5, <1>6, <1>7, <1>8, RestKeepsInv

(* What a step leaves of the buffer, for the steps that do not touch it.   *)
LEMMA BufferKept ==
    ASSUME Inv, UNCHANGED pending
    PROVE  pending' \in Seq(Answers) /\ Buffered'
BY DEF Inv, TypeOK, Buffered

(* A call takes the next number and forgets what is buffered.              *)
LEMMA BeginCallKeepsInv == Inv /\ BeginCall => Inv'
<1> USE LinkAssumption, NoneAssumption
<1> SUFFICES ASSUME Inv, BeginCall PROVE Inv'
  OBVIOUS
<1>1. PICK kind \in Kinds \ {"read_packets"} :
        /\ sent + Needs(kind) <= MaxFrames
        /\ Send(kind, FirstOp(kind), More(kind))
  BY DEF BeginCall
<1>2. sent \in Nat /\ MaxFrames \in Nat
  BY DEF Inv, TypeOK
<1>3. /\ FirstOp(kind) \in Ops /\ FirstOp(kind) \in OpsOf(kind) /\ More(kind) \in Nat
      /\ sent + 1 + Remaining(FirstOp(kind), More(kind)) <= MaxFrames
  <2>1. CASE kind = "init"
    <3>1. FirstOp(kind) = "RADIO_INIT" /\ More(kind) = InitTries - 1 /\ Needs(kind) = InitTries + 1
      BY <2>1 DEF FirstOp, More, Needs
    <3>2. "RADIO_INIT" \in Ops /\ "RADIO_INIT" \in OpsOf("init")
      BY DEF Ops, OpsOf
    <3>3. Remaining("RADIO_INIT", InitTries - 1) = InitTries
      BY DEF Remaining
    <3> QED BY <1>1, <1>2, <2>1, <3>1, <3>2, <3>3
  <2>2. CASE kind = "stop_rx"
    <3>1. FirstOp(kind) = "RX_STOP" /\ More(kind) = StopTries - 1 /\ Needs(kind) = StopTries
      BY <2>2 DEF FirstOp, More, Needs
    <3>2. "RX_STOP" \in Ops /\ "RX_STOP" \in OpsOf("stop_rx")
      BY DEF Ops, OpsOf
    <3>3. Remaining("RX_STOP", StopTries - 1) = StopTries - 1
      BY DEF Remaining
    <3> QED BY <1>1, <1>2, <2>2, <3>1, <3>2, <3>3
  <2>3. CASE kind = "stop_jam"
    <3>1. FirstOp(kind) = "JAM_STOP" /\ More(kind) = JamTries - 1 /\ Needs(kind) = JamTries + 1
      BY <2>3 DEF FirstOp, More, Needs
    <3>2. "JAM_STOP" \in Ops /\ "JAM_STOP" \in OpsOf("stop_jam")
      BY DEF Ops, OpsOf
    <3>3. Remaining("JAM_STOP", JamTries - 1) = JamTries
      BY DEF Remaining
    <3> QED BY <1>1, <1>2, <2>3, <3>1, <3>2, <3>3
  <2>4. CASE kind \in {"get", "set", "start_rx"}
    <3>1. /\ FirstOp(kind) = IF kind = "get" THEN "GET" ELSE IF kind = "set" THEN "SET" ELSE "RX_START"
          /\ More(kind) = 0 /\ Needs(kind) = 1
      BY <2>4 DEF FirstOp, More, Needs
    <3>2. /\ "GET" \in Ops /\ "GET" \in OpsOf("get") /\ "SET" \in Ops /\ "SET" \in OpsOf("set")
          /\ "RX_START" \in Ops /\ "RX_START" \in OpsOf("start_rx")
      BY DEF Ops, OpsOf
    <3>3. Remaining("GET", 0) = 0 /\ Remaining("SET", 0) = 0 /\ Remaining("RX_START", 0) = 0
      BY DEF Remaining
    <3> QED BY <1>1, <1>2, <2>4, <3>1, <3>2, <3>3
  <2> QED BY <2>1, <2>2, <2>3, <2>4 DEF Kinds
<1>4. Sends
  BY <1>1, <1>3 DEF BeginCall, Sends
<1> QED BY <1>4, BufferKept, SendsKeepInv DEF BeginCall, Shrinks

(* A stream takes no number.                                               *)
LEMMA BeginStreamKeepsInv == Inv /\ BeginStream => Inv'
<1> SUFFICES ASSUME Inv, BeginStream PROVE Inv'
  OBVIOUS
<1>1. /\ UNCHANGED <<nextSeq, lastSeq, sent, toDev, slot, receiving, rspSeq, faults, asyncs,
                     quiet, pending, toHost>>
      /\ call' = [kind |-> "read_packets", op |-> None, left |-> 0] /\ accepted' = None
  BY DEF BeginStream, device, bounds
<1>2. Shrinks
  BY <1>1 DEF Shrinks
<1>3. Quiet' /\ Own'
  BY <1>1 DEF Inv, Quiet, Own
<1>4. /\ rspSeq' \in Numbers /\ faults' \in 0 .. MaxFaults /\ asyncs' \in 0 .. MaxAsync
      /\ quiet' \in BOOLEAN
  BY <1>1 DEF Inv, TypeOK
<1> QED BY <1>1, <1>2, <1>3, <1>4, BufferKept, RestKeepsInv

(* After a reset the numbers start again: nothing of before is under way.  *)
LEMMA ResetKeepsInv == Inv /\ ResetDevice => Inv'
<1> USE LinkAssumption, NoneAssumption
<1> SUFFICES ASSUME Inv, ResetDevice PROVE Inv'
  OBVIOUS
<1> DEFINE c == [op |-> "RADIO_INIT", seq |-> 0, of |-> sent + 1]
<1>1. /\ call' = [kind |-> "init", op |-> "RADIO_INIT", left |-> InitTries - 1]
      /\ lastSeq' = 0 /\ nextSeq' = NextSeq(0) /\ sent' = sent + 1
      /\ toDev' = <<c>> /\ pending' = <<>> /\ toHost' = <<>> /\ slot' = None
      /\ receiving' = FALSE /\ rspSeq' = 0 /\ accepted' = None
      /\ UNCHANGED <<quiet, faults, asyncs>>
  BY DEF ResetDevice, bounds
<1>2. sent \in Nat /\ sent + 1 + InitTries <= MaxFrames /\ sent + 1 \in 1 .. MaxFrames
  <2>1. sent \in Nat /\ sent + Needs("init") <= MaxFrames
    BY DEF ResetDevice, Inv, TypeOK
  <2>2. Needs("init") = InitTries + 1
    BY DEF Needs
  <2> QED BY <2>1, <2>2
<1>3. c \in Commands /\ c.op = "RADIO_INIT" /\ c.seq = 0 /\ c.of = sent + 1
  BY <1>2 DEF Commands, Ops, Numbers
<1> HIDE DEF c
<1>4. /\ toDev' \in Seq(Commands) /\ Len(toDev') = 1
      /\ \A i \in 1 .. Len(toDev') : i = 1 /\ toDev'[i] = c
  BY <1>1, <1>3
<1>5. TypeOK'
  <2>1. call' \in Calls
    BY <1>1 DEF Calls, Kinds, Ops
  <2>2. nextSeq' \in Numbers /\ lastSeq' \in Numbers /\ rspSeq' \in Numbers
    BY <1>1, NumberStart DEF Numbers
  <2>3. pending' \in Seq(Answers) /\ toHost' \in Seq(Answers)
    BY <1>1
  <2>4. /\ faults' \in 0 .. MaxFaults /\ asyncs' \in 0 .. MaxAsync /\ quiet' \in BOOLEAN
        /\ sent' \in 0 .. MaxFrames
    BY <1>1, <1>2 DEF Inv, TypeOK
  <2> QED BY <1>1, <1>4, <2>1, <2>2, <2>3, <2>4 DEF TypeOK
<1>6. CallFacts'
  <2>1. "RADIO_INIT" \in OpsOf("init")
    BY DEF OpsOf
  <2>2. Remaining("RADIO_INIT", InitTries - 1) = InitTries
    BY DEF Remaining
  <2> QED BY <1>1, <1>2, <2>1, <2>2 DEF CallFacts
<1>7. PICK b \in 0 .. sent : b = sent
  BY <1>2
<1>8. b \in 0 .. sent' /\ Numbered(b)'
  <2>1. sent' - b = 1 /\ sent' - b - 1 = 0 /\ b \in 0 .. sent' /\ sent + 1 - b - 1 = 0
    BY <1>1, <1>2, <1>7
  <2>2. nextSeq' = Number(sent' - b) /\ lastSeq' = Number(sent' - b - 1)
    BY <1>1, <2>1, NumberStart
  <2>3. ASSUME NEW i \in 1 .. Len(toDev')
        PROVE  toDev'[i].of \in b + 1 .. sent' /\ toDev'[i].seq = Number(toDev'[i].of - b - 1)
    BY <1>1, <1>2, <1>3, <1>4, <1>7, <2>1, NumberStart
  <2>4. Len(toHost') = 0
    BY <1>1
  <2> QED BY <1>1, <2>1, <2>2, <2>3, <2>4 DEF Numbered
<1>9. Order'
  BY <1>1, <1>4 DEF Order
<1>10. LastCommand'
  BY <1>1, <1>3, <1>4 DEF LastCommand
<1>11. Stopped' /\ Buffered' /\ Own'
  BY <1>1 DEF Stopped, Buffered, Own
<1>12. Quiet'
  BY <1>1, <1>3, <1>4 DEF Quiet
<1> QED BY <1>5, <1>6, <1>8, <1>9, <1>10, <1>11, <1>12 DEF Inv

(* A packet buffered during a call is handed to the caller.                *)
LEMMA TakePendingKeepsInv == Inv /\ TakePending => Inv'
<1> SUFFICES ASSUME Inv, TakePending PROVE Inv'
  OBVIOUS
<1>1. PICK i \in Wanted : Conclude(pending[i]) /\ pending' = Without(pending, i)
  BY DEF TakePending
<1>2. /\ pending \in Seq(Answers) /\ i \in 1 .. Len(pending) /\ pending[i] \in Answers
      /\ pending[i].rsp \in Expected /\ pending[i].seq = 0
  BY DEF Inv, TypeOK, Wanted, Buffered
<1>3. pending' \in Seq(Answers) /\ Buffered'
  <2>1. /\ pending' \in Seq(Answers)
        /\ \A j \in 1 .. Len(pending') : \E k \in 1 .. Len(pending) : pending'[j] = pending[k]
    BY <1>1, <1>2, WithoutIs
  <2> QED BY <2>1 DEF Inv, Buffered
<1>4. UNCHANGED <<device, bounds>> /\ Shrinks /\ InCommand
  BY DEF TakePending, Shrinks
<1>5. Sends \/ EndsWithout \/ EndsWith(pending[i])
  BY <1>1, <1>2, <1>4, ConcludeIs DEF Inv
<1> QED BY <1>2, <1>3, <1>4, <1>5, SendsKeepInv, EndKeepsInv, BufferedAnswerKeepsInv

(* A frame that is read answers the command, is buffered or ignored.       *)
LEMMA ReadAnswerKeepsInv == Inv /\ ReadAnswer => Inv'
<1> SUFFICES ASSUME Inv, ReadAnswer PROVE Inv'
  OBVIOUS
<1> DEFINE a == Head(toHost)
<1>1. /\ InCommand /\ toHost # <<>> /\ toHost' = Tail(toHost) /\ UNCHANGED <<device, bounds>>
      /\ Shrinks
  BY DEF ReadAnswer, Shrinks
<1>2. a \in Answers
  <2>1. toHost \in Seq(Answers)
    BY DEF Inv, TypeOK
  <2> QED BY <1>1, <2>1, HeadTailProperties
<1>3. CASE (Async(a) \/ (~Stale(a) /\ a.rsp \in Expected)) /\ Conclude(a) /\ UNCHANGED pending
  <2>1. a.rsp \in Expected /\ (Reply(a) => ~Stale(a))
    BY <1>3 DEF Async, Expected, Reply
  <2>2. Sends \/ EndsWithout \/ (Reply(a) /\ EndsWith(a))
    BY <1>1, <1>2, <1>3, <2>1, ConcludeIs DEF Inv
  <2>3. CASE Sends
    BY <1>1, <1>3, <2>3, BufferKept, SendsKeepInv
  <2>4. CASE EndsWithout
    BY <1>1, <1>3, <2>4, BufferKept, EndKeepsInv
  <2>5. CASE Reply(a) /\ EndsWith(a)
    BY <1>1, <1>3, <2>1, <2>5, AnswerReadKeepsInv
  <2> QED BY <2>2, <2>3, <2>4, <2>5
<1>4. CASE Skip /\ (IF a.seq = 0 THEN Keep(a) ELSE UNCHANGED pending)
  <2>1. UNCHANGED <<nextSeq, lastSeq, call, sent, accepted, quiet, toDev, slot, receiving,
                    rspSeq, faults, asyncs>>
    BY <1>1, <1>4 DEF Skip, device, bounds
  <2>2. pending' \in Seq(Answers) /\ Buffered'
    <3>1. CASE a.seq # 0
      BY <1>4, <3>1, BufferKept
    <3>2. CASE a.seq = 0
      <4>1. pending \in Seq(Answers) /\ pending' = Append(pending, a)
        BY <1>4, <3>2 DEF Keep, Inv, TypeOK
      <4>2. /\ pending' \in Seq(Answers) /\ Len(pending') = Len(pending) + 1
            /\ \A i \in 1 .. Len(pending) : pending'[i] = pending[i]
            /\ pending'[Len(pending) + 1] = a /\ Len(pending) \in Nat
        BY <1>2, <4>1, AppendProperties
      <4>3. \A i \in 1 .. Len(pending') : i \in 1 .. Len(pending) \/ i = Len(pending) + 1
        BY <4>2
      <4> QED BY <3>2, <4>2, <4>3 DEF Inv, Buffered
    <3> QED BY <3>1, <3>2
  <2>3. Quiet'
    <3>1. CASE quiet
      BY <1>1, <2>1, <3>1, QuietShrinks
    <3>2. CASE ~quiet
      BY <2>1, <3>2 DEF Quiet
    <3> QED BY <3>1, <3>2
  <2>4. /\ rspSeq' \in Numbers /\ faults' \in 0 .. MaxFaults /\ asyncs' \in 0 .. MaxAsync
        /\ accepted' \in Answers \cup {None} /\ quiet' \in BOOLEAN
        /\ Own' /\ (call' # None => accepted' = None)
    BY <2>1 DEF Inv, TypeOK, Own, CallFacts
  <2> QED BY <1>1, <2>1, <2>2, <2>3, <2>4, RestKeepsInv
<1> QED BY <1>3, <1>4 DEF ReadAnswer

(* Frames are read or lost, and no other state that matters changes.       *)
LEMMA LossKeepsInv ==
    ASSUME Inv, UNCHANGED <<host, device, toDev, asyncs>>, Shrinks,
           faults' \in 0 .. MaxFaults
    PROVE  Inv'
<1>1. UNCHANGED <<nextSeq, lastSeq, call, pending, sent, accepted, quiet, toDev, slot, receiving,
                  rspSeq, asyncs>>
  BY DEF host, device
<1>2. Quiet'
  <2>1. CASE quiet
    BY <1>1, <2>1, QuietShrinks
  <2>2. CASE ~quiet
    BY <1>1, <2>2 DEF Quiet
  <2> QED BY <2>1, <2>2
<1>3. /\ rspSeq' \in Numbers /\ asyncs' \in 0 .. MaxAsync
      /\ accepted' \in Answers \cup {None} /\ quiet' \in BOOLEAN
      /\ Own' /\ (call' # None => accepted' = None)
  BY <1>1 DEF Inv, TypeOK, Own, CallFacts
<1> QED BY <1>1, <1>2, <1>3, BufferKept, RestKeepsInv

(* The deadline passes: the call tries again or returns.                   *)
LEMMA TimeoutKeepsInv == Inv /\ Timeout => Inv'
<1> SUFFICES ASSUME Inv, Timeout PROVE Inv'
  OBVIOUS
<1>1. /\ call # None /\ GiveUp /\ UNCHANGED <<device, bounds>> /\ UNCHANGED pending
      /\ Shrinks
  BY DEF Timeout, Shrinks
<1>2. Sends \/ EndsWithout
  BY <1>1, GiveUpIs DEF Inv
<1> QED BY <1>1, <1>2, BufferKept, SendsKeepInv, EndKeepsInv

(* The device executes a command and answers it.                           *)
LEMMA ExecuteKeepsInv == Inv /\ Execute => Inv'
<1> USE LinkAssumption, NoneAssumption
<1> SUFFICES ASSUME Inv, Execute PROVE Inv'
  OBVIOUS
<1>1. /\ slot # None /\ slot' = None /\ UNCHANGED <<host, toDev>>
      /\ UNCHANGED <<rspSeq, faults, asyncs>>
      /\ slot \in Commands /\ receiving \in BOOLEAN
  BY DEF Execute, bounds, Inv, TypeOK
<1>2. /\ receiving' \in BOOLEAN
      /\ receiving' => receiving \/ slot.op = "RX_START"
      /\ slot.op = "RX_STOP" => ~receiving'
  <2>1. CASE slot.op \in {"RX_STOP", "RADIO_INIT"}
    BY <1>1, <2>1 DEF Execute
  <2>2. CASE slot.op = "RX_START"
    BY <1>1, <2>2 DEF Execute
  <2>3. CASE slot.op \notin {"RX_STOP", "RADIO_INIT", "RX_START"}
    BY <1>1, <2>3 DEF Execute
  <2> QED BY <2>1, <2>2, <2>3
<1>3. PICK rsp \in {"ACK", "DATA", "ERROR"} :
        toHost' = Append(toHost, [rsp |-> rsp, seq |-> slot.seq, of |-> slot.of])
  BY DEF Execute, Answer
<1> DEFINE a == [rsp |-> rsp, seq |-> slot.seq, of |-> slot.of]
<1>4. a \in Answers /\ a.of = slot.of /\ a.seq = slot.seq /\ a.rsp # "RX_PACKET"
  BY <1>1, <1>3 DEF Answers, Commands
<1> HIDE DEF a
<1>5. toHost' = Append(toHost, a)
  BY <1>3 DEF a
<1>6. rspSeq' \in Numbers /\ faults' \in 0 .. MaxFaults /\ asyncs' \in 0 .. MaxAsync
  BY <1>1 DEF Inv, TypeOK
<1> QED BY <1>1, <1>2, <1>4, <1>5, <1>6, AnswerKeepsInv

(* The device takes a command, or refuses it as busy.                      *)
LEMMA ArriveKeepsInv == Inv /\ Arrive => Inv'
<1> USE LinkAssumption, NoneAssumption
<1> SUFFICES ASSUME Inv, Arrive PROVE Inv'
  OBVIOUS
<1>1. /\ toDev # <<>> /\ toDev' = Tail(toDev) /\ UNCHANGED <<host, receiving, rspSeq>>
      /\ UNCHANGED <<faults, asyncs>>
  BY DEF Arrive, bounds
<1>2. slot' = slot \/ (slot = None /\ slot' = Head(toDev))
  BY DEF Arrive
<1>3. toHost' = toHost \/ (\E a \in Answers : a.rsp = "ERROR" /\ toHost' = Append(toHost, a))
  <2>1. CASE slot = None
    BY <2>1 DEF Arrive
  <2>2. CASE slot # None
    <3> DEFINE a == [rsp |-> "ERROR", seq |-> 0, of |-> Head(toDev).of]
    <3>1. Head(toDev) \in Commands
      <4>1. toDev \in Seq(Commands)
        BY DEF Inv, TypeOK
      <4> QED BY <1>1, <4>1, HeadTailProperties
    <3>2. Head(toDev).of \in 0 .. MaxFrames
      BY <3>1 DEF Commands
    <3>3. a \in Answers /\ a.rsp = "ERROR"
      BY <3>2 DEF Answers, Numbers
    <3>4. toHost' = Append(toHost, a)
      BY <2>2 DEF Arrive, Answer
    <3> QED BY <3>3, <3>4
  <2> QED BY <2>1, <2>2
<1>4. faults' \in 0 .. MaxFaults /\ asyncs' \in 0 .. MaxAsync
  BY <1>1 DEF Inv, TypeOK
<1> QED BY <1>1, <1>2, <1>3, <1>4, ArrivalKeepsInv

(* A damaged command is refused, or nothing of it arrives.                 *)
LEMMA DamageKeepsInv == Inv /\ DamageCommand => Inv'
<1> USE LinkAssumption, NoneAssumption
<1> SUFFICES ASSUME Inv, DamageCommand PROVE Inv'
  OBVIOUS
<1>1. /\ toDev # <<>> /\ toDev' = Tail(toDev) /\ UNCHANGED <<host, receiving, rspSeq>>
      /\ slot' = slot /\ UNCHANGED asyncs /\ faults < MaxFaults /\ faults' = faults + 1
  BY DEF DamageCommand, device
<1>2. toHost' = toHost \/ (\E a \in Answers : a.rsp = "ERROR" /\ toHost' = Append(toHost, a))
  <2>1. ASSUME NEW seq \in Numbers, Answer(Head(toDev), "ERROR", seq)
        PROVE  \E a \in Answers : a.rsp = "ERROR" /\ toHost' = Append(toHost, a)
    <3> DEFINE a == [rsp |-> "ERROR", seq |-> seq, of |-> Head(toDev).of]
    <3>1. Head(toDev) \in Commands
      <4>1. toDev \in Seq(Commands)
        BY DEF Inv, TypeOK
      <4> QED BY <1>1, <4>1, HeadTailProperties
    <3>2. Head(toDev).of \in 0 .. MaxFrames
      BY <3>1 DEF Commands
    <3>3. a \in Answers /\ a.rsp = "ERROR"
      BY <3>2 DEF Answers
    <3>4. toHost' = Append(toHost, a)
      BY <2>1 DEF Answer
    <3> QED BY <3>3, <3>4
  <2> QED BY <2>1 DEF DamageCommand
<1>3. faults' \in 0 .. MaxFaults /\ asyncs' \in 0 .. MaxAsync
  BY <1>1 DEF Inv, TypeOK
<1> QED BY <1>1, <1>2, <1>3, ArrivalKeepsInv

(* Frames the device sends of its own accord.                              *)
LEMMA AsyncKeepsInv == Inv /\ (EmitPacket \/ ReportFailure) => Inv'
<1> USE LinkAssumption, NoneAssumption
<1> SUFFICES ASSUME Inv, EmitPacket \/ ReportFailure PROVE Inv'
  OBVIOUS
<1>1. /\ UNCHANGED <<host, toDev, slot, receiving, faults>>
      /\ asyncs < MaxAsync /\ asyncs' = asyncs + 1
      /\ rspSeq \in Numbers /\ receiving \in BOOLEAN
  BY DEF EmitPacket, ReportFailure, device, Inv, TypeOK
<1>2. faults' \in 0 .. MaxFaults /\ asyncs' \in 0 .. MaxAsync
  BY <1>1 DEF Inv, TypeOK
<1>3. CASE EmitPacket
  <2> DEFINE a == [rsp |-> "RX_PACKET", seq |-> rspSeq, of |-> 0]
  <2>1. a \in Answers /\ a.rsp = "RX_PACKET"
    BY <1>1 DEF Answers
  <2>2. rspSeq' \in Numbers
    <3>1. rspSeq \in Nat /\ SeqMod \in Nat \ {0} /\ rspSeq' = (rspSeq + 1) % SeqMod
      BY <1>1, <1>3 DEF EmitPacket, Numbers
    <3>2. (rspSeq + 1) % SeqMod \in 0 .. SeqMod - 1
      BY <3>1, Z3
    <3> QED BY <3>1, <3>2 DEF Numbers
  <2>3. toHost' = Append(toHost, a) /\ receiving
    BY <1>3 DEF EmitPacket
  <2> HIDE DEF a
  <2> QED BY <1>1, <1>2, <2>1, <2>2, <2>3, AnswerKeepsInv DEF Reply
<1>4. CASE ReportFailure
  <2> DEFINE a == [rsp |-> "ERROR", seq |-> 0, of |-> 0]
  <2>1. a \in Answers /\ a.rsp = "ERROR"
    BY DEF Answers, Numbers
  <2>2. toHost' = Append(toHost, a) /\ rspSeq' \in Numbers
    BY <1>1, <1>4 DEF ReportFailure, device
  <2> HIDE DEF a
  <2> QED BY <1>1, <1>2, <2>1, <2>2, AnswerKeepsInv DEF Reply
<1> QED BY <1>3, <1>4

-----------------------------------------------------------------------------
(* The theorems.                                                           *)

(* No call has been made yet.                                              *)
LEMMA InitInv == Init => Inv
<1> USE LinkAssumption, NoneAssumption
<1> SUFFICES ASSUME Init PROVE Inv
  OBVIOUS
<1>1. TypeOK
  <2>1. 0 \in Numbers /\ 0 \in 0 .. MaxFrames /\ 0 \in 0 .. MaxFaults /\ 0 \in 0 .. MaxAsync
    BY DEF Numbers
  <2>2. <<>> \in Seq(Answers) /\ <<>> \in Seq(Commands)
    OBVIOUS
  <2> QED BY <2>1, <2>2 DEF Init, TypeOK
<1>2. sent = 0 /\ 0 \in 0 .. sent /\ Numbered(0)
  BY NumberStart DEF Init, Numbered
<1>3. CallFacts /\ Order /\ LastCommand /\ Stopped /\ Buffered /\ Own /\ Quiet
  BY DEF Init, CallFacts, Order, LastCommand, InCommand, Stopped, Buffered, Own, Quiet
<1> QED BY <1>1, <1>2, <1>3 DEF Inv

(* Every step keeps the invariant.                                         *)
LEMMA NextInv == Inv /\ [Next]_vars => Inv'
<1> SUFFICES ASSUME Inv, [Next]_vars PROVE Inv'
  OBVIOUS
<1>1. ASSUME UNCHANGED vars PROVE Inv'
  <2>1. UNCHANGED <<host, device, toDev, asyncs>> /\ UNCHANGED <<toHost, faults>>
    BY <1>1 DEF vars, bounds
  <2> QED BY <2>1, LossKeepsInv DEF Shrinks, Inv, TypeOK
<1>2. ASSUME ReadStream PROVE Inv'
  <2>1. UNCHANGED <<host, device, toDev, asyncs>> /\ UNCHANGED faults /\ Shrinks
    BY <1>2 DEF ReadStream, bounds, Shrinks
  <2> QED BY <2>1, LossKeepsInv DEF Inv, TypeOK
<1>3. ASSUME LoseAnswer PROVE Inv'
  <2>1. /\ UNCHANGED <<host, device, toDev, asyncs>> /\ Shrinks
        /\ faults < MaxFaults /\ faults' = faults + 1
    BY <1>3 DEF LoseAnswer, Shrinks
  <2>2. faults' \in 0 .. MaxFaults
    BY <2>1, LinkAssumption DEF Inv, TypeOK
  <2> QED BY <2>1, <2>2, LossKeepsInv
<1> QED BY <1>1, <1>2, <1>3, BeginCallKeepsInv, BeginStreamKeepsInv, ResetKeepsInv,
           TakePendingKeepsInv, ReadAnswerKeepsInv, TimeoutKeepsInv, ArriveKeepsInv,
           ExecuteKeepsInv, AsyncKeepsInv, DamageKeepsInv DEF Next

(* The invariant holds of every behaviour.                                 *)
LEMMA InvHolds == Spec => []Inv
BY InitInv, NextInv, PTL DEF Spec

(* The state of host, link and device keeps its types: numbers stay below  *)
(* the reserved one, and no retry of init(), stop_rx() or stop_jam() sends *)
(* more commands than the call had room for when it began.                 *)
THEOREM TypeCorrect == Spec => []TypeOK
<1>1. Inv => TypeOK
  BY DEF Inv
<1> QED BY <1>1, InvHolds, PTL

(* _read_response returns the answer to the call's own last command, for   *)
(* any number of retries, lost or damaged frames, late answers and resets, *)
(* as long as that answer does not carry the number 0, up to the command   *)
(* at which another number would come round again (LinkAssumption).        *)
THEOREM CallReturnsOwnAnswer == Spec => []AnswerIsOwn
<1>1. Inv => AnswerIsOwn
  BY DEF Inv, Own, AnswerIsOwn
<1> QED BY <1>1, InvHolds, PTL

(* When stop_rx has returned on a numbered answer, reception is off and no *)
(* packet of the old session is left on the link.                          *)
THEOREM DeviceQuietAfterStop == Spec => []QuietAfterStop
<1>1. Inv => QuietAfterStop
  <2> SUFFICES ASSUME Inv PROVE QuietAfterStop
    OBVIOUS
  <2>1. DOMAIN toHost = 1 .. Len(toHost)
    BY DEF Inv, TypeOK
  <2> QED BY <2>1 DEF Inv, Quiet, QuietAfterStop
<1> QED BY <1>1, InvHolds, PTL

=============================================================================
