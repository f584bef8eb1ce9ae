------------------------ MODULE SessionMonitor_proofs ------------------------
(***************************************************************************)
(* Proofs about DataTask, and about it with its history variables, for     *)
(* every set of commands and every value of the constants: type            *)
(* correctness; the host's sessions, the control flags and the radio       *)
(* agree; every frame taken in is answered once, a burst sends what it was *)
(* asked for, and a jam session starts only after the cooldown of the one  *)
(* before.                                                                 *)
(*                                                                         *)
(* None of the safety properties is inductive alone: that the receiver is  *)
(* stopped while a frame is on the air, for instance, rests on what the    *)
(* phase just left established and on which requests can still be pending  *)
(* there.  Inv adds those facts.                                           *)
(***************************************************************************)
EXTENDS SessionMonitor, TLAPS

-----------------------------------------------------------------------------
(* The inductive invariant.                                                *)

(* What each phase of the poll knows of the jobs and of the radio.         *)
PhaseFacts ==
    /\ pc = "jamStart" =>
          /\ slot # None /\ slot.op = "JAM_CONTINUOUS"
          /\ ~AnyTxPending /\ ~rxEnabled /\ ~rxRunning /\ ~jamSession
    /\ pc = "txRawAir" => raw # None /\ ~rxRunning
    /\ pc = "txBurstAir" => burst # None /\ ~rxRunning
    /\ pc = "txContAir" => cont # None /\ ~rxRunning
    /\ raw # None => pc \in {"rxStop", "txRaw", "txRawAir"}

(* Requests of the host on their way to the receiver: made at the head of  *)
(* a poll and served before its end.                                       *)
RxFacts ==
    /\ "RX_START" \in events =>
          rxEnabled /\ pc \notin {"yield", "jamStart", "drain"}
    /\ "RX_STOP" \in events => ~rxEnabled /\ pc = "rxStop"
    /\ pc = "rxStarting" => "RX_START" \in events
    /\ rxActive => rxEnabled \/ "RX_STOP" \in events
    /\ rxRunning => rxActive \/ pc = "rxStarting"
    /\ jamSession => ~rxRunning

SessionInv ==
    /\ SessionsExclusive
    /\ JobsHaveTheirFlag
    /\ JamAgreement
    /\ PhaseFacts
    /\ RxFacts

Inv == TypeOK /\ SessionInv

-----------------------------------------------------------------------------
(* The fields of a command, by its kind.                                   *)
LEMMA CommandFields ==
    ASSUME NEW c \in Commands
    PROVE  /\ c.op = "SET_PHY" => c.phy \in Phy
           /\ c.op = "SET_POWER" => c.power \in Int
           /\ c.op = "TX_RAW" => c.power \in Int
           /\ c.op = "TX_BURST" => c.count \in Nat /\ c.interval \in Nat
           /\ c.op = "TX_CONTINUOUS" => c.interval \in Nat
           /\ c.op = "JAM_CONTINUOUS" => c.duration \in Nat
           /\ c # None
<1>1. c \in Command
  BY ConstantsAssumption DEF ConstantsAssumption
<1>2. c # None
  BY <1>1, ConstantsAssumption DEF ConstantsAssumption
<1> QED
  BY <1>1, <1>2 DEF Command

(* A job is never the absence of one.                                      *)
LEMMA JobsAreNotNone ==
    /\ \A j \in RawJob : j # None
    /\ \A j \in BurstJob : j # None
    /\ \A j \in ContJob : j # None
  BY ConstantsAssumption DEF ConstantsAssumption

(* What the handlers store is a job.                                       *)
LEMMA NewJobs ==
    /\ \A p \in Int : [power |-> p] \in RawJob
    /\ \A p \in Int, n \in Nat, i \in Nat :
          n # 0 => [power |-> p, remaining |-> n, interval |-> i, wait |-> 0] \in BurstJob
    /\ \A p \in Int, i \in Nat :
          [power |-> p, interval |-> i, wait |-> 0] \in ContJob
  BY DEF RawJob, BurstJob, ContJob

(* Every handler keeps the types of the controller's state.                *)
LEMMA HandlerType ==
    ASSUME ControlTypeOK, NEW c \in Commands, HandleCommand(c)
    PROVE  ControlTypeOK'
<1> USE DEF ControlTypeOK, session, jobVars, jamVars, Responses, Answers
<1>1. CASE c.op = "RADIO_INIT" /\ OnRadioInit
  BY <1>1 DEF OnRadioInit, ResetTxJamState, Events, TxEvents, ConstantsAssumption
<1>2. CASE c.op = "SET_PHY" /\ OnSetPhy(c)
  BY <1>2, CommandFields DEF OnSetPhy
<1>3. CASE c.op = "SET_PROP_CONFIG" /\ OnSetPropConfig
  BY <1>3 DEF OnSetPropConfig
<1>4. CASE c.op = "SET_POWER" /\ OnSetPower(c)
  BY <1>4, CommandFields DEF OnSetPower
<1>5. CASE c.op = "RX_START" /\ OnRxStart
  BY <1>5 DEF OnRxStart, Refuse, Events
<1>6. CASE c.op = "RX_STOP" /\ OnRxStop
  BY <1>6 DEF OnRxStop, Events
<1>7. CASE c.op = "TX_RAW" /\ OnTxRaw(c.len, c.power)
  BY <1>7, CommandFields, NewJobs DEF OnTxRaw, Refuse, Events, TxEvents
<1>8. CASE c.op = "TX_FRAME" /\ OnTxRaw(c.len, txPower)
  BY <1>8, NewJobs DEF OnTxRaw, Refuse, Events, TxEvents
<1>9. CASE c.op = "TX_BURST" /\ OnTxBurst(c)
  <2>1. CASE c.count = 0 \/ ~CanStartTx(c.len)
    BY <1>9, <2>1 DEF OnTxBurst, Refuse
  <2>2. CASE ~(c.count = 0 \/ ~CanStartTx(c.len))
    <3>1. burst' \in BurstJob
      BY <1>9, <2>2, CommandFields, NewJobs DEF OnTxBurst
    <3> QED
      BY <1>9, <2>2, <3>1 DEF OnTxBurst, Events, TxEvents
  <2> QED
    BY <2>1, <2>2
<1>10. CASE c.op = "TX_CONTINUOUS" /\ OnTxContinuous(c)
  <2>1. CASE ~CanStartTx(c.len)
    BY <1>10, <2>1 DEF OnTxContinuous, Refuse
  <2>2. CASE CanStartTx(c.len)
    <3>1. cont' \in ContJob
      BY <1>10, <2>2, CommandFields, NewJobs DEF OnTxContinuous
    <3> QED
      BY <1>10, <2>2, <3>1 DEF OnTxContinuous, Events, TxEvents
  <2> QED
    BY <2>1, <2>2
<1>11. CASE c.op = "TX_STOP" /\ OnTxStop
  BY <1>11 DEF OnTxStop, ResetTxJamState, Events
<1>12. CASE c.op = "JAM_CONTINUOUS" /\ ~JamAdmitted(c) /\ Refuse
  BY <1>12 DEF Refuse
<1>13. CASE c.op = "JAM_STOP" /\ OnJamStop
  BY <1>13, ConstantsAssumption
     DEF OnJamStop, EndJamSession, ArmJamCooldown, ConstantsAssumption
<1>14. CASE c.op = "OTHER" /\ rsp' \in Answers /\ UNCHANGED session
  BY <1>14
<1> QED
  BY <1>1, <1>2, <1>3, <1>4, <1>5, <1>6, <1>7, <1>8, <1>9, <1>10, <1>11,
     <1>12, <1>13, <1>14 DEF HandleCommand

(* Every step keeps the types; that a frame on the air has its job and a   *)
(* jam being started its command is what PhaseFacts is needed for.         *)
LEMMA TypeStep ==
    ASSUME TypeOK, PhaseFacts, [Next]_vars
    PROVE  TypeOK'
<1> USE DEF TypeOK, ControlTypeOK, Goto, Quiet, jobVars, jamVars, Phases, Blocked,
            Responses, Answers
<1>1. CASE NoCommand
  BY <1>1 DEF NoCommand, session
<1>2. CASE ProcessCommand
  <2>1. slot \in Commands /\ HandleCommand(slot)
    BY <1>2 DEF ProcessCommand
  <2>2. ControlTypeOK'
    BY <2>1, HandlerType
  <2> QED
    BY <1>2, <2>2 DEF ProcessCommand
<1>3. CASE BeginJam
  BY <1>3 DEF BeginJam, session
<1>4. CASE EndJamStart
  <2>1. slot.duration \in Nat
    BY <1>4, CommandFields DEF EndJamStart, PhaseFacts
  <2> QED
    BY <1>4, <2>1 DEF EndJamStart, JamStarted
<1>5. CASE RxStop
  BY <1>5 DEF RxStop
<1>6. CASE NoTxRaw \/ NoTxBurst \/ NoTxContinuous
  BY <1>6 DEF NoTxRaw, NoTxBurst, NoTxContinuous
<1>7. CASE RefuseTxRaw \/ SendTxRaw
  <2>1. raw.power \in Int
    BY <1>7 DEF RefuseTxRaw, SendTxRaw, TxRawDue, RawJob
  <2> QED
    BY <1>7, <2>1 DEF RefuseTxRaw, SendTxRaw, BeginTxRaw, FinishTxRaw
<1>8. CASE EndTxRaw
  BY <1>8 DEF EndTxRaw, FinishTxRaw
<1>9. CASE RefuseTxBurst \/ SendTxBurst
  <2>1. burst \in BurstJob
    BY <1>9 DEF RefuseTxBurst, SendTxBurst, BurstDue
  <2>2. burst.power \in Int /\ [burst EXCEPT !.wait = burst.interval] \in BurstJob
    BY <2>1 DEF BurstJob
  <2> QED
    BY <1>9, <2>2 DEF RefuseTxBurst, SendTxBurst, FinishTxBurst
<1>10. CASE EndTxBurst
  <2>1. burst \in BurstJob
    BY <1>10 DEF EndTxBurst, PhaseFacts
  <2>2. burst.remaining > 1 => [burst EXCEPT !.remaining = @ - 1] \in BurstJob
    BY <2>1 DEF BurstJob
  <2> QED
    BY <1>10, <2>2 DEF EndTxBurst, FinishTxBurst
<1>11. CASE RefuseTxContinuous \/ SendTxContinuous
  <2>1. cont \in ContJob
    BY <1>11 DEF RefuseTxContinuous, SendTxContinuous, ContDue
  <2>2. cont.power \in Int /\ [cont EXCEPT !.wait = cont.interval] \in ContJob
    BY <2>1 DEF ContJob
  <2> QED
    BY <1>11, <2>2 DEF RefuseTxContinuous, SendTxContinuous, FinishTxContinuous
<1>12. CASE EndTxContinuous
  BY <1>12 DEF EndTxContinuous, FinishTxContinuous
<1>13. CASE JamTimeout
  BY <1>13, ConstantsAssumption
     DEF JamTimeout, ProcessJamTimeout, EndJamSession, ArmJamCooldown, ConstantsAssumption
<1>14. CASE JamPoll \/ NoRxStart \/ Drain
  BY <1>14 DEF JamPoll, NoRxStart, Drain, session
<1>15. CASE BeginRx
  BY <1>15 DEF BeginRx
<1>16. CASE EndRxStart
  BY <1>16 DEF EndRxStart, Events
<1>17. CASE WallTick
  BY <1>17 DEF WallTick, Less1
<1>18. CASE BurstTick
  <2>1. burst \in BurstJob /\ burst.wait > 0
    BY <1>18 DEF BurstTick
  <2>2. [burst EXCEPT !.wait = @ - 1] \in BurstJob
    BY <2>1 DEF BurstJob
  <2> QED
    BY <1>18, <2>2 DEF BurstTick
<1>19. CASE ContTick
  <2>1. cont \in ContJob /\ cont.wait > 0
    BY <1>19 DEF ContTick
  <2>2. [cont EXCEPT !.wait = @ - 1] \in ContJob
    BY <2>1 DEF ContJob
  <2> QED
    BY <1>19, <2>2 DEF ContTick
<1>20. ASSUME NEW c \in Commands, HostFrame(c)
       PROVE  TypeOK'
  BY <1>20 DEF HostFrame, session
<1>21. CASE UNCHANGED vars
  BY <1>21 DEF vars, session
<1> QED
  BY <1>1, <1>2, <1>3, <1>4, <1>5, <1>6, <1>7, <1>8, <1>9, <1>10, <1>11,
     <1>12, <1>13, <1>14, <1>15, <1>16, <1>17, <1>18, <1>19, <1>20, <1>21
     DEF Next, RfStep, Tick

(* Every handler run at the head of a poll keeps SessionInv.               *)
LEMMA CommandStep ==
    ASSUME Inv, ProcessCommand
    PROVE  SessionInv'
<1> USE DEF SessionInv, SessionsExclusive, JobsHaveTheirFlag, JamAgreement,
            PhaseFacts, RxFacts, AnyTxPending, TxEvents, jobVars, jamVars
<1>1. /\ slot \in Commands /\ HandleCommand(slot)
      /\ pc = "yield" /\ pc' = "rxStop" /\ slot' = None /\ rxActive' = rxActive
      /\ SessionInv
  BY DEF ProcessCommand, Goto, Inv, TypeOK
<1>2. CASE slot.op = "RADIO_INIT" /\ OnRadioInit
  BY <1>1, <1>2 DEF OnRadioInit, ResetTxJamState
<1>3. CASE slot.op = "SET_PHY" /\ OnSetPhy(slot)
  BY <1>1, <1>3 DEF OnSetPhy
<1>4. CASE slot.op = "SET_PROP_CONFIG" /\ OnSetPropConfig
  BY <1>1, <1>4 DEF OnSetPropConfig
<1>5. CASE slot.op = "SET_POWER" /\ OnSetPower(slot)
  BY <1>1, <1>5 DEF OnSetPower
<1>6. CASE slot.op = "RX_START" /\ OnRxStart
  BY <1>1, <1>6 DEF OnRxStart, TxBusy, Refuse, session
<1>7. CASE slot.op = "RX_STOP" /\ OnRxStop
  BY <1>1, <1>7 DEF OnRxStop
<1>8. ASSUME NEW len, NEW power \in Int, OnTxRaw(len, power)
      PROVE  SessionInv'
  <2>1. [power |-> power] # None
    BY <1>8, NewJobs, JobsAreNotNone
  <2>2. CASE ~CanStartTx(len)
    BY <1>1, <1>8, <2>2 DEF OnTxRaw, Refuse, session
  <2>3. CASE CanStartTx(len)
    BY <1>1, <1>8, <2>1, <2>3 DEF OnTxRaw, CanStartTx
  <2> QED
    BY <2>2, <2>3
<1>9. CASE slot.op = "TX_RAW" /\ OnTxRaw(slot.len, slot.power)
  BY <1>1, <1>8, <1>9, CommandFields
<1>10. CASE slot.op = "TX_FRAME" /\ OnTxRaw(slot.len, txPower)
  BY <1>8, <1>10 DEF Inv, TypeOK, ControlTypeOK
<1>11. CASE slot.op = "TX_BURST" /\ OnTxBurst(slot)
  <2>1. CASE slot.count = 0 \/ ~CanStartTx(slot.len)
    BY <1>1, <1>11, <2>1 DEF OnTxBurst, Refuse, session
  <2>2. CASE ~(slot.count = 0 \/ ~CanStartTx(slot.len))
    <3>1. burst' # None
      BY <1>1, <1>11, <2>2, CommandFields, NewJobs, JobsAreNotNone
         DEF OnTxBurst, Inv, TypeOK, ControlTypeOK
    <3> QED
      BY <1>1, <1>11, <2>2, <3>1 DEF OnTxBurst, CanStartTx
  <2> QED
    BY <2>1, <2>2
<1>12. CASE slot.op = "TX_CONTINUOUS" /\ OnTxContinuous(slot)
  <2>1. CASE ~CanStartTx(slot.len)
    BY <1>1, <1>12, <2>1 DEF OnTxContinuous, Refuse, session
  <2>2. CASE CanStartTx(slot.len)
    <3>1. cont' # None
      BY <1>1, <1>12, <2>2, CommandFields, NewJobs, JobsAreNotNone
         DEF OnTxContinuous, Inv, TypeOK, ControlTypeOK
    <3> QED
      BY <1>1, <1>12, <2>2, <3>1 DEF OnTxContinuous, CanStartTx
  <2> QED
    BY <2>1, <2>2
<1>13. CASE slot.op = "TX_STOP" /\ OnTxStop
  BY <1>1, <1>13 DEF OnTxStop, ResetTxJamState
<1>14. CASE slot.op = "JAM_CONTINUOUS" /\ ~JamAdmitted(slot) /\ Refuse
  BY <1>1, <1>14 DEF Refuse, session
<1>15. CASE slot.op = "JAM_STOP" /\ OnJamStop
  BY <1>1, <1>15 DEF OnJamStop, EndJamSession
<1>16. CASE slot.op = "OTHER" /\ rsp' \in Answers /\ UNCHANGED session
  BY <1>1, <1>16 DEF session
<1> QED
  BY <1>1, <1>2, <1>3, <1>4, <1>5, <1>6, <1>7, <1>9, <1>10, <1>11, <1>12,
     <1>13, <1>14, <1>15, <1>16 DEF HandleCommand

(* A job that was rescheduled or counted down is still a job.              *)
LEMMA UpdatedJobs ==
    ASSUME TypeOK
    PROVE  /\ burst # None =>
                 /\ [burst EXCEPT !.wait = burst.interval] # None
                 /\ burst.wait > 0 => [burst EXCEPT !.wait = @ - 1] # None
                 /\ burst.remaining > 1 => [burst EXCEPT !.remaining = @ - 1] # None
           /\ cont # None =>
                 /\ [cont EXCEPT !.wait = cont.interval] # None
                 /\ cont.wait > 0 => [cont EXCEPT !.wait = @ - 1] # None
<1>1. ASSUME burst # None
      PROVE  /\ [burst EXCEPT !.wait = burst.interval] \in BurstJob
             /\ burst.wait > 0 => [burst EXCEPT !.wait = @ - 1] \in BurstJob
             /\ burst.remaining > 1 => [burst EXCEPT !.remaining = @ - 1] \in BurstJob
  BY <1>1 DEF TypeOK, ControlTypeOK, BurstJob
<1>2. ASSUME cont # None
      PROVE  /\ [cont EXCEPT !.wait = cont.interval] \in ContJob
             /\ cont.wait > 0 => [cont EXCEPT !.wait = @ - 1] \in ContJob
  BY <1>2 DEF TypeOK, ControlTypeOK, ContJob
<1> QED
  BY <1>1, <1>2, JobsAreNotNone

(* So does every other step.                                               *)
LEMMA SessionStep ==
    ASSUME Inv, [Next]_vars
    PROVE  SessionInv'
<1> USE DEF SessionInv, SessionsExclusive, JobsHaveTheirFlag, JamAgreement,
            PhaseFacts, RxFacts, AnyTxPending, jobVars, jamVars, Goto
<1>1. TypeOK /\ SessionInv
  BY DEF Inv
<1>2. CASE NoCommand
  BY <1>1, <1>2 DEF NoCommand, session
<1>3. CASE ProcessCommand
  BY <1>3, CommandStep
<1>4. CASE BeginJam
  BY <1>1, <1>4 DEF BeginJam, session, JamAdmitted, RadioAdmitsJam
<1>5. CASE EndJamStart
  <2>1. PICK ok \in BOOLEAN : JamStarted(slot, ok)
    BY <1>5 DEF EndJamStart
  <2>2. jamActive' = jamSession' /\ UNCHANGED <<rxEnabled, jobVars, events, rxRunning>>
    BY <1>1, <2>1 DEF JamStarted
  <2> QED
    BY <1>1, <1>5, <2>2 DEF EndJamStart
<1>6. CASE RxStop
  BY <1>1, <1>6 DEF RxStop
<1>7. CASE NoTxRaw \/ NoTxBurst \/ NoTxContinuous
  BY <1>1, <1>7 DEF NoTxRaw, NoTxBurst, NoTxContinuous, TxRawDue
<1>8. CASE RefuseTxRaw \/ SendTxRaw
  <2>1. CASE RefuseTxRaw
    BY <1>1, <2>1 DEF RefuseTxRaw, FinishTxRaw
  <2>2. CASE SendTxRaw
    BY <1>1, <2>2 DEF SendTxRaw, TxRawDue, TxPasses
  <2> QED
    BY <1>8, <2>1, <2>2
<1>9. CASE EndTxRaw
  BY <1>1, <1>9 DEF EndTxRaw, FinishTxRaw
<1>10. CASE RefuseTxBurst
  BY <1>1, <1>10 DEF RefuseTxBurst, FinishTxBurst
<1>11. CASE SendTxBurst
  <2>1. burst # None /\ burst' # None
    BY <1>1, <1>11, UpdatedJobs DEF SendTxBurst, BurstDue
  <2> QED
    BY <1>1, <1>11, <2>1 DEF SendTxBurst, TxPasses
<1>12. CASE EndTxBurst
  <2>1. \/ burst' = None /\ events' = events \ {"TX_BURST"}
        \/ burst # None /\ burst' # None /\ UNCHANGED events
    BY <1>1, <1>12, UpdatedJobs DEF EndTxBurst, FinishTxBurst
  <2>2. /\ pc = "txBurstAir" /\ pc' = "txCont"
        /\ UNCHANGED <<rxEnabled, raw, cont, jamVars, rxRunning, slot, rxActive>>
    BY <1>12 DEF EndTxBurst
  <2> QED
    BY <1>1, <2>1, <2>2
<1>13. CASE RefuseTxContinuous
  BY <1>1, <1>13 DEF RefuseTxContinuous, FinishTxContinuous
<1>14. CASE SendTxContinuous
  <2>1. cont # None /\ cont' # None
    BY <1>1, <1>14, UpdatedJobs DEF SendTxContinuous, ContDue
  <2> QED
    BY <1>1, <1>14, <2>1 DEF SendTxContinuous, TxPasses
<1>15. CASE EndTxContinuous
  BY <1>1, <1>15 DEF EndTxContinuous, FinishTxContinuous
<1>16. CASE JamTimeout
  BY <1>1, <1>16 DEF JamTimeout, ProcessJamTimeout, EndJamSession
<1>17. CASE JamPoll \/ NoRxStart \/ Drain
  BY <1>1, <1>17 DEF JamPoll, NoRxStart, Drain, session
<1>18. CASE BeginRx
  BY <1>1, <1>18 DEF BeginRx
<1>19. CASE EndRxStart
  BY <1>1, <1>19 DEF EndRxStart
<1>20. CASE WallTick
  BY <1>1, <1>20 DEF WallTick
<1>21. CASE BurstTick
  BY <1>1, <1>21, UpdatedJobs DEF BurstTick
<1>22. CASE ContTick
  BY <1>1, <1>22, UpdatedJobs DEF ContTick
<1>23. ASSUME NEW c \in Commands, HostFrame(c)
       PROVE  SessionInv'
  BY <1>1, <1>23, CommandFields DEF HostFrame, session
<1>24. CASE UNCHANGED vars
  BY <1>1, <1>24 DEF vars, session
<1> QED
  BY <1>2, <1>3, <1>4, <1>5, <1>6, <1>7, <1>8, <1>9, <1>10, <1>11, <1>12,
     <1>13, <1>14, <1>15, <1>16, <1>17, <1>18, <1>19, <1>20, <1>21, <1>22,
     <1>23, <1>24 DEF Next, RfStep, Tick

-----------------------------------------------------------------------------
(* The invariant holds at boot and every step keeps it.                    *)
THEOREM InvHolds == Spec => []Inv
<1>1. Init => Inv
  <2>1. Init => TypeOK
    <3>1. Init => phy \in Phy /\ pc \in Phases /\ rsp \in Responses
      BY DEF Init, ControlInit, Phy, BlePhy, Phases, Responses
    <3>2. Init => txPower \in Int /\ radioPower \in Int /\ jamLeft \in Nat /\ cooldownLeft \in Nat
      BY DEF Init, ControlInit
    <3> QED
      BY <3>1, <3>2 DEF Init, ControlInit, TypeOK, ControlTypeOK
  <2>2. Init => SessionInv
    BY DEF Init, ControlInit, SessionInv, SessionsExclusive, JobsHaveTheirFlag,
           JamAgreement, PhaseFacts, RxFacts, AnyTxPending
  <2> QED
    BY <2>1, <2>2 DEF Inv
<1>2. Inv /\ [Next]_vars => Inv'
  BY TypeStep, SessionStep DEF Inv, SessionInv
<1> QED
  BY <1>1, <1>2, PTL DEF Spec

(* Type correctness of the controller and of the polling loop, for every   *)
(* set of commands the host may send (control_task.c, data_task.c).        *)
THEOREM TypeCorrect == Spec => []TypeOK
<1>1. Inv => TypeOK
  BY DEF Inv
<1> QED
  BY <1>1, InvHolds, PTL

(* Reception, the three kinds of job and jamming never overlap in what the *)
(* controller holds (canStartTx, isTxBusy, onJamContinuous).               *)
THEOREM SessionsAreExclusive == Spec => []SessionsExclusive
<1>1. Inv => SessionsExclusive
  BY DEF Inv, SessionInv
<1> QED
  BY <1>1, InvHolds, PTL

(* No job is ever pending without the flag that gets it polled, and no     *)
(* flag outlives its job (task_event.c as used by both tasks).             *)
THEOREM JobsKeepTheirFlag == Spec => []JobsHaveTheirFlag
<1>1. Inv => JobsHaveTheirFlag
  BY DEF Inv, SessionInv
<1> QED
  BY <1>1, InvHolds, PTL

(* ControlTask and RadioIF always agree whether a jam session is on.       *)
THEOREM JamAgreed == Spec => []JamAgreement
<1>1. Inv => JamAgreement
  BY DEF Inv, SessionInv
<1> QED
  BY <1>1, InvHolds, PTL

(* The receiver is stopped whenever the radio sends, and it is started     *)
(* only when nothing is to be sent (docs/protocol.md, section 7).          *)
THEOREM RadioIsExclusive == Spec => []RadioExclusive
<1>1. Inv => RadioExclusive
  BY DEF Inv, SessionInv, SessionsExclusive, JamAgreement, PhaseFacts, RxFacts,
         RadioExclusive, TxAir
<1> QED
  BY <1>1, InvHolds, PTL

(* At the end of every poll no request is half served.                     *)
THEOREM PollsSettle == Spec => []SettledBetweenPolls
<1>1. Inv => SettledBetweenPolls
  BY DEF Inv, SessionInv, JobsHaveTheirFlag, PhaseFacts, RxFacts, SettledBetweenPolls
<1> QED
  BY <1>1, InvHolds, PTL

-----------------------------------------------------------------------------
(* Handlers answer; they report no packet, and they leave a jam session's  *)
(* deadline alone or end the session.                                      *)
LEMMA HandlerBounds ==
    ASSUME TypeOK, NEW c, HandleCommand(c)
    PROVE  /\ rsp' # "RX_PACKET"
           /\ jamSession /\ jamSession' => jamLeft' <= jamLeft
<1> USE DEF HandleCommand, Refuse, session, jamVars, Answers, TypeOK, ControlTypeOK
<1>1. rsp' \in Answers
  BY DEF OnRadioInit, OnSetPhy, OnSetPropConfig, OnSetPower, OnRxStart, OnRxStop,
         OnTxRaw, OnTxBurst, OnTxContinuous, OnTxStop, OnJamStop
<1>2. ~jamSession' \/ UNCHANGED jamLeft
  BY DEF OnRadioInit, OnSetPhy, OnSetPropConfig, OnSetPower, OnRxStart, OnRxStop,
         OnTxRaw, OnTxBurst, OnTxContinuous, OnTxStop, OnJamStop, ResetTxJamState,
         EndJamSession
<1> QED
  BY <1>1, <1>2

(* The steps that touch neither the jam session nor a packet.              *)
OtherStep ==
    \/ NoCommand \/ BeginJam \/ RxStop
    \/ NoTxRaw \/ RefuseTxRaw \/ SendTxRaw \/ EndTxRaw
    \/ NoTxBurst \/ RefuseTxBurst \/ SendTxBurst \/ EndTxBurst
    \/ NoTxContinuous \/ RefuseTxContinuous \/ SendTxContinuous \/ EndTxContinuous
    \/ JamPoll \/ NoRxStart \/ BeginRx \/ EndRxStart
    \/ BurstTick \/ ContTick
    \/ \E c \in Commands : HostFrame(c)

(* What the steps that touch no jam session leave alone.                   *)
LEMMA OtherStepBounds ==
    ASSUME OtherStep
    PROVE  /\ rsp' # "RX_PACKET"
           /\ jamLeft' = jamLeft
           /\ pc' = "jamPoll" => pc = "jamPoll"
<1> USE DEF Goto, Quiet, session, jamVars
<1>1. CASE NoCommand \/ BeginJam \/ RxStop
  BY <1>1 DEF NoCommand, BeginJam, RxStop
<1>2. CASE NoTxRaw \/ RefuseTxRaw \/ SendTxRaw \/ EndTxRaw
  BY <1>2 DEF NoTxRaw, RefuseTxRaw, SendTxRaw, EndTxRaw, FinishTxRaw
<1>3. CASE NoTxBurst \/ RefuseTxBurst \/ SendTxBurst \/ EndTxBurst
  BY <1>3 DEF NoTxBurst, RefuseTxBurst, SendTxBurst, EndTxBurst
<1>4. CASE \/ NoTxContinuous \/ RefuseTxContinuous
           \/ SendTxContinuous \/ EndTxContinuous
  BY <1>4 DEF NoTxContinuous, RefuseTxContinuous, SendTxContinuous, EndTxContinuous
<1>5. CASE JamPoll \/ NoRxStart \/ BeginRx \/ EndRxStart
  BY <1>5 DEF JamPoll, NoRxStart, BeginRx, EndRxStart
<1>6. CASE BurstTick \/ ContTick \/ \E c \in Commands : HostFrame(c)
  BY <1>6 DEF BurstTick, ContTick, HostFrame
<1> QED
  BY <1>1, <1>2, <1>3, <1>4, <1>5, <1>6 DEF OtherStep

(* A packet is reported only while the host has reception enabled: what    *)
(* RX_STOP or RADIO_INIT leaves in the queue is never drained              *)
(* (DataTask_poll tests s_rx_active, cleared before the drain loop).       *)
THEOREM PacketsAreWanted == Spec => PacketsOnlyWhileEnabled
<1>1. Inv /\ [Next]_vars => [rsp' = "RX_PACKET" => rxEnabled]_vars
  <2> SUFFICES ASSUME Inv, Next, rsp' = "RX_PACKET"
               PROVE  rxEnabled
    OBVIOUS
  <2>1. ~OtherStep
    BY OtherStepBounds
  <2>2. CASE Drain
    BY <2>2 DEF Drain, Goto, Quiet, Inv, SessionInv, RxFacts
  <2>3. ~ProcessCommand
    BY HandlerBounds DEF ProcessCommand, Inv
  <2>4. ~EndJamStart
    BY DEF EndJamStart, JamStarted
  <2>5. ~JamTimeout /\ ~WallTick
    BY DEF JamTimeout, WallTick, Quiet
  <2> QED
    BY <2>1, <2>2, <2>3, <2>4, <2>5 DEF Next, RfStep, Tick, OtherStep
<1> QED
  BY <1>1, InvHolds, PTL DEF Spec, PacketsOnlyWhileEnabled

(* A jam session is never prolonged and never transmits past its deadline  *)
(* (processJamTimeout and the tests of RadioIF_startJamSession).           *)
THEOREM JamIsBounded == Spec => JamBounded
<1> DEFINE Bounded ==
        /\ jamSession /\ jamSession' => jamLeft' <= jamLeft
        /\ pc # "jamPoll" /\ pc' = "jamPoll" => jamActive /\ jamLeft > 0
<1>1. Inv /\ [Next]_vars => [Bounded]_vars
  <2> SUFFICES ASSUME Inv, Next
               PROVE  Bounded
    OBVIOUS
  <2>1. jamLeft \in Nat /\ jamActive = jamSession
    BY DEF Inv, TypeOK, ControlTypeOK, SessionInv, JamAgreement
  <2>2. CASE OtherStep
    BY <2>1, <2>2, OtherStepBounds
  <2>3. CASE ProcessCommand
    BY <2>1, <2>3, HandlerBounds DEF ProcessCommand, Goto, Inv
  <2>4. CASE EndJamStart
    BY <2>4 DEF EndJamStart, Goto, Inv, SessionInv, PhaseFacts
  <2>5. CASE JamTimeout
    BY <2>1, <2>5 DEF JamTimeout, ProcessJamTimeout, EndJamSession, jamVars
  <2>6. CASE WallTick
    BY <2>1, <2>6 DEF WallTick, Less1
  <2>7. CASE Drain
    BY <2>1, <2>7 DEF Drain, Goto, session, jamVars
  <2> QED
    BY <2>2, <2>3, <2>4, <2>5, <2>6, <2>7 DEF Next, RfStep, Tick, OtherStep
<1> QED
  BY <1>1, InvHolds, PTL DEF Spec, JamBounded

-----------------------------------------------------------------------------
(* With the history variables.                                             *)

(* A burst's frames, sent and to come, are those it was asked for; without *)
(* a burst there is nothing to account for.                                *)
BurstFacts ==
    IF burst = None
    THEN goal = 0 /\ sent = 0
    ELSE /\ goal \in Nat /\ sent \in Nat
         /\ sent + burst.remaining = goal + (IF pc = "txBurstAir" THEN 1 ELSE 0)

(* What is left of the cooldown and the time since the last session add up *)
(* to JamCooldown at least, unless that session's end armed no cooldown.   *)
CoolFacts ==
    /\ idle \in 0 .. JamCooldown
    /\ endedBy \in {"stop", "txStop", "init"}
    /\ ~jamSession /\ endedBy = "stop" => JamCooldown <= idle + cooldownLeft

MonitorInv == OneAnswerEach /\ BurstFacts /\ CoolFacts

-----------------------------------------------------------------------------
(* The history variables only record.                                      *)
LEMMA MonitorStepIsStep == [MonitorNext]_monitorVars => [Next]_vars
<1> SUFFICES ASSUME [MonitorNext]_monitorVars PROVE [Next]_vars
  OBVIOUS
<1>1. CASE RfStep /\ Observe
  BY <1>1 DEF Next
<1>2. CASE MonitorHostFrame
  BY <1>2 DEF MonitorHostFrame, Next
<1>3. CASE IdleTick \/ OtherTick
  BY <1>3 DEF IdleTick, OtherTick, Next, Tick
<1>4. CASE UNCHANGED monitorVars
  BY <1>4 DEF monitorVars
<1> QED BY <1>1, <1>2, <1>3, <1>4 DEF MonitorNext

(* So DataTask's invariant holds here too.                                 *)
LEMMA MonitorInvHolds == MonitorSpec => []Inv
<1>1. MonitorInit => Init
  BY DEF MonitorInit
<1>2. MonitorSpec => Spec
  BY <1>1, MonitorStepIsStep, PTL DEF MonitorSpec, Spec
<1> QED BY <1>2, InvHolds, PTL

-----------------------------------------------------------------------------
(* What the steps of the RF task do to what the history variables watch.   *)

(* Handlers answer, and only the one of TX_BURST makes a burst.            *)
LEMMA HandlerEffects ==
    ASSUME Inv, NEW c \in Commands, HandleCommand(c)
    PROVE  /\ rsp' \in Answers
           /\ \/ burst' = burst /\ ~(c.op = "TX_BURST" /\ rsp' = "ACK")
              \/ burst' = None
              \/ /\ c.op = "TX_BURST" /\ rsp' = "ACK" /\ burst = None /\ c.count \in Nat
                 /\ burst'.remaining = c.count /\ burst' # None
           /\ jamSession' => jamSession
           /\ \/ UNCHANGED <<jamSession, cooldownLeft>>
              \/ c.op = "RADIO_INIT" /\ rsp' = "ACK"
              \/ c.op = "TX_STOP" /\ rsp' = "ACK" /\ cooldownLeft' = cooldownLeft
              \/ ~jamSession' /\ cooldownLeft' = JamCooldown
<1> USE DEF jobVars, jamVars, Answers
<1>1. CASE c.op = "RADIO_INIT" /\ OnRadioInit
  BY <1>1 DEF OnRadioInit, ResetTxJamState
<1>2. CASE c.op = "SET_PHY" /\ OnSetPhy(c)
  BY <1>2 DEF OnSetPhy
<1>3. CASE c.op = "SET_PROP_CONFIG" /\ OnSetPropConfig
  BY <1>3 DEF OnSetPropConfig
<1>4. CASE c.op = "SET_POWER" /\ OnSetPower(c)
  BY <1>4 DEF OnSetPower
<1>5. CASE c.op = "RX_START" /\ OnRxStart
  BY <1>5 DEF OnRxStart, Refuse, session
<1>6. CASE c.op = "RX_STOP" /\ OnRxStop
  BY <1>6 DEF OnRxStop
<1>7. CASE c.op = "TX_RAW" /\ OnTxRaw(c.len, c.power)
  BY <1>7 DEF OnTxRaw, Refuse, session
<1>8. CASE c.op = "TX_FRAME" /\ OnTxRaw(c.len, txPower)
  BY <1>8 DEF OnTxRaw, Refuse, session
<1>9. CASE c.op = "TX_BURST" /\ OnTxBurst(c)
  <2>1. CASE c.count = 0 \/ ~CanStartTx(c.len)
    BY <1>9, <2>1 DEF OnTxBurst, Refuse, session
  <2>2. CASE ~(c.count = 0 \/ ~CanStartTx(c.len))
    <3>1. c.count \in Nat /\ burst' # None
      BY <1>9, <2>2, CommandFields, NewJobs, JobsAreNotNone
         DEF OnTxBurst, Inv, TypeOK, ControlTypeOK
    <3> QED BY <1>9, <2>2, <3>1 DEF OnTxBurst, CanStartTx, AnyTxPending
  <2> QED BY <2>1, <2>2
<1>10. CASE c.op = "TX_CONTINUOUS" /\ OnTxContinuous(c)
  BY <1>10 DEF OnTxContinuous, Refuse, session
<1>11. CASE c.op = "TX_STOP" /\ OnTxStop
  BY <1>11 DEF OnTxStop, ResetTxJamState
<1>12. CASE c.op = "JAM_CONTINUOUS" /\ ~JamAdmitted(c) /\ Refuse
  BY <1>12 DEF Refuse, session
<1>13. CASE c.op = "JAM_STOP" /\ OnJamStop
  BY <1>13 DEF OnJamStop, EndJamSession, ArmJamCooldown
<1>14. CASE c.op = "OTHER" /\ rsp' \in Answers /\ UNCHANGED session
  BY <1>14 DEF session
<1> QED
  BY <1>1, <1>2, <1>3, <1>4, <1>5, <1>6, <1>7, <1>8, <1>9, <1>10, <1>11,
     <1>12, <1>13, <1>14 DEF HandleCommand

(* Steps of the RF task that neither answer a command nor touch a burst or *)
(* a jam session.                                                          *)
PlainStep ==
    \/ NoCommand \/ BeginJam \/ RxStop
    \/ NoTxRaw \/ RefuseTxRaw \/ SendTxRaw \/ EndTxRaw \/ NoTxBurst
    \/ NoTxContinuous \/ RefuseTxContinuous \/ SendTxContinuous \/ EndTxContinuous
    \/ JamPoll \/ NoRxStart \/ BeginRx \/ EndRxStart \/ Drain

(* What the plain steps leave alone.                                       *)
LEMMA PlainStepEffects ==
    ASSUME PlainStep
    PROVE  /\ rsp' \notin Answers
           /\ UNCHANGED <<slot, burst, jamSession, cooldownLeft>>
           /\ pc # "txBurstAir" /\ pc' # "txBurstAir"
<1> USE DEF Goto, Quiet, session, jamVars, jobVars, Answers
<1>1. CASE NoCommand \/ BeginJam \/ RxStop
  BY <1>1 DEF NoCommand, BeginJam, RxStop
<1>2. CASE NoTxRaw \/ RefuseTxRaw \/ SendTxRaw \/ EndTxRaw
  BY <1>2 DEF NoTxRaw, RefuseTxRaw, SendTxRaw, EndTxRaw, FinishTxRaw
<1>3. CASE NoTxBurst \/ NoTxContinuous \/ RefuseTxContinuous
  BY <1>3 DEF NoTxBurst, NoTxContinuous, RefuseTxContinuous
<1>4. CASE SendTxContinuous \/ EndTxContinuous
  BY <1>4 DEF SendTxContinuous, EndTxContinuous
<1>5. CASE JamPoll \/ NoRxStart \/ BeginRx \/ EndRxStart \/ Drain
  BY <1>5 DEF JamPoll, NoRxStart, BeginRx, EndRxStart, Drain
<1> QED BY <1>1, <1>2, <1>3, <1>4, <1>5 DEF PlainStep

-----------------------------------------------------------------------------
(* Each kind of step keeps MonitorInv.                                     *)

(* Such a step keeps what the monitor saw.                                 *)
LEMMA PlainKeepsMonitorInv ==
    ASSUME Inv, MonitorInv, PlainStep, Observe
    PROVE  MonitorInv'
<1>1. /\ rsp' \notin Answers /\ UNCHANGED <<slot, burst, jamSession, cooldownLeft>>
      /\ pc # "txBurstAir" /\ pc' # "txBurstAir"
  BY PlainStepEffects
<1>2. rsp' # "ACK"
  BY <1>1 DEF Answers
<1>3. owed' = owed - 0 /\ owed \in Int
  BY <1>1 DEF Observe, MonitorInv, OneAnswerEach
<1>4. OneAnswerEach'
  BY <1>1, <1>3 DEF MonitorInv, OneAnswerEach
<1>5. BurstFacts'
  BY <1>1, <1>2 DEF Observe, ObserveBurst, Accepts, MonitorInv, BurstFacts
<1>6. CoolFacts'
  BY <1>1, <1>2 DEF Observe, ObserveJam, Accepts, MonitorInv, CoolFacts
<1> QED BY <1>4, <1>5, <1>6 DEF MonitorInv

(* A command's handler keeps it,                                           *)
LEMMA CommandKeepsMonitorInv ==
    ASSUME Inv, MonitorInv, ProcessCommand, Observe
    PROVE  MonitorInv'
<1> USE ConstantsAssumption
<1>1. /\ slot # None /\ slot \in Commands /\ slot' = None /\ HandleCommand(slot)
      /\ pc = "yield" /\ pc' = "rxStop"
  BY DEF ProcessCommand, Goto, Inv, TypeOK
<1>2. rsp' \in Answers
  BY <1>1, HandlerEffects
<1>3. OneAnswerEach'
  <2>1. owed = 1 /\ owed' = owed - 1
    BY <1>1, <1>2 DEF Observe, MonitorInv, OneAnswerEach
  <2> QED BY <1>1, <2>1 DEF OneAnswerEach
<1>4. BurstFacts'
  <2>1. /\ goal' = IF burst' = None THEN 0 ELSE IF slot.op = "TX_BURST" /\ rsp' = "ACK"
                                                THEN slot.count ELSE goal
        /\ sent' = IF burst' = None THEN 0 ELSE sent
    BY <1>1 DEF Observe, ObserveBurst, Accepts
  <2>2. CASE burst' = burst /\ ~(slot.op = "TX_BURST" /\ rsp' = "ACK")
    BY <1>1, <2>1, <2>2 DEF MonitorInv, BurstFacts
  <2>3. CASE burst' = None
    BY <2>1, <2>3 DEF BurstFacts
  <2>4. CASE /\ slot.op = "TX_BURST" /\ rsp' = "ACK" /\ burst = None /\ slot.count \in Nat
             /\ burst'.remaining = slot.count /\ burst' # None
    <3>1. goal' = slot.count /\ sent' = 0 /\ goal' \in Nat
      BY <2>1, <2>4 DEF MonitorInv, BurstFacts
    <3> QED BY <1>1, <2>4, <3>1 DEF BurstFacts
  <2> QED BY <1>1, <2>2, <2>3, <2>4, HandlerEffects
<1>5. CoolFacts'
  <2>1. /\ idle \in 0 .. JamCooldown /\ JamCooldown \in Nat /\ cooldownLeft \in Nat
        /\ jamSession \in BOOLEAN
    BY DEF MonitorInv, CoolFacts, Inv, TypeOK, ControlTypeOK
  <2>2. /\ idle' = IF jamSession /\ ~jamSession' THEN 0 ELSE idle
        /\ endedBy' = IF slot.op = "RADIO_INIT" /\ rsp' = "ACK" THEN "init"
                      ELSE IF jamSession /\ ~jamSession'
                      THEN IF slot.op = "TX_STOP" /\ rsp' = "ACK" THEN "txStop" ELSE "stop"
                      ELSE endedBy
    BY <1>1 DEF Observe, ObserveJam, Accepts
  <2>3. idle' \in 0 .. JamCooldown /\ endedBy' \in {"stop", "txStop", "init"}
    BY <2>1, <2>2 DEF MonitorInv, CoolFacts
  <2>4. ASSUME ~jamSession', endedBy' = "stop" PROVE JamCooldown <= idle' + cooldownLeft'
    <3>1. CASE UNCHANGED <<jamSession, cooldownLeft>>
      BY <2>1, <2>2, <2>4, <3>1 DEF MonitorInv, CoolFacts
    <3>2. CASE slot.op = "RADIO_INIT" /\ rsp' = "ACK"
      BY <2>2, <2>4, <3>2
    <3>3. CASE slot.op = "TX_STOP" /\ rsp' = "ACK" /\ cooldownLeft' = cooldownLeft
      BY <2>1, <2>2, <2>4, <3>3 DEF MonitorInv, CoolFacts
    <3>4. CASE ~jamSession' /\ cooldownLeft' = JamCooldown
      <4>1. \A n \in 0 .. JamCooldown : JamCooldown <= n + JamCooldown
        BY <2>1
      <4> QED BY <2>3, <3>4, <4>1
    <3> QED BY <1>1, <3>1, <3>2, <3>3, <3>4, HandlerEffects
  <2> QED BY <2>3, <2>4 DEF CoolFacts
<1> QED BY <1>3, <1>4, <1>5 DEF MonitorInv

(* the end of a jam start or of a session do,                              *)
LEMMA JamKeepsMonitorInv ==
    ASSUME Inv, MonitorInv, EndJamStart \/ JamTimeout, Observe
    PROVE  MonitorInv'
<1> USE ConstantsAssumption
<1>1. /\ burst' = burst /\ pc # "yield" /\ pc # "txBurst" /\ pc # "txBurstAir"
      /\ pc' # "txBurstAir"
  BY DEF EndJamStart, JamStarted, JamTimeout, Goto, jobVars
<1>2. OneAnswerEach'
  <2>1. CASE EndJamStart
    <3>1. slot # None /\ slot' = None /\ rsp' \in Answers
      BY <2>1 DEF EndJamStart, JamStarted, Goto, Answers, Inv, SessionInv, PhaseFacts
    <3>2. owed = 1 /\ owed' = owed - 1
      BY <3>1 DEF Observe, MonitorInv, OneAnswerEach
    <3> QED BY <3>1, <3>2 DEF OneAnswerEach
  <2>2. CASE JamTimeout
    <3>1. slot' = slot /\ rsp' \notin Answers
      BY <2>2 DEF JamTimeout, Quiet, Answers
    <3>2. owed' = owed - 0 /\ owed \in Int
      BY <3>1 DEF Observe, MonitorInv, OneAnswerEach
    <3> QED BY <3>1, <3>2 DEF MonitorInv, OneAnswerEach
  <2> QED BY <2>1, <2>2
<1>3. BurstFacts'
  BY <1>1 DEF Observe, ObserveBurst, Accepts, MonitorInv, BurstFacts
<1>4. CoolFacts'
  <2>1. /\ idle \in 0 .. JamCooldown /\ JamCooldown \in Nat /\ cooldownLeft \in Nat
    BY DEF MonitorInv, CoolFacts, Inv, TypeOK, ControlTypeOK
  <2>2. /\ idle' = IF jamSession /\ ~jamSession' THEN 0 ELSE idle
        /\ endedBy' = IF jamSession /\ ~jamSession' THEN "stop" ELSE endedBy
    BY <1>1 DEF Observe, ObserveJam, Accepts
  <2>3. CASE EndJamStart
    <3>1. cooldownLeft' = cooldownLeft /\ (jamSession' = TRUE \/ jamSession' = jamSession)
      BY <2>3 DEF EndJamStart, JamStarted
    <3> QED BY <2>1, <2>2, <3>1 DEF MonitorInv, CoolFacts
  <2>4. CASE JamTimeout
    <3>1. \/ UNCHANGED <<jamSession, cooldownLeft>>
          \/ ~jamSession' /\ cooldownLeft' = JamCooldown
      BY <2>4 DEF JamTimeout, ProcessJamTimeout, EndJamSession, ArmJamCooldown, jamVars
    <3> QED BY <2>1, <2>2, <3>1 DEF MonitorInv, CoolFacts
  <2> QED BY <2>3, <2>4
<1> QED BY <1>2, <1>3, <1>4 DEF MonitorInv

(* each step of a burst does,                                              *)
LEMMA BurstKeepsMonitorInv ==
    ASSUME Inv, MonitorInv, RefuseTxBurst \/ SendTxBurst \/ EndTxBurst, Observe
    PROVE  MonitorInv'
<1>1. /\ UNCHANGED <<slot, jamSession, cooldownLeft>> /\ rsp' = "none"
      /\ pc # "yield" /\ burst # None /\ burst \in BurstJob
  BY DEF RefuseTxBurst, SendTxBurst, EndTxBurst, BurstDue, Goto, Quiet, jamVars, Inv, TypeOK,
         ControlTypeOK, SessionInv, PhaseFacts
<1>2. OneAnswerEach'
  <2>1. owed' = owed - 0 /\ owed \in Int
    BY <1>1 DEF Observe, Answers, MonitorInv, OneAnswerEach
  <2> QED BY <1>1, <2>1 DEF MonitorInv, OneAnswerEach
<1>3. CoolFacts'
  BY <1>1 DEF Observe, ObserveJam, Accepts, MonitorInv, CoolFacts
<1>4. /\ goal' = IF burst' = None THEN 0 ELSE goal
      /\ sent' = IF burst' = None THEN 0
                 ELSE IF pc = "txBurst" /\ pc' = "txBurstAir" THEN sent + 1 ELSE sent
  BY <1>1 DEF Observe, ObserveBurst, Accepts
<1>5. /\ burst.remaining \in Nat /\ goal \in Nat /\ sent \in Nat
      /\ sent + burst.remaining = goal + (IF pc = "txBurstAir" THEN 1 ELSE 0)
  BY <1>1 DEF BurstJob, MonitorInv, BurstFacts
<1>6. BurstFacts'
  <2>1. CASE burst' = None
    BY <1>4, <2>1 DEF BurstFacts
  <2>2. CASE SendTxBurst
    <3>1. /\ pc = "txBurst" /\ pc' = "txBurstAir"
          /\ burst' = [burst EXCEPT !.wait = burst.interval]
      BY <2>2 DEF SendTxBurst, Goto
    <3>2. burst'.remaining = burst.remaining /\ burst' # None
      BY <1>1, <3>1, UpdatedJobs DEF BurstJob, Inv
    <3> QED BY <1>4, <1>5, <3>1, <3>2 DEF BurstFacts
  <2>3. CASE EndTxBurst /\ burst' # None
    <3>1. /\ pc = "txBurstAir" /\ pc' = "txCont"
          /\ burst' = [burst EXCEPT !.remaining = @ - 1]
      BY <2>3 DEF EndTxBurst, FinishTxBurst, Goto
    <3>2. burst'.remaining = burst.remaining - 1
      BY <1>1, <3>1 DEF BurstJob
    <3> QED BY <1>4, <1>5, <2>3, <3>1, <3>2 DEF BurstFacts
  <2>4. CASE RefuseTxBurst
    BY <2>1, <2>4 DEF RefuseTxBurst, FinishTxBurst
  <2> QED BY <2>1, <2>2, <2>3, <2>4
<1> QED BY <1>2, <1>3, <1>6 DEF MonitorInv

(* a frame that the host sends does,                                       *)
LEMMA HostFrameKeepsMonitorInv ==
    ASSUME Inv, MonitorInv, MonitorHostFrame
    PROVE  MonitorInv'
<1>1. PICK c \in Commands : HostFrame(c)
  BY DEF MonitorHostFrame
<1>2. OneAnswerEach'
  <2>1. CASE slot = None
    <3>1. slot' # None /\ rsp' = "none"
      BY <1>1, <2>1, CommandFields DEF HostFrame, Quiet
    <3>2. owed = 0 /\ owed' = owed + 1
      BY <2>1, <3>1 DEF MonitorHostFrame, MonitorInv, OneAnswerEach
    <3> QED BY <3>1, <3>2 DEF OneAnswerEach
  <2>2. CASE slot # None
    <3>1. slot' = slot /\ rsp' = "BUSY"
      BY <1>1, <2>2 DEF HostFrame
    <3>2. owed' = owed + 0 /\ owed \in Int
      BY <3>1 DEF MonitorHostFrame, MonitorInv, OneAnswerEach
    <3> QED BY <3>1, <3>2 DEF MonitorInv, OneAnswerEach
  <2> QED BY <2>1, <2>2
<1>3. UNCHANGED <<burst, jamSession, cooldownLeft, pc, goal, sent, idle, endedBy>>
  BY <1>1 DEF HostFrame, MonitorHostFrame, session, jobVars, jamVars, burstHistory, jamHistory
<1>4. BurstFacts' /\ CoolFacts'
  BY <1>3 DEF MonitorInv, BurstFacts, CoolFacts
<1> QED BY <1>2, <1>4 DEF MonitorInv

(* A tick that counts for the idle time takes at most one off the cooldown. *)
LEMMA IdleTickKeepsSum ==
    ASSUME NEW max \in Nat, NEW i \in 0 .. max, NEW j, NEW c \in Nat, NEW d \in Nat,
           i < max, j = i + 1, d + 1 >= c
    PROVE  j \in 0 .. max /\ (max <= i + c => max <= j + d)
OBVIOUS

(* and so does a tick of the clock.                                        *)
LEMMA TickKeepsMonitorInv ==
    ASSUME Inv, MonitorInv, IdleTick \/ OtherTick
    PROVE  MonitorInv'
<1> USE ConstantsAssumption
<1>1. UNCHANGED <<owed, goal, sent, endedBy, slot, pc, jamSession>>
  <2>1. CASE IdleTick
    BY <2>1 DEF IdleTick, WallTick, burstHistory, vars, session, jamVars
  <2>2. CASE OtherTick
    BY <2>2 DEF OtherTick, WallTick, BurstTick, ContTick, burstHistory, jamHistory, jamVars
  <2> QED BY <2>1, <2>2
<1>2. OneAnswerEach'
  BY <1>1 DEF MonitorInv, OneAnswerEach
<1>3. BurstFacts'
  <2>1. CASE burst' = burst
    BY <1>1, <2>1 DEF MonitorInv, BurstFacts
  <2>2. CASE BurstTick
    <3>1. burst # None /\ burst \in BurstJob /\ burst' = [burst EXCEPT !.wait = @ - 1]
      BY <2>2 DEF BurstTick, Inv, TypeOK, ControlTypeOK
    <3>2. burst' # None /\ burst'.remaining = burst.remaining
      BY <2>2, <3>1, UpdatedJobs DEF BurstTick, BurstJob, Inv
    <3> QED BY <1>1, <3>1, <3>2 DEF MonitorInv, BurstFacts
  <2> QED BY <2>1, <2>2 DEF IdleTick, OtherTick, WallTick, ContTick, vars, session, jobVars
<1>4. CoolFacts'
  <2>1. /\ idle \in 0 .. JamCooldown /\ JamCooldown \in Nat /\ cooldownLeft \in Nat
    BY DEF MonitorInv, CoolFacts, Inv, TypeOK, ControlTypeOK
  <2>2. CASE IdleTick
    <3>1. /\ idle < JamCooldown /\ idle' = idle + 1
          /\ cooldownLeft' = cooldownLeft \/ cooldownLeft' = Less1(cooldownLeft)
      BY <2>2 DEF IdleTick, WallTick, vars, session, jamVars
    <3>2. cooldownLeft' \in Nat /\ cooldownLeft' + 1 >= cooldownLeft
      BY <2>1, <3>1 DEF Less1
    <3>3. /\ idle' \in 0 .. JamCooldown
          /\ JamCooldown <= idle + cooldownLeft => JamCooldown <= idle' + cooldownLeft'
      BY <2>1, <3>1, <3>2, IdleTickKeepsSum
    <3> QED BY <1>1, <3>3 DEF MonitorInv, CoolFacts
  <2>3. CASE OtherTick
    <3>1. idle' = idle
      BY <2>3 DEF OtherTick, jamHistory
    <3>2. CASE cooldownLeft' = cooldownLeft
      BY <1>1, <3>1, <3>2 DEF MonitorInv, CoolFacts
    <3>3. CASE cooldownLeft' = Less1(cooldownLeft) /\ (jamSession \/ idle = JamCooldown)
      <4>1. cooldownLeft' \in Nat
        BY <2>1, <3>3 DEF Less1
      <4> QED BY <1>1, <2>1, <3>1, <3>3, <4>1 DEF MonitorInv, CoolFacts
    <3> QED BY <2>3, <3>2, <3>3 DEF OtherTick, WallTick, BurstTick, ContTick, jamVars
  <2> QED BY <2>2, <2>3
<1> QED BY <1>2, <1>3, <1>4 DEF MonitorInv

-----------------------------------------------------------------------------
(* The theorems.                                                           *)

(* Every step keeps it.                                                    *)
LEMMA MonitorInvStep == Inv /\ MonitorInv /\ [MonitorNext]_monitorVars => MonitorInv'
<1> SUFFICES ASSUME Inv, MonitorInv, [MonitorNext]_monitorVars PROVE MonitorInv'
  OBVIOUS
<1>1. CASE RfStep /\ Observe
  BY <1>1, PlainKeepsMonitorInv, CommandKeepsMonitorInv, JamKeepsMonitorInv,
     BurstKeepsMonitorInv DEF RfStep, PlainStep
<1>2. CASE MonitorHostFrame
  BY <1>2, HostFrameKeepsMonitorInv
<1>3. CASE IdleTick \/ OtherTick
  BY <1>3, TickKeepsMonitorInv
<1>4. CASE UNCHANGED monitorVars
  <2>1. /\ UNCHANGED <<owed, goal, sent, idle, endedBy, slot, pc, burst, jamSession,
                       cooldownLeft>>
    BY <1>4 DEF monitorVars, vars, session, jobVars, jamVars, burstHistory, jamHistory
  <2> QED BY <2>1 DEF MonitorInv, OneAnswerEach, BurstFacts, CoolFacts
<1> QED BY <1>1, <1>2, <1>3, <1>4 DEF MonitorNext

(* It holds of every behaviour.                                            *)
LEMMA MonitorInvInvariant == MonitorSpec => []MonitorInv
<1>1. MonitorInit => MonitorInv
  BY ConstantsAssumption
     DEF MonitorInit, Init, ControlInit, MonitorInv, OneAnswerEach, BurstFacts, CoolFacts
<1> QED BY <1>1, MonitorInvStep, MonitorInvHolds, PTL DEF MonitorSpec

(* Every frame taken into the slot is answered exactly once, and the slot  *)
(* is busy exactly while that answer is due.                               *)
THEOREM EveryFrameAnsweredOnce == MonitorSpec => []OneAnswerEach
<1>1. MonitorInv => OneAnswerEach
  BY DEF MonitorInv
<1> QED BY <1>1, MonitorInvInvariant, PTL

(* A burst starts as many transmissions as it was asked for, whatever the  *)
(* count, the interval and the commands that arrive between two of them    *)
(* (ControlTask_processTxBurst).                                           *)
THEOREM BurstsAreAccounted == MonitorSpec => []BurstAccounted
<1>1. MonitorInv => BurstAccounted
  BY DEF MonitorInv, BurstFacts, BurstAccounted
<1> QED BY <1>1, MonitorInvInvariant, PTL

(* A jam session starts only after the whole cooldown of the one before,   *)
(* for every duration and cooldown, unless TX_STOP ended that one or       *)
(* RADIO_INIT wiped the cooldown (ControlTask_onJamContinuous).            *)
THEOREM CooldownIsKept == MonitorSpec => CooldownAfterJamStop
<1>1. Inv /\ MonitorInv /\ [MonitorNext]_monitorVars
        => [StartsJam => idle = JamCooldown \/ endedBy \in {"txStop", "init"}]_monitorVars
  <2> SUFFICES ASSUME Inv, MonitorInv, MonitorNext, StartsJam,
                      endedBy \notin {"txStop", "init"}
               PROVE  idle = JamCooldown
    OBVIOUS
  <2>1. BeginJam
    <3>1. ~MonitorHostFrame /\ ~IdleTick /\ ~OtherTick
      BY DEF StartsJam, MonitorHostFrame, HostFrame, IdleTick, OtherTick, WallTick, BurstTick,
             ContTick, vars
    <3> QED BY <3>1 DEF MonitorNext, RfStep, StartsJam, Goto, NoCommand, ProcessCommand,
                     EndJamStart, RxStop, NoTxRaw, RefuseTxRaw, SendTxRaw, EndTxRaw, NoTxBurst,
                     RefuseTxBurst, SendTxBurst, EndTxBurst, NoTxContinuous, RefuseTxContinuous,
                     SendTxContinuous, EndTxContinuous, JamTimeout, JamPoll, NoRxStart, BeginRx,
                     EndRxStart, Drain
  <2>2. cooldownLeft = 0 /\ ~jamSession
    BY <2>1 DEF BeginJam, JamAdmitted, RadioAdmitsJam
  <2>3. idle \in 0 .. JamCooldown /\ JamCooldown \in Nat /\ JamCooldown <= idle + 0
    BY <2>2, ConstantsAssumption DEF MonitorInv, CoolFacts
  <2> QED BY <2>3
<1> QED BY <1>1, MonitorInvInvariant, MonitorInvHolds, PTL DEF MonitorSpec, CooldownAfterJamStop
==============================================================================
