------------------------------ MODULE DataTask ------------------------------
(***************************************************************************)
(* The RF task's loop (DataTask_poll) over the state of ControlTask, with  *)
(* the one-command slot through which the UART task hands it frames.       *)
(*                                                                         *)
(* The two tasks have the same priority and switch only where one yields   *)
(* or blocks: the RF task yields at the end of a poll (pc = "yield") and   *)
(* blocks while RF_runCmd waits for the radio (pc in Blocked); the UART    *)
(* task never blocks, so one frame it takes in is one step.  The clocks    *)
(* advance at any moment.                                                  *)
(***************************************************************************)
EXTENDS ControlTask

VARIABLES
    pc,         (* where in DataTask_poll the RF task is                   *)
    slot,       (* s_pending_frame and s_pending_ready of host_if_task.c   *)
    rxActive    (* s_rx_active of data_task.c                              *)

vars == <<session, rsp, pc, slot, rxActive>>

Blocked == {"jamStart", "txRawAir", "txBurstAir", "txContAir", "jamPoll",
            "rxStarting"}
Phases  == Blocked \cup {"yield", "rxStop", "txRaw", "txBurst", "txCont",
                         "jam", "rxStart", "drain"}

TypeOK ==
    /\ ControlTypeOK
    /\ pc \in Phases
    /\ slot \in Commands \cup {None}
    /\ rxActive \in BOOLEAN

Init ==
    /\ ControlInit
    /\ pc = "yield"
    /\ slot = None
    /\ rxActive = FALSE

Goto(from, to) == pc = from /\ pc' = to
Quiet == rsp' = "none"

-----------------------------------------------------------------------------
(* The UART task: a complete frame arrives while it can run.               *)

HostFrame(c) ==
    /\ pc \in Blocked \cup {"yield"}
    /\ IF slot = None THEN slot' = c /\ Quiet
                      ELSE slot' = slot /\ rsp' = "BUSY"
    /\ UNCHANGED <<session, pc, rxActive>>

-----------------------------------------------------------------------------
(* HostIFTask_processPendingCommand.  The slot is freed after the handler  *)
(* returns; starting a jam session blocks inside the handler.              *)

NoCommand ==
    /\ slot = None
    /\ Goto("yield", "rxStop")
    /\ Quiet
    /\ UNCHANGED <<session, slot, rxActive>>

(* Fault: s_pending_ready is never cleared.                                *)
ProcessCommandAgain ==
    /\ slot # None
    /\ Goto("yield", "rxStop")
    /\ HandleCommand(slot)
    /\ UNCHANGED <<slot, rxActive>>

ProcessCommand ==
    /\ slot # None
    /\ Goto("yield", "rxStop")
    /\ HandleCommand(slot)
    /\ slot' = None
    /\ UNCHANGED rxActive

(* Fault: the slot is freed before the handler has returned.               *)
BeginJamFreesSlot ==
    /\ slot # None
    /\ slot.op = "JAM_CONTINUOUS"
    /\ JamAdmitted(slot)
    /\ Goto("yield", "jamStart")
    /\ Quiet
    /\ slot' = None
    /\ UNCHANGED <<session, rxActive>>

BeginJam ==
    /\ slot # None
    /\ slot.op = "JAM_CONTINUOUS"
    /\ JamAdmitted(slot)
    /\ Goto("yield", "jamStart")
    /\ Quiet
    /\ UNCHANGED <<session, slot, rxActive>>

EndJamStart ==
    /\ Goto("jamStart", "rxStop")
    /\ \E ok \in BOOLEAN : JamStarted(slot, ok)
    /\ slot' = None
    /\ UNCHANGED rxActive

-----------------------------------------------------------------------------
(* The phases of DataTask_poll, in the order it runs them.                 *)

(* Fault: the data task goes on emitting what is left in the queue.        *)
RxStopKeepsActive ==
    /\ Goto("rxStop", "txRaw")
    /\ Quiet
    /\ IF "RX_STOP" \in events
       THEN /\ rxRunning' = FALSE
            /\ events' = events \ {"RX_STOP", "RX_ACTIVE"}
       ELSE UNCHANGED <<rxRunning, events>>
    /\ UNCHANGED <<phy, txPower, rxEnabled, jobVars, jamVars, radioPower, slot,
                   rxActive>>

RxStop ==
    /\ Goto("rxStop", "txRaw")
    /\ Quiet
    /\ IF "RX_STOP" \in events
       THEN /\ rxActive' = FALSE
            /\ rxRunning' = FALSE
            /\ events' = events \ {"RX_STOP", "RX_ACTIVE"}
       ELSE UNCHANGED <<rxActive, rxRunning, events>>
    /\ UNCHANGED <<phy, txPower, rxEnabled, jobVars, jamVars, radioPower, slot>>

TxRawDue == "TX_RAW" \in events /\ raw # None
BurstDue == "TX_BURST" \in events /\ burst # None /\ burst.wait = 0
ContDue  == "TX_CONTINUOUS" \in events /\ cont # None /\ cont.wait = 0

NoTxRaw ==
    /\ ~TxRawDue
    /\ Goto("txRaw", "txBurst")
    /\ Quiet
    /\ events' = events \ {"TX_RAW"}
    /\ UNCHANGED <<phy, txPower, rxEnabled, jobVars, jamVars, rxRunning,
                   radioPower, slot, rxActive>>

RefuseTxRaw ==
    /\ TxRawDue /\ TxRefused
    /\ Goto("txRaw", "txBurst")
    /\ BeginTxRaw
    /\ FinishTxRaw(FALSE)
    /\ UNCHANGED <<phy, rxEnabled, burst, cont, jamVars, rxRunning, slot, rxActive>>

SendTxRaw ==
    /\ TxRawDue /\ TxPasses
    /\ Goto("txRaw", "txRawAir")
    /\ BeginTxRaw
    /\ Quiet
    /\ UNCHANGED <<phy, rxEnabled, jobVars, jamVars, events, rxRunning, slot,
                   rxActive>>

EndTxRaw ==
    /\ Goto("txRawAir", "txBurst")
    /\ \E ok \in BOOLEAN : FinishTxRaw(ok)
    /\ UNCHANGED <<phy, txPower, rxEnabled, burst, cont, jamVars, rxRunning,
                   radioPower, slot, rxActive>>

(* Fault: the flag goes down after every poll, as that of TX_RAW does.     *)
NoTxBurstClearsFlag ==
    /\ ~BurstDue
    /\ Goto("txBurst", "txCont")
    /\ Quiet
    /\ events' = events \ {"TX_BURST"}
    /\ UNCHANGED <<phy, txPower, rxEnabled, jobVars, jamVars, rxRunning,
                   radioPower, slot, rxActive>>

NoTxBurst ==
    /\ ~BurstDue
    /\ Goto("txBurst", "txCont")
    /\ Quiet
    /\ events' = IF burst = None THEN events \ {"TX_BURST"} ELSE events
    /\ UNCHANGED <<phy, txPower, rxEnabled, jobVars, jamVars, rxRunning,
                   radioPower, slot, rxActive>>

RefuseTxBurst ==
    /\ BurstDue /\ TxRefused
    /\ Goto("txBurst", "txCont")
    /\ Quiet
    /\ radioPower' = burst.power
    /\ FinishTxBurst(FALSE)
    /\ UNCHANGED <<phy, txPower, rxEnabled, raw, cont, jamVars, rxRunning,
                   slot, rxActive>>

(* The next deadline counts from the time read before the transmission.    *)
SendTxBurst ==
    /\ BurstDue /\ TxPasses
    /\ Goto("txBurst", "txBurstAir")
    /\ Quiet
    /\ radioPower' = burst.power
    /\ burst' = [burst EXCEPT !.wait = burst.interval]
    /\ UNCHANGED <<phy, txPower, rxEnabled, raw, cont, jamVars, events,
                   rxRunning, slot, rxActive>>

EndTxBurst ==
    /\ Goto("txBurstAir", "txCont")
    /\ Quiet
    /\ \E ok \in BOOLEAN : FinishTxBurst(ok)
    /\ UNCHANGED <<phy, txPower, rxEnabled, raw, cont, jamVars, rxRunning,
                   radioPower, slot, rxActive>>

(* Fault: the same for a stream that waits for its next frame.             *)
NoTxContinuousClearsFlag ==
    /\ ~ContDue
    /\ Goto("txCont", "jam")
    /\ Quiet
    /\ events' = events \ {"TX_CONTINUOUS"}
    /\ UNCHANGED <<phy, txPower, rxEnabled, jobVars, jamVars, rxRunning,
                   radioPower, slot, rxActive>>

NoTxContinuous ==
    /\ ~ContDue
    /\ Goto("txCont", "jam")
    /\ Quiet
    /\ events' = IF cont = None THEN events \ {"TX_CONTINUOUS"} ELSE events
    /\ UNCHANGED <<phy, txPower, rxEnabled, jobVars, jamVars, rxRunning,
                   radioPower, slot, rxActive>>

RefuseTxContinuous ==
    /\ ContDue /\ TxRefused
    /\ Goto("txCont", "jam")
    /\ Quiet
    /\ radioPower' = cont.power
    /\ FinishTxContinuous(FALSE)
    /\ UNCHANGED <<phy, txPower, rxEnabled, raw, burst, jamVars, rxRunning,
                   slot, rxActive>>

SendTxContinuous ==
    /\ ContDue /\ TxPasses
    /\ Goto("txCont", "txContAir")
    /\ Quiet
    /\ radioPower' = cont.power
    /\ cont' = [cont EXCEPT !.wait = cont.interval]
    /\ UNCHANGED <<phy, txPower, rxEnabled, raw, burst, jamVars, events,
                   rxRunning, slot, rxActive>>

EndTxContinuous ==
    /\ Goto("txContAir", "jam")
    /\ Quiet
    /\ \E ok \in BOOLEAN : FinishTxContinuous(ok)
    /\ UNCHANGED <<phy, txPower, rxEnabled, raw, burst, jamVars, rxRunning,
                   radioPower, slot, rxActive>>

JamTimeout ==
    /\ pc = "jam"
    /\ ProcessJamTimeout
    /\ pc' = IF jamSession' THEN "jamPoll" ELSE "rxStart"
    /\ Quiet
    /\ UNCHANGED <<phy, txPower, rxEnabled, jobVars, events, rxRunning,
                   radioPower, slot, rxActive>>

(* RadioIF_pollJamSession: up to ten transmissions, each waited for.       *)
JamPoll ==
    /\ Goto("jamPoll", "rxStart")
    /\ Quiet
    /\ UNCHANGED <<session, slot, rxActive>>

NoRxStart ==
    /\ "RX_START" \notin events
    /\ Goto("rxStart", "drain")
    /\ Quiet
    /\ UNCHANGED <<session, slot, rxActive>>

(* RadioIF_startRx sets s_rx_running before it runs the radio setup, and   *)
(* takes it back if that fails.                                            *)
BeginRx ==
    /\ "RX_START" \in events
    /\ Goto("rxStart", "rxStarting")
    /\ Quiet
    /\ rxRunning' = TRUE
    /\ UNCHANGED <<phy, txPower, rxEnabled, jobVars, jamVars, events,
                   radioPower, slot, rxActive>>

EndRxStart ==
    /\ Goto("rxStarting", "drain")
    /\ \E ok \in BOOLEAN :
          /\ rxRunning' = ok
          /\ rxActive' = ok
          /\ events' = (events \ {"RX_START"})
                       \cup (IF ok THEN {"RX_ACTIVE"} ELSE {})
          /\ rsp' = IF ok THEN "none" ELSE "RX_FAILED"
    /\ UNCHANGED <<phy, txPower, rxEnabled, jobVars, jamVars, radioPower, slot>>

(* RadioIF_poll and the loop that emits at most eight packets.             *)
Drain ==
    /\ Goto("drain", "yield")
    /\ \/ Quiet
       \/ rxActive /\ rsp' = "RX_PACKET"
    /\ UNCHANGED <<session, slot, rxActive>>

RfStep ==
    \/ NoCommand \/ ProcessCommand \/ BeginJam \/ EndJamStart
    \/ RxStop
    \/ NoTxRaw \/ RefuseTxRaw \/ SendTxRaw \/ EndTxRaw
    \/ NoTxBurst \/ RefuseTxBurst \/ SendTxBurst \/ EndTxBurst
    \/ NoTxContinuous \/ RefuseTxContinuous \/ SendTxContinuous \/ EndTxContinuous
    \/ JamTimeout \/ JamPoll
    \/ NoRxStart \/ BeginRx \/ EndRxStart
    \/ Drain

-----------------------------------------------------------------------------
(* The two clocks.                                                         *)

Less1(n) == IF n > 0 THEN n - 1 ELSE 0

WallTick ==
    /\ jamLeft > 0 \/ cooldownLeft > 0
    /\ jamLeft' = Less1(jamLeft)
    /\ cooldownLeft' = Less1(cooldownLeft)
    /\ Quiet
    /\ UNCHANGED <<phy, txPower, rxEnabled, jobVars, jamActive, jamSession,
                   events, rxRunning, radioPower, pc, slot, rxActive>>

BurstTick ==
    /\ burst # None /\ burst.wait > 0
    /\ burst' = [burst EXCEPT !.wait = @ - 1]
    /\ Quiet
    /\ UNCHANGED <<phy, txPower, rxEnabled, raw, cont, jamVars, events,
                   rxRunning, radioPower, pc, slot, rxActive>>

ContTick ==
    /\ cont # None /\ cont.wait > 0
    /\ cont' = [cont EXCEPT !.wait = @ - 1]
    /\ Quiet
    /\ UNCHANGED <<phy, txPower, rxEnabled, raw, burst, jamVars, events,
                   rxRunning, radioPower, pc, slot, rxActive>>

Tick == WallTick \/ BurstTick \/ ContTick

Next == RfStep \/ Tick \/ \E c \in Commands : HostFrame(c)

Spec == Init /\ [][Next]_vars

(* The RF task's loop never ends and RF_runCmd returns; time passes.       *)
Fairness ==
    /\ WF_vars(RfStep)
    /\ WF_vars(WallTick)
    /\ WF_vars(BurstTick)
    /\ WF_vars(ContTick)

FairSpec == Spec /\ Fairness

-----------------------------------------------------------------------------
(* Safety.                                                                 *)

TxAir == {"txRawAir", "txBurstAir", "txContAir"}

(* What the host asked for is one thing at a time: reception excludes      *)
(* every transmission and jamming, and at most one job is pending          *)
(* (canStartTx, isTxBusy and the tests of onJamContinuous together; none   *)
(* of them alone looks at everything).                                     *)
SessionsExclusive ==
    /\ rxEnabled => ~AnyTxPending /\ ~jamActive
    /\ raw = None \/ (burst = None /\ cont = None)
    /\ burst = None \/ cont = None

(* A pending job has its flag up and a flag has its job, at every step: a  *)
(* job without its flag would never be polled and would refuse every later *)
(* transmission (the handlers set, the poll loop and the resets clear).    *)
JobsHaveTheirFlag ==
    /\ raw # None <=> "TX_RAW" \in events
    /\ burst # None <=> "TX_BURST" \in events
    /\ cont # None <=> "TX_CONTINUOUS" \in events

(* The controller's s_jam_active and RadioIF's s_jam_session_active, set   *)
(* and cleared at different places, agree at every step.                   *)
JamAgreement == jamActive = jamSession

(* docs/protocol.md, section 7: the receiver never runs while the radio    *)
(* sends a job's frame or a jam session is active, and starting it finds   *)
(* no job pending.                                                         *)
RadioExclusive ==
    /\ pc \in TxAir \cup {"jamStart"} \/ jamSession => ~rxRunning
    /\ pc = "rxStarting" => ~AnyTxPending /\ ~jamSession

(* Between two polls nothing is left half done: the receiver runs only for *)
(* the data task, which listens only while the host has reception enabled, *)
(* and no request to start, stop or send once is still to be served.       *)
SettledBetweenPolls ==
    pc = "yield" =>
        /\ rxRunning => rxActive
        /\ rxActive => rxEnabled
        /\ raw = None
        /\ events \cap {"RX_START", "RX_STOP", "TX_RAW"} = {}

(* No packet is reported once RX_STOP or RADIO_INIT is acknowledged, until *)
(* RX_START is (the drain loop tests s_rx_active, not s_rx_enabled).       *)
PacketsOnlyWhileEnabled == [][rsp' = "RX_PACKET" => rxEnabled]_vars

(* A jam session is never prolonged, and no round of jam transmissions     *)
(* begins at or after its deadline (processJamTimeout precedes             *)
(* RadioIF_pollJamSession in the poll).                                    *)
JamBounded ==
    [][/\ jamSession /\ jamSession' => jamLeft' <= jamLeft
       /\ pc # "jamPoll" /\ pc' = "jamPoll" => jamActive /\ jamLeft > 0]_vars

(* docs/protocol.md on TX_CONTINUOUS: the stream stays active until        *)
(* TX_STOP (or RADIO_INIT, which resets everything).                       *)
StreamUntilStop ==
    [][cont # None /\ cont' = None =>
          pc = "yield" /\ slot # None /\ slot.op \in {"TX_STOP", "RADIO_INIT"}]_vars

-----------------------------------------------------------------------------
(* Liveness, under FairSpec.                                               *)

(* A frame taken into the slot is dealt with, however busy the radio is.   *)
CommandAnswered == slot # None ~> slot = None

(* A jam session ends, even if the host never asks for it.                 *)
JamEnds == jamSession ~> ~jamSession

(* A burst ends: its wait elapses and each transmission brings it closer.  *)
BurstEnds == burst # None ~> burst = None

(* A pending stream is transmitted again and again until it is removed.    *)
StreamKeepsSending == []<>(cont = None \/ pc = "txContAir")
=============================================================================
