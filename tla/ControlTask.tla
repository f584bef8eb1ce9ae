---------------------------- MODULE ControlTask ----------------------------
(***************************************************************************)
(* The session controller of the CC1352 firmware (control_task.c): what    *)
(* the host asked for (receive, one of three kinds of transmission, a jam  *)
(* session), the control flags of task_event.c that carry the request to   *)
(* the polling loop, and what RadioIF keeps that these handlers test.      *)
(*                                                                         *)
(* Each operator On... is one handler with every call it makes.  The       *)
(* polling loop that runs them is module DataTask.                         *)
(*                                                                         *)
(* Time.  The code stores absolute deadlines and compares them with a      *)
(* clock.  Only the time left matters, so a deadline is kept as the number *)
(* of ticks left until it, 0 meaning reached: jamLeft and cooldownLeft run *)
(* with the wall clock (AONRTC), the wait of a burst or of a continuous    *)
(* stream with the SysTick-based transmit clock.                           *)
(***************************************************************************)
EXTENDS Integers

CONSTANTS
    Commands,       (* the frames the host may send: a subset of Command   *)
    JamMax,         (* JAM_MAX_DURATION_MS, in wall ticks                  *)
    JamCooldown,    (* JAM_COOLDOWN_MS, in wall ticks                      *)
    TxMaxLen,       (* CONTROL_TASK_TX_RAW_MAX_LEN                         *)
    None            (* no job, no command                                  *)

BlePhy    == {"BLE_1M", "BLE_2M", "BLE_CODED_S8", "BLE_CODED_S2"}
SubGhzPhy == {"SUB_1GHZ_868", "SUB_1GHZ_915", "PROPRIETARY_GFSK"}
Phy       == BlePhy \cup SubGhzPhy \cup {"IEEE_802_15_4"}

(***************************************************************************)
(* A decoded frame.  "OTHER" stands for every frame that is answered       *)
(* without touching this state: GET_INFO, GET_STATS, SET_CHANNEL,          *)
(* SET_ADV_HOP, the TX tests, the cryptographic commands, and whatever is  *)
(* refused as malformed, unknown or of the wrong length.                   *)
(***************************************************************************)
Command ==
    [op : {"RADIO_INIT", "RX_START", "RX_STOP", "TX_STOP", "JAM_STOP",
           "SET_PROP_CONFIG", "OTHER"}]
    \cup [op : {"SET_PHY"}, phy : Phy]
    \cup [op : {"SET_POWER"}, power : Int]
    \cup [op : {"TX_RAW"}, len : Nat, power : Int]
    \cup [op : {"TX_FRAME"}, len : Nat]
    \cup [op : {"TX_BURST"}, len : Nat, count : Nat, interval : Nat]
    \cup [op : {"TX_CONTINUOUS"}, len : Nat, interval : Nat]
    \cup [op : {"JAM_CONTINUOUS"}, channel : Nat, duration : Nat]

(* A raw frame waits for the next poll; a burst and a stream stay.         *)
RawJob   == [power : Int]
BurstJob == [power : Int, remaining : Nat \ {0}, interval : Nat, wait : Nat]
ContJob  == [power : Int, interval : Nat, wait : Nat]

(* The flags of task_event.h that the control and data tasks exchange.     *)
TxEvents == {"TX_RAW", "TX_BURST", "TX_CONTINUOUS"}
Events   == TxEvents \cup {"RX_START", "RX_STOP", "RX_ACTIVE"}

(* What a step hands to OutputIF_sendResponse: an answer to the command,   *)
(* an asynchronous error (BUSY, TX_FAILED, RX_FAILED: RSP_ERROR with       *)
(* sequence number 0) or received packets.                                 *)
Answers   == {"ACK", "ERROR"}
Responses == Answers \cup {"none", "BUSY", "TX_FAILED", "RX_FAILED", "RX_PACKET"}

ASSUME ConstantsAssumption ==
    /\ Commands \subseteq Command
    /\ JamMax \in Nat
    /\ JamCooldown \in Nat
    /\ TxMaxLen \in Nat
    /\ None \notin Command \cup RawJob \cup BurstJob \cup ContJob

VARIABLES
    phy,            (* s_selected_phy                                      *)
    txPower,        (* s_tx_power_dbm of control_task.c                    *)
    rxEnabled,      (* s_rx_enabled                                        *)
    raw,            (* s_tx_raw_pending with its power                     *)
    burst,          (* s_tx_burst_pending with its parameters              *)
    cont,           (* s_tx_continuous_pending with its parameters         *)
    jamActive,      (* s_jam_active                                        *)
    jamLeft,        (* s_jam_stop_due_us - now                             *)
    cooldownLeft,   (* s_jam_cooldown_due_us - now                         *)
    events,         (* s_task_events                                       *)
    rxRunning,      (* RadioIF's s_rx_running                              *)
    jamSession,     (* RadioIF's s_jam_session_active                      *)
    radioPower,     (* RadioIF's s_tx_power_dbm                            *)
    rsp             (* what this step handed to OutputIF_sendResponse      *)

jobVars  == <<raw, burst, cont>>
jamVars  == <<jamActive, jamLeft, cooldownLeft, jamSession>>
session  == <<phy, txPower, rxEnabled, jobVars, jamVars, events, rxRunning,
              radioPower>>

ControlTypeOK ==
    /\ phy \in Phy
    /\ txPower \in Int
    /\ radioPower \in Int
    /\ rxEnabled \in BOOLEAN
    /\ raw \in RawJob \cup {None}
    /\ burst \in BurstJob \cup {None}
    /\ cont \in ContJob \cup {None}
    /\ jamActive \in BOOLEAN
    /\ jamSession \in BOOLEAN
    /\ jamLeft \in Nat
    /\ cooldownLeft \in Nat
    /\ events \subseteq Events
    /\ rxRunning \in BOOLEAN
    /\ rsp \in Responses

(* ControlTask_init and RadioIF_init, run once at boot.                    *)
ControlInit ==
    /\ phy = "BLE_1M"
    /\ txPower = 0
    /\ radioPower = 0
    /\ rxEnabled = FALSE
    /\ raw = None
    /\ burst = None
    /\ cont = None
    /\ jamActive = FALSE
    /\ jamSession = FALSE
    /\ jamLeft = 0
    /\ cooldownLeft = 0
    /\ events = {}
    /\ rxRunning = FALSE
    /\ rsp = "none"

-----------------------------------------------------------------------------
(* Conditions the handlers test.                                           *)

AnyTxPending == raw # None \/ burst # None \/ cont # None

(* Fault: the receiver is not looked at.                                   *)
CanStartTxDuringRx(len) ==
    /\ len \in 1 .. TxMaxLen
    /\ ~AnyTxPending

(* ControlTask_canStartTx: an active jam session is not looked at.         *)
CanStartTx(len) ==
    /\ len \in 1 .. TxMaxLen
    /\ ~rxEnabled
    /\ ~AnyTxPending

(* Fault: isTxBusy forgets the jam session.                                *)
TxBusyIgnoresJam == AnyTxPending

TxBusy == AnyTxPending \/ jamActive

JamChannelAllowed(channel) ==
    \/ phy \in BlePhy /\ channel \in 37 .. 39
    \/ phy = "IEEE_802_15_4" /\ channel \in 11 .. 26

(* Fault: a session may be started over another.                           *)
RadioRestartsJam == ~rxRunning

(* The tests of ControlTask_onJamContinuous, then those RadioIF_startJam-  *)
(* Session makes before it touches the radio.                              *)
RadioAdmitsJam == ~rxRunning /\ ~jamSession

JamAdmitted(c) ==
    /\ c.duration \in 1 .. JamMax
    /\ ~rxEnabled
    /\ ~AnyTxPending
    /\ cooldownLeft = 0
    /\ JamChannelAllowed(c.channel)
    /\ RadioAdmitsJam

(* Whether RadioIF_transmitRaw looks at the jam session: the 2M extended   *)
(* advertising path never does, a sub-GHz profile only above 861 MHz.      *)
TxChecksJam ==
    CASE phy = "BLE_2M"     -> {FALSE}
      [] phy \in SubGhzPhy  -> BOOLEAN
      [] OTHER              -> {TRUE}

TxRefused == rxRunning \/ (jamSession /\ TRUE \in TxChecksJam)
TxPasses  == ~rxRunning /\ (jamSession => FALSE \in TxChecksJam)

-----------------------------------------------------------------------------
(* The handlers of the command dispatcher.                                 *)

Refuse ==
    /\ rsp' = "ERROR"
    /\ UNCHANGED session

(* Fault: the window is cleared, the radio's session goes on.              *)
ResetKeepsSession ==
    /\ raw' = None
    /\ burst' = None
    /\ cont' = None
    /\ jamActive' = FALSE
    /\ jamLeft' = 0
    /\ UNCHANGED jamSession

ResetTxJamState ==
    /\ raw' = None
    /\ burst' = None
    /\ cont' = None
    /\ jamActive' = FALSE
    /\ jamLeft' = 0
    /\ jamSession' = FALSE

ArmJamCooldown == cooldownLeft' = JamCooldown

(* Fault: the end of a session does not arm the cooldown.                  *)
EndJamUncooled ==
    /\ jamSession' = FALSE
    /\ jamActive' = FALSE
    /\ jamLeft' = 0
    /\ UNCHANGED cooldownLeft

(* RadioIF_stopJamSession, ControlTask_armJamCooldown and the window.      *)
EndJamSession ==
    /\ jamSession' = FALSE
    /\ jamActive' = FALSE
    /\ jamLeft' = 0
    /\ ArmJamCooldown

(* Fault: the data task is not told that reception ended.                  *)
RadioInitWithoutRxStop ==
    /\ ResetTxJamState
    /\ cooldownLeft' = 0
    /\ rxEnabled' = FALSE
    /\ rxRunning' = FALSE
    /\ events' = events \ (TxEvents \cup {"RX_START", "RX_ACTIVE"})
    /\ rsp' = "ACK"
    /\ UNCHANGED <<phy, txPower, radioPower>>

OnRadioInit ==
    /\ ResetTxJamState
    /\ cooldownLeft' = 0
    /\ rxEnabled' = FALSE
    /\ rxRunning' = FALSE
    /\ events' = (events \ (TxEvents \cup {"RX_START", "RX_ACTIVE"}))
                 \cup {"RX_STOP"}
    /\ rsp' = "ACK"
    /\ UNCHANGED <<phy, txPower, radioPower>>

(* RadioIF_setPhy stops the receiver, which rxEnabled does not follow.     *)
OnSetPhy(c) ==
    /\ phy' = c.phy
    /\ rxRunning' = FALSE
    /\ rsp' = "ACK"
    /\ UNCHANGED <<txPower, rxEnabled, jobVars, jamVars, events, radioPower>>

(* RadioIF_setPropConfig stops the receiver too, unless OOK is active or   *)
(* the new frequency is that of the persistent 433 MHz handle.             *)
OnSetPropConfig ==
    /\ \E stops \in BOOLEAN : rxRunning' = (rxRunning /\ ~stops)
    /\ rsp' = "ACK"
    /\ UNCHANGED <<phy, txPower, rxEnabled, jobVars, jamVars, events, radioPower>>

OnSetPower(c) ==
    /\ txPower' = c.power
    /\ radioPower' = c.power
    /\ rsp' = "ACK"
    /\ UNCHANGED <<phy, rxEnabled, jobVars, jamVars, events, rxRunning>>

OnRxStart ==
    IF TxBusy THEN Refuse
    ELSE /\ rxEnabled' = TRUE
         /\ events' = events \cup {"RX_START"}
         /\ rsp' = "ACK"
         /\ UNCHANGED <<phy, txPower, jobVars, jamVars, rxRunning, radioPower>>

OnRxStop ==
    /\ rxEnabled' = FALSE
    /\ events' = events \cup {"RX_STOP"}
    /\ rsp' = "ACK"
    /\ UNCHANGED <<phy, txPower, jobVars, jamVars, rxRunning, radioPower>>

(* ControlTask_onTxRaw; ControlTask_onTxFrame passes it txPower.           *)
OnTxRaw(len, power) ==
    IF ~CanStartTx(len) THEN Refuse
    ELSE /\ raw' = [power |-> power]
         /\ events' = events \cup {"TX_RAW"}
         /\ rsp' = "ACK"
         /\ UNCHANGED <<phy, txPower, rxEnabled, burst, cont, jamVars,
                        rxRunning, radioPower>>

OnTxBurst(c) ==
    IF c.count = 0 \/ ~CanStartTx(c.len) THEN Refuse
    ELSE /\ burst' = [power |-> txPower, remaining |-> c.count,
                      interval |-> c.interval, wait |-> 0]
         /\ events' = events \cup {"TX_BURST"}
         /\ rsp' = "ACK"
         /\ UNCHANGED <<phy, txPower, rxEnabled, raw, cont, jamVars,
                        rxRunning, radioPower>>

OnTxContinuous(c) ==
    IF ~CanStartTx(c.len) THEN Refuse
    ELSE /\ cont' = [power |-> txPower, interval |-> c.interval, wait |-> 0]
         /\ events' = events \cup {"TX_CONTINUOUS"}
         /\ rsp' = "ACK"
         /\ UNCHANGED <<phy, txPower, rxEnabled, raw, burst, jamVars,
                        rxRunning, radioPower>>

(* Fault: the flags of the cancelled jobs stay up.                         *)
TxStopLeavesFlags ==
    /\ ResetTxJamState
    /\ rsp' = "ACK"
    /\ UNCHANGED <<phy, txPower, rxEnabled, cooldownLeft, events, rxRunning,
                   radioPower>>

(* ControlTask_resetTxJamState(true): a jam session ends here without      *)
(* arming the cooldown.                                                    *)
OnTxStop ==
    /\ ResetTxJamState
    /\ events' = events \ TxEvents
    /\ rsp' = "ACK"
    /\ UNCHANGED <<phy, txPower, rxEnabled, cooldownLeft, rxRunning, radioPower>>

(* The end of ControlTask_onJamContinuous, once the radio has answered.    *)
JamStarted(c, ok) ==
    /\ IF ok THEN /\ jamSession' = TRUE
                  /\ jamActive' = TRUE
                  /\ jamLeft' = c.duration
                  /\ rsp' = "ACK"
             ELSE /\ rsp' = "ERROR"
                  /\ UNCHANGED <<jamSession, jamActive, jamLeft>>
    /\ UNCHANGED <<phy, txPower, rxEnabled, jobVars, cooldownLeft, events,
                   rxRunning, radioPower>>

OnJamStop ==
    /\ EndJamSession
    /\ rsp' = "ACK"
    /\ UNCHANGED <<phy, txPower, rxEnabled, jobVars, events, rxRunning, radioPower>>

(* handle_command, for every command that does not block on the radio.     *)
HandleCommand(c) ==
    \/ c.op = "RADIO_INIT" /\ OnRadioInit
    \/ c.op = "SET_PHY" /\ OnSetPhy(c)
    \/ c.op = "SET_PROP_CONFIG" /\ OnSetPropConfig
    \/ c.op = "SET_POWER" /\ OnSetPower(c)
    \/ c.op = "RX_START" /\ OnRxStart
    \/ c.op = "RX_STOP" /\ OnRxStop
    \/ c.op = "TX_RAW" /\ OnTxRaw(c.len, c.power)
    \/ c.op = "TX_FRAME" /\ OnTxRaw(c.len, txPower)
    \/ c.op = "TX_BURST" /\ OnTxBurst(c)
    \/ c.op = "TX_CONTINUOUS" /\ OnTxContinuous(c)
    \/ c.op = "TX_STOP" /\ OnTxStop
    \/ c.op = "JAM_CONTINUOUS" /\ ~JamAdmitted(c) /\ Refuse
    \/ c.op = "JAM_STOP" /\ OnJamStop
    \/ c.op = "OTHER" /\ rsp' \in Answers /\ UNCHANGED session

-----------------------------------------------------------------------------
(* What the polling loop calls.  Each names the variables it assigns.      *)

(* ControlTask_processTxRaw before and after the radio call: <<txPower,    *)
(* radioPower>>, then <<raw, events, rsp>>.                                *)
BeginTxRaw ==
    /\ txPower' = raw.power
    /\ radioPower' = raw.power

FinishTxRaw(ok) ==
    /\ raw' = None
    /\ events' = events \ {"TX_RAW"}
    /\ rsp' = IF ok THEN "none" ELSE "TX_FAILED"

(* Faults: one frame too many; a frame that is not counted.                *)
FinishTxBurstLate(ok) ==
    IF ok /\ burst.remaining > 0
    THEN /\ burst' = [burst EXCEPT !.remaining = @ - 1]
         /\ UNCHANGED events
    ELSE /\ burst' = None
         /\ events' = events \ {"TX_BURST"}

FinishTxBurstUncounted(ok) ==
    IF ok /\ burst.remaining > 1
    THEN UNCHANGED <<burst, events>>
    ELSE /\ burst' = None
         /\ events' = events \ {"TX_BURST"}

(* ControlTask_processTxBurst after the radio call: <<burst, events>>.     *)
FinishTxBurst(ok) ==
    IF ok /\ burst.remaining > 1
    THEN /\ burst' = [burst EXCEPT !.remaining = @ - 1]
         /\ UNCHANGED events
    ELSE /\ burst' = None
         /\ events' = events \ {"TX_BURST"}

(* ControlTask_processTxContinuous after the radio call: <<cont, events>>. *)
FinishTxContinuous(ok) ==
    IF ok THEN UNCHANGED <<cont, events>>
    ELSE /\ cont' = None
         /\ events' = events \ {"TX_CONTINUOUS"}

(* ControlTask_processJamTimeout: jamVars.                                 *)
ProcessJamTimeout ==
    IF jamActive /\ jamLeft = 0 THEN EndJamSession ELSE UNCHANGED jamVars
=============================================================================
