------------------------------- MODULE RadioIf --------------------------------
(***************************************************************************)
(* The radio interface (radio_if.c): its two RF driver clients, the switch *)
(* between modes by running a RadioSetup on an open client, the cached     *)
(* transmit session, the receiver, jam sessions and test tones.            *)
(*                                                                         *)
(* All of it runs in the RF task, one call after the other, so a command   *)
(* is one step.  The RF driver is modelled by what the code needs of it:   *)
(* RF_postCmd queues a command for the one radio, RF_runCmd waits until    *)
(* everything queued before has ended, RF_flushCmd takes back what one     *)
(* client has queued.  Only commands that never end by themselves stay in  *)
(* the queue: RX commands and CMD_TX_TEST.                                 *)
(***************************************************************************)
EXTENDS Naturals

CONSTANTS
    Phys,       (* the PHYs the host selects                               *)
    Null        (* a NULL handle or mode                                   *)

BlePhys == {"BLE_1M", "BLE_2M", "BLE_CODED"}
SubGhz  == {"SUB_1GHZ"}
Clients == {"non433", "433"}
Modes   == {"ble", "ieee", "prop", "ook", "prop433"}
Mods    == {"FSK", "GFSK", "OOK"}

Setups  == [mode : Modes, cfg : BlePhys \cup Mods \cup {"ieee"}]

ASSUME RadioAssumption ==
    /\ "BLE_1M" \in Phys
    /\ Null \notin Phys \cup Clients \cup Modes \cup Setups

VARIABLES
    rf,         (* driver and session: see Driver                          *)
    phy,        (* s_selected_phy                                          *)
    low,        (* s_frequency_hz is below 861 MHz                         *)
    ook,        (* s_prop_ook_active                                       *)
    blePhy,     (* defaultPhy in Ble5_0_cmdBle5RadioSetup                  *)
    propMod,    (* modulation in Prop0_cmdPropRadioDivSetup                *)
    rxEnabled,  (* control_task's s_rx_enabled                             *)
    rxRunning,  (* s_rx_running                                            *)
    backend,    (* s_backend is RADIO_IF_BACKEND_RF                        *)
    rfMode,     (* s_rf_mode                                               *)
    testCmd,    (* s_test_cmd_handle holds a command's handle              *)
    jam,        (* s_jam_session_active with s_jam_phy, or Null            *)
    postFailed, (* history: a start or restart of reception has failed      *)
    stuck       (* the RF task waits in RF_runCmd behind an endless command *)

rxVars  == <<rxEnabled, rxRunning, backend, rfMode>>
cfgVars == <<phy, low, ook, blePhy, propMod>>
vars    == <<rf, cfgVars, rxVars, testCmd, jam, postFailed, stuck>>

Posted  == [on : Clients, kind : {"rx", "tone"}]

(* s_rf_handle, whether the clients are open, s_current_rf_mode, the       *)
(* RadioSetup last run on the non-433 client, s_tx_session_handle and      *)
(* _mode, and how many of each endless command the clients have queued.    *)
(* None ends by itself and a flush takes all of a client's back, so their  *)
(* order makes no difference.                                              *)
Driver ==
    [handle : Clients \cup {Null}, open433 : BOOLEAN, open : BOOLEAN, mode : Modes \cup {Null},
     setup : Setups \cup {Null}, sess : Clients \cup {Null},
     sessMode : Modes \cup {Null}, queue : [Posted -> Nat]]

(* Types, and the driver never holds an endless command more than twice.   *)
TypeOK ==
    /\ rf \in Driver /\ \A c \in Posted : rf.queue[c] <= 2
    /\ phy \in Phys /\ blePhy \in BlePhys /\ propMod \in Mods
    /\ low \in BOOLEAN /\ ook \in BOOLEAN
    /\ rxEnabled \in BOOLEAN /\ rxRunning \in BOOLEAN /\ backend \in BOOLEAN
    /\ rfMode \in {"none", "ble", "ieee", "sub1ghz"}
    /\ testCmd \in BOOLEAN /\ postFailed \in BOOLEAN /\ stuck \in BOOLEAN
    /\ jam \in Phys \cup {Null}

Init ==
    /\ rf \in [handle : {Null}, open433 : BOOLEAN, open : {FALSE}, mode : {Null},
                setup : {Null}, sess : {Null}, sessMode : {Null}, queue : {[c \in Posted |-> 0]}]
    /\ phy = "BLE_1M" /\ low = FALSE /\ ook = FALSE
    /\ blePhy = "BLE_1M" /\ propMod = "GFSK"
    /\ rxEnabled = FALSE /\ rxRunning = FALSE /\ backend = FALSE
    /\ rfMode = "none" /\ testCmd = FALSE /\ jam = Null
    /\ postFailed = FALSE /\ stuck = FALSE

-----------------------------------------------------------------------------
(* The RF driver.                                                          *)

Busy(d)     == \E c \in Posted : d.queue[c] > 0
Flush(d, h) == [d EXCEPT !.queue = [c \in Posted |-> IF c.on = h THEN 0 ELSE d.queue[c]]]
Post(d, k)  == [d EXCEPT !.queue[[on |-> d.handle, kind |-> k]] = @ + 1]

(* What a call leaves behind: "stuck" if its RF_runCmd never returns.      *)
Result(res, d) == [res |-> res, rf |-> d]

(* RF_runCmd of a command that ends by itself.                             *)
RunCmd(d) == IF Busy(d) THEN {Result("stuck", d)}
                        ELSE {Result("ok", d), Result("failed", d)}

(* The outcomes of f after every successful outcome of a call.             *)
Then(outcomes, f(_)) ==
    UNION {IF o.res = "ok" THEN f(o.rf) ELSE {o} : o \in outcomes}

-----------------------------------------------------------------------------
(* Modes and sessions.                                                     *)

PropMode(o, l) == IF o THEN "ook" ELSE IF l THEN "prop433" ELSE "prop"

ModeOf(p) == IF p \in BlePhys THEN "ble"
             ELSE IF p \in SubGhz THEN PropMode(ook, low) ELSE "ieee"

(* The contents of the setup struct the code passes for a mode.            *)
SetupOf(mode, ble) ==
    [mode |-> mode, cfg |-> CASE mode = "ble"  -> ble
                              [] mode = "ieee" -> "ieee"
                              [] OTHER         -> propMod]

(* The 433 MHz client was opened at boot and is only aliased.              *)
Alias433(d) ==
    IF ~d.open433 THEN {Result("failed", d)}
    ELSE {Result("ok", [Flush(d, "non433") EXCEPT !.handle = "433",
                                                  !.mode = "prop433"])}

OpenNon433(d, mode, setup) ==
    {Result("ok", [d EXCEPT !.open = TRUE, !.handle = "non433", !.mode = mode,
                            !.setup = setup, !.sess = "non433",
                            !.sessMode = Null]),
     Result("failed", [d EXCEPT !.handle = Null, !.mode = Null])}

(* A setup that fails leaves the registers in no known state.              *)
RunSetup(d) ==
    LET e == [Flush(d, "non433") EXCEPT !.handle = "non433"]
    IN  {IF o.res = "failed" THEN Result("failed", [e EXCEPT !.setup = Null])
                             ELSE o : o \in RunCmd(e)}

SetUpAgain(d, mode, setup) ==
    Then(RunSetup(d), LAMBDA e :
            {Result("ok", [e EXCEPT !.mode = mode, !.setup = setup,
                                    !.sessMode = Null])})

SwitchRfMode(d, mode, setup) ==
    IF mode = "prop433" THEN Alias433(d)
    ELSE IF ~d.open THEN OpenNon433(d, mode, setup)
    ELSE SetUpAgain(d, mode, setup)

CloseTxSession(d) ==
    IF d.sess = Null THEN d
    ELSE [Flush(d, d.sess) EXCEPT !.sess = Null, !.sessMode = Null]

(* Fault: an endless RX command is left to end by itself.                  *)
StopRfBackendKeepsRx(d) == d

(* RadioIF_stopRfBackend: cancel the RX command and flush the client.      *)
StopRfBackend(d) == IF d.handle = Null THEN d ELSE Flush(d, d.handle)

(* RadioIF_executeTxCommand, once no jam session is active.                *)
ExecuteTxCommand(d, mode, setup) ==
    IF d.sess # Null /\ d.sessMode = mode
    THEN Then(RunCmd(d), RunCmd)
    ELSE Then(SwitchRfMode(d, mode, setup),
              LAMBDA e : RunCmd([e EXCEPT !.sess = e.handle, !.sessMode = mode]))

Apply(outcome) == rf' = outcome.rf /\ stuck' = (outcome.res = "stuck")
Effect(d)      == rf' = d /\ UNCHANGED stuck

-----------------------------------------------------------------------------
(* RadioIF_startRx, _stopRx and the posting of the RX command.             *)

RfModeOf(p) == CASE p \in BlePhys -> "ble"
                 [] p \in SubGhz  -> "sub1ghz"
                 [] OTHER         -> "ieee"

PostRx(d) ==
    {Result("failed", d)}
    \cup (IF d.handle = Null THEN {} ELSE {Result("ok", Post(d, "rx"))})

StartBle(d)  == Then(SwitchRfMode(d, "ble", SetupOf("ble", phy)), PostRx)
StartIeee(d) == Then(SwitchRfMode(d, "ieee", SetupOf("ieee", blePhy)), PostRx)

(* A receiver on 433 MHz presets the transmit session.                     *)
StartSub1ghz(d) ==
    LET mode == PropMode(ook, low)
        preset(e) == IF mode # "prop433" THEN e
                     ELSE [e EXCEPT !.sess = e.handle, !.sessMode = mode]
    IN  Then(Then(SwitchRfMode(d, mode, SetupOf(mode, blePhy)), PostRx),
             LAMBDA e : {Result("ok", preset(e))})

StartBackend(d) == CASE phy \in BlePhys -> StartBle(d)
                     [] phy \in SubGhz  -> StartSub1ghz(d)
                     [] OTHER           -> StartIeee(d)

StartRx ==
    /\ \E o \in StartBackend(CloseTxSession(rf)) :
          /\ Apply(o)
          /\ postFailed' = (postFailed \/ o.res = "failed")
          /\ rxRunning' = (o.res # "failed")
          /\ backend' = IF o.res = "stuck" THEN backend ELSE o.res = "ok"
          /\ rfMode' = IF o.res = "failed" THEN "none" ELSE RfModeOf(phy)
    /\ blePhy' = IF phy \in BlePhys THEN phy ELSE blePhy

StopRx ==
    /\ Effect(IF backend THEN StopRfBackend(rf) ELSE rf)
    /\ rxRunning' = FALSE
    /\ backend' = FALSE
    /\ rfMode' = "none"

(* RadioIF_restartRfRx; callers ignore whether the RX command was queued.  *)
RestartRx(d) ==
    IF backend /\ d.handle # Null /\ rfMode = RfModeOf(phy)
    THEN PostRx(Flush(d, d.handle))
    ELSE {Result("ok", d)}

(* ControlTask_onRxStart (the command is refused while it is busy) and the *)
(* poll that serves the flag it sets.                                      *)
OnRxStart ==
    /\ jam = Null
    /\ rxEnabled' = TRUE
    /\ StartRx
    /\ UNCHANGED <<phy, low, ook, propMod, testCmd, jam>>

OnRxStop ==
    /\ rxEnabled' = FALSE
    /\ StopRx
    /\ UNCHANGED <<cfgVars, testCmd, jam, postFailed>>

(* ControlTask_onRadioInit: the configuration and the handles stay.        *)
OnRadioInit ==
    /\ rxEnabled' = FALSE
    /\ jam' = Null
    /\ StopRx
    /\ UNCHANGED <<cfgVars, testCmd, postFailed>>

-----------------------------------------------------------------------------
(* Configuration.                                                          *)

(* Fault: the cached transmit session survives a change of PHY.            *)
OnSetPhyKeepsSession(p, band) ==
    /\ Effect(StopRfBackend(rf))
    /\ rxRunning' = FALSE
    /\ rfMode' = IF rf.handle # Null THEN "none" ELSE rfMode
    /\ ook' = FALSE
    /\ low' = IF band = "same" THEN low ELSE band = "low"
    /\ phy' = p
    /\ UNCHANGED <<blePhy, propMod, rxEnabled, backend, testCmd, jam, postFailed>>

(* Fault: the receiver is stopped but s_rx_running stays up.               *)
OnSetPhyKeepsRunning(p, band) ==
    /\ Effect(StopRfBackend(CloseTxSession(rf)))
    /\ rfMode' = IF rf.handle # Null THEN "none" ELSE rfMode
    /\ ook' = FALSE
    /\ low' = IF band = "same" THEN low ELSE band = "low"
    /\ phy' = p
    /\ UNCHANGED <<blePhy, propMod, rxRunning, rxEnabled, backend, testCmd, jam, postFailed>>

(* RadioIF_setPhy.  Its last statement would restart reception, but only   *)
(* in an s_rf_mode that the stop before it has just cleared.               *)
OnSetPhy(p, band) ==
    /\ Effect(StopRfBackend(CloseTxSession(rf)))
    /\ rxRunning' = FALSE
    /\ rfMode' = IF rf.handle # Null THEN "none" ELSE rfMode
    /\ ook' = FALSE
    /\ low' = IF band = "same" THEN low ELSE band = "low"
    /\ phy' = p
    /\ UNCHANGED <<blePhy, propMod, rxEnabled, backend, testCmd, jam, postFailed>>

OnSetChannel ==
    /\ \E o \in RestartRx(CloseTxSession(rf)) :
          /\ Effect(o.rf)
          /\ postFailed' = (postFailed \/ o.res = "failed")
    /\ UNCHANGED <<cfgVars, rxVars, testCmd, jam>>

(* 861 MHz and above, or OOK: the shared struct.  Nothing is stopped while *)
(* the OOK patches are loaded.                                             *)
OnSetPropConfig(mod, toLow) ==
    /\ ~toLow \/ mod = "OOK"
    /\ IF ook THEN UNCHANGED <<rf, stuck, rxRunning, rfMode>>
       ELSE /\ Effect(StopRfBackend(CloseTxSession(rf)))
            /\ rxRunning' = (rxRunning /\ rf.handle = Null)
            /\ rfMode' = IF rf.handle # Null THEN "none" ELSE rfMode
    /\ propMod' = mod /\ ook' = (mod = "OOK") /\ low' = toLow
    /\ UNCHANGED <<phy, blePhy, rxEnabled, backend, testCmd, jam, postFailed>>

(* Below 861 MHz: the struct of the 433 MHz client, which is made to set   *)
(* itself up again before its next command.                                *)
OnSetPropConfig433(mod) ==
    /\ mod # "OOK"
    /\ IF rxRunning THEN StopRx ELSE UNCHANGED <<rf, stuck, rxRunning, backend, rfMode>>
    /\ ook' = FALSE /\ low' = TRUE
    /\ UNCHANGED <<phy, blePhy, propMod, rxEnabled, testCmd, jam, postFailed>>

-----------------------------------------------------------------------------
(* Transmission (RadioIF_transmitRaw), by the path the PHY selects.        *)

TxAllowed == ~rxEnabled /\ ~rxRunning

(* Fault: the session of a jam is not asked for.                           *)
ExecuteTxUnderJam(mode, ble) ==
    \E o \in ExecuteTxCommand(rf, mode, SetupOf(mode, ble)) : Apply(o)

ExecuteTx(mode, ble) ==
    IF jam # Null THEN UNCHANGED <<rf, stuck>>
    ELSE \E o \in ExecuteTxCommand(rf, mode, SetupOf(mode, ble)) : Apply(o)

(* BLE 1M and Coded.  The frame is refused off the advertising channels,   *)
(* after the PHY has been written into the setup.                          *)
SendBleAdv ==
    /\ TxAllowed
    /\ phy \in BlePhys \ {"BLE_2M"}
    /\ blePhy' = phy
    /\ UNCHANGED <<rf, stuck>> \/ ExecuteTx("ble", phy)
    /\ UNCHANGED <<phy, low, ook, propMod, rxVars, testCmd, jam, postFailed>>

SendIeee ==
    /\ TxAllowed
    /\ phy \notin BlePhys \cup SubGhz
    /\ ExecuteTx("ieee", blePhy)
    /\ UNCHANGED <<cfgVars, rxVars, testCmd, jam, postFailed>>

(* Sub-1GHz: below 861 MHz (and not OOK) the 433 MHz client's own commands,*)
(* which ask for no session.                                               *)
SendProp ==
    /\ TxAllowed
    /\ phy \in SubGhz
    /\ IF PropMode(ook, low) = "prop433"
       THEN \E o \in Then(Alias433(rf), RunCmd) : Apply(o)
       ELSE ExecuteTx(PropMode(ook, low), blePhy)
    /\ UNCHANGED <<cfgVars, rxVars, testCmd, jam, postFailed>>

(* BLE 2M: extended advertising, always after a setup for 1M.              *)
SendExtAdv ==
    /\ TxAllowed
    /\ phy = "BLE_2M"
    /\ blePhy' = "BLE_1M"
    /\ \E o \in Then(SwitchRfMode(rf, "ble", SetupOf("ble", "BLE_1M")), RunCmd) :
          Apply(o)
    /\ UNCHANGED <<phy, low, ook, propMod, rxVars, testCmd, jam, postFailed>>

-----------------------------------------------------------------------------
(* Jam sessions, which control_task admits on BLE and IEEE channels.       *)

(* RadioIF_executeJamTx, on the client set up when the session began.      *)
JamTx(d) == RunCmd(d)

StartJam ==
    LET ble == IF phy \in BlePhys THEN phy ELSE blePhy
        tuned == Then(SwitchRfMode(CloseTxSession(rf), ModeOf(phy),
                                   SetupOf(ModeOf(phy), ble)), RunCmd)
    IN  /\ TxAllowed /\ jam = Null
        /\ phy \notin SubGhz
        /\ \E o \in Then(tuned, JamTx) :
              /\ Apply(o)
              /\ jam' = IF o.res = "ok" THEN phy ELSE jam
        /\ blePhy' = ble
        /\ UNCHANGED <<phy, low, ook, propMod, rxVars, testCmd, postFailed>>

(* RadioIF_pollJamSession: up to ten transmissions.                        *)
JamPoll ==
    /\ jam # Null
    /\ blePhy' = IF jam \in BlePhys THEN jam ELSE blePhy
    /\ \E o \in JamTx(rf) : Apply(o)
    /\ UNCHANGED <<phy, low, ook, propMod, rxVars, testCmd, jam, postFailed>>

StopJam ==
    /\ jam # Null
    /\ jam' = Null
    /\ UNCHANGED <<rf, stuck, cfgVars, rxVars, testCmd, postFailed>>

-----------------------------------------------------------------------------
(* Test tones (CMD_TX_TEST).                                               *)

(* RadioIF_stopTxTest: cancel the tone and flush the current client.       *)
StopTest(d) == IF d.handle # Null /\ testCmd THEN Flush(d, d.handle) ELSE d

(* Fault: an earlier tone is not stopped before the next.                  *)
OnTxTestOverTone ==
    LET ready == IF rf.handle # Null THEN {Result("ok", rf)}
                 ELSE SwitchRfMode(rf, ModeOf(phy), SetupOf(ModeOf(phy), blePhy))
    IN  /\ \E o \in Then(ready, LAMBDA d : {Result("ok", Post(d, "tone"))}) :
             Apply(o)
        /\ testCmd' = TRUE
        /\ UNCHANGED <<cfgVars, rxVars, jam, postFailed>>

StartTone(d) ==
    {Result("ok", Post(StopTest(d), "tone")), Result("refused", StopTest(d))}

(* RadioIF_runTxTest switches mode only if no client is in use.            *)
OnTxTest ==
    LET ready == IF rf.handle # Null THEN {Result("ok", rf)}
                 ELSE SwitchRfMode(rf, ModeOf(phy), SetupOf(ModeOf(phy), blePhy))
    IN  /\ \E o \in Then(ready, StartTone) :
             /\ Apply(o)
             /\ testCmd' = CASE o.res = "ok" -> TRUE
                              [] o.res = "refused" -> FALSE
                              [] OTHER -> testCmd
        /\ UNCHANGED <<cfgVars, rxVars, jam, postFailed>>

OnTxTestStop ==
    /\ Effect(StopTest(rf))
    /\ testCmd' = FALSE
    /\ UNCHANGED <<cfgVars, rxVars, jam, postFailed>>

Command ==
    \/ OnRxStart \/ OnRxStop \/ OnRadioInit
    \/ \E p \in Phys, band \in {"same", "low", "high"} : OnSetPhy(p, band)
    \/ OnSetChannel
    \/ \E mod \in Mods, toLow \in BOOLEAN : OnSetPropConfig(mod, toLow)
    \/ \E mod \in Mods : OnSetPropConfig433(mod)
    \/ SendBleAdv \/ SendExtAdv \/ SendIeee \/ SendProp
    \/ StartJam \/ JamPoll \/ StopJam
    \/ OnTxTest \/ OnTxTestStop

Next == ~stuck /\ Command

Spec == Init /\ [][Next]_vars

-----------------------------------------------------------------------------
RxPosted == \E c \in Posted : c.on = rf.handle /\ c.kind = "rx" /\ rf.queue[c] > 0
TonePosted == \E c \in Posted : c.kind = "tone" /\ rf.queue[c] > 0

(* A frame sent over the cached session skips the setup: whenever it would *)
(* be, the setup last run on that client is the one the selected PHY and   *)
(* modulation need, whatever reception, jamming, tones and configuration   *)
(* happened since (s_tx_session_handle and s_tx_session_mode).             *)
SessionIsSetUp ==
    phy # "BLE_2M" /\ rf.sess # Null /\ rf.sessMode = ModeOf(phy)
      /\ ModeOf(phy) # "prop433"
    => /\ rf.sess = "non433"
       /\ rf.setup = SetupOf(ModeOf(phy), phy)

(* A running receiver loses its RX command only to a test tone's flush     *)
(* (and where the driver refuses a command or the task hangs): any other   *)
(* call that takes it back, on whatever client, also clears s_rx_running.  *)
RxLostOnlyByTest ==
    [][rxRunning /\ RxPosted /\ rxRunning' /\ ~RxPosted' =>
          OnTxTest \/ OnTxTestStop \/ postFailed' \/ stuck']_vars

(* The RF task waits for ever only behind a test tone, never behind a      *)
(* receiver that was forgotten on the other client or under another mode   *)
(* (a refused second RX_START leaves the first receiver on the 433 client).*)
StuckOnlyBehindTone == stuck => TonePosted \/ postFailed

(* Under a jam session the radio stays set up for the session's PHY,       *)
(* unless the host transmits an extended advertisement, the one path that  *)
(* sets the client up without asking for the session.                      *)
JamKeepsItsSetup ==
    [][jam # Null /\ jam' = jam /\ rf'.setup # rf.setup => SendExtAdv]_vars
=============================================================================
