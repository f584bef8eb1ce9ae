--------------------------- MODULE SessionMonitor ---------------------------
(***************************************************************************)
(* DataTask watched by history variables: what the host is owed, how far   *)
(* the current burst is, how long the radio has been free of jamming and   *)
(* the power the host last configured.  They only record; every step of    *)
(* DataTask is possible exactly when it is possible there.                 *)
(***************************************************************************)
EXTENDS DataTask

VARIABLES
    owed,       (* frames taken in less answers given                      *)
    goal,       (* frames the pending burst was asked for (0: no burst)    *)
    sent,       (* transmissions started for it                            *)
    idle,       (* wall ticks since a jam session ended, up to JamCooldown *)
    endedBy,    (* what ended that session, or wiped its cooldown since    *)
    hostPower   (* the power of the last SET_POWER                         *)

burstHistory == <<goal, sent>>
jamHistory   == <<idle, endedBy>>
monitorVars  == <<vars, owed, burstHistory, jamHistory, hostPower>>

MonitorInit ==
    /\ Init
    /\ owed = 0
    /\ goal = 0
    /\ sent = 0
    /\ idle = JamCooldown
    /\ endedBy = "stop"
    /\ hostPower = 0

(* The handler of a command of one of these kinds accepts it in this step. *)
Accepts(ops) ==
    /\ pc = "yield" /\ slot # None
    /\ slot.op \in ops
    /\ rsp' = "ACK"

ObserveBurst ==
    /\ goal' = IF burst' = None THEN 0
               ELSE IF Accepts({"TX_BURST"}) THEN slot.count ELSE goal
    /\ sent' = IF burst' = None THEN 0
               ELSE IF pc = "txBurst" /\ pc' = "txBurstAir" THEN sent + 1 ELSE sent

ObserveJam ==
    /\ idle' = IF jamSession /\ ~jamSession' THEN 0 ELSE idle
    /\ endedBy' = IF Accepts({"RADIO_INIT"}) THEN "init"
                  ELSE IF jamSession /\ ~jamSession'
                  THEN IF Accepts({"TX_STOP"}) THEN "txStop" ELSE "stop"
                  ELSE endedBy

Observe ==
    /\ owed' = owed - (IF rsp' \in Answers THEN 1 ELSE 0)
    /\ ObserveBurst
    /\ ObserveJam
    /\ hostPower' = IF Accepts({"SET_POWER"}) THEN slot.power ELSE hostPower

MonitorHostFrame ==
    /\ \E c \in Commands : HostFrame(c)
    /\ owed' = owed + (IF rsp' = "BUSY" THEN 0 ELSE 1)
    /\ UNCHANGED <<burstHistory, jamHistory, hostPower>>

(* The wall clock runs on when no deadline is pending.                     *)
IdleTick ==
    /\ ~jamSession
    /\ idle < JamCooldown
    /\ idle' = idle + 1
    /\ WallTick \/ (jamLeft = 0 /\ cooldownLeft = 0 /\ UNCHANGED vars)
    /\ UNCHANGED <<owed, burstHistory, endedBy, hostPower>>

OtherTick ==
    /\ BurstTick \/ ContTick \/ (WallTick /\ (jamSession \/ idle = JamCooldown))
    /\ UNCHANGED <<owed, burstHistory, jamHistory, hostPower>>

MonitorNext ==
    \/ RfStep /\ Observe
    \/ MonitorHostFrame
    \/ IdleTick
    \/ OtherTick

MonitorSpec == MonitorInit /\ [][MonitorNext]_monitorVars

-----------------------------------------------------------------------------
(* What the host may rely on.                                              *)

(* Every frame taken into the slot gets exactly one ACK or ERROR, and the  *)
(* slot is busy exactly while that answer is due (processPendingCommand    *)
(* clears s_pending_ready only after the handler answered).                *)
OneAnswerEach == owed = IF slot = None THEN 0 ELSE 1

(* A burst starts as many transmissions as it was asked for and no more,   *)
(* whatever arrives, waits or is refused between two of them               *)
(* (processTxBurst and the reset of TX_STOP and RADIO_INIT).               *)
BurstAccounted ==
    burst # None =>
        sent + burst.remaining = goal + (IF pc = "txBurstAir" THEN 1 ELSE 0)

(* The cooldown as the code has it: a jam session is started only after    *)
(* JamCooldown idle ticks, unless TX_STOP ended the session before or      *)
(* RADIO_INIT wiped the cooldown.                                          *)
StartsJam == pc = "yield" /\ pc' = "jamStart"
CooldownAfterJamStop ==
    [][StartsJam => idle = JamCooldown \/ endedBy \in {"txStop", "init"}]_monitorVars

(* config.h: "Mandatory idle time between JAM sessions".  RADIO_INIT, which *)
(* resets the whole controller, is left out of the claim.                  *)
IdleBetweenJamSessions ==
    [][StartsJam => idle = JamCooldown \/ endedBy = "init"]_monitorVars

(* docs/protocol.md on TX_FRAME: it reuses the power configured with       *)
(* SET_POWER.                                                              *)
FrameAtConfiguredPower ==
    [][Accepts({"TX_FRAME"}) => raw'.power = hostPower]_monitorVars
=============================================================================
