------------------------------ MODULE MCSession ------------------------------
(***************************************************************************)
(* Values of the constants for the runs about sessions: one command per    *)
(* outcome the handlers tell apart.                                        *)
(***************************************************************************)
EXTENDS SessionMonitor

Ops(ops) == [op : ops]

MCCommands ==
    Ops({"RADIO_INIT", "RX_START", "RX_STOP", "TX_STOP", "JAM_STOP",
         "SET_PROP_CONFIG", "OTHER"})
    \cup [op : {"SET_PHY"}, phy : {"BLE_2M", "IEEE_802_15_4", "SUB_1GHZ_868"}]
    \cup [op : {"SET_POWER"}, power : {5}]
    \cup [op : {"TX_RAW"}, len : {1, 2}, power : {5}]
    \cup [op : {"TX_FRAME"}, len : {1}]
    \cup [op : {"TX_BURST"}, len : {1}, count : {0, 2}, interval : {1}]
    \cup [op : {"TX_CONTINUOUS"}, len : {1}, interval : {1}]
    \cup [op : {"JAM_CONTINUOUS"}, channel : {11, 37}, duration : {1, 3}]
=============================================================================
