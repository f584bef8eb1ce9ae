---------------------------- MODULE MCSessionLive ----------------------------
(***************************************************************************)
(* Values of the constants for the liveness run: one command of each kind  *)
(* that starts, prolongs, hinders or ends something.                       *)
(***************************************************************************)
EXTENDS DataTask

LiveCommands ==
    [op : {"RADIO_INIT", "RX_START", "RX_STOP", "TX_STOP", "JAM_STOP"}]
    \cup [op : {"SET_PHY"}, phy : {"BLE_2M"}]
    \cup [op : {"TX_RAW"}, len : {1}, power : {0}]
    \cup [op : {"TX_BURST"}, len : {1}, count : {2}, interval : {1}]
    \cup [op : {"TX_CONTINUOUS"}, len : {1}, interval : {1}]
    \cup [op : {"JAM_CONTINUOUS"}, channel : {37}, duration : {2}]
=============================================================================
