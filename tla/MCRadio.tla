------------------------------- MODULE MCRadio --------------------------------
(***************************************************************************)
(* The radio interface with one PHY per transmit path, and a second BLE    *)
(* PHY that shares its mode with the first.                                *)
(***************************************************************************)
EXTENDS RadioIf

MCPhys == {"BLE_1M", "BLE_2M", "BLE_CODED", "IEEE_802_15_4", "SUB_1GHZ"}
=============================================================================
