------------------------------ MODULE MCHostLink ------------------------------
(* Three sequence numbers and four commands, so that the number 0 comes     *)
(* round; stop_rx and stop_jam have the attempts of the program less one,   *)
(* init() two instead of three.                                             *)
EXTENDS HostLink
=============================================================================
