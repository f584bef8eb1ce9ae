--------------------------------- MODULE MCRx ---------------------------------
(* Three entries as in the firmware; a queue shorter than the ring, so that *)
(* one poll overruns it, and a drain shorter than the queue, so that a poll *)
(* leaves packets behind.  The sequence numbers wrap after two.             *)
EXTENDS RxPath
=============================================================================
