---------------------------- MODULE MCResponses ----------------------------
(* A ring of three with two frames that fit and one that does not.  The    *)
(* flush limit is below the depth, so that frames are left over by a poll. *)
EXTENDS PacketQueue

CONSTANTS ack, packet, huge

MCFrames == {ack, packet, huge}
MCTooLong == {huge}
=============================================================================
