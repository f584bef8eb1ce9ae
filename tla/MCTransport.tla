------------------------------ MODULE MCTransport ------------------------------
(* The two ways in which bytes are taken apart, one after the other: frames *)
(* on the serial link (FrameLine), and entries of the RF core (RxEntry).    *)
(* They share no state, so each is run from the other's initial state.      *)
(*                                                                          *)
(* A full block is scaled down to three bytes, so that frames of six to     *)
(* eleven bytes have zeros and ends on every side of a block's end.         *)
EXTENDS FrameLine, RxEntry

F(cmd, seq, payload) == [cmd |-> cmd, seq |-> seq, payload |-> payload]

MCFrames  == {F(1, 1, <<>>), F(2, 0, <<0>>), F(48, 2, <<1, 0, 2>>), F(64, 3, <<1, 2, 3, 4, 5>>)}
MCAnswers == {F(128, 1, <<>>), F(144, 2, <<0, 0>>), F(145, 0, <<1, 2, 3, 4, 5>>)}
MCNoise   == {0, 3}

(* Headers of advertising and data PDUs with and without the bits for      *)
(* channel selection (0x20) and random addresses (0x40); lengths up to and *)
(* beyond the 6 bits the parser looks at.                                  *)
MCBleHeaders  == {0, 2, 3, 5, 6, 7, 9, 32, 34, 64, 96}
MCBleLens     == 0 .. 39 \cup {62, 63, 64, 70, 254}
MCBleChannels == {0, 36, 37, 39}
MCIeeeLens    == {0, 1, 2, 5, 126, 127}
(* An index that IEEE 802.15.4 takes for a channel, and a number of two    *)
(* bytes; a retune without a stop goes from the second to the first.       *)
MCChannels    == {5, 300}
MCPropLens    == {0, 1, 2, 3, 238, 239, 240, 242, 243, 255}

Init == LineInit /\ EntryInit

LineIsNew == sent = {} /\ answered = {}

Next ==
    \/ air = NoPacket /\ channel = 300 /\ tuned = 300 /\ LineNext /\ UNCHANGED entryVars
    \/ LineIsNew /\ EntryNext /\ UNCHANGED lineVars

Spec == Init /\ [][Next]_<<lineVars, entryVars>>
=============================================================================
