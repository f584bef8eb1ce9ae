------------------------------- MODULE MCCrypto -------------------------------
(* Lengths on both sides of every limit that either side checks: 16 and 32  *)
(* for blocks and keys, 192, 200 and 240 for texts, 7 and 13 for nonces,    *)
(* and additional data that takes a CCM or GCM payload to 255, 256, 257 and *)
(* 258 bytes and beyond (a GCM text of 200 bytes: 33 + 22 .. 25 + 200).     *)
EXTENDS CryptoCommands

MCDataLens == {0, 1, 15, 16, 17, 192, 193, 200, 201, 208, 240, 241}
MCAadLens  == {0, 1, 8, 22, 23, 24, 25}
MCIvLens   == {0, 6, 7, 12, 13, 14, 16}
MCKeyLens  == {16, 31, 32, 33, 64}
MCTagLens  == {0, 3, 4, 5, 14, 16, 17}
=============================================================================
