--------------------------------- MODULE Wire ---------------------------------
(***************************************************************************)
(* The frames of the serial link, as both ends write and read them:        *)
(* protocol.c in the firmware, protocol.py and the cobs package at the     *)
(* host.  A frame is a command or answer, its sequence number and payload; *)
(* on the wire it gets a length and a CRC-16, and is stuffed (COBS) so     *)
(* that the byte 0 is left to delimit frames.                              *)
(***************************************************************************)
EXTENDS Naturals, Sequences

CONSTANT FullCode   (* the code byte of a full block (0xFF)                *)

ASSUME FullCodeAssumption == FullCode \in 2 .. 255

(* Bytes that are no encoding, and bytes that are no frame.                *)
Bad     == <<256>>
Refused == [ok |-> FALSE]

-----------------------------------------------------------------------------
(* The checksum: polynomial 0x1021, initial value 0xFFFF, 16 bits.         *)

(* Exclusive or of two bytes, bit by bit, and of two words.                *)
Differ(a, b, weight) == ((a \div weight) + (b \div weight)) % 2

XorByte(a, b) ==
    Differ(a, b, 1) + 2 * Differ(a, b, 2) + 4 * Differ(a, b, 4) + 8 * Differ(a, b, 8)
    + 16 * Differ(a, b, 16) + 32 * Differ(a, b, 32) + 64 * Differ(a, b, 64)
    + 128 * Differ(a, b, 128)

Xor(a, b) == 256 * XorByte(a \div 256, b \div 256) + XorByte(a % 256, b % 256)

(* A turn of the inner loop, and eight of them.                            *)
ShiftBit(crc)  ==
    IF crc \div 256 < 128 THEN crc * 2 ELSE Xor((crc * 2) % (256 * 256), 16 * 256 + 33)
ShiftTwo(crc)  == ShiftBit(ShiftBit(crc))
ShiftFour(crc) == ShiftTwo(ShiftTwo(crc))

NextCrc(crc, byte) == ShiftFour(ShiftFour(Xor(crc, byte * 256)))

Checksums(data) ==
    LET after[i \in 0 .. Len(data)] == IF i = 0 THEN 255 * 256 + 255 ELSE NextCrc(after[i - 1], data[i])
    IN after

crc16_ccitt(data) == Checksums(data)[Len(data)]

-----------------------------------------------------------------------------
(* COBS in the firmware.                                                   *)

(* The code of the block that begins at `at' is known; another begins.     *)
CloseBlock(s) ==
    [out |-> Append([s.out EXCEPT ![s.at] = s.code], 0), at |-> Len(s.out) + 1, code |-> 1]

EncodeByte(s, byte) ==
    IF byte = 0 THEN CloseBlock(s)
    ELSE LET t == [out |-> Append(s.out, byte), at |-> s.at, code |-> s.code + 1]
         IN IF t.code = FullCode THEN CloseBlock(t) ELSE t

(* The state of the encoder after each prefix of its input.                *)
Encoding(input) ==
    LET after[i \in 0 .. Len(input)] ==
            IF i = 0 THEN [out |-> <<0>>, at |-> 1, code |-> 1]
            ELSE EncodeByte(after[i - 1], input[i])
    IN after

cobs_encode(input) ==
    LET s == Encoding(input)[Len(input)]
    IN IF input = <<>> THEN <<>> ELSE [s.out EXCEPT ![s.at] = s.code]

(* Fault: a full block is followed by a zero like any other.               *)
ZeroAfterFull(input, i, next) == IF next <= Len(input) THEN <<0>> ELSE <<>>

(* A block stands for its bytes and a zero, a full or last one for none.   *)
Zero(input, i, next) ==
    IF input[i] # FullCode /\ next <= Len(input) THEN <<0>> ELSE <<>>

Block(input, i, next) == SubSeq(input, i + 1, next - 1) \o Zero(input, i, next)

(* What the blocks from a position on decode to.                           *)
Decoding(input) ==
    LET n == Len(input)
        From[i \in 1 .. n + 1] ==
            IF i > n THEN <<>>
            ELSE LET next == i + input[i]
                 IN IF input[i] = 0 \/ next > n + 1 THEN Bad
                    ELSE IF From[next] = Bad THEN Bad
                    ELSE Block(input, i, next) \o From[next]
    IN From

(* A failure leaves nothing.                                               *)
cobs_decode(input) == IF Decoding(input)[1] = Bad THEN <<>> ELSE Decoding(input)[1]

-----------------------------------------------------------------------------
(* COBS at the host: the cobs package.  Its encoder starts no new block    *)
(* after a full one until there is something to put into it.               *)

HostEncodeByte(s, byte) ==
    IF byte = 0 THEN [out |-> s.out \o <<Len(s.run) + 1>> \o s.run, run |-> <<>>, open |-> TRUE]
    ELSE IF Len(s.run) = FullCode - 2
         THEN [out |-> s.out \o <<FullCode>> \o Append(s.run, byte), run |-> <<>>, open |-> FALSE]
         ELSE [out |-> s.out, run |-> Append(s.run, byte), open |-> s.open]

HostEncoding(input) ==
    LET after[i \in 0 .. Len(input)] ==
            IF i = 0 THEN [out |-> <<>>, run |-> <<>>, open |-> TRUE]
            ELSE HostEncodeByte(after[i - 1], input[i])
    IN after

HostEncode(input) ==
    LET s == HostEncoding(input)[Len(input)]
    IN IF s.open \/ s.run # <<>> THEN s.out \o <<Len(s.run) + 1>> \o s.run ELSE s.out

HostDecode(input) == IF \E i \in DOMAIN input : input[i] = 0 THEN <<>> ELSE cobs_decode(input)

-----------------------------------------------------------------------------
(* Frames.                                                                 *)

Word(n) == <<n % 256, n \div 256>>
Value(bytes, i) == bytes[i] + 256 * bytes[i + 1]

build_frame(f) ==
    LET body == <<f.cmd, f.seq>> \o Word(Len(f.payload)) \o f.payload
    IN body \o Word(crc16_ccitt(body))

Accepted(frame) ==
    [ok    |-> TRUE,
     frame |-> [cmd |-> frame[1], seq |-> frame[2],
                payload |-> SubSeq(frame, 5, Len(frame) - 2)]]

parse_frame(frame) ==
    LET n == Len(frame)
    IN IF /\ n >= 6 /\ n = 6 + Value(frame, 3)
          /\ Value(frame, n - 1) = crc16_ccitt(SubSeq(frame, 1, n - 2))
       THEN Accepted(frame)
       ELSE Refused

(* At the host, the checksum first and the length last.                    *)
HostParse(frame) ==
    LET n == Len(frame)
    IN IF /\ n >= 6
          /\ Value(frame, n - 1) = crc16_ccitt(SubSeq(frame, 1, n - 2))
          /\ Len(SubSeq(frame, 5, n - 2)) = Value(frame, 3)
       THEN Accepted(frame)
       ELSE Refused

(* Between delimiters, from the host and from the device.                  *)
HostWire(f)   == HostEncode(build_frame(f))
DeviceWire(f) == cobs_encode(build_frame(f))
=============================================================================
