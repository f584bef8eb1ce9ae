---------------------------- MODULE CryptoCommands ----------------------------
(***************************************************************************)
(* One cryptographic call from the host's argument checks (radio.py) to    *)
(* its result: the payload it builds, what the dispatcher reads out of it  *)
(* (command_processor.c), the one-shot driver calls (crypto_engine.c), the *)
(* answer, and what the host makes of the answer's code and length.  Each  *)
(* command has one definition per side - Host..., Cmd..., Engine... - and  *)
(* the actions are common to all.                                          *)
(*                                                                         *)
(* Of all byte strings only the length is kept.  A payload is the sequence *)
(* of its fields; the firmware reads fields at offsets of its own.  The    *)
(* ciphers are the hardware's: a driver call may come back with any status *)
(* that the code tells apart.                                              *)
(***************************************************************************)
EXTENDS Naturals, Sequences

CONSTANTS
    DataLens,   (* lengths tried for plain and cipher texts                *)
    AadLens,    (* for additional data                                     *)
    IvLens,     (* for initial vectors and nonces                          *)
    KeyLens,    (* for keys and other strings of fixed length              *)
    TagLens,    (* for tags                                                *)
    None

ASSUME LengthAssumption ==
    /\ DataLens \subseteq Nat /\ AadLens \subseteq Nat /\ IvLens \subseteq Nat
    /\ KeyLens \subseteq Nat /\ TagLens \subseteq Nat

VARIABLES
    stage,      (* how far the call has come                               *)
    req,        (* its arguments                                           *)
    open,       (* the TI driver whose handle is open, or None             *)
    status,     (* crypto_engine_status_t, once the engine has one         *)
    ans,        (* the answer under way: response or error, and its length *)
    outcome     (* what the host call returns or raises                    *)

vars == <<stage, req, open, status, ans, outcome>>

Ciphers == {"AES_CTR", "AES_CBC"}
Aeads   == {"AES_CCM", "AES_GCM"}
Ecc     == {"ECDH", "ECDSA_SIGN", "ECDSA_VERIFY"}
Cmds    == {"RANDOM", "AES_ECB", "SHA256"} \cup Ciphers \cup Aeads \cup Ecc

(* Lengths of the arguments; key stands for a private key too, and data    *)
(* for the number of bytes asked of the TRNG and for a message hash.       *)
Blank == [cmd |-> "RANDOM", op |-> 0, curve |-> 0, key |-> 0, iv |-> 0, aad |-> 0,
          data |-> 0, tag |-> 0, tagLen |-> 0, pub |-> 0, sig |-> 0]

Op(c)       == [Blank EXCEPT !.cmd = c]
Plain       == {[Op(c) EXCEPT !.data = d] : c \in {"RANDOM", "SHA256"}, d \in DataLens}
Cipher(c, o, k, v, d) == [Op(c) EXCEPT !.op = o, !.key = k, !.iv = v, !.data = d]
CipherCalls == {Cipher(c, o, k, v, d) : c \in {"AES_ECB"} \cup Ciphers, o \in 0 .. 1,
                   k \in KeyLens, v \in IvLens, d \in DataLens}
Aead(c, o, v, a, d, t) == [Op(c) EXCEPT !.op = o, !.key = 16, !.iv = v, !.aad = a, !.data = d,
                                !.tag = o * t, !.tagLen = IF c = "AES_GCM" THEN 16 ELSE t]
AeadCalls   == {Aead(c, o, v, a, d, t) : c \in Aeads, o \in 0 .. 1, v \in IvLens,
                   a \in AadLens, d \in DataLens, t \in TagLens}
Curve(c, e, k, h, p, s) == [Op(c) EXCEPT !.curve = e, !.key = k, !.data = h, !.pub = p,
                                !.sig = s]
EccCalls    == {Curve(c, e, k, h, p, s) : c \in Ecc, e \in 0 .. 1, k \in KeyLens,
                   h \in KeyLens, p \in KeyLens, s \in KeyLens}
Requests    == Plain \cup CipherCalls \cup AeadCalls \cup EccCalls

Statuses == {"OK", "BAD_PARAM", "TAG_MISMATCH", "HW_ERROR", "UNSUPPORTED_CURVE"}
Stages   == {"idle", "sent", "engine", "run", "answered", "done"}
Answers  == [rsp : {"RSP", "ERROR"}, code : 0 .. 5, len : 0 .. 255, busy : BOOLEAN]
Outcomes == {"result", "failed", "tag mismatch", "not supported", "ValueError",
             "unexpected length"}

ASSUME NoneAssumption ==
    /\ None \notin Requests /\ None \notin Answers
    /\ None \notin Cmds \cup Statuses \cup Outcomes

TypeOK ==
    /\ stage \in Stages
    /\ (req = None) <=> (stage = "idle")
    /\ open \in Cmds \cup {None}
    /\ (stage = "run") <=> (open # None)
    /\ status \in Statuses \cup {None}
    /\ ans \in Answers \cup {None}
    /\ outcome \in Outcomes \cup {None}
    /\ (outcome # None) <=> (stage = "done")

Init ==
    /\ stage = "idle" /\ req = None /\ open = None /\ status = None
    /\ ans = None /\ outcome = None

-----------------------------------------------------------------------------
(* The host's side of each command: the arguments it takes, the fields of  *)
(* the payload in the order it puts them together, and the lengths it      *)
(* takes for an answer.                                                    *)

F(name, len) == [name |-> name, len |-> len]
AnyLen == 0 .. 255
TagSizes == {4, 6, 8, 10, 12, 14, 16}
PointLen(r) == IF r.curve = 0 THEN 64 ELSE 32

HostRandom(r) ==
    [accepts |-> r.data \in 1 .. 240,
     fields  |-> <<F("n", 1)>>,
     takes   |-> {r.data}]

HostSha256(r) ==
    [accepts |-> r.data <= 240,
     fields  |-> <<F("data", r.data)>>,
     takes   |-> {32}]

CipherFields(r) ==
    IF r.cmd = "AES_ECB"
    THEN <<F("op", 1), F("key", r.key), F("data", r.data)>>
    ELSE <<F("op", 1), F("key", r.key), F("iv", r.iv), F("data", r.data)>>

(* Fault: whole blocks are asked for, but not at least one.                *)
HostCipherEmptyCbc(r) ==
    [accepts |-> /\ r.key = 16
                 /\ CASE r.cmd = "AES_ECB" -> r.data = 16
                      [] r.cmd = "AES_CTR" -> r.iv = 16 /\ r.data <= 200
                      [] OTHER -> r.iv = 16 /\ r.data <= 192 /\ r.data % 16 = 0,
     fields  |-> CipherFields(r),
     takes   |-> AnyLen]

HostCipher(r) ==
    [accepts |-> /\ r.key = 16
                 /\ CASE r.cmd = "AES_ECB" -> r.data = 16
                      [] r.cmd = "AES_CTR" -> r.iv = 16 /\ r.data <= 200
                      [] OTHER -> r.iv = 16 /\ r.data \in 1 .. 192 /\ r.data % 16 = 0,
     fields  |-> CipherFields(r),
     takes   |-> AnyLen]

HostCcm(r) ==
    [accepts |-> /\ r.key = 16 /\ r.iv \in 7 .. 13 /\ r.tagLen \in TagSizes
                 /\ r.op = 1 => r.tag = r.tagLen,
     fields  |-> <<F("op", 1), F("key", r.key), F("ivLen", 1), F("iv", r.iv),
                   F("aadLen", 2), F("dataLen", 2), F("tagLen", 1), F("aad", r.aad),
                   F("data", r.data), F("tag", r.tag)>>,
     takes   |-> AnyLen]

HostGcm(r) ==
    [accepts |-> r.key = 16 /\ r.iv = 12 /\ (r.op = 1 => r.tag = 16),
     fields  |-> <<F("op", 1), F("key", r.key), F("iv", r.iv), F("aadLen", 2),
                   F("dataLen", 2), F("aad", r.aad), F("data", r.data), F("tag", r.tag)>>,
     takes   |-> AnyLen]

HostEcdh(r) ==
    [accepts |-> r.key = 32 /\ r.pub = PointLen(r),
     fields  |-> <<F("curve", 1), F("key", r.key), F("pub", r.pub)>>,
     takes   |-> {32}]

HostSign(r) ==
    [accepts |-> r.key = 32 /\ r.data = 32,
     fields  |-> <<F("curve", 1), F("key", r.key), F("hash", r.data)>>,
     takes   |-> {64}]

HostVerify(r) ==
    [accepts |-> r.data = 32 /\ r.sig = 64 /\ r.pub = PointLen(r),
     fields  |-> <<F("curve", 1), F("pub", r.pub), F("hash", r.data), F("sig", r.sig)>>,
     takes   |-> AnyLen]

Host(r) ==
    CASE r.cmd = "RANDOM"  -> HostRandom(r) [] r.cmd = "SHA256"  -> HostSha256(r)
      [] r.cmd = "AES_CCM" -> HostCcm(r)    [] r.cmd = "AES_GCM" -> HostGcm(r)
      [] r.cmd = "ECDH"    -> HostEcdh(r)   [] r.cmd = "ECDSA_SIGN" -> HostSign(r)
      [] r.cmd = "ECDSA_VERIFY" -> HostVerify(r)
      [] OTHER -> HostCipher(r)

(* Where the i-th field of the payload begins.  None has more than ten.    *)
StartOf(fields, i) ==
    LET len(k) == IF k < i /\ k \in DOMAIN fields THEN fields[k].len ELSE 0
    IN len(1) + len(2) + len(3) + len(4) + len(5) + len(6) + len(7) + len(8) + len(9) + len(10)

PayloadLen(r) == StartOf(Host(r).fields, Len(Host(r).fields) + 1)

-----------------------------------------------------------------------------
(* The dispatcher's side, given a payload of n bytes: whether it takes it, *)
(* the bytes it hands to the engine as each argument, and the length of    *)
(* the answer when the engine succeeds.                                    *)

At(name, start, len) == [name |-> name, start |-> start, len |-> len]

CmdRandom(r, n) ==
    [takes |-> n = 1, reads |-> {At("n", 0, 1)}, answers |-> r.data]

CmdSha256(r, n) ==
    [takes |-> n <= 240, reads |-> {At("data", 0, n)}, answers |-> 32]

CmdEcb(r, n) ==
    [takes |-> n = 33,
     reads |-> {At("op", 0, 1), At("key", 1, 16), At("data", 17, 16)},
     answers |-> 16]

CmdCtr(r, n) ==
    [takes |-> n >= 34 /\ n - 33 <= 200,
     reads |-> {At("op", 0, 1), At("key", 1, 16), At("iv", 17, 16), At("data", 33, n - 33)},
     answers |-> n - 33]

CmdCbc(r, n) ==
    [takes |-> n >= 49 /\ n - 33 <= 192 /\ (n - 33) % 16 = 0,
     reads |-> {At("op", 0, 1), At("key", 1, 16), At("iv", 17, 16), At("data", 33, n - 33)},
     answers |-> n - 33]

(* Fault: the answer to an encryption is as long as the text alone.        *)
CmdCcmNoTag(r, n) ==
    LET off == 18 + r.iv + 5
    IN [takes |-> n >= 24 /\ r.iv \in 7 .. 13 /\ r.data <= 200
                  /\ n >= off + r.aad + r.data + r.op * r.tagLen,
        reads |-> {At("op", 0, 1)},
        answers |-> r.data]

CmdCcm(r, n) ==
    LET off == 18 + r.iv + 5
    IN [takes |-> /\ n >= 24 /\ r.iv \in 7 .. 13 /\ n >= off
                  /\ n >= off + r.aad + r.data + r.op * r.tagLen
                  /\ r.data <= 200,
        reads |-> {At("op", 0, 1), At("key", 1, 16), At("ivLen", 17, 1), At("iv", 18, r.iv),
                   At("aadLen", off - 5, 2), At("dataLen", off - 3, 2), At("tagLen", off - 1, 1),
                   At("aad", off, r.aad), At("data", off + r.aad, r.data),
                   At("tag", off + r.aad + r.data, r.op * r.tagLen)},
        answers |-> r.data + (1 - r.op) * r.tagLen]

(* Fault: the tag is looked for where the text begins.                     *)
CmdGcmTagFirst(r, n) ==
    [takes |-> n >= 33 /\ r.data <= 200 /\ n >= 33 + r.aad + r.data + r.op * 16,
     reads |-> {At("aad", 33, r.aad), At("tag", 33 + r.aad, r.op * 16)},
     answers |-> r.data + (1 - r.op) * 16]

CmdGcm(r, n) ==
    [takes |-> n >= 33 /\ r.data <= 200 /\ n >= 33 + r.aad + r.data + r.op * 16,
     reads |-> {At("op", 0, 1), At("key", 1, 16), At("iv", 17, 12), At("aadLen", 29, 2),
                At("dataLen", 31, 2), At("aad", 33, r.aad), At("data", 33 + r.aad, r.data),
                At("tag", 33 + r.aad + r.data, r.op * 16)},
     answers |-> r.data + (1 - r.op) * 16]

CmdEcdh(r, n) ==
    [takes |-> n >= 65 /\ n - 33 = PointLen(r),
     reads |-> {At("curve", 0, 1), At("key", 1, 32), At("pub", 33, n - 33)},
     answers |-> 32]

CmdSign(r, n) ==
    [takes |-> n = 65,
     reads |-> {At("curve", 0, 1), At("key", 1, 32), At("hash", 33, 32)},
     answers |-> 64]

CmdVerify(r, n) ==
    [takes |-> n >= 129 /\ n - 97 = PointLen(r),
     reads |-> {At("curve", 0, 1), At("pub", 1, n - 97), At("hash", n - 96, 32),
                At("sig", n - 64, 64)},
     answers |-> 1]

Cmd(r, n) ==
    CASE r.cmd = "RANDOM"  -> CmdRandom(r, n) [] r.cmd = "SHA256"  -> CmdSha256(r, n)
      [] r.cmd = "AES_ECB" -> CmdEcb(r, n)    [] r.cmd = "AES_CTR" -> CmdCtr(r, n)
      [] r.cmd = "AES_CBC" -> CmdCbc(r, n)    [] r.cmd = "AES_CCM" -> CmdCcm(r, n)
      [] r.cmd = "AES_GCM" -> CmdGcm(r, n)    [] r.cmd = "ECDH"    -> CmdEcdh(r, n)
      [] r.cmd = "ECDSA_SIGN"   -> CmdSign(r, n)
      [] r.cmd = "ECDSA_VERIFY" -> CmdVerify(r, n)

-----------------------------------------------------------------------------
(* The engine's side: the statuses it may return without opening a driver, *)
(* and those the driver's one step may be turned into.  Every function     *)
(* opens its driver, runs one step and closes it whatever came of it.      *)

Engine(bad, unsupported, results) ==
    [refuses |-> IF bad THEN {"BAD_PARAM"} ELSE IF unsupported THEN {"UNSUPPORTED_CURVE"} ELSE {},
     results |-> results]

EngineRandom(r) == Engine(r.data \notin 1 .. 240, FALSE, {"OK", "HW_ERROR"})
EngineEcb(r)    == Engine(FALSE, FALSE, {"OK", "HW_ERROR"})
EngineCtr(r)    == Engine(r.data = 0, FALSE, {"OK", "HW_ERROR"})
EngineCbc(r)    == Engine(r.data = 0 \/ r.data % 16 # 0, FALSE, {"OK", "HW_ERROR"})
EngineCcm(r)    == Engine(r.iv \notin 7 .. 13 \/ r.tagLen \notin TagSizes, FALSE,
                          {"OK", "TAG_MISMATCH", "HW_ERROR"})
EngineGcm(r)    == Engine(FALSE, FALSE, {"OK", "TAG_MISMATCH", "HW_ERROR"})
EngineSha256(r) == Engine(FALSE, FALSE, {"OK", "HW_ERROR"})

(* A public key off the curve is a bad parameter ...                       *)
EngineEcdh(r)   == Engine(r.pub # PointLen(r), FALSE, {"OK", "BAD_PARAM", "HW_ERROR"})
EngineSign(r)   == Engine(FALSE, r.curve # 0, {"OK", "HW_ERROR"})

(* ... or, here, a signature that is not valid.                            *)
EngineVerify(r) == Engine(r.curve = 0 /\ r.pub # 64, r.curve # 0, {"OK", "HW_ERROR"})

EngineOf(r) ==
    CASE r.cmd = "RANDOM"  -> EngineRandom(r) [] r.cmd = "SHA256"  -> EngineSha256(r)
      [] r.cmd = "AES_ECB" -> EngineEcb(r)    [] r.cmd = "AES_CTR" -> EngineCtr(r)
      [] r.cmd = "AES_CBC" -> EngineCbc(r)    [] r.cmd = "AES_CCM" -> EngineCcm(r)
      [] r.cmd = "AES_GCM" -> EngineGcm(r)    [] r.cmd = "ECDH"    -> EngineEcdh(r)
      [] r.cmd = "ECDSA_SIGN"   -> EngineSign(r)
      [] r.cmd = "ECDSA_VERIFY" -> EngineVerify(r)

-----------------------------------------------------------------------------
(* The call, step by step.                                                 *)

Call(r) ==
    /\ stage = "idle"
    /\ req' = r
    /\ IF Host(r).accepts THEN stage' = "sent" /\ UNCHANGED outcome
                          ELSE stage' = "done" /\ outcome' = "ValueError"
    /\ UNCHANGED <<open, status, ans>>

Error(code, busy) == [rsp |-> "ERROR", code |-> code, len |-> 1, busy |-> busy]

(* The longest payload whose encoded frame passes the frame reader: two    *)
(* bytes more than PROTOCOL_MAX_PAYLOAD, because COBS_MAX_ENCODED leaves   *)
(* room for three bytes of overhead and a frame of CCM or GCM, with zeros  *)
(* among its lengths, needs one.                                           *)
MaxDelivered == 257

(* A frame that is delivered and overruns the dispatcher's frame[] and     *)
(* payload[].  Only CCM and GCM have no limit of the host's on the whole.  *)
Overruns(r) == r.cmd \in Aeads /\ PayloadLen(r) \in 256 .. MaxDelivered

(* The slot is taken by another command, or the encoded frame exceeds the  *)
(* reader's buffer: an answer that carries number 0 and ERR_INVALID_STATE  *)
(* or ERR_FRAME_TOO_LONG.  Or no answer comes at all.                      *)
NotDelivered ==
    /\ stage = "sent"
    /\ \/ ans' = Error(5, TRUE)
       \/ PayloadLen(req) > MaxDelivered /\ ans' = Error(4, FALSE)
       \/ ans' = None
    /\ stage' = "answered"
    /\ UNCHANGED <<req, open, status, outcome>>

(* A delivered frame, read as it was sent.  One that overruns may be, too: *)
(* what lies behind the two buffers need not matter.                       *)
Dispatch ==
    /\ stage = "sent" /\ PayloadLen(req) <= MaxDelivered
    /\ IF Cmd(req, PayloadLen(req)).takes
       THEN stage' = "engine" /\ UNCHANGED ans
       ELSE stage' = "answered" /\ ans' = Error(2, FALSE)
    /\ UNCHANGED <<req, open, status, outcome>>

Result(n) == [rsp |-> "RSP", code |-> 0, len |-> n, busy |-> FALSE]

(* A frame that overruns, with harm: behind the buffers may lie the        *)
(* command, the sequence number, the length or a return address, so that   *)
(* anything may be carried out and answered; or nothing is.                *)
Garbled ==
    /\ stage = "sent" /\ Overruns(req)
    /\ ans' \in {Error(c, FALSE) : c \in 0 .. 5} \cup {Result(n) : n \in AnyLen} \cup {None}
    /\ stage' = "answered"
    /\ UNCHANGED <<req, open, status, outcome>>

Code(st) == CASE st = "BAD_PARAM" -> 1 [] st = "TAG_MISMATCH" -> 2
              [] st = "HW_ERROR" -> 3  [] st = "UNSUPPORTED_CURVE" -> 5

Finish(st) ==
    /\ stage' = "answered" /\ status' = st
    /\ ans' = IF st = "OK"
              THEN Result(Cmd(req, PayloadLen(req)).answers)
              ELSE Error(Code(st), FALSE)

EngineRefuses ==
    /\ stage = "engine"
    /\ \E st \in EngineOf(req).refuses : Finish(st)
    /\ UNCHANGED <<req, open, outcome>>

OpenDriver ==
    /\ stage = "engine" /\ EngineOf(req).refuses = {}
    /\ \/ stage' = "run" /\ open' = req.cmd /\ UNCHANGED <<status, ans>>
       \/ Finish("HW_ERROR") /\ UNCHANGED open
    /\ UNCHANGED <<req, outcome>>

(* Fault: an error return of the driver leaves its handle open.            *)
RunDriverLeavesOpen ==
    /\ stage = "run"
    /\ \E st \in EngineOf(req).results :
          Finish(st) /\ open' = IF st = "OK" THEN None ELSE open
    /\ UNCHANGED <<req, outcome>>

(* One step of the driver, and its close on every path.                    *)
RunDriver ==
    /\ stage = "run"
    /\ \E st \in EngineOf(req).results : Finish(st)
    /\ open' = None
    /\ UNCHANGED <<req, outcome>>

Conclude ==
    /\ stage = "answered"
    /\ outcome' =
          IF ans = None THEN "failed"
          ELSE CASE ans.rsp = "RSP" ->
                      IF ans.len \in Host(req).takes THEN "result" ELSE "unexpected length"
                 [] ans.rsp = "ERROR" /\ ans.code = 2 /\ req.cmd \in Aeads -> "tag mismatch"
                 [] ans.rsp = "ERROR" /\ ans.code = 5 /\ req.cmd \in Ecc -> "not supported"
                 [] OTHER -> "failed"
    /\ stage' = "done"
    /\ UNCHANGED <<req, open, status, ans>>

(* The caller has the outcome and may call again.                          *)
Return ==
    /\ stage = "done"
    /\ stage' = "idle" /\ req' = None /\ status' = None /\ ans' = None /\ outcome' = None
    /\ UNCHANGED open

Next ==
    \/ \E r \in Requests : Call(r)
    \/ NotDelivered \/ Dispatch \/ Garbled \/ EngineRefuses \/ OpenDriver \/ RunDriver
    \/ Conclude \/ Return

Spec == Init /\ [][Next]_vars

-----------------------------------------------------------------------------
(* Properties.                                                             *)

(* Host and firmware agree where each field of a payload lies: whatever    *)
(* passes both sides' checks, up to the longest frame that is delivered,   *)
(* the engine is given exactly the bytes the caller passed for that        *)
(* argument, if the dispatcher reads the frame as it was sent.  Nothing is *)
(* promised of one that Garbled stands for: 256 or 257 bytes of payload    *)
(* that overwrite what lies behind the dispatcher's buffers.               *)
FieldsAgree ==
    stage \in {"engine", "run"} =>
        \A f \in Cmd(req, PayloadLen(req)).reads :
            \E i \in DOMAIN Host(req).fields :
                /\ Host(req).fields[i] = F(f.name, f.len)
                /\ StartOf(Host(req).fields, i) = f.start

(* A call that returns a result got all of it: as many bytes as the host   *)
(* cuts into text and tag (but for a frame that overran the dispatcher's   *)
(* buffers), never an answer it must refuse for its length; and a request  *)
(* that host and dispatcher accept is never one the engine finds a         *)
(* parameter of wrong, but for a point off the curve.                      *)
ResultComplete ==
    /\ outcome # "unexpected length"
    /\ outcome = "result" /\ req.cmd \in Aeads =>
            \/ ans.len = req.data + (IF req.op = 0 THEN req.tagLen ELSE 0)
            \/ Overruns(req)
    /\ outcome = "result" /\ req.cmd \in Ciphers \cup {"AES_ECB"} => ans.len = req.data
    /\ status = "BAD_PARAM" => req.cmd = "ECDH"

(* What the host tells its caller is what happened.  A tag mismatch was    *)
(* found by the driver, or the text exceeds the 200 bytes the firmware     *)
(* takes (whose error code is the same); an unsupported curve is one, or   *)
(* the device was busy (again the same code); and the firmware finds a     *)
(* payload malformed that the host let pass only for such a text, or for   *)
(* an empty one in CTR mode.  A frame that overran the dispatcher's        *)
(* buffers is excepted.                                                    *)
HonestErrors ==
    /\ outcome = "tag mismatch" => status = "TAG_MISMATCH" \/ req.data > 200 \/ Overruns(req)
    /\ outcome = "not supported" => status = "UNSUPPORTED_CURVE" \/ ans.busy
    /\ (stage = "answered" /\ ans # None /\ ans.code = 2 /\ status = None) =>
            \/ req.cmd \in Aeads /\ req.data > 200
            \/ req.cmd = "AES_CTR" /\ req.data = 0
            \/ Overruns(req)
=============================================================================
