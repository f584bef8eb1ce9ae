------------------------- MODULE CryptoCommands_proofs -------------------------
(***************************************************************************)
(* Proofs about one cryptographic call, for arguments of every length: the *)
(* dispatcher hands the engine the bytes the caller passed, a result is    *)
(* complete, and an error is the true cause with the exceptions named in   *)
(* HonestErrors.                                                           *)
(***************************************************************************)
EXTENDS CryptoCommands, TLAPS

-----------------------------------------------------------------------------
(* Requests.                                                               *)

Lengths == [cmd : Cmds, op : 0 .. 1, curve : 0 .. 1, key : Nat, iv : Nat, aad : Nat,
            data : Nat, tag : Nat, tagLen : Nat, pub : Nat, sig : Nat]

(* The arguments of a call that are not its command's are none.            *)
LEMMA RequestFacts ==
    ASSUME NEW r \in Requests
    PROVE  /\ r \in Lengths
           /\ r.cmd \in Aeads => r.key = 16 /\ (r.op = 0 => r.tag = 0)
           /\ r.cmd = "AES_GCM" => r.tagLen = 16
<1> DEFINE B(c) == [cmd |-> c, op |-> 0, curve |-> 0, key |-> 0, iv |-> 0, aad |-> 0,
                    data |-> 0, tag |-> 0, tagLen |-> 0, pub |-> 0, sig |-> 0]
<1>0. \A c : Op(c) = B(c)
  BY DEF Op, Blank
<1>1. CASE r \in Plain
  <2>1. PICK c \in {"RANDOM", "SHA256"}, d \in DataLens : r = [Op(c) EXCEPT !.data = d]
    BY <1>1 DEF Plain
  <2>2. c \in Cmds \ Aeads /\ d \in Nat
    BY LengthAssumption DEF Cmds, Aeads
  <2>3. r = [B(c) EXCEPT !.data = d]
    BY <1>0, <2>1
  <2>4. r = [cmd |-> c, op |-> 0, curve |-> 0, key |-> 0, iv |-> 0, aad |-> 0,
             data |-> d, tag |-> 0, tagLen |-> 0, pub |-> 0, sig |-> 0]
    BY <2>3
  <2> QED BY <2>2, <2>4 DEF Lengths, Aeads
<1>2. CASE r \in CipherCalls
  <2>1. PICK c \in {"AES_ECB"} \cup Ciphers, o \in 0 .. 1, k \in KeyLens, v \in IvLens,
             d \in DataLens :
           r = Cipher(c, o, k, v, d)
    BY <1>2 DEF CipherCalls
  <2>2. c \in Cmds \ Aeads /\ k \in Nat /\ v \in Nat /\ d \in Nat
    BY LengthAssumption DEF Cmds, Ciphers, Aeads
  <2>3. r = [B(c) EXCEPT !.op = o, !.key = k, !.iv = v, !.data = d]
    BY <1>0, <2>1 DEF Cipher
  <2>4. r = [cmd |-> c, op |-> o, curve |-> 0, key |-> k, iv |-> v, aad |-> 0,
             data |-> d, tag |-> 0, tagLen |-> 0, pub |-> 0, sig |-> 0]
    BY <2>3
  <2> QED BY <2>2, <2>4 DEF Lengths, Aeads
<1>3. CASE r \in AeadCalls
  <2>1. PICK c \in Aeads, o \in 0 .. 1, v \in IvLens, a \in AadLens, d \in DataLens,
             t \in TagLens :
           r = Aead(c, o, v, a, d, t)
    BY <1>3 DEF AeadCalls
  <2> DEFINE l == IF c = "AES_GCM" THEN 16 ELSE t
  <2>2. /\ c \in Cmds /\ v \in Nat /\ a \in Nat /\ d \in Nat /\ t \in Nat /\ l \in Nat
        /\ o * t = IF o = 0 THEN 0 ELSE t
    <3>1. c \in Cmds /\ v \in Nat /\ a \in Nat /\ d \in Nat /\ t \in Nat
      BY LengthAssumption DEF Cmds, Aeads
    <3>2. o = 0 => o * t = 0
      BY <3>1
    <3>3. o = 1 => o * t = t
      BY <3>1
    <3> QED BY <3>1, <3>2, <3>3
  <2>3. r = [B(c) EXCEPT !.op = o, !.key = 16, !.iv = v, !.aad = a, !.data = d,
                         !.tag = o * t, !.tagLen = l]
    BY <1>0, <2>1 DEF Aead
  <2>4. r = [cmd |-> c, op |-> o, curve |-> 0, key |-> 16, iv |-> v, aad |-> a,
             data |-> d, tag |-> o * t, tagLen |-> l, pub |-> 0, sig |-> 0]
    BY <2>3
  <2> QED BY <2>2, <2>4 DEF Lengths
<1>4. CASE r \in EccCalls
  <2>1. PICK c \in Ecc, e \in 0 .. 1, k \in KeyLens, h \in KeyLens, p \in KeyLens,
             s \in KeyLens :
           r = Curve(c, e, k, h, p, s)
    BY <1>4 DEF EccCalls
  <2>2. c \in Cmds \ Aeads /\ k \in Nat /\ h \in Nat /\ p \in Nat /\ s \in Nat
    BY LengthAssumption DEF Cmds, Ecc, Aeads
  <2>3. r = [B(c) EXCEPT !.curve = e, !.key = k, !.data = h, !.pub = p, !.sig = s]
    BY <1>0, <2>1 DEF Curve
  <2>4. r = [cmd |-> c, op |-> 0, curve |-> e, key |-> k, iv |-> 0, aad |-> 0,
             data |-> h, tag |-> 0, tagLen |-> 0, pub |-> p, sig |-> s]
    BY <2>3
  <2> QED BY <2>2, <2>4 DEF Lengths, Aeads
<1> QED BY <1>1, <1>2, <1>3, <1>4 DEF Requests

-----------------------------------------------------------------------------
(* Where fields begin.                                                     *)

(* The first field of a payload begins at its first byte.                  *)
LEMMA StartOfFirst == \A s : StartOf(s, 1) = 0
BY DEF StartOf

(* A field begins where the one before it ends.                            *)
LEMMA StartOfNext ==
    ASSUME NEW s, NEW i \in 1 .. 10, i \in DOMAIN s,
           \A k \in DOMAIN s : s[k].len \in Nat
    PROVE  StartOf(s, i) \in Nat /\ StartOf(s, i + 1) = StartOf(s, i) + s[i].len
<1> DEFINE f == [k \in 1 .. 10 |-> IF k \in DOMAIN s THEN s[k].len ELSE 0]
           upTo(j) == (IF 1 < j THEN f[1] ELSE 0) + (IF 2 < j THEN f[2] ELSE 0)
                      + (IF 3 < j THEN f[3] ELSE 0) + (IF 4 < j THEN f[4] ELSE 0)
                      + (IF 5 < j THEN f[5] ELSE 0) + (IF 6 < j THEN f[6] ELSE 0)
                      + (IF 7 < j THEN f[7] ELSE 0) + (IF 8 < j THEN f[8] ELSE 0)
                      + (IF 9 < j THEN f[9] ELSE 0) + (IF 10 < j THEN f[10] ELSE 0)
<1>1. f \in [1 .. 10 -> Nat] /\ f[i] = s[i].len
  OBVIOUS
<1>2. StartOf(s, i) = upTo(i) /\ StartOf(s, i + 1) = upTo(i + 1)
  BY DEF StartOf
<1> HIDE DEF f
<1>3. upTo(i) \in Nat /\ upTo(i + 1) = upTo(i) + f[i]
  BY <1>1
<1> QED BY <1>1, <1>2, <1>3

(* The same for each of the ten fields a payload may have.                 *)
LEMMA Starts ==
    ASSUME NEW s, DOMAIN s \subseteq 1 .. 10, \A k \in DOMAIN s : s[k].len \in Nat
    PROVE  /\ StartOf(s, 1) = 0
           /\ 1 \in DOMAIN s => StartOf(s, 2) = StartOf(s, 1) + s[1].len
           /\ 2 \in DOMAIN s => StartOf(s, 3) = StartOf(s, 2) + s[2].len
           /\ 3 \in DOMAIN s => StartOf(s, 4) = StartOf(s, 3) + s[3].len
           /\ 4 \in DOMAIN s => StartOf(s, 5) = StartOf(s, 4) + s[4].len
           /\ 5 \in DOMAIN s => StartOf(s, 6) = StartOf(s, 5) + s[5].len
           /\ 6 \in DOMAIN s => StartOf(s, 7) = StartOf(s, 6) + s[6].len
           /\ 7 \in DOMAIN s => StartOf(s, 8) = StartOf(s, 7) + s[7].len
           /\ 8 \in DOMAIN s => StartOf(s, 9) = StartOf(s, 8) + s[8].len
           /\ 9 \in DOMAIN s => StartOf(s, 10) = StartOf(s, 9) + s[9].len
           /\ 10 \in DOMAIN s => StartOf(s, 11) = StartOf(s, 10) + s[10].len
<1>1. ASSUME NEW i \in DOMAIN s, NEW j, j = i + 1
      PROVE  StartOf(s, j) = StartOf(s, i) + s[i].len
  BY <1>1, StartOfNext
<1>2. /\ 2 = 1 + 1 /\ 3 = 2 + 1 /\ 4 = 3 + 1 /\ 5 = 4 + 1 /\ 6 = 5 + 1 /\ 7 = 6 + 1
      /\ 8 = 7 + 1 /\ 9 = 8 + 1 /\ 10 = 9 + 1 /\ 11 = 10 + 1
  OBVIOUS
<1> QED BY <1>1, <1>2, StartOfFirst

(* The reads of a command are fields of the payload, where they begin.     *)
Agree(fields, reads) ==
    \A f \in reads : \E i \in DOMAIN fields :
        fields[i] = F(f.name, f.len) /\ StartOf(fields, i) = f.start

(* The payload has n bytes, and the dispatcher reads what the host wrote.  *)
Payload(r, n) == PayloadLen(r) = n /\ Agree(Host(r).fields, Cmd(r, n).reads)

(* One byte: how many random bytes are wanted.                             *)
LEMMA RandomFields ==
    ASSUME NEW r \in Lengths, r.cmd = "RANDOM"
    PROVE  Payload(r, 1)
<1> DEFINE s == Host(r).fields
           n == 1
<1>1. s = <<F("n", 1)>>
  BY DEF Host, HostRandom
<1> HIDE DEF s
<1>2. /\ DOMAIN s = 1 .. 1 /\ Len(s) = 1
      /\ s[1] = F("n", 1)
  BY <1>1
<1>3. s[1].len = 1
  BY <1>2 DEF F
<1>4. \A k \in DOMAIN s : s[k].len \in Nat
  BY <1>2, <1>3
<1>5. /\ StartOf(s, 1) = 0 /\ StartOf(s, 2) = n
  <2>1. DOMAIN s \subseteq 1 .. 10
    BY <1>2
  <2>2. /\ StartOf(s, 1) = 0 /\ StartOf(s, 2) = StartOf(s, 1) + 1
    BY <1>2, <1>3, <1>4, <2>1, Starts
  <2> QED BY <2>2
<1>6. Cmd(r, n).reads =
        {At("n", 0, 1)}
  BY DEF Cmd, CmdRandom
<1>7. Agree(s, Cmd(r, n).reads)
  BY <1>2, <1>5, <1>6 DEF Agree, At
<1> QED BY <1>2, <1>5, <1>7 DEF Payload, PayloadLen, s

(* The message alone.                                                      *)
LEMMA Sha256Fields ==
    ASSUME NEW r \in Lengths, r.cmd = "SHA256"
    PROVE  Payload(r, r.data)
<1> DEFINE s == Host(r).fields
           n == r.data
<1>0. r.data \in Nat
  BY DEF Lengths
<1>1. s = <<F("data", r.data)>>
  BY DEF Host, HostSha256
<1> HIDE DEF s
<1>2. /\ DOMAIN s = 1 .. 1 /\ Len(s) = 1
      /\ s[1] = F("data", r.data)
  BY <1>1
<1>3. s[1].len = r.data
  BY <1>2 DEF F
<1>4. \A k \in DOMAIN s : s[k].len \in Nat
  BY <1>0, <1>2, <1>3
<1>5. /\ StartOf(s, 1) = 0 /\ StartOf(s, 2) = n
  <2>1. DOMAIN s \subseteq 1 .. 10
    BY <1>2
  <2>2. /\ StartOf(s, 1) = 0 /\ StartOf(s, 2) = StartOf(s, 1) + r.data
    BY <1>2, <1>3, <1>4, <2>1, Starts
  <2> QED BY <1>0, <2>2
<1>6. Cmd(r, n).reads =
        {At("data", 0, r.data)}
  BY DEF Cmd, CmdSha256
<1>7. Agree(s, Cmd(r, n).reads)
  BY <1>2, <1>5, <1>6 DEF Agree, At
<1> QED BY <1>2, <1>5, <1>7 DEF Payload, PayloadLen, s

(* One block.                                                              *)
LEMMA EcbFields ==
    ASSUME NEW r \in Lengths, r.cmd = "AES_ECB", r.key = 16 /\ r.data = 16
    PROVE  Payload(r, 33)
<1> DEFINE s == Host(r).fields
           n == 33
<1>1. s = <<F("op", 1), F("key", 16), F("data", 16)>>
  BY DEF Host, HostCipher, CipherFields
<1> HIDE DEF s
<1>2. /\ DOMAIN s = 1 .. 3 /\ Len(s) = 3
      /\ s[1] = F("op", 1) /\ s[2] = F("key", 16) /\ s[3] = F("data", 16)
  BY <1>1
<1>3. /\ s[1].len = 1 /\ s[2].len = 16 /\ s[3].len = 16
  BY <1>2 DEF F
<1>4. \A k \in DOMAIN s : s[k].len \in Nat
  BY <1>2, <1>3
<1>5. /\ StartOf(s, 1) = 0 /\ StartOf(s, 2) = 1 /\ StartOf(s, 3) = 17 /\ StartOf(s, 4) = n
  <2>1. DOMAIN s \subseteq 1 .. 10
    BY <1>2
  <2>2. /\ StartOf(s, 1) = 0 /\ StartOf(s, 2) = StartOf(s, 1) + 1
        /\ StartOf(s, 3) = StartOf(s, 2) + 16 /\ StartOf(s, 4) = StartOf(s, 3) + 16
    BY <1>2, <1>3, <1>4, <2>1, Starts
  <2> QED BY <2>2
<1>6. Cmd(r, n).reads =
        {At("op", 0, 1), At("key", 1, 16), At("data", 17, 16)}
  BY DEF Cmd, CmdEcb
<1>7. Agree(s, Cmd(r, n).reads)
  BY <1>2, <1>5, <1>6 DEF Agree, At
<1> QED BY <1>2, <1>5, <1>7 DEF Payload, PayloadLen, s

(* Key, counter block and text.                                            *)
LEMMA CtrFields ==
    ASSUME NEW r \in Lengths, r.cmd = "AES_CTR", r.key = 16 /\ r.iv = 16
    PROVE  Payload(r, 33 + r.data)
<1> DEFINE s == Host(r).fields
           n == 33 + r.data
<1>0. r.data \in Nat
  BY DEF Lengths
<1>1. s = <<F("op", 1), F("key", 16), F("iv", 16), F("data", r.data)>>
  BY DEF Host, HostCipher, CipherFields
<1> HIDE DEF s
<1>2. /\ DOMAIN s = 1 .. 4 /\ Len(s) = 4
      /\ s[1] = F("op", 1) /\ s[2] = F("key", 16) /\ s[3] = F("iv", 16)
      /\ s[4] = F("data", r.data)
  BY <1>1
<1>3. /\ s[1].len = 1 /\ s[2].len = 16 /\ s[3].len = 16 /\ s[4].len = r.data
  BY <1>2 DEF F
<1>4. \A k \in DOMAIN s : s[k].len \in Nat
  BY <1>0, <1>2, <1>3
<1>5. /\ StartOf(s, 1) = 0 /\ StartOf(s, 2) = 1 /\ StartOf(s, 3) = 17 /\ StartOf(s, 4) = 33
      /\ StartOf(s, 5) = n
  <2>1. DOMAIN s \subseteq 1 .. 10
    BY <1>2
  <2>2. /\ StartOf(s, 1) = 0 /\ StartOf(s, 2) = StartOf(s, 1) + 1
        /\ StartOf(s, 3) = StartOf(s, 2) + 16 /\ StartOf(s, 4) = StartOf(s, 3) + 16
        /\ StartOf(s, 5) = StartOf(s, 4) + r.data
    BY <1>2, <1>3, <1>4, <2>1, Starts
  <2> QED BY <1>0, <2>2
<1>6. Cmd(r, n).reads =
        {At("op", 0, 1), At("key", 1, 16), At("iv", 17, 16), At("data", 33, r.data)}
  <2>1. n - 33 = r.data
    BY <1>0
  <2> HIDE DEF n
  <2> QED BY <2>1 DEF Cmd, CmdCtr
<1>7. Agree(s, Cmd(r, n).reads)
  BY <1>2, <1>5, <1>6 DEF Agree, At
<1> QED BY <1>2, <1>5, <1>7 DEF Payload, PayloadLen, s

(* Key, initial vector and whole blocks.                                   *)
LEMMA CbcFields ==
    ASSUME NEW r \in Lengths, r.cmd = "AES_CBC", r.key = 16 /\ r.iv = 16
    PROVE  Payload(r, 33 + r.data)
<1> DEFINE s == Host(r).fields
           n == 33 + r.data
<1>0. r.data \in Nat
  BY DEF Lengths
<1>1. s = <<F("op", 1), F("key", 16), F("iv", 16), F("data", r.data)>>
  BY DEF Host, HostCipher, CipherFields
<1> HIDE DEF s
<1>2. /\ DOMAIN s = 1 .. 4 /\ Len(s) = 4
      /\ s[1] = F("op", 1) /\ s[2] = F("key", 16) /\ s[3] = F("iv", 16)
      /\ s[4] = F("data", r.data)
  BY <1>1
<1>3. /\ s[1].len = 1 /\ s[2].len = 16 /\ s[3].len = 16 /\ s[4].len = r.data
  BY <1>2 DEF F
<1>4. \A k \in DOMAIN s : s[k].len \in Nat
  BY <1>0, <1>2, <1>3
<1>5. /\ StartOf(s, 1) = 0 /\ StartOf(s, 2) = 1 /\ StartOf(s, 3) = 17 /\ StartOf(s, 4) = 33
      /\ StartOf(s, 5) = n
  <2>1. DOMAIN s \subseteq 1 .. 10
    BY <1>2
  <2>2. /\ StartOf(s, 1) = 0 /\ StartOf(s, 2) = StartOf(s, 1) + 1
        /\ StartOf(s, 3) = StartOf(s, 2) + 16 /\ StartOf(s, 4) = StartOf(s, 3) + 16
        /\ StartOf(s, 5) = StartOf(s, 4) + r.data
    BY <1>2, <1>3, <1>4, <2>1, Starts
  <2> QED BY <1>0, <2>2
<1>6. Cmd(r, n).reads =
        {At("op", 0, 1), At("key", 1, 16), At("iv", 17, 16), At("data", 33, r.data)}
  <2>1. n - 33 = r.data
    BY <1>0
  <2> HIDE DEF n
  <2> QED BY <2>1 DEF Cmd, CmdCbc
<1>7. Agree(s, Cmd(r, n).reads)
  BY <1>2, <1>5, <1>6 DEF Agree, At
<1> QED BY <1>2, <1>5, <1>7 DEF Payload, PayloadLen, s

(* Ten fields, four of them lengths of others.                             *)
LEMMA CcmFields ==
    ASSUME NEW r \in Lengths, r.cmd = "AES_CCM", r.key = 16 /\ r.op * r.tagLen = r.tag
    PROVE  Payload(r, 23 + r.iv + r.aad + r.data + r.tag)
<1> DEFINE s == Host(r).fields
           n == 23 + r.iv + r.aad + r.data + r.tag
<1>0. r.iv \in Nat /\ r.aad \in Nat /\ r.data \in Nat /\ r.tag \in Nat
  BY DEF Lengths
<1>1. s = <<F("op", 1), F("key", 16), F("ivLen", 1), F("iv", r.iv), F("aadLen", 2),
           F("dataLen", 2), F("tagLen", 1), F("aad", r.aad), F("data", r.data), F("tag", r.tag)>>
  BY DEF Host, HostCcm
<1> HIDE DEF s
<1>2. /\ DOMAIN s = 1 .. 10 /\ Len(s) = 10
      /\ s[1] = F("op", 1) /\ s[2] = F("key", 16) /\ s[3] = F("ivLen", 1)
      /\ s[4] = F("iv", r.iv) /\ s[5] = F("aadLen", 2) /\ s[6] = F("dataLen", 2)
      /\ s[7] = F("tagLen", 1) /\ s[8] = F("aad", r.aad) /\ s[9] = F("data", r.data)
      /\ s[10] = F("tag", r.tag)
  BY <1>1
<1>3. /\ s[1].len = 1 /\ s[2].len = 16 /\ s[3].len = 1 /\ s[4].len = r.iv /\ s[5].len = 2
      /\ s[6].len = 2 /\ s[7].len = 1 /\ s[8].len = r.aad /\ s[9].len = r.data
      /\ s[10].len = r.tag
  BY <1>2 DEF F
<1>4. \A k \in DOMAIN s : s[k].len \in Nat
  BY <1>0, <1>2, <1>3
<1>5. /\ StartOf(s, 1) = 0 /\ StartOf(s, 2) = 1 /\ StartOf(s, 3) = 17 /\ StartOf(s, 4) = 18
      /\ StartOf(s, 5) = 18 + r.iv /\ StartOf(s, 6) = 20 + r.iv /\ StartOf(s, 7) = 22 + r.iv
      /\ StartOf(s, 8) = 23 + r.iv /\ StartOf(s, 9) = 23 + r.iv + r.aad
      /\ StartOf(s, 10) = 23 + r.iv + r.aad + r.data /\ StartOf(s, 11) = n
  <2>1. DOMAIN s \subseteq 1 .. 10
    BY <1>2
  <2>2. /\ StartOf(s, 1) = 0 /\ StartOf(s, 2) = StartOf(s, 1) + 1
        /\ StartOf(s, 3) = StartOf(s, 2) + 16 /\ StartOf(s, 4) = StartOf(s, 3) + 1
        /\ StartOf(s, 5) = StartOf(s, 4) + r.iv /\ StartOf(s, 6) = StartOf(s, 5) + 2
        /\ StartOf(s, 7) = StartOf(s, 6) + 2 /\ StartOf(s, 8) = StartOf(s, 7) + 1
        /\ StartOf(s, 9) = StartOf(s, 8) + r.aad /\ StartOf(s, 10) = StartOf(s, 9) + r.data
        /\ StartOf(s, 11) = StartOf(s, 10) + r.tag
    BY <1>2, <1>3, <1>4, <2>1, Starts
  <2> QED BY <1>0, <2>2
<1>6. Cmd(r, n).reads =
        {At("op", 0, 1), At("key", 1, 16), At("ivLen", 17, 1), At("iv", 18, r.iv),
         At("aadLen", 18 + r.iv, 2), At("dataLen", 20 + r.iv, 2), At("tagLen", 22 + r.iv, 1),
         At("aad", 23 + r.iv, r.aad), At("data", 23 + r.iv + r.aad, r.data),
         At("tag", 23 + r.iv + r.aad + r.data, r.tag)}
  <2>1. 18 + r.iv + 5 = 23 + r.iv /\ (18 + r.iv + 5) - 5 = 18 + r.iv
        /\ (18 + r.iv + 5) - 3 = 20 + r.iv /\ (18 + r.iv + 5) - 1 = 22 + r.iv
    BY <1>0
  <2> QED BY <2>1 DEF Cmd, CmdCcm
<1>7. Agree(s, Cmd(r, n).reads)
  BY <1>2, <1>5, <1>6 DEF Agree, At
<1> QED BY <1>2, <1>5, <1>7 DEF Payload, PayloadLen, s

(* Eight fields, two of them lengths of others.                            *)
LEMMA GcmFields ==
    ASSUME NEW r \in Lengths, r.cmd = "AES_GCM", r.key = 16 /\ r.iv = 12 /\ r.op * 16 = r.tag
    PROVE  Payload(r, 33 + r.aad + r.data + r.tag)
<1> DEFINE s == Host(r).fields
           n == 33 + r.aad + r.data + r.tag
<1>0. r.aad \in Nat /\ r.data \in Nat /\ r.tag \in Nat
  BY DEF Lengths
<1>1. s = <<F("op", 1), F("key", 16), F("iv", 12), F("aadLen", 2), F("dataLen", 2),
           F("aad", r.aad), F("data", r.data), F("tag", r.tag)>>
  BY DEF Host, HostGcm
<1> HIDE DEF s
<1>2. /\ DOMAIN s = 1 .. 8 /\ Len(s) = 8
      /\ s[1] = F("op", 1) /\ s[2] = F("key", 16) /\ s[3] = F("iv", 12)
      /\ s[4] = F("aadLen", 2) /\ s[5] = F("dataLen", 2) /\ s[6] = F("aad", r.aad)
      /\ s[7] = F("data", r.data) /\ s[8] = F("tag", r.tag)
  BY <1>1
<1>3. /\ s[1].len = 1 /\ s[2].len = 16 /\ s[3].len = 12 /\ s[4].len = 2 /\ s[5].len = 2
      /\ s[6].len = r.aad /\ s[7].len = r.data /\ s[8].len = r.tag
  BY <1>2 DEF F
<1>4. \A k \in DOMAIN s : s[k].len \in Nat
  BY <1>0, <1>2, <1>3
<1>5. /\ StartOf(s, 1) = 0 /\ StartOf(s, 2) = 1 /\ StartOf(s, 3) = 17 /\ StartOf(s, 4) = 29
      /\ StartOf(s, 5) = 31 /\ StartOf(s, 6) = 33 /\ StartOf(s, 7) = 33 + r.aad
      /\ StartOf(s, 8) = 33 + r.aad + r.data /\ StartOf(s, 9) = n
  <2>1. DOMAIN s \subseteq 1 .. 10
    BY <1>2
  <2>2. /\ StartOf(s, 1) = 0 /\ StartOf(s, 2) = StartOf(s, 1) + 1
        /\ StartOf(s, 3) = StartOf(s, 2) + 16 /\ StartOf(s, 4) = StartOf(s, 3) + 12
        /\ StartOf(s, 5) = StartOf(s, 4) + 2 /\ StartOf(s, 6) = StartOf(s, 5) + 2
        /\ StartOf(s, 7) = StartOf(s, 6) + r.aad /\ StartOf(s, 8) = StartOf(s, 7) + r.data
        /\ StartOf(s, 9) = StartOf(s, 8) + r.tag
    BY <1>2, <1>3, <1>4, <2>1, Starts
  <2> QED BY <1>0, <2>2
<1>6. Cmd(r, n).reads =
        {At("op", 0, 1), At("key", 1, 16), At("iv", 17, 12), At("aadLen", 29, 2),
         At("dataLen", 31, 2), At("aad", 33, r.aad), At("data", 33 + r.aad, r.data),
         At("tag", 33 + r.aad + r.data, r.tag)}
  BY DEF Cmd, CmdGcm
<1>7. Agree(s, Cmd(r, n).reads)
  BY <1>2, <1>5, <1>6 DEF Agree, At
<1> QED BY <1>2, <1>5, <1>7 DEF Payload, PayloadLen, s

(* A private key and a point.                                              *)
LEMMA EcdhFields ==
    ASSUME NEW r \in Lengths, r.cmd = "ECDH", r.key = 32
    PROVE  Payload(r, 33 + r.pub)
<1> DEFINE s == Host(r).fields
           n == 33 + r.pub
<1>0. r.pub \in Nat
  BY DEF Lengths
<1>1. s = <<F("curve", 1), F("key", 32), F("pub", r.pub)>>
  BY DEF Host, HostEcdh
<1> HIDE DEF s
<1>2. /\ DOMAIN s = 1 .. 3 /\ Len(s) = 3
      /\ s[1] = F("curve", 1) /\ s[2] = F("key", 32) /\ s[3] = F("pub", r.pub)
  BY <1>1
<1>3. /\ s[1].len = 1 /\ s[2].len = 32 /\ s[3].len = r.pub
  BY <1>2 DEF F
<1>4. \A k \in DOMAIN s : s[k].len \in Nat
  BY <1>0, <1>2, <1>3
<1>5. /\ StartOf(s, 1) = 0 /\ StartOf(s, 2) = 1 /\ StartOf(s, 3) = 33 /\ StartOf(s, 4) = n
  <2>1. DOMAIN s \subseteq 1 .. 10
    BY <1>2
  <2>2. /\ StartOf(s, 1) = 0 /\ StartOf(s, 2) = StartOf(s, 1) + 1
        /\ StartOf(s, 3) = StartOf(s, 2) + 32 /\ StartOf(s, 4) = StartOf(s, 3) + r.pub
    BY <1>2, <1>3, <1>4, <2>1, Starts
  <2> QED BY <1>0, <2>2
<1>6. Cmd(r, n).reads =
        {At("curve", 0, 1), At("key", 1, 32), At("pub", 33, r.pub)}
  <2>1. n - 33 = r.pub
    BY <1>0
  <2> HIDE DEF n
  <2> QED BY <2>1 DEF Cmd, CmdEcdh
<1>7. Agree(s, Cmd(r, n).reads)
  BY <1>2, <1>5, <1>6 DEF Agree, At
<1> QED BY <1>2, <1>5, <1>7 DEF Payload, PayloadLen, s

(* A private key and a hash.                                               *)
LEMMA SignFields ==
    ASSUME NEW r \in Lengths, r.cmd = "ECDSA_SIGN", r.key = 32 /\ r.data = 32
    PROVE  Payload(r, 65)
<1> DEFINE s == Host(r).fields
           n == 65
<1>1. s = <<F("curve", 1), F("key", 32), F("hash", 32)>>
  BY DEF Host, HostSign
<1> HIDE DEF s
<1>2. /\ DOMAIN s = 1 .. 3 /\ Len(s) = 3
      /\ s[1] = F("curve", 1) /\ s[2] = F("key", 32) /\ s[3] = F("hash", 32)
  BY <1>1
<1>3. /\ s[1].len = 1 /\ s[2].len = 32 /\ s[3].len = 32
  BY <1>2 DEF F
<1>4. \A k \in DOMAIN s : s[k].len \in Nat
  BY <1>2, <1>3
<1>5. /\ StartOf(s, 1) = 0 /\ StartOf(s, 2) = 1 /\ StartOf(s, 3) = 33 /\ StartOf(s, 4) = n
  <2>1. DOMAIN s \subseteq 1 .. 10
    BY <1>2
  <2>2. /\ StartOf(s, 1) = 0 /\ StartOf(s, 2) = StartOf(s, 1) + 1
        /\ StartOf(s, 3) = StartOf(s, 2) + 32 /\ StartOf(s, 4) = StartOf(s, 3) + 32
    BY <1>2, <1>3, <1>4, <2>1, Starts
  <2> QED BY <2>2
<1>6. Cmd(r, n).reads =
        {At("curve", 0, 1), At("key", 1, 32), At("hash", 33, 32)}
  BY DEF Cmd, CmdSign
<1>7. Agree(s, Cmd(r, n).reads)
  BY <1>2, <1>5, <1>6 DEF Agree, At
<1> QED BY <1>2, <1>5, <1>7 DEF Payload, PayloadLen, s

(* A point, a hash and a signature.                                        *)
LEMMA VerifyFields ==
    ASSUME NEW r \in Lengths, r.cmd = "ECDSA_VERIFY", r.data = 32 /\ r.sig = 64
    PROVE  Payload(r, 97 + r.pub)
<1> DEFINE s == Host(r).fields
           n == 97 + r.pub
<1>0. r.pub \in Nat
  BY DEF Lengths
<1>1. s = <<F("curve", 1), F("pub", r.pub), F("hash", 32), F("sig", 64)>>
  BY DEF Host, HostVerify
<1> HIDE DEF s
<1>2. /\ DOMAIN s = 1 .. 4 /\ Len(s) = 4
      /\ s[1] = F("curve", 1) /\ s[2] = F("pub", r.pub) /\ s[3] = F("hash", 32)
      /\ s[4] = F("sig", 64)
  BY <1>1
<1>3. /\ s[1].len = 1 /\ s[2].len = r.pub /\ s[3].len = 32 /\ s[4].len = 64
  BY <1>2 DEF F
<1>4. \A k \in DOMAIN s : s[k].len \in Nat
  BY <1>0, <1>2, <1>3
<1>5. /\ StartOf(s, 1) = 0 /\ StartOf(s, 2) = 1 /\ StartOf(s, 3) = 1 + r.pub
      /\ StartOf(s, 4) = 33 + r.pub /\ StartOf(s, 5) = n
  <2>1. DOMAIN s \subseteq 1 .. 10
    BY <1>2
  <2>2. /\ StartOf(s, 1) = 0 /\ StartOf(s, 2) = StartOf(s, 1) + 1
        /\ StartOf(s, 3) = StartOf(s, 2) + r.pub /\ StartOf(s, 4) = StartOf(s, 3) + 32
        /\ StartOf(s, 5) = StartOf(s, 4) + 64
    BY <1>2, <1>3, <1>4, <2>1, Starts
  <2> QED BY <1>0, <2>2
<1>6. Cmd(r, n).reads =
        {At("curve", 0, 1), At("pub", 1, r.pub), At("hash", 1 + r.pub, 32),
         At("sig", 33 + r.pub, 64)}
  <2>1. n - 97 = r.pub /\ n - 96 = 1 + r.pub /\ n - 64 = 33 + r.pub
    BY <1>0
  <2> HIDE DEF n
  <2> QED BY <2>1 DEF Cmd, CmdVerify
<1>7. Agree(s, Cmd(r, n).reads)
  BY <1>2, <1>5, <1>6 DEF Agree, At
<1> QED BY <1>2, <1>5, <1>7 DEF Payload, PayloadLen, s

-----------------------------------------------------------------------------
(* The checks of the three sides fit together.                             *)

(* An answer of this length is one the host can take apart completely.     *)
Whole(r, len) ==
    /\ len \in 0 .. 255 /\ len \in Host(r).takes
    /\ r.cmd \in Aeads => len = r.data + (IF r.op = 0 THEN r.tagLen ELSE 0)
    /\ r.cmd \in Ciphers \cup {"AES_ECB"} => len = r.data

(* What the engine may make of a request the dispatcher took.              *)
Served(r, engine, len) ==
    /\ engine.refuses \subseteq {"BAD_PARAM", "UNSUPPORTED_CURVE"}
    /\ engine.results \subseteq Statuses
    /\ "BAD_PARAM" \in engine.refuses \cup engine.results => r.cmd = "ECDH"
    /\ engine.refuses = {} => Whole(r, len)

(* Why the dispatcher may find malformed what the host let pass.           *)
Excused(r) ==
    \/ r.cmd \in Aeads /\ r.data > 200
    \/ r.cmd = "AES_CTR" /\ r.data = 0

Sound(r) ==
    \E n \in Nat :
        /\ Payload(r, n)
        /\ Cmd(r, n).takes => Served(r, EngineOf(r), Cmd(r, n).answers)
        /\ Cmd(r, n).takes \/ Excused(r)

(* RANDOM: any number of bytes the host asks for is served.                *)
LEMMA RandomSound ==
    ASSUME NEW r \in Requests, r.cmd = "RANDOM", Host(r).accepts
    PROVE  Sound(r)
<1> DEFINE n == 1
<1>1. r \in Lengths
  BY RequestFacts
<1>2. r.data \in 1 .. 240
  BY DEF Host, HostRandom
<1>3. n \in Nat /\ Payload(r, n)
  BY <1>1, <1>2, RandomFields DEF Lengths
<1>4. r.data \in Nat
  BY <1>1, <1>2 DEF Lengths
<1>5. Cmd(r, n).takes
  BY <1>2, <1>4 DEF Cmd, CmdRandom
<1>6. Cmd(r, n).answers = r.data
  BY <1>2, <1>4 DEF Cmd, CmdRandom
<1>7. /\ EngineOf(r).refuses = {}
      /\ EngineOf(r).results = {"OK", "HW_ERROR"}
  BY <1>2, <1>4 DEF EngineOf, EngineRandom, Engine
<1>8. Host(r).takes = {r.data}
  BY DEF Host, HostRandom, AnyLen
<1> HIDE DEF n
<1>9. Cmd(r, n).takes => Whole(r, Cmd(r, n).answers)
  BY <1>2, <1>4, <1>5, <1>6, <1>8 DEF Whole, Aeads, Ciphers
<1>10. Cmd(r, n).takes => Served(r, EngineOf(r), Cmd(r, n).answers)
  BY <1>2, <1>4, <1>5, <1>7, <1>9 DEF Served, Statuses
<1>11. Cmd(r, n).takes \/ Excused(r)
  BY <1>2, <1>4, <1>5 DEF Excused, Aeads
<1> HIDE DEF n
<1> QED BY <1>3, <1>10, <1>11 DEF Sound

(* SHA256: 240 bytes is the limit on both sides.                           *)
LEMMA Sha256Sound ==
    ASSUME NEW r \in Requests, r.cmd = "SHA256", Host(r).accepts
    PROVE  Sound(r)
<1> DEFINE n == r.data
<1>1. r \in Lengths
  BY RequestFacts
<1>2. r.data <= 240
  BY DEF Host, HostSha256
<1>3. n \in Nat /\ Payload(r, n)
  BY <1>1, <1>2, Sha256Fields DEF Lengths
<1>4. r.data \in Nat
  BY <1>1, <1>2 DEF Lengths
<1>5. Cmd(r, n).takes
  BY <1>2, <1>4 DEF Cmd, CmdSha256
<1>6. Cmd(r, n).answers = 32
  BY <1>2, <1>4 DEF Cmd, CmdSha256
<1>7. /\ EngineOf(r).refuses = {}
      /\ EngineOf(r).results = {"OK", "HW_ERROR"}
  BY <1>2, <1>4 DEF EngineOf, EngineSha256, Engine
<1>8. Host(r).takes = {32}
  BY DEF Host, HostSha256, AnyLen
<1> HIDE DEF n
<1>9. Cmd(r, n).takes => Whole(r, Cmd(r, n).answers)
  BY <1>2, <1>4, <1>5, <1>6, <1>8 DEF Whole, Aeads, Ciphers
<1>10. Cmd(r, n).takes => Served(r, EngineOf(r), Cmd(r, n).answers)
  BY <1>2, <1>4, <1>5, <1>7, <1>9 DEF Served, Statuses
<1>11. Cmd(r, n).takes \/ Excused(r)
  BY <1>2, <1>4, <1>5 DEF Excused, Aeads
<1> HIDE DEF n
<1> QED BY <1>3, <1>10, <1>11 DEF Sound

(* AES_ECB: one block, neither more nor less.                              *)
LEMMA EcbSound ==
    ASSUME NEW r \in Requests, r.cmd = "AES_ECB", Host(r).accepts
    PROVE  Sound(r)
<1> DEFINE n == 33
<1>1. r \in Lengths
  BY RequestFacts
<1>2. r.key = 16 /\ r.data = 16
  BY DEF Host, HostCipher
<1>3. n \in Nat /\ Payload(r, n)
  BY <1>1, <1>2, EcbFields DEF Lengths
<1>4. r.data \in Nat
  BY <1>1, <1>2 DEF Lengths
<1>5. Cmd(r, n).takes
  BY <1>2, <1>4 DEF Cmd, CmdEcb
<1>6. Cmd(r, n).answers = 16
  BY <1>2, <1>4 DEF Cmd, CmdEcb
<1>7. /\ EngineOf(r).refuses = {}
      /\ EngineOf(r).results = {"OK", "HW_ERROR"}
  BY <1>2, <1>4 DEF EngineOf, EngineEcb, Engine
<1>8. Host(r).takes = 0 .. 255
  BY DEF Host, HostCipher, AnyLen
<1> HIDE DEF n
<1>9. Cmd(r, n).takes => Whole(r, Cmd(r, n).answers)
  BY <1>2, <1>4, <1>5, <1>6, <1>8 DEF Whole, Aeads, Ciphers
<1>10. Cmd(r, n).takes => Served(r, EngineOf(r), Cmd(r, n).answers)
  BY <1>2, <1>4, <1>5, <1>7, <1>9 DEF Served, Statuses
<1>11. Cmd(r, n).takes \/ Excused(r)
  BY <1>2, <1>4, <1>5 DEF Excused, Aeads
<1> HIDE DEF n
<1> QED BY <1>3, <1>10, <1>11 DEF Sound

(* AES_CTR: the host passes an empty text, the dispatcher does not.        *)
LEMMA CtrSound ==
    ASSUME NEW r \in Requests, r.cmd = "AES_CTR", Host(r).accepts
    PROVE  Sound(r)
<1> DEFINE n == 33 + r.data
<1>1. r \in Lengths
  BY RequestFacts
<1>2. r.key = 16 /\ r.iv = 16 /\ r.data <= 200
  BY DEF Host, HostCipher
<1>3. n \in Nat /\ Payload(r, n)
  BY <1>1, <1>2, CtrFields DEF Lengths
<1>4. r.data \in Nat
  BY <1>1, <1>2 DEF Lengths
<1>5. Cmd(r, n).takes <=> r.data > 0
  <2>1. n \in Nat /\ n - 33 = r.data /\ (n >= 34 <=> r.data > 0)
    BY <1>4
  <2> HIDE DEF n
  <2>2. Cmd(r, n).takes <=> n >= 34 /\ n - 33 <= 200
    BY DEF Cmd, CmdCtr
  <2> QED BY <1>2, <2>1, <2>2
<1>6. Cmd(r, n).answers = r.data
  BY <1>2, <1>4 DEF Cmd, CmdCtr
<1>7. /\ EngineOf(r).refuses = IF r.data = 0 THEN {"BAD_PARAM"} ELSE {}
      /\ EngineOf(r).results = {"OK", "HW_ERROR"}
  BY <1>2, <1>4 DEF EngineOf, EngineCtr, Engine
<1>8. Host(r).takes = 0 .. 255
  BY DEF Host, HostCipher, AnyLen
<1>9. Cmd(r, n).takes => Whole(r, Cmd(r, n).answers)
  BY <1>2, <1>4, <1>5, <1>6, <1>8 DEF Whole, Aeads, Ciphers
<1>10. Cmd(r, n).takes => Served(r, EngineOf(r), Cmd(r, n).answers)
  BY <1>2, <1>4, <1>5, <1>7, <1>9 DEF Served, Statuses
<1>11. Cmd(r, n).takes \/ Excused(r)
  BY <1>2, <1>4, <1>5 DEF Excused, Aeads
<1> HIDE DEF n
<1> QED BY <1>3, <1>10, <1>11 DEF Sound

(* AES_CBC: whole blocks, at least one, for all three.                     *)
LEMMA CbcSound ==
    ASSUME NEW r \in Requests, r.cmd = "AES_CBC", Host(r).accepts
    PROVE  Sound(r)
<1> DEFINE n == 33 + r.data
<1>1. r \in Lengths
  BY RequestFacts
<1>2. r.key = 16 /\ r.iv = 16 /\ r.data \in 1 .. 192 /\ r.data % 16 = 0
  BY DEF Host, HostCipher
<1>3. n \in Nat /\ Payload(r, n)
  BY <1>1, <1>2, CbcFields DEF Lengths
<1>4. r.data \in Nat
  BY <1>1, <1>2 DEF Lengths
<1>5. Cmd(r, n).takes <=> r.data >= 16
  <2>1. n \in Nat /\ n - 33 = r.data /\ (n >= 49 <=> r.data >= 16)
    BY <1>4
  <2> HIDE DEF n
  <2>2. Cmd(r, n).takes <=> n >= 49 /\ n - 33 <= 192 /\ (n - 33) % 16 = 0
    BY DEF Cmd, CmdCbc
  <2> QED BY <1>2, <2>1, <2>2
<1>6. Cmd(r, n).answers = r.data
  BY <1>2, <1>4 DEF Cmd, CmdCbc
<1>7. /\ EngineOf(r).refuses = {}
      /\ EngineOf(r).results = {"OK", "HW_ERROR"}
  BY <1>2, <1>4 DEF EngineOf, EngineCbc, Engine
<1>8. Host(r).takes = 0 .. 255
  BY DEF Host, HostCipher, AnyLen
<1>9. Cmd(r, n).takes => Whole(r, Cmd(r, n).answers)
  BY <1>2, <1>4, <1>5, <1>6, <1>8 DEF Whole, Aeads, Ciphers
<1>10. Cmd(r, n).takes => Served(r, EngineOf(r), Cmd(r, n).answers)
  BY <1>2, <1>4, <1>5, <1>7, <1>9 DEF Served, Statuses
<1>11. Cmd(r, n).takes \/ Excused(r)
  BY <1>2, <1>4, <1>5 DEF Excused, Aeads
<1> HIDE DEF n
<1> QED BY <1>3, <1>10, <1>11 DEF Sound

(* AES_CCM: the text's limit is the dispatcher's alone.                    *)
LEMMA CcmSound ==
    ASSUME NEW r \in Requests, r.cmd = "AES_CCM", Host(r).accepts
    PROVE  Sound(r)
<1> DEFINE n == 23 + r.iv + r.aad + r.data + r.tag
<1>1. r \in Lengths
  BY RequestFacts
<1>2. /\ r.key = 16 /\ r.iv \in 7 .. 13 /\ r.tagLen \in TagSizes /\ r.op * r.tagLen = r.tag
      /\ (1 - r.op) * r.tagLen = IF r.op = 0 THEN r.tagLen ELSE 0
  <2>1. /\ r.key = 16 /\ (r.op = 0 => r.tag = 0) /\ r.op \in 0 .. 1 /\ r.tagLen \in Nat
        /\ r.cmd = "AES_GCM" => r.tagLen = 16
    BY <1>1, RequestFacts DEF Aeads, Lengths
  <2>2. r.iv \in 7 .. 13 /\ r.tagLen \in TagSizes
        /\ (r.op = 1 => r.tag = r.tagLen)
    BY <2>1 DEF Host, HostCcm
  <2>3. CASE r.op = 0
    BY <2>1, <2>2, <2>3
  <2>4. CASE r.op = 1
    BY <2>1, <2>2, <2>4
  <2> QED BY <2>1, <2>3, <2>4
<1>3. n \in Nat /\ Payload(r, n)
  BY <1>1, <1>2, CcmFields DEF Lengths
<1>4. r.aad \in Nat /\ r.data \in Nat /\ r.tag \in Nat /\ r.iv \in Nat /\ r.tagLen \in 4 .. 16
  BY <1>1, <1>2 DEF Lengths, TagSizes
<1>5. Cmd(r, n).takes <=> r.data <= 200
  BY <1>2, <1>4 DEF Cmd, CmdCcm
<1>6. Cmd(r, n).answers = r.data + (IF r.op = 0 THEN r.tagLen ELSE 0)
  <2>1. Cmd(r, n).answers = r.data + (1 - r.op) * r.tagLen
    BY DEF Cmd, CmdCcm
  <2> QED BY <1>2, <2>1
<1>7. /\ EngineOf(r).refuses = {}
      /\ EngineOf(r).results = {"OK", "TAG_MISMATCH", "HW_ERROR"}
  BY <1>2, <1>4 DEF EngineOf, EngineCcm, Engine
<1>8. Host(r).takes = 0 .. 255
  BY DEF Host, HostCcm, AnyLen
<1>9. Cmd(r, n).takes => Whole(r, Cmd(r, n).answers)
  <2> DEFINE l == IF r.op = 0 THEN r.tagLen ELSE 0
  <2>1. l \in 0 .. 16
    BY <1>2, <1>4
  <2>2. Cmd(r, n).takes => r.data + l \in 0 .. 255
    <3> HIDE DEF l
    <3> QED BY <1>4, <1>5, <2>1
  <2> QED BY <1>6, <1>8, <2>2 DEF Whole, Ciphers
<1>10. Cmd(r, n).takes => Served(r, EngineOf(r), Cmd(r, n).answers)
  BY <1>2, <1>4, <1>5, <1>7, <1>9 DEF Served, Statuses
<1>11. Cmd(r, n).takes \/ Excused(r)
  BY <1>2, <1>4, <1>5 DEF Excused, Aeads
<1> HIDE DEF n
<1> QED BY <1>3, <1>10, <1>11 DEF Sound

(* AES_GCM: the same, and the tag is always 16 bytes.                      *)
LEMMA GcmSound ==
    ASSUME NEW r \in Requests, r.cmd = "AES_GCM", Host(r).accepts
    PROVE  Sound(r)
<1> DEFINE n == 33 + r.aad + r.data + r.tag
<1>1. r \in Lengths
  BY RequestFacts
<1>2. /\ r.key = 16 /\ r.iv = 12 /\ r.tagLen = 16 /\ r.op * 16 = r.tag
      /\ (1 - r.op) * r.tagLen = IF r.op = 0 THEN r.tagLen ELSE 0
  <2>1. /\ r.key = 16 /\ (r.op = 0 => r.tag = 0) /\ r.op \in 0 .. 1 /\ r.tagLen \in Nat
        /\ r.cmd = "AES_GCM" => r.tagLen = 16
    BY <1>1, RequestFacts DEF Aeads, Lengths
  <2>2. r.iv = 12 /\ r.tagLen = 16
        /\ (r.op = 1 => r.tag = r.tagLen)
    BY <2>1 DEF Host, HostGcm
  <2>3. CASE r.op = 0
    BY <2>1, <2>2, <2>3
  <2>4. CASE r.op = 1
    BY <2>1, <2>2, <2>4
  <2> QED BY <2>1, <2>3, <2>4
<1>3. n \in Nat /\ Payload(r, n)
  BY <1>1, <1>2, GcmFields DEF Lengths
<1>4. r.aad \in Nat /\ r.data \in Nat /\ r.tag \in Nat
  BY <1>1, <1>2 DEF Lengths
<1>5. Cmd(r, n).takes <=> r.data <= 200
  <2>1. n \in Nat /\ n >= 33 /\ n >= 33 + r.aad + r.data + r.tag
    BY <1>4
  <2> HIDE DEF n
  <2>2. Cmd(r, n).takes <=> n >= 33 /\ r.data <= 200 /\ n >= 33 + r.aad + r.data + r.op * 16
    BY DEF Cmd, CmdGcm
  <2> QED BY <1>2, <2>1, <2>2
<1>6. Cmd(r, n).answers = r.data + (IF r.op = 0 THEN r.tagLen ELSE 0)
  <2>1. Cmd(r, n).answers = r.data + (1 - r.op) * 16
    BY DEF Cmd, CmdGcm
  <2> QED BY <1>2, <2>1
<1>7. /\ EngineOf(r).refuses = {}
      /\ EngineOf(r).results = {"OK", "TAG_MISMATCH", "HW_ERROR"}
  BY <1>2, <1>4 DEF EngineOf, EngineGcm, Engine
<1>8. Host(r).takes = 0 .. 255
  BY DEF Host, HostGcm, AnyLen
<1>9. Cmd(r, n).takes => Whole(r, Cmd(r, n).answers)
  <2> DEFINE l == IF r.op = 0 THEN r.tagLen ELSE 0
  <2>1. l \in 0 .. 16
    BY <1>2, <1>4
  <2>2. Cmd(r, n).takes => r.data + l \in 0 .. 255
    <3> HIDE DEF l
    <3> QED BY <1>4, <1>5, <2>1
  <2> QED BY <1>6, <1>8, <2>2 DEF Whole, Ciphers
<1>10. Cmd(r, n).takes => Served(r, EngineOf(r), Cmd(r, n).answers)
  BY <1>2, <1>4, <1>5, <1>7, <1>9 DEF Served, Statuses
<1>11. Cmd(r, n).takes \/ Excused(r)
  BY <1>2, <1>4, <1>5 DEF Excused, Aeads
<1> HIDE DEF n
<1> QED BY <1>3, <1>10, <1>11 DEF Sound

(* ECDH: a point off the curve is the engine's to find.                    *)
LEMMA EcdhSound ==
    ASSUME NEW r \in Requests, r.cmd = "ECDH", Host(r).accepts
    PROVE  Sound(r)
<1> DEFINE n == 33 + r.pub
<1>1. r \in Lengths
  BY RequestFacts
<1>2. r.key = 32 /\ r.pub = PointLen(r)
  BY DEF Host, HostEcdh
<1>3. n \in Nat /\ Payload(r, n)
  BY <1>1, <1>2, EcdhFields DEF Lengths
<1>4. r.pub \in {32, 64} /\ (r.curve = 0 => r.pub = 64) /\ (r.curve # 0 => r.pub = 32)
  BY <1>1, <1>2 DEF Lengths, PointLen
<1>5. Cmd(r, n).takes
  <2>1. n - 33 = r.pub /\ n >= 65
    BY <1>4
  <2> HIDE DEF n
  <2>2. Cmd(r, n).takes <=> n >= 65 /\ n - 33 = PointLen(r)
    BY DEF Cmd, CmdEcdh
  <2> QED BY <1>2, <2>1, <2>2
<1>6. Cmd(r, n).answers = 32
  BY <1>2, <1>4 DEF Cmd, CmdEcdh
<1>7. /\ EngineOf(r).refuses = {}
      /\ EngineOf(r).results = {"OK", "BAD_PARAM", "HW_ERROR"}
  BY <1>2, <1>4 DEF EngineOf, EngineEcdh, Engine, PointLen
<1>8. Host(r).takes = {32}
  BY DEF Host, HostEcdh, AnyLen
<1> HIDE DEF n
<1>9. Cmd(r, n).takes => Whole(r, Cmd(r, n).answers)
  BY <1>2, <1>4, <1>5, <1>6, <1>8 DEF Whole, Aeads, Ciphers
<1>10. Cmd(r, n).takes => Served(r, EngineOf(r), Cmd(r, n).answers)
  BY <1>2, <1>4, <1>5, <1>7, <1>9 DEF Served, Statuses
<1>11. Cmd(r, n).takes \/ Excused(r)
  BY <1>2, <1>4, <1>5 DEF Excused, Aeads
<1> HIDE DEF n
<1> QED BY <1>3, <1>10, <1>11 DEF Sound

(* ECDSA_SIGN: only P-256 signs.                                           *)
LEMMA SignSound ==
    ASSUME NEW r \in Requests, r.cmd = "ECDSA_SIGN", Host(r).accepts
    PROVE  Sound(r)
<1> DEFINE n == 65
<1>1. r \in Lengths
  BY RequestFacts
<1>2. r.key = 32 /\ r.data = 32
  BY DEF Host, HostSign
<1>3. n \in Nat /\ Payload(r, n)
  BY <1>1, <1>2, SignFields DEF Lengths
<1>4. r.data \in Nat
  BY <1>1, <1>2 DEF Lengths
<1>5. Cmd(r, n).takes
  BY <1>2, <1>4 DEF Cmd, CmdSign
<1>6. Cmd(r, n).answers = 64
  BY <1>2, <1>4 DEF Cmd, CmdSign
<1>7. /\ EngineOf(r).refuses = IF r.curve # 0 THEN {"UNSUPPORTED_CURVE"} ELSE {}
      /\ EngineOf(r).results = {"OK", "HW_ERROR"}
  BY <1>2, <1>4 DEF EngineOf, EngineSign, Engine
<1>8. Host(r).takes = {64}
  BY DEF Host, HostSign, AnyLen
<1> HIDE DEF n
<1>9. Cmd(r, n).takes => Whole(r, Cmd(r, n).answers)
  BY <1>2, <1>4, <1>5, <1>6, <1>8 DEF Whole, Aeads, Ciphers
<1>10. Cmd(r, n).takes => Served(r, EngineOf(r), Cmd(r, n).answers)
  BY <1>2, <1>4, <1>5, <1>7, <1>9 DEF Served, Statuses
<1>11. Cmd(r, n).takes \/ Excused(r)
  BY <1>2, <1>4, <1>5 DEF Excused, Aeads
<1> HIDE DEF n
<1> QED BY <1>3, <1>10, <1>11 DEF Sound

(* ECDSA_VERIFY: only P-256 verifies.                                      *)
LEMMA VerifySound ==
    ASSUME NEW r \in Requests, r.cmd = "ECDSA_VERIFY", Host(r).accepts
    PROVE  Sound(r)
<1> DEFINE n == 97 + r.pub
<1>1. r \in Lengths
  BY RequestFacts
<1>2. r.data = 32 /\ r.sig = 64 /\ r.pub = PointLen(r)
  BY DEF Host, HostVerify
<1>3. n \in Nat /\ Payload(r, n)
  BY <1>1, <1>2, VerifyFields DEF Lengths
<1>4. r.pub \in {32, 64} /\ (r.curve = 0 => r.pub = 64) /\ (r.curve # 0 => r.pub = 32)
  BY <1>1, <1>2 DEF Lengths, PointLen
<1>5. Cmd(r, n).takes
  <2>1. n - 97 = r.pub /\ n >= 129
    BY <1>4
  <2> HIDE DEF n
  <2>2. Cmd(r, n).takes <=> n >= 129 /\ n - 97 = PointLen(r)
    BY DEF Cmd, CmdVerify
  <2> QED BY <1>2, <2>1, <2>2
<1>6. Cmd(r, n).answers = 1
  BY <1>2, <1>4 DEF Cmd, CmdVerify
<1>7. /\ EngineOf(r).refuses = IF r.curve # 0 THEN {"UNSUPPORTED_CURVE"} ELSE {}
      /\ EngineOf(r).results = {"OK", "HW_ERROR"}
  BY <1>2, <1>4 DEF EngineOf, EngineVerify, Engine, PointLen
<1>8. Host(r).takes = 0 .. 255
  BY DEF Host, HostVerify, AnyLen
<1> HIDE DEF n
<1>9. Cmd(r, n).takes => Whole(r, Cmd(r, n).answers)
  BY <1>2, <1>4, <1>5, <1>6, <1>8 DEF Whole, Aeads, Ciphers
<1>10. Cmd(r, n).takes => Served(r, EngineOf(r), Cmd(r, n).answers)
  BY <1>2, <1>4, <1>5, <1>7, <1>9 DEF Served, Statuses
<1>11. Cmd(r, n).takes \/ Excused(r)
  BY <1>2, <1>4, <1>5 DEF Excused, Aeads
<1> HIDE DEF n
<1> QED BY <1>3, <1>10, <1>11 DEF Sound

(* Whatever the lengths, the three sides of every command fit together.    *)
LEMMA CallSound ==
    ASSUME NEW r \in Requests, Host(r).accepts
    PROVE  /\ PayloadLen(r) \in Nat
           /\ Payload(r, PayloadLen(r))
           /\ Cmd(r, PayloadLen(r)).takes =>
                 Served(r, EngineOf(r), Cmd(r, PayloadLen(r)).answers)
           /\ Cmd(r, PayloadLen(r)).takes \/ Excused(r)
<1>1. r.cmd \in Cmds
  BY RequestFacts DEF Lengths
<1>2. Sound(r)
  BY <1>1, RandomSound, Sha256Sound, EcbSound, CtrSound, CbcSound, CcmSound, GcmSound,
     EcdhSound, SignSound, VerifySound DEF Cmds, Ciphers, Aeads, Ecc
<1>3. PICK n \in Nat :
          /\ Payload(r, n)
          /\ Cmd(r, n).takes => Served(r, EngineOf(r), Cmd(r, n).answers)
          /\ Cmd(r, n).takes \/ Excused(r)
  BY <1>2 DEF Sound
<1>4. PayloadLen(r) = n
  BY <1>3 DEF Payload
<1> QED BY <1>3, <1>4

-----------------------------------------------------------------------------
(* The inductive invariant.  An answer remembers what led to it, so that   *)
(* the outcome can be held against the request and the engine's status.    *)

(* What the engine made of a request, and the answer that says so.         *)
Worked(r, st, a) ==
    \/ st \in EngineOf(r).refuses /\ a = Error(Code(st), FALSE)
    \/ /\ EngineOf(r).refuses = {} /\ st \in EngineOf(r).results \ {"OK"}
       /\ a = Error(Code(st), FALSE)
    \/ /\ EngineOf(r).refuses = {} /\ st = "OK"
       /\ a = Result(Cmd(r, PayloadLen(r)).answers)

Taken(r) == PayloadLen(r) <= MaxDelivered /\ Cmd(r, PayloadLen(r)).takes

(* What may come of a frame that overran the dispatcher's buffers.         *)
Garbage == {Error(c, FALSE) : c \in 0 .. 5} \cup {Result(n) : n \in AnyLen}

Answered(r, st, a) ==
    \/ st = None /\ a \in {Error(5, TRUE), Error(4, FALSE), None}
    \/ st = None /\ Overruns(r) /\ a \in Garbage
    \/ st = None /\ a = Error(2, FALSE) /\ ~Cmd(r, PayloadLen(r)).takes
    \/ Taken(r) /\ Worked(r, st, a)

(* What the host makes of an answer.                                       *)
Verdict(r, a) ==
    IF a = None THEN "failed"
    ELSE CASE a.rsp = "RSP" ->
                IF a.len \in Host(r).takes THEN "result" ELSE "unexpected length"
           [] a.rsp = "ERROR" /\ a.code = 2 /\ r.cmd \in Aeads -> "tag mismatch"
           [] a.rsp = "ERROR" /\ a.code = 5 /\ r.cmd \in Ecc -> "not supported"
           [] OTHER -> "failed"

CallInv ==
    /\ stage \in Stages
    /\ stage = "idle" => req = None
    /\ stage # "idle" => req \in Requests
    /\ stage \in {"sent", "engine", "run", "answered"} => Host(req).accepts
    /\ stage \in {"engine", "run"} => Taken(req)
    /\ stage = "run" => open = req.cmd /\ EngineOf(req).refuses = {}
    /\ stage # "run" => open = None
    /\ stage \in {"idle", "sent", "engine", "run"} => status = None /\ ans = None
    /\ stage = "answered" => Answered(req, status, ans)
    /\ stage # "done" => outcome = None
    /\ stage = "done" =>
          \/ outcome = "ValueError" /\ status = None /\ ans = None
          \/ Host(req).accepts /\ Answered(req, status, ans) /\ outcome = Verdict(req, ans)

(* Every engine function may find its hardware failing.                    *)
LEMMA MayFail ==
    ASSUME NEW r \in Requests
    PROVE  "HW_ERROR" \in EngineOf(r).results
<1>1. r.cmd \in Cmds
  BY RequestFacts DEF Lengths
<1> QED BY <1>1 DEF EngineOf, Cmds, Ciphers, Aeads, Ecc, Engine, EngineRandom, EngineSha256,
          EngineEcb, EngineCtr, EngineCbc, EngineCcm, EngineGcm, EngineEcdh, EngineSign,
          EngineVerify

(* Nothing has been asked.                                                 *)
LEMMA CallStarts == Init => CallInv
BY DEF Init, CallInv, Stages

(* A new call is refused by the host or sent.                              *)
LEMMA CallKept ==
    ASSUME CallInv, NEW r \in Requests, Call(r)
    PROVE  CallInv'
BY DEF CallInv, Call, Stages

(* A busy slot or an overlong frame is answered without the engine, a lost *)
(* frame not at all.                                                       *)
LEMMA NotDeliveredKept == ASSUME CallInv, NotDelivered PROVE CallInv'
<1>1. stage = "sent" /\ stage' = "answered" /\ UNCHANGED <<req, open, status, outcome>>
  BY DEF NotDelivered
<1>2. ans' \in {Error(5, TRUE), Error(4, FALSE), None}
  BY DEF NotDelivered
<1>3. Answered(req, status, ans')
  BY <1>1, <1>2 DEF CallInv, Answered
<1> QED BY <1>1, <1>3 DEF CallInv, Stages

(* A frame that overran the dispatcher's buffers is answered anyhow.       *)
LEMMA GarbledKept == ASSUME CallInv, Garbled PROVE CallInv'
<1>1. stage = "sent" /\ stage' = "answered" /\ UNCHANGED <<req, open, status, outcome>>
  BY DEF Garbled
<1>2. Overruns(req) /\ (ans' = None \/ ans' \in Garbage)
  BY DEF Garbled, Garbage
<1>3. Answered(req, status, ans')
  BY <1>1, <1>2 DEF CallInv, Answered
<1> QED BY <1>1, <1>3 DEF CallInv, Stages

(* The dispatcher takes the payload, or answers that it is malformed.      *)
LEMMA DispatchKept == ASSUME CallInv, Dispatch PROVE CallInv'
<1>1. stage = "sent" /\ PayloadLen(req) <= MaxDelivered
      /\ UNCHANGED <<req, open, status, outcome>>
  BY DEF Dispatch
<1>2. CASE Cmd(req, PayloadLen(req)).takes
  <2>1. stage' = "engine" /\ ans' = ans /\ Taken(req)
    BY <1>1, <1>2 DEF Dispatch, Taken
  <2> QED BY <1>1, <2>1 DEF CallInv, Stages
<1>3. CASE ~Cmd(req, PayloadLen(req)).takes
  <2>1. stage' = "answered" /\ ans' = Error(2, FALSE)
    BY <1>3 DEF Dispatch
  <2>2. Answered(req, status, ans')
    BY <1>1, <1>3, <2>1 DEF CallInv, Answered
  <2> QED BY <1>1, <2>1, <2>2 DEF CallInv, Stages
<1> QED BY <1>2, <1>3

(* An answer of the engine, whichever step it comes from.                  *)
LEMMA Finished ==
    ASSUME NEW st, Finish(st), req' = req, open' = None, outcome' = outcome,
           CallInv, stage \in {"engine", "run"},
           \/ st \in EngineOf(req).refuses
           \/ EngineOf(req).refuses = {} /\ st \in EngineOf(req).results
    PROVE  CallInv'
<1>1. stage' = "answered" /\ status' = st
  BY DEF Finish
<1>2. req \in Requests /\ Host(req).accepts /\ Taken(req) /\ outcome = None
  BY DEF CallInv
<1>3. st \in EngineOf(req).refuses => st # "OK"
  BY <1>2, CallSound DEF Taken, Served
<1>4. Worked(req, st, ans')
  BY <1>3 DEF Finish, Worked
<1>5. Answered(req, status', ans')
  BY <1>1, <1>2, <1>4 DEF Answered
<1> QED BY <1>1, <1>2, <1>5 DEF CallInv, Stages

(* The engine refuses a parameter or a curve.                              *)
LEMMA EngineRefusesKept == ASSUME CallInv, EngineRefuses PROVE CallInv'
<1>1. PICK st \in EngineOf(req).refuses : Finish(st)
  BY DEF EngineRefuses
<1>2. stage = "engine" /\ req' = req /\ open' = None /\ outcome' = outcome
  BY DEF EngineRefuses, CallInv
<1> QED BY <1>1, <1>2, Finished

(* The driver opens, or it is a hardware error.                            *)
LEMMA OpenDriverKept == ASSUME CallInv, OpenDriver PROVE CallInv'
<1>1. stage = "engine" /\ EngineOf(req).refuses = {} /\ req' = req /\ outcome' = outcome
  BY DEF OpenDriver
<1>2. CASE stage' = "run" /\ open' = req.cmd /\ UNCHANGED <<status, ans>>
  BY <1>1, <1>2 DEF CallInv, Stages
<1>3. CASE Finish("HW_ERROR") /\ UNCHANGED open
  <2>1. "HW_ERROR" \in EngineOf(req).results
    BY <1>1, MayFail DEF CallInv
  <2>2. open' = None
    BY <1>1, <1>3 DEF CallInv
  <2> QED BY <1>1, <1>3, <2>1, <2>2, Finished
<1> QED BY <1>2, <1>3 DEF OpenDriver

(* Whatever the driver's step gave, the handle is closed.                  *)
LEMMA RunDriverKept == ASSUME CallInv, RunDriver PROVE CallInv'
<1>1. PICK st \in EngineOf(req).results : Finish(st)
  BY DEF RunDriver
<1>2. stage = "run" /\ req' = req /\ open' = None /\ outcome' = outcome
  BY DEF RunDriver
<1>3. EngineOf(req).refuses = {}
  BY <1>2 DEF CallInv
<1> QED BY <1>1, <1>2, <1>3, Finished

(* The host draws its conclusion.                                          *)
LEMMA ConcludeKept == ASSUME CallInv, Conclude PROVE CallInv'
<1>1. stage = "answered" /\ stage' = "done" /\ UNCHANGED <<req, open, status, ans>>
  BY DEF Conclude
<1>2. outcome' = Verdict(req, ans)
  BY DEF Conclude, Verdict
<1>3. req \in Requests /\ open = None /\ Host(req).accepts /\ Answered(req, status, ans)
  BY <1>1 DEF CallInv
<1> QED BY <1>1, <1>2, <1>3 DEF CallInv, Stages

(* The next call starts from nothing.                                      *)
LEMMA ReturnKept == ASSUME CallInv, Return PROVE CallInv'
BY DEF CallInv, Return, Stages

(* Every reachable state satisfies the inductive invariant.                *)
THEOREM CallInvHolds == Spec => []CallInv
<1>1. Init => CallInv
  BY CallStarts
<1>2. CallInv /\ [Next]_vars => CallInv'
  <2> SUFFICES ASSUME CallInv, [Next]_vars PROVE CallInv'
    OBVIOUS
  <2>1. ASSUME NEW r \in Requests, Call(r) PROVE CallInv'
    BY <2>1, CallKept
  <2>2. CASE UNCHANGED vars
    BY <2>2 DEF CallInv, vars
  <2> QED BY <2>1, <2>2, NotDeliveredKept, DispatchKept, GarbledKept, EngineRefusesKept,
             OpenDriverKept, RunDriverKept, ConcludeKept, ReturnKept DEF Next
<1> QED BY <1>1, <1>2, PTL DEF Spec

-----------------------------------------------------------------------------
(* What follows.                                                           *)

(* The code of each status on the wire.                                    *)
LEMMA CodesAre ==
    /\ Code("BAD_PARAM") = 1 /\ Code("TAG_MISMATCH") = 2 /\ Code("HW_ERROR") = 3
    /\ Code("UNSUPPORTED_CURVE") = 5
BY DEF Code

(* A result on the wire.                                                   *)
LEMMA ResultIs ==
    ASSUME NEW n \in 0 .. 255
    PROVE  /\ Result(n) \in Answers
           /\ Result(n).rsp = "RSP" /\ Result(n).code = 0 /\ Result(n).len = n
<1>1. Result(n) = [rsp |-> "RSP", code |-> 0, len |-> n, busy |-> FALSE]
  BY DEF Result
<1>2. Result(n).rsp = "RSP" /\ Result(n).code = 0 /\ Result(n).len = n
  BY <1>1
<1>3. Result(n) \in Answers
  BY <1>1 DEF Answers
<1> QED BY <1>2, <1>3

(* What an answer says of the request and of the engine's status.          *)
Says(r, st, a) ==
    /\ a \in Answers
    /\ st \in Statuses \cup {None}
    /\ a.rsp = "RSP" => a.len \in Host(r).takes /\ (Whole(r, a.len) \/ Overruns(r))
    /\ st = "BAD_PARAM" => r.cmd = "ECDH"
    /\ a.code = 2 =>
          a.rsp = "ERROR" /\ (st = "TAG_MISMATCH" \/ (st = None /\ (Excused(r) \/ Overruns(r))))
    /\ a.code = 5 => st = "UNSUPPORTED_CURVE" \/ a.busy \/ Overruns(r)

(* The ways to an answer, with what each says of status and answer.        *)
LEMMA AnswerFacts ==
    ASSUME NEW r \in Requests, NEW st, NEW a, Host(r).accepts, Answered(r, st, a)
    PROVE  (a = None /\ st = None) \/ Says(r, st, a)
<1> SUFFICES ASSUME ~(a = None /\ st = None)
             PROVE  /\ a \in Answers
                    /\ st \in Statuses \cup {None}
                    /\ a.rsp = "RSP" =>
                          a.len \in Host(r).takes /\ (Whole(r, a.len) \/ Overruns(r))
                    /\ st = "BAD_PARAM" => r.cmd = "ECDH"
                    /\ a.code = 2 =>
                          /\ a.rsp = "ERROR"
                          /\ st = "TAG_MISMATCH" \/ (st = None /\ (Excused(r) \/ Overruns(r)))
                    /\ a.code = 5 => st = "UNSUPPORTED_CURVE" \/ a.busy \/ Overruns(r)
  BY DEF Says
<1> USE NoneAssumption
<1>0. \A c \in 0 .. 5, b \in BOOLEAN :
          /\ Error(c, b) \in Answers
          /\ Error(c, b).rsp = "ERROR" /\ Error(c, b).code = c /\ Error(c, b).busy = b
  BY DEF Error, Answers
<1>1. CASE st = None /\ a \in {Error(5, TRUE), Error(4, FALSE), None}
  <2>1. a \in Answers /\ a.rsp = "ERROR" /\ (a.code = 4 \/ (a.code = 5 /\ a.busy = TRUE))
    <3>1. CASE a = Error(5, TRUE)
      <4>1. a = [rsp |-> "ERROR", code |-> 5, len |-> 1, busy |-> TRUE]
        BY <3>1 DEF Error
      <4>2. a.rsp = "ERROR" /\ a.code = 5 /\ a.busy = TRUE
        BY <4>1
      <4>3. a \in Answers
        BY <4>1 DEF Answers
      <4> QED BY <4>2, <4>3
    <3>2. CASE a = Error(4, FALSE)
      <4>1. a = [rsp |-> "ERROR", code |-> 4, len |-> 1, busy |-> FALSE]
        BY <3>2 DEF Error
      <4>2. a.rsp = "ERROR" /\ a.code = 4 /\ a.busy = FALSE
        BY <4>1
      <4>3. a \in Answers
        BY <4>1 DEF Answers
      <4> QED BY <4>2, <4>3
    <3> QED BY <1>1, <3>1, <3>2
  <2>2. st \in Statuses \cup {None} /\ st # "BAD_PARAM"
    BY <1>1 DEF Statuses
  <2>3. a.rsp # "RSP" /\ a.code # 2 /\ (a.code = 5 => a.busy)
    BY <2>1
  <2> QED BY <2>1, <2>2, <2>3
<1>2. CASE st = None /\ a = Error(2, FALSE) /\ ~Cmd(r, PayloadLen(r)).takes
  <2>1. a \in Answers /\ a.rsp = "ERROR" /\ a.code = 2
    BY <1>2 DEF Error, Answers
  <2>2. Excused(r)
    BY <1>2, CallSound
  <2>3. st \in Statuses \cup {None} /\ st # "BAD_PARAM"
    BY <1>2 DEF Statuses
  <2>4. a.rsp # "RSP" /\ a.code # 5
    BY <2>1
  <2> QED BY <1>2, <2>1, <2>2, <2>3, <2>4
<1>3. CASE Taken(r) /\ Worked(r, st, a)
  <2> DEFINE len == Cmd(r, PayloadLen(r)).answers
  <2>1. Served(r, EngineOf(r), len)
    BY <1>3, CallSound DEF Taken
  <2> HIDE DEF len
  <2>2. CASE a = Error(Code(st), FALSE) /\ st \in Statuses \ {"OK"}
             /\ (st = "BAD_PARAM" => r.cmd = "ECDH")
    <3>1. st \in {"BAD_PARAM", "TAG_MISMATCH", "HW_ERROR", "UNSUPPORTED_CURVE"}
      BY <2>2 DEF Statuses
    <3>2. Code(st) \in 0 .. 5 /\ (Code(st) = 2 => st = "TAG_MISMATCH")
          /\ (Code(st) = 5 => st = "UNSUPPORTED_CURVE")
      BY <3>1, CodesAre
    <3> QED BY <1>0, <2>2, <3>2
  <2>3. CASE /\ EngineOf(r).refuses = {} /\ st = "OK"
             /\ a = Result(len)
    <3>1. Whole(r, len)
      BY <2>1, <2>3 DEF Served
    <3>2. len \in 0 .. 255
      BY <3>1 DEF Whole
    <3>3. a \in Answers /\ a.rsp = "RSP" /\ a.code = 0 /\ a.len = len
      BY <2>3, <3>2, ResultIs
    <3> QED BY <2>3, <3>1, <3>3 DEF Whole, Statuses
  <2>4. st \in EngineOf(r).refuses => st \in Statuses \ {"OK"}
                                      /\ (st = "BAD_PARAM" => r.cmd = "ECDH")
    BY <2>1 DEF Served, Statuses
  <2>5. st \in EngineOf(r).results \ {"OK"} => st \in Statuses \ {"OK"}
                                      /\ (st = "BAD_PARAM" => r.cmd = "ECDH")
    BY <2>1 DEF Served
  <2> QED BY <1>3, <2>2, <2>3, <2>4, <2>5 DEF Worked, len
<1>4. CASE st = None /\ Overruns(r) /\ a \in Garbage
  <2>1. Host(r).takes = 0 .. 255
    BY <1>4 DEF Overruns, Aeads, Host, HostCcm, HostGcm, AnyLen
  <2>2. st \in Statuses \cup {None} /\ st # "BAD_PARAM"
    BY <1>4 DEF Statuses
  <2>3. CASE \E c \in 0 .. 5 : a = Error(c, FALSE)
    <3>1. a \in Answers /\ a.rsp = "ERROR"
      BY <1>0, <2>3
    <3> QED BY <1>4, <2>2, <3>1
  <2>4. CASE \E n \in 0 .. 255 : a = Result(n)
    <3>1. PICK n \in 0 .. 255 : a = Result(n)
      BY <2>4
    <3>2. a \in Answers /\ a.rsp = "RSP" /\ a.code = 0 /\ a.len = n
      BY <3>1, ResultIs
    <3> QED BY <1>4, <2>1, <2>2, <3>1, <3>2
  <2> QED BY <1>4, <2>3, <2>4 DEF Garbage, AnyLen
<1> QED BY <1>1, <1>2, <1>3, <1>4 DEF Answered

(* What the host's verdict is, of an answer it may get.                    *)
LEMMA VerdictFacts ==
    ASSUME NEW r \in Requests, NEW st, NEW a, Host(r).accepts, Answered(r, st, a)
    PROVE  /\ Verdict(r, a) \in {"result", "tag mismatch", "not supported", "failed"}
           /\ Verdict(r, a) # "failed" => a # None
           /\ Verdict(r, a) = "result" => a.rsp = "RSP"
           /\ Verdict(r, a) = "tag mismatch" =>
                 a.rsp = "ERROR" /\ a.code = 2 /\ r.cmd \in Aeads
           /\ Verdict(r, a) = "not supported" =>
                 a.rsp = "ERROR" /\ a.code = 5 /\ r.cmd \in Ecc
<1>1. CASE a = None
  BY <1>1 DEF Verdict
<1>2. CASE a # None
  <2>1. a \in Answers /\ (a.rsp = "RSP" => a.len \in Host(r).takes)
    BY <1>2, AnswerFacts DEF Says
  <2>2. CASE a.rsp = "RSP"
    BY <1>2, <2>1, <2>2 DEF Verdict
  <2>3. CASE a.rsp = "ERROR"
    BY <1>2, <2>3 DEF Verdict
  <2> QED BY <2>1, <2>2, <2>3 DEF Answers
<1> QED BY <1>1, <1>2

(* The driver's handle is open during its one step and at no other time,   *)
(* and every variable keeps its type.                                      *)
THEOREM TypeCorrect == Spec => []TypeOK
<1>1. CallInv => TypeOK
  <2> SUFFICES ASSUME CallInv PROVE TypeOK
    OBVIOUS
  <2> USE NoneAssumption
  <2>1. stage \in Stages /\ ((req = None) <=> (stage = "idle"))
    BY DEF CallInv
  <2>2. open \in Cmds \cup {None} /\ ((stage = "run") <=> (open # None))
    <3>1. stage = "run" => open \in Cmds
      BY RequestFacts DEF CallInv, Lengths
    <3> QED BY <3>1 DEF CallInv
  <2>3. status \in Statuses \cup {None} /\ ans \in Answers \cup {None}
    BY AnswerFacts DEF CallInv, Stages, Says
  <2>4. outcome \in Outcomes \cup {None} /\ ((outcome # None) <=> (stage = "done"))
    <3>1. stage = "done" => outcome \in Outcomes
      BY VerdictFacts DEF CallInv, Outcomes
    <3> QED BY <3>1 DEF CallInv
  <2> QED BY <2>1, <2>2, <2>3, <2>4 DEF TypeOK
<1> QED BY <1>1, CallInvHolds, PTL

(* FieldsAgree: the arguments the engine is given are the bytes the caller *)
(* passed, for every command and every length the two sides let through,   *)
(* the 256 and 257 bytes included that overrun the dispatcher's buffers,   *)
(* where they are executed as what they are.                               *)
THEOREM FieldsAlwaysAgree == Spec => []FieldsAgree
<1>1. CallInv => FieldsAgree
  <2> SUFFICES ASSUME CallInv, stage \in {"engine", "run"}
               PROVE  Agree(Host(req).fields, Cmd(req, PayloadLen(req)).reads)
    BY DEF FieldsAgree, Agree
  <2>1. req \in Requests /\ Host(req).accepts
    BY DEF CallInv
  <2> QED BY <2>1, CallSound DEF Payload
<1> QED BY <1>1, CallInvHolds, PTL

(* ResultComplete: a result has all its bytes, the host never has to       *)
(* refuse an answer for its length, and no check of the engine but the one *)
(* on the curve point finds fault with what the dispatcher let through.    *)
THEOREM ResultsComplete == Spec => []ResultComplete
<1>1. CallInv => ResultComplete
  <2> SUFFICES ASSUME CallInv PROVE ResultComplete
    OBVIOUS
  <2> USE NoneAssumption
  <2>1. CASE stage \notin {"answered", "done"} \/ (outcome = "ValueError" /\ status = None)
    BY <2>1 DEF CallInv, Stages, ResultComplete, Statuses, Outcomes
  <2>2. CASE /\ req \in Requests /\ Host(req).accepts /\ Answered(req, status, ans)
             /\ outcome \in {None, Verdict(req, ans)}
    <3>1. /\ ans # None /\ ans.rsp = "RSP" => Whole(req, ans.len) \/ Overruns(req)
          /\ status = "BAD_PARAM" => req.cmd = "ECDH"
      BY <2>2, AnswerFacts DEF Says, Statuses
    <3>2. outcome # "unexpected length" /\ (outcome = "result" => ans # None /\ ans.rsp = "RSP")
      BY <2>2, VerdictFacts DEF Outcomes
    <3>3. Overruns(req) => req.cmd \notin Ciphers \cup {"AES_ECB"}
      BY DEF Overruns, Aeads, Ciphers
    <3> QED BY <3>1, <3>2, <3>3 DEF ResultComplete, Whole
  <2> QED BY <2>1, <2>2 DEF CallInv, Stages
<1> QED BY <1>1, CallInvHolds, PTL

(* HonestErrors: the host blames a wrong tag, an unknown curve or a        *)
(* malformed payload only when that is what happened, but for the causes   *)
(* the property names, whose codes are the same.                           *)
THEOREM ErrorsHonest == Spec => []HonestErrors
<1>1. CallInv => HonestErrors
  <2> SUFFICES ASSUME CallInv PROVE HonestErrors
    OBVIOUS
  <2> USE NoneAssumption
  <2>1. CASE stage \notin {"answered", "done"} \/ (stage = "done" /\ outcome = "ValueError")
    BY <2>1 DEF CallInv, Stages, HonestErrors, Outcomes
  <2>2. CASE /\ req \in Requests /\ Host(req).accepts /\ Answered(req, status, ans)
             /\ outcome \in {None, Verdict(req, ans)}
    <3>1. ans # None =>
            /\ ans.code = 2 => status = "TAG_MISMATCH"
                               \/ (status = None /\ (Excused(req) \/ Overruns(req)))
            /\ ans.code = 5 => status = "UNSUPPORTED_CURVE" \/ ans.busy \/ Overruns(req)
      BY <2>2, AnswerFacts DEF Says
    <3>2. /\ outcome = "tag mismatch" => ans # None /\ ans.code = 2 /\ req.cmd \in Aeads
          /\ outcome = "not supported" => ans # None /\ ans.code = 5 /\ req.cmd \in Ecc
      BY <2>2, VerdictFacts DEF Outcomes
    <3>3. Overruns(req) => req.cmd \notin Ecc
      BY DEF Overruns, Aeads, Ecc
    <3> QED BY <3>1, <3>2, <3>3 DEF HonestErrors, Excused, Aeads, Statuses
  <2> QED BY <2>1, <2>2 DEF CallInv, Stages
<1> QED BY <1>1, CallInvHolds, PTL

=============================================================================
