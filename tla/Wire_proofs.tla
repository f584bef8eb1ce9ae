------------------------------ MODULE Wire_proofs ------------------------------
(***************************************************************************)
(* Proofs about the coding of frames, for frames of every length and       *)
(* content and every size of a full block: the checksum is a 16-bit word,  *)
(* what either end's encoder writes is free of delimiters and is decoded   *)
(* to what it was, and each end's parser finds in it the frame the other   *)
(* end built.                                                              *)
(*                                                                         *)
(* Checksum, encoder and decoder are recursive functions on the positions  *)
(* of their input.  What they compute is proved by induction on positions, *)
(* for a property that is given as the set of positions that have it       *)
(* (InductionOnSet).  That such a function satisfies its equation is       *)
(* proved once, by building it prefix by prefix (FoldExists); the decoder, *)
(* which goes from the end to the start, needs its own (DecodingIs).       *)
(*                                                                         *)
(* Then comes a frame with one byte changed: a turn of the checksum's loop *)
(* maps different words to different words, so the change stays in the     *)
(* checksum to the end and both parsers refuse the frame.                  *)
(*                                                                         *)
(* The last section bounds the size of what is written: it fits into the   *)
(* arrays of the firmware.                                                 *)
(***************************************************************************)
EXTENDS FrameLine, SequenceTheorems, WellFoundedInduction, TLAPS

-----------------------------------------------------------------------------
(* Recursion.                                                              *)

Less == {p \in Nat \X Nat : p[1] < p[2]}

(* The order the induction goes by.                                        *)
LEMMA LessIsWellFounded == IsWellFoundedOn(Less, Nat)
<1>1. OpToRel(<, Nat) = Less
  BY DEF OpToRel, Less
<1> QED BY <1>1, NatLessThanWellFounded

(* Induction, for a property that is given as a set: a number outside S    *)
(* that has none below it cannot be.                                       *)
LEMMA InductionOnSet ==
    ASSUME NEW S, 0 \in S, \A n \in Nat : n \in S => n + 1 \in S
    PROVE  Nat \subseteq S
<1> DEFINE T == {n \in Nat : n \notin S}
<1>1. SUFFICES ASSUME T # {} PROVE FALSE
  OBVIOUS
<1>2. PICK x \in T : \A y \in T : <<y, x>> \notin Less
  <2>1. T \subseteq Nat
    OBVIOUS
  <2> HIDE DEF T
  <2> QED BY <1>1, <2>1, LessIsWellFounded, WFMin
<1>3. x - 1 \in Nat /\ <<x - 1, x>> \in Less
  BY DEF Less
<1>4. x - 1 \in S
  BY <1>2, <1>3
<1> QED BY <1>3, <1>4

(* g is the result of folding F over n steps from base, on values in T.    *)
Folds(g, base, F, n, T) ==
    \A i \in 0 .. n : IF i = 0 THEN g[i] = base
                      ELSE g[i - 1] \in T => g[i] = F[i][g[i - 1]]

(* Such a function stays in T, ...                                         *)
LEMMA FoldStays ==
    ASSUME NEW T, NEW base \in T, NEW n \in Nat, NEW F \in [1 .. n -> [T -> T]],
           NEW g, Folds(g, base, F, n, T)
    PROVE  \A i \in 0 .. n : g[i] \in T
<1> DEFINE S == {k \in Nat : k <= n => g[k] \in T}
<1>1. 0 \in S
  BY DEF Folds
<1>2. ASSUME NEW k \in Nat, k \in S PROVE k + 1 \in S
  <2>1. SUFFICES ASSUME k + 1 <= n PROVE g[k + 1] \in T
    OBVIOUS
  <2>2. F[k + 1] \in [T -> T] /\ g[k] \in T
    BY <1>2, <2>1
  <2>3. k + 1 \in 0 .. n /\ k + 1 # 0 /\ (k + 1) - 1 = k
    BY <2>1
  <2>4. g[k + 1] = F[k + 1][g[k]]
    BY <2>2, <2>3 DEF Folds
  <2> QED BY <2>2, <2>4
<1>3. Nat \subseteq S
  <2> HIDE DEF S
  <2> QED BY <1>1, <1>2, InductionOnSet
<1> QED BY <1>3

(* ... and there is one.                                                  *)
LEMMA FoldExists ==
    ASSUME NEW T, NEW base \in T, NEW n \in Nat, NEW F \in [1 .. n -> [T -> T]]
    PROVE  \E g \in [0 .. n -> T] : Folds(g, base, F, n, T)
<1> DEFINE S == {k \in Nat : k <= n => \E g \in [0 .. k -> T] : Folds(g, base, F, k, T)}
<1>1. 0 \in S
  <2> DEFINE g == [i \in 0 .. 0 |-> base]
  <2>1. g \in [0 .. 0 -> T] /\ Folds(g, base, F, 0, T)
    BY DEF Folds
  <2> QED BY <2>1
<1>2. ASSUME NEW k \in Nat, k \in S PROVE k + 1 \in S
  <2>1. SUFFICES ASSUME k + 1 <= n
                 PROVE  \E g \in [0 .. k + 1 -> T] : Folds(g, base, F, k + 1, T)
    OBVIOUS
  <2>2. PICK g \in [0 .. k -> T] : Folds(g, base, F, k, T)
    BY <1>2, <2>1
  <2> DEFINE h == [i \in 0 .. k + 1 |-> IF i = k + 1 THEN F[k + 1][g[k]] ELSE g[i]]
  <2>3. F[k + 1][g[k]] \in T
    <3>1. k + 1 \in 1 .. n /\ g[k] \in T
      BY <2>1
    <3>2. F[k + 1] \in [T -> T]
      BY <3>1
    <3> QED BY <3>1, <3>2
  <2>4. h \in [0 .. k + 1 -> T]
    BY <2>3
  <2>5. ASSUME NEW i \in 0 .. k + 1
        PROVE  h[i] = IF i = 0 THEN base ELSE F[i][h[i - 1]]
    <3>1. CASE i = k + 1
      BY <3>1
    <3>2. CASE i # k + 1
      <4>1. i \in 0 .. k /\ h[i] = g[i] /\ (i # 0 => i - 1 \in 0 .. k /\ h[i - 1] = g[i - 1])
        BY <3>2
      <4> QED BY <2>2, <4>1 DEF Folds
    <3> QED BY <3>1, <3>2
  <2> QED BY <2>4, <2>5 DEF Folds
<1>3. Nat \subseteq S
  <2> HIDE DEF S
  <2> QED BY <1>1, <1>2, InductionOnSet
<1> QED BY <1>3

-----------------------------------------------------------------------------
(* The checksum is a word.                                                 *)

WordSet == {w \in Nat : w \div 256 \in Byte}
First   == 255 * 256 + 255

(* Two bytes combined bit by bit give a byte.                              *)
LEMMA XorIsByte == ASSUME NEW a \in Nat, NEW b \in Nat PROVE XorByte(a, b) \in Byte
<1>1. \A w \in {1, 2, 4, 8, 16, 32, 64, 128} : Differ(a, b, w) \in 0 .. 1
  BY Z3 DEF Differ
<1> QED BY <1>1 DEF XorByte, Byte

(* Two words combined bit by bit give a word.                              *)
LEMMA XorIsWord == ASSUME NEW a \in Nat, NEW b \in Nat PROVE Xor(a, b) \in WordSet
<1>1. a \div 256 \in Nat /\ b \div 256 \in Nat /\ a % 256 \in Nat /\ b % 256 \in Nat
  BY Z3
<1>2. XorByte(a \div 256, b \div 256) \in Byte /\ XorByte(a % 256, b % 256) \in Byte
  BY <1>1, XorIsByte
<1> DEFINE u == XorByte(a \div 256, b \div 256)
           v == XorByte(a % 256, b % 256)
<1>3. u \in Byte /\ v \in Byte /\ Xor(a, b) = 256 * u + v
  BY <1>2 DEF Xor
<1> HIDE DEF u, v
<1>4. 256 * u + v \in Nat /\ (256 * u + v) \div 256 = u
  BY <1>3, SMT DEF Byte
<1> QED BY <1>3, <1>4 DEF WordSet

(* One turn of the inner loop of crc16_ccitt keeps crc a word.             *)
LEMMA ShiftIsWord == ASSUME NEW c \in WordSet PROVE ShiftBit(c) \in WordSet
<1>1. (c * 2) % (256 * 256) \in Nat /\ 16 * 256 + 33 \in Nat
  BY SMT DEF WordSet
<1>2. Xor((c * 2) % (256 * 256), 16 * 256 + 33) \in WordSet
  BY <1>1, XorIsWord
<1>3. c \div 256 < 128 => c * 2 \in WordSet
  BY SMT DEF WordSet, Byte
<1> QED BY <1>2, <1>3 DEF ShiftBit

(* One byte more keeps crc a word.                                         *)
LEMMA NextCrcIsWord ==
    ASSUME NEW c \in WordSet, NEW b \in Byte
    PROVE  NextCrc(c, b) \in WordSet
<1>1. c \in Nat /\ b * 256 \in Nat
  BY SMT DEF WordSet, Byte
<1>2. Xor(c, b * 256) \in WordSet
  BY <1>1, XorIsWord
<1> QED BY <1>2, ShiftIsWord DEF NextCrc, ShiftFour, ShiftTwo

(* The checksum of each prefix is what the definition says.                *)
LEMMA ChecksumsAre ==
    ASSUME NEW x \in Seq(Byte)
    PROVE  \A i \in 0 .. Len(x) :
               /\ Checksums(x)[i] \in WordSet
               /\ Checksums(x)[i] = IF i = 0 THEN First ELSE NextCrc(Checksums(x)[i - 1], x[i])
<1> DEFINE F == [i \in 1 .. Len(x) |-> [c \in WordSet |-> NextCrc(c, x[i])]]
           Is(g) == g = [i \in 0 .. Len(x) |-> IF i = 0 THEN First ELSE NextCrc(g[i - 1], x[i])]
<1>1. Len(x) \in Nat /\ First \in WordSet
  BY SMT DEF WordSet, First, Byte
<1>2. ASSUME NEW i \in 1 .. Len(x)
      PROVE  F[i] \in [WordSet -> WordSet] /\ \A c \in WordSet : F[i][c] = NextCrc(c, x[i])
  BY NextCrcIsWord
<1>3. F \in [1 .. Len(x) -> [WordSet -> WordSet]]
  BY <1>2
<1> HIDE DEF F
<1>4. PICK g \in [0 .. Len(x) -> WordSet] : Folds(g, First, F, Len(x), WordSet)
  BY <1>1, <1>3, FoldExists
<1>5. ASSUME NEW i \in 0 .. Len(x)
      PROVE  g[i] = IF i = 0 THEN First ELSE NextCrc(g[i - 1], x[i])
  <2>1. i # 0 => i \in 1 .. Len(x) /\ g[i - 1] \in WordSet
    OBVIOUS
  <2> QED BY <1>2, <1>4, <2>1 DEF Folds
<1>6. Is(g)
  BY <1>5
<1>7. Checksums(x) = CHOOSE f : Is(f)
  BY DEF Checksums, First
<1>8. Is(Checksums(x))
  <2> HIDE DEF Is
  <2> QED BY <1>6, <1>7
<1>9. \A i \in 0 .. Len(x) :
          Checksums(x)[i] = IF i = 0 THEN First ELSE NextCrc(Checksums(x)[i - 1], x[i])
  BY <1>8
<1>10. Folds(Checksums(x), First, F, Len(x), WordSet)
  BY <1>2, <1>9 DEF Folds
<1> QED BY <1>1, <1>3, <1>9, <1>10, FoldStays

(* crc16_ccitt of any bytes fits the 16 bits it is sent in.                *)
LEMMA ChecksumIsWord == ASSUME NEW x \in Seq(Byte) PROVE crc16_ccitt(x) \in WordSet
BY ChecksumsAre DEF crc16_ccitt

-----------------------------------------------------------------------------
(* Decoding.                                                               *)

Decoded == Seq(Byte) \cup {Bad}

(* What one position decodes to, given what those after it do.             *)
Body(e, i, From) ==
    IF i > Len(e) THEN <<>>
    ELSE LET next == i + e[i]
         IN IF e[i] = 0 \/ next > Len(e) + 1 THEN Bad
            ELSE IF From[next] = Bad THEN Bad
            ELSE Block(e, i, next) \o From[next]

(* A delimiter, and nothing, are bytes.                                    *)
LEMMA ZeroIsBytes == <<0>> \in Seq(Byte) /\ <<>> \in Seq(Byte)
BY DEF Byte

(* Bytes after bytes are bytes.                                            *)
LEMMA ConcatBytes == \A p \in Seq(Byte), q \in Seq(Byte) : p \o q \in Seq(Byte)
BY ConcatProperties

(* What a block decodes to is bytes.                                       *)
LEMMA BlockIsBytes ==
    ASSUME NEW e, NEW i, NEW next, SubSeq(e, i + 1, next - 1) \in Seq(Byte),
           Zero(e, i, next) \in Seq(Byte)
    PROVE  Block(e, i, next) \in Seq(Byte)
<1> DEFINE p == SubSeq(e, i + 1, next - 1)
           z == Zero(e, i, next)
<1>1. p \in Seq(Byte) /\ z \in Seq(Byte) /\ Block(e, i, next) = p \o z
  BY DEF Block
<1> HIDE DEF p, z
<1> QED BY <1>1, ConcatBytes

(* A code that stays within the input leads to a later position.           *)
LEMMA NextIs ==
    ASSUME NEW n \in Nat, NEW i \in 1 .. n, NEW c \in Byte, c # 0, ~(i + c > n + 1)
    PROVE  i + c \in i + 1 .. n + 1 /\ i + 1 \in 1 .. n + 1 /\ i + c - 1 \in 0 .. n
BY DEF Byte

(* The decoder, given results for the later positions, has one for this.   *)
LEMMA BodyIsDecoded ==
    ASSUME NEW e \in Seq(Byte), NEW i \in 1 .. Len(e) + 1, NEW From,
           \A j \in i + 1 .. Len(e) + 1 : From[j] \in Decoded
    PROVE  Body(e, i, From) \in Decoded
<1>1. CASE i > Len(e)
  BY <1>1 DEF Body, Decoded
<1>2. CASE i \in 1 .. Len(e) /\ (e[i] = 0 \/ i + e[i] > Len(e) + 1)
  <2>1. Body(e, i, From) = Bad
    <3>1. ~(i > Len(e))
      BY <1>2
    <3> QED BY <1>2, <3>1, Zenon DEF Body
  <2> QED BY <2>1 DEF Decoded
<1>3. CASE i \in 1 .. Len(e) /\ ~(e[i] = 0 \/ i + e[i] > Len(e) + 1)
  <2>1. Len(e) \in Nat /\ e[i] \in Byte
    BY <1>3
  <2> DEFINE next == i + e[i]
  <2>2. next \in i + 1 .. Len(e) + 1 /\ i + 1 \in 1 .. Len(e) + 1 /\ next - 1 \in 0 .. Len(e)
    BY <1>3, <2>1, NextIs
  <2>3. Body(e, i, From) = IF From[next] = Bad THEN Bad ELSE Block(e, i, next) \o From[next]
    <3>1. ~(i > Len(e))
      BY <1>3, <2>1
    <3> QED BY <1>3, <3>1, Zenon DEF Body
  <2> HIDE DEF next
  <2>4. CASE From[next] = Bad
    BY <2>3, <2>4 DEF Decoded
  <2>5. CASE From[next] # Bad
    <3>1. From[next] \in Seq(Byte)
      BY <2>2, <2>5 DEF Decoded
    <3>2. SubSeq(e, i + 1, next - 1) \in Seq(Byte)
      BY <2>2, SubSeqProperties
    <3>3. Zero(e, i, next) \in Seq(Byte)
      BY ZeroIsBytes DEF Zero
    <3>4. Block(e, i, next) \in Seq(Byte)
      BY <3>2, <3>3, BlockIsBytes
    <3> QED BY <2>3, <2>5, <3>1, <3>4, ConcatBytes, Zenon DEF Decoded
  <2> QED BY <2>4, <2>5
<1> QED BY <1>1, <1>2, <1>3

(* It looks at no other positions than the later ones.                     *)
LEMMA BodySame ==
    ASSUME NEW e \in Seq(Byte), NEW i \in 1 .. Len(e) + 1, NEW f, NEW g,
           \A j \in i + 1 .. Len(e) + 1 : f[j] = g[j]
    PROVE  Body(e, i, f) = Body(e, i, g)
<1>1. CASE i > Len(e)
  BY <1>1 DEF Body
<1>2. CASE i \in 1 .. Len(e) /\ (e[i] = 0 \/ i + e[i] > Len(e) + 1)
  BY <1>2 DEF Body
<1>3. CASE i \in 1 .. Len(e) /\ ~(e[i] = 0 \/ i + e[i] > Len(e) + 1)
  <2>1. e[i] \in Byte
    BY <1>3
  <2>2. i + e[i] \in i + 1 .. Len(e) + 1
    <3>1. Len(e) \in Nat
      OBVIOUS
    <3> QED BY <1>3, <2>1, <3>1, NextIs
  <2>3. f[i + e[i]] = g[i + e[i]]
    BY <2>2
  <2> QED BY <2>3 DEF Body
<1> QED BY <1>1, <1>2, <1>3

(* Every position of a sequence of bytes decodes to bytes or to Bad, as    *)
(* the definition says.                                                    *)
LEMMA DecodingIs ==
    ASSUME NEW e \in Seq(Byte)
    PROVE  \A i \in 1 .. Len(e) + 1 :
               /\ Decoding(e)[i] \in Decoded
               /\ Decoding(e)[i] = Body(e, i, Decoding(e))
<1> DEFINE n == Len(e)
           Is(g) == g = [i \in 1 .. n + 1 |-> Body(e, i, g)]
           S == {k \in Nat : k <= n => \E g \in [n + 1 - k .. n + 1 -> Decoded] :
                                \A i \in n + 1 - k .. n + 1 : g[i] = Body(e, i, g)}
<1>0. n \in Nat
  OBVIOUS
<1> HIDE DEF n
<1>1. 0 \in S
  <2> DEFINE g == [i \in n + 1 .. n + 1 |-> <<>>]
  <2>1. g \in [n + 1 .. n + 1 -> Decoded]
    BY DEF Decoded
  <2>2. Body(e, n + 1, g) = <<>>
    BY <1>0 DEF Body, n
  <2>3. \A i \in n + 1 .. n + 1 : g[i] = Body(e, i, g)
    <3>1. \A i \in n + 1 .. n + 1 : i = n + 1
      BY <1>0
    <3>2. g[n + 1] = <<>>
      BY <1>0
    <3> HIDE DEF g
    <3> QED BY <2>2, <3>1, <3>2
  <2>4. n + 1 - 0 = n + 1
    BY <1>0
  <2> HIDE DEF g
  <2> QED BY <2>1, <2>3, <2>4
<1>2. ASSUME NEW k \in Nat, k \in S PROVE k + 1 \in S
  <2> DEFINE m == n - k
  <2>1. SUFFICES ASSUME k + 1 <= n
                 PROVE  \E h \in [n + 1 - (k + 1) .. n + 1 -> Decoded] :
                            \A i \in n + 1 - (k + 1) .. n + 1 : h[i] = Body(e, i, h)
    OBVIOUS
  <2>2. m \in 1 .. n /\ n + 1 - k = m + 1 /\ n + 1 - (k + 1) = m
    BY <1>0, <2>1
  <2> HIDE DEF m
  <2>3. PICK g \in [m + 1 .. n + 1 -> Decoded] :
            \A i \in m + 1 .. n + 1 : g[i] = Body(e, i, g)
    BY <1>0, <1>2, <2>1, <2>2
  <2> DEFINE h == [i \in m .. n + 1 |-> IF i = m THEN Body(e, m, g) ELSE g[i]]
  <2>4. Body(e, m, g) \in Decoded
    BY <2>2, <2>3, BodyIsDecoded DEF n
  <2>5. h \in [m .. n + 1 -> Decoded]
    BY <1>0, <2>2, <2>3, <2>4
  <2>6. h[m] = Body(e, m, g) /\ \A i \in m + 1 .. n + 1 : h[i] = g[i]
    BY <1>0, <2>2
  <2> HIDE DEF h
  <2>7. ASSUME NEW i \in m .. n + 1 PROVE h[i] = Body(e, i, h)
    <3>1. i \in 1 .. Len(e) + 1 /\ \A j \in i + 1 .. Len(e) + 1 : h[j] = g[j]
      BY <1>0, <2>2, <2>6 DEF n
    <3>2. Body(e, i, h) = Body(e, i, g)
      BY <3>1, BodySame
    <3>3. i = m \/ i \in m + 1 .. n + 1
      BY <1>0, <2>2
    <3> QED BY <2>3, <2>6, <3>2, <3>3
  <2> QED BY <2>2, <2>5, <2>7
<1>3. Nat \subseteq S
  <2> HIDE DEF S
  <2> QED BY <1>1, <1>2, InductionOnSet
<1>4. \E g : Is(g)
  <2>1. n \in S
    <3> HIDE DEF S
    <3> QED BY <1>0, <1>3
  <2>3. n + 1 - n = 1
    BY <1>0
  <2>2. PICK g \in [1 .. n + 1 -> Decoded] : \A i \in 1 .. n + 1 : g[i] = Body(e, i, g)
    BY <1>0, <2>1, <2>3
  <2>4. g = [i \in 1 .. n + 1 |-> Body(e, i, g)]
    BY <2>2
  <2> QED BY <2>4
<1>5. Decoding(e) = CHOOSE g : Is(g)
  BY DEF Decoding, Body, n
<1>6. Is(Decoding(e))
  <2> HIDE DEF Is
  <2> QED BY <1>4, <1>5
<1>7. \A i \in 1 .. n + 1 : Decoding(e)[i] = Body(e, i, Decoding(e))
  BY <1>6
<1> DEFINE R == {k \in Nat : k <= n => \A i \in n + 1 - k .. n + 1 : Decoding(e)[i] \in Decoded}
<1>8. 0 \in R
  <2>1. Body(e, n + 1, Decoding(e)) = <<>>
    BY <1>0 DEF Body, n
  <2>2. \A i \in n + 1 - 0 .. n + 1 : i = n + 1 /\ i \in 1 .. n + 1
    BY <1>0
  <2>3. <<>> \in Decoded
    BY DEF Decoded
  <2> QED BY <1>7, <2>1, <2>2, <2>3
<1>9. ASSUME NEW k \in Nat, k \in R PROVE k + 1 \in R
  <2>1. SUFFICES ASSUME k + 1 <= n, NEW i \in n + 1 - (k + 1) .. n + 1
                 PROVE  Decoding(e)[i] \in Decoded
    OBVIOUS
  <2>2. i \in 1 .. n + 1
    BY <1>0, <2>1
  <2>3. i \in n + 1 - k .. n + 1 \/ \A j \in i + 1 .. n + 1 : j \in n + 1 - k .. n + 1
    BY <1>0, <2>1
  <2>4. CASE i \in n + 1 - k .. n + 1
    BY <1>0, <1>9, <2>1, <2>4
  <2>5. CASE \A j \in i + 1 .. n + 1 : j \in n + 1 - k .. n + 1
    <3>1. \A j \in i + 1 .. n + 1 : Decoding(e)[j] \in Decoded
      BY <1>0, <1>9, <2>1, <2>5
    <3>2. Body(e, i, Decoding(e)) \in Decoded
      BY <2>2, <3>1, BodyIsDecoded DEF n
    <3> QED BY <1>7, <2>2, <3>2
  <2> QED BY <2>3, <2>4, <2>5
<1>10. n \in R
  <2>1. Nat \subseteq R
    <3> HIDE DEF R
    <3> QED BY <1>8, <1>9, InductionOnSet
  <2> QED BY <1>0, <2>1
<1>11. \A i \in 1 .. n + 1 : i \in n + 1 - n .. n + 1
  BY <1>0
<1> QED BY <1>0, <1>7, <1>10, <1>11 DEF n

-----------------------------------------------------------------------------
(* Blocks.                                                                 *)

(* Sequences with the same bytes are the same.                             *)
LEMMA SameBytes ==
    ASSUME NEW p \in Seq(Byte), NEW q \in Seq(Byte), Len(p) = Len(q),
           \A i \in 1 .. Len(p) : p[i] = q[i]
    PROVE  p = q
OBVIOUS

(* A sequence is its first part and its second part.                       *)
LEMMA Glue ==
    ASSUME NEW p \in Seq(Byte), NEW b \in Seq(Byte), NEW w \in Seq(Byte),
           Len(w) = Len(p) + Len(b),
           \A j \in 1 .. Len(p) : w[j] = p[j],
           \A j \in 1 .. Len(b) : w[Len(p) + j] = b[j]
    PROVE  p \o b = w
<1>1. /\ p \o b \in Seq(Byte)
      /\ Len(p \o b) = Len(p) + Len(b)
      /\ \A j \in 1 .. Len(p) + Len(b) : (p \o b)[j] = IF j <= Len(p) THEN p[j] ELSE b[j - Len(p)]
  BY ConcatProperties
<1>2. Len(p) \in Nat /\ Len(b) \in Nat
  OBVIOUS
<1>3. ASSUME NEW j \in 1 .. Len(p) + Len(b) PROVE (p \o b)[j] = w[j]
  <2>1. CASE j <= Len(p)
    BY <1>1, <1>2, <2>1
  <2>2. CASE j > Len(p)
    <3>1. j - Len(p) \in 1 .. Len(b) /\ Len(p) + (j - Len(p)) = j
      BY <1>2, <2>2
    <3>2. (p \o b)[j] = b[j - Len(p)]
      BY <1>1, <1>2, <2>2
    <3>3. w[Len(p) + (j - Len(p))] = b[j - Len(p)]
      BY <3>1
    <3> QED BY <3>1, <3>2, <3>3
  <2> QED BY <1>2, <2>1, <2>2
<1> QED BY <1>1, <1>3, SameBytes

(* Three parts can be put together in either order.                        *)
LEMMA BytesAssociate ==
    ASSUME NEW p \in Seq(Byte), NEW q \in Seq(Byte), NEW r \in Seq(Byte)
    PROVE  p \o (q \o r) = (p \o q) \o r
<1> DEFINE b == q \o r
           l == p \o q
           w == l \o r
<1>1. /\ b \in Seq(Byte)
      /\ Len(b) = Len(q) + Len(r)
      /\ \A j \in 1 .. Len(q) + Len(r) : b[j] = IF j <= Len(q) THEN q[j] ELSE r[j - Len(q)]
  BY ConcatProperties
<1>2. /\ l \in Seq(Byte)
      /\ Len(l) = Len(p) + Len(q)
      /\ \A j \in 1 .. Len(p) + Len(q) : l[j] = IF j <= Len(p) THEN p[j] ELSE q[j - Len(p)]
  BY ConcatProperties
<1> HIDE DEF b, l
<1>3. /\ w \in Seq(Byte)
      /\ Len(w) = Len(l) + Len(r)
      /\ \A j \in 1 .. Len(l) + Len(r) : w[j] = IF j <= Len(l) THEN l[j] ELSE r[j - Len(l)]
  <2>1. l \in Seq(Byte)
    BY <1>2
  <2> QED BY <2>1, ConcatProperties
<1> HIDE DEF w
<1>4. Len(p) \in Nat /\ Len(q) \in Nat /\ Len(r) \in Nat
  OBVIOUS
<1>5. Len(w) = Len(p) + Len(b)
  BY <1>1, <1>2, <1>3, <1>4
<1>6. ASSUME NEW j \in 1 .. Len(p) PROVE w[j] = p[j]
  BY <1>2, <1>3, <1>4
<1>7. ASSUME NEW j \in 1 .. Len(b) PROVE w[Len(p) + j] = b[j]
  <2>1. CASE j <= Len(q)
    <3>1. b[j] = q[j]
      BY <1>1, <1>4, <2>1
    <3>2. w[Len(p) + j] = l[Len(p) + j]
      BY <1>2, <1>3, <1>4, <2>1
    <3>3. l[Len(p) + j] = q[(Len(p) + j) - Len(p)] /\ (Len(p) + j) - Len(p) = j
      <4>1. Len(p) + j \in 1 .. Len(p) + Len(q) /\ ~(Len(p) + j <= Len(p))
        BY <1>4, <2>1
      <4>2. (Len(p) + j) - Len(p) = j
        BY <1>4
      <4> QED BY <1>2, <4>1, <4>2
    <3> QED BY <3>1, <3>2, <3>3
  <2>2. CASE j > Len(q)
    <3>1. b[j] = r[j - Len(q)]
      BY <1>1, <1>4, <2>2
    <3>2. w[Len(p) + j] = r[(Len(p) + j) - Len(l)]
      <4>1. Len(p) + j \in 1 .. Len(l) + Len(r) /\ ~(Len(p) + j <= Len(l))
        BY <1>1, <1>2, <1>4, <2>2
      <4> QED BY <1>3, <4>1
    <3>3. (Len(p) + j) - Len(l) = j - Len(q)
      BY <1>2, <1>4
    <3> QED BY <3>1, <3>2, <3>3
  <2> QED BY <1>4, <2>1, <2>2
<1>8. p \o b = w
  BY <1>1, <1>3, <1>5, <1>6, <1>7, Glue
<1> QED BY <1>8 DEF b, w, l

Zeros(e, a, next) == IF e[a] # FullCode /\ next <= Len(e) THEN 1 ELSE 0

(* What a block decodes to: its bytes, and a zero unless it is full or the *)
(* last.                                                                   *)
LEMMA BlockHas ==
    ASSUME NEW e \in Seq(Byte), NEW a \in 1 .. Len(e), NEW next \in a + 1 .. Len(e) + 1,
           a + e[a] = next
    PROVE  /\ Block(e, a, next) \in Seq(Byte)
           /\ Len(Block(e, a, next)) = e[a] - 1 + Zeros(e, a, next)
           /\ \A j \in 1 .. e[a] - 1 : Block(e, a, next)[j] = e[a + j]
           /\ Zeros(e, a, next) = 1 => Block(e, a, next)[e[a]] = 0
<1> DEFINE p == SubSeq(e, a + 1, next - 1)
           z == Zero(e, a, next)
<1> DEFINE c == e[a]
<1>1. Len(e) \in Nat /\ c \in 1 .. 255 /\ next = a + c
  BY DEF Byte
<1> HIDE DEF c
<1>2. a + 1 \in 1 .. Len(e) + 1 /\ next - 1 \in a .. Len(e) /\ next - 1 = a + (c - 1)
  BY <1>1
<1>3. /\ p \in Seq(Byte)
      /\ Len(p) = c - 1
      /\ \A j \in 1 .. c - 1 : p[j] = e[a + j]
  <2>1. /\ p \in Seq(Byte)
        /\ Len(p) = IF a + 1 <= next - 1 THEN (next - 1) - (a + 1) + 1 ELSE 0
        /\ \A j \in 1 .. (next - 1) - (a + 1) + 1 : p[j] = e[(a + 1) + j - 1]
    BY <1>1, <1>2, SubSeqProperties
  <2> HIDE DEF p
  <2>2. (next - 1) - (a + 1) + 1 = c - 1 /\ (a + 1 <= next - 1 <=> c - 1 >= 1)
    BY <1>1, <1>2
  <2>3. \A j \in 1 .. c - 1 : (a + 1) + j - 1 = a + j
    BY <1>1
  <2> QED BY <2>1, <2>2, <2>3
<1>4. z \in Seq(Byte) /\ Len(z) = Zeros(e, a, next) /\ (Len(z) = 1 => z[1] = 0)
  BY ZeroIsBytes DEF Zero, Zeros
<1>5. Block(e, a, next) = p \o z
  BY DEF Block
<1> HIDE DEF p, z
<1>6. /\ p \o z \in Seq(Byte)
      /\ Len(p \o z) = Len(p) + Len(z)
      /\ \A j \in 1 .. Len(p) + Len(z) : (p \o z)[j] = IF j <= Len(p) THEN p[j] ELSE z[j - Len(p)]
  BY <1>3, <1>4, ConcatProperties
<1>7. ASSUME NEW j \in 1 .. c - 1 PROVE (p \o z)[j] = e[a + j]
  BY <1>3, <1>4, <1>6
<1>8. ASSUME Zeros(e, a, next) = 1 PROVE (p \o z)[c] = 0
  <2>1. Len(p) = c - 1 /\ Len(z) = 1 /\ z[1] = 0 /\ c \in Nat /\ c >= 1
    BY <1>1, <1>3, <1>4, <1>8
  <2>2. c \in 1 .. Len(p) + Len(z) /\ ~(c <= Len(p)) /\ c - Len(p) = 1
    BY <2>1
  <2>3. (p \o z)[c] = z[c - Len(p)]
    BY <1>6, <2>2
  <2> QED BY <2>1, <2>2, <2>3
<1> QED BY <1>3, <1>4, <1>5, <1>6, <1>7, <1>8 DEF c

(* A decoding starts with the first block's.                               *)
LEMMA BlockDecodes ==
    ASSUME NEW e \in Seq(Byte), NEW a \in 1 .. Len(e), NEW next \in a + 1 .. Len(e) + 1,
           a + e[a] = next, Decoding(e)[next] # Bad
    PROVE  /\ Decoding(e)[next] \in Seq(Byte)
           /\ Decoding(e)[a] = Block(e, a, next) \o Decoding(e)[next]
           /\ Decoding(e)[a] \in Seq(Byte)
<1>1. Len(e) \in Nat /\ next \in 1 .. Len(e) + 1 /\ a \in 1 .. Len(e) + 1 /\ e[a] \in Byte
  OBVIOUS
<1>2. Decoding(e)[next] \in Seq(Byte)
  BY <1>1, DecodingIs DEF Decoded
<1>3. Decoding(e)[a] = Body(e, a, Decoding(e))
  BY <1>1, DecodingIs
<1>4. Body(e, a, Decoding(e)) = Block(e, a, next) \o Decoding(e)[next]
  <2>1. ~(a > Len(e)) /\ e[a] # 0 /\ ~(next > Len(e) + 1) /\ a + e[a] = next
    BY <1>1 DEF Byte
  <2> QED BY <2>1, Zenon DEF Body
<1>5. Block(e, a, next) \in Seq(Byte)
  BY BlockHas
<1> QED BY <1>2, <1>3, <1>4, <1>5, ConcatBytes

(* What is decoded up to a block, followed by that block, is decoded up    *)
(* to the next.                                                            *)
LEMMA Continues ==
    ASSUME NEW e \in Seq(Byte), NEW a \in 1 .. Len(e), NEW next \in a + 1 .. Len(e) + 1,
           a + e[a] = next, Decoding(e)[next] # Bad,
           NEW p \in Seq(Byte),
           Decoding(e)[a] # Bad => Decoding(e)[1] = p \o Decoding(e)[a]
    PROVE  Decoding(e)[1] = (p \o Block(e, a, next)) \o Decoding(e)[next]
<1>0. /\ Decoding(e)[next] \in Seq(Byte)
      /\ Decoding(e)[a] = Block(e, a, next) \o Decoding(e)[next]
      /\ Decoding(e)[a] \in Seq(Byte)
  BY BlockDecodes
<1> DEFINE b == Block(e, a, next)
           r == Decoding(e)[next]
           q == Decoding(e)[a]
<1>1. r \in Seq(Byte) /\ q = b \o r /\ q \in Seq(Byte)
  BY <1>0, Zenon
<1>2. b \in Seq(Byte)
  <2> HIDE DEF b
  <2> QED BY BlockHas DEF b
<1> HIDE DEF b, r, q
<1>3. Decoding(e)[1] = p \o (b \o r)
  <2>1. Bad \notin Seq(Byte)
    BY DEF Bad, Byte
  <2>2. q # Bad
    BY <1>1, <2>1
  <2>3. Decoding(e)[1] = p \o q
    BY <2>2, Zenon DEF q
  <2> QED BY <1>1, <2>3, Zenon
<1>4. p \o (b \o r) = (p \o b) \o r
  BY <1>1, <1>2, BytesAssociate
<1> QED BY <1>3, <1>4, Zenon DEF r, b

-----------------------------------------------------------------------------
(* The encoder of the firmware.                                            *)

(* The block that is being written begins with the one zero there is, in   *)
(* the place of its code.                                                  *)
Blocks ==
    {s \in [out : Seq(Byte), at : Nat, code : Nat] :
        /\ s.at \in 1 .. Len(s.out) /\ s.code = Len(s.out) - s.at + 1 /\ s.code <= FullCode
        /\ \A j \in 1 .. Len(s.out) : s.out[j] = 0 <=> j = s.at}

Encoders == {s \in Blocks : s.code < FullCode}

(* A code up to FullCode is a byte that is not zero.                       *)
LEMMA CodeIsByte ==
    ASSUME NEW n \in Nat, NEW a \in 1 .. n, NEW c \in Nat, c = n - a + 1, c <= FullCode
    PROVE  c \in 1 .. 255 /\ c \in Byte /\ c # 0
BY FullCodeAssumption DEF Byte

(* The fields of an encoder in the middle of a block.                      *)
LEMMA BlocksHave ==
    ASSUME NEW s \in Blocks
    PROVE  /\ s.out \in Seq(Byte) /\ Len(s.out) \in Nat /\ s.at \in 1 .. Len(s.out)
           /\ s.code \in 1 .. 255 /\ s.code \in Byte /\ s.code # 0
           /\ s.code <= FullCode /\ s.code = Len(s.out) - s.at + 1
           /\ \A j \in 1 .. Len(s.out) : s.out[j] = 0 <=> j = s.at
<1>1. /\ s.out \in Seq(Byte) /\ Len(s.out) \in Nat /\ s.at \in 1 .. Len(s.out) /\ s.code \in Nat
      /\ s.code <= FullCode /\ s.code = Len(s.out) - s.at + 1
  BY DEF Blocks
<1>2. s.code \in 1 .. 255 /\ s.code \in Byte /\ s.code # 0
  BY <1>1, CodeIsByte
<1>3. \A j \in 1 .. Len(s.out) : s.out[j] = 0 <=> j = s.at
  BY Zenon DEF Blocks
<1> QED BY <1>1, <1>2, <1>3

(* Fields that make such an encoder.                                       *)
LEMMA BlocksMade ==
    ASSUME NEW o \in Seq(Byte), NEW a \in 1 .. Len(o), NEW c \in Nat, c = Len(o) - a + 1,
           c <= FullCode, \A j \in 1 .. Len(o) : o[j] = 0 <=> j = a
    PROVE  [out |-> o, at |-> a, code |-> c] \in Blocks
<1> DEFINE s == [out |-> o, at |-> a, code |-> c]
<1>1. a \in Nat
  OBVIOUS
<1>2. s \in [out : Seq(Byte), at : Nat, code : Nat]
  BY <1>1
<1>3. s.out = o /\ s.at = a /\ s.code = c
  OBVIOUS
<1> HIDE DEF s
<1> QED BY <1>2, <1>3, Zenon DEF Blocks

(* A block ends.                                                           *)
LEMMA CloseHas ==
    ASSUME NEW s \in Blocks
    PROVE  /\ CloseBlock(s) \in Encoders
           /\ CloseBlock(s).at = Len(s.out) + 1 /\ CloseBlock(s).code = 1
           /\ Len(CloseBlock(s).out) = Len(s.out) + 1
           /\ \A j \in 1 .. Len(s.out) :
                  CloseBlock(s).out[j] = IF j = s.at THEN s.code ELSE s.out[j]
<1> DEFINE o == [s.out EXCEPT ![s.at] = s.code]
           u == CloseBlock(s)
<1>1. /\ s.out \in Seq(Byte) /\ Len(s.out) \in Nat /\ s.at \in 1 .. Len(s.out)
      /\ s.code \in 1 .. 255 /\ s.code \in Byte /\ s.code # 0
      /\ \A j \in 1 .. Len(s.out) : s.out[j] = 0 <=> j = s.at
  BY BlocksHave
<1>2. Len(s.out) \in Nat /\ FullCode \in 2 .. 255
  BY <1>1, FullCodeAssumption
<1>3. s.code \in Byte /\ s.code # 0
  BY <1>1
<1>4. /\ o \in Seq(Byte) /\ Len(o) = Len(s.out)
      /\ \A j \in 1 .. Len(s.out) : o[j] = IF j = s.at THEN s.code ELSE s.out[j]
  BY <1>1, <1>3
<1>5. u = [out |-> Append(o, 0), at |-> Len(s.out) + 1, code |-> 1]
  BY DEF CloseBlock
<1> HIDE DEF o
<1>6. /\ Append(o, 0) \in Seq(Byte) /\ Len(Append(o, 0)) = Len(s.out) + 1
      /\ Append(o, 0)[Len(s.out) + 1] = 0
      /\ \A j \in 1 .. Len(s.out) : Append(o, 0)[j] = IF j = s.at THEN s.code ELSE s.out[j]
  <2>1. 0 \in Byte
    BY DEF Byte
  <2> QED BY <1>2, <1>4, <2>1
<1>7. \A j \in 1 .. Len(s.out) + 1 : Append(o, 0)[j] = 0 <=> j = Len(s.out) + 1
  <2>1. ASSUME NEW j \in 1 .. Len(s.out) PROVE Append(o, 0)[j] # 0
    BY <1>1, <1>3, <1>6
  <2> QED BY <1>2, <1>6, <2>1
<1>8. u \in Encoders
  <2> DEFINE q == Append(o, 0)
  <2>1. q \in Seq(Byte) /\ Len(q) = Len(s.out) + 1
        /\ \A j \in 1 .. Len(s.out) + 1 : q[j] = 0 <=> j = Len(s.out) + 1
    BY <1>6, <1>7
  <2> HIDE DEF q
  <2>2. Len(s.out) + 1 \in 1 .. Len(q) /\ 1 = Len(q) - (Len(s.out) + 1) + 1 /\ 1 < FullCode
    BY <1>2, <2>1
  <2> DEFINE a == Len(s.out) + 1
  <2>3. a \in 1 .. Len(q) /\ 1 = Len(q) - a + 1 /\ 1 <= FullCode /\ 1 \in Nat
        /\ \A j \in 1 .. Len(q) : q[j] = 0 <=> j = a
    BY <1>2, <2>1, <2>2
  <2> HIDE DEF a
  <2>4. [out |-> q, at |-> a, code |-> 1] \in Blocks
    BY <2>1, <2>3, BlocksMade
  <2> QED BY <1>5, <2>2, <2>4 DEF Encoders, q, a
<1> QED BY <1>5, <1>6, <1>8

(* A block takes another byte.                                             *)
TakeByte(s, byte) == [out |-> Append(s.out, byte), at |-> s.at, code |-> s.code + 1]

(* A byte joins the block.                                                 *)
LEMMA TakeHas ==
    ASSUME NEW s \in Encoders, NEW b \in Byte, b # 0
    PROVE  /\ TakeByte(s, b) \in Blocks
           /\ TakeByte(s, b).at = s.at /\ TakeByte(s, b).code = s.code + 1
           /\ Len(TakeByte(s, b).out) = Len(s.out) + 1
           /\ TakeByte(s, b).out[Len(s.out) + 1] = b
           /\ \A j \in 1 .. Len(s.out) : TakeByte(s, b).out[j] = s.out[j]
<1> DEFINE o == Append(s.out, b)
<1>1. /\ s.out \in Seq(Byte) /\ Len(s.out) \in Nat /\ s.at \in 1 .. Len(s.out)
      /\ s.code \in 1 .. 255 /\ s.code = Len(s.out) - s.at + 1
      /\ \A j \in 1 .. Len(s.out) : s.out[j] = 0 <=> j = s.at
  BY BlocksHave DEF Encoders
<1>2. s.code < FullCode /\ FullCode \in 2 .. 255 /\ s \in [out : Seq(Byte), at : Nat, code : Nat]
  BY FullCodeAssumption DEF Encoders, Blocks
<1>3. /\ o \in Seq(Byte) /\ Len(o) = Len(s.out) + 1 /\ o[Len(s.out) + 1] = b
      /\ \A j \in 1 .. Len(s.out) : o[j] = s.out[j]
  BY <1>1
<1> HIDE DEF o
<1>4. TakeByte(s, b) = [out |-> o, at |-> s.at, code |-> s.code + 1]
  BY DEF TakeByte, o
<1>5. \A j \in 1 .. Len(s.out) + 1 : o[j] = 0 <=> j = s.at
  <2>1. Len(s.out) + 1 # s.at
    BY <1>1
  <2>2. ASSUME NEW j \in 1 .. Len(s.out) PROVE o[j] = 0 <=> j = s.at
    BY <1>1, <1>3
  <2>3. ASSUME NEW j \in 1 .. Len(s.out) + 1 PROVE j \in 1 .. Len(s.out) \/ j = Len(s.out) + 1
    BY <1>1
  <2> QED BY <1>3, <2>1, <2>2, <2>3
<1>6. /\ s.at \in 1 .. Len(o) /\ s.code + 1 = Len(o) - s.at + 1 /\ s.code + 1 <= FullCode
      /\ s.code + 1 \in Nat
  BY <1>1, <1>2, <1>3
<1>7. TakeByte(s, b) \in Blocks
  BY <1>3, <1>4, <1>5, <1>6, BlocksMade
<1> QED BY <1>3, <1>4, <1>7

(* EncodeByte by cases: a zero, the byte that fills a block, any other.    *)
LEMMA EncodeByteCases ==
    ASSUME NEW s \in Encoders, NEW b \in Byte
    PROVE  EncodeByte(s, b) = IF b = 0 THEN CloseBlock(s)
                              ELSE IF s.code + 1 = FullCode THEN CloseBlock(TakeByte(s, b))
                              ELSE TakeByte(s, b)
<1>1. CASE b = 0
  BY <1>1 DEF EncodeByte
<1>2. CASE b # 0
  <2>1. TakeByte(s, b).code = s.code + 1
    BY <1>2, TakeHas
  <2> QED BY <1>2, <2>1, Zenon DEF EncodeByte, TakeByte
<1> QED BY <1>1, <1>2

(* A byte keeps the encoder's only zero at the code still to be written.   *)
LEMMA EncoderStays ==
    ASSUME NEW s \in Encoders, NEW b \in Byte
    PROVE  EncodeByte(s, b) \in Encoders
<1>1. s \in Blocks
  BY DEF Encoders
<1>2. CASE b = 0
  BY <1>1, <1>2, EncodeByteCases, CloseHas
<1>3. CASE b # 0 /\ s.code + 1 = FullCode
  <2>1. TakeByte(s, b) \in Blocks
    BY <1>3, TakeHas
  <2> QED BY <1>3, <2>1, EncodeByteCases, CloseHas
<1>4. CASE b # 0 /\ s.code + 1 # FullCode
  <2>1. TakeByte(s, b) \in Blocks /\ TakeByte(s, b).code = s.code + 1
    BY <1>4, TakeHas
  <2>2. s.code \in Nat /\ s.code < FullCode
    BY DEF Encoders, Blocks
  <2>3. TakeByte(s, b).code < FullCode
    BY <1>4, <2>1, <2>2, FullCodeAssumption
  <2>4. TakeByte(s, b) \in Encoders
    BY <2>1, <2>3 DEF Encoders
  <2> QED BY <1>4, <2>4, EncodeByteCases
<1> QED BY <1>2, <1>3, <1>4

EncoderStart == [out |-> <<0>>, at |-> 1, code |-> 1]

(* The encoder starts in such a state.                                     *)
LEMMA EncoderStarts == EncoderStart \in Encoders
<1> DEFINE o == <<0>>
<1>1. o \in Seq(Byte) /\ Len(o) = 1 /\ o[1] = 0
  BY ZeroIsBytes
<1> HIDE DEF o
<1>2. 1 \in 1 .. Len(o) /\ 1 = Len(o) - 1 + 1 /\ 1 < FullCode /\ 1 <= FullCode
      /\ \A j \in 1 .. Len(o) : o[j] = 0 <=> j = 1
  BY <1>1, FullCodeAssumption
<1>3. [out |-> o, at |-> 1, code |-> 1] \in Blocks
  BY <1>1, <1>2, BlocksMade
<1> QED BY <1>2, <1>3 DEF EncoderStart, Encoders, o

(* The encoder's state after each prefix is what the definition says.      *)
LEMMA EncodingIs ==
    ASSUME NEW x \in Seq(Byte)
    PROVE  \A i \in 0 .. Len(x) :
               /\ Encoding(x)[i] \in Encoders
               /\ Encoding(x)[i] = IF i = 0 THEN EncoderStart
                                   ELSE EncodeByte(Encoding(x)[i - 1], x[i])
<1> DEFINE F == [i \in 1 .. Len(x) |-> [s \in Encoders |-> EncodeByte(s, x[i])]]
           Is(g) == g = [i \in 0 .. Len(x) |-> IF i = 0 THEN EncoderStart
                                               ELSE EncodeByte(g[i - 1], x[i])]
<1>1. Len(x) \in Nat /\ EncoderStart \in Encoders
  BY EncoderStarts
<1>2. ASSUME NEW i \in 1 .. Len(x)
      PROVE  F[i] \in [Encoders -> Encoders] /\ \A s \in Encoders : F[i][s] = EncodeByte(s, x[i])
  BY EncoderStays
<1>3. F \in [1 .. Len(x) -> [Encoders -> Encoders]]
  BY <1>2
<1> HIDE DEF F
<1>4. PICK g \in [0 .. Len(x) -> Encoders] : Folds(g, EncoderStart, F, Len(x), Encoders)
  BY <1>1, <1>3, FoldExists
<1>5. ASSUME NEW i \in 0 .. Len(x)
      PROVE  g[i] = IF i = 0 THEN EncoderStart ELSE EncodeByte(g[i - 1], x[i])
  <2>1. i # 0 => i \in 1 .. Len(x) /\ g[i - 1] \in Encoders
    OBVIOUS
  <2> QED BY <1>2, <1>4, <2>1 DEF Folds
<1>6. Is(g)
  BY <1>5
<1>7. Encoding(x) = CHOOSE f : Is(f)
  BY DEF Encoding, EncoderStart
<1>8. Is(Encoding(x))
  <2> HIDE DEF Is
  <2> QED BY <1>6, <1>7
<1>9. \A i \in 0 .. Len(x) :
          Encoding(x)[i] = IF i = 0 THEN EncoderStart ELSE EncodeByte(Encoding(x)[i - 1], x[i])
  BY <1>8
<1>10. Folds(Encoding(x), EncoderStart, F, Len(x), Encoders)
  BY <1>2, <1>9 DEF Folds
<1> QED BY <1>1, <1>3, <1>9, <1>10, FoldStays

(* What has been written of y: all but the bytes of the block that is      *)
(* being written, which d of them precede; whatever follows the written    *)
(* part, decoding yields those d.                                          *)
Carries(s, y, d) ==
    /\ d \in 0 .. Len(y) /\ Len(y) = d + (s.code - 1)
    /\ \A j \in 1 .. s.code - 1 : y[d + j] = s.out[s.at + j]
    /\ \A e \in Seq(Byte) :
           /\ s.at <= Len(e)
           /\ \A j \in 1 .. s.at - 1 : e[j] = s.out[j]
           /\ Decoding(e)[s.at] # Bad
           => Decoding(e)[1] = SubSeq(y, 1, d) \o Decoding(e)[s.at]

(* A prefix has the bytes it is cut from.                                  *)
LEMMA PrefixHas ==
    ASSUME NEW y \in Seq(Byte), NEW d \in 0 .. Len(y)
    PROVE  /\ SubSeq(y, 1, d) \in Seq(Byte) /\ Len(SubSeq(y, 1, d)) = d
           /\ \A j \in 1 .. d : SubSeq(y, 1, d)[j] = y[j]
OBVIOUS

(* The same bytes have the same prefix.                                    *)
LEMMA PrefixSame ==
    ASSUME NEW y \in Seq(Byte), NEW w \in Seq(Byte), NEW d, d \in 0 .. Len(y), d \in 0 .. Len(w),
           \A j \in 1 .. d : w[j] = y[j]
    PROVE  SubSeq(w, 1, d) = SubSeq(y, 1, d)
<1> DEFINE u == SubSeq(w, 1, d)
           v == SubSeq(y, 1, d)
<1>1. /\ u \in Seq(Byte) /\ Len(u) = d /\ \A j \in 1 .. d : u[j] = w[j]
      /\ v \in Seq(Byte) /\ Len(v) = d /\ \A j \in 1 .. d : v[j] = y[j]
  BY PrefixHas
<1> HIDE DEF u, v
<1>2. u = v
  BY <1>1, SameBytes
<1> QED BY <1>2 DEF u, v

(* The longest prefix is the whole.                                        *)
LEMMA WholePrefix == ASSUME NEW y \in Seq(Byte) PROVE SubSeq(y, 1, Len(y)) = y
<1>1. Len(y) \in 0 .. Len(y)
  OBVIOUS
<1>2. SubSeq(y, 1, Len(y)) \in Seq(Byte) /\ Len(SubSeq(y, 1, Len(y))) = Len(y)
      /\ \A j \in 1 .. Len(y) : SubSeq(y, 1, Len(y))[j] = y[j]
  BY <1>1, PrefixHas
<1> HIDE <1>1
<1> QED BY <1>2, SameBytes

(* A block of code c at a is the last of n bytes, and d of m bytes precede *)
(* what it stands for.                                                     *)
Sized(n, a, c, m, d) ==
    /\ n \in Nat /\ a \in 1 .. n /\ c \in 1 .. 255 /\ c = n - a + 1
    /\ m \in Nat /\ d \in 0 .. m /\ m = d + (c - 1)

Located(n, a, c, m, d) ==
    /\ \A j \in 1 .. c - 1 : d + j \in 1 .. m /\ a + j \in 1 .. n /\ a + j # a
    /\ \A j \in 1 .. a - 1 : j \in 1 .. n /\ j # a
    /\ \A j \in 1 .. c : ~(j <= c - 1) => j = c
    /\ a + c = n + 1 /\ d + c = m + 1 /\ d \in 0 .. m + 1 /\ m + 1 = d + ((c + 1) - 1)
    /\ (c + 1) - 1 = c

(* The positions that follow from the sizes of a block.                    *)
LEMMA SizedLocated ==
    ASSUME NEW n, NEW a, NEW c, NEW m, NEW d, Sized(n, a, c, m, d)
    PROVE  Located(n, a, c, m, d)
BY DEF Sized, Located

(* w is y, and a zero if z is one.                                         *)
Longer(w, y, z) ==
    /\ Len(w) = Len(y) + z
    /\ \A j \in 1 .. Len(y) : w[j] = y[j]
    /\ z = 1 => w[Len(w)] = 0

(* The block of code c that begins in e at a is what follows d bytes of y, *)
(* and these are what is decoded before it.                                *)
Stands(e, a, c, y, d) ==
    /\ e[a] = c
    /\ \A j \in 1 .. c - 1 : y[d + j] = e[a + j]
    /\ Decoding(e)[a] # Bad => Decoding(e)[1] = SubSeq(y, 1, d) \o Decoding(e)[a]

(* A block that stands in e, behind what decodes to a prefix of y, adds    *)
(* its bytes.                                                              *)
LEMMA BlockRead ==
    ASSUME NEW e \in Seq(Byte), NEW y \in Seq(Byte), NEW n, NEW a, NEW c, NEW d,
           Sized(n, a, c, Len(y), d), n <= Len(e), Stands(e, a, c, y, d),
           Decoding(e)[n + 1] # Bad,
           NEW w \in Seq(Byte), Longer(w, y, Zeros(e, a, n + 1))
    PROVE  Decoding(e)[1] = w \o Decoding(e)[n + 1]
<1> DEFINE next == n + 1
           p == SubSeq(y, 1, d)
           b == Block(e, a, next)
           z == Zeros(e, a, next)
<1>1. /\ n \in Nat /\ a \in 1 .. n /\ c \in 1 .. 255 /\ c = n - a + 1
      /\ d \in 0 .. Len(y) /\ Len(y) = d + (c - 1)
  BY DEF Sized
<1>2. Len(e) \in Nat /\ n <= Len(e) /\ Len(y) \in Nat /\ z \in 0 .. 1
  BY DEF Zeros
<1>3. /\ \A j \in 1 .. c - 1 : d + j \in 1 .. Len(y)
      /\ \A j \in 1 .. c : ~(j <= c - 1) => j = c
      /\ a + c = n + 1 /\ d + c = Len(y) + 1
  <2>1. Located(n, a, c, Len(y), d)
    BY SizedLocated
  <2> QED BY <2>1, Zenon DEF Located
<1>4. /\ p \in Seq(Byte) /\ Len(p) = d /\ \A j \in 1 .. d : p[j] = y[j]
  BY <1>1, PrefixHas
<1>5. /\ Decoding(e)[a] # Bad => Decoding(e)[1] = p \o Decoding(e)[a]
      /\ e[a] = c /\ \A j \in 1 .. c - 1 : y[d + j] = e[a + j]
  BY Zenon DEF Stands
<1>6. a \in 1 .. Len(e) /\ next \in a + 1 .. Len(e) + 1 /\ a + e[a] = next
  <2>1. a \in 1 .. Len(e) /\ n + 1 \in a + 1 .. Len(e) + 1
    BY <1>1, <1>2
  <2> QED BY <1>3, <1>5, <2>1
<1>7. Decoding(e)[next] # Bad
  OBVIOUS
<1>8. Len(w) = Len(y) + z /\ (\A j \in 1 .. Len(y) : w[j] = y[j]) /\ (z = 1 => w[Len(w)] = 0)
  BY Zenon DEF Longer
<1> HIDE DEF next, p, z
<1>9. /\ b \in Seq(Byte) /\ Len(b) = c - 1 + z
      /\ \A j \in 1 .. c - 1 : b[j] = e[a + j]
      /\ z = 1 => b[c] = 0
  <2>1. /\ b \in Seq(Byte) /\ Len(b) = e[a] - 1 + z
        /\ \A j \in 1 .. e[a] - 1 : b[j] = e[a + j]
        /\ z = 1 => b[e[a]] = 0
    BY <1>6, BlockHas DEF z
  <2> QED BY <1>5, <2>1, Zenon
<1>10. Decoding(e)[1] = (p \o b) \o Decoding(e)[next]
  BY <1>4, <1>5, <1>6, <1>7, Continues
<1> HIDE DEF b
<1>11. Len(w) = Len(p) + Len(b)
  BY <1>1, <1>2, <1>4, <1>8, <1>9
<1>12. \A j \in 1 .. Len(p) : w[j] = p[j]
  BY <1>1, <1>2, <1>4, <1>8
<1>13. ASSUME NEW j \in 1 .. Len(b) PROVE w[Len(p) + j] = b[j]
  <2>1. CASE j <= c - 1
    <3>1. j \in 1 .. c - 1
      BY <1>1, <1>2, <1>9, <2>1
    <3>2. w[d + j] = y[d + j] /\ y[d + j] = e[a + j]
      BY <1>3, <1>5, <1>8, <3>1
    <3> QED BY <1>4, <1>9, <3>1, <3>2
  <2>2. CASE ~(j <= c - 1)
    <3>1. j \in 1 .. c /\ z = 1
      BY <1>1, <1>2, <1>9, <2>2
    <3>3. j = c /\ d + j = Len(w)
      BY <1>1, <1>3, <1>8, <2>2, <3>1
    <3> QED BY <1>4, <1>8, <1>9, <3>1, <3>3
  <2> QED BY <2>1, <2>2
<1>14. p \o b = w
  BY <1>4, <1>9, <1>11, <1>12, <1>13, Glue
<1> QED BY <1>10, <1>14 DEF next

(* The code and the bytes of the block being written, somewhere in e.      *)
LEMMA EncodedRead ==
    ASSUME NEW s \in Blocks, NEW y \in Seq(Byte), NEW d, Carries(s, y, d),
           NEW e \in Seq(Byte), Len(s.out) <= Len(e),
           \A j \in 1 .. Len(s.out) : e[j] = IF j = s.at THEN s.code ELSE s.out[j],
           Decoding(e)[Len(s.out) + 1] # Bad,
           NEW w \in Seq(Byte), Len(w) = Len(y) + Zeros(e, s.at, Len(s.out) + 1),
           \A j \in 1 .. Len(y) : w[j] = y[j],
           Zeros(e, s.at, Len(s.out) + 1) = 1 => w[Len(w)] = 0
    PROVE  Decoding(e)[1] = w \o Decoding(e)[Len(s.out) + 1]
<1> DEFINE a == s.at
           c == s.code
           n == Len(s.out)
<1>1. Sized(n, a, c, Len(y), d)
  BY BlocksHave DEF Sized, Carries
<1>2. /\ \A j \in 1 .. c - 1 : a + j \in 1 .. n /\ a + j # a
      /\ \A j \in 1 .. a - 1 : j \in 1 .. n /\ j # a
      /\ a \in 1 .. n
  <2>1. Located(n, a, c, Len(y), d)
    BY <1>1, SizedLocated
  <2>2. a \in 1 .. n
    BY <1>1, Zenon DEF Sized
  <2> QED BY <2>1, <2>2, Zenon DEF Located
<1>3. /\ \A j \in 1 .. c - 1 : y[d + j] = s.out[a + j]
      /\ \A j \in 1 .. n : e[j] = IF j = a THEN c ELSE s.out[j]
  BY DEF Carries
<1>4. e[a] = c /\ \A j \in 1 .. c - 1 : y[d + j] = e[a + j]
  BY <1>2, <1>3
<1>5. Decoding(e)[a] # Bad => Decoding(e)[1] = SubSeq(y, 1, d) \o Decoding(e)[a]
  <2>1. a <= Len(e)
    <3>1. n \in Nat /\ Len(e) \in Nat
      BY BlocksHave
    <3> QED BY <1>2, <3>1
  <2>2. \A j \in 1 .. a - 1 : e[j] = s.out[j]
    BY <1>2, <1>3
  <2> QED BY <2>1, <2>2 DEF Carries
<1>6. Stands(e, a, c, y, d)
  BY <1>4, <1>5, Zenon DEF Stands
<1>7. Longer(w, y, Zeros(e, a, n + 1))
  BY Zenon DEF Longer
<1>8. n <= Len(e) /\ Decoding(e)[n + 1] # Bad
  OBVIOUS
<1> HIDE DEF a, c, n
<1>9. Decoding(e)[1] = w \o Decoding(e)[n + 1]
  BY <1>1, <1>6, <1>7, <1>8, BlockRead
<1> QED BY <1>9 DEF n

(* After a byte that is not zero, the output still carries the input.      *)
LEMMA CarriesTake ==
    ASSUME NEW s \in Encoders, NEW y \in Seq(Byte), NEW d, Carries(s, y, d),
           NEW b \in Byte, b # 0
    PROVE  Carries(TakeByte(s, b), Append(y, b), d)
<1> DEFINE t == TakeByte(s, b)
           w == Append(y, b)
<1>0. s \in Blocks
  BY DEF Encoders
<1>1. /\ Len(s.out) \in Nat /\ s.at \in 1 .. Len(s.out) /\ s.code \in 1 .. 255
      /\ s.code = Len(s.out) - s.at + 1
  BY <1>0, BlocksHave
<1>2. /\ t.at = s.at /\ t.code = s.code + 1 /\ Len(t.out) = Len(s.out) + 1
      /\ t.out[Len(s.out) + 1] = b /\ \A j \in 1 .. Len(s.out) : t.out[j] = s.out[j]
  BY TakeHas
<1>3. d \in 0 .. Len(y) /\ Len(y) = d + (s.code - 1) /\ Len(y) \in Nat
  BY DEF Carries
<1>4. w \in Seq(Byte) /\ Len(w) = Len(y) + 1 /\ w[Len(y) + 1] = b
      /\ \A j \in 1 .. Len(y) : w[j] = y[j]
  OBVIOUS
<1> HIDE DEF t, w
<1> DEFINE n == Len(s.out)
           a == s.at
           c == s.code
           m == Len(y)
<1>4a. Sized(n, a, c, m, d)
  BY <1>1, <1>3 DEF Sized
<1> HIDE DEF n, a, c, m
<1>4b. /\ \A j \in 1 .. c - 1 : d + j \in 1 .. m /\ a + j \in 1 .. n /\ a + j # a
       /\ \A j \in 1 .. c : ~(j <= c - 1) => j = c
       /\ a + c = n + 1 /\ d + c = m + 1 /\ d \in 0 .. m + 1 /\ m + 1 = d + ((c + 1) - 1)
       /\ (c + 1) - 1 = c /\ c \in 1 .. 255
  <2>1. Located(n, a, c, m, d)
    BY <1>4a, SizedLocated
  <2>2. c \in 1 .. 255
    BY <1>4a, Zenon DEF Sized
  <2> QED BY <2>1, <2>2, Zenon DEF Located
<1>5. d \in 0 .. Len(w) /\ Len(w) = d + (t.code - 1)
  BY <1>2, <1>4, <1>4b DEF m, c
<1>6. ASSUME NEW j \in 1 .. t.code - 1 PROVE w[d + j] = t.out[t.at + j]
  <2>1. CASE j <= s.code - 1
    <3>0. j \in 1 .. c - 1
      <4>1. t.code - 1 = c
        BY <1>2, <1>4b DEF c
      <4>2. j \in Nat /\ 1 <= j /\ j <= c - 1
        BY <1>4b, <2>1, <4>1 DEF c
      <4> QED BY <1>4b, <4>2
    <3>1. j \in 1 .. s.code - 1 /\ d + j \in 1 .. Len(y) /\ s.at + j \in 1 .. Len(s.out)
      BY <1>4b, <3>0 DEF n, a, c, m
    <3>2. y[d + j] = s.out[s.at + j]
      BY <3>1 DEF Carries
    <3> QED BY <1>2, <1>4, <3>1, <3>2
  <2>2. CASE ~(j <= s.code - 1)
    <3>0. t.code - 1 = c
      BY <1>2, <1>4b DEF c
    <3>1. j = c
      BY <1>4b, <2>2, <3>0 DEF c
    <3>2. d + j = m + 1 /\ a + j = n + 1
      BY <1>4b, <3>1
    <3>3. d + j = Len(y) + 1 /\ s.at + j = Len(s.out) + 1
      BY <3>2 DEF n, a, m
    <3> QED BY <1>2, <1>4, <3>3
  <2> QED BY <2>1, <2>2
<1>7. SubSeq(w, 1, d) = SubSeq(y, 1, d)
  <2>1. \A j \in 1 .. d : w[j] = y[j]
    BY <1>3, <1>4
  <2> QED BY <1>3, <1>4, <1>5, <2>1, PrefixSame
<1>8. ASSUME NEW e \in Seq(Byte), t.at <= Len(e), \A j \in 1 .. t.at - 1 : e[j] = t.out[j],
             Decoding(e)[t.at] # Bad
      PROVE  Decoding(e)[1] = SubSeq(w, 1, d) \o Decoding(e)[t.at]
  <2>1. \A j \in 1 .. s.at - 1 : e[j] = s.out[j]
    BY <1>1, <1>2, <1>8
  <2>2. Decoding(e)[1] = SubSeq(y, 1, d) \o Decoding(e)[s.at]
    BY <1>2, <1>8, <2>1 DEF Carries
  <2> QED BY <1>2, <1>7, <2>2
<1>9. Carries(t, w, d)
  BY <1>5, <1>6, <1>8 DEF Carries
<1> QED BY <1>9 DEF t, w

(* So it does when a block ends, with a zero or without.                   *)
LEMMA CarriesClose ==
    ASSUME NEW s \in Blocks, NEW y \in Seq(Byte), NEW d, Carries(s, y, d),
           NEW w \in Seq(Byte), w = IF s.code = FullCode THEN y ELSE Append(y, 0)
    PROVE  Carries(CloseBlock(s), w, Len(w))
<1> DEFINE u == CloseBlock(s)
           n == Len(s.out)
<1>1. /\ u.at = n + 1 /\ u.code = 1 /\ Len(u.out) = n + 1
      /\ \A j \in 1 .. n : u.out[j] = IF j = s.at THEN s.code ELSE s.out[j]
  BY CloseHas
<1>2. n \in Nat /\ s.at \in 1 .. n
  BY BlocksHave
<1>3. /\ Len(w) = Len(y) + (IF s.code = FullCode THEN 0 ELSE 1)
      /\ \A j \in 1 .. Len(y) : w[j] = y[j]
      /\ s.code # FullCode => w[Len(w)] = 0
  <2>1. CASE s.code = FullCode
    BY <2>1
  <2>2. CASE s.code # FullCode
    <3>1. 0 \in Byte /\ w = Append(y, 0)
      BY <2>2 DEF Byte
    <3> QED BY <2>2, <3>1
  <2> QED BY <2>1, <2>2
<1> HIDE DEF u
<1>4. ASSUME NEW e \in Seq(Byte), u.at <= Len(e), \A j \in 1 .. u.at - 1 : e[j] = u.out[j],
             Decoding(e)[u.at] # Bad
      PROVE  Decoding(e)[1] = SubSeq(w, 1, Len(w)) \o Decoding(e)[u.at]
  <2> DEFINE z == Zeros(e, s.at, n + 1)
  <2>1. Len(e) \in Nat /\ n + 1 <= Len(e) /\ n <= Len(e)
    BY <1>1, <1>2, <1>4
  <2>2. \A j \in 1 .. n : e[j] = IF j = s.at THEN s.code ELSE s.out[j]
    <3>1. n = u.at - 1
      BY <1>1, <1>2
    <3> QED BY <1>1, <1>4, <3>1
  <2>3. e[s.at] = s.code
    BY <1>2, <2>2
  <2>4. z = IF s.code = FullCode THEN 0 ELSE 1
    BY <2>1, <2>3 DEF Zeros
  <2> HIDE DEF z
  <2>5. Len(w) = Len(y) + z /\ (z = 1 => w[Len(w)] = 0)
    BY <1>3, <2>4
  <2>6. Decoding(e)[n + 1] # Bad
    BY <1>1, <1>4
  <2>7. Decoding(e)[1] = w \o Decoding(e)[n + 1]
    BY <1>3, <2>1, <2>2, <2>5, <2>6, EncodedRead DEF z
  <2>8. SubSeq(w, 1, Len(w)) = w
    BY WholePrefix
  <2> QED BY <1>1, <2>7, <2>8
<1>5. Len(w) \in 0 .. Len(w) /\ Len(w) = Len(w) + (u.code - 1)
  BY <1>1
<1>6. \A j \in 1 .. u.code - 1 : w[Len(w) + j] = u.out[u.at + j]
  BY <1>1
<1>7. Carries(u, w, Len(w))
  BY <1>4, <1>5, <1>6 DEF Carries
<1> QED BY <1>7 DEF u

(* So it does after any byte, ...                                          *)
LEMMA CarriesNext ==
    ASSUME NEW s \in Encoders, NEW y \in Seq(Byte), NEW d, Carries(s, y, d), NEW b \in Byte
    PROVE  \E q : Carries(EncodeByte(s, b), Append(y, b), q)
<1> DEFINE w == Append(y, b)
<1>0. s \in Blocks /\ s.code < FullCode /\ s.code \in Nat
  BY DEF Encoders, Blocks
<1>1. w \in Seq(Byte)
  OBVIOUS
<1>2. CASE b = 0
  <2>1. w = IF s.code = FullCode THEN y ELSE Append(y, 0)
    BY <1>0, <1>2, FullCodeAssumption
  <2>2. Carries(CloseBlock(s), w, Len(w))
    <3> HIDE DEF w
    <3> QED BY <1>0, <1>1, <2>1, CarriesClose
  <2>3. EncodeByte(s, b) = CloseBlock(s)
    BY <1>2, EncodeByteCases
  <2> QED BY <2>2, <2>3
<1>3. CASE b # 0
  <2> DEFINE t == TakeByte(s, b)
  <2>1. t \in Blocks /\ t.code = s.code + 1
    BY <1>3, TakeHas
  <2>2. Carries(t, w, d)
    BY <1>3, CarriesTake
  <2>3. EncodeByte(s, b) = IF s.code + 1 = FullCode THEN CloseBlock(t) ELSE t
    BY <1>3, EncodeByteCases
  <2> HIDE DEF t, w
  <2>4. CASE s.code + 1 = FullCode
    <3>1. w = IF t.code = FullCode THEN w ELSE Append(w, 0)
      BY <2>1, <2>4
    <3>2. Carries(CloseBlock(t), w, Len(w))
      BY <1>1, <2>1, <2>2, <3>1, CarriesClose
    <3> QED BY <2>3, <2>4, <3>2 DEF w
  <2>5. CASE s.code + 1 # FullCode
    BY <2>2, <2>3, <2>5 DEF w
  <2> QED BY <2>4, <2>5
<1> QED BY <1>2, <1>3

(* ... at the start, ...                                                   *)
LEMMA CarriesStart == Carries(EncoderStart, <<>>, 0)
<1>1. /\ EncoderStart.code = 1 /\ EncoderStart.at = 1
  BY DEF EncoderStart
<1>2. ASSUME NEW e \in Seq(Byte), Len(e) >= 1, Decoding(e)[1] # Bad
      PROVE  Decoding(e)[1] = SubSeq(<<>>, 1, 0) \o Decoding(e)[1]
  <2>1. Decoding(e)[1] \in Seq(Byte)
    <3>1. 1 \in 1 .. Len(e) + 1
      BY <1>2
    <3> QED BY <1>2, <3>1, DecodingIs DEF Decoded
  <2>2. SubSeq(<<>>, 1, 0) = <<>>
    <3>1. <<>> \in Seq(Byte) /\ Len(<<>>) = 0
      BY ZeroIsBytes
    <3> QED BY <3>1, WholePrefix
  <2>3. \A r \in Seq(Byte) : r = <<>> \o r
    OBVIOUS
  <2> QED BY <2>1, <2>2, <2>3
<1> QED BY <1>1, <1>2 DEF Carries

(* ... and so after all of them.                                           *)
LEMMA EncodingCarries ==
    ASSUME NEW x \in Seq(Byte)
    PROVE  \E d : Carries(Encoding(x)[Len(x)], x, d)
<1> DEFINE n == Len(x)
           S == {i \in Nat : i <= n => \E d : Carries(Encoding(x)[i], SubSeq(x, 1, i), d)}
<1>0. n \in Nat
  OBVIOUS
<1>1. 0 \in S
  <2>1. Encoding(x)[0] = EncoderStart
    BY <1>0, EncodingIs
  <2>2. SubSeq(x, 1, 0) = <<>>
    <3>1. 0 \in 0 .. Len(x)
      BY <1>0
    <3> DEFINE u == SubSeq(x, 1, 0)
    <3>2. u \in Seq(Byte) /\ Len(u) = 0
      BY <3>1, PrefixHas
    <3> HIDE DEF u
    <3>3. u = <<>>
      BY <3>2
    <3> QED BY <3>3 DEF u
  <2> QED BY <2>1, <2>2, CarriesStart
<1>2. ASSUME NEW k \in Nat, k \in S PROVE k + 1 \in S
  <2>1. SUFFICES ASSUME k + 1 <= n
                 PROVE  \E d : Carries(Encoding(x)[k + 1], SubSeq(x, 1, k + 1), d)
    OBVIOUS
  <2> DEFINE y == SubSeq(x, 1, k)
             w == SubSeq(x, 1, k + 1)
  <2>2. PICK d : Carries(Encoding(x)[k], y, d)
    BY <1>2, <2>1
  <2>3. k \in 0 .. n /\ k + 1 \in 0 .. n /\ k + 1 \in 1 .. n /\ k + 1 # 0 /\ (k + 1) - 1 = k
    BY <1>0, <2>1
  <2>4. Encoding(x)[k] \in Encoders /\ Encoding(x)[k + 1] = EncodeByte(Encoding(x)[k], x[k + 1])
    BY <2>3, EncodingIs
  <2>5. y \in Seq(Byte) /\ Len(y) = k /\ \A j \in 1 .. k : y[j] = x[j]
    BY <2>3, PrefixHas
  <2>6. w \in Seq(Byte) /\ Len(w) = k + 1 /\ \A j \in 1 .. k + 1 : w[j] = x[j]
    BY <2>3, PrefixHas
  <2>7. x[k + 1] \in Byte
    BY <2>3
  <2> HIDE DEF y, w
  <2>8. w = Append(y, x[k + 1])
    <3> DEFINE v == Append(y, x[k + 1])
    <3>1. v \in Seq(Byte) /\ Len(v) = k + 1 /\ v[k + 1] = x[k + 1]
          /\ \A j \in 1 .. k : v[j] = y[j]
      BY <2>5, <2>7
    <3> HIDE DEF v
    <3>2. \A j \in 1 .. k + 1 : v[j] = w[j]
      BY <2>3, <2>5, <2>6, <3>1
    <3>3. w = v
      BY <2>6, <3>1, <3>2, SameBytes
    <3> QED BY <3>3 DEF v
  <2>9. \E q : Carries(EncodeByte(Encoding(x)[k], x[k + 1]), Append(y, x[k + 1]), q)
    BY <2>2, <2>4, <2>5, <2>7, CarriesNext
  <2> QED BY <2>4, <2>8, <2>9 DEF w
<1>3. n \in S
  <2> HIDE DEF S
  <2> QED BY <1>0, <1>1, <1>2, InductionOnSet
<1>4. SubSeq(x, 1, n) = x
  BY WholePrefix
<1>5. \E d : Carries(Encoding(x)[n], SubSeq(x, 1, n), d)
  BY <1>0, <1>3
<1> QED BY <1>4, <1>5

(* What the firmware encodes is decoded to what it was, and has no zero.   *)
LEMMA DeviceRoundTrip ==
    ASSUME NEW x \in Seq(Byte), x # <<>>
    PROVE  /\ cobs_encode(x) \in Seq(Byte) /\ cobs_encode(x) # <<>>
           /\ \A i \in 1 .. Len(cobs_encode(x)) : cobs_encode(x)[i] # 0
           /\ cobs_decode(cobs_encode(x)) = x
<1> DEFINE s == Encoding(x)[Len(x)]
           e == [s.out EXCEPT ![s.at] = s.code]
<1>1. s \in Encoders
  BY EncodingIs
<1>2. PICK d : Carries(s, x, d)
  BY EncodingCarries
<1> HIDE DEF s
<1>3. /\ s.out \in Seq(Byte) /\ Len(s.out) \in Nat /\ s.at \in 1 .. Len(s.out)
      /\ s.code \in Byte /\ s.code # 0
      /\ \A j \in 1 .. Len(s.out) : s.out[j] = 0 <=> j = s.at
  BY <1>1, BlocksHave DEF Encoders
<1>4. /\ e \in Seq(Byte) /\ Len(e) = Len(s.out)
      /\ \A j \in 1 .. Len(s.out) : e[j] = IF j = s.at THEN s.code ELSE s.out[j]
  BY <1>3
<1>5. cobs_encode(x) = e
  BY DEF cobs_encode, s
<1> HIDE DEF e
<1>6. \A i \in 1 .. Len(e) : e[i] # 0
  BY <1>3, <1>4
<1>7. Decoding(e)[Len(e) + 1] = <<>>
  <2>1. Len(e) + 1 \in 1 .. Len(e) + 1 /\ Len(e) + 1 > Len(e)
    BY <1>3, <1>4
  <2>2. Body(e, Len(e) + 1, Decoding(e)) = <<>>
    BY <2>1 DEF Body
  <2> QED BY <1>4, <2>1, <2>2, DecodingIs
<1>8. Zeros(e, s.at, Len(s.out) + 1) = 0
  BY <1>3, <1>4 DEF Zeros
<1>9. Decoding(e)[Len(s.out) + 1] # Bad
  BY <1>4, <1>7 DEF Bad
<1>10. s \in Blocks
  BY <1>1 DEF Encoders
<1>11. Decoding(e)[1] = x \o Decoding(e)[Len(s.out) + 1]
  <2>1. Len(x) = Len(x) + Zeros(e, s.at, Len(s.out) + 1)
    BY <1>8
  <2>2. Len(s.out) <= Len(e)
    BY <1>3, <1>4
  <2>3. \A j \in 1 .. Len(x) : x[j] = x[j]
    OBVIOUS
  <2>4. Zeros(e, s.at, Len(s.out) + 1) = 1 => x[Len(x)] = 0
    BY <1>8
  <2>5. e \in Seq(Byte) /\ \A j \in 1 .. Len(s.out) : e[j] = IF j = s.at THEN s.code ELSE s.out[j]
    BY <1>4
  <2> QED BY <1>2, <1>9, <1>10, <2>1, <2>2, <2>3, <2>4, <2>5, EncodedRead
<1>12. Decoding(e)[1] = x
  BY <1>4, <1>7, <1>11
<1>13. x # Bad
  <2>1. Bad \notin Seq(Byte)
    BY DEF Bad, Byte
  <2> QED BY <2>1
<1>14. cobs_decode(e) = x
  BY <1>12, <1>13 DEF cobs_decode
<1>15. e # <<>>
  BY <1>3, <1>4
<1> QED BY <1>4, <1>5, <1>6, <1>14, <1>15

-----------------------------------------------------------------------------
(* The encoder of the host.                                                *)

NoZero(p) == \A j \in 1 .. Len(p) : p[j] # 0

HostEncoders ==
    {s \in [out : Seq(Byte), run : Seq(Byte), open : BOOLEAN] :
        Len(s.run) <= FullCode - 2 /\ NoZero(s.out) /\ NoZero(s.run)}

(* Some blocks and one more.                                               *)
Piece(out, code, run) == out \o <<code>> \o run

IsPiece(w, out, code, run) ==
    /\ w \in Seq(Byte)
    /\ Len(w) = Len(out) + 1 + Len(run)
    /\ \A j \in 1 .. Len(out) : w[j] = out[j]
    /\ w[Len(out) + 1] = code
    /\ \A j \in 1 .. Len(run) : w[(Len(out) + 1) + j] = run[j]

(* What the host's encoder writes out: the code and the run.               *)
LEMMA PieceHas ==
    ASSUME NEW out \in Seq(Byte), NEW code \in Byte, NEW run \in Seq(Byte)
    PROVE  IsPiece(Piece(out, code, run), out, code, run)
<1> DEFINE l == out \o <<code>>
           w == l \o run
<1>1. /\ <<code>> \in Seq(Byte) /\ Len(<<code>>) = 1 /\ <<code>>[1] = code
      /\ Len(out) \in Nat /\ Len(run) \in Nat
  OBVIOUS
<1>2. /\ l \in Seq(Byte) /\ Len(l) = Len(out) + 1
      /\ \A j \in 1 .. Len(out) : l[j] = out[j]
      /\ l[Len(out) + 1] = code
  OBVIOUS
<1> HIDE DEF l
<1>3. /\ w \in Seq(Byte)
      /\ Len(w) = Len(l) + Len(run)
      /\ \A j \in 1 .. Len(l) + Len(run) : w[j] = IF j <= Len(l) THEN l[j] ELSE run[j - Len(l)]
  <2>1. l \in Seq(Byte)
    BY <1>2
  <2> QED BY <2>1, ConcatProperties
<1> HIDE DEF w
<1>4. \A j \in 1 .. Len(out) + 1 : w[j] = l[j]
  BY <1>1, <1>2, <1>3
<1>5. ASSUME NEW j \in 1 .. Len(run) PROVE w[(Len(out) + 1) + j] = run[j]
  <2>1. (Len(out) + 1) + j \in 1 .. Len(l) + Len(run) /\ ~((Len(out) + 1) + j <= Len(l))
        /\ ((Len(out) + 1) + j) - Len(l) = j
    BY <1>1, <1>2
  <2> QED BY <1>3, <2>1
<1>6. Piece(out, code, run) = w
  BY DEF Piece, w, l
<1>7. \A j \in 1 .. Len(out) : w[j] = out[j]
  BY <1>1, <1>2, <1>4
<1>8. w[Len(out) + 1] = code
  BY <1>1, <1>2, <1>4
<1>9. Len(w) = Len(out) + 1 + Len(run)
  BY <1>2, <1>3
<1> QED BY <1>3, <1>5, <1>6, <1>7, <1>8, <1>9 DEF IsPiece

(* It has no zero.                                                         *)
LEMMA PieceNoZero ==
    ASSUME NEW out \in Seq(Byte), NEW code \in Byte, code # 0, NEW run \in Seq(Byte),
           NoZero(out), NoZero(run)
    PROVE  NoZero(Piece(out, code, run))
<1> DEFINE w == Piece(out, code, run)
<1>1. /\ Len(w) = Len(out) + 1 + Len(run)
      /\ \A j \in 1 .. Len(out) : w[j] = out[j]
      /\ w[Len(out) + 1] = code
      /\ \A j \in 1 .. Len(run) : w[(Len(out) + 1) + j] = run[j]
  <2>1. IsPiece(w, out, code, run)
    BY PieceHas
  <2> QED BY <2>1, Zenon DEF IsPiece
<1> HIDE DEF w
<1>2. Len(out) \in Nat /\ Len(run) \in Nat
  OBVIOUS
<1>3. ASSUME NEW j \in 1 .. Len(w) PROVE w[j] # 0
  <2>1. CASE j <= Len(out)
    <3>1. j \in 1 .. Len(out)
      BY <1>1, <1>2, <2>1
    <3> QED BY <1>1, <3>1 DEF NoZero
  <2>2. CASE j = Len(out) + 1
    BY <1>1, <2>2
  <2>3. CASE j > Len(out) + 1
    <3> DEFINE k == j - (Len(out) + 1)
    <3>1. k \in 1 .. Len(run) /\ (Len(out) + 1) + k = j
      BY <1>1, <1>2, <2>3
    <3> HIDE DEF k
    <3>2. w[j] = run[k] /\ run[k] # 0
      BY <1>1, <3>1 DEF NoZero
    <3> QED BY <3>2
  <2> QED BY <1>1, <1>2, <2>1, <2>2, <2>3
<1> QED BY <1>3 DEF NoZero, w

(* The fields of the host's encoder.                                       *)
LEMMA HostHas ==
    ASSUME NEW s \in HostEncoders
    PROVE  /\ s.out \in Seq(Byte) /\ s.run \in Seq(Byte) /\ s.open \in BOOLEAN
           /\ NoZero(s.out) /\ NoZero(s.run)
           /\ Len(s.run) \in Nat /\ Len(s.run) <= FullCode - 2
           /\ Len(s.run) + 1 \in Byte /\ Len(s.run) + 1 # 0 /\ Len(s.run) + 1 \in 1 .. 255
           /\ Len(s.run) + 1 # FullCode
<1>1. /\ s.out \in Seq(Byte) /\ s.run \in Seq(Byte) /\ s.open \in BOOLEAN
      /\ NoZero(s.out) /\ NoZero(s.run)
      /\ Len(s.run) \in Nat /\ Len(s.run) <= FullCode - 2
  BY DEF HostEncoders
<1> DEFINE k == Len(s.run)
<1>2. k \in Nat /\ k <= FullCode - 2
  BY <1>1
<1> HIDE DEF k
<1>3. k + 1 \in Byte /\ k + 1 # 0 /\ k + 1 \in 1 .. 255 /\ k + 1 # FullCode
  BY <1>2, FullCodeAssumption DEF Byte
<1> QED BY <1>1, <1>3 DEF k

(* Fields that make such an encoder.                                       *)
LEMMA HostMade ==
    ASSUME NEW o \in Seq(Byte), NEW r \in Seq(Byte), NEW b \in BOOLEAN,
           Len(r) <= FullCode - 2, NoZero(o), NoZero(r)
    PROVE  [out |-> o, run |-> r, open |-> b] \in HostEncoders
<1> DEFINE s == [out |-> o, run |-> r, open |-> b]
<1>1. s \in [out : Seq(Byte), run : Seq(Byte), open : BOOLEAN]
  OBVIOUS
<1>2. s.out = o /\ s.run = r
  OBVIOUS
<1> HIDE DEF s
<1> QED BY <1>1, <1>2, Zenon DEF HostEncoders

(* A byte at the end.                                                      *)
LEMMA AppendHas ==
    ASSUME NEW r \in Seq(Byte), NEW b \in Byte
    PROVE  /\ Append(r, b) \in Seq(Byte) /\ Len(Append(r, b)) = Len(r) + 1
           /\ Append(r, b)[Len(r) + 1] = b
           /\ \A j \in 1 .. Len(r) : Append(r, b)[j] = r[j]
           /\ b # 0 /\ NoZero(r) => NoZero(Append(r, b))
<1> DEFINE w == Append(r, b)
<1>1. /\ w \in Seq(Byte) /\ Len(w) = Len(r) + 1 /\ w[Len(r) + 1] = b
      /\ \A j \in 1 .. Len(r) : w[j] = r[j]
  OBVIOUS
<1> HIDE DEF w
<1>2. ASSUME b # 0, NoZero(r), NEW j \in 1 .. Len(w) PROVE w[j] # 0
  <2>1. j \in 1 .. Len(r) \/ j = Len(r) + 1
    BY <1>1
  <2> QED BY <1>1, <1>2, <2>1 DEF NoZero
<1>3. b # 0 /\ NoZero(r) => NoZero(w)
  BY <1>2 DEF NoZero
<1> QED BY <1>1, <1>3 DEF w

(* A byte keeps the run shorter than a full block and the output without a *)
(* zero.                                                                   *)
LEMMA HostEncoderStays ==
    ASSUME NEW s \in HostEncoders, NEW b \in Byte
    PROVE  HostEncodeByte(s, b) \in HostEncoders
<1>1. /\ s.out \in Seq(Byte) /\ s.run \in Seq(Byte) /\ s.open \in BOOLEAN
      /\ NoZero(s.out) /\ NoZero(s.run)
      /\ Len(s.run) \in Nat /\ Len(s.run) <= FullCode - 2
      /\ Len(s.run) + 1 \in Byte /\ Len(s.run) + 1 # 0
  BY HostHas
<1>2. FullCode \in Nat /\ FullCode - 2 >= 0 /\ FullCode \in Byte /\ FullCode # 0
  BY FullCodeAssumption DEF Byte
<1> DEFINE nothing == <<>>
<1>3. nothing \in Seq(Byte) /\ Len(nothing) <= FullCode - 2 /\ NoZero(nothing)
  BY <1>2, ZeroIsBytes DEF NoZero
<1>4. CASE b = 0
  <2> DEFINE o == Piece(s.out, Len(s.run) + 1, s.run)
  <2>1. o \in Seq(Byte) /\ NoZero(o)
    BY <1>1, PieceHas, PieceNoZero DEF IsPiece
  <2>2. HostEncodeByte(s, b) = [out |-> o, run |-> nothing, open |-> TRUE]
    BY <1>4 DEF HostEncodeByte, Piece
  <2> HIDE DEF o, nothing
  <2> QED BY <1>3, <2>1, <2>2, HostMade
<1>5. CASE b # 0 /\ Len(s.run) = FullCode - 2
  <2> DEFINE r == Append(s.run, b)
             o == Piece(s.out, FullCode, r)
  <2>1. r \in Seq(Byte) /\ NoZero(r)
    BY <1>1, <1>5, AppendHas
  <2>2. HostEncodeByte(s, b) = [out |-> o, run |-> nothing, open |-> FALSE]
    BY <1>5 DEF HostEncodeByte, Piece
  <2> HIDE DEF r
  <2>3. o \in Seq(Byte) /\ NoZero(o)
    BY <1>1, <1>2, <2>1, PieceHas, PieceNoZero DEF IsPiece
  <2> HIDE DEF o, nothing
  <2> QED BY <1>3, <2>2, <2>3, HostMade
<1>6. CASE b # 0 /\ Len(s.run) # FullCode - 2
  <2> DEFINE r == Append(s.run, b)
  <2>1. r \in Seq(Byte) /\ NoZero(r) /\ Len(r) = Len(s.run) + 1
    BY <1>1, <1>6, AppendHas
  <2>2. HostEncodeByte(s, b) = [out |-> s.out, run |-> r, open |-> s.open]
    BY <1>6 DEF HostEncodeByte
  <2> HIDE DEF r
  <2>3. Len(r) <= FullCode - 2
    BY <1>1, <1>2, <1>6, <2>1
  <2> QED BY <1>1, <2>1, <2>2, <2>3, HostMade
<1> QED BY <1>4, <1>5, <1>6

HostEncoderStart == [out |-> <<>>, run |-> <<>>, open |-> TRUE]

(* The host's encoder starts in such a state.                              *)
LEMMA HostEncoderStarts == HostEncoderStart \in HostEncoders
<1> DEFINE nothing == <<>>
<1>1. nothing \in Seq(Byte) /\ Len(nothing) <= FullCode - 2 /\ NoZero(nothing)
  BY FullCodeAssumption, ZeroIsBytes DEF NoZero
<1>2. HostEncoderStart = [out |-> nothing, run |-> nothing, open |-> TRUE]
  BY DEF HostEncoderStart
<1> HIDE DEF nothing
<1> QED BY <1>1, <1>2, HostMade

(* Its state after each prefix is what the definition says.                *)
LEMMA HostEncodingIs ==
    ASSUME NEW x \in Seq(Byte)
    PROVE  \A i \in 0 .. Len(x) :
               /\ HostEncoding(x)[i] \in HostEncoders
               /\ HostEncoding(x)[i] = IF i = 0 THEN HostEncoderStart
                                       ELSE HostEncodeByte(HostEncoding(x)[i - 1], x[i])
<1> DEFINE F == [i \in 1 .. Len(x) |-> [s \in HostEncoders |-> HostEncodeByte(s, x[i])]]
           Is(g) == g = [i \in 0 .. Len(x) |-> IF i = 0 THEN HostEncoderStart
                                               ELSE HostEncodeByte(g[i - 1], x[i])]
<1>1. Len(x) \in Nat /\ HostEncoderStart \in HostEncoders
  BY HostEncoderStarts
<1>2. ASSUME NEW i \in 1 .. Len(x)
      PROVE  /\ F[i] \in [HostEncoders -> HostEncoders]
             /\ \A s \in HostEncoders : F[i][s] = HostEncodeByte(s, x[i])
  BY HostEncoderStays
<1>3. F \in [1 .. Len(x) -> [HostEncoders -> HostEncoders]]
  BY <1>2
<1> HIDE DEF F
<1>4. PICK g \in [0 .. Len(x) -> HostEncoders] :
          Folds(g, HostEncoderStart, F, Len(x), HostEncoders)
  BY <1>1, <1>3, FoldExists
<1>5. ASSUME NEW i \in 0 .. Len(x)
      PROVE  g[i] = IF i = 0 THEN HostEncoderStart ELSE HostEncodeByte(g[i - 1], x[i])
  <2>1. i # 0 => i \in 1 .. Len(x) /\ g[i - 1] \in HostEncoders
    OBVIOUS
  <2> QED BY <1>2, <1>4, <2>1 DEF Folds
<1>6. Is(g)
  BY <1>5
<1>7. HostEncoding(x) = CHOOSE f : Is(f)
  BY DEF HostEncoding, HostEncoderStart
<1>8. Is(HostEncoding(x))
  <2> HIDE DEF Is
  <2> QED BY <1>6, <1>7
<1>9. \A i \in 0 .. Len(x) :
          HostEncoding(x)[i] = IF i = 0 THEN HostEncoderStart
                               ELSE HostEncodeByte(HostEncoding(x)[i - 1], x[i])
  BY <1>8
<1>10. Folds(HostEncoding(x), HostEncoderStart, F, Len(x), HostEncoders)
  BY <1>2, <1>9 DEF Folds
<1> QED BY <1>1, <1>3, <1>9, <1>10, FoldStays

(* e begins with p.                                                        *)
Begins(e, p) == Len(p) <= Len(e) /\ \A j \in 1 .. Len(p) : e[j] = p[j]

(* What has been written of y: all but the last bytes, in run, which d of  *)
(* them precede.                                                           *)
HostCarries(out, run, open, y, d) ==
    /\ d \in 0 .. Len(y) /\ Len(y) = d + Len(run)
    /\ \A j \in 1 .. Len(run) : y[d + j] = run[j]
    /\ \A e \in Seq(Byte) :
           /\ Begins(e, out) /\ (open => Len(out) < Len(e))
           /\ Decoding(e)[Len(out) + 1] # Bad
           => Decoding(e)[1] = SubSeq(y, 1, d) \o Decoding(e)[Len(out) + 1]

(* The positions of a code and a run.                                      *)
LEMMA HostSizes ==
    ASSUME NEW a \in Nat, a >= 1, NEW k \in Nat, NEW d \in Nat
    PROVE  /\ a + k \in Nat /\ a \in 1 .. a + k /\ k + 1 = (a + k) - a + 1
           /\ d + k = d + ((k + 1) - 1) /\ (k + 1) - 1 = k /\ d \in 0 .. d + k
           /\ a - 1 < a + k /\ \A j \in 1 .. a - 1 : j \in 1 .. a + k
           /\ \A j \in 1 .. k : a + j \in 1 .. a + k
OBVIOUS

(* e begins with what has been written and the block that ends y.          *)
PieceIn(e, p, out, run, open, c, y, d) ==
    /\ out \in Seq(Byte) /\ run \in Seq(Byte) /\ c \in 1 .. 255 /\ c = Len(run) + 1
    /\ p = Piece(out, c, run) /\ Begins(e, p) /\ HostCarries(out, run, open, y, d)

PieceAt(e, p, a, y) ==
    \E out, run, open, c, d : PieceIn(e, p, out, run, open, c, y, d) /\ a = Len(out) + 1

(* A piece that stands in e adds its bytes to what is decoded.             *)
LEMMA HostPieceRead ==
    ASSUME NEW e \in Seq(Byte), NEW p, NEW at, NEW y \in Seq(Byte),
           PieceAt(e, p, at, y), Decoding(e)[Len(p) + 1] # Bad,
           NEW w \in Seq(Byte), Longer(w, y, Zeros(e, at, Len(p) + 1))
    PROVE  Decoding(e)[1] = w \o Decoding(e)[Len(p) + 1]
<1> PICK out, run, open, c, d : PieceIn(e, p, out, run, open, c, y, d) /\ at = Len(out) + 1
  BY Zenon DEF PieceAt
<1> DEFINE a == Len(out) + 1
           n == Len(p)
           m == Len(y)
           k == Len(run)
<1>0. /\ out \in Seq(Byte) /\ run \in Seq(Byte) /\ c \in 1 .. 255 /\ c = Len(run) + 1
      /\ p = Piece(out, c, run) /\ Begins(e, p) /\ HostCarries(out, run, open, y, d)
  BY Zenon DEF PieceIn
<1>1. IsPiece(p, out, c, run)
  <2>1. c \in Byte
    BY <1>0 DEF Byte
  <2> QED BY <1>0, <2>1, PieceHas
<1>2. n = a + k /\ a \in Nat /\ a >= 1 /\ k \in Nat /\ m \in Nat /\ c = k + 1
  BY <1>0, <1>1 DEF IsPiece
<1>3. d \in 0 .. m /\ m = d + k
  BY <1>0 DEF HostCarries
<1>4. /\ p[a] = c
      /\ \A j \in 1 .. k : p[a + j] = run[j]
      /\ \A j \in 1 .. Len(out) : p[j] = out[j]
  BY <1>1, Zenon DEF IsPiece
<1>5. n <= Len(e) /\ \A j \in 1 .. n : e[j] = p[j]
  BY <1>0, Zenon DEF Begins
<1>6. \A j \in 1 .. k : y[d + j] = run[j]
  BY <1>0, Zenon DEF HostCarries
<1>7. Len(out) \in Nat /\ Len(out) = a - 1 /\ Len(e) \in Nat
  BY <1>0
<1>8. Decoding(e)[n + 1] # Bad /\ Longer(w, y, Zeros(e, a, n + 1))
  OBVIOUS
<1> HIDE DEF a, n, m, k
<1>9. n \in Nat /\ a \in 1 .. n /\ c = n - a + 1 /\ m = d + (c - 1) /\ c - 1 = k
  <2>1. d \in Nat
    BY <1>2, <1>3
  <2>2. /\ a + k \in Nat /\ a \in 1 .. a + k /\ k + 1 = (a + k) - a + 1
        /\ d + k = d + ((k + 1) - 1) /\ (k + 1) - 1 = k
    BY <1>2, <2>1, HostSizes
  <2> QED BY <1>2, <1>3, <2>2
<1>9a. a - 1 < n /\ \A j \in 1 .. a - 1 : j \in 1 .. n
  BY <1>2, HostSizes
<1>10. Sized(n, a, c, m, d)
  BY <1>0, <1>2, <1>3, <1>9 DEF Sized
<1>11. e[a] = c
  BY <1>4, <1>5, <1>9
<1>12. ASSUME NEW j \in 1 .. c - 1 PROVE y[d + j] = e[a + j]
  <2>1. j \in 1 .. k /\ a + j \in 1 .. n
    BY <1>2, <1>9
  <2> QED BY <1>4, <1>5, <1>6, <2>1
<1>13. Decoding(e)[a] # Bad => Decoding(e)[1] = SubSeq(y, 1, d) \o Decoding(e)[a]
  <2>1. Len(out) < Len(e) /\ Len(out) <= Len(e)
    <3>1. n <= Len(e) /\ Len(out) < n /\ n \in Nat
      BY <1>5, <1>7, <1>9, <1>9a
    <3> DEFINE f == Len(e)
               g == Len(out)
    <3>2. n <= f /\ g < n /\ n \in Nat /\ f \in Nat /\ g \in Nat
      BY <1>7, <3>1
    <3> HIDE DEF f, g
    <3>3. g < f /\ g <= f
      BY <3>2
    <3> QED BY <3>3 DEF f, g
  <2>2. ASSUME NEW j \in 1 .. Len(out) PROVE e[j] = out[j]
    <3>1. j \in 1 .. n
      BY <1>7, <1>9a
    <3> QED BY <1>4, <1>5, <3>1
  <2>3. Begins(e, out)
    BY <2>1, <2>2 DEF Begins
  <2> QED BY <1>0, <2>1, <2>3, Zenon DEF HostCarries, a
<1>14. Stands(e, a, c, y, d)
  BY <1>11, <1>12, <1>13, Zenon DEF Stands
<1>15. Decoding(e)[1] = w \o Decoding(e)[n + 1]
  BY <1>5, <1>8, <1>10, <1>14, BlockRead DEF m
<1> QED BY <1>15 DEF n

(* After a byte that is not zero, output and run still carry the input.    *)
LEMMA HostCarriesTake ==
    ASSUME NEW out \in Seq(Byte), NEW run \in Seq(Byte), NEW open, NEW y \in Seq(Byte), NEW d,
           HostCarries(out, run, open, y, d), NEW b \in Byte
    PROVE  HostCarries(out, Append(run, b), open, Append(y, b), d)
<1> DEFINE r == Append(run, b)
           w == Append(y, b)
<1>1. /\ r \in Seq(Byte) /\ Len(r) = Len(run) + 1 /\ r[Len(run) + 1] = b
      /\ \A j \in 1 .. Len(run) : r[j] = run[j]
  OBVIOUS
<1>2. /\ w \in Seq(Byte) /\ Len(w) = Len(y) + 1 /\ w[Len(y) + 1] = b
      /\ \A j \in 1 .. Len(y) : w[j] = y[j]
  OBVIOUS
<1>3. d \in 0 .. Len(y) /\ Len(y) = d + Len(run) /\ Len(y) \in Nat /\ Len(run) \in Nat
  BY DEF HostCarries
<1>4. \A j \in 1 .. Len(run) : y[d + j] = run[j]
  BY Zenon DEF HostCarries
<1> HIDE DEF r, w
<1>5. d \in 0 .. Len(w) /\ Len(w) = d + Len(r)
  BY <1>1, <1>2, <1>3
<1>6. ASSUME NEW j \in 1 .. Len(r) PROVE w[d + j] = r[j]
  <2>1. CASE j \in 1 .. Len(run)
    <3>1. d + j \in 1 .. Len(y)
      BY <1>3, <2>1
    <3> QED BY <1>1, <1>2, <1>4, <2>1, <3>1
  <2>2. CASE j = Len(run) + 1
    <3>1. d + j = Len(y) + 1
      BY <1>3, <2>2
    <3> QED BY <1>1, <1>2, <2>2, <3>1
  <2> QED BY <1>1, <1>3, <2>1, <2>2
<1>7. SubSeq(w, 1, d) = SubSeq(y, 1, d)
  <2>1. \A j \in 1 .. d : w[j] = y[j]
    BY <1>2, <1>3
  <2> QED BY <1>2, <1>3, <1>5, <2>1, PrefixSame
<1>8. HostCarries(out, r, open, w, d)
  BY <1>5, <1>6, <1>7, Zenon DEF HostCarries
<1> QED BY <1>8 DEF r, w

(* Longer by nothing, and by a zero.                                       *)
LEMMA LongerIs ==
    ASSUME NEW y \in Seq(Byte)
    PROVE  Longer(y, y, 0) /\ Longer(Append(y, 0), y, 1) /\ Append(y, 0) \in Seq(Byte)
<1>1. Longer(y, y, 0)
  BY DEF Longer
<1> DEFINE w == Append(y, 0)
<1>2. /\ w \in Seq(Byte) /\ Len(w) = Len(y) + 1 /\ w[Len(y) + 1] = 0
      /\ \A j \in 1 .. Len(y) : w[j] = y[j]
  <2>1. 0 \in Byte
    BY DEF Byte
  <2> QED BY <2>1
<1> HIDE DEF w
<1>3. Longer(w, y, 1)
  BY <1>2 DEF Longer
<1> QED BY <1>1, <1>2, <1>3 DEF w

RunFits(c, run) == c \in 1 .. 255 /\ c = Len(run) + 1

(* So they do when the run is written out.                                 *)
LEMMA HostCarriesClose ==
    ASSUME NEW out \in Seq(Byte), NEW run \in Seq(Byte), NEW open,
           NEW y \in Seq(Byte), NEW d, NEW c,
           HostCarries(out, run, open, y, d), RunFits(c, run),
           NEW after \in BOOLEAN, c = FullCode \/ after,
           NEW w \in Seq(Byte), Longer(w, y, IF c = FullCode THEN 0 ELSE 1)
    PROVE  HostCarries(Piece(out, c, run), <<>>, after, w, Len(w))
<1> DEFINE p == Piece(out, c, run)
<1>1. IsPiece(p, out, c, run)
  <2>1. c \in Byte
    BY DEF Byte, RunFits
  <2> QED BY <2>1, PieceHas
<1>2. p \in Seq(Byte) /\ Len(p) \in Nat /\ Len(out) + 1 \in 1 .. Len(p) /\ p[Len(out) + 1] = c
  BY <1>1 DEF IsPiece
<1>4. p = Piece(out, c, run)
  OBVIOUS
<1> HIDE DEF p
<1>5. ASSUME NEW e \in Seq(Byte), Begins(e, p), after => Len(p) < Len(e),
             Decoding(e)[Len(p) + 1] # Bad
      PROVE  Decoding(e)[1] = SubSeq(w, 1, Len(w)) \o Decoding(e)[Len(p) + 1]
  <2>1. e[Len(out) + 1] = c
    BY <1>2, <1>5 DEF Begins
  <2>2. c # FullCode => Len(p) + 1 <= Len(e)
    BY <1>2, <1>5
  <2>3. Zeros(e, Len(out) + 1, Len(p) + 1) = IF c = FullCode THEN 0 ELSE 1
    BY <2>1, <2>2, Zenon DEF Zeros
  <2>4. Longer(w, y, Zeros(e, Len(out) + 1, Len(p) + 1))
    BY <2>3
  <2>5. Decoding(e)[1] = w \o Decoding(e)[Len(p) + 1]
    <3>1. Begins(e, p) /\ Decoding(e)[Len(p) + 1] # Bad
      BY <1>5
    <3>2. PieceIn(e, p, out, run, open, c, y, d)
      BY <1>4, <3>1, Zenon DEF PieceIn, RunFits
    <3>3. PieceAt(e, p, Len(out) + 1, y)
      BY <3>2, Zenon DEF PieceAt
    <3> QED BY <2>4, <3>1, <3>3, HostPieceRead
  <2>6. SubSeq(w, 1, Len(w)) = w
    BY WholePrefix
  <2> QED BY <2>5, <2>6
<1>6. Len(w) \in 0 .. Len(w) /\ Len(w) = Len(w) + Len(<<>>) /\ Len(<<>>) = 0
  OBVIOUS
<1>7. \A j \in 1 .. Len(<<>>) : w[Len(w) + j] = <<>>[j]
  BY <1>6
<1>8. HostCarries(p, <<>>, after, w, Len(w))
  BY <1>5, <1>6, <1>7, Zenon DEF HostCarries
<1> QED BY <1>8 DEF p

(* The encoder, having taken y.                                            *)
HostCarried(s, y) == \E d : HostCarries(s.out, s.run, s.open, y, d)

(* A byte does not end that.                                               *)
LEMMA HostCarriesNext ==
    ASSUME NEW s \in HostEncoders, NEW y \in Seq(Byte), HostCarried(s, y), NEW b \in Byte
    PROVE  HostCarried(HostEncodeByte(s, b), Append(y, b))
<1>1. /\ s.out \in Seq(Byte) /\ s.run \in Seq(Byte) /\ s.open \in BOOLEAN
      /\ Len(s.run) \in Nat /\ Len(s.run) + 1 \in 1 .. 255 /\ Len(s.run) + 1 # FullCode
  BY HostHas
<1>2. PICK d : HostCarries(s.out, s.run, s.open, y, d)
  BY Zenon DEF HostCarried
<1> DEFINE out == s.out
           run == s.run
           open == s.open
           t == HostEncodeByte(s, b)
           w == Append(y, b)
           r == Append(run, b)
<1>3. CASE b = 0
  <2> DEFINE c == Len(run) + 1
  <2>1. t.out = Piece(out, c, run) /\ t.run = <<>> /\ t.open = TRUE
    BY <1>3 DEF HostEncodeByte, Piece
  <2>2. RunFits(c, run) /\ c # FullCode
    BY <1>1 DEF RunFits
  <2>3. w \in Seq(Byte) /\ Longer(w, y, 1)
    BY <1>3, LongerIs
  <2> HIDE DEF c, w
  <2>4. Longer(w, y, IF c = FullCode THEN 0 ELSE 1)
    BY <2>2, <2>3
  <2> HIDE DEF out, run, open, t
  <2>5. HostCarries(Piece(out, c, run), <<>>, TRUE, w, Len(w))
    <3>1. out \in Seq(Byte) /\ run \in Seq(Byte) /\ HostCarries(out, run, open, y, d)
      BY <1>1, <1>2 DEF out, run, open
    <3>2. TRUE \in BOOLEAN
      OBVIOUS
    <3> QED BY <2>2, <2>3, <2>4, <3>1, <3>2, HostCarriesClose
  <2>6. HostCarries(t.out, t.run, t.open, w, Len(w))
    BY <2>1, <2>5
  <2>7. HostCarried(t, w)
    BY <2>6, Zenon DEF HostCarried
  <2> QED BY <2>7 DEF t, w
<1>4. w \in Seq(Byte) /\ r \in Seq(Byte) /\ HostCarries(out, r, open, w, d)
  <2>1. HostCarries(out, r, open, w, d)
    BY <1>1, <1>2, HostCarriesTake
  <2> QED BY <1>1, <2>1
<1>5. CASE b # 0 /\ Len(run) = FullCode - 2
  <2>1. t.out = Piece(out, FullCode, r) /\ t.run = <<>> /\ t.open = FALSE
    BY <1>5 DEF HostEncodeByte, Piece
  <2>2. Len(r) = Len(run) + 1
    BY <1>1
  <2>3. RunFits(FullCode, r)
    BY <1>1, <1>5, <2>2, FullCodeAssumption DEF RunFits
  <2> HIDE DEF r, w
  <2>4. Longer(w, w, IF FullCode = FullCode THEN 0 ELSE 1)
    BY <1>4, LongerIs
  <2> HIDE DEF out, run, open, t
  <2>5. HostCarries(Piece(out, FullCode, r), <<>>, FALSE, w, Len(w))
    <3>1. out \in Seq(Byte)
      BY <1>1 DEF out
    <3>2. FALSE \in BOOLEAN
      OBVIOUS
    <3> QED BY <1>4, <2>3, <2>4, <3>1, <3>2, HostCarriesClose
  <2>6. HostCarries(t.out, t.run, t.open, w, Len(w))
    BY <2>1, <2>5
  <2>7. HostCarried(t, w)
    BY <2>6, Zenon DEF HostCarried
  <2> QED BY <2>7 DEF t, w
<1>6. CASE b # 0 /\ Len(run) # FullCode - 2
  <2>1. t.out = out /\ t.run = r /\ t.open = open
    BY <1>6 DEF HostEncodeByte
  <2> HIDE DEF out, run, open, t, r, w
  <2>2. HostCarries(t.out, t.run, t.open, w, d)
    BY <1>4, <2>1
  <2>3. HostCarried(t, w)
    BY <2>2, Zenon DEF HostCarried
  <2> QED BY <2>3 DEF t, w
<1> QED BY <1>3, <1>5, <1>6

(* So they do at the start, ...                                            *)
LEMMA HostCarriesStart == HostCarried(HostEncoderStart, <<>>)
<1> DEFINE none == <<>>
<1>1. HostEncoderStart.out = none /\ HostEncoderStart.run = none /\ HostEncoderStart.open = TRUE
  BY DEF HostEncoderStart
<1>2. none \in Seq(Byte) /\ Len(none) = 0
  BY ZeroIsBytes
<1> HIDE DEF none
<1>3. ASSUME NEW e \in Seq(Byte), Len(none) < Len(e), Decoding(e)[Len(none) + 1] # Bad
      PROVE  Decoding(e)[1] = SubSeq(none, 1, 0) \o Decoding(e)[Len(none) + 1]
  <2>1. Decoding(e)[1] \in Seq(Byte) /\ Len(none) + 1 = 1
    <3>1. 1 \in 1 .. Len(e) + 1 /\ Len(none) + 1 = 1
      BY <1>2, <1>3
    <3> QED BY <1>3, <3>1, DecodingIs DEF Decoded
  <2>2. SubSeq(none, 1, 0) = <<>>
    <3>1. SubSeq(none, 1, 0) = none
      BY <1>2, WholePrefix
    <3> QED BY <3>1 DEF none
  <2>3. \A r \in Seq(Byte) : r = <<>> \o r
    OBVIOUS
  <2> QED BY <2>1, <2>2, <2>3
<1>4. 0 \in 0 .. Len(none) /\ Len(none) = 0 + Len(none)
      /\ \A j \in 1 .. Len(none) : none[0 + j] = none[j]
  BY <1>2
<1>5. HostCarries(none, none, TRUE, none, 0)
  BY <1>3, <1>4, Zenon DEF HostCarries
<1>6. HostCarried(HostEncoderStart, none)
  BY <1>1, <1>5 DEF HostCarried
<1> QED BY <1>6 DEF none

(* The prefixes of an input, byte by byte.                                 *)
LEMMA NextPrefix ==
    ASSUME NEW x \in Seq(Byte), NEW k \in Nat, k + 1 <= Len(x)
    PROVE  SubSeq(x, 1, k + 1) = Append(SubSeq(x, 1, k), x[k + 1])
<1> DEFINE y == SubSeq(x, 1, k)
           w == SubSeq(x, 1, k + 1)
           v == Append(y, x[k + 1])
<1>1. k \in 0 .. Len(x) /\ k + 1 \in 0 .. Len(x) /\ x[k + 1] \in Byte
  OBVIOUS
<1>2. y \in Seq(Byte) /\ Len(y) = k /\ \A j \in 1 .. k : y[j] = x[j]
  BY <1>1, PrefixHas
<1>3. w \in Seq(Byte) /\ Len(w) = k + 1 /\ \A j \in 1 .. k + 1 : w[j] = x[j]
  BY <1>1, PrefixHas
<1> HIDE DEF y, w
<1>4. v \in Seq(Byte) /\ Len(v) = k + 1 /\ v[k + 1] = x[k + 1] /\ \A j \in 1 .. k : v[j] = y[j]
  BY <1>1, <1>2
<1> HIDE DEF v
<1>5. \A j \in 1 .. k + 1 : v[j] = w[j]
  <2>1. \A j \in 1 .. k + 1 : j \in 1 .. k \/ j = k + 1
    OBVIOUS
  <2> QED BY <1>2, <1>3, <1>4, <2>1
<1>6. w = v
  BY <1>3, <1>4, <1>5, SameBytes
<1> QED BY <1>6 DEF w, v, y

(* ... and so after every byte.                                            *)
LEMMA HostEncodingCarries ==
    ASSUME NEW x \in Seq(Byte)
    PROVE  HostCarried(HostEncoding(x)[Len(x)], x)
<1> DEFINE n == Len(x)
           S == {i \in Nat : i <= n => HostCarried(HostEncoding(x)[i], SubSeq(x, 1, i))}
<1>0. n \in Nat
  OBVIOUS
<1>1. 0 \in S
  <2>1. HostEncoding(x)[0] = HostEncoderStart
    BY <1>0, HostEncodingIs
  <2>2. SubSeq(x, 1, 0) = <<>>
    <3>1. 0 \in 0 .. Len(x)
      BY <1>0
    <3> DEFINE u == SubSeq(x, 1, 0)
    <3>2. u \in Seq(Byte) /\ Len(u) = 0
      BY <3>1, PrefixHas
    <3> HIDE DEF u
    <3>3. u = <<>>
      BY <3>2
    <3> QED BY <3>3 DEF u
  <2> QED BY <2>1, <2>2, HostCarriesStart
<1>2. ASSUME NEW k \in Nat, k \in S PROVE k + 1 \in S
  <2>1. SUFFICES ASSUME k + 1 <= n
                 PROVE  HostCarried(HostEncoding(x)[k + 1], SubSeq(x, 1, k + 1))
    OBVIOUS
  <2>2. k \in 0 .. n /\ k + 1 \in 0 .. n /\ k + 1 # 0 /\ (k + 1) - 1 = k /\ x[k + 1] \in Byte
    BY <1>0, <2>1
  <2>3. HostCarried(HostEncoding(x)[k], SubSeq(x, 1, k))
    BY <1>2, <2>2
  <2>4. /\ HostEncoding(x)[k] \in HostEncoders
        /\ HostEncoding(x)[k + 1] = HostEncodeByte(HostEncoding(x)[k], x[k + 1])
    BY <2>2, HostEncodingIs
  <2>5. SubSeq(x, 1, k) \in Seq(Byte)
    BY <2>2, PrefixHas
  <2>6. SubSeq(x, 1, k + 1) = Append(SubSeq(x, 1, k), x[k + 1])
    BY <2>1, NextPrefix
  <2> QED BY <2>2, <2>3, <2>4, <2>5, <2>6, HostCarriesNext
<1>3. n \in S
  <2> HIDE DEF S
  <2> QED BY <1>0, <1>1, <1>2, InductionOnSet
<1>4. SubSeq(x, 1, n) = x
  BY WholePrefix
<1>5. HostCarried(HostEncoding(x)[n], SubSeq(x, 1, n))
  BY <1>0, <1>3
<1> QED BY <1>4, <1>5

(* What comes after the last byte decodes to nothing.                      *)
LEMMA DecodingEnds ==
    ASSUME NEW e \in Seq(Byte)
    PROVE  Decoding(e)[Len(e) + 1] = <<>> /\ Decoding(e)[Len(e) + 1] # Bad
<1>1. Len(e) + 1 \in 1 .. Len(e) + 1 /\ Len(e) + 1 > Len(e)
  OBVIOUS
<1>2. Body(e, Len(e) + 1, Decoding(e)) = <<>>
  BY <1>1 DEF Body
<1>3. Decoding(e)[Len(e) + 1] = <<>>
  BY <1>1, <1>2, DecodingIs
<1> QED BY <1>3 DEF Bad

(* What the host encodes is decoded to what it was, and has no zero.       *)
LEMMA HostRoundTrip ==
    ASSUME NEW x \in Seq(Byte), x # <<>>
    PROVE  /\ HostEncode(x) \in Seq(Byte) /\ HostEncode(x) # <<>>
           /\ NoZero(HostEncode(x))
           /\ cobs_decode(HostEncode(x)) = x
<1> DEFINE s == HostEncoding(x)[Len(x)]
           e == HostEncode(x)
           c == Len(s.run) + 1
<1>1. s \in HostEncoders /\ HostCarried(s, x)
  BY HostEncodingIs, HostEncodingCarries
<1>2. e = IF s.open \/ s.run # <<>> THEN Piece(s.out, c, s.run) ELSE s.out
  BY Zenon DEF HostEncode, Piece
<1> HIDE DEF s, e
<1>3. /\ s.out \in Seq(Byte) /\ s.run \in Seq(Byte) /\ s.open \in BOOLEAN
      /\ NoZero(s.out) /\ NoZero(s.run) /\ Len(s.run) \in Nat
      /\ c \in Byte /\ c # 0 /\ c \in 1 .. 255
  BY <1>1, HostHas
<1>4. PICK d : HostCarries(s.out, s.run, s.open, x, d)
  BY <1>1, Zenon DEF HostCarried
<1>5. e \in Seq(Byte) /\ NoZero(e)
  <2>1. CASE s.open \/ s.run # <<>>
    BY <1>2, <1>3, <2>1, PieceHas, PieceNoZero DEF IsPiece
  <2>2. CASE ~(s.open \/ s.run # <<>>)
    BY <1>2, <1>3, <2>2
  <2> QED BY <2>1, <2>2
<1>6. Decoding(e)[Len(e) + 1] = <<>> /\ Decoding(e)[Len(e) + 1] # Bad
  BY <1>5, DecodingEnds
<1>7. Decoding(e)[1] = x
  <2>1. CASE s.open \/ s.run # <<>>
    <3> DEFINE a == Len(s.out) + 1
               out == s.out
               run == s.run
               open == s.open
    <3>1. c = Len(run) + 1
      OBVIOUS
    <3> HIDE DEF c
    <3>2. e = Piece(out, c, run)
      BY <1>2, <2>1
    <3>3. Begins(e, e)
      BY <1>5 DEF Begins
    <3>4. out \in Seq(Byte) /\ run \in Seq(Byte) /\ HostCarries(out, run, open, x, d)
      BY <1>3, <1>4
    <3> HIDE DEF out, run, open
    <3>5. PieceIn(e, e, out, run, open, c, x, d)
      BY <1>3, <3>1, <3>2, <3>3, <3>4, Zenon DEF PieceIn
    <3>6. a = Len(out) + 1
      BY DEF out
    <3> HIDE DEF a
    <3>7. PieceAt(e, e, a, x)
      BY <3>5, <3>6, Zenon DEF PieceAt
    <3>8. Zeros(e, a, Len(e) + 1) = 0
      BY <1>5 DEF Zeros
    <3>9. Longer(x, x, Zeros(e, a, Len(e) + 1))
      BY <3>8, LongerIs
    <3>10. Decoding(e)[1] = x \o Decoding(e)[Len(e) + 1]
      BY <1>5, <1>6, <3>7, <3>9, HostPieceRead
    <3> QED BY <1>6, <3>10
  <2>2. CASE ~(s.open \/ s.run # <<>>)
    <3>1. e = s.out /\ ~s.open /\ Len(s.run) = 0
      BY <1>2, <1>3, <2>2
    <3>2. Begins(e, s.out)
      BY <1>5, <3>1 DEF Begins
    <3>3. d = Len(x)
      BY <1>4, <3>1 DEF HostCarries
    <3>4. Decoding(e)[1] = SubSeq(x, 1, d) \o Decoding(e)[Len(s.out) + 1]
      BY <1>4, <1>5, <1>6, <3>1, <3>2, Zenon DEF HostCarries
    <3>5. SubSeq(x, 1, d) = x
      BY <3>3, WholePrefix
    <3>6. Decoding(e)[1] = x \o <<>>
      BY <1>6, <3>1, <3>4, <3>5
    <3> QED BY <3>6
  <2> QED BY <2>1, <2>2
<1>8. e # <<>>
  <2>1. SUFFICES ASSUME e = <<>> PROVE FALSE
    OBVIOUS
  <2>2. Len(e) + 1 = 1
    BY <2>1
  <2> QED BY <1>6, <1>7, <2>2
<1>9. x # Bad
  <2>1. Bad \notin Seq(Byte)
    BY DEF Bad, Byte
  <2> QED BY <2>1
<1>10. cobs_decode(e) = x
  BY <1>7, <1>9 DEF cobs_decode
<1> QED BY <1>5, <1>8, <1>10 DEF e

-----------------------------------------------------------------------------
(* Frames.                                                                 *)

(* What build_frame puts before the checksum, byte by byte.                *)
IsBody(b, f) ==
    /\ b \in Seq(Byte) /\ Len(b) = 4 + Len(f.payload)
    /\ b[1] = f.cmd /\ b[2] = f.seq /\ Value(b, 3) = Len(f.payload)
    /\ \A j \in 1 .. Len(f.payload) : b[4 + j] = f.payload[j]

(* Two bytes more.                                                         *)
LEMMA TwoMore ==
    ASSUME NEW u \in Seq(Byte), NEW a \in Byte, NEW b \in Byte
    PROVE  /\ u \o <<a, b>> \in Seq(Byte) /\ Len(u \o <<a, b>>) = Len(u) + 2
           /\ \A j \in 1 .. Len(u) : (u \o <<a, b>>)[j] = u[j]
           /\ (u \o <<a, b>>)[Len(u) + 1] = a /\ (u \o <<a, b>>)[Len(u) + 2] = b
<1> DEFINE v == <<a, b>>
           w == u \o v
<1>1. v \in Seq(Byte) /\ Len(v) = 2 /\ v[1] = a /\ v[2] = b
  OBVIOUS
<1> HIDE DEF v
<1>2. /\ w \in Seq(Byte) /\ Len(w) = Len(u) + Len(v)
      /\ \A j \in 1 .. Len(u) + Len(v) : w[j] = IF j <= Len(u) THEN u[j] ELSE v[j - Len(u)]
  BY <1>1, ConcatProperties
<1>3. Len(u) \in Nat
  OBVIOUS
<1> HIDE DEF w
<1> DEFINE k == Len(u)
<1>4. k \in Nat /\ \A j \in 1 .. k + 2 : w[j] = IF j <= k THEN u[j] ELSE v[j - k]
  BY <1>1, <1>2, <1>3
<1> HIDE DEF k
<1>5. /\ k + 1 \in 1 .. k + 2 /\ ~(k + 1 <= k) /\ (k + 1) - k = 1
      /\ k + 2 \in 1 .. k + 2 /\ ~(k + 2 <= k) /\ (k + 2) - k = 2
      /\ \A j \in 1 .. k : j \in 1 .. k + 2 /\ j <= k
  BY <1>4
<1>6. w[k + 1] = a /\ w[k + 2] = b /\ \A j \in 1 .. k : w[j] = u[j]
  BY <1>1, <1>4, <1>5
<1> QED BY <1>1, <1>2, <1>6 DEF k, w, v

(* The fields of a frame.                                                  *)
LEMMA FrameHas ==
    ASSUME NEW f \in Frame
    PROVE  /\ f.cmd \in Byte /\ f.seq \in Byte /\ f.payload \in Seq(Byte)
           /\ Len(f.payload) \in WordSet /\ Len(f.payload) \in Nat
           /\ f = [cmd |-> f.cmd, seq |-> f.seq, payload |-> f.payload]
<1>1. f \in [cmd : Byte, seq : Byte, payload : Seq(Byte)] /\ Len(f.payload) \div 256 \in Byte
  BY DEF Frame
<1>2. f.payload \in Seq(Byte)
  BY <1>1
<1>3. Len(f.payload) \in WordSet
  BY <1>1, <1>2 DEF WordSet
<1> QED BY <1>1, <1>2, <1>3

(* A word is its two bytes.                                                *)
LEMMA WordBytes ==
    ASSUME NEW c \in WordSet
    PROVE  c % 256 \in Byte /\ c \div 256 \in Byte /\ (c % 256) + 256 * (c \div 256) = c
<1>1. c \in Nat /\ c \div 256 \in Byte
  BY DEF WordSet
<1>2. c % 256 \in 0 .. 255 /\ (c % 256) + 256 * (c \div 256) = c
  BY <1>1, Z3
<1> QED BY <1>1, <1>2 DEF Byte

(* A header of two bytes and a word, and what follows it.                  *)
LEMMA HeaderAndRest ==
    ASSUME NEW a \in Byte, NEW b \in Byte, NEW lo \in Byte, NEW hi \in Byte,
           NEW p \in Seq(Byte)
    PROVE  LET w == <<a, b>> \o <<lo, hi>> \o p
           IN /\ w \in Seq(Byte) /\ Len(w) = 4 + Len(p)
              /\ w[1] = a /\ w[2] = b /\ w[3] = lo /\ w[4] = hi
              /\ \A j \in 1 .. Len(p) : w[4 + j] = p[j]
<1> DEFINE head == <<a, b>>
           h == head \o <<lo, hi>>
           w == h \o p
<1>0. head \in Seq(Byte) /\ Len(head) = 2 /\ head[1] = a /\ head[2] = b
  OBVIOUS
<1> HIDE DEF head
<1>1. /\ h \in Seq(Byte) /\ Len(h) = 4
      /\ h[1] = a /\ h[2] = b /\ h[3] = lo /\ h[4] = hi
  <2>1. /\ h \in Seq(Byte) /\ Len(h) = Len(head) + 2
        /\ \A j \in 1 .. Len(head) : h[j] = head[j]
        /\ h[Len(head) + 1] = lo /\ h[Len(head) + 2] = hi
    <3>1. head \in Seq(Byte)
      BY <1>0
    <3> QED BY <3>1, TwoMore
  <2> HIDE DEF h
  <2>2. Len(head) + 1 = 3 /\ Len(head) + 2 = 4 /\ 1 \in 1 .. Len(head) /\ 2 \in 1 .. Len(head)
    BY <1>0
  <2> QED BY <1>0, <2>1, <2>2
<1> HIDE DEF h
<1>2. /\ w \in Seq(Byte) /\ Len(w) = 4 + Len(p)
      /\ \A j \in 1 .. 4 + Len(p) : w[j] = IF j <= 4 THEN h[j] ELSE p[j - 4]
  <2>1. /\ w \in Seq(Byte) /\ Len(w) = Len(h) + Len(p)
        /\ \A j \in 1 .. Len(h) + Len(p) : w[j] = IF j <= Len(h) THEN h[j] ELSE p[j - Len(h)]
    BY <1>1, ConcatProperties
  <2> HIDE DEF w
  <2> QED BY <1>1, <2>1
<1> HIDE DEF w
<1>3. /\ \A j \in 1 .. 4 : j \in 1 .. 4 + Len(p)
      /\ \A j \in 1 .. Len(p) : 4 + j \in 1 .. 4 + Len(p) /\ ~(4 + j <= 4) /\ (4 + j) - 4 = j
  OBVIOUS
<1>4. \A j \in 1 .. Len(p) : w[4 + j] = p[j]
  BY <1>2, <1>3
<1>5. \A j \in 1 .. 4 : w[j] = h[j]
  BY <1>2, <1>3
<1>6. w[1] = a /\ w[2] = b /\ w[3] = lo /\ w[4] = hi
  BY <1>1, <1>5
<1> QED BY <1>2, <1>4, <1>6, Zenon DEF w, h, head

(* Header, length and payload stand where the parsers look for them.       *)
LEMMA BodyHas ==
    ASSUME NEW f \in Frame
    PROVE  IsBody(<<f.cmd, f.seq>> \o Word(Len(f.payload)) \o f.payload, f)
<1> DEFINE p == f.payload
           n == Len(p)
           a == f.cmd
           b == f.seq
           lo == n % 256
           hi == n \div 256
           w == <<a, b>> \o <<lo, hi>> \o p
<1>1. a \in Byte /\ b \in Byte /\ p \in Seq(Byte) /\ n \in WordSet
  BY FrameHas
<1> HIDE DEF n
<1>2. lo \in Byte /\ hi \in Byte /\ lo + 256 * hi = n
  BY <1>1, WordBytes
<1> HIDE DEF p, a, b, lo, hi
<1>3. /\ w \in Seq(Byte) /\ Len(w) = 4 + Len(p)
      /\ w[1] = a /\ w[2] = b /\ w[3] = lo /\ w[4] = hi
      /\ \A j \in 1 .. Len(p) : w[4 + j] = p[j]
  BY <1>1, <1>2, HeaderAndRest
<1> HIDE DEF w
<1>4. Value(w, 3) = n
  BY <1>2, <1>3 DEF Value
<1>5. IsBody(w, f)
  BY <1>3, <1>4 DEF IsBody, p, n, a, b
<1>6. w = <<f.cmd, f.seq>> \o Word(Len(f.payload)) \o f.payload
  BY DEF w, p, n, a, b, lo, hi, Word
<1> QED BY <1>5, <1>6

(* A frame: its body, and the checksum of that.                            *)
IsFrame(w, f, b) ==
    /\ w \in Seq(Byte) /\ Len(w) = 6 + Len(f.payload) /\ IsBody(b, f)
    /\ \A j \in 1 .. 4 + Len(f.payload) : w[j] = b[j]
    /\ Value(w, Len(w) - 1) = crc16_ccitt(b)

(* What protocol_build_frame makes is such a body and its checksum.        *)
LEMMA BuildFrameHas == ASSUME NEW f \in Frame PROVE \E b : IsFrame(build_frame(f), f, b)
<1> DEFINE b == <<f.cmd, f.seq>> \o Word(Len(f.payload)) \o f.payload
           c == crc16_ccitt(b)
           w == b \o <<c % 256, c \div 256>>
           n == Len(f.payload)
<1>1. IsBody(b, f) /\ n \in Nat
  BY BodyHas, FrameHas
<1>2. build_frame(f) = w
  BY DEF build_frame, Word
<1> HIDE DEF b
<1>3. b \in Seq(Byte) /\ Len(b) = 4 + n
  BY <1>1 DEF IsBody
<1>4. c % 256 \in Byte /\ c \div 256 \in Byte /\ (c % 256) + 256 * (c \div 256) = c
  BY <1>3, ChecksumIsWord, WordBytes
<1> DEFINE lo == c % 256
           hi == c \div 256
<1>5. lo \in Byte /\ hi \in Byte /\ lo + 256 * hi = c /\ w = b \o <<lo, hi>>
  BY <1>4
<1> HIDE DEF lo, hi, w
<1>6. /\ w \in Seq(Byte) /\ Len(w) = Len(b) + 2
      /\ \A j \in 1 .. Len(b) : w[j] = b[j]
      /\ w[Len(b) + 1] = lo /\ w[Len(b) + 2] = hi
  BY <1>3, <1>5, TwoMore
<1> HIDE DEF c, n
<1>7. (4 + n) + 2 = 6 + n /\ Len(w) - 1 = Len(b) + 1 /\ (Len(w) - 1) + 1 = Len(b) + 2
  BY <1>1, <1>3, <1>6
<1>8. Value(w, Len(w) - 1) = c
  BY <1>5, <1>6, <1>7 DEF Value
<1>9. IsFrame(w, f, b)
  BY <1>1, <1>3, <1>6, <1>7, <1>8 DEF IsFrame, n, c
<1> QED BY <1>2, <1>9

(* Both parsers accept what build_frame makes, and find the frame in it.   *)
LEMMA FrameParsed ==
    ASSUME NEW f \in Frame
    PROVE  /\ build_frame(f) \in Seq(Byte) /\ build_frame(f) # <<>>
           /\ parse_frame(build_frame(f)) = [ok |-> TRUE, frame |-> f]
           /\ HostParse(build_frame(f)) = [ok |-> TRUE, frame |-> f]
<1> DEFINE w == build_frame(f)
           p == f.payload
           k == Len(p)
           n == Len(w)
<1>1. PICK b : IsFrame(w, f, b)
  BY BuildFrameHas
<1> HIDE DEF w
<1>2. /\ w \in Seq(Byte) /\ n = 6 + k
      /\ \A j \in 1 .. 4 + k : w[j] = b[j]
      /\ Value(w, n - 1) = crc16_ccitt(b)
  BY <1>1 DEF IsFrame
<1>3. /\ b \in Seq(Byte) /\ Len(b) = 4 + k
      /\ b[1] = f.cmd /\ b[2] = f.seq /\ Value(b, 3) = k
      /\ \A j \in 1 .. k : b[4 + j] = p[j]
  BY <1>1 DEF IsFrame, IsBody
<1>4. /\ p \in Seq(Byte) /\ k \in Nat
      /\ f = [cmd |-> f.cmd, seq |-> f.seq, payload |-> p]
  BY FrameHas
<1> HIDE DEF p, k, n
<1>5. n \in Nat /\ n >= 6 /\ n - 2 = 4 + k
  BY <1>2, <1>4
<1>6. SubSeq(w, 1, n - 2) = b
  <2> DEFINE s == SubSeq(w, 1, n - 2)
  <2>1. n - 2 \in 0 .. Len(w)
    BY <1>5 DEF n
  <2>2. s \in Seq(Byte) /\ Len(s) = n - 2 /\ \A j \in 1 .. n - 2 : s[j] = w[j]
    BY <1>2, <2>1, PrefixHas
  <2> HIDE DEF s
  <2>3. \A j \in 1 .. Len(s) : s[j] = b[j]
    BY <1>2, <1>5, <2>2
  <2>4. s = b
    BY <1>3, <1>5, <2>2, <2>3, SameBytes
  <2> QED BY <2>4 DEF s
<1>7. SubSeq(w, 5, n - 2) = p
  <2> DEFINE s == SubSeq(w, 5, n - 2)
  <2>1. 5 \in 1 .. Len(w) /\ n - 2 \in 1 .. Len(w)
    BY <1>5 DEF n
  <2>2. s \in Seq(Byte) /\ Len(s) = k /\ \A j \in 1 .. k : s[j] = w[4 + j]
    <3>1. /\ s \in Seq(Byte)
          /\ Len(s) = IF 5 <= n - 2 THEN (n - 2) - 5 + 1 ELSE 0
          /\ \A j \in 1 .. (n - 2) - 5 + 1 : s[j] = w[5 + j - 1]
      <4> HIDE DEF s
      <4> QED BY <1>2, <2>1, SubSeqProperties DEF s
    <3>2. (IF 5 <= n - 2 THEN (n - 2) - 5 + 1 ELSE 0) = k /\ (n - 2) - 5 + 1 = k
      BY <1>4, <1>5
    <3>3. \A j \in 1 .. k : 5 + j - 1 = 4 + j
      BY <1>4
    <3> HIDE DEF s
    <3> QED BY <3>1, <3>2, <3>3
  <2> HIDE DEF s
  <2>3. \A j \in 1 .. k : 4 + j \in 1 .. 4 + k
    BY <1>4
  <2>4. \A j \in 1 .. Len(s) : s[j] = p[j]
    BY <1>2, <1>3, <2>2, <2>3
  <2>5. s = p
    BY <1>4, <2>2, <2>4, SameBytes DEF k
  <2> QED BY <2>5 DEF s
<1>8. w[1] = f.cmd /\ w[2] = f.seq /\ Value(w, 3) = k
  <2>1. \A j \in {1, 2, 3, 4} : j \in 1 .. 4 + k
    BY <1>4
  <2>2. w[1] = f.cmd /\ w[2] = f.seq /\ w[3] = b[3] /\ w[4] = b[4]
    BY <1>2, <1>3, <2>1
  <2>3. Value(w, 3) = Value(b, 3)
    BY <2>2 DEF Value
  <2> QED BY <1>3, <2>2, <2>3
<1>9. Accepted(w) = [ok |-> TRUE, frame |-> f]
  BY <1>4, <1>7, <1>8 DEF Accepted, n
<1>10. parse_frame(w) = Accepted(w)
  BY <1>2, <1>5, <1>6, <1>8 DEF parse_frame, n
<1>11. HostParse(w) = Accepted(w)
  BY <1>2, <1>5, <1>6, <1>7, <1>8 DEF HostParse, n, k
<1>12. w # <<>>
  <2>1. Len(<<>>) = 0
    OBVIOUS
  <2> QED BY <1>5, <2>1 DEF n
<1> QED BY <1>2, <1>9, <1>10, <1>11, <1>12 DEF w

(* Every frame survives the wire in both directions: what protocol.py and  *)
(* the cobs package make of it, cobs_decode and protocol_parse_frame of    *)
(* the firmware take for that frame, and the other way round; and neither  *)
(* end writes a delimiter into it.                                         *)
THEOREM WireRoundTrip ==
    ASSUME NEW f \in Frame
    PROVE  /\ HostWire(f) \in Seq(Byte) /\ HostWire(f) # <<>> /\ NoZero(HostWire(f))
           /\ parse_frame(cobs_decode(HostWire(f))) = [ok |-> TRUE, frame |-> f]
           /\ DeviceWire(f) \in Seq(Byte) /\ DeviceWire(f) # <<>> /\ NoZero(DeviceWire(f))
           /\ HostParse(HostDecode(DeviceWire(f))) = [ok |-> TRUE, frame |-> f]
<1> DEFINE w == build_frame(f)
           h == HostEncode(w)
           d == cobs_encode(w)
<1>1. /\ w \in Seq(Byte) /\ w # <<>>
      /\ parse_frame(w) = [ok |-> TRUE, frame |-> f] /\ HostParse(w) = [ok |-> TRUE, frame |-> f]
  BY FrameParsed
<1>2. HostWire(f) = h /\ DeviceWire(f) = d
  BY DEF HostWire, DeviceWire
<1> HIDE DEF w
<1>3. h \in Seq(Byte) /\ h # <<>> /\ NoZero(h) /\ cobs_decode(h) = w
  BY <1>1, HostRoundTrip
<1>4. d \in Seq(Byte) /\ d # <<>> /\ NoZero(d) /\ cobs_decode(d) = w
  BY <1>1, DeviceRoundTrip DEF NoZero
<1> HIDE DEF h, d
<1>5. HostDecode(d) = cobs_decode(d)
  <2>1. DOMAIN d = 1 .. Len(d)
    BY <1>4
  <2> QED BY <1>4, <2>1 DEF HostDecode, NoZero
<1> QED BY <1>1, <1>2, <1>3, <1>4, <1>5

-----------------------------------------------------------------------------
(* One changed byte.                                                       *)

(* A bit of a byte.                                                        *)
Bit(a, weight) == (a \div weight) % 2

(* A byte is the sum of its bits.                                          *)
LEMMA BitsOfByte ==
    ASSUME NEW a \in Byte
    PROVE  /\ a = Bit(a, 1) + 2 * Bit(a, 2) + 4 * Bit(a, 4) + 8 * Bit(a, 8) + 16 * Bit(a, 16)
                  + 32 * Bit(a, 32) + 64 * Bit(a, 64) + 128 * Bit(a, 128)
BY Z3 DEF Bit, Byte

(* Where two bytes differ from a third alike, their bits are the same.     *)
LEMMA DifferIsBit ==
    ASSUME NEW a \in Byte, NEW b \in Byte, NEW c \in Byte,
           NEW w \in {1, 2, 4, 8, 16, 32, 64, 128}, Differ(a, c, w) = Differ(b, c, w)
    PROVE  Bit(a, w) = Bit(b, w)
BY Z3 DEF Bit, Byte, Differ

(* Combining with the same byte keeps what differs different.              *)
LEMMA XorByteCancels ==
    ASSUME NEW a \in Byte, NEW b \in Byte, NEW c \in Byte, XorByte(a, c) = XorByte(b, c)
    PROVE  a = b
<1> DEFINE W == {1, 2, 4, 8, 16, 32, 64, 128}
<1>1. \A w \in W : Differ(a, c, w) \in 0 .. 1 /\ Differ(b, c, w) \in 0 .. 1
  BY Z3 DEF Differ, Byte
<1>2. \A w \in W : Differ(a, c, w) = Differ(b, c, w)
  <2> DEFINE p0 == Differ(a, c, 1)    p1 == Differ(a, c, 2)    p2 == Differ(a, c, 4)
             p3 == Differ(a, c, 8)    p4 == Differ(a, c, 16)   p5 == Differ(a, c, 32)
             p6 == Differ(a, c, 64)   p7 == Differ(a, c, 128)
             q0 == Differ(b, c, 1)    q1 == Differ(b, c, 2)    q2 == Differ(b, c, 4)
             q3 == Differ(b, c, 8)    q4 == Differ(b, c, 16)   q5 == Differ(b, c, 32)
             q6 == Differ(b, c, 64)   q7 == Differ(b, c, 128)
  <2>1. /\ p0 \in 0 .. 1 /\ p1 \in 0 .. 1 /\ p2 \in 0 .. 1 /\ p3 \in 0 .. 1
        /\ p4 \in 0 .. 1 /\ p5 \in 0 .. 1 /\ p6 \in 0 .. 1 /\ p7 \in 0 .. 1
        /\ q0 \in 0 .. 1 /\ q1 \in 0 .. 1 /\ q2 \in 0 .. 1 /\ q3 \in 0 .. 1
        /\ q4 \in 0 .. 1 /\ q5 \in 0 .. 1 /\ q6 \in 0 .. 1 /\ q7 \in 0 .. 1
    BY <1>1
  <2>2. p0 + 2 * p1 + 4 * p2 + 8 * p3 + 16 * p4 + 32 * p5 + 64 * p6 + 128 * p7
          = q0 + 2 * q1 + 4 * q2 + 8 * q3 + 16 * q4 + 32 * q5 + 64 * q6 + 128 * q7
    BY DEF XorByte
  <2> HIDE DEF p0, p1, p2, p3, p4, p5, p6, p7,
              q0, q1, q2, q3, q4, q5, q6, q7
  <2>3. /\ p0 = q0 /\ p1 = q1 /\ p2 = q2 /\ p3 = q3
        /\ p4 = q4 /\ p5 = q5 /\ p6 = q6 /\ p7 = q7
    BY <2>1, <2>2, Z3
  <2> QED BY <2>3 DEF p0, p1, p2, p3, p4, p5, p6, p7,
              q0, q1, q2, q3, q4, q5, q6, q7
<1>3. \A w \in W : Bit(a, w) = Bit(b, w)
  BY <1>2, DifferIsBit
<1>4. /\ Bit(a, 1) = Bit(b, 1) /\ Bit(a, 2) = Bit(b, 2) /\ Bit(a, 4) = Bit(b, 4)
      /\ Bit(a, 8) = Bit(b, 8) /\ Bit(a, 16) = Bit(b, 16) /\ Bit(a, 32) = Bit(b, 32)
      /\ Bit(a, 64) = Bit(b, 64) /\ Bit(a, 128) = Bit(b, 128)
  BY <1>3
<1> QED BY <1>4, BitsOfByte

(* A word is given by its two bytes.                                       *)
LEMMA WordParts ==
    ASSUME NEW c \in WordSet, NEW d \in WordSet
    PROVE  /\ c \in Nat /\ c \div 256 \in Byte /\ c % 256 \in Byte
           /\ c \div 256 = d \div 256 /\ c % 256 = d % 256 => c = d
<1>1. c \in Nat /\ d \in Nat /\ c \div 256 \in Byte
  BY DEF WordSet
<1>2. c % 256 \in 0 .. 255
  BY <1>1, Z3
<1>3. c \div 256 = d \div 256 /\ c % 256 = d % 256 => c = d
  BY <1>1, Z3
<1> QED BY <1>1, <1>2, <1>3 DEF Byte

(* Combining with the same word keeps what differs different, as it does   *)
(* with a byte.                                                            *)
LEMMA XorCancels ==
    ASSUME NEW a \in WordSet, NEW b \in WordSet, NEW c \in WordSet, Xor(a, c) = Xor(b, c)
    PROVE  a = b
<1> DEFINE h(w) == w \div 256   l(w) == w % 256
           p == XorByte(h(a), h(c))   q == XorByte(l(a), l(c))
           r == XorByte(h(b), h(c))   s == XorByte(l(b), l(c))
<1>1. /\ h(a) \in Byte /\ l(a) \in Byte /\ h(b) \in Byte /\ l(b) \in Byte
      /\ h(c) \in Byte /\ l(c) \in Byte
  BY WordParts
<1>2. \A x \in Byte : x \in Nat
  BY DEF Byte
<1>3. p \in Byte /\ q \in Byte /\ r \in Byte /\ s \in Byte
  BY <1>1, <1>2, XorIsByte
<1>4. 256 * p + q = 256 * r + s
  BY DEF Xor
<1> HIDE DEF p, q, r, s
<1>5. p = r /\ q = s
  BY <1>3, <1>4, Z3 DEF Byte
<1>6. h(a) = h(b) /\ l(a) = l(b)
  BY <1>1, <1>5, XorByteCancels DEF p, q, r, s
<1> QED BY <1>6, WordParts

(* The order of the two words does not matter.                             *)
LEMMA XorCommutes == \A a \in Nat, b \in Nat : Xor(a, b) = Xor(b, a)
<1>1. \A a \in Nat, b \in Nat : XorByte(a, b) = XorByte(b, a)
  <2>1. \A a \in Nat, b \in Nat, w \in {1, 2, 4, 8, 16, 32, 64, 128} :
          Differ(a, b, w) = Differ(b, a, w)
    BY Z3 DEF Differ
  <2> QED BY <2>1 DEF XorByte
<1>2. \A a \in Nat : a \div 256 \in Nat /\ a % 256 \in Nat
  BY Z3
<1> QED BY <1>1, <1>2 DEF Xor

(* The polynomial is odd, so that the lowest bit of what a turn of the     *)
(* inner loop leaves tells whether it was brought in.                      *)
LEMMA ShiftParity ==
    ASSUME NEW c \in WordSet
    PROVE  ShiftBit(c) % 2 = IF c \div 256 < 128 THEN 0 ELSE 1
<1>1. CASE c \div 256 < 128
  <2>1. (c * 2) % 2 = 0
    BY Z3 DEF WordSet
  <2> QED BY <1>1, <2>1 DEF ShiftBit
<1>2. CASE ~ (c \div 256 < 128)
  <2> DEFINE e == (c * 2) % (256 * 256)   p == 16 * 256 + 33
             x == XorByte(e \div 256, p \div 256)   y == XorByte(e % 256, p % 256)
  <2>1. e \in Nat /\ e % 2 = 0
    BY Z3 DEF WordSet
  <2>2. p % 256 = 33 /\ p \div 256 \in Nat
    BY Z3
  <2> HIDE DEF e, p
  <2>3. e \div 256 \in Nat /\ e % 256 \in Nat /\ (e % 256) % 2 = 0
    BY <2>1, Z3
  <2>4. x \in Nat /\ y \in Nat /\ Xor(e, p) = 256 * x + y
    <3>1. x \in Byte /\ y \in Byte
      BY <2>2, <2>3, XorIsByte
    <3> QED BY <3>1 DEF Xor, Byte
  <2>5. y % 2 = 1
    <3> DEFINE k == e % 256
    <3>1. \A w \in {2, 4, 8, 16, 32, 64, 128} : Differ(k, 33, w) \in 0 .. 1
      BY <2>3, Z3 DEF Differ
    <3>2. Differ(k, 33, 1) = 1
      BY <2>3, Z3 DEF Differ
    <3>3. y = XorByte(k, 33)
      BY <2>2
    <3> HIDE DEF y, k
    <3> QED BY <3>1, <3>2, <3>3 DEF XorByte
  <2> HIDE DEF x, y
  <2>6. Xor(e, p) % 2 = 1
    BY <2>4, <2>5, Z3
  <2> QED BY <1>2, <2>6 DEF ShiftBit, e, p
<1> QED BY <1>1, <1>2

(* Other checksums are shifted to other checksums.                         *)
LEMMA ShiftCancels ==
    ASSUME NEW c \in WordSet, NEW d \in WordSet, ShiftBit(c) = ShiftBit(d)
    PROVE  c = d
<1>0. c \in Nat /\ d \in Nat /\ c \div 256 \in 0 .. 255 /\ d \div 256 \in 0 .. 255
  BY DEF WordSet, Byte
<1>1. c \div 256 < 128 <=> d \div 256 < 128
  BY ShiftParity
<1>2. CASE c \div 256 < 128
  <2>1. c * 2 = d * 2
    BY <1>1, <1>2 DEF ShiftBit
  <2> QED BY <1>0, <2>1
<1>3. CASE ~ (c \div 256 < 128)
  <2> DEFINE e == (c * 2) % (256 * 256)   f == (d * 2) % (256 * 256)   p == 16 * 256 + 33
  <2>1. Xor(e, p) = Xor(f, p)
    BY <1>1, <1>3 DEF ShiftBit
  <2>2. e \in WordSet /\ f \in WordSet /\ p \in WordSet
    BY <1>0, Z3 DEF WordSet, Byte
  <2> HIDE DEF e, f, p
  <2>3. e = f
    BY <2>1, <2>2, XorCancels
  <2>4. e = 2 * c - 256 * 256 /\ f = 2 * d - 256 * 256
    BY <1>0, <1>1, <1>3, Z3 DEF e, f
  <2>5. 2 * c - 256 * 256 = 2 * d - 256 * 256
    BY <2>3, <2>4
  <2> QED BY <1>0, <2>5, Z3
<1> QED BY <1>2, <1>3

(* A byte of the input is never lost: other checksums so far, or other     *)
(* bytes, lead to other checksums.                                         *)
LEMMA NextCrcCancels ==
    ASSUME NEW c \in WordSet, NEW d \in WordSet, NEW a \in Byte, NEW b \in Byte,
           c = d \/ a = b, NextCrc(c, a) = NextCrc(d, b)
    PROVE  c = d /\ a = b
<1>1. /\ c \in Nat /\ d \in Nat /\ a * 256 \in Nat /\ b * 256 \in Nat
      /\ a * 256 \in WordSet /\ b * 256 \in WordSet
  BY Z3 DEF WordSet, Byte
<1>2. \A x \in WordSet, y \in WordSet : ShiftFour(x) = ShiftFour(y) => x = y
  BY ShiftIsWord, ShiftCancels DEF ShiftFour, ShiftTwo
<1>3. \A x \in WordSet : ShiftFour(x) \in WordSet
  BY ShiftIsWord DEF ShiftFour, ShiftTwo
<1>4. Xor(c, a * 256) \in WordSet /\ Xor(d, b * 256) \in WordSet
  BY <1>1, XorIsWord
<1>5. Xor(c, a * 256) = Xor(d, b * 256)
  BY <1>2, <1>3, <1>4 DEF NextCrc
<1>6. CASE c = d
  <2>1. Xor(a * 256, c) = Xor(b * 256, c)
    BY <1>1, <1>5, <1>6, XorCommutes
  <2>2. a * 256 = b * 256
    BY <1>1, <2>1, XorCancels
  <2> QED BY <1>6, <2>2 DEF Byte
<1>7. CASE a = b
  BY <1>1, <1>5, <1>7, XorCancels
<1> QED BY <1>6, <1>7

(* x and y differ in one byte.                                             *)
OtherAt(x, y, p) ==
    /\ x \in Seq(Byte) /\ y \in Seq(Byte) /\ Len(x) = Len(y) /\ p \in 1 .. Len(x)
    /\ \A j \in 1 .. Len(x) : x[j] = y[j] <=> j # p

(* Their checksums differ from there on.                                   *)
LEMMA ChecksumTells ==
    ASSUME NEW x, NEW y, NEW p, OtherAt(x, y, p)
    PROVE  crc16_ccitt(x) # crc16_ccitt(y)
<1> DEFINE n == Len(x)   C(i) == Checksums(x)[i]   D(i) == Checksums(y)[i]
           S == {i \in Nat : i <= n => (C(i) = D(i) <=> i < p)}
<1>1. /\ x \in Seq(Byte) /\ y \in Seq(Byte) /\ Len(y) = n /\ n \in Nat /\ p \in 1 .. n
      /\ \A j \in 1 .. n : x[j] \in Byte /\ y[j] \in Byte /\ (x[j] = y[j] <=> j # p)
  BY DEF OtherAt
<1>2. \A i \in 0 .. n : /\ C(i) \in WordSet
                        /\ C(i) = IF i = 0 THEN First ELSE NextCrc(C(i - 1), x[i])
  BY <1>1, ChecksumsAre
<1>3. \A i \in 0 .. n : /\ D(i) \in WordSet
                        /\ D(i) = IF i = 0 THEN First ELSE NextCrc(D(i - 1), y[i])
  BY <1>1, ChecksumsAre
<1> HIDE DEF C, D, n
<1>4. 0 \in S
  BY <1>1, <1>2, <1>3
<1>5. ASSUME NEW k \in Nat, k \in S PROVE k + 1 \in S
  <2> SUFFICES ASSUME k + 1 <= n PROVE C(k + 1) = D(k + 1) <=> k + 1 < p
    OBVIOUS
  <2> DEFINE i == k + 1
  <2>1. /\ i \in 1 .. n /\ i \in 0 .. n /\ i # 0 /\ i - 1 = k /\ k \in 0 .. n
        /\ (i < p <=> k < p /\ i # p)
    BY <1>1
  <2> HIDE DEF i
  <2>2. C(k) = D(k) <=> k < p
    BY <1>1, <1>5, <2>1
  <2>3. C(i) = NextCrc(C(k), x[i]) /\ D(i) = NextCrc(D(k), y[i])
    BY <1>2, <1>3, <2>1
  <2>4. /\ C(k) \in WordSet /\ D(k) \in WordSet /\ x[i] \in Byte /\ y[i] \in Byte
        /\ (x[i] = y[i] <=> i # p)
    BY <1>1, <1>2, <1>3, <2>1
  <2>5. CASE k < p /\ i # p
    BY <2>1, <2>2, <2>3, <2>4, <2>5
  <2>6. CASE k < p /\ i = p
    <3>1. C(k) = D(k) /\ x[i] # y[i]
      BY <2>2, <2>4, <2>6
    <3>2. C(i) # D(i)
      BY <2>3, <2>4, <3>1, NextCrcCancels
    <3> QED BY <2>1, <2>6, <3>2 DEF i
  <2>7. CASE ~ (k < p)
    <3>1. C(k) # D(k) /\ x[i] = y[i]
      BY <1>1, <2>1, <2>2, <2>4, <2>7
    <3>2. C(i) # D(i)
      BY <2>3, <2>4, <3>1, NextCrcCancels
    <3> QED BY <2>1, <2>7, <3>2 DEF i
  <2> QED BY <2>5, <2>6, <2>7
<1>6. n \in S
  <2> HIDE DEF S
  <2>1. \A k \in Nat : k \in S => k + 1 \in S
    BY <1>5
  <2>2. Nat \subseteq S
    BY <1>4, <2>1, InductionOnSet
  <2> QED BY <1>1, <2>2
<1>7. C(n) # D(n)
  BY <1>1, <1>6
<1> QED BY <1>1, <1>7 DEF crc16_ccitt, C, D, n

(* One byte of a frame that has come through changed, be it of the header, *)
(* the payload or the checksum, and of a frame of any length: neither      *)
(* protocol_parse_frame nor parse_frame of protocol.py takes it for a      *)
(* frame.  (The byte is one of the decoded frame.  One lost or changed on  *)
(* the wire may shift or cut what is decoded; that is left to FramesArrive *)
(* and the runs.)                                                          *)
THEOREM ChangedByteRefused ==
    ASSUME NEW f \in Frame, NEW i \in 1 .. Len(build_frame(f)),
           NEW b \in Byte, b # build_frame(f)[i]
    PROVE  /\ parse_frame([build_frame(f) EXCEPT ![i] = b]) = Refused
           /\ HostParse([build_frame(f) EXCEPT ![i] = b]) = Refused
<1> DEFINE w == build_frame(f)   v == [w EXCEPT ![i] = b]   n == Len(w)
           s == SubSeq(w, 1, n - 2)   t == SubSeq(v, 1, n - 2)
<1>1. PICK c : IsFrame(w, f, c)
  BY BuildFrameHas
<1> HIDE DEF w
<1>2. w \in Seq(Byte) /\ n \in Nat /\ n >= 6 /\ n - 2 \in 0 .. n
  <2>1. Len(f.payload) \in Nat
    BY FrameHas
  <2> QED BY <1>1, <2>1 DEF IsFrame
<1>3. /\ v \in Seq(Byte) /\ Len(v) = n /\ v[i] # w[i]
      /\ \A j \in 1 .. n : j # i => v[j] = w[j]
  BY <1>2 DEF w
<1> HIDE DEF v
<1>4. /\ s \in Seq(Byte) /\ Len(s) = n - 2 /\ \A j \in 1 .. n - 2 : s[j] = w[j]
      /\ t \in Seq(Byte) /\ Len(t) = n - 2 /\ \A j \in 1 .. n - 2 : t[j] = v[j]
  BY <1>2, <1>3, PrefixHas
<1> HIDE DEF s, t
<1>5. Value(w, n - 1) = crc16_ccitt(s)
  <2>1. Len(c) = n - 2 /\ c \in Seq(Byte) /\ \A j \in 1 .. n - 2 : w[j] = c[j]
    <3>1. /\ Len(w) = 6 + Len(f.payload) /\ Len(c) = 4 + Len(f.payload) /\ c \in Seq(Byte)
          /\ \A j \in 1 .. 4 + Len(f.payload) : w[j] = c[j]
      BY <1>1 DEF IsFrame, IsBody
    <3>2. Len(f.payload) \in Nat
      BY FrameHas
    <3>3. 4 + Len(f.payload) = n - 2
      BY <3>1, <3>2
    <3> QED BY <3>1, <3>3
  <2>2. s = c
    BY <1>4, <2>1, SameBytes
  <2> QED BY <1>1, <2>2 DEF IsFrame
<1>6. Value(v, n - 1) # crc16_ccitt(t)
  <2>1. i \in 1 .. n
    BY DEF w
  <2>2. CASE i <= n - 2
    <3>1. Value(v, n - 1) = Value(w, n - 1)
      <4>1. n - 1 \in 1 .. n /\ (n - 1) + 1 \in 1 .. n /\ n - 1 # i /\ (n - 1) + 1 # i
        BY <1>2, <2>1, <2>2
      <4> QED BY <1>3, <4>1 DEF Value
    <3>2. OtherAt(s, t, i)
      <4>1. \A j \in 1 .. n - 2 : j \in 1 .. n
        BY <1>2
      <4>2. i \in 1 .. n - 2
        BY <1>2, <2>1, <2>2
      <4> QED BY <1>3, <1>4, <4>1, <4>2 DEF OtherAt
    <3> QED BY <1>5, <3>1, <3>2, ChecksumTells
  <2>3. CASE ~ (i <= n - 2)
    <3>1. s = t
      <4>1. \A j \in 1 .. n - 2 : j \in 1 .. n /\ j # i
        BY <1>2, <2>1, <2>3
      <4>2. \A j \in 1 .. Len(s) : s[j] = t[j]
        BY <1>3, <1>4, <4>1
      <4> QED BY <1>4, <4>2, SameBytes
    <3>2. Value(v, n - 1) # Value(w, n - 1)
      <4> DEFINE a == w[n - 1]   d == w[n]   p == v[n - 1]   q == v[n]
      <4>1. n - 1 \in 1 .. n /\ n \in 1 .. n /\ (n - 1) + 1 = n /\ (i = n - 1 \/ i = n) /\ n - 1 # n
        BY <1>2, <2>1, <2>3
      <4>2. /\ a \in Byte /\ d \in Byte /\ p \in Byte /\ q \in Byte
            /\ (a # p /\ d = q) \/ (a = p /\ d # q)
        BY <1>2, <1>3, <4>1
      <4> HIDE DEF a, d, p, q
      <4>3. a + 256 * d # p + 256 * q
        BY <4>2 DEF Byte
      <4> QED BY <4>1, <4>3 DEF Value, a, d, p, q
    <3> QED BY <1>5, <3>1, <3>2
  <2> QED BY <2>2, <2>3
<1>7. parse_frame(v) = Refused /\ HostParse(v) = Refused
  BY <1>3, <1>6 DEF parse_frame, HostParse, t
<1> QED BY <1>7 DEF v, w

-----------------------------------------------------------------------------
(* Sizes.                                                                  *)

(* n bytes have become l, with k blocks that are full and m bytes after    *)
(* the last of them: a full block costs one byte.                          *)
Costs(l, n, k, m) == k \in Nat /\ l = n + k /\ k * (FullCode - 1) + m <= n

(* One more full block.                                                    *)
LEMMA FullBlock ==
    ASSUME NEW l \in Nat, NEW n \in Nat, NEW k, NEW m \in Nat, Costs(l, n, k, m),
           m + 1 = FullCode - 1
    PROVE  Costs(l + 2, n + 1, k + 1, 0)
<1> DEFINE c == FullCode - 1
<1>1. c \in Nat /\ k \in Nat /\ l = n + k /\ k * c + m <= n /\ m + 1 = c
  BY FullCodeAssumption DEF Costs
<1> HIDE DEF c
<1>2. (k + 1) * c = k * c + c
  BY <1>1
<1>3. k * c \in Nat
  BY <1>1
<1>4. (k + 1) * c + 0 <= n + 1
  BY <1>1, <1>2, <1>3
<1> QED BY <1>1, <1>4 DEF Costs, c

(* What the block that is open has costs nothing beyond its code.          *)
LEMMA OpenBlock ==
    ASSUME NEW l \in Nat, NEW n \in Nat, NEW k, NEW m \in Nat, Costs(l, n, k, m),
           NEW o \in Nat, o <= m + 1
    PROVE  Costs(l + 1, n + 1, k, o)
<1> DEFINE d == k * (FullCode - 1)
<1>1. k \in Nat /\ l = n + k /\ d + m <= n
  BY DEF Costs
<1>2. d \in Nat
  <2>1. FullCode - 1 \in Nat
    BY FullCodeAssumption
  <2> QED BY <1>1, <2>1
<1> HIDE DEF d
<1>3. d + o <= n + 1 /\ l + 1 = (n + 1) + k
  BY <1>1, <1>2
<1> QED BY <1>1, <1>3 DEF Costs, d

(* What an encoder that has read n bytes has written: the firmware's has   *)
(* left room for a code, ...                                               *)
DeviceCost(s, n) ==
    \E l \in Nat, m \in Nat, k \in Nat : Len(s.out) = l + 1 /\ s.code = m + 1 /\ Costs(l, n, k, m)

(* ... and the host's still holds a run back.                              *)
HostCost(s, n) ==
    \E l \in Nat, m \in Nat, k \in Nat : Len(s.out) = l /\ Len(s.run) = m /\ Costs(l + m, n, k, m)

(* Nothing costs nothing.                                                  *)
LEMMA NothingCosts == Costs(0, 0, 0, 0)
BY FullCodeAssumption DEF Costs

(* Sizes that add up.                                                      *)
LEMMA HostCostMade ==
    ASSUME NEW s, NEW l \in Nat, NEW m \in Nat, NEW c, NEW n, NEW k \in Nat,
           Len(s.out) = l, Len(s.run) = m, l + m = c, Costs(c, n, k, m)
    PROVE  HostCost(s, n)
<1>1. Costs(l + m, n, k, m)
  BY Zenon
<1> QED BY <1>1, Zenon DEF HostCost

(* The size of some blocks and one more.                                   *)
LEMMA PieceLength ==
    ASSUME NEW out \in Seq(Byte), NEW code \in Byte, NEW run \in Seq(Byte)
    PROVE  Len(Piece(out, code, run)) = Len(out) + 1 + Len(run)
<1>1. IsPiece(Piece(out, code, run), out, code, run)
  BY PieceHas
<1> QED BY <1>1, Zenon DEF IsPiece

(* The firmware's encoder reads another byte.                              *)
LEMMA DeviceCosts ==
    ASSUME NEW t \in Encoders, NEW b \in Byte, NEW n \in Nat, DeviceCost(t, n)
    PROVE  DeviceCost(EncodeByte(t, b), n + 1)
<1> DEFINE u == EncodeByte(t, b)
<1>1. PICK l \in Nat, m \in Nat, k \in Nat : /\ Len(t.out) = l + 1 /\ t.code = m + 1
                                             /\ Costs(l, n, k, m)
  BY DEF DeviceCost
<1>2. t \in Blocks
  BY DEF Encoders
<1>3. u = IF b = 0 THEN CloseBlock(t)
          ELSE IF t.code + 1 = FullCode THEN CloseBlock(TakeByte(t, b)) ELSE TakeByte(t, b)
  BY EncodeByteCases
<1> HIDE DEF u
<1>4. CASE b = 0
  <2>1. Len(u.out) = (l + 1) + 1 /\ u.code = 0 + 1
    BY <1>1, <1>2, <1>3, <1>4, CloseHas
  <2>2. Costs(l + 1, n + 1, k, 0)
    BY <1>1, OpenBlock
  <2> QED BY <2>1, <2>2 DEF DeviceCost, u
<1>5. CASE b # 0 /\ t.code + 1 = FullCode
  <2> DEFINE v == TakeByte(t, b)
  <2>1. v \in Blocks /\ Len(v.out) = (l + 1) + 1
    BY <1>1, <1>5, TakeHas
  <2>2. u = CloseBlock(v)
    BY <1>3, <1>5
  <2> HIDE DEF v
  <2>3. Len(u.out) = Len(v.out) + 1 /\ u.code = 1
    BY <2>1, <2>2, CloseHas
  <2>4. Len(u.out) = (l + 2) + 1 /\ u.code = 0 + 1
    BY <2>1, <2>3
  <2>5. m + 1 = FullCode - 1
    <3>1. (m + 1) + 1 = FullCode
      BY <1>1, <1>5
    <3> QED BY <3>1, FullCodeAssumption
  <2>6. Costs(l + 2, n + 1, k + 1, 0)
    BY <1>1, <2>5, FullBlock
  <2> QED BY <2>4, <2>6 DEF DeviceCost, u
<1>6. CASE b # 0 /\ t.code + 1 # FullCode
  <2>1. Len(u.out) = (l + 1) + 1 /\ u.code = (m + 1) + 1
    BY <1>1, <1>3, <1>6, TakeHas
  <2>2. Costs(l + 1, n + 1, k, m + 1)
    BY <1>1, OpenBlock
  <2> QED BY <2>1, <2>2 DEF DeviceCost, u
<1> QED BY <1>4, <1>5, <1>6

(* The host's encoder reads another byte.                                  *)
LEMMA HostCosts ==
    ASSUME NEW t \in HostEncoders, NEW b \in Byte, NEW n \in Nat, HostCost(t, n)
    PROVE  HostCost(HostEncodeByte(t, b), n + 1)
<1> DEFINE u == HostEncodeByte(t, b)
<1>1. PICK l \in Nat, m \in Nat, k \in Nat : /\ Len(t.out) = l /\ Len(t.run) = m
                                             /\ Costs(l + m, n, k, m)
  BY DEF HostCost
<1>2. t.out \in Seq(Byte) /\ t.run \in Seq(Byte) /\ Len(t.run) + 1 \in Byte
  BY HostHas
<1>3. CASE b = 0
  <2>1. u.out = Piece(t.out, Len(t.run) + 1, t.run) /\ u.run = <<>>
    BY <1>3 DEF HostEncodeByte, Piece
  <2> HIDE DEF u
  <2>2. Len(u.out) = (l + 1) + m
    BY <1>1, <1>2, <2>1, PieceLength
  <2>3. Len(u.run) = 0
    BY <2>1
  <2>4. Costs((l + m) + 1, n + 1, k, 0)
    BY <1>1, OpenBlock
  <2> DEFINE a == (l + 1) + m   c == (l + m) + 1
  <2>5. a + 0 = c /\ a \in Nat /\ 0 \in Nat /\ Len(u.out) = a /\ Costs(c, n + 1, k, 0)
    BY <2>2, <2>4
  <2> HIDE DEF a, c
  <2>6. HostCost(u, n + 1)
    BY <2>3, <2>5, HostCostMade
  <2> QED BY <2>6 DEF u
<1>4. CASE b # 0 /\ Len(t.run) = FullCode - 2
  <2> DEFINE r == Append(t.run, b)
  <2>1. r \in Seq(Byte) /\ Len(r) = m + 1
    BY <1>1, <1>2, AppendHas
  <2>2. u.out = Piece(t.out, FullCode, r) /\ u.run = <<>>
    BY <1>4 DEF HostEncodeByte, Piece
  <2> HIDE DEF u, r
  <2>3. FullCode \in Byte
    BY FullCodeAssumption DEF Byte
  <2>4. Len(u.out) = (l + 1) + (m + 1)
    BY <1>1, <1>2, <2>1, <2>2, <2>3, PieceLength
  <2>5. Len(u.run) = 0
    BY <2>2
  <2>6. m + 1 = FullCode - 1
    <3>1. m = FullCode - 2
      BY <1>1, <1>4
    <3> QED BY <3>1, FullCodeAssumption
  <2>7. Costs((l + m) + 2, n + 1, k + 1, 0)
    BY <1>1, <2>6, FullBlock
  <2>8. ((l + 1) + (m + 1)) + 0 = (l + m) + 2 /\ (l + 1) + (m + 1) \in Nat
    OBVIOUS
  <2> QED BY <2>4, <2>5, <2>7, <2>8, HostCostMade DEF u
<1>5. CASE b # 0 /\ Len(t.run) # FullCode - 2
  <2>1. u.out = t.out /\ u.run = Append(t.run, b)
    BY <1>5 DEF HostEncodeByte
  <2> HIDE DEF u
  <2>2. Len(u.out) = l /\ Len(u.run) = m + 1
    BY <1>1, <1>2, <2>1, AppendHas
  <2>3. Costs((l + m) + 1, n + 1, k, m + 1)
    BY <1>1, OpenBlock
  <2> DEFINE o == m + 1   c == (l + m) + 1
  <2>4. l + o = c /\ o \in Nat /\ Len(u.run) = o /\ Costs(c, n + 1, k, o)
    BY <2>2, <2>3
  <2> HIDE DEF o, c
  <2>5. HostCost(u, n + 1)
    BY <2>2, <2>4, HostCostMade
  <2> QED BY <2>5 DEF u
<1> QED BY <1>3, <1>4, <1>5

(* So after each prefix.                                                   *)
LEMMA SizesAre ==
    ASSUME NEW x \in Seq(Byte)
    PROVE  \A n \in 0 .. Len(x) : DeviceCost(Encoding(x)[n], n) /\ HostCost(HostEncoding(x)[n], n)
<1> DEFINE s(n) == Encoding(x)[n]   h(n) == HostEncoding(x)[n]
           S == {n \in Nat : n <= Len(x) => DeviceCost(s(n), n) /\ HostCost(h(n), n)}
<1>1. Len(x) \in Nat
  OBVIOUS
<1>2. \A n \in 0 .. Len(x) : /\ s(n) \in Encoders
                             /\ s(n) = IF n = 0 THEN EncoderStart ELSE EncodeByte(s(n - 1), x[n])
  BY EncodingIs
<1>3. \A n \in 0 .. Len(x) :
          /\ h(n) \in HostEncoders
          /\ h(n) = IF n = 0 THEN HostEncoderStart ELSE HostEncodeByte(h(n - 1), x[n])
  BY HostEncodingIs
<1>4. \A n \in S : n <= Len(x) => DeviceCost(s(n), n) /\ HostCost(h(n), n)
  OBVIOUS
<1>5. \A n \in Nat : (n <= Len(x) => DeviceCost(s(n), n) /\ HostCost(h(n), n)) => n \in S
  OBVIOUS
<1> HIDE DEF s, h, S
<1>6. 0 \in S
  <2>1. s(0) = EncoderStart /\ h(0) = HostEncoderStart
    BY <1>1, <1>2, <1>3
  <2>2. EncoderStart.out = <<0>> /\ EncoderStart.code = 1
        /\ HostEncoderStart.out = <<>> /\ HostEncoderStart.run = <<>>
    BY DEF EncoderStart, HostEncoderStart
  <2>3. Len(EncoderStart.out) = 0 + 1 /\ EncoderStart.code = 0 + 1
        /\ Len(HostEncoderStart.out) = 0 /\ Len(HostEncoderStart.run) = 0
    BY <2>2
  <2>4. DeviceCost(EncoderStart, 0)
    BY <2>3, NothingCosts DEF DeviceCost
  <2>5. HostCost(HostEncoderStart, 0)
    <3>1. Costs(0 + 0, 0, 0, 0)
      BY NothingCosts
    <3> QED BY <2>3, <3>1 DEF HostCost
  <2> QED BY <1>5, <2>1, <2>4, <2>5
<1>7. ASSUME NEW n \in Nat, n \in S PROVE n + 1 \in S
  <2> SUFFICES ASSUME n + 1 <= Len(x)
               PROVE  DeviceCost(s(n + 1), n + 1) /\ HostCost(h(n + 1), n + 1)
    BY <1>5
  <2>1. /\ n \in 0 .. Len(x) /\ n + 1 \in 0 .. Len(x) /\ n + 1 # 0 /\ (n + 1) - 1 = n
        /\ n + 1 \in 1 .. Len(x) /\ n <= Len(x)
    BY <1>1
  <2>2. x[n + 1] \in Byte /\ DeviceCost(s(n), n) /\ HostCost(h(n), n)
    BY <1>4, <1>7, <2>1
  <2>3. s(n) \in Encoders /\ s(n + 1) = EncodeByte(s(n), x[n + 1])
    BY <1>2, <2>1
  <2>4. h(n) \in HostEncoders /\ h(n + 1) = HostEncodeByte(h(n), x[n + 1])
    BY <1>3, <2>1
  <2> QED BY <2>2, <2>3, <2>4, DeviceCosts, HostCosts
<1>8. Nat \subseteq S
  BY <1>6, <1>7, InductionOnSet
<1>9. \A n \in 0 .. Len(x) : n \in Nat /\ n <= Len(x)
  BY <1>1
<1> QED BY <1>4, <1>8, <1>9 DEF s, h

(* What was given, a byte for each full block, and one more.               *)
WithinCost(e, x) ==
    \E k \in Nat : Len(e) <= Len(x) + k + 1 /\ k * (FullCode - 1) <= Len(x)

(* The sizes of both encoders' results.                                    *)
LEMMA CostBound ==
    ASSUME NEW l \in Nat, NEW n \in Nat, NEW k, NEW m \in Nat, Costs(l, n, k, m)
    PROVE  k \in Nat /\ l = n + k /\ k * (FullCode - 1) <= n
<1> DEFINE d == k * (FullCode - 1)
<1>1. k \in Nat /\ l = n + k /\ d + m <= n
  BY DEF Costs
<1>2. FullCode - 1 \in Nat
  BY FullCodeAssumption
<1>3. d \in Nat
  BY <1>1, <1>2
<1> HIDE DEF d
<1>4. d <= n
  BY <1>1, <1>3
<1> QED BY <1>1, <1>4 DEF d

(* Neither encoder writes more than a byte for each full block and one     *)
(* beyond what it is given.                                                *)
THEOREM EncodedSize ==
    ASSUME NEW x \in Seq(Byte), x # <<>>
    PROVE  WithinCost(cobs_encode(x), x) /\ WithinCost(HostEncode(x), x)
<1> DEFINE n == Len(x)
<1>1. n \in Nat /\ n \in 0 .. n
  OBVIOUS
<1>2. WithinCost(cobs_encode(x), x)
  <2> DEFINE s == Encoding(x)[n]   e == cobs_encode(x)
  <2>1. s \in Blocks /\ DeviceCost(s, n)
    BY <1>1, EncodingIs, SizesAre DEF Encoders
  <2>2. e = [s.out EXCEPT ![s.at] = s.code]
    BY DEF cobs_encode
  <2> HIDE DEF s, n, e
  <2>3. s.out \in Seq(Byte) /\ s.at \in 1 .. Len(s.out) /\ s.code \in Byte
    BY <2>1, BlocksHave
  <2>4. Len(e) = Len(s.out)
    BY <2>2, <2>3
  <2>5. PICK l \in Nat, m \in Nat, k \in Nat : Len(s.out) = l + 1 /\ Costs(l, n, k, m)
    BY <2>1 DEF DeviceCost
  <2>6. k \in Nat /\ l = n + k /\ k * (FullCode - 1) <= n
    BY <1>1, <2>5, CostBound
  <2>7. Len(e) <= n + k + 1
    BY <1>1, <2>4, <2>5, <2>6
  <2> QED BY <2>6, <2>7 DEF WithinCost, n, e
<1>3. WithinCost(HostEncode(x), x)
  <2> DEFINE s == HostEncoding(x)[n]   c == Len(s.run) + 1   e == HostEncode(x)
  <2>1. s \in HostEncoders /\ HostCost(s, n)
    BY <1>1, HostEncodingIs, SizesAre
  <2>2. e = IF s.open \/ s.run # <<>> THEN Piece(s.out, c, s.run) ELSE s.out
    BY Zenon DEF HostEncode, Piece
  <2>3. s.out \in Seq(Byte) /\ s.run \in Seq(Byte) /\ c \in Byte
    BY <2>1, HostHas
  <2> HIDE DEF s, n, e, c
  <2>4. Len(Piece(s.out, c, s.run)) = Len(s.out) + 1 + Len(s.run)
    BY <2>3, PieceLength
  <2>5. PICK l \in Nat, m \in Nat, k \in Nat : /\ Len(s.out) = l /\ Len(s.run) = m
                                               /\ Costs(l + m, n, k, m)
    BY <2>1 DEF HostCost
  <2>6. Len(e) = (l + 1) + m \/ Len(e) = l
    BY <2>2, <2>4, <2>5
  <2>7. l + m \in Nat
    OBVIOUS
  <2>8. k \in Nat /\ l + m = n + k /\ k * (FullCode - 1) <= n
    BY <1>1, <2>5, <2>7, CostBound
  <2>9. Len(e) <= n + k + 1
    BY <1>1, <2>6, <2>8
  <2> QED BY <2>8, <2>9 DEF WithinCost, n, e
<1> QED BY <1>2, <1>3

(* The sizes of protocol.h: PROTOCOL_MAX_PAYLOAD and COBS_MAX_ENCODED.     *)
MaxPayloadBytes == 255
MaxEncoded      == 264

(* What is written of a frame whose payload is at most as long as the      *)
(* firmware allows fits into encoded[COBS_MAX_ENCODED], which cobs_encode  *)
(* fills without a check, and with its delimiter into a frame of the       *)
(* packet queue; and what the host writes fits into s_encoded_frame.       *)
THEOREM FramesFit ==
    ASSUME FullCode = 255, NEW f \in Frame, Len(f.payload) <= MaxPayloadBytes
    PROVE  Len(DeviceWire(f)) < MaxEncoded /\ Len(HostWire(f)) < MaxEncoded
<1> DEFINE w == build_frame(f)   n == Len(f.payload)
<1>1. PICK c : IsFrame(w, f, c)
  BY BuildFrameHas
<1>2. n \in Nat
  BY FrameHas
<1>3. w \in Seq(Byte) /\ Len(w) = 6 + n
  BY <1>1 DEF IsFrame
<1> HIDE DEF w, n
<1>4. n <= 255
  BY DEF n, MaxPayloadBytes
<1>5. w # <<>>
  BY <1>2, <1>3
<1>6. ASSUME NEW e, WithinCost(e, w), Len(e) \in Nat PROVE Len(e) < MaxEncoded
  <2> DEFINE l == Len(e)
  <2>1. PICK k \in Nat : l <= Len(w) + k + 1 /\ k * (FullCode - 1) <= Len(w)
    BY <1>6, Zenon DEF WithinCost
  <2>2. l <= (6 + n) + k + 1 /\ k * 254 <= 6 + n /\ l \in Nat
    BY <1>3, <1>6, <2>1
  <2> HIDE DEF l
  <2>3. k <= 1
    BY <1>2, <1>4, <2>2
  <2>4. l < 264
    BY <1>2, <1>4, <2>2, <2>3
  <2> QED BY <2>4 DEF MaxEncoded, l
<1>7. WithinCost(cobs_encode(w), w) /\ WithinCost(HostEncode(w), w)
  BY <1>3, <1>5, EncodedSize
<1>8. cobs_encode(w) = DeviceWire(f) /\ HostEncode(w) = HostWire(f)
  BY DEF w, DeviceWire, HostWire
<1>9. Len(DeviceWire(f)) \in Nat /\ Len(HostWire(f)) \in Nat
  BY WireRoundTrip
<1> QED BY <1>6, <1>7, <1>8, <1>9
=============================================================================
