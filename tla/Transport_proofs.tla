--------------------------- MODULE Transport_proofs ---------------------------
(***************************************************************************)
(* Proofs about the two ways in which bytes are taken apart.               *)
(*                                                                         *)
(* The serial line: the reader is resynchronised by every delimiter, for   *)
(* every size of buffer and budget, any bytes and any moments at which     *)
(* they arrive (ReaderSplits); the line with its two ends is such a        *)
(* reader; and an undamaged frame is read as itself, whatever the damage   *)
(* around it (UndamagedRead).                                              *)
(*                                                                         *)
(* The entries of the RF core: parsers, link-layer manager and report hand *)
(* on the bytes, signal strength and time stamp of every packet, and its   *)
(* channel whatever retunes come between, but for one stored while a       *)
(* retune is under way (EntriesRead).                                      *)
(***************************************************************************)
EXTENDS Wire_proofs, RxEntry, FiniteSetTheorems

-----------------------------------------------------------------------------
(* Runs of a sequence that grows by a byte.                                *)

(* The pair <<s, t>> is a run.                                             *)
Solid(c, s, t) == \A i \in s .. t : c[i] # 0
IsRun(c, s, t) ==
    /\ s \in 1 .. Len(c) /\ t \in 1 .. Len(c) /\ s <= t
    /\ Solid(c, s, t)
    /\ s = 1 \/ c[s - 1] = 0
    /\ t < Len(c) /\ c[t + 1] = 0

(* The definition of Runs, by first and last index.                        *)
LEMMA RunsAre ==
    ASSUME NEW c \in Seq(Byte)
    PROVE  /\ \A s, t : <<s, t>> \in Runs(c) <=> IsRun(c, s, t)
           /\ \A r \in Runs(c) : r = <<r[1], r[2]>> /\ IsRun(c, r[1], r[2])
<1>1. DOMAIN c = 1 .. Len(c)
  OBVIOUS
<1>2. ASSUME NEW s, NEW t PROVE <<s, t>> \in Runs(c) <=> IsRun(c, s, t)
  BY <1>1 DEF Runs, IsRun, Solid
<1>3. ASSUME NEW r \in Runs(c) PROVE r = <<r[1], r[2]>>
  BY DEF Runs
<1> QED BY <1>2, <1>3

(* After position b come the bytes that no delimiter has ended yet.        *)
Open(c, b) ==
    /\ b \in 0 .. Len(c)
    /\ b = 0 \/ c[b] = 0
    /\ \A j \in b + 1 .. Len(c) : c[j] # 0

(* There is no other such position, so it is the one Partial begins at.    *)
LEMMA OpenIsBegun ==
    ASSUME NEW c \in Seq(Byte), NEW b, Open(c, b)
    PROVE  Begun(c) = b
<1>1. \A i \in 0 .. Len(c) :
          (i = 0 \/ c[i] = 0) /\ (\A j \in i + 1 .. Len(c) : c[j] # 0) => i = b
  BY DEF Open
<1> QED BY <1>1 DEF Open, Begun

(* The bytes that no delimiter has ended, one by one.                      *)
LEMMA PartialIs ==
    ASSUME NEW c \in Seq(Byte), NEW b, Open(c, b)
    PROVE  /\ Partial(c) = SubSeq(c, b + 1, Len(c))
           /\ Partial(c) \in Seq(Byte)
           /\ Len(Partial(c)) = Len(c) - b
           /\ \A i \in 1 .. Len(c) - b : Partial(c)[i] = c[b + i]
<1>1. b \in 0 .. Len(c) /\ Len(c) \in Nat
  BY DEF Open
<1>2. Partial(c) = SubSeq(c, b + 1, Len(c))
  BY OpenIsBegun DEF Partial
<1>3. SubSeq(c, b + 1, Len(c)) \in Seq(Byte) /\ Len(SubSeq(c, b + 1, Len(c))) = Len(c) - b
  BY <1>1
<1>4. \A i \in 1 .. Len(c) - b : SubSeq(c, b + 1, Len(c))[i] = c[b + i]
  BY <1>1
<1> QED BY <1>2, <1>3, <1>4

(* A byte that is no delimiter prolongs what has begun and ends no run.    *)
LEMMA RunsPlain ==
    ASSUME NEW c \in Seq(Byte), NEW x \in Byte, NEW b, Open(c, b), x # 0
    PROVE  Runs(Append(c, x)) = Runs(c) /\ Open(Append(c, x), b)
<1> DEFINE e == Append(c, x)
           n == Len(c)
<1>1. /\ n \in Nat /\ e \in Seq(Byte) /\ Len(e) = n + 1
      /\ DOMAIN e = 1 .. n + 1 /\ DOMAIN c = 1 .. n
      /\ e[n + 1] = x /\ \A i \in 1 .. n : e[i] = c[i]
  OBVIOUS
<1> HIDE DEF e, n
<1>2. Open(e, b)
  BY <1>1 DEF Open, n
<1>3. ASSUME NEW s, NEW t PROVE IsRun(e, s, t) <=> IsRun(c, s, t)
  <2>1. CASE s \in 1 .. n /\ t \in 1 .. n /\ s <= t
    <3>1. \A i \in s .. t : i \in 1 .. n
      BY <1>1, <2>1
    <3>2. Solid(e, s, t) <=> Solid(c, s, t)
      BY <1>1, <3>1 DEF Solid
    <3>3. s # 1 => e[s - 1] = c[s - 1]
      BY <1>1, <2>1
    <3>4. CASE t < n
      <4>1. e[t + 1] = c[t + 1]
        BY <1>1, <2>1, <3>4
      <4> QED BY <1>1, <2>1, <3>2, <3>3, <3>4, <4>1 DEF IsRun, n
    <3>5. CASE t = n
      BY <1>1, <3>5 DEF IsRun, n
    <3> QED BY <1>1, <2>1, <3>4, <3>5
  <2>2. CASE ~(s \in 1 .. n /\ t \in 1 .. n /\ s <= t)
    BY <1>1, <2>2 DEF IsRun, n
  <2> QED BY <2>1, <2>2
<1>4. Runs(e) = Runs(c)
  <2>1. \A r \in Runs(e) : r \in Runs(c)
    BY <1>1, <1>3, RunsAre
  <2>2. \A r \in Runs(c) : r \in Runs(e)
    BY <1>1, <1>3, RunsAre
  <2> QED BY <2>1, <2>2
<1> QED BY <1>2, <1>4 DEF e

(* A delimiter ends the run that has begun, if any, and no other.          *)
LEMMA RunsDelimited ==
    ASSUME NEW c \in Seq(Byte), NEW b, Open(c, b)
    PROVE  /\ Open(Append(c, 0), Len(c) + 1)
           /\ b = Len(c) => Runs(Append(c, 0)) = Runs(c)
           /\ b < Len(c) => /\ Runs(Append(c, 0)) = Runs(c) \cup {<<b + 1, Len(c)>>}
                            /\ \A r \in Runs(c) : r[1] < b + 1
<1> DEFINE e == Append(c, 0)
           n == Len(c)
<1>1. /\ n \in Nat /\ e \in Seq(Byte) /\ Len(e) = n + 1
      /\ DOMAIN e = 1 .. n + 1 /\ DOMAIN c = 1 .. n
      /\ e[n + 1] = 0 /\ \A i \in 1 .. n : e[i] = c[i]
  BY DEF Byte
<1>2. b \in 0 .. n /\ (b = 0 \/ c[b] = 0) /\ \A j \in b + 1 .. n : c[j] # 0
  BY DEF Open
<1> HIDE DEF e, n
<1>3. Open(e, n + 1)
  BY <1>1 DEF Open
<1>4. ASSUME NEW s, NEW t
      PROVE  IsRun(e, s, t) <=> IsRun(c, s, t) \/ (b < n /\ s = b + 1 /\ t = n)
  <2>1. CASE s \in 1 .. n /\ t \in 1 .. n /\ s <= t
    <3>1. \A i \in s .. t : i \in 1 .. n
      BY <1>1, <2>1
    <3>2. Solid(e, s, t) <=> Solid(c, s, t)
      BY <1>1, <3>1 DEF Solid
    <3>3. s # 1 => e[s - 1] = c[s - 1]
      BY <1>1, <2>1
    <3>4. CASE t < n
      <4>1. e[t + 1] = c[t + 1]
        BY <1>1, <2>1, <3>4
      <4>2. IsRun(e, s, t) <=> IsRun(c, s, t)
        BY <1>1, <2>1, <3>2, <3>3, <3>4, <4>1 DEF IsRun, n
      <4>3. t # n
        BY <1>1, <2>1, <3>4
      <4> QED BY <4>2, <4>3
    <3>5. CASE t = n
      <4>0. s \in 1 .. n + 1 /\ n \in 1 .. n + 1 /\ s <= n /\ n < n + 1
        BY <1>1, <2>1, <3>5
      <4>1. IsRun(e, s, n) <=> Solid(c, s, n) /\ (s = 1 \/ c[s - 1] = 0)
        <5>1. IsRun(e, s, n) <=> Solid(e, s, n) /\ (s = 1 \/ e[s - 1] = 0)
          BY <1>1, <4>0 DEF IsRun
        <5> QED BY <5>1, <3>2, <3>3, <3>5
      <4>2. s = b + 1 => IsRun(e, s, n) /\ b < n
        BY <1>1, <1>2, <2>1, <4>1 DEF Solid
      <4>3. s < b + 1 => ~IsRun(e, s, n)
        <5> SUFFICES ASSUME s < b + 1 PROVE c[b] = 0 /\ b \in s .. n
          BY <4>1 DEF Solid
        <5> QED BY <1>1, <1>2, <2>1
      <4>4. s > b + 1 => ~IsRun(e, s, n)
        <5> SUFFICES ASSUME s > b + 1 PROVE c[s - 1] # 0 /\ s # 1
          BY <4>1
        <5> QED BY <1>1, <1>2, <2>1
      <4>5. ~IsRun(c, s, n)
        BY <1>1 DEF IsRun, n
      <4> QED BY <1>1, <1>2, <2>1, <3>5, <4>2, <4>3, <4>4, <4>5
    <3> QED BY <1>1, <2>1, <3>4, <3>5
  <2>2. CASE ~(s \in 1 .. n /\ t \in 1 .. n /\ s <= t)
    BY <1>1, <1>2, <2>2 DEF IsRun, n
  <2> QED BY <2>1, <2>2
<1>5. b = n => Runs(e) = Runs(c)
  <2> SUFFICES ASSUME b = n PROVE Runs(e) = Runs(c)
    OBVIOUS
  <2>1. \A s, t : IsRun(e, s, t) <=> IsRun(c, s, t)
    BY <1>1, <1>2, <1>4
  <2>2. \A r \in Runs(e) : r \in Runs(c)
    BY <1>1, <2>1, RunsAre
  <2>3. \A r \in Runs(c) : r \in Runs(e)
    BY <1>1, <2>1, RunsAre
  <2> QED BY <2>2, <2>3
<1>6. b < n => Runs(e) = Runs(c) \cup {<<b + 1, n>>}
  <2> SUFFICES ASSUME b < n PROVE Runs(e) = Runs(c) \cup {<<b + 1, n>>}
    OBVIOUS
  <2>1. \A r \in Runs(e) : r \in Runs(c) \/ r = <<b + 1, n>>
    BY <1>1, <1>4, RunsAre
  <2>2. \A r \in Runs(c) : r \in Runs(e)
    BY <1>1, <1>4, RunsAre
  <2>3. <<b + 1, n>> \in Runs(e)
    BY <1>1, <1>4, RunsAre
  <2> QED BY <2>1, <2>2, <2>3
<1>7. b < n => \A r \in Runs(c) : r[1] < b + 1
  <2> SUFFICES ASSUME NEW r \in Runs(c), b < n PROVE r[1] < b + 1
    OBVIOUS
  <2>1. IsRun(c, r[1], r[2])
    BY RunsAre
  <2> QED BY <1>1, <1>2, <2>1 DEF IsRun, n
<1> QED BY <1>3, <1>5, <1>6, <1>7 DEF e, n

-----------------------------------------------------------------------------
(* Verdicts and the runs they are about.                                   *)

(* The place of a run is among the runs, and a later run takes the next.   *)
LEMMA Places ==
    ASSUME NEW runs, IsFiniteSet(runs), \A r \in runs : r[1] \in Int,
           NEW q, q[1] \in Int, \A r \in runs : r[1] < q[1]
    PROVE  /\ IsFiniteSet(runs \cup {q})
           /\ Cardinality(runs) \in Nat
           /\ Cardinality(runs \cup {q}) = Cardinality(runs) + 1
           /\ Place(runs \cup {q}, q) = Cardinality(runs) + 1
           /\ \A r \in runs : /\ Place(runs \cup {q}, r) = Place(runs, r)
                              /\ Place(runs, r) \in 1 .. Cardinality(runs)
<1>1. q \notin runs
  OBVIOUS
<1>2. /\ IsFiniteSet(runs \cup {q}) /\ Cardinality(runs) \in Nat
      /\ Cardinality(runs \cup {q}) = Cardinality(runs) + 1
  BY <1>1, FS_AddElement, FS_CardinalityType
<1>3. {p \in runs \cup {q} : p[1] <= q[1]} = runs \cup {q}
  OBVIOUS
<1>4. ASSUME NEW r \in runs
      PROVE  /\ Place(runs \cup {q}, r) = Place(runs, r)
             /\ Place(runs, r) \in 1 .. Cardinality(runs)
  <2> DEFINE upTo == {p \in runs : p[1] <= r[1]}
  <2>1. {p \in runs \cup {q} : p[1] <= r[1]} = upTo
    OBVIOUS
  <2>2. upTo \in SUBSET runs /\ r \in upTo
    OBVIOUS
  <2> HIDE DEF upTo
  <2>3. IsFiniteSet(upTo) /\ Cardinality(upTo) \in Nat /\ Cardinality(upTo) <= Cardinality(runs)
    BY <2>2, FS_Subset, FS_CardinalityType
  <2>4. Cardinality(upTo) # 0
    BY <2>2, <2>3, FS_EmptySet
  <2>5. Cardinality(upTo) \in 1 .. Cardinality(runs)
    BY <1>2, <2>3, <2>4
  <2> QED BY <2>1, <2>5 DEF Place, upTo
<1> QED BY <1>2, <1>3, <1>4 DEF Place

Verdict == {"taken", "busy", "overlong"}

(* The part of ReaderSplits that is about ended runs.                      *)
Judged(c, v, s) ==
    /\ Len(v) = Cardinality(Runs(c))
    /\ \A r \in Runs(c) : v[Place(Runs(c), r)] = "overlong" <=> RunLen(r) > BufLen
    /\ s # None => \E r \in Runs(c) : /\ v[Place(Runs(c), r)] = "taken"
                                      /\ s = SubSeq(c, r[1], r[2])

(* A run's bytes stay what they are when more bytes are read.              *)
LEMMA RunBytesKept ==
    ASSUME NEW c \in Seq(Byte), NEW x \in Byte, NEW s \in 1 .. Len(c), NEW t \in 1 .. Len(c)
    PROVE  SubSeq(Append(c, x), s, t) = SubSeq(c, s, t)
<1> DEFINE a == SubSeq(Append(c, x), s, t)
           b == SubSeq(c, s, t)
           m == IF s <= t THEN t - s + 1 ELSE 0
<1>1. /\ Append(c, x) \in Seq(Byte) /\ Len(Append(c, x)) = Len(c) + 1
      /\ \A i \in 1 .. Len(c) : Append(c, x)[i] = c[i]
  OBVIOUS
<1>2. a \in Seq(Byte) /\ Len(a) = m /\ \A i \in 1 .. m : a[i] = Append(c, x)[s + i - 1]
  <2> HIDE DEF a
  <2> QED BY <1>1, SubSeqProperties DEF a
<1>3. b \in Seq(Byte) /\ Len(b) = m /\ \A i \in 1 .. m : b[i] = c[s + i - 1]
  <2> HIDE DEF b
  <2> QED BY SubSeqProperties DEF b
<1>4. m \in Nat /\ \A i \in 1 .. m : s + i - 1 \in 1 .. Len(c)
  OBVIOUS
<1> HIDE DEF a, b, m
<1>5. \A i \in 1 .. m : a[i] = b[i]
  BY <1>1, <1>2, <1>3, <1>4
<1>6. a = b
  BY <1>2, <1>3, <1>5, SeqEqual
<1> QED BY <1>6 DEF a, b

(* A byte that ends no run leaves the verdicts right.                      *)
LEMMA JudgedKept ==
    ASSUME NEW c \in Seq(Byte), NEW x \in Byte, NEW v, NEW s, Judged(c, v, s),
           Runs(Append(c, x)) = Runs(c)
    PROVE  Judged(Append(c, x), v, s)
<1>1. \A r \in Runs(c) : SubSeq(Append(c, x), r[1], r[2]) = SubSeq(c, r[1], r[2])
  BY RunBytesKept, RunsAre DEF IsRun
<1> QED BY <1>1 DEF Judged

(* The run that a delimiter ends, and the verdict on it.                   *)
LEMMA JudgedNext ==
    ASSUME NEW c \in Seq(Byte), NEW b, Open(c, b), b < Len(c),
           NEW v \in Seq(Verdict), NEW s, Judged(c, v, s), IsFiniteSet(Runs(c)),
           NEW w \in Verdict, w = "overlong" <=> Len(c) - b > BufLen,
           NEW z, z = s \/ (w = "taken" /\ z = SubSeq(c, b + 1, Len(c)))
    PROVE  Judged(Append(c, 0), Append(v, w), z) /\ IsFiniteSet(Runs(Append(c, 0)))
<1> DEFINE runs == Runs(c)
           q == <<b + 1, Len(c)>>
           e == Append(c, 0)
           u == Append(v, w)
<1>1. Runs(e) = runs \cup {q} /\ \A r \in runs : r[1] < b + 1
  BY RunsDelimited
<1>2. /\ b \in Nat /\ Len(c) \in Nat /\ b + 1 \in 1 .. Len(c) /\ Len(c) \in 1 .. Len(c)
      /\ 0 \in Byte
  <2>1. b \in 0 .. Len(c) /\ Len(c) \in Nat
    BY DEF Open
  <2>2. 0 \in Byte
    BY DEF Byte
  <2> QED BY <2>1, <2>2
<1>3. \A r \in runs : r[1] \in 1 .. Len(c) /\ r[2] \in 1 .. Len(c)
  BY RunsAre DEF IsRun
<1>4. q[1] = b + 1 /\ q[2] = Len(c)
  OBVIOUS
<1> HIDE DEF runs, q
<1>5. /\ IsFiniteSet(runs \cup {q})
      /\ Cardinality(runs) \in Nat
      /\ Cardinality(runs \cup {q}) = Cardinality(runs) + 1
      /\ Place(runs \cup {q}, q) = Cardinality(runs) + 1
      /\ \A r \in runs : /\ Place(runs \cup {q}, r) = Place(runs, r)
                         /\ Place(runs, r) \in 1 .. Cardinality(runs)
  <2>1. \A r \in runs : r[1] \in Int
    BY <1>2, <1>3
  <2>2. q[1] \in Int /\ \A r \in runs : r[1] < q[1]
    BY <1>1, <1>2, <1>4
  <2>3. IsFiniteSet(runs)
    BY DEF runs
  <2> QED BY <2>1, <2>2, <2>3, Places
<1>6. Len(v) = Cardinality(runs)
  BY DEF Judged, runs
<1>7. /\ Len(u) = Len(v) + 1 /\ u[Len(v) + 1] = w
      /\ \A i \in 1 .. Len(v) : u[i] = v[i]
  BY AppendProperties
<1> HIDE DEF u
<1>8. /\ u[Place(runs \cup {q}, q)] = w
      /\ \A r \in runs : u[Place(runs \cup {q}, r)] = v[Place(runs, r)]
  <2>1. \A r \in runs : u[Place(runs, r)] = v[Place(runs, r)]
    BY <1>5, <1>6, <1>7
  <2> QED BY <1>5, <1>6, <1>7, <2>1
<1>9. RunLen(q) = Len(c) - b
  BY <1>2, <1>4 DEF RunLen
<1>10. \A r \in runs \cup {q} : u[Place(runs \cup {q}, r)] = "overlong" <=> RunLen(r) > BufLen
  BY <1>8, <1>9 DEF Judged, runs
<1>11. ASSUME NEW r \in runs \cup {q}
       PROVE  SubSeq(e, r[1], r[2]) = SubSeq(c, r[1], r[2])
  <2>1. r[1] \in 1 .. Len(c) /\ r[2] \in 1 .. Len(c)
    BY <1>2, <1>3, <1>4
  <2> QED BY <1>2, <2>1, RunBytesKept
<1>12. ASSUME z # None
       PROVE  \E r \in runs \cup {q} : /\ u[Place(runs \cup {q}, r)] = "taken"
                                       /\ z = SubSeq(e, r[1], r[2])
  <2>1. CASE z = s
    <3>1. PICK r \in runs : v[Place(runs, r)] = "taken" /\ s = SubSeq(c, r[1], r[2])
      BY <1>12, <2>1 DEF Judged, runs
    <3> QED BY <1>8, <1>11, <2>1, <3>1
  <2>2. CASE w = "taken" /\ z = SubSeq(c, b + 1, Len(c))
    <3>1. z = SubSeq(e, q[1], q[2])
      BY <1>4, <1>11, <2>2
    <3> QED BY <1>8, <2>2, <3>1
  <2> QED BY <2>1, <2>2
<1>13. Len(u) = Cardinality(runs \cup {q})
  BY <1>5, <1>6, <1>7
<1>14. Judged(e, u, z)
  BY <1>1, <1>10, <1>12, <1>13 DEF Judged
<1> QED BY <1>1, <1>5, <1>14 DEF u

-----------------------------------------------------------------------------
(* The buffer and the run that has begun.                                  *)

Holds(e, o, c, b) ==
    /\ o <=> Len(c) - b > BufLen
    /\ Len(e) = IF o THEN BufLen ELSE Len(c) - b
    /\ \A i \in 1 .. Len(e) : e[i] = c[b + i]

(* The part of ReaderSplits that is about the buffer says just that.       *)
LEMMA HoldsPartial ==
    ASSUME NEW c \in Seq(Byte), NEW b, Open(c, b), NEW e \in Seq(Byte), NEW o \in BOOLEAN,
           Holds(e, o, c, b)
    PROVE  /\ o <=> Len(Partial(c)) > BufLen
           /\ e = SubSeq(Partial(c), 1, IF o THEN BufLen ELSE Len(Partial(c)))
<1> DEFINE p == Partial(c)
           m == IF o THEN BufLen ELSE Len(p)
           h == SubSeq(p, 1, m)
<1>1. p \in Seq(Byte) /\ Len(p) = Len(c) - b /\ \A i \in 1 .. Len(c) - b : p[i] = c[b + i]
  BY PartialIs
<1>2. Len(c) - b \in Nat /\ BufLen \in Nat
  BY ReaderAssumption DEF Open
<1> HIDE DEF p
<1>3. o <=> Len(p) > BufLen
  BY <1>1 DEF Holds
<1>4. m \in 0 .. Len(p) /\ Len(e) = m
  BY <1>1, <1>2, <1>3 DEF Holds
<1> HIDE DEF m
<1>5. h \in Seq(Byte) /\ Len(h) = m /\ \A i \in 1 .. m : h[i] = p[i]
  BY <1>1, <1>4
<1> HIDE DEF h
<1>6. \A i \in 1 .. m : e[i] = h[i]
  BY <1>1, <1>2, <1>4, <1>5 DEF Holds
<1>7. e = h
  BY <1>4, <1>5, <1>6, SeqEqual
<1> QED BY <1>3, <1>7 DEF h, m, p

-----------------------------------------------------------------------------
(* The inductive invariant.                                                *)

ReaderInv ==
    /\ line \in Seq(Byte) /\ consumed \in Seq(Byte) /\ encoded \in Seq(Byte)
    /\ overflow \in BOOLEAN /\ verdicts \in Seq(Verdict)
    /\ IsFiniteSet(Runs(consumed))
    /\ Judged(consumed, verdicts, slot)
    /\ \E b : Open(consumed, b) /\ Holds(encoded, overflow, consumed, b)

(* Nothing has been read.                                                  *)
LEMMA ReaderStarts == ReaderInit => ReaderInv
<1> SUFFICES ASSUME ReaderInit PROVE ReaderInv
  OBVIOUS
<1>1. /\ line = <<>> /\ encoded = <<>> /\ overflow = FALSE /\ slot = None
      /\ verdicts = <<>> /\ consumed = <<>>
  BY DEF ReaderInit
<1>2. Runs(<<>>) = {}
  BY DEF Runs
<1>3. Judged(consumed, verdicts, slot) /\ IsFiniteSet(Runs(consumed))
  BY <1>1, <1>2, FS_EmptySet DEF Judged
<1>4. Open(consumed, 0) /\ Holds(encoded, overflow, consumed, 0)
  BY <1>1, ReaderAssumption DEF Open, Holds
<1>5. \A S : <<>> \in Seq(S)
  OBVIOUS
<1> QED BY <1>1, <1>3, <1>4, <1>5 DEF ReaderInv

(* A byte of a frame goes into the buffer while there is room.             *)
LEMMA CollectKept ==
    ASSUME ReaderInv, NEW x \in Byte, x # 0, Collect(x), consumed' = Append(consumed, x),
           line' \in Seq(Byte)
    PROVE  ReaderInv'
<1>1. PICK b : Open(consumed, b) /\ Holds(encoded, overflow, consumed, b)
  BY DEF ReaderInv
<1> DEFINE c == consumed
           e == Append(c, x)
<1>2. c \in Seq(Byte) /\ encoded \in Seq(Byte) /\ overflow \in BOOLEAN /\ BufLen \in Nat
  BY ReaderAssumption DEF ReaderInv
<1>3. Runs(e) = Runs(c) /\ Open(e, b)
  BY <1>1, <1>2, RunsPlain
<1>4. /\ e \in Seq(Byte) /\ Len(e) = Len(c) + 1 /\ e[Len(c) + 1] = x
      /\ \A i \in 1 .. Len(c) : e[i] = c[i]
  BY <1>2
<1>5. b \in 0 .. Len(c) /\ Len(c) \in Nat
  BY <1>1, <1>2 DEF Open
<1> HIDE DEF e
<1> SUFFICES /\ encoded' \in Seq(Byte) /\ overflow' \in BOOLEAN
             /\ Holds(encoded', overflow', e, b)
  <2>1. Judged(e, verdicts, slot) /\ IsFiniteSet(Runs(e))
    BY <1>2, <1>3, JudgedKept DEF ReaderInv, e
  <2>2. verdicts' = verdicts /\ slot' = slot /\ verdicts \in Seq(Verdict) /\ consumed' = e
    BY DEF ReaderInv, Collect, e
  <2> QED BY <1>3, <1>4, <2>1, <2>2 DEF ReaderInv
<1>6. CASE Len(encoded) < BufLen
  <2>1. ~overflow /\ Len(encoded) = Len(c) - b
    BY <1>1, <1>2, <1>6 DEF Holds
  <2>2. encoded' = Append(encoded, x) /\ overflow' = overflow
    BY <1>6, <2>1 DEF Collect
  <2>3. /\ encoded' \in Seq(Byte) /\ Len(encoded') = Len(encoded) + 1
        /\ encoded'[Len(encoded) + 1] = x
        /\ \A i \in 1 .. Len(encoded) : encoded'[i] = encoded[i]
    BY <1>2, <2>2
  <2>4. Len(e) - b <= BufLen /\ Len(encoded') = Len(e) - b
    BY <1>2, <1>4, <1>5, <1>6, <2>1, <2>3
  <2>5. ASSUME NEW i \in 1 .. Len(encoded') PROVE encoded'[i] = e[b + i]
    <3>1. CASE i <= Len(encoded)
      BY <1>1, <1>2, <1>4, <1>5, <2>1, <2>3, <3>1 DEF Holds
    <3>2. CASE i = Len(encoded) + 1
      BY <1>4, <1>5, <2>1, <2>3, <3>2
    <3> QED BY <1>2, <2>3, <3>1, <3>2
  <2>6. Holds(encoded', overflow', e, b)
    BY <1>2, <1>4, <1>5, <2>1, <2>2, <2>4, <2>5 DEF Holds
  <2> QED BY <1>2, <2>2, <2>3, <2>6
<1>7. CASE ~(Len(encoded) < BufLen)
  <2>1. overflow' = TRUE /\ encoded' = encoded
    BY <1>7 DEF Collect
  <2>2. Len(encoded) = BufLen /\ Len(c) - b >= BufLen
    BY <1>1, <1>2, <1>5, <1>7 DEF Holds
  <2>3. Len(e) - b > BufLen
    BY <1>2, <1>4, <1>5, <2>2
  <2>4. ASSUME NEW i \in 1 .. Len(encoded) PROVE encoded[i] = e[b + i]
    BY <1>1, <1>2, <1>4, <1>5, <2>2 DEF Holds
  <2>5. Holds(encoded', overflow', e, b)
    BY <2>1, <2>2, <2>3, <2>4 DEF Holds
  <2> QED BY <1>2, <2>1, <2>5
<1> QED BY <1>6, <1>7

(* A delimiter empties the buffer, and gives the run it ends its verdict.  *)
LEMMA DelimiterKept ==
    ASSUME ReaderInv, EndOverlong \/ EndNothing \/ EndFrame, consumed' = Append(consumed, 0),
           line' \in Seq(Byte)
    PROVE  ReaderInv'
<1>1. PICK b : Open(consumed, b) /\ Holds(encoded, overflow, consumed, b)
  BY DEF ReaderInv
<1> DEFINE c == consumed
           e == Append(c, 0)
<1>2. /\ c \in Seq(Byte) /\ encoded \in Seq(Byte) /\ verdicts \in Seq(Verdict)
      /\ BufLen \in Nat \ {0} /\ Judged(c, verdicts, slot) /\ IsFiniteSet(Runs(c))
  BY ReaderAssumption DEF ReaderInv
<1>3. b \in 0 .. Len(c) /\ Len(c) \in Nat /\ 0 \in Byte
  BY <1>1, <1>2 DEF Open, Byte
<1>4. e \in Seq(Byte) /\ Len(e) = Len(c) + 1
  BY <1>2, <1>3
<1>5. Open(e, Len(c) + 1)
  BY <1>1, <1>2, RunsDelimited
<1>6. Holds(<<>>, FALSE, e, Len(c) + 1)
  <2>1. Len(e) - (Len(c) + 1) = 0
    BY <1>3, <1>4
  <2> QED BY <1>2, <2>1 DEF Holds
<1>7. encoded' = <<>> /\ overflow' = FALSE
  BY DEF EndOverlong, EndNothing, EndFrame, ReaderInv
<1> SUFFICES /\ verdicts' \in Seq(Verdict) /\ Judged(e, verdicts', slot')
             /\ IsFiniteSet(Runs(e))
  <2> HIDE DEF e
  <2>1. <<>> \in Seq(Byte)
    OBVIOUS
  <2>2. consumed' = e
    BY DEF e
  <2> QED BY <1>4, <1>5, <1>6, <1>7, <2>1, <2>2 DEF ReaderInv
<1>8. CASE EndOverlong
  <2>1. verdicts' = Append(verdicts, "overlong") /\ slot' = slot /\ overflow
    BY <1>8 DEF EndOverlong
  <2>2. Len(c) - b > BufLen
    BY <1>1, <2>1 DEF Holds
  <2>5. b < Len(c)
    BY <1>2, <1>3, <2>2
  <2>3. "overlong" \in Verdict
    BY DEF Verdict
  <2>4. Judged(e, Append(verdicts, "overlong"), slot) /\ IsFiniteSet(Runs(e))
    BY <1>1, <1>2, <2>2, <2>3, <2>5, JudgedNext
  <2> QED BY <1>2, <2>1, <2>3, <2>4
<1>9. CASE EndNothing
  <2>1. verdicts' = verdicts /\ slot' = slot /\ ~overflow /\ Len(encoded) = 0
    BY <1>9 DEF EndNothing
  <2>2. b = Len(c)
    BY <1>1, <1>3, <2>1 DEF Holds
  <2>3. Runs(e) = Runs(c)
    BY <1>1, <1>2, <2>2, RunsDelimited
  <2>4. Judged(e, verdicts, slot)
    BY <1>2, <1>3, <2>3, JudgedKept
  <2> QED BY <1>2, <2>1, <2>3, <2>4
<1>10. CASE EndFrame
  <2>1. ~overflow /\ encoded # <<>>
    BY <1>10 DEF EndFrame
  <2>2. /\ Len(encoded) = Len(c) - b /\ ~(Len(c) - b > BufLen)
        /\ \A i \in 1 .. Len(encoded) : encoded[i] = c[b + i]
    BY <1>1, <2>1 DEF Holds
  <2>3. b < Len(c)
    BY <1>2, <1>3, <2>1, <2>2
  <2>4. encoded = SubSeq(c, b + 1, Len(c))
    <3> DEFINE h == SubSeq(c, b + 1, Len(c))
    <3>1. h \in Seq(Byte) /\ Len(h) = Len(c) - b /\ \A i \in 1 .. Len(c) - b : h[i] = c[b + i]
      <4>1. Partial(c) = h
        BY <1>1, <1>2, PartialIs
      <4> HIDE DEF h
      <4>2. Partial(c) \in Seq(Byte) /\ Len(Partial(c)) = Len(c) - b
            /\ \A i \in 1 .. Len(c) - b : Partial(c)[i] = c[b + i]
        BY <1>1, <1>2, PartialIs
      <4> QED BY <4>1, <4>2
    <3> HIDE DEF h
    <3>2. encoded = h
      BY <1>2, <2>2, <3>1, SeqEqual
    <3> QED BY <3>2 DEF h
  <2>5. "taken" \in Verdict /\ "busy" \in Verdict
    BY DEF Verdict
  <2>6. CASE slot = None
    <3>1. slot' = encoded /\ verdicts' = Append(verdicts, "taken")
      BY <1>10, <2>6 DEF EndFrame
    <3>2. Judged(e, Append(verdicts, "taken"), encoded) /\ IsFiniteSet(Runs(e))
      BY <1>1, <1>2, <2>2, <2>3, <2>4, <2>5, JudgedNext
    <3> QED BY <1>2, <2>5, <3>1, <3>2
  <2>7. CASE slot # None
    <3>1. slot' = slot /\ verdicts' = Append(verdicts, "busy")
      BY <1>10, <2>7 DEF EndFrame
    <3>2. Judged(e, Append(verdicts, "busy"), slot) /\ IsFiniteSet(Runs(e))
      BY <1>1, <1>2, <2>2, <2>3, <2>5, JudgedNext
    <3> QED BY <1>2, <2>5, <3>1, <3>2
  <2> QED BY <2>6, <2>7
<1> QED BY <1>8, <1>9, <1>10

(* A byte read is a delimiter or one of a frame.                           *)
LEMMA ReadByteKept == ASSUME ReaderInv, ReadByte PROVE ReaderInv'
<1>1. line \in Seq(Byte) /\ line # <<>>
  BY DEF ReaderInv, ReadByte
<1>2. Head(line) \in Byte /\ Tail(line) \in Seq(Byte)
  BY <1>1
<1>3. line' = Tail(line) /\ consumed' = Append(consumed, Head(line))
  BY DEF ReadByte
<1>4. CASE Head(line) = 0
  <2>1. EndOverlong \/ EndNothing \/ EndFrame
    BY <1>4 DEF ReadByte
  <2> QED BY <1>2, <1>3, <1>4, <2>1, DelimiterKept
<1>5. CASE Head(line) # 0
  <2>1. Collect(Head(line))
    BY <1>5 DEF ReadByte
  <2> QED BY <1>2, <1>3, <1>5, <2>1, CollectKept
<1> QED BY <1>4, <1>5

(* Bytes that arrive, and the polls, touch nothing the invariant is about. *)
LEMMA ArriveKept ==
    ASSUME ReaderInv, NEW bytes \in Seq(Byte), Arrive(bytes)
    PROVE  ReaderInv'
<1>1. line' = line \o bytes /\ UNCHANGED <<encoded, overflow, slot, verdicts, consumed>>
  BY DEF Arrive, device
<1>2. line' \in Seq(Byte)
  BY <1>1 DEF ReaderInv
<1> QED BY <1>1, <1>2 DEF ReaderInv

(* An empty slot asks for no verdict.                                      *)
LEMMA FreeSlotKept == ASSUME ReaderInv, FreeSlot PROVE ReaderInv'
<1>1. slot' = None /\ UNCHANGED <<line, encoded, overflow, verdicts, consumed>>
  BY DEF FreeSlot
<1>2. Judged(consumed, verdicts, None)
  BY DEF ReaderInv, Judged
<1> QED BY <1>1, <1>2 DEF ReaderInv

(* Every reachable state of the reader satisfies the inductive invariant.  *)
THEOREM ReaderInvHolds == ReaderSpec => []ReaderInv
<1>1. ReaderInit => ReaderInv
  BY ReaderStarts
<1>2. ReaderInv /\ [ReaderNext]_readerVars => ReaderInv'
  <2> SUFFICES ASSUME ReaderInv, [ReaderNext]_readerVars PROVE ReaderInv'
    OBVIOUS
  <2>1. ASSUME NEW bytes \in Seq(Byte), Arrive(bytes) PROVE ReaderInv'
    BY <2>1, ArriveKept
  <2>2. CASE StartPoll \/ EndPoll \/ UNCHANGED readerVars
    <3>1. UNCHANGED <<line, encoded, overflow, slot, verdicts, consumed>>
      BY <2>2 DEF StartPoll, EndPoll, readerVars, device
    <3> QED BY <3>1 DEF ReaderInv
  <2> QED BY <2>1, <2>2, ReadByteKept, FreeSlotKept DEF ReaderNext
<1> QED BY <1>1, <1>2, PTL DEF ReaderSpec

(* ReaderSplits: whatever bytes come and however they fall into polls,     *)
(* each run between delimiters gets one verdict, the right one, the slot   *)
(* holds a whole run, and the buffer what has come of the next.            *)
THEOREM ReaderResynchronises == ReaderSpec => []ReaderSplits
<1>1. ReaderInv => ReaderSplits
  <2> SUFFICES ASSUME ReaderInv PROVE ReaderSplits
    OBVIOUS
  <2>1. PICK b : Open(consumed, b) /\ Holds(encoded, overflow, consumed, b)
    BY DEF ReaderInv
  <2>2. /\ overflow <=> Len(Partial(consumed)) > BufLen
        /\ encoded = SubSeq(Partial(consumed), 1,
                            IF overflow THEN BufLen ELSE Len(Partial(consumed)))
    BY <2>1, HoldsPartial DEF ReaderInv
  <2>3. Judged(consumed, verdicts, slot)
    BY DEF ReaderInv
  <2> QED BY <2>2, <2>3 DEF ReaderSplits, Judged
<1> QED BY <1>1, ReaderInvHolds, PTL

-----------------------------------------------------------------------------
(* What is written to the line.                                            *)

(* A delimiter more.                                                       *)
LEMMA DelimitedHas ==
    ASSUME NEW w \in Seq(Byte)
    PROVE  /\ Delimited(w) \in Seq(Byte) /\ Len(Delimited(w)) = Len(w) + 1
           /\ \A j \in 1 .. Len(w) : Delimited(w)[j] = w[j]
           /\ Delimited(w)[Len(w) + 1] = 0
<1> DEFINE d == w \o <<0>>
<1>1. /\ d \in Seq(Byte) /\ Len(d) = Len(w) + 1
      /\ \A j \in 1 .. Len(w) : d[j] = w[j]
      /\ d[Len(w) + 1] = 0
  <2>1. 0 \in Byte
    BY DEF Byte
  <2> QED BY <2>1
<1> QED BY <1>1 DEF Delimited

(* Two that are equal with their delimiters are equal.                     *)
LEMMA DelimitedSame ==
    ASSUME NEW u \in Seq(Byte), NEW w \in Seq(Byte), Delimited(u) = Delimited(w)
    PROVE  u = w
<1> DEFINE d == Delimited(u)
<1>1. Len(d) = Len(u) + 1 /\ \A j \in 1 .. Len(u) : d[j] = u[j]
  BY DelimitedHas
<1>2. Len(d) = Len(w) + 1 /\ \A j \in 1 .. Len(w) : d[j] = w[j]
  BY DelimitedHas
<1> HIDE DEF d
<1>3. Len(u) \in Nat /\ Len(w) \in Nat
  OBVIOUS
<1>4. Len(u) = Len(w)
  BY <1>1, <1>2, <1>3
<1>5. \A j \in 1 .. Len(u) : u[j] = w[j]
  BY <1>1, <1>2, <1>4
<1> QED BY <1>4, <1>5, SameBytes

(* The frames of the line are frames whose length a length field can tell. *)
LEMMA FramesAreFrames ==
    /\ \A f \in Frames : f \in Frame /\ ToDevice[f] = Delimited(HostWire(f))
    /\ \A f \in Answers : f \in Frame /\ ToHost[f] = Delimited(DeviceWire(f))
BY FrameLineAssumption DEF ToDevice, ToHost

(* A lost or changed byte leaves bytes.                                    *)
LEMMA DamagedBytes ==
    ASSUME NEW bytes \in Seq(Byte), NEW d \in Damaged(bytes)
    PROVE  d \in Seq(Byte)
<1>1. DOMAIN bytes = 1 .. Len(bytes) /\ Len(bytes) \in Nat
  OBVIOUS
<1>2. CASE \E i \in DOMAIN bytes : d = RemoveAt(bytes, i)
  <2>1. PICK i \in 1 .. Len(bytes) : d = RemoveAt(bytes, i)
    BY <1>1, <1>2
  <2>2. SubSeq(bytes, 1, i - 1) \in Seq(Byte)
    <3>1. i - 1 \in 0 .. Len(bytes)
      BY <1>1
    <3> QED BY <3>1, PrefixHas
  <2>3. SubSeq(bytes, i + 1, Len(bytes)) \in Seq(Byte)
    BY <1>1
  <2> QED BY <2>1, <2>2, <2>3, ConcatBytes DEF RemoveAt
<1>3. CASE \E i \in DOMAIN bytes, b \in Noise : d = [bytes EXCEPT ![i] = b]
  <2>1. Noise \subseteq Byte
    BY FrameLineAssumption
  <2> QED BY <1>3, <2>1
<1> QED BY <1>2, <1>3 DEF Damaged

(* What arrives is bytes, and those that were sent unless a fault is       *)
(* counted.                                                                *)
LEMMA ArrivalsAre ==
    ASSUME NEW bytes \in Seq(Byte), NEW a \in Arrivals(bytes)
    PROVE  /\ a[1] \in Seq(Byte) /\ a[2] \in Nat
           /\ a[2] = 0 => a[1] = bytes
<1>1. CASE a = <<bytes, 0>>
  BY <1>1
<1>2. CASE \E d \in Damaged(bytes) \ {bytes} : a = <<d, 1>>
  <2>1. PICK d \in Damaged(bytes) : a = <<d, 1>>
    BY <1>2
  <2>2. d \in Seq(Byte)
    BY DamagedBytes
  <2> QED BY <2>1, <2>2
<1> QED BY <1>1, <1>2 DEF Arrivals

(* The bytes of a frame for the device, and of one for the host.           *)
LEMMA BytesWritten ==
    /\ \A f \in Frames : ToDevice[f] \in Seq(Byte)
    /\ \A f \in Answers : ToHost[f] \in Seq(Byte)
BY FramesAreFrames, WireRoundTrip, DelimitedHas

-----------------------------------------------------------------------------
(* FrameLine's reader is FrameReader.                                      *)

(* A step of the line is a step of the reader or leaves it alone.          *)
LEMMA StepIsReaders == LineNext => [ReaderNext]_readerVars
<1> SUFFICES ASSUME LineNext PROVE [ReaderNext]_readerVars
  OBVIOUS
<1>1. CASE \E f \in Frames : Write(f)
  <2>1. PICK f \in Frames : Write(f)
    BY <1>1
  <2>2. PICK a \in Arrivals(ToDevice[f]) : Arrive(a[1])
    BY <2>1 DEF Write
  <2>3. a[1] \in Seq(Byte)
    BY <2>2, BytesWritten, ArrivalsAre
  <2> QED BY <2>2, <2>3 DEF ReaderNext
<1>2. CASE (StartPoll \/ ReadByte \/ EndPoll) /\ UNCHANGED endsVars
  BY <1>2 DEF ReaderNext
<1>3. CASE ProcessPendingCommand
  BY <1>3 DEF ProcessPendingCommand, ReaderNext
<1>4. CASE \E f \in Answers : SendResponse(f)
  BY <1>4 DEF SendResponse
<1> QED BY <1>1, <1>2, <1>3, <1>4 DEF LineNext

(* The line implements the reader: whatever the host writes, whatever is   *)
(* damaged and whenever HostIFTask_poll and the RF task run, every         *)
(* behaviour of the line is one of FrameReader.                            *)
THEOREM LineReads == LineSpec => ReaderSpec
<1>1. LineInit => ReaderInit
  BY DEF LineInit
<1>2. [LineNext]_lineVars => [ReaderNext]_readerVars
  BY StepIsReaders DEF lineVars
<1> QED BY <1>1, <1>2, PTL DEF LineSpec, ReaderSpec

(* So ReaderSplits holds of the line: each run of bytes between two        *)
(* delimiters gets one verdict of HostIFTask_poll, in order and the right  *)
(* one, whatever the line did to the frames.                               *)
THEOREM LineResynchronises == LineSpec => []ReaderSplits
BY LineReads, ReaderResynchronises, PTL

-----------------------------------------------------------------------------
(* Runs of what an undamaged line brings.                                  *)

(* The last byte is a delimiter.                                           *)
Ended(c) == Len(c) = 0 \/ c[Len(c)] = 0

(* e is c, and w delimited, and its runs are those of c and w.             *)
IsWritten(e, c, w) ==
    /\ e \in Seq(Byte) /\ Ended(e) /\ Len(c) <= Len(e)
    /\ \A i \in 1 .. Len(c) : e[i] = c[i]
    /\ \A j \in 1 .. Len(w) : e[Len(c) + j] = w[j]
    /\ \A s, t : IsRun(e, s, t) => IsRun(c, s, t) \/ (s = Len(c) + 1 /\ t = Len(c) + Len(w))
    /\ w # <<>> => IsRun(e, Len(c) + 1, Len(c) + Len(w))

(* Bytes that come after a delimiter, and one that ends them, are a run.   *)
LEMMA RunsWritten ==
    ASSUME NEW c \in Seq(Byte), Ended(c), NEW w \in Seq(Byte), NoZero(w)
    PROVE  IsWritten(c \o Delimited(w), c, w)
<1> DEFINE v == Delimited(w)
           e == c \o v
           n == Len(c)
           m == Len(w)
<1>1. /\ v \in Seq(Byte) /\ Len(v) = m + 1 /\ v[m + 1] = 0
      /\ \A j \in 1 .. m : v[j] = w[j]
  BY DelimitedHas
<1> HIDE DEF v
<1>2. /\ e \in Seq(Byte) /\ Len(e) = n + Len(v)
      /\ \A i \in 1 .. n + Len(v) : e[i] = IF i <= n THEN c[i] ELSE v[i - n]
  BY <1>1, ConcatProperties
<1>3. n \in Nat /\ m \in Nat /\ (n = 0 \/ c[n] = 0) /\ (w # <<>> => m > 0)
  BY DEF Ended
<1>4. \A j \in 1 .. m : w[j] # 0
  BY DEF NoZero
<1>5. /\ \A s, t : IsRun(c, s, t) <=> /\ s \in 1 .. n /\ t \in 1 .. n /\ s <= t
                                      /\ \A i \in s .. t : c[i] # 0
                                      /\ s = 1 \/ c[s - 1] = 0
                                      /\ t < n /\ c[t + 1] = 0
  BY DEF IsRun, Solid
<1> HIDE DEF e, n, m
<1>6. Len(e) = n + m + 1
  BY <1>1, <1>2, <1>3
<1>7. /\ \A i \in 1 .. n : e[i] = c[i]
      /\ \A j \in 1 .. m + 1 : e[n + j] = v[j]
  BY <1>1, <1>2, <1>3
<1>8. e[n + m + 1] = 0 /\ \A j \in 1 .. m : e[n + j] = w[j] /\ e[n + j] # 0
  <2>1. m + 1 \in 1 .. m + 1 /\ n + (m + 1) = n + m + 1 /\ \A j \in 1 .. m : j \in 1 .. m + 1
    BY <1>3
  <2> QED BY <1>1, <1>4, <1>7, <2>1
<1>9. ASSUME NEW i \in n + 1 .. n + m PROVE e[i] # 0
  <2>1. i - n \in 1 .. m /\ n + (i - n) = i
    BY <1>3
  <2> QED BY <1>8, <2>1
<1>10. \A s, t : IsRun(e, s, t) <=> /\ s \in 1 .. n + m + 1 /\ t \in 1 .. n + m + 1 /\ s <= t
                                    /\ \A i \in s .. t : e[i] # 0
                                    /\ s = 1 \/ e[s - 1] = 0
                                    /\ t < n + m + 1 /\ e[t + 1] = 0
  BY <1>6 DEF IsRun, Solid
<1>11. ASSUME NEW s, NEW t, IsRun(e, s, t)
       PROVE  IsRun(c, s, t) \/ (s = n + 1 /\ t = n + m)
  <2>1. /\ s \in 1 .. n + m + 1 /\ t \in 1 .. n + m + 1 /\ s <= t
        /\ \A i \in s .. t : e[i] # 0
        /\ s = 1 \/ e[s - 1] = 0
        /\ t < n + m + 1 /\ e[t + 1] = 0
    BY <1>10, <1>11
  <2>2. CASE t < n
    <3>1. /\ s \in 1 .. n /\ t \in 1 .. n /\ t + 1 \in 1 .. n
          /\ \A i \in s .. t : i \in 1 .. n
          /\ s # 1 => s - 1 \in 1 .. n
      BY <1>3, <2>1, <2>2
    <3>2. \A i \in s .. t : c[i] # 0
      BY <1>7, <2>1, <3>1
    <3>3. (s = 1 \/ c[s - 1] = 0) /\ c[t + 1] = 0
      BY <1>7, <2>1, <3>1
    <3> QED BY <1>5, <2>1, <2>2, <3>1, <3>2, <3>3
  <2>3. CASE ~(t < n)
    <3>1. t = n + m
      <4>1. t + 1 \in n + 1 .. n + m \/ t = n + m
        BY <1>3, <2>1, <2>3
      <4> QED BY <1>9, <2>1, <4>1
    <3>2. ~(s <= n)
      <4> SUFFICES ASSUME s <= n PROVE FALSE
        OBVIOUS
      <4>1. n \in s .. t /\ n \in 1 .. n /\ n # 0
        BY <1>3, <2>1, <3>1
      <4> QED BY <1>3, <1>7, <2>1, <4>1
    <3>3. ~(s > n + 1)
      <4> SUFFICES ASSUME s > n + 1 PROVE FALSE
        OBVIOUS
      <4>1. s - 1 \in n + 1 .. n + m /\ s # 1
        BY <1>3, <2>1, <3>1
      <4> QED BY <1>9, <2>1, <4>1
    <3>4. s = n + 1
      BY <1>3, <2>1, <3>2, <3>3
    <3> QED BY <3>1, <3>4
  <2> QED BY <2>2, <2>3
<1>12. w # <<>> => IsRun(e, n + 1, n + m)
  <2> SUFFICES ASSUME m > 0 PROVE IsRun(e, n + 1, n + m)
    BY <1>3
  <2>1. /\ n + 1 \in 1 .. n + m + 1 /\ n + m \in 1 .. n + m + 1 /\ n + 1 <= n + m
        /\ n + m < n + m + 1 /\ (n + 1) - 1 = n /\ (n # 0 => n \in 1 .. n)
        /\ (n = 0 => n + 1 = 1)
    BY <1>3
  <2>2. n + 1 = 1 \/ e[(n + 1) - 1] = 0
    BY <1>3, <1>7, <2>1
  <2>3. e[(n + m) + 1] = 0
    BY <1>8
  <2> QED BY <1>9, <1>10, <2>1, <2>2, <2>3
<1>13. Ended(e)
  BY <1>6, <1>8 DEF Ended
<1>14. /\ e \in Seq(Byte) /\ Ended(e) /\ n <= Len(e)
       /\ \A i \in 1 .. n : e[i] = c[i]
       /\ \A j \in 1 .. m : e[n + j] = w[j]
       /\ \A s, t : IsRun(e, s, t) => IsRun(c, s, t) \/ (s = n + 1 /\ t = n + m)
       /\ w # <<>> => IsRun(e, n + 1, n + m)
  BY <1>2, <1>3, <1>6, <1>7, <1>8, <1>11, <1>12, <1>13
<1>15. IsWritten(e, c, w)
  BY <1>14, Zenon DEF IsWritten, n, m
<1> QED BY <1>15 DEF e, v

(* A stretch of bytes, one by one.                                         *)
LEMMA SliceHas ==
    ASSUME NEW e, NEW s \in Int, NEW t \in Int, s <= t, \A i \in s .. t : e[i] \in Byte
    PROVE  /\ SubSeq(e, s, t) \in Seq(Byte) /\ Len(SubSeq(e, s, t)) = t - s + 1
           /\ \A i \in 1 .. t - s + 1 : SubSeq(e, s, t)[i] = e[s + i - 1]
<1> DEFINE a == SubSeq(e, s, t)
<1> HIDE DEF a
<1>1. /\ a \in Seq(Byte)
      /\ Len(a) = IF s <= t THEN t - s + 1 ELSE 0
      /\ \A i \in 1 .. t - s + 1 : a[i] = e[s + i - 1]
  BY SubSeqProperties DEF a
<1>2. Len(a) = t - s + 1
  BY <1>1
<1> QED BY <1>1, <1>2 DEF a

RunOfPart(e, c, s, t) ==
    c \in Seq(Byte) /\ e \in Seq(Byte) /\ Begins(e, c) /\ IsRun(c, s, t)

SameRun(e, c, s, t) == IsRun(e, s, t) /\ SubSeq(e, s, t) = SubSeq(c, s, t)

(* Runs of a part of what has come are runs of the whole, and the same.    *)
LEMMA RunsOfPart ==
    ASSUME NEW e, NEW c, NEW s, NEW t, RunOfPart(e, c, s, t)
    PROVE  SameRun(e, c, s, t)
<1>0. c \in Seq(Byte) /\ e \in Seq(Byte) /\ Begins(e, c) /\ IsRun(c, s, t)
  BY Zenon DEF RunOfPart
<1>1. /\ s \in 1 .. Len(c) /\ t \in 1 .. Len(c) /\ s <= t
      /\ \A i \in s .. t : c[i] # 0
      /\ s = 1 \/ c[s - 1] = 0
      /\ t < Len(c) /\ c[t + 1] = 0
  BY <1>0 DEF IsRun, Solid
<1>2. Len(c) <= Len(e) /\ \A j \in 1 .. Len(c) : e[j] = c[j]
  BY <1>0 DEF Begins
<1>3. Len(c) \in Nat /\ Len(e) \in Nat
  BY <1>0
<1>4. /\ \A i \in s .. t : i \in 1 .. Len(c)
      /\ t + 1 \in 1 .. Len(c) /\ (s # 1 => s - 1 \in 1 .. Len(c))
      /\ s \in 1 .. Len(e) /\ t \in 1 .. Len(e) /\ t < Len(e)
  BY <1>1, <1>2, <1>3
<1>5. IsRun(e, s, t)
  BY <1>1, <1>2, <1>4 DEF IsRun, Solid
<1>6. SubSeq(e, s, t) = SubSeq(c, s, t)
  <2> DEFINE a == SubSeq(e, s, t)
             b == SubSeq(c, s, t)
             m == t - s + 1
  <2>1. s \in Int /\ t \in Int /\ m \in Nat /\ \A i \in 1 .. m : s + i - 1 \in s .. t
    BY <1>1
  <2>2. a \in Seq(Byte) /\ Len(a) = m /\ \A i \in 1 .. m : a[i] = e[s + i - 1]
    <3>1. \A i \in s .. t : e[i] \in Byte
      BY <1>0, <1>2, <1>3, <1>4
    <3> QED BY <1>1, <2>1, <3>1, SliceHas
  <2>3. b \in Seq(Byte) /\ Len(b) = m /\ \A i \in 1 .. m : b[i] = c[s + i - 1]
    <3>1. \A i \in s .. t : c[i] \in Byte
      BY <1>0, <1>4
    <3> QED BY <1>1, <2>1, <3>1, SliceHas
  <2> HIDE DEF a, b, m
  <2>4. \A i \in 1 .. Len(a) : a[i] = b[i]
    BY <1>2, <1>4, <2>1, <2>2, <2>3
  <2>5. a = b
    BY <2>2, <2>3, <2>4, SameBytes
  <2> QED BY <2>5 DEF a, b
<1> QED BY <1>5, <1>6, Zenon DEF SameRun

(* A stretch of bytes that are those of w is w.                            *)
LEMMA StretchIs ==
    ASSUME NEW e \in Seq(Byte), NEW w \in Seq(Byte), NEW n \in Nat,
           \A j \in 1 .. Len(w) : e[n + j] = w[j]
    PROVE  SubSeq(e, n + 1, n + Len(w)) = w
<1> DEFINE a == SubSeq(e, n + 1, n + Len(w))
           m == Len(w)
<1>1. m \in Nat
  OBVIOUS
<1>2. ASSUME NEW i \in n + 1 .. n + m PROVE e[i] \in Byte
  <2>1. i - n \in 1 .. m /\ n + (i - n) = i
    BY <1>1
  <2>2. w[i - n] \in Byte
    BY <2>1
  <2> QED BY <2>1, <2>2
<1>3. a \in Seq(Byte) /\ Len(a) = m /\ \A i \in 1 .. m : a[i] = e[n + i]
  <2>1. /\ n + 1 \in Int /\ n + m \in Int
        /\ (IF n + 1 <= n + m THEN (n + m) - (n + 1) + 1 ELSE 0) = m
        /\ (n + m) - (n + 1) + 1 = m
        /\ \A i \in 1 .. m : (n + 1) + i - 1 = n + i
    BY <1>1
  <2> HIDE DEF a, m
  <2>2. /\ a \in Seq(Byte)
        /\ Len(a) = IF n + 1 <= n + m THEN (n + m) - (n + 1) + 1 ELSE 0
        /\ \A i \in 1 .. (n + m) - (n + 1) + 1 : a[i] = e[(n + 1) + i - 1]
    BY <1>2, <2>1, SubSeqProperties DEF a, m
  <2> QED BY <2>1, <2>2
<1> HIDE DEF a
<1>4. \A i \in 1 .. Len(a) : a[i] = w[i]
  BY <1>3
<1>5. a = w
  BY <1>3, <1>4, SameBytes
<1> QED BY <1>5 DEF a

-----------------------------------------------------------------------------
(* The inductive invariant.                                                *)

Arrived == consumed \o line

(* Without damage, what has come is frames that were sent, delimited.      *)
Clean ==
    /\ Ended(Arrived)
    /\ \A s, t : IsRun(Arrived, s, t) => \E f \in sent : SubSeq(Arrived, s, t) = HostWire(f)
    /\ \A h \in handled : \E f \in sent : h.raw = HostWire(f)
    /\ \A h \in heard : \E f \in answered : h.raw = DeviceWire(f)
    /\ \A f \in answered : \E h \in heard : h.raw = DeviceWire(f)

LineInv ==
    /\ sent \subseteq Frames /\ answered \subseteq Answers /\ faults \in Nat
    /\ \A h \in handled : h.raw \in Seq(Byte) /\ h.got = parse_frame(cobs_decode(h.raw))
    /\ \A h \in heard : h.raw \in Seq(Byte) /\ h.got = HostParse(HostDecode(h.raw))
    /\ faults = 0 => Clean

(* The invariant says what the property does.                              *)
LEMMA LineInvSuffices ==
    LineInv => UndamagedRead /\ AnswersHeard /\ (faults = 0 => NothingForged)
<1> SUFFICES ASSUME LineInv PROVE UndamagedRead /\ AnswersHeard /\ (faults = 0 => NothingForged)
  OBVIOUS
<1>1. /\ sent \subseteq Frames /\ answered \subseteq Answers
      /\ \A h \in handled : h.raw \in Seq(Byte) /\ h.got = parse_frame(cobs_decode(h.raw))
      /\ \A h \in heard : h.raw \in Seq(Byte) /\ h.got = HostParse(HostDecode(h.raw))
      /\ faults = 0 => Clean
  BY DEF LineInv
<1>2. ASSUME NEW h \in handled, NEW f \in sent, h.raw = HostWire(f)
      PROVE  h.got = [ok |-> TRUE, frame |-> f]
  <2>1. f \in Frame
    BY <1>1, FramesAreFrames
  <2> QED BY <1>1, <1>2, <2>1, WireRoundTrip
<1>3. ASSUME NEW h \in heard, NEW f \in answered, h.raw = DeviceWire(f)
      PROVE  h.got = [ok |-> TRUE, frame |-> f]
  <2>1. f \in Frame
    BY <1>1, FramesAreFrames
  <2> QED BY <1>1, <1>3, <2>1, WireRoundTrip
<1>4. ASSUME NEW h \in handled, NEW f \in sent, Delimited(h.raw) = ToDevice[f]
      PROVE  h.raw = HostWire(f)
  <2>1. f \in Frame /\ ToDevice[f] = Delimited(HostWire(f))
    BY <1>1, FramesAreFrames
  <2>2. HostWire(f) \in Seq(Byte) /\ h.raw \in Seq(Byte)
    BY <1>1, <2>1, WireRoundTrip
  <2> QED BY <1>4, <2>1, <2>2, DelimitedSame
<1>5. ASSUME NEW h \in heard, NEW f \in answered, Delimited(h.raw) = ToHost[f]
      PROVE  h.raw = DeviceWire(f)
  <2>1. f \in Frame /\ ToHost[f] = Delimited(DeviceWire(f))
    BY <1>1, FramesAreFrames
  <2>2. DeviceWire(f) \in Seq(Byte) /\ h.raw \in Seq(Byte)
    BY <1>1, <2>1, WireRoundTrip
  <2> QED BY <1>5, <2>1, <2>2, DelimitedSame
<1>6. UndamagedRead
  BY <1>2, <1>3, <1>4, <1>5 DEF UndamagedRead
<1>7. AnswersHeard
  BY <1>1, <1>3 DEF AnswersHeard, Clean
<1>8. ASSUME faults = 0 PROVE NothingForged
  <2>1. ASSUME NEW h \in handled PROVE h.got.ok => h.got.frame \in sent
    <3>1. PICK f \in sent : h.raw = HostWire(f)
      BY <1>1, <1>8 DEF Clean
    <3>2. h.got = [ok |-> TRUE, frame |-> f]
      BY <1>2, <3>1
    <3> QED BY <3>2
  <2>2. ASSUME NEW h \in heard PROVE h.got.ok => h.got.frame \in answered
    <3>1. PICK f \in answered : h.raw = DeviceWire(f)
      BY <1>1, <1>8 DEF Clean
    <3>2. h.got = [ok |-> TRUE, frame |-> f]
      BY <1>3, <3>1
    <3> QED BY <3>2
  <2> QED BY <2>1, <2>2 DEF NothingForged
<1> QED BY <1>6, <1>7, <1>8

(* It holds of a new line.                                                 *)
LEMMA LineStarts == LineInit => LineInv
<1> SUFFICES ASSUME LineInit PROVE LineInv
  OBVIOUS
<1>1. /\ handled = {} /\ heard = {} /\ sent = {} /\ answered = {} /\ faults = 0
      /\ consumed = <<>> /\ line = <<>>
  BY DEF LineInit, ReaderInit
<1>2. Len(Arrived) = 0
  BY <1>1 DEF Arrived
<1>3. \A s, t : ~IsRun(Arrived, s, t)
  BY <1>2 DEF IsRun
<1>4. Clean
  BY <1>1, <1>2, <1>3 DEF Clean, Ended
<1> QED BY <1>1, <1>4 DEF LineInv

(* What has been read between two delimiters of a clean line is a frame    *)
(* that was sent.                                                          *)
LEMMA RunIsFrame ==
    ASSUME ReaderInv, Clean, NEW r \in Runs(consumed)
    PROVE  /\ RunLen(r) = Len(SubSeq(consumed, r[1], r[2]))
           /\ \E f \in sent : SubSeq(consumed, r[1], r[2]) = HostWire(f)
<1>1. consumed \in Seq(Byte) /\ line \in Seq(Byte)
  BY DEF ReaderInv
<1> DEFINE s == r[1]
           t == r[2]
<1>3. IsRun(consumed, s, t)
  BY <1>1, RunsAre
<1>2. RunLen(r) = t - s + 1
  BY DEF RunLen
<1> HIDE DEF s, t
<1>4. Arrived \in Seq(Byte) /\ Begins(Arrived, consumed)
  <2> DEFINE e == consumed \o line
  <2>1. /\ e \in Seq(Byte) /\ Len(e) = Len(consumed) + Len(line)
        /\ \A i \in 1 .. Len(consumed) + Len(line) :
               e[i] = IF i <= Len(consumed) THEN consumed[i] ELSE line[i - Len(consumed)]
    BY <1>1, ConcatProperties
  <2>2. Len(consumed) \in Nat /\ Len(line) \in Nat
    BY <1>1
  <2> HIDE DEF e
  <2>3. Len(consumed) <= Len(e) /\ \A i \in 1 .. Len(consumed) : e[i] = consumed[i]
    BY <2>1, <2>2
  <2> QED BY <2>1, <2>3 DEF Begins, Arrived, e
<1>5. IsRun(Arrived, s, t) /\ SubSeq(Arrived, s, t) = SubSeq(consumed, s, t)
  <2>1. RunOfPart(Arrived, consumed, s, t)
    BY <1>1, <1>3, <1>4 DEF RunOfPart
  <2>2. SameRun(Arrived, consumed, s, t)
    BY <2>1, RunsOfPart
  <2> QED BY <1>3, <2>2, Zenon DEF SameRun
<1>6. Len(SubSeq(consumed, s, t)) = t - s + 1
  <2>1. /\ s \in Int /\ t \in Int /\ s <= t
        /\ \A i \in s .. t : i \in 1 .. Len(consumed)
    BY <1>1, <1>3 DEF IsRun
  <2>2. \A i \in s .. t : consumed[i] \in Byte
    BY <1>1, <2>1
  <2> QED BY <2>1, <2>2, SliceHas
<1>7. \E f \in sent : SubSeq(consumed, s, t) = HostWire(f)
  BY <1>5 DEF Clean
<1> QED BY <1>2, <1>6, <1>7 DEF s, t

(* What the slot holds has come as a frame.                                *)
LEMMA SlotIsFrame ==
    ASSUME ReaderInv, slot # None
    PROVE  /\ slot \in Seq(Byte)
           /\ Clean => \E f \in sent : slot = HostWire(f)
<1>1. consumed \in Seq(Byte) /\ \E r \in Runs(consumed) : slot = SubSeq(consumed, r[1], r[2])
  BY DEF ReaderInv, Judged
<1>2. PICK r \in Runs(consumed) : slot = SubSeq(consumed, r[1], r[2])
  BY <1>1
<1>3. slot \in Seq(Byte)
  <2> DEFINE s == r[1]   t == r[2]
  <2>1. IsRun(consumed, s, t)
    BY <1>1, RunsAre
  <2> HIDE DEF s, t
  <2>2. /\ s \in Int /\ t \in Int /\ s <= t
        /\ \A i \in s .. t : i \in 1 .. Len(consumed)
    BY <1>1, <2>1 DEF IsRun
  <2>3. \A i \in s .. t : consumed[i] \in Byte
    BY <1>1, <2>2
  <2>4. SubSeq(consumed, s, t) \in Seq(Byte)
    BY <2>2, <2>3, SliceHas
  <2> QED BY <1>2, <2>4 DEF s, t
<1>4. Clean => \E f \in sent : slot = HostWire(f)
  BY <1>2, RunIsFrame
<1> QED BY <1>3, <1>4

(* The host writes a frame.                                                *)
LEMMA WriteKept == ASSUME LineInv, ReaderInv, NEW f \in Frames, Write(f) PROVE LineInv'
<1>1. /\ sent' = sent \cup {f} /\ UNCHANGED <<handled, heard, answered>>
      /\ \E a \in Arrivals(ToDevice[f]) : Arrive(a[1]) /\ faults' = faults + a[2]
  BY DEF Write
<1>2. PICK a \in Arrivals(ToDevice[f]) : Arrive(a[1]) /\ faults' = faults + a[2]
  BY <1>1
<1>3. /\ ToDevice[f] \in Seq(Byte) /\ ToDevice[f] = Delimited(HostWire(f))
      /\ HostWire(f) \in Seq(Byte) /\ NoZero(HostWire(f))
  BY BytesWritten, FramesAreFrames, WireRoundTrip
<1>4. a[2] \in Nat /\ (a[2] = 0 => a[1] = ToDevice[f]) /\ faults \in Nat
  BY <1>2, <1>3, ArrivalsAre DEF LineInv
<1>5. faults' \in Nat /\ (faults' = 0 => faults = 0 /\ a[2] = 0)
  BY <1>2, <1>4
<1>6. ASSUME faults' = 0 PROVE Clean'
  <2> DEFINE w == HostWire(f)
             c == Arrived
  <2>1. Clean
    BY <1>5, <1>6 DEF LineInv
  <2>2. c \in Seq(Byte) /\ consumed \in Seq(Byte) /\ line \in Seq(Byte)
    BY ConcatBytes DEF Arrived, ReaderInv
  <2>3. Arrived' = c \o Delimited(w)
    <3>1. line' = line \o Delimited(w) /\ consumed' = consumed
      BY <1>2, <1>3, <1>4, <1>5, <1>6 DEF Arrive
    <3>2. Delimited(w) \in Seq(Byte)
      BY <1>3
    <3>3. consumed \o (line \o Delimited(w)) = (consumed \o line) \o Delimited(w)
      BY <2>2, <3>2, BytesAssociate
    <3> QED BY <3>1, <3>3 DEF Arrived
  <2> DEFINE e == Arrived'
  <2>4. w \in Seq(Byte) /\ NoZero(w) /\ Ended(c)
    BY <1>3, <2>1 DEF Clean
  <2>5. \A s, t : IsRun(c, s, t) => \E g \in sent : SubSeq(c, s, t) = HostWire(g)
    BY <2>1 DEF Clean
  <2>5a. w = HostWire(f)
    OBVIOUS
  <2> HIDE DEF c, w, e
  <2>6. IsWritten(e, c, w)
    <3>1. IsWritten(c \o Delimited(w), c, w)
      BY <2>2, <2>4, RunsWritten
    <3> QED BY <2>3, <3>1 DEF e
  <2>6a. /\ e \in Seq(Byte) /\ Ended(e) /\ Len(c) <= Len(e)
         /\ \A i \in 1 .. Len(c) : e[i] = c[i]
         /\ \A j \in 1 .. Len(w) : e[Len(c) + j] = w[j]
         /\ \A s, t : IsRun(e, s, t) => IsRun(c, s, t) \/ (s = Len(c) + 1 /\ t = Len(c) + Len(w))
    BY <2>6, Zenon DEF IsWritten
  <2>7. Len(c) \in Nat /\ Len(e) \in Nat
    BY <2>2, <2>6a
  <2>8. ASSUME NEW s, NEW t, IsRun(e, s, t)
        PROVE  \E g \in sent' : SubSeq(e, s, t) = HostWire(g)
    <3>1. CASE IsRun(c, s, t)
      <4>1. Begins(e, c)
        BY <2>6a, <3>1 DEF Begins
      <4>2. SubSeq(e, s, t) = SubSeq(c, s, t)
        <5>1. RunOfPart(e, c, s, t)
          BY <2>2, <2>6a, <3>1, <4>1 DEF RunOfPart
        <5>2. SameRun(e, c, s, t)
          BY <5>1, RunsOfPart
        <5> QED BY <5>2, Zenon DEF SameRun
      <4> QED BY <1>1, <2>5, <3>1, <4>2
    <3>2. CASE s = Len(c) + 1 /\ t = Len(c) + Len(w)
      <4>1. SubSeq(e, Len(c) + 1, Len(c) + Len(w)) = w
        BY <2>4, <2>6a, <2>7, StretchIs
      <4> QED BY <1>1, <2>5a, <3>2, <4>1
    <3> QED BY <2>6a, <2>8, <3>1, <3>2
  <2>9. Ended(Arrived') /\ \A s, t : IsRun(Arrived', s, t) =>
                               \E g \in sent' : SubSeq(Arrived', s, t) = HostWire(g)
    BY <2>6a, <2>8 DEF e
  <2>10. /\ \A h \in handled' : \E g \in sent' : h.raw = HostWire(g)
         /\ \A h \in heard' : \E g \in answered' : h.raw = DeviceWire(g)
         /\ \A g \in answered' : \E h \in heard' : h.raw = DeviceWire(g)
    BY <1>1, <2>1 DEF Clean
  <2> QED BY <2>9, <2>10 DEF Clean
<1>7. /\ sent' \subseteq Frames /\ answered' \subseteq Answers
      /\ \A h \in handled' : h.raw \in Seq(Byte) /\ h.got = parse_frame(cobs_decode(h.raw))
      /\ \A h \in heard' : h.raw \in Seq(Byte) /\ h.got = HostParse(HostDecode(h.raw))
  BY <1>1 DEF LineInv
<1> QED BY <1>5, <1>6, <1>7 DEF LineInv

(* The reader moves bytes from the line to what it has read.               *)
LEMMA ReadKept ==
    ASSUME LineInv, ReaderInv, StartPoll \/ ReadByte \/ EndPoll, UNCHANGED endsVars
    PROVE  LineInv'
<1>1. UNCHANGED <<handled, heard, sent, answered, faults>>
  BY DEF endsVars
<1>2. Arrived' = Arrived
  <2>1. CASE StartPoll \/ EndPoll
    BY <2>1 DEF StartPoll, EndPoll, Arrived
  <2>2. CASE ReadByte
    <3>1. /\ line # <<>> /\ line' = Tail(line) /\ consumed' = Append(consumed, Head(line))
          /\ line \in Seq(Byte) /\ consumed \in Seq(Byte)
      BY <2>2 DEF ReadByte, ReaderInv
    <3>2. Append(consumed, Head(line)) \o Tail(line) = consumed \o line
      BY <3>1
    <3> QED BY <3>1, <3>2 DEF Arrived
  <2> QED BY <2>1, <2>2
<1> QED BY <1>1, <1>2 DEF LineInv, Clean

(* The RF task takes what is in the slot.                                  *)
LEMMA ProcessKept == ASSUME LineInv, ReaderInv, ProcessPendingCommand PROVE LineInv'
<1> DEFINE p == [raw |-> slot, got |-> parse_frame(cobs_decode(slot))]
<1>1. /\ slot # None /\ UNCHANGED <<consumed, line, heard, sent, answered, faults>>
      /\ handled' = handled \cup {p}
  BY DEF ProcessPendingCommand, FreeSlot
<1>2. p.raw = slot /\ p.got = parse_frame(cobs_decode(p.raw))
  OBVIOUS
<1> HIDE DEF p
<1>3. slot \in Seq(Byte) /\ (Clean => \E f \in sent : slot = HostWire(f))
  BY <1>1, SlotIsFrame
<1>4. \A h \in handled' : h.raw \in Seq(Byte) /\ h.got = parse_frame(cobs_decode(h.raw))
  BY <1>1, <1>2, <1>3 DEF LineInv
<1>5. Arrived' = Arrived
  BY <1>1 DEF Arrived
<1>6. Clean => Clean'
  <2> SUFFICES ASSUME Clean PROVE Clean'
    OBVIOUS
  <2>1. \A h \in handled' : \E f \in sent' : h.raw = HostWire(f)
    BY <1>1, <1>2, <1>3 DEF Clean
  <2> QED BY <1>1, <1>5, <2>1 DEF Clean
<1> QED BY <1>1, <1>4, <1>6 DEF LineInv

(* An answer comes as the one run of its bytes.                            *)
LEMMA AnswerRuns ==
    ASSUME NEW w \in Seq(Byte), NoZero(w), w # <<>>
    PROVE  /\ \A r \in Runs(Delimited(w)) : SubSeq(Delimited(w), r[1], r[2]) = w
           /\ \E r \in Runs(Delimited(w)) : SubSeq(Delimited(w), r[1], r[2]) = w
<1> DEFINE none == <<>>
           d == Delimited(w)
<1>1. none \in Seq(Byte) /\ Len(none) = 0
  BY ZeroIsBytes
<1>2. Ended(none)
  BY <1>1 DEF Ended
<1>3. none \o d = d /\ d \in Seq(Byte) /\ \A j \in 1 .. Len(w) : d[j] = w[j]
  <2>1. d \in Seq(Byte) /\ \A j \in 1 .. Len(w) : d[j] = w[j]
    BY DelimitedHas
  <2> HIDE DEF d
  <2> QED BY <2>1
<1> HIDE DEF none
<1>4a. IsWritten(none \o d, none, w)
  BY <1>1, <1>2, RunsWritten
<1>4. /\ \A s, t : IsRun(none \o d, s, t) =>
             IsRun(none, s, t) \/ (s = Len(none) + 1 /\ t = Len(none) + Len(w))
      /\ IsRun(none \o d, Len(none) + 1, Len(none) + Len(w))
  BY <1>4a, Zenon DEF IsWritten
<1>5. \A s, t : ~IsRun(none, s, t)
  BY <1>1 DEF IsRun
<1> HIDE DEF d
<1>6. /\ \A s, t : IsRun(d, s, t) => s = 1 /\ t = Len(w)
      /\ IsRun(d, 1, Len(w))
  BY <1>1, <1>3, <1>4, <1>5
<1>7. SubSeq(d, 1, Len(w)) = w
  <2>1. \A j \in 1 .. Len(w) : d[0 + j] = w[j]
    BY <1>3
  <2>2. SubSeq(d, 0 + 1, 0 + Len(w)) = w
    BY <1>3, <2>1, StretchIs
  <2>3. 0 + 1 = 1 /\ 0 + Len(w) = Len(w)
    OBVIOUS
  <2> QED BY <2>2, <2>3
<1>8. \A r \in Runs(d) : SubSeq(d, r[1], r[2]) = w
  BY <1>3, <1>6, <1>7, RunsAre
<1>9. \E r \in Runs(d) : SubSeq(d, r[1], r[2]) = w
  <2>1. <<1, Len(w)>> \in Runs(d)
    BY <1>3, <1>6, RunsAre
  <2> QED BY <1>7, <2>1
<1> QED BY <1>8, <1>9 DEF d

(* The device writes an answer and the host reads it.                      *)
LEMMA SendKept == ASSUME LineInv, NEW f \in Answers, SendResponse(f) PROVE LineInv'
<1>1. PICK a \in Arrivals(ToHost[f]) :
          /\ heard' = heard \cup {HostReads(SubSeq(a[1], r[1], r[2])) : r \in Runs(a[1])}
          /\ faults' = faults + a[2]
  BY DEF SendResponse
<1>2. answered' = answered \cup {f} /\ UNCHANGED <<consumed, line, handled, sent>>
  BY DEF SendResponse, readerVars
<1>3. /\ ToHost[f] \in Seq(Byte) /\ ToHost[f] = Delimited(DeviceWire(f))
      /\ DeviceWire(f) \in Seq(Byte) /\ NoZero(DeviceWire(f)) /\ DeviceWire(f) # <<>>
  BY BytesWritten, FramesAreFrames, WireRoundTrip
<1>4. a[1] \in Seq(Byte) /\ a[2] \in Nat /\ (a[2] = 0 => a[1] = ToHost[f]) /\ faults \in Nat
  BY <1>3, ArrivalsAre DEF LineInv
<1>5. faults' \in Nat /\ (faults' = 0 => faults = 0 /\ a[2] = 0)
  BY <1>1, <1>4
<1>6. \A p : HostReads(p).raw = p /\ HostReads(p).got = HostParse(HostDecode(p))
  BY DEF HostReads
<1>7. ASSUME NEW h \in heard'
      PROVE  h.raw \in Seq(Byte) /\ h.got = HostParse(HostDecode(h.raw))
  <2>1. CASE h \in heard
    BY <2>1 DEF LineInv
  <2>2. CASE \E r \in Runs(a[1]) : h = HostReads(SubSeq(a[1], r[1], r[2]))
    <3>1. PICK r \in Runs(a[1]) : h = HostReads(SubSeq(a[1], r[1], r[2]))
      BY <2>2
    <3>2. IsRun(a[1], r[1], r[2])
      BY <1>4, RunsAre
    <3> DEFINE b == a[1]
               s == r[1]
               t == r[2]
    <3>3. b \in Seq(Byte) /\ IsRun(b, s, t)
      BY <1>4, <3>2
    <3> HIDE DEF b, s, t
    <3>4. /\ s \in Int /\ t \in Int /\ s <= t
          /\ \A i \in s .. t : i \in 1 .. Len(b)
      BY <3>3 DEF IsRun
    <3>5. \A i \in s .. t : b[i] \in Byte
      BY <3>3, <3>4
    <3>6. SubSeq(b, s, t) \in Seq(Byte)
      BY <3>4, <3>5, SliceHas
    <3> QED BY <1>6, <3>1, <3>6 DEF b, s, t
  <2> QED BY <1>1, <2>1, <2>2
<1>8. ASSUME faults' = 0 PROVE Clean'
  <2>1. Clean
    BY <1>5, <1>8 DEF LineInv
  <2>2. a[1] = Delimited(DeviceWire(f))
    BY <1>3, <1>4, <1>5, <1>8
  <2>3. /\ \A r \in Runs(a[1]) : SubSeq(a[1], r[1], r[2]) = DeviceWire(f)
        /\ \E r \in Runs(a[1]) : SubSeq(a[1], r[1], r[2]) = DeviceWire(f)
    BY <1>3, <2>2, AnswerRuns
  <2>4. Arrived' = Arrived
    BY <1>2 DEF Arrived
  <2>5. \A h \in heard' : \E g \in answered' : h.raw = DeviceWire(g)
    BY <1>1, <1>2, <1>6, <2>1, <2>3 DEF Clean
  <2>6. \A g \in answered' : \E h \in heard' : h.raw = DeviceWire(g)
    <3>1. PICK r \in Runs(a[1]) : SubSeq(a[1], r[1], r[2]) = DeviceWire(f)
      BY <2>3
    <3>2. HostReads(SubSeq(a[1], r[1], r[2])) \in heard'
      BY <1>1
    <3>3. \E h \in heard' : h.raw = DeviceWire(f)
      BY <1>6, <3>1, <3>2
    <3>4. heard \subseteq heard'
      BY <1>1
    <3> QED BY <1>2, <2>1, <3>3, <3>4 DEF Clean
  <2> QED BY <1>2, <2>1, <2>4, <2>5, <2>6 DEF Clean
<1>9. /\ sent' \subseteq Frames /\ answered' \subseteq Answers
      /\ \A h \in handled' : h.raw \in Seq(Byte) /\ h.got = parse_frame(cobs_decode(h.raw))
  BY <1>2 DEF LineInv
<1> QED BY <1>5, <1>7, <1>8, <1>9 DEF LineInv

(* Every reachable state of the line satisfies the inductive invariant.    *)
THEOREM LineInvHolds == LineSpec => []LineInv
<1>1. LineInit => LineInv
  BY LineStarts
<1>2. LineInv /\ ReaderInv /\ [LineNext]_lineVars => LineInv'
  <2> SUFFICES ASSUME LineInv, ReaderInv, [LineNext]_lineVars PROVE LineInv'
    OBVIOUS
  <2>1. CASE UNCHANGED lineVars
    <3>1. UNCHANGED <<consumed, line, handled, heard, sent, answered, faults>>
      BY <2>1 DEF lineVars, readerVars, endsVars
    <3> QED BY <3>1 DEF LineInv, Clean, Arrived
  <2>2. CASE LineNext
    BY <2>2, WriteKept, ReadKept, ProcessKept, SendKept DEF LineNext
  <2> QED BY <2>1, <2>2
<1>3. LineSpec => []ReaderInv
  BY LineReads, ReaderInvHolds, PTL
<1> QED BY <1>1, <1>2, <1>3, PTL DEF LineSpec

(* Whatever the damage to other frames, the bytes of an undamaged frame    *)
(* are taken by protocol_parse_frame and by parse_frame of protocol.py for *)
(* that frame (UndamagedRead), and the host hears the answers sent over a  *)
(* clean line; and while nothing was damaged nothing is taken for a frame  *)
(* that was not sent, so that FramesArrive holds whole.  That damage does  *)
(* not pass for another frame depends on how far apart the checksum keeps  *)
(* the frames of Frames, and is not so for every set of them.              *)
THEOREM FramesOfCleanLine ==
    LineSpec => [](UndamagedRead /\ AnswersHeard /\ (faults = 0 => FramesArrive))
<1>1. LineInv => UndamagedRead /\ AnswersHeard /\ (faults = 0 => FramesArrive)
  BY LineInvSuffices DEF FramesArrive
<1> QED BY <1>1, LineInvHolds, PTL

(* While nothing was damaged, no frame is refused as too long, provided    *)
(* that the buffer holds each as the host writes it: bytes of two frames   *)
(* are never run together, at no moment and however they fall into polls.  *)
THEOREM NothingOverlong ==
    ASSUME \A f \in Frames : Len(HostWire(f)) <= BufLen
    PROVE  LineSpec => [](faults = 0 =>
                              \A r \in Runs(consumed) :
                                  verdicts[Place(Runs(consumed), r)] # "overlong")
<1> DEFINE Ok == \A r \in Runs(consumed) : verdicts[Place(Runs(consumed), r)] # "overlong"
<1>1. ReaderInv /\ LineInv => (faults = 0 => Ok)
  <2> SUFFICES ASSUME ReaderInv, LineInv, faults = 0, NEW r \in Runs(consumed)
               PROVE  verdicts[Place(Runs(consumed), r)] # "overlong"
    OBVIOUS
  <2>1. Clean /\ sent \subseteq Frames
    BY DEF LineInv
  <2> DEFINE l == RunLen(r)
  <2>2. \E f \in sent : l = Len(HostWire(f))
    BY <2>1, RunIsFrame
  <2>3. PICK f \in Frames : l = Len(HostWire(f))
    BY <2>1, <2>2
  <2>4. l <= BufLen /\ l \in Nat /\ BufLen \in Nat
    <3>1. Len(HostWire(f)) \in Nat
      BY FramesAreFrames, WireRoundTrip
    <3> QED BY <2>3, <3>1, ReaderAssumption
  <2> HIDE DEF l
  <2>5. ~ (l > BufLen)
    BY <2>4
  <2>6. verdicts[Place(Runs(consumed), r)] = "overlong" <=> l > BufLen
    BY Zenon DEF ReaderInv, Judged, l
  <2> QED BY <2>5, <2>6
<1>2. LineSpec => []ReaderInv
  BY LineReads, ReaderInvHolds, PTL
<1> QED BY <1>1, <1>2, LineInvHolds, PTL

(* At the sizes of protocol.h the buffer does hold each: the host's frames *)
(* of up to PROTOCOL_MAX_PAYLOAD bytes are never answered with             *)
(* ERR_FRAME_TOO_LONG while the line is clean.                             *)
THEOREM CleanFramesFit ==
    ASSUME FullCode = 255, BufLen = MaxEncoded,
           \A f \in Frames : Len(f.payload) <= MaxPayloadBytes
    PROVE  LineSpec => [](faults = 0 =>
                              \A r \in Runs(consumed) :
                                  verdicts[Place(Runs(consumed), r)] # "overlong")
<1>1. ASSUME NEW f \in Frames PROVE Len(HostWire(f)) <= BufLen
  <2>1. Len(HostWire(f)) \in Nat /\ Len(HostWire(f)) < MaxEncoded
    BY FramesAreFrames, WireRoundTrip, FramesFit
  <2> QED BY <2>1, ReaderAssumption
<1> QED BY <1>1, NothingOverlong

-----------------------------------------------------------------------------
(* The entries of the RF core.                                             *)

(* What a byte of an entry may be.                                         *)
Kinds == {"len", "phr", "pdu", "crc", "rssi", "status", "time"}

(* A sequence of n bytes.                                                  *)
Long(s, n) == n \in Nat /\ s \in Seq(Item) /\ Len(s) = n

(* The bytes of one kind.                                                  *)
LEMMA ItemIs ==
    ASSUME NEW what \in Kinds, NEW i \in Nat, NEW value \in Nat
    PROVE  B(what, i, value) \in Item /\ B(what, i, value).value = value
BY SMT DEF B, Item, Kinds

(* Bytes of one kind.                                                      *)
LEMMA BytesAre ==
    ASSUME NEW what \in Kinds, NEW n \in Nat
    PROVE  Long(Bytes(what, n), n) /\ \A i \in 1 .. n : Bytes(what, n)[i] = B(what, i, 0)
<1>1. \A i \in 1 .. n : B(what, i, 0) \in Item
  BY ItemIs
<1>2. Bytes(what, n) \in Seq(Item)
  BY <1>1, SMT DEF Bytes
<1>3. Len(Bytes(what, n)) = n
  BY SMT DEF Bytes
<1>4. \A i \in 1 .. n : Bytes(what, n)[i] = B(what, i, 0)
  BY Zenon DEF Bytes
<1> QED BY <1>2, <1>3, <1>4, Zenon DEF Long

(* A sequence put after another keeps its bytes.                           *)
Joined(e, s, m, t, n) ==
    /\ Long(e, m + n)
    /\ \A i \in 1 .. m : e[i] = s[i]
    /\ \A i \in 1 .. n : e[m + i] = t[i]

(* One sequence after another.                                             *)
LEMMA JoinLong ==
    \A s, m, t, n : Long(s, m) /\ Long(t, n) => Joined(s \o t, s, m, t, n)
BY SMT DEF Long, Joined

(* What the constants range over.                                          *)
LEMMA Ranges ==
    /\ \A h \in BleHeaders : h \in Nat
    /\ \A n \in BleLens \cup PropLens : n \in Nat
    /\ \A c \in BleChannels : c \in Nat /\ c \in 0 .. 39
    /\ \A n \in IeeeLens : n \in Nat /\ n <= 127
<1>1. BleHeaders \subseteq 0 .. 255 /\ BleLens \subseteq 0 .. 255 /\ PropLens \subseteq 0 .. 255
  BY RxEntryAssumption
<1>2. BleChannels \subseteq 0 .. 39 /\ IeeeLens \subseteq 0 .. 127
  BY RxEntryAssumption
<1> QED BY <1>1, <1>2, SMT

(* One or two bytes.                                                       *)
LEMMA OneLong == ASSUME NEW x \in Item PROVE Long(<<x>>, 1) /\ <<x>>[1] = x
BY SMT DEF Long

(* Two bytes.                                                              *)
LEMMA TwoLong == ASSUME NEW x \in Item, NEW y \in Item PROVE Long(<<x, y>>, 2) /\ <<x, y>>[1] = x
BY SMT DEF Long

(* The packets on the air.                                                 *)
LEMMA AirsAre ==
    ASSUME NEW a \in Airs
    PROVE  /\ a.len \in Nat /\ a.head \in Nat
           /\ a.ch \in Nat /\ a.crc \in BOOLEAN
           /\ a.phy = "ble" => a.ch \in 0 .. 39
           /\ a.phy \in {"ble", "ieee", "prop"}
           /\ a.phy = "ieee" => a.len <= 127
<1> DEFINE some == {IeeeChannel(c) : c \in Channels}
           ieee == [phy : {"ieee"}, head : {0}, len : IeeeLens, ch : some, crc : BOOLEAN]
           prop == [phy : {"prop"}, head : {0}, len : PropLens, ch : Channels, crc : BOOLEAN]
<1>0. some \subseteq Nat
  <2> SUFFICES ASSUME NEW c \in Channels PROVE IeeeChannel(c) \in Nat
    BY Zenon
  <2>1. c \in Nat
    BY RxEntryAssumption, SMT
  <2> QED BY <2>1, SMT DEF IeeeChannel
<1> HIDE DEF some
<1>1. CASE a \in BleAirs
  <2>1. a \in [phy : {"ble"}, head : BleHeaders, len : BleLens, ch : BleChannels, crc : BOOLEAN]
    BY <1>1, Zenon DEF BleAirs
  <2>2. a.phy = "ble" /\ a.head \in BleHeaders /\ a.len \in BleLens /\ a.ch \in BleChannels
    BY <2>1, SMT
  <2>3. a.crc \in BOOLEAN
    BY <2>1, Zenon
  <2>4. a.head \in Nat /\ a.len \in Nat /\ a.ch \in Nat /\ a.ch \in 0 .. 39
    BY <2>2, Ranges
  <2> QED BY <2>2, <2>3, <2>4
<1>2. CASE a \in ieee
  <2>1. a.phy = "ieee" /\ a.head = 0 /\ a.len \in IeeeLens /\ a.ch \in some
    BY <1>2, SMT
  <2>2. a.crc \in BOOLEAN
    BY <1>2, Zenon
  <2>3. a.len \in Nat /\ a.len <= 127
    BY <2>1, Ranges
  <2>4. a.head \in Nat /\ a.len \in Nat /\ a.len <= 127
    BY <2>1, <2>3, SMT
  <2>5. a.ch \in Nat
    BY <1>0, <2>1, Zenon
  <2> QED BY <2>1, <2>2, <2>3, <2>4, <2>5
<1>3. CASE a \in prop
  <2>1. a.phy = "prop" /\ a.head = 0 /\ a.len \in PropLens /\ a.ch \in Channels
    BY <1>3, SMT
  <2>2. a.crc \in BOOLEAN
    BY <1>3, Zenon
  <2>3. a.len \in Nat
    BY <2>1, Ranges
  <2>4. a.head \in Nat /\ a.len \in Nat
    BY <2>1, <2>3, SMT
  <2>5. a.ch \in Nat
    BY <2>1, RxEntryAssumption, Zenon
  <2> QED BY <2>1, <2>2, <2>4, <2>5
<1> QED BY <1>1, <1>2, <1>3, Zenon DEF Airs, some

(* What is read out of a BLE entry: it is 13 bytes longer than the payload *)
(* and has the RSSI, the channel and the time stamp where they are sought. *)
BleEntryIs(e, a) ==
    /\ Long(e, a.len + 13)
    /\ e[a.len + 7] = B("rssi", 1, 0)
    /\ e[a.len + 8] = B("status", 1, a.ch)
    /\ e[a.len + 10] = B("time", 1, 0)

(* What the core appends to a BLE packet.                                  *)
LEMMA BleTail ==
    ASSUME NEW a \in Airs, a.phy = "ble"
    PROVE  /\ Long(Appended(a), 10)
           /\ Appended(a)[4] = B("rssi", 1, 0)
           /\ Appended(a)[5] = B("status", 1, a.ch)
           /\ Appended(a)[7] = B("time", 1, 0)
<1> DEFINE crc == Bytes("crc", 3)   rssi == Bytes("rssi", 1)   time == Bytes("time", 4)
           st == <<B("status", 1, a.ch), B("status", 2, 0)>>
           x == crc \o rssi   y == x \o st   z == y \o time
<1>1. Appended(a) = z
  BY SMT DEF Appended
<1>2. B("status", 1, a.ch) \in Item /\ B("status", 2, 0) \in Item
  <2>1. a.ch \in Nat /\ 0 \in Nat /\ 1 \in Nat /\ 2 \in Nat /\ "status" \in Kinds
    BY AirsAre, SMT DEF Kinds
  <2> QED BY <2>1, ItemIs, Zenon
<1>3. Long(st, 2) /\ st[1] = B("status", 1, a.ch)
  BY <1>2, TwoLong, Zenon
<1>4. "crc" \in Kinds /\ "rssi" \in Kinds /\ "time" \in Kinds
  BY DEF Kinds
<1>5. Long(crc, 3)
  BY <1>4, BytesAre, SMT
<1>6. Long(rssi, 1) /\ rssi[1] = B("rssi", 1, 0)
  BY <1>4, BytesAre, SMT
<1>7. Long(time, 4) /\ time[1] = B("time", 1, 0)
  BY <1>4, BytesAre, SMT
<1> HIDE DEF crc, rssi, time, st
<1>8. Long(x, 4) /\ x[4] = B("rssi", 1, 0)
  <2>1. Joined(x, crc, 3, rssi, 1)
    BY <1>5, <1>6, JoinLong, Zenon
  <2> HIDE DEF x
  <2> QED BY <2>1, <1>6, SMT DEF Joined
<1> HIDE DEF x
<1>9. Long(y, 6) /\ y[4] = B("rssi", 1, 0) /\ y[5] = B("status", 1, a.ch)
  <2>1. Joined(y, x, 4, st, 2)
    BY <1>8, <1>3, JoinLong, Zenon
  <2> HIDE DEF y
  <2> QED BY <2>1, <1>8, <1>3, SMT DEF Joined
<1> HIDE DEF y
<1>10. /\ Long(z, 10) /\ z[4] = B("rssi", 1, 0) /\ z[5] = B("status", 1, a.ch)
       /\ z[7] = B("time", 1, 0)
  <2>1. Joined(z, y, 6, time, 4)
    BY <1>9, <1>7, JoinLong, Zenon
  <2> HIDE DEF z
  <2> QED BY <2>1, <1>9, <1>7, SMT DEF Joined
<1> QED BY <1>1, <1>10, Zenon

(* What comes before it.                                                   *)
LEMMA BleHead ==
    ASSUME NEW a \in Airs, a.phy = "ble"
    PROVE  Long(<<B("len", 1, a.len + 2)>> \o Pdu(a), a.len + 3)
<1> DEFINE first == <<B("len", 1, a.len + 2)>>
           head == <<B("pdu", 1, a.head), B("pdu", 2, a.len)>>
           rest == [i \in 1 .. a.len |-> B("pdu", i + 2, 0)]
           p == head \o rest
<1>1. Pdu(a) = p
  <2>1. a.phy # "ieee" /\ a.phy # "prop"
    OBVIOUS
  <2> QED BY <2>1, Zenon DEF Pdu
<1>2. a.len \in Nat /\ a.head \in Nat /\ a.len + 2 \in Nat
  BY AirsAre, SMT
<1>3. "len" \in Kinds /\ "pdu" \in Kinds
  BY DEF Kinds
<1>4. B("len", 1, a.len + 2) \in Item /\ B("pdu", 1, a.head) \in Item /\ B("pdu", 2, a.len) \in Item
  BY <1>2, <1>3, ItemIs, SMT
<1>5. Long(first, 1) /\ Long(head, 2)
  BY <1>4, OneLong, TwoLong, Zenon
<1>6. Long(rest, a.len)
  <2>1. \A i \in 1 .. a.len : B("pdu", i + 2, 0) \in Item
    BY <1>2, <1>3, ItemIs, SMT
  <2>2. rest \in [1 .. a.len -> Item]
    BY <2>1, Zenon
  <2> HIDE DEF rest
  <2> QED BY <2>2, <1>2, SMT DEF Long
<1> HIDE DEF first, head, rest
<1>7. Long(p, 2 + a.len)
  BY <1>5, <1>6, JoinLong, Zenon DEF Joined
<1> HIDE DEF p
<1>8. Long(first \o p, 1 + (2 + a.len))
  BY <1>5, <1>7, JoinLong, Zenon DEF Joined
<1>9. 1 + (2 + a.len) = a.len + 3
  BY <1>2, SMT
<1> QED BY <1>1, <1>8, <1>9, Zenon DEF first

(* Every BLE entry is as described.                                        *)
LEMMA BleEntry ==
    ASSUME NEW a \in Airs, a.phy = "ble"
    PROVE  BleEntryIs(Entry(a), a)
<1> DEFINE pre == <<B("len", 1, a.len + 2)>> \o Pdu(a)
           z == Appended(a)
           e == pre \o z
<1>1. Entry(a) = e
  BY Zenon DEF Entry
<1>2. Long(pre, a.len + 3)
  BY BleHead
<1>3. /\ Long(z, 10) /\ z[4] = B("rssi", 1, 0) /\ z[5] = B("status", 1, a.ch)
      /\ z[7] = B("time", 1, 0)
  BY BleTail
<1> HIDE DEF pre, z
<1>4. Long(e, a.len + 3 + 10) /\ \A i \in 1 .. 10 : e[a.len + 3 + i] = z[i]
  <2>1. Joined(e, pre, a.len + 3, z, 10)
    BY <1>2, <1>3, JoinLong, Zenon
  <2> QED BY <2>1, Zenon DEF Joined
<1> HIDE DEF e
<1>5. a.len \in Nat
  BY AirsAre
<1>6. e[a.len + 3 + 4] = z[4] /\ e[a.len + 3 + 5] = z[5] /\ e[a.len + 3 + 7] = z[7]
  BY <1>4, SMT
<1>7. /\ a.len + 3 + 10 = a.len + 13 /\ a.len + 3 + 4 = a.len + 7 /\ a.len + 3 + 5 = a.len + 8
      /\ a.len + 3 + 7 = a.len + 10
  BY <1>5, SMT
<1> QED BY <1>1, <1>3, <1>4, <1>6, <1>7, Zenon DEF BleEntryIs

(* What is read out of the entry of an IEEE 802.15.4 frame.                *)
IeeeEntryIs(e, a) ==
    /\ Long(e, a.len + 7) /\ e[1].value = a.len
    /\ \A i \in 1 .. a.len : e[i + 1] = B("pdu", i, 0)
    /\ e[a.len + 2] = B("rssi", 1, 0)
    /\ e[a.len + 4] = B("time", 1, 0)

(* What the core appends in the other modes.                               *)
LEMMA ShortTail ==
    ASSUME NEW a \in Airs
    PROVE  /\ a.phy = "ieee" => /\ Long(Appended(a), 6)
                                /\ Appended(a)[1] = B("rssi", 1, 0)
                                /\ Appended(a)[3] = B("time", 1, 0)
           /\ a.phy = "prop" => /\ Long(Appended(a), 6)
                                /\ Appended(a)[2] = B("rssi", 1, 0)
                                /\ Appended(a)[3] = B("time", 1, 0)
<1> DEFINE rssi == Bytes("rssi", 1)   status == Bytes("status", 1)   time == Bytes("time", 4)
           x == rssi \o status   y == x \o time   v == status \o rssi   w == v \o time
<1>1. "status" \in Kinds /\ "rssi" \in Kinds /\ "time" \in Kinds
  BY DEF Kinds
<1>2. Long(rssi, 1) /\ rssi[1] = B("rssi", 1, 0)
  BY <1>1, BytesAre, SMT
<1>3. Long(status, 1)
  BY <1>1, BytesAre, SMT
<1>4. Long(time, 4) /\ time[1] = B("time", 1, 0)
  BY <1>1, BytesAre, SMT
<1>5. a.phy = "ieee" => Appended(a) = y
  BY Zenon DEF Appended
<1>6. a.phy = "prop" => Appended(a) = w
  BY Zenon DEF Appended
<1> HIDE DEF rssi, status, time
<1>7. Long(x, 2) /\ x[1] = B("rssi", 1, 0)
  <2>1. Joined(x, rssi, 1, status, 1)
    BY <1>2, <1>3, JoinLong, Zenon
  <2> HIDE DEF x
  <2> QED BY <2>1, <1>2, SMT DEF Joined
<1>8. Long(v, 2) /\ v[2] = B("rssi", 1, 0)
  <2>1. Joined(v, status, 1, rssi, 1)
    BY <1>2, <1>3, JoinLong, Zenon
  <2> HIDE DEF v
  <2> QED BY <2>1, <1>2, SMT DEF Joined
<1> HIDE DEF x, v
<1>9. Long(y, 6) /\ y[1] = B("rssi", 1, 0) /\ y[3] = B("time", 1, 0)
  <2>1. Joined(y, x, 2, time, 4)
    BY <1>7, <1>4, JoinLong, Zenon
  <2> HIDE DEF y
  <2> QED BY <2>1, <1>7, <1>4, SMT DEF Joined
<1>10. Long(w, 6) /\ w[2] = B("rssi", 1, 0) /\ w[3] = B("time", 1, 0)
  <2>1. Joined(w, v, 2, time, 4)
    BY <1>8, <1>4, JoinLong, Zenon
  <2> HIDE DEF w
  <2> QED BY <2>1, <1>8, <1>4, SMT DEF Joined
<1> HIDE DEF y, w
<1> QED BY <1>5, <1>6, <1>9, <1>10, Zenon

(* Nothing put before a sequence changes it.                               *)
LEMMA NothingBefore ==
    ASSUME NEW s, NEW n, Long(s, n)
    PROVE  <<>> \o s = s
BY EmptySeq, ConcatEmptySeq DEF Long

(* Every IEEE 802.15.4 entry is as described.                              *)
LEMMA IeeeEntry ==
    ASSUME NEW a \in Airs, a.phy = "ieee"
    PROVE  IeeeEntryIs(Entry(a), a)
<1> DEFINE first == <<B("phr", 1, a.len)>>   rest == Bytes("pdu", a.len)
           p == first \o rest   z == Appended(a)   e == p \o z
<1>1. a.len \in Nat
  BY AirsAre
<1>2. "phr" \in Kinds /\ "pdu" \in Kinds
  BY DEF Kinds
<1>3. Long(first, 1) /\ first[1].value = a.len
  <2>1. B("phr", 1, a.len) \in Item /\ B("phr", 1, a.len).value = a.len
    BY <1>1, <1>2, ItemIs, SMT
  <2> QED BY <2>1, OneLong, Zenon
<1>4. Long(rest, a.len) /\ \A i \in 1 .. a.len : rest[i] = B("pdu", i, 0)
  BY <1>1, <1>2, BytesAre, Zenon
<1>5. Long(z, 6) /\ z[1] = B("rssi", 1, 0) /\ z[3] = B("time", 1, 0)
  BY ShortTail, Zenon
<1>6. Joined(p, first, 1, rest, a.len)
  BY <1>3, <1>4, JoinLong, Zenon
<1>7. Joined(e, p, 1 + a.len, z, 6)
  <2>1. Long(p, 1 + a.len)
    BY <1>6, Zenon DEF Joined
  <2> HIDE DEF p, z
  <2> QED BY <2>1, <1>5, JoinLong, Zenon
<1>8. Entry(a) = e
  <2>1. Pdu(a) = p /\ a.phy # "ble"
    BY SMT DEF Pdu
  <2>2. <<>> \o p = p
    <3>1. Long(p, 1 + a.len)
      BY <1>6, Zenon DEF Joined
    <3> QED BY <3>1, NothingBefore, Zenon
  <2> QED BY <2>1, <2>2, Zenon DEF Entry
<1> HIDE DEF first, rest, p, z, e
<1>9. /\ Long(e, a.len + 7) /\ e[1] = first[1]
      /\ \A i \in 1 .. a.len : e[i + 1] = rest[i]
      /\ e[a.len + 2] = z[1] /\ e[a.len + 4] = z[3]
  <2>1. 1 + a.len + 6 = a.len + 7
    BY <1>1, SMT
  <2>2. e[1] = first[1]
    BY <1>1, <1>6, <1>7, SMT DEF Joined
  <2>3. \A i \in 1 .. a.len : e[i + 1] = rest[i]
    <3> SUFFICES ASSUME NEW i \in 1 .. a.len PROVE e[i + 1] = rest[i]
      OBVIOUS
    <3>1. p[1 + i] = rest[i]
      BY <1>6, Zenon DEF Joined
    <3>2. i + 1 \in 1 .. 1 + a.len /\ i + 1 = 1 + i
      BY <1>1, SMT
    <3>3. e[i + 1] = p[i + 1]
      BY <3>2, <1>7, Zenon DEF Joined
    <3> QED BY <3>1, <3>2, <3>3
  <2>4. e[1 + a.len + 1] = z[1] /\ e[1 + a.len + 3] = z[3]
    BY <1>7, SMT DEF Joined
  <2>5. 1 + a.len + 1 = a.len + 2 /\ 1 + a.len + 3 = a.len + 4
    BY <1>1, SMT
  <2> QED BY <1>7, <2>1, <2>2, <2>3, <2>4, <2>5, Zenon DEF Joined
<1> QED BY <1>8, <1>9, <1>3, <1>4, <1>5, Zenon DEF IeeeEntryIs

(* What is read out of the entry of a proprietary packet.                  *)
PropEntryIs(e, a) ==
    /\ Long(e, a.len + 6)
    /\ \A i \in 1 .. a.len : e[i] = B("pdu", i, 0)
    /\ e[a.len + 2] = B("rssi", 1, 0)
    /\ e[a.len + 3] = B("time", 1, 0)

(* Every proprietary entry is as described.                                *)
LEMMA PropEntry ==
    ASSUME NEW a \in Airs, a.phy = "prop"
    PROVE  PropEntryIs(Entry(a), a)
<1> DEFINE p == Bytes("pdu", a.len)   z == Appended(a)   e == p \o z
<1>1. a.len \in Nat
  BY AirsAre
<1>2. Long(p, a.len) /\ \A i \in 1 .. a.len : p[i] = B("pdu", i, 0)
  <2>1. "pdu" \in Kinds
    BY DEF Kinds
  <2> QED BY <1>1, <2>1, BytesAre, Zenon
<1>3. Long(z, 6) /\ z[2] = B("rssi", 1, 0) /\ z[3] = B("time", 1, 0)
  BY ShortTail, Zenon
<1>4. Joined(e, p, a.len, z, 6)
  <2> HIDE DEF p, z
  <2> QED BY <1>2, <1>3, JoinLong, Zenon
<1>5. Entry(a) = e
  <2>1. Pdu(a) = p /\ a.phy # "ble"
    BY SMT DEF Pdu
  <2>2. <<>> \o p = p
    BY <1>2, NothingBefore, Zenon
  <2> QED BY <2>1, <2>2, Zenon DEF Entry
<1> HIDE DEF p, z, e
<1>6. e[a.len + 2] = z[2] /\ e[a.len + 3] = z[3]
  BY <1>4, SMT DEF Joined
<1> QED BY <1>2, <1>3, <1>4, <1>5, <1>6, Zenon DEF PropEntryIs, Joined

-----------------------------------------------------------------------------
(* What the parsers and the host make of an entry.                         *)

(* A slice of an entry.                                                    *)
LEMMA SliceOf ==
    ASSUME NEW e, NEW n, Long(e, n), NEW o \in Nat, NEW m \in Nat, o + m <= n
    PROVE  /\ Long(SubSeq(e, o + 1, o + m), m)
           /\ \A i \in 1 .. m : SubSeq(e, o + 1, o + m)[i] = e[o + i]
<1> DEFINE s == SubSeq(e, o + 1, o + m)
<1>1. n \in Nat /\ e \in Seq(Item) /\ Len(e) = n
  BY Zenon DEF Long
<1>2. \A i \in o + 1 .. o + m : e[i] \in Item
  <2> SUFFICES ASSUME NEW i \in o + 1 .. o + m PROVE e[i] \in Item
    OBVIOUS
  <2>1. i \in 1 .. Len(e)
    BY <1>1, SMT
  <2> QED BY <1>1, <2>1, ElementOfSeq
<1>3. /\ s \in Seq(Item)
      /\ Len(s) = IF o + 1 <= o + m THEN (o + m) - (o + 1) + 1 ELSE 0
      /\ \A i \in 1 .. (o + m) - (o + 1) + 1 : s[i] = e[(o + 1) + i - 1]
  <2> DEFINE a == o + 1   b == o + m
  <2>1. a \in Int /\ b \in Int
    BY SMT
  <2>2. \A i \in a .. b : e[i] \in Item
    BY <1>2
  <2> HIDE DEF a, b
  <2>3. /\ SubSeq(e, a, b) \in Seq(Item)
        /\ Len(SubSeq(e, a, b)) = IF a <= b THEN b - a + 1 ELSE 0
        /\ \A i \in 1 .. b - a + 1 : SubSeq(e, a, b)[i] = e[a + i - 1]
    BY <2>1, <2>2, SubSeqProperties
  <2> QED BY <2>3, Zenon DEF a, b
<1> HIDE DEF s
<1>4. Len(s) = m
  BY <1>3, SMT
<1>5. \A i \in 1 .. m : s[i] = e[o + i]
  <2> SUFFICES ASSUME NEW i \in 1 .. m PROVE s[i] = e[o + i]
    OBVIOUS
  <2>1. i \in 1 .. (o + m) - (o + 1) + 1 /\ (o + 1) + i - 1 = o + i
    BY SMT
  <2>2. s[i] = e[(o + 1) + i - 1]
    BY <1>3, <2>1, Zenon
  <2> QED BY <2>1, <2>2, Zenon
<1> QED BY <1>3, <1>4, <1>5, Zenon DEF Long, s

(* Sequences of the same bytes are the same.                               *)
LEMMA SameItems ==
    ASSUME NEW s, NEW t, NEW n, Long(s, n), Long(t, n), \A i \in 1 .. n : s[i] = t[i]
    PROVE  s = t
BY SeqEqual, Zenon DEF Long

(* A BLE PDU whose second byte tells its length, as the parser and the     *)
(* link-layer manager take it.                                             *)
Consistent(d) ==
    /\ d \in Seq(Item) /\ Len(d) >= 2
    /\ Len(d) = 2 + Mask6(d[2].value) /\ Len(d) <= 65

(* Six bits.                                                               *)
LEMMA MaskIs == \A v \in Nat : Mask6(v) \in 0 .. 63 /\ (v < 64 => Mask6(v) = v)
BY SMT DEF Mask6

(* A slice whose length is told by its own second byte is such a PDU.      *)
LEMMA BlePdu ==
    ASSUME NEW e, NEW n, Long(e, n), NEW o \in Nat, NEW k \in Nat, o + 2 <= n,
           o + (2 + Mask6(e[o + 2].value)) + k = n
    PROVE  Consistent(SubSeq(e, o + 1, o + (2 + Mask6(e[o + 2].value))))
<1> DEFINE q == Mask6(e[o + 2].value)   m == 2 + q   d == SubSeq(e, o + 1, o + m)
<1>1. n \in Nat /\ e \in Seq(Item) /\ Len(e) = n
  BY Zenon DEF Long
<1>2. q \in 0 .. 63
  <2>1. o + 2 \in 1 .. Len(e)
    BY <1>1, SMT
  <2>2. e[o + 2] \in Item
    BY <1>1, <2>1, ElementOfSeq
  <2>3. e[o + 2].value \in Nat
    BY <2>2, SMT DEF Item
  <2> QED BY <2>3, MaskIs, Zenon
<1>3. o + m + k = n
  OBVIOUS
<1> HIDE DEF q
<1>4. m \in Nat /\ o + m <= n /\ 2 \in 1 .. m /\ m >= 2 /\ m <= 65
  BY <1>1, <1>2, <1>3, SMT
<1> HIDE DEF m
<1>5. Long(d, m) /\ d[2] = e[o + 2]
  BY <1>4, SliceOf, Zenon
<1> HIDE DEF d
<1>6. d \in Seq(Item) /\ Len(d) = m
  BY <1>5, Zenon DEF Long
<1>7. Mask6(d[2].value) = q
  BY <1>5, Zenon DEF q
<1>8. Consistent(d)
  BY <1>4, <1>6, <1>7, Zenon DEF Consistent, m
<1> QED BY <1>8, Zenon DEF d, m, q

(* The report of a packet: its own signal strength, time stamp and         *)
(* channel (unless it was stored astray), and the bytes the mode promises. *)
Own(ch, a, s) == ch \in Nat /\ (ch = a.ch % 256 \/ (s /\ a.phy # "ble"))

Fields(p, a, s) ==
    p.rssi = B("rssi", 1, 0) /\ p.time = B("time", 1, 0) /\ Own(p.ch, a, s)

ReadRight(p, a, s) ==
    /\ p \in [data : Seq(Item), rssi : Item, time : Item, ch : Nat]
    /\ Fields(p, a, s)
    /\ a.phy = "ble" => Consistent(p.data)
    /\ a.phy = "ieee" => p.data = Bytes("pdu", a.len)
    /\ a.phy = "prop" => p.data = FirstOf(MaxPacketData, Bytes("pdu", a.len))

ToldRight(h, p, a, s) ==
    /\ Fields(h, a, s)
    /\ a.phy = "ble" => h.data = p.data
    /\ a.phy \in {"ieee", "prop"} => h.data = FirstOf(MaxEmitData, Bytes("pdu", a.len))

(* Which packets must not get lost on the way.                             *)
Good(a) == a.phy \in {"ieee", "prop"} /\ a.crc /\ a.len > 0

EntryInv ==
    /\ air = NoPacket => entry = <<>> /\ booked = "no"
    /\ air # NoPacket => air \in Airs /\ entry = Entry(air)
    /\ pkt # NoPacket => air # NoPacket /\ ReadRight(pkt, air, stray)
    /\ booked = "no" => pkt = NoPacket /\ seen = NoPacket
    /\ booked = "rx_ok" => pkt # NoPacket /\ seen = NoPacket
    /\ seen # NoPacket => pkt # NoPacket /\ ToldRight(seen, pkt, air, stray)
    /\ booked # "dropped_packets"
    /\ Finished /\ Good(air) => seen # NoPacket

(* A packet still to be parsed is from the channel now set, or was stored  *)
(* astray.                                                                 *)
TuneInv ==
    /\ channel \in Channels /\ tuned \in Channels
    /\ air # NoPacket /\ booked = "no" /\ air.phy # "ble" =>
          stray \/ air.ch = ChannelIn(air.phy, channel)

(* The fields of a report are bytes of an entry.                           *)
LEMMA FieldsAreItems ==
    B("rssi", 1, 0) \in Item /\ B("time", 1, 0) \in Item
<1>1. "rssi" \in Kinds /\ "time" \in Kinds /\ 0 \in Nat /\ 1 \in Nat
  BY SMT DEF Kinds
<1> QED BY <1>1, ItemIs, Zenon

(* What a parser leaves behind: the packet read right, or the packet       *)
(* dropped for a reason.                                                   *)
Parsed ==
    \/ booked' = "rx_ok" /\ ReadRight(pkt', air, stray)
    \/ booked' = "rx_drop" /\ pkt' = pkt /\ ~ Good(air)
    \/ booked' = "rx_crc_err" /\ pkt' = pkt /\ ~ air.crc

(* A record of right fields is kept or dropped for its CRC.                *)
LEMMA KeepParsed ==
    ASSUME air \in Airs, NEW p, ReadRight(p, air, stray), Keep(p)
    PROVE  Parsed
BY Zenon DEF Keep, Drop, Parsed

(* The record a parser makes of the right bytes.                           *)
LEMMA ReadRecord ==
    ASSUME NEW a \in Airs, NEW st, NEW d \in Seq(Item), NEW ch, Own(ch, a, st),
           a.phy = "ble" => Consistent(d),
           a.phy = "ieee" => d = Bytes("pdu", a.len),
           a.phy = "prop" => d = FirstOf(MaxPacketData, Bytes("pdu", a.len))
    PROVE  ReadRight([data |-> d, rssi |-> B("rssi", 1, 0), time |-> B("time", 1, 0),
                      ch |-> ch], a, st)
<1> DEFINE p == [data |-> d, rssi |-> B("rssi", 1, 0), time |-> B("time", 1, 0), ch |-> ch]
<1>1. ch \in Nat
  BY Zenon DEF Own
<1>2. p \in [data : Seq(Item), rssi : Item, time : Item, ch : Nat]
  BY <1>1, FieldsAreItems, Zenon
<1>3. p.data = d /\ p.rssi = B("rssi", 1, 0) /\ p.time = B("time", 1, 0) /\ p.ch = ch
  BY Zenon
<1> HIDE DEF p
<1>4. ReadRight(p, a, st)
  BY <1>2, <1>3, Zenon DEF ReadRight, Fields
<1> QED BY <1>4, Zenon DEF p

(* The first of some layouts is one of them.                               *)
LEMMA MinIsIn == ASSUME NEW S \in SUBSET (1 .. 4), S # {} PROVE Min(S) \in S
<1>1. \A x \in S : x = 1 \/ x = 2 \/ x = 3 \/ x = 4
  BY SMT
<1>2. \E x \in S : \A y \in S : x <= y
  <2>1. CASE 1 \in S
    <3>1. \A y \in S : 1 <= y
      BY <1>1, SMT
    <3> QED BY <2>1, <3>1, Zenon
  <2>2. CASE 1 \notin S /\ 2 \in S
    <3>1. \A y \in S : 2 <= y
      BY <1>1, <2>2, SMT
    <3> QED BY <2>2, <3>1, Zenon
  <2>3. CASE 1 \notin S /\ 2 \notin S /\ 3 \in S
    <3>1. \A y \in S : 3 <= y
      BY <1>1, <2>3, SMT
    <3> QED BY <2>3, <3>1, Zenon
  <2>4. CASE 1 \notin S /\ 2 \notin S /\ 3 \notin S
    <3>1. \A y \in S : y = 4
      BY <1>1, <2>4, Zenon
    <3>2. 4 \in S
      BY <3>1, Zenon
    <3>3. \A y \in S : 4 <= y
      BY <3>1, SMT
    <3> QED BY <3>2, <3>3, Zenon
  <2> QED BY <2>1, <2>2, <2>3, <2>4, Zenon
<1> QED BY <1>2, Zenon DEF Min

(* The BLE parser: a layout that fits, whichever it is, takes a PDU whose  *)
(* second byte is its length, and the fields at the entry's end.           *)
LEMMA BleParsed ==
    ASSUME air \in Airs, air.phy = "ble", entry = Entry(air), ParseBle
    PROVE  Parsed
<1> DEFINE n == air.len + 13
<1>1. Long(entry, n) /\ n \in Nat /\ air.len \in Nat
  BY BleEntry, AirsAre, Zenon DEF BleEntryIs, Long
<1>2. /\ entry[air.len + 7] = B("rssi", 1, 0)
      /\ entry[air.len + 8] = B("status", 1, air.ch)
      /\ entry[air.len + 10] = B("time", 1, 0)
  BY BleEntry, Zenon DEF BleEntryIs
<1>3. Len(entry) = n
  BY <1>1, Zenon DEF Long
<1>4. CASE Len(entry) < 9 \/ Fits = {}
  BY <1>4, Zenon DEF ParseBle, Drop, Parsed, Good
<1>5. CASE ~ (Len(entry) < 9 \/ Fits = {})
  <2> DEFINE k == Min(Fits)   t == Trials[k]   last == Len(entry) - 4
             d == Data(t[1], PduLen(t))
  <2>1. k \in 1 .. 4 /\ Matches(t)
    <3>1. DOMAIN Trials = 1 .. 4
      BY SMT DEF Trials
    <3>2. Fits \in SUBSET (1 .. 4) /\ Fits # {}
      BY <1>5, <3>1, Zenon DEF Fits
    <3>3. k \in Fits
      BY <3>2, MinIsIn, Zenon
    <3> QED BY <3>1, <3>3, Zenon DEF Fits
  <2>2. t[1] \in {0, 1} /\ t[2] \in {7, 10}
    BY <2>1, SMT DEF Trials
  <2>3. Keep([data |-> d, rssi |-> ByteAt(last - 3), time |-> ByteAt(last),
              ch |-> Mask6(ByteAt(last - 2).value)])
    BY <1>5, Zenon DEF ParseBle
  <2>4. Consistent(d)
    <3> DEFINE o == t[1]   q == Mask6(entry[o + 2].value)
    <3>1. o \in Nat /\ t[2] \in Nat /\ o + 1 + 1 = o + 2
      BY <2>2, SMT
    <3>2. PduLen(t) = 2 + q
      BY <3>1, Zenon DEF PduLen, ByteAt
    <3>3. o + (2 + q) + t[2] = n /\ o + 1 < n
      BY <2>1, <3>2, <1>3, Zenon DEF Matches
    <3>4. d = SubSeq(entry, o + 1, o + (2 + q))
      BY <3>2, Zenon DEF Data
    <3> HIDE DEF d
    <3>5. o + 2 <= n
      <4> HIDE DEF o, n
      <4> QED BY <1>1, <3>1, <3>3, SMT
    <3>6. Consistent(SubSeq(entry, o + 1, o + (2 + q)))
      <4> HIDE DEF n, t
      <4> QED BY <1>1, <3>1, <3>3, <3>5, BlePdu
    <3> QED BY <3>4, <3>6, Zenon
  <2>5. /\ ByteAt(last - 3) = B("rssi", 1, 0) /\ ByteAt(last) = B("time", 1, 0)
        /\ ByteAt(last - 2) = B("status", 1, air.ch)
    <3>1. last - 3 + 1 = air.len + 7 /\ last + 1 = air.len + 10 /\ last - 2 + 1 = air.len + 8
      BY <1>1, <1>3, SMT
    <3> HIDE DEF last
    <3> QED BY <3>1, <1>2, Zenon DEF ByteAt
  <2>6. Mask6(ByteAt(last - 2).value) = air.ch
    <3>0. air.ch \in 0 .. 39
      BY AirsAre, Zenon
    <3>1. air.ch \in Nat /\ air.ch < 64
      BY <3>0, SMT
    <3>2. ByteAt(last - 2).value = air.ch
      <4>1. "status" \in Kinds /\ 1 \in Nat
        BY SMT DEF Kinds
      <4>2. B("status", 1, air.ch).value = air.ch
        BY <3>1, <4>1, ItemIs, Zenon
      <4> QED BY <2>5, <4>2, Zenon
    <3> QED BY <3>1, <3>2, MaskIs, Zenon
  <2>7. d \in Seq(Item) /\ air.phy # "ieee" /\ air.phy # "prop"
    BY <2>4, Zenon DEF Consistent
  <2>10. Own(air.ch, air, stray)
    <3>1. air.ch \in 0 .. 39
      BY AirsAre, Zenon
    <3>2. air.ch \in Nat /\ air.ch = air.ch % 256
      BY <3>1, SMT
    <3> QED BY <3>2, Zenon DEF Own
  <2> HIDE DEF d, last
  <2>8. ReadRight([data |-> d, rssi |-> B("rssi", 1, 0), time |-> B("time", 1, 0),
                   ch |-> air.ch], air, stray)
    BY <2>4, <2>7, <2>10, ReadRecord, Zenon
  <2>9. Keep([data |-> d, rssi |-> B("rssi", 1, 0), time |-> B("time", 1, 0), ch |-> air.ch])
    BY <2>3, <2>5, <2>6, Zenon
  <2> QED BY <2>8, <2>9, KeepParsed, Zenon
<1> QED BY <1>4, <1>5, Zenon

(* The IEEE 802.15.4 parser finds PHY header, frame and fields.            *)
LEMMA IeeeParsed ==
    ASSUME air \in Airs, air.phy = "ieee", entry = Entry(air), ParseIeee,
           Own(OwnChannel, air, stray)
    PROVE  Parsed
<1> DEFINE n == air.len + 7   len == air.len   d == Data(1, len)   rest == Bytes("pdu", len)
           keep(m) == Keep([data |-> Data(1, m), rssi |-> ByteAt(1 + m),
                            time |-> ByteAt(1 + m + 2), ch |-> OwnChannel])
<1>1. IeeeEntryIs(entry, air) /\ len \in Nat
  BY IeeeEntry, AirsAre, Zenon
<1>2. Long(entry, n) /\ Len(entry) = n /\ ByteAt(0).value = len
  <2>1. 0 + 1 = 1
    BY SMT
  <2> QED BY <1>1, <2>1, Zenon DEF IeeeEntryIs, Long, ByteAt
<1>3. ~ (Len(entry) <= 6 \/ 1 + ByteAt(0).value > Len(entry) - 6)
  BY <1>1, <1>2, SMT
<1>4. keep(ByteAt(0).value)
  BY <1>3, Zenon DEF ParseIeee
<1>5. keep(len)
  BY <1>2, <1>4, Zenon
<1>6. ByteAt(1 + len) = B("rssi", 1, 0) /\ ByteAt(1 + len + 2) = B("time", 1, 0)
  <2>1. 1 + len + 1 = air.len + 2 /\ 1 + len + 2 + 1 = air.len + 4
    BY <1>1, SMT
  <2> QED BY <1>1, <2>1, Zenon DEF IeeeEntryIs, ByteAt
<1>7. d = rest
  <2>1. Long(rest, len) /\ \A i \in 1 .. len : rest[i] = B("pdu", i, 0)
    <3>1. "pdu" \in Kinds
      BY DEF Kinds
    <3> QED BY <1>1, <3>1, BytesAre, Zenon
  <2> DEFINE s == SubSeq(entry, 1 + 1, 1 + len)
  <2>2. Long(s, len) /\ \A i \in 1 .. len : s[i] = entry[1 + i]
    <3>1. 1 \in Nat /\ 1 + len <= n
      BY <1>1, SMT
    <3> HIDE DEF n
    <3> QED BY <1>1, <1>2, <3>1, SliceOf, Zenon
  <2>3. \A i \in 1 .. len : s[i] = rest[i]
    <3> SUFFICES ASSUME NEW i \in 1 .. len PROVE s[i] = rest[i]
      OBVIOUS
    <3>1. 1 + i = i + 1
      BY SMT
    <3>2. entry[i + 1] = B("pdu", i, 0)
      BY <1>1, Zenon DEF IeeeEntryIs
    <3> HIDE DEF s, rest
    <3> QED BY <2>1, <2>2, <3>1, <3>2, Zenon
  <2>4. d = s
    BY Zenon DEF Data
  <2> HIDE DEF s, rest, d
  <2>5. s = rest
    BY <2>1, <2>2, <2>3, SameItems, Zenon
  <2> QED BY <2>4, <2>5
<1>8. d \in Seq(Item)
  <2>1. "pdu" \in Kinds
    BY DEF Kinds
  <2>2. Long(rest, len)
    BY <1>1, <2>1, BytesAre, Zenon
  <2> QED BY <1>7, <2>2, Zenon DEF Long
<1> HIDE DEF d, rest
<1>9. ReadRight([data |-> d, rssi |-> B("rssi", 1, 0), time |-> B("time", 1, 0),
                 ch |-> OwnChannel], air, stray)
  <2>1. air.phy # "ble" /\ air.phy # "prop"
    BY SMT
  <2> QED BY <1>7, <1>8, <2>1, ReadRecord, Zenon DEF rest
<1>10. Keep([data |-> d, rssi |-> B("rssi", 1, 0), time |-> B("time", 1, 0), ch |-> OwnChannel])
  BY <1>5, <1>6, Zenon DEF d
<1> QED BY <1>9, <1>10, KeepParsed, Zenon

(* The proprietary parser takes all but the last six bytes, up to its      *)
(* limit.                                                                  *)
LEMMA PropParsed ==
    ASSUME air \in Airs, air.phy = "prop", entry = Entry(air), ParseProp,
           Own(OwnChannel, air, stray)
    PROVE  Parsed
<1> DEFINE len == air.len   rest == Bytes("pdu", len)
           cut == IF len > MaxPacketData THEN MaxPacketData ELSE len
           d == Data(0, cut)   n == Len(entry) - 6
<1>1. PropEntryIs(entry, air) /\ len \in Nat
  BY PropEntry, AirsAre, Zenon
<1>2. Long(entry, len + 6) /\ Len(entry) = len + 6
  BY <1>1, Zenon DEF PropEntryIs, Long
<1>3. CASE Len(entry) <= 6
  <2>1. ~ (air.len > 0)
    BY <1>1, <1>2, <1>3, SMT
  <2> QED BY <1>3, <2>1, Zenon DEF ParseProp, Drop, Parsed, Good
<1>4. CASE ~ (Len(entry) <= 6)
  <2>1. Keep([data |-> Data(0, IF n > MaxPacketData THEN MaxPacketData ELSE n),
              rssi |-> ByteAt(n + 1), time |-> ByteAt(n + 2), ch |-> OwnChannel])
    BY <1>4, Zenon DEF ParseProp
  <2>2. n = len /\ n + 1 + 1 = air.len + 2 /\ n + 2 + 1 = air.len + 3
    BY <1>1, <1>2, SMT
  <2> HIDE DEF n
  <2>3. ByteAt(n + 1) = B("rssi", 1, 0) /\ ByteAt(n + 2) = B("time", 1, 0)
    BY <1>1, <2>2, Zenon DEF PropEntryIs, ByteAt
  <2>4. Keep([data |-> d, rssi |-> B("rssi", 1, 0), time |-> B("time", 1, 0), ch |-> OwnChannel])
    BY <2>1, <2>2, <2>3, Zenon
  <2>5. Long(rest, len) /\ \A i \in 1 .. len : rest[i] = B("pdu", i, 0)
    <3>1. "pdu" \in Kinds
      BY DEF Kinds
    <3> QED BY <1>1, <3>1, BytesAre, Zenon
  <2>6. cut \in Nat /\ cut <= len /\ MaxPacketData \in Nat
    BY <1>1, SMT DEF MaxPacketData
  <2> DEFINE u == SubSeq(entry, 0 + 1, 0 + cut)   v == SubSeq(rest, 0 + 1, 0 + cut)
  <2>7. Long(u, cut) /\ \A i \in 1 .. cut : u[i] = entry[0 + i]
    <3>1. 0 \in Nat /\ 0 + cut <= len + 6
      BY <1>1, <2>6, SMT
    <3> HIDE DEF cut
    <3> QED BY <1>2, <2>6, <3>1, SliceOf, Zenon
  <2>8. Long(v, cut) /\ \A i \in 1 .. cut : v[i] = rest[0 + i]
    <3>1. 0 \in Nat /\ 0 + cut <= len
      BY <1>1, <2>6, SMT
    <3> HIDE DEF cut, rest
    <3> QED BY <2>5, <2>6, <3>1, SliceOf, Zenon
  <2>9. \A i \in 1 .. cut : u[i] = v[i]
    <3> SUFFICES ASSUME NEW i \in 1 .. cut PROVE u[i] = v[i]
      OBVIOUS
    <3>1. 0 + i = i /\ i \in 1 .. len
      <4> HIDE DEF cut
      <4> QED BY <1>1, <2>6, SMT
    <3>2. entry[i] = B("pdu", i, 0)
      BY <1>1, <3>1, Zenon DEF PropEntryIs
    <3> HIDE DEF u, v, cut, rest
    <3> QED BY <2>5, <2>7, <2>8, <3>1, <3>2, Zenon
  <2>10. u = v
    <3> HIDE DEF u, v, cut
    <3> QED BY <2>7, <2>8, <2>9, SameItems, Zenon
  <2>11. d = u
    BY Zenon DEF Data
  <2>12. v = FirstOf(MaxPacketData, rest)
    <3>1. Len(rest) = len
      BY <2>5, Zenon DEF Long
    <3>2. (IF Len(rest) < MaxPacketData THEN Len(rest) ELSE MaxPacketData) = cut
      <4> HIDE DEF rest
      <4> QED BY <1>1, <2>6, <3>1, SMT
    <3>3. 0 + 1 = 1 /\ 0 + cut = cut
      <4> HIDE DEF cut
      <4> QED BY <2>6, SMT
    <3> HIDE DEF rest, cut
    <3> QED BY <3>2, <3>3, Zenon DEF FirstOf
  <2>13. d \in Seq(Item)
    <3> HIDE DEF d, u, v, cut
    <3> QED BY <2>7, <2>11, Zenon DEF Long
  <2>14. ReadRight([data |-> d, rssi |-> B("rssi", 1, 0), time |-> B("time", 1, 0),
                    ch |-> OwnChannel], air, stray)
    <3>1. air.phy # "ble" /\ air.phy # "ieee"
      BY SMT
    <3>2. d = FirstOf(MaxPacketData, Bytes("pdu", air.len))
      BY <2>10, <2>11, <2>12, Zenon
    <3> HIDE DEF d, cut
    <3> QED BY <2>13, <3>1, <3>2, ReadRecord, Zenon
  <2> QED BY <2>4, <2>14, KeepParsed, Zenon
<1> QED BY <1>3, <1>4, Zenon

(* Parsing keeps the invariant.                                            *)
LEMMA ParseStep ==
    ASSUME EntryInv, TuneInv, Parse
    PROVE  EntryInv'
<1>1. air \in Airs /\ entry = Entry(air) /\ pkt = NoPacket /\ seen = NoPacket /\ air # NoPacket
  BY Zenon DEF EntryInv, Parse
<1>7. air.phy # "ble" => Own(OwnChannel, air, stray)
  <2> SUFFICES ASSUME air.phy # "ble" PROVE Own(OwnChannel, air, stray)
    OBVIOUS
  <2>1. channel \in Nat /\ (stray \/ air.ch = ChannelIn(air.phy, channel))
    <3>1. channel \in Channels /\ (stray \/ air.ch = ChannelIn(air.phy, channel))
      BY <1>1, Zenon DEF TuneInv, Parse
    <3>2. channel \in Nat
      BY <3>1, RxEntryAssumption, SMT
    <3> QED BY <3>1, <3>2
  <2>2. ChannelIn(air.phy, channel) \in Nat
    BY <2>1, SMT DEF ChannelIn, IeeeChannel
  <2>3. OwnChannel \in Nat
    BY <2>2, SMT DEF OwnChannel
  <2> QED BY <2>1, <2>3, Zenon DEF Own, OwnChannel
<1>2. /\ air' = air /\ entry' = entry /\ seen' = seen /\ stray' = stray
      /\ CASE air.phy = "ble" -> ParseBle [] air.phy = "ieee" -> ParseIeee
           [] air.phy = "prop" -> ParseProp
  BY Zenon DEF Parse
<1>3. Parsed
  <2>1. CASE air.phy = "ble"
    <3>1. ParseBle
      BY <1>2, <2>1, Zenon
    <3> QED BY <1>1, <2>1, <3>1, BleParsed, Zenon
  <2>2. CASE air.phy = "ieee"
    <3>1. air.phy # "ble" /\ air.phy # "prop"
      BY <2>2, SMT
    <3>2. ParseIeee
      BY <1>2, <2>2, <3>1, Zenon
    <3> QED BY <1>1, <1>7, <2>2, <3>1, <3>2, IeeeParsed, Zenon
  <2>3. CASE air.phy = "prop"
    <3>1. air.phy # "ble" /\ air.phy # "ieee"
      BY <2>3, SMT
    <3>2. ParseProp
      BY <1>2, <2>3, <3>1, Zenon
    <3> QED BY <1>1, <1>7, <2>3, <3>1, <3>2, PropParsed, Zenon
  <2>4. air.phy \in {"ble", "ieee", "prop"}
    BY <1>1, AirsAre, Zenon
  <2> QED BY <2>1, <2>2, <2>3, <2>4, Zenon
<1>4. CASE booked' = "rx_ok" /\ ReadRight(pkt', air, stray)
  <2>1. pkt' # NoPacket
    BY <1>4, RxEntryAssumption, Zenon DEF ReadRight
  <2>2. booked' # "no" /\ booked' # "dropped_packets" /\ ~ Finished'
    BY <1>4, SMT DEF Finished
  <2> QED BY <1>1, <1>2, <1>4, <2>1, <2>2, Zenon DEF EntryInv
<1>5. CASE booked' = "rx_drop" /\ pkt' = pkt /\ ~ Good(air)
  <2>1. booked' # "no" /\ booked' # "dropped_packets" /\ booked' # "rx_ok"
    BY <1>5, SMT
  <2> QED BY <1>1, <1>2, <1>5, <2>1, Zenon DEF EntryInv
<1>6. CASE booked' = "rx_crc_err" /\ pkt' = pkt /\ ~ air.crc
  <2>1. booked' # "no" /\ booked' # "dropped_packets" /\ booked' # "rx_ok"
    BY <1>6, SMT
  <2>2. ~ Good(air)
    BY <1>6, Zenon DEF Good
  <2> QED BY <1>1, <1>2, <1>6, <2>1, <2>2, Zenon DEF EntryInv
<1> QED BY <1>3, <1>4, <1>5, <1>6, Zenon DEF Parsed

(* A consistent PDU passes the manager and the report unchanged; a longer  *)
(* packet of another mode is cut to what a frame can carry.                *)
LEMMA ManagerKeeps ==
    ASSUME air.phy = "ble", NEW p, Consistent(p.data)
    PROVE  ~ LLRefuses(p) /\ Emitted(LLCut(p)) = p.data
<1> DEFINE d == p.data
<1>1. d \in Seq(Item) /\ Len(d) >= 2 /\ Len(d) = 2 + Mask6(d[2].value) /\ Len(d) <= 65
  BY Zenon DEF Consistent
<1>2. Len(d) \in Nat
  BY <1>1, LenProperties
<1>3. ~ LLRefuses(p)
  <2> HIDE DEF d
  <2>1. ~ (Len(d) < 2 \/ 2 + Mask6(d[2].value) > Len(d))
    BY <1>1, <1>2, SMT
  <2> QED BY <2>1, Zenon DEF LLRefuses, d
<1>4. SubSeq(d, 1, Len(d)) = d
  <2> HIDE DEF d
  <2> QED BY <1>1, SubSeqFull
<1>5. LLCut(p) = d
  BY <1>1, <1>4, Zenon DEF LLCut
<1>6. Emitted(d) = d
  <2> HIDE DEF d
  <2>1. ~ (Len(d) > MaxEmitData)
    BY <1>1, <1>2, SMT DEF MaxEmitData, MaxPayload
  <2> QED BY <2>1, Zenon DEF Emitted
<1> QED BY <1>3, <1>5, <1>6, Zenon

(* Cutting what was cut before.                                            *)
LEMMA CutTwice ==
    ASSUME NEW s, NEW n, Long(s, n)
    PROVE  /\ Emitted(s) = FirstOf(MaxEmitData, s)
           /\ Emitted(FirstOf(MaxPacketData, s)) = FirstOf(MaxEmitData, s)
<1> DEFINE e == MaxEmitData   c == MaxPacketData
           m == IF n < c THEN n ELSE c
           w == IF n < e THEN n ELSE e
           u == SubSeq(s, 1, m)
<1>1. e = 239 /\ c = 242
  BY SMT DEF MaxEmitData, MaxPayload, MaxPacketData
<1>2. n \in Nat /\ s \in Seq(Item) /\ Len(s) = n
  BY Zenon DEF Long
<1>3. SubSeq(s, 1, n) = s
  BY <1>2, SubSeqFull
<1>4. FirstOf(c, s) = u /\ FirstOf(e, s) = SubSeq(s, 1, w)
  BY <1>2, Zenon DEF FirstOf
<1>5. Emitted(s) = SubSeq(s, 1, w)
  <2>1. CASE n > e
    <3>1. w = e
      <4> HIDE DEF e
      <4> QED BY <1>1, <1>2, <2>1, SMT
    <3> QED BY <1>2, <2>1, <3>1, Zenon DEF Emitted
  <2>2. CASE ~ (n > e)
    <3>1. w = n
      <4> HIDE DEF e
      <4> QED BY <1>1, <1>2, <2>2, SMT
    <3> QED BY <1>2, <1>3, <2>2, <3>1, Zenon DEF Emitted
  <2> QED BY <2>1, <2>2
<1>6. m \in Nat /\ m <= n
  <2> HIDE DEF c
  <2> QED BY <1>1, <1>2, SMT
<1>7. Long(u, m) /\ \A i \in 1 .. m : u[i] = s[0 + i]
  <2>1. 0 + 1 = 1 /\ 0 + m = m /\ 0 \in Nat
    <3> HIDE DEF m
    <3> QED BY <1>6, SMT
  <2> DEFINE v == SubSeq(s, 0 + 1, 0 + m)
  <2>2. Long(v, m) /\ \A i \in 1 .. m : v[i] = s[0 + i]
    <3> HIDE DEF m
    <3> QED BY <1>6, <2>1, SliceOf, Zenon
  <2>3. v = u
    <3> HIDE DEF m
    <3> QED BY <2>1, Zenon
  <2> HIDE DEF u, v, m
  <2> QED BY <2>2, <2>3, Zenon
<1>8. Emitted(u) = SubSeq(s, 1, w)
  <2> HIDE DEF u, m
  <2>1. Len(u) = m /\ u \in Seq(Item)
    BY <1>7, Zenon DEF Long
  <2>2. CASE m > e
    <3>1. n > e /\ e \in Nat /\ e <= m /\ e <= n
      <4> HIDE DEF e
      <4> QED BY <1>1, <1>2, <1>6, <2>2, SMT
    <3>2. w = e
      <4> HIDE DEF e
      <4> QED BY <1>1, <1>2, <3>1, SMT
    <3>3. Emitted(u) = SubSeq(u, 1, e)
      BY <2>1, <2>2, Zenon DEF Emitted
    <3>4. SubSeq(u, 1, e) = SubSeq(s, 1, e)
      <4> DEFINE a == SubSeq(u, 0 + 1, 0 + e)   b == SubSeq(s, 0 + 1, 0 + e)
      <4>1. 0 + 1 = 1 /\ 0 + e = e /\ 0 \in Nat
        <5> HIDE DEF e
        <5> QED BY <3>1, SMT
      <4>2. Long(a, e) /\ \A i \in 1 .. e : a[i] = u[0 + i]
        <5> HIDE DEF e
        <5> QED BY <1>7, <3>1, <4>1, SliceOf, Zenon
      <4>3. Long(b, e) /\ \A i \in 1 .. e : b[i] = s[0 + i]
        <5> HIDE DEF e
        <5> QED BY <3>1, <4>1, SliceOf, Zenon
      <4>4. \A i \in 1 .. e : a[i] = b[i]
        <5> HIDE DEF a, b
        <5> SUFFICES ASSUME NEW i \in 1 .. e PROVE a[i] = b[i]
          OBVIOUS
        <5>1. 0 + i = i /\ i \in 1 .. m
          <6> HIDE DEF e
          <6> QED BY <1>6, <3>1, SMT
        <5> QED BY <1>7, <4>2, <4>3, <5>1, Zenon
      <4>5. a = b
        <5> HIDE DEF a, b, e
        <5> QED BY <4>2, <4>3, <4>4, SameItems, Zenon
      <4> HIDE DEF e
      <4> QED BY <4>1, <4>5, Zenon
    <3> QED BY <3>2, <3>3, <3>4, Zenon
  <2>3. CASE ~ (m > e)
    <3>1. n < c /\ m = n /\ w = n
      <4> HIDE DEF e, c
      <4> QED BY <1>1, <1>2, <2>3, SMT DEF m
    <3>2. Emitted(u) = u
      BY <2>1, <2>3, Zenon DEF Emitted
    <3> HIDE DEF w
    <3> QED BY <1>3, <3>1, <3>2, Zenon DEF u
  <2> QED BY <2>2, <2>3
<1> HIDE DEF w
<1> QED BY <1>4, <1>5, <1>8, Zenon

(* So does the report to the host, ...                                     *)
LEMMA ReportStep ==
    ASSUME EntryInv, Report
    PROVE  EntryInv'
<1> DEFINE p == [pkt EXCEPT !.data = Emitted(LLCut(pkt))]   h == HostPacket(p)
<1>1. /\ pkt # NoPacket /\ seen = NoPacket /\ booked = "rx_ok" /\ air # NoPacket
      /\ air \in Airs /\ entry = Entry(air) /\ ReadRight(pkt, air, stray)
  BY Zenon DEF EntryInv, Report
<1>2. /\ air' = air /\ entry' = entry /\ pkt' = pkt /\ stray' = stray
      /\ IF LLRefuses(pkt) THEN booked' = "dropped_packets" /\ UNCHANGED seen
         ELSE booked' = Kind(pkt) /\ seen' = h
  BY Zenon DEF Report
<1>3. air.phy \in {"ble", "ieee", "prop"} /\ air.len \in Nat
  BY <1>1, AirsAre, Zenon
<1>4. /\ ~ LLRefuses(pkt)
      /\ air.phy = "ble" => Emitted(LLCut(pkt)) = pkt.data
      /\ air.phy \in {"ieee", "prop"} =>
            Emitted(LLCut(pkt)) = FirstOf(MaxEmitData, Bytes("pdu", air.len))
  <2>1. CASE air.phy = "ble"
    <3>1. Consistent(pkt.data)
      BY <1>1, <2>1, Zenon DEF ReadRight
    <3>2. air.phy \notin {"ieee", "prop"}
      BY <2>1, SMT
    <3> QED BY <2>1, <3>1, <3>2, ManagerKeeps, Zenon
  <2>2. CASE air.phy # "ble"
    <3>1. ~ LLRefuses(pkt) /\ LLCut(pkt) = pkt.data
      BY <2>2, Zenon DEF LLRefuses, LLCut
    <3> DEFINE s == Bytes("pdu", air.len)
    <3>2. Long(s, air.len)
      <4>1. "pdu" \in Kinds
        BY DEF Kinds
      <4> QED BY <1>3, <4>1, BytesAre, Zenon
    <3>3. pkt.data = s \/ pkt.data = FirstOf(MaxPacketData, s)
      BY <1>1, <1>3, <2>2, Zenon DEF ReadRight
    <3> HIDE DEF s
    <3>4. Emitted(pkt.data) = FirstOf(MaxEmitData, s)
      BY <3>2, <3>3, CutTwice, Zenon
    <3> QED BY <2>2, <3>1, <3>4, Zenon DEF s
  <2> QED BY <2>1, <2>2
<1>5. booked' = Kind(pkt) /\ seen' = h
  BY <1>2, <1>4, Zenon
<1>6. h.data = Emitted(LLCut(pkt)) /\ h.rssi = pkt.rssi /\ h.time = pkt.time /\ h.ch = pkt.ch
  <2>1. /\ p.data = Emitted(LLCut(pkt)) /\ p.rssi = pkt.rssi /\ p.time = pkt.time
        /\ p.ch = pkt.ch
    <3>1. pkt \in [data : Seq(Item), rssi : Item, time : Item, ch : Nat]
      BY <1>1, Zenon DEF ReadRight
    <3> DEFINE x == Emitted(LLCut(pkt))
    <3> HIDE DEF x
    <3>2. /\ [pkt EXCEPT !.data = x].data = x /\ [pkt EXCEPT !.data = x].rssi = pkt.rssi
          /\ [pkt EXCEPT !.data = x].time = pkt.time /\ [pkt EXCEPT !.data = x].ch = pkt.ch
      BY <3>1, SMT
    <3> QED BY <3>2, Zenon DEF x
  <2> HIDE DEF p
  <2>2. h.data = p.data /\ h.rssi = p.rssi /\ h.time = p.time /\ h.ch = p.ch
    BY Zenon DEF HostPacket
  <2> QED BY <2>1, <2>2, Zenon
<1>7. h # NoPacket
  <2>1. Emitted(LLCut(pkt)) \in Seq(Item)
    <3>1. CASE air.phy = "ble"
      BY <1>1, <1>4, <3>1, Zenon DEF ReadRight, Consistent
    <3>2. CASE air.phy # "ble"
      <4> DEFINE s == Bytes("pdu", air.len)
                 w == IF Len(s) < MaxEmitData THEN Len(s) ELSE MaxEmitData
      <4>1. Long(s, air.len)
        <5>1. "pdu" \in Kinds
          BY DEF Kinds
        <5> QED BY <1>3, <5>1, BytesAre, Zenon
      <4>2. Emitted(LLCut(pkt)) = SubSeq(s, 1, w)
        BY <1>3, <1>4, <3>2, Zenon DEF FirstOf
      <4>3. Len(s) = air.len /\ s \in Seq(Item)
        BY <4>1, Zenon DEF Long
      <4> HIDE DEF s
      <4>4. w \in Nat /\ w <= Len(s)
        <5>1. MaxEmitData \in Nat
          BY SMT DEF MaxEmitData, MaxPayload
        <5> QED BY <1>3, <4>3, <5>1, SMT
      <4> HIDE DEF w
      <4>5. 0 + 1 = 1 /\ 0 + w = w /\ 0 \in Nat
        BY <4>4, SMT
      <4>6. Long(SubSeq(s, 0 + 1, 0 + w), w)
        BY <1>3, <4>1, <4>3, <4>4, <4>5, SliceOf, Zenon
      <4> QED BY <4>2, <4>5, <4>6, Zenon DEF Long
    <3> QED BY <3>1, <3>2
  <2>2. pkt.rssi \in Item /\ pkt.time \in Item /\ pkt.ch \in Nat
    BY <1>1, FieldsAreItems, Zenon DEF ReadRight, Fields, Own
  <2>3. h = [data |-> p.data, rssi |-> p.rssi, time |-> p.time, ch |-> p.ch]
    BY Zenon DEF HostPacket
  <2>4. /\ p.data = h.data /\ p.rssi = h.rssi /\ p.time = h.time /\ p.ch = h.ch
    <3> HIDE DEF p
    <3> QED BY Zenon DEF HostPacket
  <2> HIDE DEF h, p
  <2>5. h \in [data : Seq(Item), rssi : Item, time : Item, ch : Nat]
    BY <1>6, <2>1, <2>2, <2>3, <2>4, Zenon
  <2> QED BY <2>5, RxEntryAssumption, Zenon
<1> HIDE DEF h
<1>8. ToldRight(h, pkt, air, stray)
  <2>1. Fields(h, air, stray)
    BY <1>1, <1>6, Zenon DEF ReadRight, Fields
  <2> QED BY <1>4, <1>6, <2>1, Zenon DEF ToldRight
<1>9. booked' \notin {"no", "rx_ok", "dropped_packets"}
  BY <1>5, SMT DEF Kind, AdvKind
<1>10. booked' # "no" /\ booked' # "rx_ok" /\ booked' # "dropped_packets"
  BY <1>9, Zenon
<1> QED BY <1>1, <1>2, <1>5, <1>7, <1>8, <1>10, Zenon DEF EntryInv

(* ... so does the next packet, ...                                        *)
LEMMA ReceiveStep ==
    ASSUME EntryInv, NEW a \in Airs, Receive(a)
    PROVE  EntryInv'
<1>1. /\ air = NoPacket /\ air' = a /\ entry' = Entry(a)
      /\ pkt' = pkt /\ booked' = booked /\ seen' = seen
  BY Zenon DEF Receive
<1>2. booked = "no" /\ pkt = NoPacket /\ seen = NoPacket
  BY <1>1, Zenon DEF EntryInv
<1>3. a # NoPacket
  BY RxEntryAssumption, Zenon
<1>4. ~ Finished'
  BY <1>1, <1>2, Zenon DEF Finished
<1>5. "no" # "rx_ok" /\ "no" # "dropped_packets"
  OBVIOUS
<1> QED BY <1>1, <1>2, <1>3, <1>4, <1>5, Zenon DEF EntryInv

(* ... and so does a retune or a change of channel, ...                    *)
LEMMA ChannelStep ==
    ASSUME EntryInv,
           (\E c \in Channels : SetChannel(c) \/ SetPhy(c)) \/ Flush
    PROVE  EntryInv'
<1>1. pkt' = pkt /\ booked' = booked /\ seen' = seen /\ stray' = stray
  BY Zenon DEF SetChannel, SetPhy, Flush
<1>2. CASE air' = air /\ entry' = entry
  BY <1>1, <1>2, Zenon DEF EntryInv, Finished
<1>3. CASE booked = "no" /\ air' = NoPacket /\ entry' = <<>>
  <2>1. pkt = NoPacket /\ seen = NoPacket
    BY <1>3, Zenon DEF EntryInv
  <2>2. "no" # "rx_ok" /\ "no" # "dropped_packets"
    OBVIOUS
  <2>3. ~ Finished'
    BY <1>1, <1>3, Zenon DEF Finished
  <2> QED BY <1>1, <1>3, <2>1, <2>2, <2>3, Zenon DEF EntryInv
<1>4. (air' = air /\ entry' = entry) \/ (booked = "no" /\ air' = NoPacket /\ entry' = <<>>)
  BY Zenon DEF SetChannel, SetPhy, Flush, Wipe
<1> QED BY <1>2, <1>3, <1>4, Zenon

(* A packet that waits for the parser is never from a channel left behind, *)
(* because a retune empties the ring when it sets the channel.             *)
LEMMA TuneStep ==
    ASSUME TuneInv, [EntryNext]_entryVars
    PROVE  TuneInv'
<1>1. CASE UNCHANGED entryVars
  BY <1>1 DEF entryVars, TuneInv
<1>2. ASSUME NEW c \in Channels, SetChannel(c) \/ SetPhy(c) PROVE TuneInv'
  <2>1. channel' \in Channels /\ tuned' \in Channels /\ booked' = booked
    BY <1>2, Zenon DEF SetChannel, SetPhy, TuneInv
  <2>2. booked = "no" => air' = NoPacket
    BY <1>2, Zenon DEF SetChannel, SetPhy, Wipe
  <2> QED BY <2>1, <2>2, Zenon DEF TuneInv
<1>3. CASE Flush
  BY <1>3, Zenon DEF Flush, TuneInv
<1>4. ASSUME NEW a \in Airs, Receive(a) PROVE TuneInv'
  BY <1>4, Zenon DEF Receive, TuneInv
<1>5. CASE Parse
  <2>1. /\ channel' = channel /\ tuned' = tuned /\ stray' = stray /\ air' = air
        /\ booked = "no"
    BY <1>5, Zenon DEF Parse
  <2> QED BY <2>1, Zenon DEF TuneInv
<1>6. CASE Report
  <2>1. /\ channel' = channel /\ tuned' = tuned
        /\ booked' = "dropped_packets" \/ booked' = Kind(pkt)
    BY <1>6, Zenon DEF Report
  <2>2. booked' # "no"
    BY <2>1, SMT DEF Kind, AdvKind
  <2> QED BY <2>1, <2>2, Zenon DEF TuneInv
<1>7. CASE NextPacket
  BY <1>7, Zenon DEF NextPacket, TuneInv
<1> QED BY <1>1, <1>2, <1>3, <1>4, <1>5, <1>6, <1>7, Zenon DEF EntryNext

(* ... it holds at the start, ...                                          *)
LEMMA FreshEntry ==
    ASSUME EntryInit
    PROVE  EntryInv /\ TuneInv
<1>1. "no" # "rx_ok" /\ "no" # "dropped_packets"
  OBVIOUS
<1>2. EntryInv
  BY <1>1, Zenon DEF EntryInit, EntryInv, Finished
<1>3. TuneInv
  BY Zenon DEF EntryInit, TuneInv
<1> QED BY <1>2, <1>3

(* ... and so after every step.                                            *)
LEMMA EntryStep ==
    ASSUME EntryInv, TuneInv, [EntryNext]_entryVars
    PROVE  EntryInv' /\ TuneInv'
<1>1. ASSUME UNCHANGED entryVars PROVE EntryInv'
  <2>1. /\ air' = air /\ entry' = entry /\ pkt' = pkt /\ booked' = booked /\ seen' = seen
        /\ stray' = stray
    BY <1>1 DEF entryVars
  <2>2. Finished' <=> Finished
    BY <2>1, Zenon DEF Finished
  <2> QED BY <2>1, <2>2, SMT DEF EntryInv
<1>2. ASSUME NextPacket PROVE EntryInv'
  <2>1. air' = NoPacket /\ entry' = <<>> /\ pkt' = NoPacket /\ booked' = "no" /\ seen' = NoPacket
    BY <1>2, Zenon DEF NextPacket
  <2>2. "no" # "rx_ok" /\ "no" # "dropped_packets"
    OBVIOUS
  <2>3. ~ Finished'
    BY <2>1, Zenon DEF Finished
  <2> QED BY <2>1, <2>2, <2>3, SMT DEF EntryInv
<1>3. EntryInv'
  BY <1>1, <1>2, ChannelStep, ReceiveStep, ParseStep, ReportStep, Zenon DEF EntryNext
<1> QED BY <1>3, TuneStep, Zenon

(* EntriesRead holds for every header, length, channel and kind of packet: *)
(* the parsers of radio_if.c find the signal strength, the time stamp and, *)
(* in BLE mode, the channel, whichever of the four layouts they settle on; *)
(* in the other modes they report the channel the packet came on, whatever *)
(* retunes follow it, because each empties the ring, but for one stored    *)
(* while a retune is under way, after its reset and before its flush.      *)
(* What they keep of a BLE packet passes ll_manager.c whole, and IEEE      *)
(* 802.15.4 and proprietary packets reach the host with the bytes sent, up *)
(* to the limit of a report.                                               *)
THEOREM EntriesAreRead == EntrySpec => []EntriesRead
<1>1. EntryInit => EntryInv /\ TuneInv
  BY FreshEntry
<1>2. EntryInv /\ TuneInv /\ [EntryNext]_entryVars => EntryInv' /\ TuneInv'
  BY EntryStep
<1>3. EntryInv => EntriesRead
  <2> SUFFICES ASSUME EntryInv, Finished PROVE EntriesRead
    BY Zenon DEF EntriesRead
  <2>1. air # NoPacket /\ booked # "dropped_packets"
    BY Zenon DEF EntryInv, Finished
  <2>2. seen # NoPacket => ToldRight(seen, pkt, air, stray)
    BY Zenon DEF EntryInv
  <2>3. Good(air) => seen # NoPacket
    BY Zenon DEF EntryInv
  <2>4. seen # NoPacket =>
           /\ seen.rssi.what = "rssi" /\ seen.time = B("time", 1, 0)
           /\ seen.ch = air.ch % 256 \/ (stray /\ air.phy # "ble")
    <3>1. B("rssi", 1, 0).what = "rssi"
      BY SMT DEF B
    <3> QED BY <2>2, <3>1, Zenon DEF ToldRight, Fields, Own
  <2>5. air.phy \in {"ieee", "prop"} /\ air.crc /\ air.len > 0 =>
            /\ seen # NoPacket
            /\ seen.data = FirstOf(MaxEmitData, Bytes("pdu", air.len))
    BY <2>2, <2>3, Zenon DEF Good, ToldRight
  <2>6. air.phy = "ble" /\ seen # NoPacket => seen.data = pkt.data
    BY <2>2, Zenon DEF ToldRight
  <2> QED BY <2>1, <2>4, <2>5, <2>6, Zenon DEF EntriesRead
<1> QED BY <1>1, <1>2, <1>3, PTL DEF EntrySpec
===============================================================================
