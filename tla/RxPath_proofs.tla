---------------------------- MODULE RxPath_proofs ----------------------------
(***************************************************************************)
(* Proofs about the receive path, for every number of entries, every depth *)
(* of the queue and any number of packets and restarts: packets reach the  *)
(* host in the order of the air but for those stored from the middle of a  *)
(* reset on, none vanishes uncounted, and a stopped receiver is restarted  *)
(* unless its event was erased or a post failed.                           *)
(***************************************************************************)
EXTENDS RxPath, FiniteSetTheorems, SequenceTheorems, TLAPS

-----------------------------------------------------------------------------
(* The receiver is set going again.                                        *)

(* Without a command in the core, the full event is still to be read, or   *)
(* has been read and is being served, or was erased, or the task is about  *)
(* to post the command anyway.                                             *)
RestartFacts ==
    /\ cmds \in Nat
    /\ Running /\ cmds = 0 =>
         \/ "full" \in flags
         \/ raced
         \/ pc = "clear" /\ "full" \in seen
         \/ pc \in {"create", "post", "overflow", "rearm", "retune", "hop"}

(* A post after a flush leaves a command, or is noted as failed.           *)
LEMMA PostRestarts ==
    ASSUME NEW rest \in Nat, PostAfter(rest)
    PROVE  cmds' \in Nat /\ (cmds' = 0 => raced')
BY DEF PostAfter

(* Every step keeps them.                                                  *)
LEMMA RestartStep == RestartFacts /\ [Next]_vars => RestartFacts'
<1> SUFFICES ASSUME RestartFacts, [Next]_vars PROVE RestartFacts'
  OBVIOUS
<1>1. CASE BufferFull
  <2>1. cmds' \in Nat
    <3>1. Cancelled \in Nat
      BY <1>1 DEF BufferFull, Cancelled, RestartFacts
    <3>2. PICK ended \in {0, 1} : cmds' = IF Cancelled >= ended THEN Cancelled - ended ELSE 0
      BY <1>1 DEF BufferFull
    <3> QED BY <3>1, <3>2
  <2>2. "full" \in flags'
    BY <1>1 DEF BufferFull
  <2> QED BY <2>1, <2>2 DEF RestartFacts
<1>2. CASE PollClear
  BY <1>2 DEF PollClear, DeadOn, RestartFacts, Running, core
<1>3. CASE StartedRx
  BY <1>3 DEF StartedRx, DeadOn, RestartFacts, Running, core
<1>4. CASE Retuned \/ Hopped
  <2>1. cmds' \in Nat /\ (cmds' = 0 => raced')
    BY <1>4, PostRestarts DEF Retuned, Hopped
  <2> QED BY <2>1 DEF RestartFacts
<1>5. CASE Rearm
  <2>1. cmds' \in Nat /\ (cmds' = 0 => raced')
    <3> DEFINE rest == IF mode = "ieee" THEN cmds ELSE 0
    <3>1. rest \in Nat
      BY DEF RestartFacts
    <3>2. PostAfter(rest)
      BY <1>5 DEF Rearm
    <3> QED BY <3>1, <3>2, PostRestarts
  <2> QED BY <2>1 DEF RestartFacts
<1>6. CASE StopRx \/ SetPhy
  BY <1>6 DEF StopRx, SetPhy, StopBackend, RestartFacts, Running
<1>7. CASE PostRx
  BY <1>7 DEF PostRx, RestartFacts, Running
<1>8. CASE StartRx \/ Created \/ ClearEntry
  BY <1>8 DEF StartRx, Created, ClearEntry, RestartFacts, Running, core, history
<1>9. CASE Store \/ PollRead \/ PollOff \/ SetChannel \/ Overflow \/ Process \/ EntriesDone
           \/ Hop \/ Stay \/ Deliver \/ EndPoll
  BY <1>9 DEF Store, PollRead, PollOff, SetChannel, Overflow, Process, EntriesDone, Hop,
              Stay, Deliver, EndPoll, RestartFacts, Running, core, history
<1>10. CASE UNCHANGED vars
  BY <1>10 DEF vars, core, history, RestartFacts, Running
<1> QED BY <1>1, <1>2, <1>3, <1>4, <1>5, <1>6, <1>7, <1>8, <1>9, <1>10 DEF Next, Poll, Command

(* A receiver that a full buffer stopped is set going again, whatever the  *)
(* callback's timing, the overflows and the retunes: it stays dead only    *)
(* after the event was erased unseen or RF_postCmd failed                  *)
(* (RadioIF_rfCallback, RadioIF_poll, RadioIF_restartRfRx).                *)
THEOREM RestartedUnlessRaced == Spec => []DeadOnlyByRace
<1>1. Init => RestartFacts
  BY DEF Init, RestartFacts, Running
<1>2. RestartFacts => DeadOnlyByRace
  BY DEF RestartFacts, DeadOnlyByRace
<1> QED BY <1>1, <1>2, RestartStep, PTL DEF Spec

-----------------------------------------------------------------------------
(* Places in the ring.                                                     *)

(* An index below twice the number of entries wraps by one subtraction.    *)
LEMMA WrapIs ==
    ASSUME NEW i \in 0 .. 2 * Entries - 1
    PROVE  i % Entries = IF i < Entries THEN i ELSE i - Entries
<1> USE RxAssumption
<1>1. CASE i < Entries
  BY <1>1, Z3
<1>2. CASE i >= Entries
  BY <1>2, Z3
<1> QED BY <1>1, <1>2

(* Two places less than Entries behind the same index differ.              *)
LEMMA PlacesDiffer ==
    ASSUME NEW r \in Index, NEW i \in Index, NEW j \in Index, i # j
    PROVE  (r + i) % Entries # (r + j) % Entries
<1>1. r + i \in 0 .. 2 * Entries - 1 /\ r + j \in 0 .. 2 * Entries - 1
  BY RxAssumption DEF Index
<1> QED BY <1>1, WrapIs, RxAssumption DEF Index

(* A place is an index, and to step it is to look one place further.       *)
LEMMA PlaceNext ==
    ASSUME NEW r \in Index, NEW i \in Index
    PROVE  /\ (r + i) % Entries \in Index
           /\ Next1(r) \in Index
           /\ Next1((r + i) % Entries) = (r + (i + 1)) % Entries
           /\ (Next1(r) + i) % Entries = (r + (i + 1)) % Entries
<1> USE RxAssumption
<1>1. r + i \in 0 .. 2 * Entries - 1 /\ r + 1 \in 0 .. 2 * Entries - 1
  BY DEF Index
<1>2. r + (i + 1) \in 0 .. 2 * Entries - 1
  BY DEF Index
<1>3. (r + 1) % Entries \in Index /\ (r + i) % Entries \in Index
  BY <1>1, WrapIs DEF Index
<1>4. /\ ((r + 1) % Entries) + i \in 0 .. 2 * Entries - 1
      /\ ((r + i) % Entries) + 1 \in 0 .. 2 * Entries - 1
  BY <1>3 DEF Index
<1>5. (((r + i) % Entries) + 1) % Entries = (r + (i + 1)) % Entries
  BY <1>1, <1>2, <1>4, WrapIs DEF Index
<1>6. (((r + 1) % Entries) + i) % Entries = (r + (i + 1)) % Entries
  <2>1. CASE r + 1 < Entries
    <3>1. (r + 1) % Entries = r + 1
      BY <1>1, <2>1, WrapIs
    <3> QED BY <3>1 DEF Index
  <2>2. CASE r + 1 = Entries
    <3>1. (r + 1) % Entries = 0 /\ 0 + i = i /\ i < Entries /\ i \in 0 .. 2 * Entries - 1
          /\ r + (i + 1) = Entries + i
      BY <1>1, <2>2, WrapIs DEF Index
    <3>2. i % Entries = i /\ (r + (i + 1)) % Entries = i
      BY <1>2, <3>1, WrapIs
    <3> QED BY <3>1, <3>2
  <2> QED BY <2>1, <2>2 DEF Index
<1> QED BY <1>3, <1>5, <1>6 DEF Next1

(* Without a step the place is the index itself.                           *)
LEMMA PlaceZero == ASSUME NEW r \in Index PROVE (r + 0) % Entries = r
<1>1. r \in 0 .. 2 * Entries - 1 /\ r + 0 = r /\ r < Entries
  BY RxAssumption DEF Index
<1> QED BY <1>1, WrapIs

-----------------------------------------------------------------------------
(* How many entries a ring holds.                                          *)

Finished(r) == {i \in Index : r[i] # None}

(* A ring holds at most Entries packets.                                   *)
LEMMA FillRange ==
    ASSUME NEW r
    PROVE  IsFiniteSet(Finished(r)) /\ Cardinality(Finished(r)) \in 0 .. Entries
<1>1. IsFiniteSet(Index) /\ Cardinality(Index) = Entries
  <2>1. 0 \in Int /\ Entries - 1 \in Int /\ ~(0 > Entries - 1) /\ Entries - 1 - 0 + 1 = Entries
    BY RxAssumption
  <2> QED BY <2>1, FS_Interval DEF Index
<1>2. Finished(r) \in SUBSET Index
  BY DEF Finished
<1>3. IsFiniteSet(Finished(r)) /\ Cardinality(Finished(r)) <= Entries
  BY <1>1, <1>2, FS_Subset
<1>4. Cardinality(Finished(r)) \in Nat
  BY <1>3, FS_CardinalityType
<1> QED BY <1>3, <1>4, RxAssumption

(* The core finishes one entry more.                                       *)
LEMMA FillStored ==
    ASSUME NEW r, NEW c \in Index, NEW p, r \in [Index -> Packets \cup {None}],
           r[c] = None, p # None
    PROVE  Cardinality(Finished([r EXCEPT ![c] = p])) = Cardinality(Finished(r)) + 1
<1>1. Finished([r EXCEPT ![c] = p]) = Finished(r) \cup {c} /\ c \notin Finished(r)
  BY DEF Finished
<1> QED BY <1>1, FillRange, FS_AddElement

(* The reader empties one.                                                 *)
LEMMA FillTaken ==
    ASSUME NEW r, NEW c \in Index, r \in [Index -> Packets \cup {None}], r[c] # None
    PROVE  /\ Cardinality(Finished([r EXCEPT ![c] = None])) = Cardinality(Finished(r)) - 1
           /\ Cardinality(Finished(r)) \in 1 .. Entries
<1>1. Finished([r EXCEPT ![c] = None]) = Finished(r) \ {c} /\ c \in Finished(r)
  BY DEF Finished
<1>2. Cardinality(Finished([r EXCEPT ![c] = None])) = Cardinality(Finished(r)) - 1
  BY <1>1, FillRange, FS_RemoveElement
<1>3. /\ Cardinality(Finished([r EXCEPT ![c] = None])) \in 0 .. Entries
      /\ Cardinality(Finished(r)) \in 0 .. Entries
  BY FillRange
<1> QED BY <1>2, <1>3, RxAssumption

(* A reset empties them all.                                               *)
LEMMA FillReset == Cardinality(Finished([i \in Index |-> None])) = 0
<1>1. Finished([i \in Index |-> None]) = {}
  BY DEF Finished
<1> QED BY <1>1, FS_EmptySet

(* Fill is the number of finished entries.                                 *)
LEMMA FillIs == Fill = Cardinality(Finished(ring))
BY DEF Fill, Finished

-----------------------------------------------------------------------------
(* The order of sequences of packets, one behind the other.                *)

(* m comes before n; numbers of f may change places among each other.      *)
Prec(m, n, f)   == m # n /\ (m < n \/ (m \in f /\ n \in f))
Before(x, y, f) == Prec(x.id, y.id, f)

Rising(s, f)   == \A i, j \in DOMAIN s : i < j => Before(s[i], s[j], f)
Below(s, t, f) == \A i \in DOMAIN s, j \in DOMAIN t : Before(s[i], t[j], f)
Under(s, p, f) == \A i \in DOMAIN s : Before(s[i], p, f)
UpTo(s, a)     == \A i \in DOMAIN s : s[i].id \in 1 .. a

(* s was sent, t is queued, a packets are on the air;                      *)
Ordered(s, t, a, f) ==
    /\ Rising(s, f) /\ Rising(t, f) /\ Below(s, t, f)
    /\ UpTo(s, a) /\ UpTo(t, a)

(* u, in the ring, follows them.                                           *)
Follows(u, s, t, a, f) ==
    /\ Rising(u, f) /\ Below(s, u, f) /\ Below(t, u, f)
    /\ UpTo(u, a)

(* The newest packet is above all others, and may widen f.                 *)
LEMMA NewestIsAbove ==
    ASSUME NEW s, NEW a \in Nat, UpTo(s, a), NEW p, p.id = a + 1, NEW f
    PROVE  Under(s, p, f) /\ UpTo(s, a + 1)
BY DEF UpTo, Under, Before, Prec

(* The order stands if more is stored and more may change places.          *)
LEMMA OrderWidens ==
    ASSUME NEW s, NEW t, NEW a \in Nat, NEW f, NEW g, f \subseteq g, Ordered(s, t, a, f)
    PROVE  Ordered(s, t, a + 1, g)
<1>1. UpTo(s, a + 1) /\ UpTo(t, a + 1)
  BY DEF Ordered, UpTo
<1>2. Rising(s, g) /\ Rising(t, g) /\ Below(s, t, g)
  BY DEF Ordered, Rising, Below, Before, Prec
<1> QED BY <1>1, <1>2 DEF Ordered

(* So does being above a whole part.                                       *)
LEMMA UnderWidens ==
    ASSUME NEW s, NEW p, NEW f, NEW g, f \subseteq g, Under(s, p, f)
    PROVE  Under(s, p, g)
BY DEF Under, Before, Prec

(* A packet above a whole part may be put at its end.                      *)
LEMMA AppendIs ==
    ASSUME NEW S, NEW s \in Seq(S), NEW x \in S
    PROVE  /\ DOMAIN Append(s, x) = DOMAIN s \cup {Len(s) + 1}
           /\ \A i \in DOMAIN s : Append(s, x)[i] = s[i] /\ i < Len(s) + 1 /\ i \in Nat
           /\ Append(s, x)[Len(s) + 1] = x
           /\ Len(s) \in Nat
OBVIOUS

(* The part still rises,                                                   *)
LEMMA AppendKeepsRising ==
    ASSUME NEW S, NEW s \in Seq(S), NEW x \in S, NEW f, Rising(s, f), Under(s, x, f)
    PROVE  Rising(Append(s, x), f)
<1> SUFFICES ASSUME NEW i \in DOMAIN Append(s, x), NEW j \in DOMAIN Append(s, x), i < j
             PROVE  Before(Append(s, x)[i], Append(s, x)[j], f)
  BY DEF Rising
<1>2. i \in DOMAIN s
  <2>1. i = Len(s) + 1 => FALSE
    BY AppendIs
  <2> QED BY AppendIs, <2>1
<1>3. CASE j \in DOMAIN s
  BY AppendIs, <1>2, <1>3 DEF Rising
<1>4. CASE j = Len(s) + 1
  BY AppendIs, <1>2, <1>4 DEF Under
<1> QED BY AppendIs, <1>3, <1>4

(* and stands to other parts as it did.                                    *)
LEMMA AppendKeepsBelow ==
    ASSUME NEW S, NEW s \in Seq(S), NEW x \in S, NEW t, NEW f
    PROVE  /\ Below(s, t, f) /\ (\A j \in DOMAIN t : Before(x, t[j], f))
                => Below(Append(s, x), t, f)
           /\ Below(t, s, f) /\ Under(t, x, f) => Below(t, Append(s, x), f)
           /\ \A p : Under(s, p, f) /\ Before(x, p, f) => Under(Append(s, x), p, f)
           /\ \A a : UpTo(s, a) /\ x.id \in 1 .. a => UpTo(Append(s, x), a)
<1>2. Below(s, t, f) /\ (\A j \in DOMAIN t : Before(x, t[j], f)) => Below(Append(s, x), t, f)
  BY AppendIs DEF Below
<1>3. Below(t, s, f) /\ Under(t, x, f) => Below(t, Append(s, x), f)
  BY AppendIs DEF Below, Under
<1>4. \A a : UpTo(s, a) /\ x.id \in 1 .. a => UpTo(Append(s, x), a)
  BY AppendIs DEF UpTo
<1>5. \A p : Under(s, p, f) /\ Before(x, p, f) => Under(Append(s, x), p, f)
  BY AppendIs DEF Under
<1> QED BY <1>2, <1>3, <1>4, <1>5

(* The newest packet goes behind all others.                               *)
LEMMA StoredKeepsOrder ==
    ASSUME NEW S, NEW T, NEW s \in Seq(S), NEW t \in Seq(T), NEW u \in Seq(T),
           NEW a \in Nat, NEW p \in T, p.id = a + 1, NEW f,
           Ordered(s, t, a, f), Follows(u, s, t, a, f)
    PROVE  Follows(Append(u, p), s, t, a + 1, f)
<1>1. Under(s, p, f) /\ Under(t, p, f) /\ Under(u, p, f) /\ UpTo(u, a + 1)
  BY NewestIsAbove DEF Ordered, Follows
<1>2. UpTo(Append(u, p), a + 1)
  BY <1>1, AppendKeepsBelow
<1>3. Below(s, Append(u, p), f) /\ Below(t, Append(u, p), f)
  BY <1>1, AppendKeepsBelow DEF Follows
<1>4. Rising(Append(u, p), f)
  BY <1>1, AppendKeepsRising DEF Follows
<1> QED BY <1>2, <1>3, <1>4 DEF Follows

(* The oldest of one part leaves it.                                       *)
LEMMA TailIs ==
    ASSUME NEW T, NEW t \in Seq(T), t # <<>>
    PROVE  /\ Tail(t) \in Seq(T) /\ Head(t) \in T /\ Head(t) = t[1] /\ 1 \in DOMAIN t
           /\ \A i \in DOMAIN Tail(t) : /\ i \in Nat /\ i + 1 \in DOMAIN t
                                        /\ Tail(t)[i] = t[i + 1] /\ 1 < i + 1
OBVIOUS

(* What is left rises and stands to others as the whole did.               *)
LEMMA TailKeepsOrder ==
    ASSUME NEW T, NEW t \in Seq(T), t # <<>>, NEW f, Rising(t, f)
    PROVE  /\ Rising(Tail(t), f)
           /\ \A i \in DOMAIN Tail(t) : Before(Head(t), Tail(t)[i], f)
           /\ \A a : UpTo(t, a) => UpTo(Tail(t), a) /\ Head(t).id \in 1 .. a
           /\ \A s : Below(s, t, f) => Below(s, Tail(t), f) /\ Under(s, Head(t), f)
           /\ \A u : Below(t, u, f) => /\ Below(Tail(t), u, f)
                                       /\ \A j \in DOMAIN u : Before(Head(t), u[j], f)
           /\ \A p : Under(t, p, f) => Under(Tail(t), p, f) /\ Before(Head(t), p, f)
<1>1. Rising(Tail(t), f)
  BY TailIs DEF Rising
<1>2. \A i \in DOMAIN Tail(t) : Before(Head(t), Tail(t)[i], f)
  BY TailIs DEF Rising
<1>3. \A a : UpTo(t, a) => UpTo(Tail(t), a) /\ Head(t).id \in 1 .. a
  BY TailIs DEF UpTo
<1>4. \A s : Below(s, t, f) => Below(s, Tail(t), f) /\ Under(s, Head(t), f)
  BY TailIs DEF Below, Under
<1>5. \A u : Below(t, u, f) => /\ Below(Tail(t), u, f)
                               /\ \A j \in DOMAIN u : Before(Head(t), u[j], f)
  BY TailIs DEF Below
<1>6. \A p : Under(t, p, f) => Under(Tail(t), p, f) /\ Before(Head(t), p, f)
  BY TailIs DEF Under
<1> QED BY <1>1, <1>2, <1>3, <1>4, <1>5, <1>6

(* The reader queues a packet that is above all that is sent and queued;   *)
LEMMA QueuedKeepsOrder ==
    ASSUME NEW S, NEW T, NEW s \in Seq(S), NEW t \in Seq(T), NEW x \in T, NEW a, NEW f,
           Ordered(s, t, a, f), Under(s, x, f), Under(t, x, f), x.id \in 1 .. a
    PROVE  Ordered(s, Append(t, x), a, f)
<1>1. Rising(Append(t, x), f)
  BY AppendKeepsRising DEF Ordered
<1>2. Below(s, Append(t, x), f) /\ UpTo(Append(t, x), a)
  BY AppendKeepsBelow DEF Ordered
<1> QED BY <1>1, <1>2 DEF Ordered

(* it drops or queues the oldest packet of the ring.                       *)
LEMMA TakenKeepsOrder ==
    ASSUME NEW S, NEW T, NEW s \in Seq(S), NEW t \in Seq(T), NEW u \in Seq(T), NEW a, NEW f,
           u # <<>>, Ordered(s, t, a, f), Follows(u, s, t, a, f)
    PROVE  /\ Follows(Tail(u), s, t, a, f)
           /\ Ordered(s, Append(t, Head(u)), a, f)
           /\ Follows(Tail(u), s, Append(t, Head(u)), a, f)
<1>1. Follows(Tail(u), s, t, a, f)
  BY TailKeepsOrder DEF Follows
<1>2. Under(s, Head(u), f) /\ Under(t, Head(u), f) /\ Head(u).id \in 1 .. a /\ Head(u) \in T
  BY TailKeepsOrder, TailIs DEF Follows
<1>3. Ordered(s, Append(t, Head(u)), a, f)
  BY <1>2, QueuedKeepsOrder
<1>4. \A i \in DOMAIN Tail(u) : Before(Head(u), Tail(u)[i], f)
  BY TailKeepsOrder DEF Follows
<1>5. Below(Append(t, Head(u)), Tail(u), f)
  BY <1>1, <1>2, <1>4, AppendKeepsBelow DEF Follows
<1> QED BY <1>1, <1>3, <1>5 DEF Follows

(* The oldest packet of the queue is refused or sent.                      *)
LEMMA DeliveredKeepsOrder ==
    ASSUME NEW S, NEW T, NEW s \in Seq(S), NEW t \in Seq(T), NEW a, NEW f,
           t # <<>>, Ordered(s, t, a, f), NEW x \in S, x.id = Head(t).id
    PROVE  /\ Ordered(s, Tail(t), a, f)
           /\ Ordered(Append(s, x), Tail(t), a, f)
           /\ \A u : Follows(u, s, t, a, f) =>
                 /\ Follows(u, s, Tail(t), a, f)
                 /\ Follows(u, Append(s, x), Tail(t), a, f)
           /\ \A p : Under(s, p, f) /\ Under(t, p, f) =>
                 Under(Tail(t), p, f) /\ Under(Append(s, x), p, f)
<1>1. Ordered(s, Tail(t), a, f)
  BY TailKeepsOrder DEF Ordered
<1>2. Under(s, x, f) /\ x.id \in 1 .. a
  <2>1. Under(s, Head(t), f) /\ Head(t).id \in 1 .. a
    BY TailKeepsOrder DEF Ordered
  <2> QED BY <2>1 DEF Under, Before
<1>3. \A y : Before(Head(t), y, f) => Before(x, y, f)
  BY DEF Before
<1>4. Rising(Append(s, x), f) /\ UpTo(Append(s, x), a)
  BY <1>2, AppendKeepsRising, AppendKeepsBelow DEF Ordered
<1>5. Below(Append(s, x), Tail(t), f)
  <2>1. \A i \in DOMAIN Tail(t) : Before(x, Tail(t)[i], f)
    BY <1>3, TailKeepsOrder DEF Ordered
  <2> QED BY <1>1, <2>1, AppendKeepsBelow DEF Ordered
<1>6. Ordered(Append(s, x), Tail(t), a, f)
  BY <1>1, <1>4, <1>5 DEF Ordered
<1>7. ASSUME NEW u, Follows(u, s, t, a, f)
      PROVE  /\ Follows(u, s, Tail(t), a, f)
             /\ Follows(u, Append(s, x), Tail(t), a, f)
  <2>1. Below(Tail(t), u, f) /\ \A j \in DOMAIN u : Before(Head(t), u[j], f)
    BY <1>7, TailKeepsOrder DEF Ordered, Follows
  <2>2. Below(Append(s, x), u, f)
    BY <1>3, <1>7, <2>1, AppendKeepsBelow DEF Follows
  <2> QED BY <1>7, <2>1, <2>2 DEF Follows
<1>8. ASSUME NEW p, Under(s, p, f), Under(t, p, f)
      PROVE  Under(Tail(t), p, f) /\ Under(Append(s, x), p, f)
  <2>1. Under(Tail(t), p, f) /\ Before(Head(t), p, f)
    BY <1>8, TailKeepsOrder DEF Ordered
  <2> QED BY <1>3, <1>8, <2>1, AppendKeepsBelow
<1> QED BY <1>1, <1>6, <1>7, <1>8

-----------------------------------------------------------------------------
(* The ring read from an entry on.                                         *)

Count(r)     == Cardinality(Finished(r))
LineOf(r, d) == [k \in 1 .. Count(r) |-> r[(d + (k - 1)) % Entries]]

(* An element of a sequence is one of its set.                             *)
LEMMA PartOf == ASSUME NEW T, NEW s \in Seq(T), NEW i \in DOMAIN s PROVE s[i] \in T
OBVIOUS

(* The line is a sequence of packets as soon as its places hold packets.   *)
LEMMA LineIsSeq ==
    ASSUME NEW r, NEW d,
           \A k \in 1 .. Count(r) : r[(d + (k - 1)) % Entries] \in Packets
    PROVE  /\ LineOf(r, d) \in Seq(Packets)
           /\ Len(LineOf(r, d)) = Count(r)
           /\ \A k \in 1 .. Count(r) : LineOf(r, d)[k] = r[(d + (k - 1)) % Entries]
<1>1. Count(r) \in Nat
  BY FillRange, RxAssumption DEF Count
<1> QED BY <1>1 DEF LineOf

(* What the core stores comes last.                                        *)
LEMMA LineStored ==
    ASSUME ring \in [Index -> Packets \cup {None}], rd \in Index, cur \in Index,
           cur = (rd + Count(ring)) % Entries, ring[cur] = None,
           LineOf(ring, rd) \in Seq(Packets), NEW p \in Packets
    PROVE  /\ LineOf([ring EXCEPT ![cur] = p], rd) = Append(LineOf(ring, rd), p)
           /\ Next1(cur) = (rd + Count([ring EXCEPT ![cur] = p])) % Entries
<1> DEFINE q == [ring EXCEPT ![cur] = p]
           n == Count(ring)
<1>1. p # None
  BY NoneAssumption
<1>2. n \in Index /\ Count(q) = n + 1
  <2>1. Count(q) = n + 1
    BY <1>1, FillStored DEF Count
  <2>2. Count(q) \in 0 .. Entries /\ n \in 0 .. Entries
    BY FillRange DEF Count
  <2> QED BY <2>1, <2>2, RxAssumption DEF Index
<1>3. Next1(cur) = (rd + Count(q)) % Entries
  <2>1. cur = (rd + n) % Entries
    OBVIOUS
  <2>2. Next1((rd + n) % Entries) = (rd + (n + 1)) % Entries
    BY <1>2, PlaceNext
  <2> HIDE DEF n, q
  <2> QED BY <1>2, <2>1, <2>2
<1>4. ASSUME NEW k \in 1 .. n
      PROVE  q[(rd + (k - 1)) % Entries] = LineOf(ring, rd)[k]
  <2>1. k - 1 \in Index
    BY <1>2, RxAssumption DEF Index
  <2>2. (rd + (k - 1)) % Entries \in Index
    BY <2>1, PlaceNext
  <2>3. LineOf(ring, rd)[k] = ring[(rd + (k - 1)) % Entries]
    BY DEF LineOf
  <2>4. LineOf(ring, rd)[k] \in Packets
    <3>1. k \in DOMAIN LineOf(ring, rd)
      BY DEF LineOf
    <3> QED BY <3>1, PartOf
  <2>5. (rd + (k - 1)) % Entries # cur
    BY <2>3, <2>4, NoneAssumption
  <2> QED BY <2>2, <2>3, <2>5
<1>5. LineOf(q, rd) = Append(LineOf(ring, rd), p)
  <2> DEFINE a == LineOf(ring, rd)
             b == LineOf(q, rd)
             e == Append(a, p)
  <2>1. n \in Nat /\ DOMAIN a = 1 .. n /\ Len(a) = n
    <3>1. n \in Nat /\ DOMAIN a = 1 .. n
      BY <1>2 DEF Index, LineOf
    <3> QED BY <3>1
  <2>2. e \in Seq(Packets) /\ Len(e) = n + 1 /\ e[n + 1] = p /\ \A k \in 1 .. n : e[k] = a[k]
    <3>1. a \in Seq(Packets)
      OBVIOUS
    <3> HIDE DEF a
    <3> QED BY <2>1, <3>1, AppendProperties
  <2>3. ASSUME NEW k \in 1 .. n + 1 PROVE q[(rd + (k - 1)) % Entries] = e[k]
    <3>1. CASE k = n + 1
      <4>1. k - 1 = n
        BY <2>1, <3>1
      <4>2. (rd + (k - 1)) % Entries = cur
        BY <4>1
      <4>3. q[cur] = p
        OBVIOUS
      <4> HIDE DEF e, q
      <4> QED BY <2>2, <3>1, <4>2, <4>3
    <3>2. CASE k # n + 1
      <4>1. k \in 1 .. n
        BY <2>1, <3>2
      <4>2. q[(rd + (k - 1)) % Entries] = a[k]
        BY <1>4, <4>1
      <4> HIDE DEF a, e, q
      <4> QED BY <2>2, <4>1, <4>2
    <3> QED BY <3>1, <3>2
  <2>4. \A k \in 1 .. n + 1 : e[k] \in Packets
    <3> HIDE DEF e
    <3> QED BY <2>1, <2>2
  <2> HIDE DEF e, q, n
  <2>5. Count(q) = n + 1 /\ \A k \in 1 .. Count(q) : q[(rd + (k - 1)) % Entries] \in Packets
    BY <1>2, <2>3, <2>4
  <2>6. /\ b \in Seq(Packets) /\ Len(b) = Count(q)
        /\ \A k \in 1 .. Count(q) : b[k] = q[(rd + (k - 1)) % Entries]
    BY <2>5, LineIsSeq
  <2> HIDE DEF a, b
  <2>7. b \in Seq(Packets) /\ Len(b) = n + 1 /\ \A k \in 1 .. n + 1 : b[k] = e[k]
    BY <2>3, <2>5, <2>6
  <2>8. b = e
    BY <2>2, <2>7, SeqEqual
  <2> QED BY <2>8 DEF b, e, a
<1> QED BY <1>3, <1>5

(* What the reader takes was first.                                        *)
LEMMA LineTaken ==
    ASSUME NEW r \in [Index -> Packets \cup {None}], NEW d \in Index, r[d] # None,
           LineOf(r, d) \in Seq(Packets)
    PROVE  /\ LineOf(r, d) # <<>> /\ Head(LineOf(r, d)) = r[d]
           /\ LineOf([r EXCEPT ![d] = None], Next1(d)) = Tail(LineOf(r, d))
           /\ (Next1(d) + Count([r EXCEPT ![d] = None])) % Entries
                = (d + Count(r)) % Entries
<1> DEFINE q == [r EXCEPT ![d] = None]
           n == Count(r)
           a == LineOf(r, d)
<1>1. n \in 1 .. Entries /\ Count(q) = n - 1
  BY FillTaken DEF Count
<1>2. DOMAIN a = 1 .. n /\ Len(a) = n
  <2>1. n \in Nat /\ DOMAIN a = 1 .. n
    BY <1>1 DEF LineOf
  <2> QED BY <2>1
<1>3. a # <<>> /\ Head(a) = r[d]
  <2>1. a[1] = r[(d + (1 - 1)) % Entries]
    BY <1>1 DEF LineOf
  <2>2. (d + (1 - 1)) % Entries = d
    BY PlaceZero
  <2> HIDE DEF a
  <2> QED BY <1>1, <1>2, <2>1, <2>2
<1>4. (Next1(d) + Count(q)) % Entries = (d + n) % Entries
  <2>1. n - 1 \in Index /\ (n - 1) + 1 = n
    BY <1>1, RxAssumption DEF Index
  <2> QED BY <1>1, <2>1, PlaceNext
<1>5. LineOf(q, Next1(d)) = Tail(a)
  <2> DEFINE b == LineOf(q, Next1(d))
             e == Tail(a)
  <2>2. e \in Seq(Packets) /\ Len(e) = n - 1 /\ \A k \in 1 .. n - 1 : e[k] = a[k + 1]
    <3>1. a \in Seq(Packets)
      OBVIOUS
    <3> HIDE DEF a
    <3> QED BY <1>1, <1>2, <1>3, <3>1, HeadTailProperties
  <2>3. ASSUME NEW k \in 1 .. n - 1
        PROVE  q[(Next1(d) + (k - 1)) % Entries] = a[k + 1]
    <3>1. k - 1 \in Index /\ k \in Index /\ (k - 1) + 1 = k /\ k + 1 \in 1 .. n
          /\ (k + 1) - 1 = k /\ 0 \in Index /\ k # 0
      BY <1>1, RxAssumption DEF Index
    <3>2. (Next1(d) + (k - 1)) % Entries = (d + k) % Entries
      BY <3>1, PlaceNext
    <3>3. (d + k) % Entries \in Index /\ (d + k) % Entries # d
      BY <3>1, PlaceNext, PlacesDiffer, PlaceZero
    <3>4. a[k + 1] = r[(d + k) % Entries]
      BY <3>1 DEF LineOf
    <3> QED BY <3>2, <3>3, <3>4
  <2>4. \A k \in 1 .. n - 1 : e[k] \in Packets /\ e[k] = a[k + 1]
    <3> HIDE DEF e
    <3> QED BY <1>1, <2>2
  <2> HIDE DEF a, e, q, n
  <2>5. Count(q) = n - 1
        /\ \A k \in 1 .. Count(q) : q[(Next1(d) + (k - 1)) % Entries] \in Packets
    BY <1>1, <2>3, <2>4
  <2>6. /\ b \in Seq(Packets) /\ Len(b) = Count(q)
        /\ \A k \in 1 .. Count(q) : b[k] = q[(Next1(d) + (k - 1)) % Entries]
    BY <2>5, LineIsSeq
  <2> HIDE DEF b
  <2>7. b \in Seq(Packets) /\ Len(b) = n - 1 /\ \A k \in 1 .. n - 1 : b[k] = e[k]
    BY <2>3, <2>4, <2>5, <2>6
  <2>8. b = e
    BY <2>2, <2>7, SeqEqual
  <2> QED BY <2>8 DEF b, e
<1> QED BY <1>3, <1>4, <1>5

(* After a reset there is nothing to read, and core and reader agree.      *)
LEMMA LineReset ==
    /\ LineOf([i \in Index |-> None], 0) = <<>>
    /\ 0 = (0 + Count([i \in Index |-> None])) % Entries
    /\ 0 \in Index
<1>1. Count([i \in Index |-> None]) = 0
  BY FillReset DEF Count
<1>2. 0 \in Index
  BY RxAssumption DEF Index
<1>3. (0 + 0) % Entries = 0
  BY <1>2, PlaceZero
<1>4. LineOf([i \in Index |-> None], 0) = <<>>
  BY <1>1 DEF LineOf
<1> QED BY <1>1, <1>2, <1>3, <1>4

-----------------------------------------------------------------------------
(* Where the packets are.                                                  *)

HeldIn(r) == {r[i].id : i \in Finished(r)}
Ids(s)    == {s[i].id : i \in DOMAIN s}

(* No two entries of a ring hold the same packet.                          *)
Apart(r) == \A i, j \in Finished(r) : r[i].id = r[j].id => i = j

(* The places of the model are these sets.                                 *)
LEMMA PlacesAre == Held = HeldIn(ring) /\ Queued = Ids(queue) /\ Sent = Ids(out)
BY DEF Held, Queued, Sent, HeldIn, Ids, Finished

(* A packet put at the end adds its number.                                *)
LEMMA IdsAppend ==
    ASSUME NEW T, NEW s \in Seq(T), NEW x \in T
    PROVE  Ids(Append(s, x)) = Ids(s) \cup {x.id}
<1>1. /\ DOMAIN Append(s, x) = DOMAIN s \cup {Len(s) + 1} /\ Len(s) + 1 \notin DOMAIN s
      /\ \A i \in DOMAIN s : Append(s, x)[i] = s[i]
      /\ Append(s, x)[Len(s) + 1] = x
  OBVIOUS
<1> DEFINE t == Append(s, x)
<1> HIDE DEF t
<1>2. Ids(t) = {t[i].id : i \in DOMAIN s} \cup {t[Len(s) + 1].id}
  BY <1>1 DEF t, Ids
<1>3. {t[i].id : i \in DOMAIN s} = Ids(s) /\ t[Len(s) + 1].id = x.id
  BY <1>1 DEF t, Ids
<1> QED BY <1>2, <1>3 DEF t

(* The numbers of a queue differ, for one comes before another.           *)
LEMMA IdsTail ==
    ASSUME NEW T, NEW s \in Seq(T), s # <<>>, NEW f, Rising(s, f)
    PROVE  Ids(Tail(s)) = Ids(s) \ {Head(s).id} /\ Head(s).id \in Ids(s)
<1> DEFINE t == Tail(s)
<1>1. /\ DOMAIN s = 1 .. Len(s) /\ Len(s) \in Nat \ {0} /\ Head(s) = s[1]
      /\ DOMAIN t = 1 .. Len(s) - 1
      /\ \A i \in 1 .. Len(s) - 1 : t[i] = s[i + 1]
  OBVIOUS
<1> HIDE DEF t
<1>2. ASSUME NEW i \in DOMAIN t PROVE t[i].id \in Ids(s) \ {Head(s).id}
  <2>1. i + 1 \in DOMAIN s /\ 1 \in DOMAIN s /\ 1 < i + 1 /\ t[i] = s[i + 1]
    BY <1>1
  <2>3. s[i + 1].id # s[1].id
    BY <2>1 DEF Rising, Before, Prec
  <2> QED BY <1>1, <2>1, <2>3 DEF Ids
<1>3. ASSUME NEW j \in DOMAIN s, s[j].id # Head(s).id PROVE s[j].id \in Ids(t)
  <2>1. j # 1 /\ j \in 1 .. Len(s)
    BY <1>1, <1>3
  <2>2. j - 1 \in DOMAIN t /\ t[j - 1] = s[(j - 1) + 1] /\ (j - 1) + 1 = j
    BY <1>1, <2>1
  <2> QED BY <2>2 DEF Ids
<1>4. Ids(t) \subseteq Ids(s) \ {Head(s).id}
  BY <1>2 DEF Ids
<1>5. Ids(s) \ {Head(s).id} \subseteq Ids(t)
  BY <1>3 DEF Ids
<1>6. Head(s).id \in Ids(s)
  BY <1>1 DEF Ids
<1> QED BY <1>4, <1>5, <1>6 DEF t

(* A packet stored in the ring adds its number,                            *)
LEMMA HeldStored ==
    ASSUME NEW r \in [Index -> Packets \cup {None}], NEW c \in Index, NEW p \in Packets,
           r[c] = None, Apart(r), p.id \notin HeldIn(r)
    PROVE  /\ HeldIn([r EXCEPT ![c] = p]) = HeldIn(r) \cup {p.id}
           /\ Apart([r EXCEPT ![c] = p])
<1> DEFINE q == [r EXCEPT ![c] = p]
<1>1. /\ Finished(q) = Finished(r) \cup {c} /\ c \notin Finished(r) /\ q[c] = p
      /\ \A i \in Finished(r) : q[i] = r[i]
  BY NoneAssumption DEF Finished
<1> HIDE DEF q
<1>2. HeldIn(q) = {q[i].id : i \in Finished(r)} \cup {q[c].id}
  BY <1>1 DEF HeldIn
<1>3. {q[i].id : i \in Finished(r)} = HeldIn(r)
  BY <1>1 DEF HeldIn
<1>4. Apart(q)
  BY <1>1 DEF Apart, HeldIn
<1> QED BY <1>1, <1>2, <1>3, <1>4 DEF q

(* one taken out removes it, and nothing else,                             *)
LEMMA HeldTaken ==
    ASSUME NEW r \in [Index -> Packets \cup {None}], NEW d \in Index, r[d] # None, Apart(r)
    PROVE  /\ HeldIn([r EXCEPT ![d] = None]) = HeldIn(r) \ {r[d].id}
           /\ r[d].id \in HeldIn(r)
           /\ Apart([r EXCEPT ![d] = None])
<1> DEFINE q == [r EXCEPT ![d] = None]
<1>1. /\ Finished(q) = Finished(r) \ {d} /\ d \in Finished(r)
      /\ \A i \in Finished(q) : q[i] = r[i]
  BY DEF Finished
<1> HIDE DEF q
<1>2. HeldIn(q) \subseteq HeldIn(r) \ {r[d].id}
  BY <1>1 DEF HeldIn, Apart
<1>3. HeldIn(r) \ {r[d].id} \subseteq HeldIn(q)
  BY <1>1 DEF HeldIn
<1>4. Apart(q)
  BY <1>1 DEF Apart
<1>5. r[d].id \in HeldIn(r)
  BY <1>1 DEF HeldIn
<1> QED BY <1>2, <1>3, <1>4, <1>5 DEF q

(* and a reset removes them all.                                           *)
LEMMA HeldReset == HeldIn([i \in Index |-> None]) = {} /\ Apart([i \in Index |-> None])
<1>1. Finished([i \in Index |-> None]) = {}
  BY DEF Finished
<1> QED BY <1>1 DEF HeldIn, Apart

-----------------------------------------------------------------------------
(* The invariant.                                                          *)

Frame == [id : 1 .. MaxAir, seq : Nat]

Types ==
    /\ ring \in [Index -> Packets \cup {None}] /\ cur \in Index /\ rd \in Index
    /\ at \in Index /\ left \in 0 .. Entries
    /\ queue \in Seq(Packets) /\ out \in Seq(Frame) /\ rspSeq \in Nat
    /\ air \in 0 .. MaxAir /\ astray \in SUBSET (1 .. air)

(* The core writes behind the last finished entry, the entries up to there *)
(* are finished, and what they hold follows what is sent and queued.       *)
Lined(r, d, c, o, q, a, f) ==
    /\ c = (d + Count(r)) % Entries
    /\ LineOf(r, d) \in Seq(Packets)
    /\ Follows(LineOf(r, d), o, q, a, f)

(* The loop of a reset, with l rounds to go from entry b on, comes by e.   *)
ToClear(e, b, l) == \E k \in 0 .. l - 1 : e = (b + k) % Entries

(* A packet may have any place behind what is sent and queued.             *)
Free(p, o, q, f) == p.id \in f /\ Under(o, p, f) /\ Under(q, p, f)

(* What the loop does not come by again is free.                           *)
Loose(r, b, l, o, q, f, s) ==
    \A e \in Index : r[e] # None => ToClear(e, b, l) \/ (s /\ Free(r[e], o, q, f))

(* Where the loop may be under way; a reset has set the pointers before it *)
Window ==
    /\ left > 0 => pc \in {"create", "rearm", "retune", "hop"}
    /\ Rewriting /\ ~slipped /\ pc # "create" => cur = 0 /\ rd = 0

PathInv ==
    /\ Types /\ Window
    /\ Ordered(out, queue, air, astray)
    /\ Legible => Lined(ring, rd, cur, out, queue, air, astray)
    /\ ~Legible => Loose(ring, at, left, out, queue, astray, slipped)

(* An empty ring is lined up.                                              *)
LEMMA EmptyLined ==
    ASSUME NEW o, NEW q, NEW a, NEW f
    PROVE  Lined([i \in Index |-> None], 0, 0, o, q, a, f) /\ 0 \in Index
<1>1. Follows(<<>>, o, q, a, f)
  BY DEF Follows, Rising, Below, UpTo
<1>2. <<>> \in Seq(Packets)
  BY EmptySeq
<1> QED BY <1>1, <1>2, LineReset DEF Lined

(* Nothing is stored yet, and the ring is lined up.                        *)
LEMMA PathInit == Init => PathInv
<1> SUFFICES ASSUME Init PROVE PathInv
  OBVIOUS
<1>1. ring = [i \in Index |-> None] /\ cur = 0 /\ rd = 0 /\ at = 0 /\ left = 0 /\ pc = "idle"
      /\ ~slipped
  BY DEF Init
<1>2. queue = <<>> /\ out = <<>> /\ air = 0 /\ rspSeq = 0 /\ astray = {}
  BY DEF Init
<1>3. Lined(ring, rd, cur, out, queue, air, astray) /\ 0 \in Index
  BY <1>1, EmptyLined
<1>4. Types
  <2>1. ring \in [Index -> Packets \cup {None}] /\ left \in 0 .. Entries /\ air \in 0 .. MaxAir
    BY <1>1, <1>2, RxAssumption
  <2> QED BY <1>1, <1>2, <1>3, <2>1 DEF Types
<1>5. Ordered(<<>>, <<>>, 0, {})
  BY DEF Ordered, Rising, Below, UpTo
<1>6. Window /\ Legible
  BY <1>1 DEF Window, Legible, Rewriting
<1> QED BY <1>2, <1>3, <1>4, <1>5, <1>6 DEF PathInv

(* A loop of Entries rounds comes by every entry, wherever it begins.      *)
LEMMA AllToClear == ASSUME NEW b \in Index, NEW e \in Index PROVE ToClear(e, b, Entries)
<1> USE RxAssumption
<1>1. CASE b <= e
  <2>1. e - b \in 0 .. Entries - 1 /\ b + (e - b) = e /\ e \in 0 .. 2 * Entries - 1 /\ e < Entries
    BY <1>1 DEF Index
  <2>2. e = (b + (e - b)) % Entries
    BY <2>1, WrapIs
  <2> QED BY <2>1, <2>2 DEF ToClear
<1>2. CASE b > e
  <2>1. /\ (e - b) + Entries \in 0 .. Entries - 1 /\ b + ((e - b) + Entries) = e + Entries
        /\ e + Entries \in 0 .. 2 * Entries - 1 /\ ~(e + Entries < Entries)
        /\ (e + Entries) - Entries = e
    BY <1>2 DEF Index
  <2>2. e = (b + ((e - b) + Entries)) % Entries
    BY <2>1, WrapIs
  <2> QED BY <2>1, <2>2 DEF ToClear
<1> QED BY <1>1, <1>2 DEF Index

(* A round clears the first of them.                                       *)
LEMMA RoundClears ==
    ASSUME NEW b \in Index, NEW l \in 1 .. Entries, NEW e \in Index, ToClear(e, b, l), e # b
    PROVE  l # 1 /\ ToClear(e, Next1(b), l - 1)
<1>1. PICK k \in 0 .. l - 1 : e = (b + k) % Entries
  BY DEF ToClear
<1>2. k # 0
  BY <1>1, PlaceZero
<1>3. k - 1 \in 0 .. (l - 1) - 1 /\ k - 1 \in Index /\ (k - 1) + 1 = k /\ l # 1
  BY <1>2, RxAssumption DEF Index
<1>4. (Next1(b) + (k - 1)) % Entries = (b + k) % Entries
  BY <1>3, PlaceNext
<1> QED BY <1>1, <1>3, <1>4 DEF ToClear

(* No round is left of a loop without any.                                 *)
LEMMA NothingToClear == \A e, b : ~ToClear(e, b, 0)
BY DEF ToClear

(* When the loop is over and nothing was stored, the ring is empty.        *)
LEMMA ClearedIsEmpty ==
    ASSUME NEW r \in [Index -> Packets \cup {None}], NEW b, NEW o, NEW q, NEW f,
           Loose(r, b, 0, o, q, f, FALSE)
    PROVE  r = [i \in Index |-> None]
<1>1. \A e \in Index : r[e] = None
  BY NothingToClear DEF Loose
<1> QED BY <1>1

(* What begins to rewrite the ring makes it loose.                         *)
LEMMA BeginKeepsInv ==
    ASSUME PathInv, Types', left' = Entries, slipped' = FALSE,
           pc' = "create" \/ (pc' \in {"rearm", "retune", "hop"} /\ cur' = 0 /\ rd' = 0),
           queue' = queue \/ queue' = <<>>, UNCHANGED <<ring, out, air, astray>>
    PROVE  PathInv'
<1>1. left' > 0
  BY RxAssumption
<1>2. ~Legible' /\ Window'
  BY <1>1 DEF Legible, Rewriting, Window
<1>3. Loose(ring', at', left', out', queue', astray', slipped')
  BY AllToClear DEF Loose, Types
<1>4. Ordered(out', queue', air', astray')
  BY DEF PathInv, Ordered, Rising, Below, UpTo
<1> QED BY <1>2, <1>3, <1>4 DEF PathInv

(* A round of the loop.                                                    *)
LEMMA ClearKeepsInv == ASSUME PathInv, ClearEntry PROVE PathInv'
<1>1. /\ left \in 1 .. Entries /\ left' = left - 1 /\ ring' = [ring EXCEPT ![at] = None]
      /\ at' = IF left = 1 THEN 0 ELSE Next1(at)
      /\ UNCHANGED <<cur, rd, pc, slipped, astray, queue, out, rspSeq, air>>
  BY RxAssumption DEF ClearEntry, host, PathInv, Types
<1>2. ring \in [Index -> Packets \cup {None}] /\ at \in Index
  BY DEF PathInv, Types
<1>3. Types'
  <2>1. ring' \in [Index -> Packets \cup {None}]
    BY <1>1, <1>2
  <2>2. at' \in Index
    <3>1. 0 \in Index
      BY RxAssumption DEF Index
    <3> QED BY <1>1, <1>2, <3>1, PlaceNext
  <2>3. left' \in 0 .. Entries
    BY <1>1, RxAssumption
  <2> QED BY <1>1, <2>1, <2>2, <2>3 DEF PathInv, Types
<1>4. ~Legible /\ Loose(ring, at, left, out, queue, astray, slipped)
  BY <1>1 DEF Legible, Rewriting, PathInv
<1>5. Loose(ring', at', left', out', queue', astray', slipped')
  <2> SUFFICES ASSUME NEW e \in Index, ring'[e] # None
               PROVE  ToClear(e, at', left') \/ (slipped' /\ Free(ring'[e], out', queue', astray'))
    BY DEF Loose
  <2>1. e # at /\ ring'[e] = ring[e]
    BY <1>1, <1>2
  <2>2. ToClear(e, at, left) => ToClear(e, at', left')
    BY <1>1, <1>2, <2>1, RoundClears
  <2> QED BY <1>1, <1>4, <2>1, <2>2 DEF Loose
<1>6. Window'
  BY <1>1 DEF PathInv, Window, Rewriting
<1>7. ASSUME Legible' PROVE Lined(ring', rd', cur', out', queue', air', astray')
  <2>1. ~slipped /\ ~slipped' /\ left' = 0 /\ pc # "create"
    BY <1>1, <1>7 DEF Legible, Rewriting
  <2>2. cur' = 0 /\ rd' = 0
    BY <1>1, <2>1 DEF PathInv, Window, Rewriting
  <2>3. Loose(ring', at', 0, out', queue', astray', FALSE)
    BY <1>5, <2>1 DEF Loose
  <2>4. ring' = [i \in Index |-> None]
    <3>1. ring' \in [Index -> Packets \cup {None}]
      BY <1>3 DEF Types
    <3> QED BY <2>3, <3>1, ClearedIsEmpty
  <2> QED BY <2>2, <2>4, EmptyLined
<1>8. Ordered(out', queue', air', astray')
  BY <1>1 DEF PathInv
<1> QED BY <1>3, <1>5, <1>6, <1>7, <1>8 DEF PathInv

(* The pointers are put to the ring that was made anew.                    *)
LEMMA CreatedKeepsInv == ASSUME PathInv, Created PROVE PathInv'
<1>1. /\ pc = "create" /\ left = 0 /\ cur' = 0 /\ rd' = 0 /\ pc' = "post"
      /\ UNCHANGED <<ring, at, left, slipped, astray, queue, out, rspSeq, air>>
  BY DEF Created, host, history
<1>2. Loose(ring, at, left, out, queue, astray, slipped)
  BY <1>1 DEF Legible, Rewriting, PathInv
<1>3. ring \in [Index -> Packets \cup {None}] /\ 0 \in Index
  BY EmptyLined DEF PathInv, Types
<1>4. Types'
  BY <1>1, <1>3 DEF PathInv, Types
<1>5. Window'
  BY <1>1, RxAssumption DEF Window
<1>6. Loose(ring', at', left', out', queue', astray', slipped')
  BY <1>1, <1>2
<1>7. ASSUME Legible' PROVE Lined(ring', rd', cur', out', queue', air', astray')
  <2>1. ~slipped
    BY <1>1, <1>7 DEF Legible
  <2>2. Loose(ring, at, 0, out, queue, astray, FALSE)
    BY <1>1, <1>2, <2>1 DEF Loose
  <2>3. ring = [i \in Index |-> None]
    BY <1>3, <2>2, ClearedIsEmpty
  <2> QED BY <1>1, <2>3, EmptyLined
<1>8. Ordered(out', queue', air', astray')
  BY <1>1 DEF PathInv
<1> QED BY <1>4, <1>5, <1>6, <1>7, <1>8 DEF PathInv

(* The end of reception empties the ring.                                  *)
LEMMA StopKeepsInv ==
    ASSUME PathInv, pc = "idle", pc' = pc, StopBackend, queue' = queue \/ queue' = <<>>,
           UNCHANGED <<at, left, out, rspSeq, air, astray>>
    PROVE  PathInv'
<1>1. ring' = [i \in Index |-> None] /\ cur' = 0 /\ rd' = 0 /\ ~slipped'
  BY DEF StopBackend
<1>2. Lined(ring', rd', cur', out', queue', air', astray') /\ 0 \in Index
  BY <1>1, EmptyLined
<1>3. left = 0
  BY DEF PathInv, Window, Types
<1>4. Legible' /\ Window'
  BY <1>1, <1>3 DEF Legible, Rewriting, Window
<1>5. Types'
  <2>1. queue' \in Seq(Packets)
    <3>1. queue \in Seq(Packets) /\ <<>> \in Seq(Packets)
      BY DEF PathInv, Types
    <3> QED BY <3>1
  <2> QED BY <1>1, <1>2, <2>1 DEF PathInv, Types
<1>6. Ordered(out', queue', air', astray')
  BY DEF PathInv, Ordered, Rising, Below, UpTo
<1> QED BY <1>2, <1>4, <1>5, <1>6 DEF PathInv

(* The core stores a packet.                                               *)
LEMMA StoreKeepsInv == ASSUME PathInv, Store PROVE PathInv'
<1> DEFINE p == [id |-> air + 1]
<1>1. /\ ring[cur] = None /\ ring' = [ring EXCEPT ![cur] = p] /\ cur' = Next1(cur)
      /\ air' = air + 1 /\ UNCHANGED <<rd, at, left, pc, queue, out, rspSeq>>
  BY DEF Store, host
<1>2. /\ slipped' = (slipped \/ Rewriting)
      /\ astray' = IF slipped' THEN astray \cup {air + 1} ELSE astray
  BY DEF Store
<1>3. p \in Packets /\ p.id = air + 1 /\ air \in Nat /\ air' \in 0 .. MaxAir
  <2>1. air + 1 \in 1 .. MaxAir /\ air \in Nat
    BY RxAssumption DEF Store, PathInv, Types
  <2> QED BY <1>1, <2>1 DEF Packets
<1>4. ring \in [Index -> Packets \cup {None}] /\ cur \in Index /\ astray \in SUBSET (1 .. air)
  BY DEF PathInv, Types
<1> HIDE DEF p
<1>5. Types'
  <2>1. cur' \in Index
    <3>1. 0 \in Index /\ (cur + 0) % Entries = cur
      BY <1>4, RxAssumption, PlaceZero DEF Index
    <3> QED BY <1>1, <1>4, <3>1, PlaceNext
  <2>2. ring' \in [Index -> Packets \cup {None}]
    BY <1>1, <1>3, <1>4
  <2>3. astray' \in SUBSET (1 .. air')
    <3>1. 1 .. air \subseteq 1 .. air' /\ air + 1 \in 1 .. air'
      BY <1>1, <1>3
    <3> QED BY <1>2, <1>4, <3>1
  <2> QED BY <1>1, <1>3, <2>1, <2>2, <2>3 DEF PathInv, Types
<1>6. Ordered(out', queue', air', astray')
  <2>1. astray \subseteq astray'
    BY <1>2
  <2>2. Ordered(out, queue, air, astray)
    BY DEF PathInv
  <2>3. Ordered(out, queue, air + 1, astray')
    BY <1>3, <2>1, <2>2, OrderWidens
  <2> QED BY <1>1, <2>3
<1>7. Rewriting' <=> Rewriting
  BY <1>1 DEF Rewriting
<1>8. Window'
  <2>1. left' > 0 => pc' \in {"create", "rearm", "retune", "hop"}
    BY <1>1 DEF PathInv, Window
  <2>2. Rewriting' => slipped'
    BY <1>2, <1>7
  <2> QED BY <2>1, <2>2 DEF Window
<1>9. ASSUME Legible' PROVE Lined(ring', rd', cur', out', queue', air', astray')
  <2>1. ~slipped' /\ Legible /\ astray' = astray
    BY <1>2, <1>7, <1>9 DEF Legible
  <2>2. /\ cur = (rd + Count(ring)) % Entries /\ LineOf(ring, rd) \in Seq(Packets)
        /\ Follows(LineOf(ring, rd), out, queue, air, astray)
    BY <2>1 DEF PathInv, Lined
  <2>3. /\ LineOf([ring EXCEPT ![cur] = p], rd) = Append(LineOf(ring, rd), p)
        /\ Next1(cur) = (rd + Count([ring EXCEPT ![cur] = p])) % Entries
    BY <1>1, <1>3, <1>4, <2>2, LineStored DEF PathInv, Types
  <2>4. Append(LineOf(ring, rd), p) \in Seq(Packets)
    BY <1>3, <2>2, AppendProperties
  <2>5. out \in Seq(Frame) /\ queue \in Seq(Packets) /\ Ordered(out, queue, air, astray)
    BY DEF PathInv, Types
  <2>6. Follows(Append(LineOf(ring, rd), p), out, queue, air + 1, astray)
    BY <1>3, <2>2, <2>5, StoredKeepsOrder
  <2> QED BY <1>1, <2>1, <2>3, <2>4, <2>6 DEF Lined
<1>10. ASSUME ~Legible' PROVE Loose(ring', at', left', out', queue', astray', slipped')
  <2>1. slipped' /\ ~Legible /\ astray' = astray \cup {air + 1}
    BY <1>2, <1>7, <1>10 DEF Legible
  <2>2. Loose(ring, at, left, out, queue, astray, slipped)
    BY <2>1 DEF PathInv
  <2>3. Free(p, out, queue, astray')
    <3>1. UpTo(out, air) /\ UpTo(queue, air)
      BY DEF PathInv, Ordered
    <3>2. Under(out, p, astray') /\ Under(queue, p, astray')
      BY <1>3, <3>1, NewestIsAbove
    <3> QED BY <1>3, <2>1, <3>2 DEF Free
  <2> SUFFICES ASSUME NEW e \in Index, ring'[e] # None
               PROVE  ToClear(e, at', left') \/ (slipped' /\ Free(ring'[e], out', queue', astray'))
    BY DEF Loose
  <2>4. CASE e = cur
    <3>1. ring'[e] = p
      BY <1>1, <1>4, <2>4
    <3> QED BY <1>1, <2>1, <2>3, <3>1
  <2>5. CASE e # cur
    <3>1. ring'[e] = ring[e]
      BY <1>1, <1>4, <2>5
    <3>2. ToClear(e, at, left) \/ Free(ring[e], out, queue, astray)
      BY <2>2, <3>1 DEF Loose
    <3>3. Free(ring[e], out, queue, astray) => Free(ring[e], out, queue, astray')
      BY <2>1, UnderWidens DEF Free
    <3> QED BY <1>1, <2>1, <3>1, <3>2, <3>3
  <2> QED BY <2>4, <2>5
<1> QED BY <1>5, <1>6, <1>8, <1>9, <1>10 DEF PathInv

(* The poll takes a packet out of the ring: the oldest, if the ring is     *)
(* lined up, and any that is free otherwise.                               *)
LEMMA ProcessKeepsInv == ASSUME PathInv, Apart(ring), Process PROVE PathInv'
<1> DEFINE x == ring[rd]
<1>1. /\ pc = "entries" /\ x # None /\ ring' = [ring EXCEPT ![rd] = None] /\ rd' = Next1(rd)
      /\ queue' = queue \/ queue' = Append(queue, x)
      /\ UNCHANGED <<cur, at, left, slipped, pc, out, rspSeq, air, astray>>
  BY DEF Process, HasPacket, history
<1>2. /\ ring \in [Index -> Packets \cup {None}] /\ rd \in Index /\ queue \in Seq(Packets)
      /\ out \in Seq(Frame) /\ Ordered(out, queue, air, astray)
  BY DEF PathInv, Types
<1>3. left = 0 /\ ~Rewriting /\ ~Rewriting'
  BY <1>1 DEF PathInv, Window, Types, Rewriting
<1>4. x \in Packets
  BY <1>1, <1>2
<1> HIDE DEF x
<1>5. Types'
  <2>1. rd' \in Index
    <3>1. 0 \in Index /\ (rd + 0) % Entries = rd
      BY <1>2, RxAssumption, PlaceZero DEF Index
    <3> QED BY <1>1, <1>2, <3>1, PlaceNext
  <2>2. ring' \in [Index -> Packets \cup {None}]
    BY <1>1, <1>2
  <2>3. queue' \in Seq(Packets)
    BY <1>1, <1>2, <1>4, AppendProperties
  <2> QED BY <1>1, <2>1, <2>2, <2>3 DEF PathInv, Types
<1>6. Window'
  BY <1>1, <1>3 DEF Window
<1>7. CASE Legible
  <2> DEFINE a == LineOf(ring, rd)
  <2>1. a \in Seq(Packets) /\ Follows(a, out, queue, air, astray)
        /\ cur = (rd + Count(ring)) % Entries
    BY <1>7 DEF PathInv, Lined
  <2>2. /\ a # <<>> /\ Head(a) = x
        /\ LineOf(ring', rd') = Tail(a)
        /\ cur' = (rd' + Count(ring')) % Entries
    BY <1>1, <1>2, <2>1, LineTaken DEF x
  <2> HIDE DEF a
  <2>3. Tail(a) \in Seq(Packets)
    BY <2>1, <2>2, HeadTailProperties
  <2>4. /\ Follows(Tail(a), out, queue, air, astray)
        /\ Ordered(out, Append(queue, Head(a)), air, astray)
        /\ Follows(Tail(a), out, Append(queue, Head(a)), air, astray)
    BY <1>2, <2>1, <2>2, TakenKeepsOrder
  <2>5. Legible' /\ Ordered(out', queue', air', astray')
        /\ Follows(Tail(a), out', queue', air', astray')
    BY <1>1, <1>2, <1>3, <1>7, <2>2, <2>4 DEF Legible
  <2>6. Lined(ring', rd', cur', out', queue', air', astray')
    BY <2>2, <2>3, <2>5 DEF Lined
  <2> QED BY <1>5, <1>6, <2>5, <2>6 DEF PathInv
<1>8. CASE ~Legible
  <2>1. slipped /\ slipped' /\ ~Legible' /\ Loose(ring, at, 0, out, queue, astray, slipped)
    BY <1>1, <1>3, <1>8 DEF Legible, PathInv
  <2>2. \A e \in Index : ring[e] # None => Free(ring[e], out, queue, astray)
    BY <2>1, NothingToClear DEF Loose
  <2>3. Free(x, out, queue, astray)
    BY <1>1, <1>2, <2>2 DEF x
  <2>4. x.id \in 1 .. air
    BY <2>3 DEF Free, PathInv, Types
  <2>5. Ordered(out, Append(queue, x), air, astray)
    BY <1>2, <1>4, <2>3, <2>4, QueuedKeepsOrder DEF Free
  <2>6. Ordered(out', queue', air', astray')
    BY <1>1, <1>2, <2>5
  <2>7. ASSUME NEW e \in Index, ring'[e] # None PROVE Free(ring'[e], out', queue', astray')
    <3>1. e # rd /\ ring'[e] = ring[e] /\ ring[e] # None
      BY <1>1, <1>2, <2>7
    <3>2. Free(ring[e], out, queue, astray)
      BY <2>2, <3>1
    <3>3. ring[e].id # x.id
      BY <1>1, <1>2, <3>1 DEF Apart, Finished, x
    <3>4. Before(x, ring[e], astray)
      BY <2>3, <3>2, <3>3 DEF Free, Before, Prec
    <3>5. Under(Append(queue, x), ring[e], astray)
      BY <1>2, <1>4, <3>2, <3>4, AppendKeepsBelow DEF Free
    <3>6. ring[e].id \in astray /\ Under(out, ring[e], astray) /\ Under(queue', ring[e], astray)
      BY <1>1, <3>2, <3>5 DEF Free
    <3>7. Free(ring[e], out, queue', astray)
      BY <3>6 DEF Free
    <3> QED BY <1>1, <3>1, <3>7
  <2>8. Loose(ring', at', left', out', queue', astray', slipped')
    BY <2>1, <2>7 DEF Loose
  <2> QED BY <1>5, <1>6, <2>1, <2>6, <2>8 DEF PathInv
<1> QED BY <1>7, <1>8

(* A queued packet is sent or refused.                                     *)
LEMMA DeliverKeepsInv == ASSUME PathInv, Deliver PROVE PathInv'
<1> DEFINE h == Head(queue)
           x == [id |-> h.id, seq |-> rspSeq]
<1>1. /\ queue # <<>> /\ queue' = Tail(queue)
      /\ UNCHANGED <<ring, cur, rd, at, left, slipped, pc, air, astray>>
  BY DEF Deliver, core, loop, history
<1>2. \/ out' = Append(out, x) /\ rspSeq' = NextSeq
      \/ out' = out /\ rspSeq' = rspSeq
  BY DEF Deliver, Emit, Refuse
<1>3. h \in Packets /\ Tail(queue) \in Seq(Packets)
  BY <1>1, HeadTailProperties DEF PathInv, Types
<1>4. x \in Frame /\ x.id = h.id
  BY <1>3 DEF Frame, Packets, PathInv, Types
<1>9. out \in Seq(Frame) /\ queue \in Seq(Packets) /\ rspSeq \in Nat
      /\ Ordered(out, queue, air, astray)
  BY DEF PathInv, Types
<1>5. out' \in Seq(Frame) /\ rspSeq' \in Nat
  <2>1. NextSeq \in Nat
    BY <1>9 DEF NextSeq
  <2> HIDE DEF x
  <2>2. Append(out, x) \in Seq(Frame)
    BY <1>9, <1>4, AppendProperties
  <2> QED BY <1>9, <1>2, <2>1, <2>2
<1>6. Types'
  BY <1>1, <1>3, <1>5 DEF PathInv, Types
<1> HIDE DEF x
<1>7. /\ Ordered(out, Tail(queue), air, astray)
      /\ Ordered(Append(out, x), Tail(queue), air, astray)
      /\ \A u : Follows(u, out, queue, air, astray) =>
            /\ Follows(u, out, Tail(queue), air, astray)
            /\ Follows(u, Append(out, x), Tail(queue), air, astray)
      /\ \A p : Under(out, p, astray) /\ Under(queue, p, astray) =>
            Under(Tail(queue), p, astray) /\ Under(Append(out, x), p, astray)
  <2>1. x.id = Head(queue).id /\ x \in Frame
    BY <1>4
  <2> QED BY <1>1, <1>9, <2>1, DeliveredKeepsOrder
<1>8. Ordered(out', queue', air', astray')
  BY <1>1, <1>2, <1>7
<1>10. /\ Window' /\ Legible' = Legible
  BY <1>1 DEF PathInv, Window, Legible, Rewriting
<1>11. ASSUME Legible PROVE Lined(ring', rd', cur', out', queue', air', astray')
  BY <1>1, <1>2, <1>7, <1>11 DEF Lined, PathInv
<1>12. ASSUME ~Legible PROVE Loose(ring', at', left', out', queue', astray', slipped')
  <2>1. Loose(ring, at, left, out, queue, astray, slipped)
    BY <1>12 DEF PathInv
  <2>2. \A p : Free(p, out, queue, astray) => Free(p, out', queue', astray')
    BY <1>1, <1>2, <1>7 DEF Free
  <2> QED BY <1>1, <2>1, <2>2 DEF Loose
<1> QED BY <1>6, <1>8, <1>10, <1>11, <1>12 DEF PathInv

(* Everything else leaves the packets alone, and rewrites nothing.         *)
LEMMA OtherKeepsInv ==
    ASSUME PathInv, Window', Rewriting' = Rewriting,
           UNCHANGED <<ring, cur, loop, queue, out, rspSeq, air, astray>>
    PROVE  PathInv'
<1>1. Types' /\ Ordered(out', queue', air', astray')
  BY DEF PathInv, Types, loop
<1>2. Legible' = Legible
  BY DEF Legible, loop
<1>3. /\ Legible => Lined(ring', rd', cur', out', queue', air', astray')
      /\ ~Legible => Loose(ring', at', left', out', queue', astray', slipped')
  BY DEF PathInv, loop
<1> QED BY <1>1, <1>2, <1>3 DEF PathInv

(* Every step keeps the invariant, of a ring whose packets differ.         *)
LEMMA PathStep == PathInv /\ Apart(ring) /\ [Next]_vars => PathInv'
<1> SUFFICES ASSUME PathInv, Apart(ring), [Next]_vars PROVE PathInv'
  OBVIOUS
<1>1. CASE Store
  BY <1>1, StoreKeepsInv
<1>2. CASE Process
  BY <1>2, ProcessKeepsInv
<1>3. CASE Deliver
  BY <1>3, DeliverKeepsInv
<1>4. CASE ClearEntry
  BY <1>4, ClearKeepsInv
<1>5. CASE Created
  BY <1>5, CreatedKeepsInv
<1>6. CASE StopRx \/ SetPhy
  BY <1>6, StopKeepsInv DEF StopRx, SetPhy, host
<1>7. CASE StartRx \/ SetChannel \/ Overflow \/ Hop
  <2>1. /\ left' = Entries /\ slipped' = FALSE
        /\ pc' = "create" \/ (pc' \in {"rearm", "retune", "hop"} /\ cur' = 0 /\ rd' = 0)
        /\ queue' = queue \/ queue' = <<>>
        /\ UNCHANGED <<ring, out, rspSeq, air, astray>>
    BY <1>7 DEF StartRx, SetChannel, Overflow, Hop, ResetRfDataQueue, core, host, history
  <2>2. 0 \in Index
    BY RxAssumption DEF Index
  <2>3. cur' \in Index /\ rd' \in Index /\ at' \in Index
    BY <1>7, <2>2 DEF StartRx, SetChannel, Overflow, Hop, ResetRfDataQueue, core, PathInv, Types
  <2>4. queue' \in Seq(Packets) /\ left' \in 0 .. Entries
    <3>1. queue \in Seq(Packets) /\ <<>> \in Seq(Packets)
      BY DEF PathInv, Types
    <3>2. Entries \in 0 .. Entries
      BY RxAssumption
    <3> QED BY <2>1, <3>1, <3>2
  <2>5. Types'
    BY <2>1, <2>3, <2>4 DEF PathInv, Types
  <2> QED BY <2>1, <2>5, BeginKeepsInv
<1>8. CASE Retuned \/ Rearm \/ Hopped
  <2>1. /\ left = 0 /\ pc # "create" /\ pc' # "create"
        /\ UNCHANGED <<ring, cur, loop, queue, out, rspSeq, air, astray>>
    BY <1>8 DEF Retuned, Rearm, Hopped, host
  <2>2. Rewriting' = Rewriting /\ Window'
    BY <2>1 DEF Rewriting, Window, loop
  <2> QED BY <2>1, <2>2, OtherKeepsInv
<1>9. CASE PostRx \/ StartedRx \/ PollRead \/ PollOff \/ PollClear \/ EntriesDone \/ Stay
           \/ EndPoll
  <2>1. /\ pc \in {"post", "start", "idle", "clear", "entries", "turn", "drain"}
        /\ pc' # "create"
        /\ UNCHANGED <<ring, cur, loop, queue, out, rspSeq, air, astray>>
    BY <1>9 DEF PostRx, StartedRx, PollRead, PollOff, PollClear, EntriesDone, Stay, EndPoll,
                core, host, history
  <2>2. left = 0
    BY <2>1 DEF PathInv, Window, Types
  <2>3. Rewriting' = Rewriting /\ Window'
    BY <2>1, <2>2 DEF Rewriting, Window, loop
  <2> QED BY <2>1, <2>3, OtherKeepsInv
<1>10. CASE BufferFull \/ UNCHANGED vars
  <2>1. /\ pc' = pc
        /\ UNCHANGED <<ring, cur, loop, queue, out, rspSeq, air, astray>>
    BY <1>10 DEF BufferFull, vars, core, loop, host, history
  <2>2. Rewriting' = Rewriting /\ Window'
    BY <2>1 DEF PathInv, Rewriting, Window, loop
  <2> QED BY <2>1, <2>2, OtherKeepsInv
<1> QED
  BY <1>1, <1>2, <1>3, <1>4, <1>5, <1>6, <1>7, <1>8, <1>9, <1>10 DEF Next, Poll, Command

-----------------------------------------------------------------------------
(* The order of what is sent, queued and held.                             *)

(* The numbers of a sequence of packets are a sequence of numbers.         *)
LEMMA NumbersAreSeq ==
    ASSUME NEW T, NEW s \in Seq(T), \A i \in DOMAIN s : s[i].id \in Nat
    PROVE  /\ [i \in DOMAIN s |-> s[i].id] \in Seq(Nat)
           /\ Len([i \in DOMAIN s |-> s[i].id]) = Len(s)
           /\ \A i \in 1 .. Len(s) : [j \in DOMAIN s |-> s[j].id][i] = s[i].id
<1>1. Len(s) \in Nat /\ DOMAIN s = 1 .. Len(s)
  OBVIOUS
<1> QED BY <1>1

(* Two rising parts, the first below the second, rise as one.              *)
LEMMA ConcatRises ==
    ASSUME NEW x \in Seq(Nat), NEW y \in Seq(Nat), NEW f,
           \A i, j \in DOMAIN x : i < j => Prec(x[i], x[j], f),
           \A i, j \in DOMAIN y : i < j => Prec(y[i], y[j], f),
           \A i \in DOMAIN x, j \in DOMAIN y : Prec(x[i], y[j], f)
    PROVE  /\ x \o y \in Seq(Nat)
           /\ \A i, j \in DOMAIN (x \o y) : i < j => Prec((x \o y)[i], (x \o y)[j], f)
           /\ \A i \in DOMAIN (x \o y) :
                 \/ \E j \in DOMAIN x : (x \o y)[i] = x[j]
                 \/ \E j \in DOMAIN y : (x \o y)[i] = y[j]
<1> DEFINE z == x \o y
<1>1. z \in Seq(Nat) /\ Len(z) = Len(x) + Len(y)
  BY ConcatProperties
<1>2. \A i \in 1 .. Len(x) + Len(y) : z[i] = IF i <= Len(x) THEN x[i] ELSE y[i - Len(x)]
  BY ConcatProperties
<1>3. /\ Len(x) \in Nat /\ DOMAIN x = 1 .. Len(x)
      /\ Len(y) \in Nat /\ DOMAIN y = 1 .. Len(y)
      /\ DOMAIN z = 1 .. Len(x) + Len(y)
  <2>1. DOMAIN z = 1 .. Len(z)
    BY <1>1, LenProperties
  <2> QED BY <1>1, <2>1, LenProperties
<1> HIDE DEF z
<1>4. ASSUME NEW i \in DOMAIN z
      PROVE  \/ i \in DOMAIN x /\ z[i] = x[i]
             \/ i > Len(x) /\ i - Len(x) \in DOMAIN y /\ z[i] = y[i - Len(x)]
  <2>1. CASE i <= Len(x)
    BY <1>2, <1>3, <2>1
  <2>2. CASE i > Len(x)
    BY <1>2, <1>3, <2>2
  <2> QED BY <1>3, <2>1, <2>2
<1>5. ASSUME NEW i \in DOMAIN z, NEW j \in DOMAIN z, i < j PROVE Prec(z[i], z[j], f)
  <2>1. CASE j <= Len(x)
    BY <1>3, <1>4, <1>5, <2>1
  <2>2. CASE j > Len(x)
    <3>1. j - Len(x) \in DOMAIN y /\ z[j] = y[j - Len(x)]
      BY <1>3, <1>4, <2>2
    <3>2. CASE i \in DOMAIN x /\ z[i] = x[i]
      BY <3>1, <3>2
    <3>3. CASE i - Len(x) \in DOMAIN y /\ z[i] = y[i - Len(x)]
      <4>1. i - Len(x) < j - Len(x)
        BY <1>3, <1>5
      <4> QED BY <3>1, <3>3, <4>1
    <3> QED BY <1>4, <3>2, <3>3
  <2> QED BY <1>3, <2>1, <2>2
<1>6. \A i \in DOMAIN z : \/ \E j \in DOMAIN x : z[i] = x[j]
                          \/ \E j \in DOMAIN y : z[i] = y[j]
  BY <1>4
<1> QED BY <1>1, <1>5, <1>6 DEF z

(* What is sent and queued, and behind it what the ring holds if it can be *)
(* read.                                                                   *)
LEMMA PathInOrder == PathInv => InOrder
<1> SUFFICES ASSUME PathInv PROVE InOrder
  OBVIOUS
<1> DEFINE h == IF Legible THEN LineOf(ring, rd) ELSE <<>>
           x == [i \in DOMAIN out |-> out[i].id]
           y == [i \in DOMAIN queue |-> queue[i].id]
           z == [i \in DOMAIN h |-> h[i].id]
<1>1. Fill = Count(ring) /\ Fill \in 0 .. Entries
  BY FillIs, FillRange DEF Count
<1>2. h \in Seq(Packets) /\ Follows(h, out, queue, air, astray)
  <2>1. CASE Legible
    BY <2>1 DEF PathInv, Lined
  <2>2. CASE ~Legible
    <3>1. h = <<>> /\ <<>> \in Seq(Packets)
      BY <2>2, EmptySeq
    <3>2. Follows(<<>>, out, queue, air, astray)
      BY DEF Follows, Rising, Below, UpTo
    <3> QED BY <3>1, <3>2
  <2> QED BY <2>1, <2>2
<1>3. ASSUME Legible, NEW k \in 1 .. Fill
      PROVE  /\ ring[(rd + k - 1) % Entries] = h[k]
             /\ h[k] \in Packets
  <2>1. rd + k - 1 = rd + (k - 1)
    BY <1>1 DEF PathInv, Types, Index
  <2>2. h[k] = ring[(rd + (k - 1)) % Entries] /\ k \in DOMAIN h
    BY <1>1, <1>3 DEF LineOf
  <2>3. h[k] \in Packets
    <3> HIDE DEF h
    <3> QED BY <1>2, <2>2, PartOf
  <2> QED BY <2>1, <2>2, <2>3
<1>4. Legible => RingInStep
  <2>1. Legible => cur = (rd + Fill) % Entries
    BY <1>1 DEF PathInv, Lined
  <2>2. Legible => \A k \in 1 .. Fill : ring[(rd + k - 1) % Entries] # None
    BY <1>3, NoneAssumption
  <2> QED BY <2>1, <2>2 DEF RingInStep
<1>5. (IF Legible THEN RingIds ELSE <<>>) = z
  <2>1. CASE Legible
    <3>1. \A k \in 1 .. Fill : (IF ring[(rd + k - 1) % Entries] = None THEN 0
                                ELSE ring[(rd + k - 1) % Entries].id) = h[k].id
      BY <1>3, <2>1, NoneAssumption
    <3>2. DOMAIN h = 1 .. Fill
      BY <1>1, <2>1 DEF LineOf
    <3> HIDE DEF h
    <3> QED BY <2>1, <3>1, <3>2 DEF RingIds
  <2>2. CASE ~Legible
    <3>1. h = <<>>
      BY <2>2
    <3> HIDE DEF h
    <3>2. z = <<>>
      BY <3>1
    <3> HIDE DEF z
    <3> QED BY <2>2, <3>2
  <2> QED BY <2>1, <2>2
<1>6. /\ out \in Seq(Frame) /\ queue \in Seq(Packets) /\ Ordered(out, queue, air, astray)
  BY DEF PathInv, Types
<1> HIDE DEF h
<1>7. /\ \A i \in DOMAIN out : out[i].id \in Nat
      /\ \A i \in DOMAIN queue : queue[i].id \in Nat
      /\ \A i \in DOMAIN h : h[i].id \in Nat
  BY <1>2, <1>6 DEF Ordered, Follows, UpTo
<1>8. x \in Seq(Nat) /\ y \in Seq(Nat) /\ z \in Seq(Nat)
  BY <1>2, <1>6, <1>7, NumbersAreSeq
<1>9. /\ \A i, j \in DOMAIN x : i < j => Prec(x[i], x[j], astray)
      /\ \A i, j \in DOMAIN y : i < j => Prec(y[i], y[j], astray)
      /\ \A i, j \in DOMAIN z : i < j => Prec(z[i], z[j], astray)
      /\ \A i \in DOMAIN x, j \in DOMAIN y : Prec(x[i], y[j], astray)
      /\ \A i \in DOMAIN x, j \in DOMAIN z : Prec(x[i], z[j], astray)
      /\ \A i \in DOMAIN y, j \in DOMAIN z : Prec(y[i], z[j], astray)
  BY <1>2, <1>6 DEF Ordered, Follows, Rising, Below, Before
<1> HIDE DEF x, y, z
<1> DEFINE v == x \o y
<1>10. /\ v \in Seq(Nat)
       /\ \A i, j \in DOMAIN v : i < j => Prec(v[i], v[j], astray)
       /\ \A i \in DOMAIN v, j \in DOMAIN z : Prec(v[i], z[j], astray)
  <2>1. /\ v \in Seq(Nat)
        /\ \A i, j \in DOMAIN v : i < j => Prec(v[i], v[j], astray)
        /\ \A i \in DOMAIN v : \/ \E j \in DOMAIN x : v[i] = x[j]
                               \/ \E j \in DOMAIN y : v[i] = y[j]
    BY <1>8, <1>9, ConcatRises
  <2> HIDE DEF v
  <2> QED BY <1>9, <2>1
<1>11. \A i, j \in DOMAIN (v \o z) : i < j => Prec((v \o z)[i], (v \o z)[j], astray)
  <2> HIDE DEF v
  <2> QED BY <1>8, <1>9, <1>10, ConcatRises
<1>12. Line = (x \o y) \o z
  BY <1>5 DEF Line, x, y
<1>13. \A i, j \in DOMAIN Line : i < j => Prec(Line[i], Line[j], astray)
  BY <1>11, <1>12
<1> HIDE DEF v
<1>14. \A m, n : Prec(m, n, astray) => m # n /\ (m < n \/ {m, n} \subseteq astray)
  BY DEF Prec
<1> QED BY <1>4, <1>13, <1>14 DEF InOrder

-----------------------------------------------------------------------------
(* Keeping the books of a set of packets.                                  *)

(* h is held, q queued, s sent and w thrown away; a packets were stored,   *)
(* ok, crc and drop counted in s_metrics and ll refused by LLManager.      *)
Books(h, q, s, w, a, ok, crc, drop, ll) ==
    /\ a \in Nat /\ ok \in Nat /\ crc \in Nat /\ drop \in Nat /\ ll \in Nat
    /\ h \cup q \cup s \cup w \subseteq 1 .. a
    /\ h \cap (q \cup s \cup w) = {} /\ q \cap (s \cup w) = {}
    /\ a = Cardinality(h \cup q \cup s \cup w) + ll + crc + drop
    /\ ok <= Cardinality(q \cup s \cup w) + ll
    /\ ok >= Cardinality(q \cup s) + ll

(* Sets of packet numbers are finite; one packet more or less counts one.  *)
LEMMA Counted ==
    ASSUME NEW a \in Nat, NEW k \in SUBSET (1 .. a)
    PROVE  /\ IsFiniteSet(k) /\ Cardinality(k) \in Nat
           /\ \A x : x \in k => Cardinality(k \ {x}) = Cardinality(k) - 1
           /\ \A x : x \notin k => Cardinality(k \cup {x}) = Cardinality(k) + 1
           /\ \A l \in SUBSET k : IsFiniteSet(l) /\ Cardinality(l) <= Cardinality(k)
<1>1. IsFiniteSet(1 .. a)
  <2>1. 1 \in Int /\ a \in Int
    OBVIOUS
  <2> QED BY <2>1, FS_Interval
<1>2. IsFiniteSet(k)
  BY <1>1, FS_Subset
<1> QED BY <1>2, FS_CardinalityType, FS_Subset, FS_AddElement, FS_RemoveElement

(* The core stores a packet.                                               *)
LEMMA BooksStored ==
    ASSUME NEW h, NEW q, NEW s, NEW w, NEW a, NEW ok, NEW crc, NEW drop, NEW ll,
           Books(h, q, s, w, a, ok, crc, drop, ll)
    PROVE  Books(h \cup {a + 1}, q, s, w, a + 1, ok, crc, drop, ll)
<1> DEFINE k == h \cup q \cup s \cup w
<1>1. a \in Nat /\ a + 1 \in Nat /\ a + 1 \notin 1 .. a /\ 1 .. a + 1 = 1 .. a \cup {a + 1}
      /\ k \in SUBSET (1 .. a)
  BY DEF Books
<1>2. (h \cup {a + 1}) \cup q \cup s \cup w = k \cup {a + 1}
  OBVIOUS
<1>3. Cardinality(k \cup {a + 1}) = Cardinality(k) + 1 /\ Cardinality(k) \in Nat
  <2> HIDE DEF k
  <2>1. a + 1 \notin k
    BY <1>1
  <2> QED BY <1>1, <2>1, Counted
<1>4. a + 1 = Cardinality(k \cup {a + 1}) + ll + crc + drop
  BY <1>3 DEF Books
<1>5. (h \cup {a + 1}) \cap (q \cup s \cup w) = {}
  BY <1>1 DEF Books
<1> QED BY <1>1, <1>2, <1>4, <1>5 DEF Books

(* The poll takes a packet out of the ring and queues it, or counts it.    *)
LEMMA BooksTaken ==
    ASSUME NEW h, NEW q, NEW s, NEW w, NEW a, NEW ok, NEW crc, NEW drop, NEW ll,
           Books(h, q, s, w, a, ok, crc, drop, ll), NEW x \in h
    PROVE  /\ Books(h \ {x}, q \cup {x}, s, w, a, ok + 1, crc, drop, ll)
           /\ Books(h \ {x}, q, s, w, a, ok, crc + 1, drop, ll)
           /\ Books(h \ {x}, q, s, w, a, ok, crc, drop + 1, ll)
<1> DEFINE k == h \cup q \cup s \cup w
           m == q \cup s \cup w
           n == q \cup s
<1>1. a \in Nat /\ k \in SUBSET (1 .. a) /\ m \in SUBSET (1 .. a) /\ n \in SUBSET (1 .. a)
      /\ x \in k /\ x \notin m /\ x \notin n
  BY DEF Books
<1>2. /\ (h \ {x}) \cup (q \cup {x}) \cup s \cup w = k
      /\ (h \ {x}) \cup q \cup s \cup w = k \ {x}
      /\ (q \cup {x}) \cup s \cup w = m \cup {x}
      /\ (q \cup {x}) \cup s = n \cup {x}
  BY DEF Books
<1>3. /\ Cardinality(k \ {x}) = Cardinality(k) - 1 /\ Cardinality(k) \in Nat
      /\ Cardinality(m \cup {x}) = Cardinality(m) + 1 /\ Cardinality(m) \in Nat
      /\ Cardinality(n \cup {x}) = Cardinality(n) + 1 /\ Cardinality(n) \in Nat
  <2> HIDE DEF k, m, n
  <2> QED BY <1>1, Counted
<1>4. /\ (h \ {x}) \cap (q \cup {x} \cup s \cup w) = {} /\ (h \ {x}) \cap (q \cup s \cup w) = {}
      /\ (q \cup {x}) \cap (s \cup w) = {}
  BY DEF Books
<1>5. /\ a = Cardinality(k) + ll + crc + drop
      /\ ok <= Cardinality(m) + ll /\ ok >= Cardinality(n) + ll
      /\ ok \in Nat /\ crc \in Nat /\ drop \in Nat /\ ll \in Nat
  BY DEF Books
<1>6. /\ ok + 1 <= Cardinality(m \cup {x}) + ll /\ ok + 1 >= Cardinality(n \cup {x}) + ll
      /\ a = Cardinality(k \ {x}) + ll + (crc + 1) + drop
      /\ a = Cardinality(k \ {x}) + ll + crc + (drop + 1)
      /\ ok + 1 \in Nat /\ crc + 1 \in Nat /\ drop + 1 \in Nat
  BY <1>3, <1>5
<1>7. k \subseteq 1 .. a /\ k \ {x} \subseteq 1 .. a /\ q \cap (s \cup w) = {}
  BY DEF Books
<1> DEFINE g == h \ {x}
           r == q \cup {x}
<1>8. /\ g \cup r \cup s \cup w = k /\ r \cup s \cup w = m \cup {x} /\ r \cup s = n \cup {x}
      /\ g \cup q \cup s \cup w = k \ {x}
      /\ g \cap (r \cup s \cup w) = {} /\ g \cap (q \cup s \cup w) = {} /\ r \cap (s \cup w) = {}
  BY <1>2, <1>4
<1>9. /\ Books(g, r, s, w, a, ok + 1, crc, drop, ll)
      /\ Books(g, q, s, w, a, ok, crc + 1, drop, ll)
      /\ Books(g, q, s, w, a, ok, crc, drop + 1, ll)
  <2>1. q \cup s \cup w = m /\ q \cup s = n
    OBVIOUS
  <2> HIDE DEF g, r, k, m, n
  <2>2. Books(g, r, s, w, a, ok + 1, crc, drop, ll)
    BY <1>1, <1>5, <1>6, <1>7, <1>8 DEF Books
  <2>3. Books(g, q, s, w, a, ok, crc + 1, drop, ll)
    BY <1>1, <1>5, <1>6, <1>7, <1>8, <2>1 DEF Books
  <2>4. Books(g, q, s, w, a, ok, crc, drop + 1, ll)
    BY <1>1, <1>5, <1>6, <1>7, <1>8, <2>1 DEF Books
  <2> QED BY <2>2, <2>3, <2>4
<1> QED BY <1>9

(* The task hands a packet over, or LLManager refuses it.                  *)
LEMMA BooksDelivered ==
    ASSUME NEW h, NEW q, NEW s, NEW w, NEW a, NEW ok, NEW crc, NEW drop, NEW ll,
           Books(h, q, s, w, a, ok, crc, drop, ll), NEW x \in q
    PROVE  /\ Books(h, q \ {x}, s \cup {x}, w, a, ok, crc, drop, ll)
           /\ Books(h, q \ {x}, s, w, a, ok, crc, drop, ll + 1)
<1> DEFINE k == h \cup q \cup s \cup w
           m == q \cup s \cup w
           n == q \cup s
<1>1. a \in Nat /\ k \in SUBSET (1 .. a) /\ m \in SUBSET (1 .. a) /\ n \in SUBSET (1 .. a)
      /\ x \in k /\ x \in m /\ x \in n
  BY DEF Books
<1>2. /\ h \cup (q \ {x}) \cup (s \cup {x}) \cup w = k
      /\ (q \ {x}) \cup (s \cup {x}) \cup w = m
      /\ (q \ {x}) \cup (s \cup {x}) = n
      /\ h \cup (q \ {x}) \cup s \cup w = k \ {x}
      /\ (q \ {x}) \cup s \cup w = m \ {x}
      /\ (q \ {x}) \cup s = n \ {x}
  BY DEF Books
<1>3. /\ Cardinality(k \ {x}) = Cardinality(k) - 1 /\ Cardinality(k) \in Nat
      /\ Cardinality(m \ {x}) = Cardinality(m) - 1 /\ Cardinality(m) \in Nat
      /\ Cardinality(n \ {x}) = Cardinality(n) - 1 /\ Cardinality(n) \in Nat
  <2> HIDE DEF k, m, n
  <2> QED BY <1>1, Counted
<1>4. /\ h \cap ((q \ {x}) \cup (s \cup {x}) \cup w) = {} /\ h \cap ((q \ {x}) \cup s \cup w) = {}
      /\ (q \ {x}) \cap ((s \cup {x}) \cup w) = {} /\ (q \ {x}) \cap (s \cup w) = {}
  BY DEF Books
<1>5. /\ a = Cardinality(k) + ll + crc + drop
      /\ ok <= Cardinality(m) + ll /\ ok >= Cardinality(n) + ll
      /\ ok \in Nat /\ crc \in Nat /\ drop \in Nat /\ ll \in Nat
  BY DEF Books
<1>6. /\ a = Cardinality(k \ {x}) + (ll + 1) + crc + drop
      /\ ok <= Cardinality(m \ {x}) + (ll + 1) /\ ok >= Cardinality(n \ {x}) + (ll + 1)
  BY <1>3, <1>5
<1> DEFINE g == q \ {x}
           r == s \cup {x}
<1>8. /\ h \cup g \cup r \cup w = k /\ g \cup r \cup w = m /\ g \cup r = n
      /\ h \cup g \cup s \cup w = k \ {x} /\ g \cup s \cup w = m \ {x} /\ g \cup s = n \ {x}
      /\ h \cap (g \cup r \cup w) = {} /\ h \cap (g \cup s \cup w) = {}
      /\ g \cap (r \cup w) = {} /\ g \cap (s \cup w) = {}
      /\ k \subseteq 1 .. a /\ k \ {x} \subseteq 1 .. a
  BY <1>1, <1>2, <1>4
<1>9. Books(h, g, r, w, a, ok, crc, drop, ll) /\ Books(h, g, s, w, a, ok, crc, drop, ll + 1)
  <2>1. ll + 1 \in Nat
    BY <1>5
  <2> HIDE DEF g, r, k, m, n
  <2>2. Books(h, g, r, w, a, ok, crc, drop, ll)
    BY <1>1, <1>5, <1>8 DEF Books
  <2>3. Books(h, g, s, w, a, ok, crc, drop, ll + 1)
    BY <1>1, <1>5, <1>6, <1>8, <2>1 DEF Books
  <2> QED BY <2>2, <2>3
<1> QED BY <1>9

(* A round of a reset's loop throws a packet of the ring away;             *)
LEMMA BooksCleared ==
    ASSUME NEW h, NEW q, NEW s, NEW w, NEW a, NEW ok, NEW crc, NEW drop, NEW ll,
           Books(h, q, s, w, a, ok, crc, drop, ll), NEW x \in h
    PROVE  Books(h \ {x}, q, s, w \cup {x}, a, ok, crc, drop, ll)
<1> DEFINE m == q \cup s \cup w
           g == h \ {x}
           v == w \cup {x}
<1>1. a \in Nat /\ m \in SUBSET (1 .. a) /\ x \notin m /\ x \in 1 .. a
  BY DEF Books
<1>2. /\ g \cup q \cup s \cup v = h \cup q \cup s \cup w /\ q \cup s \cup v = m \cup {x}
      /\ g \cap (q \cup s \cup v) = {} /\ q \cap (s \cup v) = {}
  BY DEF Books
<1>3. Cardinality(m \cup {x}) = Cardinality(m) + 1 /\ Cardinality(m) \in Nat
  <2> HIDE DEF m
  <2> QED BY <1>1, Counted
<1>4. ok <= Cardinality(m \cup {x}) + ll
  <2>1. ok <= Cardinality(m) + ll /\ ok \in Nat /\ ll \in Nat
    BY DEF Books
  <2> HIDE DEF m
  <2> QED BY <1>3, <2>1
<1> HIDE DEF g, v
<1>5. Books(g, q, s, v, a, ok, crc, drop, ll)
  BY <1>2, <1>4 DEF Books
<1> QED BY <1>5 DEF g, v

(* a second start throws away what is queued;                              *)
LEMMA BooksDropped ==
    ASSUME NEW h, NEW q, NEW s, NEW w, NEW a, NEW ok, NEW crc, NEW drop, NEW ll,
           Books(h, q, s, w, a, ok, crc, drop, ll)
    PROVE  Books(h, {}, s, w \cup q, a, ok, crc, drop, ll)
<1>1. /\ h \cup {} \cup s \cup (w \cup q) = h \cup q \cup s \cup w
      /\ {} \cup s \cup (w \cup q) = q \cup s \cup w /\ {} \cup s = s
      /\ h \cap ({} \cup s \cup (w \cup q)) = {}
  BY DEF Books
<1>2. ok >= Cardinality(s) + ll
  <2> DEFINE n == q \cup s
  <2>1. a \in Nat /\ n \in SUBSET (1 .. a) /\ s \in SUBSET n /\ s \in SUBSET (1 .. a)
    BY DEF Books
  <2>2. ok >= Cardinality(n) + ll /\ ok \in Nat /\ ll \in Nat
    BY DEF Books
  <2> HIDE DEF n
  <2>3. Cardinality(s) <= Cardinality(n) /\ Cardinality(n) \in Nat /\ Cardinality(s) \in Nat
    BY <2>1, Counted
  <2> QED BY <2>2, <2>3
<1> QED BY <1>1, <1>2 DEF Books

(* the end of reception all that the ring holds, and RX_STOP what is       *)
(* queued too.                                                             *)
LEMMA BooksReset ==
    ASSUME NEW h, NEW q, NEW s, NEW w, NEW a, NEW ok, NEW crc, NEW drop, NEW ll,
           Books(h, q, s, w, a, ok, crc, drop, ll)
    PROVE  /\ Books({}, q, s, w \cup h, a, ok, crc, drop, ll)
           /\ Books({}, {}, s, w \cup h \cup q, a, ok, crc, drop, ll)
<1> DEFINE k == h \cup q \cup s \cup w
           m == q \cup s \cup w
           n == q \cup s
<1>1. a \in Nat /\ k \in SUBSET (1 .. a) /\ m \in SUBSET k /\ n \in SUBSET k /\ s \in SUBSET n
      /\ n \in SUBSET (1 .. a)
  BY DEF Books
<1>2. /\ {} \cup q \cup s \cup (w \cup h) = k /\ q \cup s \cup (w \cup h) = k
      /\ {} \cup {} \cup s \cup (w \cup h \cup q) = k /\ {} \cup s \cup (w \cup h \cup q) = k
      /\ {} \cup s = s
  OBVIOUS
<1>3. /\ Cardinality(m) <= Cardinality(k) /\ Cardinality(s) <= Cardinality(n)
      /\ Cardinality(k) \in Nat /\ Cardinality(m) \in Nat /\ Cardinality(n) \in Nat
      /\ Cardinality(s) \in Nat
  <2>1. m \in SUBSET (1 .. a) /\ s \in SUBSET (1 .. a)
    BY <1>1
  <2> HIDE DEF k, m, n
  <2> QED BY <1>1, <2>1, Counted
<1>4. /\ a = Cardinality(k) + ll + crc + drop
      /\ ok <= Cardinality(m) + ll /\ ok >= Cardinality(n) + ll
      /\ ok \in Nat /\ crc \in Nat /\ drop \in Nat /\ ll \in Nat
  BY DEF Books
<1>5. ok <= Cardinality(k) + ll /\ ok >= Cardinality(s) + ll
  BY <1>3, <1>4
<1>6. q \cap (s \cup (w \cup h)) = {}
  BY DEF Books
<1>7. Books({}, q, s, w \cup h, a, ok, crc, drop, ll)
  BY <1>1, <1>2, <1>4, <1>5, <1>6 DEF Books
<1>8. Books({}, {}, s, w \cup h \cup q, a, ok, crc, drop, ll)
  BY <1>1, <1>2, <1>4, <1>5 DEF Books
<1> QED BY <1>7, <1>8

(* Quotient and remainder.                                                 *)
LEMMA DivIs ==
    ASSUME NEW s \in Nat \ {0}, NEW n \in Nat
    PROVE  n \div s \in Int /\ n = s * (n \div s) + (n % s) /\ n % s \in 0 .. s - 1
<1>1. n % s \in 0 .. s - 1
  BY Z3
<1>2. n \div s \in Int
  BY Z3
<1>3. n = s * (n \div s) + (n % s)
  BY Z3
<1> QED BY <1>1, <1>2, <1>3
(* Multiples of s are at least s apart.                                    *)
LEMMA Steps ==
    ASSUME NEW s \in Nat \ {0}, NEW p \in Int, NEW q \in Int, p < q
    PROVE  s * p + s <= s * q
<1>1. q - p - 1 \in Nat
  OBVIOUS
<1>2. s * (q - p - 1) \in Nat
  BY <1>1, Z3
<1>3. s * (q - p - 1) = s * q - s * p - s
  BY Z3
<1>4. s * q \in Int /\ s * p \in Int
  BY Z3
<1> QED BY <1>2, <1>3, <1>4
(* The remainder is determined by being one.                               *)
LEMMA ModUnique ==
    ASSUME NEW s \in Nat \ {0}, NEW n \in Nat, NEW q \in Int, NEW r \in 0 .. s - 1,
           n = s * q + r
    PROVE  n % s = r
<1> DEFINE p == n \div s
           t == n % s
<1>1. p \in Int /\ n = s * p + t /\ t \in 0 .. s - 1
  BY DivIs
<1>2. s * p \in Int /\ s * q \in Int
  <2> HIDE DEF p
  <2> QED BY <1>1, Z3
<1> HIDE DEF p, t
<1>3. p < q => s * p + s <= s * q
  BY <1>1, Steps
<1>4. q < p => s * q + s <= s * p
  BY <1>1, Steps
<1>5. p = q => t = r
  BY <1>1, <1>2
<1>6. t = r
  BY <1>1, <1>2, <1>3, <1>4, <1>5
<1> QED BY <1>6 DEF t
(* Counting modulo SeqReserved is what NextSeq does.                       *)
LEMMA NextNumber ==
    ASSUME NEW n \in Nat
    PROVE  /\ n % SeqReserved \in 0 .. SeqReserved - 1
           /\ (n + 1) % SeqReserved = IF (n % SeqReserved) + 1 = SeqReserved THEN 0
                                      ELSE (n % SeqReserved) + 1
<1> DEFINE q == n \div SeqReserved
           r == n % SeqReserved
<1>1. SeqReserved \in Nat \ {0}
  BY RxAssumption
<1>2. q \in Int /\ n = SeqReserved * q + r /\ r \in 0 .. SeqReserved - 1
  BY <1>1, DivIs
<1> HIDE DEF q, r
<1>3. CASE r + 1 = SeqReserved
  <2>1. SeqReserved * (q + 1) = SeqReserved * q + SeqReserved
    BY <1>1, <1>2, Z3
  <2>2. SeqReserved * q \in Int
    BY <1>1, <1>2, Z3
  <2>3. n + 1 = SeqReserved * (q + 1) + 0
    BY <1>1, <1>2, <1>3, <2>1, <2>2
  <2>4. q + 1 \in Int /\ 0 \in 0 .. SeqReserved - 1 /\ n + 1 \in Nat
    BY <1>1, <1>2
  <2> QED BY <1>1, <1>2, <1>3, <2>3, <2>4, ModUnique DEF r
<1>4. CASE r + 1 # SeqReserved
  <2>2. SeqReserved * q \in Int
    BY <1>1, <1>2, Z3
  <2>3. n + 1 = SeqReserved * q + (r + 1)
    BY <1>1, <1>2, <1>4, <2>2
  <2>4. r + 1 \in 0 .. SeqReserved - 1 /\ n + 1 \in Nat
    BY <1>1, <1>2, <1>4
  <2> QED BY <1>1, <1>2, <1>4, <2>3, <2>4, ModUnique DEF r
<1> QED BY <1>2, <1>3, <1>4 DEF r

-----------------------------------------------------------------------------
(* The books are right.                                                    *)

Metrics == [rx_ok : Nat, rx_crc_err : Nat, rx_drop : Nat, rx_overflow : Nat]

(* Frames carry consecutive numbers, skipping the reserved one.            *)
Numbered(o, n) ==
    /\ n = Len(o) % SeqReserved
    /\ \A i \in DOMAIN o : o[i].seq = (i - 1) % SeqReserved

CountInv ==
    /\ Apart(ring) /\ metrics \in Metrics
    /\ Books(HeldIn(ring), Ids(queue), Ids(out), wiped, air, metrics.rx_ok,
             metrics.rx_crc_err, metrics.rx_drop, llDrops)
    /\ Numbered(out, rspSeq)

(* To establish it for the next state.                                     *)
LEMMA NextCount ==
    ASSUME Apart(ring'), metrics' \in Metrics,
           Books(HeldIn(ring'), Ids(queue'), Ids(out'), wiped', air', (metrics').rx_ok,
                 (metrics').rx_crc_err, (metrics').rx_drop, llDrops'),
           Numbered(out', rspSeq')
    PROVE  CountInv'
BY DEF CountInv, Apart, Metrics, Books, HeldIn, Finished, Ids, Numbered

(* Nothing is stored yet.                                                  *)
LEMMA CountInit == Init => CountInv
<1> SUFFICES ASSUME Init PROVE CountInv
  OBVIOUS
<1>1. Apart(ring) /\ HeldIn(ring) = {}
  BY HeldReset DEF Init
<1>2. Ids(queue) = {} /\ Ids(out) = {} /\ wiped = {}
  BY DEF Init, Ids
<1>3. metrics \in Metrics /\ metrics.rx_ok = 0 /\ metrics.rx_crc_err = 0 /\ metrics.rx_drop = 0
      /\ llDrops = 0 /\ air = 0
  BY DEF Init, Metrics
<1>4. Books({}, {}, {}, {}, 0, 0, 0, 0, 0)
  <2>1. {} \cup {} \cup {} \cup {} = {} /\ {} \cup {} \cup {} = {} /\ {} \cup {} = {}
    OBVIOUS
  <2> QED BY <2>1, FS_EmptySet DEF Books
<1>5. Numbered(out, rspSeq)
  <2>1. 0 % SeqReserved = 0
    BY RxAssumption, Z3
  <2>2. out = <<>> /\ rspSeq = 0
    BY DEF Init
  <2>3. Len(<<>>) = 0 /\ DOMAIN <<>> = {}
    OBVIOUS
  <2> QED BY <2>1, <2>2, <2>3 DEF Numbered
<1> QED BY <1>1, <1>2, <1>3, <1>4, <1>5 DEF CountInv

(* Store adds a packet to the ring.                                        *)
LEMMA StoreCounts == ASSUME PathInv, CountInv, Store PROVE CountInv'
<1> DEFINE p == [id |-> air + 1]
<1>1. ring' = [ring EXCEPT ![cur] = p]
  BY DEF Store
<1>2. /\ ring[cur] = None /\ air' = air + 1
      /\ UNCHANGED <<queue, out, rspSeq, metrics, llDrops, wiped>>
  BY DEF Store, host
<1>3. p \in Packets /\ p.id = air + 1 /\ air \in Nat
  <2>1. air + 1 \in 1 .. MaxAir /\ air \in Nat
    BY RxAssumption DEF Store, PathInv, Types
  <2> QED BY <2>1 DEF Packets
<1>4. Books(HeldIn(ring), Ids(queue), Ids(out), wiped, air, metrics.rx_ok,
            metrics.rx_crc_err, metrics.rx_drop, llDrops)
  BY DEF CountInv
<1> HIDE DEF p
<1>5. p.id \notin HeldIn(ring)
  <2>1. HeldIn(ring) \subseteq 1 .. air
    BY <1>4 DEF Books
  <2>2. air + 1 \notin 1 .. air
    BY <1>3
  <2> QED BY <1>3, <2>1, <2>2
<1>6. HeldIn(ring') = HeldIn(ring) \cup {air + 1} /\ Apart(ring')
  <2>1. ring \in [Index -> Packets \cup {None}] /\ cur \in Index /\ Apart(ring)
    BY DEF PathInv, Types, CountInv
  <2>2. ring' = [ring EXCEPT ![cur] = p]
    BY <1>1 DEF p
  <2>3. /\ HeldIn([ring EXCEPT ![cur] = p]) = HeldIn(ring) \cup {p.id}
        /\ Apart([ring EXCEPT ![cur] = p])
    BY <1>2, <1>3, <1>5, <2>1, HeldStored
  <2> QED BY <1>3, <2>2, <2>3
<1>7. Books(HeldIn(ring) \cup {air + 1}, Ids(queue), Ids(out), wiped, air + 1, metrics.rx_ok,
            metrics.rx_crc_err, metrics.rx_drop, llDrops)
  BY <1>4, BooksStored
<1>8. metrics \in Metrics /\ Numbered(out, rspSeq)
  BY DEF CountInv
<1> QED BY <1>2, <1>6, <1>7, <1>8, NextCount

(* Process moves one from the ring to the queue or into a counter.         *)
LEMMA ProcessCounts == ASSUME PathInv, CountInv, Process PROVE CountInv'
<1>0. PICK kind \in Kinds :
          /\ metrics' = [metrics EXCEPT ![Counter(kind)] = @ + 1]
          /\ queue' = IF Counter(kind) = "rx_ok" THEN Append(queue, ring[rd])
                                                 ELSE queue
  BY DEF Process
<1> DEFINE p == ring[rd]
           verdict == Counter(kind)
<1>1. /\ p # None /\ ring' = [ring EXCEPT ![rd] = None]
      /\ metrics' = [metrics EXCEPT ![verdict] = @ + 1]
      /\ queue' = IF verdict = "rx_ok" THEN Append(queue, p) ELSE queue
      /\ UNCHANGED <<out, rspSeq, llDrops, wiped, air>>
  BY <1>0 DEF Process, HasPacket, history
<1>2. verdict \in {"rx_ok", "rx_crc_err", "rx_drop"}
  BY DEF Counter
<1> HIDE DEF verdict
<1>3. /\ ring \in [Index -> Packets \cup {None}] /\ rd \in Index /\ Apart(ring)
      /\ queue \in Seq(Packets) /\ p \in Packets
  <2>1. ring \in [Index -> Packets \cup {None}] /\ rd \in Index /\ Apart(ring)
        /\ queue \in Seq(Packets)
    BY DEF PathInv, Types, CountInv
  <2> QED BY <1>1, <2>1
<1>4. /\ HeldIn(ring') = HeldIn(ring) \ {p.id} /\ p.id \in HeldIn(ring) /\ Apart(ring')
  BY <1>1, <1>3, HeldTaken
<1> HIDE DEF p
<1>5. Ids(Append(queue, p)) = Ids(queue) \cup {p.id}
  BY <1>3, IdsAppend
<1>6. Books(HeldIn(ring), Ids(queue), Ids(out), wiped, air, metrics.rx_ok,
            metrics.rx_crc_err, metrics.rx_drop, llDrops)
  BY DEF CountInv
<1>7. /\ Books(HeldIn(ring'), Ids(queue) \cup {p.id}, Ids(out), wiped, air, metrics.rx_ok + 1,
               metrics.rx_crc_err, metrics.rx_drop, llDrops)
      /\ Books(HeldIn(ring'), Ids(queue), Ids(out), wiped, air, metrics.rx_ok,
               metrics.rx_crc_err + 1, metrics.rx_drop, llDrops)
      /\ Books(HeldIn(ring'), Ids(queue), Ids(out), wiped, air, metrics.rx_ok,
               metrics.rx_crc_err, metrics.rx_drop + 1, llDrops)
  <2>1. /\ Books(HeldIn(ring) \ {p.id}, Ids(queue) \cup {p.id}, Ids(out), wiped, air,
                 metrics.rx_ok + 1, metrics.rx_crc_err, metrics.rx_drop, llDrops)
        /\ Books(HeldIn(ring) \ {p.id}, Ids(queue), Ids(out), wiped, air,
                 metrics.rx_ok, metrics.rx_crc_err + 1, metrics.rx_drop, llDrops)
        /\ Books(HeldIn(ring) \ {p.id}, Ids(queue), Ids(out), wiped, air,
                 metrics.rx_ok, metrics.rx_crc_err, metrics.rx_drop + 1, llDrops)
    <3>1. p.id \in HeldIn(ring)
      BY <1>4
    <3> QED BY <1>6, <3>1, BooksTaken
  <2> QED BY <1>4, <2>1
<1>8. metrics \in Metrics /\ Numbered(out, rspSeq)
  BY DEF CountInv
<1>9. CASE verdict = "rx_ok"
  <2>1. /\ metrics' \in Metrics /\ (metrics').rx_ok = metrics.rx_ok + 1
        /\ (metrics').rx_crc_err = metrics.rx_crc_err /\ (metrics').rx_drop = metrics.rx_drop
    BY <1>1, <1>8, <1>9 DEF Metrics
  <2>2. Ids(queue') = Ids(queue) \cup {p.id}
    BY <1>1, <1>5, <1>9
  <2> QED BY <1>1, <1>4, <1>7, <1>8, <2>1, <2>2, NextCount
<1>10. CASE verdict = "rx_crc_err"
  <2>1. /\ metrics' \in Metrics /\ (metrics').rx_ok = metrics.rx_ok
        /\ (metrics').rx_crc_err = metrics.rx_crc_err + 1 /\ (metrics').rx_drop = metrics.rx_drop
    BY <1>1, <1>8, <1>10 DEF Metrics
  <2>2. queue' = queue
    BY <1>1, <1>10
  <2> QED BY <1>1, <1>4, <1>7, <1>8, <2>1, <2>2, NextCount
<1>11. CASE verdict = "rx_drop"
  <2>1. /\ metrics' \in Metrics /\ (metrics').rx_ok = metrics.rx_ok
        /\ (metrics').rx_crc_err = metrics.rx_crc_err /\ (metrics').rx_drop = metrics.rx_drop + 1
    BY <1>1, <1>8, <1>11 DEF Metrics
  <2>2. queue' = queue
    BY <1>1, <1>11
  <2> QED BY <1>1, <1>4, <1>7, <1>8, <2>1, <2>2, NextCount
<1> QED BY <1>2, <1>9, <1>10, <1>11

(* Deliver moves one from the queue to the host, or LLManager counts it.   *)
LEMMA DeliverCounts == ASSUME PathInv, CountInv, Deliver PROVE CountInv'
<1> DEFINE h == Head(queue)
           x == [id |-> h.id, seq |-> rspSeq]
<1>1. /\ queue # <<>> /\ queue' = Tail(queue)
      /\ UNCHANGED <<ring, metrics, wiped, air>>
  BY DEF Deliver, core, history
<1>2. \/ out' = Append(out, x) /\ rspSeq' = NextSeq /\ llDrops' = llDrops
      \/ out' = out /\ rspSeq' = rspSeq /\ llDrops' = llDrops + 1
  BY DEF Deliver, Emit, Refuse
<1>3. /\ queue \in Seq(Packets) /\ out \in Seq(Frame) /\ rspSeq \in Nat
      /\ Rising(queue, astray) /\ UpTo(queue, air) /\ h \in Packets
  <2>1. /\ queue \in Seq(Packets) /\ out \in Seq(Frame) /\ rspSeq \in Nat
        /\ Rising(queue, astray) /\ UpTo(queue, air)
    BY DEF PathInv, Types, Ordered
  <2> QED BY <1>1, <2>1, HeadTailProperties
<1>4. x \in Frame /\ x.id = h.id /\ x.seq = rspSeq
  BY <1>3 DEF Frame, Packets
<1>5. Ids(queue') = Ids(queue) \ {h.id} /\ h.id \in Ids(queue)
  BY <1>1, <1>3, IdsTail
<1> HIDE DEF x, h
<1>6. Books(HeldIn(ring), Ids(queue), Ids(out), wiped, air, metrics.rx_ok,
            metrics.rx_crc_err, metrics.rx_drop, llDrops)
  BY DEF CountInv
<1>7. /\ Books(HeldIn(ring), Ids(queue'), Ids(out) \cup {h.id}, wiped, air, metrics.rx_ok,
               metrics.rx_crc_err, metrics.rx_drop, llDrops)
      /\ Books(HeldIn(ring), Ids(queue'), Ids(out), wiped, air, metrics.rx_ok,
               metrics.rx_crc_err, metrics.rx_drop, llDrops + 1)
  <2>1. /\ Books(HeldIn(ring), Ids(queue) \ {h.id}, Ids(out) \cup {h.id}, wiped, air,
                 metrics.rx_ok, metrics.rx_crc_err, metrics.rx_drop, llDrops)
        /\ Books(HeldIn(ring), Ids(queue) \ {h.id}, Ids(out), wiped, air,
                 metrics.rx_ok, metrics.rx_crc_err, metrics.rx_drop, llDrops + 1)
    <3>1. h.id \in Ids(queue)
      BY <1>5
    <3> QED BY <1>6, <3>1, BooksDelivered
  <2> QED BY <1>5, <2>1
<1>8. metrics \in Metrics /\ Numbered(out, rspSeq) /\ Apart(ring)
  BY DEF CountInv
<1>9. CASE out' = Append(out, x) /\ rspSeq' = NextSeq /\ llDrops' = llDrops
  <2>1. Ids(out') = Ids(out) \cup {h.id}
    BY <1>3, <1>4, <1>9, IdsAppend
  <2>2. /\ Len(out) \in Nat /\ DOMAIN out = 1 .. Len(out)
        /\ Len(out') = Len(out) + 1 /\ DOMAIN out' = 1 .. Len(out) + 1
        /\ out'[Len(out) + 1] = x /\ \A i \in 1 .. Len(out) : out'[i] = out[i]
    BY <1>3, <1>4, <1>9
  <2>3. rspSeq = Len(out) % SeqReserved
    BY <1>8 DEF Numbered
  <2>4. rspSeq' = (Len(out) + 1) % SeqReserved
    BY <1>9, <2>2, <2>3, NextNumber DEF NextSeq
  <2>5. ASSUME NEW i \in DOMAIN out' PROVE out'[i].seq = (i - 1) % SeqReserved
    <3>1. CASE i = Len(out) + 1
      <4>1. i - 1 = Len(out)
        BY <2>2, <3>1
      <4> QED BY <1>4, <2>2, <2>3, <3>1, <4>1
    <3>2. CASE i # Len(out) + 1
      <4>1. i \in 1 .. Len(out)
        BY <2>2, <3>2
      <4> QED BY <1>8, <2>2, <4>1 DEF Numbered
    <3> QED BY <3>1, <3>2
  <2>6. Numbered(out', rspSeq')
    BY <2>2, <2>4, <2>5 DEF Numbered
  <2> QED BY <1>1, <1>7, <1>8, <1>9, <2>1, <2>6, NextCount
<1>10. CASE out' = out /\ rspSeq' = rspSeq /\ llDrops' = llDrops + 1
  BY <1>1, <1>7, <1>8, <1>10, NextCount
<1> QED BY <1>2, <1>9, <1>10

(* A round of a reset's loop counts what the entry held as thrown away.    *)
LEMMA ClearCounts == ASSUME PathInv, CountInv, ClearEntry PROVE CountInv'
<1>1. /\ ring' = [ring EXCEPT ![at] = None]
      /\ wiped' = IF ring[at] = None THEN wiped ELSE wiped \cup {ring[at].id}
      /\ UNCHANGED <<queue, out, rspSeq, air, metrics, llDrops>>
  BY DEF ClearEntry, host
<1>2. /\ ring \in [Index -> Packets \cup {None}] /\ at \in Index
      /\ Apart(ring) /\ metrics \in Metrics /\ Numbered(out, rspSeq)
  BY DEF PathInv, Types, CountInv
<1>3. Books(HeldIn(ring), Ids(queue), Ids(out), wiped, air, metrics.rx_ok,
            metrics.rx_crc_err, metrics.rx_drop, llDrops)
  BY DEF CountInv
<1>4. CASE ring[at] = None
  <2>1. ring' = ring /\ wiped' = wiped
    BY <1>1, <1>2, <1>4
  <2> QED BY <1>1, <1>2, <1>3, <2>1, NextCount
<1>5. CASE ring[at] # None
  <2>1. /\ HeldIn(ring') = HeldIn(ring) \ {ring[at].id} /\ ring[at].id \in HeldIn(ring)
        /\ Apart(ring')
    BY <1>1, <1>2, <1>5, HeldTaken
  <2>2. wiped' = wiped \cup {ring[at].id}
    BY <1>1, <1>5
  <2>3. Books(HeldIn(ring'), Ids(queue), Ids(out), wiped', air, metrics.rx_ok,
              metrics.rx_crc_err, metrics.rx_drop, llDrops)
    BY <1>3, <2>1, <2>2, BooksCleared
  <2> QED BY <1>1, <1>2, <2>1, <2>3, NextCount
<1> QED BY <1>4, <1>5

(* A start throws away what is queued.                                     *)
LEMMA StartCounts == ASSUME CountInv, StartRx PROVE CountInv'
<1>1. /\ queue' = <<>> /\ wiped' = wiped \cup Ids(queue)
      /\ UNCHANGED <<ring, metrics, out, rspSeq, air, llDrops>>
  BY PlacesAre DEF StartRx, core
<1>2. Ids(queue') = {}
  BY <1>1 DEF Ids
<1>3. metrics \in Metrics /\ Numbered(out, rspSeq) /\ Apart(ring)
  BY DEF CountInv
<1>4. Books(HeldIn(ring), {}, Ids(out), wiped \cup Ids(queue), air, metrics.rx_ok,
            metrics.rx_crc_err, metrics.rx_drop, llDrops)
  BY BooksDropped DEF CountInv
<1> QED BY <1>1, <1>2, <1>3, <1>4, NextCount

(* The end of reception throws away what the ring holds, and RX_STOP what  *)
(* is queued with it.                                                      *)
LEMMA StopCounts == ASSUME CountInv, StopRx \/ SetPhy PROVE CountInv'
<1>1. /\ ring' = [i \in Index |-> None]
      /\ \/ queue' = <<>> /\ wiped' = wiped \cup HeldIn(ring) \cup Ids(queue)
         \/ queue' = queue /\ wiped' = wiped \cup HeldIn(ring)
      /\ UNCHANGED <<metrics, out, rspSeq, air, llDrops>>
  BY PlacesAre DEF StopRx, SetPhy, StopBackend, host
<1>2. HeldIn(ring') = {} /\ Apart(ring')
  BY <1>1, HeldReset
<1>3. metrics \in Metrics /\ Numbered(out, rspSeq)
  BY DEF CountInv
<1>4. /\ Books({}, Ids(queue), Ids(out), wiped \cup HeldIn(ring), air, metrics.rx_ok,
               metrics.rx_crc_err, metrics.rx_drop, llDrops)
      /\ Books({}, {}, Ids(out), wiped \cup HeldIn(ring) \cup Ids(queue), air, metrics.rx_ok,
               metrics.rx_crc_err, metrics.rx_drop, llDrops)
  BY BooksReset DEF CountInv
<1>5. CASE queue' = <<>> /\ wiped' = wiped \cup HeldIn(ring) \cup Ids(queue)
  <2>1. Ids(queue') = {}
    BY <1>5 DEF Ids
  <2> QED BY <1>1, <1>2, <1>3, <1>4, <1>5, <2>1, NextCount
<1>6. CASE queue' = queue /\ wiped' = wiped \cup HeldIn(ring)
  BY <1>1, <1>2, <1>3, <1>4, <1>6, NextCount
<1> QED BY <1>1, <1>5, <1>6

(* Everything else leaves the packets alone, and counts at most an         *)
(* overflow.                                                               *)
LEMMA OtherCounts ==
    ASSUME CountInv, UNCHANGED <<ring, queue, out, rspSeq, air, llDrops, wiped>>,
           metrics' = metrics \/ metrics' = [metrics EXCEPT !.rx_overflow = @ + 1]
    PROVE  CountInv'
<1>1. /\ Apart(ring) /\ metrics \in Metrics /\ Numbered(out, rspSeq)
      /\ Books(HeldIn(ring), Ids(queue), Ids(out), wiped, air, metrics.rx_ok,
               metrics.rx_crc_err, metrics.rx_drop, llDrops)
  BY DEF CountInv
<1>2. /\ metrics' \in Metrics /\ (metrics').rx_ok = metrics.rx_ok
      /\ (metrics').rx_crc_err = metrics.rx_crc_err /\ (metrics').rx_drop = metrics.rx_drop
  BY <1>1 DEF Metrics
<1> QED BY <1>1, <1>2, NextCount

(* Every step keeps the books.                                             *)
LEMMA CountStep == PathInv /\ CountInv /\ [Next]_vars => CountInv'
<1> SUFFICES ASSUME PathInv, CountInv, [Next]_vars PROVE CountInv'
  OBVIOUS
<1>1. CASE Store
  BY <1>1, StoreCounts
<1>2. CASE Process
  BY <1>2, ProcessCounts
<1>3. CASE Deliver
  BY <1>3, DeliverCounts
<1>4. CASE ClearEntry
  BY <1>4, ClearCounts
<1>5. CASE StartRx
  BY <1>5, StartCounts
<1>6. CASE StopRx \/ SetPhy
  BY <1>6, StopCounts
<1>7. CASE SetChannel \/ Overflow \/ Hop
  BY <1>7, OtherCounts DEF SetChannel, Overflow, Hop, host, history
<1>8. CASE BufferFull \/ PollRead \/ PollOff \/ PollClear \/ Rearm \/ EntriesDone \/ Hopped
           \/ Stay \/ EndPoll
  BY <1>8, OtherCounts
     DEF BufferFull, PollRead, PollOff, PollClear, Rearm, EntriesDone, Hopped, Stay, EndPoll,
         core, host, history
<1>9. CASE Created \/ PostRx \/ StartedRx \/ Retuned \/ UNCHANGED vars
  BY <1>9, OtherCounts
     DEF Created, PostRx, StartedRx, Retuned, vars, core, host, history
<1> QED
  BY <1>1, <1>2, <1>3, <1>4, <1>5, <1>6, <1>7, <1>8, <1>9 DEF Next, Poll, Command

(* Packets reach the host in the order of the air and none twice, for      *)
(* every number of entries, every depth of the queue, and any overflows,   *)
(* hops, retunes and second starts at any moment: the core and the reader  *)
(* agree on the ring unless a packet was stored while it was last          *)
(* rewritten, and then only the packets from that one to the next          *)
(* rewriting may change places, with each other and with no other          *)
(* (RadioIF_resetRfDataQueue, RadioIF_createRfDataQueue,                   *)
(* RadioIF_rfConsumeEntry, RadioIF_enqueuePacket, DataTask_emitRxPacket).  *)
THEOREM PacketsInOrder == Spec => []InOrder
<1>1. CountInv => Apart(ring)
  BY DEF CountInv
<1> QED BY <1>1, PathInit, PathStep, CountInit, CountStep, PathInOrder, PTL DEF Spec

(* Each packet that the RF core stored is held, queued, sent, thrown away  *)
(* by a reset or counted, exactly once, and frames are numbered without a  *)
(* gap and without the number reserved for errors, for any number of       *)
(* packets and whatever resets come between (RadioIF_enqueuePacket,        *)
(* RadioIF_processRfPackets, DataTask_emitRxPacket).                       *)
THEOREM PacketsAccounted == Spec => []Accounted
<1>1. PathInv /\ CountInv => Accounted
  BY PlacesAre DEF CountInv, Books, Numbered, Accounted
<1>2. CountInv => Apart(ring)
  BY DEF CountInv
<1> QED BY <1>1, <1>2, PathInit, PathStep, CountInit, CountStep, PTL DEF Spec

-----------------------------------------------------------------------------
(* Types.                                                                  *)

Phases == {"idle", "create", "post", "start", "clear", "overflow", "rearm", "retune",
           "entries", "turn", "hop", "drain"}

TaskTypes ==
    /\ mode \in {"none"} \cup Modes
    /\ flags \subseteq {"done", "full"} /\ seen \subseteq {"done", "full"}
    /\ pc \in Phases
    /\ budget \in 0 .. MaxPkts
    /\ tunes \in 0 .. MaxTunes

Booleans == handle \in BOOLEAN /\ raced \in BOOLEAN /\ slipped \in BOOLEAN

DepthKept == queue \in Seq(Packets) /\ Len(queue) <= QueueDepth

(* The variables of the task and of the callback.                          *)
LEMMA TaskTypesStep == TaskTypes /\ [Next]_vars => TaskTypes'
<1> SUFFICES ASSUME TaskTypes, [Next]_vars PROVE TaskTypes'
  OBVIOUS
<1> USE RxAssumption
<1>1. CASE Store \/ BufferFull \/ Process \/ ClearEntry
  BY <1>1 DEF Store, BufferFull, Process, ClearEntry, TaskTypes
<1>2. CASE StartRx \/ SetChannel \/ Hop
  <2>1. tunes + 1 \in 0 .. MaxTunes
    BY <1>2 DEF StartRx, SetChannel, Hop, TaskTypes
  <2>2. mode' \in {"none"} \cup Modes /\ pc' \in Phases
    BY <1>2 DEF StartRx, SetChannel, Hop, TaskTypes, Phases
  <2>3. tunes' = tunes + 1 /\ UNCHANGED <<flags, seen, budget>>
    BY <1>2 DEF StartRx, SetChannel, Hop
  <2> QED BY <2>1, <2>2, <2>3 DEF TaskTypes
<1>3. CASE StopRx \/ SetPhy \/ StartedRx \/ Retuned \/ Created \/ PostRx
  BY <1>3 DEF StopRx, SetPhy, StopBackend, StartedRx, Retuned, Created, PostRx, TaskTypes,
              Phases
<1>8. CASE PollRead
  BY <1>8 DEF PollRead, TaskTypes, Phases
<1>10. CASE PollOff
  <2>1. MaxPkts \in 0 .. MaxPkts
    OBVIOUS
  <2> QED BY <1>10, <2>1 DEF PollOff, TaskTypes, Phases
<1>9. CASE PollClear
  <2>1. pc' \in Phases
    BY <1>9 DEF PollClear, Phases
  <2>2. flags' = {} /\ seen' = {} /\ budget' = MaxPkts /\ MaxPkts \in 0 .. MaxPkts
        /\ UNCHANGED <<mode, tunes>>
    BY <1>9 DEF PollClear
  <2> QED BY <2>1, <2>2 DEF TaskTypes
<1>4. CASE Overflow \/ Rearm \/ EntriesDone \/ Stay \/ Hopped
  BY <1>4 DEF Overflow, Rearm, EntriesDone, Stay, Hopped, TaskTypes, Phases
<1>5. CASE Deliver
  <2>1. budget - 1 \in 0 .. MaxPkts
    BY <1>5 DEF Deliver, TaskTypes
  <2> QED BY <1>5, <2>1 DEF Deliver, TaskTypes
<1>6. CASE EndPoll
  BY <1>6 DEF EndPoll, TaskTypes, Phases
<1>7. CASE UNCHANGED vars
  BY <1>7 DEF vars, TaskTypes
<1> QED
  BY <1>1, <1>2, <1>3, <1>4, <1>5, <1>6, <1>7, <1>8, <1>9, <1>10 DEF Next, Poll, Command

(* The flags.                                                              *)
LEMMA BooleansStep == Booleans /\ [Next]_vars => Booleans'
<1> SUFFICES ASSUME Booleans, [Next]_vars PROVE Booleans'
  OBVIOUS
<1>1. CASE BufferFull
  BY <1>1, Zenon DEF BufferFull, Booleans, loop, history
<1>2. CASE PollClear \/ StartedRx
  BY <1>2, Zenon DEF PollClear, StartedRx, Booleans, core, loop
<1>3. CASE Retuned \/ Hopped \/ Rearm \/ PostRx
  BY <1>3 DEF Retuned, Hopped, Rearm, PostRx, PostAfter, Booleans, loop, history
<1>5. CASE Store
  BY <1>5, Zenon DEF Store, Booleans
<1>6. CASE StartRx \/ StopRx \/ SetPhy \/ SetChannel \/ Overflow \/ Hop
  BY <1>6 DEF StartRx, StopRx, SetPhy, StopBackend, SetChannel, Overflow, Hop,
              ResetRfDataQueue, core, history, Booleans
<1>4. CASE Created \/ ClearEntry \/ PollRead \/ PollOff \/ Process \/ EntriesDone
           \/ Stay \/ Deliver \/ EndPoll \/ UNCHANGED vars
  BY <1>4 DEF Created, ClearEntry, PollRead, PollOff, Process, EntriesDone, Stay, Deliver,
              EndPoll, vars, core, loop, history, Booleans
<1> QED BY <1>1, <1>2, <1>3, <1>4, <1>5, <1>6 DEF Next, Poll, Command

(* A packet is queued only below the depth, RADIO_IF_RX_QUEUE_DEPTH.       *)
LEMMA DepthStep == PathInv /\ DepthKept /\ [Next]_vars => DepthKept'
<1> SUFFICES ASSUME PathInv, DepthKept, [Next]_vars PROVE DepthKept'
  OBVIOUS
<1>1. CASE Process
  <2>1. ring[rd] \in Packets
    BY <1>1 DEF Process, HasPacket, PathInv, Types
  <2>2. CASE queue' = queue
    BY <2>2 DEF DepthKept
  <2>3. ASSUME NEW kind, queue' = Append(queue, ring[rd]), Counter(kind) = "rx_ok"
        PROVE  DepthKept'
    <3>1. Len(queue) < QueueDepth
      BY <2>3 DEF Counter
    <3>2. Len(queue') = Len(queue) + 1 /\ queue' \in Seq(Packets) /\ Len(queue) \in Nat
      BY <2>1, <2>3 DEF DepthKept
    <3> QED BY <3>1, <3>2, RxAssumption DEF DepthKept
  <2> QED BY <1>1, <2>2, <2>3 DEF Process
<1>2. CASE Deliver
  <2>1. queue # <<>> /\ queue' = Tail(queue)
    BY <1>2 DEF Deliver
  <2>2. Len(queue') = Len(queue) - 1 /\ queue' \in Seq(Packets) /\ Len(queue) \in Nat
    BY <2>1, HeadTailProperties DEF DepthKept
  <2> QED BY <2>2, RxAssumption DEF DepthKept
<1>3. CASE StartRx \/ StopRx
  <2>1. queue' = <<>>
    BY <1>3 DEF StartRx, StopRx
  <2> QED BY <2>1, EmptySeq, RxAssumption DEF DepthKept
<1>4. CASE UNCHANGED queue
  BY <1>4 DEF DepthKept
<1>5. CASE Store \/ BufferFull \/ SetChannel \/ Retuned \/ StartedRx \/ PollRead \/ PollClear
           \/ Overflow \/ Rearm \/ EntriesDone \/ Hop \/ Hopped \/ EndPoll \/ UNCHANGED vars
  BY <1>4, <1>5 DEF Store, BufferFull, SetChannel, Retuned, StartedRx, PollRead, PollClear,
     Overflow, Rearm, EntriesDone, Hop, Hopped, EndPoll, vars, host
<1>6. CASE ClearEntry \/ Created \/ PostRx \/ SetPhy \/ PollOff \/ Stay
  BY <1>4, <1>6 DEF ClearEntry, Created, PostRx, SetPhy, PollOff, Stay, host
<1> QED BY <1>1, <1>2, <1>3, <1>5, <1>6 DEF Next, Poll, Command

(* A sequence whose elements have a narrower type has it too.              *)
LEMMA RetypedSeq ==
    ASSUME NEW S, NEW T, NEW s \in Seq(S), \A i \in 1 .. Len(s) : s[i] \in T
    PROVE  s \in Seq(T)
<1>1. 1 \in Int /\ Len(s) \in Int
  OBVIOUS
<1>2. SubSeq(s, 1, Len(s)) \in Seq(T)
  BY <1>1, SubSeqProperties
<1>3. SubSeq(s, 1, Len(s)) = s
  BY SubSeqFull
<1> QED BY <1>2, <1>3

(* The types of the counters follow from the books.                        *)
LEMMA TypesFollow ==
    ASSUME PathInv, CountInv, RestartFacts, TaskTypes, Booleans, DepthKept
    PROVE  TypeOK
<1>1. /\ air \in Nat /\ air <= MaxAir /\ MaxAir \in Nat
      /\ metrics \in Metrics /\ metrics.rx_ok \in 0 .. air /\ metrics.rx_crc_err \in 0 .. air
      /\ metrics.rx_drop \in 0 .. air /\ llDrops \in 0 .. air /\ wiped \subseteq 1 .. air
  <2> DEFINE h == HeldIn(ring)
             q == Ids(queue)
             s == Ids(out)
             k == h \cup q \cup s \cup wiped
             m == q \cup s \cup wiped
  <2>1. Books(h, q, s, wiped, air, metrics.rx_ok, metrics.rx_crc_err, metrics.rx_drop, llDrops)
    BY DEF CountInv
  <2>2. air \in Nat /\ k \in SUBSET (1 .. air) /\ m \in SUBSET k /\ m \in SUBSET (1 .. air)
    BY <2>1 DEF Books
  <2>3. Cardinality(k) \in Nat /\ Cardinality(m) \in Nat /\ Cardinality(m) <= Cardinality(k)
    <3> HIDE DEF k, m
    <3> QED BY <2>2, Counted
  <2>4. /\ metrics.rx_ok \in Nat /\ metrics.rx_crc_err \in Nat /\ metrics.rx_drop \in Nat
        /\ llDrops \in Nat /\ metrics.rx_ok <= Cardinality(m) + llDrops
        /\ air = Cardinality(k) + llDrops + metrics.rx_crc_err + metrics.rx_drop
    BY <2>1 DEF Books
  <2>5. wiped \subseteq 1 .. air
    BY <2>2
  <2>6. metrics \in Metrics
    BY DEF CountInv
  <2>7. air <= MaxAir /\ MaxAir \in Nat
    BY RxAssumption DEF PathInv, Types
  <2> HIDE DEF h, q, s, k, m
  <2>8. /\ metrics.rx_ok <= air /\ metrics.rx_crc_err <= air /\ metrics.rx_drop <= air
        /\ llDrops <= air
    BY <2>2, <2>3, <2>4
  <2> QED BY <2>2, <2>4, <2>5, <2>6, <2>7, <2>8
<1>2. /\ metrics \in [rx_ok : 0 .. MaxAir, rx_crc_err : 0 .. MaxAir,
                      rx_drop : 0 .. MaxAir, rx_overflow : Nat]
      /\ llDrops \in 0 .. MaxAir /\ wiped \subseteq 1 .. MaxAir /\ air \in 0 .. MaxAir
  <2>1. /\ metrics.rx_ok \in 0 .. MaxAir /\ metrics.rx_crc_err \in 0 .. MaxAir
        /\ metrics.rx_drop \in 0 .. MaxAir /\ llDrops \in 0 .. MaxAir
        /\ 1 .. air \subseteq 1 .. MaxAir /\ air \in 0 .. MaxAir
    BY <1>1
  <2> QED BY <1>1, <2>1 DEF Metrics
<1>3. rspSeq \in 0 .. SeqReserved - 1 /\ out \in Seq([id : 1 .. MaxAir, seq : 0 .. SeqReserved - 1])
  <2>1. out \in Seq(Frame) /\ Len(out) \in Nat /\ DOMAIN out = 1 .. Len(out)
    BY DEF PathInv, Types
  <2>2. Numbered(out, rspSeq)
    BY DEF CountInv
  <2>3. rspSeq \in 0 .. SeqReserved - 1
    BY <2>1, <2>2, NextNumber DEF Numbered
  <2>4. ASSUME NEW i \in 1 .. Len(out)
        PROVE  out[i] \in [id : 1 .. MaxAir, seq : 0 .. SeqReserved - 1]
    <3>1. out[i] \in Frame
      BY <2>1
    <3>2. out[i].seq = (i - 1) % SeqReserved /\ i - 1 \in Nat
      BY <2>1, <2>2 DEF Numbered
    <3>3. out[i].seq \in 0 .. SeqReserved - 1
      BY <3>2, NextNumber
    <3> QED BY <3>1, <3>3 DEF Frame
  <2> QED BY <2>1, <2>3, <2>4, RetypedSeq
<1>4. cmds \in Nat
  BY DEF RestartFacts
<1>5. /\ ring \in [Index -> Packets \cup {None}] /\ cur \in Index /\ rd \in Index
      /\ at \in Index /\ left \in 0 .. Entries
  BY DEF PathInv, Types
<1>6. astray \subseteq 1 .. MaxAir
  <2>1. 1 .. air \subseteq 1 .. MaxAir
    BY <1>1
  <2> QED BY <2>1 DEF PathInv, Types
<1> QED BY <1>2, <1>3, <1>4, <1>5, <1>6 DEF TypeOK, TaskTypes, Phases, Booleans, DepthKept

(* Every variable of the receive path keeps its type: no index leaves the  *)
(* ring, the queue never grows beyond its depth, no counter exceeds the    *)
(* packets stored, and no frame carries the reserved number.               *)
THEOREM TypeCorrect == Spec => []TypeOK
<1>1. Init => TaskTypes /\ Booleans /\ DepthKept /\ RestartFacts
  <2>0. Init => Booleans
    BY Zenon DEF Init, Booleans
  <2>1. Init => TaskTypes
    BY RxAssumption DEF Init, TaskTypes, Phases
  <2>2. Init => DepthKept
    BY RxAssumption, EmptySeq DEF Init, DepthKept
  <2>3. Init => RestartFacts
    BY DEF Init, RestartFacts, Running
  <2> QED BY <2>0, <2>1, <2>2, <2>3
<1>2. CountInv => Apart(ring)
  BY DEF CountInv
<1> QED
  BY <1>1, <1>2, TypesFollow, TaskTypesStep, BooleansStep, DepthStep, RestartStep,
     PathInit, PathStep, CountInit, CountStep, PTL DEF Spec
=============================================================================
