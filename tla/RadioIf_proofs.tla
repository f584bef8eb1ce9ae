---------------------------- MODULE RadioIf_proofs ----------------------------
(***************************************************************************)
(* What the radio interface keeps for every set of PHYs.  The RF driver's  *)
(* queue is bounded and a hang has a test tone in front of it because of   *)
(* where endless commands can be: on the client in use, except for a tone  *)
(* left on the 433 MHz client.  Settled says so; each call of the driver   *)
(* gets a lemma on what it leaves, and each action of the module a lemma   *)
(* built from those.                                                       *)
(***************************************************************************)
EXTENDS RadioIf, TLAPS

Kinds == {"rx", "tone"}

(* How many commands of a kind one client holds.                           *)
N(d, h, k) == d.queue[[on |-> h, kind |-> k]]

Bounded(d) == \A h \in Clients, k \in Kinds : N(d, h, k) <= 2

(* The handle in use follows the clients that are open.                    *)
HandleOpen(d) ==
    /\ d.handle = Null => ~d.open
    /\ d.handle = "non433" => d.open

(* The non-433 client holds commands only while it is in use, and each     *)
(* once; a tone of its own is one the host has not yet stopped.            *)
Non433Held(d, t) ==
    /\ \A k \in Kinds : N(d, "non433", k) > 0 =>
                            d.handle = "non433" /\ N(d, "non433", k) = 1
    /\ N(d, "non433", "tone") > 0 => t

(* A receiver on the 433 MHz client is there for the selected mode; only   *)
(* a start over the preset session can give it a second command, ...       *)
Rx433Held(d, m) ==
    /\ N(d, "433", "rx") > 0 => d.handle = "433" /\ m = "prop433"
    /\ N(d, "433", "rx") <= 2
    /\ d.sess # "433" => N(d, "433", "rx") <= 1

(* ... and a tone there can be left behind by a stop on the other client,  *)
(* so that a second one joins it.                                          *)
Tone433Held(d, m, t) ==
    /\ N(d, "433", "tone") > 1 =>
          N(d, "433", "tone") = 2 /\ t /\ d.handle = "433" /\ m = "prop433"
    /\ N(d, "433", "tone") > 0 /\ d.handle = "433" /\ m # "prop433" => t

(* Between commands, with mode m selected and t the test handle's state.   *)
Settled(d, m, t) ==
    HandleOpen(d) /\ Non433Held(d, t) /\ Rx433Held(d, m) /\ Tone433Held(d, m, t)

(* A cached session names the client of its mode.                          *)
SessionClient(d) ==
    d.sessMode # Null => d.sess = IF d.sessMode = "prop433" THEN "433" ELSE "non433"

-----------------------------------------------------------------------------
(* The driver's calls.                                                     *)

(* The two ways to say that a count is small, or that nothing is queued.   *)
LEMMA CountsAreQueue ==
    ASSUME NEW d \in Driver
    PROVE  /\ \A h \in Clients, k \in Kinds : N(d, h, k) \in Nat
           /\ Bounded(d) <=> \A c \in Posted : d.queue[c] <= 2
           /\ Busy(d) <=> \E h \in Clients, k \in Kinds : N(d, h, k) > 0
<1>1. \A h \in Clients, k \in Kinds : [on |-> h, kind |-> k] \in Posted
  BY DEF Posted, Kinds
<1>2. \A c \in Posted : c.on \in Clients /\ c.kind \in Kinds /\ c = [on |-> c.on, kind |-> c.kind]
  BY DEF Posted, Kinds
<1>3. d.queue \in [Posted -> Nat]
  BY DEF Driver
<1> QED
  BY <1>1, <1>2, <1>3 DEF N, Bounded, Busy

(* A flush empties one client's commands and touches nothing else.         *)
LEMMA FlushFacts ==
    ASSUME NEW d \in Driver, NEW h \in Clients
    PROVE  /\ Flush(d, h) \in Driver
           /\ Flush(d, h) = [d EXCEPT !.queue = Flush(d, h).queue]
           /\ \A c \in Clients, k \in Kinds :
                 N(Flush(d, h), c, k) = IF c = h THEN 0 ELSE N(d, c, k)
<1> DEFINE q == [c \in Posted |-> IF c.on = h THEN 0 ELSE d.queue[c]]
<1>1. q \in [Posted -> Nat]
  BY DEF Driver
<1>2. Flush(d, h) = [d EXCEPT !.queue = q]
  BY DEF Flush
<1>3. \A c \in Clients, k \in Kinds :
         q[[on |-> c, kind |-> k]] = IF c = h THEN 0 ELSE N(d, c, k)
  BY DEF Posted, Kinds, N
<1> HIDE DEF q
<1>4. Flush(d, h) \in Driver /\ Flush(d, h).queue = q
  BY <1>1, <1>2 DEF Driver
<1> QED
  BY <1>2, <1>3, <1>4 DEF N

(* A posted command is one more of its kind on the client in use.          *)
LEMMA PostFacts ==
    ASSUME NEW d \in Driver, NEW k \in Kinds, d.handle # Null
    PROVE  /\ Post(d, k) \in Driver
           /\ Post(d, k) = [d EXCEPT !.queue = Post(d, k).queue]
           /\ \A c \in Clients, j \in Kinds :
                 N(Post(d, k), c, j) = IF c = d.handle /\ j = k THEN N(d, c, j) + 1
                                                             ELSE N(d, c, j)
<1> DEFINE p == [on |-> d.handle, kind |-> k]
           q == [d.queue EXCEPT ![p] = d.queue[p] + 1]
<1>1. p \in Posted
  BY DEF Posted, Kinds, Driver
<1>2. q \in [Posted -> Nat]
  BY <1>1 DEF Driver
<1>3. Post(d, k) = [d EXCEPT !.queue = q]
  BY DEF Post
<1>4. \A c \in Clients, j \in Kinds : [on |-> c, kind |-> j] \in Posted
  BY DEF Posted, Kinds
<1>5. \A c \in Clients, j \in Kinds :
         q[[on |-> c, kind |-> j]] = IF c = d.handle /\ j = k THEN N(d, c, j) + 1
                                                           ELSE N(d, c, j)
  <2> TAKE c \in Clients, j \in Kinds
  <2>1. ([on |-> c, kind |-> j] = p) <=> (c = d.handle /\ j = k)
    OBVIOUS
  <2>2. d.queue \in [Posted -> Nat]
    BY DEF Driver
  <2> QED
    BY <1>1, <1>4, <2>1, <2>2 DEF N
<1> HIDE DEF q
<1>6. Post(d, k) \in Driver /\ Post(d, k).queue = q
  BY <1>2, <1>3 DEF Driver
<1> QED
  BY <1>3, <1>5, <1>6 DEF N

(* RF_runCmd changes nothing, and never returns behind a queued command.   *)
LEMMA RunCmdFacts ==
    ASSUME NEW d \in Driver, NEW o \in RunCmd(d)
    PROVE  /\ o.rf = d
           /\ o.res \in {"ok", "failed", "stuck"}
           /\ o.res = "stuck" <=> \E h \in Clients, k \in Kinds : N(d, h, k) > 0
<1>1. CASE Busy(d)
  <2>1. o = Result("stuck", d)
    BY <1>1 DEF RunCmd
  <2> QED
    BY <1>1, <2>1, CountsAreQueue DEF Result
<1>2. CASE ~Busy(d)
  <2>1. o = Result("ok", d) \/ o = Result("failed", d)
    BY <1>2 DEF RunCmd
  <2> QED
    BY <1>2, <2>1, CountsAreQueue DEF Result
<1> QED
  BY <1>1, <1>2

(* Where a switch of mode leaves the driver: with fewer commands, stuck    *)
(* only behind a tone of the 433 MHz client, and with the client and the   *)
(* setup of the mode in place if it succeeded.                             *)
Switched(d, mode, setup, t, o) ==
    /\ o.rf \in Driver
    /\ o.res \in {"ok", "failed", "stuck"}
    /\ \A h \in Clients, k \in Kinds : N(o.rf, h, k) <= N(d, h, k)
    /\ o.res = "stuck" => N(o.rf, "433", "tone") > 0
    /\ o.res # "stuck" => Settled(o.rf, mode, t)
    /\ d.open => o.rf.open
    /\ o.res = "ok" /\ mode = "prop433" => o.rf.handle = "433"
    /\ o.res = "ok" /\ mode # "prop433" =>
          /\ o.rf.handle = "non433"
          /\ \A k \in Kinds : N(o.rf, "non433", k) = 0
          /\ o.rf.setup = setup /\ o.rf.sessMode = Null
    /\ o.res # "ok" => o.rf.sess = d.sess /\ o.rf.sessMode = d.sessMode
    /\ o.res # "ok" /\ ~d.open => o.rf.setup = d.setup
    /\ mode = "prop433" => /\ o.rf.sess = d.sess /\ o.rf.sessMode = d.sessMode
                           /\ o.rf.setup = d.setup

(* Switching to 433 MHz: the alias handle, after a flush of the other.     *)
LEMMA AliasFacts ==
    ASSUME NEW d \in Driver, NEW setup, NEW t \in BOOLEAN,
           Settled(d, "prop433", t), NEW o \in Alias433(d)
    PROVE  Switched(d, "prop433", setup, t, o)
<1> DEFINE f == Flush(d, "non433")
           e == [f EXCEPT !.handle = "433", !.mode = "prop433"]
<1>0. \A h \in Clients, k \in Kinds : N(d, h, k) \in Nat
  BY CountsAreQueue
<1>1. CASE ~d.open433
  <2>1. o = Result("failed", d)
    BY <1>1 DEF Alias433
  <2> QED
    BY <1>0, <2>1 DEF Switched, Result
<1>2. CASE d.open433
  <2>1. o = Result("ok", e)
    BY <1>2 DEF Alias433
  <2>2. /\ f \in Driver
        /\ f = [d EXCEPT !.queue = f.queue]
        /\ \A c \in Clients, k \in Kinds : N(f, c, k) = IF c = "non433" THEN 0 ELSE N(d, c, k)
    BY FlushFacts DEF Clients
  <2> HIDE DEF f
  <2>3. /\ e \in Driver
        /\ e.handle = "433" /\ e.open = d.open /\ e.sess = d.sess
        /\ e.sessMode = d.sessMode /\ e.setup = d.setup /\ e.queue = f.queue
    BY <2>2 DEF Driver, Clients, Modes
  <2> HIDE DEF e
  <2>4. \A c \in Clients, k \in Kinds : N(e, c, k) = IF c = "non433" THEN 0 ELSE N(d, c, k)
    <3>1. \A c \in Clients, k \in Kinds : N(e, c, k) = N(f, c, k)
      BY <2>3 DEF N
    <3> QED
      BY <2>2, <3>1
  <2>5. /\ \A k \in Kinds : N(e, "433", k) = N(d, "433", k) /\ N(e, "non433", k) = 0
        /\ \A c \in Clients, k \in Kinds : N(e, c, k) <= N(d, c, k)
    BY <1>0, <2>4 DEF Clients, Kinds
  <2>6. HandleOpen(e) /\ Non433Held(e, t)
    BY <2>3, <2>5, RadioAssumption DEF HandleOpen, Non433Held, Clients, Kinds
  <2>7. Rx433Held(e, "prop433")
    BY <2>3, <2>5 DEF Rx433Held, Settled, Kinds
  <2>8. Tone433Held(e, "prop433", t)
    BY <2>3, <2>5 DEF Tone433Held, Settled, Kinds
  <2> QED
    BY <2>1, <2>3, <2>5, <2>6, <2>7, <2>8 DEF Switched, Result, Settled
<1> QED
  BY <1>1, <1>2 DEF Driver

(* Switching with the shared handle closed: it is opened, or that fails.   *)
LEMMA OpenFacts ==
    ASSUME NEW d \in Driver, NEW mode \in Modes, NEW setup \in Setups, NEW t \in BOOLEAN,
           Settled(d, mode, t), mode # "prop433", ~d.open,
           NEW o \in OpenNon433(d, mode, setup)
    PROVE  Switched(d, mode, setup, t, o)
<1>0. \A h \in Clients, k \in Kinds : N(d, h, k) \in Nat
  BY CountsAreQueue
<1>1. d.handle # "non433" /\ N(d, "433", "rx") = 0 /\ N(d, "433", "tone") <= 1
  BY <1>0 DEF Settled, HandleOpen, Rx433Held, Tone433Held, Clients, Kinds
<1>2. \A k \in Kinds : N(d, "non433", k) = 0
  BY <1>0, <1>1 DEF Settled, Non433Held, Clients, Kinds
<1> DEFINE e == [d EXCEPT !.open = TRUE, !.handle = "non433", !.mode = mode,
                          !.setup = setup, !.sess = "non433", !.sessMode = Null]
           g == [d EXCEPT !.handle = Null, !.mode = Null]
<1>3. o = Result("ok", e) \/ o = Result("failed", g)
  BY DEF OpenNon433
<1>4. CASE o = Result("ok", e)
  <2>1. /\ e \in Driver
        /\ e.handle = "non433" /\ e.open /\ e.sess = "non433"
        /\ e.sessMode = Null /\ e.setup = setup /\ e.queue = d.queue
    BY DEF Driver, Clients
  <2> HIDE DEF e
  <2>2. \A c \in Clients, k \in Kinds : N(e, c, k) = N(d, c, k)
    BY <2>1 DEF N
  <2>3. HandleOpen(e) /\ Non433Held(e, t) /\ Rx433Held(e, mode) /\ Tone433Held(e, mode, t)
    BY <1>0, <1>1, <1>2, <2>1, <2>2, RadioAssumption
    DEF HandleOpen, Non433Held, Rx433Held, Tone433Held, Clients, Kinds
  <2> QED
    BY <1>0, <1>2, <1>4, <2>1, <2>2, <2>3 DEF Switched, Result, Settled, Clients
<1>5. CASE o = Result("failed", g)
  <2>1. /\ g \in Driver
        /\ g.handle = Null /\ ~g.open /\ g.sess = d.sess
        /\ g.sessMode = d.sessMode /\ g.setup = d.setup /\ g.queue = d.queue
    BY DEF Driver
  <2> HIDE DEF g
  <2>2. \A c \in Clients, k \in Kinds : N(g, c, k) = N(d, c, k)
    BY <2>1 DEF N
  <2>3. HandleOpen(g) /\ Non433Held(g, t) /\ Rx433Held(g, mode) /\ Tone433Held(g, mode, t)
    BY <1>0, <1>1, <1>2, <2>1, <2>2, RadioAssumption
    DEF HandleOpen, Non433Held, Rx433Held, Tone433Held, Clients, Kinds
  <2> QED
    BY <1>0, <1>5, <2>1, <2>2, <2>3 DEF Switched, Result, Settled
<1> QED
  BY <1>3, <1>4, <1>5

(* Switching with the shared handle open: the setup command runs again.    *)
LEMMA SetUpFacts ==
    ASSUME NEW d \in Driver, NEW mode \in Modes, NEW setup \in Setups, NEW t \in BOOLEAN,
           Settled(d, mode, t), mode # "prop433", d.open,
           NEW o \in SetUpAgain(d, mode, setup)
    PROVE  Switched(d, mode, setup, t, o) /\ o.rf.setup \in {setup, Null, d.setup}
<1> DEFINE f == Flush(d, "non433")
           e == [f EXCEPT !.handle = "non433"]
<1>0. \A h \in Clients, k \in Kinds : N(d, h, k) \in Nat
  BY CountsAreQueue
<1>1. N(d, "433", "rx") = 0 /\ N(d, "433", "tone") <= 1
  BY <1>0 DEF Settled, Rx433Held, Tone433Held, Clients, Kinds
<1>2. /\ f \in Driver
      /\ f = [d EXCEPT !.queue = f.queue]
      /\ \A c \in Clients, k \in Kinds : N(f, c, k) = IF c = "non433" THEN 0 ELSE N(d, c, k)
  BY FlushFacts DEF Clients
<1>3. PICK r \in RunCmd(e) :
         \E q : /\ q = IF r.res = "failed" THEN Result("failed", [e EXCEPT !.setup = Null]) ELSE r
                /\ o \in IF q.res = "ok"
                         THEN {Result("ok", [q.rf EXCEPT !.mode = mode, !.setup = setup,
                                                         !.sessMode = Null])}
                         ELSE {q}
  <2>1. PICK q \in RunSetup(d) :
           o \in IF q.res = "ok"
                 THEN {Result("ok", [q.rf EXCEPT !.mode = mode, !.setup = setup,
                                                 !.sessMode = Null])}
                 ELSE {q}
    BY DEF SetUpAgain, Then
  <2>2. \E r \in RunCmd(e) :
           q = IF r.res = "failed" THEN Result("failed", [e EXCEPT !.setup = Null]) ELSE r
    BY <2>1 DEF RunSetup
  <2> QED
    BY <2>1, <2>2
<1>4. /\ e \in Driver
      /\ e.handle = "non433" /\ e.open /\ e.sess = d.sess
      /\ e.sessMode = d.sessMode /\ e.setup = d.setup /\ e.queue = f.queue
  <2> HIDE DEF f
  <2> QED
    BY <1>2 DEF Driver, Clients
<1> HIDE DEF e, f
<1>5. \A c \in Clients, k \in Kinds : N(e, c, k) = IF c = "non433" THEN 0 ELSE N(d, c, k)
  <2>1. \A c \in Clients, k \in Kinds : N(e, c, k) = N(f, c, k)
    BY <1>4 DEF N
  <2> QED
    BY <1>2, <2>1
<1>6. /\ \A k \in Kinds : N(e, "433", k) = N(d, "433", k) /\ N(e, "non433", k) = 0
      /\ \A c \in Clients, k \in Kinds : N(e, c, k) <= N(d, c, k)
  BY <1>0, <1>5 DEF Clients, Kinds
<1>7. /\ r.rf = e
      /\ r.res \in {"ok", "failed", "stuck"}
      /\ r.res = "stuck" <=> \E h \in Clients, k \in Kinds : N(e, h, k) > 0
  BY <1>3, <1>4, RunCmdFacts
<1>8. CASE r.res = "stuck"
  <2>1. o = r
    BY <1>3, <1>8
  <2>2. N(e, "433", "tone") > 0
    BY <1>1, <1>6, <1>7, <1>8 DEF Clients, Kinds
  <2> QED
    BY <1>4, <1>6, <1>7, <1>8, <2>1, <2>2 DEF Switched
<1>9. ASSUME NEW g \in Driver, r.res # "stuck", g.queue = e.queue,
             g.handle = "non433", g.open
      PROVE  Settled(g, mode, t) /\ \A c \in Clients, k \in Kinds : N(g, c, k) = N(e, c, k)
  <2>1. \A c \in Clients, k \in Kinds : N(g, c, k) = N(e, c, k)
    BY <1>9 DEF N
  <2>2. HandleOpen(g) /\ Non433Held(g, t) /\ Rx433Held(g, mode) /\ Tone433Held(g, mode, t)
    BY <1>0, <1>1, <1>6, <1>9, <2>1, RadioAssumption
    DEF HandleOpen, Non433Held, Rx433Held, Tone433Held, Clients, Kinds
  <2> QED
    BY <2>1, <2>2 DEF Settled
<1>10. CASE r.res = "ok"
  <2> DEFINE g == [e EXCEPT !.mode = mode, !.setup = setup, !.sessMode = Null]
  <2>1. o = Result("ok", g)
    BY <1>3, <1>7, <1>10
  <2>2. /\ g \in Driver
        /\ g.handle = "non433" /\ g.open /\ g.sess = d.sess
        /\ g.sessMode = Null /\ g.setup = setup /\ g.queue = e.queue
    BY <1>4 DEF Driver
  <2> HIDE DEF g
  <2> QED
    BY <1>6, <1>9, <1>10, <2>1, <2>2 DEF Switched, Result, Clients
<1>11. CASE r.res = "failed"
  <2> DEFINE g == [e EXCEPT !.setup = Null]
  <2>1. o = Result("failed", g)
    BY <1>3, <1>11 DEF Result
  <2>2. /\ g \in Driver
        /\ g.handle = "non433" /\ g.open /\ g.sess = d.sess
        /\ g.sessMode = d.sessMode /\ g.setup = Null /\ g.queue = e.queue
    BY <1>4 DEF Driver
  <2> HIDE DEF g
  <2> QED
    BY <1>6, <1>9, <1>11, <2>1, <2>2 DEF Switched, Result
<1> QED
  BY <1>7, <1>8, <1>10, <1>11

(* RadioIF_switchRfMode, whichever handle it is asked for.                 *)
LEMMA SwitchFacts ==
    ASSUME NEW d \in Driver, NEW mode \in Modes, NEW setup \in Setups, NEW t \in BOOLEAN,
           Settled(d, mode, t), NEW o \in SwitchRfMode(d, mode, setup)
    PROVE  Switched(d, mode, setup, t, o)
<1>1. CASE mode = "prop433"
  BY <1>1, AliasFacts DEF SwitchRfMode
<1>2. CASE mode # "prop433" /\ ~d.open
  BY <1>2, OpenFacts DEF SwitchRfMode
<1>3. CASE mode # "prop433" /\ d.open
  BY <1>3, SetUpFacts DEF SwitchRfMode
<1> QED
  BY <1>1, <1>2, <1>3 DEF Driver

(* What holds in one mode holds in another, unless commands may stand on   *)
(* the 433 MHz client because its mode was selected.                       *)
LEMMA SettledInMode ==
    ASSUME NEW d \in Driver, NEW m, NEW n, NEW t \in BOOLEAN, Settled(d, m, t),
           n = "prop433" \/ m # "prop433"
    PROVE  Settled(d, n, t)
BY CountsAreQueue DEF Settled, Rx433Held, Tone433Held, Clients, Kinds

(* A settled driver holds each endless command at most once.               *)
LEMMA SettledBounds ==
    ASSUME NEW d \in Driver, NEW m, NEW t \in BOOLEAN, Settled(d, m, t)
    PROVE  Bounded(d)
<1>1. \A h \in Clients, k \in Kinds : N(d, h, k) \in Nat
  BY CountsAreQueue
<1>2. \A k \in Kinds : N(d, "non433", k) <= 2
  BY <1>1 DEF Settled, Non433Held, Clients, Kinds
<1>3. \A k \in Kinds : N(d, "433", k) <= 2
  BY <1>1 DEF Settled, Rx433Held, Tone433Held, Clients, Kinds
<1> QED
  BY <1>2, <1>3 DEF Bounded, Clients

(* Fewer commands on the same clients leave a settled driver settled.      *)
LEMMA FewerSettled ==
    ASSUME NEW d \in Driver, NEW e \in Driver, NEW m, NEW t \in BOOLEAN, Settled(d, m, t),
           e.handle = d.handle, e.open = d.open,
           \A h \in Clients, k \in Kinds : N(e, h, k) \in {0, N(d, h, k)},
           e.sess = d.sess \/ N(e, "433", "rx") <= 1
    PROVE  Settled(e, m, t)
<1>1. \A h \in Clients, k \in Kinds : N(d, h, k) \in Nat /\ N(e, h, k) \in Nat
  BY CountsAreQueue
<1>2. HandleOpen(e) /\ Non433Held(e, t)
  BY <1>1 DEF Settled, HandleOpen, Non433Held, Clients, Kinds
<1>3. Rx433Held(e, m)
  BY <1>1 DEF Settled, Rx433Held, Clients, Kinds
<1>4. Tone433Held(e, m, t)
  BY <1>1 DEF Settled, Tone433Held, Clients, Kinds
<1> QED
  BY <1>2, <1>3, <1>4 DEF Settled

(* Closing the session takes back what its client holds.                   *)
LEMMA CloseFacts ==
    ASSUME NEW d \in Driver, NEW m, NEW t \in BOOLEAN, Settled(d, m, t), SessionClient(d)
    PROVE  /\ CloseTxSession(d) \in Driver
           /\ Settled(CloseTxSession(d), m, t)
           /\ CloseTxSession(d).sess = Null /\ CloseTxSession(d).sessMode = Null
           /\ CloseTxSession(d).handle = d.handle /\ CloseTxSession(d).open = d.open
           /\ CloseTxSession(d).setup = d.setup
           /\ \A h \in Clients, k \in Kinds : N(CloseTxSession(d), h, k) \in {0, N(d, h, k)}
<1>1. CASE d.sess = Null
  <2>1. CloseTxSession(d) = d
    BY <1>1 DEF CloseTxSession
  <2>2. d.sessMode = Null
    BY <1>1, RadioAssumption DEF SessionClient, Clients
  <2> QED
    BY <1>1, <2>1, <2>2
<1>2. CASE d.sess # Null
  <2> DEFINE f == Flush(d, d.sess)
             e == [f EXCEPT !.sess = Null, !.sessMode = Null]
  <2>1. d.sess \in Clients /\ CloseTxSession(d) = e
    BY <1>2 DEF CloseTxSession, Driver
  <2>2. /\ f \in Driver
        /\ f = [d EXCEPT !.queue = f.queue]
        /\ \A c \in Clients, k \in Kinds : N(f, c, k) = IF c = d.sess THEN 0 ELSE N(d, c, k)
    BY <2>1, FlushFacts
  <2> HIDE DEF f
  <2>3. /\ e \in Driver
        /\ e.handle = d.handle /\ e.open = d.open /\ e.sess = Null
        /\ e.sessMode = Null /\ e.setup = d.setup /\ e.queue = f.queue
    BY <2>2 DEF Driver
  <2> HIDE DEF e
  <2>4. \A c \in Clients, k \in Kinds : N(e, c, k) = N(f, c, k)
    BY <2>3 DEF N
  <2>5. \A c \in Clients, k \in Kinds : N(e, c, k) = IF c = d.sess THEN 0 ELSE N(d, c, k)
    BY <2>2, <2>4
  <2>6. N(e, "433", "rx") <= 1
    BY <2>5, CountsAreQueue DEF Settled, Rx433Held, Clients, Kinds
  <2>7. Settled(e, m, t)
    BY <2>3, <2>5, <2>6, FewerSettled
  <2> QED
    BY <2>1, <2>3, <2>5, <2>7
<1> QED
  BY <1>1, <1>2

(* A flush of the client in use leaves no receiver anywhere.               *)
LEMMA FlushHandleFacts ==
    ASSUME NEW d \in Driver, NEW m, NEW t \in BOOLEAN, Settled(d, m, t), d.handle # Null
    PROVE  /\ Flush(d, d.handle) \in Driver
           /\ Flush(d, d.handle) = [d EXCEPT !.queue = Flush(d, d.handle).queue]
           /\ \A n, u : u \in BOOLEAN => Settled(Flush(d, d.handle), n, u)
           /\ \A h \in Clients : N(Flush(d, d.handle), h, "rx") = 0
           /\ \A k \in Kinds : N(Flush(d, d.handle), d.handle, k) = 0
           /\ \A h \in Clients, k \in Kinds :
                 N(Flush(d, d.handle), h, k) \in {0, N(d, h, k)}
<1>0. d.handle \in Clients
  BY DEF Driver
<1> DEFINE e == Flush(d, d.handle)
<1>1. /\ e \in Driver
      /\ e = [d EXCEPT !.queue = e.queue]
      /\ \A c \in Clients, k \in Kinds : N(e, c, k) = IF c = d.handle THEN 0 ELSE N(d, c, k)
  BY <1>0, FlushFacts
<1> HIDE DEF e
<1>2. e.handle = d.handle /\ e.open = d.open
  BY <1>1 DEF Driver
<1>3. \A h \in Clients, k \in Kinds : N(d, h, k) \in Nat /\ N(e, h, k) \in Nat
  BY <1>1, CountsAreQueue
<1>4. \A k \in Kinds : N(e, "non433", k) = 0
  BY <1>1, <1>3 DEF Settled, Non433Held, Clients, Kinds
<1>5. N(e, "433", "rx") = 0
  BY <1>1, <1>3 DEF Settled, Rx433Held, Clients, Kinds
<1>6. N(e, "433", "tone") <= 1 /\ (N(e, "433", "tone") > 0 => e.handle # "433")
  BY <1>1, <1>2, <1>3 DEF Settled, Tone433Held, Clients, Kinds
<1>7. ASSUME NEW n, NEW u \in BOOLEAN
      PROVE  Settled(e, n, u)
  <2>1. HandleOpen(e) /\ Non433Held(e, u)
    BY <1>2, <1>4 DEF Settled, HandleOpen, Non433Held, Clients, Kinds
  <2>2. Rx433Held(e, n)
    BY <1>5 DEF Rx433Held
  <2>3. Tone433Held(e, n, u)
    BY <1>3, <1>6 DEF Tone433Held, Clients, Kinds
  <2> QED
    BY <2>1, <2>2, <2>3 DEF Settled
<1>8. \A h \in Clients : N(e, h, "rx") = 0
  BY <1>4, <1>5 DEF Clients, Kinds
<1>9. /\ \A k \in Kinds : N(e, d.handle, k) = 0
      /\ \A h \in Clients, k \in Kinds : N(e, h, k) \in {0, N(d, h, k)}
  BY <1>0, <1>1
<1>10. e = Flush(d, d.handle)
  BY DEF e
<1> QED
  BY <1>1, <1>7, <1>8, <1>9, <1>10

(* Stopping the backend leaves no RX command in the driver's queue.        *)
LEMMA StopFacts ==
    ASSUME NEW d \in Driver, NEW m, NEW t \in BOOLEAN, Settled(d, m, t)
    PROVE  /\ StopRfBackend(d) \in Driver
           /\ \A n : Settled(StopRfBackend(d), n, t)
           /\ \A h \in Clients : N(StopRfBackend(d), h, "rx") = 0
           /\ StopRfBackend(d).handle = d.handle /\ StopRfBackend(d).open = d.open
           /\ StopRfBackend(d).setup = d.setup
           /\ StopRfBackend(d).sess = d.sess /\ StopRfBackend(d).sessMode = d.sessMode
<1>1. CASE d.handle = Null
  <2>0. \A h \in Clients, k \in Kinds : N(d, h, k) \in Nat
    BY CountsAreQueue
  <2>1. d.handle \notin Clients
    BY <1>1, RadioAssumption
  <2>2. /\ \A k \in Kinds : N(d, "non433", k) = 0
        /\ N(d, "433", "rx") = 0
        /\ N(d, "433", "tone") <= 1
    BY <2>0, <2>1 DEF Settled, Non433Held, Rx433Held, Tone433Held, Clients, Kinds
  <2>3. \A n : Settled(d, n, t)
    BY <2>0, <2>1, <2>2 DEF Settled, Non433Held, Rx433Held, Tone433Held, Clients, Kinds
  <2>4. \A h \in Clients : N(d, h, "rx") = 0
    BY <2>2 DEF Clients, Kinds
  <2> QED
    BY <1>1, <2>3, <2>4 DEF StopRfBackend
<1>2. CASE d.handle # Null
  <2> DEFINE e == Flush(d, d.handle)
  <2>1. /\ e \in Driver
        /\ e = [d EXCEPT !.queue = e.queue]
        /\ \A n : Settled(e, n, t)
        /\ \A h \in Clients : N(e, h, "rx") = 0
    BY <1>2, FlushHandleFacts
  <2>2. StopRfBackend(d) = e
    BY <1>2 DEF StopRfBackend
  <2> HIDE DEF e
  <2>3. /\ e.handle = d.handle /\ e.open = d.open /\ e.setup = d.setup
        /\ e.sess = d.sess /\ e.sessMode = d.sessMode
    BY <2>1 DEF Driver
  <2> QED
    BY <2>1, <2>2, <2>3
<1> QED
  BY <1>1, <1>2

(* A transmission: over the cached session as it stands, or with the mode  *)
(* set up first and the session its own.                                   *)
LEMMA ExecuteFacts ==
    ASSUME NEW d \in Driver, NEW mode \in Modes, NEW setup \in Setups, NEW t \in BOOLEAN,
           Settled(d, mode, t), SessionClient(d), mode # "prop433",
           NEW o \in ExecuteTxCommand(d, mode, setup)
    PROVE  /\ o.rf \in Driver /\ o.res \in {"ok", "failed", "stuck"}
           /\ \A h \in Clients, k \in Kinds : N(o.rf, h, k) <= N(d, h, k)
           /\ o.res # "stuck" => Settled(o.rf, mode, t)
           /\ o.res = "stuck" => \E h \in Clients, k \in Kinds : N(o.rf, h, k) > 0
           /\ d.open => o.rf.open
           /\ \/ o.rf = d
              \/ o.rf.sessMode = d.sessMode /\ o.rf.sess = d.sess /\ d.sessMode # mode
              \/ o.rf.sessMode = mode /\ o.rf.sess = "non433" /\ o.rf.setup = setup
<1>0. \A h \in Clients, k \in Kinds : N(d, h, k) \in Nat
  BY CountsAreQueue
<1>1. CASE d.sess # Null /\ d.sessMode = mode
  <2>1. PICK r \in RunCmd(d) : o \in IF r.res = "ok" THEN RunCmd(r.rf) ELSE {r}
    BY <1>1 DEF ExecuteTxCommand, Then
  <2>2. r.rf = d
    BY <2>1, RunCmdFacts
  <2>3. o \in RunCmd(d)
    BY <2>1, <2>2
  <2> QED
    BY <1>0, <2>3, RunCmdFacts
<1>2. CASE ~(d.sess # Null /\ d.sessMode = mode)
  <2>0. d.sessMode # mode
    BY <1>2, RadioAssumption DEF SessionClient, Clients
  <2>1. PICK r \in SwitchRfMode(d, mode, setup) :
           o \in IF r.res = "ok"
                 THEN RunCmd([r.rf EXCEPT !.sess = r.rf.handle, !.sessMode = mode])
                 ELSE {r}
    BY <1>2 DEF ExecuteTxCommand, Then
  <2>2. Switched(d, mode, setup, t, r)
    BY <2>1, SwitchFacts
  <2>3. CASE r.res # "ok"
    <3>1. o = r
      BY <2>1, <2>3
    <3> QED
      BY <2>0, <2>2, <2>3, <3>1 DEF Switched, Clients, Kinds
  <2>4. CASE r.res = "ok"
    <3> DEFINE e == [r.rf EXCEPT !.sess = r.rf.handle, !.sessMode = mode]
    <3>1. o \in RunCmd(e)
      BY <2>1, <2>4
    <3>2. /\ e \in Driver
          /\ e.handle = r.rf.handle /\ e.open = r.rf.open /\ e.sess = "non433"
          /\ e.sessMode = mode /\ e.setup = setup /\ e.queue = r.rf.queue
      BY <2>2, <2>4 DEF Switched, Driver, Clients
    <3> HIDE DEF e
    <3>3. \A c \in Clients, k \in Kinds : N(e, c, k) = N(r.rf, c, k)
      BY <3>2 DEF N
    <3>4. r.rf \in Driver /\ Settled(r.rf, mode, t)
      BY <2>2, <2>4 DEF Switched
    <3>5. N(e, "433", "rx") <= 1
      BY <3>3, <3>4, CountsAreQueue DEF Settled, Rx433Held, Clients, Kinds
    <3>6. Settled(e, mode, t)
      BY <3>2, <3>3, <3>4, <3>5, FewerSettled
    <3>7. /\ o.rf = e
          /\ o.res \in {"ok", "failed", "stuck"}
          /\ o.res = "stuck" <=> \E h \in Clients, k \in Kinds : N(e, h, k) > 0
      BY <3>1, <3>2, RunCmdFacts
    <3>8. d.open => e.open
      BY <2>2, <3>2 DEF Switched
    <3>9. \A h \in Clients, k \in Kinds : N(e, h, k) <= N(d, h, k)
      BY <2>2, <3>3 DEF Switched
    <3> QED
      BY <3>2, <3>6, <3>7, <3>8, <3>9
  <2> QED
    BY <2>3, <2>4
<1> QED
  BY <1>1, <1>2

(* Posting the RX command where the client in use has none of its own mode *)
(* keeps the driver settled, once a 433 MHz start has preset the session.  *)
LEMMA PostRxSettled ==
    ASSUME NEW d \in Driver, NEW m, NEW t \in BOOLEAN, Settled(d, m, t),
           d.handle # Null,
           d.handle = "non433" => N(d, "non433", "rx") = 0,
           d.handle = "433" => m = "prop433" /\ N(d, "433", "rx") <= 1,
           NEW g \in Driver, g.handle = d.handle, g.open = d.open,
           g.queue = Post(d, "rx").queue,
           g.sess = "433" \/ N(d, "433", "rx") = 0
    PROVE  /\ Settled(g, m, t) /\ N(g, g.handle, "rx") > 0
<1>0. d.handle \in Clients
  BY DEF Driver
<1>1. \A c \in Clients, j \in Kinds :
         N(g, c, j) = IF c = d.handle /\ j = "rx" THEN N(d, c, j) + 1 ELSE N(d, c, j)
  <2>1. \A c \in Clients, j \in Kinds : N(g, c, j) = N(Post(d, "rx"), c, j)
    BY DEF N
  <2> QED
    BY <2>1, PostFacts DEF Kinds
<1>2. \A h \in Clients, k \in Kinds : N(d, h, k) \in Nat
  BY CountsAreQueue
<1>3. HandleOpen(g) /\ Non433Held(g, t)
  BY <1>0, <1>1, <1>2 DEF Settled, HandleOpen, Non433Held, Clients, Kinds
<1>4. Rx433Held(g, m)
  BY <1>0, <1>1, <1>2 DEF Settled, Rx433Held, Clients, Kinds
<1>5. Tone433Held(g, m, t)
  BY <1>0, <1>1, <1>2 DEF Settled, Tone433Held, Clients, Kinds
<1> QED
  BY <1>0, <1>1, <1>2, <1>3, <1>4, <1>5 DEF Settled, Kinds

(* What a start of reception in a mode leaves behind.                      *)
Started(d, mode, t, o) ==
    /\ o.rf \in Driver /\ o.res \in {"ok", "failed", "stuck"}
    /\ Bounded(o.rf)
    /\ o.res = "stuck" => N(o.rf, "433", "tone") > 0
    /\ o.res # "stuck" => Settled(o.rf, mode, t)
    /\ o.res = "ok" => /\ o.rf.handle = IF mode = "prop433" THEN "433" ELSE "non433"
                       /\ N(o.rf, o.rf.handle, "rx") > 0
    /\ o.rf.sessMode = Null \/ (o.rf.sessMode = "prop433" /\ o.rf.sess = "433")
    /\ d.open => o.rf.open

(* Where starting a backend leaves the driver, if it succeeds and if not.  *)
LEMMA StartFacts ==
    ASSUME NEW d \in Driver, NEW mode \in Modes, NEW setup \in Setups, NEW t \in BOOLEAN,
           Settled(d, mode, t), d.sess = Null, d.sessMode = Null,
           NEW r \in Then(SwitchRfMode(d, mode, setup), PostRx)
    PROVE  /\ r.res # "ok" => Started(d, mode, t, r)
           /\ r.res = "ok" =>
                 Started(d, mode, t,
                         Result("ok", IF mode # "prop433" THEN r.rf
                                      ELSE [r.rf EXCEPT !.sess = r.rf.handle, !.sessMode = mode]))
<1>0. \A h \in Clients, k \in Kinds : N(d, h, k) \in Nat
  BY CountsAreQueue
<1>1. PICK s \in SwitchRfMode(d, mode, setup) :
         r \in IF s.res = "ok" THEN PostRx(s.rf) ELSE {s}
  BY DEF Then
<1>2. Switched(d, mode, setup, t, s)
  BY <1>1, SwitchFacts
<1>3. Bounded(d)
  BY SettledBounds
<1>4. s.rf \in Driver /\ Bounded(s.rf)
  <2>1. s.rf \in Driver /\ \A h \in Clients, k \in Kinds : N(s.rf, h, k) <= N(d, h, k)
    BY <1>2 DEF Switched
  <2>2. \A h \in Clients, k \in Kinds : N(s.rf, h, k) \in Nat
    BY <2>1, CountsAreQueue
  <2> QED
    BY <1>0, <1>3, <2>1, <2>2 DEF Bounded
<1>5. CASE s.res # "ok"
  <2>1. r = s
    BY <1>1, <1>5
  <2> QED
    BY <1>2, <1>4, <1>5, <2>1 DEF Switched, Started
<1>6. CASE s.res = "ok"
  <2>0. /\ Settled(s.rf, mode, t)
        /\ s.rf.handle = IF mode = "prop433" THEN "433" ELSE "non433"
        /\ s.rf.sessMode = Null
        /\ mode = "prop433" => s.rf.sess = Null
        /\ mode # "prop433" => N(s.rf, "non433", "rx") = 0
        /\ d.open => s.rf.open
    BY <1>2, <1>6 DEF Switched, Kinds
  <2>1. r = Result("failed", s.rf) \/ r = Result("ok", Post(s.rf, "rx"))
    BY <1>1, <1>6 DEF PostRx
  <2>2. CASE r = Result("failed", s.rf)
    BY <1>4, <2>0, <2>2 DEF Started, Result
  <2>3. CASE r = Result("ok", Post(s.rf, "rx"))
    <3> DEFINE p == Post(s.rf, "rx")
               g == IF mode # "prop433" THEN p
                    ELSE [p EXCEPT !.sess = p.handle, !.sessMode = mode]
    <3>1. s.rf.handle # Null
      BY <2>0, RadioAssumption DEF Clients
    <3>2. p \in Driver /\ p = [s.rf EXCEPT !.queue = p.queue]
      BY <1>4, <3>1, PostFacts DEF Kinds
    <3>3. p.queue = Post(s.rf, "rx").queue
      OBVIOUS
    <3> HIDE DEF p
    <3>4. /\ p.handle = s.rf.handle /\ p.open = s.rf.open
          /\ p.sess = s.rf.sess /\ p.sessMode = s.rf.sessMode
      BY <1>4, <3>2 DEF Driver
    <3>5. /\ g \in Driver /\ g.handle = s.rf.handle /\ g.open = s.rf.open
          /\ g.queue = p.queue
          /\ mode # "prop433" => g.sessMode = Null
          /\ mode = "prop433" => g.sess = "433" /\ g.sessMode = mode
      <4>1. CASE mode # "prop433"
        <5>1. g = p
          BY <4>1
        <5> QED
          BY <2>0, <3>2, <3>4, <4>1, <5>1
      <4>2. CASE mode = "prop433"
        <5>1. g = [p EXCEPT !.sess = p.handle, !.sessMode = mode]
          BY <4>2
        <5> QED
          BY <2>0, <3>2, <3>4, <4>2, <5>1 DEF Driver, Clients
      <4> QED
        BY <4>1, <4>2
    <3> HIDE DEF g
    <3>6. \A h \in Clients, k \in Kinds : N(s.rf, h, k) \in Nat
      BY <1>4, CountsAreQueue
    <3>7. N(s.rf, "433", "rx") <= 1 /\ (mode # "prop433" => N(s.rf, "433", "rx") = 0)
      BY <2>0, <3>6, RadioAssumption DEF Settled, Rx433Held, Clients, Kinds
    <3>8. Settled(g, mode, t) /\ N(g, g.handle, "rx") > 0
      BY <1>4, <2>0, <3>1, <3>3, <3>5, <3>7, PostRxSettled
    <3>9. Bounded(g)
      BY <3>5, <3>8, SettledBounds
    <3>10. Started(d, mode, t, Result("ok", g))
      BY <2>0, <3>5, <3>8, <3>9 DEF Started, Result
    <3>11. r.res = "ok" /\ r.rf = p
      BY <2>3 DEF Result, p
    <3> QED
      BY <3>10, <3>11 DEF g
  <2> QED
    BY <2>1, <2>2, <2>3
<1> QED
  BY <1>5, <1>6

-----------------------------------------------------------------------------
(* The inductive invariant.                                                *)

(* A session that would be reused has been set up for the selected PHY;    *)
(* one for the shared struct also outlives a change to 433 MHz, after      *)
(* which only a call that closes it can select its mode again; and the OOK *)
(* flag goes with the OOK setting.                                         *)
SessionFor(d) ==
    /\ SessionClient(d)
    /\ phy # "BLE_2M" /\ d.sessMode = ModeOf(phy) /\ ModeOf(phy) # "prop433" =>
          d.setup = SetupOf(ModeOf(phy), phy)
    /\ phy \in SubGhz /\ d.sessMode = "prop" => d.setup = SetupOf("prop", phy) /\ ~ook
    /\ ook => propMod = "OOK"

(* s_rx_running, s_backend, s_rf_mode and the RX commands agree unless the *)
(* driver has refused one, and a jam session has the radio to itself.      *)
ReceiverAgrees ==
    /\ rxRunning => /\ backend /\ rf.handle # Null /\ rfMode = RfModeOf(phy)
                    /\ rf.handle = "433" => ModeOf(phy) = "prop433"
    /\ rfMode # "none" => rxRunning
    /\ jam # Null => ~rxRunning /\ rf.open
    /\ (\E h \in Clients : N(rf, h, "rx") > 0) => rxRunning \/ postFailed

Inv ==
    /\ TypeOK
    /\ SessionFor(rf)
    /\ StuckOnlyBehindTone
    /\ ~stuck => Settled(rf, ModeOf(phy), testCmd) /\ ReceiverAgrees

(* The bodies of the two action properties.                                *)
RxStep == rxRunning /\ RxPosted /\ rxRunning' /\ ~RxPosted' =>
              OnTxTest \/ OnTxTestStop \/ postFailed' \/ stuck'
JamStep == jam # Null /\ jam' = jam /\ rf'.setup # rf.setup => SendExtAdv

(* What every step below has to show.                                      *)
Kept == Inv' /\ RxStep /\ JamStep

(* What the invariant says, conjunct by conjunct.                          *)
LEMMA InvFacts ==
    ASSUME Inv, ~stuck
    PROVE  /\ rf \in Driver /\ Bounded(rf) /\ testCmd \in BOOLEAN
           /\ Settled(rf, ModeOf(phy), testCmd) /\ SessionClient(rf)
           /\ ModeOf(phy) \in Modes
           /\ SetupOf(ModeOf(phy), blePhy) \in Setups
           /\ phy \in BlePhys => SetupOf("ble", phy) \in Setups
           /\ phy # "BLE_2M" \/ phy \in BlePhys
<1>1. rf \in Driver /\ testCmd \in BOOLEAN /\ propMod \in Mods /\ blePhy \in BlePhys
  BY DEF Inv, TypeOK
<1>2. Settled(rf, ModeOf(phy), testCmd) /\ SessionClient(rf)
  BY DEF Inv, SessionFor
<1>3. Bounded(rf)
  BY <1>1, <1>2, SettledBounds
<1>4. ModeOf(phy) \in Modes
  BY DEF ModeOf, PropMode, Modes
<1>5. \A m \in Modes, b \in BlePhys : SetupOf(m, b) \in Setups
  BY <1>1 DEF SetupOf, Setups, Modes
<1> QED
  BY <1>1, <1>2, <1>3, <1>4, <1>5 DEF Modes, BlePhys

(* The queue as TypeOK has it.                                             *)
LEMMA QueueTyped ==
    ASSUME NEW d \in Driver, Bounded(d)
    PROVE  \A c \in Posted : d.queue[c] <= 2
BY CountsAreQueue

(* A hang behind a queued command is behind a tone, if no start of         *)
(* reception has failed and no receiver runs.                              *)
LEMMA HangIsTone ==
    ASSUME Inv, ~stuck, ~rxRunning, NEW d \in Driver,
           \A h \in Clients, k \in Kinds : N(d, h, k) <= N(rf, h, k),
           \E h \in Clients, k \in Kinds : N(d, h, k) > 0
    PROVE  postFailed \/ \E h \in Clients : N(d, h, "tone") > 0
<1>1. rf \in Driver
  BY InvFacts
<1>2. \A h \in Clients, k \in Kinds : N(d, h, k) \in Nat /\ N(rf, h, k) \in Nat
  BY <1>1, CountsAreQueue
<1>3. (\E h \in Clients : N(rf, h, "rx") > 0) => postFailed
  BY DEF Inv, ReceiverAgrees
<1> QED
  BY <1>2, <1>3 DEF Kinds

(* A tone counted on a client is a tone posted.                            *)
LEMMA TonePostedIs ==
    ASSUME rf' \in Driver, \E h \in Clients : N(rf', h, "tone") > 0
    PROVE  TonePosted'
<1>1. PICK h \in Clients : N(rf', h, "tone") > 0
  OBVIOUS
<1>2. [on |-> h, kind |-> "tone"] \in Posted
  BY <1>1 DEF Posted
<1> QED
  BY <1>1, <1>2 DEF TonePosted, N

(* A step that leaves the configuration, the receiver and the tests alone  *)
(* keeps the invariant if it keeps the driver settled and the session      *)
(* sound, adds no RX command, and hangs only behind a tone.                *)
LEMMA JamDriverStep ==
    ASSUME Inv, ~stuck,
           rf' \in Driver, stuck' \in BOOLEAN,
           \A h \in Clients, k \in Kinds : N(rf', h, k) <= N(rf, h, k),
           ~stuck' => Settled(rf', ModeOf(phy), testCmd),
           SessionFor(rf'),
           jam' \in Phys \cup {Null},
           jam' # Null /\ ~stuck' => ~rxRunning /\ rf'.open,
           stuck' => ~rxRunning /\ \E h \in Clients, k \in Kinds : N(rf', h, k) > 0,
           rxRunning => rf'.handle = rf.handle,
           UNCHANGED <<phy, low, ook, propMod, rxVars, testCmd, postFailed>>,
           blePhy' \in BlePhys
    PROVE  Inv'
<1> USE DEF rxVars
<1>1. \A h \in Clients, k \in Kinds : N(rf, h, k) \in Nat /\ N(rf', h, k) \in Nat
  BY InvFacts, CountsAreQueue
<1>2. Bounded(rf')
  BY <1>1, InvFacts DEF Bounded
<1>3. TypeOK'
  BY <1>2, QueueTyped DEF Inv, TypeOK
<1>4. ModeOf(phy)' = ModeOf(phy) /\ RfModeOf(phy)' = RfModeOf(phy)
  BY DEF ModeOf, PropMode, RfModeOf
<1>5. SessionFor(rf)'
  BY <1>4 DEF SessionFor, SessionClient, SetupOf
<1>6. StuckOnlyBehindTone'
  <2>1. stuck' => postFailed' \/ \E h \in Clients : N(rf', h, "tone") > 0
    BY HangIsTone
  <2> QED
    BY <2>1, TonePostedIs DEF StuckOnlyBehindTone
<1>7. ~stuck' => Settled(rf, ModeOf(phy), testCmd)'
  BY <1>4 DEF Settled, HandleOpen, Non433Held, Rx433Held, Tone433Held, N
<1>8. ~stuck' => ReceiverAgrees'
  <2>1. (\E h \in Clients : N(rf', h, "rx") > 0) => rxRunning \/ postFailed
    BY <1>1 DEF Inv, ReceiverAgrees, Kinds
  <2>2. (\E h \in Clients : N(rf, h, "rx") > 0)' => rxRunning' \/ postFailed'
    BY <2>1 DEF N
  <2> QED
    BY <1>4, <2>2 DEF Inv, ReceiverAgrees
<1> QED
  BY <1>3, <1>5, <1>6, <1>7, <1>8 DEF Inv

(* The same for a step that leaves the jam session as it was.              *)
LEMMA DriverStep ==
    ASSUME Inv, ~stuck,
           rf' \in Driver, stuck' \in BOOLEAN,
           \A h \in Clients, k \in Kinds : N(rf', h, k) <= N(rf, h, k),
           ~stuck' => Settled(rf', ModeOf(phy), testCmd),
           SessionFor(rf'),
           rf.open => rf'.open,
           stuck' => ~rxRunning /\ \E h \in Clients, k \in Kinds : N(rf', h, k) > 0,
           rxRunning => rf'.handle = rf.handle,
           UNCHANGED <<phy, low, ook, propMod, rxVars, testCmd, jam, postFailed>>,
           blePhy' \in BlePhys
    PROVE  Inv'
<1>1. jam' \in Phys \cup {Null}
  BY DEF Inv, TypeOK
<1>2. jam' # Null => ~rxRunning /\ rf'.open
  BY DEF Inv, ReceiverAgrees
<1> QED
  BY <1>1, <1>2, JamDriverStep

(* A refused command leaves all of it as it was.                           *)
LEMMA RefusedStep ==
    ASSUME Inv, ~stuck, ~rxRunning,
           UNCHANGED <<rf, stuck, phy, low, ook, propMod, rxVars, testCmd, jam, postFailed>>,
           blePhy' \in BlePhys
    PROVE  Kept
<1>1. /\ rf' = rf /\ stuck' = stuck
      /\ UNCHANGED <<phy, low, ook, propMod, rxVars, testCmd, jam, postFailed>>
  OBVIOUS
<1>2. rf' \in Driver /\ stuck' \in BOOLEAN /\ ~stuck'
  BY <1>1 DEF Inv, TypeOK
<1>3. \A h \in Clients, k \in Kinds : N(rf', h, k) <= N(rf, h, k)
  <2>1. \A h \in Clients, k \in Kinds : N(rf, h, k) <= N(rf, h, k)
    BY InvFacts, CountsAreQueue
  <2> QED
    BY <1>1, <2>1
<1>4. Settled(rf', ModeOf(phy), testCmd)
  BY <1>1, InvFacts
<1>5. SessionFor(rf')
  BY <1>1 DEF Inv
<1>6. Inv'
  BY <1>1, <1>2, <1>3, <1>4, <1>5, DriverStep
<1> QED
  BY <1>1, <1>6 DEF Kept, RxStep, JamStep

-----------------------------------------------------------------------------
(* Transmission.                                                           *)

(* The lemma under every kind of transmission.                             *)
LEMMA ExecuteKeeps ==
    ASSUME Inv, ~stuck, TxAllowed, phy # "BLE_2M", ModeOf(phy) # "prop433",
           NEW b, SetupOf(ModeOf(phy), b) \in Setups,
           SetupOf(ModeOf(phy), b) = SetupOf(ModeOf(phy), phy),
           ExecuteTx(ModeOf(phy), b),
           UNCHANGED <<phy, low, ook, propMod, rxVars, testCmd, jam, postFailed>>,
           blePhy' \in BlePhys
    PROVE  Kept
<1> DEFINE m == ModeOf(phy)
<1>0. ~rxRunning
  BY DEF TxAllowed
<1>1. /\ rf \in Driver /\ m \in Modes /\ testCmd \in BOOLEAN
      /\ Settled(rf, m, testCmd) /\ SessionClient(rf)
  BY InvFacts
<1>2. CASE jam # Null
  <2>1. rf' = rf /\ stuck' = stuck
    BY <1>2 DEF ExecuteTx
  <2> QED
    BY <1>0, <2>1, RefusedStep
<1>3. CASE jam = Null
  <2>1. PICK o \in ExecuteTxCommand(rf, m, SetupOf(m, b)) : Apply(o)
    BY <1>3 DEF ExecuteTx
  <2>2. /\ o.rf \in Driver
        /\ \A h \in Clients, k \in Kinds : N(o.rf, h, k) <= N(rf, h, k)
        /\ o.res # "stuck" => Settled(o.rf, m, testCmd)
        /\ o.res = "stuck" => \E h \in Clients, k \in Kinds : N(o.rf, h, k) > 0
        /\ rf.open => o.rf.open
        /\ \/ o.rf = rf
           \/ o.rf.sessMode = rf.sessMode /\ o.rf.sess = rf.sess /\ rf.sessMode # m
           \/ o.rf.sessMode = m /\ o.rf.sess = "non433" /\ o.rf.setup = SetupOf(m, b)
    BY <1>1, <2>1, ExecuteFacts
  <2>3. rf' = o.rf /\ stuck' = (o.res = "stuck")
    BY <2>1 DEF Apply
  <2>4. SessionFor(o.rf)
    <3>0. SessionFor(rf)
      BY DEF Inv
    <3>1. CASE o.rf = rf
      BY <3>0, <3>1
    <3>2. CASE o.rf.sessMode = rf.sessMode /\ o.rf.sess = rf.sess /\ rf.sessMode # m
      <4>1. phy \in SubGhz => rf.sessMode # "prop"
        BY <3>0, <3>2 DEF SessionFor, ModeOf, PropMode, SubGhz, BlePhys, Inv, TypeOK
      <4> QED
        BY <3>0, <3>2, <4>1 DEF SessionFor, SessionClient
    <3>3. CASE o.rf.sessMode = m /\ o.rf.sess = "non433" /\ o.rf.setup = SetupOf(m, b)
      <4>1. phy \in SubGhz /\ m = "prop" => ~ook
        BY DEF ModeOf, PropMode, BlePhys, SubGhz
      <4> QED
        BY <3>0, <3>3, <4>1 DEF SessionFor, SessionClient
    <3> QED
      BY <2>2, <3>1, <3>2, <3>3
  <2>5. Inv'
    <3> HIDE DEF m
    <3>1. m = ModeOf(phy)
      BY DEF m
    <3> QED
      BY <1>0, <2>2, <2>3, <2>4, <3>1, DriverStep
  <2> QED
    BY <1>0, <1>3, <2>5 DEF Kept, RxStep, JamStep
<1> QED
  BY <1>2, <1>3

(* RadioIF_transmitBleAdvRaw                                               *)
LEMMA SendBleAdvKeeps ==
    ASSUME Inv, ~stuck, SendBleAdv
    PROVE  Kept
<1>1. /\ TxAllowed /\ phy \in BlePhys /\ phy # "BLE_2M" /\ blePhy' = phy
      /\ UNCHANGED <<phy, low, ook, propMod, rxVars, testCmd, jam, postFailed>>
  BY DEF SendBleAdv
<1>2. ModeOf(phy) = "ble" /\ SetupOf("ble", phy) \in Setups
  BY <1>1, InvFacts DEF ModeOf
<1>3. CASE ExecuteTx("ble", phy)
  BY <1>1, <1>2, <1>3, ExecuteKeeps
<1>4. CASE UNCHANGED <<rf, stuck>>
  BY <1>1, <1>4, RefusedStep DEF TxAllowed
<1> QED
  BY <1>3, <1>4 DEF SendBleAdv

(* A frame is sent on IEEE 802.15.4,                                       *)
LEMMA SendIeeeKeeps ==
    ASSUME Inv, ~stuck, SendIeee
    PROVE  Kept
<1>1. /\ TxAllowed /\ phy \notin BlePhys /\ phy # "BLE_2M" /\ phy \notin SubGhz
      /\ ExecuteTx("ieee", blePhy)
      /\ UNCHANGED <<phy, low, ook, propMod, rxVars, testCmd, jam, postFailed>>
      /\ blePhy' \in BlePhys
  BY DEF SendIeee, cfgVars, BlePhys, Inv, TypeOK
<1>2. ModeOf(phy) = "ieee"
  BY <1>1 DEF ModeOf
<1>3. SetupOf("ieee", blePhy) \in Setups /\ SetupOf("ieee", blePhy) = SetupOf("ieee", phy)
  BY <1>2, InvFacts DEF SetupOf
<1> QED
  BY <1>1, <1>2, <1>3, ExecuteKeeps

(* or on a proprietary PHY.                                                *)
LEMMA SendPropKeeps ==
    ASSUME Inv, ~stuck, SendProp
    PROVE  Kept
<1>1. /\ TxAllowed /\ phy \in SubGhz /\ phy # "BLE_2M"
      /\ UNCHANGED <<phy, low, ook, propMod, rxVars, testCmd, jam, postFailed>>
      /\ blePhy' \in BlePhys
  BY DEF SendProp, cfgVars, SubGhz, Inv, TypeOK
<1>2. ModeOf(phy) = PropMode(ook, low)
  BY <1>1 DEF ModeOf, SubGhz, BlePhys
<1>3. CASE PropMode(ook, low) # "prop433"
  <2>1. ExecuteTx(PropMode(ook, low), blePhy)
    BY <1>3 DEF SendProp
  <2>2. /\ SetupOf(PropMode(ook, low), blePhy) \in Setups
        /\ SetupOf(PropMode(ook, low), blePhy) = SetupOf(PropMode(ook, low), phy)
    BY <1>2, InvFacts DEF SetupOf, PropMode
  <2> QED
    BY <1>1, <1>2, <1>3, <2>1, <2>2, ExecuteKeeps
<1>4. CASE PropMode(ook, low) = "prop433"
  <2>0. ~rxRunning
    BY <1>1 DEF TxAllowed
  <2>1. PICK o \in Then(Alias433(rf), RunCmd) : Apply(o)
    BY <1>4 DEF SendProp
  <2>2. PICK r \in Alias433(rf) : o \in IF r.res = "ok" THEN RunCmd(r.rf) ELSE {r}
    BY <2>1 DEF Then
  <2>3. /\ rf \in Driver /\ testCmd \in BOOLEAN
        /\ Settled(rf, "prop433", testCmd)
    BY <1>2, <1>4, InvFacts
  <2>4. Switched(rf, "prop433", Null, testCmd, r)
    BY <2>2, <2>3, AliasFacts
  <2>5. /\ o.rf = r.rf
        /\ o.res = "stuck" => \E h \in Clients, k \in Kinds : N(o.rf, h, k) > 0
        /\ o.res # "stuck" => Settled(o.rf, "prop433", testCmd)
    <3>1. CASE r.res = "ok"
      BY <2>2, <2>4, <3>1, RunCmdFacts DEF Switched
    <3>2. CASE r.res # "ok"
      BY <2>2, <2>4, <3>2 DEF Switched, Clients, Kinds
    <3> QED
      BY <3>1, <3>2
  <2>6. rf' = o.rf /\ stuck' = (o.res = "stuck")
    BY <2>1 DEF Apply
  <2>7. SessionFor(o.rf)
    BY <1>2, <1>4, <2>4, <2>5 DEF Switched, SessionFor, SessionClient, Inv
  <2>8. Inv'
    BY <1>1, <1>2, <1>4, <2>0, <2>4, <2>5, <2>6, <2>7, DriverStep DEF Switched
  <2>9. rf'.setup = rf.setup
    BY <2>4, <2>5, <2>6 DEF Switched
  <2> QED
    BY <2>0, <2>8, <2>9 DEF Kept, RxStep, JamStep
<1> QED
  BY <1>3, <1>4

(* An extended advertisement is sent on BLE 2M.                            *)
LEMMA SendExtAdvKeeps ==
    ASSUME Inv, ~stuck, SendExtAdv
    PROVE  Kept
<1>1. /\ TxAllowed /\ phy = "BLE_2M"
      /\ UNCHANGED <<phy, low, ook, propMod, rxVars, testCmd, jam, postFailed>>
      /\ blePhy' \in BlePhys
  BY DEF SendExtAdv, BlePhys
<1>2. ModeOf(phy) = "ble"
  BY <1>1 DEF ModeOf, BlePhys
<1> DEFINE u == SetupOf("ble", "BLE_1M")
<1>3. u \in Setups
  BY DEF SetupOf, Setups, Modes, BlePhys
<1>4. PICK o \in Then(SwitchRfMode(rf, "ble", u), RunCmd) : Apply(o)
  BY DEF SendExtAdv
<1> HIDE DEF u
<1>5. PICK r \in SwitchRfMode(rf, "ble", u) :
         o \in IF r.res = "ok" THEN RunCmd(r.rf) ELSE {r}
  BY <1>4 DEF Then
<1>6. /\ rf \in Driver /\ testCmd \in BOOLEAN /\ "ble" \in Modes
      /\ Settled(rf, "ble", testCmd)
  BY <1>2, InvFacts
<1>7. Switched(rf, "ble", u, testCmd, r)
  BY <1>3, <1>5, <1>6, SwitchFacts
<1>8. /\ o.rf = r.rf
      /\ o.res = "stuck" => \E h \in Clients, k \in Kinds : N(o.rf, h, k) > 0
      /\ o.res # "stuck" => Settled(o.rf, "ble", testCmd)
  <2>1. CASE r.res = "ok"
    BY <1>5, <1>7, <2>1, RunCmdFacts DEF Switched
  <2>2. CASE r.res # "ok"
    BY <1>5, <1>7, <2>2 DEF Switched, Clients, Kinds
  <2> QED
    BY <2>1, <2>2
<1>9. rf' = o.rf /\ stuck' = (o.res = "stuck")
  BY <1>4 DEF Apply
<1>10. SessionFor(o.rf)
  <2>1. phy \notin SubGhz /\ SessionClient(rf) /\ (ook => propMod = "OOK")
    BY <1>1 DEF SubGhz, Inv, SessionFor
  <2>2. \/ o.rf.sessMode = Null
        \/ o.rf.sess = rf.sess /\ o.rf.sessMode = rf.sessMode
    BY <1>7, <1>8 DEF Switched
  <2> QED
    BY <1>1, <2>1, <2>2 DEF SessionFor, SessionClient
<1>11. Inv'
  BY <1>1, <1>2, <1>7, <1>8, <1>9, <1>10, DriverStep DEF Switched, TxAllowed
<1> QED
  BY <1>1, <1>11 DEF Kept, RxStep, JamStep, TxAllowed

-----------------------------------------------------------------------------
(* Steps that cannot hang.                                                 *)

OtherTypes ==
    /\ phy \in Phys /\ blePhy \in BlePhys /\ propMod \in Mods
    /\ low \in BOOLEAN /\ ook \in BOOLEAN
    /\ rxEnabled \in BOOLEAN /\ rxRunning \in BOOLEAN /\ backend \in BOOLEAN
    /\ rfMode \in {"none", "ble", "ieee", "sub1ghz"}
    /\ testCmd \in BOOLEAN /\ postFailed \in BOOLEAN
    /\ jam \in Phys \cup {Null}

(* A step that leaves the task alive, driver and session sound, keeps Inv. *)
LEMMA QuietStep ==
    ASSUME ~stuck', stuck' \in BOOLEAN, OtherTypes',
           rf' \in Driver, testCmd' \in BOOLEAN,
           Settled(rf', ModeOf(phy)', testCmd'), SessionFor(rf)', ReceiverAgrees'
    PROVE  Inv'
<1>1. Bounded(rf')
  BY SettledBounds
<1>2. TypeOK'
  BY <1>1, QueueTyped DEF TypeOK, OtherTypes
<1>3. Settled(rf, ModeOf(phy), testCmd)'
  BY DEF Settled, HandleOpen, Non433Held, Rx433Held, Tone433Held, N
<1> QED
  BY <1>2, <1>3 DEF Inv, StuckOnlyBehindTone

(* RadioIF_stopRx, whatever else the handler does.                         *)
LEMMA StopRxFacts ==
    ASSUME Inv, ~stuck, StopRx
    PROVE  /\ rf' \in Driver /\ ~stuck' /\ stuck' \in BOOLEAN
           /\ Settled(rf', ModeOf(phy), testCmd)
           /\ rf'.sess = rf.sess /\ rf'.sessMode = rf.sessMode /\ rf'.setup = rf.setup
           /\ rf'.open = rf.open /\ rf'.handle = rf.handle
           /\ (\E h \in Clients : N(rf', h, "rx") > 0) => postFailed
<1>1. rf' = (IF backend THEN StopRfBackend(rf) ELSE rf) /\ stuck' = stuck
  BY DEF StopRx, Effect
<1>2. /\ rf \in Driver /\ testCmd \in BOOLEAN
      /\ Settled(rf, ModeOf(phy), testCmd) /\ stuck \in BOOLEAN
  BY InvFacts DEF Inv, TypeOK
<1>3. CASE backend
  <2>1. rf' = StopRfBackend(rf)
    BY <1>1, <1>3
  <2> QED
    BY <1>1, <1>2, <2>1, StopFacts
<1>4. CASE ~backend
  <2>1. rf' = rf
    BY <1>1, <1>4
  <2>2. (\E h \in Clients : N(rf, h, "rx") > 0) => postFailed
    BY <1>4 DEF Inv, ReceiverAgrees
  <2> QED
    BY <1>1, <1>2, <2>1, <2>2
<1> QED
  BY <1>3, <1>4

(* A session survives whatever keeps it, its setup and the configuration.  *)
LEMMA SameSession ==
    ASSUME SessionFor(rf), rf'.sess = rf.sess, rf'.sessMode = rf.sessMode,
           rf'.setup = rf.setup, UNCHANGED <<phy, low, ook, propMod>>
    PROVE  SessionFor(rf)'
BY DEF SessionFor, SessionClient, ModeOf, PropMode, SetupOf

(* A closed session is sound for any configuration.                        *)
LEMMA NoSession ==
    ASSUME rf'.sessMode = Null, ook' => propMod' = "OOK"
    PROVE  SessionFor(rf)'
BY RadioAssumption DEF SessionFor, SessionClient, ModeOf, PropMode, Modes

(* The mode of a PHY depends on nothing else.                              *)
LEMMA SameMode ==
    ASSUME UNCHANGED <<phy, low, ook>>
    PROVE  ModeOf(phy)' = ModeOf(phy) /\ RfModeOf(phy)' = RfModeOf(phy)
BY DEF ModeOf, PropMode, RfModeOf

(* With no receiver running, the receiver's conjunct holds.                *)
LEMMA NoReceiver ==
    ASSUME ~rxRunning', rfMode' = "none", jam' # Null => rf'.open,
           (\E h \in Clients : N(rf', h, "rx") > 0) => postFailed'
    PROVE  ReceiverAgrees'
BY DEF ReceiverAgrees, N

(* RX_STOP                                                                 *)
LEMMA OnRxStopKeeps ==
    ASSUME Inv, ~stuck, OnRxStop \/ OnRadioInit
    PROVE  Kept
<1>1. /\ StopRx /\ jam' \in {jam, Null} /\ rxEnabled' = FALSE
      /\ UNCHANGED <<phy, low, ook, propMod, blePhy, testCmd, postFailed>>
  BY DEF OnRxStop, OnRadioInit, cfgVars
<1>2. ~rxRunning' /\ rxRunning' = FALSE /\ rfMode' = "none" /\ backend' = FALSE
  BY <1>1 DEF StopRx
<1>3. SessionFor(rf)'
  BY <1>1, StopRxFacts, SameSession DEF Inv
<1>4. ReceiverAgrees'
  <2>1. jam' # Null => rf'.open
    BY <1>1, StopRxFacts DEF Inv, ReceiverAgrees
  <2> QED
    BY <1>1, <1>2, <2>1, StopRxFacts, NoReceiver
<1>5. OtherTypes'
  BY <1>1, <1>2 DEF OtherTypes, Inv, TypeOK
<1>6. Settled(rf', ModeOf(phy)', testCmd')
  BY <1>1, StopRxFacts, SameMode
<1>7. Inv'
  BY <1>1, <1>3, <1>4, <1>5, <1>6, StopRxFacts, InvFacts, QuietStep
<1> QED
  BY <1>1, <1>2, <1>7, StopRxFacts DEF Kept, RxStep, JamStep

(* SET_PHY, with or without a running receiver.                            *)
LEMMA OnSetPhyKeeps ==
    ASSUME Inv, ~stuck, NEW p \in Phys, NEW band \in {"same", "low", "high"}, OnSetPhy(p, band)
    PROVE  Kept
<1> DEFINE d == CloseTxSession(rf)
<1>1. /\ rf' = StopRfBackend(d) /\ stuck' = stuck
      /\ rxRunning' = FALSE /\ ~rxRunning'
      /\ rfMode' = IF rf.handle # Null THEN "none" ELSE rfMode
      /\ ook' = FALSE /\ ~ook' /\ phy' = p
      /\ low' = IF band = "same" THEN low ELSE band = "low"
      /\ UNCHANGED <<blePhy, propMod, rxEnabled, backend, testCmd, jam, postFailed>>
  BY DEF OnSetPhy, Effect
<1>2. /\ rf \in Driver /\ testCmd \in BOOLEAN
      /\ Settled(rf, ModeOf(phy), testCmd) /\ SessionClient(rf)
  BY InvFacts
<1>3. /\ d \in Driver /\ Settled(d, ModeOf(phy), testCmd)
      /\ d.sessMode = Null /\ d.open = rf.open /\ d.setup = rf.setup
  BY <1>2, CloseFacts
<1> HIDE DEF d
<1>4. /\ rf' \in Driver /\ \A n : Settled(rf', n, testCmd)
      /\ \A h \in Clients : N(rf', h, "rx") = 0
      /\ rf'.sessMode = Null /\ rf'.open = rf.open /\ rf'.setup = rf.setup
  BY <1>1, <1>2, <1>3, StopFacts
<1>5. SessionFor(rf)'
  BY <1>1, <1>4, NoSession
<1>6. rfMode' = "none"
  BY <1>1 DEF Inv, TypeOK, ReceiverAgrees
<1>7. ReceiverAgrees'
  <2>1. jam' # Null => rf'.open
    BY <1>1, <1>4 DEF Inv, ReceiverAgrees
  <2>2. ~ \E h \in Clients : N(rf', h, "rx") > 0
    BY <1>4
  <2> QED
    BY <1>1, <1>6, <2>1, <2>2, NoReceiver
<1>8. OtherTypes'
  BY <1>1, <1>6 DEF OtherTypes, Inv, TypeOK
<1>9. Inv'
  BY <1>1, <1>2, <1>4, <1>5, <1>7, <1>8, QuietStep DEF Inv, TypeOK
<1> QED
  BY <1>1, <1>4, <1>9 DEF Kept, RxStep, JamStep

(* SET_PROP_CONFIG on 433 MHz                                              *)
LEMMA OnSetPropConfig433Keeps ==
    ASSUME Inv, ~stuck, NEW mod \in Mods, OnSetPropConfig433(mod)
    PROVE  Kept
<1>1. /\ ook' = FALSE /\ ~ook' /\ low' = TRUE
      /\ IF rxRunning THEN StopRx ELSE UNCHANGED <<rf, stuck, rxRunning, backend, rfMode>>
      /\ UNCHANGED <<phy, blePhy, propMod, rxEnabled, testCmd, jam, postFailed>>
  BY DEF OnSetPropConfig433
<1>2. /\ rf \in Driver /\ testCmd \in BOOLEAN
      /\ Settled(rf, ModeOf(phy), testCmd) /\ ~stuck /\ stuck \in BOOLEAN
  BY InvFacts DEF Inv, TypeOK
<1>3. /\ rf' \in Driver /\ ~stuck' /\ stuck' \in BOOLEAN
      /\ Settled(rf', ModeOf(phy), testCmd)
      /\ rf'.sess = rf.sess /\ rf'.sessMode = rf.sessMode /\ rf'.setup = rf.setup
      /\ rf'.open = rf.open
      /\ (\E h \in Clients : N(rf', h, "rx") > 0) => postFailed
      /\ rxRunning' = FALSE /\ rfMode' = "none" /\ backend' \in BOOLEAN
  <2>1. CASE rxRunning
    BY <1>1, <2>1, StopRxFacts DEF StopRx
  <2>2. CASE ~rxRunning
    <3>1. rf' = rf /\ stuck' = stuck /\ rxRunning' = rxRunning /\ backend' = backend
          /\ rfMode' = rfMode
      BY <1>1, <2>2
    <3>2. rfMode = "none" /\ rxRunning = FALSE /\ backend \in BOOLEAN
          /\ ((\E h \in Clients : N(rf, h, "rx") > 0) => postFailed)
      BY <2>2 DEF Inv, TypeOK, ReceiverAgrees
    <3> QED
      BY <1>2, <3>1, <3>2
  <2> QED
    BY <2>1, <2>2
<1>4. ModeOf(phy)' = ModeOf(phy) \/ ModeOf(phy)' = "prop433"
  BY <1>1 DEF ModeOf, PropMode
<1>5. Settled(rf', ModeOf(phy)', testCmd')
  BY <1>1, <1>2, <1>3, <1>4, SettledInMode
<1>6. SessionFor(rf)'
  <2>1. SessionFor(rf)
    BY DEF Inv
  <2> QED
    BY <1>1, <1>3, <1>4, <2>1
    DEF SessionFor, SessionClient, ModeOf, PropMode, SetupOf, BlePhys, SubGhz
<1>7. ReceiverAgrees'
  <2>1. jam' # Null => rf'.open
    BY <1>1, <1>3 DEF Inv, ReceiverAgrees
  <2> QED
    BY <1>1, <1>3, <2>1, NoReceiver
<1>8. OtherTypes'
  BY <1>1, <1>3 DEF OtherTypes, Inv, TypeOK
<1>9. Inv'
  BY <1>1, <1>2, <1>3, <1>5, <1>6, <1>7, <1>8, QuietStep
<1> QED
  BY <1>1, <1>3, <1>9 DEF Kept, RxStep, JamStep

(* A receiver is posted when its count is not zero.                        *)
LEMMA RxPostedIs ==
    ASSUME rf' \in Driver, rf'.handle # Null, N(rf', rf'.handle, "rx") > 0
    PROVE  RxPosted'
<1>1. [on |-> rf'.handle, kind |-> "rx"] \in Posted
  BY DEF Posted, Driver
<1> QED
  BY <1>1 DEF RxPosted, N

(* SET_PROP_CONFIG on any other band                                       *)
LEMMA OnSetPropConfigKeeps ==
    ASSUME Inv, ~stuck, NEW mod \in Mods, NEW toLow \in BOOLEAN, OnSetPropConfig(mod, toLow)
    PROVE  Kept
<1>1. /\ ~toLow \/ mod = "OOK"
      /\ propMod' = mod /\ ook' = (mod = "OOK") /\ low' = toLow
      /\ UNCHANGED <<phy, blePhy, rxEnabled, backend, testCmd, jam, postFailed>>
  BY DEF OnSetPropConfig
<1>2. /\ rf \in Driver /\ testCmd \in BOOLEAN
      /\ Settled(rf, ModeOf(phy), testCmd) /\ SessionClient(rf)
      /\ stuck \in BOOLEAN
  BY InvFacts DEF Inv, TypeOK
<1>3. CASE ook
  <2>1. /\ rf' = rf /\ stuck' = stuck /\ rxRunning' = rxRunning /\ rfMode' = rfMode
    BY <1>3 DEF OnSetPropConfig
  <2>2. \/ ModeOf(phy)' = ModeOf(phy)
        \/ ModeOf(phy) # "prop433"
    BY <1>1, <1>3 DEF ModeOf, PropMode
  <2>3. Settled(rf', ModeOf(phy)', testCmd')
    BY <1>1, <1>2, <2>1, <2>2, SettledInMode
  <2>4. SessionFor(rf)'
    <3>1. SessionFor(rf)
      BY DEF Inv
    <3>2. CASE mod = "OOK"
      <4>1. propMod' = propMod /\ ook' = ook
        BY <1>1, <1>3, <3>1, <3>2 DEF SessionFor
      <4>2. ModeOf(phy)' = ModeOf(phy)
        BY <1>1, <1>3, <4>1 DEF ModeOf, PropMode
      <4> QED
        BY <1>1, <2>1, <3>1, <3>2, <4>1, <4>2 DEF SessionFor, SessionClient, SetupOf
    <3>3. CASE mod # "OOK"
      BY <1>1, <1>3, <2>1, <3>1, <3>3
      DEF SessionFor, SessionClient, ModeOf, PropMode, SetupOf, BlePhys, SubGhz
    <3> QED
      BY <3>2, <3>3
  <2>5. ReceiverAgrees'
    <3>1. rxRunning /\ rf.handle = "433" => ModeOf(phy)' = "prop433"
      BY <1>1, <1>3 DEF Inv, ReceiverAgrees, ModeOf, PropMode
    <3> QED
      BY <1>1, <2>1, <3>1 DEF Inv, ReceiverAgrees, RfModeOf, N
  <2>6. OtherTypes'
    BY <1>1, <2>1 DEF OtherTypes, Inv, TypeOK
  <2>7. Inv'
    BY <1>1, <1>2, <2>1, <2>3, <2>4, <2>5, <2>6, QuietStep
  <2> QED
    BY <2>1, <2>7 DEF Kept, RxStep, JamStep, RxPosted
<1>4. CASE ~ook
  <2> DEFINE d == CloseTxSession(rf)
  <2>1. /\ rf' = StopRfBackend(d) /\ stuck' = stuck
        /\ rxRunning' = (rxRunning /\ rf.handle = Null)
        /\ rfMode' = IF rf.handle # Null THEN "none" ELSE rfMode
    BY <1>4 DEF OnSetPropConfig, Effect
  <2>2. rxRunning' = FALSE /\ rfMode' = "none"
    BY <2>1 DEF Inv, TypeOK, ReceiverAgrees
  <2>3. /\ d \in Driver /\ Settled(d, ModeOf(phy), testCmd)
        /\ d.sessMode = Null /\ d.open = rf.open /\ d.setup = rf.setup
    BY <1>2, CloseFacts
  <2> HIDE DEF d
  <2>4. /\ rf' \in Driver /\ \A n : Settled(rf', n, testCmd)
        /\ \A h \in Clients : N(rf', h, "rx") = 0
        /\ rf'.sessMode = Null /\ rf'.open = rf.open /\ rf'.setup = rf.setup
    BY <1>2, <2>1, <2>3, StopFacts
  <2>5. SessionFor(rf)'
    BY <1>1, <2>4, NoSession
  <2>6. ReceiverAgrees'
    <3>1. jam' # Null => rf'.open
      BY <1>1, <2>4 DEF Inv, ReceiverAgrees
    <3>2. ~ \E h \in Clients : N(rf', h, "rx") > 0
      BY <2>4
    <3> QED
      BY <2>2, <3>1, <3>2, NoReceiver
  <2>7. OtherTypes'
    BY <1>1, <2>2 DEF OtherTypes, Inv, TypeOK
  <2>8. Inv'
    BY <1>1, <1>2, <2>1, <2>4, <2>5, <2>6, <2>7, QuietStep
  <2> QED
    BY <2>2, <2>4, <2>8 DEF Kept, RxStep, JamStep
<1> QED
  BY <1>3, <1>4 DEF Inv, TypeOK

(* SET_CHANNEL                                                             *)
LEMMA OnSetChannelKeeps ==
    ASSUME Inv, ~stuck, OnSetChannel
    PROVE  Kept
<1> DEFINE d == CloseTxSession(rf)
           e == Flush(d, d.handle)
<1>1. PICK o \in RestartRx(d) :
         /\ rf' = o.rf /\ stuck' = stuck
         /\ postFailed' = (postFailed \/ o.res = "failed")
  BY DEF OnSetChannel, Effect
<1>2. UNCHANGED <<phy, low, ook, propMod, blePhy, rxVars, testCmd, jam>>
  BY DEF OnSetChannel, cfgVars
<1>3. /\ rf \in Driver /\ testCmd \in BOOLEAN
      /\ Settled(rf, ModeOf(phy), testCmd) /\ SessionClient(rf)
      /\ stuck \in BOOLEAN
  BY InvFacts DEF Inv, TypeOK
<1>4. /\ d \in Driver /\ Settled(d, ModeOf(phy), testCmd)
      /\ d.sess = Null /\ d.sessMode = Null /\ d.open = rf.open
      /\ d.handle = rf.handle /\ d.setup = rf.setup
      /\ \A h \in Clients, k \in Kinds : N(d, h, k) \in {0, N(rf, h, k)}
  BY <1>3, CloseFacts
<1> HIDE DEF d
<1>5. /\ rf' \in Driver /\ Settled(rf', ModeOf(phy), testCmd)
      /\ rf'.sessMode = Null /\ rf'.open = rf.open /\ rf'.setup = rf.setup
      /\ rf'.handle = rf.handle
      /\ (\E h \in Clients : N(rf', h, "rx") > 0) => rxRunning \/ postFailed'
      /\ rxRunning => RxPosted' \/ postFailed'
  <2>1. CASE ~(backend /\ d.handle # Null /\ rfMode = RfModeOf(phy))
    <3>1. o = Result("ok", d)
      BY <1>1, <2>1 DEF RestartRx
    <3>2. rf' = d /\ postFailed' = postFailed
      BY <1>1, <3>1 DEF Result, Inv, TypeOK
    <3>3. ~rxRunning
      BY <1>4, <2>1 DEF Inv, ReceiverAgrees
    <3>4. (\E h \in Clients : N(d, h, "rx") > 0) => postFailed
      <4>1. \A h \in Clients : N(d, h, "rx") > 0 => N(rf, h, "rx") > 0
        BY <1>4 DEF Kinds
      <4> QED
        BY <3>3, <4>1 DEF Inv, ReceiverAgrees
    <3> QED
      BY <1>4, <3>2, <3>3, <3>4
  <2>2. CASE backend /\ d.handle # Null /\ rfMode = RfModeOf(phy)
    <3>1. o = Result("failed", e) \/ o = Result("ok", Post(e, "rx"))
      BY <1>1, <2>2 DEF RestartRx, PostRx
    <3>2. /\ e \in Driver /\ e = [d EXCEPT !.queue = e.queue]
          /\ Settled(e, ModeOf(phy), testCmd)
          /\ \A h \in Clients : N(e, h, "rx") = 0
      BY <1>3, <1>4, <2>2, FlushHandleFacts
    <3> HIDE DEF e
    <3>3. /\ e.sess = Null /\ e.sessMode = Null /\ e.open = rf.open
          /\ e.handle = rf.handle /\ e.setup = rf.setup
      BY <1>4, <3>2 DEF Driver
    <3>4. CASE o = Result("failed", e)
      <4>1. rf' = e /\ postFailed' = TRUE
        BY <1>1, <3>4 DEF Result
      <4> QED
        BY <3>2, <3>3, <4>1
    <3>5. CASE o = Result("ok", Post(e, "rx"))
      <4> DEFINE g == Post(e, "rx")
      <4>1. rf' = g
        BY <1>1, <3>5 DEF Result
      <4>2. e.handle # Null
        BY <1>4, <2>2, <3>3
      <4>3. g \in Driver /\ g = [e EXCEPT !.queue = g.queue] /\ g.queue = Post(e, "rx").queue
        BY <3>2, <4>2, PostFacts DEF Kinds
      <4> HIDE DEF g
      <4>4. /\ g.sessMode = Null /\ g.open = rf.open
            /\ g.handle = rf.handle /\ g.setup = rf.setup
        BY <3>2, <3>3, <4>3 DEF Driver
      <4>5. rfMode # "none"
        BY <2>2 DEF RfModeOf
      <4>6. rxRunning /\ (rf.handle = "433" => ModeOf(phy) = "prop433")
        BY <4>5 DEF Inv, ReceiverAgrees
      <4>7. N(e, "433", "rx") = 0 /\ N(e, "non433", "rx") = 0
        BY <3>2 DEF Clients
      <4>8. N(e, "433", "rx") <= 1
        BY <4>7
      <4>9. Settled(g, ModeOf(phy), testCmd) /\ N(g, g.handle, "rx") > 0
        BY <1>3, <3>2, <3>3, <4>2, <4>3, <4>4, <4>6, <4>7, <4>8, PostRxSettled
      <4>10. RxPosted'
        BY <3>3, <4>1, <4>2, <4>3, <4>4, <4>9, RxPostedIs
      <4> QED
        BY <4>1, <4>3, <4>4, <4>6, <4>9, <4>10
    <3> QED
      BY <3>1, <3>4, <3>5
  <2> QED
    BY <2>1, <2>2
<1>6. SessionFor(rf)'
  BY <1>2, <1>5, NoSession DEF Inv, SessionFor
<1>7. ModeOf(phy)' = ModeOf(phy) /\ RfModeOf(phy)' = RfModeOf(phy)
  BY <1>2, SameMode
<1>8. ReceiverAgrees'
  <2>1. (\E h \in Clients : N(rf, h, "rx") > 0)' => rxRunning' \/ postFailed'
    BY <1>2, <1>5 DEF N, rxVars
  <2> QED
    BY <1>2, <1>5, <1>7, <2>1 DEF Inv, ReceiverAgrees, rxVars
<1>9. OtherTypes'
  BY <1>1, <1>2 DEF OtherTypes, Inv, TypeOK, rxVars
<1>10. Inv'
  BY <1>1, <1>2, <1>3, <1>5, <1>6, <1>7, <1>8, <1>9, QuietStep
<1> QED
  BY <1>5, <1>10 DEF Kept, RxStep, JamStep

(* RadioIF_startRx on a closed session, for the selected PHY.              *)
LEMMA StartBackendFacts ==
    ASSUME Inv, ~stuck, NEW d \in Driver, Settled(d, ModeOf(phy), testCmd),
           d.sess = Null, d.sessMode = Null, NEW o \in StartBackend(d)
    PROVE  Started(d, ModeOf(phy), testCmd, o)
<1>0. testCmd \in BOOLEAN /\ ModeOf(phy) \in Modes /\ blePhy \in BlePhys
  BY InvFacts DEF Inv, TypeOK
<1>1. CASE phy \in BlePhys
  <2>1. ModeOf(phy) = "ble" /\ SetupOf("ble", phy) \in Setups
    BY <1>1, InvFacts DEF ModeOf
  <2>2. o \in Then(SwitchRfMode(d, "ble", SetupOf("ble", phy)), PostRx)
    <3>1. phy \notin SubGhz
      BY <1>1 DEF BlePhys, SubGhz
    <3>2. o \in StartBle(d)
      BY <1>1, <3>1 DEF StartBackend
    <3> QED
      BY <3>2 DEF StartBle
  <2>3. o = Result("ok", o.rf) \/ o.res # "ok"
    <3>1. PICK s \in SwitchRfMode(d, "ble", SetupOf("ble", phy)) :
             o \in IF s.res = "ok" THEN PostRx(s.rf) ELSE {s}
      BY <2>2 DEF Then
    <3> QED
      BY <3>1 DEF PostRx, Result
  <2> QED
    BY <1>0, <2>1, <2>2, <2>3, StartFacts
<1>2. CASE phy \notin BlePhys /\ phy \notin SubGhz
  <2>1. ModeOf(phy) = "ieee" /\ SetupOf("ieee", blePhy) \in Setups
    <3>1. ModeOf(phy) = "ieee"
      BY <1>2 DEF ModeOf
    <3> QED
      BY <3>1, InvFacts
  <2>2. o \in Then(SwitchRfMode(d, "ieee", SetupOf("ieee", blePhy)), PostRx)
    BY <1>2 DEF StartBackend, StartIeee
  <2>3. o = Result("ok", o.rf) \/ o.res # "ok"
    <3>1. PICK s \in SwitchRfMode(d, "ieee", SetupOf("ieee", blePhy)) :
             o \in IF s.res = "ok" THEN PostRx(s.rf) ELSE {s}
      BY <2>2 DEF Then
    <3> QED
      BY <3>1 DEF PostRx, Result
  <2> QED
    BY <1>0, <2>1, <2>2, <2>3, StartFacts
<1>3. CASE phy \notin BlePhys /\ phy \in SubGhz
  <2> DEFINE m == PropMode(ook, low)
             preset(e) == IF m # "prop433" THEN e
                          ELSE [e EXCEPT !.sess = e.handle, !.sessMode = m]
  <2>1. ModeOf(phy) = m /\ SetupOf(m, blePhy) \in Setups
    <3>1. ModeOf(phy) = m
      BY <1>3 DEF ModeOf
    <3> QED
      BY <3>1, InvFacts
  <2>2. PICK q \in Then(SwitchRfMode(d, m, SetupOf(m, blePhy)), PostRx) :
           o \in IF q.res = "ok" THEN {Result("ok", preset(q.rf))} ELSE {q}
    <3>1. o \in StartSub1ghz(d)
      BY <1>3 DEF StartBackend
    <3> QED
      BY <3>1 DEF StartSub1ghz, Then
  <2>3. /\ q.res # "ok" => Started(d, m, testCmd, q)
        /\ q.res = "ok" => Started(d, m, testCmd, Result("ok", preset(q.rf)))
    <3> DEFINE v == SetupOf(m, blePhy)
    <3>1. m \in Modes /\ v \in Setups /\ testCmd \in BOOLEAN /\ Settled(d, m, testCmd)
          /\ q \in Then(SwitchRfMode(d, m, v), PostRx)
      BY <1>0, <2>1, <2>2
    <3> HIDE DEF m, v
    <3> QED
      BY <3>1, StartFacts
  <2> QED
    BY <2>1, <2>2, <2>3
<1> QED
  BY <1>1, <1>2, <1>3

(* RX_START                                                                *)
LEMMA OnRxStartKeeps ==
    ASSUME Inv, ~stuck, OnRxStart
    PROVE  Kept
<1> DEFINE d == CloseTxSession(rf)
<1>1. /\ jam = Null /\ rxEnabled' = TRUE
      /\ UNCHANGED <<phy, low, ook, propMod, testCmd, jam>>
      /\ blePhy' \in BlePhys
  BY DEF OnRxStart, StartRx, Inv, TypeOK
<1>2. PICK o \in StartBackend(d) :
         /\ rf' = o.rf /\ stuck' = (o.res = "stuck")
         /\ postFailed' = (postFailed \/ o.res = "failed")
         /\ rxRunning' = (o.res # "failed")
         /\ backend' = IF o.res = "stuck" THEN backend ELSE o.res = "ok"
         /\ rfMode' = IF o.res = "failed" THEN "none" ELSE RfModeOf(phy)
  BY DEF OnRxStart, StartRx, Apply
<1>3. /\ rf \in Driver /\ testCmd \in BOOLEAN
      /\ Settled(rf, ModeOf(phy), testCmd) /\ SessionClient(rf)
  BY InvFacts
<1>4. /\ d \in Driver /\ Settled(d, ModeOf(phy), testCmd)
      /\ d.sess = Null /\ d.sessMode = Null
  BY <1>3, CloseFacts
<1> HIDE DEF d
<1>5. Started(d, ModeOf(phy), testCmd, o)
  BY <1>2, <1>4, StartBackendFacts
<1>6. /\ rf' \in Driver /\ Bounded(rf') /\ o.res \in {"ok", "failed", "stuck"}
      /\ stuck' => N(rf', "433", "tone") > 0
      /\ ~stuck' => Settled(rf', ModeOf(phy), testCmd)
      /\ o.res = "ok" => /\ rf'.handle = IF ModeOf(phy) = "prop433" THEN "433" ELSE "non433"
                         /\ N(rf', rf'.handle, "rx") > 0
      /\ rf'.sessMode = Null \/ (rf'.sessMode = "prop433" /\ rf'.sess = "433")
  BY <1>2, <1>5 DEF Started
<1>7. SessionFor(rf)'
  <2>1. ook' => propMod' = "OOK"
    BY <1>1 DEF Inv, SessionFor
  <2>2. CASE rf'.sessMode = Null
    BY <2>1, <2>2, NoSession
  <2>3. CASE rf'.sessMode = "prop433" /\ rf'.sess = "433"
    BY <2>1, <2>3, RadioAssumption DEF SessionFor, SessionClient, Modes
  <2> QED
    BY <1>6, <2>2, <2>3
<1>8. TypeOK'
  <2>1. \A c \in Posted : rf'.queue[c] <= 2
    BY <1>6, QueueTyped
  <2>2. RfModeOf(phy) \in {"none", "ble", "ieee", "sub1ghz"}
    BY DEF RfModeOf
  <2> QED
    BY <1>1, <1>2, <1>6, <2>1, <2>2 DEF Inv, TypeOK
<1>9. StuckOnlyBehindTone'
  <2>1. stuck' => TonePosted'
    BY <1>6, TonePostedIs DEF Clients
  <2> QED
    BY <2>1 DEF StuckOnlyBehindTone
<1>10. ModeOf(phy)' = ModeOf(phy) /\ RfModeOf(phy)' = RfModeOf(phy)
  BY <1>1, SameMode
<1>11. ~stuck' => Settled(rf, ModeOf(phy), testCmd)'
  BY <1>1, <1>6, <1>10 DEF Settled, HandleOpen, Non433Held, Rx433Held, Tone433Held, N
<1>12. ~stuck' => ReceiverAgrees'
  <2>1. CASE o.res = "ok"
    <3>1. rxRunning' /\ backend' /\ rfMode' = RfModeOf(phy) /\ rf'.handle # Null
      BY <1>2, <1>6, <2>1, RadioAssumption DEF Clients
    <3> QED
      BY <1>1, <1>6, <1>10, <2>1, <3>1 DEF ReceiverAgrees
  <2>2. CASE o.res = "failed"
    BY <1>1, <1>2, <2>2, NoReceiver
  <2>3. CASE o.res = "stuck"
    BY <1>2, <2>3
  <2> QED
    BY <1>6, <2>1, <2>2, <2>3
<1>13. Inv'
  BY <1>7, <1>8, <1>9, <1>11, <1>12 DEF Inv
<1>14. RxStep
  <2>1. CASE o.res = "ok"
    <3>1. rf'.handle # Null
      BY <1>6, <2>1, RadioAssumption DEF Clients
    <3> QED
      BY <1>6, <2>1, <3>1, RxPostedIs DEF RxStep
  <2>2. CASE o.res # "ok"
    BY <1>2, <1>6, <2>2 DEF RxStep
  <2> QED
    BY <2>1, <2>2
<1> QED
  BY <1>1, <1>13, <1>14 DEF Kept, JamStep

-----------------------------------------------------------------------------
(* Jam sessions.                                                           *)

(* RadioIF_pollJamSession                                                  *)
LEMMA JamPollKeeps ==
    ASSUME Inv, ~stuck, JamPoll
    PROVE  Kept
<1>1. /\ jam # Null /\ blePhy' \in BlePhys
      /\ UNCHANGED <<phy, low, ook, propMod, rxVars, testCmd, jam, postFailed>>
  BY DEF JamPoll, Inv, TypeOK
<1>2. PICK o \in RunCmd(rf) : rf' = o.rf /\ stuck' = (o.res = "stuck")
  BY DEF JamPoll, JamTx, Apply
<1>3. /\ rf \in Driver /\ Settled(rf, ModeOf(phy), testCmd) /\ SessionFor(rf)
      /\ ~rxRunning
  BY <1>1, InvFacts DEF Inv, ReceiverAgrees
<1>4. /\ rf' = rf
      /\ stuck' => \E h \in Clients, k \in Kinds : N(rf', h, k) > 0
  BY <1>2, <1>3, RunCmdFacts
<1>5. \A h \in Clients, k \in Kinds : N(rf', h, k) <= N(rf, h, k)
  <2>1. \A h \in Clients, k \in Kinds : N(rf, h, k) <= N(rf, h, k)
    BY <1>3, CountsAreQueue
  <2> QED
    BY <1>4, <2>1
<1>6. /\ rf' \in Driver /\ stuck' \in BOOLEAN /\ SessionFor(rf')
      /\ Settled(rf', ModeOf(phy), testCmd)
  BY <1>2, <1>3, <1>4
<1>7. Inv'
  BY <1>1, <1>3, <1>4, <1>5, <1>6, DriverStep
<1> QED
  BY <1>3, <1>4, <1>7 DEF Kept, RxStep, JamStep

(* RadioIF_stopJamSession                                                  *)
LEMMA StopJamKeeps ==
    ASSUME Inv, ~stuck, StopJam
    PROVE  Kept
<1>1. /\ jam' = Null /\ jam # Null
      /\ UNCHANGED <<rf, stuck, cfgVars, rxVars, testCmd, postFailed>>
  BY DEF StopJam
<1>2. /\ rf \in Driver /\ Settled(rf, ModeOf(phy), testCmd) /\ SessionFor(rf)
      /\ ~rxRunning /\ stuck \in BOOLEAN /\ testCmd \in BOOLEAN
  BY <1>1, InvFacts DEF Inv, TypeOK, ReceiverAgrees
<1>3. SessionFor(rf)'
  BY <1>1, <1>2, SameSession DEF cfgVars
<1>4. ReceiverAgrees'
  <2>1. rfMode' = "none"
    BY <1>1, <1>2 DEF Inv, TypeOK, ReceiverAgrees, rxVars
  <2>2. (\E h \in Clients : N(rf', h, "rx") > 0) => postFailed'
    BY <1>1, <1>2 DEF Inv, ReceiverAgrees
  <2> QED
    BY <1>1, <1>2, <2>1, <2>2, NoReceiver DEF rxVars
<1>5. OtherTypes'
  BY <1>1 DEF OtherTypes, Inv, TypeOK, cfgVars, rxVars
<1>6. Settled(rf', ModeOf(phy)', testCmd')
  BY <1>1, <1>2, SameMode DEF cfgVars
<1>7. Inv'
  BY <1>1, <1>2, <1>3, <1>4, <1>5, <1>6, QuietStep
<1> QED
  BY <1>1, <1>2, <1>7 DEF Kept, RxStep, JamStep, rxVars

(* RadioIF_startJamSession                                                 *)
LEMMA StartJamKeeps ==
    ASSUME Inv, ~stuck, StartJam
    PROVE  Kept
<1> DEFINE m == ModeOf(phy)
           d == CloseTxSession(rf)
           ble == IF phy \in BlePhys THEN phy ELSE blePhy
           u == SetupOf(m, ble)
<1>1. /\ TxAllowed /\ jam = Null /\ phy \notin SubGhz /\ blePhy' = ble
      /\ UNCHANGED <<phy, low, ook, propMod, rxVars, testCmd, postFailed>>
  BY DEF StartJam
<1>2. PICK o \in Then(Then(SwitchRfMode(d, m, u), RunCmd), JamTx) :
         /\ rf' = o.rf /\ stuck' = (o.res = "stuck")
         /\ jam' = IF o.res = "ok" THEN phy ELSE jam
  BY DEF StartJam, Apply
<1>3. PICK q \in Then(SwitchRfMode(d, m, u), RunCmd) :
         o \in IF q.res = "ok" THEN RunCmd(q.rf) ELSE {q}
  BY <1>2 DEF Then, JamTx
<1>4. PICK r \in SwitchRfMode(d, m, u) : q \in IF r.res = "ok" THEN RunCmd(r.rf) ELSE {r}
  BY <1>3 DEF Then
<1>5. /\ rf \in Driver /\ testCmd \in BOOLEAN /\ m \in Modes
      /\ Settled(rf, m, testCmd) /\ SessionClient(rf)
  BY InvFacts
<1>6. u \in Setups
  BY InvFacts DEF ModeOf
<1>7. m # "prop433"
  BY <1>1 DEF ModeOf
<1>8. /\ d \in Driver /\ Settled(d, m, testCmd)
      /\ d.sess = Null /\ d.sessMode = Null /\ d.open = rf.open
      /\ \A h \in Clients, k \in Kinds : N(d, h, k) \in {0, N(rf, h, k)}
  BY <1>5, CloseFacts
<1> HIDE DEF d, u
<1>9. Switched(d, m, u, testCmd, r)
  BY <1>4, <1>5, <1>6, <1>8, SwitchFacts
<1>10. /\ o.rf = r.rf
       /\ o.res \in {"ok", "failed", "stuck"}
       /\ o.res = "stuck" => \E h \in Clients, k \in Kinds : N(o.rf, h, k) > 0
       /\ o.res # "stuck" => Settled(o.rf, m, testCmd)
       /\ o.res = "ok" => r.res = "ok"
  <2>1. CASE r.res = "ok"
    <3>1. q.rf = r.rf /\ (q.res = "stuck" => \E h \in Clients, k \in Kinds : N(r.rf, h, k) > 0)
          /\ q.res \in {"ok", "failed", "stuck"}
      BY <1>4, <1>9, <2>1, RunCmdFacts DEF Switched
    <3>2. o.rf = r.rf /\ (o.res = "stuck" => \E h \in Clients, k \in Kinds : N(r.rf, h, k) > 0)
          /\ o.res \in {"ok", "failed", "stuck"}
      BY <1>3, <1>9, <3>1, RunCmdFacts DEF Switched
    <3> QED
      BY <1>9, <2>1, <3>2 DEF Switched
  <2>2. CASE r.res # "ok"
    <3>1. o = r
      BY <1>3, <1>4, <2>2
    <3> QED
      BY <1>9, <2>2, <3>1 DEF Switched, Clients, Kinds
  <2> QED
    BY <2>1, <2>2
<1>11. rf' \in Driver /\ rf'.sessMode = Null
  BY <1>2, <1>7, <1>8, <1>9, <1>10 DEF Switched
<1>12. SessionFor(rf')
  BY <1>5, <1>11, RadioAssumption DEF Inv, SessionFor, SessionClient, Modes
<1>13. \A h \in Clients, k \in Kinds : N(rf', h, k) <= N(rf, h, k)
  <2>1. \A h \in Clients, k \in Kinds :
           N(rf, h, k) \in Nat /\ N(rf', h, k) \in Nat /\ N(d, h, k) \in Nat
    BY <1>5, <1>8, <1>11, CountsAreQueue
  <2>2. \A h \in Clients, k \in Kinds : N(rf', h, k) <= N(d, h, k)
    BY <1>2, <1>9, <1>10 DEF Switched
  <2> QED
    BY <1>8, <2>1, <2>2
<1>14. o.res = "ok" => rf'.open
  BY <1>2, <1>7, <1>9, <1>10 DEF Switched, Settled, HandleOpen
<1>15. ~rxRunning
  BY <1>1 DEF TxAllowed
<1>16. jam' \in Phys \cup {Null} /\ (jam' # Null => rf'.open)
  BY <1>1, <1>2, <1>14 DEF Inv, TypeOK
<1>17. blePhy' \in BlePhys
  BY <1>1 DEF Inv, TypeOK
<1>18. Inv'
  BY <1>1, <1>2, <1>10, <1>11, <1>12, <1>13, <1>15, <1>16, <1>17, JamDriverStep
<1> QED
  BY <1>1, <1>15, <1>18 DEF Kept, RxStep, JamStep

-----------------------------------------------------------------------------
(* Test tones.                                                             *)

(* After RadioIF_stopTxTest the driver is settled with the handle cleared. *)
LEMMA StopTestFacts ==
    ASSUME Inv, ~stuck, NEW d \in Driver, NEW m, Settled(d, m, testCmd)
    PROVE  /\ StopTest(d) \in Driver /\ Settled(StopTest(d), m, FALSE)
           /\ StopTest(d).handle = d.handle /\ StopTest(d).open = d.open
           /\ StopTest(d).sess = d.sess /\ StopTest(d).sessMode = d.sessMode
           /\ StopTest(d).setup = d.setup
           /\ \A h \in Clients, k \in Kinds : N(StopTest(d), h, k) <= N(d, h, k)
<1>0. testCmd \in BOOLEAN /\ \A h \in Clients, k \in Kinds : N(d, h, k) \in Nat
  BY CountsAreQueue, InvFacts
<1>1. CASE d.handle # Null /\ testCmd
  <2> DEFINE e == Flush(d, d.handle)
  <2>1. StopTest(d) = e
    BY <1>1 DEF StopTest
  <2>2. /\ e \in Driver
        /\ e = [d EXCEPT !.queue = e.queue]
        /\ \A u : u \in BOOLEAN => Settled(e, m, u)
        /\ \A h \in Clients, k \in Kinds : N(e, h, k) \in {0, N(d, h, k)}
    BY <1>0, <1>1, FlushHandleFacts
  <2> HIDE DEF e
  <2>3. /\ e.handle = d.handle /\ e.open = d.open /\ e.setup = d.setup
        /\ e.sess = d.sess /\ e.sessMode = d.sessMode
    BY <2>2 DEF Driver
  <2>4. \A h \in Clients, k \in Kinds : N(e, h, k) <= N(d, h, k)
    BY <1>0, <2>2
  <2> QED
    BY <2>1, <2>2, <2>3, <2>4
<1>2. CASE ~(d.handle # Null /\ testCmd)
  <2>1. StopTest(d) = d
    BY <1>2 DEF StopTest
  <2>2. Settled(d, m, FALSE)
    <3>1. CASE ~testCmd
      <4>1. testCmd = FALSE
        BY <1>0, <3>1
      <4> QED
        BY <4>1
    <3>2. CASE d.handle = Null
      <4>1. d.handle \notin Clients
        BY <3>2, RadioAssumption
      <4> QED
        BY <1>0, <4>1 DEF Settled, Non433Held, Tone433Held, Clients, Kinds
    <3> QED
      BY <1>2, <3>1, <3>2
  <2>3. \A h \in Clients, k \in Kinds : N(d, h, k) <= N(d, h, k)
    BY <1>0
  <2> QED
    BY <2>1, <2>2, <2>3
<1> QED
  BY <1>1, <1>2

(* A tone that is posted then is the only one the client in use has, or    *)
(* the second of a 433 MHz client whose first was left behind.             *)
LEMMA ToneFacts ==
    ASSUME NEW e \in Driver, NEW m, Settled(e, m, FALSE), e.handle # Null
    PROVE  /\ Post(e, "tone") \in Driver
           /\ Settled(Post(e, "tone"), m, TRUE)
           /\ Post(e, "tone").handle = e.handle /\ Post(e, "tone").open = e.open
           /\ Post(e, "tone").sess = e.sess /\ Post(e, "tone").sessMode = e.sessMode
           /\ Post(e, "tone").setup = e.setup
           /\ \A h \in Clients : N(Post(e, "tone"), h, "rx") = N(e, h, "rx")
<1> DEFINE g == Post(e, "tone")
<1>1. /\ g \in Driver /\ g = [e EXCEPT !.queue = g.queue]
      /\ \A c \in Clients, j \in Kinds :
            N(g, c, j) = IF c = e.handle /\ j = "tone" THEN N(e, c, j) + 1 ELSE N(e, c, j)
  BY PostFacts DEF Kinds
<1>2. \A h \in Clients, k \in Kinds : N(e, h, k) \in Nat
  BY CountsAreQueue
<1>3. g = Post(e, "tone") /\ e.handle \in Clients
  BY DEF Driver
<1> HIDE DEF g
<1>4. /\ g.handle = e.handle /\ g.open = e.open /\ g.setup = e.setup
      /\ g.sess = e.sess /\ g.sessMode = e.sessMode
  BY <1>1 DEF Driver
<1>5. /\ \A h \in Clients : N(g, h, "rx") = N(e, h, "rx")
      /\ \A h \in Clients : h # e.handle => N(g, h, "tone") = N(e, h, "tone")
      /\ N(g, e.handle, "tone") = N(e, e.handle, "tone") + 1
  BY <1>1, <1>3 DEF Kinds
<1>6. N(e, "non433", "tone") = 0
  BY <1>2 DEF Settled, Non433Held, Clients, Kinds
<1>7. HandleOpen(g) /\ Non433Held(g, TRUE)
  BY <1>2, <1>3, <1>4, <1>5, <1>6 DEF Settled, HandleOpen, Non433Held, Clients, Kinds
<1>8. Rx433Held(g, m)
  BY <1>4, <1>5 DEF Settled, Rx433Held, Clients
<1>9. Tone433Held(g, m, TRUE)
  BY <1>2, <1>3, <1>4, <1>5 DEF Settled, Tone433Held, Clients, Kinds
<1> QED
  BY <1>1, <1>3, <1>4, <1>5, <1>7, <1>8, <1>9 DEF Settled

(* TX_TEST_STOP                                                            *)
LEMMA OnTxTestStopKeeps ==
    ASSUME Inv, ~stuck, OnTxTestStop
    PROVE  Kept
<1>1. /\ rf' = StopTest(rf) /\ stuck' = stuck /\ testCmd' = FALSE
      /\ UNCHANGED <<cfgVars, rxVars, jam, postFailed>>
  BY DEF OnTxTestStop, Effect
<1>2. /\ rf \in Driver /\ Settled(rf, ModeOf(phy), testCmd) /\ SessionFor(rf)
      /\ stuck \in BOOLEAN
  BY InvFacts DEF Inv, TypeOK
<1>3. /\ rf' \in Driver /\ Settled(rf', ModeOf(phy), FALSE)
      /\ rf'.handle = rf.handle /\ rf'.open = rf.open
      /\ rf'.sess = rf.sess /\ rf'.sessMode = rf.sessMode /\ rf'.setup = rf.setup
      /\ \A h \in Clients, k \in Kinds : N(rf', h, k) <= N(rf, h, k)
  BY <1>1, <1>2, StopTestFacts
<1>4. SessionFor(rf)'
  BY <1>1, <1>2, <1>3, SameSession DEF cfgVars
<1>5. ModeOf(phy)' = ModeOf(phy) /\ RfModeOf(phy)' = RfModeOf(phy)
  BY <1>1, SameMode DEF cfgVars
<1>6. ReceiverAgrees'
  <2>1. \A h \in Clients, k \in Kinds : N(rf, h, k) \in Nat /\ N(rf', h, k) \in Nat
    BY <1>2, <1>3, CountsAreQueue
  <2>2. (\E h \in Clients : N(rf', h, "rx") > 0) => rxRunning \/ postFailed
    BY <1>3, <2>1 DEF Inv, ReceiverAgrees, Kinds
  <2>3. (\E h \in Clients : N(rf, h, "rx") > 0)' => rxRunning' \/ postFailed'
    BY <1>1, <2>2 DEF N, rxVars
  <2> QED
    BY <1>1, <1>3, <1>5, <2>3 DEF Inv, ReceiverAgrees, rxVars
<1>7. OtherTypes'
  BY <1>1 DEF OtherTypes, Inv, TypeOK, cfgVars, rxVars
<1>8. Inv'
  BY <1>1, <1>2, <1>3, <1>4, <1>5, <1>6, <1>7, QuietStep
<1> QED
  BY <1>3, <1>8 DEF Kept, RxStep, JamStep

(* TX_CW and TX_PRBS                                                       *)
LEMMA OnTxTestKeeps ==
    ASSUME Inv, ~stuck, OnTxTest
    PROVE  Kept
<1> DEFINE m == ModeOf(phy)
           u == SetupOf(m, blePhy)
           ready == IF rf.handle # Null THEN {Result("ok", rf)} ELSE SwitchRfMode(rf, m, u)
           after(r) == IF r.res = "ok"
                       THEN {Result("ok", Post(StopTest(r.rf), "tone")),
                             Result("refused", StopTest(r.rf))}
                       ELSE {r}
           done(o) == /\ rf' = o.rf /\ stuck' = (o.res = "stuck")
                      /\ testCmd' = CASE o.res = "ok" -> TRUE
                                      [] o.res = "refused" -> FALSE
                                      [] OTHER -> testCmd
<1>0. PICK r \in ready : \E o \in after(r) : done(o)
  <2>1. \E o \in Then(ready, StartTone) : done(o)
    BY DEF OnTxTest, Apply
  <2>2. \A r : after(r) = IF r.res = "ok" THEN StartTone(r.rf) ELSE {r}
    BY DEF StartTone
  <2> HIDE DEF ready, done, after
  <2> QED
    BY <2>1, <2>2 DEF Then
<1>1. PICK o \in after(r) : done(o)
  BY <1>0
<1>2. UNCHANGED <<cfgVars, rxVars, jam, postFailed>>
  BY DEF OnTxTest
<1>3. /\ r \in ready
      /\ r.res = "ok" => \/ o = Result("ok", Post(StopTest(r.rf), "tone"))
                         \/ o = Result("refused", StopTest(r.rf))
      /\ r.res # "ok" => o = r
  BY <1>0, <1>1
<1> HIDE DEF after, ready
<1>4. /\ rf \in Driver /\ testCmd \in BOOLEAN /\ m \in Modes /\ u \in Setups
      /\ Settled(rf, m, testCmd) /\ SessionFor(rf)
  BY InvFacts DEF Inv
<1> HIDE DEF u, m
<1>5. /\ r.rf \in Driver /\ r.res \in {"ok", "failed", "stuck"}
      /\ \A h \in Clients, k \in Kinds : N(r.rf, h, k) <= N(rf, h, k)
      /\ r.res # "stuck" => Settled(r.rf, m, testCmd)
      /\ r.res = "stuck" => N(r.rf, "433", "tone") > 0
      /\ r.res = "ok" => r.rf.handle # Null
      /\ rf.open => r.rf.open
      /\ rf.handle # Null => r.rf = rf /\ r.res = "ok"
      /\ r.rf.sessMode = Null \/ (/\ r.rf.sess = rf.sess /\ r.rf.sessMode = rf.sessMode
                                  /\ r.rf.setup = rf.setup)
  <2>1. CASE rf.handle # Null
    <3>1. r = Result("ok", rf)
      BY <1>3, <2>1 DEF ready
    <3>2. \A h \in Clients, k \in Kinds : N(rf, h, k) <= N(rf, h, k)
      BY <1>4, CountsAreQueue
    <3> QED
      BY <1>4, <2>1, <3>1, <3>2 DEF Result
  <2>2. CASE rf.handle = Null
    <3>1. r \in SwitchRfMode(rf, m, u)
      BY <1>3, <2>2 DEF ready
    <3>2. Switched(rf, m, u, testCmd, r)
      BY <1>4, <3>1, SwitchFacts
    <3>3. ~rf.open
      BY <1>4, <2>2 DEF Settled, HandleOpen
    <3>4. r.res = "ok" => r.rf.handle # Null
      BY <3>2, RadioAssumption DEF Switched, Clients
    <3>5. r.rf.sessMode = Null \/ (/\ r.rf.sess = rf.sess /\ r.rf.sessMode = rf.sessMode
                                   /\ r.rf.setup = rf.setup)
      BY <3>2, <3>3 DEF Switched
    <3> QED
      BY <2>2, <3>2, <3>3, <3>4, <3>5 DEF Switched
  <2> QED
    BY <2>1, <2>2
<1>6. /\ rf' \in Driver /\ stuck' \in BOOLEAN /\ testCmd' \in BOOLEAN
      /\ \A h \in Clients : N(rf', h, "rx") <= N(rf, h, "rx")
      /\ ~stuck' => Settled(rf', m, testCmd')
      /\ stuck' => N(rf', "433", "tone") > 0 /\ Bounded(rf')
      /\ rf.open => rf'.open
      /\ rf.handle # Null => rf'.handle = rf.handle /\ rf'.setup = rf.setup /\ ~stuck'
      /\ rf'.sessMode = Null \/ (/\ rf'.sess = rf.sess /\ rf'.sessMode = rf.sessMode
                                 /\ rf'.setup = rf.setup)
  <2>0. \A h \in Clients, k \in Kinds : N(rf, h, k) \in Nat /\ N(r.rf, h, k) \in Nat
    BY <1>4, <1>5, CountsAreQueue
  <2>1. CASE r.res # "ok"
    <3>1. o = r
      BY <1>3, <2>1
    <3>2. rf' = r.rf /\ stuck' = (r.res = "stuck") /\ testCmd' = testCmd
      BY <1>1, <1>5, <2>1, <3>1
    <3>3. Bounded(r.rf)
      BY <1>5, <2>0, InvFacts DEF Bounded
    <3> QED
      BY <1>4, <1>5, <2>1, <3>2, <3>3 DEF Kinds
  <2>2. CASE r.res = "ok"
    <3> DEFINE e == StopTest(r.rf)
               g == Post(e, "tone")
    <3>1. /\ e \in Driver /\ Settled(e, m, FALSE)
          /\ e.handle = r.rf.handle /\ e.open = r.rf.open
          /\ e.sess = r.rf.sess /\ e.sessMode = r.rf.sessMode
          /\ e.setup = r.rf.setup
          /\ \A h \in Clients, k \in Kinds : N(e, h, k) <= N(r.rf, h, k)
      BY <1>5, <2>2, StopTestFacts
    <3>2. o = Result("ok", g) \/ o = Result("refused", e)
      BY <1>3, <2>2
    <3>3. \A h \in Clients : N(e, h, "rx") <= N(rf, h, "rx")
      <4>1. \A h \in Clients, k \in Kinds : N(e, h, k) \in Nat
        BY <3>1, CountsAreQueue
      <4> QED
        BY <1>5, <2>0, <3>1, <4>1 DEF Kinds
    <3> HIDE DEF e
    <3>4. CASE o = Result("refused", e)
      <4>1. rf' = e /\ testCmd' = FALSE /\ stuck' = FALSE
        BY <1>1, <3>4 DEF Result
      <4> QED
        BY <1>5, <2>2, <3>1, <3>3, <4>1
    <3>5. CASE o = Result("ok", g)
      <4>1. /\ g \in Driver /\ Settled(g, m, TRUE)
            /\ g.handle = e.handle /\ g.open = e.open
            /\ g.sess = e.sess /\ g.sessMode = e.sessMode /\ g.setup = e.setup
            /\ \A h \in Clients : N(g, h, "rx") = N(e, h, "rx")
        BY <1>5, <2>2, <3>1, ToneFacts
      <4> HIDE DEF g
      <4>2. rf' = g /\ testCmd' = TRUE /\ stuck' = FALSE
        BY <1>1, <3>5 DEF Result
      <4>3. \A h \in Clients : N(g, h, "rx") <= N(rf, h, "rx")
        BY <3>3, <4>1
      <4> QED
        BY <1>5, <2>2, <3>1, <4>1, <4>2, <4>3
    <3> QED
      BY <3>2, <3>4, <3>5
  <2> QED
    BY <2>1, <2>2
<1>7. SessionFor(rf)'
  <2>1. CASE rf'.sessMode = Null
    BY <1>2, <1>4, <2>1, NoSession DEF SessionFor, cfgVars
  <2>2. CASE rf'.sessMode # Null
    BY <1>2, <1>4, <1>6, <2>2, SameSession DEF cfgVars
  <2> QED
    BY <2>1, <2>2
<1>8. /\ ModeOf(phy)' = m /\ ModeOf(phy) = m
      /\ RfModeOf(phy)' = RfModeOf(phy)
  BY <1>2, SameMode DEF cfgVars, m
<1>9. ReceiverAgrees
  BY DEF Inv
<1>10. ReceiverAgrees'
  <2>1. (\E h \in Clients : N(rf', h, "rx") > 0) => rxRunning \/ postFailed
    <3>1. \A h \in Clients, k \in Kinds : N(rf, h, k) \in Nat /\ N(rf', h, k) \in Nat
      BY <1>4, <1>6, CountsAreQueue
    <3> QED
      BY <1>6, <1>9, <3>1 DEF ReceiverAgrees, Kinds
  <2>2. (\E h \in Clients : N(rf, h, "rx") > 0)' => rxRunning' \/ postFailed'
    BY <1>2, <2>1 DEF N, rxVars
  <2> QED
    BY <1>2, <1>6, <1>8, <1>9, <2>2 DEF ReceiverAgrees, rxVars
<1>11. OtherTypes'
  BY <1>2, <1>6 DEF OtherTypes, Inv, TypeOK, cfgVars, rxVars
<1>12. Inv'
  <2>1. CASE ~stuck'
    BY <1>6, <1>7, <1>8, <1>10, <1>11, <2>1, QuietStep
  <2>2. CASE stuck'
    <3>1. TypeOK'
      BY <1>6, <1>11, <2>2, QueueTyped DEF TypeOK, OtherTypes
    <3>2. TonePosted'
      BY <1>6, <2>2, TonePostedIs DEF Clients
    <3> QED
      BY <1>7, <2>2, <3>1, <3>2 DEF Inv, StuckOnlyBehindTone
  <2> QED
    BY <2>1, <2>2
<1>13. jam # Null => rf'.setup = rf.setup
  BY <1>4, <1>6, <1>9 DEF Settled, HandleOpen, ReceiverAgrees
<1> QED
  BY <1>12, <1>13 DEF Kept, RxStep, JamStep

-----------------------------------------------------------------------------
(* The module's properties.                                                *)

(* RadioIF_init leaves the driver closed and nothing posted.               *)
LEMMA InitInv ==
    ASSUME Init
    PROVE  Inv
<1>1. /\ rf \in Driver /\ rf.handle = Null /\ ~rf.open /\ rf.sessMode = Null
      /\ rf.queue = [c \in Posted |-> 0]
  <2>1. [c \in Posted |-> 0] \in [Posted -> Nat]
    OBVIOUS
  <2> DEFINE q == [c \in Posted |-> 0]
  <2> HIDE DEF q
  <2>2. rf \in [handle : {Null}, open433 : BOOLEAN, open : {FALSE}, mode : {Null},
                setup : {Null}, sess : {Null}, sessMode : {Null}, queue : {q}]
    BY DEF Init, q
  <2>3. rf \in Driver /\ rf.handle = Null /\ ~rf.open /\ rf.sessMode = Null /\ rf.queue = q
    BY <2>1, <2>2 DEF Driver, q
  <2> QED
    BY <2>3 DEF q
<1>2. \A h \in Clients, k \in Kinds : N(rf, h, k) = 0
  BY <1>1 DEF N, Posted, Kinds
<1>3. TypeOK
  <2>1. \A c \in Posted : rf.queue[c] <= 2
    BY <1>1
  <2> QED
    BY <1>1, <2>1, RadioAssumption DEF Init, TypeOK, BlePhys, Mods
<1>4. SessionFor(rf)
  BY <1>1, RadioAssumption DEF Init, SessionFor, SessionClient, ModeOf, PropMode, Modes
<1>5. HandleOpen(rf) /\ Non433Held(rf, testCmd)
  BY <1>1, <1>2, RadioAssumption DEF HandleOpen, Non433Held, Clients, Kinds
<1>6. Rx433Held(rf, ModeOf(phy)) /\ Tone433Held(rf, ModeOf(phy), testCmd)
  BY <1>2 DEF Rx433Held, Tone433Held, Clients, Kinds
<1>7. ReceiverAgrees
  BY <1>2 DEF Init, ReceiverAgrees, Kinds
<1> QED
  BY <1>3, <1>4, <1>5, <1>6, <1>7 DEF Inv, Settled, StuckOnlyBehindTone, Init

(* Every command of the host and every poll keeps the invariant.           *)
LEMMA NextKeeps ==
    ASSUME Inv, Next
    PROVE  Kept
<1>1. ~stuck /\ Command
  BY DEF Next
<1> QED
  BY <1>1, OnRxStartKeeps, OnRxStopKeeps, OnSetPhyKeeps, OnSetChannelKeeps,
     OnSetPropConfigKeeps, OnSetPropConfig433Keeps, SendBleAdvKeeps, SendExtAdvKeeps,
     SendIeeeKeeps, SendPropKeeps, StartJamKeeps, JamPollKeeps, StopJamKeeps,
     OnTxTestKeeps, OnTxTestStopKeeps
  DEF Command

(* A step that changes no variable keeps it.                               *)
LEMMA StutterKeeps ==
    ASSUME Inv, UNCHANGED vars
    PROVE  Inv'
<1>1. /\ UNCHANGED <<rf, stuck, testCmd, jam, postFailed, phy, low, ook, blePhy, propMod,
                     rxEnabled, rxRunning, backend, rfMode>>
  BY DEF vars, cfgVars, rxVars
<1>2. TypeOK'
  BY <1>1 DEF Inv, TypeOK
<1>3. SessionFor(rf)'
  BY <1>1, SameSession DEF Inv
<1>4. StuckOnlyBehindTone'
  BY <1>1 DEF Inv, StuckOnlyBehindTone, TonePosted
<1>5. ModeOf(phy)' = ModeOf(phy) /\ RfModeOf(phy)' = RfModeOf(phy)
  BY <1>1, SameMode
<1>6. ~stuck' => Settled(rf, ModeOf(phy), testCmd)'
  BY <1>1, <1>5
  DEF Inv, Settled, HandleOpen, Non433Held, Rx433Held, Tone433Held, N
<1>7. ~stuck' => ReceiverAgrees'
  BY <1>1, <1>5 DEF Inv, ReceiverAgrees, N
<1> QED
  BY <1>2, <1>3, <1>4, <1>6, <1>7 DEF Inv

(* The invariant holds of every behaviour, for any set of PHYs.            *)
THEOREM InvHolds == Spec => []Inv
<1>1. Init => Inv
  BY InitInv
<1>2. Inv /\ [Next]_vars => Inv'
  BY NextKeeps, StutterKeeps DEF Kept
<1> QED
  BY <1>1, <1>2, PTL DEF Spec

(* Types, and the RF driver never holds an endless command more than       *)
(* twice, whatever the host sends and whichever driver call fails.         *)
THEOREM TypeCorrect == Spec => []TypeOK
<1>1. Inv => TypeOK
  BY DEF Inv
<1> QED
  BY <1>1, InvHolds, PTL

(* A frame sent over the cached session (RadioIF_executeTxCommand) goes    *)
(* out with the setup that the selected PHY and modulation need.           *)
THEOREM SessionSetUp == Spec => []SessionIsSetUp
<1>1. Inv => SessionIsSetUp
  <2> SUFFICES ASSUME Inv, phy # "BLE_2M", rf.sessMode = ModeOf(phy),
                      ModeOf(phy) # "prop433"
               PROVE  rf.sess = "non433" /\ rf.setup = SetupOf(ModeOf(phy), phy)
    BY DEF SessionIsSetUp
  <2>1. ModeOf(phy) # Null
    BY RadioAssumption DEF ModeOf, PropMode, Modes
  <2> QED
    BY <2>1 DEF Inv, SessionFor, SessionClient
<1> QED
  BY <1>1, InvHolds, PTL

(* The RF task waits for ever only behind a test tone, unless a start of   *)
(* reception has failed before.                                            *)
THEOREM StuckBehindTone == Spec => []StuckOnlyBehindTone
<1>1. Inv => StuckOnlyBehindTone
  BY DEF Inv
<1> QED
  BY <1>1, InvHolds, PTL

(* A running receiver keeps its RX command through every call but those of *)
(* the test tone.                                                          *)
THEOREM ReceiverKept == Spec => RxLostOnlyByTest
<1>1. Inv /\ [Next]_vars =>
         [rxRunning /\ RxPosted /\ rxRunning' /\ ~RxPosted' =>
             OnTxTest \/ OnTxTestStop \/ postFailed' \/ stuck']_vars
  BY NextKeeps DEF Kept, RxStep
<1> QED
  BY <1>1, InvHolds, PTL DEF Spec, RxLostOnlyByTest

(* Under a jam session only an extended advertisement sets the client up.  *)
THEOREM JamSetupKept == Spec => JamKeepsItsSetup
<1>1. Inv /\ [Next]_vars =>
         [jam # Null /\ jam' = jam /\ rf'.setup # rf.setup => SendExtAdv]_vars
  BY NextKeeps DEF Kept, JamStep
<1> QED
  BY <1>1, InvHolds, PTL DEF Spec, JamKeepsItsSetup
=============================================================================
