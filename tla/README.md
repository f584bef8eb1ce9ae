# FeralRF: specifications, model checking and proofs

FeralRF is a firmware for the CC1352 radio and a Python library that drives it
over a serial line. This directory holds TLA+ models of its logic, the
configurations that check them with TLC, and proofs checked by TLAPS.
`PROJECT.json` lists components, runs, mutations, findings, hazards and
theorems, and says which source lines each definition models.

## The system

Paths are relative to `src/`; the firmware's C files are in
`firmware/cc1352/src`.

| Component | State | Operations | Hard part |
|---|---|---|---|
| Session controller, `control_task.c` | selected PHY, power, reception enabled, pending raw frame / burst / stream, jam window and cooldown | one handler per command, one `process...` per kind of job, polled | three guards that each look at part of the state; deadlines; jobs that end by themselves |
| Polling loop, `data_task.c`, `main_rtos.c` | receiver active, packet sequence number | `DataTask_poll`: command, stop RX, raw, burst, stream, jam timeout, jam round, start RX, drain | it blocks inside `RF_runCmd`, and the other task runs meanwhile |
| UART task, `host_if_task.c` | partial frame, overflow mark, one-command slot | collects bytes, hands a frame to the RF task, flushes answers | a frame may come while the slot is taken; resynchronisation |
| Dispatcher, `command_processor.c` | none | decodes a frame, calls a handler, answers | every command gets one answer |
| Control flags, `task_event.c` | one word of bits | set, clear, test | a flag and what it announces live apart |
| Radio interface, `radio_if.c` | two driver handles, backend, mode, transmit session, jam session, OOK lock, RX queue, metrics | start and stop reception, transmit on each PHY, jam rounds, test tones, configuration | sessions over one radio, callbacks from interrupt context |
| Responses, `output_if.c`, `packet_queue.c` | ring of 32 frames, drop count | enqueue or drop, dequeue | answers are dropped when it is full |
| Wire protocol, `protocol.c`, `protocol.py` | none | COBS, CRC-16, frames | block boundaries; two implementations |
| Link layer, `ll_manager.c`, `phy_manager.c` | statistics, selected PHY | classify packets, look up a PHY | |
| Host library, `python/feralrf/radio.py` | sequence number, buffered asynchronous events | send, wait for the answer, retry | late answers, lost frames, asynchronous errors |
| Cryptography, `crypto_engine.c` | driver handles | one synchronous call per command | hardware |

How they interact. The host sends a frame over the UART. The UART task stores
it in the slot if that is free, else it queues an asynchronous error. The RF
task's loop takes the frame from the slot, the dispatcher runs the handler, and
the handler changes the controller's state, sets control flags and calls the
radio interface. Later phases of the same loop act on the flags. Answers,
asynchronous errors and received packets all go into the response queue, which
the UART task flushes. The two tasks have the same priority and no time slice:
they switch only where one yields or blocks. The RF driver's callback runs in
interrupt context and only raises bits that the loop reads.

What makes each part correct: a command is answered once; reception, jobs and
jamming exclude each other; what the controller, the flags, the loop and the
radio hold about a session agrees; a burst sends what was asked; a jam session
ends in time; nothing is received after the host stopped it; the response queue
delivers in order what it accepted; framing resynchronises; the two protocol
implementations are inverse; the host never takes one answer for another.

## Modules

| Module | Models |
|---|---|
| `ControlTask` | `control_task.c` with the dispatcher and what `radio_if.c` keeps for it: the state, and one operator per handler or `process...` function |
| `DataTask` | extends `ControlTask` with the RF task's loop (`pc` is the phase of `DataTask_poll`), the command slot and the clocks: `Next`, `Spec`, `FairSpec`, the safety and liveness properties |
| `SessionMonitor` | `DataTask` with history variables: answers owed, frames of the current burst, idle time between jam sessions, configured power |
| `SessionMonitor_proofs` | the inductive invariant of `DataTask` and its theorems; that the history variables only record, their invariant, and the theorems about answers, bursts and the cooldown |
| `BoundedFifo` | what the response queue promises: a buffer that delivers in order and loses, and counts, what finds it full |
| `PacketQueue` | `packet_queue.c`, `output_if.c` and the flushes of `HostIFTask_poll`: the ring that both tasks fill and the UART task empties; instantiates `BoundedFifo` |
| `PacketQueue_proofs` | the ring's invariant and the proof of the refinement |
| `RadioIf` | `radio_if.c` but for reception of packets: the two RF driver clients, mode switching by a RadioSetup, the cached transmit session, the receiver, jam sessions, test tones, the calls that configure; the driver's command queue is external |
| `RadioIf_proofs` | the invariant of `RadioIf` and the theorems |
| `RxPath` | the way of a packet in `radio_if.c` and `data_task.c`: ring of data entries, callback, poll, overflow, channel hops, packet queue, counters, delivery |
| `RxPath_proofs` | the ring's invariant, the order of packets, the account of what is lost, the types, and that a stopped receiver is restarted |
| `RxEntry` | what is read out of one data entry, on to the host's `Packet`: the parsers, `ll_manager.c`, `DataTask_emitRxPacket`, `read_packets`; and the channel, which the host may change meanwhile |
| `HostLink` | `radio.py`'s calls over a faulty link to the command slot: numbers, the filter for stale answers, the buffer of asynchronous events, timeouts, retries, reset |
| `HostLink_proofs` | the invariant of `HostLink` and the theorems |
| `Wire` | `protocol.c` and `protocol.py` as operators: CRC-16, COBS, frames, each end's own version |
| `FrameReader` | `HostIFTask_poll` byte by byte: polls, buffer, overflow mark, slot |
| `FrameLine` | extends `Wire` and `FrameReader`: both ends' coding, the slot's decoding and the host's reader, over a line that damages bytes |
| `Wire_proofs` | what checksum, encoders, decoder and parsers compute, for frames of every length: round trips and the refusal of a changed byte |
| `Transport_proofs` | the invariants and theorems of `FrameReader`, `FrameLine` and `RxEntry` |
| `CryptoCommands` | a cryptographic call from the host's checks over the dispatcher's and `crypto_engine.c`'s to what the caller gets |
| `CryptoCommands_proofs` | that the two ends agree on every payload, the invariant of a call, and the theorems |
| `MCSession`, `MCSessionLive`, `MCResponses`, `MCRadio`, `MCRx`, `MCHostLink`, `MCCrypto`, `MCTransport` | values of the constants for TLC; `MCTransport` also runs `FrameLine` and `RxEntry`, which share no state, one after the other |

From code to model:

* A variable stands for the C variable its comment names. A job is a record or
  `None`; `pending` is that it is not `None`. Payload bytes are left out, of a
  payload only the length that is tested is kept.
* A deadline is kept as the ticks left until it. The code compares a stored
  time with a clock, so only the difference matters, and no bound on time is
  needed. `WallTick` is the RTC, used by jamming; `BurstTick` and `ContTick`
  are the SysTick time base, used by the two periodic jobs.
* A phase of the loop is one step unless it calls `RF_runCmd`, which blocks:
  then it is two steps with a phase of `Blocked` between them, during which the
  UART task may run and time may pass. A handler that sleeps while it stops an
  OOK session also lets the UART task in; a frame that arrives then is not seen
  before the next poll, so it is the same as arriving at the end of the poll.
* The result of a radio command is either success or failure, without cause.
* `OTHER` is any frame answered without touching this state.
* In `ControlTask`, `SET_PROP_CONFIG` may or may not stop the receiver: that
  depends on the frequency and on the OOK lock, which are in `RadioIf`. For the
  same reason `TxChecksJam` lets a sub-GHz profile look at the jam session or
  not.
* `rsp` is the response the step queued, `"none"` if it queued none.
* In `PacketQueue` a frame is a value without bytes, and those whose payload or
  encoding is too long are the set `TooLong`. `phase` is where the UART task is
  in a poll, `budget` what the flush or read it is in may still do. The RF task
  sends only while `phase` is `"away"`: the tasks do not preempt each other. The
  abstract buffer's contents are the `count` slots from `tail` on.

* `RadioIf`: all of it runs in the RF task, so a command is one step. A call of
  the driver has a set of outcomes: it may fail, and `RF_runCmd` is stuck when
  an endless command (reception, a test tone) is queued before it. Only endless
  commands stay in the queue, and of the queue only how many of each kind each
  client holds is kept: no decision depends on their order. Where the code's
  control depends on the frequency it is through "below 861 MHz" (`low`); a
  change of PHY or channel that moves the frequency may set it either way.
* `RxPath`: the RF core and its callback preempt the task anywhere, so the task
  is cut wherever it shares something with them. Reading the event flags and
  clearing them are two steps. A reset of the ring is a step for the pointers
  (`ResetRfDataQueue`) and one for each entry (`ClearEntry`, from the old read
  entry on), and the flush and post that follow are another; an `RX_START` while
  receiving makes the ring anew entry by entry and sets the pointers last
  (`StartRx`, `ClearEntry`, `Created`, `PostRx`, `StartedRx`). The core may store
  a packet between any two of them. `StopBackend` cancels and flushes first, so
  its reset is one step. The two pointers of a reset (lines 1031 and 1032) are
  set in one step, which the core cannot tell: the reader's is not its concern.
  While `createRfDataQueue` runs, the last entry's next pointer leads past the
  buffer until line 1015 closes the ring; the model keeps the ring closed. A
  packet is its number on the air; the parser's verdict (`Process`) is any, and
  that it is right is `RxEntry`'s matter.
* `RxEntry` keeps a byte as what it is (the i-th of the PDU, the RSSI, ...) with
  a value only where a parser goes by it. What the RF core puts into an entry is
  external, and taken from the RX configuration and the comments of the code.
  `channel` is the number last set and `tuned` the one the core still receives
  on: `SetChannel` sets the first and resets the ring, `Flush` brings the second
  up, and a packet stored in between is `stray`. The IEEE 802.15.4 and the
  proprietary parser report `s_channel` as it is when they run (`OwnChannel`); a
  BLE entry has the channel in its status. A retune is a command of the RF
  task, so neither parser nor report runs inside it. `SET_PHY` is modelled for
  another channel of the same PHY; a packet's PHY is its own from entry to report.
* `HostLink` gives every frame the number of the command it belongs to, which
  the program does not see and the properties use. A call is its kind, the
  command it waits for and the attempts left.
* `Wire` has bytes and real CRCs; the length of a full COBS block is the
  constant `FullCode`, 255 in the code.
* `CryptoCommands`: an argument is its length, a payload the lengths of its
  fields; keys and texts have no value and a cipher's verdict is any of those
  its function can return. No check stops a CCM or GCM payload of 256 or 257
  bytes: its frame fits `COBS_MAX_ENCODED` and is copied past the end of `frame`
  and `payload` in `CommandProcessor_processEncodedFrame`. What that does depends
  on what the compiler put behind them, so the command is either executed as it
  was sent (`Dispatch`) or anything is answered, or nothing (`Garbled`). A longer
  one is refused by the frame reader (`NotDelivered`).

The operators named as faults (their comments begin with "Fault") are
deliberate errors used to see that each property can fail; nothing else uses
them.

## Runs

| Run | Module, configuration | Question | Result |
|---|---|---|---|
| `sessions` | `MCSession`, `MCSession.cfg` | is every safety property of the sessions kept whatever the host sends? | holds, 685,220 states |
| `sessions_live` | `MCSessionLive`, `MCSessionLive.cfg` | are commands answered, do bursts and jam sessions end, does a stream go on? | holds, 5,152 states |
| `responses` | `MCResponses`, `MCResponses.cfg` | is the ring a bounded FIFO that loses only what finds it full, and do frames keep leaving? | holds, 4,272 states |
| `radio` | `MCRadio`, `MCRadio.cfg` | is the client that transmits always set up for what it sends, and what can hang or silence the radio? | holds, 129,645 states |
| `rx_path` | `MCRx`, `MCRx.cfg` | do packets arrive in order, is each accounted for, does reception go on after an overflow, with resets that the core may interrupt anywhere? | holds, 908,494 states |
| `host_link` | `MCHostLink`, `MCHostLink.cfg` | does a call return its own answer, and is the device quiet after `stop_rx`? | holds, 628,577 states |
| `crypto` | `MCCrypto`, `MCCrypto.cfg` | do host and firmware agree on every length, and is an error what it says? | holds, 50,045 states |
| `transport` | `MCTransport`, `MCTransport.cfg` | is a damaged frame ever taken for another, is the next delimiter always found, and are entries read as they were written, under the channel they came on? | holds, 206,469 states |
| `ble_layout` | `MCTransport`, `MCTransportBle.cfg` | is a BLE entry read in the layout the comment in `radio_if.c` names? | violated |
| `jam_idle_time` | `MCSession`, `MCSessionJamIdle.cfg` | is there an idle time between any two jam sessions, as `config.h` says? | violated |
| `frame_power` | `MCSession`, `MCSessionFramePower.cfg` | is `TX_FRAME` sent at the power of `SET_POWER`, as `docs/protocol.md` says? | violated |
| `stream_until_stop` | `MCSessionLive`, `MCSessionStream.cfg` | does a stream last until `TX_STOP`, as `docs/protocol.md` says? | violated |

Properties of `sessions`: `TypeOK`; `SessionsExclusive`, `RadioExclusive`,
`JamAgreement`, `JobsHaveTheirFlag` and `SettledBetweenPolls` relate what the
controller, the flags, the loop and the radio hold; `OneAnswerEach` counts
answers; `BurstAccounted` counts frames; `PacketsOnlyWhileEnabled`,
`JamBounded` and `CooldownAfterJamStop` are about steps. Properties of
`sessions_live`: `CommandAnswered`, `JamEnds`, `BurstEnds`,
`StreamKeepsSending`. Properties of `responses`: `TypeOK`; `EventsAgree`, the
two events against the ring; `ImplementsFifo`, the refinement of `BoundedFifo`;
`KeepsDelivering`, the abstract buffer's fairness. Properties of `radio`:
`TypeOK`; `SessionIsSetUp`, the cached session against the setup last run;
`RxLostOnlyByTest` and `StuckOnlyBehindTone`, what may silence the receiver and
hang the task; `JamKeepsItsSetup`. Of `rx_path`: `TypeOK`; `InOrder`;
`Accounted`, the counters against the fate of every packet; `DeadOnlyByRace`;
`Drains`. Of `host_link`: `TypeOK`; `AnswerIsOwn`; `QuietAfterStop`;
`EveryCallReturns`. Of `crypto`: `TypeOK`, with the driver closed between calls;
`FieldsAgree`; `ResultComplete`; `HonestErrors`. Of `transport`:
`ReaderSplits`, the reader's state against the bytes it has read;
`FramesArrive`; `EntriesRead`. Each is stated in words where it is defined, and
each has a mutation in `PROJECT.json` that breaks it.

Bounds. The command sets hold one command for every outcome a handler tells
apart: a length within and above the limit, a count of zero and of two, a
channel allowed for each kind of PHY, a duration within and above the maximum,
a PHY of each of the three kinds of transmit path. A maximum of 2 ticks for a
jam session and for the cooldown, and an interval of 1, leave room for a
deadline to be pending, about to pass and passed, in every phase of the loop. A
burst of 2 has a first, a waiting and a last frame. The number of commands, of
polls and of sessions is not bounded.

For the ring a depth of three, two frames that fit and one that does not, a
flush of one and a read that may send two errors: a poll may leave frames over,
the ring fills from either task, and every index wraps many times. The drop
counter wraps at 4 in place of 2^32.

For the radio, one PHY for each transmit path and a second BLE PHY that shares
its mode with the first; the queue of endless commands has no bound of its own:
no client ever holds more than two of a kind (`TypeOK`). For the receive path
the program's three entries, a queue shorter than the ring and a drain shorter
than the queue, so that a poll overruns one and leaves packets in the other;
four packets, sequence numbers that wrap after two, and two hops, retunes or
starts: the ring wraps, it fills, and a hop, a retune or a second start falls into
each of these situations, with a packet between any two of its writes. For the
link, three sequence numbers and four commands, so
that the number 0 comes round once, with one fault and one asynchronous frame;
two attempts of `init()` and of `stop_rx()`, one round of `JAM_STOP`. For
cryptography, lengths on both sides of every limit either side tests. For
frames, `FullCode` is 4: frames of six to eleven bytes then have zeros, ends and
full blocks on every side of one another, as frames of 254 and more bytes do in
the program; a buffer of ten bytes makes the longest frame overrun it, and a
budget of five cuts every frame between polls; two frames, one of them damaged
in any one place. For entries, all lengths around the limits of six bits, of the
packet buffer (242), of a report (239) and of each PHY, and two channel numbers:
5, which IEEE 802.15.4 takes for channel 16, and 300, which does not fit the
byte of a report. The run `transport` ends when its frames are used up, and in
`radio` a stuck task stays so: these two do not check for deadlock.

Fairness. `FairSpec` of `DataTask` assumes that the RF task goes on (its loop
has no exit, and both tasks yield at every turn), that `RF_runCmd` returns, and
that the clocks tick. The second does not hold while a test tone (`TX_CW`,
`TX_PRBS`) is on the air, because its command never ends: the liveness results
are about a radio without a test tone. Nothing is assumed of the host.
`FairSpec` of `PacketQueue` assumes only that the UART task runs: its loop has
no exit, and the RF task yields or blocks in every turn of its own. `FairSpec`
of `RxPath` assumes that the RF task polls and that a poll or command begun goes
on; nothing of the air, the callback or the host. `FairSpec` of `HostLink`
assumes only that time passes and that the host takes what it has buffered: the
device need not answer.

What the violations show:

* A jam session that `TX_STOP` ends does not arm the cooldown, unlike
  `JAM_STOP` and the timeout, so the next one starts at once.
* `TX_RAW` carries a power of its own, which `processTxRaw` leaves behind as the
  configured one; later `TX_FRAME`, `TX_BURST` and `TX_CONTINUOUS` take it.
* A stream ends at its first failed transmission, also when `RadioIF` refuses
  it because a jam session is on, and the host is not told.
* The BLE parser finds out the layout of an entry by trying four, and takes the
  first whose lengths add up. Some entries of the layout the receiver produces
  also fit one tried earlier: a data PDU whose first byte is 2 and whose payload
  has one byte, an `ADV_IND` with the ChSel bit and 28 bytes. The host gets a
  PDU that begins with the entry's length byte. In the first case it lacks its last
  byte and nothing else (the entry is read in layout A_crc); in the second it goes
  on into the CRC (it is read in A_nocrc).

What the passing runs show beside the properties, in the words they need to hold:

* `StuckOnlyBehindTone`: a transmission while a test tone is on hangs the RF
  task, which then never reads the command that would stop the tone; nothing
  else does, unless posting an RX command failed before.
* `RxLostOnlyByTest`: `TX_TEST_STOP`, or another `TX_CW`, with a handle left from
  an earlier tone flushes a running receiver while `s_rx_running` stays true.
* `InOrder` and `Drains`: a reset rewrites the ring while the core still
  receives, because `RadioIF_restartRfRx` flushes only afterwards, and so does a
  second `RX_START`. A packet stored inside those few writes (`slipped`) moves the
  core's entry pointer on after it was put back, and the loop then wipes that
  packet or not: core and reader are out of step. Until the ring is next
  rewritten packets may then reach the host in another order than that of the
  air, and one may lie unread until the core has come round to it. `InOrder`
  says that this is the only way: unless such a packet came, core and reader agree
  on the ring, and the packets stored from such a one on (`astray`) change places
  only with each other. `Drains` excepts a ring out of step, and a receiver that is
  off; for the queue of packets it excepts nothing.
* `DeadOnlyByRace`: in the modes whose callback cancels the command, a full event
  raised between `RadioIF_poll`'s read of the flags and its clear, or before
  `RadioIF_startRx`'s clear, leaves the receiver dead until it is restarted. So
  does a post that fails after an overflow, hop or retune, whose result is not
  looked at. `raced` is set by these and nothing else.
* `TypeOK` of `RxPath` bounds no number of RX commands: in the IEEE 802.15.4 mode
  an overflow posts a command without flushing the one that may still run
  (`RadioIF_rearmIeee154RxAfterOverflow`), so every full event that was already
  stale adds one.
* `Accounted`: an overflow throws away up to a ring of finished packets that no
  counter but `rx_overflow` shows; a hop, a retune and a second start throw away
  what was finished since the last look and no counter shows it. `SET_PHY` stops
  reception but keeps the packets queued, which are handed over afterwards.
* `AnswerIsOwn`: an answer with number 0 (an asynchronous error, a busy or a late
  answer to command 0) is taken as the answer of whatever waits.
* `HonestErrors`: an AEAD text of more than 200 bytes is reported as a tag
  mismatch, a busy device in an elliptic-curve call as an unsupported curve, and
  an empty text in CTR mode is refused by the firmware alone.
* `FieldsAgree`, `ResultComplete`, `HonestErrors`: of an AEAD command with 256 or
  257 bytes of payload they say only that its fields are where the host put them
  if it is executed as it was sent, and that no answer ends in a length the host
  must refuse. `docs/protocol.md:24` and `protocol.h:16` say 255; `output_if.c:21`
  guards the other direction against the same overrun.
* `EntriesRead`: a packet stored on the old channel between the reset and the
  flush of a retune is reported under the new one, but for BLE; a channel number
  above 255 is reported as its low byte; BLE PDUs of more than 63 payload bytes
  match no layout and are dropped, and data beyond 239 bytes is cut from the
  report.

## Proofs

The first part of `SessionMonitor_proofs` proves, for every set of commands,
every limit and any number of steps, the type invariant and the five other
invariants of `DataTask`, and its two action properties that hold,
`PacketsOnlyWhileEnabled` and `JamBounded`. The assumption is
`ConstantsAssumption`: the commands are commands, the limits are natural
numbers, `None` is none of the values it must differ from.

The argument. `Inv` is inductive. To the invariants themselves it adds
`PhaseFacts` (a job is there while its frame is on the air; a jam session is
being started only with everything else off) and `RxFacts` (a request to the
receiver is pending only in the phases between the command and the place that
serves it; the receiver runs only for the data task). They are needed because
no phase tests everything: that the receiver is off during a jam round, for
example, follows from the guard of `JAM_CONTINUOUS`, from `RX_START` being
refused while jamming, and from no `RX_START` being left over from an earlier
poll. `TypeStep` keeps the types, `CommandStep` treats the handlers one by one,
`SessionStep` the phases of the loop, the UART task and the clocks; `InvHolds`
combines them and each theorem about an invariant follows from it. The action
properties follow from `Inv` and from what a step may do to the deadline and to
the responses (`HandlerBounds`, `OtherStepBounds`).

Its second part proves, from the same assumption, that every frame is
answered once, that bursts are accounted for and that the cooldown is kept.
Every step with the history variables is a step of `DataTask`
(`MonitorStepIsStep`), so `DataTask`'s `Inv` holds (`MonitorInvHolds`). To it
`MonitorInv` adds that frames sent and to come are the ones asked for
(`BurstFacts`), and that the idle time and what is left of the cooldown add up
to at least `JamCooldown` unless the session's end armed none (`CoolFacts`): the
two clocks tick together, so the sum cannot fall. `HandlerEffects` and
`PlainStepEffects` say what the steps do to the variables watched.

`PacketQueue_proofs` proves, for every depth, every set of frames and all
limits, that the ring implements `BoundedFifo` (`RingIsFifo`) and that its
events are right (`EventsAreRight`), from `QueueAssumption`: the depth, the
flush limit and the counter's modulus are positive. The invariant adds to the
types that the head is `count` places behind the tail and that the places
between hold frames. The argument about indices is in four lemmas (`WrapIs`,
`WrapRange`, `WrapDistinct`, `WrapNext`): a place below twice the depth wraps by
one subtraction, so two of the `count` places never meet, and stepping the tail
shifts every place by one. With them `SendRefines` shows that a sent frame is
accepted, lost or discarded as too long, and `FlushRefines` that a written one
is the oldest.

`HostLink_proofs` proves, for any attempts of `init()`, `stop_rx()` and
`stop_jam()` and any number of faults and asynchronous frames, that a call
returns its own answer (`CallReturnsOwnAnswer`) and that the device is quiet
after `stop_rx()` (`DeviceQuietAfterStop`), from `LinkAssumption` and
`NoneAssumption`. `LinkAssumption` limits the commands to one more than there
are numbers: with the program's 255 numbers the theorems speak of 256 commands,
of which only the number 0 is used twice. Beyond that an answer of 255 commands
ago would pass for a new one if the link could hold it back so long. The
invariant says that everything under way is from after the last reset and
carries the number of its command (`Numbered`, with the number of commands
before the reset as a witness), that commands are executed and answered in the
order they were sent (`Order`), that the last one is the one the call waits for
(`LastCommand`), that no packet follows the answer to that `RX_STOP`
(`Stopped`), and that what is buffered carries the number 0 (`Buffered`). A step
of a call sends, ends without an answer or ends with one (`GiveUpIs`,
`ConcludeIs`), so three lemmas (`SendsKeepInv`, `EndKeepsInv`,
`AnswerReadKeepsInv`) serve every action of the host, and two
(`AnswerKeepsInv`, `ArrivalKeepsInv`) those of device and link.

`RxPath_proofs` proves, for every number of entries, every depth of the queue
and any number of packets, overflows, hops, retunes and second starts, that
packets reach the host in the order of the air but for those stored from the
middle of a reset on, and that core and reader are otherwise in step
(`PacketsInOrder`), and that a receiver stopped by a full buffer is restarted
unless its event was erased or a post failed (`RestartedUnlessRaced`), from
`RxAssumption` and `NoneAssumption`. For the order, `PathInv` says where the ring
can be read as a line that the core writes just behind the last finished entry
and that no entry before it is unfinished: read from the read entry on, the ring
is then a sequence of packets (`LineOf`), to which the core appends
(`LineStored`) and whose head the poll takes (`LineTaken`). While a loop clears
the ring, it says what has been cleared: if nothing was stored since the loop
began, all entries but those the loop has still to come to are empty
(`ToClear`), so that after its last round the ring is empty and the pointers agree
(`RoundClears`, `ClearedIsEmpty`, `ClearKeepsInv`). What is stored meanwhile is
`astray` and newer than all before. What is sent, queued and held are three
sequences one below the other, or both packets of a pair that is not are astray.
The second theorem has its own small invariant, `RestartFacts`: without a command
in the core, the event is still to be read, or being served, or was erased, or a
post is due. The module also proves that no packet vanishes uncounted
(`PacketsAccounted`) and the types (`TypeCorrect`). For the account `CountInv`
is inductive beside `PathInv`: it says of the numbers of packets what the code's
counters say of their amounts, and that no packet is in two places (ring, queue,
host). The lemmas about `Books` follow a packet from one place to the next;
`NextNumber` is about the numbers of the frames, which skip the reserved one.
That the queue keeps its depth needs `PathInv` as well (`DepthStep`).

`RadioIf_proofs` proves, for every set of PHYs, the types with the bound of two
commands of a kind per client (`TypeCorrect`), that the client that transmits is
set up for what it sends (`SessionSetUp`), that only a test tone hangs the task
(`StuckBehindTone`), that only a test command silences a running receiver
(`ReceiverKept`), and that a jam session keeps its setup (`JamSetupKept`). The
invariants are not inductive as they stand, because a mode switch, a flush or a
stop each treat one of the two driver clients, and an endless command left on
the other would hang a later transmission. `Settled` says where such commands
can be between two commands of the host: on the non-433 client only while it is
in use and each once; a receiver on the 433 MHz client only in the mode of that
client; a tone on it may be left behind, but then the test handle is still set.
Each call of the driver has a lemma (`FlushFacts`, `PostFacts`,
`RunCmdFacts`, `OpenFacts`, `SetUpFacts`, `SwitchFacts`, `CloseFacts`,
`StopFacts`, `StartFacts`), so has each action, built from them; `NextKeeps`
combines those.

`CryptoCommands_proofs` proves, for arguments of every length, that the firmware
splits a payload where the host joined it, if it reads the frame as it was sent
(`FieldsAlwaysAgree`), that a result is complete (`ResultsComplete`) and an error
the true cause (`ErrorsHonest`) but for the named exceptions, frames that overrun
the dispatcher's buffers among them, and the types. The assumptions are that
lengths are natural numbers (`LengthAssumption`), and `NoneAssumption`. It has a
lemma per command for the offsets of its fields (`EcbFields`, `CtrFields`, ...)
and one for what the checks of both sides imply (`EcbSound`, ...), together
`CallSound`. `CallInv` is inductive: an answer remembers what led to it, a
refusal the check that failed and a success that the driver was opened, run and
concluded.

`Wire_proofs` proves what the coding of frames computes, for every payload whose
length the length field can tell and every size of a full block
(`FullCodeAssumption`). A frame that either end writes contains no delimiter, and
the other end's decoder and parser, which are of different make, read it as that
frame (`WireRoundTrip`). One byte of a decoded frame changed, wherever it is and
however long the frame, both parsers refuse it (`ChangedByteRefused`).

Checksum, encoder and decoder are recursive functions over positions, so these
are inductions over data. A property of positions is given to the induction as
the *set* of the positions that have it (`InductionOnSet`, from the fact that
`<` on the numbers is well-founded), so no operator has to be instantiated. A
recursive function is a `CHOOSE`: that there is a function as its equation asks
for is shown first, by extending one place after place (`FoldExists`; for the
decoder, which goes from the end to the start, `DecodingIs`). The induction for
the encoders follows the closed blocks and the open one (`Carries`,
`HostCarried`): what is closed decodes to the bytes read before the open block
began. The two encoders close a full block at different moments, so each has its
own invariant. For the checksum, a turn of the inner loop maps different words
to different words (`ShiftCancels`: the polynomial is odd, so the lowest bit of
the result tells whether it was brought in, `ShiftParity`), and so does exclusive
or with the same word (`XorCancels`). Two checksums that differ after one byte
therefore differ after all that follow, which are alike (`ChecksumTells`).

Either encoder costs one byte and one for each full block (`EncodedSize`). With
the sizes of `protocol.h`, what is written of a payload of at most 255 bytes is
shorter than `COBS_MAX_ENCODED`, the size of the arrays that `cobs_encode` fills
without a check (`FramesFit`).

`Transport_proofs` begins with the reader: for every size of the buffer and of
the budget and any bytes, every delimiter resynchronises it
(`ReaderResynchronises`), from `ReaderAssumption`: both sizes are positive.
`ReaderInv` says that all runs of bytes up to the last delimiter have been
judged in order (`Judged`), and that the buffer holds what has come since, up to
its size (`Holds`). A byte that is no delimiter extends what is open and leaves
the runs as they are (`RunsPlain`); a delimiter adds at most one run, the last
(`RunsDelimited`), so no place of another changes (`Places`). The line with its
two ends implements that reader (`LineReads`, step by step), so the same holds
there (`LineResynchronises`).

The second part is about the frames on that line (`FramesOfCleanLine`), from
`FrameLineAssumption`: the frames are frames, and noise is bytes. `LineInv` says
that both ends' results are those of their parsers and, while nothing was
damaged (`Clean`), that every run of what has arrived is one of the frames sent.
With `WireRoundTrip` it follows that a frame whose bytes arrive whole is read as
itself whatever was damaged around it (`UndamagedRead`), that the host hears
every answer while the line is clean (`AnswersHeard`), and that `FramesArrive`
holds whole until something is damaged. On a clean line no frame is ever
refused as too long either, at the sizes of `protocol.h` (`CleanFramesFit`): what
has been read between two delimiters is one frame (`RunIsFrame`), and fits.

The third part is `EntriesAreRead`: `EntriesRead` for every header, length,
channel number and kind of packet, and retunes between any two steps, from
`RxEntryAssumption`: headers and lengths are bytes, an IEEE 802.15.4 frame has at
most 127 bytes, a BLE channel is one of 40. `EntryInv` follows a packet from
entry to report. The crux is that the BLE parser may settle on a layout that is not the entry's (`BleReadAsSent` is
violated), and `EntriesRead` holds all the same: signal strength, status and
time are found from the end of the entry, where they are in every layout, and
whatever layout fits, the byte the parser took for the length is the second of
what it hands on, so the link-layer manager reads the same length out of it and
neither refuses nor cuts. For
the channel, `TuneInv` says that a packet not yet parsed came on the channel now
set, or was stored while a retune was under way; `ChannelStep` and `TuneStep` show
that every retune keeps that, because it empties the ring.

Only model-checked:

* The part of `FramesArrive` that says that a *damaged* frame never passes for
  another one (`NothingForged` when there are faults). It is not so for every
  set of frames: a byte lost, or a code byte of COBS changed, may shift or merge
  much of what is decoded, and whether a 16-bit checksum tells depends on the
  frames. `ChangedByteRefused` is what holds for all of them. The run takes
  every loss of a byte and its change to 0 or 3, in frames of both ends.
* Liveness (`CommandAnswered`, `JamEnds`, `BurstEnds`, `StreamKeepsSending`,
  `KeepsDelivering`, `Drains`, `EveryCallReturns`): the prover treats neither
  fairness nor ENABLED.

## Not modelled

* `crypto_engine.c`'s ciphers, which are hardware: only what surrounds them is.
* Power and channel tables and the conversions between channel, frequency and
  power value in `radio_if.c` (`resolveTxPowerValue`, `convertTo...`): data that
  no decision of the program depends on, but for the 861 MHz limit. The contents
  of RF commands likewise.
* Functions of `radio_if.c` without a caller in this build (legacy advertising,
  active scan, initiator, central, connection following), the synthetic
  reception backend, which `RadioIF_startRx` no longer falls back to ("report
  failure instead of silent synthetic fallback"), and `tx_queue.c`.
* The size of the arrays `CommandProcessor_processEncodedFrame` decodes into, in
  `FrameLine`: there a decoded sequence has any length. What fits
  `COBS_MAX_ENCODED` may decode to two bytes more than `PROTOCOL_MAX_FRAME`, and
  `cobs_decode` has no limit of its own. The host's AEAD calls do write such
  frames; `CryptoCommands` has what becomes of them.
* `GET_INFO`, `GET_STATS` and `GET_PHY_INFO`: copies of counters and constants;
  building and reading of payloads in `commands.py` and `_responses.py`.
* The SysTick time base (`getTimeUs`): a 24-bit difference that is right if the
  clock is read once per wrap; the sessions are checked with a clock that ticks.
* `host_if.c`, start-up code, register tables, `rtos_stubs.c`, `main.c` (the
  bare-metal variant), hardware files, examples and lab scripts: no logic of
  the program's own, or not part of this build.
