# A verification of mcu-nav

mcu-nav lets a node without GNSS compute its position from three peers: every
peer broadcasts its GNSS position in a beacon, the radios range each other with
the SX1280's time-of-flight engine, and a small portable core turns positions
and ranges into a fix. Four ESP32 nodes share one channel by a fixed TDMA
schedule whose clock is node 0. A second firmware, for the SpeedyBee board, talks
to them without a schedule.

This directory holds TLA+ models of that program, TLC configurations that check
them on small instances, and theorems that TLAPS proves for every value of the
constants: about the core, the core under the firmware's tasks, the replay
runner, the schedule on the air, the ports of a node, the frames and the
SpeedyBee firmware. All definitions are translated from the source;
`PROJECT.json` names the lines behind each of them.

Contents: [1 The system](#1-the-system) · [2 Modules](#2-modules-and-the-code)
· [3 Runs](#3-runs) · [4 Bounds](#4-bounds-and-why-they-are-enough) ·
[5 Fairness](#5-fairness) · [6 Proofs](#6-proofs) ·
[7 Disagreements](#7-where-code-and-documents-disagree) ·
[8 Not modelled](#8-what-is-not-modelled) · [9 Plan](#9-plan)

## 1 The system

### Components, their state and operations

| component | state | operations | what makes it correct |
|---|---|---|---|
| navigation core `core/src/nav_core.c`, `nav_peer_table.c`, `nav_quality.c` | configuration, peer table, last GNSS sample and altitude, two generation counters, time of the last solve, snapshot | seven events, tick, select anchors, read the snapshot | a radio position rests on fresh, vouched, correctly paired evidence; a skip never hides newer inputs; what has expired is withdrawn |
| replay runner `tools/replay/nav_replay.c` | last row time, configuration and truth read, comparison so far, exit status | load the files, validate rows, tick before each later row, compare, judge | the core sees the history the file tells; status 0 means that all of it was applied and compared |
| control channel `src/ControlChannel.cpp` | configuration, debug flag, quality buffer, line buffer, the core; one mutex | emitter task (500 ms), reader task (lines, commands), entry points for the radio and gps tasks | the core's promises survive stamps that are read before the mutex is taken |
| node configuration `src/NodeConfig.cpp` | keys in NVS | load, save key by key | what is loaded is what was saved last, whatever was cut short |
| TDMA schedule `core/src/nav_tdma.c` | none (pure) | slot at a time, may an action start, has the authority expired | every slot has one owner; all nodes compute the same one |
| radio task `src/RadioHealth.cpp` | schedule runtime (alignment, last slot), debug telemetry state | heartbeat, beacon, exchange as master or slave, passive listening, debug frames | nodes on one schedule do not disturb an exchange; a node without timing is silent |
| gps task `src/GpsHealth.cpp`, `core/src/nav_nmea.c` | parser buffer, altitude, three ages, health | bytes to samples, health report | a sample is one whole sentence; an altitude is not lost; healthy means a recent fix |
| codecs `nav_radio_protocol.c`, `nav_telemetry.c`, `nav_serial_json.c` | none | frames and records | decode inverts encode; bad frames are refused |
| solver `nav_trilateration.c` | none | three spheres and an altitude to a position | numerical |
| SpeedyBee firmware `ports/speedybee/src/main.cpp`, `lib/SX1280` | identity, turn, peer, remote debug stamp, chip, amplifier | one thread: exchange as master, packets, slave listening; serial port polled in every wait | every peer gets its turn; the chip's address is the node's identity; amplifier and chip agree |
| other clients: `telemetry-ui`, `control-app`, `tools/sim`, `tools/plot`, `ports/posix`, `examples` | own | | |

### How they interact

```
 gps task ──GNSS sample──┐                        ┌── command ── reader task
                         ▼                        ▼
            ┌────────── mutex: nav_system_t, configuration ─────────┐
            │ emitter: read clock │ take mutex │ altitude, mocks, tick │ give │
            └────────────────────────────────────────────────────────┘
                         ▲                        │
 radio task ──beacon, range, failure──┘           └── snapshot, own beacon
     │  heartbeats, beacons, exchanges by slot
     ▼
 the channel, shared with the radio tasks of the other nodes
```

Events carry a stamp their task took **before** it waited for the mutex. The core
never reads a clock: every age is a difference of two 32-bit stamps.

### What is hard about it

* **Interleaving.** Four tasks, one mutex, stamps taken outside it. The order of
  stamps is not the order of injections; a tick can be older than an event
  already injected, and the age then wraps.
* **Staleness.** Evidence must expire although ages are modulo 2^32; the solve
  runs at a cadence and skips when its inputs are unchanged, and both skips
  republish an old snapshot.
* **Pairing.** A range is paired with the position its peer had when the range
  was measured, in any order of beacons, ranges and failures.
* **Distribution.** Each node decides alone, by a clock aligned to heartbeats
  that may be lost; nodes restart; a chip may be BUSY for longer than a slot.
* **Liveness.** An old position must go away when its sources fall silent; every
  peer must be ranged again and again.
* **Partial failure.** Bytes are lost, lines are too long, keys are written one
  by one, rows are broken, an exchange ends in one of five ways.
* **Two sides.** Frames are encoded and decoded by functions written apart, and
  by two firmwares.

`PROJECT.json` lists 40 hazards with their lines, and the properties that cover
them or why none does yet.

## 2 Modules and the code

| module | models | remarks |
|---|---|---|
| `PeerTable` | one entry of the peer table and the eligibility test | pure operators, entry × time → entry or verdict |
| `NavCore` | `nav_core_handle_event`, `nav_core_tick` | one action per event; `EXTENDS PeerTable` |
| `NavHost` | the core under the replay runner and the host tests | exact clock, sequential |
| `NavSolution` | what a node promises of its position | abstract: no table, no counters, no cadence |
| `Replay` | the runner around the core: files, rejections, verdict | `EXTENDS NavHost`, refines it |
| `ControlChannel` | the core under the firmware's four tasks | clock with a bounded lag, wrapping stamps |
| `Tdma` | `nav_tdma.c` | pure operators |
| `TdmaNetwork` | the slot loops of N radio tasks on one channel | true time, one alignment per node |
| `FrameCodec` | `nav_radio_protocol.c`, `nav_telemetry.c` | bytes in both directions, pure |
| `Sx1280` | what the SpeedyBee driver leaves in the chip | pure |
| `SpeedyBee` | the SpeedyBee firmware's loop | `EXTENDS FrameCodec, Sx1280` |
| `Nmea` | `nav_nmea.c` | byte machine on runs of bytes, pure |
| `GpsTask` | `GpsHealth.cpp` behind a noisy line | `EXTENDS Nmea` |
| `NodeConsole` | line buffer, commands, `NodeConfig.cpp`, resets | key by key |
| `NodeIo` | `GpsTask` and `NodeConsole` side by side | composition |
| `NavCoreLemmas` | lemmas about `NavCore` | used by four proof modules |
| `NavCoreProofs`, `NavSolutionProofs`, `ReplayProofs`, `ControlChannelProofs`, `TdmaProofs`, `NodeIoProofs`, `SpeedyBeeProofs` | theorems, §6 | no new definitions of the system |
| `MC…` | instances | sets for the constants, symmetry |

### Core: `PeerTable`, `NavCore`

*State.* `peer` is the table; `gnss`, `altitude` the last samples; `denied` is
`demo_force_gps_denied`; `snapshot` what was published. The two generation
counters are compared for equality only, so the model keeps `dirty`, which is
`radio_solve_generation # last_radio_solve_generation`; the counters skip zero,
and 2^32 changes without a solve in between are not considered.

*Data.* A position is the way its sender obtained it: `"gnss"` (valid, 3D fix),
`"gnss2d"`, `"blank"` (flags of a fix, no usable coordinates), `"estimated"`
(a radio position) and `"none"`. This is exactly what the eligibility test tells
apart. A range is good, too noisy or absent. The published position
(`snapshot.fix`) is a record of where it came from: for a radio fix the time of
the solve and its `basis`, the evidence of every anchor with the stamps it had.
`basis` is a history of the code's coordinates and residuals; nothing reads it
but the properties. Geometry and the solver's verdict are free choices, so the
properties hold whatever the solver returns.

*Actions.* `AttemptRadioSolution` is one disjunct per way out of
`attempt_radio_solution`: cadence skip, too few anchors, no altitude, and
`SolveFor` with bad geometry, unchanged inputs, failure, outlier, degraded, ok.
In the code the selection's diagnostics are written back to the table *before*
any of these tests; `BeginAttempt` does that for all of them. `Tick` marks stale
entries first. The position of a rejected outlier stays in the snapshot, as in
the code.

*Times.* All stamps are true times; `AgeAt` takes the difference modulo
`ClockMod`, which is what `uint32_t` subtraction does. `NavHost` never gets near
the wrap (`time_ms` is one `uint32_t` that never goes back); `ControlChannel`
does, with a small `ClockMod`.

*Selection.* `BestAnchors` states the result of the insertion in
`selection_add_candidate`: the best `AnchorCount` candidates, any choice among
equals. `CoreAssumption` keeps what holds in the repository, that there is at
most one more node than anchors, so the candidates never exceed the anchors.

*Promise.* `NavSolution` knows three things a node may show: nothing, its own
GNSS position, or a radio position with evidence that is `Fit` when it is first
shown and `Alive` as long as it stays. `ImplementsSolution` in `NavHost` maps the
snapshot to it (`INSTANCE NavSolution WITH`): every step of the core, whatever
its skips do, is `Keep`, `Withdraw`, `ShowGnss` or `ShowRadio`.

### Replay: `Replay`

| code (`replay_file`) | action |
|---|---|
| `load_replay_config`, `load_truth_csv` | `LoadFails`, `Loaded` |
| header row | `HeaderRow`, `HeaderMissing` |
| `split_csv_line`, `build_event`, time order | `RowRejected` |
| a later row: tick and outputs, then the event | `TickBeforeRow`, `TickRow`, `ApplyRow` |
| end of file, `validate_expected_final`, exit status | `EndOfFile`, `Finish` |

A row is its time, its type and at most one faulty column; `Fault` says which
faults which column kinds reject. `ImplementsHost` says that the core inside the
runner goes through a behaviour of `NavHost`: rejected rows and reports are
stutters.

### Firmware: `ControlChannel`

| code | action |
|---|---|
| `EmitterTask`: `nowMs()` before the mutex | `EmitterReadClock` |
| mutex taken, `feedAltitude` | `EmitterLock` |
| one event of `nav_mock_emit` | `EmitterMock` |
| `nav_core_tick`, copies, mutex given, sleep | `EmitterTick` |
| `ReaderTask` with `applyCommand` | `ReaderApply` |
| radio or gps task reads the clock for an event | `Stamp` |
| `handleEvent`, `handleNodeQualityReport` | `Inject` |
| `getLocalTelemetry` | `LocalTelemetry`, a state function |

The emitter's critical section is the only one of several steps; the others take
the mutex, do one thing and give it back, so each is one step enabled while the
emitter does not hold it. `SET_NODE_ID` is the whole of `initCoreForConfig`. The
clock advances only while every task is within `MaxLag` of its due time: this is
the bound on how late the scheduler may be, not an assumption of the code.

### Radio: `Tdma`, `TdmaNetwork`

`Service` is `serviceTdmaSlot`, entered when a node's passive listening has
ended: wait for the authority, a slot already processed, a slot missed, or one of
the four slot kinds. `doing[n]` is what the task does next and until when. Each
wait in the code is one value of `kind`: `guard` (delayUntilLocalTime),
`busyMaster`/`busySlave` (waitBusyLow), `master`, `slave`, `backoff`
(the `delayMs(500)` of `serviceSlave`), and the transmissions. A follower's
alignment (`epoch`) is the authority's plus an error from `Skews`:
`kTdmaHeartbeatRxCompensationMs` is a constant, the way of a heartbeat is not.
`HeartbeatSent` lets any set of listening followers catch it, each with its own
error. `realigned` is a history variable: a node that was aligned anew while it
listens still follows its old window until it decides again. The window of
`servicePassiveListen` is fixed when listening starts (`window`), and a debug
frame goes back to it, also after an alignment in between.

### Frames: `FrameCodec`

Each message has an encoder (`…Put`), a decoder (`…Get`) and the narrowing it
does on the way (`NarrowReport`, `QualityByte`, `SaturateU16`). The layouts are
written down once per direction, as in the code, so that a disagreement can show.
A layout is a sequence of fields, `Put` and `Get` move a cursor over it, and
`PayloadLen` is the table of `NAV_TELEMETRY_*_LEN`. `Carries` says that a record's
fields fit the kinds they are sent as.

### SpeedyBee: `SpeedyBee`, `Sx1280`

One thread; `pc` is where it is. `Turn` is `serviceRadio` up to an exchange or to
listening; `MasterWaits`, `MasterFails` and `MasterRanged` are
`runMasterExchange` after the start; the listening window alternates `packet`
(`servicePacketRx`, with a debug frame before it if one is due) and `slave`
(`serviceSlave`). `SetNodeId` and `SetDebug` are enabled in every wait, because
`pumpSerial` runs in it; the exchange goes on with the arguments it was called
with (`job`). `Restart` is a reset with the EEPROM's identity. `did` is what the
last step did that others see: an exchange, a frame sent and what an ESP32 takes
from it, a frame received and what the firmware took. `ContentsAssumption` keeps
what there is to say within the C types it is kept in.

### Ports of the ESP32: `Nmea`, `GpsTask`, `NodeConsole`

Bytes come in runs that the parser treats alike: `$`, a body, a checksum, an end
of line, noise. A body takes `size` units of the buffer, every other run one.
`Deliver` hands the parser one run and the core what it makes of it; `Disturb` and
`Lose` are the line. `Report` is the health report. Every sample the parser calls
valid has a 3D fix or better, so `HandleByte` need not ask
`nav_gnss_sample_is_usable`, which tests just that.

`Type`, `EndOfLine` and `EmptyLine` are `ReaderTask` on chunks of text,
`SaveStep` writes one key, `Saved` commits, `SaveFails` and `Reset` may come
between any two steps. `Boot` loads: each key may be unreadable and then has its
default, and any failure to open the namespace is taken for a first boot, which
saves the defaults over what is there. `dirty` and `torn` are histories: the running
configuration was not saved; a save was cut between its keys, or a key of the
identity was not read.

## 3 Runs

| run | instance | shows |
|---|---|---|
| `host` | one anchor, TTL 2 and 1, all events and commands, 4 times | the eight invariants of the core, `DueTickDecides`, and the refinement of `NavSolution` |
| `host_field` | the replay runner; two peers, both needed, retention on, interval 2; four recordings, two faulty columns | evidence that ages apart, the exit status, the refinement of `NavHost` |
| `modes_stale` | as `host`, no commands | violation, §7 |
| `control` | one peer, lag 1, stamps modulo 6 and a horizon beyond it; in the first three moments also all commands, two identities, mock peer, failed exchanges, quality reports | no expired evidence comes back; beacons are recent; an altitude is always fed; identity changes never let old evidence through |
| `control_live` | clock that wraps for ever, GPS and mock switched off | three properties of eventual withdrawal |
| `range_race` | lag 1 | violation, §7 |
| `tdma` | three nodes, a frame and a half, one disturbance (1.2 million states) | the four properties of the channel |
| `tdma_overrun` | the same, no restarts | violation, §7 |
| `speedybee` | three nodes, two identities, frames with border values, clock modulo 14 | turns, addresses, amplifier, debug telemetry, frames |
| `debug_returns` | the same, clock modulo 4 | violation, §7 |
| `node_io` | six sentences of size 1 (no fix) or 2, a buffer for four units (1.4 million states); five commands, a buffer of three chunks, two identities | samples, their altitude and health; saves, resets, long lines |
| `line_overflow` | the same, two sentences | violation, §7 |

The properties, in words:

* `EstimatedNeverAnchors` – a radio position never rests on another radio
  position, on blank coordinates or on the node itself. Without it errors would
  feed back between GNSS-denied nodes. The position is judged when the range
  arrives and the sender's GNSS again at the solve; the two tests are in
  different files.
* `EvidencePaired`, `EvidenceFresh`, `EvidenceTrulyFresh` – the evidence of a
  solve is paired and was alive; the third says so of true ages when stamps wrap
  and tasks lag, which depends on expiry being latched.
* `UnchangedMeansCurrent`, `DeniedGnssTransient` – the skip for unchanged inputs
  hides nothing newer, and cannot keep a denied GNSS position.
* `RadioAltitudeIndependent` – no altitude from a denied receiver.
* `RadioFixRecent`, `BeaconRecent`, `DueTickDecides` – how long a radio position
  outlives its evidence, inside the node and in what it broadcasts.
* `AltitudeAlwaysFed` – the firmware never rejects for want of an altitude.
* `GpsOffTakesEffect`, `SilenceWithdraws` – liveness, §5.
* `ExchangeExclusive`, `PromptNeverCollide` – who may be on the air together.
  Exceptions are named in the properties: work that a BUSY chip or a late beacon
  delayed (`Late`), nodes that have not decided since their last alignment and
  nodes aligned to an earlier boot of the authority (`Current`).
* `WaitingSilent` – a node that has lost the authority stops transmitting.
* `SlaveReady` – the 180 ms guard is long enough for the slave to listen.
* `ImplementsSolution`, `ImplementsHost` – the two refinements.
* `ZeroMeansAllWell` – exit status 0 means that every row was applied, the final
  snapshot is as expected, and a truth that was given was compared and matched.
* `HeardIsSaid` – what a receiver takes from a frame is what was said, as far as
  the field can hold it; nobody takes its own frames or those of unknown nodes.
* `EveryPeerRanged` – liveness, §5. `AddressIsIdentity`, `PaFollowsChip` – the
  chip answers for the node and the amplifier is on only with the chip.
* `QualityOnlyWhenAsked` – what the documents say: quality reports stop when debug
  telemetry expires. Violated, §7. `QuietForHalfTheClock` – what the code keeps of
  it: silence for half a turn of the clock, and for ever if nobody ever asked.
* `SampleIsHeard`, `AltitudeKept`, `OkMeansFix` – a sample is one whole sentence of
  the receiver, and a fix is the last one heard; the altitude survives RMC
  sentences, as long as no sample without fix comes between; healthy means a recent
  fix.
* `RestartKeepsConfig`, `IdentitySound` – a restart brings back what was saved, if
  the flash can be read; a foreign name needs a save that was cut or a key that was
  not read.
* `FittingLineWhole` – a line that fits the buffer is executed whole, whatever came
  before it. `OverlongLineDropped` – of one that does not fit nothing is executed.
  Violated, §7.

Every property of a passing run has a mutant in `PROJECT.json`: a definition next
to the original that changes it as a plausible slip in the code would, under
which TLC finds the property violated.

## 4 Bounds, and why they are enough

* *Core.* An eligibility decision depends on one entry; entries interact only by
  being enough of them (`AnchorCount`) and by the common `dirty`. One anchor with
  all kinds of data, and two anchors with fewer kinds, cover both. Four times
  exceed each TTL plus the interval, so evidence expires, is renewed and expires
  again. The theorems of §6 remove these bounds.
* *Control channel.* `ClockMod` 5 or 6 and horizons past it make stamps wrap
  within a run; TTLs and lag of 1 keep every order of the five times apart.
  Each task has one event under way, as in the code. The range race does not
  need the wrap of the clock, only of a difference, so there `ClockMod` is large.
* *TDMA.* A unit is 62.5 ms: slot 8, master timeout 4 (250 ms), guard 3 (180 ms),
  start threshold 7 (450 ms), beacon threshold 2 (100 ms), BUSY wait 16 (1 s),
  back-off 8. Three nodes have all slot kinds: own, ranging as master, as slave,
  and a third node that listens. `Timeout` is 50, just over a frame (15 s over a
  5 s frame in the code), so that it can expire within the run. `RestartTimes`
  takes one moment of each kind of slot instead of every unit. The alignment
  errors are −1 and 0 units and the polling of a listener is late by at most one.
* *Replay.* Three times and rows of every type; a fault in a required integer
  column, in a coordinate, or in none stands for every column of its kind. The
  four recordings are the combinations of configuration and truth that lead to
  different ends.
* *SpeedyBee.* A unit is about the reception window (kPacketRxWindowMs), and
  times keep their order: `TxGuard` 3 and `RxGuard` 2 units are the remaining
  time a transmission and a reception ask for, the listening window of 4 has room
  for both and for a slave slice. `Wrap` 14 exceeds twice every time to live, so
  the sign comparison is exact but for the case it is there for. Values lie on
  the borders of their fields: negative, 2^31 − 1, −2^31, 2^16, −1, a zero byte.
* *NMEA and console.* `SentenceMax` and `LineMax` make a buffer overflow in the
  middle of a sentence or line. A corrupted body never has a matching checksum:
  one error in 256 that the code cannot see either. `Checksum` keeps what an
  exclusive or keeps, the runs that occur an odd number of times. So three bodies
  of which two are equal collide with the third, and if all delimiters between them
  are lost the parser takes the first for the sentence. The 95 bytes that
  `NAV_NMEA_MAX_SENTENCE_LEN` leaves hold three short sentences without fix (19
  characters for an empty RMC), and run `node_io` has room for them; there one
  sample without fix may stand for another. They do not hold a fix, whose time,
  coordinates, speed and date take some 60 characters, two more sentences and a
  checksum: that is `BodyAssumption`, and without it TLC finds `SampleIsHeard`
  violated. Ages stop at `Old`; their wrap is left out. `OnePort` checks the two
  ports one at a time, because they share no variable and the product would only
  multiply states. For the same reason `View` drops the ages and the health, which
  no other variable's next value depends on, from a state with more in sight than
  one sentence with a fix or its loss. `OkMeansFix` is checked for all
  combinations of ages that such sentences bring about, the others for all
  sentences.
* *Operator.* `OperatorEarly` is a constraint of run `control`: later than
  `OperatorTime` (2) it follows only states with the initial configuration and
  without debug mode, quality report or failed exchange under way. A tick of each
  identity fits before that, and the mutants of `SetNodeId` are found there.
  `control_live` lets the operator switch GPS and the mock off at any time, and the
  theorems put no bound on him.
* *Disturbances.* One restart or chip failure in a run; lost heartbeats are not
  counted and may happen at any time.

`CHECK_DEADLOCK FALSE` where a model ends at its horizon (core, control channel,
TDMA) or may end when nothing is left to inject. `host_field`, `speedybee`
and `node_io` check for deadlock; the replay runner's end is an explicit
stutter.

## 5 Fairness

`FairSpec` of `ControlChannel` asks for weak fairness of time, of the emitter and
of each injection. FreeRTOS gives it: tasks are preempted and equal priorities are
sliced, every task sleeps in its cycle, each critical section is finite and the
mutex is awaited with `portMAX_DELAY`. Weak fairness is enough because a stamped
event holds time back (`MaxLag`): the emitter cannot run round it for ever. No
fairness is asked of the radio, the receiver or the operator, who may stop.
`SilenceWithdraws` is therefore conditional: *if* radio and mock fall silent for
good, the position is withdrawn for good. Neither property holds for `Spec`.

`Spec` of `SpeedyBee` asks for weak fairness of the loop: it is the only thread and
every wait in it is a poll with a time limit, so some step of it is always enabled
and eventually taken. Commands and resets need no fairness. `EveryPeerRanged` is
conditional on them: once the identity stays, every other node is ranged again
and again. It would not hold if a turn could be lost for ever when the identity
changes between the choice of a peer and the exchange.

## 6 Proofs

The theorems state every invariant and every action property that a passing run
checks; only liveness is left to TLC. The assumptions are the named ones of the
modules: types of the constants, at most one more node than anchors, values that
fit their C types, no room in the parser's buffer for a fix with two more sentences,
and, for the host, that times stay below `ClockMod`. Some theorems state more:
`ClockOutlasts`, `CadenceOutlasts`, `Budget` and `Margins` (below).

**The core** (`NavCoreLemmas`, `NavCoreProofs`). For every set of nodes, TTL,
interval, flag and length of a run, the invariants that run `host` checks for one
instance. None of them is inductive. `IInv` adds

* `TabOK`: no stamp of an entry is in the future; a locked position is older than
  the range that locked it and came with valid GNSS; an entry that counts as valid
  is within its TTL *now*. The last part is true because time only advances through
  a tick, which latches first; it is the reason why a range can lock a position
  without looking at its age.
* `FixOK`: what the evidence of the published position satisfied when it was solved.
* `SolveRecent`: a radio solution is on show only until the first due tick.
* `Quiet`: before the first row, which runs without a tick, there is nothing.

The argument goes bottom up: lemmas on one entry, on the evidence of an eligible
entry, on what a tick may do to the snapshot (`OutKept`, `OutRejected`,
`OutSolved`, which hide the disjuncts of the solve), and the invariant.
`FullSelection` is where the bound on the nodes enters: when a solve runs, every
candidate is an anchor.

**The promise** (`NavSolutionProofs`). `KeepsPromise` is the refinement of
`NavSolution`. `SInv` adds to `IInv` that what counts as unchanged is the present
evidence; it is what makes a skipped solve a `Keep` and makes ranges of a peer
never go back in `ShowRadio`. `DueTickRedecides` is `DueTickDecides`.

**The replay** (`ReplayProofs`). `ReplayIsHost` is the refinement of `NavHost`, and
with it the invariants of the core hold in every replay (`ReplayFixRecent`).
`ExitStatusSound` is `ZeroMeansAllWell`.

**The tasks** (`ControlChannelProofs`). The same core, but stamps that lie before
the injection, in any order, modulo `ClockMod`. `BaseInv` needs no time at all:
types, identity, entries whose locked position was vouched for, and the altitude
that is fed under the mutex (`AltitudeInv`). The two theorems about age do:

* `ClockOutlasts`: a stamp does not lap within a run, both TTLs are in use, and a TTL
  plus the longest pause between two ticks (`TickGap`, the period and twice the
  lag) is less than a turn of the clock: 30 s and a scheduling delay against 49.7
  days. `TimeInv` then bounds how far an entry that counts as valid can be expired
  in true time, by where the emitter is (`Late`, `Slack`), and
  `EvidenceIsTrulyFresh` follows although ages wrap. The invariant has a special
  case for the range stamped after the emitter's clock: the tick to come throws
  it away, as `range_race` shows, and that is why it does no harm.
* `CadenceOutlasts`: also the solve interval and a pause fit into a turn.
  `RecentInv` says when the evidence behind the snapshot was last checked;
  `BeaconNeverOld` follows.

**The channel** (`TdmaProofs`). `ScheduleInv` says where in its slot each task that
transmits, or is about to, must be (`InSlot`), unless the node was aligned anew
since it decided, and how old the authority's timing may be meanwhile
(`Informed`). `SilentWithoutAuthority` follows for any timing. For
`PromptNodesApart` and `ExchangeAlone`, `Budget(ahead, behind)` collects what the
times of the code must satisfy when an alignment errs by at most `ahead` or
`behind`: start thresholds exceed what they admit by the error, a prompt beacon
and a prompt exchange fit into the slot, and the master's guard covers the latest
beacon of the slot before. The instance of run `tdma` satisfies it with 1 and 0;
in milliseconds the code has slot 500, guard 180, timeout 250 (so polling and
error may take 70 together, of which the assertion at `RadioHealth.cpp:53`
reserves 20), beacon threshold 100, debug threshold 200. Two transmissions of
different slots are then apart by arithmetic; the one case where a prompt
exchange may touch the next slot is a beacon slot at the start of a frame, which
is the authority's, whose alignment has no error (`FrameBegins`).

The schedule itself is proved for any number of members. `RangingPair(k)` is the
pair with `k` pairs before it, so it exists only if the pairs are as many as
the ranging slots of a frame, N(N − 1)/2. Pairs, turned pairs and the diagonal
together are the square of the members (`PairCount`); ranks of pairs are different
and lie below that number, so all of them occur (`RankOnto`). Hence
`EverySlotHasItsOwner` and `EveryPairHasItsSlot`, and `NetworkTypes`, whose only
hard part is that whom a task ranges is a member.

`SlaveIsReady` relates two nodes, each of which decides alone. Its invariant
`CalmInv` holds as long as nothing disturbs the nodes (no restart, no chip that
fails), and says for each of them where its task lies relative to the authority's
schedule (`Punctual`), which tasks a slot allows (`Suits`), that a follower decides
on a slot before a master can start in it (`InTime`), that a node which regains
the timing while it waits does so in the frame's first slot and is done before
the first ranging slot (`Regains`), and that a slave leaves its slot only at
the end or when its master has started (`Served`, `PastGuard`). Lost heartbeats need
no case of their own: a node that misses them keeps its alignment or waits.
`Margins` asks, on top of `Budget`, that polling and the errors of two alignments
together stay below the guard (180 ms), that the latest start of an exchange leaves
no more of its slot behind than the guard (50 ms), and that guard, timeout and both
errors fit into the slot (430 of 500 ms). TLC has checked `Bounds` and `CalmInv` on
the instance of run `tdma`.

**The ports** (`NodeIoProofs`). `StoreInv` follows the keys through a save and
gives `RestartKeeps` and `IdentityIsSound`; `LineInv` (until it overflows, the
buffer holds what was typed) gives `FittingLinesWhole`; `AgeInv` gives
`HealthyHasFix`. Of the receiver, `GpsInv` says that a sentence with a body in it has
the body heard last (`LastBody`), that any four runs of it take no more room than it
has used (`Room`), and that an altitude is known after a fix with one.
`SampleOfHeard` is the argument: if a fix passes its checksum and another body was
heard after it, then the sum, which is that of one body, says that a third is in
the sentence (a run that the sum does not show is there twice, `EvenMeansTwice`);
fix, two bodies and checksum have no room. `SamplesAreHeard` and `AltitudesKept`
follow.

**The second firmware** (`SpeedyBeeProofs`). From the bytes up: `FieldRoundTrip` is
one field of any kind and any value it can hold; `GetPut` is any layout, by the
cursor (a field's bytes are found where they were put); `PayloadLengths` compares
the lengths that encoders and decoders arrive at with the table;
`FrameRoundTrip` is the envelope; `EspTakesFrame` is the decoder of the other
firmware. With them `HeardIsSaid` is about every content that fits its fields,
not a few values at their borders (`FramesAgree`). The cursor is a recursive
function; where an induction over its positions is needed, the proof takes the
least position that fails (`LeastNatural`), since the library's induction theorems
cannot be used. `FirmwareInv` is the conjunction of `Kept` (globals, and nothing is
under way without an identity), `Waits` (a window never outlasts the wait for the
node's own turn, which is why its remainder never goes negative), `OnAir` (chip and
amplifier serve the job that the loop is at; `AddressIsIdentity` and `PaFollowsChip`
say only what can be seen from outside) and `Clock` (the deadline and the age of the
request agree modulo the wrap, which `QuietForHalf` needs to speak of true time). `NextPeerIs` says that the walk to the next peer always arrives at another
node.

Only model-checked: liveness (`GpsOffTakesEffect`, `SilenceWithdraws`,
`EveryPeerRanged`), which with `ENABLED` is outside what the installed provers do.

## 7 Where code and documents disagree

With a run:

1. **A mode that is no longer true** (`modes_stale`). A sample that says the fix is
   lost is not counted as an input of the radio solve. A due tick that finds
   anchors and unchanged inputs republishes the previous snapshot, which is
   GNSS's. `docs/state_machine.md:20` says GNSS_OK means usable. The second
   conjunct of `ModeAsDocumented`, of `docs/state_machine.md:13`, fails as well, in
   a longer run of the same instance: an altitude of unchanged value that returns
   after it had aged is no change, and the rejection is republished. That is
   reachable in replay, not in the firmware (`AltitudeAlwaysFed`).
2. **A new range is discarded** (`range_race`). The emitter's clock is read before
   the mutex; a range injected in between is in the tick's future.
   `docs/gps_trilateration_bringup.md:116-117`.
3. **Late work overruns its slot** (`tdma_overrun`). Remaining time is tested
   before the wait for the BUSY chip and not after it.
   `docs/radio_protocol.md:395-397`.
4. **Debug telemetry comes back** (`debug_returns`). The end of remote debug is
   compared by the sign of a 32-bit difference and never cleared: half a turn of
   the clock (24.8 days) after it has passed, the node counts as asked again, until
   the turn is complete, and broadcasts quality reports.
   `docs/radio_protocol.md:318-320` and ADR 0004 say that a peer reverts to off when
   the TTL lapses. Both firmwares do it; the run is about the SpeedyBee's.
5. **The tail of a long line is a command** (`line_overflow`). The comment at
   `ControlChannel.cpp:267` says that a malformed line is dropped; the code empties
   the buffer and takes what follows for a new line.

Without a violation run:

* *A failing flash loses the configuration.* The comment at `NodeConfig.cpp:45` calls
  every failure to open the namespace a first boot, and the defaults are then saved
  over what is there. `Boot` does that; no document says what should happen.
* *A change of identity can cost a turn* (SpeedyBee). The next peer is chosen
  before the listening window; if it is this node by the time of the exchange, the
  turn is skipped. `EveryPeerRanged` shows that it is only one.
* *The altitude of a lost fix.* A sample without fix overwrites the known altitude
  with 0, and the next RMC fix is injected at altitude 0; `AltitudeKept` is
  conditional on that.

Because no behaviour of the models depends on it: in TDMA mode the
result of an exchange is not broadcast (`RadioHealth.cpp:1282` passes `false`;
`docs/radio_protocol.md:400`, ADR 0012-tdma); the start threshold of an exchange is
450 ms (`nav_tdma.h:31`), the documents say 400 ms; mode `DEMO_FORCED_DENIED` of
`docs/state_machine.md` is never published.

## 8 What is not modelled

* Numbers: the trilateration iteration, triangle area, residuals and quality as
  floating-point values, and SpeedyBee's range correction. Their outcomes are free
  choices.
* Formatting and logging: records, log lines, LED, the text of replay reports and
  option parsing.
* Drivers: RadioLib, chip initialisation, UART, NVS's own guarantees (a key is
  written or not).
* The short BUSY waits (at most 100 ms) before a frame is sent or received, a
  failing transmission, and a change of identity in a running `TdmaNetwork`; a
  restart stands for the last.
* Heartbeat validation: all nodes run one firmware with one fixed plan.
* The wrap of the 32-bit clock in `TdmaNetwork` and of an age in `GpsTask`.
* SpeedyBee's copies of core and console, which are `NavCore`'s and
  `NodeConsole`'s, and values from 2^31 on in frames (TLC's integers).
* Other programs: UI, control app, simulator, plots, the POSIX port, the GNSS
  dump, the ranging example.

## 9 Plan

Done: the core with its proofs and its abstract specification; the replay
runner; the tasks with their proofs; the schedule and the channel with their
proofs; frames; the SpeedyBee loop; the GPS task, the parser, the console and the
store.

Proved as well: the frames and the SpeedyBee firmware, the receiver, the
schedule's pairs, and the slave that is ready in time.

Left, in this order:

1. `AnchorSelection`: the insertion of `selection_add_candidate`, checked against
   `BestAnchors` and lifting the bound on the nodes.
2. The short BUSY waits and failing transmissions in `TdmaNetwork`, and its clock
   modulo a small power; how long after a disturbance `CalmInv` holds again.
3. Several SpeedyBee and ESP32 nodes on one channel, without the schedule.
4. The record merge of the telemetry UI.
