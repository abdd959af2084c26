---------------------------- MODULE ControlChannel ----------------------------
(***************************************************************************)
(* The navigation core in the ESP32 firmware (src/ControlChannel.cpp):     *)
(* four tasks share one nav_system_t, the configuration and the quality    *)
(* buffer behind one mutex.                                                *)
(*   emitter  every 500 ms reads the clock, takes the mutex, feeds the     *)
(*            configured altitude and the mock peers, ticks the core and   *)
(*            copies the snapshot out;                                     *)
(*   reader   applies one command of the operator under the mutex;         *)
(*   radio    stamps what it received, then takes the mutex to inject it,  *)
(*            and builds this node's beacon under the mutex;               *)
(*   gps      stamps a sample, then takes the mutex to inject it.          *)
(* A stamp is read BEFORE the mutex is taken, so the order of stamps is    *)
(* not the order of injections.  Only the emitter holds the mutex over     *)
(* several steps; the others' critical sections are one step.              *)
(***************************************************************************)
EXTENDS NavCore, Sequences

CONSTANTS
  EnableGnss,     \* NAV_ENABLE_GNSS
  Heard,          \* the peers whose frames and ranges this radio receives
  RadioInput,     \* what the radio receives of them, a subset of RadioInputs
  TelemetryKind,  \* the kinds of position their beacons carry
  GnssUsable,     \* the usabilities of the samples the gps task injects
  Command,        \* the commands the operator may send
  MockPeer,       \* the peers of seedMock
  InitialConfig,  \* the configurations NodeConfigStore::load may return
  EmitterPeriod,  \* the shortest sleep vTaskDelay makes of kSnapshotPeriodMs
  MaxLag,         \* bound on a task's delay in getting the CPU and the mutex
  Horizon,        \* bound on the clock
  Lapping         \* the clock starts over after Horizon instead of stopping

NodeConfig == [nodeId : Node, gps : BOOLEAN, mock : BOOLEAN, alt : AltitudeValue]

CommandType ==
  [type : {"SET_NAME", "GET"}] \cup [type : {"SET_GPS", "SET_MOCK", "SET_DEBUG"}, on : BOOLEAN]
    \cup [type : {"SET_ALTITUDE"}, alt : AltitudeValue] \cup [type : {"SET_NODE_ID"}, id : Node]

RadioInputs == {"telemetry", "range", "rangeFail", "quality"}

RadioEvent ==
  [type : RadioInput \cap {"telemetry"}, peer : Heard, kind : TelemetryKind]
    \cup [type : RadioInput \ {"telemetry"}, peer : Heard]
GpsEvent == [type : {"gnss"}, usable : GnssUsable]

ASSUME ControlAssumption ==
  /\ EnableGnss \in BOOLEAN
  /\ Heard \subseteq Node
  /\ RadioInput \subseteq RadioInputs
  /\ TelemetryKind \subseteq PosKind
  /\ GnssUsable \subseteq BOOLEAN
  /\ Command \subseteq CommandType
  /\ MockPeer \in Seq(Node)
  /\ InitialConfig \subseteq NodeConfig
  /\ EmitterPeriod \in Nat \ {0}
  /\ MaxLag \in Nat
  /\ Horizon \in Nat
  /\ Lapping \in BOOLEAN
  /\ Lapping => Horizon = ClockMod - 1

VARIABLES
  clock,    \* esp_timer_get_time, in milliseconds before the cut to 32 bits
  config,   \* gConfig; gMock.enabled always equals config.mock
  debug,    \* gDebugEnabled
  quality,  \* gNodeQuality: whether a report is present, and receivedMs
  emitter,  \* the emitter task: where it is, the clock it read, what is left to do
  pending   \* what the radio and the gps task have stamped and not yet injected

channelVars == <<clock, config, debug, quality, emitter, pending>>
vars == <<coreVars, channelVars>>

Task == {"radio", "gps"}
NoEvent == [type |-> "none"]
NoQuality == [p \in Node |-> [present |-> FALSE, at |-> 0]]

EffectiveGps(c) == EnableGnss /\ c.gps

(* The emitter is the only task that keeps the mutex between steps.        *)
MutexFree == emitter.pc # "locked"

-----------------------------------------------------------------------------
(* begin, with initCoreForConfig: the core starts with a change pending,   *)
(* because applyCoreConfig bumps the generation.                           *)
Init ==
  /\ config \in InitialConfig
  /\ CoreInit(config.nodeId, ~EffectiveGps(config), TRUE)
  /\ clock = 0
  /\ debug = FALSE
  /\ quality = NoQuality
  /\ emitter = [pc |-> "sleeping", at |-> 0, todo |-> <<>>]
  /\ pending = [k \in Task |-> [event |-> NoEvent, at |-> 0]]

(* True time passes, no further than the emitter's next cycle may be late  *)
(* and no stamped event may wait.                                          *)
OnTime(t) ==
  /\ AgeAt(t, emitter.at) <= (IF emitter.pc = "sleeping" THEN EmitterPeriod ELSE 0) + MaxLag
  /\ \A k \in Task : pending[k].event # NoEvent => AgeAt(t, pending[k].at) <= MaxLag

ClockStep ==
  /\ clock < Horizon
  /\ OnTime(clock + 1)
  /\ clock' = clock + 1
  /\ UNCHANGED <<coreVars, config, debug, quality, emitter, pending>>

(* Only with Lapping: the 32-bit stamps start over.                        *)
ClockLap ==
  /\ Lapping
  /\ clock = Horizon
  /\ OnTime(0)
  /\ clock' = 0
  /\ UNCHANGED <<coreVars, config, debug, quality, emitter, pending>>

-----------------------------------------------------------------------------
(* EmitterTask.  The clock is read without the mutex.                      *)
EmitterReadClock ==
  /\ emitter.pc = "sleeping"
  /\ AgeAt(clock, emitter.at) >= EmitterPeriod
  /\ emitter' = [pc |-> "stamped", at |-> clock, todo |-> <<>>]
  /\ UNCHANGED <<coreVars, clock, config, debug, quality, pending>>

(* nav_mock_emit: a beacon and a range of every mock peer.                 *)
MockEvents ==
  [i \in 1 .. 2 * Len(MockPeer) |->
     [type |-> IF i % 2 = 1 THEN "telemetry" ELSE "range", peer |-> MockPeer[(i + 1) \div 2]]]

(* Mutated form: the altitude is fed only when it differs.                 *)
EmitterLock_OnChange ==
  /\ emitter.pc = "stamped"
  /\ IF altitude.present /\ altitude.alt = config.alt
     THEN UNCHANGED coreVars
     ELSE LocalAltitudeSample(emitter.at, TRUE, config.alt)
  /\ emitter' = [emitter EXCEPT !.pc = "locked",
                                !.todo = IF config.mock THEN MockEvents ELSE <<>>]
  /\ UNCHANGED <<clock, config, debug, quality, pending>>

(* The mutex is taken and feedAltitude runs.                               *)
EmitterLock ==
  /\ emitter.pc = "stamped"
  /\ LocalAltitudeSample(emitter.at, TRUE, config.alt)
  /\ emitter' = [emitter EXCEPT !.pc = "locked",
                                !.todo = IF config.mock THEN MockEvents ELSE <<>>]
  /\ UNCHANGED <<clock, config, debug, quality, pending>>

EmitterMock ==
  /\ emitter.pc = "locked"
  /\ emitter.todo # <<>>
  /\ LET e == Head(emitter.todo)
     IN  \/ e.type = "telemetry" /\ PeerTelemetryRx(emitter.at, e.peer, "gnss")
         \/ e.type = "range" /\ RangeResult(emitter.at, e.peer, TRUE, "good")
  /\ emitter' = [emitter EXCEPT !.todo = Tail(@)]
  /\ UNCHANGED <<clock, config, debug, quality, pending>>

(* nav_core_tick and the copies; the mutex is given back and the task      *)
(* sleeps for a period from now on.                                        *)
EmitterTick ==
  /\ emitter.pc = "locked"
  /\ emitter.todo = <<>>
  /\ Tick(emitter.at)
  /\ emitter' = [pc |-> "sleeping", at |-> clock, todo |-> <<>>]
  /\ UNCHANGED <<clock, config, debug, quality, pending>>

-----------------------------------------------------------------------------
(* Mutated form: the generation is not bumped.                             *)
SetGps_NotDirty(on) ==
  /\ config' = [config EXCEPT !.gps = EnableGnss /\ on]
  /\ denied' = ~EffectiveGps(config')
  /\ UNCHANGED <<local, gnss, altitude, peer, dirty, ran, lastSolve, snapshot, debug, quality>>

(* Mutated form: the core is not told of the new configuration.            *)
SetGps_ConfigOnly(on) ==
  /\ config' = [config EXCEPT !.gps = EnableGnss /\ on]
  /\ UNCHANGED <<coreVars, debug, quality>>

(* ReaderTask: applyCommand under the mutex.  SET_GPS changes the denial   *)
(* and marks the inputs changed, and leaves the snapshot to the next tick. *)
SetGps(on) ==
  /\ config' = [config EXCEPT !.gps = EnableGnss /\ on]
  /\ denied' = ~EffectiveGps(config')
  /\ dirty' = TRUE
  /\ UNCHANGED <<local, gnss, altitude, peer, ran, lastSolve, snapshot, debug, quality>>

SetMock(on) ==
  /\ config' = [config EXCEPT !.mock = on]
  /\ UNCHANGED <<coreVars, debug, quality>>

SetAltitude(alt) ==
  /\ config' = [config EXCEPT !.alt = alt]
  /\ UNCHANGED <<coreVars, debug, quality>>

(* Mutated form: the core keeps what the old identity had learnt.          *)
SetNodeId_KeepCore(id) ==
  /\ config' = [config EXCEPT !.nodeId = id]
  /\ local' = id
  /\ UNCHANGED <<denied, gnss, altitude, peer, dirty, ran, lastSolve, snapshot, debug, quality>>

(* Mutated form: the core is not told of the new identity.                 *)
SetNodeId_ConfigOnly(id) ==
  /\ config' = [config EXCEPT !.nodeId = id]
  /\ UNCHANGED <<coreVars, debug, quality>>

(* A new identity starts from an empty core and an empty buffer.           *)
SetNodeId(id) ==
  /\ config' = [config EXCEPT !.nodeId = id]
  /\ local' = id
  /\ denied' = ~EffectiveGps(config)
  /\ gnss' = NoGnss
  /\ altitude' = NoAltitude
  /\ peer' = EmptyTable
  /\ dirty' = TRUE
  /\ ran' = FALSE
  /\ lastSolve' = 0
  /\ snapshot' = BootSnapshot
  /\ quality' = NoQuality
  /\ UNCHANGED debug

SetDebug(on) ==
  /\ debug' = on
  /\ quality' = IF on THEN quality ELSE NoQuality
  /\ UNCHANGED <<coreVars, config>>

ReaderApply ==
  /\ MutexFree
  /\ \E c \in Command :
       \/ c.type = "SET_GPS" /\ SetGps(c.on)
       \/ c.type = "SET_MOCK" /\ SetMock(c.on)
       \/ c.type = "SET_ALTITUDE" /\ SetAltitude(c.alt)
       \/ c.type = "SET_NODE_ID" /\ SetNodeId(c.id)
       \/ c.type = "SET_DEBUG" /\ SetDebug(c.on)
       \/ c.type \in {"SET_NAME", "GET"} /\ UNCHANGED <<coreVars, config, debug, quality>>
  /\ UNCHANGED <<clock, emitter, pending>>

-----------------------------------------------------------------------------
(* The radio and the gps task read the clock when something arrives.       *)
Stamp(k, events) ==
  /\ pending[k].event = NoEvent
  /\ \E e \in events : pending' = [pending EXCEPT ![k] = [event |-> e, at |-> clock]]
  /\ UNCHANGED <<coreVars, clock, config, debug, quality, emitter>>

Apply(e, at) ==
  \/ e.type = "telemetry" /\ PeerTelemetryRx(at, e.peer, e.kind) /\ UNCHANGED quality
  \/ e.type = "range" /\ RangeResult(at, e.peer, TRUE, "good") /\ UNCHANGED quality
  \/ e.type = "rangeFail" /\ RangeFail(at, e.peer) /\ UNCHANGED quality
  \/ e.type = "gnss" /\ LocalGnssSample(at, e.usable) /\ UNCHANGED quality
  \/ /\ e.type = "quality"
     /\ quality' = [quality EXCEPT ![e.peer] = [present |-> TRUE, at |-> at]]
     /\ UNCHANGED coreVars

(* handleEvent and handleNodeQualityReport.                                *)
Inject(k) ==
  /\ MutexFree
  /\ pending[k].event # NoEvent
  /\ Apply(pending[k].event, pending[k].at)
  /\ pending' = [pending EXCEPT ![k] = [event |-> NoEvent, at |-> 0]]
  /\ UNCHANGED <<clock, config, debug, emitter>>

-----------------------------------------------------------------------------
Next ==
  \/ ClockStep
  \/ ClockLap
  \/ EmitterReadClock
  \/ EmitterLock
  \/ EmitterMock
  \/ EmitterTick
  \/ ReaderApply
  \/ Stamp("radio", RadioEvent)
  \/ Stamp("gps", GpsEvent)
  \/ \E k \in Task : Inject(k)

Spec == Init /\ [][Next]_vars

(* Time passes, and every ready task gets the processor and the mutex: the *)
(* scheduler preempts and slices equal priorities, every task sleeps       *)
(* between its cycles, every critical section ends, and the mutex is       *)
(* waited for without a time limit.                                        *)
FairSpec ==
  /\ Spec
  /\ WF_vars(ClockStep \/ ClockLap)
  /\ WF_vars(EmitterReadClock \/ EmitterLock \/ EmitterMock \/ EmitterTick)
  /\ \A k \in Task : WF_vars(Inject(k))

-----------------------------------------------------------------------------
(* getLocalTelemetry: the kind of position this node's beacon would carry  *)
(* if the radio task built it now, "none" for no beacon.                   *)
LocalTelemetry ==
  IF EffectiveGps(config) /\ gnss.present /\ gnss.usable /\ ~Expired(clock, gnss.ts, TelemetryTtl)
  THEN "gnss"
  ELSE IF snapshot.source = "RADIO_3D" THEN "estimated" ELSE "none"

-----------------------------------------------------------------------------
(* Types, and what the bounds on the schedule keep in range.               *)
TypeOK ==
  /\ CoreTypeOK
  /\ clock \in 0 .. Horizon
  /\ config \in NodeConfig
  /\ local = config.nodeId
  /\ debug \in BOOLEAN
  /\ quality \in [Node -> [present : BOOLEAN, at : 0 .. Horizon]]
  /\ emitter.pc \in {"sleeping", "stamped", "locked"}
  /\ emitter.at \in 0 .. Horizon
  /\ pending \in [Task -> [event : RadioEvent \cup GpsEvent \cup {NoEvent}, at : 0 .. Horizon]]

(* The longest time between two stamps with which the emitter ticks.       *)
TickGap == EmitterPeriod + 2 * MaxLag

(* However stamps and injections interleave, and although stamps start     *)
(* over after ClockMod, a solve uses a range within its time to live, and  *)
(* a position that had arrived (but for the lag of two tasks) and was not  *)
(* yet latched as stale when the range was injected.  Evidence whose age   *)
(* wraps to a small number must not come back.                             *)
EvidenceTrulyFresh ==
  \A ev \in snapshot.fix.basis :
    /\ snapshot.fix.at - ev.rngTs \in 0 .. RangeTtl
    /\ ev.rngTs - ev.posTs \in -MaxLag .. TelemetryTtl + TickGap

(* A radio position in a beacon is never long dead: the emitter withdraws  *)
(* it at the first tick that is due, so it rests on ranges at most their   *)
(* time to live, the cadence and the gap between two ticks old.            *)
BeaconRecent ==
  LocalTelemetry = "estimated" =>
    \A ev \in snapshot.fix.basis :
      clock - ev.rngTs < RangeTtl + SolveInterval + TickGap + MaxLag

(* The firmware never lacks an altitude: the one fed carries the stamp of  *)
(* the tick that follows it under the same mutex.                          *)
AltitudeAlwaysFed == snapshot.reject # "MISSING_LOCAL_ALTITUDE"

(* Switching GPS off takes effect: GNSS_OK goes away, or GPS is on again.  *)
GpsOffTakesEffect ==
  ~config.gps /\ snapshot.mode = "GNSS_OK" ~> config.gps \/ snapshot.mode # "GNSS_OK"

(* Once the radio and the mock fall silent for good, the last radio        *)
(* position is withdrawn for good, whatever the operator does, also when   *)
(* the stamps start over.                                                  *)
SilenceWithdraws ==
  <>[](pending["radio"].event = NoEvent /\ ~config.mock) => <>[](snapshot.source # "RADIO_3D")

(* docs/gps_trilateration_bringup.md: the last successful range is not     *)
(* erased until its evidence window expires.  Stated of a tick and of the  *)
(* true age.                                                               *)
FreshRangeSurvives ==
  [][emitter.pc = "locked" =>
       \A p \in Node :
         peer[p].rngValid /\ clock - peer[p].rngTs <= RangeTtl => peer'[p].rngValid]_vars
=============================================================================
