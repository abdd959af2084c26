------------------------------ MODULE SpeedyBee ------------------------------
(***************************************************************************)
(* The SpeedyBee firmware (ports/speedybee/src/main.cpp): one thread that  *)
(* takes turns as ranging master, listens for packets and as ranging slave *)
(* in between, and polls its serial port inside every wait, so that a      *)
(* command may change the node's identity in the middle of an exchange.    *)
(* Frames go through FrameCodec in both directions; what it sends is heard *)
(* by an ESP32 node (src/RadioHealth.cpp).                                 *)
(*                                                                         *)
(* Time is counted in units and kept as what is left: of a window, until   *)
(* the next turn as master, until remote debug ends.  The 32-bit stamp of  *)
(* the latter is compared by its sign, so it is kept modulo Wrap.  Whether *)
(* a period has passed since a debug frame was last sent is left open.     *)
(* The records printed and the buffer of quality reports they show are     *)
(* left out.                                                               *)
(***************************************************************************)
EXTENDS FrameCodec, Sx1280

CONSTANTS
  NodeCount,      \* NAV_MAX_NODES
  EspId,          \* the id of the ESP32 node that listens
  Assignable,     \* the ids SET_NODE_ID may carry
  ScanInterval,   \* kMasterScanIntervalMs
  InitialDelay,   \* kInitialMasterDelayMs
  TurnSpacing,    \* kMasterTurnSpacingMs
  HostTimeout,    \* kMasterHostTimeoutMs
  PeerGap,        \* kMasterPeerGapMs
  ListenWindow,   \* kSlaveListenWindowMs
  SlaveSlice,     \* kSlaveListenSliceMs
  DebugTtl,       \* kDebugEnableTtlMs and kRemoteDebugFallbackTtlMs
  Wrap,           \* 2^32 ms
  Beacons, Reports, Ranges, Heartbeats   \* what nodes may have to say

Node == 0 .. NodeCount - 1

ASSUME SpeedyBeeAssumption ==
  /\ NodeCount \in Nat /\ NodeCount > 1
  /\ EspId \in Node /\ Assignable \subseteq Node
  /\ ScanInterval \in Nat /\ ScanInterval > PeerGap /\ PeerGap \in Nat
  /\ InitialDelay \in Nat \ {0} /\ TurnSpacing \in Nat
  /\ HostTimeout \in Nat \ {0}
  /\ ListenWindow \in Nat \ {0} /\ SlaveSlice \in Nat \ {0}
  /\ DebugTtl \in Nat \ {0} /\ Wrap \in Nat /\ Wrap > 2 * DebugTtl

(* What there is to say fits the C types it is kept in: a score is any     *)
(* number of thousandths, a residual a uint32_t.                           *)
IsRecord(rec, names) == rec = [name \in names |-> rec[name]]

ASSUME ContentsAssumption ==
  /\ NodeCount <= 255 /\ DebugTtl <= 65535
  /\ \A b \in Beacons :
       /\ IsRecord(b, NamesOf(BeaconPut) \ {"zero"}) /\ b.gnss_valid \in BOOLEAN
       /\ Carries(BeaconPut, BeaconOnAir(b))
  /\ \A r \in Reports :
       /\ IsRecord(r, NamesOf(QualityPut)) /\ Carries(QualityPut, NarrowReport(r))
       /\ r.num_anchors \in Nat /\ r.residual_rms_mm \in Nat /\ r.max_residual_mm \in Nat
       /\ r.geometry \in Int /\ r.quality \in Int
  /\ \A r \in Ranges : Carries(RangeResultPut, RangeOnAir(r))
  /\ \A h \in Heartbeats : Carries(HeartbeatPut, h)

(* The remaining listening that a debug transmission and a reception ask   *)
(* for: kBestEffortTxGuardMs + kPacketRxWindowMs, kPacketRxWindowMs + 20.  *)
TxGuard == 3
RxGuard == 2

VARIABLES
  ready,      \* gRadioReady
  nodeId,     \* gConfig.nodeId, in EEPROM whenever no command is under way
  debug,      \* gDebugEnabled
  radioId,    \* gRadioNodeId
  nextPeer,   \* gNextPeerId
  toMaster,   \* gNextMasterAtMs - millis(), 0 when it is reached
  until,      \* gRemoteDebugActiveUntilMs - millis() modulo Wrap, or Never
  pc,         \* where the thread is
  job,        \* the arguments it got there with, and what is left of the wait
  chip,       \* the SX1280
  pa,         \* the mode of the power amplifier
  did,        \* what the last step did that others can see
  askedAgo    \* history: time since debug was last asked for, at most Wrap, or Never

loopVars == <<radioId, nextPeer, toMaster>>
airVars == <<chip, pa>>
timeVars == <<until, askedAgo>>
vars == <<ready, nodeId, debug, loopVars, timeVars, pc, job, airVars, did>>

Invalid == -1   \* NAV_INVALID_NODE_ID
Never == -1
NoJob == [id |-> Invalid, peer |-> Invalid, window |-> 0, left |-> 0]
Nothing == [kind |-> "nothing"]

-----------------------------------------------------------------------------
(* Mutated form: once asked for, debug telemetry never stops.              *)
RemoteActive_Latched == until # Never

(* remoteDebugActive: timeReached goes by the sign of a 32-bit difference. *)
RemoteActive == until # Never /\ until > 0 /\ until <= Wrap \div 2

(* Mutated form: the search always starts over.                            *)
NextPeerAfter_First(self, previous) == IF self = 0 THEN 1 ELSE 0

NextPeerAfter(self, previous) ==
  LET Step(offset) == (previous + offset) % NodeCount
      o == CHOOSE k \in 1 .. NodeCount :
             Step(k) # self /\ \A j \in 1 .. k - 1 : Step(j) = self
  IN  Step(o)

InitialMasterAt(id) == InitialDelay + id * TurnSpacing

Smaller(a, b) == IF a < b THEN a ELSE b

(* Mutated form: the window is not cut short by the node's own turn.       *)
ListenWindowFor_Uncapped(turn) == ListenWindow

(* listenWindowUntil                                                       *)
ListenWindowFor(turn) == Smaller(turn, ListenWindow)

Later(left, d) == IF left > d THEN left - d ELSE 0

(* d units pass.                                                           *)
Elapse(d) ==
  /\ until' = IF until = Never THEN Never ELSE (until - d) % Wrap
  /\ askedAgo' = IF askedAgo = Never THEN Never ELSE Smaller(askedAgo + d, Wrap)
NoTime == UNCHANGED timeVars

-----------------------------------------------------------------------------
(* What is said on the air, and what a receiver makes of it.               *)
Said(type, value) == [type |-> type, value |-> value]

FrameSeq == 258

Bytes(said) ==
  CASE said.type = "BEACON_RX"           -> EncodeBeacon(said.value, FrameSeq)
    [] said.type = "HEARTBEAT"           -> EncodeHeartbeat(said.value, FrameSeq)
    [] said.type = "DEBUG_ENABLE"        -> EncodeDebugEnable(said.value, FrameSeq)
    [] said.type = "NODE_QUALITY_REPORT" -> EncodeQuality(said.value, FrameSeq)
    [] said.type = "RANGE_RESULT"        -> EncodeRangeResult(said.value, FrameSeq)

DebugEnable(id, ttl) == Said("DEBUG_ENABLE", [origin_node_id |-> id, ttl_ms |-> ttl])
Quality(id, report) == Said("NODE_QUALITY_REPORT", [report EXCEPT !.node_id = id])

OwnFrames ==
  {DebugEnable(i, DebugTtl) : i \in Node} \cup {Quality(i, r) : i \in Node, r \in Reports}
OtherFrames ==
  {Said("BEACON_RX", b) : b \in Beacons} \cup {Said("HEARTBEAT", h) : h \in Heartbeats}
    \cup {Said("NODE_QUALITY_REPORT", r) : r \in Reports}
    \cup {Said("RANGE_RESULT", r) : r \in Ranges}
    \cup {DebugEnable(EspId, t) : t \in {0, DebugTtl}}

(* The ESP32 buffers the quality of the peers it knows.                    *)
EspTakes ==
  [said \in OwnFrames |->
     LET d == Dispatch(Bytes(said))
     IN  IF d.type = "NODE_QUALITY_REPORT" /\ d.value.node_id >= NodeCount THEN Refused ELSE d]

(* handleRadioFrame: heartbeats and ranges are not its business, nor are   *)
(* reports of nodes that cannot be.                                        *)
FrameTaken ==
  [said \in OtherFrames |->
     LET d == Dispatch(Bytes(said))
     IN  CASE d.type \in {"BEACON_RX", "DEBUG_ENABLE"} -> d
           [] d.type = "NODE_QUALITY_REPORT" ->
                (IF d.value.node_id < NodeCount THEN d ELSE Refused)
           [] OTHER -> Refused]

(* handleBeaconFrame drops what the node says of itself.                   *)
Taken(said) ==
  LET d == FrameTaken[said]
  IN  IF d.type = "BEACON_RX" /\ d.value.node_id = nodeId THEN Refused ELSE d

(* ingestLocalEndpointAirReport on the ESP32: a range another node         *)
(* measured is evidence for its endpoints; no peer if it is not one.       *)
EspRanges(from, to) ==
  IF from = to \/ EspId \notin {from, to} THEN Invalid
  ELSE IF from = EspId THEN to ELSE from

-----------------------------------------------------------------------------
Init ==
  /\ ready \in BOOLEAN
  /\ nodeId \in Assignable
  /\ debug = FALSE
  /\ radioId = Invalid
  /\ nextPeer = Invalid
  /\ toMaster = 0
  /\ until = Never
  /\ askedAgo = Never
  /\ pc = "loop"
  /\ job = NoJob
  /\ chip = IF ready THEN BeginRanging("slave", Address(nodeId)) ELSE ResetChip
  /\ pa = "off"
  /\ did = Nothing

-----------------------------------------------------------------------------
(* pumpSerial runs at the top of loop() and inside every wait.             *)
Polling == pc \in {"loop", "listen", "master", "slave"}

(* applyCommand, SET_NODE_ID.                                              *)
SetNodeId ==
  /\ Polling
  /\ \E id \in Assignable : nodeId' = id
  /\ did' = Nothing
  /\ UNCHANGED <<ready, debug, loopVars, timeVars, pc, job, airVars>>

SetDebug ==
  /\ Polling
  /\ debug' = ~debug
  /\ did' = Nothing
  /\ UNCHANGED <<ready, nodeId, loopVars, timeVars, pc, job, airVars>>

(* A reset at any time: setup() starts over with what loadConfig finds,    *)
(* the last identity or, when the reset hit a write to EEPROM, defaults.   *)
Restart ==
  /\ nodeId' \in {nodeId, 0}
  /\ ready' \in BOOLEAN
  /\ debug' = FALSE
  /\ radioId' = Invalid
  /\ nextPeer' = Invalid
  /\ toMaster' = 0
  /\ until' = Never
  /\ askedAgo' = Never
  /\ pc' = "loop"
  /\ job' = NoJob
  /\ chip' = IF ready' THEN BeginRanging("slave", Address(nodeId')) ELSE ResetChip
  /\ pa' = "off"
  /\ did' = [kind |-> "reset"]

-----------------------------------------------------------------------------
Return ==
  /\ pc' = "loop"
  /\ job' = NoJob

(* The end of a master turn: the identity may no longer be the one the     *)
(* turn began with.                                                        *)
TurnOver ==
  /\ nextPeer' = NextPeerAfter(nodeId, nextPeer)
  /\ toMaster' = ScanInterval - PeerGap
  /\ Return
  /\ UNCHANGED <<ready, nodeId, debug, radioId>>

(* Whether the turns are those of the current identity.                    *)
Adopted == radioId = nodeId

(* serviceRadio up to the master's turn or the listening window.           *)
Turn == IF Adopted THEN toMaster ELSE InitialMasterAt(nodeId)
Target == IF Adopted THEN nextPeer ELSE NextPeerAfter(nodeId, nodeId)

RadioNotReady ==
  /\ pc = "loop" /\ ~ready
  /\ did' = Nothing
  /\ Elapse(1)
  /\ UNCHANGED <<ready, nodeId, debug, loopVars, pc, job, airVars>>

(* runMasterExchange refuses to range itself.                              *)
TurnSkipped ==
  /\ pc = "loop" /\ ready /\ Turn = 0
  /\ Target = nodeId
  /\ radioId' = nodeId
  /\ nextPeer' = NextPeerAfter(nodeId, Target)
  /\ toMaster' = ScanInterval - PeerGap
  /\ did' = [kind |-> "skipped"]
  /\ Elapse(PeerGap)
  /\ UNCHANGED <<ready, nodeId, debug, pc, job, airVars>>

StartExchange ==
  /\ pc = "loop" /\ ready /\ Turn = 0
  /\ Target # nodeId
  /\ radioId' = nodeId
  /\ nextPeer' = Target
  /\ toMaster' = 0
  /\ chip' = StartMaster(BeginRanging("master", Address(Target)))
  /\ pa' = "rx"
  /\ pc' = "master"
  /\ job' = [id |-> nodeId, peer |-> Target, window |-> 0, left |-> HostTimeout]
  /\ did' = [kind |-> "exchange", peer |-> Target]
  /\ NoTime
  /\ UNCHANGED <<ready, nodeId, debug>>

(* beginRanging fails: a failure of the engine is reported.                *)
ExchangeNotStarted ==
  /\ pc = "loop" /\ ready /\ Turn = 0
  /\ Target # nodeId
  /\ radioId' = nodeId
  /\ nextPeer' = NextPeerAfter(nodeId, Target)
  /\ toMaster' = ScanInterval - PeerGap
  /\ chip' = BeginRanging("master", Address(Target))
  /\ did' = [kind |-> "exchange", peer |-> Target]
  /\ Elapse(PeerGap)
  /\ UNCHANGED <<ready, nodeId, debug, pc, job, pa>>

StartListening ==
  /\ pc = "loop" /\ ready /\ Turn > 0
  /\ radioId' = nodeId
  /\ nextPeer' = Target
  /\ toMaster' = Turn
  /\ pc' = "listen"
  /\ job' = [id |-> nodeId, peer |-> Invalid, window |-> ListenWindowFor(Turn), left |-> 0]
  /\ did' = Nothing
  /\ NoTime
  /\ UNCHANGED <<ready, nodeId, debug, airVars>>

-----------------------------------------------------------------------------
(* runMasterExchange, its wait and its ways out.                           *)
MasterWaits ==
  /\ pc = "master" /\ job.left > 0
  /\ job' = [job EXCEPT !.left = @ - 1]
  /\ did' = Nothing
  /\ Elapse(1)
  /\ UNCHANGED <<ready, nodeId, debug, loopVars, pc, airVars>>

Failed(reason) == [kind |-> "failed", peer |-> job.peer, reason |-> reason]

(* Mutated form: the amplifier stays on after an unusable result.          *)
Unusable_PaLeftOn ==
  /\ chip' = SetStandby(chip)
  /\ pa' = pa

Unusable ==
  /\ chip' = SetStandby(chip)
  /\ pa' = "off"

(* A result of no distance; a timeout of the chip; the host gave up.       *)
MasterFails ==
  /\ pc = "master"
  /\ \/ job.left > 0 /\ "result" \in Terminal(chip.role)
        /\ did' = Failed("RANGING_ENGINE_ERROR")
     \/ job.left > 0 /\ Terminal(chip.role) \ {"result"} # {}
        /\ did' = Failed("TIMEOUT")
     \/ job.left = 0
        /\ did' = Failed("NO_RESPONSE")
  /\ Unusable
  /\ Elapse(PeerGap)
  /\ TurnOver

(* The result is broadcast, a few times but as one report, and given to    *)
(* the core.  The report always fits its packet and the radio is ready     *)
(* here, so that broadcastRangeReport transmits at least once; one that    *)
(* fails leaves the chip as one that succeeds.                             *)
MasterRanged ==
  /\ pc = "master" /\ job.left > 0
  /\ "result" \in Terminal(chip.role)
  /\ \E heard \in BOOLEAN :
       did' = [kind |-> "ranged", peer |-> job.peer, by |-> job.id,
               esp |-> IF heard THEN EspRanges(job.id, job.peer) ELSE Invalid]
  /\ chip' = SetStandby(AfterPacket(chip))
  /\ pa' = "off"
  /\ Elapse(PeerGap + 1)
  /\ TurnOver

-----------------------------------------------------------------------------
(* serviceNetworkListen, one round: debug frames, a packet, ranging slave. *)
Listening(d) ==
  /\ job' = [job EXCEPT !.window = Later(@, d), !.left = 0]
  /\ toMaster' = Later(toMaster, d)
  /\ Elapse(d)
  /\ UNCHANGED <<ready, nodeId, debug, radioId, nextPeer>>

(* serviceDebugTelemetryTx.  The ESP32 may miss the frame.                 *)
Transmit(said) ==
  /\ \E heard \in BOOLEAN :
       did' = [kind |-> "sent", said |-> said, heard |-> IF heard THEN EspTakes[said] ELSE Refused]
  /\ chip' = AfterPacket(chip)
  /\ pa' = "off"
  /\ Listening(1)

TransmitDebugEnable ==
  /\ pc = "listen" /\ job.window >= TxGuard
  /\ debug
  /\ Transmit(DebugEnable(nodeId, DebugTtl))
  /\ pc' = "packet"

TransmitNodeQuality ==
  /\ pc = "listen" /\ job.window >= TxGuard
  /\ debug \/ RemoteActive
  /\ \E r \in Reports : Transmit(Quality(nodeId, r))
  /\ pc' = "packet"

NothingDue ==
  /\ pc = "listen" /\ job.window > 0
  /\ did' = Nothing
  /\ Listening(0)
  /\ pc' = "packet"
  /\ UNCHANGED airVars

(* servicePacketRx: nothing or a damaged packet; the report of a range     *)
(* between other nodes, which is only printed; a frame.                    *)
HearNothing ==
  /\ pc = "packet" /\ job.window >= RxGuard
  /\ did' = Nothing
  /\ Listening(1)
  /\ pc' = "turn"
  /\ chip' = AfterPacket(chip)
  /\ pa' = "off"

HearFrame ==
  /\ pc = "packet" /\ job.window >= RxGuard
  /\ \E said \in OtherFrames :
       /\ Taken(said).type # "DEBUG_ENABLE"
       /\ did' = [kind |-> "taken", said |-> said, heard |-> Taken(said)]
  /\ Listening(1)
  /\ pc' = "turn"
  /\ chip' = AfterPacket(chip)
  /\ pa' = "off"

(* handleDebugEnableFrame.  A stamp that happens to be zero means never.   *)
HearDebugEnable ==
  /\ pc = "packet" /\ job.window >= RxGuard
  /\ \E said \in OtherFrames :
       /\ Taken(said).type = "DEBUG_ENABLE"
       /\ did' = [kind |-> "taken", said |-> said, heard |-> Taken(said)]
       /\ LET ttl == Taken(said).value.ttl_ms
          IN  until' \in {IF ttl = 0 THEN DebugTtl ELSE ttl, Never}
  /\ askedAgo' = 0
  /\ job' = [job EXCEPT !.window = Later(@, 1)]
  /\ toMaster' = Later(toMaster, 1)
  /\ pc' = "turn"
  /\ chip' = AfterPacket(chip)
  /\ pa' = "off"
  /\ UNCHANGED <<ready, nodeId, debug, radioId, nextPeer>>

NoTimeForPacket ==
  /\ pc = "packet" /\ job.window < RxGuard
  /\ did' = Nothing
  /\ Listening(0)
  /\ pc' = "turn"
  /\ UNCHANGED airVars

(* serviceSlave, under the identity the window began with.                 *)
StartSlaveListen ==
  /\ pc = "turn" /\ job.window > 0
  /\ chip' = StartSlave(BeginRanging("slave", Address(job.id)))
  /\ pa' = "rx"
  /\ pc' = "slave"
  /\ job' = [job EXCEPT !.left = Smaller(job.window, SlaveSlice)]
  /\ did' = Nothing
  /\ NoTime
  /\ UNCHANGED <<ready, nodeId, debug, loopVars>>

SlaveNotStarted ==
  /\ pc = "turn" /\ job.window > 0
  /\ chip' = BeginRanging("slave", Address(job.id))
  /\ pa' = "off"
  /\ pc' = "listen"
  /\ did' = Nothing
  /\ Listening(1)

SlaveWaits ==
  /\ pc = "slave" /\ job.left > 1
  /\ job' = [job EXCEPT !.window = Later(@, 1), !.left = @ - 1]
  /\ toMaster' = Later(toMaster, 1)
  /\ did' = Nothing
  /\ Elapse(1)
  /\ UNCHANGED <<ready, nodeId, debug, radioId, nextPeer, pc, airVars>>

(* An interrupt, after the time an exchange takes, or the slice is over.   *)
SlaveEnds ==
  /\ pc = "slave"
  /\ job.left = 1 \/ Terminal(chip.role) # {}
  /\ did' = Nothing
  /\ Listening(1)
  /\ pc' = "listen"
  /\ chip' = SetStandby(chip)
  /\ pa' = "off"

ListenEnds ==
  /\ pc \in {"listen", "turn"} /\ job.window = 0
  /\ Return
  /\ did' = Nothing
  /\ NoTime
  /\ UNCHANGED <<ready, nodeId, debug, loopVars, airVars>>

-----------------------------------------------------------------------------
Loop ==
  \/ RadioNotReady \/ TurnSkipped \/ StartExchange \/ ExchangeNotStarted \/ StartListening
  \/ MasterWaits \/ MasterFails \/ MasterRanged
  \/ TransmitDebugEnable \/ TransmitNodeQuality \/ NothingDue
  \/ HearNothing \/ HearFrame \/ HearDebugEnable \/ NoTimeForPacket
  \/ StartSlaveListen \/ SlaveNotStarted \/ SlaveWaits \/ SlaveEnds \/ ListenEnds

Next == SetNodeId \/ SetDebug \/ Restart \/ Loop

(* The thread never blocks: every wait is a poll with a time limit.        *)
Spec == Init /\ [][Next]_vars /\ WF_vars(Loop)

-----------------------------------------------------------------------------
(* Type invariant of the firmware's state (main.cpp globals).              *)
TypeOK ==
  /\ ready \in BOOLEAN /\ debug \in BOOLEAN
  /\ nodeId \in Node
  /\ radioId \in Node \cup {Invalid} /\ nextPeer \in Node \cup {Invalid}
  /\ toMaster \in 0 .. ScanInterval - PeerGap \/ toMaster \in 0 .. InitialMasterAt(NodeCount - 1)
  /\ until \in -1 .. Wrap - 1 /\ askedAgo \in -1 .. Wrap
  /\ pc \in {"loop", "master", "listen", "packet", "turn", "slave"}
  /\ job.window <= toMaster /\ (pc = "slave" => job.left \in 1 .. job.window)
  /\ chip.state \in {"standby", "rx", "tx"} /\ pa \in {"off", "rx"}

(* Whoever ranges this node, or is ranged by it, is meant: as a slave it   *)
(* answers for its identity and as a master it addresses another node's,   *)
(* unless a command renamed the node inside that very window (pumpSerial   *)
(* runs in serviceSlave and runMasterExchange).                            *)
AddressIsIdentity ==
  job.id = nodeId =>
    /\ pc = "slave" => chip.role = "slave" /\ chip.device = Address(nodeId)
    /\ pc = "master" => /\ chip.role = "master" /\ chip.request = Address(job.peer)
                        /\ job.peer # nodeId

(* The amplifier is on exactly while the chip is left sending or receiving *)
(* (setPaMode on every way out of an exchange).                            *)
PaFollowsChip == (pa = "rx") = (chip.state \in {"rx", "tx"})

ReportsQuality == did'.kind = "sent" /\ did'.said.type = "NODE_QUALITY_REPORT"

(* What docs/radio_protocol.md:318-320 says of a peer: it is in debug mode *)
(* for a time to live after each DEBUG_ENABLE, and "When the TTL lapses    *)
(* (the broadcast stops), the peer auto-reverts to off."  Quality reports  *)
(* leave the node only while debug is on here or was asked for less than   *)
(* a time to live ago.                                                     *)
QualityOnlyWhenAsked ==
  [][ReportsQuality => debug \/ askedAgo \in 0 .. DebugTtl - 1]_vars

(* What the code does keep of it: a node that was never asked sends no     *)
(* quality reports, and one whose time to live is over sends none for half *)
(* a turn of the clock (remoteDebugActive goes by a signed difference).    *)
QuietForHalfTheClock ==
  [][~debug /\ (askedAgo = Never \/ askedAgo \in DebugTtl .. DebugTtl + (Wrap \div 2) - 1)
       => ~ReportsQuality]_vars

(* What a receiver takes from a frame is what was said in it, as far as    *)
(* the frame can hold it, whoever sent it, and never what the node said    *)
(* itself (nav_telemetry.c, both directions).                              *)
HeardIsSaid ==
  did.kind \in {"sent", "taken"} =>
    \/ did.heard = Refused /\ (did.kind = "taken" =>
          \/ did.said.type \in {"HEARTBEAT", "RANGE_RESULT"}
          \/ did.said.type = "BEACON_RX" /\ did.said.value.node_id = nodeId
          \/ did.said.type = "NODE_QUALITY_REPORT" /\ did.said.value.node_id >= NodeCount)
    \/ did.heard = Said(did.said.type,
                        IF did.said.type = "NODE_QUALITY_REPORT" THEN
                          [did.said.value EXCEPT
                             !.num_anchors = Smaller(@, 3),
                             !.geometry = QualityByte(@), !.quality = QualityByte(@),
                             !.residual_rms_mm = Smaller(@, 65535),
                             !.max_residual_mm = Smaller(@, 65535)]
                        ELSE did.said.value)

(* Once the commands and resets stop, every other node is ranged again and *)
(* again, whatever the identity was before (serviceRadio, nextPeerAfter).  *)
EveryPeerRanged ==
  \A i \in Assignable, p \in Node :
    i # p => (<>[](nodeId = i /\ ready /\ did.kind # "reset")
                => []<>(did.kind = "exchange" /\ did.peer = p))
=============================================================================
