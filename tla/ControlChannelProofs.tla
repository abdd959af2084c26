------------------------- MODULE ControlChannelProofs -------------------------
(***************************************************************************)
(* Theorems about the core under the tasks of the firmware: for any number *)
(* of nodes, any lag of the scheduler below the wrap of a stamp and any    *)
(* commands of the operator.                                               *)
(***************************************************************************)
EXTENDS ControlChannel, NavCoreLemmas, SequenceTheorems

-----------------------------------------------------------------------------
(* The inductive invariant that needs no bound on time.                    *)

MockEvent == [type : {"telemetry", "range"}, peer : Node]

ChannelTypes ==
  /\ clock \in 0 .. Horizon
  /\ config \in NodeConfig
  /\ debug \in BOOLEAN
  /\ quality \in [Node -> [present : BOOLEAN, at : 0 .. Horizon]]
  /\ emitter \in [pc : {"sleeping", "stamped", "locked"}, at : 0 .. Horizon,
                  todo : Seq(MockEvent)]
  /\ pending \in [Task -> [event : RadioEvent \cup GpsEvent \cup {NoEvent}, at : 0 .. Horizon]]

(* What is valid in an entry was stored there, with a position vouched for *)
(* by its sender's receiver.                                               *)
EntryInv(e) ==
  /\ e.gnss => e.present /\ e.pos \in GnssValid
  /\ e.rngValid => e.present
  /\ e.rposValid => e.present /\ e.rpos \in GnssValid

(* The mutex held by the emitter protects the altitude it has just fed.    *)
AltitudeInv == emitter.pc = "locked" =>
  altitude.present /\ altitude.valid /\ altitude.ts = emitter.at

BaseInv ==
  /\ CoreTypeOK
  /\ ChannelTypes
  /\ local = config.nodeId
  /\ denied = ~EffectiveGps(config)
  /\ \A p \in Node : EntryInv(peer[p])
  /\ EstimatedNeverAnchors
  /\ DeniedGnssTransient
  /\ AltitudeInv
  /\ AltitudeAlwaysFed

-----------------------------------------------------------------------------
(* What an event of the core does, whoever sends it and with any stamp.    *)

EntryOut(p, t) ==
  \/ peer'[p] = peer[p]
  \/ \E kind \in PosKind : peer'[p] = UpdateTelemetry(peer[p], kind, t)
  \/ \E valid \in BOOLEAN, class \in RangeClass :
       peer'[p] = UpdateRange(peer[p], valid, class, t)

EventOut(t) ==
  /\ CoreTypeOK'
  /\ UNCHANGED <<local, denied, ran, lastSolve>>
  /\ dirty => dirty'
  /\ ~dirty' => peer' = peer
  /\ snapshot' = snapshot \/ (PublishGnss(gnss') /\ ~denied)
  /\ \A p \in Node : EntryOut(p, t)

LEMMA PublishGnssType ==
  ASSUME NEW g, PublishGnss(g)
  PROVE  /\ SnapshotOK(snapshot') /\ snapshot'.mode = "GNSS_OK"
         /\ snapshot'.reject = "NONE" /\ snapshot'.fix.basis = {}
<1>1. snapshot' = [mode |-> "GNSS_OK", status |-> "GNSS_DIRECT", source |-> "LOCAL_GNSS",
                   reject |-> "NONE", fix |-> GnssFix(g.ts), anchors |-> {}, alt |-> "gnss"]
  BY DEF PublishGnss
<1>2. GnssFix(g.ts).kind = "gnss" /\ GnssFix(g.ts).basis = {}
  BY DEF GnssFix
<1> QED BY <1>1, <1>2 DEF SnapshotOK, Published, SolveReject, AltSource

LEMMA RefreshOut ==
  ASSUME RefreshAfterEvent, CoreTypeOK, denied' = denied
  PROVE  /\ SnapshotOK(snapshot') /\ ran' \in BOOLEAN /\ lastSolve' \in Int
         /\ UNCHANGED <<ran, lastSolve>>
         /\ snapshot' = snapshot \/ (PublishGnss(gnss') /\ ~denied)
<1>1. CASE GnssPublishable(gnss', denied')
  BY <1>1, PublishGnssType DEF RefreshAfterEvent, GnssPublishable, CoreTypeOK
<1>2. CASE ~GnssPublishable(gnss', denied')
  BY <1>2 DEF RefreshAfterEvent, CoreTypeOK
<1> QED BY <1>1, <1>2

LEMMA GnssOut ==
  ASSUME CoreTypeOK, NEW t \in Int, NEW usable \in BOOLEAN, LocalGnssSample(t, usable)
  PROVE  EventOut(t)
<1>1. /\ dirty' \in BOOLEAN /\ (dirty => dirty')
  BY DEF LocalGnssSample
<1>2. gnss' \in [present : BOOLEAN, usable : BOOLEAN, ts : Int]
  BY DEF LocalGnssSample
<1>3. UNCHANGED <<local, denied, altitude, peer>> /\ RefreshAfterEvent
  BY DEF LocalGnssSample
<1> QED BY <1>1, <1>2, <1>3, RefreshOut DEF EventOut, EntryOut, CoreTypeOK

LEMMA AltitudeOut ==
  ASSUME CoreTypeOK, NEW t \in Int, NEW alt \in AltitudeValue, LocalAltitudeSample(t, TRUE, alt)
  PROVE  EventOut(t) /\ altitude' = [present |-> TRUE, valid |-> TRUE, ts |-> t, alt |-> alt]
<1>1. /\ dirty' \in BOOLEAN /\ (dirty => dirty')
  BY DEF LocalAltitudeSample
<1>2. altitude' = [present |-> TRUE, valid |-> TRUE, ts |-> t, alt |-> alt]
  BY DEF LocalAltitudeSample
<1>3. UNCHANGED <<local, denied, gnss, peer>> /\ RefreshAfterEvent
  BY DEF LocalAltitudeSample
<1>4. altitude' \in [present : BOOLEAN, valid : BOOLEAN, ts : Int, alt : AltitudeValue \cup {0}]
  BY <1>2
<1> QED BY <1>1, <1>2, <1>3, <1>4, RefreshOut DEF EventOut, EntryOut, CoreTypeOK

LEMMA EntryEventOut ==
  ASSUME CoreTypeOK, NEW t \in Int, NEW p \in Node, NEW e \in Entry,
         peer' = [peer EXCEPT ![p] = e], EntryOut(p, t), dirty' = TRUE,
         UNCHANGED <<local, denied, gnss, altitude>>, RefreshAfterEvent
  PROVE  EventOut(t)
<1>1. peer' \in [Node -> Entry] /\ \A q \in Node : EntryOut(q, t)
  BY DEF CoreTypeOK, EntryOut
<1>2. dirty' \in BOOLEAN
  BY Zenon
<1> QED BY <1>1, <1>2, RefreshOut DEF EventOut, CoreTypeOK

LEMMA TelemetryOut ==
  ASSUME CoreTypeOK, NEW t \in Int, NEW p \in Node, NEW kind \in PosKind,
         PeerTelemetryRx(t, p, kind)
  PROVE  EventOut(t) /\ UNCHANGED altitude
<1> DEFINE e == UpdateTelemetry(peer[p], kind, t)
<1>1. e \in Entry
  BY UpdateTelemetryType DEF CoreTypeOK
<1>2. peer' = [peer EXCEPT ![p] = e] /\ peer'[p] = e
  BY DEF PeerTelemetryRx, CoreTypeOK
<1>3. EntryOut(p, t)
  BY <1>2 DEF EntryOut
<1> HIDE DEF e
<1> QED BY <1>1, <1>2, <1>3, EntryEventOut DEF PeerTelemetryRx

LEMMA RangeOut ==
  ASSUME CoreTypeOK, NEW t \in Int, NEW p \in Node, NEW valid \in BOOLEAN,
         NEW class \in RangeClass,
         peer' = [peer EXCEPT ![p] = UpdateRange(@, valid, class, t)], dirty' = TRUE,
         UNCHANGED <<local, denied, gnss, altitude>>, RefreshAfterEvent
  PROVE  EventOut(t)
<1> DEFINE e == UpdateRange(peer[p], valid, class, t)
<1>1. e \in Entry
  BY UpdateRangeType DEF CoreTypeOK
<1>2. peer' = [peer EXCEPT ![p] = e] /\ peer'[p] = e
  BY DEF CoreTypeOK
<1>3. EntryOut(p, t)
  BY <1>2 DEF EntryOut
<1> HIDE DEF e
<1> QED BY <1>1, <1>2, <1>3, EntryEventOut

LEMMA RangeResultOut ==
  ASSUME CoreTypeOK, NEW t \in Int, NEW p \in Node, RangeResult(t, p, TRUE, "good")
  PROVE  EventOut(t) /\ UNCHANGED altitude
<1>1. "good" \in RangeClass
  BY DEF RangeClass
<1> QED BY <1>1, RangeOut DEF RangeResult

LEMMA RangeFailOut ==
  ASSUME CoreTypeOK, NEW t \in Int, NEW p \in Node, RangeFail(t, p)
  PROVE  EventOut(t)
<1>1. CASE RetainRange
  <2>1. UNCHANGED <<peer, dirty, local, denied, gnss, altitude>> /\ RefreshAfterEvent
    BY <1>1 DEF RangeFail
  <2> QED BY <2>1, RefreshOut DEF EventOut, EntryOut, CoreTypeOK
<1>2. CASE ~RetainRange
  <2>1. "none" \in RangeClass
    BY DEF RangeClass
  <2> QED BY <1>2, <2>1, RangeOut DEF RangeFail
<1> QED BY <1>1, <1>2

-----------------------------------------------------------------------------
(* The invariant under an event, a tick and the steps of each task.        *)

LEMMA EntryInvEvent ==
  ASSUME NEW t \in Int, NEW p \in Node, peer[p] \in Entry, EntryInv(peer[p]), EntryOut(p, t)
  PROVE  EntryInv(peer'[p])
<1> DEFINE e == peer[p]
           d == peer'[p]
<1>1. CASE d = e
  BY <1>1
<1>2. ASSUME NEW kind \in PosKind, d = UpdateTelemetry(e, kind, t)
      PROVE  EntryInv(d)
  <2>1. /\ d.present /\ d.pos = kind /\ (d.gnss <=> kind \in GnssValid)
        /\ d.rngValid = e.rngValid /\ d.rposValid = e.rposValid /\ d.rpos = e.rpos
    BY <1>2 DEF UpdateTelemetry, Entry
  <2> HIDE DEF d, e
  <2> QED BY <2>1 DEF EntryInv, e
<1>3. ASSUME NEW valid \in BOOLEAN, NEW class \in RangeClass, d = UpdateRange(e, valid, class, t)
      PROVE  EntryInv(d)
  <2>1. /\ d.present /\ d.pos = e.pos /\ d.gnss = e.gnss /\ d.rpos = e.pos
        /\ (d.rposValid <=> valid /\ e.gnss)
    BY <1>3 DEF UpdateRange, Entry
  <2> HIDE DEF d, e
  <2> QED BY <2>1 DEF EntryInv, e
<1> QED BY <1>1, <1>2, <1>3 DEF EntryOut

(* Local facts of the core that hold after any event as they did before.   *)
CoreInv ==
  /\ CoreTypeOK
  /\ \A p \in Node : EntryInv(peer[p])
  /\ EstimatedNeverAnchors
  /\ DeniedGnssTransient
  /\ AltitudeAlwaysFed

LEMMA CoreInvEvent ==
  ASSUME CoreInv, NEW t \in Int, EventOut(t)
  PROVE  CoreInv' /\ UNCHANGED <<local, denied>>
<1>1. CoreTypeOK' /\ UNCHANGED <<local, denied>>
  BY DEF EventOut
<1>2. (\A p \in Node : EntryInv(peer[p]))'
  BY EntryInvEvent DEF CoreInv, CoreTypeOK, EventOut
<1>3. CASE snapshot' = snapshot
  BY <1>1, <1>2, <1>3 DEF CoreInv, EventOut, EstimatedNeverAnchors, DeniedGnssTransient,
                          AltitudeAlwaysFed
<1>4. CASE PublishGnss(gnss') /\ ~denied
  <2>1. snapshot'.fix.basis = {} /\ snapshot'.reject = "NONE"
    BY <1>4, PublishGnssType
  <2> QED BY <1>1, <1>2, <1>4, <2>1 DEF CoreInv, EstimatedNeverAnchors, DeniedGnssTransient,
                                        AltitudeAlwaysFed
<1> QED BY <1>3, <1>4 DEF EventOut

(* What a selected anchor contributes.                                     *)
LEMMA ChosenPosition ==
  ASSUME CoreInv, NEW t \in Int, NEW S, Chosen(t, S), NEW p \in S
  PROVE  /\ p \in Node /\ p # local
         /\ peer[p].gnss /\ peer[p].rngValid /\ peer[p].rposValid
         /\ MarkStale(peer[p], t).rpos = peer[p].rpos
         /\ peer[p].rpos \in {"gnss", "gnss2d"}
         /\ ~Expired(t, peer[p].rngTs, RangeTtl)
<1> DEFINE m == MarkStale(peer[p], t)
<1>1. p \in Node /\ p # local /\ Eligible(m, t)
  BY DEF Chosen
<1>2. peer[p] \in Entry /\ EntryInv(peer[p])
  BY <1>1 DEF CoreInv, CoreTypeOK
<1>3. m.rpos = peer[p].rpos /\ m.rngTs = peer[p].rngTs
  BY <1>2, MarkStaleFacts
<1>4. m.rngValid => peer[p].rngValid
  BY <1>2, MarkStaleRangeFacts
<1>5. m.gnss => peer[p].gnss
  BY <1>2, MarkStaleFacts
<1>6. m.rposValid => peer[p].rposValid
  BY <1>2, MarkStaleFacts
<1> HIDE DEF m
<1>7. m.rposValid /\ m.rngValid /\ m.rpos \in Located /\ ~Expired(t, m.rngTs, RangeTtl) /\ m.gnss
  BY <1>1, Zenon DEF Eligible, AnchorReject
<1>8. peer[p].rpos \in {"gnss", "gnss2d"}
  BY <1>2, <1>3, <1>6, <1>7 DEF EntryInv, GnssValid, Located
<1> QED BY <1>1, <1>3, <1>4, <1>5, <1>6, <1>7, <1>8 DEF m

LEMMA EntryInvTick ==
  ASSUME NEW t \in Int, NEW e \in Entry, EntryInv(e), NEW d, Alike(d, MarkStale(e, t))
  PROVE  EntryInv(d)
<1> DEFINE m == MarkStale(e, t)
<1>1. m.present = e.present /\ m.pos = e.pos /\ m.rpos = e.rpos
  BY MarkStaleFacts, MarkStaleRangeFacts
<1>2. m.gnss => e.gnss
  BY MarkStaleFacts
<1>3. (m.rngValid => e.rngValid) /\ (m.rposValid => e.rposValid)
  BY MarkStaleRangeFacts
<1> HIDE DEF m
<1>4. EntryInv(m)
  BY <1>1, <1>2, <1>3 DEF EntryInv
<1>5. Alike(d, m)
  BY DEF m
<1> QED BY <1>4, <1>5 DEF EntryInv, Alike

(* A tick right after the altitude was fed with the same stamp.            *)
LEMMA CoreInvTick ==
  ASSUME CoreInv, NEW t \in Int, Tick(t), altitude.present, altitude.valid, altitude.ts = t
  PROVE  CoreInv' /\ UNCHANGED <<local, denied>>
<1>1. TickOut(t)
  BY TickCases DEF CoreInv
<1>2. UNCHANGED <<local, denied, gnss, altitude>> /\ peer' \in [Node -> Entry]
      /\ dirty' \in BOOLEAN /\ ran' \in BOOLEAN /\ lastSolve' \in Int
  BY <1>1 DEF TickOut
<1>3. (\A p \in Node : EntryInv(peer[p]))'
  BY <1>1, EntryInvTick DEF TickOut, CoreInv, CoreTypeOK
<1>4. ASSUME SnapshotOK(snapshot') PROVE CoreTypeOK'
  BY <1>2, <1>4 DEF CoreInv, CoreTypeOK
<1>5. CASE OutPublished
  <2>1. SnapshotOK(snapshot') /\ snapshot'.fix.basis = {} /\ snapshot'.reject = "NONE" /\ ~denied
    BY <1>5, PublishGnssType DEF OutPublished
  <2> QED BY <1>2, <1>3, <1>4, <2>1 DEF CoreInv, EstimatedNeverAnchors, DeniedGnssTransient,
                                        AltitudeAlwaysFed
<1>6. CASE OutKept(t)
  BY <1>2, <1>3, <1>4, <1>6 DEF OutKept, CoreInv, CoreTypeOK, EstimatedNeverAnchors,
                                DeniedGnssTransient, AltitudeAlwaysFed
<1>7. CASE OutRejected(t)
  <2>1. ResolvedAltitude(t) # "none"
    <3>1. AgeAt(t, t) = 0
      BY ClockAssumption DEF AgeAt
    <3>2. AltitudeFresh(t, altitude.ts)
      BY <3>1, CoreAssumption DEF AltitudeFresh
    <3> QED BY <3>2 DEF ResolvedAltitude
  <2>2. SnapshotOK(snapshot') /\ snapshot'.fix.basis = {} /\ snapshot'.mode # "GNSS_OK"
        /\ snapshot'.reject # "MISSING_LOCAL_ALTITUDE"
    BY <1>7, <2>1 DEF OutRejected, NoFix
  <2> QED BY <1>2, <1>3, <1>4, <2>2 DEF CoreInv, EstimatedNeverAnchors, DeniedGnssTransient,
                                        AltitudeAlwaysFed
<1>8. CASE OutSolved(t)
  <2>1. PICK S : /\ Chosen(t, S)
                 /\ snapshot'.fix = RadioFix(t, {Evidence(p, MarkStale(peer[p], t)) : p \in S})
    BY <1>8 DEF OutSolved
  <2>2. snapshot'.fix.basis = {Evidence(p, MarkStale(peer[p], t)) : p \in S}
    BY <2>1 DEF RadioFix
  <2>3. ASSUME NEW p \in S
        PROVE  /\ Evidence(p, MarkStale(peer[p], t)).pos \in {"gnss", "gnss2d"}
               /\ Evidence(p, MarkStale(peer[p], t)).peer # local
    BY <2>1, ChosenPosition DEF Evidence
  <2>4. EstimatedNeverAnchors'
    BY <1>2, <2>2, <2>3 DEF EstimatedNeverAnchors
  <2> QED BY <1>2, <1>3, <1>4, <1>8, <2>4 DEF OutSolved, CoreInv, DeniedGnssTransient,
                                              AltitudeAlwaysFed
<1> QED BY <1>1, <1>5, <1>6, <1>7, <1>8 DEF TickOut

LEMMA BaseIsCore ==
  BaseInv <=> /\ CoreInv /\ ChannelTypes
              /\ local = config.nodeId /\ denied = ~EffectiveGps(config) /\ AltitudeInv
BY DEF BaseInv, CoreInv

LEMMA MockEventsType == MockEvents \in Seq(MockEvent)
<1> DEFINE n == Len(MockPeer)
<1>1. n \in Nat /\ \A j \in 1 .. n : MockPeer[j] \in Node
  BY ControlAssumption
<1>2. \A i \in 1 .. 2 * n : (i + 1) \div 2 \in 1 .. n
  BY <1>1
<1> HIDE DEF n
<1>3. ASSUME NEW i \in 1 .. 2 * n
      PROVE  [type |-> IF i % 2 = 1 THEN "telemetry" ELSE "range",
              peer |-> MockPeer[(i + 1) \div 2]] \in MockEvent
  BY <1>1, <1>2 DEF MockEvent
<1>4. MockEvents = [i \in 1 .. 2 * n |->
         [type |-> IF i % 2 = 1 THEN "telemetry" ELSE "range",
          peer |-> MockPeer[(i + 1) \div 2]]]
  BY DEF MockEvents, n
<1>5. MockEvents \in [1 .. 2 * n -> MockEvent]
  BY <1>3, <1>4
<1>6. 2 * n \in Nat
  BY <1>1
<1> QED BY <1>5, <1>6

LEMMA EmptyTodo == <<>> \in Seq(MockEvent)
OBVIOUS

LEMMA BaseInit == Init => BaseInv
<1> SUFFICES ASSUME Init PROVE BaseInv
  OBVIOUS
<1> USE ControlAssumption
<1>1. /\ config \in NodeConfig /\ local = config.nodeId /\ denied = ~EffectiveGps(config)
      /\ gnss = NoGnss /\ altitude = NoAltitude /\ peer = EmptyTable /\ dirty = TRUE
      /\ ran = FALSE /\ lastSolve = 0 /\ snapshot = BootSnapshot
  BY DEF Init, CoreInit
<1>2. CoreTypeOK
  <2>1. denied \in BOOLEAN /\ dirty \in BOOLEAN /\ ran \in BOOLEAN
    BY <1>1, Zenon DEF EffectiveGps
  <2>2. peer \in [Node -> Entry]
    BY <1>1, EmptyEntryType DEF EmptyTable
  <2>3. SnapshotOK(snapshot)
    BY <1>1 DEF BootSnapshot, NoFix, SnapshotOK, Published, SolveReject, AltSource
  <2> QED BY <1>1, <2>1, <2>2, <2>3 DEF CoreTypeOK, NodeConfig, NoGnss, NoAltitude
<1>3. ChannelTypes
  <2>1. debug \in BOOLEAN
    BY Zenon DEF Init
  <2>2. quality \in [Node -> [present : BOOLEAN, at : 0 .. Horizon]]
    BY DEF Init, NoQuality
  <2>3. emitter = [pc |-> "sleeping", at |-> 0, todo |-> <<>>]
    BY DEF Init
  <2>4. pending \in [Task -> [event : RadioEvent \cup GpsEvent \cup {NoEvent}, at : 0 .. Horizon]]
    BY DEF Init
  <2> QED BY <1>1, <2>1, <2>2, <2>3, <2>4, EmptyTodo DEF ChannelTypes, Init
<1>4. \A p \in Node : EntryInv(peer[p])
  BY <1>1 DEF EmptyTable, EmptyEntry, EntryInv
<1>5. EstimatedNeverAnchors /\ DeniedGnssTransient /\ AltitudeAlwaysFed
  BY <1>1 DEF BootSnapshot, NoFix, EstimatedNeverAnchors, DeniedGnssTransient, AltitudeAlwaysFed
<1>6. AltitudeInv
  BY DEF Init, AltitudeInv
<1> QED BY <1>1, <1>2, <1>3, <1>4, <1>5, <1>6 DEF BaseInv

LEMMA BaseStutter ==
  ASSUME BaseInv, UNCHANGED coreVars, UNCHANGED config, ChannelTypes', AltitudeInv'
  PROVE  BaseInv'
BY DEF BaseInv, coreVars, CoreTypeOK, EstimatedNeverAnchors, DeniedGnssTransient,
       AltitudeAlwaysFed, EffectiveGps, EntryInv

LEMMA BaseClock == ASSUME BaseInv, ClockStep \/ ClockLap PROVE BaseInv'
<1>1. UNCHANGED <<coreVars, config, debug, quality, emitter, pending>> /\ clock' \in 0 .. Horizon
  BY ControlAssumption DEF ClockStep, ClockLap, BaseInv, ChannelTypes
<1>2. ChannelTypes'
  BY <1>1 DEF BaseInv, ChannelTypes
<1>3. AltitudeInv'
  BY <1>1 DEF BaseInv, AltitudeInv, coreVars
<1> QED BY <1>1, <1>2, <1>3, BaseStutter

LEMMA BaseReadClock == ASSUME BaseInv, EmitterReadClock PROVE BaseInv'
<1>1. /\ emitter' = [pc |-> "stamped", at |-> clock, todo |-> <<>>]
      /\ UNCHANGED <<coreVars, clock, config, debug, quality, pending>>
  BY DEF EmitterReadClock
<1>2. ChannelTypes'
  BY <1>1, EmptyTodo DEF BaseInv, ChannelTypes
<1>3. AltitudeInv'
  BY <1>1 DEF AltitudeInv
<1> QED BY <1>1, <1>2, <1>3, BaseStutter

(* The emitter's steps under the mutex are events of the core with the     *)
(* stamp it read.                                                          *)
LEMMA LockOut ==
  ASSUME BaseInv, EmitterLock
  PROVE  /\ EventOut(emitter.at)
         /\ altitude' = [present |-> TRUE, valid |-> TRUE, ts |-> emitter.at, alt |-> config.alt]
         /\ emitter.pc = "stamped" /\ emitter'.pc = "locked" /\ emitter'.at = emitter.at
         /\ emitter'.todo \in Seq(MockEvent)
         /\ emitter' \in [pc : {"sleeping", "stamped", "locked"}, at : 0 .. Horizon,
                          todo : Seq(MockEvent)]
         /\ UNCHANGED <<clock, config, debug, quality, pending>>
<1> DEFINE next == IF config.mock THEN MockEvents ELSE <<>>
<1>1. /\ LocalAltitudeSample(emitter.at, TRUE, config.alt) /\ emitter.pc = "stamped"
      /\ emitter' = [emitter EXCEPT !.pc = "locked", !.todo = next]
      /\ UNCHANGED <<clock, config, debug, quality, pending>>
  BY DEF EmitterLock
<1>2. emitter.at \in Int /\ config.alt \in AltitudeValue
  BY ControlAssumption DEF BaseInv, ChannelTypes, NodeConfig
<1>3. next \in Seq(MockEvent)
  BY MockEventsType, EmptyTodo
<1> HIDE DEF next
<1>4. /\ EventOut(emitter.at)
      /\ altitude' = [present |-> TRUE, valid |-> TRUE, ts |-> emitter.at, alt |-> config.alt]
  BY <1>1, <1>2, AltitudeOut DEF BaseInv
<1> QED BY <1>1, <1>3, <1>4 DEF BaseInv, ChannelTypes

LEMMA MockOut ==
  ASSUME BaseInv, EmitterMock
  PROVE  /\ EventOut(emitter.at) /\ UNCHANGED altitude
         /\ emitter.pc = "locked" /\ emitter'.pc = "locked" /\ emitter'.at = emitter.at
         /\ emitter' \in [pc : {"sleeping", "stamped", "locked"}, at : 0 .. Horizon,
                          todo : Seq(MockEvent)]
         /\ UNCHANGED <<clock, config, debug, quality, pending>>
<1> DEFINE e == Head(emitter.todo)
<1>1. /\ emitter.pc = "locked" /\ emitter.todo # <<>>
      /\ \/ e.type = "telemetry" /\ PeerTelemetryRx(emitter.at, e.peer, "gnss")
         \/ e.type = "range" /\ RangeResult(emitter.at, e.peer, TRUE, "good")
      /\ emitter' = [emitter EXCEPT !.todo = Tail(@)]
      /\ UNCHANGED <<clock, config, debug, quality, pending>>
  BY DEF EmitterMock
<1>2. emitter.todo \in Seq(MockEvent) /\ emitter.at \in Int
  BY DEF BaseInv, ChannelTypes
<1>3. e \in MockEvent /\ Tail(emitter.todo) \in Seq(MockEvent)
  BY <1>1, <1>2
<1>4. e.peer \in Node /\ "gnss" \in PosKind
  BY <1>3 DEF MockEvent, PosKind
<1> HIDE DEF e
<1>5. EventOut(emitter.at) /\ UNCHANGED altitude
  BY <1>1, <1>2, <1>4, TelemetryOut, RangeResultOut DEF BaseInv
<1> QED BY <1>1, <1>3, <1>5 DEF BaseInv, ChannelTypes

LEMMA BaseLock == ASSUME BaseInv, EmitterLock PROVE BaseInv'
<1>1. emitter.at \in Int
  BY DEF BaseInv, ChannelTypes
<1>2. CoreInv' /\ UNCHANGED <<local, denied>>
  BY <1>1, LockOut, CoreInvEvent, BaseIsCore
<1>3. ChannelTypes'
  BY LockOut DEF BaseInv, ChannelTypes
<1>4. AltitudeInv'
  BY LockOut DEF AltitudeInv
<1>5. local' = config'.nodeId /\ denied' = ~EffectiveGps(config')
  BY <1>2, LockOut DEF BaseInv
<1> QED BY <1>2, <1>3, <1>4, <1>5 DEF BaseInv, CoreInv

LEMMA BaseMock == ASSUME BaseInv, EmitterMock PROVE BaseInv'
<1>1. emitter.at \in Int
  BY DEF BaseInv, ChannelTypes
<1>2. CoreInv' /\ UNCHANGED <<local, denied>>
  BY <1>1, MockOut, CoreInvEvent, BaseIsCore
<1>3. ChannelTypes'
  BY MockOut DEF BaseInv, ChannelTypes
<1>4. AltitudeInv'
  BY MockOut DEF AltitudeInv, BaseInv
<1>5. local' = config'.nodeId /\ denied' = ~EffectiveGps(config')
  BY <1>2, MockOut DEF BaseInv
<1> QED BY <1>2, <1>3, <1>4, <1>5 DEF BaseInv, CoreInv

LEMMA BaseTick == ASSUME BaseInv, EmitterTick PROVE BaseInv'
<1>1. /\ emitter.pc = "locked" /\ Tick(emitter.at)
      /\ emitter' = [pc |-> "sleeping", at |-> clock, todo |-> <<>>]
      /\ UNCHANGED <<clock, config, debug, quality, pending>>
  BY DEF EmitterTick
<1>2. emitter.at \in Int
  BY DEF BaseInv, ChannelTypes
<1>3. CoreInv' /\ UNCHANGED <<local, denied>>
  BY <1>1, <1>2, CoreInvTick, BaseIsCore DEF AltitudeInv
<1>4. ChannelTypes'
  BY <1>1, EmptyTodo DEF BaseInv, ChannelTypes
<1>5. AltitudeInv'
  BY <1>1 DEF AltitudeInv
<1>6. local' = config'.nodeId /\ denied' = ~EffectiveGps(config')
  BY <1>1, <1>3 DEF BaseInv
<1> QED BY <1>3, <1>4, <1>5, <1>6 DEF BaseInv, CoreInv

LEMMA BaseStamp ==
  ASSUME BaseInv, NEW k \in Task, NEW events \in SUBSET (RadioEvent \cup GpsEvent),
         Stamp(k, events)
  PROVE  BaseInv'
<1>1. PICK e \in events : pending' = [pending EXCEPT ![k] = [event |-> e, at |-> clock]]
  BY DEF Stamp
<1>2. UNCHANGED <<coreVars, clock, config, debug, quality, emitter>>
  BY DEF Stamp
<1>3. ChannelTypes'
  BY <1>1, <1>2 DEF BaseInv, ChannelTypes
<1>4. AltitudeInv'
  BY <1>2 DEF BaseInv, AltitudeInv, coreVars
<1> QED BY <1>2, <1>3, <1>4, BaseStutter

(* So is what the radio and the gps task inject.                           *)
LEMMA InjectOut ==
  ASSUME BaseInv, NEW k \in Task, Inject(k)
  PROVE  /\ emitter.pc # "locked" /\ pending[k].event # NoEvent /\ pending[k].at \in 0 .. Horizon
         /\ pending' = [pending EXCEPT ![k] = [event |-> NoEvent, at |-> 0]]
         /\ UNCHANGED <<clock, config, debug, emitter>>
         /\ \/ EventOut(pending[k].at) /\ UNCHANGED quality
            \/ UNCHANGED coreVars /\ quality' \in [Node -> [present : BOOLEAN, at : 0 .. Horizon]]
<1> DEFINE e == pending[k].event
           t == pending[k].at
<1>1. /\ emitter.pc # "locked" /\ e # NoEvent /\ Apply(e, t)
      /\ pending' = [pending EXCEPT ![k] = [event |-> NoEvent, at |-> 0]]
      /\ UNCHANGED <<clock, config, debug, emitter>>
  BY DEF Inject, MutexFree
<1>2. e \in RadioEvent \cup GpsEvent /\ t \in 0 .. Horizon
  BY <1>1 DEF BaseInv, ChannelTypes
<1> HIDE DEF e, t
<1>3. t \in Int
  BY <1>2, ControlAssumption
<1>4. \/ EventOut(t) /\ UNCHANGED quality
      \/ UNCHANGED coreVars /\ quality' \in [Node -> [present : BOOLEAN, at : 0 .. Horizon]]
  <2>1. CASE e.type = "telemetry" /\ PeerTelemetryRx(t, e.peer, e.kind) /\ UNCHANGED quality
    <3>1. e.peer \in Node /\ e.kind \in PosKind
      BY <1>2, <2>1, ControlAssumption DEF RadioEvent, GpsEvent
    <3> QED BY <1>3, <2>1, <3>1, TelemetryOut DEF BaseInv
  <2>2. CASE e.type = "range" /\ RangeResult(t, e.peer, TRUE, "good") /\ UNCHANGED quality
    <3>1. e.peer \in Node
      BY <1>2, <2>2, ControlAssumption DEF RadioEvent, GpsEvent
    <3> QED BY <1>3, <2>2, <3>1, RangeResultOut DEF BaseInv
  <2>3. CASE e.type = "rangeFail" /\ RangeFail(t, e.peer) /\ UNCHANGED quality
    <3>1. e.peer \in Node
      BY <1>2, <2>3, ControlAssumption DEF RadioEvent, GpsEvent
    <3> QED BY <1>3, <2>3, <3>1, RangeFailOut DEF BaseInv
  <2>4. CASE e.type = "gnss" /\ LocalGnssSample(t, e.usable) /\ UNCHANGED quality
    <3>1. e.usable \in BOOLEAN
      BY <1>2, <2>4, ControlAssumption DEF RadioEvent, RadioInputs, GpsEvent
    <3> QED BY <1>3, <2>4, <3>1, GnssOut DEF BaseInv
  <2>5. CASE /\ e.type = "quality" /\ UNCHANGED coreVars
             /\ quality' = [quality EXCEPT ![e.peer] = [present |-> TRUE, at |-> t]]
    <3>1. e.peer \in Node
      BY <1>2, <2>5, ControlAssumption DEF RadioEvent, GpsEvent
    <3>2. quality' \in [Node -> [present : BOOLEAN, at : 0 .. Horizon]]
      BY <1>2, <2>5, <3>1 DEF BaseInv, ChannelTypes
    <3> QED BY <2>5, <3>2
  <2> QED BY <1>1, <2>1, <2>2, <2>3, <2>4, <2>5 DEF Apply
<1> QED BY <1>1, <1>2, <1>4 DEF e, t

LEMMA BaseInject == ASSUME BaseInv, NEW k \in Task, Inject(k) PROVE BaseInv'
<1> DEFINE t == pending[k].at
<1>1. pending' \in [Task -> [event : RadioEvent \cup GpsEvent \cup {NoEvent}, at : 0 .. Horizon]]
  BY InjectOut, ControlAssumption DEF BaseInv, ChannelTypes
<1>2. t \in Int
  BY InjectOut, ControlAssumption
<1>3. AltitudeInv'
  BY InjectOut DEF AltitudeInv
<1> HIDE DEF t
<1>4. CASE EventOut(t) /\ UNCHANGED quality
  <2>1. CoreInv' /\ UNCHANGED <<local, denied>>
    BY <1>2, <1>4, CoreInvEvent, BaseIsCore
  <2>2. ChannelTypes'
    BY <1>1, <1>4, InjectOut DEF BaseInv, ChannelTypes
  <2>3. local' = config'.nodeId /\ denied' = ~EffectiveGps(config')
    BY <2>1, InjectOut DEF BaseInv
  <2> QED BY <1>3, <2>1, <2>2, <2>3 DEF BaseInv, CoreInv
<1>5. CASE UNCHANGED coreVars /\ quality' \in [Node -> [present : BOOLEAN, at : 0 .. Horizon]]
  <2>1. ChannelTypes'
    BY <1>1, <1>5, InjectOut DEF BaseInv, ChannelTypes
  <2> QED BY <1>3, <1>5, <2>1, InjectOut, BaseStutter
<1> QED BY <1>4, <1>5, InjectOut DEF t

(* A command leaves the clock, the emitter and what is pending alone.      *)
LEMMA BaseReader == ASSUME BaseInv, ReaderApply PROVE BaseInv'
<1> USE ControlAssumption
<1>1. /\ emitter.pc # "locked" /\ UNCHANGED <<clock, emitter, pending>>
  BY DEF ReaderApply, MutexFree
<1>2. AltitudeInv'
  BY <1>1 DEF AltitudeInv
<1>3. PICK c \in Command :
       \/ c.type = "SET_GPS" /\ SetGps(c.on)
       \/ c.type = "SET_MOCK" /\ SetMock(c.on)
       \/ c.type = "SET_ALTITUDE" /\ SetAltitude(c.alt)
       \/ c.type = "SET_NODE_ID" /\ SetNodeId(c.id)
       \/ c.type = "SET_DEBUG" /\ SetDebug(c.on)
       \/ c.type \in {"SET_NAME", "GET"} /\ UNCHANGED <<coreVars, config, debug, quality>>
  BY DEF ReaderApply
<1>4. c \in CommandType
  OBVIOUS
<1>5. CASE c.type = "SET_GPS" /\ SetGps(c.on)
  <2>1. c.on \in BOOLEAN
    BY <1>4, <1>5 DEF CommandType
  <2>2. /\ config' = [config EXCEPT !.gps = EnableGnss /\ c.on]
        /\ denied' = ~EffectiveGps(config') /\ dirty' = TRUE
        /\ UNCHANGED <<local, gnss, altitude, peer, ran, lastSolve, snapshot, debug, quality>>
    BY <1>5 DEF SetGps
  <2>3. (EnableGnss /\ c.on) \in BOOLEAN
    BY <2>1, Zenon
  <2>4. config' \in NodeConfig /\ config'.nodeId = config.nodeId
    BY <2>2, <2>3 DEF BaseInv, ChannelTypes, NodeConfig
  <2>5. denied' \in BOOLEAN /\ dirty' \in BOOLEAN
    BY <2>2, Zenon DEF EffectiveGps
  <2>6. CoreTypeOK'
    BY <2>2, <2>5 DEF BaseInv, CoreTypeOK
  <2>7. ChannelTypes'
    BY <1>1, <2>2, <2>4 DEF BaseInv, ChannelTypes
  <2> QED BY <1>2, <2>2, <2>4, <2>6, <2>7 DEF BaseInv, EstimatedNeverAnchors,
             DeniedGnssTransient, AltitudeAlwaysFed
<1>6. ASSUME NEW next \in NodeConfig, config' = next, next.nodeId = config.nodeId,
             next.gps = config.gps, UNCHANGED <<coreVars, debug, quality>>
      PROVE  BaseInv'
  <2>1. ChannelTypes'
    BY <1>1, <1>6 DEF BaseInv, ChannelTypes
  <2>2. local' = config'.nodeId /\ denied' = ~EffectiveGps(config')
    BY <1>6 DEF BaseInv, coreVars, EffectiveGps
  <2> QED BY <1>2, <1>6, <2>1, <2>2 DEF BaseInv, coreVars, CoreTypeOK, EstimatedNeverAnchors,
             DeniedGnssTransient, AltitudeAlwaysFed
<1>7. CASE c.type = "SET_MOCK" /\ SetMock(c.on)
  <2>1. c.on \in BOOLEAN
    BY <1>4, <1>7 DEF CommandType
  <2>2. [config EXCEPT !.mock = c.on] \in NodeConfig
    BY <2>1 DEF BaseInv, ChannelTypes, NodeConfig
  <2>3. [config EXCEPT !.mock = c.on].nodeId = config.nodeId
        /\ [config EXCEPT !.mock = c.on].gps = config.gps
    BY DEF BaseInv, ChannelTypes, NodeConfig
  <2> QED BY <1>6, <1>7, <2>2, <2>3 DEF SetMock
<1>8. CASE c.type = "SET_ALTITUDE" /\ SetAltitude(c.alt)
  <2>1. c.alt \in AltitudeValue
    BY <1>4, <1>8 DEF CommandType
  <2>2. [config EXCEPT !.alt = c.alt] \in NodeConfig
    BY <2>1 DEF BaseInv, ChannelTypes, NodeConfig
  <2>3. [config EXCEPT !.alt = c.alt].nodeId = config.nodeId
        /\ [config EXCEPT !.alt = c.alt].gps = config.gps
    BY DEF BaseInv, ChannelTypes, NodeConfig
  <2> QED BY <1>6, <1>8, <2>2, <2>3 DEF SetAltitude
<1>9. CASE c.type = "SET_NODE_ID" /\ SetNodeId(c.id)
  <2>1. c.id \in Node
    BY <1>4, <1>9 DEF CommandType
  <2>2. /\ config' = [config EXCEPT !.nodeId = c.id] /\ local' = c.id
        /\ denied' = ~EffectiveGps(config) /\ gnss' = NoGnss /\ altitude' = NoAltitude
        /\ peer' = EmptyTable /\ dirty' = TRUE /\ ran' = FALSE /\ lastSolve' = 0
        /\ snapshot' = BootSnapshot /\ quality' = NoQuality /\ UNCHANGED debug
    BY <1>9 DEF SetNodeId
  <2>3. config' \in NodeConfig /\ config'.nodeId = c.id /\ config'.gps = config.gps
    BY <2>1, <2>2 DEF BaseInv, ChannelTypes, NodeConfig
  <2>4. denied' \in BOOLEAN /\ dirty' \in BOOLEAN /\ ran' \in BOOLEAN
    BY <2>2, Zenon DEF EffectiveGps
  <2>5. CoreTypeOK'
    <3>1. peer' \in [Node -> Entry]
      BY <2>2, EmptyEntryType DEF EmptyTable
    <3>2. SnapshotOK(snapshot')
      BY <2>2 DEF BootSnapshot, NoFix, SnapshotOK, Published, SolveReject, AltSource
    <3> QED BY <2>1, <2>2, <2>4, <3>1, <3>2 DEF CoreTypeOK, NoGnss, NoAltitude
  <2>6. quality' \in [Node -> [present : BOOLEAN, at : 0 .. Horizon]]
    BY <2>2 DEF NoQuality
  <2>7. ChannelTypes'
    BY <1>1, <2>2, <2>3, <2>6 DEF BaseInv, ChannelTypes
  <2>8. (\A p \in Node : EntryInv(peer[p]))'
    BY <2>2 DEF EmptyTable, EmptyEntry, EntryInv
  <2>9. (EstimatedNeverAnchors /\ DeniedGnssTransient /\ AltitudeAlwaysFed)'
    BY <2>2 DEF BootSnapshot, NoFix, EstimatedNeverAnchors, DeniedGnssTransient,
                AltitudeAlwaysFed
  <2>10. local' = config'.nodeId /\ denied' = ~EffectiveGps(config')
    BY <2>2, <2>3 DEF EffectiveGps
  <2> QED BY <1>2, <2>5, <2>7, <2>8, <2>9, <2>10 DEF BaseInv
<1>10. CASE c.type = "SET_DEBUG" /\ SetDebug(c.on)
  <2>1. c.on \in BOOLEAN
    BY <1>4, <1>10 DEF CommandType
  <2>2. /\ debug' = c.on /\ UNCHANGED <<coreVars, config>>
        /\ quality' = quality \/ quality' = NoQuality
    BY <1>10 DEF SetDebug
  <2>3. debug' \in BOOLEAN
    BY <2>1, <2>2, Zenon
  <2>4. quality' \in [Node -> [present : BOOLEAN, at : 0 .. Horizon]]
    <3>1. NoQuality \in [Node -> [present : BOOLEAN, at : 0 .. Horizon]]
      BY DEF NoQuality
    <3>2. quality \in [Node -> [present : BOOLEAN, at : 0 .. Horizon]]
      BY DEF BaseInv, ChannelTypes
    <3> QED BY <2>2, <3>1, <3>2
  <2>5. ChannelTypes'
    BY <1>1, <2>2, <2>3, <2>4 DEF BaseInv, ChannelTypes
  <2> QED BY <1>2, <2>2, <2>5, BaseStutter
<1>11. CASE c.type \in {"SET_NAME", "GET"} /\ UNCHANGED <<coreVars, config, debug, quality>>
  <2>1. ChannelTypes'
    BY <1>1, <1>11 DEF BaseInv, ChannelTypes
  <2> QED BY <1>2, <1>11, <2>1, BaseStutter
<1> QED BY <1>3, <1>5, <1>7, <1>8, <1>9, <1>10, <1>11

LEMMA BaseNext == ASSUME BaseInv, [Next]_vars PROVE BaseInv'
<1>1. "radio" \in Task /\ "gps" \in Task
  BY DEF Task
<1>2. CASE UNCHANGED vars
  <2>1. ChannelTypes'
    BY <1>2 DEF BaseInv, ChannelTypes, vars, channelVars
  <2>2. UNCHANGED <<altitude, emitter>>
    BY <1>2 DEF vars, coreVars, channelVars
  <2>3. AltitudeInv'
    BY <2>2 DEF BaseInv, AltitudeInv
  <2> QED BY <1>2, <2>1, <2>3, BaseStutter DEF vars, channelVars
<1>3. CASE Stamp("radio", RadioEvent) \/ Stamp("gps", GpsEvent)
  BY <1>1, <1>3, BaseStamp
<1>4. CASE \E k \in Task : Inject(k)
  BY <1>4, BaseInject
<1> QED BY <1>2, <1>3, <1>4, BaseClock, BaseReadClock, BaseLock, BaseMock, BaseTick,
           BaseReader DEF Next

THEOREM BaseInductive == Spec => []BaseInv
<1>1. BaseInv /\ [Next]_vars => BaseInv'
  BY BaseNext
<1> QED BY BaseInit, <1>1, PTL DEF Spec

(* Every variable of the tasks and of the core they share keeps its type;  *)
(* the core answers for the node the configuration names.                  *)
THEOREM ChannelTypeCorrect == Spec => []TypeOK
<1>1. BaseInv => TypeOK
  BY DEF BaseInv, ChannelTypes, TypeOK
<1> QED BY BaseInductive, <1>1, PTL

(* No order of beacons, ranges, mock peers, ticks and identity changes     *)
(* makes a solve rest on an estimated position or on this node itself.     *)
THEOREM NoEstimatedAnchorInTasks == Spec => []EstimatedNeverAnchors
<1>1. BaseInv => EstimatedNeverAnchors
  BY DEF BaseInv
<1> QED BY BaseInductive, <1>1, PTL

(* SET_GPS off always leaves a change of input pending while GNSS_OK is    *)
(* still published, whatever runs between the command and the tick.        *)
THEOREM DenialPendingInTasks == Spec => []DeniedGnssTransient
<1>1. BaseInv => DeniedGnssTransient
  BY DEF BaseInv
<1> QED BY BaseInductive, <1>1, PTL

(* The altitude fed under the mutex is the one the tick under the same     *)
(* mutex resolves: no command or injection comes between.                  *)
THEOREM AltitudeNeverMissing == Spec => []AltitudeAlwaysFed
<1>1. BaseInv => AltitudeAlwaysFed
  BY DEF BaseInv
<1> QED BY BaseInductive, <1>1, PTL

-----------------------------------------------------------------------------
(* Time.  No lap, both times to live on, and a stamp that takes longer to  *)
(* wrap than evidence can stay valid without a tick.                       *)
ClockOutlasts ==
  /\ ~Lapping
  /\ RangeTtl > 0 /\ TelemetryTtl > 0
  /\ RangeTtl + TickGap < ClockMod /\ TelemetryTtl + TickGap < ClockMod

Late(pc) == (IF pc = "sleeping" THEN EmitterPeriod ELSE 0) + MaxLag
Slack(pc) == IF pc = "sleeping" THEN MaxLag ELSE TickGap

(* An entry when the emitter is at pc since at and the time is now.  What  *)
(* is valid had not expired at the last tick, so it is too old by no more  *)
(* than the gap to the next one; a range is paired with a position as old  *)
(* unless the tick to come will find the range stamped after its own time  *)
(* and, as that age wraps, expire it.                                      *)
EntryTimely(e, pc, at, now) ==
  /\ e.telTs <= now /\ e.rngTs <= now
  /\ e.gnss => at - e.telTs <= TelemetryTtl + Slack(pc)
  /\ e.rngValid => at - e.rngTs <= RangeTtl + Slack(pc)
  /\ e.rposValid =>
       /\ e.rngTs - e.rposTs >= -MaxLag
       /\ \/ e.rngTs - e.rposTs <= TelemetryTtl + TickGap
          \/ pc # "sleeping" /\ e.rngTs > at

TimeInv ==
  /\ clock - emitter.at \in 0 .. Late(emitter.pc)
  /\ \A k \in Task : pending[k].event # NoEvent => clock - pending[k].at \in 0 .. MaxLag
  /\ \A p \in Node : EntryTimely(peer[p], emitter.pc, emitter.at, clock)
  /\ EvidenceTrulyFresh

LEMMA TimeParameters ==
  ASSUME ClockOutlasts
  PROVE  /\ EmitterPeriod \in Nat \ {0} /\ MaxLag \in Nat /\ ClockMod \in Nat \ {0}
         /\ RangeTtl \in Nat \ {0} /\ TelemetryTtl \in Nat \ {0} /\ Horizon \in Nat
         /\ TickGap = EmitterPeriod + 2 * MaxLag /\ TickGap \in Nat
         /\ Late("sleeping") = EmitterPeriod + MaxLag
         /\ \A pc : pc # "sleeping" => Late(pc) = MaxLag
         /\ Slack("sleeping") = MaxLag
         /\ \A pc : pc # "sleeping" => Slack(pc) = TickGap
BY ControlAssumption, TtlAssumption, ClockAssumption DEF ClockOutlasts, TickGap, Late, Slack

LEMMA TrueAge ==
  ASSUME NEW t \in Int, NEW s \in Int, t - s \in 0 .. ClockMod - 1
  PROVE  AgeAt(t, s) = t - s
BY ClockAssumption DEF AgeAt

LEMMA WrappedAge ==
  ASSUME NEW t \in Int, NEW s \in Int, s - t \in 1 .. ClockMod - 1
  PROVE  AgeAt(t, s) = ClockMod - (s - t)
<1>1. PICK d \in 1 .. ClockMod - 1 : d = s - t
  OBVIOUS
<1>2. t - s = -d
  BY <1>1
<1>3. (-d) % ClockMod = ClockMod - d
  BY ClockAssumption, <1>1
<1> QED BY <1>1, <1>2, <1>3 DEF AgeAt

LEMMA TimeInit == ASSUME ClockOutlasts, Init PROVE TimeInv
<1>1. /\ clock = 0 /\ emitter.at = 0 /\ emitter.pc = "sleeping"
      /\ \A k \in Task : pending[k].event = NoEvent
      /\ peer = EmptyTable /\ snapshot = BootSnapshot
  BY DEF Init, CoreInit
<1>2. ASSUME NEW p \in Node PROVE EntryTimely(peer[p], emitter.pc, emitter.at, clock)
  <2>1. peer[p] = EmptyEntry
    BY <1>1 DEF EmptyTable
  <2> QED BY <1>1, <2>1 DEF EmptyEntry, EntryTimely
<1>3. EvidenceTrulyFresh
  BY <1>1 DEF EvidenceTrulyFresh, BootSnapshot, NoFix
<1> QED BY <1>1, <1>2, <1>3, TimeParameters DEF TimeInv

LEMMA TimeTypes ==
  ASSUME BaseInv
  PROVE  /\ clock \in Int /\ emitter.at \in Int
         /\ emitter.pc \in {"sleeping", "stamped", "locked"}
         /\ \A k \in Task : pending[k].at \in Int
         /\ \A p \in Node : /\ peer[p] \in Entry /\ EntryInv(peer[p])
                            /\ peer[p].telTs \in Int /\ peer[p].rngTs \in Int
                            /\ peer[p].rposTs \in Int
BY ControlAssumption DEF BaseInv, ChannelTypes, CoreTypeOK, Entry

LEMMA TimeClock == ASSUME ClockOutlasts, BaseInv, TimeInv, ClockStep PROVE TimeInv'
<1>1. /\ clock' = clock + 1 /\ OnTime(clock')
      /\ UNCHANGED <<coreVars, config, debug, quality, emitter, pending>>
  BY DEF ClockStep
<1>2. clock' - emitter.at \in 0 .. Late(emitter.pc)
  <2>1. clock' - emitter.at \in 0 .. ClockMod - 1
    BY <1>1, TimeTypes, TimeParameters DEF TimeInv, ClockOutlasts
  <2>2. AgeAt(clock', emitter.at) <= Late(emitter.pc)
    BY <1>1 DEF OnTime, Late
  <2>3. AgeAt(clock', emitter.at) = clock' - emitter.at
    BY <1>1, <2>1, TimeTypes, TrueAge
  <2> QED BY <2>1, <2>2, <2>3
<1>3. ASSUME NEW k \in Task, pending[k].event # NoEvent
      PROVE  clock' - pending[k].at \in 0 .. MaxLag
  <2>1. clock' - pending[k].at \in 0 .. ClockMod - 1
    BY <1>1, <1>3, TimeTypes, TimeParameters DEF TimeInv, ClockOutlasts
  <2>2. AgeAt(clock', pending[k].at) <= MaxLag
    BY <1>1, <1>3 DEF OnTime
  <2>3. AgeAt(clock', pending[k].at) = clock' - pending[k].at
    BY <1>1, <2>1, TimeTypes, TrueAge
  <2> QED BY <2>1, <2>2, <2>3
<1>4. ASSUME NEW p \in Node PROVE EntryTimely(peer[p], emitter.pc, emitter.at, clock')
  BY <1>1, TimeTypes DEF TimeInv, EntryTimely
<1>5. UNCHANGED <<emitter, pending, peer, snapshot>>
  BY <1>1 DEF coreVars
<1> QED BY <1>2, <1>3, <1>4, <1>5 DEF TimeInv, EvidenceTrulyFresh

LEMMA TimeReadClock ==
  ASSUME ClockOutlasts, BaseInv, TimeInv, EmitterReadClock
  PROVE  TimeInv'
<1>1. /\ emitter.pc = "sleeping" /\ emitter'.pc = "stamped" /\ emitter'.at = clock
      /\ UNCHANGED <<coreVars, clock, config, debug, quality, pending>>
  BY DEF EmitterReadClock
<1>2. clock' - emitter'.at \in 0 .. Late(emitter'.pc)
  BY <1>1, TimeTypes, TimeParameters
<1>3. ASSUME NEW p \in Node PROVE EntryTimely(peer[p], "stamped", clock, clock)
  BY <1>1, TimeTypes, TimeParameters DEF TimeInv, EntryTimely
<1>4. UNCHANGED <<clock, pending, peer, snapshot>>
  BY <1>1 DEF coreVars
<1> QED BY <1>1, <1>2, <1>3, <1>4 DEF TimeInv, EvidenceTrulyFresh

(* An event stamped lag before now, which the emitter will look at no      *)
(* earlier than at: what it stores is timely.                              *)
LEMMA EntryTimelyEvent ==
  ASSUME ClockOutlasts, BaseInv, TimeInv, NEW t \in Int, clock - t \in 0 .. MaxLag,
         emitter.pc = "locked" => t = emitter.at,
         NEW p \in Node, EntryOut(p, t)
  PROVE  EntryTimely(peer'[p], emitter.pc, emitter.at, clock)
<1> DEFINE e == peer[p]
           d == peer'[p]
<1>1. e \in Entry /\ EntryTimely(e, emitter.pc, emitter.at, clock)
      /\ clock \in Int /\ emitter.at \in Int /\ emitter.pc \in {"sleeping", "stamped", "locked"}
  BY TimeTypes DEF TimeInv
<1>2. emitter.at <= clock /\ clock - emitter.at <= Late(emitter.pc)
  <2>1. Late(emitter.pc) \in Nat
    BY TimeParameters
  <2> QED BY <1>1, <2>1 DEF TimeInv
<1>3. CASE d = e
  BY <1>1, <1>3
<1>4. ASSUME NEW kind \in PosKind, d = UpdateTelemetry(e, kind, t)
      PROVE  EntryTimely(d, emitter.pc, emitter.at, clock)
  <2>1. /\ d.telTs = t /\ d.rngTs = e.rngTs /\ d.rngValid = e.rngValid
        /\ d.rposValid = e.rposValid /\ d.rposTs = e.rposTs
    BY <1>1, <1>4 DEF UpdateTelemetry, Entry
  <2>2. e.rngTs \in Int /\ e.rposTs \in Int
    BY <1>1 DEF Entry
  <2> HIDE DEF d, e
  <2> QED BY <1>1, <1>2, <2>1, <2>2, TimeParameters DEF EntryTimely
<1>5. ASSUME NEW valid \in BOOLEAN, NEW class \in RangeClass, d = UpdateRange(e, valid, class, t)
      PROVE  EntryTimely(d, emitter.pc, emitter.at, clock)
  <2>1. /\ d.telTs = e.telTs /\ d.gnss = e.gnss /\ d.rngTs = t /\ d.rposTs = e.telTs
        /\ (d.rposValid <=> valid /\ e.gnss)
    BY <1>1, <1>5 DEF UpdateRange, Entry
  <2>2. e.telTs \in Int
    BY <1>1 DEF Entry
  <2>3. d.rposValid => e.gnss
    BY <2>1
  <2> HIDE DEF d, e
  <2>4. e.telTs <= clock /\ (e.gnss => emitter.at - e.telTs <= TelemetryTtl + Slack(emitter.pc))
    BY <1>1 DEF EntryTimely
  <2>5. /\ EmitterPeriod \in Nat /\ MaxLag \in Nat /\ RangeTtl \in Nat /\ TelemetryTtl \in Nat
        /\ TickGap = EmitterPeriod + 2 * MaxLag
    BY TimeParameters
  <2>6. Slack(emitter.pc) \in Nat /\ Slack(emitter.pc) >= MaxLag
    BY <2>5, TimeParameters
  <2>7. emitter.at - t <= MaxLag
    BY <1>1, <1>2, <2>5
  <2>8. d.rposValid => t - e.telTs <= TelemetryTtl + TickGap
                       \/ (emitter.pc # "sleeping" /\ t > emitter.at)
    <3>1. CASE emitter.pc = "sleeping"
      <4>1. Slack(emitter.pc) = MaxLag /\ Late(emitter.pc) = EmitterPeriod + MaxLag
        BY <3>1, TimeParameters
      <4> QED BY <1>1, <1>2, <2>2, <2>3, <2>4, <2>5, <4>1
    <3>2. CASE emitter.pc # "sleeping"
      <4>1. Slack(emitter.pc) = TickGap
        BY <3>2, TimeParameters
      <4> QED BY <1>1, <2>2, <2>3, <2>4, <2>5, <3>2, <4>1
    <3> QED BY <3>1, <3>2
  <2>9. d.telTs <= clock /\ d.rngTs <= clock
    BY <1>1, <2>1, <2>2, <2>4, <2>5
  <2>10. d.gnss => emitter.at - d.telTs <= TelemetryTtl + Slack(emitter.pc)
    BY <2>1, <2>4
  <2>11. emitter.at - d.rngTs <= RangeTtl + Slack(emitter.pc)
    BY <1>1, <2>1, <2>5, <2>6, <2>7
  <2>12. d.rngTs - d.rposTs >= -MaxLag
    BY <1>1, <2>1, <2>2, <2>4, <2>5
  <2> QED BY <2>1, <2>8, <2>9, <2>10, <2>11, <2>12 DEF EntryTimely
<1> QED BY <1>3, <1>4, <1>5 DEF EntryOut

LEMMA TimeEvent ==
  ASSUME ClockOutlasts, BaseInv, TimeInv, NEW t \in Int, clock - t \in 0 .. MaxLag,
         emitter.pc = "locked" => t = emitter.at, EventOut(t)
  PROVE  /\ \A p \in Node : EntryTimely(peer'[p], emitter.pc, emitter.at, clock)
         /\ EvidenceTrulyFresh'
<1>1. EvidenceTrulyFresh'
  <2>1. CASE snapshot' = snapshot
    BY <2>1 DEF TimeInv, EvidenceTrulyFresh
  <2>2. CASE PublishGnss(gnss')
    BY <2>2, PublishGnssType DEF EvidenceTrulyFresh
  <2> QED BY <2>1, <2>2 DEF EventOut
<1> QED BY <1>1, EntryTimelyEvent DEF EventOut

LEMMA TimeLock == ASSUME ClockOutlasts, BaseInv, TimeInv, EmitterLock PROVE TimeInv'
<1>1. Late("locked") = MaxLag /\ Late("stamped") = MaxLag
      /\ Slack("locked") = TickGap /\ Slack("stamped") = TickGap
  BY TimeParameters
<1>2. /\ \A p \in Node : EntryTimely(peer'[p], emitter.pc, emitter.at, clock)
      /\ EvidenceTrulyFresh'
  <2>1. clock - emitter.at \in 0 .. MaxLag /\ emitter.at \in Int
    BY <1>1, LockOut, TimeTypes DEF TimeInv
  <2> QED BY <2>1, LockOut, TimeEvent
<1>3. ASSUME NEW p \in Node PROVE EntryTimely(peer'[p], "locked", emitter.at, clock)
  BY <1>1, <1>2, LockOut DEF EntryTimely
<1> QED BY <1>1, <1>2, <1>3, LockOut DEF TimeInv

LEMMA TimeMock == ASSUME ClockOutlasts, BaseInv, TimeInv, EmitterMock PROVE TimeInv'
<1>1. clock - emitter.at \in 0 .. MaxLag /\ emitter.at \in Int
  BY MockOut, TimeParameters, TimeTypes DEF TimeInv
<1>2. /\ \A p \in Node : EntryTimely(peer'[p], emitter.pc, emitter.at, clock)
      /\ EvidenceTrulyFresh'
  BY <1>1, MockOut, TimeEvent
<1> QED BY <1>2, MockOut DEF TimeInv

(* A stamp that is not expired at t lies within its time to live, even if  *)
(* it was taken after t: that age would have wrapped past any limit.       *)
LEMMA NotExpired ==
  ASSUME ClockOutlasts, NEW t \in Int, NEW s \in Int, NEW ttl \in {RangeTtl, TelemetryTtl},
         -MaxLag <= t - s, ~Expired(t, s, ttl)
  PROVE  s <= t /\ (t - s <= ttl + TickGap => t - s <= ttl)
<1>1. /\ ttl \in Nat \ {0} /\ ttl + TickGap < ClockMod /\ TickGap = EmitterPeriod + 2 * MaxLag
      /\ MaxLag \in Nat /\ EmitterPeriod \in Nat \ {0} /\ ClockMod \in Nat
  BY TimeParameters DEF ClockOutlasts
<1>2. AgeAt(t, s) <= ttl
  <2>1. AgeAt(t, s) \in Int
    BY ClockAssumption DEF AgeAt
  <2> QED BY <1>1, <2>1 DEF Expired
<1>3. s <= t
  <2>1. SUFFICES ASSUME s > t PROVE FALSE
    OBVIOUS
  <2>2. s - t \in 1 .. ClockMod - 1
    BY <1>1, <2>1
  <2>3. AgeAt(t, s) = ClockMod - (s - t)
    BY <2>2, WrappedAge
  <2> QED BY <1>1, <1>2, <2>3
<1>4. ASSUME t - s <= ttl + TickGap PROVE t - s <= ttl
  <2>1. t - s \in 0 .. ClockMod - 1
    BY <1>1, <1>3, <1>4
  <2> QED BY <1>2, <2>1, TrueAge
<1> QED BY <1>3, <1>4

LEMMA EntryTimelyTick ==
  ASSUME ClockOutlasts, BaseInv, TimeInv, emitter.pc = "locked", NEW p \in Node, NEW d,
         Alike(d, MarkStale(peer[p], emitter.at))
  PROVE  EntryTimely(d, "sleeping", clock, clock)
<1> DEFINE e == peer[p]
           t == emitter.at
           m == MarkStale(e, t)
<1>1. /\ e \in Entry /\ EntryInv(e) /\ EntryTimely(e, emitter.pc, t, clock)
      /\ clock \in Int /\ t \in Int
      /\ e.telTs \in Int /\ e.rngTs \in Int /\ e.rposTs \in Int
  BY TimeTypes DEF TimeInv
<1>2. m.telTs = e.telTs /\ m.rngTs = e.rngTs /\ m.rposTs = e.rposTs
  BY <1>1, MarkStaleFacts
<1>3. m.gnss => e.gnss /\ ~(e.present /\ Expired(t, e.telTs, TelemetryTtl))
  BY <1>1, MarkStaleFacts
<1>4. m.rngValid => e.rngValid /\ ~(e.present /\ Expired(t, e.rngTs, RangeTtl))
  BY <1>1, MarkStaleRangeFacts
<1>5. m.rposValid => e.rposValid /\ ~(e.present /\ Expired(t, e.rngTs, RangeTtl))
  BY <1>1, MarkStaleRangeFacts
<1>6. Alike(d, m)
  OBVIOUS
<1> HIDE DEF m
<1>7. /\ d.telTs = e.telTs /\ d.rngTs = e.rngTs /\ d.rposTs = e.rposTs
      /\ d.gnss = m.gnss /\ d.rngValid = m.rngValid /\ d.rposValid = m.rposValid
  BY <1>2, <1>6 DEF Alike
<1>8. /\ MaxLag \in Nat /\ RangeTtl \in Nat /\ TelemetryTtl \in Nat /\ TickGap \in Nat
      /\ Slack("sleeping") = MaxLag /\ Slack(emitter.pc) = TickGap
      /\ t <= clock /\ clock - t <= MaxLag
  BY <1>1, TimeParameters DEF TimeInv
<1>9. e.telTs <= clock /\ e.rngTs <= clock
  BY <1>1 DEF EntryTimely
<1>10. -MaxLag <= t - e.telTs /\ -MaxLag <= t - e.rngTs
  BY <1>1, <1>8, <1>9
<1>11. m.gnss => clock - e.telTs <= TelemetryTtl + MaxLag
  <2>1. SUFFICES ASSUME m.gnss PROVE clock - e.telTs <= TelemetryTtl + MaxLag
    OBVIOUS
  <2>2. e.gnss /\ ~Expired(t, e.telTs, TelemetryTtl) /\ t - e.telTs <= TelemetryTtl + TickGap
    BY <1>1, <1>3, <1>8, <2>1 DEF EntryInv, EntryTimely
  <2>3. t - e.telTs <= TelemetryTtl
    BY <1>1, <1>10, <2>2, NotExpired
  <2> QED BY <1>1, <1>8, <2>3
<1>12. m.rngValid => clock - e.rngTs <= RangeTtl + MaxLag
  <2>1. SUFFICES ASSUME m.rngValid PROVE clock - e.rngTs <= RangeTtl + MaxLag
    OBVIOUS
  <2>2. ~Expired(t, e.rngTs, RangeTtl) /\ t - e.rngTs <= RangeTtl + TickGap
    BY <1>1, <1>4, <1>8, <2>1 DEF EntryInv, EntryTimely
  <2>3. t - e.rngTs <= RangeTtl
    BY <1>1, <1>10, <2>2, NotExpired
  <2> QED BY <1>1, <1>8, <2>3
<1>13. m.rposValid => /\ e.rngTs - e.rposTs >= -MaxLag
                      /\ e.rngTs - e.rposTs <= TelemetryTtl + TickGap
  <2>1. SUFFICES ASSUME m.rposValid
                 PROVE  /\ e.rngTs - e.rposTs >= -MaxLag
                        /\ e.rngTs - e.rposTs <= TelemetryTtl + TickGap
    OBVIOUS
  <2>2. e.rposValid /\ ~Expired(t, e.rngTs, RangeTtl)
    BY <1>1, <1>5, <2>1 DEF EntryInv
  <2>3. e.rngTs <= t
    BY <1>1, <1>10, <2>2, NotExpired
  <2> QED BY <1>1, <2>2, <2>3 DEF EntryTimely
<1> HIDE DEF e, t
<1> QED BY <1>1, <1>7, <1>8, <1>9, <1>11, <1>12, <1>13 DEF EntryTimely

(* What a selected anchor contributes to a solve of the emitter.           *)
LEMMA ChosenTimely ==
  ASSUME ClockOutlasts, BaseInv, TimeInv, emitter.pc = "locked",
         NEW S, Chosen(emitter.at, S), NEW p \in S
  PROVE  /\ emitter.at - peer[p].rngTs \in 0 .. RangeTtl
         /\ peer[p].rngTs - peer[p].rposTs \in -MaxLag .. TelemetryTtl + TickGap
<1> DEFINE e == peer[p]
           t == emitter.at
<1>1. /\ p \in Node /\ e.rngValid /\ e.rposValid /\ ~Expired(t, e.rngTs, RangeTtl)
  BY ChosenPosition, BaseIsCore, TimeTypes
<1>2. /\ EntryTimely(e, emitter.pc, t, clock) /\ clock \in Int /\ t \in Int
      /\ e.rngTs \in Int /\ e.rposTs \in Int
  BY <1>1, TimeTypes DEF TimeInv
<1>3. /\ MaxLag \in Nat /\ RangeTtl \in Nat /\ TelemetryTtl \in Nat /\ TickGap \in Nat
      /\ Slack(emitter.pc) = TickGap /\ t <= clock /\ clock - t <= MaxLag
  BY <1>2, TimeParameters DEF TimeInv
<1> HIDE DEF e, t
<1>4. -MaxLag <= t - e.rngTs /\ t - e.rngTs <= RangeTtl + TickGap
  BY <1>1, <1>2, <1>3 DEF EntryTimely
<1>5. e.rngTs <= t /\ t - e.rngTs <= RangeTtl
  BY <1>1, <1>2, <1>4, NotExpired
<1>6. e.rngTs - e.rposTs \in -MaxLag .. TelemetryTtl + TickGap
  BY <1>1, <1>2, <1>3, <1>5 DEF EntryTimely
<1>7. t - e.rngTs \in 0 .. RangeTtl
  BY <1>2, <1>3, <1>5
<1> QED BY <1>6, <1>7 DEF e, t

LEMMA TimeTick == ASSUME ClockOutlasts, BaseInv, TimeInv, EmitterTick PROVE TimeInv'
<1>1. /\ emitter.pc = "locked" /\ Tick(emitter.at)
      /\ emitter'.pc = "sleeping" /\ emitter'.at = clock
      /\ UNCHANGED <<clock, pending>>
  BY DEF EmitterTick
<1>2. emitter.at \in Int /\ clock \in Int
  BY TimeTypes
<1>3. TickOut(emitter.at)
  BY <1>1, <1>2, TickCases DEF BaseInv
<1>4. ASSUME NEW p \in Node PROVE EntryTimely(peer'[p], "sleeping", clock, clock)
  BY <1>1, <1>3, EntryTimelyTick DEF TickOut
<1>5. clock' - emitter'.at \in 0 .. Late(emitter'.pc)
  BY <1>1, <1>2, TimeParameters
<1>6. EvidenceTrulyFresh'
  <2>1. CASE OutPublished
    BY <2>1, PublishGnssType DEF OutPublished, EvidenceTrulyFresh
  <2>2. CASE OutKept(emitter.at)
    BY <2>2 DEF OutKept, TimeInv, EvidenceTrulyFresh
  <2>3. CASE OutRejected(emitter.at)
    BY <2>3 DEF OutRejected, NoFix, EvidenceTrulyFresh
  <2>4. CASE OutSolved(emitter.at)
    <3>1. PICK S : /\ Chosen(emitter.at, S)
                   /\ snapshot'.fix = RadioFix(emitter.at,
                        {Evidence(p, MarkStale(peer[p], emitter.at)) : p \in S})
      BY <2>4 DEF OutSolved
    <3>2. /\ snapshot'.fix.at = emitter.at
          /\ snapshot'.fix.basis = {Evidence(p, MarkStale(peer[p], emitter.at)) : p \in S}
      BY <3>1 DEF RadioFix
    <3>3. ASSUME NEW p \in S
          PROVE  LET ev == Evidence(p, MarkStale(peer[p], emitter.at))
                 IN  /\ emitter.at - ev.rngTs \in 0 .. RangeTtl
                     /\ ev.rngTs - ev.posTs \in -MaxLag .. TelemetryTtl + TickGap
      <4>1. peer[p] \in Entry
        BY <3>1, TimeTypes DEF Chosen
      <4>2. /\ MarkStale(peer[p], emitter.at).rngTs = peer[p].rngTs
            /\ MarkStale(peer[p], emitter.at).rposTs = peer[p].rposTs
        BY <1>2, <4>1, MarkStaleFacts
      <4> QED BY <1>1, <3>1, <4>2, ChosenTimely DEF Evidence
    <3>4. EvidenceTrulyFresh'
      BY <3>2, <3>3 DEF EvidenceTrulyFresh
    <3> QED BY <3>4
  <2> QED BY <1>3, <2>1, <2>2, <2>3, <2>4 DEF TickOut
<1> QED BY <1>1, <1>4, <1>5, <1>6 DEF TimeInv

LEMMA TimeReader == ASSUME ClockOutlasts, BaseInv, TimeInv, ReaderApply PROVE TimeInv'
<1>1. UNCHANGED <<clock, emitter, pending>>
  BY DEF ReaderApply
<1>2. \/ UNCHANGED <<peer, snapshot>>
      \/ peer' = EmptyTable /\ snapshot' = BootSnapshot
  BY DEF ReaderApply, SetGps, SetMock, SetAltitude, SetNodeId, SetDebug, coreVars
<1>3. CASE UNCHANGED <<peer, snapshot>>
  BY <1>1, <1>3 DEF TimeInv, EvidenceTrulyFresh
<1>4. CASE peer' = EmptyTable /\ snapshot' = BootSnapshot
  <2>1. EvidenceTrulyFresh'
    BY <1>4 DEF BootSnapshot, NoFix, EvidenceTrulyFresh
  <2>2. clock >= 0
    BY ControlAssumption DEF BaseInv, ChannelTypes
  <2>3. ASSUME NEW p \in Node PROVE EntryTimely(peer'[p], emitter.pc, emitter.at, clock)
    <3>1. peer'[p] = EmptyEntry
      BY <1>4 DEF EmptyTable
    <3> QED BY <2>2, <3>1 DEF EmptyEntry, EntryTimely
  <2> QED BY <1>1, <2>1, <2>3 DEF TimeInv
<1> QED BY <1>2, <1>3, <1>4

LEMMA TimeStamp ==
  ASSUME ClockOutlasts, BaseInv, TimeInv, NEW k \in Task,
         NEW events \in SUBSET (RadioEvent \cup GpsEvent), Stamp(k, events)
  PROVE  TimeInv'
<1>1. PICK e \in events : pending' = [pending EXCEPT ![k] = [event |-> e, at |-> clock]]
  BY DEF Stamp
<1>2. UNCHANGED <<clock, emitter, peer, snapshot>>
  BY DEF Stamp, coreVars
<1>3. ASSUME NEW j \in Task, pending'[j].event # NoEvent
      PROVE  clock - pending'[j].at \in 0 .. MaxLag
  <2>1. CASE j = k
    <3>1. pending'[j].at = clock
      BY <1>1, <2>1 DEF BaseInv, ChannelTypes
    <3> QED BY <3>1, TimeTypes, TimeParameters
  <2>2. CASE j # k
    BY <1>1, <1>3, <2>2 DEF BaseInv, ChannelTypes, TimeInv
  <2> QED BY <2>1, <2>2
<1> QED BY <1>2, <1>3 DEF TimeInv, EvidenceTrulyFresh

LEMMA TimeInject ==
  ASSUME ClockOutlasts, BaseInv, TimeInv, NEW k \in Task, Inject(k)
  PROVE  TimeInv'
<1> DEFINE t == pending[k].at
<1>1. t \in Int /\ clock - t \in 0 .. MaxLag
  BY InjectOut, TimeTypes DEF TimeInv
<1>2. ASSUME NEW j \in Task, pending'[j].event # NoEvent
      PROVE  clock - pending'[j].at \in 0 .. MaxLag
  <2>1. j # k
    BY <1>2, InjectOut DEF BaseInv, ChannelTypes
  <2> QED BY <1>2, <2>1, InjectOut DEF BaseInv, ChannelTypes, TimeInv
<1>3. /\ \A p \in Node : EntryTimely(peer'[p], emitter.pc, emitter.at, clock)
      /\ EvidenceTrulyFresh'
  <2>1. CASE EventOut(t)
    BY <1>1, <2>1, InjectOut, TimeEvent
  <2>2. CASE UNCHANGED coreVars
    <3>1. UNCHANGED <<peer, snapshot>>
      BY <2>2 DEF coreVars
    <3> QED BY <3>1 DEF TimeInv, EvidenceTrulyFresh
  <2> QED BY <2>1, <2>2, InjectOut
<1> QED BY <1>2, <1>3, InjectOut DEF TimeInv

LEMMA TimeNext == ASSUME ClockOutlasts, BaseInv, TimeInv, [Next]_vars PROVE TimeInv'
<1>1. "radio" \in Task /\ "gps" \in Task
  BY DEF Task
<1>2. CASE UNCHANGED vars
  BY <1>2 DEF TimeInv, EvidenceTrulyFresh, vars, coreVars, channelVars
<1>3. CASE ClockLap
  BY <1>3 DEF ClockLap, ClockOutlasts
<1>4. CASE Stamp("radio", RadioEvent) \/ Stamp("gps", GpsEvent)
  BY <1>1, <1>4, TimeStamp
<1>5. CASE \E k \in Task : Inject(k)
  BY <1>5, TimeInject
<1> QED BY <1>2, <1>3, <1>4, <1>5, TimeClock, TimeReadClock, TimeLock, TimeMock, TimeTick,
           TimeReader DEF Next

(* With every lag the scheduler may add, every order of stamps and         *)
(* injections, and ages computed modulo the wrap of a stamp: what a solve  *)
(* uses is within its time to live in true time.                           *)
THEOREM EvidenceIsTrulyFresh == ASSUME ClockOutlasts PROVE Spec => []EvidenceTrulyFresh
<1>1. Init => TimeInv
  BY TimeInit
<1>2. BaseInv /\ TimeInv /\ [Next]_vars => TimeInv'
  BY TimeNext
<1>3. TimeInv => EvidenceTrulyFresh
  BY DEF TimeInv
<1> QED BY BaseInductive, <1>1, <1>2, <1>3, PTL DEF Spec

-----------------------------------------------------------------------------
(* How old a published radio position gets: a tick that is due decides     *)
(* anew, or keeps the position because its evidence is still the evidence  *)
(* of the table and was eligible again.                                    *)
CadenceOutlasts ==
  /\ ClockOutlasts
  /\ SolveInterval > 0
  /\ SolveInterval + TickGap <= ClockMod

RecentInv ==
  /\ UnchangedMeansCurrent
  /\ ran => lastSolve <= emitter.at
  /\ \A ev \in snapshot.fix.basis :
       /\ ev.peer \in Node /\ ev.rngTs \in Int
       /\ ran
       /\ lastSolve - ev.rngTs <= RangeTtl
       /\ emitter.at - lastSolve <= SolveInterval - 1 + Slack(emitter.pc)

Invs == BaseInv /\ TimeInv /\ RecentInv

LEMMA CadenceParameters ==
  ASSUME CadenceOutlasts
  PROVE  ClockOutlasts /\ SolveInterval \in Nat \ {0} /\ SolveInterval + TickGap <= ClockMod
BY CoreAssumption DEF CadenceOutlasts

LEMMA RecentTypes ==
  ASSUME BaseInv
  PROVE  ran \in BOOLEAN /\ dirty \in BOOLEAN /\ lastSolve \in Int /\ local \in Node
BY DEF BaseInv, CoreTypeOK

LEMMA RecentInit == ASSUME Init PROVE RecentInv
BY DEF Init, CoreInit, BootSnapshot, NoFix, RecentInv, UnchangedMeansCurrent

(* The emitter moves on from at and pc to a later at' and a pc' whose      *)
(* slack takes it in; the core solves nothing.                             *)
LEMMA RecentMove ==
  ASSUME CadenceOutlasts, BaseInv, RecentInv, UNCHANGED <<ran, lastSolve>>,
         snapshot' = snapshot \/ snapshot'.fix.basis = {},
         UnchangedMeansCurrent', emitter'.at \in Int, emitter.at <= emitter'.at,
         emitter'.at - emitter.at <= Slack(emitter'.pc) - Slack(emitter.pc),
         Slack(emitter.pc) \in Nat, Slack(emitter'.pc) \in Nat
  PROVE  RecentInv'
<1>1. emitter.at \in Int /\ lastSolve \in Int /\ SolveInterval \in Int
  BY TimeTypes, RecentTypes, CoreAssumption
<1>2. ran' => lastSolve' <= emitter'.at
  BY <1>1 DEF RecentInv
<1>3. ASSUME NEW ev \in snapshot'.fix.basis
      PROVE  /\ ev.peer \in Node /\ ev.rngTs \in Int /\ ran'
             /\ lastSolve' - ev.rngTs <= RangeTtl
             /\ emitter'.at - lastSolve' <= SolveInterval - 1 + Slack(emitter'.pc)
  <2>1. ev \in snapshot.fix.basis
    BY <1>3
  <2>2. emitter.at - lastSolve <= SolveInterval - 1 + Slack(emitter.pc)
    BY <2>1 DEF RecentInv
  <2>3. emitter'.at - lastSolve <= SolveInterval - 1 + Slack(emitter'.pc)
    BY <1>1, <2>2
  <2> QED BY <2>1, <2>3 DEF RecentInv
<1> QED BY <1>2, <1>3 DEF RecentInv

LEMMA SlackType == ASSUME ClockOutlasts PROVE \A pc : Slack(pc) \in Nat
BY TimeParameters DEF Slack

LEMMA RecentEvent ==
  ASSUME CadenceOutlasts, BaseInv, RecentInv, NEW t, EventOut(t), emitter'.at = emitter.at,
         Slack(emitter'.pc) = Slack(emitter.pc)
  PROVE  RecentInv'
<1>1. snapshot' = snapshot \/ snapshot'.fix.basis = {}
  BY PublishGnssType DEF EventOut
<1>2. UnchangedMeansCurrent'
  BY <1>1 DEF EventOut, RecentInv, UnchangedMeansCurrent
<1>3. emitter.at \in Int /\ Slack(emitter.pc) \in Nat
  BY TimeTypes, SlackType, CadenceParameters
<1> QED BY <1>1, <1>2, <1>3, RecentMove DEF EventOut

(* A table entry keeps its evidence through a tick.                        *)
LEMMA EvidenceKept ==
  ASSUME NEW e \in Entry, NEW t \in Int, NEW d, Alike(d, MarkStale(e, t)), NEW p
  PROVE  Evidence(p, d) = Evidence(p, e) /\ Evidence(p, MarkStale(e, t)) = Evidence(p, e)
BY MarkStaleFacts DEF Evidence, Alike

LEMMA RecentTick ==
  ASSUME CadenceOutlasts, BaseInv, TimeInv, RecentInv, EmitterTick
  PROVE  RecentInv'
<1> DEFINE t == emitter.at
<1>1. /\ emitter.pc = "locked" /\ Tick(t)
      /\ emitter'.pc = "sleeping" /\ emitter'.at = clock
  BY DEF EmitterTick
<1>2. /\ t \in Int /\ clock \in Int /\ lastSolve \in Int /\ local \in Node
      /\ \A p \in Node : peer[p] \in Entry
  BY TimeTypes, RecentTypes
<1>3. TickOut(t)
  BY <1>1, <1>2, TickCases DEF BaseInv
<1>4. /\ SolveInterval \in Nat \ {0} /\ MaxLag \in Nat /\ TickGap \in Nat /\ ClockMod \in Nat
      /\ SolveInterval + TickGap <= ClockMod /\ RangeTtl \in Nat
      /\ Slack("sleeping") = MaxLag /\ Slack("locked") = TickGap /\ Late("locked") = MaxLag
  BY CadenceParameters, TimeParameters
<1>5. t <= clock /\ clock - t <= MaxLag
  BY <1>1, <1>2, <1>4 DEF TimeInv
<1>6. \A p \in Node : /\ Evidence(p, peer'[p]) = Evidence(p, peer[p])
                      /\ Evidence(p, MarkStale(peer[p], t)) = Evidence(p, peer[p])
  BY <1>2, <1>3, EvidenceKept DEF TickOut
<1>7. ran' => lastSolve' <= clock
  <2>1. CASE UNCHANGED <<ran, lastSolve>>
    BY <1>2, <1>5, <2>1 DEF RecentInv
  <2>2. CASE lastSolve' = t
    BY <1>5, <2>2
  <2> QED BY <1>3, <2>1, <2>2 DEF TickOut
<1>8. ASSUME snapshot'.fix.basis = {} PROVE RecentInv'
  BY <1>1, <1>7, <1>8 DEF RecentInv, UnchangedMeansCurrent
<1>9. CASE OutPublished
  BY <1>8, <1>9, PublishGnssType DEF OutPublished
<1>10. CASE OutRejected(t)
  BY <1>8, <1>10 DEF OutRejected, NoFix
<1>11. ASSUME NEW p \in Node
       PROVE  Evidence(p, peer[p]).peer = p /\ Evidence(p, peer[p]).rngTs = peer[p].rngTs
              /\ peer[p].rngTs \in Int
  BY TimeTypes DEF Evidence
(* The evidence of every basis from which the due tick walks away.         *)
<1>12. ASSUME ran' = TRUE, lastSolve' = t,
              \A ev \in snapshot'.fix.basis :
                \E p \in Node : ev = Evidence(p, peer[p]) /\ t - peer[p].rngTs <= RangeTtl
       PROVE  RecentInv'
  <2>1. ASSUME NEW ev \in snapshot'.fix.basis
        PROVE  /\ ev.peer \in Node /\ ev.rngTs \in Int
               /\ t - ev.rngTs <= RangeTtl
               /\ ev = Evidence(ev.peer, peer'[ev.peer])
    <3>1. PICK p \in Node : ev = Evidence(p, peer[p]) /\ t - peer[p].rngTs <= RangeTtl
      BY <1>12
    <3> QED BY <1>6, <1>11, <3>1
  <2>2. clock - t <= SolveInterval - 1 + MaxLag
    BY <1>2, <1>4, <1>5
  <2> QED BY <1>1, <1>4, <1>7, <1>12, <2>1, <2>2 DEF RecentInv, UnchangedMeansCurrent
<1>13. CASE OutSolved(t)
  <2>1. PICK S : /\ Chosen(t, S)
                 /\ snapshot'.fix = RadioFix(t, {Evidence(p, MarkStale(peer[p], t)) : p \in S})
    BY <1>13 DEF OutSolved
  <2>2. snapshot'.fix.basis = {Evidence(p, MarkStale(peer[p], t)) : p \in S} /\ S \subseteq Node
    BY <2>1 DEF RadioFix, Chosen
  <2>3. ASSUME NEW p \in S PROVE t - peer[p].rngTs <= RangeTtl
    BY <1>1, <1>4, <2>1, ChosenTimely, CadenceParameters
  <2> QED BY <1>6, <1>12, <1>13, <2>2, <2>3 DEF OutSolved
<1>14. CASE UNCHANGED <<snapshot, dirty>> /\ ~dirty /\ ran' = TRUE /\ lastSolve' = t
            /\ \E S : Chosen(t, S) /\ Cardinality(S) = AnchorCount
  <2>1. PICK S : Chosen(t, S) /\ Cardinality(S) = AnchorCount
    BY <1>14
  <2>2. S = Node \ {local}
    BY <1>2, <2>1, FullSelection DEF Chosen
  <2>3. ASSUME NEW ev \in snapshot'.fix.basis
        PROVE  \E p \in Node : ev = Evidence(p, peer[p]) /\ t - peer[p].rngTs <= RangeTtl
    <3>1. ev.peer \in Node /\ ev = Evidence(ev.peer, peer[ev.peer])
      BY <1>14 DEF RecentInv, UnchangedMeansCurrent
    <3>2. ev.peer # local
      BY <1>14 DEF BaseInv, EstimatedNeverAnchors
    <3>3. t - peer[ev.peer].rngTs <= RangeTtl
      BY <1>1, <1>4, <2>1, <2>2, <3>1, <3>2, ChosenTimely, CadenceParameters
    <3> QED BY <3>1, <3>3
  <2> QED BY <1>12, <1>14, <2>3
<1>15. CASE UNCHANGED <<snapshot, dirty, ran, lastSolve>> /\ ~Due(t)
  <2>1. UnchangedMeansCurrent'
    <3>1. ASSUME ~dirty, NEW ev \in snapshot.fix.basis
          PROVE  ev = Evidence(ev.peer, peer'[ev.peer])
      BY <1>6, <3>1 DEF RecentInv, UnchangedMeansCurrent
    <3> QED BY <1>15, <3>1 DEF UnchangedMeansCurrent
  <2>2. AgeAt(t, lastSolve) < SolveInterval /\ ran
    <3>1. AgeAt(t, lastSolve) \in Int
      BY <1>2, ClockAssumption DEF AgeAt
    <3> QED BY <1>4, <1>15, <3>1 DEF Due
  <2>3. ASSUME NEW ev \in snapshot.fix.basis
        PROVE  clock - lastSolve <= SolveInterval - 1 + MaxLag
    <3>1. lastSolve <= t /\ t - lastSolve <= SolveInterval - 1 + TickGap
      BY <1>1, <1>4, <2>2, <2>3 DEF RecentInv
    <3>2. t - lastSolve \in 0 .. ClockMod - 1
      BY <1>2, <1>4, <3>1
    <3>3. t - lastSolve < SolveInterval
      BY <1>2, <2>2, <3>2, TrueAge
    <3> QED BY <1>2, <1>4, <1>5, <3>3
  <2> QED BY <1>1, <1>4, <1>7, <1>15, <2>1, <2>3 DEF RecentInv
<1> QED BY <1>3, <1>9, <1>10, <1>13, <1>14, <1>15 DEF TickOut, OutKept

LEMMA RecentFrame ==
  ASSUME RecentInv, UNCHANGED <<peer, dirty, ran, lastSolve, snapshot, emitter>>
  PROVE  RecentInv'
BY DEF RecentInv, UnchangedMeansCurrent

LEMMA RecentReader == ASSUME RecentInv, ReaderApply PROVE RecentInv'
<1>1. UNCHANGED emitter
  BY DEF ReaderApply
<1>2. \/ UNCHANGED <<peer, dirty, ran, lastSolve, snapshot>>
      \/ dirty' = TRUE /\ UNCHANGED <<ran, lastSolve, snapshot>>
      \/ ran' = FALSE /\ snapshot' = BootSnapshot
  BY DEF ReaderApply, SetGps, SetMock, SetAltitude, SetNodeId, SetDebug, coreVars
<1>3. CASE dirty' = TRUE /\ UNCHANGED <<ran, lastSolve, snapshot>>
  BY <1>1, <1>3 DEF RecentInv, UnchangedMeansCurrent
<1>4. CASE ran' = FALSE /\ snapshot' = BootSnapshot
  BY <1>4 DEF BootSnapshot, NoFix, RecentInv, UnchangedMeansCurrent
<1> QED BY <1>1, <1>2, <1>3, <1>4, RecentFrame

LEMMA RecentLock ==
  ASSUME CadenceOutlasts, BaseInv, RecentInv, EmitterReadClock \/ EmitterLock \/ EmitterMock,
         TimeInv
  PROVE  RecentInv'
<1>1. ClockOutlasts /\ emitter.at \in Int /\ clock \in Int
  BY TimeTypes, CadenceParameters
<1>2. Slack("stamped") = TickGap /\ Slack("locked") = TickGap /\ Slack("sleeping") = MaxLag
      /\ TickGap = EmitterPeriod + 2 * MaxLag /\ EmitterPeriod \in Nat /\ MaxLag \in Nat
      /\ Late("sleeping") = EmitterPeriod + MaxLag
  BY <1>1, TimeParameters
<1>3. CASE EmitterReadClock
  <2>1. /\ emitter.pc = "sleeping" /\ emitter'.pc = "stamped" /\ emitter'.at = clock
        /\ UNCHANGED <<peer, dirty, ran, lastSolve, snapshot>>
    BY <1>3 DEF EmitterReadClock, coreVars
  <2>2. emitter.at <= clock /\ clock - emitter.at <= EmitterPeriod + MaxLag
    BY <1>1, <1>2, <2>1 DEF TimeInv
  <2>3. UnchangedMeansCurrent'
    BY <2>1 DEF RecentInv, UnchangedMeansCurrent
  <2>4. clock - emitter.at <= Slack("stamped") - Slack("sleeping")
    BY <1>1, <1>2, <2>2
  <2> QED BY <1>1, <2>1, <2>2, <2>3, <2>4, RecentMove, SlackType
<1>4. CASE EmitterLock
  BY <1>2, <1>4, LockOut, RecentEvent
<1>5. CASE EmitterMock
  BY <1>5, MockOut, RecentEvent
<1> QED BY <1>3, <1>4, <1>5

LEMMA RecentInject ==
  ASSUME CadenceOutlasts, BaseInv, RecentInv, NEW k \in Task, Inject(k)
  PROVE  RecentInv'
<1>1. CASE EventOut(pending[k].at)
  BY <1>1, InjectOut, RecentEvent
<1>2. CASE UNCHANGED coreVars
  BY <1>2, InjectOut, RecentFrame DEF coreVars
<1> QED BY <1>1, <1>2, InjectOut

LEMMA RecentNext == ASSUME CadenceOutlasts, Invs, [Next]_vars PROVE RecentInv'
<1>1. CASE UNCHANGED vars
  BY <1>1, RecentFrame DEF Invs, vars, coreVars, channelVars
<1>2. CASE ClockStep \/ ClockLap
  BY <1>2, RecentFrame DEF Invs, ClockStep, ClockLap, coreVars
<1>3. CASE Stamp("radio", RadioEvent) \/ Stamp("gps", GpsEvent)
  BY <1>3, RecentFrame DEF Invs, Stamp, coreVars
<1>4. CASE \E k \in Task : Inject(k)
  BY <1>4, RecentInject DEF Invs
<1> QED BY <1>1, <1>2, <1>3, <1>4, RecentTick, RecentReader, RecentLock DEF Next, Invs

LEMMA RecentSuffices == ASSUME CadenceOutlasts, Invs PROVE BeaconRecent
<1> SUFFICES ASSUME NEW ev \in snapshot.fix.basis
             PROVE  clock - ev.rngTs < RangeTtl + SolveInterval + TickGap + MaxLag
  BY DEF BeaconRecent
<1>1. /\ ev.rngTs \in Int /\ lastSolve - ev.rngTs <= RangeTtl
      /\ emitter.at - lastSolve <= SolveInterval - 1 + Slack(emitter.pc)
  BY DEF Invs, RecentInv
<1>2. lastSolve \in Int /\ clock \in Int /\ emitter.at \in Int
      /\ emitter.pc \in {"sleeping", "stamped", "locked"}
  BY TimeTypes, RecentTypes DEF Invs
<1>3. /\ MaxLag \in Nat /\ RangeTtl \in Nat /\ TickGap \in Nat /\ SolveInterval \in Nat
      /\ Late(emitter.pc) \in Nat /\ Slack(emitter.pc) \in Nat
      /\ Late(emitter.pc) + Slack(emitter.pc) <= TickGap + MaxLag
  BY <1>2, TimeParameters, CadenceParameters
<1>4. clock - emitter.at <= Late(emitter.pc)
  BY <1>2, <1>3 DEF Invs, TimeInv
<1> QED BY <1>1, <1>2, <1>3, <1>4

(* However late the emitter is and whatever the operator does, a beacon    *)
(* never carries a radio position that rests on ranges older than their    *)
(* time to live, the cadence and the gap between two ticks.                *)
THEOREM BeaconNeverOld == ASSUME CadenceOutlasts PROVE Spec => []BeaconRecent
<1>1. ClockOutlasts
  BY CadenceParameters
<1>2. Init => TimeInv /\ RecentInv
  BY <1>1, TimeInit, RecentInit
<1>3. BaseInv /\ (TimeInv /\ RecentInv) /\ [Next]_vars => (TimeInv /\ RecentInv)'
  BY <1>1, TimeNext, RecentNext DEF Invs
<1>4. BaseInv /\ (TimeInv /\ RecentInv) => BeaconRecent
  BY RecentSuffices DEF Invs
<1> QED BY BaseInductive, <1>2, <1>3, <1>4, PTL DEF Spec
=============================================================================
