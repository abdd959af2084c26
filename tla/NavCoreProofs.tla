--------------------------- MODULE NavCoreProofs ----------------------------
(***************************************************************************)
(* Theorems about the core under the sequential driver of NavHost, for     *)
(* every number of nodes, every time to live and every length of a run.    *)
(***************************************************************************)
EXTENDS NavHost, NavCoreLemmas, TLAPS

-----------------------------------------------------------------------------
(* The inductive invariant.                                                *)

(* What every entry satisfies at the time the core has reached: a range    *)
(* never predates the position it locked, and validity implies freshness   *)
(* because every advance of time goes through a tick.                      *)
EntryOK(e, t) ==
  /\ e.gnss => e.present /\ e.pos \in GnssValid
  /\ e.rposValid => e.rpos \in GnssValid
  /\ 0 <= e.telTs /\ e.telTs <= t
  /\ 0 <= e.rposTs /\ e.rposTs <= e.rngTs /\ e.rngTs <= t
  /\ e.gnss /\ TelemetryTtl > 0 => t - e.telTs <= TelemetryTtl
  /\ e.rposValid /\ TelemetryTtl > 0 => e.rngTs - e.rposTs <= TelemetryTtl

TabOK(tab, t) == tab \in [Node -> Entry] /\ \A p \in Node : EntryOK(tab[p], t)

(* What every piece of evidence of a fix computed at time at satisfies.    *)
EvidenceOK(ev, at) ==
  /\ ev.peer \in Node \ {local}
  /\ ev.pos \in {"gnss", "gnss2d"}
  /\ ev.rngTs \in Int /\ ev.posTs \in Int
  /\ ev.posTs <= ev.rngTs /\ ev.rngTs <= at
  /\ RangeTtl > 0 => at - ev.rngTs <= RangeTtl
  /\ RangeTtl > 0 /\ TelemetryTtl > 0 => at - ev.posTs <= TelemetryTtl + RangeTtl

FixOK(fix) == fix.at \in Int /\ \A ev \in fix.basis : EvidenceOK(ev, fix.at)

LEMMA EmptyEntryOK ==
  ASSUME NEW t \in Nat
  PROVE  EntryOK(EmptyEntry, t)
BY TtlAssumption DEF EntryOK, EmptyEntry

LEMMA UpdateTelemetryOK ==
  ASSUME NEW t \in Nat, NEW e \in Entry, EntryOK(e, t), NEW kind \in PosKind
  PROVE  EntryOK(UpdateTelemetry(e, kind, t), t)
<1> DEFINE n == UpdateTelemetry(e, kind, t)
<1>1. /\ n.present /\ n.telTs = t /\ n.pos = kind /\ (n.gnss <=> kind \in GnssValid)
      /\ n.rposTs = e.rposTs /\ n.rngTs = e.rngTs /\ n.rposValid = e.rposValid /\ n.rpos = e.rpos
  BY DEF UpdateTelemetry, Entry
<1> HIDE DEF n
<1>2. EntryOK(n, t)
  BY <1>1, TtlAssumption DEF EntryOK, Entry
<1> QED BY <1>2 DEF n

LEMMA UpdateRangeOK ==
  ASSUME NEW t \in Nat, NEW e \in Entry, EntryOK(e, t),
         NEW valid \in BOOLEAN, NEW class \in RangeClass
  PROVE  EntryOK(UpdateRange(e, valid, class, t), t)
<1> DEFINE n == UpdateRange(e, valid, class, t)
<1>1. /\ n.present /\ n.rngTs = t /\ n.rpos = e.pos /\ n.rposTs = e.telTs
      /\ (n.rposValid <=> valid /\ e.gnss)
      /\ n.telTs = e.telTs /\ n.pos = e.pos /\ n.gnss = e.gnss
  BY DEF UpdateRange, Entry
<1> HIDE DEF n
<1>2. EntryOK(n, t)
  BY <1>1, TtlAssumption DEF EntryOK, Entry
<1> QED BY <1>2 DEF n

(* A tick at a later time restores freshness, as no age has wrapped yet.   *)
LEMMA MarkStaleOK ==
  ASSUME NEW s \in Nat, NEW t \in Nat, s <= t, t < ClockMod, NEW e \in Entry, EntryOK(e, s)
  PROVE  EntryOK(MarkStale(e, t), t)
<1> DEFINE n == MarkStale(e, t)
<1>1. /\ n \in Entry /\ n.telTs = e.telTs /\ n.rngTs = e.rngTs /\ n.rposTs = e.rposTs
      /\ n.rpos = e.rpos /\ n.present = e.present
      /\ n.gnss => e.gnss /\ ~(e.present /\ Expired(t, e.telTs, TelemetryTtl))
      /\ n.rposValid => e.rposValid
  BY MarkStaleFacts
<1>2. n.pos = e.pos
  BY DEF MarkStale, MarkStaleTelemetry, MarkStaleRange, Entry
<1> HIDE DEF n
<1>3. n.gnss /\ TelemetryTtl > 0 => t - e.telTs <= TelemetryTtl
  <2>1. t - e.telTs \in 0 .. ClockMod - 1
    BY ClockAssumption DEF EntryOK, Entry
  <2>2. AgeAt(t, e.telTs) = t - e.telTs
    BY <2>1, ClockAssumption DEF AgeAt
  <2> QED BY <1>1, <2>2, TtlAssumption DEF Expired, EntryOK, Entry
<1>4. EntryOK(n, t)
  BY <1>1, <1>2, <1>3, TtlAssumption DEF EntryOK, Entry
<1> QED BY <1>4 DEF n

(* Diagnosing rewrites only the reason for which an entry was passed over. *)
LEMMA DiagnosedFacts ==
  ASSUME NEW tab \in [Node -> Entry], NEW t
  PROVE  /\ Diagnosed(tab, t) \in [Node -> Entry]
         /\ \A p \in Node : /\ Evidence(p, Diagnosed(tab, t)[p]) = Evidence(p, tab[p])
                            /\ \A s : EntryOK(tab[p], s) => EntryOK(Diagnosed(tab, t)[p], s)
<1> SUFFICES ASSUME NEW p \in Node
             PROVE  /\ Diagnosed(tab, t)[p] \in Entry
                    /\ Evidence(p, Diagnosed(tab, t)[p]) = Evidence(p, tab[p])
                    /\ \A s : EntryOK(tab[p], s) => EntryOK(Diagnosed(tab, t)[p], s)
  BY DEF Diagnosed
<1> DEFINE why == IF p = local THEN "NONE" ELSE AnchorReject(tab[p], t)
           d == [tab[p] EXCEPT !.reject = why]
<1>1. why \in TableReject
  BY AnchorRejectType DEF TableReject
<1>2. Diagnosed(tab, t)[p] = d \/ Diagnosed(tab, t)[p] = tab[p]
  BY DEF Diagnosed
<1> HIDE DEF why
<1>3. d \in Entry /\ Evidence(p, d) = Evidence(p, tab[p])
  BY <1>1 DEF Entry, Evidence
<1>4. \A s : EntryOK(tab[p], s) => EntryOK(d, s)
  BY <1>1 DEF Entry, EntryOK
<1> QED BY <1>2, <1>3, <1>4

(* What a selected anchor contributes is evidence fit for a solve at t.    *)
LEMMA SolveEvidence ==
  ASSUME NEW t \in Nat, t < ClockMod, NEW tab, TabOK(tab, t),
         NEW S \in BestAnchors(tab, t), NEW p \in S
  PROVE  EvidenceOK(Evidence(p, tab[p]), t)
<1> DEFINE e == tab[p]
<1>1. p \in Node \ {local} /\ Eligible(e, t)
  BY DEF BestAnchors, Candidates
<1>2. e \in Entry /\ EntryOK(e, t)
  BY <1>1 DEF TabOK
<1> HIDE DEF e
<1>3. e.rposValid /\ e.rpos \in Located /\ ~Expired(t, e.rngTs, RangeTtl) /\ e.gnss
  BY <1>1, Zenon DEF Eligible, AnchorReject
<1>4. e.rpos \in {"gnss", "gnss2d"}
  BY <1>2, <1>3 DEF EntryOK, Located, GnssValid
<1>5. RangeTtl > 0 => t - e.rngTs <= RangeTtl
  <2>1. CASE t - e.rngTs \in 0 .. ClockMod - 1
    <3>1. AgeAt(t, e.rngTs) = t - e.rngTs
      BY <2>1, ClockAssumption DEF AgeAt
    <3> QED BY <1>2, <1>3, <3>1, TtlAssumption DEF Expired, Entry
  <2>2. CASE t - e.rngTs \notin 0 .. ClockMod - 1
    BY <1>2, <2>2, ClockAssumption DEF EntryOK, Entry
  <2> QED BY <2>1, <2>2
<1>6. EvidenceOK([peer |-> p, pos |-> e.rpos, posTs |-> e.rposTs, rngTs |-> e.rngTs], t)
  BY <1>1, <1>2, <1>3, <1>4, <1>5, TtlAssumption DEF EvidenceOK, EntryOK, Entry
<1> QED BY <1>6 DEF Evidence, e

-----------------------------------------------------------------------------
(* What an event does: it moves no solve state; when it leaves the inputs  *)
(* unchanged, it leaves the table and the denial alone; it publishes GNSS  *)
(* or nothing.                                                             *)
EventFrame(t) ==
  /\ local' = local /\ ran' = ran /\ lastSolve' = lastSolve
  /\ denied' \in BOOLEAN /\ dirty' \in BOOLEAN
  /\ gnss' \in [present : BOOLEAN, usable : BOOLEAN, ts : Int]
  /\ altitude' \in [present : BOOLEAN, valid : BOOLEAN, ts : Int, alt : AltitudeValue \cup {0}]
  /\ TabOK(peer', t)
  /\ dirty => dirty'
  /\ ~dirty' => peer' = peer /\ denied' = denied
  /\ snapshot' = snapshot \/ (PublishGnss(gnss') /\ ~denied')

LEMMA EventEffect ==
  ASSUME NEW t \in Nat, CoreTypeOK, TabOK(peer, t), Event(t)
  PROVE  EventFrame(t)
<1> USE HostAssumption
<1>1. ASSUME NEW usable \in BOOLEAN, LocalGnssSample(t, usable)
      PROVE  EventFrame(t)
  <2>1. /\ dirty' \in BOOLEAN /\ (dirty => dirty')
    BY <1>1 DEF LocalGnssSample
  <2> QED BY <1>1, <2>1 DEF LocalGnssSample, CoreTypeOK, RefreshAfterEvent, GnssPublishable,
                            EventFrame
<1>2. ASSUME NEW valid \in BOOLEAN, NEW alt \in AltitudeValue, LocalAltitudeSample(t, valid, alt)
      PROVE  EventFrame(t)
  <2>1. /\ dirty' \in BOOLEAN /\ (dirty => dirty')
    BY <1>2 DEF LocalAltitudeSample
  <2>2. altitude' = [present |-> TRUE, valid |-> valid, ts |-> t, alt |-> alt]
    BY <1>2 DEF LocalAltitudeSample
  <2> QED BY <1>2, <2>1, <2>2 DEF LocalAltitudeSample, CoreTypeOK, RefreshAfterEvent,
                                  GnssPublishable, EventFrame
<1>3. ASSUME NEW p \in Node, NEW e \in Entry, EntryOK(e, t),
             peer' = [peer EXCEPT ![p] = e], dirty' = TRUE,
             UNCHANGED <<local, denied, gnss, altitude>>, RefreshAfterEvent
      PROVE  EventFrame(t)
  <2>1. TabOK(peer', t)
    BY <1>3 DEF TabOK
  <2> QED BY <1>3, <2>1 DEF CoreTypeOK, RefreshAfterEvent, GnssPublishable, EventFrame
<1>4. ASSUME NEW p \in Heard, NEW kind \in TelemetryKind, PeerTelemetryRx(t, p, kind)
      PROVE  EventFrame(t)
  <2>1. p \in Node /\ kind \in PosKind /\ peer[p] \in Entry /\ EntryOK(peer[p], t)
    BY DEF TabOK
  <2>2. UpdateTelemetry(peer[p], kind, t) \in Entry /\ EntryOK(UpdateTelemetry(peer[p], kind, t), t)
    BY <2>1, UpdateTelemetryType, UpdateTelemetryOK
  <2> QED BY <1>3, <1>4, <2>1, <2>2 DEF PeerTelemetryRx
<1>5. ASSUME NEW p \in Heard, NEW valid \in BOOLEAN, NEW class \in RangeClass,
             peer' = [peer EXCEPT ![p] = UpdateRange(@, valid, class, t)], dirty' = TRUE,
             UNCHANGED <<local, denied, gnss, altitude>>, RefreshAfterEvent
      PROVE  EventFrame(t)
  <2>1. p \in Node /\ peer[p] \in Entry /\ EntryOK(peer[p], t)
    BY DEF TabOK
  <2>2. UpdateRange(peer[p], valid, class, t) \in Entry
        /\ EntryOK(UpdateRange(peer[p], valid, class, t), t)
    BY <2>1, UpdateRangeType, UpdateRangeOK
  <2> QED BY <1>3, <1>5, <2>1, <2>2
<1>6. ASSUME NEW p \in Heard, NEW class \in ValidRange, RangeResult(t, p, TRUE, class)
      PROVE  EventFrame(t)
  BY <1>5, <1>6 DEF RangeResult
<1>7. ASSUME NEW p \in Heard, RangeResult(t, p, FALSE, "none")
      PROVE  EventFrame(t)
  BY <1>5, <1>7 DEF RangeResult, RangeClass
<1>8. ASSUME NEW p \in Heard, RangeFail(t, p)
      PROVE  EventFrame(t)
  <2>1. CASE RetainRange
    BY <1>8, <2>1 DEF RangeFail, CoreTypeOK, RefreshAfterEvent, GnssPublishable, EventFrame
  <2>2. CASE ~RetainRange
    BY <1>5, <1>8, <2>2 DEF RangeFail, RangeClass
  <2> QED BY <2>1, <2>2
<1>9. ASSUME NEW on \in Commanded, ConfigCommand(on)
      PROVE  EventFrame(t)
  BY <1>9 DEF ConfigCommand, CoreTypeOK, RefreshAfterEvent, GnssPublishable, EventFrame
<1> QED BY <1>1, <1>2, <1>4, <1>6, <1>7, <1>8, <1>9 DEF Event

-----------------------------------------------------------------------------
(* What a tick does: besides the table, where it withdraws validity only,  *)
(* it takes exactly one of five ways out.                                  *)
SolveBegun(t) == Due(t) /\ ran' = TRUE /\ lastSolve' = t

(* A selection all of whose members are eligible at t.                     *)
Selected(t, S) ==
  /\ S \in SUBSET (Node \ {local})
  /\ \A p \in S : EvidenceOK(Evidence(p, peer[p]), t)

TickPublishes == PublishGnss(gnss) /\ ~denied /\ UNCHANGED <<dirty, ran, lastSolve>>

TickWaits(t) == ~Due(t) /\ UNCHANGED <<dirty, ran, lastSolve, snapshot>>

TickRejects(t) ==
  /\ SolveBegun(t) /\ dirty' \in {dirty, FALSE} /\ SnapshotOK(snapshot')
  /\ snapshot'.mode = "NO_NAV_SOLUTION" /\ snapshot'.source = "NONE"
  /\ snapshot'.fix = NoFix

TickKeeps(t) ==
  /\ SolveBegun(t) /\ UNCHANGED <<dirty, snapshot>>
  /\ ~dirty /\ ResolvedAltitude(t) # "none"
  /\ \E S : Selected(t, S) /\ Cardinality(S) = AnchorCount

TickSolves(t) ==
  /\ SolveBegun(t) /\ dirty' = FALSE /\ SnapshotOK(snapshot')
  /\ snapshot'.mode # "GNSS_OK"
  /\ snapshot'.alt = ResolvedAltitude(t)
  /\ ~GnssPublishable(gnss, denied)
  /\ \E S : /\ Selected(t, S) /\ Cardinality(S) = AnchorCount
          /\ snapshot'.fix = RadioFix(t, {Evidence(p, peer[p]) : p \in S})

TickFrame(t) ==
  /\ UNCHANGED <<local, denied, gnss, altitude>>
  /\ TabOK(peer', t)
  /\ \A p \in Node : Evidence(p, peer'[p]) = Evidence(p, peer[p])
  /\ TickPublishes \/ TickWaits(t) \/ TickRejects(t) \/ TickKeeps(t) \/ TickSolves(t)

LEMMA TickEffect ==
  ASSUME NEW s \in Nat, NEW t \in Nat, s <= t, t < ClockMod,
         CoreTypeOK, TabOK(peer, s), Tick(t)
  PROVE  TickFrame(t)
<1> DEFINE tab == [p \in Node |-> MarkStale(peer[p], t)]
<1>1. /\ TabOK(tab, t)
      /\ \A p \in Node : Evidence(p, tab[p]) = Evidence(p, peer[p])
  <2> SUFFICES ASSUME NEW p \in Node
               PROVE  /\ MarkStale(peer[p], t) \in Entry
                      /\ EntryOK(MarkStale(peer[p], t), t)
                      /\ Evidence(p, MarkStale(peer[p], t)) = Evidence(p, peer[p])
    BY DEF TabOK
  <2>1. peer[p] \in Entry /\ EntryOK(peer[p], s)
    BY DEF TabOK
  <2> QED BY <2>1, MarkStaleFacts, MarkStaleOK DEF Evidence
<1>2. /\ UNCHANGED <<local, denied, gnss, altitude>>
      /\ \/ /\ GnssPublishable(gnss, denied) /\ PublishGnss(gnss) /\ peer' = tab
            /\ UNCHANGED <<dirty, ran, lastSolve>>
         \/ ~GnssPublishable(gnss, denied) /\ AttemptRadioSolution(tab, t)
  BY DEF Tick
<1> HIDE DEF tab
<1>3. /\ TabOK(Diagnosed(tab, t), t)
      /\ \A p \in Node : Evidence(p, Diagnosed(tab, t)[p]) = Evidence(p, peer[p])
  BY <1>1, DiagnosedFacts DEF TabOK
<1>4. ASSUME NEW S \in BestAnchors(tab, t)
      PROVE  Selected(t, S) /\ S \in SUBSET Node
  <2>1. S \in SUBSET (Node \ {local})
    BY DEF BestAnchors, Candidates
  <2>2. \A p \in S : EvidenceOK(Evidence(p, tab[p]), t)
    BY <1>1, SolveEvidence
  <2> QED BY <1>1, <2>1, <2>2 DEF Selected
<1>5. ResolvedAltitude(t) \in AltSource
  BY DEF ResolvedAltitude, AltSource
<1>6. CASE GnssPublishable(gnss, denied) /\ PublishGnss(gnss) /\ peer' = tab
           /\ UNCHANGED <<dirty, ran, lastSolve>>
  BY <1>1, <1>2, <1>6 DEF TickFrame, TickPublishes, GnssPublishable
<1>7. CASE SkipCadence(tab, t)
  BY <1>1, <1>2, <1>7 DEF TickFrame, TickWaits, SkipCadence
<1>8. ASSUME BeginAttempt(tab, t)
      PROVE  /\ TabOK(peer', t)
             /\ \A p \in Node : Evidence(p, peer'[p]) = Evidence(p, peer[p])
             /\ SolveBegun(t)
  BY <1>3, <1>8 DEF BeginAttempt, SolveBegun
<1>9. ASSUME NEW S \in BestAnchors(tab, t), NEW alt \in AltSource, NEW reason \in SolveReject,
             BeginAttempt(tab, t), snapshot' = Rejected(reason, S, alt), dirty' \in {dirty, FALSE}
      PROVE  TickFrame(t)
  BY <1>2, <1>4, <1>8, <1>9, RejectedFacts DEF TickFrame, TickRejects
<1>10. CASE RejectSelection(tab, t)
  BY <1>9, <1>10 DEF RejectSelection, SolveReject, AltSource
<1>11. CASE RejectAltitude(tab, t)
  BY <1>9, <1>11 DEF RejectAltitude, SolveReject, AltSource
<1>12. ASSUME ~GnssPublishable(gnss, denied),
              NEW S \in BestAnchors(tab, t), NEW geometry \in Geometry, NEW verdict \in Verdict,
              SolveFor(tab, t, S, geometry, verdict)
       PROVE  TickFrame(t)
  <2> DEFINE alt == ResolvedAltitude(t)
             basis == {Evidence(p, tab[p]) : p \in S}
  <2>1. /\ BeginAttempt(tab, t) /\ Cardinality(S) = AnchorCount /\ alt # "none"
        /\ \/ snapshot' = Rejected("BAD_GEOMETRY", S, alt) /\ dirty' = dirty
           \/ ~dirty /\ snapshot' = snapshot /\ dirty' = dirty
           \/ /\ dirty' = FALSE
              /\ snapshot' = IF verdict = "failed" THEN Rejected("TRILATERATION_FAILED", S, alt)
                             ELSE Solved(verdict, RadioFix(t, basis), S, alt)
    BY <1>12, Zenon DEF SolveFor
  <2>2. alt \in AltSource
    BY <1>5
  <2>3. basis = {Evidence(p, peer[p]) : p \in S}
    BY <1>1, <1>4
  <2> HIDE DEF alt, basis
  <2>4. CASE snapshot' = Rejected("BAD_GEOMETRY", S, alt) /\ dirty' = dirty
    BY <1>9, <2>1, <2>2, <2>4 DEF SolveReject
  <2>5. CASE ~dirty /\ snapshot' = snapshot /\ dirty' = dirty
    BY <1>2, <1>4, <1>8, <2>1, <2>5 DEF TickFrame, TickKeeps, alt
  <2>6. CASE dirty' = FALSE /\ verdict = "failed"
             /\ snapshot' = Rejected("TRILATERATION_FAILED", S, alt)
    BY <1>9, <2>1, <2>2, <2>6 DEF SolveReject
  <2>7. CASE /\ dirty' = FALSE /\ verdict # "failed"
             /\ snapshot' = Solved(verdict, RadioFix(t, basis), S, alt)
    <3>1. verdict \in {"outlier", "degraded", "ok"}
      BY <2>7 DEF Verdict
    <3>2. /\ SnapshotOK(snapshot') /\ snapshot'.mode # "GNSS_OK" /\ snapshot'.alt = alt
          /\ snapshot'.fix = RadioFix(t, basis)
      <4>1. RadioFix(t, basis).kind = "radio"
        BY DEF RadioFix
      <4> QED BY <1>4, <2>2, <2>7, <3>1, <4>1, SolvedFacts
    <3> QED BY <1>2, <1>4, <1>8, <1>12, <2>1, <2>3, <2>7, <3>2 DEF TickFrame, TickSolves, alt
  <2> QED BY <2>1, <2>4, <2>5, <2>6, <2>7
<1> QED BY <1>2, <1>6, <1>7, <1>10, <1>11, <1>12 DEF AttemptRadioSolution

-----------------------------------------------------------------------------
(* The inductive invariant: the properties together with what the table    *)
(* and the solve stamp owe to the time reached.                            *)

(* Before the first row nothing has been received and nothing published.   *)
Quiet ==
  /\ now = 0
  /\ \A p \in Node : ~peer[p].gnss /\ ~peer[p].rposValid /\ EntryOK(peer[p], 0)
  /\ snapshot.source = "NONE" /\ snapshot.fix = NoFix

(* A published radio solution was decided at the last solve, which is less *)
(* than an interval ago, from evidence that was fresh then.                *)
SolveRecent ==
  snapshot.source = "RADIO_3D" =>
    /\ ran /\ (lastSolve = now \/ now - lastSolve < SolveInterval)
    /\ RangeTtl > 0 => \A ev \in snapshot.fix.basis : lastSolve - ev.rngTs <= RangeTtl

IInv ==
  /\ TypeOK
  /\ TabOK(peer, now)
  /\ ~haveTime => Quiet
  /\ lastSolve \in 0 .. now
  /\ FixOK(snapshot.fix)
  /\ SolveRecent
  /\ UnchangedMeansCurrent
  /\ DeniedGnssTransient
  /\ RadioAltitudeIndependent

LEMMA PublishFacts ==
  ASSUME NEW g, g.ts \in Int, PublishGnss(g)
  PROVE  /\ SnapshotOK(snapshot') /\ snapshot'.source = "LOCAL_GNSS"
         /\ snapshot'.fix.basis = {} /\ snapshot'.fix.at \in Int
         /\ FixOK(snapshot'.fix)
<1>1. snapshot' = [mode |-> "GNSS_OK", status |-> "GNSS_DIRECT", source |-> "LOCAL_GNSS",
                   reject |-> "NONE", fix |-> [kind |-> "gnss", at |-> g.ts, basis |-> {}],
                   anchors |-> {}, alt |-> "gnss"]
  BY DEF PublishGnss, GnssFix
<1> QED BY <1>1 DEF SnapshotOK, Published, SolveReject, AltSource, FixOK

LEMMA InitInv == Init => IInv
<1> SUFFICES ASSUME Init PROVE IInv
  OBVIOUS
<1>1. PICK forcedDenied \in BOOLEAN : CoreInit(LocalNode, forcedDenied, FALSE)
  BY DEF Init
<1>2. TypeOK
  <2>1. SnapshotOK(snapshot)
    <3>1. snapshot = [mode |-> "BOOT", status |-> "NONE", source |-> "NONE", reject |-> "NONE",
                      fix |-> [kind |-> "none", at |-> 0, basis |-> {}], anchors |-> {},
                      alt |-> "none"]
      BY <1>1 DEF CoreInit, BootSnapshot, NoFix
    <3> QED BY <3>1 DEF SnapshotOK, Published, SolveReject, AltSource
  <2>2. /\ gnss \in [present : BOOLEAN, usable : BOOLEAN, ts : Int]
        /\ altitude \in [present : BOOLEAN, valid : BOOLEAN, ts : Int,
                         alt : AltitudeValue \cup {0}]
    BY <1>1 DEF CoreInit, NoGnss, NoAltitude
  <2>3. local \in Node /\ peer \in [Node -> Entry] /\ lastSolve \in Int
    BY <1>1, EmptyEntryType, HostAssumption DEF CoreInit, EmptyTable
  <2>4. denied \in BOOLEAN /\ dirty \in BOOLEAN /\ ran \in BOOLEAN /\ haveTime \in BOOLEAN
    BY <1>1, Zenon DEF CoreInit, Init
  <2>5. now \in 0 .. MaxTime
    BY HostAssumption DEF Init
  <2> QED BY <2>1, <2>2, <2>3, <2>4, <2>5 DEF TypeOK, CoreTypeOK
<1>3. TabOK(peer, 0) /\ \A p \in Node : ~peer[p].gnss /\ ~peer[p].rposValid
  BY <1>1, EmptyEntryType, EmptyEntryOK DEF CoreInit, EmptyTable, TabOK, EmptyEntry
<1>4. Quiet
  BY <1>1, <1>3 DEF Init, Quiet, TabOK, CoreInit, BootSnapshot
<1>5. snapshot.fix = NoFix /\ snapshot.source = "NONE" /\ snapshot.mode = "BOOT" /\ lastSolve = 0
  BY <1>1 DEF CoreInit, BootSnapshot
<1> QED
  BY <1>2, <1>3, <1>4, <1>5
  DEF Init, IInv, FixOK, NoFix, SolveRecent, UnchangedMeansCurrent, DeniedGnssTransient,
      RadioAltitudeIndependent

(* An event at the time reached.                                           *)
LEMMA EventInv ==
  ASSUME NEW t \in 0 .. MaxTime, IInv, now' = t, haveTime' = TRUE,
         TabOK(peer, t), now <= t,
         t = now \/ (snapshot.fix = NoFix /\ snapshot.source = "NONE"),
         Event(t)
  PROVE  IInv'
<1> USE HostAssumption
<1>1. EventFrame(t)
  BY EventEffect DEF IInv, TypeOK
<1>2. /\ SnapshotOK(snapshot') /\ FixOK(snapshot'.fix)
      /\ \/ snapshot' = snapshot
         \/ /\ ~denied' /\ snapshot'.source = "LOCAL_GNSS" /\ snapshot'.fix.basis = {}
  BY <1>1, PublishFacts DEF EventFrame, IInv, TypeOK, CoreTypeOK
<1>3. TypeOK'
  BY <1>1, <1>2 DEF EventFrame, IInv, TypeOK, CoreTypeOK, TabOK
<1>4. TabOK(peer, now)' /\ (lastSolve \in 0 .. now)'
  <2>1. TabOK(peer', now')
    BY <1>1 DEF EventFrame
  <2>2. lastSolve' \in 0 .. now'
    BY <1>1 DEF EventFrame, IInv, TypeOK
  <2> QED BY <2>1, <2>2 DEF TabOK, EntryOK
<1>5. FixOK(snapshot.fix)'
  BY <1>1, <1>2 DEF EventFrame, FixOK, EvidenceOK
<1>6. SolveRecent'
  BY <1>1, <1>2 DEF EventFrame, IInv, SolveRecent
<1>7. UnchangedMeansCurrent'
  BY <1>1, <1>2 DEF EventFrame, IInv, UnchangedMeansCurrent
<1>8. DeniedGnssTransient'
  BY <1>1, <1>2 DEF EventFrame, IInv, DeniedGnssTransient
<1>9. RadioAltitudeIndependent'
  BY <1>1, <1>2 DEF EventFrame, IInv, RadioAltitudeIndependent
<1> QED BY <1>3, <1>4, <1>5, <1>6, <1>7, <1>8, <1>9 DEF IInv

(* A tick at the time reached or a later one.                              *)
LEMMA TickInv ==
  ASSUME NEW t \in 0 .. MaxTime, IInv, now' = t, haveTime' = TRUE, now <= t, Tick(t)
  PROVE  IInv'
<1> USE HostAssumption
<1>0. t \in Nat /\ now \in Nat /\ t < ClockMod /\ CoreTypeOK /\ lastSolve \in 0 .. now
  BY ClockAssumption DEF IInv, TypeOK
<1>1. TickFrame(t)
  BY <1>0, TickEffect DEF IInv
<1>2. TabOK(peer, now)'
  BY <1>1 DEF TickFrame, TabOK, EntryOK
<1>3. ASSUME SnapshotOK(snapshot'), FixOK(snapshot'.fix), dirty' \in BOOLEAN, ran' \in BOOLEAN,
             lastSolve' \in 0 .. t
      PROVE  TypeOK' /\ FixOK(snapshot.fix)' /\ (lastSolve \in 0 .. now)'
  <2>1. CoreTypeOK'
    BY <1>0, <1>1, <1>3 DEF TickFrame, CoreTypeOK, SnapshotOK, TabOK
  <2>2. FixOK(snapshot.fix)'
    BY <1>1, <1>3 DEF TickFrame, FixOK, EvidenceOK
  <2> QED BY <1>3, <2>1, <2>2 DEF TypeOK
<1>4. \A ev \in snapshot.fix.basis : ev.peer \in Node
  BY DEF IInv, FixOK, EvidenceOK
<1>5. CASE TickPublishes
  <2>1. /\ SnapshotOK(snapshot') /\ FixOK(snapshot'.fix) /\ snapshot'.fix.basis = {}
        /\ snapshot'.source = "LOCAL_GNSS" /\ UNCHANGED <<denied, dirty, ran, lastSolve>> /\ ~denied
    BY <1>0, <1>1, <1>5, PublishFacts DEF TickPublishes, TickFrame, CoreTypeOK
  <2>2. TypeOK' /\ FixOK(snapshot.fix)' /\ (lastSolve \in 0 .. now)'
    BY <1>0, <1>3, <2>1 DEF CoreTypeOK
  <2> QED BY <1>2, <2>1, <2>2
          DEF IInv, SolveRecent, UnchangedMeansCurrent, DeniedGnssTransient,
              RadioAltitudeIndependent
<1>6. CASE TickWaits(t)
  <2>1. UNCHANGED <<denied, dirty, ran, lastSolve, snapshot>>
    BY <1>1, <1>6 DEF TickWaits, TickFrame
  <2>2. TypeOK' /\ FixOK(snapshot.fix)' /\ (lastSolve \in 0 .. now)'
    BY <1>0, <1>3, <2>1 DEF CoreTypeOK, IInv
  <2>3. UnchangedMeansCurrent'
    BY <1>1, <1>4, <2>1 DEF UnchangedMeansCurrent, IInv, TickFrame
  <2>4. ran /\ t - lastSolve < SolveInterval
    <3>1. AgeAt(t, lastSolve) = t - lastSolve
      BY <1>0, ClockAssumption DEF AgeAt
    <3> QED BY <1>0, <1>6, <3>1, CoreAssumption DEF TickWaits, Due
  <2>5. SolveRecent'
    BY <2>1, <2>4 DEF SolveRecent, IInv
  <2> QED BY <1>2, <2>1, <2>2, <2>3, <2>5
          DEF IInv, DeniedGnssTransient, RadioAltitudeIndependent
<1>7. CASE TickRejects(t)
  <2>1. /\ SnapshotOK(snapshot') /\ FixOK(snapshot'.fix) /\ snapshot'.fix.basis = {}
        /\ snapshot'.source = "NONE" /\ snapshot'.mode = "NO_NAV_SOLUTION"
        /\ lastSolve' = t
    BY <1>7 DEF TickRejects, SolveBegun, NoFix, FixOK
  <2>2. dirty' \in BOOLEAN /\ ran' \in BOOLEAN
    BY <1>0, <1>7, Zenon DEF TickRejects, SolveBegun, CoreTypeOK
  <2>3. TypeOK' /\ FixOK(snapshot.fix)' /\ (lastSolve \in 0 .. now)'
    BY <1>0, <1>3, <2>1, <2>2
  <2> QED BY <1>2, <2>1, <2>3
          DEF IInv, SolveRecent, UnchangedMeansCurrent, DeniedGnssTransient,
              RadioAltitudeIndependent
<1>8. CASE TickKeeps(t)
  <2>1. UNCHANGED <<denied, dirty, snapshot>> /\ ~dirty /\ ran' = TRUE /\ lastSolve' = t
    BY <1>1, <1>8 DEF TickKeeps, SolveBegun, TickFrame
  <2>2. TypeOK' /\ FixOK(snapshot.fix)' /\ (lastSolve \in 0 .. now)'
    BY <1>0, <1>3, <2>1 DEF CoreTypeOK, IInv
  <2>3. UnchangedMeansCurrent'
    BY <1>1, <1>4, <2>1 DEF UnchangedMeansCurrent, IInv, TickFrame
  <2>4. \A ev \in snapshot.fix.basis : EvidenceOK(ev, t)
    <3>1. PICK S : Selected(t, S) /\ Cardinality(S) = AnchorCount
      BY <1>8 DEF TickKeeps
    <3>2. S = Node \ {local}
      BY <1>0, <3>1, FullSelection DEF Selected, CoreTypeOK
    <3>3. ASSUME NEW ev \in snapshot.fix.basis
          PROVE  ev = Evidence(ev.peer, peer[ev.peer]) /\ ev.peer \in S
      BY <2>1, <3>2, <3>3 DEF IInv, UnchangedMeansCurrent, FixOK, EvidenceOK
    <3> QED BY <3>1, <3>3 DEF Selected
  <2>5. SolveRecent'
    BY <2>1, <2>4 DEF SolveRecent, EvidenceOK
  <2> QED BY <1>2, <2>1, <2>2, <2>3, <2>5
          DEF IInv, DeniedGnssTransient, RadioAltitudeIndependent
<1>9. CASE TickSolves(t)
  <2>1. PICK S : /\ Selected(t, S)
                 /\ snapshot'.fix = RadioFix(t, {Evidence(p, peer[p]) : p \in S})
    BY <1>9 DEF TickSolves
  <2>2. /\ SnapshotOK(snapshot') /\ snapshot'.mode # "GNSS_OK"
        /\ snapshot'.alt = ResolvedAltitude(t) /\ ~GnssPublishable(gnss, denied)
        /\ dirty' = FALSE /\ ran' = TRUE /\ lastSolve' = t
    BY <1>9 DEF TickSolves, SolveBegun
  <2>3. snapshot'.fix.at = t /\ \A ev \in snapshot'.fix.basis :
          \E p \in S : ev = Evidence(p, peer[p]) /\ ev.peer = p /\ EvidenceOK(ev, t)
    BY <2>1 DEF RadioFix, Selected, Evidence
  <2>4. TypeOK' /\ FixOK(snapshot.fix)' /\ (lastSolve \in 0 .. now)'
    <3>1. FixOK(snapshot'.fix) /\ lastSolve' \in 0 .. t
      BY <2>2, <2>3 DEF FixOK
    <3>2. dirty' \in BOOLEAN /\ ran' \in BOOLEAN
      BY <2>2, Zenon
    <3> QED BY <1>3, <2>2, <3>1, <3>2
  <2>5. UnchangedMeansCurrent'
    BY <1>1, <2>1, <2>3 DEF UnchangedMeansCurrent, TickFrame, Selected
  <2>6. SolveRecent'
    BY <2>2, <2>3 DEF SolveRecent, EvidenceOK
  <2>7. RadioAltitudeIndependent'
    BY <1>0, <2>2 DEF RadioAltitudeIndependent, ResolvedAltitude, GnssPublishable, CoreTypeOK
  <2> QED BY <1>2, <2>2, <2>4, <2>5, <2>6, <2>7 DEF IInv, DeniedGnssTransient
<1> QED BY <1>1, <1>5, <1>6, <1>7, <1>8, <1>9 DEF TickFrame

LEMMA NextInv == IInv /\ [Next]_vars => IInv'
<1> SUFFICES ASSUME IInv, [Next]_vars PROVE IInv'
  OBVIOUS
<1> USE HostAssumption
<1>1. TypeOK /\ now \in 0 .. MaxTime /\ TabOK(peer, now) /\ (~haveTime => Quiet)
  BY DEF IInv, TypeOK
<1>2. ASSUME NEW t \in 0 .. MaxTime, FirstRow(t)
      PROVE  IInv'
  <2>1. Quiet /\ now = 0 /\ snapshot.fix = NoFix /\ snapshot.source = "NONE"
    BY <1>1, <1>2 DEF FirstRow, Quiet
  <2>2. TabOK(peer, t)
    BY <1>1, <2>1 DEF Quiet, TabOK, EntryOK, Entry
  <2> QED BY <1>1, <1>2, <2>1, <2>2, EventInv, TickInv DEF FirstRow
<1>3. ASSUME NEW t \in 0 .. MaxTime, Advance(t)
      PROVE  IInv'
  BY <1>1, <1>3, TickInv DEF Advance
<1>4. CASE SameTimeRow
  <2>1. PICK t \in 0 .. MaxTime : t = now
    BY <1>1
  <2>2. now' = t /\ haveTime' = haveTime /\ haveTime /\ (Event(t) \/ Tick(t))
    BY <1>4, <2>1 DEF SameTimeRow
  <2>3. haveTime' = TRUE
    BY <1>1, <2>2, Zenon DEF TypeOK
  <2>4. TabOK(peer, t) /\ now <= t
    BY <1>1, <2>1
  <2>5. ASSUME Event(t) PROVE IInv'
    BY <2>1, <2>2, <2>3, <2>4, <2>5, EventInv
  <2>6. ASSUME Tick(t) PROVE IInv'
    BY <2>1, <2>2, <2>3, <2>4, <2>6, TickInv
  <2> QED BY <2>2, <2>5, <2>6
<1>5. CASE UNCHANGED vars
  BY <1>5 DEF vars, coreVars, IInv, TypeOK, CoreTypeOK, SnapshotOK, TabOK, EntryOK, Quiet, FixOK,
              EvidenceOK, SolveRecent, UnchangedMeansCurrent, DeniedGnssTransient,
              RadioAltitudeIndependent
<1> QED BY <1>2, <1>3, <1>4, <1>5 DEF Next

THEOREM Inductive == Spec => []IInv
BY InitInv, NextInv, PTL DEF Spec

(* Every variable of the core and of its driver keeps its type.            *)
THEOREM TypeCorrect == Spec => []TypeOK
BY Inductive, PTL DEF IInv

(* Only positions that a peer vouched for with its own GNSS, of another    *)
(* node than this one, are ever used as anchors.                           *)
THEOREM NoEstimatedAnchor == Spec => []EstimatedNeverAnchors
<1>1. IInv => EstimatedNeverAnchors
  BY DEF IInv, FixOK, EvidenceOK, EstimatedNeverAnchors
<1> QED BY <1>1, Inductive, PTL

(* A range is never combined with a position received after it.            *)
THEOREM RangeBeforePosition == Spec => []EvidencePaired
<1>1. IInv => EvidencePaired
  BY DEF IInv, FixOK, EvidenceOK, EvidencePaired
<1> QED BY <1>1, Inductive, PTL

(* Ranges within their time to live and positions within the two together. *)
THEOREM SolvesFreshEvidence == Spec => []EvidenceFresh
<1>1. IInv => EvidenceFresh
  BY DEF IInv, FixOK, EvidenceOK, EvidenceFresh
<1> QED BY <1>1, Inductive, PTL

(* A skip for unchanged inputs hides no newer evidence.                    *)
THEOREM SkipIsSound == Spec => []UnchangedMeansCurrent
BY Inductive, PTL DEF IInv

(* GNSS_OK in forced denial always has a solve pending.                    *)
THEOREM DenialPending == Spec => []DeniedGnssTransient
BY Inductive, PTL DEF IInv

(* The altitude of a radio solution is the receiver's only by permission.  *)
THEOREM AltitudeIndependent == Spec => []RadioAltitudeIndependent
BY Inductive, PTL DEF IInv

(* No radio position outlives its evidence by a solve interval, provided   *)
(* that there is no surplus of anchors to select from (CoreAssumption):    *)
(* the evidence reused on unchanged inputs is then eligible evidence.      *)
THEOREM RadioNeverOld == Spec => []RadioFixRecent
<1>1. IInv => RadioFixRecent
  <2> SUFFICES ASSUME IInv, snapshot.source = "RADIO_3D", RangeTtl > 0,
                      NEW ev \in snapshot.fix.basis
               PROVE  now - ev.rngTs <= RangeTtl \/ now - ev.rngTs < RangeTtl + SolveInterval
    BY DEF RadioFixRecent
  <2>1. lastSolve - ev.rngTs <= RangeTtl /\ ev.rngTs \in Int
    BY DEF IInv, SolveRecent, FixOK, EvidenceOK
  <2>2. lastSolve = now \/ now - lastSolve < SolveInterval
    BY DEF IInv, SolveRecent
  <2>3. now \in Int /\ lastSolve \in Int
    BY HostAssumption DEF IInv, TypeOK
  <2> QED BY <2>1, <2>2, <2>3, TtlAssumption, CoreAssumption
<1> QED BY <1>1, Inductive, PTL
=============================================================================
