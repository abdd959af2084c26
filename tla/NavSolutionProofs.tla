--------------------------- MODULE NavSolutionProofs ---------------------------
(***************************************************************************)
(* The core keeps the promise of NavSolution: a refinement proof over the  *)
(* inductive invariant of NavCoreProofs.                                   *)
(***************************************************************************)
EXTENDS NavCoreProofs

-----------------------------------------------------------------------------
(* What the refinement needs beyond IInv: the node's own stamp is past,    *)
(* and the table never holds an older range of a peer than the published   *)
(* position used.                                                          *)
BasisCurrent ==
  \A ev \in snapshot.fix.basis : ev.rngTs <= peer[ev.peer].rngTs

SInv ==
  /\ IInv
  /\ local = LocalNode
  /\ gnss.ts <= now
  /\ BasisCurrent

(* An event only moves stamps forward.                                     *)
EventMoves(t) ==
  /\ gnss' = gnss \/ gnss'.ts = t
  /\ \A p \in Node : peer[p].rngTs <= peer'[p].rngTs

LEMMA EventForward ==
  ASSUME NEW t \in Nat, CoreTypeOK, TabOK(peer, t), Event(t)
  PROVE  EventMoves(t)
<1> USE HostAssumption
<1>0. \A p \in Node : peer[p] \in Entry /\ peer[p].rngTs \in Int /\ peer[p].rngTs <= t
  BY DEF TabOK, EntryOK, Entry
<1>1. ASSUME NEW usable \in BOOLEAN, LocalGnssSample(t, usable)
      PROVE  EventMoves(t)
  BY <1>0, <1>1 DEF LocalGnssSample, EventMoves
<1>2. ASSUME NEW valid \in BOOLEAN, NEW alt \in AltitudeValue, LocalAltitudeSample(t, valid, alt)
      PROVE  EventMoves(t)
  BY <1>0, <1>2 DEF LocalAltitudeSample, EventMoves
<1>3. ASSUME NEW p \in Heard, NEW kind \in TelemetryKind, PeerTelemetryRx(t, p, kind)
      PROVE  EventMoves(t)
  <2>1. UpdateTelemetry(peer[p], kind, t).rngTs = peer[p].rngTs
    BY <1>0 DEF UpdateTelemetry, Entry
  <2> QED BY <1>0, <1>3, <2>1 DEF PeerTelemetryRx, EventMoves, CoreTypeOK
<1>4. ASSUME NEW p \in Heard, NEW valid \in BOOLEAN, NEW class,
             peer' = [peer EXCEPT ![p] = UpdateRange(@, valid, class, t)], gnss' = gnss
      PROVE  EventMoves(t)
  <2>1. UpdateRange(peer[p], valid, class, t).rngTs = t
    BY <1>0 DEF UpdateRange, Entry
  <2> QED BY <1>0, <1>4, <2>1 DEF EventMoves, CoreTypeOK
<1>5. ASSUME NEW p \in Heard, NEW valid \in BOOLEAN, NEW class, RangeResult(t, p, valid, class)
      PROVE  EventMoves(t)
  BY <1>4, <1>5 DEF RangeResult
<1>6. ASSUME NEW p \in Heard, RangeFail(t, p)
      PROVE  EventMoves(t)
  <2>1. CASE RetainRange
    BY <1>0, <1>6, <2>1 DEF RangeFail, EventMoves
  <2>2. CASE ~RetainRange
    BY <1>4, <1>6, <2>2 DEF RangeFail
  <2> QED BY <2>1, <2>2
<1>7. ASSUME NEW on \in Commanded, ConfigCommand(on)
      PROVE  EventMoves(t)
  BY <1>0, <1>7 DEF ConfigCommand, EventMoves
<1> QED BY <1>1, <1>2, <1>3, <1>5, <1>6, <1>7 DEF Event

(* A row as NavCoreProofs sees it: an event or a tick at the time reached. *)
LEMMA RowFrame ==
  ASSUME IInv, Next
  PROVE  /\ now' \in 0 .. MaxTime /\ now <= now'
         /\ \/ EventFrame(now') /\ EventMoves(now')
            \/ TickFrame(now')
<1> USE HostAssumption
<1>1. /\ CoreTypeOK /\ now \in 0 .. MaxTime /\ TabOK(peer, now) /\ (~haveTime => Quiet)
      /\ haveTime \in BOOLEAN
  BY DEF IInv, TypeOK
<1>2. PICK t \in 0 .. MaxTime :
        /\ now' = t /\ now <= t /\ TabOK(peer, now)
        /\ (Event(t) /\ TabOK(peer, t)) \/ Tick(t)
  <2>1. ASSUME NEW t \in 0 .. MaxTime, FirstRow(t)
        PROVE  now' = t /\ now <= t /\ ((Event(t) /\ TabOK(peer, t)) \/ Tick(t))
    <3>1. Quiet
      BY <1>1, <2>1 DEF FirstRow
    <3>2. TabOK(peer, t)
      BY <1>1, <3>1 DEF Quiet, TabOK, EntryOK, Entry
    <3> QED BY <2>1, <3>1, <3>2 DEF FirstRow, Quiet
  <2>2. ASSUME NEW t \in 0 .. MaxTime, Advance(t)
        PROVE  now' = t /\ now <= t /\ ((Event(t) /\ TabOK(peer, t)) \/ Tick(t))
    BY <1>1, <2>2 DEF Advance
  <2>3. ASSUME SameTimeRow
        PROVE  now' = now /\ ((Event(now) /\ TabOK(peer, now)) \/ Tick(now))
    BY <1>1, <2>3 DEF SameTimeRow
  <2> QED BY <1>1, <2>1, <2>2, <2>3 DEF Next
<1>3. now \in Nat /\ t \in Nat /\ t < ClockMod
  BY <1>1, <1>2, ClockAssumption
<1>4. CASE Event(t) /\ TabOK(peer, t)
  BY <1>1, <1>2, <1>3, <1>4, EventEffect, EventForward
<1>5. CASE Tick(t)
  BY <1>1, <1>2, <1>3, <1>5, TickEffect
<1> QED BY <1>2, <1>4, <1>5

-----------------------------------------------------------------------------
LEMMA SolutionInitInv == Init => SInv
<1> SUFFICES ASSUME Init PROVE SInv
  OBVIOUS
<1>1. local = LocalNode /\ gnss.ts = 0 /\ snapshot.fix.basis = {} /\ now = 0
  BY DEF Init, CoreInit, NoGnss, BootSnapshot, NoFix
<1> QED BY <1>1, InitInv DEF SInv, BasisCurrent

LEMMA SolutionNextInv ==
  ASSUME SInv, [Next]_vars
  PROVE  SInv'
<1>1. IInv /\ IInv' /\ local = LocalNode /\ gnss.ts <= now /\ BasisCurrent
  BY NextInv DEF SInv
<1>2. CASE UNCHANGED vars
  BY <1>1, <1>2 DEF vars, coreVars, SInv, BasisCurrent
<1>3. CASE Next
  <2>1. /\ now' \in 0 .. MaxTime /\ now <= now'
        /\ (EventFrame(now') /\ EventMoves(now')) \/ TickFrame(now')
    BY <1>1, <1>3, RowFrame
  <2>2. now \in Int /\ gnss.ts \in Int /\ now' \in Int
    BY <1>1, <2>1, HostAssumption DEF IInv, TypeOK, CoreTypeOK
  <2>3. /\ \A ev \in snapshot.fix.basis : ev.peer \in Node /\ ev.rngTs \in Int
        /\ \A p \in Node : peer[p].rngTs \in Int /\ peer'[p].rngTs \in Int
    BY <1>1 DEF IInv, FixOK, EvidenceOK, TabOK, Entry
  <2>4. local' = LocalNode
    BY <1>1, <2>1 DEF EventFrame, TickFrame
  <2>5. gnss'.ts <= now'
    BY <1>1, <2>1, <2>2 DEF EventMoves, TickFrame
  <2>6. BasisCurrent'
    <3>1. CASE EventFrame(now') /\ EventMoves(now')
      <4>1. CASE snapshot' = snapshot
        BY <1>1, <2>3, <3>1, <4>1 DEF BasisCurrent, EventMoves
      <4>2. CASE PublishGnss(gnss')
        <5>1. snapshot'.fix.basis = {}
          BY <4>2 DEF PublishGnss, GnssFix
        <5> QED BY <5>1 DEF BasisCurrent
      <4> QED BY <3>1, <4>1, <4>2 DEF EventFrame
    <3>2. CASE TickFrame(now')
      <4>1. \A p \in Node : peer'[p].rngTs = peer[p].rngTs
        BY <3>2 DEF TickFrame, Evidence
      <4>2. CASE snapshot' = snapshot
        BY <1>1, <2>3, <4>1, <4>2 DEF BasisCurrent
      <4>3. CASE TickPublishes \/ TickRejects(now')
        <5>1. snapshot'.fix.basis = {}
          <6>1. CASE PublishGnss(gnss)
            BY <6>1 DEF PublishGnss, GnssFix
          <6>2. CASE snapshot'.fix = NoFix
            BY <6>2 DEF NoFix
          <6> QED BY <4>3, <6>1, <6>2 DEF TickPublishes, TickRejects
        <5> QED BY <5>1 DEF BasisCurrent
      <4>4. CASE TickSolves(now')
        <5>1. PICK S \in SUBSET Node :
                snapshot'.fix.basis = {Evidence(p, peer[p]) : p \in S}
          BY <4>4 DEF TickSolves, Selected, RadioFix
        <5>2. \A ev \in snapshot'.fix.basis : ev.peer \in Node /\ ev.rngTs = peer[ev.peer].rngTs
          BY <5>1 DEF Evidence
        <5>3. \A ev \in snapshot'.fix.basis : ev.rngTs <= peer'[ev.peer].rngTs
          BY <2>3, <4>1, <5>2
        <5> QED BY <5>3 DEF BasisCurrent
      <4> QED BY <3>2, <4>2, <4>3, <4>4 DEF TickFrame, TickWaits, TickKeeps
    <3> QED BY <2>1, <3>1, <3>2
  <2> QED BY <1>1, <2>4, <2>5, <2>6 DEF SInv
<1> QED BY <1>2, <1>3

THEOREM SolutionInductive == Spec => []SInv
<1>1. SInv /\ [Next]_vars => SInv'
  BY SolutionNextInv
<1> QED BY <1>1, SolutionInitInv, PTL DEF Spec

-----------------------------------------------------------------------------
(* The five ways out of a step, as steps of NavSolution.                   *)
LEMMA AgeAdds ==
  ASSUME NEW stamp \in Int, NEW solve \in Int, NEW t \in Int, NEW ttl \in Nat, NEW interval \in Nat,
         solve - stamp <= ttl, solve = t \/ t - solve < interval
  PROVE  t - stamp <= ttl \/ t - stamp < ttl + interval
OBVIOUS

LEMMA SameCardinality == ASSUME NEW X PROVE Solution!Cardinality(X) = Cardinality(X)
BY Zenon DEF Cardinality, Solution!Cardinality

LEMMA KeepStep ==
  ASSUME SInv', snapshot' = snapshot
  PROVE  Solution!Keep
<1>1. snapshot.source = "RADIO_3D" /\ RangeTtl > 0 => \A ev \in snapshot.fix.basis :
        now' - ev.rngTs <= RangeTtl \/ now' - ev.rngTs < RangeTtl + SolveInterval
  <2> SUFFICES ASSUME snapshot.source = "RADIO_3D", RangeTtl > 0, NEW ev \in snapshot.fix.basis
               PROVE  now' - ev.rngTs <= RangeTtl \/ now' - ev.rngTs < RangeTtl + SolveInterval
    OBVIOUS
  <2>1. lastSolve' - ev.rngTs <= RangeTtl /\ ev.rngTs \in Int
    BY DEF SInv, IInv, SolveRecent, FixOK, EvidenceOK
  <2>2. lastSolve' = now' \/ now' - lastSolve' < SolveInterval
    BY DEF SInv, IInv, SolveRecent
  <2>3. now' \in Int /\ lastSolve' \in Int
    BY HostAssumption DEF SInv, IInv, TypeOK
  <2> QED BY <2>1, <2>2, <2>3, AgeAdds, TtlAssumption, CoreAssumption
<1>2. Shown' = Shown
  BY DEF Shown
<1>3. Shown.source = "radio" => snapshot.source = "RADIO_3D" /\ Shown.basis = snapshot.fix.basis
  <2>1. snapshot.source \in {"NONE", "LOCAL_GNSS", "RADIO_3D"}
    BY DEF SInv, IInv, TypeOK, CoreTypeOK, SnapshotOK, Published
  <2> QED BY <2>1, Zenon DEF Shown
<1> QED BY <1>1, <1>2, <1>3 DEF Solution!Keep, Solution!Alive

LEMMA ShowGnssStep ==
  ASSUME NEW g, g.ts <= now', PublishGnss(g), ~denied'
  PROVE  Solution!ShowGnss
<1>1. snapshot'.source = "LOCAL_GNSS" /\ snapshot'.fix.at = g.ts
  BY DEF PublishGnss, GnssFix
<1>2. Shown' = [source |-> "gnss", at |-> g.ts, basis |-> {}]
  BY <1>1 DEF Shown
<1> QED BY <1>2 DEF Solution!ShowGnss, Solution!Gnss

LEMMA WithdrawStep ==
  ASSUME snapshot'.source = "NONE"
  PROVE  Solution!Withdraw
<1>1. Shown' = [source |-> "none", at |-> 0, basis |-> {}]
  BY Zenon DEF Shown
<1> QED BY <1>1 DEF Solution!Withdraw, Solution!Nothing

LEMMA ShowRadioStep ==
  ASSUME SInv, SInv', TickFrame(now'), TickSolves(now'), snapshot'.source = "RADIO_3D"
  PROVE  Solution!ShowRadio
<1>1. PICK S : /\ Selected(now', S) /\ Cardinality(S) = AnchorCount
               /\ snapshot'.fix = RadioFix(now', {Evidence(p, peer[p]) : p \in S})
  BY DEF TickSolves
<1> DEFINE basis == {Evidence(p, peer[p]) : p \in S}
<1>2. Shown' = [source |-> "radio", at |-> now', basis |-> basis]
  BY <1>1 DEF Shown, RadioFix
<1>3. \A ev \in basis : \E p \in S : ev = Evidence(p, peer[p]) /\ ev.peer = p
  BY DEF Evidence
<1>4. {ev.peer : ev \in basis} = S
  <2>1. \A p \in S : Evidence(p, peer[p]) \in basis /\ Evidence(p, peer[p]).peer = p
    BY DEF Evidence
  <2> HIDE DEF basis
  <2> QED BY <1>3, <2>1
<1>5. \A ev \in basis : Solution!Fit(ev, now')
  <2> SUFFICES ASSUME NEW p \in S PROVE Solution!Fit(Evidence(p, peer[p]), now')
    OBVIOUS
  <2> DEFINE ev == Evidence(p, peer[p])
  <2>1. EvidenceOK(ev, now') /\ local = LocalNode
    BY <1>1 DEF Selected, SInv
  <2> HIDE DEF ev
  <2>2. Solution!Fit(ev, now')
    BY <2>1 DEF EvidenceOK, Solution!Fit
  <2> QED BY <2>2 DEF ev
<1>6. \A e1, e2 \in basis : e1.peer = e2.peer => e1 = e2
  BY <1>3
<1>7. \A old \in Shown.basis, new \in basis : old.peer = new.peer => old.rngTs <= new.rngTs
  <2>1. \A old \in snapshot.fix.basis : old.rngTs <= peer[old.peer].rngTs
    BY DEF SInv, BasisCurrent
  <2>2. \A new \in basis : new.rngTs = peer[new.peer].rngTs
    BY DEF Evidence
  <2>3. \A old \in Shown.basis : old \in snapshot.fix.basis
    BY DEF Shown
  <2> HIDE DEF basis
  <2> QED BY <2>1, <2>2, <2>3
<1> HIDE DEF basis
<1>8. Shown'.basis = basis /\ Shown' = [source |-> "radio", at |-> now', basis |-> Shown'.basis]
  BY <1>2
<1>9. Solution!Cardinality(Solution!Peers(basis)) = AnchorCount
  BY <1>1, <1>4, SameCardinality DEF Solution!Peers
<1> QED BY <1>5, <1>6, <1>7, <1>8, <1>9, Zenon DEF Solution!ShowRadio

LEMMA SolutionStep ==
  ASSUME SInv, SInv', [Next]_vars
  PROVE  [Solution!Next]_Solution!solutionVars
<1>1. CASE UNCHANGED vars
  BY <1>1 DEF vars, coreVars, Solution!solutionVars, Shown
<1>2. CASE Next
  <2>1. /\ now' \in 0 .. MaxTime /\ now <= now'
        /\ (EventFrame(now') /\ EventMoves(now')) \/ TickFrame(now')
    BY <1>2, RowFrame DEF SInv
  <2>2. now' >= now /\ denied' \in BOOLEAN /\ gnss'.ts <= now'
    BY <2>1, HostAssumption DEF SInv, IInv, TypeOK, CoreTypeOK
  <2>3. Solution!Keep \/ Solution!Withdraw \/ Solution!ShowGnss \/ Solution!ShowRadio
    <3>1. CASE EventFrame(now')
      BY <2>2, <3>1, KeepStep, ShowGnssStep DEF EventFrame
    <3>2. CASE TickFrame(now')
      <4>1. CASE TickPublishes
        BY <2>2, <3>2, <4>1, ShowGnssStep DEF TickPublishes, TickFrame
      <4>2. CASE TickWaits(now') \/ TickKeeps(now')
        BY <4>2, KeepStep DEF TickWaits, TickKeeps
      <4>3. CASE TickRejects(now')
        BY <4>3, WithdrawStep DEF TickRejects
      <4>4. CASE TickSolves(now')
        <5>1. snapshot'.source \in {"NONE", "RADIO_3D"}
          <6>1. /\ <<snapshot'.mode, snapshot'.status, snapshot'.source>> \in Published
                /\ snapshot'.mode # "GNSS_OK"
            BY <4>4 DEF TickSolves, SnapshotOK
          <6>2. snapshot'.mode = "BOOT" => snapshot'.source = "NONE"
            BY <6>1 DEF Published
          <6> QED BY <6>1, <6>2 DEF Published
        <5> QED BY <3>2, <4>4, <5>1, WithdrawStep, ShowRadioStep
      <4> QED BY <3>2, <4>1, <4>2, <4>3, <4>4 DEF TickFrame
    <3> QED BY <2>1, <3>1, <3>2
  <2> QED BY <2>2, <2>3 DEF Solution!Next
<1> QED BY <1>1, <1>2

(* Whatever the core does inside, what a node shows is nothing, its own    *)
(* GNSS position while that is not denied, or a radio position on exactly  *)
(* AnchorCount fit pieces of evidence, shown no longer than they live and  *)
(* never replaced by one from older ranges.                                *)
THEOREM KeepsPromise == Spec => ImplementsSolution
<1>1. Init => Solution!Init
  <2> SUFFICES ASSUME Init PROVE Solution!Init
    OBVIOUS
  <2>1. /\ now = 0 /\ denied \in BOOLEAN
        /\ snapshot.source = "NONE"
    BY DEF Init, CoreInit, BootSnapshot
  <2> QED BY <2>1 DEF Solution!Init, Solution!Nothing, Shown
<1>2. SInv /\ SInv' /\ [Next]_vars => [Solution!Next]_Solution!solutionVars
  BY SolutionStep
<1> QED BY <1>1, <1>2, SolutionInductive, PTL DEF Spec, ImplementsSolution, Solution!Spec

-----------------------------------------------------------------------------
(* What a due tick leaves behind.                                          *)

(* Diagnosing does not change who is eligible.                             *)
LEMMA DiagnosedEligible ==
  ASSUME NEW tab \in [Node -> Entry], NEW t
  PROVE  Candidates(Diagnosed(tab, t), t) = Candidates(tab, t)
<1> SUFFICES ASSUME NEW p \in Node
             PROVE  Eligible(Diagnosed(tab, t)[p], t) <=> Eligible(tab[p], t)
  BY DEF Candidates
<1> DEFINE why == IF p = local THEN "NONE" ELSE AnchorReject(tab[p], t)
           d == [tab[p] EXCEPT !.reject = why]
<1>1. Diagnosed(tab, t)[p] = d \/ Diagnosed(tab, t)[p] = tab[p]
  BY DEF Diagnosed
<1> HIDE DEF why
<1>2. /\ d.present = tab[p].present /\ d.telTs = tab[p].telTs /\ d.rngTs = tab[p].rngTs
      /\ d.gnss = tab[p].gnss /\ d.pos = tab[p].pos /\ d.rngValid = tab[p].rngValid
      /\ d.rng = tab[p].rng /\ d.rposValid = tab[p].rposValid /\ d.rpos = tab[p].rpos
  BY DEF Entry
<1> HIDE DEF d
<1>3. AnchorReject(d, t) = AnchorReject(tab[p], t)
  BY <1>2 DEF AnchorReject, AnchorQuality
<1> QED BY <1>1, <1>3 DEF Eligible

LEMMA DueTick ==
  ASSUME CoreTypeOK, DeniedGnssTransient, NEW t \in Nat, NEW s \in Nat, s <= t, t < ClockMod,
         TabOK(peer, s), Tick(t), Due(t), ~GnssPublishable(gnss, denied)
  PROVE  /\ snapshot'.source = "RADIO_3D" =>
              /\ Cardinality(Candidates(peer', t)) >= AnchorCount
              /\ ResolvedAltitude(t) # "none"
         /\ denied => snapshot'.mode # "GNSS_OK"
<1> DEFINE tab == [p \in Node |-> MarkStale(peer[p], t)]
<1>1. tab \in [Node -> Entry]
  BY MarkStaleFacts DEF TabOK
<1>2. AttemptRadioSolution(tab, t)
  BY DEF Tick
<1> HIDE DEF tab
<1>3. ASSUME NEW S \in BestAnchors(tab, t), Cardinality(S) = AnchorCount, BeginAttempt(tab, t)
      PROVE  Cardinality(Candidates(peer', t)) >= AnchorCount
  <2>1. S \in SUBSET Candidates(tab, t) /\ Candidates(tab, t) \in SUBSET Node
    BY DEF BestAnchors, Candidates
  <2>2. IsFiniteSet(Candidates(tab, t))
    BY <2>1, CoreAssumption, FS_Subset
  <2>3. /\ Cardinality(S) <= Cardinality(Candidates(tab, t))
        /\ Cardinality(Candidates(tab, t)) \in Nat
    BY <2>1, <2>2, FS_Subset, FS_CardinalityType
  <2>4. Candidates(peer', t) = Candidates(tab, t)
    BY <1>1, <1>3, DiagnosedEligible DEF BeginAttempt
  <2> QED BY <1>3, <2>3, <2>4, CoreAssumption
<1>4. CASE SkipCadence(tab, t)
  BY <1>4 DEF SkipCadence
<1>5. CASE RejectSelection(tab, t) \/ RejectAltitude(tab, t)
  <2>1. PICK reason, S : snapshot' = Rejected(reason, S, "none")
    BY <1>5 DEF RejectSelection, RejectAltitude
  <2> QED BY <2>1 DEF Rejected
<1>6. ASSUME NEW S \in BestAnchors(tab, t), NEW geometry \in Geometry, NEW verdict \in Verdict,
             SolveFor(tab, t, S, geometry, verdict)
      PROVE  /\ Cardinality(Candidates(peer', t)) >= AnchorCount
             /\ ResolvedAltitude(t) # "none"
             /\ denied => snapshot'.mode # "GNSS_OK"
  <2> DEFINE alt == ResolvedAltitude(t)
             fix == RadioFix(t, {Evidence(p, tab[p]) : p \in S})
  <2>1. /\ BeginAttempt(tab, t) /\ Cardinality(S) = AnchorCount /\ alt # "none"
        /\ \/ snapshot' = Rejected("BAD_GEOMETRY", S, alt)
           \/ ~dirty /\ snapshot' = snapshot
           \/ snapshot' = IF verdict = "failed" THEN Rejected("TRILATERATION_FAILED", S, alt)
                          ELSE Solved(verdict, fix, S, alt)
    BY <1>6, Zenon DEF SolveFor
  <2>2. alt \in AltSource /\ fix.kind = "radio" /\ S \in SUBSET Node
    BY DEF ResolvedAltitude, AltSource, RadioFix, BestAnchors, Candidates
  <2> HIDE DEF alt, fix
  <2>3. CASE \E reason : snapshot' = Rejected(reason, S, alt)
    BY <1>3, <2>1, <2>3 DEF Rejected, alt
  <2>4. CASE ~dirty /\ snapshot' = snapshot
    BY <1>3, <2>1, <2>4 DEF DeniedGnssTransient, alt
  <2>5. CASE verdict # "failed" /\ snapshot' = Solved(verdict, fix, S, alt)
    <3>1. verdict \in {"outlier", "degraded", "ok"}
      BY <2>5 DEF Verdict
    <3>2. snapshot'.mode # "GNSS_OK"
      BY <2>2, <2>5, <3>1, SolvedFacts
    <3> QED BY <1>3, <2>1, <3>2 DEF alt
  <2> QED BY <2>1, <2>3, <2>4, <2>5
<1> QED BY <1>2, <1>4, <1>5, <1>6 DEF AttemptRadioSolution

(* A due tick of a later time never leaves a radio position without enough *)
(* eligible anchors or a fresh altitude, nor GNSS_OK in forced denial.     *)
THEOREM DueTickRedecides == Spec => DueTickDecides
<1>1. ASSUME IInv, [Next]_vars, haveTime, now' > now, Due(now'), ~GnssPublishable(gnss, denied)
      PROVE  /\ snapshot'.source = "RADIO_3D" =>
                  /\ Cardinality(Candidates(peer', now')) >= AnchorCount
                  /\ ResolvedAltitude(now') # "none"
             /\ denied => snapshot'.mode # "GNSS_OK"
  <2> USE HostAssumption
  <2>1. now \in 0 .. MaxTime
    BY <1>1 DEF IInv, TypeOK
  <2>2. PICK t \in 0 .. MaxTime : Advance(t)
    <3>1. now' # now
      BY <1>1, <2>1
    <3>2. ~UNCHANGED vars /\ ~SameTimeRow
      BY <3>1 DEF vars, SameTimeRow
    <3>3. \A t : ~FirstRow(t)
      BY <1>1 DEF FirstRow
    <3> QED BY <1>1, <3>2, <3>3 DEF Next
  <2>3. now' = t /\ Tick(t) /\ t \in Nat /\ now \in Nat /\ now <= t /\ t < ClockMod
    BY <2>1, <2>2, ClockAssumption DEF Advance
  <2> QED BY <1>1, <2>3, DueTick DEF IInv, TypeOK
<1>2. IInv /\ [Next]_vars =>
        [haveTime /\ now' > now /\ Due(now') /\ ~GnssPublishable(gnss, denied) =>
           /\ snapshot'.source = "RADIO_3D" =>
                /\ Cardinality(Candidates(peer', now')) >= AnchorCount
                /\ ResolvedAltitude(now') # "none"
           /\ denied => snapshot'.mode # "GNSS_OK"]_vars
  BY <1>1
<1> QED BY <1>2, Inductive, PTL DEF Spec, DueTickDecides
=============================================================================
