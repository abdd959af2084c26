---------------------------- MODULE NavCoreLemmas ----------------------------
(***************************************************************************)
(* Facts about the operations of the core that hold for any caller and any *)
(* clock: types, what expiry withdraws, and the ways out of a tick.        *)
(***************************************************************************)
EXTENDS NavCore, FiniteSetTheorems, TLAPS

-----------------------------------------------------------------------------
(* Lemmas about one entry of the peer table.                               *)

LEMMA EmptyEntryType == EmptyEntry \in Entry
BY SMT DEF EmptyEntry, Entry, PosKind, RangeClass, TableReject

LEMMA UpdateTelemetryType ==
  ASSUME NEW e \in Entry, NEW kind \in PosKind, NEW t \in Int
  PROVE  UpdateTelemetry(e, kind, t) \in Entry
<1>1. (kind \in GnssValid) \in BOOLEAN
  OBVIOUS
<1> QED BY <1>1 DEF UpdateTelemetry, Entry, TableReject

LEMMA UpdateRangeType ==
  ASSUME NEW e \in Entry, NEW valid \in BOOLEAN, NEW class \in RangeClass, NEW t \in Int
  PROVE  UpdateRange(e, valid, class, t) \in Entry
<1> DEFINE why == IF valid THEN "NONE" ELSE "STALE_RANGE"
           both == valid /\ e.gnss
<1>1. why \in TableReject /\ both \in BOOLEAN
  BY DEF TableReject
<1> HIDE DEF why, both
<1>2. [e EXCEPT !.present = TRUE, !.rngTs = t, !.rngValid = valid, !.rng = class,
                !.rpos = e.pos, !.rposTs = e.telTs, !.rposValid = both, !.reject = why] \in Entry
  BY <1>1 DEF Entry
<1> QED BY <1>2 DEF UpdateRange, why, both

(* Expiry only ever withdraws validity: it touches no stamp and no value.  *)
LEMMA MarkStaleFacts ==
  ASSUME NEW e \in Entry, NEW t \in Int
  PROVE  /\ MarkStale(e, t) \in Entry
         /\ MarkStale(e, t).telTs = e.telTs
         /\ MarkStale(e, t).rngTs = e.rngTs
         /\ MarkStale(e, t).rposTs = e.rposTs
         /\ MarkStale(e, t).rpos = e.rpos
         /\ MarkStale(e, t).present = e.present
         /\ MarkStale(e, t).gnss => e.gnss /\ ~(e.present /\ Expired(t, e.telTs, TelemetryTtl))
         /\ MarkStale(e, t).rposValid => e.rposValid
<1> DEFINE m == MarkStaleTelemetry(e, t)
<1>1. /\ m \in Entry
      /\ m.telTs = e.telTs /\ m.rngTs = e.rngTs /\ m.rposTs = e.rposTs /\ m.rpos = e.rpos
      /\ m.present = e.present /\ m.rposValid = e.rposValid
      /\ m.gnss => e.gnss /\ ~(e.present /\ Expired(t, e.telTs, TelemetryTtl))
  <2>1. CASE e.present /\ Expired(t, e.telTs, TelemetryTtl)
    <3>1. m = [e EXCEPT !.gnss = FALSE, !.reject = "STALE_TELEMETRY"]
      BY <2>1 DEF MarkStaleTelemetry
    <3> HIDE DEF m
    <3> QED BY <3>1 DEF Entry, TableReject
  <2>2. CASE ~(e.present /\ Expired(t, e.telTs, TelemetryTtl))
    BY <2>2 DEF MarkStaleTelemetry
  <2> QED BY <2>1, <2>2
<1> HIDE DEF m
<1> DEFINE r == MarkStaleRange(m, t)
<1>2. /\ r \in Entry
      /\ r.telTs = m.telTs /\ r.rngTs = m.rngTs /\ r.rposTs = m.rposTs /\ r.rpos = m.rpos
      /\ r.present = m.present /\ r.gnss = m.gnss
      /\ r.rposValid => m.rposValid
  <2>1. CASE m.present /\ Expired(t, m.rngTs, RangeTtl)
    <3> DEFINE why == IF m.reject = "NONE" THEN "STALE_RANGE" ELSE m.reject
    <3>1. why \in TableReject
      BY <1>1 DEF Entry, TableReject
    <3>2. r = [m EXCEPT !.rngValid = FALSE, !.rposValid = FALSE, !.reject = why]
      BY <2>1 DEF MarkStaleRange
    <3> HIDE DEF r, why
    <3> QED BY <1>1, <3>1, <3>2 DEF Entry
  <2>2. CASE ~(m.present /\ Expired(t, m.rngTs, RangeTtl))
    BY <1>1, <2>2 DEF MarkStaleRange
  <2> QED BY <2>1, <2>2
<1>3. MarkStale(e, t) = r
  BY DEF MarkStale, r, m
<1> HIDE DEF r
<1> QED BY <1>1, <1>2, <1>3

LEMMA AnchorRejectType ==
  ASSUME NEW e, NEW t
  PROVE  AnchorReject(e, t) \in TableReject
BY SMT DEF AnchorReject, TableReject

-----------------------------------------------------------------------------
(* Lemmas about snapshots.                                                 *)

LEMMA RejectedFacts ==
  ASSUME NEW S \in SUBSET Node, NEW alt \in AltSource,
         NEW reason \in SolveReject
  PROVE  /\ SnapshotOK(Rejected(reason, S, alt))
         /\ Rejected(reason, S, alt).mode = "NO_NAV_SOLUTION"
         /\ Rejected(reason, S, alt).source = "NONE"
         /\ Rejected(reason, S, alt).fix = NoFix
BY DEF SnapshotOK, Rejected, NoFix, Published

LEMMA SolvedFacts ==
  ASSUME NEW S \in SUBSET Node, NEW alt \in AltSource, NEW f, f.kind = "radio",
         NEW verdict \in {"outlier", "degraded", "ok"}
  PROVE  /\ SnapshotOK(Solved(verdict, f, S, alt))
         /\ Solved(verdict, f, S, alt).mode # "GNSS_OK"
         /\ Solved(verdict, f, S, alt).alt = alt
         /\ Solved(verdict, f, S, alt).fix = f
<1>1. CASE verdict = "outlier"
  <2>1. Solved(verdict, f, S, alt) =
          [mode |-> "NO_NAV_SOLUTION", status |-> "REJECTED", source |-> "NONE",
           reject |-> "RANGE_OUTLIER", fix |-> f, anchors |-> S, alt |-> alt]
    BY <1>1 DEF Solved, Rejected
  <2> QED BY <2>1 DEF SnapshotOK, Published, SolveReject
<1>2. CASE verdict = "degraded"
  <2>1. Solved(verdict, f, S, alt) =
          [mode |-> "RADIO_NAV_DEGRADED", status |-> "DEGRADED", source |-> "RADIO_3D",
           reject |-> "NONE", fix |-> f, anchors |-> S, alt |-> alt]
    BY <1>2 DEF Solved
  <2> QED BY <2>1 DEF SnapshotOK, Published, SolveReject
<1>3. CASE verdict = "ok"
  <2>1. Solved(verdict, f, S, alt) =
          [mode |-> "RADIO_NAV_OK", status |-> "RADIO_3D", source |-> "RADIO_3D",
           reject |-> "NONE", fix |-> f, anchors |-> S, alt |-> alt]
    BY <1>3 DEF Solved
  <2> QED BY <2>1 DEF SnapshotOK, Published, SolveReject
<1> QED BY <1>1, <1>2, <1>3

-----------------------------------------------------------------------------
(* Lemmas about the table under a tick.                                    *)

(* Entries that differ at most in the reason given for passing them over.  *)
Alike(d, e) ==
  /\ d.present = e.present /\ d.telTs = e.telTs /\ d.gnss = e.gnss /\ d.pos = e.pos
  /\ d.rngTs = e.rngTs /\ d.rngValid = e.rngValid /\ d.rng = e.rng
  /\ d.rposTs = e.rposTs /\ d.rposValid = e.rposValid /\ d.rpos = e.rpos

LEMMA DiagnosedAlike ==
  ASSUME NEW tab \in [Node -> Entry], NEW t
  PROVE  /\ Diagnosed(tab, t) \in [Node -> Entry]
         /\ \A p \in Node : Alike(Diagnosed(tab, t)[p], tab[p])
<1> SUFFICES ASSUME NEW p \in Node
             PROVE  Diagnosed(tab, t)[p] \in Entry /\ Alike(Diagnosed(tab, t)[p], tab[p])
  BY DEF Diagnosed
<1> DEFINE why == IF p = local THEN "NONE" ELSE AnchorReject(tab[p], t)
           d == [tab[p] EXCEPT !.reject = why]
<1>1. why \in TableReject
  BY AnchorRejectType DEF TableReject
<1>2. Diagnosed(tab, t)[p] = d \/ Diagnosed(tab, t)[p] = tab[p]
  BY DEF Diagnosed
<1> HIDE DEF why
<1>3. d \in Entry /\ Alike(d, tab[p])
  BY <1>1 DEF Entry, Alike
<1>4. Alike(tab[p], tab[p])
  BY DEF Alike
<1> QED BY <1>2, <1>3, <1>4

(* A range that is valid after expiry was valid and has not expired.       *)
LEMMA MarkStaleRangeFacts ==
  ASSUME NEW e \in Entry, NEW t \in Int
  PROVE  /\ MarkStale(e, t).pos = e.pos
         /\ MarkStale(e, t).rngValid =>
              e.rngValid /\ ~(e.present /\ Expired(t, e.rngTs, RangeTtl))
         /\ MarkStale(e, t).rposValid =>
              e.rposValid /\ ~(e.present /\ Expired(t, e.rngTs, RangeTtl))
<1> DEFINE m == MarkStaleTelemetry(e, t)
<1>1. /\ m.rngTs = e.rngTs /\ m.present = e.present /\ m.rngValid = e.rngValid
      /\ m.rposValid = e.rposValid /\ m.pos = e.pos
      /\ m \in Entry
  <2>1. CASE e.present /\ Expired(t, e.telTs, TelemetryTtl)
    <3>1. m = [e EXCEPT !.gnss = FALSE, !.reject = "STALE_TELEMETRY"]
      BY <2>1 DEF MarkStaleTelemetry
    <3> HIDE DEF m
    <3> QED BY <3>1 DEF Entry, TableReject
  <2>2. CASE ~(e.present /\ Expired(t, e.telTs, TelemetryTtl))
    BY <2>2 DEF MarkStaleTelemetry
  <2> QED BY <2>1, <2>2
<1> HIDE DEF m
<1> DEFINE r == MarkStaleRange(m, t)
<1>2. CASE m.present /\ Expired(t, m.rngTs, RangeTtl)
  <2> DEFINE why == IF m.reject = "NONE" THEN "STALE_RANGE" ELSE m.reject
  <2>1. r = [m EXCEPT !.rngValid = FALSE, !.rposValid = FALSE, !.reject = why]
    BY <1>2 DEF MarkStaleRange
  <2> HIDE DEF r, why
  <2>2. ~r.rngValid /\ ~r.rposValid /\ r.pos = m.pos
    BY <1>1, <2>1 DEF Entry
  <2> QED BY <1>1, <2>2 DEF MarkStale, r, m
<1>3. CASE ~(m.present /\ Expired(t, m.rngTs, RangeTtl))
  <2>1. r = m
    BY <1>3 DEF MarkStaleRange
  <2> HIDE DEF r
  <2>2. MarkStale(e, t) = m
    BY <2>1 DEF MarkStale, r, m
  <2> QED BY <1>1, <1>3, <2>2
<1> QED BY <1>2, <1>3

(* Every entry of the node's peers is selected when AnchorCount are: no    *)
(* more than AnchorCount nodes are peers.                                  *)
LEMMA FullSelection ==
  ASSUME local \in Node, NEW S \in SUBSET (Node \ {local}), Cardinality(S) = AnchorCount
  PROVE  S = Node \ {local}
<1>1. /\ IsFiniteSet(Node \ {local})
      /\ Cardinality(Node \ {local}) = Cardinality(Node) - 1
      /\ Cardinality(Node) \in Nat
  BY CoreAssumption, FS_RemoveElement, FS_CardinalityType
<1>2. Cardinality(S) <= Cardinality(Node \ {local})
  BY <1>1, FS_Subset
<1>3. Cardinality(S) = Cardinality(Node \ {local})
  BY <1>1, <1>2, CoreAssumption
<1> QED BY <1>1, <1>3, FS_Subset

-----------------------------------------------------------------------------
(* The ways out of a tick, at any time and by any clock.                   *)

(* A selection all of whose members are eligible after expiry at t.        *)
Chosen(t, S) ==
  /\ S \in SUBSET (Node \ {local})
  /\ \A p \in S : Eligible(MarkStale(peer[p], t), t)

OutPublished == PublishGnss(gnss) /\ ~denied /\ dirty' = dirty

(* Nothing is decided before the cadence is due, or nothing has changed.   *)
OutKept(t) ==
  /\ UNCHANGED <<snapshot, dirty>>
  /\ \/ ~Due(t) /\ UNCHANGED <<ran, lastSolve>>
     \/ /\ ~dirty /\ ran' = TRUE /\ lastSolve' = t
        /\ \E S : Chosen(t, S) /\ Cardinality(S) = AnchorCount

OutRejected(t) ==
  /\ SnapshotOK(snapshot') /\ snapshot'.fix = NoFix /\ snapshot'.mode = "NO_NAV_SOLUTION"
  /\ snapshot'.reject = "MISSING_LOCAL_ALTITUDE" => ResolvedAltitude(t) = "none"
OutSolved(t) ==
  /\ dirty' = FALSE /\ ran' = TRUE /\ lastSolve' = t
  /\ SnapshotOK(snapshot') /\ snapshot'.mode # "GNSS_OK"
  /\ snapshot'.reject # "MISSING_LOCAL_ALTITUDE"
  /\ \E S : /\ Chosen(t, S)
           /\ snapshot'.fix = RadioFix(t, {Evidence(p, MarkStale(peer[p], t)) : p \in S})

TickOut(t) ==
  /\ UNCHANGED <<local, denied, gnss, altitude>>
  /\ peer' \in [Node -> Entry]
  /\ \A p \in Node : Alike(peer'[p], MarkStale(peer[p], t))
  /\ dirty' \in BOOLEAN /\ ran' \in BOOLEAN /\ lastSolve' \in Int
  /\ UNCHANGED <<ran, lastSolve>> \/ (ran' = TRUE /\ lastSolve' = t)
  /\ OutPublished \/ OutKept(t) \/ OutRejected(t) \/ OutSolved(t)

LEMMA TickCases ==
  ASSUME CoreTypeOK, NEW t \in Int, Tick(t)
  PROVE  TickOut(t)
<1> DEFINE tab == [p \in Node |-> MarkStale(peer[p], t)]
<1>1. /\ tab \in [Node -> Entry] /\ \A p \in Node : tab[p] = MarkStale(peer[p], t)
      /\ peer \in [Node -> Entry] /\ dirty \in BOOLEAN /\ ran \in BOOLEAN /\ lastSolve \in Int
  BY MarkStaleFacts DEF CoreTypeOK
<1>2. /\ UNCHANGED <<local, denied, gnss, altitude>>
      /\ \/ /\ GnssPublishable(gnss, denied) /\ PublishGnss(gnss) /\ peer' = tab
            /\ UNCHANGED <<dirty, ran, lastSolve>>
         \/ ~GnssPublishable(gnss, denied) /\ AttemptRadioSolution(tab, t)
  BY DEF Tick
<1> HIDE DEF tab
<1>3. \A p \in Node : Alike(tab[p], MarkStale(peer[p], t))
  BY <1>1 DEF Alike
<1>4. CASE GnssPublishable(gnss, denied) /\ PublishGnss(gnss) /\ peer' = tab
           /\ UNCHANGED <<dirty, ran, lastSolve>>
  BY <1>1, <1>2, <1>3, <1>4 DEF TickOut, OutPublished, GnssPublishable
<1>5. CASE SkipCadence(tab, t)
  BY <1>1, <1>2, <1>3, <1>5 DEF TickOut, OutKept, SkipCadence
<1>6. ASSUME BeginAttempt(tab, t)
      PROVE  /\ peer' \in [Node -> Entry] /\ ran' \in BOOLEAN /\ lastSolve' \in Int
             /\ ran' = TRUE /\ lastSolve' = t
             /\ \A p \in Node : Alike(peer'[p], MarkStale(peer[p], t))
  <2>1. peer' = Diagnosed(tab, t) /\ ran' = TRUE /\ lastSolve' = t
    BY <1>6 DEF BeginAttempt
  <2>2. ran' \in BOOLEAN
    BY <2>1, Zenon
  <2> QED BY <1>1, <2>1, <2>2, DiagnosedAlike
<1>7. ASSUME NEW S \in BestAnchors(tab, t)
      PROVE  Chosen(t, S) /\ S \in SUBSET Node
  BY <1>1 DEF BestAnchors, Candidates, Chosen
<1>8. ASSUME NEW S \in BestAnchors(tab, t), NEW alt \in AltSource, NEW reason \in SolveReject,
             BeginAttempt(tab, t), snapshot' = Rejected(reason, S, alt), dirty' \in BOOLEAN,
             reason = "MISSING_LOCAL_ALTITUDE" => ResolvedAltitude(t) = "none"
      PROVE  TickOut(t)
  <2>1. snapshot'.reject = reason
    BY <1>8 DEF Rejected
  <2>2. OutRejected(t)
    BY <1>7, <1>8, <2>1, RejectedFacts DEF OutRejected
  <2> QED BY <1>2, <1>6, <1>8, <2>2 DEF TickOut
<1>9. ResolvedAltitude(t) \in AltSource
  BY DEF ResolvedAltitude, AltSource
<1>10. CASE RejectSelection(tab, t)
  BY <1>1, <1>8, <1>10 DEF RejectSelection, SolveReject, AltSource
<1>11. CASE RejectAltitude(tab, t)
  BY <1>1, <1>8, <1>11 DEF RejectAltitude, SolveReject, AltSource
<1>12. ASSUME NEW S \in BestAnchors(tab, t), NEW geometry \in Geometry, NEW verdict \in Verdict,
              SolveFor(tab, t, S, geometry, verdict)
       PROVE  TickOut(t)
  <2> DEFINE alt == ResolvedAltitude(t)
             fix == RadioFix(t, {Evidence(p, tab[p]) : p \in S})
  <2>1. /\ BeginAttempt(tab, t) /\ Cardinality(S) = AnchorCount
        /\ \/ snapshot' = Rejected("BAD_GEOMETRY", S, alt) /\ dirty' = dirty
           \/ ~dirty /\ snapshot' = snapshot /\ dirty' = dirty
           \/ /\ dirty' = FALSE
              /\ snapshot' = IF verdict = "failed" THEN Rejected("TRILATERATION_FAILED", S, alt)
                             ELSE Solved(verdict, fix, S, alt)
    BY <1>12, Zenon DEF SolveFor
  <2>2. alt \in AltSource /\ fix.kind = "radio"
    BY <1>9 DEF RadioFix
  <2>3. fix = RadioFix(t, {Evidence(p, MarkStale(peer[p], t)) : p \in S})
    BY <1>1, <1>7
  <2> HIDE DEF alt, fix
  <2>4. CASE snapshot' = Rejected("BAD_GEOMETRY", S, alt) /\ dirty' = dirty
    BY <1>1, <1>8, <2>1, <2>2, <2>4 DEF SolveReject
  <2>5. CASE ~dirty /\ snapshot' = snapshot /\ dirty' = dirty
    <3>1. OutKept(t)
      BY <1>6, <1>7, <2>1, <2>5 DEF OutKept
    <3> QED BY <1>1, <1>2, <1>6, <2>1, <2>5, <3>1 DEF TickOut
  <2>6. CASE dirty' = FALSE /\ snapshot' = Rejected("TRILATERATION_FAILED", S, alt)
    BY <1>8, <2>1, <2>2, <2>6 DEF SolveReject
  <2>7. CASE dirty' = FALSE /\ verdict # "failed" /\ snapshot' = Solved(verdict, fix, S, alt)
    <3>1. verdict \in {"outlier", "degraded", "ok"}
      BY <2>7 DEF Verdict
    <3>2. /\ SnapshotOK(snapshot') /\ snapshot'.mode # "GNSS_OK" /\ snapshot'.fix = fix
      BY <1>7, <2>2, <2>7, <3>1, SolvedFacts
    <3>3. snapshot'.reject # "MISSING_LOCAL_ALTITUDE"
      BY <2>7, <3>1 DEF Solved, Rejected
    <3>4. OutSolved(t)
      BY <1>6, <1>7, <2>1, <2>3, <2>7, <3>2, <3>3 DEF OutSolved
    <3>5. dirty' \in BOOLEAN
      BY <2>7, Zenon
    <3> QED BY <1>2, <1>6, <2>1, <3>4, <3>5 DEF TickOut
  <2> QED BY <2>1, <2>4, <2>5, <2>6, <2>7
<1> QED BY <1>2, <1>4, <1>5, <1>10, <1>11, <1>12 DEF AttemptRadioSolution
=============================================================================
