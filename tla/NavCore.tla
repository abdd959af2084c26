------------------------------- MODULE NavCore -------------------------------
(***************************************************************************)
(* The portable navigation core (core/src/nav_core.c): one action per      *)
(* event of nav_core_handle_event and one for nav_core_tick.  Each takes   *)
(* the time stamp t the caller passes, which need not be the time at which *)
(* it runs; NavHost drives the actions with an exact clock and         *)
(* ControlChannel with the tasks of the ESP32 firmware.                    *)
(*                                                                         *)
(* Data abstraction: the published position is where it came from (fix),   *)
(* the geometry class and the verdict of the solver are chosen freely, and *)
(* the diagnostics that only describe an attempt (counters, residuals,     *)
(* quality numbers, outcome) are left out.                                 *)
(***************************************************************************)
EXTENDS PeerTable

CONSTANTS
  Node,                 \* the node ids 0 .. NAV_MAX_NODES - 1
  AnchorCount,          \* NAV_TRILAT_ANCHOR_COUNT
  AltitudeTtl,          \* local_altitude_ttl_ms, 0 for no limit
  SolveInterval,        \* radio_solve_interval_ms
  AltitudeValue,        \* the altitudes a sample may carry
  IgnoreAltitude,       \* ignore_altitude_for_radio_solve
  AllowDeniedGnssAlt,   \* allow_gnss_altitude_in_demo_forced_denied
  RetainRange           \* retain_last_range_on_failure

ASSUME CoreAssumption ==
  /\ IsFiniteSet(Node)
  /\ Cardinality(Node) <= AnchorCount + 1
  /\ AnchorCount \in Nat \ {0}
  /\ AltitudeTtl \in Nat
  /\ SolveInterval \in Nat
  /\ IgnoreAltitude \in BOOLEAN
  /\ AllowDeniedGnssAlt \in BOOLEAN
  /\ RetainRange \in BOOLEAN

VARIABLES
  local,      \* config.local_node_id
  denied,     \* config.demo_force_gps_denied
  gnss,       \* local_gnss_present, local_gnss
  altitude,   \* local_altitude_present, local_altitude
  peer,       \* peer_table
  dirty,      \* radio_solve_generation # last_radio_solve_generation
  ran,        \* radio_solve_ran
  lastSolve,  \* last_radio_solve_ms
  snapshot    \* snapshot, and mode, which always equals snapshot.nav_mode

coreVars == <<local, denied, gnss, altitude, peer, dirty, ran, lastSolve, snapshot>>

SolveReject == {"NONE", "NOT_ENOUGH_ANCHORS", "MISSING_LOCAL_ALTITUDE",
                "BAD_GEOMETRY", "TRILATERATION_FAILED", "RANGE_OUTLIER"}
AltSource == {"none", "gnss", "local"}

(* The position field of a snapshot: all zero, the GNSS sample stamped at, *)
(* or the result of the solve run at time at from the evidence in basis.   *)
NoFix == [kind |-> "none", at |-> 0, basis |-> {}]
GnssFix(stamp) == [kind |-> "gnss", at |-> stamp, basis |-> {}]
RadioFix(t, basis) == [kind |-> "radio", at |-> t, basis |-> basis]

-----------------------------------------------------------------------------
(* nav_core_init; pending when the caller counts the configuration it has  *)
(* just applied as a change of the solve's inputs.                         *)
NoGnss == [present |-> FALSE, usable |-> FALSE, ts |-> 0]
NoAltitude == [present |-> FALSE, valid |-> FALSE, ts |-> 0, alt |-> 0]
EmptyTable == [p \in Node |-> EmptyEntry]
BootSnapshot == [mode |-> "BOOT", status |-> "NONE", source |-> "NONE",
                 reject |-> "NONE", fix |-> NoFix, anchors |-> {}, alt |-> "none"]

CoreInit(id, forcedDenied, pending) ==
  /\ local = id
  /\ denied = forcedDenied
  /\ gnss = NoGnss
  /\ altitude = NoAltitude
  /\ peer = EmptyTable
  /\ dirty = pending
  /\ ran = FALSE
  /\ lastSolve = 0
  /\ snapshot = BootSnapshot

-----------------------------------------------------------------------------
(* nav_select_radio_anchors over the table tab: the AnchorCount best       *)
(* eligible entries, any choice among equals.  (NAV_MAX_NODES is one more  *)
(* than NAV_TRILAT_ANCHOR_COUNT, so a node in range leaves no surplus.)    *)
Candidates(tab, t) == {p \in Node \ {local} : Eligible(tab[p], t)}

BestAnchors(tab, t) ==
  LET cand == Candidates(tab, t)
      size == IF Cardinality(cand) < AnchorCount THEN Cardinality(cand) ELSE AnchorCount
  IN  {S \in SUBSET cand :
         /\ Cardinality(S) = size
         /\ \A a \in S, b \in cand \ S :
              AnchorQuality(tab[a], t) >= AnchorQuality(tab[b], t)}

(* update_peer_diagnostics_from_selection.                                 *)
Diagnosed(tab, t) ==
  [p \in Node |-> IF tab[p].present
                  THEN [tab[p] EXCEPT !.reject =
                                 IF p = local THEN "NONE" ELSE AnchorReject(tab[p], t)]
                  ELSE tab[p]]

(* resolve_local_altitude; "none" when there is no fresh altitude.         *)
AltitudeFresh(t, stamp) == AltitudeTtl = 0 \/ AgeAt(t, stamp) <= AltitudeTtl

(* Mutated form: the GNSS altitude is taken in forced denial too.          *)
ResolvedAltitude_Ungated(t) ==
  IF altitude.present /\ altitude.valid /\ AltitudeFresh(t, altitude.ts) THEN "local"
  ELSE IF gnss.present /\ gnss.usable /\ AltitudeFresh(t, gnss.ts) THEN "gnss"
  ELSE "none"

ResolvedAltitude(t) ==
  IF altitude.present /\ altitude.valid /\ AltitudeFresh(t, altitude.ts) THEN "local"
  ELSE IF /\ ~denied \/ AllowDeniedGnssAlt
          /\ gnss.present /\ gnss.usable /\ AltitudeFresh(t, gnss.ts) THEN "gnss"
  ELSE "none"

(* set_rejected_snapshot with the selection's anchors kept.                *)
Rejected(reason, S, alt) ==
  [mode |-> "NO_NAV_SOLUTION", status |-> "REJECTED", source |-> "NONE",
   reject |-> reason, fix |-> NoFix, anchors |-> S, alt |-> alt]

(* Mutated form: an outlier keeps the source it had been given.            *)
Solved_OutlierSource(verdict, fix, S, alt) ==
  CASE verdict = "outlier" ->
         [Rejected("RANGE_OUTLIER", S, alt) EXCEPT !.fix = fix, !.source = "RADIO_3D"]
    [] verdict = "degraded" ->
         [mode |-> "RADIO_NAV_DEGRADED", status |-> "DEGRADED", source |-> "RADIO_3D",
          reject |-> "NONE", fix |-> fix, anchors |-> S, alt |-> alt]
    [] verdict = "ok" ->
         [mode |-> "RADIO_NAV_OK", status |-> "RADIO_3D", source |-> "RADIO_3D",
          reject |-> "NONE", fix |-> fix, anchors |-> S, alt |-> alt]

(* A solve that produced a position; an outlier keeps it in the snapshot.  *)
Solved(verdict, fix, S, alt) ==
  CASE verdict = "outlier" ->
         [Rejected("RANGE_OUTLIER", S, alt) EXCEPT !.fix = fix]
    [] verdict = "degraded" ->
         [mode |-> "RADIO_NAV_DEGRADED", status |-> "DEGRADED", source |-> "RADIO_3D",
          reject |-> "NONE", fix |-> fix, anchors |-> S, alt |-> alt]
    [] verdict = "ok" ->
         [mode |-> "RADIO_NAV_OK", status |-> "RADIO_3D", source |-> "RADIO_3D",
          reject |-> "NONE", fix |-> fix, anchors |-> S, alt |-> alt]

(* The outcomes of the numerical part: geometry_score_from_area and        *)
(* nav_trilat_solve_3_anchor_altitude followed by the residual and quality *)
(* tests.                                                                  *)
Geometry == {"bad", "usable"}
Verdict == {"failed", "outlier", "degraded", "ok"}

-----------------------------------------------------------------------------
(* attempt_radio_solution on the table tab, one action per way out of it.  *)
Due(t) == ran => SolveInterval = 0 \/ AgeAt(t, lastSolve) >= SolveInterval

SkipCadence(tab, t) ==
  /\ ~Due(t)
  /\ peer' = tab
  /\ UNCHANGED <<dirty, ran, lastSolve, snapshot>>

BeginAttempt(tab, t) ==
  /\ Due(t)
  /\ peer' = Diagnosed(tab, t)
  /\ ran' = TRUE
  /\ lastSolve' = t

(* Mutated form: unchanged inputs keep the snapshot before any rejection.  *)
RejectSelection_WhenChanged(tab, t) ==
  \E S \in BestAnchors(tab, t) :
    /\ BeginAttempt(tab, t)
    /\ Cardinality(S) < AnchorCount
    /\ snapshot' = IF dirty THEN Rejected("NOT_ENOUGH_ANCHORS", S, "none") ELSE snapshot
    /\ UNCHANGED dirty

RejectSelection(tab, t) ==
  \E S \in BestAnchors(tab, t) :
    /\ BeginAttempt(tab, t)
    /\ Cardinality(S) < AnchorCount
    /\ snapshot' = Rejected("NOT_ENOUGH_ANCHORS", S, "none")
    /\ UNCHANGED dirty

(* Mutated form: unchanged inputs keep the snapshot without an altitude.   *)
RejectAltitude_WhenChanged(tab, t) ==
  \E S \in BestAnchors(tab, t) :
    /\ BeginAttempt(tab, t)
    /\ Cardinality(S) = AnchorCount
    /\ ResolvedAltitude(t) = "none"
    /\ snapshot' = IF dirty THEN Rejected("MISSING_LOCAL_ALTITUDE", S, "none") ELSE snapshot
    /\ UNCHANGED dirty

RejectAltitude(tab, t) ==
  \E S \in BestAnchors(tab, t) :
    /\ BeginAttempt(tab, t)
    /\ Cardinality(S) = AnchorCount
    /\ ResolvedAltitude(t) = "none"
    /\ snapshot' = Rejected("MISSING_LOCAL_ALTITUDE", S, "none")
    /\ UNCHANGED dirty

SolveFor(tab, t, S, geometry, verdict) ==
  LET alt == ResolvedAltitude(t)
      fix == RadioFix(t, {Evidence(p, tab[p]) : p \in S})
  IN  /\ BeginAttempt(tab, t)
      /\ Cardinality(S) = AnchorCount
      /\ alt # "none"
      /\ CASE geometry = "bad" ->
                /\ snapshot' = Rejected("BAD_GEOMETRY", S, alt)
                /\ UNCHANGED dirty
           [] geometry # "bad" /\ ~dirty ->
                UNCHANGED <<snapshot, dirty>>
           [] geometry # "bad" /\ dirty ->
                /\ dirty' = FALSE
                /\ snapshot' = IF verdict = "failed"
                               THEN Rejected("TRILATERATION_FAILED", S, alt)
                               ELSE Solved(verdict, fix, S, alt)

AttemptRadioSolution(tab, t) ==
  \/ SkipCadence(tab, t)
  \/ RejectSelection(tab, t)
  \/ RejectAltitude(tab, t)
  \/ \E S \in BestAnchors(tab, t), geometry \in Geometry, verdict \in Verdict :
       SolveFor(tab, t, S, geometry, verdict)

(* Mutated form: the denial is not looked at.                              *)
GnssPublishable_AnyDenial(g, d) == g.usable

-----------------------------------------------------------------------------
(* update_snapshot.  A usable GNSS sample is published whatever its age.   *)
GnssPublishable(g, d) == g.usable /\ ~d

PublishGnss(g) ==
  snapshot' = [mode |-> "GNSS_OK", status |-> "GNSS_DIRECT", source |-> "LOCAL_GNSS",
               reject |-> "NONE", fix |-> GnssFix(g.ts), anchors |-> {}, alt |-> "gnss"]

(* After an event: publish GNSS or keep what was published.                *)
RefreshAfterEvent ==
  /\ IF GnssPublishable(gnss', denied') THEN PublishGnss(gnss') ELSE UNCHANGED snapshot
  /\ UNCHANGED <<ran, lastSolve>>

(* NAV_EVT_LOCAL_GNSS_SAMPLE *)
LocalGnssSample(t, usable) ==
  /\ gnss' = [present |-> TRUE, usable |-> usable, ts |-> t]
  /\ dirty' = (dirty \/ (denied /\ AllowDeniedGnssAlt /\ ~IgnoreAltitude))
  /\ UNCHANGED <<local, denied, altitude, peer>>
  /\ RefreshAfterEvent

(* NAV_EVT_LOCAL_ALTITUDE_SAMPLE: the stamp alone is no change of input.   *)
LocalAltitudeSample(t, valid, alt) ==
  LET changed == \/ ~altitude.present
                 \/ altitude.alt # alt
                 \/ altitude.valid # valid
  IN  /\ altitude' = [present |-> TRUE, valid |-> valid, ts |-> t, alt |-> alt]
      /\ dirty' = (dirty \/ (changed /\ ~IgnoreAltitude))
      /\ UNCHANGED <<local, denied, gnss, peer>>
      /\ RefreshAfterEvent

(* NAV_EVT_PEER_TELEMETRY_RX *)
PeerTelemetryRx(t, p, kind) ==
  /\ peer' = [peer EXCEPT ![p] = UpdateTelemetry(@, kind, t)]
  /\ dirty' = TRUE
  /\ UNCHANGED <<local, denied, gnss, altitude>>
  /\ RefreshAfterEvent

(* Mutated form: a range result does not count as a change of input.       *)
RangeResult_NotDirty(t, p, valid, class) ==
  /\ peer' = [peer EXCEPT ![p] = UpdateRange(@, valid, class, t)]
  /\ UNCHANGED <<local, denied, gnss, altitude, dirty>>
  /\ RefreshAfterEvent

(* NAV_EVT_RANGE_RESULT *)
RangeResult(t, p, valid, class) ==
  /\ peer' = [peer EXCEPT ![p] = UpdateRange(@, valid, class, t)]
  /\ dirty' = TRUE
  /\ UNCHANGED <<local, denied, gnss, altitude>>
  /\ RefreshAfterEvent

(* NAV_EVT_RANGE_FAIL *)
RangeFail(t, p) ==
  /\ IF RetainRange
     THEN UNCHANGED <<peer, dirty>>
     ELSE /\ peer' = [peer EXCEPT ![p] = UpdateRange(@, FALSE, "none", t)]
          /\ dirty' = TRUE
  /\ UNCHANGED <<local, denied, gnss, altitude>>
  /\ RefreshAfterEvent

(* Mutated form: a change of denial does not count as a change of input.   *)
ConfigCommand_NotDirty(on) ==
  /\ denied' = on
  /\ UNCHANGED <<local, gnss, altitude, peer, dirty>>
  /\ RefreshAfterEvent

(* NAV_EVT_CONFIG_COMMAND: FORCE_GPS_DENIED with enabled = on; USE_GNSS is *)
(* the same as switching it off.                                           *)
ConfigCommand(on) ==
  /\ denied' = on
  /\ dirty' = TRUE
  /\ UNCHANGED <<local, gnss, altitude, peer>>
  /\ RefreshAfterEvent

(* nav_core_tick: latch expired evidence, then publish or attempt a solve. *)
Tick(t) ==
  LET marked == [p \in Node |-> MarkStale(peer[p], t)]
  IN  /\ UNCHANGED <<local, denied, gnss, altitude>>
      /\ IF GnssPublishable(gnss, denied)
         THEN /\ PublishGnss(gnss)
              /\ peer' = marked
              /\ UNCHANGED <<dirty, ran, lastSolve>>
         ELSE AttemptRadioSolution(marked, t)

-----------------------------------------------------------------------------
(* The values that mode, status and source take together.                  *)
Published ==
  {<<"BOOT", "NONE", "NONE">>, <<"GNSS_OK", "GNSS_DIRECT", "LOCAL_GNSS">>,
   <<"RADIO_NAV_OK", "RADIO_3D", "RADIO_3D">>,
   <<"RADIO_NAV_DEGRADED", "DEGRADED", "RADIO_3D">>,
   <<"NO_NAV_SOLUTION", "REJECTED", "NONE">>}

(* Every variable of the core has its type, and the fields of a published  *)
(* snapshot belong together.                                               *)
SnapshotOK(s) ==
  /\ <<s.mode, s.status, s.source>> \in Published
  /\ s.reject \in SolveReject
  /\ s.fix.kind \in {"none", "gnss", "radio"}
  /\ s.anchors \in SUBSET Node
  /\ s.alt \in AltSource

CoreTypeOK ==
  /\ local \in Node
  /\ denied \in BOOLEAN
  /\ gnss \in [present : BOOLEAN, usable : BOOLEAN, ts : Int]
  /\ altitude \in [present : BOOLEAN, valid : BOOLEAN, ts : Int, alt : AltitudeValue \cup {0}]
  /\ peer \in [Node -> Entry]
  /\ dirty \in BOOLEAN
  /\ ran \in BOOLEAN
  /\ lastSolve \in Int
  /\ SnapshotOK(snapshot)

(* A radio position rests only on peers that vouched for a GNSS position   *)
(* at the time of the range, never on an estimated or blank one and never  *)
(* on this node itself, whatever the peer has sent since: the position is  *)
(* judged when the range arrives (UpdateRange), the sender's GNSS again    *)
(* when the solve runs (AnchorReject), in any order of beacons and ranges. *)
EstimatedNeverAnchors ==
  \A ev \in snapshot.fix.basis :
    /\ ev.pos \in {"gnss", "gnss2d"}
    /\ ev.peer # local

(* The position a solve pairs with a range is one that had arrived when    *)
(* the range was measured: a later beacon of a moving peer must not be     *)
(* combined with an older range.                                           *)
EvidencePaired ==
  \A ev \in snapshot.fix.basis : ev.posTs <= ev.rngTs /\ ev.rngTs <= snapshot.fix.at

(* At the time of the solve every range was within its time to live and    *)
(* the position locked to it within the two times to live together.        *)
EvidenceFresh ==
  \A ev \in snapshot.fix.basis :
    /\ RangeTtl > 0 => snapshot.fix.at - ev.rngTs <= RangeTtl
    /\ RangeTtl > 0 /\ TelemetryTtl > 0 =>
         snapshot.fix.at - ev.posTs <= TelemetryTtl + RangeTtl

(* While no input has changed since the last solve, the evidence of the    *)
(* published radio position is still the evidence in the table: a skip for *)
(* unchanged inputs never hides a newer range or position.                 *)
UnchangedMeansCurrent ==
  ~dirty => \A ev \in snapshot.fix.basis : ev = Evidence(ev.peer, peer[ev.peer])

(* GNSS_OK outlives the command that denies GNSS only while a solve is     *)
(* pending: the next due tick must leave it, so it may not be taken for    *)
(* a tick with unchanged inputs.                                           *)
DeniedGnssTransient == denied /\ snapshot.mode = "GNSS_OK" => dirty

(* A radio solution in forced denial never borrows its altitude from the   *)
(* denied receiver unless the configuration allows it.  (Out of denial a   *)
(* usable sample is published instead of solved with.)                     *)
RadioAltitudeIndependent ==
  snapshot.source = "RADIO_3D" /\ snapshot.alt = "gnss" => AllowDeniedGnssAlt
=============================================================================
