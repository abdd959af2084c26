------------------------------ MODULE PeerTable ------------------------------
(***************************************************************************)
(* One entry of the peer table (core/src/nav_peer_table.c) and the anchor  *)
(* eligibility test of nav_quality_score_anchor and                        *)
(* nav_select_radio_anchors.  Every operator is pure: it maps an entry and *)
(* a time stamp to an entry or to a verdict.                               *)
(*                                                                         *)
(* Times are the true times of a clock that never wraps.  The code keeps   *)
(* uint32_t milliseconds and only ever looks at differences of two stamps, *)
(* which is what AgeAt computes: the true difference modulo ClockMod       *)
(* (2^32 in the code).                                                     *)
(*                                                                         *)
(* Data abstraction: a position is only how the sender obtained it, which  *)
(* also says its fix type ("none" is the all-zero position without a fix,  *)
(* "blank" an unusable position sent with a 3D fix); a range is only the   *)
(* class the eligibility test puts it in.                                  *)
(***************************************************************************)
EXTENDS Integers, FiniteSets

CONSTANTS
  TelemetryTtl,      \* telemetry_ttl_ms, 0 for no limit
  RangeTtl,          \* range_ttl_ms, 0 for no limit
  MinAnchorQuality,  \* min_anchor_quality, in units of 1 / (TelemetryTtl * RangeTtl)
  ClockMod           \* 2^32: a millisecond stamp wraps here

ASSUME TtlAssumption ==
  /\ TelemetryTtl \in Nat
  /\ RangeTtl \in Nat
  /\ MinAnchorQuality \in Nat
ASSUME ClockAssumption == ClockMod \in Nat \ {0}

PosKind == {"none", "gnss", "gnss2d", "blank", "estimated"}
GnssValid == {"gnss", "gnss2d", "blank"}   \* gnss_valid in the beacon
Fix3d == {"gnss", "blank"}                 \* fix_type >= NAV_GNSS_FIX_3D
Located == {"gnss", "gnss2d", "estimated"} \* peer_position_valid
RangeClass == {"none", "good", "noisy"}
TableReject == {"NONE", "STALE_TELEMETRY", "STALE_RANGE", "BAD_GNSS",
                "BAD_POSITION", "BAD_RANGE_SIGMA"}

Entry == [present : BOOLEAN,
          telTs : Int, gnss : BOOLEAN, pos : PosKind,
          rngTs : Int, rngValid : BOOLEAN, rng : RangeClass,
          rposTs : Int, rposValid : BOOLEAN, rpos : PosKind,
          reject : TableReject]

(* nav_peer_table_init: memset to zero. *)
EmptyEntry == [present |-> FALSE,
               telTs |-> 0, gnss |-> FALSE, pos |-> "none",
               rngTs |-> 0, rngValid |-> FALSE, rng |-> "none",
               rposTs |-> 0, rposValid |-> FALSE, rpos |-> "none",
               reject |-> "NONE"]

(* now_ms - stamp, in uint32_t arithmetic. *)
AgeAt(t, stamp) == (t - stamp) % ClockMod

(* Mutated form: one unit past the time to live is still fresh.            *)
Expired_OneLate(t, stamp, ttl) == ttl > 0 /\ AgeAt(t, stamp) > ttl + 1

Expired(t, stamp, ttl) == ttl > 0 /\ AgeAt(t, stamp) > ttl

-----------------------------------------------------------------------------
(* Mutated form: the beacon also moves the position paired with the range. *)
UpdateTelemetry_Live(e, kind, t) ==
  [e EXCEPT !.present = TRUE, !.telTs = t, !.pos = kind,
            !.gnss = (kind \in GnssValid), !.rpos = kind, !.rposTs = t,
            !.reject = "NONE"]

(* A beacon replaces the position and its validity.                        *)
UpdateTelemetry(e, kind, t) ==
  [e EXCEPT !.present = TRUE, !.telTs = t, !.pos = kind,
            !.gnss = (kind \in GnssValid), !.reject = "NONE"]

(* Mutated form: any position is locked as valid, estimated ones too.      *)
UpdateRange_AnyPosition(e, valid, class, t) ==
  [e EXCEPT !.present = TRUE, !.rngTs = t, !.rngValid = valid, !.rng = class,
            !.rpos = e.pos, !.rposTs = e.telTs, !.rposValid = valid,
            !.reject = IF valid THEN "NONE" ELSE "STALE_RANGE"]

(* A range result locks the position that was current when it arrived.     *)
UpdateRange(e, valid, class, t) ==
  [e EXCEPT !.present = TRUE, !.rngTs = t, !.rngValid = valid, !.rng = class,
            !.rpos = e.pos, !.rposTs = e.telTs,
            !.rposValid = valid /\ e.gnss,
            !.reject = IF valid THEN "NONE" ELSE "STALE_RANGE"]

(* Evidence past its time to live is latched as unusable, the telemetry    *)
(* part first.                                                             *)
MarkStaleTelemetry(e, t) ==
  IF e.present /\ Expired(t, e.telTs, TelemetryTtl)
  THEN [e EXCEPT !.gnss = FALSE, !.reject = "STALE_TELEMETRY"]
  ELSE e

(* Mutated form: an expired range is named but not latched.                *)
MarkStaleRange_NotLatched(e, t) ==
  IF e.present /\ Expired(t, e.rngTs, RangeTtl)
  THEN [e EXCEPT !.reject = IF @ = "NONE" THEN "STALE_RANGE" ELSE @]
  ELSE e

MarkStaleRange(e, t) ==
  IF e.present /\ Expired(t, e.rngTs, RangeTtl)
  THEN [e EXCEPT !.rngValid = FALSE, !.rposValid = FALSE,
                 !.reject = IF @ = "NONE" THEN "STALE_RANGE" ELSE @]
  ELSE e

MarkStale(e, t) == MarkStaleRange(MarkStaleTelemetry(e, t), t)

-----------------------------------------------------------------------------
(* freshness_quality, scaled by the time to live: 1 - age / ttl.           *)
Freshness(age, ttl) ==
  IF ttl = 0 THEN 1 ELSE IF age >= ttl THEN 0 ELSE ttl - age

AnchorQuality(e, t) ==
  Freshness(AgeAt(t, e.telTs), TelemetryTtl) * Freshness(AgeAt(t, e.rngTs), RangeTtl)

(* Why an entry is not an anchor: the first test that fails names it.      *)
AnchorReject(e, t) ==
  IF      ~e.present \/ Expired(t, e.telTs, TelemetryTtl) THEN "STALE_TELEMETRY"
  ELSE IF Expired(t, e.rngTs, RangeTtl)                   THEN "STALE_RANGE"
  ELSE IF ~e.gnss \/ e.pos \notin Fix3d                    THEN "BAD_GNSS"
  ELSE IF ~e.rngValid \/ e.rng = "none"                   THEN "STALE_RANGE"
  ELSE IF e.rng = "noisy"                                 THEN "BAD_RANGE_SIGMA"
  ELSE IF ~e.rposValid \/ e.rpos \notin Located           THEN "BAD_POSITION"
  ELSE IF AnchorQuality(e, t) < MinAnchorQuality          THEN "STALE_TELEMETRY"
  ELSE "NONE"

Eligible(e, t) == AnchorReject(e, t) = "NONE"

(* What a solve uses of an anchor: the position locked by the range.       *)
Evidence(p, e) ==
  [peer |-> p, pos |-> e.rpos, posTs |-> e.rposTs, rngTs |-> e.rngTs]
=============================================================================
