------------------------------- MODULE NavHost -------------------------------
(***************************************************************************)
(* The core under a sequential caller with an exact clock: the replay      *)
(* runner (tools/replay/nav_replay.c), which feeds rows whose times never  *)
(* go backwards and ticks the core before the first row of every new time, *)
(* and the host tests, which also send configuration commands.  time_ms is *)
(* at most UINT32_MAX, so no age ever wraps here.                          *)
(***************************************************************************)
EXTENDS NavCore

CONSTANTS
  LocalNode,      \* local_node_id of the run
  Heard,          \* the peer ids that rows carry
  TelemetryKind,  \* the kinds of position that beacons carry
  ValidRange,     \* the classes of the valid ranges
  Commanded,      \* the denials a command may set: none in a replay
  MaxTime         \* bound on time_ms, below ClockMod as in the code

ASSUME HostAssumption ==
  /\ LocalNode \in Node
  /\ Heard \subseteq Node
  /\ TelemetryKind \subseteq PosKind
  /\ ValidRange \subseteq RangeClass
  /\ Commanded \subseteq BOOLEAN
  /\ MaxTime \in Nat
  /\ MaxTime < ClockMod

VARIABLES
  now,      \* last_time_ms
  haveTime  \* have_time

vars == <<coreVars, now, haveTime>>

(* demo_force_gps_denied comes from replay_config.csv.                     *)
Init ==
  /\ \E forcedDenied \in BOOLEAN : CoreInit(LocalNode, forcedDenied, FALSE)
  /\ now = 0
  /\ haveTime = FALSE

Event(t) ==
  \/ \E usable \in BOOLEAN : LocalGnssSample(t, usable)
  \/ \E valid \in BOOLEAN, alt \in AltitudeValue : LocalAltitudeSample(t, valid, alt)
  \/ \E p \in Heard, kind \in TelemetryKind : PeerTelemetryRx(t, p, kind)
  \/ \E p \in Heard, class \in ValidRange : RangeResult(t, p, TRUE, class)
  \/ \E p \in Heard : RangeResult(t, p, FALSE, "none")
  \/ \E p \in Heard : RangeFail(t, p)
  \/ \E on \in Commanded : ConfigCommand(on)

(* The first row is applied without a tick before it.                      *)
FirstRow(t) ==
  /\ ~haveTime
  /\ haveTime' = TRUE
  /\ now' = t
  /\ Event(t) \/ Tick(t)

(* A row of a later time ticks first, whatever its event.                  *)
Advance(t) ==
  /\ haveTime
  /\ t > now
  /\ now' = t
  /\ Tick(t)
  /\ UNCHANGED haveTime

(* The event of the row just ticked for, or a further row of that time.    *)
SameTimeRow ==
  /\ haveTime
  /\ Event(now) \/ Tick(now)
  /\ UNCHANGED <<now, haveTime>>

Next ==
  \/ \E t \in 0 .. MaxTime : FirstRow(t)
  \/ \E t \in 0 .. MaxTime : Advance(t)
  \/ SameTimeRow

Spec == Init /\ [][Next]_vars

-----------------------------------------------------------------------------
(* The core's types under this driver; its clock stays in its bound.       *)
TypeOK ==
  /\ CoreTypeOK
  /\ now \in 0 .. MaxTime
  /\ haveTime \in BOOLEAN

(* A radio position is never shown long after its evidence has expired:    *)
(* a tick within the solve interval keeps it, a due one must withdraw it,  *)
(* so a range is at most its time to live and one interval old.            *)
RadioFixRecent ==
  snapshot.source = "RADIO_3D" /\ RangeTtl > 0 =>
    \A ev \in snapshot.fix.basis :
      now - ev.rngTs <= RangeTtl \/ now - ev.rngTs < RangeTtl + SolveInterval

(* A due tick of a later time decides anew: a radio solution survives it   *)
(* only with enough eligible anchors and a fresh altitude, and GNSS_OK     *)
(* does not survive forced denial.                                         *)
DueTickDecides ==
  [][haveTime /\ now' > now /\ Due(now') /\ ~GnssPublishable(gnss, denied) =>
       /\ snapshot'.source = "RADIO_3D" =>
            /\ Cardinality(Candidates(peer', now')) >= AnchorCount
            /\ ResolvedAltitude(now') # "none"
       /\ denied => snapshot'.mode # "GNSS_OK"]_vars

-----------------------------------------------------------------------------
(* What the node shows to its operator and to its peers: a rejected        *)
(* snapshot shows nothing, also when it still carries a position.          *)
Shown ==
  [source |-> CASE snapshot.source = "RADIO_3D"   -> "radio"
                [] snapshot.source = "LOCAL_GNSS" -> "gnss"
                [] snapshot.source = "NONE"       -> "none",
   at     |-> IF snapshot.source = "NONE" THEN 0 ELSE snapshot.fix.at,
   basis  |-> IF snapshot.source = "RADIO_3D" THEN snapshot.fix.basis ELSE {}]

Solution == INSTANCE NavSolution WITH time <- now, forced <- denied, shown <- Shown

(* The core under this driver keeps the node's promise: every step of it   *)
(* keeps, withdraws or replaces the shown position as NavSolution allows.  *)
ImplementsSolution == Solution!Spec

-----------------------------------------------------------------------------
(* What the documentation says and the code does not do.                   *)

(* docs/state_machine.md: GNSS_OK means that local GNSS is usable and not  *)
(* denied, and NO_NAV_SOLUTION goes to RADIO_NAV_OK when a radio solve     *)
(* becomes available.  Stated of a due tick of a later time, which has had *)
(* every occasion to leave a GNSS_OK whose receiver is gone, and, with     *)
(* enough anchors and a fresh altitude, a rejection for want of altitude.  *)
ModeAsDocumented ==
  [][haveTime /\ now' > now /\ Due(now') =>
       /\ snapshot'.mode = "GNSS_OK" => gnss'.usable /\ ~denied'
       /\ snapshot'.reject = "MISSING_LOCAL_ALTITUDE" =>
            \/ Cardinality(Candidates(peer', now')) < AnchorCount
            \/ ResolvedAltitude(now') = "none"]_vars
=============================================================================
