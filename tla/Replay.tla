-------------------------------- MODULE Replay --------------------------------
(***************************************************************************)
(* The replay runner (tools/replay/nav_replay.c) over one recording:       *)
(* replay_config.csv and truth.csv are loaded, then every line of          *)
(* events.csv is read, validated and applied to the core, and the exit     *)
(* status tells whether all of it went well.  NavHost is the runner seen   *)
(* from the core; here are the files, the rejections and the verdict.      *)
(*                                                                         *)
(* Data abstraction: a row is its time, its type and at most one faulty    *)
(* column; what else it carries is chosen when it is applied.  A column is *)
(* empty, or its text does not parse or is out of range (invalid), or it   *)
(* is an integer that is no coordinate (outside).  The error of a compared *)
(* position is within the limits or beyond them.                           *)
(***************************************************************************)
EXTENDS NavHost, SequencesExt

CONSTANTS
  Recording,    \* what may lie beside events.csv: the data rows of replay_config.csv,
                \* <<>> for no file, and the truth table
  FaultyColumn  \* the columns in which a row of events.csv may be faulty

(* A row carries no configuration command, and a beacon that claims GNSS   *)
(* valid without usable coordinates does not build (RowBuilds).            *)
ASSUME ReplayAssumption == Commanded = {} /\ "blank" \notin TelemetryKind

VARIABLES
  phase,     \* where replay_file is
  conf,      \* config and replay_extra as far as the runner reads them
  truth,     \* truth_ptr
  stats,     \* compare_stats
  status,    \* the exit status
  skipped    \* history: a data row of the recording was read and not applied

runVars == <<phase, conf, truth, stats, status, skipped>>
replayVars == <<vars, runVars>>

-----------------------------------------------------------------------------
(* apply_config_row: what the parser of a key accepts; the values expected *)
(* of the final snapshot only as far as the core publishes them.           *)
BoolText == {"true", "false"}
Final(s) ==
  [expect_final_mode |-> s.mode, expect_final_solution |-> s.status,
   expect_final_source |-> s.source, expect_final_reject |-> s.reject]
Expectation ==
  {"expect_final_mode", "expect_final_solution", "expect_final_source", "expect_final_reject"}
ConfigDomain ==
  [key \in Expectation \cup {"telemetry_ttl_ms", "demo_force_gps_denied"} |->
     CASE key = "telemetry_ttl_ms"      -> {"number"}
       [] key = "demo_force_gps_denied" -> BoolText
       [] key = "expect_final_mode"     -> {p[1] : p \in Published}
       [] key = "expect_final_solution" -> {p[2] : p \in Published}
       [] key = "expect_final_source"   -> {p[3] : p \in Published}
       [] key = "expect_final_reject"   -> SolveReject]

(* replay_config_extra_init and replay_file: denied unless the file says   *)
(* otherwise, nothing expected.                                            *)
DefaultConfig ==
  [ok |-> TRUE, denied |-> TRUE, expect |-> [key \in Expectation |-> "any"]]

ApplyConfigRow(c, r) ==
  IF ~c.ok \/ r.key \notin DOMAIN ConfigDomain \/ r.value \notin ConfigDomain[r.key]
  THEN [c EXCEPT !.ok = FALSE]
  ELSE CASE r.key = "demo_force_gps_denied" -> [c EXCEPT !.denied = (r.value = "true")]
         [] r.key \in Expectation           -> [c EXCEPT !.expect[r.key] = r.value]
         [] OTHER                           -> c

(* load_replay_config: a later row of a key replaces an earlier one, and   *)
(* the first row that is not accepted spoils the file.                     *)
LoadConfig(rows) == FoldLeft(ApplyConfigRow, DefaultConfig, rows)

(* load_truth_csv: no file, a file with an unusable row, or a table of     *)
(* rows, of which find_truth_row looks at the time and the node.           *)
NoTruth == [given |-> FALSE, ok |-> TRUE, rows |-> {}]
BadTruth == [given |-> TRUE, ok |-> FALSE, rows |-> {}]
TruthTable(rows) == [given |-> TRUE, ok |-> TRUE, rows |-> rows]

-----------------------------------------------------------------------------
(* build_event: the columns of each event type.                            *)
EventType == {"TICK", "LOCAL_GNSS_SAMPLE", "LOCAL_ALTITUDE_SAMPLE", "PEER_BEACON_RX",
              "RANGE_RESULT", "RANGE_FAIL"}

Velocity == {"vel_n_mmps", "vel_e_mmps", "vel_d_mmps"}
Position == {"lat_e7", "lon_e7", "alt_mm"}
FixData == {"fix_type", "gnss_valid", "satellites", "hdop_centi", "hacc_mm", "vacc_mm"}
Signal == {"rssi_dbm", "snr_db"}

Required(type) ==
  {"time_ms", "event_type"} \cup
  CASE type = "TICK"                  -> {}
    [] type = "LOCAL_GNSS_SAMPLE"     -> {"node_id"} \cup Position \cup FixData
    [] type = "LOCAL_ALTITUDE_SAMPLE" -> {"alt_mm", "alt_source", "alt_valid"}
    [] type = "PEER_BEACON_RX"        -> {"peer_id", "packet_seq", "nav_mode"}
                                           \cup Position \cup FixData \cup Signal
    [] type = "RANGE_RESULT"          -> {"peer_id", "request_id", "range_mm",
                                          "range_sigma_mm", "range_valid"} \cup Signal
    [] type = "RANGE_FAIL"            -> {"peer_id", "request_id", "range_fail_reason"}

Optional(type) == IF type \in {"LOCAL_GNSS_SAMPLE", "PEER_BEACON_RX"} THEN Velocity ELSE {}

NoFault == [column |-> "none", how |-> "none"]
Fault ==
  {NoFault} \cup [column : FaultyColumn, how : {"empty", "invalid"}]
            \cup [column : FaultyColumn \cap {"lat_e7", "lon_e7"}, how : {"outside"}]

(* A row yields an event; flagged is its gnss_valid.  Coordinates are      *)
(* checked only in a beacon that claims them valid.                        *)
RowBuilds(type, fault, flagged) ==
  /\ fault.how = "empty" => fault.column \notin Required(type)
  /\ fault.how = "invalid" => fault.column \notin Required(type) \cup Optional(type)
  /\ fault.how = "outside" => ~(type = "PEER_BEACON_RX" /\ flagged)

-----------------------------------------------------------------------------
ReplayInit ==
  /\ Init
  /\ phase = "load"
  /\ \E files \in Recording : conf = LoadConfig(files.config) /\ truth = files.truth
  /\ denied = conf.denied
  /\ stats = [compared |-> FALSE, beyond |-> FALSE]
  /\ status = 0
  /\ skipped = FALSE

(* A file that cannot be loaded ends the run before the core is created.   *)
LoadFails ==
  /\ phase = "load"
  /\ ~conf.ok \/ ~truth.ok
  /\ phase' = "exit"
  /\ status' = 1
  /\ UNCHANGED <<vars, conf, truth, stats, skipped>>

Loaded ==
  /\ phase = "load"
  /\ conf.ok /\ truth.ok
  /\ phase' = "header"
  /\ UNCHANGED <<vars, conf, truth, stats, status, skipped>>

HeaderRow ==
  /\ phase = "header"
  /\ phase' = "events"
  /\ UNCHANGED <<vars, conf, truth, stats, status, skipped>>

-----------------------------------------------------------------------------
(* Mutated form: a recording without a comparable row passes.              *)
TruthPassed_Vacuous == truth.given => ~stats.beyond

(* compare_stats_pass *)
TruthPassed == truth.given => stats.compared /\ ~stats.beyond

(* validate_expected_final *)
AsExpected ==
  \A key \in Expectation : conf.expect[key] \in {"any", Final(snapshot)[key]}

(* The reports and the summary are written however the reading ended.      *)
Finish(result) ==
  /\ phase' = "exit"
  /\ status' = IF TruthPassed /\ AsExpected THEN result ELSE 1
  /\ UNCHANGED <<vars, conf, truth, stats>>

(* A header without all columns, or no header before the file ends.        *)
HeaderMissing ==
  /\ phase = "header"
  /\ Finish(1)
  /\ UNCHANGED skipped

EndOfFile ==
  /\ phase = "events"
  /\ Finish(0)
  /\ UNCHANGED skipped

(* Mutated form: rows are taken in any order of time.                      *)
InOrder_Any(t) == TRUE

(* time_ms never goes backwards.                                           *)
InOrder(t) == haveTime => t >= now

BrokenRow ==
  {r \in [type : EventType, fault : Fault, flagged : BOOLEAN] :
     ~RowBuilds(r.type, r.fault, r.flagged)}

(* The first row that does not split, build or follow in time ends the     *)
(* reading; what was applied before it stays in the outputs.               *)
RowRejected ==
  /\ phase = "events"
  /\ BrokenRow # {} \/ \E t \in 0 .. MaxTime : ~InOrder(t)
  /\ skipped' = TRUE
  /\ Finish(1)

(* A row of a later time, unless it is a tick itself, is applied to a core *)
(* that has been ticked first.                                             *)
TickBeforeRow ==
  /\ phase = "events"
  /\ haveTime
  /\ \E t \in 0 .. MaxTime :
       /\ t # now
       /\ InOrder(t)
       /\ Tick(t)
       /\ now' = t
  /\ phase' = "apply"
  /\ UNCHANGED <<haveTime, conf, truth, stats, status, skipped>>

(* compare_snapshot_with_truth for the snapshot s written at time t: only  *)
(* a full radio solution is compared, with the truth row of its time and   *)
(* node.                                                                   *)
Comparable(s, t) ==
  /\ s.status = "RADIO_3D" /\ s.source = "RADIO_3D"
  /\ <<t, local>> \in truth.rows

Compare(s, t) ==
  IF Comparable(s, t)
  THEN \E beyond \in BOOLEAN : stats' = [compared |-> TRUE, beyond |-> stats.beyond \/ beyond]
  ELSE UNCHANGED stats

(* emit_outputs for the event just applied.                                *)
EmitOutputs(t) ==
  /\ Compare(snapshot', t)
  /\ now' = t
  /\ haveTime' = TRUE
  /\ phase' = "events"
  /\ UNCHANGED <<conf, truth, status, skipped>>

TickRow ==
  /\ phase = "events"
  /\ \E t \in 0 .. MaxTime : InOrder(t) /\ Tick(t) /\ EmitOutputs(t)

ApplyRow ==
  \/ /\ phase = "apply"
     /\ Event(now)
     /\ EmitOutputs(now)
  \/ /\ phase = "events"
     /\ \E t \in 0 .. MaxTime :
          /\ haveTime => t = now
          /\ Event(t)
          /\ EmitOutputs(t)

Exited ==
  /\ phase = "exit"
  /\ UNCHANGED replayVars

ReplayNext ==
  \/ LoadFails \/ Loaded
  \/ HeaderRow \/ HeaderMissing
  \/ RowRejected \/ TickBeforeRow \/ TickRow \/ ApplyRow \/ EndOfFile
  \/ Exited

ReplaySpec == ReplayInit /\ [][ReplayNext]_replayVars

-----------------------------------------------------------------------------
(* Whatever is in the files, the core sees a run of NavHost: events of     *)
(* times that never go backwards, each later time entered by one tick.     *)
ImplementsHost == Spec

(* Exit status 0 is worth something: nothing of the recording was passed   *)
(* over, the final snapshot is as expected, and when there is a truth at   *)
(* least one position was compared with it, all of them within the limits. *)
ZeroMeansAllWell ==
  phase = "exit" /\ status = 0 =>
    /\ ~skipped
    /\ AsExpected
    /\ truth.given => stats = [compared |-> TRUE, beyond |-> FALSE]
=============================================================================
