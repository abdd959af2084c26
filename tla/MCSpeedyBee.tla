----------------------------- MODULE MCSpeedyBee -----------------------------
(***************************************************************************)
(* An instance of SpeedyBee: three nodes, of which 1 is the ESP32; frames  *)
(* whose values lie on the borders of their fields.                        *)
(***************************************************************************)
EXTENDS SpeedyBee

Lowest == -2147483647 - 1
Highest == 2147483647

Beacon(id) ==
  [node_id |-> id, packet_seq |-> 65536, timestamp_ms |-> Highest,
   lat_e7 |-> -900000000, lon_e7 |-> Lowest, alt_mm |-> -1,
   vel_n |-> Highest, vel_e |-> -32769, vel_d |-> -256,
   fix_type |-> 3, gnss_valid |-> TRUE, nav_mode |-> 4, solution_status |-> 0,
   solution_source |-> 2]

MCBeacons == {Beacon(0), Beacon(1)}

MCHeartbeats ==
  {[node_id |-> 1, uptime_ms |-> Highest, status_flags |-> 0, frame_index |-> 70000,
    slot_index |-> 3, slot_ms |-> 500, slot_elapsed_ms |-> 499]}

MCRanges ==
  {[peer_id |-> 1, valid |-> TRUE, timestamp_ms |-> 16777216, range_mm |-> 255,
    range_sigma_mm |-> 1000, rssi_dbm |-> -32768, snr_db |-> 32767, request_id |-> 65535]}

Report(id, residual, score, anchors) ==
  [node_id |-> id, nav_mode |-> 4, solution_status |-> 1, solution_source |-> 2,
   num_anchors |-> anchors, anchor1 |-> 0, anchor2 |-> 255, anchor3 |-> 255,
   fix_type |-> 0, satellites |-> 0, geometry |-> score, quality |-> 1000 - score,
   residual_rms_mm |-> residual, max_residual_mm |-> Highest, hdop_centi |-> 9999,
   hacc_mm |-> Highest, vacc_mm |-> 0, lat_e7 |-> Lowest, lon_e7 |-> 1800000000,
   alt_mm |-> -255, packet_seq |-> 1]

MCReports == {Report(1, 65536, 999, 4), Report(3, 255, -1, 3)}
=============================================================================
