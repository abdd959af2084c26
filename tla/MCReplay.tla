------------------------------- MODULE MCReplay -------------------------------
(***************************************************************************)
(* An instance of Replay: two peers, both needed for a solve, so that      *)
(* their evidence ages apart.  Peers are interchangeable (see MCNavHost);  *)
(* the files do not name them.                                             *)
(***************************************************************************)
EXTENDS Replay, TLC

CONSTANTS n0, n1, n2

FieldNode == {n0, n1, n2}
FieldPeer == {n1, n2}
PeerSymmetry == Permutations(FieldPeer)

Row(key, value) == [key |-> key, value |-> value]

(* A truth and an expected radio solution; GNSS allowed and expected, no   *)
(* truth; a misspelt key; a truth of no use.                               *)
Recordings ==
  {[config |-> <<Row("expect_final_mode", "RADIO_NAV_OK"), Row("expect_final_reject", "NONE")>>,
    truth |-> TruthTable({<<2, n0>>})],
   [config |-> <<Row("telemetry_ttl_ms", "number"), Row("demo_force_gps_denied", "false"),
                 Row("expect_final_source", "LOCAL_GNSS")>>, truth |-> NoTruth],
   [config |-> <<Row("expect_final_source", "RADIO_3D"), Row("gps_denied", "true")>>,
    truth |-> NoTruth],
   [config |-> <<>>, truth |-> BadTruth]}
=============================================================================
