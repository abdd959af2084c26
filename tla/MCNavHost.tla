------------------------------ MODULE MCNavHost ------------------------------
(***************************************************************************)
(* Instances of NavHost.  Peers are interchangeable: nothing in the core   *)
(* orders node ids, except which of two equally good candidates is kept,   *)
(* and BestAnchors leaves that choice open.                                *)
(***************************************************************************)
EXTENDS NavHost, TLC

CONSTANTS n0, n1, n2

FieldNode == {n0, n1, n2}
FieldPeer == {n1, n2}
PeerSymmetry == Permutations(FieldPeer)
=============================================================================
