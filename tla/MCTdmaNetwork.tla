--------------------------- MODULE MCTdmaNetwork ---------------------------
(***************************************************************************)
(* The constants of TdmaNetwork that a configuration cannot write.         *)
(***************************************************************************)
EXTENDS TdmaNetwork

EarlyOrExact == {-1, 0}
=============================================================================
