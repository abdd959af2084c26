----------------------------- MODULE NavSolution -----------------------------
(***************************************************************************)
(* What a node promises of the position it publishes, whatever its core    *)
(* does inside: at any time it shows nothing, its own GNSS position, or a  *)
(* radio position together with the evidence it rests on.  No peer table,  *)
(* no generation counter, no solve cadence: NavHost implements this.       *)
(***************************************************************************)
EXTENDS Integers, FiniteSets

CONSTANTS
  Node,           \* the node ids
  LocalNode,      \* this node
  AnchorCount,    \* the peers a radio position takes
  TelemetryTtl,   \* how long a peer's position may be used, 0 for no limit
  RangeTtl,       \* how long a range may be used, 0 for no limit
  SolveInterval   \* how long after its last check a radio position may stay

VARIABLES
  time,     \* the time the node has reached
  forced,   \* GNSS is denied by configuration
  shown     \* the published position

solutionVars == <<time, forced, shown>>

Nothing == [source |-> "none", at |-> 0, basis |-> {}]
Gnss(stamp) == [source |-> "gnss", at |-> stamp, basis |-> {}]

Init ==
  /\ time = 0
  /\ forced \in BOOLEAN
  /\ shown = Nothing

(* One piece of evidence fit for a radio position of time t: a position    *)
(* another node vouched for with its GNSS, arrived before the range it is  *)
(* paired with, both alive.                                                *)
Fit(ev, t) ==
  /\ ev.peer \in Node \ {LocalNode}
  /\ ev.pos \in {"gnss", "gnss2d"}
  /\ ev.posTs <= ev.rngTs
  /\ ev.rngTs <= t
  /\ RangeTtl > 0 => t - ev.rngTs <= RangeTtl
  /\ RangeTtl > 0 /\ TelemetryTtl > 0 => t - ev.posTs <= TelemetryTtl + RangeTtl

(* Evidence may still be shown: it is alive, or it was when last checked.  *)
Alive(ev, t) ==
  RangeTtl > 0 => t - ev.rngTs <= RangeTtl \/ t - ev.rngTs < RangeTtl + SolveInterval

Peers(basis) == {ev.peer : ev \in basis}

-----------------------------------------------------------------------------
(* The node goes on showing what it shows while that is alive.             *)
Keep ==
  /\ shown.source = "radio" => \A ev \in shown.basis : Alive(ev, time')
  /\ UNCHANGED shown

Withdraw == shown' = Nothing

ShowGnss ==
  /\ ~forced'
  /\ shown' = Gnss(shown'.at)
  /\ shown'.at <= time'

(* A radio position takes exactly AnchorCount peers, one piece of evidence *)
(* each, and never goes back to an older range of a peer it already used.  *)
ShowRadio ==
  /\ shown' = [source |-> "radio", at |-> time', basis |-> shown'.basis]
  /\ \A ev \in shown'.basis : Fit(ev, time')
  /\ Cardinality(Peers(shown'.basis)) = AnchorCount
  /\ \A e1, e2 \in shown'.basis : e1.peer = e2.peer => e1 = e2
  /\ \A old \in shown.basis, new \in shown'.basis :
       old.peer = new.peer => old.rngTs <= new.rngTs

Next ==
  /\ time' >= time
  /\ forced' \in BOOLEAN
  /\ Keep \/ Withdraw \/ ShowGnss \/ ShowRadio

Spec == Init /\ [][Next]_solutionVars
=============================================================================
