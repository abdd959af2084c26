--------------------------------- MODULE Tdma ---------------------------------
(***************************************************************************)
(* The fixed TDMA schedule (core/src/nav_tdma.c): a frame has one beacon   *)
(* slot for every node and then one ranging slot for every pair of nodes,  *)
(* the lower id being the master.  Every operator is pure: it maps an      *)
(* aligned time to a slot and to what a node does in it.                   *)
(***************************************************************************)
EXTENDS Integers, FiniteSets

CONSTANTS
  N,          \* NAV_MAX_NODES; the members are the ids 0 .. N - 1
  SlotTime,   \* NAV_TDMA_FIXED_SLOT_MS
  BeaconMin,  \* NAV_TDMA_BEACON_MIN_REMAINING_MS
  RangeMin,   \* NAV_TDMA_RANGE_MIN_REMAINING_MS
  Timeout     \* NAV_TDMA_AUTHORITY_TIMEOUT_MS

ASSUME ScheduleAssumption ==
  /\ N \in Nat \ {0}
  /\ SlotTime \in Nat \ {0}
  /\ BeaconMin \in 0 .. SlotTime
  /\ RangeMin \in 0 .. SlotTime
  /\ Timeout \in Nat

Id == 0 .. N - 1
Authority == 0    \* NAV_TDMA_AUTHORITY_ID, the lowest member
Nobody == N       \* NAV_INVALID_NODE_ID

Pair == {p \in Id \X Id : p[1] < p[2]}

SlotsPerFrame == N + (N * (N - 1)) \div 2

(* ranging_pair walks the upper triangle of the members row by row.        *)
WalkedBefore(p, q) == p[1] < q[1] \/ (p[1] = q[1] /\ p[2] < q[2])
RangingPair(k) ==
  CHOOSE p \in Pair : Cardinality({q \in Pair : WalkedBefore(q, p)}) = k

AbsoluteSlot(aligned) == aligned \div SlotTime
Elapsed(aligned) == aligned % SlotTime
Remaining(aligned) == SlotTime - Elapsed(aligned)

IsBeaconSlot(slot) == slot % SlotsPerFrame < N

(* from_id and to_id of a slot.                                            *)
Owners(slot) ==
  LET index == slot % SlotsPerFrame
  IN  IF IsBeaconSlot(slot) THEN [from |-> index, to |-> Nobody]
      ELSE [from |-> RangingPair(index - N)[1], to |-> RangingPair(index - N)[2]]

(* nav_tdma_action_at, with the role a listener has in a ranging slot.     *)
ActionAt(slot, n) ==
  LET o == Owners(slot)
  IN  IF o.from = n THEN (IF IsBeaconSlot(slot) THEN "TX_BEACON" ELSE "RANGE_PEER")
      ELSE IF o.to = n THEN "RANGE_SLAVE" ELSE "LISTEN"

(* nav_tdma_action_can_start                                               *)
CanStart(action, aligned) ==
  /\ action = "TX_BEACON" => Remaining(aligned) >= BeaconMin
  /\ action = "RANGE_PEER" => Remaining(aligned) >= RangeMin

(* Mutated form: the first timing is kept for ever.                        *)
AuthorityExpired_Never(t, heard) == FALSE

(* nav_tdma_authority_expired                                              *)
AuthorityExpired(t, heard) == t - heard > Timeout
=============================================================================
