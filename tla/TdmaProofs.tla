----------------------------- MODULE TdmaProofs -----------------------------
(***************************************************************************)
(* Proofs about TdmaNetwork, for every number of nodes and every timing    *)
(* that satisfies the stated inequalities: every slot of a frame has its   *)
(* owners and every pair its slot, the radio tasks keep to their slots     *)
(* (ScheduleInv) and therefore do not collide, and as long as nothing      *)
(* disturbs them (CalmInv) a slave listens before its master starts.       *)
(***************************************************************************)
EXTENDS TdmaNetwork, FunctionTheorems, FiniteSetTheorems, TLAPS

-----------------------------------------------------------------------------
(* The inductive invariant.                                                *)

(* What a task d of node n may be in slot s of the schedule that starts at *)
(* e, at time t.                                                           *)
InSlot(n, d, e, s, t) ==
  LET begin == e + s * SlotTime
      end == begin + SlotTime
  IN  /\ d.kind \in OnAirKind => d.from <= t
      /\ d.kind \in {"heartbeat", "beacon", "debug", "ownListen"} => ActionAt(s, n) = "TX_BEACON"
      /\ d.kind \in {"guard", "busyMaster", "master"} => ActionAt(s, n) = "RANGE_PEER"
      /\ d.kind = "heartbeat" => /\ begin <= d.from /\ d.from <= end - BeaconMin
                                 /\ d.until = d.from + HeartbeatTime
      /\ d.kind = "beacon" => /\ begin <= d.from /\ d.from <= end - BeaconMin + HeartbeatTime
                              /\ d.until = d.from + BeaconTime
      /\ d.kind = "debug" => /\ begin <= d.from /\ d.from <= end - DebugMin
                             /\ d.until = d.from + DebugTime /\ d.window = end
      /\ d.kind = "ownListen" => begin <= t /\ d.until = end
      /\ d.kind = "guard" => begin <= t /\ d.until = begin + StartGuard
      /\ d.kind = "busyMaster" => begin + StartGuard <= t
      /\ d.kind = "master" => /\ begin + StartGuard <= d.from
                              /\ d.until <= d.from + MasterTimeout

Active == {"beacon", "debug", "ownListen", "guard", "busyMaster", "master"}

(* How old the authority's timing, last heard at h, may be for a task d    *)
(* whose slot ends at end.                                                 *)
Informed(d, end, h, t) ==
  /\ d.kind = "beacon" => d.from - h <= Timeout /\ end - h <= Timeout + SlotTime
  /\ d.kind = "ownListen" => d.until - h <= Timeout + SlotTime
  /\ d.kind = "debug" => d.from <= d.window /\ d.window - h <= Timeout + SlotTime
  /\ d.kind = "guard" => t - h <= Timeout + SlotTime /\ d.until - h <= Timeout + SlotTime
  /\ d.kind = "busyMaster" => d.until - h <= Timeout + SlotTime + BusyTime
  /\ d.kind = "master" => d.from - h <= Timeout + SlotTime + BusyTime

TaskType(d) == d.kind \in Kind /\ {d.from, d.until, d.window} \subseteq Int

Typed ==
  /\ time \in Nat
  /\ epoch \in [Id -> Int]
  /\ synced \in [Id -> BOOLEAN]
  /\ heard \in [Id -> Int]
  /\ lastSlot \in [Id -> Int]
  /\ realigned \in [Id -> BOOLEAN]
  /\ doing = [n \in Id |-> doing[n]]
  /\ \A n \in Id : TaskType(doing[n])

KeepsSlot(n) == ~realigned[n] => InSlot(n, doing[n], epoch[n], lastSlot[n], time)

HasHeard(n) ==
  /\ heard[n] <= time
  /\ doing[n].kind = "heartbeat" => n = Authority
  /\ n # Authority /\ doing[n].kind \in Active => synced[n]
  /\ n # Authority => Informed(doing[n], epoch[n] + lastSlot[n] * SlotTime + SlotTime, heard[n], time)

ScheduleInv ==
  /\ Typed
  /\ ~realigned[Authority]
  /\ \A n \in Id : KeepsSlot(n) /\ HasHeard(n)

-----------------------------------------------------------------------------
(* Lemmas about the schedule.                                              *)

USE DEF Authority

LEMMA Constants ==
  /\ N \in Nat \ {0} /\ SlotTime \in Nat \ {0} /\ StartGuard \in Nat /\ BeaconMin \in Nat /\ Timeout \in Nat
  /\ HeartbeatTime \in Nat /\ BeaconTime \in Nat /\ DebugTime \in Nat /\ MasterTimeout \in Nat
  /\ DebugMin \in Nat /\ StartGuard \in 0 .. SlotTime /\ BusyTime \in Nat /\ Backoff \in Nat
  /\ MaxLate \in Nat /\ Skews \subseteq Int /\ Id \subseteq Nat /\ Authority \in Id
BY ScheduleAssumption, NetworkAssumption DEF Id

(* A time lies in its slot, and what is left of it is what Remaining says. *)
LEMMA SlotOfTime ==
  ASSUME NEW e \in Int, NEW t \in Int
  PROVE  LET s == AbsoluteSlot(t - e)
         IN  /\ s \in Int
             /\ e + s * SlotTime <= t
             /\ t < e + s * SlotTime + SlotTime
             /\ Remaining(t - e) = e + s * SlotTime + SlotTime - t
<1> DEFINE x == t - e
           q == x \div SlotTime
           r == x % SlotTime
<1>1. x \in Int /\ SlotTime \in Nat \ {0} BY Constants
<1> HIDE DEF x
<1>2. q \in Int /\ r \in 0 .. SlotTime - 1 /\ x = SlotTime * q + r BY <1>1
<1> HIDE DEF q, r
<1>3. SlotTime * q = q * SlotTime /\ q * SlotTime \in Int BY <1>1, <1>2
<1>4. x = t - e BY DEF x
<1>5. AbsoluteSlot(t - e) = q /\ Remaining(t - e) = SlotTime - r
  BY DEF AbsoluteSlot, Remaining, Elapsed, x, q, r
<1>. QED BY <1>1, <1>2, <1>3, <1>4, <1>5

LEMMA Multiples ==
  ASSUME NEW T \in Nat, NEW a \in Int, NEW b \in Int, a < b
  PROVE  a * T + T <= b * T
<1> DEFINE k == b - a - 1
<1>1. k \in Nat /\ b = a + 1 + k OBVIOUS
<1> HIDE DEF k
<1>2. b * T = a * T + T + k * T BY <1>1
<1>3. k * T \in Nat /\ a * T \in Int BY <1>1
<1>. QED BY <1>1, <1>2, <1>3

(* A later slot begins at least a slot's time later.                       *)
LEMMA LaterSlot ==
  ASSUME NEW a \in Int, NEW b \in Int, a < b
  PROVE  a * SlotTime + SlotTime <= b * SlotTime
BY Constants, Multiples

LEMMA RemainderUnique ==
  ASSUME NEW T \in Nat \ {0}, NEW q \in Int, NEW p \in Int,
         NEW r \in 0 .. T - 1, NEW u \in 0 .. T - 1, q * T + r = p * T + u
  PROVE  r = u
<1>1. q * T \in Int /\ p * T \in Int OBVIOUS
<1>2. CASE q < p BY <1>1, <1>2, Multiples
<1>3. CASE p < q BY <1>1, <1>3, Multiples
<1>. QED BY <1>2, <1>3

(* A slot has one owner.                                                   *)
LEMMA OneOwner ==
  ASSUME NEW s, NEW n, NEW m,
         ActionAt(s, n) \in {"TX_BEACON", "RANGE_PEER"},
         ActionAt(s, m) \in {"TX_BEACON", "RANGE_PEER"}
  PROVE  n = m
BY DEF ActionAt

(* The beacon slot right after a ranging slot is the authority's.          *)
LEMMA FrameBegins ==
  ASSUME NEW a \in Int, NEW n, NEW m,
         ActionAt(a, n) = "RANGE_PEER", ActionAt(a + 1, m) = "TX_BEACON"
  PROVE  m = Authority
<1> DEFINE F == SlotsPerFrame
<1>1. N \in Nat \ {0} BY Constants
<1>2. F \in Nat \ {0}
  <2>1. N * (N - 1) \in Nat BY <1>1
  <2>2. (N * (N - 1)) \div 2 \in Nat BY <2>1
  <2>. QED BY <1>1, <2>2 DEF SlotsPerFrame
<1>3. ~(a % F < N) /\ (a + 1) % F < N BY DEF ActionAt, IsBeaconSlot
<1>4. m = (a + 1) % F BY <1>3 DEF ActionAt, Owners, IsBeaconSlot
<1> HIDE DEF F
<1> DEFINE q == a \div F
           r == a % F
<1>5. q \in Int /\ r \in 0 .. F - 1 /\ a = F * q + r BY <1>2
<1> DEFINE p == (a + 1) \div F
           u == (a + 1) % F
<1>6. p \in Int /\ u \in 0 .. F - 1 /\ a + 1 = F * p + u BY <1>2
<1> HIDE DEF q, r, p, u
<1>7. /\ F * q = q * F /\ F * p = p * F /\ (q + 1) * F = q * F + F
      /\ q * F \in Int /\ p * F \in Int
  BY <1>2, <1>5, <1>6
<1>8. CASE r = F - 1
  <2>1. (q + 1) * F + 0 = p * F + u BY <1>2, <1>5, <1>6, <1>7, <1>8
  <2>0. 0 \in 0 .. F - 1 /\ q + 1 \in Int BY <1>2, <1>5
  <2>2. 0 = u BY <1>2, <1>6, <2>0, <2>1, RemainderUnique
  <2>. QED BY <1>4, <2>2 DEF u
<1>9. CASE r < F - 1
  <2>1. q * F + (r + 1) = p * F + u BY <1>2, <1>5, <1>6, <1>7
  <2>0. r + 1 \in 0 .. F - 1 BY <1>2, <1>5, <1>9
  <2>2. r + 1 = u BY <1>2, <1>5, <1>6, <2>0, <2>1, RemainderUnique
  <2>. QED BY <1>1, <1>3, <1>5, <2>2 DEF u, r
<1>. QED BY <1>2, <1>5, <1>8, <1>9

-----------------------------------------------------------------------------
(* How many pairs there are, and that each has its slot in the frame.      *)

LEMMA PairFacts ==
  ASSUME NEW p \in Pair
  PROVE  p[1] \in Nat /\ p[2] \in Nat /\ p[1] < p[2] /\ p = <<p[1], p[2]>>
<1>1. p \in Id \X Id /\ p[1] < p[2] BY DEF Pair
<1>2. p[1] \in Id /\ p[2] \in Id /\ p = <<p[1], p[2]>> BY <1>1
<1>. QED BY <1>1, <1>2, Constants

LEMMA Walk ==
  ASSUME NEW p \in Pair, NEW q \in Pair
  PROVE  /\ ~WalkedBefore(p, p)
         /\ p # q => WalkedBefore(p, q) \/ WalkedBefore(q, p)
         /\ \A r \in Pair : WalkedBefore(r, p) /\ WalkedBefore(p, q) => WalkedBefore(r, q)
<1>1. /\ p[1] \in Nat /\ p[2] \in Nat /\ p = <<p[1], p[2]>>
      /\ q[1] \in Nat /\ q[2] \in Nat /\ q = <<q[1], q[2]>>
  BY PairFacts
<1>2. ~WalkedBefore(p, p) BY <1>1 DEF WalkedBefore
<1>3. p # q => WalkedBefore(p, q) \/ WalkedBefore(q, p)
  <2>1. p # q => p[1] # q[1] \/ p[2] # q[2] BY <1>1
  <2>2. p[1] < q[1] \/ p[1] = q[1] \/ q[1] < p[1] BY <1>1
  <2>3. p[2] < q[2] \/ p[2] = q[2] \/ q[2] < p[2] BY <1>1
  <2>. QED BY <2>1, <2>2, <2>3 DEF WalkedBefore
<1>4. ASSUME NEW r \in Pair, WalkedBefore(r, p), WalkedBefore(p, q) PROVE WalkedBefore(r, q)
  <2>1. r[1] \in Nat /\ r[2] \in Nat BY PairFacts
  <2>. QED BY <1>1, <1>4, <2>1 DEF WalkedBefore
<1>. QED BY <1>2, <1>3, <1>4

LEMMA PairIds == ASSUME NEW a, NEW b, <<a, b>> \in Pair PROVE a \in Id /\ b \in Id
BY DEF Pair

LEMMA IdCount == IsFiniteSet(Id) /\ Cardinality(Id) = N
<1>1. N \in Nat \ {0} /\ 0 \in Int /\ N - 1 \in Int /\ ~(0 > N - 1) /\ N - 1 - 0 + 1 = N BY Constants
<1>. QED BY <1>1, FS_Interval DEF Id

LEMMA PairsFinite == IsFiniteSet(Pair) /\ Cardinality(Pair) \in Nat
<1>1. IsFiniteSet(Id \X Id) BY IdCount, FS_Product
<1>2. Pair \subseteq Id \X Id BY DEF Pair
<1>3. IsFiniteSet(Pair) BY <1>1, <1>2, FS_Subset
<1>. QED BY <1>3, FS_CardinalityType

(* The pairs, the pairs turned round and the diagonal are all there is.    *)
LEMMA PairCount == Cardinality(Pair) = (N * (N - 1)) \div 2
<1> DEFINE Turned == {p \in Id \X Id : p[2] < p[1]}
           Same == {p \in Id \X Id : p[1] = p[2]}
           c == Cardinality(Pair)
<1>1. Id \subseteq Nat /\ N \in Nat \ {0} BY Constants
<1>2. IsFiniteSet(Turned) /\ Cardinality(Turned) = c
  <2> DEFINE f == [p \in Pair |-> <<p[2], p[1]>>]
  <2>1. f \in Bijection(Pair, Turned)
    <3>1. \A p \in Pair : f[p] = <<p[2], p[1]>> /\ f[p] \in Turned
      BY DEF Pair
    <3>2. f \in [Pair -> Turned] BY <3>1
    <3>3. \A p, q \in Pair : f[p] = f[q] => p = q
      BY <3>1 DEF Pair
    <3>4. \A t \in Turned : <<t[2], t[1]>> \in Pair /\ f[<<t[2], t[1]>>] = t
      BY <1>1 DEF Pair
    <3>. QED BY <3>2, <3>3, <3>4, Fun_IsBij
  <2>2. ExistsBijection(Pair, Turned) BY <2>1 DEF ExistsBijection
  <2>. QED BY <2>2, PairsFinite, FS_Bijection
<1>3. IsFiniteSet(Same) /\ Cardinality(Same) = N
  <2> DEFINE f == [i \in Id |-> <<i, i>>]
  <2>1. f \in Bijection(Id, Same)
    <3>1. f \in [Id -> Same] OBVIOUS
    <3>2. \A i, j \in Id : f[i] = f[j] => i = j OBVIOUS
    <3>3. \A t \in Same : t[1] \in Id /\ f[t[1]] = t OBVIOUS
    <3>. QED BY <3>1, <3>2, <3>3, Fun_IsBij
  <2>2. ExistsBijection(Id, Same) BY <2>1 DEF ExistsBijection
  <2>. QED BY <2>2, IdCount, FS_Bijection
<1>4. Cardinality(Id \X Id) = N * N BY IdCount, FS_Product
<1>5. /\ Id \X Id = (Pair \cup Turned) \cup Same
      /\ Pair \cap Turned = {} /\ (Pair \cup Turned) \cap Same = {}
  <2>1. \A p \in Id \X Id : p[1] \in Nat /\ p[2] \in Nat BY <1>1
  <2>2. \A p \in Id \X Id : p[1] < p[2] \/ p[1] = p[2] \/ p[2] < p[1] BY <2>1
  <2>3. \A p \in Id \X Id : /\ ~(p[1] < p[2] /\ p[2] < p[1])
                           /\ ~(p[1] = p[2] /\ (p[1] < p[2] \/ p[2] < p[1]))
    BY <2>1
  <2>4. Id \X Id = (Pair \cup Turned) \cup Same BY <2>2 DEF Pair
  <2>. QED BY <2>3, <2>4 DEF Pair
<1>6. Pair \cap Turned = {} /\ (Pair \cup Turned) \cap Same = {} BY <1>5
<1> HIDE DEF Turned, Same, c
<1>7. Cardinality({}) = 0 BY FS_EmptySet
<1>8. IsFiniteSet(Pair \cup Turned) /\ Cardinality(Pair \cup Turned) = c + c
  <2>1. c \in Nat BY PairsFinite DEF c
  <2>2. Cardinality(Pair \cup Turned) = c + c - 0
    BY <1>2, <1>6, <1>7, PairsFinite, FS_Union DEF c
  <2>3. IsFiniteSet(Pair \cup Turned) BY <1>2, PairsFinite, FS_Union
  <2>. QED BY <2>1, <2>2, <2>3
<1>9. N * N = c + c + N - 0 BY <1>3, <1>4, <1>5, <1>6, <1>7, <1>8, FS_Union
<1>10. c \in Nat BY PairsFinite DEF c
<1>11. N * (N - 1) = 2 * c BY <1>1, <1>9, <1>10
<1>. QED BY <1>10, <1>11 DEF c

(* How many pairs the walk passes before p.                                *)
Before(p) == {q \in Pair : WalkedBefore(q, p)}
Rank(p) == Cardinality(Before(p))

LEMMA RankOrder ==
  ASSUME NEW p \in Pair, NEW q \in Pair, WalkedBefore(p, q) PROVE Rank(p) < Rank(q)
<1>1. IsFiniteSet(Before(p)) /\ IsFiniteSet(Before(q)) BY PairsFinite, FS_Subset DEF Before
<1>2. Before(p) \subseteq Before(q) BY Walk DEF Before
<1>3. p \in Before(q) /\ p \notin Before(p) BY Walk DEF Before
<1>4. Rank(p) <= Rank(q) /\ Rank(p) # Rank(q) BY <1>1, <1>2, <1>3, FS_Subset DEF Rank
<1>5. Rank(p) \in Nat /\ Rank(q) \in Nat BY <1>1, FS_CardinalityType DEF Rank
<1>. QED BY <1>4, <1>5

LEMMA RankRange == ASSUME NEW p \in Pair PROVE Rank(p) \in 0 .. Cardinality(Pair) - 1
<1>1. Before(p) \subseteq Pair /\ p \notin Before(p) BY Walk DEF Before
<1>2. Rank(p) \in Nat BY <1>1, PairsFinite, FS_Subset, FS_CardinalityType DEF Rank
<1>3. Rank(p) <= Cardinality(Pair) /\ Rank(p) # Cardinality(Pair)
  BY <1>1, PairsFinite, FS_Subset DEF Rank
<1>. QED BY <1>2, <1>3, PairsFinite

LEMMA SameRank ==
  ASSUME NEW p \in Pair, NEW q \in Pair, Rank(p) = Rank(q) PROVE p = q
<1> SUFFICES ASSUME p # q PROVE FALSE OBVIOUS
<1>1. WalkedBefore(p, q) \/ WalkedBefore(q, p) BY Walk
<1>2. Rank(p) \in Int /\ Rank(q) \in Int BY RankRange
<1>. QED BY <1>1, <1>2, RankOrder

(* The ranks of the pairs are the indices of the ranging slots.            *)
LEMMA RankOnto == \A k \in 0 .. Cardinality(Pair) - 1 : \E p \in Pair : Rank(p) = k
<1> DEFINE K == 0 .. Cardinality(Pair) - 1
           f == [p \in Pair |-> Rank(p)]
<1>1. f \in [Pair -> K] BY RankRange
<1>2. \A p, q \in Pair : f[p] = f[q] => p = q
  BY SameRank
<1>3. f \in Injection(Pair, K) BY <1>1, <1>2, Fun_IsInj
<1>4. IsFiniteSet(K) /\ Cardinality(K) = Cardinality(Pair)
  <2>1. Cardinality(Pair) \in Nat BY PairsFinite
  <2>. QED BY <2>1, FS_Interval
<1>5. f \in Surjection(Pair, K) BY <1>3, <1>4, PairsFinite, FS_Injection
<1>6. \A k \in K : \E p \in Pair : f[p] = k BY <1>5 DEF Surjection
<1>. QED BY <1>6

LEMMA RangingPairIs ==
  ASSUME NEW k \in 0 .. (N * (N - 1)) \div 2 - 1
  PROVE  RangingPair(k) \in Pair /\ Rank(RangingPair(k)) = k
<1>1. \E p \in Pair : Rank(p) = k BY RankOnto, PairCount
<1>2. RangingPair(k) = CHOOSE p \in Pair : Rank(p) = k BY DEF RangingPair, Rank, Before
<1>. QED BY <1>1, <1>2

LEMMA FrameLength ==
  /\ SlotsPerFrame \in Nat \ {0} /\ (N * (N - 1)) \div 2 \in Nat
  /\ SlotsPerFrame = N + (N * (N - 1)) \div 2
<1>1. N \in Nat \ {0} BY Constants
<1>2. N * (N - 1) \in Nat BY <1>1
<1>3. (N * (N - 1)) \div 2 \in Nat BY <1>2
<1>. QED BY <1>1, <1>3 DEF SlotsPerFrame

(* Where a slot stands in its frame.                                       *)
LEMMA SlotIndex ==
  ASSUME NEW frame \in Int, NEW k \in 0 .. SlotsPerFrame - 1
  PROVE  /\ frame * SlotsPerFrame + k \in Int
         /\ (frame * SlotsPerFrame + k) % SlotsPerFrame = k
<1> DEFINE F == SlotsPerFrame
           slot == frame * F + k
           q == slot \div F
           r == slot % F
<1>1. F \in Nat \ {0} BY FrameLength
<1>2. k \in 0 .. F - 1 OBVIOUS
<1> HIDE DEF F
<1>3. frame * F \in Int /\ k \in Int /\ slot \in Int BY <1>1, <1>2
<1>4. q \in Int /\ r \in 0 .. F - 1 /\ slot = F * q + r BY <1>1, <1>3
<1> HIDE DEF q, r
<1>5. F * q = q * F BY <1>1, <1>4
<1>6. r = k BY <1>1, <1>2, <1>3, <1>4, <1>5, RemainderUnique
<1>. QED BY <1>3, <1>6 DEF F, r

LEMMA SlotIndexRange ==
  ASSUME NEW slot \in Int
  PROVE  slot % SlotsPerFrame \in 0 .. SlotsPerFrame - 1
BY FrameLength

(* Every slot has its owner: a member that sends its beacon, or a pair of  *)
(* members, the lower of which ranges the other (nav_tdma_slot_at for all  *)
(* times and any number of members).                                       *)
THEOREM EverySlotHasItsOwner ==
  ASSUME NEW slot \in Int
  PROVE  /\ IsBeaconSlot(slot) => Owners(slot).from \in Id /\ Owners(slot).to = Nobody
         /\ ~IsBeaconSlot(slot) => <<Owners(slot).from, Owners(slot).to>> \in Pair
<1> DEFINE index == slot % SlotsPerFrame
<1>1. index \in 0 .. SlotsPerFrame - 1 /\ N \in Nat \ {0} BY SlotIndexRange, Constants
<1>2. CASE index < N
  BY <1>1, <1>2 DEF Owners, IsBeaconSlot, Id
<1>3. CASE ~(index < N)
  <2>1. index - N \in 0 .. (N * (N - 1)) \div 2 - 1 BY <1>1, <1>3, FrameLength
  <2>2. RangingPair(index - N) \in Pair BY <2>1, RangingPairIs
  <2>3. <<Owners(slot).from, Owners(slot).to>> = RangingPair(index - N)
    BY <1>3, <2>2, PairFacts DEF Owners, IsBeaconSlot
  <2>. QED BY <1>3, <2>2, <2>3 DEF IsBeaconSlot
<1>. QED BY <1>2, <1>3

(* In every frame each member has a beacon slot, and each pair of members  *)
(* exactly one ranging slot.                                               *)
THEOREM EveryPairHasItsSlot ==
  ASSUME NEW frame \in Int
  PROVE  /\ \A n \in Id : \E k \in 0 .. SlotsPerFrame - 1 :
                ActionAt(frame * SlotsPerFrame + k, n) = "TX_BEACON"
         /\ \A p \in Pair : \E k \in 0 .. SlotsPerFrame - 1 :
                /\ ActionAt(frame * SlotsPerFrame + k, p[1]) = "RANGE_PEER"
                /\ ActionAt(frame * SlotsPerFrame + k, p[2]) = "RANGE_SLAVE"
                /\ \A j \in 0 .. SlotsPerFrame - 1 :
                      /\ ActionAt(frame * SlotsPerFrame + j, p[1]) = "RANGE_PEER"
                      /\ ActionAt(frame * SlotsPerFrame + j, p[2]) = "RANGE_SLAVE"
                      => j = k
<1> DEFINE S(k) == frame * SlotsPerFrame + k
           M == (N * (N - 1)) \div 2
<1>1. N \in Nat \ {0} /\ M \in Nat /\ SlotsPerFrame = N + M BY Constants, FrameLength
<1>2. \A k \in 0 .. SlotsPerFrame - 1 : S(k) \in Int /\ S(k) % SlotsPerFrame = k BY SlotIndex
<1> HIDE DEF S, M
<1>3. ASSUME NEW n \in Id
      PROVE  \E k \in 0 .. SlotsPerFrame - 1 : ActionAt(S(k), n) = "TX_BEACON"
  <2>1. n \in 0 .. SlotsPerFrame - 1 /\ n < N BY <1>1 DEF Id
  <2>2. S(n) % SlotsPerFrame = n BY <1>2, <2>1
  <2>3. ActionAt(S(n), n) = "TX_BEACON" BY <2>1, <2>2 DEF ActionAt, Owners, IsBeaconSlot
  <2>. QED BY <2>1, <2>3
<1>4. ASSUME NEW k \in 0 .. SlotsPerFrame - 1, ~(k < N)
      PROVE  /\ k - N \in 0 .. M - 1 /\ RangingPair(k - N) \in Pair
             /\ Rank(RangingPair(k - N)) = k - N
             /\ Owners(S(k)) = [from |-> RangingPair(k - N)[1], to |-> RangingPair(k - N)[2]]
             /\ ~IsBeaconSlot(S(k))
  <2>1. k - N \in 0 .. M - 1 BY <1>1, <1>4
  <2>2. S(k) % SlotsPerFrame = k BY <1>2
  <2>3. RangingPair(k - N) \in Pair /\ Rank(RangingPair(k - N)) = k - N
    BY <2>1, RangingPairIs DEF M
  <2>. QED BY <1>4, <2>1, <2>2, <2>3 DEF Owners, IsBeaconSlot
<1>5. ASSUME NEW p \in Pair, NEW k \in 0 .. SlotsPerFrame - 1
      PROVE  /\ ActionAt(S(k), p[1]) = "RANGE_PEER" /\ ActionAt(S(k), p[2]) = "RANGE_SLAVE"
             <=> ~(k < N) /\ RangingPair(k - N) = p
  <2>1. CASE k < N
    <3>1. S(k) % SlotsPerFrame = k BY <1>2
    <3>2. ActionAt(S(k), p[1]) # "RANGE_PEER" BY <2>1, <3>1 DEF ActionAt, IsBeaconSlot
    <3>. QED BY <2>1, <3>2
  <2>2. CASE ~(k < N)
    <3> DEFINE r == RangingPair(k - N)
    <3>1. /\ r \in Pair /\ Owners(S(k)) = [from |-> r[1], to |-> r[2]]
          /\ ~IsBeaconSlot(S(k))
      BY <1>4, <2>2
    <3> HIDE DEF r
    <3>2. /\ r = <<r[1], r[2]>> /\ p = <<p[1], p[2]>>
          /\ r[1] \in Nat /\ r[2] \in Nat /\ p[1] \in Nat /\ p[2] \in Nat
          /\ r[1] < r[2] /\ p[1] < p[2]
      BY <3>1, PairFacts
    <3>3. /\ ActionAt(S(k), p[1]) = "RANGE_PEER" <=> r[1] = p[1]
          /\ ActionAt(S(k), p[2]) = "RANGE_SLAVE" <=> r[1] # p[2] /\ r[2] = p[2]
      BY <3>1 DEF ActionAt
    <3>4. r[1] = p[1] /\ r[1] # p[2] /\ r[2] = p[2] <=> r = p BY <3>2
    <3>. QED BY <2>2, <3>3, <3>4 DEF r
  <2>. QED BY <2>1, <2>2
<1>6. ASSUME NEW p \in Pair
      PROVE  \E k \in 0 .. SlotsPerFrame - 1 :
               /\ ActionAt(S(k), p[1]) = "RANGE_PEER"
               /\ ActionAt(S(k), p[2]) = "RANGE_SLAVE"
               /\ \A j \in 0 .. SlotsPerFrame - 1 :
                     ActionAt(S(j), p[1]) = "RANGE_PEER" /\ ActionAt(S(j), p[2]) = "RANGE_SLAVE"
                     => j = k
  <2>1. Rank(p) \in 0 .. M - 1 BY RankRange, PairCount DEF M
  <2>2. RangingPair(Rank(p)) \in Pair /\ Rank(RangingPair(Rank(p))) = Rank(p)
    BY <2>1, RangingPairIs DEF M
  <2>3. RangingPair(Rank(p)) = p BY <2>2, SameRank
  <2> DEFINE k == N + Rank(p)
  <2>4. k \in 0 .. SlotsPerFrame - 1 /\ ~(k < N) /\ k - N = Rank(p) BY <1>1, <2>1
  <2>5. \A j \in 0 .. SlotsPerFrame - 1 : ~(j < N) /\ RangingPair(j - N) = p => j = k
    <3> TAKE j \in 0 .. SlotsPerFrame - 1
    <3> HAVE ~(j < N) /\ RangingPair(j - N) = p
    <3>1. Rank(p) = j - N BY <1>4
    <3>. QED BY <1>1, <3>1
  <2> HIDE DEF k
  <2>6. RangingPair(k - N) = p BY <2>3, <2>4
  <2>. QED BY <1>5, <2>4, <2>5, <2>6
<1>. QED BY <1>3, <1>6 DEF S

-----------------------------------------------------------------------------
(* Lemmas about the invariant.                                             *)

(* Time passing disturbs no task, but for an exchange that waits: that one *)
(* is served before its wait is over.                                      *)
LEMMA TimePasses ==
  ASSUME NEW n, NEW d, TaskType(d), NEW e \in Int, NEW s \in Int, NEW t \in Int,
         InSlot(n, d, e, s, t)
  PROVE  InSlot(n, d, e, s, t + 1)
<1>1. e + s * SlotTime \in Int /\ e + s * SlotTime + SlotTime \in Int /\ StartGuard \in Int
  BY Constants
<1>. QED BY <1>1 DEF InSlot, TaskType, OnAirKind

(* A task that neither transmits nor is about to is fine in any slot.      *)
Idle == {"wait", "listen", "address", "busySlave", "slave", "backoff"}

LEMMA IdleFits ==
  ASSUME NEW d, d.kind \in Idle, NEW n, NEW e, NEW s, NEW t
  PROVE  InSlot(n, d, e, s, t)
BY DEF InSlot, Idle, OnAirKind

LEMMA IdleInformed ==
  ASSUME NEW d, d.kind \in Idle, NEW end, NEW h, NEW t
  PROVE  Informed(d, end, h, t)
BY DEF Informed, Idle

(* One node changes its task and nothing else happens.                     *)
LEMMA OneActs ==
  ASSUME ScheduleInv, NEW n \in Id, NEW d, TaskType(d),
         doing' = [doing EXCEPT ![n] = d],
         UNCHANGED <<time, epoch, synced, heard, lastSlot, realigned>>,
         ~realigned[n] => InSlot(n, d, epoch[n], lastSlot[n], time),
         d.kind = "heartbeat" => n = Authority,
         n # Authority /\ d.kind \in Active => synced[n],
         n # Authority => Informed(d, epoch[n] + lastSlot[n] * SlotTime + SlotTime, heard[n], time)
  PROVE  ScheduleInv'
<1>1. \A m \in Id : doing'[m] = IF m = n THEN d ELSE doing[m] BY DEF ScheduleInv, Typed
<1>2. Typed'
  <2>1. doing' = [m \in Id |-> doing'[m]] BY DEF ScheduleInv, Typed
  <2>2. \A m \in Id : TaskType(doing[m])' BY <1>1 DEF ScheduleInv, Typed, TaskType
  <2>. QED BY <2>1, <2>2 DEF ScheduleInv, Typed
<1>3. ~realigned'[Authority] BY DEF ScheduleInv
<1>4. ASSUME NEW m \in Id PROVE KeepsSlot(m)' /\ HasHeard(m)'
  <2>1. KeepsSlot(m) /\ HasHeard(m) /\ HasHeard(n) BY DEF ScheduleInv
  <2>2. CASE m = n BY <1>1, <2>1, <2>2 DEF KeepsSlot, HasHeard
  <2>3. CASE m # n BY <1>1, <2>1, <2>3 DEF KeepsSlot, HasHeard
  <2>. QED BY <2>2, <2>3
<1>. QED BY <1>2, <1>3, <1>4 DEF ScheduleInv

(* One node gives up the air.                                              *)
LEMMA OneRests ==
  ASSUME ScheduleInv, NEW n \in Id, NEW kind \in Idle, NEW until \in Int, NEW peer,
         Become(n, kind, until, peer),
         UNCHANGED <<time, epoch, synced, heard, lastSlot, realigned>>
  PROVE  ScheduleInv'
<1> DEFINE d == Doing(kind, until, peer)
<1>1. d.kind = kind /\ TaskType(d) BY DEF ScheduleInv, Typed, Doing, TaskType, Idle, Kind, OnAirKind
<1>2. doing' = [doing EXCEPT ![n] = d] BY DEF Become
<1> HIDE DEF d
<1>3. kind # "heartbeat" /\ kind \notin Active BY DEF Idle, Active
<1>. QED BY <1>1, <1>2, <1>3, OneActs, IdleFits, IdleInformed

LEMMA SlotEndInt ==
  ASSUME ScheduleInv, NEW n \in Id
  PROVE  /\ SlotEnd(n) \in Int /\ time \in Int
         /\ SlotEnd(n) = epoch[n] + lastSlot[n] * SlotTime + SlotTime
BY Constants DEF ScheduleInv, Typed, SlotEnd, SlotStart

-----------------------------------------------------------------------------
(* The steps.                                                              *)

LEMMA Initially == Init => ScheduleInv
<1> SUFFICES ASSUME Init PROVE ScheduleInv OBVIOUS
<1> USE DEF Init
<1>1. \A n \in Id : doing[n].kind = "wait" /\ TaskType(doing[n])
  BY DEF Doing, TaskType, Kind, OnAirKind
<1>2. Typed BY <1>1 DEF Typed, NoSlot
<1>3. ASSUME NEW n \in Id PROVE KeepsSlot(n) /\ HasHeard(n)
  BY <1>1, IdleFits, IdleInformed DEF KeepsSlot, HasHeard, Idle, Active
<1>. QED BY <1>2, <1>3, Constants DEF ScheduleInv

LEMMA TickKeeps == ScheduleInv /\ Tick => ScheduleInv'
<1> SUFFICES ASSUME ScheduleInv, Tick PROVE ScheduleInv' OBVIOUS
<1> USE DEF Tick
<1>1. Typed' BY DEF ScheduleInv, Typed, TaskType
<1>2. ~realigned'[Authority] BY DEF ScheduleInv
<1>3. ASSUME NEW n \in Id PROVE KeepsSlot(n)' /\ HasHeard(n)'
  <2>1. /\ epoch[n] \in Int /\ lastSlot[n] \in Int /\ heard[n] \in Int /\ time \in Nat
        /\ TaskType(doing[n]) /\ KeepsSlot(n) /\ HasHeard(n)
        /\ realigned[n] \in BOOLEAN /\ synced[n] \in BOOLEAN
    BY DEF ScheduleInv, Typed
  <2>2. KeepsSlot(n)' BY <2>1, TimePasses DEF KeepsSlot
  <2>3. doing[n].kind = "guard" => time < doing[n].until
    BY <2>1 DEF TaskType, Slack, Passive
  <2>4. n # Authority =>
          Informed(doing[n], epoch[n] + lastSlot[n] * SlotTime + SlotTime, heard[n], time + 1)
    BY <2>1, <2>3, Constants DEF HasHeard, Informed, TaskType
  <2>5. HasHeard(n)' BY <2>1, <2>4 DEF HasHeard
  <2>. QED BY <2>2, <2>5
<1>. QED BY <1>1, <1>2, <1>3 DEF ScheduleInv
(* What serviceTdmaSlot decides is right for the slot it enters.           *)
LEMMA OneDecides ==
  ASSUME ScheduleInv, NEW n \in Id, NEW d, TaskType(d), NEW slot \in Int,
         doing' = [doing EXCEPT ![n] = d],
         lastSlot' = [lastSlot EXCEPT ![n] = slot],
         realigned' = [realigned EXCEPT ![n] = FALSE],
         UNCHANGED <<time, epoch, synced, heard>>,
         InSlot(n, d, epoch[n], slot, time),
         d.kind = "heartbeat" => n = Authority,
         n # Authority /\ d.kind \in Active => synced[n],
         n # Authority => Informed(d, epoch[n] + slot * SlotTime + SlotTime, heard[n], time)
  PROVE  ScheduleInv'
<1>1. ASSUME NEW m \in Id
      PROVE  /\ doing'[m] = IF m = n THEN d ELSE doing[m]
             /\ lastSlot'[m] = IF m = n THEN slot ELSE lastSlot[m]
             /\ m # n => (realigned'[m] <=> realigned[m])
  BY DEF ScheduleInv, Typed
<1>0. realigned'[n] = FALSE BY DEF ScheduleInv, Typed
<1>2. Typed'
  <2>1. doing' = [m \in Id |-> doing'[m]] BY DEF ScheduleInv, Typed
  <2>2. \A m \in Id : TaskType(doing[m])' BY <1>1 DEF ScheduleInv, Typed, TaskType
  <2>. QED BY <2>1, <2>2 DEF ScheduleInv, Typed
<1>3. ~realigned'[Authority] BY <1>0, <1>1, Constants DEF ScheduleInv
<1>4. ASSUME NEW m \in Id PROVE KeepsSlot(m)' /\ HasHeard(m)'
  <2>1. KeepsSlot(m) /\ HasHeard(m) /\ HasHeard(n) BY DEF ScheduleInv
  <2>2. CASE m = n BY <1>1, <2>1, <2>2 DEF KeepsSlot, HasHeard
  <2>3. CASE m # n BY <1>1, <2>1, <2>3 DEF KeepsSlot, HasHeard
  <2>. QED BY <2>2, <2>3
<1>. QED BY <1>2, <1>3, <1>4 DEF ScheduleInv

LEMMA ServiceKeeps == ASSUME ScheduleInv, NEW n \in Id, Service(n) PROVE ScheduleInv'
<1> DEFINE slot == AbsoluteSlot(Aligned(n))
           begin == epoch[n] + slot * SlotTime
<1>1. /\ epoch[n] \in Int /\ lastSlot[n] \in Int /\ heard[n] \in Int /\ time \in Nat
      /\ lastSlot \in [Id -> Int] /\ time \in Int
  BY DEF ScheduleInv, Typed
<1>2. /\ slot \in Int /\ begin \in Int /\ begin <= time /\ time < begin + SlotTime
      /\ Remaining(Aligned(n)) = begin + SlotTime - time
  <2>1. slot = AbsoluteSlot(time - epoch[n]) /\ Aligned(n) = time - epoch[n] BY DEF Aligned
  <2> HIDE DEF slot
  <2>2. /\ slot \in Int /\ epoch[n] + slot * SlotTime <= time
        /\ time < epoch[n] + slot * SlotTime + SlotTime
        /\ Remaining(time - epoch[n]) = epoch[n] + slot * SlotTime + SlotTime - time
    BY <1>1, <2>1, SlotOfTime
  <2>3. begin \in Int BY <1>1, <2>2, Constants
  <2>. QED BY <2>1, <2>2, <2>3
<1>3. EndOf(n, slot) = begin + SlotTime /\ begin + SlotTime \in Int
  <2>1. (slot + 1) * SlotTime = slot * SlotTime + SlotTime /\ slot * SlotTime \in Int
    BY <1>2, Constants
  <2>. QED BY <1>1, <2>1, Constants DEF EndOf
<1>4. /\ UNCHANGED <<time, epoch, synced, heard>>
      /\ realigned' = [realigned EXCEPT ![n] = FALSE]
  BY DEF Service
<1> DEFINE Cancels == \E kind \in Idle, until \in Int : \E peer :
                        doing' = [doing EXCEPT ![n] = Doing(kind, until, peer)]
<1>5. ASSUME Cancels, lastSlot' = [lastSlot EXCEPT ![n] = lastSlot'[n]], lastSlot'[n] \in Int
      PROVE  ScheduleInv'
  <2>0. PICK kind \in Idle, until \in Int :
          \E peer : doing' = [doing EXCEPT ![n] = Doing(kind, until, peer)]
    BY <1>5
  <2>1. PICK peer : doing' = [doing EXCEPT ![n] = Doing(kind, until, peer)]
    BY <2>0
  <2> DEFINE d == Doing(kind, until, peer)
  <2>2. d.kind = kind /\ TaskType(d)
    BY <1>1 DEF Doing, TaskType, Idle, Kind, OnAirKind
  <2>3. doing' = [doing EXCEPT ![n] = d] BY <2>1
  <2> HIDE DEF d
  <2>4. kind # "heartbeat" /\ kind \notin Active BY DEF Idle, Active
  <2>. QED BY <1>4, <1>5, <2>2, <2>3, <2>4, OneDecides, IdleFits, IdleInformed
<1>6. ASSUME UNCHANGED lastSlot
      PROVE  lastSlot' = [lastSlot EXCEPT ![n] = lastSlot'[n]] /\ lastSlot'[n] \in Int
  BY <1>1, <1>6
<1>7. ASSUME EnterSlot(n, slot)
      PROVE  /\ lastSlot' = [lastSlot EXCEPT ![n] = lastSlot'[n]] /\ lastSlot'[n] \in Int
             /\ lastSlot' = [lastSlot EXCEPT ![n] = slot]
  BY <1>1, <1>2, <1>7 DEF EnterSlot
<1>8. {"wait", "listen", "address"} \subseteq Idle BY DEF Idle
<1>9. CASE WaitForAuthority(n)
  <2>1. time + SlotTime \in Int BY <1>1, Constants
  <2>2. Cancels BY <1>8, <1>9, <2>1 DEF WaitForAuthority, Become
  <2>. QED BY <1>5, <1>6, <1>9, <2>2 DEF WaitForAuthority
<1>10. CASE SlotAgain(n, slot)
  <2>1. Cancels BY <1>8, <1>10, SlotEndInt DEF SlotAgain, Become
  <2>. QED BY <1>5, <1>6, <1>10, <2>1 DEF SlotAgain
<1>11. CASE Missed(n, slot)
  <2>1. Cancels BY <1>3, <1>8, <1>11 DEF Missed, Become
  <2>. QED BY <1>5, <1>7, <1>11, <2>1 DEF Missed
<1>12. CASE StartSlaveSlot(n, slot)
  <2>1. Cancels BY <1>1, <1>8, <1>12 DEF StartSlaveSlot, Become
  <2>. QED BY <1>5, <1>7, <1>12, <2>1 DEF StartSlaveSlot
<1>13. CASE StartListenSlot(n, slot)
  <2>1. Cancels BY <1>3, <1>8, <1>13 DEF StartListenSlot, Become
  <2>. QED BY <1>5, <1>7, <1>13, <2>1 DEF StartListenSlot
<1>14. CASE HasTiming(n) /\ StartBeaconSlot(n, slot)
  <2>1. ActionAt(slot, n) = "TX_BEACON" /\ time <= begin + SlotTime - BeaconMin
    BY <1>1, <1>2, <1>14, Constants DEF StartBeaconSlot, CanStart
  <2>2. n # Authority => synced[n] /\ time - heard[n] <= Timeout
    BY <1>1, <1>14, Constants DEF HasTiming, AuthorityExpired
  <2>3. PICK d : /\ doing' = [doing EXCEPT ![n] = d]
                 /\ \/ n = Authority /\ d = Doing("heartbeat", time + HeartbeatTime, Nobody)
                    \/ n # Authority /\ d = Doing("beacon", time + BeaconTime, Nobody)
                    \/ n # Authority /\ d = Doing("ownListen", EndOf(n, slot), Nobody)
    BY <1>14 DEF StartBeaconSlot, Become
  <2>4. TaskType(d) BY <1>1, <1>3, <2>3, Constants DEF Doing, TaskType, Kind, OnAirKind
  <2>5. InSlot(n, d, epoch[n], slot, time)
    BY <1>1, <1>2, <1>3, <2>1, <2>3, Constants DEF Doing, InSlot, OnAirKind
  <2>6. n # Authority => Informed(d, epoch[n] + slot * SlotTime + SlotTime, heard[n], time)
    BY <1>1, <1>2, <1>3, <2>2, <2>3, Constants DEF Doing, Informed, OnAirKind
  <2>7. d.kind = "heartbeat" => n = Authority BY <2>3 DEF Doing
  <2>. QED BY <1>2, <1>4, <1>7, <1>14, <2>2, <2>3, <2>4, <2>5, <2>6, <2>7, OneDecides
           DEF StartBeaconSlot
<1>15. CASE HasTiming(n) /\ StartRangingSlot(n, slot)
  <2>1. ActionAt(slot, n) = "RANGE_PEER" BY <1>15 DEF StartRangingSlot
  <2>2. n # Authority => synced[n] /\ time - heard[n] <= Timeout
    BY <1>1, <1>15, Constants DEF HasTiming, AuthorityExpired
  <2> DEFINE d == Doing("guard", begin + StartGuard, Owners(slot).to)
  <2>3. doing' = [doing EXCEPT ![n] = d] BY <1>15 DEF StartRangingSlot, Become
  <2>4. d.kind = "guard" /\ d.until = begin + StartGuard /\ TaskType(d)
    BY <1>1, <1>2, Constants DEF Doing, TaskType, Kind, OnAirKind
  <2> HIDE DEF d
  <2>5. InSlot(n, d, epoch[n], slot, time) BY <1>2, <2>1, <2>4 DEF InSlot, OnAirKind
  <2>6. ASSUME n # Authority
        PROVE  Informed(d, epoch[n] + slot * SlotTime + SlotTime, heard[n], time)
    BY <1>1, <1>2, <2>2, <2>4, <2>6, Constants DEF Informed
  <2>. QED BY <1>2, <1>4, <1>7, <1>15, <2>2, <2>3, <2>4, <2>5, <2>6, OneDecides
           DEF StartRangingSlot
<1>. QED BY <1>9, <1>10, <1>11, <1>12, <1>13, <1>14, <1>15 DEF Service

LEMMA HeartbeatKeeps == ScheduleInv /\ HeartbeatSent => ScheduleInv'
<1> SUFFICES ASSUME ScheduleInv, HeartbeatSent PROVE ScheduleInv' OBVIOUS
<1> DEFINE A == Authority
           a == doing[A]
           begin == epoch[A] + lastSlot[A] * SlotTime
<1>1. /\ A \in Id /\ KeepsSlot(A) /\ ~realigned[A] /\ TaskType(a) /\ time \in Nat
      /\ epoch[A] \in Int /\ lastSlot[A] \in Int
      /\ \A m \in Id : KeepsSlot(m) /\ HasHeard(m)
  BY Constants DEF ScheduleInv, Typed
<1>2. begin \in Int BY <1>1, Constants
<1>3a. PICK caught \in SUBSET Listeners :
         /\ \E skew \in [caught -> Skews] :
              epoch' = [n \in Id |-> IF n \in caught THEN AlignedEpoch(skew[n]) ELSE epoch[n]]
         /\ synced' = [n \in Id |-> synced[n] \/ n \in caught]
         /\ heard' = [n \in Id |-> IF n \in caught THEN time ELSE heard[n]]
         /\ realigned' = [n \in Id |-> realigned[n] \/ n \in caught]
  BY DEF HeartbeatSent
<1>3. PICK skew \in [caught -> Skews] :
        epoch' = [n \in Id |-> IF n \in caught THEN AlignedEpoch(skew[n]) ELSE epoch[n]]
  BY <1>3a
<1>4. UNCHANGED <<time, lastSlot>> BY DEF HeartbeatSent
<1>5. PICK d : /\ doing' = [doing EXCEPT ![A] = d]
               /\ \/ d = Doing("beacon", time + BeaconTime, Nobody)
                  \/ d = Doing("ownListen", begin + SlotTime, Nobody)
  BY DEF HeartbeatSent, Become, SlotEnd, SlotStart
<1>6. TaskType(d) BY <1>1, <1>2, <1>5, Constants DEF Doing, TaskType, Kind, OnAirKind
<1>7. \A m \in Id : doing'[m] = IF m = A THEN d ELSE doing[m]
  BY <1>1, <1>5 DEF ScheduleInv, Typed
<1>8. \A m \in caught : /\ m \in Id /\ m # A
                        /\ doing[m].kind \in Passive /\ skew[m] \in Int
  BY Constants DEF Listeners
<1>9. Typed'
  <2>1. doing' = [m \in Id |-> doing'[m]] BY <1>5 DEF ScheduleInv, Typed
  <2>2. \A m \in Id : TaskType(doing[m])' BY <1>6, <1>7 DEF ScheduleInv, Typed, TaskType
  <2>3. epoch' \in [Id -> Int]
    <3>1. \A m \in caught : AlignedEpoch(skew[m]) \in Int BY <1>1, <1>8 DEF AlignedEpoch
    <3>. QED BY <1>3, <3>1 DEF ScheduleInv, Typed
  <2>4. heard' \in [Id -> Int] BY <1>1, <1>3, <1>3a DEF ScheduleInv, Typed
  <2>5. synced' \in [Id -> BOOLEAN] /\ realigned' \in [Id -> BOOLEAN] BY <1>3, <1>3a
  <2>. QED BY <1>4, <2>1, <2>2, <2>3, <2>4, <2>5 DEF ScheduleInv, Typed
<1>10. \A m \in Id \ caught : /\ epoch'[m] = epoch[m] /\ heard'[m] = heard[m]
                              /\ synced[m] => synced'[m]
                              /\ ~realigned'[m] => ~realigned[m]
  BY <1>3, <1>3a
<1>11. A \in Id \ caught /\ ~realigned'[A] BY <1>1, <1>3, <1>3a, <1>8
<1>12. KeepsSlot(A)' /\ HasHeard(A)'
  <2>1. InSlot(A, a, epoch[A], lastSlot[A], time) BY <1>1 DEF KeepsSlot
  <2>2. /\ ActionAt(lastSlot[A], A) = "TX_BEACON" /\ begin <= a.from
        /\ a.from <= begin + SlotTime - BeaconMin /\ time = a.from + HeartbeatTime
    <3>1. a.kind = "heartbeat" /\ time = a.until BY DEF HeartbeatSent
    <3>. QED BY <1>1, <1>2, <2>1, <3>1, Constants DEF InSlot, TaskType
  <2>3. InSlot(A, d, epoch[A], lastSlot[A], time)
    BY <1>1, <1>2, <1>5, <2>2, Constants DEF InSlot, Doing, OnAirKind, TaskType
  <2>4. KeepsSlot(A)' BY <1>1, <1>4, <1>7, <1>10, <1>11, <2>3 DEF KeepsSlot
  <2>5. HasHeard(A)' BY <1>1, <1>4, <1>10, <1>11 DEF HasHeard
  <2>. QED BY <2>4, <2>5
<1>13. ASSUME NEW m \in Id, m # A PROVE KeepsSlot(m)' /\ HasHeard(m)'
  <2>1. doing'[m] = doing[m] /\ lastSlot'[m] = lastSlot[m] /\ time' = time
    BY <1>4, <1>7, <1>13
  <2>2. KeepsSlot(m) /\ HasHeard(m) BY <1>1
  <2>3. CASE m \notin caught
    BY <1>10, <2>1, <2>2, <2>3 DEF KeepsSlot, HasHeard
  <2>4. CASE m \in caught
    <3>1. realigned'[m] /\ synced'[m] /\ heard'[m] = time BY <1>3, <1>3a, <2>4
    <3>2. doing[m].kind \in Passive BY <1>8, <2>4
    <3>3. TaskType(doing[m]) /\ heard[m] \in Int BY DEF ScheduleInv, Typed
    <3>4. doing[m].kind = "ownListen" => doing[m].until - time <= Timeout + SlotTime
      BY <1>1, <1>13, <2>2, <3>3, Constants DEF HasHeard, Informed, TaskType
    <3>5. Informed(doing[m], epoch'[m] + lastSlot[m] * SlotTime + SlotTime, time, time)
      BY <3>2, <3>4 DEF Informed, Passive
    <3>6. KeepsSlot(m)' BY <3>1 DEF KeepsSlot
    <3>7. HasHeard(m)' BY <1>1, <2>1, <2>2, <3>1, <3>5 DEF HasHeard
    <3>. QED BY <3>6, <3>7
  <2>. QED BY <2>3, <2>4
<1>14. \A m \in Id : KeepsSlot(m)' /\ HasHeard(m)' BY <1>12, <1>13
<1>. QED BY <1>9, <1>11, <1>14 DEF ScheduleInv

LEMMA BeaconKeeps == ASSUME ScheduleInv, NEW n \in Id, BeaconSent(n) PROVE ScheduleInv'
<1> DEFINE begin == epoch[n] + lastSlot[n] * SlotTime
           d == Doing("ownListen", begin + SlotTime, Nobody)
<1>1. /\ epoch[n] \in Int /\ lastSlot[n] \in Int /\ heard[n] \in Int /\ time \in Nat
      /\ KeepsSlot(n) /\ HasHeard(n) /\ TaskType(doing[n])
  BY DEF ScheduleInv, Typed
<1>2. begin \in Int BY <1>1, Constants
<1>3. d.kind = "ownListen" /\ d.until = begin + SlotTime /\ TaskType(d)
  BY <1>2, Constants DEF Doing, TaskType, Kind, OnAirKind
<1>4. doing' = [doing EXCEPT ![n] = d] BY DEF BeaconSent, Become, SlotEnd, SlotStart
<1>5. UNCHANGED <<time, epoch, synced, heard, lastSlot, realigned>> BY DEF BeaconSent
<1>6. doing[n].kind = "beacon" BY DEF BeaconSent
<1> HIDE DEF d
<1>7. ~realigned[n] => InSlot(n, d, epoch[n], lastSlot[n], time)
  BY <1>1, <1>2, <1>3, <1>6, Constants DEF InSlot, KeepsSlot, OnAirKind, TaskType
<1>8. n # Authority => synced[n] BY <1>1, <1>6 DEF HasHeard, Active
<1>9. n # Authority => Informed(d, begin + SlotTime, heard[n], time)
  BY <1>1, <1>2, <1>3, <1>6, Constants DEF HasHeard, Informed
<1>. QED BY <1>3, <1>4, <1>5, <1>7, <1>8, <1>9, OneActs

LEMMA DebugSendKeeps == ASSUME ScheduleInv, NEW n \in Id, DebugSend(n) PROVE ScheduleInv'
<1> DEFINE begin == epoch[n] + lastSlot[n] * SlotTime
           window == doing[n].until
           d == [Doing("debug", time + DebugTime, Nobody) EXCEPT !.window = window]
<1>1. /\ epoch[n] \in Int /\ lastSlot[n] \in Int /\ heard[n] \in Int /\ time \in Nat
      /\ KeepsSlot(n) /\ HasHeard(n) /\ TaskType(doing[n])
  BY DEF ScheduleInv, Typed
<1>2. begin \in Int /\ window \in Int BY <1>1, Constants DEF TaskType
<1>3. /\ d.kind = "debug" /\ d.until = time + DebugTime /\ d.window = window
      /\ d.from = time /\ TaskType(d)
  BY <1>1, <1>2, Constants DEF Doing, TaskType, Kind, OnAirKind
<1>4. doing' = [doing EXCEPT ![n] = d] BY DEF DebugSend, SendDebug
<1>5. UNCHANGED <<time, epoch, synced, heard, lastSlot, realigned>> BY DEF DebugSend, SendDebug
<1>6. doing[n].kind = "ownListen" /\ window - time >= DebugMin BY DEF DebugSend, SendDebug
<1> HIDE DEF d
<1>7. ~realigned[n] => InSlot(n, d, epoch[n], lastSlot[n], time)
  BY <1>1, <1>2, <1>3, <1>6, Constants DEF InSlot, KeepsSlot, OnAirKind, TaskType
<1>8. n # Authority => synced[n] BY <1>1, <1>6 DEF HasHeard, Active
<1>9. n # Authority => Informed(d, begin + SlotTime, heard[n], time)
  BY <1>1, <1>2, <1>3, <1>6, Constants DEF HasHeard, Informed
<1>. QED BY <1>3, <1>4, <1>5, <1>7, <1>8, <1>9, OneActs

LEMMA DebugSentKeeps == ASSUME ScheduleInv, NEW n \in Id, DebugSent(n) PROVE ScheduleInv'
<1> DEFINE begin == epoch[n] + lastSlot[n] * SlotTime
           d == Doing("ownListen", doing[n].window, Nobody)
<1>1. /\ epoch[n] \in Int /\ lastSlot[n] \in Int /\ heard[n] \in Int /\ time \in Nat
      /\ KeepsSlot(n) /\ HasHeard(n) /\ TaskType(doing[n])
  BY DEF ScheduleInv, Typed
<1>2. begin \in Int BY <1>1, Constants
<1>3. d.kind = "ownListen" /\ d.until = doing[n].window /\ TaskType(d)
  BY <1>1 DEF Doing, TaskType, Kind, OnAirKind
<1>4. doing' = [doing EXCEPT ![n] = d] BY DEF DebugSent, Become
<1>5. UNCHANGED <<time, epoch, synced, heard, lastSlot, realigned>> BY DEF DebugSent
<1>6. doing[n].kind = "debug" BY DEF DebugSent
<1> HIDE DEF d
<1>7. ~realigned[n] => InSlot(n, d, epoch[n], lastSlot[n], time)
  BY <1>1, <1>2, <1>3, <1>6, Constants DEF InSlot, KeepsSlot, OnAirKind, TaskType
<1>8. n # Authority => synced[n] BY <1>1, <1>6 DEF HasHeard, Active
<1>9. n # Authority => Informed(d, begin + SlotTime, heard[n], time)
  BY <1>1, <1>3, <1>6, Constants DEF HasHeard, Informed
<1>. QED BY <1>3, <1>4, <1>5, <1>7, <1>8, <1>9, OneActs

LEMMA MasterStartKeeps == ASSUME ScheduleInv, NEW n \in Id, MasterStart(n) PROVE ScheduleInv'
<1> DEFINE begin == epoch[n] + lastSlot[n] * SlotTime
<1>1. /\ epoch[n] \in Int /\ lastSlot[n] \in Int /\ heard[n] \in Int /\ time \in Nat
      /\ KeepsSlot(n) /\ HasHeard(n) /\ TaskType(doing[n])
  BY DEF ScheduleInv, Typed
<1>2. begin \in Int BY <1>1, Constants
<1>3. PICK t \in 1 .. MasterTimeout :
        doing' = [doing EXCEPT ![n] = Doing("master", time + t, doing[n].peer)]
  BY DEF MasterStart, Become
<1> DEFINE d == Doing("master", time + t, doing[n].peer)
<1>4. doing' = [doing EXCEPT ![n] = d] BY <1>3
<1>5. d.kind = "master" /\ d.until = time + t /\ d.from = time /\ TaskType(d)
  BY <1>1, Constants DEF Doing, TaskType, Kind, OnAirKind
<1>6. UNCHANGED <<time, epoch, synced, heard, lastSlot, realigned>> BY DEF MasterStart
<1>7. \/ doing[n].kind = "guard" /\ time >= doing[n].until
      \/ doing[n].kind = "busyMaster" /\ time < doing[n].until
  BY DEF MasterStart, ChipReady
<1> HIDE DEF d
<1>8. ~realigned[n] => InSlot(n, d, epoch[n], lastSlot[n], time)
  BY <1>1, <1>2, <1>5, <1>7, Constants DEF InSlot, KeepsSlot, OnAirKind, TaskType
<1>9. n # Authority => synced[n] BY <1>1, <1>7 DEF HasHeard, Active
<1>10. n # Authority => Informed(d, begin + SlotTime, heard[n], time)
  BY <1>1, <1>2, <1>5, <1>7, Constants DEF HasHeard, Informed, TaskType
<1>. QED BY <1>4, <1>5, <1>6, <1>8, <1>9, <1>10, OneActs

LEMMA ChipBusyKeeps == ASSUME ScheduleInv, NEW n \in Id, ChipBusy(n) PROVE ScheduleInv'
<1> DEFINE begin == epoch[n] + lastSlot[n] * SlotTime
           d == Doing("busyMaster", time + BusyTime, doing[n].peer)
<1>1. /\ epoch[n] \in Int /\ lastSlot[n] \in Int /\ heard[n] \in Int /\ time \in Nat
      /\ KeepsSlot(n) /\ HasHeard(n) /\ TaskType(doing[n])
  BY DEF ScheduleInv, Typed
<1>2. begin \in Int /\ time + BusyTime \in Int BY <1>1, Constants
<1>3. UNCHANGED <<time, epoch, synced, heard, lastSlot, realigned>> BY DEF ChipBusy
<1>4. CASE doing[n].kind = "guard"
  <2>1. d.kind = "busyMaster" /\ d.until = time + BusyTime /\ TaskType(d)
    BY <1>2 DEF Doing, TaskType, Kind, OnAirKind
  <2>2. doing' = [doing EXCEPT ![n] = d] BY <1>4 DEF ChipBusy, Become
  <2>3. time >= doing[n].until BY DEF ChipBusy
  <2> HIDE DEF d
  <2>4. ~realigned[n] => InSlot(n, d, epoch[n], lastSlot[n], time)
    BY <1>1, <1>2, <1>4, <2>1, <2>3, Constants DEF InSlot, KeepsSlot, OnAirKind, TaskType
  <2>5. n # Authority => synced[n] BY <1>1, <1>4 DEF HasHeard, Active
  <2>6. n # Authority => Informed(d, begin + SlotTime, heard[n], time)
    BY <1>1, <1>2, <1>4, <2>1, <2>3, Constants DEF HasHeard, Informed, TaskType
  <2>. QED BY <1>3, <2>1, <2>2, <2>4, <2>5, <2>6, OneActs
<1>5. CASE doing[n].kind = "address"
  <2>1. Become(n, "busySlave", time + BusyTime, doing[n].peer) BY <1>5 DEF ChipBusy
  <2>2. "busySlave" \in Idle BY DEF Idle
  <2>. QED BY <1>2, <1>3, <2>1, <2>2, OneRests
<1>. QED BY <1>4, <1>5 DEF ChipBusy

LEMMA AbandonKeeps ==
  ASSUME ScheduleInv, NEW n \in Id, Abandon(n),
         UNCHANGED <<time, epoch, synced, heard, lastSlot, realigned>>
  PROVE  ScheduleInv'
<1>1. SlotEnd(n) \in Int /\ time + Backoff \in Int BY SlotEndInt, Constants
<1>2. "listen" \in Idle /\ "backoff" \in Idle BY DEF Idle
<1>. QED BY <1>1, <1>2, OneRests DEF Abandon

LEMMA RestartKeeps == ASSUME ScheduleInv, NEW n \in Id, Restart(n) PROVE ScheduleInv'
<1> DEFINE d == Doing("wait", time, Nobody)
<1>1. time \in Nat /\ time \in Int BY DEF ScheduleInv, Typed
<1>2. d.kind = "wait" /\ TaskType(d) BY <1>1 DEF Doing, TaskType, Kind, OnAirKind
<1>3. ASSUME NEW m \in Id
      PROVE  /\ doing'[m] = IF m = n THEN d ELSE doing[m]
             /\ m # n => /\ epoch'[m] = epoch[m] /\ heard'[m] = heard[m]
                         /\ lastSlot'[m] = lastSlot[m]
                         /\ synced[m] => synced'[m]
  BY DEF ScheduleInv, Typed, Restart, Become
<1>4. heard'[n] = 0 /\ time' = time /\ realigned' = realigned
  BY DEF ScheduleInv, Typed, Restart
<1> HIDE DEF d
<1>5. Typed'
  <2>1. doing' = [m \in Id |-> doing'[m]] BY DEF ScheduleInv, Typed, Restart, Become
  <2>2. \A m \in Id : TaskType(doing[m])' BY <1>2, <1>3 DEF ScheduleInv, Typed, TaskType
  <2>3. epoch' \in [Id -> Int]
    BY <1>1 DEF ScheduleInv, Typed, Restart
  <2>4. heard' \in [Id -> Int] /\ lastSlot' \in [Id -> Int]
    BY DEF ScheduleInv, Typed, Restart, NoSlot
  <2>5. synced' \in [Id -> BOOLEAN] BY DEF ScheduleInv, Typed, Restart
  <2>. QED BY <1>4, <2>1, <2>2, <2>3, <2>4, <2>5 DEF ScheduleInv, Typed
<1>6. ASSUME NEW m \in Id PROVE KeepsSlot(m)' /\ HasHeard(m)'
  <2>1. KeepsSlot(m) /\ HasHeard(m) BY DEF ScheduleInv
  <2>2. CASE m = n
    <3>1. d.kind \in Idle /\ d.kind \notin Active /\ d.kind # "heartbeat"
      BY <1>2 DEF Idle, Active
    <3>. QED BY <1>1, <1>3, <1>4, <2>2, <3>1, IdleFits, IdleInformed DEF KeepsSlot, HasHeard
  <2>3. CASE m # n BY <1>3, <1>4, <2>1, <2>3 DEF KeepsSlot, HasHeard
  <2>. QED BY <2>2, <2>3
<1>. QED BY <1>4, <1>5, <1>6 DEF ScheduleInv

LEMMA NextKeeps == ScheduleInv /\ [Next]_vars => ScheduleInv'
<1> SUFFICES ASSUME ScheduleInv, [Next]_vars PROVE ScheduleInv' OBVIOUS
<1>1. ASSUME NEW n \in Id PROVE SlotEnd(n) \in Int BY SlotEndInt
<1>2. "listen" \in Idle /\ "slave" \in Idle BY DEF Idle
<1>3. ASSUME NEW n \in Id, MasterDone(n) PROVE ScheduleInv'
  BY <1>1, <1>2, <1>3, OneRests DEF MasterDone
<1>4. ASSUME NEW n \in Id, SlaveStart(n) PROVE ScheduleInv'
  BY <1>1, <1>2, <1>4, OneRests DEF SlaveStart
<1>5. ASSUME NEW n \in Id, SlaveDone(n) PROVE ScheduleInv'
  BY <1>1, <1>2, <1>5, OneRests DEF SlaveDone
<1>6. ASSUME NEW n \in Id, BackoffDone(n) PROVE ScheduleInv'
  BY <1>1, <1>2, <1>6, OneRests DEF BackoffDone
<1>7. ASSUME NEW n \in Id, ChipGivenUp(n) PROVE ScheduleInv'
  BY <1>7, AbandonKeeps DEF ChipGivenUp
<1>8. ASSUME NEW n \in Id, EngineError(n) PROVE ScheduleInv'
  BY <1>8, AbandonKeeps DEF EngineError
<1>9. CASE UNCHANGED vars
  <2>1. Typed' BY <1>9 DEF ScheduleInv, Typed, vars, TaskType
  <2>2. \A n \in Id : KeepsSlot(n)' /\ HasHeard(n)'
    BY <1>9 DEF ScheduleInv, vars, KeepsSlot, HasHeard
  <2>. QED BY <1>9, <2>1, <2>2 DEF ScheduleInv, vars
<1>. QED BY <1>3, <1>4, <1>5, <1>6, <1>7, <1>8, <1>9, TickKeeps, ServiceKeeps, HeartbeatKeeps,
         BeaconKeeps, DebugSendKeeps, DebugSentKeeps, MasterStartKeeps, ChipBusyKeeps,
         RestartKeeps DEF Next

-----------------------------------------------------------------------------
(* The theorems.                                                           *)

(* In every reachable state each task that transmits, or is about to, lies *)
(* in the slot it was decided for, and has not outlived the authority's    *)
(* timing by more than the rest of that slot (serviceTdmaSlot and what it  *)
(* calls).                                                                 *)
THEOREM ScheduleInductive == Spec => []ScheduleInv
<1>. QED BY Initially, NextKeeps, PTL DEF Spec

(* A follower that no longer hears the authority falls silent at most a    *)
(* slot after its timing expired (nav_tdma_authority_expired, checked by   *)
(* serviceTdmaSlot alone).                                                 *)
THEOREM SilentWithoutAuthority == Spec => []WaitingSilent
<1>1. ScheduleInv => WaitingSilent
  <2> SUFFICES ASSUME ScheduleInv, NEW n \in Id \ {Authority}, OnAir(n)
               PROVE  /\ synced[n]
                      /\ doing[n].from - heard[n] <=
                           Timeout + SlotTime + (IF doing[n].kind = "master" THEN BusyTime ELSE 0)
    BY DEF WaitingSilent
  <2>1. /\ heard[n] \in Int /\ time \in Nat /\ HasHeard(n) /\ TaskType(doing[n])
        /\ epoch[n] \in Int /\ lastSlot[n] \in Int
    BY DEF ScheduleInv, Typed
  <2>2. doing[n].kind \in {"beacon", "debug", "master"}
    BY <2>1 DEF OnAir, OnAirKind, HasHeard
  <2>3. synced[n] BY <2>1, <2>2 DEF HasHeard, Active
  <2>4. doing[n].from - heard[n] <=
          Timeout + SlotTime + (IF doing[n].kind = "master" THEN BusyTime ELSE 0)
    BY <2>1, <2>2, Constants DEF HasHeard, Informed, TaskType
  <2>. QED BY <2>3, <2>4
<1>. QED BY <1>1, ScheduleInductive, PTL

-----------------------------------------------------------------------------
(* The inequalities between the times of the code that keep the nodes      *)
(* apart, when an alignment is at most ahead or behind in error.           *)
Budget(ahead, behind) ==
  /\ \A skew \in Skews : -ahead <= skew /\ skew <= behind
  /\ HeartbeatTime + ahead + behind <= BeaconMin
  /\ DebugTime + ahead + behind <= DebugMin
  /\ MaxLate + BeaconTime + ahead + behind <= SlotTime
  /\ StartGuard + MaxLate + MasterTimeout + behind <= SlotTime
  /\ HeartbeatTime + BeaconTime + ahead + behind <= BeaconMin + StartGuard
  /\ ahead + behind <= StartGuard

(* What ScheduleInv says of a node on the air that follows the present     *)
(* schedule.                                                               *)
LEMMA OnAirFacts ==
  ASSUME ScheduleInv, NEW ahead \in Nat, NEW behind \in Nat, Budget(ahead, behind),
         NEW n \in Id, OnAir(n), Current(n)
  PROVE  /\ InSlot(n, doing[n], epoch[n], lastSlot[n], time)
         /\ TaskType(doing[n]) /\ doing[n].kind \in OnAirKind
         /\ doing[n].from <= time /\ time < doing[n].until
         /\ epoch[Authority] - ahead <= epoch[n] /\ epoch[n] <= epoch[Authority] + behind
         /\ epoch[n] \in Int /\ epoch[Authority] \in Int /\ time \in Int
         /\ lastSlot[n] \in Int /\ lastSlot[n] * SlotTime \in Int
         /\ ActionAt(lastSlot[n], n) \in {"TX_BEACON", "RANGE_PEER"}
<1>1. /\ epoch[n] \in Int /\ epoch[Authority] \in Int /\ time \in Int /\ lastSlot[n] \in Int
      /\ TaskType(doing[n]) /\ KeepsSlot(n)
  BY Constants DEF ScheduleInv, Typed
<1>2. ~realigned[n] BY DEF ScheduleInv, Current
<1>3. InSlot(n, doing[n], epoch[n], lastSlot[n], time) BY <1>1, <1>2 DEF KeepsSlot
<1>4. doing[n].kind \in OnAirKind /\ time < doing[n].until BY DEF OnAir
<1>5. doing[n].from <= time BY <1>3, <1>4 DEF InSlot
<1>6. epoch[Authority] - ahead <= epoch[n] /\ epoch[n] <= epoch[Authority] + behind
  <2>1. CASE n = Authority BY <1>1, <2>1
  <2>2. CASE epoch[n] - epoch[Authority] \in Skews BY <1>1, <2>2 DEF Budget
  <2>. QED BY <2>1, <2>2 DEF Current
<1>7. lastSlot[n] * SlotTime \in Int BY <1>1, Constants
<1>8. ActionAt(lastSlot[n], n) \in {"TX_BEACON", "RANGE_PEER"}
  BY <1>3, <1>4 DEF InSlot, OnAirKind
<1>. QED BY <1>1, <1>3, <1>4, <1>5, <1>6, <1>7, <1>8

(* Where in its slot a transmission begins and ends.                       *)
LEMMA Extent ==
  ASSUME ScheduleInv, NEW ahead \in Nat, NEW behind \in Nat, Budget(ahead, behind),
         NEW n \in Id, OnAir(n), Current(n)
  PROVE  LET begin == epoch[n] + lastSlot[n] * SlotTime
             end == begin + SlotTime
         IN  /\ begin <= time
             /\ doing[n].kind = "master" => begin + StartGuard <= time
             /\ doing[n].kind # "master" =>
                  time < end - BeaconMin + HeartbeatTime + BeaconTime \/ time < end - ahead - behind
             /\ ~Late(n) /\ doing[n].kind # "master" => time < end - ahead - behind
             /\ ~Late(n) /\ doing[n].kind = "master" => time < end - behind
<1> DEFINE d == doing[n]
           begin == epoch[n] + lastSlot[n] * SlotTime
           end == begin + SlotTime
<1>1. /\ InSlot(n, d, epoch[n], lastSlot[n], time) /\ TaskType(d) /\ d.kind \in OnAirKind
      /\ d.from <= time /\ time < d.until
      /\ epoch[n] \in Int /\ time \in Int /\ lastSlot[n] * SlotTime \in Int
  BY OnAirFacts
<1>2. begin \in Int /\ d.from \in Int /\ d.until \in Int BY <1>1 DEF TaskType
<1>3. SlotStart(n) = begin BY DEF SlotStart
<1>4. /\ HeartbeatTime + ahead + behind <= BeaconMin
      /\ DebugTime + ahead + behind <= DebugMin
      /\ MaxLate + BeaconTime + ahead + behind <= SlotTime
      /\ StartGuard + MaxLate + MasterTimeout + behind <= SlotTime
  BY DEF Budget
<1>5. /\ d.kind = "heartbeat" => begin <= d.from /\ d.from <= end - BeaconMin
                                 /\ d.until = d.from + HeartbeatTime
      /\ d.kind = "beacon" => begin <= d.from /\ d.from <= end - BeaconMin + HeartbeatTime
                              /\ d.until = d.from + BeaconTime
      /\ d.kind = "debug" => begin <= d.from /\ d.from <= end - DebugMin
                             /\ d.until = d.from + DebugTime
      /\ d.kind = "master" => begin + StartGuard <= d.from /\ d.until <= d.from + MasterTimeout
  BY <1>1 DEF InSlot
<1>6. ~Late(n) => /\ d.kind = "beacon" => d.from <= begin + MaxLate
                  /\ d.kind = "master" => d.from <= begin + MaxLate + StartGuard
  BY <1>2, <1>3, Constants DEF Late
<1> HIDE DEF d, begin
<1>7. CASE d.kind = "heartbeat" BY <1>1, <1>2, <1>4, <1>5, <1>6, <1>7, Constants DEF d, begin
<1>8. CASE d.kind = "beacon" BY <1>1, <1>2, <1>4, <1>5, <1>6, <1>8, Constants DEF d, begin
<1>9. CASE d.kind = "debug" BY <1>1, <1>2, <1>4, <1>5, <1>6, <1>9, Constants DEF d, begin
<1>10. CASE d.kind = "master" BY <1>1, <1>2, <1>4, <1>5, <1>6, <1>10, Constants DEF d, begin
<1>. QED BY <1>1, <1>7, <1>8, <1>9, <1>10 DEF OnAirKind

(* Two nodes are not on the air for one slot.                              *)
LEMMA SameSlotSameNode ==
  ASSUME ScheduleInv, NEW ahead \in Nat, NEW behind \in Nat, Budget(ahead, behind),
         NEW n \in Id, OnAir(n), Current(n), NEW m \in Id, OnAir(m), Current(m),
         lastSlot[n] = lastSlot[m]
  PROVE  n = m
<1>1. /\ ActionAt(lastSlot[n], n) \in {"TX_BEACON", "RANGE_PEER"}
      /\ ActionAt(lastSlot[m], m) \in {"TX_BEACON", "RANGE_PEER"}
  BY OnAirFacts
<1>. QED BY <1>1, OneOwner

(* A prompt transmission is over before one for a later slot begins.       *)
LEMMA PromptIsOver ==
  ASSUME ScheduleInv, NEW ahead \in Nat, NEW behind \in Nat, Budget(ahead, behind),
         NEW n \in Id, OnAir(n), Current(n), NEW m \in Id, OnAir(m), Current(m),
         lastSlot[n] < lastSlot[m], ~Late(n)
  PROVE  FALSE
<1> DEFINE c == epoch[Authority]
           x == lastSlot[n] * SlotTime
           y == lastSlot[m] * SlotTime
<1>1. /\ c \in Int /\ epoch[n] \in Int /\ epoch[m] \in Int /\ time \in Int
      /\ x \in Int /\ y \in Int /\ lastSlot[n] \in Int /\ lastSlot[m] \in Int
      /\ c - ahead <= epoch[n] /\ epoch[n] <= c + behind
      /\ c - ahead <= epoch[m] /\ epoch[m] <= c + behind
  BY OnAirFacts
<1>2. x + SlotTime <= y BY <1>1, LaterSlot
<1>3. /\ epoch[m] + y <= time
      /\ doing[m].kind = "master" => epoch[m] + y + StartGuard <= time
  BY <1>1, Extent, Constants
<1>4. /\ doing[n].kind # "master" => time < epoch[n] + x + SlotTime - ahead - behind
      /\ doing[n].kind = "master" => time < epoch[n] + x + SlotTime - behind
  BY <1>1, Extent, Constants
<1>5. ahead + behind <= StartGuard /\ StartGuard <= SlotTime /\ StartGuard \in Nat /\ SlotTime \in Nat
  BY Constants DEF Budget
<1>6. ASSUME doing[n].kind = "master", doing[m].kind # "master", lastSlot[m] = lastSlot[n] + 1
      PROVE  epoch[m] = c
  <2>1. /\ InSlot(n, doing[n], epoch[n], lastSlot[n], time)
        /\ InSlot(m, doing[m], epoch[m], lastSlot[m], time)
        /\ doing[m].kind \in OnAirKind
    BY OnAirFacts
  <2>2. ActionAt(lastSlot[n], n) = "RANGE_PEER" BY <1>6, <2>1 DEF InSlot
  <2>3. ActionAt(lastSlot[n] + 1, m) = "TX_BEACON" BY <1>6, <2>1 DEF InSlot, OnAirKind
  <2>. QED BY <1>1, <2>2, <2>3, FrameBegins
<1>7. ASSUME lastSlot[m] # lastSlot[n] + 1 PROVE x + SlotTime + SlotTime <= y
  <2>1. (lastSlot[n] + 1) * SlotTime = x + SlotTime BY <1>1, <1>5
  <2>. QED BY <1>1, <1>7, <2>1, LaterSlot
<1> HIDE DEF c, x, y
<1>8. CASE doing[n].kind # "master" BY <1>1, <1>2, <1>3, <1>4, <1>5, <1>8
<1>9. CASE doing[n].kind = "master" /\ doing[m].kind = "master"
  BY <1>1, <1>2, <1>3, <1>4, <1>5, <1>9
<1>10. CASE doing[n].kind = "master" /\ doing[m].kind # "master" /\ lastSlot[m] = lastSlot[n] + 1
  BY <1>1, <1>2, <1>3, <1>4, <1>5, <1>6, <1>10
<1>11. CASE doing[n].kind = "master" /\ lastSlot[m] # lastSlot[n] + 1
  BY <1>1, <1>3, <1>4, <1>5, <1>7, <1>11
<1>. QED BY <1>8, <1>9, <1>10, <1>11

(* However late a beacon begins, it is over before a later exchange.       *)
LEMMA BeaconIsOver ==
  ASSUME ScheduleInv, NEW ahead \in Nat, NEW behind \in Nat, Budget(ahead, behind),
         NEW n \in Id, OnAir(n), Current(n), NEW m \in Id, OnAir(m), Current(m),
         lastSlot[n] < lastSlot[m], doing[n].kind # "master", doing[m].kind = "master"
  PROVE  FALSE
<1> DEFINE c == epoch[Authority]
           x == lastSlot[n] * SlotTime
           y == lastSlot[m] * SlotTime
<1>1. /\ c \in Int /\ epoch[n] \in Int /\ epoch[m] \in Int /\ time \in Int
      /\ x \in Int /\ y \in Int /\ lastSlot[n] \in Int /\ lastSlot[m] \in Int
      /\ c - ahead <= epoch[n] /\ epoch[n] <= c + behind
      /\ c - ahead <= epoch[m] /\ epoch[m] <= c + behind
  BY OnAirFacts
<1>2. x + SlotTime <= y BY <1>1, LaterSlot
<1>3. epoch[m] + y + StartGuard <= time BY <1>1, Extent, Constants
<1>4. \/ time < epoch[n] + x + SlotTime - BeaconMin + HeartbeatTime + BeaconTime
      \/ time < epoch[n] + x + SlotTime - ahead - behind
  BY <1>1, Extent, Constants
<1>5. /\ HeartbeatTime + BeaconTime + ahead + behind <= BeaconMin + StartGuard
      /\ StartGuard \in Nat /\ SlotTime \in Nat
      /\ HeartbeatTime \in Nat /\ BeaconTime \in Nat /\ BeaconMin \in Nat
  BY Constants DEF Budget
<1> HIDE DEF c, x, y
<1>. QED BY <1>1, <1>2, <1>3, <1>4, <1>5

(* Nodes that follow the present schedule and start their slots on time    *)
(* never transmit at the same time, for every number of nodes and every    *)
(* timing within the budget (serviceTdmaSlot, runMasterExchange,           *)
(* broadcastTelemetryBeacon, serviceDebugTelemetryTx).                     *)
THEOREM PromptNodesApart ==
  ASSUME NEW ahead \in Nat, NEW behind \in Nat, Budget(ahead, behind)
  PROVE  Spec => []PromptNeverCollide
<1>1. ASSUME ScheduleInv PROVE PromptNeverCollide
  <2> SUFFICES ASSUME NEW n \in Id, NEW m \in Id, n # m, OnAir(n), OnAir(m),
                      Current(n), Current(m), ~Late(n), ~Late(m)
               PROVE  FALSE
    BY DEF PromptNeverCollide
  <2>1. lastSlot[n] \in Int /\ lastSlot[m] \in Int BY <1>1 DEF ScheduleInv, Typed
  <2>2. CASE lastSlot[n] = lastSlot[m] BY <1>1, <2>2, SameSlotSameNode
  <2>3. CASE lastSlot[n] < lastSlot[m] BY <1>1, <2>3, PromptIsOver
  <2>4. CASE lastSlot[m] < lastSlot[n] BY <1>1, <2>4, PromptIsOver
  <2>. QED BY <2>1, <2>2, <2>3, <2>4
<1>. QED BY <1>1, ScheduleInductive, PTL

(* An exchange that starts on time has the channel to itself, also against *)
(* beacons that began late (runMasterExchange with its guard).             *)
THEOREM ExchangeAlone ==
  ASSUME NEW ahead \in Nat, NEW behind \in Nat, Budget(ahead, behind)
  PROVE  Spec => []ExchangeExclusive
<1>1. ASSUME ScheduleInv PROVE ExchangeExclusive
  <2> SUFFICES ASSUME NEW n \in Id, NEW m \in Id, n # m, Current(n), Current(m),
                      doing[n].kind = "master", OnAir(n), ~Late(n), OnAir(m),
                      ~(doing[m].kind = "master" /\ Late(m))
               PROVE  FALSE
    BY DEF ExchangeExclusive
  <2>1. lastSlot[n] \in Int /\ lastSlot[m] \in Int BY <1>1 DEF ScheduleInv, Typed
  <2>2. CASE lastSlot[n] = lastSlot[m] BY <1>1, <2>2, SameSlotSameNode
  <2>3. CASE lastSlot[n] < lastSlot[m] BY <1>1, <2>3, PromptIsOver
  <2>4. CASE lastSlot[m] < lastSlot[n] /\ doing[m].kind # "master" BY <1>1, <2>4, BeaconIsOver
  <2>5. CASE lastSlot[m] < lastSlot[n] /\ ~Late(m) BY <1>1, <2>5, PromptIsOver
  <2>. QED BY <2>1, <2>2, <2>3, <2>4, <2>5
<1>. QED BY <1>1, ScheduleInductive, PTL

-----------------------------------------------------------------------------
(* Bounds and peers.                                                       *)

Peer == Id \cup {Nobody}

Bounds ==
  /\ time <= Horizon
  /\ epoch[Authority] \in 0 .. time
  /\ \A n \in Id : \/ epoch[n] \in 0 .. Horizon
                  \/ \E skew \in Skews : epoch[n] - skew \in 0 .. Horizon
  /\ \A n \in Id : heard[n] \in 0 .. Horizon
  /\ \A n \in Id : doing[n].peer \in Peer
  /\ disturbances \in 0 .. MaxDisturbance

LEMMA OneTask ==
  ASSUME Typed, Bounds, NEW n \in Id, NEW d, d.peer \in Peer,
         doing' = [doing EXCEPT ![n] = d], UNCHANGED <<time, epoch, heard>>,
         disturbances' \in 0 .. MaxDisturbance
  PROVE  Bounds'
<1>1. \A m \in Id : doing'[m] = IF m = n THEN d ELSE doing[m] BY DEF Typed
<1>2. \A m \in Id : doing'[m].peer \in Peer BY <1>1 DEF Bounds
<1>. QED BY <1>2 DEF Bounds

LEMMA PeersAfter ==
  ASSUME Typed, Bounds, NEW n \in Id, NEW kind, NEW until, NEW peer \in Peer,
         Become(n, kind, until, peer)
  PROVE  \A m \in Id : doing'[m].peer \in Peer
<1> DEFINE d == Doing(kind, until, peer)
<1>1. d.peer = peer BY DEF Doing
<1>2. doing' = [doing EXCEPT ![n] = d] BY DEF Become
<1> HIDE DEF d
<1>3. \A m \in Id : doing'[m] = IF m = n THEN d ELSE doing[m] BY <1>2 DEF Typed
<1>. QED BY <1>1, <1>3 DEF Bounds

LEMMA OneBecomes ==
  ASSUME Typed, Bounds, NEW n \in Id, NEW kind, NEW until, NEW peer \in Peer,
         Become(n, kind, until, peer), UNCHANGED <<time, epoch, heard>>,
         disturbances' \in 0 .. MaxDisturbance
  PROVE  Bounds'
<1>1. Doing(kind, until, peer).peer = peer BY DEF Doing
<1>. QED BY <1>1, OneTask DEF Become

LEMMA ServiceBounds == ASSUME Typed, Bounds, NEW n \in Id, Service(n) PROVE Bounds'
<1> DEFINE slot == AbsoluteSlot(Aligned(n))
<1>1. slot \in Int
  <2>1. time - epoch[n] \in Int BY DEF Typed
  <2>. QED BY <2>1, SlotOfTime DEF Aligned, Typed
<1>2. Nobody \in Peer BY DEF Peer
<1>3. ActionAt(slot, n) = "RANGE_PEER" => Owners(slot).to \in Peer
  <2>1. ActionAt(slot, n) = "RANGE_PEER" => ~IsBeaconSlot(slot) BY DEF ActionAt
  <2>. QED BY <1>1, <2>1, EverySlotHasItsOwner, PairIds DEF Peer
<1>4. Owners(slot).from \in Peer
  <2>1. CASE IsBeaconSlot(slot) BY <1>1, <2>1, EverySlotHasItsOwner DEF Peer
  <2>2. CASE ~IsBeaconSlot(slot) BY <1>1, <2>2, EverySlotHasItsOwner, PairIds DEF Peer
  <2>. QED BY <2>1, <2>2
<1>5. UNCHANGED <<time, epoch, heard>> /\ disturbances' \in 0 .. MaxDisturbance
  BY DEF Service, Bounds
<1> HIDE DEF slot
<1>6. \E kind, until : \E peer \in Peer : Become(n, kind, until, peer)
  <2>1. CASE WaitForAuthority(n) BY <1>2, <2>1 DEF WaitForAuthority
  <2>2. CASE SlotAgain(n, slot) BY <1>2, <2>2 DEF SlotAgain
  <2>3. CASE Missed(n, slot) BY <1>2, <2>3 DEF Missed
  <2>4. CASE StartBeaconSlot(n, slot) BY <1>2, <2>4 DEF StartBeaconSlot
  <2>5. CASE StartRangingSlot(n, slot) BY <1>3, <2>5 DEF StartRangingSlot
  <2>6. CASE StartSlaveSlot(n, slot) BY <1>4, <2>6 DEF StartSlaveSlot
  <2>7. CASE StartListenSlot(n, slot) BY <1>2, <2>7 DEF StartListenSlot
  <2>. QED BY <2>1, <2>2, <2>3, <2>4, <2>5, <2>6, <2>7 DEF Service, slot
<1>. QED BY <1>5, <1>6, OneBecomes

LEMMA HeartbeatBounds == ASSUME Typed, Bounds, HeartbeatSent PROVE Bounds'
<1> DEFINE A == Authority
<1>1. /\ A \in Id /\ time \in Nat /\ epoch[A] \in 0 .. time /\ time <= Horizon /\ Horizon \in Nat
      /\ Nobody \in Peer
  BY Constants, NetworkAssumption DEF Typed, Bounds, Peer
<1>2. PICK caught \in SUBSET Listeners :
         /\ \E skew \in [caught -> Skews] :
              epoch' = [n \in Id |-> IF n \in caught THEN AlignedEpoch(skew[n]) ELSE epoch[n]]
         /\ heard' = [n \in Id |-> IF n \in caught THEN time ELSE heard[n]]
  BY DEF HeartbeatSent
<1>3. PICK skew \in [caught -> Skews] :
        epoch' = [n \in Id |-> IF n \in caught THEN AlignedEpoch(skew[n]) ELSE epoch[n]]
  BY <1>2
<1>4. A \notin caught BY DEF Listeners
<1>5. epoch'[A] = epoch[A] /\ time' = time /\ disturbances' = disturbances
  BY <1>1, <1>3, <1>4 DEF HeartbeatSent
<1>6. ASSUME NEW n \in Id
      PROVE  \/ epoch'[n] \in 0 .. Horizon
             \/ \E s \in Skews : epoch'[n] - s \in 0 .. Horizon
  <2>1. CASE n \in caught
    <3>1. skew[n] \in Skews /\ skew[n] \in Int BY <2>1, Constants
    <3>2. epoch'[n] = epoch[A] + skew[n] BY <1>3, <2>1 DEF AlignedEpoch
    <3>3. epoch'[n] - skew[n] \in 0 .. Horizon BY <1>1, <3>1, <3>2
    <3>. QED BY <3>1, <3>3
  <2>2. CASE n \notin caught
    <3>1. epoch'[n] = epoch[n] BY <1>3, <2>2
    <3>. QED BY <3>1 DEF Bounds
  <2>. QED BY <2>1, <2>2
<1>7. \A n \in Id : heard'[n] \in 0 .. Horizon BY <1>1, <1>2 DEF Bounds
<1>8. \A n \in Id : doing'[n].peer \in Peer
  <2>1. \/ Become(A, "beacon", time + BeaconTime, Nobody)
        \/ Become(A, "ownListen", SlotEnd(A), Nobody)
    BY DEF HeartbeatSent
  <2>. QED BY <1>1, <2>1, PeersAfter
<1>. QED BY <1>1, <1>5, <1>6, <1>7, <1>8 DEF Bounds

LEMMA RestartBounds == ASSUME Typed, Bounds, NEW n \in Id, Restart(n) PROVE Bounds'
<1>1. /\ time \in Nat /\ time <= Horizon /\ Horizon \in Nat /\ epoch \in [Id -> Int]
      /\ Nobody \in Peer /\ Authority \in Id /\ heard \in [Id -> Int]
  BY Constants, NetworkAssumption DEF Typed, Bounds, Peer
<1>2. /\ \A m \in Id : epoch'[m] = IF m = n THEN (IF n = Authority THEN time ELSE 0) ELSE epoch[m]
      /\ \A m \in Id : heard'[m] = IF m = n THEN 0 ELSE heard[m]
      /\ time' = time
  BY <1>1 DEF Restart
<1>3. epoch'[Authority] \in 0 .. time' BY <1>1, <1>2 DEF Bounds
<1>4. ASSUME NEW m \in Id
      PROVE  \/ epoch'[m] \in 0 .. Horizon
             \/ \E skew \in Skews : epoch'[m] - skew \in 0 .. Horizon
  <2>1. CASE m = n
    <3>1. epoch'[m] \in 0 .. Horizon BY <1>1, <1>2, <2>1
    <3>. QED BY <3>1
  <2>2. CASE m # n
    <3>1. epoch'[m] = epoch[m] BY <1>2, <2>2
    <3>. QED BY <3>1 DEF Bounds
  <2>. QED BY <2>1, <2>2
<1>5. \A m \in Id : heard'[m] \in 0 .. Horizon BY <1>1, <1>2 DEF Bounds
<1>6. \A m \in Id : doing'[m].peer \in Peer
  <2>1. Become(n, "wait", time, Nobody) BY DEF Restart
  <2>. QED BY <1>1, <2>1, PeersAfter
<1>7. disturbances' \in 0 .. MaxDisturbance
  BY NetworkAssumption DEF Restart, Bounds
<1>. QED BY <1>1, <1>2, <1>3, <1>4, <1>5, <1>6, <1>7 DEF Bounds

LEMMA BoundsKept == ASSUME Typed, Bounds, [Next]_vars PROVE Bounds'
<1> DEFINE Quiet == UNCHANGED <<time, epoch, heard>> /\ disturbances' \in 0 .. MaxDisturbance
           Becomes(n) == \E kind, until : \E peer \in Peer : Become(n, kind, until, peer)
<1>0. Nobody \in Peer /\ \A n \in Id : doing[n].peer \in Peer BY DEF Bounds, Peer
<1>1. ASSUME NEW n \in Id, Quiet, Becomes(n) PROVE Bounds' BY <1>1, OneBecomes
<1>2. /\ UNCHANGED <<time, epoch, heard, disturbances>> => Quiet
      /\ (/\ UNCHANGED <<time, epoch, heard>> /\ disturbances < MaxDisturbance
          /\ disturbances' = disturbances + 1) => Quiet
  BY NetworkAssumption DEF Bounds
<1> HIDE DEF Quiet
<1>3. CASE UNCHANGED vars
  BY <1>3 DEF vars, Bounds
<1>4. CASE Tick
  <2>1. time \in Nat /\ Horizon \in Nat BY NetworkAssumption DEF Typed
  <2>2. time' = time + 1 /\ time' <= Horizon /\ UNCHANGED <<epoch, heard, doing, disturbances>>
    BY <1>4, <2>1 DEF Tick
  <2>3. epoch[Authority] \in 0 .. time' BY <2>1, <2>2 DEF Bounds
  <2>. QED BY <2>2, <2>3 DEF Bounds
<1>5. CASE HeartbeatSent BY <1>5, HeartbeatBounds
<1>6. ASSUME NEW n \in Id, Service(n) PROVE Bounds' BY <1>6, ServiceBounds
<1>7. ASSUME NEW n \in Id, BeaconSent(n) PROVE Bounds'
  BY <1>0, <1>1, <1>2, <1>7 DEF BeaconSent
<1>8. ASSUME NEW n \in Id, DebugSend(n) PROVE Bounds'
  <2> DEFINE d == [Doing("debug", time + DebugTime, Nobody) EXCEPT !.window = doing[n].until]
  <2>1. doing' = [doing EXCEPT ![n] = d] /\ d.peer = Nobody
    BY <1>8 DEF DebugSend, SendDebug, Doing
  <2> HIDE DEF d
  <2>2. Quiet BY <1>2, <1>8 DEF DebugSend, SendDebug
  <2>. QED BY <1>0, <2>1, <2>2, OneTask DEF Quiet
<1>9. ASSUME NEW n \in Id, DebugSent(n) PROVE Bounds'
  BY <1>0, <1>1, <1>2, <1>9 DEF DebugSent
<1>10. ASSUME NEW n \in Id, MasterStart(n) PROVE Bounds'
  BY <1>0, <1>1, <1>2, <1>10 DEF MasterStart
<1>11. ASSUME NEW n \in Id, MasterDone(n) PROVE Bounds'
  BY <1>0, <1>1, <1>2, <1>11 DEF MasterDone
<1>12. ASSUME NEW n \in Id, SlaveStart(n) PROVE Bounds'
  BY <1>0, <1>1, <1>2, <1>12 DEF SlaveStart
<1>13. ASSUME NEW n \in Id, SlaveDone(n) PROVE Bounds'
  BY <1>0, <1>1, <1>2, <1>13 DEF SlaveDone
<1>14. ASSUME NEW n \in Id, ChipBusy(n) PROVE Bounds'
  BY <1>0, <1>1, <1>2, <1>14 DEF ChipBusy
<1>15. ASSUME NEW n \in Id, Abandon(n) PROVE Becomes(n)
  BY <1>0, <1>15 DEF Abandon
<1>16. ASSUME NEW n \in Id, ChipGivenUp(n) PROVE Bounds'
  BY <1>1, <1>2, <1>15, <1>16 DEF ChipGivenUp
<1>17. ASSUME NEW n \in Id, EngineError(n) PROVE Bounds'
  BY <1>1, <1>2, <1>15, <1>17 DEF EngineError
<1>18. ASSUME NEW n \in Id, BackoffDone(n) PROVE Bounds'
  BY <1>0, <1>1, <1>2, <1>18 DEF BackoffDone
<1>19. ASSUME NEW n \in Id, Restart(n) PROVE Bounds' BY <1>19, RestartBounds
<1>. QED BY <1>3, <1>4, <1>5, <1>6, <1>7, <1>8, <1>9, <1>10, <1>11, <1>12, <1>13, <1>14,
            <1>16, <1>17, <1>18, <1>19 DEF Next

LEMMA WithinBounds == Spec => []Bounds
<1>1. Init => Bounds
  <2> SUFFICES ASSUME Init PROVE Bounds OBVIOUS
  <2>1. Horizon \in Nat /\ MaxDisturbance \in Nat /\ Authority \in Id
    BY Constants, NetworkAssumption
  <2>2. \A n \in Id : doing[n].peer \in Peer BY DEF Init, Doing, Peer
  <2>3. time = 0 /\ disturbances = 0 /\ \A n \in Id : epoch[n] = 0 /\ heard[n] = 0 BY DEF Init
  <2>. QED BY <2>1, <2>2, <2>3 DEF Bounds
<1>2. ScheduleInv /\ Bounds /\ [Next]_vars => Bounds'
  BY BoundsKept DEF ScheduleInv
<1>. QED BY <1>1, <1>2, ScheduleInductive, PTL DEF Spec

(* The variables of the network keep their types; whom a task ranges or    *)
(* listens to is a member, since every ranging slot has a pair.            *)
THEOREM NetworkTypes == Spec => []TypeOK
<1>1. ScheduleInv /\ Bounds => TypeOK
  <2> SUFFICES ASSUME Typed, Bounds PROVE TypeOK BY DEF ScheduleInv
  <2>1. heard \in [Id -> 0 .. Horizon] BY DEF Typed, Bounds
  <2>2. time \in 0 .. Horizon BY NetworkAssumption DEF Typed, Bounds
  <2>3. \A n \in Id : /\ doing[n].kind \in Kind /\ doing[n].peer \in Id \cup {Nobody}
                     /\ {doing[n].from, doing[n].until, doing[n].window} \subseteq Int
    BY DEF Typed, TaskType, Bounds, Peer
  <2>. QED BY <2>1, <2>2, <2>3 DEF TypeOK, Typed, Bounds
<1>. QED BY <1>1, ScheduleInductive, WithinBounds, PTL

-----------------------------------------------------------------------------
(* As long as nothing disturbs the nodes: where each of them is, so that   *)
(* the slave of an exchange is ready before its master starts.             *)

(* The times that this asks for on top of Budget: the guard of a master is *)
(* longer than polling and the errors of two alignments together, also     *)
(* for a master that entered its slot as late as it may, and an exchange   *)
(* is over before the errors can carry it into the next slot.              *)
Guarded(ahead, behind) ==
  /\ MaxLate + ahead + behind < StartGuard
  /\ SlotTime - RangeMin <= StartGuard
  /\ StartGuard + MasterTimeout + ahead + behind <= SlotTime

(* The task d of node n suits slot s.                                      *)
Suits(n, d, s) ==
  /\ d.kind \notin {"busyMaster", "busySlave", "backoff"}
  /\ d.kind \in {"heartbeat", "beacon", "debug", "ownListen"} => ActionAt(s, n) = "TX_BEACON"
  /\ d.kind \in {"guard", "master"} => ActionAt(s, n) = "RANGE_PEER"
  /\ d.kind = "guard" => d.peer = Owners(s).to
  /\ d.kind \in {"address", "slave"} => ActionAt(s, n) = "RANGE_SLAVE"

(* Where task d of a node with epoch e is at time t, when its slot begins  *)
(* at begin in the time of the authority.                                  *)
Punctual(d, e, begin, t, ahead, behind) ==
  LET end == begin + SlotTime
  IN  /\ d.kind # "wait" => begin - ahead <= t
      /\ d.kind = "wait" => /\ end - ahead <= t
                            /\ t <= d.until + MaxLate /\ d.until <= t + SlotTime
      /\ d.kind \in {"listen", "ownListen", "slave"} =>
           end - ahead <= d.until /\ d.until <= end + behind
      /\ d.kind = "debug" => /\ end - ahead <= d.window /\ d.window <= end + behind
                             /\ d.until <= d.window
      /\ d.kind = "guard" => d.until = e + begin + StartGuard /\ t <= d.until
      /\ d.kind = "master" => /\ begin + StartGuard - ahead <= t
                              /\ d.until <= begin + behind + StartGuard + MasterTimeout
      /\ d.kind = "address" =>
           t = d.until /\ (t + ahead < begin + StartGuard \/ end <= t + ahead)

(* A follower decides on slot s + 1 before a master starts in it.          *)
InTime(d, begin, t, ahead, behind) ==
  /\ d.kind # "wait" => t + ahead < begin + SlotTime + StartGuard
  /\ d.kind = "beacon" => d.until <= begin + SlotTime + behind + BeaconTime - BeaconMin

(* Heartbeats come in the authority's beacon slots; a node that regains    *)
(* the timing while it waits does not wait long after that.                *)
Regains(n) ==
  /\ synced[n] => \E a \in Int :
       /\ ActionAt(a, Authority) = "TX_BEACON"
       /\ a * SlotTime <= heard[n]
       /\ heard[n] <= a * SlotTime + SlotTime - BeaconMin + HeartbeatTime
  /\ doing[n].kind = "wait" /\ HasTiming(n) => doing[n].until <= heard[n] + SlotTime

(* The master of slot s does not wait to start any more.                   *)
PastGuard(n, s) == lastSlot[n] > s \/ (lastSlot[n] = s /\ doing[n].kind # "guard")

(* A slave leaves its slot at the end or when its master has started.      *)
Served(n, ahead) ==
  doing[n].kind \in {"listen", "wait"} /\ ActionAt(lastSlot[n], n) = "RANGE_SLAVE"
    => \/ lastSlot[n] * SlotTime + SlotTime - ahead <= time
       \/ PastGuard(Owners(lastSlot[n]).from, lastSlot[n])

Calm(n, ahead, behind) ==
  /\ -ahead <= epoch[n] /\ epoch[n] <= behind
  /\ Suits(n, doing[n], lastSlot[n])
  /\ Punctual(doing[n], epoch[n], lastSlot[n] * SlotTime, time, ahead, behind)
  /\ n # Authority => InTime(doing[n], lastSlot[n] * SlotTime, time, ahead, behind)
  /\ n # Authority => Regains(n)
  /\ Served(n, ahead)

Undisturbed(ahead, behind) == epoch[Authority] = 0 /\ \A n \in Id : Calm(n, ahead, behind)

CalmInv(ahead, behind) == disturbances = 0 => Undisturbed(ahead, behind)

Margins(ahead, behind) ==
  {ahead, behind} \subseteq Nat /\ Budget(ahead, behind) /\ Guarded(ahead, behind)

LEMMA MarginTimes ==
  ASSUME NEW ahead, NEW behind, Margins(ahead, behind)
  PROVE  /\ ahead \in Nat /\ behind \in Nat /\ SlotTime \in Nat \ {0} /\ StartGuard \in Nat
         /\ MaxLate \in Nat /\ BeaconTime \in Nat /\ BeaconMin \in Nat /\ MasterTimeout \in Nat \ {0}
         /\ RangeMin \in Nat /\ DebugTime \in Nat /\ DebugMin \in Nat /\ HeartbeatTime \in Nat
         /\ MaxLate + ahead + behind < StartGuard /\ StartGuard <= SlotTime
         /\ SlotTime - RangeMin <= StartGuard
         /\ StartGuard + MasterTimeout + ahead + behind <= SlotTime
         /\ BeaconTime + ahead + behind < BeaconMin + StartGuard
         /\ HeartbeatTime + ahead + behind <= BeaconMin
         /\ DebugTime <= DebugMin
         /\ \A skew \in Skews : skew \in Int /\ -ahead <= skew /\ skew <= behind
BY Constants, NetworkAssumption, ScheduleAssumption DEF Margins, Budget, Guarded

(* Time passes.                                                            *)
LEMMA PunctualPasses ==
  ASSUME NEW ahead, NEW behind, Margins(ahead, behind),
         NEW d, TaskType(d), NEW e \in Int, NEW begin \in Int, NEW t \in Int,
         Punctual(d, e, begin, t, ahead, behind),
         t < d.until + (IF d.kind \in Passive \cup {"slave"} THEN MaxLate ELSE 0)
  PROVE  Punctual(d, e, begin, t + 1, ahead, behind)
<1>1. d.until \in Int /\ d.window \in Int BY DEF TaskType
<1>2. /\ d.kind \in Passive \cup {"slave"} => t < d.until + MaxLate
      /\ d.kind \notin Passive \cup {"slave"} => t < d.until
  BY <1>1
<1>3. d.kind \in Kind BY DEF TaskType
<1>. QED BY <1>1, <1>2, <1>3, MarginTimes DEF Punctual, Passive, Kind

LEMMA InTimePasses ==
  ASSUME NEW ahead, NEW behind, Margins(ahead, behind),
         NEW d, TaskType(d), NEW e \in Int, e <= behind, NEW begin \in Int, NEW t \in Int,
         Punctual(d, e, begin, t, ahead, behind), InTime(d, begin, t, ahead, behind),
         d.kind \notin {"heartbeat", "busyMaster", "busySlave", "backoff"},
         t < d.until + (IF d.kind \in Passive \cup {"slave"} THEN MaxLate ELSE 0)
  PROVE  InTime(d, begin, t + 1, ahead, behind)
<1>1. d.until \in Int /\ d.window \in Int BY DEF TaskType
<1>2. /\ d.kind \in Passive \cup {"slave"} => t < d.until + MaxLate
      /\ d.kind \notin Passive \cup {"slave"} => t < d.until
  BY <1>1
<1>3. d.kind \in Kind BY DEF TaskType
<1>4. CASE d.kind \in {"listen", "ownListen", "slave"}
  BY <1>1, <1>2, <1>4, MarginTimes DEF InTime, Punctual, Passive
<1>5. CASE d.kind \in {"beacon", "debug"}
  BY <1>1, <1>2, <1>5, MarginTimes DEF InTime, Punctual, Passive
<1>6. CASE d.kind \in {"guard", "master", "address"}
  BY <1>1, <1>2, <1>6, MarginTimes DEF InTime, Punctual, Passive
<1>7. CASE d.kind = "wait" BY <1>7 DEF InTime
<1>. QED BY <1>3, <1>4, <1>5, <1>6, <1>7 DEF Kind

(* The state of a node, typed.                                             *)
LEMMA NodeTypes ==
  ASSUME ScheduleInv, NEW n \in Id
  PROVE  /\ time \in Int /\ epoch[n] \in Int /\ lastSlot[n] \in Int /\ heard[n] \in Int
         /\ synced[n] \in BOOLEAN /\ TaskType(doing[n])
         /\ lastSlot[n] * SlotTime \in Int /\ SlotTime \in Nat \ {0}
         /\ heard[n] <= time
         /\ doing[n].kind = "heartbeat" => n = Authority
BY Constants DEF ScheduleInv, Typed, HasHeard

(* The two members of a ranging slot.                                      *)
LEMMA SlotPair ==
  ASSUME NEW s \in Int, ~IsBeaconSlot(s)
  PROVE  /\ Owners(s).from \in Id /\ Owners(s).to \in Id
         /\ Owners(s).from < Owners(s).to
         /\ ActionAt(s, Owners(s).from) = "RANGE_PEER"
         /\ ActionAt(s, Owners(s).to) = "RANGE_SLAVE"
<1> DEFINE a == Owners(s).from
           b == Owners(s).to
<1>1. <<a, b>> \in Pair BY EverySlotHasItsOwner
<1> HIDE DEF a, b
<1>2. a \in Id /\ b \in Id /\ a < b BY <1>1 DEF Pair
<1>3. a # b BY <1>2, Constants
<1>. QED BY <1>2, <1>3 DEF ActionAt, a, b

LEMMA OwnerOfSlave ==
  ASSUME NEW n \in Id, NEW s \in Int, ActionAt(s, n) = "RANGE_SLAVE"
  PROVE  /\ ~IsBeaconSlot(s) /\ Owners(s).to = n /\ n # Authority
         /\ Owners(s).from \in Id /\ ActionAt(s, Owners(s).from) = "RANGE_PEER"
<1>1. Owners(s).to = n BY DEF ActionAt
<1>2. Nobody \notin Id BY Constants DEF Nobody, Id
<1>3. ~IsBeaconSlot(s) BY <1>1, <1>2, EverySlotHasItsOwner
<1> DEFINE a == Owners(s).from
<1>4. a < n /\ a \in Id /\ ActionAt(s, a) = "RANGE_PEER" BY <1>1, <1>3, SlotPair
<1> HIDE DEF a
<1>5. n # Authority BY <1>4 DEF Id
<1>. QED BY <1>1, <1>3, <1>4, <1>5 DEF a

LEMMA SlaveOfOwner ==
  ASSUME NEW n, NEW s \in Int, ActionAt(s, n) = "RANGE_PEER"
  PROVE  /\ Owners(s).from = n /\ Owners(s).to \in Id
         /\ ActionAt(s, Owners(s).to) = "RANGE_SLAVE"
<1>1. ~IsBeaconSlot(s) /\ Owners(s).from = n BY DEF ActionAt
<1>. QED BY <1>1, SlotPair

LEMMA CalmTick ==
  ASSUME NEW ahead, NEW behind, Margins(ahead, behind),
         ScheduleInv, Undisturbed(ahead, behind), Tick
  PROVE  Undisturbed(ahead, behind)'
<1>1. epoch[Authority]' = 0 BY DEF Undisturbed, Tick
<1>2. ASSUME NEW n \in Id PROVE Calm(n, ahead, behind)'
  <2> DEFINE d == doing[n]
             x == lastSlot[n] * SlotTime
  <2>1. /\ time \in Int /\ epoch[n] \in Int /\ x \in Int /\ heard[n] \in Int /\ TaskType(d)
        /\ d.kind = "heartbeat" => n = Authority
    BY NodeTypes
  <2>2. Calm(n, ahead, behind) BY DEF Undisturbed
  <2>3. /\ time' = time + 1 /\ doing' = doing /\ epoch' = epoch /\ lastSlot' = lastSlot
        /\ synced' = synced /\ heard' = heard
        /\ time < d.until + (IF d.kind \in Passive \cup {"slave"} THEN MaxLate ELSE 0)
    BY DEF Tick, Slack
  <2>4. Punctual(d, epoch[n], x, time + 1, ahead, behind)
    BY <2>1, <2>2, <2>3, PunctualPasses DEF Calm
  <2>5. n # Authority => InTime(d, x, time + 1, ahead, behind)
    BY <2>1, <2>2, <2>3, InTimePasses DEF Calm, Suits
  <2>6. n # Authority => Regains(n)'
    BY <2>1, <2>2, <2>3, Constants DEF Calm, Regains, HasTiming, AuthorityExpired
  <2>7. Served(n, ahead)'
    <3>1. \A m : PastGuard(m, lastSlot[n])' <=> PastGuard(m, lastSlot[n]) BY <2>3 DEF PastGuard
    <3>2. x + SlotTime - ahead <= time => x + SlotTime - ahead <= time + 1
      BY <2>1, MarginTimes
    <3>. QED BY <2>2, <2>3, <3>1, <3>2 DEF Calm, Served
  <2>. QED BY <2>2, <2>3, <2>4, <2>5, <2>6, <2>7 DEF Calm
<1>. QED BY <1>1, <1>2 DEF Undisturbed

(* One node decides on its next slot.                                      *)
LEMMA PastStays ==
  ASSUME NEW m, NEW s \in Int, lastSlot[m] \in Int, lastSlot'[m] \in Int,
         lastSlot[m] <= lastSlot'[m],
         lastSlot'[m] = lastSlot[m] /\ doing'[m].kind = "guard" => doing[m].kind = "guard",
         PastGuard(m, s)
  PROVE  PastGuard(m, s)'
BY DEF PastGuard

LEMMA OneDecidesCalm ==
  ASSUME NEW ahead, NEW behind, Margins(ahead, behind),
         ScheduleInv, Undisturbed(ahead, behind), NEW n \in Id, NEW d, NEW slot \in Int,
         doing' = [doing EXCEPT ![n] = d], lastSlot' = [lastSlot EXCEPT ![n] = slot],
         UNCHANGED <<time, epoch, synced, heard>>,
         lastSlot[n] <= slot, lastSlot[n] = slot => d.kind # "guard",
         d.kind = "wait" => ~HasTiming(n),
         Suits(n, d, slot),
         Punctual(d, epoch[n], slot * SlotTime, time, ahead, behind),
         n # Authority => InTime(d, slot * SlotTime, time, ahead, behind),
         d.kind \in {"listen", "wait"} /\ ActionAt(slot, n) = "RANGE_SLAVE" =>
           \/ slot * SlotTime + SlotTime - ahead <= time
           \/ PastGuard(Owners(slot).from, slot)
  PROVE  Undisturbed(ahead, behind)'
<1>1. epoch[Authority]' = 0 BY DEF Undisturbed
<1>2. \A m \in Id : /\ doing'[m] = IF m = n THEN d ELSE doing[m]
                    /\ lastSlot'[m] = IF m = n THEN slot ELSE lastSlot[m]
  BY DEF ScheduleInv, Typed
<1>3. ASSUME NEW m \in Id, NEW s \in Int, PastGuard(m, s) PROVE PastGuard(m, s)'
  <2>1. lastSlot[m] \in Int /\ lastSlot'[m] \in Int /\ lastSlot[m] <= lastSlot'[m]
    BY <1>2, NodeTypes
  <2>2. lastSlot'[m] = lastSlot[m] /\ doing'[m].kind = "guard" => doing[m].kind = "guard"
    BY <1>2
  <2>. QED BY <1>3, <2>1, <2>2, PastStays
<1>4. ASSUME NEW m \in Id PROVE Calm(m, ahead, behind)'
  <2>1. Calm(m, ahead, behind) /\ lastSlot[m] \in Int BY NodeTypes DEF Undisturbed
  <2>2. CASE m = n
    <3>1. ActionAt(slot, n) = "RANGE_SLAVE" => Owners(slot).from \in Id BY OwnerOfSlave
    <3>2. Served(n, ahead)' BY <1>2, <1>3, <3>1 DEF Served
    <3>3. n # Authority => Regains(n)'
      BY <1>2, <2>1, <2>2 DEF Calm, Regains, HasTiming
    <3>. QED BY <1>2, <2>1, <2>2, <3>2, <3>3 DEF Calm
  <2>3. CASE m # n
    <3>1. ActionAt(lastSlot[m], m) = "RANGE_SLAVE" => Owners(lastSlot[m]).from \in Id
      BY <2>1, OwnerOfSlave
    <3>2. Served(m, ahead)' BY <1>2, <1>3, <2>1, <2>3, <3>1 DEF Calm, Served
    <3>3. m # Authority => Regains(m)'
      BY <1>2, <2>1, <2>3 DEF Calm, Regains, HasTiming
    <3>. QED BY <1>2, <2>1, <2>3, <3>2, <3>3 DEF Calm
  <2>. QED BY <2>2, <2>3
<1>. QED BY <1>1, <1>4 DEF Undisturbed

(* One node does something else in its slot.                               *)
LEMMA OneCalm ==
  ASSUME NEW ahead, NEW behind, Margins(ahead, behind),
         ScheduleInv, Undisturbed(ahead, behind), NEW n \in Id, NEW d,
         doing' = [doing EXCEPT ![n] = d],
         UNCHANGED <<time, epoch, synced, heard, lastSlot>>,
         d.kind \notin {"wait", "guard"},
         Suits(n, d, lastSlot[n]),
         Punctual(d, epoch[n], lastSlot[n] * SlotTime, time, ahead, behind),
         n # Authority => InTime(d, lastSlot[n] * SlotTime, time, ahead, behind),
         d.kind = "listen" /\ ActionAt(lastSlot[n], n) = "RANGE_SLAVE" =>
           \/ lastSlot[n] * SlotTime + SlotTime - ahead <= time
           \/ PastGuard(Owners(lastSlot[n]).from, lastSlot[n])
  PROVE  Undisturbed(ahead, behind)'
<1>1. lastSlot' = [lastSlot EXCEPT ![n] = lastSlot[n]] BY DEF ScheduleInv, Typed
<1>2. lastSlot[n] \in Int /\ lastSlot[n] <= lastSlot[n] BY NodeTypes
<1>. QED BY <1>1, <1>2, OneDecidesCalm

(* What is known of a node as long as nothing disturbs it.                 *)
LEMMA CalmNode ==
  ASSUME NEW ahead, NEW behind, Margins(ahead, behind),
         ScheduleInv, Undisturbed(ahead, behind), NEW n \in Id
  PROVE  LET d == doing[n]
             begin == lastSlot[n] * SlotTime
         IN  /\ Punctual(d, epoch[n], begin, time, ahead, behind)
             /\ n # Authority => InTime(d, begin, time, ahead, behind)
             /\ Suits(n, d, lastSlot[n])
             /\ -ahead <= epoch[n] /\ epoch[n] <= behind /\ epoch[n] \in Int
             /\ begin \in Int /\ time \in Int /\ lastSlot[n] \in Int
             /\ TaskType(d) /\ d.until \in Int /\ d.window \in Int
             /\ SlotEnd(n) = epoch[n] + begin + SlotTime
             /\ begin + SlotTime - ahead <= SlotEnd(n)
             /\ SlotEnd(n) <= begin + SlotTime + behind
<1> DEFINE begin == lastSlot[n] * SlotTime
<1>1. Calm(n, ahead, behind) BY DEF Undisturbed
<1>2. /\ time \in Int /\ epoch[n] \in Int /\ lastSlot[n] \in Int /\ TaskType(doing[n])
      /\ begin \in Int /\ SlotTime \in Int
  BY NodeTypes
<1>3. SlotEnd(n) = epoch[n] + begin + SlotTime BY DEF SlotEnd, SlotStart
<1> HIDE DEF begin
<1>4. begin + SlotTime - ahead <= SlotEnd(n) /\ SlotEnd(n) <= begin + SlotTime + behind
  BY <1>1, <1>2, <1>3, MarginTimes DEF Calm
<1>. QED BY <1>1, <1>2, <1>3, <1>4 DEF Calm, TaskType, begin

(* A node goes on listening, or waits in its slot for an exchange.         *)
LEMMA CalmListens ==
  ASSUME NEW ahead, NEW behind, Margins(ahead, behind),
         ScheduleInv, Undisturbed(ahead, behind), NEW n \in Id,
         doing[n].kind # "wait", NEW kind \in {"listen", "ownListen", "slave"},
         NEW until \in Int, NEW peer, Become(n, kind, until, peer),
         lastSlot[n] * SlotTime + SlotTime - ahead <= until,
         until <= lastSlot[n] * SlotTime + SlotTime + behind,
         UNCHANGED <<time, epoch, synced, heard, lastSlot>>,
         kind = "ownListen" => ActionAt(lastSlot[n], n) = "TX_BEACON",
         kind = "slave" => ActionAt(lastSlot[n], n) = "RANGE_SLAVE",
         kind = "listen" /\ ActionAt(lastSlot[n], n) = "RANGE_SLAVE" =>
           \/ lastSlot[n] * SlotTime + SlotTime - ahead <= time
           \/ PastGuard(Owners(lastSlot[n]).from, lastSlot[n])
  PROVE  Undisturbed(ahead, behind)'
<1> DEFINE d == Doing(kind, until, peer)
           begin == lastSlot[n] * SlotTime
<1>1. d.kind = kind /\ d.until = until /\ doing' = [doing EXCEPT ![n] = d]
  BY DEF Doing, Become
<1> HIDE DEF d
<1>2. /\ Punctual(doing[n], epoch[n], begin, time, ahead, behind)
      /\ n # Authority => InTime(doing[n], begin, time, ahead, behind)
      /\ begin + SlotTime - ahead <= until /\ until <= begin + SlotTime + behind
      /\ begin \in Int /\ time \in Int
  BY CalmNode
<1> HIDE DEF begin
<1>3. Punctual(d, epoch[n], begin, time, ahead, behind)
  <2>1. d.kind \notin {"wait", "debug", "guard", "master", "address"} BY <1>1
  <2>. QED BY <1>1, <1>2, <2>1, MarginTimes DEF Punctual
<1>4. n # Authority => InTime(d, begin, time, ahead, behind)
  BY <1>1, <1>2 DEF InTime
<1>5. Suits(n, d, lastSlot[n]) BY <1>1 DEF Suits
<1>6. d.kind \notin {"wait", "guard"} BY <1>1
<1>. QED BY <1>1, <1>3, <1>4, <1>5, <1>6, OneCalm DEF begin

LEMMA BeaconCalm ==
  ASSUME NEW ahead, NEW behind, Margins(ahead, behind),
         ScheduleInv, Undisturbed(ahead, behind), NEW n \in Id, BeaconSent(n)
  PROVE  Undisturbed(ahead, behind)'
<1>1. doing[n].kind = "beacon" /\ Become(n, "ownListen", SlotEnd(n), Nobody)
  BY DEF BeaconSent
<1>2. ActionAt(lastSlot[n], n) = "TX_BEACON" BY <1>1, CalmNode DEF Suits
<1>3. SlotEnd(n) \in Int BY SlotEndInt
<1>4. UNCHANGED <<time, epoch, synced, heard, lastSlot>> BY DEF BeaconSent
<1>. QED BY <1>1, <1>2, <1>3, <1>4, CalmNode, CalmListens

LEMMA DebugCalm ==
  ASSUME NEW ahead, NEW behind, Margins(ahead, behind),
         ScheduleInv, Undisturbed(ahead, behind), NEW n \in Id, DebugSend(n) \/ DebugSent(n)
  PROVE  Undisturbed(ahead, behind)'
<1>1. CASE DebugSend(n)
  <2> DEFINE d == [Doing("debug", time + DebugTime, Nobody) EXCEPT !.window = doing[n].until]
             begin == lastSlot[n] * SlotTime
  <2>1. /\ doing' = [doing EXCEPT ![n] = d] /\ d.kind = "debug"
        /\ d.until = time + DebugTime /\ d.window = doing[n].until
    BY <1>1 DEF DebugSend, SendDebug, Doing
  <2> HIDE DEF d
  <2>2. /\ doing[n].kind = "ownListen" /\ doing[n].until - time >= DebugMin
        /\ UNCHANGED <<time, epoch, synced, heard, lastSlot>>
    BY <1>1 DEF DebugSend, SendDebug
  <2>3. /\ Punctual(doing[n], epoch[n], begin, time, ahead, behind)
        /\ n # Authority => InTime(doing[n], begin, time, ahead, behind)
        /\ Suits(n, doing[n], lastSlot[n])
        /\ doing[n].until \in Int /\ time \in Int /\ begin \in Int
    BY CalmNode
  <2> HIDE DEF begin
  <2>4. Punctual(d, epoch[n], begin, time, ahead, behind)
    BY <2>1, <2>2, <2>3, MarginTimes DEF Punctual
  <2>5. n # Authority => InTime(d, begin, time, ahead, behind)
    BY <2>1, <2>2, <2>3 DEF InTime
  <2>6. Suits(n, d, lastSlot[n]) BY <2>1, <2>2, <2>3 DEF Suits
  <2>. QED BY <2>1, <2>2, <2>4, <2>5, <2>6, OneCalm DEF begin
<1>2. CASE DebugSent(n)
  <2>1. doing[n].kind = "debug" /\ Become(n, "ownListen", doing[n].window, Nobody)
    BY <1>2 DEF DebugSent
  <2>2. ActionAt(lastSlot[n], n) = "TX_BEACON" BY <2>1, CalmNode DEF Suits
  <2>3. UNCHANGED <<time, epoch, synced, heard, lastSlot>> BY <1>2 DEF DebugSent
  <2> DEFINE begin == lastSlot[n] * SlotTime
  <2>4. /\ Punctual(doing[n], epoch[n], begin, time, ahead, behind)
        /\ doing[n].window \in Int /\ begin \in Int
    BY CalmNode
  <2> HIDE DEF begin
  <2>5. /\ begin + SlotTime - ahead <= doing[n].window
        /\ doing[n].window <= begin + SlotTime + behind
    BY <2>1, <2>4, MarginTimes DEF Punctual
  <2>. QED BY <2>1, <2>2, <2>3, <2>4, <2>5, CalmListens DEF begin
<1>. QED BY <1>1, <1>2

LEMMA MasterCalm ==
  ASSUME NEW ahead, NEW behind, Margins(ahead, behind),
         ScheduleInv, Undisturbed(ahead, behind), NEW n \in Id, MasterStart(n) \/ MasterDone(n)
  PROVE  Undisturbed(ahead, behind)'
<1>1. CASE MasterStart(n)
  <2>1. PICK k \in 1 .. MasterTimeout : Become(n, "master", time + k, doing[n].peer)
    BY <1>1 DEF MasterStart
  <2> DEFINE d == Doing("master", time + k, doing[n].peer)
             begin == lastSlot[n] * SlotTime
  <2>2. doing' = [doing EXCEPT ![n] = d] /\ d.kind = "master" /\ d.until = time + k
    BY <2>1 DEF Become, Doing
  <2> HIDE DEF d
  <2>3. /\ Punctual(doing[n], epoch[n], begin, time, ahead, behind)
        /\ n # Authority => InTime(doing[n], begin, time, ahead, behind)
        /\ Suits(n, doing[n], lastSlot[n])
        /\ doing[n].until \in Int /\ time \in Int /\ begin \in Int
        /\ -ahead <= epoch[n] /\ epoch[n] <= behind /\ epoch[n] \in Int
    BY CalmNode
  <2>4. /\ doing[n].kind = "guard" /\ time >= doing[n].until
        /\ UNCHANGED <<time, epoch, synced, heard, lastSlot>>
    BY <1>1, <2>3 DEF MasterStart, ChipReady, Suits
  <2> HIDE DEF begin
  <2>5. Punctual(d, epoch[n], begin, time, ahead, behind)
    BY <2>2, <2>3, <2>4, MarginTimes DEF Punctual
  <2>6. n # Authority => InTime(d, begin, time, ahead, behind)
    BY <2>2, <2>3, <2>4 DEF InTime
  <2>7. Suits(n, d, lastSlot[n]) BY <2>2, <2>3, <2>4 DEF Suits
  <2>. QED BY <2>2, <2>4, <2>5, <2>6, <2>7, OneCalm DEF begin
<1>2. CASE MasterDone(n)
  <2>1. doing[n].kind = "master" /\ Become(n, "listen", SlotEnd(n), Nobody)
    BY <1>2 DEF MasterDone
  <2>2. ActionAt(lastSlot[n], n) = "RANGE_PEER" BY <2>1, CalmNode DEF Suits
  <2>3. UNCHANGED <<time, epoch, synced, heard, lastSlot>> /\ SlotEnd(n) \in Int
    BY <1>2, SlotEndInt DEF MasterDone
  <2>. QED BY <2>1, <2>2, <2>3, CalmNode, CalmListens
<1>. QED BY <1>1, <1>2

(* An exchange that a slave hears in its slot is the exchange of the slot. *)
LEMMA ItsMaster ==
  ASSUME NEW ahead, NEW behind, Margins(ahead, behind),
         ScheduleInv, Undisturbed(ahead, behind), NEW n \in Id, NEW m \in Id,
         doing[n].kind = "slave", doing[m].kind = "master", OnAir(m)
  PROVE  PastGuard(Owners(lastSlot[n]).from, lastSlot[n])
<1> DEFINE x == lastSlot[n] * SlotTime
           y == lastSlot[m] * SlotTime
<1>1. /\ Punctual(doing[n], epoch[n], x, time, ahead, behind)
      /\ n # Authority => InTime(doing[n], x, time, ahead, behind)
      /\ ActionAt(lastSlot[n], n) = "RANGE_SLAVE"
      /\ time \in Int /\ x \in Int /\ lastSlot[n] \in Int
  BY CalmNode DEF Suits
<1>2. /\ Punctual(doing[m], epoch[m], y, time, ahead, behind)
      /\ ActionAt(lastSlot[m], m) = "RANGE_PEER"
      /\ doing[m].until \in Int /\ y \in Int /\ lastSlot[m] \in Int
  BY CalmNode DEF Suits
<1>3. n # Authority BY <1>1, OwnerOfSlave
<1>4. x - ahead <= time /\ time + ahead < x + SlotTime + StartGuard
  BY <1>1, <1>3 DEF Punctual, InTime
<1>5. /\ y + StartGuard - ahead <= time /\ time < doing[m].until
      /\ doing[m].until <= y + behind + StartGuard + MasterTimeout
  BY <1>2 DEF Punctual, OnAir
<1>6. lastSlot[n] < lastSlot[m] => x + SlotTime <= y BY <1>1, <1>2, LaterSlot
<1>7. lastSlot[m] < lastSlot[n] => y + SlotTime <= x BY <1>1, <1>2, LaterSlot
<1> HIDE DEF x, y
<1>8. ~(lastSlot[n] < lastSlot[m]) BY <1>1, <1>2, <1>4, <1>5, <1>6, MarginTimes
<1>9. ~(lastSlot[m] < lastSlot[n]) BY <1>1, <1>2, <1>4, <1>5, <1>7, MarginTimes
<1>10. lastSlot[m] = lastSlot[n] BY <1>1, <1>2, <1>8, <1>9
<1>11. Owners(lastSlot[n]).from = m BY <1>2, <1>10, SlaveOfOwner
<1>. QED BY <1>10, <1>11 DEF PastGuard

LEMMA SlaveCalm ==
  ASSUME NEW ahead, NEW behind, Margins(ahead, behind),
         ScheduleInv, Undisturbed(ahead, behind), NEW n \in Id, SlaveStart(n) \/ SlaveDone(n)
  PROVE  Undisturbed(ahead, behind)'
<1>0. /\ Suits(n, doing[n], lastSlot[n]) /\ SlotEnd(n) \in Int
      /\ UNCHANGED <<time, epoch, synced, heard, lastSlot>>
  BY CalmNode, SlotEndInt DEF SlaveStart, SlaveDone
<1>1. CASE SlaveStart(n)
  <2>1. doing[n].kind = "address" /\ Become(n, "slave", SlotEnd(n), doing[n].peer)
    BY <1>0, <1>1 DEF SlaveStart, ChipReady, Suits
  <2>2. ActionAt(lastSlot[n], n) = "RANGE_SLAVE" BY <1>0, <2>1 DEF Suits
  <2>. QED BY <1>0, <2>1, <2>2, CalmNode, CalmListens
<1>2. CASE SlaveDone(n)
  <2>1. doing[n].kind = "slave" /\ Become(n, "listen", SlotEnd(n), Nobody)
    BY <1>2 DEF SlaveDone
  <2>2. \/ lastSlot[n] * SlotTime + SlotTime - ahead <= time
        \/ PastGuard(Owners(lastSlot[n]).from, lastSlot[n])
    <3>1. CASE time >= doing[n].until
      <4> DEFINE begin == lastSlot[n] * SlotTime
      <4>1. /\ Punctual(doing[n], epoch[n], begin, time, ahead, behind)
            /\ begin \in Int /\ doing[n].until \in Int /\ time \in Int
        BY CalmNode
      <4> HIDE DEF begin
      <4>2. begin + SlotTime - ahead <= doing[n].until
        BY <2>1, <4>1, MarginTimes DEF Punctual
      <4>3. begin + SlotTime - ahead <= time BY <3>1, <4>1, <4>2, MarginTimes
      <4>. QED BY <4>3 DEF begin
    <3>2. CASE \E m \in Id : doing[m].kind = "master" /\ OnAir(m) BY <2>1, <3>2, ItsMaster
    <3>. QED BY <1>2, <3>1, <3>2 DEF SlaveDone
  <2>. QED BY <1>0, <2>1, <2>2, CalmNode, CalmListens
<1>. QED BY <1>1, <1>2

(* The authority's heartbeat aligns those who listen.                      *)
LEMMA HeartbeatCalm ==
  ASSUME NEW ahead, NEW behind, Margins(ahead, behind),
         ScheduleInv, Undisturbed(ahead, behind), HeartbeatSent
  PROVE  Undisturbed(ahead, behind)'
<1> DEFINE A == Authority
<1>1. PICK caught \in SUBSET Listeners :
         /\ \E skew \in [caught -> Skews] :
              epoch' = [n \in Id |-> IF n \in caught THEN AlignedEpoch(skew[n]) ELSE epoch[n]]
         /\ synced' = [n \in Id |-> synced[n] \/ n \in caught]
         /\ heard' = [n \in Id |-> IF n \in caught THEN time ELSE heard[n]]
  BY DEF HeartbeatSent
<1>2. PICK skew \in [caught -> Skews] :
        epoch' = [n \in Id |-> IF n \in caught THEN AlignedEpoch(skew[n]) ELSE epoch[n]]
  BY <1>1
<1>3. PICK d : /\ doing' = [doing EXCEPT ![A] = d]
               /\ \/ d.kind = "beacon"
                  \/ d.kind = "ownListen" /\ d.until = SlotEnd(A)
  <2>1. \/ Become(A, "beacon", time + BeaconTime, Nobody)
        \/ Become(A, "ownListen", SlotEnd(A), Nobody)
    BY DEF HeartbeatSent
  <2>2. CASE Become(A, "beacon", time + BeaconTime, Nobody)
    <3>1. Doing("beacon", time + BeaconTime, Nobody).kind = "beacon" BY DEF Doing
    <3>. QED BY <2>2, <3>1 DEF Become
  <2>3. CASE Become(A, "ownListen", SlotEnd(A), Nobody)
    <3>1. /\ Doing("ownListen", SlotEnd(A), Nobody).kind = "ownListen"
          /\ Doing("ownListen", SlotEnd(A), Nobody).until = SlotEnd(A)
      BY DEF Doing
    <3>. QED BY <2>3, <3>1 DEF Become
  <2>. QED BY <2>1, <2>2, <2>3
<1>4. /\ A \in Id /\ epoch[A] = 0 /\ doing[A].kind = "heartbeat" /\ time = doing[A].until
      /\ UNCHANGED <<time, lastSlot, disturbances>>
  BY Constants DEF Undisturbed, HeartbeatSent
<1>5. \A n \in Id : doing'[n] = IF n = A THEN d ELSE doing[n]
  BY <1>3 DEF ScheduleInv, Typed
<1>6. \A n \in caught : n \in Id /\ n # A /\ doing[n].kind \in Passive BY DEF Listeners
<1>7. epoch'[A] = 0 BY <1>2, <1>4, <1>6
<1>8. ASSUME NEW m \in Id, NEW s \in Int, PastGuard(m, s) PROVE PastGuard(m, s)'
  <2>1. lastSlot[m] \in Int /\ lastSlot'[m] = lastSlot[m] BY <1>4, NodeTypes
  <2>2. doing'[m].kind = "guard" => doing[m].kind = "guard" BY <1>3, <1>5
  <2>. QED BY <1>8, <2>1, <2>2, PastStays
<1>9. Calm(A, ahead, behind)'
  <2> DEFINE begin == lastSlot[A] * SlotTime
  <2>1. /\ Punctual(doing[A], epoch[A], begin, time, ahead, behind)
        /\ Suits(A, doing[A], lastSlot[A])
        /\ begin \in Int /\ time \in Int /\ SlotEnd(A) \in Int
        /\ begin + SlotTime - ahead <= SlotEnd(A)
        /\ SlotEnd(A) <= begin + SlotTime + behind
    BY <1>4, CalmNode, SlotEndInt
  <2> HIDE DEF begin
  <2>2. Punctual(d, 0, begin, time, ahead, behind)
    BY <1>3, <1>4, <2>1, MarginTimes DEF Punctual
  <2>3. Suits(A, d, lastSlot[A]) BY <1>3, <1>4, <2>1 DEF Suits
  <2>4. Served(A, ahead)' BY <1>3, <1>4, <1>5 DEF Served
  <2>. QED BY <1>4, <1>5, <1>7, <2>2, <2>3, <2>4, MarginTimes DEF Calm, begin
<1>10. PICK a \in Int : /\ ActionAt(a, A) = "TX_BEACON" /\ a * SlotTime <= time
                        /\ time <= a * SlotTime + SlotTime - BeaconMin + HeartbeatTime
  <2>1. InSlot(A, doing[A], 0, lastSlot[A], time)
    BY <1>4 DEF ScheduleInv, KeepsSlot
  <2> DEFINE begin == lastSlot[A] * SlotTime
  <2>2. ActionAt(lastSlot[A], A) = "TX_BEACON" BY <1>4, <2>1 DEF InSlot
  <2>3. begin \in Int /\ lastSlot[A] \in Int /\ doing[A].from \in Int
    BY <1>4, NodeTypes DEF TaskType
  <2>4. /\ 0 + begin <= doing[A].from /\ doing[A].from <= 0 + begin + SlotTime - BeaconMin
        /\ doing[A].until = doing[A].from + HeartbeatTime
    BY <1>4, <2>1, <2>3, MarginTimes DEF InSlot
  <2> HIDE DEF begin
  <2>5. begin <= time /\ time <= begin + SlotTime - BeaconMin + HeartbeatTime
    BY <1>4, <2>3, <2>4, MarginTimes
  <2>. QED BY <2>2, <2>3, <2>5 DEF begin
<1>11. ASSUME NEW n \in Id, n # A PROVE Calm(n, ahead, behind)'
  <2> DEFINE begin == lastSlot[n] * SlotTime
  <2>1. Calm(n, ahead, behind) BY DEF Undisturbed
  <2>2. doing'[n] = doing[n] BY <1>5, <1>11
  <2>3. Served(n, ahead)'
    <3>1. lastSlot[n] \in Int BY NodeTypes
    <3>2. ActionAt(lastSlot[n], n) = "RANGE_SLAVE" => Owners(lastSlot[n]).from \in Id
      BY <3>1, OwnerOfSlave
    <3>. QED BY <1>4, <1>8, <2>1, <2>2, <3>1, <3>2 DEF Calm, Served
  <2>4. CASE n \in caught
    <3>1. epoch'[n] = 0 + skew[n] /\ skew[n] \in Skews
      BY <1>2, <1>4, <2>4 DEF AlignedEpoch
    <3>2. -ahead <= epoch'[n] /\ epoch'[n] <= behind BY <3>1, MarginTimes
    <3>3. doing[n].kind # "guard" BY <1>6, <2>4 DEF Passive
    <3>4. Punctual(doing[n], epoch'[n], begin, time, ahead, behind)
      BY <2>1, <3>3 DEF Calm, Punctual
    <3>5. heard'[n] = time BY <1>1, <2>4
    <3>6. doing[n].kind = "wait" => doing[n].until <= time + SlotTime
      BY <2>1 DEF Calm, Punctual
    <3>7. Regains(n)' BY <1>4, <1>10, <2>2, <3>5, <3>6 DEF Regains
    <3>. QED BY <1>4, <2>1, <2>2, <2>3, <3>2, <3>4, <3>7 DEF Calm
  <2>5. CASE n \notin caught
    <3>1. epoch'[n] = epoch[n] /\ heard'[n] = heard[n] /\ (synced'[n] <=> synced[n])
      BY <1>1, <1>2, <2>5
    <3>2. Regains(n)' BY <1>4, <1>11, <2>1, <2>2, <3>1 DEF Calm, Regains, HasTiming
    <3>. QED BY <1>4, <2>1, <2>2, <2>3, <3>1, <3>2 DEF Calm
  <2>. QED BY <2>4, <2>5
<1>. QED BY <1>7, <1>9, <1>11 DEF Undisturbed

(* The slot that serviceTdmaSlot finds: never an earlier one, and, by a    *)
(* follower that has the timing, found before a master starts in it.       *)
LEMMA RangingComesLater ==
  ASSUME NEW a \in Int, NEW b \in Int, NEW n \in Id, a <= b,
         ActionAt(a, Authority) = "TX_BEACON", ActionAt(b, n) = "RANGE_SLAVE"
  PROVE  a + 2 <= b
<1> DEFINE F == SlotsPerFrame
           r == a % F
<1>1. F \in Nat \ {0} /\ N \in Nat \ {0} BY FrameLength, Constants
<1>2. a % F = 0 /\ ~(b % F < N)
  <2>1. IsBeaconSlot(a) BY DEF ActionAt
  <2>2. a % F = 0 BY <2>1 DEF ActionAt, Owners
  <2>3. ~IsBeaconSlot(b) BY OwnerOfSlave
  <2>. QED BY <2>2, <2>3 DEF IsBeaconSlot
<1>3. N >= 2
  <2>1. Owners(b).from \in Id /\ n # Authority BY OwnerOfSlave
  <2>. QED BY <1>1, <2>1 DEF Id
<1>4. N <= F BY FrameLength, <1>1
<1> DEFINE q == a \div F
<1>5. q \in Int /\ a = F * q + (a % F) BY <1>1
<1> HIDE DEF F, q
<1>6. a = q * F /\ q * F \in Int BY <1>1, <1>2, <1>5
<1>7. ASSUME b = a + 1 PROVE FALSE
  <2>1. 1 \in 0 .. F - 1 BY <1>1, <1>3, <1>4
  <2>2. b = q * F + 1 BY <1>6, <1>7
  <2>3. b % F = 1 BY <2>1, <2>2, <1>5, SlotIndex DEF F
  <2>. QED BY <1>1, <1>2, <1>3, <2>3
<1>8. b # a BY <1>1, <1>2
<1>. QED BY <1>7, <1>8

LEMMA SlotFound ==
  ASSUME NEW ahead, NEW behind, Margins(ahead, behind),
         ScheduleInv, Undisturbed(ahead, behind), NEW n \in Id,
         doing[n].kind \in Passive, time >= doing[n].until
  PROVE  LET slot == AbsoluteSlot(Aligned(n))
             begin == slot * SlotTime
         IN  /\ slot \in Int /\ begin \in Int /\ lastSlot[n] <= slot
             /\ epoch[n] + begin <= time /\ time < epoch[n] + begin + SlotTime
             /\ Remaining(Aligned(n)) = epoch[n] + begin + SlotTime - time
             /\ lastSlot[n] * SlotTime + SlotTime - ahead <= time
<1> DEFINE slot == AbsoluteSlot(Aligned(n))
           begin == slot * SlotTime
           last == lastSlot[n] * SlotTime
<1>1. /\ Punctual(doing[n], epoch[n], last, time, ahead, behind)
      /\ -ahead <= epoch[n] /\ epoch[n] <= behind /\ epoch[n] \in Int
      /\ last \in Int /\ time \in Int /\ lastSlot[n] \in Int /\ doing[n].until \in Int
  BY CalmNode
<1>2. /\ slot \in Int /\ epoch[n] + begin <= time /\ time < epoch[n] + begin + SlotTime
      /\ Remaining(Aligned(n)) = epoch[n] + begin + SlotTime - time
  BY <1>1, SlotOfTime DEF Aligned
<1> HIDE DEF slot
<1>3. begin \in Int BY <1>2, Constants
<1>4. slot < lastSlot[n] => begin + SlotTime <= last BY <1>1, <1>2, LaterSlot
<1> HIDE DEF begin, last
<1>5. last + SlotTime - ahead <= time BY <1>1, MarginTimes DEF Punctual, Passive
<1>6. ~(slot < lastSlot[n]) BY <1>1, <1>2, <1>3, <1>4, <1>5, MarginTimes
<1>7. lastSlot[n] <= slot BY <1>1, <1>2, <1>6
<1>. QED BY <1>2, <1>3, <1>5, <1>7 DEF slot, begin, last

LEMMA SlaveFindsSlot ==
  ASSUME NEW ahead, NEW behind, Margins(ahead, behind),
         ScheduleInv, Undisturbed(ahead, behind), NEW n \in Id,
         doing[n].kind \in Passive, time >= doing[n].until, HasTiming(n),
         AbsoluteSlot(Aligned(n)) # lastSlot[n],
         ActionAt(AbsoluteSlot(Aligned(n)), n) = "RANGE_SLAVE"
  PROVE  LET begin == AbsoluteSlot(Aligned(n)) * SlotTime
         IN  time + ahead < begin + StartGuard \/ begin + SlotTime <= time + ahead
<1> DEFINE slot == AbsoluteSlot(Aligned(n))
           begin == slot * SlotTime
           last == lastSlot[n] * SlotTime
<1>1. /\ slot \in Int /\ begin \in Int /\ lastSlot[n] <= slot BY SlotFound
<1>2. /\ Punctual(doing[n], epoch[n], last, time, ahead, behind)
      /\ n # Authority => InTime(doing[n], last, time, ahead, behind)
      /\ last \in Int /\ time \in Int /\ lastSlot[n] \in Int /\ doing[n].until \in Int
  BY CalmNode
<1>3. n # Authority /\ ActionAt(slot, n) = "RANGE_SLAVE" BY <1>1, OwnerOfSlave
<1>4. lastSlot[n] < slot BY <1>1, <1>2
<1> HIDE DEF slot
<1>5. last + SlotTime <= begin BY <1>1, <1>2, <1>4, LaterSlot
<1>6. CASE doing[n].kind # "wait"
  <2> HIDE DEF begin, last
  <2>1. time + ahead < last + SlotTime + StartGuard BY <1>2, <1>3, <1>6 DEF InTime
  <2>2. time + ahead < begin + StartGuard BY <1>1, <1>2, <1>5, <2>1, MarginTimes
  <2>. QED BY <2>2 DEF begin, slot
<1>7. CASE doing[n].kind = "wait"
  <2>1. Calm(n, ahead, behind) BY DEF Undisturbed
  <2>2. synced[n] /\ doing[n].until <= heard[n] + SlotTime
    BY <1>3, <1>7, <2>1 DEF Calm, Regains, HasTiming
  <2>3. PICK a \in Int : /\ ActionAt(a, Authority) = "TX_BEACON"
                         /\ a * SlotTime <= heard[n]
                         /\ heard[n] <= a * SlotTime + SlotTime - BeaconMin + HeartbeatTime
    BY <1>3, <2>1, <2>2 DEF Calm, Regains
  <2> DEFINE then == a * SlotTime
  <2>4. then \in Int /\ heard[n] \in Int /\ heard[n] <= time BY NodeTypes
  <2>5. time <= doing[n].until + MaxLate BY <1>7, <1>2, MarginTimes DEF Punctual
  <2>6. CASE slot < a
    <3>1. begin + SlotTime <= then BY <1>1, <2>6, LaterSlot
    <3> HIDE DEF begin, then
    <3>2. begin + SlotTime <= time + ahead BY <1>1, <1>2, <2>3, <2>4, <3>1, MarginTimes DEF then
    <3>. QED BY <3>2 DEF begin, slot
  <2>7. CASE a <= slot
    <3>1. a + 2 <= slot BY <1>1, <1>3, <2>3, <2>7, RangingComesLater
    <3>2. then + SlotTime + SlotTime <= begin
      <4>1. a + 1 \in Int /\ a + 1 < slot BY <1>1, <3>1
      <4>2. (a + 1) * SlotTime = then + SlotTime BY Constants
      <4>. QED BY <1>1, <4>1, <4>2, LaterSlot
    <3>3. then <= heard[n] /\ heard[n] <= then + SlotTime - BeaconMin + HeartbeatTime
      BY <2>3
    <3> HIDE DEF begin, then
    <3>4. time + ahead < begin + StartGuard
      BY <1>1, <1>2, <2>2, <2>4, <2>5, <3>2, <3>3, MarginTimes
    <3>. QED BY <3>4 DEF begin, slot
  <2>. QED BY <1>1, <2>6, <2>7
<1>. QED BY <1>6, <1>7

(* Whatever serviceTdmaSlot decides, the node stays in step.               *)
LEMMA ServiceCalm ==
  ASSUME NEW ahead, NEW behind, Margins(ahead, behind),
         ScheduleInv, Undisturbed(ahead, behind), NEW n \in Id, Service(n)
  PROVE  Undisturbed(ahead, behind)'
<1> DEFINE slot == AbsoluteSlot(Aligned(n))
           begin == slot * SlotTime
           last == lastSlot[n] * SlotTime
<1>1. /\ doing[n].kind \in Passive /\ time >= doing[n].until
      /\ UNCHANGED <<time, epoch, synced, heard>>
  BY DEF Service
<1>2. /\ slot \in Int /\ begin \in Int /\ lastSlot[n] <= slot
      /\ epoch[n] + begin <= time /\ time < epoch[n] + begin + SlotTime
      /\ Remaining(Aligned(n)) = epoch[n] + begin + SlotTime - time
      /\ last + SlotTime - ahead <= time
  BY <1>1, SlotFound
<1>3. /\ Calm(n, ahead, behind) /\ -ahead <= epoch[n] /\ epoch[n] <= behind /\ epoch[n] \in Int
      /\ time \in Int /\ last \in Int /\ lastSlot[n] \in Int
  BY CalmNode DEF Undisturbed
<1>4. /\ lastSlot' = lastSlot => lastSlot' = [lastSlot EXCEPT ![n] = lastSlot[n]]
      /\ lastSlot[n] <= lastSlot[n]
  BY <1>3 DEF ScheduleInv, Typed
<1>5. EndOf(n, slot) = epoch[n] + begin + SlotTime
  <2>1. (slot + 1) * SlotTime = begin + SlotTime BY <1>2, Constants
  <2>2. epoch[n] + (begin + SlotTime) = epoch[n] + begin + SlotTime BY <1>2, <1>3, Constants
  <2>. QED BY <2>1, <2>2 DEF EndOf
<1>6. SlotEnd(n) = epoch[n] + last + SlotTime BY DEF SlotEnd, SlotStart
<1> HIDE DEF slot
(* Lying in slot begin, with a task that starts there.                     *)
<1>7. ASSUME NEW d, d.kind # "wait", d.kind # "beacon" PROVE InTime(d, begin, time, ahead, behind)
  <2> HIDE DEF begin
  <2>1. time + ahead < begin + SlotTime + StartGuard BY <1>2, <1>3, MarginTimes
  <2>. QED BY <1>7, <2>1 DEF InTime
<1>8. ASSUME NEW d, d.kind \in {"listen", "ownListen"}, d.until = epoch[n] + begin + SlotTime
      PROVE  Punctual(d, epoch[n], begin, time, ahead, behind)
  <2> HIDE DEF begin
  <2>. QED BY <1>2, <1>3, <1>8, MarginTimes DEF Punctual
<1>9. begin - ahead <= time
  <2> HIDE DEF begin
  <2>. QED BY <1>2, <1>3, MarginTimes
<1>10. ASSUME EnterSlot(n, slot)
       PROVE  lastSlot' = [lastSlot EXCEPT ![n] = slot] /\ lastSlot[n] # slot
  BY <1>10 DEF EnterSlot
<1>11. CASE WaitForAuthority(n)
  <2> DEFINE d == Doing("wait", time + SlotTime, Nobody)
  <2>1. d.kind = "wait" /\ d.until = time + SlotTime /\ doing' = [doing EXCEPT ![n] = d]
    BY <1>11 DEF WaitForAuthority, Become, Doing
  <2> HIDE DEF d
  <2>2. ~HasTiming(n) /\ lastSlot' = lastSlot BY <1>11 DEF WaitForAuthority
  <2>3. Suits(n, d, lastSlot[n]) BY <2>1 DEF Suits
  <2>4. Punctual(d, epoch[n], last, time, ahead, behind)
    <3> HIDE DEF last
    <3>. QED BY <1>2, <1>3, <2>1, MarginTimes DEF Punctual
  <2>5. InTime(d, last, time, ahead, behind) BY <2>1 DEF InTime
  <2>. QED BY <1>1, <1>2, <1>3, <1>4, <2>1, <2>2, <2>3, <2>4, <2>5, OneDecidesCalm
<1>12. CASE SlotAgain(n, slot)
  <2> DEFINE d == Doing("listen", SlotEnd(n), Nobody)
  <2>1. d.kind = "listen" /\ d.until = SlotEnd(n) /\ doing' = [doing EXCEPT ![n] = d]
    BY <1>12 DEF SlotAgain, Become, Doing
  <2> HIDE DEF d
  <2>2. slot = lastSlot[n] /\ lastSlot' = lastSlot BY <1>12 DEF SlotAgain
  <2>3. Suits(n, d, slot) BY <2>1 DEF Suits
  <2>4. Punctual(d, epoch[n], begin, time, ahead, behind) BY <1>6, <1>8, <2>1, <2>2
  <2>5. InTime(d, begin, time, ahead, behind) BY <1>7, <2>1
  <2>6. last + SlotTime - ahead <= time BY <1>2
  <2>. QED BY <1>1, <1>2, <1>4, <2>1, <2>2, <2>3, <2>4, <2>5, <2>6, OneDecidesCalm
<1>13. CASE Missed(n, slot)
  <2> DEFINE d == Doing("listen", EndOf(n, slot), Nobody)
  <2>1. d.kind = "listen" /\ d.until = EndOf(n, slot) /\ doing' = [doing EXCEPT ![n] = d]
    BY <1>13 DEF Missed, Become, Doing
  <2> HIDE DEF d
  <2>2. Suits(n, d, slot) BY <2>1 DEF Suits
  <2>3. ActionAt(slot, n) # "RANGE_SLAVE" BY <1>13 DEF Missed, CanStart
  <2>4. EnterSlot(n, slot) BY <1>13 DEF Missed
  <2>5. Punctual(d, epoch[n], begin, time, ahead, behind) BY <1>5, <1>8, <2>1
  <2>6. InTime(d, begin, time, ahead, behind) BY <1>7, <2>1
  <2>. QED BY <1>1, <1>2, <1>10, <2>1, <2>2, <2>3, <2>4, <2>5, <2>6, OneDecidesCalm
<1>14. CASE StartListenSlot(n, slot)
  <2> DEFINE d == Doing("listen", EndOf(n, slot), Nobody)
  <2>1. d.kind = "listen" /\ d.until = EndOf(n, slot) /\ doing' = [doing EXCEPT ![n] = d]
    BY <1>14 DEF StartListenSlot, Become, Doing
  <2> HIDE DEF d
  <2>2. Suits(n, d, slot) BY <2>1 DEF Suits
  <2>3. ActionAt(slot, n) # "RANGE_SLAVE" /\ EnterSlot(n, slot) BY <1>14 DEF StartListenSlot
  <2>4. Punctual(d, epoch[n], begin, time, ahead, behind) BY <1>5, <1>8, <2>1
  <2>5. InTime(d, begin, time, ahead, behind) BY <1>7, <2>1
  <2>. QED BY <1>1, <1>2, <1>10, <2>1, <2>2, <2>3, <2>4, <2>5, OneDecidesCalm
<1>15. CASE StartBeaconSlot(n, slot)
  <2>1. /\ EnterSlot(n, slot) /\ ActionAt(slot, n) = "TX_BEACON"
        /\ epoch[n] + begin + SlotTime - time >= BeaconMin
    BY <1>2, <1>15 DEF StartBeaconSlot, CanStart
  <2>2. PICK d : /\ doing' = [doing EXCEPT ![n] = d]
                 /\ \/ n = Authority /\ d.kind = "heartbeat"
                    \/ d.kind = "beacon" /\ d.until = time + BeaconTime
                    \/ d.kind = "ownListen" /\ d.until = EndOf(n, slot)
    <3> DEFINE h == Doing("heartbeat", time + HeartbeatTime, Nobody)
               b == Doing("beacon", time + BeaconTime, Nobody)
               o == Doing("ownListen", EndOf(n, slot), Nobody)
    <3>1. /\ h.kind = "heartbeat" /\ b.kind = "beacon" /\ b.until = time + BeaconTime
          /\ o.kind = "ownListen" /\ o.until = EndOf(n, slot)
      BY DEF Doing
    <3>2. \/ n = Authority /\ doing' = [doing EXCEPT ![n] = h]
          \/ doing' = [doing EXCEPT ![n] = b]
          \/ doing' = [doing EXCEPT ![n] = o]
      BY <1>15 DEF StartBeaconSlot, Become
    <3> HIDE DEF h, b, o
    <3>. QED BY <3>1, <3>2
  <2>3. Suits(n, d, slot) BY <2>1, <2>2 DEF Suits
  <2>4. Punctual(d, epoch[n], begin, time, ahead, behind)
    <3>1. CASE d.kind \in {"heartbeat", "beacon"} BY <1>9, <3>1 DEF Punctual
    <3>2. CASE d.kind = "ownListen" BY <1>5, <1>8, <2>2, <3>2
    <3>. QED BY <2>2, <3>1, <3>2
  <2>5. n # Authority => InTime(d, begin, time, ahead, behind)
    <3>1. CASE d.kind = "ownListen" BY <1>7, <3>1
    <3>2. CASE d.kind = "beacon"
      <4> HIDE DEF begin
      <4>1. time + ahead < begin + SlotTime + StartGuard BY <1>2, <1>3, MarginTimes
      <4>2. d.until <= begin + SlotTime + behind + BeaconTime - BeaconMin
        BY <1>2, <1>3, <2>1, <2>2, <3>2, MarginTimes
      <4>. QED BY <4>1, <4>2 DEF InTime
    <3>. QED BY <2>2, <3>1, <3>2
  <2>6. d.kind \notin {"guard", "wait", "listen"} BY <2>2
  <2>. QED BY <1>1, <1>2, <1>10, <2>1, <2>2, <2>3, <2>4, <2>5, <2>6, OneDecidesCalm
<1>16. CASE StartRangingSlot(n, slot)
  <2> DEFINE until == epoch[n] + begin + StartGuard
             d == Doing("guard", until, Owners(slot).to)
  <2>1. /\ EnterSlot(n, slot) /\ ActionAt(slot, n) = "RANGE_PEER"
        /\ epoch[n] + begin + SlotTime - time >= RangeMin
    BY <1>2, <1>16 DEF StartRangingSlot, CanStart
  <2>2. /\ d.kind = "guard" /\ d.until = until /\ d.peer = Owners(slot).to
        /\ doing' = [doing EXCEPT ![n] = d]
    BY <1>16 DEF StartRangingSlot, Become, Doing
  <2> HIDE DEF d
  <2>3. Suits(n, d, slot) BY <2>1, <2>2 DEF Suits
  <2>4. Punctual(d, epoch[n], begin, time, ahead, behind)
    <3> HIDE DEF begin
    <3>1. time <= until BY <1>2, <1>3, <2>1, MarginTimes
    <3>. QED BY <1>9, <2>2, <3>1 DEF Punctual
  <2>5. InTime(d, begin, time, ahead, behind) BY <1>7, <2>2
  <2>. QED BY <1>1, <1>2, <1>10, <2>1, <2>2, <2>3, <2>4, <2>5, OneDecidesCalm
<1>17. CASE StartSlaveSlot(n, slot) /\ HasTiming(n)
  <2> DEFINE d == Doing("address", time, Owners(slot).from)
  <2>1. EnterSlot(n, slot) /\ ActionAt(slot, n) = "RANGE_SLAVE" BY <1>17 DEF StartSlaveSlot
  <2>2. /\ d.kind = "address" /\ d.until = time /\ doing' = [doing EXCEPT ![n] = d]
    BY <1>17 DEF StartSlaveSlot, Become, Doing
  <2> HIDE DEF d
  <2>3. Suits(n, d, slot) BY <2>1, <2>2 DEF Suits
  <2>4. time + ahead < begin + StartGuard \/ begin + SlotTime <= time + ahead
    BY <1>1, <1>10, <1>17, <2>1, SlaveFindsSlot DEF slot
  <2>5. Punctual(d, epoch[n], begin, time, ahead, behind) BY <1>9, <2>2, <2>4 DEF Punctual
  <2>6. InTime(d, begin, time, ahead, behind) BY <1>7, <2>2
  <2>. QED BY <1>1, <1>2, <1>10, <2>1, <2>2, <2>3, <2>5, <2>6, OneDecidesCalm
<1>. QED BY <1>11, <1>12, <1>13, <1>14, <1>15, <1>16, <1>17 DEF Service, slot

(* A disturbance ends the calm for good, everything else keeps it.         *)
LEMMA CalmKept ==
  ASSUME NEW ahead, NEW behind, Margins(ahead, behind),
         ScheduleInv, Bounds, CalmInv(ahead, behind), [Next]_vars
  PROVE  CalmInv(ahead, behind)'
<1> SUFFICES ASSUME disturbances' = 0 PROVE Undisturbed(ahead, behind)' BY DEF CalmInv
<1>1. disturbances \in Nat BY NetworkAssumption DEF Bounds
<1>2. ASSUME disturbances' = disturbances PROVE Undisturbed(ahead, behind)
  BY <1>2 DEF CalmInv
<1>3. disturbances' # disturbances + 1 BY <1>1
<1>4. ASSUME Undisturbed(ahead, behind), NEW n \in Id
      PROVE  doing[n].kind \notin {"busyMaster", "busySlave", "backoff"}
  BY <1>4, CalmNode DEF Suits
<1>5. CASE UNCHANGED vars
  BY <1>2, <1>5 DEF vars, Undisturbed, Calm, Regains, HasTiming, Served, PastGuard
<1>6. CASE Tick BY <1>2, <1>6, CalmTick DEF Tick
<1>7. CASE HeartbeatSent BY <1>2, <1>7, HeartbeatCalm DEF HeartbeatSent
<1>8. ASSUME NEW n \in Id, Service(n) PROVE Undisturbed(ahead, behind)'
  BY <1>2, <1>8, ServiceCalm DEF Service
<1>9. ASSUME NEW n \in Id, BeaconSent(n) PROVE Undisturbed(ahead, behind)'
  BY <1>2, <1>9, BeaconCalm DEF BeaconSent
<1>10. ASSUME NEW n \in Id, DebugSend(n) \/ DebugSent(n) PROVE Undisturbed(ahead, behind)'
  BY <1>2, <1>10, DebugCalm DEF DebugSend, SendDebug, DebugSent
<1>11. ASSUME NEW n \in Id, MasterStart(n) \/ MasterDone(n) PROVE Undisturbed(ahead, behind)'
  BY <1>2, <1>11, MasterCalm DEF MasterStart, MasterDone
<1>12. ASSUME NEW n \in Id, SlaveStart(n) \/ SlaveDone(n) PROVE Undisturbed(ahead, behind)'
  BY <1>2, <1>12, SlaveCalm DEF SlaveStart, SlaveDone
<1>13. ASSUME NEW n \in Id, ChipBusy(n) PROVE FALSE BY <1>3, <1>13 DEF ChipBusy
<1>14. ASSUME NEW n \in Id, ChipGivenUp(n) PROVE FALSE BY <1>2, <1>4, <1>14 DEF ChipGivenUp
<1>15. ASSUME NEW n \in Id, EngineError(n) PROVE FALSE BY <1>3, <1>15 DEF EngineError
<1>16. ASSUME NEW n \in Id, BackoffDone(n) PROVE FALSE BY <1>2, <1>4, <1>16 DEF BackoffDone
<1>17. ASSUME NEW n \in Id, Restart(n) PROVE FALSE BY <1>3, <1>17 DEF Restart
<1>. QED BY <1>5, <1>6, <1>7, <1>8, <1>9, <1>10, <1>11, <1>12, <1>13, <1>14, <1>15, <1>16, <1>17
         DEF Next

LEMMA BeforeFirst == ASSUME NEW s, s = -1, NEW T \in Nat PROVE s * T = -T
OBVIOUS

LEMMA InitiallyCalm ==
  ASSUME NEW ahead, NEW behind, Margins(ahead, behind), Init
  PROVE  CalmInv(ahead, behind)
<1>1. ahead \in Nat /\ behind \in Nat /\ SlotTime \in Nat /\ MaxLate \in Nat /\ Timeout \in Nat
  BY MarginTimes, Constants
<1>2. epoch[Authority] = 0 BY Constants DEF Init
<1>3. ASSUME NEW n \in Id PROVE Calm(n, ahead, behind)
  <2>1. /\ doing[n].kind = "wait" /\ doing[n].until = 0 /\ time = 0 /\ epoch[n] = 0
        /\ lastSlot[n] = -1
    BY <1>3 DEF Init, Doing, NoSlot
  <2>2. lastSlot[n] * SlotTime = -SlotTime
    BY <1>1, <2>1, BeforeFirst
  <2>3. Punctual(doing[n], 0, -SlotTime, 0, ahead, behind)
    BY <1>1, <2>1 DEF Punctual
  <2>4. lastSlot[n] * SlotTime + SlotTime - ahead <= time BY <1>1, <2>1, <2>2
  <2>5. Served(n, ahead) BY <2>4 DEF Served
  <2>6. Suits(n, doing[n], lastSlot[n]) BY <2>1 DEF Suits
  <2>7. InTime(doing[n], -SlotTime, 0, ahead, behind) BY <2>1 DEF InTime
  <2>8. ASSUME n # Authority PROVE Regains(n)
    <3>1. synced[n] = FALSE BY <1>3, <2>8 DEF Init
    <3>2. ~HasTiming(n) BY <2>8, <3>1 DEF HasTiming
    <3>. QED BY <3>1, <3>2 DEF Regains
  <2>. QED BY <1>1, <2>1, <2>2, <2>3, <2>5, <2>6, <2>7, <2>8 DEF Calm
<1>. QED BY <1>2, <1>3 DEF CalmInv, Undisturbed

(* Where the slave is when its master starts.                              *)
LEMMA SlaveListens ==
  ASSUME NEW ahead, NEW behind, Margins(ahead, behind),
         ScheduleInv, Undisturbed(ahead, behind), NEW n \in Id,
         MasterStart(n), doing[n].kind = "guard", HasTiming(doing[n].peer)
  PROVE  doing[doing[n].peer].kind = "slave"
<1> DEFINE p == doing[n].peer
           s == lastSlot[n]
           x == lastSlot[n] * SlotTime
           y == lastSlot[p] * SlotTime
<1>1. /\ Punctual(doing[n], epoch[n], x, time, ahead, behind)
      /\ Suits(n, doing[n], s) /\ -ahead <= epoch[n] /\ epoch[n] <= behind /\ epoch[n] \in Int
      /\ x \in Int /\ time \in Int /\ s \in Int /\ doing[n].until \in Int
  BY CalmNode
<1>2. /\ p = Owners(s).to /\ ActionAt(s, n) = "RANGE_PEER" BY <1>1 DEF Suits
<1>3. Owners(s).from = n /\ p \in Id /\ ActionAt(s, p) = "RANGE_SLAVE"
  BY <1>1, <1>2, SlaveOfOwner
<1>4. p # Authority BY <1>1, <1>3, OwnerOfSlave
<1> HIDE DEF p
<1>5. /\ Punctual(doing[p], epoch[p], y, time, ahead, behind)
      /\ InTime(doing[p], y, time, ahead, behind)
      /\ Suits(p, doing[p], lastSlot[p]) /\ TaskType(doing[p])
      /\ y \in Int /\ lastSlot[p] \in Int /\ doing[p].until \in Int
  BY <1>3, <1>4, CalmNode
<1>6. /\ s < lastSlot[p] => x + SlotTime <= y
      /\ lastSlot[p] < s => y + SlotTime <= x
  BY <1>1, <1>5, LaterSlot
<1>7. x + StartGuard - ahead <= time /\ time <= x + StartGuard + behind
  <2> HIDE DEF x
  <2>1. doing[n].until <= time BY <1>1 DEF MasterStart, ChipReady
  <2>2. doing[n].until = epoch[n] + x + StartGuard /\ time <= doing[n].until
    BY <1>1 DEF Punctual
  <2>. QED BY <1>1, <2>1, <2>2, MarginTimes
<1>8. doing[p].kind # "wait"
  <2> SUFFICES ASSUME doing[p].kind = "wait" PROVE FALSE OBVIOUS
  <2>1. synced[p] /\ doing[p].until <= heard[p] + SlotTime /\ Calm(p, ahead, behind)
    BY <1>3, <1>4 DEF Undisturbed, Calm, Regains, HasTiming, p
  <2>2. PICK a \in Int : /\ ActionAt(a, Authority) = "TX_BEACON"
                         /\ a * SlotTime <= heard[p]
                         /\ heard[p] <= a * SlotTime + SlotTime - BeaconMin + HeartbeatTime
    BY <1>4, <2>1 DEF Calm, Regains
  <2> DEFINE then == a * SlotTime
  <2>3. then \in Int /\ heard[p] \in Int /\ heard[p] <= time BY <1>3, Constants, NodeTypes
  <2>4. time <= doing[p].until + MaxLate BY <1>5 DEF Punctual
  <2>5. CASE s < a
    <3>1. x + SlotTime <= then BY <1>1, <2>5, LaterSlot
    <3>2. then <= heard[p] BY <2>2
    <3> HIDE DEF x, then
    <3>. QED BY <1>1, <1>7, <2>3, <3>1, <3>2, MarginTimes
  <2>6. CASE a <= s
    <3>1. a + 2 <= s BY <1>1, <1>3, <2>2, <2>6, RangingComesLater
    <3>2. then + SlotTime + SlotTime <= x
      <4>1. a + 1 \in Int /\ a + 1 < s BY <1>1, <3>1
      <4>2. (a + 1) * SlotTime = then + SlotTime BY Constants
      <4>. QED BY <1>1, <4>1, <4>2, LaterSlot
    <3>3. heard[p] <= then + SlotTime - BeaconMin + HeartbeatTime BY <2>2
    <3> HIDE DEF x, then
    <3>. QED BY <1>1, <1>5, <1>7, <2>1, <2>3, <2>4, <3>2, <3>3, MarginTimes
  <2>. QED BY <1>1, <2>5, <2>6
<1>9. lastSlot[p] = s
  <2>1. y - ahead <= time /\ time + ahead < y + SlotTime + StartGuard
    BY <1>5, <1>8 DEF Punctual, InTime
  <2> HIDE DEF x, y
  <2>2. ~(s < lastSlot[p]) BY <1>1, <1>5, <1>6, <1>7, <2>1, MarginTimes
  <2>3. ~(lastSlot[p] < s) BY <1>1, <1>5, <1>6, <1>7, <2>1, MarginTimes
  <2>. QED BY <1>1, <1>5, <2>2, <2>3
<1>10. x = y BY <1>9
<1> HIDE DEF x, y
<1>11. doing[p].kind # "address"
  <2> SUFFICES ASSUME doing[p].kind = "address" PROVE FALSE OBVIOUS
  <2>1. time + ahead < x + StartGuard \/ x + SlotTime <= time + ahead
    BY <1>5, <1>10 DEF Punctual
  <2>. QED BY <1>1, <1>7, <2>1, MarginTimes
<1>12. doing[p].kind # "listen"
  <2> SUFFICES ASSUME doing[p].kind = "listen" PROVE FALSE OBVIOUS
  <2>1. x + SlotTime - ahead <= time \/ PastGuard(n, s)
    BY <1>3, <1>9 DEF Undisturbed, Calm, Served, x
  <2>2. ~PastGuard(n, s) BY <1>1 DEF PastGuard
  <2>. QED BY <1>1, <1>7, <2>1, <2>2, MarginTimes
<1>13. doing[p].kind \in {"wait", "listen", "address", "slave"}
  <2>1. ActionAt(s, p) \notin {"TX_BEACON", "RANGE_PEER"} BY <1>3
  <2>. QED BY <1>5, <1>9, <2>1 DEF Suits, TaskType, Kind
<1>. QED BY <1>8, <1>11, <1>12, <1>13 DEF p

LEMMA OnlyMasterStart ==
  ASSUME ScheduleInv, [Next]_vars, NEW n \in Id,
         doing[n].kind = "guard", doing'[n].kind = "master"
  PROVE  MasterStart(n)
<1>1. \A m \in Id : \A d : doing' = [doing EXCEPT ![m] = d]
        => (m = n /\ doing'[n] = d) \/ doing'[n] = doing[n]
  BY DEF ScheduleInv, Typed
<1>2. \A m \in Id : \A kind, until, peer :
        Become(m, kind, until, peer) => m = n /\ kind = "master"
  <2> TAKE m \in Id
  <2> TAKE kind, until, peer
  <2> HAVE Become(m, kind, until, peer)
  <2>1. doing' = [doing EXCEPT ![m] = Doing(kind, until, peer)] BY DEF Become
  <2>2. Doing(kind, until, peer).kind = kind BY DEF Doing
  <2> DEFINE d == Doing(kind, until, peer)
  <2> HIDE DEF d
  <2>3. doing' = [doing EXCEPT ![m] = d] BY <2>1 DEF d
  <2>4. m = n /\ doing'[n] = d BY <1>1, <2>3
  <2>. QED BY <2>2, <2>4 DEF d
<1>3. Authority \in Id BY Constants
<1>4. ~UNCHANGED vars BY DEF vars
<1>5. ~Tick BY DEF Tick
<1>6. ~HeartbeatSent BY <1>2, <1>3 DEF HeartbeatSent
<1>7. ASSUME NEW m \in Id, Service(m) PROVE FALSE
  <2>1. \E kind, until, peer : kind # "master" /\ Become(m, kind, until, peer)
    BY <1>7 DEF Service, WaitForAuthority, SlotAgain, Missed, StartBeaconSlot,
                StartRangingSlot, StartSlaveSlot, StartListenSlot
  <2>. QED BY <1>2, <2>1
<1>8. ASSUME NEW m \in Id, BeaconSent(m) PROVE FALSE BY <1>2, <1>8 DEF BeaconSent
<1>9. ASSUME NEW m \in Id, DebugSend(m) PROVE FALSE
  <2> DEFINE d == [Doing("debug", time + DebugTime, Nobody) EXCEPT !.window = doing[m].until]
  <2>1. doing' = [doing EXCEPT ![m] = d] /\ d.kind = "debug"
    BY <1>9 DEF DebugSend, SendDebug, Doing
  <2> HIDE DEF d
  <2>. QED BY <1>1, <2>1
<1>10. ASSUME NEW m \in Id, DebugSent(m) PROVE FALSE BY <1>2, <1>10 DEF DebugSent
<1>11. ASSUME NEW m \in Id, MasterStart(m) PROVE m = n BY <1>2, <1>11 DEF MasterStart
<1>12. ASSUME NEW m \in Id, MasterDone(m) PROVE FALSE BY <1>2, <1>12 DEF MasterDone
<1>13. ASSUME NEW m \in Id, SlaveStart(m) PROVE FALSE BY <1>2, <1>13 DEF SlaveStart
<1>14. ASSUME NEW m \in Id, SlaveDone(m) PROVE FALSE BY <1>2, <1>14 DEF SlaveDone
<1>15. ASSUME NEW m \in Id, ChipBusy(m) PROVE FALSE BY <1>2, <1>15 DEF ChipBusy
<1>16. ASSUME NEW m \in Id, Abandon(m) PROVE FALSE BY <1>2, <1>16 DEF Abandon
<1>17. ASSUME NEW m \in Id, ChipGivenUp(m) PROVE FALSE BY <1>16, <1>17 DEF ChipGivenUp
<1>18. ASSUME NEW m \in Id, EngineError(m) PROVE FALSE BY <1>16, <1>18 DEF EngineError
<1>19. ASSUME NEW m \in Id, BackoffDone(m) PROVE FALSE BY <1>2, <1>19 DEF BackoffDone
<1>20. ASSUME NEW m \in Id, Restart(m) PROVE FALSE BY <1>2, <1>20 DEF Restart
<1>. QED BY <1>4, <1>5, <1>6, <1>7, <1>8, <1>9, <1>10, <1>11, <1>12, <1>13, <1>14, <1>15, <1>17,
            <1>18, <1>19, <1>20 DEF Next

(* As long as nothing disturbs the nodes, each of them is in its slot,     *)
(* whatever heartbeats are lost (serviceTdmaSlot, handleHeartbeatFrame).   *)
THEOREM NodesInStep ==
  ASSUME NEW ahead, NEW behind, Margins(ahead, behind)
  PROVE  Spec => []CalmInv(ahead, behind)
<1>1. Init => CalmInv(ahead, behind) BY InitiallyCalm
<1>2. ScheduleInv /\ Bounds /\ CalmInv(ahead, behind) /\ [Next]_vars => CalmInv(ahead, behind)'
  BY CalmKept
<1>. QED BY <1>1, <1>2, ScheduleInductive, WithinBounds, PTL DEF Spec

(* The guard is long enough for any number of nodes: when a master starts, *)
(* its slave already listens, unless the slave has lost the timing         *)
(* (runMasterExchange with kRangingMasterStartGuardMs, serviceSlave).      *)
THEOREM SlaveIsReady ==
  ASSUME NEW ahead, NEW behind, Margins(ahead, behind)
  PROVE  Spec => SlaveReady
<1>1. ASSUME ScheduleInv, CalmInv(ahead, behind), [Next]_vars
      PROVE  [\A n \in Id :
                /\ disturbances = 0
                /\ doing[n].kind = "guard" /\ doing'[n].kind = "master"
                /\ HasTiming(doing[n].peer)
                => doing[doing[n].peer].kind = "slave"]_vars
  <2> SUFFICES ASSUME NEW n \in Id, disturbances = 0,
                      doing[n].kind = "guard", doing'[n].kind = "master",
                      HasTiming(doing[n].peer)
               PROVE  doing[doing[n].peer].kind = "slave"
    OBVIOUS
  <2>1. Undisturbed(ahead, behind) BY <1>1 DEF CalmInv
  <2>2. MasterStart(n) BY <1>1, OnlyMasterStart
  <2>. QED BY <1>1, <2>1, <2>2, SlaveListens
<1>. QED BY <1>1, ScheduleInductive, NodesInStep, PTL DEF Spec, SlaveReady

=============================================================================
