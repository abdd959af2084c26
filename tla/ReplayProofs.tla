----------------------------- MODULE ReplayProofs -----------------------------
(***************************************************************************)
(* The runner implements NavHost for every recording, so that what         *)
(* NavCoreProofs shows of the core holds of every replay; and its exit     *)
(* status keeps its word.                                                  *)
(***************************************************************************)
EXTENDS Replay, NavCoreProofs

(* Where the runner is in time: it waits with a row in hand only once it   *)
(* has a time, the one the core was just ticked for.                       *)
ClockOK ==
  /\ now \in 0 .. MaxTime
  /\ haveTime \in BOOLEAN
  /\ phase = "apply" => haveTime

(* As long as the run goes on nothing has been passed over; the rest is    *)
(* the verdict.                                                            *)
VerdictOK ==
  /\ stats \in [compared : BOOLEAN, beyond : BOOLEAN]
  /\ phase # "exit" => ~skipped
  /\ ZeroMeansAllWell

RInv == ClockOK /\ VerdictOK

LEMMA ReplayInitInv == ReplayInit => RInv
<1> SUFFICES ASSUME ReplayInit PROVE RInv
  OBVIOUS
<1>1. ClockOK
  <2>1. now \in 0 .. MaxTime /\ phase # "apply"
    BY HostAssumption DEF ReplayInit, Init
  <2>2. haveTime \in BOOLEAN
    BY Zenon DEF ReplayInit, Init
  <2> QED BY <2>1, <2>2 DEF ClockOK
<1>2. VerdictOK
  BY DEF ReplayInit, VerdictOK, ZeroMeansAllWell
<1> QED BY <1>1, <1>2 DEF RInv

(* A row of time t that ticks the core.                                    *)
LEMMA TickStep ==
  ASSUME ClockOK, NEW t \in 0 .. MaxTime, InOrder(t), Tick(t), now' = t,
         haveTime' = TRUE
  PROVE  Next
<1>1. CASE ~haveTime
  BY <1>1 DEF FirstRow, Next
<1>2. CASE haveTime /\ t = now
  <2>1. haveTime' = haveTime
    BY <1>2, Zenon DEF ClockOK
  <2> QED BY <1>2, <2>1 DEF SameTimeRow, Next
<1>3. CASE haveTime /\ t # now
  <2>1. haveTime' = haveTime
    BY <1>3, Zenon DEF ClockOK
  <2>2. t > now
    BY <1>3, HostAssumption DEF InOrder, ClockOK
  <2> QED BY <1>3, <2>1, <2>2 DEF Advance, Next
<1> QED BY <1>1, <1>2, <1>3

(* A row of time t that brings an event.                                   *)
LEMMA EventStep ==
  ASSUME ClockOK, NEW t \in 0 .. MaxTime, haveTime => t = now, Event(t), now' = t,
         haveTime' = TRUE
  PROVE  Next
<1>1. CASE ~haveTime
  BY <1>1 DEF FirstRow, Next
<1>2. CASE haveTime
  <2>1. haveTime' = haveTime
    BY <1>2, Zenon DEF ClockOK
  <2> QED BY <1>2, <2>1 DEF SameTimeRow, Next
<1> QED BY <1>1, <1>2

(* Every step of the runner is a step of NavHost or none at all.           *)
LEMMA ReplayStep ==
  ASSUME ClockOK, [ReplayNext]_replayVars
  PROVE  [Next]_vars /\ ClockOK'
<1> USE HostAssumption
<1>1. CASE \/ LoadFails \/ Loaded \/ HeaderRow \/ HeaderMissing \/ RowRejected \/ EndOfFile
           \/ Exited \/ UNCHANGED replayVars
  <2>1. UNCHANGED vars /\ (phase' = "apply" => phase = "apply")
    BY <1>1 DEF LoadFails, Loaded, HeaderRow, HeaderMissing, RowRejected, EndOfFile, Finish,
                Exited, replayVars, runVars
  <2> QED BY <2>1 DEF vars, ClockOK
<1>2. CASE TickBeforeRow
  <2>1. PICK t \in 0 .. MaxTime : t # now /\ InOrder(t) /\ Tick(t) /\ now' = t
    BY <1>2 DEF TickBeforeRow
  <2>2. haveTime /\ haveTime' = haveTime
    BY <1>2 DEF TickBeforeRow
  <2>3. haveTime' = TRUE
    BY <2>2, Zenon DEF ClockOK
  <2> QED BY <2>1, <2>3, TickStep DEF ClockOK
<1>3. CASE TickRow
  <2>1. PICK t \in 0 .. MaxTime : InOrder(t) /\ Tick(t) /\ EmitOutputs(t)
    BY <1>3 DEF TickRow
  <2>2. now' = t /\ haveTime' = TRUE
    BY <2>1 DEF EmitOutputs
  <2> QED BY <2>1, <2>2, TickStep DEF ClockOK
<1>4. CASE ApplyRow
  <2>1. PICK t \in 0 .. MaxTime : (haveTime => t = now) /\ Event(t) /\ EmitOutputs(t)
    <3>1. CASE phase = "apply" /\ Event(now) /\ EmitOutputs(now)
      <4>1. PICK t \in 0 .. MaxTime : t = now
        BY DEF ClockOK
      <4> QED BY <3>1, <4>1
    <3> QED BY <1>4, <3>1 DEF ApplyRow
  <2>2. now' = t /\ haveTime' = TRUE
    BY <2>1 DEF EmitOutputs
  <2> QED BY <2>1, <2>2, EventStep DEF ClockOK
<1> QED BY <1>1, <1>2, <1>3, <1>4 DEF ReplayNext

(* The verdict is given once, of the final snapshot and of all the rows.   *)
LEMMA VerdictStep ==
  ASSUME VerdictOK, [ReplayNext]_replayVars
  PROVE  VerdictOK'
<1>1. CASE LoadFails
  BY <1>1 DEF LoadFails, VerdictOK, ZeroMeansAllWell
<1>2. CASE Loaded \/ HeaderRow
  BY <1>2 DEF Loaded, HeaderRow, VerdictOK, ZeroMeansAllWell
<1>3. ASSUME Finish(1), skipped' = TRUE \/ skipped' = skipped
      PROVE  VerdictOK'
  BY <1>3 DEF Finish, VerdictOK, ZeroMeansAllWell
<1>4. CASE HeaderMissing \/ RowRejected
  BY <1>3, <1>4 DEF HeaderMissing, RowRejected
<1>5. CASE EndOfFile
  <2>1. /\ phase' = "exit" /\ ~skipped' /\ UNCHANGED <<vars, conf, truth, stats>>
        /\ status' = 0 => TruthPassed /\ AsExpected
    BY <1>5 DEF EndOfFile, Finish, VerdictOK
  <2>2. AsExpected => AsExpected'
    BY <2>1 DEF AsExpected, vars, coreVars
  <2>3. TruthPassed => (truth.given => stats = [compared |-> TRUE, beyond |-> FALSE])
    BY Zenon DEF TruthPassed, VerdictOK
  <2> QED BY <2>1, <2>2, <2>3 DEF VerdictOK, ZeroMeansAllWell
<1>6. ASSUME NEW t, phase # "exit", EmitOutputs(t) PROVE VerdictOK'
  <2>1. stats' \in [compared : BOOLEAN, beyond : BOOLEAN]
    <3>1. CASE Comparable(snapshot', t)
      <4>1. PICK b \in BOOLEAN : stats' = [compared |-> TRUE, beyond |-> stats.beyond \/ b]
        BY <1>6, <3>1 DEF EmitOutputs, Compare
      <4>2. (stats.beyond \/ b) \in BOOLEAN
        OBVIOUS
      <4> QED BY <4>1, <4>2, Zenon
    <3>2. CASE ~Comparable(snapshot', t)
      BY <1>6, <3>2 DEF EmitOutputs, Compare, VerdictOK
    <3> QED BY <3>1, <3>2
  <2>2. phase' = "events" /\ ~skipped'
    BY <1>6 DEF EmitOutputs, VerdictOK
  <2> QED BY <2>1, <2>2 DEF VerdictOK, ZeroMeansAllWell
<1>7. CASE TickRow \/ ApplyRow
  BY <1>6, <1>7 DEF TickRow, ApplyRow
<1>8. CASE TickBeforeRow
  BY <1>8 DEF TickBeforeRow, VerdictOK, ZeroMeansAllWell
<1>9. CASE Exited \/ UNCHANGED replayVars
  <2>1. UNCHANGED replayVars
    BY <1>9 DEF Exited
  <2> QED BY <2>1 DEF replayVars, runVars, vars, coreVars, VerdictOK, ZeroMeansAllWell, AsExpected
<1> QED BY <1>1, <1>2, <1>4, <1>5, <1>7, <1>8, <1>9 DEF ReplayNext

THEOREM ReplayInductive == ReplaySpec => []RInv
<1>1. RInv /\ [ReplayNext]_replayVars => RInv'
  BY ReplayStep, VerdictStep DEF RInv
<1> QED BY <1>1, ReplayInitInv, PTL DEF ReplaySpec

(* The core inside the runner goes through a behaviour of NavHost.         *)
THEOREM ReplayIsHost == ReplaySpec => ImplementsHost
<1>1. ReplayInit => Init
  BY DEF ReplayInit
<1>2. RInv /\ [ReplayNext]_replayVars => [Next]_vars
  BY ReplayStep DEF RInv
<1> QED BY <1>1, <1>2, ReplayInductive, PTL DEF ReplaySpec, ImplementsHost, Spec

(* Exit status 0 means that every row was applied, the expectations met    *)
(* and the truth compared.                                                 *)
THEOREM ExitStatusSound == ReplaySpec => []ZeroMeansAllWell
<1>1. RInv => ZeroMeansAllWell
  BY DEF RInv, VerdictOK
<1> QED BY <1>1, ReplayInductive, PTL

(* No replay shows a radio position after its evidence is too old, or on   *)
(* unchanged inputs one that newer evidence has overtaken.                 *)
THEOREM ReplayFixRecent == ReplaySpec => []RadioFixRecent /\ []UnchangedMeansCurrent
BY ReplayIsHost, RadioNeverOld, SkipIsSound, PTL DEF ImplementsHost
=============================================================================
