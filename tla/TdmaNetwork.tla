----------------------------- MODULE TdmaNetwork -----------------------------
(***************************************************************************)
(* The radio tasks of N nodes on one channel (src/RadioHealth.cpp): the    *)
(* loop of RadioHealthTask around serviceTdmaSlot, the timing heartbeats   *)
(* of node 0 that the others align to, and who is on the air when.         *)
(*                                                                         *)
(* time is true time.  A node's aligned time is time - epoch[n]: for the   *)
(* authority the time since it booted, for a follower what its last        *)
(* heartbeat made of it, off by what kTdmaHeartbeatRxCompensationMs adds   *)
(* too much or too little for the time the heartbeat was under way.        *)
(*                                                                         *)
(* The content of the frames is left out, and a heartbeat always passes    *)
(* validation: all nodes run the same fixed plan.                          *)
(***************************************************************************)
EXTENDS Tdma

CONSTANTS
  HeartbeatTime,  \* transmitting a heartbeat
  BeaconTime,     \* kTelemetryBeaconRepeats copies with the gaps between them
  DebugTime,      \* transmitting a debug frame
  DebugMin,       \* kBestEffortTxGuardMs + kSlaveListenSliceMs
  StartGuard,     \* kRangingMasterStartGuardMs
  MasterTimeout,  \* kMasterTimeoutMs
  BusyTime,       \* how long an exchange waits for a chip that is BUSY
  Backoff,        \* the pause of serviceSlave when the chip does not cooperate
  Skews,          \* the errors an alignment can have
  MaxLate,        \* bound on how late a listening node notices its deadline
  MaxDisturbance, \* bound on the number of restarts and failures of a chip
  RestartTimes,   \* bound on when a node restarts
  Horizon         \* bound on time

ASSUME NetworkAssumption ==
  /\ {HeartbeatTime, BeaconTime, DebugTime, MasterTimeout} \subseteq Nat \ {0}
  /\ {DebugMin, BusyTime, Backoff} \subseteq Nat
  /\ StartGuard \in 0 .. SlotTime
  /\ Skews \subseteq Int
  /\ {MaxLate, MaxDisturbance, Horizon} \subseteq Nat
  /\ RestartTimes \subseteq Nat

VARIABLES
  time,
  epoch,        \* epochLocalMs, in true time
  synced,       \* authoritySynced
  heard,        \* lastAuthorityHeartbeatMs
  lastSlot,     \* lastProcessedAbsoluteSlot, NoSlot after a reset
  doing,        \* what the task does: kind, until when, with whom, on the air
                \* since, and until when it will listen after a debug frame
  realigned,    \* history: aligned anew since serviceTdmaSlot last decided
  disturbances  \* how many restarts and failures of a chip there were

vars == <<time, epoch, synced, heard, lastSlot, doing, realigned, disturbances>>

NoSlot == -1
Kind == {"wait", "listen", "ownListen", "heartbeat", "beacon", "debug",
         "guard", "busyMaster", "master", "address", "busySlave", "slave", "backoff"}
Passive == {"wait", "listen", "ownListen"}              \* servicePassiveListen
OnAirKind == {"heartbeat", "beacon", "debug", "master"}

Doing(kind, until, peer) ==
  [kind |-> kind, until |-> until, peer |-> peer, window |-> until,
   from |-> IF kind \in OnAirKind THEN time ELSE 0]

Aligned(n) == time - epoch[n]
SlotStart(n) == epoch[n] + lastSlot[n] * SlotTime
SlotEnd(n) == SlotStart(n) + SlotTime

(* All nodes have just booted; followers know nothing of the schedule.     *)
Init ==
  /\ time = 0
  /\ epoch = [n \in Id |-> 0]
  /\ synced = [n \in Id |-> n = Authority]
  /\ heard = [n \in Id |-> 0]
  /\ lastSlot = [n \in Id |-> NoSlot]
  /\ doing = [n \in Id |-> Doing("wait", 0, Nobody)]
  /\ realigned = [n \in Id |-> FALSE]
  /\ disturbances = 0

(* Waits end on time, but for the granularity of the polling loops.        *)
Slack(n) == IF doing[n].kind \in Passive \cup {"slave"} THEN MaxLate ELSE 0

Tick ==
  /\ time < Horizon
  /\ \A n \in Id : time < doing[n].until + Slack(n)
  /\ time' = time + 1
  /\ UNCHANGED <<epoch, synced, heard, lastSlot, doing, realigned, disturbances>>

(* On the air from the start of a transmission up to its end.              *)
OnAir(n) == doing[n].kind \in OnAirKind /\ time < doing[n].until

Become(n, kind, until, peer) == doing' = [doing EXCEPT ![n] = Doing(kind, until, peer)]

-----------------------------------------------------------------------------
(* serviceTdmaSlot.                                                        *)
HasTiming(n) == n = Authority \/ (synced[n] /\ ~AuthorityExpired(time, heard[n]))

(* Without the authority's timing a follower listens for a slot's time.    *)
WaitForAuthority(n) ==
  /\ ~HasTiming(n)
  /\ Become(n, "wait", time + SlotTime, Nobody)
  /\ UNCHANGED lastSlot

(* A slot already processed: listen to its end.                            *)
SlotAgain(n, slot) ==
  /\ slot = lastSlot[n]
  /\ Become(n, "listen", SlotEnd(n), Nobody)
  /\ UNCHANGED lastSlot

EnterSlot(n, slot) ==
  /\ slot # lastSlot[n]
  /\ lastSlot' = [lastSlot EXCEPT ![n] = slot]

(* Too late to start the slot's action: listen to its end.                 *)
EndOf(n, slot) == epoch[n] + (slot + 1) * SlotTime

Missed(n, slot) ==
  /\ EnterSlot(n, slot)
  /\ ~CanStart(ActionAt(slot, n), Aligned(n))
  /\ Become(n, "listen", EndOf(n, slot), Nobody)

(* The authority's heartbeat comes before its beacon.                      *)
StartBeaconSlot(n, slot) ==
  /\ EnterSlot(n, slot)
  /\ ActionAt(slot, n) = "TX_BEACON"
  /\ CanStart("TX_BEACON", Aligned(n))
  /\ \/ n = Authority /\ Become(n, "heartbeat", time + HeartbeatTime, Nobody)
     \/ n # Authority /\ Become(n, "beacon", time + BeaconTime, Nobody)
     \/ n # Authority /\ Become(n, "ownListen", EndOf(n, slot), Nobody)

(* Mutated form: the master does not wait for the guard.                   *)
StartRangingSlot_NoGuard(n, slot) ==
  /\ EnterSlot(n, slot)
  /\ ActionAt(slot, n) = "RANGE_PEER"
  /\ CanStart("RANGE_PEER", Aligned(n))
  /\ Become(n, "guard", time, Owners(slot).to)

StartRangingSlot(n, slot) ==
  /\ EnterSlot(n, slot)
  /\ ActionAt(slot, n) = "RANGE_PEER"
  /\ CanStart("RANGE_PEER", Aligned(n))
  /\ Become(n, "guard", epoch[n] + slot * SlotTime + StartGuard, Owners(slot).to)

StartSlaveSlot(n, slot) ==
  /\ EnterSlot(n, slot)
  /\ ActionAt(slot, n) = "RANGE_SLAVE"
  /\ Become(n, "address", time, Owners(slot).from)

StartListenSlot(n, slot) ==
  /\ EnterSlot(n, slot)
  /\ ActionAt(slot, n) = "LISTEN"
  /\ Become(n, "listen", EndOf(n, slot), Nobody)

Service(n) ==
  /\ doing[n].kind \in Passive
  /\ time >= doing[n].until
  /\ \/ WaitForAuthority(n)
     \/ /\ HasTiming(n)
        /\ LET slot == AbsoluteSlot(Aligned(n))
           IN  \/ SlotAgain(n, slot)
               \/ Missed(n, slot)
               \/ StartBeaconSlot(n, slot)
               \/ StartRangingSlot(n, slot)
               \/ StartSlaveSlot(n, slot)
               \/ StartListenSlot(n, slot)
  /\ realigned' = [realigned EXCEPT ![n] = FALSE]
  /\ UNCHANGED <<time, epoch, synced, heard, disturbances>>

-----------------------------------------------------------------------------
(* Mutated form: the compensation is added where it is to be subtracted.   *)
AlignedEpoch_AddedTwice(skew) == epoch[Authority] + skew - 2

(* epochLocalMs as a heartbeat gives it.                                   *)
AlignedEpoch(skew) == epoch[Authority] + skew

(* handleHeartbeatFrame at the nodes that catch the heartbeat: any of      *)
(* those that listen in normal packet mode, each with its own error.  Then *)
(* the authority's beacon, if it has a position.                           *)
Listeners == {n \in Id \ {Authority} : doing[n].kind \in Passive}

HeartbeatSent ==
  /\ doing[Authority].kind = "heartbeat"
  /\ time = doing[Authority].until
  /\ \E caught \in SUBSET Listeners :
       /\ \E skew \in [caught -> Skews] :
            epoch' = [n \in Id |-> IF n \in caught THEN AlignedEpoch(skew[n]) ELSE epoch[n]]
       /\ synced' = [n \in Id |-> synced[n] \/ n \in caught]
       /\ heard' = [n \in Id |-> IF n \in caught THEN time ELSE heard[n]]
       /\ realigned' = [n \in Id |-> realigned[n] \/ n \in caught]
  /\ \/ Become(Authority, "beacon", time + BeaconTime, Nobody)
     \/ Become(Authority, "ownListen", SlotEnd(Authority), Nobody)
  /\ UNCHANGED <<time, lastSlot, disturbances>>

(* completeSlotListening with debug frames allowed.                        *)
BeaconSent(n) ==
  /\ doing[n].kind = "beacon"
  /\ time = doing[n].until
  /\ Become(n, "ownListen", SlotEnd(n), Nobody)
  /\ UNCHANGED <<time, epoch, synced, heard, lastSlot, realigned, disturbances>>

(* servicePassiveListen interrupts its window for a debug frame and goes   *)
(* on with the same window, also when it has aligned anew in between.      *)
SendDebug(n) ==
  /\ doing[n].until - time >= DebugMin
  /\ doing' = [doing EXCEPT ![n] = [Doing("debug", time + DebugTime, Nobody)
                                    EXCEPT !.window = doing[n].until]]
  /\ UNCHANGED <<time, epoch, synced, heard, lastSlot, realigned, disturbances>>

(* Mutated form: debug frames are sent in any slot that is listened to.    *)
DebugSend_AnySlot(n) == doing[n].kind \in {"listen", "ownListen"} /\ SendDebug(n)

(* serviceDebugTelemetryTx: in the node's own beacon slot, with time left. *)
DebugSend(n) == doing[n].kind = "ownListen" /\ SendDebug(n)

DebugSent(n) ==
  /\ doing[n].kind = "debug"
  /\ time = doing[n].until
  /\ Become(n, "ownListen", doing[n].window, Nobody)
  /\ UNCHANGED <<time, epoch, synced, heard, lastSlot, realigned, disturbances>>

-----------------------------------------------------------------------------
(* waitBusyLow: an exchange goes on when the chip is ready.                *)
ChipReady(n, before, busy) ==
  \/ doing[n].kind = before /\ time >= doing[n].until
  \/ doing[n].kind = busy /\ time < doing[n].until

(* runMasterExchange after the guard, until a result or the timeout.       *)
MasterStart(n) ==
  /\ ChipReady(n, "guard", "busyMaster")
  /\ \E d \in 1 .. MasterTimeout : Become(n, "master", time + d, doing[n].peer)
  /\ UNCHANGED <<time, epoch, synced, heard, lastSlot, realigned, disturbances>>

MasterDone(n) ==
  /\ doing[n].kind = "master"
  /\ time = doing[n].until
  /\ Become(n, "listen", SlotEnd(n), Nobody)
  /\ UNCHANGED <<time, epoch, synced, heard, lastSlot, realigned, disturbances>>

(* serviceSlave: the response ends it early, else the slot.                *)
SlaveStart(n) ==
  /\ ChipReady(n, "address", "busySlave")
  /\ Become(n, "slave", SlotEnd(n), doing[n].peer)
  /\ UNCHANGED <<time, epoch, synced, heard, lastSlot, realigned, disturbances>>

SlaveDone(n) ==
  /\ doing[n].kind = "slave"
  /\ \/ time >= doing[n].until
     \/ \E m \in Id : doing[m].kind = "master" /\ doing[m].peer = n /\ OnAir(m)
  /\ Become(n, "listen", SlotEnd(n), Nobody)
  /\ UNCHANGED <<time, epoch, synced, heard, lastSlot, realigned, disturbances>>

-----------------------------------------------------------------------------
(* The chip is BUSY when an exchange is to start.                          *)
ChipBusy(n) ==
  /\ disturbances < MaxDisturbance
  /\ doing[n].kind \in {"guard", "address"}
  /\ time >= doing[n].until
  /\ Become(n, IF doing[n].kind = "guard" THEN "busyMaster" ELSE "busySlave",
            time + BusyTime, doing[n].peer)
  /\ disturbances' = disturbances + 1
  /\ UNCHANGED <<time, epoch, synced, heard, lastSlot, realigned>>

(* What is left of an exchange that cannot start: the rest of the slot, for *)
(* the slave after a pause.                                                *)
Abandon(n) ==
  IF doing[n].kind \in {"guard", "busyMaster"}
  THEN Become(n, "listen", SlotEnd(n), Nobody)
  ELSE Become(n, "backoff", time + Backoff, Nobody)

(* It stayed BUSY too long.                                                *)
ChipGivenUp(n) ==
  /\ doing[n].kind \in {"busyMaster", "busySlave"}
  /\ time = doing[n].until
  /\ Abandon(n)
  /\ UNCHANGED <<time, epoch, synced, heard, lastSlot, realigned, disturbances>>

(* startRanging returns an error.                                          *)
EngineError(n) ==
  /\ disturbances < MaxDisturbance
  /\ ChipReady(n, "guard", "busyMaster") \/ ChipReady(n, "address", "busySlave")
  /\ Abandon(n)
  /\ disturbances' = disturbances + 1
  /\ UNCHANGED <<time, epoch, synced, heard, lastSlot, realigned>>

BackoffDone(n) ==
  /\ doing[n].kind = "backoff"
  /\ time = doing[n].until
  /\ Become(n, "listen", SlotEnd(n), Nobody)
  /\ UNCHANGED <<time, epoch, synced, heard, lastSlot, realigned, disturbances>>

(* A node starts over (resetTdmaRuntime); the authority's time with it.    *)
Restart(n) ==
  /\ disturbances < MaxDisturbance
  /\ time \in RestartTimes
  /\ epoch' = [epoch EXCEPT ![n] = IF n = Authority THEN time ELSE 0]
  /\ synced' = [synced EXCEPT ![n] = (n = Authority)]
  /\ heard' = [heard EXCEPT ![n] = 0]
  /\ lastSlot' = [lastSlot EXCEPT ![n] = NoSlot]
  /\ Become(n, "wait", time, Nobody)
  /\ disturbances' = disturbances + 1
  /\ UNCHANGED <<time, realigned>>

Next ==
  \/ Tick
  \/ \E n \in Id : Service(n)
  \/ HeartbeatSent
  \/ \E n \in Id : BeaconSent(n)
  \/ \E n \in Id : DebugSend(n)
  \/ \E n \in Id : DebugSent(n)
  \/ \E n \in Id : MasterStart(n)
  \/ \E n \in Id : MasterDone(n)
  \/ \E n \in Id : SlaveStart(n)
  \/ \E n \in Id : SlaveDone(n)
  \/ \E n \in Id : ChipBusy(n)
  \/ \E n \in Id : ChipGivenUp(n)
  \/ \E n \in Id : EngineError(n)
  \/ \E n \in Id : BackoffDone(n)
  \/ \E n \in Id : Restart(n)

Spec == Init /\ [][Next]_vars

-----------------------------------------------------------------------------
TypeOK ==
  /\ time \in 0 .. Horizon
  /\ \A n \in Id : epoch[n] \in 0 .. Horizon \/ \E skew \in Skews : epoch[n] - skew \in 0 .. Horizon
  /\ synced \in [Id -> BOOLEAN]
  /\ heard \in [Id -> 0 .. Horizon]
  /\ lastSlot \in [Id -> Int]
  /\ \A n \in Id :
       /\ doing[n].kind \in Kind
       /\ {doing[n].from, doing[n].until, doing[n].window} \subseteq Int
       /\ doing[n].peer \in Id \cup {Nobody}
  /\ realigned \in [Id -> BOOLEAN]
  /\ disturbances \in 0 .. MaxDisturbance

(* A node that decided what it is doing by the schedule of the authority's *)
(* present boot.                                                           *)
Current(n) ==
  \/ n = Authority
  \/ synced[n] /\ epoch[n] - epoch[Authority] \in Skews /\ ~realigned[n]

(* A beacon or an exchange that began later in its slot than the polling   *)
(* explains.                                                               *)
Late(n) ==
  /\ doing[n].kind \in {"beacon", "master"}
  /\ doing[n].from - SlotStart(n) > MaxLate + (IF doing[n].kind = "master" THEN StartGuard ELSE 0)

(* An exchange that starts on time has the channel to itself: whatever     *)
(* heartbeats were lost and however late a beacon before it began, no      *)
(* other node that follows the present schedule transmits while the master *)
(* ranges, unless with an exchange that a BUSY chip had delayed.           *)
ExchangeExclusive ==
  \A n, m \in Id :
    /\ n # m /\ Current(n) /\ Current(m)
    /\ doing[n].kind = "master" /\ OnAir(n) /\ ~Late(n) /\ OnAir(m)
    => doing[m].kind = "master" /\ Late(m)

(* Nodes on the present schedule that start their slots on time never      *)
(* transmit at the same time, whoever has restarted or lost heartbeats.    *)
PromptNeverCollide ==
  \A n, m \in Id :
    n # m /\ OnAir(n) /\ OnAir(m) /\ Current(n) /\ Current(m) => Late(n) \/ Late(m)

(* A follower that no longer hears the authority falls silent: nothing it  *)
(* begins to send is more than a slot past the expiry of its timing, but   *)
(* for an exchange that a BUSY chip has delayed.                           *)
WaitingSilent ==
  \A n \in Id \ {Authority} :
    OnAir(n) => /\ synced[n]
                /\ doing[n].from - heard[n] <=
                     Timeout + SlotTime + (IF doing[n].kind = "master" THEN BusyTime ELSE 0)

(* The guard is long enough: as long as no node restarted and no chip      *)
(* failed, when a master starts, its slave, unless it has lost the         *)
(* authority's timing, already listens in ranging mode, in spite of lost   *)
(* heartbeats, the errors of both alignments and late polling.             *)
SlaveReady ==
  [][\A n \in Id :
       /\ disturbances = 0
       /\ doing[n].kind = "guard" /\ doing'[n].kind = "master"
       /\ HasTiming(doing[n].peer)
       => doing[doing[n].peer].kind = "slave"]_vars

-----------------------------------------------------------------------------
(* docs/radio_protocol.md: late work must not overrun into the next slot.  *)
(* No node whose schedule stands is on the air past the end of its slot.   *)
LateWorkStaysInSlot == \A n \in Id : OnAir(n) /\ Current(n) => time < SlotEnd(n)
=============================================================================
