--------------------------- MODULE MCControlChannel ---------------------------
(***************************************************************************)
(* Instances of ControlChannel: the configurations a node may boot with,   *)
(* the commands of the operator and the mock peers of each run.            *)
(***************************************************************************)
EXTENDS ControlChannel

Boot(ids, gps, mocks) == [nodeId : ids, gps : gps, mock : mocks, alt : AltitudeValue]

NoCommand == {}
SwitchOffCommand == [type : {"SET_GPS", "SET_MOCK"}, on : {FALSE}]
OperatorCommand ==
  [type : {"SET_GPS", "SET_MOCK", "SET_DEBUG"}, on : BOOLEAN]
    \cup [type : {"SET_NODE_ID"}, id : Node] \cup [type : {"SET_ALTITUDE"}, alt : AltitudeValue]
    \cup [type : {"GET"}]

NoMock == <<>>
MockOne == <<1>>

(* The bound of one run: what the operator, his mocks, failed exchanges    *)
(* and quality reports bring about is followed for the first moments only, *)
(* telemetry and ranges up to the Horizon.                                 *)
OperatorTime == 2
OperatorEarly ==
  clock > OperatorTime =>
    /\ config \in InitialConfig /\ ~debug /\ quality = NoQuality
    /\ \A k \in Task : pending[k].event.type \notin {"rangeFail", "quality"}

BootDenied == Boot({0}, {FALSE}, {FALSE})
BootOn == Boot({0}, {TRUE}, {TRUE})
=============================================================================
