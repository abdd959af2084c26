------------------------------- MODULE NodeIo -------------------------------
(***************************************************************************)
(* The serial ports of an ESP32 node: the GNSS receiver's, read by GpsTask,*)
(* and the console, read by NodeConsole.  The tasks share the node's id    *)
(* only, which is stamped on samples and read by nobody.                   *)
(***************************************************************************)
EXTENDS GpsTask, NodeConsole

CONSTANT Boards   \* the sets of ports in use that are considered

VARIABLE attached

vars == <<gpsVars, consoleVars, attached>>

Init == attached \in Boards /\ GpsInit /\ ConsoleInit

Receiver == "receiver" \in attached /\ GpsNext /\ UNCHANGED <<consoleVars, attached>>
Console == "console" \in attached /\ ConsoleNext /\ UNCHANGED <<gpsVars, attached>>

Spec == Init /\ [][Receiver \/ Console]_vars
=============================================================================
