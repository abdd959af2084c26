------------------------------ MODULE MCNodeIo ------------------------------
(***************************************************************************)
(* An instance of NodeIo: one port at a time, since neither changes what   *)
(* the other reads.                                                        *)
(***************************************************************************)
EXTENDS NodeIo

OnePort == {{"receiver"}, {"console"}}

Gga(quality, alt, position) ==
  [run |-> "body", head |-> "GGA", fields |-> 14, quality |-> quality, satellites |-> 9,
   hdop |-> 80, lat |-> position, lon |-> position, alt |-> alt,
   size |-> IF position = Empty THEN 1 ELSE 2]
Rmc(status, position) ==
  [run |-> "body", head |-> "RMC", fields |-> 12, status |-> status,
   lat |-> position, lon |-> position, size |-> IF position = Empty THEN 1 ELSE 2]

(* A fix, no fix, a fix without altitude, one without position, and RMC    *)
(* with and without fix.                                                   *)
Bodies == {Gga(1, 1835, 1), Gga(0, Empty, Empty), Gga(1, Empty, 1), Gga(1, 1835, Bad),
           Rmc("A", 1), Rmc("V", Empty)}
FixOrNot == {Gga(1, 1835, 1), Rmc("V", Empty)}

(* The ages and the health reported are read by no other variable's next   *)
(* value, so they are told apart only while all that is in sight is a fix  *)
(* or the loss of it, and no more than one whole sentence.                 *)
InSight == {r \in ToSet(output) \cup ToSet(parser.sentence) \cup {heard} : r.run = "body"}
View ==
  <<output, heard, parser, altMm, injected, fixed, consoleVars, attached,
    IF InSight \subseteq FixOrNot /\ parser.length < 4 THEN <<age, shown>> ELSE <<>>>>

Chunks ==
  {[cmd |-> "node_id", value |-> 0], [cmd |-> "node_id", value |-> 1],
   [cmd |-> "node_id", value |-> NodeCount], [cmd |-> "name"],
   [cmd |-> "gps", value |-> FALSE]}
=============================================================================
