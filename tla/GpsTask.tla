------------------------------- MODULE GpsTask -------------------------------
(***************************************************************************)
(* GpsHealthTask (src/src/GpsHealth.cpp) behind a receiver on a serial     *)
(* line that loses bytes and adds noise: it feeds the parser, completes    *)
(* samples with the altitude it knows, hands them to the core and reports  *)
(* the health of the receiver every few seconds.                           *)
(*                                                                         *)
(* Time is counted in reports: kReportIntervalMs, kNoByteFailMs and        *)
(* kNoSentenceWarnMs are the same five seconds.  An age is at most Old;    *)
(* what a wrap of the clock does to it is left out.  A younger one may     *)
(* exceed five seconds or not, as bytes and reports fall.                  *)
(***************************************************************************)
EXTENDS Nmea

CONSTANT Body   \* the sentences the receiver may send, without star

Said(b) == ParsePayload(<<b>>)
Fixes == {b \in Body : Said(b).result = "SAMPLE" /\ Said(b).valid}

(* A receiver writes time and coordinates of a fix in full, so that there  *)
(* is no room for it, two other sentences and a checksum in the buffer.    *)
ASSUME BodyAssumption ==
  /\ \A b \in Body : b.run = "body" /\ b.size \in Nat \ {0}
  /\ \A b \in Fixes, c \in Body, d \in Body : b.size + c.size + d.size + 1 >= SentenceMax

Late == 2       \* reports after which an age exceeds the limit for sure
Old == Late + 1

VARIABLES
  output,     \* external: the runs of the sentence that are still to come
  heard,      \* history: the last body that came through
  parser,     \* nav_nmea_parser_t
  altMm,      \* status.altMm
  age,        \* now minus lastByteMs, lastSentenceMs, lastFixMs; Empty if never
  shown,      \* HealthStatus, gps.state
  injected,   \* the sample the last step gave to the core, or Nothing
  fixed       \* history: a fix with altitude was injected, and since then only
              \* fixes, of which none said of itself that its altitude is zero

gpsVars == <<output, heard, parser, altMm, age, shown, injected, fixed>>

NoSample == [result |-> "NONE"]

GpsInit ==
  /\ output = <<>>
  /\ heard = Noise
  /\ parser = ParserInit
  /\ altMm = 0
  /\ age = [byte |-> Empty, sentence |-> Empty, fix |-> Empty]
  /\ shown = "UNKNOWN"
  /\ injected = NoSample
  /\ fixed = FALSE

(* The receiver starts a sentence.                                         *)
Speak ==
  /\ output = <<>>
  /\ \E b \in Body : output' = <<Dollar, b, Star(Checksum(<<b>>)), LineEnd>>
  /\ injected' = NoSample
  /\ UNCHANGED <<heard, parser, altMm, age, shown, fixed>>

(* Mutated form: a sample without altitude stays without.                  *)
Preserved_Never(s) == s

(* preserveKnownAltitude: an RMC sentence says nothing of the altitude.    *)
Preserved(s) ==
  IF s.valid /\ s.alt = 0 /\ altMm # 0 /\ s.satellites = 0 /\ s.hdop = 0
  THEN [s EXCEPT !.alt = altMm] ELSE s

(* handleParserResult with updateStatusFromSample and injectGnssSample.    *)
(* nav_gnss_sample_is_usable asks for a valid sample with a 3D fix or      *)
(* better, and every valid sample of the parser has one.                   *)
HandleByte(r) ==
  LET result == Result(parser, r)
      s == Preserved(result)
  IN  /\ parser' = Push(parser, r)
      /\ IF result.result = "SAMPLE"
         THEN /\ altMm' = s.alt
              /\ age' = [byte |-> 0, sentence |-> 0, fix |-> IF s.valid THEN 0 ELSE age.fix]
              /\ injected' = s
              /\ fixed' = (s.valid /\ (s.alt # 0 \/ (fixed /\ heard.head = "RMC")))
         ELSE /\ age' = [age EXCEPT !.byte = 0]
              /\ injected' = NoSample
              /\ UNCHANGED <<altMm, fixed>>
      /\ heard' = IF r.run = "body" THEN r ELSE heard
      /\ UNCHANGED shown

Deliver == output # <<>> /\ output' = Tail(output) /\ HandleByte(Head(output))
Disturb == output # <<>> /\ output' = Tail(output) /\ HandleByte(Noise)
Lose ==
  /\ output # <<>>
  /\ output' = Tail(output)
  /\ injected' = NoSample
  /\ UNCHANGED <<heard, parser, altMm, age, shown, fixed>>

(* Mutated form: a fix never ages.                                         *)
Health_FixForever(late) ==
  CASE "byte" \in late -> "FAIL"
    [] "byte" \notin late /\ ("sentence" \in late \/ age.fix = Empty) -> "WARN"
    [] OTHER -> "OK"

(* The report, given which ages exceed five seconds.                       *)
Health(late) ==
  CASE "byte" \in late -> "FAIL"
    [] "byte" \notin late /\ late # {} -> "WARN"
    [] OTHER -> "OK"

Report ==
  /\ \E late \in SUBSET DOMAIN age :
       /\ \A k \in DOMAIN age : age[k] = Empty \/ age[k] >= Late => k \in late
       /\ shown' = Health(late)
  /\ age' = [k \in DOMAIN age |->
               IF age[k] = Empty THEN Empty ELSE IF age[k] < Old THEN age[k] + 1 ELSE Old]
  /\ injected' = NoSample
  /\ UNCHANGED <<output, heard, parser, altMm, fixed>>

GpsNext == Speak \/ Deliver \/ Disturb \/ Lose \/ Report

-----------------------------------------------------------------------------
(* A sample is one sentence of the receiver and whole: what the line lost  *)
(* or added, cut off or ran together makes no sample (parse_sentence and   *)
(* the resets of nav_nmea_parser_push).  It is the last sentence whose     *)
(* body came through; only among short sentences without fix, of which     *)
(* several fit the buffer, may the checksum let another pass.              *)
SampleIsHeard ==
  injected # NoSample =>
    \E b \in Body :
      /\ Said(b).result = "SAMPLE"
      /\ [injected EXCEPT !.alt = Said(b).alt] = Said(b)
      /\ b = heard \/ b \notin Fixes

(* Once a fix brought an altitude, an RMC fix does not take it away, until *)
(* a sample without fix or a GGA fix said zero (preserveKnownAltitude      *)
(* keeps what the last sample said, be it the zero of a lost fix).         *)
AltitudeKept ==
  fixed /\ injected # NoSample => injected.alt # 0

(* The receiver is reported healthy only within two reports of a fix.      *)
OkMeansFix == shown = "OK" => age.fix \in 0 .. Late
=============================================================================
