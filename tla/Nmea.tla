-------------------------------- MODULE Nmea --------------------------------
(***************************************************************************)
(* The NMEA parser (core/src/nav_nmea.c): bytes are pushed one by one, a   *)
(* sentence ends with its line and is checked and read only then.          *)
(*                                                                         *)
(* Data abstraction: bytes come in runs.  A run is the "$", the end of the *)
(* line, the body of a sentence, the star with its two digits, or noise.   *)
(* The checksum of several runs is the set of those that occur an odd      *)
(* number of times, so it collides only for pairs of equal runs; the eight *)
(* bits of the code do for one in 256 more.  Of a field only whether it is *)
(* empty, unreadable or what it says that the samples tell apart.          *)
(***************************************************************************)
EXTENDS Integers, Sequences, SequencesExt

CONSTANT SentenceMax   \* NAV_NMEA_MAX_SENTENCE_LEN, in the unit of Size
ASSUME NmeaAssumption == SentenceMax \in Nat /\ SentenceMax > 2

Empty == -1
Bad == -2

Dollar == [run |-> "dollar"]
LineEnd == [run |-> "line_end"]
Noise == [run |-> "noise"]
Star(sum) == [run |-> "star", sum |-> sum]

(* The room a run takes in the buffer.                                     *)
Size(r) == IF r.run = "body" THEN r.size ELSE 1

Checksum(runs) ==
  {r \in ToSet(runs) : Cardinality({k \in DOMAIN runs : runs[k] = r}) % 2 = 1}

-----------------------------------------------------------------------------
Malformed == [result |-> "MALFORMED_SENTENCE"]
NoResult == [result |-> "NONE"]
Sample(fix, satellites, hdop, alt) ==
  [result |-> "SAMPLE", valid |-> fix, satellites |-> satellites, hdop |-> hdop, alt |-> alt]

OrZero(field) == IF field = Empty THEN 0 ELSE field

(* parse_gga: a fix must come with a position.                             *)
ParseGga(b) ==
  IF \/ b.fields < 10
     \/ {b.quality, b.satellites} \cap {Empty, Bad} # {}
     \/ Bad \in {b.hdop, b.alt}
     \/ {b.lat, b.lon} \cap (IF b.quality # 0 THEN {Empty, Bad} ELSE {Bad}) # {}
  THEN Malformed
  ELSE Sample(b.quality # 0, b.satellites, OrZero(b.hdop), OrZero(b.alt))

(* parse_rmc: a sentence without altitude, satellites and precision.       *)
ParseRmc(b) ==
  IF \/ b.fields < 7
     \/ b.status \notin {"A", "V"}
     \/ {b.lat, b.lon} \cap (IF b.status = "A" THEN {Empty, Bad} ELSE {Bad}) # {}
  THEN Malformed
  ELSE Sample(b.status = "A", 0, 0, 0)

(* parse_payload.  Runs that follow the first are fields in excess.        *)
ParsePayload(runs) ==
  IF runs = <<>> \/ runs[1].run # "body" THEN Malformed
  ELSE CASE runs[1].head = "GGA" -> ParseGga(runs[1])
         [] runs[1].head = "RMC" -> ParseRmc(runs[1])
         [] OTHER                -> [result |-> "UNSUPPORTED_SENTENCE"]

(* Mutated form: the digits after the star are not compared.               *)
ParseSentence_Unchecked(runs) ==
  LET stars == {k \in DOMAIN runs : runs[k].run = "star"}
  IN  IF stars # {Len(runs)} THEN Malformed ELSE ParsePayload(SubSeq(runs, 1, Len(runs) - 1))

(* parse_sentence: one star, two digits after it and nothing else.         *)
ParseSentence(runs) ==
  LET stars == {k \in DOMAIN runs : runs[k].run = "star"}
      payload == SubSeq(runs, 1, Len(runs) - 1)
  IN  IF stars # {Len(runs)} THEN Malformed
      ELSE IF Checksum(payload) # runs[Len(runs)].sum THEN [result |-> "CHECKSUM_ERROR"]
      ELSE ParsePayload(payload)

-----------------------------------------------------------------------------
(* nav_nmea_parser_init                                                    *)
ParserInit == [open |-> FALSE, sentence |-> <<>>, length |-> 0]

Overflows(parser, r) == parser.length + Size(r) >= SentenceMax

(* nav_nmea_parser_push: what becomes of the parser, and what it reports.  *)
(* What is left in a closed sentence is never read.                        *)
Push(parser, r) ==
  CASE r = Dollar -> [ParserInit EXCEPT !.open = TRUE]
    [] r # Dollar /\ ~parser.open -> parser
    [] r = LineEnd /\ parser.open -> ParserInit
    [] OTHER ->
         IF Overflows(parser, r) THEN ParserInit
         ELSE [parser EXCEPT !.sentence = Append(@, r), !.length = @ + Size(r)]

Result(parser, r) ==
  CASE r = LineEnd /\ parser.open /\ parser.sentence # <<>> -> ParseSentence(parser.sentence)
    [] r \notin {Dollar, LineEnd} /\ parser.open /\ Overflows(parser, r) ->
         [result |-> "OVERFLOW"]
    [] OTHER -> NoResult
=============================================================================
