------------------------------ MODULE FrameCodec ------------------------------
(***************************************************************************)
(* The frames on the air: the envelope of nav_radio_protocol.c and the     *)
(* payloads of nav_telemetry.c, byte for byte.  Encoders and decoders are  *)
(* separate functions in the code, and so are the layouts here.            *)
(*                                                                         *)
(* Data abstraction: a quality is an integer in thousandths (the code has  *)
(* a float), its decoded form the number of 255ths; an enumeration is its  *)
(* number.                                                                 *)
(***************************************************************************)
EXTENDS Integers, Sequences, SequencesExt

Byte == 0 .. 255

(* NAV_RADIO_MAX_FRAME_BYTES, NAV_RADIO_HEADER_LEN.                        *)
MaxPayload == 128
HeaderLen == 6
Magic == <<78, 82>>

TypeCode ==
  [HEARTBEAT |-> 64, BEACON_RX |-> 66, RANGE_RESULT |-> 67, RANGE_FAIL |-> 68,
   DEBUG_ENABLE |-> 71, NODE_QUALITY_REPORT |-> 72]

-----------------------------------------------------------------------------
(* The cursor helpers: little-endian, two's complement.                    *)
Width(kind) ==
  CASE kind = "u8" -> 1 [] kind \in {"u16", "i16"} -> 2 [] kind \in {"u32", "i32"} -> 4

(* What a field of a kind can hold, the bounds of 32 bits in halves.       *)
Kinds == {"u8", "u16", "u32", "i16", "i32"}
Holds(kind, v) ==
  /\ v \in Int
  /\ kind = "u8"  => 0 <= v /\ v <= 255
  /\ kind = "u16" => 0 <= v /\ v <= 65535
  /\ kind = "i16" => -32768 <= v /\ v <= 32767
  /\ kind = "u32" => 0 <= v /\ v \div 65536 <= 65535
  /\ kind = "i32" => -32768 <= v \div 65536 /\ v \div 65536 <= 32767

Place == <<1, 256, 65536, 16777216>>
PutBytes(kind, v) == [k \in 1 .. Width(kind) |-> (v \div Place[k]) % 256]

Lead(kind, byte) == IF kind \in {"i16", "i32"} /\ byte >= 128 THEN byte - 256 ELSE byte

GetBytes(kind, b) ==
  CASE Width(kind) = 1 -> b[1]
    [] Width(kind) = 2 -> Lead(kind, b[2]) * 256 + b[1]
    [] Width(kind) = 4 -> ((Lead(kind, b[4]) * 256 + b[3]) * 256 + b[2]) * 256 + b[1]

(* A payload is a sequence of fields; put_* and get_* move a cursor over   *)
(* them.                                                                   *)
F(name, kind) == [name |-> name, kind |-> kind]

Put(layout, rec) ==
  FlattenSeq([k \in DOMAIN layout |-> PutBytes(layout[k].kind, rec[layout[k].name])])

(* Where the cursor stands after so many fields.                           *)
Cursor(layout) ==
  LET at[k \in 0 .. Len(layout)] == IF k = 0 THEN 0 ELSE at[k - 1] + Width(layout[k].kind)
  IN  at

LengthOf(layout) == Cursor(layout)[Len(layout)]

(* Whether a record's fields fit the kinds they are sent as.               *)
Carries(layout, rec) == \A k \in DOMAIN layout : Holds(layout[k].kind, rec[layout[k].name])

NamesOf(layout) == {layout[k].name : k \in DOMAIN layout}
FieldOf(layout, name) == CHOOSE k \in DOMAIN layout : layout[k].name = name

Get(layout, payload) ==
  [name \in NamesOf(layout) |->
     LET k == FieldOf(layout, name)
     IN  GetBytes(layout[k].kind,
                  SubSeq(payload, Cursor(layout)[k - 1] + 1, Cursor(layout)[k]))]

-----------------------------------------------------------------------------
(* nav_radio_encode_frame                                                  *)
EncodeFrame(type, seq, payload) ==
  Magic \o <<TypeCode[type]>> \o PutBytes("u16", seq) \o <<Len(payload)>> \o payload

(* nav_radio_decode_frame: the length must be exactly what the header says. *)
FrameOk(bytes) ==
  /\ Len(bytes) >= HeaderLen
  /\ SubSeq(bytes, 1, 2) = Magic
  /\ bytes[6] <= MaxPayload
  /\ Len(bytes) = HeaderLen + bytes[6]

FrameType(bytes) == bytes[3]
FramePayload(bytes) == SubSeq(bytes, HeaderLen + 1, Len(bytes))

-----------------------------------------------------------------------------
(* clamp_quality_to_u8, saturate_u16, clamp_anchor_count                   *)
QualityByte(q) ==
  IF q <= 0 THEN 0 ELSE IF q >= 1000 THEN 255 ELSE (q * 255 + 500) \div 1000
SaturateU16(v) == IF v > 65535 THEN 65535 ELSE v
ClampAnchors(n) == IF n > 3 THEN 3 ELSE n

(* nav_telemetry_encode_beacon and decode_beacon.  The signal fields are   *)
(* the receiver's business and are sent as zero.                           *)
BeaconPut ==
  <<F("node_id", "u8"), F("packet_seq", "u32"), F("timestamp_ms", "u32"),
    F("lat_e7", "i32"), F("lon_e7", "i32"), F("alt_mm", "i32"),
    F("vel_n", "i32"), F("vel_e", "i32"), F("vel_d", "i32"),
    F("fix_type", "u8"), F("gnss_valid", "u8"), F("nav_mode", "u8"),
    F("solution_status", "u8"), F("solution_source", "u8"),
    F("zero", "i16"), F("zero", "i16"), F("zero", "u8")>>

BeaconOnAir(t) ==
  [name \in DOMAIN t \cup {"zero"} |->
     CASE name = "zero"       -> 0
       [] name = "gnss_valid" -> (IF t.gnss_valid THEN 1 ELSE 0)
       [] OTHER               -> t[name]]

EncodeBeacon(t, seq) == EncodeFrame("BEACON_RX", seq, Put(BeaconPut, BeaconOnAir(t)))

(* Mutated form: altitude and longitude are read in the other order.       *)
BeaconGet_Swapped ==
  <<F("node_id", "u8"), F("packet_seq", "u32"), F("timestamp_ms", "u32"),
    F("lat_e7", "i32"), F("alt_mm", "i32"), F("lon_e7", "i32"),
    F("vel_n", "i32"), F("vel_e", "i32"), F("vel_d", "i32"),
    F("fix_type", "u8"), F("gnss_valid", "u8"), F("nav_mode", "u8"),
    F("solution_status", "u8"), F("solution_source", "u8"),
    F("ignored", "i16"), F("ignored", "i16"), F("reserved", "u8")>>

BeaconGet ==
  <<F("node_id", "u8"), F("packet_seq", "u32"), F("timestamp_ms", "u32"),
    F("lat_e7", "i32"), F("lon_e7", "i32"), F("alt_mm", "i32"),
    F("vel_n", "i32"), F("vel_e", "i32"), F("vel_d", "i32"),
    F("fix_type", "u8"), F("gnss_valid", "u8"), F("nav_mode", "u8"),
    F("solution_status", "u8"), F("solution_source", "u8"),
    F("ignored", "i16"), F("ignored", "i16"), F("reserved", "u8")>>

DecodeBeacon(payload) ==
  LET t == Get(BeaconGet, payload)
  IN  [name \in DOMAIN t \ {"ignored", "reserved"} |->
         IF name = "gnss_valid" THEN t[name] # 0 ELSE t[name]]

(* nav_telemetry_encode_heartbeat, nav_telemetry_decode_heartbeat          *)
HeartbeatPut ==
  <<F("node_id", "u8"), F("uptime_ms", "u32"), F("status_flags", "u32"),
    F("frame_index", "u32"), F("slot_index", "u8"), F("slot_ms", "u16"),
    F("slot_elapsed_ms", "u16")>>
EncodeHeartbeat(h, seq) == EncodeFrame("HEARTBEAT", seq, Put(HeartbeatPut, h))

HeartbeatGet ==
  <<F("node_id", "u8"), F("uptime_ms", "u32"), F("status_flags", "u32"),
    F("frame_index", "u32"), F("slot_index", "u8"), F("slot_ms", "u16"),
    F("slot_elapsed_ms", "u16")>>

(* nav_telemetry_encode_debug_enable, nav_telemetry_decode_debug_enable    *)
DebugEnablePut == <<F("origin_node_id", "u8"), F("ttl_ms", "u16")>>
EncodeDebugEnable(d, seq) == EncodeFrame("DEBUG_ENABLE", seq, Put(DebugEnablePut, d))

DebugEnableGet == <<F("origin_node_id", "u8"), F("ttl_ms", "u16")>>

(* nav_telemetry_encode_range_result and decode_range_result, whose status *)
(* byte is 0 for a valid range; range failures are only decoded.           *)
RangeResultPut ==
  <<F("peer_id", "u8"), F("status", "u8"), F("timestamp_ms", "u32"), F("range_mm", "u32"),
    F("range_sigma_mm", "u32"), F("rssi_dbm", "i16"), F("snr_db", "i16"),
    F("attempt", "u8"), F("request_id", "u16")>>

RangeOnAir(r) ==
  [name \in DOMAIN r \cup {"status", "attempt"} |->
     CASE name = "status"  -> (IF r.valid THEN 0 ELSE 1)
       [] name = "attempt" -> 1
       [] OTHER            -> r[name]]

EncodeRangeResult(r, seq) ==
  EncodeFrame("RANGE_RESULT", seq, Put(RangeResultPut, RangeOnAir(r)))

RangeResultGet ==
  <<F("peer_id", "u8"), F("status", "u8"), F("timestamp_ms", "u32"), F("range_mm", "u32"),
    F("range_sigma_mm", "u32"), F("rssi_dbm", "i16"), F("snr_db", "i16"),
    F("attempt", "u8"), F("request_id", "u16")>>

DecodeRangeResult(payload) ==
  LET r == Get(RangeResultGet, payload)
  IN  [name \in (DOMAIN r \ {"status", "attempt"}) \cup {"valid"} |->
         IF name = "valid" THEN r["status"] = 0 ELSE r[name]]

RangeFailGet ==
  <<F("peer_id", "u8"), F("reason", "u8"), F("timestamp_ms", "u32"), F("attempt", "u8"),
    F("ignored", "i16"), F("ignored", "i16"), F("request_id", "u16")>>

(* nav_telemetry_encode_node_quality_report and its decoder                *)
QualityPut ==
  <<F("node_id", "u8"), F("nav_mode", "u8"), F("solution_status", "u8"),
    F("solution_source", "u8"), F("num_anchors", "u8"),
    F("anchor1", "u8"), F("anchor2", "u8"), F("anchor3", "u8"),
    F("fix_type", "u8"), F("satellites", "u8"), F("geometry", "u8"), F("quality", "u8"),
    F("residual_rms_mm", "u16"), F("max_residual_mm", "u16"), F("hdop_centi", "u16"),
    F("hacc_mm", "u32"), F("vacc_mm", "u32"),
    F("lat_e7", "i32"), F("lon_e7", "i32"), F("alt_mm", "i32"), F("packet_seq", "u32")>>

(* What the sender narrows a report to.                                    *)
NarrowReport(r) ==
  [r EXCEPT !.num_anchors = ClampAnchors(@), !.geometry = QualityByte(@),
            !.quality = QualityByte(@), !.residual_rms_mm = SaturateU16(@),
            !.max_residual_mm = SaturateU16(@)]

EncodeQuality(r, seq) ==
  EncodeFrame("NODE_QUALITY_REPORT", seq, Put(QualityPut, NarrowReport(r)))

QualityGet ==
  <<F("node_id", "u8"), F("nav_mode", "u8"), F("solution_status", "u8"),
    F("solution_source", "u8"), F("num_anchors", "u8"),
    F("anchor1", "u8"), F("anchor2", "u8"), F("anchor3", "u8"),
    F("fix_type", "u8"), F("satellites", "u8"), F("geometry", "u8"), F("quality", "u8"),
    F("residual_rms_mm", "u16"), F("max_residual_mm", "u16"), F("hdop_centi", "u16"),
    F("hacc_mm", "u32"), F("vacc_mm", "u32"),
    F("lat_e7", "i32"), F("lon_e7", "i32"), F("alt_mm", "i32"), F("packet_seq", "u32")>>

DecodeQuality(payload) == [Get(QualityGet, payload) EXCEPT !.num_anchors = ClampAnchors(@)]

-----------------------------------------------------------------------------
(* What the encoders' buffers hold and the decoders ask for                *)
(* (NAV_TELEMETRY_BEACON_LEN and its like).                                *)
PayloadLen ==
  [BEACON_RX |-> 43, RANGE_RESULT |-> 21, RANGE_FAIL |-> 13, DEBUG_ENABLE |-> 3,
   HEARTBEAT |-> 18, NODE_QUALITY_REPORT |-> 42]

(* The decoders of a frame whose type they have been asked for.  A payload *)
(* may be longer than its type needs, never shorter.                       *)
Fits(type, payload) == Len(payload) >= PayloadLen[type]

Refused == [type |-> "none"]

Decoded(type, payload, value) ==
  IF Fits(type, payload) THEN [type |-> type, value |-> value] ELSE Refused

(* nav_telemetry_decode_event: the three frames that are events.           *)
DecodeEvent(bytes) ==
  LET payload == FramePayload(bytes)
  IN  IF ~FrameOk(bytes) THEN Refused
      ELSE CASE FrameType(bytes) = TypeCode["BEACON_RX"] ->
                  Decoded("BEACON_RX", payload, DecodeBeacon(payload))
             [] FrameType(bytes) = TypeCode["RANGE_RESULT"] ->
                  Decoded("RANGE_RESULT", payload, DecodeRangeResult(payload))
             [] FrameType(bytes) = TypeCode["RANGE_FAIL"] ->
                  Decoded("RANGE_FAIL", payload, Get(RangeFailGet, payload))
             [] OTHER -> Refused

(* dispatchTypedReport: what a radio task takes from a received frame.     *)
(* The events of ranging come from the chip or from air reports, never     *)
(* from a frame.                                                           *)
Dispatch(bytes) ==
  LET payload == FramePayload(bytes)
  IN  IF ~FrameOk(bytes) THEN Refused
      ELSE CASE FrameType(bytes) = TypeCode["BEACON_RX"] -> DecodeEvent(bytes)
             [] FrameType(bytes) = TypeCode["HEARTBEAT"] ->
                  Decoded("HEARTBEAT", payload, Get(HeartbeatGet, payload))
             [] FrameType(bytes) = TypeCode["DEBUG_ENABLE"] ->
                  Decoded("DEBUG_ENABLE", payload, Get(DebugEnableGet, payload))
             [] FrameType(bytes) = TypeCode["NODE_QUALITY_REPORT"] ->
                  Decoded("NODE_QUALITY_REPORT", payload, DecodeQuality(payload))
             [] OTHER -> Refused
=============================================================================
