------------------------------ MODULE L2Packet ------------------------------
(***************************************************************************)
(* The SMA L2 packets inside an L2-wrapped frame (packet.rs), the bodies   *)
(* of the commands the daemon sends (auth.rs, commands.rs) and the         *)
(* encoding of the password.                                               *)
(*                                                                         *)
(* A u32 is the sequence of its four bytes, little-endian: serials, times  *)
(* and opcodes are only copied and compared.                               *)
(***************************************************************************)
EXTENDS FrameCodec

APP_SUSY_ID == 125
APP_PACKET_BIT == \h8000
ANY_SUSY_ID == \hFFFF
ANY_SERIAL == <<\hFF, \hFF, \hFF, \hFF>>
LE32(n) == LE16(n % 65536) \o LE16(n \div 65536)
Zeros(n) == [i \in 1..n |-> 0]
-----------------------------------------------------------------------------
L2Header(longwords, ctrl, ctrl2, susy, serial, pkt_id, app_serial) ==
    [longwords |-> longwords, ctrl |-> ctrl, dst_susy_id |-> susy,
     dst_serial |-> serial, ctrl2 |-> ctrl2, app_susy_id |-> APP_SUSY_ID,
     app_serial |-> app_serial, error_code |-> 0, pkt_id |-> pkt_id]

\* pkt_id | APP_PACKET_BIT and pkt_id & !APP_PACKET_BIT
SetAppBit(pkt_id) == (pkt_id % APP_PACKET_BIT) + APP_PACKET_BIT
ClearAppBit(pkt_id) == pkt_id % APP_PACKET_BIT

encode_l2(h, body) ==
    BT_L2_SIGNATURE \o <<h.longwords, h.ctrl>>
    \o LE16(h.dst_susy_id) \o h.dst_serial \o LE16(h.ctrl2)
    \o LE16(h.app_susy_id) \o h.app_serial \o LE16(h.ctrl2)
    \o LE16(h.error_code) \o <<0, 0>> \o LE16(SetAppBit(h.pkt_id)) \o body

\* None is an empty sequence, Some(header, body) a pair.
decode_l2(data) ==
    IF Len(data) < 28 \/ Slice(data, 0, 4) # BT_L2_SIGNATURE THEN <<>>
    ELSE <<[longwords |-> data[5], ctrl |-> data[6],
            dst_susy_id |-> U16(data, 6), dst_serial |-> Slice(data, 8, 12),
            ctrl2 |-> U16(data, 12), app_susy_id |-> U16(data, 14),
            app_serial |-> Slice(data, 16, 20), error_code |-> U16(data, 22),
            pkt_id |-> ClearAppBit(U16(data, 26))],
           Drop(data, 28)>>
-----------------------------------------------------------------------------
(***************************************************************************)
(* auth.rs                                                                 *)
(***************************************************************************)
Key(group) == IF group = "User" THEN \h88 ELSE \hBB
Code(group) == IF group = "User" THEN LE32(7) ELSE LE32(10)

\* Twelve bytes: the first twelve characters added to the group's key
\* modulo 256, the rest of them the key itself.
encode_password(pwd, group) ==
    [i \in 1..12 |-> IF i <= Len(pwd) THEN (pwd[i] + Key(group)) % 256
                                      ELSE Key(group)]

build_init_body(pkt_id, app_serial) ==
    encode_l2(L2Header(\h09, \hA0, 0, ANY_SUSY_ID, ANY_SERIAL, pkt_id, app_serial),
              LE32(\h200) \o Zeros(8))

build_logoff_body(pkt_id, app_serial) ==
    encode_l2(L2Header(\h08, \hA0, \h300, ANY_SUSY_ID, ANY_SERIAL, pkt_id, app_serial),
              <<\h0E, \h01, \hFD, \hFF>> \o <<\hFF, \hFF, \hFF, \hFF>>)

build_logon_body(pwd, group, pkt_id, app_serial, now_epoch) ==
    encode_l2(L2Header(\h0E, \hA0, \h100, ANY_SUSY_ID, ANY_SERIAL, pkt_id, app_serial),
              <<\h0C, \h04, \hFD, \hFF>> \o Code(group) \o LE32(\h384)
              \o now_epoch \o Zeros(4) \o encode_password(pwd, group))
-----------------------------------------------------------------------------
(***************************************************************************)
(* commands.rs                                                             *)
(***************************************************************************)
QueryKind ==
    {"SpotAcTotalPower", "SpotAcPower", "SpotAcVoltage", "SpotGridFrequency",
     "SpotDcPower", "SpotDcVoltage", "EnergyProduction", "OperationTime",
     "InverterTemperature", "DeviceStatus", "GridRelayStatus", "TypeLabel",
     "SoftwareVersion", "BatteryChargeStatus", "BatteryInfo",
     "MeteringGridTotalW", "SpotCosPhi", "MaxFeedInPower", "NominalAcPower"}

\* (command, first_lri, last_lri)
opcode(kind) ==
    CASE kind = "SpotAcTotalPower"    -> <<\h51000200, \h263F00, \h263FFF>>
      [] kind = "SpotAcPower"         -> <<\h51000200, \h464000, \h4642FF>>
      [] kind = "SpotAcVoltage"       -> <<\h51000200, \h464800, \h4655FF>>
      [] kind = "SpotGridFrequency"   -> <<\h51000200, \h465700, \h4657FF>>
      [] kind = "SpotDcPower"         -> <<\h53800200, \h251E00, \h251EFF>>
      [] kind = "SpotDcVoltage"       -> <<\h53800200, \h451F00, \h4521FF>>
      [] kind = "EnergyProduction"    -> <<\h54000200, \h260100, \h2622FF>>
      [] kind = "OperationTime"       -> <<\h54000200, \h462E00, \h462FFF>>
      [] kind = "InverterTemperature" -> <<\h52000200, \h237700, \h2377FF>>
      [] kind = "DeviceStatus"        -> <<\h51800200, \h214800, \h2148FF>>
      [] kind = "GridRelayStatus"     -> <<\h51800200, \h416400, \h4164FF>>
      [] kind = "TypeLabel"           -> <<\h58000200, \h821E00, \h8220FF>>
      [] kind = "SoftwareVersion"     -> <<\h58000200, \h823400, \h8234FF>>
      [] kind = "BatteryChargeStatus" -> <<\h51000200, \h295A00, \h295AFF>>
      [] kind = "BatteryInfo"         -> <<\h51000200, \h491E00, \h495DFF>>
      [] kind = "MeteringGridTotalW"  -> <<\h51000200, \h463600, \h463669>>
      [] kind = "SpotCosPhi"          -> <<\h51000200, \h237400, \h4748FF>>
      [] kind = "MaxFeedInPower"      -> <<\h51000200, \h411F00, \h411F19>>
      [] kind = "NominalAcPower"      -> <<\h51000200, \h411E00, \h411E19>>

BugSingleLri(kind, pkt_id, app_serial, susy, serial) ==
    encode_l2(L2Header(\h09, \hA0, 0, susy, serial, pkt_id, app_serial),
              LE32(opcode(kind)[1]) \o LE32(opcode(kind)[2]) \o LE32(opcode(kind)[2]))

build_query_body(kind, pkt_id, app_serial, susy, serial) ==
    encode_l2(L2Header(\h09, \hA0, 0, susy, serial, pkt_id, app_serial),
              LE32(opcode(kind)[1]) \o LE32(opcode(kind)[2]) \o LE32(opcode(kind)[3]))

build_event_log_body(pkt_id, app_serial, susy, serial, start_unix, end_unix) ==
    encode_l2(L2Header(\h09, \hE0, \h100, susy, serial, pkt_id, app_serial),
              LE32(\h70100200) \o start_unix \o end_unix)
=============================================================================
