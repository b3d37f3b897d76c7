--------------------------- MODULE WirePathProofs ---------------------------
(***************************************************************************)
(* One exchange, for every packet id, serial, password, reading, number of *)
(* records and size of the log.  In this order:                            *)
(*                                                                         *)
(* AnnouncedFirst, from the keys and divisors of the parsers alone.        *)
(*                                                                         *)
(* AlwaysHeard and AlwaysRoundTrip, for the request: CodecProofs on frames,*)
(* then the place of each field of each command in its packet.             *)
(*                                                                         *)
(* AlwaysReached, for the range of a query: the opcode table against the   *)
(* device's registers.                                                     *)
(*                                                                         *)
(* AlwaysFaithful: the records of the answer are found again in the body   *)
(* by their stride (FaithfulInv), each is read as its register means, and  *)
(* its address leads to the key of its register and no other.              *)
(*                                                                         *)
(* OneFragmentPublished: the same walk over the entries of the log, for    *)
(* each way the device may end it (LogInv).                                *)
(***************************************************************************)
EXTENDS WirePath, CodecProofs

Announced(key, div) ==
    \E sensor \in sensor_catalog : sensor.key = key /\ <<sensor.unit, div>> \in Scales

\* The fields of a reply that have a reading are announced.
Fits(fields) ==
    \A k \in DOMAIN fields : fields[k] # None => Announced(k, fields[k].div)

LEMMA ScaledDiv ==
    ASSUME NEW w, NEW div, Scaled(w, div) # None
    PROVE  Scaled(w, div).div = div
BY DEF Scaled, Reading

Sensor(k, unit) == [key |-> k, unit |-> unit]
Scaling(unit, div) == <<unit, div>> \in Scales

LEMMA AnnouncedWith ==
    ASSUME NEW k, NEW unit, NEW div, Sensor(k, unit) \in sensor_catalog, Scaling(unit, div)
    PROVE  Announced(k, div)
<1> DEFINE sensor == Sensor(k, unit)
<1>1. sensor.key = k /\ sensor.unit = unit
  BY DEF Sensor
<1> HIDE DEF sensor
<1>2. sensor \in sensor_catalog
  BY DEF sensor
<1> QED
  BY <1>1, <1>2 DEF Announced, Scaling

\* The key of every reading, with the divisor it is published with.
LEMMA Units ==
    /\ \A k \in {"ac_power", "ac_power_l1", "ac_power_l2", "ac_power_l3", "dc_power_s1",
                 "dc_power_s2", "max_feedin_w", "nominal_ac_power_w"} : Announced(k, 1)
    /\ \A k \in {"ac_voltage_l1", "ac_voltage_l2", "ac_voltage_l3", "dc_voltage_s1",
                 "dc_voltage_s2", "grid_frequency", "temperature"} : Announced(k, 100)
    /\ \A k \in {"ac_current_l1", "ac_current_l2", "ac_current_l3", "dc_current_s1",
                 "dc_current_s2", "energy_today", "energy_lifetime", "cos_phi"} :
          Announced(k, 1000)
    /\ \A k \in {"operation_time", "feed_in_time"} : Announced(k, 3600)
    /\ \A k \in {"inverter_state", "grid_relay", "inverter_model", "firmware_version"} :
          Announced(k, 1)
    /\ \A k \in {"last_event", "last_event_at", "last_event_count_24h"} :
          \E sensor \in sensor_catalog : sensor.key = k
<1>1. /\ Scaling("W", 1) /\ Scaling("V", 100) /\ Scaling("A", 1000)
      /\ Scaling("Hz", 100) /\ Scaling("kWh", 1000) /\ Scaling("h", 3600)
      /\ Scaling("C", 100) /\ Scaling("none", 1) /\ Scaling("none", 1000)
  BY DEF Scaling, Scales
<1>2. \A k \in {"ac_power", "ac_power_l1", "ac_power_l2", "ac_power_l3",
               "dc_power_s1", "dc_power_s2", "max_feedin_w", "nominal_ac_power_w"} :
         Announced(k, 1)
  <2>1. \A k \in {"ac_power", "ac_power_l1", "ac_power_l2", "ac_power_l3",
                 "dc_power_s1", "dc_power_s2", "max_feedin_w", "nominal_ac_power_w"} :
           Sensor(k, "W") \in sensor_catalog
    BY DEF Sensor, sensor_catalog, SensorConfig, ac_side, dc_side, diagnostics
  <2>2. Scaling("W", 1)
    BY <1>1
  <2> QED
    BY <2>1, <2>2, AnnouncedWith
<1>3. \A k \in {"ac_voltage_l1", "ac_voltage_l2", "ac_voltage_l3", "dc_voltage_s1",
               "dc_voltage_s2"} :
         Announced(k, 100)
  <2>1. \A k \in {"ac_voltage_l1", "ac_voltage_l2", "ac_voltage_l3", "dc_voltage_s1",
                 "dc_voltage_s2"} :
           Sensor(k, "V") \in sensor_catalog
    BY DEF Sensor, sensor_catalog, SensorConfig, ac_side, dc_side
  <2>2. Scaling("V", 100)
    BY <1>1
  <2> QED
    BY <2>1, <2>2, AnnouncedWith
<1>4. \A k \in {"ac_current_l1", "ac_current_l2", "ac_current_l3", "dc_current_s1",
               "dc_current_s2"} :
         Announced(k, 1000)
  <2>1. \A k \in {"ac_current_l1", "ac_current_l2", "ac_current_l3", "dc_current_s1",
                 "dc_current_s2"} :
           Sensor(k, "A") \in sensor_catalog
    BY DEF Sensor, sensor_catalog, SensorConfig, ac_side, dc_side
  <2>2. Scaling("A", 1000)
    BY <1>1
  <2> QED
    BY <2>1, <2>2, AnnouncedWith
<1>5. \A k \in {"grid_frequency"} :
         Announced(k, 100)
  <2>1. \A k \in {"grid_frequency"} :
           Sensor(k, "Hz") \in sensor_catalog
    BY DEF Sensor, sensor_catalog, SensorConfig, ac_side
  <2>2. Scaling("Hz", 100)
    BY <1>1
  <2> QED
    BY <2>1, <2>2, AnnouncedWith
<1>6. \A k \in {"energy_today", "energy_lifetime"} :
         Announced(k, 1000)
  <2>1. \A k \in {"energy_today", "energy_lifetime"} :
           Sensor(k, "kWh") \in sensor_catalog
    BY DEF Sensor, sensor_catalog, SensorConfig, counters
  <2>2. Scaling("kWh", 1000)
    BY <1>1
  <2> QED
    BY <2>1, <2>2, AnnouncedWith
<1>7. \A k \in {"operation_time", "feed_in_time"} :
         Announced(k, 3600)
  <2>1. \A k \in {"operation_time", "feed_in_time"} :
           Sensor(k, "h") \in sensor_catalog
    BY DEF Sensor, sensor_catalog, SensorConfig, counters
  <2>2. Scaling("h", 3600)
    BY <1>1
  <2> QED
    BY <2>1, <2>2, AnnouncedWith
<1>8. \A k \in {"temperature"} :
         Announced(k, 100)
  <2>1. \A k \in {"temperature"} :
           Sensor(k, "C") \in sensor_catalog
    BY DEF Sensor, sensor_catalog, SensorConfig, diagnostics
  <2>2. Scaling("C", 100)
    BY <1>1
  <2> QED
    BY <2>1, <2>2, AnnouncedWith
<1>9. \A k \in {"inverter_state", "grid_relay", "inverter_model", "firmware_version",
               "cos_phi", "last_event", "last_event_at", "last_event_count_24h"} :
         Sensor(k, "none") \in sensor_catalog
  BY DEF Sensor, sensor_catalog, SensorConfig, diagnostics
<1>10. \A k \in {"last_event", "last_event_at", "last_event_count_24h"} :
          \E sensor \in sensor_catalog : sensor.key = k
  <2>1. \A k : Sensor(k, "none").key = k
    BY DEF Sensor
  <2> QED
    BY <1>9, <2>1
<1>11. /\ Announced("cos_phi", 1000)
       /\ \A k \in {"inverter_state", "grid_relay", "inverter_model", "firmware_version"} :
             Announced(k, 1)
  <2>1. Scaling("none", 1) /\ Scaling("none", 1000)
    BY <1>1
  <2> QED
    BY <1>9, <2>1, AnnouncedWith
<1> QED
  BY <1>2, <1>3, <1>4, <1>5, <1>6, <1>7, <1>8, <1>10, <1>11

-----------------------------------------------------------------------------
(* The parsers, whatever the body of the reply. *)

\* Every query kind's fields are announced with their divisors.
LEMMA AcFit ==
    ASSUME NEW body
    PROVE  /\ Fits(parse_spot_ac_total_power(body)) /\ Fits(parse_spot_ac_power(body))
           /\ Fits(parse_spot_ac_voltage(body)) /\ Fits(parse_grid_frequency(body))
           /\ Fits(parse_cosphi(body))
<1>1. Fits(parse_spot_ac_total_power(body))
  BY ScaledDiv, Units DEF Fits, parse_spot_ac_total_power, Spot
<1>2. Fits(parse_spot_ac_power(body))
  BY ScaledDiv, Units DEF Fits, parse_spot_ac_power, Spot
<1>3. Fits(parse_spot_ac_voltage(body))
  BY ScaledDiv, Units DEF Fits, parse_spot_ac_voltage, Spot
<1>4. Fits(parse_grid_frequency(body))
  BY ScaledDiv, Units DEF Fits, parse_grid_frequency
<1>5. Fits(parse_cosphi(body))
  BY ScaledDiv, Units DEF Fits, parse_cosphi
<1> QED
  BY <1>1, <1>2, <1>3, <1>4, <1>5

LEMMA DcFit ==
    ASSUME NEW body
    PROVE  Fits(parse_spot_dc_power(body)) /\ Fits(parse_spot_dc_voltage(body))
<1>1. Fits(parse_dc_block(body))
  BY ScaledDiv, Units DEF Fits, parse_dc_block, DcSpot
<1>2. ASSUME NEW keys \in SUBSET DOMAIN parse_dc_block(body)
      PROVE  Fits(Restrict(parse_dc_block(body), keys))
  BY <1>1 DEF Fits, Restrict
<1>3. {"dc_power_s1", "dc_power_s2", "dc_voltage_s1", "dc_voltage_s2", "dc_current_s1",
       "dc_current_s2"} = DOMAIN parse_dc_block(body)
  BY DEF parse_dc_block
<1> QED
  BY <1>2, <1>3 DEF parse_spot_dc_power, parse_spot_dc_voltage

LEMMA CounterFit ==
    ASSUME NEW body
    PROVE  Fits(parse_energy_production(body)) /\ Fits(parse_operation_time(body))
<1>1. Fits(parse_energy_production(body))
  BY ScaledDiv, Units DEF Fits, parse_energy_production, Counter
<1>2. Fits(parse_operation_time(body))
  BY ScaledDiv, Units DEF Fits, parse_operation_time, Counter
<1> QED
  BY <1>1, <1>2

LEMMA DiagnosticFit ==
    ASSUME NEW body
    PROVE  /\ Fits(parse_inverter_temperature(body)) /\ Fits(parse_device_status(body))
           /\ Fits(parse_grid_relay(body)) /\ Fits(parse_software_version(body))
<1>1. Fits(parse_inverter_temperature(body))
  BY ScaledDiv, Units DEF Fits, parse_inverter_temperature, Spot
<1>2. Fits(parse_device_status(body))
  BY ScaledDiv, Units DEF Fits, parse_device_status
<1>3. Fits(parse_grid_relay(body))
  BY ScaledDiv, Units DEF Fits, parse_grid_relay
<1>4. Fits(parse_software_version(body))
  BY ScaledDiv, Units DEF Fits, parse_software_version
<1> QED
  BY <1>1, <1>2, <1>3, <1>4

\* What is published of fitting fields is announced.
LEMMA SomeFits ==
    ASSUME NEW fields, Fits(fields)
    PROVE  \A k \in DOMAIN Some(fields) : Announced(k, Some(fields)[k].div)
BY DEF Some, Restrict, Fits

LEMMA QueryFits ==
    ASSUME NEW kind, NEW body
    PROVE  LET out == publish_query_result(kind, body)
           IN  \A k \in DOMAIN out : Announced(k, out[k].div)
<1>1. Fits(<<>>)
  BY DEF Fits
<1>2. PICK fields : Fits(fields) /\ publish_query_result(kind, body) = Some(fields)
  <2>1. CASE kind \in {"SpotAcTotalPower", "SpotAcPower", "SpotAcVoltage",
                       "SpotGridFrequency", "SpotCosPhi"}
    BY <2>1, AcFit DEF publish_query_result
  <2>2. CASE kind \in {"SpotDcPower", "SpotDcVoltage", "EnergyProduction", "OperationTime"}
    BY <2>2, DcFit, CounterFit DEF publish_query_result
  <2>3. CASE kind \in {"InverterTemperature", "DeviceStatus", "GridRelayStatus"}
    BY <2>3, DiagnosticFit DEF publish_query_result
  <2>4. CASE kind \notin {"SpotAcTotalPower", "SpotAcPower", "SpotAcVoltage",
                          "SpotGridFrequency", "SpotCosPhi", "SpotDcPower", "SpotDcVoltage",
                          "EnergyProduction", "OperationTime", "InverterTemperature",
                          "DeviceStatus", "GridRelayStatus"}
    BY <1>1, <2>4 DEF publish_query_result
  <2> QED
    BY <2>1, <2>2, <2>3, <2>4
<1> QED
  BY <1>2, SomeFits

LEMMA OneShotFits ==
    ASSUME NEW kind \in OneShotKinds, NEW body
    PROVE  LET out == publish_one_shot(kind, body)
           IN  \A k \in DOMAIN out : Announced(k, out[k].div)
<1>1. PICK fields : Fits(fields) /\ publish_one_shot(kind, body) = Some(fields)
  <2>1. CASE kind = "SoftwareVersion"
    BY <2>1, DiagnosticFit DEF publish_one_shot
  <2>2. CASE kind = "TypeLabel"
    <3> DEFINE tag == parse_type_label_raw(body)
               fields == [inverter_model |->
                   IF tag # None /\ KnownLabel(tag) THEN Reading(tag, 1) ELSE None]
    <3>1. publish_one_shot(kind, body) = Some(fields)
      BY <2>2 DEF publish_one_shot
    <3>2. Fits(fields)
      BY Units DEF Fits, Reading
    <3> QED
      BY <3>1, <3>2
  <2>3. CASE kind = "NominalAcPower"
    <3> DEFINE fields ==
          [nominal_ac_power_w |-> parse_single_watts_record(body, \h411E00, \h411E19)]
    <3>1. publish_one_shot(kind, body) = Some(fields)
      BY <2>3 DEF publish_one_shot
    <3>2. Fits(fields)
      BY ScaledDiv, Units DEF Fits, parse_single_watts_record
    <3> QED
      BY <3>1, <3>2
  <2>4. CASE kind = "MaxFeedInPower"
    <3> DEFINE fields ==
          [max_feedin_w |-> parse_single_watts_record(body, \h411F00, \h411F19)]
    <3>1. publish_one_shot(kind, body) = Some(fields)
      BY <2>4 DEF publish_one_shot
    <3>2. Fits(fields)
      BY ScaledDiv, Units DEF Fits, parse_single_watts_record
    <3> QED
      BY <3>1, <3>2
  <2> QED
    BY <2>1, <2>2, <2>3, <2>4 DEF OneShotKinds
<1> QED
  BY <1>1, SomeFits

-----------------------------------------------------------------------------
\* Between exchanges nothing is published.
AnnouncedInv == PublishedAsAnnounced /\ (phase # "done" => result = <<>>)

LEMMA NextAnnounced == AnnouncedInv /\ [Next]_vars => AnnouncedInv'
<1> SUFFICES ASSUME AnnouncedInv, [Next]_vars PROVE AnnouncedInv'
  OBVIOUS
<1>1. ASSUME result' = <<>> PROVE AnnouncedInv'
  BY <1>1 DEF AnnouncedInv, PublishedAsAnnounced
<1>2. CASE \E req \in Requests : Ask(req)
  BY <1>1, <1>2 DEF Ask, AnnouncedInv
<1>3. CASE AnswerQuery \/ AnswerEventLog
  BY <1>1, <1>3 DEF AnswerQuery, AnswerEventLog, AnnouncedInv
<1>4. CASE NoReadings
  BY <1>1, <1>4 DEF NoReadings, AnnouncedInv
<1>5. CASE ReceiveQuery
  <2>1. /\ phase' = "done" /\ request' = request
        /\ \/ result' = <<>>
           \/ /\ request.kind \in OneShotKinds
              /\ result' = publish_one_shot(request.kind, ReplyBody(air[1]))
           \/ result' = publish_query_result(request.kind, ReplyBody(air[1]))
    BY <1>5 DEF ReceiveQuery
  <2>2. \A k \in DOMAIN result' : Announced(k, result'[k].div)
    BY <2>1, QueryFits, OneShotFits
  <2> QED
    BY <2>1, <2>2 DEF AnnouncedInv, PublishedAsAnnounced, Announced
<1>6. CASE ReceiveEventLog
  <2>1. /\ phase' = "done" /\ request' = request /\ request.name = "event_log"
        /\ \/ result' = <<>>
           \/ \E recs, n : result' = LastEvent(recs, n)
    BY <1>6 DEF ReceiveEventLog, LogResult
  <2>2. \A k \in DOMAIN result' : \E sensor \in sensor_catalog : sensor.key = k
    BY <2>1, Units DEF LastEvent
  <2> QED
    BY <2>1, <2>2 DEF AnnouncedInv, PublishedAsAnnounced
<1>7. CASE NextExchange
  BY <1>1, <1>7 DEF NextExchange
<1>8. CASE UNCHANGED vars
  BY <1>8 DEF vars, AnnouncedInv, PublishedAsAnnounced
<1> QED
  BY <1>2, <1>3, <1>4, <1>5, <1>6, <1>7, <1>8 DEF Next

\* Whatever registers, logs and frames a device answers with,
\* publish_query_result, the one-shot queries and the event-log poll publish
\* only keys sensor_catalog has, so the lookup of publish_value does not
\* panic, and each in the unit it was announced with.
THEOREM AnnouncedFirst == Spec => []PublishedAsAnnounced
<1>1. Init => AnnouncedInv
  BY DEF Init, AnnouncedInv, PublishedAsAnnounced
<1>2. AnnouncedInv => PublishedAsAnnounced
  BY DEF AnnouncedInv
<1> QED
  BY <1>1, <1>2, NextAnnounced, PTL DEF Spec

-----------------------------------------------------------------------------
(***************************************************************************)
(* The requests                                                            *)
(***************************************************************************)
LEMMA FixedLength ==
    ASSUME NEW n \in Nat, NEW w \in [1..n -> 0..255]
    PROVE  w \in Bytes /\ Len(w) = n
BY DEF Bytes, U8

LEMMA Constants ==
    /\ AppSerial \in Words4 /\ DevSerial \in Words4 /\ PktIds \subseteq PacketIds
    /\ MIN_FRAME_LEN \in Nat /\ MIN_FRAME_LEN <= 18
<1>1. \A w \in [1..4 -> 0..255] : w \in Words4
  <2> DEFINE n == 4
  <2>1. n \in Nat
    OBVIOUS
  <2> HIDE DEF n
  <2>2. \A w \in [1..n -> 0..255] : w \in Bytes /\ Len(w) = n
    BY <2>1, FixedLength
  <2> QED
    BY <2>2 DEF Words4, n
<1> QED
  BY <1>1, WirePathAssumption, WireAssumption DEF PacketIds

LEMMA LE32Type ==
    ASSUME NEW n \in Nat
    PROVE  LE32(n) \in Words4
<1> DEFINE l == n % 65536
           h == n \div 65536
           a == LE16(l)
           b == LE16(h)
<1>1. l \in Nat /\ h \in Nat
  BY SMT
<1> HIDE DEF l, h
<1>2. a \in Bytes /\ Len(a) = 2 /\ b \in Bytes /\ Len(b) = 2
  BY <1>1, LE16Type
<1> HIDE DEF a, b
<1>3. Joined(a \o b, a, 2, b, 2)
  BY <1>2, Join
<1> DEFINE c == a \o b
<1> HIDE DEF c
<1>4. Joined(c, a, 2, b, 2)
  BY <1>3 DEF c
<1>5. c \in Bytes /\ Len(c) = 4
  BY <1>4 DEF Joined
<1> QED
  BY <1>5 DEF LE32, Words4, a, b, c, l, h

LEMMA ZerosType ==
    ASSUME NEW n \in Nat
    PROVE  Zeros(n) \in Bytes /\ Len(Zeros(n)) = n
BY DEF Zeros, Bytes, U8

LEMMA FlattenOnes ==
    ASSUME NEW d \in Bytes
    PROVE  FlattenSeq([i \in 1..Len(d) |-> <<d[i]>>]) = d
<1> DEFINE ones(s) == [i \in 1..Len(s) |-> <<s[i]>>]
           T == {s \in Bytes : FlattenSeq(ones(s)) = s}
           none == <<>>
<1>1. none \in T
  <2>1. ones(none) = none
    OBVIOUS
  <2>2. FlattenSeq(ones(none)) = none
    BY <2>1, FlattenEmpty
  <2> QED
    BY <2>2 DEF Bytes
<1>2. ASSUME NEW s \in Seq(U8), NEW e \in U8, s \in T PROVE Append(s, e) \in T
  <2> DEFINE p == ones(Append(s, e))
             x == <<e>>
             q == Append(ones(s), x)
             n == Len(s)
  <2>1. n \in Nat /\ Len(Append(s, e)) = n + 1 /\ Append(s, e)[n + 1] = e
        /\ \A i \in 1..n : Append(s, e)[i] = s[i] /\ s[i] \in U8
    OBVIOUS
  <2>2. Append(s, e) \in Bytes /\ x \in Bytes /\ s \in Bytes
    BY DEF Bytes
  <2>3. \A b \in U8 : <<b>> \in Bytes
    BY DEF Bytes
  <2>4. ones(s) \in Seq(Bytes) /\ Len(ones(s)) = n
    BY <2>1, <2>3
  <2>5. q \in Seq(Bytes) /\ Len(q) = n + 1 /\ q[n + 1] = x /\ \A i \in 1..n : q[i] = <<s[i]>>
    BY <2>1, <2>2, <2>4
  <2>6. p \in Seq(Bytes) /\ Len(p) = n + 1 /\ p[n + 1] = x /\ \A i \in 1..n : p[i] = <<s[i]>>
    <3> DEFINE w == Append(s, e)
               m == n + 1
    <3>1. w \in Seq(U8) /\ Len(w) = m /\ m \in Nat /\ w[m] = e /\ \A i \in 1..n : w[i] = s[i]
      BY <2>1
    <3> HIDE DEF w, m
    <3>2. \A i \in 1..m : <<w[i]>> \in Bytes
      BY <2>3, <3>1
    <3>3. ones(w) \in Seq(Bytes) /\ Len(ones(w)) = m /\ \A i \in 1..m : ones(w)[i] = <<w[i]>>
      BY <3>1, <3>2
    <3>4. m \in 1..m /\ \A i \in 1..n : i \in 1..m
      BY <2>1 DEF m
    <3> QED
      BY <3>1, <3>3, <3>4 DEF w, m
  <2> HIDE DEF p, q, n, x, ones
  <2>7. \A i \in 1..(n + 1) : p[i] = q[i]
    <3> TAKE i \in 1..(n + 1)
    <3>1. i \in 1..n \/ i = n + 1
      BY <2>1
    <3> QED
      BY <2>5, <2>6, <3>1
  <2>8. p = q
    BY <2>5, <2>6, <2>7, SeqEqual
  <2>9. FlattenSeq(Append(ones(s), x)) = FlattenSeq(ones(s)) \o x
    BY <2>2, <2>4, FlattenAppend DEF Bytes
  <2>10. FlattenSeq(ones(s)) = s /\ s \o x = Append(s, e)
    BY <1>2, <2>2, AppendIsConcat DEF x
  <2> QED
    BY <2>2, <2>8, <2>9, <2>10 DEF p, q
<1> HIDE DEF T, none
<1>3. \A s \in Seq(U8) : s \in T
  BY <1>1, <1>2, SeqSetInduction DEF none
<1> QED
  BY <1>3 DEF T, Bytes

\* For every L2 packet, of any length and content, FrameBuilder frames: a PPP
\* receiver, which drops control characters, unstuffs and checks the residue,
\* gets the packet.
THEOREM Received ==
    ASSUME NEW f \in Frames, Buildable(f), f.kind = "L2Wrapped"
    PROVE  PppReceive(build(f)) = f.payload
<1> DEFINE p == f.payload
           s == Stuffed(p)
           d == Delimiter
           body == d \o s \o d
           n == Len(s)
           raw == Wrap(f, s)
           v == p \o LE16(compute(p))
           wire == [i \in 1..Len(s) |-> IF s[i] \in {\h11, \h12, \h13} THEN <<>> ELSE <<s[i]>>]
<1>1. p \in Bytes
  BY DEF Frames
<1>2. Signed(p) /\ Len(s) + 20 \in U16s
  BY DEF Buildable
<1>3. /\ s \in Bytes /\ s \in Seq(Clean) /\ n \in Nat /\ n = Len(s) /\ n >= Len(p) + 2
      /\ Len(p) \in Nat
  BY <1>1, StuffedType
<1>4. build(f) = raw
  BY DEF build, build_l2_wrapped, Stuffed
<1>5. Framed(raw, f, body)
  BY <1>2, <1>3, Wrapped
<1>6. unstuff(s) = Ok(v)
  <2>1. v \in Bytes
    <3>1. U16s \subseteq Nat
      BY U16Max DEF U16s
    <3>2. LE16(compute(p)) \in Bytes
      BY <1>1, <3>1, ComputeType, LE16Type
    <3> QED
      BY <1>1, <3>2, CatElements
  <2> QED
    BY <2>1, UnstuffStuff DEF Stuffed
<1>7. update_slice(v) = GoodResidue
  BY <1>1, FcsResidue DEF GoodResidue
<1>8. Slice(v, 0, Len(v) - 2) = p
  <2> DEFINE c == LE16(compute(p))
  <2>1. c \in Bytes /\ Len(c) = 2
    <3>1. U16s \subseteq Nat
      BY U16Max DEF U16s
    <3> QED
      BY <1>1, <3>1, ComputeType, LE16Type
  <2> HIDE DEF c
  <2>2. Slice(p \o c, 0, Len(p)) = p
    BY <1>1, <2>1, SliceWhole
  <2>3. Len(p \o c) = Len(p) + Len(c)
    BY <1>1, <2>1, CatElements
  <2>4. Len(v) - 2 = Len(p)
    <3>1. Len(v) = Len(p) + 2
      BY <2>1, <2>3 DEF c
    <3> HIDE DEF v
    <3> QED
      BY <1>3, <3>1
  <2> QED
    BY <2>2, <2>4 DEF c
<1> HIDE DEF p, s, d, v, raw, n
<1>9. /\ body \in Bytes /\ Len(body) = n + 2 /\ body[1] = FRAME_DELIMITER
      /\ body[n + 2] = FRAME_DELIMITER /\ Slice(body, 1, n + 1) = s
  BY <1>3, WrappedEnds DEF d
<1> HIDE DEF body
<1>10. n >= 6
  BY <1>2, <1>3 DEF Signed
<1>11. /\ Len(raw) = n + 20 /\ DeclaredLen(raw[2], raw[3]) = Len(raw)
       /\ raw[19] = FRAME_DELIMITER /\ Last(raw) = FRAME_DELIMITER
  <2>1. Len(raw) = n + 20 /\ DeclaredLen(raw[2], raw[3]) = Len(raw)
    BY <1>3, <1>5, <1>9 DEF Framed
  <2>2. 1 \in 1..Len(body) /\ n + 2 \in 1..Len(body) /\ 18 + 1 = 19 /\ 18 + (n + 2) = n + 20
    BY <1>3, <1>9
  <2>3. \A i \in 1..Len(body) : raw[18 + i] = body[i]
    BY <1>5 DEF Framed
  <2>4. raw[18 + 1] = FRAME_DELIMITER /\ raw[18 + (n + 2)] = FRAME_DELIMITER
    BY <1>9, <2>2, <2>3
  <2> QED
    BY <2>1, <2>2, <2>4 DEF Last
<1>12. Slice(raw, 19, Len(raw) - 1) = s
  <2> DEFINE a == 1
             b == n + 1
  <2>1. a \in Nat /\ b \in Nat /\ a <= b /\ b <= Len(body) /\ 18 + a = 19 /\ 18 + b = Len(raw) - 1
    BY <1>3, <1>9, <1>11
  <2>2. Slice(body, a, b) = s
    BY <1>9
  <2> HIDE DEF a, b
  <2>3. Slice(raw, 18 + a, 18 + b) = Slice(body, a, b)
    BY <1>5, <1>9, <2>1, FramedSlice
  <2> QED
    BY <2>1, <2>2, <2>3
<1>13. \A i \in 1..Len(s) : s[i] \in Clean
  BY <1>3
<1>14. FlattenSeq(wire) = s
  <2>1. wire = [i \in 1..Len(s) |-> <<s[i]>>]
    BY <1>13 DEF Clean
  <2> QED
    BY <1>3, <2>1, FlattenOnes
<1> HIDE DEF wire
<1>15. Len(raw) > 22
  BY <1>3, <1>10, <1>11
<1>16. \A i \in 1..Len(s) : s[i] # FRAME_DELIMITER
  BY <1>13 DEF Clean, FRAME_DELIMITER
<1>17. unstuff(FlattenSeq(wire)).tag = "ok" /\ unstuff(FlattenSeq(wire)).val = v
  BY <1>6, <1>14 DEF Ok
<1>18. PppReceive(raw) = Slice(v, 0, Len(v) - 2)
  BY <1>7, <1>11, <1>12, <1>15, <1>16, <1>17 DEF PppReceive, wire
<1> QED
  BY <1>4, <1>8, <1>18 DEF p

LEMMA EncodedSigned ==
    ASSUME NEW e, NEW h, NEW body \in Bytes, Encoded(e, h, body)
    PROVE  e \in Bytes /\ Signed(e) /\ Len(e) = 28 + Len(body) /\ Len(body) \in Nat
<1>1. Len(body) \in Nat
  BY DEF Bytes
<1>2. e \in Bytes /\ Len(e) = 28 + Len(body) /\ Piece(e, 0, BT_L2_SIGNATURE)
  BY DEF Encoded
<1> HIDE DEF Encoded
<1>3. Slice(e, 0, 4) = BT_L2_SIGNATURE
  BY <1>2, StuffSignature DEF Piece
<1> QED
  BY <1>1, <1>2, <1>3 DEF Signed

\* A short frame fits into the length.
LEMMA ShortFits ==
    ASSUME NEW p \in Bytes, NEW n \in Nat, Len(p) <= n, 2 * n + 24 <= 65535
    PROVE  /\ Len(Stuffed(p)) + 20 \in U16s /\ Len(Stuffed(p)) + 19 \in U16s
           /\ 18 + Len(stuff(p)) \in U16s
<1> DEFINE a == Len(Stuffed(p)) + 20
           b == Len(Stuffed(p)) + 19
           c == 18 + Len(stuff(p))
<1>1. Len(Stuffed(p)) \in Nat /\ Len(Stuffed(p)) <= 2 * Len(p) + 4 /\ Len(p) \in Nat
  BY StuffedType
<1>2. Len(stuff(p)) \in Nat /\ Len(stuff(p)) <= 2 * Len(p)
  <2>1. Len(stuff(p)) \in Len(p)..(2 * Len(p))
    BY StuffType
  <2> QED
    BY <1>1, <2>1
<1>3. a \in Nat /\ a <= 65535
  BY <1>1, SMT
<1>4. b \in Nat /\ b <= 65535
  BY <1>1, SMT
<1>5. c \in Nat /\ c <= 65535
  BY <1>1, <1>2, SMT
<1> HIDE DEF a, b, c
<1>6. a \in U16s /\ b \in U16s /\ c \in U16s
  BY <1>3, <1>4, <1>5, InU16
<1> QED
  BY <1>6 DEF a, b, c

LEMMA Addresses6 ==
    LocalBt \in Addresses /\ DevBt \in Addresses /\ [i \in 1..6 |-> 255] \in Addresses
    /\ Zeros(6) \in Addresses /\ <<1, 0, 0, 0, 0, 0>> \in Addresses
<1>1. \A w \in [1..6 -> 0..255] : w \in Addresses
  <2> DEFINE n == 6
  <2>1. n \in Nat
    OBVIOUS
  <2> HIDE DEF n
  <2>2. \A w \in [1..n -> 0..255] : w \in Bytes /\ Len(w) = n
    BY <2>1, FixedLength
  <2> QED
    BY <2>2 DEF Addresses, n
<1>2. LocalBt \in [1..6 -> 0..255] /\ DevBt \in [1..6 -> 0..255]
  BY DEF LocalBt, DevBt
<1>3. [i \in 1..6 |-> 255] \in [1..6 -> 0..255] /\ Zeros(6) \in [1..6 -> 0..255]
  BY DEF Zeros
<1>4. <<1, 0, 0, 0, 0, 0>> \in [1..6 -> 0..255]
  OBVIOUS
<1> QED
  BY <1>1, <1>2, <1>3, <1>4

LEMMA L2Framed ==
    ASSUME NEW body \in Bytes, Signed(body), Len(body) <= 100
    PROVE  l2_frame(body) \in Frames /\ Buildable(l2_frame(body))
<1> DEFINE f == l2_frame(body)
           n == 100
<1>1. f.kind = "L2Wrapped" /\ f.payload = body
  BY DEF l2_frame, Frame
<1>2. 1 \in U16s
  BY InU16
<1>3. f \in Frames
  BY <1>2, Addresses6 DEF l2_frame, Frame, Frames
<1>4. n \in Nat /\ Len(body) <= n /\ 2 * n + 24 <= 65535
  BY SMT
<1> HIDE DEF n
<1>5. Len(Stuffed(body)) + 20 \in U16s
  BY <1>4, ShortFits
<1> QED
  BY <1>1, <1>3, <1>5 DEF Buildable

Heard(to, from, id, cmd, args) ==
    [to |-> to, from |-> from, pkt_id |-> id, cmd |-> cmd, args |-> args]

\* A packet whose longwords are counted right is heard as it was meant.
LEMMA MessageHeard ==
    ASSUME NEW h \in L2Headers, NEW cmd \in Words4, NEW args \in Bytes, Len(args) <= 60,
           4 + 4 * h.longwords = 32 + Len(args)
    PROVE  /\ encode_l2(h, cmd \o args) \in Bytes /\ Signed(encode_l2(h, cmd \o args))
           /\ Len(encode_l2(h, cmd \o args)) <= 100
           /\ Hears(build(l2_frame(encode_l2(h, cmd \o args))))
                = Heard(LE16(h.dst_susy_id) \o h.dst_serial, h.app_serial, h.pkt_id, cmd, args)
<1> DEFINE body == cmd \o args
           p == encode_l2(h, body)
           f == l2_frame(p)
           n == Len(args)
<1>1. cmd \in Bytes /\ Len(cmd) = 4 /\ n \in Nat
  BY DEF Words4, Bytes
<1>2. body \in Bytes /\ Joined(body, cmd, 4, args, n) /\ Len(body) = 4 + n
  <2>1. Joined(body, cmd, 4, args, n)
    BY <1>1, Join
  <2> QED
    BY <2>1 DEF Joined
<1>3. Slice(body, 0, 4) = cmd /\ Drop(body, 4) = args
  <2>1. Slice(body, 0, Len(cmd)) = cmd /\ Drop(body, Len(cmd)) = args
    BY <1>1, SliceWhole, DropFirst
  <2> QED
    BY <1>1, <2>1
<1> HIDE DEF body
<1>4. Encoded(p, h, body)
  BY <1>2, PacketShape
<1> HIDE DEF p
<1>5. p \in Bytes /\ Signed(p) /\ Len(p) = 32 + n
  <2>1. p \in Bytes /\ Signed(p) /\ Len(p) = 28 + Len(body)
    BY <1>2, <1>4, EncodedSigned
  <2> QED
    BY <1>1, <1>2, <2>1
<1>6. Len(p) <= 100
  BY <1>1, <1>5
<1>7. PppReceive(build(f)) = p
  <2>1. f \in Frames /\ Buildable(f)
    BY <1>5, <1>6, L2Framed
  <2>2. f.kind = "L2Wrapped" /\ f.payload = p
    BY DEF l2_frame, Frame
  <2> HIDE DEF f
  <2> QED
    BY <2>1, <2>2, Received
<1> HIDE DEF f
<1>8. p[5] = h.longwords
  <2> DEFINE x == <<h.longwords, h.ctrl>>
  <2>1. x[1] = h.longwords /\ 1 \in 1..Len(x)
    OBVIOUS
  <2>2. Piece(p, 4, x)
    BY <1>4 DEF Encoded
  <2> HIDE DEF x
  <2>3. p[4 + 1] = x[1]
    BY <1>5, <2>1, <2>2, PieceBytes
  <2> QED
    BY <2>1, <2>3
<1>9. h.pkt_id \in PacketIds /\ Len(h.dst_serial) = 4 /\ Len(h.app_serial) = 4 /\ h.dst_susy_id \in U16s
  BY DEF L2Headers, Words4
<1>10. U16(p, 26) = h.pkt_id + APP_PACKET_BIT /\ h.pkt_id \in Nat /\ APP_PACKET_BIT \in Nat
  <2>1. SetAppBit(h.pkt_id) \in U16s /\ Piece(p, 26, LE16(SetAppBit(h.pkt_id)))
    BY <1>4, <1>9, AppBit DEF Encoded
  <2>2. U16(p, 26) = SetAppBit(h.pkt_id)
    BY <1>5, <2>1, PieceU16
  <2> QED
    BY <1>9, <2>2, AppBit
<1>11. Slice(p, 6, 12) = LE16(h.dst_susy_id) \o h.dst_serial
  <2> DEFINE x == LE16(h.dst_susy_id)
             y == h.dst_serial
             a == 6
             b == 8
  <2>0. U16s \subseteq Nat
    BY U16Max DEF U16s
  <2>1. x \in Bytes /\ Len(x) = 2
    BY <1>9, <2>0, LE16Type
  <2>2. Piece(p, a, x) /\ Piece(p, b, y)
    BY <1>4 DEF Encoded
  <2>3. y \in Bytes /\ Len(y) = 4 /\ b = a + Len(x)
    BY <1>9, <2>1, <2>2 DEF Piece
  <2> HIDE DEF x, y, a, b
  <2>4. Piece(p, a, x \o y)
    BY <1>5, <2>2, <2>3, PieceTwo
  <2> DEFINE z == x \o y
  <2>5. Len(z) = Len(x) + Len(y)
    BY <2>1, <2>3, CatElements
  <2>6. Slice(p, a, a + Len(z)) = z
    BY <2>4 DEF Piece
  <2> HIDE DEF z
  <2>7. a + Len(z) = 12
    BY <2>1, <2>3, <2>5 DEF a
  <2> QED
    BY <2>6, <2>7 DEF x, y, z, a
<1>12. Slice(p, 16, 20) = h.app_serial /\ Slice(p, 0, 4) = BT_L2_SIGNATURE
  BY <1>4, <1>5, <1>9 DEF Encoded, Piece, Signed
<1>13. Slice(p, 28, 32) = cmd /\ Drop(p, 32) = args
  <2> DEFINE k == 28
  <2>1. Drop(p, k) = body
    <3>1. Slice(p, 28, 28 + Len(body)) = body
      BY <1>4 DEF Encoded, Piece
    <3>2. 28 + Len(body) = Len(p)
      BY <1>1, <1>2, <1>5
    <3> QED
      BY <3>1, <3>2 DEF Slice, Drop
  <2>2. k \in Nat /\ k <= Len(p)
    BY <1>1, <1>5
  <2> HIDE DEF k
  <2>3. /\ Slice(p, 0, k) \in Bytes /\ p = Slice(p, 0, k) \o body /\ Len(Slice(p, 0, k)) = k
    BY <1>5, <2>1, <2>2, SplitAt
  <2> DEFINE a == Slice(p, 0, k)
             ac == a \o cmd
             z == 0
             w == 4
  <2> HIDE DEF a
  <2>4. a \in Bytes /\ Len(a) = k /\ p = a \o body
    BY <2>3 DEF a
  <2>5. z \in Nat /\ w \in Nat /\ z <= w /\ w <= Len(body)
    BY <1>1, <1>2
  <2>6. Slice(body, z, w) = cmd
    BY <1>3
  <2>7. k + z = 28 /\ k + w = 32
    BY DEF k
  <2> HIDE DEF z, w
  <2>8. Slice(a \o body, Len(a) + z, Len(a) + w) = Slice(body, z, w)
    BY <1>2, <2>4, <2>5, SliceSecond
  <2>9. ac \in Bytes /\ Len(ac) = Len(a) + Len(cmd)
    BY <1>1, <2>4, CatElements
  <2>10. p = ac \o args
    BY <1>1, <2>4, CatAssociates DEF body
  <2> HIDE DEF ac
  <2>11. Drop(ac \o args, Len(ac)) = args
    BY <2>9, DropFirst
  <2>12. Len(ac) = 32
    BY <1>1, <2>4, <2>9 DEF k
  <2> QED
    BY <2>4, <2>6, <2>7, <2>8, <2>10, <2>11, <2>12
<1>14. Len(p) >= 32 /\ 4 + 4 * p[5] = Len(p) /\ U16(p, 26) >= APP_PACKET_BIT
       /\ U16(p, 26) - APP_PACKET_BIT = h.pkt_id
  BY <1>1, <1>5, <1>8, <1>10
<1>15. Hears(build(f)) = Heard(LE16(h.dst_susy_id) \o h.dst_serial, h.app_serial, h.pkt_id, cmd, args)
  BY <1>7, <1>11, <1>12, <1>13, <1>14 DEF Hears, Heard
<1> QED
  BY <1>5, <1>6, <1>15 DEF f, p, body

LEMMA Quad ==
    ASSUME NEW w \in Words4, NEW a, NEW b, NEW c, NEW d,
           w[1] = a, w[2] = b, w[3] = c, w[4] = d
    PROVE  w = <<a, b, c, d>>
<1> DEFINE t == <<a, b, c, d>>
<1>1. w \in Seq(U8) /\ Len(w) = 4
  BY DEF Words4, Bytes
<1>2. \A i \in 1..Len(w) : w[i] \in U8
  BY <1>1, ElementOfSeq
<1>3. a \in U8 /\ b \in U8 /\ c \in U8 /\ d \in U8
  <2>1. 1 \in 1..Len(w) /\ 2 \in 1..Len(w) /\ 3 \in 1..Len(w) /\ 4 \in 1..Len(w)
    BY <1>1
  <2> QED
    BY <1>2, <2>1
<1>4. t \in Seq(U8) /\ Len(t) = 4 /\ t[1] = a /\ t[2] = b /\ t[3] = c /\ t[4] = d
  BY <1>3
<1> HIDE DEF t
<1>5. \A i \in 1..Len(w) : w[i] = t[i]
  <2> TAKE i \in 1..Len(w)
  <2>1. i = 1 \/ i = 2 \/ i = 3 \/ i = 4
    BY <1>1
  <2> QED
    BY <1>4, <2>1
<1> QED
  BY <1>1, <1>4, <1>5, SeqEqual DEF t

LEMMA LE32Value ==
    ASSUME NEW a \in U8, NEW b \in U8, NEW c \in U8, NEW d \in U8
    PROVE  LE32(a + 256 * b + 65536 * (c + 256 * d)) = <<a, b, c, d>>
<1> DEFINE l == a + 256 * b
           h == c + 256 * d
           n == l + 65536 * h
           x == LE16(l)
           y == LE16(h)
           w == LE32(n)
<1>1. /\ l \in U16s /\ l % 256 = a /\ l \div 256 = b
      /\ h \in U16s /\ h % 256 = c /\ h \div 256 = d
  BY U16FromHalves
<1>2. (l \div 256) % 256 = l \div 256 /\ (h \div 256) % 256 = h \div 256
  BY <1>1, U16Halves
<1>3. l \in Nat /\ l < 65536 /\ h \in Nat
  BY SMT DEF U8
<1> HIDE DEF l, h
<1>4. n % 65536 = l /\ n \div 65536 = h /\ n \in Nat
  BY <1>3, SMT
<1>5. x \in Bytes /\ Len(x) = 2 /\ x[1] = a /\ x[2] = b
  BY <1>1, <1>2, <1>3, LE16Type
<1>6. y \in Bytes /\ Len(y) = 2 /\ y[1] = c /\ y[2] = d
  BY <1>1, <1>2, <1>3, LE16Type
<1> HIDE DEF n
<1>7. w = x \o y
  BY <1>4 DEF LE32
<1>8. w \in Words4
  BY <1>4, LE32Type
<1> HIDE DEF w, x, y
<1>9. Joined(x \o y, x, 2, y, 2)
  BY <1>5, <1>6, Join
<1>10. Joined(w, x, 2, y, 2)
  BY <1>7, <1>9
<1>11. w[1] = a /\ w[2] = b /\ w[2 + 1] = c /\ w[2 + 2] = d
  <2>1. 1 \in 1..2 /\ 2 \in 1..2
    OBVIOUS
  <2> QED
    BY <1>5, <1>6, <1>10, <2>1 DEF Joined
<1>12. w = <<a, b, c, d>>
  BY <1>8, <1>11, Quad
<1> QED
  BY <1>12 DEF n, l, h, w

Value(n, a, b, c, d) ==
    /\ a \in U8 /\ b \in U8 /\ c \in U8 /\ d \in U8
    /\ n = a + 256 * b + 65536 * (c + 256 * d)

LEMMA LE32Is ==
    ASSUME NEW n, NEW a, NEW b, NEW c, NEW d, Value(n, a, b, c, d)
    PROVE  LE32(n) = <<a, b, c, d>>
BY LE32Value DEF Value

Commands == {\h51000200, \h53800200, \h54000200, \h52000200, \h51800200, \h58000200}

\* The bytes of a command.
CommandBytes(n) ==
    CASE n = \h51000200 -> <<0, 2, 0, \h51>>
      [] n = \h53800200 -> <<0, 2, \h80, \h53>>
      [] n = \h54000200 -> <<0, 2, 0, \h54>>
      [] n = \h52000200 -> <<0, 2, 0, \h52>>
      [] n = \h51800200 -> <<0, 2, \h80, \h51>>
      [] n = \h58000200 -> <<0, 2, 0, \h58>>

LEMMA QueryOpcodes ==
    ASSUME NEW kind \in QueryKind
    PROVE  /\ opcode(kind)[1] \in Commands /\ opcode(kind)[2] \in Nat /\ opcode(kind)[3] \in Nat
           /\ CommandBytes(opcode(kind)[1]) = CommandOf(kind)
<1> DEFINE o == opcode(kind)
<1>1. CASE kind = "SpotAcTotalPower"
  <2>1. o[1] = \h51000200 /\ o[2] = \h263F00 /\ o[3] = \h263FFF
    BY <1>1, SMT DEF opcode
  <2>2. CommandOf(kind) = <<0, 2, 0, \h51>>
    BY <1>1, SMT DEF CommandOf
  <2>3. CommandBytes(\h51000200) = <<0, 2, 0, \h51>>
    BY SMT DEF CommandBytes
  <2> QED
    BY <2>1, <2>2, <2>3, SMT DEF Commands
<1>2. CASE kind = "SpotAcPower"
  <2>1. o[1] = \h51000200 /\ o[2] = \h464000 /\ o[3] = \h4642FF
    BY <1>2, SMT DEF opcode
  <2>2. CommandOf(kind) = <<0, 2, 0, \h51>>
    BY <1>2, SMT DEF CommandOf
  <2>3. CommandBytes(\h51000200) = <<0, 2, 0, \h51>>
    BY SMT DEF CommandBytes
  <2> QED
    BY <2>1, <2>2, <2>3, SMT DEF Commands
<1>3. CASE kind = "SpotAcVoltage"
  <2>1. o[1] = \h51000200 /\ o[2] = \h464800 /\ o[3] = \h4655FF
    BY <1>3, SMT DEF opcode
  <2>2. CommandOf(kind) = <<0, 2, 0, \h51>>
    BY <1>3, SMT DEF CommandOf
  <2>3. CommandBytes(\h51000200) = <<0, 2, 0, \h51>>
    BY SMT DEF CommandBytes
  <2> QED
    BY <2>1, <2>2, <2>3, SMT DEF Commands
<1>4. CASE kind = "SpotGridFrequency"
  <2>1. o[1] = \h51000200 /\ o[2] = \h465700 /\ o[3] = \h4657FF
    BY <1>4, SMT DEF opcode
  <2>2. CommandOf(kind) = <<0, 2, 0, \h51>>
    BY <1>4, SMT DEF CommandOf
  <2>3. CommandBytes(\h51000200) = <<0, 2, 0, \h51>>
    BY SMT DEF CommandBytes
  <2> QED
    BY <2>1, <2>2, <2>3, SMT DEF Commands
<1>5. CASE kind = "SpotDcPower"
  <2>1. o[1] = \h53800200 /\ o[2] = \h251E00 /\ o[3] = \h251EFF
    BY <1>5, SMT DEF opcode
  <2>2. CommandOf(kind) = <<0, 2, \h80, \h53>>
    BY <1>5, SMT DEF CommandOf
  <2>3. CommandBytes(\h53800200) = <<0, 2, \h80, \h53>>
    BY SMT DEF CommandBytes
  <2> QED
    BY <2>1, <2>2, <2>3, SMT DEF Commands
<1>6. CASE kind = "SpotDcVoltage"
  <2>1. o[1] = \h53800200 /\ o[2] = \h451F00 /\ o[3] = \h4521FF
    BY <1>6, SMT DEF opcode
  <2>2. CommandOf(kind) = <<0, 2, \h80, \h53>>
    BY <1>6, SMT DEF CommandOf
  <2>3. CommandBytes(\h53800200) = <<0, 2, \h80, \h53>>
    BY SMT DEF CommandBytes
  <2> QED
    BY <2>1, <2>2, <2>3, SMT DEF Commands
<1>7. CASE kind = "EnergyProduction"
  <2>1. o[1] = \h54000200 /\ o[2] = \h260100 /\ o[3] = \h2622FF
    BY <1>7, SMT DEF opcode
  <2>2. CommandOf(kind) = <<0, 2, 0, \h54>>
    BY <1>7, SMT DEF CommandOf
  <2>3. CommandBytes(\h54000200) = <<0, 2, 0, \h54>>
    BY SMT DEF CommandBytes
  <2> QED
    BY <2>1, <2>2, <2>3, SMT DEF Commands
<1>8. CASE kind = "OperationTime"
  <2>1. o[1] = \h54000200 /\ o[2] = \h462E00 /\ o[3] = \h462FFF
    BY <1>8, SMT DEF opcode
  <2>2. CommandOf(kind) = <<0, 2, 0, \h54>>
    BY <1>8, SMT DEF CommandOf
  <2>3. CommandBytes(\h54000200) = <<0, 2, 0, \h54>>
    BY SMT DEF CommandBytes
  <2> QED
    BY <2>1, <2>2, <2>3, SMT DEF Commands
<1>9. CASE kind = "InverterTemperature"
  <2>1. o[1] = \h52000200 /\ o[2] = \h237700 /\ o[3] = \h2377FF
    BY <1>9, SMT DEF opcode
  <2>2. CommandOf(kind) = <<0, 2, 0, \h52>>
    BY <1>9, SMT DEF CommandOf
  <2>3. CommandBytes(\h52000200) = <<0, 2, 0, \h52>>
    BY SMT DEF CommandBytes
  <2> QED
    BY <2>1, <2>2, <2>3, SMT DEF Commands
<1>10. CASE kind = "DeviceStatus"
  <2>1. o[1] = \h51800200 /\ o[2] = \h214800 /\ o[3] = \h2148FF
    BY <1>10, SMT DEF opcode
  <2>2. CommandOf(kind) = <<0, 2, \h80, \h51>>
    BY <1>10, SMT DEF CommandOf
  <2>3. CommandBytes(\h51800200) = <<0, 2, \h80, \h51>>
    BY SMT DEF CommandBytes
  <2> QED
    BY <2>1, <2>2, <2>3, SMT DEF Commands
<1>11. CASE kind = "GridRelayStatus"
  <2>1. o[1] = \h51800200 /\ o[2] = \h416400 /\ o[3] = \h4164FF
    BY <1>11, SMT DEF opcode
  <2>2. CommandOf(kind) = <<0, 2, \h80, \h51>>
    BY <1>11, SMT DEF CommandOf
  <2>3. CommandBytes(\h51800200) = <<0, 2, \h80, \h51>>
    BY SMT DEF CommandBytes
  <2> QED
    BY <2>1, <2>2, <2>3, SMT DEF Commands
<1>12. CASE kind = "TypeLabel"
  <2>1. o[1] = \h58000200 /\ o[2] = \h821E00 /\ o[3] = \h8220FF
    BY <1>12, SMT DEF opcode
  <2>2. CommandOf(kind) = <<0, 2, 0, \h58>>
    BY <1>12, SMT DEF CommandOf
  <2>3. CommandBytes(\h58000200) = <<0, 2, 0, \h58>>
    BY SMT DEF CommandBytes
  <2> QED
    BY <2>1, <2>2, <2>3, SMT DEF Commands
<1>13. CASE kind = "SoftwareVersion"
  <2>1. o[1] = \h58000200 /\ o[2] = \h823400 /\ o[3] = \h8234FF
    BY <1>13, SMT DEF opcode
  <2>2. CommandOf(kind) = <<0, 2, 0, \h58>>
    BY <1>13, SMT DEF CommandOf
  <2>3. CommandBytes(\h58000200) = <<0, 2, 0, \h58>>
    BY SMT DEF CommandBytes
  <2> QED
    BY <2>1, <2>2, <2>3, SMT DEF Commands
<1>14. CASE kind = "BatteryChargeStatus"
  <2>1. o[1] = \h51000200 /\ o[2] = \h295A00 /\ o[3] = \h295AFF
    BY <1>14, SMT DEF opcode
  <2>2. CommandOf(kind) = <<0, 2, 0, \h51>>
    BY <1>14, SMT DEF CommandOf
  <2>3. CommandBytes(\h51000200) = <<0, 2, 0, \h51>>
    BY SMT DEF CommandBytes
  <2> QED
    BY <2>1, <2>2, <2>3, SMT DEF Commands
<1>15. CASE kind = "BatteryInfo"
  <2>1. o[1] = \h51000200 /\ o[2] = \h491E00 /\ o[3] = \h495DFF
    BY <1>15, SMT DEF opcode
  <2>2. CommandOf(kind) = <<0, 2, 0, \h51>>
    BY <1>15, SMT DEF CommandOf
  <2>3. CommandBytes(\h51000200) = <<0, 2, 0, \h51>>
    BY SMT DEF CommandBytes
  <2> QED
    BY <2>1, <2>2, <2>3, SMT DEF Commands
<1>16. CASE kind = "MeteringGridTotalW"
  <2>1. o[1] = \h51000200 /\ o[2] = \h463600 /\ o[3] = \h463669
    BY <1>16, SMT DEF opcode
  <2>2. CommandOf(kind) = <<0, 2, 0, \h51>>
    BY <1>16, SMT DEF CommandOf
  <2>3. CommandBytes(\h51000200) = <<0, 2, 0, \h51>>
    BY SMT DEF CommandBytes
  <2> QED
    BY <2>1, <2>2, <2>3, SMT DEF Commands
<1>17. CASE kind = "SpotCosPhi"
  <2>1. o[1] = \h51000200 /\ o[2] = \h237400 /\ o[3] = \h4748FF
    BY <1>17, SMT DEF opcode
  <2>2. CommandOf(kind) = <<0, 2, 0, \h51>>
    BY <1>17, SMT DEF CommandOf
  <2>3. CommandBytes(\h51000200) = <<0, 2, 0, \h51>>
    BY SMT DEF CommandBytes
  <2> QED
    BY <2>1, <2>2, <2>3, SMT DEF Commands
<1>18. CASE kind = "MaxFeedInPower"
  <2>1. o[1] = \h51000200 /\ o[2] = \h411F00 /\ o[3] = \h411F19
    BY <1>18, SMT DEF opcode
  <2>2. CommandOf(kind) = <<0, 2, 0, \h51>>
    BY <1>18, SMT DEF CommandOf
  <2>3. CommandBytes(\h51000200) = <<0, 2, 0, \h51>>
    BY SMT DEF CommandBytes
  <2> QED
    BY <2>1, <2>2, <2>3, SMT DEF Commands
<1>19. CASE kind = "NominalAcPower"
  <2>1. o[1] = \h51000200 /\ o[2] = \h411E00 /\ o[3] = \h411E19
    BY <1>19, SMT DEF opcode
  <2>2. CommandOf(kind) = <<0, 2, 0, \h51>>
    BY <1>19, SMT DEF CommandOf
  <2>3. CommandBytes(\h51000200) = <<0, 2, 0, \h51>>
    BY SMT DEF CommandBytes
  <2> QED
    BY <2>1, <2>2, <2>3, SMT DEF Commands
<1> QED
  BY <1>1, <1>2, <1>3, <1>4, <1>5, <1>6, <1>7, <1>8, <1>9, <1>10, <1>11, <1>12, <1>13, <1>14, <1>15, <1>16, <1>17, <1>18, <1>19 DEF QueryKind

LEMMA QueryCommand ==
    ASSUME NEW n \in Commands
    PROVE  n \in Nat /\ LE32(n) = CommandBytes(n)
<1>1. n \in Nat
  BY SMT DEF Commands
<1>2. CASE n = \h51000200
  <2>1. Value(n, 0, 2, 0, \h51)
    BY <1>2, SMT DEF Value, U8
  <2>2. LE32(n) = <<0, 2, 0, \h51>>
    BY <2>1, LE32Is
  <2>3. CommandBytes(n) = <<0, 2, 0, \h51>>
    BY <1>2, SMT DEF CommandBytes
  <2> QED
    BY <1>1, <2>2, <2>3
<1>3. CASE n = \h53800200
  <2>1. Value(n, 0, 2, \h80, \h53)
    BY <1>3, SMT DEF Value, U8
  <2>2. LE32(n) = <<0, 2, \h80, \h53>>
    BY <2>1, LE32Is
  <2>3. CommandBytes(n) = <<0, 2, \h80, \h53>>
    BY <1>3, SMT DEF CommandBytes
  <2> QED
    BY <1>1, <2>2, <2>3
<1>4. CASE n = \h54000200
  <2>1. Value(n, 0, 2, 0, \h54)
    BY <1>4, SMT DEF Value, U8
  <2>2. LE32(n) = <<0, 2, 0, \h54>>
    BY <2>1, LE32Is
  <2>3. CommandBytes(n) = <<0, 2, 0, \h54>>
    BY <1>4, SMT DEF CommandBytes
  <2> QED
    BY <1>1, <2>2, <2>3
<1>5. CASE n = \h52000200
  <2>1. Value(n, 0, 2, 0, \h52)
    BY <1>5, SMT DEF Value, U8
  <2>2. LE32(n) = <<0, 2, 0, \h52>>
    BY <2>1, LE32Is
  <2>3. CommandBytes(n) = <<0, 2, 0, \h52>>
    BY <1>5, SMT DEF CommandBytes
  <2> QED
    BY <1>1, <2>2, <2>3
<1>6. CASE n = \h51800200
  <2>1. Value(n, 0, 2, \h80, \h51)
    BY <1>6, SMT DEF Value, U8
  <2>2. LE32(n) = <<0, 2, \h80, \h51>>
    BY <2>1, LE32Is
  <2>3. CommandBytes(n) = <<0, 2, \h80, \h51>>
    BY <1>6, SMT DEF CommandBytes
  <2> QED
    BY <1>1, <2>2, <2>3
<1>7. CASE n = \h58000200
  <2>1. Value(n, 0, 2, 0, \h58)
    BY <1>7, SMT DEF Value, U8
  <2>2. LE32(n) = <<0, 2, 0, \h58>>
    BY <2>1, LE32Is
  <2>3. CommandBytes(n) = <<0, 2, 0, \h58>>
    BY <1>7, SMT DEF CommandBytes
  <2> QED
    BY <1>1, <2>2, <2>3
<1> QED
  BY <1>2, <1>3, <1>4, <1>5, <1>6, <1>7, SMT DEF Commands

HeaderArgs(longwords, ctrl, ctrl2, susy, serial, id, app) ==
    /\ longwords \in U8 /\ ctrl \in U8 /\ ctrl2 \in U16s /\ susy \in U16s
    /\ serial \in Words4 /\ id \in PacketIds /\ app \in Words4
HeaderFields(h, longwords, susy, serial, id, app) ==
    /\ h \in L2Headers /\ h.longwords = longwords /\ h.dst_susy_id = susy
    /\ h.dst_serial = serial /\ h.app_serial = app /\ h.pkt_id = id

LEMMA L2HeaderType ==
    ASSUME NEW longwords, NEW ctrl, NEW ctrl2, NEW susy, NEW serial, NEW id, NEW app,
           HeaderArgs(longwords, ctrl, ctrl2, susy, serial, id, app)
    PROVE  HeaderFields(L2Header(longwords, ctrl, ctrl2, susy, serial, id, app),
                        longwords, susy, serial, id, app)
<1>1. 0 \in U16s /\ APP_SUSY_ID \in U16s
  BY InU16 DEF APP_SUSY_ID
<1> QED
  BY <1>1 DEF L2Header, L2Headers, HeaderArgs, HeaderFields

\* The packet of a request: header, command and arguments.
Message(req, h, cmd, args) ==
    /\ h \in L2Headers /\ cmd \in Words4 /\ args \in Bytes /\ Len(args) <= 60
    /\ 4 + 4 * h.longwords = 32 + Len(args)
    /\ L2Body(req) = encode_l2(h, cmd \o args)
    /\ h.app_serial = AppSerial /\ h.pkt_id = req.pkt_id

ForAny(h) == h.dst_susy_id = ANY_SUSY_ID /\ h.dst_serial = ANY_SERIAL
ForDevice(h) == h.dst_susy_id = DevSusy /\ h.dst_serial = DevSerial

LEMMA RequestCases ==
    ASSUME NEW req \in Requests
    PROVE  \/ req.name = "ver" /\ req = [name |-> "ver"]
           \/ req.name = "echo" /\ req.net_id \in {1, \h7E}
           \/ req.name \in {"init", "logoff"} /\ req.pkt_id \in PktIds
           \/ /\ req.name = "logon" /\ req.pkt_id \in PktIds /\ req.pwd \in Passwords
              /\ req.group \in {"User", "Installer"}
           \/ req.name = "query" /\ req.pkt_id \in PktIds /\ req.kind \in QueryKind
           \/ req.name = "event_log" /\ req.pkt_id \in PktIds
<1>1. CASE req \in {[name |-> "ver"]}
  BY <1>1
<1>2. CASE req \in [name : {"echo"}, net_id : {1, \h7E}]
  BY <1>2
<1>3. CASE req \in [name : {"init", "logoff"}, pkt_id : PktIds]
  BY <1>3
<1>4. CASE req \in [name : {"logon"}, pkt_id : PktIds, pwd : Passwords, group : {"User", "Installer"}]
  BY <1>4
<1>5. CASE req \in [name : {"query"}, pkt_id : PktIds, kind : QueryKind]
  BY <1>5
<1>6. CASE req \in [name : {"event_log"}, pkt_id : PktIds]
  BY <1>6
<1> QED
  BY <1>1, <1>2, <1>3, <1>4, <1>5, <1>6 DEF Requests

LEMMA AnyAddress ==
    /\ ANY_SUSY_ID \in U16s /\ ANY_SERIAL \in Words4 /\ DevSusy \in U16s
    /\ LE16(ANY_SUSY_ID) \o ANY_SERIAL = [i \in 1..6 |-> 255]
<1>1. ANY_SUSY_ID \in U16s /\ DevSusy \in U16s
  BY InU16, SMT DEF ANY_SUSY_ID, DevSusy
<1>2. ANY_SERIAL \in Words4
  BY DEF ANY_SERIAL, Words4, Bytes, U8
<1>3. LE16(ANY_SUSY_ID) = <<255, 255>>
  BY SMT DEF LE16, ANY_SUSY_ID
<1>4. <<255, 255>> \o ANY_SERIAL = [i \in 1..6 |-> 255]
  BY DEF ANY_SERIAL
<1> QED
  BY <1>1, <1>2, <1>3, <1>4

LEMMA FourBytes ==
    ASSUME NEW a \in U8, NEW b \in U8, NEW c \in U8, NEW d \in U8
    PROVE  <<a, b, c, d>> \in Words4 /\ <<a, b, c, d>> \in Bytes /\ Len(<<a, b, c, d>>) = 4
BY DEF Words4, Bytes

LEMMA BytesOfRequests ==
    /\ 0 \in U8 /\ 1 \in U8 /\ 2 \in U8 /\ 4 \in U8 /\ 8 \in U8 /\ 9 \in U8 /\ \h0C \in U8
    /\ \h0E \in U8 /\ \h10 \in U8 /\ \h11 \in U8 /\ \h24 \in U8 /\ \h25 \in U8 /\ \h2B \in U8
    /\ \h66 \in U8 /\ \h70 \in U8 /\ \h7D \in U8 /\ \h91 \in U8 /\ \hA0 \in U8 /\ \hE0 \in U8
    /\ \hFD \in U8 /\ \hFF \in U8
    /\ 0 \in U16s /\ \h100 \in U16s /\ \h300 \in U16s
<1>1. 0 \in U16s /\ \h100 \in U16s /\ \h300 \in U16s
  BY InU16
<1> QED
  BY <1>1 DEF U8

LEMMA InitMessage ==
    ASSUME NEW req, req.name = "init", req.pkt_id \in PktIds
    PROVE  \E h : Message(req, h, <<0, 2, 0, 0>>, Zeros(8)) /\ ForAny(h)
<1> DEFINE h == L2Header(\h09, \hA0, 0, ANY_SUSY_ID, ANY_SERIAL, req.pkt_id, AppSerial)
           cmd == <<0, 2, 0, 0>>
           args == Zeros(8)
<1>1. req.pkt_id \in PacketIds /\ AppSerial \in Words4
  BY Constants
<1>2. HeaderFields(h, \h09, ANY_SUSY_ID, ANY_SERIAL, req.pkt_id, AppSerial)
  <2>1. HeaderArgs(\h09, \hA0, 0, ANY_SUSY_ID, ANY_SERIAL, req.pkt_id, AppSerial)
    BY <1>1, AnyAddress, BytesOfRequests DEF HeaderArgs
  <2> QED
    BY <2>1, L2HeaderType
<1>3. LE32(\h200) = cmd
  <2>1. Value(\h200, 0, 2, 0, 0)
    BY SMT DEF Value, U8
  <2> QED
    BY <2>1, LE32Is
<1>4. args \in Bytes /\ Len(args) = 8 /\ cmd \in Words4
  BY ZerosType, FourBytes, BytesOfRequests
<1>5. L2Body(req) = encode_l2(h, cmd \o args)
  BY <1>3 DEF L2Body, build_init_body
<1> HIDE DEF h, args, cmd
<1>6. Message(req, h, cmd, args)
  BY <1>2, <1>4, <1>5 DEF Message, HeaderFields
<1> QED
  BY <1>2, <1>6 DEF ForAny, HeaderFields, cmd, args

LEMMA LogoffMessage ==
    ASSUME NEW req, req.name = "logoff", req.pkt_id \in PktIds
    PROVE  \E h : Message(req, h, <<\h0E, 1, \hFD, \hFF>>, <<\hFF, \hFF, \hFF, \hFF>>) /\ ForAny(h)
<1> DEFINE h == L2Header(\h08, \hA0, \h300, ANY_SUSY_ID, ANY_SERIAL, req.pkt_id, AppSerial)
           cmd == <<\h0E, 1, \hFD, \hFF>>
           args == <<\hFF, \hFF, \hFF, \hFF>>
<1>1. req.pkt_id \in PacketIds /\ AppSerial \in Words4
  BY Constants
<1>2. HeaderFields(h, \h08, ANY_SUSY_ID, ANY_SERIAL, req.pkt_id, AppSerial)
  <2>1. HeaderArgs(\h08, \hA0, \h300, ANY_SUSY_ID, ANY_SERIAL, req.pkt_id, AppSerial)
    BY <1>1, AnyAddress, BytesOfRequests DEF HeaderArgs
  <2> QED
    BY <2>1, L2HeaderType
<1>3. args \in Bytes /\ Len(args) = 4 /\ cmd \in Words4
  BY FourBytes, BytesOfRequests
<1>4. L2Body(req) = encode_l2(h, cmd \o args)
  BY DEF L2Body, build_logoff_body
<1> HIDE DEF h, args, cmd
<1>5. Message(req, h, cmd, args)
  BY <1>2, <1>3, <1>4 DEF Message, HeaderFields
<1> QED
  BY <1>2, <1>5 DEF ForAny, HeaderFields, cmd, args

LEMMA QueryMessage ==
    ASSUME NEW req, req.name = "query", req.pkt_id \in PktIds, req.kind \in QueryKind
    PROVE  LET o == opcode(req.kind)
           IN  \E h : /\ Message(req, h, LE32(o[1]), LE32(o[2]) \o LE32(o[3]))
                      /\ ForDevice(h)
<1> DEFINE h == L2Header(\h09, \hA0, 0, DevSusy, DevSerial, req.pkt_id, AppSerial)
           o == opcode(req.kind)
           cmd == LE32(o[1])
           first == LE32(o[2])
           last == LE32(o[3])
           args == first \o last
<1>1. req.pkt_id \in PacketIds /\ AppSerial \in Words4 /\ DevSerial \in Words4
  BY Constants
<1>2. HeaderFields(h, \h09, DevSusy, DevSerial, req.pkt_id, AppSerial)
  <2>1. HeaderArgs(\h09, \hA0, 0, DevSusy, DevSerial, req.pkt_id, AppSerial)
    BY <1>1, AnyAddress, BytesOfRequests DEF HeaderArgs
  <2> QED
    BY <2>1, L2HeaderType
<1>3. o[1] \in Nat /\ o[2] \in Nat /\ o[3] \in Nat
  BY QueryOpcodes, QueryCommand
<1>4. L2Body(req) = encode_l2(h, cmd \o first \o last)
  BY DEF L2Body, build_query_body
<1>5. cmd \in Words4 /\ first \in Words4 /\ last \in Words4
  BY <1>3, LE32Type
<1> HIDE DEF h, cmd, first, last
<1>6. /\ cmd \in Bytes /\ first \in Bytes /\ last \in Bytes /\ Len(first) = 4 /\ Len(last) = 4
  BY <1>5 DEF Words4
<1>7. args \in Bytes /\ Len(args) = 8
  <2>1. Len(args) = Len(first) + Len(last) /\ args \in Bytes
    BY <1>6, CatElements
  <2> QED
    BY <1>6, <2>1
<1>8. cmd \o first \o last = cmd \o args
  BY <1>6, CatAssociates
<1> HIDE DEF args
<1>9. Message(req, h, cmd, args)
  BY <1>2, <1>4, <1>5, <1>7, <1>8 DEF Message, HeaderFields
<1> QED
  BY <1>2, <1>9 DEF ForDevice, HeaderFields, args, cmd, first, last

LEMMA QueryArguments ==
    ASSUME NEW kind \in QueryKind
    PROVE  LET o == opcode(kind) IN
           /\ LE32(o[1]) = CommandOf(kind)
           /\ LE32(o[2]) \o LE32(o[3]) \in Bytes /\ Len(LE32(o[2]) \o LE32(o[3])) = 8
<1> DEFINE o == opcode(kind)
           first == LE32(o[2])
           last == LE32(o[3])
<1>1. o[1] \in Commands /\ o[2] \in Nat /\ o[3] \in Nat /\ CommandBytes(o[1]) = CommandOf(kind)
  BY QueryOpcodes
<1>2. LE32(o[1]) = CommandOf(kind)
  BY <1>1, QueryCommand
<1>3. first \in Bytes /\ last \in Bytes /\ Len(first) = 4 /\ Len(last) = 4
  BY <1>1, LE32Type DEF Words4
<1> HIDE DEF first, last
<1>4. first \o last \in Bytes /\ Len(first \o last) = Len(first) + Len(last)
  BY <1>3, CatElements
<1> QED
  BY <1>2, <1>3, <1>4 DEF first, last

LEMMA EventLogMessage ==
    ASSUME NEW req, req.name = "event_log", req.pkt_id \in PktIds
    PROVE  \E h : Message(req, h, <<0, 2, \h10, \h70>>, DayAgo \o Now) /\ ForDevice(h)
<1> DEFINE h == L2Header(\h09, \hE0, \h100, DevSusy, DevSerial, req.pkt_id, AppSerial)
           cmd == <<0, 2, \h10, \h70>>
           args == DayAgo \o Now
<1>1. req.pkt_id \in PacketIds /\ AppSerial \in Words4 /\ DevSerial \in Words4
  BY Constants
<1>2. HeaderFields(h, \h09, DevSusy, DevSerial, req.pkt_id, AppSerial)
  <2>1. HeaderArgs(\h09, \hE0, \h100, DevSusy, DevSerial, req.pkt_id, AppSerial)
    BY <1>1, AnyAddress, BytesOfRequests DEF HeaderArgs
  <2> QED
    BY <2>1, L2HeaderType
<1>3. LE32(\h70100200) = cmd
  <2>1. Value(\h70100200, 0, 2, \h10, \h70)
    BY SMT DEF Value, U8
  <2> QED
    BY <2>1, LE32Is, SMT
<1>4. L2Body(req) = encode_l2(h, cmd \o DayAgo \o Now)
  BY <1>3 DEF L2Body, build_event_log_body
<1>5. cmd \in Words4 /\ cmd \in Bytes
  BY FourBytes, BytesOfRequests
<1>6. DayAgo \in Bytes /\ Now \in Bytes /\ Len(DayAgo) = 4 /\ Len(Now) = 4
  BY FourBytes, BytesOfRequests DEF DayAgo, Now
<1> HIDE DEF h, cmd
<1>7. args \in Bytes /\ Len(args) = 8
  <2>1. Len(args) = Len(DayAgo) + Len(Now) /\ args \in Bytes
    BY <1>6, CatElements
  <2> QED
    BY <1>6, <2>1
<1>8. cmd \o DayAgo \o Now = cmd \o args
  BY <1>5, <1>6, CatAssociates
<1> HIDE DEF args
<1>9. Message(req, h, cmd, args)
  BY <1>2, <1>4, <1>5, <1>7, <1>8 DEF Message, HeaderFields
<1> QED
  BY <1>2, <1>9 DEF ForDevice, HeaderFields, args, cmd

\* The key the device takes off again, for both groups.
LEMMA KeyOff ==
    ASSUME NEW group, NEW x \in U8
    PROVE  /\ (x + Key(group)) % 256 \in U8 /\ Key(group) \in U8
           /\ (((x + Key(group)) % 256) + 256 - Key(group)) % 256 = x
           /\ (Key(group) + 256 - Key(group)) % 256 = 0
<1> DEFINE k == Key(group)
<1>1. k \in 0..255
  BY DEF Key
<1> HIDE DEF k
<1>2. (x + k) % 256 \in 0..255
  BY <1>1, SMT DEF U8
<1>3. (((x + k) % 256) + 256 - k) % 256 = x
  <2>1. x \in Int /\ 0 <= x /\ x < 256 /\ k \in Int /\ 0 <= k /\ k < 256
    BY <1>1 DEF U8
  <2>2. CASE x + k < 256
    <3>1. (x + k) % 256 = x + k
      BY <2>1, <2>2, SMT
    <3>2. (x + 256) % 256 = x
      BY <2>1, SMT
    <3>3. (x + k) + 256 - k = x + 256
      BY <2>1
    <3> QED
      BY <3>1, <3>2, <3>3
  <2>3. CASE x + k >= 256
    <3>1. (x + k) % 256 = x + k - 256
      BY <2>1, <2>3, SMT
    <3>2. x % 256 = x
      BY <2>1, SMT
    <3>3. (x + k - 256) + 256 - k = x
      BY <2>1
    <3> QED
      BY <3>1, <3>2, <3>3
  <2> QED
    BY <2>1, <2>2, <2>3
<1>4. (k + 256 - k) % 256 = 0
  BY <1>1, SMT
<1> QED
  BY <1>1, <1>2, <1>3, <1>4 DEF k, U8

\* The device takes the key off again.
KeyTakenOff(sent, key, pwd) ==
    [i \in 1..Len(sent) |-> (sent[i] + 256 - key) % 256]
      = [i \in 1..12 |-> IF i <= Len(pwd) THEN pwd[i] ELSE 0]

LEMMA PasswordBytes ==
    ASSUME NEW pwd \in Bytes, NEW group
    PROVE  /\ encode_password(pwd, group) \in Bytes /\ Len(encode_password(pwd, group)) = 12
           /\ KeyTakenOff(encode_password(pwd, group), Key(group), pwd)
<1> DEFINE k == Key(group)
           e == encode_password(pwd, group)
           n == 12
<1>1. Len(pwd) \in Nat /\ \A i \in 1..n : i <= Len(pwd) => i \in 1..Len(pwd)
  BY DEF Bytes
<1>2. \A i \in 1..Len(pwd) : pwd[i] \in U8
  BY ElementOfSeq DEF Bytes
<1>3. e = [i \in 1..n |-> IF i <= Len(pwd) THEN (pwd[i] + k) % 256 ELSE k]
  BY DEF encode_password
<1> HIDE DEF n, k, e
<1>4. \A x \in U8 : /\ (x + k) % 256 \in U8 /\ k \in U8 /\ (((x + k) % 256) + 256 - k) % 256 = x
                    /\ (k + 256 - k) % 256 = 0
  BY KeyOff DEF k
<1>5. k \in U8 /\ (k + 256 - k) % 256 = 0
  <2>1. 0 \in U8
    BY DEF U8
  <2> QED
    BY <1>4, <2>1
<1>6. \A i \in 1..n : /\ e[i] \in U8
                      /\ (e[i] + 256 - k) % 256 = IF i <= Len(pwd) THEN pwd[i] ELSE 0
  <2> TAKE i \in 1..n
  <2>1. CASE i <= Len(pwd)
    <3>1. pwd[i] \in U8 /\ e[i] = (pwd[i] + k) % 256
      BY <1>1, <1>2, <1>3, <2>1
    <3> QED
      BY <1>4, <2>1, <3>1
  <2>2. CASE ~ (i <= Len(pwd))
    <3>1. e[i] = k
      BY <1>3, <2>2
    <3> QED
      BY <1>5, <2>2, <3>1
  <2> QED
    BY <2>1, <2>2
<1>7. n \in Nat
  BY DEF n
<1>8. e \in [1..n -> U8]
  BY <1>3, <1>6
<1>9. e \in Bytes /\ Len(e) = n
  BY <1>7, <1>8, FixedLength DEF U8
<1>10. KeyTakenOff(e, k, pwd)
  BY <1>6, <1>9 DEF KeyTakenOff, n
<1> QED
  BY <1>9, <1>10 DEF k, e, n

\* Group, timeout and time of a logon.
LogonTerms(group) ==
    <<IF group = "Installer" THEN 10 ELSE 7, 0, 0, 0>> \o <<\h84, 3, 0, 0>> \o Now
    \o [i \in 1..4 |-> 0]

LEMMA LogonMessage ==
    ASSUME NEW req, req.name = "logon", req.pkt_id \in PktIds, req.pwd \in Passwords,
           req.group \in {"User", "Installer"}
    PROVE  \E h, args : /\ Message(req, h, <<\h0C, 4, \hFD, \hFF>>, args) /\ ForAny(h)
                        /\ Slice(args, 0, 16) = LogonTerms(req.group)
                        /\ Drop(args, 16) = encode_password(req.pwd, req.group)
<1> DEFINE h == L2Header(\h0E, \hA0, \h100, ANY_SUSY_ID, ANY_SERIAL, req.pkt_id, AppSerial)
           cmd == <<\h0C, \h04, \hFD, \hFF>>
           c == Code(req.group)
           t == LE32(\h384)
           z == Zeros(4)
           e == encode_password(req.pwd, req.group)
           a2 == c \o t
           a3 == a2 \o Now
           a4 == a3 \o z
           args == a4 \o e
<1>1. req.pkt_id \in PacketIds /\ AppSerial \in Words4
  BY Constants
<1>2. HeaderFields(h, \h0E, ANY_SUSY_ID, ANY_SERIAL, req.pkt_id, AppSerial)
  <2>1. HeaderArgs(\h0E, \hA0, \h100, ANY_SUSY_ID, ANY_SERIAL, req.pkt_id, AppSerial)
    BY <1>1, AnyAddress, BytesOfRequests DEF HeaderArgs
  <2> QED
    BY <2>1, L2HeaderType
<1>3. L2Body(req) = encode_l2(h, cmd \o c \o t \o Now \o z \o e)
  BY DEF L2Body, build_logon_body
<1>4. c \in Bytes /\ Len(c) = 4
  BY LE32Type DEF Code, Words4
<1>5. t \in Bytes /\ Len(t) = 4
  BY LE32Type DEF Words4
<1>6. Now \in Bytes /\ Len(Now) = 4 /\ cmd \in Bytes /\ cmd \in Words4
  BY FourBytes, BytesOfRequests DEF Now
<1>7. z \in Bytes /\ Len(z) = 4
  BY ZerosType
<1>8. e \in Bytes /\ Len(e) = 12
  <2>1. req.pwd \in Bytes
    BY WirePathAssumption DEF Bytes, U8
  <2> QED
    BY <2>1, PasswordBytes
<1>t. a4 = LogonTerms(req.group)
  <2>1. t = <<\h84, 3, 0, 0>>
    <3>1. Value(\h384, \h84, 3, 0, 0)
      BY SMT DEF Value, U8
    <3> QED
      BY <3>1, LE32Is
  <2>2. c = <<IF req.group = "Installer" THEN 10 ELSE 7, 0, 0, 0>>
    <3>1. Value(7, 7, 0, 0, 0) /\ Value(10, 10, 0, 0, 0)
      BY SMT DEF Value, U8
    <3>2. LE32(7) = <<7, 0, 0, 0>> /\ LE32(10) = <<10, 0, 0, 0>>
      BY <3>1, LE32Is
    <3>3. CASE req.group = "User"
      BY <3>2, <3>3 DEF Code
    <3>4. CASE req.group = "Installer"
      BY <3>2, <3>4 DEF Code
    <3> QED
      BY <3>3, <3>4
  <2>3. z = [i \in 1..4 |-> 0]
    BY DEF Zeros
  <2> HIDE DEF c, t, z
  <2> QED
    BY <2>1, <2>2, <2>3, Zenon DEF LogonTerms
<1> HIDE DEF h, cmd, c, t, z, e
<1>9. a2 \in Bytes /\ Len(a2) = 8 /\ cmd \o c \o t = cmd \o a2
  <2>1. a2 \in Bytes /\ Len(a2) = Len(c) + Len(t)
    BY <1>4, <1>5, CatElements
  <2>2. cmd \o c \o t = cmd \o a2
    BY <1>4, <1>5, <1>6, CatAssociates
  <2>3. Len(c) + Len(t) = 8
    BY <1>4, <1>5, <1>6
  <2> QED
    BY <2>1, <2>2, <2>3
<1> HIDE DEF a2
<1>10. a3 \in Bytes /\ Len(a3) = 12 /\ cmd \o a2 \o Now = cmd \o a3
  <2>1. a3 \in Bytes /\ Len(a3) = Len(a2) + Len(Now)
    BY <1>6, <1>9, CatElements
  <2>2. cmd \o a2 \o Now = cmd \o a3
    BY <1>6, <1>9, CatAssociates
  <2>3. Len(a2) + Len(Now) = 12
    BY <1>6, <1>9
  <2> QED
    BY <2>1, <2>2, <2>3
<1> HIDE DEF a3
<1>11. a4 \in Bytes /\ Len(a4) = 16 /\ cmd \o a3 \o z = cmd \o a4
  <2>1. a4 \in Bytes /\ Len(a4) = Len(a3) + Len(z)
    BY <1>7, <1>10, CatElements
  <2>2. cmd \o a3 \o z = cmd \o a4
    BY <1>6, <1>7, <1>10, CatAssociates
  <2>3. Len(a3) + Len(z) = 16
    BY <1>6, <1>7, <1>10
  <2> QED
    BY <2>1, <2>2, <2>3
<1> HIDE DEF a4
<1>12. args \in Bytes /\ Len(args) = 28 /\ cmd \o a4 \o e = cmd \o args
  <2>1. args \in Bytes /\ Len(args) = Len(a4) + Len(e)
    BY <1>8, <1>11, CatElements
  <2>2. cmd \o a4 \o e = cmd \o args
    BY <1>6, <1>8, <1>11, CatAssociates
  <2>3. Len(a4) + Len(e) = 28
    BY <1>6, <1>8, <1>11
  <2> QED
    BY <2>1, <2>2, <2>3
<1>13. Drop(args, 16) = e
  <2>1. Drop(a4 \o e, Len(a4)) = e
    BY <1>8, <1>11, DropFirst
  <2> QED
    BY <1>11, <2>1
<1>s. Slice(args, 0, 16) = a4
  <2> DEFINE m == 16
  <2>1. Piece(a4, 0, a4)
    BY <1>11 DEF Piece, Slice, Bytes
  <2>2. m = Len(a4) /\ a4 \in Bytes
    BY <1>11
  <2> HIDE DEF m
  <2>3. Grown(a4 \o e, a4, e, m, m + 12)
    BY <1>8, <2>2, Grow
  <2>4. Piece(a4 \o e, 0, a4)
    BY <2>1, <2>3 DEF Grown
  <2> QED
    BY <1>11, <2>4 DEF Piece
<1> HIDE DEF args
<1>14. L2Body(req) = encode_l2(h, cmd \o args)
  BY <1>3, <1>9, <1>10, <1>11, <1>12
<1>15. Message(req, h, cmd, args)
  BY <1>2, <1>6, <1>12, <1>14 DEF Message, HeaderFields
<1> QED
  BY <1>2, <1>13, <1>15, <1>s, <1>t DEF ForAny, HeaderFields, cmd, e

-----------------------------------------------------------------------------
(***************************************************************************)
(* RequestHeard and RoundTrip                                              *)
(***************************************************************************)
\* A packet that says what the request means.
Speaks(req, h, cmd, args) ==
    /\ Message(req, h, cmd, args)
    /\ req.name \in {"query", "event_log"} => ForDevice(h)
    /\ req.name \notin {"query", "event_log"} => ForAny(h)
    /\ req.name = "init" => cmd = <<0, 2, 0, 0>> /\ args = Zeros(8)
    /\ req.name = "logoff" => cmd = <<\h0E, 1, \hFD, \hFF>> /\ args = <<\hFF, \hFF, \hFF, \hFF>>
    /\ req.name = "logon" => /\ cmd = <<\h0C, 4, \hFD, \hFF>>
                             /\ Slice(args, 0, 16) = LogonTerms(req.group)
                             /\ Drop(args, 16) = encode_password(req.pwd, req.group)
    /\ req.name = "query" => cmd = CommandOf(req.kind) /\ Len(args) = 8
    /\ req.name = "event_log" => cmd = <<0, 2, \h10, \h70>> /\ args = DayAgo \o Now

LEMMA RequestSpeaks ==
    ASSUME NEW req \in Requests, req.name \notin {"ver", "echo"}
    PROVE  \E h, cmd, args : Speaks(req, h, cmd, args)
<1>1. CASE req.name = "init" /\ req.pkt_id \in PktIds
  BY <1>1, InitMessage DEF Speaks
<1>2. CASE req.name = "logoff" /\ req.pkt_id \in PktIds
  BY <1>2, LogoffMessage DEF Speaks
<1>3. CASE /\ req.name = "logon" /\ req.pkt_id \in PktIds /\ req.pwd \in Passwords
           /\ req.group \in {"User", "Installer"}
  BY <1>3, LogonMessage DEF Speaks
<1>4. CASE req.name = "query" /\ req.pkt_id \in PktIds /\ req.kind \in QueryKind
  <2> DEFINE o == opcode(req.kind)
             cmd == LE32(o[1])
             args == LE32(o[2]) \o LE32(o[3])
  <2>1. PICK h : Message(req, h, cmd, args) /\ ForDevice(h)
    BY <1>4, QueryMessage
  <2>2. cmd = CommandOf(req.kind) /\ Len(args) = 8
    BY <1>4, QueryArguments
  <2> HIDE DEF cmd, args
  <2>3. Speaks(req, h, cmd, args)
    BY <1>4, <2>1, <2>2 DEF Speaks
  <2> QED
    BY <2>3
<1>5. CASE req.name = "event_log" /\ req.pkt_id \in PktIds
  <2> DEFINE args == DayAgo \o Now
  <2>1. PICK h : Message(req, h, <<0, 2, \h10, \h70>>, args) /\ ForDevice(h)
    BY <1>5, EventLogMessage
  <2>2. Speaks(req, h, <<0, 2, \h10, \h70>>, args)
    <3> DEFINE cmd == <<0, 2, \h10, \h70>>
    <3>1. cmd = <<0, 2, \h10, \h70>> /\ args = DayAgo \o Now
      OBVIOUS
    <3> HIDE DEF args, cmd
    <3>2. Speaks(req, h, cmd, args)
      BY <1>5, <2>1, <3>1 DEF Speaks
    <3> QED
      BY <3>2 DEF cmd
  <2> HIDE DEF args
  <2> QED
    BY <2>2
<1> QED
  BY <1>1, <1>2, <1>3, <1>4, <1>5, RequestCases

\* A request in flight is the one that was built.
AskedInv ==
    phase = "asked" => request \in Requests /\ air = <<build(RequestFrame(request))>>

LEMMA NextAsked == AskedInv /\ [Next]_vars => AskedInv'
<1> SUFFICES ASSUME AskedInv, [Next]_vars PROVE AskedInv'
  OBVIOUS
<1>1. CASE \E req \in Requests : Ask(req)
  BY <1>1 DEF Ask, AskedInv
<1>2. CASE AnswerQuery \/ AnswerEventLog
  BY <1>2 DEF AnswerQuery, AnswerEventLog, AskedInv
<1>3. CASE NoReadings \/ ReceiveQuery \/ ReceiveEventLog \/ NextExchange
  BY <1>3 DEF NoReadings, ReceiveQuery, ReceiveEventLog, NextExchange, AskedInv
<1>4. CASE UNCHANGED vars
  BY <1>4 DEF vars, AskedInv
<1> QED
  BY <1>1, <1>2, <1>3, <1>4 DEF Next

LEMMA AskedHeard ==
    ASSUME AskedInv, phase = "asked", request.name \notin {"ver", "echo"},
           NEW h, NEW cmd, NEW args, Speaks(request, h, cmd, args)
    PROVE  /\ air[1] = build(l2_frame(L2Body(request)))
           /\ L2Body(request) \in Bytes /\ Signed(L2Body(request)) /\ Len(L2Body(request)) <= 100
           /\ Hears(air[1]) = Heard(LE16(h.dst_susy_id) \o h.dst_serial, AppSerial,
                                    request.pkt_id, cmd, args)
<1>1. air[1] = build(l2_frame(L2Body(request)))
  BY DEF AskedInv, RequestFrame
<1>2. /\ h \in L2Headers /\ cmd \in Words4 /\ args \in Bytes /\ Len(args) <= 60
      /\ 4 + 4 * h.longwords = 32 + Len(args)
      /\ L2Body(request) = encode_l2(h, cmd \o args)
      /\ h.app_serial = AppSerial /\ h.pkt_id = request.pkt_id
  BY DEF Speaks, Message
<1>3. /\ encode_l2(h, cmd \o args) \in Bytes /\ Signed(encode_l2(h, cmd \o args))
      /\ Len(encode_l2(h, cmd \o args)) <= 100
      /\ Hears(build(l2_frame(encode_l2(h, cmd \o args))))
           = Heard(LE16(h.dst_susy_id) \o h.dst_serial, h.app_serial, h.pkt_id, cmd, args)
  BY <1>2, MessageHeard
<1> QED
  BY <1>1, <1>2, <1>3

LEMMA HeardFields ==
    ASSUME NEW to, NEW from, NEW id, NEW cmd, NEW args
    PROVE  LET heard == Heard(to, from, id, cmd, args) IN
           /\ heard # <<>> /\ heard.to = to /\ heard.from = from /\ heard.pkt_id = id
           /\ heard.cmd = cmd /\ heard.args = args
BY DEF Heard

KeyOf(group) == IF group = "Installer" THEN \hBB ELSE \h88

RequestSaid(heard) ==
    /\ heard # <<>>
    /\ heard.to = IF request.name \in {"query", "event_log"} THEN LE16(DevSusy) \o DevSerial
                  ELSE [i \in 1..6 |-> 255]
    /\ heard.from = AppSerial
    /\ heard.pkt_id = request.pkt_id
    /\ heard.cmd = CASE request.name = "init"      -> <<0, 2, 0, 0>>
                     [] request.name = "logoff"    -> <<\h0E, 1, \hFD, \hFF>>
                     [] request.name = "logon"     -> <<\h0C, 4, \hFD, \hFF>>
                     [] request.name = "query"     -> CommandOf(request.kind)
                     [] request.name = "event_log" -> <<0, 2, \h10, \h70>>
    /\ request.name = "init" => heard.args = [i \in 1..8 |-> 0]
    /\ request.name = "logoff" => heard.args = [i \in 1..4 |-> 255]
    /\ request.name = "query" => Len(heard.args) = 8
    /\ request.name = "event_log" => heard.args = DayAgo \o Now
    /\ request.name = "logon" =>
         /\ Slice(heard.args, 0, 16) = LogonTerms(request.group)
         /\ KeyTakenOff(Drop(heard.args, 16), KeyOf(request.group), request.pwd)

LEMMA AskedRequestHeard == AskedInv => RequestHeard
<1> SUFFICES ASSUME AskedInv, phase = "asked", request.name \notin {"ver", "echo"}
             PROVE  RequestHeard
  BY DEF RequestHeard
<1>1. request \in Requests
  BY DEF AskedInv
<1>2. PICK h, cmd, args : Speaks(request, h, cmd, args)
  BY <1>1, RequestSpeaks
<1> DEFINE heard == Hears(air[1])
           to == LE16(h.dst_susy_id) \o h.dst_serial
<1>3. heard = Heard(to, AppSerial, request.pkt_id, cmd, args)
  BY <1>2, AskedHeard
<1> HIDE DEF heard, to
<1>4. /\ heard # <<>> /\ heard.to = to /\ heard.from = AppSerial
      /\ heard.pkt_id = request.pkt_id /\ heard.cmd = cmd /\ heard.args = args
  BY <1>3, HeardFields
<1>5. to = IF request.name \in {"query", "event_log"} THEN LE16(DevSusy) \o DevSerial
           ELSE [i \in 1..6 |-> 255]
  BY <1>2, AnyAddress DEF Speaks, ForDevice, ForAny, to
<1>6. cmd = CASE request.name = "init"      -> <<0, 2, 0, 0>>
              [] request.name = "logoff"    -> <<\h0E, 1, \hFD, \hFF>>
              [] request.name = "logon"     -> <<\h0C, 4, \hFD, \hFF>>
              [] request.name = "query"     -> CommandOf(request.kind)
              [] request.name = "event_log" -> <<0, 2, \h10, \h70>>
  <2>1. request.name \in {"init", "logoff", "logon", "query", "event_log"}
    BY <1>1, RequestCases
  <2> QED
    BY <1>2, <2>1 DEF Speaks
<1>7. ASSUME request.name = "logon"
      PROVE  /\ Slice(args, 0, 16) = LogonTerms(request.group)
             /\ KeyTakenOff(Drop(args, 16), KeyOf(request.group), request.pwd)
  <2>1. /\ Drop(args, 16) = encode_password(request.pwd, request.group)
        /\ Slice(args, 0, 16) = LogonTerms(request.group)
    BY <1>2, <1>7 DEF Speaks
  <2>2. request.pwd \in Bytes
    <3>1. request.pwd \in Passwords
      BY <1>1, <1>7, RequestCases
    <3> QED
      BY <3>1, WirePathAssumption DEF Bytes, U8
  <2>3. KeyTakenOff(encode_password(request.pwd, request.group), Key(request.group), request.pwd)
    BY <2>2, PasswordBytes
  <2>4. Key(request.group) = KeyOf(request.group)
    <3>1. request.group \in {"User", "Installer"}
      BY <1>1, <1>7, RequestCases
    <3>2. "User" # "Installer"
      OBVIOUS
    <3> QED
      BY <3>1, <3>2 DEF Key, KeyOf
  <2> QED
    BY <2>1, <2>3, <2>4
<1>8. /\ request.name = "init" => args = [i \in 1..8 |-> 0]
      /\ request.name = "logoff" => args = [i \in 1..4 |-> 255]
      /\ request.name = "query" => Len(args) = 8
      /\ request.name = "event_log" => args = DayAgo \o Now
  <2>1. Zeros(8) = [i \in 1..8 |-> 0]
    BY DEF Zeros
  <2>2. <<\hFF, \hFF, \hFF, \hFF>> = [i \in 1..4 |-> 255]
    OBVIOUS
  <2> QED
    BY <1>2, <2>1, <2>2, Zenon DEF Speaks
<1>9. RequestSaid(heard)
  BY <1>4, <1>5, <1>6, <1>7, <1>8 DEF RequestSaid
<1> HIDE DEF heard
<1>10. request.name = "logon" =>
         LET sent == Drop(heard.args, 16)
             installer == request.group = "Installer"
             key == IF installer THEN \hBB ELSE \h88
             code == IF installer THEN 10 ELSE 7
         IN  /\ Slice(heard.args, 0, 16)
                 = <<code, 0, 0, 0>> \o <<\h84, 3, 0, 0>> \o Now \o [i \in 1..4 |-> 0]
             /\ [i \in 1..Len(sent) |-> (sent[i] + 256 - key) % 256]
                 = [i \in 1..12 |-> IF i <= Len(request.pwd) THEN request.pwd[i] ELSE 0]
  BY <1>9 DEF RequestSaid, LogonTerms, KeyTakenOff, KeyOf
<1> QED
  BY <1>9, <1>10, Zenon DEF RequestHeard, RequestSaid, heard

\* For every packet id, serial and password: what FrameBuilder puts on the
\* wire for init, logon, logoff, a query of any kind and the event log, a PPP
\* receiver takes for exactly the addressee, the command, the arguments and the
\* password the session meant.
THEOREM AlwaysHeard == Spec => []RequestHeard
<1>1. Init => AskedInv
  BY DEF Init, AskedInv
<1> QED
  BY <1>1, NextAsked, AskedRequestHeard, PTL DEF Spec

\* A payload that has no signature where Frame::parse looks for one.
Unsigned(p) ==
    /\ p \in Bytes /\ 4 <= Len(p) /\ Len(p) <= 100
    /\ p[1] # \hFF /\ p[1] # \h7E

LEMMA L1Framed ==
    ASSUME NEW local \in Addresses, NEW dest \in Addresses, NEW control \in U16s,
           NEW p, Unsigned(p)
    PROVE  LET f == Frame("L1Only", local, dest, control, p) IN f \in Frames /\ Buildable(f)
<1> DEFINE f == Frame("L1Only", local, dest, control, p)
           b == 4
           z == 0
           t == 18 + Len(p)
<1>1. f \in Frames /\ f.kind = "L1Only" /\ f.payload = p
  BY DEF Frame, Frames, Unsigned
<1> HIDE DEF f
<1>2. /\ p \in Bytes /\ Len(p) \in Nat /\ 4 <= Len(p) /\ Len(p) <= 100
      /\ p[1] # \hFF /\ p[1] # \h7E
  BY DEF Bytes, Unsigned
<1>3. ~ Signed(p)
  <2>1. z \in Nat /\ b \in Nat /\ z <= b /\ b <= Len(p)
    BY <1>2
  <2>2. z + 1 = 1 /\ 1 \in 1..(b - z)
    OBVIOUS
  <2> HIDE DEF z, b
  <2>3. \A i \in 1..(b - z) : Slice(p, z, b)[i] = p[z + i]
    BY <1>2, <2>1, SliceType
  <2>4. Slice(p, 0, 4)[1] = p[1]
    BY <2>2, <2>3 DEF b, z
  <2>5. BT_L2_SIGNATURE[1] = \hFF
    BY DEF BT_L2_SIGNATURE
  <2> QED
    BY <1>2, <2>4, <2>5 DEF Signed
<1>4. ~ Separated(p)
  BY <1>2 DEF Separated, FRAME_DELIMITER
<1>5. t \in U16s
  <2>1. t \in Nat /\ t <= 65535
    BY <1>2, SMT
  <2> HIDE DEF t
  <2> QED
    BY <2>1, InU16
<1> QED
  BY <1>1, <1>3, <1>4, <1>5 DEF Buildable, f

LEMMA VerFramed == ver_frame \in Frames /\ Buildable(ver_frame)
<1> DEFINE p == <<\h76, \h65, \h72, 13, 10>>
           a == Zeros(6)
           b == <<1, 0, 0, 0, 0, 0>>
           c == \h201
<1>1. c \in U16s
  BY InU16
<1>2. p \in Bytes /\ Len(p) = 5 /\ p[1] = \h76
  BY DEF Bytes, U8
<1>3. a \in Addresses /\ b \in Addresses
  BY Addresses6
<1>4. ver_frame = Frame("L1Only", a, b, c, p)
  BY DEF ver_frame
<1> HIDE DEF a, b, c, p
<1>5. Unsigned(p)
  BY <1>2 DEF Unsigned
<1> QED
  BY <1>1, <1>2, <1>3, <1>4, <1>5, L1Framed

\* The four parts of the echo's payload, joined.
LEMMA EchoPayload ==
    ASSUME NEW a \in Bytes, Len(a) = 4, NEW b \in Bytes, Len(b) = 1,
           NEW c \in Bytes, Len(c) = 4, NEW d \in Bytes, Len(d) = 4
    PROVE  LET p == a \o b \o c \o d IN
           p \in Bytes /\ Len(p) = 13 /\ p[1] = a[1]
<1> DEFINE ab == a \o b
           abc == ab \o c
           p == abc \o d
<1>1. Joined(ab, a, 4, b, 1)
  BY Join
<1> HIDE DEF ab
<1>2. ab \in Bytes /\ Len(ab) = 5 /\ ab[1] = a[1]
  BY <1>1 DEF Joined
<1>3. Joined(abc, ab, 5, c, 4)
  BY <1>2, Join
<1> HIDE DEF abc
<1>4. abc \in Bytes /\ Len(abc) = 9 /\ abc[1] = a[1]
  BY <1>2, <1>3 DEF Joined
<1>5. Joined(p, abc, 9, d, 4)
  BY <1>4, Join
<1> HIDE DEF p
<1>6. p \in Bytes /\ Len(p) = 13 /\ p[1] = a[1]
  BY <1>4, <1>5 DEF Joined
<1> QED
  BY <1>6 DEF p, abc, ab

LEMMA EchoFramed ==
    ASSUME NEW net_id \in {1, \h7E}
    PROVE  echo_frame(net_id) \in Frames /\ Buildable(echo_frame(net_id))
<1> DEFINE a == LE32(\h700400)
           b == <<net_id>>
           c == LE32(0)
           d == LE32(1)
           p == a \o b \o c \o d
           z == Zeros(6)
           k == \h2
<1>1. echo_frame(net_id) = Frame("L1Only", z, DevBt, k, p)
  BY DEF echo_frame
<1>2. k \in U16s
  BY InU16
<1>3. a = <<0, 4, \h70, 0>>
  <2>1. Value(\h700400, 0, 4, \h70, 0)
    BY SMT DEF Value, U8
  <2> QED
    BY <2>1, LE32Is, SMT
<1>4. a \in Bytes /\ Len(a) = 4 /\ a[1] = 0
  BY <1>3, FourBytes, BytesOfRequests
<1>5. b \in Bytes /\ Len(b) = 1
  <2>1. net_id \in U8
    BY DEF U8
  <2> QED
    BY <2>1, One
<1>6. c \in Bytes /\ Len(c) = 4 /\ d \in Bytes /\ Len(d) = 4
  BY LE32Type DEF Words4
<1>7. z \in Addresses /\ DevBt \in Addresses
  BY Addresses6
<1> HIDE DEF a, b, c, d, z, k
<1>8. p \in Bytes /\ Len(p) = 13 /\ p[1] = 0
  BY <1>4, <1>5, <1>6, EchoPayload
<1> HIDE DEF p
<1>9. Unsigned(p)
  BY <1>8 DEF Unsigned
<1> QED
  BY <1>1, <1>2, <1>7, <1>8, <1>9, L1Framed

LEMMA RequestFramed ==
    ASSUME NEW req \in Requests
    PROVE  RequestFrame(req) \in Frames /\ Buildable(RequestFrame(req))
<1>1. CASE req.name = "ver"
  BY <1>1, VerFramed DEF RequestFrame
<1>2. CASE req.name = "echo"
  <2>1. req.net_id \in {1, \h7E}
    BY <1>2, RequestCases
  <2> QED
    BY <1>2, <2>1, EchoFramed DEF RequestFrame
<1>3. CASE req.name \notin {"ver", "echo"}
  <2>1. PICK h, cmd, args : Speaks(req, h, cmd, args)
    BY <1>3, RequestSpeaks
  <2>2. /\ h \in L2Headers /\ cmd \in Words4 /\ args \in Bytes /\ Len(args) <= 60
        /\ 4 + 4 * h.longwords = 32 + Len(args)
        /\ L2Body(req) = encode_l2(h, cmd \o args)
    BY <2>1 DEF Speaks, Message
  <2>3. L2Body(req) \in Bytes /\ Signed(L2Body(req)) /\ Len(L2Body(req)) <= 100
    BY <2>2, MessageHeard
  <2> QED
    BY <1>3, <2>3, L2Framed DEF RequestFrame
<1> QED
  BY <1>1, <1>2, <1>3

\* For every packet id, serial and password: Frame::parse gives back the frame
\* of each request the session builds, and parse_l2_only_blob its packet.
THEOREM AlwaysRoundTrip == Spec => []RoundTrip
<1>1. Init => AskedInv
  BY DEF Init, AskedInv
<1>2. AskedInv => RoundTrip
  <2> SUFFICES ASSUME AskedInv, phase = "asked" PROVE RoundTrip
    BY DEF RoundTrip
  <2> DEFINE f == RequestFrame(request)
  <2>1. air[1] = build(f)
    BY DEF AskedInv
  <2>2. f \in Frames /\ Buildable(f)
    BY RequestFramed DEF AskedInv
  <2> HIDE DEF f
  <2>3. parse(build(f)) = Ok(f)
    BY <2>2, ParseBuild, Constants
  <2>4. f.kind = "L2Wrapped" => parse_l2_only_blob(Drop(build(f), 18)) = Ok(f.payload)
    BY <2>2, BlobBuild
  <2> QED
    BY <2>1, <2>3, <2>4 DEF RoundTrip, f
<1> QED
  BY <1>1, <1>2, NextAsked, PTL DEF Spec

-----------------------------------------------------------------------------
(* The bytes of a reply. *)

UpTo(m) == {s \in Bytes : Len(s) <= m}

LEMMA FlattenBound ==
    ASSUME NEW m \in Nat, NEW ss \in Seq(UpTo(m))
    PROVE  FlattenSeq(ss) \in Bytes /\ Len(FlattenSeq(ss)) <= m * Len(ss)
<1> DEFINE none == <<>>
           T == {s \in Seq(UpTo(m)) : /\ FlattenSeq(s) \in Bytes
                                      /\ Len(FlattenSeq(s)) <= m * Len(s)}
<1>1. none \in T
  <2>1. FlattenSeq(none) = none
    BY FlattenEmpty
  <2>2. none \in Seq(UpTo(m)) /\ none \in Bytes /\ Len(none) = 0
    BY DEF Bytes
  <2> HIDE DEF none
  <2>3. 0 <= m * 0
    OBVIOUS
  <2> QED
    BY <2>1, <2>2, <2>3
<1>2. ASSUME NEW s \in Seq(UpTo(m)), NEW e \in UpTo(m), s \in T PROVE Append(s, e) \in T
  <2>1. s \in Seq(Bytes) /\ e \in Bytes /\ Len(e) <= m
    BY DEF UpTo
  <2> DEFINE f == FlattenSeq(s)
             g == FlattenSeq(Append(s, e))
             w == Append(s, e)
  <2>2. g = f \o e
    BY <2>1, FlattenAppend DEF Bytes
  <2>3. f \in Bytes /\ Len(f) <= m * Len(s)
    BY <1>2
  <2>4. w \in Seq(UpTo(m)) /\ Len(w) = Len(s) + 1 /\ Len(s) \in Nat
    OBVIOUS
  <2> HIDE DEF f, g, w, T
  <2>5. g \in Bytes /\ Len(g) = Len(f) + Len(e) /\ Len(f) \in Nat /\ Len(e) \in Nat
    BY <2>1, <2>2, <2>3, CatElements
  <2>6. Len(g) <= m * Len(s) + m /\ m * Len(s) + m = m * Len(w)
    <3> DEFINE a == Len(f)
               b == Len(e)
               k == Len(s)
               l == Len(w)
    <3>1. a \in Nat /\ b \in Nat /\ k \in Nat /\ l = k + 1 /\ a <= m * k /\ b <= m
      BY <2>1, <2>3, <2>4, <2>5
    <3> HIDE DEF a, b, k, l
    <3>2. a + b <= m * k + m /\ m * k + m = m * l
      BY <3>1
    <3> QED
      BY <2>5, <3>2 DEF a, b, k, l
  <2> QED
    BY <2>4, <2>5, <2>6 DEF T, g, w
<1> HIDE DEF T, none
<1>3. \A s \in Seq(UpTo(m)) : s \in T
  BY <1>1, <1>2, SeqSetInduction DEF none
<1> QED
  BY <1>3 DEF T

Forms == {"i32", "u32", "magnitude", "u64", "watts", "status", "relay", "label", "version"}

\* An address of three bytes.
Addr24(a) == a \in Nat /\ a < 16777216

LEMMA RegisterType ==
    \A reg \in Registers : Addr24(reg.addr) /\ reg.form \in Forms
<1>1. \A key, kind, class, lri, cls, form, div :
         /\ R(key, kind, class, lri, cls, form, div).addr = lri + cls
         /\ R(key, kind, class, lri, cls, form, div).form = form
  BY DEF R
<1> QED
  BY <1>1, SMT DEF Registers, Forms, Addr24

LEMMA WordsType == \A w \in Words : w \in Words4
<1> DEFINE n == 4
<1>1. n \in Nat
  OBVIOUS
<1> HIDE DEF n
<1>2. \A w \in [1..n -> 0..255] : w \in Bytes /\ Len(w) = n
  BY <1>1, FixedLength
<1> QED
  BY <1>2, WirePathAssumption DEF Words4, n

LEMMA FixedWords ==
    /\ Noise \in Words4 /\ I32_NAN \in Words4 /\ U32_NAN \in Words4 /\ EndOfList \in Words4
    /\ Zeros(4) \in Words4
    /\ <<4, 6, \h30, \h02>> \in Words4 /\ <<\h7E, \h11, \h99, \h12>> \in Words4
<1>1. \A x \in {0, 2, 4, 6, \h11, \h12, \h2A, \h30, \h7D, \h7E, \h80, \h99, \hFE, \hFF} : x \in U8
  BY DEF U8
<1>2. Noise \in Words4 /\ I32_NAN \in Words4 /\ U32_NAN \in Words4 /\ EndOfList \in Words4
  BY <1>1, FourBytes DEF Noise, I32_NAN, U32_NAN, EndOfList
<1>3. <<4, 6, \h30, \h02>> \in Words4 /\ <<\h7E, \h11, \h99, \h12>> \in Words4
  BY <1>1, FourBytes
<1>4. Zeros(4) \in Words4
  BY ZerosType DEF Words4
<1> QED
  BY <1>2, <1>3, <1>4

LEMMA StateWord ==
    ASSUME NEW tag \in Nat, NEW mark \in {0, 1}
    PROVE  State(tag, mark) \in Words4
<1> DEFINE a == LE16(tag)
           b == <<0, mark>>
           c == a \o b
<1>1. a \in Bytes /\ Len(a) = 2
  BY LE16Type
<1>2. b \in Bytes /\ Len(b) = 2
  BY DEF Bytes, U8
<1>3. State(tag, mark) = c
  BY DEF State
<1> HIDE DEF a, b
<1>4. Joined(c, a, 2, b, 2)
  BY <1>1, <1>2, Join
<1> HIDE DEF c
<1>5. c \in Bytes /\ Len(c) = 4
  BY <1>4 DEF Joined
<1> QED
  BY <1>3, <1>5 DEF Words4

\* The words of a register's content.
FiveWords(w) == w \in Seq(Words4) /\ Len(w) = 5

LEMMA FiveWordsAre ==
    ASSUME NEW a \in Words4, NEW b \in Words4, NEW c \in Words4, NEW d \in Words4, NEW e \in Words4
    PROVE  FiveWords(<<a, b, c, d, e>>)
BY DEF FiveWords

LEMMA ContentFields ==
    ASSUME NEW words, NEW means
    PROVE  Content(words, means).words = words /\ Content(words, means).means = means
BY DEF Content

LEMMA SpotContent ==
    ASSUME NEW form, NEW x \in SpotContents(form)
    PROVE  \E w \in Words4 : /\ x.words = <<Noise, Noise, w, Noise, Noise>>
                             /\ x.means = SpotMeans(form, w)
<1>1. PICK w \in Words : x = Content(<<Noise, Noise, w, Noise, Noise>>, SpotMeans(form, w))
  BY DEF SpotContents
<1> DEFINE words == <<Noise, Noise, w, Noise, Noise>>
           means == SpotMeans(form, w)
<1>2. x = Content(words, means)
  BY <1>1
<1> HIDE DEF words, means
<1>3. x.words = words /\ x.means = means
  BY <1>2, ContentFields
<1> QED
  BY <1>3, WordsType DEF words, means

\* A counter's two words.
LEMMA CounterContent ==
    ASSUME NEW x \in CounterContents
    PROVE  \E c \in Bytes : /\ Len(c) = 8 /\ Slice(c, 0, 4) \in Words4 /\ Slice(c, 4, 8) \in Words4
                            /\ x.words = <<Slice(c, 0, 4), Slice(c, 4, 8)>>
                            /\ x.means = IF c \in {U64_NAN, U64_MAX} THEN <<>> ELSE c
<1>1. PICK c \in Counters : x = Content(<<Slice(c, 0, 4), Slice(c, 4, 8)>>,
                                        IF c \in {U64_NAN, U64_MAX} THEN <<>> ELSE c)
  BY DEF CounterContents
<1> DEFINE n == 8
           m == 4
           z == 0
           words == <<Slice(c, 0, 4), Slice(c, 4, 8)>>
           means == IF c \in {U64_NAN, U64_MAX} THEN <<>> ELSE c
<1>2. n \in Nat /\ m \in Nat /\ z \in Nat /\ z <= m /\ m <= n /\ m - z = 4 /\ n - m = 4
  OBVIOUS
<1>3. c \in [1..n -> 0..255]
  BY WirePathAssumption
<1>4. x = Content(words, means)
  BY <1>1
<1> HIDE DEF n, m, z, words, means
<1>5. x.words = words /\ x.means = means
  BY <1>4, ContentFields
<1>6. c \in Bytes /\ Len(c) = n
  BY <1>2, <1>3, FixedLength
<1>7. /\ Slice(c, z, m) \in Bytes /\ Len(Slice(c, z, m)) = m - z
      /\ Slice(c, m, n) \in Bytes /\ Len(Slice(c, m, n)) = n - m
  <2>1. m <= Len(c) /\ n <= Len(c)
    BY <1>2, <1>6
  <2> QED
    BY <1>2, <1>6, <2>1, SliceType
<1>8. Slice(c, 0, 4) \in Words4 /\ Slice(c, 4, 8) \in Words4
  BY <1>2, <1>7 DEF Words4, n, m, z
<1> QED
  BY <1>5, <1>6, <1>8 DEF n, words, means

LEMMA WattsContent ==
    ASSUME NEW x \in WattsContents
    PROVE  \/ \E n \in {LE32(3000), LE32(\h7E11)}, c \in {Zeros(4), U32_NAN} :
                /\ x.words = <<n, n, c, Zeros(4), Zeros(4)>> /\ x.means = n
           \/ /\ x.words = <<U32_NAN, U32_NAN, U32_NAN, U32_NAN, U32_NAN>>
              /\ x.means = <<>>
<1>1. CASE \E n \in {LE32(3000), LE32(\h7E11)}, c \in {Zeros(4), U32_NAN} :
              x = Content(<<n, n, c, Zeros(4), Zeros(4)>>, n)
  <2>1. PICK n \in {LE32(3000), LE32(\h7E11)}, c \in {Zeros(4), U32_NAN} :
              x = Content(<<n, n, c, Zeros(4), Zeros(4)>>, n)
    BY <1>1
  <2> DEFINE words == <<n, n, c, Zeros(4), Zeros(4)>>
  <2>2. x = Content(words, n)
    BY <2>1
  <2> HIDE DEF words
  <2>3. x.words = words /\ x.means = n
    BY <2>2, ContentFields
  <2> QED
    BY <2>3 DEF words
<1>2. CASE x = Content(<<U32_NAN, U32_NAN, U32_NAN, U32_NAN, U32_NAN>>, <<>>)
  BY <1>2, ContentFields
<1> QED
  BY <1>1, <1>2 DEF WattsContents

States(a, b, c, d) ==
    <<State(35, a), State(303, b), State(307, c), State(455, d), State(51, 0)>>

LEMMA StatusContent ==
    ASSUME NEW x \in StatusContents
    PROVE  \/ x.words = States(1, 0, 0, 0) /\ x.means = <<35, 0, 0>>
           \/ x.words = States(0, 1, 0, 0) /\ x.means = <<47, 1, 0>>
           \/ x.words = States(0, 0, 1, 0) /\ x.means = <<51, 1, 0>>
           \/ x.words = States(0, 0, 0, 1) /\ x.means = <<199, 1, 0>>
           \/ \E z \in {Zeros(4), U32_NAN} : x.words = <<z, z, z, z, z>> /\ x.means = <<>>
<1>1. \/ x = Content(States(1, 0, 0, 0), <<35, 0, 0>>)
      \/ x = Content(States(0, 1, 0, 0), <<47, 1, 0>>)
      \/ x = Content(States(0, 0, 1, 0), <<51, 1, 0>>)
      \/ x = Content(States(0, 0, 0, 1), <<199, 1, 0>>)
      \/ \E z \in {Zeros(4), U32_NAN} : x = Content(<<z, z, z, z, z>>, <<>>)
  BY DEF StatusContents, States
<1> QED
  BY <1>1, ContentFields

LEMMA RelayContent ==
    ASSUME NEW x \in RelayContents
    PROVE  \E t \in {51, 311, \hFFFD} :
              /\ x.words = <<State(t, 1), Noise, Noise, Noise, Noise>>
              /\ x.means = IF t = 51 THEN <<1>> ELSE IF t = 311 THEN <<0>> ELSE <<>>
<1> DEFINE words(t) == <<State(t, 1), Noise, Noise, Noise, Noise>>
           means(t) == IF t = 51 THEN <<1>> ELSE IF t = 311 THEN <<0>> ELSE <<>>
<1>1. PICK t \in {51, 311, \hFFFD} : x = Content(words(t), means(t))
  BY DEF RelayContents
<1> HIDE DEF words, means
<1>2. x.words = words(t) /\ x.means = means(t)
  BY <1>1, ContentFields
<1> QED
  BY <1>2 DEF words, means

LEMMA LabelContent ==
    ASSUME NEW x \in LabelContents
    PROVE  LET z == Zeros(4) IN
           \/ \E t \in {9073, 9000} :
                /\ x.words = <<State(9071, 0), State(t, 1), EndOfList, z, z, z, z, z>>
                /\ x.means = IF t = 9073 THEN <<\h71, \h23, 0>> ELSE <<>>
           \/ x.words = <<EndOfList, z, z, z, z, z, z, z>> /\ x.means = <<>>
<1> DEFINE z == Zeros(4)
           words(t) == <<State(9071, 0), State(t, 1), EndOfList, z, z, z, z, z>>
           means(t) == IF t = 9073 THEN <<\h71, \h23, 0>> ELSE <<>>
           empty == <<EndOfList, z, z, z, z, z, z, z>>
<1>1. (\E t \in {9073, 9000} : x = Content(words(t), means(t))) \/ x = Content(empty, <<>>)
  BY DEF LabelContents
<1> HIDE DEF words, means, empty
<1>2. \/ \E t \in {9073, 9000} : x.words = words(t) /\ x.means = means(t)
      \/ x.words = empty /\ x.means = <<>>
  BY <1>1, ContentFields
<1> QED
  BY <1>2 DEF words, means, empty

LEMMA VersionContent ==
    ASSUME NEW x \in VersionContents
    PROVE  \E v : /\ x.words = <<Noise, Noise, Noise, Noise, v>>
                  /\ \/ v = <<4, 6, \h30, \h02>> /\ x.means = <<0, 2, 3, 0, 6, 4>>
                     \/ v = <<\h7E, \h11, \h99, \h12>> /\ x.means = <<1, 2, 9, 9, 17, 6>>
                     \/ v = U32_NAN /\ x.means = <<>>
<1> DEFINE words(w) == <<Noise, Noise, Noise, Noise, w>>
<1>1. \/ x = Content(words(<<4, 6, \h30, \h02>>), <<0, 2, 3, 0, 6, 4>>)
      \/ x = Content(words(<<\h7E, \h11, \h99, \h12>>), <<1, 2, 9, 9, 17, 6>>)
      \/ x = Content(words(U32_NAN), <<>>)
  BY DEF VersionContents
<1> HIDE DEF words
<1>2. \/ x.words = words(<<4, 6, \h30, \h02>>) /\ x.means = <<0, 2, 3, 0, 6, 4>>
      \/ x.words = words(<<\h7E, \h11, \h99, \h12>>) /\ x.means = <<1, 2, 9, 9, 17, 6>>
      \/ x.words = words(U32_NAN) /\ x.means = <<>>
  BY <1>1, ContentFields
<1> QED
  BY <1>2 DEF words

WordCount(form) == IF form = "u64" THEN 2 ELSE IF form = "label" THEN 8 ELSE 5

\* The words of a content are as many as its shape says.
LEMMA ContentType ==
    ASSUME NEW form \in Forms, NEW x \in Contents(form)
    PROVE  x.words \in Seq(Words4) /\ Len(x.words) = WordCount(form)
<1>1. CASE form \in Spots
  <2>1. x \in SpotContents(form)
    BY <1>1 DEF Contents, Spots
  <2>2. PICK w \in Words4 : x.words = <<Noise, Noise, w, Noise, Noise>>
    BY <2>1, SpotContent
  <2>3. FiveWords(<<Noise, Noise, w, Noise, Noise>>)
    BY FixedWords, FiveWordsAre
  <2>4. FiveWords(x.words)
    BY <2>2, <2>3
  <2> QED
    BY <1>1, <2>4 DEF FiveWords, WordCount, Spots
<1>2. CASE form = "u64"
  <2>1. x \in CounterContents
    BY <1>2 DEF Contents, Spots
  <2>2. PICK a \in Words4, b \in Words4 : x.words = <<a, b>>
    BY <2>1, CounterContent
  <2> QED
    BY <1>2, <2>2 DEF WordCount
<1>3. CASE form = "watts"
  <2>1. x \in WattsContents
    BY <1>3 DEF Contents, Spots
  <2>2. LE32(3000) \in Words4 /\ LE32(\h7E11) \in Words4
    BY LE32Type
  <2>3. PICK n \in Words4, c \in Words4, z \in Words4 : x.words = <<n, n, c, z, z>>
    BY <2>1, <2>2, WattsContent, FixedWords
  <2>4. FiveWords(<<n, n, c, z, z>>)
    BY FiveWordsAre
  <2>5. FiveWords(x.words)
    BY <2>3, <2>4
  <2> QED
    BY <1>3, <2>5 DEF FiveWords, WordCount
<1>4. CASE form = "status"
  <2>1. x \in StatusContents
    BY <1>4 DEF Contents, Spots
  <2>2. \A m \in {0, 1} : /\ State(35, m) \in Words4 /\ State(303, m) \in Words4
                          /\ State(307, m) \in Words4 /\ State(455, m) \in Words4
                          /\ State(51, m) \in Words4
    BY StateWord
  <2>3. \A a, b, c, d \in {0, 1} : FiveWords(States(a, b, c, d))
    BY <2>2, FiveWordsAre DEF States
  <2>4. FiveWords(x.words)
    <3>1. FiveWords(States(1, 0, 0, 0)) /\ FiveWords(States(0, 1, 0, 0))
          /\ FiveWords(States(0, 0, 1, 0)) /\ FiveWords(States(0, 0, 0, 1))
      BY <2>3
    <3>2. \A z \in Words4 : FiveWords(<<z, z, z, z, z>>)
      BY FiveWordsAre
    <3>3. FiveWords(<<Zeros(4), Zeros(4), Zeros(4), Zeros(4), Zeros(4)>>)
          /\ FiveWords(<<U32_NAN, U32_NAN, U32_NAN, U32_NAN, U32_NAN>>)
      BY <3>2, FixedWords
    <3> QED
      BY <2>1, <3>1, <3>3, StatusContent
  <2> QED
    BY <1>4, <2>4 DEF FiveWords, WordCount
<1>5. CASE form = "relay"
  <2>1. x \in RelayContents
    BY <1>5 DEF Contents, Spots
  <2>2. State(51, 1) \in Words4 /\ State(311, 1) \in Words4 /\ State(\hFFFD, 1) \in Words4
    BY StateWord
  <2>3. PICK w \in Words4 : x.words = <<w, Noise, Noise, Noise, Noise>>
    BY <2>1, <2>2, RelayContent
  <2>4. FiveWords(<<w, Noise, Noise, Noise, Noise>>)
    BY FixedWords, FiveWordsAre
  <2>5. FiveWords(x.words)
    BY <2>3, <2>4
  <2> QED
    BY <1>5, <2>5 DEF FiveWords, WordCount
<1>6. CASE form = "version"
  <2>1. x \in VersionContents
    BY <1>6 DEF Contents, Spots
  <2>2. PICK w \in Words4 : x.words = <<Noise, Noise, Noise, Noise, w>>
    BY <2>1, VersionContent, FixedWords
  <2>3. FiveWords(<<Noise, Noise, Noise, Noise, w>>)
    BY FixedWords, FiveWordsAre
  <2>4. FiveWords(x.words)
    BY <2>2, <2>3
  <2> QED
    BY <1>6, <2>4 DEF FiveWords, WordCount
<1>7. CASE form = "label"
  <2>1. x \in LabelContents
    BY <1>7 DEF Contents, Spots
  <2>2. State(9071, 0) \in Words4 /\ State(9073, 1) \in Words4 /\ State(9000, 1) \in Words4
    BY StateWord
  <2>3. \A a, b, c, d, e, f, g, h \in Words4 :
           /\ <<a, b, c, d, e, f, g, h>> \in Seq(Words4) /\ Len(<<a, b, c, d, e, f, g, h>>) = 8
    OBVIOUS
  <2>4. PICK a \in Words4, b \in Words4, c \in Words4, z \in Words4 :
           x.words = <<a, b, c, z, z, z, z, z>>
    BY <2>1, <2>2, LabelContent, FixedWords
  <2>5. x.words \in Seq(Words4) /\ Len(x.words) = 8
    BY <2>3, <2>4
  <2> QED
    BY <1>7, <2>5 DEF WordCount
<1> QED
  BY <1>1, <1>2, <1>3, <1>4, <1>5, <1>6, <1>7 DEF Forms, Spots

-----------------------------------------------------------------------------
(* Records of one length, one after the other. *)

Of(m) == {s \in Bytes : Len(s) = m}

\* e is the sequences of ss, each of length m, end to end.
Rows(e, ss, m) ==
    /\ e \in Bytes /\ Len(e) = m * Len(ss)
    /\ \A k \in 1..Len(ss) : Piece(e, m * (k - 1), ss[k])

LEMMA FlattenRows ==
    ASSUME NEW m \in Nat, NEW ss \in Seq(Of(m))
    PROVE  Rows(FlattenSeq(ss), ss, m)
<1> DEFINE none == <<>>
           T == {s \in Seq(Of(m)) : Rows(FlattenSeq(s), s, m)}
<1>1. none \in T
  <2>1. FlattenSeq(none) = none
    BY FlattenEmpty
  <2>2. none \in Seq(Of(m)) /\ none \in Bytes /\ Len(none) = 0
    BY DEF Bytes
  <2> HIDE DEF none
  <2>3. 0 = m * 0 /\ \A k \in 1..0 : FALSE
    OBVIOUS
  <2> QED
    BY <2>1, <2>2, <2>3 DEF Rows
<1>2. ASSUME NEW s \in Seq(Of(m)), NEW e \in Of(m), s \in T PROVE Append(s, e) \in T
  <2>1. s \in Seq(Bytes) /\ e \in Bytes /\ Len(e) = m
    BY DEF Of
  <2> DEFINE f == FlattenSeq(s)
             g == FlattenSeq(Append(s, e))
             w == Append(s, e)
             n == Len(s)
  <2>2. g = f \o e
    BY <2>1, FlattenAppend DEF Bytes
  <2>3. Rows(f, s, m)
    BY <1>2
  <2>4. /\ w \in Seq(Of(m)) /\ Len(w) = n + 1 /\ n \in Nat /\ n = Len(s)
        /\ w[n + 1] = e /\ \A k \in 1..n : w[k] = s[k]
    OBVIOUS
  <2> HIDE DEF f, g, w, T, n
  <2>5. f \in Bytes /\ Len(f) = m * n /\ \A k \in 1..n : Piece(f, m * (k - 1), s[k])
    BY <2>3, <2>4 DEF Rows
  <2> DEFINE at == m * n
  <2>6. at \in Nat /\ at + m = m * (n + 1) /\ m * ((n + 1) - 1) = at
    BY <2>4
  <2>7. Len(f) = at
    BY <2>5
  <2> HIDE DEF at
  <2>8. Grown(g, f, e, at, at + m)
    BY <2>1, <2>2, <2>5, <2>7, Grow
  <2>9. g \in Bytes /\ Len(g) = m * Len(w)
    BY <2>4, <2>6, <2>8 DEF Grown
  <2>10. \A k \in 1..(n + 1) : Piece(g, m * (k - 1), w[k])
    <3> TAKE k \in 1..(n + 1)
    <3>1. CASE k \in 1..n
      <4>1. Piece(f, m * (k - 1), w[k])
        BY <2>4, <2>5, <3>1
      <4> QED
        BY <2>8, <4>1 DEF Grown
    <3>2. CASE k = n + 1
      <4>1. Piece(g, at, e)
        BY <2>8 DEF Grown
      <4> QED
        BY <2>4, <2>6, <3>2, <4>1
    <3>3. k \in 1..n \/ k = n + 1
      BY <2>4
    <3> QED
      BY <3>1, <3>2, <3>3
  <2>11. Rows(g, w, m)
    BY <2>4, <2>9, <2>10 DEF Rows
  <2> QED
    BY <2>4, <2>11 DEF T, g, w
<1> HIDE DEF T, none
<1>3. \A s \in Seq(Of(m)) : s \in T
  BY <1>1, <1>2, SeqSetInduction DEF none
<1> QED
  BY <1>3 DEF T

LEMMA FlattenWords ==
    ASSUME NEW ws \in Seq(Words4)
    PROVE  Rows(FlattenSeq(ws), ws, 4)
<1> DEFINE m == 4
<1>1. m \in Nat /\ Words4 = Of(m)
  BY DEF Words4, Of
<1> HIDE DEF m
<1>2. Rows(FlattenSeq(ws), ws, m)
  BY <1>1, FlattenRows
<1> QED
  BY <1>2 DEF m

LEMMA PieceShift ==
    ASSUME NEW a \in Bytes, NEW n, Len(a) = n, NEW b \in Bytes, NEW at, NEW x, Piece(b, at, x)
    PROVE  Piece(a \o b, n + at, x)
<1> DEFINE to == at + Len(x)
           e == a \o b
<1>1. x \in Bytes /\ at \in Nat /\ Len(x) \in Nat /\ to <= Len(b) /\ Slice(b, at, to) = x
  BY DEF Piece, Bytes
<1>2. to \in Nat /\ at <= to
  BY <1>1
<1>3. e \in Bytes /\ Len(e) = n + Len(b) /\ n \in Nat /\ Len(b) \in Nat
  BY CatElements
<1> HIDE DEF to
<1>4. Slice(a \o b, Len(a) + at, Len(a) + to) = Slice(b, at, to)
  <2>1. at \in Nat /\ to \in Nat /\ at <= to /\ to <= Len(b)
    BY <1>1, <1>2
  <2> QED
    BY <2>1, SliceSecond
<1>5. n + to = (n + at) + Len(x) /\ n + to <= n + Len(b) /\ n + at \in Nat
  BY <1>1, <1>2, <1>3 DEF to
<1> HIDE DEF e
<1>6. Slice(e, n + at, (n + at) + Len(x)) = x
  BY <1>1, <1>4, <1>5 DEF e
<1> QED
  BY <1>1, <1>3, <1>5, <1>6 DEF Piece, e

LEMMA AddressBytes ==
    ASSUME NEW a, Addr24(a)
    PROVE  /\ LE32(a)[1] = a % 256
           /\ 256 * LE32(a)[2] + 65536 * LE32(a)[3] = a - (a % 256)
<1> DEFINE l == a % 65536
           h == a \div 65536
           x == LE16(l)
           y == LE16(h)
           w == LE32(a)
           d == a % 256
<1>1. l \in Nat /\ h \in Nat /\ l < 65536 /\ h < 256 /\ a = l + 65536 * h
  BY SMT DEF Addr24
<1>2. d = l % 256
  BY SMT DEF Addr24
<1>3. w = x \o y
  BY DEF LE32
<1> HIDE DEF l, h, w, d
<1>4. /\ x \in Bytes /\ Len(x) = 2 /\ y \in Bytes /\ Len(y) = 2
      /\ x[1] = l % 256 /\ x[2] = (l \div 256) % 256 /\ y[1] = h % 256
  BY <1>1, LE16Type
<1> HIDE DEF x, y
<1>5. Joined(x \o y, x, 2, y, 2)
  BY <1>4, Join
<1>6. Joined(w, x, 2, y, 2)
  BY <1>3, <1>5
<1>7. w[1] = x[1] /\ w[2] = x[2] /\ w[2 + 1] = y[1]
  <2>1. 1 \in 1..2 /\ 2 \in 1..2
    OBVIOUS
  <2> QED
    BY <1>6, <2>1 DEF Joined
<1>8. w[1] = l % 256 /\ w[2] = (l \div 256) % 256 /\ w[3] = h % 256
  BY <1>4, <1>7
<1>9. /\ (l \div 256) % 256 = l \div 256 /\ h % 256 = h
      /\ l = (l % 256) + 256 * (l \div 256) /\ l % 256 \in Nat /\ l \div 256 \in Nat
  BY <1>1, SMT
<1>10. 256 * w[2] + 65536 * w[3] = a - d
  <2> DEFINE p == l % 256
             q == l \div 256
  <2>1. w[2] = q /\ w[3] = h /\ l = p + 256 * q /\ d = p /\ p \in Nat /\ q \in Nat
    BY <1>2, <1>8, <1>9
  <2> HIDE DEF p, q
  <2> QED
    BY <1>1, <2>1, SMT
<1> QED
  BY <1>2, <1>8, <1>10 DEF w, d

\* A record of a register: its address in the code word, and its words.
IsRecord(rec, a, ws) ==
    /\ rec \in Bytes /\ Len(rec) = 8 + 4 * Len(ws)
    /\ record_cls(rec) = a % 256 /\ record_lri(rec) = a - (a % 256)
    /\ \A k \in 1..Len(ws) : Piece(rec, 8 + 4 * (k - 1), ws[k])

LEMMA RecordShape ==
    ASSUME NEW reg, Addr24(reg.addr), NEW ws \in Seq(Words4),
           NEW content, NEW cut \in BOOLEAN,
           ws = IF cut THEN SubSeq(content.words, 1, 3) ELSE content.words
    PROVE  IsRecord(Record(reg, content, cut), reg.addr, ws)
<1> DEFINE a == reg.addr
           w == LE32(a)
           h3 == Slice(w, 0, 3)
           h1 == <<\h40>>
           h4 == h3 \o h1
           h8 == h4 \o Now
           body == FlattenSeq(ws)
           rec == Record(reg, content, cut)
<1>1. rec = h8 \o body
  BY DEF Record
<1>2. Addr24(a) /\ a \in Nat
  BY SMT DEF Addr24
<1> HIDE DEF rec, a
<1>3. w \in Bytes /\ Len(w) = 4
  BY <1>2, LE32Type DEF Words4
<1>4. w[1] = a % 256 /\ 256 * w[2] + 65536 * w[3] = a - (a % 256)
  BY <1>2, AddressBytes
<1> HIDE DEF w
<1>5. h3 \in Bytes /\ Len(h3) = 3 /\ h3[1] = w[1] /\ h3[2] = w[2] /\ h3[3] = w[3]
  <2> DEFINE z == 0
             m == 3
  <2>1. z \in Nat /\ m \in Nat /\ z <= m /\ m <= Len(w)
    BY <1>3
  <2>2. m - z = 3 /\ z + 1 = 1 /\ z + 2 = 2 /\ z + 3 = 3 /\ 1 \in 1..3 /\ 2 \in 1..3 /\ 3 \in 1..3
    OBVIOUS
  <2> HIDE DEF z, m
  <2>3. /\ Slice(w, z, m) \in Bytes /\ Len(Slice(w, z, m)) = m - z
        /\ \A i \in 1..(m - z) : Slice(w, z, m)[i] = w[z + i]
    BY <1>3, <2>1, SliceType
  <2>4. \A i \in 1..3 : Slice(w, z, m)[i] = w[z + i]
    BY <2>2, <2>3
  <2> QED
    BY <2>2, <2>3, <2>4 DEF z, m
<1> HIDE DEF h3
<1>6. h1 \in Bytes /\ Len(h1) = 1
  BY One DEF U8
<1> HIDE DEF h1
<1>7. Now \in Bytes /\ Len(Now) = 4
  BY FourBytes, BytesOfRequests DEF Now
<1>8. Joined(h4, h3, 3, h1, 1)
  BY <1>5, <1>6, Join
<1> HIDE DEF h4
<1>9. h4 \in Bytes /\ Len(h4) = 4 /\ \A i \in 1..3 : h4[i] = h3[i]
  BY <1>8 DEF Joined
<1>10. Joined(h8, h4, 4, Now, 4)
  BY <1>7, <1>9, Join
<1> HIDE DEF h8
<1>11. h8 \in Bytes /\ Len(h8) = 8 /\ \A i \in 1..4 : h8[i] = h4[i]
  BY <1>10 DEF Joined
<1>12. Rows(body, ws, 4)
  BY FlattenWords
<1> HIDE DEF body
<1>13. body \in Bytes /\ Len(body) = 4 * Len(ws) /\ Len(body) \in Nat
       /\ \A k \in 1..Len(ws) : Piece(body, 4 * (k - 1), ws[k])
  BY <1>12 DEF Rows, Bytes
<1> DEFINE m == Len(body)
<1>14. Joined(rec, h8, 8, body, m)
  BY <1>1, <1>11, <1>13, Join
<1>15. rec \in Bytes /\ Len(rec) = 8 + m /\ \A i \in 1..8 : rec[i] = h8[i]
  BY <1>14 DEF Joined
<1> HIDE DEF m
<1>16. rec[1] = w[1] /\ rec[2] = w[2] /\ rec[3] = w[3]
  <2>1. 1 \in 1..3 /\ 2 \in 1..3 /\ 3 \in 1..3 /\ 1 \in 1..4 /\ 2 \in 1..4 /\ 3 \in 1..4
        /\ 1 \in 1..8 /\ 2 \in 1..8 /\ 3 \in 1..8
    OBVIOUS
  <2>2. rec[1] = h8[1] /\ rec[2] = h8[2] /\ rec[3] = h8[3]
    BY <1>15, <2>1
  <2>3. h8[1] = h4[1] /\ h8[2] = h4[2] /\ h8[3] = h4[3]
    BY <1>11, <2>1
  <2>4. h4[1] = h3[1] /\ h4[2] = h3[2] /\ h4[3] = h3[3]
    BY <1>9, <2>1
  <2> QED
    BY <1>5, <2>2, <2>3, <2>4
<1>17. \A k \in 1..Len(ws) : Piece(rec, 8 + 4 * (k - 1), ws[k])
  <2> TAKE k \in 1..Len(ws)
  <2> DEFINE at == 4 * (k - 1)
             n == 8
             v == ws[k]
  <2>1. Piece(body, at, v)
    BY <1>13
  <2>2. Len(h8) = n
    BY <1>11
  <2> HIDE DEF at, n, v
  <2>3. Piece(h8 \o body, n + at, v)
    BY <1>11, <1>13, <2>1, <2>2, PieceShift
  <2> QED
    BY <1>1, <2>3 DEF at, n, v
<1>18. Len(rec) = 8 + 4 * Len(ws)
  BY <1>13, <1>15 DEF m
<1>19. record_cls(rec) = a % 256 /\ record_lri(rec) = a - (a % 256)
  BY <1>4, <1>16 DEF record_cls, record_lri
<1>20. rec \in Bytes
  BY <1>15
<1>21. IsRecord(rec, a, ws)
  BY <1>17, <1>18, <1>19, <1>20, Zenon DEF IsRecord
<1> QED
  BY <1>21 DEF rec, a

-----------------------------------------------------------------------------
(* A reply in each of the three shapes. *)

ShapeOf(shape) == IF shape = "push" THEN 8 ELSE 1
DevFrameOf(shape, p) == Frame("L2Wrapped", DevBt, LocalBt, ShapeOf(shape), p)

Fitting(p) ==
    /\ p \in Bytes /\ Signed(p) /\ Len(p) >= 28
    /\ Len(Stuffed(p)) + 20 \in U16s /\ Len(Stuffed(p)) + 19 \in U16s
    /\ 18 + Len(stuff(p)) \in U16s

LEMMA DevFramed ==
    ASSUME NEW shape \in {"separator", "plain", "push"}, NEW p, Fitting(p)
    PROVE  parse(DevFrame(shape, p)) = Ok(DevFrameOf(shape, p))
<1> DEFINE f == DevFrameOf(shape, p)
           s == Stuffed(p)
           t == stuff(p)
           d == Delimiter
<1>1. f \in Frames /\ f.payload = p /\ f.kind = "L2Wrapped"
  <2>1. 1 \in U16s /\ 8 \in U16s
    BY InU16
  <2>2. ShapeOf(shape) \in U16s
    BY <2>1 DEF ShapeOf
  <2>3. p \in Bytes
    BY DEF Fitting
  <2> QED
    BY <2>2, <2>3, Addresses6 DEF DevFrameOf, Frame, Frames
<1>2. Parsed(f, "L2Wrapped", p) = Ok(f)
  BY DEF Parsed, DevFrameOf, Frame
<1>3. /\ p \in Bytes /\ Signed(p) /\ Len(p) \in Nat /\ Len(p) >= 28
      /\ Len(s) + 20 \in U16s /\ Len(s) + 19 \in U16s /\ 18 + Len(t) \in U16s
  BY DEF Fitting, Bytes
<1>4. MIN_FRAME_LEN \in Nat /\ MIN_FRAME_LEN <= 18
  BY Constants
<1>5. CASE shape = "separator"
  <2>1. DevFrame(shape, p) = Wrap(f, s)
    BY <1>5 DEF DevFrame, DevFrameOf, ShapeOf, Stuffed
  <2> HIDE DEF f, s, t, d
  <2>2. parse(Wrap(f, s)) = Parsed(f, "L2Wrapped", p)
    BY <1>1, <1>3, <1>4, ParseSeparator DEF s
  <2> QED
    BY <1>2, <2>1, <2>2 DEF f
<1>6. CASE shape = "plain"
  <2> DEFINE raw == Header(18 + Len(s) + 1, f) \o s \o d
  <2>1. DevFrame(shape, p) = raw
    BY <1>6 DEF DevFrame, DevFrameOf, ShapeOf, Stuffed, Delimiter
  <2> HIDE DEF f, s, t, d
  <2>2. parse(raw) = Parsed(f, "L2Wrapped", p)
    BY <1>1, <1>3, <1>4, ParsePlain DEF s, d
  <2> HIDE DEF raw
  <2> QED
    BY <1>2, <2>1, <2>2 DEF f
<1>7. CASE shape = "push"
  <2> DEFINE raw == Header(18 + Len(t), f) \o t
  <2>1. DevFrame(shape, p) = raw
    BY <1>7 DEF DevFrame, DevFrameOf, ShapeOf
  <2> HIDE DEF f, s, t, d
  <2>2. parse(raw) = Parsed(f, "L2Wrapped", p)
    BY <1>1, <1>3, <1>4, ParsePush DEF t
  <2> HIDE DEF raw
  <2> QED
    BY <1>2, <2>1, <2>2 DEF f
<1> QED
  BY <1>5, <1>6, <1>7

LEMMA DevHeaderType ==
    ASSUME NEW id \in PacketIds, NEW code \in U16s
    PROVE  DevHeader(id, code) \in L2Headers /\ DevHeader(id, code).pkt_id = id
<1>1. 0 \in U16s /\ APP_SUSY_ID \in U16s /\ DevSusy \in U16s
  BY InU16 DEF APP_SUSY_ID, DevSusy
<1>2. 0 \in U8 /\ \hD0 \in U8
  BY DEF U8
<1> QED
  BY <1>1, <1>2, Constants DEF DevHeader, L2Headers

\* What is heard, and the records of the answer.
Answerable(heard, recs) ==
    /\ heard.pkt_id \in PacketIds /\ heard.cmd \in Words4
    /\ heard.args \in Bytes /\ Len(heard.args) = 8
    /\ FlattenSeq(recs) \in Bytes /\ 2 * Len(FlattenSeq(recs)) + 104 <= U16_MAX
ReplyBytes(heard, recs) == heard.cmd \o heard.args \o FlattenSeq(recs)

LEMMA ReplyShape ==
    ASSUME NEW heard, NEW recs, Answerable(heard, recs), NEW code \in U16s,
           NEW shape \in {"separator", "plain", "push"}
    PROVE  LET raw == Coded(heard, code, shape, recs)
               payload == encode_l2(DevHeader(heard.pkt_id, code), ReplyBytes(heard, recs))
           IN  /\ parse(raw) = Ok(DevFrameOf(shape, payload))
               /\ ReplyBytes(heard, recs) \in Bytes
               /\ decode_l2(payload) = <<DevHeader(heard.pkt_id, code), ReplyBytes(heard, recs)>>
               /\ Len(ReplyBytes(heard, recs)) = 12 + Len(FlattenSeq(recs))
               /\ Drop(ReplyBytes(heard, recs), 12) = FlattenSeq(recs)
<1> DEFINE cmd == heard.cmd
           args == heard.args
           fl == FlattenSeq(recs)
           h == DevHeader(heard.pkt_id, code)
           a == cmd \o args
           body == a \o fl
           p == encode_l2(h, body)
<1>1. /\ cmd \in Bytes /\ Len(cmd) = 4 /\ args \in Bytes /\ Len(args) = 8
      /\ fl \in Bytes /\ Len(fl) \in Nat /\ 2 * Len(fl) + 104 <= U16_MAX
  BY DEF Answerable, Words4, Bytes
<1>2. h \in L2Headers
  BY DevHeaderType DEF Answerable
<1>3. Slice(args, 0, 8) = args
  BY <1>1 DEF Slice, Bytes
<1>4. Coded(heard, code, shape, recs) = DevFrame(shape, p) /\ ReplyBytes(heard, recs) = body
  BY <1>3 DEF Coded, ReplyBytes
<1> HIDE DEF cmd, args, fl, h
<1>5. a \in Bytes /\ Len(a) = Len(cmd) + Len(args)
  BY <1>1, CatElements
<1> HIDE DEF a
<1>6. body \in Bytes /\ Len(body) = Len(a) + Len(fl) /\ Drop(body, Len(a)) = fl
  BY <1>1, <1>5, CatElements, DropFirst
<1>7. Len(a) = 12
  BY <1>1, <1>5
<1> HIDE DEF body
<1>8. decode_l2(p) = <<h, body>>
  BY <1>2, <1>6, DecodeEncode
<1>9. Encoded(p, h, body)
  BY <1>2, <1>6, PacketShape
<1> HIDE DEF p
<1>10. p \in Bytes /\ Signed(p) /\ Len(p) = 28 + Len(body)
  BY <1>6, <1>9, EncodedSigned
<1>11. Fitting(p)
  <2> DEFINE l == Len(fl)
             n == 40 + l
  <2>1. l \in Nat /\ 2 * l + 104 <= U16_MAX
    BY <1>1
  <2>2. Len(p) = n
    <3>1. Len(body) = 12 + l
      BY <1>6, <1>7
    <3> HIDE DEF l
    <3> QED
      BY <1>10, <2>1, <3>1
  <2> HIDE DEF l
  <2>3. n \in Nat /\ 2 * n + 24 <= 65535
    BY <2>1, U16Max, SMT
  <2> HIDE DEF n
  <2>4. /\ Len(Stuffed(p)) + 20 \in U16s /\ Len(Stuffed(p)) + 19 \in U16s
        /\ 18 + Len(stuff(p)) \in U16s
    <3>1. Len(p) <= n
      BY <2>2, <2>3
    <3> QED
      BY <1>10, <2>3, <3>1, ShortFits
  <2>5. Len(p) >= 28
    BY <1>1, <1>6, <1>7, <1>10
  <2> QED
    BY <1>10, <2>4, <2>5 DEF Fitting
<1>12. parse(DevFrame(shape, p)) = Ok(DevFrameOf(shape, p))
  BY <1>11, DevFramed
<1> QED
  BY <1>4, <1>6, <1>7, <1>8, <1>12 DEF p, h, fl

-----------------------------------------------------------------------------
(* The answer to a query. *)

\* What the device hears of a query.
HeardQuery(req, heard) ==
    /\ req.name = "query" /\ req.kind \in QueryKind
    /\ heard.pkt_id = req.pkt_id /\ heard.pkt_id \in PacketIds
    /\ heard.cmd = LE32(opcode(req.kind)[1])
    /\ heard.args = LE32(opcode(req.kind)[2]) \o LE32(opcode(req.kind)[3])

\* n registers in order, what they hold, and whether the last record is cut.
Answer(heard, n, order, c, cut) ==
    /\ n \in 0..MaxRecords /\ order \in ByAddress(n, Asked(heard))
    /\ \A k \in 1..n : c[k] \in Contents(order[k].form)
    /\ cut \in BOOLEAN /\ (cut => n > 0 /\ order[n].form \in Spots)

RecordsOf(n, order, c, cut) == [k \in 1..n |-> Record(order[k], c[k], cut /\ k = n)]
HeldOf(n, order, c) == [k \in 1..n |-> [reg |-> order[k], means |-> c[k].means]]
RecordWords(words, short) == IF short THEN SubSeq(words, 1, 3) ELSE words

LEMMA QueryHeard ==
    ASSUME AskedInv, phase = "asked", request.name = "query"
    PROVE  HeardQuery(request, Hears(air[1])) /\ Hears(air[1]) # <<>>
<1>1. request \in Requests
  BY DEF AskedInv
<1>2. request.pkt_id \in PktIds /\ request.kind \in QueryKind
  BY <1>1, RequestCases
<1> DEFINE o == opcode(request.kind)
           cmd == LE32(o[1])
           args == LE32(o[2]) \o LE32(o[3])
<1>3. PICK h : Message(request, h, cmd, args) /\ ForDevice(h)
  BY <1>2, QueryMessage
<1>4. cmd = CommandOf(request.kind) /\ Len(args) = 8
  BY <1>2, QueryArguments
<1> DEFINE to == LE16(h.dst_susy_id) \o h.dst_serial
           heard == Hears(air[1])
<1> HIDE DEF cmd, args
<1>5. Speaks(request, h, cmd, args)
  BY <1>3, <1>4 DEF Speaks
<1>6. heard = Heard(to, AppSerial, request.pkt_id, cmd, args)
  BY <1>5, AskedHeard
<1> HIDE DEF heard, to
<1>7. heard # <<>> /\ heard.pkt_id = request.pkt_id /\ heard.cmd = cmd /\ heard.args = args
  BY <1>6, HeardFields
<1>8. request.pkt_id \in PacketIds
  BY <1>2, Constants
<1> QED
  BY <1>2, <1>7, <1>8 DEF HeardQuery, cmd, args, heard

LEMMA HeardBytes ==
    ASSUME NEW req, NEW heard, HeardQuery(req, heard)
    PROVE  heard.cmd \in Words4 /\ heard.args \in Bytes /\ Len(heard.args) = 8
<1> DEFINE o == opcode(req.kind)
           first == LE32(o[2])
           last == LE32(o[3])
<1>1. o[1] \in Nat /\ o[2] \in Nat /\ o[3] \in Nat
  BY QueryOpcodes, QueryCommand DEF HeardQuery
<1>2. LE32(o[1]) \in Words4 /\ first \in Words4 /\ last \in Words4
  BY <1>1, LE32Type
<1>3. heard.cmd \in Words4 /\ heard.args = first \o last
  BY <1>2 DEF HeardQuery
<1> HIDE DEF first, last
<1>4. first \in Bytes /\ last \in Bytes /\ Len(first) = 4 /\ Len(last) = 4
  BY <1>2 DEF Words4
<1>5. first \o last \in Bytes /\ Len(first \o last) = Len(first) + Len(last)
  BY <1>4, CatElements
<1> QED
  BY <1>3, <1>4, <1>5

LEMMA AnswerRecord ==
    ASSUME NEW heard, NEW n, NEW order, NEW c, NEW cut, Answer(heard, n, order, c, cut),
           NEW k \in 1..n
    PROVE  LET short == cut /\ k = n
               ws == RecordWords(c[k].words, short)
           IN  /\ order[k] \in Asked(heard) /\ order[k] \in Registers
               /\ order[k].form \in Forms /\ Addr24(order[k].addr)
               /\ c[k].words \in Seq(Words4) /\ Len(c[k].words) = WordCount(order[k].form)
               /\ ws \in Seq(Words4)
               /\ short => order[k].form \in Spots /\ Len(c[k].words) = 5 /\ Len(ws) = 3
               /\ ~ short => ws = c[k].words
               /\ IsRecord(Record(order[k], c[k], short), order[k].addr, ws)
<1> DEFINE short == cut /\ k = n
           words == c[k].words
           ws == RecordWords(words, short)
           reg == order[k]
           x == c[k]
<1>1. reg \in Asked(heard) /\ x \in Contents(reg.form)
  BY DEF Answer, ByAddress
<1>2. reg \in Registers
  BY <1>1 DEF Asked
<1>3. reg.form \in Forms /\ Addr24(reg.addr)
  BY <1>2, RegisterType
<1> HIDE DEF reg, x
<1>4. x.words \in Seq(Words4) /\ Len(x.words) = WordCount(reg.form)
  BY <1>1, <1>3, ContentType
<1>5. short \in BOOLEAN
  OBVIOUS
<1>6. short => reg.form \in Spots
  BY DEF Answer, reg
<1> HIDE DEF short
<1>7. ASSUME short PROVE Len(words) = 5 /\ Len(ws) = 3 /\ ws \in Seq(Words4)
  <2>1. Len(words) = 5
    BY <1>4, <1>6, <1>7 DEF WordCount, Spots, x
  <2>2. words \in Seq(Words4) /\ ws = SubSeq(words, 1, 3)
    BY <1>4, <1>7 DEF x, RecordWords
  <2> HIDE DEF words, ws
  <2> QED
    BY <2>1, <2>2
<1>8. ~ short => ws = words
  BY DEF RecordWords
<1>9. ws \in Seq(Words4)
  BY <1>4, <1>5, <1>7, <1>8 DEF x
<1>10. IsRecord(Record(reg, x, short), reg.addr, ws)
  <2>1. ws = IF short THEN SubSeq(x.words, 1, 3) ELSE x.words
    BY DEF RecordWords, x
  <2> HIDE DEF ws, words
  <2> QED
    BY <1>3, <1>5, <1>9, <2>1, RecordShape
<1> QED
  BY <1>1, <1>2, <1>3, <1>4, <1>6, <1>7, <1>8, <1>9, <1>10 DEF short, reg, x

LEMMA AnswerBytes ==
    ASSUME NEW req, NEW heard, HeardQuery(req, heard),
           NEW n, NEW order, NEW c, NEW cut, Answer(heard, n, order, c, cut)
    PROVE  Answerable(heard, RecordsOf(n, order, c, cut))
<1> DEFINE recs == RecordsOf(n, order, c, cut)
           m == 40
<1>1. n \in Nat /\ n <= MaxRecords /\ MaxRecords \in Nat
  BY WirePathAssumption DEF Answer
<1>2. ASSUME NEW k \in 1..n PROVE recs[k] \in UpTo(40)
  <2> DEFINE short == cut /\ k = n
             words == c[k].words
             ws == RecordWords(words, short)
             rec == Record(order[k], c[k], short)
             a == order[k].addr
  <2>1. /\ short => Len(ws) = 3
        /\ ~ short => ws = words
        /\ Len(words) = WordCount(order[k].form)
        /\ IsRecord(rec, a, ws)
    BY AnswerRecord
  <2>2. recs[k] = rec
    BY DEF RecordsOf
  <2> HIDE DEF short, words, ws, rec, a
  <2>3. Len(ws) \in 0..8
    BY <2>1 DEF WordCount
  <2>4. rec \in Bytes /\ Len(rec) = 8 + 4 * Len(ws)
    BY <2>1 DEF IsRecord
  <2> DEFINE l == Len(ws)
  <2> HIDE DEF l
  <2>5. l \in 0..8 => 8 + 4 * l <= 40
    OBVIOUS
  <2> QED
    BY <2>2, <2>3, <2>4, <2>5 DEF UpTo, l
<1>3. recs \in Seq(UpTo(m)) /\ Len(recs) = n
  BY <1>1, <1>2 DEF RecordsOf
<1>4. m \in Nat
  OBVIOUS
<1> HIDE DEF recs, m
<1>5. FlattenSeq(recs) \in Bytes /\ Len(FlattenSeq(recs)) <= m * Len(recs)
  BY <1>3, <1>4, FlattenBound
<1> DEFINE l == Len(FlattenSeq(recs))
           M == MaxRecords
<1>6. l \in Nat /\ l <= m * n /\ n \in Nat /\ M \in Nat /\ n <= M
  BY <1>1, <1>3, <1>5 DEF Bytes
<1> HIDE DEF l, M
<1>7. l <= 40 * M /\ 80 * M + 200 <= U16_MAX
  <2>1. m * n <= 40 * M
    BY <1>6 DEF m
  <2>2. 80 * MaxRecords + 200 <= U16_MAX
    BY WirePathAssumption
  <2>3. m * n \in Nat
    BY <1>6 DEF m
  <2> QED
    BY <1>6, <2>1, <2>2, <2>3 DEF M
<1>8. 2 * Len(FlattenSeq(recs)) + 104 <= U16_MAX
  BY <1>6, <1>7, U16Max, SMT DEF l
<1>9. heard.pkt_id \in PacketIds
  BY DEF HeardQuery
<1> QED
  BY <1>5, <1>8, <1>9, HeardBytes DEF Answerable, recs

Shapes == {"separator", "plain", "push"}

\* The reply in flight is an answer to the query that was asked.
Replied ==
    \E heard, n, order, c, cut : \E shape \in Shapes :
        /\ HeardQuery(request, heard) /\ Answer(heard, n, order, c, cut)
        /\ air = <<Reply(heard, shape, RecordsOf(n, order, c, cut))>>
        /\ held = HeldOf(n, order, c)

AnsweredInv ==
    /\ AskedInv
    /\ phase = "answered" /\ request.name = "query" => Replied

LEMMA NextAnswered == AnsweredInv /\ [Next]_vars => AnsweredInv'
<1> SUFFICES ASSUME AnsweredInv, [Next]_vars PROVE AnsweredInv'
  OBVIOUS
<1>0. AskedInv'
  BY NextAsked DEF AnsweredInv
<1>1. CASE \E req \in Requests : Ask(req)
  BY <1>0, <1>1 DEF Ask, AnsweredInv
<1>2. CASE AnswerQuery
  <2> DEFINE heard == Hears(air[1])
  <2>1. HeardQuery(request, heard)
    BY <1>2, QueryHeard DEF AnsweredInv, AnswerQuery
  <2>2. PICK n \in 0..MaxRecords : \E order \in ByAddress(n, Asked(heard)) :
          \E c : \E cut \in BOOLEAN, shape \in Shapes :
             /\ \A k \in 1..n : c[k] \in Contents(order[k].form)
             /\ cut => n > 0 /\ order[n].form \in Spots
             /\ held' = HeldOf(n, order, c)
             /\ air' = <<Reply(heard, shape, RecordsOf(n, order, c, cut))>>
    BY <1>2, Zenon DEF AnswerQuery, HeldOf, RecordsOf, Shapes
  <2>a. PICK order \in ByAddress(n, Asked(heard)) :
          \E c : \E cut \in BOOLEAN, shape \in Shapes :
             /\ \A k \in 1..n : c[k] \in Contents(order[k].form)
             /\ cut => n > 0 /\ order[n].form \in Spots
             /\ held' = HeldOf(n, order, c)
             /\ air' = <<Reply(heard, shape, RecordsOf(n, order, c, cut))>>
    BY <2>2
  <2>b. PICK c : \E cut \in BOOLEAN, shape \in Shapes :
             /\ \A k \in 1..n : c[k] \in Contents(order[k].form)
             /\ cut => n > 0 /\ order[n].form \in Spots
             /\ held' = HeldOf(n, order, c)
             /\ air' = <<Reply(heard, shape, RecordsOf(n, order, c, cut))>>
    BY <2>a
  <2>3. PICK cut \in BOOLEAN, shape \in Shapes :
             /\ \A k \in 1..n : c[k] \in Contents(order[k].form)
             /\ cut => n > 0 /\ order[n].form \in Spots
             /\ held' = HeldOf(n, order, c)
             /\ air' = <<Reply(heard, shape, RecordsOf(n, order, c, cut))>>
    BY <2>b
  <2>4. Answer(heard, n, order, c, cut)
    BY <2>2, <2>3 DEF Answer
  <2>5. request' = request /\ phase' = "answered"
    BY <1>2 DEF AnswerQuery
  <2> HIDE DEF heard
  <2>6. Replied'
    BY <2>1, <2>3, <2>4, <2>5, Zenon DEF Replied
  <2> QED
    BY <1>0, <2>5, <2>6 DEF AnsweredInv
<1>3. CASE AnswerEventLog
  BY <1>0, <1>3 DEF AnswerEventLog, AnsweredInv
<1>4. CASE NoReadings
  BY <1>0, <1>4 DEF NoReadings, AnsweredInv
<1>5. CASE ReceiveQuery
  BY <1>0, <1>5 DEF ReceiveQuery, AnsweredInv
<1>6. CASE ReceiveEventLog
  BY <1>0, <1>6 DEF ReceiveEventLog, AnsweredInv
<1>7. CASE NextExchange
  BY <1>0, <1>7 DEF NextExchange, AnsweredInv
<1>8. CASE UNCHANGED vars
  BY <1>0, <1>8 DEF vars, AnsweredInv, Replied
<1> QED
  BY <1>1, <1>2, <1>3, <1>4, <1>5, <1>6, <1>7, <1>8 DEF Next

-----------------------------------------------------------------------------
(***************************************************************************)
(* ReadingsFaithful                                                        *)
(***************************************************************************)
\* The part of an address that is the LRI, and the class byte.
Lri(reg) == reg.addr - (reg.addr % 256)
Cls(reg) == reg.addr % 256

\* One register is published under this key by this query: it has this
\* address, shape and divisor.
Owns(addr, kind, key, form, div) ==
    \A reg \in Registers :
        /\ reg.addr = addr <=> reg.kind = kind /\ reg.key = key
        /\ reg.addr = addr => reg.form = form /\ reg.div = div

\* It is the only one with its LRI.
Alone(lri) == \A reg \in Registers : Lri(reg) = lri <=> reg.addr = lri + 1

LEMMA RFields ==
    ASSUME NEW key, NEW kind, NEW class, NEW lri, NEW cls, NEW form, NEW div
    PROVE  LET reg == R(key, kind, class, lri, cls, form, div) IN
           /\ reg.key = key /\ reg.kind = kind /\ reg.class = class /\ reg.addr = lri + cls
           /\ reg.form = form /\ reg.div = div
BY DEF R

\* What the parsers of a shape read of a record.
Reads(rec, form, m) ==
    /\ form = "i32" => i32_value_28(rec) = m
    /\ form = "u32" => u32_value_28(rec) = m
    /\ form = "magnitude" => Magnitude(i32_value_28(rec)) = m
    /\ form = "u64" => u64_value_16(rec) = m
    /\ form = "watts" => FirstWatts(rec) = m
    /\ form = "status" => Len(rec) >= 24 /\ SelectedTag(rec) = m
    /\ form = "relay" => Relay(rec) = m
    /\ form = "label" => IF m = None THEN LabelTag(rec) = None \/ ~ KnownLabel(LabelTag(rec))
                         ELSE LabelTag(rec) = m /\ KnownLabel(m)
    /\ form = "version" => Len(rec) >= 28 /\ Version(rec) = m

\* A record is that of a register, and says what the register means.
Holds(rec, h) ==
    /\ h.reg \in Registers /\ record_lri(rec) = Lri(h.reg) /\ record_cls(rec) = Cls(h.reg)
    /\ Reads(rec, h.reg.form, h.means)

\* Each of the records is that of a register, and no two are of the same.
Carries(recs, hs) ==
    /\ DOMAIN recs = DOMAIN hs /\ DOMAIN hs \subseteq Nat
    /\ \A k \in DOMAIN hs : Holds(recs[k], hs[k])
    /\ \A j, k \in DOMAIN hs : hs[j].reg.addr = hs[k].reg.addr => j = k

IsKey(h, kind, key) == h.reg.kind = kind /\ h.reg.key = key

\* A field is the reading of a register it is published for, or none has one.
Shown(v, kind, key, hs) ==
    \/ v = None /\ \A k \in DOMAIN hs : IsKey(hs[k], kind, key) => hs[k].means = <<>>
    \/ \E k \in DOMAIN hs :
         /\ IsKey(hs[k], kind, key) /\ hs[k].means # <<>>
         /\ v = Reading(hs[k].means, hs[k].reg.div)

Faithful(out, kind, hs) ==
    LET read == {h \in ToSet(hs) : h.reg.kind = kind /\ h.means # <<>>}
    IN  /\ DOMAIN out = {h.reg.key : h \in read}
        /\ \A k \in DOMAIN out : \E h \in read :
             /\ h.reg.key = k
             /\ out[k] = [raw |-> h.means, div |-> h.reg.div]

LEMMA ReadingSome ==
    ASSUME NEW raw, NEW div
    PROVE  Reading(raw, div) # None
BY DEF Reading, None

\* Fields that are each shown, and leave no register of the query out, are
\* published as the registers hold them.
LEMMA Published ==
    ASSUME NEW fields, NEW kind, NEW hs,
           \A key \in DOMAIN fields : Shown(fields[key], kind, key, hs),
           \A k \in DOMAIN hs : hs[k].reg.kind = kind => hs[k].reg.key \in DOMAIN fields
    PROVE  Faithful(Some(fields), kind, hs)
<1> DEFINE out == Some(fields)
           read == {h \in ToSet(hs) : h.reg.kind = kind /\ h.means # <<>>}
<1>1. /\ DOMAIN out = {k \in DOMAIN fields : fields[k] # None}
      /\ \A k \in DOMAIN out : out[k] = fields[k]
  BY DEF Some, Restrict
<1> HIDE DEF out
<1>2. ASSUME NEW key \in DOMAIN out
      PROVE  \E h \in read : h.reg.key = key /\ out[key] = [raw |-> h.means, div |-> h.reg.div]
  <2>1. Shown(fields[key], kind, key, hs) /\ fields[key] # None /\ out[key] = fields[key]
    BY <1>1, <1>2
  <2>2. PICK k \in DOMAIN hs :
         /\ IsKey(hs[k], kind, key) /\ hs[k].means # <<>>
         /\ fields[key] = Reading(hs[k].means, hs[k].reg.div)
    BY <2>1 DEF Shown
  <2>3. hs[k] \in read
    BY <2>2 DEF ToSet, IsKey
  <2> QED
    BY <2>1, <2>2, <2>3 DEF IsKey, Reading
<1>3. ASSUME NEW h \in read PROVE h.reg.key \in DOMAIN out
  <2>1. PICK k \in DOMAIN hs : h = hs[k]
    BY DEF ToSet
  <2>2. h.reg.kind = kind /\ h.means # <<>> /\ h.reg.key \in DOMAIN fields
    BY <2>1
  <2> DEFINE key == h.reg.key
  <2>3. IsKey(hs[k], kind, key) /\ hs[k].means # <<>>
    BY <2>1, <2>2 DEF IsKey
  <2>4. Shown(fields[key], kind, key, hs)
    BY <2>2
  <2> HIDE DEF key
  <2>5. fields[key] # None
    BY <2>3, <2>4, ReadingSome DEF Shown
  <2> QED
    BY <1>1, <2>2, <2>5 DEF key
<1>4. DOMAIN out = {h.reg.key : h \in read}
  <2>1. \A key \in DOMAIN out : \E h \in read : h.reg.key = key
    BY <1>2
  <2>2. \A h \in read : h.reg.key \in DOMAIN out
    BY <1>3
  <2> HIDE DEF read
  <2> QED
    BY <2>1, <2>2
<1> QED
  BY <1>2, <1>4 DEF Faithful, out

LEMMA OnlyOne ==
    ASSUME NEW k \in Nat
    PROVE  Max({k}) = k /\ Min({k}) = k
BY DEF Max, Min

\* A field that is read of the records of one register.
LEMMA OneShown ==
    ASSUME NEW recs, NEW hs, Carries(recs, hs), NEW addr, NEW kind, NEW key, NEW form, NEW div,
           Owns(addr, kind, key, form, div),
           NEW hits \in SUBSET DOMAIN hs,
           \A k \in hits : hs[k].reg.addr = addr,
           \A k \in DOMAIN hs : hs[k].reg.addr = addr /\ k \notin hits => hs[k].means = <<>>,
           NEW v, hits = {} => v = None,
           \A k \in hits : hits = {k} => v = Scaled(hs[k].means, div)
    PROVE  Shown(v, kind, key, hs)
<1>1. \A k \in DOMAIN hs : /\ hs[k].reg.addr = addr <=> IsKey(hs[k], kind, key)
                           /\ hs[k].reg.addr = addr => hs[k].reg.div = div
  BY DEF Carries, Holds, Owns, IsKey
<1>2. CASE hits = {}
  BY <1>1, <1>2 DEF Shown
<1>3. CASE hits # {}
  <2>1. PICK k \in hits : TRUE
    BY <1>3
  <2>2. hits = {k}
    BY <2>1 DEF Carries
  <2>3. v = Scaled(hs[k].means, div) /\ IsKey(hs[k], kind, key) /\ hs[k].reg.div = div
    BY <1>1, <2>1, <2>2
  <2>4. CASE hs[k].means = <<>>
    <3>1. v = None
      BY <2>3, <2>4 DEF Scaled, None
    <3>2. \A j \in DOMAIN hs : IsKey(hs[j], kind, key) => j = k
      BY <1>1, <2>3 DEF Carries
    <3> QED
      BY <2>4, <3>1, <3>2 DEF Shown
  <2>5. CASE hs[k].means # <<>>
    <3>1. v = Reading(hs[k].means, hs[k].reg.div)
      BY <2>3, <2>5 DEF Scaled, None
    <3> QED
      BY <2>1, <2>3, <2>5, <3>1 DEF Shown
  <2> QED
    BY <2>4, <2>5
<1> QED
  BY <1>2, <1>3

LEMMA SpotShown ==
    ASSUME NEW body, NEW hs, Carries(for_each_28_record(body), hs), NEW lri, NEW kind, NEW key,
           NEW div, Owns(lri + 1, kind, key, "i32", div), Alone(lri)
    PROVE  Shown(Spot(body, lri, div), kind, key, hs)
<1> DEFINE recs == for_each_28_record(body)
           hits == {k \in DOMAIN recs : record_lri(recs[k]) = lri}
           v == Scaled(IF hits = {} THEN None ELSE i32_value_28(recs[Max(hits)]), div)
           addr == lri + 1
<1>1. Spot(body, lri, div) = v
  BY DEF Spot, LastRecord
<1> HIDE DEF recs, addr
<1>2. DOMAIN recs = DOMAIN hs /\ DOMAIN hs \subseteq Nat
  BY DEF Carries, recs
<1>3. \A k \in DOMAIN hs : /\ hs[k].reg \in Registers /\ record_lri(recs[k]) = Lri(hs[k].reg)
                           /\ Reads(recs[k], hs[k].reg.form, hs[k].means)
  BY DEF Carries, Holds, recs
<1>4. \A k \in DOMAIN hs : k \in hits <=> hs[k].reg.addr = addr
  BY <1>2, <1>3 DEF Alone, addr
<1>5. \A k \in hits : i32_value_28(recs[k]) = hs[k].means
  BY <1>2, <1>3, <1>4 DEF Owns, Reads, addr
<1>6. hits \in SUBSET DOMAIN hs
  BY <1>2
<1>7. hits = {} => v = None
  BY DEF Scaled
<1>8. \A k \in hits : hits = {k} => v = Scaled(hs[k].means, div)
  <2> HIDE DEF hits
  <2> QED
    BY <1>2, <1>5, <1>6, OnlyOne
<1> HIDE DEF hits, v
<1> QED
  BY <1>1, <1>4, <1>6, <1>7, <1>8, OneShown DEF addr, recs

\* The LRIs that one parser alone looks for.
FrequencyLri == \h465700
StatusLri == \h214800
VersionLri == \h823400
RelayLri == \h416400
CosPhiLris == {\h237400, \h474800}

LEMMA FrequencyShown ==
    ASSUME NEW body, NEW hs, Carries(for_each_28_record(body), hs), NEW kind, NEW key,
           Owns(FrequencyLri + 1, kind, key, "u32", 100), Alone(FrequencyLri)
    PROVE  Shown(parse_grid_frequency(body).grid_frequency, kind, key, hs)
<1> DEFINE recs == for_each_28_record(body)
           lri == FrequencyLri
           hits == {k \in DOMAIN recs : record_lri(recs[k]) = lri}
           v == Scaled(IF hits = {} THEN None ELSE u32_value_28(recs[Max(hits)]), 100)
           addr == lri + 1
<1>1. parse_grid_frequency(body).grid_frequency = v
  BY SMT DEF FrequencyLri, parse_grid_frequency, LastRecord
<1>2. Owns(addr, kind, key, "u32", 100) /\ Alone(lri)
  OBVIOUS
<1> HIDE DEF recs, lri
<1>3. DOMAIN recs = DOMAIN hs /\ DOMAIN hs \subseteq Nat
  BY DEF Carries, recs
<1>4. \A k \in DOMAIN hs : /\ hs[k].reg \in Registers /\ record_lri(recs[k]) = Lri(hs[k].reg)
                           /\ Reads(recs[k], hs[k].reg.form, hs[k].means)
  BY DEF Carries, Holds, recs
<1>5. \A k \in DOMAIN hs : k \in hits <=> hs[k].reg.addr = addr
  BY <1>2, <1>3, <1>4 DEF Alone
<1> HIDE DEF addr
<1>6. \A k \in hits : u32_value_28(recs[k]) = hs[k].means
  BY <1>2, <1>3, <1>4, <1>5 DEF Owns, Reads
<1>7. hits \in SUBSET DOMAIN hs
  BY <1>3
<1>8. hits = {} => v = None
  BY DEF Scaled
<1>9. \A k \in hits : hits = {k} => v = Scaled(hs[k].means, 100)
  <2> HIDE DEF hits
  <2> QED
    BY <1>3, <1>6, <1>7, OnlyOne
<1> HIDE DEF hits, v
<1> QED
  BY <1>1, <1>2, <1>5, <1>7, <1>8, <1>9, OneShown DEF recs

LEMMA CounterShown ==
    ASSUME NEW body, NEW hs, Carries(for_each_16_record(body), hs), NEW lri, NEW kind, NEW key,
           NEW div, Owns(lri + 1, kind, key, "u64", div), Alone(lri)
    PROVE  Shown(Counter(body, lri, div), kind, key, hs)
<1> DEFINE recs == for_each_16_record(body)
           hits == {k \in DOMAIN recs : record_lri(recs[k]) = lri}
           v == Scaled(IF hits = {} THEN None ELSE u64_value_16(recs[Max(hits)]), div)
           addr == lri + 1
<1>1. Counter(body, lri, div) = v
  BY DEF Counter, LastRecord
<1> HIDE DEF recs, addr
<1>2. DOMAIN recs = DOMAIN hs /\ DOMAIN hs \subseteq Nat
  BY DEF Carries, recs
<1>3. \A k \in DOMAIN hs : /\ hs[k].reg \in Registers /\ record_lri(recs[k]) = Lri(hs[k].reg)
                           /\ Reads(recs[k], hs[k].reg.form, hs[k].means)
  BY DEF Carries, Holds, recs
<1>4. \A k \in DOMAIN hs : k \in hits <=> hs[k].reg.addr = addr
  BY <1>2, <1>3 DEF Alone, addr
<1>5. \A k \in hits : u64_value_16(recs[k]) = hs[k].means
  BY <1>2, <1>3, <1>4 DEF Owns, Reads, addr
<1>6. hits \in SUBSET DOMAIN hs
  BY <1>2
<1>7. hits = {} => v = None
  BY DEF Scaled
<1>8. \A k \in hits : hits = {k} => v = Scaled(hs[k].means, div)
  <2> HIDE DEF hits
  <2> QED
    BY <1>2, <1>5, <1>6, OnlyOne
<1> HIDE DEF hits, v
<1> QED
  BY <1>1, <1>4, <1>6, <1>7, <1>8, OneShown DEF addr, recs

\* The two strings of the DC side share an LRI and differ in the class byte.
LEMMA StringShown ==
    ASSUME NEW body, NEW hs, Carries(for_each_28_record(body), hs), NEW lri, NEW cls,
           NEW kind, NEW key, NEW div, Owns(lri + cls, kind, key, "i32", div),
           \A reg \in Registers : Lri(reg) = lri /\ Cls(reg) = cls <=> reg.addr = lri + cls
    PROVE  Shown(DcSpot(body, lri, cls, div), kind, key, hs)
<1> DEFINE recs == for_each_28_record(body)
           hits == {k \in DOMAIN recs : record_lri(recs[k]) = lri /\ record_cls(recs[k]) = cls}
           v == Scaled(IF hits = {} THEN None ELSE i32_value_28(recs[Max(hits)]), div)
           addr == lri + cls
<1>1. DcSpot(body, lri, cls, div) = v
  BY DEF DcSpot, LastRecord
<1> HIDE DEF recs, addr
<1>2. DOMAIN recs = DOMAIN hs /\ DOMAIN hs \subseteq Nat
  BY DEF Carries, recs
<1>3. \A k \in DOMAIN hs : /\ hs[k].reg \in Registers /\ record_lri(recs[k]) = Lri(hs[k].reg)
                           /\ record_cls(recs[k]) = Cls(hs[k].reg)
                           /\ Reads(recs[k], hs[k].reg.form, hs[k].means)
  BY DEF Carries, Holds, recs
<1>4. \A k \in DOMAIN hs : k \in hits <=> hs[k].reg.addr = addr
  BY <1>2, <1>3 DEF addr
<1>5. \A k \in hits : i32_value_28(recs[k]) = hs[k].means
  BY <1>2, <1>3, <1>4 DEF Owns, Reads, addr
<1>6. hits \in SUBSET DOMAIN hs
  BY <1>2
<1>7. hits = {} => v = None
  BY DEF Scaled
<1>8. \A k \in hits : hits = {k} => v = Scaled(hs[k].means, div)
  <2> HIDE DEF hits
  <2> QED
    BY <1>2, <1>5, <1>6, OnlyOne
<1> HIDE DEF hits, v
<1> QED
  BY <1>1, <1>4, <1>6, <1>7, <1>8, OneShown DEF addr, recs

\* A word is None exactly when its magnitude is.
LEMMA MagnitudeNone ==
    ASSUME NEW w
    PROVE  Magnitude(w) = None <=> w = None
<1>1. CASE w = None
  BY <1>1 DEF Magnitude
<1>2. CASE w # None /\ w[4] < 128
  BY <1>2 DEF Magnitude
<1>3. CASE w # None /\ ~ (w[4] < 128)
  <2>1. DOMAIN Magnitude(w) = 1..4
    BY <1>3 DEF Magnitude
  <2>2. DOMAIN None = {} /\ 1 \in 1..4
    BY DEF None
  <2> QED
    BY <1>3, <2>1, <2>2
<1> QED
  BY <1>1, <1>2, <1>3

LEMMA LeastIsMin ==
    ASSUME NEW T, T \subseteq Nat, T # {}
    PROVE  Min(T) \in T
<1>1. \E x \in T : \A y \in T : x <= y
  BY LeastElement
<1> QED
  BY <1>1 DEF Min

LEMMA MinIs ==
    ASSUME NEW T, T \subseteq Nat, NEW x \in T, \A y \in T : x <= y
    PROVE  Min(T) = x
<1>1. \A z \in T : (\A y \in T : z <= y) => z = x
  OBVIOUS
<1> QED
  BY <1>1 DEF Min

\* The power factor has two registers, of which the first with a reading counts.
LEMMA CosPhiShown ==
    ASSUME NEW body, NEW hs, Carries(for_each_28_record(body), hs), NEW kind, NEW key,
           \A reg \in Registers :
               /\ Lri(reg) \in CosPhiLris <=> reg.kind = kind /\ reg.key = key
               /\ reg.kind = kind /\ reg.key = key => reg.form = "magnitude" /\ reg.div = 1000
    PROVE  Shown(parse_cosphi(body).cos_phi, kind, key, hs)
<1> DEFINE recs == for_each_28_record(body)
           lris == CosPhiLris
           hits == {k \in DOMAIN recs : record_lri(recs[k]) \in lris /\ i32_value_28(recs[k]) # None}
           v == Scaled(Magnitude(IF hits = {} THEN None ELSE i32_value_28(recs[Min(hits)])), 1000)
<1>1. parse_cosphi(body).cos_phi = v
  BY SMT DEF CosPhiLris, parse_cosphi, FirstValue
<1>2. \A reg \in Registers :
        /\ Lri(reg) \in lris <=> reg.kind = kind /\ reg.key = key
        /\ reg.kind = kind /\ reg.key = key => reg.form = "magnitude" /\ reg.div = 1000
  OBVIOUS
<1> HIDE DEF recs, lris
<1>3. DOMAIN recs = DOMAIN hs /\ DOMAIN hs \subseteq Nat
  BY DEF Carries, recs
<1>4. \A k \in DOMAIN hs : /\ hs[k].reg \in Registers /\ record_lri(recs[k]) = Lri(hs[k].reg)
                           /\ Reads(recs[k], hs[k].reg.form, hs[k].means)
  BY DEF Carries, Holds, recs
<1>5. ASSUME NEW k \in DOMAIN hs, IsKey(hs[k], kind, key)
      PROVE  /\ record_lri(recs[k]) \in lris /\ hs[k].reg.div = 1000
             /\ Magnitude(i32_value_28(recs[k])) = hs[k].means
  BY <1>2, <1>4, <1>5 DEF IsKey, Reads
<1>6. \A k \in hits : k \in DOMAIN hs /\ IsKey(hs[k], kind, key) /\ i32_value_28(recs[k]) # None
  BY <1>2, <1>3, <1>4 DEF IsKey
<1>7. CASE hits = {}
  <2>1. v = None
    BY <1>7, MagnitudeNone DEF Scaled
  <2>2. ASSUME NEW k \in DOMAIN hs, IsKey(hs[k], kind, key) PROVE hs[k].means = <<>>
    <3>1. i32_value_28(recs[k]) = None
      BY <1>3, <1>5, <1>7, <2>2
    <3> QED
      BY <1>5, <2>2, <3>1, MagnitudeNone DEF None
  <2> QED
    BY <1>1, <2>1, <2>2 DEF Shown
<1>8. CASE hits # {}
  <2> DEFINE k == Min(hits)
  <2>1. hits \subseteq Nat
    BY <1>3
  <2> HIDE DEF hits
  <2>2. k \in hits
    BY <1>8, <2>1, LeastIsMin
  <2> HIDE DEF k
  <2>3. /\ k \in DOMAIN hs /\ IsKey(hs[k], kind, key) /\ i32_value_28(recs[k]) # None
        /\ Magnitude(i32_value_28(recs[k])) = hs[k].means /\ hs[k].reg.div = 1000
    BY <1>5, <1>6, <2>2
  <2>4. hs[k].means # None
    BY <2>3, MagnitudeNone
  <2>5. v = Reading(hs[k].means, 1000)
    BY <1>8, <2>3, <2>4 DEF Scaled, k
  <2> HIDE DEF v
  <2> QED
    BY <1>1, <2>3, <2>4, <2>5 DEF Shown, None
<1> QED
  BY <1>7, <1>8

LEMMA WattsShown ==
    ASSUME NEW body, NEW hs, Carries(for_each_28_record(body), hs), NEW first, NEW last,
           NEW kind, NEW key, Owns(first + 1, kind, key, "watts", 1),
           \A reg \in Registers : Lri(reg) \in first..last <=> reg.addr = first + 1
    PROVE  Shown(parse_single_watts_record(body, first, last), kind, key, hs)
<1> DEFINE recs == for_each_28_record(body)
           hits == {k \in DOMAIN recs : record_lri(recs[k]) \in first..last /\ FirstWatts(recs[k]) # None}
           v == Scaled(IF hits = {} THEN None ELSE FirstWatts(recs[Min(hits)]), 1)
           addr == first + 1
<1>1. parse_single_watts_record(body, first, last) = v
  BY DEF parse_single_watts_record, FirstValue
<1> HIDE DEF recs, addr
<1>2. DOMAIN recs = DOMAIN hs /\ DOMAIN hs \subseteq Nat
  BY DEF Carries, recs
<1>3. \A k \in DOMAIN hs : /\ hs[k].reg \in Registers /\ record_lri(recs[k]) = Lri(hs[k].reg)
                           /\ Reads(recs[k], hs[k].reg.form, hs[k].means)
  BY DEF Carries, Holds, recs
<1>4. \A k \in DOMAIN hs : record_lri(recs[k]) \in first..last <=> hs[k].reg.addr = addr
  BY <1>3 DEF addr
<1>5. \A k \in DOMAIN hs : hs[k].reg.addr = addr => FirstWatts(recs[k]) = hs[k].means
  BY <1>2, <1>3 DEF Owns, Reads, addr
<1>6. hits \in SUBSET DOMAIN hs /\ \A k \in hits : hs[k].reg.addr = addr
  BY <1>2, <1>4
<1>7. \A k \in DOMAIN hs : hs[k].reg.addr = addr /\ k \notin hits => hs[k].means = <<>>
  BY <1>2, <1>4, <1>5 DEF None
<1>8. hits = {} => v = None
  BY DEF Scaled
<1>9. \A k \in hits : hits = {k} => v = Scaled(hs[k].means, 1)
  <2> HIDE DEF hits
  <2> QED
    BY <1>2, <1>5, <1>6, OnlyOne
<1> HIDE DEF hits, v
<1> QED
  BY <1>1, <1>6, <1>7, <1>8, <1>9, OneShown DEF addr, recs

LEMMA StatusShown ==
    ASSUME NEW body, NEW hs, Carries(for_each_28_record(body), hs), NEW kind, NEW key,
           Owns(StatusLri + 1, kind, key, "status", 1), Alone(StatusLri)
    PROVE  Shown(parse_device_status(body).inverter_state, kind, key, hs)
<1> DEFINE recs == for_each_28_record(body)
           lri == StatusLri
           addr == lri + 1
           hits == {k \in DOMAIN recs : /\ record_lri(recs[k]) = lri /\ Len(recs[k]) >= 24
                                        /\ SelectedTag(recs[k]) # None}
           v == Scaled(IF hits = {} THEN None ELSE SelectedTag(recs[Max(hits)]), 1)
<1>1. parse_device_status(body).inverter_state = v
  BY SMT DEF StatusLri, parse_device_status, LastValue
<1>0. Owns(addr, kind, key, "status", 1) /\ Alone(lri)
  OBVIOUS
<1> HIDE DEF recs, lri
<1>2. DOMAIN recs = DOMAIN hs /\ DOMAIN hs \subseteq Nat
  BY DEF Carries, recs
<1>3. \A k \in DOMAIN hs : /\ hs[k].reg \in Registers /\ record_lri(recs[k]) = Lri(hs[k].reg)
                           /\ Reads(recs[k], hs[k].reg.form, hs[k].means)
  BY DEF Carries, Holds, recs
<1>4. \A k \in DOMAIN hs : record_lri(recs[k]) = lri <=> hs[k].reg.addr = addr
  BY <1>0, <1>3 DEF Alone
<1> HIDE DEF addr
<1>5. \A k \in DOMAIN hs : hs[k].reg.addr = addr =>
           Len(recs[k]) >= 24 /\ SelectedTag(recs[k]) = hs[k].means
  BY <1>0, <1>2, <1>3 DEF Owns, Reads
<1>6. hits \in SUBSET DOMAIN hs /\ \A k \in hits : hs[k].reg.addr = addr
  BY <1>2, <1>4
<1>7. \A k \in DOMAIN hs : hs[k].reg.addr = addr /\ k \notin hits => hs[k].means = <<>>
  BY <1>2, <1>4, <1>5 DEF None
<1>8. hits = {} => v = None
  BY DEF Scaled
<1>9. \A k \in hits : hits = {k} => v = Scaled(hs[k].means, 1)
  <2> HIDE DEF hits
  <2> QED
    BY <1>2, <1>5, <1>6, OnlyOne
<1> HIDE DEF hits, v
<1> QED
  BY <1>0, <1>1, <1>6, <1>7, <1>8, <1>9, OneShown DEF recs

LEMMA VersionShown ==
    ASSUME NEW body, NEW hs, Carries(for_each_28_record(body), hs), NEW kind, NEW key,
           Owns(VersionLri + 1, kind, key, "version", 1), Alone(VersionLri)
    PROVE  Shown(parse_software_version(body).firmware_version, kind, key, hs)
<1> DEFINE recs == for_each_28_record(body)
           lri == VersionLri
           addr == lri + 1
           hits == {k \in DOMAIN recs : /\ record_lri(recs[k]) = lri /\ Len(recs[k]) >= 28
                                        /\ Version(recs[k]) # None}
           v == Scaled(IF hits = {} THEN None ELSE Version(recs[Max(hits)]), 1)
<1>1. parse_software_version(body).firmware_version = v
  BY SMT DEF VersionLri, parse_software_version, LastValue
<1>0. Owns(addr, kind, key, "version", 1) /\ Alone(lri)
  OBVIOUS
<1> HIDE DEF recs, lri
<1>2. DOMAIN recs = DOMAIN hs /\ DOMAIN hs \subseteq Nat
  BY DEF Carries, recs
<1>3. \A k \in DOMAIN hs : /\ hs[k].reg \in Registers /\ record_lri(recs[k]) = Lri(hs[k].reg)
                           /\ Reads(recs[k], hs[k].reg.form, hs[k].means)
  BY DEF Carries, Holds, recs
<1>4. \A k \in DOMAIN hs : record_lri(recs[k]) = lri <=> hs[k].reg.addr = addr
  BY <1>0, <1>3 DEF Alone
<1> HIDE DEF addr
<1>5. \A k \in DOMAIN hs : hs[k].reg.addr = addr =>
           Len(recs[k]) >= 28 /\ Version(recs[k]) = hs[k].means
  BY <1>0, <1>2, <1>3 DEF Owns, Reads
<1>6. hits \in SUBSET DOMAIN hs /\ \A k \in hits : hs[k].reg.addr = addr
  BY <1>2, <1>4
<1>7. \A k \in DOMAIN hs : hs[k].reg.addr = addr /\ k \notin hits => hs[k].means = <<>>
  BY <1>2, <1>4, <1>5 DEF None
<1>8. hits = {} => v = None
  BY DEF Scaled
<1>9. \A k \in hits : hits = {k} => v = Scaled(hs[k].means, 1)
  <2> HIDE DEF hits
  <2> QED
    BY <1>2, <1>5, <1>6, OnlyOne
<1> HIDE DEF hits, v
<1> QED
  BY <1>0, <1>1, <1>6, <1>7, <1>8, <1>9, OneShown DEF recs

LEMMA RelayShown ==
    ASSUME NEW body, NEW hs, Carries(for_each_28_record(body), hs), NEW kind, NEW key,
           Owns(RelayLri + 1, kind, key, "relay", 1), Alone(RelayLri)
    PROVE  Shown(parse_grid_relay(body).grid_relay, kind, key, hs)
<1> DEFINE recs == for_each_28_record(body)
           lri == RelayLri
           hits == {k \in DOMAIN recs : record_lri(recs[k]) = lri}
           v == Scaled(IF hits = {} THEN None ELSE Relay(recs[Max(hits)]), 1)
           addr == lri + 1
<1>1. parse_grid_relay(body).grid_relay = v
  BY SMT DEF RelayLri, parse_grid_relay, LastRecord
<1>2. Owns(addr, kind, key, "relay", 1) /\ Alone(lri)
  OBVIOUS
<1> HIDE DEF recs, lri
<1>3. DOMAIN recs = DOMAIN hs /\ DOMAIN hs \subseteq Nat
  BY DEF Carries, recs
<1>4. \A k \in DOMAIN hs : /\ hs[k].reg \in Registers /\ record_lri(recs[k]) = Lri(hs[k].reg)
                           /\ Reads(recs[k], hs[k].reg.form, hs[k].means)
  BY DEF Carries, Holds, recs
<1>5. \A k \in DOMAIN hs : k \in hits <=> hs[k].reg.addr = addr
  BY <1>2, <1>3, <1>4 DEF Alone
<1> HIDE DEF addr
<1>6. \A k \in hits : Relay(recs[k]) = hs[k].means
  BY <1>2, <1>3, <1>4, <1>5 DEF Owns, Reads
<1>7. hits \in SUBSET DOMAIN hs
  BY <1>3
<1>8. hits = {} => v = None
  BY DEF Scaled
<1>9. \A k \in hits : hits = {k} => v = Scaled(hs[k].means, 1)
  <2> HIDE DEF hits
  <2> QED
    BY <1>3, <1>6, <1>7, OnlyOne
<1> HIDE DEF hits, v
<1> QED
  BY <1>1, <1>2, <1>5, <1>7, <1>8, <1>9, OneShown DEF recs

LabelLri == \h821E00
LabelLris == {\h821E00, \h821F00, \h822000}
ModelOf(tag) == IF tag # None /\ KnownLabel(tag) THEN Reading(tag, 1) ELSE None

LEMMA LabelShown ==
    ASSUME NEW body, NEW hs, Carries(Chunks(records_region(body), 40), hs), NEW kind, NEW key,
           Owns(LabelLri + 1, kind, key, "label", 1),
           \A reg \in Registers : Lri(reg) \in LabelLris <=> reg.addr = LabelLri + 1
    PROVE  Shown(ModelOf(parse_type_label_raw(body)), kind, key, hs)
<1> DEFINE recs == Chunks(records_region(body), 40)
           addr == LabelLri + 1
           hits == {k \in DOMAIN recs : record_lri(recs[k]) \in LabelLris /\ LabelTag(recs[k]) # None}
           tag == IF hits = {} THEN None ELSE LabelTag(recs[Min(hits)])
           v == ModelOf(tag)
<1>1. parse_type_label_raw(body) = tag
  BY SMT DEF LabelLris, parse_type_label_raw, FirstValue
<1>2. Owns(addr, kind, key, "label", 1)
  OBVIOUS
<1> HIDE DEF recs
<1>3. DOMAIN recs = DOMAIN hs /\ DOMAIN hs \subseteq Nat
  BY DEF Carries, recs
<1>4. \A k \in DOMAIN hs : /\ hs[k].reg \in Registers /\ record_lri(recs[k]) = Lri(hs[k].reg)
                           /\ Reads(recs[k], hs[k].reg.form, hs[k].means)
  BY DEF Carries, Holds, recs
<1>5. \A k \in DOMAIN hs : record_lri(recs[k]) \in LabelLris <=> hs[k].reg.addr = addr
  BY <1>4
<1> HIDE DEF addr
<1>6. \A k \in DOMAIN hs : hs[k].reg.addr = addr => ModelOf(LabelTag(recs[k])) = Scaled(hs[k].means, 1)
  <2> TAKE k \in DOMAIN hs
  <2> HAVE hs[k].reg.addr = addr
  <2> DEFINE t == LabelTag(recs[k])
             m == hs[k].means
  <2>1. IF m = None THEN t = None \/ ~ KnownLabel(t) ELSE t = m /\ KnownLabel(m)
    BY <1>2, <1>4 DEF Owns, Reads
  <2> HIDE DEF t, m
  <2>2. ModelOf(t) = Scaled(m, 1)
    BY <2>1 DEF ModelOf, Scaled
  <2> QED
    BY <2>2 DEF t, m
<1>7. hits \in SUBSET DOMAIN hs /\ \A k \in hits : hs[k].reg.addr = addr
  BY <1>3, <1>5
<1>8. \A k \in DOMAIN hs : hs[k].reg.addr = addr /\ k \notin hits => hs[k].means = <<>>
  <2> TAKE k \in DOMAIN hs
  <2> HAVE hs[k].reg.addr = addr /\ k \notin hits
  <2>1. LabelTag(recs[k]) = None
    BY <1>3, <1>5
  <2>2. Scaled(hs[k].means, 1) = None
    BY <1>6, <2>1 DEF ModelOf
  <2> QED
    BY <2>2, ReadingSome DEF Scaled, None
<1>9. hits = {} => v = None
  BY DEF ModelOf
<1>10. \A k \in hits : hits = {k} => v = Scaled(hs[k].means, 1)
  <2> HIDE DEF hits
  <2> QED
    BY <1>3, <1>6, <1>7, OnlyOne
<1>11. ModelOf(parse_type_label_raw(body)) = v
  BY <1>1
<1> HIDE DEF hits, v
<1> QED
  BY <1>2, <1>7, <1>8, <1>9, <1>10, <1>11, OneShown DEF recs

\* The records are as long as the query's parser takes them.
RecordsFor(kind, body) ==
    IF kind \in {"EnergyProduction", "OperationTime"} THEN for_each_16_record(body)
    ELSE IF kind = "TypeLabel" THEN Chunks(records_region(body), 40)
    ELSE for_each_28_record(body)

Publish(kind, body) ==
    IF kind \in OneShotKinds THEN publish_one_shot(kind, body)
    ELSE publish_query_result(kind, body)

\* All registers a query is for have their key among these.
KeysOf(kind, keys) == \A reg \in Registers : reg.kind = kind => reg.key \in keys

LEMMA KeysCovered ==
    ASSUME NEW recs, NEW hs, Carries(recs, hs), NEW kind, NEW keys, KeysOf(kind, keys)
    PROVE  \A k \in DOMAIN hs : hs[k].reg.kind = kind => hs[k].reg.key \in keys
BY DEF Carries, Holds, KeysOf

LEMMA SpotsPublished ==
    ASSUME NEW kind \in {"SpotAcTotalPower", "SpotAcPower", "SpotAcVoltage", "InverterTemperature"},
           NEW body, NEW hs, Carries(for_each_28_record(body), hs)
    PROVE  Faithful(Publish(kind, body), kind, hs)
<1>1. CASE kind = "SpotAcTotalPower"
  <2> DEFINE fields == parse_spot_ac_total_power(body)
             keys == {"ac_power"}
  <2>1. Publish(kind, body) = Some(fields) /\ DOMAIN fields = keys
    BY <1>1 DEF Publish, publish_query_result, OneShotKinds, parse_spot_ac_total_power
  <2>2. KeysOf(kind, keys)
    BY <1>1, RFields, SMT DEF Registers, KeysOf
  <2>3. Shown(fields.ac_power, kind, "ac_power", hs)
    <3>1. Owns(\h263F00 + 1, kind, "ac_power", "i32", 1) /\ Alone(\h263F00)
      BY <1>1, RFields, SMT DEF Registers, Owns, Alone, Lri
    <3> QED
      BY <3>1, SpotShown, SMT DEF parse_spot_ac_total_power
  <2> HIDE DEF fields
  <2>4. \A key \in DOMAIN fields : Shown(fields[key], kind, key, hs)
    BY <2>1, <2>3
  <2> QED
    BY <2>1, <2>2, <2>4, KeysCovered, Published
<1>2. CASE kind = "SpotAcPower"
  <2> DEFINE fields == parse_spot_ac_power(body)
             keys == {"ac_power_l1", "ac_power_l2", "ac_power_l3"}
  <2>1. Publish(kind, body) = Some(fields) /\ DOMAIN fields = keys
    BY <1>2 DEF Publish, publish_query_result, OneShotKinds, parse_spot_ac_power
  <2>2. KeysOf(kind, keys)
    BY <1>2, RFields, SMT DEF Registers, KeysOf
  <2>3. Shown(fields.ac_power_l1, kind, "ac_power_l1", hs)
    <3>1. Owns(\h464000 + 1, kind, "ac_power_l1", "i32", 1) /\ Alone(\h464000)
      BY <1>2, RFields, SMT DEF Registers, Owns, Alone, Lri
    <3> QED
      BY <3>1, SpotShown, SMT DEF parse_spot_ac_power
  <2>4. Shown(fields.ac_power_l2, kind, "ac_power_l2", hs)
    <3>1. Owns(\h464100 + 1, kind, "ac_power_l2", "i32", 1) /\ Alone(\h464100)
      BY <1>2, RFields, SMT DEF Registers, Owns, Alone, Lri
    <3> QED
      BY <3>1, SpotShown, SMT DEF parse_spot_ac_power
  <2>5. Shown(fields.ac_power_l3, kind, "ac_power_l3", hs)
    <3>1. Owns(\h464200 + 1, kind, "ac_power_l3", "i32", 1) /\ Alone(\h464200)
      BY <1>2, RFields, SMT DEF Registers, Owns, Alone, Lri
    <3> QED
      BY <3>1, SpotShown, SMT DEF parse_spot_ac_power
  <2> HIDE DEF fields
  <2>6. \A key \in DOMAIN fields : Shown(fields[key], kind, key, hs)
    BY <2>1, <2>3, <2>4, <2>5
  <2> QED
    BY <2>1, <2>2, <2>6, KeysCovered, Published
<1>3. CASE kind = "SpotAcVoltage"
  <2> DEFINE fields == parse_spot_ac_voltage(body)
             keys == {"ac_voltage_l1", "ac_voltage_l2", "ac_voltage_l3", "ac_current_l1", "ac_current_l2", "ac_current_l3"}
  <2>1. Publish(kind, body) = Some(fields) /\ DOMAIN fields = keys
    BY <1>3 DEF Publish, publish_query_result, OneShotKinds, parse_spot_ac_voltage
  <2>2. KeysOf(kind, keys)
    BY <1>3, RFields, SMT DEF Registers, KeysOf
  <2>3. Shown(fields.ac_voltage_l1, kind, "ac_voltage_l1", hs)
    <3>1. Owns(\h464800 + 1, kind, "ac_voltage_l1", "i32", 100) /\ Alone(\h464800)
      BY <1>3, RFields, SMT DEF Registers, Owns, Alone, Lri
    <3> QED
      BY <3>1, SpotShown, SMT DEF parse_spot_ac_voltage
  <2>4. Shown(fields.ac_voltage_l2, kind, "ac_voltage_l2", hs)
    <3>1. Owns(\h464900 + 1, kind, "ac_voltage_l2", "i32", 100) /\ Alone(\h464900)
      BY <1>3, RFields, SMT DEF Registers, Owns, Alone, Lri
    <3> QED
      BY <3>1, SpotShown, SMT DEF parse_spot_ac_voltage
  <2>5. Shown(fields.ac_voltage_l3, kind, "ac_voltage_l3", hs)
    <3>1. Owns(\h464A00 + 1, kind, "ac_voltage_l3", "i32", 100) /\ Alone(\h464A00)
      BY <1>3, RFields, SMT DEF Registers, Owns, Alone, Lri
    <3> QED
      BY <3>1, SpotShown, SMT DEF parse_spot_ac_voltage
  <2>6. Shown(fields.ac_current_l1, kind, "ac_current_l1", hs)
    <3>1. Owns(\h465000 + 1, kind, "ac_current_l1", "i32", 1000) /\ Alone(\h465000)
      BY <1>3, RFields, SMT DEF Registers, Owns, Alone, Lri
    <3> QED
      BY <3>1, SpotShown, SMT DEF parse_spot_ac_voltage
  <2>7. Shown(fields.ac_current_l2, kind, "ac_current_l2", hs)
    <3>1. Owns(\h465100 + 1, kind, "ac_current_l2", "i32", 1000) /\ Alone(\h465100)
      BY <1>3, RFields, SMT DEF Registers, Owns, Alone, Lri
    <3> QED
      BY <3>1, SpotShown, SMT DEF parse_spot_ac_voltage
  <2>8. Shown(fields.ac_current_l3, kind, "ac_current_l3", hs)
    <3>1. Owns(\h465200 + 1, kind, "ac_current_l3", "i32", 1000) /\ Alone(\h465200)
      BY <1>3, RFields, SMT DEF Registers, Owns, Alone, Lri
    <3> QED
      BY <3>1, SpotShown, SMT DEF parse_spot_ac_voltage
  <2> HIDE DEF fields
  <2>9. \A key \in DOMAIN fields : Shown(fields[key], kind, key, hs)
    BY <2>1, <2>3, <2>4, <2>5, <2>6, <2>7, <2>8
  <2> QED
    BY <2>1, <2>2, <2>9, KeysCovered, Published
<1>4. CASE kind = "InverterTemperature"
  <2> DEFINE fields == parse_inverter_temperature(body)
             keys == {"temperature"}
  <2>1. Publish(kind, body) = Some(fields) /\ DOMAIN fields = keys
    BY <1>4 DEF Publish, publish_query_result, OneShotKinds, parse_inverter_temperature
  <2>2. KeysOf(kind, keys)
    BY <1>4, RFields, SMT DEF Registers, KeysOf
  <2>3. Shown(fields.temperature, kind, "temperature", hs)
    <3>1. Owns(\h237700 + 1, kind, "temperature", "i32", 100) /\ Alone(\h237700)
      BY <1>4, RFields, SMT DEF Registers, Owns, Alone, Lri
    <3> QED
      BY <3>1, SpotShown, SMT DEF parse_inverter_temperature
  <2> HIDE DEF fields
  <2>4. \A key \in DOMAIN fields : Shown(fields[key], kind, key, hs)
    BY <2>1, <2>3
  <2> QED
    BY <2>1, <2>2, <2>4, KeysCovered, Published
<1> QED
  BY <1>1, <1>2, <1>3, <1>4

LEMMA CountersPublished ==
    ASSUME NEW kind \in {"EnergyProduction", "OperationTime"}, NEW body, NEW hs,
           Carries(for_each_16_record(body), hs)
    PROVE  Faithful(Publish(kind, body), kind, hs)
<1>1. CASE kind = "EnergyProduction"
  <2> DEFINE fields == parse_energy_production(body)
             keys == {"energy_today", "energy_lifetime"}
  <2>1. Publish(kind, body) = Some(fields) /\ DOMAIN fields = keys
    BY <1>1 DEF Publish, publish_query_result, OneShotKinds, parse_energy_production
  <2>2. KeysOf(kind, keys)
    BY <1>1, RFields, SMT DEF Registers, KeysOf
  <2>3. Shown(fields.energy_today, kind, "energy_today", hs)
    <3>1. Owns(\h262200 + 1, kind, "energy_today", "u64", 1000) /\ Alone(\h262200)
      BY <1>1, RFields, SMT DEF Registers, Owns, Alone, Lri
    <3> QED
      BY <3>1, CounterShown, SMT DEF parse_energy_production
  <2>4. Shown(fields.energy_lifetime, kind, "energy_lifetime", hs)
    <3>1. Owns(\h260100 + 1, kind, "energy_lifetime", "u64", 1000) /\ Alone(\h260100)
      BY <1>1, RFields, SMT DEF Registers, Owns, Alone, Lri
    <3> QED
      BY <3>1, CounterShown, SMT DEF parse_energy_production
  <2> HIDE DEF fields
  <2>5. \A key \in DOMAIN fields : Shown(fields[key], kind, key, hs)
    BY <2>1, <2>3, <2>4
  <2> QED
    BY <2>1, <2>2, <2>5, KeysCovered, Published
<1>2. CASE kind = "OperationTime"
  <2> DEFINE fields == parse_operation_time(body)
             keys == {"operation_time", "feed_in_time"}
  <2>1. Publish(kind, body) = Some(fields) /\ DOMAIN fields = keys
    BY <1>2 DEF Publish, publish_query_result, OneShotKinds, parse_operation_time
  <2>2. KeysOf(kind, keys)
    BY <1>2, RFields, SMT DEF Registers, KeysOf
  <2>3. Shown(fields.operation_time, kind, "operation_time", hs)
    <3>1. Owns(\h462E00 + 1, kind, "operation_time", "u64", 3600) /\ Alone(\h462E00)
      BY <1>2, RFields, SMT DEF Registers, Owns, Alone, Lri
    <3> QED
      BY <3>1, CounterShown, SMT DEF parse_operation_time
  <2>4. Shown(fields.feed_in_time, kind, "feed_in_time", hs)
    <3>1. Owns(\h462F00 + 1, kind, "feed_in_time", "u64", 3600) /\ Alone(\h462F00)
      BY <1>2, RFields, SMT DEF Registers, Owns, Alone, Lri
    <3> QED
      BY <3>1, CounterShown, SMT DEF parse_operation_time
  <2> HIDE DEF fields
  <2>5. \A key \in DOMAIN fields : Shown(fields[key], kind, key, hs)
    BY <2>1, <2>3, <2>4
  <2> QED
    BY <2>1, <2>2, <2>5, KeysCovered, Published
<1> QED
  BY <1>1, <1>2

LEMMA StringsPublished ==
    ASSUME NEW kind \in {"SpotDcPower", "SpotDcVoltage"}, NEW body, NEW hs,
           Carries(for_each_28_record(body), hs)
    PROVE  Faithful(Publish(kind, body), kind, hs)
<1>1. CASE kind = "SpotDcPower"
  <2> DEFINE fields == parse_spot_dc_power(body)
             keys == {"dc_power_s1", "dc_power_s2"}
  <2>1. Publish(kind, body) = Some(fields) /\ DOMAIN fields = keys
    BY <1>1 DEF Publish, publish_query_result, OneShotKinds, parse_spot_dc_power, Restrict
  <2>2. KeysOf(kind, keys)
    BY <1>1, RFields, SMT DEF Registers, KeysOf
  <2>3. Shown(fields.dc_power_s1, kind, "dc_power_s1", hs)
    <3>1. /\ Owns(\h251E00 + 1, kind, "dc_power_s1", "i32", 1)
          /\ \A reg \in Registers :
               Lri(reg) = \h251E00 /\ Cls(reg) = 1 <=> reg.addr = \h251E00 + 1
      BY <1>1, RFields, SMT DEF Registers, Owns, Lri, Cls
    <3> QED
      BY <3>1, StringShown, SMT DEF parse_spot_dc_power, parse_dc_block, Restrict
  <2>4. Shown(fields.dc_power_s2, kind, "dc_power_s2", hs)
    <3>1. /\ Owns(\h251E00 + 2, kind, "dc_power_s2", "i32", 1)
          /\ \A reg \in Registers :
               Lri(reg) = \h251E00 /\ Cls(reg) = 2 <=> reg.addr = \h251E00 + 2
      BY <1>1, RFields, SMT DEF Registers, Owns, Lri, Cls
    <3> QED
      BY <3>1, StringShown, SMT DEF parse_spot_dc_power, parse_dc_block, Restrict
  <2> HIDE DEF fields
  <2>5. \A key \in DOMAIN fields : Shown(fields[key], kind, key, hs)
    BY <2>1, <2>3, <2>4
  <2> QED
    BY <2>1, <2>2, <2>5, KeysCovered, Published
<1>2. CASE kind = "SpotDcVoltage"
  <2> DEFINE fields == parse_spot_dc_voltage(body)
             keys == {"dc_voltage_s1", "dc_voltage_s2", "dc_current_s1", "dc_current_s2"}
  <2>1. Publish(kind, body) = Some(fields) /\ DOMAIN fields = keys
    BY <1>2 DEF Publish, publish_query_result, OneShotKinds, parse_spot_dc_voltage, Restrict
  <2>2. KeysOf(kind, keys)
    BY <1>2, RFields, SMT DEF Registers, KeysOf
  <2>3. Shown(fields.dc_voltage_s1, kind, "dc_voltage_s1", hs)
    <3>1. /\ Owns(\h451F00 + 1, kind, "dc_voltage_s1", "i32", 100)
          /\ \A reg \in Registers :
               Lri(reg) = \h451F00 /\ Cls(reg) = 1 <=> reg.addr = \h451F00 + 1
      BY <1>2, RFields, SMT DEF Registers, Owns, Lri, Cls
    <3> QED
      BY <3>1, StringShown, SMT DEF parse_spot_dc_voltage, parse_dc_block, Restrict
  <2>4. Shown(fields.dc_voltage_s2, kind, "dc_voltage_s2", hs)
    <3>1. /\ Owns(\h451F00 + 2, kind, "dc_voltage_s2", "i32", 100)
          /\ \A reg \in Registers :
               Lri(reg) = \h451F00 /\ Cls(reg) = 2 <=> reg.addr = \h451F00 + 2
      BY <1>2, RFields, SMT DEF Registers, Owns, Lri, Cls
    <3> QED
      BY <3>1, StringShown, SMT DEF parse_spot_dc_voltage, parse_dc_block, Restrict
  <2>5. Shown(fields.dc_current_s1, kind, "dc_current_s1", hs)
    <3>1. /\ Owns(\h452100 + 1, kind, "dc_current_s1", "i32", 1000)
          /\ \A reg \in Registers :
               Lri(reg) = \h452100 /\ Cls(reg) = 1 <=> reg.addr = \h452100 + 1
      BY <1>2, RFields, SMT DEF Registers, Owns, Lri, Cls
    <3> QED
      BY <3>1, StringShown, SMT DEF parse_spot_dc_voltage, parse_dc_block, Restrict
  <2>6. Shown(fields.dc_current_s2, kind, "dc_current_s2", hs)
    <3>1. /\ Owns(\h452100 + 2, kind, "dc_current_s2", "i32", 1000)
          /\ \A reg \in Registers :
               Lri(reg) = \h452100 /\ Cls(reg) = 2 <=> reg.addr = \h452100 + 2
      BY <1>2, RFields, SMT DEF Registers, Owns, Lri, Cls
    <3> QED
      BY <3>1, StringShown, SMT DEF parse_spot_dc_voltage, parse_dc_block, Restrict
  <2> HIDE DEF fields
  <2>7. \A key \in DOMAIN fields : Shown(fields[key], kind, key, hs)
    BY <2>1, <2>3, <2>4, <2>5, <2>6
  <2> QED
    BY <2>1, <2>2, <2>7, KeysCovered, Published
<1> QED
  BY <1>1, <1>2

\* The queries with one field.
LEMMA FieldPublished ==
    ASSUME NEW kind, NEW body, NEW hs, NEW recs, Carries(recs, hs), NEW fields, NEW key,
           Publish(kind, body) = Some(fields), DOMAIN fields = {key}, KeysOf(kind, {key}),
           Shown(fields[key], kind, key, hs)
    PROVE  Faithful(Publish(kind, body), kind, hs)
BY KeysCovered, Published

LEMMA DiagnosticsPublished ==
    ASSUME NEW kind \in {"SpotGridFrequency", "DeviceStatus", "GridRelayStatus", "SpotCosPhi"},
           NEW body, NEW hs, Carries(for_each_28_record(body), hs)
    PROVE  Faithful(Publish(kind, body), kind, hs)
<1>1. CASE kind = "SpotGridFrequency"
  <2> DEFINE fields == parse_grid_frequency(body)
             key == "grid_frequency"
  <2>1. Publish(kind, body) = Some(fields) /\ DOMAIN fields = {key}
    BY <1>1 DEF Publish, publish_query_result, OneShotKinds, parse_grid_frequency
  <2>2. KeysOf(kind, {key})
    BY <1>1, RFields, SMT DEF Registers, KeysOf
  <2>3. Owns(FrequencyLri + 1, kind, key, "u32", 100) /\ Alone(FrequencyLri)
    BY <1>1, RFields, SMT DEF Registers, Owns, Alone, Lri, FrequencyLri
  <2>4. Shown(fields[key], kind, key, hs)
    BY <2>3, FrequencyShown
  <2> HIDE DEF fields, key
  <2> QED
    BY <2>1, <2>2, <2>4, FieldPublished
<1>2. CASE kind = "DeviceStatus"
  <2> DEFINE fields == parse_device_status(body)
             key == "inverter_state"
  <2>1. Publish(kind, body) = Some(fields) /\ DOMAIN fields = {key}
    BY <1>2 DEF Publish, publish_query_result, OneShotKinds, parse_device_status
  <2>2. KeysOf(kind, {key})
    BY <1>2, RFields, SMT DEF Registers, KeysOf
  <2>3. Owns(StatusLri + 1, kind, key, "status", 1) /\ Alone(StatusLri)
    BY <1>2, RFields, SMT DEF Registers, Owns, Alone, Lri, StatusLri
  <2>4. Shown(fields[key], kind, key, hs)
    BY <2>3, StatusShown
  <2> HIDE DEF fields, key
  <2> QED
    BY <2>1, <2>2, <2>4, FieldPublished
<1>3. CASE kind = "GridRelayStatus"
  <2> DEFINE fields == parse_grid_relay(body)
             key == "grid_relay"
  <2>1. Publish(kind, body) = Some(fields) /\ DOMAIN fields = {key}
    BY <1>3 DEF Publish, publish_query_result, OneShotKinds, parse_grid_relay
  <2>2. KeysOf(kind, {key})
    BY <1>3, RFields, SMT DEF Registers, KeysOf
  <2>3. Owns(RelayLri + 1, kind, key, "relay", 1) /\ Alone(RelayLri)
    BY <1>3, RFields, SMT DEF Registers, Owns, Alone, Lri, RelayLri
  <2>4. Shown(fields[key], kind, key, hs)
    BY <2>3, RelayShown
  <2> HIDE DEF fields, key
  <2> QED
    BY <2>1, <2>2, <2>4, FieldPublished
<1>4. CASE kind = "SpotCosPhi"
  <2> DEFINE fields == parse_cosphi(body)
             key == "cos_phi"
  <2>1. Publish(kind, body) = Some(fields) /\ DOMAIN fields = {key}
    BY <1>4 DEF Publish, publish_query_result, OneShotKinds, parse_cosphi
  <2>2. KeysOf(kind, {key})
    BY <1>4, RFields, SMT DEF Registers, KeysOf
  <2>3. \A reg \in Registers :
          /\ Lri(reg) \in CosPhiLris <=> reg.kind = kind /\ reg.key = key
          /\ reg.kind = kind /\ reg.key = key => reg.form = "magnitude" /\ reg.div = 1000
    BY <1>4, RFields, SMT DEF Registers, Owns, Alone, Lri, CosPhiLris
  <2>4. Shown(fields[key], kind, key, hs)
    BY <2>3, CosPhiShown
  <2> HIDE DEF fields, key
  <2> QED
    BY <2>1, <2>2, <2>4, FieldPublished
<1> QED
  BY <1>1, <1>2, <1>3, <1>4

LEMMA OneShotsPublished ==
    ASSUME NEW kind \in {"SoftwareVersion", "NominalAcPower", "MaxFeedInPower"},
           NEW body, NEW hs, Carries(for_each_28_record(body), hs)
    PROVE  Faithful(Publish(kind, body), kind, hs)
<1>1. CASE kind = "SoftwareVersion"
  <2> DEFINE fields == parse_software_version(body)
             key == "firmware_version"
  <2>1. Publish(kind, body) = Some(fields) /\ DOMAIN fields = {key}
    BY <1>1 DEF Publish, publish_one_shot, OneShotKinds, parse_software_version
  <2>2. KeysOf(kind, {key})
    BY <1>1, RFields, SMT DEF Registers, KeysOf
  <2>3. Owns(VersionLri + 1, kind, key, "version", 1) /\ Alone(VersionLri)
    BY <1>1, RFields, SMT DEF Registers, Owns, Alone, Lri, VersionLri
  <2>4. Shown(fields[key], kind, key, hs)
    BY <2>3, VersionShown
  <2> HIDE DEF fields, key
  <2> QED
    BY <2>1, <2>2, <2>4, FieldPublished
<1>2. CASE kind = "NominalAcPower"
  <2> DEFINE fields == [nominal_ac_power_w |-> parse_single_watts_record(body, \h411E00, \h411E19)]
             key == "nominal_ac_power_w"
  <2>1. Publish(kind, body) = Some(fields) /\ DOMAIN fields = {key}
    BY <1>2 DEF Publish, publish_one_shot, OneShotKinds
  <2>2. KeysOf(kind, {key})
    BY <1>2, RFields, SMT DEF Registers, KeysOf
  <2>3. /\ Owns(\h411E00 + 1, kind, key, "watts", 1)
        /\ \A reg \in Registers : Lri(reg) \in \h411E00..\h411E19 <=> reg.addr = \h411E00 + 1
    BY <1>2, RFields, SMT DEF Registers, Owns, Alone, Lri
  <2>4. Shown(fields[key], kind, key, hs)
    BY <2>3, WattsShown, SMT
  <2> HIDE DEF fields, key
  <2> QED
    BY <2>1, <2>2, <2>4, FieldPublished
<1>3. CASE kind = "MaxFeedInPower"
  <2> DEFINE fields == [max_feedin_w |-> parse_single_watts_record(body, \h411F00, \h411F19)]
             key == "max_feedin_w"
  <2>1. Publish(kind, body) = Some(fields) /\ DOMAIN fields = {key}
    BY <1>3 DEF Publish, publish_one_shot, OneShotKinds
  <2>2. KeysOf(kind, {key})
    BY <1>3, RFields, SMT DEF Registers, KeysOf
  <2>3. /\ Owns(\h411F00 + 1, kind, key, "watts", 1)
        /\ \A reg \in Registers : Lri(reg) \in \h411F00..\h411F19 <=> reg.addr = \h411F00 + 1
    BY <1>3, RFields, SMT DEF Registers, Owns, Alone, Lri
  <2>4. Shown(fields[key], kind, key, hs)
    BY <2>3, WattsShown, SMT
  <2> HIDE DEF fields, key
  <2> QED
    BY <2>1, <2>2, <2>4, FieldPublished
<1> QED
  BY <1>1, <1>2, <1>3

LEMMA LabelPublished ==
    ASSUME NEW kind, kind = "TypeLabel", NEW body, NEW hs,
           Carries(Chunks(records_region(body), 40), hs)
    PROVE  Faithful(Publish(kind, body), kind, hs)
<1> DEFINE fields == [inverter_model |-> ModelOf(parse_type_label_raw(body))]
           key == "inverter_model"
<1>1. Publish(kind, body) = Some(fields) /\ DOMAIN fields = {key}
  BY DEF Publish, publish_one_shot, OneShotKinds, ModelOf
<1>2. KeysOf(kind, {key})
  BY RFields, SMT DEF Registers, KeysOf
<1>3. /\ Owns(LabelLri + 1, kind, key, "label", 1)
      /\ \A reg \in Registers : Lri(reg) \in LabelLris <=> reg.addr = LabelLri + 1
  BY RFields, SMT DEF Registers, Owns, Lri, LabelLri, LabelLris
<1>4. Shown(fields[key], kind, key, hs)
  BY <1>3, LabelShown, SMT
<1> HIDE DEF fields, key
<1> QED
  BY <1>1, <1>2, <1>4, FieldPublished

\* Queries the daemon has no parser for.
LEMMA NothingPublished ==
    ASSUME NEW kind \in {"BatteryChargeStatus", "BatteryInfo", "MeteringGridTotalW"},
           NEW body, NEW hs, NEW recs, Carries(recs, hs)
    PROVE  Faithful(Publish(kind, body), kind, hs)
<1> DEFINE fields == <<>>
<1>1. Publish(kind, body) = Some(fields) /\ DOMAIN fields = {}
  BY DEF Publish, publish_query_result, OneShotKinds
<1>2. KeysOf(kind, {})
  BY RFields, SMT DEF Registers, KeysOf
<1> HIDE DEF fields
<1> QED
  BY <1>1, <1>2, KeysCovered, Published

LEMMA QueryPublished ==
    ASSUME NEW kind \in QueryKind, NEW body, NEW hs, Carries(RecordsFor(kind, body), hs)
    PROVE  Faithful(Publish(kind, body), kind, hs)
<1>1. CASE kind \in {"SpotAcTotalPower", "SpotAcPower", "SpotAcVoltage", "InverterTemperature"}
  BY <1>1, SpotsPublished DEF RecordsFor
<1>2. CASE kind \in {"EnergyProduction", "OperationTime"}
  BY <1>2, CountersPublished DEF RecordsFor
<1>3. CASE kind \in {"SpotDcPower", "SpotDcVoltage"}
  BY <1>3, StringsPublished DEF RecordsFor
<1>4. CASE kind \in {"SpotGridFrequency", "DeviceStatus", "GridRelayStatus", "SpotCosPhi"}
  BY <1>4, DiagnosticsPublished DEF RecordsFor
<1>5. CASE kind \in {"SoftwareVersion", "NominalAcPower", "MaxFeedInPower"}
  BY <1>5, OneShotsPublished DEF RecordsFor
<1>6. CASE kind = "TypeLabel"
  BY <1>6, LabelPublished DEF RecordsFor
<1>7. CASE kind \in {"BatteryChargeStatus", "BatteryInfo", "MeteringGridTotalW"}
  BY <1>7, NothingPublished
<1> QED
  BY <1>1, <1>2, <1>3, <1>4, <1>5, <1>6, <1>7 DEF QueryKind

-----------------------------------------------------------------------------
(* What a record says is what the register means. *)

WordsAt(rec, ws) == \A k \in 1..Len(ws) : Word(rec, 4 + 4 * k) = ws[k]

LEMMA RecordWordsAt ==
    ASSUME NEW rec, NEW a, NEW ws \in Seq(Words4), IsRecord(rec, a, ws)
    PROVE  WordsAt(rec, ws)
<1> SUFFICES ASSUME NEW k \in 1..Len(ws) PROVE Word(rec, 4 + 4 * k) = ws[k]
  BY DEF WordsAt
<1> DEFINE at == 8 + 4 * (k - 1)
           off == 4 + 4 * k
           x == ws[k]
<1>1. at = off
  OBVIOUS
<1>2. Piece(rec, at, x)
  BY DEF IsRecord
<1>3. Len(x) = 4
  <2>1. x \in Words4
    BY ElementOfSeq
  <2> QED
    BY <2>1 DEF Words4
<1> HIDE DEF at, off, x
<1>4. Slice(rec, off, off + 4) = x
  BY <1>1, <1>2, <1>3 DEF Piece
<1> QED
  BY <1>4 DEF Word, off, x

\* The words of a record by their offsets.
Slots(rec, a, b, c, d, e) ==
    /\ Word(rec, 8) = a /\ Word(rec, 12) = b /\ Word(rec, 16) = c
    /\ Word(rec, 20) = d /\ Word(rec, 24) = e

LEMMA FiveSlots ==
    ASSUME NEW rec, NEW ws, WordsAt(rec, ws), Len(ws) = 5
    PROVE  Slots(rec, ws[1], ws[2], ws[3], ws[4], ws[5])
<1>1. 1 \in 1..5 /\ 2 \in 1..5 /\ 3 \in 1..5 /\ 4 \in 1..5 /\ 5 \in 1..5
  OBVIOUS
<1>2. \A k \in 1..5 : Word(rec, 4 + 4 * k) = ws[k]
  BY DEF WordsAt
<1>3. 4 + 4 * 1 = 8 /\ 4 + 4 * 2 = 12 /\ 4 + 4 * 3 = 16 /\ 4 + 4 * 4 = 20 /\ 4 + 4 * 5 = 24
  OBVIOUS
<1> QED
  BY <1>1, <1>2, <1>3 DEF Slots

LEMMA ByteOfWord ==
    ASSUME NEW w \in Words4
    PROVE  w[1] \in U8 /\ w[2] \in U8 /\ w[3] \in U8 /\ w[4] \in U8
<1>1. w \in Seq(U8) /\ Len(w) = 4
  BY DEF Words4, Bytes
<1>2. 1 \in 1..4 /\ 2 \in 1..4 /\ 3 \in 1..4 /\ 4 \in 1..4
  OBVIOUS
<1> QED
  BY <1>1, <1>2, ElementOfSeq

LEMMA WordSome ==
    ASSUME NEW w \in Words4
    PROVE  w # None
<1>1. Len(w) = 4
  BY DEF Words4
<1>2. Len(None) = 0
  BY DEF None
<1> QED
  BY ONLY <1>1, <1>2, SMT

\* unsigned_abs on bytes is the absolute value on halves.
LEMMA MagnitudeIs ==
    ASSUME NEW w \in Words4
    PROVE  Magnitude(w) = Absolute(w)
<1>0. w # None
  BY WordSome
<1>1. CASE w[4] < 128
  BY <1>1 DEF Magnitude, Absolute
<1>2. CASE ~ (w[4] < 128)
  <2> DEFINE a == w[1]
             b == w[2]
             c == w[3]
             d == w[4]
             lo == a + 256 * b
             hi == c + 256 * d
             x == (65536 - lo) % 65536
             y == (IF lo = 0 THEN 65536 - hi ELSE 65535 - hi) % 65536
             m == Magnitude(w)
             p == LE16(x)
             q == LE16(y)
             r == p \o q
  <2>1. a \in U8 /\ b \in U8 /\ c \in U8 /\ d \in U8
    BY ByteOfWord
  <2>2. Absolute(w) = r
    BY <1>2, SMT DEF Absolute, U16
  <2>3. m = [i \in 1..4 |->
               (255 - w[i] + (IF \A j \in 1..(i - 1) : w[j] = 0 THEN 1 ELSE 0)) % 256]
    BY <1>0, <1>2 DEF Magnitude
  <2>4. /\ m[1] = (256 - a) % 256
        /\ m[2] = (255 - b + (IF a = 0 THEN 1 ELSE 0)) % 256
        /\ m[3] = (255 - c + (IF a = 0 /\ b = 0 THEN 1 ELSE 0)) % 256
        /\ m[4] = (255 - d + (IF a = 0 /\ b = 0 /\ c = 0 THEN 1 ELSE 0)) % 256
    <3> HIDE DEF m
    <3>1. /\ \A j \in 1..(1 - 1) : w[j] = 0
          /\ (\A j \in 1..(2 - 1) : w[j] = 0) <=> w[1] = 0
          /\ (\A j \in 1..(3 - 1) : w[j] = 0) <=> w[1] = 0 /\ w[2] = 0
          /\ (\A j \in 1..(4 - 1) : w[j] = 0) <=> w[1] = 0 /\ w[2] = 0 /\ w[3] = 0
      OBVIOUS
    <3>2. 1 \in 1..4 /\ 2 \in 1..4 /\ 3 \in 1..4 /\ 4 \in 1..4
      OBVIOUS
    <3>3. m[1] = (255 - a + 1) % 256 /\ 255 - a + 1 = 256 - a
      BY <2>1, <2>3, <3>1, <3>2 DEF U8
    <3> QED
      BY <2>3, <3>1, <3>2, <3>3
  <2> HIDE DEF a, b, c, d
  <2>5. x \in Nat /\ y \in Nat
    BY <2>1, SMT DEF U8
  <2>6. /\ x % 256 = (256 - a) % 256
        /\ (x \div 256) % 256 = (255 - b + (IF a = 0 THEN 1 ELSE 0)) % 256
    BY <2>1, SMT DEF U8
  <2>7. /\ y % 256 = (255 - c + (IF a = 0 /\ b = 0 THEN 1 ELSE 0)) % 256
        /\ (y \div 256) % 256 = (255 - d + (IF a = 0 /\ b = 0 /\ c = 0 THEN 1 ELSE 0)) % 256
    BY <2>1, SMT DEF U8
  <2> HIDE DEF x, y
  <2>8. p \in Bytes /\ Len(p) = 2 /\ p[1] = m[1] /\ p[2] = m[2]
    BY <2>4, <2>5, <2>6, LE16Type
  <2>9. q \in Bytes /\ Len(q) = 2 /\ q[1] = m[3] /\ q[2] = m[4]
    BY <2>4, <2>5, <2>7, LE16Type
  <2> HIDE DEF p, q
  <2>10. Joined(r, p, 2, q, 2)
    BY <2>8, <2>9, Join
  <2> HIDE DEF r
  <2>11. r \in Bytes /\ Len(r) = 4 /\ r[1] = m[1] /\ r[2] = m[2] /\ r[2 + 1] = m[3] /\ r[2 + 2] = m[4]
    <3>1. 1 \in 1..2 /\ 2 \in 1..2
      OBVIOUS
    <3> QED
      BY <2>8, <2>9, <2>10, <3>1 DEF Joined
  <2>12. r = [i \in 1..4 |-> m[i]]
    <3>1. \A i \in 1..4 : r[i] = m[i]
      BY <2>11
    <3> QED
      BY <2>11, <3>1 DEF Bytes
  <2>13. m = [i \in 1..4 |-> m[i]]
    BY <2>3
  <2> QED
    BY <2>2, <2>12, <2>13
<1> QED
  BY <1>1, <1>2

LEMMA SpotReads ==
    ASSUME NEW form \in Spots, NEW x \in SpotContents(form), NEW short \in BOOLEAN, NEW rec,
           WordsAt(rec, RecordWords(x.words, short))
    PROVE  Reads(rec, form, x.means)
<1>1. PICK w \in Words4 : /\ x.words = <<Noise, Noise, w, Noise, Noise>>
                          /\ x.means = SpotMeans(form, w)
  BY SpotContent
<1> DEFINE words == <<Noise, Noise, w, Noise, Noise>>
           ws == RecordWords(words, short)
<1>2. words \in Seq(Words4) /\ Len(words) = 5 /\ words[3] = w
  BY FixedWords
<1>3. Len(ws) >= 3 /\ Len(ws) \in Nat /\ ws[3] = w
  <2> HIDE DEF words
  <2>1. CASE short = TRUE
    <3>1. ws = SubSeq(words, 1, 3)
      BY <2>1 DEF RecordWords
    <3> HIDE DEF ws
    <3>2. Len(SubSeq(words, 1, 3)) = 3 /\ SubSeq(words, 1, 3)[3] = words[3]
      BY <1>2
    <3> QED
      BY <1>2, <3>1, <3>2
  <2>2. CASE short = FALSE
    <3>1. ws = words
      BY <2>2 DEF RecordWords
    <3> HIDE DEF ws
    <3>2. Len(ws) = 5 /\ ws[3] = w
      BY <1>2, <3>1, Zenon
    <3> QED
      BY <3>2
  <2> QED
    BY <2>1, <2>2
<1>4. WordsAt(rec, ws)
  BY <1>1
<1> HIDE DEF ws
<1>5. Word(rec, 16) = w
  <2>1. 3 \in 1..Len(ws) /\ 4 + 4 * 3 = 16
    BY <1>3
  <2> QED
    BY <1>3, <1>4, <2>1 DEF WordsAt
<1>6. I32_NAN # U32_NAN
  <2>1. I32_NAN[1] = 0 /\ U32_NAN[1] = 255
    BY DEF I32_NAN, U32_NAN
  <2> QED
    BY <2>1
<1>7. form \in {"i32", "u32", "magnitude"}
  BY DEF Spots
<1>8. CASE form = "i32"
  <2>1. x.means = IF w = I32_NAN THEN <<>> ELSE w
    BY <1>1, <1>8 DEF SpotMeans
  <2>2. i32_value_28(rec) = x.means
    BY <1>5, <2>1 DEF i32_value_28, None
  <2> QED
    BY <1>8, <2>2 DEF Reads
<1>9. CASE form = "u32"
  <2>1. x.means = IF w = I32_NAN \/ w = U32_NAN THEN <<>> ELSE w
    BY <1>1, <1>6, <1>9 DEF SpotMeans
  <2>2. u32_value_28(rec) = x.means
    BY <1>5, <2>1 DEF u32_value_28, None
  <2> QED
    BY <1>9, <2>2 DEF Reads
<1>10. CASE form = "magnitude"
  <2>1. x.means = IF w = I32_NAN THEN <<>> ELSE Absolute(w)
    BY <1>1, <1>6, <1>10 DEF SpotMeans
  <2>2. i32_value_28(rec) = IF w = I32_NAN THEN None ELSE w
    BY <1>5 DEF i32_value_28
  <2>3. Magnitude(None) = None /\ Magnitude(w) = Absolute(w)
    BY MagnitudeIs, MagnitudeNone
  <2>4. Magnitude(i32_value_28(rec)) = x.means
    BY <2>1, <2>2, <2>3 DEF None
  <2> QED
    BY <1>10, <2>4 DEF Reads
<1> QED
  BY <1>7, <1>8, <1>9, <1>10

LEMMA CounterReads ==
    ASSUME NEW x \in CounterContents, NEW rec, NEW a, IsRecord(rec, a, x.words)
    PROVE  Reads(rec, "u64", x.means)
<1>1. PICK c \in Bytes : /\ Len(c) = 8 /\ Slice(c, 0, 4) \in Words4 /\ Slice(c, 4, 8) \in Words4
                         /\ x.words = <<Slice(c, 0, 4), Slice(c, 4, 8)>>
                         /\ x.means = IF c \in {U64_NAN, U64_MAX} THEN <<>> ELSE c
  BY CounterContent
<1> DEFINE l == Slice(c, 0, 4)
           h == Slice(c, 4, 8)
           ws == <<l, h>>
<1>2. c = l \o h
  <2>1. 4 \in Nat /\ 4 <= Len(c)
    BY <1>1
  <2>2. c = Slice(c, 0, 4) \o Drop(c, 4)
    BY <2>1, SplitAt
  <2>3. Drop(c, 4) = Slice(c, 4, 8)
    BY <1>1 DEF Drop, Slice
  <2> QED
    BY <2>2, <2>3
<1>3. l \in Words4 /\ h \in Words4 /\ IsRecord(rec, a, ws)
  BY <1>1
<1> HIDE DEF l, h
<1>4. Len(ws) = 2 /\ ws[1] = l /\ ws[2] = h
  OBVIOUS
<1> HIDE DEF ws
<1>5. rec \in Bytes /\ \A k \in 1..2 : Piece(rec, 8 + 4 * (k - 1), ws[k])
  BY <1>3, <1>4 DEF IsRecord
<1>6. Piece(rec, 8, l) /\ Piece(rec, 12, h)
  <2>1. 1 \in 1..2 /\ 2 \in 1..2 /\ 8 + 4 * (1 - 1) = 8 /\ 8 + 4 * (2 - 1) = 12
    OBVIOUS
  <2> QED
    BY <1>4, <1>5, <2>1
<1>7. l \in Bytes /\ Len(l) = 4 /\ 12 = 8 + Len(l)
  <2>1. l \in Bytes /\ Len(l) = 4
    BY <1>3 DEF Words4
  <2> QED
    BY <2>1
<1>8. Piece(rec, 8, l \o h)
  BY <1>5, <1>6, <1>7, PieceTwo
<1>9. Slice(rec, 8, 16) = c
  <2>1. Piece(rec, 8, c) /\ 8 + Len(c) = 16
    BY <1>1, <1>2, <1>8
  <2> QED
    BY <2>1 DEF Piece
<1>10. u64_value_16(rec) = x.means
  BY <1>1, <1>9 DEF u64_value_16, None
<1> QED
  BY <1>10 DEF Reads

LEMMA TagIs ==
    ASSUME NEW a \in U8, NEW b \in U8, NEW c \in U8, NEW d \in U8
    PROVE  /\ Tag(<<a, b, c, d>>) = <<a, b, c>>
           /\ TagNumber(Tag(<<a, b, c, d>>)) = a + 256 * b + 65536 * c
<1> DEFINE w == <<a, b, c, d>>
<1>1. w \in Seq(U8) /\ Len(w) = 4
  OBVIOUS
<1>2. Tag(w) = <<a, b, c>>
  <2> DEFINE s == Slice(w, 0, 3)
             t == <<a, b, c>>
  <2>1. Tag(w) = s
    BY DEF Tag
  <2>2. s \in Seq(U8) /\ Len(s) = 3 /\ \A i \in 1..3 : s[i] = w[i]
    <3> DEFINE z == 0
               m == 3
    <3>1. z \in Nat /\ m \in Nat /\ z <= m /\ m <= Len(w) /\ m - z = 3 /\ w \in Bytes
      BY <1>1 DEF Bytes
    <3>2. \A i \in 1..3 : z + i = i
      OBVIOUS
    <3> HIDE DEF w, z, m
    <3>3. /\ Slice(w, z, m) \in Bytes /\ Len(Slice(w, z, m)) = m - z
          /\ \A i \in 1..(m - z) : Slice(w, z, m)[i] = w[z + i]
      BY <3>1, SliceType
    <3>4. \A i \in 1..3 : Slice(w, z, m)[i] = w[z + i]
      BY <3>1, <3>3
    <3> QED
      BY <3>1, <3>2, <3>3, <3>4 DEF Bytes, z, m
  <2>3. t \in Seq(U8) /\ Len(t) = 3 /\ \A i \in 1..3 : t[i] = w[i]
    <3>1. t[1] = w[1] /\ t[2] = w[2] /\ t[3] = w[3]
      OBVIOUS
    <3>2. \A i \in 1..3 : i = 1 \/ i = 2 \/ i = 3
      OBVIOUS
    <3>3. t \in Seq(U8) /\ Len(t) = 3
      OBVIOUS
    <3> HIDE DEF t, w
    <3> QED
      BY <3>1, <3>2, <3>3
  <2> HIDE DEF s, t, w
  <2>4. s = t
    BY <2>2, <2>3, SeqEqual
  <2> QED
    BY <2>1, <2>4 DEF t
<1>3. TagNumber(<<a, b, c>>) = a + 256 * b + 65536 * c
  BY SMT DEF TagNumber
<1> QED
  BY <1>2, <1>3

LEMMA StateIs ==
    ASSUME NEW l \in U8, NEW h \in U8, NEW mark \in {0, 1}
    PROVE  State(l + 256 * h, mark) = <<l, h, 0, mark>>
<1> DEFINE n == l + 256 * h
           a == LE16(n)
           b == <<0, mark>>
           c == a \o b
<1>1. n \in U16s /\ n % 256 = l /\ n \div 256 = h
  BY U16FromHalves
<1>2. (n \div 256) % 256 = n \div 256 /\ n \in Nat
  <2>1. n \in Nat
    BY SMT DEF U8
  <2> HIDE DEF n
  <2> QED
    BY <1>1, <2>1, U16Halves
<1> HIDE DEF n
<1>3. a \in Bytes /\ Len(a) = 2 /\ a[1] = l /\ a[2] = h
  BY <1>1, <1>2, LE16Type
<1>4. b \in Bytes /\ Len(b) = 2 /\ b[1] = 0 /\ b[2] = mark
  BY DEF Bytes, U8
<1>5. State(n, mark) = c
  BY DEF State
<1> HIDE DEF a, b
<1>6. Joined(c, a, 2, b, 2)
  BY <1>3, <1>4, Join
<1> HIDE DEF c
<1>7. c \in Bytes /\ Len(c) = 4 /\ c[1] = l /\ c[2] = h /\ c[2 + 1] = 0 /\ c[2 + 2] = mark
  <2>1. 1 \in 1..2 /\ 2 \in 1..2
    OBVIOUS
  <2> QED
    BY <1>3, <1>4, <1>6, <2>1 DEF Joined
<1>8. c \in Words4
  BY <1>7 DEF Words4
<1>9. c = <<l, h, 0, mark>>
  BY <1>7, <1>8, Quad
<1> QED
  BY <1>5, <1>9 DEF n

\* Words that are no watts: their first byte says so.
Blank == {Zeros(4), I32_NAN, U32_NAN}
WattsAt(rec, off) == IF Word(rec, off) \in Blank THEN None ELSE Word(rec, off)

LEMMA BlankFirst ==
    /\ \A w \in Blank : w[1] \in {0, 255}
    /\ Zeros(4)[1] = 0 /\ Zeros(4)[4] = 0 /\ U32_NAN[1] = 255
<1>1. Zeros(4)[1] = 0 /\ Zeros(4)[4] = 0
  BY DEF Zeros
<1>2. I32_NAN[1] = 0 /\ U32_NAN[1] = 255
  BY DEF I32_NAN, U32_NAN
<1> QED
  BY <1>1, <1>2 DEF Blank

LEMMA FirstWattsIs ==
    ASSUME NEW rec, Len(rec) = 28
    PROVE  /\ WattsAt(rec, 16) = None /\ WattsAt(rec, 8) # None => FirstWatts(rec) = WattsAt(rec, 8)
           /\ (\A off \in {16, 8, 12, 20, 24} : WattsAt(rec, off) = None) => FirstWatts(rec) = None
<1> DEFINE offs == [k \in 1..5 |-> <<16, 8, 12, 20, 24>>[k]]
           hits == {k \in DOMAIN offs : offs[k] + 4 <= Len(rec) /\ WattsAt(rec, offs[k]) # None}
<1>1. FirstWatts(rec) = IF hits = {} THEN None ELSE WattsAt(rec, offs[Min(hits)])
  BY DEF FirstWatts, FirstValue, WattsAt, Blank
<1>2. /\ DOMAIN offs = 1..5 /\ offs[1] = 16 /\ offs[2] = 8
      /\ \A k \in 1..5 : offs[k] \in {16, 8, 12, 20, 24}
  <2>1. offs[1] = 16 /\ offs[2] = 8 /\ offs[3] = 12 /\ offs[4] = 20 /\ offs[5] = 24
    OBVIOUS
  <2>2. DOMAIN offs = 1..5 /\ \A k \in 1..5 : k = 1 \/ k = 2 \/ k = 3 \/ k = 4 \/ k = 5
    OBVIOUS
  <2> HIDE DEF offs
  <2> QED
    BY <2>1, <2>2
<1> HIDE DEF offs
<1>3. ASSUME WattsAt(rec, 16) = None, WattsAt(rec, 8) # None
      PROVE  FirstWatts(rec) = WattsAt(rec, 8)
  <2>1. 2 \in hits /\ 1 \notin hits /\ hits \subseteq 1..5
    BY <1>2, <1>3
  <2> HIDE DEF hits
  <2>2. \A k \in hits : 2 <= k
    BY <2>1
  <2>3. Min(hits) = 2
    <3>1. hits \subseteq Nat
      BY <2>1
    <3> QED
      BY <2>1, <2>2, <3>1, MinIs
  <2> QED
    BY <1>1, <1>2, <2>1, <2>3
<1>4. ASSUME \A off \in {16, 8, 12, 20, 24} : WattsAt(rec, off) = None
      PROVE  FirstWatts(rec) = None
  <2>1. hits = {}
    BY <1>2, <1>4
  <2> QED
    BY <1>1, <2>1
<1> QED
  BY <1>3, <1>4

LEMMA WattsReads ==
    ASSUME NEW x \in WattsContents, NEW rec, Len(rec) = 28, WordsAt(rec, x.words)
    PROVE  Reads(rec, "watts", x.means)
<1>1. CASE \E n \in {LE32(3000), LE32(\h7E11)}, c \in {Zeros(4), U32_NAN} :
                /\ x.words = <<n, n, c, Zeros(4), Zeros(4)>> /\ x.means = n
  <2>1. PICK n \in {LE32(3000), LE32(\h7E11)}, c \in {Zeros(4), U32_NAN} :
                /\ x.words = <<n, n, c, Zeros(4), Zeros(4)>> /\ x.means = n
    BY <1>1
  <2>2. Slots(rec, n, n, c, Zeros(4), Zeros(4))
    <3> DEFINE z == Zeros(4)
               ws == <<n, n, c, z, z>>
    <3>1. Len(ws) = 5 /\ ws[1] = n /\ ws[2] = n /\ ws[3] = c /\ ws[4] = z /\ ws[5] = z
      OBVIOUS
    <3>2. WordsAt(rec, ws)
      BY <2>1
    <3> HIDE DEF ws
    <3> QED
      BY <3>1, <3>2, FiveSlots
  <2>3. n[1] \in {\hB8, \h11}
    <3>1. Value(3000, \hB8, \h0B, 0, 0) /\ Value(\h7E11, \h11, \h7E, 0, 0)
      BY SMT DEF Value, U8
    <3>2. LE32(3000) = <<\hB8, \h0B, 0, 0>> /\ LE32(\h7E11) = <<\h11, \h7E, 0, 0>>
      BY <3>1, LE32Is, SMT
    <3> QED
      BY <2>1, <3>2, SMT
  <2>4. WattsAt(rec, 16) = None /\ WattsAt(rec, 8) = n
    BY <2>1, <2>2, <2>3, BlankFirst, SMT DEF Slots, WattsAt, Blank
  <2>5. n # None
    <3>1. n \in Words4
      <4>1. 3000 \in Nat /\ \h7E11 \in Nat
        BY SMT
      <4> QED
        BY <2>1, <4>1, LE32Type, SMT
    <3> QED
      BY <3>1, WordSome
  <2>6. FirstWatts(rec) = n
    BY <2>4, <2>5, FirstWattsIs, SMT
  <2> QED
    BY <2>1, <2>6, SMT DEF Reads
<1>2. CASE /\ x.words = <<U32_NAN, U32_NAN, U32_NAN, U32_NAN, U32_NAN>>
           /\ x.means = <<>>
  <2> DEFINE ws == <<U32_NAN, U32_NAN, U32_NAN, U32_NAN, U32_NAN>>
  <2>1. /\ Len(ws) = 5 /\ ws[1] = U32_NAN /\ ws[2] = U32_NAN /\ ws[3] = U32_NAN
        /\ ws[4] = U32_NAN /\ ws[5] = U32_NAN
    OBVIOUS
  <2>2. WordsAt(rec, ws)
    BY <1>2
  <2> HIDE DEF ws
  <2>3. Slots(rec, U32_NAN, U32_NAN, U32_NAN, U32_NAN, U32_NAN)
    BY <2>1, <2>2, FiveSlots
  <2>4. \A off \in {16, 8, 12, 20, 24} : WattsAt(rec, off) = None
    BY <2>3 DEF Slots, WattsAt, Blank
  <2>5. FirstWatts(rec) = None
    BY <2>4, FirstWattsIs
  <2> QED
    BY <1>2, <2>5 DEF Reads, None
<1> QED
  BY <1>1, <1>2, WattsContent

\* Four slots with marks, of which one is selected.
Marked(w, l, h, mark) ==
    /\ w = <<l, h, 0, mark>> /\ l \in U8 /\ h \in U8 /\ mark \in {0, 1} /\ l \notin {0, 255}

LEMMA MarkedState ==
    ASSUME NEW mark \in {0, 1}
    PROVE  /\ Marked(State(35, mark), 35, 0, mark) /\ Marked(State(303, mark), 47, 1, mark)
           /\ Marked(State(307, mark), 51, 1, mark) /\ Marked(State(455, mark), 199, 1, mark)
<1>1. /\ 35 = 35 + 256 * 0 /\ 303 = 47 + 256 * 1 /\ 307 = 51 + 256 * 1 /\ 455 = 199 + 256 * 1
      /\ 35 \in U8 /\ 47 \in U8 /\ 51 \in U8 /\ 199 \in U8 /\ 0 \in U8 /\ 1 \in U8
  BY SMT DEF U8
<1>2. /\ State(35, mark) = <<35, 0, 0, mark>> /\ State(303, mark) = <<47, 1, 0, mark>>
      /\ State(307, mark) = <<51, 1, 0, mark>> /\ State(455, mark) = <<199, 1, 0, mark>>
  BY <1>1, StateIs, SMT
<1> QED
  BY <1>1, <1>2, SMT DEF Marked

LEMMA OneSelected ==
    ASSUME NEW rec, NEW w, NEW l, NEW h, NEW mark, NEW j \in 1..4,
           \A k \in 1..4 : Word(rec, 4 + 4 * k) = w[k],
           \A k \in 1..4 : Marked(w[k], l[k], h[k], mark[k]),
           \A k \in 1..4 : mark[k] = 1 <=> k = j
    PROVE  SelectedTag(rec) = <<l[j], h[j], 0>>
<1> DEFINE slots == [k \in 1..4 |-> Word(rec, 4 + 4 * k)]
           used == {k \in 1..4 : slots[k] \notin {Zeros(4), U32_NAN}}
           selected == {k \in used : slots[k][4] % 2 = 1}
<1>1. SelectedTag(rec) = IF selected # {} THEN Tag(slots[Min(selected)])
                         ELSE IF used # {} THEN Tag(slots[Min(used)]) ELSE None
  BY DEF SelectedTag
<1>2. \A k \in 1..4 : slots[k] = w[k]
  OBVIOUS
<1> HIDE DEF slots
<1>3. \A k \in 1..4 : w[k][1] = l[k] /\ l[k] \notin {0, 255} /\ w[k][4] = mark[k] /\ mark[k] \in {0, 1}
  BY DEF Marked
<1>4. \A k \in 1..4 : k \in used
  BY <1>2, <1>3, BlankFirst
<1>5. 1 % 2 = 1 /\ 0 % 2 = 0
  OBVIOUS
<1>6. \A k \in 1..4 : k \in selected <=> k = j
  <2> TAKE k \in 1..4
  <2>1. mark[k] = 1 \/ mark[k] = 0
    BY <1>3
  <2>2. k \in selected <=> mark[k] % 2 = 1
    BY <1>2, <1>3, <1>4
  <2> QED
    BY <1>5, <2>1, <2>2
<1>7. selected = {j}
  <2>1. selected \subseteq 1..4
    OBVIOUS
  <2> HIDE DEF selected
  <2> QED
    BY <1>6, <2>1
<1>8. Min(selected) = j
  <2>1. j \in Nat
    OBVIOUS
  <2> HIDE DEF selected
  <2> QED
    BY <1>7, <2>1, OnlyOne
<1> HIDE DEF selected, used
<1>9. SelectedTag(rec) = Tag(w[j])
  BY <1>1, <1>2, <1>7, <1>8
<1>10. Tag(<<l[j], h[j], 0, mark[j]>>) = <<l[j], h[j], 0>>
  <2>1. l[j] \in U8 /\ h[j] \in U8 /\ mark[j] \in U8 /\ 0 \in U8
    BY DEF Marked, U8
  <2> QED
    BY <2>1, TagIs
<1> QED
  BY <1>9, <1>10 DEF Marked

LEMMA StatesRead ==
    ASSUME NEW rec, NEW a \in {0, 1}, NEW b \in {0, 1}, NEW c \in {0, 1}, NEW d \in {0, 1},
           WordsAt(rec, States(a, b, c, d)), NEW j \in 1..4,
           \A k \in 1..4 : <<a, b, c, d>>[k] = 1 <=> k = j
    PROVE  SelectedTag(rec) = <<<<35, 47, 51, 199>>[j], <<0, 1, 1, 1>>[j], 0>>
<1> DEFINE w == <<State(35, a), State(303, b), State(307, c), State(455, d), State(51, 0)>>
           l == <<35, 47, 51, 199>>
           h == <<0, 1, 1, 1>>
           mark == <<a, b, c, d>>
<1>1. \A k \in 1..4 : Word(rec, 4 + 4 * k) = w[k]
  <2>1. Len(w) = 5 /\ w = States(a, b, c, d) /\ \A k \in 1..4 : k \in 1..5
    BY DEF States
  <2> HIDE DEF w
  <2> QED
    BY <2>1 DEF WordsAt
<1>2. /\ Marked(w[1], l[1], h[1], mark[1]) /\ Marked(w[2], l[2], h[2], mark[2])
      /\ Marked(w[3], l[3], h[3], mark[3]) /\ Marked(w[4], l[4], h[4], mark[4])
  BY MarkedState
<1>3. \A k \in 1..4 : mark[k] = 1 <=> k = j
  OBVIOUS
<1> HIDE DEF w, l, h, mark
<1>4. \A k \in 1..4 : Marked(w[k], l[k], h[k], mark[k])
  <2> TAKE k \in 1..4
  <2>1. k = 1 \/ k = 2 \/ k = 3 \/ k = 4
    OBVIOUS
  <2> QED
    BY <1>2, <2>1
<1>5. SelectedTag(rec) = <<l[j], h[j], 0>>
  BY <1>1, <1>3, <1>4, OneSelected
<1> QED
  BY <1>5 DEF l, h

LEMMA StatusReads ==
    ASSUME NEW x \in StatusContents, NEW rec, Len(rec) = 28, WordsAt(rec, x.words)
    PROVE  Reads(rec, "status", x.means)
<1>0. 1 \in 1..4 /\ 2 \in 1..4 /\ 3 \in 1..4 /\ 4 \in 1..4
  OBVIOUS
<1>1. CASE x.words = States(1, 0, 0, 0) /\ x.means = <<35, 0, 0>>
  <2>1. \A k \in 1..4 : <<1, 0, 0, 0>>[k] = 1 <=> k = 1
    OBVIOUS
  <2>2. SelectedTag(rec) = <<<<35, 47, 51, 199>>[1], <<0, 1, 1, 1>>[1], 0>>
    BY <1>0, <1>1, <2>1, StatesRead
  <2> QED
    BY <1>1, <2>2 DEF Reads
<1>2. CASE x.words = States(0, 1, 0, 0) /\ x.means = <<47, 1, 0>>
  <2>1. \A k \in 1..4 : <<0, 1, 0, 0>>[k] = 1 <=> k = 2
    OBVIOUS
  <2>2. SelectedTag(rec) = <<<<35, 47, 51, 199>>[2], <<0, 1, 1, 1>>[2], 0>>
    BY <1>0, <1>2, <2>1, StatesRead
  <2> QED
    BY <1>2, <2>2 DEF Reads
<1>3. CASE x.words = States(0, 0, 1, 0) /\ x.means = <<51, 1, 0>>
  <2>1. \A k \in 1..4 : <<0, 0, 1, 0>>[k] = 1 <=> k = 3
    OBVIOUS
  <2>2. SelectedTag(rec) = <<<<35, 47, 51, 199>>[3], <<0, 1, 1, 1>>[3], 0>>
    BY <1>0, <1>3, <2>1, StatesRead
  <2> QED
    BY <1>3, <2>2 DEF Reads
<1>4. CASE x.words = States(0, 0, 0, 1) /\ x.means = <<199, 1, 0>>
  <2>1. \A k \in 1..4 : <<0, 0, 0, 1>>[k] = 1 <=> k = 4
    OBVIOUS
  <2>2. SelectedTag(rec) = <<<<35, 47, 51, 199>>[4], <<0, 1, 1, 1>>[4], 0>>
    BY <1>0, <1>4, <2>1, StatesRead
  <2> QED
    BY <1>4, <2>2 DEF Reads
<1>5. CASE \E z \in {Zeros(4), U32_NAN} : x.words = <<z, z, z, z, z>> /\ x.means = <<>>
  <2>1. PICK z \in {Zeros(4), U32_NAN} : x.words = <<z, z, z, z, z>> /\ x.means = <<>>
    BY <1>5
  <2> DEFINE ws == <<z, z, z, z, z>>
             slots == [k \in 1..4 |-> Word(rec, 4 + 4 * k)]
             used == {k \in 1..4 : slots[k] \notin {Zeros(4), U32_NAN}}
             selected == {k \in used : slots[k][4] % 2 = 1}
  <2>2. SelectedTag(rec) = IF selected # {} THEN Tag(slots[Min(selected)])
                           ELSE IF used # {} THEN Tag(slots[Min(used)]) ELSE None
    BY DEF SelectedTag
  <2>3. Len(ws) = 5 /\ \A k \in 1..5 : ws[k] = z
    OBVIOUS
  <2>4. WordsAt(rec, ws)
    BY <2>1
  <2> HIDE DEF ws
  <2>5. \A k \in 1..4 : slots[k] = z
    BY <2>3, <2>4 DEF WordsAt
  <2> HIDE DEF slots
  <2>6. used = {} /\ selected = {}
    BY <2>5
  <2>7. SelectedTag(rec) = None
    BY <2>2, <2>6
  <2> QED
    BY <2>1, <2>7 DEF Reads, None
<1> QED
  BY <1>1, <1>2, <1>3, <1>4, <1>5, StatusContent

\* A state word with a number of two bytes.
StateOf(w, t, l, h, mark) ==
    /\ w = <<l, h, 0, mark>> /\ Tag(w) = <<l, h, 0>> /\ TagNumber(Tag(w)) = t
    /\ w[1] = l /\ w[4] = mark

LEMMA StateNumber ==
    ASSUME NEW t, NEW l \in U8, NEW h \in U8, t = l + 256 * h, NEW mark \in {0, 1}
    PROVE  StateOf(State(t, mark), t, l, h, mark)
<1> DEFINE w == <<l, h, 0, mark>>
<1>1. State(t, mark) = w
  BY StateIs
<1>2. 0 \in U8 /\ mark \in U8
  BY DEF U8
<1>3. Tag(w) = <<l, h, 0>> /\ TagNumber(Tag(w)) = l + 256 * h + 65536 * 0
  BY <1>2, TagIs
<1>4. l + 256 * h + 65536 * 0 = t
  BY SMT DEF U8
<1>5. w[1] = l /\ w[4] = mark
  OBVIOUS
<1> HIDE DEF w
<1>6. Tag(w) = <<l, h, 0>> /\ TagNumber(Tag(w)) = t
  BY <1>3, <1>4
<1>7. w = <<l, h, 0, mark>>
  BY DEF w
<1> QED
  BY <1>1, <1>5, <1>6, <1>7, Zenon DEF StateOf

LEMMA RelayReads ==
    ASSUME NEW x \in RelayContents, NEW rec, WordsAt(rec, x.words)
    PROVE  Reads(rec, "relay", x.means)
<1>1. PICK t \in {51, 311, \hFFFD} :
              /\ x.words = <<State(t, 1), Noise, Noise, Noise, Noise>>
              /\ x.means = IF t = 51 THEN <<1>> ELSE IF t = 311 THEN <<0>> ELSE <<>>
  BY RelayContent
<1> DEFINE w == State(t, 1)
           ws == <<w, Noise, Noise, Noise, Noise>>
<1>2. Len(ws) = 5 /\ ws[1] = w
  OBVIOUS
<1>3. WordsAt(rec, ws)
  BY <1>1
<1> HIDE DEF ws, w
<1>4. Word(rec, 8) = w
  <2>1. Slots(rec, ws[1], ws[2], ws[3], ws[4], ws[5])
    BY <1>2, <1>3, FiveSlots
  <2> QED
    BY <1>2, <2>1 DEF Slots
<1>5. TagNumber(Tag(w)) = t
  <2>1. \E l \in U8, h \in U8 : t = l + 256 * h
    <3>1. /\ 51 = 51 + 256 * 0 /\ 311 = 55 + 256 * 1 /\ \hFFFD = \hFD + 256 * \hFF
          /\ 51 \in U8 /\ 0 \in U8 /\ 55 \in U8 /\ 1 \in U8 /\ \hFD \in U8 /\ \hFF \in U8
      BY SMT DEF U8
    <3>2. t = 51 \/ t = 311 \/ t = \hFFFD
      BY SMT
    <3> QED
      BY <3>1, <3>2, SMT
  <2>2. PICK l \in U8, h \in U8 : t = l + 256 * h
    BY <2>1
  <2>3. StateOf(State(t, 1), t, l, h, 1)
    BY <2>2, StateNumber, SMT
  <2> QED
    BY <2>3, SMT DEF StateOf, w
<1>6. Relay(rec) = x.means
  BY <1>1, <1>4, <1>5, SMT DEF Relay, None
<1> QED
  BY <1>6 DEF Reads

LEMMA VersionReads ==
    ASSUME NEW x \in VersionContents, NEW rec, Len(rec) = 28, WordsAt(rec, x.words)
    PROVE  Reads(rec, "version", x.means)
<1>1. PICK v : /\ x.words = <<Noise, Noise, Noise, Noise, v>>
               /\ \/ v = <<4, 6, \h30, \h02>> /\ x.means = <<0, 2, 3, 0, 6, 4>>
                  \/ v = <<\h7E, \h11, \h99, \h12>> /\ x.means = <<1, 2, 9, 9, 17, 6>>
                  \/ v = U32_NAN /\ x.means = <<>>
  BY VersionContent
<1> DEFINE ws == <<Noise, Noise, Noise, Noise, v>>
<1>2. Len(ws) = 5 /\ ws[5] = v
  OBVIOUS
<1>3. WordsAt(rec, ws)
  BY <1>1
<1> HIDE DEF ws
<1>4. Word(rec, 24) = v
  <2>1. Slots(rec, ws[1], ws[2], ws[3], ws[4], ws[5])
    BY <1>2, <1>3, FiveSlots
  <2> QED
    BY <1>2, <2>1 DEF Slots
<1>5. Version(rec) = IF v \in {U32_NAN, Zeros(4)} THEN None
                     ELSE <<v[4] \div 16, v[4] % 16, v[3] \div 16, v[3] % 16, v[2], Min({v[1], 6})>>
  BY <1>4 DEF Version
<1>6. CASE v = <<4, 6, \h30, \h02>> /\ x.means = <<0, 2, 3, 0, 6, 4>>
  <2>1. v[1] = 4 /\ v[2] = 6 /\ v[3] = \h30 /\ v[4] = 2
    BY <1>6
  <2>2. v \notin {U32_NAN, Zeros(4)}
    BY <2>1, BlankFirst
  <2>3. 2 \div 16 = 0 /\ 2 % 16 = 2 /\ \h30 \div 16 = 3 /\ \h30 % 16 = 0
    OBVIOUS
  <2>4. Min({4, 6}) = 4
    <3> DEFINE T == {4, 6}
    <3>1. T \subseteq Nat /\ 4 \in T /\ \A y \in T : 4 <= y
      OBVIOUS
    <3> HIDE DEF T
    <3>2. Min(T) = 4
      BY <3>1, MinIs
    <3> QED
      BY <3>2 DEF T
  <2> QED
    BY <1>5, <1>6, <2>1, <2>2, <2>3, <2>4 DEF Reads
<1>7. CASE v = <<\h7E, \h11, \h99, \h12>> /\ x.means = <<1, 2, 9, 9, 17, 6>>
  <2>1. v[1] = \h7E /\ v[2] = 17 /\ v[3] = \h99 /\ v[4] = \h12
    BY <1>7
  <2>2. v \notin {U32_NAN, Zeros(4)}
    BY <2>1, BlankFirst
  <2>3. \h12 \div 16 = 1 /\ \h12 % 16 = 2 /\ \h99 \div 16 = 9 /\ \h99 % 16 = 9
    OBVIOUS
  <2>4. Min({\h7E, 6}) = 6
    <3> DEFINE T == {\h7E, 6}
    <3>1. T \subseteq Nat /\ 6 \in T /\ \A y \in T : 6 <= y
      OBVIOUS
    <3> HIDE DEF T
    <3>2. Min(T) = 6
      BY <3>1, MinIs
    <3> QED
      BY <3>2 DEF T
  <2> QED
    BY <1>5, <1>7, <2>1, <2>2, <2>3, <2>4 DEF Reads
<1>8. CASE v = U32_NAN /\ x.means = <<>>
  BY <1>5, <1>8 DEF Reads, None
<1> QED
  BY <1>1, <1>6, <1>7, <1>8

LEMMA LabelReads ==
    ASSUME NEW x \in LabelContents, NEW rec, WordsAt(rec, x.words)
    PROVE  Reads(rec, "label", x.means)
<1> DEFINE z == Zeros(4)
           e == EndOfList
           stop == <<\hFE, \hFF, \hFF>>
           slots == [k \in 1..8 |-> Word(rec, 4 + 4 * k)]
           ends == {k \in 1..8 : Tag(slots[k]) = stop}
           chosen == {k \in 1..8 : slots[k][4] = 1 /\ \A i \in ends : k < i}
<1>1. LabelTag(rec) = IF chosen = {} THEN None ELSE Tag(slots[Min(chosen)])
  BY DEF LabelTag
<1>2. Tag(e) = stop /\ e[4] = 0 /\ z[4] = 0 /\ Tag(z) # stop
  <2>1. \hFE \in U8 /\ \hFF \in U8 /\ 0 \in U8
    BY DEF U8
  <2>2. Tag(e) = stop
    BY <2>1, TagIs DEF EndOfList
  <2>3. z = <<0, 0, 0, 0>>
    BY FixedWords, Quad DEF Zeros
  <2>4. Tag(z) = <<0, 0, 0>>
    BY <2>1, <2>3, TagIs
  <2>5. e[4] = 0
    BY DEF EndOfList
  <2>6. <<0, 0, 0>>[1] = 0 /\ stop[1] = \hFE
    OBVIOUS
  <2> QED
    BY <2>2, <2>4, <2>5, <2>6, BlankFirst
<1>3. \A k \in 1..8 : k = 1 \/ k = 2 \/ k = 3 \/ k = 4 \/ k = 5 \/ k = 6 \/ k = 7 \/ k = 8
  OBVIOUS
<1>4. CASE \E t \in {9073, 9000} :
                /\ x.words = <<State(9071, 0), State(t, 1), EndOfList, z, z, z, z, z>>
                /\ x.means = IF t = 9073 THEN <<\h71, \h23, 0>> ELSE <<>>
  <2>1. PICK t \in {9073, 9000} :
                /\ x.words = <<State(9071, 0), State(t, 1), EndOfList, z, z, z, z, z>>
                /\ x.means = IF t = 9073 THEN <<\h71, \h23, 0>> ELSE <<>>
    BY <1>4
  <2> DEFINE a == State(9071, 0)
             b == State(t, 1)
             ws == <<a, b, e, z, z, z, z, z>>
             l == IF t = 9073 THEN \h71 ELSE \h28
  <2>2. StateOf(a, 9071, \h6F, \h23, 0) /\ StateOf(b, t, l, \h23, 1)
    <3>1. /\ 9071 = \h6F + 256 * \h23 /\ t = l + 256 * \h23 /\ \h6F \in U8 /\ \h23 \in U8
          /\ l \in U8
      BY SMT DEF U8
    <3> HIDE DEF l
    <3> QED
      BY <3>1, StateNumber, SMT
  <2>3. /\ Len(ws) = 8 /\ ws[1] = a /\ ws[2] = b /\ ws[3] = e
        /\ \A k \in 4..8 : ws[k] = z
    BY SMT
  <2>4. WordsAt(rec, ws)
    BY <2>1, SMT
  <2> HIDE DEF ws, a, b, z, e, l
  <2>5. \A k \in 1..8 : slots[k] = ws[k]
    BY <2>3, <2>4, SMT DEF WordsAt
  <2> HIDE DEF slots
  <2>6. /\ a[4] = 0 /\ b[4] = 1 /\ Tag(a) = <<\h6F, \h23, 0>> /\ Tag(b) = <<l, \h23, 0>>
        /\ TagNumber(Tag(b)) = t
    BY <2>2, SMT DEF StateOf
  <2>7. l \in {\h71, \h28} /\ (l = \h71 <=> t = 9073)
    BY SMT DEF l
  <2>8. Tag(a) # stop /\ Tag(b) # stop
    <3>1. <<\h6F, \h23, 0>>[1] = \h6F /\ <<l, \h23, 0>>[1] = l /\ stop[1] = \hFE
      BY SMT
    <3> QED
      BY <2>6, <2>7, <3>1, SMT
  <2>9. ends = {3} /\ chosen = {2}
    <3> HIDE DEF stop
    <3>1. \A k \in 1..8 : Tag(slots[k]) = stop <=> k = 3
      BY <1>2, <1>3, <2>3, <2>5, <2>8, SMT
    <3>2. \A k \in 1..8 : slots[k][4] = 1 <=> k = 2
      BY <1>2, <1>3, <2>3, <2>5, <2>6, SMT
    <3>3. ends = {3}
      BY <3>1, SMT
    <3> QED
      BY <3>2, <3>3, SMT
  <2>10. LabelTag(rec) = Tag(b) /\ Tag(b) # None
    <3>1. Min({2}) = 2
      BY OnlyOne, SMT
    <3> HIDE DEF chosen, ends
    <3>2. LabelTag(rec) = Tag(b)
      BY <1>1, <2>3, <2>5, <2>9, <3>1, SMT
    <3>3. <<l, \h23, 0>> # None
      BY SMT DEF None
    <3> QED
      BY <2>6, <3>2, <3>3, SMT
  <2>11. CASE t = 9073
    <3>1. x.means = <<\h71, \h23, 0>> /\ Tag(b) = x.means
      BY <2>1, <2>6, <2>7, <2>11, SMT
    <3>2. KnownLabel(Tag(b))
      BY <2>6, <2>11, SMT DEF KnownLabel
    <3> QED
      BY <2>10, <3>1, <3>2, SMT DEF Reads
  <2>12. CASE t = 9000
    <3>1. x.means = None
      BY <2>1, <2>12, SMT DEF None
    <3>2. ~ KnownLabel(Tag(b))
      BY <2>6, <2>12, SMT DEF KnownLabel
    <3> QED
      BY <2>10, <3>1, <3>2, SMT DEF Reads
  <2> QED
    BY <2>11, <2>12, SMT
<1>5. CASE x.words = <<EndOfList, z, z, z, z, z, z, z>> /\ x.means = <<>>
  <2> DEFINE ws == <<e, z, z, z, z, z, z, z>>
  <2>1. Len(ws) = 8 /\ ws[1] = e /\ \A k \in 2..8 : ws[k] = z
    OBVIOUS
  <2>2. WordsAt(rec, ws)
    BY <1>5
  <2> HIDE DEF ws, e, z, stop
  <2>3. \A k \in 1..8 : slots[k] = ws[k]
    BY <2>1, <2>2 DEF WordsAt
  <2> HIDE DEF slots
  <2>4. \A k \in 1..8 : slots[k][4] = 0
    BY <1>2, <1>3, <2>1, <2>3
  <2>5. chosen = {}
    BY <2>4
  <2>6. LabelTag(rec) = None
    BY <1>1, <2>5
  <2> QED
    BY <1>5, <2>6 DEF Reads, None
<1> QED
  BY <1>4, <1>5, LabelContent, SMT

-----------------------------------------------------------------------------
(* The records of an answer. *)

\* Each record of an answer says what its register means.
LEMMA AnswerHolds ==
    ASSUME NEW heard, NEW n, NEW order, NEW c, NEW cut, Answer(heard, n, order, c, cut),
           NEW k \in 1..n
    PROVE  Holds(RecordsOf(n, order, c, cut)[k], HeldOf(n, order, c)[k])
<1> DEFINE short == cut /\ k = n
           x == c[k]
           ws == RecordWords(x.words, short)
           reg == order[k]
           rec == Record(reg, x, short)
           h == [reg |-> reg, means |-> x.means]
<1>1. RecordsOf(n, order, c, cut)[k] = rec /\ HeldOf(n, order, c)[k] = h
  BY DEF RecordsOf, HeldOf
<1>2. /\ reg \in Registers /\ reg.form \in Forms /\ Addr24(reg.addr)
      /\ Len(x.words) = WordCount(reg.form) /\ ws \in Seq(Words4)
      /\ short => reg.form \in Spots
      /\ ~ short => ws = x.words
      /\ IsRecord(rec, reg.addr, ws)
  BY AnswerRecord
<1>3. x \in Contents(reg.form) /\ short \in BOOLEAN
  BY DEF Answer
<1> HIDE DEF short, x, reg, rec
<1>4. WordsAt(rec, ws)
  BY <1>2, RecordWordsAt
<1>5. ASSUME reg.form \notin Spots PROVE WordsAt(rec, x.words) /\ IsRecord(rec, reg.addr, x.words)
  BY <1>2, <1>3, <1>4, <1>5
<1>6. ASSUME reg.form \notin Spots, reg.form # "u64", reg.form # "label" PROVE Len(rec) = 28
  <2>1. Len(rec) = 8 + 4 * Len(x.words)
    BY <1>5, <1>6 DEF IsRecord
  <2>2. Len(x.words) = 5
    BY <1>2, <1>6 DEF WordCount
  <2> QED
    BY <2>1, <2>2
<1> HIDE DEF ws
<1>7. Reads(rec, reg.form, x.means)
  <2>1. CASE reg.form \in Spots
    <3>1. x \in SpotContents(reg.form)
      BY <1>3, <2>1 DEF Contents, Spots
    <3>2. WordsAt(rec, RecordWords(x.words, short))
      BY <1>4 DEF ws
    <3> QED
      BY <1>3, <2>1, <3>1, <3>2, SpotReads
  <2>2. CASE reg.form = "u64"
    <3>1. x \in CounterContents
      BY <1>3, <2>2 DEF Contents, Spots
    <3>2. IsRecord(rec, reg.addr, x.words)
      BY <1>5, <2>2 DEF Spots
    <3> QED
      BY <2>2, <3>1, <3>2, CounterReads
  <2>3. CASE reg.form = "watts"
    <3>1. x \in WattsContents
      BY <1>3, <2>3 DEF Contents, Spots
    <3>2. WordsAt(rec, x.words) /\ Len(rec) = 28
      BY <1>5, <1>6, <2>3 DEF Spots
    <3> QED
      BY <2>3, <3>1, <3>2, WattsReads
  <2>4. CASE reg.form = "status"
    <3>1. x \in StatusContents
      BY <1>3, <2>4 DEF Contents, Spots
    <3>2. WordsAt(rec, x.words) /\ Len(rec) = 28
      BY <1>5, <1>6, <2>4 DEF Spots
    <3> QED
      BY <2>4, <3>1, <3>2, StatusReads
  <2>5. CASE reg.form = "relay"
    <3>1. x \in RelayContents
      BY <1>3, <2>5 DEF Contents, Spots
    <3>2. WordsAt(rec, x.words)
      BY <1>5, <2>5 DEF Spots
    <3> QED
      BY <2>5, <3>1, <3>2, RelayReads
  <2>6. CASE reg.form = "label"
    <3>1. x \in LabelContents
      BY <1>3, <2>6 DEF Contents, Spots
    <3>2. WordsAt(rec, x.words)
      BY <1>5, <2>6 DEF Spots
    <3> QED
      BY <2>6, <3>1, <3>2, LabelReads
  <2>7. CASE reg.form = "version"
    <3>1. x \in VersionContents
      BY <1>3, <2>7 DEF Contents, Spots
    <3>2. WordsAt(rec, x.words) /\ Len(rec) = 28
      BY <1>5, <1>6, <2>7 DEF Spots
    <3> QED
      BY <2>7, <3>1, <3>2, VersionReads
  <2> QED
    BY <1>2, <2>1, <2>2, <2>3, <2>4, <2>5, <2>6, <2>7 DEF Forms, Spots
<1>8. h.reg = reg /\ h.means = x.means
  OBVIOUS
<1> HIDE DEF h
<1>9. Holds(rec, h)
  <2>1. record_lri(rec) = Lri(reg) /\ record_cls(rec) = Cls(reg)
    BY <1>2 DEF IsRecord, Lri, Cls
  <2> QED
    BY <1>2, <1>7, <1>8, <2>1 DEF Holds
<1> QED
  BY <1>1, <1>9

\* What grows from each place to the next is nowhere the same twice.
LEMMA Increasing ==
    ASSUME NEW n \in Nat, NEW f, \A k \in 1..n : f[k] \in Nat, \A k \in 2..n : f[k - 1] < f[k]
    PROVE  \A j, k \in 1..n : f[j] = f[k] => j = k
<1> DEFINE T == {m \in Nat : m <= n => \A j, k \in 1..m : j < k => f[j] < f[k]}
<1>1. 0 \in T
  OBVIOUS
<1>2. ASSUME NEW m \in Nat, m \in T PROVE m + 1 \in T
  <2> SUFFICES ASSUME m + 1 <= n, NEW j \in 1..(m + 1), NEW k \in 1..(m + 1), j < k
               PROVE  f[j] < f[k]
    OBVIOUS
  <2>1. \A i, l \in 1..m : i < l => f[i] < f[l]
    BY <1>2
  <2>2. CASE k <= m
    BY <2>1, <2>2
  <2>3. CASE k = m + 1
    <3>1. k \in 2..n /\ k - 1 = m /\ m \in 1..n /\ j \in 1..m
      BY <2>3
    <3>2. f[m] < f[k] /\ f[m] \in Nat /\ f[k] \in Nat /\ f[j] \in Nat
      BY <3>1
    <3>3. j = m \/ f[j] < f[m]
      BY <2>1, <3>1
    <3> QED
      BY <3>2, <3>3
  <2> QED
    BY <2>2, <2>3
<1> HIDE DEF T
<1>3. \A m \in Nat : m \in T
  BY <1>1, <1>2, SetInduction
<1>4. n \in T
  BY <1>3
<1>5. \A j, k \in 1..n : j < k => f[j] < f[k]
  BY <1>4 DEF T
<1> SUFFICES ASSUME NEW j \in 1..n, NEW k \in 1..n, f[j] = f[k] PROVE j = k
  OBVIOUS
<1>6. f[j] \in Nat /\ f[k] \in Nat
  OBVIOUS
<1>7. j < k \/ k < j \/ j = k
  OBVIOUS
<1> QED
  BY <1>5, <1>6, <1>7

LEMMA AnswerOrdered ==
    ASSUME NEW heard, NEW n, NEW order, NEW c, NEW cut, Answer(heard, n, order, c, cut)
    PROVE  \A j, k \in 1..n : order[j].addr = order[k].addr => j = k
<1> DEFINE f == [k \in 1..n |-> order[k].addr]
<1>1. n \in Nat
  BY WirePathAssumption DEF Answer
<1>2. \A k \in 1..n : Addr24(order[k].addr)
  BY AnswerRecord
<1>3. \A k \in 1..n : f[k] \in Nat
  BY <1>2, SMT DEF Addr24
<1>4. \A k \in 2..n : f[k - 1] < f[k]
  BY <1>1 DEF Answer, ByAddress
<1>5. \A k \in 1..n : f[k] = order[k].addr
  OBVIOUS
<1> HIDE DEF f
<1>6. \A j, k \in 1..n : f[j] = f[k] => j = k
  BY <1>1, <1>3, <1>4, Increasing
<1> QED
  BY <1>5, <1>6

LEMMA AnswerCarries ==
    ASSUME NEW heard, NEW n, NEW order, NEW c, NEW cut, Answer(heard, n, order, c, cut)
    PROVE  Carries(RecordsOf(n, order, c, cut), HeldOf(n, order, c))
<1> DEFINE recs == RecordsOf(n, order, c, cut)
           hs == HeldOf(n, order, c)
<1>1. n \in Nat
  BY WirePathAssumption DEF Answer
<1>2. DOMAIN recs = 1..n /\ DOMAIN hs = 1..n /\ \A k \in 1..n : hs[k].reg = order[k]
  BY DEF RecordsOf, HeldOf
<1>3. \A k \in 1..n : Holds(recs[k], hs[k])
  BY AnswerHolds
<1>4. \A j, k \in 1..n : order[j].addr = order[k].addr => j = k
  BY AnswerOrdered
<1> HIDE DEF recs, hs
<1>5. 1..n \subseteq Nat
  BY <1>1
<1>6. Carries(recs, hs)
  BY <1>2, <1>3, <1>4, <1>5, Zenon DEF Carries
<1> QED
  BY <1>6 DEF recs, hs

-----------------------------------------------------------------------------
(* The records are found again in the body. *)

Strides == {16, 24, 28, 40}

LEMMA Rounds ==
    ASSUME NEW m \in Strides, NEW n \in Nat
    PROVE  (m * n) \div m = n /\ (m * n) % m = 0
BY SMT DEF Strides

LEMMA RowsChunks ==
    ASSUME NEW m \in Strides, NEW ss \in Seq(Of(m)), NEW r \in Bytes,
           Len(r) \div m = Len(ss), \A k \in 1..Len(ss) : Piece(r, m * (k - 1), ss[k])
    PROVE  Chunks(r, m) = ss
<1> DEFINE n == Len(ss)
<1>1. n \in Nat /\ ss = [k \in 1..n |-> ss[k]]
  OBVIOUS
<1>2. m \in Nat
  BY DEF Strides
<1>3. ASSUME NEW k \in 1..n PROVE Slice(r, m * (k - 1), m * k) = ss[k]
  <2> DEFINE x == ss[k]
             at == m * (k - 1)
             to == m * k
  <2>1. x \in Of(m)
    BY ElementOfSeq
  <2>2. Len(x) = m
    BY <2>1 DEF Of
  <2>3. Piece(r, at, x)
    OBVIOUS
  <2>4. at + m = to
    BY <1>1, SMT DEF Strides
  <2> HIDE DEF x, at, to
  <2>5. Slice(r, at, to) = x
    BY <2>2, <2>3, <2>4 DEF Piece
  <2> QED
    BY <2>5 DEF x, at, to
<1>4. Chunks(r, m) = [k \in 1..n |-> Slice(r, m * (k - 1), m * k)]
  BY DEF Chunks
<1> HIDE DEF n
<1>5. Chunks(r, m) = [k \in 1..n |-> ss[k]]
  BY <1>3, <1>4
<1> QED
  BY <1>1, <1>5

LEMMA WholeRecords ==
    ASSUME NEW m \in Strides, NEW ss \in Seq(Of(m))
    PROVE  LET r == FlattenSeq(ss) IN
           r \in Bytes /\ Chunks(r, m) = ss /\ Len(r) % m = 0
<1> DEFINE r == FlattenSeq(ss)
           n == Len(ss)
<1>1. m \in Nat
  BY DEF Strides
<1>2. Rows(r, ss, m)
  BY <1>1, FlattenRows
<1> HIDE DEF r
<1>3. r \in Bytes /\ Len(r) = m * n /\ \A k \in 1..Len(ss) : Piece(r, m * (k - 1), ss[k])
  BY <1>2 DEF Rows
<1>4. n \in Nat
  OBVIOUS
<1>5. (m * n) \div m = n /\ (m * n) % m = 0
  BY <1>4, Rounds
<1>6. Len(r) \div m = Len(ss) /\ Len(r) % m = 0
  BY <1>3, <1>5
<1>7. Chunks(r, m) = ss
  BY <1>3, <1>6, RowsChunks
<1> QED
  BY <1>3, <1>6, <1>7 DEF r

\* The class byte of a command.
ClassByte(n) == LE32(n)[4]
CounterCommand == \h54000200
NameCommand == \h58000200
SpotCommands == {\h51000200, \h53800200, \h52000200, \h51800200}
CounterClass == \h54
NameClass == \h58

LEMMA ClassBytes ==
    /\ ClassByte(CounterCommand) = CounterClass /\ ClassByte(NameCommand) = NameClass
    /\ \A n \in SpotCommands : ClassByte(n) \notin {CounterClass, NameClass}
<1>1. ASSUME NEW n, NEW c \in {0, 128}, NEW d \in {\h51, \h52, \h53, \h54, \h58},
             n = 512 + 65536 * (c + 256 * d)
      PROVE  ClassByte(n) = d
  <2>1. Value(n, 0, 2, c, d)
    BY <1>1, SMT DEF Value, U8
  <2>2. LE32(n) = <<0, 2, c, d>>
    BY <2>1, LE32Is
  <2> QED
    BY <2>2 DEF ClassByte
<1>2. CounterCommand = 512 + 65536 * (0 + 256 * \h54) /\ NameCommand = 512 + 65536 * (0 + 256 * \h58)
  BY SMT DEF CounterCommand, NameCommand
<1>3. ASSUME NEW n \in SpotCommands
      PROVE  \E c \in {0, 128}, d \in {\h51, \h52, \h53} : n = 512 + 65536 * (c + 256 * d)
  <2>1. /\ \h51000200 = 512 + 65536 * (0 + 256 * \h51) /\ \h53800200 = 512 + 65536 * (128 + 256 * \h53)
        /\ \h52000200 = 512 + 65536 * (0 + 256 * \h52) /\ \h51800200 = 512 + 65536 * (128 + 256 * \h51)
    BY SMT
  <2>2. n = \h51000200 \/ n = \h53800200 \/ n = \h52000200 \/ n = \h51800200
    BY SMT DEF SpotCommands
  <2> QED
    BY <2>1, <2>2, SMT
<1>4. ClassByte(CounterCommand) = CounterClass /\ ClassByte(NameCommand) = NameClass
  BY <1>1, <1>2, SMT DEF CounterClass, NameClass
<1>5. ASSUME NEW n \in SpotCommands PROVE ClassByte(n) \notin {CounterClass, NameClass}
  <2>1. PICK c \in {0, 128}, d \in {\h51, \h52, \h53} : n = 512 + 65536 * (c + 256 * d)
    BY <1>3
  <2>2. ClassByte(n) = d
    BY <1>1, <2>1, SMT
  <2> QED
    BY <2>2, SMT DEF CounterClass, NameClass
<1> QED
  BY <1>4, <1>5

\* How many words the records have that a query's registers are answered with.
WordsAsked(kind) ==
    IF kind \in {"EnergyProduction", "OperationTime"} THEN 2 ELSE IF kind = "TypeLabel" THEN 8 ELSE 5

LabelEnd == \h8220FF
LabelStart == \h821E00
VersionStart == \h823400
VersionEnd == \h8234FF

LEMMA FormsByClass ==
    \A reg \in Registers :
        /\ reg.form = "u64" <=> reg.class = CounterClass
        /\ reg.form = "label" => reg.class = NameClass /\ reg.addr < VersionStart
        /\ reg.class = NameClass /\ reg.addr <= LabelEnd => reg.form = "label"
<1>1. \A key, kind, class, lri, cls, form, div :
         /\ R(key, kind, class, lri, cls, form, div).addr = lri + cls
         /\ R(key, kind, class, lri, cls, form, div).form = form
         /\ R(key, kind, class, lri, cls, form, div).class = class
  BY RFields
<1> QED
  BY <1>1, SMT DEF Registers, CounterClass, NameClass, VersionStart, LabelEnd

LEMMA OpcodesByClass ==
    ASSUME NEW kind \in QueryKind
    PROVE  LET o == opcode(kind) IN
           \/ kind \in {"EnergyProduction", "OperationTime"} /\ o[1] = CounterCommand
           \/ kind = "TypeLabel" /\ o[1] = NameCommand /\ o[2] = LabelStart /\ o[3] = LabelEnd
           \/ kind = "SoftwareVersion" /\ o[1] = NameCommand /\ o[2] = VersionStart /\ o[3] = VersionEnd
           \/ /\ kind \notin {"EnergyProduction", "OperationTime", "TypeLabel", "SoftwareVersion"}
              /\ o[1] \in SpotCommands
<1> DEFINE o == opcode(kind)
<1>1. CASE kind = "EnergyProduction"
  BY <1>1, SMT DEF opcode, CounterCommand
<1>2. CASE kind = "OperationTime"
  BY <1>2, SMT DEF opcode, CounterCommand
<1>3. CASE kind = "TypeLabel"
  BY <1>3, SMT DEF opcode, NameCommand, LabelStart, LabelEnd
<1>4. CASE kind = "SoftwareVersion"
  BY <1>4, SMT DEF opcode, NameCommand, VersionStart, VersionEnd
<1>5. CASE kind = "SpotAcTotalPower"
  <2>1. o[1] = \h51000200
    BY <1>5, SMT DEF opcode
  <2> QED
    BY <1>5, <2>1, SMT DEF SpotCommands
<1>6. CASE kind = "SpotAcPower"
  <2>1. o[1] = \h51000200
    BY <1>6, SMT DEF opcode
  <2> QED
    BY <1>6, <2>1, SMT DEF SpotCommands
<1>7. CASE kind = "SpotAcVoltage"
  <2>1. o[1] = \h51000200
    BY <1>7, SMT DEF opcode
  <2> QED
    BY <1>7, <2>1, SMT DEF SpotCommands
<1>8. CASE kind = "SpotGridFrequency"
  <2>1. o[1] = \h51000200
    BY <1>8, SMT DEF opcode
  <2> QED
    BY <1>8, <2>1, SMT DEF SpotCommands
<1>9. CASE kind = "SpotDcPower"
  <2>1. o[1] = \h53800200
    BY <1>9, SMT DEF opcode
  <2> QED
    BY <1>9, <2>1, SMT DEF SpotCommands
<1>10. CASE kind = "SpotDcVoltage"
  <2>1. o[1] = \h53800200
    BY <1>10, SMT DEF opcode
  <2> QED
    BY <1>10, <2>1, SMT DEF SpotCommands
<1>11. CASE kind = "InverterTemperature"
  <2>1. o[1] = \h52000200
    BY <1>11, SMT DEF opcode
  <2> QED
    BY <1>11, <2>1, SMT DEF SpotCommands
<1>12. CASE kind = "DeviceStatus"
  <2>1. o[1] = \h51800200
    BY <1>12, SMT DEF opcode
  <2> QED
    BY <1>12, <2>1, SMT DEF SpotCommands
<1>13. CASE kind = "GridRelayStatus"
  <2>1. o[1] = \h51800200
    BY <1>13, SMT DEF opcode
  <2> QED
    BY <1>13, <2>1, SMT DEF SpotCommands
<1>14. CASE kind = "BatteryChargeStatus"
  <2>1. o[1] = \h51000200
    BY <1>14, SMT DEF opcode
  <2> QED
    BY <1>14, <2>1, SMT DEF SpotCommands
<1>15. CASE kind = "BatteryInfo"
  <2>1. o[1] = \h51000200
    BY <1>15, SMT DEF opcode
  <2> QED
    BY <1>15, <2>1, SMT DEF SpotCommands
<1>16. CASE kind = "MeteringGridTotalW"
  <2>1. o[1] = \h51000200
    BY <1>16, SMT DEF opcode
  <2> QED
    BY <1>16, <2>1, SMT DEF SpotCommands
<1>17. CASE kind = "SpotCosPhi"
  <2>1. o[1] = \h51000200
    BY <1>17, SMT DEF opcode
  <2> QED
    BY <1>17, <2>1, SMT DEF SpotCommands
<1>18. CASE kind = "MaxFeedInPower"
  <2>1. o[1] = \h51000200
    BY <1>18, SMT DEF opcode
  <2> QED
    BY <1>18, <2>1, SMT DEF SpotCommands
<1>19. CASE kind = "NominalAcPower"
  <2>1. o[1] = \h51000200
    BY <1>19, SMT DEF opcode
  <2> QED
    BY <1>19, <2>1, SMT DEF SpotCommands
<1> QED
  BY <1>1, <1>2, <1>3, <1>4, <1>5, <1>6, <1>7, <1>8, <1>9, <1>10,
     <1>11, <1>12, <1>13, <1>14, <1>15, <1>16, <1>17, <1>18, <1>19, Zenon DEF QueryKind

LEMMA AddressOf ==
    ASSUME NEW a, Addr24(a)
    PROVE  Address(LE32(a)) = a /\ LE32(a) \in Bytes /\ Len(LE32(a)) = 4
<1> DEFINE x == LE32(a)
           p == x[1]
           q == x[2]
           r == x[3]
<1>1. a \in Nat
  BY SMT DEF Addr24
<1>2. x \in Bytes /\ Len(x) = 4
  BY <1>1, LE32Type DEF Words4
<1>3. p = a % 256 /\ 256 * q + 65536 * r = a - (a % 256)
  BY AddressBytes
<1> HIDE DEF x
<1>4. p \in U8 /\ q \in U8 /\ r \in U8
  <2>1. 1 \in 1..Len(x) /\ 2 \in 1..Len(x) /\ 3 \in 1..Len(x)
    BY <1>2
  <2> QED
    BY <1>2, <2>1, ElementOfSeq DEF Bytes
<1>5. Address(x) = p + 256 * q + 65536 * r
  BY DEF Address
<1> HIDE DEF p, q, r
<1>6. p \in Nat /\ q \in Nat /\ r \in Nat
  BY <1>4, SMT DEF U8
<1>7. 256 * q + 65536 * r = a - p
  BY <1>3
<1>8. p + 256 * q + 65536 * r = a
  BY <1>1, <1>6, <1>7, SMT
<1> QED
  BY <1>2, <1>5, <1>8 DEF x

\* The range the device reads in a query is the one that was asked for.
LEMMA RangeAsked ==
    ASSUME NEW x \in Bytes, Len(x) = 4, NEW y \in Bytes, Len(y) = 4
    PROVE  Slice(x \o y, 0, 4) = x /\ Slice(x \o y, 4, 8) = y
<1> DEFINE m == 4
           e == x \o y
<1>1. Grown(e, x, y, m, m + m)
  BY Grow
<1>2. Piece(x, 0, x)
  BY DEF Piece, Slice, Bytes
<1> HIDE DEF e
<1>3. Piece(e, 0, x) /\ Piece(e, m, y)
  BY <1>1, <1>2 DEF Grown
<1>4. 0 + Len(x) = 4 /\ m + Len(y) = 8 /\ m = 4
  OBVIOUS
<1> HIDE DEF m
<1>5. Slice(e, 0, 4) = x /\ Slice(e, 4, 8) = y
  BY <1>3, <1>4 DEF Piece
<1> QED
  BY <1>5 DEF e

LEMMA NamesAsked ==
    ASSUME NEW args, NEW a, NEW b, Addr24(a), Addr24(b), args = LE32(a) \o LE32(b)
    PROVE  Address(Slice(args, 0, 4)) = a /\ Address(Slice(args, 4, 8)) = b
BY AddressOf, RangeAsked, Zenon

LEMMA AskedWords ==
    ASSUME NEW req, NEW heard, HeardQuery(req, heard), NEW reg \in Asked(heard)
    PROVE  WordCount(reg.form) = WordsAsked(req.kind)
<1> DEFINE o == opcode(req.kind)
           kind == req.kind
<1>1. /\ kind \in QueryKind /\ reg \in Registers /\ reg.class = ClassByte(o[1])
      /\ heard.args = LE32(o[2]) \o LE32(o[3])
      /\ Address(Slice(heard.args, 0, 4)) <= reg.addr
      /\ reg.addr <= Address(Slice(heard.args, 4, 8))
  BY DEF HeardQuery, Asked, ClassByte
<1>2. reg.form = "u64" <=> reg.class = CounterClass
  BY <1>1, FormsByClass
<1>3. /\ reg.form = "label" => reg.class = NameClass /\ reg.addr < VersionStart
      /\ reg.class = NameClass /\ reg.addr <= LabelEnd => reg.form = "label"
  BY <1>1, FormsByClass
<1>4. CounterClass # NameClass
  BY SMT DEF CounterClass, NameClass
<1>5. Addr24(reg.addr) /\ Addr24(LabelStart) /\ Addr24(LabelEnd) /\ Addr24(VersionStart) /\ Addr24(VersionEnd)
  BY <1>1, RegisterType, SMT DEF Addr24, LabelStart, LabelEnd, VersionStart, VersionEnd
<1>6. CASE kind \in {"EnergyProduction", "OperationTime"} /\ o[1] = CounterCommand
  BY <1>1, <1>2, <1>6, ClassBytes DEF WordCount, WordsAsked
<1>7. CASE kind = "TypeLabel" /\ o[1] = NameCommand /\ o[2] = LabelStart /\ o[3] = LabelEnd
  <2>1. reg.addr <= LabelEnd
    <3>1. heard.args = LE32(LabelStart) \o LE32(LabelEnd)
      BY <1>1, <1>7
    <3> QED
      BY <1>1, <1>5, <3>1, NamesAsked
  <2>2. reg.form = "label"
    BY <1>1, <1>3, <1>7, <2>1, ClassBytes
  <2> QED
    BY <1>7, <2>2 DEF WordCount, WordsAsked
<1>8. CASE kind = "SoftwareVersion" /\ o[1] = NameCommand /\ o[2] = VersionStart /\ o[3] = VersionEnd
  <2>1. VersionStart <= reg.addr
    BY <1>1, <1>5, <1>8, NamesAsked
  <2>2. ~ (reg.addr < VersionStart)
    BY <1>5, <2>1, SMT DEF Addr24
  <2>3. reg.form # "label" /\ reg.form # "u64"
    BY <1>1, <1>2, <1>3, <1>4, <1>8, <2>2, ClassBytes
  <2> QED
    BY <1>8, <2>3 DEF WordCount, WordsAsked
<1>9. CASE /\ kind \notin {"EnergyProduction", "OperationTime", "TypeLabel", "SoftwareVersion"}
           /\ o[1] \in SpotCommands
  <2>1. reg.class \notin {CounterClass, NameClass}
    BY <1>1, <1>9, ClassBytes
  <2>2. reg.form # "label" /\ reg.form # "u64"
    BY <1>2, <1>3, <2>1
  <2> QED
    BY <1>9, <2>2 DEF WordCount, WordsAsked
<1> QED
  BY <1>1, <1>6, <1>7, <1>8, <1>9, OpcodesByClass

\* The registers of a kind of query have its class and lie in its range.
Covered(kind, class, first, last) ==
    /\ Addr24(first) /\ Addr24(last)
    /\ \A reg \in Registers :
         reg.kind = kind => reg.class = class /\ first <= reg.addr /\ reg.addr <= last

LEMMA QueryCovers ==
    ASSUME NEW kind \in QueryKind
    PROVE  Covered(kind, CommandOf(kind)[4], opcode(kind)[2], opcode(kind)[3])
<1> DEFINE o == opcode(kind)
<1>1. CASE kind = "SpotAcTotalPower"
  <2>1. o[2] = \h263F00 /\ o[3] = \h263FFF /\ CommandOf(kind)[4] = \h51
    BY <1>1, SMT DEF opcode, CommandOf
  <2>2. Covered(kind, \h51, \h263F00, \h263FFF)
    BY <1>1, RFields, SMT DEF Covered, Registers, Addr24
  <2> QED
    BY <2>1, <2>2
<1>2. CASE kind = "SpotAcPower"
  <2>1. o[2] = \h464000 /\ o[3] = \h4642FF /\ CommandOf(kind)[4] = \h51
    BY <1>2, SMT DEF opcode, CommandOf
  <2>2. Covered(kind, \h51, \h464000, \h4642FF)
    BY <1>2, RFields, SMT DEF Covered, Registers, Addr24
  <2> QED
    BY <2>1, <2>2
<1>3. CASE kind = "SpotAcVoltage"
  <2>1. o[2] = \h464800 /\ o[3] = \h4655FF /\ CommandOf(kind)[4] = \h51
    BY <1>3, SMT DEF opcode, CommandOf
  <2>2. Covered(kind, \h51, \h464800, \h4655FF)
    BY <1>3, RFields, SMT DEF Covered, Registers, Addr24
  <2> QED
    BY <2>1, <2>2
<1>4. CASE kind = "SpotGridFrequency"
  <2>1. o[2] = \h465700 /\ o[3] = \h4657FF /\ CommandOf(kind)[4] = \h51
    BY <1>4, SMT DEF opcode, CommandOf
  <2>2. Covered(kind, \h51, \h465700, \h4657FF)
    BY <1>4, RFields, SMT DEF Covered, Registers, Addr24
  <2> QED
    BY <2>1, <2>2
<1>5. CASE kind = "SpotDcPower"
  <2>1. o[2] = \h251E00 /\ o[3] = \h251EFF /\ CommandOf(kind)[4] = \h53
    BY <1>5, SMT DEF opcode, CommandOf
  <2>2. Covered(kind, \h53, \h251E00, \h251EFF)
    BY <1>5, RFields, SMT DEF Covered, Registers, Addr24
  <2> QED
    BY <2>1, <2>2
<1>6. CASE kind = "SpotDcVoltage"
  <2>1. o[2] = \h451F00 /\ o[3] = \h4521FF /\ CommandOf(kind)[4] = \h53
    BY <1>6, SMT DEF opcode, CommandOf
  <2>2. Covered(kind, \h53, \h451F00, \h4521FF)
    BY <1>6, RFields, SMT DEF Covered, Registers, Addr24
  <2> QED
    BY <2>1, <2>2
<1>7. CASE kind = "EnergyProduction"
  <2>1. o[2] = \h260100 /\ o[3] = \h2622FF /\ CommandOf(kind)[4] = \h54
    BY <1>7, SMT DEF opcode, CommandOf
  <2>2. Covered(kind, \h54, \h260100, \h2622FF)
    BY <1>7, RFields, SMT DEF Covered, Registers, Addr24
  <2> QED
    BY <2>1, <2>2
<1>8. CASE kind = "OperationTime"
  <2>1. o[2] = \h462E00 /\ o[3] = \h462FFF /\ CommandOf(kind)[4] = \h54
    BY <1>8, SMT DEF opcode, CommandOf
  <2>2. Covered(kind, \h54, \h462E00, \h462FFF)
    BY <1>8, RFields, SMT DEF Covered, Registers, Addr24
  <2> QED
    BY <2>1, <2>2
<1>9. CASE kind = "InverterTemperature"
  <2>1. o[2] = \h237700 /\ o[3] = \h2377FF /\ CommandOf(kind)[4] = \h52
    BY <1>9, SMT DEF opcode, CommandOf
  <2>2. Covered(kind, \h52, \h237700, \h2377FF)
    BY <1>9, RFields, SMT DEF Covered, Registers, Addr24
  <2> QED
    BY <2>1, <2>2
<1>10. CASE kind = "DeviceStatus"
  <2>1. o[2] = \h214800 /\ o[3] = \h2148FF /\ CommandOf(kind)[4] = \h51
    BY <1>10, SMT DEF opcode, CommandOf
  <2>2. Covered(kind, \h51, \h214800, \h2148FF)
    BY <1>10, RFields, SMT DEF Covered, Registers, Addr24
  <2> QED
    BY <2>1, <2>2
<1>11. CASE kind = "GridRelayStatus"
  <2>1. o[2] = \h416400 /\ o[3] = \h4164FF /\ CommandOf(kind)[4] = \h51
    BY <1>11, SMT DEF opcode, CommandOf
  <2>2. Covered(kind, \h51, \h416400, \h4164FF)
    BY <1>11, RFields, SMT DEF Covered, Registers, Addr24
  <2> QED
    BY <2>1, <2>2
<1>12. CASE kind = "TypeLabel"
  <2>1. o[2] = \h821E00 /\ o[3] = \h8220FF /\ CommandOf(kind)[4] = \h58
    BY <1>12, SMT DEF opcode, CommandOf
  <2>2. Covered(kind, \h58, \h821E00, \h8220FF)
    BY <1>12, RFields, SMT DEF Covered, Registers, Addr24
  <2> QED
    BY <2>1, <2>2
<1>13. CASE kind = "SoftwareVersion"
  <2>1. o[2] = \h823400 /\ o[3] = \h8234FF /\ CommandOf(kind)[4] = \h58
    BY <1>13, SMT DEF opcode, CommandOf
  <2>2. Covered(kind, \h58, \h823400, \h8234FF)
    BY <1>13, RFields, SMT DEF Covered, Registers, Addr24
  <2> QED
    BY <2>1, <2>2
<1>14. CASE kind = "BatteryChargeStatus"
  <2>1. o[2] = \h295A00 /\ o[3] = \h295AFF /\ CommandOf(kind)[4] = \h51
    BY <1>14, SMT DEF opcode, CommandOf
  <2>2. Covered(kind, \h51, \h295A00, \h295AFF)
    BY <1>14, RFields, SMT DEF Covered, Registers, Addr24
  <2> QED
    BY <2>1, <2>2
<1>15. CASE kind = "BatteryInfo"
  <2>1. o[2] = \h491E00 /\ o[3] = \h495DFF /\ CommandOf(kind)[4] = \h51
    BY <1>15, SMT DEF opcode, CommandOf
  <2>2. Covered(kind, \h51, \h491E00, \h495DFF)
    BY <1>15, RFields, SMT DEF Covered, Registers, Addr24
  <2> QED
    BY <2>1, <2>2
<1>16. CASE kind = "MeteringGridTotalW"
  <2>1. o[2] = \h463600 /\ o[3] = \h463669 /\ CommandOf(kind)[4] = \h51
    BY <1>16, SMT DEF opcode, CommandOf
  <2>2. Covered(kind, \h51, \h463600, \h463669)
    BY <1>16, RFields, SMT DEF Covered, Registers, Addr24
  <2> QED
    BY <2>1, <2>2
<1>17. CASE kind = "SpotCosPhi"
  <2>1. o[2] = \h237400 /\ o[3] = \h4748FF /\ CommandOf(kind)[4] = \h51
    BY <1>17, SMT DEF opcode, CommandOf
  <2>2. Covered(kind, \h51, \h237400, \h4748FF)
    BY <1>17, RFields, SMT DEF Covered, Registers, Addr24
  <2> QED
    BY <2>1, <2>2
<1>18. CASE kind = "MaxFeedInPower"
  <2>1. o[2] = \h411F00 /\ o[3] = \h411F19 /\ CommandOf(kind)[4] = \h51
    BY <1>18, SMT DEF opcode, CommandOf
  <2>2. Covered(kind, \h51, \h411F00, \h411F19)
    BY <1>18, RFields, SMT DEF Covered, Registers, Addr24
  <2> QED
    BY <2>1, <2>2
<1>19. CASE kind = "NominalAcPower"
  <2>1. o[2] = \h411E00 /\ o[3] = \h411E19 /\ CommandOf(kind)[4] = \h51
    BY <1>19, SMT DEF opcode, CommandOf
  <2>2. Covered(kind, \h51, \h411E00, \h411E19)
    BY <1>19, RFields, SMT DEF Covered, Registers, Addr24
  <2> QED
    BY <2>1, <2>2
<1> QED
  BY <1>1, <1>2, <1>3, <1>4, <1>5, <1>6, <1>7, <1>8, <1>9, <1>10, <1>11, <1>12, <1>13, <1>14, <1>15, <1>16, <1>17, <1>18, <1>19 DEF QueryKind

\* Every register whose reading a query is there to publish is in the class and
\* the range the device hears in it (QueryKind::opcode with build_query_body),
\* whatever packet id and serials the header has.
THEOREM AlwaysReached == Spec => []RegistersReached
<1>1. Init => AskedInv
  BY DEF Init, AskedInv
<1>2. AskedInv => RegistersReached
  <2> SUFFICES ASSUME AskedInv, phase = "asked", request.name = "query"
               PROVE  /\ Hears(air[1]) # <<>>
                      /\ {reg \in Registers : reg.kind = request.kind} \subseteq Asked(Hears(air[1]))
    BY DEF RegistersReached
  <2> DEFINE heard == Hears(air[1])
             kind == request.kind
             first == opcode(kind)[2]
             last == opcode(kind)[3]
  <2>1. HeardQuery(request, heard) /\ heard # <<>>
    BY QueryHeard
  <2> HIDE DEF heard
  <2>2. kind \in QueryKind /\ heard.args = LE32(first) \o LE32(last)
    BY <2>1 DEF HeardQuery
  <2>3. heard.cmd = CommandOf(kind)
    BY <2>1, QueryOpcodes, QueryCommand DEF HeardQuery
  <2>4. Covered(kind, heard.cmd[4], first, last)
    BY <2>2, <2>3, QueryCovers
  <2> HIDE DEF first, last
  <2>5. Address(Slice(heard.args, 0, 4)) = first /\ Address(Slice(heard.args, 4, 8)) = last
    BY <2>2, <2>4, NamesAsked DEF Covered
  <2>6. \A reg \in Registers : reg.kind = kind => reg \in Asked(heard)
    BY <2>4, <2>5 DEF Covered, Asked
  <2> QED
    BY <2>1, <2>6 DEF heard
<1> QED
  BY <1>1, <1>2, NextAsked, PTL DEF Spec

\* A last record of 20 bytes after records of 28.
LEMMA CutRecord ==
    ASSUME NEW front \in Seq(Of(28)), NEW last \in Of(20)
    PROVE  LET r == FlattenSeq(Append(front, last))
               n == Len(front)
           IN  /\ r \in Bytes /\ Chunks(r, 28) = front
               /\ Len(r) \div 28 = n /\ Len(r) % 28 = 20
               /\ Slice(r, 28 * n, 28 * n + 20) = last
<1> DEFINE m == 28
           l == 20
           f == FlattenSeq(front)
           n == Len(front)
           r == FlattenSeq(Append(front, last))
           at == m * n
<1>1. m \in Strides /\ m \in Nat /\ l \in Nat
  BY DEF Strides
<1>2. last \in Bytes /\ Len(last) = l
  BY DEF Of
<1>3. front \in Seq(Of(m))
  OBVIOUS
<1>4. front \in Seq(Seq(U8)) /\ last \in Seq(U8)
  BY <1>2 DEF Of, Bytes
<1> HIDE DEF m, l
<1>5. Rows(f, front, m)
  BY <1>1, <1>3, FlattenRows
<1>6. r = f \o last
  BY <1>4, FlattenAppend
<1> HIDE DEF f, r
<1>7. f \in Bytes /\ Len(f) = at /\ \A k \in 1..n : Piece(f, m * (k - 1), front[k])
  BY <1>5 DEF Rows
<1>8. Grown(f \o last, f, last, at, at + l)
  BY <1>2, <1>7, Grow
<1>9. /\ r \in Bytes /\ Len(r) = at + l /\ Piece(r, at, last)
      /\ \A k \in 1..n : Piece(r, m * (k - 1), front[k])
  BY <1>6, <1>7, <1>8 DEF Grown
<1>10. n \in Nat
  OBVIOUS
<1>11. (at + l) \div m = n /\ (at + l) % m = 20
  <2> HIDE DEF n
  <2> QED
    BY <1>10, SMT DEF m, l
<1>12. Len(r) \div m = Len(front) /\ Len(r) % m = 20
  BY <1>9, <1>11
<1>13. Chunks(r, m) = front
  BY <1>1, <1>3, <1>9, <1>12, RowsChunks
<1>14. Slice(r, at, at + l) = last
  BY <1>2, <1>9 DEF Piece
<1> QED
  BY <1>9, <1>12, <1>13, <1>14 DEF r, m, l

LEMMA Records28 ==
    ASSUME NEW body, Len(body) >= 12
    PROVE  /\ \A ss \in Seq(Of(28)) :
                Drop(body, 12) = FlattenSeq(ss) => for_each_28_record(body) = ss
           /\ \A front \in Seq(Of(28)), last \in Of(20) :
                Drop(body, 12) = FlattenSeq(Append(front, last)) =>
                    for_each_28_record(body) = Append(front, last)
<1> DEFINE r == records_region(body)
           rest == IF Len(r) % 28 >= 20
                   THEN <<Slice(r, 28 * (Len(r) \div 28), 28 * (Len(r) \div 28) + 20)>> ELSE <<>>
<1>1. r = Drop(body, 12)
  BY DEF records_region
<1>2. for_each_28_record(body) = Chunks(r, 28) \o rest
  BY DEF for_each_28_record
<1> HIDE DEF r
<1>3. ASSUME NEW ss \in Seq(Of(28)), r = FlattenSeq(ss) PROVE Chunks(r, 28) \o rest = ss
  <2> DEFINE m == 28
  <2>1. m \in Strides /\ ss \in Seq(Of(m))
    BY DEF Strides
  <2> HIDE DEF m
  <2>2. Chunks(r, m) = ss /\ Len(r) % m = 0
    BY <1>3, <2>1, WholeRecords
  <2>3. rest = <<>>
    BY <2>2 DEF m
  <2> HIDE DEF rest
  <2>4. ss \o <<>> = ss
    OBVIOUS
  <2> QED
    BY <2>2, <2>3, <2>4 DEF m
<1>4. ASSUME NEW front \in Seq(Of(28)), NEW last \in Of(20), r = FlattenSeq(Append(front, last))
      PROVE  Chunks(r, 28) \o rest = Append(front, last)
  <2>1. /\ Chunks(r, 28) = front /\ Len(r) \div 28 = Len(front) /\ Len(r) % 28 = 20
        /\ Slice(r, 28 * Len(front), 28 * Len(front) + 20) = last
    BY <1>4, CutRecord
  <2>2. rest = <<last>>
    BY <2>1
  <2> HIDE DEF rest
  <2>3. front \o <<last>> = Append(front, last)
    <3> DEFINE S == Of(28) \cup Of(20)
    <3>1. front \in Seq(S) /\ last \in S
      OBVIOUS
    <3> HIDE DEF S
    <3> QED
      BY <3>1
  <2> QED
    BY <2>1, <2>2, <2>3
<1> QED
  BY <1>1, <1>2, <1>3, <1>4, Zenon

\* The records the parsers of a query cut a body into are those of the answer.
LEMMA RecordsRead ==
    ASSUME NEW req, NEW heard, HeardQuery(req, heard),
           NEW n, NEW order, NEW c, NEW cut, Answer(heard, n, order, c, cut),
           NEW body, Len(body) >= 12, Drop(body, 12) = FlattenSeq(RecordsOf(n, order, c, cut))
    PROVE  RecordsFor(req.kind, body) = RecordsOf(n, order, c, cut)
<1> DEFINE recs == RecordsOf(n, order, c, cut)
           kind == req.kind
           w == WordsAsked(kind)
           m == 8 + 4 * w
<1>1. n \in Nat
  BY WirePathAssumption DEF Answer
<1>2. ASSUME NEW k \in 1..n
      PROVE  recs[k] \in Of(IF cut /\ k = n THEN 20 ELSE m)
  <2> DEFINE short == cut /\ k = n
             words == c[k].words
             ws == RecordWords(words, short)
             rec == Record(order[k], c[k], short)
             a == order[k].addr
  <2>1. /\ short => Len(ws) = 3
        /\ ~ short => ws = words
        /\ Len(words) = WordCount(order[k].form)
        /\ IsRecord(rec, a, ws) /\ order[k] \in Asked(heard)
    BY AnswerRecord
  <2>2. recs[k] = rec
    BY DEF RecordsOf
  <2>3. Len(words) = w
    BY <2>1, AskedWords
  <2> HIDE DEF short, words, ws, rec, a, w
  <2>4. rec \in Bytes /\ Len(rec) = 8 + 4 * Len(ws)
    BY <2>1 DEF IsRecord
  <2>5. Len(rec) = IF short THEN 20 ELSE m
    <3>1. CASE short
      <4>1. Len(ws) = 3
        BY <2>1, <3>1
      <4>2. Len(rec) = 8 + 4 * 3
        BY <2>4, <4>1
      <4> QED
        BY <3>1, <4>2
    <3>2. CASE ~ short
      BY <2>1, <2>3, <2>4, <3>2
    <3> QED
      BY <3>1, <3>2
  <2>6. rec \in Of(IF short THEN 20 ELSE m)
    BY <2>4, <2>5 DEF Of
  <2> QED
    BY <2>2, <2>6 DEF short
<1>3. DOMAIN recs = 1..n /\ recs = [k \in 1..n |-> recs[k]]
  BY DEF RecordsOf
<1>4. records_region(body) = FlattenSeq(recs)
  BY DEF records_region
<1> HIDE DEF recs
<1>5. ASSUME cut = FALSE PROVE RecordsFor(kind, body) = recs
  <2>1. recs \in Seq(Of(m))
    BY <1>1, <1>2, <1>3, <1>5
  <2>2. CASE kind \in {"EnergyProduction", "OperationTime"}
    <3> DEFINE s == 16
    <3>1. m = s /\ s \in Strides
      BY <2>2 DEF WordsAsked, Strides
    <3> HIDE DEF s, m
    <3>2. Chunks(FlattenSeq(recs), s) = recs
      BY <2>1, <3>1, WholeRecords
    <3> QED
      BY <1>4, <2>2, <3>2 DEF RecordsFor, for_each_16_record, s
  <2>3. CASE kind = "TypeLabel"
    <3> DEFINE s == 40
    <3>1. m = s /\ s \in Strides
      BY <2>3 DEF WordsAsked, Strides
    <3> HIDE DEF s, m
    <3>2. Chunks(FlattenSeq(recs), s) = recs
      BY <2>1, <3>1, WholeRecords
    <3> QED
      BY <1>4, <2>3, <3>2 DEF RecordsFor, s
  <2>4. CASE kind \notin {"EnergyProduction", "OperationTime", "TypeLabel"}
    <3>1. m = 28
      BY <2>4 DEF WordsAsked
    <3> HIDE DEF m
    <3>2. for_each_28_record(body) = recs
      BY <2>1, <3>1, Records28 DEF recs
    <3> QED
      BY <2>4, <3>2 DEF RecordsFor
  <2> QED
    BY <2>2, <2>3, <2>4
<1>6. ASSUME cut = TRUE PROVE RecordsFor(kind, body) = recs
  <2>1. n \in 1..n /\ order[n].form \in Spots
    BY <1>1, <1>6 DEF Answer
  <2>2. w = 5
    <3>1. order[n] \in Asked(heard)
      BY <2>1, AnswerRecord
    <3>2. WordCount(order[n].form) = w
      BY <3>1, AskedWords
    <3> QED
      BY <2>1, <3>2 DEF WordCount, Spots
  <2>3. m = 28 /\ kind \notin {"EnergyProduction", "OperationTime", "TypeLabel"}
    BY <2>2 DEF WordsAsked
  <2> HIDE DEF m, w
  <2> DEFINE front == [k \in 1..(n - 1) |-> recs[k]]
             last == recs[n]
  <2>4. last \in Of(20)
    BY <1>2, <1>6, <2>1
  <2>5. \A k \in 1..(n - 1) : recs[k] \in Of(28)
    BY <1>1, <1>2, <2>3
  <2>6. front \in Seq(Of(28)) /\ Len(front) = n - 1
    BY <1>1, <2>1, <2>5
  <2>7. recs = Append(front, last)
    <3> DEFINE S == Of(28) \cup Of(20)
               t == Append(front, last)
    <3>1. \A k \in 1..n : recs[k] \in S
      BY <1>1, <2>4, <2>5
    <3>2. front \in Seq(S) /\ last \in S
      BY <2>4, <2>6
    <3> HIDE DEF S
    <3>3. recs \in Seq(S) /\ Len(recs) = n
      BY <1>1, <1>3, <3>1
    <3>4. \A k \in 1..(n - 1) : front[k] = recs[k]
      OBVIOUS
    <3>5. last = recs[n]
      OBVIOUS
    <3> HIDE DEF front, last
    <3>6. t \in Seq(S) /\ Len(t) = n /\ \A k \in 1..n : t[k] = recs[k]
      BY <1>1, <2>1, <2>6, <3>2, <3>4, <3>5
    <3> HIDE DEF t
    <3>7. t = recs
      BY <3>3, <3>6, SeqEqual
    <3> QED
      BY <3>7 DEF t
  <2> HIDE DEF front, last
  <2>8. for_each_28_record(body) = Append(front, last)
    BY <2>4, <2>6, <2>7, Records28 DEF recs
  <2> QED
    BY <2>3, <2>7, <2>8 DEF RecordsFor
<1>7. cut \in BOOLEAN
  BY DEF Answer
<1> QED
  BY <1>5, <1>6, <1>7 DEF recs

-----------------------------------------------------------------------------
(* From the registers to what is published. *)

\* The daemon finds in the reply's body what the device put into it.
LEMMA CodedRead ==
    ASSUME NEW heard, NEW recs, Answerable(heard, recs), heard.pkt_id = request.pkt_id,
           NEW code \in U16s, NEW shape \in Shapes
    PROVE  LET body == ReplyBytes(heard, recs)
               raw == Coded(heard, code, shape, recs)
           IN
           /\ ReplyBody(raw) = body /\ ReplyCode(raw) = code /\ body # None /\ body \in Bytes
           /\ Len(body) = 12 + Len(FlattenSeq(recs)) /\ Len(FlattenSeq(recs)) \in Nat
           /\ Len(body) >= 12 /\ Drop(body, 12) = FlattenSeq(recs)
<1> DEFINE raw == Coded(heard, code, shape, recs)
           body == ReplyBytes(heard, recs)
           h == DevHeader(heard.pkt_id, code)
           payload == encode_l2(h, body)
           frame == DevFrameOf(shape, payload)
<1>1. /\ parse(raw) = Ok(frame) /\ decode_l2(payload) = <<h, body>> /\ body \in Bytes
      /\ Len(body) = 12 + Len(FlattenSeq(recs)) /\ Drop(body, 12) = FlattenSeq(recs)
  BY ReplyShape DEF Shapes
<1>2. Len(FlattenSeq(recs)) \in Nat
  BY DEF Answerable, Bytes
<1>3. h.pkt_id = request.pkt_id /\ h.error_code = code
  BY DEF DevHeader
<1>4. frame.payload = payload
  BY DEF DevFrameOf, Frame
<1> HIDE DEF raw, body, h, payload, frame
<1>6. Len(body) >= 12
  BY <1>1, <1>2
<1>7. body # None
  BY <1>6 DEF None
<1>8. parse(raw).tag = "ok" /\ parse(raw).val = frame
  BY <1>1 DEF Ok
<1>9. <<h, body>> # <<>> /\ <<h, body>>[1] = h /\ <<h, body>>[2] = body
  OBVIOUS
<1>a. parse(raw).tag # "err"
  BY <1>8
<1>b. Decoded(raw) = <<h, body>>
  BY <1>1, <1>4, <1>8, <1>a DEF Decoded
<1>10. ReplyBody(raw) = body /\ ReplyCode(raw) = code
  BY <1>3, <1>9, <1>b DEF ReplyBody, ReplyCode
<1> QED
  BY <1>1, <1>2, <1>6, <1>7, <1>10 DEF body, raw

LEMMA ReplyRead ==
    ASSUME NEW heard, NEW recs, Answerable(heard, recs), heard.pkt_id = request.pkt_id,
           NEW shape \in Shapes
    PROVE  LET body == ReplyBytes(heard, recs)
               raw == Reply(heard, shape, recs)
           IN
           /\ ReplyBody(raw) = body /\ ReplyCode(raw) = 0 /\ body # None /\ body \in Bytes
           /\ Len(body) = 12 + Len(FlattenSeq(recs)) /\ Len(FlattenSeq(recs)) \in Nat
           /\ Len(body) >= 12 /\ Drop(body, 12) = FlattenSeq(recs)
<1>1. 0 \in U16s
  BY InU16
<1> QED
  BY <1>1, CodedRead DEF Reply

LEMMA RepliedPublished ==
    ASSUME Replied
    PROVE  /\ ReplyBody(air[1]) # None
           /\ Faithful(Publish(request.kind, ReplyBody(air[1])), request.kind, held)
<1>1. PICK heard, n, order, c, cut : \E shape \in Shapes :
        /\ HeardQuery(request, heard) /\ Answer(heard, n, order, c, cut)
        /\ air = <<Reply(heard, shape, RecordsOf(n, order, c, cut))>>
        /\ held = HeldOf(n, order, c)
  BY DEF Replied
<1>2. PICK shape \in Shapes :
        /\ HeardQuery(request, heard) /\ Answer(heard, n, order, c, cut)
        /\ air = <<Reply(heard, shape, RecordsOf(n, order, c, cut))>>
        /\ held = HeldOf(n, order, c)
  BY <1>1
<1> DEFINE recs == RecordsOf(n, order, c, cut)
           body == ReplyBytes(heard, recs)
           hs == HeldOf(n, order, c)
           kind == request.kind
<1>3. Answerable(heard, recs)
  BY <1>2, AnswerBytes
<1>4. heard.pkt_id = request.pkt_id /\ kind \in QueryKind
  BY <1>2 DEF HeardQuery
<1>5. Carries(recs, hs)
  BY <1>2, AnswerCarries
<1>a. air[1] = Reply(heard, shape, recs)
  BY <1>2
<1> HIDE DEF recs
<1>6. /\ ReplyBody(air[1]) = body /\ body # None
      /\ Len(body) >= 12 /\ Drop(body, 12) = FlattenSeq(recs)
  BY <1>3, <1>4, <1>a, ReplyRead
<1> HIDE DEF body, hs
<1>7. RecordsFor(kind, body) = recs
  BY <1>2, <1>6, RecordsRead DEF recs
<1>8. Faithful(Publish(kind, body), kind, hs)
  BY <1>4, <1>5, <1>7, QueryPublished
<1> QED
  BY <1>2, <1>6, <1>8 DEF hs

\* The strengthening: what is in flight answers the query from the registers
\* that are held, and what was published of it is faithful to them.
FaithfulInv ==
    /\ AnsweredInv
    /\ phase = "done" /\ request.name = "query" =>
         Faithful(result, request.kind, held)

LEMMA NextFaithful == FaithfulInv /\ [Next]_vars => FaithfulInv'
<1> SUFFICES ASSUME FaithfulInv, [Next]_vars PROVE FaithfulInv'
  OBVIOUS
<1>0. AnsweredInv'
  BY NextAnswered DEF FaithfulInv
<1>1. CASE \E req \in Requests : Ask(req)
  BY <1>0, <1>1 DEF Ask, FaithfulInv
<1>2. CASE AnswerQuery
  BY <1>0, <1>2 DEF AnswerQuery, FaithfulInv
<1>3. CASE AnswerEventLog
  BY <1>0, <1>3 DEF AnswerEventLog, FaithfulInv
<1>4. CASE NoReadings
  BY <1>0, <1>4 DEF NoReadings, FaithfulInv
<1>5. CASE ReceiveQuery
  <2>1. /\ phase = "answered" /\ request.name = "query" /\ request' = request /\ held' = held
        /\ ReplyBody(air[1]) # None => result' = Publish(request.kind, ReplyBody(air[1]))
    BY <1>5 DEF ReceiveQuery, Publish
  <2>2. Replied
    BY <2>1 DEF FaithfulInv, AnsweredInv
  <2>3. Faithful(result', request'.kind, held')
    BY <2>1, <2>2, RepliedPublished
  <2> QED
    BY <1>0, <2>3 DEF FaithfulInv
<1>6. CASE ReceiveEventLog
  BY <1>0, <1>6 DEF ReceiveEventLog, FaithfulInv
<1>7. CASE NextExchange
  BY <1>0, <1>7 DEF NextExchange, FaithfulInv
<1>8. CASE UNCHANGED vars
  BY <1>0, <1>8 DEF vars, FaithfulInv, Faithful
<1> QED
  BY <1>1, <1>2, <1>3, <1>4, <1>5, <1>6, <1>7, <1>8 DEF Next

\* For every content of the registers, every selection of them that is in the
\* range of a query, every shape of the reply and every place a last record
\* may be cut at: what is published is exactly the readings the device held
\* for this query, each under its key and with its divisor.
THEOREM AlwaysFaithful == Spec => []ReadingsFaithful
<1>1. Init => FaithfulInv
  BY DEF Init, FaithfulInv, AnsweredInv, AskedInv
<1>2. FaithfulInv => ReadingsFaithful
  BY DEF FaithfulInv, ReadingsFaithful, Faithful
<1> QED
  BY <1>1, <1>2, NextFaithful, PTL DEF Spec

-----------------------------------------------------------------------------
(***************************************************************************)
(* EventLogPublished, for a device that sends its events in one frame      *)
(***************************************************************************)
\* What the device hears of an event-log query.
HeardLog(req, heard) ==
    /\ req.name = "event_log" /\ heard.pkt_id = req.pkt_id /\ heard.pkt_id \in PacketIds
    /\ heard.cmd \in Words4 /\ heard.args \in Bytes /\ Len(heard.args) = 8

LEMMA LogHeard ==
    ASSUME AskedInv, phase = "asked", request.name = "event_log"
    PROVE  HeardLog(request, Hears(air[1]))
<1> DEFINE cmd == <<0, 2, \h10, \h70>>
           args == DayAgo \o Now
           heard == Hears(air[1])
<1>1. request \in Requests
  BY DEF AskedInv
<1>2. request.pkt_id \in PktIds
  BY <1>1, RequestCases
<1>3. PICK h : Message(request, h, cmd, args) /\ ForDevice(h)
  BY <1>2, EventLogMessage
<1>4. DayAgo \in Bytes /\ Now \in Bytes /\ Len(DayAgo) = 4 /\ Len(Now) = 4
  BY FourBytes, BytesOfRequests DEF DayAgo, Now
<1>5. args \in Bytes /\ Len(args) = Len(DayAgo) + Len(Now)
  BY <1>4, CatElements
<1>b. cmd = <<0, 2, \h10, \h70>> /\ args = DayAgo \o Now
  OBVIOUS
<1> HIDE DEF args
<1>6. Len(args) = 8
  BY <1>4, <1>5
<1> HIDE DEF cmd
<1>7. Speaks(request, h, cmd, args)
  BY <1>3, <1>b DEF Speaks
<1>8. cmd \in Words4
  BY <1>3 DEF Message
<1> HIDE DEF heard
<1> DEFINE to == LE16(h.dst_susy_id) \o h.dst_serial
<1>9. heard = Heard(to, AppSerial, request.pkt_id, cmd, args)
  BY <1>7, AskedHeard DEF heard
<1> HIDE DEF to
<1>10. heard.pkt_id = request.pkt_id /\ heard.cmd = cmd /\ heard.args = args
  BY <1>9, HeardFields
<1>11. request.pkt_id \in PacketIds
  BY <1>2, Constants
<1> QED
  BY <1>5, <1>6, <1>8, <1>10, <1>11 DEF HeardLog, heard

\* The six words of an event on the wire.
Six(rec, a, b, c, d, e, f) ==
    /\ rec \in Of(24)
    /\ Word(rec, 0) = a /\ Word(rec, 4) = b /\ Word(rec, 8) = c
    /\ Word(rec, 12) = d /\ Word(rec, 16) = e /\ Word(rec, 20) = f

LEMMA SixWords ==
    ASSUME NEW a \in Words4, NEW b \in Words4, NEW c \in Words4,
           NEW d \in Words4, NEW e \in Words4, NEW f \in Words4
    PROVE  Six(a \o b \o c \o d \o e \o f, a, b, c, d, e, f)
<1> DEFINE x2 == a \o b
           x3 == x2 \o c
           x4 == x3 \o d
           x5 == x4 \o e
           x6 == x5 \o f
<1>1. /\ a \in Bytes /\ b \in Bytes /\ c \in Bytes /\ d \in Bytes /\ e \in Bytes /\ f \in Bytes
      /\ Len(a) = 4 /\ Len(b) = 4 /\ Len(c) = 4 /\ Len(d) = 4 /\ Len(e) = 4 /\ Len(f) = 4
  BY DEF Words4
<1>2. Piece(a, 0, a)
  BY <1>1 DEF Piece, Slice, Bytes
<1>3. Grown(x2, a, b, 4, 4 + 4)
  BY <1>1, Grow
<1> HIDE DEF x2
<1>4. x2 \in Bytes /\ Len(x2) = 8 /\ Piece(x2, 0, a) /\ Piece(x2, 4, b)
  BY <1>2, <1>3 DEF Grown
<1>5. Grown(x3, x2, c, 8, 8 + 4)
  BY <1>1, <1>4, Grow
<1> HIDE DEF x3
<1>6. x3 \in Bytes /\ Len(x3) = 12 /\ Piece(x3, 0, a) /\ Piece(x3, 4, b) /\ Piece(x3, 8, c)
  BY <1>4, <1>5 DEF Grown
<1>7. Grown(x4, x3, d, 12, 12 + 4)
  BY <1>1, <1>6, Grow
<1> HIDE DEF x4
<1>8. x4 \in Bytes /\ Len(x4) = 16 /\ Piece(x4, 0, a) /\ Piece(x4, 4, b) /\ Piece(x4, 8, c)
      /\ Piece(x4, 12, d)
  BY <1>6, <1>7 DEF Grown
<1>9. Grown(x5, x4, e, 16, 16 + 4)
  BY <1>1, <1>8, Grow
<1> HIDE DEF x5
<1>10. x5 \in Bytes /\ Len(x5) = 20 /\ Piece(x5, 0, a) /\ Piece(x5, 4, b) /\ Piece(x5, 8, c)
       /\ Piece(x5, 12, d) /\ Piece(x5, 16, e)
  BY <1>8, <1>9 DEF Grown
<1>11. Grown(x6, x5, f, 20, 20 + 4)
  BY <1>1, <1>10, Grow
<1> HIDE DEF x6
<1>12. x6 \in Bytes /\ Len(x6) = 24 /\ Piece(x6, 0, a) /\ Piece(x6, 4, b) /\ Piece(x6, 8, c)
       /\ Piece(x6, 12, d) /\ Piece(x6, 16, e) /\ Piece(x6, 20, f)
  BY <1>10, <1>11 DEF Grown
<1>13. /\ Word(x6, 0) = a /\ Word(x6, 4) = b /\ Word(x6, 8) = c
       /\ Word(x6, 12) = d /\ Word(x6, 16) = e /\ Word(x6, 20) = f
  BY <1>1, <1>12 DEF Piece, Word
<1>14. x6 \in Of(24)
  BY <1>12 DEF Of
<1>15. Six(x6, a, b, c, d, e, f)
  BY <1>13, <1>14 DEF Six
<1> QED
  BY <1>15 DEF x6, x5, x4, x3, x2

\* An event's bytes are a record of 24 that is not padding, and is read back
\* as the event.
LEMMA EntryRead ==
    ASSUME NEW i \in 1..60, NEW ts \in U8
    PROVE  LET e == LogEntry(i, ts)
               rec == EntryBytes(e)
           IN  rec \in Of(24) /\ EventRecord(rec) = e /\ Slice(rec, 0, 12) # Zeros(12)
<1> DEFINE a == <<i, \h7E, \h7D, \h11>>
           b == <<ts, \h13, \h11, \h12>>
           c == <<\h30 + i, 1, \h11, \h12>>
           d == DevSerial
           p == <<\h11, \h12, \h13, \h7D>>
           q == <<\h7D, \h7D, \h5E, \h7E>>
           e == LogEntry(i, ts)
           rec == EntryBytes(e)
<1>1. /\ i \in U8 /\ \h30 + i \in U8 /\ \h7E \in U8 /\ \h7D \in U8 /\ \h11 \in U8 /\ \h12 \in U8
      /\ \h13 \in U8 /\ 1 \in U8 /\ \h5E \in U8
  BY SMT DEF U8
<1>2. /\ a \in Words4 /\ b \in Words4 /\ c \in Words4 /\ d \in Words4 /\ p \in Words4 /\ q \in Words4
  BY <1>1, FourBytes, Constants
<1>3. a[2] = \h7E
  OBVIOUS
<1>4. e = [entry_id |-> a, timestamp |-> b, event_code |-> c, device_id |-> d,
           param1 |-> p, param2 |-> q]
  BY DEF LogEntry
<1> HIDE DEF a, b, c, d, p, q, e
<1>5. rec = a \o b \o c \o d \o p \o q
  BY <1>4 DEF EntryBytes
<1>6. Six(rec, a, b, c, d, p, q)
  BY <1>2, <1>5, SixWords
<1> HIDE DEF rec
<1>7. rec \in Of(24) /\ EventRecord(rec) = e
  BY <1>4, <1>6 DEF Six, EventRecord
<1>8. Slice(rec, 0, 12) # Zeros(12)
  <2> DEFINE s == Slice(rec, 0, 12)
             w == Slice(rec, 0, 4)
             z == 0
             m == 12
             l == 4
  <2>1. rec \in Bytes /\ Len(rec) = 24
    BY <1>7 DEF Of
  <2>2. z \in Nat /\ m \in Nat /\ l \in Nat /\ z <= m /\ m <= Len(rec) /\ z <= l /\ l <= Len(rec)
    BY <2>1
  <2>3. 2 \in 1..(m - z) /\ 2 \in 1..(l - z) /\ z + 2 = 2
    OBVIOUS
  <2> HIDE DEF z, m, l
  <2>4. Slice(rec, z, m)[2] = rec[z + 2] /\ Slice(rec, z, l)[2] = rec[z + 2]
    BY <2>1, <2>2, <2>3, SliceType
  <2>5. s[2] = w[2]
    BY <2>4 DEF z, m, l
  <2>6. w = a
    <3>1. Slice(rec, 0, 0 + 4) = a
      BY <1>6 DEF Six, Word
    <3> QED
      BY <3>1
  <2>7. Zeros(12)[2] = 0
    BY DEF Zeros
  <2> HIDE DEF s, w
  <2>8. s[2] = \h7E
    BY <1>3, <2>5, <2>6
  <2>9. s # Zeros(12)
    BY <2>7, <2>8
  <2> QED
    BY <2>9 DEF s
<1> QED
  BY <1>7, <1>8 DEF rec, e

\* A log of n events, the newest first or last.
EventTime(newest, i) == IF newest THEN 64 - i ELSE 64 + i
IsLog(log, n, newest) ==
    /\ n \in 0..60 /\ newest \in BOOLEAN
    /\ log = [i \in 1..n |-> LogEntry(i, EventTime(newest, i))]
LogRecs(log) == [k \in 1..Len(log) |-> EntryBytes(log[k])]

LEMMA LogShape ==
    ASSUME NEW log \in Logs
    PROVE  \E n \in 0..60, newest \in BOOLEAN : IsLog(log, n, newest)
<1>1. PICK n \in LogSizes, newest \in BOOLEAN :
              log = [i \in 1..n |-> LogEntry(i, IF newest THEN 64 - i ELSE 64 + i)]
  BY DEF Logs
<1>2. n \in 0..60
  BY WirePathAssumption
<1>3. IsLog(log, n, newest)
  BY <1>1, <1>2 DEF IsLog, EventTime
<1> QED
  BY <1>2, <1>3

LEMMA LogRead ==
    ASSUME NEW log, NEW n, NEW newest, IsLog(log, n, newest)
    PROVE  /\ n \in Nat /\ n <= 60 /\ Len(log) = n /\ DOMAIN log = 1..n
           /\ LogRecs(log) \in Seq(Of(24)) /\ Len(LogRecs(log)) = n
           /\ log = [k \in 1..n |-> log[k]]
           /\ \A k \in 1..n : /\ EventRecord(LogRecs(log)[k]) = log[k]
                              /\ Slice(LogRecs(log)[k], 0, 12) # Zeros(12)
<1> DEFINE recs == LogRecs(log)
<1>1. n \in Nat /\ n <= 60 /\ newest \in BOOLEAN
  BY DEF IsLog
<1>2. log = [i \in 1..n |-> LogEntry(i, EventTime(newest, i))]
  BY DEF IsLog
<1>3. DOMAIN log = 1..n /\ \A k \in 1..n : log[k] = LogEntry(k, EventTime(newest, k))
  BY <1>2
<1>4. Len(log) = n
  <2> DEFINE S == {LogEntry(i, EventTime(newest, i)) : i \in 1..n}
  <2>1. log \in [1..n -> S]
    BY <1>2
  <2> HIDE DEF S
  <2> QED
    BY <1>1, <2>1
<1>5. log = [k \in 1..n |-> log[k]]
  BY <1>2
<1>6. recs = [k \in 1..n |-> EntryBytes(log[k])]
  BY <1>4 DEF LogRecs
<1>7. ASSUME NEW k \in 1..n
      PROVE  /\ recs[k] \in Of(24) /\ EventRecord(recs[k]) = log[k]
             /\ Slice(recs[k], 0, 12) # Zeros(12)
  <2> DEFINE ts == EventTime(newest, k)
  <2>1. k \in 1..60 /\ ts \in U8
    BY <1>1, SMT DEF EventTime, U8
  <2>2. recs[k] = EntryBytes(log[k]) /\ log[k] = LogEntry(k, ts)
    BY <1>3, <1>6
  <2> HIDE DEF ts, recs
  <2> QED
    BY <2>1, <2>2, EntryRead
<1> HIDE DEF recs
<1>8. recs \in Seq(Of(24)) /\ Len(recs) = n
  <2> DEFINE S == Of(24)
  <2>1. recs \in [1..n -> S]
    BY <1>6, <1>7
  <2> HIDE DEF S
  <2>2. recs \in Seq(S) /\ Len(recs) = n
    BY <1>1, <2>1
  <2> QED
    BY <2>2 DEF S
<1> QED
  BY <1>1, <1>3, <1>4, <1>5, <1>7, <1>8 DEF recs

\* The log is read back from its records, and what is too short to be one is
\* not taken for an event.
LEMMA LogParsed ==
    ASSUME NEW log, NEW n, NEW newest, IsLog(log, n, newest),
           NEW agg, Len(agg) >= 12, NEW tail \in Bytes, Len(tail) < 24,
           Drop(agg, 12) = FlattenSeq(LogRecs(log)) \o tail
    PROVE  parse_event_log_records(agg) = log
<1> DEFINE ss == LogRecs(log)
           f == FlattenSeq(ss)
           r == f \o tail
           m == 24
           l == Len(tail)
           at == m * n
<1>1. /\ n \in Nat /\ ss \in Seq(Of(m)) /\ Len(ss) = n /\ log = [k \in 1..n |-> log[k]]
      /\ \A k \in 1..n : EventRecord(ss[k]) = log[k] /\ Slice(ss[k], 0, 12) # Zeros(12)
  BY LogRead
<1>2. m \in Strides /\ m \in Nat /\ l \in Nat /\ l < m
  BY DEF Strides, Bytes
<1>3. records_region(agg) = r
  BY DEF records_region
<1> HIDE DEF m, ss
<1>4. Rows(f, ss, m)
  BY <1>1, <1>2, FlattenRows
<1> HIDE DEF f, l
<1>5. f \in Bytes /\ Len(f) = at /\ \A k \in 1..n : Piece(f, m * (k - 1), ss[k])
  BY <1>1, <1>4 DEF Rows
<1>6. Grown(r, f, tail, at, at + l)
  BY <1>5, Grow DEF l
<1> HIDE DEF r
<1>7. /\ r \in Bytes /\ Len(r) = at + l
      /\ \A k \in 1..n : Piece(r, m * (k - 1), ss[k])
  BY <1>5, <1>6 DEF Grown
<1>8. (at + l) \div m = n
  BY <1>1, <1>2, SMT DEF m
<1>9. Chunks(r, m) = ss
  BY <1>1, <1>2, <1>7, <1>8, RowsChunks
<1> DEFINE padding == {k \in DOMAIN ss : Slice(ss[k], 0, 12) = Zeros(12)}
<1>10. DOMAIN ss = 1..n
  BY <1>1
<1>11. padding = {}
  BY <1>1, <1>10
<1>12. parse_event_log_records(agg)
         = [k \in 1..(IF padding = {} THEN Len(ss) ELSE Min(padding) - 1) |-> EventRecord(ss[k])]
  BY <1>3, <1>9 DEF parse_event_log_records, m
<1> HIDE DEF padding
<1>13. parse_event_log_records(agg) = [k \in 1..n |-> EventRecord(ss[k])]
  BY <1>1, <1>11, <1>12
<1>14. parse_event_log_records(agg) = [k \in 1..n |-> log[k]]
  BY <1>1, <1>13
<1> QED
  BY <1>1, <1>14

LEMMA FlattenOne ==
    ASSUME NEW b \in Bytes
    PROVE  FlattenSeq(<<b>>) = b
<1> DEFINE e == <<>>
<1>1. e \in Seq(Seq(U8)) /\ b \in Seq(U8) /\ Append(e, b) = <<b>>
  BY DEF Bytes
<1>2. FlattenSeq(Append(e, b)) = FlattenSeq(e) \o b
  BY <1>1, FlattenAppend
<1>3. <<>> \o b = b
  BY <1>1
<1> QED
  BY <1>1, <1>2, <1>3, FlattenEmpty

LEMMA TwoEqual ==
    ASSUME NEW S, NEW s \in Seq(S), NEW t \in Seq(S), Len(s) = 2, Len(t) = 2,
           s[1] = t[1], s[2] = t[2]
    PROVE  s = t
<1>1. \A i \in 1..Len(s) : i = 1 \/ i = 2
  OBVIOUS
<1>2. \A i \in 1..Len(s) : s[i] = t[i]
  BY <1>1
<1> QED
  BY <1>2, SeqEqual

LEMMA PairOf ==
    ASSUME NEW S, NEW a \in S, NEW b \in S
    PROVE  <<a>> \in Seq(S) /\ Append(<<a>>, b) = <<a, b>>
<1> DEFINE e == <<a>>
           t == <<a, b>>
           u == Append(e, b)
<1>1. e \in Seq(S) /\ Len(e) = 1 /\ e[1] = a
  OBVIOUS
<1>2. t \in Seq(S) /\ Len(t) = 2 /\ t[1] = a /\ t[2] = b
  OBVIOUS
<1> HIDE DEF e, t
<1>3. u \in Seq(S) /\ Len(u) = 2 /\ u[1] = a /\ u[2] = b
  <2>1. /\ u \in Seq(S) /\ Len(u) = Len(e) + 1 /\ u[Len(e) + 1] = b
        /\ \A i \in 1..Len(e) : u[i] = e[i]
    <3>1. e \in Seq(S)
      BY <1>1
    <3>2. u \in Seq(S) /\ Len(u) = Len(e) + 1
      BY <3>1
    <3>3. u[Len(e) + 1] = b
      BY <3>1
    <3>4. ASSUME NEW i \in 1..Len(e) PROVE u[i] = e[i]
      BY <3>1
    <3> HIDE DEF u
    <3> QED
      BY <3>2, <3>3, <3>4
  <2>2. 1 \in 1..Len(e) /\ Len(e) + 1 = 2
    BY <1>1
  <2> HIDE DEF u
  <2> QED
    BY <1>1, <2>1, <2>2
<1> HIDE DEF u
<1>4. u = t
  BY <1>2, <1>3, TwoEqual
<1> QED
  BY <1>1, <1>4 DEF u, t, e

LEMMA FirstTwo ==
    ASSUME NEW S, NEW s \in [1..2 -> S]
    PROVE  SubSeq(s, 1, 1) = <<s[1]>> /\ SubSeq(s, 1, 2) = <<s[1], s[2]>>
<1> DEFINE a == s[1]
           b == s[2]
           t == <<a, b>>
           e == <<a>>
           u == SubSeq(s, 1, 2)
           v == SubSeq(s, 1, 1)
<1>1. s \in Seq(S) /\ Len(s) = 2 /\ a \in S /\ b \in S
  <2> DEFINE n == 2
  <2>1. n \in Nat /\ 1 \in 1..2 /\ 2 \in 1..2
    OBVIOUS
  <2>2. s \in [1..n -> S]
    OBVIOUS
  <2> HIDE DEF n
  <2>3. s \in Seq(S) /\ Len(s) = n
    BY <2>1, <2>2
  <2>4. a \in S /\ b \in S
    BY <2>1
  <2> QED
    BY <2>3, <2>4 DEF n
<1>2. t \in Seq(S) /\ Len(t) = 2 /\ t[1] = a /\ t[2] = b
  BY <1>1
<1>3. e \in Seq(S) /\ Len(e) = 1 /\ e[1] = a
  BY <1>1
<1>4. u \in Seq(S) /\ Len(u) = 2 /\ u[1] = a /\ u[2] = b
  BY <1>1
<1>5. v \in Seq(S) /\ Len(v) = 1 /\ v[1] = a
  BY <1>1
<1> HIDE DEF t, e, u, v
<1>6. u = t
  BY <1>2, <1>4, TwoEqual
<1>7. v = e
  <2>1. \A i \in 1..Len(v) : v[i] = e[i]
    BY <1>3, <1>5
  <2> QED
    BY <1>3, <1>5, <2>1, SeqEqual
<1> QED
  BY <1>6, <1>7 DEF t, e, u, v

LEMMA FlattenTwo ==
    ASSUME NEW a \in Bytes, NEW b \in Bytes
    PROVE  FlattenSeq(<<a, b>>) = a \o b
<1> DEFINE e == <<a>>
<1>0. e \in Seq(Bytes) /\ Append(e, b) = <<a, b>>
  BY PairOf
<1> HIDE DEF e
<1>1. e \in Seq(Seq(U8)) /\ b \in Seq(U8) /\ Append(e, b) = <<a, b>>
  BY <1>0 DEF Bytes
<1>2. FlattenSeq(Append(e, b)) = FlattenSeq(e) \o b
  BY <1>1, FlattenAppend
<1>3. FlattenSeq(e) = a
  BY FlattenOne DEF e
<1> QED
  BY <1>1, <1>2, <1>3

LEMMA DropCat ==
    ASSUME NEW a \in Bytes, NEW b \in Bytes, NEW k \in Nat, k <= Len(a)
    PROVE  Drop(a \o b, k) = Drop(a, k) \o b
<1> DEFINE h == Slice(a, 0, k)
           t == Drop(a, k)
<1>1. h \in Bytes /\ t \in Bytes /\ a = h \o t /\ Len(h) = k
  BY SplitAt
<1> HIDE DEF h, t
<1>2. (h \o t) \o b = h \o (t \o b)
  BY <1>1, CatAssociates
<1>3. t \o b \in Bytes
  BY <1>1, CatElements
<1>4. Drop(h \o (t \o b), Len(h)) = t \o b
  BY <1>1, <1>3, DropFirst
<1>5. Drop(a \o b, k) = t \o b
  BY <1>1, <1>2, <1>4
<1> QED
  BY <1>5 DEF t

\* A frame that ends the collecting of fragments.
Stop(frames, f) ==
    \/ ReplyCode(frames[f]) # 0
    \/ Len(ReplyBody(frames[f])) <= 12
    \/ f = MaxReplies

Bodies(frames) == [f \in 1..Len(frames) |-> ReplyBody(frames[f])]

LEMMA NoStop ==
    ASSUME NEW frames, \A f \in 1..Len(frames) : ~ Stop(frames, f)
    PROVE  Aggregated(frames).tag = "err"
BY DEF Aggregated, Stop, Err

LEMMA FirstStop ==
    ASSUME NEW frames, Len(frames) \in Nat, NEW k \in 1..Len(frames), Stop(frames, k),
           \A f \in 1..Len(frames) : f < k => ~ Stop(frames, f)
    PROVE  /\ ReplyCode(frames[k]) # 0 => Aggregated(frames).tag = "err"
           /\ ReplyCode(frames[k]) = 0 =>
                Aggregated(frames) = Ok(FlattenSeq(SubSeq(Bodies(frames), 1, k)))
<1> DEFINE bodies == Bodies(frames)
           stops == {f \in 1..Len(frames) :
                        \/ ReplyCode(frames[f]) # 0
                        \/ Len(bodies[f]) <= 12
                        \/ f = MaxReplies}
<1>1. Aggregated(frames) =
        IF stops = {} THEN Err("Silent")
        ELSE IF ReplyCode(frames[Min(stops)]) # 0 THEN Err("event-log-retcode")
        ELSE Ok(FlattenSeq(SubSeq(bodies, 1, Min(stops))))
  BY Zenon DEF Aggregated, Bodies
<1>2. \A f \in 1..Len(frames) : bodies[f] = ReplyBody(frames[f])
  BY DEF Bodies
<1> HIDE DEF bodies
<1>3. stops = {f \in 1..Len(frames) : Stop(frames, f)}
  BY <1>2 DEF Stop
<1> HIDE DEF stops
<1>4. stops \subseteq Nat /\ k \in stops /\ \A f \in stops : k <= f
  BY <1>3
<1>5. Min(stops) = k
  BY <1>4, MinIs
<1> QED
  BY <1>1, <1>4, <1>5 DEF Err, bodies

LEMMA JoinedLists ==
    ASSUME NEW S, NEW e \in Seq(S), NEW f \in Seq(S)
    PROVE  /\ e \o f \in Seq(S) /\ Len(e \o f) = Len(e) + Len(f)
           /\ \A i \in 1..Len(e) : (e \o f)[i] = e[i]
           /\ \A i \in 1..Len(f) : (e \o f)[Len(e) + i] = f[i]
OBVIOUS

LEMMA SingleOf ==
    ASSUME NEW x
    PROVE  SubSeq(<<x>>, 1, 1) = <<x>> /\ \A y : <<x>> \o <<y>> = <<x, y>>
<1>1. SubSeq(<<x>>, 1, 1) = <<x>>
  <2> DEFINE S == {x}
             e == <<x>>
             u == SubSeq(e, 1, 1)
  <2>0. x \in S
    OBVIOUS
  <2> HIDE DEF S
  <2>1. e \in Seq(S) /\ Len(e) = 1 /\ e[1] = x
    BY <2>0
  <2> HIDE DEF e
  <2>2. u \in Seq(S) /\ Len(u) = 1 /\ u[1] = x
    BY <2>1
  <2> HIDE DEF u
  <2>3. \A i \in 1..Len(u) : u[i] = e[i]
    BY <2>1, <2>2
  <2>4. u = e
    BY <2>1, <2>2, <2>3, SeqEqual
  <2> QED
    BY <2>4 DEF e, u
<1>2. ASSUME NEW y PROVE <<x>> \o <<y>> = <<x, y>>
  <2> DEFINE S == {x, y}
             e == <<x>>
             f == <<y>>
             t == <<x, y>>
             u == e \o f
  <2>0. x \in S /\ y \in S
    OBVIOUS
  <2> HIDE DEF S
  <2>1. e \in Seq(S) /\ Len(e) = 1 /\ e[1] = x /\ f \in Seq(S) /\ Len(f) = 1 /\ f[1] = y
    BY <2>0
  <2>2. t \in Seq(S) /\ Len(t) = 2 /\ t[1] = x /\ t[2] = y
    BY <2>0
  <2> HIDE DEF e, f, t
  <2>3. u \in Seq(S) /\ Len(u) = 2 /\ u[1] = x /\ u[2] = y
    <3>1. /\ u \in Seq(S) /\ Len(u) = Len(e) + Len(f)
          /\ \A i \in 1..Len(e) : u[i] = e[i]
          /\ \A i \in 1..Len(f) : u[Len(e) + i] = f[i]
      BY <2>1, JoinedLists
    <3> HIDE DEF u
    <3> QED
      BY <2>1, <3>1
  <2> HIDE DEF u
  <2>4. u = t
    BY <2>2, <2>3, TwoEqual
  <2> QED
    BY <2>4 DEF e, f, t, u
<1> QED
  BY <1>1, <1>2

\* One frame, and two.
LEMMA OneAggregated ==
    ASSUME NEW x, NEW a \in Bytes, ReplyBody(x) = a
    PROVE  /\ ReplyCode(x) # 0 => Aggregated(<<x>>).tag = "err"
           /\ ReplyCode(x) = 0 /\ Len(a) > 12 => Aggregated(<<x>>).tag = "err"
           /\ ReplyCode(x) = 0 /\ Len(a) = 12 => Aggregated(<<x>>) = Ok(a)
<1> DEFINE frames == <<x>>
<1>1. Len(frames) = 1 /\ frames[1] = x /\ \A f \in 1..Len(frames) : f = 1
  OBVIOUS
<1> HIDE DEF frames
<1>2. Len(a) \in Nat /\ 1 # MaxReplies
  BY SMT DEF Bytes, MaxReplies
<1>3. ASSUME ReplyCode(x) # 0 PROVE Aggregated(frames).tag = "err"
  <2>1. Stop(frames, 1)
    BY <1>1, <1>3 DEF Stop
  <2> QED
    BY <1>1, <1>3, <2>1, FirstStop
<1>4. ASSUME ReplyCode(x) = 0, Len(a) > 12 PROVE Aggregated(frames).tag = "err"
  <2>1. ~ (Len(a) <= 12)
    BY <1>2, <1>4
  <2>2. ~ Stop(frames, 1)
    BY <1>1, <1>2, <1>4, <2>1, Zenon DEF Stop
  <2> QED
    BY <1>1, <2>2, NoStop
<1>5. ASSUME ReplyCode(x) = 0, Len(a) = 12 PROVE Aggregated(frames) = Ok(a)
  <2>0. 12 <= 12
    OBVIOUS
  <2>a. Len(ReplyBody(frames[1])) <= 12
    BY <1>1, <1>5, <2>0, Zenon
  <2>1. Stop(frames, 1)
    BY <2>a, Zenon DEF Stop
  <2>2. Aggregated(frames) = Ok(FlattenSeq(SubSeq(Bodies(frames), 1, 1)))
    BY <1>1, <1>5, <2>1, FirstStop
  <2>3. Bodies(frames) = [f \in 1..1 |-> ReplyBody(frames[f])]
    BY <1>1 DEF Bodies
  <2>4. [f \in 1..1 |-> ReplyBody(frames[f])] = <<a>>
    BY <1>1
  <2>5. SubSeq(<<a>>, 1, 1) = <<a>>
    BY SingleOf
  <2> QED
    BY <2>2, <2>3, <2>4, <2>5, FlattenOne
<1> QED
  BY <1>3, <1>4, <1>5 DEF frames

LEMMA TwoAggregated ==
    ASSUME NEW x, NEW a \in Bytes, ReplyBody(x) = a, ReplyCode(x) = 0, Len(a) >= 12,
           NEW y, NEW b \in Bytes, ReplyBody(y) = b, Len(b) = 12
    PROVE  LET got == Aggregated(<<x, y>>) IN
           /\ Len(a) = 12 => got = Ok(a)
           /\ Len(a) > 12 /\ ReplyCode(y) # 0 => got.tag = "err"
           /\ Len(a) > 12 /\ ReplyCode(y) = 0 => got = Ok(a \o b)
<1> DEFINE frames == <<x, y>>
<1>1. /\ Len(frames) = 2 /\ frames[1] = x /\ frames[2] = y
      /\ 1 \in 1..Len(frames) /\ 2 \in 1..Len(frames)
      /\ \A f \in 1..Len(frames) : f = 1 \/ f = 2
  OBVIOUS
<1> HIDE DEF frames
<1>2. Len(a) \in Nat /\ 1 # MaxReplies
  BY SMT DEF Bytes, MaxReplies
<1>3. SubSeq(Bodies(frames), 1, 1) = <<a>> /\ SubSeq(Bodies(frames), 1, 2) = <<a, b>>
  <2> DEFINE bodies == Bodies(frames)
  <2>1. bodies = [f \in 1..2 |-> ReplyBody(frames[f])]
    BY <1>1 DEF Bodies
  <2>2. bodies[1] = a /\ bodies[2] = b
    BY <1>1, <2>1
  <2>3. bodies \in [1..2 -> Bytes]
    BY <1>1, <2>1, <2>2
  <2> HIDE DEF bodies
  <2>4. SubSeq(bodies, 1, 1) = <<bodies[1]>> /\ SubSeq(bodies, 1, 2) = <<bodies[1], bodies[2]>>
    BY <2>3, FirstTwo
  <2> QED
    BY <2>2, <2>4 DEF bodies
<1>4. ASSUME Len(a) = 12 PROVE Aggregated(frames) = Ok(a)
  <2>0. 12 <= 12
    OBVIOUS
  <2>a. Len(ReplyBody(frames[1])) <= 12
    BY <1>1, <1>4, <2>0, Zenon
  <2>1. Stop(frames, 1)
    BY <2>a, Zenon DEF Stop
  <2>2. Aggregated(frames) = Ok(FlattenSeq(SubSeq(Bodies(frames), 1, 1)))
    BY <1>1, <2>1, FirstStop
  <2> QED
    BY <1>3, <2>2, FlattenOne
<1>5. ASSUME Len(a) > 12
      PROVE  /\ ReplyCode(y) # 0 => Aggregated(frames).tag = "err"
             /\ ReplyCode(y) = 0 => Aggregated(frames) = Ok(a \o b)
  <2>1. ~ (Len(a) <= 12)
    BY <1>2, <1>5
  <2>2. ~ Stop(frames, 1)
    BY <1>1, <1>2, <2>1, Zenon DEF Stop
  <2>0. 12 <= 12
    OBVIOUS
  <2>a. Len(ReplyBody(frames[2])) <= 12
    BY <1>1, <2>0, Zenon
  <2>3. Stop(frames, 2)
    BY <2>a, Zenon DEF Stop
  <2>4. \A f \in 1..Len(frames) : f < 2 => ~ Stop(frames, f)
    BY <1>1, <2>2
  <2>b. /\ ReplyCode(frames[2]) # 0 => Aggregated(frames).tag = "err"
        /\ ReplyCode(frames[2]) = 0 =>
             Aggregated(frames) = Ok(FlattenSeq(SubSeq(Bodies(frames), 1, 2)))
    <3>1. 2 \in 1..Len(frames) /\ Len(frames) \in Nat
      BY <1>1
    <3> QED
      BY <2>3, <2>4, <3>1, FirstStop
  <2>5. /\ ReplyCode(y) # 0 => Aggregated(frames).tag = "err"
        /\ ReplyCode(y) = 0 => Aggregated(frames) = Ok(FlattenSeq(SubSeq(Bodies(frames), 1, 2)))
    BY <1>1, <2>b
  <2> QED
    BY <1>3, <2>5, FlattenTwo
<1> QED
  BY <1>4, <1>5 DEF frames

LEMMA TwoCollected ==
    ASSUME NEW x, ReplyBody(x) \in Bytes, ReplyCode(x) = 0, Len(ReplyBody(x)) >= 12,
           NEW y, ReplyBody(y) \in Bytes, Len(ReplyBody(y)) = 12
    PROVE  /\ Len(ReplyBody(x)) = 12 => Aggregated(<<x, y>>) = Ok(ReplyBody(x))
           /\ Len(ReplyBody(x)) > 12 /\ ReplyCode(y) # 0 => Aggregated(<<x, y>>).tag = "err"
           /\ Len(ReplyBody(x)) > 12 /\ ReplyCode(y) = 0 =>
                Aggregated(<<x, y>>) = Ok(ReplyBody(x) \o ReplyBody(y))
<1> DEFINE a == ReplyBody(x)
           b == ReplyBody(y)
<1>1. /\ a \in Bytes /\ ReplyBody(x) = a /\ ReplyCode(x) = 0 /\ Len(a) >= 12
      /\ b \in Bytes /\ ReplyBody(y) = b /\ Len(b) = 12
  OBVIOUS
<1> HIDE DEF a, b
<1> QED
  BY <1>1, TwoAggregated

\* The frames of a log in one fragment, for each ending.
LEMMA LogFrames ==
    ASSUME NEW heard, NEW log, NEW n, NEW newest, IsLog(log, n, newest), NEW end
    PROVE  LET events == Reply(heard, "plain", LogRecs(log))
               frames == Fragments(heard, log, <<n>>, end)
           IN  /\ end = "closed" => frames = <<events, Closing(heard)>>
               /\ end = "open" => frames = <<events>>
               /\ end = "refused" => frames = <<Refusal(heard)>>
               /\ end = "aborted" => frames = <<events, Refusal(heard)>>
<1> DEFINE split == <<n>>
           from(f) == IF f = 1 THEN 0 ELSE split[f - 1]
           part(f) == Reply(heard, "plain",
                            [k \in 1..(split[f] - from(f)) |-> EntryBytes(log[from(f) + k])])
           parts == Parts(heard, log, split)
           events == Reply(heard, "plain", LogRecs(log))
<1>1. n \in Nat /\ Len(log) = n
  BY LogRead
<1>2. Len(split) = 1 /\ split[1] = n
  OBVIOUS
<1> HIDE DEF split
<1>3. parts = [f \in 1..Len(split) |-> part(f)]
  BY DEF Parts
<1>4. part(1) = events
  <2>1. part(1) = Reply(heard, "plain", [k \in 1..(n - 0) |-> EntryBytes(log[0 + k])])
    BY <1>2
  <2>2. [k \in 1..(n - 0) |-> EntryBytes(log[0 + k])] = [k \in 1..n |-> EntryBytes(log[k])]
    BY <1>1
  <2> QED
    BY <1>1, <2>1, <2>2 DEF LogRecs
<1> HIDE DEF part, events
<1>5. parts = <<events>>
  BY <1>2, <1>3, <1>4
<1>6. ASSUME NEW x, NEW y PROVE <<x>> \o <<y>> = <<x, y>>
  BY SingleOf, Zenon
<1> HIDE DEF parts
<1>7. CASE end = "closed"
  <2>1. Fragments(heard, log, split, end) = parts \o <<Closing(heard)>>
    BY <1>7 DEF Fragments, parts
  <2> QED
    BY <1>5, <1>6, <1>7, <2>1 DEF events, split
<1>8. CASE end = "open"
  <2>1. Fragments(heard, log, split, end) = parts
    BY <1>8 DEF Fragments, parts
  <2> QED
    BY <1>5, <1>8, <2>1 DEF events, split
<1>9. CASE end = "refused"
  <2>1. Fragments(heard, log, split, end) = <<Refusal(heard)>>
    BY <1>9 DEF Fragments
  <2> QED
    BY <1>9, <2>1 DEF split
<1>10. CASE end = "aborted"
  <2>1. Fragments(heard, log, split, end) = parts \o <<Refusal(heard)>>
    BY <1>10 DEF Fragments, parts
  <2> QED
    BY <1>5, <1>6, <1>10, <2>1 DEF events, split
<1> QED
  BY <1>7, <1>8, <1>9, <1>10

Ends == {"closed", "open", "refused", "aborted"}

\* Either the poll fails, or the events it collects are those of the log, and
\* then the device has closed the log or the log is empty.
Fetched(got, log, end) ==
    \/ got.tag = "err" /\ end # "closed"
    \/ /\ got.tag = "ok" /\ parse_event_log_records(got.val) = log
       /\ end = "closed" \/ log = <<>>

LEMMA LogReceived ==
    ASSUME NEW heard, HeardLog(request, heard), NEW log, NEW n, NEW newest,
           IsLog(log, n, newest), NEW end \in Ends
    PROVE  Fetched(Aggregated(Fragments(heard, log, <<n>>, end)), log, end)
<1> DEFINE frames == Fragments(heard, log, <<n>>, end)
           recs == LogRecs(log)
           none == <<>>
           x == Reply(heard, "plain", recs)
           y == Closing(heard)
           z == Refusal(heard)
           a == ReplyBytes(heard, recs)
           b == ReplyBytes(heard, none)
           m == 24
           l == Len(FlattenSeq(recs))
<1>1. /\ end = "closed" => frames = <<x, y>>
      /\ end = "open" => frames = <<x>>
      /\ end = "refused" => frames = <<z>>
      /\ end = "aborted" => frames = <<x, z>>
  BY LogFrames
<1>2. n \in Nat /\ n <= 60 /\ recs \in Seq(Of(m)) /\ Len(recs) = n
  BY LogRead
<1>3. m \in Nat
  OBVIOUS
<1>y. y = Reply(heard, "plain", none) /\ z = Coded(heard, 1, "plain", none)
  BY DEF Closing, Refusal
<1> HIDE DEF frames, recs, m, y, z
<1>4. FlattenSeq(recs) \in Bytes /\ l = m * n
  BY <1>2, <1>3, FlattenRows DEF Rows
<1>5. l \in Nat /\ l <= 1440 /\ (l = 0 <=> n = 0)
  BY <1>2, <1>4, SMT DEF m
<1>6. Answerable(heard, recs)
  <2>1. 2 * l + 104 <= U16_MAX
    BY <1>5, U16Max, SMT
  <2> QED
    BY <1>4, <2>1 DEF Answerable, HeardLog
<1>7. FlattenSeq(none) = none /\ none \in Bytes /\ Len(none) = 0
  BY FlattenEmpty DEF Bytes
<1> HIDE DEF none
<1>8. Answerable(heard, none)
  <2>1. 2 * Len(FlattenSeq(none)) + 104 <= U16_MAX
    BY <1>7, U16Max, SMT
  <2> QED
    BY <1>7, <2>1 DEF Answerable, HeardLog
<1>9. "plain" \in Shapes /\ heard.pkt_id = request.pkt_id
  BY DEF Shapes, HeardLog
<1>10. /\ ReplyBody(x) = a /\ ReplyCode(x) = 0 /\ a \in Bytes /\ Len(a) = 12 + l
       /\ Len(a) >= 12 /\ Drop(a, 12) = FlattenSeq(recs)
  BY <1>6, <1>9, ReplyRead
<1>11. /\ ReplyBody(y) = b /\ ReplyCode(y) = 0 /\ b \in Bytes
       /\ Len(b) = 12 + Len(FlattenSeq(none))
  BY <1>8, <1>9, <1>y, ReplyRead
<1>12. ReplyBody(z) = b /\ ReplyCode(z) = 1
  <2>1. 1 \in U16s
    BY InU16
  <2> QED
    BY <1>8, <1>9, <1>y, <2>1, CodedRead
<1> HIDE DEF a, b, l, x
<1>13. Len(b) = 12 /\ ReplyCode(z) # 0 /\ (Len(a) = 12 <=> n = 0) /\ (Len(a) > 12 <=> n # 0)
  BY <1>5, <1>7, <1>10, <1>11, <1>12
<1>14. parse_event_log_records(a) = log
  <2>1. FlattenSeq(recs) \o none = FlattenSeq(recs)
    BY <1>4 DEF none, Bytes
  <2>2. Len(none) < 24 /\ Drop(a, 12) = FlattenSeq(LogRecs(log)) \o none
    BY <1>7, <1>10, <2>1 DEF recs
  <2> QED
    BY <1>7, <1>10, <2>2, LogParsed
<1>15. parse_event_log_records(a \o b) = log
  <2> DEFINE e == a \o b
             k == 12
  <2>1. k \in Nat /\ k <= Len(a)
    BY <1>10
  <2>2. Len(e) = Len(a) + Len(b)
    BY <1>10, <1>11, CatElements
  <2>3. Len(e) >= 12
    BY <1>5, <1>10, <1>13, <2>2
  <2> HIDE DEF k
  <2>4. Drop(e, k) = Drop(a, k) \o b
    BY <1>10, <1>11, <2>1, DropCat
  <2>5. Drop(e, 12) = FlattenSeq(LogRecs(log)) \o b
    BY <1>10, <2>4 DEF k, recs
  <2> HIDE DEF e
  <2>6. Len(b) < 24
    BY <1>13
  <2>7. parse_event_log_records(e) = log
    BY <1>11, <2>3, <2>5, <2>6, LogParsed
  <2> QED
    BY <2>7 DEF e
<1>16. n = 0 => log = <<>>
  <2>1. log = [k \in 1..n |-> log[k]]
    BY LogRead
  <2> QED
    BY <2>1
<1>17. \A v : Ok(v).tag = "ok" /\ Ok(v).val = v
  BY DEF Ok
<1>18. CASE end = "closed"
  <2>0. /\ Len(a) = 12 => Aggregated(<<x, y>>) = Ok(a)
        /\ Len(a) > 12 => Aggregated(<<x, y>>) = Ok(a \o b)
    <3>1. LET got == Aggregated(<<x, y>>) IN
          /\ Len(a) = 12 => got = Ok(a)
          /\ Len(a) > 12 /\ ReplyCode(y) # 0 => got.tag = "err"
          /\ Len(a) > 12 /\ ReplyCode(y) = 0 => got = Ok(a \o b)
      <4>1. /\ a \in Bytes /\ ReplyBody(x) = a /\ ReplyCode(x) = 0 /\ Len(a) >= 12
            /\ b \in Bytes /\ ReplyBody(y) = b /\ Len(b) = 12
        BY <1>10, <1>11, <1>13, Zenon
      <4> QED
        BY <4>1, TwoCollected
    <3> QED
      BY <1>11, <3>1, Zenon
  <2>1. Aggregated(frames) = Ok(a) \/ Aggregated(frames) = Ok(a \o b)
    BY <1>1, <1>13, <1>18, <2>0, Zenon
  <2> QED
    BY <1>14, <1>15, <1>17, <1>18, <2>1 DEF Fetched, frames
<1>19. CASE end = "open"
  <2>1. CASE n = 0
    <3>1. Aggregated(frames) = Ok(a)
      BY <1>1, <1>10, <1>13, <1>19, <2>1, OneAggregated
    <3> QED
      BY <1>14, <1>16, <1>17, <2>1, <3>1 DEF Fetched, frames
  <2>2. CASE n # 0
    <3>1. Aggregated(frames).tag = "err"
      BY <1>1, <1>10, <1>13, <1>19, <2>2, OneAggregated
    <3> QED
      BY <1>19, <3>1 DEF Fetched, frames
  <2> QED
    BY <2>1, <2>2
<1>20. CASE end = "refused"
  <2>1. Aggregated(frames).tag = "err"
    BY <1>1, <1>11, <1>12, <1>13, <1>20, OneAggregated
  <2> QED
    BY <1>20, <2>1 DEF Fetched, frames
<1>21. CASE end = "aborted"
  <2>0. Len(a) = 12 => Aggregated(<<x, z>>) = Ok(a)
    <3>1. LET got == Aggregated(<<x, z>>) IN
          /\ Len(a) = 12 => got = Ok(a)
          /\ Len(a) > 12 /\ ReplyCode(z) # 0 => got.tag = "err"
          /\ Len(a) > 12 /\ ReplyCode(z) = 0 => got = Ok(a \o b)
      <4>1. /\ a \in Bytes /\ ReplyBody(x) = a /\ ReplyCode(x) = 0 /\ Len(a) >= 12
            /\ b \in Bytes /\ ReplyBody(z) = b /\ Len(b) = 12
        BY <1>10, <1>11, <1>12, <1>13, Zenon
      <4> QED
        BY <4>1, TwoCollected
    <3> QED
      BY <3>1, Zenon
  <2>1. CASE n = 0
    <3>1. Aggregated(frames) = Ok(a)
      BY <1>1, <1>13, <1>21, <2>0, <2>1, Zenon
    <3> QED
      BY <1>14, <1>16, <1>17, <2>1, <3>1 DEF Fetched, frames
  <2>2. CASE n # 0
    <3>1. Aggregated(frames).tag = "err"
      BY <1>1, <1>10, <1>11, <1>12, <1>13, <1>21, <2>2, TwoAggregated
    <3> QED
      BY <1>21, <3>1 DEF Fetched, frames
  <2> QED
    BY <2>1, <2>2
<1> QED
  BY <1>18, <1>19, <1>20, <1>21 DEF Ends

\* The newest event is the one whose time is the greatest.
LEMMA LatestEvent ==
    ASSUME NEW log, NEW n, NEW newest, IsLog(log, n, newest), n # 0
    PROVE  /\ Latest(log) \in DOMAIN log
           /\ \A j \in DOMAIN log :
                Seconds(log[j].timestamp) <= Seconds(log[Latest(log)].timestamp)
<1> DEFINE best == IF newest THEN 1 ELSE n
           rest == 256 * \h13 + 65536 * \h11 + 16777216 * \h12
           T == {k \in DOMAIN log : \A j \in DOMAIN log :
                    Seconds(log[j].timestamp) <= Seconds(log[k].timestamp)}
<1>1. n \in Nat /\ n <= 60 /\ DOMAIN log = 1..n /\ newest \in BOOLEAN
  BY LogRead DEF IsLog
<1>2. ASSUME NEW k \in 1..n
      PROVE  Seconds(log[k].timestamp) = EventTime(newest, k) + rest
  <2> DEFINE ts == EventTime(newest, k)
             e == LogEntry(k, ts)
  <2>1. log[k] = e
    BY <1>1 DEF IsLog
  <2>2. e.timestamp = <<ts, \h13, \h11, \h12>>
    BY DEF LogEntry
  <2>3. ts \in Nat
    BY <1>1, SMT DEF EventTime
  <2> HIDE DEF e, ts
  <2>4. Seconds(<<ts, \h13, \h11, \h12>>) = ts + rest
    BY <2>3, SMT DEF Seconds
  <2> QED
    BY <2>1, <2>2, <2>4, SMT DEF ts
<1>3. rest \in Nat
  BY SMT
<1> HIDE DEF rest
<1>4. \A k \in 1..n : EventTime(newest, k) \in Nat
  BY <1>1, SMT DEF EventTime
<1>5. best \in 1..n
  BY <1>1
<1>6. \A k \in 1..n : k # best => EventTime(newest, k) < EventTime(newest, best)
  BY <1>1, SMT DEF EventTime
<1> HIDE DEF best
<1>7. T = {best}
  <2>1. best \in T
    BY <1>1, <1>2, <1>3, <1>4, <1>5, <1>6
  <2>2. ASSUME NEW k \in T PROVE k = best
    <3>1. k \in 1..n /\ Seconds(log[best].timestamp) <= Seconds(log[k].timestamp)
      BY <1>1, <1>5
    <3>2. EventTime(newest, best) + rest <= EventTime(newest, k) + rest
      BY <1>2, <1>5, <3>1
    <3> QED
      BY <1>3, <1>4, <1>5, <1>6, <3>1, <3>2
  <2> HIDE DEF T
  <2> QED
    BY <2>1, <2>2
<1>8. Latest(log) = Max(T)
  BY DEF Latest
<1>9. best \in Nat
  BY <1>1, <1>5
<1> HIDE DEF T
<1>10. Latest(log) = best /\ best \in T
  BY <1>7, <1>8, <1>9, OnlyOne
<1> QED
  BY <1>10 DEF T

\* What is in flight after an event-log query is the device's log in one
\* fragment, ended in one of the four ways, and what was published is the log
\* if it was closed and nothing otherwise.
LogReplied ==
    \E heard, log, n, newest : \E end \in Ends :
        /\ HeardLog(request, heard) /\ IsLog(log, n, newest)
        /\ air = Fragments(heard, log, <<n>>, end) /\ held = [log |-> log, end |-> end]

ShownIfClosed(h, out) ==
    IF h.end = "closed" THEN LogShown(h.log, out) ELSE DOMAIN out = {}

LogInv ==
    /\ AskedInv
    /\ phase = "answered" /\ request.name = "event_log" => LogReplied
    /\ phase = "done" /\ request.name = "event_log" => ShownIfClosed(held, result)

LEMMA LogPublished ==
    ASSUME LogReplied
    PROVE  ShownIfClosed(held, LogResult(Aggregated(air)))
<1>1. PICK heard, log, n, newest : \E end \in Ends :
        /\ HeardLog(request, heard) /\ IsLog(log, n, newest)
        /\ air = Fragments(heard, log, <<n>>, end) /\ held = [log |-> log, end |-> end]
  BY DEF LogReplied
<1>2. PICK end \in Ends :
        /\ HeardLog(request, heard) /\ IsLog(log, n, newest)
        /\ air = Fragments(heard, log, <<n>>, end) /\ held = [log |-> log, end |-> end]
  BY <1>1
<1> DEFINE got == Aggregated(air)
<1>3. Fetched(got, log, end)
  BY <1>2, LogReceived
<1>4. held.log = log /\ held.end = end
  BY <1>2
<1>5. Len(log) = n /\ n \in Nat
  BY <1>2, LogRead
<1> HIDE DEF got
<1>6. CASE got.tag = "err" /\ end # "closed"
  <2>1. LogResult(got) = <<>>
    BY <1>6 DEF LogResult
  <2>2. DOMAIN <<>> = {}
    OBVIOUS
  <2> QED
    BY <1>4, <1>6, <2>1, <2>2 DEF ShownIfClosed, got
<1>7. CASE got.tag = "ok" /\ parse_event_log_records(got.val) = log /\ log = <<>>
  <2>1. got.tag # "err"
    BY <1>7
  <2>2. LogResult(got) = <<>>
    BY <1>7, <2>1 DEF LogResult
  <2>3. DOMAIN <<>> = {}
    OBVIOUS
  <2> QED
    BY <1>4, <1>7, <2>2, <2>3 DEF ShownIfClosed, LogShown, got
<1>8. CASE /\ got.tag = "ok" /\ parse_event_log_records(got.val) = log /\ log # <<>>
           /\ end = "closed"
  <2>1. n # 0
    <3>1. log = [k \in 1..n |-> log[k]]
      BY <1>2, LogRead
    <3>2. n = 0 => log = <<>>
      BY <3>1
    <3> QED
      BY <1>8, <3>2
  <2>2. /\ Latest(log) \in DOMAIN log
        /\ \A j \in DOMAIN log :
             Seconds(log[j].timestamp) <= Seconds(log[Latest(log)].timestamp)
    BY <1>2, <2>1, LatestEvent
  <2>3. LogShown(log, LastEvent(log, Latest(log)))
    BY <1>8, <2>2 DEF LogShown, LastEvent
  <2>4. got.tag # "err"
    BY <1>8
  <2>5. LogResult(got) = LastEvent(log, Latest(log))
    BY <1>8, <2>4 DEF LogResult
  <2> QED
    BY <1>4, <1>8, <2>3, <2>5 DEF ShownIfClosed, got
<1> QED
  BY <1>3, <1>6, <1>7, <1>8 DEF Fetched

LEMMA NextLog ==
    ASSUME MaxFragments < 2
    PROVE  LogInv /\ [Next]_vars => LogInv'
<1> SUFFICES ASSUME LogInv, [Next]_vars PROVE LogInv'
  OBVIOUS
<1>0. AskedInv'
  BY NextAsked DEF LogInv
<1>1. CASE \E req \in Requests : Ask(req)
  BY <1>0, <1>1 DEF Ask, LogInv
<1>2. CASE AnswerQuery
  BY <1>0, <1>2 DEF AnswerQuery, LogInv
<1>3. CASE AnswerEventLog
  <2> DEFINE heard == Hears(air[1])
  <2>1. HeardLog(request, heard)
    BY <1>3, LogHeard DEF LogInv, AnswerEventLog
  <2>2. PICK log \in Logs, end \in Endings : \E split \in Splits(Len(log)) :
            held' = [log |-> log, end |-> end] /\ air' = Fragments(heard, log, split, end)
    BY <1>3 DEF AnswerEventLog
  <2>3. PICK n \in 0..60, newest \in BOOLEAN : IsLog(log, n, newest)
    BY LogShape
  <2>4. Len(log) = n
    BY <2>3, LogRead
  <2>5. Splits(Len(log)) = {<<n>>}
    BY <2>4 DEF Splits
  <2>6. held' = [log |-> log, end |-> end] /\ air' = Fragments(heard, log, <<n>>, end)
    BY <2>2, <2>5
  <2>7. request' = request /\ phase' = "answered" /\ end \in Ends
    BY <1>3, WirePathAssumption DEF AnswerEventLog, Ends
  <2> HIDE DEF heard
  <2>8. LogReplied'
    BY <2>1, <2>3, <2>6, <2>7, Zenon DEF LogReplied
  <2> QED
    BY <1>0, <2>7, <2>8 DEF LogInv
<1>4. CASE NoReadings
  BY <1>0, <1>4 DEF NoReadings, LogInv
<1>5. CASE ReceiveQuery
  BY <1>0, <1>5 DEF ReceiveQuery, LogInv
<1>6. CASE ReceiveEventLog
  <2> DEFINE out == LogResult(Aggregated(air))
  <2>1. LogReplied
    BY <1>6 DEF ReceiveEventLog, LogInv
  <2>2. ShownIfClosed(held, out)
    BY <2>1, LogPublished
  <2>3. result' = out /\ phase' = "done" /\ held' = held
    BY <1>6 DEF ReceiveEventLog
  <2> HIDE DEF out
  <2>4. ShownIfClosed(held', result')
    BY <2>2, <2>3
  <2> QED
    BY <1>0, <2>3, <2>4 DEF LogInv
<1>7. CASE NextExchange
  BY <1>0, <1>7 DEF NextExchange, LogInv
<1>8. CASE UNCHANGED vars
  BY <1>0, <1>8 DEF vars, LogInv, LogReplied
<1> QED
  BY <1>1, <1>2, <1>3, <1>4, <1>5, <1>6, <1>7, <1>8 DEF Next

\* For every log and either order of its events, when the device sends the
\* events in one frame: what is published is the newest event, its time and the
\* number of events if the device closes the log with a frame that has none,
\* and nothing if it does not, or answers with an error code before or after
\* the events.  With the events in two frames query_event_log_for_device reads
\* the second one wrong, as the violated run shows.
THEOREM OneFragmentPublished ==
    ASSUME MaxFragments < 2
    PROVE  Spec => []EventLogPublished
<1>1. Init => LogInv
  BY DEF Init, LogInv, AskedInv
<1>2. LogInv => EventLogPublished
  BY DEF LogInv, EventLogPublished, ShownIfClosed
<1>3. LogInv /\ [Next]_vars => LogInv'
  BY NextLog
<1> QED
  BY <1>1, <1>2, <1>3, PTL DEF Spec
=============================================================================
