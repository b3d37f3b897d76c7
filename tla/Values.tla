------------------------------- MODULE Values -------------------------------
(***************************************************************************)
(* The typed readings of a query reply (values.rs) and what the daemon     *)
(* publishes of them (publish_query_result and the one-shot queries of     *)
(* main.rs).                                                               *)
(*                                                                         *)
(* A reading is the bytes of the raw value and the power of ten it is      *)
(* divided by before it is formatted; None is the empty sequence.  An LRI  *)
(* is the number code & 0x00FFFF00.  The decimal formatting, the table of  *)
(* status texts and the f32 rounding of raw values above 2^24 are left     *)
(* out.                                                                    *)
(***************************************************************************)
EXTENDS L2Packet

None == <<>>
Reading(raw, div) == [raw |-> raw, div |-> div]
Scaled(word, div) == IF word = None THEN None ELSE Reading(word, div)

I32_NAN == <<0, 0, 0, \h80>>
U32_NAN == <<\hFF, \hFF, \hFF, \hFF>>
U64_NAN == Zeros(4) \o I32_NAN
U64_MAX == U32_NAN \o U32_NAN
-----------------------------------------------------------------------------
(***************************************************************************)
(* Records                                                                 *)
(***************************************************************************)
records_region(body) == IF Len(body) >= 12 THEN Drop(body, 12) ELSE <<>>

\* The LRI and the class byte of a record's code word.
record_lri(rec) == 256 * rec[2] + 65536 * rec[3]
record_cls(rec) == rec[1]

Word(rec, off) == Slice(rec, off, off + 4)

Chunks(region, stride) ==
    [k \in 1..(Len(region) \div stride) |->
        Slice(region, stride * (k - 1), stride * k)]

BugFullRecordsOnly(body) == Chunks(records_region(body), 28)

\* Records of 28 bytes; a rest of 20..27 bytes is a last, truncated record.
for_each_28_record(body) ==
    LET region == records_region(body)
        full == Len(region) \div 28
    IN  Chunks(region, 28)
        \o (IF Len(region) % 28 >= 20
            THEN <<Slice(region, 28 * full, 28 * full + 20)>> ELSE <<>>)

for_each_16_record(body) == Chunks(records_region(body), 16)

i32_value_28(rec) == IF Word(rec, 16) = I32_NAN THEN None ELSE Word(rec, 16)

u32_value_28(rec) ==
    IF Word(rec, 16) \in {U32_NAN, I32_NAN} THEN None ELSE Word(rec, 16)

u64_value_16(rec) ==
    LET v == Slice(rec, 8, 16) IN IF v \in {U64_NAN, U64_MAX} THEN None ELSE v

\* The value of the last record with this LRI (and class): every record of it
\* assigns the field, one without a reading assigns None.
LastRecord(recs, Is(_), Value(_)) ==
    LET hits == {k \in DOMAIN recs : Is(recs[k])}
    IN  IF hits = {} THEN None ELSE Value(recs[Max(hits)])

\* The first, or the last, record with this LRI that has a value at all.
FirstValue(recs, Is(_), Value(_)) ==
    LET hits == {k \in DOMAIN recs : Is(recs[k]) /\ Value(recs[k]) # None}
    IN  IF hits = {} THEN None ELSE Value(recs[Min(hits)])

LastValue(recs, Is(_), Value(_)) ==
    LET hits == {k \in DOMAIN recs : Is(recs[k]) /\ Value(recs[k]) # None}
    IN  IF hits = {} THEN None ELSE Value(recs[Max(hits)])

Spot(body, lri, div) ==
    Scaled(LastRecord(for_each_28_record(body),
                      LAMBDA r : record_lri(r) = lri, i32_value_28), div)

Counter(body, lri, div) ==
    Scaled(LastRecord(for_each_16_record(body),
                      LAMBDA r : record_lri(r) = lri, u64_value_16), div)
-----------------------------------------------------------------------------
(***************************************************************************)
(* The parsers.  Those of several fields return a function of the keys the *)
(* fields are published under.                                             *)
(***************************************************************************)
parse_spot_ac_total_power(body) == [ac_power |-> Spot(body, \h263F00, 1)]

parse_energy_production(body) ==
    [energy_today    |-> Counter(body, \h262200, 1000),
     energy_lifetime |-> Counter(body, \h260100, 1000)]

parse_inverter_temperature(body) == [temperature |-> Spot(body, \h237700, 100)]

parse_grid_frequency(body) ==
    [grid_frequency |->
        Scaled(LastRecord(for_each_28_record(body),
                          LAMBDA r : record_lri(r) = \h465700, u32_value_28), 100)]

\* i32::unsigned_abs on the bytes of the value.
Magnitude(word) ==
    IF word = None \/ word[4] < 128 THEN word
    ELSE [i \in 1..4 |->      \* the one that is added carries over zeros
            (255 - word[i] + (IF \A j \in 1..(i - 1) : word[j] = 0 THEN 1 ELSE 0)) % 256]

parse_cosphi(body) ==
    [cos_phi |->
        Scaled(Magnitude(FirstValue(for_each_28_record(body),
                   LAMBDA r : record_lri(r) \in {\h237400, \h474800},
                   i32_value_28)), 1000)]

\* The first slot, in this order, that is neither zero nor a NaN.
FirstWatts(rec) ==
    FirstValue([k \in 1..5 |-> <<16, 8, 12, 20, 24>>[k]],
               LAMBDA off : off + 4 <= Len(rec),
               LAMBDA off : IF Word(rec, off) \in {Zeros(4), I32_NAN, U32_NAN}
                            THEN None ELSE Word(rec, off))

parse_single_watts_record(body, lri_first, lri_last) ==
    Scaled(FirstValue(for_each_28_record(body),
                      LAMBDA r : record_lri(r) \in lri_first..lri_last, FirstWatts), 1)

parse_spot_ac_power(body) ==
    [ac_power_l1 |-> Spot(body, \h464000, 1),
     ac_power_l2 |-> Spot(body, \h464100, 1),
     ac_power_l3 |-> Spot(body, \h464200, 1)]

parse_spot_ac_voltage(body) ==
    [ac_voltage_l1 |-> Spot(body, \h464800, 100),
     ac_voltage_l2 |-> Spot(body, \h464900, 100),
     ac_voltage_l3 |-> Spot(body, \h464A00, 100),
     ac_current_l1 |-> Spot(body, \h465000, 1000),
     ac_current_l2 |-> Spot(body, \h465100, 1000),
     ac_current_l3 |-> Spot(body, \h465200, 1000)]

DcSpot(body, lri, cls, div) ==
    Scaled(LastRecord(for_each_28_record(body),
                      LAMBDA r : record_lri(r) = lri /\ record_cls(r) = cls,
                      i32_value_28), div)

parse_dc_block(body) ==
    [dc_power_s1   |-> DcSpot(body, \h251E00, 1, 1),
     dc_power_s2   |-> DcSpot(body, \h251E00, 2, 1),
     dc_voltage_s1 |-> DcSpot(body, \h451F00, 1, 100),
     dc_voltage_s2 |-> DcSpot(body, \h451F00, 2, 100),
     dc_current_s1 |-> DcSpot(body, \h452100, 1, 1000),
     dc_current_s2 |-> DcSpot(body, \h452100, 2, 1000)]

\* SpotDcPower publishes the two powers, SpotDcVoltage the other four.
parse_spot_dc_power(body) ==
    Restrict(parse_dc_block(body), {"dc_power_s1", "dc_power_s2"})

parse_spot_dc_voltage(body) ==
    Restrict(parse_dc_block(body), {"dc_voltage_s1", "dc_voltage_s2",
                                    "dc_current_s1", "dc_current_s2"})

parse_operation_time(body) ==
    [operation_time |-> Counter(body, \h462E00, 3600),
     feed_in_time   |-> Counter(body, \h462F00, 3600)]
-----------------------------------------------------------------------------
(***************************************************************************)
(* Tags: the low three bytes of a slot name a state, its high byte tells   *)
(* whether the state is the current one.                                   *)
(***************************************************************************)
Tag(word) == Slice(word, 0, 3)
TagNumber(tag) == tag[1] + 256 * tag[2] + 65536 * tag[3]

\* The slot whose selected bit is set, or else the first that is not empty.
SelectedTag(rec) ==
    LET slots == [k \in 1..4 |-> Word(rec, 4 + 4 * k)]
        used == {k \in 1..4 : slots[k] \notin {Zeros(4), U32_NAN}}
        selected == {k \in used : slots[k][4] % 2 = 1}
    IN  IF selected # {} THEN Tag(slots[Min(selected)])
        ELSE IF used # {} THEN Tag(slots[Min(used)]) ELSE None

parse_device_status(body) ==
    [inverter_state |->
        Scaled(LastValue(for_each_28_record(body),
                         LAMBDA r : record_lri(r) = \h214800 /\ Len(r) >= 24,
                         SelectedTag), 1)]

Relay(rec) ==
    LET code == TagNumber(Tag(Word(rec, 8)))
    IN  IF code = 51 THEN <<1>> ELSE IF code = 311 THEN <<0>> ELSE None

parse_grid_relay(body) ==
    [grid_relay |->
        Scaled(LastRecord(for_each_28_record(body),
                          LAMBDA r : record_lri(r) = \h416400, Relay), 1)]

\* Records of 40 bytes with eight slots; the list ends at tag 0xFFFFFE.
LabelTag(rec) ==
    LET slots == [k \in 1..8 |-> Word(rec, 4 + 4 * k)]
        ends == {k \in 1..8 : Tag(slots[k]) = <<\hFE, \hFF, \hFF>>}
        chosen == {k \in 1..8 : slots[k][4] = 1 /\ \A e \in ends : k < e}
    IN  IF chosen = {} THEN None ELSE Tag(slots[Min(chosen)])

parse_type_label_raw(body) ==
    FirstValue(Chunks(records_region(body), 40),
               LAMBDA r : record_lri(r) \in {\h821E00, \h821F00, \h822000}, LabelTag)

\* The tags type_label_text knows a model name for.
KnownLabel(tag) == TagNumber(tag) \in (9070..9086) \ {9083}

\* major and minor as two BCD digits each, the build, the letter's index (6
\* is the question mark).
Version(rec) ==
    LET v == Word(rec, 24)
    IN  IF v \in {U32_NAN, Zeros(4)} THEN None
        ELSE <<v[4] \div 16, v[4] % 16, v[3] \div 16, v[3] % 16, v[2],
               Min({v[1], 6})>>

parse_software_version(body) ==
    [firmware_version |->
        Scaled(LastValue(for_each_28_record(body),
                         LAMBDA r : record_lri(r) = \h823400 /\ Len(r) >= 28,
                         Version), 1)]

EventRecord(rec) ==
    [entry_id |-> Word(rec, 0), timestamp |-> Word(rec, 4),
     event_code |-> Word(rec, 8), device_id |-> Word(rec, 12),
     param1 |-> Word(rec, 16), param2 |-> Word(rec, 20)]

\* Records of 24 bytes up to the first that is all zero in the first three
\* fields.
parse_event_log_records(body) ==
    LET recs == Chunks(records_region(body), 24)
        padding == {k \in DOMAIN recs : Slice(recs[k], 0, 12) = Zeros(12)}
        n == IF padding = {} THEN Len(recs) ELSE Min(padding) - 1
    IN  [k \in 1..n |-> EventRecord(recs[k])]
-----------------------------------------------------------------------------
(***************************************************************************)
(* What is published of a reply: the fields that have a reading.           *)
(***************************************************************************)
Some(fields) == Restrict(fields, {k \in DOMAIN fields : fields[k] # None})

publish_query_result(kind, body) ==
    Some(CASE kind = "SpotAcTotalPower"    -> parse_spot_ac_total_power(body)
           [] kind = "SpotAcPower"         -> parse_spot_ac_power(body)
           [] kind = "SpotAcVoltage"       -> parse_spot_ac_voltage(body)
           [] kind = "SpotDcPower"         -> parse_spot_dc_power(body)
           [] kind = "SpotDcVoltage"       -> parse_spot_dc_voltage(body)
           [] kind = "EnergyProduction"    -> parse_energy_production(body)
           [] kind = "OperationTime"       -> parse_operation_time(body)
           [] kind = "InverterTemperature" -> parse_inverter_temperature(body)
           [] kind = "SpotGridFrequency"   -> parse_grid_frequency(body)
           [] kind = "DeviceStatus"        -> parse_device_status(body)
           [] kind = "GridRelayStatus"     -> parse_grid_relay(body)
           [] kind = "SpotCosPhi"          -> parse_cosphi(body)
           [] OTHER                        -> <<>>)

OneShotKinds == {"SoftwareVersion", "TypeLabel", "NominalAcPower", "MaxFeedInPower"}

\* The four one-shot queries after logon.  (The configured model, published
\* before the type label is asked for, is not a reading.)
publish_one_shot(kind, body) ==
    Some(CASE kind = "SoftwareVersion" -> parse_software_version(body)
           [] kind = "TypeLabel" ->
                LET tag == parse_type_label_raw(body)
                IN  [inverter_model |->
                        IF tag # None /\ KnownLabel(tag) THEN Reading(tag, 1) ELSE None]
           [] kind = "NominalAcPower" ->
                [nominal_ac_power_w |-> parse_single_watts_record(body, \h411E00, \h411E19)]
           [] kind = "MaxFeedInPower" ->
                [max_feedin_w |-> parse_single_watts_record(body, \h411F00, \h411F19)])
=============================================================================
