------------------------------ MODULE WirePath ------------------------------
(***************************************************************************)
(* One exchange from end to end: the daemon builds a request, the device   *)
(* hears it and answers from its registers or its event log, and the       *)
(* daemon parses the frames and publishes what they say.                   *)
(*                                                                         *)
(* The daemon's half is FrameCodec, L2Packet and Values.  The device is    *)
(* external: it is a PPP receiver, which drops control characters that     *)
(* are not escaped and checks the FCS by its residue, and it holds the     *)
(* registers the LRI table of values.rs lists.  What a reading means is    *)
(* stated by that register table alone, so the opcodes, the offsets, the   *)
(* NaN rules and the divisors of the code are compared with it.            *)
(***************************************************************************)
EXTENDS Values, Catalog

CONSTANTS
    PktIds,         \* packet ids of the requests, below 2^15
    AppSerial,      \* the daemon's serial and the device's, as four bytes
    DevSerial,
    Passwords,      \* configured passwords, as sequences of bytes
    Words,          \* the 32-bit values a spot register may hold
    Counters,       \* the 64-bit values a counter may hold
    MaxRecords,     \* records in one reply
    LogSizes,       \* events in the device's log
    MaxFragments,   \* frames the event log is split into, 1 or 2
    Endings         \* how the device's answer to an event-log query may end

\* Packet ids keep the application bit free, serials, readings and passwords
\* are bytes, FrameBuilder's smallest frame is one for the reader, and a reply
\* fits into the sixteen bits of its length (MAX_FRAME_LEN is far below).
ASSUME WirePathAssumption ==
    /\ MIN_FRAME_LEN <= 18
    /\ PktIds \subseteq 0..(APP_PACKET_BIT - 1)
    /\ AppSerial \in [1..4 -> 0..255] /\ DevSerial \in [1..4 -> 0..255]
    /\ Passwords \subseteq Seq(0..255)
    /\ Words \subseteq [1..4 -> 0..255] /\ Counters \subseteq [1..8 -> 0..255]
    /\ MaxRecords \in Nat /\ 80 * MaxRecords + 200 <= U16_MAX
    /\ LogSizes \subseteq 0..60     \* the bytes of LogEntry
    /\ Endings \subseteq {"closed", "open", "refused", "aborted"}

VARIABLES
    phase,      \* "idle", "asked", "answered", "done"
    request,    \* what the daemon means to ask
    air,        \* the frames in flight
    held,       \* what the device answered from: registers, or its log
    result      \* what the daemon published, per key

vars == <<phase, request, air, held, result>>

LocalBt == <<1, 2, 3, 4, 5, 6>>
DevBt == <<\h7E, \h13, \h25, \h80, 0, 1>>
DevSusy == \h7D
-----------------------------------------------------------------------------
(***************************************************************************)
(* The daemon's requests (session.rs)                                      *)
(***************************************************************************)
Requests ==
    {[name |-> "ver"]}
    \cup [name : {"echo"}, net_id : {1, \h7E}]
    \cup [name : {"init", "logoff"}, pkt_id : PktIds]
    \cup [name : {"logon"}, pkt_id : PktIds, pwd : Passwords,
          group : {"User", "Installer"}]
    \cup [name : {"query"}, pkt_id : PktIds, kind : QueryKind]
    \cup [name : {"event_log"}, pkt_id : PktIds]

Now == <<\h11, \h7D, \h25, \h66>>        \* current_epoch_u32()
DayAgo == <<\h91, \h2B, \h24, \h66>>

L2Body(req) ==
    CASE req.name = "init"   -> build_init_body(req.pkt_id, AppSerial)
      [] req.name = "logoff" -> build_logoff_body(req.pkt_id, AppSerial)
      [] req.name = "logon"  ->
            build_logon_body(req.pwd, req.group, req.pkt_id, AppSerial, Now)
      [] req.name = "query"  ->
            build_query_body(req.kind, req.pkt_id, AppSerial, DevSusy, DevSerial)
      [] req.name = "event_log" ->
            build_event_log_body(req.pkt_id, AppSerial, DevSusy, DevSerial, DayAgo, Now)

ver_frame == Frame("L1Only", Zeros(6), <<1, 0, 0, 0, 0, 0>>, \h201,
                   <<\h76, \h65, \h72, 13, 10>>)

echo_frame(net_id) ==
    Frame("L1Only", Zeros(6), DevBt, \h2,
          LE32(\h700400) \o <<net_id>> \o LE32(0) \o LE32(1))

l2_frame(body) == Frame("L2Wrapped", LocalBt, [i \in 1..6 |-> 255], \h1, body)

RequestFrame(req) ==
    CASE req.name = "ver"  -> ver_frame
      [] req.name = "echo" -> echo_frame(req.net_id)
      [] OTHER             -> l2_frame(L2Body(req))
-----------------------------------------------------------------------------
(***************************************************************************)
(* The device hears                                                        *)
(***************************************************************************)
GoodResidue == \hF0B8

\* What a PPP receiver takes out of an L2-wrapped frame, or <<>>.
PppReceive(raw) ==
    LET inner == Slice(raw, 19, Len(raw) - 1)
        wire == [i \in 1..Len(inner) |->
                    IF inner[i] \in {\h11, \h12, \h13} THEN <<>> ELSE <<inner[i]>>]
        data == unstuff(FlattenSeq(wire))
    IN  IF /\ Len(raw) > 22
           /\ DeclaredLen(raw[2], raw[3]) = Len(raw)
           /\ raw[19] = FRAME_DELIMITER /\ Last(raw) = FRAME_DELIMITER
           /\ \A i \in 1..Len(inner) : inner[i] # FRAME_DELIMITER
           /\ data.tag = "ok"
           /\ update_slice(data.val) = GoodResidue
        THEN Slice(data.val, 0, Len(data.val) - 2) ELSE <<>>

\* The packet in it: the device counts longwords and takes packets of
\* applications only.
Hears(raw) ==
    LET p == PppReceive(raw)
    IN  IF /\ Len(p) >= 32
           /\ Slice(p, 0, 4) = BT_L2_SIGNATURE
           /\ 4 + 4 * p[5] = Len(p)
           /\ U16(p, 26) >= APP_PACKET_BIT
        THEN [to |-> Slice(p, 6, 12), from |-> Slice(p, 16, 20),
              pkt_id |-> U16(p, 26) - APP_PACKET_BIT,
              cmd |-> Slice(p, 28, 32), args |-> Drop(p, 32)]
        ELSE <<>>

\* The code word's low three bytes as a number, the device's register address.
Address(word) == word[1] + 256 * word[2] + 65536 * word[3]
-----------------------------------------------------------------------------
(***************************************************************************)
(* The device's registers: query kind they are read by, command class,     *)
(* address (LRI and class byte), shape, published key and divisor.         *)
(***************************************************************************)
R(key, kind, class, lri, cls, form, div) ==
    [key |-> key, kind |-> kind, class |-> class, addr |-> lri + cls,
     form |-> form, div |-> div]

Registers == {
    R("ac_power", "SpotAcTotalPower", \h51, \h263F00, 1, "i32", 1),
    R("ac_power_l1", "SpotAcPower", \h51, \h464000, 1, "i32", 1),
    R("ac_power_l2", "SpotAcPower", \h51, \h464100, 1, "i32", 1),
    R("ac_power_l3", "SpotAcPower", \h51, \h464200, 1, "i32", 1),
    R("ac_voltage_l1", "SpotAcVoltage", \h51, \h464800, 1, "i32", 100),
    R("ac_voltage_l2", "SpotAcVoltage", \h51, \h464900, 1, "i32", 100),
    R("ac_voltage_l3", "SpotAcVoltage", \h51, \h464A00, 1, "i32", 100),
    R("line_voltage", "unread", \h51, \h464B00, 1, "i32", 100),
    R("ac_current_l1", "SpotAcVoltage", \h51, \h465000, 1, "i32", 1000),
    R("ac_current_l2", "SpotAcVoltage", \h51, \h465100, 1, "i32", 1000),
    R("ac_current_l3", "SpotAcVoltage", \h51, \h465200, 1, "i32", 1000),
    R("grid_frequency", "SpotGridFrequency", \h51, \h465700, 1, "u32", 100),
    R("cos_phi", "SpotCosPhi", \h51, \h237400, 1, "magnitude", 1000),
    R("cos_phi", "SpotCosPhi", \h51, \h474800, 1, "magnitude", 1000),
    R("nominal_ac_power_w", "NominalAcPower", \h51, \h411E00, 1, "watts", 1),
    R("max_feedin_w", "MaxFeedInPower", \h51, \h411F00, 1, "watts", 1),
    R("dc_power_s1", "SpotDcPower", \h53, \h251E00, 1, "i32", 1),
    R("dc_power_s2", "SpotDcPower", \h53, \h251E00, 2, "i32", 1),
    R("dc_voltage_s1", "SpotDcVoltage", \h53, \h451F00, 1, "i32", 100),
    R("dc_voltage_s2", "SpotDcVoltage", \h53, \h451F00, 2, "i32", 100),
    R("dc_current_s1", "SpotDcVoltage", \h53, \h452100, 1, "i32", 1000),
    R("dc_current_s2", "SpotDcVoltage", \h53, \h452100, 2, "i32", 1000),
    R("energy_lifetime", "EnergyProduction", \h54, \h260100, 1, "u64", 1000),
    R("energy_today", "EnergyProduction", \h54, \h262200, 1, "u64", 1000),
    R("operation_time", "OperationTime", \h54, \h462E00, 1, "u64", 3600),
    R("feed_in_time", "OperationTime", \h54, \h462F00, 1, "u64", 3600),
    R("temperature", "InverterTemperature", \h52, \h237700, 1, "i32", 100),
    R("inverter_state", "DeviceStatus", \h51, \h214800, 1, "status", 1),
    R("grid_relay", "GridRelayStatus", \h51, \h416400, 1, "relay", 1),
    R("inverter_model", "TypeLabel", \h58, \h821E00, 1, "label", 1),
    R("firmware_version", "SoftwareVersion", \h58, \h823400, 1, "version", 1)}

Noise == <<\h2A, \h7D, 0, 0>>       \* minimum, maximum and trailing words
State(tag, mark) == LE16(tag) \o <<0, mark>>    \* mark 1: the current state
EndOfList == <<\hFE, \hFF, \hFF, 0>>
Spots == {"i32", "u32", "magnitude"}

\* The absolute value of a 32-bit integer, on its halves.
Absolute(w) ==
    LET lo == U16(w, 0)
        hi == U16(w, 2)
    IN  IF w[4] < 128 THEN w
        ELSE LE16((65536 - lo) % 65536)
             \o LE16((IF lo = 0 THEN 65536 - hi ELSE 65535 - hi) % 65536)

\* What a spot register means by a word, <<>> for nothing.
SpotMeans(form, w) ==
    CASE w = I32_NAN                      -> <<>>
      [] w = U32_NAN /\ form = "u32"      -> <<>>
      [] w # I32_NAN /\ form = "magnitude" -> Absolute(w)
      [] OTHER                            -> w

\* What a register of each shape may hold: the words of its record and the
\* bytes of the reading they mean, <<>> for none.
Content(words, means) == [words |-> words, means |-> means]

SpotContents(form) ==
    {Content(<<Noise, Noise, w, Noise, Noise>>, SpotMeans(form, w)) : w \in Words}

CounterContents ==
    {Content(<<Slice(c, 0, 4), Slice(c, 4, 8)>>,
             IF c \in {U64_NAN, U64_MAX} THEN <<>> ELSE c) : c \in Counters}

WattsContents ==        \* the current slot may be empty, or all
    {Content(<<n, n, c, Zeros(4), Zeros(4)>>, n) :
        n \in {LE32(3000), LE32(\h7E11)}, c \in {Zeros(4), U32_NAN}}
    \cup {Content(<<U32_NAN, U32_NAN, U32_NAN, U32_NAN, U32_NAN>>, <<>>)}

StatusContents ==
    LET states(a, b, c, d) ==
          <<State(35, a), State(303, b), State(307, c), State(455, d), State(51, 0)>>
    IN  {Content(states(1, 0, 0, 0), <<35, 0, 0>>), Content(states(0, 1, 0, 0), <<47, 1, 0>>),
         Content(states(0, 0, 1, 0), <<51, 1, 0>>), Content(states(0, 0, 0, 1), <<199, 1, 0>>)}
        \cup {Content(<<z, z, z, z, z>>, <<>>) : z \in {Zeros(4), U32_NAN}}

RelayContents ==
    {Content(<<State(t, 1), Noise, Noise, Noise, Noise>>,
             IF t = 51 THEN <<1>> ELSE IF t = 311 THEN <<0>> ELSE <<>>) :
        t \in {51, 311, \hFFFD}}

LabelContents ==        \* 9073 is a model the daemon knows, 9000 is not
    LET z == Zeros(4)
    IN  {Content(<<State(9071, 0), State(t, 1), EndOfList, z, z, z, z, z>>,
                 IF t = 9073 THEN <<\h71, \h23, 0>> ELSE <<>>) : t \in {9073, 9000}}
        \cup {Content(<<EndOfList, z, z, z, z, z, z, z>>, <<>>)}

VersionContents ==      \* 2.30.6.R and 12.99.17.? in the code's layout
    {Content(<<Noise, Noise, Noise, Noise, v.word>>, v.means) :
        v \in {[word |-> <<4, 6, \h30, \h02>>, means |-> <<0, 2, 3, 0, 6, 4>>],
               [word |-> <<\h7E, \h11, \h99, \h12>>, means |-> <<1, 2, 9, 9, 17, 6>>],
               [word |-> U32_NAN, means |-> <<>>]}}

Contents(form) ==
    CASE form \in Spots     -> SpotContents(form)
      [] form = "u64"       -> CounterContents
      [] form = "watts"     -> WattsContents
      [] form = "status"    -> StatusContents
      [] form = "relay"     -> RelayContents
      [] form = "label"     -> LabelContents
      [] form = "version"   -> VersionContents

\* A record: code word, time, words.  The last record of a reply may lack its
\* two trailing words when it is a spot reading.
Record(reg, content, cut) ==
    Slice(LE32(reg.addr), 0, 3) \o <<\h40>> \o Now
    \o FlattenSeq(IF cut THEN SubSeq(content.words, 1, 3) ELSE content.words)
-----------------------------------------------------------------------------
(***************************************************************************)
(* The device answers                                                      *)
(***************************************************************************)
DevHeader(pkt_id, code) ==
    [longwords |-> 0, ctrl |-> \hD0, dst_susy_id |-> APP_SUSY_ID,
     dst_serial |-> AppSerial, ctrl2 |-> 0, app_susy_id |-> DevSusy,
     app_serial |-> DevSerial, error_code |-> code, pkt_id |-> pkt_id]

\* The three shapes Frame::parse accepts.
DevFrame(shape, payload) ==
    LET f == Frame("L2Wrapped", DevBt, LocalBt, IF shape = "push" THEN 8 ELSE 1, payload)
        body == stuff(payload \o LE16(compute(payload)))
    IN  CASE shape = "separator" -> Wrap(f, body)
          [] shape = "plain" -> Header(18 + Len(body) + 1, f) \o body \o <<FRAME_DELIMITER>>
          [] shape = "push" -> Header(18 + Len(stuff(payload)), f) \o stuff(payload)

Coded(heard, code, shape, records) ==
    DevFrame(shape, encode_l2(DevHeader(heard.pkt_id, code),
        heard.cmd \o Slice(heard.args, 0, 8) \o FlattenSeq(records)))

Reply(heard, shape, records) == Coded(heard, 0, shape, records)

\* The registers the heard range asks for.
Asked(heard) ==
    {reg \in Registers :
        /\ reg.class = heard.cmd[4]
        /\ Address(Slice(heard.args, 0, 4)) <= reg.addr
        /\ reg.addr <= Address(Slice(heard.args, 4, 8))}

\* Some n of them, in the order of their addresses.
ByAddress(n, regs) ==
    {order \in [1..n -> regs] : \A k \in 2..n : order[k - 1].addr < order[k].addr}

LogEntry(i, ts) ==      \* mostly bytes that are escaped on the wire
    [entry_id |-> <<i, \h7E, \h7D, \h11>>, timestamp |-> <<ts, \h13, \h11, \h12>>,
     event_code |-> <<\h30 + i, 1, \h11, \h12>>, device_id |-> DevSerial,
     param1 |-> <<\h11, \h12, \h13, \h7D>>, param2 |-> <<\h7D, \h7D, \h5E, \h7E>>]

EntryBytes(e) == e.entry_id \o e.timestamp \o e.event_code \o e.device_id
                 \o e.param1 \o e.param2

\* The device's log, newest first or oldest first.
Logs == {[i \in 1..n |-> LogEntry(i, IF newest THEN 64 - i ELSE 64 + i)] :
            n \in LogSizes, newest \in BOOLEAN}

\* The ways to send n events: in one frame, or, when MaxFragments allows it,
\* in two that are not empty, as the number of events up to the end of each.
Splits(n) ==
    {<<n>>} \cup (IF MaxFragments < 2 \/ n < 2 THEN {} ELSE {<<k, n>> : k \in 1..(n - 1)})

\* The frames that carry the events: one or two, one without any for an empty
\* log.
Parts(heard, log, split) ==
    [f \in 1..Len(split) |->
        LET from == IF f = 1 THEN 0 ELSE split[f - 1]
        IN  Reply(heard, "plain",
                  [k \in 1..(split[f] - from) |-> EntryBytes(log[from + k])])]

Closing(heard) == Reply(heard, "plain", <<>>)
Refusal(heard) == Coded(heard, 1, "plain", <<>>)

\* The answer ends with a frame that has no event, as the code's heuristic
\* wants it ("closed"), or with the last events, as ADR 0004 and packet.rs
\* describe it ("open"); or an error code comes at once or after the events.
Fragments(heard, log, split, end) ==
    CASE end = "closed"  -> Parts(heard, log, split) \o <<Closing(heard)>>
      [] end = "open"    -> Parts(heard, log, split)
      [] end = "refused" -> <<Refusal(heard)>>
      [] end = "aborted" -> Parts(heard, log, split) \o <<Refusal(heard)>>
-----------------------------------------------------------------------------
(***************************************************************************)
(* The exchange                                                            *)
(***************************************************************************)
Init ==
    /\ phase = "idle"
    /\ request = [name |-> "none"]
    /\ air = <<>>
    /\ held = <<>>
    /\ result = <<>>

\* The session sends a request.
Ask(req) ==
    /\ phase = "idle"
    /\ phase' = "asked"
    /\ request' = req
    /\ air' = <<build(RequestFrame(req))>>
    /\ UNCHANGED <<held, result>>

\* The device answers a query with a reply of the registers it holds.
AnswerQuery ==
    /\ phase = "asked" /\ request.name = "query"
    /\ LET heard == Hears(air[1]) IN
       /\ heard # <<>>
       /\ \E n \in 0..MaxRecords : \E order \in ByAddress(n, Asked(heard)) :
          \E c \in [1..n -> UNION {Contents(order[k].form) : k \in 1..n}],
             cut \in BOOLEAN, shape \in {"separator", "plain", "push"} :
             /\ \A k \in 1..n : c[k] \in Contents(order[k].form)
             /\ cut => n > 0 /\ order[n].form \in Spots
             /\ held' = [k \in 1..n |-> [reg |-> order[k], means |-> c[k].means]]
             /\ air' = <<Reply(heard, shape,
                            [k \in 1..n |-> Record(order[k], c[k], cut /\ k = n)])>>
    /\ phase' = "answered"
    /\ UNCHANGED <<request, result>>

\* The device answers an event-log query with its log in fragments.
AnswerEventLog ==
    /\ phase = "asked" /\ request.name = "event_log"
    /\ LET heard == Hears(air[1]) IN
       /\ heard # <<>>
       /\ \E log \in Logs, end \in Endings : \E split \in Splits(Len(log)) :
            /\ held' = [log |-> log, end |-> end]
            /\ air' = Fragments(heard, log, split, end)
    /\ phase' = "answered"
    /\ UNCHANGED <<request, result>>

\* The other requests have no readings in their answers (Session models them).
NoReadings ==
    /\ phase = "asked" /\ request.name \notin {"query", "event_log"}
    /\ phase' = "done"
    /\ UNCHANGED <<request, air, held, result>>

\* The L2 header and the body in a frame, <<>> for none.
Decoded(raw) ==
    LET f == parse(raw) IN IF f.tag = "err" THEN <<>> ELSE decode_l2(f.val.payload)

\* The body of a reply that carries the request's packet id, or None, and the
\* code in its header.
ReplyBody(raw) ==
    LET d == Decoded(raw)
    IN  IF d = <<>> \/ d[1].pkt_id # request.pkt_id THEN None ELSE d[2]

ReplyCode(raw) == Decoded(raw)[1].error_code

\* query_for_device and the publishing of its reply.
ReceiveQuery ==
    /\ phase = "answered" /\ request.name = "query"
    /\ result' = IF ReplyBody(air[1]) = None THEN <<>>
                 ELSE IF request.kind \in OneShotKinds
                 THEN publish_one_shot(request.kind, ReplyBody(air[1]))
                 ELSE publish_query_result(request.kind, ReplyBody(air[1]))
    /\ phase' = "done"
    /\ UNCHANGED <<request, air, held>>

MaxReplies == 32

\* query_event_log_for_device: the bodies of the fragments, one after the
\* other, up to the first that has no record, or the 32nd.  An error code
\* before that, or the silence after the last frame, discards them all.
Aggregated(frames) ==
    LET bodies == [f \in 1..Len(frames) |-> ReplyBody(frames[f])]
        stops == {f \in 1..Len(frames) :
                    \/ ReplyCode(frames[f]) # 0
                    \/ Len(bodies[f]) <= 12
                    \/ f = MaxReplies}
    IN  IF stops = {} THEN Err("Silent")
        ELSE IF ReplyCode(frames[Min(stops)]) # 0 THEN Err("event-log-retcode")
        ELSE Ok(FlattenSeq(SubSeq(bodies, 1, Min(stops))))

Seconds(word) == word[1] + 256 * word[2] + 65536 * word[3] + 16777216 * word[4]

BugFirstIsLatest(recs) == 1

\* max_by_key(timestamp): the last of the newest events.
Latest(recs) ==
    Max({k \in DOMAIN recs : \A j \in DOMAIN recs :
            Seconds(recs[j].timestamp) <= Seconds(recs[k].timestamp)})

LastEvent(recs, k) ==
    [last_event |-> Slice(recs[k].event_code, 0, 2),
     last_event_at |-> recs[k].timestamp,
     last_event_count_24h |-> Len(recs)]

\* The three keys are published when the log has an event; an error is logged
\* and nothing published.
LogResult(fetched) ==
    IF fetched.tag = "err" THEN <<>>
    ELSE LET recs == parse_event_log_records(fetched.val)
         IN  IF recs = <<>> THEN <<>> ELSE LastEvent(recs, Latest(recs))

ReceiveEventLog ==
    /\ phase = "answered" /\ request.name = "event_log"
    /\ result' = LogResult(Aggregated(air))
    /\ phase' = "done"
    /\ UNCHANGED <<request, air, held>>

\* The next exchange starts afresh.
NextExchange ==
    /\ phase = "done"
    /\ phase' = "idle"
    /\ request' = [name |-> "none"]
    /\ air' = <<>>
    /\ held' = <<>>
    /\ result' = <<>>

Next ==
    \/ \E req \in Requests : Ask(req)
    \/ AnswerQuery
    \/ AnswerEventLog
    \/ NoReadings
    \/ ReceiveQuery
    \/ ReceiveEventLog
    \/ NextExchange

Spec == Init /\ [][Next]_vars
-----------------------------------------------------------------------------
(***************************************************************************)
(* Properties                                                              *)
(***************************************************************************)
\* The command of a query, as the device knows it: its object class comes last.
CommandOf(kind) ==
    CASE kind \in {"SpotDcPower", "SpotDcVoltage"}       -> <<0, 2, \h80, \h53>>
      [] kind \in {"DeviceStatus", "GridRelayStatus"}    -> <<0, 2, \h80, \h51>>
      [] kind \in {"EnergyProduction", "OperationTime"}  -> <<0, 2, 0, \h54>>
      [] kind \in {"TypeLabel", "SoftwareVersion"}       -> <<0, 2, 0, \h58>>
      [] kind = "InverterTemperature"                    -> <<0, 2, 0, \h52>>
      [] OTHER                                           -> <<0, 2, 0, \h51>>

\* Every L2 request FrameBuilder::build_l2_wrapped puts on the wire passes a
\* PPP receiver (escapes, control characters, FCS residue, longword count) and
\* says to it whom it is for, whom it is from, its packet id, its command and
\* its arguments (a query's range is what RegistersReached is about).  A logon
\* carries the group, the timeout, the time and the configured password: a
\* device that takes the group's key off again finds its first twelve
\* characters and nothing after them.
RequestHeard ==
    phase = "asked" /\ request.name \notin {"ver", "echo"} =>
        LET heard == Hears(air[1])
            direct == request.name \in {"query", "event_log"}
        IN  /\ heard # <<>>
            /\ heard.to = IF direct THEN LE16(DevSusy) \o DevSerial
                          ELSE [i \in 1..6 |-> 255]
            /\ heard.from = AppSerial
            /\ heard.pkt_id = request.pkt_id
            /\ heard.cmd = CASE request.name = "init"      -> <<0, 2, 0, 0>>
                             [] request.name = "logoff"    -> <<\h0E, 1, \hFD, \hFF>>
                             [] request.name = "logon"     -> <<\h0C, 4, \hFD, \hFF>>
                             [] request.name = "query"     -> CommandOf(request.kind)
                             [] request.name = "event_log" -> <<0, 2, \h10, \h70>>
            /\ request.name = "init" => heard.args = [i \in 1..8 |-> 0]
            /\ request.name = "logoff" => heard.args = [i \in 1..4 |-> 255]
            /\ request.name = "query" => Len(heard.args) = 8
            /\ request.name = "event_log" => heard.args = DayAgo \o Now
            /\ request.name = "logon" =>
                 LET sent == Drop(heard.args, 16)
                     installer == request.group = "Installer"
                     key == IF installer THEN \hBB ELSE \h88
                     code == IF installer THEN 10 ELSE 7
                 IN  /\ Slice(heard.args, 0, 16)
                         = <<code, 0, 0, 0>> \o <<\h84, 3, 0, 0>> \o Now \o [i \in 1..4 |-> 0]
                     /\ [i \in 1..Len(sent) |-> (sent[i] + 256 - key) % 256]
                         = [i \in 1..12 |-> IF i <= Len(request.pwd)
                                            THEN request.pwd[i] ELSE 0]

\* Every register whose reading a query is there to publish is in the class and
\* the range of addresses the device hears in that query: with a wrong opcode or
\* bound the device would answer something else, or nothing, and the readings
\* of that kind would never come.
RegistersReached ==
    phase = "asked" /\ request.name = "query" =>
        /\ Hears(air[1]) # <<>>
        /\ {reg \in Registers : reg.kind = request.kind} \subseteq Asked(Hears(air[1]))

\* Frame::parse gives back the frame FrameBuilder built, and
\* parse_l2_only_blob the same payload: nothing is lost in a round trip.
RoundTrip ==
    phase = "asked" =>
        /\ parse(air[1]) = Ok(RequestFrame(request))
        /\ RequestFrame(request).kind = "L2Wrapped" =>
             parse_l2_only_blob(Drop(air[1], 18)) = Ok(RequestFrame(request).payload)

\* What is published of a reply is what the device's registers held: exactly
\* the keys of the query whose register was answered with a reading, with the
\* register's value and unit, whatever else the reply carries, in whichever
\* shape it comes and however its last record is cut.
ReadingsFaithful ==
    phase = "done" /\ request.name = "query" =>
        LET read == {h \in ToSet(held) : h.reg.kind = request.kind /\ h.means # <<>>}
        IN  /\ DOMAIN result = {h.reg.key : h \in read}
            /\ \A k \in DOMAIN result : \E h \in read :
                 /\ h.reg.key = k
                 /\ result[k] = [raw |-> h.means, div |-> h.reg.div]

\* What one step of a register is worth: the devices count in W, cV, mA, cHz,
\* Wh, s, centidegrees and thousandths.
Scales == {<<"W", 1>>, <<"V", 100>>, <<"A", 1000>>, <<"Hz", 100>>,
           <<"kWh", 1000>>, <<"h", 3600>>, <<"C", 100>>, <<"none", 1>>, <<"none", 1000>>}

\* Every key that is published after a reply has been announced, so that
\* publish_value finds it and does not panic, and its value is in the unit
\* that was announced.
PublishedAsAnnounced ==
    \A k \in DOMAIN result : \E sensor \in sensor_catalog :
        /\ sensor.key = k
        /\ request.name = "query" => <<sensor.unit, result[k].div>> \in Scales

\* What is published is this log: its newest event, when that was, and how many
\* events there are; nothing when it is empty.
LogShown(log, out) ==
    IF log = <<>> THEN DOMAIN out = {}
    ELSE \E newest \in DOMAIN log :
            /\ \A j \in DOMAIN log : Seconds(log[j].timestamp) <= Seconds(log[newest].timestamp)
            /\ out = [last_event |-> Slice(log[newest].event_code, 0, 2),
                      last_event_at |-> log[newest].timestamp,
                      last_event_count_24h |-> Len(log)]

\* The event-log poll publishes the device's log whole or not at all: whole when
\* the device closes it with a frame that has no event; nothing, not even what
\* had come before, when an error code arrives or when the last frame still
\* carries events and query_event_log_for_device waits for another one until it
\* times out.  (ADR 0004 and packet.rs describe that last kind of device:
\* "You know you're done when a frame comes back with `fragment_id = 0`".  The
\* code does not read the fragment id, so of such a device no log is shown.)
EventLogPublished ==
    phase = "done" /\ request.name = "event_log" =>
        IF held.end = "closed" THEN LogShown(held.log, result) ELSE DOMAIN result = {}

\* What is published of the event log is the device's log, however many frames
\* it comes in.
EventLogFaithful ==
    phase = "done" /\ request.name = "event_log" => LogShown(held.log, result)
=============================================================================
