# A TLA+ verification project for hass-sma-rs

hass-sma-rs is a daemon that polls SMA solar inverters over Bluetooth RFCOMM and
publishes what it reads to Home Assistant over MQTT. This directory holds TLA+
models of its core, TLC configurations that check them on small instances, and
proofs that TLAPS checks for every value of the constants. Paths of source files
are relative to the repository; `PROJECT.json` maps each definition to its lines.

## 1. Inventory

| part | source | state | operations |
|---|---|---|---|
| frame reassembly | `crates/bluez-transport/src/framer.rs` | `in_progress`, `expected_len`, `completed` | `push`, `pop_frame`, `has_frame` |
| RFCOMM transport | `.../rfcomm.rs`, `lib.rs` | file descriptor, its frame reader, the socket's timeouts | `connect`, `send_frame`, `recv_frame`, `close` |
| session | `crates/inverter-client/src/session.rs` | `SessionState`, packet id, identity, topology | `handshake_and_logon`, `query_for_device`, `query_event_log_for_device`, `close`, `graceful_close`, `is_session_fatal` |
| wire codec | `crates/sma-bt-protocol/src/*` | none | frame encode/decode, byte stuffing, FCS, L2 header, logon password |
| value parsers | `crates/inverter-client/src/values.rs` | none | one parser per query kind |
| inverter task | `run_inverter` in `crates/daemon/src/main.rs` | backoff, sleep streak, post-yield deadline, announced identities, failure counters, cooldowns | connect, logon, one-shots, poll tick, yield |
| MQTT publisher | `crates/mqtt-discovery/src/client.rs`, `catalog.rs` | request channel, last will, sensor catalog | `connect_with_lwt`, `publish_online`, `publish_offline`, `announce`, `publish_value` |
| app serial | `mint_new_app_serial` in `main.rs` | `/data/app_serial_<slot>` | restore, mint |
| archive sinks | `crates/storage/src/*`, `Archiver` in `main.rs` | one CSV file per slot and day, one lock | `record`, `append`, SQL insert |
| PVOutput uploader | `crates/daemon/src/pvoutput_uploader.rs`, `pvoutput.rs` | none; reads the gauges | `collect_status`, upload loop |
| metrics | `crates/telemetry/src/*` | counters and gauges | set, serve |
| main, configuration, probe | `main.rs`, `config.rs` | the task handles | spawn, Ctrl-C |

How they interact: `main` spawns one `run_inverter` task per entry point. Each
task owns one MQTT publisher (with a background event loop) and, one after
another, sessions; a session owns a transport, whose blocking reads feed a frame
reader. Errors travel upwards and are sorted once, by `is_session_fatal`, into
those that end the session and those that cost one target its turn. The tasks share
the metrics, which the uploader tasks read, and the archive sink, whose appends one
lock puts in order. The other actors are the inverters, which answer broadcasts all
at once and keep a session table of their own, the radio, and the MQTT broker.

What is hard here: resynchronisation after corrupt bytes; replies that come late,
twice, or from the wrong device, on a link where only a 15-bit packet id tells
them apart; two timeouts on one read; the timers of the task (backoff, sleep,
yield, grace, cooldown) interleaved with failures of every layer; state that
outlives the process: retained MQTT topics, the serial on file, the archive; a wire
format whose checksum, escapes and lengths depend on one another, and four tables
(opcodes, record addresses, divisors, units) that have to agree. `PROJECT.json` lists them as hazards, each at
its line with the properties aimed at it.

What makes each part correct:

- frame reassembly: every frame of the stream comes out once, whole and in order,
  no valid header is missed, and no corrupt header makes the reader wait forever;
- transport: a call ends in bounded time and never loses or withholds a frame;
- session: an answer belongs to the device and kind asked for; queries are
  addressed to the device that said hello; logged in means that the logon was
  accepted; every call returns; nothing is sent out of order;
- task: Home Assistant sees sleep, logon and grace as they are; one silent device
  neither blocks nor hides another; every session is left cleanly and once; the
  task goes on forever;
- publisher: what the broker retains is what was published last, also after an
  outage, and a dead daemon is shown as such;
- codec and parsers: a device hears the request that was meant, and what is
  published is what its registers held, in the unit that was announced;
- app serial: a restarted daemon is let in by an inverter that still remembers the
  session it left behind;
- archive: an acknowledged row is kept, once, in the file of the day it was read on;
- uploader: a system is told what its own device last reported, and is told it.

## 2. Modules and how they correspond to the code

**WireHeader, FrameStream, FrameReader, FrameReaderProofs.** `FrameReader` has one
action for `push`, byte by byte, split as the code's match is (`PushIdle`,
`PushHeader`, `PushBody`), and one for `pop_frame`. The recursive replay of a
refused header is `Replay`, in closed form: three bytes cannot make a header, so
the recursion is one level deep. `WireHeader` is the header test: delimiter,
little-endian length within bounds, XOR checksum. `FrameStream` is the abstract
specification: a cursor over the whole stream that may pass a position only if no
frame can start there. `fed` and `delivered` are history variables.

**Rfcomm, RfcommProofs.** `recv_frame` over a stream of frame parts, with the call's deadline
(`elapsed`), the socket's `SO_RCVTIMEO` (`blocked`) and a peer that sends, falls
silent, goes away or resets. The deadline is looked at only after a read that
brought bytes, as in the code. `timed` says whether `setsockopt(SO_RCVTIMEO)`
succeeded: `connect_blocking` logs a failure and goes on (`rfcomm.rs:140`), and then
nothing bounds the wait for a silent peer, so the two properties about time are
about a socket whose timeout was set. `RecvBuffered` and `RecvStart` are the two ways the
call begins, `ReadChunk`, `ReadSilence` and `ReadFails` the three ways a read ends.

**SessionContract, Session, SessionProofs.** One action per await of the session. The state
variables carry the code's names; `pc` is the phase whose reply is awaited. The
network is the set of frames that any device may send in answer to anything sent
so far, so loss, duplication, delay and reordering need no actions of their own;
stray, malformed and undecodable frames are always possible. Of a reply the model
keeps the packet id, the source, the request it answers, the return code and
whether an event-log body holds records. `encode_pkt_id` and `decode_pkt_id` set
and clear the application bit, modulo the width of the id. `SessionContract` says
what the task relies on; `Session!Contract` maps one to the other, through `mode`
and `got`. `granted` records the request and the return code that made the session
`LoggedIn`. `ErrorClasses` states the classes of `is_session_fatal` in both
directions, as the code has them; where the comments want one of them otherwise, see
section 5.

**RunInverter, RunInverterProofs.** `run_inverter` as one state machine. `pc` is
the await it is at; `timer`, `post_yield_deadline` and `skip_until` are remaining
times. The session below appears through its outcomes: a handshake or query
succeeds, fails for this device, or fails fatally; a success needs the link, a
fatal failure may happen at any time. `failures` and `host_down_streak` saturate
where the code stops telling values apart; `poll_count` is kept modulo
`yield_every`. `inv_session` is the inverter's own view of the session, `swept` a
history of the cycle. `Account` is the `expect` inside `publish_value`.

**Availability, AvailabilityProofs.** The availability topics at the broker behind the publisher's
bounded request channel, with broker outages, the last will, and the end of the
process. The task is reduced to the order of its publications. `devices` is chosen
at the start, so that one model covers a single device and several behind a
repeater, and is a sequence, in whose order the task publishes; `blip` remembers a lost
connection since the last logon. The MQTT client (rumqttc, not in the repository) is
modelled from its use with the default clean session (`client.rs:60`): after a
connection is lost it goes on taking requests off the channel until it notices
(`Swallowed`), and what it and the channel then hold is not delivered in the new
session (`Notice`). `dropped` names the topics whose newest word went that way; until
the next decision about them their retained value is the older one.

**FrameCodec, L2Packet, CodecProofs.** The wire codec on real bytes, as pure operators: the FCS
with its table, `stuff` and `unstuff`, `FrameBuilder`, `Frame::parse` with its
shapes and errors, `parse_l2_only_blob`; the L2 header with the application bit,
`encode_password` with its addition modulo 256, and the body of every command.
Loops over bytes are folds and recursive functions, no `RECURSIVE` operators. Where
the code pushes bytes one by one, the model says what the byte at each place adds
(`Escape`, `Unescape`); which escapes `unstuff` meets is `Markers`.

**Values, Catalog.** The parsers of `values.rs` over those bytes: the record walk
with its truncated last record, the not-available values, the choice between
several records, and `publish_query_result` with the one-shot queries. A reading
is the raw bytes and the divisor; decimal formatting, texts of states and `f32`
rounding are left out. `Catalog` is `sensor_catalog`: the sensors, each a key and its
unit.

**WirePath, WirePathProofs.** `WirePath` composes the four with a device (external). `Ask` builds a request;
the device is a PPP receiver that checks escapes, FCS residue and longword count,
and answers from a table of registers in any of the three frame shapes, whole: what
the frame reader makes of damaged bytes is `FrameReader`'s subject, and that a frame
it completes from two is published follows from the checksum not being compared
(section 5). An event log ends in one of four ways (`Endings`): with a fragment that
has no record, with one that has and silence after it, with an error code instead of
the log, or with one after its records. `ReceiveQuery` and `ReceiveEventLog` parse
and publish; `Aggregated` has the error paths of `query_event_log_for_device`. The register table is the reference definition: it states addresses,
shapes and scales once, and opcodes, parsers, divisors and units are compared with it.

**CsvSink.** `CsvSink::append` await by await, under its lock: existence test, open,
header, line, flush; the file of a row follows from a time taken before the lock.
Each call may fail, a write half-way; the process may end at any point; midnight
passes. `spoiled` names the files whose first append was cut off.

**AppSerial.** Restore, mint and both halves of `fs::write`, with
crashes and failures between them, against an inverter that remembers the serial
of a session it was not told the end of. `Mint` covers the three reasons to mint: no
file, a short file, and a file that cannot be read, which is replaced (`main.rs:425`,
`433`). `mislaid` names the serials lost to a failing write or read: these, and no
others, may be the ones that lock the daemon out. What number is minted is a choice.

**PvUploader.** The four labelled gauges as the poll loops set them, `owner_slot`
and `collect_status` on the other side, and a PVOutput that fails and answers.
`Collect` reads the gauges at once: the code reads them without an await, so only
a task on another thread can get in between, and each gauge is right by itself.
`last` is the history of what each device reported to this process, a set that is
empty before the first report, so that `UploadTrue` tells a reported 0 from none.
`BuildFails` is the task that ends because its HTTP client cannot be built.

**DataPlane, DataPlaneProofs.** `DataPlane` puts the three together, and
`DataPlaneProofs` holds the theorems of all three. They share no state, so a behaviour belongs
to one of them, chosen by `part`: the run explores their union, not their product.

The MC modules give the constants their small values. Operators named `Bug...`
are variants of the definition that follows them with a plausible mistake in it;
no specification uses them, they exist to show that the properties can fail.

## 3. Runs

| run | what it checks | bounds |
|---|---|---|
| `frame_reader` | types and length bounds, length discipline, `FrameStream` implemented | all streams of up to 10 bytes over 4 byte values, frames of 5 bytes |
| `rfcomm` | bounded wait, no frame withheld, no part lost, every call returns | frames of 3 parts, 7 parts, both timeouts 3 |
| `rfcomm_silence` | *violated:* silence is a timeout | same |
| `session` | no cross-talk, identity, logon, wire order, error classes, contract, every call returns | 2 devices, 2 kinds, 2 and 3 attempts, 2 fragments, packet ids to 6 with the flag at 6 |
| `session_pkt_id` | *violated:* a reply to the own request is recognised | 1 device, flag at 4 |
| `run_inverter_mis` | all task invariants, logoff on teardown, cooldowns only run down, a broken link is dropped, recovery after a night | 2 devices, yield every 6th tick, ladder of 3, Ctrl-C at any moment |
| `run_inverter_panic` | *violated:* publishing does not end the task | 1 device, the catalog as shipped |
| `availability` | topics say what was published last, but for what an outage swallowed; a dead daemon is shown on the will's topic; a waiting publish resumes | 1 device and 2 devices, channel of 2, 2 outages |
| `availability_lwt` | *violated:* a dead daemon is shown on every topic | 2 devices |
| `wire_path` | requests are heard as meant, round trip, every register to be published is in its query's range, readings are what the registers held, keys and units are announced, a one-frame event log is published whole if it is closed and not at all otherwise | every request, 2 packet ids, 5 passwords, replies of up to 2 records, 4 log sizes, 4 endings |
| `event_log` | *violated:* a log in two frames is published as it is | 2 fragments and a closing one |
| `data_plane` | header first, acknowledged rows kept, appends return; no lock-out; uploads true and flowing | 2 tasks, 2 rows each, 2 days, 2 faults; 3 serials; 3 devices, 2 systems, 2 readings per process, 1 crash |

Why the bounds are enough. *Frames:* the alphabet holds the delimiter, the one
valid length, its checksum and zero, so valid, wrong, too short and too long
headers and delimiters inside headers and bodies all occur; ten bytes hold two
frames or a frame after every five-byte resync, and the proofs remove the bound.
*Session:* with three attempts a call can give up and its late reply meet the
next call; two devices and two kinds make every mix-up visible; the ids cross the
flag inside the bound, the wrap to 0 beyond it is left out. *Task:* the scaled
durations keep the order of the code's (`DurationAssumption`), and
three cooldown rungs, three host-down failures and a grace of several retries all
happen. *Transport:* both timeouts are equal, as the default configuration has
them. *Availability:* a channel of two fills with one poll; a second outage meets
what the first one left. *Wire path:* bytes and lengths are real ones; serials,
addresses, ids and values are chosen to need every escape and to hit the
not-available values, passwords to pass 255 and twelve characters, logs to make a
frame longer than 255 bytes; two records bring a wanted register together with a
neighbour of the same range; the proofs remove the bounds on ids, passwords, values and
records. *Data plane:* both tasks share one slot, so that they
race for one file (nothing in `config.rs` forbids it); two faults let a failure
meet a crash; three serials are the holder's, the file's and a fresh one, and the
proof removes the bound; the repeater is named after one of its devices, which
makes a wrong label show a wrong value instead of nothing.

`run_inverter_mis` uses a catalog that contains `consecutive_failures`; the
shipped catalog does not, and with it the task ends at the first completed target
(`run_inverter_panic`), before cooldowns or yields can happen. The run asks what
the rest of the loop does once the key is there.

Deadlock checking is off where the system may stop: the frame reader at its byte
bound, a task that panicked or was aborted, a daemon that is dead, the archive
and the uploader at the bounds on rows, readings and crashes.

**Fairness.** `Rfcomm`: the blocking thread runs and time passes. `Session`: a
receive completes, which is what `Rfcomm`'s `RecvReturns` shows. `RunInverter`:
tokio schedules the task and time passes (weak fairness of `Task` and `Tick`);
that connects and logons do not fail forever is strong fairness of `Connected`
and `LoggedOn`: the inverter wakes up in the morning, and only `Recovery` and its
like depend on it. `Availability`: the publishing task and the event loop run, the
broker keeps its keep-alive promise and comes back. `CsvSink`: file operations
return (weak), and tokio's `Mutex` serves its waiters in order, so one that finds
it free again and again gets it (strong); the inverter tasks need not archive
anything. `PvUploader`: the ticker fires, a request ends within its 15 s timeout
(weak), and PVOutput does not refuse for ever (strong, for `UploadFlows` only).
`AppSerial` has safety properties only.

## 4. Proofs

Each component's theorems are in a module of their own. A theorem that names a
property states the definition the run checks, under the specification the run
uses; TLC shows it on the instance, the proof for every value of the constants
that satisfies the assumptions. The inductive invariants were checked with TLC before
they were proved, except those of `WirePathProofs` that name the answer by an unbounded
existential; there TLC checks the properties themselves.

| module | assumes | inductive invariant | theorems |
|---|---|---|---|
| `FrameReaderProofs` | `WireAssumption` | `IInv` | `ReaderInvariant`, `ReaderTypes`, `ReaderLengthDiscipline`, `ReaderImplementsStream` (refinement) |
| `RfcommProofs` | `RfcommAssumption` | `RecvInv` | `WaitBounded`, `FrameNotWithheld`, `NothingLost` |
| `SessionProofs` | `SessionAssumption` | `SessInv` | `NoMixUp`, `OwnIdentity`, `OnlyLogonGrants`, `ProtocolOrder`, `FatalOrRetry`, `KeepsContract` (refinement) |
| `RunInverterProofs` | `ConfigAssumption`, `DurationAssumption` | `IInv`, `IsolationInv` | `RunInverterTypes`, `SleepAnnounced`, `LogonShownOnline`, `GraceHolds`, `SingleSocket`, `CooldownsEarned`, `TargetsServed`, `CooldownsRunDown` and `LogoffSent` (action properties) |
| `AvailabilityProofs` | `AvailabilityAssumption` | `ShownInv` | `VerdictShown` |
| `DataPlaneProofs` | `PlaneAssumption` | `CsvInv`, `SerialInv`, `GaugeInv` | `HeaderLeads`, `RowsSurvive`, `PlaneNotLockedOut`, `UploadsTrue` (an action property) |
| `CodecProofs` | nothing; `ParseBuild` that `MIN_FRAME_LEN` is at most 18 | (functions) | `UnstuffStuff`, `FcsResidue`, `ParseBuild`, `BlobBuild`, `DecodeEncode` |
| `WirePathProofs` | `WirePathAssumption`; `AnnouncedFirst` nothing | `AnnouncedInv`, `AskedInv`, `AnsweredInv`, `FaithfulInv`, `LogInv` | `AnnouncedFirst`, `Received`, `AlwaysHeard`, `AlwaysRoundTrip`, `AlwaysReached`, `AlwaysFaithful`, `OneFragmentPublished` |

**Frames.** Bytes are values of 0..255 and a frame is longer than its header. The
invariant is the conjunction of types, length discipline, suffix property and
well-formed queue: none of the last three is inductive alone, since a frame is well
formed because the buffer's header is, and the header is the stream's because the
buffer is its suffix. The refinement of `FrameStream` is proved step by step, for
streams of any length.

**Transport.** The bound on the wait is not inductive: the deadline is looked at
between two reads only, so the invariant says by how much the read under way may
have exceeded it. Conservation of the parts is arithmetic on quotient and remainder.

**Session.** Devices, kinds, attempts and fragments are arbitrary; the assumptions
are that the session ends before the `u16` counter wraps, and that the names for "no
device" and for the event log are no device and no kind. What carries every property
is `Ids`: no request on the wire has an id above the counter, and the one that has
the counter's is the one whose reply is awaited. So a late reply to a call given up
earlier carries a smaller id, and `NextId` and `OwnId` show by arithmetic on the
flag bit that it cannot be taken for the current one. `Handshake`, `LoggedIn` and
`NewSession` say how far the wire has come in each phase, `Collected` what the
fragments collected so far answer. The refinement maps each receive either to the
one contract step that ends the call or to a stutter.

**Task.** First `TypeInv`, then `IInv`, which ties the place of the task to what it
owns and has published: `SocketInv` (who owns the socket where), `TimerInv` (where a
timer runs), `AnnouncedInv` (a sleep flips exactly the targets, in either mode),
`AvailInv` and `GraceInv`. They are needed together: the flag `published_offline`
outlives a successful connect, so that "a long wait was announced" depends on the
streak, the streak on the place, and the grace window on no streak being open.
`IsolationInv` is about the poll loop: what has been swept, what a cooldown is worth
and from which streak of failures it came. `LogoffOnTeardown` excepts a task that
ends: Ctrl-C aborts it without a logoff, and so would a panic.

**Availability.** `SessionIsShown` speaks of a moment when nothing is under way.
`ShownInv` says for every moment where the newest word on a target is: still with
the task, in the channel with nothing about the target after it, at the broker, or
dropped by the client together with the connection.

**Stores.** `HeaderFirst` says nothing of an append under way, `AcknowledgedKept`
nothing of a row on its way, so neither is inductive. `OneHolder`: the tasks between
taking and dropping the guard are the holders of the lock, at most one. `HeaderInv`
adds what an append has found out about its file, which stays true because nobody
else appends. `RowInv` adds that a row still to be written is in no file and that
one about to be acknowledged is the last item of its file, from which the order of
the rows follows. `SerialInv`: whom the inverter remembers was decided by a logon
before the crash, and what carries it over is the file, unless the serial is mislaid. `GaugeInv`: the gauge
`owner_slot` leads to holds what the device last reported, or 0. Its proof needs that one
entry polls a device, which `config.rs` does not enforce: with two, the readings of
the second would be uploaded by nobody. Energy is unsigned, as it is on the wire.

**Publishing.** `AnnouncedFirst` holds whatever the reply contains: it is proved
parser by parser from the keys and divisors alone, and says that on the query paths
the `expect` of `publish_value` cannot fire. (It does fire for the one key that is
not a reading, see `run_inverter_panic`.)

**Codec.** The theorems are about payloads of every length and content. What a
recursive function computes needs induction over data. The library's induction
theorems take an operator as a parameter, which the provers cannot instantiate, so
`CodecProofs` states induction over sets: a set that holds 0 and is closed under
successors holds `Nat`, one that holds the empty sequence and is closed under `Append`
holds `Seq(S)`; both follow from the least element of a set of numbers. The same
argument shows that `FlattenSeq`, the loop of `update_slice` and `Markers` are the
functions their equations say. On that rest: `UnstuffStuff`, where the invariant of
the scan is the output so far and whether an escape is open; `FcsResidue`, which
reduces the two last bytes to a fact about the complement of the checksum; and
`ParseBuild` and `BlobBuild`, by splitting a built frame at its fixed offsets. A frame
is `Buildable` when its length fits into sixteen bits and an L1-only payload does not
look like an L2 packet (it starts with the signature, bare or behind a delimiter): the
code tells the two kinds apart by that alone. `DecodeEncode` is about the L2 header.

**Wire path.** `WirePathAssumption` says that ids leave the application bit free,
that serials, passwords and readings are bytes, that a reply fits into a frame's
length field and that a log has at most 60 events, beyond which the byte arithmetic of
the modelled log entries would leave 0..255. The argument follows the exchange.
`AskedInv`: what is in flight is the frame of the request. `Received` takes the packet
out of it, and the place of each field in each command gives `AlwaysHeard`. So the
device has heard the opcode and range of the query, and, kind by kind, the registers
in that range are known: all that the query is for (`AlwaysReached`). `AnsweredInv`:
what is in flight answers exactly that query from the registers held. `FaithfulInv` adds what was published. Its proof is the longest here: the body is
prefix and records, records have one length but for the last, so the walk by strides
finds each again; each record is read as its register means, sentinels and truncated
records included; a device answers in the order of its addresses, so no two records of
an answer share one; so every parser publishes the keys of the registers present, with
their values, and no other. `LogInv` is the same for entries of 24 bytes and the choice
of the newest, with a case for each way the log may end. `OneFragmentPublished` supposes
that the log comes in one fragment: with two the property is false, which is the run
`event_log`.

Only model-checked: liveness (`CallsReturn`, `RecvReturns`, `BrokenLinkDropped`,
`Recovery`, `WillIsShown`, `PublishResumes`, `AppendReturns`, `UploadFlows`), because
fairness and `ENABLED` are outside the prover's reach. Every invariant and every
action property of the passing runs is a theorem.

## 5. Where code and documentation disagree

With a run (`findings` in `PROJECT.json`): the missing catalog key, the 15-bit packet
id, silence reported as an I/O error, the last will that covers only the parent
topic, and the event log in several fragments, whose prefixes are parsed as records.
Met while modelling, without a run of their own; where a passing property states what
the code does instead, it is named:

- after a broker outage a single device stays offline until the next logon: the
  will's retained offline arrives (`client.rs:79`) and only a logon publishes online,
  while `client.rs:97` says of `publish_online`: "Call right after connect + after each
  successful handshake"; and an online or offline that was in the MQTT client when it
  noticed the outage is lost with the clean session. `SessionIsShown` makes both
  exceptions explicit;
- a target that has stopped answering stays online while the session lives: its
  failures are counted and it is skipped, but nothing publishes it offline, while
  `docs/adr/0005-mis-multi-inverter.md:91` to `95` decides "publish an
  availability=offline on that device's LWT topic but keep the session alive"
  (`LoggedInIsOnline`);
- Ctrl-C aborts the tasks without a logoff (`main.rs:1134`), while
  `docs/adr/0002-persistent-bluetooth-session.md:54` promises one;
- a logon answered only by 0x0001 fails, while the comment at `session.rs:551` says
  that the session proceeds to the queries;
- the event-log collection ends on a body without records, not on the fragment marked
  last: `docs/adr/0004-event-log-deferred.md:27` says "You know you're done when a frame
  comes back with `fragment_id = 0`", `packet.rs:185` and `session.rs:678` the same. If
  that last fragment carries records, the code waits for another, times out and discards
  what it has collected, so nothing is published (`EventLogPublished`);
- a refused event log is tagged `event-log-retcode` and so counts as fatal, while
  `session.rs:61` says "per-device only during query / event-log" and `CHANGELOG.md:19`
  the same (`ErrorClasses`); only `run_inverter`, which does not ask about the errors of
  this call, goes on all the same;
- `yield_every = 1` yields on every tick and never polls;
- `Frame::parse` and `parse_l2_only_blob` strip the FCS and never compare it
  (`frame.rs:163`, `frame.rs:355`), while `crates/sma-bt-protocol/tests/captured_frames.rs:78`
  says of the latter that it must match: a damaged body, and a frame the reader completed
  with the bytes of the next one, is parsed and published;
- `mint_new_app_serial` masks the mixed value with a number that is no run of ones, so
  that two slots may get one serial, while the comment at `main.rs:345` says that they
  get distinct ones;
- a gauge that was never set is uploaded as 0 (`v1` when only power has been read since
  the start, `v2` when only energy has), while `pvoutput.rs:93` says "Missing readings
  (e.g. inverter asleep) yield `None` for that field" (`UploadTrue`);
- nothing resets `energy_today_wh`: after midnight yesterday's energy is uploaded
  under today's date, while `pvoutput.rs:44` calls it "cumulative since midnight";
- a receive timeout that cannot be set is logged and let go (`rfcomm.rs:140`), after which
  a silent peer blocks a call without end (`RecvReturns` is about the other case);
- a serial on file that cannot be read at one start is overwritten by a new one
  (`main.rs:433`), while the comment at `main.rs:415` promises that restarts reuse it
  (`NeverLockedOut` names the exception);
- a crash between creating a CSV file and its header leaves a file without one, and a
  line torn by a failing write is continued by the next row (`HeaderFirst` and
  `AcknowledgedKept` state what does hold).

## 6. Not modelled, and what is left

Left out for good: the mock transport (a test double), the HTTP metrics server,
logging, the JSON of the discovery payloads, configuration parsing (serde's), the
TimescaleDB insert (one statement to a database that is not in the repository), the
`probe` command (a session used once). A loss of power of the host, which may undo
writes that were not synced, is outside `AppSerial` and `CsvSink`: there the
process ends and the file system stays.

Modelled: frame reassembly with its contract; the session and its contract; the
inverter task; transport and availability; codec, parsers and catalog end to end; app
serial, CSV archive and PVOutput uploader. Every invariant and action property the
passing runs check is proved for all values of the constants; what remains with TLC is
liveness.

What could be added, and is not claimed here:

1. a composition of `RunInverter` with `SessionContract`: that the task's view of a
   session, through its outcomes, is the one the session implements is argued above and
   not stated as a refinement;
2. a run that shows what `yield_every = 1` does (the theorems hold for it, since
   `ConfigAssumption` allows it, and say nothing of polls that never happen);
3. the decimal formatting of readings and the texts of states and models, which the
   models of the parsers stop short of.
