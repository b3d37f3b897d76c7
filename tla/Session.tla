------------------------------- MODULE Session ------------------------------
(***************************************************************************)
(* Session of inverter-client: the handshake and logon, queries, the event *)
(* log and the two ways of closing, over a transport that may lose,        *)
(* duplicate, delay and reorder frames and mix in frames nobody asked for. *)
(*                                                                         *)
(* One action per await: a frame, a timeout or an I/O error comes in, the  *)
(* code runs to its next recv, sleep or return.  `sent' holds every L2     *)
(* request of the session in wire order; the devices (external) may answer *)
(* any of them, any number of times, at any later moment.                  *)
(***************************************************************************)
EXTENDS Integers, Sequences

CONSTANTS
    Devices,        \* devices of the piconet; a device is its BT address and serial
    QueryKinds,     \* QueryKind
    PKT_FLAG,       \* APP_PACKET_BIT, 0x8000; pcktid is a u16: modulo 2 * PKT_FLAG
    L1_ATTEMPTS,    \* frames recv_until_l1_ctrl looks at (12)
    L2_ATTEMPTS,    \* frames the pkt_id loops look at (16)
    MAX_FRAGMENTS,  \* event-log fragments collected (32)
    MaxPktId        \* bound on the packet ids one session uses

ASSUME SessionAssumption ==
    /\ PKT_FLAG \in Nat \ {0}
    /\ L1_ATTEMPTS \in Nat \ {0}
    /\ L2_ATTEMPTS \in Nat \ {0}
    /\ MAX_FRAGMENTS \in Nat \ {0}
    /\ MaxPktId \in 4..(2 * PKT_FLAG - 1)
    /\ "event-log" \notin QueryKinds
    /\ "none" \notin Devices      \* stands for no device

VARIABLES
    pc,           \* idle, or the phase whose reply is awaited
    state,        \* SessionState
    transport,    \* up, dead (every call fails) or closed
    pcktid,
    target_bt,    \* source of the hello; NoDevice before it
    identity,     \* inverter_serial; NoDevice before the init reply
    l1_attempt, attempt,  \* counters of the two receive loops
    last_reject,  \* code of the last refused logon, or 0
    aggregated,   \* event-log fragments collected so far
    sent,         \* history: L2 requests sent
    granted,      \* history: operation and code of the reply that made us LoggedIn
    ret           \* what the latest call returned

connVars == <<state, transport>>
idVars   == <<target_bt, identity>>
loopVars == <<l1_attempt, attempt, last_reject, aggregated>>
vars == <<pc, connVars, pcktid, idVars, loopVars, sent, granted, ret>>

NoDevice == "none"
Kinds == QueryKinds \cup {"event-log"}

\* Logon return codes: accepted, "session already active", bad password.
ALREADY_ACTIVE == 1
INVALID_PASSWORD == 256
Codes == {0, ALREADY_ACTIVE, INVALID_PASSWORD}

HandshakePhases == {"hello", "topology", "init", "settle", "logon"}

-----------------------------------------------------------------------------
\* Packet ids.

next_pcktid(p) == LET q == (p + 1) % (2 * PKT_FLAG) IN IF q = 0 THEN 1 ELSE q

\* encode_l2 sets the application bit, decode_l2 clears it.
encode_pkt_id(p) == IF p < PKT_FLAG THEN p + PKT_FLAG ELSE p
decode_pkt_id(p) == p % PKT_FLAG

Request(op, dev, kind, id) == [op |-> op, dev |-> dev, kind |-> kind, id |-> id]

-----------------------------------------------------------------------------
\* External: what the piconet may put on the link.

\* Broadcast requests are answered by every device, the others by the one
\* they address; a logoff is not answered.  A reply repeats the packet id.
\* `full' is an event-log body longer than the 12-byte prefix; the FragmentID
\* is not decoded.
Answering(r) == IF r.dev = NoDevice THEN Devices ELSE {r.dev}

RepliesTo(r) ==
    IF r.op = "logoff" THEN {}
    ELSE [form : {"L2"}, ctrl : {1, 8}, src : Answering(r),
          pkt_id : {decode_pkt_id(encode_pkt_id(r.id))},
          op : {r.op}, kind : {r.kind}, code : Codes,
          full : IF r.op = "event-log" THEN BOOLEAN ELSE {TRUE}]

\* Frames that carry no L2 reply.  A hello declares a firmware version and
\* may be too short to hold the NetID; the short ones of the other controls
\* behave like any other stray frame.
Strays ==
    {[form |-> "malformed"], [form |-> "undecodable", ctrl |-> 1],
     [form |-> "L1", ctrl |-> 5], [form |-> "L1", ctrl |-> 10]}
    \cup [form : {"hello"}, ctrl : {2}, src : Devices, fw : {"old", "ok", "short"}]

Frames == Strays \cup UNION {RepliesTo(sent[i]) : i \in 1..Len(sent)}

\* recv_frame fails at any time with a timeout or an I/O error, and a dead
\* transport only with the latter.
Errors == IF transport = "up" THEN {"Timeout", "Io"} ELSE {"Io"}

Receivable(f) == transport = "up" /\ f \in Frames

-----------------------------------------------------------------------------
\* Returning to the caller.

Result(op, err, phase, code, req, body) ==
    [op |-> op, err |-> err, phase |-> phase, code |-> code, req |-> req,
     body |-> body]

NoReq == <<>>

Return(r) == pc' = "idle" /\ ret' = r

HandshakeFails(err, phase, code) ==
    Return(Result("logon", err, phase, code, NoReq, <<>>))

\* Sending a frame of the handshake and going on to the phase that awaits
\* its reply; a send may fail on any transport, and does on a dead one.
SendThen(phase) ==
    /\ transport = "up"
    /\ pc' = phase
    /\ UNCHANGED ret

SendFails == HandshakeFails("Transport", "none", 0)

Broadcast(op, phase) ==
    \/ SendThen(phase) /\ sent' = Append(sent, Request(op, NoDevice, "none", pcktid'))
    \/ SendFails /\ UNCHANGED sent

\* A receive that failed: a timeout is Silent, the rest is a transport error.
RecvError(e) == IF e = "Timeout" THEN "Silent" ELSE "Transport"

\* recv_until_l1_ctrl passes over a frame; with the last one it gives up.
L1Skip(giveUp) ==
    /\ l1_attempt' = l1_attempt + 1
    /\ IF l1_attempt + 1 < L1_ATTEMPTS THEN UNCHANGED <<pc, ret>> ELSE giveUp

BugSkipUncounted(giveUp) == UNCHANGED <<attempt, l1_attempt, pc, ret>>

\* A pkt_id loop passes over a frame.
L2Skip(giveUp) ==
    /\ attempt' = attempt + 1
    /\ l1_attempt' = 0
    /\ IF attempt + 1 < L2_ATTEMPTS THEN UNCHANGED <<pc, ret>> ELSE giveUp

HasCtrl(f, c) == f.form # "malformed" /\ f.ctrl = c

BugAnyReply(f) == f.form = "L2"
Matches(f) == f.form = "L2" /\ f.pkt_id = pcktid

BugAnySource(f) == f.form = "L2"
FromTarget(f) == f.src = target_bt

-----------------------------------------------------------------------------
\* handshake_and_logon.

Init ==
    /\ pc = "idle"
    /\ state = "Disconnected"
    /\ transport = "up"
    /\ pcktid = 0
    /\ target_bt = NoDevice
    /\ identity = NoDevice
    /\ l1_attempt = 0
    /\ attempt = 0
    /\ last_reject = 0
    /\ aggregated = <<>>
    /\ sent = <<>>
    /\ granted = <<>>
    /\ ret = Result("none", "none", "none", 0, NoReq, <<>>)

\* Step 0: the discovery packet.  The caller logs a new session on once.
HandshakeStart ==
    /\ pc = "idle" /\ ret.op = "none" /\ transport # "closed"
    /\ state' = "Handshaking"
    /\ SendThen("hello") \/ SendFails
    /\ UNCHANGED <<transport, pcktid, idVars, loopVars, sent, granted>>

\* Steps 1 and 2: the first frame must be a good hello; it is echoed.
RecvHello(f) ==
    /\ pc = "hello" /\ Receivable(f)
    /\ \/ /\ f.form = "malformed"
          /\ HandshakeFails("Parse", "none", 0)
          /\ UNCHANGED target_bt
       \/ /\ f.form \notin {"malformed", "hello"}
          /\ HandshakeFails("Protocol", "hello-ctrl", 0)
          /\ UNCHANGED target_bt
       \/ /\ f.form = "hello" /\ f.fw = "short"
          /\ HandshakeFails("Protocol", "hello-short", 0)
          /\ UNCHANGED target_bt
       \/ /\ f.form = "hello" /\ f.fw = "old"
          /\ HandshakeFails("FirmwareTooOld", "none", 0)
          /\ UNCHANGED target_bt
       \/ /\ f.form = "hello" /\ f.fw = "ok"
          /\ target_bt' = f.src
          /\ SendThen("topology") \/ SendFails
    /\ l1_attempt' = 0
    /\ UNCHANGED <<connVars, pcktid, identity, attempt, last_reject, aggregated, sent,
                   granted>>

\* Steps 3 and 4: the topology, then the init broadcast.
RecvTopology(f) ==
    /\ pc = "topology" /\ Receivable(f)
    /\ \/ /\ ~HasCtrl(f, 5)
          /\ L1Skip(HandshakeFails("Silent", "topology", 0))
          /\ UNCHANGED <<state, pcktid, sent, attempt>>
       \/ /\ HasCtrl(f, 5)
          /\ state' = "Enumerating"
          /\ pcktid' = next_pcktid(pcktid)
          /\ Broadcast("init", "init")
          /\ l1_attempt' = 0
          /\ attempt' = 0
    /\ UNCHANGED <<transport, idVars, last_reject, aggregated, granted>>

\* Steps 4 and 5: the init reply of the device that said hello gives the
\* identity; the logoff that resets the inverter's session follows.
RecvInit(f) ==
    /\ pc = "init" /\ Receivable(f)
    /\ \/ /\ ~HasCtrl(f, 1)
          /\ L1Skip(HandshakeFails("Silent", "init", 0))
          /\ UNCHANGED <<attempt, identity, pcktid, sent>>
       \/ /\ HasCtrl(f, 1)
          /\ ~(Matches(f) /\ FromTarget(f))
          /\ L2Skip(HandshakeFails("Silent", "init", 0))
          /\ UNCHANGED <<identity, pcktid, sent>>
       \/ /\ HasCtrl(f, 1) /\ Matches(f) /\ FromTarget(f)
          /\ identity' = f.src
          /\ pcktid' = next_pcktid(pcktid)
          /\ Broadcast("logoff", "settle")
          /\ l1_attempt' = 0
          /\ attempt' = 0
    /\ UNCHANGED <<connVars, target_bt, last_reject, aggregated, granted>>

\* Step 6, after the 300 ms pause: the logon broadcast.
SendLogon ==
    /\ pc = "settle"
    /\ pcktid' = next_pcktid(pcktid)
    /\ Broadcast("logon", "logon")
    /\ UNCHANGED <<connVars, idVars, loopVars, granted>>

\* The end of the reply loop without an acceptance.
LogonGivesUp(reject) ==
    IF reject = 0 THEN HandshakeFails("Silent", "logon", 0)
                  ELSE HandshakeFails("LogonFailed", "none", reject)

\* Step 7: the first reply that accepts the logon ends the loop; refusals are
\* remembered, the last one wins.
RecvLogon(f) ==
    /\ pc = "logon" /\ Receivable(f)
    /\ \/ /\ ~HasCtrl(f, 1)
          /\ L1Skip(LogonGivesUp(last_reject))
          /\ UNCHANGED <<attempt, last_reject, state, granted>>
       \/ /\ HasCtrl(f, 1) /\ ~Matches(f)
          /\ L2Skip(LogonGivesUp(last_reject))
          /\ UNCHANGED <<last_reject, state, granted>>
       \/ /\ HasCtrl(f, 1) /\ Matches(f) /\ f.code # 0
          /\ last_reject' = f.code
          /\ L2Skip(LogonGivesUp(f.code))
          /\ UNCHANGED <<state, granted>>
       \/ /\ HasCtrl(f, 1) /\ Matches(f) /\ f.code = 0
          /\ state' = "LoggedIn"
          /\ granted' = <<f.op, f.code>>
          /\ Return(Result("logon", "none", "none", 0, NoReq, <<>>))
          /\ UNCHANGED <<l1_attempt, attempt, last_reject>>
    /\ UNCHANGED <<transport, pcktid, idVars, aggregated, sent>>

\* A receive of the handshake fails.  The logon loop drops the error and
\* judges by the refusals it has seen.
HandshakeRecvError(e) ==
    /\ pc \in HandshakePhases \ {"settle"} /\ e \in Errors
    /\ IF pc = "logon" THEN LogonGivesUp(last_reject)
       ELSE HandshakeFails(RecvError(e), IF e = "Timeout" THEN pc ELSE "none", 0)
    /\ UNCHANGED <<connVars, pcktid, idVars, loopVars, sent, granted>>

-----------------------------------------------------------------------------
\* query_for_device and query_event_log_for_device.

CallFails(op, err, phase, req) == Return(Result(op, err, phase, 0, req, <<>>))

BugAskAnyTime == state # "Disconnected"
MayAsk == state = "LoggedIn"

\* Both begin alike: refused unless logged in, then one request is sent.
\* MaxPktId leaves an id for the closing logoff.
Ask(op, d, k) ==
    /\ pc = "idle" /\ pcktid < MaxPktId - 1
    /\ IF ~MayAsk
       THEN /\ CallFails(op, "Protocol", "not-logged-in", <<d, k>>)
            /\ UNCHANGED <<pcktid, sent>>
       ELSE /\ pcktid' = next_pcktid(pcktid)
            /\ \/ /\ transport = "up"
                  /\ sent' = Append(sent, Request(op, d, k, pcktid'))
                  /\ pc' = op
                  /\ ret' = Result(op, "pending", "none", 0, <<d, k>>, <<>>)
               \/ /\ CallFails(op, "Transport", "none", <<d, k>>)
                  /\ UNCHANGED sent
    /\ l1_attempt' = 0
    /\ attempt' = 0
    /\ aggregated' = <<>>
    /\ UNCHANGED <<connVars, idVars, last_reject, granted>>

query_for_device(d, k) == Ask("query", d, k)
query_event_log_for_device(d) == Ask("event-log", d, "event-log")

GivesUp == CallFails(pc, "Silent", pc, ret.req)

\* recv_l2_with_pkt_id takes the first reply to this request, whatever its
\* return code and whoever its source.
RecvQuery(f) ==
    /\ pc = "query" /\ Receivable(f)
    /\ \/ /\ ~Matches(f)
          /\ L2Skip(GivesUp)
       \/ /\ Matches(f)
          /\ Return(Result("query", "none", "none", f.code, ret.req,
                           <<<<f.src, f.kind>>>>))
          /\ UNCHANGED <<l1_attempt, attempt>>
    /\ UNCHANGED <<connVars, pcktid, idVars, last_reject, aggregated, sent, granted>>

\* Fragments are collected until one carries no record or the cap is met;
\* each has its own receive loop.
RecvFragment(f) ==
    /\ pc = "event-log" /\ Receivable(f)
    /\ \/ /\ ~Matches(f)
          /\ L2Skip(GivesUp)
          /\ UNCHANGED aggregated
       \/ /\ Matches(f) /\ f.code # 0
          /\ CallFails("event-log", "Protocol", "event-log-retcode", ret.req)
          /\ UNCHANGED <<l1_attempt, attempt, aggregated>>
       \/ /\ Matches(f) /\ f.code = 0
          /\ aggregated' = Append(aggregated, <<f.src, f.kind>>)
          /\ attempt' = 0
          /\ l1_attempt' = 0
          /\ IF f.full /\ Len(aggregated') < MAX_FRAGMENTS
             THEN UNCHANGED <<pc, ret>>
             ELSE Return(Result("event-log", "none", "none", 0, ret.req, aggregated'))
    /\ UNCHANGED <<connVars, pcktid, idVars, last_reject, sent, granted>>

CallRecvError(e) ==
    /\ pc \in {"query", "event-log"} /\ e \in Errors
    /\ CallFails(pc, RecvError(e), IF e = "Timeout" THEN pc ELSE "none", ret.req)
    /\ UNCHANGED <<connVars, pcktid, idVars, loopVars, sent, granted>>

-----------------------------------------------------------------------------
\* Closing.

close ==
    /\ pc = "idle"
    /\ state' = "Disconnected"
    /\ transport' = "closed"
    /\ UNCHANGED <<pc, pcktid, idVars, loopVars, sent, granted, ret>>

\* A logoff first while logged in; a failure to send it is ignored.
graceful_close ==
    /\ pc = "idle"
    /\ IF state = "LoggedIn"
       THEN /\ pcktid' = next_pcktid(pcktid)
            /\ \/ /\ transport = "up"
                  /\ sent' = Append(sent, Request("logoff", NoDevice, "none", pcktid'))
               \/ UNCHANGED sent
       ELSE UNCHANGED <<pcktid, sent>>
    /\ state' = "Disconnected"
    /\ transport' = "closed"
    /\ UNCHANGED <<pc, idVars, loopVars, granted, ret>>

\* External: the link goes away.
TransportDies ==
    /\ transport = "up"
    /\ transport' = "dead"
    /\ UNCHANGED <<pc, state, pcktid, idVars, loopVars, sent, granted, ret>>

Receive ==
    \/ \E f \in Frames :
          RecvHello(f) \/ RecvTopology(f) \/ RecvInit(f) \/ RecvLogon(f)
          \/ RecvQuery(f) \/ RecvFragment(f)
    \/ \E e \in {"Timeout", "Io"} : HandshakeRecvError(e) \/ CallRecvError(e)
    \/ SendLogon

Caller ==
    \/ HandshakeStart
    \/ \E d \in Devices : query_event_log_for_device(d)
                          \/ \E k \in QueryKinds : query_for_device(d, k)
    \/ close \/ graceful_close

Next == Receive \/ Caller \/ TransportDies

Spec == Init /\ [][Next]_vars

\* A receive completes: recv_frame has a timeout.
FairSpec == Spec /\ WF_vars(Receive)

-----------------------------------------------------------------------------
Answered == ret.op \in {"query", "event-log"} /\ ret.err = "none"

\* An answer is the data of the device and the kind that were asked for,
\* although only the packet id is compared and late replies to calls given up
\* before may come in at any time.
NoCrossTalk ==
    Answered => \A i \in 1..Len(ret.body) : ret.body[i] = ret.req

\* Queries are addressed to the device that said hello: a peer's reply to the
\* init broadcast is never taken for its identity.
IdentityFromTarget ==
    state = "LoggedIn" => identity = target_bt /\ identity # NoDevice

\* The session is LoggedIn only on an accepting reply to the logon itself: no
\* late reply to the init broadcast passes for one.
LogonGranted == state = "LoggedIn" => granted = <<"logon", 0>>

\* The requests on the wire: init, logoff and logon in this order, calls only
\* after them, and at most one logoff, with nothing after it.
WireOrder ==
    \A i \in 1..Len(sent) :
        LET op == sent[i].op
        IN  IF i <= 3 THEN op = <<"init", "logoff", "logon">>[i]
            ELSE op \in {"query", "event-log"} \/ (op = "logoff" /\ i = Len(sent)
                                                   /\ state = "Disconnected")

BugSilentLogonNotFatal(r) ==
    \/ r.err \in {"Transport", "Parse", "LogonFailed", "FirmwareTooOld"}
    \/ r.err \in {"Protocol", "Silent"} /\ r.phase \notin {"query", "event-log", "logon"}

\* SessionError::is_session_fatal.
is_session_fatal(r) ==
    \/ r.err \in {"Transport", "Parse", "LogonFailed", "FirmwareTooOld"}
    \/ r.err \in {"Protocol", "Silent"} /\ r.phase \notin {"query", "event-log"}

Failed(r) == r.err \notin {"none", "pending"}

\* How the caller is told what to do about an error, in both directions.  An
\* error of the handshake is always fatal.  A call is per-device exactly when
\* no reply to it was recognised, and then the session is logged in until the
\* caller closes it; a broken link, a call before the logon and a refused
\* event log are fatal.  The last is a device's own answer: the comments of
\* is_session_fatal, and the change log, count it among the per-device errors,
\* but its tag, "event-log-retcode", is not the one they compare with.
ErrorClasses ==
    Failed(ret) =>
        /\ ret.op = "logon" => is_session_fatal(ret)
        /\ ret.op # "logon" => (is_session_fatal(ret) <=> ret.err # "Silent")
        /\ ~is_session_fatal(ret) => state = "LoggedIn" \/ transport = "closed"

\* A reply to the request awaited would be recognised as one.
OwnReplyRecognised ==
    pc \in {"init", "logon", "query", "event-log"} =>
        decode_pkt_id(encode_pkt_id(pcktid)) = pcktid

\* Every call returns, however many stray, malformed or late frames come in
\* between.
CallsReturn == pc # "idle" ~> pc = "idle"

\* What the caller sees of the session, in the words of its contract.
mode ==
    IF pc \in HandshakePhases THEN "logging_on"
    ELSE IF pc # "idle" THEN "asking"
    ELSE IF state = "LoggedIn" THEN "ready"
    ELSE IF ret.op = "none" /\ transport # "closed" THEN "new"
    ELSE "over"

got ==
    IF ret.op = "none" \/ ret.err = "pending" \/ (ret.op = "logon" /\ ret.err = "none")
    THEN [what |-> "pending", data |-> {}]
    ELSE IF ret.err = "none"
    THEN [what |-> "ok", data |-> {ret.body[i] : i \in 1..Len(ret.body)}]
    ELSE [what |-> IF is_session_fatal(ret) THEN "fatal" ELSE "miss", data |-> {}]

Contract == INSTANCE SessionContract WITH
    Kinds <- Kinds, mode <- mode, call <- ret.req, got <- got

\* The session keeps its contract with run_inverter.
ImplementsContract == Contract!Spec
=============================================================================
