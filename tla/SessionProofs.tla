---------------------------- MODULE SessionProofs ----------------------------
(***************************************************************************)
(* A session gives its caller what was asked for, for any set of devices   *)
(* and kinds and over a link that loses, repeats, delays and reorders      *)
(* frames.  None of the properties is inductive.  What carries them is     *)
(* Ids: no request has an id above the current one, and the one with the   *)
(* current id is the request whose reply is awaited.  That the ids of one  *)
(* session stay apart on the wire is arithmetic on the u16 counter and its *)
(* flag bit (NextId, OwnId), and needs the session to end before the       *)
(* counter wraps.  Handshake, LoggedIn and NewSession say how far the wire *)
(* has come in each phase; Collected is Answers before the call returns.   *)
(***************************************************************************)
EXTENDS Session, SequenceTheorems, TLAPS

-----------------------------------------------------------------------------
(* Packet ids. *)

LEMMA IdAssumption ==
    /\ PKT_FLAG \in Nat \ {0}
    /\ MaxPktId \in Nat /\ 4 <= MaxPktId /\ MaxPktId < 2 * PKT_FLAG
    /\ NoDevice \notin Devices
BY SessionAssumption DEF NoDevice

LEMMA SmallMod ==
    ASSUME NEW m \in Nat \ {0}, NEW a \in 0..(m - 1)
    PROVE  a % m = a
OBVIOUS

LEMMA NextMod ==
    ASSUME NEW m \in Nat \ {0}, NEW a \in m..(2 * m - 1)
    PROVE  a % m = a - m
<1>1. a = m * (a \div m) + (a % m) /\ a % m \in 0..(m - 1) /\ a \div m \in Nat
  OBVIOUS
<1>2. a \div m = 1
  <2>1. CASE a \div m = 0
    BY <1>1, <2>1
  <2>2. CASE a \div m >= 2
    <3>1. PICK k \in Nat : a \div m = k + 2
      <4>1. (a \div m) - 2 \in Nat /\ a \div m = ((a \div m) - 2) + 2
        BY <1>1, <2>2
      <4> QED BY <4>1
    <3>2. m * (k + 2) = m * k + 2 * m /\ m * k \in Nat
      OBVIOUS
    <3> QED
      BY <1>1, <3>1, <3>2
  <2> QED
    BY <1>1, <2>1, <2>2
<1> QED
  BY <1>1, <1>2

\* The id goes up by one as long as the session has ids left.
LEMMA NextId ==
    ASSUME NEW p \in 0..(MaxPktId - 1)
    PROVE  next_pcktid(p) = p + 1
<1>1. (p + 1) % (2 * PKT_FLAG) = p + 1
  BY IdAssumption, SmallMod
<1> QED
  BY <1>1, IdAssumption DEF next_pcktid

\* Of the requests with ids up to p only the one with id p is answered by a
\* reply that carries p: the ids from the flag on come back below it.
LEMMA OwnId ==
    ASSUME NEW p \in 0..MaxPktId, NEW id \in 1..p,
           decode_pkt_id(encode_pkt_id(id)) = p
    PROVE  id = p
<1>1. CASE id < PKT_FLAG
  <2>1. (id + PKT_FLAG) % PKT_FLAG = id
    BY <1>1, IdAssumption, NextMod
  <2> QED
    BY <1>1, <2>1 DEF decode_pkt_id, encode_pkt_id
<1>2. CASE id >= PKT_FLAG
  <2>0. id \in PKT_FLAG..(2 * PKT_FLAG - 1)
    BY <1>2, IdAssumption
  <2>1. id % PKT_FLAG = id - PKT_FLAG
    BY <2>0, IdAssumption, NextMod
  <2> QED
    BY <1>2, <2>1, IdAssumption DEF decode_pkt_id, encode_pkt_id
<1> QED
  BY <1>1, <1>2, IdAssumption

-----------------------------------------------------------------------------
(* The inductive invariant. *)

Requests == [op : {"init", "logoff", "logon", "query", "event-log"},
             dev : Devices \cup {NoDevice}, kind : Kinds \cup {"none"}, id : Nat]

CallPhases == {"query", "event-log"}

SessTypes ==
    /\ pc \in {"idle"} \cup CallPhases \cup HandshakePhases
    /\ transport \in {"up", "dead", "closed"}
    /\ pcktid \in 0..MaxPktId
    /\ sent \in Seq(Requests)
    /\ aggregated \in Seq(Devices \X Kinds)

\* A session that has not logged on has sent nothing but its handshake.
NewSession ==
    /\ pc \in HandshakePhases => ret.op = "none"
    /\ ret.op = "none" => /\ ret.req = NoReq /\ ret.err = "none"
                          /\ state # "LoggedIn"
                          /\ pc \in {"idle"} \cup HandshakePhases
    /\ ret.op = "none" /\ pc = "idle" => sent = <<>> /\ pcktid = 0

\* How far the handshake is, and what it has learnt.
Handshake ==
    /\ pc \in {"hello", "topology"} => sent = <<>> /\ pcktid = 0
    /\ pc = "init" => Len(sent) = 1 /\ pcktid = 1
    /\ pc = "settle" => Len(sent) = 2 /\ pcktid = 2
    /\ pc = "logon" => Len(sent) = 3 /\ pcktid = 3
    /\ pc \in {"topology", "init", "settle", "logon"} => target_bt \in Devices
    /\ pc \in {"settle", "logon"} => identity = target_bt

\* Logged in: an id is left for the logoff, and a call under way is known.
LoggedIn ==
    /\ state = "LoggedIn" =>
         /\ pc \in {"idle"} \cup CallPhases
         /\ Len(sent) >= 3 /\ pcktid < MaxPktId
         /\ target_bt \in Devices
    /\ pc \in CallPhases =>
         /\ state = "LoggedIn"
         /\ ret.op = pc /\ ret.err = "pending" /\ ret.req \in Devices \X Kinds

\* The request with the current id is the one whose reply is awaited.
Ids ==
    \A i \in 1..Len(sent) :
        /\ sent[i].id \in 1..pcktid
        /\ sent[i].id = pcktid =>
             /\ pc = "logon" => sent[i].op = "logon"
             /\ pc \in CallPhases => /\ sent[i].op = pc
                                     /\ <<sent[i].dev, sent[i].kind>> = ret.req

\* Fragments collected, and answers given, are what was asked for.
Collected == pc = "event-log" => \A j \in 1..Len(aggregated) : aggregated[j] = ret.req
Answers == Answered => Len(ret.body) \in Nat \ {0} /\ NoCrossTalk

SessInv ==
    /\ SessTypes /\ NewSession /\ Handshake /\ LoggedIn /\ Ids /\ Collected /\ Answers
    /\ IdentityFromTarget /\ LogonGranted /\ WireOrder /\ ErrorClasses

LEMMA SessInit == Init => SessInv
<1> SUFFICES ASSUME Init PROVE SessInv
  OBVIOUS
<1>1. ret.op = "none" /\ ret.err = "none" /\ ret.req = NoReq
  BY DEF Init, Result
<1>2. sent = <<>> /\ aggregated = <<>> /\ Len(sent) = 0
  BY DEF Init
<1>3. SessTypes /\ NewSession /\ Handshake /\ LoggedIn
  BY <1>1, <1>2, IdAssumption
     DEF Init, SessTypes, NewSession, Handshake, LoggedIn, HandshakePhases, CallPhases
<1>4. Ids /\ Collected /\ WireOrder
  BY <1>2 DEF Init, Ids, Collected, WireOrder
<1>5. Answers /\ IdentityFromTarget /\ LogonGranted /\ ErrorClasses
  BY <1>1 DEF Init, Answers, Answered, IdentityFromTarget, LogonGranted, ErrorClasses, Failed
<1> QED
  BY <1>3, <1>4, <1>5 DEF SessInv

-----------------------------------------------------------------------------
(* Frames. *)

LEMMA L2IsReply ==
    ASSUME NEW f \in Frames, f.form = "L2"
    PROVE  \E i \in 1..Len(sent) : sent[i].op # "logoff" /\ f \in RepliesTo(sent[i])
<1>1. f \notin Strays
  BY DEF Strays
<1>2. PICK i \in 1..Len(sent) : f \in RepliesTo(sent[i])
  BY <1>1 DEF Frames
<1>3. sent[i].op # "logoff"
  BY <1>2 DEF RepliesTo
<1> QED
  BY <1>2, <1>3

LEMMA HelloSource ==
    ASSUME NEW f \in Frames, f.form = "hello"
    PROVE  f.src \in Devices
<1>1. ASSUME NEW i \in 1..Len(sent) PROVE f \notin RepliesTo(sent[i])
  BY DEF RepliesTo
<1>2. f \in Strays
  BY <1>1 DEF Frames
<1> QED
  BY <1>2 DEF Strays

\* A frame that is taken for the reply answers the request with the current
\* id, and no other.
LEMMA ReplyToCurrent ==
    ASSUME SessInv, NEW f \in Frames, Matches(f)
    PROVE  \E i \in 1..Len(sent) :
               /\ sent[i].id = pcktid
               /\ f.op = sent[i].op /\ f.kind = sent[i].kind
               /\ sent[i].dev \in Devices => f.src = sent[i].dev
<1>1. f.form = "L2" /\ f.pkt_id = pcktid
  BY DEF Matches
<1>2. PICK i \in 1..Len(sent) : sent[i].op # "logoff" /\ f \in RepliesTo(sent[i])
  BY <1>1, L2IsReply
<1>3. /\ f.src \in Answering(sent[i])
      /\ f.pkt_id = decode_pkt_id(encode_pkt_id(sent[i].id))
      /\ f.op = sent[i].op /\ f.kind = sent[i].kind
  BY <1>2 DEF RepliesTo
<1>4. sent[i].id \in 1..pcktid /\ pcktid \in 0..MaxPktId
  BY DEF SessInv, SessTypes, Ids
<1>5. sent[i].id = pcktid
  BY <1>1, <1>3, <1>4, OwnId
<1>6. sent[i].dev \in Devices => f.src = sent[i].dev
  BY <1>3, IdAssumption DEF Answering
<1> QED
  BY <1>3, <1>5, <1>6

LEMMA SentGrows ==
    ASSUME NEW s \in Seq(Requests), NEW r \in Requests
    PROVE  /\ Append(s, r) \in Seq(Requests)
           /\ Len(s) \in Nat /\ Len(Append(s, r)) = Len(s) + 1
           /\ \A i \in 1..Len(s) : Append(s, r)[i] = s[i]
           /\ Append(s, r)[Len(s) + 1] = r
           /\ DOMAIN s = 1..Len(s)
BY AppendProperties, LenProperties

-----------------------------------------------------------------------------
(* Steps that are alike. *)

\* A receive loop passes over a frame, or nothing of the invariant changes.
LEMMA SkipKeeps ==
    ASSUME SessInv,
           UNCHANGED <<pc, state, pcktid, idVars, aggregated, sent, granted, ret>>,
           transport' = transport \/ (transport = "up" /\ transport' = "dead")
    PROVE  SessInv'
<1> USE DEF SessInv, idVars
<1>1. SessTypes' /\ NewSession' /\ Handshake' /\ LoggedIn'
  BY DEF SessTypes, NewSession, Handshake, LoggedIn
<1>2. Ids' /\ Collected' /\ WireOrder'
  BY DEF Ids, Collected, WireOrder
<1>3. Answers' /\ IdentityFromTarget' /\ LogonGranted' /\ ErrorClasses'
  BY DEF Answers, Answered, NoCrossTalk, IdentityFromTarget, LogonGranted, ErrorClasses
<1> QED
  BY <1>1, <1>2, <1>3

LEMMA FewSent ==
    ASSUME SessInv, ret.op = "none"
    PROVE  /\ Len(sent) \in 0..3 /\ pcktid \in 0..3
           /\ Len(sent) = 0 => sent = <<>>
           /\ state # "LoggedIn" /\ pc \in {"idle"} \cup HandshakePhases
<1>1. sent \in Seq(Requests) /\ (sent = <<>> => Len(sent) = 0)
  BY EmptySeq DEF SessInv, SessTypes
<1>2. Len(sent) \in Nat /\ (sent # <<>> => Len(sent) # 0)
  BY <1>1, EmptySeq
<1> QED
  BY <1>1, <1>2 DEF SessInv, NewSession, Handshake, HandshakePhases

\* The handshake ends in a fatal error.
LEMMA HandshakeEnds ==
    ASSUME SessInv, ret.op = "none",
           NEW err, NEW phase, NEW code,
           HandshakeFails(err, phase, code),
           \/ err \in {"Transport", "Parse", "LogonFailed", "FirmwareTooOld"}
           \/ err \in {"Protocol", "Silent"} /\ phase \notin CallPhases,
           UNCHANGED <<transport, aggregated, sent, granted>>,
           state' # "LoggedIn", pcktid' \in pcktid..MaxPktId
    PROVE  SessInv'
<1>1. /\ pc' = "idle" /\ ret'.op = "logon" /\ ret'.err = err /\ ret'.phase = phase
      /\ err \notin {"none", "pending"}
  BY DEF HandshakeFails, Return, Result
<1>2. SessTypes' /\ NewSession' /\ Handshake' /\ LoggedIn'
  BY <1>1, IdAssumption DEF SessInv, SessTypes, NewSession, Handshake, LoggedIn,
                            HandshakePhases, CallPhases
<1>3. Ids' /\ Collected'
  BY <1>1, IdAssumption DEF SessInv, SessTypes, Ids, Collected, CallPhases
<1>4. WireOrder'
  BY FewSent DEF SessInv, WireOrder
<1>5. ErrorClasses'
  BY <1>1 DEF ErrorClasses, Failed, is_session_fatal, CallPhases
<1>6. Answers' /\ IdentityFromTarget' /\ LogonGranted'
  BY <1>1 DEF Answers, Answered, IdentityFromTarget, LogonGranted
<1> QED
  BY <1>2, <1>3, <1>4, <1>5, <1>6 DEF SessInv

\* How a call that is under way may fail.
CallError(err, phase) ==
    \/ err = "Silent" /\ phase = pc
    \/ err = "Transport"
    \/ err = "Protocol" /\ phase = "event-log-retcode"

\* A call comes back, with an answer to what was asked or with an error.
LEMMA CallEnds ==
    ASSUME SessInv, pc \in CallPhases,
           NEW err, NEW phase, NEW code, NEW body,
           Return(Result(pc, err, phase, code, ret.req, body)), err # "pending",
           err = "none" => /\ Len(body) \in Nat \ {0}
                           /\ \A i \in 1..Len(body) : body[i] = ret.req,
           err # "none" => CallError(err, phase),
           UNCHANGED <<state, transport, pcktid, idVars, sent, granted>>,
           aggregated' \in Seq(Devices \X Kinds)
    PROVE  SessInv'
<1>1. /\ pc' = "idle" /\ ret'.op = pc /\ ret'.err = err /\ ret'.req = ret.req
      /\ ret'.body = body /\ ret'.phase = phase
  BY DEF Return, Result
<1>2. pc \notin {"idle", "none", "logon"} /\ state = "LoggedIn" /\ state' = "LoggedIn"
  BY DEF SessInv, LoggedIn, CallPhases
<1>3. SessTypes' /\ NewSession' /\ Handshake' /\ LoggedIn'
  BY <1>1, <1>2 DEF SessInv, SessTypes, NewSession, Handshake, LoggedIn,
                    HandshakePhases, CallPhases, idVars
<1>4. Ids' /\ Collected' /\ WireOrder'
  BY <1>1, <1>2 DEF SessInv, Ids, Collected, WireOrder, CallPhases
<1>5. Answers'
  BY <1>1 DEF Answers, Answered, NoCrossTalk
<1>6. IdentityFromTarget' /\ LogonGranted'
  BY <1>1, <1>2 DEF SessInv, IdentityFromTarget, LogonGranted, idVars
<1>7. ErrorClasses'
  BY <1>1, <1>2 DEF ErrorClasses, Failed, is_session_fatal, CallError, CallPhases
<1> QED
  BY <1>3, <1>4, <1>5, <1>6, <1>7 DEF SessInv

\* The handshake goes on to its next phase.
LEMMA HandshakeGoesOn ==
    ASSUME SessInv, ret.op = "none", pc' \in HandshakePhases,
           UNCHANGED <<transport, aggregated, granted, ret>>,
           state' # "LoggedIn", pcktid' \in 0..MaxPktId, sent' \in Seq(Requests),
           Handshake', Ids', WireOrder'
    PROVE  SessInv'
<1>1. pc' # "idle" /\ pc' \notin CallPhases
  BY DEF HandshakePhases, CallPhases
<1>2. SessTypes' /\ NewSession' /\ LoggedIn'
  BY <1>1 DEF SessInv, SessTypes, NewSession, LoggedIn
<1>3. Collected' /\ Answers'
  BY <1>1 DEF Collected, CallPhases, Answers, Answered
<1>4. IdentityFromTarget' /\ LogonGranted' /\ ErrorClasses'
  BY DEF SessInv, NewSession, IdentityFromTarget, LogonGranted, ErrorClasses, Failed
<1> QED
  BY <1>2, <1>3, <1>4 DEF SessInv

\* The n-th broadcast of the handshake takes the n-th place on the wire and
\* the n-th id.
LEMMA BroadcastSent ==
    ASSUME SessInv, NEW n \in 0..2, Len(sent) = n, pcktid = n, pcktid' = n + 1,
           NEW op, op = <<"init", "logoff", "logon">>[n + 1],
           sent' = Append(sent, Request(op, NoDevice, "none", pcktid')),
           pc' \notin CallPhases, pc' = "logon" => op = "logon"
    PROVE  sent' \in Seq(Requests) /\ Len(sent') = n + 1 /\ Ids' /\ WireOrder'
<1> DEFINE r == Request(op, NoDevice, "none", n + 1)
<1>1. op \in {"init", "logoff", "logon"}
  OBVIOUS
<1>2. r \in Requests /\ r.op = op /\ r.id = n + 1
  BY <1>1 DEF Request, Requests
<1>3. sent \in Seq(Requests) /\ sent' = Append(sent, r)
  BY DEF SessInv, SessTypes
<1> HIDE DEF r
<1>4. /\ sent' \in Seq(Requests) /\ Len(sent') = n + 1
      /\ \A i \in 1..n : sent'[i] = sent[i]
      /\ sent'[n + 1] = r
  BY <1>2, <1>3, SentGrows
<1>5. Ids'
  <2> SUFFICES ASSUME NEW i \in 1..(n + 1)
               PROVE  /\ sent'[i].id \in 1..(n + 1)
                      /\ sent'[i].id = n + 1 => (pc' = "logon" => sent'[i].op = "logon")
    BY <1>4 DEF Ids
  <2>1. CASE i = n + 1
    BY <2>1, <1>2, <1>4
  <2>2. CASE i \in 1..n
    BY <2>2, <1>4 DEF SessInv, Ids
  <2> QED
    BY <2>1, <2>2
<1>6. WireOrder'
  <2> SUFFICES ASSUME NEW i \in 1..(n + 1)
               PROVE  sent'[i].op = <<"init", "logoff", "logon">>[i]
    BY <1>4 DEF WireOrder
  <2>1. CASE i = n + 1
    BY <2>1, <1>2, <1>4
  <2>2. CASE i \in 1..n
    BY <2>2, <1>4 DEF SessInv, WireOrder
  <2> QED
    BY <2>1, <2>2
<1> QED
  BY <1>4, <1>5, <1>6

-----------------------------------------------------------------------------
(* The handshake. *)

LEMMA HandshakeStartKeeps == SessInv /\ HandshakeStart => SessInv'
<1> SUFFICES ASSUME SessInv, HandshakeStart PROVE SessInv'
  OBVIOUS
<1> USE DEF HandshakeStart, loopVars
<1>1. pcktid \in 0..MaxPktId /\ sent \in Seq(Requests) /\ state' # "LoggedIn"
  BY DEF SessInv, SessTypes
<1>2. sent = <<>> /\ pcktid = 0 /\ Len(sent) = 0
  BY DEF SessInv, NewSession
<1>3. CASE SendFails
  BY <1>1, <1>3, HandshakeEnds, IdAssumption DEF SendFails
<1>4. CASE SendThen("hello")
  <2>1. pc' = "hello" /\ UNCHANGED ret
    BY <1>4 DEF SendThen
  <2>2. Handshake' /\ Ids' /\ WireOrder'
    BY <1>2, <2>1 DEF Handshake, Ids, WireOrder
  <2> QED
    BY <1>1, <2>1, <2>2, HandshakeGoesOn DEF HandshakePhases
<1> QED
  BY <1>3, <1>4

LEMMA RecvHelloKeeps ==
    ASSUME NEW f \in Frames, SessInv, RecvHello(f) PROVE SessInv'
<1> USE DEF RecvHello, connVars
<1>1. ret.op = "none" /\ sent = <<>> /\ pcktid = 0 /\ Len(sent) = 0
  BY DEF SessInv, NewSession, Handshake, HandshakePhases
<1>2. pcktid \in pcktid..MaxPktId /\ sent \in Seq(Requests) /\ state # "LoggedIn"
  BY <1>1, IdAssumption DEF SessInv, SessTypes, NewSession
<1>3. CASE HandshakeFails("Parse", "none", 0)
  BY <1>1, <1>2, <1>3, HandshakeEnds
<1>4. CASE HandshakeFails("Protocol", "hello-ctrl", 0)
  BY <1>1, <1>2, <1>4, HandshakeEnds DEF CallPhases
<1>5. CASE HandshakeFails("Protocol", "hello-short", 0)
  BY <1>1, <1>2, <1>5, HandshakeEnds DEF CallPhases
<1>6. CASE HandshakeFails("FirmwareTooOld", "none", 0)
  BY <1>1, <1>2, <1>6, HandshakeEnds
<1>7. CASE SendFails
  BY <1>1, <1>2, <1>7, HandshakeEnds DEF SendFails
<1>8. CASE f.form = "hello" /\ target_bt' = f.src /\ SendThen("topology")
  <2>1. pc' = "topology" /\ UNCHANGED ret /\ target_bt' \in Devices
    BY <1>8, HelloSource DEF SendThen
  <2>2. Handshake' /\ Ids' /\ WireOrder'
    BY <1>1, <2>1 DEF Handshake, Ids, WireOrder
  <2> QED
    BY <1>1, <1>2, <2>1, <2>2, HandshakeGoesOn DEF HandshakePhases
<1> QED
  BY <1>3, <1>4, <1>5, <1>6, <1>7, <1>8

LEMMA RecvTopologyKeeps ==
    ASSUME NEW f \in Frames, SessInv, RecvTopology(f) PROVE SessInv'
<1> USE DEF RecvTopology
<1>1. /\ ret.op = "none" /\ sent = <<>> /\ pcktid = 0 /\ Len(sent) = 0
      /\ state # "LoggedIn" /\ target_bt \in Devices
  BY DEF SessInv, NewSession, Handshake, HandshakePhases
<1>2. 0 \in 0..(MaxPktId - 1) /\ 1 \in 0..MaxPktId /\ 0 \in 0..MaxPktId
  BY IdAssumption
<1>3. CASE ~HasCtrl(f, 5)
  <2>1. CASE HandshakeFails("Silent", "topology", 0)
    BY <1>1, <1>2, <1>3, <2>1, HandshakeEnds DEF CallPhases
  <2>2. CASE UNCHANGED <<pc, ret>>
    BY <1>3, <2>2, SkipKeeps DEF idVars
  <2> QED
    BY <1>3, <2>1, <2>2 DEF L1Skip
<1>4. CASE HasCtrl(f, 5)
  <2>1. pcktid' = 1 /\ state' # "LoggedIn"
    BY <1>1, <1>2, <1>4, NextId
  <2>2. CASE SendFails /\ UNCHANGED sent
    BY <1>1, <1>2, <2>1, <2>2, HandshakeEnds DEF SendFails
  <2>3. CASE /\ SendThen("init")
             /\ sent' = Append(sent, Request("init", NoDevice, "none", pcktid'))
    <3>1. pc' = "init" /\ UNCHANGED ret
      BY <2>3 DEF SendThen
    <3>2. sent' \in Seq(Requests) /\ Len(sent') = 1 /\ Ids' /\ WireOrder'
      BY <1>1, <2>1, <2>3, <3>1, BroadcastSent DEF CallPhases
    <3>3. Handshake'
      BY <1>1, <2>1, <3>1, <3>2 DEF Handshake, idVars
    <3> QED
      BY <1>1, <1>2, <2>1, <3>1, <3>2, <3>3, HandshakeGoesOn DEF HandshakePhases
  <2> QED
    BY <1>4, <2>2, <2>3 DEF Broadcast
<1> QED
  BY <1>3, <1>4

LEMMA RecvInitKeeps ==
    ASSUME NEW f \in Frames, SessInv, RecvInit(f) PROVE SessInv'
<1> USE DEF RecvInit, connVars
<1>1. /\ ret.op = "none" /\ pcktid = 1 /\ Len(sent) = 1
      /\ state # "LoggedIn" /\ target_bt \in Devices
  BY DEF SessInv, NewSession, Handshake, HandshakePhases
<1>2. 1 \in 0..(MaxPktId - 1) /\ 1 \in 1..MaxPktId /\ 2 \in 1..MaxPktId
  BY IdAssumption
<1>3. CASE ~(HasCtrl(f, 1) /\ Matches(f) /\ FromTarget(f))
  <2>1. CASE HandshakeFails("Silent", "init", 0)
    BY <1>1, <1>2, <1>3, <2>1, HandshakeEnds DEF CallPhases
  <2>2. CASE UNCHANGED <<pc, ret>>
    BY <1>3, <2>2, SkipKeeps DEF idVars
  <2> QED
    BY <1>3, <2>1, <2>2 DEF L1Skip, L2Skip
<1>4. CASE HasCtrl(f, 1) /\ Matches(f) /\ FromTarget(f)
  <2>1. pcktid' = 2 /\ identity' = target_bt
    BY <1>1, <1>2, <1>4, NextId DEF FromTarget
  <2>2. CASE SendFails /\ UNCHANGED sent
    BY <1>1, <1>2, <2>1, <2>2, HandshakeEnds DEF SendFails
  <2>3. CASE /\ SendThen("settle")
             /\ sent' = Append(sent, Request("logoff", NoDevice, "none", pcktid'))
    <3>1. pc' = "settle" /\ UNCHANGED ret
      BY <2>3 DEF SendThen
    <3>2. sent' \in Seq(Requests) /\ Len(sent') = 2 /\ Ids' /\ WireOrder'
      BY <1>1, <2>1, <2>3, <3>1, BroadcastSent DEF CallPhases
    <3>3. Handshake'
      BY <1>1, <2>1, <3>1, <3>2 DEF Handshake
    <3> QED
      BY <1>1, <1>2, <2>1, <3>1, <3>2, <3>3, HandshakeGoesOn DEF HandshakePhases
  <2> QED
    BY <1>4, <2>2, <2>3 DEF Broadcast
<1> QED
  BY <1>3, <1>4

LEMMA SendLogonKeeps == SessInv /\ SendLogon => SessInv'
<1> SUFFICES ASSUME SessInv, SendLogon PROVE SessInv'
  OBVIOUS
<1> USE DEF SendLogon, connVars, idVars, loopVars
<1>1. /\ ret.op = "none" /\ pcktid = 2 /\ Len(sent) = 2
      /\ state # "LoggedIn" /\ target_bt \in Devices /\ identity = target_bt
  BY DEF SessInv, NewSession, Handshake, HandshakePhases
<1>2. 2 \in 0..(MaxPktId - 1) /\ 3 \in 2..MaxPktId /\ 3 \in 0..MaxPktId
  BY IdAssumption
<1>3. pcktid' = 3
  BY <1>1, <1>2, NextId
<1>4. CASE SendFails /\ UNCHANGED sent
  BY <1>1, <1>2, <1>3, <1>4, HandshakeEnds DEF SendFails
<1>5. CASE /\ SendThen("logon")
           /\ sent' = Append(sent, Request("logon", NoDevice, "none", pcktid'))
  <2>1. pc' = "logon" /\ UNCHANGED ret
    BY <1>5 DEF SendThen
  <2>2. sent' \in Seq(Requests) /\ Len(sent') = 3 /\ Ids' /\ WireOrder'
    BY <1>1, <1>3, <1>5, <2>1, BroadcastSent DEF CallPhases
  <2>3. Handshake'
    BY <1>1, <1>3, <2>1, <2>2 DEF Handshake
  <2> QED
    BY <1>1, <1>2, <1>3, <2>1, <2>2, <2>3, HandshakeGoesOn DEF HandshakePhases
<1> QED
  BY <1>4, <1>5 DEF Broadcast

LEMMA LogonEnds ==
    ASSUME SessInv, ret.op = "none", NEW reject, LogonGivesUp(reject),
           UNCHANGED <<state, transport, pcktid, aggregated, sent, granted>>
    PROVE  SessInv'
<1>1. state' # "LoggedIn" /\ pcktid' \in pcktid..MaxPktId
  BY DEF SessInv, SessTypes, NewSession
<1>2. CASE reject = 0
  BY <1>1, <1>2, HandshakeEnds DEF LogonGivesUp, CallPhases
<1>3. CASE reject # 0
  BY <1>1, <1>3, HandshakeEnds DEF LogonGivesUp
<1> QED
  BY <1>2, <1>3

\* The reply that logs the session on answers the logon: the only request
\* that carries the current id.
LEMMA LogonAccepted ==
    ASSUME SessInv, pc = "logon", NEW f \in Frames, Matches(f),
           state' = "LoggedIn", granted' = <<f.op, f.code>>, f.code = 0,
           Return(Result("logon", "none", "none", 0, NoReq, <<>>)),
           UNCHANGED <<transport, pcktid, idVars, aggregated, sent>>
    PROVE  SessInv'
<1>1. /\ pcktid = 3 /\ Len(sent) = 3 /\ 3 < MaxPktId
      /\ target_bt \in Devices /\ identity = target_bt
  BY IdAssumption DEF SessInv, Handshake
<1>2. /\ pc' = "idle" /\ ret'.op = "logon" /\ ret'.err = "none"
  BY DEF Return, Result
<1>3. granted' = <<"logon", 0>>
  BY ReplyToCurrent DEF SessInv, Ids
<1>4. SessTypes' /\ NewSession' /\ Handshake' /\ LoggedIn'
  BY <1>1, <1>2 DEF SessInv, SessTypes, NewSession, Handshake, LoggedIn,
                    HandshakePhases, CallPhases, idVars
<1>5. Ids' /\ Collected' /\ WireOrder'
  BY <1>1, <1>2 DEF SessInv, Ids, Collected, WireOrder, CallPhases
<1>6. Answers' /\ LogonGranted' /\ ErrorClasses'
  BY <1>2, <1>3 DEF Answers, Answered, LogonGranted, ErrorClasses, Failed
<1>7. IdentityFromTarget'
  BY <1>1, IdAssumption DEF IdentityFromTarget, idVars
<1> QED
  BY <1>4, <1>5, <1>6, <1>7 DEF SessInv

LEMMA RecvLogonKeeps ==
    ASSUME NEW f \in Frames, SessInv, RecvLogon(f) PROVE SessInv'
<1> USE DEF RecvLogon
<1>1. ret.op = "none"
  BY DEF SessInv, NewSession, HandshakePhases
<1>2. CASE HasCtrl(f, 1) /\ Matches(f) /\ f.code = 0
  BY <1>2, LogonAccepted
<1>3. CASE ~(HasCtrl(f, 1) /\ Matches(f) /\ f.code = 0)
  <2>1. UNCHANGED <<state, granted>>
    BY <1>3
  <2>2. CASE \E reject : LogonGivesUp(reject)
    BY <1>1, <2>1, <2>2, LogonEnds
  <2>3. CASE UNCHANGED <<pc, ret>>
    BY <2>1, <2>3, SkipKeeps
  <2> QED
    BY <1>3, <2>2, <2>3 DEF L1Skip, L2Skip
<1> QED
  BY <1>2, <1>3

LEMMA HandshakeRecvErrorKeeps ==
    ASSUME NEW e \in {"Timeout", "Io"}, SessInv, HandshakeRecvError(e) PROVE SessInv'
<1> USE DEF HandshakeRecvError, connVars, loopVars
<1>1. ret.op = "none" /\ state' # "LoggedIn" /\ pcktid' \in pcktid..MaxPktId
  BY DEF SessInv, SessTypes, NewSession
<1>2. CASE pc = "logon"
  BY <1>1, <1>2, LogonEnds
<1>3. CASE pc # "logon"
  <2>1. CASE e = "Timeout"
    BY <1>1, <1>3, <2>1, HandshakeEnds DEF RecvError, HandshakePhases, CallPhases
  <2>2. CASE e = "Io"
    BY <1>1, <1>3, <2>2, HandshakeEnds DEF RecvError
  <2> QED
    BY <2>1, <2>2
<1> QED
  BY <1>2, <1>3

-----------------------------------------------------------------------------
(* Calls. *)

\* A call is refused, or cannot be put on the wire.
LEMMA CallNotSent ==
    ASSUME SessInv, pc = "idle", NEW op \in CallPhases, NEW err, NEW phase, NEW req,
           CallFails(op, err, phase, req),
           err = "Transport" \/ (err = "Protocol" /\ phase = "not-logged-in"),
           pcktid' \in pcktid..MaxPktId, state = "LoggedIn" => pcktid' < MaxPktId,
           aggregated' = <<>>,
           UNCHANGED <<state, transport, idVars, sent, granted>>
    PROVE  SessInv'
<1>1. /\ pc' = "idle" /\ ret'.op = op /\ ret'.err = err /\ ret'.phase = phase
      /\ err \notin {"none", "pending"} /\ op # "none"
  BY DEF CallFails, Return, Result, CallPhases
<1>2. SessTypes' /\ NewSession' /\ Handshake' /\ LoggedIn'
  BY <1>1 DEF SessInv, SessTypes, NewSession, Handshake, LoggedIn,
              HandshakePhases, CallPhases, idVars
<1>3. Ids' /\ Collected' /\ WireOrder'
  BY <1>1 DEF SessInv, SessTypes, Ids, Collected, WireOrder, CallPhases
<1>4. ErrorClasses'
  BY <1>1 DEF ErrorClasses, Failed, is_session_fatal, CallPhases
<1>5. Answers' /\ IdentityFromTarget' /\ LogonGranted'
  BY <1>1 DEF SessInv, Answers, Answered, IdentityFromTarget, LogonGranted, idVars
<1> QED
  BY <1>2, <1>3, <1>4, <1>5 DEF SessInv

\* A call's request goes out, with an id no request before it carries.
LEMMA CallSent ==
    ASSUME SessInv, pc = "idle", state = "LoggedIn",
           NEW op \in CallPhases, NEW d \in Devices, NEW k \in Kinds,
           pcktid' = pcktid + 1, pcktid + 1 < MaxPktId,
           sent' = Append(sent, Request(op, d, k, pcktid')),
           pc' = op, ret' = Result(op, "pending", "none", 0, <<d, k>>, <<>>),
           aggregated' = <<>>,
           UNCHANGED <<state, transport, idVars, granted>>
    PROVE  SessInv'
<1> DEFINE n == Len(sent)
           r == Request(op, d, k, pcktid + 1)
<1>1. /\ ret'.op = op /\ ret'.err = "pending" /\ ret'.req = <<d, k>>
      /\ op \notin {"none", "logon"}
  BY DEF Result, CallPhases
<1>2. pcktid \in 0..MaxPktId /\ sent \in Seq(Requests) /\ MaxPktId \in Nat
  BY IdAssumption DEF SessInv, SessTypes
<1>3. r \in Requests /\ r.op = op /\ r.id = pcktid + 1 /\ r.dev = d /\ r.kind = k
  BY <1>2 DEF Request, Requests, CallPhases
<1>4. sent' = Append(sent, r)
  OBVIOUS
<1> HIDE DEF r
<1>5. /\ sent' \in Seq(Requests) /\ n \in Nat /\ Len(sent') = n + 1
      /\ \A i \in 1..n : sent'[i] = sent[i]
      /\ sent'[n + 1] = r
  BY <1>2, <1>3, <1>4, SentGrows
<1>6. n >= 3 /\ target_bt \in Devices
  BY DEF SessInv, LoggedIn
<1> HIDE DEF n
<1>7. SessTypes' /\ NewSession' /\ Handshake'
  BY <1>1, <1>2, <1>5 DEF SessInv, SessTypes, NewSession, Handshake,
                          HandshakePhases, CallPhases
<1>8. LoggedIn'
  <2>1. <<d, k>> \in Devices \X Kinds /\ Len(sent') >= 3 /\ target_bt' \in Devices
    BY <1>5, <1>6 DEF idVars
  <2> QED
    BY <1>1, <2>1 DEF LoggedIn, CallPhases
<1>9. Ids'
  <2> SUFFICES ASSUME NEW i \in 1..(n + 1)
               PROVE  /\ sent'[i].id \in 1..(pcktid + 1)
                      /\ sent'[i].id = pcktid + 1 =>
                           /\ pc' = "logon" => sent'[i].op = "logon"
                           /\ sent'[i].op = op /\ <<sent'[i].dev, sent'[i].kind>> = <<d, k>>
    BY <1>1, <1>5 DEF Ids
  <2>1. CASE i = n + 1
    BY <2>1, <1>1, <1>2, <1>3, <1>5
  <2>2. CASE i \in 1..n
    BY <2>2, <1>2, <1>5 DEF SessInv, Ids, n
  <2> QED
    BY <2>1, <2>2, <1>5
<1>10. WireOrder'
  <2> SUFFICES ASSUME NEW i \in 1..(n + 1)
               PROVE  IF i <= 3 THEN sent'[i].op = <<"init", "logoff", "logon">>[i]
                                ELSE sent'[i].op \in {"query", "event-log"}
    BY <1>5 DEF WireOrder
  <2>1. CASE i = n + 1
    BY <2>1, <1>3, <1>5, <1>6 DEF CallPhases
  <2>2. CASE i \in 1..n
    BY <2>2, <1>5 DEF SessInv, WireOrder, n
  <2> QED
    BY <2>1, <2>2, <1>5
<1>11. Collected' /\ Answers' /\ ErrorClasses'
  BY <1>1 DEF Collected, Answers, Answered, ErrorClasses, Failed
<1>12. IdentityFromTarget' /\ LogonGranted'
  BY DEF SessInv, IdentityFromTarget, LogonGranted, idVars
<1> QED
  BY <1>7, <1>8, <1>9, <1>10, <1>11, <1>12 DEF SessInv

LEMMA AskKeeps ==
    ASSUME NEW op \in CallPhases, NEW d \in Devices, NEW k \in Kinds,
           SessInv, Ask(op, d, k)
    PROVE  SessInv'
<1> USE DEF Ask, connVars
<1>1. /\ pcktid \in 0..MaxPktId /\ MaxPktId \in Nat
      /\ pcktid \in 0..(MaxPktId - 1) /\ pcktid + 1 < MaxPktId
  BY IdAssumption DEF SessInv, SessTypes
<1>2. CASE ~MayAsk
  BY <1>1, <1>2, CallNotSent DEF MayAsk
<1>3. CASE MayAsk
  <2>1. pcktid' = pcktid + 1 /\ state = "LoggedIn" /\ pcktid' \in pcktid..MaxPktId
    BY <1>1, <1>3, NextId DEF MayAsk
  <2>2. CASE CallFails(op, "Transport", "none", <<d, k>>) /\ UNCHANGED sent
    BY <1>1, <2>1, <2>2, CallNotSent
  <2>3. CASE pc' = op
    BY <1>1, <1>3, <2>1, <2>3, CallSent DEF CallFails, Return, CallPhases
  <2> QED
    BY <1>3, <2>2, <2>3
<1> QED
  BY <1>2, <1>3

\* The frame that is taken for the reply of a call brings what was asked for.
LEMMA ReplyOfCall ==
    ASSUME SessInv, pc \in CallPhases, NEW f \in Frames, Matches(f)
    PROVE  <<f.src, f.kind>> = ret.req /\ ret.req \in Devices \X Kinds
<1>1. PICK i \in 1..Len(sent) :
            /\ sent[i].id = pcktid /\ f.kind = sent[i].kind
            /\ sent[i].dev \in Devices => f.src = sent[i].dev
  BY ReplyToCurrent
<1>2. <<sent[i].dev, sent[i].kind>> = ret.req /\ ret.req \in Devices \X Kinds
  BY <1>1 DEF SessInv, Ids, LoggedIn
<1> QED
  BY <1>1, <1>2

LEMMA RecvQueryKeeps ==
    ASSUME NEW f \in Frames, SessInv, RecvQuery(f) PROVE SessInv'
<1> USE DEF RecvQuery, connVars
<1>1. pc = "query" /\ pc \in CallPhases /\ aggregated' \in Seq(Devices \X Kinds)
  BY DEF CallPhases, SessInv, SessTypes
<1>2. CASE ~Matches(f)
  <2>1. CASE GivesUp
    BY <1>1, <1>2, <2>1, CallEnds DEF CallError, GivesUp, CallFails
  <2>2. CASE UNCHANGED <<pc, ret>>
    BY <2>2, SkipKeeps
  <2> QED
    BY <1>2, <2>1, <2>2 DEF L2Skip
<1>3. CASE Matches(f)
  <2> DEFINE body == <<<<f.src, f.kind>>>>
  <2>1. Len(body) = 1 /\ \A i \in 1..Len(body) : body[i] = ret.req
    BY <1>1, <1>3, ReplyOfCall
  <2>2. Return(Result(pc, "none", "none", f.code, ret.req, body))
    BY <1>1, <1>3
  <2>3. UNCHANGED <<state, transport, pcktid, idVars, sent, granted>>
    OBVIOUS
  <2> HIDE DEF body, RecvQuery
  <2>4. Len(body) \in Nat \ {0}
    BY <2>1
  <2> QED
    BY <1>1, <2>1, <2>2, <2>3, <2>4, CallEnds
<1> QED
  BY <1>2, <1>3

LEMMA RecvFragmentKeeps ==
    ASSUME NEW f \in Frames, SessInv, RecvFragment(f) PROVE SessInv'
<1> USE DEF RecvFragment, connVars
<1>1. pc = "event-log" /\ pc \in CallPhases /\ aggregated \in Seq(Devices \X Kinds)
  BY DEF CallPhases, SessInv, SessTypes
<1>2. CASE ~Matches(f)
  <2>1. CASE GivesUp
    BY <1>1, <1>2, <2>1, CallEnds DEF CallError, GivesUp, CallFails
  <2>2. CASE UNCHANGED <<pc, ret>>
    BY <1>2, <2>2, SkipKeeps
  <2> QED
    BY <1>2, <2>1, <2>2 DEF L2Skip
<1>3. CASE Matches(f) /\ f.code # 0
  BY <1>1, <1>3, CallEnds DEF CallError, CallFails
<1>4. CASE Matches(f) /\ f.code = 0
  <2> DEFINE r == <<f.src, f.kind>>
  <2>1. r = ret.req /\ r \in Devices \X Kinds
    BY <1>1, <1>4, ReplyOfCall
  <2>2. aggregated' = Append(aggregated, r)
    BY <1>4
  <2> HIDE DEF r
  <2>3. /\ aggregated' \in Seq(Devices \X Kinds)
        /\ Len(aggregated) \in Nat /\ Len(aggregated') = Len(aggregated) + 1
        /\ \A j \in 1..Len(aggregated) : aggregated'[j] = aggregated[j]
        /\ aggregated'[Len(aggregated) + 1] = r
    BY <1>1, <2>1, <2>2, AppendProperties, LenProperties
  <2>4. \A j \in 1..Len(aggregated') : aggregated'[j] = ret.req
    BY <1>1, <2>1, <2>3 DEF SessInv, Collected
  <2>5. CASE UNCHANGED <<pc, ret>>
    <3>1. SessTypes' /\ NewSession' /\ Handshake' /\ LoggedIn'
      BY <1>1, <2>3, <2>5 DEF SessInv, SessTypes, NewSession, Handshake, LoggedIn, idVars
    <3>2. Ids' /\ Collected' /\ WireOrder'
      BY <1>1, <2>4, <2>5 DEF SessInv, Ids, Collected, WireOrder
    <3>3. Answers' /\ IdentityFromTarget' /\ LogonGranted' /\ ErrorClasses'
      BY <2>5 DEF SessInv, Answers, Answered, NoCrossTalk, IdentityFromTarget,
                  LogonGranted, ErrorClasses, idVars
    <3> QED
      BY <3>1, <3>2, <3>3 DEF SessInv
  <2>6. CASE Return(Result(pc, "none", "none", 0, ret.req, aggregated'))
    BY <1>1, <2>3, <2>4, <2>6, CallEnds
  <2> QED
    BY <1>1, <1>4, <2>5, <2>6
<1> QED
  BY <1>2, <1>3, <1>4

LEMMA CallRecvErrorKeeps ==
    ASSUME NEW e \in {"Timeout", "Io"}, SessInv, CallRecvError(e) PROVE SessInv'
<1> USE DEF CallRecvError, connVars, loopVars
<1>1. pc \in CallPhases /\ aggregated' \in Seq(Devices \X Kinds)
  BY DEF CallPhases, SessInv, SessTypes
<1>2. RecvError(e) \notin {"none", "pending"}
  BY DEF RecvError
<1>3. CallError(RecvError(e), IF e = "Timeout" THEN pc ELSE "none")
  BY DEF RecvError, CallError
<1> QED
  BY <1>1, <1>2, <1>3, CallEnds DEF CallFails

-----------------------------------------------------------------------------
(* Closing. *)

\* A closed session has sent what it had sent, and perhaps a logoff.
LEMMA CloseEnds ==
    ASSUME SessInv, pc = "idle", state' = "Disconnected", transport' = "closed",
           pcktid' \in pcktid..MaxPktId, sent' \in Seq(Requests),
           ret.op = "none" => UNCHANGED <<pcktid, sent>>,
           \A i \in 1..Len(sent') : sent'[i].id \in 1..pcktid',
           WireOrder',
           UNCHANGED <<pc, idVars, aggregated, granted, ret>>
    PROVE  SessInv'
<1>1. SessTypes' /\ NewSession' /\ Handshake' /\ LoggedIn'
  BY DEF SessInv, SessTypes, NewSession, Handshake, LoggedIn, HandshakePhases, CallPhases
<1>2. Ids' /\ Collected'
  BY DEF Ids, Collected, CallPhases
<1>3. Answers' /\ IdentityFromTarget' /\ LogonGranted' /\ ErrorClasses'
  BY DEF SessInv, Answers, Answered, NoCrossTalk, IdentityFromTarget, LogonGranted,
         ErrorClasses, is_session_fatal
<1> QED
  BY <1>1, <1>2, <1>3 DEF SessInv

LEMMA SentIds ==
    ASSUME SessInv
    PROVE  /\ pcktid \in 0..MaxPktId /\ MaxPktId \in Nat /\ sent \in Seq(Requests)
           /\ Len(sent) \in Nat
           /\ \A i \in 1..Len(sent) : sent[i].id \in 1..pcktid
BY IdAssumption, LenProperties DEF SessInv, SessTypes, Ids

LEMMA CloseKeeps == SessInv /\ close => SessInv'
<1> SUFFICES ASSUME SessInv, close PROVE SessInv'
  OBVIOUS
<1> USE DEF close, loopVars
<1>1. WireOrder'
  BY DEF SessInv, WireOrder
<1> QED
  BY <1>1, SentIds, CloseEnds

LEMMA GracefulCloseKeeps == SessInv /\ graceful_close => SessInv'
<1> SUFFICES ASSUME SessInv, graceful_close PROVE SessInv'
  OBVIOUS
<1> USE DEF graceful_close, loopVars
<1>1. CASE UNCHANGED sent
  <2>1. WireOrder'
    BY <1>1 DEF SessInv, WireOrder
  <2>2. CASE state = "LoggedIn"
    <3>1. pcktid' = pcktid + 1 /\ pcktid < MaxPktId /\ ret.op # "none"
      BY <2>2, SentIds, NextId DEF SessInv, LoggedIn, NewSession
    <3> QED
      BY <1>1, <2>1, <3>1, SentIds, CloseEnds
  <2>3. CASE state # "LoggedIn"
    BY <1>1, <2>1, <2>3, SentIds, CloseEnds
  <2> QED
    BY <2>2, <2>3
<1>2. CASE /\ state = "LoggedIn" /\ pcktid' = next_pcktid(pcktid)
           /\ sent' = Append(sent, Request("logoff", NoDevice, "none", pcktid'))
  <2> DEFINE n == Len(sent)
             r == Request("logoff", NoDevice, "none", pcktid + 1)
  <2>1. /\ pcktid < MaxPktId /\ ret.op # "none" /\ n >= 3
    BY <1>2 DEF SessInv, LoggedIn, NewSession
  <2>2. pcktid' = pcktid + 1
    BY <1>2, <2>1, SentIds, NextId
  <2>3. r \in Requests /\ r.op = "logoff" /\ r.id = pcktid + 1
    BY SentIds DEF Request, Requests
  <2>4. sent' = Append(sent, r)
    BY <1>2, <2>2
  <2> HIDE DEF r
  <2>5. /\ sent' \in Seq(Requests) /\ n \in Nat /\ Len(sent') = n + 1
        /\ \A i \in 1..n : sent'[i] = sent[i]
        /\ sent'[n + 1] = r
    BY <2>3, <2>4, SentIds, SentGrows
  <2> HIDE DEF n
  <2>6. \A i \in 1..Len(sent') : sent'[i].id \in 1..pcktid'
    <3> SUFFICES ASSUME NEW i \in 1..(n + 1) PROVE sent'[i].id \in 1..(pcktid + 1)
      BY <2>2, <2>5
    <3>1. CASE i = n + 1
      BY <3>1, <2>3, <2>5, SentIds
    <3>2. CASE i \in 1..n
      BY <3>2, <2>5, SentIds DEF n
    <3> QED
      BY <3>1, <3>2, <2>5
  <2>7. WireOrder'
    <3> SUFFICES ASSUME NEW i \in 1..(n + 1)
                 PROVE  IF i <= 3 THEN sent'[i].op = <<"init", "logoff", "logon">>[i]
                        ELSE \/ sent'[i].op \in {"query", "event-log"}
                             \/ sent'[i].op = "logoff" /\ i = n + 1
      BY <2>5 DEF WireOrder
    <3>1. CASE i = n + 1
      BY <3>1, <2>1, <2>3, <2>5 DEF n
    <3>2. CASE i \in 1..n
      BY <3>2, <1>2, <2>5 DEF SessInv, WireOrder, n
    <3> QED
      BY <3>1, <3>2, <2>5
  <2> QED
    BY <2>1, <2>2, <2>5, <2>6, <2>7, SentIds, CloseEnds
<1> QED
  BY <1>1, <1>2

-----------------------------------------------------------------------------
(* The specification. *)

LEMMA SessNext == SessInv /\ [Next]_vars => SessInv'
<1> SUFFICES ASSUME SessInv, [Next]_vars PROVE SessInv'
  OBVIOUS
<1>1. ASSUME NEW f \in Frames, RecvHello(f) PROVE SessInv'
  BY <1>1, RecvHelloKeeps
<1>2. ASSUME NEW f \in Frames, RecvTopology(f) PROVE SessInv'
  BY <1>2, RecvTopologyKeeps
<1>3. ASSUME NEW f \in Frames, RecvInit(f) PROVE SessInv'
  BY <1>3, RecvInitKeeps
<1>4. ASSUME NEW f \in Frames, RecvLogon(f) PROVE SessInv'
  BY <1>4, RecvLogonKeeps
<1>5. ASSUME NEW f \in Frames, RecvQuery(f) PROVE SessInv'
  BY <1>5, RecvQueryKeeps
<1>6. ASSUME NEW f \in Frames, RecvFragment(f) PROVE SessInv'
  BY <1>6, RecvFragmentKeeps
<1>7. ASSUME NEW e \in {"Timeout", "Io"}, HandshakeRecvError(e) PROVE SessInv'
  BY <1>7, HandshakeRecvErrorKeeps
<1>8. ASSUME NEW e \in {"Timeout", "Io"}, CallRecvError(e) PROVE SessInv'
  BY <1>8, CallRecvErrorKeeps
<1>9. ASSUME NEW d \in Devices, query_event_log_for_device(d) PROVE SessInv'
  BY <1>9, AskKeeps DEF query_event_log_for_device, CallPhases, Kinds
<1>10. ASSUME NEW d \in Devices, NEW k \in QueryKinds, query_for_device(d, k) PROVE SessInv'
  BY <1>10, AskKeeps DEF query_for_device, CallPhases, Kinds
<1>11. CASE TransportDies
  BY <1>11, SkipKeeps DEF TransportDies, loopVars
<1>12. CASE UNCHANGED vars
  BY <1>12, SkipKeeps DEF vars, connVars, loopVars
<1> QED
  BY <1>1, <1>2, <1>3, <1>4, <1>5, <1>6, <1>7, <1>8, <1>9, <1>10, <1>11, <1>12,
     SendLogonKeeps, HandshakeStartKeeps, CloseKeeps, GracefulCloseKeeps
     DEF Next, Receive, Caller

LEMMA SessInvariant == Spec => []SessInv
BY SessInit, SessNext, PTL DEF Spec

\* An answer is the data of the device and the kind that were asked for: the
\* packet id alone tells the reply of this call from the late replies of
\* calls given up before, as no two requests of a session share an id.
THEOREM NoMixUp == Spec => []NoCrossTalk
<1>1. SessInv => NoCrossTalk
  BY DEF SessInv, Answers, NoCrossTalk
<1> QED
  BY <1>1, SessInvariant, PTL

\* A logged-in session has the identity of the device that said hello.
THEOREM OwnIdentity == Spec => []IdentityFromTarget
<1>1. SessInv => IdentityFromTarget
  BY DEF SessInv
<1> QED
  BY <1>1, SessInvariant, PTL

\* Only an accepting reply to the logon itself makes a session LoggedIn.
THEOREM OnlyLogonGrants == Spec => []LogonGranted
<1>1. SessInv => LogonGranted
  BY DEF SessInv
<1> QED
  BY <1>1, SessInvariant, PTL

\* The requests go on the wire in the protocol's order, whichever receives
\* and sends fail, and nothing follows the closing logoff.
THEOREM ProtocolOrder == Spec => []WireOrder
<1>1. SessInv => WireOrder
  BY DEF SessInv
<1> QED
  BY <1>1, SessInvariant, PTL

\* is_session_fatal is true of every error of the handshake, and of a failed
\* call exactly when it failed otherwise than by silence: on a broken link,
\* before the logon, or by a refused event log.  An error that is not fatal
\* leaves the session logged in until the caller closes it.
THEOREM FatalOrRetry == Spec => []ErrorClasses
<1>1. SessInv => ErrorClasses
  BY DEF SessInv
<1> QED
  BY <1>1, SessInvariant, PTL

-----------------------------------------------------------------------------
(* The contract: each step of the session is a step of SessionContract, or *)
(* changes nothing of what the caller sees.                                *)

ContractStep == [Contract!Next]_(Contract!cvars)

LEMMA ContractInit == Init => Contract!Init
BY DEF Init, Contract!Init, Contract!Pending, Contract!Outcome, mode, got, Result, NoReq,
       HandshakePhases

\* Within the handshake, and within a call, the caller sees nothing.
LEMMA Unseen ==
    ASSUME UNCHANGED ret,
           \/ UNCHANGED <<pc, state>> /\ (transport' = "closed" <=> transport = "closed")
           \/ pc \in HandshakePhases /\ pc' \in HandshakePhases
    PROVE  ContractStep
<1>1. mode' = mode
  BY DEF mode
<1>2. got' = got /\ ret'.req = ret.req
  BY DEF got, is_session_fatal
<1> QED
  BY <1>1, <1>2 DEF ContractStep, Contract!cvars

\* What the caller sees before and during the logon.
LEMMA Logging ==
    ASSUME SessInv, ret.op = "none"
    PROVE  /\ got = [what |-> "pending", data |-> {}] /\ ret.req = NoReq
           /\ pc \in HandshakePhases => mode = "logging_on"
           /\ pc = "idle" /\ transport # "closed" => mode = "new"
BY DEF SessInv, NewSession, HandshakePhases, mode, got

LEMMA SeenLogOnFailed ==
    ASSUME SessInv, ret.op = "none",
           pc \in HandshakePhases \/ (pc = "idle" /\ transport # "closed"),
           NEW err, NEW phase, NEW code,
           HandshakeFails(err, phase, code), SessInv',
           err \notin {"none", "pending"}, state' # "LoggedIn"
    PROVE  ContractStep
<1>1. /\ pc' = "idle" /\ ret'.op = "logon" /\ ret'.err = err
      /\ ret'.req = NoReq
  BY DEF HandshakeFails, Return, Result
<1>2. is_session_fatal(ret')
  BY <1>1 DEF SessInv, ErrorClasses, Failed, is_session_fatal
<1>3. mode' = "over"
  BY <1>1 DEF mode, HandshakePhases
<1>4. got' = [what |-> "fatal", data |-> {}]
  BY <1>1, <1>2 DEF got, is_session_fatal
<1>5. mode \in {"new", "logging_on"} /\ ret.req = NoReq
  BY Logging
<1> QED
  BY <1>1, <1>3, <1>4, <1>5 DEF ContractStep, Contract!Next, Contract!LogOnFailed,
                                Contract!Outcome

LEMMA SeenAsk ==
    ASSUME SessInv, pc = "idle", state = "LoggedIn",
           NEW op \in CallPhases, NEW d \in Devices, NEW k \in Kinds,
           pc' = op, ret' = Result(op, "pending", "none", 0, <<d, k>>, <<>>)
    PROVE  ContractStep
<1>1. ret'.err = "pending" /\ ret'.req = <<d, k>>
  BY DEF Result
<1>2. mode = "ready" /\ mode' = "asking"
  BY DEF mode, HandshakePhases, CallPhases
<1>3. got' = [what |-> "pending", data |-> {}]
  BY <1>1 DEF got
<1> QED
  BY <1>1, <1>2, <1>3 DEF ContractStep, Contract!Next, Contract!Ask, Contract!Calls,
                          Contract!Pending, Contract!Outcome

LEMMA SeenRefuse ==
    ASSUME SessInv, pc = "idle", NEW op \in CallPhases,
           NEW d \in Devices, NEW k \in Kinds, NEW err, NEW phase,
           CallFails(op, err, phase, <<d, k>>),
           err = "Transport" \/ (err = "Protocol" /\ phase = "not-logged-in"),
           UNCHANGED state
    PROVE  ContractStep
<1>1. /\ pc' = "idle" /\ ret'.op = op /\ ret'.err = err /\ ret'.phase = phase
      /\ ret'.req = <<d, k>> /\ op \notin {"none", "logon"}
  BY DEF CallFails, Return, Result, CallPhases
<1>2. /\ mode \in {"new", "ready", "over"}
      /\ mode' = IF mode = "ready" THEN "ready" ELSE "over"
  BY <1>1 DEF mode, HandshakePhases
<1>3. got' = [what |-> "fatal", data |-> {}]
  BY <1>1 DEF got, is_session_fatal
<1> QED
  BY <1>1, <1>2, <1>3 DEF ContractStep, Contract!Next, Contract!Refuse, Contract!Calls,
                          Contract!Outcome

\* A call comes back: by the invariant, with the data asked for and no other.
LEMMA SeenReturn ==
    ASSUME SessInv, SessInv', pc \in CallPhases,
           NEW err, NEW phase, NEW code, NEW body,
           Return(Result(pc, err, phase, code, ret.req, body)), err # "pending",
           UNCHANGED state
    PROVE  ContractStep
<1>1. /\ pc' = "idle" /\ ret'.op = pc /\ ret'.err = err /\ ret'.req = ret.req
      /\ ret'.body = body
  BY DEF Return, Result
<1>2. pc \notin {"idle", "none", "logon"} /\ pc \notin HandshakePhases
      /\ state = "LoggedIn"
  BY DEF SessInv, LoggedIn, CallPhases, HandshakePhases
<1>3. mode = "asking" /\ mode' = "ready"
  BY <1>1, <1>2 DEF mode, HandshakePhases
<1>4. CASE err = "none"
  <2>1. Len(body) \in Nat \ {0} /\ \A i \in 1..Len(body) : body[i] = ret.req
    BY <1>1, <1>4 DEF SessInv, Answers, Answered, NoCrossTalk, CallPhases
  <2>2. {body[i] : i \in 1..Len(body)} = {ret.req}
    BY <2>1
  <2>3. got' = [what |-> "ok", data |-> {ret.req}]
    BY <1>1, <1>2, <1>4, <2>2 DEF got
  <2> QED
    BY <1>1, <1>3, <2>3 DEF ContractStep, Contract!Next, Contract!Answer, Contract!Outcome
<1>5. CASE err # "none"
  <2>1. \/ got' = [what |-> "fatal", data |-> {}]
        \/ got' = [what |-> "miss", data |-> {}]
    BY <1>1, <1>2, <1>5 DEF got, is_session_fatal
  <2> QED
    BY <1>1, <1>3, <2>1 DEF ContractStep, Contract!Next, Contract!Fail, Contract!Failures,
                            Contract!Outcome
<1> QED
  BY <1>4, <1>5

LEMMA SeenClose ==
    ASSUME SessInv, pc = "idle", state' = "Disconnected", transport' = "closed",
           UNCHANGED <<pc, ret>>
    PROVE  ContractStep
<1>1. mode \in {"new", "ready", "over"} /\ mode' = "over"
  BY DEF mode, HandshakePhases
<1>2. got' = got /\ ret'.req = ret.req
  BY DEF got, is_session_fatal
<1> QED
  BY <1>1, <1>2 DEF ContractStep, Contract!Next, Contract!Close

LEMMA SeenLogonGivesUp ==
    ASSUME SessInv, SessInv', pc \in HandshakePhases, NEW reject, LogonGivesUp(reject),
           UNCHANGED state
    PROVE  ContractStep
<1>1. ret.op = "none" /\ state' # "LoggedIn"
  BY DEF SessInv, NewSession
<1>2. CASE reject = 0
  BY <1>1, <1>2, SeenLogOnFailed DEF LogonGivesUp
<1>3. CASE reject # 0
  BY <1>1, <1>3, SeenLogOnFailed DEF LogonGivesUp
<1> QED
  BY <1>2, <1>3

LEMMA SeenHandshake ==
    ASSUME SessInv, SessInv',
           \/ HandshakeStart
           \/ \E f \in Frames :
                 RecvHello(f) \/ RecvTopology(f) \/ RecvInit(f) \/ RecvLogon(f)
           \/ \E e \in {"Timeout", "Io"} : HandshakeRecvError(e)
           \/ SendLogon
    PROVE  ContractStep
<1>1. pc \in HandshakePhases => ret.op = "none" /\ state # "LoggedIn"
  BY DEF SessInv, NewSession
<1>2. CASE HandshakeStart
  <2>1. CASE SendFails
    BY <1>2, <2>1, SeenLogOnFailed DEF HandshakeStart, SendFails
  <2>2. CASE SendThen("hello")
    <3>1. mode = "new" /\ mode' = "logging_on"
      BY <1>2, <2>2, Logging DEF HandshakeStart, SendThen, mode, HandshakePhases
    <3>2. got' = got /\ ret'.req = ret.req
      BY <2>2 DEF SendThen, got, is_session_fatal
    <3> QED
      BY <3>1, <3>2 DEF ContractStep, Contract!Next, Contract!LogOn
  <2> QED
    BY <1>2, <2>1, <2>2 DEF HandshakeStart
<1>3. CASE \E f \in Frames : RecvHello(f)
  <2>1. PICK f \in Frames : RecvHello(f)
    BY <1>3
  <2>2. pc \in HandshakePhases /\ UNCHANGED state
    BY <2>1 DEF RecvHello, connVars, HandshakePhases
  <2>3. CASE UNCHANGED ret /\ pc' = "topology"
    BY <2>2, <2>3, Unseen DEF HandshakePhases
  <2>4. CASE \E err \in {"Parse", "Protocol", "FirmwareTooOld", "Transport"} :
                \E phase, code : HandshakeFails(err, phase, code)
    BY <1>1, <2>2, <2>4, SeenLogOnFailed
  <2> QED
    BY <2>1, <2>3, <2>4 DEF RecvHello, SendThen, SendFails
<1>4. CASE \E f \in Frames : RecvTopology(f) \/ RecvInit(f)
  <2>1. PICK f \in Frames : RecvTopology(f) \/ RecvInit(f)
    BY <1>4
  <2>2. pc \in HandshakePhases /\ state' # "LoggedIn"
    BY <1>1, <2>1 DEF RecvTopology, RecvInit, connVars, HandshakePhases
  <2>3. CASE UNCHANGED ret /\ pc' \in HandshakePhases
    BY <2>2, <2>3, Unseen
  <2>4. CASE \E err \in {"Silent", "Transport"} :
                \E phase, code : HandshakeFails(err, phase, code)
    BY <1>1, <2>2, <2>4, SeenLogOnFailed
  <2> QED
    BY <2>1, <2>2, <2>3, <2>4
       DEF RecvTopology, RecvInit, L1Skip, L2Skip, Broadcast, SendThen, SendFails,
           HandshakePhases
<1>5. CASE \E f \in Frames : RecvLogon(f)
  <2>1. PICK f \in Frames : RecvLogon(f)
    BY <1>5
  <2>2. pc = "logon" /\ pc \in HandshakePhases
    BY <2>1 DEF RecvLogon, HandshakePhases
  <2>3. CASE UNCHANGED <<ret, pc>>
    BY <2>2, <2>3, Unseen
  <2>4. CASE UNCHANGED state /\ \E reject : LogonGivesUp(reject)
    BY <2>2, <2>4, SeenLogonGivesUp
  <2>5. CASE state' = "LoggedIn" /\ Return(Result("logon", "none", "none", 0, NoReq, <<>>))
    <3>1. pc' = "idle" /\ ret'.op = "logon" /\ ret'.err = "none" /\ ret'.req = NoReq
      BY <2>5 DEF Return, Result
    <3>2. mode' = "ready" /\ got' = [what |-> "pending", data |-> {}]
      BY <2>5, <3>1 DEF mode, got, HandshakePhases
    <3> QED
      BY <1>1, <2>2, <3>1, <3>2, Logging DEF ContractStep, Contract!Next, Contract!LoggedOn
  <2> QED
    BY <2>1, <2>3, <2>4, <2>5 DEF RecvLogon, L1Skip, L2Skip
<1>6. CASE \E e \in {"Timeout", "Io"} : HandshakeRecvError(e)
  <2>1. PICK e \in {"Timeout", "Io"} : HandshakeRecvError(e)
    BY <1>6
  <2>2. pc \in HandshakePhases /\ UNCHANGED state
    BY <2>1 DEF HandshakeRecvError, connVars
  <2>3. CASE LogonGivesUp(last_reject)
    BY <2>2, <2>3, SeenLogonGivesUp
  <2>4. CASE \E phase : HandshakeFails(RecvError(e), phase, 0)
    BY <1>1, <2>2, <2>4, SeenLogOnFailed DEF RecvError
  <2> QED
    BY <2>1, <2>3, <2>4 DEF HandshakeRecvError
<1>7. CASE SendLogon
  <2>1. pc \in HandshakePhases /\ UNCHANGED state
    BY <1>7 DEF SendLogon, connVars, HandshakePhases
  <2>2. CASE SendFails
    BY <1>1, <2>1, <2>2, SeenLogOnFailed DEF SendFails
  <2>3. CASE UNCHANGED ret /\ pc' \in HandshakePhases
    BY <2>1, <2>3, Unseen
  <2> QED
    BY <1>7, <2>2, <2>3 DEF SendLogon, Broadcast, SendThen, HandshakePhases
<1> QED
  BY <1>2, <1>3, <1>4, <1>5, <1>6, <1>7

LEMMA SeenCall ==
    ASSUME SessInv, SessInv',
           \/ \E d \in Devices : query_event_log_for_device(d)
                                 \/ \E k \in QueryKinds : query_for_device(d, k)
           \/ \E f \in Frames : RecvQuery(f) \/ RecvFragment(f)
           \/ \E e \in {"Timeout", "Io"} : CallRecvError(e)
    PROVE  ContractStep
<1>1. ASSUME NEW op \in CallPhases, NEW d \in Devices, NEW k \in Kinds, Ask(op, d, k)
      PROVE  ContractStep
  <2>1. pc = "idle" /\ UNCHANGED state
    BY <1>1 DEF Ask, connVars
  <2>2. CASE CallFails(op, "Protocol", "not-logged-in", <<d, k>>)
    BY <2>1, <2>2, SeenRefuse
  <2>3. CASE CallFails(op, "Transport", "none", <<d, k>>)
    BY <2>1, <2>3, SeenRefuse
  <2>4. CASE /\ MayAsk /\ pc' = op
             /\ ret' = Result(op, "pending", "none", 0, <<d, k>>, <<>>)
    BY <2>1, <2>4, SeenAsk DEF MayAsk
  <2> QED
    BY <1>1, <2>2, <2>3, <2>4 DEF Ask
<1>2. ASSUME NEW f \in Frames, RecvQuery(f) \/ RecvFragment(f)
      PROVE  ContractStep
  <2>1. pc \in CallPhases /\ UNCHANGED <<state, transport>>
    BY <1>2 DEF RecvQuery, RecvFragment, CallPhases, connVars
  <2>2. CASE UNCHANGED <<pc, ret>>
    BY <2>1, <2>2, Unseen
  <2>3. CASE \E err \in {"none", "Silent", "Protocol"} : \E phase, code, body :
                Return(Result(pc, err, phase, code, ret.req, body))
    BY <2>1, <2>3, SeenReturn
  <2> QED
    BY <1>2, <2>2, <2>3 DEF RecvQuery, RecvFragment, L2Skip, GivesUp, CallFails
<1>3. ASSUME NEW e \in {"Timeout", "Io"}, CallRecvError(e)
      PROVE  ContractStep
  <2>1. pc \in CallPhases /\ UNCHANGED state
    BY <1>3 DEF CallRecvError, CallPhases, connVars
  <2>2. \E phase : Return(Result(pc, RecvError(e), phase, 0, ret.req, <<>>))
    BY <1>3 DEF CallRecvError, CallFails
  <2> QED
    BY <2>1, <2>2, SeenReturn DEF RecvError
<1>4. ASSUME NEW d \in Devices, query_event_log_for_device(d) PROVE ContractStep
  BY <1>4, <1>1 DEF query_event_log_for_device, CallPhases, Kinds
<1>5. ASSUME NEW d \in Devices, NEW k \in QueryKinds, query_for_device(d, k)
      PROVE  ContractStep
  BY <1>5, <1>1 DEF query_for_device, CallPhases, Kinds
<1> QED
  BY <1>2, <1>3, <1>4, <1>5

LEMMA ContractNext == SessInv /\ SessInv' /\ [Next]_vars => ContractStep
<1> SUFFICES ASSUME SessInv, SessInv', [Next]_vars PROVE ContractStep
  OBVIOUS
<1>1. CASE TransportDies
  BY <1>1, Unseen DEF TransportDies
<1>2. CASE UNCHANGED vars
  BY <1>2, Unseen DEF vars, connVars
<1>3. CASE close \/ graceful_close
  BY <1>3, SeenClose DEF close, graceful_close
<1> QED
  BY <1>1, <1>2, <1>3, SeenHandshake, SeenCall DEF Next, Receive, Caller

\* The session keeps its contract with run_inverter: behind the frames,
\* retries and timeouts the caller sees a session that is logged on at most
\* once and answers each call with the data asked for or with one error.
THEOREM KeepsContract == Spec => ImplementsContract
<1>1. SessInv /\ SessInv' /\ [Next]_vars => [Contract!Next]_(Contract!cvars)
  BY ContractNext DEF ContractStep
<1>2. Spec => []SessInv
  BY SessInvariant
<1> QED
  BY <1>1, <1>2, ContractInit, PTL DEF Spec, ImplementsContract, Contract!Spec
=============================================================================
