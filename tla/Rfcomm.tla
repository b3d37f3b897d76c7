------------------------------- MODULE Rfcomm -------------------------------
(***************************************************************************)
(* RfcommTransport of bluez-transport once connected: recv_frame with its  *)
(* frame queue, its own deadline and the socket's SO_RCVTIMEO, and close.  *)
(* The byte stream is a row of frame parts: a read takes any number of the *)
(* parts that have arrived, PARTS consecutive ones make a frame.  Time     *)
(* passes only while a read blocks.                                        *)
(***************************************************************************)
EXTENDS Integers

CONSTANTS
    TimeoutMs,   \* the timeout_ms argument (15 s by default; 0 = none)
    SO_RCVTIMEO, \* receive timeout set on the socket (15 s)
    PARTS,       \* parts of a frame, each of which may arrive on its own
    MaxParts     \* bound on the parts that arrive

ASSUME RfcommAssumption ==
    /\ TimeoutMs \in Nat
    /\ SO_RCVTIMEO \in Nat \ {0}
    /\ PARTS \in Nat \ {0}
    /\ MaxParts \in Nat

VARIABLES
    fd,         \* open, or closed by close()
    timed,      \* setsockopt(SO_RCVTIMEO) succeeded; it is let go when not
    peer,       \* external: up, gone (orderly) or reset
    arrived,    \* history: frame parts that have arrived
    socket,     \* frame parts waiting in the socket
    partial,    \* frame parts in the FrameReader
    ready,      \* whole frames in the FrameReader
    delivered,  \* history: frames returned
    op,         \* idle, or recv: inside the loop of recv_frame
    elapsed,    \* time since recv_frame was called
    blocked,    \* time the current read has been blocking
    ret         \* what the latest recv_frame returned

bytes == <<arrived, socket>>
reader == <<partial, ready, delivered>>
clocks == <<elapsed, blocked>>
vars == <<fd, timed, peer, bytes, reader, op, clocks, ret>>

\* What connect_blocking returns.
Init ==
    /\ fd = "open" /\ timed \in BOOLEAN /\ peer = "up"
    /\ arrived = 0 /\ socket = 0
    /\ partial = 0 /\ ready = 0 /\ delivered = 0
    /\ op = "idle" /\ elapsed = 0 /\ blocked = 0
    /\ ret = "none"

Return(r) == op' = "idle" /\ ret' = r

BugFreshReader ==
    /\ op = "idle" /\ ready = 0
    /\ op' = "recv"
    /\ elapsed' = 0
    /\ blocked' = 0
    /\ partial' = 0
    /\ UNCHANGED <<fd, timed, peer, bytes, ready, delivered, ret>>

\* recv_frame finds a frame in the queue.
RecvBuffered ==
    /\ op = "idle" /\ ready > 0
    /\ ready' = ready - 1
    /\ delivered' = delivered + 1
    /\ Return("frame")
    /\ UNCHANGED <<fd, timed, peer, bytes, partial, clocks>>

\* recv_frame finds none and sets its deadline.
RecvStart ==
    /\ op = "idle" /\ ready = 0
    /\ op' = "recv"
    /\ elapsed' = 0
    /\ blocked' = 0
    /\ UNCHANGED <<fd, timed, peer, bytes, reader, ret>>

Reading == op = "recv" /\ fd = "open"

BugDeadlinePerRead == TimeoutMs > 0 /\ blocked > TimeoutMs
DeadlinePassed == TimeoutMs > 0 /\ elapsed > TimeoutMs

BugDeadlineFirst(n) ==
    /\ Reading /\ n \in 1..socket
    /\ socket' = socket - n
    /\ partial' = (partial + n) % PARTS
    /\ LET whole == (partial + n) \div PARTS
       IN  IF DeadlinePassed
           THEN ready' = whole /\ Return("Timeout") /\ UNCHANGED delivered
           ELSE /\ ready' = IF whole > 0 THEN whole - 1 ELSE ready
                /\ delivered' = IF whole > 0 THEN delivered + 1 ELSE delivered
                /\ IF whole > 0 THEN Return("frame") ELSE UNCHANGED <<op, ret>>
    /\ blocked' = 0
    /\ UNCHANGED <<fd, timed, peer, arrived, elapsed>>

\* A read brings n frame parts: they are pushed into the reader, then a whole
\* frame is returned, or the deadline is looked at, or the next read begins.
ReadChunk(n) ==
    /\ Reading /\ n \in 1..socket
    /\ socket' = socket - n
    /\ partial' = (partial + n) % PARTS
    /\ LET whole == (partial + n) \div PARTS
       IN  \/ /\ whole > 0
              /\ ready' = whole - 1
              /\ delivered' = delivered + 1
              /\ Return("frame")
           \/ /\ whole = 0
              /\ IF DeadlinePassed THEN Return("Timeout") ELSE UNCHANGED <<op, ret>>
              /\ UNCHANGED <<ready, delivered>>
    /\ blocked' = 0
    /\ UNCHANGED <<fd, timed, peer, arrived, elapsed>>

BugRetrySilence ==
    /\ Reading /\ timed /\ socket = 0 /\ peer = "up" /\ blocked = SO_RCVTIMEO
    /\ blocked' = 0
    /\ elapsed' = 0
    /\ UNCHANGED <<fd, timed, peer, bytes, reader, op, ret>>

\* The read blocked for SO_RCVTIMEO: EAGAIN, an I/O error like any other.
ReadSilence ==
    /\ Reading /\ timed /\ socket = 0 /\ peer = "up" /\ blocked = SO_RCVTIMEO
    /\ Return("Io")
    /\ UNCHANGED <<fd, timed, peer, bytes, reader, clocks>>

\* The peer has gone, or this side has closed the socket before.
ReadFails ==
    /\ op = "recv"
    /\ \/ fd = "closed" /\ Return("Closed")
       \/ fd = "open" /\ socket = 0 /\ peer = "gone" /\ Return("Closed")
       \/ fd = "open" /\ peer = "reset" /\ Return("Io")
    /\ UNCHANGED <<fd, timed, peer, bytes, reader, clocks>>

close ==
    /\ op = "idle"
    /\ fd' = "closed"
    /\ UNCHANGED <<timed, peer, bytes, reader, op, clocks, ret>>

-----------------------------------------------------------------------------
\* External: the link.

Arrive ==
    /\ peer = "up" /\ arrived < MaxParts
    /\ arrived' = arrived + 1
    /\ socket' = socket + 1
    /\ UNCHANGED <<fd, timed, peer, reader, op, clocks, ret>>

PeerGoes ==
    /\ peer = "up"
    /\ peer' \in {"gone", "reset"}
    /\ UNCHANGED <<fd, timed, bytes, reader, op, clocks, ret>>

\* A read with nothing to return blocks, for SO_RCVTIMEO; on a socket without
\* the timeout it blocks on, and only the count of it stops there.
Tick ==
    /\ Reading /\ socket = 0 /\ peer = "up" /\ blocked < SO_RCVTIMEO
    /\ elapsed' = elapsed + 1
    /\ blocked' = blocked + 1
    /\ UNCHANGED <<fd, timed, peer, bytes, reader, op, ret>>

Loop == (\E n \in 1..MaxParts : ReadChunk(n)) \/ ReadSilence \/ ReadFails

Next == RecvBuffered \/ RecvStart \/ Loop \/ close \/ Arrive \/ PeerGoes \/ Tick

Spec == Init /\ [][Next]_vars

\* The blocking thread runs and time passes.
FairSpec == Spec /\ WF_vars(Loop) /\ WF_vars(Tick)

-----------------------------------------------------------------------------

\* A peer that dribbles bytes without completing a frame cannot hold a call
\* longer than its timeout and one more blocking read, on a socket that has
\* its timeout.
RecvBounded == timed /\ TimeoutMs > 0 => elapsed <= TimeoutMs + SO_RCVTIMEO

\* No call fails while a whole frame is there to be returned.
NoFrameWithheld == op = "idle" /\ ret \notin {"none", "frame"} => ready = 0

\* A call that fails in the middle of a frame keeps what it has read of it for
\* the next call: every part is somewhere.
PartsConserved == arrived = socket + partial + PARTS * (ready + delivered)

\* An I/O error means that the link is dead, a silent peer is a Timeout.
SilenceIsTimeout == ret = "Io" => peer # "up"

\* A call of recv_frame returns, even when nothing ever arrives, by the timeout
\* of the socket alone: the call's own deadline is looked at only after a read
\* that brought something, so when the timeout could not be set, which is
\* logged and passed over, a silent peer holds the call for ever.
RecvReturns == op = "recv" ~> op = "idle" \/ ~timed
=============================================================================
