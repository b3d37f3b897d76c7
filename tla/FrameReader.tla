----------------------------- MODULE FrameReader ----------------------------
(***************************************************************************)
(* FrameReader of bluez-transport: reassembles the RFCOMM byte stream into *)
(* frames.  One action per method: push (one byte at a time; a chunk is a  *)
(* run of them) and pop_frame.  fed and delivered are history variables:   *)
(* the bytes given to push and the frames taken with pop_frame.            *)
(***************************************************************************)
EXTENDS WireHeader

CONSTANT
    MaxFed  \* bound on the bytes fed in one behaviour

ASSUME MaxFedAssumption == MaxFed \in Nat

VARIABLES
    in_progress,   \* bytes of the frame being assembled
    expected_len,  \* its declared length, or None
    completed,     \* FIFO of whole frames
    fed,           \* history: bytes pushed
    delivered      \* history: frames popped

vars == <<in_progress, expected_len, completed, fed, delivered>>

\* Option::None; no valid header declares a zero length.
None == 0

Init ==
    /\ in_progress = <<>>
    /\ expected_len = None
    /\ completed = <<>>
    /\ fed = <<>>
    /\ delivered = <<>>

BugReplayNothing(tail) == <<>>

\* Replaying the three bytes after a refused header into an empty buffer:
\* bytes before the first delimiter are dropped, the others are kept.  Three
\* bytes never make a header, so the replay does not recurse further.
Replay(tail) ==
    IF tail[1] = FRAME_DELIMITER THEN tail
    ELSE IF tail[2] = FRAME_DELIMITER THEN <<tail[2], tail[3]>>
    ELSE IF tail[3] = FRAME_DELIMITER THEN <<tail[3]>>
    ELSE <<>>

\* Between frames: everything but the delimiter is dropped.
PushIdle(b) ==
    /\ in_progress = <<>>
    /\ in_progress' = IF b = FRAME_DELIMITER THEN <<b>> ELSE <<>>
    /\ UNCHANGED <<expected_len, completed>>

\* The header is being read; with its fourth byte it is accepted or refused.
PushHeader(b) ==
    /\ in_progress # <<>>
    /\ expected_len = None
    /\ LET buf == Append(in_progress, b)
       IN  IF Len(buf) # HEADER_LEN
           THEN in_progress' = buf /\ UNCHANGED expected_len
           ELSE IF ValidHeader(buf[2], buf[3], buf[4])
           THEN in_progress' = buf /\ expected_len' = DeclaredLen(buf[2], buf[3])
           ELSE in_progress' = Replay(<<buf[2], buf[3], buf[4]>>)
                /\ expected_len' = None
    /\ UNCHANGED completed

BugPushBodyLate(b) ==
    /\ in_progress # <<>>
    /\ expected_len # None
    /\ LET buf == Append(in_progress, b)
       IN  IF Len(buf) > expected_len
           THEN /\ completed' = Append(completed, buf)
                /\ in_progress' = <<>>
                /\ expected_len' = None
           ELSE /\ in_progress' = buf
                /\ UNCHANGED <<expected_len, completed>>

\* The body is being read; at the declared length the frame is complete.
PushBody(b) ==
    /\ in_progress # <<>>
    /\ expected_len # None
    /\ LET buf == Append(in_progress, b)
       IN  IF Len(buf) >= expected_len
           THEN /\ completed' = Append(completed, buf)
                /\ in_progress' = <<>>
                /\ expected_len' = None
           ELSE /\ in_progress' = buf
                /\ UNCHANGED <<expected_len, completed>>

push_byte(b) ==
    /\ Len(fed) < MaxFed
    /\ PushIdle(b) \/ PushHeader(b) \/ PushBody(b)
    /\ fed' = Append(fed, b)
    /\ UNCHANGED delivered

pop_frame ==
    /\ completed # <<>>
    /\ delivered' = Append(delivered, Head(completed))
    /\ completed' = Tail(completed)
    /\ UNCHANGED <<in_progress, expected_len, fed>>

Next == (\E b \in Byte : push_byte(b)) \/ pop_frame

Spec == Init /\ [][Next]_vars

-----------------------------------------------------------------------------

\* The variables hold values of their types, and no declared length outside
\* the bounds of the protocol is ever waited for: a corrupt header cannot make
\* the reader swallow more than MAX_FRAME_LEN bytes.
TypeOK ==
    /\ in_progress \in Seq(Byte)
    /\ expected_len \in {None} \cup MIN_FRAME_LEN..MAX_FRAME_LEN
    /\ completed \in Seq(Seq(Byte))
    /\ fed \in Seq(Byte)
    /\ delivered \in Seq(Seq(Byte))

\* While a header is unread the buffer is shorter than a header; once it is
\* read the buffer is shorter than the declared length.  So push_byte meets
\* the declared length exactly and its debug_assert_eq never fires, however
\* many refused headers were replayed before.
LengthDiscipline ==
    IF expected_len = None
    THEN Len(in_progress) < HEADER_LEN
    ELSE /\ HEADER_LEN <= Len(in_progress)
         /\ Len(in_progress) < expected_len

\* Every frame handed to the session starts with a valid header and has the
\* length its header declares.
WellFormedFrame(f) ==
    /\ Len(f) >= HEADER_LEN
    /\ f[1] = FRAME_DELIMITER
    /\ ValidHeader(f[2], f[3], f[4])
    /\ Len(f) = DeclaredLen(f[2], f[3])

CompletedWellFormed == \A i \in 1..Len(completed) : WellFormedFrame(completed[i])

\* s is the end of f.
SuffixOf(s, f) ==
    /\ Len(s) <= Len(f)
    /\ \A i \in 1..Len(s) : s[i] = f[Len(f) - Len(s) + i]

\* The buffer is the end of the stream: a resync drops bytes from its front
\* only, it never reorders, repeats or loses a byte of a candidate frame.  It
\* starts with a delimiter, and the declared length is that of its header.
BufferIsStreamSuffix ==
    /\ SuffixOf(in_progress, fed)
    /\ Len(in_progress) > 0 => in_progress[1] = FRAME_DELIMITER
    /\ expected_len # None =>
          /\ ValidHeader(in_progress[2], in_progress[3], in_progress[4])
          /\ expected_len = DeclaredLen(in_progress[2], in_progress[3])

BufferStart == Len(fed) - Len(in_progress) + 1

Stream == INSTANCE FrameStream WITH
            start <- BufferStart,
            out <- delivered \o completed

\* The reader implements the stream-level contract: no valid header is
\* missed and every frame comes out whole, once and in order.
ImplementsStream == Stream!Spec
=============================================================================
