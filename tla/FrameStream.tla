----------------------------- MODULE FrameStream ----------------------------
(***************************************************************************)
(* What the frame reader promises, stated over the whole byte stream       *)
(* rather than over a buffer.  A cursor `start' moves over the bytes       *)
(* received so far.  A position may be passed over only if no frame can    *)
(* start there; a frame that starts at the cursor is put out exactly when  *)
(* its last byte arrives, whole and unaltered.  Nothing here says how the  *)
(* reader resynchronises: only that no valid header is ever missed.        *)
(***************************************************************************)
EXTENDS Integers, Sequences

CONSTANTS
    Byte,                  \* the byte values the stream may carry
    FRAME_DELIMITER,       \* the byte a frame starts with
    ValidHeader(_, _, _),  \* the test on the three bytes that follow it
    DeclaredLen(_, _)      \* the frame length that two of them declare

VARIABLES
    fed,    \* every byte received on the socket, in order
    start,  \* position in fed where the next frame is looked for
    out     \* the frames put out, in order

svars == <<fed, start, out>>

HeaderComplete(s, k) == k + 3 <= Len(s)

HeaderAt(s, k) ==
    /\ s[k] = FRAME_DELIMITER
    /\ HeaderComplete(s, k)
    /\ ValidHeader(s[k+1], s[k+2], s[k+3])

\* No frame starts at position k, whatever bytes follow those in s.
NoFrameAt(s, k) ==
    \/ s[k] # FRAME_DELIMITER
    \/ HeaderComplete(s, k) /\ ~ValidHeader(s[k+1], s[k+2], s[k+3])

FrameEnd(s, k) == k + DeclaredLen(s[k+1], s[k+2]) - 1

Init ==
    /\ fed = <<>>
    /\ start = 1
    /\ out = <<>>

\* A byte arrives and completes no frame.  The cursor may move over
\* positions where no frame starts.
Advance(b) ==
    /\ fed' = Append(fed, b)
    /\ start' \in start..(Len(fed) + 2)
    /\ \A k \in start..(start' - 1) : NoFrameAt(fed', k)
    /\ ~(start' <= Len(fed') /\ HeaderAt(fed', start')
         /\ FrameEnd(fed', start') <= Len(fed'))
    /\ UNCHANGED out

\* A byte arrives and is the last one of the frame at the cursor.
Emit(b) ==
    /\ fed' = Append(fed, b)
    /\ start <= Len(fed)
    /\ HeaderAt(fed', start)
    /\ FrameEnd(fed', start) = Len(fed')
    /\ out' = Append(out, SubSeq(fed', start, Len(fed')))
    /\ start' = Len(fed') + 1

Next == \E b \in Byte : Advance(b) \/ Emit(b)

Spec == Init /\ [][Next]_svars
=============================================================================
