---------------------------- MODULE RfcommProofs ----------------------------
(***************************************************************************)
(* recv_frame waits a bounded time, withholds no frame and loses no part,  *)
(* for all timeouts, frame sizes and numbers of parts.  The bound on the   *)
(* wait is not inductive: it needs to know how much of the time has passed *)
(* in the read under way, which is all that the deadline, looked at only   *)
(* between two reads, may be exceeded by.                                  *)
(***************************************************************************)
EXTENDS Rfcomm, TLAPS

LEMMA Division ==
    ASSUME NEW a \in Nat
    PROVE  /\ a \div PARTS \in Nat
           /\ a % PARTS \in 0..(PARTS - 1)
           /\ a = PARTS * (a \div PARTS) + (a % PARTS)
BY RfcommAssumption

LEMMA Moved ==
    ASSUME NEW a \in Int, NEW s \in Int, NEW p \in Int, NEW n \in Int,
           NEW q \in Int, NEW x \in Int, NEW y \in Int,
           a = s + p + y, p + n = x + q
    PROVE  a = (s - n) + q + (x + y)
OBVIOUS

RecvTypes ==
    /\ arrived \in Nat /\ socket \in Nat
    /\ partial \in 0..(PARTS - 1)
    /\ ready \in Nat /\ delivered \in Nat
    /\ op \in {"idle", "recv"}
    /\ elapsed \in Nat /\ blocked \in 0..SO_RCVTIMEO

\* Inside a call the deadline is exceeded by the current read at most; the
\* call has found the queue empty.
InCall ==
    op = "recv" => /\ ready = 0
                   /\ TimeoutMs > 0 => elapsed <= TimeoutMs + blocked

RecvInv == RecvTypes /\ InCall /\ RecvBounded /\ NoFrameWithheld /\ PartsConserved

LEMMA RecvInit == Init => RecvInv
BY RfcommAssumption
   DEF Init, RecvInv, RecvTypes, InCall, RecvBounded, NoFrameWithheld, PartsConserved

LEMMA ChunkKeeps ==
    ASSUME RecvInv, NEW n \in 1..MaxParts, ReadChunk(n)
    PROVE  RecvInv'
<1> DEFINE whole == (partial + n) \div PARTS
<1>1. /\ partial + n \in Nat /\ n \in 1..socket
      /\ op = "recv" /\ ready = 0
  BY RfcommAssumption DEF RecvInv, RecvTypes, InCall, ReadChunk, Reading
<1>2. /\ whole \in Nat
      /\ partial' \in 0..(PARTS - 1)
      /\ partial + n = PARTS * whole + partial'
  BY <1>1, Division DEF ReadChunk
<1>3. UNCHANGED <<arrived, elapsed>> /\ socket' = socket - n /\ blocked' = 0
  BY DEF ReadChunk
<1>4. CASE whole > 0 /\ ready' = whole - 1 /\ delivered' = delivered + 1 /\ Return("frame")
  <2>1. PARTS * (ready' + delivered') = PARTS * whole + PARTS * (ready + delivered)
    <3>1. ready' + delivered' = whole + (ready + delivered)
      BY <1>1, <1>2, <1>4 DEF RecvInv, RecvTypes
    <3> QED
      BY <3>1, <1>1, <1>2, RfcommAssumption DEF RecvInv, RecvTypes
  <2>2. PARTS * whole \in Nat /\ PARTS * (ready + delivered) \in Nat
    BY <1>1, <1>2, RfcommAssumption DEF RecvInv, RecvTypes
  <2>3. PartsConserved'
    <3>1. arrived = socket + partial + PARTS * (ready + delivered)
      BY DEF RecvInv, PartsConserved
    <3>2. /\ arrived \in Int /\ socket \in Int /\ partial \in Int /\ n \in Int
          /\ partial' \in Int
      BY <1>2, RfcommAssumption DEF RecvInv, RecvTypes
    <3>3. arrived = (socket - n) + partial' + (PARTS * whole + PARTS * (ready + delivered))
      BY <1>2, <2>2, <3>1, <3>2, Moved
    <3> QED
      BY <1>3, <2>1, <3>3 DEF PartsConserved
  <2> QED
    BY <1>1, <1>2, <1>3, <1>4, <2>3, RfcommAssumption
       DEF RecvInv, RecvTypes, InCall, RecvBounded, NoFrameWithheld, Return
<1>5. CASE /\ whole = 0
           /\ IF DeadlinePassed THEN Return("Timeout") ELSE UNCHANGED <<op, ret>>
           /\ UNCHANGED <<ready, delivered>>
  <2>1. partial' = partial + n
    BY <1>1, <1>2, <1>5, RfcommAssumption
  <2>2. PARTS * (ready + delivered) \in Nat
    BY RfcommAssumption DEF RecvInv, RecvTypes
  <2>3. PartsConserved'
    BY <1>1, <1>3, <1>5, <2>1, <2>2, RfcommAssumption
       DEF RecvInv, RecvTypes, PartsConserved
  <2> QED
    BY <1>1, <1>2, <1>3, <1>5, <2>3, RfcommAssumption
       DEF RecvInv, RecvTypes, InCall, RecvBounded, NoFrameWithheld, DeadlinePassed, Return
<1> QED
  BY <1>4, <1>5 DEF ReadChunk

LEMMA RecvNext == RecvInv /\ [Next]_vars => RecvInv'
<1> SUFFICES ASSUME RecvInv, [Next]_vars PROVE RecvInv'
  OBVIOUS
<1> USE RfcommAssumption
    DEF RecvInv, RecvTypes, InCall, RecvBounded, NoFrameWithheld, PartsConserved,
        Return, bytes, reader, clocks
<1>1. CASE RecvBuffered
  BY <1>1 DEF RecvBuffered
<1>2. CASE RecvStart
  BY <1>2 DEF RecvStart
<1>3. ASSUME NEW n \in 1..MaxParts, ReadChunk(n) PROVE RecvInv'
  BY <1>3, ChunkKeeps
<1>4. CASE ReadSilence
  BY <1>4 DEF ReadSilence, Reading
<1>5. CASE ReadFails
  BY <1>5 DEF ReadFails
<1>6. CASE close
  BY <1>6 DEF close
<1>7. CASE Arrive
  BY <1>7 DEF Arrive
<1>8. CASE PeerGoes
  BY <1>8 DEF PeerGoes
<1>9. CASE Tick
  BY <1>9 DEF Tick, Reading
<1>10. CASE UNCHANGED vars
  BY <1>10 DEF vars
<1> QED
  BY <1>1, <1>2, <1>3, <1>4, <1>5, <1>6, <1>7, <1>8, <1>9, <1>10 DEF Next, Loop

LEMMA RecvInvariant == Spec => []RecvInv
BY RecvInit, RecvNext, PTL DEF Spec

\* recv_frame with a timeout returns within that time and one blocking read,
\* however slowly the bytes come in, for all timeouts, on a socket that has its
\* receive timeout.
THEOREM WaitBounded == Spec => []RecvBounded
<1>1. RecvInv => RecvBounded
  BY DEF RecvInv
<1> QED
  BY RecvInvariant, <1>1, PTL

\* recv_frame fails only while its FrameReader has no whole frame to return.
THEOREM FrameNotWithheld == Spec => []NoFrameWithheld
<1>1. RecvInv => NoFrameWithheld
  BY DEF RecvInv
<1> QED
  BY RecvInvariant, <1>1, PTL

\* Every part that arrives is in the socket, in the FrameReader or in a frame
\* that was returned, across calls that fail half-way, for frames of any size.
THEOREM NothingLost == Spec => []PartsConserved
<1>1. RecvInv => PartsConserved
  BY DEF RecvInv
<1> QED
  BY RecvInvariant, <1>1, PTL
=============================================================================
