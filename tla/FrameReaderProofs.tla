------------------------- MODULE FrameReaderProofs --------------------------
(***************************************************************************)
(* The frame reader is correct for every alphabet, every pair of length    *)
(* limits above the header's size and streams of any length.               *)
(***************************************************************************)
EXTENDS FrameReader, SequenceTheorems, TLAPS

\* A header that passes the test declares more bytes than the header has.
LEMMA ValidHeaderLength ==
    ASSUME NEW lo \in Byte, NEW hi \in Byte, NEW cks \in Byte,
           ValidHeader(lo, hi, cks)
    PROVE  /\ DeclaredLen(lo, hi) \in Nat
           /\ DeclaredLen(lo, hi) > HEADER_LEN
           /\ DeclaredLen(lo, hi) # None
  BY WireAssumption DEF ValidHeader, DeclaredLen, HEADER_LEN, None

\* The same byte appended to a stream and to its suffix keeps the suffix.
LEMMA SuffixAppend ==
    ASSUME NEW s \in Seq(Byte), NEW f \in Seq(Byte), NEW b \in Byte,
           SuffixOf(s, f)
    PROVE  SuffixOf(Append(s, b), Append(f, b))
<1> DEFINE t == Append(s, b)
           g == Append(f, b)
<1>1. /\ Len(s) \in Nat /\ Len(f) \in Nat
      /\ Len(t) = Len(s) + 1 /\ Len(g) = Len(f) + 1
      /\ \A i \in 1..Len(s) : t[i] = s[i]
      /\ \A i \in 1..Len(f) : g[i] = f[i]
      /\ t[Len(s) + 1] = b /\ g[Len(f) + 1] = b
  BY AppendProperties, LenProperties
<1>2. /\ Len(s) <= Len(f)
      /\ \A i \in 1..Len(s) : s[i] = f[Len(f) - Len(s) + i]
  BY DEF SuffixOf
<1> HIDE DEF t, g
<1>3. ASSUME NEW i \in 1..Len(t)
      PROVE  t[i] = g[Len(g) - Len(t) + i]
  <2>1. CASE i \in 1..Len(s)
    <3>1. Len(g) - Len(t) + i = Len(f) - Len(s) + i
      BY <1>1, <2>1
    <3>2. Len(f) - Len(s) + i \in 1..Len(f)
      BY <1>1, <1>2, <2>1
    <3>3. QED
      BY <1>1, <1>2, <2>1, <3>1, <3>2
  <2>2. CASE i = Len(s) + 1
    BY <1>1, <2>2
  <2>3. QED
    BY <1>1, <2>1, <2>2
<1>4. QED
  BY <1>1, <1>2, <1>3 DEF SuffixOf, t, g

\* A suffix of a suffix is a suffix.
LEMMA SuffixTransitive ==
    ASSUME NEW r \in Seq(Byte), NEW s \in Seq(Byte), NEW f \in Seq(Byte),
           SuffixOf(r, s), SuffixOf(s, f)
    PROVE  SuffixOf(r, f)
<1>1. Len(r) \in Nat /\ Len(s) \in Nat /\ Len(f) \in Nat
  BY LenProperties
<1>2. ASSUME NEW i \in 1..Len(r)
      PROVE  r[i] = f[Len(f) - Len(r) + i]
  <2>1. /\ Len(s) - Len(r) + i \in 1..Len(s)
        /\ r[i] = s[Len(s) - Len(r) + i]
    BY <1>1 DEF SuffixOf
  <2>2. s[Len(s) - Len(r) + i] = f[Len(f) - Len(s) + (Len(s) - Len(r) + i)]
    BY <2>1 DEF SuffixOf
  <2>3. Len(f) - Len(s) + (Len(s) - Len(r) + i) = Len(f) - Len(r) + i
    BY <1>1
  <2>4. QED
    BY <2>1, <2>2, <2>3
<1>3. Len(r) <= Len(f)
  BY <1>1 DEF SuffixOf
<1>4. QED
  BY <1>2, <1>3 DEF SuffixOf

\* The bytes of a four-byte buffer are bytes.
LEMMA HeaderBytes ==
    ASSUME NEW s \in Seq(Byte), Len(s) >= 4
    PROVE  s[2] \in Byte /\ s[3] \in Byte /\ s[4] \in Byte
  BY LenProperties

\* What replaying the three bytes of a refused header leaves in the buffer: a
\* suffix of the four, empty or starting with a delimiter.
LEMMA ReplaySuffix ==
    ASSUME NEW s \in Seq(Byte), Len(s) = 4
    PROVE  LET r == Replay(<<s[2], s[3], s[4]>>)
           IN  /\ r \in Seq(Byte)
               /\ Len(r) <= 3
               /\ Len(r) > 0 => r[1] = FRAME_DELIMITER
               /\ SuffixOf(r, s)
               /\ \A j \in 2..(4 - Len(r)) : s[j] # FRAME_DELIMITER
<1>1. s[2] \in Byte /\ s[3] \in Byte /\ s[4] \in Byte
  BY HeaderBytes
<1> DEFINE x == s[2]
           y == s[3]
           z == s[4]
<1>2. CASE x = FRAME_DELIMITER
  BY <1>1, <1>2 DEF Replay, SuffixOf
<1>3. CASE x # FRAME_DELIMITER /\ y = FRAME_DELIMITER
  BY <1>1, <1>3 DEF Replay, SuffixOf
<1>4. CASE x # FRAME_DELIMITER /\ y # FRAME_DELIMITER /\ z = FRAME_DELIMITER
  BY <1>1, <1>4 DEF Replay, SuffixOf
<1>5. CASE x # FRAME_DELIMITER /\ y # FRAME_DELIMITER /\ z # FRAME_DELIMITER
  BY <1>1, <1>5 DEF Replay, SuffixOf
<1>6. QED
  BY <1>2, <1>3, <1>4, <1>5

\* The parts of the inductive invariant: the type invariant, and what relates
\* the buffer, its declared length, the frames and the stream.
IInv ==
    /\ TypeOK
    /\ LengthDiscipline
    /\ CompletedWellFormed
    /\ BufferIsStreamSuffix

\* A new FrameReader satisfies the inductive invariant.
LEMMA InitIInv == Init => IInv
  BY DEF Init, IInv, TypeOK, LengthDiscipline, CompletedWellFormed,
         BufferIsStreamSuffix, SuffixOf, HEADER_LEN, None


\* push_byte between frames keeps the invariant.
LEMMA IdleStep ==
    ASSUME IInv, NEW b \in Byte, PushIdle(b), fed' = Append(fed, b),
           UNCHANGED delivered
    PROVE  IInv'
<1>1. /\ in_progress = <<>> /\ expected_len = None
      /\ fed \in Seq(Byte) /\ fed' \in Seq(Byte)
      /\ Len(fed') = Len(fed) + 1 /\ fed'[Len(fed) + 1] = b
      /\ Len(fed) \in Nat
      /\ expected_len' = None /\ completed' = completed
  BY AppendProperties, LenProperties
     DEF IInv, TypeOK, LengthDiscipline, PushIdle, HEADER_LEN, None
<1>2. CASE b = FRAME_DELIMITER
  <2>1. in_progress' = <<b>>
    BY <1>2 DEF PushIdle
  <2>2. SuffixOf(in_progress', fed')
    BY <1>1, <2>1 DEF SuffixOf
  <2>3. QED
    BY <1>1, <1>2, <2>1, <2>2 DEF IInv, TypeOK, LengthDiscipline,
       CompletedWellFormed, BufferIsStreamSuffix, HEADER_LEN, None
<1>3. CASE b # FRAME_DELIMITER
  <2>1. in_progress' = <<>>
    BY <1>3 DEF PushIdle
  <2>2. SuffixOf(in_progress', fed')
    BY <1>1, <2>1 DEF SuffixOf
  <2>3. QED
    BY <1>1, <2>1, <2>2 DEF IInv, TypeOK, LengthDiscipline,
       CompletedWellFormed, BufferIsStreamSuffix, HEADER_LEN, None
<1>4. QED
  BY <1>2, <1>3

\* push_byte keeps the invariant while it reads, accepts or refuses a header.
LEMMA HeaderStep ==
    ASSUME IInv, NEW b \in Byte, PushHeader(b), fed' = Append(fed, b),
           UNCHANGED delivered
    PROVE  IInv'
<1>1. /\ in_progress \in Seq(Byte) /\ fed \in Seq(Byte) /\ fed' \in Seq(Byte)
      /\ Len(in_progress) \in 1..3
      /\ in_progress[1] = FRAME_DELIMITER
      /\ expected_len = None /\ completed' = completed
      /\ SuffixOf(in_progress, fed)
  <2>1. /\ in_progress \in Seq(Byte) /\ fed \in Seq(Byte)
        /\ in_progress # <<>> /\ expected_len = None /\ completed' = completed
        /\ SuffixOf(in_progress, fed)
        /\ Len(in_progress) > 0 => in_progress[1] = FRAME_DELIMITER
    BY DEF IInv, TypeOK, PushHeader, LengthDiscipline, BufferIsStreamSuffix,
           HEADER_LEN
  <2>2. Len(in_progress) \in Nat \ {0}
    BY <2>1, EmptySeq
  <2>3. fed' \in Seq(Byte)
    BY <2>1, AppendProperties
  <2>4. Len(in_progress) \in 1..3
    <3>1. Len(in_progress) < 4
      BY DEF IInv, LengthDiscipline, PushHeader, HEADER_LEN
    <3>2. \A n \in Nat \ {0} : n < 4 => n \in 1..3
      OBVIOUS
    <3>3. QED
      BY <2>2, <3>1, <3>2, Zenon
  <2>5. QED
    BY <2>1, <2>3, <2>4
<1>2. PICK buf \in Seq(Byte) : buf = Append(in_progress, b)
  BY <1>1, AppendProperties
<1>3. /\ Len(buf) = Len(in_progress) + 1
      /\ buf[1] = FRAME_DELIMITER
      /\ SuffixOf(buf, fed')
  BY <1>1, <1>2, AppendProperties, SuffixAppend
<1>4. IF Len(buf) # HEADER_LEN
      THEN in_progress' = buf /\ expected_len' = None
      ELSE IF ValidHeader(buf[2], buf[3], buf[4])
      THEN in_progress' = buf /\ expected_len' = DeclaredLen(buf[2], buf[3])
      ELSE in_progress' = Replay(<<buf[2], buf[3], buf[4]>>)
           /\ expected_len' = None
  BY <1>1, <1>2 DEF PushHeader
<1>5. CompletedWellFormed'
  BY <1>1 DEF IInv, CompletedWellFormed
<1>6. CASE Len(buf) # HEADER_LEN
  <2>1. in_progress' = buf /\ expected_len' = None
    BY <1>4, <1>6
  <2>2. Len(buf) < HEADER_LEN
    <3>1. Len(in_progress) \in 1..3
      BY <1>1
    <3>2. Len(buf) = Len(in_progress) + 1
      BY <1>3
    <3>3. \A n \in 1..3 : n + 1 # HEADER_LEN => n + 1 < HEADER_LEN
      BY DEF HEADER_LEN
    <3>4. QED
      BY <1>6, <3>1, <3>2, <3>3, Zenon
  <2>6. LengthDiscipline'
    BY <2>1, <2>2 DEF LengthDiscipline
  <2>3. BufferIsStreamSuffix'
    BY <1>3, <2>1 DEF BufferIsStreamSuffix
  <2>4. TypeOK'
    BY <1>1, <2>1 DEF IInv, TypeOK, None
  <2>5. QED
    BY <1>5, <2>3, <2>4, <2>6 DEF IInv
<1>7. CASE Len(buf) = HEADER_LEN /\ ValidHeader(buf[2], buf[3], buf[4])
  <2>1. in_progress' = buf /\ expected_len' = DeclaredLen(buf[2], buf[3])
    BY <1>4, <1>7
  <2>2. buf[2] \in Byte /\ buf[3] \in Byte /\ buf[4] \in Byte
    BY <1>7, HeaderBytes DEF HEADER_LEN
  <2>3. expected_len' \in Nat /\ expected_len' # None /\ expected_len' > HEADER_LEN
    BY <1>7, <2>1, <2>2, ValidHeaderLength
  <2>4. Len(in_progress') = HEADER_LEN
    BY <1>7, <2>1
  <2>5. LengthDiscipline'
    BY <2>3, <2>4 DEF LengthDiscipline, HEADER_LEN, None
  <2>6. BufferIsStreamSuffix'
    BY <1>3, <1>7, <2>1 DEF BufferIsStreamSuffix
  <2>7. TypeOK'
    <3>1. expected_len' \in MIN_FRAME_LEN..MAX_FRAME_LEN
      BY <1>7, <2>1 DEF ValidHeader
    <3> QED
      BY <1>1, <2>1, <2>3, <3>1 DEF IInv, TypeOK
  <2>8. QED
    BY <1>5, <2>5, <2>6, <2>7 DEF IInv
<1>8. CASE Len(buf) = HEADER_LEN /\ ~ValidHeader(buf[2], buf[3], buf[4])
  <2>1. PICK r : r = Replay(<<buf[2], buf[3], buf[4]>>)
    OBVIOUS
  <2>2. in_progress' = r /\ expected_len' = None
    BY <1>4, <1>8, <2>1
  <2>3. /\ r \in Seq(Byte)
        /\ Len(r) <= 3
        /\ Len(r) > 0 => r[1] = FRAME_DELIMITER
        /\ SuffixOf(r, buf)
    BY <1>8, <2>1, ReplaySuffix DEF HEADER_LEN
  <2>4. SuffixOf(r, fed')
    BY <1>1, <1>3, <2>3, SuffixTransitive
  <2>5. LengthDiscipline'
    BY <2>2, <2>3, LenProperties DEF LengthDiscipline, HEADER_LEN
  <2>6. BufferIsStreamSuffix'
    BY <2>2, <2>3, <2>4 DEF BufferIsStreamSuffix
  <2>7. TypeOK'
    BY <1>1, <2>2, <2>3 DEF IInv, TypeOK, None
  <2>8. QED
    BY <1>5, <2>5, <2>6, <2>7 DEF IInv
<1>9. QED
  BY <1>6, <1>7, <1>8

\* push_byte keeps the invariant in a body and at its last byte.
LEMMA BodyStep ==
    ASSUME IInv, NEW b \in Byte, PushBody(b), fed' = Append(fed, b),
           UNCHANGED delivered
    PROVE  IInv'
<1>1. /\ in_progress \in Seq(Byte) /\ fed \in Seq(Byte)
      /\ completed \in Seq(Seq(Byte)) /\ delivered \in Seq(Seq(Byte))
      /\ expected_len \in Nat /\ expected_len # None
      /\ 4 <= Len(in_progress) /\ Len(in_progress) < expected_len
      /\ SuffixOf(in_progress, fed)
      /\ in_progress[1] = FRAME_DELIMITER
      /\ ValidHeader(in_progress[2], in_progress[3], in_progress[4])
      /\ expected_len = DeclaredLen(in_progress[2], in_progress[3])
  BY LenProperties DEF IInv, TypeOK, PushBody, LengthDiscipline,
                       BufferIsStreamSuffix, HEADER_LEN
<1>2. PICK buf \in Seq(Byte) : buf = Append(in_progress, b)
  BY <1>1, AppendProperties
<1>3. /\ Len(in_progress) \in Nat
      /\ Len(buf) = Len(in_progress) + 1
      /\ \A i \in 1..Len(in_progress) : buf[i] = in_progress[i]
      /\ SuffixOf(buf, fed')
      /\ fed' \in Seq(Byte)
  BY <1>1, <1>2, AppendProperties, SuffixAppend, LenProperties
<1>4. /\ buf[1] = FRAME_DELIMITER
      /\ ValidHeader(buf[2], buf[3], buf[4])
      /\ expected_len = DeclaredLen(buf[2], buf[3])
  <2>1. 1 \in 1..Len(in_progress) /\ 2 \in 1..Len(in_progress)
        /\ 3 \in 1..Len(in_progress) /\ 4 \in 1..Len(in_progress)
    <3>1. 4 <= Len(in_progress) /\ Len(in_progress) \in Nat
      BY <1>1, <1>3
    <3>2. QED
      BY <3>1
  <2>2. /\ buf[1] = in_progress[1] /\ buf[2] = in_progress[2]
        /\ buf[3] = in_progress[3] /\ buf[4] = in_progress[4]
    BY <1>3, <2>1
  <2>3. QED
    BY <1>1, <2>2
<1>5. CASE Len(buf) >= expected_len
  <2>1. /\ completed' = Append(completed, buf)
        /\ in_progress' = <<>> /\ expected_len' = None
    BY <1>2, <1>5 DEF PushBody
  <2>2. WellFormedFrame(buf)
    BY <1>1, <1>3, <1>4, <1>5 DEF WellFormedFrame, HEADER_LEN
  <2>3. /\ completed' \in Seq(Seq(Byte))
        /\ Len(completed') = Len(completed) + 1
        /\ \A i \in 1..Len(completed) : completed'[i] = completed[i]
        /\ completed'[Len(completed) + 1] = buf
        /\ Len(completed) \in Nat
    BY <1>1, <2>1, AppendProperties, LenProperties
  <2>4. CompletedWellFormed'
    <3>1. \A i \in 1..Len(completed) : WellFormedFrame(completed[i])
      BY DEF IInv, CompletedWellFormed
    <3>2. ASSUME NEW i \in 1..(Len(completed) + 1)
          PROVE  WellFormedFrame(completed'[i])
      <4>1. CASE i \in 1..Len(completed)
        BY <2>3, <3>1, <4>1
      <4>2. CASE i = Len(completed) + 1
        BY <2>2, <2>3, <4>2
      <4>3. Len(completed) \in Nat
        BY <2>3
      <4>4. i \in 1..Len(completed) \/ i = Len(completed) + 1
        BY <4>3
      <4>5. QED
        BY <4>1, <4>2, <4>4
    <3>3. QED
      BY <2>3, <3>2 DEF CompletedWellFormed
  <2>5. /\ Len(in_progress') = 0
        /\ SuffixOf(in_progress', fed')
    BY <1>3, <2>1, LenProperties DEF SuffixOf
  <2>6. TypeOK' /\ LengthDiscipline' /\ BufferIsStreamSuffix'
    BY <1>1, <1>3, <2>1, <2>3, <2>5
       DEF TypeOK, LengthDiscipline, BufferIsStreamSuffix, HEADER_LEN, None
  <2>7. QED
    BY <2>4, <2>6 DEF IInv
<1>6. CASE ~(Len(buf) >= expected_len)
  <2>1. in_progress' = buf /\ expected_len' = expected_len /\ completed' = completed
    BY <1>2, <1>6 DEF PushBody
  <2>2. HEADER_LEN <= Len(buf) /\ Len(buf) < expected_len
    BY <1>1, <1>3, <1>6 DEF HEADER_LEN
  <2>3. TypeOK' /\ CompletedWellFormed'
    BY <1>1, <1>3, <2>1 DEF IInv, TypeOK, CompletedWellFormed
  <2>4. LengthDiscipline'
    BY <1>1, <2>1, <2>2 DEF LengthDiscipline
  <2>5. BufferIsStreamSuffix'
    BY <1>3, <1>4, <2>1 DEF BufferIsStreamSuffix
  <2>6. QED
    BY <2>3, <2>4, <2>5 DEF IInv
<1>7. QED
  BY <1>5, <1>6

\* pop_frame keeps the invariant.
LEMMA PopStep ==
    ASSUME IInv, pop_frame
    PROVE  IInv'
<1>1. /\ completed \in Seq(Seq(Byte)) /\ completed # <<>>
      /\ delivered \in Seq(Seq(Byte))
      /\ completed' = Tail(completed)
      /\ delivered' = Append(delivered, Head(completed))
      /\ UNCHANGED <<in_progress, expected_len, fed>>
  BY DEF IInv, TypeOK, pop_frame
<1>2. /\ Head(completed) \in Seq(Byte)
      /\ completed' \in Seq(Seq(Byte))
      /\ Len(completed') = Len(completed) - 1
      /\ Len(completed) \in Nat
      /\ \A i \in 1..Len(completed') : completed'[i] = completed[i + 1]
  BY <1>1, HeadTailProperties, LenProperties
<1>3. delivered' \in Seq(Seq(Byte))
  BY <1>1, <1>2, AppendProperties
<1>4. CompletedWellFormed'
  BY <1>2 DEF IInv, CompletedWellFormed
<1>5. TypeOK' /\ LengthDiscipline' /\ BufferIsStreamSuffix'
  BY <1>1, <1>2, <1>3 DEF IInv, TypeOK, LengthDiscipline, BufferIsStreamSuffix
<1>6. QED
  BY <1>4, <1>5 DEF IInv

\* Every step keeps the invariant.
LEMMA NextIInv == IInv /\ [Next]_vars => IInv'
<1> SUFFICES ASSUME IInv, [Next]_vars PROVE IInv'
  OBVIOUS
<1>1. CASE \E b \in Byte : push_byte(b)
  <2>1. PICK b \in Byte : push_byte(b)
    BY <1>1
  <2>2. fed' = Append(fed, b) /\ UNCHANGED delivered
    BY <2>1 DEF push_byte
  <2>3. CASE PushIdle(b)    BY <2>2, <2>3, IdleStep
  <2>4. CASE PushHeader(b)  BY <2>2, <2>4, HeaderStep
  <2>5. CASE PushBody(b)    BY <2>2, <2>5, BodyStep
  <2>6. QED
    BY <2>1, <2>3, <2>4, <2>5 DEF push_byte
<1>2. CASE pop_frame
  BY <1>2, PopStep
<1>3. CASE UNCHANGED vars
  BY <1>3 DEF vars, IInv, TypeOK, LengthDiscipline, CompletedWellFormed,
              BufferIsStreamSuffix
<1>4. QED
  BY <1>1, <1>2, <1>3 DEF Next

\* Every reachable state of the reader satisfies the type invariant, the
\* length discipline behind push_byte's debug_assert_eq, the suffix relation
\* between buffer and stream, and queues well-formed frames only.
THEOREM ReaderInvariant == Spec => []IInv
  BY InitIInv, NextIInv, PTL DEF Spec

\* A corrupt header cannot make push_byte wait for a length outside the
\* protocol's bounds, and what it keeps and hands over are bytes.
THEOREM ReaderTypes == Spec => []TypeOK
<1>1. IInv => TypeOK
  BY DEF IInv
<1>2. QED
  BY <1>1, ReaderInvariant, PTL

\* The debug_assert_eq of push_byte never fires.
THEOREM ReaderLengthDiscipline == Spec => []LengthDiscipline
<1>1. IInv => LengthDiscipline
  BY DEF IInv
<1>2. QED
  BY <1>1, ReaderInvariant, PTL

-----------------------------------------------------------------------------
\* The refinement: a new reader stands at the start of the stream.
LEMMA InitRefines == Init => Stream!Init
  BY ConcatEmptySeq DEF Init, Stream!Init, BufferStart

\* Popping moves a frame from the queue to the caller; the frames put out so
\* far stay the same.
LEMMA PopStutters ==
    ASSUME IInv, pop_frame
    PROVE  UNCHANGED Stream!svars
<1>1. /\ completed \in Seq(Seq(Byte)) /\ completed # <<>>
      /\ delivered \in Seq(Seq(Byte))
      /\ completed' = Tail(completed)
      /\ delivered' = Append(delivered, Head(completed))
      /\ UNCHANGED <<in_progress, expected_len, fed>>
  BY DEF IInv, TypeOK, pop_frame
<1>2. /\ Head(completed) \in Seq(Byte)
      /\ completed' \in Seq(Seq(Byte))
  BY <1>1, HeadTailProperties
<1>3. completed = <<Head(completed)>> \o completed'
  <2>1. Len(completed) \in Nat \ {0}
    BY <1>1, EmptySeq
  <2>2. 1 \in 1..Len(completed) /\ Len(completed) \in 1..Len(completed)
    BY <2>1
  <2>3. SubSeq(completed, 1, Len(completed))
          = <<completed[1]>> \o SubSeq(completed, 2, Len(completed))
    <3>1. SubSeq(completed, 1, Len(completed))
            = <<completed[1]>> \o SubSeq(completed, 1 + 1, Len(completed))
      BY <1>1, <2>2, SubSeqRecursiveFirst
    <3>2. 1 + 1 = 2
      OBVIOUS
    <3>3. QED
      BY <3>1, <3>2, Zenon
  <2>4. SubSeq(completed, 1, Len(completed)) = completed
    BY <1>1, SubSeqFull
  <2>5. SubSeq(completed, 2, Len(completed)) = completed'
    BY <1>1, TailIsSubSeq
  <2>6. Head(completed) = completed[1]
    BY <1>1
  <2>7. QED
    BY <2>3, <2>4, <2>5, <2>6, Zenon
<1>4. delivered' = delivered \o <<Head(completed)>>
  BY <1>1, <1>2, AppendIsConcat
<1>5. <<Head(completed)>> \in Seq(Seq(Byte))
  BY <1>2
<1>6. delivered' \o completed' = delivered \o completed
  BY <1>1, <1>2, <1>3, <1>4, <1>5, ConcatAssociative
<1>7. QED
  BY <1>1, <1>6 DEF Stream!svars, BufferStart

\* A step of the reader that completes no frame is an Advance of the stream.
LEMMA AdvanceRefines ==
    ASSUME NEW b \in Byte, fed' = Append(fed, b),
           UNCHANGED <<delivered, completed>>,
           BufferStart' \in BufferStart..(Len(fed) + 2),
           \A k \in BufferStart..(BufferStart' - 1) : Stream!NoFrameAt(fed', k),
           ~(/\ BufferStart' <= Len(fed')
             /\ Stream!HeaderAt(fed', BufferStart')
             /\ Stream!FrameEnd(fed', BufferStart') <= Len(fed'))
    PROVE  Stream!Next
<1>1. Stream!Advance(b)
  BY DEF Stream!Advance
<1>2. QED
  BY <1>1 DEF Stream!Next

\* A buffer shorter than a header holds no header.
LEMMA NoHeaderYet ==
    ASSUME NEW f, NEW q \in Int, Len(f) \in Nat, q + 3 > Len(f)
    PROVE  ~Stream!HeaderAt(f, q)
  BY DEF Stream!HeaderAt, Stream!HeaderComplete

\* The positions and lengths a pushed byte moves, and where the bytes of the
\* buffer lie in the stream.
LEMMA PushFacts ==
    ASSUME IInv, NEW b \in Byte, fed' = Append(fed, b)
    PROVE  /\ Len(fed) \in Nat /\ Len(in_progress) \in Nat
           /\ Len(in_progress) <= Len(fed)
           /\ Len(fed') = Len(fed) + 1
           /\ fed' \in Seq(Byte)
           /\ fed'[Len(fed) + 1] = b
           /\ in_progress \in Seq(Byte)
<1>1. in_progress \in Seq(Byte) /\ fed \in Seq(Byte)
  BY DEF IInv, TypeOK
<1>2. Len(fed) \in Nat /\ Len(in_progress) \in Nat
  BY <1>1, LenProperties
<1>3. Len(in_progress) <= Len(fed)
  BY DEF IInv, BufferIsStreamSuffix, SuffixOf
<1>4. QED
  BY <1>1, <1>2, <1>3, AppendProperties

\* A byte pushed between frames moves the cursor past it or puts it on it.
LEMMA IdleRefines ==
    ASSUME IInv, NEW b \in Byte, PushIdle(b), fed' = Append(fed, b),
           UNCHANGED delivered
    PROVE  Stream!Next
<1>1. /\ in_progress = <<>> /\ Len(fed) \in Nat /\ Len(fed') = Len(fed) + 1
      /\ fed'[Len(fed) + 1] = b
      /\ UNCHANGED <<delivered, completed>>
  BY PushFacts DEF PushIdle
<1>2. BufferStart = Len(fed) + 1
  BY <1>1 DEF BufferStart
<1>3. CASE b = FRAME_DELIMITER
  <2>1. BufferStart' = Len(fed) + 1
    BY <1>1, <1>3 DEF PushIdle, BufferStart
  <2>2. ~Stream!HeaderAt(fed', BufferStart')
    <3>1. Len(fed') \in Nat /\ BufferStart' \in Int /\ BufferStart' + 3 > Len(fed')
      BY <1>1, <2>1
    <3>2. QED
      BY <3>1, NoHeaderYet
  <2>3. /\ BufferStart' \in BufferStart..(Len(fed) + 2)
        /\ ~\E k \in BufferStart..(BufferStart' - 1) : TRUE
    BY <1>1, <1>2, <2>1
  <2>4. QED
    BY <1>1, <2>2, <2>3, AdvanceRefines
<1>4. CASE b # FRAME_DELIMITER
  <2>1. BufferStart' = Len(fed) + 2
    BY <1>1, <1>4 DEF PushIdle, BufferStart
  <2>2. ~(BufferStart' <= Len(fed'))
    BY <1>1, <2>1
  <2>3. \A k \in BufferStart..(BufferStart' - 1) : k = Len(fed) + 1
    BY <1>1, <1>2, <2>1
  <2>4. Stream!NoFrameAt(fed', Len(fed) + 1)
    BY <1>1, <1>4 DEF Stream!NoFrameAt
  <2>5. BufferStart' \in BufferStart..(Len(fed) + 2)
    BY <1>1, <1>2, <2>1
  <2>6. QED
    BY <1>1, <2>2, <2>3, <2>4, <2>5, AdvanceRefines
<1>5. QED
  BY <1>3, <1>4

\* A refused header moves the cursor only over places where no frame starts.
LEMMA HeaderRefines ==
    ASSUME IInv, NEW b \in Byte, PushHeader(b), fed' = Append(fed, b),
           UNCHANGED delivered
    PROVE  Stream!Next
<1>1. /\ Len(fed) \in Nat /\ Len(in_progress) \in Nat
      /\ Len(in_progress) <= Len(fed)
      /\ Len(fed') = Len(fed) + 1
      /\ fed' \in Seq(Byte) /\ in_progress \in Seq(Byte) /\ fed \in Seq(Byte)
      /\ UNCHANGED <<delivered, completed>>
      /\ SuffixOf(in_progress, fed)
      /\ expected_len = None
      /\ Len(in_progress) < 4
  BY PushFacts DEF IInv, TypeOK, PushHeader, BufferIsStreamSuffix,
                   LengthDiscipline, HEADER_LEN
<1>2. PICK buf \in Seq(Byte) : buf = Append(in_progress, b)
  BY <1>1, AppendProperties
<1>3. /\ Len(buf) = Len(in_progress) + 1
      /\ SuffixOf(buf, fed')
  BY <1>1, <1>2, AppendProperties, SuffixAppend
<1>4. IF Len(buf) # HEADER_LEN
      THEN in_progress' = buf
      ELSE IF ValidHeader(buf[2], buf[3], buf[4])
      THEN in_progress' = buf
      ELSE in_progress' = Replay(<<buf[2], buf[3], buf[4]>>)
  BY <1>2 DEF PushHeader
<1>5. /\ BufferStart \in 1..(Len(fed) + 1)
      /\ BufferStart = Len(fed') - Len(buf) + 1
  BY <1>1, <1>3 DEF BufferStart
\* Keeping the whole buffer leaves the cursor where it is.
<1>6. ASSUME in_progress' = buf
      PROVE  /\ BufferStart' = BufferStart
             /\ BufferStart' \in BufferStart..(Len(fed) + 2)
             /\ \A k \in BufferStart..(BufferStart' - 1) :
                   Stream!NoFrameAt(fed', k)
  <2>1. BufferStart' = BufferStart
    BY <1>5, <1>6 DEF BufferStart
  <2>2. /\ BufferStart' \in BufferStart..(Len(fed) + 2)
        /\ BufferStart..(BufferStart' - 1) = {}
    BY <1>1, <1>5, <2>1
  <2>3. QED
    BY <2>1, <2>2
<1>7. CASE Len(buf) # HEADER_LEN
  <2>1. in_progress' = buf
    BY <1>4, <1>7
  <2>2. Len(fed') \in Nat /\ BufferStart \in Int /\ BufferStart + 3 > Len(fed')
    BY <1>1, <1>3, <1>5, <1>7 DEF HEADER_LEN
  <2>3. ~Stream!HeaderAt(fed', BufferStart')
    BY <1>6, <2>1, <2>2, NoHeaderYet
  <2>4. QED
    BY <1>1, <1>6, <2>1, <2>3, AdvanceRefines
<1>8. ASSUME Len(buf) = HEADER_LEN
      PROVE  /\ BufferStart + 3 = Len(fed')
             /\ \A j \in 1..4 : buf[j] = fed'[BufferStart - 1 + j]
  <2>1. BufferStart + 3 = Len(fed')
    BY <1>1, <1>5, <1>8 DEF HEADER_LEN
  <2>2. \A j \in 1..4 : buf[j] = fed'[Len(fed') - 4 + j]
    BY <1>3, <1>8 DEF SuffixOf, HEADER_LEN
  <2>3. \A j \in 1..4 : Len(fed') - 4 + j = BufferStart - 1 + j
    BY <1>1, <1>5, <2>1
  <2>4. QED
    BY <2>1, <2>2, <2>3
<1>9. ASSUME Len(buf) = HEADER_LEN
      PROVE  /\ fed'[BufferStart + 1] = buf[2]
             /\ fed'[BufferStart + 2] = buf[3]
             /\ fed'[BufferStart + 3] = buf[4]
  <2>1. /\ 2 \in 1..4 /\ BufferStart - 1 + 2 = BufferStart + 1
        /\ 3 \in 1..4 /\ BufferStart - 1 + 3 = BufferStart + 2
        /\ 4 \in 1..4 /\ BufferStart - 1 + 4 = BufferStart + 3
    BY <1>1, <1>5
  <2>2. \A j \in 1..4 : buf[j] = fed'[BufferStart - 1 + j]
    BY <1>8, <1>9
  <2>3. QED
    BY <2>1, <2>2
<1>10. CASE Len(buf) = HEADER_LEN /\ ValidHeader(buf[2], buf[3], buf[4])
  <2>1. in_progress' = buf
    BY <1>4, <1>10
  <2>2. buf[2] \in Byte /\ buf[3] \in Byte /\ buf[4] \in Byte
    BY <1>10, HeaderBytes DEF HEADER_LEN
  <2>3. DeclaredLen(buf[2], buf[3]) \in Nat /\ DeclaredLen(buf[2], buf[3]) > 4
    BY <1>10, <2>2, ValidHeaderLength DEF HEADER_LEN
  <2>4. Stream!FrameEnd(fed', BufferStart)
          = BufferStart + DeclaredLen(buf[2], buf[3]) - 1
    BY <1>9, <1>10 DEF Stream!FrameEnd
  <2>5. BufferStart \in Nat /\ BufferStart + 3 = Len(fed')
    BY <1>1, <1>5, <1>8, <1>10
  <2>6. ~(Stream!FrameEnd(fed', BufferStart) <= Len(fed'))
    BY <2>3, <2>4, <2>5
  <2>7. QED
    BY <1>1, <1>6, <2>1, <2>6, AdvanceRefines
<1>11. CASE Len(buf) = HEADER_LEN /\ ~ValidHeader(buf[2], buf[3], buf[4])
  <2>1. PICK r : r = Replay(<<buf[2], buf[3], buf[4]>>)
    OBVIOUS
  <2>2. in_progress' = r
    BY <1>4, <1>11, <2>1
  <2>3. /\ r \in Seq(Byte)
        /\ Len(r) <= 3
        /\ \A j \in 2..(4 - Len(r)) : buf[j] # FRAME_DELIMITER
    BY <1>11, <2>1, ReplaySuffix DEF HEADER_LEN
  <2>4. PICK n \in 0..3 : n = Len(r)
    <3>1. Len(r) \in Nat /\ Len(r) <= 3
      BY <2>3, LenProperties
    <3>2. \A m \in Nat : m <= 3 => m \in 0..3
      OBVIOUS
    <3>3. QED
      BY <3>1, <3>2, Zenon
  <2>5. PICK p \in Nat : p = BufferStart
    BY <1>5
  <2>6. /\ Len(fed') = p + 3 /\ Len(fed) = p + 2
        /\ BufferStart' = p + 4 - n
    <3>1. Len(fed') = p + 3
      BY <1>8, <1>11, <2>5
    <3>2. Len(fed) = p + 2
      BY <1>1, <3>1
    <3>3. BufferStart' = Len(fed') - n + 1
      BY <2>2, <2>4 DEF BufferStart
    <3>4. QED
      BY <3>1, <3>2, <3>3
  <2>11. /\ BufferStart' \in BufferStart..(Len(fed) + 2)
        /\ Len(fed') \in Nat /\ BufferStart' \in Int
        /\ BufferStart' + 3 > Len(fed')
    <3>1. p + 4 - n \in p..(p + 2 + 2) /\ p + 4 - n + 3 > p + 3
      OBVIOUS
    <3>2. QED
      BY <2>5, <2>6, <3>1
  <2>7. ~Stream!HeaderAt(fed', BufferStart')
    BY <2>11, NoHeaderYet
  <2>8. Stream!NoFrameAt(fed', BufferStart)
    <3>1. Stream!HeaderComplete(fed', BufferStart)
      BY <1>1, <1>5, <1>8, <1>11 DEF Stream!HeaderComplete
    <3>2. QED
      BY <1>9, <1>11, <3>1 DEF Stream!NoFrameAt
  <2>9. ASSUME NEW k \in BufferStart..(BufferStart' - 1), k # BufferStart
        PROVE  Stream!NoFrameAt(fed', k)
    <3>1. k \in p..(p + 4 - n - 1) /\ k # p
      BY <2>5, <2>6, <2>9
    <3>2. PICK j \in Int : /\ j = k - p + 1
                           /\ j \in 2..(4 - n) /\ j \in 1..4
                           /\ k = p - 1 + j
      BY <3>1
    <3>3. fed'[k] = buf[j]
      BY <1>8, <1>11, <2>5, <3>2
    <3>4. fed'[k] # FRAME_DELIMITER
      BY <2>3, <2>4, <3>2, <3>3
    <3>5. QED
      BY <3>4 DEF Stream!NoFrameAt
  <2>10. QED
    BY <1>1, <2>7, <2>8, <2>9, <2>11, AdvanceRefines
<1>12. QED
  BY <1>7, <1>10, <1>11

\* A suffix of a stream is the subsequence from its first position on.
LEMMA SuffixIsSubSeq ==
    ASSUME NEW s \in Seq(Byte), NEW f \in Seq(Byte), SuffixOf(s, f)
    PROVE  s = SubSeq(f, Len(f) - Len(s) + 1, Len(f))
<1>1. Len(s) \in Nat /\ Len(f) \in Nat
  BY LenProperties
<1>2. PICK m \in Int : m = Len(f) - Len(s) + 1
  BY <1>1
<1>3. Len(s) <= Len(f)
  BY DEF SuffixOf
<1>4. m >= 1 /\ Len(f) - m + 1 = Len(s) /\ m <= Len(f) + 1
  BY <1>1, <1>2, <1>3
<1>5. \A i \in m..Len(f) : f[i] \in Byte
  BY <1>1, <1>4, LenProperties
<1>6. /\ SubSeq(f, m, Len(f)) \in Seq(Byte)
      /\ Len(SubSeq(f, m, Len(f))) = IF m <= Len(f) THEN Len(f) - m + 1 ELSE 0
      /\ \A i \in 1..(Len(f) - m + 1) : SubSeq(f, m, Len(f))[i] = f[m + i - 1]
  BY <1>1, <1>5, SubSeqProperties
<1>7. Len(SubSeq(f, m, Len(f))) = Len(s)
  BY <1>1, <1>4, <1>6
<1>8. \A i \in 1..Len(s) : s[i] = SubSeq(f, m, Len(f))[i]
  <2>1. \A i \in 1..Len(s) : s[i] = f[Len(f) - Len(s) + i]
    BY DEF SuffixOf
  <2>2. \A i \in 1..Len(s) : m + i - 1 = Len(f) - Len(s) + i
    BY <1>1, <1>2
  <2>3. QED
    BY <1>4, <1>6, <2>1, <2>2
<1>9. s = SubSeq(f, m, Len(f))
  BY <1>6, <1>7, <1>8, SeqEqual
<1>10. QED
  BY <1>2, <1>9

\* The last byte of a body is the stream's Emit, the others are its Advance.
LEMMA BodyRefines ==
    ASSUME IInv, NEW b \in Byte, PushBody(b), fed' = Append(fed, b),
           UNCHANGED delivered
    PROVE  Stream!Next
<1>1. /\ Len(fed) \in Nat /\ Len(in_progress) \in Nat
      /\ Len(in_progress) <= Len(fed)
      /\ Len(fed') = Len(fed) + 1
      /\ fed' \in Seq(Byte) /\ in_progress \in Seq(Byte) /\ fed \in Seq(Byte)
      /\ completed \in Seq(Seq(Byte)) /\ delivered \in Seq(Seq(Byte))
      /\ SuffixOf(in_progress, fed)
  BY PushFacts DEF IInv, TypeOK, BufferIsStreamSuffix
<1>2. /\ expected_len # None /\ expected_len \in Nat
      /\ 4 <= Len(in_progress) /\ Len(in_progress) < expected_len
      /\ in_progress[1] = FRAME_DELIMITER
      /\ ValidHeader(in_progress[2], in_progress[3], in_progress[4])
      /\ expected_len = DeclaredLen(in_progress[2], in_progress[3])
  BY <1>1 DEF IInv, TypeOK, PushBody, LengthDiscipline, BufferIsStreamSuffix,
              HEADER_LEN
<1>3. PICK buf \in Seq(Byte) : buf = Append(in_progress, b)
  BY <1>1, AppendProperties
<1>4. /\ Len(buf) = Len(in_progress) + 1
      /\ SuffixOf(buf, fed')
      /\ \A i \in 1..Len(in_progress) : buf[i] = in_progress[i]
  BY <1>1, <1>3, AppendProperties, SuffixAppend
<1>5. PICK p \in Nat : /\ p = BufferStart /\ p >= 1
                       /\ p = Len(fed') - Len(buf) + 1
                       /\ p + 3 <= Len(fed) /\ p <= Len(fed)
                       /\ Len(fed') = p + Len(in_progress)
  <2>1. BufferStart = Len(fed) - Len(in_progress) + 1
    BY DEF BufferStart
  <2>2. 4 <= Len(in_progress)
    BY <1>2
  <2>3. PICK l \in Nat, n \in Nat : l = Len(fed) /\ n = Len(in_progress)
    BY <1>1
  <2>4. /\ Len(fed') = l + 1 /\ Len(buf) = n + 1 /\ 4 <= n /\ n <= l
        /\ BufferStart = l - n + 1
    BY <1>1, <1>4, <2>1, <2>2, <2>3
  <2>5. l - n + 1 \in Nat /\ l - n + 1 >= 1 /\ l - n + 1 = (l + 1) - (n + 1) + 1
        /\ l - n + 1 + 3 <= l /\ l - n + 1 <= l /\ l + 1 = l - n + 1 + n
    BY <2>4
  <2>6. QED
    BY <2>3, <2>4, <2>5
<1>6. /\ fed'[p] = in_progress[1]
      /\ fed'[p + 1] = in_progress[2]
      /\ fed'[p + 2] = in_progress[3]
      /\ fed'[p + 3] = in_progress[4]
  <2>1. \A i \in 1..Len(buf) : buf[i] = fed'[Len(fed') - Len(buf) + i]
    BY <1>4 DEF SuffixOf
  <2>2. \A i \in 1..4 : i \in 1..Len(in_progress) /\ i \in 1..Len(buf)
    <3>1. 4 <= Len(in_progress)
      BY <1>2
    <3>2. QED
      BY <1>1, <1>4, <3>1
  <2>3. \A i \in 1..4 : Len(fed') - Len(buf) + i = p - 1 + i
    BY <1>1, <1>4, <1>5
  <2>4. \A i \in 1..4 : in_progress[i] = fed'[p - 1 + i]
    BY <1>4, <2>1, <2>2, <2>3
  <2>5. /\ 1 \in 1..4 /\ p - 1 + 1 = p
        /\ 2 \in 1..4 /\ p - 1 + 2 = p + 1
        /\ 3 \in 1..4 /\ p - 1 + 3 = p + 2
        /\ 4 \in 1..4 /\ p - 1 + 4 = p + 3
    OBVIOUS
  <2>6. QED
    BY <2>4, <2>5
<1>7. /\ Stream!HeaderAt(fed', p)
      /\ Stream!FrameEnd(fed', p) = p + expected_len - 1
  <2>1. p + 3 <= Len(fed')
    BY <1>1, <1>5
  <2>2. Stream!HeaderAt(fed', p)
    BY <1>2, <1>6, <2>1 DEF Stream!HeaderAt, Stream!HeaderComplete
  <2>3. DeclaredLen(fed'[p + 1], fed'[p + 2]) = expected_len
    BY <1>2, <1>6
  <2>4. QED
    BY <2>2, <2>3 DEF Stream!FrameEnd
<1>8. CASE Len(buf) >= expected_len
  <2>1. /\ completed' = Append(completed, buf)
        /\ in_progress' = <<>>
    BY <1>3, <1>8 DEF PushBody
  <2>2. Len(buf) = expected_len
    BY <1>1, <1>2, <1>4, <1>8
  <2>3. Stream!FrameEnd(fed', p) = Len(fed')
    <3>1. expected_len = Len(in_progress) + 1
      BY <1>4, <2>2
    <3>2. p + (Len(in_progress) + 1) - 1 = p + Len(in_progress)
      BY <1>1
    <3>3. QED
      BY <1>5, <1>7, <3>1, <3>2
  <2>4. buf = SubSeq(fed', p, Len(fed'))
    BY <1>1, <1>4, <1>5, SuffixIsSubSeq
  <2>5. delivered' \o completed' = Append(delivered \o completed, buf)
    <3>1. completed' = completed \o <<buf>> /\ <<buf>> \in Seq(Seq(Byte))
      BY <1>1, <2>1, AppendIsConcat
    <3>2. delivered \o completed \in Seq(Seq(Byte))
      BY <1>1, ConcatProperties
    <3>3. Append(delivered \o completed, buf) = (delivered \o completed) \o <<buf>>
      BY <3>2, AppendIsConcat
    <3>4. QED
      BY <1>1, <3>1, <3>3, ConcatAssociative
  <2>6. BufferStart' = Len(fed') + 1
    BY <1>1, <2>1 DEF BufferStart
  <2>7. Stream!Emit(b)
    BY <1>5, <1>7, <2>3, <2>4, <2>5, <2>6 DEF Stream!Emit
  <2>8. QED
    BY <2>7 DEF Stream!Next
<1>9. CASE ~(Len(buf) >= expected_len)
  <2>1. in_progress' = buf /\ UNCHANGED <<delivered, completed>>
    BY <1>3, <1>9 DEF PushBody
  <2>2. BufferStart' = p
    BY <1>5, <2>1 DEF BufferStart
  <2>3. /\ BufferStart' \in BufferStart..(Len(fed) + 2)
        /\ BufferStart..(BufferStart' - 1) = {}
    BY <1>1, <1>5, <2>2
  <2>4. ~(Stream!FrameEnd(fed', BufferStart') <= Len(fed'))
    <3>1. Len(in_progress) + 1 < expected_len
      BY <1>1, <1>2, <1>4, <1>9
    <3>2. ~(p + expected_len - 1 <= p + Len(in_progress))
      BY <1>1, <1>2, <3>1
    <3>3. QED
      BY <1>5, <1>7, <2>2, <3>2
  <2>5. QED
    BY <2>1, <2>3, <2>4, AdvanceRefines
<1>10. QED
  BY <1>8, <1>9

\* Every step of the reader is a step of the stream or leaves it unchanged.
LEMMA NextRefines == IInv /\ [Next]_vars => [Stream!Next]_(Stream!svars)
<1> SUFFICES ASSUME IInv, [Next]_vars
             PROVE  [Stream!Next]_(Stream!svars)
  OBVIOUS
<1>1. CASE \E b \in Byte : push_byte(b)
  <2>1. PICK b \in Byte : push_byte(b)
    BY <1>1
  <2>2. fed' = Append(fed, b) /\ UNCHANGED delivered
    BY <2>1 DEF push_byte
  <2>3. CASE PushIdle(b)    BY <2>2, <2>3, IdleRefines
  <2>4. CASE PushHeader(b)  BY <2>2, <2>4, HeaderRefines
  <2>5. CASE PushBody(b)    BY <2>2, <2>5, BodyRefines
  <2>6. QED
    BY <2>1, <2>3, <2>4, <2>5 DEF push_byte
<1>2. CASE pop_frame
  BY <1>2, PopStutters
<1>3. CASE UNCHANGED vars
  BY <1>3 DEF vars, Stream!svars, BufferStart
<1>4. QED
  BY <1>1, <1>2, <1>3 DEF Next

\* The frame reader implements the stream specification: whatever noise
\* precedes, follows or separates the frames, no valid header is missed and
\* every frame is handed over whole, once and in order.
THEOREM ReaderImplementsStream == Spec => ImplementsStream
  BY InitRefines, NextRefines, ReaderInvariant, PTL
     DEF Spec, ImplementsStream, Stream!Spec
=============================================================================
