----------------------------- MODULE FrameCodec -----------------------------
(***************************************************************************)
(* The wire codec of sma-bt-protocol: FCS-16, byte stuffing, FrameBuilder  *)
(* and Frame::parse, on sequences of bytes.                                *)
(*                                                                         *)
(*   L1-only frame    header(18) | payload                                 *)
(*   L2-wrapped frame header(18) | 7E | stuff(payload | FCS) | 7E          *)
(*                                                                         *)
(* Offsets are the code's, counted from 0.  No operator is RECURSIVE.      *)
(***************************************************************************)
EXTENDS WireHeader, SequencesExt

STUFF_BYTES == {\h7D, \h7E, \h11, \h12, \h13}
STUFF_ESCAPE == \h7D
STUFF_XOR == \h20
BT_L2_SIGNATURE == <<\hFF, \h03, \h60, \h65>>  \* 0x656003FF, little-endian

Slice(s, from, to) == SubSeq(s, from + 1, to)   \* s[from..to]
Drop(s, from) == SubSeq(s, from + 1, Len(s))    \* s[from..]
LE16(n) == <<n % 256, (n \div 256) % 256>>
U16(s, at) == s[at + 1] + 256 * s[at + 2]

Ok(v) == [tag |-> "ok", val |-> v]
Err(e) == [tag |-> "err", err |-> e]
-----------------------------------------------------------------------------
(***************************************************************************)
(* FCS-16 (fcs.rs)                                                         *)
(***************************************************************************)
U16_MAX == \hFFFF

Xor16(a, b) ==
    XorByte(a % 256, b % 256) + 256 * XorByte(a \div 256, b \div 256)

Shift(v) == IF v % 2 = 1 THEN Xor16(v \div 2, \h8408) ELSE v \div 2

\* The table the const block computes: eight shifts of each byte.
FCS_TAB ==
    LET shift2(v) == Shift(Shift(v))
        shift4(v) == shift2(shift2(v))
    IN  [b \in 0..255 |-> shift4(shift4(b))]

update(fcs, byte) == Xor16(fcs \div 256, FCS_TAB[XorByte(fcs % 256, byte)])

\* The loop over the slice, from the fcs after the first `at` bytes.
update_slice(data) ==
    LET loop[s \in [fcs : 0..U16_MAX, at : 0..Len(data)]] ==
          IF s.at = Len(data) THEN s.fcs
          ELSE loop[[fcs |-> update(s.fcs, data[s.at + 1]), at |-> s.at + 1]]
    IN  loop[[fcs |-> \hFFFF, at |-> 0]]

compute(data) == Xor16(update_slice(data), \hFFFF)
-----------------------------------------------------------------------------
(***************************************************************************)
(* Byte stuffing (frame.rs)                                                *)
(***************************************************************************)
BugDelimitersOnly(data) ==
    FlattenSeq([i \in 1..Len(data) |->
        IF data[i] \in {STUFF_ESCAPE, FRAME_DELIMITER}
        THEN <<STUFF_ESCAPE, XorByte(data[i], STUFF_XOR)>> ELSE <<data[i]>>])

Escape(b) ==
    IF b \in STUFF_BYTES THEN <<STUFF_ESCAPE, XorByte(b, STUFF_XOR)>> ELSE <<b>>

stuff(data) == FlattenSeq([i \in 1..Len(data) |-> Escape(data[i])])

\* marker[i]: the i-th byte is an escape and not itself escaped.
Markers(data) ==
    LET marker[i \in 0..Len(data)] ==
          i # 0 /\ data[i] = STUFF_ESCAPE /\ ~marker[i - 1]
    IN  marker

\* What the i-th byte adds to the output.
Unescape(marker, data, i) ==
    IF marker[i] THEN <<>>
    ELSE IF marker[i - 1] THEN <<XorByte(data[i], STUFF_XOR)>> ELSE <<data[i]>>

unstuff(data) ==
    LET marker == Markers(data)
    IN  IF marker[Len(data)] THEN Err("TruncatedEscape")
        ELSE Ok(FlattenSeq([i \in 1..Len(data) |-> Unescape(marker, data, i)]))
-----------------------------------------------------------------------------
(***************************************************************************)
(* FrameBuilder                                                            *)
(***************************************************************************)
Frame(kind, local_bt, dest_bt, control, payload) ==
    [kind |-> kind, local_bt |-> local_bt, dest_bt |-> dest_bt,
     control |-> control, payload |-> payload]

Header(total_len, f) ==
    <<FRAME_DELIMITER>> \o LE16(total_len)
    \o <<XorByte(XorByte(FRAME_DELIMITER, total_len % 256), total_len \div 256)>>
    \o f.local_bt \o f.dest_bt \o LE16(f.control)

build_l1_only(f) == Header(18 + Len(f.payload), f) \o f.payload

\* Header, separator, body, trailer.
Wrap(f, body) ==
    Header(18 + 1 + Len(body) + 1, f)
    \o <<FRAME_DELIMITER>> \o body \o <<FRAME_DELIMITER>>

build_l2_wrapped(f) == Wrap(f, stuff(f.payload \o LE16(compute(f.payload))))

build(f) ==
    IF f.kind = "L1Only" THEN build_l1_only(f) ELSE build_l2_wrapped(f)
-----------------------------------------------------------------------------
(***************************************************************************)
(* Frame::parse and parse_l2_only_blob                                     *)
(***************************************************************************)
BugNoSeparator(raw, off) ==
    /\ Len(raw) >= off + 4
    /\ Slice(raw, 18, 22) = BT_L2_SIGNATURE

\* The offset of the L2 signature: right after the header, or after a
\* separator.
SignatureAt(raw, off) ==
    /\ Len(raw) >= off + 4
    /\ off = 19 => raw[19] = FRAME_DELIMITER
    /\ Slice(raw, off, off + 4) = BT_L2_SIGNATURE

\* The FCS is cut off and never compared.
StripFcs(unstuffed) ==
    IF unstuffed.tag = "err" THEN unstuffed
    ELSE IF Len(unstuffed.val) < 2 THEN Err("TooShort")
    ELSE Ok(Slice(unstuffed.val, 0, Len(unstuffed.val) - 2))

\* A frame without a trailer is a push: no FCS, the body runs to the end.
L2Payload(raw, sig_off) ==
    IF Last(raw) = FRAME_DELIMITER
    THEN StripFcs(unstuff(Slice(raw, sig_off, Len(raw) - 1)))
    ELSE unstuff(Drop(raw, sig_off))

\* The tests on the header, in the order the code makes them.
HeaderError(raw) ==
    IF Len(raw) < MIN_FRAME_LEN THEN "TooShort"
    ELSE IF raw[1] # FRAME_DELIMITER THEN "MissingStart"
    ELSE IF raw[4] # XorByte(XorByte(FRAME_DELIMITER, raw[2]), raw[3])
         THEN "HeaderChecksum"
    ELSE IF DeclaredLen(raw[2], raw[3]) # Len(raw) THEN "LengthMismatch"
    ELSE "none"

parse(raw) ==
    LET sigs == {off \in {18, 19} : SignatureAt(raw, off)}
        body == IF sigs = {} THEN Ok(Drop(raw, 18)) ELSE L2Payload(raw, Min(sigs))
    IN  IF HeaderError(raw) # "none" THEN Err(HeaderError(raw))
        ELSE IF body.tag = "err" THEN body
        ELSE Ok(Frame(IF sigs = {} THEN "L1Only" ELSE "L2Wrapped",
                      Slice(raw, 4, 10), Slice(raw, 10, 16), U16(raw, 16),
                      body.val))

\* The blob SBFspot logs: 7E, signature, stuffed body and FCS, 7E, junk.
parse_l2_only_blob(raw) ==
    LET ends == {i \in 6..Len(raw) : raw[i] = FRAME_DELIMITER}
    IN  IF Len(raw) < 6 THEN Err("TooShort")
        ELSE IF raw[1] # FRAME_DELIMITER THEN Err("MissingStart")
        ELSE IF Slice(raw, 1, 5) # BT_L2_SIGNATURE THEN Err("HeaderChecksum")
        ELSE IF ends = {} THEN Err("MissingEnd")
        ELSE StripFcs(unstuff(Slice(raw, 1, Min(ends) - 1)))
=============================================================================
