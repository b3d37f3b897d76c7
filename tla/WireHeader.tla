----------------------------- MODULE WireHeader -----------------------------
(***************************************************************************)
(* The four-byte header every SMA Bluetooth frame starts with:             *)
(*     0x7E | len_lo | len_hi | 0x7E ^ len_lo ^ len_hi                     *)
(* The length counts every byte of the frame on the wire, the header       *)
(* included.  FrameReader (bluez-transport) cuts the byte stream with it   *)
(* and Frame::parse (sma-bt-protocol) checks it again.                     *)
(***************************************************************************)
EXTENDS Integers, Sequences

CONSTANTS
    Byte,           \* the byte values the stream may carry
    MIN_FRAME_LEN,  \* smallest declared length accepted (18 in the code)
    MAX_FRAME_LEN   \* largest declared length accepted (2048 in the code)

FRAME_DELIMITER == 126  \* 0x7E
HEADER_LEN == 4

\* A declared length below the header's own size would make the reader emit
\* a frame while it is still reading the header.
ASSUME WireAssumption ==
    /\ Byte \subseteq 0..255
    /\ FRAME_DELIMITER \in Byte
    /\ MIN_FRAME_LEN \in Nat
    /\ MAX_FRAME_LEN \in Nat
    /\ HEADER_LEN < MIN_FRAME_LEN

\* Bitwise exclusive or of two bytes, the code's ^ on u8.
XorByte(a, b) ==
    LET bit(w) == ((a \div w) + (b \div w)) % 2       \* the bit of weight w
    IN  bit(1) + 2*bit(2) + 4*bit(4) + 8*bit(8)
        + 16*bit(16) + 32*bit(32) + 64*bit(64) + 128*bit(128)

\* u16::from_le_bytes([lo, hi])
DeclaredLen(lo, hi) == lo + 256 * hi

BugAnyLength(lo, hi, cks) ==
    /\ cks = XorByte(XorByte(FRAME_DELIMITER, lo), hi)
    /\ DeclaredLen(lo, hi) > HEADER_LEN

\* The header test: checksum matches and the declared length is plausible.
ValidHeader(lo, hi, cks) ==
    /\ cks = XorByte(XorByte(FRAME_DELIMITER, lo), hi)
    /\ DeclaredLen(lo, hi) \in MIN_FRAME_LEN..MAX_FRAME_LEN
=============================================================================
