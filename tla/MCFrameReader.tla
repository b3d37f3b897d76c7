---------------------------- MODULE MCFrameReader ---------------------------
(***************************************************************************)
(* Frame lengths are scaled from 18..2048 to exactly 5.  The alphabet is   *)
(* the delimiter, that length, its checksum (126 ^ 5 = 123) and zero, so   *)
(* that valid headers, bad checksums, a too short length (0) and a too     *)
(* long one (5 + 256 * 5) with a correct checksum (126), and delimiters    *)
(* inside headers and bodies all occur.  Ten bytes hold two frames back to *)
(* back, or one frame after every possible five-byte resync.               *)
(***************************************************************************)
EXTENDS FrameReader
=============================================================================
