------------------------------ MODULE RtpParse ------------------------------
(***************************************************************************)
(* Parser.Parse: where the payload of an RTP datagram begins and ends.     *)
(*                                                                         *)
(* A datagram is its length and the fields that move the two ends; the     *)
(* bytes themselves do not matter here.  A field that does not fit in what *)
(* is left of the datagram is passed over.                                 *)
(***************************************************************************)
EXTENDS Integers

RTP_FIXED_HEADER_LENGTH == 12

\* extWords is the length in the extension header (two bytes; a larger one would
\* change nothing), lastByte the last byte.
Datagram == [len : Nat, csrcCnt : 0 .. 15, extension : BOOLEAN,
             extWords : Nat, padding : BOOLEAN, lastByte : 0 .. 255]

\* The offset moves on by n if that much is left.
Skipped(offset, end, n) == IF end - offset >= n THEN offset + n ELSE offset

AfterCsrc(d) == Skipped(RTP_FIXED_HEADER_LENGTH, d.len, 4 * d.csrcCnt)

PayloadOffset(d) ==
    IF d.extension /\ d.len - AfterCsrc(d) >= 4
    THEN Skipped(AfterCsrc(d) + 4, d.len, 4 * d.extWords)
    ELSE AfterCsrc(d)

PayloadEnd(d) ==
    IF d.padding /\ d.len > PayloadOffset(d)
                 /\ d.len - PayloadOffset(d) >= d.lastByte
    THEN d.len - d.lastByte
    ELSE d.len

\* Parse returns a packet and not nil.
Parses(d) ==
    /\ d.len >= RTP_FIXED_HEADER_LENGTH
    /\ PayloadEnd(d) - PayloadOffset(d) >= 1

=============================================================================
