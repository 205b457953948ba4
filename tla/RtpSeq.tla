------------------------------- MODULE RtpSeq -------------------------------
(***************************************************************************)
(* The RTP sequence-number arithmetic of the edge node: uint16 numbers     *)
(* that wrap, the comparison utils.FirstBeforeSecond and the slot offset   *)
(* that Queue.Enqueue computes from it.                                    *)
(*                                                                         *)
(* The code has SeqSpace = 2^16 and Horizon = 60000.  Both are parameters  *)
(* so that TLC can wrap around in a short stream and the proofs hold for   *)
(* every choice.                                                           *)
(***************************************************************************)
EXTENDS Integers

CONSTANTS SeqSpace,  \* how many sequence numbers there are (2^16)
          Horizon    \* the constant 60000 of FirstBeforeSecond

\* The horizon lies in the upper half of the sequence space, as 60000 does.
ASSUME SeqAssumption ==
    /\ SeqSpace \in Nat \ {0}
    /\ Horizon \in Nat
    /\ Horizon < SeqSpace
    /\ SeqSpace <= 2 * Horizon

SeqNo == 0 .. SeqSpace - 1

\* The number range on both sides of a sequence number inside which the
\* comparison below is right (5536 in the code).
Reach == SeqSpace - Horizon

\* Conversion of an integer to uint16.
U16(x) == x % SeqSpace

\* utils.FirstBeforeSecond: the differences are taken from the larger number,
\* so the uint16 subtractions do not wrap.
FirstBeforeSecond(seq1, seq2) ==
    IF seq1 < seq2 THEN seq2 - seq1 < Horizon ELSE seq1 - seq2 > Horizon

\* The slot offset of seq in a queue whose head has number first.  The second
\* branch is the code's uint16 sum 65535 - first + seq + 1.
Relative(seq, first) ==
    IF seq > first THEN seq - first ELSE U16(SeqSpace - 1 - first + seq + 1)

=============================================================================
