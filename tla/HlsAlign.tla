------------------------------ MODULE HlsAlign ------------------------------
(***************************************************************************)
(* The alignment of audio times in the HLS output: the type align.         *)
(*                                                                         *)
(* FLV times are whole milliseconds, audio frames are not: the times of    *)
(* consecutive frames are counted up by the length of a frame from a base  *)
(* as long as they stay close to the times of the tags.                    *)
(***************************************************************************)
EXTENDS Integers

CONSTANTS Hz,     \* h264_default_hz: ticks in a millisecond
          SyncMs  \* syncms: how far the count may be off

ASSUME AlignAssumption == Hz \in Nat \ {0} /\ SyncMs \in Nat

Sync == SyncMs * Hz

\* A count as align.go keeps it.
Count == [frameNum : Nat, frameBase : Int]

NewAlign == [frameNum |-> 0, frameBase |-> 0]

\* The time the count gives to the next frame of inc ticks.
Estimate(a, inc) == a.frameBase + a.frameNum * inc

\* Mutant of Near: only an estimate that is too low is given up.
NearBelow(est, dts) == dts - est <= Sync

\* dPts is at most the tolerance.
Near(est, dts) == est - dts <= Sync /\ dts - est <= Sync

\* align: the count goes on, or starts again at dts.
Align(a, dts, inc) ==
    IF Near(Estimate(a, inc), dts)
    THEN [frameNum |-> a.frameNum + 1, frameBase |-> a.frameBase]
    ELSE [frameNum |-> 1, frameBase |-> dts]

\* The time align writes back through its argument.
Aligned(a, dts, inc) ==
    IF Near(Estimate(a, inc), dts) THEN Estimate(a, inc) ELSE dts

=============================================================================
