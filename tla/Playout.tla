------------------------------- MODULE Playout ------------------------------
(***************************************************************************)
(* What the reorder queue promises the FLV parser: from some packet on,    *)
(* every packet number exactly once and in order, either as the packet or  *)
(* as Nil when the packet could not be had.                                *)
(***************************************************************************)
EXTENDS Naturals, Sequences

CONSTANT Nil

VARIABLES playing,  \* a first packet has fixed the position
          pos,      \* the packet number that is handed out next
          out       \* what was handed out

vars == <<playing, pos, out>>

Init ==
    /\ playing = FALSE
    /\ pos = 0
    /\ out = <<>>

Start ==
    /\ ~playing
    /\ playing' = TRUE
    /\ pos' \in Nat
    /\ UNCHANGED out

Deliver ==
    /\ playing
    /\ \E item \in {pos, Nil} : out' = Append(out, item)
    /\ pos' = pos + 1
    /\ UNCHANGED playing

Next == Start \/ Deliver

Spec == Init /\ [][Next]_vars

=============================================================================
