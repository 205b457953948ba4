----------------------------- MODULE MCRecordFile ---------------------------
(***************************************************************************)
(* A short stream for RecordFile: tags in one to four pieces, some of them *)
(* no audio or video tags.  The first is long enough for a node that joins *)
(* inside it to meet a middle fragment behind the one it starts with.      *)
(***************************************************************************)
EXTENDS RecordFile

MCTags == << [frags |-> 4, av |-> TRUE],
             [frags |-> 1, av |-> TRUE],
             [frags |-> 2, av |-> TRUE],
             [frags |-> 1, av |-> FALSE],
             [frags |-> 1, av |-> TRUE],
             [frags |-> 3, av |-> TRUE],
             [frags |-> 2, av |-> FALSE] >>

=============================================================================
