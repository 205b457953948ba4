---------------------------- MODULE MCEdgeStream ----------------------------
(***************************************************************************)
(* Small instances of EdgeStream.  The stream starts three numbers before  *)
(* the wrap; its tags are in one to three pieces.                          *)
(***************************************************************************)
EXTENDS EdgeStream

MCTags == << [frags |-> 2, av |-> TRUE],
             [frags |-> 1, av |-> TRUE],
             [frags |-> 3, av |-> TRUE],
             [frags |-> 1, av |-> TRUE],
             [frags |-> 2, av |-> TRUE] >>

\* The number of the first packet of each tag, and of the end of the stream.
MCStart[t \in 1 .. Len(MCTags) + 1] ==
    IF t = 1 THEN FirstPacket ELSE MCStart[t - 1] + MCTags[t - 1].frags

MCTagAt ==
    [p \in FirstPacket .. LastPacket + 1 |->
        Cardinality({t \in DOMAIN MCStart : MCStart[t] <= p})]

MCFragAt == [p \in DOMAIN MCTagAt |-> p - MCStart[MCTagAt[p]] + 1]

=============================================================================
