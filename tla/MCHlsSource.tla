----------------------------- MODULE MCHlsSource ----------------------------
(***************************************************************************)
(* Three streams for HlsSource.  The first is cut five times, has audio on *)
(* both sides of a cut, more of it than is cached, and a key frame that    *)
(* comes too early for a cut.  The second has the tags that are no frames  *)
(* and ends in one the demuxer rejects, with others behind it.  The third  *)
(* has audio whose times step back, so that align starts its count again,  *)
(* is published again from time 0, and makes the source's goroutine panic. *)
(***************************************************************************)
EXTENDS HlsSource

Tag(kind, ts) == [kind |-> kind, ts |-> ts]

MCTags == {
    << Tag("audio", 0), Tag("key", 0), Tag("audio", 1), Tag("inter", 3),
       Tag("key", 4), Tag("audio", 4), Tag("audio", 5), Tag("audio", 6),
       Tag("inter", 7), Tag("key", 8), Tag("inter", 9), Tag("key", 10),
       Tag("inter", 12), Tag("audio", 12), Tag("key", 13), Tag("inter", 16),
       Tag("inter", 17), Tag("key", 18), Tag("inter", 21), Tag("key", 22) >>,
    << Tag("meta", 0), Tag("head", 0), Tag("key", 0), Tag("end", 1),
       Tag("odd", 1), Tag("inter", 3), Tag("key", 4), Tag("inter", 5),
       Tag("broken", 5), Tag("key", 8), Tag("inter", 9), Tag("inter", 9),
       Tag("inter", 10) >>,
    << Tag("key", 9), Tag("audio", 10), Tag("audio", 11), Tag("audio", 12),
       Tag("audio", 11), Tag("audio", 13), Tag("publish", 0), Tag("key", 0),
       Tag("audio", 0), Tag("inter", 3), Tag("key", 4), Tag("wild", 5),
       Tag("inter", 5), Tag("inter", 6), Tag("inter", 7) >> }

=============================================================================
