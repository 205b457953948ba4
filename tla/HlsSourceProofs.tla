--------------------------- MODULE HlsSourceProofs --------------------------
(***************************************************************************)
(* The HLS source, for every stream, window, segment length and cache: the *)
(* window holds the newest segments, a playlist that is read while it      *)
(* moves is in order, and audio keeps its time.                            *)
(***************************************************************************)
EXTENDS HlsSource, SequenceTheorems, TLAPS

-----------------------------------------------------------------------------
(* Inductive invariants. *)

\* The newest segment in the list: while cut runs, the one before it.
Newest == IF sender \in Cutting THEN Len(made) - 1 ELSE Len(made)

\* The list holds consecutive segments up to the newest, and is short of its
\* bound only before it was full, or by the element that cut replaces.
ListInv ==
    /\ Len(ll) <= Newest
    /\ \A i \in 1 .. Len(ll) : ll[i] = Newest - Len(ll) + i
    /\ sender = "evict" => Len(ll) = TsCacheNum
    /\ sender = "delete" => /\ Len(ll) = TsCacheNum - 1
                            /\ evicted = Newest - Len(ll) /\ evicted # 0
    /\ sender \in {"delete", "store", "push"} => Len(ll) < TsCacheNum
    /\ sender \in {"store", "push"} /\ Len(ll) < TsCacheNum - 1 => Len(ll) = Newest
    /\ sender \notin Cutting => /\ Len(ll) <= TsCacheNum
                                /\ Len(ll) < TsCacheNum => Len(ll) = Newest

\* Names do not decrease, the map leads from a name to a segment of that name, and
\* it has the names of the list; while cut runs, that of the element it removes
\* or adds too.
MapInv ==
    /\ \A i, j \in DOMAIN made : i <= j => made[i].name <= made[j].name
    /\ \A k \in DOMAIN lm :
          /\ made[lm[k]].name = k
          /\ \/ \E i \in ToSet(ll) : made[i].name = k
             \/ sender = "delete" /\ k = made[evicted].name
             \/ sender = "push" /\ k = LastName
    /\ made # <<>> /\ (sender \notin Cutting \/ sender = "push") =>
          LastName \in DOMAIN lm /\ lm[LastName] = Len(made)
    /\ NamesUnique =>
          \A i \in ToSet(ll) : made[i].name \in DOMAIN lm /\ lm[made[i].name] = i

\* The handler is at most at the newest element and never before the segment it
\* listed last.  If no two share a name, it is at that segment, at the next one, or
\* at one that has left the list.
ViewInv ==
    /\ at <= Newest
    /\ viewer = "next" => at # 0
    /\ body # <<>> =>
          LET b == body[Len(body)]
          IN  /\ at # 0 => made[b].name <= made[at].name
              /\ made[b].name \in DOMAIN lm => b <= lm[made[b].name]
              /\ NamesUnique =>
                    /\ viewer = "look" => at \in {0, b + 1}
                    /\ viewer = "next" => \/ at = b
                                          \/ at = b + 1 /\ at \notin ToSet(ll)
    /\ PlaylistInOrder

\* The tags SendPacket has still to receive.
Awaited(n) == n \in ToSet(packetQueue) \/ n \in next .. Len(tags)

Live == sender \notin {"ended", "panicked"}

\* Tags come in the order of the stream, and as long as the goroutine lives no
\* frame between them is missing.
FlowInv ==
    /\ closed => sender = "ended"
    /\ \A i, j \in DOMAIN packetQueue : i < j => packetQueue[i] < packetQueue[j]
    /\ \A n \in ToSet(packetQueue) : n < next
    /\ Live => \A m, n \in DOMAIN tags :
                  Awaited(m) /\ m < n /\ Kind(n) \in Media => Awaited(n)

\* The segment at hand, with the audio that is not muxed yet.
Pending == btswriter \o cache

\* What the segment that is not cut yet holds, and where it starts.
Held == IF cur # 0 THEN {cur} ELSE ToSet(Pending)

\* The segment at hand starts at a key frame and holds frames in order, all before
\* those that are awaited.
PendingInv ==
    /\ \A n \in ToSet(Pending) \cup ({cur} \ {0}) :
          Kind(n) \in Media /\ \A m \in DOMAIN tags : Awaited(m) => n < m
    /\ btswriter # <<>> /\ Kind(btswriter[1]) = "key"
    /\ \A n \in ToSet(Pending) : btswriter[1] <= n
    /\ \A n \in ToSet(cache) : Kind(n) = "audio"
    /\ InStreamOrder(Pending)

\* Every frame from the start of the segment at hand on is in it or awaited.
SegmentInv ==
    /\ cur # 0 <=> sender \in Cutting
    /\ cur # 0 => cache = <<>> /\ Kind(cur) = "key"
    /\ btswriter = Nil => cache = <<>> /\ made = <<>> /\ cur = 0
    /\ btswriter # Nil => PendingInv
    /\ btswriter # Nil /\ Live =>
          \A n \in DOMAIN tags :
              Start <= n /\ Kind(n) \in Media => n \in Held \/ Awaited(n)
    /\ \A k \in DOMAIN made : made[k].data # <<>>
    /\ SegmentsExact

\* The audio muxed so far and that in the cache, which has its time already.
Due == IF cache = <<>> THEN stamps ELSE Stamped(cache, audioPts)

\* The same for Due.  The time of its last entry is known in ticks, the entry is
\* before what is awaited, and the count is not behind it unless the tags' times go
\* back.
AudioInv ==
    /\ InTime(Due)
    /\ Due # <<>> =>
          LET last == Due[Len(Due)]
          IN  /\ last.ts = audioPts \div Hz
              /\ Near(audioPts, Dts(last.frame))
              /\ \A n \in DOMAIN tags : Awaited(n) =>
                    /\ last.frame < n
                    /\ NoStepBack(last.frame, n) => audioPts <= Estimate(align, Inc)

-----------------------------------------------------------------------------
(* The alignment of audio times, for every frame length, clock rate and       *)
(* tolerance.                                                                 *)

\* The tolerance is a number of ticks.
LEMMA SyncType == Sync \in Nat
  BY AlignAssumption DEF Sync

\* The counted time of a frame is a number of ticks.
LEMMA EstimateType ==
    ASSUME NEW a \in Count, NEW inc \in Nat
    PROVE  Estimate(a, inc) \in Int
<1>1. a.frameNum \in Int /\ a.frameBase \in Int
  BY DEF Count
<1> QED BY <1>1 DEF Estimate

\* The count is kept as the type says.
LEMMA AlignType ==
    ASSUME NEW a \in Count, NEW dts \in Int, NEW inc \in Nat
    PROVE  Align(a, dts, inc) \in Count
<1>1. a.frameNum \in Nat /\ a.frameBase \in Int
  BY DEF Count
<1>2. CASE Near(Estimate(a, inc), dts)
  <2>1. Align(a, dts, inc) = [frameNum |-> a.frameNum + 1,
                              frameBase |-> a.frameBase]
    BY <1>2 DEF Align
  <2> QED BY <1>1, <2>1 DEF Count
<1>3. CASE ~Near(Estimate(a, inc), dts)
  <2>1. Align(a, dts, inc) = [frameNum |-> 1, frameBase |-> dts]
    BY <1>3 DEF Align
  <2> QED BY <2>1 DEF Count
<1> QED BY <1>2, <1>3

\* An aligned time is never further from the tag's time than the tolerance,
\* whatever the count is: the first part of AudioInTime.
THEOREM AlignedIsNear ==
    ASSUME NEW a \in Count, NEW dts \in Int, NEW inc \in Nat
    PROVE  /\ Aligned(a, dts, inc) \in Int
           /\ Aligned(a, dts, inc) <= dts + Sync
           /\ dts <= Aligned(a, dts, inc) + Sync
<1>1. Estimate(a, inc) \in Int /\ Sync \in Nat
  BY EstimateType, SyncType
<1>2. CASE Near(Estimate(a, inc), dts)
  BY <1>1, <1>2 DEF Aligned, Near
<1>3. CASE ~Near(Estimate(a, inc), dts)
  BY <1>1, <1>3 DEF Aligned
<1> QED BY <1>2, <1>3

\* The counted time after a frame is the frame's own aligned time and one frame
\* length.
LEMMA CountGoesOn ==
    ASSUME NEW a \in Count, NEW dts \in Int, NEW inc \in Nat
    PROVE  Estimate(Align(a, dts, inc), inc) = Aligned(a, dts, inc) + inc
<1>1. a.frameNum \in Int /\ a.frameBase \in Int
  BY DEF Count
<1>2. CASE Near(Estimate(a, inc), dts)
  <2>1. Align(a, dts, inc) = [frameNum |-> a.frameNum + 1,
                              frameBase |-> a.frameBase]
    BY <1>2 DEF Align
  <2>2. Estimate(Align(a, dts, inc), inc) =
            a.frameBase + (a.frameNum + 1) * inc
    BY <2>1 DEF Estimate
  <2>3. Aligned(a, dts, inc) = a.frameBase + a.frameNum * inc
    BY <1>2 DEF Aligned, Estimate
  <2>4. \A n \in Int : (n + 1) * inc = n * inc + inc
    OBVIOUS
  <2>5. (a.frameNum + 1) * inc = a.frameNum * inc + inc
    BY <1>1, <2>4
  <2>6. a.frameNum * inc \in Int
    BY <1>1
  <2> QED BY <1>1, <2>2, <2>3, <2>5, <2>6
<1>3. CASE ~Near(Estimate(a, inc), dts)
  <2>1. Align(a, dts, inc) = [frameNum |-> 1, frameBase |-> dts]
    BY <1>3 DEF Align
  <2>2. Estimate(Align(a, dts, inc), inc) = dts + 1 * inc
    BY <2>1 DEF Estimate
  <2>3. Aligned(a, dts, inc) = dts
    BY <1>3 DEF Aligned
  <2> QED BY <2>2, <2>3
<1> QED BY <1>2, <1>3

\* Of two audio frames in a row the second never gets an earlier time, as long
\* as the tags' times are at least the tolerance apart: the second part of
\* AudioInTime.
THEOREM AlignedInOrder ==
    ASSUME NEW a \in Count, NEW d1 \in Int, NEW d2 \in Int, NEW inc \in Nat,
           d1 + Sync <= d2
    PROVE  Aligned(a, d1, inc) <= Aligned(Align(a, d1, inc), d2, inc)
<1> DEFINE t == Aligned(a, d1, inc)
           b == Align(a, d1, inc)
           u == Aligned(b, d2, inc)
<1>1. t \in Int /\ t <= d1 + Sync
  BY AlignedIsNear
<1>2. Estimate(b, inc) = t + inc
  BY CountGoesOn
<1>3. Sync \in Nat
  BY SyncType
<1> SUFFICES t <= u
  OBVIOUS
<1>4. CASE Near(Estimate(b, inc), d2)
  <2>1. u = t + inc
    BY <1>2, <1>4 DEF Aligned
  <2> HIDE DEF t, b, u
  <2> QED BY <1>1, <2>1
<1>5. CASE ~Near(Estimate(b, inc), d2)
  <2>1. u = d2
    BY <1>5 DEF Aligned
  <2> HIDE DEF t, b, u
  <2> QED BY <1>1, <1>3, <2>1
<1> QED BY <1>4, <1>5

-----------------------------------------------------------------------------
(* Types. *)

\* A stream is a sequence of tags.
LEMMA TagsType ==
    ASSUME WriterTypes
    PROVE  /\ Len(tags) \in Nat
           /\ DOMAIN tags = 1 .. Len(tags)
           /\ \A n \in DOMAIN tags : tags[n].ts \in Nat
<1> DEFINE Tag == [kind : Media \cup Skipped \cup Ending \cup {"publish"}, ts : Nat]
<1>1. \A r \in Tag : r.ts \in Nat
  OBVIOUS
<1>2. tags \in Seq(Tag)
  BY HlsAssumption DEF WriterTypes
<1> HIDE DEF Tag
<1>3. Len(tags) \in Nat /\ DOMAIN tags = 1 .. Len(tags)
  BY <1>2
<1>4. \A n \in DOMAIN tags : tags[n] \in Tag
  BY <1>2, <1>3
<1> QED BY <1>1, <1>3, <1>4

\* The segments made are numbered from 1.
LEMMA MadeType ==
    ASSUME MuxTypes
    PROVE  /\ Len(made) \in Nat
           /\ DOMAIN made = 1 .. Len(made)
           /\ \A k \in DOMAIN made : made[k].name \in Nat \ {0}
           /\ made # <<>> => Len(made) \in DOMAIN made
<1>1. made \in Seq(TSItem)
  BY DEF MuxTypes
<1>2. Len(made) \in Nat /\ DOMAIN made = 1 .. Len(made)
  BY <1>1
<1>3. \A k \in DOMAIN made : made[k] \in TSItem
  BY <1>1, <1>2
<1>4. made # <<>> => Len(made) # 0
  BY <1>1, EmptySeq
<1> QED BY <1>2, <1>3, <1>4 DEF TSItem

\* A step keeps the types of the variables it leaves alone.
LEMMA SameTypes ==
    ASSUME TypeOK, tags' = tags
    PROVE  /\ UNCHANGED <<writerVars, packetQueue>> => WriterTypes'
           /\ UNCHANGED <<sender, cur, btswriter, stat, made>> => MuxTypes'
           /\ UNCHANGED audioVars => AudioTypes'
           /\ UNCHANGED <<made, windowVars, viewVars>> => WindowTypes'
           /\ UNCHANGED <<closed, crashed, connVars>> => FlagTypes'
<1>1. UNCHANGED <<writerVars, packetQueue>> => WriterTypes'
  BY DEF TypeOK, WriterTypes, writerVars
<1>2. UNCHANGED <<sender, cur, btswriter, stat, made>> => MuxTypes'
  BY DEF TypeOK, MuxTypes, TSItem
<1>3. UNCHANGED audioVars => AudioTypes'
  BY DEF TypeOK, AudioTypes, audioVars
<1>4. UNCHANGED <<made, windowVars, viewVars>> => WindowTypes'
  BY DEF TypeOK, WindowTypes, windowVars, viewVars
<1>5. UNCHANGED <<closed, crashed, connVars>> => FlagTypes'
  BY DEF TypeOK, FlagTypes, connVars
<1> QED BY <1>1, <1>2, <1>3, <1>4, <1>5

LEMMA WriteType ==
    ASSUME TypeOK, Write \/ Writing
    PROVE  TypeOK'
<1>1. tags' = tags /\ MuxTypes' /\ AudioTypes' /\ WindowTypes'
  BY SameTypes DEF Write, Writing, WriteCheck, WriteSend, muxVars
<1>2. CASE Write
  <2>1. WriterTypes'
    BY <1>2, TagsType DEF Write, TypeOK, WriterTypes
  <2>2. FlagTypes'
    BY <1>2 DEF Write, TypeOK, FlagTypes
  <2> QED BY <1>1, <2>1, <2>2 DEF TypeOK
<1>3. CASE WriteCheck
  <2>1. WriterTypes'
    BY <1>3, TagsType DEF WriteCheck, TypeOK, WriterTypes
  <2> QED BY <1>1, <1>3, <2>1, SameTypes DEF WriteCheck, TypeOK
<1>4. CASE WriteSend
  <2>1. next \in DOMAIN tags /\ next \in Nat
    BY <1>4, TagsType DEF WriteSend, TypeOK, WriterTypes
  <2>2. packetQueue' \in Seq(DOMAIN tags) /\ Len(packetQueue') = Len(packetQueue) + 1
    BY <1>4, <2>1, AppendProperties DEF WriteSend, TypeOK, WriterTypes
  <2>3. Len(packetQueue) \in Nat /\ Len(packetQueue) < QueueSize /\ QueueSize \in Nat
    BY <1>4, HlsAssumption DEF WriteSend, TypeOK, WriterTypes
  <2>4. next' \in 1 .. Len(tags) + 1
    BY <1>4, <2>1, TagsType DEF WriteSend, TypeOK
  <2>5. WriterTypes'
    BY <1>4, <2>2, <2>3, <2>4 DEF WriteSend, TypeOK, WriterTypes
  <2> QED BY <1>1, <1>4, <2>5, SameTypes DEF WriteSend, TypeOK
<1> QED BY <1>2, <1>3, <1>4 DEF Writing

\* A tag that is received was in the channel.
LEMMA ReceiveType ==
    ASSUME TypeOK, NEW n, Receive(n), UNCHANGED writerVars
    PROVE  n \in DOMAIN tags /\ WriterTypes'
<1>1. packetQueue \in Seq(DOMAIN tags) /\ packetQueue # <<>>
  BY DEF Receive, TypeOK, WriterTypes
<1>2. /\ Head(packetQueue) \in DOMAIN tags
      /\ Tail(packetQueue) \in Seq(DOMAIN tags)
      /\ Len(Tail(packetQueue)) = Len(packetQueue) - 1
  BY <1>1, HeadTailProperties
<1>3. Len(packetQueue) \in Nat /\ QueueSize \in Nat /\ Len(packetQueue) <= QueueSize
  BY <1>1, HlsAssumption DEF TypeOK, WriterTypes
<1>4. Len(Tail(packetQueue)) <= QueueSize
  BY <1>2, <1>3
<1> QED BY <1>2, <1>4 DEF Receive, TypeOK, WriterTypes, writerVars

LEMMA NoFrameType ==
    ASSUME TypeOK, NEW n,
           Skip(n) \/ DemuxFails(n) \/ SenderPanics(n) \/ DropFrame(n)
    PROVE  TypeOK'
<1>1. /\ tags' = tags /\ WriterTypes'
      /\ AudioTypes' /\ WindowTypes'
  BY SameTypes, ReceiveType
  DEF Skip, DemuxFails, SenderPanics, DropFrame, writerVars, muxVars
<1>2. MuxTypes'
  BY DEF Skip, DemuxFails, SenderPanics, DropFrame, TypeOK, MuxTypes, TSItem, Cutting,
         muxVars, writerVars
<1>3. FlagTypes'
  BY DEF Skip, DemuxFails, SenderPanics, DropFrame, TypeOK, FlagTypes, connVars
<1> QED BY <1>1, <1>2, <1>3 DEF TypeOK

\* What calcPtsDts and Cache make of an audio frame.
LEMMA CachedType ==
    ASSUME TypeOK, NEW n \in DOMAIN tags
    PROVE  /\ Dts(n) \in Int
           /\ Align(align, Dts(n), Inc) \in Count
           /\ CachedPts(n) \in Int
           /\ Cached(n) \in Seq(DOMAIN tags) /\ Cached(n) # <<>>
           /\ Len(Cached(n)) = Len(cache) + 1
<1>1. tags[n].ts \in Nat /\ Hz \in Nat
  BY TagsType, AlignAssumption DEF TypeOK
<1>2. Dts(n) \in Int
  BY <1>1 DEF Dts
<1>3. align \in Count /\ Inc \in Nat /\ audioPts \in Int
  BY HlsAssumption DEF TypeOK, AudioTypes
<1>4. Align(align, Dts(n), Inc) \in Count /\ CachedPts(n) \in Int
  BY <1>2, <1>3, AlignType, AlignedIsNear DEF CachedPts
<1>5. cache \in Seq(DOMAIN tags)
  BY DEF TypeOK, AudioTypes
<1>6. /\ Cached(n) \in Seq(DOMAIN tags) /\ Len(Cached(n)) = Len(cache) + 1
      /\ Cached(n) # <<>>
  BY <1>5, AppendProperties DEF Cached
<1> QED BY <1>2, <1>4, <1>6

\* Muxing audio adds a time for the first of its frames.
LEMMA StampedType ==
    ASSUME TypeOK, NEW frames \in Seq(DOMAIN tags), frames # <<>>, NEW pts \in Int
    PROVE  /\ Stamped(frames, pts) \in Seq([frame : DOMAIN tags, ts : Int])
           /\ Head(frames) \in DOMAIN tags
           /\ pts \div Hz \in Int
<1>1. Head(frames) \in DOMAIN tags
  BY HeadTailProperties
<1>2. pts \div Hz \in Int
  BY AlignAssumption
<1> DEFINE r == [frame |-> Head(frames), ts |-> pts \div Hz]
<1>3. r \in [frame : DOMAIN tags, ts : Int]
  BY <1>1, <1>2
<1> HIDE DEF r
<1>4. stamps \in Seq([frame : DOMAIN tags, ts : Int])
  BY DEF TypeOK, AudioTypes
<1>5. Append(stamps, r) \in Seq([frame : DOMAIN tags, ts : Int])
  BY <1>3, <1>4, AppendProperties
<1> QED BY <1>1, <1>2, <1>5 DEF Stamped, r

\* The status after a frame.
LEMMA UpdateType ==
    ASSUME WriterTypes, NEW n \in DOMAIN tags,
           NEW st \in [set : BOOLEAN, first : Nat, last : Nat]
    PROVE  Update(st, n) \in [set : BOOLEAN, first : Nat, last : Nat]
<1>1. tags[n].ts \in Nat
  BY TagsType
<1> QED BY <1>1 DEF Update

LEMMA MuxType ==
    ASSUME TypeOK, NEW n, Mux(n)
    PROVE  TypeOK'
<1>1. tags' = tags /\ n \in DOMAIN tags /\ WriterTypes' /\ WindowTypes' /\ FlagTypes'
  BY SameTypes, ReceiveType DEF Mux, writerVars
<1>2. stat' \in [set : BOOLEAN, first : Nat, last : Nat]
  BY <1>1, UpdateType DEF Mux, TypeOK, MuxTypes
<1>3. CASE Kind(n) = "audio"
  <2>1. MuxAudio(n) /\ btswriter # Nil
    BY <1>3 DEF Mux
  <2>2. btswriter \in Seq(DOMAIN tags)
    BY <2>1 DEF TypeOK, MuxTypes
  <2>3. AudioTypes' /\ btswriter' \in Seq(DOMAIN tags)
    <3>1. align' \in Count /\ audioPts' \in Int
      BY <1>1, <2>1, CachedType DEF MuxAudio
    <3>2. CASE Len(Cached(n)) < CacheMaxFrames
      <4>1. cache' = Cached(n) /\ UNCHANGED <<btswriter, stamps>>
        BY <2>1, <3>2 DEF MuxAudio
      <4> QED BY <1>1, <2>2, <3>1, <3>2, <4>1, CachedType DEF TypeOK, AudioTypes
    <3>3. CASE ~(Len(Cached(n)) < CacheMaxFrames)
      <4>1. /\ cache' = <<>> /\ btswriter' = btswriter \o Cached(n)
            /\ stamps' = Stamped(Cached(n), CachedPts(n))
        BY <2>1, <3>3 DEF MuxAudio
      <4>2. btswriter' \in Seq(DOMAIN tags)
        BY <1>1, <2>2, <4>1, CachedType, ConcatProperties
      <4>3. stamps' \in Seq([frame : DOMAIN tags, ts : Int])
        BY <1>1, <4>1, CachedType, StampedType
      <4>4. cache' \in Seq(DOMAIN tags') /\ Len(cache') < CacheMaxFrames
        BY <4>1, HlsAssumption
      <4> QED BY <1>1, <3>1, <4>2, <4>3, <4>4 DEF AudioTypes
    <3> QED BY <3>2, <3>3
  <2> QED BY <1>1, <1>2, <2>3 DEF Mux, TypeOK, MuxTypes, TSItem
<1>4. CASE Kind(n) # "audio"
  <2>1. AudioTypes'
    BY <1>1, <1>4, SameTypes DEF Mux
  <2>2. btswriter' \in Seq(DOMAIN tags)
    <3>1. CASE btswriter = Nil
      <4>1. btswriter' = <<n>>
        BY <1>4, <3>1 DEF Mux
      <4> QED BY <1>1, <4>1
    <3>2. CASE btswriter # Nil
      <4>1. btswriter' = Append(btswriter, n) /\ btswriter \in Seq(DOMAIN tags)
        BY <1>4, <3>2 DEF Mux, TypeOK, MuxTypes
      <4> QED BY <1>1, <4>1, AppendProperties
    <3> QED BY <3>1, <3>2
  <2> QED BY <1>1, <1>2, <2>1, <2>2 DEF Mux, TypeOK, MuxTypes, TSItem
<1> QED BY <1>3, <1>4

\* What a cut finds and makes.
LEMMA CutEffect ==
    ASSUME TypeOK, NEW n, Cut(n)
    PROVE  /\ n \in DOMAIN tags
           /\ made' \in Seq(TSItem)
           /\ Len(made') = Len(made) + 1
           /\ \A k \in DOMAIN made : made'[k] = made[k]
           /\ made'[Len(made) + 1].name \in {LastName, LastName + 1} \ {0}
           /\ made'[Len(made) + 1].data = btswriter \o cache
           /\ btswriter \in Seq(DOMAIN tags) /\ cache \in Seq(DOMAIN tags)
           /\ btswriter' = btswriter \o cache /\ btswriter' \in Seq(DOMAIN tags)
           /\ cache' = <<>>
<1>1. n \in DOMAIN tags
  BY ReceiveType DEF Cut
<1>2. btswriter \in Seq(DOMAIN tags) /\ cache \in Seq(DOMAIN tags)
  BY DEF Cut, Cuts, TypeOK, MuxTypes, AudioTypes
<1> DEFINE data == btswriter \o cache
<1>3. data \in Seq(DOMAIN tags)
  BY <1>2, ConcatProperties
<1>4. Flushed.data = data /\ Flushed.rest = <<>>
  BY DEF Flushed
<1> HIDE DEF data
<1>5. PICK name \in {LastName, LastName + 1} \ {0} :
        made' = Append(made, [name |-> name, duration |-> DurationMs, data |-> data])
  BY <1>4 DEF Cut, NewTSItem
<1> DEFINE r == [name |-> name, duration |-> DurationMs, data |-> data]
<1>6. LastName \in Nat /\ DurationMs \in Int
  BY MadeType DEF LastName, DurationMs, TypeOK, MuxTypes
<1>7. r \in TSItem /\ r.name = name /\ r.data = data
  BY <1>3, <1>5, <1>6 DEF TSItem
<1> HIDE DEF r
<1>8. made \in Seq(TSItem) /\ made' = Append(made, r)
  BY <1>5 DEF TypeOK, MuxTypes, r
<1>9. /\ made' \in Seq(TSItem) /\ Len(made') = Len(made) + 1
      /\ \A k \in DOMAIN made : made'[k] = made[k]
      /\ made'[Len(made) + 1] = r
  BY <1>7, <1>8, AppendProperties
<1>10. btswriter' = data /\ cache' = <<>>
  BY <1>4 DEF Cut
<1> QED BY <1>1, <1>2, <1>3, <1>5, <1>7, <1>9, <1>10 DEF data

LEMMA CutType ==
    ASSUME TypeOK, NEW n, Cut(n)
    PROVE  TypeOK'
<1>1. tags' = tags /\ WriterTypes' /\ FlagTypes'
  BY SameTypes, ReceiveType DEF Cut, writerVars
<1>2. n \in DOMAIN tags /\ n \in 0 .. Len(tags)
  BY CutEffect, TagsType DEF TypeOK
<1>3. /\ made' \in Seq(TSItem) /\ made' # <<>>
      /\ btswriter' \in Seq(DOMAIN tags) /\ cache' = <<>>
  <2>1. Len(made) \in Nat
    BY MadeType DEF TypeOK
  <2> QED BY <2>1, CutEffect
<1>4. MuxTypes'
  <2>1. n # 0
    BY <1>2, TagsType DEF TypeOK
  <2>2. TSItem' = TSItem
    BY <1>1 DEF TSItem
  <2> QED BY <1>1, <1>2, <1>3, <2>1, <2>2 DEF Cut, TypeOK, MuxTypes, Cutting
<1>5. AudioTypes'
  <2>1. stamps' \in Seq([frame : DOMAIN tags, ts : Int])
    <3>1. CASE cache = <<>>
      BY <3>1 DEF Cut, Flushed, TypeOK, AudioTypes
    <3>2. CASE cache # <<>>
      BY <3>2, StampedType DEF Cut, Flushed, TypeOK, AudioTypes
    <3> QED BY <3>1, <3>2
  <2>2. cache' \in Seq(DOMAIN tags') /\ Len(cache') < CacheMaxFrames
    BY <1>3, HlsAssumption
  <2> QED BY <1>1, <2>1, <2>2 DEF Cut, TypeOK, AudioTypes
<1>6. WindowTypes'
  <2>1. DOMAIN made \subseteq DOMAIN made' /\ 0 .. Len(made) \subseteq 0 .. Len(made')
    BY <1>3, CutEffect, MadeType DEF TypeOK
  <2>2. ll \in Seq(DOMAIN made') /\ body \in Seq(DOMAIN made')
    BY <2>1 DEF TypeOK, WindowTypes
  <2> QED BY <2>1, <2>2 DEF Cut, TypeOK, WindowTypes, windowVars, viewVars
<1> QED BY <1>1, <1>4, <1>5, <1>6 DEF TypeOK

\* SetItem removes the first element: the list moves on by one.
LEMMA OldestRemoved ==
    ASSUME NEW S, NEW s \in Seq(S), s # <<>>
    PROVE  /\ RemoveAt(s, Oldest) = Tail(s)
           /\ Tail(s) \in Seq(S)
           /\ Len(Tail(s)) = Len(s) - 1
           /\ \A i \in 1 .. Len(s) - 1 : Tail(s)[i] = s[i + 1]
<1>1. SubSeq(s, 1, 0) = <<>>
  OBVIOUS
<1>2. /\ Tail(s) \in Seq(S) /\ Len(Tail(s)) = Len(s) - 1
      /\ \A i \in 1 .. Len(s) - 1 : Tail(s)[i] = s[i + 1]
  BY HeadTailProperties
<1>3. SubSeq(s, 2, Len(s)) = Tail(s)
  BY <1>2
<1>4. <<>> \o Tail(s) = Tail(s)
  BY <1>2
<1>5. RemoveAt(s, Oldest) = SubSeq(s, 1, 0) \o SubSeq(s, 2, Len(s))
  BY DEF RemoveAt, Oldest
<1> QED BY <1>1, <1>2, <1>3, <1>4, <1>5

LEMMA SetItemType ==
    ASSUME TypeOK, ListInv,
           SetItemRemove \/ SetItemDelete \/ SetItemStore \/ SetItemPush
    PROVE  TypeOK'
<1>1. tags' = tags /\ made' = made /\ AudioTypes' /\ FlagTypes' /\ WriterTypes'
  BY SameTypes
  DEF SetItemRemove, SetItemDelete, SetItemStore, SetItemPush, writerVars, muxVars
<1>2. MuxTypes'
  <2>1. CASE SetItemRemove
    BY <1>1, <2>1 DEF SetItemRemove, TypeOK, MuxTypes, TSItem, Cutting, muxVars
  <2>2. CASE SetItemDelete
    BY <1>1, <2>2 DEF SetItemDelete, TypeOK, MuxTypes, TSItem, Cutting, muxVars
  <2>3. CASE SetItemStore
    BY <1>1, <2>3 DEF SetItemStore, TypeOK, MuxTypes, TSItem, Cutting, muxVars
  <2>4. CASE SetItemPush
    <3>1. cur \in DOMAIN tags
      BY <2>4, TagsType DEF SetItemPush, TypeOK, MuxTypes, Cutting
    <3>2. stat' \in [set : BOOLEAN, first : Nat, last : Nat]
      <4>1. ResetAndNew(stat) \in [set : BOOLEAN, first : Nat, last : Nat]
        BY DEF ResetAndNew, TypeOK, MuxTypes
      <4> QED BY <2>4, <3>1, <4>1, UpdateType DEF SetItemPush, TypeOK
    <3>3. btswriter' \in Seq(DOMAIN tags)
      BY <2>4, <3>1 DEF SetItemPush
    <3>4. cur' \in 0 .. Len(tags)
      BY <2>4, TagsType DEF SetItemPush, TypeOK
    <3> QED BY <1>1, <2>4, <3>2, <3>3, <3>4
            DEF SetItemPush, TypeOK, MuxTypes, TSItem, Cutting
  <2> QED BY <2>1, <2>2, <2>3, <2>4
<1>3. /\ Len(made) \in Nat /\ DOMAIN made = 1 .. Len(made)
      /\ sender \in Cutting => Len(made) \in DOMAIN made
  BY MadeType DEF TypeOK, MuxTypes
<1>4. WindowTypes'
  <2>1. CASE SetItemRemove
    <3>1. ll \in Seq(DOMAIN made) /\ Len(ll) = TsCacheNum /\ TsCacheNum \in Nat \ {0}
      BY <2>1, HlsAssumption DEF SetItemRemove, TypeOK, WindowTypes, ListInv
    <3>2. ll # <<>> /\ ll[1] \in DOMAIN made
      BY <3>1
    <3>3. ll' \in Seq(DOMAIN made)
      BY <2>1, <3>1, <3>2, OldestRemoved DEF SetItemRemove
    <3>4. evicted' \in 0 .. Len(made)
      BY <1>3, <2>1, <3>2 DEF SetItemRemove, Oldest
    <3> QED BY <1>1, <2>1, <3>3, <3>4 DEF SetItemRemove, TypeOK, WindowTypes, viewVars
  <2>2. CASE SetItemDelete
    <3>1. lm' \in [DOMAIN lm' -> DOMAIN made]
      BY <2>2 DEF SetItemDelete, TypeOK, WindowTypes
    <3>2. evicted' \in 0 .. Len(made)
      BY <1>3, <2>2 DEF SetItemDelete
    <3> QED BY <1>1, <2>2, <3>1, <3>2 DEF SetItemDelete, TypeOK, WindowTypes, viewVars
  <2>3. CASE SetItemStore
    <3>1. lm' \in [DOMAIN lm' -> DOMAIN made]
      BY <1>3, <2>3 DEF SetItemStore, TypeOK, WindowTypes, Cutting
    <3> QED BY <1>1, <2>3, <3>1 DEF SetItemStore, TypeOK, WindowTypes, viewVars
  <2>4. CASE SetItemPush
    <3>1. ll' \in Seq(DOMAIN made)
      BY <1>3, <2>4, AppendProperties DEF SetItemPush, TypeOK, WindowTypes, Cutting
    <3> QED BY <1>1, <2>4, <3>1 DEF SetItemPush, TypeOK, WindowTypes, viewVars
  <2> QED BY <2>1, <2>2, <2>3, <2>4
<1> QED BY <1>1, <1>2, <1>4 DEF TypeOK

\* The element behind one in the list is in the list.
LEMMA NextElementType ==
    ASSUME TypeOK, NEW e
    PROVE  \/ NextElement(e) = 0
           \/ \E k \in 2 .. Len(ll) : ll[k - 1] = e /\ NextElement(e) = ll[k]
<1> DEFINE after == {k \in 2 .. Len(ll) : ll[k - 1] = e}
<1>1. CASE after = {}
  BY <1>1 DEF NextElement
<1>2. CASE after # {}
  <2>1. (CHOOSE k \in after : TRUE) \in after
    BY <1>2
  <2> QED BY <1>2, <2>1 DEF NextElement
<1> QED BY <1>1, <1>2

LEMMA PlaylistType ==
    ASSUME TypeOK, ListInv, MapInv, GenM3U8PlayList
    PROVE  TypeOK'
<1>1. /\ tags' = tags /\ made' = made
      /\ AudioTypes' /\ FlagTypes' /\ WriterTypes' /\ MuxTypes'
  BY SameTypes
  DEF GenM3U8PlayList, Playlist, PlaylistLook, PlaylistNext, PlaylistDone, writerVars,
      muxVars
<1>2. Len(made) \in Nat /\ DOMAIN made = 1 .. Len(made)
  BY MadeType DEF TypeOK
<1>3. ll \in Seq(DOMAIN made) /\ \A k \in 1 .. Len(ll) : ll[k] \in 0 .. Len(made)
  BY <1>2 DEF TypeOK, WindowTypes
<1>4. WindowTypes'
  <2>1. CASE Playlist
    <3>1. at' \in 0 .. Len(made) /\ body' \in Seq(DOMAIN made)
      BY <1>2, <1>3, <2>1, EmptySeq DEF Playlist
    <3> QED BY <1>1, <2>1, <3>1 DEF Playlist, TypeOK, WindowTypes, windowVars
  <2>2. CASE PlaylistLook
    <3>1. body' \in Seq(DOMAIN made)
      BY <2>2, AppendProperties DEF PlaylistLook, TypeOK, WindowTypes
    <3> QED BY <1>1, <2>2, <3>1 DEF PlaylistLook, TypeOK, WindowTypes, windowVars
  <2>3. CASE PlaylistNext
    <3>1. at' \in 0 .. Len(made)
      BY <1>2, <1>3, <2>3, NextElementType DEF PlaylistNext
    <3> QED BY <1>1, <2>3, <3>1 DEF PlaylistNext, TypeOK, WindowTypes, windowVars
  <2>4. CASE PlaylistDone
    BY <1>1, <2>4 DEF PlaylistDone, TypeOK, WindowTypes, windowVars
  <2> QED BY <2>1, <2>2, <2>3, <2>4 DEF GenM3U8PlayList
<1> QED BY <1>1, <1>4 DEF TypeOK

\* A source as NewSource makes it.
LEMMA NewSourceType ==
    /\ NewAlign \in Count
    /\ NewStatus \in [set : BOOLEAN, first : Nat, last : Nat]
    /\ Len(<<>>) < CacheMaxFrames /\ Len(<<>>) <= QueueSize
<1>1. NewAlign \in Count /\ NewStatus \in [set : BOOLEAN, first : Nat, last : Nat]
  BY DEF NewAlign, NewStatus, Count
<1>2. Len(<<>>) = 0
  OBVIOUS
<1> QED BY <1>1, <1>2, HlsAssumption

LEMMA OtherType ==
    ASSUME TypeOK,
           \/ GoQuiet \/ CheckStopTest \/ CheckStopDelete
           \/ GetWriter \/ GetWriterNew
    PROVE  TypeOK'
<1>1. CASE GoQuiet
  BY <1>1, SameTypes DEF GoQuiet, TypeOK, FlagTypes, writerVars, muxVars
<1>2. CASE CheckStopTest \/ CheckStopDelete
  BY <1>2, SameTypes
     DEF CheckStopTest, CheckStopDelete, TypeOK, FlagTypes, writerVars, muxVars
<1>3. CASE GetWriter
  <2>1. tags' = tags /\ MuxTypes' /\ AudioTypes' /\ WindowTypes'
    BY <1>3, SameTypes DEF GetWriter, muxVars
  <2>2. WriterTypes'
    BY <1>3, TagsType DEF GetWriter, TypeOK, WriterTypes
  <2>3. FlagTypes'
    BY <1>3 DEF GetWriter, TypeOK, FlagTypes
  <2> QED BY <2>1, <2>2, <2>3 DEF TypeOK
<1>4. CASE GetWriterNew
  <2>1. tags' = tags /\ made' = <<>> /\ NewSource
    BY <1>4 DEF GetWriterNew, NewSource
  <2>2. WriterTypes'
    <3>1. next' \in 1 .. Len(tags) + 1 /\ writer' = "idle"
      BY <1>4, TagsType DEF GetWriterNew, TypeOK, WriterTypes
    <3>2. packetQueue' = <<>> /\ packetQueue' \in Seq(DOMAIN tags)
      BY <2>1 DEF NewSource
    <3> QED BY <2>1, <3>1, <3>2, NewSourceType DEF TypeOK, WriterTypes
  <2>3. FlagTypes'
    BY <1>4, <2>1 DEF GetWriterNew, NewSource, TypeOK, FlagTypes
  <2>4. MuxTypes'
    <3>1. 0 \in 0 .. Len(tags)
      BY TagsType DEF TypeOK
    <3> QED BY <2>1, <3>1, NewSourceType DEF NewSource, MuxTypes, Cutting
  <2>5. AudioTypes'
    BY <2>1, NewSourceType DEF NewSource, AudioTypes
  <2>6. WindowTypes'
    BY <2>1 DEF NewSource, WindowTypes
  <2> QED BY <2>2, <2>3, <2>4, <2>5, <2>6 DEF TypeOK
<1> QED BY <1>1, <1>2, <1>3, <1>4

LEMMA InitType ==
    Init => TypeOK
<1> SUFFICES ASSUME Init PROVE TypeOK
  OBVIOUS
<1>1. tags \in Tags /\ Len(tags) \in Nat
  BY HlsAssumption DEF Init
<1>2. WriterTypes
  <2>1. next \in 1 .. Len(tags) + 1 /\ writer = "idle"
    BY <1>1 DEF Init
  <2>2. packetQueue = <<>> /\ packetQueue \in Seq(DOMAIN tags)
    BY DEF Init
  <2> QED BY <1>1, <2>1, <2>2, NewSourceType DEF WriterTypes
<1>3. FlagTypes
  BY DEF Init, FlagTypes
<1>4. MuxTypes
  BY <1>1, NewSourceType DEF Init, MuxTypes, Cutting
<1>5. AudioTypes
  BY NewSourceType DEF Init, AudioTypes
<1>6. WindowTypes
  BY DEF Init, WindowTypes
<1> QED BY <1>2, <1>3, <1>4, <1>5, <1>6 DEF TypeOK

LEMMA NextType ==
    ASSUME TypeOK, ListInv, MapInv, [Next]_vars
    PROVE  TypeOK'
<1>1. CASE UNCHANGED vars
  BY <1>1, SameTypes DEF vars, writerVars, muxVars, TypeOK
<1> QED BY <1>1, WriteType, NoFrameType, MuxType, CutType, SetItemType, PlaylistType,
           OtherType DEF Next, SendPacket

-----------------------------------------------------------------------------
(* The list of segments. *)

\* The numbers the invariants reckon with.
LEMMA Counts ==
    ASSUME TypeOK
    PROVE  /\ Len(made) \in Nat /\ DOMAIN made = 1 .. Len(made)
           /\ Newest \in Nat /\ Newest <= Len(made)
           /\ sender \in Cutting => Newest = Len(made) - 1
           /\ sender \notin Cutting => Newest = Len(made)
           /\ ll \in Seq(DOMAIN made) /\ Len(ll) \in Nat
           /\ TsCacheNum \in Nat \ {0}
<1>1. Len(made) \in Nat /\ DOMAIN made = 1 .. Len(made)
  BY MadeType DEF TypeOK
<1>2. sender \in Cutting => Len(made) # 0
  BY <1>1, MadeType DEF TypeOK, MuxTypes
<1>3. ll \in Seq(DOMAIN made)
  BY DEF TypeOK, WindowTypes
<1>4. TsCacheNum \in Nat \ {0}
  BY HlsAssumption
<1>5. Len(ll) \in Nat
  BY <1>3
<1>6. CASE sender \in Cutting
  <2>1. Newest = Len(made) - 1
    BY <1>6 DEF Newest
  <2>2. Newest \in Nat /\ Newest <= Len(made)
    BY <1>1, <1>2, <1>6, <2>1
  <2> QED BY <1>1, <1>3, <1>4, <1>5, <1>6, <2>1, <2>2, Zenon
<1>7. CASE sender \notin Cutting
  <2>1. Newest = Len(made)
    BY <1>7 DEF Newest
  <2>2. Newest \in Nat /\ Newest <= Len(made)
    BY <1>1, <2>1
  <2> QED BY <1>1, <1>3, <1>4, <1>5, <1>7, <2>1, <2>2, Zenon
<1> QED BY <1>6, <1>7

\* The elements of the list are an interval that ends at the newest.
ListIsInterval == \A k : k \in ToSet(ll) <=> k \in Newest - Len(ll) + 1 .. Newest

LEMMA InList ==
    ASSUME TypeOK, ListInv
    PROVE  ListIsInterval
<1>1. DOMAIN ll = 1 .. Len(ll) /\ Len(ll) \in Nat /\ Newest \in Nat
  BY Counts
<1>2. \A i \in 1 .. Len(ll) : ll[i] = Newest - Len(ll) + i
  BY DEF ListInv
<1>3. ASSUME NEW k \in ToSet(ll)
      PROVE  k \in Newest - Len(ll) + 1 .. Newest
  <2>1. PICK i \in 1 .. Len(ll) : k = ll[i]
    BY <1>1 DEF ToSet
  <2> QED BY <1>1, <1>2, <2>1
<1>4. ASSUME NEW k \in Newest - Len(ll) + 1 .. Newest
      PROVE  k \in ToSet(ll)
  <2>1. k - (Newest - Len(ll)) \in 1 .. Len(ll)
    BY <1>1
  <2>2. ll[k - (Newest - Len(ll))] = k
    BY <1>1, <1>2, <2>1
  <2> QED BY <1>1, <2>1, <2>2 DEF ToSet
<1> QED BY <1>3, <1>4 DEF ListIsInterval

\* The same behind a step.
LEMMA InListNext ==
    TypeOK' /\ ListInv' => ListIsInterval'
<1>1. TypeOK /\ ListInv => ListIsInterval
  BY InList
<1> QED BY <1>1, PTL

\* What a segment is, behind a step.
LEMMA MadeTypeNext ==
    MuxTypes' => /\ Len(made') \in Nat
                 /\ DOMAIN made' = 1 .. Len(made')
                 /\ \A k \in DOMAIN made' : made'[k].name \in Nat \ {0}
<1> DEFINE P == /\ Len(made) \in Nat
                /\ DOMAIN made = 1 .. Len(made)
                /\ \A k \in DOMAIN made : made[k].name \in Nat \ {0}
<1>1. MuxTypes => P
  BY MadeType
<1>2. MuxTypes' => P'
  BY <1>1, PTL
<1> QED BY <1>2

\* A step that changes neither the segments nor a playlist; the goroutine may end.
LEMMA SameWindow ==
    ASSUME TypeOK, ListInv, MapInv, ViewInv, UNCHANGED <<made, windowVars, viewVars>>,
           sender' = sender \/ (sender = "recv" /\ sender' \in {"ended", "panicked"})
    PROVE  ListInv' /\ MapInv' /\ ViewInv'
<1>1. Newest' = Newest
  BY DEF Newest, Cutting
<1>2. ListInv'
  BY <1>1 DEF ListInv, Cutting, windowVars
<1>3. MapInv'
  BY DEF MapInv, NamesUnique, LastName, ToSet, Cutting, windowVars
<1>4. ViewInv'
  BY <1>1 DEF ViewInv, NamesUnique, PlaylistInOrder, ToSet, windowVars, viewVars
<1> QED BY <1>2, <1>3, <1>4

\* A new source has no segments.
LEMMA EmptyWindow ==
    ASSUME made = <<>>, ll = <<>>, lm = <<>>, sender = "recv", viewer = "idle",
           at = 0, body = <<>>
    PROVE  ListInv /\ MapInv /\ ViewInv
<1>1. Newest = 0 /\ Len(ll) = 0
  BY DEF Newest, Cutting
<1>2. ListInv
  BY <1>1, HlsAssumption DEF ListInv, Cutting
<1>3. DOMAIN lm = {} /\ ToSet(ll) = {} /\ DOMAIN made = {}
  BY DEF ToSet
<1>4. MapInv
  BY <1>3 DEF MapInv
<1>5. ViewInv
  BY <1>1 DEF ViewInv, PlaylistInOrder
<1> QED BY <1>2, <1>4, <1>5

LEMMA ListStep ==
    ASSUME TypeOK, TypeOK', ListInv,
           \/ \E n : Cut(n)
           \/ SetItemRemove \/ SetItemDelete \/ SetItemStore \/ SetItemPush
    PROVE  ListInv'
<1>1. CASE \E n : Cut(n)
  <2>1. PICK n : Cut(n)
    BY <1>1
  <2>2. /\ sender = "recv" /\ ll' = ll
        /\ sender' = IF Len(ll) = TsCacheNum THEN "evict" ELSE "store"
    BY <2>1 DEF Cut, Receive, windowVars
  <2>3. Newest' = Newest /\ Newest = Len(made)
    BY <2>1, <2>2, CutEffect, Counts DEF Newest, Cutting
  <2> QED BY <2>2, <2>3, Counts DEF ListInv, Cutting
<1>2. CASE SetItemRemove
  <2>1. /\ sender = "evict" /\ sender' = "delete" /\ made' = made
        /\ ll' = RemoveAt(ll, Oldest) /\ evicted' = ll[1]
    BY <1>2 DEF SetItemRemove, muxVars, Oldest
  <2>2. Newest' = Newest
    BY <2>1 DEF Newest, Cutting
  <2>3. Len(ll) = TsCacheNum /\ ll # <<>>
    BY <2>1, Counts DEF ListInv
  <2>4. /\ Len(ll') = Len(ll) - 1
        /\ \A i \in 1 .. Len(ll) - 1 : ll'[i] = ll[i + 1]
    BY <2>1, <2>3, Counts, OldestRemoved
  <2>5. \A i \in 1 .. Len(ll') : ll'[i] = Newest' - Len(ll') + i
    BY <2>2, <2>4, Counts DEF ListInv
  <2>6. evicted' = Newest' - Len(ll') /\ evicted' # 0
    BY <2>1, <2>2, <2>3, <2>4, Counts DEF ListInv
  <2> QED BY <2>1, <2>2, <2>3, <2>4, <2>5, <2>6, Counts DEF ListInv, Cutting
<1>3. CASE SetItemDelete
  <2>1. sender = "delete" /\ sender' = "store" /\ made' = made /\ ll' = ll
    BY <1>3 DEF SetItemDelete, muxVars
  <2>2. Newest' = Newest
    BY <2>1 DEF Newest, Cutting
  <2>3. /\ Len(ll) = TsCacheNum - 1 /\ Len(ll) < TsCacheNum /\ Len(ll) <= Newest
        /\ \A i \in 1 .. Len(ll) : ll[i] = Newest - Len(ll) + i
    BY <2>1 DEF ListInv
  <2>4. ~(Len(ll) < TsCacheNum - 1)
    BY <2>3, Counts
  <2> QED BY <2>1, <2>2, <2>3, <2>4 DEF ListInv, Cutting
<1>4. CASE SetItemStore
  <2>1. sender = "store" /\ sender' = "push" /\ made' = made /\ ll' = ll
    BY <1>4 DEF SetItemStore, muxVars
  <2>2. Newest' = Newest
    BY <2>1 DEF Newest, Cutting
  <2> QED BY <2>1, <2>2, Counts DEF ListInv, Cutting
<1>5. CASE SetItemPush
  <2>1. /\ sender = "push" /\ sender' = "recv" /\ made' = made
        /\ ll' = Append(ll, Len(made))
    BY <1>5 DEF SetItemPush
  <2>2. Newest' = Newest + 1 /\ Newest' = Len(made)
    BY <2>1, Counts DEF Newest, Cutting
  <2>3. /\ Len(ll') = Len(ll) + 1 /\ ll'[Len(ll) + 1] = Len(made)
        /\ \A i \in 1 .. Len(ll) : ll'[i] = ll[i]
    <3>1. Len(made) \in DOMAIN made
      BY <2>1, MadeType DEF TypeOK, MuxTypes, Cutting
    <3> QED BY <2>1, <3>1, Counts, AppendProperties
  <2>4. \A i \in 1 .. Len(ll') : ll'[i] = Newest' - Len(ll') + i
    <3> TAKE i \in 1 .. Len(ll')
    <3>1. Len(ll) \in Nat /\ Newest \in Nat
      BY Counts
    <3>2. CASE i = Len(ll) + 1
      BY <2>2, <2>3, <3>1, <3>2
    <3>3. CASE i \in 1 .. Len(ll)
      <4>1. ll[i] = Newest - Len(ll) + i
        BY <3>3 DEF ListInv
      <4> QED BY <2>2, <2>3, <3>1, <3>3, <4>1
    <3> QED BY <2>3, <3>1, <3>2, <3>3
  <2> QED BY <2>1, <2>2, <2>3, <2>4, Counts DEF ListInv, Cutting
<1> QED BY <1>1, <1>2, <1>3, <1>4, <1>5

\* A playlist changes no segment.
LEMMA ViewerSameWindow ==
    ASSUME TypeOK, ListInv, MapInv, GenM3U8PlayList
    PROVE  ListInv' /\ MapInv' /\ Newest' = Newest /\ UNCHANGED <<made, ll, lm, sender>>
<1>1. UNCHANGED <<made, windowVars, sender>>
  BY DEF GenM3U8PlayList, Playlist, PlaylistLook, PlaylistNext, PlaylistDone, muxVars
<1>2. Newest' = Newest
  BY <1>1 DEF Newest
<1>3. ListInv'
  BY <1>1, <1>2 DEF ListInv, windowVars
<1>4. MapInv'
  BY <1>1 DEF MapInv, NamesUnique, LastName, ToSet, windowVars
<1> QED BY <1>1, <1>2, <1>3, <1>4 DEF windowVars

-----------------------------------------------------------------------------
(* The map of names. *)

\* cut adds a segment and changes no other.
LEMMA NamesGrow ==
    ASSUME TypeOK, TypeOK', NEW n, Cut(n)
    PROVE  /\ DOMAIN made \subseteq DOMAIN made'
           /\ \A k \in DOMAIN made : made'[k].name = made[k].name
           /\ NamesUnique' => NamesUnique
           /\ (\A i, j \in DOMAIN made : i <= j => made[i].name <= made[j].name) =>
              \A i, j \in DOMAIN made' : i <= j => made'[i].name <= made'[j].name
<1>1. /\ Len(made) \in Nat /\ DOMAIN made = 1 .. Len(made)
      /\ Len(made') = Len(made) + 1 /\ DOMAIN made' = 1 .. Len(made')
      /\ \A k \in DOMAIN made : made'[k] = made[k]
      /\ \A k \in DOMAIN made' : made'[k].name \in Nat
  BY CutEffect, MadeType, MadeTypeNext DEF TypeOK
<1>2. DOMAIN made \subseteq DOMAIN made'
  BY <1>1
<1>3. NamesUnique' => NamesUnique
  BY <1>1, <1>2 DEF NamesUnique
<1>4. ASSUME \A i, j \in DOMAIN made : i <= j => made[i].name <= made[j].name,
             NEW i \in DOMAIN made', NEW j \in DOMAIN made', i <= j
      PROVE  made'[i].name <= made'[j].name
  <2>1. CASE i \in DOMAIN made /\ j = Len(made) + 1
    <3>1. Len(made) \in DOMAIN made /\ made # <<>>
      BY <1>1, <2>1
    <3>2. LastName = made[Len(made)].name /\ made'[Len(made)].name = made[Len(made)].name
      BY <1>1, <3>1 DEF LastName
    <3>3. LastName \in Nat /\ made'[j].name \in {LastName, LastName + 1}
      BY <1>1, <2>1, <3>1, <3>2, CutEffect
    <3>4. made[i].name <= LastName /\ made'[i].name = made[i].name
      BY <1>1, <1>4, <2>1, <3>1, <3>2
    <3> QED BY <1>1, <1>4, <3>3, <3>4
  <2>2. CASE i = j
    BY <1>1, <2>2
  <2>3. CASE i \in DOMAIN made /\ j \in DOMAIN made
    BY <1>1, <1>4, <2>3
  <2> QED BY <1>1, <1>4, <2>1, <2>2, <2>3
<1> QED BY <1>1, <1>2, <1>3, <1>4

LEMMA MapCut ==
    ASSUME TypeOK, TypeOK', ListInv, MapInv, NEW n, Cut(n)
    PROVE  MapInv'
<1>1. /\ sender = "recv" /\ sender' \in {"evict", "store"} /\ ll' = ll /\ lm' = lm
  BY DEF Cut, Receive, windowVars
<1>2. /\ \A k \in DOMAIN lm : lm[k] \in DOMAIN made
      /\ \A i \in ToSet(ll) : i \in DOMAIN made
  BY DEF TypeOK, WindowTypes, ToSet
<1>3. /\ \A k \in DOMAIN made : made'[k].name = made[k].name
      /\ NamesUnique' => NamesUnique
      /\ \A i, j \in DOMAIN made' : i <= j => made'[i].name <= made'[j].name
  BY NamesGrow DEF MapInv
<1>4. \A k \in DOMAIN lm' : /\ made'[lm'[k]].name = k
                            /\ \E i \in ToSet(ll') : made'[i].name = k
  BY <1>1, <1>2, <1>3 DEF MapInv
<1>5. NamesUnique' =>
        \A i \in ToSet(ll') : made'[i].name \in DOMAIN lm' /\ lm'[made'[i].name] = i
  BY <1>1, <1>2, <1>3 DEF MapInv
<1> QED BY <1>1, <1>3, <1>4, <1>5 DEF MapInv, Cutting

LEMMA MapRemove ==
    ASSUME TypeOK, TypeOK', ListInv, ListInv', MapInv, SetItemRemove
    PROVE  /\ MapInv'
           /\ \A i : i \in ToSet(ll) <=> i \in ToSet(ll') \/ i = evicted'
<1>1. sender = "evict" /\ sender' = "delete" /\ made' = made /\ lm' = lm
  BY DEF SetItemRemove, muxVars
<1>2. Newest' = Newest
  BY <1>1 DEF Newest, Cutting
<1>3. /\ Len(ll) = TsCacheNum /\ Len(ll') = TsCacheNum - 1
      /\ evicted' = Newest' - Len(ll')
  BY <1>1 DEF ListInv
<1>4. Newest \in Nat /\ TsCacheNum \in Nat \ {0}
  BY Counts
<1>5. /\ \A i : i \in ToSet(ll) <=> i \in Newest - Len(ll) + 1 .. Newest
      /\ \A i : i \in ToSet(ll') <=> i \in Newest' - Len(ll') + 1 .. Newest'
  BY InList, InListNext DEF ListIsInterval
<1>6. \A i : i \in ToSet(ll) <=> i \in ToSet(ll') \/ i = evicted'
  BY <1>2, <1>3, <1>4, <1>5
<1>7. MapInv'
  BY <1>1, <1>6 DEF MapInv, NamesUnique, LastName, Cutting
<1> QED BY <1>6, <1>7

LEMMA MapDelete ==
    ASSUME TypeOK, ListInv, MapInv, SetItemDelete
    PROVE  /\ MapInv'
           /\ DOMAIN lm' \subseteq DOMAIN lm
           /\ \A k \in DOMAIN lm' : lm'[k] = lm[k]
<1>1. /\ sender = "delete" /\ sender' = "store" /\ made' = made /\ ll' = ll
      /\ lm' = [k \in DOMAIN lm \ {made[evicted].name} |-> lm[k]]
  BY DEF SetItemDelete, muxVars
<1>2. /\ DOMAIN lm' = DOMAIN lm \ {made[evicted].name}
      /\ \A k \in DOMAIN lm' : lm'[k] = lm[k]
  BY <1>1
<1>3. evicted \in DOMAIN made /\ evicted \notin ToSet(ll)
  <2>1. /\ evicted = Newest - Len(ll) /\ evicted # 0 /\ Len(ll) <= Newest
        /\ Newest <= Len(made) /\ Len(ll) \in Nat /\ Newest \in Nat /\ Len(made) \in Nat
        /\ DOMAIN made = 1 .. Len(made)
    BY <1>1, Counts DEF ListInv
  <2> QED BY <2>1, InList DEF ListIsInterval
<1>4. ToSet(ll) \subseteq DOMAIN made
  BY DEF TypeOK, WindowTypes, ToSet
<1>5. ASSUME NamesUnique, NEW i \in ToSet(ll)
      PROVE  made[i].name \in DOMAIN lm' /\ lm'[made[i].name] = i
  <2>1. made[i].name # made[evicted].name
    BY <1>3, <1>4, <1>5 DEF NamesUnique
  <2> QED BY <1>2, <1>5, <2>1 DEF MapInv
<1>6. \A k \in DOMAIN lm' :
        /\ made'[lm'[k]].name = k
        /\ \E i \in ToSet(ll') : made'[i].name = k
  BY <1>1, <1>2 DEF MapInv
<1>7. NamesUnique' =>
        \A i \in ToSet(ll') : made'[i].name \in DOMAIN lm' /\ lm'[made'[i].name] = i
  BY <1>1, <1>5 DEF NamesUnique
<1>8. MapInv'
  BY <1>1, <1>6, <1>7 DEF MapInv, Cutting
<1> QED BY <1>2, <1>8

LEMMA MapStore ==
    ASSUME TypeOK, ListInv, MapInv, SetItemStore
    PROVE  /\ MapInv'
           /\ \A k \in DOMAIN lm' : \/ lm'[k] = Len(made)
                                    \/ k \in DOMAIN lm /\ lm'[k] = lm[k]
<1>1. /\ sender = "store" /\ sender' = "push" /\ made' = made /\ ll' = ll
      /\ lm' = [k \in DOMAIN lm \cup {LastName} |->
                  IF k = LastName THEN Len(made) ELSE lm[k]]
  BY DEF SetItemStore, muxVars
<1>2. /\ DOMAIN lm' = DOMAIN lm \cup {LastName} /\ lm'[LastName] = Len(made)
      /\ \A k \in DOMAIN lm : k # LastName => lm'[k] = lm[k]
  BY <1>1
<1>3. /\ Len(made) \in DOMAIN made /\ LastName = made[Len(made)].name
      /\ LastName' = LastName
  BY <1>1, MadeType DEF TypeOK, MuxTypes, Cutting, LastName
<1>4. ASSUME NamesUnique, NEW i \in ToSet(ll)
      PROVE  made[i].name \in DOMAIN lm' /\ lm'[made[i].name] = i
  <2>1. i \in DOMAIN made
    BY DEF TypeOK, WindowTypes, ToSet
  <2>2. i # Len(made)
    <3>1. Newest = Len(made) - 1 /\ Newest \in Nat /\ Len(made) \in Nat /\ Len(ll) \in Nat
      BY <1>1, Counts DEF Cutting
    <3> QED BY <1>4, <3>1, InList DEF ListIsInterval
  <2>3. made[i].name # LastName
    BY <1>3, <1>4, <2>1, <2>2 DEF NamesUnique
  <2> QED BY <1>2, <1>4, <2>3 DEF MapInv
<1>5. \A k \in DOMAIN lm' :
        /\ made'[lm'[k]].name = k
        /\ k = LastName' \/ \E i \in ToSet(ll') : made'[i].name = k
  BY <1>1, <1>2, <1>3 DEF MapInv
<1>6. NamesUnique' =>
        \A i \in ToSet(ll') : made'[i].name \in DOMAIN lm' /\ lm'[made'[i].name] = i
  BY <1>1, <1>4 DEF NamesUnique
<1>7. MapInv'
  BY <1>1, <1>2, <1>3, <1>5, <1>6 DEF MapInv, Cutting
<1> QED BY <1>2, <1>7

LEMMA MapPush ==
    ASSUME TypeOK, TypeOK', ListInv, ListInv', MapInv, SetItemPush
    PROVE  /\ MapInv'
           /\ \A i : i \in ToSet(ll') <=> i \in ToSet(ll) \/ i = Len(made)
<1>1. sender = "push" /\ sender' = "recv" /\ made' = made /\ lm' = lm
      /\ ll' = Append(ll, Len(made))
  BY DEF SetItemPush
<1>2. /\ Newest' = Len(made) /\ Newest = Len(made) - 1 /\ Len(ll) \in Nat
      /\ Newest \in Nat /\ Len(made) \in Nat
  BY <1>1, Counts DEF Newest, Cutting
<1>3. Len(made) \in DOMAIN made /\ LastName = made[Len(made)].name /\ LastName' = LastName
  BY <1>1, MadeType DEF TypeOK, MuxTypes, Cutting, LastName
<1>4. Len(ll') = Len(ll) + 1
  BY <1>1, <1>3, Counts, AppendProperties
<1>5. /\ \A i : i \in ToSet(ll) <=> i \in Newest - Len(ll) + 1 .. Newest
      /\ \A i : i \in ToSet(ll') <=> i \in Newest' - Len(ll') + 1 .. Newest'
  BY InList, InListNext DEF ListIsInterval
<1>6. \A i : i \in ToSet(ll') <=> i \in ToSet(ll) \/ i = Len(made)
  BY <1>2, <1>4, <1>5
<1>7. LastName \in DOMAIN lm /\ lm[LastName] = Len(made)
  BY <1>1, <1>3 DEF MapInv
<1>8. \A k \in DOMAIN lm' :
        /\ made'[lm'[k]].name = k
        /\ \E i \in ToSet(ll') : made'[i].name = k
  BY <1>1, <1>3, <1>6 DEF MapInv
<1>9. NamesUnique' =>
        \A i \in ToSet(ll') : made'[i].name \in DOMAIN lm' /\ lm'[made'[i].name] = i
  BY <1>1, <1>3, <1>6, <1>7 DEF MapInv, NamesUnique
<1>10. MapInv'
  BY <1>1, <1>3, <1>7, <1>8, <1>9 DEF MapInv
<1> QED BY <1>6, <1>10

-----------------------------------------------------------------------------
(* The playlist. *)

\* A step of SendPacket that moves the window under the handler: what it has
\* listed stays in order, and what has left the list does not come back.
LEMMA ViewMoved ==
    ASSUME TypeOK, ViewInv, UNCHANGED viewVars,
           Newest \in Nat, Newest' \in Nat, Newest <= Newest',
           \A k \in DOMAIN made : made'[k].name = made[k].name,
           NamesUnique' => NamesUnique,
           \A i \in DOMAIN made :
              made[i].name \in DOMAIN lm' =>
                 \/ i <= lm'[made[i].name]
                 \/ made[i].name \in DOMAIN lm /\ lm'[made[i].name] = lm[made[i].name],
           \A i \in ToSet(ll') : i \in ToSet(ll) \/ i > Newest
    PROVE  ViewInv'
<1>1. /\ at \in Nat /\ at <= Newest /\ (at # 0 => at \in DOMAIN made)
      /\ body \in Seq(DOMAIN made)
  BY MadeType DEF TypeOK, WindowTypes, ViewInv
<1>2. at <= Newest'
  BY <1>1
<1>3. PlaylistInOrder'
  BY DEF ViewInv, PlaylistInOrder, viewVars
<1>4. ASSUME body # <<>>
      PROVE  LET b == body[Len(body)]
             IN  /\ at # 0 => made'[b].name <= made'[at].name
                 /\ made'[b].name \in DOMAIN lm' => b <= lm'[made'[b].name]
                 /\ NamesUnique' =>
                       /\ viewer = "look" => at \in {0, b + 1}
                       /\ viewer = "next" => \/ at = b
                                             \/ at = b + 1 /\ at \notin ToSet(ll')
  <2> DEFINE b == body[Len(body)]
  <2>1. b \in DOMAIN made
    BY <1>1, <1>4, EmptySeq
  <2>2. /\ at # 0 => made[b].name <= made[at].name
        /\ made[b].name \in DOMAIN lm => b <= lm[made[b].name]
        /\ NamesUnique =>
              /\ viewer = "look" => at \in {0, b + 1}
              /\ viewer = "next" => \/ at = b
                                    \/ at = b + 1 /\ at \notin ToSet(ll)
    BY <1>4 DEF ViewInv
  <2> HIDE DEF b
  <2>3. at # 0 => made'[b].name <= made'[at].name
    BY <1>1, <2>1, <2>2
  <2>4. made'[b].name \in DOMAIN lm' => b <= lm'[made'[b].name]
    BY <2>1, <2>2
  <2>5. at \notin ToSet(ll) => at \notin ToSet(ll')
    BY <1>1
  <2>6. NamesUnique' => /\ viewer = "look" => at \in {0, b + 1}
                        /\ viewer = "next" => \/ at = b
                                              \/ at = b + 1 /\ at \notin ToSet(ll')
    BY <2>2, <2>5
  <2> QED BY <2>3, <2>4, <2>6 DEF b
<1>5. viewer = "next" => at # 0
  BY DEF ViewInv
<1> QED BY <1>2, <1>3, <1>4, <1>5 DEF ViewInv, viewVars

LEMMA ViewStep ==
    ASSUME TypeOK, TypeOK', ListInv, ListInv', MapInv, ViewInv,
           \/ \E n : Cut(n)
           \/ SetItemRemove \/ SetItemDelete \/ SetItemStore \/ SetItemPush
    PROVE  ViewInv'
<1>0. Newest \in Nat /\ Len(made) \in Nat /\ DOMAIN made = 1 .. Len(made)
  BY Counts
<1>1. CASE \E n : Cut(n)
  <2>1. PICK n : Cut(n)
    BY <1>1
  <2>2. UNCHANGED <<ll, lm>> /\ UNCHANGED viewVars
    BY <2>1 DEF Cut, windowVars
  <2>3. Newest' = Newest
    BY <2>1, CutEffect, Counts DEF Newest, Cutting, Cut, Receive
  <2>4. ToSet(ll') = ToSet(ll)
    BY <2>2
  <2> QED BY <1>0, <2>1, <2>2, <2>3, <2>4, NamesGrow, ViewMoved
<1>2. CASE SetItemRemove
  <2>1. UNCHANGED <<made, lm>> /\ UNCHANGED viewVars /\ sender = "evict" /\ sender' = "delete"
    BY <1>2 DEF SetItemRemove, muxVars
  <2>2. Newest' = Newest /\ (NamesUnique' => NamesUnique)
    BY <2>1 DEF Newest, Cutting, NamesUnique
  <2>3. \A i \in ToSet(ll') : i \in ToSet(ll)
    BY <1>2, MapRemove
  <2> QED BY <1>0, <2>1, <2>2, <2>3, ViewMoved
<1>3. CASE SetItemDelete
  <2>1. UNCHANGED <<made, ll>> /\ UNCHANGED viewVars /\ sender = "delete" /\ sender' = "store"
    BY <1>3 DEF SetItemDelete, muxVars
  <2>2. Newest' = Newest /\ (NamesUnique' => NamesUnique) /\ ToSet(ll') = ToSet(ll)
    BY <2>1 DEF Newest, Cutting, NamesUnique
  <2>3. \A k \in DOMAIN lm' : k \in DOMAIN lm /\ lm'[k] = lm[k]
    BY <1>3, MapDelete
  <2> QED BY <1>0, <2>1, <2>2, <2>3, ViewMoved
<1>4. CASE SetItemStore
  <2>1. UNCHANGED <<made, ll>> /\ UNCHANGED viewVars /\ sender = "store" /\ sender' = "push"
    BY <1>4 DEF SetItemStore, muxVars
  <2>2. Newest' = Newest /\ (NamesUnique' => NamesUnique) /\ ToSet(ll') = ToSet(ll)
    BY <2>1 DEF Newest, Cutting, NamesUnique
  <2>3. \A k \in DOMAIN lm' : \/ lm'[k] = Len(made)
                              \/ k \in DOMAIN lm /\ lm'[k] = lm[k]
    BY <1>4, MapStore
  <2>4. \A i \in DOMAIN made : i <= Len(made)
    BY <1>0
  <2>5. \A i \in DOMAIN made :
          made[i].name \in DOMAIN lm' =>
             \/ i <= lm'[made[i].name]
             \/ made[i].name \in DOMAIN lm /\ lm'[made[i].name] = lm[made[i].name]
    BY <2>3, <2>4
  <2> QED BY <1>0, <2>1, <2>2, <2>5, ViewMoved
<1>5. CASE SetItemPush
  <2>1. UNCHANGED <<made, lm>> /\ UNCHANGED viewVars /\ sender = "push" /\ sender' = "recv"
    BY <1>5 DEF SetItemPush
  <2>2. /\ Newest' = Len(made) /\ Newest = Len(made) - 1
        /\ NamesUnique' => NamesUnique
    BY <2>1, Counts DEF Newest, Cutting, NamesUnique
  <2>3. \A i \in ToSet(ll') : i \in ToSet(ll) \/ i = Len(made)
    BY <1>5, MapPush
  <2>4. Newest <= Newest' /\ Newest' \in Nat /\ Len(made) > Newest
    BY <1>0, <2>2
  <2>5. \A i \in ToSet(ll') : i \in ToSet(ll) \/ i > Newest
    BY <2>3, <2>4
  <2> QED BY <1>0, <2>1, <2>2, <2>4, <2>5, ViewMoved
<1> QED BY <1>1, <1>2, <1>3, <1>4, <1>5

\* The handler lists the segment it is at: that of the same name that was stored
\* last, which is no older than what it listed before.
LEMMA ViewLook ==
    ASSUME TypeOK, ListInv, MapInv, ViewInv, PlaylistLook
    PROVE  ViewInv'
<1>1. /\ viewer = "look" /\ viewer' = "next" /\ at # 0 /\ at' = at
      /\ UNCHANGED <<made, ll, lm, sender>>
      /\ body' = IF made[at].name \in DOMAIN lm
                 THEN Append(body, lm[made[at].name]) ELSE body
  BY DEF PlaylistLook, windowVars, muxVars
<1>2. Newest' = Newest /\ NamesUnique' = NamesUnique /\ ToSet(ll') = ToSet(ll)
  BY <1>1 DEF Newest, NamesUnique, ToSet
<1>3. /\ at \in DOMAIN made /\ body \in Seq(DOMAIN made) /\ at <= Newest
      /\ \A k \in DOMAIN lm : lm[k] \in DOMAIN made
      /\ Len(made) \in Nat /\ DOMAIN made = 1 .. Len(made)
      /\ \A k \in DOMAIN made : made[k].name \in Nat
  BY <1>1, MadeType DEF TypeOK, WindowTypes, ViewInv
<1>4. CASE made[at].name \in DOMAIN lm
  <2> DEFINE k == lm[made[at].name]
  <2>1. k \in DOMAIN made /\ made[k].name = made[at].name
    BY <1>3, <1>4 DEF MapInv
  <2>2. NamesUnique => k = at
    BY <1>3, <2>1 DEF NamesUnique
  <2>3. body # <<>> => LET b == body[Len(body)]
                       IN  b <= k /\ (NamesUnique => k = b + 1)
    <3> SUFFICES ASSUME body # <<>>
                 PROVE  LET b == body[Len(body)]
                        IN  b <= k /\ (NamesUnique => k = b + 1)
      OBVIOUS
    <3> DEFINE b == body[Len(body)]
    <3>1. b \in DOMAIN made
      BY <1>3, EmptySeq
    <3>2. /\ made[b].name <= made[at].name
          /\ made[b].name \in DOMAIN lm => b <= lm[made[b].name]
          /\ NamesUnique => at = b + 1
      BY <1>1 DEF ViewInv
    <3> HIDE DEF b
    <3>3. CASE made[b].name = made[at].name
      <4>1. b <= k
        BY <1>4, <3>2, <3>3
      <4> QED BY <2>2, <3>2, <4>1 DEF b
    <3>4. CASE made[b].name # made[at].name
      <4>1. ~(made[k].name <= made[b].name)
        BY <1>3, <2>1, <3>1, <3>2, <3>4
      <4>2. ~(k <= b)
        BY <2>1, <3>1, <4>1 DEF MapInv
      <4>3. b <= k
        BY <1>3, <2>1, <3>1, <4>2
      <4> QED BY <2>2, <3>2, <4>3 DEF b
    <3> QED BY <3>3, <3>4
  <2>4. /\ Len(body') = Len(body) + 1 /\ body' \in Seq(DOMAIN made)
        /\ body'[Len(body) + 1] = k /\ body' # <<>>
        /\ \A i \in 1 .. Len(body) : body'[i] = body[i]
        /\ Len(body) \in Nat
    <3>1. body' = Append(body, k)
      BY <1>1, <1>4
    <3> HIDE DEF k
    <3> QED BY <1>3, <2>1, <3>1, AppendProperties
  <2>5. k <= lm[made[k].name]
    BY <1>3, <2>1
  <2> HIDE DEF k
  <2>6. PlaylistInOrder'
    <3> SUFFICES ASSUME NEW i \in 2 .. Len(body')
                 PROVE  /\ body'[i - 1] <= body'[i]
                        /\ NamesUnique => body'[i] = body'[i - 1] + 1
      BY <1>2 DEF PlaylistInOrder
    <3>1. CASE i \in 2 .. Len(body)
      <4>1. i - 1 \in 1 .. Len(body) /\ i \in 1 .. Len(body)
        BY <2>4, <3>1
      <4>2. body'[i] = body[i] /\ body'[i - 1] = body[i - 1]
        BY <2>4, <4>1
      <4> QED BY <3>1, <4>2 DEF ViewInv, PlaylistInOrder
    <3>2. CASE i = Len(body) + 1
      <4>1. Len(body) \in 1 .. Len(body) /\ body # <<>> /\ i - 1 = Len(body)
        BY <2>4, <3>2
      <4>2. body'[i - 1] = body[Len(body)] /\ body'[i] = k
        BY <2>4, <3>2, <4>1
      <4> QED BY <2>3, <4>1, <4>2
    <3> QED BY <2>4, <3>1, <3>2
  <2>7. made[k].name <= made[at].name
    BY <1>3, <2>1
  <2> QED BY <1>1, <1>2, <1>3, <2>2, <2>4, <2>5, <2>6, <2>7 DEF ViewInv
<1>5. CASE made[at].name \notin DOMAIN lm
  <2>1. body' = body
    BY <1>1, <1>5
  <2>2. NamesUnique => at \notin ToSet(ll)
    BY <1>5 DEF MapInv
  <2>3. PlaylistInOrder'
    BY <1>2, <2>1 DEF ViewInv, PlaylistInOrder
  <2> QED BY <1>1, <1>2, <2>1, <2>2, <2>3 DEF ViewInv
<1> QED BY <1>4, <1>5

\* It goes on to the next element, if the one it is at is still in the list.
LEMMA ViewNext ==
    ASSUME TypeOK, ListInv, MapInv, ViewInv, PlaylistNext
    PROVE  ViewInv'
<1>1. /\ viewer = "next" /\ viewer' = "look" /\ at' = NextElement(at)
      /\ UNCHANGED <<made, ll, lm, sender, body>>
  BY DEF PlaylistNext, windowVars, muxVars
<1>2. Newest' = Newest /\ NamesUnique' = NamesUnique /\ PlaylistInOrder'
  BY <1>1 DEF Newest, NamesUnique, PlaylistInOrder, ViewInv
<1>3. CASE at' = 0
  <2>1. at' <= Newest'
    BY <1>2, <1>3, Counts
  <2> QED BY <1>1, <1>2, <1>3, <2>1 DEF ViewInv
<1>4. CASE at' # 0
  <2>1. PICK k \in 2 .. Len(ll) : ll[k - 1] = at /\ at' = ll[k]
    BY <1>1, <1>4, NextElementType
  <2>2. Newest \in Nat /\ Len(ll) \in Nat /\ Newest <= Len(made) /\ Len(ll) <= Newest
    BY Counts DEF ListInv
  <2>3. k \in 1 .. Len(ll) /\ k - 1 \in 1 .. Len(ll)
    BY <2>1, <2>2
  <2>4. ll[k - 1] = Newest - Len(ll) + (k - 1) /\ ll[k] = Newest - Len(ll) + k
    BY <2>3 DEF ListInv
  <2>5. at' = at + 1 /\ at' <= Newest /\ at \in Nat /\ at # 0
    BY <2>1, <2>2, <2>3, <2>4
  <2>6. at \in ToSet(ll)
    BY <2>1, <2>3, Counts DEF ToSet
  <2>7. at \in DOMAIN made /\ at' \in DOMAIN made
    <3>1. Len(made) \in Nat /\ DOMAIN made = 1 .. Len(made)
      BY Counts
    <3> QED BY <2>2, <2>5, <3>1
  <2>8. made[at].name <= made[at'].name
    BY <2>5, <2>7 DEF MapInv
  <2>9. \A i \in DOMAIN made : made[i].name \in Nat
    BY MadeType DEF TypeOK
  <2>10. ASSUME body # <<>>
         PROVE  LET b == body[Len(body)]
                IN  /\ made[b].name <= made[at'].name
                    /\ made[b].name \in DOMAIN lm => b <= lm[made[b].name]
                    /\ NamesUnique => at' = b + 1
    <3> DEFINE b == body[Len(body)]
    <3>1. b \in DOMAIN made
      BY <2>10, EmptySeq DEF TypeOK, WindowTypes
    <3>2. /\ made[b].name <= made[at].name
          /\ made[b].name \in DOMAIN lm => b <= lm[made[b].name]
          /\ NamesUnique => at = b
      BY <1>1, <2>5, <2>6, <2>10 DEF ViewInv
    <3> HIDE DEF b
    <3>3. made[b].name <= made[at'].name
      BY <2>7, <2>8, <2>9, <3>1, <3>2
    <3> QED BY <2>5, <3>2, <3>3 DEF b
  <2> QED BY <1>1, <1>2, <1>4, <2>5, <2>10 DEF ViewInv
<1> QED BY <1>3, <1>4

LEMMA ViewGen ==
    ASSUME TypeOK, ListInv, MapInv, ViewInv, GenM3U8PlayList
    PROVE  ViewInv'
<1>1. UNCHANGED <<made, ll, lm, sender>> /\ Newest' = Newest
  BY ViewerSameWindow
<1>2. CASE Playlist
  <2>1. body' = <<>> /\ viewer' = "look" /\ at' = IF ll = <<>> THEN 0 ELSE ll[1]
    BY <1>2 DEF Playlist
  <2>2. at' <= Newest'
    <3>1. CASE ll = <<>>
      BY <1>1, <2>1, <3>1, Counts
    <3>2. CASE ll # <<>>
      <4>1. 1 \in 1 .. Len(ll) /\ Len(ll) \in Nat /\ Newest \in Nat
        BY <3>2, EmptySeq, Counts
      <4>2. ll[1] = Newest - Len(ll) + 1
        BY <4>1 DEF ListInv
      <4> QED BY <1>1, <2>1, <3>2, <4>1, <4>2
    <3> QED BY <3>1, <3>2
  <2>3. PlaylistInOrder'
    BY <2>1 DEF PlaylistInOrder
  <2> QED BY <2>1, <2>2, <2>3 DEF ViewInv
<1>3. CASE PlaylistDone
  <2>1. viewer' = "idle" /\ UNCHANGED <<at, body>>
    BY <1>3 DEF PlaylistDone
  <2> QED BY <1>1, <2>1 DEF ViewInv, PlaylistInOrder, NamesUnique
<1> QED BY <1>2, <1>3, ViewLook, ViewNext DEF GenM3U8PlayList
-----------------------------------------------------------------------------
(* The window and the playlists. *)

\* The new source of GetWriterNew has no segments either.
NoSegments ==
    /\ made = <<>> /\ ll = <<>> /\ lm = <<>> /\ sender = "recv"
    /\ viewer = "idle" /\ at = 0 /\ body = <<>>

LEMMA EmptyWindowNext ==
    NoSegments' => ListInv' /\ MapInv' /\ ViewInv'
<1>1. NoSegments => ListInv /\ MapInv /\ ViewInv
  BY EmptyWindow DEF NoSegments
<1> QED BY <1>1, PTL

\* The steps that leave the segments and the playlist alone.
LEMMA QuietStep ==
    ASSUME \/ UNCHANGED vars \/ Write \/ Writing \/ GetWriter
           \/ GoQuiet \/ CheckStopTest \/ CheckStopDelete
           \/ \E n : Skip(n) \/ DemuxFails(n) \/ SenderPanics(n) \/ DropFrame(n) \/ Mux(n)
    PROVE  /\ UNCHANGED <<made, windowVars, viewVars>>
           /\ sender' = sender \/ (sender = "recv" /\ sender' \in {"ended", "panicked"})
<1>1. CASE UNCHANGED vars
  BY <1>1 DEF vars, muxVars
<1>2. CASE Write \/ Writing
  BY <1>2 DEF Write, Writing, WriteCheck, WriteSend, muxVars
<1>3. CASE GoQuiet \/ CheckStopTest \/ CheckStopDelete \/ GetWriter
  BY <1>3 DEF GoQuiet, CheckStopTest, CheckStopDelete, GetWriter, muxVars
<1>4. CASE \E n : Skip(n) \/ DemuxFails(n) \/ SenderPanics(n) \/ DropFrame(n)
  BY <1>4 DEF Skip, DemuxFails, SenderPanics, DropFrame, Receive, muxVars
<1>5. CASE \E n : Mux(n)
  BY <1>5 DEF Mux
<1> QED BY <1>1, <1>2, <1>3, <1>4, <1>5

WindowInv == TypeOK /\ ListInv /\ MapInv /\ ViewInv

LEMMA WindowStep ==
    WindowInv /\ [Next]_vars => WindowInv'
<1> SUFFICES ASSUME TypeOK, ListInv, MapInv, ViewInv, [Next]_vars
             PROVE  WindowInv'
  BY DEF WindowInv
<1>1. TypeOK'
  BY NextType
<1>2. CASE \/ UNCHANGED vars \/ Write \/ Writing \/ GetWriter
           \/ GoQuiet \/ CheckStopTest \/ CheckStopDelete
           \/ \E n : Skip(n) \/ DemuxFails(n) \/ SenderPanics(n) \/ DropFrame(n) \/ Mux(n)
  <2>1. /\ UNCHANGED <<made, windowVars, viewVars>>
        /\ sender' = sender \/ (sender = "recv" /\ sender' \in {"ended", "panicked"})
    BY <1>2, QuietStep
  <2> QED BY <1>1, <2>1, SameWindow DEF WindowInv
<1>3. CASE \/ \E n : Cut(n)
           \/ SetItemRemove \/ SetItemDelete \/ SetItemStore \/ SetItemPush
  <2>1. ListInv'
    BY <1>1, <1>3, ListStep
  <2>2. MapInv'
    BY <1>1, <1>3, <2>1, MapCut, MapRemove, MapDelete, MapStore, MapPush
  <2>3. ViewInv'
    BY <1>1, <1>3, <2>1, ViewStep
  <2> QED BY <1>1, <2>1, <2>2, <2>3 DEF WindowInv
<1>4. CASE GenM3U8PlayList
  BY <1>1, <1>4, ViewerSameWindow, ViewGen DEF WindowInv
<1>5. CASE GetWriterNew
  BY <1>1, <1>5, EmptyWindowNext DEF GetWriterNew, NewSource, NoSegments, WindowInv
<1> QED BY <1>2, <1>3, <1>4, <1>5 DEF Next, SendPacket

LEMMA WindowCorrect ==
    Spec => []WindowInv
<1>1. Init => WindowInv
  BY InitType, EmptyWindow DEF Init, WindowInv
<1> QED BY <1>1, WindowStep, PTL DEF Spec

\* Every variable of the HLS source keeps its type, for every stream and every
\* size of the channel, the cache and the window.
THEOREM TypeCorrect ==
    Spec => []TypeOK
<1>1. WindowInv => TypeOK
  BY DEF WindowInv
<1> QED BY <1>1, WindowCorrect, PTL

\* TSCacheItem between two cuts: the list holds the newest segments up to its
\* bound, the map has no item besides, and the newest can be fetched; all can if
\* no two share a name.
THEOREM WindowIsKept ==
    Spec => []WindowKept
<1>1. WindowInv => WindowKept
  <2> SUFFICES ASSUME TypeOK, ListInv, MapInv, sender = "recv" PROVE WindowKept
    BY DEF WindowInv, WindowKept
  <2>1. sender \notin Cutting /\ Newest = Len(made)
    BY Counts DEF Cutting
  <2>2. /\ Len(ll) <= TsCacheNum
        /\ Len(ll) < TsCacheNum => Len(ll) = Len(made)
        /\ \A i \in 1 .. Len(ll) : ll[i] = Len(made) - Len(ll) + i
    BY <2>1 DEF ListInv
  <2>3. ll = [i \in 1 .. Len(ll) |-> Len(made) - Len(ll) + i]
    <3>1. ll = [i \in 1 .. Len(ll) |-> ll[i]]
      BY Counts
    <3> QED BY <2>2, <3>1
  <2>4. DOMAIN lm \subseteq {made[k].name : k \in ToSet(ll)}
    BY DEF MapInv
  <2>5. made # <<>> => GetItem(LastName) = Len(made)
    BY <2>1 DEF MapInv, GetItem
  <2>6. NamesUnique => \A k \in ToSet(ll) : GetItem(made[k].name) = k
    BY DEF MapInv, GetItem
  <2> QED BY <2>2, <2>3, <2>4, <2>5, <2>6 DEF WindowKept
<1> QED BY <1>1, WindowCorrect, PTL

\* GenM3U8PlayList reads the list and the map without a lock while SetItem moves
\* them: what it lists is in order, and consecutive if no two share a name.
THEOREM PlaylistsInOrder ==
    Spec => []PlaylistInOrder
<1>1. WindowInv => PlaylistInOrder
  BY DEF WindowInv, ViewInv
<1> QED BY <1>1, WindowCorrect, PTL

\* A source that was not quiet since the stream asked for it, and that checkStop had
\* not in hand then, is in conns: the steps of checkStop, which tests and deletes
\* without a lock, hit no other.
THEOREM SourceIsReachable ==
    Spec => []SourceReachable
<1> DEFINE Inv == /\ inConns \/ wasQuiet
                  /\ fresh \/ wasQuiet
                  /\ stopping => inConns /\ wasQuiet
<1>1. Init => Inv
  BY DEF Init
<1>2. Inv /\ [Next]_vars => Inv'
  <2> SUFFICES ASSUME Inv, [Next]_vars PROVE Inv'
    OBVIOUS
  <2>1. CASE UNCHANGED connVars
    BY <2>1 DEF connVars
  <2>2. CASE Write
    BY <2>2 DEF Write
  <2>3. CASE GoQuiet
    BY <2>3 DEF GoQuiet
  <2>4. CASE CheckStopTest \/ CheckStopDelete
    BY <2>4 DEF CheckStopTest, CheckStopDelete
  <2>5. CASE GetWriter
    BY <2>5 DEF GetWriter
  <2>6. CASE GetWriterNew
    BY <2>6 DEF GetWriterNew, NewSource
  <2>7. CASE Writing \/ GenM3U8PlayList \/ UNCHANGED vars
    BY <2>1, <2>7 DEF Writing, WriteCheck, WriteSend, GenM3U8PlayList, Playlist,
                      PlaylistLook, PlaylistNext, PlaylistDone, vars
  <2>8. CASE SendPacket
    BY <2>1, <2>8 DEF SendPacket, Skip, DemuxFails, SenderPanics, DropFrame, Mux, Cut,
                      SetItemRemove, SetItemDelete, SetItemStore, SetItemPush
  <2> QED BY <2>2, <2>3, <2>4, <2>5, <2>6, <2>7, <2>8 DEF Next
<1>3. Inv => SourceReachable
  BY DEF SourceReachable
<1> QED BY <1>1, <1>2, <1>3, PTL DEF Spec
-----------------------------------------------------------------------------
(* The order in which SendPacket receives tags. *)

LEMMA AwaitedType ==
    ASSUME TypeOK
    PROVE  /\ Len(tags) \in Nat /\ DOMAIN tags = 1 .. Len(tags)
           /\ next \in Nat /\ 1 <= next
           /\ \A n \in ToSet(packetQueue) : n \in DOMAIN tags
           /\ \A n : Awaited(n) => n \in DOMAIN tags
<1>1. Len(tags) \in Nat /\ DOMAIN tags = 1 .. Len(tags)
  BY TagsType DEF TypeOK
<1>2. next \in 1 .. Len(tags) + 1 /\ packetQueue \in Seq(DOMAIN tags)
  BY DEF TypeOK, WriterTypes
<1>3. \A n \in ToSet(packetQueue) : n \in DOMAIN tags
  BY <1>2 DEF ToSet
<1>4. next \in Nat /\ 1 <= next
  BY <1>1, <1>2
<1>5. \A n \in next .. Len(tags) : n \in DOMAIN tags
  BY <1>1, <1>4
<1> QED BY <1>1, <1>3, <1>4, <1>5 DEF Awaited

\* SendPacket receives the first tag it awaits.
LEMMA FlowReceive ==
    ASSUME TypeOK, FlowInv, NEW n, Receive(n), UNCHANGED writerVars
    PROVE  /\ n \in DOMAIN tags /\ Awaited(n)
           /\ \A m \in DOMAIN tags : Awaited(m)' <=> Awaited(m) /\ n < m
           /\ \A m \in DOMAIN tags : Awaited(m) => m = n \/ n < m
           /\ \A i, j \in DOMAIN packetQueue' : i < j => packetQueue'[i] < packetQueue'[j]
           /\ \A m \in ToSet(packetQueue') : m < next
<1> DEFINE q == packetQueue
           r == packetQueue'
<1>1. /\ q \in Seq(DOMAIN tags) /\ q # <<>> /\ n = Head(q) /\ r = Tail(q)
      /\ tags' = tags /\ next' = next
  BY DEF Receive, TypeOK, WriterTypes, writerVars
<1>2. /\ Len(q) \in Nat \ {0} /\ DOMAIN q = 1 .. Len(q)
      /\ Len(r) = Len(q) - 1 /\ DOMAIN r = 1 .. Len(r) /\ n = q[1]
      /\ \A i \in 1 .. Len(r) : r[i] = q[i + 1]
  BY <1>1, HeadTailProperties, EmptySeq
<1>3. /\ \A i, j \in DOMAIN q : i < j => q[i] < q[j]
      /\ \A m \in ToSet(q) : m < next
  BY DEF FlowInv
<1>4. DOMAIN tags \subseteq Nat /\ next \in Nat /\ \A m \in ToSet(q) : m \in DOMAIN tags
  BY AwaitedType
<1> HIDE DEF q, r
<1>5. \A i \in 1 .. Len(r) : i + 1 \in DOMAIN q /\ 1 \in DOMAIN q /\ 1 < i + 1
  BY <1>2
<1>6. \A i, j \in DOMAIN r : i < j => r[i] < r[j]
  <2> TAKE i, j \in DOMAIN r
  <2> HAVE i < j
  <2>1. i + 1 < j + 1
    BY <1>2
  <2> QED BY <1>2, <1>3, <1>5, <2>1
<1>7. \A m \in ToSet(r) : m \in ToSet(q) /\ n < m
  <2> TAKE m \in ToSet(r)
  <2>1. PICK i \in 1 .. Len(r) : m = r[i]
    BY <1>2 DEF ToSet
  <2>2. m = q[i + 1] /\ n < q[i + 1]
    BY <1>2, <1>3, <1>5, <2>1
  <2> QED BY <1>5, <2>2 DEF ToSet
<1>8. n \in ToSet(q) /\ n \in DOMAIN tags /\ n < next
  BY <1>2, <1>3, <1>4 DEF ToSet
<1>9. ASSUME NEW m \in ToSet(q), n < m
      PROVE  m \in ToSet(r)
  <2>1. PICK i \in DOMAIN q : m = q[i]
    BY DEF ToSet
  <2>2. i # 1
    BY <1>2, <1>4, <1>8, <1>9, <2>1
  <2>3. i - 1 \in 1 .. Len(r) /\ i = (i - 1) + 1
    BY <1>2, <2>2
  <2>4. r[i - 1] = m
    BY <1>2, <2>1, <2>3
  <2> QED BY <1>2, <2>3, <2>4 DEF ToSet
<1>10. \A m \in DOMAIN tags : Awaited(m)' <=> Awaited(m) /\ n < m
  <2> TAKE m \in DOMAIN tags
  <2>1. m \in next .. Len(tags) => n < m
    BY <1>4, <1>8, AwaitedType
  <2>2. m \in ToSet(r) <=> m \in ToSet(q) /\ n < m
    BY <1>7, <1>9
  <2>3. Awaited(m) <=> m \in ToSet(q) \/ m \in next .. Len(tags)
    BY DEF Awaited, q
  <2>4. Awaited(m)' <=> m \in ToSet(r) \/ m \in next .. Len(tags)
    BY <1>1 DEF Awaited, r
  <2> QED BY <2>1, <2>2, <2>3, <2>4
<1>11. \A m \in DOMAIN tags : Awaited(m) => m = n \/ n < m
  <2> TAKE m \in DOMAIN tags
  <2>1. m \in next .. Len(tags) => n < m
    BY <1>4, <1>8, AwaitedType
  <2>2. m \in ToSet(q) => m = n \/ n < m
    <3> HAVE m \in ToSet(q)
    <3>1. PICK i \in DOMAIN q : m = q[i]
      BY DEF ToSet
    <3>2. i = 1 \/ (1 \in DOMAIN q /\ 1 < i)
      BY <1>2
    <3> QED BY <1>2, <1>3, <3>1, <3>2
  <2> QED BY <2>1, <2>2 DEF Awaited, q
<1> QED BY <1>3, <1>6, <1>7, <1>8, <1>10, <1>11 DEF q, r, Awaited

\* The stream's goroutine: what it writes is awaited all the same, and it leaves out
\* no frame unless the source is closed.
LEMMA FlowWrite ==
    ASSUME TypeOK, FlowInv, Write \/ Writing \/ GetWriter
    PROVE  /\ UNCHANGED <<tags, closed, sender, cur, muxVars>>
           /\ \A m \in DOMAIN tags : Awaited(m)' => Awaited(m)
           /\ Live => \A m \in DOMAIN tags : Awaited(m) /\ Kind(m) \in Media => Awaited(m)'
           /\ \A i, j \in DOMAIN packetQueue' : i < j => packetQueue'[i] < packetQueue'[j]
           /\ \A m \in ToSet(packetQueue') : m < next'
<1>1. UNCHANGED <<tags, closed, sender, cur, muxVars>>
  BY DEF Write, Writing, WriteCheck, WriteSend, GetWriter
<1>2. /\ next \in Nat /\ Len(tags) \in Nat /\ DOMAIN tags = 1 .. Len(tags)
      /\ \A n \in ToSet(packetQueue) : n \in DOMAIN tags
      /\ packetQueue \in Seq(DOMAIN tags)
  BY AwaitedType DEF TypeOK, WriterTypes
<1>3. CASE UNCHANGED <<packetQueue, next>>
  BY <1>1, <1>3 DEF FlowInv, Awaited
<1>4. CASE /\ packetQueue' = packetQueue /\ next' = next + 1
           /\ closed \/ Kind(next) = "publish"
  <2>1. \A m \in DOMAIN tags : Awaited(m)' <=> Awaited(m) /\ (m \in ToSet(packetQueue) \/ m # next)
    BY <1>1, <1>2, <1>4 DEF Awaited
  <2>2. \A m \in ToSet(packetQueue') : m < next'
    BY <1>2, <1>4 DEF FlowInv
  <2>3. Live => Kind(next) \notin Media
    BY <1>4 DEF FlowInv, Live, Media
  <2> QED BY <1>1, <1>4, <2>1, <2>2, <2>3 DEF FlowInv
<1>5. CASE WriteSend
  <2> DEFINE q == packetQueue
             r == packetQueue'
  <2>1. next' = next + 1 /\ r = Append(q, next) /\ next \in DOMAIN tags
    BY <1>2, <1>5 DEF WriteSend, TypeOK, WriterTypes
  <2>2. /\ \A i, j \in DOMAIN q : i < j => q[i] < q[j]
        /\ \A m \in ToSet(q) : m < next
    BY DEF FlowInv
  <2>3. q \in Seq(DOMAIN tags)
    BY <1>2
  <2> HIDE DEF q, r
  <2>4. /\ Len(q) \in Nat /\ DOMAIN q = 1 .. Len(q) /\ DOMAIN r = 1 .. Len(q) + 1
        /\ r[Len(q) + 1] = next /\ \A i \in 1 .. Len(q) : r[i] = q[i]
    BY <2>1, <2>3, AppendProperties
  <2>5. \A m : m \in ToSet(r) <=> m \in ToSet(q) \/ m = next
    BY <2>4 DEF ToSet
  <2>6. \A m \in ToSet(r) : m < next'
    BY <1>2, <2>1, <2>2, <2>5 DEF q
  <2>7. \A i, j \in DOMAIN r : i < j => r[i] < r[j]
    <3> TAKE i, j \in DOMAIN r
    <3> HAVE i < j
    <3>1. i \in DOMAIN q /\ r[i] = q[i] /\ q[i] \in ToSet(q)
      BY <2>4 DEF ToSet
    <3>2. CASE j \in DOMAIN q
      BY <2>2, <2>4, <3>1, <3>2
    <3>3. CASE j = Len(q) + 1
      BY <2>2, <2>4, <3>1, <3>3
    <3> QED BY <2>4, <3>2, <3>3
  <2>8. \A m \in DOMAIN tags : Awaited(m)' <=> Awaited(m)
    <3> TAKE m \in DOMAIN tags
    <3>1. m \in next .. Len(tags) <=> m = next \/ m \in next + 1 .. Len(tags)
      BY <1>2, <2>1
    <3> QED BY <1>1, <2>1, <2>5, <3>1 DEF Awaited, q, r
  <2> QED BY <1>1, <2>6, <2>7, <2>8 DEF q, r
<1>6. Write \/ WriteCheck \/ GetWriter =>
        /\ packetQueue' = packetQueue
        /\ \/ next' = next
           \/ next' = next + 1 /\ (closed \/ Kind(next) = "publish")
  BY DEF Write, WriteCheck, GetWriter
<1> QED BY <1>3, <1>4, <1>5, <1>6 DEF Writing
\* The steps of SendPacket that receive a tag.
Receives(n) ==
    Skip(n) \/ DemuxFails(n) \/ SenderPanics(n) \/ DropFrame(n) \/ Mux(n) \/ Cut(n)

SetsItem == SetItemRemove \/ SetItemDelete \/ SetItemStore \/ SetItemPush

\* The steps of the handler and of checkStop.
Looks == GenM3U8PlayList \/ GoQuiet \/ CheckStopTest \/ CheckStopDelete

LEMMA NextCases ==
    ASSUME [Next]_vars
    PROVE  \/ UNCHANGED vars
           \/ Write \/ Writing \/ GetWriter
           \/ \E n : Receives(n)
           \/ SetsItem
           \/ Looks
           \/ GetWriterNew
  BY DEF Next, SendPacket, Receives, SetsItem, Looks

LEMMA ReceivesEffect ==
    ASSUME NEW n, Receives(n)
    PROVE  Receive(n) /\ UNCHANGED writerVars /\ sender = "recv"
  BY DEF Receives, Skip, DemuxFails, SenderPanics, DropFrame, Mux, Cut, Receive

\* A handler changes nothing SendPacket uses.
LEMMA LooksEffect ==
    ASSUME Looks \/ UNCHANGED vars
    PROVE  UNCHANGED <<writerVars, packetQueue, closed, sender, cur, muxVars>>
  BY DEF Looks, GenM3U8PlayList, Playlist, PlaylistLook, PlaylistNext, PlaylistDone,
         GoQuiet, CheckStopTest, CheckStopDelete, vars

LEMMA FlowStep ==
    ASSUME TypeOK, FlowInv, [Next]_vars
    PROVE  FlowInv'
<1>1. CASE Write \/ Writing \/ GetWriter
  <2>1. /\ UNCHANGED <<tags, closed, sender>>
        /\ \A m \in DOMAIN tags : Awaited(m)' => Awaited(m)
        /\ Live => \A m \in DOMAIN tags : Awaited(m) /\ Kind(m) \in Media => Awaited(m)'
        /\ \A i, j \in DOMAIN packetQueue' : i < j => packetQueue'[i] < packetQueue'[j]
        /\ \A m \in ToSet(packetQueue') : m < next'
    BY <1>1, FlowWrite
  <2>2. Live' => \A m, n \in DOMAIN tags' :
                   Awaited(m)' /\ m < n /\ Kind(n)' \in Media => Awaited(n)'
    BY <2>1 DEF FlowInv, Live, Kind
  <2> QED BY <2>1, <2>2 DEF FlowInv
<1>2. CASE \E n : Receives(n)
  <2>1. PICK n : Receives(n)
    BY <1>2
  <2>2. Receive(n) /\ UNCHANGED writerVars /\ sender = "recv"
    BY <2>1, ReceivesEffect
  <2>3. tags' = tags /\ next' = next
    BY <2>2 DEF writerVars
  <2>4. closed' => sender' = "ended"
    BY <2>1, <2>2 DEF FlowInv, Receives, Skip, DemuxFails, SenderPanics, DropFrame, Mux, Cut
  <2>5. DOMAIN tags \subseteq Nat /\ n \in DOMAIN tags
    BY <2>2, FlowReceive, AwaitedType
  <2>6. \A m, k \in DOMAIN tags' :
          Awaited(m)' /\ m < k /\ Kind(k)' \in Media => Awaited(k)'
    <3> SUFFICES ASSUME NEW m \in DOMAIN tags, NEW k \in DOMAIN tags,
                        Awaited(m)', m < k, Kind(k) \in Media
                 PROVE  Awaited(k)'
      BY <2>3 DEF Kind
    <3>1. Awaited(m) /\ n < m
      BY <2>2, FlowReceive
    <3>2. Awaited(k)
      BY <2>2, <3>1 DEF FlowInv, Live
    <3>3. n < k
      BY <2>5, <3>1
    <3> QED BY <2>2, <3>2, <3>3, FlowReceive
  <2>7. /\ \A i, j \in DOMAIN packetQueue' : i < j => packetQueue'[i] < packetQueue'[j]
        /\ \A m \in ToSet(packetQueue') : m < next'
    BY <2>2, <2>3, FlowReceive
  <2> QED BY <2>4, <2>6, <2>7 DEF FlowInv
<1>3. CASE SetsItem
  <2>1. /\ UNCHANGED <<tags, next, packetQueue, closed>>
        /\ sender \in Cutting /\ sender' \notin {"ended", "panicked"}
    BY <1>3 DEF SetsItem, SetItemRemove, SetItemDelete, SetItemStore, SetItemPush,
                writerVars, Cutting
  <2> QED BY <2>1 DEF FlowInv, Awaited, Kind, Live, Cutting
<1>4. CASE Looks \/ UNCHANGED vars
  BY <1>4, LooksEffect DEF FlowInv, Awaited, Kind, Live, writerVars
<1>5. CASE GetWriterNew
  <2>1. /\ tags' = tags /\ packetQueue' = <<>> /\ closed' = FALSE /\ next' = next + 1
        /\ ToSet(packetQueue') = {}
    BY <1>5 DEF GetWriterNew, NewSource, ToSet
  <2>2. next + 1 \in Nat /\ Len(tags) \in Nat /\ DOMAIN tags = 1 .. Len(tags)
    BY AwaitedType
  <2>3. \A m, n \in DOMAIN tags : Awaited(m)' /\ m < n => Awaited(n)'
    BY <2>1, <2>2 DEF Awaited
  <2> QED BY <2>1, <2>3 DEF FlowInv
<1> QED BY <1>1, <1>2, <1>3, <1>4, <1>5, NextCases

LEMMA FlowInit ==
    Init => FlowInv
<1> SUFFICES ASSUME Init PROVE FlowInv
  OBVIOUS
<1>1. packetQueue = <<>> /\ closed = FALSE /\ next = 1 /\ ToSet(packetQueue) = {}
  BY DEF Init, ToSet
<1>2. Len(tags) \in Nat /\ DOMAIN tags = 1 .. Len(tags)
  BY InitType, AwaitedType
<1>3. \A m, n \in DOMAIN tags : Awaited(m) /\ m < n => Awaited(n)
  BY <1>1, <1>2 DEF Awaited
<1> QED BY <1>1, <1>3 DEF FlowInv

-----------------------------------------------------------------------------
(* Segments. *)

\* A step that leaves the segments alone and after which no more is awaited; if
\* there is a segment at hand, no frame is lost.
LEMMA SegmentSame ==
    ASSUME SegmentInv, UNCHANGED <<tags, cur, btswriter, cache, made>>,
           sender' \in Cutting <=> sender \in Cutting,
           \A m \in DOMAIN tags : Awaited(m)' => Awaited(m),
           Live' => Live,
           Live' /\ btswriter # Nil =>
              \A m \in DOMAIN tags : Awaited(m) /\ Kind(m) \in Media => Awaited(m)'
    PROVE  SegmentInv'
<1>1. Pending' = Pending /\ Held' = Held /\ Start' = Start
  BY DEF Pending, Held, Start, ToSet
<1>2. \A n : Kind(n)' = Kind(n)
  BY DEF Kind
<1>3. SegmentsExact'
  BY DEF SegmentInv, SegmentsExact, NextStart, InStreamOrder, Kind
<1>4. btswriter # Nil => PendingInv'
  <2> SUFFICES ASSUME PendingInv PROVE PendingInv'
    BY DEF SegmentInv
  <2>1. InStreamOrder(Pending)'
    BY <1>1, <1>2 DEF PendingInv, InStreamOrder
  <2> QED BY <1>1, <1>2, <2>1 DEF PendingInv
<1> QED BY <1>1, <1>2, <1>3, <1>4 DEF SegmentInv
\* Sequences.
LEMMA SeqFacts ==
    ASSUME NEW S, NEW b \in Seq(S), NEW c \in Seq(S), NEW n \in S
    PROVE  /\ b \o <<>> = b
           /\ b \o Append(c, n) = Append(b \o c, n)
           /\ ToSet(Append(b, n)) = ToSet(b) \cup {n}
           /\ ToSet(b \o c) = ToSet(b) \cup ToSet(c)
           /\ b # <<>> => b \o c # <<>> /\ (b \o c)[1] = b[1]
           /\ b # <<>> => Append(b, n) # <<>> /\ Append(b, n)[1] = b[1]
<1>1. /\ b \o c \in Seq(S) /\ Len(b \o c) = Len(b) + Len(c)
      /\ \A i \in 1 .. Len(b) : (b \o c)[i] = b[i]
      /\ \A i \in 1 .. Len(c) : (b \o c)[Len(b) + i] = c[i]
      /\ Len(b) \in Nat /\ Len(c) \in Nat
  BY ConcatProperties
<1>2. /\ Append(b, n) \in Seq(S) /\ Len(Append(b, n)) = Len(b) + 1
      /\ \A i \in 1 .. Len(b) : Append(b, n)[i] = b[i]
      /\ Append(b, n)[Len(b) + 1] = n
  BY <1>1, AppendProperties
<1>3. b \o <<>> = b /\ b \o Append(c, n) = Append(b \o c, n)
  OBVIOUS
<1>4. ToSet(Append(b, n)) = ToSet(b) \cup {n}
  <2> DEFINE d == Append(b, n)
  <2>1. DOMAIN d = 1 .. Len(b) + 1 /\ DOMAIN b = 1 .. Len(b)
    BY <1>2
  <2>2. /\ \A i \in 1 .. Len(b) : d[i] = b[i] /\ i \in 1 .. Len(b) + 1
        /\ d[Len(b) + 1] = n /\ Len(b) + 1 \in 1 .. Len(b) + 1
        /\ \A i \in 1 .. Len(b) + 1 : i \in 1 .. Len(b) \/ i = Len(b) + 1
    BY <1>1, <1>2
  <2> HIDE DEF d
  <2>3. ToSet(d) = ToSet(b) \cup {n}
    BY <2>1, <2>2, Zenon DEF ToSet
  <2> QED BY <2>3 DEF d
<1>5. ToSet(b \o c) = ToSet(b) \cup ToSet(c)
  <2> DEFINE d == b \o c
  <2>1. DOMAIN d = 1 .. Len(b) + Len(c) /\ DOMAIN b = 1 .. Len(b) /\ DOMAIN c = 1 .. Len(c)
    BY <1>1
  <2>2. /\ \A i \in 1 .. Len(b) : d[i] = b[i]
        /\ \A i \in 1 .. Len(c) : d[Len(b) + i] = c[i]
    BY <1>1
  <2> HIDE DEF d
  <2>3. \A i \in DOMAIN d : i \in 1 .. Len(b) \/ i - Len(b) \in 1 .. Len(c)
    BY <1>1, <2>1
  <2>4. \A i \in DOMAIN d : d[i] \in ToSet(b) \cup ToSet(c)
    <3> TAKE i \in DOMAIN d
    <3>1. CASE i \in 1 .. Len(b)
      BY <2>1, <2>2, <3>1 DEF ToSet
    <3>2. CASE i - Len(b) \in 1 .. Len(c)
      <4>1. d[Len(b) + (i - Len(b))] = c[i - Len(b)] /\ Len(b) + (i - Len(b)) = i
        BY <1>1, <2>1, <2>2, <3>2
      <4> QED BY <2>1, <3>2, <4>1 DEF ToSet
    <3> QED BY <2>3, <3>1, <3>2
  <2>5. \A i \in 1 .. Len(b) : i \in DOMAIN d
    BY <1>1, <2>1
  <2>6. \A i \in 1 .. Len(c) : Len(b) + i \in DOMAIN d
    BY <1>1, <2>1
  <2>7. \A x \in ToSet(b) \cup ToSet(c) : x \in ToSet(d)
    BY <2>1, <2>2, <2>5, <2>6 DEF ToSet
  <2>8. ToSet(d) = ToSet(b) \cup ToSet(c)
    BY <2>4, <2>7 DEF ToSet
  <2> QED BY <2>8 DEF d
<1>6. b # <<>> => 1 \in 1 .. Len(b)
  BY EmptySeq, <1>1
<1>7. b # <<>> => b \o c # <<>> /\ (b \o c)[1] = b[1]
  BY <1>1, <1>6
<1>8. b # <<>> => Append(b, n) # <<>> /\ Append(b, n)[1] = b[1]
  BY <1>2, <1>6
<1> QED BY <1>3, <1>4, <1>5, <1>7, <1>8

\* A later frame at the end keeps the order.
LEMMA OrderAppend ==
    ASSUME TypeOK, NEW s \in Seq(DOMAIN tags), InStreamOrder(s), NEW n \in DOMAIN tags,
           \A m \in ToSet(s) : m < n
    PROVE  InStreamOrder(Append(s, n))
<1> DEFINE t == Append(s, n)
<1>1. /\ Len(s) \in Nat /\ DOMAIN s = 1 .. Len(s) /\ DOMAIN t = 1 .. Len(s) + 1
      /\ t[Len(s) + 1] = n /\ \A i \in 1 .. Len(s) : t[i] = s[i]
  BY AppendProperties
<1> HIDE DEF t
<1>2. ASSUME NEW i \in DOMAIN t, NEW j \in DOMAIN t, i < j,
             Kind(t[i]) = "audio" <=> Kind(t[j]) = "audio"
      PROVE  t[i] < t[j]
  <2>1. i \in DOMAIN s /\ t[i] = s[i] /\ s[i] \in ToSet(s)
    BY <1>1, <1>2 DEF ToSet
  <2>2. CASE j \in DOMAIN s
    BY <1>1, <1>2, <2>1, <2>2 DEF InStreamOrder
  <2>3. CASE j = Len(s) + 1
    BY <1>1, <2>1, <2>3
  <2> QED BY <1>1, <2>2, <2>3
<1> QED BY <1>2 DEF InStreamOrder, t

\* So does a later video frame in front of the audio that waits.
LEMMA OrderInsert ==
    ASSUME TypeOK, NEW b \in Seq(DOMAIN tags), NEW c \in Seq(DOMAIN tags),
           InStreamOrder(b \o c), NEW n \in DOMAIN tags, Kind(n) # "audio",
           \A m \in ToSet(b \o c) : m < n, \A m \in ToSet(c) : Kind(m) = "audio"
    PROVE  InStreamOrder(Append(b, n) \o c)
<1> DEFINE s == b \o c
           a == Append(b, n)
           t == a \o c
           L == Len(b)
           M == Len(c)
<1>1. L \in Nat /\ M \in Nat /\ DOMAIN c = 1 .. M
  OBVIOUS
<1>2. /\ DOMAIN s = 1 .. L + M
      /\ \A i \in 1 .. L : s[i] = b[i]
      /\ \A i \in 1 .. M : s[L + i] = c[i]
  BY ConcatProperties
<1>3. /\ a \in Seq(DOMAIN tags) /\ Len(a) = L + 1
      /\ \A i \in 1 .. L : a[i] = b[i]
      /\ a[L + 1] = n
  BY AppendProperties
<1> HIDE DEF a
<1>4. /\ t \in Seq(DOMAIN tags) /\ Len(t) = Len(a) + M
      /\ \A i \in 1 .. Len(a) : t[i] = a[i]
      /\ \A i \in 1 .. M : t[Len(a) + i] = c[i]
  <2>1. a \in Seq(DOMAIN tags)
    BY <1>3
  <2> QED BY <2>1, ConcatProperties
<1> HIDE DEF s, t, L, M
<1>5. DOMAIN t = 1 .. L + 1 + M
  BY <1>1, <1>3, <1>4
<1>6. \A i \in 1 .. L : t[i] = s[i] /\ i \in DOMAIN s
  BY <1>1, <1>2, <1>3, <1>4
<1>7. t[L + 1] = n
  BY <1>1, <1>3, <1>4
<1>8. ASSUME NEW i \in L + 2 .. L + 1 + M
      PROVE  t[i] = s[i - 1] /\ i - 1 \in DOMAIN s /\ Kind(t[i]) = "audio"
  <2>1. /\ i - (L + 1) \in 1 .. M /\ i = (L + 1) + (i - (L + 1))
        /\ i - 1 = L + (i - (L + 1)) /\ i - 1 \in 1 .. L + M
    BY <1>1
  <2>2. t[i] = c[i - (L + 1)]
    BY <1>3, <1>4, <2>1
  <2>3. s[i - 1] = c[i - (L + 1)]
    BY <1>2, <2>1
  <2>4. Kind(c[i - (L + 1)]) = "audio"
    BY <1>1, <2>1 DEF ToSet
  <2> QED BY <1>2, <2>1, <2>2, <2>3, <2>4
<1>9. ASSUME NEW i \in DOMAIN t, NEW j \in DOMAIN t, i < j,
             Kind(t[i]) = "audio" <=> Kind(t[j]) = "audio"
      PROVE  t[i] < t[j]
  <2>1. \A k, l \in DOMAIN s :
           k < l /\ (Kind(s[k]) = "audio" <=> Kind(s[l]) = "audio") => s[k] < s[l]
    BY DEF InStreamOrder, s
  <2>2. CASE i = L + 1
    <3>1. j \in L + 2 .. L + 1 + M
      BY <1>1, <1>5, <1>9, <2>2
    <3> QED BY <1>7, <1>8, <1>9, <2>2, <3>1
  <2>3. CASE j = L + 1
    <3>1. i \in 1 .. L
      BY <1>1, <1>5, <1>9, <2>3
    <3>2. s[i] < n
      BY <1>6, <3>1 DEF ToSet, s
    <3> QED BY <1>6, <1>7, <2>3, <3>1, <3>2
  <2>4. CASE i \in 1 .. L /\ j \in 1 .. L
    BY <1>6, <1>9, <2>1, <2>4
  <2>5. CASE i \in 1 .. L /\ j \in L + 2 .. L + 1 + M
    <3>1. i < j - 1
      BY <1>1, <2>5
    <3> QED BY <1>6, <1>8, <1>9, <2>1, <2>5, <3>1
  <2>6. CASE i \in L + 2 .. L + 1 + M /\ j \in L + 2 .. L + 1 + M
    <3>1. i - 1 < j - 1
      BY <1>1, <1>9, <2>6
    <3> QED BY <1>8, <1>9, <2>1, <2>6, <3>1
  <2>7. \/ i = L + 1 \/ j = L + 1
        \/ i \in 1 .. L /\ j \in 1 .. L
        \/ i \in 1 .. L /\ j \in L + 2 .. L + 1 + M
        \/ i \in L + 2 .. L + 1 + M /\ j \in L + 2 .. L + 1 + M
    BY <1>1, <1>5, <1>9
  <2> QED BY <2>2, <2>3, <2>4, <2>5, <2>6, <2>7
<1>10. InStreamOrder(t)
  BY <1>9 DEF InStreamOrder
<1> QED BY <1>10 DEF t, a
\* The segment at hand and its cached audio are sequences of tags.
LEMMA PendingType ==
    ASSUME TypeOK, btswriter # Nil
    PROVE  /\ btswriter \in Seq(DOMAIN tags) /\ cache \in Seq(DOMAIN tags)
           /\ Pending \in Seq(DOMAIN tags)
           /\ ToSet(Pending) = ToSet(btswriter) \cup ToSet(cache)
           /\ \A n \in ToSet(Pending) : n \in DOMAIN tags
           /\ btswriter # <<>> => Pending[1] = btswriter[1]
<1>1. btswriter \in Seq(DOMAIN tags) /\ cache \in Seq(DOMAIN tags)
  BY DEF TypeOK, MuxTypes, AudioTypes
<1>2. Pending \in Seq(DOMAIN tags)
  BY <1>1, ConcatProperties DEF Pending
<1>3. ToSet(Pending) \subseteq DOMAIN tags
  BY <1>2 DEF ToSet
<1>4. ToSet(Pending) = ToSet(btswriter) \cup ToSet(cache)
  <2>1. CASE DOMAIN tags = {}
    <3>1. btswriter = <<>> /\ cache = <<>>
      BY <1>1, <2>1, EmptySeq
    <3> QED BY <3>1 DEF Pending, ToSet
  <2>2. CASE DOMAIN tags # {}
    BY <1>1, <2>2, SeqFacts DEF Pending
  <2> QED BY <2>1, <2>2
<1>5. btswriter # <<>> => Pending[1] = btswriter[1]
  <2> HAVE btswriter # <<>>
  <2>1. 1 \in 1 .. Len(btswriter)
    BY <1>1, EmptySeq
  <2> QED BY <1>1, <2>1, ConcatProperties DEF Pending
<1> QED BY <1>1, <1>2, <1>3, <1>4, <1>5

\* The first key frame starts a segment.
LEMMA SegmentFirst ==
    ASSUME TypeOK, FlowInv, SegmentInv, NEW n, Mux(n), btswriter = Nil
    PROVE  SegmentInv'
<1>1. Receive(n) /\ UNCHANGED writerVars /\ tags' = tags /\ sender = "recv" /\ sender' = sender
  BY DEF Mux, Receive, writerVars
<1>2. /\ Kind(n) = "key" /\ btswriter' = <<n>> /\ cache' = cache /\ made' = made
      /\ cur' = cur
  BY DEF Mux, audioVars
<1>3. cache = <<>> /\ made = <<>> /\ cur = 0 /\ sender \notin Cutting
  BY DEF SegmentInv
<1>4. n \in DOMAIN tags /\ DOMAIN tags \subseteq Nat
  BY <1>1, FlowReceive, AwaitedType
<1>5. Pending' = <<n>> /\ ToSet(Pending') = {n} /\ btswriter'[1] = n
  BY <1>2, <1>3, <1>4 DEF Pending, ToSet
<1>6. \A m \in DOMAIN tags : Awaited(m)' <=> Awaited(m) /\ n < m
  BY <1>1, FlowReceive
<1>7. \A m : Kind(m)' = Kind(m)
  BY <1>1 DEF Kind
<1>8. InStreamOrder(Pending)'
  BY <1>5 DEF InStreamOrder
<1>9. PendingInv'
  <2>1. {cur'} \ {0} = {} /\ ToSet(cache') = {}
    BY <1>2, <1>3 DEF ToSet
  <2>2. Kind(n) \in Media /\ n <= n
    BY <1>2, <1>4 DEF Media
  <2> QED BY <1>1, <1>2, <1>4, <1>5, <1>6, <1>7, <1>8, <2>1, <2>2 DEF PendingInv
<1>10. \A m \in DOMAIN tags' :
         Start' <= m /\ Kind(m)' \in Media => m \in Held' \/ Awaited(m)'
  <2>1. Start' = n /\ Held' = {n}
    BY <1>2, <1>3, <1>5 DEF Start, Held
  <2> SUFFICES ASSUME NEW m \in DOMAIN tags, n < m, Kind(m) \in Media
               PROVE  Awaited(m)'
    BY <1>1, <1>4, <1>7, <2>1
  <2>2. Awaited(m)
    BY <1>1, <1>4, FlowReceive DEF FlowInv, Live
  <2> QED BY <1>6, <2>2
<1>11. SegmentsExact'
  BY <1>2, <1>3 DEF SegmentsExact
<1> QED BY <1>1, <1>2, <1>3, <1>9, <1>10, <1>11 DEF SegmentInv

\* A frame of a segment that goes on: the pending frames are the old ones and it.
LEMMA PendingMux ==
    ASSUME TypeOK, FlowInv, SegmentInv, NEW n, Mux(n), btswriter # Nil
    PROVE  /\ Pending' \in Seq(DOMAIN tags)
           /\ ToSet(Pending') = ToSet(Pending) \cup {n}
           /\ InStreamOrder(Pending')
           /\ btswriter' \in Seq(DOMAIN tags) /\ btswriter' # <<>>
           /\ btswriter'[1] = btswriter[1]
           /\ \A m \in ToSet(cache') : Kind(m) = "audio"
<1> DEFINE b == btswriter
           c == cache
           D == DOMAIN tags
<1>1. Receive(n) /\ UNCHANGED writerVars
  BY DEF Mux
<1>2. n \in D /\ Awaited(n)
  BY <1>1, FlowReceive
<1>3. PendingInv /\ b # <<>>
  BY DEF SegmentInv, PendingInv
<1>4. b \in Seq(D) /\ c \in Seq(D) /\ b \o c \in Seq(D)
  BY PendingType DEF Pending
<1>5. /\ InStreamOrder(b \o c) /\ \A m \in ToSet(b \o c) : m < n
      /\ \A m \in ToSet(c) : Kind(m) = "audio"
  BY <1>2, <1>3 DEF PendingInv, Pending
<1>6. CASE Kind(n) = "audio"
  <2> DEFINE e == Append(c, n)
  <2>1. \/ btswriter' = b /\ cache' = e
        \/ btswriter' = b \o e /\ cache' = <<>>
    BY <1>6 DEF Mux, MuxAudio, Cached
  <2>2. e \in Seq(D) /\ ToSet(e) = ToSet(c) \cup {n}
    BY <1>2, <1>4, AppendProperties, SeqFacts
  <2>3. b \o e = Append(b \o c, n) /\ b \o e \in Seq(D)
    BY <1>2, <1>4, <2>2, SeqFacts, ConcatProperties
  <2> HIDE DEF e
  <2>4. (b \o e) \o <<>> = b \o e /\ (b \o e)[1] = b[1] /\ b \o e # <<>>
    <3>1. (b \o e)[1] = b[1] /\ b \o e # <<>>
      BY <1>2, <1>3, <1>4, <2>2, SeqFacts
    <3>2. \A d \in Seq(D) : d \o <<>> = d
      OBVIOUS
    <3> QED BY <2>3, <3>1, <3>2
  <2>5. Pending' = Append(b \o c, n)
    BY <2>1, <2>3, <2>4 DEF Pending
  <2>6. Pending' \in Seq(D) /\ ToSet(Pending') = ToSet(b \o c) \cup {n}
    <3>1. \A d \in Seq(D) : Append(d, n) \in Seq(D) /\ ToSet(Append(d, n)) = ToSet(d) \cup {n}
      BY <1>2, SeqFacts, AppendProperties
    <3> QED BY <1>4, <2>5, <3>1
  <2>7. InStreamOrder(Pending')
    BY <1>2, <1>4, <1>5, <2>5, OrderAppend
  <2>8. \A m \in ToSet(cache') : Kind(m) = "audio"
    <3>1. ToSet(<<>>) = {}
      BY DEF ToSet
    <3> QED BY <1>5, <1>6, <2>1, <2>2, <3>1
  <2>9. btswriter' \in Seq(D) /\ btswriter' # <<>> /\ btswriter'[1] = b[1]
    BY <1>3, <1>4, <2>1, <2>3, <2>4
  <2> QED BY <2>6, <2>7, <2>8, <2>9 DEF Pending
<1>7. CASE Kind(n) # "audio"
  <2> DEFINE a == Append(b, n)
  <2>1. btswriter' = a /\ cache' = c
    BY <1>7 DEF Mux, audioVars
  <2>2. a \in Seq(D) /\ ToSet(a) = ToSet(b) \cup {n} /\ a # <<>> /\ a[1] = b[1]
    BY <1>2, <1>3, <1>4, AppendProperties, SeqFacts
  <2>3. InStreamOrder(a \o c)
    BY <1>2, <1>4, <1>5, <1>7, OrderInsert
  <2> HIDE DEF a
  <2>4. a \o c \in Seq(D) /\ ToSet(a \o c) = ToSet(a) \cup ToSet(c)
    BY <1>2, <1>4, <2>2, SeqFacts, ConcatProperties
  <2>5. ToSet(b \o c) = ToSet(b) \cup ToSet(c)
    BY <1>2, <1>4, SeqFacts
  <2> QED BY <1>5, <2>1, <2>2, <2>3, <2>4, <2>5 DEF Pending
<1> QED BY <1>6, <1>7

LEMMA SegmentMux ==
    ASSUME TypeOK, FlowInv, SegmentInv, NEW n, Mux(n), btswriter # Nil
    PROVE  SegmentInv'
<1>1. /\ Receive(n) /\ UNCHANGED writerVars /\ tags' = tags /\ sender = "recv"
      /\ sender' = sender /\ made' = made /\ cur' = cur /\ Kind(n) \in Media
  BY DEF Mux, Receive, writerVars
<1>2. cur = 0 /\ sender \notin Cutting /\ PendingInv /\ Live
  BY <1>1 DEF SegmentInv, Cutting, Live
<1>3. n \in DOMAIN tags /\ Awaited(n) /\ DOMAIN tags \subseteq Nat
  BY <1>1, FlowReceive, AwaitedType
<1>4. \A m \in DOMAIN tags : /\ Awaited(m)' <=> Awaited(m) /\ n < m
                             /\ Awaited(m) => m = n \/ n < m
  BY <1>1, FlowReceive
<1>5. \A m : Kind(m)' = Kind(m)
  BY <1>1 DEF Kind
<1>6. btswriter' # Nil
  <2>1. btswriter' \in Seq(Nat)
    BY <1>3, PendingMux
  <2> QED BY <2>1, NilAssumption
<1>7. /\ btswriter[1] \in ToSet(Pending) /\ btswriter[1] \in DOMAIN tags
      /\ \A m \in ToSet(Pending) : m \in DOMAIN tags
  <2>1. btswriter \in Seq(DOMAIN tags) /\ btswriter # <<>>
    BY <1>2, PendingType DEF PendingInv
  <2>2. btswriter[1] \in ToSet(btswriter)
    BY <2>1, EmptySeq DEF ToSet
  <2> QED BY <2>2, PendingType
<1>8. PendingInv'
  <2>1. InStreamOrder(Pending)'
    BY <1>5, PendingMux DEF InStreamOrder
  <2>2. \A m \in ToSet(Pending') : /\ Kind(m) \in Media
                                   /\ btswriter[1] <= m
                                   /\ \A k \in DOMAIN tags : Awaited(k)' => m < k
    <3> TAKE m \in ToSet(Pending')
    <3>1. CASE m = n
      <4>1. btswriter[1] < n
        BY <1>2, <1>3, <1>7 DEF PendingInv
      <4> QED BY <1>1, <1>3, <1>4, <1>7, <3>1, <4>1
    <3>2. CASE m \in ToSet(Pending)
      BY <1>2, <1>4, <3>2 DEF PendingInv
    <3> QED BY <3>1, <3>2, PendingMux
  <2>3. {cur'} \ {0} = {}
    BY <1>1, <1>2
  <2> QED BY <1>1, <1>2, <1>5, <2>1, <2>2, <2>3, PendingMux DEF PendingInv
<1>9. \A m \in DOMAIN tags' :
        Start' <= m /\ Kind(m)' \in Media => m \in Held' \/ Awaited(m)'
  <2>1. Start' = Start /\ Held' = ToSet(Pending) \cup {n} /\ Held = ToSet(Pending)
    BY <1>1, <1>2, PendingMux DEF Start, Held
  <2>2. \A m \in DOMAIN tags :
          Start <= m /\ Kind(m) \in Media => m \in Held \/ Awaited(m)
    BY <1>2 DEF SegmentInv
  <2> QED BY <1>1, <1>4, <1>5, <2>1, <2>2
<1>10. SegmentsExact'
  <2>1. \A k : NextStart(k)' = NextStart(k)
    BY <1>1, <1>2, PendingMux DEF NextStart
  <2>2. \A s : InStreamOrder(s)' <=> InStreamOrder(s)
    BY <1>5 DEF InStreamOrder
  <2> QED BY <1>1, <1>5, <2>1, <2>2 DEF SegmentInv, SegmentsExact, InStreamOrder
<1> QED BY <1>1, <1>2, <1>6, <1>8, <1>9, <1>10 DEF SegmentInv
\* cut ends the segment at hand: it holds every frame from its first to the key frame.
LEMMA SegmentCut ==
    ASSUME TypeOK, TypeOK', FlowInv, SegmentInv, NEW n, Cut(n)
    PROVE  SegmentInv'
<1> DEFINE L == Len(made)
<1>1. /\ Receive(n) /\ UNCHANGED writerVars /\ tags' = tags /\ sender = "recv"
      /\ sender' \in Cutting /\ cur' = n /\ Kind(n) = "key" /\ btswriter # Nil
  BY DEF Cut, Cuts, Receive, writerVars, Cutting
<1>2. cur = 0 /\ PendingInv /\ Live
  BY <1>1 DEF SegmentInv, Cutting, Live
<1>3. n \in DOMAIN tags /\ Awaited(n) /\ DOMAIN tags = 1 .. Len(tags) /\ Len(tags) \in Nat
  BY <1>1, FlowReceive, AwaitedType
<1>4. \A m \in DOMAIN tags : /\ Awaited(m)' <=> Awaited(m) /\ n < m
                             /\ Awaited(m) => m = n \/ n < m
  BY <1>1, FlowReceive
<1>5. \A m : Kind(m)' = Kind(m)
  BY <1>1 DEF Kind
<1>6. /\ L \in Nat /\ DOMAIN made = 1 .. L /\ DOMAIN made' = 1 .. L + 1
      /\ \A k \in DOMAIN made : made'[k] = made[k]
      /\ made'[L + 1].data = Pending /\ btswriter' = Pending /\ cache' = <<>>
  BY CutEffect, MadeType, MadeTypeNext DEF TypeOK, Pending
<1>7. Pending \in Seq(DOMAIN tags) /\ Pending[1] = btswriter[1] /\ Pending # <<>>
  <2>1. /\ btswriter \in Seq(DOMAIN tags) /\ cache \in Seq(DOMAIN tags) /\ btswriter # <<>>
        /\ Pending \in Seq(DOMAIN tags) /\ Pending[1] = btswriter[1]
    BY <1>1, <1>2, PendingType DEF PendingInv
  <2> QED BY <1>3, <2>1, SeqFacts DEF Pending
<1>8. Pending' = Pending
  <2>1. \A s \in Seq(DOMAIN tags) : s \o <<>> = s
    OBVIOUS
  <2>2. Pending' = btswriter' \o cache'
    BY DEF Pending
  <2> QED BY <1>6, <1>7, <2>1, <2>2
<1>9. btswriter' # Nil
  <2>1. Pending \in Seq(Nat)
    BY <1>3, <1>7
  <2> QED BY <1>6, <2>1, NilAssumption
<1>10. /\ Pending[1] \in ToSet(Pending) /\ ToSet(Pending) \subseteq DOMAIN tags
       /\ \A m \in ToSet(Pending) : Kind(m) \in Media /\ Pending[1] <= m /\ m < n
  <2>1. Pending[1] \in ToSet(Pending) /\ ToSet(Pending) \subseteq DOMAIN tags
    BY <1>7, EmptySeq DEF ToSet
  <2> QED BY <1>2, <1>3, <1>7, <2>1 DEF PendingInv
<1>11. \A s : InStreamOrder(s)' <=> InStreamOrder(s)
  BY <1>5 DEF InStreamOrder
<1>12. PendingInv'
  <2>1. InStreamOrder(Pending)'
    BY <1>2, <1>5, <1>8 DEF PendingInv, InStreamOrder
  <2>2. ToSet(cache') = {} /\ ToSet(Pending') = ToSet(Pending) /\ btswriter'[1] = Pending[1]
    BY <1>6, <1>8 DEF ToSet
  <2>3. Kind(n) \in Media
    BY <1>1 DEF Media
  <2>4. \A m \in ToSet(Pending) \cup {n} :
           Kind(m) \in Media /\ \A k \in DOMAIN tags : Awaited(k)' => m < k
    BY <1>2, <1>4, <2>3 DEF PendingInv
  <2> QED BY <1>1, <1>2, <1>5, <1>6, <1>7, <1>10, <2>1, <2>2, <2>4 DEF PendingInv
<1>13. n # 0
  BY <1>3
<1>14. \A m \in DOMAIN tags' :
         Start' <= m /\ Kind(m)' \in Media => m \in Held' \/ Awaited(m)'
  <2>1. Start' = n /\ Held' = {n}
    BY <1>1, <1>13 DEF Start, Held
  <2> SUFFICES ASSUME NEW m \in DOMAIN tags, n < m, Kind(m) \in Media
               PROVE  Awaited(m)'
    BY <1>1, <1>3, <1>5, <2>1
  <2>2. Awaited(m)
    BY <1>2, <1>3 DEF FlowInv
  <2> QED BY <1>4, <2>2
<1>15. ToSet(Pending) = {m \in Pending[1] .. n - 1 : Kind(m) \in Media}
  <2>1. Pending[1] \in DOMAIN tags
    BY <1>10
  <2>2. ASSUME NEW m \in Pending[1] .. n - 1, Kind(m) \in Media
        PROVE  m \in ToSet(Pending)
    <3>1. m \in DOMAIN tags /\ ~(m = n) /\ ~(n < m) /\ Pending[1] <= m
      BY <1>3, <2>1
    <3>2. m \in Held \/ Awaited(m)
      BY <1>1, <1>2, <1>7, <2>2, <3>1 DEF SegmentInv, Start
    <3> QED BY <1>2, <1>4, <3>1, <3>2 DEF Held
  <2>3. \A m \in ToSet(Pending) : m \in Pending[1] .. n - 1 /\ Kind(m) \in Media
    BY <1>3, <1>10, <2>1
  <2> QED BY <2>2, <2>3
<1> HIDE DEF L
<1>16. SegmentsExact'
  <2> SUFFICES ASSUME NEW k \in DOMAIN made'
               PROVE  /\ Kind(made'[k].data[1]) = "key"
                      /\ ToSet(made'[k].data) =
                           {m \in made'[k].data[1] .. NextStart(k)' - 1 : Kind(m) \in Media}
                      /\ InStreamOrder(made'[k].data)
    BY <1>5, <1>11 DEF SegmentsExact, InStreamOrder
  <2>1. Len(made') = L + 1
    BY CutEffect DEF L
  <2>2. CASE k \in DOMAIN made
    <3>1. NextStart(k)' = NextStart(k)
      <4>1. k < Len(made') /\ NextStart(k)' = made'[k + 1].data[1]
        BY <1>6, <2>1, <2>2 DEF NextStart
      <4>2. CASE k < L
        <5>1. k + 1 \in DOMAIN made
          BY <1>6, <2>2, <4>2
        <5> QED BY <1>6, <4>1, <4>2, <5>1 DEF NextStart, L
      <4>3. CASE k = L
        <5>1. ~(k < Len(made))
          BY <1>6, <4>3 DEF L
        <5> QED BY <1>2, <1>6, <1>7, <4>1, <4>3, <5>1 DEF NextStart
      <4> QED BY <1>6, <2>2, <4>2, <4>3
    <3> QED BY <1>6, <2>2, <3>1 DEF SegmentInv, SegmentsExact
  <2>3. CASE k = L + 1
    <3>1. NextStart(k)' = n
      BY <1>1, <1>6, <1>13, <2>1, <2>3 DEF NextStart
    <3> QED BY <1>2, <1>6, <1>7, <1>15, <2>3, <3>1 DEF PendingInv
  <2> QED BY <1>6, <2>2, <2>3
<1>17. \A k \in DOMAIN made' : made'[k].data # <<>>
  <2>1. \A k \in DOMAIN made' : k \in DOMAIN made \/ k = L + 1
    BY <1>6
  <2> QED BY <1>6, <1>7, <2>1 DEF SegmentInv
<1> QED BY <1>1, <1>5, <1>6, <1>9, <1>12, <1>13, <1>14, <1>16, <1>17 DEF SegmentInv

\* The key frame starts the next segment.
LEMMA SegmentPush ==
    ASSUME TypeOK, SegmentInv, SetItemPush
    PROVE  SegmentInv'
<1>1. /\ sender = "push" /\ sender' = "recv" /\ btswriter' = <<cur>> /\ cur' = 0
      /\ UNCHANGED <<tags, next, packetQueue, cache, made>>
  BY DEF SetItemPush, writerVars, audioVars
<1>2. cur # 0 /\ cache = <<>> /\ Kind(cur) = "key" /\ btswriter # Nil /\ PendingInv
  BY <1>1 DEF SegmentInv, Cutting
<1>3. cur \in DOMAIN tags /\ DOMAIN tags \subseteq Nat
  <2>1. cur \in 0 .. Len(tags)
    BY DEF TypeOK, MuxTypes
  <2> QED BY <1>2, <2>1, AwaitedType
<1>4. Pending' = <<cur>> /\ ToSet(Pending') = {cur} /\ btswriter'[1] = cur
  BY <1>1, <1>2, <1>3 DEF Pending, ToSet
<1>5. \A m : Kind(m)' = Kind(m) /\ (Awaited(m)' <=> Awaited(m))
  BY <1>1 DEF Kind, Awaited
<1>6. btswriter' # Nil
  <2>1. <<cur>> \in Seq(Nat)
    BY <1>3
  <2> QED BY <1>1, <2>1, NilAssumption
<1>7. PendingInv'
  <2>1. InStreamOrder(Pending)'
    BY <1>4 DEF InStreamOrder
  <2>2. ToSet(cache') = {} /\ {cur'} \ {0} = {} /\ cur <= cur /\ btswriter' # <<>>
    BY <1>1, <1>2, <1>3 DEF ToSet
  <2>3. Kind(cur) \in Media /\ \A m \in DOMAIN tags : Awaited(m) => cur < m
    BY <1>2 DEF PendingInv
  <2> QED BY <1>1, <1>2, <1>4, <1>5, <2>1, <2>2, <2>3 DEF PendingInv
<1>8. \A m \in DOMAIN tags' :
        Start' <= m /\ Kind(m)' \in Media => m \in Held' \/ Awaited(m)'
  <2>1. Start' = cur /\ Start = cur /\ Held' = {cur} /\ Held = {cur}
    BY <1>1, <1>2, <1>4 DEF Start, Held
  <2>2. Live
    BY <1>1 DEF Live
  <2> QED BY <1>1, <1>2, <1>5, <2>1, <2>2 DEF SegmentInv
<1>9. SegmentsExact'
  <2>1. \A k : NextStart(k)' = NextStart(k)
    BY <1>1, <1>2, <1>4 DEF NextStart
  <2>2. \A s : InStreamOrder(s)' <=> InStreamOrder(s)
    BY <1>5 DEF InStreamOrder
  <2> QED BY <1>1, <1>5, <2>1, <2>2 DEF SegmentInv, SegmentsExact, InStreamOrder
<1> QED BY <1>1, <1>6, <1>7, <1>8, <1>9 DEF SegmentInv, Cutting

LEMMA SegmentStep ==
    ASSUME TypeOK, TypeOK', FlowInv, SegmentInv, [Next]_vars
    PROVE  SegmentInv'
<1>1. CASE Write \/ Writing \/ GetWriter
  <2>1. /\ UNCHANGED <<tags, sender, cur, muxVars>>
        /\ \A m \in DOMAIN tags : Awaited(m)' => Awaited(m)
        /\ Live => \A m \in DOMAIN tags : Awaited(m) /\ Kind(m) \in Media => Awaited(m)'
    BY <1>1, FlowWrite
  <2>2. UNCHANGED <<btswriter, cache, made>> /\ Live' = Live
    BY <2>1 DEF muxVars, audioVars, Live
  <2> QED BY <2>1, <2>2, SegmentSame
<1>2. ASSUME NEW n, Skip(n) \/ DemuxFails(n) \/ SenderPanics(n) \/ DropFrame(n)
      PROVE  SegmentInv'
  <2>1. /\ Receive(n) /\ UNCHANGED writerVars /\ sender = "recv"
        /\ UNCHANGED <<tags, cur, btswriter, cache, made>>
    BY <1>2, ReceivesEffect
    DEF Receives, Skip, DemuxFails, SenderPanics, DropFrame, writerVars, muxVars, audioVars
  <2>2. /\ sender' = sender \/ sender' \in {"ended", "panicked"}
        /\ Live' => Kind(n) \notin Media \/ btswriter = Nil
    BY <1>2, <2>1 DEF Skip, DemuxFails, SenderPanics, DropFrame, Skipped, Media, Live
  <2>3. /\ sender' \in Cutting <=> sender \in Cutting
        /\ Live' => Live
    BY <2>1, <2>2 DEF Cutting, Live
  <2>4. \A m \in DOMAIN tags : /\ Awaited(m)' => Awaited(m)
                               /\ Awaited(m) => m = n \/ Awaited(m)'
    BY <2>1, FlowReceive
  <2> QED BY <2>1, <2>2, <2>3, <2>4, SegmentSame
<1>3. ASSUME NEW n, Mux(n)
      PROVE  SegmentInv'
  BY <1>3, SegmentFirst, SegmentMux
<1>4. ASSUME NEW n, Cut(n)
      PROVE  SegmentInv'
  BY <1>4, SegmentCut
<1>5. CASE SetsItem
  <2>1. CASE SetItemPush
    BY <2>1, SegmentPush
  <2>2. CASE SetItemRemove \/ SetItemDelete \/ SetItemStore
    <3>1. /\ UNCHANGED <<tags, next, packetQueue, cur, btswriter, cache, made>>
          /\ sender \in Cutting /\ sender' \in Cutting /\ Live
      BY <2>2 DEF SetItemRemove, SetItemDelete, SetItemStore, writerVars, muxVars, audioVars,
                  Cutting, Live
    <3>2. \A m : Awaited(m)' <=> Awaited(m)
      BY <3>1 DEF Awaited
    <3> QED BY <3>1, <3>2, SegmentSame
  <2> QED BY <1>5, <2>1, <2>2 DEF SetsItem
<1>6. CASE Looks \/ UNCHANGED vars
  <2>1. UNCHANGED <<tags, next, packetQueue, sender, cur, btswriter, cache, made>>
    BY <1>6, LooksEffect DEF writerVars, muxVars, audioVars
  <2>2. (\A m : Awaited(m)' <=> Awaited(m)) /\ Live' = Live
    BY <2>1 DEF Awaited, Live
  <2> QED BY <2>1, <2>2, SegmentSame
<1>7. CASE GetWriterNew
  <2>1. /\ made' = <<>> /\ btswriter' = Nil /\ cache' = <<>> /\ cur' = 0
        /\ sender' = "recv"
    BY <1>7 DEF GetWriterNew, NewSource
  <2> QED BY <2>1 DEF SegmentInv, SegmentsExact, Cutting
<1> QED BY <1>1, <1>2, <1>3, <1>4, <1>5, <1>6, <1>7, NextCases DEF Receives

LEMMA SegmentInit ==
    Init => SegmentInv
  BY DEF Init, SegmentInv, SegmentsExact, Cutting

\* A segment starts at a key frame and holds every frame up to the next one's first,
\* once and in order, for every stream, segment length and size of the audio cache:
\* cut and flushAudio neither lose a frame nor move one to another segment.
THEOREM SegmentsAreExact ==
    Spec => []SegmentsExact
<1>1. Init /\ WindowInv => FlowInv /\ SegmentInv
  BY FlowInit, SegmentInit
<1>2. /\ WindowInv /\ WindowInv' /\ FlowInv /\ SegmentInv /\ [Next]_vars
      => FlowInv' /\ SegmentInv'
  BY FlowStep, SegmentStep DEF WindowInv
<1>3. SegmentInv => SegmentsExact
  BY DEF SegmentInv
<1> QED BY <1>1, <1>2, <1>3, WindowCorrect, PTL DEF Spec
-----------------------------------------------------------------------------
(* Audio times. *)

\* A number of ticks and its whole milliseconds.
LEMMA Divided ==
    ASSUME NEW a \in Int, NEW h \in Nat \ {0}
    PROVE  a \div h \in Int /\ h * (a \div h) <= a /\ a < h * (a \div h) + h
  OBVIOUS

LEMMA Cancel ==
    ASSUME NEW x \in Int, NEW y \in Int, NEW h \in Nat \ {0}, h * x < h * y + h
    PROVE  x <= y
<1>1. CASE x <= y
  BY <1>1
<1>2. CASE y + 1 <= x
  <2>1. PICK k \in Nat : x = y + 1 + k
    <3>1. x - y - 1 \in Nat /\ x = y + 1 + (x - y - 1)
      BY <1>2
    <3> QED BY <3>1
  <2>2. h * x = h * y + h + h * k
    BY <2>1
  <2>3. h * k >= 0
    OBVIOUS
  <2>4. h * x \in Int /\ h * y \in Int /\ h * k \in Int
    OBVIOUS
  <2> QED BY <2>2, <2>3, <2>4
<1> QED BY <1>1, <1>2

\* Whole milliseconds keep the order of ticks.
LEMMA MsInOrder ==
    ASSUME NEW a \in Int, NEW b \in Int, a <= b
    PROVE  a \div Hz <= b \div Hz
<1> DEFINE x == a \div Hz
           y == b \div Hz
<1>1. Hz \in Nat \ {0}
  BY AlignAssumption
<1>2. /\ x \in Int /\ Hz * x <= a /\ a < Hz * x + Hz
      /\ y \in Int /\ Hz * y <= b /\ b < Hz * y + Hz
  BY <1>1, Divided
<1> HIDE DEF x, y
<1>3. Hz * x \in Int /\ Hz * y \in Int
  BY <1>1, <1>2
<1>4. Hz * x < Hz * y + Hz
  BY <1>1, <1>2, <1>3
<1>5. x <= y
  BY <1>1, <1>2, <1>4, Cancel
<1> QED BY <1>5 DEF x, y

\* A time in ticks that is near a tag's is near it in milliseconds.
LEMMA MsNear ==
    ASSUME NEW v \in Int, NEW t \in Nat, Near(v, t * Hz)
    PROVE  (v \div Hz) - t \in -SyncMs .. SyncMs
<1> DEFINE x == v \div Hz
<1>1. Hz \in Nat \ {0} /\ SyncMs \in Nat
  BY AlignAssumption
<1>2. x \in Int /\ Hz * x <= v /\ v < Hz * x + Hz
  BY <1>1, Divided
<1> HIDE DEF x
<1>3. v - t * Hz <= SyncMs * Hz /\ t * Hz - v <= SyncMs * Hz
  BY DEF Near, Sync
<1>4. /\ Hz * x \in Int /\ t * Hz \in Int /\ SyncMs * Hz \in Int
      /\ Hz * (t + SyncMs) = t * Hz + SyncMs * Hz
      /\ Hz * (t - SyncMs) = t * Hz - SyncMs * Hz
  BY <1>1, <1>2
<1>5. x <= t + SyncMs
  <2>1. Hz * x < Hz * (t + SyncMs) + Hz
    BY <1>1, <1>2, <1>3, <1>4
  <2> QED BY <1>1, <1>2, <2>1, Cancel
<1>6. t - SyncMs <= x
  <2>1. Hz * (t - SyncMs) < Hz * x + Hz
    BY <1>1, <1>2, <1>3, <1>4
  <2> QED BY <1>1, <1>2, <2>1, Cancel
<1>7. x - t \in -SyncMs .. SyncMs
  BY <1>1, <1>2, <1>5, <1>6
<1> QED BY <1>7 DEF x

\* The times of a tag, in milliseconds and in ticks.
LEMMA DtsType ==
    ASSUME TypeOK
    PROVE  /\ \A n \in DOMAIN tags : tags[n].ts \in Nat /\ Dts(n) \in Nat
           /\ \A m, n \in DOMAIN tags : tags[m].ts <= tags[n].ts => Dts(m) <= Dts(n)
           /\ \A m, n \in DOMAIN tags :
                 tags[m].ts + SyncMs <= tags[n].ts => Dts(m) + Sync <= Dts(n)
<1>1. Hz \in Nat \ {0} /\ SyncMs \in Nat
  BY AlignAssumption
<1>2. \A n \in DOMAIN tags : tags[n].ts \in Nat
  BY TagsType DEF TypeOK
<1>3. \A s, t \in Nat : s <= t => s * Hz <= t * Hz
  <2> TAKE s, t \in Nat
  <2> HAVE s <= t
  <2>1. t - s \in Nat
    OBVIOUS
  <2>2. (t - s) * Hz >= 0 /\ (t - s) * Hz = t * Hz - s * Hz
    BY <1>1, <2>1
  <2>3. t * Hz \in Int /\ s * Hz \in Int
    BY <1>1
  <2> QED BY <2>2, <2>3
<1>4. \A s \in Nat : (s + SyncMs) * Hz = s * Hz + Sync /\ s + SyncMs \in Nat /\ s * Hz \in Nat
  BY <1>1 DEF Sync
<1> QED BY <1>2, <1>3, <1>4 DEF Dts

\* What is due is a sequence of frames with their times.
LEMMA DueType ==
    ASSUME TypeOK
    PROVE  /\ stamps \in Seq([frame : DOMAIN tags, ts : Int])
           /\ Due \in Seq([frame : DOMAIN tags, ts : Int])
           /\ \A i \in DOMAIN Due : Due[i].frame \in DOMAIN tags /\ Due[i].ts \in Int
<1> DEFINE R == [frame : DOMAIN tags, ts : Int]
<1>1. stamps \in Seq(R) /\ cache \in Seq(DOMAIN tags) /\ audioPts \in Int
  BY DEF TypeOK, AudioTypes
<1>2. Due \in Seq(R)
  BY <1>1, StampedType DEF Due
<1>3. \A r \in R : r.frame \in DOMAIN tags /\ r.ts \in Int
  OBVIOUS
<1>4. \A i \in DOMAIN Due : Due[i] \in R
  <2> HIDE DEF R
  <2> QED BY <1>2
<1> QED BY <1>1, <1>2, <1>3, <1>4

\* A step that leaves the times alone and after which no more is awaited.
LEMMA AudioKept ==
    ASSUME AudioInv, Due' = Due, UNCHANGED <<tags, align, audioPts>>,
           \A m \in DOMAIN tags : Awaited(m)' => Awaited(m)
    PROVE  AudioInv'
<1>1. \A m, n : NoStepBack(m, n)' <=> NoStepBack(m, n)
  BY DEF NoStepBack, Kind
<1>2. InTime(Due)'
  BY <1>1 DEF AudioInv, InTime
<1>3. \A n : Dts(n)' = Dts(n)
  BY DEF Dts
<1> QED BY <1>1, <1>2, <1>3 DEF AudioInv

\* An audio frame is the first in the cache and has its time, or changes nothing but
\* the count.
LEMMA DueMux ==
    ASSUME TypeOK, NEW n \in DOMAIN tags, MuxAudio(n), tags' = tags
    PROVE  /\ align' = Align(align, Dts(n), Inc)
           /\ cache = <<>> => /\ audioPts' = Aligned(align, Dts(n), Inc)
                              /\ Due' = Append(Due, [frame |-> n, ts |-> audioPts' \div Hz])
           /\ cache # <<>> => audioPts' = audioPts /\ Due' = Due /\ Due # <<>>
<1>1. align' = Align(align, Dts(n), Inc) /\ audioPts' = CachedPts(n)
  BY DEF MuxAudio
<1>2. cache \in Seq(DOMAIN tags) /\ Cached(n) # <<>> /\ stamps \in Seq([frame : DOMAIN tags, ts : Int])
  BY CachedType DEF TypeOK, AudioTypes
<1>3. Due' = Append(stamps, [frame |-> Head(Cached(n)), ts |-> audioPts' \div Hz])
  <2>1. CASE Len(Cached(n)) < CacheMaxFrames
    BY <1>2, <2>1 DEF MuxAudio, Due, Stamped
  <2>2. CASE ~(Len(Cached(n)) < CacheMaxFrames)
    BY <1>1, <2>2 DEF MuxAudio, Due, Stamped
  <2> QED BY <2>1, <2>2
<1>4. CASE cache = <<>>
  <2>1. Head(Cached(n)) = n
    BY <1>4 DEF Cached
  <2> QED BY <1>1, <1>3, <1>4, <2>1 DEF CachedPts, Due
<1>5. CASE cache # <<>>
  <2>1. Head(Cached(n)) = Head(cache)
    BY <1>2, <1>5 DEF Cached
  <2>2. Due = Append(stamps, [frame |-> Head(cache), ts |-> audioPts \div Hz])
    BY <1>5 DEF Due, Stamped
  <2>3. audioPts' = audioPts
    BY <1>1, <1>5 DEF CachedPts
  <2>4. Due # <<>>
    <3> DEFINE r == [frame |-> Head(cache), ts |-> audioPts \div Hz]
    <3>1. Due = Append(stamps, r)
      BY <2>2
    <3> HIDE DEF r
    <3> QED BY <1>2, <3>1
  <2> QED BY <1>1, <1>3, <1>5, <2>1, <2>2, <2>3, <2>4
<1> QED BY <1>4, <1>5
\* A later entry at the end that is in time.
LEMMA InTimeAppend ==
    ASSUME TypeOK, NEW s \in Seq([frame : DOMAIN tags, ts : Int]), InTime(s),
           NEW n \in DOMAIN tags, NEW t \in Int, t - tags[n].ts \in -SyncMs .. SyncMs,
           s # <<>> =>
              LET last == s[Len(s)]
              IN  /\ tags[last.frame].ts + SyncMs <= tags[n].ts
                  /\ NoStepBack(last.frame, n)
                  => last.ts <= t
    PROVE  InTime(Append(s, [frame |-> n, ts |-> t]))
<1> DEFINE r == [frame |-> n, ts |-> t]
           u == Append(s, r)
<1>1. r \in [frame : DOMAIN tags, ts : Int] /\ r.frame = n /\ r.ts = t
  OBVIOUS
<1> HIDE DEF r
<1>2. /\ Len(s) \in Nat /\ DOMAIN s = 1 .. Len(s) /\ DOMAIN u = 1 .. Len(s) + 1
      /\ u[Len(s) + 1] = r /\ \A i \in 1 .. Len(s) : u[i] = s[i]
  BY <1>1, AppendProperties
<1> HIDE DEF u
<1>3. ASSUME NEW i \in DOMAIN u
      PROVE  LET ts(k) == tags[u[k].frame].ts
             IN  /\ u[i].ts - ts(i) \in -SyncMs .. SyncMs
                 /\ /\ i > 1
                    /\ ts(i - 1) + SyncMs <= ts(i)
                    /\ NoStepBack(u[i - 1].frame, u[i].frame)
                    => u[i - 1].ts <= u[i].ts
  <2>1. i > 1 => i - 1 \in DOMAIN s /\ u[i - 1] = s[i - 1]
    BY <1>2
  <2>2. CASE i \in DOMAIN s
    <3>1. u[i] = s[i]
      BY <1>2, <2>2
    <3> QED BY <2>1, <2>2, <3>1 DEF InTime
  <2>3. CASE i = Len(s) + 1
    <3>1. u[i] = r /\ (i > 1 => s # <<>> /\ i - 1 = Len(s))
      BY <1>2, <2>3
    <3> QED BY <1>1, <2>1, <3>1
  <2> QED BY <1>2, <2>2, <2>3
<1>4. InTime(u)
  BY <1>3 DEF InTime
<1> QED BY <1>4 DEF u, r

\* The first frame in the cache gets a time that is not before that of the last one.
LEMMA AudioFirst ==
    ASSUME TypeOK, FlowInv, AudioInv, NEW n, Receive(n), UNCHANGED writerVars, MuxAudio(n),
           cache = <<>>
    PROVE  AudioInv'
<1> DEFINE v == Aligned(align, Dts(n), Inc)
           r == [frame |-> n, ts |-> v \div Hz]
<1>1. n \in DOMAIN tags /\ Awaited(n) /\ tags' = tags
  BY FlowReceive DEF writerVars
<1>2. /\ align' = Align(align, Dts(n), Inc) /\ audioPts' = v /\ Due' = Append(Due, r)
  BY <1>1, DueMux
<1>3. Dts(n) \in Nat /\ tags[n].ts \in Nat /\ align \in Count /\ Inc \in Nat
  BY <1>1, DtsType, HlsAssumption DEF TypeOK, AudioTypes
<1>4. v \in Int /\ v <= Dts(n) + Sync /\ Dts(n) <= v + Sync /\ Sync \in Nat
  BY <1>3, AlignedIsNear, SyncType
<1>5. Estimate(align', Inc) = v + Inc
  BY <1>2, <1>3, CountGoesOn
<1>6. v = Estimate(align, Inc) \/ v = Dts(n)
  BY DEF Aligned
<1> HIDE DEF v
<1>7. Near(v, Dts(n))
  BY <1>3, <1>4 DEF Near
<1>8. (v \div Hz) - tags[n].ts \in -SyncMs .. SyncMs /\ v \div Hz \in Int
  <2>1. Near(v, tags[n].ts * Hz)
    BY <1>7 DEF Dts
  <2>2. (v \div Hz) - tags[n].ts \in -SyncMs .. SyncMs
    BY <1>3, <1>4, <2>1, MsNear
  <2>3. v \div Hz \in Int
    BY <1>4, AlignAssumption
  <2> QED BY <2>2, <2>3
<1>9. ASSUME Due # <<>>
      PROVE  LET last == Due[Len(Due)]
             IN  /\ tags[last.frame].ts + SyncMs <= tags[n].ts
                 /\ NoStepBack(last.frame, n)
                 => last.ts <= v \div Hz
  <2> DEFINE last == Due[Len(Due)]
  <2>1. last.frame \in DOMAIN tags
    BY <1>9, DueType, EmptySeq
  <2>2. /\ last.ts = audioPts \div Hz /\ Near(audioPts, Dts(last.frame))
        /\ NoStepBack(last.frame, n) => audioPts <= Estimate(align, Inc)
    BY <1>1, <1>9 DEF AudioInv
  <2> HIDE DEF last
  <2> SUFFICES ASSUME tags[last.frame].ts + SyncMs <= tags[n].ts, NoStepBack(last.frame, n)
               PROVE  last.ts <= v \div Hz
    BY DEF last
  <2>3. Dts(last.frame) + Sync <= Dts(n) /\ Dts(last.frame) \in Nat
    BY <1>1, <2>1, DtsType
  <2>4. audioPts \in Int /\ audioPts <= Dts(last.frame) + Sync
    BY <1>4, <2>2, <2>3 DEF Near, TypeOK, AudioTypes
  <2>5. audioPts <= v
    BY <1>3, <1>4, <1>6, <2>2, <2>3, <2>4
  <2> QED BY <1>4, <2>2, <2>4, <2>5, MsInOrder
<1>10. InTime(Due')
  BY <1>1, <1>2, <1>8, <1>9, InTimeAppend, DueType DEF AudioInv
<1>11. InTime(Due)'
  BY <1>1, <1>10 DEF InTime, NoStepBack, Kind
<1>12. Due'[Len(Due')] = r /\ r.frame = n /\ r.ts = v \div Hz
  <2>1. r \in [frame : DOMAIN tags, ts : Int] /\ r.frame = n /\ r.ts = v \div Hz
    BY <1>1, <1>8
  <2> HIDE DEF r
  <2> QED BY <1>2, <2>1, DueType, AppendProperties
<1> HIDE DEF r
<1>13. v <= v + Inc
  BY <1>3, <1>4
<1>14. \A m \in DOMAIN tags : Awaited(m)' => n < m
  BY FlowReceive
<1>15. \A m : Dts(m)' = Dts(m)
  BY <1>1 DEF Dts
<1> QED BY <1>1, <1>2, <1>5, <1>7, <1>11, <1>12, <1>13, <1>14, <1>15 DEF AudioInv

\* Another frame in the cache: the count stays ahead of the first one's time.
LEMMA AudioMore ==
    ASSUME TypeOK, FlowInv, AudioInv, NEW n, Receive(n), UNCHANGED writerVars, MuxAudio(n),
           Kind(n) = "audio", cache # <<>>
    PROVE  AudioInv'
<1> DEFINE v == Aligned(align, Dts(n), Inc)
           a == Due[Len(Due)].frame
<1>1. n \in DOMAIN tags /\ Awaited(n) /\ tags' = tags /\ DOMAIN tags \subseteq Nat
  BY FlowReceive, AwaitedType DEF writerVars
<1>2. /\ align' = Align(align, Dts(n), Inc) /\ audioPts' = audioPts /\ Due' = Due
      /\ Due # <<>>
  BY <1>1, DueMux
<1>3. Dts(n) \in Nat /\ align \in Count /\ Inc \in Nat
  BY <1>1, DtsType, HlsAssumption DEF TypeOK, AudioTypes
<1>4. Estimate(align', Inc) = v + Inc /\ v \in Int /\ Sync \in Nat /\ Sync <= Inc
  BY <1>2, <1>3, CountGoesOn, AlignedIsNear, SyncType, IncAssumption
<1>5. v = Estimate(align, Inc) \/ v = Dts(n)
  BY DEF Aligned
<1>6. a \in DOMAIN tags
  BY <1>2, DueType, EmptySeq
<1>7. /\ Due[Len(Due)].ts = audioPts \div Hz /\ Near(audioPts, Dts(a))
      /\ \A m \in DOMAIN tags : Awaited(m) =>
           a < m /\ (NoStepBack(a, m) => audioPts <= Estimate(align, Inc))
  BY <1>2 DEF AudioInv
<1> HIDE DEF v, a
<1>8. ASSUME NEW m \in DOMAIN tags, Awaited(m)', NoStepBack(a, m)
      PROVE  audioPts <= Estimate(align', Inc)
  <2>1. Awaited(m) /\ n < m /\ a < n
    BY <1>1, <1>7, <1>8, FlowReceive
  <2>2. n \in a .. m /\ \A k \in a .. n : k \in a .. m
    BY <1>1, <1>6, <2>1
  <2>3. NoStepBack(a, n) /\ tags[a].ts <= tags[n].ts
    BY <1>8, <2>2 DEF NoStepBack
  <2>4. audioPts <= Estimate(align, Inc)
    BY <1>1, <1>7, <2>3
  <2>5. Dts(a) <= Dts(n) /\ Dts(a) \in Nat
    BY <1>1, <1>6, <2>3, DtsType
  <2>6. audioPts \in Int /\ audioPts <= Dts(a) + Sync
    BY <1>4, <1>7, <2>5 DEF Near, TypeOK, AudioTypes
  <2> QED BY <1>3, <1>4, <1>5, <2>4, <2>5, <2>6
<1>9. \A m \in DOMAIN tags : Awaited(m)' => a < m
  BY <1>7, FlowReceive
<1>10. \A j, k : NoStepBack(j, k)' <=> NoStepBack(j, k)
  BY <1>1 DEF NoStepBack, Kind
<1>11. InTime(Due)'
  BY <1>1, <1>2, <1>10 DEF AudioInv, InTime
<1>12. \A k : Dts(k)' = Dts(k)
  BY <1>1 DEF Dts
<1> QED BY <1>1, <1>2, <1>7, <1>8, <1>9, <1>10, <1>11, <1>12 DEF AudioInv, a

LEMMA AudioStep ==
    ASSUME TypeOK, FlowInv, AudioInv, [Next]_vars
    PROVE  AudioInv'
<1>1. CASE Write \/ Writing \/ GetWriter
  <2>1. UNCHANGED <<tags, muxVars>> /\ \A m \in DOMAIN tags : Awaited(m)' => Awaited(m)
    BY <1>1, FlowWrite
  <2>2. Due' = Due /\ UNCHANGED <<align, audioPts>>
    BY <2>1 DEF Due, Stamped, muxVars, audioVars
  <2> QED BY <2>1, <2>2, AudioKept
<1>2. ASSUME NEW n, Receives(n)
      PROVE  AudioInv'
  <2>1. Receive(n) /\ UNCHANGED writerVars /\ tags' = tags
    BY <1>2, ReceivesEffect DEF writerVars
  <2>2. \A m \in DOMAIN tags : Awaited(m)' => Awaited(m)
    BY <2>1, FlowReceive
  <2>3. CASE UNCHANGED audioVars
    <3>1. Due' = Due /\ UNCHANGED <<align, audioPts>>
      BY <2>3 DEF Due, Stamped, audioVars
    <3> QED BY <2>1, <2>2, <3>1, AudioKept
  <2>4. CASE Cut(n)
    <3>1. Due' = Due /\ UNCHANGED <<align, audioPts>>
      BY <2>4 DEF Cut, Flushed, Due
    <3> QED BY <2>1, <2>2, <3>1, AudioKept
  <2>5. CASE Kind(n) = "audio" /\ MuxAudio(n)
    BY <2>1, <2>5, AudioFirst, AudioMore
  <2> QED BY <1>2, <2>3, <2>4, <2>5
          DEF Receives, Skip, DemuxFails, SenderPanics, DropFrame, Mux, muxVars
<1>3. CASE SetsItem
  <2>1. UNCHANGED <<tags, next, packetQueue, audioVars>>
    BY <1>3 DEF SetsItem, SetItemRemove, SetItemDelete, SetItemStore, SetItemPush,
                writerVars, muxVars
  <2>2. Due' = Due /\ UNCHANGED <<align, audioPts>> /\ \A m : Awaited(m)' <=> Awaited(m)
    BY <2>1 DEF Due, Stamped, audioVars, Awaited
  <2> QED BY <2>1, <2>2, AudioKept
<1>4. CASE Looks \/ UNCHANGED vars
  <2>1. UNCHANGED <<tags, next, packetQueue, audioVars>>
    BY <1>4, LooksEffect DEF writerVars, muxVars
  <2>2. Due' = Due /\ UNCHANGED <<align, audioPts>> /\ \A m : Awaited(m)' <=> Awaited(m)
    BY <2>1 DEF Due, Stamped, audioVars, Awaited
  <2> QED BY <2>1, <2>2, AudioKept
<1>5. CASE GetWriterNew
  <2>1. Due' = <<>>
    BY <1>5 DEF GetWriterNew, NewSource, Due
  <2> QED BY <2>1 DEF AudioInv, InTime
<1> QED BY <1>1, <1>2, <1>3, <1>4, <1>5, NextCases

\* The audio muxed so far is the first part of what is due.
LEMMA StampsInTime ==
    ASSUME TypeOK, InTime(Due)
    PROVE  AudioInTime
<1>1. CASE cache = <<>>
  BY <1>1 DEF Due, AudioInTime
<1>2. CASE cache # <<>>
  <2> DEFINE R == [frame : DOMAIN tags, ts : Int]
             r == [frame |-> Head(cache), ts |-> audioPts \div Hz]
  <2>1. stamps \in Seq(R) /\ Due = Append(stamps, r) /\ r \in R
    BY <1>2, DueType, StampedType DEF Due, Stamped, TypeOK, AudioTypes
  <2> HIDE DEF R, r
  <2>2. /\ DOMAIN Due = 1 .. Len(stamps) + 1 /\ Len(stamps) \in Nat
        /\ \A i \in 1 .. Len(stamps) : Due[i] = stamps[i]
        /\ DOMAIN stamps = 1 .. Len(stamps)
    BY <2>1, AppendProperties
  <2>3. \A i \in DOMAIN stamps : /\ i \in DOMAIN Due /\ Due[i] = stamps[i]
                                 /\ i > 1 => Due[i - 1] = stamps[i - 1]
    BY <2>2
  <2> QED BY <2>3 DEF InTime, AudioInTime
<1> QED BY <1>1, <1>2

\* calcPtsDts and audioCache, for every stream, frame length and size of the cache:
\* audio is muxed with a time close to its tag's, which does not run backwards
\* unless the tags' times do not advance or go back.
THEOREM AudioKeepsTime ==
    Spec => []AudioInTime
<1>1. Init => FlowInv /\ AudioInv
  <2> SUFFICES ASSUME Init PROVE FlowInv /\ AudioInv
    OBVIOUS
  <2>1. Due = <<>>
    BY DEF Init, Due
  <2> QED BY <2>1, FlowInit DEF AudioInv, InTime
<1>2. TypeOK /\ FlowInv /\ AudioInv /\ [Next]_vars => FlowInv' /\ AudioInv'
  BY FlowStep, AudioStep
<1>3. TypeOK /\ AudioInv => AudioInTime
  BY StampsInTime DEF AudioInv
<1> QED BY <1>1, <1>2, <1>3, TypeCorrect, PTL DEF Spec

=============================================================================
