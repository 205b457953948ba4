------------------------------ MODULE HlsSource -----------------------------
(***************************************************************************)
(* The HLS output of one stream: the stream's goroutine puts tags into a   *)
(* channel (Write), the source's goroutine cuts them into segments at key  *)
(* frames and keeps the last few (SendPacket, cut, TSCacheItem), and the   *)
(* HTTP handlers list them (GenM3U8PlayList) without a lock.  checkStop    *)
(* forgets a source that was not written to for some time.                 *)
(*                                                                         *)
(* A tag is its number in the stream.  The multiplexer, the demuxer and    *)
(* the codec parser are external: a muxed frame is its number, and what    *)
(* they make of a tag is the tag's kind.  Of the presentation times those  *)
(* of audio are kept, which align changes.                                 *)
(*                                                                         *)
(* A new publication of the stream, which asks for a source again, is the  *)
(* pseudo tag "publish".                                                   *)
(***************************************************************************)
EXTENDS HlsAlign, Sequences, SequencesExt, FiniteSets

CONSTANTS
    Tags,            \* streams to choose from: sequences of [kind, ts]
    QueueSize,       \* maxQueueNum
    Duration,        \* duration: least length of a segment
    CacheMaxFrames,  \* cache_max_frames: audio frames muxed together
    TsCacheNum,      \* maxTSCacheNum: segments in the window
    Inc,             \* the length of an audio frame in ticks
    Nil

Media == {"key", "inter", "audio"}

\* Metadata, an AVC end of sequence, an unsupported codec or a tag the codec
\* parser rejects, and a sequence header.
Skipped == {"meta", "end", "odd", "head"}

\* A tag the demuxer rejects, and one that makes it or the multiplexer panic.
Ending == {"broken", "wild"}

ASSUME HlsAssumption ==
    /\ \A t \in Tags : t \in Seq([kind : Media \cup Skipped \cup Ending
                                          \cup {"publish"}, ts : Nat])
    /\ Inc \in Nat \ {0}
    /\ QueueSize \in Nat \ {0}
    /\ Duration \in Nat
    /\ CacheMaxFrames \in Nat \ {0}
    /\ TsCacheNum \in Nat \ {0}

\* An audio frame is longer than the tolerance of align: 1024 samples are at least
\* 960 ticks at the rates of AAC, and the tolerance is 180.
ASSUME IncAssumption == Sync <= Inc

\* The pointer btswriter is nil or leads to a buffer.
ASSUME NilAssumption == Nil \notin Seq(Nat)

VARIABLES
    tags,         \* the stream
    next,         \* the tag extractFlv hands to Write next
    writer,       \* where Write is
    packetQueue,  \* Source.packetQueue
    closed,       \* Source.closed
    sender,       \* where SendPacket is
    cur,          \* the key frame it cuts at
    btswriter,    \* the frames of the segment at hand, or Nil
    cache,        \* the audio frames not muxed yet
    align,        \* Source.align
    audioPts,     \* audioCache.pts: the time of the first frame in cache
    stamps,       \* the audio muxed so far: first frame and time
    stat,         \* status: hasSetFirstTs, firstTimestamp, lastTimestamp
    made,         \* every segment cut; its number is its place
    ll,           \* TSCacheItem.ll: the numbers of the elements' segments
    lm,           \* TSCacheItem.lm: name to segment
    evicted,      \* the element SetItem removed from ll
    viewer,       \* where GenM3U8PlayList is
    at,           \* its list element, or 0
    body,         \* the segments it has listed
    inConns,      \* the server's conns holds the source
    fresh,        \* Alive: the last Write is not long ago
    stopping,     \* checkStop found it not fresh and is about to delete it
    wasQuiet,     \* it was not fresh, or stopping, at some time since it was
                  \* asked for
    crashed       \* a panic has ended the process

writerVars == <<tags, next, writer>>
audioVars == <<cache, align, audioPts, stamps>>
muxVars == <<btswriter, audioVars, stat, made>>
connVars == <<inConns, fresh, stopping, wasQuiet>>
windowVars == <<ll, lm, evicted>>
viewVars == <<viewer, at, body>>
vars == <<writerVars, packetQueue, closed, sender, cur, muxVars, windowVars,
          viewVars, connVars, crashed>>

Kind(n) == tags[n].kind

-----------------------------------------------------------------------------
(* Source.Write, called by extractFlv for each tag. *)

\* The first test of closed.  extractFlv panics on the error.
Write ==
    /\ writer = "idle"
    /\ next <= Len(tags)
    /\ Kind(next) # "publish"
    /\ crashed' = closed
    /\ fresh' = (fresh \/ ~closed)
    /\ writer' = "check"
    /\ UNCHANGED <<tags, next, packetQueue, closed, sender, cur, muxVars,
                   windowVars, viewVars, inConns, stopping, wasQuiet>>

\* The second test; a source closed in between drops the tag.
WriteCheck ==
    /\ writer = "check"
    /\ writer' = IF closed THEN "idle" ELSE "send"
    /\ next' = IF closed THEN next + 1 ELSE next
    /\ UNCHANGED <<tags, packetQueue, closed, sender, cur, muxVars, windowVars,
                   viewVars, connVars, crashed>>

\* The send blocks while the channel is full.
WriteSend ==
    /\ writer = "send"
    /\ Len(packetQueue) < QueueSize
    /\ packetQueue' = Append(packetQueue, next)
    /\ next' = next + 1
    /\ writer' = "idle"
    /\ UNCHANGED <<tags, closed, sender, cur, muxVars, windowVars, viewVars,
                   connVars, crashed>>

-----------------------------------------------------------------------------
(* SendPacket. *)

Receive(n) ==
    /\ sender = "recv"
    /\ packetQueue # <<>>
    /\ n = Head(packetQueue)
    /\ packetQueue' = Tail(packetQueue)

\* Mutant of Skip: an end of sequence ends the goroutine.
SkipStops(n) ==
    /\ Receive(n)
    /\ Kind(n) \in Skipped
    /\ sender' = IF Kind(n) = "end" THEN "ended" ELSE "recv"
    /\ UNCHANGED <<writerVars, closed, cur, muxVars, windowVars, viewVars,
                   connVars, crashed>>

\* A tag that is no frame.
Skip(n) ==
    /\ Receive(n)
    /\ Kind(n) \in Skipped
    /\ UNCHANGED <<writerVars, closed, sender, cur, muxVars, windowVars,
                   viewVars, connVars, crashed>>

\* The demuxer rejects the tag: the goroutine ends and marks the source closed.
DemuxFails(n) ==
    /\ Receive(n)
    /\ Kind(n) = "broken"
    /\ closed' = TRUE
    /\ sender' = "ended"
    /\ UNCHANGED <<writerVars, cur, muxVars, windowVars, viewVars, connVars,
                   crashed>>

\* A panic is recovered: the goroutine ends, but its return value is nil, and
\* the source does not count as closed.
SenderPanics(n) ==
    /\ Receive(n)
    /\ Kind(n) = "wild"
    /\ sender' = "panicked"
    /\ UNCHANGED <<writerVars, closed, cur, muxVars, windowVars, viewVars,
                   connVars, crashed>>

\* Before the first key frame there is no segment to put a frame into.
DropFrame(n) ==
    /\ Receive(n)
    /\ Kind(n) \in {"inter", "audio"}
    /\ btswriter = Nil
    /\ UNCHANGED <<writerVars, closed, sender, cur, muxVars, windowVars,
                   viewVars, connVars, crashed>>

NewStatus == [set |-> FALSE, first |-> 0, last |-> 0]

\* status.update
Update(st, n) ==
    [set |-> TRUE, first |-> IF st.set THEN st.first ELSE tags[n].ts,
     last |-> tags[n].ts]

ResetAndNew(st) == [st EXCEPT !.set = FALSE]

DurationMs == stat.last - stat.first

\* cut is called for a key frame and ends the segment if it is long enough.
Cuts(n) ==
    /\ Kind(n) = "key"
    /\ btswriter # Nil
    /\ DurationMs >= Duration

\* The time in ticks; calcPtsDts takes it through align for audio.
Dts(n) == tags[n].ts * Hz

\* calcPtsDts and audioCache.Cache: the cache has the time of its first frame.
Cached(n) == Append(cache, n)

CachedPts(n) == IF cache = <<>> THEN Aligned(align, Dts(n), Inc) ELSE audioPts

\* The cached frames are muxed as one, with the first one's time in ms.
Stamped(frames, pts) ==
    Append(stamps, [frame |-> Head(frames), ts |-> pts \div Hz])

\* Mutant of MuxAudio: it waits for one frame more.
MuxAudioLate(n) ==
    /\ align' = Align(align, Dts(n), Inc)
    /\ audioPts' = CachedPts(n)
    /\ IF Len(cache) < CacheMaxFrames
       THEN cache' = Cached(n) /\ UNCHANGED <<btswriter, stamps>>
       ELSE /\ cache' = <<>>
            /\ btswriter' = btswriter \o Cached(n)
            /\ stamps' = Stamped(Cached(n), CachedPts(n))

\* An audio frame: calcPtsDts, Cache and muxAudio(cache_max_frames).
MuxAudio(n) ==
    /\ align' = Align(align, Dts(n), Inc)
    /\ audioPts' = CachedPts(n)
    /\ IF Len(Cached(n)) < CacheMaxFrames
       THEN cache' = Cached(n) /\ UNCHANGED <<btswriter, stamps>>
       ELSE /\ cache' = <<>>
            /\ btswriter' = btswriter \o Cached(n)
            /\ stamps' = Stamped(Cached(n), CachedPts(n))

\* The first key frame, or a frame that does not end the segment.
Mux(n) ==
    /\ Receive(n)
    /\ Kind(n) \in Media
    /\ btswriter # Nil \/ Kind(n) = "key"
    /\ ~Cuts(n)
    /\ stat' = Update(stat, n)
    /\ IF Kind(n) = "audio"
       THEN MuxAudio(n)
       ELSE /\ btswriter' = IF btswriter = Nil THEN <<n>> ELSE Append(btswriter, n)
            /\ UNCHANGED audioVars
    /\ UNCHANGED <<writerVars, closed, sender, cur, made, windowVars, viewVars,
                   connVars, crashed>>

\* A segment is a copy of what was muxed.
NewTSItem(name, data) == [name |-> name, duration |-> DurationMs, data |-> data]

\* The name of the newest segment.
LastName == IF made = <<>> THEN 0 ELSE made[Len(made)].name

\* Mutant of Flushed: the cached audio waits for the next segment.
FlushedNot == [data |-> btswriter, rest |-> cache, stamps |-> stamps]

\* flushAudio: the cached audio ends the segment.
Flushed ==
    [data |-> btswriter \o cache, rest |-> <<>>,
     stamps |-> IF cache = <<>> THEN stamps ELSE Stamped(cache, audioPts)]

\* cut up to SetItem.  The name is the time in seconds, which may be that of the
\* segment before.
Cut(n) ==
    /\ Receive(n)
    /\ Cuts(n)
    /\ cur' = n
    /\ btswriter' = Flushed.data
    /\ cache' = Flushed.rest
    /\ stamps' = Flushed.stamps
    /\ \E name \in {LastName, LastName + 1} \ {0} :
          made' = Append(made, NewTSItem(name, Flushed.data))
    /\ sender' = IF Len(ll) = TsCacheNum THEN "evict" ELSE "store"
    /\ UNCHANGED <<writerVars, closed, align, audioPts, stat, windowVars, viewVars, connVars,
                   crashed>>

\* Mutant of Oldest: the wrong end of the list.
OldestIsBack == Len(ll)

\* The place of the element SetItem removes.
Oldest == 1

\* SetItem removes the oldest element from the list ...
SetItemRemove ==
    /\ sender = "evict"
    /\ evicted' = ll[Oldest]
    /\ ll' = RemoveAt(ll, Oldest)
    /\ sender' = "delete"
    /\ UNCHANGED <<writerVars, packetQueue, closed, cur, muxVars, lm, viewVars,
                   connVars, crashed>>

\* Mutant of SetItemDelete: the item stays in the map.
SetItemKeep ==
    /\ sender = "delete"
    /\ evicted' = 0
    /\ sender' = "store"
    /\ UNCHANGED <<writerVars, packetQueue, closed, cur, muxVars, ll, lm,
                   viewVars, connVars, crashed>>

\* ... and its name from the map,
SetItemDelete ==
    /\ sender = "delete"
    /\ lm' = [k \in DOMAIN lm \ {made[evicted].name} |-> lm[k]]
    /\ evicted' = 0
    /\ sender' = "store"
    /\ UNCHANGED <<writerVars, packetQueue, closed, cur, muxVars, ll, viewVars,
                   connVars, crashed>>

\* stores the new item ...
SetItemStore ==
    /\ sender = "store"
    /\ lm' = [k \in DOMAIN lm \cup {LastName} |->
                IF k = LastName THEN Len(made) ELSE lm[k]]
    /\ sender' = "push"
    /\ UNCHANGED <<writerVars, packetQueue, closed, cur, muxVars, ll, evicted,
                   viewVars, connVars, crashed>>

\* ... and appends it.  The rest of cut starts the next segment, into which the
\* key frame is then muxed.
SetItemPush ==
    /\ sender = "push"
    /\ ll' = Append(ll, Len(made))
    /\ btswriter' = <<cur>>
    /\ stat' = Update(ResetAndNew(stat), cur)
    /\ cur' = 0
    /\ sender' = "recv"
    /\ UNCHANGED <<writerVars, packetQueue, closed, audioVars, made, lm, evicted,
                   viewVars, connVars, crashed>>

-----------------------------------------------------------------------------
(* The HTTP handler: a playlist.  A source that is not in conns is an error. *)

Playlist ==
    /\ viewer = "idle"
    /\ inConns
    /\ at' = IF ll = <<>> THEN 0 ELSE ll[1]
    /\ body' = <<>>
    /\ viewer' = "look"
    /\ UNCHANGED <<writerVars, packetQueue, closed, sender, cur, muxVars,
                   windowVars, connVars, crashed>>

\* The element's item is listed if the map has it.
PlaylistLook ==
    /\ viewer = "look"
    /\ at # 0
    /\ body' = IF made[at].name \in DOMAIN lm
               THEN Append(body, lm[made[at].name]) ELSE body
    /\ viewer' = "next"
    /\ UNCHANGED <<writerVars, packetQueue, closed, sender, cur, muxVars,
                   windowVars, at, connVars, crashed>>

\* e.Next(): nil at the end, and for an element that was removed.
NextElement(e) ==
    LET after == {k \in 2 .. Len(ll) : ll[k - 1] = e}
    IN  IF after = {} THEN 0 ELSE ll[CHOOSE k \in after : TRUE]

PlaylistNext ==
    /\ viewer = "next"
    /\ at' = NextElement(at)
    /\ viewer' = "look"
    /\ UNCHANGED <<writerVars, packetQueue, closed, sender, cur, muxVars,
                   windowVars, body, connVars, crashed>>

PlaylistDone ==
    /\ viewer = "look"
    /\ at = 0
    /\ viewer' = "idle"
    /\ UNCHANGED <<writerVars, packetQueue, closed, sender, cur, muxVars,
                   windowVars, at, body, connVars, crashed>>

-----------------------------------------------------------------------------
(* Time and checkStop. *)

\* Nothing is written for ten seconds.
GoQuiet ==
    /\ fresh
    /\ fresh' = FALSE
    /\ wasQuiet' = TRUE
    /\ UNCHANGED <<writerVars, packetQueue, closed, sender, cur, muxVars,
                   windowVars, viewVars, inConns, stopping, crashed>>

\* checkStop's range loop meets the source and tests Alive.
CheckStopTest ==
    /\ inConns
    /\ ~fresh
    /\ ~stopping
    /\ stopping' = TRUE
    /\ UNCHANGED <<writerVars, packetQueue, closed, sender, cur, muxVars,
                   windowVars, viewVars, inConns, fresh, wasQuiet, crashed>>

\* It deletes the entry, whatever happened since.
CheckStopDelete ==
    /\ stopping
    /\ stopping' = FALSE
    /\ inConns' = FALSE
    /\ UNCHANGED <<writerVars, packetQueue, closed, sender, cur, muxVars,
                   windowVars, viewVars, fresh, wasQuiet, crashed>>

-----------------------------------------------------------------------------
(* GetWriter, and the start. *)

\* NewSource; nobody looks at its segments yet.
NewSource ==
    /\ packetQueue' = <<>>
    /\ closed' = FALSE
    /\ sender' = "recv"
    /\ cur' = 0
    /\ btswriter' = Nil
    /\ cache' = <<>>
    /\ align' = NewAlign
    /\ audioPts' = 0
    /\ stamps' = <<>>
    /\ stat' = NewStatus
    /\ made' = <<>>
    /\ ll' = <<>>
    /\ lm' = <<>>
    /\ evicted' = 0
    /\ viewer' = "idle"
    /\ at' = 0
    /\ body' = <<>>
    /\ fresh' = TRUE

\* The stream is published again while conns has its source: the same source.
GetWriter ==
    /\ writer = "idle"
    /\ next <= Len(tags)
    /\ Kind(next) = "publish"
    /\ inConns
    /\ next' = next + 1
    /\ wasQuiet' = (~fresh \/ stopping)
    /\ UNCHANGED <<tags, writer, packetQueue, closed, sender, cur, muxVars,
                   windowVars, viewVars, inConns, fresh, stopping, crashed>>

\* Mutant of GetWriterNew: the new source is not stored.
GetWriterNewNotStored ==
    /\ writer = "idle"
    /\ next <= Len(tags)
    /\ Kind(next) = "publish"
    /\ ~inConns
    /\ NewSource
    /\ next' = next + 1
    /\ wasQuiet' = FALSE
    /\ UNCHANGED <<tags, writer, inConns, stopping, crashed>>

\* The same when checkStop has removed it: a new source.  The old one's
\* goroutine waits for packets for ever.
GetWriterNew ==
    /\ writer = "idle"
    /\ next <= Len(tags)
    /\ Kind(next) = "publish"
    /\ ~inConns
    /\ NewSource
    /\ next' = next + 1
    /\ inConns' = TRUE
    /\ wasQuiet' = FALSE
    /\ UNCHANGED <<tags, writer, stopping, crashed>>

Init ==
    /\ tags \in Tags
    /\ next = 1
    /\ writer = "idle"
    /\ packetQueue = <<>>
    /\ closed = FALSE
    /\ sender = "recv"
    /\ cur = 0
    /\ btswriter = Nil
    /\ cache = <<>>
    /\ align = NewAlign
    /\ audioPts = 0
    /\ stamps = <<>>
    /\ stat = NewStatus
    /\ made = <<>>
    /\ ll = <<>>
    /\ lm = <<>>
    /\ evicted = 0
    /\ viewer = "idle"
    /\ at = 0
    /\ body = <<>>
    /\ fresh = TRUE
    /\ inConns = TRUE
    /\ stopping = FALSE
    /\ wasQuiet = FALSE
    /\ crashed = FALSE

\* What the stream's goroutine does inside Write.
Writing == WriteCheck \/ WriteSend

SendPacket ==
    \/ \E n \in DOMAIN tags : \/ Skip(n)
                              \/ DemuxFails(n)
                              \/ SenderPanics(n)
                              \/ DropFrame(n)
                              \/ Mux(n)
                              \/ Cut(n)
    \/ SetItemRemove
    \/ SetItemDelete
    \/ SetItemStore
    \/ SetItemPush

GenM3U8PlayList ==
    \/ Playlist
    \/ PlaylistLook
    \/ PlaylistNext
    \/ PlaylistDone

Next ==
    /\ ~crashed
    /\ \/ Write
       \/ Writing
       \/ SendPacket
       \/ GenM3U8PlayList
       \/ GoQuiet
       \/ CheckStopTest
       \/ CheckStopDelete
       \/ GetWriter
       \/ GetWriterNew

Spec == Init /\ [][Next]_vars

\* The two goroutines keep running.  Nothing makes tags come or viewers ask.
FairSpec ==
    /\ Spec
    /\ WF_vars(~crashed /\ Writing)
    /\ WF_vars(~crashed /\ SendPacket)

-----------------------------------------------------------------------------
(* Properties. *)

\* Where SendPacket is inside cut.
Cutting == {"evict", "delete", "store", "push"}

TSItem == [name : Nat \ {0}, duration : Int, data : Seq(DOMAIN tags)]

WriterTypes ==
    /\ tags \in Tags
    /\ next \in 1 .. Len(tags) + 1
    /\ writer \in {"idle", "check", "send"}
    /\ writer # "idle" => next <= Len(tags)
    /\ packetQueue \in Seq(DOMAIN tags)
    /\ Len(packetQueue) <= QueueSize

MuxTypes ==
    /\ sender \in {"recv", "ended", "panicked"} \cup Cutting
    /\ cur \in 0 .. Len(tags)
    /\ sender \in Cutting => cur # 0 /\ made # <<>>
    /\ btswriter = Nil \/ btswriter \in Seq(DOMAIN tags)
    /\ stat \in [set : BOOLEAN, first : Nat, last : Nat]
    /\ made \in Seq(TSItem)

AudioTypes ==
    /\ cache \in Seq(DOMAIN tags)
    /\ Len(cache) < CacheMaxFrames
    /\ align \in Count
    /\ audioPts \in Int
    /\ stamps \in Seq([frame : DOMAIN tags, ts : Int])

WindowTypes ==
    /\ ll \in Seq(DOMAIN made)
    /\ lm \in [DOMAIN lm -> DOMAIN made]
    /\ evicted \in 0 .. Len(made)
    /\ viewer \in {"idle", "look", "next"}
    /\ at \in 0 .. Len(made)
    /\ body \in Seq(DOMAIN made)

FlagTypes ==
    /\ closed \in BOOLEAN /\ crashed \in BOOLEAN
    /\ inConns \in BOOLEAN /\ fresh \in BOOLEAN
    /\ stopping \in BOOLEAN /\ wasQuiet \in BOOLEAN

\* Every variable has the type of the Go variable it models.
TypeOK == WriterTypes /\ MuxTypes /\ AudioTypes /\ WindowTypes /\ FlagTypes

\* GetItem, for a request of a segment by its name.
GetItem(name) == IF name \in DOMAIN lm THEN lm[name] ELSE Nil

NamesUnique ==
    \A i, j \in DOMAIN made : made[i].name = made[j].name => i = j

\* Video frames, and audio frames, come in the order of the stream.
InStreamOrder(data) ==
    \A i, j \in DOMAIN data :
        i < j /\ (Kind(data[i]) = "audio" <=> Kind(data[j]) = "audio")
            => data[i] < data[j]

\* The frame that starts the segment after the k-th.
NextStart(k) ==
    IF k < Len(made) THEN made[k + 1].data[1]
    ELSE IF cur # 0 THEN cur ELSE btswriter[1]

\* A segment starts at a key frame and holds every frame up to the next one's
\* first, audio that was cached at the cut included, once and in order: nothing
\* is lost or moves to another segment.
SegmentsExact ==
    \A k \in DOMAIN made :
        LET data == made[k].data
        IN  /\ Kind(data[1]) = "key"
            /\ ToSet(data) = {n \in data[1] .. NextStart(k) - 1 :
                                Kind(n) \in Media}
            /\ InStreamOrder(data)

\* Between two cuts the map has no item the list does not know, the list holds
\* the newest segments, and the newest can be fetched.  All of them can unless
\* two were cut within one second and share a name.
WindowKept ==
    sender = "recv" =>
        /\ ll = [i \in 1 .. Len(ll) |-> Len(made) - Len(ll) + i]
        /\ Len(ll) <= TsCacheNum
        /\ Len(ll) < TsCacheNum => Len(ll) = Len(made)
        /\ DOMAIN lm \subseteq {made[k].name : k \in ToSet(ll)}
        /\ made # <<>> => GetItem(LastName) = Len(made)
        /\ NamesUnique => \A k \in ToSet(ll) : GetItem(made[k].name) = k

\* A playlist that is generated while the window moves may be short, but lists
\* segments in order; if no two share a name, it lists consecutive ones, as its
\* one sequence number demands.
PlaylistInOrder ==
    \A i \in 2 .. Len(body) :
        /\ body[i - 1] <= body[i]
        /\ NamesUnique => body[i] = body[i - 1] + 1

(* What these rest on. *)

Start == IF cur # 0 THEN cur ELSE btswriter[1]

\* The audio tags from the m-th to the n-th are not earlier than the m-th.
NoStepBack(m, n) ==
    \A k \in m .. n : Kind(k) = "audio" => tags[m].ts <= tags[k].ts

InTime(muxed) ==
    \A i \in DOMAIN muxed :
        LET ts(k) == tags[muxed[k].frame].ts
        IN  /\ muxed[i].ts - ts(i) \in -SyncMs .. SyncMs
            /\ /\ i > 1
               /\ ts(i - 1) + SyncMs <= ts(i)
               /\ NoStepBack(muxed[i - 1].frame, muxed[i].frame)
               => muxed[i - 1].ts <= muxed[i].ts

\* Audio that was cached and aligned is muxed with a time close to the tag's,
\* and never with an earlier time than the audio before it unless the tags'
\* times did not advance, or went back in between.
AudioInTime == InTime(stamps)

\* Viewers can reach the source the stream is written to, unless it was quiet for
\* ten seconds when, or after, the stream asked for it, or checkStop had found it
\* quiet and not deleted it yet: it is then removed under a stream that goes on,
\* until that is published again.
SourceReachable == inConns \/ wasQuiet

\* Write returns, also when the channel is full, so that HLS never holds up the
\* other outputs; unless the source's goroutine ended with an error or a panic.
WriteReturns ==
    writer # "idle" ~> \/ writer = "idle"
                       \/ closed
                       \/ sender = "panicked"
                       \/ crashed

=============================================================================
