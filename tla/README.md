# Verification of the RTP / HTTP-FLV edge node

The edge node receives RTP packets from a cloud server over UDP (unicast or
multicast), puts each stream's packets in order, fetches missing ones over
QUIC, reassembles FLV tags from them and serves the tags to HTTP-FLV clients,
to an HLS source and to a record file. This directory holds TLA+ modules that
model those parts, TLC configurations that check them on small instances, and
TLAPS proofs of the results that matter most for every instance.

## 1. The system

| part | source | state | operations | talks to |
|---|---|---|---|---|
| receiver and registry | `main.go`, `cache/App.go`, `utils/util.go` | `App.Publishers`, `KeySsrcMap`, `RtpQueueMap`, conf `INIT` | `receiveRtp`, `handleNewPacket`, `handleNewStream`, `CheckAlive` | cloud (HTTP poll), queues (`InChan`), handlers (maps, no lock) |
| reorder queue | `cache/RtpQueue.go` | `queue`, `FirstSeq`, `previousLostSeq`, `InChan` | `RecvPacket`, `Enqueue`, `Dequeue`, `runQuic`, `reshape` | QUIC client, `extractFlv`, the shared socket buffer size |
| tag reassembly | `RtpQueue.go` (`extractFlv`), `cache/FlvRecord.go` | `flvTag`, `pos`, `TagSize`, `jumpToNextHead` | one call per packet or nil | distribution |
| distribution | `RtpQueue.go` (`extractFlv`), `cache/cache.go`, `protocol/httpflv` | `FlvWriters`, `SegmentCache`, each `FLVWriter`'s channel, `Init`, `Closed` | loop over writers, `Write`, `SendPacket`, `handleConn` | clients, HLS, file |
| QUIC client | `protocol/quic` | `QuicConn` (global), lock | `GetByQuic`, `CloseQuic` | cloud |
| HLS | `protocol/hls` | segment cutter, window of segments | `Write`, `SendPacket`, `cut`, `GenM3U8PlayList` | HTTP |
| RTP parser, FLV container | `parser`, `container` | none | `Parse`, `DemuxHeader`, field access | receiver, segment cache |
| record file | `utils/flv.go`, `RtpQueue.go` (`Close`) | the open file | `CreateFile`, `WriteTagDirect`, `Close` | `CheckAlive` closes it |
| queue monitor | `RtpQueue.go` (`PrintInfo`, `getDelay`) | `startTime` | logging | reads the queue and `App.Publishers`, no lock |
| test client | `http-client.go` | none | `ReadTag`, `httpFlv` | the node's HTTP-FLV output |
| configuration | `configure` | flags and YAML | read once at the start | |

One goroutine receives all packets. Each stream has a `RecvPacket` goroutine
that does everything up to the clients' channels, and a `PrintInfo` goroutine
that logs. HLS adds a `SendPacket` goroutine per source and one `checkStop`. Each
client has an HTTP handler goroutine and a `SendPacket` goroutine. `CheckAlive` is one
more.

What is hard to get right: the 16-bit numbers wrap; packets are lost, late,
early and repeated; a retransmission answer comes after the queue has moved;
protect mode throws part of the queue away; a tag can lose any fragment; clients
come and go while the loop walks their list; a client's channel fills; the
registry's maps are shared by three kinds of goroutine; a poll's answer is old
when it is used, or gone when `getDelay` looks for the start time; the record file
is closed under the goroutine that writes it; audio times are counted up and must
not drift. `PROJECT.json` lists these hazards at their lines with the
properties that cover them.

## 2. Modules

`RtpSeq` – the wrapping sequence numbers: `U16`, `FirstBeforeSecond` and the slot
offset `Relative`. 2^16 and 60000 are the constants `SeqSpace` and `Horizon`.

`Playout` – the abstract specification of a reorder queue: from some packet on,
each number once and in order, as the packet or as `Nil`.

`RtpQueue` – `cache.Queue` with the `RecvPacket` goroutine. A packet is its true,
unwrapped number; the code's number is `SeqOf(p)`. `pc` is the goroutine's place:
`recv` (waiting on `InChan`), `drain` (first loop), `quic` (inside the request of
`runQuic`), `take` (rest of `Dequeue`), `play` (second loop). `out` is what
`extractFlv` was given. `Arrive` is the network with `handleNewPacket`: it skips up
to `MaxSkip` packets and delivers a packet up to `MaxDelay` behind the newest, any
number of times. `RequestReshaped` and `ReshapeBufferError` are the two ways through
protect mode. Only `Arrive` happens in another goroutine, so that one step per
loop round is fine enough; the request over QUIC is split because packets go on
arriving during it.

`FlvRecord` – `extractFlv` up to a finished tag. Sizes count payloads; the tag size
read from a middle fragment is any number up to `MaxDeclared`. The actions are the
branches of the code. Without the queue around it, the fragments come in order and
any of them may be lost.

`EdgeStream` – `RtpQueue` and `FlvRecord` composed as `RecvPacket` composes them: what is
dequeued goes to `extractFlv` in the same step, a reshape resets the record, and the
panic of a failing `SetReadBuffer` skips the reset. `silentGaps` counts the gaps that
the record was not told of. `PrintInfo` is here too, with its two reads of the queue
as two steps, because it takes no lock; `Visible` adds what it can see of an `Enqueue`
that is padding. The record sees the queue through `INSTANCE FlvRecord WITH`, whose
place in the stream is that of the packet at hand; this is also the refinement
mapping of `ImplementsRecord`. Which fragment of which tag a packet carries is a pair
of constants, `TagAt` and `FragAt`.

`RecordFile` – `FlvRecord` with the record file behind it: the header, the two writes of
a tag, and `Queue.Close`, which another goroutine calls at any moment. `TagsIn` is the
reader, translated from the test client, which reads the same frames from a
connection.

`FlvTag` – the FLV container's view of a tag: its type, its length, and the two fields
by which headers are told from frames, and tags that are too short to be parsed
from the others.

`FlvFanout` – `extractFlv` from a finished tag on, with one step per access to shared
state: reading a slot, the `Closed` test, the channel send, and the two writes of
the list's `Add` and `Remove` (external: `arraylist` of gods 1.18.1, modelled by its
order of writes, the length being counted from an old or a new reading). A client
that leaves makes the next connection write fail. What the cache keeps, and on what
it panics, is `FlvTag`'s answer.

`RtpParse` – where `Parse` puts the two ends of the payload.

`EdgeApp` – the registry. Every access to a shared map is a step: `handleNewStream` is
five of them (its request, its store to `App.Publishers`, its read of it, and its
two map entries), a stream that `CheckAlive` closes five more (the look at both maps,
the two deletions of `App.go:32` and `:33`, and the file and the `Ssrc` of `Queue.Close`),
and a handler reads the two maps in two steps after `HasChannel`. A packet can
therefore make a second queue of a stream while the first is out of the map and
still open. A datagram goes through `RtpParse` first. `queues` keeps every queue ever
made with its channel's backlog, since `RecvPacket` and `getDelay` go on after `Close`. A
poll is answered, fails and gives nil, or panics on an answer of another form
(`PollPanics`); `bareKeys` are the keys the cloud gives that are no app/channel.
`disturbed` remembers what happened to the streams and polls; only properties read it.
The calls of `CloseQuic` are in `QuicClient`.

`QuicClient` – the retransmission client. `pc` is each stream's place in `GetByQuic`,
`closer` that of `CloseQuic`; every line that reads the global `QuicConn` is a step of
its own, because `CloseQuic` does not take the lock: it tests a stream at
`quic_client.go:33` (`:37`) and closes that of whatever connection is there at `:34`
(`:38`). `causes` remembers, for the properties, what has changed `QuicConn` under its
user. A connection is the words on their way to the cloud, the lengths and the packets
on their way back; a packet has several parts, because one `Read` may return fewer
than all. A connection that nobody refers to is used again for the next dial. The
cloud answers a request, or not, at any time, and a connection may end at any time, as
a whole: that one of its streams ends while it lives on is left out. What a request
returns (`AnswersMatch`) is what `Replies` of `RtpQueue` assumes.

`HlsAlign` – the type `align`, as functions of its state, a time and a frame length.

`HlsSource` – the HLS output. `Write` is split at its two tests of `closed` and its
send, `SetItem` at its changes of the list and of the map, `GenM3U8PlayList` at its
reads of them: the playlist takes no lock. A segment's name is the second it was cut
in, so that it is the name of the segment before or a new one. `made` remembers all
segments, `stamps` the times of the audio frames, for the properties. `GetWriter` and
`checkStop` share the map of sources; `checkStop` tests `Alive` and deletes in two
steps. A source has one writer: that an older queue of the same key is still inside
`Write` when a republication's queue gets the source is left out. A panic in
`SendPacket` is recovered by the code and leaves the source open (`SenderPanics`). An
element that was removed from a `container/list` has no next element, which ends a
playlist early.

`MC*` instantiate these for TLC; `*Proofs` hold the theorems and, at the top, the
inductive invariants they need. Definitions named
“Mutant of …” are faulty variants of the definition they precede. No specification
uses them: they show that the properties would notice such a fault.

## 3. Runs

Passing:

- `queue_plain` (`EdgeStream`, `Protect = FALSE`): `KeepsOnePacket`, `GapsReported` and the
  refinement `ImplementsPlayout`: the queue is correct as long as the network stays
  within reach. `ImplementsRecord`: queue and record together are a behaviour of
  `FlvRecord`, so that what the `record` run checks holds of what the network delivers.
- `queue_protect` (`EdgeStream`, `Protect = TRUE`): slots stay where their numbers
  belong and the last one is full (`QueueInv`), no stored packet is thrown away
  (`StoredPacketsPlayed`), and the goroutine returns to its channel as long as
  `extractFlv` returns (`RecvPacketReturns`; that it may not is `fanout_stalled`).
  `DamageAccounted` bounds what protect mode costs: each damaged tag has its own join
  inside a tag or silent gap behind it. `MonitorPanicNeedsRace`: `PrintInfo` fails
  only if the queue changed under it.
- `record` (`RecordFile`): tags handed on are whole (`WholeTags`), in order
  (`TagsInOrder`) and exactly those that arrive in sync (`ExactlyInSyncEmitted`); the
  unguarded copy can only fail in the tag the node joined in (`PanicOnlyAtJoin`).
  `InSync` says precisely how long a loss is felt: until a tag in one piece arrives,
  since `IsTagHead` does not recognise the head of a tag in several fragments.
  `FileReadsBack`: wherever writing stops, a reader gets those tags unchanged and
  misses at most the last.
- `fanout`: no client sees tags out of order, whatever races (`NoReordering`); while
  nobody leaves, and no two clients are added at once (`Calm`), every client gets
  every tag (`Contiguous`, `AllServedWhileUp`) after its headers (`HeadersFirst`);
  while nobody leaves and the clients go on reading the loop ends (`EndsWhileUp`);
  while nobody joins the loop removes no other writer than a failed one
  (`OpenWritersStay`). A client gets the newest headers, except those that came when
  both kinds were already cached (`NewestHeaders`).
- `registry`, with `INIT` set, which the configuration reserves: a key leads to a queue
  at every step of both goroutines, and for a handler that reads the two maps one
  after the other too unless something was disturbed (`KeysResolve`); no queue is lost
  open and none closed under its stream while `CheckAlive` closes one
  (`OpenQueuesTracked`); an ended stream goes (`RemovedOnceInited`); and the receiver
  gets back to its socket as long as the queues keep running (`ReceiverReturns`). The
  process panics only after a stream ended, a poll failed, or an answer was
  overtaken by a publication, and at a key without a channel
  (`PanicNeedsDisturbance`).
- `quic`: with `CloseQuic` at any line, lost connections and redials, a request returns its
  own packet or nil (`AnswersMatch`), leaves neither half a request nor an unread answer
  on a connection that will be used again (`NothingLeftOver`), and returns
  (`GetByQuicReturns`). The holder of the lock meets a nil connection only when
  `CloseQuic` has cleared it or its own dial opened no stream, and `CloseQuic` closes
  a nil connection or stream only when a dial came in between (`NilNeedsCause`).
- `hls`: a segment starts at a key frame and holds exactly the frames up to the next
  one (`SegmentsExact`), list and map of the window agree (`WindowKept`), a playlist
  that races a cut lists consecutive segments (`PlaylistInOrder`), aligned audio stays
  near the tags' times and does not run backwards unless they do (`AudioInTime`), the
  source a stream writes to can be reached unless it was quiet, or found quiet before
  (`SourceReachable`), and `Write` returns as long as the source's goroutine lives
  (`WriteReturns`).

Disagreements between the code and what it says, each shown by a run that
violates the statement:

- `queue_disorder` – in protect mode an emptied queue restarts at an old packet,
  against “保证有序” (`README.md:13`) and the rule of `RtpQueue.go:87` that one packet is
  kept.
- `fanout_stalled` – a client that leaves with a full channel stops the stream for
  everybody, against “发送到该流下的所有客户端” (`RtpQueue.go:291`), although all clients that
  stay go on reading.
- `registry_idle` – `main.go:166` compares the length of the buffer, 1300, with 8, so that
  `INIT` is never set (and must not be set by hand, `config.go:56`); `CheckAlive` is idle
  and an ended stream stays, against `main.go:43`.
- `registry_republish` – closing an old stream deletes the key of its successor,
  against `main.go:56`. This needs `init: true` in the YAML, since `CheckAlive` is idle
  otherwise.
- `quic_shortread` – one `Read` that returns a part of a packet leaves the packet's end
  zero and shifts all later answers on the connection, against `README.md:110`.

The models show some more that no run states: a node that joins inside a tag takes a
middle fragment for the first one (`FirstFragment`; the panic it can cause is what
`PanicOnlyAtJoin` confines, and the lone fragment it can hand on is the exception of
`FileReadsBack`); a new client that leaves while its headers are sent makes
`extractFlv` return before the others get the tag (`InitialClosed`; hence the “while
nobody leaves” of `AllServedWhileUp`); a tag of one byte that is declared as AAC audio
panics in the cache (`TagPanics`); a client that stays but stops reading stops the
stream's goroutine too, since the server sets no write timeout, and once that stream's
channel is full the one receiver (`WriteSend`, `SendToQueue`); with `init: true`,
`CheckAlive` closes streams that are published when its poll was old or failed
(`disturbed` in `PanicNeedsDisturbance`), a handler between its two reads of the maps
finds no queue (`Attach`), and a packet between `App.go:33` and `Close` makes a second
queue; `getDelay` dereferences a publisher that a failed poll has taken away
(`GetDelayPanics`); `CloseQuic` while another stream holds the lock, or a redial while
`CloseQuic` is at work, ends the process (`NilConn`, `CloseNil`), and so does a
connection lost inside an answer (`ReadDataPanics`); a source that was quiet for ten
seconds is never listed again (`CheckStopDelete`); a tag the demuxer rejects ends the
HLS goroutine, after which `Write` fails, and `CheckError` with it, or blocks on a
full channel (`DemuxFails`).

### Bounds

Stream: 32 numbers with horizon 20 (reach 12), a window of 3, nine packets that start
three numbers before the wrap, skips of 4 and delays of 3, a channel of 2 (1 with
protect mode). The window is passed, the wrap happens inside the window, reshape meets
runs of missing packets of every length it can, and the buffer grows once and then is
at its limit. The limit of missing packets is 1 instead of 5, so that short runs
suffice. The nine packets are five tags of one to three pieces; the node may join at
any of the first five packets. The disorder run starts at 8 so that no wrap is
involved. Record and file: seven tags of one to four fragments, audio/video or not, in
every relevant neighbourhood; every subset of packets may be lost; every place of
joining. Fan-out: two clients at the start and one that joins, two of which may leave;
four streams, with a frame behind both headers, with a header repeated before and
after the cache is full and with a tag that is too short; channels of 2, so that they
fill. With one client joining, `raced` stays false; the theorems of section 4 are
about any number. Registry: two SSRCs under one key, which may be an app/channel or
not, one client, two queues made, which both streams or one stream twice can have,
channels of 1, a datagram that is a packet and one whose padding takes all of its
payload. The two statements about an ended stream look at one of the two (`Ended`),
which are alike. QUIC: two streams and two numbers, enough to tell an answer from
another stream's and from an earlier one; three connections, since at most two are
referred to at a dial; packets of two parts. HLS: the window of 3 as in the code, a
stream with five cuts, so that it moves, one with all the tags that are no frames, and
one whose audio makes `align` start its count again and steps back in time once;
segments of 3 time units, audio in groups of 2, frames of one and a half time units, a
channel of 2.

### Fairness

The specifications are fair to what the code itself keeps going. What needs somebody
else is a condition of the property. `EdgeStream`: weak fairness of the steps of
`RecvPacket` that do not call `extractFlv`. A request over QUIC returns because quic-go ends
an idle connection and the read fails; a cloud that keeps the connection alive and
never answers is outside of this. `RecvPacketReturns` has the condition
`ExtractFlvReturns`. `FlvFanout`: weak fairness of the stream goroutine and of each
`SendPacket`, except that a successful write to a client is the client's doing: nothing
but its leaving makes a write return, since there is no timeout. `EndsWhileUp` and
`DistributionEnds` have the condition `ClientsRead`. `EdgeApp`: weak fairness of the
receiver once it has a packet and of `CheckAlive`, whose timer fires and whose request
has a timeout, and none of the queues' goroutines: `ReceiverReturns` has the condition
that they run (`Runs`). `QuicClient`: weak
fairness of a request's steps and of the timeout of a connection somebody waits
on (quic-go's idle timeout), strong fairness of `Lock` (a Go mutex hands itself to a
starving waiter). `HlsSource`: weak fairness of `SendPacket` and of the inside of `Write`.
The cloud and the clients owe nothing. `WriteReturns` of `HlsSource` has its own condition,
that the source's goroutine has not ended.

## 4. Proofs

Assumptions: `SeqAssumption` (the horizon is in the upper half of the number space),
`QueueAssumption` (types; a window of at least one), `NetworkAssumption` (delay below
the reach, window plus skip within it: 5536 numbers in the code), `StreamAssumption`
and `TagsAssumption` (a tag has a fragment), `LayoutAssumption` (the cloud sends the
fragments of a tag in order, then those of the next), `AlignAssumption` (a positive
clock rate), `IncAssumption` (a frame is not shorter than the tolerance: 960 ticks
against 180) and the types of the other constants (`FanoutAssumption`,
`RegistryAssumption`, `QuicAssumption`, `HlsAssumption`, `NilAssumption`). The code's
values satisfy them.

- `RtpQueueProofs`: `CompareWithinReach`, from lemmas on remainders; `TypeCorrect`;
  `QueueConsistent`, by the invariant `QueueInv` (`SlotsInPlace`, `LastPresent`, and
  that the queue is not empty inside `Dequeue`, without which popping it would say
  nothing). `GapsAreReported`, `OnePacketIsKept` and `QueueImplementsPlayout` are for
  `Protect = FALSE` and rest on `OrderInv`. Its parts are needed together: slot i
  holds packet `HeadNumber + i - 1` or nothing (`QueueExact`), what was played ends
  before the head (`OutExact`), a waiting packet is near what was received before it
  (`ChanInReach`, `NextIsFrontier`), and the queue is short at each place of the
  goroutine (`LengthAtPc`). The last two bring every comparison within reach, where
  `CompareWithinReach` makes it right; that keeps the first two.
  `StoredPacketsArePlayed` is for both modes, under `Span < Reach`: the window and all
  of the network's disorder together stay below 5536 numbers, which is more than
  `NetworkAssumption` asks for, because a reshape can leave a queue that the next
  `Dequeue` empties and that then restarts at a late packet. `SpanInv` says how far
  behind that can be, and that an answer of the cloud is the head or a packet
  `Enqueue` drops. Since that answer therefore never makes the queue longer, each step
  of the two loops lowers `Rounds`, four times the length of the queue plus the steps
  left in the round, and no arrival raises it: `LoopsAreFinite`, under `Span < Reach`
  and in both modes. It is the part of `RecvPacketReturns` that does not need
  fairness; the run adds that the goroutine can always take a step, and does.
- `EdgeStreamProofs`: `StreamImplementsQueue`, every step of the composition is a step
  of `RtpQueue` or leaves it alone; hence `StreamQueueConsistent` and
  `StreamGapsReported` without a second proof. `MonitorIsSafeAtRest`: a monitor that was
  not raced holds the size of the queue as it is, and by `LastPresent` that slot is full.
  `StreamImplementsRecord` (`Protect = FALSE`): by `OrderInv` and `JoinInv` the packet at
  hand starts at the one the node joined at, stays while packets are stored and moves
  by one when one is played. With it the theorems about the record hold of what the
  network delivers (`StreamTagsAreWhole`, `StreamEmitsTagsInSync`): `FlvRecordProofs` is
  instantiated with the same mapping. `DamageIsAccounted` is for both modes, under
  `Span < Reach`. Its invariant `DamageInv` also charges the damage that has not shown
  yet (`Astray`: the record is out of step with the packet at hand, or the queue is
  empty and any packet may be next); a record out of step that hands on a tag is in
  step afterwards (`StepDamage`), so that each silent gap is paid for once.
- `FlvRecordProofs`: `TypeCorrect` (with the position inside the buffer),
  `EmittedTagsAreWhole`, `EmittedTagsInOrder` and `PanicsOnlyAtJoin`, by `RecordInv`: the
  buffer holds all earlier fragments of the tag at hand, without a buffer the record
  is at a first fragment or searching, and what was handed on is before the tag at
  hand. `ExactlyTheTagsInSync` by `SyncInv`: the record searches for a head if and only if
  the stream is out of sync at the packet at hand (`SyncSoFar`).
- `RecordFileProofs`: `RecordFileReadsBack`. The reader `TagsIn` is a recursive function
  on the places in the file, so that two inductions come first: that such a function
  exists and satisfies its equation (`TagsInFollows`), and that it reads a file of a
  given layout back (`ReadsLayout`). Both take the least counterexample of a set of
  numbers (`Induction`), since a rule of induction with an operator as its parameter is
  of no use to the provers. The invariant `FileInv` says that the file is laid out as
  tags that were handed on, up to a last one that may still lack its cells or its
  size, whichever write `WriteTagDirect` is at (`InFile`). As long as no lone
  fragment was handed on, the reader finds the tags' places. The layout may stop
  growing at any step, when `Close` takes the handle away; that is why at most the last
  tag is missed. `FileRefinesRecord`: the file adds nothing to the record's steps, so that
  the record's theorems hold with it (`RecordedTagsAreSound`).
- `FlvFanoutProofs`: `TypeCorrect` by `LoopInv`: whichever goroutine writes the list's
  length, from an old reading or a new one, the result is not more than the number of
  clients added. `StreamStep` reduces everything a client was sent to one kind of
  step, an item appended by `WriteSend`; `TagsKeepOrder` follows since nothing sent is
  newer than the tag at hand. `HeadersAreNewest` needs what the cache holds (`CacheInv`)
  and that a header is followed by a tag it was good for unless the client is still
  being served (`HeaderInv`). `OpenWritersAreKept`: with the list to itself the loop
  knows its slot (`Orderly`). `NoTagIsMissed`, `HeadersComeFirst` and
  `EveryClientIsServed` are three readings of `CalmInv`: the list holds each client once,
  in front of the one being added (`ListInv`), and where the loop is in it says how far
  each client is (`ClientInv`). With three handlers these are false without `~raced`: a
  length counted from an old reading can take a client out of the list, and a later
  `Add` brings it back.
- `EdgeAppProofs`: `TypeCorrect`; `OpenQueuesAreTracked` and `KeysLeadToQueues` by
  what the maps and the queues have to do with each other at each step of
  `handleNewStream` and `CheckAlive` (`MapsAgree`, `ClosingInv`, `RegistryInv`), and
  what a handler between its two reads can count on (`Served`, `CalmHandlers`);
  `PanicsAreDisturbances` by what holds as long as nothing was disturbed
  (`CalmStreams`). `PayloadInside`, `PlainPayload`: the slice of `Parse` is in range
  for every datagram.
- `QuicClientProofs`: `NilPanicsHaveACause`, since under the lock (`MutexInv`) only
  `CloseQuic` or the holder's own dial takes the connection away (`HolderInv`), and
  only a dial changes it, or its data stream, under `CloseQuic` (`CloserInv`).
  `NothingIsLeftOver`, `AnswersAreOwn` and `TypeCorrect` by `TalkInv`: what is on a
  connection is what its one user has sent and not yet read, stage by stage. These
  three are for `ShortReads = FALSE`; the run `quic_shortread` shows that the answers
  are wrong otherwise.
- `HlsSourceProofs`: `AlignedIsNear` and `AlignedInOrder`, for every rate, frame
  length and tolerance. `WindowIsKept` and `PlaylistsInOrder` by what list, map and a
  playlist in the making share (`ListInv`, `MapInv`, `ViewInv`); `SourceIsReachable`,
  with the moment between `checkStop`'s test and its deletion as an exception;
  `SegmentsAreExact` by following each frame from the stream through the channel
  (`FlowInv`) into the segment at hand or the audio cache (`SegmentInv`).
  `AudioKeepsTime` by the same statement about the audio that is still cached (`Due`),
  whose last time is the count `align` goes on from (`AudioInv`). The attempt to prove
  it showed that audio can run backwards when the tags' times step back between two
  groups, which is why `AudioInTime` has `NoStepBack`.

The hypotheses hold of the runs' instances too (`Span` is 10 and `Reach` 12 in the
protect run). TLC has checked the inductive invariants on the instances of the runs.

Only model-checked: the liveness properties (`RecvPacketReturns`, `EndsWhileUp`,
`RemovedOnceInited`, `ReceiverReturns`, `GetByQuicReturns`, `WriteReturns`). Liveness
under fairness, and with it ENABLED, is out of the prover's reach.

## 5. Not modelled

Configuration: flags and YAML are read once, before the first goroutine starts, and
become constants. Statistics and logs. Code that nothing calls: `Play`, `outChan`,
`DropPacket`, `SetDuration`, `Sync`, `LoopBack`, `Source.Close` and `cleanup`, `Demux`
of the FLV container, `RealData`. Bytes in the middle of a tag that look like a tag
head; the Go runtime's abort on map accesses at the same instant; the composition time
of HLS video, and the fetch of a segment, which changes nothing; a length on the QUIC
info stream that arrives in two pieces, and a stream of a QUIC connection that ends
before the connection; two streams under one key at work on one record file
(`os.Create` of the same name) or on one HLS source: `RecordFile` and `HlsSource` are
about one writer; two streams that change the shared `UdpBufferSize` at the same time;
the time stamps and sound fields of the FLV container; the test client apart from its
reader. `PROJECT.json` says for each part why.

## 6. Plan

Done: the modules of section 2 and the proofs of section 4. Left, in this order:

1. `DamageAccounted` beyond `Span < Reach`: what a network that overtakes the horizon
   can do to an emptied queue.
2. Two `EdgeStream`s over one `UdpBufferSize`.
