------------------------------ MODULE FlvFanout -----------------------------
(***************************************************************************)
(* The distribution of one stream's FLV tags to its HTTP-FLV clients: the  *)
(* second half of Queue.extractFlv with the SegmentCache, the FLVWriter of *)
(* each client with its SendPacket goroutine, and the HTTP handler that    *)
(* adds a client.                                                          *)
(*                                                                         *)
(* FlvWriters is an arraylist that the stream goroutine and the handlers   *)
(* use without a lock.  Its Add and Remove write a slot first and the      *)
(* length after it, the length counted from what either moment read.       *)
(***************************************************************************)
EXTENDS FlvTag, Sequences, FiniteSets

CONSTANTS
    Streams,    \* the streams to choose from: sequences of tags
    Early,      \* clients in FlvWriters when the stream starts
    Late,       \* clients that connect later
    Leaving,    \* clients that may close their connection
    QueueSize,  \* maxQueueNum, the capacity of packetQueue
    Nil         \* an empty slot; nothing in hand

ASSUME FanoutAssumption ==
    /\ \A s \in Streams : s \in Seq(TagBytes)
    /\ Early \cap Late = {}
    /\ Leaving \subseteq Early \cup Late
    /\ QueueSize \in Nat \ {0}
    /\ IsFiniteSet(Early \cup Late)
    /\ Nil \notin Early \cup Late \cup Nat
    /\ Nil \notin {"header", "tag"} \X Nat

Clients == Early \cup Late

Slots == 1 .. Cardinality(Clients)

VARIABLES
    kinds,        \* the stream: what the cache makes of each tag
    tag,          \* number of tags completed
    videoSeq,     \* SegmentCache.videoSeq: the tag kept, or Nil
    audioSeq,     \* SegmentCache.audioSeq
    pc,           \* where extractFlv is
    idx,          \* its loop variable i, counted from 1
    writer,       \* its local variable writer
    stage,        \* what it is writing to the writer
    removeSize,   \* the length Remove started from
    elements,     \* FlvWriters: the slots
    size,         \* FlvWriters: the length
    conn,         \* where each client's HTTP handler is
    addSize,      \* the length the client's Add started from
    init,         \* FLVWriter.Init
    closed,       \* FLVWriter.Closed; SendPacket has ended
    packetQueue,  \* FLVWriter.packetQueue
    sending,      \* what SendPacket is writing to the connection
    gone,         \* the client closed its connection
    received,     \* what each client was sent
    recorded,     \* the last tag that went on to HLS and the record file
    audience,     \* the clients that were added when the tag was complete
    raced         \* two handlers were inside Add at the same time

streamVars == <<kinds, tag, videoSeq, audioSeq>>
listVars == <<elements, size>>
loopVars == <<idx, writer, stage, removeSize>>
handlerVars == <<conn, addSize>>
clientVars == <<sending, gone, received>>
vars == <<streamVars, pc, loopVars, listVars, handlerVars, init, closed,
          packetQueue, clientVars, recorded, audience, raced>>

-----------------------------------------------------------------------------
(* The stream goroutine: extractFlv with a finished tag. *)

\* Mutant of CacheFull: one header is enough.
CacheFullEarly == videoSeq # Nil \/ audioSeq # Nil

\* SegmentCache.full, after which Write is never called again.
CacheFull == videoSeq # Nil /\ audioSeq # Nil

\* Mutant of CacheWrite: the first header of each kind is kept.
CacheWriteFirst(t) ==
    /\ videoSeq' = IF videoSeq = Nil /\ kinds[t] = "videoSeq"
                   THEN t ELSE videoSeq
    /\ audioSeq' = IF audioSeq = Nil /\ kinds[t] = "audioSeq"
                   THEN t ELSE audioSeq

\* SegmentCache.Write.
CacheWrite(t) ==
    /\ videoSeq' = IF ~CacheFull /\ kinds[t] = "videoSeq" THEN t ELSE videoSeq
    /\ audioSeq' = IF ~CacheFull /\ kinds[t] = "audioSeq" THEN t ELSE audioSeq

\* Mutant of TagComplete: the loop starts one writer too low.
TagCompleteSkipsLast ==
    /\ pc = "idle"
    /\ tag < Len(kinds)
    /\ CacheFull \/ kinds[tag + 1] # "short"
    /\ tag' = tag + 1
    /\ CacheWrite(tag + 1)
    /\ idx' = IF size = 0 THEN 0 ELSE size - 1
    /\ audience' = {c \in Clients : conn[c] = "in"}
    /\ pc' = "visit"
    /\ UNCHANGED <<kinds, writer, stage, removeSize, listVars, handlerVars,
                   init, closed, packetQueue, clientVars, recorded, raced>>

\* A tag is complete: fill the cache and start the loop at the last writer.
TagComplete ==
    /\ pc = "idle"
    /\ tag < Len(kinds)
    /\ CacheFull \/ kinds[tag + 1] # "short"
    /\ tag' = tag + 1
    /\ CacheWrite(tag + 1)
    /\ idx' = size
    /\ audience' = {c \in Clients : conn[c] = "in"}
    /\ pc' = "visit"
    /\ UNCHANGED <<kinds, writer, stage, removeSize, listVars, handlerVars,
                   init, closed, packetQueue, clientVars, recorded, raced>>

\* SegmentCache.Write panics on a tag that is too short: the process ends.
TagPanics ==
    /\ pc = "idle"
    /\ tag < Len(kinds)
    /\ ~CacheFull
    /\ kinds[tag + 1] = "short"
    /\ pc' = "panicked"
    /\ UNCHANGED <<streamVars, loopVars, listVars, handlerVars, init, closed,
                   packetQueue, clientVars, recorded, audience, raced>>

\* Mutant of Open: Init is tested in place of Closed.
OpenIfInit(i) == i \in 1 .. size /\ elements[i] # Nil /\ init[elements[i]]

\* Slot i of the list holds a writer that is not closed.
Open(i) == i \in 1 .. size /\ elements[i] # Nil /\ ~closed[elements[i]]

\* The loop meets an open writer.  SendInitialSegment comes first for a new
\* one; it starts with the video header, as there never is a metadata packet.
VisitWriter ==
    /\ pc = "visit"
    /\ Open(idx)
    /\ writer' = elements[idx]
    /\ stage' = IF init[elements[idx]] THEN "tag" ELSE "video"
    /\ pc' = "write"
    /\ UNCHANGED <<streamVars, idx, removeSize, listVars, handlerVars, init,
                   closed, packetQueue, clientVars, recorded, audience, raced>>

\* The loop meets an empty slot or a closed writer, which is removed, or no
\* slot at all.
DropWriter ==
    /\ pc = "visit"
    /\ idx > 0
    /\ ~Open(idx)
    /\ pc' = IF idx <= size THEN "remove" ELSE "visit"
    /\ idx' = IF idx <= size THEN idx ELSE idx - 1
    /\ UNCHANGED <<streamVars, writer, stage, removeSize, listVars,
                   handlerVars, init, closed, packetQueue, clientVars,
                   recorded, audience, raced>>

\* All writers visited: the tag goes to HLS and to the record file.
TagDone ==
    /\ pc = "visit"
    /\ idx = 0
    /\ recorded' = tag
    /\ pc' = "idle"
    /\ UNCHANGED <<streamVars, loopVars, listVars, handlerVars, init, closed,
                   packetQueue, clientVars, audience, raced>>

\* What is written at each stage: a cached header, if there is one, or the tag.
Item ==
    CASE stage = "video" ->
            IF videoSeq = Nil THEN Nil ELSE <<"header", videoSeq>>
      [] stage = "audio" ->
            IF audioSeq = Nil THEN Nil ELSE <<"header", audioSeq>>
      [] stage = "tag"   -> <<"tag", tag>>

\* The stage after the present one; after the tag comes the next writer.
\* writer.Init is set when SendInitialSegment is through.
StageDone ==
    /\ stage' = CASE stage = "video" -> "audio"
                  [] stage = "audio" -> "tag"
                  [] stage = "tag"   -> "tag"
    /\ init' = [init EXCEPT ![writer] = stage # "video"]
    /\ pc' = IF stage = "tag" THEN "visit" ELSE "write"
    /\ idx' = IF stage = "tag" THEN idx - 1 ELSE idx

\* Mutant of NothingCached: a new client waits until both headers are there.
NothingCachedWaits ==
    /\ pc = "write"
    /\ Item = Nil
    /\ CacheFull
    /\ StageDone
    /\ UNCHANGED <<streamVars, writer, removeSize, listVars, handlerVars,
                   closed, packetQueue, clientVars, recorded, audience, raced>>

\* SegmentPacket.Send without a packet.
NothingCached ==
    /\ pc = "write"
    /\ Item = Nil
    /\ StageDone
    /\ UNCHANGED <<streamVars, writer, removeSize, listVars, handlerVars,
                   closed, packetQueue, clientVars, recorded, audience, raced>>

\* FLVWriter.Write finds the writer open and goes on to the channel.
WriteOpen ==
    /\ pc = "write"
    /\ Item # Nil
    /\ ~closed[writer]
    /\ pc' = "send"
    /\ UNCHANGED <<streamVars, loopVars, listVars, handlerVars, init, closed,
                   packetQueue, clientVars, recorded, audience, raced>>

\* Mutant of WriteSend: the channel takes everything.
WriteSendUnbounded ==
    /\ pc = "send"
    /\ packetQueue' = [packetQueue EXCEPT ![writer] = Append(@, Item)]
    /\ StageDone
    /\ UNCHANGED <<streamVars, writer, removeSize, listVars, handlerVars,
                   closed, clientVars, recorded, audience, raced>>

\* Mutant of WriteSend: what does not fit is dropped.
WriteSendDrops ==
    /\ pc = "send"
    /\ packetQueue' = [packetQueue EXCEPT ![writer] =
                          IF Len(@) < QueueSize THEN Append(@, Item) ELSE @]
    /\ StageDone
    /\ UNCHANGED <<streamVars, writer, removeSize, listVars, handlerVars,
                   closed, clientVars, recorded, audience, raced>>

\* The send on packetQueue blocks while the channel is full.
WriteSend ==
    /\ pc = "send"
    /\ Len(packetQueue[writer]) < QueueSize
    /\ packetQueue' = [packetQueue EXCEPT ![writer] = Append(@, Item)]
    /\ StageDone
    /\ UNCHANGED <<streamVars, writer, removeSize, listVars, handlerVars,
                   closed, clientVars, recorded, audience, raced>>

\* FLVWriter.Write finds the writer closed in the meantime: the tag's write
\* removes it from the list.
WriteClosed ==
    /\ pc = "write"
    /\ stage = "tag"
    /\ closed[writer]
    /\ pc' = "remove"
    /\ UNCHANGED <<streamVars, loopVars, listVars, handlerVars, init, closed,
                   packetQueue, clientVars, recorded, audience, raced>>

\* The same in SendInitialSegment: extractFlv returns.
InitialClosed ==
    /\ pc = "write"
    /\ Item # Nil
    /\ stage # "tag"
    /\ closed[writer]
    /\ pc' = "idle"
    /\ UNCHANGED <<streamVars, loopVars, listVars, handlerVars, init, closed,
                   packetQueue, clientVars, recorded, audience, raced>>

\* arraylist.Remove: shift the slots behind idx, then count down.  A slot that is
\* not in the list any more is left alone.
RemoveShift ==
    /\ pc = "remove"
    /\ elements' = [i \in Slots |->
                      IF i \in idx .. size - 1 THEN elements[i + 1]
                      ELSE IF i = idx /\ idx <= size THEN Nil ELSE elements[i]]
    /\ removeSize' = size
    /\ pc' = IF idx <= size THEN "shrink" ELSE "visit"
    /\ idx' = IF idx <= size THEN idx ELSE idx - 1
    /\ UNCHANGED <<streamVars, writer, stage, size, handlerVars, init,
                   closed, packetQueue, clientVars, recorded, audience, raced>>

RemoveCount ==
    /\ pc = "shrink"
    /\ \E s \in {size, removeSize} : size' = s - 1
    /\ idx' = idx - 1
    /\ pc' = "visit"
    /\ UNCHANGED <<streamVars, writer, stage, removeSize, elements,
                   handlerVars, init, closed, packetQueue, clientVars,
                   recorded, audience, raced>>

-----------------------------------------------------------------------------
(* The HTTP handler of a client: handleConn, HandleNewFlvWriterRequest. *)

\* NewFLVWriter, and the slot written by arraylist.Add.
Connect(c) ==
    /\ conn[c] = "out"
    /\ elements' = [elements EXCEPT ![size + 1] = c]
    /\ addSize' = [addSize EXCEPT ![c] = size]
    /\ conn' = [conn EXCEPT ![c] = "adding"]
    /\ raced' = (raced \/ \E d \in Clients : conn[d] = "adding")
    /\ UNCHANGED <<streamVars, pc, loopVars, size, init, closed, packetQueue,
                   clientVars, recorded, audience>>

\* The length written by Add; the handler then waits on closedChan, which
\* nothing closes.
Added(c) ==
    /\ conn[c] = "adding"
    /\ \E s \in {size, addSize[c]} : size' = s + 1
    /\ conn' = [conn EXCEPT ![c] = "in"]
    /\ UNCHANGED <<streamVars, pc, loopVars, elements, addSize, init, closed,
                   packetQueue, clientVars, recorded, audience, raced>>

-----------------------------------------------------------------------------
(* The SendPacket goroutine of a writer, and its client. *)

\* Mutant of SendPacketTake: the newest packet is taken first.
SendPacketTakeLast(c) ==
    /\ ~closed[c]
    /\ sending[c] = Nil
    /\ packetQueue[c] # <<>>
    /\ LET n == Len(packetQueue[c]) IN
          /\ sending' = [sending EXCEPT ![c] = packetQueue[c][n]]
          /\ packetQueue' = [packetQueue EXCEPT ![c] = SubSeq(@, 1, n - 1)]
    /\ UNCHANGED <<streamVars, pc, loopVars, listVars, handlerVars, init,
                   closed, gone, received, recorded, audience, raced>>

SendPacketTake(c) ==
    /\ ~closed[c]
    /\ sending[c] = Nil
    /\ packetQueue[c] # <<>>
    /\ sending' = [sending EXCEPT ![c] = Head(packetQueue[c])]
    /\ packetQueue' = [packetQueue EXCEPT ![c] = Tail(@)]
    /\ UNCHANGED <<streamVars, pc, loopVars, listVars, handlerVars, init,
                   closed, gone, received, recorded, audience, raced>>

SendPacketOk(c) ==
    /\ sending[c] # Nil
    /\ ~gone[c]
    /\ received' = [received EXCEPT ![c] = Append(@, sending[c])]
    /\ sending' = [sending EXCEPT ![c] = Nil]
    /\ UNCHANGED <<streamVars, pc, loopVars, listVars, handlerVars, init,
                   closed, packetQueue, gone, recorded, audience, raced>>

\* A write to the connection fails: the goroutine ends and sets Closed.
SendPacketFails(c) ==
    /\ sending[c] # Nil
    /\ gone[c]
    /\ ~closed[c]
    /\ closed' = [closed EXCEPT ![c] = TRUE]
    /\ UNCHANGED <<streamVars, pc, loopVars, listVars, handlerVars, init,
                   packetQueue, clientVars, recorded, audience, raced>>

Disconnect(c) ==
    /\ conn[c] = "in"
    /\ ~gone[c]
    /\ gone' = [gone EXCEPT ![c] = TRUE]
    /\ UNCHANGED <<streamVars, pc, loopVars, listVars, handlerVars, init,
                   closed, packetQueue, sending, received, recorded,
                   audience, raced>>

-----------------------------------------------------------------------------
Init ==
    /\ kinds \in {[i \in DOMAIN s |-> CacheKind(s[i])] : s \in Streams}
    /\ tag = 0
    /\ videoSeq = Nil
    /\ audioSeq = Nil
    /\ pc = "idle"
    /\ idx = 0
    /\ writer = Nil
    /\ stage = "tag"
    /\ removeSize = 0
    /\ size = Cardinality(Early)
    /\ elements \in [Slots -> Clients \cup {Nil}]
    /\ {elements[i] : i \in 1 .. size} = Early
    /\ \A i \in Slots : i > size => elements[i] = Nil
    /\ conn = [c \in Clients |-> IF c \in Early THEN "in" ELSE "out"]
    /\ addSize = [c \in Clients |-> 0]
    /\ init = [c \in Clients |-> FALSE]
    /\ closed = [c \in Clients |-> FALSE]
    /\ packetQueue = [c \in Clients |-> <<>>]
    /\ sending = [c \in Clients |-> Nil]
    /\ gone = [c \in Clients |-> FALSE]
    /\ received = [c \in Clients |-> <<>>]
    /\ recorded = 0
    /\ audience = {}
    /\ raced = FALSE

ExtractFlv ==
    \/ VisitWriter
    \/ DropWriter
    \/ TagDone
    \/ NothingCached
    \/ WriteOpen
    \/ WriteSend
    \/ WriteClosed
    \/ InitialClosed
    \/ RemoveShift
    \/ RemoveCount

SendPacket(c) == SendPacketTake(c) \/ SendPacketOk(c) \/ SendPacketFails(c)

Next ==
    /\ pc # "panicked"
    /\ \/ TagComplete
       \/ TagPanics
       \/ ExtractFlv
       \/ \E c \in Clients : Connect(c) \/ Added(c) \/ SendPacket(c)
       \/ \E c \in Leaving : Disconnect(c)

Spec == Init /\ [][Next]_vars

\* The goroutines keep running, and a write to a connection that is gone fails.
\* A client owes nothing: the server sets no time limit for a write, so that one
\* to a client that stays and does not read never ends.
FairSpec ==
    /\ Spec
    /\ WF_vars(ExtractFlv)
    /\ \A c \in Clients :
          WF_vars(pc # "panicked" /\ (SendPacketTake(c) \/ SendPacketFails(c)))

-----------------------------------------------------------------------------
(* Properties. *)

Items == {"header", "tag"} \X (1 .. Len(kinds))

\* Every variable has the type of the Go field it models; in particular the list
\* never gets longer than there are clients, nor a channel fuller than its capacity.
TypeOK ==
    /\ kinds \in Seq({"videoSeq", "audioSeq", "media", "short"})
    /\ tag \in 0 .. Len(kinds)
    /\ {videoSeq, audioSeq} \subseteq 1 .. Len(kinds) \cup {Nil}
    /\ pc \in {"idle", "visit", "write", "send", "remove", "shrink",
              "panicked"}
    /\ {idx, size, removeSize} \subseteq 0 .. Cardinality(Clients)
    /\ writer \in Clients \cup {Nil}
    /\ stage \in {"video", "audio", "tag"}
    /\ elements \in [Slots -> Clients \cup {Nil}]
    /\ conn \in [Clients -> {"out", "adding", "in"}]
    /\ addSize \in [Clients -> 0 .. Cardinality(Clients)]
    /\ {init, closed, gone} \subseteq [Clients -> BOOLEAN]
    /\ packetQueue \in [Clients -> Seq(Items)]
    /\ \A c \in Clients : Len(packetQueue[c]) <= QueueSize
    /\ sending \in [Clients -> Items \cup {Nil}]
    /\ received \in [Clients -> Seq(Items)]
    /\ recorded \in 0 .. tag
    /\ audience \subseteq Clients
    /\ raced \in BOOLEAN

\* All that was put into the client's channel so far.
Stream(c) ==
    received[c] \o (IF sending[c] = Nil THEN <<>> ELSE <<sending[c]>>)
                \o packetQueue[c]

IsTag(c, i) == Stream(c)[i][1] = "tag"

Number(c, i) == Stream(c)[i][2]

\* Whatever the handlers and the loop do to the list at the same time, no
\* client gets a tag after a later one.
NoReordering ==
    \A c \in Clients : \A i, j \in DOMAIN Stream(c) :
        i < j /\ IsTag(c, i) /\ IsTag(c, j) => Number(c, i) <= Number(c, j)

NobodyLeft == \A c \in Clients : ~gone[c]

\* No client has left, and no two were added at the same time.
Calm == NobodyLeft /\ ~raced

\* As long as no client leaves and no two are added at once, a client misses no
\* tag and gets none twice from the first one on, whenever it connects.
Contiguous ==
    Calm => \A c \in Clients : \A i, j \in DOMAIN Stream(c) :
        i < j /\ IsTag(c, i) /\ IsTag(c, j) => Number(c, j) - Number(c, i) = j - i

\* Under the same conditions a media tag is never sent to a client before the
\* headers that came before it in the stream, which it needs to decode it.
HeadersFirst ==
    Calm => \A c \in Clients : \A i \in DOMAIN Stream(c) :
        kinds[Number(c, i)] = "media" =>
            \A kind \in {"videoSeq", "audioSeq"} :
                (\E h \in 1 .. Number(c, i) - 1 : kinds[h] = kind) =>
                    \E j \in 1 .. i - 1 : kinds[Number(c, j)] = kind

Both(t) == {"videoSeq", "audioSeq"} \subseteq {kinds[u] : u \in 1 .. t}

\* A connected client is sent the newest headers there are before its first tag; only
\* headers that come when both kinds are already kept are ignored, so that from
\* then on every new client gets the stream's old ones.
NewestHeaders ==
    \A c \in Clients : \A i \in DOMAIN Stream(c) :
        ~IsTag(c, i) /\ ~closed[c] =>
            \A g \in Number(c, i) + 1 .. tag :
                kinds[g] = kinds[Number(c, i)] =>
                    \/ Both(g - 1)
                    \/ \E j \in DOMAIN Stream(c) : IsTag(c, j) /\ Number(c, j) < g

\* No handler has added a client yet.
Alone == \A c \in Late : conn[c] = "out"

\* The open writers are in the list.
OpenListed == \A c \in Early : ~closed[c] => \E i \in 1 .. size : elements[i] = c

\* As long as no handler adds a client, a client stays in the list until its
\* connection failed: the loop removes the writers of failed connections only.
OpenWritersStay == Alone => OpenListed

\* The comment in extractFlv: the data is sent to all clients of the stream.
\* When a tag is done, every client that was added before it and whose
\* connection is up has it, and so have HLS and the record file.
SentToAllClients ==
    pc = "idle" /\ tag > 0 =>
        /\ \A c \in audience :
              ~closed[c] => \E i \in DOMAIN Stream(c) :
                               Stream(c)[i] = <<"tag", tag>>
        /\ recorded = tag

\* As long as no client leaves and no two are added at once, the comment is true.
AllServedWhileUp == Calm => SentToAllClients

\* Every client that stays reads what it is sent.
ClientsRead ==
    \A c \in Clients : WF_vars(pc # "panicked" /\ SendPacketOk(c))

\* If all clients read, the loop over the writers ends, so that the stream
\* goroutine returns to its packets.
DistributionEnds ==
    ClientsRead => (pc # "idle" ~> pc \in {"idle", "panicked"})

\* If all clients read and none leaves, a slow one only delays the loop.
EndsWhileUp ==
    ClientsRead => (pc # "idle" ~> (pc \in {"idle", "panicked"} \/ ~NobodyLeft))

=============================================================================
