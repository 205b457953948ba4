------------------------------- MODULE EdgeApp ------------------------------
(***************************************************************************)
(* The stream registry of the edge node: main's receiveRtp goroutine that  *)
(* creates a queue for a new SSRC, the CheckAlive goroutine that polls the *)
(* cloud and closes the queues of ended streams, and the HTTP handlers     *)
(* that look streams up by key.  They share the maps of cache.App without  *)
(* a lock.                                                                 *)
(*                                                                         *)
(* A map operation is one step.  That the Go runtime may stop the program  *)
(* when it catches two of them at the same instant is left out, and so is  *)
(* what a queue does with its packets: RtpQueue, FlvRecord and FlvFanout   *)
(* are about that.                                                         *)
(***************************************************************************)
EXTENDS RtpParse, Sequences

CONSTANTS
    Ssrcs,      \* the streams the cloud may publish
    Datagrams,  \* what a datagram with a stream's SSRC may look like
    KeyOf,      \* the key (app/channel) each is published under
    Clients,    \* HTTP-FLV clients
    Wanted,     \* the key the clients ask for
    Ended,      \* the stream whose removal is looked at
    InitConf,   \* conf init
    Recording,  \* conf enable_record
    LossRate,   \* conf pack_loss, in thousandths
    BufferLen,  \* length of receiveRtp's buffer (1300)
    ChanSize,   \* capacity of a queue's InChan
    MaxQueues   \* bound: how often a stream is taken for a new one

InitLen == 8  \* length of the cloud's port message

ASSUME RegistryAssumption ==
    /\ Ssrcs \subseteq Nat \ {0}
    /\ Datagrams \subseteq Datagram
    /\ DOMAIN KeyOf = Ssrcs
    /\ Wanted \in {KeyOf[s] : s \in Ssrcs}
    /\ Ended \in Ssrcs
    /\ InitConf \in BOOLEAN
    /\ Recording \in BOOLEAN
    /\ LossRate \in 0 .. 1000
    /\ ChanSize \in Nat \ {0}
    /\ BufferLen \in Nat

Keys == {KeyOf[s] : s \in Ssrcs}

VARIABLES
    published,    \* the streams the cloud has now
    seen,         \* the streams it ever had, whose packets may still arrive
    firstPkt,     \* local firstPkt of receiveRtp
    inited,       \* conf INIT
    bareKeys,     \* the keys the cloud gives that are not app/channel
    ports,        \* where QUIC_ADDR and API_ADDR come from
    publishers,   \* App.Publishers; {} also when it is nil
    keySsrcMap,   \* App.KeySsrcMap; 0 if there is no entry
    rtpQueueMap,  \* App.RtpQueueMap: index of the queue; 0 if there is none
    queues,       \* every queue made: its stream, record file open, Ssrc = 0,
                  \* backlog of InChan, startTime known
    pc,           \* where receiveRtp is
    ssrc,         \* the stream of the packet it is handling; 0 without one
    rtpQueue,     \* the queue it found or made; 0 without one
    reply,        \* the answer to its request to the cloud, until it is stored
    alive,        \* where CheckAlive is
    aliveReply,   \* the answer to its request
    todo,         \* the streams its loop has still to visit
    closing,      \* the queue it is about to close (local rtpQueue); 0 without one
    conn,         \* where each client's handler is
    asked,        \* local ssrc of HandleNewFlvWriterRequest
    crashed,      \* a panic has ended the process
    disturbed     \* a stream ended, a poll failed, or CheckAlive stored an
                  \* answer that a publication had overtaken

cloudVars == <<published, seen>>
confVars == <<firstPkt, inited, ports, bareKeys>>
mapVars == <<publishers, keySsrcMap, rtpQueueMap, queues>>
mainVars == <<pc, ssrc, rtpQueue, reply>>
aliveVars == <<alive, aliveReply, todo, closing>>
connVars == <<conn, asked>>
endVars == <<crashed, disturbed>>
vars ==
    <<cloudVars, confVars, mapVars, mainVars, aliveVars, connVars, endVars>>

-----------------------------------------------------------------------------
(* The cloud.  A key has one publisher at a time. *)

Publish(s) ==
    /\ ~crashed
    /\ \A t \in published : KeyOf[t] # KeyOf[s]
    /\ published' = published \cup {s}
    /\ seen' = seen \cup {s}
    /\ UNCHANGED <<confVars, mapVars, mainVars, aliveVars, connVars, endVars>>

Unpublish(s) ==
    /\ ~crashed
    /\ s \in published
    /\ published' = published \ {s}
    /\ disturbed' = TRUE
    /\ UNCHANGED <<seen, confVars, mapVars, mainVars, aliveVars, connVars,
                   crashed>>

\* UpdatePublishers: the streams of this moment, or nil when the request fails
\* or the cloud has no list.
Polled == {published, {}}

\* The goroutine of queue q has a packet to work on.
HasWork(q) == queues[q].backlog > 0

\* It can be at the first getDelay, which looks the start of the stream up.
Polls(q) == HasWork(q) /\ ~queues[q].timed

\* A panic that nobody recovers ends the process, and with it the handlers.
ProcessEnds ==
    /\ crashed' = TRUE
    /\ conn' = [c \in Clients |-> "idle"]
    /\ asked' = [c \in Clients |-> 0]
    /\ UNCHANGED <<cloudVars, confVars, mapVars, mainVars, aliveVars>>

\* A poll of handleNewStream, CheckAlive or getDelay that fails otherwise panics:
\* the body cannot be read, it is no JSON, or a field is missing or has another
\* type.  Nobody recovers.
PollPanics ==
    /\ ~crashed
    /\ \/ pc = "request"
       \/ alive = "sleep" /\ inited
       \/ \E q \in DOMAIN queues : Polls(q)
    /\ ProcessEnds
    /\ disturbed' = TRUE

-----------------------------------------------------------------------------
(* receiveRtp, handleNewPacket, handleNewStream. *)

\* The cloud's port message, which is looked for in the first datagram only.  Its
\* length is compared with the buffer's; as an RTP packet it is too short.
ReceiveInit ==
    /\ ~crashed
    /\ pc = "recv"
    /\ firstPkt
    /\ firstPkt' = FALSE
    /\ IF BufferLen = InitLen
       THEN inited' = TRUE /\ ports' = "cloud"
       ELSE UNCHANGED <<inited, ports>>
    /\ UNCHANGED <<cloudVars, bareKeys, mapVars, mainVars, aliveVars, connVars,
                   endVars>>

\* A datagram that IsPacketLoss drops, or that is no packet for Parse.
ReceiveNothing(d) ==
    /\ ~crashed
    /\ pc = "recv"
    /\ Parses(d) => LossRate > 0
    /\ firstPkt' = FALSE
    /\ UNCHANGED <<cloudVars, inited, ports, bareKeys, mapVars, mainVars, aliveVars,
                   connVars, endVars>>

\* A packet of a stream that has a queue, or of a new one (within the bound).
Receive(s, d) ==
    /\ ~crashed
    /\ pc = "recv"
    /\ s \in seen
    /\ Parses(d)
    /\ rtpQueueMap[s] # 0 \/ Len(queues) < MaxQueues
    /\ firstPkt' = FALSE
    /\ ssrc' = s
    /\ rtpQueue' = rtpQueueMap[s]
    /\ pc' = IF rtpQueueMap[s] = 0 THEN "request" ELSE "send"
    /\ UNCHANGED <<cloudVars, inited, ports, bareKeys, mapVars, reply, aliveVars,
                   connVars, endVars>>

NewStreamRequest ==
    /\ ~crashed
    /\ pc = "request"
    /\ reply' \in Polled
    /\ disturbed' = (disturbed \/ reply' # published)
    /\ pc' = "assign"
    /\ UNCHANGED <<cloudVars, confVars, mapVars, ssrc, rtpQueue, aliveVars,
                   connVars, crashed>>

\* Mutant of NewStreamAssign: the answer is not stored.
NewStreamAssignLost ==
    /\ ~crashed
    /\ pc = "assign"
    /\ reply' = {}
    /\ pc' = "lookup"
    /\ UNCHANGED <<cloudVars, confVars, mapVars, ssrc, rtpQueue, aliveVars,
                   connVars, endVars>>

NewStreamAssign ==
    /\ ~crashed
    /\ pc = "assign"
    /\ publishers' = reply
    /\ reply' = {}
    /\ pc' = "lookup"
    /\ UNCHANGED <<cloudVars, confVars, keySsrcMap, rtpQueueMap, queues, ssrc,
                   rtpQueue, aliveVars, connVars, endVars>>

\* The key is read from App.Publishers and mapped to the stream.
NewStreamKey ==
    /\ ~crashed
    /\ pc = "lookup"
    /\ ssrc \in publishers
    /\ keySsrcMap' = [keySsrcMap EXCEPT ![KeyOf[ssrc]] = ssrc]
    /\ pc' = "register"
    /\ UNCHANGED <<cloudVars, confVars, publishers, rtpQueueMap, queues, ssrc,
                   rtpQueue, reply, aliveVars, connVars, endVars>>

\* There is no entry for the stream: a nil pointer is dereferenced.
NewStreamPanics ==
    /\ ~crashed
    /\ pc = "lookup"
    /\ ssrc \notin publishers
    /\ ProcessEnds
    /\ UNCHANGED disturbed

\* The key has no second part to name the channel: the index is out of range.
NewStreamNoChannel ==
    /\ ~crashed
    /\ pc = "register"
    /\ KeyOf[ssrc] \in bareKeys
    /\ ProcessEnds
    /\ UNCHANGED disturbed

NewQueue(s) == [ssrc |-> s, fileOpen |-> Recording, closed |-> FALSE,
                backlog |-> 0, timed |-> FALSE]

\* CheckAlive is in its range loop over RtpQueueMap.
Ranging == alive \notin {"sleep", "assign"}

\* NewQueue, the entry in RtpQueueMap and the goroutines of the queue.  A range
\* loop over the map may or may not meet the new entry.
NewStreamQueue ==
    /\ ~crashed
    /\ pc = "register"
    /\ KeyOf[ssrc] \notin bareKeys
    /\ queues' = Append(queues, NewQueue(ssrc))
    /\ rtpQueueMap' = [rtpQueueMap EXCEPT ![ssrc] = Len(queues) + 1]
    /\ rtpQueue' = Len(queues) + 1
    /\ pc' = "send"
    /\ todo' \in {todo, IF Ranging THEN todo \cup {ssrc} ELSE todo}
    /\ UNCHANGED <<cloudVars, confVars, publishers, keySsrcMap, ssrc, reply,
                   alive, aliveReply, closing, connVars, endVars>>

\* Mutant of SendToQueue: the channel has no limit.
SendToQueueUnbounded ==
    /\ ~crashed
    /\ pc = "send"
    /\ queues' = [queues EXCEPT ![rtpQueue].backlog = @ + 1]
    /\ pc' = "recv"
    /\ ssrc' = 0
    /\ rtpQueue' = 0
    /\ UNCHANGED <<cloudVars, confVars, publishers, keySsrcMap, rtpQueueMap,
                   reply, aliveVars, connVars, endVars>>

\* The send on InChan blocks while the channel is full.
SendToQueue ==
    /\ ~crashed
    /\ pc = "send"
    /\ queues[rtpQueue].backlog < ChanSize
    /\ queues' = [queues EXCEPT ![rtpQueue].backlog = @ + 1]
    /\ pc' = "recv"
    /\ ssrc' = 0
    /\ rtpQueue' = 0
    /\ UNCHANGED <<cloudVars, confVars, publishers, keySsrcMap, rtpQueueMap,
                   reply, aliveVars, connVars, endVars>>

-----------------------------------------------------------------------------
(* The RecvPacket goroutine of queue q, which goes on after Close. *)

Process(q) ==
    /\ ~crashed
    /\ HasWork(q)
    /\ queues' = [queues EXCEPT ![q].backlog = @ - 1]
    /\ UNCHANGED <<cloudVars, confVars, publishers, keySsrcMap, rtpQueueMap,
                   mainVars, aliveVars, connVars, endVars>>

\* A tag is finished after Close has closed the record file: WriteTagDirect
\* fails and CheckError panics.
ProcessPanics(q) ==
    /\ ~crashed
    /\ HasWork(q)
    /\ Recording
    /\ ~queues[q].fileOpen
    /\ ProcessEnds
    /\ UNCHANGED disturbed

\* getDelay, at every 400th tag: the first time it looks the start of the stream
\* up.  It polls the cloud but drops the answer; Publishers is what the others
\* stored last.
GetDelay(q) ==
    /\ ~crashed
    /\ Polls(q)
    /\ ~queues[q].closed
    /\ queues[q].ssrc \in publishers
    /\ queues' = [queues EXCEPT ![q].backlog = @ - 1, ![q].timed = TRUE]
    /\ UNCHANGED <<cloudVars, confVars, publishers, keySsrcMap, rtpQueueMap,
                   mainVars, aliveVars, connVars, endVars>>

\* The same for a stream that Publishers does not list, or whose Ssrc is 0
\* because it was closed: a nil pointer is dereferenced.
GetDelayPanics(q) ==
    /\ ~crashed
    /\ Polls(q)
    /\ queues[q].closed \/ queues[q].ssrc \notin publishers
    /\ ProcessEnds
    /\ UNCHANGED disturbed

-----------------------------------------------------------------------------
(* CheckAlive. *)

\* The timer fires.  Without INIT the loop goes back to sleep.
AliveRequest ==
    /\ ~crashed
    /\ alive = "sleep"
    /\ inited
    /\ aliveReply' \in Polled
    /\ disturbed' = (disturbed \/ aliveReply' # published)
    /\ alive' = "assign"
    /\ UNCHANGED <<cloudVars, confVars, mapVars, mainVars, todo, closing,
                   connVars, crashed>>

\* Mutant of AliveAssign: the loop goes over the published streams.
AliveAssignPublished ==
    /\ ~crashed
    /\ alive = "assign"
    /\ publishers' = aliveReply
    /\ aliveReply' = {}
    /\ disturbed' = (disturbed \/ aliveReply # published)
    /\ todo' = {s \in aliveReply : rtpQueueMap[s] # 0}
    /\ alive' = "loop"
    /\ UNCHANGED <<cloudVars, confVars, keySsrcMap, rtpQueueMap, queues,
                   mainVars, closing, connVars, crashed>>

\* The answer is stored and the loop over RtpQueueMap starts.
AliveAssign ==
    /\ ~crashed
    /\ alive = "assign"
    /\ publishers' = aliveReply
    /\ aliveReply' = {}
    /\ disturbed' = (disturbed \/ aliveReply # published)
    /\ todo' = {s \in Ssrcs : rtpQueueMap[s] # 0}
    /\ alive' = "loop"
    /\ UNCHANGED <<cloudVars, confVars, keySsrcMap, rtpQueueMap, queues,
                   mainVars, closing, connVars, crashed>>

\* One round of the loop: App.Publishers is read and, for a stream it does not
\* list, RtpQueueMap, whose entry nobody else takes away.
AliveVisit(s) ==
    /\ ~crashed
    /\ alive = "loop"
    /\ s \in todo
    /\ todo' = todo \ {s}
    /\ IF s \in publishers
       THEN UNCHANGED <<alive, closing>>
       ELSE alive' = "key" /\ closing' = rtpQueueMap[s]
    /\ UNCHANGED <<cloudVars, confVars, mapVars, mainVars, aliveReply, connVars,
                   endVars>>

\* Mutant of AliveDeleteKey: the key stays mapped.
AliveKeepsKey ==
    /\ ~crashed
    /\ alive = "key"
    /\ alive' = "queue"
    /\ UNCHANGED <<cloudVars, confVars, mapVars, mainVars, aliveReply, todo,
                   closing, connVars, endVars>>

\* The entry of the queue's key goes, whichever stream it is for.
AliveDeleteKey ==
    /\ ~crashed
    /\ alive = "key"
    /\ keySsrcMap' = [keySsrcMap EXCEPT ![KeyOf[queues[closing].ssrc]] = 0]
    /\ alive' = "queue"
    /\ UNCHANGED <<cloudVars, confVars, publishers, rtpQueueMap, queues,
                   mainVars, aliveReply, todo, closing, connVars, endVars>>

\* From now on a packet of the stream makes a new queue, while this one is
\* still open.
AliveDeleteQueue ==
    /\ ~crashed
    /\ alive = "queue"
    /\ rtpQueueMap' = [rtpQueueMap EXCEPT ![queues[closing].ssrc] = 0]
    /\ alive' = "file"
    /\ UNCHANGED <<cloudVars, confVars, publishers, keySsrcMap, queues,
                   mainVars, aliveReply, todo, closing, connVars, endVars>>

\* Queue.Close: the record file, then Ssrc.
AliveCloseFile ==
    /\ ~crashed
    /\ alive = "file"
    /\ queues' = [queues EXCEPT ![closing].fileOpen = FALSE]
    /\ alive' = "ssrc"
    /\ UNCHANGED <<cloudVars, confVars, publishers, keySsrcMap, rtpQueueMap,
                   mainVars, aliveReply, todo, closing, connVars, endVars>>

\* Mutant of AliveCloseSsrc: the queue is looked up again.
AliveCloseLookedUp ==
    /\ ~crashed
    /\ alive = "ssrc"
    /\ LET q == rtpQueueMap[queues[closing].ssrc]
       IN  queues' = IF q = 0 THEN queues
                              ELSE [queues EXCEPT ![q].closed = TRUE]
    /\ alive' = "loop"
    /\ closing' = 0
    /\ UNCHANGED <<cloudVars, confVars, publishers, keySsrcMap, rtpQueueMap,
                   mainVars, aliveReply, todo, connVars, endVars>>

\* CloseQuic, which follows, has no effect on the registry.
AliveCloseSsrc ==
    /\ ~crashed
    /\ alive = "ssrc"
    /\ queues' = [queues EXCEPT ![closing].closed = TRUE]
    /\ alive' = "loop"
    /\ closing' = 0
    /\ UNCHANGED <<cloudVars, confVars, publishers, keySsrcMap, rtpQueueMap,
                   mainVars, aliveReply, todo, connVars, endVars>>

AliveDone ==
    /\ ~crashed
    /\ alive = "loop"
    /\ todo = {}
    /\ alive' = "sleep"
    /\ UNCHANGED <<cloudVars, confVars, mapVars, mainVars, aliveReply, todo,
                   closing, connVars, endVars>>

-----------------------------------------------------------------------------
(* handleConn of client c. *)

\* HasChannel: no entry, no stream.
Ask(c) ==
    /\ ~crashed
    /\ conn[c] = "idle"
    /\ keySsrcMap[Wanted] # 0
    /\ conn' = [conn EXCEPT ![c] = "found"]
    /\ UNCHANGED <<cloudVars, confVars, mapVars, mainVars, aliveVars, asked,
                   endVars>>

\* HandleNewFlvWriterRequest reads the key's entry again; 0 without one ...
ReadSsrc(c) ==
    /\ ~crashed
    /\ conn[c] = "found"
    /\ asked' = [asked EXCEPT ![c] = keySsrcMap[Wanted]]
    /\ conn' = [conn EXCEPT ![c] = "lookup"]
    /\ UNCHANGED <<cloudVars, confVars, mapVars, mainVars, aliveVars, endVars>>

\* ... and then that of the stream.  To the registry it is the same whether the
\* writer is added to a queue or there is none, which panics and is recovered by
\* handleConn: the next client has the handler's place.
Attach(c) ==
    /\ ~crashed
    /\ conn[c] = "lookup"
    /\ conn' = [conn EXCEPT ![c] = "idle"]
    /\ asked' = [asked EXCEPT ![c] = 0]
    /\ UNCHANGED <<cloudVars, confVars, mapVars, mainVars, aliveVars, endVars>>

-----------------------------------------------------------------------------
Init ==
    /\ published = {}
    /\ seen = {}
    /\ firstPkt = TRUE
    /\ inited = InitConf
    /\ ports = "local"
    /\ bareKeys \in SUBSET Keys
    /\ publishers = {}
    /\ keySsrcMap = [k \in Keys |-> 0]
    /\ rtpQueueMap = [s \in Ssrcs |-> 0]
    /\ queues = <<>>
    /\ pc = "recv"
    /\ ssrc = 0
    /\ rtpQueue = 0
    /\ reply = {}
    /\ alive = "sleep"
    /\ aliveReply = {}
    /\ todo = {}
    /\ closing = 0
    /\ conn = [c \in Clients |-> "idle"]
    /\ asked = [c \in Clients |-> 0]
    /\ crashed = FALSE
    /\ disturbed = FALSE

NewStream ==
    \/ NewStreamRequest
    \/ NewStreamAssign
    \/ NewStreamKey
    \/ NewStreamPanics
    \/ NewStreamNoChannel
    \/ NewStreamQueue

CheckAlive ==
    \/ AliveRequest
    \/ AliveAssign
    \/ \E s \in Ssrcs : AliveVisit(s)
    \/ AliveDeleteKey
    \/ AliveDeleteQueue
    \/ AliveCloseFile
    \/ AliveCloseSsrc
    \/ AliveDone

\* Mutant of RecvPacket: the goroutine ends with its stream.
RecvPacketOpenOnly(q) == ~queues[q].closed /\ (Process(q) \/ GetDelay(q))

RecvPacket(q) ==
    \/ Process(q)
    \/ ProcessPanics(q)
    \/ GetDelay(q)
    \/ GetDelayPanics(q)

Handler(c) ==
    \/ Ask(c)
    \/ ReadSsrc(c)
    \/ Attach(c)

Next ==
    \/ \E s \in Ssrcs : Publish(s) \/ Unpublish(s)
    \/ PollPanics
    \/ \E d \in Datagrams :
          ReceiveNothing(d) \/ \E s \in Ssrcs : Receive(s, d)
    \/ ReceiveInit
    \/ NewStream
    \/ SendToQueue
    \/ \E q \in DOMAIN queues : RecvPacket(q)
    \/ CheckAlive
    \/ \E c \in Clients : Handler(c)

Spec == Init /\ [][Next]_vars

\* The receiver, once it has a packet, and CheckAlive keep running: its timer
\* fires, and a request to the cloud is answered or times out.  The network owes
\* nothing, nor do the goroutines of the queues, which write to clients.
FairSpec ==
    /\ Spec
    /\ WF_vars(NewStream \/ SendToQueue)
    /\ WF_vars(CheckAlive)

-----------------------------------------------------------------------------
(* Properties. *)

QueueState == [ssrc : Ssrcs, fileOpen : BOOLEAN, closed : BOOLEAN,
               backlog : 0 .. ChanSize, timed : BOOLEAN]

\* Every variable has the type of the Go variable it models; a packet that is
\* handled has a stream, and one that is sent has a queue, as has CheckAlive
\* when it closes one.
TypeOK ==
    /\ published \subseteq Ssrcs
    /\ seen \subseteq Ssrcs
    /\ publishers \subseteq Ssrcs
    /\ keySsrcMap \in [Keys -> Ssrcs \cup {0}]
    /\ rtpQueueMap \in [Ssrcs -> 0 .. Len(queues)]
    /\ queues \in Seq(QueueState)
    /\ pc \in {"recv", "request", "assign", "lookup", "register", "send"}
    /\ pc # "recv" => ssrc \in Ssrcs
    /\ pc = "send" => rtpQueue \in DOMAIN queues
    /\ reply \subseteq Ssrcs
    /\ alive \in {"sleep", "assign", "loop", "key", "queue", "file", "ssrc"}
    /\ aliveReply \subseteq Ssrcs
    /\ todo \subseteq Ssrcs
    /\ IF alive \in {"key", "queue", "file", "ssrc"}
       THEN closing \in DOMAIN queues
       ELSE closing = 0
    /\ conn \in [Clients -> {"idle", "found", "lookup"}]
    /\ asked \in [Clients -> Ssrcs \cup {0}]

HasQueue(s) == s # 0 /\ rtpQueueMap[s] # 0

\* handleNewStream is between its two map entries.
Registering(s) == pc = "register" /\ ssrc = s

EntriesResolve ==
    \A k \in Keys :
        LET s == keySsrcMap[k] IN s # 0 => HasQueue(s) \/ Registering(s)

HandlersResolve ==
    \A c \in Clients :
        conn[c] = "lookup" =>
            HasQueue(asked[c]) \/ Registering(asked[c]) \/ disturbed

\* Unless handleNewStream is at the stream, an entry of KeySsrcMap leads to a
\* queue at any moment: CheckAlive takes the two entries away in an order, and
\* from such streams, that no dangling one is left.  A handler, which reads the
\* entries one after the other, finds the second one too and does not panic,
\* unless something disturbed the registry.
KeysResolve == EntriesResolve /\ HandlersResolve

\* CheckAlive has taken queue q out of RtpQueueMap but not closed it yet.
Leaving(q) == closing = q /\ alive \in {"file", "ssrc"}

\* No queue is lost open and none is closed under its stream, also when packets
\* of the stream make a new queue while CheckAlive closes the old one: the open
\* queues are those in RtpQueueMap and the one CheckAlive is about to close.
OpenQueuesTracked ==
    \A q \in DOMAIN queues :
        ~queues[q].closed <=> (rtpQueueMap[queues[q].ssrc] = q \/ Leaving(q))

\* The comment in handleNewStream: key and ssrc are mapped so that the stream
\* can be played.  When neither goroutine is at work, a published stream with a
\* queue is found under its key.
PlayableByKey ==
    pc = "recv" /\ alive = "sleep" =>
        \A s \in published :
            rtpQueueMap[s] # 0 => keySsrcMap[KeyOf[s]] # 0

\* The answer of the cloud has a key that is no app/channel.
BadKey == pc = "register" /\ KeyOf[ssrc] \in bareKeys

\* As long as streams go on, polls are answered and no publication overtakes an
\* answer of CheckAlive, no stream is closed, and nobody dereferences a missing
\* entry of App.Publishers or writes to a closed file: a late join, an answer of
\* handleNewStream that is old, or any order of the goroutines is not enough.
PanicNeedsDisturbance ==
    /\ crashed => disturbed \/ BadKey
    /\ (\E q \in DOMAIN queues : queues[q].closed) => disturbed

Removed == rtpQueueMap[Ended] = 0 \/ Ended \in published \/ crashed

\* What CheckAlive is for (main.go: to look whether streams have ended): an ended
\* stream is removed, unless the cloud publishes it again.
EndedStreamRemoved == Ended \notin published ~> Removed

\* The same once INIT is set: neither failing polls nor packets that make new
\* queues keep CheckAlive from removing an ended stream.
RemovedOnceInited == inited /\ Ended \notin published ~> Removed

\* The goroutine of queue q keeps running: no write to a client holds it for ever.
Runs(q) == WF_vars(q \in DOMAIN queues /\ RecvPacket(q))

\* receiveRtp gets back to its socket, also when the stream it has a packet for
\* is closed in the meantime, as long as all queues keep running: one that is
\* stuck stops the receiver, and with it every stream, once its channel is full.
ReceiverReturns ==
    (\A q \in 1 .. MaxQueues : Runs(q)) =>
        (pc # "recv" ~> (pc = "recv" \/ crashed))

=============================================================================
