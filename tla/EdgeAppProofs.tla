---------------------------- MODULE EdgeAppProofs ---------------------------
(***************************************************************************)
(* The registry, for every set of streams, keys, clients and datagrams and *)
(* for any number of queues: its maps agree, and it panics only after a    *)
(* disturbance.  First the parser of its datagrams: the slice expression   *)
(* of Parser.Parse, rtpBytes[offset:end], and the index rtpBytes[end-1]    *)
(* are in range for every datagram, and a packet has a payload.            *)
(***************************************************************************)
EXTENDS EdgeApp, SequenceTheorems, TLAPS

-----------------------------------------------------------------------------
(* Inductive invariants. *)

\* An entry of RtpQueueMap is a queue of its stream; handleNewStream works on a
\* stream without one, the loop of CheckAlive on streams with one; and an entry of
\* KeySsrcMap is a stream of that key.
MapsAgree ==
    /\ \A s \in Ssrcs :
          rtpQueueMap[s] # 0 => queues[rtpQueueMap[s]].ssrc = s
    /\ pc \in {"request", "assign", "lookup", "register"} =>
          rtpQueueMap[ssrc] = 0
    /\ \A s \in todo : rtpQueueMap[s] # 0
    /\ \A k \in Keys :
          keySsrcMap[k] # 0 => KeyOf[keySsrcMap[k]] = k

\* CheckAlive closes the queue its stream has in RtpQueueMap, which it takes away
\* itself, after the entry of the key.
ClosingInv ==
    /\ alive \in {"key", "queue"} =>
          /\ rtpQueueMap[queues[closing].ssrc] = closing
          /\ queues[closing].ssrc \notin todo
    /\ alive = "queue" =>
          keySsrcMap[KeyOf[queues[closing].ssrc]] # queues[closing].ssrc
    /\ alive \in {"file", "ssrc"} =>
          rtpQueueMap[queues[closing].ssrc] # closing

RegistryInv == MapsAgree /\ ClosingInv /\ OpenQueuesTracked /\ EntriesResolve

\* The streams that have a queue.
Served == {queues[q].ssrc : q \in DOMAIN queues}

\* As long as nothing disturbs it, every answer and App.Publishers list the
\* streams that have a queue and the one handleNewStream is at, and no queue is or
\* gets closed ...
CalmStreams ==
    ~disturbed =>
        /\ crashed => BadKey
        /\ seen \subseteq published
        /\ Served \subseteq published \cap publishers
        /\ \A q \in DOMAIN queues : ~queues[q].closed
        /\ \A q \in DOMAIN queues : queues[q].fileOpen = Recording
        /\ pc # "recv" => ssrc \in published
        /\ pc = "assign" => Served \cup {ssrc} \subseteq reply
        /\ pc \in {"lookup", "register"} => ssrc \in publishers
        /\ alive \in {"sleep", "assign", "loop"}

\* ... so what a handler has found stays.
CalmHandlers ==
    ~disturbed =>
        \A c \in Clients :
            /\ conn[c] = "found" => keySsrcMap[Wanted] # 0
            /\ conn[c] = "lookup" => HasQueue(asked[c]) \/ Registering(asked[c])

-----------------------------------------------------------------------------
(* The parser. *)

\* Passing over a field never leaves the datagram.
LEMMA SkippedInside ==
    ASSUME NEW offset \in Nat, NEW end \in Nat, NEW n \in Nat, offset <= end
    PROVE  /\ Skipped(offset, end, n) \in Nat
           /\ offset <= Skipped(offset, end, n)
           /\ Skipped(offset, end, n) <= end
  BY DEF Skipped

\* The payload starts inside a datagram that has a whole fixed header.
LEMMA OffsetInside ==
    ASSUME NEW d \in Datagram, d.len >= RTP_FIXED_HEADER_LENGTH
    PROVE  /\ PayloadOffset(d) \in Nat
           /\ RTP_FIXED_HEADER_LENGTH <= PayloadOffset(d)
           /\ PayloadOffset(d) <= d.len
<1> DEFINE c == AfterCsrc(d)
<1>1. /\ d.len \in Nat
      /\ 4 * d.csrcCnt \in Nat
      /\ 4 * d.extWords \in Nat
  BY DEF Datagram
<1>2. c \in Nat /\ RTP_FIXED_HEADER_LENGTH <= c /\ c <= d.len
  BY <1>1, SkippedInside DEF AfterCsrc, RTP_FIXED_HEADER_LENGTH
<1>3. CASE d.extension /\ d.len - c >= 4
  <2> DEFINE s == Skipped(c + 4, d.len, 4 * d.extWords)
  <2>1. c + 4 \in Nat /\ c + 4 <= d.len
    BY <1>1, <1>2, <1>3
  <2>2. s \in Nat /\ c + 4 <= s /\ s <= d.len
    <3> HIDE DEF c
    <3> QED BY <1>1, <2>1, SkippedInside
  <2>3. PayloadOffset(d) = s
    BY <1>3 DEF PayloadOffset
  <2> HIDE DEF s, c
  <2> QED BY <1>2, <2>1, <2>2, <2>3 DEF RTP_FIXED_HEADER_LENGTH
<1>4. CASE ~(d.extension /\ d.len - c >= 4)
  <2>1. PayloadOffset(d) = c
    BY <1>4 DEF PayloadOffset
  <2> QED BY <1>2, <2>1
<1> QED BY <1>3, <1>4

\* For every datagram with a whole fixed header, whatever its counts and
\* lengths say, the bounds of the payload's slice are in range (0 <= offset <=
\* end <= len), and a packet that Parse returns has a payload behind its header.
THEOREM PayloadInside ==
    ASSUME NEW d \in Datagram, d.len >= RTP_FIXED_HEADER_LENGTH
    PROVE  /\ RTP_FIXED_HEADER_LENGTH <= PayloadOffset(d)
           /\ PayloadOffset(d) <= PayloadEnd(d)
           /\ PayloadEnd(d) <= d.len
           /\ Parses(d) => PayloadOffset(d) < PayloadEnd(d)
<1>1. d.len \in Nat /\ d.lastByte \in Nat
  BY DEF Datagram
<1>2. /\ PayloadOffset(d) \in Nat
      /\ RTP_FIXED_HEADER_LENGTH <= PayloadOffset(d)
      /\ PayloadOffset(d) <= d.len
  BY OffsetInside
<1>3. /\ PayloadEnd(d) \in Nat
      /\ PayloadOffset(d) <= PayloadEnd(d)
      /\ PayloadEnd(d) <= d.len
  BY <1>1, <1>2 DEF PayloadEnd
<1>4. Parses(d) => PayloadOffset(d) < PayloadEnd(d)
  BY <1>2, <1>3 DEF Parses
<1> QED BY <1>2, <1>3, <1>4

\* A datagram of the cloud, without optional fields, parses to everything behind
\* its fixed header.
THEOREM PlainPayload ==
    ASSUME NEW d \in Datagram, d.len > RTP_FIXED_HEADER_LENGTH,
           d.csrcCnt = 0, ~d.extension, ~d.padding
    PROVE  /\ Parses(d)
           /\ PayloadOffset(d) = RTP_FIXED_HEADER_LENGTH
           /\ PayloadEnd(d) = d.len
<1>1. d.len \in Nat
  BY DEF Datagram
<1>2. AfterCsrc(d) = RTP_FIXED_HEADER_LENGTH
  BY <1>1 DEF AfterCsrc, Skipped, RTP_FIXED_HEADER_LENGTH
<1>3. PayloadOffset(d) = RTP_FIXED_HEADER_LENGTH /\ PayloadEnd(d) = d.len
  BY <1>2 DEF PayloadOffset, PayloadEnd
<1> QED BY <1>1, <1>3 DEF Parses, RTP_FIXED_HEADER_LENGTH

-----------------------------------------------------------------------------
(* Queues. *)

\* What TypeOK says of the queues, element by element.
LEMMA QueuesType ==
    ASSUME TypeOK
    PROVE  /\ Len(queues) \in Nat
           /\ DOMAIN queues = 1 .. Len(queues)
           /\ \A q \in 1 .. Len(queues) : queues[q] \in QueueState
  BY DEF TypeOK

\* A step that changes one queue at most in its fields, and all else not at all,
\* keeps the number of queues.
LEMMA QueueUpdate ==
    ASSUME TypeOK, NEW q \in DOMAIN queues, NEW r \in QueueState,
           queues' = [queues EXCEPT ![q] = r]
    PROVE  /\ queues' \in Seq(QueueState)
           /\ Len(queues') = Len(queues)
           /\ DOMAIN queues' = DOMAIN queues
           /\ queues'[q] = r
           /\ \A p \in DOMAIN queues : p # q => queues'[p] = queues[p]
  BY DEF TypeOK

-----------------------------------------------------------------------------
(* Types. *)

\* A panic that ends the process.
LEMMA ProcessEndsType ==
    ASSUME TypeOK, ProcessEnds
    PROVE  TypeOK'
  BY DEF ProcessEnds, TypeOK, cloudVars, mapVars, mainVars, aliveVars

LEMMA CloudType ==
    ASSUME TypeOK, NEW s \in Ssrcs, Publish(s) \/ Unpublish(s)
    PROVE  TypeOK'
  BY DEF Publish, Unpublish, TypeOK, confVars, mapVars, mainVars, aliveVars,
         connVars

LEMMA MainType ==
    ASSUME TypeOK, NewStream
    PROVE  TypeOK'
<1>1. CASE NewStreamRequest
  BY <1>1 DEF NewStreamRequest, Polled, TypeOK, cloudVars, mapVars, aliveVars,
               connVars
<1>2. CASE NewStreamAssign
  BY <1>2 DEF NewStreamAssign, TypeOK, cloudVars, aliveVars, connVars
<1>3. CASE NewStreamKey
  BY <1>3, RegistryAssumption DEF NewStreamKey, TypeOK, Keys, cloudVars, aliveVars,
                                   connVars
<1>4. CASE NewStreamPanics \/ NewStreamNoChannel
  BY <1>4, ProcessEndsType DEF NewStreamPanics, NewStreamNoChannel
<1>5. CASE NewStreamQueue
  <2> DEFINE r == NewQueue(ssrc)
  <2>1. ssrc \in Ssrcs
    BY <1>5 DEF NewStreamQueue, TypeOK
  <2>2. r \in QueueState
    BY <2>1, RegistryAssumption DEF NewQueue, QueueState
  <2>3. queues' = Append(queues, r)
    BY <1>5 DEF NewStreamQueue
  <2> HIDE DEF r
  <2>4. /\ queues' \in Seq(QueueState)
        /\ Len(queues') = Len(queues) + 1
        /\ DOMAIN queues' = 1 .. Len(queues) + 1
    BY <2>2, <2>3 DEF TypeOK
  <2>5. rtpQueueMap' \in [Ssrcs -> 0 .. Len(queues')]
    BY <1>5, <2>1, <2>4, QueuesType DEF NewStreamQueue, TypeOK
  <2>6. rtpQueue' \in DOMAIN queues'
    BY <1>5, <2>4, QueuesType DEF NewStreamQueue
  <2>7. todo' \subseteq Ssrcs
    BY <1>5, <2>1 DEF NewStreamQueue, TypeOK
  <2>8. IF alive' \in {"key", "queue", "file", "ssrc"}
        THEN closing' \in DOMAIN queues'
        ELSE closing' = 0
    BY <1>5, <2>4, QueuesType DEF NewStreamQueue, TypeOK
  <2> QED BY <1>5, <2>4, <2>5, <2>6, <2>7, <2>8
          DEF NewStreamQueue, TypeOK, cloudVars, connVars
<1> QED BY <1>1, <1>2, <1>3, <1>4, <1>5 DEF NewStream

\* The receiver outside handleNewStream.
LEMMA ReceiverType ==
    ASSUME TypeOK,
           \/ \E d \in Datagrams :
                 ReceiveNothing(d) \/ \E s \in Ssrcs : Receive(s, d)
           \/ ReceiveInit
           \/ SendToQueue
    PROVE  TypeOK'
<1>1. ASSUME NEW d \in Datagrams, ReceiveNothing(d) PROVE TypeOK'
  BY <1>1 DEF ReceiveNothing, TypeOK, cloudVars, mapVars, mainVars, aliveVars, connVars
<1>2. ASSUME NEW d \in Datagrams, NEW s \in Ssrcs, Receive(s, d) PROVE TypeOK'
  BY <1>2, QueuesType DEF Receive, TypeOK, cloudVars, mapVars, aliveVars,
                               connVars
<1>3. CASE ReceiveInit
  BY <1>3 DEF ReceiveInit, TypeOK, cloudVars, mapVars, mainVars, aliveVars, connVars
<1>4. CASE SendToQueue
  <2> DEFINE r == [queues[rtpQueue] EXCEPT !.backlog = @ + 1]
  <2>1. rtpQueue \in DOMAIN queues /\ queues[rtpQueue] \in QueueState
    BY <1>4, QueuesType DEF SendToQueue, TypeOK
  <2>2. queues[rtpQueue].backlog < ChanSize /\ ChanSize \in Nat
    BY <1>4, RegistryAssumption DEF SendToQueue
  <2>3. r \in QueueState
    BY <2>1, <2>2 DEF QueueState
  <2>4. queues' = [queues EXCEPT ![rtpQueue] = r]
    BY <1>4 DEF SendToQueue
  <2> HIDE DEF r
  <2>5. /\ queues' \in Seq(QueueState) /\ Len(queues') = Len(queues)
        /\ DOMAIN queues' = DOMAIN queues
    BY <2>1, <2>3, <2>4, QueueUpdate
  <2> QED BY <1>4, <2>5 DEF SendToQueue, TypeOK, cloudVars, aliveVars,
                                 connVars
<1> QED BY <1>1, <1>2, <1>3, <1>4

\* The goroutine of a queue takes a packet from its channel, or ends the process.
LEMMA RecvPacketEffect ==
    ASSUME TypeOK, NEW q \in DOMAIN queues, RecvPacket(q)
    PROVE  \/ UNCHANGED queues
           \/ \E r \in QueueState :
                 /\ r.ssrc = queues[q].ssrc
                 /\ r.closed = queues[q].closed
                 /\ r.fileOpen = queues[q].fileOpen
                 /\ queues' = [queues EXCEPT ![q] = r]
<1>1. queues[q] \in QueueState
  BY QueuesType
<1>2. CASE Process(q)
  <2> DEFINE r == [queues[q] EXCEPT !.backlog = @ - 1]
  <2>1. /\ r \in QueueState
        /\ r.ssrc = queues[q].ssrc /\ r.closed = queues[q].closed
        /\ r.fileOpen = queues[q].fileOpen
    BY <1>1, <1>2, RegistryAssumption DEF Process, HasWork, QueueState
  <2>2. queues' = [queues EXCEPT ![q] = r]
    BY <1>2 DEF Process
  <2> QED BY <2>1, <2>2
<1>3. CASE GetDelay(q)
  <2> DEFINE r == [queues[q] EXCEPT !.backlog = @ - 1, !.timed = TRUE]
  <2>1. /\ r \in QueueState
        /\ r.ssrc = queues[q].ssrc /\ r.closed = queues[q].closed
        /\ r.fileOpen = queues[q].fileOpen
    BY <1>1, <1>3, RegistryAssumption DEF GetDelay, Polls, HasWork, QueueState
  <2>2. queues' = [queues EXCEPT ![q] = r]
    BY <1>1, <1>3 DEF GetDelay
  <2> QED BY <2>1, <2>2
<1>4. CASE ProcessPanics(q) \/ GetDelayPanics(q)
  BY <1>4 DEF ProcessPanics, GetDelayPanics, ProcessEnds, mapVars
<1> QED BY <1>2, <1>3, <1>4 DEF RecvPacket

\* It changes nothing else, except that the handlers end with the process.
LEMMA RecvPacketFrame ==
    ASSUME NEW q, RecvPacket(q)
    PROVE  /\ UNCHANGED <<cloudVars, confVars, publishers, keySsrcMap,
                          rtpQueueMap, mainVars, aliveVars, disturbed>>
           /\ UNCHANGED connVars \/ ProcessEnds
  BY DEF RecvPacket, Process, ProcessPanics, GetDelay, GetDelayPanics,
         ProcessEnds, mapVars, endVars

LEMMA RecvPacketType ==
    ASSUME TypeOK, NEW q \in DOMAIN queues, RecvPacket(q)
    PROVE  TypeOK'
<1>1. queues' \in Seq(QueueState) /\ Len(queues') = Len(queues)
      /\ DOMAIN queues' = DOMAIN queues
  BY RecvPacketEffect, QueueUpdate, QueuesType DEF TypeOK
<1> QED BY <1>1, RecvPacketFrame, ProcessEndsType
        DEF TypeOK, cloudVars, mainVars, aliveVars, connVars

\* The steps of CheckAlive that change one queue: Queue.Close.
LEMMA CloseEffect ==
    ASSUME TypeOK, AliveCloseFile \/ AliveCloseSsrc
    PROVE  /\ closing \in DOMAIN queues
           /\ queues' \in Seq(QueueState)
           /\ Len(queues') = Len(queues) /\ DOMAIN queues' = DOMAIN queues
           /\ IF alive = "ssrc"
              THEN queues'[closing].closed
              ELSE queues'[closing].closed = queues[closing].closed
           /\ queues'[closing].ssrc = queues[closing].ssrc
           /\ \A p \in DOMAIN queues : p # closing => queues'[p] = queues[p]
<1>1. closing \in DOMAIN queues
  BY DEF AliveCloseFile, AliveCloseSsrc, TypeOK
<1>2. queues[closing] \in QueueState
  BY <1>1, QueuesType
<1>3. CASE AliveCloseFile
  <2> DEFINE r == [queues[closing] EXCEPT !.fileOpen = FALSE]
  <2>1. /\ r \in QueueState /\ r.closed = queues[closing].closed
        /\ r.ssrc = queues[closing].ssrc
    BY <1>2 DEF QueueState
  <2>2. queues' = [queues EXCEPT ![closing] = r]
    BY <1>3 DEF AliveCloseFile
  <2>3. alive = "file"
    BY <1>3 DEF AliveCloseFile
  <2> HIDE DEF r
  <2>4. /\ queues' \in Seq(QueueState)
        /\ Len(queues') = Len(queues) /\ DOMAIN queues' = DOMAIN queues
        /\ queues'[closing] = r
        /\ \A p \in DOMAIN queues : p # closing => queues'[p] = queues[p]
    BY <1>1, <2>1, <2>2, QueueUpdate
  <2> QED BY <1>1, <1>2, <2>1, <2>3, <2>4 DEF QueueState
<1>4. CASE AliveCloseSsrc
  <2> DEFINE r == [queues[closing] EXCEPT !.closed = TRUE]
  <2>1. /\ r \in QueueState /\ r.closed = TRUE
        /\ r.ssrc = queues[closing].ssrc
    BY <1>2 DEF QueueState
  <2>2. queues' = [queues EXCEPT ![closing] = r]
    BY <1>4 DEF AliveCloseSsrc
  <2> HIDE DEF r
  <2>3. /\ queues' \in Seq(QueueState)
        /\ Len(queues') = Len(queues) /\ DOMAIN queues' = DOMAIN queues
        /\ queues'[closing] = r
        /\ \A p \in DOMAIN queues : p # closing => queues'[p] = queues[p]
    BY <1>1, <2>1, <2>2, QueueUpdate
  <2>4. alive = "ssrc"
    BY <1>4 DEF AliveCloseSsrc
  <2> QED BY <1>1, <2>1, <2>3, <2>4
<1> QED BY <1>3, <1>4

LEMMA AliveType ==
    ASSUME TypeOK, MapsAgree, CheckAlive
    PROVE  TypeOK'
<1>1. CASE AliveRequest
  BY <1>1 DEF AliveRequest, Polled, TypeOK, cloudVars, mapVars, mainVars, connVars
<1>2. CASE AliveAssign
  BY <1>2 DEF AliveAssign, TypeOK, cloudVars, mainVars, connVars
<1>3. ASSUME NEW s \in Ssrcs, AliveVisit(s) PROVE TypeOK'
  <2>1. rtpQueueMap[s] \in DOMAIN queues
    BY <1>3, QueuesType DEF AliveVisit, MapsAgree, TypeOK
  <2> QED BY <1>3, <2>1
          DEF AliveVisit, TypeOK, cloudVars, mapVars, mainVars, connVars
<1>4. CASE AliveDeleteKey
  BY <1>4 DEF AliveDeleteKey, TypeOK, cloudVars, mainVars, connVars
<1>5. CASE AliveDeleteQueue
  <2>1. 0 \in 0 .. Len(queues)
    BY QueuesType
  <2>2. rtpQueueMap' \in [Ssrcs -> 0 .. Len(queues)]
    BY <1>5, <2>1 DEF AliveDeleteQueue, TypeOK
  <2> QED BY <1>5, <2>2 DEF AliveDeleteQueue, TypeOK, cloudVars, mainVars, connVars
<1>6. CASE AliveCloseFile
  BY <1>6, CloseEffect
     DEF AliveCloseFile, TypeOK, cloudVars, mainVars, connVars
<1>7. CASE AliveCloseSsrc
  BY <1>7, CloseEffect
     DEF AliveCloseSsrc, TypeOK, cloudVars, mainVars, connVars
<1>8. CASE AliveDone
  BY <1>8 DEF AliveDone, TypeOK, cloudVars, mapVars, mainVars, connVars
<1> QED BY <1>1, <1>2, <1>3, <1>4, <1>5, <1>6, <1>7, <1>8 DEF CheckAlive

LEMMA HandlerType ==
    ASSUME TypeOK, NEW c \in Clients, Handler(c)
    PROVE  TypeOK'
<1>1. Wanted \in Keys
  BY RegistryAssumption DEF Keys
<1>2. /\ conn' \in [Clients -> {"idle", "found", "lookup"}]
      /\ asked' \in [Clients -> Ssrcs \cup {0}]
  BY <1>1 DEF Handler, Ask, ReadSsrc, Attach, TypeOK
<1>3. UNCHANGED <<cloudVars, confVars, mapVars, mainVars, aliveVars>>
  BY DEF Handler, Ask, ReadSsrc, Attach
<1> QED BY <1>2, <1>3 DEF TypeOK, cloudVars, mapVars, mainVars, aliveVars

LEMMA NextType == TypeOK /\ MapsAgree /\ [Next]_vars => TypeOK'
<1> SUFFICES ASSUME TypeOK, MapsAgree, [Next]_vars PROVE TypeOK'
  OBVIOUS
<1>1. CASE UNCHANGED vars
  BY <1>1 DEF vars, TypeOK, cloudVars, mapVars, mainVars, aliveVars, connVars
<1>2. CASE PollPanics
  BY <1>2, ProcessEndsType DEF PollPanics
<1> QED BY <1>1, <1>2, CloudType, ReceiverType, MainType, RecvPacketType,
           AliveType, HandlerType DEF Next

-----------------------------------------------------------------------------
(* The maps. *)

\* Queues that keep their stream and whether they are closed.
SameStreams ==
    /\ DOMAIN queues' = DOMAIN queues
    /\ \A q \in DOMAIN queues :
          queues'[q].ssrc = queues[q].ssrc /\ queues'[q].closed = queues[q].closed

\* Queues that keep their record file too.
SameQueues ==
    /\ SameStreams
    /\ \A q \in DOMAIN queues : queues'[q].fileOpen = queues[q].fileOpen

LEMMA SendSameQueues ==
    ASSUME TypeOK, SendToQueue
    PROVE  SameQueues
<1> DEFINE r == [queues[rtpQueue] EXCEPT !.backlog = @ + 1]
<1>1. rtpQueue \in DOMAIN queues /\ queues[rtpQueue] \in QueueState
  BY QueuesType DEF SendToQueue, TypeOK
<1>2. /\ r.ssrc = queues[rtpQueue].ssrc /\ r.closed = queues[rtpQueue].closed
      /\ r.fileOpen = queues[rtpQueue].fileOpen
  BY <1>1 DEF QueueState
<1>3. queues' = [queues EXCEPT ![rtpQueue] = r]
  BY DEF SendToQueue
<1> HIDE DEF r
<1> QED BY <1>1, <1>2, <1>3 DEF SameQueues, SameStreams

LEMMA RecvPacketSameQueues ==
    ASSUME TypeOK, NEW q \in DOMAIN queues, RecvPacket(q)
    PROVE  SameQueues
  BY RecvPacketEffect, QueueUpdate DEF SameQueues, SameStreams

\* A step that leaves the maps alone and moves neither handleNewStream nor
\* CheckAlive, or only where it does not matter here.
LEMMA RegistryFrame ==
    ASSUME TypeOK, RegistryInv, SameStreams,
           UNCHANGED <<keySsrcMap, rtpQueueMap, todo, closing>>,
           \/ UNCHANGED alive
           \/ {alive, alive'} \subseteq {"sleep", "assign", "loop"}
           \/ {alive, alive'} \subseteq {"file", "ssrc"},
           \/ UNCHANGED <<pc, ssrc>>
           \/ pc' \in {"recv", "send"} /\ pc # "register"
           \/ pc' \in {"request", "assign", "lookup"} /\ pc # "register"
                 /\ rtpQueueMap[ssrc'] = 0
    PROVE  RegistryInv'
<1>1. \A s \in Ssrcs : rtpQueueMap[s] # 0 => rtpQueueMap[s] \in DOMAIN queues
  BY QueuesType DEF TypeOK
<1>2. MapsAgree'
  BY <1>1 DEF RegistryInv, MapsAgree, SameStreams
<1>3. ClosingInv'
  BY DEF RegistryInv, ClosingInv, SameStreams, TypeOK
<1>4. OpenQueuesTracked'
  BY DEF RegistryInv, OpenQueuesTracked, Leaving, SameStreams
<1>5. EntriesResolve'
  BY DEF RegistryInv, EntriesResolve, HasQueue, Registering
<1> QED BY <1>2, <1>3, <1>4, <1>5 DEF RegistryInv

\* The entry of the key, which has no queue yet.
LEMMA NewStreamKeyRegistry ==
    ASSUME TypeOK, RegistryInv, NewStreamKey
    PROVE  RegistryInv'
<1>1. /\ ssrc \in Ssrcs /\ KeyOf[ssrc] \in Keys
      /\ pc = "lookup" /\ pc' = "register"
      /\ keySsrcMap' = [keySsrcMap EXCEPT ![KeyOf[ssrc]] = ssrc]
      /\ UNCHANGED <<rtpQueueMap, queues, ssrc, todo, alive, closing>>
      /\ rtpQueueMap[ssrc] = 0
  BY DEF NewStreamKey, TypeOK, Keys, aliveVars, RegistryInv, MapsAgree
<1>2. MapsAgree'
  BY <1>1 DEF RegistryInv, MapsAgree, TypeOK
<1>3. ClosingInv'
  <2>1. alive = "queue" =>
          /\ closing \in DOMAIN queues
          /\ queues[closing].ssrc \in Ssrcs
          /\ queues[closing].ssrc # ssrc
    BY <1>1, QueuesType DEF RegistryInv, ClosingInv, TypeOK, QueueState
  <2>2. alive = "queue" => KeyOf[queues[closing].ssrc] \in Keys
    BY <2>1 DEF Keys
  <2>3. alive = "queue" =>
          keySsrcMap'[KeyOf[queues[closing].ssrc]] # queues[closing].ssrc
    BY <1>1, <2>1, <2>2 DEF RegistryInv, ClosingInv, TypeOK
  <2> QED BY <1>1, <2>3 DEF RegistryInv, ClosingInv
<1>4. OpenQueuesTracked'
  BY <1>1 DEF RegistryInv, OpenQueuesTracked, Leaving
<1>5. EntriesResolve'
  BY <1>1 DEF RegistryInv, EntriesResolve, HasQueue, Registering, TypeOK
<1> QED BY <1>2, <1>3, <1>4, <1>5 DEF RegistryInv

\* The queue and its entry.
LEMMA NewStreamQueueRegistry ==
    ASSUME TypeOK, RegistryInv, NewStreamQueue
    PROVE  RegistryInv'
<1> DEFINE n == Len(queues) + 1
           r == NewQueue(ssrc)
<1>1. /\ ssrc \in Ssrcs /\ pc = "register" /\ pc' = "send"
      /\ queues' = Append(queues, r)
      /\ rtpQueueMap' = [rtpQueueMap EXCEPT ![ssrc] = n]
      /\ todo' \subseteq todo \cup {ssrc}
      /\ UNCHANGED <<keySsrcMap, ssrc, alive, closing>>
      /\ rtpQueueMap[ssrc] = 0
  BY DEF NewStreamQueue, TypeOK, RegistryInv, MapsAgree
<1>2. r.ssrc = ssrc /\ ~r.closed
  BY DEF NewQueue
<1> HIDE DEF r
<1>3. /\ n \in Nat \ {0}
      /\ DOMAIN queues = 1 .. n - 1
      /\ DOMAIN queues' = 1 .. n
      /\ queues'[n] = r
      /\ \A q \in DOMAIN queues : queues'[q] = queues[q]
      /\ \A s \in Ssrcs : rtpQueueMap[s] \in 0 .. n - 1
      /\ rtpQueueMap'[ssrc] = n
      /\ \A s \in Ssrcs : s # ssrc => rtpQueueMap'[s] = rtpQueueMap[s]
  BY <1>1, QueuesType DEF TypeOK
<1> HIDE DEF n
<1>4. MapsAgree'
  BY <1>1, <1>2, <1>3 DEF RegistryInv, MapsAgree, TypeOK
<1>5. ClosingInv'
  <2> SUFFICES ASSUME alive \in {"key", "queue", "file", "ssrc"} PROVE ClosingInv'
    BY <1>1 DEF ClosingInv
  <2>1. closing \in DOMAIN queues
    BY DEF TypeOK
  <2>2. /\ closing # n /\ closing # 0
        /\ queues'[closing] = queues[closing]
    BY <1>3, <2>1
  <2>3. queues[closing].ssrc \in Ssrcs
    BY <2>1, QueuesType DEF QueueState
  <2> QED BY <1>1, <1>3, <2>2, <2>3 DEF RegistryInv, ClosingInv
<1>6. OpenQueuesTracked'
  <2> SUFFICES ASSUME NEW q \in 1 .. n
               PROVE  ~queues'[q].closed <=>
                        (rtpQueueMap'[queues'[q].ssrc] = q \/ Leaving(q))
    BY <1>1, <1>3 DEF OpenQueuesTracked, Leaving
  <2>1. CASE q = n
    BY <1>2, <1>3, <2>1
  <2>2. CASE q # n
    <3>1. q \in DOMAIN queues /\ queues'[q] = queues[q]
      BY <1>3, <2>2
    <3>2. queues[q].ssrc \in Ssrcs
      BY <3>1, QueuesType DEF QueueState
    <3>3. ~queues[q].closed <=>
            (rtpQueueMap[queues[q].ssrc] = q \/ Leaving(q))
      BY <3>1 DEF RegistryInv, OpenQueuesTracked
    <3>4. q # 0 /\ q # n
      BY <1>3, <2>2
    <3> QED BY <1>1, <1>3, <3>1, <3>2, <3>3, <3>4
  <2> QED BY <2>1, <2>2
<1>7. EntriesResolve'
  <2> SUFFICES ASSUME NEW k \in Keys, keySsrcMap[k] # 0
               PROVE  rtpQueueMap'[keySsrcMap[k]] # 0
    BY <1>1 DEF EntriesResolve, HasQueue
  <2>1. keySsrcMap[k] \in Ssrcs
    BY DEF TypeOK
  <2> QED BY <1>1, <1>3, <2>1 DEF RegistryInv, EntriesResolve, HasQueue, Registering
<1> QED BY <1>4, <1>5, <1>6, <1>7 DEF RegistryInv

\* A round of CheckAlive: a stream that is left alone, or one whose queue is to be
\* closed.
LEMMA VisitRegistry ==
    ASSUME TypeOK, RegistryInv, NEW s \in Ssrcs, AliveVisit(s)
    PROVE  RegistryInv'
<1>1. /\ alive = "loop" /\ s \in todo /\ todo' = todo \ {s}
      /\ UNCHANGED <<keySsrcMap, rtpQueueMap, queues, pc, ssrc>>
      /\ alive' = "loop" \/ (alive' = "key" /\ closing' = rtpQueueMap[s])
  BY DEF AliveVisit, mapVars, mainVars
<1>2. rtpQueueMap[s] # 0 /\ queues[rtpQueueMap[s]].ssrc = s
  BY <1>1 DEF RegistryInv, MapsAgree
<1>3. MapsAgree'
  BY <1>1 DEF RegistryInv, MapsAgree
<1>4. ClosingInv'
  BY <1>1, <1>2 DEF ClosingInv
<1>5. OpenQueuesTracked'
  BY <1>1 DEF RegistryInv, OpenQueuesTracked, Leaving
<1>6. EntriesResolve'
  BY <1>1 DEF RegistryInv, EntriesResolve, HasQueue, Registering
<1> QED BY <1>3, <1>4, <1>5, <1>6 DEF RegistryInv

\* What CheckAlive closes is a queue of a stream with a key.
LEMMA ClosingQueue ==
    ASSUME TypeOK, alive \in {"key", "queue", "file", "ssrc"}
    PROVE  /\ closing \in DOMAIN queues /\ closing # 0
           /\ queues[closing].ssrc \in Ssrcs
           /\ KeyOf[queues[closing].ssrc] \in Keys
<1>1. closing \in DOMAIN queues /\ closing # 0
  BY QueuesType DEF TypeOK
<1>2. queues[closing].ssrc \in Ssrcs
  BY <1>1, QueuesType DEF QueueState
<1> QED BY <1>1, <1>2 DEF Keys

LEMMA DeleteKeyRegistry ==
    ASSUME TypeOK, RegistryInv, AliveDeleteKey
    PROVE  RegistryInv'
<1> DEFINE s == queues[closing].ssrc
<1>1. /\ alive = "key" /\ alive' = "queue"
      /\ keySsrcMap' = [keySsrcMap EXCEPT ![KeyOf[s]] = 0]
      /\ UNCHANGED <<rtpQueueMap, queues, pc, ssrc, todo, closing>>
  BY DEF AliveDeleteKey, mainVars
<1>2. s \in Ssrcs /\ KeyOf[s] \in Keys /\ s # 0
  BY <1>1, ClosingQueue, RegistryAssumption
<1>3. /\ keySsrcMap'[KeyOf[s]] = 0
      /\ \A k \in Keys : keySsrcMap'[k] # 0 => keySsrcMap'[k] = keySsrcMap[k]
  BY <1>1, <1>2 DEF TypeOK
<1>4. MapsAgree'
  BY <1>1, <1>3 DEF RegistryInv, MapsAgree
<1>5. ClosingInv'
  BY <1>1, <1>2, <1>3 DEF RegistryInv, ClosingInv
<1>6. OpenQueuesTracked'
  BY <1>1 DEF RegistryInv, OpenQueuesTracked, Leaving
<1>7. EntriesResolve'
  BY <1>1, <1>3 DEF RegistryInv, EntriesResolve, HasQueue, Registering
<1> QED BY <1>4, <1>5, <1>6, <1>7 DEF RegistryInv

LEMMA DeleteQueueRegistry ==
    ASSUME TypeOK, RegistryInv, AliveDeleteQueue
    PROVE  RegistryInv'
<1> DEFINE s == queues[closing].ssrc
<1>1. /\ alive = "queue" /\ alive' = "file"
      /\ rtpQueueMap' = [rtpQueueMap EXCEPT ![s] = 0]
      /\ UNCHANGED <<keySsrcMap, queues, pc, ssrc, todo, closing>>
  BY DEF AliveDeleteQueue, mainVars
<1>2. closing \in DOMAIN queues /\ closing # 0 /\ s \in Ssrcs
  BY <1>1, ClosingQueue
<1>3. /\ rtpQueueMap'[s] = 0
      /\ \A t \in Ssrcs : t # s => rtpQueueMap'[t] = rtpQueueMap[t]
      /\ rtpQueueMap[s] = closing /\ s \notin todo
      /\ keySsrcMap[KeyOf[s]] # s
  BY <1>1, <1>2 DEF RegistryInv, ClosingInv, TypeOK
<1> HIDE DEF s
<1>4. MapsAgree'
  BY <1>1, <1>3 DEF RegistryInv, MapsAgree, TypeOK
<1>5. ClosingInv'
  BY <1>1, <1>2, <1>3 DEF ClosingInv, s
<1>6. OpenQueuesTracked'
  <2> SUFFICES ASSUME NEW q \in DOMAIN queues
               PROVE  ~queues[q].closed <=>
                        (rtpQueueMap'[queues[q].ssrc] = q \/ q = closing)
    BY <1>1 DEF OpenQueuesTracked, Leaving
  <2>1. queues[q].ssrc \in Ssrcs /\ q # 0
    BY QueuesType DEF QueueState
  <2>2. ~queues[q].closed <=> rtpQueueMap[queues[q].ssrc] = q
    BY <1>1 DEF RegistryInv, OpenQueuesTracked, Leaving
  <2> QED BY <1>3, <2>1, <2>2 DEF s
<1>7. EntriesResolve'
  <2> SUFFICES ASSUME NEW k \in Keys, keySsrcMap[k] # 0
               PROVE  \/ rtpQueueMap'[keySsrcMap[k]] # 0
                      \/ Registering(keySsrcMap[k])
    BY <1>1 DEF EntriesResolve, HasQueue, Registering
  <2>1. keySsrcMap[k] \in Ssrcs /\ KeyOf[keySsrcMap[k]] = k
    BY DEF TypeOK, RegistryInv, MapsAgree
  <2>2. keySsrcMap[k] # s
    BY <1>3, <2>1
  <2> QED BY <1>3, <2>1, <2>2 DEF RegistryInv, EntriesResolve, HasQueue
<1> QED BY <1>4, <1>5, <1>6, <1>7 DEF RegistryInv

LEMMA CloseFileRegistry ==
    ASSUME TypeOK, RegistryInv, AliveCloseFile
    PROVE  RegistryInv'
<1>1. alive = "file"
  BY DEF AliveCloseFile
<1>2. /\ DOMAIN queues' = DOMAIN queues
      /\ queues'[closing].closed = queues[closing].closed
      /\ queues'[closing].ssrc = queues[closing].ssrc
      /\ \A q \in DOMAIN queues : q # closing => queues'[q] = queues[q]
  BY <1>1, CloseEffect
<1>3. SameStreams
  BY <1>2 DEF SameStreams
<1> QED BY <1>3, RegistryFrame DEF AliveCloseFile, mainVars

LEMMA CloseSsrcRegistry ==
    ASSUME TypeOK, RegistryInv, AliveCloseSsrc
    PROVE  RegistryInv'
<1>1. /\ alive = "ssrc" /\ alive' = "loop" /\ closing' = 0
      /\ UNCHANGED <<keySsrcMap, rtpQueueMap, pc, ssrc, todo>>
  BY DEF AliveCloseSsrc, mainVars
<1>2. /\ closing \in DOMAIN queues /\ closing # 0
      /\ DOMAIN queues' = DOMAIN queues
      /\ queues'[closing].closed /\ queues'[closing].ssrc = queues[closing].ssrc
      /\ \A q \in DOMAIN queues : q # closing => queues'[q] = queues[q]
  BY <1>1, CloseEffect, ClosingQueue
<1>3. \A s \in Ssrcs : rtpQueueMap[s] # 0 => rtpQueueMap[s] \in DOMAIN queues
  BY QueuesType DEF TypeOK
<1>4. \A q \in DOMAIN queues : queues'[q].ssrc = queues[q].ssrc
  BY <1>2
<1>5. MapsAgree'
  BY <1>1, <1>3, <1>4 DEF RegistryInv, MapsAgree
<1>6. ClosingInv'
  BY <1>1 DEF ClosingInv
<1>7. OpenQueuesTracked'
  <2> SUFFICES ASSUME NEW q \in DOMAIN queues
               PROVE  ~queues'[q].closed <=> rtpQueueMap[queues[q].ssrc] = q
    BY <1>1, <1>2, <1>4 DEF OpenQueuesTracked, Leaving
  <2>1. CASE q = closing
    BY <1>1, <1>2, <2>1 DEF RegistryInv, ClosingInv
  <2>2. CASE q # closing
    BY <1>2, <2>2 DEF RegistryInv, OpenQueuesTracked, Leaving
  <2> QED BY <2>1, <2>2
<1>8. EntriesResolve'
  BY <1>1 DEF RegistryInv, EntriesResolve, HasQueue, Registering
<1> QED BY <1>5, <1>6, <1>7, <1>8 DEF RegistryInv

LEMMA NextRegistryInv ==
    TypeOK /\ RegistryInv /\ [Next]_vars => RegistryInv'
<1> SUFFICES ASSUME TypeOK, RegistryInv, [Next]_vars PROVE RegistryInv'
  OBVIOUS
<1>0. UNCHANGED queues => SameStreams
  BY DEF SameStreams
<1>1. CASE UNCHANGED vars
  BY <1>0, <1>1, RegistryFrame DEF vars, mapVars, mainVars, aliveVars
<1>2. ASSUME NEW s \in Ssrcs, Publish(s) \/ Unpublish(s) PROVE RegistryInv'
  BY <1>0, <1>2, RegistryFrame DEF Publish, Unpublish, mapVars, mainVars, aliveVars
<1>3. CASE ProcessEnds
  BY <1>0, <1>3, RegistryFrame DEF ProcessEnds, mapVars, mainVars, aliveVars
<1>4. ASSUME NEW d \in Datagrams, ReceiveNothing(d) PROVE RegistryInv'
  BY <1>0, <1>4, RegistryFrame DEF ReceiveNothing, mapVars, mainVars, aliveVars
<1>5. ASSUME NEW d \in Datagrams, NEW s \in Ssrcs, Receive(s, d)
      PROVE  RegistryInv'
  BY <1>0, <1>5, RegistryFrame DEF Receive, mapVars, aliveVars
<1>6. CASE ReceiveInit
  BY <1>0, <1>6, RegistryFrame DEF ReceiveInit, mapVars, mainVars, aliveVars
<1>7. CASE NewStreamRequest
  <2>1. rtpQueueMap[ssrc] = 0
    BY <1>7 DEF NewStreamRequest, RegistryInv, MapsAgree
  <2> QED BY <1>0, <1>7, <2>1, RegistryFrame DEF NewStreamRequest, mapVars, aliveVars
<1>8. CASE NewStreamAssign
  <2>1. rtpQueueMap[ssrc] = 0
    BY <1>8 DEF NewStreamAssign, RegistryInv, MapsAgree
  <2> QED BY <1>0, <1>8, <2>1, RegistryFrame DEF NewStreamAssign, aliveVars
<1>9. CASE SendToQueue
  <2>1. /\ pc = "send" /\ pc' = "recv"
        /\ UNCHANGED <<keySsrcMap, rtpQueueMap, todo, alive, closing>>
    BY <1>9 DEF SendToQueue, aliveVars
  <2>2. SameStreams
    BY <1>9, SendSameQueues DEF SameQueues
  <2> QED BY <2>1, <2>2, RegistryFrame
<1>10. ASSUME NEW q \in DOMAIN queues, RecvPacket(q) PROVE RegistryInv'
  <2>1. SameStreams
    BY <1>10, RecvPacketSameQueues DEF SameQueues
  <2> QED BY <1>10, <2>1, RecvPacketFrame, RegistryFrame DEF mainVars, aliveVars
<1>11. CASE AliveRequest
  BY <1>0, <1>11, RegistryFrame DEF AliveRequest, mapVars, mainVars
<1>12. CASE AliveAssign
  <2>1. /\ UNCHANGED <<keySsrcMap, rtpQueueMap, queues, pc, ssrc, closing>>
        /\ todo' = {s \in Ssrcs : rtpQueueMap[s] # 0}
        /\ alive = "assign" /\ alive' = "loop"
    BY <1>12 DEF AliveAssign, mainVars
  <2> QED BY <2>1 DEF RegistryInv, MapsAgree, ClosingInv, OpenQueuesTracked,
                       Leaving, EntriesResolve, HasQueue, Registering
<1>13. CASE AliveDone
  BY <1>0, <1>13, RegistryFrame DEF AliveDone, mapVars, mainVars
<1>14. ASSUME NEW c \in Clients, Handler(c) PROVE RegistryInv'
  BY <1>0, <1>14, RegistryFrame
     DEF Handler, Ask, ReadSsrc, Attach, mapVars, mainVars, aliveVars
<1>15. CASE NewStream
  BY <1>3, <1>7, <1>8, <1>15, NewStreamKeyRegistry, NewStreamQueueRegistry
     DEF NewStream, NewStreamPanics, NewStreamNoChannel
<1>16. CASE CheckAlive
  BY <1>11, <1>12, <1>13, <1>16, VisitRegistry, DeleteKeyRegistry,
     DeleteQueueRegistry, CloseFileRegistry, CloseSsrcRegistry DEF CheckAlive
<1>17. CASE PollPanics
  BY <1>3, <1>17 DEF PollPanics
<1> QED BY <1>1, <1>2, <1>4, <1>5, <1>6, <1>9, <1>10, <1>14, <1>15, <1>16, <1>17
        DEF Next

-----------------------------------------------------------------------------
(* Panics. *)

\* The streams that have a queue stay the same ones.
LEMMA SameQueuesServed ==
    ASSUME SameQueues
    PROVE  /\ Served' = Served
           /\ (\A q \in DOMAIN queues : ~queues[q].closed) =>
                 \A q \in DOMAIN queues' : ~queues'[q].closed
           /\ (\A q \in DOMAIN queues : queues[q].fileOpen = Recording) =>
                 \A q \in DOMAIN queues' : queues'[q].fileOpen = Recording
  BY DEF SameQueues, SameStreams, Served

\* A step that only takes packets in and out of the queues' channels.
LEMMA CalmFrame ==
    ASSUME CalmStreams, SameQueues,
           UNCHANGED <<publishers, reply, published, seen>>,
           disturbed => disturbed', ~crashed',
           alive' \in {alive, "sleep", "assign", "loop"},
           UNCHANGED <<pc, ssrc>> \/ pc' = "recv"
    PROVE  CalmStreams'
  BY SameQueuesServed DEF CalmStreams

\* No step is taken after a panic.
LEMMA NextRuns ==
    ASSUME Next PROVE ~crashed
  BY DEF Next, Publish, Unpublish, PollPanics, ReceiveNothing, Receive,
         ReceiveInit, NewStream, NewStreamRequest, NewStreamAssign, NewStreamKey,
         NewStreamPanics, NewStreamNoChannel, NewStreamQueue, SendToQueue,
         RecvPacket, Process, ProcessPanics, GetDelay, GetDelayPanics, CheckAlive,
         AliveRequest, AliveAssign, AliveVisit, AliveDeleteKey, AliveDeleteQueue,
         AliveCloseFile, AliveCloseSsrc, AliveDone, Handler, Ask, ReadSsrc, Attach

\* Nothing is to be shown of a step after a disturbance.
LEMMA DisturbedStays ==
    ASSUME Next, disturbed PROVE disturbed'
  BY DEF Next, Publish, Unpublish, PollPanics, ReceiveNothing, Receive,
         ReceiveInit, NewStream, NewStreamRequest, NewStreamAssign, NewStreamKey,
         NewStreamPanics, NewStreamNoChannel, NewStreamQueue, SendToQueue,
         RecvPacket, Process, ProcessPanics, GetDelay, GetDelayPanics, CheckAlive,
         AliveRequest, AliveAssign, AliveVisit, AliveDeleteKey, AliveDeleteQueue,
         AliveCloseFile, AliveCloseSsrc, AliveDone, Handler, Ask, ReadSsrc, Attach,
         endVars

LEMMA NextCalmStreams ==
    TypeOK /\ RegistryInv /\ CalmStreams /\ [Next]_vars => CalmStreams'
<1> SUFFICES ASSUME TypeOK, RegistryInv, CalmStreams, [Next]_vars
             PROVE  CalmStreams'
  OBVIOUS
<1>0. UNCHANGED queues => SameQueues
  BY DEF SameQueues, SameStreams
<1>1. CASE UNCHANGED vars
  <2>1. Served' = Served
    BY <1>0, <1>1, SameQueuesServed DEF vars, mapVars
  <2> QED BY <1>1, <2>1 DEF CalmStreams, BadKey, vars, cloudVars, confVars, mapVars,
                             mainVars, aliveVars, endVars
<1>2. CASE Next /\ disturbed'
  BY <1>2 DEF CalmStreams
<1> SUFFICES ASSUME Next, ~disturbed' PROVE CalmStreams'
  BY <1>1, <1>2
<1>3. /\ ~disturbed /\ ~crashed
      /\ seen \subseteq published
      /\ Served \subseteq published \cap publishers
      /\ \A q \in DOMAIN queues : ~queues[q].closed
      /\ \A q \in DOMAIN queues : queues[q].fileOpen = Recording
      /\ pc # "recv" => ssrc \in published
      /\ pc = "assign" => Served \cup {ssrc} \subseteq reply
      /\ pc \in {"lookup", "register"} => ssrc \in publishers
      /\ alive \in {"sleep", "assign", "loop"}
  BY DisturbedStays, NextRuns DEF CalmStreams
<1>4. UNCHANGED queues =>
        /\ Served' = Served
        /\ \A q \in DOMAIN queues' : ~queues'[q].closed
        /\ \A q \in DOMAIN queues' : queues'[q].fileOpen = Recording
  BY <1>0, <1>3, SameQueuesServed
<1>5. ASSUME NEW s \in Ssrcs, Publish(s) PROVE CalmStreams'
  BY <1>3, <1>4, <1>5 DEF Publish, CalmStreams, mapVars, mainVars, aliveVars, endVars
<1>6. ASSUME NEW s \in Ssrcs, Unpublish(s) PROVE CalmStreams'
  BY <1>6 DEF Unpublish
<1>7. CASE PollPanics
  BY <1>7 DEF PollPanics
<1>8. ASSUME NEW d \in Datagrams, ReceiveNothing(d) PROVE CalmStreams'
  BY <1>0, <1>3, <1>8, CalmFrame
     DEF ReceiveNothing, cloudVars, mapVars, mainVars, aliveVars, endVars
<1>9. ASSUME NEW d \in Datagrams, NEW s \in Ssrcs, Receive(s, d)
      PROVE  CalmStreams'
  BY <1>3, <1>4, <1>9 DEF Receive, CalmStreams, cloudVars, mapVars, aliveVars, endVars
<1>10. CASE ReceiveInit
  BY <1>0, <1>3, <1>10, CalmFrame
     DEF ReceiveInit, cloudVars, mapVars, mainVars, aliveVars, endVars
<1>11. CASE NewStreamRequest
  <2>1. reply' = published
    BY <1>11 DEF NewStreamRequest
  <2> QED BY <1>3, <1>4, <1>11, <2>1
          DEF NewStreamRequest, CalmStreams, cloudVars, mapVars, aliveVars
<1>12. CASE NewStreamAssign
  BY <1>3, <1>4, <1>12 DEF NewStreamAssign, CalmStreams, cloudVars, aliveVars, endVars
<1>13. CASE NewStreamKey
  BY <1>3, <1>4, <1>13 DEF NewStreamKey, CalmStreams, cloudVars, aliveVars, endVars
<1>14. CASE NewStreamPanics
  BY <1>3, <1>14 DEF NewStreamPanics
<1>15. CASE NewStreamNoChannel
  <2>1. BadKey'
    BY <1>15 DEF NewStreamNoChannel, ProcessEnds, BadKey, confVars, mainVars
  <2> QED BY <1>3, <1>4, <1>15, <2>1
          DEF NewStreamNoChannel, ProcessEnds, CalmStreams, cloudVars, mapVars,
              mainVars, aliveVars
<1>16. CASE NewStreamQueue
  <2> DEFINE r == NewQueue(ssrc)
  <2>1. queues' = Append(queues, r) /\ pc = "register" /\ pc' = "send"
        /\ UNCHANGED <<published, seen, publishers, ssrc, alive, crashed>>
    BY <1>16 DEF NewStreamQueue, cloudVars, endVars
  <2>2. r.ssrc = ssrc /\ ~r.closed /\ r.fileOpen = Recording
    BY DEF NewQueue
  <2> HIDE DEF r
  <2>3. \A q \in DOMAIN queues' : queues'[q] = r \/ (q \in DOMAIN queues
                                                /\ queues'[q] = queues[q])
    BY <2>1 DEF TypeOK
  <2>4. Served' \subseteq Served \cup {ssrc}
    BY <2>2, <2>3 DEF Served
  <2>5. \A q \in DOMAIN queues' :
          ~queues'[q].closed /\ queues'[q].fileOpen = Recording
    BY <1>3, <2>2, <2>3
  <2> QED BY <1>3, <2>1, <2>4, <2>5 DEF CalmStreams
<1>17. CASE SendToQueue
  <2>1. /\ pc' = "recv"
        /\ UNCHANGED <<publishers, reply, published, seen, alive, disturbed, crashed>>
    BY <1>17 DEF SendToQueue, cloudVars, aliveVars, endVars
  <2> QED BY <1>3, <1>17, <2>1, SendSameQueues, CalmFrame
<1>18. ASSUME NEW q \in DOMAIN queues, RecvPacket(q) PROVE CalmStreams'
  <2>1. /\ queues[q].ssrc \in publishers /\ ~queues[q].closed
        /\ queues[q].fileOpen = Recording
    BY <1>3 DEF Served
  <2>2. ~ProcessPanics(q) /\ ~GetDelayPanics(q)
    BY <2>1 DEF ProcessPanics, GetDelayPanics
  <2>3. UNCHANGED crashed
    BY <1>18, <2>2 DEF RecvPacket, Process, GetDelay, endVars
  <2> QED BY <1>3, <1>18, <2>3, RecvPacketSameQueues, RecvPacketFrame, CalmFrame
          DEF cloudVars, mainVars, aliveVars
<1>19. CASE AliveRequest
  BY <1>0, <1>3, <1>19, CalmFrame DEF AliveRequest, cloudVars, mapVars, mainVars
<1>20. CASE AliveAssign
  <2>1. /\ publishers' = published /\ alive' = "loop"
        /\ UNCHANGED <<published, seen, queues, crashed, pc, ssrc, reply>>
    BY <1>20 DEF AliveAssign, cloudVars, mainVars
  <2> QED BY <1>3, <1>4, <2>1 DEF CalmStreams
<1>21. ASSUME NEW s \in Ssrcs, AliveVisit(s) PROVE CalmStreams'
  <2>1. s \in publishers
    <3>1. rtpQueueMap[s] # 0 /\ queues[rtpQueueMap[s]].ssrc = s
      BY <1>21 DEF AliveVisit, RegistryInv, MapsAgree
    <3>2. rtpQueueMap[s] \in DOMAIN queues
      BY <3>1, QueuesType DEF TypeOK
    <3> QED BY <1>3, <3>1, <3>2 DEF Served
  <2> QED BY <1>0, <1>3, <1>21, <2>1, CalmFrame
          DEF AliveVisit, cloudVars, mapVars, mainVars, endVars
<1>22. CASE AliveDeleteKey \/ AliveDeleteQueue \/ AliveCloseFile \/ AliveCloseSsrc
  BY <1>3, <1>22
     DEF AliveDeleteKey, AliveDeleteQueue, AliveCloseFile, AliveCloseSsrc
<1>23. CASE AliveDone
  BY <1>0, <1>3, <1>23, CalmFrame
     DEF AliveDone, cloudVars, mapVars, mainVars, endVars
<1>24. ASSUME NEW c \in Clients, Handler(c) PROVE CalmStreams'
  BY <1>0, <1>3, <1>24, CalmFrame
     DEF Handler, Ask, ReadSsrc, Attach, cloudVars, mapVars, mainVars, aliveVars,
         endVars
<1> QED BY <1>5, <1>6, <1>7, <1>8, <1>9, <1>10, <1>11, <1>12, <1>13, <1>14,
           <1>15, <1>16, <1>17, <1>18, <1>19, <1>20, <1>21, <1>22, <1>23, <1>24
        DEF Next, NewStream, CheckAlive

\* As long as nothing disturbs the registry, its entries only grow.
LEMMA MapsGrow ==
    ASSUME TypeOK, CalmStreams, Next, ~disturbed
    PROVE  /\ \A k \in Keys : keySsrcMap[k] # 0 => keySsrcMap'[k] # 0
           /\ \A s \in Ssrcs :
                 HasQueue(s) \/ Registering(s) => HasQueue(s)' \/ Registering(s)'
<1>1. CASE NewStreamKey
  <2>1. ssrc \in Ssrcs /\ ssrc # 0
    BY <1>1, RegistryAssumption DEF NewStreamKey, TypeOK
  <2> QED BY <1>1, <2>1
          DEF NewStreamKey, HasQueue, Registering, TypeOK
<1>2. CASE NewStreamQueue
  <2>1. Len(queues) + 1 # 0
    BY QueuesType
  <2>2. UNCHANGED keySsrcMap /\ pc = "register"
        /\ rtpQueueMap' = [rtpQueueMap EXCEPT ![ssrc] = Len(queues) + 1]
        /\ ssrc \in Ssrcs
    BY <1>2 DEF NewStreamQueue, TypeOK
  <2>3. \A s \in Ssrcs : s # 0
    BY RegistryAssumption
  <2>4. \A s \in Ssrcs :
          (rtpQueueMap[s] # 0 \/ s = ssrc) => rtpQueueMap'[s] # 0
    BY <2>1, <2>2 DEF TypeOK
  <2> QED BY <2>2, <2>3, <2>4 DEF HasQueue, Registering
<1>3. CASE /\ UNCHANGED <<keySsrcMap, rtpQueueMap>>
           /\ UNCHANGED <<pc, ssrc>> \/ pc # "register"
  BY <1>3 DEF HasQueue, Registering
<1>4. NewStream => \/ NewStreamKey \/ NewStreamQueue
                   \/ /\ UNCHANGED <<keySsrcMap, rtpQueueMap>>
                      /\ UNCHANGED <<pc, ssrc>> \/ pc # "register"
  BY DEF NewStream, NewStreamRequest, NewStreamAssign, NewStreamPanics,
         NewStreamNoChannel, ProcessEnds, mapVars, mainVars
<1>5. CASE CheckAlive
  BY <1>3, <1>5 DEF CalmStreams, CheckAlive, AliveRequest, AliveAssign, AliveVisit,
         AliveDeleteKey, AliveDeleteQueue, AliveCloseFile, AliveCloseSsrc, AliveDone,
         mapVars, mainVars
<1>6. ASSUME NEW q \in DOMAIN queues, RecvPacket(q)
      PROVE  UNCHANGED <<keySsrcMap, rtpQueueMap, pc, ssrc>>
  BY <1>6, RecvPacketFrame DEF mainVars
<1>7. ASSUME NEW c \in Clients, Handler(c)
      PROVE  UNCHANGED <<keySsrcMap, rtpQueueMap, pc, ssrc>>
  BY <1>7 DEF Handler, Ask, ReadSsrc, Attach, mapVars, mainVars
<1>8. CASE \/ \E s \in Ssrcs : Publish(s) \/ Unpublish(s)
           \/ PollPanics
           \/ \E d \in Datagrams :
                 ReceiveNothing(d) \/ \E s \in Ssrcs : Receive(s, d)
           \/ ReceiveInit
           \/ SendToQueue
  BY <1>3, <1>8 DEF Publish, Unpublish, PollPanics, ProcessEnds, ReceiveNothing,
         Receive, ReceiveInit, SendToQueue, mapVars, mainVars
<1> QED BY <1>1, <1>2, <1>3, <1>4, <1>5, <1>6, <1>7, <1>8 DEF Next

LEMMA NextCalmHandlers ==
    TypeOK /\ RegistryInv /\ CalmStreams /\ CalmHandlers /\ [Next]_vars
        => CalmHandlers'
<1> SUFFICES ASSUME TypeOK, RegistryInv, CalmStreams, CalmHandlers, [Next]_vars
             PROVE  CalmHandlers'
  OBVIOUS
<1>1. CASE UNCHANGED vars
  BY <1>1 DEF CalmHandlers, HasQueue, Registering, vars, mapVars, mainVars, connVars,
              endVars
<1>2. CASE Next /\ disturbed'
  BY <1>2 DEF CalmHandlers
<1> SUFFICES ASSUME Next, ~disturbed' PROVE CalmHandlers'
  BY <1>1, <1>2
<1>3. ~disturbed
  BY DisturbedStays
<1>4. /\ Wanted \in Keys
      /\ \A k \in Keys : keySsrcMap[k] # 0 => keySsrcMap'[k] # 0
      /\ \A s \in Ssrcs :
            HasQueue(s) \/ Registering(s) => HasQueue(s)' \/ Registering(s)'
  BY <1>3, MapsGrow, RegistryAssumption DEF Keys
<1> DEFINE Knows(c) ==
        /\ conn[c] = "found" => keySsrcMap[Wanted] # 0
        /\ conn[c] = "lookup" =>
              asked[c] \in Ssrcs /\ (HasQueue(asked[c]) \/ Registering(asked[c]))
<1>5. \A c \in Clients : Knows(c)
  <2> SUFFICES ASSUME NEW c \in Clients PROVE Knows(c)
    OBVIOUS
  <2>1. asked[c] \in Ssrcs \cup {0}
    BY DEF TypeOK
  <2>2. conn[c] = "lookup" => HasQueue(asked[c]) \/ Registering(asked[c])
    BY <1>3 DEF CalmHandlers
  <2>3. pc = "register" => ssrc \in Ssrcs
    BY DEF TypeOK
  <2>4. conn[c] = "lookup" => asked[c] \in Ssrcs
    BY <2>1, <2>2, <2>3 DEF HasQueue, Registering
  <2> QED BY <1>3, <2>2, <2>4 DEF CalmHandlers
<1>6. CASE UNCHANGED connVars \/ ProcessEnds
  <2> SUFFICES ASSUME NEW c \in Clients
               PROVE  /\ conn'[c] = "found" => keySsrcMap'[Wanted] # 0
                      /\ conn'[c] = "lookup" =>
                            HasQueue(asked[c])' \/ Registering(asked[c])'
    BY DEF CalmHandlers
  <2>1. CASE conn' = conn /\ asked' = asked
    <3>1. Knows(c)
      BY <1>5
    <3>2. asked[c] \in Ssrcs =>
            (HasQueue(asked[c]) \/ Registering(asked[c]) =>
                \/ asked[c] # 0 /\ rtpQueueMap'[asked[c]] # 0
                \/ pc' = "register" /\ ssrc' = asked[c])
      BY <1>4 DEF HasQueue, Registering
    <3> QED BY <1>4, <2>1, <3>1, <3>2 DEF HasQueue, Registering
  <2>2. CASE conn' = [b \in Clients |-> "idle"]
    BY <2>2
  <2> QED BY <1>6, <2>1, <2>2 DEF ProcessEnds, connVars
<1>7. ASSUME NEW c \in Clients, Handler(c) PROVE CalmHandlers'
  <2>1. UNCHANGED <<keySsrcMap, rtpQueueMap, pc, ssrc>>
    BY <1>7 DEF Handler, Ask, ReadSsrc, Attach, mapVars, mainVars
  <2> SUFFICES ASSUME NEW b \in Clients
               PROVE  /\ conn'[b] = "found" => keySsrcMap[Wanted] # 0
                      /\ conn'[b] = "lookup" =>
                            HasQueue(asked'[b]) \/ Registering(asked'[b])
    BY <2>1 DEF CalmHandlers, HasQueue, Registering
  <2>2. Knows(b) /\ Knows(c)
    BY <1>5
  <2>3. CASE b # c
    <3>1. conn'[b] = conn[b] /\ asked'[b] = asked[b]
      BY <1>7, <2>3 DEF Handler, Ask, ReadSsrc, Attach, TypeOK
    <3> QED BY <2>2, <3>1
  <2>4. CASE b = c /\ Ask(c)
    BY <2>4 DEF Ask, TypeOK
  <2>5. CASE b = c /\ ReadSsrc(c)
    <3>1. asked'[b] = keySsrcMap[Wanted] /\ conn'[b] = "lookup"
          /\ conn[c] = "found"
      BY <2>5 DEF ReadSsrc, TypeOK
    <3> QED BY <1>4, <2>2, <3>1 DEF RegistryInv, EntriesResolve
  <2>6. CASE b = c /\ Attach(c)
    BY <2>6 DEF Attach, TypeOK
  <2> QED BY <1>7, <2>3, <2>4, <2>5, <2>6 DEF Handler
<1>8. ASSUME NEW q \in DOMAIN queues, RecvPacket(q) PROVE CalmHandlers'
  BY <1>6, <1>8, RecvPacketFrame
<1>9. NewStream => UNCHANGED connVars \/ ProcessEnds
  BY DEF NewStream, NewStreamRequest, NewStreamAssign, NewStreamKey,
         NewStreamPanics, NewStreamNoChannel, NewStreamQueue
<1>10. CheckAlive => UNCHANGED connVars
  BY DEF CheckAlive, AliveRequest, AliveAssign, AliveVisit, AliveDeleteKey,
         AliveDeleteQueue, AliveCloseFile, AliveCloseSsrc, AliveDone
<1>11. (\/ \E s \in Ssrcs : Publish(s) \/ Unpublish(s)
        \/ PollPanics
        \/ \E d \in Datagrams :
              ReceiveNothing(d) \/ \E s \in Ssrcs : Receive(s, d)
        \/ ReceiveInit
        \/ SendToQueue) => UNCHANGED connVars \/ ProcessEnds
  BY DEF Publish, Unpublish, PollPanics, ReceiveNothing, Receive, ReceiveInit,
         SendToQueue
<1> QED BY <1>6, <1>7, <1>8, <1>9, <1>10, <1>11 DEF Next

-----------------------------------------------------------------------------
(* The theorems. *)

Inv == TypeOK /\ RegistryInv /\ CalmStreams /\ CalmHandlers

LEMMA InitRegistry == Init => Inv
<1> SUFFICES ASSUME Init PROVE Inv
  OBVIOUS
<1>1. queues = <<>> /\ DOMAIN queues = {} /\ Len(queues) = 0
      /\ queues \in Seq(QueueState)
  BY DEF Init
<1>2. TypeOK
  BY <1>1 DEF Init, TypeOK
<1>3. RegistryInv
  BY <1>1 DEF Init, RegistryInv, MapsAgree, ClosingInv, OpenQueuesTracked,
              EntriesResolve
<1>4. CalmStreams /\ CalmHandlers
  BY <1>1 DEF Init, CalmStreams, CalmHandlers, Served
<1> QED BY <1>2, <1>3, <1>4 DEF Inv

\* The invariant the others follow from.
LEMMA RegistryInvariant == Spec => []Inv
<1>1. Inv /\ [Next]_vars => Inv'
  BY NextType, NextRegistryInv, NextCalmStreams, NextCalmHandlers
     DEF Inv, RegistryInv
<1> QED BY <1>1, InitRegistry, PTL DEF Spec

\* The registry's variables keep their types; the queue a packet is sent to
\* exists, and no channel holds more than its capacity.
THEOREM TypeCorrect == Spec => []TypeOK
<1>1. Inv => TypeOK
  BY DEF Inv
<1> QED BY <1>1, RegistryInvariant, PTL

\* Whatever order packets, polls and the steps of a closing come in, also when a
\* second queue is made while the first one is closed, the open queues are those
\* in RtpQueueMap and the one CheckAlive has in hand: at most two for a stream.
THEOREM OpenQueuesAreTracked == Spec => []OpenQueuesTracked
<1>1. Inv => OpenQueuesTracked
  BY DEF Inv, RegistryInv
<1> QED BY <1>1, RegistryInvariant, PTL

\* Except between the two map entries of handleNewStream an entry of KeySsrcMap
\* leads to a queue, and a handler that has found one finds the queue too unless
\* something disturbed the registry.
THEOREM KeysLeadToQueues == Spec => []KeysResolve
<1>1. Inv => KeysResolve
  BY DEF Inv, RegistryInv, CalmHandlers, KeysResolve, HandlersResolve
<1> QED BY <1>1, RegistryInvariant, PTL

\* No order of the goroutines alone ends the process or closes a stream: a panic
\* comes with a key that is no app/channel or, like a closed queue, after a stream
\* that ended, a poll that failed or an answer that a publication overtook.
THEOREM PanicsAreDisturbances == Spec => []PanicNeedsDisturbance
<1>1. Inv => PanicNeedsDisturbance
  BY DEF Inv, CalmStreams, PanicNeedsDisturbance
<1> QED BY <1>1, RegistryInvariant, PTL

=============================================================================
