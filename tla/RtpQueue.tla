------------------------------ MODULE RtpQueue ------------------------------
(***************************************************************************)
(* The reorder queue of one RTP stream: cache.Queue with its receiving     *)
(* goroutine RecvPacket, the channel InChan that main's receiveRtp fills,  *)
(* the retransmission request runQuic and the protect mode reshape.        *)
(*                                                                         *)
(* A packet is the number the cloud gave it before the number was cut to   *)
(* 16 bits; the code sees only SeqOf(p).  The numbers never wrap, so the   *)
(* properties can say which packet is really earlier.                      *)
(*                                                                         *)
(* The statistics counters accPackets, accLoss and the log are left out:   *)
(* nothing but the log reads them.                                         *)
(***************************************************************************)
EXTENDS RtpSeq, Sequences

CONSTANTS
    PaddingWindowSize,  \* conf padding_size
    ChanSize,           \* conf chan_size, the capacity of InChan
    Protect,            \* conf protect
    HeadNilLimit,       \* the 5 in runQuic's "nils > 5"
    UdpBufferInit,      \* App.UdpBufferSize at start
    MaxUdpBuffer,       \* configure.MAX_UDP_CACHE_SIZE
    FirstPacket,        \* number of the first packet the cloud sends
    LastPacket,         \* bound: number of the last one
    MaxSkip,            \* bound: longest burst the network skips over
    MaxDelay,           \* bound: how far behind the newest a packet can arrive
    Nil                 \* an empty slot; no packet

ASSUME QueueAssumption ==
    /\ PaddingWindowSize \in Nat \ {0}
    /\ ChanSize \in Nat
    /\ Protect \in BOOLEAN
    /\ HeadNilLimit \in Nat \ {0}
    /\ UdpBufferInit \in Nat
    /\ MaxUdpBuffer \in Nat
    /\ UdpBufferInit <= MaxUdpBuffer
    /\ FirstPacket \in Nat
    /\ LastPacket \in Nat
    /\ MaxSkip \in Nat
    /\ MaxDelay \in Nat
    /\ Nil \notin Nat

\* The network's disorder and the window together stay within the reach of
\* FirstBeforeSecond (5536 numbers in the code).
ASSUME NetworkAssumption ==
    /\ MaxDelay < Reach
    /\ PaddingWindowSize + MaxSkip <= Reach

Packets == FirstPacket .. LastPacket

\* RtpPack.SequenceNumber.
SeqOf(p) == U16(p)

VARIABLES
    next,             \* one more than the highest packet number that arrived
    inChan,           \* Queue.InChan
    queue,            \* Queue.queue: packets and empty slots from FirstSeq on
    firstSeq,         \* Queue.FirstSeq
    previousLostSeq,  \* Queue.previousLostSeq
    udpBufferSize,    \* App.UdpBufferSize
    pc,               \* where the RecvPacket goroutine is
    lostSeq,          \* the argument of the runQuic call under way
    out               \* everything Dequeue handed to extractFlv, in order

vars == <<next, inChan, queue, firstSeq, previousLostSeq, udpBufferSize,
          pc, lostSeq, out>>

-----------------------------------------------------------------------------
(* Queue operations. *)

IsFirstOk == queue # <<>> /\ Head(queue) # Nil

\* Mutant of Put: the padding loop runs one slot too far.
PutOneTooMany(q, i, p) ==
    [j \in 1 .. (IF i > Len(q) THEN i + 1 ELSE Len(q)) |->
        IF j = i THEN p ELSE IF j <= Len(q) THEN q[j] ELSE Nil]

\* arraylist.Set at slot i; slots between the end of the list and i stay empty.
Put(q, i, p) ==
    [j \in 1 .. (IF i > Len(q) THEN i ELSE Len(q)) |->
        IF j = i THEN p ELSE IF j <= Len(q) THEN q[j] ELSE Nil]

\* Enqueue returns without storing p: nothing came, or p is before the head.
Useless(p) ==
    \/ p = Nil
    \/ queue # <<>> /\ FirstBeforeSecond(SeqOf(p), firstSeq)

\* Enqueue: an empty queue takes any packet and restarts at its number.
Enqueue(p) ==
    /\ firstSeq' = IF queue = <<>> /\ ~Useless(p) THEN SeqOf(p) ELSE firstSeq
    /\ queue' = IF Useless(p)
                THEN queue
                ELSE Put(queue, Relative(SeqOf(p), firstSeq') + 1, p)

\* Mutant of PopHead: FirstSeq is an int that does not wrap.
PopHeadNoWrap ==
    /\ queue # <<>>
    /\ out' = Append(out, Head(queue))
    /\ queue' = Tail(queue)
    /\ firstSeq' = firstSeq + 1

\* Mutant of PopHead: a missing packet is not reported to extractFlv.
PopHeadSilent ==
    /\ queue # <<>>
    /\ out' = IF Head(queue) = Nil THEN out ELSE Append(out, Head(queue))
    /\ queue' = Tail(queue)
    /\ firstSeq' = U16(firstSeq + 1)

\* The end of Dequeue, and the call of extractFlv with what it returns.
PopHead ==
    /\ queue # <<>>
    /\ out' = Append(out, Head(queue))
    /\ queue' = Tail(queue)
    /\ firstSeq' = U16(firstSeq + 1)

\* getHeadNil: slot k holds the first packet behind a missing head, so that
\* k - 1 packets are missing in a row.
NextPresent(k) ==
    /\ queue[k] # Nil
    /\ \A j \in 2 .. k - 1 : queue[j] = Nil

\* runQuic's test for continuous loss.
Congested(k) ==
    /\ Protect
    /\ firstSeq = U16(previousLostSeq + 1)
    /\ NextPresent(k)
    /\ k - 1 > HeadNilLimit

\* Mutant of Reshape: FirstSeq is advanced once too little.
ReshapeLags(k) ==
    /\ queue' = SubSeq(queue, k, Len(queue))
    /\ firstSeq' = U16(firstSeq + (k - 2))

\* Mutant of Reshape: the loop removes one slot before it looks at the head.
ReshapeOneTooMany(k) ==
    /\ k < Len(queue)
    /\ queue' = SubSeq(queue, k + 1, Len(queue))
    /\ firstSeq' = U16(firstSeq + k)

\* reshape: drop the empty slots in front of slot k.  The request it makes first,
\* with q.m held, is left out: its answer is thrown away and nobody else takes q.m
\* while runQuic runs.
Reshape(k) ==
    /\ queue' = SubSeq(queue, k, Len(queue))
    /\ firstSeq' = U16(firstSeq + (k - 1))

CanGrowBuffer == 2 * udpBufferSize <= MaxUdpBuffer

-----------------------------------------------------------------------------
(* The main goroutine and the network. *)

\* receiveRtp and handleNewPacket: the network lost, reordered or duplicated
\* packets, and the channel has room.
Arrive(p) ==
    /\ Len(inChan) < ChanSize
    /\ p <= next + MaxSkip
    /\ next <= p + MaxDelay
    /\ inChan' = Append(inChan, p)
    /\ next' = IF p < next THEN next ELSE p + 1
    /\ UNCHANGED <<queue, firstSeq, previousLostSeq, udpBufferSize, pc,
                   lostSeq, out>>

-----------------------------------------------------------------------------
(* The RecvPacket goroutine. *)

\* One packet from InChan into the queue.
Recv ==
    /\ pc = "recv"
    /\ inChan # <<>>
    /\ Enqueue(Head(inChan))
    /\ inChan' = Tail(inChan)
    /\ pc' = "drain"
    /\ UNCHANGED <<next, previousLostSeq, udpBufferSize, lostSeq, out>>

\* First loop: more than a window is queued and the head is there.
DrainPop ==
    /\ pc = "drain"
    /\ Len(queue) > PaddingWindowSize
    /\ IsFirstOk
    /\ PopHead
    /\ UNCHANGED <<next, inChan, previousLostSeq, udpBufferSize, pc, lostSeq>>

\* The head is missing when Dequeue wants it.
HeadLost ==
    /\ pc = "drain"
    /\ Len(queue) > PaddingWindowSize
    /\ ~IsFirstOk

\* runQuic asks the cloud for the missing head.
RequestLost ==
    /\ HeadLost
    /\ \A k \in 2 .. Len(queue) : ~Congested(k)
    /\ lostSeq' = firstSeq
    /\ pc' = "quic"
    /\ UNCHANGED <<next, inChan, queue, firstSeq, previousLostSeq,
                   udpBufferSize, out>>

\* runQuic in protect mode: the run of missing packets is given up and the
\* socket buffer grown; the old head is still asked for.
RequestReshaped ==
    /\ HeadLost
    /\ \E k \in 2 .. Len(queue) : Congested(k) /\ Reshape(k)
    /\ udpBufferSize' = IF CanGrowBuffer THEN 2 * udpBufferSize
                                         ELSE udpBufferSize
    /\ lostSeq' = firstSeq
    /\ pc' = "quic"
    /\ UNCHANGED <<next, inChan, previousLostSeq, out>>

\* The same when SetReadBuffer fails: the panic is recovered at the end of
\* runQuic, which therefore asks for nothing and notes no loss.
ReshapeBufferError ==
    /\ HeadLost
    /\ CanGrowBuffer
    /\ \E k \in 2 .. Len(queue) : Congested(k) /\ Reshape(k)
    /\ udpBufferSize' = 2 * udpBufferSize
    /\ pc' = "take"
    /\ UNCHANGED <<next, inChan, previousLostSeq, lostSeq, out>>

\* GetByQuic returns the latest packet with the number asked for, or nil: the
\* cloud has no copy, the connection is lost, or QUIC is disabled.  Left out are
\* its panics, which end the process.
Replies ==
    {p \in Packets : /\ SeqOf(p) = lostSeq
                     /\ p <= queue[Len(queue)]
                     /\ queue[Len(queue)] < p + SeqSpace} \cup {Nil}

\* The rest of runQuic.
QuicReply ==
    /\ pc = "quic"
    /\ \E p \in Replies : Enqueue(p)
    /\ previousLostSeq' = lostSeq
    /\ pc' = "take"
    /\ UNCHANGED <<next, inChan, udpBufferSize, lostSeq, out>>

\* Mutant of TakeHead: a head that is still missing is asked for again.
TakeHeadRetries ==
    /\ pc = "take"
    /\ IF IsFirstOk THEN PopHead ELSE UNCHANGED <<queue, firstSeq, out>>
    /\ pc' = "drain"
    /\ UNCHANGED <<next, inChan, previousLostSeq, udpBufferSize, lostSeq>>

\* The rest of Dequeue after runQuic.
TakeHead ==
    /\ pc = "take"
    /\ PopHead
    /\ pc' = "drain"
    /\ UNCHANGED <<next, inChan, previousLostSeq, udpBufferSize, lostSeq>>

\* The first loop ends: at most a window is queued.
DrainDone ==
    /\ pc = "drain"
    /\ Len(queue) <= PaddingWindowSize
    /\ pc' = "play"
    /\ UNCHANGED <<next, inChan, queue, firstSeq, previousLostSeq,
                   udpBufferSize, lostSeq, out>>

\* Mutant of PlayPop: the last packet is played too.
PlayPopAll ==
    /\ pc = "play"
    /\ IsFirstOk
    /\ PopHead
    /\ UNCHANGED <<next, inChan, previousLostSeq, udpBufferSize, pc, lostSeq>>

\* Second loop: play up to the first missing packet, but keep one packet.
PlayPop ==
    /\ pc = "play"
    /\ IsFirstOk
    /\ Len(queue) > 1
    /\ PopHead
    /\ UNCHANGED <<next, inChan, previousLostSeq, udpBufferSize, pc, lostSeq>>

PlayDone ==
    /\ pc = "play"
    /\ ~(IsFirstOk /\ Len(queue) > 1)
    /\ pc' = "recv"
    /\ UNCHANGED <<next, inChan, queue, firstSeq, previousLostSeq,
                   udpBufferSize, lostSeq, out>>

-----------------------------------------------------------------------------
Init ==
    /\ next = FirstPacket
    /\ inChan = <<>>
    /\ queue = <<>>
    /\ firstSeq = 0
    /\ previousLostSeq = 0
    /\ udpBufferSize = UdpBufferInit
    /\ pc = "recv"
    /\ lostSeq = 0
    /\ out = <<>>

RecvPacket ==
    \/ Recv
    \/ DrainPop
    \/ RequestLost
    \/ RequestReshaped
    \/ ReshapeBufferError
    \/ QuicReply
    \/ TakeHead
    \/ DrainDone
    \/ PlayPop
    \/ PlayDone

Next ==
    \/ \E p \in Packets : Arrive(p)
    \/ RecvPacket

Spec == Init /\ [][Next]_vars

-----------------------------------------------------------------------------
(* Properties. *)

\* Every variable has the type of the Go field it models.
TypeOK ==
    /\ next \in Nat
    /\ inChan \in Seq(Packets)
    /\ queue \in Seq(Packets \cup {Nil})
    /\ firstSeq \in SeqNo
    /\ previousLostSeq \in SeqNo
    /\ udpBufferSize \in 0 .. MaxUdpBuffer
    /\ pc \in {"recv", "drain", "quic", "take", "play"}
    /\ lostSeq \in SeqNo
    /\ out \in Seq(Packets \cup {Nil})

\* A packet is in the slot its sequence number belongs to, counted from
\* FirstSeq across wraps, whatever Enqueue, Dequeue and reshape did before.
SlotsInPlace ==
    \A i \in DOMAIN queue :
        queue[i] # Nil => SeqOf(queue[i]) = U16(firstSeq + (i - 1))

\* The last slot of the queue is never empty: PrintInfo converts it to a
\* packet without a check, and reshape stops at it before the queue is empty.
LastPresent == queue # <<>> => queue[Len(queue)] # Nil

\* Once packets were played, one stays queued: the comment in RecvPacket says
\* that otherwise Enqueue cannot compute a relative position.
KeepsOnePacket == out # <<>> => queue # <<>>

\* Packets reach extractFlv in the order the cloud numbered them, each at most
\* once, whatever order and however often they arrived.
OrderedDelivery ==
    \A i, j \in DOMAIN out :
        i < j /\ out[i] # Nil /\ out[j] # Nil => out[i] < out[j]

\* Without protect mode extractFlv sees every packet number once: each packet
\* missing between two packets it gets was reported to it as nil.
GapsReported ==
    \A i, j \in DOMAIN out :
        i < j /\ out[i] # Nil /\ out[j] # Nil => out[j] - out[i] = j - i

\* The packet number of the head slot, counted back from the newest packet.
HeadNumber ==
    IF queue = <<>> THEN 0 ELSE queue[Len(queue)] - Len(queue) + 1

\* Without protect mode the queue implements Playout.
PlayoutOf == INSTANCE Playout WITH playing <- queue # <<>>, pos <- HeadNumber

\* What extractFlv gets from the queue is what Playout promises it.
ImplementsPlayout == PlayoutOf!Spec

-----------------------------------------------------------------------------
(* What the properties above rest on. *)

\* runQuic and the end of Dequeue work on a queue that is not empty.
HeadExists == pc \in {"quic", "take"} => queue # <<>>

\* Holds with and without protect mode.
QueueInv == SlotsInPlace /\ LastPresent /\ HeadExists

\* What waits in InChan came within the network's disorder of f and of what
\* waits before it.
Waiting(f) ==
    /\ \A k \in DOMAIN inChan :
          /\ f <= inChan[k] + MaxDelay
          /\ inChan[k] < next
          /\ \A j \in 1 .. k - 1 : inChan[j] < inChan[k] + MaxDelay
          /\ \/ inChan[k] <= f + MaxSkip
             \/ \E j \in 1 .. k - 1 : inChan[k] <= inChan[j] + 1 + MaxSkip
    /\ next = f \/ \E k \in DOMAIN inChan : next = inChan[k] + 1

-----------------------------------------------------------------------------
(* Action properties. *)

\* A packet stored in the queue leaves it only by being played: no step of
\* Enqueue, Dequeue or reshape throws a stored packet away.
StoredPacketsPlayed ==
    [][\A i \in DOMAIN queue :
          queue[i] # Nil =>
              \/ \E j \in DOMAIN queue' : queue'[j] = queue[i]
              \/ out' = Append(out, queue[i])]_vars

=============================================================================
