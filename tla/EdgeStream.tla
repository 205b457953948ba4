----------------------------- MODULE EdgeStream -----------------------------
(***************************************************************************)
(* One stream from the network to the finished FLV tags: RtpQueue and      *)
(* FlvRecord as the code runs them.  RecvPacket hands each item it         *)
(* dequeues straight to extractFlv, runQuic resets the record when it      *)
(* reshapes the queue, and PrintInfo looks at the queue from a goroutine   *)
(* of its own, without the lock.                                           *)
(*                                                                         *)
(* Packet p of the queue is one fragment of one tag of the stream; a panic *)
(* of either goroutine ends the process.                                   *)
(***************************************************************************)
EXTENDS RtpQueue, FiniteSets

CONSTANTS Tags,         \* the stream as FlvRecord sees it
          MaxDeclared,  \* bound of FlvRecord
          TagAt,        \* the tag and the fragment in each packet of the stream,
          FragAt        \* with one more entry for its end

VARIABLES
    join,            \* the first packet that will arrive
    flvTag, tagSize, jumpToNextHead, crashed, emitted, lost,  \* see FlvRecord
    silentGaps,      \* how often packets were skipped and extractFlv not told
    monitor          \* PrintInfo: asleep, the size it read, or its end

recordVars == <<flvTag, tagSize, jumpToNextHead, crashed, emitted, lost>>

streamVars == <<vars, join, recordVars, silentGaps, monitor>>

ASSUME TagsAssumption ==
    /\ Tags \in Seq([frags : Nat \ {0}, av : BOOLEAN])
    /\ Tags # <<>>
    /\ MaxDeclared \in Nat

\* The cloud sends the fragments of a tag in order, then those of the next tag.
ASSUME LayoutAssumption ==
    \A p \in Packets :
        /\ TagAt[p] \in DOMAIN Tags
        /\ FragAt[p] \in 1 .. Tags[TagAt[p]].frags
        /\ TagAt[p + 1] = IF FragAt[p] = Tags[TagAt[p]].frags
                          THEN TagAt[p] + 1 ELSE TagAt[p]
        /\ FragAt[p + 1] = IF FragAt[p] = Tags[TagAt[p]].frags
                           THEN 1 ELSE FragAt[p] + 1

-----------------------------------------------------------------------------
(* The record and the queue. *)

\* The number of the packet extractFlv gets next, or misses next.
AtHand == CASE queue = <<>>        -> join
            [] IsFirstOk           -> Head(queue)
            [] OTHER               -> HeadNumber

\* The record sees the packet at hand.
Rec == INSTANCE FlvRecord WITH joinTag <- TagAt[join],
                               joinFrag <- FragAt[join],
                               tag <- TagAt[AtHand],
                               frag <- FragAt[AtHand]

-----------------------------------------------------------------------------
(* The RecvPacket goroutine with the record. *)

\* Mutant of ExtractFlv: extractFlv returns early on nil.
ExtractFlvIgnoresNil ==
    IF Head(queue) = Nil THEN UNCHANGED recordVars ELSE Rec!Deliver

\* extractFlv of what Dequeue returned.
ExtractFlv == IF Head(queue) = Nil THEN Rec!Lost ELSE Rec!Deliver

\* The end of Dequeue and the call of extractFlv.  An emptied queue takes any
\* packet as its next head: what lies between is never reported as missing.
Play(Pop) ==
    /\ Pop
    /\ ExtractFlv
    /\ silentGaps' = IF queue' = <<>> THEN silentGaps + 1 ELSE silentGaps

\* Mutant of ReshapeStream: the record goes on with what it has.
ReshapeStreamKeepsRecord ==
    /\ RequestReshaped
    /\ UNCHANGED <<recordVars, silentGaps>>

\* runQuic gives up a run of packets and resets the record.
ReshapeStream ==
    /\ RequestReshaped
    /\ Rec!Reset
    /\ jumpToNextHead' = TRUE
    /\ UNCHANGED <<crashed, emitted, lost, silentGaps>>

\* The panic of a failing SetReadBuffer leaves runQuic before the reset.
ReshapeStreamError ==
    /\ ReshapeBufferError
    /\ silentGaps' = silentGaps + 1
    /\ UNCHANGED recordVars

\* PrintInfo is between its two reads while this goroutine changes the queue.
Overtaken ==
    monitor' = IF monitor.at = "size" /\ queue' # queue
               THEN [monitor EXCEPT !.raced = TRUE]
               ELSE monitor

\* The steps that do not touch the record.
QueueStep ==
    /\ Recv \/ RequestLost \/ QuicReply \/ DrainDone \/ PlayDone
    /\ UNCHANGED <<recordVars, silentGaps>>

\* The steps with a call of extractFlv.
PlayStep == Play(DrainPop) \/ Play(TakeHead) \/ Play(PlayPop)

RecvStep ==
    /\ \/ QueueStep
       \/ PlayStep
       \/ ReshapeStream
       \/ ReshapeStreamError
    /\ Overtaken
    /\ UNCHANGED join

-----------------------------------------------------------------------------
(* PrintInfo. *)

\* The queues another goroutine can see: as it is or, while Enqueue is at the
\* next packet, with some of the empty slots in front of it already there.
Visible ==
    {queue} \cup
        IF pc = "recv" /\ inChan # <<>> /\ queue # <<>> /\ ~Useless(Head(inChan))
        THEN {queue \o [i \in 1 .. n |-> Nil] :
                n \in 1 .. Relative(SeqOf(Head(inChan)), firstSeq) - Len(queue)}
        ELSE {}

Asleep == [at |-> "asleep"]

\* The timer fired and the stream is open: read the size.
PrintInfoSize ==
    /\ monitor = Asleep
    /\ \E q \in Visible :
         monitor' = [at |-> "size", size |-> Len(q), raced |-> q # queue]

\* Read the last slot of what is there now: an empty slot fails the type
\* assertion, no slot at all in a queue with packets fails the test.  That test
\* reads the size a third time; it is part of this step.
PrintInfoGet ==
    /\ monitor.at = "size"
    /\ \E q \in Visible :
         LET there == monitor.size \in DOMAIN q
             panics == IF there THEN q[monitor.size] = Nil ELSE q # <<>>
         IN monitor' = IF panics
                       THEN [at |-> "panicked",
                             raced |-> monitor.raced \/ q # queue]
                       ELSE Asleep

-----------------------------------------------------------------------------
StreamInit ==
    /\ Init
    /\ join \in FirstPacket .. FirstPacket + MaxSkip
    /\ Rec!Init
    /\ silentGaps = 0
    /\ monitor = Asleep

\* A panic of any goroutine ends the process.
Running == ~crashed /\ monitor.at # "panicked"

\* The first packet to arrive is the one the node joins at.
ArriveStep(p) ==
    /\ Arrive(p)
    /\ next = FirstPacket => p = join
    /\ UNCHANGED <<join, recordVars, silentGaps, monitor>>

PrintInfo ==
    /\ PrintInfoSize \/ PrintInfoGet
    /\ UNCHANGED <<vars, join, recordVars, silentGaps>>

\* The process has ended.
Ended == ~Running /\ UNCHANGED streamVars

StreamNext ==
    \/ Running /\ \E p \in Packets : ArriveStep(p)
    \/ Running /\ RecvStep
    \/ Running /\ PrintInfo
    \/ Ended

StreamSpec == StreamInit /\ [][StreamNext]_streamVars

\* The goroutine keeps running, as long as it is not in extractFlv.  A QUIC
\* request comes back because quic-go closes an idle connection, which ends the
\* read with an error.  The network, the cloud and the clients owe nothing.
StreamFairSpec ==
    /\ StreamSpec
    /\ WF_streamVars(/\ Running
                     /\ QueueStep \/ ReshapeStream \/ ReshapeStreamError
                     /\ Overtaken
                     /\ UNCHANGED join)

-----------------------------------------------------------------------------
(* Properties. *)

\* Without protect mode the two together implement FlvRecord: each packet of
\* the stream reaches extractFlv once and in order, or as missing, so that all
\* that FlvRecord promises of the tags holds of what the network delivers.
ImplementsRecord == Rec!Spec

Damaged == {i \in DOMAIN emitted : emitted[i] # Rec!Whole(Rec!TagOf(emitted[i]))}

\* A damaged tag, and the panic of extractFlv, has its cause in the join inside
\* a tag or in a gap the record was not told of (runQuic left before the reset,
\* the queue emptied): each of these spoils one tag and no more.
DamageAccounted ==
    Cardinality(Damaged) + (IF crashed THEN 1 ELSE 0)
        <= silentGaps + (IF FragAt[join] # 1 THEN 1 ELSE 0)

\* PrintInfo, which takes no lock, panics only if RecvPacket's goroutine changed
\* the queue between its two reads: at rest the last slot is never empty.
MonitorPanicNeedsRace == monitor.at = "panicked" => monitor.raced

\* No write of extractFlv, to a client or to HLS, blocks for ever.
ExtractFlvReturns ==
    WF_streamVars(Running /\ PlayStep /\ Overtaken /\ UNCHANGED join)

\* The loops of RecvPacket end, whatever the cloud answers: the goroutine
\* returns to InChan or the process has ended, unless a write holds it.
RecvPacketReturns ==
    ExtractFlvReturns => (pc # "recv" ~> (pc = "recv" \/ ~Running))

=============================================================================
