-------------------------- MODULE EdgeStreamProofs --------------------------
(***************************************************************************)
(* The composition EdgeStream, for every value of the constants: its steps *)
(* are steps of RtpQueue, so that what is proved of the queue holds with   *)
(* the record, the monitor and their panics around it; without protect     *)
(* mode they are also steps of FlvRecord; in both modes damage to the tags *)
(* has its cause in a gap the record was not told of; and PrintInfo, which *)
(* takes no lock, fails only in a race.                                    *)
(***************************************************************************)
EXTENDS EdgeStream, RtpQueueProofs, FiniteSetTheorems

-----------------------------------------------------------------------------
(* Inductive invariants. *)

\* The record, with what FlvRecordProofs shows of it.
RecProofs == INSTANCE FlvRecordProofs WITH joinTag <- TagAt[join],
                                           joinFrag <- FragAt[join],
                                           tag <- TagAt[AtHand],
                                           frag <- FragAt[AtHand]

\* Why that is so: without protect mode the first packet taken from InChan is
\* the one the node joins at, and the head of the queue is never before it.
JoinInv ==
    /\ join \in Nat /\ FirstPacket <= join
    /\ queue = <<>> /\ inChan # <<>> => inChan[1] = join
    /\ queue # <<>> => join <= HeadNumber

\* The next tag may come out damaged: the record is out of step with the packet
\* at hand, or the queue was emptied and any packet may be the next.
Astray == ~crashed /\ (~RecProofs!InStep \/ (queue = <<>> /\ out # <<>>))

\* Why that is so: damage that has not shown yet is accounted for too, and the
\* packets at hand are those of the stream, from the one the node joins at.
DamageInv ==
    /\ queue # <<>> => FirstPacket <= HeadNumber
    /\ queue = <<>> /\ out = <<>> =>
          IF inChan = <<>> THEN next = FirstPacket ELSE inChan[1] = join
    /\ flvTag \in Seq(Nat \X Nat)
    /\ tagSize \in Nat
    /\ emitted \in Seq([parts : Seq(Nat \X Nat), size : Nat])
    /\ silentGaps \in Nat
    /\ Cardinality(Damaged) + (IF crashed THEN 1 ELSE 0)
          + (IF Astray THEN 1 ELSE 0)
            <= silentGaps + (IF FragAt[join] # 1 THEN 1 ELSE 0)

\* RecvPacket's steps in the composition are RecvPacket's steps of the queue.
LEMMA RecvStepIsQueueStep == RecvStep => RecvPacket
  BY DEF RecvStep, PlayStep, QueueStep, Play, ReshapeStream, ReshapeStreamError,
         RecvPacket

\* The record and the monitor leave the queue alone.
LEMMA StreamStepIsQueueStep == [StreamNext]_streamVars => [Next]_vars
<1>1. ASSUME NEW p \in Packets, ArriveStep(p) PROVE Next
  BY <1>1 DEF ArriveStep, Next
<1>2. RecvStep => Next
  BY RecvStepIsQueueStep DEF Next
<1>3. PrintInfo => UNCHANGED vars
  BY DEF PrintInfo
<1>4. UNCHANGED streamVars => UNCHANGED vars
  BY DEF streamVars
<1> QED BY <1>1, <1>2, <1>3, <1>4 DEF StreamNext, Ended

\* The composition implements RtpQueue: extractFlv, the record and the monitor
\* only restrict what the queue's goroutine and the network do.
THEOREM StreamImplementsQueue == StreamSpec => Spec
<1>1. StreamInit => Init
  BY DEF StreamInit
<1> QED BY <1>1, StreamStepIsQueueStep, PTL DEF StreamSpec, Spec

\* In the whole stream, with and without protect mode, a packet is in the slot
\* of its number and the last slot is not empty.
THEOREM StreamQueueConsistent == StreamSpec => []QueueInv
<1>1. Init => QueueInv
  BY DEF Init, QueueInv, SlotsInPlace, LastPresent, HeadExists
<1>2. Spec => []QueueInv
  BY <1>1, TypeCorrect, NextQueueInv, PTL DEF Spec
<1> QED BY <1>2, StreamImplementsQueue, PTL

\* Without protect mode extractFlv misses no packet number unreported, in the
\* whole stream.
THEOREM StreamGapsReported ==
    ASSUME Protect = FALSE
    PROVE  StreamSpec => []GapsReported
  BY GapsAreReported, StreamImplementsQueue, PTL

\* In the whole stream, in protect mode too, a stored packet leaves the queue
\* only by being played.
THEOREM StreamStoredPacketsPlayed ==
    ASSUME Span < Reach
    PROVE  StreamSpec => StoredPacketsPlayed
  BY StoredPacketsArePlayed, StreamImplementsQueue, PTL

-----------------------------------------------------------------------------
(* Without protect mode queue and record together implement FlvRecord. *)

\* The packet at hand of a queue whose slots hold what they should.
LEMMA AtHandIsHead ==
    TypeOK /\ QueueExact /\ queue # <<>> => AtHand = HeadNumber
<1> SUFFICES ASSUME TypeOK, QueueExact, queue # <<>>
             PROVE  AtHand = HeadNumber
  OBVIOUS
<1>1. /\ queue \in Seq(Slot) /\ Len(queue) \in Nat \ {0} /\ HeadNumber \in Nat
      /\ \A i \in 1 .. Len(queue) : queue[i] \in {HeadNumber + (i - 1), Nil}
  BY QueueNumbers
<1>2. Head(queue) = queue[1] /\ 1 \in 1 .. Len(queue)
  BY <1>1, TailProperties
<1>3. Head(queue) \in {HeadNumber, Nil}
  BY <1>1, <1>2
<1> QED BY <1>3 DEF AtHand, IsFirstOk

\* The same after a step.
LEMMA AtHandIsHeadNext ==
    (TypeOK /\ QueueExact /\ queue # <<>> => AtHand = HeadNumber)'
  BY AtHandIsHead, PTL

\* Taking the first packet fixes the head at the one the node joins at; later
\* ones, and the answers to runQuic, leave the head where it is.
LEMMA HeadKept ==
    ASSUME TypeOK, QueueInv, OrderInv, JoinInv, Recv \/ QuicReply
    PROVE  /\ queue' # <<>>
           /\ HeadNumber' = AtHand
           /\ join <= HeadNumber'
<1>1. CASE Recv /\ queue = <<>>
  <2>1. inChan \in Seq(Packets) /\ inChan # <<>> /\ Enqueue(Head(inChan))
    BY <1>1 DEF TypeOK, Recv
  <2>2. Head(inChan) = join /\ join \in Packets
    BY <1>1, <2>1, TailProperties DEF JoinInv
  <2>3. queue' # <<>> /\ Newest' = join /\ Len(queue') = 1
    BY <1>1, <2>1, <2>2, EnqueueEmpty
  <2>4. HeadNumber' = join
    BY <2>2, <2>3, QueueAssumption DEF HeadNumber, Newest, Packets
  <2>5. AtHand = join
    BY <1>1 DEF AtHand, IsFirstOk
  <2> QED BY <2>2, <2>3, <2>4, <2>5, QueueAssumption DEF Packets
<1>2. ASSUME queue # <<>> PROVE AtHand = HeadNumber /\ join <= HeadNumber
  BY <1>2, AtHandIsHead DEF OrderInv, JoinInv
<1>3. CASE Recv /\ queue # <<>>
  <2>1. queue' # <<>> /\ HeadNumber' = HeadNumber
    BY <1>3, RecvNewest
  <2> QED BY <1>2, <1>3, <2>1
<1>4. CASE QuicReply
  <2>1. queue' # <<>> /\ HeadNumber' = HeadNumber /\ queue # <<>>
    BY <1>4, QuicReplyOrder DEF QueueInv, HeadExists, QuicReply
  <2> QED BY <1>2, <2>1
<1> QED BY <1>1, <1>3, <1>4

\* Dequeue moves to the next packet of the stream.
LEMMA HeadMoves ==
    ASSUME TypeOK, OrderInv, JoinInv, PopHead, Len(queue) > 1
    PROVE  /\ queue' # <<>>
           /\ AtHand \in Packets
           /\ HeadNumber' = AtHand + 1
           /\ join <= HeadNumber'
<1>1. queue # <<>> /\ queue' # <<>> /\ HeadNumber' = HeadNumber + 1
  BY PopHeadExact DEF OrderInv
<1>2. /\ AtHand = HeadNumber /\ join \in Nat /\ FirstPacket <= join
      /\ join <= HeadNumber
  BY <1>1, AtHandIsHead DEF JoinInv, OrderInv
<1>3. /\ Newest \in Packets /\ HeadNumber \in Nat /\ Len(queue) \in Nat \ {0}
      /\ HeadNumber = Newest - Len(queue) + 1
  BY <1>1, QueueNumbers DEF OrderInv
<1>4. HeadNumber \in Packets /\ join <= HeadNumber'
  BY <1>1, <1>2, <1>3, QueueAssumption DEF Packets
<1> QED BY <1>1, <1>2, <1>4

\* Without protect mode every Dequeue finds two slots or more.
LEMMA PopFromTwo ==
    ASSUME TypeOK, OrderInv, DrainPop \/ TakeHead \/ PlayPop
    PROVE  PopHead /\ Len(queue) > 1
<1>1. PaddingWindowSize \in Nat \ {0} /\ Len(queue) \in Nat /\ LengthAtPc
  BY QueueAssumption DEF TypeOK, OrderInv
<1>2. CASE DrainPop
  BY <1>1, <1>2 DEF DrainPop
<1>3. CASE TakeHead
  <2>1. Len(queue) > PaddingWindowSize /\ PopHead
    BY <1>1, <1>3 DEF TakeHead, LengthAtPc
  <2> QED BY <1>1, <2>1
<1>4. CASE PlayPop
  BY <1>4 DEF PlayPop
<1> QED BY <1>2, <1>3, <1>4

\* Every step keeps JoinInv.
LEMMA NextJoinInv ==
    ASSUME Protect = FALSE
    PROVE  TypeOK /\ QueueInv /\ OrderInv /\ JoinInv
             /\ [StreamNext]_streamVars => JoinInv'
<1> SUFFICES ASSUME TypeOK, QueueInv, OrderInv, JoinInv, [StreamNext]_streamVars
             PROVE  JoinInv'
  OBVIOUS
<1>1. ASSUME queue' # <<>>, join' = join, join <= HeadNumber' PROVE JoinInv'
  BY <1>1 DEF JoinInv
<1>2. ASSUME UNCHANGED <<queue, inChan, join>> PROVE JoinInv'
  BY <1>2 DEF JoinInv, HeadNumber
<1>3. ASSUME NEW p \in Packets, ArriveStep(p) PROVE JoinInv'
  <2>1. /\ queue' = queue /\ join' = join /\ inChan' = Append(inChan, p)
        /\ next = FirstPacket => p = join
        /\ inChan \in Seq(Packets)
    BY <1>3 DEF ArriveStep, Arrive, TypeOK
  <2>2. CASE queue # <<>>
    BY <2>1, <2>2 DEF JoinInv, HeadNumber
  <2>3. CASE queue = <<>> /\ inChan # <<>>
    <3>1. inChan'[1] = inChan[1] /\ inChan[1] = join
      BY <2>1, <2>3 DEF JoinInv
    <3> QED BY <2>1, <2>3, <3>1 DEF JoinInv
  <2>4. CASE queue = <<>> /\ inChan = <<>>
    <3>1. DOMAIN inChan = {}
      BY <2>4
    <3>2. next = FirstPacket
      BY <2>4, <3>1 DEF OrderInv, NextIsFrontier
    <3>3. inChan'[1] = p
      BY <2>1, <2>4
    <3> QED BY <2>1, <2>4, <3>2, <3>3 DEF JoinInv
  <2> QED BY <2>2, <2>3, <2>4
<1>4. CASE RecvStep
  <2>1. join' = join
    BY <1>4 DEF RecvStep, PlayStep
  <2>2. CASE Recv \/ QuicReply
    BY <1>1, <2>1, <2>2, HeadKept
  <2>3. CASE RequestLost \/ DrainDone \/ PlayDone
    BY <1>2, <2>1, <2>3 DEF RequestLost, DrainDone, PlayDone
  <2>4. CASE DrainPop \/ TakeHead \/ PlayPop
    BY <1>1, <2>1, <2>4, PopFromTwo, HeadMoves
  <2>5. CASE RequestReshaped \/ ReshapeBufferError
    BY <2>5 DEF RequestReshaped, ReshapeBufferError, Congested
  <2> QED BY <1>4, <2>2, <2>3, <2>4, <2>5
          DEF RecvStep, PlayStep, QueueStep, Play, ReshapeStream, ReshapeStreamError
<1>5. CASE PrintInfo \/ UNCHANGED streamVars
  BY <1>2, <1>5 DEF PrintInfo, streamVars, vars
<1> QED BY <1>3, <1>4, <1>5 DEF StreamNext, Ended

\* A step that keeps the packet at hand and the record is a stuttering step.
LEMMA RecordStutter ==
    ASSUME AtHand' = AtHand, UNCHANGED <<join, recordVars>>
    PROVE  UNCHANGED Rec!vars
  BY DEF recordVars, Rec!vars

\* Dequeue and extractFlv are one step of the record: the stream moves on by one
\* packet, which is parsed or reported as missing.
LEMMA PlayIsRecordStep ==
    ASSUME TypeOK, TypeOK', OrderInv, OrderInv', JoinInv, ~crashed,
           PopHead, Len(queue) > 1, ExtractFlv, UNCHANGED join
    PROVE  Rec!Next
<1>1. AtHand \in Packets /\ AtHand' = AtHand + 1
  BY HeadMoves, AtHandIsHeadNext DEF OrderInv
<1>2. /\ TagAt[AtHand] \in DOMAIN Tags
      /\ TagAt[AtHand + 1] = IF FragAt[AtHand] = Tags[TagAt[AtHand]].frags
                             THEN TagAt[AtHand] + 1 ELSE TagAt[AtHand]
      /\ FragAt[AtHand + 1] = IF FragAt[AtHand] = Tags[TagAt[AtHand]].frags
                              THEN 1 ELSE FragAt[AtHand] + 1
  BY <1>1, LayoutAssumption
<1>3. TagAt[AtHand] <= Len(Tags)
  BY <1>2, TagsAssumption
<1>4. Rec!Advance
  BY <1>1, <1>2, <1>3 DEF Rec!Advance, Rec!Marker
<1>5. Rec!Lost \/ Rec!Deliver
  BY DEF ExtractFlv
<1> QED BY <1>4, <1>5 DEF Rec!Next

\* Every step of the composition is a step of the record or a stuttering one.
LEMMA NextRecord ==
    ASSUME Protect = FALSE
    PROVE  TypeOK /\ TypeOK' /\ QueueInv /\ OrderInv /\ OrderInv' /\ JoinInv
             /\ [StreamNext]_streamVars => [Rec!Next]_(Rec!vars)
<1> SUFFICES ASSUME TypeOK, TypeOK', QueueInv, OrderInv, OrderInv', JoinInv,
                    [StreamNext]_streamVars
             PROVE  Rec!Next \/ UNCHANGED Rec!vars
  OBVIOUS
<1>1. ASSUME UNCHANGED <<queue, join, recordVars>> PROVE UNCHANGED Rec!vars
  <2>1. AtHand' = AtHand
    BY <1>1 DEF AtHand, HeadNumber, IsFirstOk
  <2> QED BY <1>1, <2>1, RecordStutter
<1>2. ASSUME NEW p \in Packets, ArriveStep(p) PROVE UNCHANGED Rec!vars
  BY <1>1, <1>2 DEF ArriveStep, Arrive
<1>3. CASE RecvStep /\ ~crashed
  <2>1. join' = join
    BY <1>3 DEF RecvStep, PlayStep
  <2>2. CASE QueueStep
    <3>1. CASE Recv \/ QuicReply
      <4>1. AtHand' = AtHand
        BY <3>1, HeadKept, AtHandIsHeadNext DEF OrderInv
      <4> QED BY <2>1, <2>2, <4>1, RecordStutter DEF QueueStep
    <3>2. CASE RequestLost \/ DrainDone \/ PlayDone
      BY <1>1, <2>1, <2>2, <3>2 DEF QueueStep, RequestLost, DrainDone, PlayDone
    <3> QED BY <2>2, <3>1, <3>2 DEF QueueStep
  <2>3. CASE Play(DrainPop) \/ Play(TakeHead) \/ Play(PlayPop)
    <3>1. (DrainPop \/ TakeHead \/ PlayPop) /\ ExtractFlv
      BY <2>3 DEF Play
    <3> QED BY <1>3, <2>1, <3>1, PopFromTwo, PlayIsRecordStep
  <2>4. CASE ReshapeStream \/ ReshapeStreamError
    BY <2>4 DEF ReshapeStream, ReshapeStreamError, RequestReshaped,
                ReshapeBufferError, Congested
  <2> QED BY <1>3, <2>2, <2>3, <2>4 DEF RecvStep, PlayStep
<1>4. CASE PrintInfo \/ UNCHANGED streamVars
  BY <1>1, <1>4 DEF PrintInfo, streamVars, vars
<1> QED BY <1>2, <1>3, <1>4 DEF StreamNext, Running, Ended

\* Without protect mode the queue and extractFlv together implement FlvRecord:
\* whatever the network loses, repeats and reorders, extractFlv sees the packets
\* of the stream one after the other from the one the node joined at.
THEOREM StreamImplementsRecord ==
    ASSUME Protect = FALSE
    PROVE  StreamSpec => ImplementsRecord
<1>1. StreamInit => Rec!Init /\ JoinInv
  <2> SUFFICES ASSUME StreamInit PROVE Rec!Init /\ JoinInv
    OBVIOUS
  <2>1. queue = <<>> /\ inChan = <<>> /\ Rec!Init /\ join \in Nat
        /\ FirstPacket <= join
    BY QueueAssumption DEF StreamInit, Init
  <2> QED BY <2>1 DEF JoinInv
<1>2. StreamSpec => [](TypeOK /\ QueueInv /\ OrderInv)
  BY StreamImplementsQueue, StreamQueueConsistent, OrderInvariant, PTL
<1> QED BY <1>1, <1>2, NextJoinInv, NextRecord, PTL
        DEF StreamSpec, ImplementsRecord, Rec!Spec

-----------------------------------------------------------------------------
(* What FlvRecordProofs shows of the record holds in the stream. *)

\* The two instances of FlvRecord do the same.
LEMMA SameSteps ==
    /\ Rec!Marker = RecProofs!Marker /\ Rec!Packet = RecProofs!Packet
    /\ Rec!Lost => RecProofs!Lost
    /\ Rec!Deliver => RecProofs!Deliver
<1>1. Rec!Marker = RecProofs!Marker /\ Rec!Packet = RecProofs!Packet
      /\ Rec!Parsed = RecProofs!Parsed /\ Rec!Declared = RecProofs!Declared
      /\ Rec!Fits = RecProofs!Fits
  BY DEF Rec!Marker, RecProofs!Marker, Rec!Packet, RecProofs!Packet,
         Rec!Parsed, RecProofs!Parsed, Rec!IsTagHead, RecProofs!IsTagHead,
         Rec!Declared, RecProofs!Declared, Rec!Fits, RecProofs!Fits
<1>2. Rec!Reset => RecProofs!Reset
  BY DEF Rec!Reset, RecProofs!Reset
<1>3. Rec!Lost => RecProofs!Lost
  BY <1>1, <1>2 DEF Rec!Lost, RecProofs!Lost
<1>4. Rec!Deliver => RecProofs!Deliver
  <2>1. Rec!Skip => RecProofs!Skip
    BY <1>1 DEF Rec!Skip, RecProofs!Skip
  <2>2. Rec!FirstFragment => RecProofs!FirstFragment
    BY <1>1 DEF Rec!FirstFragment, RecProofs!FirstFragment
  <2>3. Rec!FirstFragmentPanics => RecProofs!FirstFragmentPanics
    BY <1>1 DEF Rec!FirstFragmentPanics, RecProofs!FirstFragmentPanics
  <2>4. Rec!MiddleFragment => RecProofs!MiddleFragment
    BY <1>1 DEF Rec!MiddleFragment, RecProofs!MiddleFragment
  <2>5. Rec!Overflow => RecProofs!Overflow
    BY <1>1, <1>2 DEF Rec!Overflow, RecProofs!Overflow
  <2>6. Rec!LastFragment => RecProofs!LastFragment
    BY <1>1, <1>2 DEF Rec!LastFragment, RecProofs!LastFragment, Rec!Emit, RecProofs!Emit
  <2>7. Rec!WholeTag => RecProofs!WholeTag
    BY <1>1, <1>2 DEF Rec!WholeTag, RecProofs!WholeTag, Rec!Emit, RecProofs!Emit
  <2> QED BY <2>1, <2>2, <2>3, <2>4, <2>5, <2>6, <2>7
          DEF Rec!Deliver, RecProofs!Deliver
<1> QED BY <1>1, <1>3, <1>4

\* They are the same specification.
LEMMA SameRecord == Rec!Spec => RecProofs!Spec
<1>1. Rec!Init => RecProofs!Init
  BY DEF Rec!Init, RecProofs!Init
<1>2. Rec!Advance => RecProofs!Advance
  BY SameSteps DEF Rec!Advance, RecProofs!Advance
<1>3. [Rec!Next]_(Rec!vars) => [RecProofs!Next]_(RecProofs!vars)
  <2>1. UNCHANGED Rec!vars => UNCHANGED RecProofs!vars
    BY DEF Rec!vars, RecProofs!vars
  <2> QED BY <1>2, <2>1, SameSteps DEF Rec!Next, RecProofs!Next
<1> QED BY <1>1, <1>3, PTL DEF Rec!Spec, RecProofs!Spec

\* Without protect mode, from the network to the finished tags: whatever packets
\* are lost, repeated or reordered and whatever the cloud answers, the stream
\* hands on whole tags, in order and each at most once, and extractFlv does not
\* panic; the one exception is the tag the node joined in the middle of.
THEOREM StreamTagsAreWhole ==
    ASSUME Protect = FALSE
    PROVE  StreamSpec => [](Rec!WholeTags /\ Rec!TagsInOrder /\ Rec!PanicOnlyAtJoin)
<1>1. RecProofs!WholeTags => Rec!WholeTags
  BY DEF RecProofs!WholeTags, Rec!WholeTags, RecProofs!Whole, Rec!Whole,
         RecProofs!TagOf, Rec!TagOf, RecProofs!JoinedInside, Rec!JoinedInside
<1>2. RecProofs!TagsInOrder => Rec!TagsInOrder
  BY DEF RecProofs!TagsInOrder, Rec!TagsInOrder, RecProofs!TagOf, Rec!TagOf
<1>3. RecProofs!PanicOnlyAtJoin => Rec!PanicOnlyAtJoin
  BY DEF RecProofs!PanicOnlyAtJoin, Rec!PanicOnlyAtJoin,
         RecProofs!JoinedInside, Rec!JoinedInside
<1>4. RecProofs!Spec => [](/\ RecProofs!WholeTags
                           /\ RecProofs!TagsInOrder
                           /\ RecProofs!PanicOnlyAtJoin)
  BY RecProofs!EmittedTagsAreWhole, RecProofs!EmittedTagsInOrder,
     RecProofs!PanicsOnlyAtJoin, TagsAssumption, PTL
<1> QED BY <1>1, <1>2, <1>3, <1>4, SameRecord, StreamImplementsRecord, PTL
        DEF ImplementsRecord

\* Without protect mode and joined at the start of a tag, it hands on exactly the
\* tags that arrive in sync, whatever the network and the cloud do.
THEOREM StreamEmitsTagsInSync ==
    ASSUME Protect = FALSE
    PROVE  StreamSpec => []Rec!ExactlyInSyncEmitted
<1>1. \A t : Rec!Arrived(t) <=> RecProofs!Arrived(t)
  BY DEF Rec!Arrived, RecProofs!Arrived
<1>2. \A t : Rec!InSync(t) <=> RecProofs!InSync(t)
  BY <1>1 DEF Rec!InSync, RecProofs!InSync, Rec!InOnePiece, RecProofs!InOnePiece
<1>3. RecProofs!ExactlyInSyncEmitted => Rec!ExactlyInSyncEmitted
  BY <1>2 DEF Rec!ExactlyInSyncEmitted, RecProofs!ExactlyInSyncEmitted,
              RecProofs!TagOf, Rec!TagOf, RecProofs!JoinedInside, Rec!JoinedInside
<1>4. RecProofs!Spec => []RecProofs!ExactlyInSyncEmitted
  BY RecProofs!ExactlyTheTagsInSync, TagsAssumption, PTL
<1> QED BY <1>3, <1>4, SameRecord, StreamImplementsRecord, PTL
        DEF ImplementsRecord

-----------------------------------------------------------------------------
(* What a gap can do that the record is not told of, with and without protect  *)
(* mode.                                                                       *)

Finished == [parts : Seq(Nat \X Nat), size : Nat]

\* One more tag handed on is at most one more damaged tag, none if it is whole.
LEMMA DamagedAppend ==
    ASSUME emitted \in Seq(Finished), NEW e \in Finished,
           emitted' = Append(emitted, e)
    PROVE  /\ Cardinality(Damaged) \in Nat /\ Cardinality(Damaged)' \in Nat
           /\ Cardinality(Damaged)' <= Cardinality(Damaged) + 1
           /\ e = Rec!Whole(Rec!TagOf(e)) =>
                Cardinality(Damaged)' = Cardinality(Damaged)
<1> DEFINE n == Len(emitted)
<1>1. /\ n \in Nat /\ DOMAIN emitted = 1 .. n /\ DOMAIN emitted' = 1 .. n + 1
      /\ emitted'[n + 1] = e /\ \A i \in 1 .. n : emitted'[i] = emitted[i]
  OBVIOUS
<1>2. Damaged' = {i \in DOMAIN emitted' :
                    emitted'[i] # Rec!Whole(Rec!TagOf(emitted'[i]))}
  BY DEF Damaged, Rec!Whole, Rec!TagOf
<1>3. Damaged = {i \in 1 .. n : emitted[i] # Rec!Whole(Rec!TagOf(emitted[i]))}
  BY <1>1 DEF Damaged
<1> HIDE DEF n
<1>4. 1 .. n + 1 = (1 .. n) \cup {n + 1} /\ n + 1 \notin 1 .. n
  BY <1>1
<1>5. Damaged' = IF e = Rec!Whole(Rec!TagOf(e)) THEN Damaged ELSE Damaged \cup {n + 1}
  BY <1>1, <1>2, <1>3, <1>4
<1>6. IsFiniteSet(Damaged) /\ n + 1 \notin Damaged
  <2>1. IsFiniteSet(1 .. n)
    BY <1>1, FS_Interval
  <2> QED BY <1>3, <1>4, <2>1, FS_Subset
<1>7. Cardinality(Damaged) \in Nat
  BY <1>6, FS_CardinalityType
<1>8. Cardinality(Damaged \cup {n + 1}) = Cardinality(Damaged) + 1
  BY <1>6, FS_AddElement
<1>9. Cardinality(Damaged)' = Cardinality(Damaged')
  OBVIOUS
<1> QED BY <1>5, <1>7, <1>8, <1>9

\* The damaged tags can be counted.
LEMMA DamagedType ==
    ASSUME emitted \in Seq(Finished)
    PROVE  Cardinality(Damaged) \in Nat
<1>1. IsFiniteSet(1 .. Len(emitted)) /\ Damaged \subseteq 1 .. Len(emitted)
  BY FS_Interval DEF Damaged
<1> QED BY <1>1, FS_Subset, FS_CardinalityType

\* One call of extractFlv: a record in step hands on no damaged tag and does not
\* panic, one out of step does so once at most and is then in step.
LEMMA ExtractDamage ==
    ASSUME flvTag \in Seq(Nat \X Nat), tagSize \in Nat, emitted \in Seq(Finished),
           AtHand \in Packets, ~crashed, ExtractFlv
    PROVE  /\ flvTag' \in Seq(Nat \X Nat) /\ tagSize' \in Nat
           /\ emitted' \in Seq(Finished)
           /\ Cardinality(Damaged) \in Nat /\ Cardinality(Damaged)' \in Nat
           /\ Cardinality(Damaged)' + (IF crashed' THEN 1 ELSE 0)
                <= Cardinality(Damaged) + (IF RecProofs!InStep THEN 0 ELSE 1)
           /\ AtHand' = AtHand + 1 =>
                Cardinality(Damaged)' + (IF crashed' THEN 1 ELSE 0)
                  + (IF crashed' \/ RecProofs!InStep' THEN 0 ELSE 1)
                    <= Cardinality(Damaged) + (IF RecProofs!InStep THEN 0 ELSE 1)
<1>1. /\ TagAt[AtHand] \in DOMAIN Tags
      /\ FragAt[AtHand] \in 1 .. Tags[TagAt[AtHand]].frags
      /\ TagAt[AtHand + 1] = IF FragAt[AtHand] = Tags[TagAt[AtHand]].frags
                             THEN TagAt[AtHand] + 1 ELSE TagAt[AtHand]
      /\ FragAt[AtHand + 1] = IF FragAt[AtHand] = Tags[TagAt[AtHand]].frags
                              THEN 1 ELSE FragAt[AtHand] + 1
  BY LayoutAssumption
<1>2. AtHand' = AtHand + 1 => RecProofs!Moves
  BY <1>1 DEF RecProofs!Moves, RecProofs!Marker
<1>3. RecProofs!RecordTyped
  BY DEF RecProofs!RecordTyped, RecProofs!Piece, RecProofs!Entry, Finished
<1>4. RecProofs!Lost \/ RecProofs!Deliver
  BY SameSteps DEF ExtractFlv
<1> DEFINE Kept == /\ emitted' = emitted /\ crashed' = crashed
                   /\ RecProofs!InStep /\ RecProofs!Moves => RecProofs!InStep'
           Handed(e) == /\ emitted' = Append(emitted, e)
                        /\ crashed' = crashed
                        /\ RecProofs!Moves => RecProofs!InStep'
                        /\ RecProofs!InStep => e = RecProofs!Whole(TagAt[AtHand])
           Panicked == ~RecProofs!InStep /\ crashed' = TRUE /\ emitted' = emitted
<1>5. /\ RecProofs!RecordTyped'
      /\ Kept \/ (\E e \in RecProofs!Entry : Handed(e)) \/ Panicked
  BY <1>1, <1>3, <1>4, RecProofs!StepDamage, TagsAssumption
<1>6. flvTag' \in Seq(Nat \X Nat) /\ tagSize' \in Nat /\ emitted' \in Seq(Finished)
  BY <1>5 DEF RecProofs!RecordTyped, RecProofs!Piece, RecProofs!Entry, Finished
<1>7. emitted' = emitted => Cardinality(Damaged)' = Cardinality(Damaged)
  BY DEF Damaged, Rec!Whole, Rec!TagOf
<1>8. Cardinality(Damaged) \in Nat
  BY DamagedType
<1>9. CASE Kept
  BY <1>2, <1>6, <1>7, <1>8, <1>9
<1>10. ASSUME NEW e \in RecProofs!Entry, Handed(e)
       PROVE  /\ Cardinality(Damaged)' \in Nat /\ ~crashed'
              /\ Cardinality(Damaged)'
                   <= Cardinality(Damaged) + (IF RecProofs!InStep THEN 0 ELSE 1)
              /\ AtHand' = AtHand + 1 => RecProofs!InStep'
  <2>1. e \in Finished /\ emitted' = Append(emitted, e) /\ crashed' = crashed
    BY <1>10 DEF RecProofs!Piece, RecProofs!Entry, Finished
  <2>2. RecProofs!InStep => e = Rec!Whole(Rec!TagOf(e))
    <3>1. 1 \in 1 .. Tags[TagAt[AtHand]].frags
      <4>1. \A t \in 1 .. Len(Tags) : Tags[t] \in [frags : Nat \ {0}, av : BOOLEAN]
        BY TagsAssumption, ElementOfSeq
      <4>2. TagAt[AtHand] \in 1 .. Len(Tags)
        BY <1>1, TagsAssumption
      <4>3. Tags[TagAt[AtHand]].frags \in Nat \ {0}
        BY <4>1, <4>2
      <4> QED BY <4>3
    <3>2. RecProofs!InStep => e = Rec!Whole(TagAt[AtHand])
      BY <1>10 DEF RecProofs!Whole, Rec!Whole
    <3>3. e = Rec!Whole(TagAt[AtHand]) => Rec!TagOf(e) = TagAt[AtHand]
      BY <3>1 DEF Rec!Whole, Rec!TagOf
    <3> QED BY <3>2, <3>3
  <2>3. /\ Cardinality(Damaged)' \in Nat
        /\ Cardinality(Damaged)' <= Cardinality(Damaged) + 1
        /\ e = Rec!Whole(Rec!TagOf(e)) =>
             Cardinality(Damaged)' = Cardinality(Damaged)
    BY <2>1, DamagedAppend
  <2>4. AtHand' = AtHand + 1 => RecProofs!InStep'
    BY <1>2, <1>10
  <2> QED BY <1>8, <2>1, <2>2, <2>3, <2>4
<1>11. CASE Panicked
  BY <1>6, <1>7, <1>8, <1>11
<1>12. CASE \E e \in RecProofs!Entry : Handed(e)
  <2> HIDE DEF Handed
  <2>1. /\ Cardinality(Damaged)' \in Nat /\ ~crashed'
        /\ Cardinality(Damaged)'
             <= Cardinality(Damaged) + (IF RecProofs!InStep THEN 0 ELSE 1)
        /\ AtHand' = AtHand + 1 => RecProofs!InStep'
    BY <1>10, <1>12, Zenon
  <2> QED BY <1>6, <1>8, <2>1
<1> HIDE DEF Kept, Handed, Panicked
<1> QED BY <1>5, <1>9, <1>11, <1>12, Zenon

\* The head of the queue is a packet of the stream, and what is at hand.
LEMMA HeadIsPacket ==
    ASSUME TypeOK, QueueExact, queue # <<>>, FirstPacket <= HeadNumber
    PROVE  AtHand = HeadNumber /\ AtHand \in Packets
<1>1. AtHand = HeadNumber
  BY AtHandIsHead
<1>2. /\ Newest \in Packets /\ HeadNumber \in Nat /\ Len(queue) \in Nat \ {0}
      /\ HeadNumber = Newest - Len(queue) + 1
  BY QueueNumbers
<1> QED BY <1>1, <1>2, QueueAssumption DEF Packets

\* Enqueue leaves the head where it is or, in an empty queue, sets it.
LEMMA EnqueueHead ==
    ASSUME TypeOK, QueueInv, SpanInv, Span < Reach, Recv \/ QuicReply
    PROVE  /\ queue' # <<>>
           /\ queue # <<>> => HeadNumber' = HeadNumber
           /\ queue = <<>> => HeadNumber' = inChan[1] /\ inChan[1] \in Packets
<1>1. CASE Recv /\ queue = <<>>
  <2>1. inChan[1] \in Packets /\ Enqueue(inChan[1])
    BY <1>1, TailProperties DEF TypeOK, Recv
  <2>2. queue' # <<>> /\ Newest' = inChan[1] /\ Len(queue') = 1
    BY <1>1, <2>1, EnqueueEmpty
  <2>3. HeadNumber' = inChan[1]
    BY <2>1, <2>2, QueueAssumption DEF HeadNumber, Newest, Packets
  <2> QED BY <1>1, <2>1, <2>2, <2>3
<1>2. CASE Recv /\ queue # <<>>
  <2>1. /\ inChan[1] \in Packets /\ Enqueue(inChan[1])
        /\ HeadNumber < inChan[1] + Reach
        /\ inChan[1] <= HeadNumber + Span
    BY <1>2, RecvInReach
  <2>2. HeadNumber \in Nat /\ inChan[1] \in Nat
    BY <1>2, <2>1, QueueNumbers, QueueAssumption DEF SpanInv, Packets
  <2>3. inChan[1] <= HeadNumber + Reach
    BY <2>1, <2>2, SpanType
  <2> QED BY <1>2, <2>1, <2>3, EnqueueExact DEF SpanInv
<1>3. CASE QuicReply
  <2>1. queue # <<>> /\ HeadExists /\ pc = "quic"
    BY <1>3 DEF QuicReply, QueueInv, HeadExists
  <2>2. PICK p \in Replies : Enqueue(p)
    BY <1>3 DEF QuicReply
  <2>3. CASE p = Nil
    <3>1. queue' = queue
      BY <2>2, <2>3 DEF Enqueue, Useless
    <3> QED BY <2>1, <3>1 DEF HeadNumber
  <2>4. CASE p # Nil
    <3>1. p \in Packets /\ p <= HeadNumber /\ HeadNumber < p + Reach
      BY <2>1, <2>4, QuicReplyInReach
    <3>2. HeadNumber \in Nat /\ p \in Nat
      BY <2>1, <3>1, QueueNumbers, QueueAssumption DEF SpanInv, Packets
    <3>3. p <= HeadNumber + Reach
      BY <3>1, <3>2, SpanType
    <3> QED BY <2>1, <2>2, <3>1, <3>3, EnqueueExact DEF SpanInv
  <2> QED BY <2>3, <2>4
<1> QED BY <1>1, <1>2, <1>3

\* reshape moves the head on.
LEMMA ReshapeHead ==
    ASSUME TypeOK, QueueExact, NEW k \in 2 .. Len(queue), Reshape(k)
    PROVE  queue # <<>> /\ queue' # <<>> /\ HeadNumber <= HeadNumber'
<1> DEFINE d == k - 1
<1>1. /\ queue \in Seq(Slot) /\ Len(queue) \in Nat /\ k \in 1 .. Len(queue)
      /\ queue # <<>>
  BY DEF TypeOK, Slot
<1>2. /\ queue' \in Seq(Slot) /\ Len(queue') = Len(queue) - k + 1
      /\ \A j \in 1 .. Len(queue) - k + 1 : queue'[j] = queue[k + j - 1]
      /\ firstSeq' = U16(firstSeq + d)
  BY <1>1, SuffixProperties DEF Reshape
<1>3. /\ d \in Nat \ {0} /\ d < Len(queue) /\ Len(queue') = Len(queue) - d
      /\ \A j \in 1 .. Len(queue) - d : queue'[j] = queue[j + d]
  BY <1>1, <1>2
<1> HIDE DEF d
<1>4. queue' # <<>> /\ HeadNumber' = HeadNumber + d
  BY <1>1, <1>2, <1>3, DropExact
<1>5. HeadNumber \in Nat
  BY <1>1, QueueNumbers
<1> QED BY <1>1, <1>3, <1>4, <1>5

\* The part of DamageInv that is about the packets.
StreamPlace ==
    /\ queue # <<>> => FirstPacket <= HeadNumber
    /\ queue = <<>> /\ out = <<>> =>
          IF inChan = <<>> THEN next = FirstPacket ELSE inChan[1] = join

\* A step that leaves the record alone and does not lead it astray.
LEMMA DamageKept ==
    ASSUME DamageInv, UNCHANGED <<join, recordVars, silentGaps>>,
           Astray' => Astray, StreamPlace'
    PROVE  DamageInv'
<1>1. /\ join' = join /\ flvTag' = flvTag /\ tagSize' = tagSize
      /\ crashed' = crashed /\ emitted' = emitted /\ silentGaps' = silentGaps
  BY DEF recordVars
<1>2. Cardinality(Damaged)' = Cardinality(Damaged)
  BY <1>1 DEF Damaged, Rec!Whole, Rec!TagOf
<1>3. Cardinality(Damaged) \in Nat
  BY DamagedType DEF DamageInv, Finished
<1>4. (Cardinality(Damaged) + (IF crashed THEN 1 ELSE 0)
         + (IF Astray THEN 1 ELSE 0)
           <= silentGaps + (IF FragAt[join] # 1 THEN 1 ELSE 0))'
  BY <1>1, <1>2, <1>3 DEF DamageInv
<1> QED BY <1>1, <1>4 DEF DamageInv, StreamPlace

\* InStep depends on the packet at hand and the record.
LEMMA InStepKept ==
    ASSUME AtHand' = AtHand, UNCHANGED recordVars
    PROVE  RecProofs!InStep' <=> RecProofs!InStep
  BY DEF recordVars, RecProofs!InStep, RecProofs!Before

\* Arrivals and the steps of the goroutine that leave the record alone.
LEMMA DamageQueueStep ==
    ASSUME TypeOK, TypeOK', QueueInv, SpanInv, SpanInv', Span < Reach, DamageInv,
           ~crashed, UNCHANGED <<join, recordVars, silentGaps>>,
           \/ \E p \in Packets : Arrive(p) /\ (next = FirstPacket => p = join)
           \/ Recv \/ RequestLost \/ QuicReply \/ DrainDone \/ PlayDone
           \/ UNCHANGED vars
    PROVE  DamageInv'
<1>1. join' = join /\ crashed' = crashed
  BY DEF recordVars
<1>2. ASSUME queue' = queue, out' = out, StreamPlace' PROVE DamageInv'
  <2>1. AtHand' = AtHand
    BY <1>1, <1>2 DEF AtHand, HeadNumber, IsFirstOk
  <2>2. Astray' => Astray
    BY <1>1, <1>2, <2>1, InStepKept DEF Astray
  <2> QED BY <1>2, <2>2, DamageKept
<1>3. ASSUME UNCHANGED <<queue, out, inChan, next>> PROVE DamageInv'
  <2>1. StreamPlace'
    BY <1>1, <1>3 DEF StreamPlace, DamageInv, HeadNumber
  <2> QED BY <1>2, <1>3, <2>1
<1>4. ASSUME NEW p \in Packets, Arrive(p), next = FirstPacket => p = join
      PROVE  DamageInv'
  <2>1. /\ queue' = queue /\ out' = out /\ inChan' = Append(inChan, p)
        /\ inChan \in Seq(Packets)
    BY <1>4 DEF Arrive, TypeOK
  <2>2. inChan' # <<>> /\ inChan'[1] = IF inChan = <<>> THEN p ELSE inChan[1]
    BY <2>1
  <2>3. StreamPlace'
    BY <1>1, <1>4, <2>1, <2>2 DEF StreamPlace, DamageInv, HeadNumber
  <2> QED BY <1>2, <2>1, <2>3
<1>5. CASE Recv \/ QuicReply
  <2>1. /\ queue' # <<>>
        /\ queue # <<>> => HeadNumber' = HeadNumber
        /\ queue = <<>> => HeadNumber' = inChan[1] /\ inChan[1] \in Packets
    BY <1>5, EnqueueHead
  <2>2. queue = <<>> => inChan # <<>>
    BY <1>5 DEF Recv, QuicReply, QueueInv, HeadExists
  <2>3. FirstPacket <= HeadNumber'
    BY <2>1, QueueAssumption DEF DamageInv, Packets
  <2>4. AtHand' = HeadNumber'
    BY <2>1, AtHandIsHeadNext DEF SpanInv
  <2>5. CASE queue # <<>> \/ out = <<>>
    <3>1. AtHand' = AtHand
      <4>1. CASE queue # <<>>
        BY <2>1, <2>4, <4>1, AtHandIsHead DEF SpanInv
      <4>2. CASE queue = <<>> /\ out = <<>>
        <5>1. AtHand = join
          BY <4>2 DEF AtHand, IsFirstOk
        <5>2. inChan[1] = join
          BY <2>2, <4>2 DEF DamageInv
        <5> QED BY <2>1, <2>4, <4>2, <5>1, <5>2
      <4> QED BY <2>5, <4>1, <4>2
    <3>2. Astray' => Astray
      BY <1>1, <2>1, <3>1, InStepKept DEF Astray
    <3> QED BY <2>1, <2>3, <3>2, DamageKept DEF StreamPlace
  <2>6. CASE queue = <<>> /\ out # <<>>
    <3>1. Astray
      BY <2>6 DEF Astray
    <3> QED BY <2>1, <2>3, <3>1, DamageKept DEF StreamPlace
  <2> QED BY <2>5, <2>6
<1>6. CASE RequestLost \/ DrainDone \/ PlayDone \/ UNCHANGED vars
  BY <1>3, <1>6 DEF RequestLost, DrainDone, PlayDone, vars
<1> QED BY <1>4, <1>5, <1>6

\* reshape, with the reset of the record or without it.
LEMMA DamageReshape ==
    ASSUME TypeOK, TypeOK', SpanInv, SpanInv', DamageInv, ~crashed,
           UNCHANGED join, ReshapeStream \/ ReshapeStreamError
    PROVE  DamageInv'
<1>1. PICK k \in 2 .. Len(queue) : Reshape(k)
  BY DEF ReshapeStream, ReshapeStreamError, RequestReshaped, ReshapeBufferError
<1>2. queue # <<>> /\ queue' # <<>> /\ HeadNumber <= HeadNumber'
  BY <1>1, ReshapeHead DEF SpanInv
<1>3. HeadNumber \in Nat /\ HeadNumber' \in Nat /\ FirstPacket \in Nat
  BY <1>2, QueueAssumption DEF SpanInv, QueueExact
<1>4. StreamPlace'
  BY <1>2, <1>3 DEF StreamPlace, DamageInv
<1>5. /\ join' = join /\ crashed' = crashed /\ emitted' = emitted
      /\ flvTag' \in Seq(Nat \X Nat) /\ tagSize' \in Nat
  <2>1. \/ flvTag' = flvTag /\ tagSize' = tagSize
        \/ flvTag' = <<>> /\ tagSize' = 0
    BY DEF ReshapeStream, ReshapeStreamError, Rec!Reset, recordVars
  <2>2. flvTag \in Seq(Nat \X Nat) /\ tagSize \in Nat
    BY DEF DamageInv
  <2>3. flvTag' \in Seq(Nat \X Nat) /\ tagSize' \in Nat
    <3>1. CASE flvTag' = flvTag /\ tagSize' = tagSize
      BY <2>2, <3>1, Zenon
    <3>2. CASE flvTag' = <<>> /\ tagSize' = 0
      BY <3>2
    <3> QED BY <2>1, <3>1, <3>2
  <2>4. crashed' = crashed /\ emitted' = emitted
    BY DEF ReshapeStream, ReshapeStreamError, recordVars
  <2> QED BY <2>3, <2>4, Zenon
<1>6. /\ Cardinality(Damaged) \in Nat
      /\ Cardinality(Damaged)' = Cardinality(Damaged)
  BY <1>5, DamagedType DEF Damaged, Rec!Whole, Rec!TagOf, DamageInv, Finished
<1>7. CASE ReshapeStream
  <2>1. flvTag' = <<>> /\ jumpToNextHead' = TRUE /\ silentGaps' = silentGaps
    BY <1>7 DEF ReshapeStream, Rec!Reset
  <2>2. ~Astray'
    BY <1>2, <2>1 DEF Astray, RecProofs!InStep
  <2>3. (Cardinality(Damaged) + (IF crashed THEN 1 ELSE 0)
           + (IF Astray THEN 1 ELSE 0)
             <= silentGaps + (IF FragAt[join] # 1 THEN 1 ELSE 0))'
    BY <1>5, <1>6, <2>1, <2>2 DEF DamageInv
  <2> QED BY <1>4, <1>5, <2>1, <2>3 DEF DamageInv, StreamPlace
<1>8. CASE ReshapeStreamError
  <2>1. silentGaps' = silentGaps + 1 /\ silentGaps \in Nat
    BY <1>8 DEF ReshapeStreamError, DamageInv
  <2>2. (Cardinality(Damaged) + (IF crashed THEN 1 ELSE 0)
           + (IF Astray THEN 1 ELSE 0)
             <= silentGaps + (IF FragAt[join] # 1 THEN 1 ELSE 0))'
    BY <1>5, <1>6, <2>1 DEF DamageInv
  <2> QED BY <1>4, <1>5, <2>1, <2>2 DEF DamageInv, StreamPlace
<1> QED BY <1>7, <1>8

\* Dequeue with extractFlv.
LEMMA DamagePlay ==
    ASSUME TypeOK, TypeOK', SpanInv, SpanInv', DamageInv, ~crashed, UNCHANGED join,
           PopHead, ExtractFlv,
           silentGaps' = IF queue' = <<>> THEN silentGaps + 1 ELSE silentGaps
    PROVE  DamageInv'
<1>1. queue # <<>> /\ out' # <<>>
  BY DEF PopHead, TypeOK
<1>2. AtHand = HeadNumber /\ AtHand \in Packets
  BY <1>1, HeadIsPacket DEF SpanInv, DamageInv
<1>3. /\ flvTag' \in Seq(Nat \X Nat) /\ tagSize' \in Nat
      /\ emitted' \in Seq(Finished)
      /\ Cardinality(Damaged) \in Nat /\ Cardinality(Damaged)' \in Nat
      /\ Cardinality(Damaged)' + (IF crashed' THEN 1 ELSE 0)
           <= Cardinality(Damaged) + (IF RecProofs!InStep THEN 0 ELSE 1)
      /\ AtHand' = AtHand + 1 =>
           Cardinality(Damaged)' + (IF crashed' THEN 1 ELSE 0)
             + (IF crashed' \/ RecProofs!InStep' THEN 0 ELSE 1)
               <= Cardinality(Damaged) + (IF RecProofs!InStep THEN 0 ELSE 1)
  BY <1>2, ExtractDamage DEF DamageInv, Finished
<1>4. Astray <=> ~RecProofs!InStep
  BY <1>1 DEF Astray
<1>5. ASSUME queue' # <<>> PROVE HeadNumber' = HeadNumber + 1 /\ AtHand' = AtHand + 1
  <2>1. queue \in Seq(Slot) /\ queue' = Tail(queue)
    BY DEF PopHead, TypeOK, Slot
  <2>2. /\ Len(queue') = Len(queue) - 1 /\ Len(queue) \in Nat
        /\ queue' \in Seq(Slot)
    BY <1>1, <2>1, TailProperties
  <2>3. Len(queue') # 0
    BY <1>5, <2>2, EmptySeq
  <2>4. Len(queue) > 1
    BY <2>2, <2>3
  <2>5. HeadNumber' = HeadNumber + 1
    BY <2>4, PopHeadExact DEF SpanInv
  <2> QED BY <1>2, <1>5, <2>5, AtHandIsHeadNext DEF SpanInv
<1>6. StreamPlace'
  <2>1. queue' # <<>> => FirstPacket <= HeadNumber'
    BY <1>1, <1>2, <1>5, QueueAssumption DEF DamageInv, Packets
  <2> QED BY <1>1, <2>1 DEF StreamPlace
<1>7. (Cardinality(Damaged) + (IF crashed THEN 1 ELSE 0)
         + (IF Astray THEN 1 ELSE 0)
           <= silentGaps + (IF FragAt[join] # 1 THEN 1 ELSE 0))'
  <2>1. /\ Cardinality(Damaged) + (IF RecProofs!InStep THEN 0 ELSE 1)
             <= silentGaps + (IF FragAt[join] # 1 THEN 1 ELSE 0)
        /\ silentGaps \in Nat
    BY <1>3, <1>4 DEF DamageInv
  <2>2. CASE queue' = <<>>
    BY <1>3, <2>1, <2>2
  <2>3. CASE queue' # <<>>
    <3>1. Astray' <=> ~(crashed' \/ RecProofs!InStep')
      BY <2>3 DEF Astray
    <3> QED BY <1>3, <1>5, <2>1, <2>3, <3>1
  <2> QED BY <2>2, <2>3
<1>8. silentGaps' \in Nat
  BY DEF DamageInv
<1> QED BY <1>3, <1>6, <1>7, <1>8 DEF DamageInv, StreamPlace, Finished

\* Every step keeps DamageInv, in protect mode too.
LEMMA NextDamageInv ==
    ASSUME Span < Reach
    PROVE  TypeOK /\ TypeOK' /\ QueueInv /\ SpanInv /\ SpanInv' /\ DamageInv
             /\ [StreamNext]_streamVars => DamageInv'
<1> SUFFICES ASSUME TypeOK, TypeOK', QueueInv, SpanInv, SpanInv', DamageInv,
                    [StreamNext]_streamVars
             PROVE  DamageInv'
  OBVIOUS
<1>1. ASSUME NEW p \in Packets, ArriveStep(p), ~crashed PROVE DamageInv'
  BY <1>1, DamageQueueStep DEF ArriveStep
<1>2. CASE RecvStep /\ ~crashed
  <2>1. join' = join
    BY <1>2 DEF RecvStep, PlayStep
  <2>2. CASE QueueStep
    BY <1>2, <2>1, <2>2, DamageQueueStep DEF QueueStep
  <2>3. CASE Play(DrainPop) \/ Play(TakeHead) \/ Play(PlayPop)
    <3>1. /\ PopHead /\ ExtractFlv
          /\ silentGaps' = IF queue' = <<>> THEN silentGaps + 1 ELSE silentGaps
      BY <2>3 DEF Play, DrainPop, TakeHead, PlayPop
    <3> QED BY <1>2, <2>1, <3>1, DamagePlay
  <2>4. CASE ReshapeStream \/ ReshapeStreamError
    BY <1>2, <2>1, <2>4, DamageReshape
  <2> QED BY <1>2, <2>2, <2>3, <2>4 DEF RecvStep, PlayStep
<1>3. CASE PrintInfo \/ UNCHANGED streamVars
  <2>1. UNCHANGED <<join, recordVars, silentGaps>> /\ UNCHANGED vars
    BY <1>3 DEF PrintInfo, streamVars
  <2>2. UNCHANGED <<queue, out, inChan, next, crashed>>
    BY <2>1 DEF vars, recordVars
  <2>3. AtHand' = AtHand
    BY <2>1, <2>2 DEF AtHand, HeadNumber, IsFirstOk
  <2>4. Astray' => Astray
    BY <2>1, <2>2, <2>3, InStepKept DEF Astray
  <2>5. StreamPlace'
    BY <2>1, <2>2 DEF StreamPlace, DamageInv, HeadNumber
  <2> QED BY <2>1, <2>4, <2>5, DamageKept
<1> QED BY <1>1, <1>2, <1>3 DEF StreamNext, Running, Ended

\* In the whole stream, in protect mode too: a damaged tag and the panic of
\* extractFlv have their causes in a join inside a tag, a reshape that failed to
\* set the buffer or an emptied queue, and each of these spoils at most one tag.
THEOREM DamageIsAccounted ==
    ASSUME Span < Reach
    PROVE  StreamSpec => []DamageAccounted
<1>1. StreamInit => DamageInv
  <2> SUFFICES ASSUME StreamInit PROVE DamageInv
    OBVIOUS
  <2>1. /\ queue = <<>> /\ out = <<>> /\ inChan = <<>> /\ next = FirstPacket
        /\ flvTag = <<>> /\ tagSize = 0 /\ emitted = <<>> /\ crashed = FALSE
        /\ silentGaps = 0
    BY DEF StreamInit, Init, Rec!Init
  <2>2. Cardinality(Damaged) = 0
    <3>1. Damaged = {}
      BY <2>1 DEF Damaged
    <3> QED BY <3>1, FS_EmptySet
  <2>3. Astray => FragAt[join] # 1
    <3>1. AtHand = join
      BY <2>1 DEF AtHand, IsFirstOk
    <3> QED BY <2>1, <3>1 DEF Astray, RecProofs!InStep
  <2> QED BY <2>1, <2>2, <2>3 DEF DamageInv
<1>2. DamageInv => DamageAccounted
  <2> SUFFICES ASSUME DamageInv PROVE DamageAccounted
    OBVIOUS
  <2>1. Cardinality(Damaged) \in Nat
    BY DamagedType DEF DamageInv, Finished
  <2> QED BY <2>1 DEF DamageInv, DamageAccounted
<1>3. StreamSpec => [](TypeOK /\ QueueInv /\ SpanInv)
  BY SpanInvariant, StreamImplementsQueue, PTL
<1> QED BY <1>1, <1>2, <1>3, NextDamageInv, PTL DEF StreamSpec

-----------------------------------------------------------------------------
(* PrintInfo. *)

\* What PrintInfo keeps between its two reads.
MonitorType ==
    monitor.at = "size" =>
        monitor \in [at : {"size"}, size : Nat, raced : BOOLEAN]

\* As long as nobody changed the queue since, the size PrintInfo read is the
\* queue's size.
MonitorInv ==
    /\ MonitorType
    /\ monitor.at = "size" => monitor.raced \/ monitor.size = Len(queue)
    /\ MonitorPanicNeedsRace

\* A step of RecvPacket's goroutine that changes the queue is noticed.
LEMMA OvertakenMonitor ==
    ASSUME MonitorInv, Overtaken
    PROVE  MonitorInv'
<1>1. CASE monitor.at = "size" /\ queue' # queue
  <2>1. monitor' = [monitor EXCEPT !.raced = TRUE]
    BY <1>1 DEF Overtaken
  <2>2. monitor \in [at : {"size"}, size : Nat, raced : BOOLEAN]
    BY <1>1 DEF MonitorInv, MonitorType
  <2>3. /\ monitor' \in [at : {"size"}, size : Nat, raced : BOOLEAN]
        /\ monitor'.at = "size"
        /\ monitor'.raced
    BY <2>1, <2>2
  <2> QED BY <2>3 DEF MonitorInv, MonitorType, MonitorPanicNeedsRace
<1>2. CASE ~(monitor.at = "size" /\ queue' # queue)
  <2>1. monitor' = monitor
    BY <1>2 DEF Overtaken
  <2>2. monitor.at = "size" => queue' = queue
    BY <1>2
  <2> QED BY <2>1, <2>2 DEF MonitorInv, MonitorType, MonitorPanicNeedsRace
<1> QED BY <1>1, <1>2

\* The first read.
LEMMA SizeMonitor ==
    ASSUME TypeOK, MonitorInv, PrintInfoSize, UNCHANGED vars
    PROVE  MonitorInv'
<1>1. PICK q \in Visible :
        monitor' = [at |-> "size", size |-> Len(q), raced |-> q # queue]
  BY DEF PrintInfoSize
<1>2. queue' = queue
  BY DEF vars
<1>3. Len(q) \in Nat
  <2>1. queue \in Seq(Packets \cup {Nil})
    BY DEF TypeOK
  <2>2. CASE q = queue
    BY <2>1, <2>2
  <2>3. CASE q # queue
    <3>1. PICK n \in 1 .. Relative(SeqOf(Head(inChan)), firstSeq) - Len(queue) :
            q = queue \o [i \in 1 .. n |-> Nil]
      BY <2>3 DEF Visible
    <3> DEFINE e == [i \in 1 .. n |-> Nil]
    <3>2. n \in Nat
      OBVIOUS
    <3>3. e \in Seq({Nil})
      BY <3>2
    <3>4. e \in Seq(Packets \cup {Nil})
      BY <3>2
    <3> HIDE DEF e
    <3>5. q \in Seq(Packets \cup {Nil})
      BY <2>1, <3>1, <3>4 DEF e
    <3> QED BY <3>5
  <2> QED BY <2>2, <2>3
<1>4. /\ monitor' \in [at : {"size"}, size : Nat, raced : BOOLEAN]
      /\ monitor'.at = "size"
      /\ monitor'.raced \/ monitor'.size = Len(queue)
  BY <1>1, <1>3
<1> QED BY <1>2, <1>4 DEF MonitorInv, MonitorType, MonitorPanicNeedsRace

\* The second read: it fails on the queue the size was read of only if the last
\* slot is empty, which QueueInv excludes.
LEMMA GetMonitor ==
    ASSUME TypeOK, QueueInv, MonitorInv, PrintInfoGet, UNCHANGED vars
    PROVE  MonitorInv'
<1>1. PICK q \in Visible :
        LET there == monitor.size \in DOMAIN q
            panics == IF there THEN q[monitor.size] = Nil ELSE q # <<>>
        IN monitor' = IF panics
                      THEN [at |-> "panicked",
                            raced |-> monitor.raced \/ q # queue]
                      ELSE Asleep
  BY DEF PrintInfoGet
<1>2. monitor.at = "size"
  BY DEF PrintInfoGet
<1>3. CASE monitor' = Asleep
  <2>1. monitor'.at = "asleep"
    BY <1>3 DEF Asleep
  <2> QED BY <2>1 DEF MonitorInv, MonitorType, MonitorPanicNeedsRace
<1>4. CASE monitor' # Asleep
  <2>1. /\ monitor' = [at |-> "panicked", raced |-> monitor.raced \/ q # queue]
        /\ IF monitor.size \in DOMAIN q THEN q[monitor.size] = Nil ELSE q # <<>>
    BY <1>1, <1>4
  <2>2. monitor.raced \/ q # queue
    <3> SUFFICES ASSUME ~monitor.raced, q = queue PROVE FALSE
      OBVIOUS
    <3>1. monitor.size = Len(queue)
      BY <1>2 DEF MonitorInv
    <3>2. queue \in Seq(Packets \cup {Nil}) /\ LastPresent
      BY DEF TypeOK, QueueInv
    <3>3. CASE queue = <<>>
      BY <2>1, <3>1, <3>3
    <3>4. CASE queue # <<>>
      <4>1. Len(queue) \in DOMAIN queue
        BY <3>2, <3>4
      <4> QED BY <2>1, <3>1, <3>2, <3>4, <4>1 DEF LastPresent
    <3> QED BY <3>3, <3>4
  <2>3. monitor'.at = "panicked" /\ monitor'.raced
    BY <2>1, <2>2
  <2> QED BY <2>3 DEF MonitorInv, MonitorType, MonitorPanicNeedsRace
<1> QED BY <1>3, <1>4

\* Every step of the composition keeps what the monitor knows.
LEMMA StreamMonitorInv ==
    TypeOK /\ QueueInv /\ MonitorInv /\ [StreamNext]_streamVars => MonitorInv'
<1> SUFFICES ASSUME TypeOK, QueueInv, MonitorInv, [StreamNext]_streamVars
             PROVE  MonitorInv'
  OBVIOUS
<1>1. ASSUME NEW p \in Packets, ArriveStep(p) PROVE MonitorInv'
  <2>1. monitor' = monitor /\ queue' = queue
    BY <1>1 DEF ArriveStep, Arrive
  <2> QED BY <2>1 DEF MonitorInv, MonitorType, MonitorPanicNeedsRace
<1>2. CASE RecvStep
  BY <1>2, OvertakenMonitor DEF RecvStep, PlayStep
<1>3. CASE PrintInfo
  <2>1. UNCHANGED vars
    BY <1>3 DEF PrintInfo
  <2> QED BY <1>3, <2>1, SizeMonitor, GetMonitor DEF PrintInfo
<1>4. CASE UNCHANGED streamVars
  <2>1. monitor' = monitor /\ queue' = queue
    BY <1>4 DEF streamVars, vars
  <2> QED BY <2>1 DEF MonitorInv, MonitorType, MonitorPanicNeedsRace
<1> QED BY <1>1, <1>2, <1>3, <1>4 DEF StreamNext, Ended

\* PrintInfo panics only when RecvPacket's goroutine changed the queue between
\* its two unlocked reads, for every window, channel size and stream.
THEOREM MonitorIsSafeAtRest == StreamSpec => []MonitorPanicNeedsRace
<1>1. StreamInit => MonitorInv
  BY DEF StreamInit, Asleep, MonitorInv, MonitorType, MonitorPanicNeedsRace
<1>2. MonitorInv => MonitorPanicNeedsRace
  BY DEF MonitorInv
<1>3. StreamSpec => []TypeOK
  BY StreamImplementsQueue, TypeCorrect, PTL
<1> QED BY <1>1, <1>2, <1>3, StreamQueueConsistent, StreamMonitorInv, PTL
        DEF StreamSpec

=============================================================================
