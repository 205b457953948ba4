--------------------------- MODULE FlvRecordProofs --------------------------
(***************************************************************************)
(* Proofs about FlvRecord for every stream of tags.                        *)
(***************************************************************************)
EXTENDS FlvRecord, SequenceTheorems, TLAPS

-----------------------------------------------------------------------------
(* Inductive invariants. *)

\* The fragments of the tag at hand that come before the packet at hand.
Before == [f \in 1 .. frag - 1 |-> <<tag, f>>]

\* In the tag the node joined in the middle of.
InJoinedTag == JoinedInside /\ tag = joinTag

\* Why emitted tags are whole: the buffer holds all earlier fragments of the
\* tag at hand, and without a buffer the record is at a first fragment or
\* searching for one.
RecordInv ==
    /\ flvTag # <<>> =>
          /\ tag <= Len(Tags)
          /\ ~jumpToNextHead
          /\ \/ flvTag = Before /\ tagSize = Tags[tag].frags
             \/ InJoinedTag /\ flvTag[1][1] = joinTag
    /\ flvTag = <<>> /\ ~crashed => frag = 1 \/ jumpToNextHead \/ InJoinedTag
    /\ PanicOnlyAtJoin
    /\ \A i \in DOMAIN emitted :
          /\ emitted[i].parts # <<>>
          /\ TagOf(emitted[i]) \in 1 .. tag - 1
    /\ WholeTags
    /\ TagsInOrder

\* The record is in step with the stream: it has all earlier fragments of the
\* tag at hand, is at a first fragment or searches for a head.
InStep ==
    IF flvTag = <<>>
    THEN frag = 1 \/ jumpToNextHead
    ELSE flvTag = Before /\ tagSize = Tags[tag].frags /\ ~jumpToNextHead

\* Nothing was lost of the tag at hand so far, and nothing before it since the
\* join or a tag in one piece.
SyncSoFar ==
    /\ \A f \in 1 .. frag - 1 : <<tag, f>> \notin lost
    /\ \/ \A u \in joinTag .. tag - 1 : Arrived(u)
       \/ \E u \in joinTag .. tag - 1 :
             InOnePiece(u) /\ \A v \in u .. tag - 1 : Arrived(v)

\* Why exactly these are handed on: the record searches for a head if and only
\* if it is out of sync.
SyncInv ==
    /\ joinTag <= tag
    /\ \A x \in lost : x[1] < tag \/ (x[1] = tag /\ x[2] < frag)
    /\ ~JoinedInside => (jumpToNextHead <=> ~SyncSoFar)
    /\ ExactlyInSyncEmitted

Piece == Nat \X Nat

Entry == [parts : Seq(Piece), size : Nat]

\* A tag of the stream has at least one fragment.
LEMMA TagsType ==
  /\ Len(Tags) \in Nat \ {0}
  /\ \A t \in 1 .. Len(Tags) : Tags[t].frags \in Nat \ {0}
<1>1. Tags \in Seq([frags : Nat \ {0}, av : BOOLEAN]) /\ Tags # <<>>
  BY StreamAssumption
<1>2. Len(Tags) \in Nat \ {0}
  BY <1>1, EmptySeq
<1>3. \A t \in 1 .. Len(Tags) : Tags[t] \in [frags : Nat \ {0}, av : BOOLEAN]
  BY <1>1, ElementOfSeq
<1> QED BY <1>2, <1>3

\* Every step moves to the next packet of the stream.
LEMMA AdvanceType ==
  ASSUME TypeOK, Advance
  PROVE  /\ tag \in 1 .. Len(Tags) /\ ~crashed
         /\ frag \in 1 .. Tags[tag].frags
         /\ Tags[tag].frags \in Nat \ {0}
         /\ tag' \in 1 .. Len(Tags) + 1
         /\ tag' <= Len(Tags) => frag' \in 1 .. Tags[tag'].frags
         /\ joinTag' = joinTag /\ joinFrag' = joinFrag
         /\ Packet \in Piece
<1>1. Len(Tags) \in Nat \ {0}
  BY TagsType
<1>2. tag \in 1 .. Len(Tags) /\ ~crashed /\ joinTag' = joinTag /\ joinFrag' = joinFrag
  BY <1>1 DEF TypeOK, Advance
<1>3. frag \in 1 .. Tags[tag].frags /\ Tags[tag].frags \in Nat \ {0}
  BY <1>2, TagsType DEF TypeOK
<1>4. CASE Marker
  <2>1. tag' = tag + 1 /\ frag' = 1
    BY <1>4 DEF Advance
  <2>2. tag' <= Len(Tags) => Tags[tag'].frags \in Nat \ {0}
    BY <1>1, <1>2, <2>1, TagsType
  <2> QED BY <1>1, <1>2, <1>3, <2>1, <2>2 DEF Packet, Piece
<1>5. CASE ~Marker
  <2>1. tag' = tag /\ frag' = frag + 1 /\ frag # Tags[tag].frags
    BY <1>5 DEF Advance, Marker
  <2> QED BY <1>1, <1>2, <1>3, <2>1 DEF Packet, Piece
<1> QED BY <1>4, <1>5

\* Every step keeps the types.
LEMMA NextType == TypeOK /\ [Next]_vars => TypeOK'
<1> SUFFICES ASSUME TypeOK, [Next]_vars PROVE TypeOK'
  OBVIOUS
<1> USE DEF Piece, Entry
<1>1. ASSUME Advance, flvTag' \in Seq(Piece), tagSize' \in Nat,
             Len(flvTag') <= tagSize',
             jumpToNextHead' \in BOOLEAN, crashed' \in BOOLEAN,
             emitted' \in Seq(Entry), lost' \subseteq Piece
      PROVE  TypeOK'
  BY <1>1, AdvanceType DEF TypeOK
<1>2. /\ flvTag \in Seq(Piece) /\ tagSize \in Nat /\ Len(flvTag) <= tagSize
      /\ jumpToNextHead \in BOOLEAN /\ crashed \in BOOLEAN
      /\ emitted \in Seq(Entry) /\ lost \subseteq Piece
  BY DEF TypeOK
<1>3. Advance => Packet \in Piece
  BY AdvanceType
<1>4. ASSUME NEW parts \in Seq(Piece), NEW size \in Nat, Emit(parts, size)
      PROVE  emitted' \in Seq(Entry)
  <2>1. [parts |-> parts, size |-> size] \in Entry
    OBVIOUS
  <2> QED BY <1>2, <1>4, <2>1 DEF Emit
<1>5. CASE Advance /\ Lost
  BY <1>1, <1>2, <1>3, <1>5 DEF Lost, Reset
<1>6. CASE Advance /\ Skip
  BY <1>1, <1>2, <1>6 DEF Skip
<1>7. CASE Advance /\ FirstFragment
  <2>1. Advance /\ flvTag' = <<Packet>> /\ tagSize' \in Declared \ {0}
    BY <1>7 DEF FirstFragment
  <2>2. tagSize' \in Nat
    BY <2>1, AdvanceType, StreamAssumption DEF Declared
  <2>3. flvTag' \in Seq(Piece) /\ Len(flvTag') <= tagSize'
    BY <1>3, <2>1, <2>2
  <2> QED BY <1>1, <1>2, <1>7, <2>2, <2>3 DEF FirstFragment
<1>8. CASE Advance /\ FirstFragmentPanics
  BY <1>1, <1>2, <1>8 DEF FirstFragmentPanics
<1>9. CASE Advance /\ MiddleFragment
  <2>1. flvTag' \in Seq(Piece) /\ Len(flvTag') <= tagSize'
    BY <1>2, <1>3, <1>9 DEF MiddleFragment, Fits
  <2> QED BY <1>1, <1>2, <1>9, <2>1 DEF MiddleFragment
<1>10. CASE Advance /\ Overflow
  BY <1>1, <1>2, <1>10 DEF Overflow, Reset
<1>11. CASE Advance /\ LastFragment
  <2>1. Append(flvTag, Packet) \in Seq(Piece)
    BY <1>2, <1>3, <1>11 DEF LastFragment
  <2>2. emitted' \in Seq(Entry)
    BY <1>2, <1>4, <1>11, <2>1 DEF LastFragment
  <2>3. /\ Advance /\ flvTag' = <<>> /\ tagSize' = 0 /\ lost' = lost
        /\ jumpToNextHead' = FALSE /\ crashed' = crashed
    BY <1>11 DEF LastFragment, Reset
  <2>4. /\ <<>> \in Seq(Piece) /\ 0 \in Nat /\ FALSE \in BOOLEAN
        /\ Len(<<>>) <= 0
    OBVIOUS
  <2> QED BY <1>1, <1>2, <2>2, <2>3, <2>4, Zenon
<1>12. CASE Advance /\ WholeTag
  <2>1. <<Packet>> \in Seq(Piece)
    BY <1>3, <1>12 DEF WholeTag
  <2>2. emitted' \in Seq(Entry)
    BY <1>4, <1>12, <2>1 DEF WholeTag
  <2>3. /\ Advance /\ flvTag' = <<>> /\ tagSize' = 0 /\ lost' = lost
        /\ jumpToNextHead' = FALSE /\ crashed' = crashed
    BY <1>12 DEF WholeTag, Reset
  <2>4. /\ <<>> \in Seq(Piece) /\ 0 \in Nat /\ FALSE \in BOOLEAN
        /\ Len(<<>>) <= 0
    OBVIOUS
  <2> QED BY <1>1, <1>2, <2>2, <2>3, <2>4, Zenon
<1>13. CASE UNCHANGED vars
  BY <1>13 DEF vars, TypeOK
<1> QED BY <1>5, <1>6, <1>7, <1>8, <1>9, <1>10, <1>11, <1>12, <1>13 DEF Next, Deliver

\* The record and the tags it hands on keep their types.
THEOREM TypeCorrect == Spec => []TypeOK
<1>1. Init => TypeOK
  <2>1. Len(Tags) \in Nat \ {0} /\ Tags[1].frags \in Nat \ {0}
    BY TagsType
  <2>2. /\ \A t \in DOMAIN Tags : t \in 1 .. Len(Tags) + 1
        /\ <<>> \in Seq(Nat \X Nat)
        /\ <<>> \in Seq([parts : Seq(Nat \X Nat), size : Nat])
    BY <2>1, EmptySeq
  <2>3. /\ 0 \in Nat /\ FALSE \in BOOLEAN /\ {} \subseteq Nat \X Nat
        /\ Len(<<>>) <= 0
    OBVIOUS
  <2> QED BY <2>2, <2>3, Zenon DEF Init, TypeOK
<1> QED BY <1>1, NextType, PTL DEF Spec

-----------------------------------------------------------------------------
(* Emitted tags are whole. *)

\* A tag that ends now may be handed on if it is whole or the joined one.
LEMMA EmitWhole ==
  ASSUME TypeOK, RecordInv, Advance, Marker,
         NEW parts \in Seq(Piece), NEW size \in Nat, Emit(parts, size),
         parts # <<>>, parts[1][1] = tag,
         [parts |-> parts, size |-> size] = Whole(tag) \/ InJoinedTag
  PROVE  /\ \A i \in DOMAIN emitted' :
              /\ emitted'[i].parts # <<>>
              /\ TagOf(emitted'[i]) \in 1 .. tag' - 1
         /\ WholeTags'
         /\ TagsInOrder'
<1> DEFINE e == [parts |-> parts, size |-> size]
           n == Len(emitted)
<1>1. tag \in Nat \ {0} /\ tag' = tag + 1 /\ joinTag' = joinTag /\ joinFrag' = joinFrag
  BY AdvanceType, TagsType DEF Advance
<1>2. emitted \in Seq(Entry) /\ n \in Nat /\ DOMAIN emitted = 1 .. n
  BY DEF TypeOK, Entry, Piece
<1>3. emitted' = Append(emitted, e) /\ e \in Entry
  BY DEF Emit, Entry
<1>4. TagOf(e) = tag /\ e.parts = parts
  BY DEF TagOf
<1>5. e = Whole(tag) \/ InJoinedTag
  OBVIOUS
<1> HIDE DEF e
<1>6. /\ DOMAIN emitted' = 1 .. n + 1
      /\ emitted'[n + 1] = e
      /\ \A i \in 1 .. n : emitted'[i] = emitted[i]
  BY <1>2, <1>3
<1>7. \A i \in 1 .. n : /\ emitted[i].parts # <<>>
                        /\ TagOf(emitted[i]) \in 1 .. tag - 1
  BY <1>2 DEF RecordInv
<1> HIDE DEF n
<1>8. ASSUME NEW i \in DOMAIN emitted'
      PROVE  /\ emitted'[i].parts # <<>>
             /\ TagOf(emitted'[i]) \in 1 .. tag' - 1
  <2>1. CASE i = n + 1
    BY <1>1, <1>4, <1>6, <2>1
  <2>2. CASE i \in 1 .. n
    BY <1>1, <1>6, <1>7, <2>2
  <2> QED BY <1>2, <1>6, <2>1, <2>2
<1>9. WholeTags'
  <2> SUFFICES ASSUME NEW i \in DOMAIN emitted'
               PROVE  \/ emitted'[i] = Whole(TagOf(emitted'[i]))
                      \/ JoinedInside' /\ TagOf(emitted'[i]) = joinTag'
    BY DEF WholeTags, Whole, TagOf
  <2>1. CASE i = n + 1
    BY <1>1, <1>4, <1>5, <1>6, <2>1 DEF InJoinedTag, JoinedInside
  <2>2. CASE i \in 1 .. n
    BY <1>1, <1>2, <1>6, <2>2 DEF RecordInv, WholeTags, JoinedInside
  <2> QED BY <1>2, <1>6, <2>1, <2>2
<1>10. TagsInOrder'
  <2> SUFFICES ASSUME NEW i \in DOMAIN emitted', NEW j \in DOMAIN emitted',
                      i < j
               PROVE  TagOf(emitted'[i]) < TagOf(emitted'[j])
    BY DEF TagsInOrder, TagOf
  <2>1. CASE j = n + 1
    <3>1. i \in 1 .. n
      BY <1>2, <1>6, <2>1
    <3>2. TagOf(emitted[i]) \in 1 .. tag - 1
      BY <1>7, <3>1
    <3> QED BY <1>1, <1>4, <1>6, <2>1, <3>1, <3>2
  <2>2. CASE j \in 1 .. n
    <3>1. i \in 1 .. n
      BY <1>2, <1>6, <2>2
    <3> QED BY <1>2, <1>6, <2>2, <3>1 DEF RecordInv, TagsInOrder
  <2> QED BY <1>2, <1>6, <2>1, <2>2
<1> QED BY <1>8, <1>9, <1>10

\* A step that hands on nothing keeps what is said of the emitted tags.
LEMMA NothingEmitted ==
  ASSUME TypeOK, RecordInv, Advance, emitted' = emitted
  PROVE  /\ \A i \in DOMAIN emitted' :
              /\ emitted'[i].parts # <<>>
              /\ TagOf(emitted'[i]) \in 1 .. tag' - 1
         /\ WholeTags'
         /\ TagsInOrder'
<1>1. tag \in Nat /\ (tag' = tag \/ tag' = tag + 1) /\ joinTag' = joinTag /\ joinFrag' = joinFrag
  BY AdvanceType, TagsType DEF Advance
<1>2. \A i \in DOMAIN emitted : /\ emitted[i].parts # <<>>
                                /\ TagOf(emitted[i]) \in 1 .. tag - 1
  BY DEF RecordInv
<1>3. \A i \in DOMAIN emitted : TagOf(emitted[i]) \in 1 .. tag' - 1
  BY <1>1, <1>2
<1>4. WholeTags' /\ TagsInOrder'
  BY <1>1 DEF RecordInv, WholeTags, TagsInOrder, TagOf, Whole, JoinedInside
<1> QED BY <1>2, <1>3, <1>4

\* A packet that is parsed without a buffer is a first fragment, unless the
\* node joined in this tag.
LEMMA ParsedAtHead ==
  ASSUME RecordInv, Parsed, flvTag = <<>>, ~crashed
  PROVE  frag = 1 \/ InJoinedTag
BY DEF RecordInv, Parsed, IsTagHead

\* The packet at hand continues the fragments before it.
LEMMA BeforeAppend ==
  ASSUME NEW t, NEW n \in Nat \ {0}
  PROVE  Append([f \in 1 .. n - 1 |-> <<t, f>>], <<t, n>>)
           = [f \in 1 .. n |-> <<t, f>>]
<1> DEFINE S == {<<t, f>> : f \in Nat}
           s == [f \in 1 .. n - 1 |-> <<t, f>>]
           u == [f \in 1 .. n |-> <<t, f>>]
           e == <<t, n>>
<1>1. s \in Seq(S) /\ Len(s) = n - 1
  OBVIOUS
<1>2. u \in Seq(S) /\ Len(u) = n
  OBVIOUS
<1>3. e \in S
  OBVIOUS
<1>4. \A f \in 1 .. n - 1 : s[f] = u[f]
  OBVIOUS
<1>5. u[n] = e
  OBVIOUS
<1> HIDE DEF s, u, e, S
<1>6. /\ Append(s, e) \in Seq(S) /\ Len(Append(s, e)) = n
      /\ \A f \in 1 .. n : Append(s, e)[f] = u[f]
  BY <1>1, <1>3, <1>4, <1>5
<1>7. Append(s, e) = u
  BY <1>2, <1>6, SeqEqual
<1> QED BY <1>7 DEF s, u, e

\* Every step keeps RecordInv.
LEMMA NextRecordInv == TypeOK /\ RecordInv /\ [Next]_vars => RecordInv'
<1> SUFFICES ASSUME TypeOK, RecordInv, [Next]_vars PROVE RecordInv'
  OBVIOUS
<1>0. /\ Advance => /\ tag \in 1 .. Len(Tags) /\ ~crashed
                    /\ frag \in 1 .. Tags[tag].frags
                    /\ Tags[tag].frags \in Nat \ {0}
                    /\ joinTag' = joinTag /\ joinFrag' = joinFrag /\ Packet \in Piece
      /\ Len(Tags) \in Nat \ {0}
  BY AdvanceType, TagsType
<1>1. Advance /\ emitted' = emitted =>
        /\ \A i \in DOMAIN emitted' :
              /\ emitted'[i].parts # <<>>
              /\ TagOf(emitted'[i]) \in 1 .. tag' - 1
        /\ WholeTags' /\ TagsInOrder'
  BY NothingEmitted
<1>2. ASSUME Advance, crashed' = crashed PROVE PanicOnlyAtJoin'
  BY <1>0, <1>2 DEF PanicOnlyAtJoin
<1>3. (\A i \in DOMAIN emitted' :
         /\ emitted'[i].parts # <<>>
         /\ TagOf(emitted'[i]) \in 1 .. tag' - 1)
      <=> (\A i \in DOMAIN emitted :
             /\ emitted[i].parts # <<>>
             /\ TagOf(emitted[i]) \in 1 .. tag - 1)'
  BY DEF TagOf
<1>4. CASE Advance /\ Lost
  <2>1. /\ Advance /\ flvTag' = <<>> /\ jumpToNextHead' /\ emitted' = emitted
        /\ crashed' = crashed
    BY <1>4 DEF Lost, Reset
  <2> QED BY <1>1, <1>2, <1>3, <2>1 DEF RecordInv
<1>5. CASE Advance /\ Skip
  <2>1. /\ Advance /\ flvTag' = flvTag /\ jumpToNextHead' = jumpToNextHead
        /\ jumpToNextHead /\ emitted' = emitted /\ crashed' = crashed
    BY <1>5 DEF Skip, Parsed
  <2>2. flvTag' = <<>>
    BY <2>1 DEF RecordInv
  <2> QED BY <1>1, <1>2, <1>3, <2>1, <2>2 DEF RecordInv
<1>6. CASE Advance /\ FirstFragment
  <2>1. /\ Advance /\ Parsed /\ ~Marker /\ flvTag = <<>> /\ flvTag' = <<Packet>>
        /\ tagSize' \in Declared /\ ~jumpToNextHead' /\ emitted' = emitted
        /\ crashed' = crashed /\ tag' = tag /\ frag' = frag + 1
    BY <1>6 DEF FirstFragment, Advance
  <2>2. flvTag' # <<>> /\ flvTag'[1][1] = tag /\ tag' <= Len(Tags)
    BY <1>0, <2>1 DEF Packet
  <2>3. CASE frag = 1
    <3>1. tagSize' = Tags[tag'].frags
      BY <2>1, <2>3 DEF Declared
    <3>2. Before' = [f \in 1 .. 1 |-> <<tag, f>>]
      BY <2>1, <2>3 DEF Before
    <3>3. <<Packet>> = [f \in 1 .. 1 |-> <<tag, f>>]
      BY <2>3 DEF Packet
    <3> QED BY <1>1, <1>2, <1>3, <2>1, <2>2, <3>1, <3>2, <3>3 DEF RecordInv
  <2>4. CASE InJoinedTag
    <3>1. InJoinedTag' /\ flvTag'[1][1] = joinTag'
      BY <1>0, <2>1, <2>2, <2>4 DEF InJoinedTag, JoinedInside
    <3> QED BY <1>1, <1>2, <1>3, <2>1, <2>2, <3>1 DEF RecordInv
  <2> QED BY <1>0, <2>1, <2>3, <2>4, ParsedAtHead
<1>7. CASE Advance /\ FirstFragmentPanics
  <2>1. /\ Advance /\ Parsed /\ ~Marker /\ flvTag = <<>> /\ flvTag' = <<>>
        /\ 0 \in Declared /\ crashed' = TRUE /\ emitted' = emitted
        /\ tag' = tag
    BY <1>7 DEF FirstFragmentPanics, Advance
  <2>2. frag # 1
    BY <1>0, <2>1 DEF Declared
  <2>3. InJoinedTag
    BY <1>0, <2>1, <2>2, ParsedAtHead
  <2>4. PanicOnlyAtJoin'
    BY <1>0, <2>1, <2>3 DEF PanicOnlyAtJoin, InJoinedTag, JoinedInside
  <2> QED BY <1>1, <1>3, <2>1, <2>4 DEF RecordInv
<1>8. CASE Advance /\ MiddleFragment
  <2>1. /\ Advance /\ ~Marker /\ flvTag # <<>> /\ ~jumpToNextHead'
        /\ flvTag' = Append(flvTag, Packet) /\ tagSize' = tagSize
        /\ emitted' = emitted /\ crashed' = crashed
        /\ tag' = tag /\ frag' = frag + 1
    BY <1>8 DEF MiddleFragment, Advance
  <2>2. flvTag \in Seq(Piece) /\ Len(flvTag) \in Nat \ {0}
    BY <2>1, EmptySeq DEF TypeOK, Piece
  <2>3. flvTag' # <<>> /\ flvTag'[1] = flvTag[1] /\ tag' <= Len(Tags)
    BY <1>0, <2>1, <2>2
  <2>4. CASE flvTag = Before /\ tagSize = Tags[tag].frags
    <3>1. flvTag' = Before'
      <4>1. frag \in Nat \ {0} /\ frag' - 1 = frag
        BY <1>0, <2>1
      <4>2. Append(Before, Packet) = [f \in 1 .. frag |-> <<tag, f>>]
        BY <4>1, BeforeAppend DEF Before, Packet
      <4>3. Before' = [f \in 1 .. frag |-> <<tag, f>>]
        BY <2>1, <4>1 DEF Before
      <4> QED BY <2>1, <2>4, <4>2, <4>3
    <3> QED BY <1>1, <1>2, <1>3, <2>1, <2>3, <2>4, <3>1 DEF RecordInv
  <2>5. CASE InJoinedTag /\ flvTag[1][1] = joinTag
    <3>1. InJoinedTag' /\ flvTag'[1][1] = joinTag'
      BY <1>0, <2>1, <2>3, <2>5 DEF InJoinedTag, JoinedInside
    <3> QED BY <1>1, <1>2, <1>3, <2>1, <2>3, <3>1 DEF RecordInv
  <2> QED BY <2>1, <2>4, <2>5 DEF RecordInv
<1>9. CASE Advance /\ Overflow
  <2>1. /\ Advance /\ flvTag' = <<>> /\ jumpToNextHead' /\ emitted' = emitted
        /\ crashed' = crashed
    BY <1>9 DEF Overflow, Reset
  <2> QED BY <1>1, <1>2, <1>3, <2>1 DEF RecordInv
<1>10. CASE Advance /\ LastFragment
  <2> DEFINE parts == Append(flvTag, Packet)
  <2>1. /\ Advance /\ Marker /\ flvTag # <<>> /\ flvTag' = <<>>
        /\ Emit(parts, tagSize) /\ crashed' = crashed /\ frag' = 1
    BY <1>10 DEF LastFragment, Reset, Advance
  <2>2. flvTag \in Seq(Piece) /\ Len(flvTag) \in Nat \ {0} /\ tagSize \in Nat
    BY <2>1, EmptySeq DEF TypeOK, Piece
  <2>3. parts \in Seq(Piece) /\ parts # <<>> /\ parts[1] = flvTag[1]
    BY <1>0, <2>1, <2>2
  <2>4. /\ parts[1][1] = tag
        /\ [parts |-> parts, size |-> tagSize] = Whole(tag) \/ InJoinedTag
    <3>1. CASE flvTag = Before /\ tagSize = Tags[tag].frags
      <4>1. frag = Tags[tag].frags
        BY <2>1 DEF Marker
      <4>2. parts = [f \in 1 .. Tags[tag].frags |-> <<tag, f>>]
        <5>1. frag \in Nat \ {0}
          BY <1>0, <2>1
        <5>2. Append(Before, Packet) = [f \in 1 .. frag |-> <<tag, f>>]
          BY <5>1, BeforeAppend DEF Before, Packet
        <5> QED BY <3>1, <4>1, <5>2
      <4>3. 1 \in 1 .. Tags[tag].frags
        BY <1>0, <2>1
      <4> QED BY <3>1, <4>2, <4>3 DEF Whole
    <3>2. CASE InJoinedTag /\ flvTag[1][1] = joinTag
      BY <2>3, <3>2 DEF InJoinedTag
    <3> QED BY <2>1, <3>1, <3>2 DEF RecordInv
  <2> HIDE DEF parts
  <2>5. /\ \A i \in DOMAIN emitted' :
              /\ emitted'[i].parts # <<>>
              /\ TagOf(emitted'[i]) \in 1 .. tag' - 1
        /\ WholeTags' /\ TagsInOrder'
    BY <2>1, <2>2, <2>3, <2>4, EmitWhole
  <2> QED BY <1>2, <1>3, <2>1, <2>5 DEF RecordInv
<1>11. CASE Advance /\ WholeTag
  <2> DEFINE parts == <<Packet>>
             size == 1
  <2>1. /\ Advance /\ Parsed /\ Marker /\ flvTag = <<>> /\ flvTag' = <<>>
        /\ Emit(parts, size) /\ crashed' = crashed /\ frag' = 1
    BY <1>11 DEF WholeTag, Reset, Advance
  <2>2. /\ parts \in Seq(Piece) /\ parts # <<>> /\ size \in Nat
        /\ parts[1][1] = tag
    BY <1>0, <2>1 DEF Packet
  <2>3. [parts |-> parts, size |-> size] = Whole(tag) \/ InJoinedTag
    <3>1. CASE frag = 1
      <4>1. Tags[tag].frags = 1
        BY <2>1, <3>1 DEF Marker
      <4>2. parts = [f \in 1 .. 1 |-> <<tag, f>>]
        BY <3>1 DEF Packet
      <4> QED BY <4>1, <4>2 DEF Whole
    <3> QED BY <1>0, <2>1, <3>1, ParsedAtHead
  <2> HIDE DEF parts, size
  <2>4. /\ \A i \in DOMAIN emitted' :
              /\ emitted'[i].parts # <<>>
              /\ TagOf(emitted'[i]) \in 1 .. tag' - 1
        /\ WholeTags' /\ TagsInOrder'
    BY <2>1, <2>2, <2>3, EmitWhole
  <2> QED BY <1>2, <1>3, <2>1, <2>4 DEF RecordInv
<1>12. CASE UNCHANGED vars
  BY <1>12 DEF vars, RecordInv, InJoinedTag, JoinedInside, PanicOnlyAtJoin,
               WholeTags, TagsInOrder, Before, TagOf, Whole
<1> QED BY <1>4, <1>5, <1>6, <1>7, <1>8, <1>9, <1>10, <1>11, <1>12 DEF Next, Deliver

\* The invariant the results rest on: what is in the parser is the beginning of
\* one tag.
LEMMA RecordCorrect ==
  Spec => []RecordInv
<1>1. Init => RecordInv
  BY DEF Init, RecordInv, InJoinedTag, JoinedInside, PanicOnlyAtJoin,
         WholeTags, TagsInOrder
<1> QED BY <1>1, TypeCorrect, NextRecordInv, PTL DEF Spec

\* Whatever packets are lost, extractFlv hands on whole tags with the size they
\* declare; the one exception is the tag a node joins in the middle of.
THEOREM EmittedTagsAreWhole ==
  Spec => []WholeTags
<1>1. RecordInv => WholeTags
  BY DEF RecordInv
<1> QED BY <1>1, RecordCorrect, PTL

\* It hands them on in stream order and each at most once.
THEOREM EmittedTagsInOrder ==
  Spec => []TagsInOrder
<1>1. RecordInv => TagsInOrder
  BY DEF RecordInv
<1> QED BY <1>1, RecordCorrect, PTL

\* It never indexes out of range, except inside the tag a node joins in the middle
\* of, whose first bytes it takes for a header.
THEOREM PanicsOnlyAtJoin ==
  Spec => []PanicOnlyAtJoin
<1>1. RecordInv => PanicOnlyAtJoin
  BY DEF RecordInv
<1> QED BY <1>1, RecordCorrect, PTL

-----------------------------------------------------------------------------
(* Exactly the tags that arrive in sync are handed on. *)

\* What a step of extractFlv does, unless the node joined inside a tag: it notes
\* a loss, waits for a head, keeps a fragment or hands on the tag at hand.
LEMMA StepKinds ==
  ASSUME TypeOK, RecordInv, ~JoinedInside, Advance, Lost \/ Deliver
  PROVE  \/ Lost
         \/ ~Parsed /\ UNCHANGED <<emitted, lost, jumpToNextHead>>
         \/ /\ Parsed /\ ~Marker /\ UNCHANGED <<emitted, lost>>
            /\ jumpToNextHead' = FALSE
         \/ /\ Parsed /\ Marker /\ lost' = lost /\ jumpToNextHead' = FALSE
            /\ \E e \in Entry : emitted' = Append(emitted, e) /\ TagOf(e) = tag
<1>0. /\ tag \in 1 .. Len(Tags) /\ ~crashed /\ frag \in 1 .. Tags[tag].frags
      /\ Tags[tag].frags \in Nat \ {0} /\ Packet \in Piece
  BY AdvanceType
<1>1. ~InJoinedTag
  BY DEF InJoinedTag
<1>2. flvTag # <<>> => flvTag = Before /\ tagSize = Tags[tag].frags
  BY <1>1 DEF RecordInv
<1>3. ASSUME Parsed, flvTag = <<>> PROVE frag = 1
  BY <1>0, <1>1, <1>3, ParsedAtHead
<1>4. Len(Before) = frag - 1 /\ (Before # <<>> => Before[1] = <<tag, 1>>)
  <2>1. frag - 1 \in Nat
    BY <1>0
  <2>2. Before \in Seq(Piece) /\ Len(Before) = frag - 1
    BY <1>0, <2>1 DEF Before, Piece
  <2>3. Before # <<>> => 1 \in 1 .. frag - 1
    BY <2>1, <2>2, EmptySeq
  <2> QED BY <2>2, <2>3 DEF Before
<1>5. CASE Skip
  BY <1>5 DEF Skip
<1>6. CASE FirstFragment
  BY <1>6 DEF FirstFragment
<1>7. CASE FirstFragmentPanics
  <2>1. Parsed /\ flvTag = <<>> /\ 0 \in Declared
    BY <1>7 DEF FirstFragmentPanics
  <2> QED BY <1>0, <1>3, <2>1 DEF Declared
<1>8. CASE MiddleFragment
  BY <1>8 DEF MiddleFragment
<1>9. CASE Overflow
  <2>1. flvTag # <<>> /\ ~Fits
    BY <1>9 DEF Overflow
  <2>2. Len(flvTag) = frag - 1 /\ tagSize = Tags[tag].frags
    BY <1>2, <1>4, <2>1
  <2> QED BY <1>0, <2>1, <2>2 DEF Fits
<1>10. CASE LastFragment
  <2> DEFINE parts == Append(flvTag, Packet)
             e == [parts |-> parts, size |-> tagSize]
  <2>1. /\ Parsed /\ Marker /\ flvTag # <<>> /\ lost' = lost
        /\ jumpToNextHead' = FALSE /\ emitted' = Append(emitted, e)
    BY <1>10 DEF LastFragment, Emit
  <2>2. flvTag \in Seq(Piece) /\ tagSize \in Nat /\ Len(flvTag) \in Nat \ {0}
    BY <2>1, EmptySeq DEF TypeOK, Piece
  <2>3. parts \in Seq(Piece) /\ parts[1] = flvTag[1]
    BY <1>0, <2>2
  <2>4. flvTag[1] = <<tag, 1>>
    BY <1>2, <1>4, <2>1
  <2> HIDE DEF parts
  <2>5. e \in Entry /\ TagOf(e) = tag
    BY <2>2, <2>3, <2>4 DEF Entry, TagOf
  <2> QED BY <2>1, <2>5
<1>11. CASE WholeTag
  <2> DEFINE parts == <<Packet>>
             e == [parts |-> parts, size |-> 1]
  <2>1. /\ Parsed /\ Marker /\ lost' = lost
        /\ jumpToNextHead' = FALSE /\ emitted' = Append(emitted, e)
    BY <1>11 DEF WholeTag, Emit
  <2>2. parts \in Seq(Piece) /\ parts[1] = <<tag, frag>>
    BY <1>0 DEF Packet
  <2> HIDE DEF parts
  <2>3. e \in Entry /\ TagOf(e) = tag
    BY <2>2 DEF Entry, TagOf
  <2> QED BY <2>1, <2>3
<1> QED BY <1>5, <1>6, <1>7, <1>8, <1>9, <1>10, <1>11 DEF Deliver

\* The lost packets are before the packet at hand.
LostBefore == \A x \in lost : x[1] < tag \/ (x[1] = tag /\ x[2] < frag)

\* They stay so.
LEMMA NextLostBefore ==
  ASSUME TypeOK, LostBefore, Advance, lost' = lost \/ lost' = lost \cup {Packet}
  PROVE  LostBefore'
<1>1. /\ tag \in Nat /\ frag \in Nat /\ Packet[1] = tag /\ Packet[2] = frag
  BY AdvanceType, TagsType DEF Packet
<1>2. (tag' = tag /\ frag' = frag + 1) \/ tag' = tag + 1
  BY DEF Advance
<1>3. ASSUME NEW x \in lost' PROVE x[1] < tag' \/ (x[1] = tag' /\ x[2] < frag')
  <2>1. CASE x \in lost
    <3>1. x[1] \in Nat /\ x[2] \in Nat
      BY <2>1 DEF TypeOK
    <3>2. x[1] < tag \/ (x[1] = tag /\ x[2] < frag)
      BY <2>1 DEF LostBefore
    <3> QED BY <1>1, <1>2, <3>1, <3>2
  <2>2. CASE x = Packet
    BY <1>1, <1>2, <2>2
  <2> QED BY <2>1, <2>2
<1> QED BY <1>3 DEF LostBefore

\* Whether a tag arrived does not change once it is over.
LEMMA ArrivedKept ==
  ASSUME NEW t \in Int, lost' = lost \/ (lost' = lost \cup {Packet} /\ t # tag)
  PROVE  Arrived(t)' <=> Arrived(t)
<1>1. CASE lost' = lost
  BY <1>1 DEF Arrived
<1>2. CASE lost' = lost \cup {Packet} /\ t # tag
  <2>1. \A f : <<t, f>> # Packet
    BY <1>2 DEF Packet
  <2> QED BY <1>2, <2>1 DEF Arrived
<1> QED BY <1>1, <1>2

\* Nothing was lost up to tag t since the join or a tag in one piece.
InSyncUpTo(t) ==
  \/ \A u \in joinTag .. t : Arrived(u)
  \/ \E u \in joinTag .. t : InOnePiece(u) /\ \A v \in u .. t : Arrived(v)

\* Nor does this change.
LEMMA InSyncUpToKept ==
  ASSUME NEW t \in Int, joinTag \in Int, tag \in Int, joinTag' = joinTag,
         lost' = lost \/ (lost' = lost \cup {Packet} /\ t < tag)
  PROVE  InSyncUpTo(t)' <=> InSyncUpTo(t)
<1>1. ASSUME NEW u \in Int, u <= t PROVE Arrived(u)' <=> Arrived(u)
  BY <1>1, ArrivedKept
<1>2. \A u \in joinTag .. t : u \in Int /\ u <= t
  OBVIOUS
<1>3. \A u \in joinTag .. t : \A v \in u .. t : v \in Int /\ v <= t
  OBVIOUS
<1>4. (\A u \in joinTag .. t : Arrived(u)') <=> (\A u \in joinTag .. t : Arrived(u))
  BY <1>1, <1>2
<1>5. ASSUME NEW u \in joinTag .. t
      PROVE  (\A v \in u .. t : Arrived(v)') <=> (\A v \in u .. t : Arrived(v))
  BY <1>1, <1>3
<1>6. InSyncUpTo(t)' <=> \/ \A u \in joinTag .. t : Arrived(u)'
                         \/ \E u \in joinTag .. t :
                              InOnePiece(u) /\ \A v \in u .. t : Arrived(v)'
  BY DEF InSyncUpTo, InOnePiece
<1> QED BY <1>4, <1>5, <1>6 DEF InSyncUpTo

\* Nor does whether a tag was in sync.
LEMMA InSyncKept ==
  ASSUME NEW t \in Int, joinTag \in Int, tag \in Int, joinTag' = joinTag,
         lost' = lost \/ (lost' = lost \cup {Packet} /\ t < tag)
  PROVE  InSync(t)' <=> InSync(t)
<1>1. Arrived(t)' <=> Arrived(t)
  BY ArrivedKept
<1>2. InSyncUpTo(t)' <=> InSyncUpTo(t)
  BY InSyncUpToKept
<1>3. InSync(t) <=> Arrived(t) /\ InSyncUpTo(t)
  BY DEF InSync, InSyncUpTo
<1>4. InSync(t)' <=> Arrived(t)' /\ InSyncUpTo(t)'
  BY DEF InSync, InSyncUpTo
<1> QED BY <1>1, <1>2, <1>3, <1>4

\* A tag is in sync if it arrived and the one before it was, or if it is in one
\* piece.
LEMMA InSyncStep ==
  ASSUME NEW t \in Int, joinTag \in Int, joinTag <= t
  PROVE  /\ InSync(t) <=> InSyncUpTo(t)
         /\ InSync(t) <=> Arrived(t) /\ (InSyncUpTo(t - 1) \/ InOnePiece(t))
<1>1. t \in joinTag .. t /\ \A u \in joinTag .. t : t \in u .. t
  OBVIOUS
<1>2. InSyncUpTo(t) => Arrived(t)
  BY <1>1 DEF InSyncUpTo
<1>3. InSync(t) <=> InSyncUpTo(t)
  BY <1>2 DEF InSync, InSyncUpTo
<1>4. joinTag .. t = (joinTag .. t - 1) \cup {t}
  OBVIOUS
<1>5. \A u \in joinTag .. t : u .. t = (u .. t - 1) \cup {t}
  OBVIOUS
<1>6. t .. t = {t}
  OBVIOUS
<1>7. ASSUME InSyncUpTo(t) PROVE InSyncUpTo(t - 1) \/ InOnePiece(t)
  <2>1. CASE \A u \in joinTag .. t : Arrived(u)
    BY <1>4, <2>1 DEF InSyncUpTo
  <2>2. ASSUME NEW u \in joinTag .. t, InOnePiece(u), \A v \in u .. t : Arrived(v)
        PROVE  InSyncUpTo(t - 1) \/ InOnePiece(t)
    <3>1. CASE u = t
      BY <2>2, <3>1
    <3>2. CASE u # t
      BY <1>4, <1>5, <2>2, <3>2 DEF InSyncUpTo
    <3> QED BY <3>1, <3>2
  <2> QED BY <1>7, <2>1, <2>2 DEF InSyncUpTo
<1>8. ASSUME Arrived(t), InSyncUpTo(t - 1) PROVE InSyncUpTo(t)
  <2>1. CASE \A u \in joinTag .. t - 1 : Arrived(u)
    BY <1>4, <1>8, <2>1 DEF InSyncUpTo
  <2>2. ASSUME NEW u \in joinTag .. t - 1, InOnePiece(u),
               \A v \in u .. t - 1 : Arrived(v)
        PROVE  InSyncUpTo(t)
    <3>1. u \in joinTag .. t
      BY <1>4
    <3>2. \A v \in u .. t : Arrived(v)
      BY <1>5, <1>8, <2>2, <3>1
    <3> QED BY <2>2, <3>1, <3>2 DEF InSyncUpTo
  <2> QED BY <1>8, <2>1, <2>2 DEF InSyncUpTo
<1>9. ASSUME Arrived(t), InOnePiece(t) PROVE InSyncUpTo(t)
  BY <1>1, <1>6, <1>9 DEF InSyncUpTo
<1> QED BY <1>2, <1>3, <1>7, <1>8, <1>9

\* A loss puts the stream out of sync.
LEMMA SyncLost ==
  ASSUME TypeOK, joinTag <= tag, Advance, lost' = lost \cup {Packet},
         NEW t \in Nat, t = tag
  PROVE  ~SyncSoFar' /\ ~InSync(t)'
<1>1. /\ joinTag \in Nat /\ frag \in 1 .. Tags[t].frags
      /\ Tags[t].frags \in Nat
  <2>1. frag \in 1 .. Tags[t].frags /\ Tags[t].frags \in Nat \ {0}
    BY AdvanceType, Zenon
  <2>2. joinTag \in Nat
    BY TagsType DEF TypeOK
  <2> QED BY <2>1, <2>2
<1>2. joinTag' = joinTag
  BY DEF Advance
<1>3. <<t, frag>> \in lost'
  BY DEF Packet
<1>4. ~Arrived(t)'
  BY <1>1, <1>3 DEF Arrived
<1>5. ~InSync(t)'
  BY <1>4 DEF InSync
<1>6. CASE ~Marker
  <2>1. tag' = t /\ frag' = frag + 1
    BY <1>6 DEF Advance
  <2>2. frag \in 1 .. frag' - 1
    BY <1>1, <2>1
  <2>3. ~SyncSoFar'
    BY <1>3, <2>1, <2>2 DEF SyncSoFar
  <2> QED BY <1>5, <2>3
<1>7. CASE Marker
  <2>1. tag' - 1 = t
    BY <1>7 DEF Advance
  <2>2. t \in joinTag .. t /\ \A u \in joinTag .. t : t \in u .. t
    BY <1>1
  <2>3. SyncSoFar' => \/ \A u \in joinTag .. t : Arrived(u)'
                      \/ \E u \in joinTag .. t : \A v \in u .. t : Arrived(v)'
    BY <1>2, <2>1 DEF SyncSoFar
  <2> QED BY <1>4, <1>5, <2>2, <2>3
<1> QED BY <1>6, <1>7

\* Inside a tag the stream stays in sync, or out of it, without a loss.
LEMMA SyncMiddle ==
  ASSUME TypeOK, LostBefore, Advance, ~Marker, lost' = lost
  PROVE  SyncSoFar' <=> SyncSoFar
<1>1. tag \in Nat /\ joinTag \in Nat /\ frag \in Nat \ {0}
  BY AdvanceType, TagsType DEF TypeOK
<1>2. PICK t \in Nat : t = tag
  BY <1>1
<1>3. joinTag' = joinTag /\ tag' = t /\ frag' = frag + 1
  BY <1>2 DEF Advance
<1>4. <<t, frag>> \notin lost
  BY <1>1, <1>2 DEF LostBefore
<1>5. 1 .. frag' - 1 = (1 .. frag - 1) \cup {frag}
  BY <1>1, <1>3
<1>6. (\A f \in 1 .. frag' - 1 : <<t, f>> \notin lost')
        <=> (\A f \in 1 .. frag - 1 : <<t, f>> \notin lost)
  BY <1>4, <1>5
<1>7. InSyncUpTo(t - 1)' <=> InSyncUpTo(t - 1)
  BY <1>1, <1>3, InSyncUpToKept
<1>8. SyncSoFar <=> /\ \A f \in 1 .. frag - 1 : <<t, f>> \notin lost
                    /\ InSyncUpTo(t - 1)
  BY <1>2 DEF SyncSoFar, InSyncUpTo
<1>9. SyncSoFar' <=> /\ \A f \in 1 .. frag' - 1 : <<t, f>> \notin lost'
                     /\ InSyncUpTo(t - 1)'
  BY <1>3 DEF SyncSoFar, InSyncUpTo
<1> QED BY <1>6, <1>7, <1>8, <1>9

\* Behind the end of a tag it is in sync if and only if that tag was, and a tag
\* is if it was so at the last fragment or the tag is in one piece.
LEMMA SyncEnd ==
  ASSUME TypeOK, LostBefore, joinTag <= tag, Advance, Marker, lost' = lost,
         NEW t \in Nat, t = tag
  PROVE  /\ SyncSoFar' <=> InSync(t)
         /\ InSync(t) <=> SyncSoFar \/ InOnePiece(t)
<1>1. joinTag \in Nat /\ frag \in Nat \ {0} /\ frag = Tags[t].frags
  BY AdvanceType, TagsType DEF TypeOK, Marker
<1>2. joinTag' = joinTag /\ tag' = t + 1 /\ frag' = 1 /\ tag' - 1 = t
  BY DEF Advance
<1>3. InSyncUpTo(t)' <=> InSyncUpTo(t)
  BY <1>1, <1>2, InSyncUpToKept
<1>4. /\ InSync(t) <=> InSyncUpTo(t)
      /\ InSync(t) <=> Arrived(t) /\ (InSyncUpTo(t - 1) \/ InOnePiece(t))
  BY <1>1, InSyncStep
<1>5. 1 .. frag' - 1 = {}
  BY <1>2
<1>6. SyncSoFar' <=> InSyncUpTo(t)'
  BY <1>2, <1>5 DEF SyncSoFar, InSyncUpTo
<1>7. <<t, frag>> \notin lost
  BY <1>1 DEF LostBefore
<1>8. 1 .. frag = (1 .. frag - 1) \cup {frag}
  BY <1>1
<1>9. Arrived(t) <=> \A f \in 1 .. frag - 1 : <<t, f>> \notin lost
  BY <1>1, <1>7, <1>8 DEF Arrived
<1>10. SyncSoFar <=> Arrived(t) /\ InSyncUpTo(t - 1)
  BY <1>9 DEF SyncSoFar, InSyncUpTo
<1>11. InOnePiece(t) => Arrived(t)
  <2>1. InOnePiece(t) => 1 .. frag - 1 = {}
    BY <1>1 DEF InOnePiece
  <2> QED BY <1>9, <2>1
<1> QED BY <1>3, <1>4, <1>6, <1>10, <1>11

\* What can become of the tags that were in sync and are over.
LEMMA TagsInSync ==
  ASSUME TypeOK, joinTag <= tag, Advance, NEW t \in Nat, t = tag,
         lost' = lost \/ lost' = lost \cup {Packet}
  PROVE  {u \in joinTag' .. tag' - 1 : InSync(u)'}
           = {u \in joinTag .. tag - 1 : InSync(u)}
               \cup {u \in {t} : Marker /\ InSync(u)'}
<1>1. joinTag \in Nat /\ joinTag' = joinTag
  BY DEF Advance, TypeOK
<1>2. \A u \in joinTag .. t - 1 : u \in Int /\ u < t
  BY <1>1
<1>3. ASSUME NEW u \in joinTag .. t - 1 PROVE InSync(u)' <=> InSync(u)
  BY <1>1, <1>2, InSyncKept
<1>4. CASE Marker
  <2>1. joinTag' .. tag' - 1 = (joinTag .. t - 1) \cup {t}
    BY <1>1, <1>4 DEF Advance
  <2> QED BY <1>3, <1>4, <2>1
<1>5. CASE ~Marker
  <2>1. joinTag' .. tag' - 1 = joinTag .. t - 1
    BY <1>1, <1>5 DEF Advance
  <2> QED BY <1>3, <1>5, <2>1
<1> QED BY <1>4, <1>5

EmittedTags == {TagOf(emitted[i]) : i \in DOMAIN emitted}

\* A step keeps the record's search tied to the loss of sync, and hands on a tag
\* exactly if it ends in sync.
LEMMA StepSync ==
  ASSUME TypeOK, RecordInv, ~JoinedInside, LostBefore, joinTag <= tag,
         jumpToNextHead <=> ~SyncSoFar, Advance, Lost \/ Deliver,
         NEW t \in Nat, t = tag
  PROVE  /\ jumpToNextHead' <=> ~SyncSoFar'
         /\ EmittedTags' = EmittedTags \cup {u \in {t} : Marker /\ InSync(u)'}
         /\ lost' = lost \/ lost' = lost \cup {Packet}
<1>1. joinTag \in Nat /\ joinTag' = joinTag
  BY DEF Advance, TypeOK
<1>2. IsTagHead => Marker /\ InOnePiece(t)
  BY DEF IsTagHead, Marker, InOnePiece
<1>3. Marker /\ InOnePiece(t) => IsTagHead
  BY DEF IsTagHead, Marker, InOnePiece
<1>4. Parsed <=> (jumpToNextHead => IsTagHead)
  BY DEF Parsed
<1>5. ASSUME Marker, lost' = lost
      PROVE  (SyncSoFar' <=> Parsed) /\ (InSync(t)' <=> Parsed)
  <2>1. (SyncSoFar' <=> InSync(t)) /\ (InSync(t) <=> SyncSoFar \/ InOnePiece(t))
    BY <1>5, SyncEnd
  <2>2. InSync(t)' <=> InSync(t)
    BY <1>1, <1>5, InSyncKept
  <2> QED BY <1>2, <1>3, <1>4, <1>5, <2>1, <2>2
<1>6. CASE Lost
  <2>1. /\ jumpToNextHead' = TRUE /\ lost' = lost \cup {Packet}
        /\ emitted' = emitted
    BY <1>6 DEF Lost
  <2>2. ~SyncSoFar' /\ ~InSync(t)'
    BY <2>1, SyncLost
  <2>3. EmittedTags' = EmittedTags
    BY <2>1 DEF EmittedTags, TagOf
  <2> QED BY <2>1, <2>2, <2>3
<1>7. CASE ~Parsed /\ UNCHANGED <<emitted, lost, jumpToNextHead>>
  <2>1. EmittedTags' = EmittedTags
    BY <1>7 DEF EmittedTags, TagOf
  <2>2. jumpToNextHead /\ jumpToNextHead'
    <3>1. jumpToNextHead
      BY <1>4, <1>7
    <3>2. jumpToNextHead' = jumpToNextHead
      BY <1>7
    <3> QED BY <3>1, <3>2
  <2>3. CASE Marker
    <3>1. ~SyncSoFar' /\ ~InSync(t)'
      BY <1>5, <1>7, <2>3
    <3> QED BY <1>7, <2>1, <2>2, <3>1
  <2>4. CASE ~Marker
    <3>1. SyncSoFar' <=> SyncSoFar
      BY <1>7, <2>4, SyncMiddle
    <3> QED BY <1>7, <2>1, <2>2, <2>4, <3>1
  <2> QED BY <2>3, <2>4
<1>8. CASE /\ Parsed /\ ~Marker /\ UNCHANGED <<emitted, lost>>
           /\ jumpToNextHead' = FALSE
  <2>1. EmittedTags' = EmittedTags
    BY <1>8 DEF EmittedTags, TagOf
  <2>2. ~jumpToNextHead
    BY <1>2, <1>4, <1>8
  <2>3. SyncSoFar' <=> SyncSoFar
    BY <1>8, SyncMiddle
  <2> QED BY <1>8, <2>1, <2>2, <2>3
<1>9. ASSUME Parsed, Marker, lost' = lost, jumpToNextHead' = FALSE,
             NEW e \in Entry, emitted' = Append(emitted, e), TagOf(e) = tag
      PROVE  /\ jumpToNextHead' <=> ~SyncSoFar'
             /\ EmittedTags' = EmittedTags \cup {u \in {t} : Marker /\ InSync(u)'}
             /\ lost' = lost \/ lost' = lost \cup {Packet}
  <2>1. SyncSoFar' /\ InSync(t)'
    BY <1>5, <1>9
  <2>2. emitted \in Seq(Entry)
    BY DEF TypeOK, Entry, Piece
  <2>3. /\ DOMAIN emitted' = (DOMAIN emitted) \cup {Len(emitted) + 1}
        /\ \A i \in DOMAIN emitted : emitted'[i] = emitted[i]
        /\ emitted'[Len(emitted) + 1] = e
    BY <1>9, <2>2
  <2>4. EmittedTags' = EmittedTags \cup {t}
    BY <1>9, <2>3 DEF EmittedTags, TagOf
  <2> QED BY <1>9, <2>1, <2>4
<1> QED BY <1>6, <1>7, <1>8, <1>9, StepKinds

\* Every step preserves it.
LEMMA NextSyncInv ==
  ASSUME TypeOK, RecordInv, SyncInv, [Next]_vars
  PROVE  SyncInv'
<1>1. CASE UNCHANGED vars
  <2>1. /\ UNCHANGED <<joinTag, joinFrag, tag, frag>>
        /\ UNCHANGED <<jumpToNextHead, emitted, lost>>
    BY <1>1 DEF vars
  <2>2. JoinedInside' = JoinedInside
    BY <2>1, Zenon DEF JoinedInside
  <2>3. SyncSoFar' <=> SyncSoFar
    <3>1. ASSUME NEW t
          PROVE  (Arrived(t)' <=> Arrived(t)) /\ (InOnePiece(t)' <=> InOnePiece(t))
      BY <2>1, Zenon DEF Arrived, InOnePiece
    <3> QED BY <2>1, <3>1 DEF SyncSoFar
  <2>4. EmittedTags' = EmittedTags
    BY <2>1, Zenon DEF EmittedTags, TagOf
  <2>5. ASSUME NEW t \in joinTag .. tag - 1 PROVE InSync(t)' = InSync(t)
    BY <2>1, Zenon DEF InSync, InOnePiece, Arrived
  <2>6. {t \in joinTag .. tag - 1 : InSync(t)}
          = {t \in joinTag' .. tag' - 1 : InSync(t)'}
    BY <2>1, <2>5
  <2>7. ExactlyInSyncEmitted' = ExactlyInSyncEmitted
    BY <2>2, <2>4, <2>6, Zenon DEF ExactlyInSyncEmitted, EmittedTags
  <2> QED BY <2>1, <2>2, <2>3, <2>7, Zenon DEF SyncInv
<1>2. CASE Next
  <2>1. Advance /\ (Lost \/ Deliver)
    BY <1>2 DEF Next
  <2>2. /\ tag \in Nat /\ joinTag \in Nat /\ joinTag' = joinTag
        /\ joinFrag' = joinFrag /\ tag' >= tag
    BY <2>1, AdvanceType DEF Advance, TypeOK
  <2>3. PICK t \in Nat : t = tag
    BY <2>2
  <2>4. LostBefore /\ joinTag <= tag
    BY DEF SyncInv, LostBefore
  <2>5. lost' = lost \/ lost' = lost \cup {Packet}
    BY <2>1 DEF Lost, Deliver, Skip, FirstFragment, FirstFragmentPanics,
                MiddleFragment, Overflow, LastFragment, WholeTag
  <2>6. LostBefore'
    BY <2>1, <2>4, <2>5, NextLostBefore
  <2>7. joinTag' <= tag'
    BY <2>2, <2>4, AdvanceType, <2>1 DEF Advance
  <2>8. ASSUME ~JoinedInside
        PROVE  /\ jumpToNextHead' <=> ~SyncSoFar'
               /\ EmittedTags' = {u \in joinTag' .. tag' - 1 : InSync(u)'}
    <3>1. jumpToNextHead <=> ~SyncSoFar
      BY <2>8 DEF SyncInv
    <3>2. EmittedTags = {u \in joinTag .. tag - 1 : InSync(u)}
      BY <2>8 DEF SyncInv, ExactlyInSyncEmitted, EmittedTags
    <3>3. /\ jumpToNextHead' <=> ~SyncSoFar'
          /\ EmittedTags' = EmittedTags \cup {u \in {t} : Marker /\ InSync(u)'}
      BY <2>1, <2>3, <2>4, <2>8, <3>1, StepSync
    <3>4. {u \in joinTag' .. tag' - 1 : InSync(u)'}
            = {u \in joinTag .. tag - 1 : InSync(u)}
                \cup {u \in {t} : Marker /\ InSync(u)'}
      BY <2>1, <2>3, <2>4, <2>5, TagsInSync
    <3> QED BY <3>2, <3>3, <3>4
  <2>9. JoinedInside' <=> JoinedInside
    BY <2>2 DEF JoinedInside
  <2>10. ExactlyInSyncEmitted'
    BY <2>8, <2>9 DEF ExactlyInSyncEmitted, EmittedTags
  <2> QED BY <2>6, <2>7, <2>8, <2>9, <2>10 DEF SyncInv, LostBefore
<1> QED BY <1>1, <1>2

\* Nothing is handed on, lost or searched for at the join.
LEMMA InitSyncInv ==
  Init => SyncInv
<1> SUFFICES ASSUME Init PROVE SyncInv
  OBVIOUS
<1>1. /\ joinTag \in Nat /\ tag = joinTag /\ frag = joinFrag
      /\ jumpToNextHead = FALSE /\ emitted = <<>> /\ lost = {}
  BY TagsType DEF Init
<1>2. joinTag .. tag - 1 = {}
  BY <1>1
<1>3. SyncSoFar
  BY <1>1, <1>2 DEF SyncSoFar
<1>4. DOMAIN emitted = {}
  BY <1>1
<1>5. ExactlyInSyncEmitted
  BY <1>2, <1>4 DEF ExactlyInSyncEmitted
<1> QED BY <1>1, <1>3, <1>5 DEF SyncInv

\* For every stream and every loss, a node that joins at the start of a tag hands
\* on exactly the tags that arrive in sync: extractFlv gives up no tag it could
\* have, and its search ends at the next tag in one piece.
THEOREM ExactlyTheTagsInSync ==
  Spec => []ExactlyInSyncEmitted
<1>1. SyncInv => ExactlyInSyncEmitted
  BY DEF SyncInv
<1> QED BY <1>1, InitSyncInv, NextSyncInv, TypeCorrect, RecordCorrect, PTL DEF Spec

-----------------------------------------------------------------------------
(* One call of extractFlv, wherever the record and the stream are.  What a     *)
(* composition needs in which packets can be skipped unnoticed.                *)

RecordTyped == flvTag \in Seq(Piece) /\ tagSize \in Nat /\ emitted \in Seq(Entry)

\* The stream moves on by one packet.
Moves ==
  /\ tag' = IF Marker THEN tag + 1 ELSE tag
  /\ frag' = IF Marker THEN 1 ELSE frag + 1

\* extractFlv goes on, hands on a tag or panics.  A record in step stays so and
\* hands on whole tags only; one out of step is back in step when it hands one on.
LEMMA StepDamage ==
  ASSUME RecordTyped, tag \in DOMAIN Tags, frag \in 1 .. Tags[tag].frags,
         Lost \/ Deliver
  PROVE  /\ RecordTyped'
         /\ \/ emitted' = emitted /\ crashed' = crashed /\ (InStep /\ Moves => InStep')
            \/ \E e \in Entry : /\ emitted' = Append(emitted, e)
                                /\ crashed' = crashed
                                /\ Moves => InStep'
                                /\ InStep => e = Whole(tag)
            \/ ~InStep /\ crashed' = TRUE /\ emitted' = emitted
<1>0. /\ Tags[tag].frags \in Nat \ {0} /\ frag \in Nat \ {0} /\ tag \in Nat
      /\ Packet \in Piece
  <2>1. tag \in 1 .. Len(Tags)
    BY StreamAssumption
  <2>2. Tags[tag].frags \in Nat \ {0} /\ tag \in Nat
    BY <2>1, TagsType
  <2> QED BY <2>2 DEF Packet, Piece
<1>1. ASSUME flvTag' = <<>>, jumpToNextHead' = TRUE PROVE InStep'
  BY <1>1 DEF InStep
<1>2. ASSUME flvTag' = <<>>, Marker, Moves PROVE InStep'
  <2>1. frag' = 1
    BY <1>2 DEF Moves
  <2> QED BY <1>2, <2>1 DEF InStep
<1>3. ASSUME flvTag = <<>>, Parsed, InStep PROVE frag = 1
  BY <1>3 DEF InStep, Parsed, IsTagHead
<1>4. ASSUME flvTag # <<>>, InStep
      PROVE  /\ flvTag = [f \in 1 .. frag - 1 |-> <<tag, f>>]
             /\ tagSize = Tags[tag].frags /\ ~jumpToNextHead
  BY <1>4 DEF InStep, Before
<1>5. CASE Lost
  <2>1. /\ flvTag' = <<>> /\ tagSize' = 0 /\ jumpToNextHead' = TRUE
        /\ emitted' = emitted /\ crashed' = crashed
    BY <1>5 DEF Lost, Reset
  <2> QED BY <1>1, <2>1 DEF RecordTyped
<1>6. CASE Skip
  <2>1. /\ flvTag' = flvTag /\ tagSize' = tagSize /\ emitted' = emitted
        /\ crashed' = crashed /\ jumpToNextHead' = jumpToNextHead
        /\ jumpToNextHead
    BY <1>6 DEF Skip, Parsed
  <2>2. InStep => InStep'
    <3>1. InStep => flvTag = <<>>
      BY <1>4, <2>1
    <3> QED BY <2>1, <3>1 DEF InStep
  <2> QED BY <2>1, <2>2 DEF RecordTyped
<1>7. CASE FirstFragment
  <2>1. /\ Parsed /\ ~Marker /\ flvTag = <<>> /\ flvTag' = <<Packet>>
        /\ tagSize' \in Declared /\ jumpToNextHead' = FALSE
        /\ emitted' = emitted /\ crashed' = crashed
    BY <1>7 DEF FirstFragment
  <2>2. RecordTyped'
    <3>1. tagSize' \in Nat
      BY <1>0, <2>1, StreamAssumption DEF Declared
    <3> QED BY <1>0, <2>1, <3>1 DEF RecordTyped
  <2>3. ASSUME InStep, Moves PROVE InStep'
    <3>1. frag = 1 /\ tag' = tag /\ frag' = 2
      BY <1>3, <2>1, <2>3 DEF Moves
    <3>2. tagSize' = Tags[tag'].frags
      BY <2>1, <3>1 DEF Declared
    <3>3. Before' = [f \in 1 .. 1 |-> <<tag, f>>]
      BY <3>1 DEF Before
    <3>4. <<Packet>> = [f \in 1 .. 1 |-> <<tag, f>>]
      BY <3>1 DEF Packet
    <3>5. flvTag' # <<>> /\ flvTag' = Before'
      BY <2>1, <3>3, <3>4
    <3> QED BY <2>1, <3>2, <3>5 DEF InStep
  <2> QED BY <2>1, <2>2, <2>3
<1>8. CASE FirstFragmentPanics
  <2>1. /\ Parsed /\ flvTag = <<>> /\ 0 \in Declared /\ crashed' = TRUE
        /\ flvTag' = flvTag /\ tagSize' = tagSize /\ emitted' = emitted
    BY <1>8 DEF FirstFragmentPanics
  <2>2. frag # 1
    BY <1>0, <2>1 DEF Declared
  <2>3. ~InStep
    BY <1>3, <2>1, <2>2
  <2> QED BY <2>1, <2>3 DEF RecordTyped
<1>9. CASE MiddleFragment
  <2>1. /\ ~Marker /\ flvTag # <<>> /\ flvTag' = Append(flvTag, Packet)
        /\ jumpToNextHead' = FALSE /\ tagSize' = tagSize
        /\ emitted' = emitted /\ crashed' = crashed
    BY <1>9 DEF MiddleFragment
  <2>2. RecordTyped' /\ flvTag' # <<>>
    BY <1>0, <2>1 DEF RecordTyped
  <2>3. ASSUME InStep, Moves PROVE InStep'
    <3>1. tag' = tag /\ frag' = frag + 1 /\ frag' - 1 = frag
      BY <1>0, <2>1, <2>3 DEF Moves
    <3>2. Append([f \in 1 .. frag - 1 |-> <<tag, f>>], Packet)
            = [f \in 1 .. frag |-> <<tag, f>>]
      BY <1>0, BeforeAppend DEF Packet
    <3>3. Before' = [f \in 1 .. frag |-> <<tag, f>>]
      BY <3>1 DEF Before
    <3>4. flvTag' = Before' /\ tagSize' = Tags[tag'].frags
      BY <1>4, <2>1, <2>3, <3>1, <3>2, <3>3
    <3> QED BY <2>1, <2>2, <3>4 DEF InStep
  <2> QED BY <2>1, <2>2, <2>3
<1>10. CASE Overflow
  <2>1. /\ flvTag' = <<>> /\ tagSize' = 0 /\ jumpToNextHead' = TRUE
        /\ emitted' = emitted /\ crashed' = crashed
    BY <1>10 DEF Overflow, Reset
  <2> QED BY <1>1, <2>1 DEF RecordTyped
<1>11. CASE LastFragment
  <2> DEFINE parts == Append(flvTag, Packet)
             e == [parts |-> parts, size |-> tagSize]
  <2>1. /\ Marker /\ flvTag # <<>> /\ flvTag' = <<>> /\ tagSize' = 0
        /\ crashed' = crashed /\ emitted' = Append(emitted, e)
    BY <1>11 DEF LastFragment, Reset, Emit
  <2>2. parts \in Seq(Piece) /\ tagSize \in Nat
    BY <1>0 DEF RecordTyped
  <2>3. InStep => parts = [f \in 1 .. frag |-> <<tag, f>>] /\ tagSize = Tags[tag].frags
    <3>1. Append([f \in 1 .. frag - 1 |-> <<tag, f>>], Packet)
            = [f \in 1 .. frag |-> <<tag, f>>]
      BY <1>0, BeforeAppend DEF Packet
    <3> QED BY <1>4, <2>1, <3>1
  <2> HIDE DEF parts
  <2>4. e \in Entry
    BY <2>2 DEF Entry
  <2>5. InStep => e = Whole(tag)
    BY <2>1, <2>3 DEF Whole, Marker
  <2> HIDE DEF e
  <2>6. RecordTyped'
    BY <2>1, <2>4 DEF RecordTyped
  <2>7. Moves => InStep'
    BY <1>2, <2>1
  <2> QED BY <2>1, <2>4, <2>5, <2>6, <2>7
<1>12. CASE WholeTag
  <2> DEFINE parts == <<Packet>>
             e == [parts |-> parts, size |-> 1]
  <2>1. /\ Parsed /\ Marker /\ flvTag = <<>> /\ flvTag' = <<>> /\ tagSize' = 0
        /\ crashed' = crashed /\ emitted' = Append(emitted, e)
    BY <1>12 DEF WholeTag, Reset, Emit
  <2>2. parts \in Seq(Piece)
    BY <1>0
  <2>3. InStep => frag = 1 /\ parts = [f \in 1 .. 1 |-> <<tag, f>>]
    BY <1>3, <2>1 DEF Packet
  <2> HIDE DEF parts
  <2>4. e \in Entry
    BY <2>2 DEF Entry
  <2>5. InStep => e = Whole(tag)
    BY <2>1, <2>3 DEF Whole, Marker
  <2> HIDE DEF e
  <2>6. RecordTyped'
    BY <2>1, <2>4 DEF RecordTyped
  <2>7. Moves => InStep'
    BY <1>2, <2>1
  <2> QED BY <2>1, <2>4, <2>5, <2>6, <2>7
<1> QED BY <1>5, <1>6, <1>7, <1>8, <1>9, <1>10, <1>11, <1>12 DEF Deliver

=============================================================================
