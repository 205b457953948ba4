------------------------------ MODULE FlvRecord -----------------------------
(***************************************************************************)
(* The reassembly of FLV tags from RTP packets: the first half of          *)
(* Queue.extractFlv with its FlvRecord and utils.IsTagHead.                *)
(*                                                                         *)
(* The input is what Playout promises and RtpQueue delivers: the packets   *)
(* in order, nil for each one that could not be had.  A reshape of the     *)
(* queue skips packets and resets the record just as a nil does, so it is  *)
(* a run of Lost steps here.  Left out is the reshape whose SetReadBuffer  *)
(* fails (RtpQueue's ReshapeBufferError), which skips the reset.           *)
(*                                                                         *)
(* The cloud cuts a tag into fragments of one payload each, the marker on  *)
(* the last.  Sizes count payloads.  Bytes that happen to look like a tag  *)
(* head in the middle of a tag (six of them would have to fit) are left    *)
(* out.                                                                    *)
(***************************************************************************)
EXTENDS Integers, Sequences

CONSTANTS
    Tags,        \* the stream: for each tag its number of fragments and
                 \* whether it is an audio or video tag
    MaxDeclared  \* bound: largest size read from bytes that are no tag head

ASSUME StreamAssumption ==
    /\ Tags \in Seq([frags : Nat \ {0}, av : BOOLEAN])
    /\ Tags # <<>>
    /\ MaxDeclared \in Nat

VARIABLES
    joinTag,         \* the first packet the edge node got: a fragment
    joinFrag,        \* of the tag the cloud was sending when it joined
    tag, frag,       \* the next packet of the stream: fragment frag of tag
    flvTag,          \* record.flvTag[:pos], the payloads written; empty if nil
    tagSize,         \* record.TagSize
    jumpToNextHead,  \* record.jumpToNextHead
    crashed,         \* a slice index was out of range
    emitted,         \* the tags handed on to the clients, HLS and the file
    lost             \* the packets that were not delivered

vars == <<joinTag, joinFrag, tag, frag, flvTag, tagSize, jumpToNextHead,
          crashed, emitted, lost>>

-----------------------------------------------------------------------------
(* The packet at hand. *)

Packet == <<tag, frag>>

Marker == frag = Tags[tag].frags

\* The next call of extractFlv gets the packet after this one.
Advance ==
    /\ ~crashed
    /\ tag <= Len(Tags)
    /\ tag' = IF Marker THEN tag + 1 ELSE tag
    /\ frag' = IF Marker THEN 1 ELSE frag + 1
    /\ UNCHANGED <<joinTag, joinFrag>>

\* utils.IsTagHead compares the declared size with the payload, so that only
\* an audio or video tag in one piece passes.
IsTagHead == frag = 1 /\ Tags[tag].av /\ Tags[tag].frags = 1

\* What the three size bytes of the payload say: the size of the tag in its
\* first fragment, anything in another one.
Declared == IF frag = 1 THEN {Tags[tag].frags} ELSE 0 .. MaxDeclared

\* Mutant of Parsed: the jumpToNextHead test is missing.
ParsedAlways == tag \in DOMAIN Tags

\* The packet gets past the jumpToNextHead test.
Parsed == jumpToNextHead => IsTagHead

\* record.Reset, which leaves jumpToNextHead alone.
Reset == flvTag' = <<>> /\ tagSize' = 0

\* The payload ends inside the buffer.
Fits == Len(flvTag) + 1 <= tagSize

\* A finished tag goes to the second half of extractFlv.
Emit(parts, size) ==
    emitted' = Append(emitted, [parts |-> parts, size |-> size])

-----------------------------------------------------------------------------
(* extractFlv. *)

\* Mutant of Lost: parsing goes on with the next packet.
LostGoesOn ==
    /\ Reset
    /\ lost' = lost \cup {Packet}
    /\ UNCHANGED <<jumpToNextHead, crashed, emitted>>

\* nil, or packets that reshape gave up.
Lost ==
    /\ Reset
    /\ jumpToNextHead' = TRUE
    /\ lost' = lost \cup {Packet}
    /\ UNCHANGED <<crashed, emitted>>

\* Not a head: wait for the next packet.
Skip ==
    /\ ~Parsed
    /\ UNCHANGED <<flvTag, tagSize, jumpToNextHead, crashed, emitted, lost>>

\* The first fragment of several: make the buffer and write the payload.
FirstFragment ==
    /\ Parsed
    /\ ~Marker
    /\ flvTag = <<>>
    /\ tagSize' \in Declared \ {0}
    /\ flvTag' = <<Packet>>
    /\ jumpToNextHead' = FALSE
    /\ UNCHANGED <<crashed, emitted, lost>>

\* The same when the size is smaller than the payload: the copy is not
\* guarded and the slice expression panics.
FirstFragmentPanics ==
    /\ Parsed
    /\ ~Marker
    /\ flvTag = <<>>
    /\ 0 \in Declared
    /\ crashed' = TRUE
    /\ UNCHANGED <<flvTag, tagSize, jumpToNextHead, emitted, lost>>

MiddleFragment ==
    /\ Parsed
    /\ ~Marker
    /\ flvTag # <<>>
    /\ Fits
    /\ flvTag' = Append(flvTag, Packet)
    /\ jumpToNextHead' = FALSE
    /\ UNCHANGED <<tagSize, crashed, emitted, lost>>

\* A middle or last fragment that does not fit: drop the tag.
Overflow ==
    /\ Parsed
    /\ flvTag # <<>>
    /\ ~Fits
    /\ Reset
    /\ jumpToNextHead' = TRUE
    /\ UNCHANGED <<crashed, emitted, lost>>

\* Mutant of LastFragment: the record is not reset behind a finished tag.
LastFragmentNoReset ==
    /\ Parsed
    /\ Marker
    /\ flvTag # <<>>
    /\ Fits
    /\ Emit(Append(flvTag, Packet), tagSize)
    /\ jumpToNextHead' = FALSE
    /\ UNCHANGED <<flvTag, tagSize, crashed, lost>>

LastFragment ==
    /\ Parsed
    /\ Marker
    /\ flvTag # <<>>
    /\ Fits
    /\ Emit(Append(flvTag, Packet), tagSize)
    /\ Reset
    /\ jumpToNextHead' = FALSE
    /\ UNCHANGED <<crashed, lost>>

\* Mutant of WholeTag: the search for a head does not end at one.
WholeTagStaysLost ==
    /\ Parsed
    /\ Marker
    /\ flvTag = <<>>
    /\ Emit(<<Packet>>, 1)
    /\ Reset
    /\ UNCHANGED <<jumpToNextHead, crashed, lost>>

\* A tag in one piece.
WholeTag ==
    /\ Parsed
    /\ Marker
    /\ flvTag = <<>>
    /\ Emit(<<Packet>>, 1)
    /\ Reset
    /\ jumpToNextHead' = FALSE
    /\ UNCHANGED <<crashed, lost>>

-----------------------------------------------------------------------------
\* What a packet of the stream makes extractFlv do.
Deliver ==
    \/ Skip
    \/ FirstFragment
    \/ FirstFragmentPanics
    \/ MiddleFragment
    \/ Overflow
    \/ LastFragment
    \/ WholeTag

\* NewFlvRecord; the edge node may join anywhere, also inside a tag.
Init ==
    /\ joinTag \in DOMAIN Tags
    /\ joinFrag \in 1 .. Tags[joinTag].frags
    /\ tag = joinTag
    /\ frag = joinFrag
    /\ flvTag = <<>>
    /\ tagSize = 0
    /\ jumpToNextHead = FALSE
    /\ crashed = FALSE
    /\ emitted = <<>>
    /\ lost = {}

Next == Advance /\ (Lost \/ Deliver)

Spec == Init /\ [][Next]_vars

-----------------------------------------------------------------------------
(* Properties. *)

\* Every variable has the type of the Go field it models, and the position in
\* the buffer is inside it.
TypeOK ==
    /\ tag \in 1 .. Len(Tags) + 1
    /\ tag <= Len(Tags) => frag \in 1 .. Tags[tag].frags
    /\ joinTag \in DOMAIN Tags
    /\ joinFrag \in 1 .. Tags[joinTag].frags
    /\ flvTag \in Seq(Nat \X Nat)
    /\ tagSize \in Nat
    /\ Len(flvTag) <= tagSize
    /\ jumpToNextHead \in BOOLEAN
    /\ crashed \in BOOLEAN
    /\ emitted \in Seq([parts : Seq(Nat \X Nat), size : Nat])
    /\ lost \subseteq Nat \X Nat

\* The edge node joined inside a tag.
JoinedInside == joinFrag # 1

\* Tag t with all its fragments, in order, in a buffer of its size.
Whole(t) == [parts |-> [f \in 1 .. Tags[t].frags |-> <<t, f>>],
             size |-> Tags[t].frags]

TagOf(e) == e.parts[1][1]

\* No loss, overflow or late join makes extractFlv hand on a damaged tag:
\* only the tag the node joined in the middle of can be incomplete.
WholeTags ==
    \A i \in DOMAIN emitted :
        \/ emitted[i] = Whole(TagOf(emitted[i]))
        \/ JoinedInside /\ TagOf(emitted[i]) = joinTag

\* Tags are handed on in stream order, each at most once.
TagsInOrder ==
    \A i, j \in DOMAIN emitted :
        i < j => TagOf(emitted[i]) < TagOf(emitted[j])

\* The unguarded copy of the first fragment is out of range at most in the tag
\* the node joined in the middle of.
PanicOnlyAtJoin == crashed => JoinedInside /\ tag = joinTag

Arrived(t) == \A f \in 1 .. Tags[t].frags : <<t, f>> \notin lost

InOnePiece(t) == Tags[t].av /\ Tags[t].frags = 1

\* Tag t arrived, and nothing was lost before it, or since a tag in one piece
\* ended the search for a head.
InSync(t) ==
    /\ Arrived(t)
    /\ \/ \A u \in joinTag .. t : Arrived(u)
       \/ \E u \in joinTag .. t : InOnePiece(u) /\ \A v \in u .. t : Arrived(v)

\* Exactly the tags that arrive in sync are handed on: after a loss
\* extractFlv skips no more than up to the next tag in one piece.
ExactlyInSyncEmitted ==
    ~JoinedInside =>
        {TagOf(emitted[i]) : i \in DOMAIN emitted}
            = {t \in joinTag .. tag - 1 : InSync(t)}

=============================================================================
