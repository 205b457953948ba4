------------------------------- MODULE FlvTag -------------------------------
(***************************************************************************)
(* What the package container/flv makes of a finished tag, and what        *)
(* SegmentCache.Write makes of that.                                       *)
(*                                                                         *)
(* A tag is its type, the number of bytes behind its 11 header bytes, the  *)
(* sound format or frame type in the first of these and the packet type in *)
(* the second.                                                             *)
(***************************************************************************)
EXTENDS Integers

TAG_AUDIO == 8
TAG_VIDEO == 9
MetadatAMF0 == 18

SOUND_AAC == 10
AAC_SEQHDR == 0
FRAME_KEY == 1
FRAME_INTER == 2
AVC_SEQHDR == 0

TagBytes == [type : 0 .. 255, len : Nat, format : 0 .. 15, packet : 0 .. 255]

\* Packet.Parse
IsAudio(b) == b.type = TAG_AUDIO
IsVideo(b) == b.type = TAG_VIDEO

\* parseAudioHeader: no data is an error, AAC data of one byte is read past
\* its end.  Tags that are not video, metadata too, are parsed as audio.
AudioParses(b) == b.len >= 1 /\ (b.format = SOUND_AAC => b.len >= 2)

\* parseVideoHeader
VideoParses(b) == b.len >= 5

\* ParseMediaTagHeader, called by DemuxHeader.
DemuxHeader(b) == IF IsVideo(b) THEN VideoParses(b) ELSE AudioParses(b)

AacPacketType(b) == b.packet

AvcPacketType(b) ==
    IF b.format \in {FRAME_KEY, FRAME_INTER} THEN b.packet ELSE 0

IsSeq(b) == b.format = FRAME_KEY /\ AvcPacketType(b) = AVC_SEQHDR

\* What SegmentCache.Write does with a tag: it keeps the two headers, and its
\* CheckError, or the index, panics on a tag that is too short.
CacheKind(b) ==
    CASE ~DemuxHeader(b) -> "short"
      [] DemuxHeader(b) /\ IsAudio(b) /\ b.format = SOUND_AAC
            /\ AacPacketType(b) = AAC_SEQHDR -> "audioSeq"
      [] DemuxHeader(b) /\ IsVideo(b) /\ IsSeq(b) -> "videoSeq"
      [] OTHER -> "media"

=============================================================================
