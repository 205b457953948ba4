----------------------------- MODULE MCFlvFanout ----------------------------
(***************************************************************************)
(* Small streams for FlvFanout: both headers before a frame; a header that *)
(* is repeated after the cache is full, and before; a tag of one data byte *)
(* before the cache is full.                                               *)
(***************************************************************************)
EXTENDS FlvFanout

MCTag(type, len, format, packet) ==
    [type |-> type, len |-> len, format |-> format, packet |-> packet]

VideoHeader == MCTag(TAG_VIDEO, 40, FRAME_KEY, AVC_SEQHDR)
AudioHeader == MCTag(TAG_AUDIO, 4, SOUND_AAC, AAC_SEQHDR)
KeyFrame == MCTag(TAG_VIDEO, 90, FRAME_KEY, 1)
Metadata == MCTag(MetadatAMF0, 50, 0, 0)
Short == MCTag(TAG_AUDIO, 1, SOUND_AAC, 0)

MCStreams ==
    { <<VideoHeader, AudioHeader, KeyFrame>>,
      <<VideoHeader, AudioHeader, VideoHeader>>,
      <<VideoHeader, VideoHeader, Short>>,
      <<Metadata, VideoHeader, Short>> }

=============================================================================
