----------------------------- MODULE MCRtpQueue -----------------------------
(***************************************************************************)
(* Small instances of RtpQueue.  The stream starts three numbers before    *)
(* the wrap.                                                               *)
(***************************************************************************)
EXTENDS RtpQueue

=============================================================================
