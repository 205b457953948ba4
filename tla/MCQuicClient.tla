---------------------------- MODULE MCQuicClient ----------------------------
(***************************************************************************)
(* Two streams that share the connection.  Two numbers tell an answer from *)
(* the answer to an earlier request.                                       *)
(***************************************************************************)
EXTENDS QuicClient

=============================================================================
