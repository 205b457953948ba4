------------------------------ MODULE MCEdgeApp -----------------------------
(***************************************************************************)
(* Small instances of EdgeApp.                                             *)
(***************************************************************************)
EXTENDS EdgeApp

\* A publisher that comes back gets a new SSRC under its old key.
MCKeyOf == [s \in Ssrcs |-> "live/movie"]

\* A packet of the cloud, and one that consists of headers and padding.
MCDatagrams ==
    { [len |-> 1012, csrcCnt |-> 0, extension |-> FALSE, extWords |-> 0,
       padding |-> FALSE, lastByte |-> 7],
      [len |-> 24, csrcCnt |-> 1, extension |-> TRUE, extWords |-> 0,
       padding |-> TRUE, lastByte |-> 4] }

=============================================================================
