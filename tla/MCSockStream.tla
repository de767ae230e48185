---------------------------- MODULE MCSockStream ----------------------------
(* Instances of SockStream for TLC: a delimiter may be empty, one byte, or   *)
(* two that a short read, a timeout or an expiry can cut in two.             *)
EXTENDS SockStream

MCDelimiters == {<<>>, <<2>>, <<2, 3>>}
=============================================================================
