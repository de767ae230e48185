--------------------------- MODULE SocketChannel ---------------------------
(* What a reader of a socket is promised, with no buffers, requests or       *)
(* clocks: bytes arrive in the order they were sent and, until the reader    *)
(* finds the end, may arrive at any time.  Unlike ByteChannel it may be cut, *)
(* by a reset, a release or the reader's own impatience; only then may its   *)
(* end come before all that was sent.  It is the contract of SockStream.     *)
EXTENDS Sequences, Naturals

CONSTANT Bytes    \* the values a byte can take

VARIABLES sent,      \* every byte put into the channel, in order
          received,  \* every byte handed over to the reader, in order
          closed,    \* nothing can be sent any more
          cut,       \* what is on its way need not arrive
          ended      \* the reader has found the end

chanVars == <<sent, received, closed, cut, ended>>

Init ==
  /\ sent = <<>> /\ received = <<>>
  /\ ~closed /\ ~cut /\ ~ended

Send ==
  /\ ~closed
  /\ \E b \in Bytes : sent' = Append(sent, b)
  /\ UNCHANGED <<received, closed, cut, ended>>

Close ==
  /\ ~closed
  /\ closed' = TRUE
  /\ UNCHANGED <<sent, received, cut, ended>>

Cut ==
  /\ closed' = TRUE /\ cut' = TRUE
  /\ UNCHANGED <<sent, received, ended>>

\* The reader takes the next n bytes, whichever n the transport chooses.
Receive ==
  /\ ~ended
  /\ \E n \in 1..(Len(sent) - Len(received)) :
       received' = SubSeq(sent, 1, Len(received) + n)
  /\ UNCHANGED <<sent, closed, cut, ended>>

\* The reader has everything, or what it lacks was lost.
End ==
  /\ ~ended
  /\ closed /\ (cut \/ received = sent)
  /\ ended' = TRUE
  /\ UNCHANGED <<sent, received, closed, cut>>

\* The reader does not wait for the end: the sender may not even have closed.
GiveUp ==
  /\ ~ended
  /\ ended' = TRUE /\ cut' = TRUE
  /\ UNCHANGED <<sent, received, closed>>

Next == Send \/ Close \/ Cut \/ Receive \/ End \/ GiveUp

Spec == Init /\ [][Next]_chanVars
=============================================================================
