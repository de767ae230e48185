---------------------------- MODULE ByteChannel ----------------------------
(* What a reader of a child's stdout is promised, with no pipe, no poll and  *)
(* no clock: an unbounded first-in first-out channel of bytes that is        *)
(* complete only when the sending side is closed and everything sent has     *)
(* been received, and that may fail at any time before that.  It is the      *)
(* contract that ChildPipe implements.                                       *)
EXTENDS Sequences, Naturals

CONSTANT Bytes    \* the values a byte can take

VARIABLES sent,      \* every byte written to the channel, in order
          received,  \* every byte handed over to the reader, in order
          closed,    \* no process can write to the channel any more
          status     \* "open", "complete" (eof() holds) or "failed"

chanVars == <<sent, received, closed, status>>

ChannelTypeOK ==
  /\ sent \in Seq(Bytes)
  /\ received \in Seq(Bytes)
  /\ closed \in BOOLEAN
  /\ status \in {"open", "complete", "failed"}

Init ==
  /\ sent = <<>>
  /\ received = <<>>
  /\ closed = FALSE
  /\ status \in {"open", "failed"}

Send ==
  /\ ~closed
  /\ \E b \in Bytes : sent' = Append(sent, b)
  /\ UNCHANGED <<received, closed, status>>

Close ==
  /\ ~closed
  /\ closed' = TRUE
  /\ UNCHANGED <<sent, received, status>>

\* The reader takes the next n bytes, whichever n the transport chooses.
Receive ==
  /\ status = "open"
  /\ \E n \in 1..(Len(sent) - Len(received)) :
       received' = SubSeq(sent, 1, Len(received) + n)
  /\ UNCHANGED <<sent, closed, status>>

Complete ==
  /\ status = "open"
  /\ closed
  /\ received = sent
  /\ status' = "complete"
  /\ UNCHANGED <<sent, received, closed>>

Fail ==
  /\ status = "open"
  /\ status' = "failed"
  /\ UNCHANGED <<sent, received, closed>>

Next == Send \/ Close \/ Receive \/ Complete \/ Fail

Spec == Init /\ [][Next]_chanVars
=============================================================================
