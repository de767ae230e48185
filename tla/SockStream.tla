----------------------------- MODULE SockStream -----------------------------
(* SockIOStream and its two factories (source/IOStream/SockIOStream.cpp),    *)
(* with the reads it inherits from IOStream (source/IOStream/IOStream.cpp):  *)
(* one thread that makes a stream and uses it, the thread accept() starts,   *)
(* the peer, and a boost::asio tcp::iostream in between.                     *)
(*                                                                           *)
(* The peer's bytes are 1, 2, 3, ...                                         *)
EXTENDS Integers, Sequences, SequencesExt

CONSTANTS
  Delimiters,   \* arguments of read_until
  Counts,       \* arguments of read_some
  kBufferSize,  \* bytes read_once asks for at most
  MaxBytes      \* bound: bytes the peer sends

ASSUME SockAssumption ==
  /\ Delimiters \subseteq Seq(Nat) /\ Counts \subseteq Nat
  /\ kBufferSize \in Nat \ {0} /\ MaxBytes \in Nat

VARIABLES
  pc,        \* where the thread is; "idle" when it has a stream
  accepter,  \* the thread of accept(): "off", "blocked", "done" or "failed"
  conn,      \* the connection: "none", "open", "closed" by the peer, "reset", "released"
  sent,      \* bytes the peer has sent
  pipe,      \* those in the kernel
  buf,       \* those in the get area of the stream
  bits,      \* the stream's state: eof, fail, bad
  expiry,    \* "never", "armed" by expires_after, or "passed"
  request,   \* the read under way: its op, and count or delimiter
  timeout,   \* its timeout: "never", "armed" or "passed"
  want,      \* bytes istream::read has still to get
  result,    \* the call's result so far
  returned,  \* history: all that reads have returned
  cut,       \* history: what has kept bytes from the reader
  claimed    \* history: writes that answered TRUE and were not sent

makeVars == <<accepter>>
netVars  == <<conn, sent, pipe>>
readVars == <<request, timeout, want, result, returned>>
vars == <<pc, makeVars, netVars, buf, bits, expiry, readVars, cut, claimed>>

Init ==
  /\ pc = "none" /\ accepter = "off"
  /\ conn = "none" /\ sent = 0 /\ pipe = <<>>
  /\ buf = <<>> /\ bits = {} /\ expiry = "never"
  /\ request = [op |-> "none"]
  /\ timeout = "never" /\ want = 0
  /\ result = <<>> /\ returned = <<>>
  /\ cut = {} /\ claimed = 0

Smaller(a, b) == IF a <= b THEN a ELSE b

-----------------------------------------------------------------------------
\* The factories. Both give up if the stream they have made is at its end.

Made(c, b) ==
  /\ conn' = c /\ bits' = b
  /\ pc' = IF "eof" \in b THEN "none" ELSE "idle"

\* ClientSockIOFactory::connect: a failed connect sets failbit.
Connect ==
  /\ pc = "none"
  /\ Made("open", {}) \/ Made("none", {"fail"})
  /\ UNCHANGED <<makeVars, sent, pipe, buf, expiry, readVars, cut, claimed>>

\* ServerSockIOFactory::accept: std::async, and wait_for two seconds.
CallAccept ==
  /\ pc = "none"
  /\ pc' = "accepting"
  /\ accepter' = "blocked"
  /\ UNCHANGED <<netVars, buf, bits, expiry, readVars, cut, claimed>>

\* The thread: a client connects, or accept fails and the future holds the error.
Accepts ==
  /\ accepter = "blocked"
  /\ accepter' \in {"done", "failed"}
  /\ UNCHANGED <<pc, netVars, buf, bits, expiry, readVars, cut, claimed>>

\* The future is ready; what it holds is not asked for.
AcceptReturns ==
  /\ pc = "accepting" /\ accepter # "blocked"
  /\ Made(IF accepter = "done" THEN "open" ELSE "none", {})
  /\ accepter' = "off"
  /\ UNCHANGED <<sent, pipe, buf, expiry, readVars, cut, claimed>>

\* Mutant: the thread is left to itself.
AcceptTimesOut_Detached ==
  /\ pc = "accepting" /\ accepter = "blocked"
  /\ pc' = "none"
  /\ UNCHANGED <<makeVars, netVars, buf, bits, expiry, readVars, cut, claimed>>

\* Two seconds have passed. cancel() does not end a blocking accept, ...
AcceptTimesOut ==
  /\ pc = "accepting" /\ accepter = "blocked"
  /\ pc' = "joining"
  /\ UNCHANGED <<makeVars, netVars, buf, bits, expiry, readVars, cut, claimed>>

\* ... and the future's destructor waits for it. The stream dies with its client.
AcceptJoins ==
  /\ pc = "joining" /\ accepter # "blocked"
  /\ pc' = "none"
  /\ accepter' = "off"
  /\ UNCHANGED <<netVars, buf, bits, expiry, readVars, cut, claimed>>

-----------------------------------------------------------------------------
\* The peer, and time.

PeerSends ==
  /\ conn = "open" /\ sent < MaxBytes
  /\ sent' = sent + 1
  /\ pipe' = Append(pipe, sent')
  /\ UNCHANGED <<pc, makeVars, conn, buf, bits, expiry, readVars, cut, claimed>>

PeerCloses ==
  /\ conn = "open"
  /\ conn' = "closed"
  /\ UNCHANGED <<pc, makeVars, sent, pipe, buf, bits, expiry, readVars, cut, claimed>>

\* The bytes not yet received may or may not be lost.
PeerResets ==
  /\ conn \in {"open", "closed"}
  /\ conn' = "reset"
  /\ pipe' \in {pipe, <<>>}
  /\ cut' = cut \cup {"reset"}
  /\ UNCHANGED <<pc, makeVars, sent, buf, bits, expiry, readVars, claimed>>

ExpiryPasses ==
  /\ expiry = "armed"
  /\ expiry' = "passed"
  /\ UNCHANGED <<pc, makeVars, netVars, buf, bits, readVars, cut, claimed>>

TimeoutPasses ==
  /\ timeout = "armed"
  /\ timeout' = "passed"
  /\ UNCHANGED <<pc, makeVars, netVars, buf, bits, expiry, request, want, result,
                 returned, cut, claimed>>

-----------------------------------------------------------------------------
\* Reads.

\* Mutant: the socket is asked instead of the stream.
is_open_Socket == conn \notin {"none", "released"}

is_open == "eof" \notin bits

EndsWith(s, d) ==
  Len(d) <= Len(s) /\ SubSeq(s, Len(s) - Len(d) + 1, Len(s)) = d

\* The request has been met.
Met ==
  IF request.op = "read_until" THEN EndsWith(result, request.delimiter)
  ELSE Len(result) >= request.count

\* The condition of both loops.
Continues == is_open /\ ~Met /\ timeout # "passed"

\* read_some(count, t), read_until(delimiter, t); read(t) is read_some of more
\* than there is. A timeout that is not positive has passed.
Call(r, t) ==
  /\ pc = "idle"
  /\ pc' = "loop"
  /\ request' = r /\ timeout' = t
  /\ UNCHANGED <<makeVars, netVars, buf, bits, expiry, want, result, returned, cut,
                 claimed>>

Finish ==
  /\ pc = "loop" /\ ~Continues
  /\ pc' = "idle"
  /\ returned' = returned \o result
  /\ result' = <<>> /\ timeout' = "never"
  /\ UNCHANGED <<makeVars, netVars, buf, bits, expiry, request, want, cut, claimed>>

\* read_once of a stream that is not good: istream::read gets nothing.
ReadNothing ==
  /\ pc = "loop" /\ Continues /\ bits # {}
  /\ bits' = bits \cup {"fail"}
  /\ UNCHANGED <<pc, makeVars, netVars, buf, expiry, readVars, cut, claimed>>

\* Mutant: the buffer is read past the stream, whose state nobody looks at.
ReadBegins_Unchecked ==
  /\ pc = "loop" /\ ~Met /\ timeout # "passed"
  /\ pc' = "read"
  /\ want' = IF request.op = "read_until" THEN 1
             ELSE Smaller(kBufferSize, request.count - Len(result))
  /\ UNCHANGED <<makeVars, netVars, buf, bits, expiry, request, timeout, result,
                 returned, cut, claimed>>

\* read_once: count bytes are asked for, and istream::read waits for all.
ReadBegins ==
  /\ pc = "loop" /\ Continues /\ bits = {}
  /\ pc' = "read"
  /\ want' = IF request.op = "read_until" THEN 1
             ELSE Smaller(kBufferSize, request.count - Len(result))
  /\ UNCHANGED <<makeVars, netVars, buf, bits, expiry, request, timeout, result,
                 returned, cut, claimed>>

\* Mutant: what read_once returns replaces the result.
ReadTakes_Assigns ==
  /\ pc = "read" /\ buf # <<>>
  /\ LET n == Smaller(want, Len(buf))
     IN  /\ result' = SubSeq(buf, 1, n)
         /\ buf' = SubSeq(buf, n + 1, Len(buf))
         /\ want' = want - n
  /\ pc' = IF want' = 0 THEN "loop" ELSE "read"
  /\ UNCHANGED <<makeVars, netVars, bits, expiry, request, timeout, returned, cut,
                 claimed>>

\* It takes what the get area has.
ReadTakes ==
  /\ pc = "read" /\ buf # <<>>
  /\ LET n == Smaller(want, Len(buf))
     IN  /\ result' = result \o SubSeq(buf, 1, n)
         /\ buf' = SubSeq(buf, n + 1, Len(buf))
         /\ want' = want - n
  /\ pc' = IF want' = 0 THEN "loop" ELSE "read"
  /\ UNCHANGED <<makeVars, netVars, bits, expiry, request, timeout, returned, cut,
                 claimed>>

\* underflow: the get area is filled by what recv gives, unless it is too late.
Underflow ==
  /\ pc = "read" /\ buf = <<>>
  /\ expiry # "passed" /\ pipe # <<>>
  /\ \E n \in 1..Len(pipe) :
       /\ buf' = SubSeq(pipe, 1, n)
       /\ pipe' = SubSeq(pipe, n + 1, Len(pipe))
  /\ UNCHANGED <<pc, makeVars, conn, sent, bits, expiry, readVars, cut, claimed>>

\* Too late, the end of the stream, an error or a closed socket: all are eof.
ReadEnds ==
  /\ pc = "read" /\ buf = <<>>
  /\ expiry = "passed" \/ (pipe = <<>> /\ conn # "open")
  /\ bits' = {"eof", "fail"}
  /\ cut' = IF expiry = "passed" THEN cut \cup {"expired"} ELSE cut
  /\ pc' = "loop"
  /\ UNCHANGED <<makeVars, netVars, buf, expiry, readVars, claimed>>

-----------------------------------------------------------------------------
\* The other calls.

ExpiresAfter ==
  /\ pc = "idle"
  /\ expiry' = "armed"
  /\ UNCHANGED <<pc, makeVars, netVars, buf, bits, readVars, cut, claimed>>

\* Mutant: the state of the stream is not looked at.
WriteRefused_Claims ==
  /\ pc = "idle" /\ bits # {}
  /\ claimed' = claimed + 1
  /\ UNCHANGED <<pc, makeVars, netVars, buf, bits, expiry, readVars, cut>>

\* write() of a stream that is not good answers FALSE.
WriteRefused ==
  /\ pc = "idle" /\ bits # {}
  /\ UNCHANGED vars

\* Else it answers TRUE, be the data sent ...
WriteSent ==
  /\ pc = "idle" /\ bits = {}
  /\ conn \in {"open", "closed"} /\ expiry # "passed"
  /\ UNCHANGED vars

\* ... or not, which sets badbit.
WriteFails ==
  /\ pc = "idle" /\ bits = {}
  /\ conn \notin {"open", "closed"} \/ expiry = "passed"
  /\ bits' = {"bad"}
  /\ claimed' = claimed + 1
  /\ UNCHANGED <<pc, makeVars, netVars, buf, expiry, readVars, cut>>

\* release() closes the socket and empties the buffers; no bit is set.
Release ==
  /\ pc = "idle"
  /\ conn' = "released"
  /\ pipe' = <<>> /\ buf' = <<>>
  /\ cut' = cut \cup {"released"}
  /\ UNCHANGED <<pc, makeVars, sent, bits, expiry, readVars, claimed>>

-----------------------------------------------------------------------------
Requests ==
  [op : {"read_some"}, count : Counts] \cup [op : {"read_until"}, delimiter : Delimiters]

Read == Finish \/ ReadNothing \/ ReadBegins \/ ReadTakes \/ Underflow \/ ReadEnds

Next ==
  \/ Connect \/ CallAccept \/ Accepts \/ AcceptReturns \/ AcceptTimesOut \/ AcceptJoins
  \/ PeerSends \/ PeerCloses \/ PeerResets \/ ExpiryPasses \/ TimeoutPasses
  \/ \E r \in Requests, t \in {"never", "armed", "passed"} : Call(r, t)
  \/ Read
  \/ ExpiresAfter \/ WriteRefused \/ WriteSent \/ WriteFails \/ Release

\* The reading thread runs, and time passes; nothing is asked of the peer.
Spec == Init /\ [][Next]_vars /\ WF_vars(Read) /\ WF_vars(ExpiryPasses) /\ WF_vars(TimeoutPasses)

-----------------------------------------------------------------------------
\* Properties.

Reading == pc \in {"loop", "read"}
Upto(n) == [i \in 1..n |-> i]

\* In istream::read there is something left to get and the stream is good.
TypeOK ==
  /\ pc \in {"none", "accepting", "joining", "idle", "loop", "read"}
  /\ accepter \in {"off", "blocked", "done", "failed"}
  /\ conn \in {"none", "open", "closed", "reset", "released"}
  /\ sent \in 0..MaxBytes
  /\ {pipe, buf, result, returned} \subseteq Seq(1..MaxBytes)
  /\ bits \subseteq {"eof", "fail", "bad"}
  /\ {expiry, timeout} \subseteq {"never", "armed", "passed"}
  /\ request \in Requests \cup {[op |-> "none"]}
  /\ want \in 0..kBufferSize /\ (pc = "read" => want > 0 /\ bits = {})
  /\ cut \subseteq {"expired", "reset", "released"}
  /\ claimed \in Nat

\* What reads have returned, with what is still on its way, is what the peer has
\* sent, in that order: nothing is lost or repeated over short reads, timeouts
\* and expiries, unless the connection was reset or released.
BytesConserved ==
  LET read == returned \o result
  IN  /\ IsPrefix(read, Upto(sent))
      /\ cut \cap {"reset", "released"} = {} => read \o buf \o pipe = Upto(sent)

\* A stream that is_open() says is closed has returned all that the peer sent
\* before closing, unless the reader itself let it expire or the connection was
\* cut; a failed write or connect never looks like the end of the stream. (The
\* channel's End, below, says this of the step; this says it of every state.)
EofMeansComplete ==
  ~is_open /\ ~Reading /\ cut = {} => conn # "open" /\ returned = Upto(sent)

\* read_some returns no more than count bytes and read_until none beyond the
\* first delimiter, whatever the get area holds.
NeverOverreads ==
  Reading =>
    IF request.op = "read_until"
    THEN \A i \in 0..(Len(result) - 1) : ~EndsWith(SubSeq(result, 1, i), request.delimiter)
    ELSE Len(result) <= request.count

\* write() answers TRUE for data that was not sent at most once: the first
\* failure goes unreported, every later write is refused.
OneFalseClaim == claimed <= 1

\* accept()'s thread, which refers to the caller's locals, never outlives the call.
AcceptThreadJoined == accepter # "off" => pc \in {"accepting", "joining"}

\* A read of a good stream ends once it expires, one of a failed stream, which
\* gets nothing, at its timeout. (Neither is ended by the other.)
ReadsReturn ==
  (Reading /\ IF bits = {} THEN expiry # "never" ELSE "eof" \in bits \/ timeout # "never")
    ~> ~Reading

\* The stream implements the abstract channel. No channel before there is a stream.
Channel ==
  INSTANCE SocketChannel WITH
    Bytes    <- 1..MaxBytes,
    sent     <- Upto(sent),
    received <- returned \o result,
    closed   <- conn # "open" /\ pc \notin {"none", "accepting", "joining"},
    cut      <- cut # {},
    ended    <- ~is_open

\* Every step of stream, socket, peer and clock is a step of an ordered channel
\* or invisible to it: whatever calls a caller makes, in whatever order, reads
\* hand over what was sent, in order, and nothing once is_open() has said FALSE,
\* which it says for good, and before the last byte only of a channel cut short.
ImplementsSocketChannel == Channel!Spec

\* What the factories return is connected: they return nullptr for a socket that
\* "is not opened".
ReturnedConnected == pc = "idle" => conn # "none"
=============================================================================
