-------------------------- MODULE SockStreamProofs --------------------------
(* Proofs about SockStream, for every number of bytes, buffer size, count    *)
(* and delimiter: type correctness, the conservation of bytes, what a closed *)
(* stream means, how far a read goes, the two properties of failing writes   *)
(* and of accept(), and the refinement of SocketChannel.                     *)
EXTENDS SockStream, SequenceTheorems, TLAPS

Strings == Seq(1..MaxBytes)

-----------------------------------------------------------------------------
\* Sequences of bytes.

\* Cutting the first n bytes off a string loses nothing.
LEMMA CutAndJoin ==
  ASSUME NEW s \in Strings, NEW n \in 1..Len(s)
  PROVE  /\ SubSeq(s, 1, n) \in Strings /\ Len(SubSeq(s, 1, n)) = n
         /\ SubSeq(s, n + 1, Len(s)) \in Strings
         /\ SubSeq(s, 1, n) \o SubSeq(s, n + 1, Len(s)) = s
<1>. USE DEF Strings
<1>1. \A i \in 1..Len(s) : s[i] \in 1..MaxBytes  BY ElementOfSeq
<1>2. Len(s) \in Nat  BY LenProperties
<1>3. SubSeq(s, 1, n) \in Strings /\ Len(SubSeq(s, 1, n)) = n
  BY <1>1, <1>2, SubSeqProperties
<1>4. SubSeq(s, n + 1, Len(s)) \in Strings  BY <1>1, <1>2, SubSeqProperties
<1>5. SubSeq(s, 1, n) \o SubSeq(s, n + 1, Len(s)) = SubSeq(s, 1, Len(s))
  BY <1>2, ConcatAdjacentSubSeq
<1>. QED  BY <1>3, <1>4, <1>5, SubSeqFull

\* Bytes in order: those numbered 1, 2, ...
InOrder(s) == \A i \in 1..Len(s) : s[i] = i

LEMMA InOrderIsUpto ==
  ASSUME NEW s \in Strings, InOrder(s)
  PROVE  s = Upto(Len(s))
<1>1. Len(s) \in Nat /\ s \in [1..Len(s) -> 1..MaxBytes]  BY LenProperties DEF Strings
<1>. QED  BY <1>1 DEF InOrder, Upto

\* The beginning of bytes in order is in order.
LEMMA FirstPart ==
  ASSUME NEW s \in Strings, NEW t \in Strings, InOrder(s \o t)
  PROVE  InOrder(s) /\ Len(s) <= Len(s \o t)
<1>1. Len(s) \in Nat /\ Len(t) \in Nat  BY LenProperties DEF Strings
<1>2. /\ Len(s \o t) = Len(s) + Len(t)
      /\ \A i \in 1..(Len(s) + Len(t)) : (s \o t)[i] = IF i <= Len(s) THEN s[i] ELSE t[i - Len(s)]
  BY ConcatProperties DEF Strings
<1>. QED  BY <1>1, <1>2 DEF InOrder

\* One byte more, the next, keeps them in order.
LEMMA NextByte ==
  ASSUME NEW s \in Strings, InOrder(s), Len(s) < MaxBytes, MaxBytes \in Nat
  PROVE  /\ Append(s, Len(s) + 1) \in Strings /\ InOrder(Append(s, Len(s) + 1))
         /\ Len(Append(s, Len(s) + 1)) = Len(s) + 1
<1>1. Len(s) \in Nat  BY LenProperties DEF Strings
<1>2. Len(s) + 1 \in 1..MaxBytes  BY <1>1
<1>. QED  BY <1>1, <1>2, AppendProperties DEF Strings, InOrder

\* A byte appended to the last string of two is appended to both.
LEMMA AppendLast ==
  ASSUME NEW s \in Strings, NEW t \in Strings, NEW e \in 1..MaxBytes
  PROVE  s \o Append(t, e) = Append(s \o t, e)
<1>. USE DEF Strings
<1>1. <<e>> \in Strings  OBVIOUS
<1>2. Append(t, e) = t \o <<e>>  BY AppendIsConcat
<1>3. s \o t \in Strings  BY ConcatProperties
<1>4. Append(s \o t, e) = (s \o t) \o <<e>>  BY <1>3, AppendIsConcat
<1>. QED  BY <1>1, <1>2, <1>4, ConcatAssociative

\* Bytes taken from the front of one string to the end of another: nothing moves.
LEMMA Regroup ==
  ASSUME NEW s \in Strings, NEW t \in Strings, NEW u \in Strings
  PROVE  (s \o t) \o u = s \o (t \o u)
BY ConcatAssociative DEF Strings

LEMMA Joined ==
  ASSUME NEW s \in Strings, NEW t \in Strings
  PROVE  /\ s \o t \in Strings /\ Len(s \o t) = Len(s) + Len(t)
         /\ \A i \in 1..(Len(s) + Len(t)) :
              (s \o t)[i] = IF i <= Len(s) THEN s[i] ELSE t[i - Len(s)]
BY ConcatProperties DEF Strings

\* What is appended to a string leaves its beginnings alone.
LEMMA Beginnings ==
  ASSUME NEW s \in Strings, NEW t \in Strings, NEW n \in 0..Len(s)
  PROVE  SubSeq(s \o t, 1, n) = SubSeq(s, 1, n)
<1>1. CASE n = 0  BY <1>1, SubSeqEmpty
<1>2. CASE n # 0  BY <1>2, SubSeqOfConcat1 DEF Strings
<1>. QED  BY <1>1, <1>2

-----------------------------------------------------------------------------
\* The inductive invariant.

\* Until there is a stream, there is nothing.
Fresh ==
  pc \in {"none", "accepting", "joining"} =>
    conn = "none" /\ bits = {} /\ cut = {} /\ claimed = 0

\* A connection that was not reset or released has lost nothing.
Intact == cut \cap {"reset", "released"} = {}
Uncut == conn \in {"none", "open", "closed"} => Intact

Way == ((returned \o result) \o buf) \o pipe

\* Bytes are on their way in order, and all of them unless the connection was cut.
Flow ==
  /\ InOrder(Way) /\ Len(Way) <= sent /\ (Intact => Len(Way) = sent)
  /\ ~Reading => result = <<>>

\* The end of the stream is for good.
Ended == ~is_open /\ cut = {} => conn # "open" /\ buf = <<>> /\ pipe = <<>>

\* A write that failed is remembered.
Claimed == claimed \in {0, 1} /\ (claimed = 1 => bits # {})

\* What istream::read has still to get is wanted.
Wanted ==
  pc = "read" =>
    IF request.op = "read_until"
    THEN want = 1 /\ ~EndsWith(result, request.delimiter)
    ELSE Len(result) + want <= request.count

\* A read that is under way was called.
RequestMade == Reading => request.op # "none"

Inv ==
  /\ TypeOK /\ AcceptThreadJoined /\ RequestMade
  /\ Fresh /\ Uncut /\ Flow /\ Ended /\ Claimed
  /\ NeverOverreads /\ Wanted

LEMMA TypeParts ==
  ASSUME TypeOK
  PROVE  /\ pipe \in Strings /\ buf \in Strings /\ result \in Strings /\ returned \in Strings
         /\ returned \o result \in Strings
         /\ (returned \o result) \o buf \in Strings
         /\ Way \in Strings
         /\ Len(result) \in Nat /\ Len(Way) \in Nat /\ sent \in Nat
<1>1. pipe \in Strings /\ buf \in Strings /\ result \in Strings /\ returned \in Strings
  BY DEF TypeOK, Strings
<1>2. returned \o result \in Strings  BY <1>1, ConcatProperties DEF Strings
<1>3. (returned \o result) \o buf \in Strings  BY <1>1, <1>2, ConcatProperties DEF Strings
<1>4. Way \in Strings  BY <1>1, <1>3, ConcatProperties DEF Strings, Way
<1>5. Len(result) \in Nat /\ Len(Way) \in Nat  BY <1>1, <1>4, LenProperties DEF Strings
<1>. QED  BY <1>1, <1>2, <1>3, <1>4, <1>5, SockAssumption DEF TypeOK

LEMMA RequestParts ==
  ASSUME NEW r \in Requests
  PROVE  r.op \in {"read_some", "read_until"} /\ (r.op = "read_some" => r.count \in Nat)
<1>1. CASE r \in [op : {"read_some"}, count : Counts]
  <2>1. r.op = "read_some" /\ r.count \in Counts  BY <1>1
  <2>. QED  BY <2>1, SockAssumption
<1>2. CASE r \in [op : {"read_until"}, delimiter : Delimiters]
  <2>1. r.op = "read_until"  BY <1>2
  <2>. QED  BY <2>1
<1>. QED  BY <1>1, <1>2 DEF Requests

LEMMA InitInv == Init => Inv
<1>. SUFFICES ASSUME Init PROVE Inv  OBVIOUS
<1>1. <<>> \in Strings /\ Len(<<>>) = 0  BY EmptySeq DEF Strings
<1>2. TypeOK  BY <1>1, SockAssumption DEF Init, TypeOK, Strings
<1>3. Way = <<>>  BY <1>1, ConcatEmptySeq DEF Way, Init, Strings
<1>4. Flow  BY <1>1, <1>3 DEF Flow, InOrder, Init
<1>. QED
  BY <1>2, <1>4 DEF Init, Inv, RequestMade, AcceptThreadJoined, Fresh, Uncut, Intact, Ended,
                    is_open, Claimed,
                    NeverOverreads, Reading, Wanted

\* Nothing moves: the strings stay, nothing more has been sent or cut.
LEMMA Still ==
  ASSUME Flow, UNCHANGED <<returned, result, buf, pipe, sent>>,
         Intact' => Intact, ~Reading' => ~Reading \/ result = <<>>
  PROVE  Flow'
<1>1. Way' = Way  BY DEF Way
<1>. QED  BY <1>1 DEF Flow, InOrder

-----------------------------------------------------------------------------
\* Every step keeps the invariant: making a stream, ...

LEMMA MakeInv ==
  ASSUME Inv,
         Connect \/ CallAccept \/ Accepts \/ AcceptReturns \/ AcceptTimesOut \/ AcceptJoins
  PROVE  Inv'
<1>1. TypeOK'
  BY DEF Inv, TypeOK, Fresh, Connect, CallAccept, Accepts, AcceptReturns, AcceptTimesOut,
         AcceptJoins, Made, makeVars, netVars, readVars
<1>2. /\ UNCHANGED <<returned, result, buf, pipe, sent, cut>>
      /\ ~Reading /\ ~Reading'
  BY DEF Inv, RequestMade, AcceptThreadJoined, Connect, CallAccept, Accepts, AcceptReturns,
         AcceptTimesOut, AcceptJoins, Made, netVars, readVars, Reading
<1>3. Flow'  BY <1>2, Still DEF Inv, Intact, Flow
<1>4. /\ AcceptThreadJoined' /\ Fresh' /\ Uncut' /\ Claimed'
  BY DEF Inv, RequestMade, AcceptThreadJoined, Fresh, Uncut, Intact, Claimed, Connect,
         CallAccept, Accepts, AcceptReturns, AcceptTimesOut, AcceptJoins, Made, makeVars,
         netVars, readVars
<1>5. Ended'
  BY DEF Inv, Fresh, Ended, is_open, Connect, CallAccept, Accepts, AcceptReturns,
         AcceptTimesOut, AcceptJoins, Made, makeVars, netVars, readVars
<1>. QED
  BY <1>1, <1>2, <1>3, <1>4, <1>5 DEF Inv, RequestMade, NeverOverreads, Wanted, Reading

\* ... the peer's and time's steps, ...

LEMMA PeerSendsInv ==
  ASSUME Inv, PeerSends
  PROVE  Inv'
<1>. USE DEF PeerSends, makeVars, readVars
<1>1. Intact /\ Intact'  BY DEF Inv, Uncut, Intact
<1>2. Len(Way) = sent /\ InOrder(Way)  BY <1>1 DEF Inv, Flow
<1>3. /\ Way \in Strings /\ (returned \o result) \o buf \in Strings /\ pipe \in Strings
      /\ sent \in Nat
  BY TypeParts DEF Inv
<1>4. sent + 1 \in 1..MaxBytes  BY <1>3, SockAssumption
<1>5. Way' = Append(Way, sent + 1)  BY <1>3, <1>4, AppendLast DEF Way
<1>6. InOrder(Way') /\ Len(Way') = sent + 1
  BY <1>2, <1>3, <1>5, NextByte, SockAssumption
<1>7. Flow'  BY <1>6 DEF Flow, Inv, Reading, InOrder
<1>8. Append(pipe, sent + 1) \in Strings  BY <1>3, <1>4, AppendProperties DEF Strings
<1>9. TypeOK'  BY <1>4, <1>8 DEF Inv, TypeOK, Strings
<1>. QED
  BY <1>7, <1>9 DEF Inv, RequestMade, AcceptThreadJoined, Fresh, Uncut, Intact, Ended, is_open,
                    Claimed,
                    NeverOverreads, Wanted, Reading

LEMMA PeerResetsInv ==
  ASSUME Inv, PeerResets
  PROVE  Inv'
<1>. USE DEF PeerResets, makeVars, readVars
<1>1. /\ Way \in Strings /\ (returned \o result) \o buf \in Strings /\ pipe \in Strings
      /\ <<>> \in Strings /\ Len(Way) \in Nat /\ sent \in Nat
      /\ Len((returned \o result) \o buf) \in Nat
  BY TypeParts, EmptySeq, LenProperties DEF Inv, Strings
<1>2. InOrder(Way') /\ Len(Way') <= sent
  <2>1. CASE pipe' = pipe  BY <2>1 DEF Inv, Flow, Way
  <2>2. CASE pipe' = <<>>
    <3>1. Way' = (returned \o result) \o buf
      BY <1>1, <2>2, ConcatEmptySeq DEF Way, Strings
    <3>2. InOrder((returned \o result) \o buf) /\ Len((returned \o result) \o buf) <= Len(Way)
      BY <1>1, FirstPart DEF Inv, Flow, Way
    <3>. QED  BY <1>1, <3>1, <3>2 DEF Inv, Flow
  <2>. QED  BY <2>1, <2>2
<1>3. ~Intact'  BY DEF Intact
<1>4. Flow'  BY <1>2, <1>3 DEF Flow, Inv, Reading, InOrder
<1>5. TypeOK'  BY <1>1 DEF Inv, TypeOK, Strings
<1>. QED
  BY <1>4, <1>5 DEF Inv, RequestMade, AcceptThreadJoined, Fresh, Uncut, Intact, Ended, is_open,
                    Claimed,
                    NeverOverreads, Wanted, Reading

LEMMA TimeInv ==
  ASSUME Inv, PeerCloses \/ ExpiryPasses \/ TimeoutPasses
  PROVE  Inv'
<1>. USE DEF PeerCloses, ExpiryPasses, TimeoutPasses, makeVars, netVars, readVars
<1>1. UNCHANGED <<pc, returned, result, buf, pipe, sent, cut, request, want, bits, accepter,
                  claimed>>
  OBVIOUS
<1>2. TypeOK'  BY DEF Inv, TypeOK
<1>3. Flow'  BY <1>1, Still DEF Inv, Intact, Reading
<1>. QED
  BY <1>1, <1>2, <1>3 DEF Inv, RequestMade, AcceptThreadJoined, Fresh, Uncut, Intact, Ended,
                          is_open,
                          Claimed, NeverOverreads, Wanted, Reading

\* ... the reads, ...

LEMMA CallInv ==
  ASSUME Inv, NEW r \in Requests, NEW t \in {"never", "armed", "passed"}, Call(r, t)
  PROVE  Inv'
<1>. USE DEF Call, makeVars, netVars
<1>1. TypeOK'  BY DEF Inv, TypeOK
<1>2. result = <<>>  BY DEF Inv, Flow, Reading
<1>3. Flow'  BY <1>2, Still DEF Inv, Intact
<1>4. r.op \in {"read_some", "read_until"} /\ (r.op = "read_some" => r.count \in Nat)
  BY RequestParts
<1>5. Len(result) = 0  BY <1>2, EmptySeq
<1>6. request' = r /\ result' = result  OBVIOUS
<1>7. NeverOverreads'  BY <1>4, <1>5, <1>6 DEF NeverOverreads
<1>8. RequestMade'  BY <1>4, <1>6 DEF RequestMade
<1>. QED
  BY <1>1, <1>3, <1>7, <1>8 DEF Inv, AcceptThreadJoined, Fresh, Uncut, Intact, Ended, is_open,
                          Claimed, Wanted

LEMMA FinishInv ==
  ASSUME Inv, Finish
  PROVE  Inv'
<1>. USE DEF Finish, makeVars, netVars
<1>1. returned \o result \in Strings /\ <<>> \in Strings  BY TypeParts, EmptySeq DEF Inv, Strings
<1>2. TypeOK'  BY <1>1 DEF Inv, TypeOK, Strings
<1>3. returned' \o result' = returned \o result  BY <1>1, ConcatEmptySeq DEF Strings
<1>4. Way' = Way  BY <1>3 DEF Way
<1>5. Flow'  BY <1>4 DEF Inv, Flow, InOrder, Intact
<1>. QED
  BY <1>2, <1>5 DEF Inv, RequestMade, AcceptThreadJoined, Fresh, Uncut, Intact, Ended, is_open,
                    Claimed, Wanted, NeverOverreads, Reading

LEMMA ReadNothingInv ==
  ASSUME Inv, ReadNothing
  PROVE  Inv'
<1>. USE DEF ReadNothing, makeVars, netVars, readVars
<1>1. TypeOK'  BY DEF Inv, TypeOK
<1>2. Flow'  BY Still DEF Inv, Intact, Reading
<1>. QED
  BY <1>1, <1>2 DEF Inv, RequestMade, AcceptThreadJoined, Fresh, Uncut, Intact, Ended, is_open,
                    Claimed, Wanted, NeverOverreads, Reading, Continues

LEMMA ReadBeginsInv ==
  ASSUME Inv, ReadBegins
  PROVE  Inv'
<1>. USE DEF ReadBegins, makeVars, netVars
<1>1. /\ Len(result) \in Nat /\ result \in Strings
      /\ request.op \in {"read_some", "read_until"}
      /\ request.op = "read_some" => request.count \in Nat
  <2>1. request \in Requests \/ request.op = "none"  BY DEF Inv, TypeOK
  <2>. QED  BY <2>1, TypeParts, RequestParts DEF Inv, RequestMade, Reading
<1>2. /\ want' \in 1..kBufferSize
      /\ request.op # "read_until" => Len(result) + want' <= request.count
      /\ request.op = "read_until" => want' = 1 /\ ~EndsWith(result, request.delimiter)
  BY <1>1, SockAssumption DEF Continues, Met, Smaller
<1>3. TypeOK'  BY <1>2, SockAssumption DEF Inv, TypeOK
<1>4. Flow'  BY Still DEF Inv, Intact, Reading
<1>5. Wanted'  BY <1>2 DEF Wanted
<1>. QED
  BY <1>3, <1>4, <1>5 DEF Inv, RequestMade, AcceptThreadJoined, Fresh, Uncut, Intact, Ended,
                          is_open,
                          Claimed, NeverOverreads, Reading

LEMMA ReadTakesInv ==
  ASSUME Inv, ReadTakes
  PROVE  Inv'
<1>. USE DEF ReadTakes, makeVars, netVars
<1>. DEFINE n == Smaller(want, Len(buf))
            head == SubSeq(buf, 1, n)
            tail == SubSeq(buf, n + 1, Len(buf))
<1>1. /\ pc = "read" /\ want \in 1..kBufferSize /\ want \in Nat /\ bits = {}
      /\ result \in Strings /\ returned \in Strings /\ buf \in Strings /\ pipe \in Strings
      /\ returned \o result \in Strings /\ Len(result) \in Nat /\ Len(buf) \in Nat \ {0}
  BY TypeParts, LenProperties, EmptySeq, SockAssumption DEF Inv, TypeOK, Strings
<1>2. n \in 1..Len(buf) /\ n <= want  BY <1>1 DEF Smaller
<1>3. /\ head \in Strings /\ Len(head) = n /\ tail \in Strings /\ head \o tail = buf
  BY <1>1, <1>2, CutAndJoin
<1>4. /\ result' = result \o head /\ buf' = tail /\ want' = want - n
      /\ pc' = IF want' = 0 THEN "loop" ELSE "read"
      /\ UNCHANGED <<accepter, conn, sent, pipe, bits, expiry, request, timeout, returned, cut,
                     claimed>>
  OBVIOUS
<1>. HIDE DEF ReadTakes, n, head, tail
<1>5. /\ result' \in Strings /\ Len(result') = Len(result) + n
      /\ \A i \in 1..(Len(result) + n) :
           result'[i] = IF i <= Len(result) THEN result[i] ELSE head[i - Len(result)]
  <2>1. /\ result \o head \in Strings /\ Len(result \o head) = Len(result) + Len(head)
        /\ \A i \in 1..(Len(result) + Len(head)) :
             (result \o head)[i] = IF i <= Len(result) THEN result[i] ELSE head[i - Len(result)]
    BY <1>1, <1>3, Joined
  <2>. QED  BY <1>3, <1>4, <2>1
<1>6. Way' = Way
  <2>. /\ returned \in Strings /\ result \in Strings /\ returned \o result \in Strings
       /\ head \in Strings /\ tail \in Strings
    BY <1>1, <1>3
  <2>1. returned \o (result \o head) = (returned \o result) \o head
    BY Regroup
  <2>2. ((returned \o result) \o head) \o tail = (returned \o result) \o (head \o tail)
    BY Regroup
  <2>. QED  BY <1>3, <1>4, <2>1, <2>2 DEF Way
<1>7. pc' \in {"loop", "read"} /\ (pc' = "read" => want' # 0)  BY <1>4
<1>8. TypeOK'
  <2>1. want' \in 0..kBufferSize /\ (want' # 0 => want' > 0)  BY <1>1, <1>2, <1>4, SockAssumption
  <2>. QED  BY <1>1, <1>3, <1>4, <1>5, <1>7, <2>1 DEF Inv, TypeOK, Strings
<1>9. Flow'  BY <1>4, <1>6, <1>7 DEF Inv, Flow, InOrder, Intact, Reading
<1>10. RequestMade'  BY <1>1, <1>4 DEF Inv, RequestMade, Reading
<1>11. CASE request.op = "read_until"
  <2>1. want = 1 /\ n = 1 /\ want' = 0  BY <1>1, <1>2, <1>4, <1>11 DEF Inv, Wanted
  <2>2. NeverOverreads'
    <3>0. Len(result') - 1 = Len(result)  BY <1>1, <1>5, <2>1
    <3>1. SUFFICES ASSUME NEW i \in 0..Len(result)
                   PROVE  ~EndsWith(SubSeq(result', 1, i), request.delimiter)
      BY <1>4, <1>11, <3>0 DEF NeverOverreads
    <3>2. SubSeq(result', 1, i) = SubSeq(result, 1, i)  BY <1>1, <1>3, <1>4, Beginnings
    <3>3. CASE i \in 0..(Len(result) - 1)
      BY <1>1, <1>11, <3>2, <3>3 DEF Inv, NeverOverreads, Reading
    <3>4. CASE i = Len(result)
      <4>1. SubSeq(result, 1, i) = result  BY <1>1, <3>4, SubSeqFull DEF Strings
      <4>. QED  BY <1>1, <1>11, <3>2, <4>1 DEF Inv, Wanted
    <3>. QED  BY <1>1, <3>3, <3>4
  <2>3. Wanted'  BY <1>7, <2>1 DEF Wanted
  <2>. QED
    BY <1>1, <1>4, <1>7, <1>8, <1>9, <1>10, <2>2, <2>3 DEF Inv, AcceptThreadJoined, Fresh, Uncut,
                                                           Intact, Ended,
                                      is_open, Claimed
<1>12. CASE request.op # "read_until"
  <2>0. request \in Requests \/ request.op = "none"  BY DEF Inv, TypeOK
  <2>1. request.count \in Nat /\ Len(result) + want <= request.count
    BY <1>1, <1>12, <2>0, RequestParts DEF Inv, RequestMade, Wanted, Reading
  <2>2. Len(result') + want' = Len(result) + want /\ Len(result') <= request.count
    BY <1>1, <1>2, <1>4, <1>5, <2>1
  <2>3. NeverOverreads' /\ Wanted'  BY <1>4, <1>12, <2>1, <2>2 DEF NeverOverreads, Wanted
  <2>. QED
    BY <1>1, <1>4, <1>7, <1>8, <1>9, <1>10, <2>3 DEF Inv, AcceptThreadJoined, Fresh, Uncut,
                                                     Intact, Ended,
                                      is_open, Claimed
<1>. QED  BY <1>11, <1>12

LEMMA UnderflowInv ==
  ASSUME Inv, Underflow
  PROVE  Inv'
<1>. USE DEF Underflow, makeVars, readVars
<1>1. /\ returned \o result \in Strings /\ pipe \in Strings /\ pc = "read" /\ bits = {}
  BY TypeParts DEF Inv, TypeOK
<1>2. PICK n \in 1..Len(pipe) :
        buf' = SubSeq(pipe, 1, n) /\ pipe' = SubSeq(pipe, n + 1, Len(pipe))
  OBVIOUS
<1>3. buf' \in Strings /\ pipe' \in Strings /\ buf' \o pipe' = pipe
  BY <1>1, <1>2, CutAndJoin
<1>4. Way' = Way
  <2>1. (returned \o result) \o <<>> = returned \o result
    BY <1>1, ConcatEmptySeq DEF Strings
  <2>2. ((returned \o result) \o buf') \o pipe' = (returned \o result) \o (buf' \o pipe')
    BY <1>1, <1>3, Regroup
  <2>. QED  BY <1>3, <2>1, <2>2 DEF Way
<1>5. TypeOK'  BY <1>3 DEF Inv, TypeOK, Strings
<1>6. Flow'  BY <1>4 DEF Inv, Flow, InOrder, Intact, Reading
<1>. QED
  BY <1>1, <1>5, <1>6 DEF Inv, RequestMade, AcceptThreadJoined, Fresh, Uncut, Intact, Ended,
                          is_open,
                          Claimed, Wanted, NeverOverreads, Reading

LEMMA ReadEndsInv ==
  ASSUME Inv, ReadEnds
  PROVE  Inv'
<1>. USE DEF ReadEnds, makeVars, netVars, readVars
<1>1. TypeOK'  BY DEF Inv, TypeOK
<1>2. (Intact' <=> Intact) /\ Reading'  BY DEF Intact, Reading
<1>3. Flow'  BY <1>2, Still DEF Inv
<1>4. cut' = {} => conn # "open" /\ buf = <<>> /\ pipe = <<>>  OBVIOUS
<1>5. Claimed'  BY DEF Inv, Claimed
<1>. QED
  BY <1>1, <1>2, <1>3, <1>4, <1>5 DEF Inv, RequestMade, AcceptThreadJoined, Fresh, Uncut, Intact,
                                      Ended,
                          Wanted, NeverOverreads, Reading

\* ... and the other calls.

LEMMA CallsInv ==
  ASSUME Inv, ExpiresAfter \/ WriteRefused \/ WriteSent \/ WriteFails
  PROVE  Inv'
<1>. USE DEF ExpiresAfter, WriteRefused, WriteSent, WriteFails, makeVars, netVars, readVars
<1>1. UNCHANGED <<pc, accepter, conn, returned, result, buf, pipe, sent, cut, request, want>>
  BY DEF vars
<1>2. pc = "idle"  OBVIOUS
<1>3. TypeOK'
  <2>1. /\ bits' \in {bits, {"bad"}} /\ expiry' \in {expiry, "armed"} /\ timeout' = timeout
        /\ claimed' \in {claimed, claimed + 1}
    BY DEF vars
  <2>. QED  BY <1>1, <1>2, <2>1 DEF Inv, TypeOK
<1>4. Flow'  BY <1>1, <1>2, Still DEF Inv, Intact, Reading
<1>5. Ended'  BY DEF Inv, Ended, is_open, vars
<1>6. Claimed'  BY DEF Inv, Claimed, vars
<1>. QED
  BY <1>1, <1>2, <1>3, <1>4, <1>5, <1>6 DEF Inv, RequestMade, AcceptThreadJoined, Fresh, Uncut,
                                            Intact,
                                            Wanted, NeverOverreads, Reading

LEMMA ReleaseInv ==
  ASSUME Inv, Release
  PROVE  Inv'
<1>. USE DEF Release, makeVars, readVars
<1>1. /\ returned \o result \in Strings /\ (returned \o result) \o buf \in Strings
      /\ pipe \in Strings /\ buf \in Strings /\ <<>> \in Strings
      /\ Len(Way) \in Nat /\ sent \in Nat
      /\ Len((returned \o result) \o buf) \in Nat /\ Len(returned \o result) \in Nat
  BY TypeParts, EmptySeq, LenProperties DEF Inv, Strings
<1>2. Way' = returned \o result  BY <1>1, ConcatEmptySeq DEF Way, Strings
<1>3. /\ InOrder((returned \o result) \o buf) /\ Len((returned \o result) \o buf) <= Len(Way)
  BY <1>1, FirstPart DEF Inv, Flow, Way
<1>4. /\ InOrder(returned \o result)
      /\ Len(returned \o result) <= Len((returned \o result) \o buf)
  BY <1>1, <1>3, FirstPart
<1>5. Flow'
  <2>1. InOrder(Way')  BY <1>2, <1>4
  <2>2. Len(Way') <= sent  BY <1>1, <1>2, <1>3, <1>4 DEF Inv, Flow
  <2>3. ~Intact'  BY DEF Intact
  <2>. QED  BY <2>1, <2>2, <2>3 DEF Inv, Flow, InOrder, Reading
<1>6. TypeOK'  BY <1>1 DEF Inv, TypeOK, Strings
<1>. QED
  BY <1>5, <1>6 DEF Inv, RequestMade, AcceptThreadJoined, Fresh, Uncut, Intact, Ended, is_open,
                    Claimed,
                    NeverOverreads, Wanted, Reading

LEMMA StutterInv ==
  ASSUME Inv, UNCHANGED vars
  PROVE  Inv'
<1>. USE DEF vars, makeVars, netVars, readVars
<1>1. TypeOK'  BY DEF Inv, TypeOK
<1>2. Flow'  BY Still DEF Inv, Intact, Reading
<1>. QED
  BY <1>1, <1>2 DEF Inv, RequestMade, AcceptThreadJoined, Fresh, Uncut, Intact, Ended, is_open,
                    Claimed,
                    NeverOverreads, Wanted, Reading

LEMMA StepInv == Inv /\ [Next]_vars => Inv'
<1>. SUFFICES ASSUME Inv, [Next]_vars PROVE Inv'  OBVIOUS
<1>1. CASE Connect \/ CallAccept \/ Accepts \/ AcceptReturns \/ AcceptTimesOut \/ AcceptJoins
  BY <1>1, MakeInv
<1>2. CASE PeerSends  BY <1>2, PeerSendsInv
<1>3. CASE PeerResets  BY <1>3, PeerResetsInv
<1>4. CASE PeerCloses \/ ExpiryPasses \/ TimeoutPasses  BY <1>4, TimeInv
<1>5. CASE \E r \in Requests, t \in {"never", "armed", "passed"} : Call(r, t)
  BY <1>5, CallInv
<1>6. CASE Read
  BY <1>6, FinishInv, ReadNothingInv, ReadBeginsInv, ReadTakesInv, UnderflowInv, ReadEndsInv
     DEF Read
<1>7. CASE ExpiresAfter \/ WriteRefused \/ WriteSent \/ WriteFails  BY <1>7, CallsInv
<1>8. CASE Release  BY <1>8, ReleaseInv
<1>9. CASE UNCHANGED vars  BY <1>9, StutterInv
<1>. QED  BY <1>1, <1>2, <1>3, <1>4, <1>5, <1>6, <1>7, <1>8, <1>9 DEF Next

\* The stream, its factories and its peer keep the invariant.
THEOREM StreamCorrect == Spec => []Inv
<1>. QED  BY InitInv, StepInv, PTL DEF Spec

-----------------------------------------------------------------------------
\* What it gives.

LEMMA InvConserves == Inv => BytesConserved
<1>. SUFFICES ASSUME Inv PROVE BytesConserved  OBVIOUS
<1>. DEFINE read == returned \o result
<1>1. /\ read \in Strings /\ read \o buf \in Strings /\ buf \in Strings /\ pipe \in Strings
      /\ Way \in Strings /\ Len(Way) \in Nat /\ sent \in Nat
      /\ Len(read \o buf) \in Nat /\ Len(read) \in Nat
  BY TypeParts, LenProperties DEF Inv, Strings
<1>2. InOrder(Way) /\ Len(Way) <= sent /\ (Intact => Len(Way) = sent)  BY DEF Inv, Flow
<1>3. Way = Upto(Len(Way))  BY <1>1, <1>2, InOrderIsUpto
<1>4. InOrder(read \o buf) /\ Len(read \o buf) <= Len(Way)  BY <1>1, <1>2, FirstPart DEF Way
<1>5. InOrder(read) /\ Len(read) <= Len(read \o buf)  BY <1>1, <1>4, FirstPart
<1>6. Len(read) <= sent  BY <1>1, <1>2, <1>4, <1>5
<1>. HIDE DEF read
<1>7. IsPrefix(read, Upto(sent))
  <2>1. Upto(sent) \in Seq(Nat) /\ Len(Upto(sent)) = sent  BY <1>1 DEF Upto
  <2>2. \A i \in 1..Len(read) : Upto(sent)[i] = i /\ read[i] = i
    BY <1>1, <1>5, <1>6 DEF Upto, InOrder
  <2>3. /\ SubSeq(read, 1, Len(read)) \in Seq(Nat)
        /\ Len(SubSeq(read, 1, Len(read))) = IF 1 <= Len(read) THEN Len(read) - 1 + 1 ELSE 0
        /\ \A i \in 1..(Len(read) - 1 + 1) : SubSeq(read, 1, Len(read))[i] = read[1 + i - 1]
    BY <1>1, <2>2, SubSeqProperties
  <2>4. /\ SubSeq(Upto(sent), 1, Len(read)) \in Seq(Nat)
        /\ Len(SubSeq(Upto(sent), 1, Len(read))) = IF 1 <= Len(read) THEN Len(read) - 1 + 1 ELSE 0
        /\ \A i \in 1..(Len(read) - 1 + 1) :
             SubSeq(Upto(sent), 1, Len(read))[i] = Upto(sent)[1 + i - 1]
    BY <1>1, <2>2, SubSeqProperties
  <2>5. SubSeq(read, 1, Len(read)) = SubSeq(Upto(sent), 1, Len(read))
    BY <1>1, <2>2, <2>3, <2>4, SeqEqual
  <2>. QED  BY <1>6, <2>1, <2>5 DEF IsPrefix
<1>. QED  BY <1>2, <1>3, <1>7 DEF BytesConserved, Intact, Way, read

LEMMA InvEofComplete == Inv => EofMeansComplete
<1>. SUFFICES ASSUME Inv, ~is_open, ~Reading, cut = {}
              PROVE  conn # "open" /\ returned = Upto(sent)
  BY DEF EofMeansComplete
<1>1. conn # "open" /\ buf = <<>> /\ pipe = <<>> /\ result = <<>>  BY DEF Inv, Ended, Flow
<1>2. returned \in Strings  BY TypeParts DEF Inv
<1>3. Way = returned  BY <1>1, <1>2, ConcatEmptySeq DEF Way, Strings
<1>4. InOrder(returned) /\ Len(returned) = sent  BY <1>3 DEF Inv, Flow, Intact
<1>. QED  BY <1>1, <1>2, <1>4, InOrderIsUpto

\* No byte is lost or repeated over any sequence of short reads, timeouts and
\* expiries, for every size of buffer and every delimiter.
THEOREM BytesConservedAlways == Spec => []BytesConserved
<1>. QED  BY StreamCorrect, InvConserves, PTL

\* A stream that is_open() says is closed has returned all that the peer sent.
THEOREM EofMeansCompleteAlways == Spec => []EofMeansComplete
<1>. QED  BY StreamCorrect, InvEofComplete, PTL

\* read_some and read_until never take more than they were asked for.
THEOREM NeverOverreadsAlways == Spec => []NeverOverreads
<1>1. Inv => NeverOverreads  BY DEF Inv
<1>. QED  BY <1>1, StreamCorrect, PTL

\* write() answers TRUE for unsent data once at most.
THEOREM OneFalseClaimAlways == Spec => []OneFalseClaim
<1>1. Inv => OneFalseClaim  BY DEF Inv, Claimed, OneFalseClaim
<1>. QED  BY <1>1, StreamCorrect, PTL

\* The thread of ServerSockIOFactory::accept has ended when accept() returns.
THEOREM AcceptThreadJoinedAlways == Spec => []AcceptThreadJoined
<1>1. Inv => AcceptThreadJoined  BY DEF Inv
<1>. QED  BY <1>1, StreamCorrect, PTL

-----------------------------------------------------------------------------
\* Refinement of SocketChannel.

Closed == conn # "open" /\ pc \notin {"none", "accepting", "joining"}

\* The beginning of all bytes is fewer bytes; the next one is appended.
LEMMA UptoParts ==
  ASSUME NEW n \in Nat, NEW m \in 0..n
  PROVE  /\ Len(Upto(n)) = n
         /\ SubSeq(Upto(n), 1, m) = Upto(m)
         /\ Append(Upto(n), n + 1) = Upto(n + 1)
<1>1. /\ Upto(n) \in Seq(Nat) /\ Len(Upto(n)) = n
      /\ Upto(m) \in Seq(Nat) /\ Len(Upto(m)) = m
      /\ Upto(n + 1) \in Seq(Nat) /\ Len(Upto(n + 1)) = n + 1
      /\ \A i \in 1..n : Upto(n)[i] = i
      /\ \A i \in 1..m : Upto(m)[i] = i
      /\ \A i \in 1..(n + 1) : Upto(n + 1)[i] = i
  BY DEF Upto
<1>2. SubSeq(Upto(n), 1, m) = Upto(m)
  <2>1. \A i \in 1..m : Upto(n)[i] \in Nat  BY <1>1
  <2>2. /\ SubSeq(Upto(n), 1, m) \in Seq(Nat)
        /\ Len(SubSeq(Upto(n), 1, m)) = IF 1 <= m THEN m - 1 + 1 ELSE 0
        /\ \A i \in 1..(m - 1 + 1) : SubSeq(Upto(n), 1, m)[i] = Upto(n)[1 + i - 1]
    BY <1>1, <2>1, SubSeqProperties
  <2>. QED  BY <1>1, <2>2, SeqEqual
<1>3. Append(Upto(n), n + 1) = Upto(n + 1)
  <2>1. /\ Append(Upto(n), n + 1) \in Seq(Nat)
        /\ Len(Append(Upto(n), n + 1)) = n + 1
        /\ \A i \in 1..n : Append(Upto(n), n + 1)[i] = Upto(n)[i]
        /\ Append(Upto(n), n + 1)[n + 1] = n + 1
    BY <1>1, AppendProperties
  <2>. QED  BY <1>1, <2>1, SeqEqual
<1>. QED  BY <1>1, <1>2, <1>3

\* Of bytes in order, n at most, the first ones are the beginning of what was sent.
LEMMA Beginning ==
  ASSUME NEW s \in Strings, NEW t \in Strings, NEW u \in Strings, NEW n \in Nat,
         InOrder((s \o t) \o u), Len((s \o t) \o u) <= n
  PROVE  s = Upto(Len(s)) /\ Len(s) \in 0..n
<1>1. s \o t \in Strings /\ (s \o t) \o u \in Strings  BY Joined
<1>2. Len(s) \in Nat /\ Len(s \o t) \in Nat /\ Len((s \o t) \o u) \in Nat
  BY <1>1, LenProperties DEF Strings
<1>3. InOrder(s \o t) /\ Len(s \o t) <= Len((s \o t) \o u)  BY <1>1, FirstPart
<1>4. InOrder(s) /\ Len(s) <= Len(s \o t)  BY <1>1, <1>3, FirstPart
<1>5. s = Upto(Len(s))  BY <1>4, InOrderIsUpto
<1>6. Len(s) \in 0..n  BY <1>2, <1>3, <1>4
<1>. QED  BY <1>5, <1>6

\* A step that leaves these alone is invisible to the channel.
Unseen == UNCHANGED <<sent, returned \o result, Closed, cut, is_open>>

\* Making a stream; a stream without a connection has no more to send.
LEMMA MakeSeen ==
  ASSUME Inv,
         Connect \/ CallAccept \/ Accepts \/ AcceptReturns \/ AcceptTimesOut \/ AcceptJoins
  PROVE  Channel!Close \/ Unseen
<1>. USE DEF Inv, Fresh, AcceptThreadJoined, Closed, is_open, Made, makeVars, netVars, readVars
<1>1. UNCHANGED <<sent, returned, result, cut>>
  BY DEF Connect, CallAccept, Accepts, AcceptReturns, AcceptTimesOut, AcceptJoins
<1>2. ~Closed /\ is_open /\ is_open'
  BY DEF Connect, CallAccept, Accepts, AcceptReturns, AcceptTimesOut, AcceptJoins
<1>3. CASE Closed'  BY <1>1, <1>2, <1>3 DEF Channel!Close
<1>4. CASE ~Closed'  BY <1>1, <1>2, <1>4 DEF Unseen
<1>. QED  BY <1>3, <1>4

LEMMA PeerSeen ==
  ASSUME Inv, PeerSends \/ PeerCloses \/ PeerResets \/ Release
  PROVE  Channel!Send \/ Channel!Close \/ Channel!Cut
<1>0. sent \in Nat  BY TypeParts DEF Inv
<1>1. CASE PeerSends
  <2>. USE <1>1 DEF PeerSends, makeVars, readVars
  <2>1. UNCHANGED <<returned \o result, Closed, cut, is_open>> /\ ~Closed
    BY DEF Closed, is_open
  <2>2. sent + 1 \in 1..MaxBytes /\ Upto(sent)' = Append(Upto(sent), sent + 1)
    BY <1>0, UptoParts, SockAssumption DEF Upto
  <2>. QED  BY <2>1, <2>2 DEF Channel!Send, Closed
<1>2. CASE PeerCloses
  BY <1>2 DEF Inv, Fresh, PeerCloses, Channel!Close, is_open, Upto, makeVars, readVars
<1>3. CASE PeerResets
  BY <1>3 DEF Inv, Fresh, PeerResets, Channel!Cut, is_open, Upto, makeVars, readVars
<1>4. CASE Release
  BY <1>4 DEF Release, Channel!Cut, is_open, Upto, makeVars, readVars
<1>. QED  BY <1>1, <1>2, <1>3, <1>4

LEMMA RestUnseen ==
  ASSUME Inv,
         \/ ExpiryPasses \/ TimeoutPasses
         \/ \E r \in Requests, t \in {"never", "armed", "passed"} : Call(r, t)
         \/ Finish \/ ReadNothing \/ ReadBegins \/ Underflow
         \/ ExpiresAfter \/ WriteRefused \/ WriteSent \/ WriteFails \/ UNCHANGED vars
  PROVE  Unseen
<1>. USE DEF Unseen, Closed, is_open, makeVars, netVars, readVars
<1>1. CASE Finish
  <2>1. returned \o result \in Strings  BY TypeParts DEF Inv
  <2>2. returned' \o result' = returned \o result
    BY <1>1, <2>1, ConcatEmptySeq DEF Finish, Strings
  <2>. QED  BY <1>1, <2>2 DEF Finish
<1>2. CASE \E r \in Requests, t \in {"never", "armed", "passed"} : Call(r, t)
  BY <1>2 DEF Call
<1>3. CASE ExpiryPasses \/ TimeoutPasses \/ ReadNothing \/ ReadBegins \/ Underflow
  BY <1>3 DEF ExpiryPasses, TimeoutPasses, ReadNothing, ReadBegins, Underflow
<1>4. CASE ExpiresAfter \/ WriteRefused \/ WriteSent \/ WriteFails \/ UNCHANGED vars
  BY <1>4 DEF ExpiresAfter, WriteRefused, WriteSent, WriteFails, vars
<1>. QED  BY <1>1, <1>2, <1>3, <1>4

LEMMA ReadTakesSeen ==
  ASSUME Inv, Inv', ReadTakes
  PROVE  Channel!Receive
<1>. DEFINE n == Smaller(want, Len(buf))
<1>1. /\ pc = "read" /\ want \in Nat \ {0} /\ bits = {}
      /\ result \in Strings /\ returned \in Strings /\ buf \in Strings
      /\ Len(buf) \in Nat \ {0} /\ sent \in Nat
  <2>1. pc = "read" /\ buf # <<>>  BY DEF ReadTakes
  <2>2. want \in Nat \ {0} /\ bits = {}  BY <2>1, SockAssumption DEF Inv, TypeOK
  <2>3. result \in Strings /\ returned \in Strings /\ buf \in Strings /\ sent \in Nat
    BY TypeParts DEF Inv
  <2>4. Len(buf) \in Nat \ {0}  BY <2>1, <2>3, LenProperties, EmptySeq DEF Strings
  <2>. QED  BY <2>1, <2>2, <2>3, <2>4
<1>2. n \in 1..Len(buf)  BY <1>1 DEF Smaller
<1>3. SubSeq(buf, 1, n) \in Strings /\ Len(SubSeq(buf, 1, n)) = n  BY <1>1, <1>2, CutAndJoin
<1>4. /\ result' = result \o SubSeq(buf, 1, n) /\ returned' = returned /\ pc' \in {"loop", "read"}
      /\ UNCHANGED <<sent, conn, bits, cut>>
  BY DEF ReadTakes, netVars
<1>. HIDE DEF n
<1>5. Len((returned \o result)') = Len(returned \o result) + n
  <2>1. returned \o (result \o SubSeq(buf, 1, n)) = (returned \o result) \o SubSeq(buf, 1, n)
    BY <1>1, <1>3, Regroup
  <2>2. returned \o result \in Strings  BY TypeParts DEF Inv
  <2>3. Len((returned \o result) \o SubSeq(buf, 1, n)) = Len(returned \o result) + n
    BY <1>3, <2>2, Joined
  <2>. QED  BY <1>4, <2>1, <2>3
<1>6. /\ (returned \o result)' = Upto(Len((returned \o result)'))
      /\ Len((returned \o result)') \in 0..sent /\ Len(returned \o result) \in 0..sent
  <2>1. /\ (returned \o result)' \in Strings /\ buf' \in Strings /\ pipe' \in Strings
        /\ InOrder(Way)' /\ Len(Way)' <= sent'
    BY Joined DEF Inv, TypeOK, Flow, Strings
  <2>2. /\ returned \o result \in Strings /\ pipe \in Strings
        /\ InOrder(Way) /\ Len(Way) <= sent
    BY TypeParts DEF Inv, Flow
  <2>3. /\ (returned \o result)' = Upto(Len((returned \o result)'))
        /\ Len((returned \o result)') \in 0..sent
    BY <1>1, <1>4, <2>1, Beginning DEF Way, InOrder
  <2>4. Len(returned \o result) \in 0..sent  BY <1>1, <2>2, Beginning DEF Way
  <2>. QED  BY <2>3, <2>4
<1>7. /\ Len(Upto(sent)) = sent
      /\ SubSeq(Upto(sent), 1, Len((returned \o result)')) = (returned \o result)'
  BY <1>1, <1>6, UptoParts
<1>8. n \in 1..(Len(Upto(sent)) - Len(returned \o result))  BY <1>1, <1>2, <1>5, <1>6, <1>7
<1>9. UNCHANGED <<Upto(sent), Closed, (cut # {}), is_open>> /\ is_open
  BY <1>1, <1>4 DEF Upto, Closed, is_open
<1>. QED  BY <1>5, <1>7, <1>8, <1>9 DEF Channel!Receive, Closed

\* A read that is too late gives up; else the end has come, or the connection was cut.
LEMMA ReadEndsSeen ==
  ASSUME Inv, ReadEnds
  PROVE  Channel!End \/ Channel!GiveUp
<1>. USE DEF ReadEnds, makeVars, netVars, readVars
<1>1. bits = {} /\ bits' = {"eof", "fail"}  BY DEF Inv, TypeOK
<1>2. UNCHANGED <<sent, returned \o result, Closed>>  BY DEF Closed
<1>3. CASE expiry = "passed"
  BY <1>1, <1>2, <1>3 DEF Channel!GiveUp, is_open, Closed, Upto
<1>4. CASE expiry # "passed"
  <2>1. Closed /\ cut' = cut  BY <1>4 DEF Closed
  <2>2. cut = {} => returned \o result = Upto(sent)
    <3>1. SUFFICES ASSUME cut = {} PROVE returned \o result = Upto(sent)  OBVIOUS
    <3>2. returned \o result \in Strings  BY TypeParts DEF Inv
    <3>3. Way = returned \o result  BY <1>4, <3>2, ConcatEmptySeq DEF Way, Strings
    <3>4. InOrder(Way) /\ Len(Way) = sent  BY <3>1 DEF Inv, Flow, Intact
    <3>. QED  BY <3>2, <3>3, <3>4, InOrderIsUpto
  <2>. QED  BY <1>1, <1>2, <2>1, <2>2 DEF Channel!End, is_open, Closed, Upto
<1>. QED  BY <1>3, <1>4

LEMMA ChannelStep ==
  ASSUME Inv, Inv', [Next]_vars
  PROVE  [Channel!Next]_<<Upto(sent), returned \o result, Closed, (cut # {}), ~is_open>>
<1>1. ASSUME Unseen
      PROVE  UNCHANGED <<Upto(sent), returned \o result, Closed, (cut # {}), ~is_open>>
  BY <1>1 DEF Unseen, Upto
<1>2. CASE Connect \/ CallAccept \/ Accepts \/ AcceptReturns \/ AcceptTimesOut \/ AcceptJoins
  BY <1>1, <1>2, MakeSeen DEF Channel!Next
<1>3. CASE PeerSends \/ PeerCloses \/ PeerResets \/ Release
  BY <1>3, PeerSeen DEF Channel!Next
<1>4. CASE ReadTakes  BY <1>4, ReadTakesSeen DEF Channel!Next
<1>5. CASE ReadEnds  BY <1>5, ReadEndsSeen DEF Channel!Next
<1>6. CASE \/ ExpiryPasses \/ TimeoutPasses
           \/ \E r \in Requests, t \in {"never", "armed", "passed"} : Call(r, t)
           \/ Finish \/ ReadNothing \/ ReadBegins \/ Underflow
           \/ ExpiresAfter \/ WriteRefused \/ WriteSent \/ WriteFails \/ UNCHANGED vars
  BY <1>1, <1>6, RestUnseen
<1>. QED  BY <1>2, <1>3, <1>4, <1>5, <1>6 DEF Next, Read

\* ImplementsSocketChannel: for its callers factories, buffers, expiries and
\* timeouts are an ordered channel that ends before all it was sent has arrived
\* only if it was cut, and then for good.
THEOREM ImplementsSocketChannelAlways == Spec => ImplementsSocketChannel
<1>1. Init => Channel!Init
  <2>1. Init => Upto(sent) = <<>> /\ returned \o result = <<>>
    BY ConcatEmptySeq, EmptySeq DEF Init, Upto
  <2>. QED  BY <2>1 DEF Init, Channel!Init, is_open
<1>2. Inv /\ Inv' /\ [Next]_vars
        => [Channel!Next]_<<Upto(sent), returned \o result,
                            conn # "open" /\ pc \notin {"none", "accepting", "joining"},
                            (cut # {}), ~is_open>>
  BY ChannelStep DEF Closed
<1>. QED
  BY <1>1, <1>2, StreamCorrect, PTL
  DEF Spec, ImplementsSocketChannel, Channel!Spec, Channel!chanVars
=============================================================================
