-------------------------- MODULE ChildPipeProofs --------------------------
(* Proofs about ChildPipe, for every set of bytes, pipe capacity, buffer     *)
(* size, clock resolution, request and number of descendants: type           *)
(* correctness, the conservation of bytes, what end of file means, that no   *)
(* byte is taken too early, that deadlines are kept and not anticipated, and *)
(* the refinement of ByteChannel.                                            *)
EXTENDS ChildPipe, SequenceTheorems, TLAPS

-----------------------------------------------------------------------------
\* Requests.

LEMMA RequestType ==
  ASSUME NEW req \in Requests
  PROVE  /\ req.timeout \in Int /\ req.timeout <= DurationMax
         /\ req.op \in {"read_some", "read_until"}
         /\ req.op = "read_some" => req.count \in 0..SizeMax
         /\ req.op = "read_until" => req.delimiter \in Seq(Bytes)
  BY ConstantsAssumption DEF Requests

-----------------------------------------------------------------------------
\* The clock.

\* Truncation to milliseconds loses less than one.
LEMMA Truncation ==
  ASSUME NEW e \in Nat
  PROVE  /\ e \div TicksPerMs \in Nat
         /\ e >= (e \div TicksPerMs) * TicksPerMs
         /\ e < (e \div TicksPerMs) * TicksPerMs + TicksPerMs
  BY ConstantsAssumption

\* A call that starts has its deadline before it.
LEMMA NothingElapsed ==
  ASSUME NEW d \in Nat, NEW k \in Nat \ {0}
  PROVE  0 < d + k + 0
  OBVIOUS

\* A wait of no more than what truncation leaves of the timeout ends less than
\* a millisecond after the deadline.
LEMMA WaitEndsInTime ==
  ASSUME NEW e \in Nat, NEW t \in Int, NEW w \in Int,
         e \div TicksPerMs < t, w <= t - (e \div TicksPerMs)
  PROVE  e + w * TicksPerMs < t * TicksPerMs + TicksPerMs
  <1> DEFINE q == e \div TicksPerMs
  <1>1. q \in Nat /\ e < q * TicksPerMs + TicksPerMs
    BY Truncation
  <1> HIDE DEF q
  <1>2. w <= t - q
    BY DEF q
  <1>3. w * TicksPerMs <= (t - q) * TicksPerMs
    BY <1>1, <1>2, ConstantsAssumption
  <1>4. (t - q) * TicksPerMs = t * TicksPerMs - q * TicksPerMs
    BY <1>1, ConstantsAssumption
  <1> QED
    BY <1>1, <1>3, <1>4, ConstantsAssumption

-----------------------------------------------------------------------------
\* Sequences of bytes.

\* Cutting the first n bytes off a string loses nothing.
LEMMA CutAndJoin ==
  ASSUME NEW s \in Seq(Bytes), NEW n \in 1..Len(s)
  PROVE  /\ SubSeq(s, 1, n) \in Seq(Bytes)
         /\ Len(SubSeq(s, 1, n)) = n
         /\ SubSeq(s, n + 1, Len(s)) \in Seq(Bytes)
         /\ Len(SubSeq(s, n + 1, Len(s))) = Len(s) - n
         /\ SubSeq(s, 1, n) \o SubSeq(s, n + 1, Len(s)) = s
  <1>1. SubSeq(s, 1, n) \o SubSeq(s, n + 1, Len(s)) = SubSeq(s, 1, Len(s))
    BY ConcatAdjacentSubSeq
  <1>2. SubSeq(s, 1, Len(s)) = s
    BY SubSeqFull
  <1>3. SubSeq(s, 1, n) \in Seq(Bytes) /\ Len(SubSeq(s, 1, n)) = n
    BY SubSeqProperties, ElementOfSeq
  <1>4. /\ SubSeq(s, n + 1, Len(s)) \in Seq(Bytes)
        /\ Len(SubSeq(s, n + 1, Len(s))) = Len(s) - n
    <2>1. \A i \in (n + 1)..Len(s) : s[i] \in Bytes
      BY ElementOfSeq
    <2> QED
      BY <2>1, SubSeqProperties, LenProperties
  <1> QED
    BY <1>1, <1>2, <1>3, <1>4

\* The proper prefixes of a string that grows by one byte are the prefixes of
\* the string it was.
LEMMA PrefixOfLonger ==
  ASSUME NEW s \in Seq(Bytes), NEW t \in Seq(Bytes), NEW n \in 0..Len(s)
  PROVE  SubSeq(s \o t, 1, n) = SubSeq(s, 1, n)
  <1>1. CASE n = 0
    BY <1>1, SubSeqEmpty
  <1>2. CASE n # 0
    BY <1>2, SubSeqOfConcat1
  <1> QED
    BY <1>1, <1>2

-----------------------------------------------------------------------------
\* The inductive invariant.

LEMMA PipeInit == Init => PipeInv
  <1> SUFFICES ASSUME Init PROVE PipeInv
    OBVIOUS
  <1> USE ConstantsAssumption, EmptySeq DEF Init
  <1>1. TypeOK
    <2>1. eofbit \in BOOLEAN /\ badbit \in BOOLEAN /\ ~(eofbit /\ badbit)
      OBVIOUS
    <2>2. <<>> \in Seq(Bytes) /\ Len(<<>>) <= PipeCap
      OBVIOUS
    <2>3. spawned \subseteq Procs /\ writers \subseteq spawned
      BY DEF Procs
    <2> QED
      BY <2>1, <2>2, <2>3 DEF TypeOK
  <1>2. BytesConserved
    BY DEF BytesConserved, Received
  <1>3. NeverOverreads
    BY RequestType DEF NeverOverreads
  <1>4. DeadlineKept
    <2>1. Deadline >= 0
      BY RequestType DEF Deadline
    <2> QED
      BY <2>1, RequestType DEF DeadlineKept, Deadline
  <1> QED
    BY <1>1, <1>2, <1>3, <1>4
    DEF PipeInv, EofIsFinal, WorkLeft, WaitFits

\* ReadBytes moves a string from the front of the pipe to the end of the
\* result, and not more of it than the request leaves room for.
LEMMA ReadBytesEffect ==
  ASSUME PipeInv, ReadBytes
  PROVE  \E cut, left \in Seq(Bytes) :
           /\ cut \o left = pipe
           /\ Len(cut) \in 1..Len(pipe) /\ Len(left) = Len(pipe) - Len(cut)
           /\ Len(cut) <= ReadCount
           /\ result' = result \o cut
           /\ pipe' = left
  <1>1. ReadCount \in Int
    BY RequestType, ConstantsAssumption, LenProperties
    DEF ReadCount, Smaller, PipeInv, TypeOK
  <1>2. Len(pipe) \in Nat /\ pipe \in Seq(Bytes)
    BY LenProperties DEF PipeInv, TypeOK
  <1>3. PICK n \in 1..Smaller(ReadCount, Len(pipe)) :
          /\ result' = result \o SubSeq(pipe, 1, n)
          /\ pipe' = SubSeq(pipe, n + 1, Len(pipe))
    BY DEF ReadBytes
  <1>4. n \in 1..Len(pipe) /\ n <= ReadCount
    BY <1>1, <1>2, <1>3 DEF Smaller
  <1> SubSeq(pipe, 1, n) \in Seq(Bytes) /\ SubSeq(pipe, n + 1, Len(pipe)) \in Seq(Bytes)
    BY <1>2, <1>4, CutAndJoin
  <1> WITNESS SubSeq(pipe, 1, n) \in Seq(Bytes), SubSeq(pipe, n + 1, Len(pipe)) \in Seq(Bytes)
  <1> QED
    BY <1>2, <1>3, <1>4, CutAndJoin

LEMMA TypeNext ==
  ASSUME PipeInv, [Next]_vars
  PROVE  TypeOK'
  <1> USE ConstantsAssumption, EmptySeq DEF PipeInv, TypeOK, kernelVars, callVars
  <1>1. ASSUME NEW p \in Procs, NEW b \in Bytes, Write(p, b)
        PROVE  TypeOK'
    BY <1>1, AppendProperties DEF Write
  <1>2. ASSUME NEW p \in Procs, CloseStdout(p)
        PROVE  TypeOK'
    BY <1>2 DEF CloseStdout
  <1>3. ASSUME NEW p \in Procs, NEW d \in Descendants, Fork(p, d)
        PROVE  TypeOK'
    BY <1>3 DEF Fork, Procs
  <1>4. ASSUME Tick \/ Delay
        PROVE  TypeOK'
    BY <1>4 DEF Tick, Delay
  <1>5. ASSUME NEW req \in Requests, Call(req)
        PROVE  TypeOK'
    BY <1>5, ConcatProperties DEF Call
  <1>6. ASSUME Finish \/ PollTimedOut \/ PollReady
        PROVE  TypeOK'
    BY <1>6 DEF Finish, PollTimedOut, PollReady
  <1>7. ASSUME EnterPoll
        PROVE  TypeOK'
    <2>1. ElapsedMs \in Nat
      BY Truncation DEF ElapsedMs
    <2>2. Remaining \in Int
      BY <2>1, RequestType DEF Remaining
    <2>3. WaitMs(Remaining) \in Int
      BY <2>2 DEF WaitMs, Smaller
    <2>4. \A ms \in Int : PollTicks(ms) \in Int /\ PollTicks(ms) >= -1
      BY DEF PollTicks
    <2> QED
      BY <1>7, <2>3, <2>4 DEF EnterPoll
  <1>8. ASSUME PollInterrupted \/ PollSpurious
        PROVE  TypeOK'
    BY <1>8 DEF PollInterrupted, PollSpurious
  <1>9. ASSUME ReadBytes
        PROVE  TypeOK'
    <2>1. PICK cut \in Seq(Bytes), left \in Seq(Bytes) :
            /\ Len(cut) \in 1..Len(pipe) /\ Len(left) = Len(pipe) - Len(cut)
            /\ result' = result \o cut /\ pipe' = left
      BY <1>9, ReadBytesEffect
    <2>2. result' \in Seq(Bytes)
      BY <2>1, ConcatProperties
    <2>3. pipe' \in Seq(Bytes) /\ Len(pipe') <= PipeCap
      BY <2>1, LenProperties
    <2> QED
      BY <1>9, <2>2, <2>3 DEF ReadBytes
  <1>10. ASSUME ReadAgain
         PROVE  TypeOK'
    BY <1>10 DEF ReadAgain
  <1>11. ASSUME ReadEof
         PROVE  TypeOK'
    <2>1. ~badbit /\ eofbit' /\ badbit' = badbit
      BY <1>11 DEF ReadEof, WorkLeft, is_open
    <2>2. eofbit' \in BOOLEAN /\ badbit' \in BOOLEAN /\ ~(eofbit' /\ badbit')
      BY <1>11, <2>1 DEF ReadEof
    <2> QED
      BY <1>11, <2>2 DEF ReadEof
  <1>quiet. ASSUME PollFailed \/ ReadFailed
         PROVE  TypeOK'
    <2>1. ~eofbit /\ badbit' /\ eofbit' = eofbit
      BY <1>quiet DEF PollFailed, ReadFailed, WorkLeft, is_open
    <2>2. eofbit' \in BOOLEAN /\ badbit' \in BOOLEAN /\ ~(eofbit' /\ badbit')
      BY <1>quiet, <2>1 DEF PollFailed, ReadFailed
    <2> QED
      BY <1>quiet, <2>2 DEF PollFailed, ReadFailed
  <1>13. CASE UNCHANGED vars
    BY <1>13 DEF vars
  <1> QED
    BY <1>1, <1>2, <1>3, <1>4, <1>5, <1>6, <1>7, <1>8, <1>9, <1>10, <1>11, <1>quiet, <1>13
    DEF Next, Environment, Progress, Disturbance

\* The steps that move no byte and mark no end of file.
NoDataMoved ==
  /\ UNCHANGED <<pipe, written, delivered, result, request>>
  /\ eofbit' = eofbit /\ writers' \subseteq writers

LEMMA BytesNext ==
  ASSUME PipeInv, [Next]_vars
  PROVE  BytesConserved' /\ EofIsFinal'
  <1> USE DEF PipeInv, TypeOK, kernelVars, callVars
  <1>1. ASSUME NEW p \in Procs, NEW b \in Bytes, Write(p, b)
        PROVE  BytesConserved' /\ EofIsFinal'
    <2>1. Received \in Seq(Bytes) /\ Received' = Received
      BY <1>1, ConcatProperties DEF Write, Received
    <2>2. Append(pipe, b) = pipe \o <<b>> /\ Append(written, b) = written \o <<b>>
      BY AppendIsConcat
    <2>3. <<b>> \in Seq(Bytes)
      OBVIOUS
    <2>4. Received \o (pipe \o <<b>>) = (Received \o pipe) \o <<b>>
      BY <2>1, <2>3, ConcatAssociative
    <2>5. BytesConserved'
      BY <1>1, <2>1, <2>2, <2>4 DEF Write, BytesConserved
    <2>6. EofIsFinal'
      BY <1>1 DEF Write, EofIsFinal
    <2> QED
      BY <2>5, <2>6
  <1>2. ASSUME NEW p \in Procs, NEW d \in Descendants, Fork(p, d)
        PROVE  BytesConserved' /\ EofIsFinal'
    BY <1>2 DEF Fork, BytesConserved, Received, EofIsFinal
  <1>3. ASSUME NEW req \in Requests, Call(req)
        PROVE  BytesConserved' /\ EofIsFinal'
    <2>1. Received' = Received
      BY <1>3, ConcatProperties, ConcatEmptySeq DEF Call, Received
    <2> QED
      BY <1>3, <2>1 DEF Call, BytesConserved, EofIsFinal
  <1>4. ASSUME ReadBytes
        PROVE  BytesConserved' /\ EofIsFinal'
    <2>1. PICK cut \in Seq(Bytes), left \in Seq(Bytes) :
            /\ cut \o left = pipe /\ Len(cut) \in 1..Len(pipe)
            /\ result' = result \o cut /\ pipe' = left
      BY <1>4, ReadBytesEffect
    <2>2. /\ delivered \in Seq(Bytes) /\ result \in Seq(Bytes)
          /\ cut \in Seq(Bytes) /\ left \in Seq(Bytes)
      OBVIOUS
    <2>3. (delivered \o result) \o cut = delivered \o (result \o cut)
      BY ONLY <2>2, ConcatAssociative
    <2>4. Received \in Seq(Bytes)
      BY ONLY <2>2, ConcatProperties DEF Received
    <2>5. (Received \o cut) \o left = Received \o (cut \o left)
      BY ONLY SMTT(30), <2>2, <2>4, ConcatAssociative
    <2>6. BytesConserved'
      <3>1. Received' = Received \o cut
        BY <1>4, <2>1, <2>3 DEF ReadBytes, Received
      <3>2. Received' \o pipe' = Received \o pipe
        BY <2>1, <2>5, <3>1
      <3> QED
        BY <1>4, <3>2 DEF ReadBytes, BytesConserved
    <2>7. pipe # <<>>
      BY <2>1
    <2>8. EofIsFinal'
      BY <1>4, <2>7 DEF ReadBytes, EofIsFinal
    <2> QED
      BY <2>6, <2>8
  <1>5. ASSUME ReadEof
        PROVE  BytesConserved' /\ EofIsFinal'
    BY <1>5 DEF ReadEof, BytesConserved, Received, EofIsFinal
  <1>6. ASSUME NoDataMoved
        PROVE  BytesConserved' /\ EofIsFinal'
    BY <1>6 DEF NoDataMoved, BytesConserved, Received, EofIsFinal
  <1>7. ASSUME (\E p \in Procs : CloseStdout(p)) \/ Tick \/ Delay
        PROVE  NoDataMoved
    BY <1>7 DEF NoDataMoved, CloseStdout, Tick, Delay
  <1>8. ASSUME Finish \/ EnterPoll \/ PollTimedOut \/ PollReady \/ PollFailed
               \/ PollInterrupted \/ PollSpurious
        PROVE  NoDataMoved
    BY <1>8 DEF NoDataMoved, Finish, EnterPoll, PollTimedOut, PollReady, PollFailed,
                PollInterrupted, PollSpurious
  <1>9. ASSUME ReadAgain \/ ReadFailed \/ UNCHANGED vars
        PROVE  NoDataMoved
    BY <1>9 DEF NoDataMoved, ReadAgain, ReadFailed, vars
  <1> QED
    BY <1>1, <1>2, <1>3, <1>4, <1>5, <1>6, <1>7, <1>8, <1>9
    DEF Next, Environment, Progress, Disturbance

\* A read that is entered still has something to wait for.
LEMMA WorkLeftNext ==
  ASSUME PipeInv, [Next]_vars
  PROVE  WorkLeft'
  <1> USE DEF PipeInv, WorkLeft, is_open, kernelVars, callVars
  <1>1. ASSUME Environment
        PROVE  WorkLeft'
    BY <1>1 DEF Environment, Write, CloseStdout, Fork, Tick, Delay
  <1>2. ASSUME \E req \in Requests : Call(req)
        PROVE  WorkLeft'
    BY <1>2 DEF Call
  <1>3. ASSUME Progress
        PROVE  WorkLeft'
    BY <1>3 DEF Progress, Finish, EnterPoll, PollTimedOut, PollReady,
                ReadBytes, ReadEof, ReadAgain
  <1>4. ASSUME Disturbance
        PROVE  WorkLeft'
    BY <1>4 DEF Disturbance, PollInterrupted, PollSpurious, PollFailed, ReadFailed
  <1>5. CASE UNCHANGED vars
    BY <1>5 DEF vars
  <1> QED
    BY <1>1, <1>2, <1>3, <1>4, <1>5 DEF Next

LEMMA OverreadNext ==
  ASSUME PipeInv, [Next]_vars
  PROVE  NeverOverreads'
  <1> USE DEF PipeInv, TypeOK, kernelVars, callVars
  <1>1. ASSUME NEW req \in Requests, Call(req)
        PROVE  NeverOverreads'
    <2>1. request' = req /\ result' = <<>> /\ Len(result') = 0
      BY <1>1 DEF Call
    <2> QED
      BY <2>1, RequestType, ConstantsAssumption DEF NeverOverreads
  <1>2. ASSUME ReadBytes
        PROVE  NeverOverreads'
    <2>1. PICK cut \in Seq(Bytes) :
            /\ Len(cut) \in 1..Len(pipe) /\ Len(cut) <= ReadCount
            /\ result' = result \o cut
      BY <1>2, ReadBytesEffect
    <2>2. request' = request
      BY <1>2 DEF ReadBytes
    <2>3. Len(result') = Len(result) + Len(cut) /\ Len(result) \in Nat /\ Len(cut) \in Nat
      BY <2>1, ConcatProperties, LenProperties
    <2>5. ~Satisfied(request, result)
      BY <1>2 DEF ReadBytes, WorkLeft
    <2>6. CASE request.op = "read_some"
      <3>1. Len(cut) <= request.count - Len(result)
        BY <2>1, <2>3, <2>6, RequestType, ConstantsAssumption DEF ReadCount, Smaller
      <3>2. Len(result') <= request.count
        BY <2>3, <2>6, <3>1, RequestType, ConstantsAssumption
      <3> QED
        BY <2>2, <2>6, <3>2 DEF NeverOverreads
    <2>7. CASE request.op # "read_some"
      <3>1. Len(cut) <= 1
        <4>1. ReadCount = Smaller(BufSize, 1)
          BY <2>7 DEF ReadCount
        <4>2. Smaller(BufSize, 1) = 1
          BY ConstantsAssumption DEF Smaller
        <4> QED
          BY <2>1, <4>1, <4>2
      <3>2. ASSUME NEW m \in 0..(Len(result') - 1)
            PROVE  ~EndsWith(SubSeq(result', 1, m), request.delimiter)
        <4>1. m \in 0..Len(result)
          BY <2>3, <3>1
        <4>2. SubSeq(result', 1, m) = SubSeq(result, 1, m)
          BY <2>1, <4>1, PrefixOfLonger
        <4>3. CASE m = Len(result)
          BY <2>5, <2>7, <4>2, <4>3, SubSeqFull DEF Satisfied
        <4>4. CASE m # Len(result)
          <5>1. m \in 0..(Len(result) - 1)
            BY <2>3, <4>1, <4>4
          <5> QED
            BY <2>7, <4>2, <5>1 DEF NeverOverreads
        <4> QED
          BY <4>3, <4>4
      <3> QED
        BY <2>2, <2>7, <3>2 DEF NeverOverreads
    <2> QED
      BY <2>6, <2>7
  <1>3. ASSUME UNCHANGED <<request, result>>
        PROVE  NeverOverreads'
    BY <1>3 DEF NeverOverreads
  <1>4. ASSUME Environment \/ Disturbance \/ UNCHANGED vars
        PROVE  UNCHANGED <<request, result>>
    BY <1>4 DEF Environment, Write, CloseStdout, Fork, Tick, Delay,
                Disturbance, PollInterrupted, PollSpurious, PollFailed, ReadFailed, vars
  <1>5. ASSUME Finish \/ EnterPoll \/ PollTimedOut \/ PollReady \/ ReadEof \/ ReadAgain
        PROVE  UNCHANGED <<request, result>>
    BY <1>5 DEF Finish, EnterPoll, PollTimedOut, PollReady, ReadEof, ReadAgain
  <1> QED
    BY <1>1, <1>2, <1>3, <1>4, <1>5 DEF Next, Progress

-----------------------------------------------------------------------------
\* Deadlines.

\* What poll may sleep for ends in time, and is no timeout only for a call
\* without one.
LEMMA PollWait ==
  ASSUME request \in Requests, elapsed \in Nat, ElapsedMs < request.timeout
  PROVE  IF Unbounded(request)
         THEN PollTicks(WaitMs(Remaining)) = -1
         ELSE /\ PollTicks(WaitMs(Remaining)) >= 0
              /\ elapsed + PollTicks(WaitMs(Remaining)) < Deadline + TicksPerMs
  <1> USE ConstantsAssumption, RequestType
  <1>1. ElapsedMs \in Nat
    BY Truncation DEF ElapsedMs
  <1>2. CASE Unbounded(request)
    BY <1>2 DEF Unbounded, Remaining, WaitMs, PollTicks
  <1>3. CASE ~Unbounded(request)
    <2> DEFINE w == Smaller(request.timeout - ElapsedMs, IntMax)
    <2>1. Remaining = request.timeout - ElapsedMs /\ Remaining # DurationMax
      BY <1>1, <1>3 DEF Unbounded, Remaining
    <2>2. WaitMs(Remaining) = w
      BY <2>1 DEF WaitMs
    <2>3. w \in Nat /\ w <= request.timeout - ElapsedMs
      BY <1>1 DEF Smaller
    <2> HIDE DEF w
    <2>4. PollTicks(WaitMs(Remaining)) = w * TicksPerMs /\ w * TicksPerMs >= 0
      BY <2>2, <2>3 DEF PollTicks
    <2>5. elapsed + w * TicksPerMs < request.timeout * TicksPerMs + TicksPerMs
      BY SMTT(30), <2>3, WaitEndsInTime DEF ElapsedMs
    <2>6. Deadline = request.timeout * TicksPerMs
      BY <1>1 DEF Deadline
    <2> QED
      BY <1>3, <2>4, <2>5, <2>6
  <1> QED
    BY <1>2, <1>3

LEMMA TimeNext ==
  ASSUME PipeInv, [Next]_vars
  PROVE  WaitFits' /\ DeadlineKept'
  <1> USE ConstantsAssumption DEF PipeInv, TypeOK, kernelVars, callVars
  <1>0. request' = request => Deadline' = Deadline /\ (Unbounded(request)' <=> Unbounded(request))
    BY DEF Deadline, Unbounded
  <1>1. Deadline \in Nat
    BY RequestType DEF Deadline
  <1>2. ASSUME NEW req \in Requests, Call(req)
        PROVE  WaitFits' /\ DeadlineKept'
    <2>1. Deadline' \in Nat
      BY <1>2, RequestType DEF Call, Deadline
    <2>2. WaitFits'
      BY <1>2 DEF Call, WaitFits
    <2>3. elapsed' < Deadline' + TicksPerMs + delay'
      <3>1. elapsed' = 0 /\ delay' = 0
        BY <1>2 DEF Call
      <3>2. 0 < Deadline' + TicksPerMs + 0
        BY ONLY <2>1, ConstantsAssumption, NothingElapsed
      <3> QED
        BY ONLY <3>1, <3>2
    <2> QED
      BY <2>2, <2>3 DEF DeadlineKept
  <1>3. ASSUME Tick
        PROVE  WaitFits' /\ DeadlineKept'
    BY <1>0, <1>1, <1>3 DEF Tick, WaitFits, DeadlineKept
  <1>4. ASSUME Delay
        PROVE  WaitFits' /\ DeadlineKept'
    BY <1>0, <1>1, <1>4 DEF Delay, WaitFits, DeadlineKept
  <1>5. ASSUME EnterPoll
        PROVE  WaitFits' /\ DeadlineKept'
    <2>1. DeadlineKept'
      BY <1>0, <1>5 DEF EnterPoll, DeadlineKept
    <2>2. IF Unbounded(request)
          THEN wait' = -1
          ELSE wait' >= 0 /\ elapsed + wait' < Deadline + TicksPerMs
      BY <1>5, PollWait DEF EnterPoll
    <2>3. WaitFits'
      <3>1. wait' >= 0 /\ elapsed + wait' < Deadline + TicksPerMs
              => elapsed + wait' < Deadline + TicksPerMs + delay
        BY <1>1, <1>5, TypeNext
      <3>2. UNCHANGED <<request, elapsed, delay>>
        BY <1>5 DEF EnterPoll
      <3> QED
        BY <1>0, <2>2, <3>1, <3>2 DEF WaitFits
    <2> QED
      BY <2>1, <2>3
  <1>6. ASSUME PollInterrupted \/ PollSpurious
        PROVE  WaitFits' /\ DeadlineKept'
    BY <1>0, <1>1, <1>6 DEF PollInterrupted, PollSpurious, WaitFits, DeadlineKept
  <1>7. ASSUME pc' # "poll", UNCHANGED <<request, elapsed, delay>>
        PROVE  WaitFits' /\ DeadlineKept'
    BY <1>0, <1>7 DEF WaitFits, DeadlineKept
  <1>8. ASSUME Finish \/ PollTimedOut \/ PollReady \/ PollFailed
               \/ ReadBytes \/ ReadEof \/ ReadAgain \/ ReadFailed
        PROVE  pc' # "poll" /\ UNCHANGED <<request, elapsed, delay>>
    BY <1>8 DEF Finish, PollTimedOut, PollReady, PollFailed,
                ReadBytes, ReadEof, ReadAgain, ReadFailed
  <1>9. ASSUME UNCHANGED <<pc, request, elapsed, wait, delay>>
        PROVE  WaitFits' /\ DeadlineKept'
    BY <1>0, <1>9 DEF WaitFits, DeadlineKept
  <1>10. ASSUME \/ \E p \in Procs, b \in Bytes : Write(p, b)
                \/ \E p \in Procs : CloseStdout(p)
                \/ \E p \in Procs, d \in Descendants : Fork(p, d)
                \/ UNCHANGED vars
         PROVE  UNCHANGED <<pc, request, elapsed, wait, delay>>
    BY <1>10 DEF Write, CloseStdout, Fork, vars
  <1> QED
    BY <1>2, <1>3, <1>4, <1>5, <1>6, <1>7, <1>8, <1>9, <1>10
    DEF Next, Environment, Progress, Disturbance

LEMMA PipeNext == PipeInv /\ [Next]_vars => PipeInv'
  <1> SUFFICES ASSUME PipeInv, [Next]_vars PROVE PipeInv'
    OBVIOUS
  <1> QED
    BY TypeNext, BytesNext, WorkLeftNext, OverreadNext, TimeNext DEF PipeInv

\* The inductive invariant holds throughout, whatever the schedule.
THEOREM PipeCorrect == Spec => []PipeInv
  BY PipeInit, PipeNext, PTL DEF Spec

-----------------------------------------------------------------------------
\* The properties.

\* TypeOK: eof and bad are never set together, the pipe is never overfull.
THEOREM PipeTypeCorrect == Spec => []TypeOK
  <1>1. PipeInv => TypeOK
    BY DEF PipeInv
  <1> QED
    BY <1>1, PipeCorrect, PTL

\* BytesConserved: no byte of the child's stdout is lost, repeated or reordered
\* by timeouts, interruptions and short reads.
THEOREM BytesConservedAlways == Spec => []BytesConserved
  <1>1. PipeInv => BytesConserved
    BY DEF PipeInv
  <1> QED
    BY <1>1, PipeCorrect, PTL

LEMMA EofIsComplete == PipeInv => EofMeansComplete
  <1> SUFFICES ASSUME PipeInv, eof PROVE writers = {} /\ pipe = <<>> /\ Received = written
    BY DEF EofMeansComplete
  <1> USE DEF PipeInv, TypeOK
  <1>1. writers = {} /\ pipe = <<>>
    BY DEF EofIsFinal, eof
  <1>2. Received \in Seq(Bytes)
    BY ConcatProperties DEF Received
  <1>3. Received \o <<>> = Received
    BY <1>2, ConcatEmptySeq
  <1> QED
    BY <1>1, <1>3 DEF BytesConserved

\* EofMeansComplete: eof() is only reported when every writer has closed the
\* pipe and everything written has been delivered.
THEOREM EofMeansCompleteAlways == Spec => []EofMeansComplete
  BY EofIsComplete, PipeCorrect, PTL

\* NeverOverreads: no call consumes a byte past its count or delimiter.
THEOREM NeverOverreadsAlways == Spec => []NeverOverreads
  <1>1. PipeInv => NeverOverreads
    BY DEF PipeInv
  <1> QED
    BY <1>1, PipeCorrect, PTL

\* DeadlineKept: no sequence of interruptions, spurious wakeups and trickling
\* bytes keeps a timed call at work past its deadline.
THEOREM DeadlineKeptAlways == Spec => []DeadlineKept
  <1>1. PipeInv => DeadlineKept
    BY DEF PipeInv
  <1> QED
    BY <1>1, PipeCorrect, PTL

-----------------------------------------------------------------------------
\* Refinement of ByteChannel.

\* The bytes received so far are a prefix of those written.
LEMMA ReceivedIsPrefix ==
  ASSUME NEW x \in Seq(Bytes), NEW y \in Seq(Bytes)
  PROVE  SubSeq(x \o y, 1, Len(x)) = x
  <1>1. SubSeq(x \o y, 1, Len(x)) = SubSeq(x, 1, Len(x))
    BY PrefixOfLonger, LenProperties
  <1> QED
    BY <1>1, SubSeqFull

Status == IF badbit THEN "failed" ELSE IF eof THEN "complete" ELSE "open"

\* A step that changes none of these is invisible to the channel.
NothingSeen == UNCHANGED <<written, delivered, result, eofbit, badbit, writers>>

\* Every step is one of the channel's, or none.
LEMMA ChannelStep ==
  ASSUME PipeInv, [Next]_vars
  PROVE  [Channel!Next]_<<written, Received, (writers = {}), Status>>
  <1> USE DEF PipeInv, TypeOK, kernelVars, callVars, Status
  <1> DEFINE Quiet == /\ UNCHANGED <<written, Received, Status>>
                      /\ (writers = {})' <=> (writers = {})
  <1>0. Received \in Seq(Bytes)
    BY ConcatProperties DEF Received
  <1>quiet. ASSUME NothingSeen PROVE Quiet
    BY <1>quiet DEF NothingSeen, Received, eof
  <1>1. ASSUME NEW p \in Procs, NEW b \in Bytes, Write(p, b)
        PROVE  Channel!Send
    <2>1. UNCHANGED <<Received, Status, writers>> /\ writers # {}
      BY <1>1 DEF Write, Received, eof
    <2> QED
      BY <1>1, <2>1 DEF Write, Channel!Send
  <1>2. ASSUME NEW p \in Procs, CloseStdout(p)
        PROVE  Channel!Close \/ Quiet
    <2>1. UNCHANGED <<written, Received, Status>> /\ writers # {}
      BY <1>2 DEF CloseStdout, Received, eof
    <2> QED
      BY <2>1 DEF Channel!Close
  <1>3. ASSUME NEW p \in Procs, NEW d \in Descendants, Fork(p, d)
        PROVE  Quiet
    BY <1>3 DEF Fork, Received, eof
  <1>4. ASSUME Tick \/ Delay
        PROVE  NothingSeen
    BY <1>4 DEF Tick, Delay, NothingSeen
  <1>5. ASSUME NEW req \in Requests, Call(req)
        PROVE  Quiet
    <2>1. Received' = Received
      BY <1>5, ConcatProperties, ConcatEmptySeq DEF Call, Received
    <2> QED
      BY <1>5, <2>1 DEF Call, eof
  <1>6. ASSUME Finish \/ EnterPoll \/ PollTimedOut \/ PollReady \/ ReadAgain
        PROVE  NothingSeen
    BY <1>6 DEF Finish, EnterPoll, PollTimedOut, PollReady, ReadAgain, NothingSeen
  <1>7. ASSUME PollInterrupted \/ PollSpurious
        PROVE  NothingSeen
    BY <1>7 DEF PollInterrupted, PollSpurious, NothingSeen
  <1>8. ASSUME PollFailed \/ ReadFailed
        PROVE  Channel!Fail
    <2>1. UNCHANGED <<written, Received, writers>>
      BY <1>8 DEF PollFailed, ReadFailed, Received
    <2>2. Status = "open" /\ Status' = "failed"
      BY <1>8 DEF PollFailed, ReadFailed, WorkLeft, is_open, eof
    <2> QED
      BY <2>1, <2>2 DEF Channel!Fail
  <1>9. ASSUME ReadEof
        PROVE  Channel!Complete
    <2>1. UNCHANGED <<written, Received, writers>> /\ writers = {}
      BY <1>9 DEF ReadEof, Received
    <2>2. Status = "open" /\ Status' = "complete"
      BY <1>9 DEF ReadEof, WorkLeft, is_open, eof
    <2>3. Received = written
      BY <1>0, <1>9, ConcatEmptySeq DEF ReadEof, BytesConserved
    <2> QED
      BY <2>1, <2>2, <2>3 DEF Channel!Complete
  <1>10. ASSUME ReadBytes
         PROVE  Channel!Receive
    <2>1. PICK cut \in Seq(Bytes), left \in Seq(Bytes) :
            /\ cut \o left = pipe /\ Len(cut) \in 1..Len(pipe)
            /\ Len(left) = Len(pipe) - Len(cut)
            /\ result' = result \o cut /\ pipe' = left
      BY <1>10, ReadBytesEffect
    <2>2. /\ delivered \in Seq(Bytes) /\ result \in Seq(Bytes)
          /\ cut \in Seq(Bytes) /\ left \in Seq(Bytes) /\ Received \in Seq(Bytes)
      BY <1>0
    <2>3. Received' = Received \o cut
      <3>1. (delivered \o result) \o cut = delivered \o (result \o cut)
        BY ONLY <2>2, ConcatAssociative
      <3> QED
        BY <1>10, <2>1, <3>1 DEF ReadBytes, Received
    <2>4. Received' \in Seq(Bytes) /\ Len(Received') = Len(Received) + Len(cut)
      BY <2>2, <2>3, ConcatProperties
    <2>5. Received' \o left = written
      <3>1. (Received \o cut) \o left = Received \o (cut \o left)
        BY ONLY SMTT(30), <2>2, ConcatAssociative
      <3> QED
        BY <2>1, <2>3, <3>1 DEF BytesConserved
    <2>6. Received' = SubSeq(written, 1, Len(Received) + Len(cut))
      BY <2>2, <2>4, <2>5, ReceivedIsPrefix
    <2>7. Len(cut) \in 1..(Len(written) - Len(Received))
      <3>1. Len(written) = Len(Received) + Len(pipe)
        BY <1>0, ConcatProperties DEF BytesConserved
      <3>2. Len(Received) \in Nat /\ Len(pipe) \in Nat
        BY <1>0, LenProperties
      <3> QED
        BY <2>1, <3>1, <3>2
    <2>8. Status = "open" /\ UNCHANGED <<written, writers, Status>>
      BY <1>10 DEF ReadBytes, WorkLeft, is_open, eof
    <2> QED
      BY <2>6, <2>7, <2>8 DEF Channel!Receive
  <1>11. CASE UNCHANGED vars
    BY <1>11, <1>quiet DEF vars, NothingSeen
  <1> QED
    BY <1>quiet, <1>1, <1>2, <1>3, <1>4, <1>5, <1>6, <1>7, <1>8, <1>9, <1>10, <1>11
    DEF Next, Environment, Progress, Disturbance, Channel!Next

\* ImplementsByteChannel: for its callers the whole of poll, read, pipe,
\* timeouts and descendants is a lossless first-in first-out channel.
THEOREM ImplementsByteChannelAlways == Spec => ImplementsByteChannel
  <1>1. Init => Channel!Init
    BY ConcatEmptySeq, EmptySeq DEF Init, Channel!Init, Received, eof
  <1>2. PipeInv /\ [Next]_vars
          => [Channel!Next]_<<written, Received, (writers = {}),
                IF badbit THEN "failed" ELSE IF eof THEN "complete" ELSE "open">>
    BY ChannelStep DEF Status
  <1> QED
    BY <1>1, <1>2, PipeCorrect, PTL
    DEF Spec, ImplementsByteChannel, Channel!Spec, Channel!chanVars
=============================================================================
