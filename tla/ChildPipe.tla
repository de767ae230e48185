----------------------------- MODULE ChildPipe -----------------------------
(* The read side of ChildPipeIOStream on POSIX                               *)
(* (source/IOStream/ChildPipeIOStream.cpp): read_some, read_until and        *)
(* read_once, the kernel pipe that carries the child's stdout, and the       *)
(* processes that hold its write end.                                        *)
(*                                                                           *)
(* Time is counted in ticks, TicksPerMs of them to a millisecond, because    *)
(* duration_since truncates to whole milliseconds.  `elapsed' is             *)
(* steady_clock::now() - start of the current call.  A call with no          *)
(* deadline (duration_t::max()) never observes the clock, so it does not     *)
(* advance for it.                                                           *)
EXTENDS Integers, Sequences

CONSTANTS
  Bytes,        \* the values a byte can take
  Child,        \* the direct child process
  Descendants,  \* the processes that may inherit the child's stdout
  PipeCap,      \* capacity of the kernel pipe, in bytes
  MaxWritten,   \* bound: bytes ever written by the child and its descendants
  BufSize,      \* kBufferSize
  SizeMax,      \* std::numeric_limits<size_t>::max(), the count of read()
  IntMax,       \* std::numeric_limits<int>::max()
  DurationMax,  \* duration_t::max(), in milliseconds
  TicksPerMs,   \* clock ticks in a millisecond
  MaxDelay,     \* bound: ticks a call may lose to the scheduler
  Counts,       \* the counts passed to read_some
  Delimiters,   \* the delimiters passed to read_until
  Timeouts      \* the timeouts passed to either, in milliseconds

ASSUME ConstantsAssumption ==
  /\ PipeCap \in Nat \ {0}
  /\ MaxWritten \in Nat
  /\ BufSize \in Nat \ {0}
  /\ SizeMax \in Nat
  /\ IntMax \in Nat \ {0}
  /\ DurationMax \in Nat /\ DurationMax > IntMax
  /\ TicksPerMs \in Nat \ {0}
  /\ MaxDelay \in Nat
  /\ Counts \subseteq 0..SizeMax
  /\ Delimiters \subseteq Seq(Bytes)
  /\ Timeouts \subseteq Int /\ \A t \in Timeouts : t <= DurationMax
  /\ Child \notin Descendants

Procs == {Child} \cup Descendants

Requests ==
  [op : {"read_some"}, count : Counts, timeout : Timeouts]
    \cup [op : {"read_until"}, delimiter : Delimiters, timeout : Timeouts]

VARIABLES
  pipe,       \* bytes in the kernel pipe, oldest first
  writers,    \* processes holding the write end open
  spawned,    \* processes that have been created
  eofbit,     \* pin_.eof()
  badbit,     \* pin_.bad()
  pc,         \* where the reading thread is
  request,    \* arguments of the current (or last) call
  result,     \* the string being accumulated, returned at pc = "returned"
  elapsed,    \* ticks since `start' of the current call
  wait,       \* ticks until poll's timeout expires, or -1 for no timeout
  written,    \* history: everything ever written to the pipe
  delivered,  \* history: everything returned by earlier calls
  delay       \* history: ticks this call lost to the scheduler

kernelVars == <<pipe, writers, spawned, written>>
callVars   == <<pc, request, result, elapsed, wait, delivered, delay>>
vars == <<pipe, writers, spawned, eofbit, badbit, pc, request, result,
          elapsed, wait, written, delivered, delay>>

-----------------------------------------------------------------------------
\* The conditions of the code.

Smaller(a, b) == IF a <= b THEN a ELSE b

\* bool ChildPipeIOStream::is_open() const
is_open == ~eofbit /\ ~badbit

\* bool ChildPipeIOStream::eof() const
eof == eofbit /\ ~badbit

\* std::string::ends_with
EndsWith(s, suffix) ==
  /\ Len(suffix) <= Len(s)
  /\ SubSeq(s, Len(s) - Len(suffix) + 1, Len(s)) = suffix

\* What the loop of read_some or read_until is waiting for.
Satisfied(req, s) ==
  IF req.op = "read_some" THEN Len(s) >= req.count
                          ELSE EndsWith(s, req.delimiter)

\* duration_since(start), truncated to milliseconds
ElapsedMs == elapsed \div TicksPerMs

\* A read is in progress.
Reading == pc \in {"loop", "poll", "read"}

Unbounded(req) == req.timeout = DurationMax

\* Mutant: every poll of a call is given the whole timeout again.
Remaining_NotReduced == request.timeout

\* The `remaining' passed to read_once.
Remaining == IF Unbounded(request) THEN request.timeout
                                   ELSE request.timeout - ElapsedMs

\* Mutant: the cast to int without std::min, which wraps to a negative number.
WaitMs_Wraps(timeout) ==
  IF timeout = DurationMax THEN -1
  ELSE ((timeout + IntMax + 1) % (2 * (IntMax + 1))) - (IntMax + 1)

\* wait_ms: poll's int timeout, -1 for an unbounded read.
WaitMs(timeout) == IF timeout = DurationMax THEN -1 ELSE Smaller(timeout, IntMax)

\* The ticks poll(2) may then sleep for, -1 for ever.
PollTicks(ms) == IF ms < 0 THEN -1 ELSE ms * TicksPerMs

\* Mutant: read_until takes as much as there is, as read_some does.
ReadCount_Whole ==
  Smaller(BufSize, IF request.op = "read_some" THEN request.count - Len(result) ELSE BufSize)

\* The count given to ::read by read_once.
ReadCount ==
  Smaller(BufSize, IF request.op = "read_some" THEN request.count - Len(result) ELSE 1)

\* poll(2) reports POLLIN or POLLHUP.
Readable == pipe # <<>> \/ writers = {}

-----------------------------------------------------------------------------
\* The constructor: the child runs with the write end as its stdout.  When
\* O_NONBLOCK cannot be set the stream starts with badbit.
Init ==
  /\ pipe = <<>> /\ written = <<>>
  /\ writers = {Child} /\ spawned = {Child}
  /\ eofbit = FALSE
  /\ badbit \in BOOLEAN
  /\ pc = "idle"
  /\ request \in Requests
  /\ result = <<>> /\ delivered = <<>>
  /\ elapsed = 0 /\ wait = -1 /\ delay = 0

-----------------------------------------------------------------------------
\* The processes at the other end and the kernel between them.

\* A process writes one more byte; a longer write is several of these.
Write(p, b) ==
  /\ p \in writers
  /\ Len(pipe) < PipeCap
  /\ Len(written) < MaxWritten
  /\ pipe' = Append(pipe, b)
  /\ written' = Append(written, b)
  /\ UNCHANGED <<writers, spawned, eofbit, badbit, callVars>>

\* A process closes its stdout, by close, exit or being killed.
CloseStdout(p) ==
  /\ p \in writers
  /\ writers' = writers \ {p}
  /\ UNCHANGED <<pipe, spawned, written, eofbit, badbit, callVars>>

\* A process that still holds the write end forks, which duplicates it.
Fork(p, d) ==
  /\ p \in writers
  /\ d \in Descendants \ spawned
  /\ spawned' = spawned \cup {d}
  /\ writers' = writers \cup {d}
  /\ UNCHANGED <<pipe, written, eofbit, badbit, callVars>>

\* Time passes while the reader sleeps in poll with nothing to report.
Tick ==
  /\ pc = "poll" /\ ~Readable
  /\ wait > 0
  /\ elapsed' = elapsed + 1
  /\ wait' = wait - 1
  /\ UNCHANGED <<kernelVars, eofbit, badbit, pc, request, result, delivered,
                 delay>>

\* The scheduler keeps the reader, awake or waking up, off the processor.
Delay ==
  /\ Reading
  /\ ~Unbounded(request)
  /\ delay < MaxDelay
  /\ elapsed' = elapsed + 1
  /\ delay' = delay + 1
  /\ UNCHANGED <<kernelVars, eofbit, badbit, pc, request, result, wait,
                 delivered>>

Environment ==
  \/ \E p \in Procs, b \in Bytes : Write(p, b)
  \/ \E p \in Procs : CloseStdout(p)
  \/ \E p \in Procs, d \in Descendants : Fork(p, d)
  \/ Tick
  \/ Delay

-----------------------------------------------------------------------------
\* The reading thread.

\* A call of read_some, read_until, or read (read_some with SizeMax): start
\* is now.
Call(req) ==
  /\ pc \in {"idle", "returned"}
  /\ pc' = "loop"
  /\ request' = req
  /\ delivered' = delivered \o result
  /\ result' = <<>>
  /\ elapsed' = 0 /\ delay' = 0
  /\ wait' = -1
  /\ UNCHANGED <<kernelVars, eofbit, badbit>>

\* The loop ends, by its condition or because the deadline has passed.
Finish ==
  /\ pc = "loop"
  /\ \/ ~is_open
     \/ Satisfied(request, result)
     \/ ElapsedMs >= request.timeout
  /\ pc' = "returned"
  /\ UNCHANGED <<kernelVars, eofbit, badbit, request, result, elapsed, wait,
                 delivered, delay>>

\* Another turn: read_once computes wait_ms and enters poll.
EnterPoll ==
  /\ pc = "loop"
  /\ is_open
  /\ ~Satisfied(request, result)
  /\ ElapsedMs < request.timeout
  /\ pc' = "poll"
  /\ wait' = PollTicks(WaitMs(Remaining))
  /\ UNCHANGED <<kernelVars, eofbit, badbit, request, result, elapsed,
                 delivered, delay>>

\* poll returns 0: back to the loop, which looks at the clock again.
PollTimedOut ==
  /\ pc = "poll" /\ ~Readable
  /\ wait = 0
  /\ pc' = "loop" /\ wait' = -1
  /\ UNCHANGED <<kernelVars, eofbit, badbit, request, result, elapsed,
                 delivered, delay>>

\* A signal interrupts poll (EINTR) after some time asleep: back to the loop.
PollInterrupted ==
  /\ pc = "poll" /\ ~Readable
  /\ wait # 0
  /\ elapsed' = IF Unbounded(request) THEN elapsed ELSE elapsed + 1
  /\ pc' = "loop" /\ wait' = -1
  /\ UNCHANGED <<kernelVars, eofbit, badbit, request, result,
                 delivered, delay>>

\* poll itself fails: the stream is bad, not complete.
PollFailed ==
  /\ pc = "poll"
  /\ badbit' = TRUE
  /\ pc' = "loop" /\ wait' = -1
  /\ UNCHANGED <<kernelVars, eofbit, request, result, elapsed,
                 delivered, delay>>

\* POLLIN or POLLHUP, in any combination: go on to ::read.
PollReady ==
  /\ pc = "poll" /\ Readable
  /\ pc' = "read" /\ wait' = -1
  /\ UNCHANGED <<kernelVars, eofbit, badbit, request, result, elapsed,
                 delivered, delay>>

\* poll reports readiness, and by the time of the ::read there is nothing.
PollSpurious ==
  /\ pc = "poll" /\ ~Readable
  /\ wait # 0
  /\ elapsed' = IF Unbounded(request) THEN elapsed ELSE elapsed + 1
  /\ pc' = "read" /\ wait' = -1
  /\ UNCHANGED <<kernelVars, eofbit, badbit, request, result,
                 delivered, delay>>

\* Mutant: result = read_once(...) where the code appends.
ReadBytes_Assigns ==
  /\ pc = "read"
  /\ \E n \in 1..Smaller(ReadCount, Len(pipe)) :
       /\ result' = SubSeq(pipe, 1, n)
       /\ pipe' = SubSeq(pipe, n + 1, Len(pipe))
  /\ pc' = "loop"
  /\ UNCHANGED <<writers, spawned, written, eofbit, badbit, request, elapsed,
                 wait, delivered, delay>>

\* ::read returns some of the bytes that are there, POLLHUP or not.
ReadBytes ==
  /\ pc = "read"
  /\ \E n \in 1..Smaller(ReadCount, Len(pipe)) :
       /\ result' = result \o SubSeq(pipe, 1, n)
       /\ pipe' = SubSeq(pipe, n + 1, Len(pipe))
  /\ pc' = "loop"
  /\ UNCHANGED <<writers, spawned, written, eofbit, badbit, request, elapsed,
                 wait, delivered, delay>>

\* Mutant: a hangup is taken for end of file, with bytes still in the pipe.
ReadEof_OnHangup ==
  /\ pc = "read"
  /\ writers = {}
  /\ eofbit' = TRUE
  /\ pc' = "loop"
  /\ UNCHANGED <<kernelVars, badbit, request, result, elapsed, wait,
                 delivered, delay>>

\* ::read returns 0, which the kernel does for a drained pipe with no writer.
ReadEof ==
  /\ pc = "read"
  /\ pipe = <<>> /\ writers = {}
  /\ eofbit' = TRUE
  /\ pc' = "loop"
  /\ UNCHANGED <<kernelVars, badbit, request, result, elapsed, wait,
                 delivered, delay>>

\* Mutant: nothing to read is taken for end of file.
ReadAgain_IsEof ==
  /\ pc = "read"
  /\ pipe = <<>> /\ writers # {}
  /\ eofbit' = TRUE
  /\ pc' = "loop"
  /\ UNCHANGED <<kernelVars, badbit, request, result, elapsed, wait,
                 delivered, delay>>

\* EAGAIN, EWOULDBLOCK or EINTR: nothing there, nothing changes.
ReadAgain ==
  /\ pc = "read"
  /\ pipe = <<>> /\ writers # {}
  /\ pc' = "loop"
  /\ UNCHANGED <<kernelVars, eofbit, badbit, request, result, elapsed, wait,
                 delivered, delay>>

\* Any other errno: the stream is bad, not complete.
ReadFailed ==
  /\ pc = "read"
  /\ badbit' = TRUE
  /\ pc' = "loop"
  /\ UNCHANGED <<kernelVars, eofbit, request, result, elapsed, wait,
                 delivered, delay>>

\* What the reading thread does of its own accord.
Progress ==
  \/ Finish \/ EnterPoll
  \/ PollTimedOut \/ PollReady
  \/ ReadBytes \/ ReadEof \/ ReadAgain

\* What a signal, the kernel or an error can do to it instead.
Disturbance == PollInterrupted \/ PollSpurious \/ PollFailed \/ ReadFailed

Next ==
  \/ Environment
  \/ \E req \in Requests : Call(req)
  \/ Progress
  \/ Disturbance

\* The reading thread keeps running and the clock does not stop while poll
\* sleeps.  Nothing obliges a child to write, close or exit, a signal or an
\* error to come, or a caller to call.
Fairness == WF_vars(Progress) /\ WF_vars(Tick)

Spec == Init /\ [][Next]_vars /\ Fairness

-----------------------------------------------------------------------------
\* Properties.

\* Every byte handed to the caller so far, the string in hand included.
Received == delivered \o result

TypeOK ==
  /\ pipe \in Seq(Bytes) /\ Len(pipe) <= PipeCap
  /\ written \in Seq(Bytes)
  /\ delivered \in Seq(Bytes) /\ result \in Seq(Bytes)
  /\ spawned \subseteq Procs /\ writers \subseteq spawned
  /\ eofbit \in BOOLEAN /\ badbit \in BOOLEAN /\ ~(eofbit /\ badbit)
  /\ pc \in {"idle", "loop", "poll", "read", "returned"}
  /\ request \in Requests
  /\ elapsed \in Nat /\ delay \in 0..MaxDelay
  /\ wait \in Int /\ wait >= -1

\* No byte is lost, duplicated or reordered by timeouts, interrupted polls,
\* short reads or the end of one call and the start of the next: what callers
\* got, followed by what is still in the pipe, is what the processes wrote.
BytesConserved == Received \o pipe = written

\* eof() is stdout completion and nothing else: it holds only when every
\* process with the write end, a descendant that inherited it included, has
\* closed it, and the caller has been given everything they wrote.  Neither a
\* timed read nor an error nor a hangup with unread data is mistaken for it.
EofMeansComplete == eof => writers = {} /\ pipe = <<>> /\ Received = written

\* A call takes no byte past what it was asked for: read_some stops at its
\* count, read_until at the first occurrence of its delimiter, so the rest is
\* left for the next call, wherever a timeout or a short read fell.
NeverOverreads ==
  IF request.op = "read_some"
  THEN Len(result) <= request.count
  ELSE \A n \in 0..(Len(result) - 1) :
         ~EndsWith(SubSeq(result, 1, n), request.delimiter)

\* The deadline of the call, in ticks.
Deadline == (IF request.timeout > 0 THEN request.timeout ELSE 0) * TicksPerMs

\* However often poll is interrupted, wakes spuriously or yields one byte at a
\* time, a call with a deadline is never at work past it: less than a
\* millisecond (the truncation of duration_since) plus what the scheduler took.
DeadlineKept ==
  ~Unbounded(request) => elapsed < Deadline + TicksPerMs + delay

\* A call with a deadline returns, whatever the child does or fails to do; a
\* call without one returns once every writer has closed the pipe.
ReadsReturn ==
  /\ (Reading /\ ~Unbounded(request)) ~> pc = "returned"
  /\ (Reading /\ writers = {}) ~> pc = "returned"

\* The parts of the inductive invariant that the properties rest on.

\* poll and read are entered for a reason that lasts until they are left.
WorkLeft == pc \in {"poll", "read"} => is_open /\ ~Satisfied(request, result)

\* poll is given no timeout if the call has none, else one that ends in time.
WaitFits ==
  pc = "poll" =>
    IF Unbounded(request)
    THEN wait = -1
    ELSE wait >= 0 /\ elapsed + wait < Deadline + TicksPerMs + delay

\* The kernel reports end of file for good.
EofIsFinal == eofbit => writers = {} /\ pipe = <<>>

PipeInv ==
  /\ TypeOK /\ BytesConserved /\ EofIsFinal
  /\ WorkLeft /\ NeverOverreads
  /\ WaitFits /\ DeadlineKept

\* The reader implements the abstract channel.
Channel ==
  INSTANCE ByteChannel WITH
    sent     <- written,
    received <- Received,
    closed   <- (writers = {}),
    status   <- IF badbit THEN "failed" ELSE IF eof THEN "complete" ELSE "open"

\* Every step of reader, kernel and child is a step of an order-preserving,
\* lossless byte channel or invisible to it; in particular a stream that has
\* completed or failed stays so and delivers nothing more.
ImplementsByteChannel == Channel!Spec
=============================================================================
