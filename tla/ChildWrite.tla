----------------------------- MODULE ChildWrite -----------------------------
(* ChildPipeIOStream::write (source/IOStream/ChildPipeIOStream.cpp) and both *)
(* of the child's pipes: a program that writes requests and reads replies,   *)
(* in one thread, and a child that answers each byte before it reads on.     *)
(*                                                                           *)
(* Bytes are counted. That SIGPIPE is ignored is left to the program.        *)
EXTENDS Integers

CONSTANTS
  Cap,      \* bytes a pipe holds
  Answer,   \* bytes of reply to one byte of request
  MaxData   \* bound: bytes of a request

VARIABLES
  pc,       \* of the program: "idle", "write" or "read"
  left,     \* bytes of the request not yet in the pipe
  in,       \* bytes in the child's stdin
  owed,     \* bytes of reply that the child writes before it reads on
  out,      \* bytes in the child's stdout
  alive,    \* the child
  good      \* pout_.good()

vars == <<pc, left, in, owed, out, alive, good>>

Init ==
  /\ pc = "idle" /\ left = 0
  /\ in = 0 /\ owed = 0 /\ out = 0
  /\ alive = TRUE /\ good = TRUE

\* write(data): the data and, by std::endl, one byte more.
Write(size) ==
  /\ pc = "idle" /\ good
  /\ pc' = "write" /\ left' = size + 1
  /\ UNCHANGED <<in, owed, out, alive, good>>

\* A stream that has gone bad is not written to: write answers FALSE.
WriteRefused ==
  /\ pc = "idle" /\ ~good
  /\ UNCHANGED vars

\* The flush blocks while the pipe is full.
Flush ==
  /\ pc = "write" /\ left > 0
  /\ alive /\ in < Cap
  /\ in' = in + 1 /\ left' = left - 1
  /\ UNCHANGED <<pc, owed, out, alive, good>>

\* Mutant: what could not be written is tried again.
FlushFails_Retries ==
  /\ pc = "write" /\ left > 0
  /\ ~alive
  /\ UNCHANGED vars

\* EPIPE: the stream goes bad, and write returns TRUE all the same.
FlushFails ==
  /\ pc = "write" /\ left > 0
  /\ ~alive
  /\ pc' = "idle" /\ left' = 0 /\ good' = FALSE
  /\ UNCHANGED <<in, owed, out, alive>>

Written ==
  /\ pc = "write" /\ left = 0
  /\ pc' = "idle"
  /\ UNCHANGED <<left, in, owed, out, alive, good>>

\* A read of the reply, which may time out.
Read == pc = "idle" /\ pc' = "read" /\ UNCHANGED <<left, in, owed, out, alive, good>>
ReadByte ==
  /\ pc = "read" /\ out > 0
  /\ out' = out - 1
  /\ UNCHANGED <<pc, left, in, owed, alive, good>>
ReadReturns == pc = "read" /\ pc' = "idle" /\ UNCHANGED <<left, in, owed, out, alive, good>>

-----------------------------------------------------------------------------
ChildReads ==
  /\ alive /\ owed = 0 /\ in > 0
  /\ in' = in - 1 /\ owed' = Answer
  /\ UNCHANGED <<pc, left, out, alive, good>>

ChildWrites ==
  /\ alive /\ owed > 0 /\ out < Cap
  /\ owed' = owed - 1 /\ out' = out + 1
  /\ UNCHANGED <<pc, left, in, alive, good>>

ChildExits ==
  /\ alive /\ alive' = FALSE
  /\ UNCHANGED <<pc, left, in, owed, out, good>>

Next ==
  \/ \E size \in 0..MaxData : Write(size)
  \/ WriteRefused \/ Flush \/ FlushFails \/ Written \/ Read \/ ReadByte \/ ReadReturns
  \/ ChildReads \/ ChildWrites \/ ChildExits

\* A thread in a write goes on, and the child reads and answers as it can.
Fairness ==
  /\ WF_vars(Flush) /\ WF_vars(FlushFails) /\ WF_vars(Written)
  /\ WF_vars(ChildReads) /\ WF_vars(ChildWrites)

Spec == Init /\ [][Next]_vars /\ Fairness

-----------------------------------------------------------------------------
\* Properties.

\* What the child must read before the rest of the request fits into its stdin, it
\* can, since its stdout takes the answers to all of that but the last byte.
Fits ==
  LET must == in + left - Cap
  IN  must > 0 => out + owed + (must - 1) * Answer <= Cap

\* A write returns if the request fits, even if the child exits meanwhile.
WriteReturns == (pc = "write" /\ Fits) ~> pc # "write"
=============================================================================
