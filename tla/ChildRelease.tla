---------------------------- MODULE ChildRelease ---------------------------
(* release() and the destructor of ChildPipeIOStream                         *)
(* (source/IOStream/ChildPipeIOStream.cpp) against the direct child, which   *)
(* runs, exits or hangs as it likes.                                         *)
(*                                                                           *)
(* The code drives the child through boost::process::child.  Its running(),  *)
(* wait(), terminate() and exit_code() are external: they are modelled by    *)
(* the system calls they make (waitpid with and without WNOHANG, kill) and   *)
(* the two members they keep, the exit status and the terminated flag.       *)
EXTENDS Integers

CONSTANTS
  Statuses,    \* exit codes and signal numbers the child may end with
  SigKill,     \* the code of a child killed by SIGKILL
  StillActive, \* exit_code() of a child whose end was never observed
  Grace,       \* ticks release() waits for the child, 100 ms
  MaxTime      \* bound: ticks a release may take, beyond which time is not counted

ASSUME ReleaseAssumption ==
  /\ Statuses \subseteq Nat
  /\ SigKill \in Nat \ {0}
  /\ StillActive \in Nat \ (Statuses \cup {0, SigKill})
  /\ Grace \in Nat
  /\ MaxTime \in Nat /\ MaxTime >= Grace

VARIABLES
  proc,        \* the process: "running", "zombie", or "gone" once reaped
  signalled,   \* SIGKILL has been sent to it while it was running
  status,      \* how it ended, StillActive while it has not
  exitStatus,  \* boost: the exit status observed by running() or wait()
  terminated,  \* boost: terminate() has been called
  pc,          \* where the owning thread is
  op,          \* "running", "release" or "destroy": the call being made
  elapsed,     \* ticks since start_time
  answer,      \* what the last release() returned
  late         \* history: the child ended by itself, with a release past its grace

vars == <<proc, signalled, status, exitStatus, terminated, pc, op, elapsed,
          answer, late>>
procVars  == <<proc, signalled, status, late>>
boostVars == <<exitStatus, terminated>>

Init ==
  /\ proc = "running" /\ signalled = FALSE /\ status = StillActive
  /\ exitStatus = StillActive /\ terminated = FALSE
  /\ pc = "idle" /\ op = "running"
  /\ elapsed = 0
  /\ answer = "none"
  /\ late = FALSE

-----------------------------------------------------------------------------
\* The child, the kernel and the clock.

InRelease == pc \notin {"idle", "destroyed"}

\* The child ends by itself: it returns, exits, crashes.
ChildExits ==
  /\ proc = "running"
  /\ proc' = "zombie"
  /\ status' \in Statuses
  /\ late' = (InRelease /\ elapsed >= Grace)
  /\ UNCHANGED <<signalled, boostVars, pc, op, elapsed, answer>>

\* SIGKILL takes effect.
ChildDies ==
  /\ proc = "running" /\ signalled
  /\ proc' = "zombie"
  /\ status' = SigKill
  /\ UNCHANGED <<signalled, late, boostVars, pc, op, elapsed, answer>>

Tick ==
  /\ InRelease
  /\ elapsed < MaxTime
  /\ elapsed' = elapsed + 1
  /\ UNCHANGED <<procVars, boostVars, pc, op, answer>>

-----------------------------------------------------------------------------
\* boost::process::child.

\* child::_exited(): nothing more is asked of the kernel.
Exited == terminated \/ exitStatus # StillActive

\* running() answers TRUE.
RunningTrue == ~Exited /\ proc = "running"

\* waitpid reaps the zombie, and its status is kept.
ReapAndStore ==
  /\ proc = "zombie"
  /\ proc' = "gone"
  /\ exitStatus' = status

\* running() answers FALSE: the end was known, or waitpid(WNOHANG) reports it.
RunningFalse ==
  /\ \/ Exited /\ UNCHANGED <<proc, exitStatus>>
     \/ ~Exited /\ ReapAndStore
  /\ UNCHANGED <<signalled, status, late, terminated>>

-----------------------------------------------------------------------------
\* The owning thread.

\* bool ChildPipeIOStream::running(), which observes an exit on the way.
CallRunning ==
  /\ pc = "idle"
  /\ op' = "running"
  /\ \/ RunningTrue /\ UNCHANGED <<procVars, boostVars>>
     \/ RunningFalse
  /\ UNCHANGED <<pc, elapsed, answer>>

\* release(), or the destructor, which begins by calling it.
CallRelease(which) ==
  /\ pc = "idle"
  /\ op' = which
  /\ pc' = "loop"
  /\ elapsed' = 0
  /\ UNCHANGED <<procVars, boostVars, answer>>

\* while (child_.running() && ...
LoopRunning ==
  /\ pc = "loop" /\ RunningTrue
  /\ pc' = "clock"
  /\ UNCHANGED <<procVars, boostVars, op, elapsed, answer>>

LoopEnded ==
  /\ pc = "loop" /\ RunningFalse
  /\ pc' = "check"
  /\ UNCHANGED <<op, elapsed, answer>>

\* ... && duration_since(start_time) < 100ms) yield();
LoopYields ==
  /\ pc = "clock" /\ elapsed < Grace
  /\ pc' = "loop"
  /\ UNCHANGED <<procVars, boostVars, op, elapsed, answer>>

\* Mutant: the loop gives up after its first turn.
LoopTimedOut_AtOnce ==
  /\ pc = "clock"
  /\ pc' = "check"
  /\ UNCHANGED <<procVars, boostVars, op, elapsed, answer>>

LoopTimedOut ==
  /\ pc = "clock" /\ elapsed >= Grace
  /\ pc' = "check"
  /\ UNCHANGED <<procVars, boostVars, op, elapsed, answer>>

\* Mutant: wait() for a child that is still running.
CheckRunning_Waits ==
  /\ pc = "check" /\ RunningTrue
  /\ pc' = "wait"
  /\ UNCHANGED <<procVars, boostVars, op, elapsed, answer>>

\* Mutant: a child that is still running is left alone.
CheckRunning_Leaves ==
  /\ pc = "check" /\ RunningTrue
  /\ pc' = "code"
  /\ UNCHANGED <<procVars, boostVars, op, elapsed, answer>>

\* if (child_.running()) child_.terminate();
CheckRunning ==
  /\ pc = "check" /\ RunningTrue
  /\ pc' = "terminate"
  /\ UNCHANGED <<procVars, boostVars, op, elapsed, answer>>

\* else child_.wait();
CheckEnded ==
  /\ pc = "check" /\ RunningFalse
  /\ pc' = "wait"
  /\ UNCHANGED <<op, elapsed, answer>>

\* wait(): blocks in waitpid unless the end is known already.
Wait ==
  /\ pc = "wait"
  /\ \/ Exited /\ UNCHANGED <<proc, exitStatus>>
     \/ ~Exited /\ ReapAndStore
  /\ pc' = "code"
  /\ UNCHANGED <<signalled, status, late, terminated, op, elapsed, answer>>

\* terminate() asks running() once more, and kills only a child still there.
TerminateRunning ==
  /\ pc = "terminate" /\ RunningTrue
  /\ pc' = "kill"
  /\ UNCHANGED <<procVars, boostVars, op, elapsed, answer>>

TerminateEnded ==
  /\ pc = "terminate"
  /\ \/ Exited /\ UNCHANGED <<proc, exitStatus>>
     \/ ~Exited /\ ReapAndStore
  /\ terminated' = TRUE
  /\ pc' = "code"
  /\ UNCHANGED <<signalled, status, late, op, elapsed, answer>>

\* kill(pid, SIGKILL): no effect on a child that ended in the meantime.
Kill ==
  /\ pc = "kill"
  /\ signalled' = (proc = "running")
  /\ pc' = "collect"
  /\ UNCHANGED <<proc, status, late, boostVars, op, elapsed, answer>>

\* terminate()'s waitpid: the child is reaped and its status thrown away.
Collect ==
  /\ pc = "collect"
  /\ proc = "zombie"
  /\ proc' = "gone"
  /\ terminated' = TRUE
  /\ pc' = "code"
  /\ UNCHANGED <<signalled, status, late, exitStatus, op, elapsed, answer>>

\* Mutant: a child that had to be killed counts as a success.
ReturnCode_KilledIsSuccess ==
  /\ pc = "code"
  /\ answer' = IF exitStatus = 0 \/ terminated THEN "success" ELSE "failure"
  /\ pc' = IF op = "destroy" THEN "destroyed" ELSE "idle"
  /\ UNCHANGED <<procVars, boostVars, op, elapsed>>

\* Mutant: using up the grace period is a failure, whatever the exit code.
ReturnCode_LateIsFailure ==
  /\ pc = "code"
  /\ answer' = IF exitStatus = 0 /\ elapsed < Grace THEN "success" ELSE "failure"
  /\ pc' = IF op = "destroy" THEN "destroyed" ELSE "idle"
  /\ UNCHANGED <<procVars, boostVars, op, elapsed>>

\* int code = child_.exit_code(); success is 0.  In the destructor the member
\* child_ is destroyed next, which does nothing to a child that has exited.
ReturnCode ==
  /\ pc = "code"
  /\ answer' = IF exitStatus = 0 THEN "success" ELSE "failure"
  /\ pc' = IF op = "destroy" THEN "destroyed" ELSE "idle"
  /\ UNCHANGED <<procVars, boostVars, op, elapsed>>

Release ==
  \/ LoopRunning \/ LoopEnded \/ LoopYields \/ LoopTimedOut
  \/ CheckRunning \/ CheckEnded \/ Wait
  \/ TerminateRunning \/ TerminateEnded \/ Kill \/ Collect
  \/ ReturnCode

Next ==
  \/ ChildExits \/ ChildDies \/ Tick
  \/ CallRunning
  \/ \E which \in {"release", "destroy"} : CallRelease(which)
  \/ Release

\* The thread in release() keeps running, its clock advances and SIGKILL is
\* eventually obeyed.  A child that is left alone need never end.
Fairness == WF_vars(Release) /\ WF_vars(Tick) /\ WF_vars(ChildDies)

Spec == Init /\ [][Next]_vars /\ Fairness

-----------------------------------------------------------------------------
\* Properties.

TypeOK ==
  /\ proc \in {"running", "zombie", "gone"}
  /\ signalled \in BOOLEAN /\ late \in BOOLEAN /\ terminated \in BOOLEAN
  /\ status \in Statuses \cup {SigKill, StillActive}
  /\ status = StillActive <=> proc = "running"
  /\ exitStatus \in {StillActive, status}
  /\ pc \in {"idle", "loop", "clock", "check", "wait", "terminate", "kill",
             "collect", "code", "destroyed"}
  /\ op \in {"running", "release", "destroy"}
  /\ elapsed \in 0..MaxTime
  /\ answer \in {"none", "success", "failure"}

\* release() reports success only for a child that ended by itself with exit
\* code 0: one that was killed, crashed or returned nonzero is never one.
SuccessIsReal == answer = "success" => status = 0 /\ ~signalled

\* Once release() or the destructor has returned the direct child has ended
\* and been reaped, however its exit fell between the two calls of running(),
\* the one inside terminate() and the kill.
ReleaseReaps == answer # "none" /\ ~InRelease => proc = "gone"

\* SIGKILL goes to the child or its zombie, never to a process id that has
\* been reaped and may belong to someone else by now; and never before the
\* grace period is over.
KillsOnlyTheChild ==
  [][Kill => proc # "gone" /\ elapsed >= Grace]_vars

\* Calling release() again, or the destructor after it, gives the same answer
\* as the first time.
AnswerStable == [][answer # "none" => answer' = answer]_vars

\* A child that returned 0 is reported as a failure only when it ended after
\* the grace period, in the window before the kill.
CleanExitKept ==
  answer = "failure" /\ status = 0 => late

\* release() and the destructor return even if the child never ends.
ReleaseReturns == InRelease ~> ~InRelease

\* The parts of the inductive invariant that the safety properties rest on.

\* boost knows of the end exactly when the child has been reaped.
ObservedIffGone == Exited <=> proc = "gone"

\* On the way to a kill nobody has reaped the child.
StillThere == pc \in {"clock", "terminate", "kill", "collect"} => ~Exited

\* A kill is only considered once the grace period is over.
PatientFirst ==
  /\ pc = "check" => proc = "gone" \/ elapsed >= Grace
  /\ pc \in {"terminate", "kill", "collect"} => elapsed >= Grace

\* The child has ended by the time its exit code is asked for.
EndedBeforeCode == pc \in {"wait", "code"} => proc = "gone"

\* A child about to be collected after a kill ended no earlier than the window.
EndedInWindow ==
  pc \in {"kill", "collect"} => proc = "running" \/ status = SigKill \/ late

\* No exit status is ever kept of a child that was killed ...
KilledUnseen == signalled => (pc = "collect" \/ terminated) /\ exitStatus = StillActive

\* ... and that of a clean exit is lost in the window only.
LostInWindow == proc = "gone" /\ exitStatus = StillActive /\ status = 0 => late

AnswerFits ==
  answer # "none" => proc = "gone" /\ (answer = "success" <=> exitStatus = 0)

ReleaseInv ==
  /\ TypeOK /\ ObservedIffGone /\ StillThere /\ PatientFirst
  /\ EndedBeforeCode /\ EndedInWindow /\ KilledUnseen /\ LostInWindow /\ AnswerFits
=============================================================================
