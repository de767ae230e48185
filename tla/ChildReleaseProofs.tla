------------------------- MODULE ChildReleaseProofs -------------------------
(* Proofs about ChildRelease, for every set of exit codes, grace period and  *)
(* bound on time: what release() answers, that it reaps the child, that it   *)
(* kills nobody else, and that its answer does not change.                   *)
EXTENDS ChildRelease, TLAPS

-----------------------------------------------------------------------------
\* The inductive invariant.

LEMMA ReleaseInit == Init => ReleaseInv
  <1> SUFFICES ASSUME Init PROVE ReleaseInv
    OBVIOUS
  <1> USE ReleaseAssumption DEF Init
  <1>1. TypeOK
    <2>1. signalled \in BOOLEAN /\ late \in BOOLEAN /\ terminated \in BOOLEAN
      OBVIOUS
    <2>2. elapsed \in 0..MaxTime
      OBVIOUS
    <2>3. status = StillActive /\ proc = "running" /\ exitStatus \in {StillActive, status}
      OBVIOUS
    <2> QED
      BY <2>1, <2>2, <2>3 DEF TypeOK
  <1>2. ObservedIffGone /\ StillThere
    BY DEF ObservedIffGone, StillThere, Exited
  <1>3. PatientFirst /\ EndedBeforeCode /\ EndedInWindow
    BY DEF PatientFirst, EndedBeforeCode, EndedInWindow
  <1>4. KilledUnseen /\ LostInWindow /\ AnswerFits
    BY DEF KilledUnseen, LostInWindow, AnswerFits
  <1> QED
    BY <1>1, <1>2, <1>3, <1>4 DEF ReleaseInv

LEMMA ReleaseNext == ReleaseInv /\ [Next]_vars => ReleaseInv'
  <1> SUFFICES ASSUME ReleaseInv, [Next]_vars PROVE ReleaseInv'
    OBVIOUS
  <1> USE ReleaseAssumption
      DEF ReleaseInv, TypeOK, ObservedIffGone, Exited, StillThere, PatientFirst,
          EndedBeforeCode, EndedInWindow, KilledUnseen, LostInWindow, AnswerFits,
          procVars, boostVars
  <1>1. ASSUME ChildExits PROVE ReleaseInv'
    BY <1>1 DEF ChildExits, InRelease
  <1>2. ASSUME ChildDies PROVE ReleaseInv'
    BY <1>2 DEF ChildDies
  <1>3. ASSUME Tick PROVE ReleaseInv'
    BY <1>3 DEF Tick
  <1>4. ASSUME CallRunning PROVE ReleaseInv'
    BY <1>4 DEF CallRunning, RunningTrue, RunningFalse, ReapAndStore
  <1>5. ASSUME NEW which \in {"release", "destroy"}, CallRelease(which) PROVE ReleaseInv'
    BY <1>5 DEF CallRelease
  <1>6. ASSUME LoopRunning \/ LoopYields \/ LoopTimedOut PROVE ReleaseInv'
    BY <1>6 DEF LoopRunning, LoopYields, LoopTimedOut, RunningTrue
  <1>7. ASSUME LoopEnded PROVE ReleaseInv'
    BY <1>7 DEF LoopEnded, RunningFalse, ReapAndStore
  <1>8. ASSUME CheckRunning PROVE ReleaseInv'
    BY <1>8 DEF CheckRunning, RunningTrue
  <1>9. ASSUME CheckEnded PROVE ReleaseInv'
    BY <1>9 DEF CheckEnded, RunningFalse, ReapAndStore
  <1>10. ASSUME Wait PROVE ReleaseInv'
    BY <1>10 DEF Wait, ReapAndStore
  <1>11. ASSUME TerminateRunning PROVE ReleaseInv'
    BY <1>11 DEF TerminateRunning, RunningTrue
  <1>12. ASSUME TerminateEnded PROVE ReleaseInv'
    BY <1>12 DEF TerminateEnded, ReapAndStore
  <1>13. ASSUME Kill PROVE ReleaseInv'
    BY <1>13 DEF Kill
  <1>14. ASSUME Collect PROVE ReleaseInv'
    BY <1>14 DEF Collect
  <1>15. ASSUME ReturnCode PROVE ReleaseInv'
    BY <1>15 DEF ReturnCode
  <1>16. CASE UNCHANGED vars
    BY <1>16 DEF vars
  <1> QED
    BY <1>1, <1>2, <1>3, <1>4, <1>5, <1>6, <1>7, <1>8, <1>9, <1>10, <1>11, <1>12,
       <1>13, <1>14, <1>15, <1>16 DEF Next, Release

\* The inductive invariant holds throughout, whatever the child does.
THEOREM ReleaseCorrect == Spec => []ReleaseInv
  BY ReleaseInit, ReleaseNext, PTL DEF Spec

-----------------------------------------------------------------------------
\* The properties.

\* TypeOK: the exit status boost keeps is the child's own or none.
THEOREM ReleaseTypeCorrect == Spec => []TypeOK
  <1>1. ReleaseInv => TypeOK
    BY DEF ReleaseInv
  <1> QED
    BY <1>1, ReleaseCorrect, PTL

\* SuccessIsReal: release() never reports success for a child that was killed,
\* crashed or returned nonzero.
THEOREM SuccessIsRealAlways == Spec => []SuccessIsReal
  <1>1. ReleaseInv => SuccessIsReal
    BY ReleaseAssumption
    DEF ReleaseInv, TypeOK, AnswerFits, KilledUnseen, SuccessIsReal
  <1> QED
    BY <1>1, ReleaseCorrect, PTL

\* ReleaseReaps: no release() and no destructor leaves a child behind, running
\* or as a zombie.
THEOREM ReleaseReapsAlways == Spec => []ReleaseReaps
  <1>1. ReleaseInv => ReleaseReaps
    BY DEF ReleaseInv, AnswerFits, ReleaseReaps
  <1> QED
    BY <1>1, ReleaseCorrect, PTL

\* CleanExitKept: the clean exit of a child is reported as a failure only if it
\* fell after the grace period.
THEOREM CleanExitKeptAlways == Spec => []CleanExitKept
  <1>1. ReleaseInv => CleanExitKept
    BY ReleaseAssumption
    DEF ReleaseInv, TypeOK, AnswerFits, LostInWindow, CleanExitKept
  <1> QED
    BY <1>1, ReleaseCorrect, PTL

\* KillsOnlyTheChild: the process id that is killed still belongs to the child,
\* and the child has had its grace period.
THEOREM KillsOnlyTheChildAlways == Spec => KillsOnlyTheChild
  <1>1. ReleaseInv /\ [Next]_vars => [Kill => proc # "gone" /\ elapsed >= Grace]_vars
    BY DEF ReleaseInv, ObservedIffGone, StillThere, PatientFirst, Kill
  <1> QED
    BY <1>1, ReleaseCorrect, PTL DEF Spec, KillsOnlyTheChild

\* AnswerStable: a second release(), or the destructor, answers as the first.
THEOREM AnswerStableAlways == Spec => AnswerStable
  <1>1. ReleaseInv /\ [Next]_vars
          => [answer # "none" => answer' = answer]_vars
    <2> SUFFICES ASSUME ReleaseInv, [Next]_vars, answer # "none"
                 PROVE  answer' = answer
      OBVIOUS
    <2> USE DEF procVars, boostVars
    <2>1. CASE ReturnCode
      BY <2>1 DEF ReturnCode, ReleaseInv, TypeOK, AnswerFits
    <2>2. CASE ~ReturnCode
      BY <2>2 DEF Next, Release, ChildExits, ChildDies, Tick, CallRunning, CallRelease,
                  LoopRunning, LoopEnded, LoopYields, LoopTimedOut, CheckRunning,
                  CheckEnded, Wait, TerminateRunning, TerminateEnded, Kill, Collect, vars
    <2> QED
      BY <2>1, <2>2
  <1> QED
    BY <1>1, ReleaseCorrect, PTL DEF Spec, AnswerStable
=============================================================================
