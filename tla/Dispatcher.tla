----------------------------- MODULE Dispatcher -----------------------------
(* Dispatcher<SinkT> (include/MaaUtils/Dispatcher.hpp): observers called in  *)
(* the order they were registered in, who may register, unregister, clear    *)
(* and dispatch from within those calls.  The class has no lock: one thread. *)
(*                                                                           *)
(* An observer stands for the id it was registered under.                    *)
EXTENDS Integers, Sequences, FiniteSets

CONSTANTS
  Dispatchers,  \* of one SinkT: they share s_global_ob_id
  MaxId,        \* bound: registrations
  MaxFrames     \* bound: dispatches within dispatches

VARIABLES
  observers_,      \* the observers of each dispatcher
  s_global_ob_id,  \* the last id given
  frames           \* the dispatches under way, the innermost last

vars == <<observers_, s_global_ob_id, frames>>

\* A dispatch: the observer whose call it is in (0 before the first), whether the
\* element under it was erased, the observers called, and those it began with.
Frame(d) == [d |-> d, at |-> 0, erased |-> FALSE, called |-> {}, first |-> observers_[d]]

Depth == Len(frames)
Top == frames[Depth]

Init ==
  /\ observers_ = [d \in Dispatchers |-> {}]
  /\ s_global_ob_id = 0
  /\ frames = <<>>

\* The program, or an observer that is being called, is running.
Running == frames # <<>> => Top.at # 0

register_observer(d) ==
  /\ Running
  /\ s_global_ob_id < MaxId
  /\ s_global_ob_id' = s_global_ob_id + 1
  /\ observers_' = [observers_ EXCEPT ![d] = @ \cup {s_global_ob_id + 1}]
  /\ UNCHANGED frames

\* The elements of ids go from the map of d; a loop may stand on one.
Remove(d, ids) ==
  /\ Running
  /\ observers_' = [observers_ EXCEPT ![d] = @ \ ids]
  /\ frames' = [n \in DOMAIN frames |->
                  IF frames[n].d = d /\ frames[n].at \in ids
                  THEN [frames[n] EXCEPT !.erased = TRUE] ELSE frames[n]]
  /\ UNCHANGED s_global_ob_id

unregister_observer(d, id) == Remove(d, {id})
clear_observer(d) == Remove(d, 1..MaxId)

dispatch(d) ==
  /\ Running
  /\ Depth < MaxFrames
  /\ frames' = Append(frames, Frame(d))
  /\ UNCHANGED <<observers_, s_global_ob_id>>

\* Mutant: the loop counts, as over a vector.
Following_Counts(f) ==
  {i \in observers_[f.d] :
     Cardinality({j \in observers_[f.d] : j < i}) = Cardinality(f.called)}

\* Where the loop goes. From an erased element it goes wherever the freed memory
\* leads: to any element, or to none.
Following(f) ==
  IF f.erased THEN observers_[f.d]
  ELSE {i \in observers_[f.d] : i > f.at /\ \A j \in observers_[f.d] : j > f.at => i <= j}

\* pred(elem) for the next observer, the call of the last having returned.
CallNext ==
  /\ frames # <<>>
  /\ \E i \in Following(Top) :
       frames' = [frames EXCEPT ![Depth].at = i, ![Depth].called = @ \cup {i}]
  /\ UNCHANGED <<observers_, s_global_ob_id>>

\* The loop is over.
Return ==
  /\ frames # <<>>
  /\ Top.erased \/ Following(Top) = {}
  /\ frames' = SubSeq(frames, 1, Depth - 1)
  /\ UNCHANGED <<observers_, s_global_ob_id>>

\* The observer that is called throws: the exception ends this dispatch, and those
\* it lies in up to an observer that catches it, or the program.
Throws ==
  /\ Running /\ frames # <<>>
  /\ \E n \in 0..(Depth - 1) : frames' = SubSeq(frames, 1, n)
  /\ UNCHANGED <<observers_, s_global_ob_id>>

Next ==
  \/ \E d \in Dispatchers : register_observer(d) \/ clear_observer(d) \/ dispatch(d)
  \/ \E d \in Dispatchers, id \in 1..MaxId : unregister_observer(d, id)
  \/ CallNext
  \/ Return \/ Throws

Spec == Init /\ [][Next]_vars

-----------------------------------------------------------------------------
\* Properties.

TypeOK ==
  /\ observers_ \in [Dispatchers -> SUBSET (1..s_global_ob_id)]
  /\ s_global_ob_id \in Nat
  /\ frames \in Seq([d : Dispatchers, at : Nat, erased : BOOLEAN,
                     called : SUBSET Nat, first : SUBSET (1..s_global_ob_id)])

\* Whatever its observers register, unregister, clear and dispatch, as long as none
\* removes the one being called: a dispatch calls none twice, and unless one throws
\* it ends when it has called all it began with that are still registered.
EachOnce ==
  [][frames # <<>> /\ ~Top.erased =>
       /\ Len(frames') = Depth /\ frames'[Depth].at # Top.at =>
            frames'[Depth].at \notin Top.called
       /\ Return => Top.first \cap observers_[Top.d] \subseteq Top.called]_vars

\* Part of the inductive invariant: how far a dispatch has come.
FrameInv ==
  \A n \in DOMAIN frames :
    LET f == frames[n]
    IN  ~f.erased =>
          /\ \A i \in f.called : i <= f.at
          /\ \A i \in f.first \cap observers_[f.d] : i <= f.at => i \in f.called
=============================================================================
