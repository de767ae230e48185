----------------------------- MODULE PartsProofs -----------------------------
(* What is proved of the parts that MCParts runs next to each other: the      *)
(* dispatcher, the image buffers, the write to the child, the download, the  *)
(* choice of the GPU, the encodings and the command line of a child.  A step *)
(* there is a step of one part or leaves it alone.                           *)
EXTENDS MCParts, SequenceTheorems, WellFoundedInduction, TLAPS

-----------------------------------------------------------------------------
DispatcherInv == D!TypeOK /\ D!FrameInv

Frames == [d : Dispatchers, at : Nat, erased : BOOLEAN,
           called : SUBSET Nat, first : SUBSET (1..s_global_ob_id)]

\* A set of naturals has a least.
LEMMA LeastOf ==
  ASSUME NEW S \in SUBSET Nat, S # {}
  PROVE  \E i \in S : \A j \in S : i <= j
<1>1. PICK i \in S : \A j \in S : ~ (<<j, i>> \in OpToRel(<, Nat))
  BY NatLessThanWellFounded, WFMin
<1>2. \A j \in S : ~ (j < i)  BY <1>1 DEF OpToRel
<1>. QED  BY <1>2

LEMMA DispatcherInitInv == D!Init => DispatcherInv
BY DEF D!Init, DispatcherInv, D!TypeOK, D!FrameInv

\* A registration gives an id that no dispatch under way began with.
LEMMA RegisterInv ==
  ASSUME DispatcherInv, NEW d \in Dispatchers, D!register_observer(d)
  PROVE  DispatcherInv'
<1>1. s_global_ob_id \in Nat /\ s_global_ob_id' = s_global_ob_id + 1 /\ frames' = frames
  BY DEF DispatcherInv, D!TypeOK, D!register_observer
<1>2. 1..s_global_ob_id \subseteq 1..s_global_ob_id'  BY <1>1
<1>3. observers_' \in [Dispatchers -> SUBSET (1..s_global_ob_id')]
  <2>1. s_global_ob_id + 1 \in 1..s_global_ob_id'  BY <1>1
  <2>. QED  BY <1>2, <2>1 DEF DispatcherInv, D!TypeOK, D!register_observer
<1>4. frames \in Seq(Frames)  BY DEF DispatcherInv, D!TypeOK, Frames
<1>5. Frames \subseteq Frames'  BY <1>2 DEF Frames
<1>6. frames \in Seq(Frames')  BY <1>4, <1>5
<1>7. D!TypeOK'  BY <1>1, <1>3, <1>6 DEF D!TypeOK, Frames
<1>8. D!FrameInv'
  <2>1. SUFFICES ASSUME NEW n \in DOMAIN frames, ~frames[n].erased,
                        NEW i \in frames[n].first \cap observers_'[frames[n].d], i <= frames[n].at
                 PROVE  i \in frames[n].called
    BY <1>1 DEF D!FrameInv, DispatcherInv
  <2>2. frames[n] \in Frames  BY <1>4
  <2>3. i \in 1..s_global_ob_id  BY <2>2 DEF Frames
  <2>4. i # s_global_ob_id + 1  BY <2>3, <1>1
  <2>5. frames[n].d \in Dispatchers  BY <2>2 DEF Frames
  <2>6. i \in observers_[frames[n].d]  BY <2>4, <2>5 DEF D!register_observer, DispatcherInv, D!TypeOK
  <2>. QED  BY <2>1, <2>6 DEF DispatcherInv, D!FrameInv
<1>. QED  BY <1>7, <1>8 DEF DispatcherInv

\* To remove observers leaves less to call.
LEMMA RemoveInv ==
  ASSUME DispatcherInv, NEW d \in Dispatchers, NEW ids, D!Remove(d, ids)
  PROVE  DispatcherInv'
<1>1. frames \in Seq(Frames) /\ DOMAIN frames = 1..Len(frames) /\ Len(frames) \in Nat
  BY DEF DispatcherInv, D!TypeOK, Frames
<1>2. observers_' \in [Dispatchers -> SUBSET (1..s_global_ob_id)]
  BY DEF DispatcherInv, D!TypeOK, D!Remove
<1>3. \A e \in Dispatchers : observers_'[e] \subseteq observers_[e]
  BY DEF DispatcherInv, D!TypeOK, D!Remove
<1>4. ASSUME NEW n \in DOMAIN frames
      PROVE  \/ frames'[n] = frames[n]
             \/ frames'[n] = [frames[n] EXCEPT !.erased = TRUE]
  BY <1>1 DEF D!Remove
<1>5. DOMAIN frames' = DOMAIN frames  BY DEF D!Remove
<1>6. \A n \in DOMAIN frames : frames'[n] \in Frames
  <2>1. TAKE n \in DOMAIN frames
  <2>2. frames[n] \in Frames  BY <1>1
  <2>. QED  BY <2>2, <1>4 DEF Frames
<1>7. frames' \in Seq(Frames)
  <2>1. frames' \in [1..Len(frames) -> Frames]
    <3>1. frames' = [n \in 1..Len(frames) |-> frames'[n]]  BY <1>1 DEF D!Remove
    <3>. QED  BY <3>1, <1>6, <1>1
  <2>. QED  BY <2>1, <1>1
<1>8. D!TypeOK'  BY <1>2, <1>7 DEF D!TypeOK, Frames, DispatcherInv, D!Remove
<1>9. D!FrameInv'
  <2>1. SUFFICES ASSUME NEW n \in DOMAIN frames, ~frames'[n].erased
                 PROVE  /\ \A i \in frames'[n].called : i <= frames'[n].at
                        /\ \A i \in frames'[n].first \cap observers_'[frames'[n].d] :
                             i <= frames'[n].at => i \in frames'[n].called
    BY <1>5 DEF D!FrameInv
  <2>2. frames[n] \in Frames  BY <1>1
  <2>3. frames'[n] = frames[n]  BY <2>1, <2>2, <1>4 DEF Frames
  <2>4. observers_'[frames[n].d] \subseteq observers_[frames[n].d]  BY <2>2, <1>3 DEF Frames
  <2>. QED  BY <2>1, <2>3, <2>4 DEF DispatcherInv, D!FrameInv
<1>. QED  BY <1>8, <1>9 DEF DispatcherInv

LEMMA DispatchInv ==
  ASSUME DispatcherInv, NEW d \in Dispatchers, D!dispatch(d)
  PROVE  DispatcherInv'
<1>1. frames \in Seq(Frames)  BY DEF DispatcherInv, D!TypeOK, Frames
<1>2. D!Frame(d) \in Frames  BY DEF D!Frame, Frames, DispatcherInv, D!TypeOK
<1>3. frames' = Append(frames, D!Frame(d))  BY DEF D!dispatch
<1>4. D!TypeOK'  BY <1>1, <1>2, <1>3 DEF DispatcherInv, D!TypeOK, D!dispatch, Frames
<1>5. D!FrameInv'
  <2>1. SUFFICES ASSUME NEW n \in DOMAIN frames', ~frames'[n].erased
                 PROVE  /\ \A i \in frames'[n].called : i <= frames'[n].at
                        /\ \A i \in frames'[n].first \cap observers_[frames'[n].d] :
                             i <= frames'[n].at => i \in frames'[n].called
    BY DEF D!FrameInv, D!dispatch
  <2>2. CASE n \in DOMAIN frames
    <3>1. frames'[n] = frames[n]  BY <2>2, <1>1, <1>3
    <3>. QED  BY <2>1, <2>2, <3>1 DEF DispatcherInv, D!FrameInv
  <2>3. CASE n \notin DOMAIN frames
    <3>1. frames'[n] = D!Frame(d)  BY <2>3, <1>1, <1>2, <1>3
    <3>2. frames'[n].at = 0 /\ frames'[n].called = {} /\ frames'[n].first \subseteq 1..s_global_ob_id
      BY <3>1 DEF D!Frame, DispatcherInv, D!TypeOK
    <3>. QED  BY <3>2
  <2>. QED  BY <2>2, <2>3
<1>. QED  BY <1>4, <1>5 DEF DispatcherInv

\* Where the loop goes from an element that is still there.
LEMMA FollowingNext ==
  ASSUME DispatcherInv, frames # <<>>, ~D!Top.erased, NEW i \in D!Following(D!Top)
  PROVE  /\ i \notin D!Top.called
         /\ i > D!Top.at
         /\ \A j \in D!Top.called : j <= i
         /\ \A j \in D!Top.first \cap observers_[D!Top.d] : j <= i => j \in D!Top.called \cup {i}
<1>1. frames \in Seq(Frames)  BY DEF DispatcherInv, D!TypeOK, Frames
<1>2. D!Depth \in DOMAIN frames  BY <1>1 DEF D!Depth
<1>3. D!Top \in Frames  BY <1>1, <1>2 DEF D!Top
<1>4. /\ D!Top.d \in Dispatchers /\ D!Top.at \in Nat /\ D!Top.called \subseteq Nat
      /\ D!Top.first \subseteq 1..s_global_ob_id
  BY <1>3 DEF Frames
<1>5. observers_[D!Top.d] \subseteq Nat /\ s_global_ob_id \in Nat  BY <1>4 DEF DispatcherInv, D!TypeOK
<1>6. /\ i \in observers_[D!Top.d] /\ i > D!Top.at
      /\ \A j \in observers_[D!Top.d] : j > D!Top.at => i <= j
  BY DEF D!Following
<1>7. /\ \A j \in D!Top.called : j <= D!Top.at
      /\ \A j \in D!Top.first \cap observers_[D!Top.d] : j <= D!Top.at => j \in D!Top.called
  BY <1>2 DEF DispatcherInv, D!FrameInv, D!Top
<1>. QED  BY <1>4, <1>5, <1>6, <1>7

LEMMA CallNextInv ==
  ASSUME DispatcherInv, D!CallNext
  PROVE  DispatcherInv'
<1>1. frames \in Seq(Frames) /\ frames # <<>>  BY DEF DispatcherInv, D!TypeOK, Frames, D!CallNext
<1>2. D!Depth \in DOMAIN frames /\ DOMAIN frames = 1..Len(frames)  BY <1>1 DEF D!Depth
<1>3. D!Top \in Frames  BY <1>1, <1>2 DEF D!Top
<1>4. PICK i \in D!Following(D!Top) :
        frames' = [frames EXCEPT ![D!Depth].at = i, ![D!Depth].called = @ \cup {i}]
  BY DEF D!CallNext
<1>5. i \in Nat
  <2>1. D!Top.d \in Dispatchers  BY <1>3 DEF Frames
  <2>2. i \in observers_[D!Top.d]  BY <1>4 DEF D!Following
  <2>. QED  BY <2>1, <2>2 DEF DispatcherInv, D!TypeOK
<1> DEFINE now == [D!Top EXCEPT !.at = i, !.called = @ \cup {i}]
<1>6. frames' = [frames EXCEPT ![D!Depth] = now]  BY <1>1, <1>2, <1>3, <1>4 DEF D!Top, Frames
<1>7. now \in Frames /\ now.at = i /\ now.called = D!Top.called \cup {i} /\ now.erased = D!Top.erased
      /\ now.first = D!Top.first /\ now.d = D!Top.d
  BY <1>3, <1>5 DEF Frames
<1> HIDE DEF now
<1>8. D!TypeOK'
  <2>1. frames' \in Seq(Frames)  BY <1>1, <1>2, <1>6, <1>7
  <2>. QED  BY <2>1 DEF DispatcherInv, D!TypeOK, D!CallNext, Frames
<1>9. D!FrameInv'
  <2>1. SUFFICES ASSUME NEW n \in DOMAIN frames, ~frames'[n].erased
                 PROVE  /\ \A j \in frames'[n].called : j <= frames'[n].at
                        /\ \A j \in frames'[n].first \cap observers_[frames'[n].d] :
                             j <= frames'[n].at => j \in frames'[n].called
    BY <1>6 DEF D!FrameInv, D!CallNext
  <2>2. CASE n # D!Depth
    <3>1. frames'[n] = frames[n]  BY <2>2, <1>6
    <3>. QED  BY <2>1, <3>1 DEF DispatcherInv, D!FrameInv
  <2>3. CASE n = D!Depth
    <3>1. frames'[n] = now  BY <2>3, <1>2, <1>6
    <3>2. ~D!Top.erased  BY <2>1, <3>1, <1>7
    <3>. QED  BY <3>1, <3>2, <1>1, <1>4, <1>5, <1>7, FollowingNext
  <2>. QED  BY <2>2, <2>3
<1>. QED  BY <1>8, <1>9 DEF DispatcherInv

LEMMA ReturnInv ==
  ASSUME DispatcherInv, D!Return
  PROVE  DispatcherInv'
<1>1. frames \in Seq(Frames) /\ frames # <<>>  BY DEF DispatcherInv, D!TypeOK, Frames, D!Return
<1>2. frames' = SubSeq(frames, 1, Len(frames) - 1) /\ Len(frames) \in Nat \ {0}
  BY <1>1 DEF D!Return, D!Depth
<1>3. frames' \in Seq(Frames) /\ \A n \in DOMAIN frames' : n \in DOMAIN frames /\ frames'[n] = frames[n]
  BY <1>1, <1>2
<1>4. D!TypeOK'  BY <1>3 DEF DispatcherInv, D!TypeOK, D!Return, Frames
<1>5. D!FrameInv'  BY <1>3 DEF DispatcherInv, D!FrameInv, D!Return
<1>. QED  BY <1>4, <1>5 DEF DispatcherInv

LEMMA ThrowsInv ==
  ASSUME DispatcherInv, D!Throws
  PROVE  DispatcherInv'
<1>1. frames \in Seq(Frames) /\ Len(frames) \in Nat  BY DEF DispatcherInv, D!TypeOK, Frames
<1>2. PICK n \in 0..(Len(frames) - 1) : frames' = SubSeq(frames, 1, n)  BY DEF D!Throws, D!Depth
<1>3. frames' \in Seq(Frames) /\ \A k \in DOMAIN frames' : k \in DOMAIN frames /\ frames'[k] = frames[k]
  BY <1>1, <1>2
<1>4. D!TypeOK'  BY <1>3 DEF DispatcherInv, D!TypeOK, D!Throws, Frames
<1>5. D!FrameInv'  BY <1>3 DEF DispatcherInv, D!FrameInv, D!Throws
<1>. QED  BY <1>4, <1>5 DEF DispatcherInv

LEMMA DispatcherStepInv == DispatcherInv /\ [D!Next]_(D!vars) => DispatcherInv'
<1> SUFFICES ASSUME DispatcherInv, [D!Next]_(D!vars) PROVE DispatcherInv'  OBVIOUS
<1>1. CASE UNCHANGED D!vars  BY <1>1 DEF D!vars, DispatcherInv, D!TypeOK, D!FrameInv
<1>2. ASSUME NEW d \in Dispatchers, D!register_observer(d) PROVE DispatcherInv'  BY <1>2, RegisterInv
<1>3. ASSUME NEW d \in Dispatchers, D!clear_observer(d) PROVE DispatcherInv'
  BY <1>3, RemoveInv DEF D!clear_observer
<1>4. ASSUME NEW d \in Dispatchers, NEW id \in 1..MaxId, D!unregister_observer(d, id)
      PROVE  DispatcherInv'
  BY <1>4, RemoveInv DEF D!unregister_observer
<1>5. ASSUME NEW d \in Dispatchers, D!dispatch(d) PROVE DispatcherInv'  BY <1>5, DispatchInv
<1>6. CASE D!CallNext  BY <1>6, CallNextInv
<1>7. CASE D!Return  BY <1>7, ReturnInv
<1>8. CASE D!Throws  BY <1>8, ThrowsInv
<1>. QED  BY <1>1, <1>2, <1>3, <1>4, <1>5, <1>6, <1>7, <1>8 DEF D!Next

\* The inductive invariant of the dispatcher: types, and of each dispatch under way
\* whose element was not erased, that all it has called and none it has passed
\* over lies behind it.
THEOREM DispatchCorrect == D!Spec => []DispatcherInv
<1>. QED  BY DispatcherInitInv, DispatcherStepInv, PTL DEF D!Spec

-----------------------------------------------------------------------------
\* One step that moves the innermost dispatch on calls one that was not called;
\* one that ends it without an exception has left none out.
LEMMA StepOnce ==
  ASSUME DispatcherInv, D!Next, frames # <<>>, ~D!Top.erased
  PROVE  /\ Len(frames') = D!Depth /\ frames'[D!Depth].at # D!Top.at =>
              frames'[D!Depth].at \notin D!Top.called
         /\ D!Return => D!Top.first \cap observers_[D!Top.d] \subseteq D!Top.called
<1>1. frames \in Seq(Frames)  BY DEF DispatcherInv, D!TypeOK, Frames
<1>2. D!Depth \in DOMAIN frames /\ DOMAIN frames = 1..D!Depth /\ D!Depth \in Nat  BY <1>1 DEF D!Depth
<1>3. D!Top \in Frames  BY <1>1, <1>2 DEF D!Top
<1>4. ASSUME NEW d \in Dispatchers, D!register_observer(d)
      PROVE  frames' = frames
  BY <1>4 DEF D!register_observer
<1>5. ASSUME NEW d \in Dispatchers, NEW ids, D!Remove(d, ids)
      PROVE  Len(frames') = D!Depth /\ frames'[D!Depth].at = D!Top.at
  <2>1. DOMAIN frames' = 1..D!Depth  BY <1>2, <1>5 DEF D!Remove
  <2>2. Len(frames') = D!Depth  BY <2>1, <1>2, <1>5 DEF D!Remove
  <2>3. \/ frames'[D!Depth] = D!Top
        \/ frames'[D!Depth] = [D!Top EXCEPT !.erased = TRUE]
    BY <1>2, <1>5 DEF D!Remove, D!Top
  <2>. QED  BY <2>2, <2>3, <1>3 DEF Frames
<1>6. ASSUME NEW d \in Dispatchers, D!dispatch(d)
      PROVE  Len(frames') = D!Depth + 1
  BY <1>1, <1>6 DEF D!dispatch, D!Depth
<1>7. ASSUME D!CallNext PROVE frames'[D!Depth].at \notin D!Top.called
  <2>1. PICK i \in D!Following(D!Top) :
          frames' = [frames EXCEPT ![D!Depth].at = i, ![D!Depth].called = @ \cup {i}]
    BY <1>7 DEF D!CallNext
  <2>2. i \notin D!Top.called  BY <2>1, FollowingNext
  <2>3. frames'[D!Depth].at = i  BY <2>1, <1>1, <1>2, <1>3 DEF D!Top, Frames
  <2>. QED  BY <2>2, <2>3
<1>8. CASE D!Return
  <2>1. D!Following(D!Top) = {}  BY <1>8 DEF D!Return
  <2>2. Len(frames') = D!Depth - 1  BY <1>1, <1>2, <1>8 DEF D!Return, D!Depth
  <2>3. D!Top.d \in Dispatchers /\ D!Top.at \in Nat  BY <1>3 DEF Frames
  <2> DEFINE after == {j \in observers_[D!Top.d] : j > D!Top.at}
  <2>4. after \in SUBSET Nat
    <3>1. observers_[D!Top.d] \subseteq 1..s_global_ob_id /\ s_global_ob_id \in Nat
      BY <2>3 DEF DispatcherInv, D!TypeOK
    <3>. QED  BY <3>1
  <2>5. after = {}
    <3>1. SUFFICES ASSUME after # {} PROVE FALSE  OBVIOUS
    <3> HIDE DEF after
    <3>2. PICK i \in after : \A j \in after : i <= j  BY <3>1, <2>4, LeastOf
    <3> USE DEF after
    <3>. QED  BY <3>2, <2>1 DEF D!Following
  <2>6. observers_[D!Top.d] \subseteq Nat  BY <2>3 DEF DispatcherInv, D!TypeOK
  <2>7. \A j \in observers_[D!Top.d] : j <= D!Top.at  BY <2>3, <2>5, <2>6
  <2>8. D!Top.first \cap observers_[D!Top.d] \subseteq D!Top.called
    BY <2>7, <1>2 DEF DispatcherInv, D!FrameInv, D!Top
  <2>. QED  BY <2>2, <2>8, <1>2
<1>9. ASSUME NEW d \in Dispatchers, D!clear_observer(d)
      PROVE  Len(frames') = D!Depth /\ frames'[D!Depth].at = D!Top.at
  BY <1>5, <1>9 DEF D!clear_observer
<1>10. ASSUME NEW d \in Dispatchers, NEW id \in 1..MaxId, D!unregister_observer(d, id)
       PROVE  Len(frames') = D!Depth /\ frames'[D!Depth].at = D!Top.at
  BY <1>5, <1>10 DEF D!unregister_observer
<1>11. frames' = frames => Len(frames') = D!Depth /\ frames'[D!Depth].at = D!Top.at  BY DEF D!Depth, D!Top
<1>12. ASSUME D!Throws PROVE Len(frames') # D!Depth
  <2>1. PICK n \in 0..(D!Depth - 1) : frames' = SubSeq(frames, 1, n)  BY <1>12 DEF D!Throws
  <2>. QED  BY <1>1, <1>2, <2>1
<1>. QED  BY <1>2, <1>4, <1>6, <1>7, <1>8, <1>9, <1>10, <1>11, <1>12 DEF D!Next

\* A dispatch, whatever its observers do short of removing the one being called, calls
\* none twice and, unless one throws, leaves out none of those it began with.
THEOREM EachOnceAlways == Spec => EachOnce
<1>1. [Next]_vars => [D!Next]_(D!vars)  BY DEF Next, vars, dispatcher, D!vars
<1>2. Init => DispatcherInv  BY DispatcherInitInv DEF Init
<1>3. DispatcherInv /\ [Next]_vars => DispatcherInv'  BY <1>1, DispatcherStepInv
<1>4. DispatcherInv /\ [Next]_vars =>
        [frames # <<>> /\ ~D!Top.erased =>
           /\ Len(frames') = D!Depth /\ frames'[D!Depth].at # D!Top.at =>
                frames'[D!Depth].at \notin D!Top.called
           /\ D!Return =>
                D!Top.first \cap observers_[D!Top.d] \subseteq D!Top.called]_(D!vars)
  BY <1>1, StepOnce
<1>. QED  BY <1>2, <1>3, <1>4, PTL DEF Spec, EachOnce, D!EachOnce

-----------------------------------------------------------------------------
ImageInv == I!TypeOK /\ I!SharedOpenly /\ I!CacheFresh

LEMMA ImageInitInv == I!Init => ImageInv
BY DEF I!Init, ImageInv, I!TypeOK, I!SharedOpenly, I!CacheFresh, I!Decode, I!Pixels, I!NoBytes

\* Pixels are written into new memory: what the other buffers and the program
\* have stays as it is, and the buffer shows them.
LEMMA ShowNewShows ==
  ASSUME None \notin Mats, ImageInv, NEW b \in Buffers, NEW p, I!ShowNew(b, p)
  PROVE  /\ image_' \in [Buffers -> Mats \cup {None}]
         /\ DOMAIN pixels' = Mats
         /\ shared' \subseteq Mats
         /\ \A c \in Buffers \ {b} : image_'[c] = image_[c] /\ I!Pixels(image_[c])' = I!Pixels(image_[c])
         /\ IF image_'[b] = None THEN p = None ELSE pixels'[image_'[b]] = p
         /\ mine # None => image_'[b] # mine
         /\ mine \in shared => mine \in shared'
<1>1. /\ image_ \in [Buffers -> Mats \cup {None}] /\ DOMAIN pixels = Mats
      /\ mine \in Mats \cup {None} /\ shared \subseteq Mats
  BY DEF ImageInv, I!TypeOK
<1>2. CASE p = None
  <2>1. image_' = [image_ EXCEPT ![b] = None] /\ pixels' = pixels /\ shared' = shared
    BY <1>2 DEF I!ShowNew, I!Show
  <2>. QED  BY <1>1, <1>2, <2>1 DEF I!Pixels
<1>3. CASE p # None
  <2>1. PICK m \in I!Free(b) :
          /\ image_' = [image_ EXCEPT ![b] = m] /\ pixels' = [pixels EXCEPT ![m] = p]
          /\ shared' = shared \ {m}
    BY <1>3 DEF I!ShowNew, I!Show
  <2>2. m \in Mats /\ m # mine /\ m # None /\ \A c \in Buffers \ {b} : image_[c] # m
    BY <2>1 DEF I!Free
  <2>3. \A c \in Buffers \ {b} : image_'[c] = image_[c]  BY <1>1, <2>1
  <2>4. \A c \in Buffers \ {b} : I!Pixels(image_[c])' = I!Pixels(image_[c])
    BY <1>1, <2>1, <2>2, <2>3 DEF I!Pixels
  <2>5. image_'[b] = m /\ pixels'[m] = p  BY <1>1, <2>1, <2>2
  <2>6. image_' \in [Buffers -> Mats \cup {None}] /\ DOMAIN pixels' = Mats  BY <1>1, <2>1, <2>2
  <2>. QED  BY <1>1, <2>1, <2>2, <2>3, <2>4, <2>5, <2>6
<1>. QED  BY <1>2, <1>3

\* What an operation on b must see to, if it leaves the other buffers and the
\* program alone.
LEMMA OnOneBuffer ==
  ASSUME ImageInv, NEW b \in Buffers, UNCHANGED mine,
         image_' \in [Buffers -> Mats \cup {None}], DOMAIN pixels' = Mats, shared' \subseteq Mats,
         \A c \in Buffers \ {b} : image_'[c] = image_[c] /\ I!Pixels(image_[c])' = I!Pixels(image_[c]),
         mine # None /\ image_'[b] = mine => mine \in shared',
         mine \in shared => mine \in shared',
         NEW is \in BOOLEAN, dirty_' = [dirty_ EXCEPT ![b] = is],
         NEW bytes, encoded_cache_' = [encoded_cache_ EXCEPT ![b] = bytes],
         NEW late \in BOOLEAN, behind' = IF late THEN behind \cup {b} ELSE behind \ {b},
         ~is /\ ~late => I!Decode(bytes) = I!Pixels(image_[b])'
  PROVE  ImageInv'
<1>1. /\ image_ \in [Buffers -> Mats \cup {None}] /\ dirty_ \in [Buffers -> BOOLEAN]
      /\ encoded_cache_ = [c \in Buffers |-> encoded_cache_[c]] /\ behind \subseteq Buffers
      /\ mine \in Mats \cup {None}
  BY DEF ImageInv, I!TypeOK
<1>2. dirty_' \in [Buffers -> BOOLEAN]  BY <1>1
<1>3. encoded_cache_' = [c \in Buffers |-> encoded_cache_'[c]]  BY <1>1
<1>4. I!TypeOK'  BY <1>1, <1>2, <1>3 DEF I!TypeOK
<1>5. I!SharedOpenly'  BY DEF ImageInv, I!SharedOpenly
<1>6. I!CacheFresh'
  <2>1. SUFFICES ASSUME NEW c \in Buffers, ~dirty_'[c], c \notin behind'
                 PROVE  I!Decode(encoded_cache_'[c]) = I!Pixels(image_[c])'
    BY DEF I!CacheFresh, I!Decode
  <2>2. CASE c = b
    <3>1. encoded_cache_'[b] = bytes /\ dirty_'[b] = is  BY <1>1
    <3>. QED  BY <2>1, <2>2, <3>1
  <2>3. CASE c # b
    <3>1. encoded_cache_'[c] = encoded_cache_[c] /\ dirty_'[c] = dirty_[c] /\ c \notin behind
      BY <1>1, <2>1, <2>3
    <3>. QED  BY <2>1, <2>3, <3>1 DEF ImageInv, I!CacheFresh
  <2>. QED  BY <2>2, <2>3
<1>. QED  BY <1>4, <1>5, <1>6 DEF ImageInv

LEMMA NoBytesMeanNone == I!Decode(I!NoBytes) = None
BY DEF I!Decode

LEMMA BytesMean == \A p : <<p>> # I!NoBytes /\ I!Decode(<<p>>) = p
BY DEF I!Decode, I!NoBytes

-----------------------------------------------------------------------------
LEMMA ConstructInv ==
  ASSUME ImageInv, NEW b \in Buffers, I!Construct(b)
  PROVE  ImageInv'
<1>1. /\ image_ \in [Buffers -> Mats \cup {None}] /\ mine \in Mats \cup {None}
      /\ DOMAIN pixels = Mats /\ shared \subseteq Mats
  BY DEF ImageInv, I!TypeOK
<1>2. /\ image_' = [image_ EXCEPT ![b] = mine] /\ shared' = shared \cup ({mine} \ {None})
      /\ dirty_' = [dirty_ EXCEPT ![b] = TRUE] /\ behind' = behind \ {b}
      /\ encoded_cache_' = [encoded_cache_ EXCEPT ![b] = I!NoBytes]
      /\ UNCHANGED <<pixels, mine>>
  BY DEF I!Construct, I!Show, I!Dirty
<1>3. \A c \in Buffers \ {b} : image_'[c] = image_[c] /\ I!Pixels(image_[c])' = I!Pixels(image_[c])
  BY <1>1, <1>2 DEF I!Pixels
<1>4. image_' \in [Buffers -> Mats \cup {None}] /\ shared' \subseteq Mats  BY <1>1, <1>2
<1>5. behind' = IF FALSE THEN behind \cup {b} ELSE behind \ {b}  BY <1>2
<1>6. DOMAIN pixels' = Mats  BY <1>1, <1>2
<1>7. mine # None /\ image_'[b] = mine => mine \in shared'  BY <1>2
<1>8. mine \in shared => mine \in shared'  BY <1>2
<1>. QED  BY <1>2, <1>3, <1>4, <1>5, <1>6, <1>7, <1>8, OnOneBuffer

LEMMA CopyInv ==
  ASSUME ImageInv, NEW b \in Buffers, NEW c \in Buffers, I!Copy(b, c)
  PROVE  ImageInv'
<1>1. /\ image_ \in [Buffers -> Mats \cup {None}] /\ mine \in Mats \cup {None}
      /\ DOMAIN pixels = Mats /\ shared \subseteq Mats /\ dirty_ \in [Buffers -> BOOLEAN]
  BY DEF ImageInv, I!TypeOK
<1>2. /\ b # c
      /\ image_' = [image_ EXCEPT ![b] = image_[c]]
      /\ dirty_' = [dirty_ EXCEPT ![b] = dirty_[c]]
      /\ encoded_cache_' = [encoded_cache_ EXCEPT ![b] = encoded_cache_[c]]
      /\ behind' = IF c \in behind THEN behind \cup {b} ELSE behind \ {b}
      /\ UNCHANGED <<pixels, mine, shared>>
  BY DEF I!Copy, I!Show
<1>3. \A e \in Buffers \ {b} : image_'[e] = image_[e] /\ I!Pixels(image_[e])' = I!Pixels(image_[e])
  BY <1>1, <1>2 DEF I!Pixels
<1>4. image_'[b] = image_[c] /\ I!Pixels(image_[b])' = I!Pixels(image_[c])
  BY <1>1, <1>2 DEF I!Pixels
<1>5. ~dirty_[c] /\ c \notin behind => I!Decode(encoded_cache_[c]) = I!Pixels(image_[b])'
  BY <1>4 DEF ImageInv, I!CacheFresh
<1>6. mine # None /\ image_'[b] = mine => mine \in shared'  BY <1>2, <1>4 DEF ImageInv, I!SharedOpenly
<1>7. image_' \in [Buffers -> Mats \cup {None}] /\ dirty_[c] \in BOOLEAN  BY <1>1, <1>2
<1>8. DOMAIN pixels' = Mats /\ shared' \subseteq Mats /\ (mine \in shared => mine \in shared')
  BY <1>1, <1>2
<1> DEFINE late == c \in behind
<1>9. late \in BOOLEAN /\ behind' = IF late THEN behind \cup {b} ELSE behind \ {b}  BY <1>2
<1>10. ~dirty_[c] /\ ~late => I!Decode(encoded_cache_[c]) = I!Pixels(image_[b])'  BY <1>5
<1> HIDE DEF late
<1>. QED  BY <1>2, <1>3, <1>6, <1>7, <1>8, <1>9, <1>10, OnOneBuffer

LEMMA ClearInv ==
  ASSUME ImageInv, NEW b \in Buffers, I!clear(b)
  PROVE  ImageInv'
<1>1. /\ image_ \in [Buffers -> Mats \cup {None}] /\ mine \in Mats \cup {None}
      /\ DOMAIN pixels = Mats /\ shared \subseteq Mats /\ dirty_ \in [Buffers -> BOOLEAN]
  BY DEF ImageInv, I!TypeOK
<1>2. /\ image_' = [image_ EXCEPT ![b] = None]
      /\ dirty_' = [dirty_ EXCEPT ![b] = dirty_[b]] /\ behind' = behind \ {b}
      /\ encoded_cache_' = [encoded_cache_ EXCEPT ![b] = I!NoBytes]
      /\ UNCHANGED <<pixels, mine, shared>>
  BY DEF I!clear, I!Show, I!Dirty
<1>3. \A c \in Buffers \ {b} : image_'[c] = image_[c] /\ I!Pixels(image_[c])' = I!Pixels(image_[c])
  BY <1>1, <1>2 DEF I!Pixels
<1>4. image_'[b] = None  BY <1>1, <1>2
<1>5. I!Decode(I!NoBytes) = I!Pixels(image_[b])'  BY <1>4, NoBytesMeanNone DEF I!Pixels
<1>6. image_' \in [Buffers -> Mats \cup {None}] /\ dirty_[b] \in BOOLEAN  BY <1>1, <1>2
<1>7. DOMAIN pixels' = Mats /\ shared' \subseteq Mats /\ (mine \in shared => mine \in shared')
  BY <1>1, <1>2
<1>8. behind' = IF FALSE THEN behind \cup {b} ELSE behind \ {b}  BY <1>2
<1>. QED  BY <1>2, <1>3, <1>4, <1>5, <1>6, <1>7, <1>8, OnOneBuffer

LEMMA SetInv ==
  ASSUME None \notin Mats, ImageInv, NEW b \in Buffers, I!set(b)
  PROVE  ImageInv'
<1>1. /\ dirty_' = [dirty_ EXCEPT ![b] = TRUE] /\ behind' = behind \ {b}
      /\ UNCHANGED <<encoded_cache_, mine>> /\ I!ShowNew(b, I!Pixels(mine))
  BY DEF I!set, I!Dirty
<1>2. encoded_cache_' = [encoded_cache_ EXCEPT ![b] = encoded_cache_[b]]
  BY <1>1 DEF ImageInv, I!TypeOK
<1>3. behind' = IF FALSE THEN behind \cup {b} ELSE behind \ {b}  BY <1>1
<1>. QED  BY <1>1, <1>2, <1>3, ShowNewShows, OnOneBuffer

LEMMA FromEncodedInv ==
  ASSUME None \notin Mats, ImageInv, NEW b \in Buffers, NEW bytes, I!from_encoded(b, bytes)
  PROVE  ImageInv'
<1>1. /\ dirty_' = [dirty_ EXCEPT ![b] = FALSE] /\ behind' = behind \ {b}
      /\ encoded_cache_' = [encoded_cache_ EXCEPT ![b] = bytes]
      /\ UNCHANGED mine /\ I!ShowNew(b, I!Decode(bytes))
  BY DEF I!from_encoded, I!Dirty
<1>2. I!Decode(bytes) = I!Pixels(image_[b])'  BY <1>1, ShowNewShows DEF I!Pixels
<1>3. behind' = IF FALSE THEN behind \cup {b} ELSE behind \ {b}  BY <1>1
<1>. QED  BY <1>1, <1>2, <1>3, ShowNewShows, OnOneBuffer

LEMMA ResizeInv ==
  ASSUME None \notin Mats, ImageInv, NEW b \in Buffers, NEW size, I!resize(b, size)
  PROVE  ImageInv'
<1>1. /\ dirty_' = [dirty_ EXCEPT ![b] = TRUE] /\ behind' = behind \ {b}
      /\ UNCHANGED <<encoded_cache_, mine>>
  BY DEF I!resize, I!Dirty
<1>2. encoded_cache_' = [encoded_cache_ EXCEPT ![b] = encoded_cache_[b]]
  BY <1>1 DEF ImageInv, I!TypeOK
<1>3. behind' = IF FALSE THEN behind \cup {b} ELSE behind \ {b}  BY <1>1
<1>4. CASE UNCHANGED <<image_, pixels, shared>>
  <2>1. \A c \in Buffers \ {b} : image_'[c] = image_[c] /\ I!Pixels(image_[c])' = I!Pixels(image_[c])
    BY <1>4 DEF I!Pixels
  <2>2. /\ image_' \in [Buffers -> Mats \cup {None}] /\ DOMAIN pixels' = Mats
        /\ shared' \subseteq Mats /\ (mine \in shared => mine \in shared')
    BY <1>4 DEF ImageInv, I!TypeOK
  <2>3. mine # None /\ image_'[b] = mine => mine \in shared'  BY <1>4 DEF ImageInv, I!SharedOpenly
  <2>. QED  BY <1>1, <1>2, <1>3, <2>1, <2>2, <2>3, OnOneBuffer
<1>5. CASE I!ShowNew(b, <<I!Pixels(image_[b])[1], size>>)
  BY <1>1, <1>2, <1>3, <1>5, ShowNewShows, OnOneBuffer
<1>. QED  BY <1>4, <1>5 DEF I!resize

LEMMA EncodeInv ==
  ASSUME ImageInv, NEW b \in Buffers, I!encode(b)
  PROVE  ImageInv'
<1> DEFINE bytes == IF I!empty(b) THEN I!NoBytes ELSE <<I!Pixels(image_[b])>>
<1>1. /\ dirty_' = [dirty_ EXCEPT ![b] = FALSE] /\ behind' = behind \ {b}
      /\ encoded_cache_' = [encoded_cache_ EXCEPT ![b] = bytes]
      /\ UNCHANGED <<image_, pixels, mine, shared>>
  BY DEF I!encode, I!Dirty
<1>2. I!Decode(bytes) = I!Pixels(image_[b])'
  <2>1. I!Decode(bytes) = I!Pixels(image_[b])  BY NoBytesMeanNone, BytesMean DEF I!empty, I!Pixels
  <2>. QED  BY <1>1, <2>1 DEF I!Pixels
<1>3. \A c \in Buffers \ {b} : image_'[c] = image_[c] /\ I!Pixels(image_[c])' = I!Pixels(image_[c])
  BY <1>1 DEF I!Pixels
<1>4. /\ image_' \in [Buffers -> Mats \cup {None}] /\ DOMAIN pixels' = Mats
      /\ shared' \subseteq Mats /\ (mine \in shared => mine \in shared')
  BY <1>1 DEF ImageInv, I!TypeOK
<1>5. mine # None /\ image_'[b] = mine => mine \in shared'  BY <1>1 DEF ImageInv, I!SharedOpenly
<1>6. behind' = IF FALSE THEN behind \cup {b} ELSE behind \ {b}  BY <1>1
<1> HIDE DEF bytes
<1>. QED  BY <1>1, <1>2, <1>3, <1>4, <1>5, <1>6, OnOneBuffer

\* The program takes over the Mat of a buffer.
LEMMA GetInv ==
  ASSUME ImageInv, NEW b \in Buffers, I!get(b)
  PROVE  ImageInv'
<1>1. /\ mine' = image_[b] /\ shared' = shared \cup ({image_[b]} \ {None})
      /\ UNCHANGED <<image_, dirty_, encoded_cache_, pixels, behind>>
  BY DEF I!get
<1>2. I!TypeOK'  BY <1>1 DEF ImageInv, I!TypeOK
<1>3. I!SharedOpenly'  BY <1>1 DEF I!SharedOpenly
<1>4. I!CacheFresh'  BY <1>1 DEF ImageInv, I!CacheFresh, I!Pixels, I!Decode
<1>. QED  BY <1>2, <1>3, <1>4 DEF ImageInv

LEMMA MakeInv ==
  ASSUME None \notin Mats, ImageInv, NEW p, I!Make(p)
  PROVE  ImageInv'
<1>1. PICK m \in Mats :
        /\ \A b \in Buffers : image_[b] # m
        /\ mine' = m /\ pixels' = [pixels EXCEPT ![m] = p] /\ shared' = shared \ {m}
  BY DEF I!Make
<1>2. UNCHANGED <<image_, dirty_, encoded_cache_, behind>>  BY DEF I!Make
<1>3. I!TypeOK'  BY <1>1, <1>2 DEF ImageInv, I!TypeOK
<1>4. I!SharedOpenly'  BY <1>1, <1>2 DEF I!SharedOpenly
<1>5. \A b \in Buffers : I!Pixels(image_[b])' = I!Pixels(image_[b])
  BY <1>1, <1>2 DEF ImageInv, I!TypeOK, I!Pixels
<1>6. I!CacheFresh'  BY <1>2, <1>5 DEF ImageInv, I!CacheFresh, I!Decode
<1>. QED  BY <1>3, <1>4, <1>6 DEF ImageInv

\* The program writes into its Mat: the buffers that have it got it openly.
LEMMA MatWriteInv ==
  ASSUME None \notin Mats, ImageInv, NEW picture, I!Write(picture)
  PROVE  ImageInv'
<1>1. /\ mine # None
      /\ pixels' = [pixels EXCEPT ![mine] = <<picture, @[2]>>]
      /\ behind' = IF mine \in shared
                   THEN behind \cup {b \in Buffers : image_[b] = mine /\ ~dirty_[b]} ELSE behind
      /\ UNCHANGED <<image_, dirty_, encoded_cache_, mine, shared>>
  BY DEF I!Write
<1>2. I!TypeOK'  BY <1>1 DEF ImageInv, I!TypeOK
<1>3. I!SharedOpenly'  BY <1>1 DEF ImageInv, I!SharedOpenly
<1>4. I!CacheFresh'
  <2>1. SUFFICES ASSUME NEW b \in Buffers, ~dirty_[b], b \notin behind'
                 PROVE  I!Decode(encoded_cache_[b]) = I!Pixels(image_[b])'
    BY <1>1 DEF I!CacheFresh, I!Decode
  <2>2. image_[b] # mine /\ b \notin behind  BY <1>1, <2>1 DEF ImageInv, I!SharedOpenly
  <2>3. I!Pixels(image_[b])' = I!Pixels(image_[b])  BY <1>1, <2>2 DEF ImageInv, I!TypeOK, I!Pixels
  <2>. QED  BY <2>1, <2>2, <2>3 DEF ImageInv, I!CacheFresh
<1>. QED  BY <1>2, <1>3, <1>4 DEF ImageInv

-----------------------------------------------------------------------------
LEMMA ImageStepInv ==
  ASSUME None \notin Mats, ImageInv, [I!Next]_(I!vars)
  PROVE  ImageInv'
<1>1. CASE UNCHANGED I!vars
  BY <1>1 DEF I!vars, ImageInv, I!TypeOK, I!SharedOpenly, I!CacheFresh, I!Pixels, I!Decode
<1>2. ASSUME NEW b \in Buffers, I!Construct(b) \/ I!clear(b) \/ I!get(b) \/ I!set(b) \/ I!encode(b)
      PROVE  ImageInv'
  BY <1>2, ConstructInv, ClearInv, GetInv, SetInv, EncodeInv
<1>3. ASSUME NEW b \in Buffers, NEW c \in Buffers, I!Copy(b, c) PROVE ImageInv'  BY <1>3, CopyInv
<1>4. ASSUME NEW b \in Buffers, NEW bytes, I!from_encoded(b, bytes) PROVE ImageInv'
  BY <1>4, FromEncodedInv
<1>5. ASSUME NEW b \in Buffers, NEW size, I!resize(b, size) PROVE ImageInv'  BY <1>5, ResizeInv
<1>6. ASSUME NEW picture, I!Write(picture) PROVE ImageInv'  BY <1>6, MatWriteInv
<1>7. ASSUME NEW p, I!Make(p) PROVE ImageInv'  BY <1>7, MakeInv
<1>. QED  BY <1>1, <1>2, <1>3, <1>4, <1>5, <1>6, <1>7 DEF I!Next

\* The inductive invariant of the buffers: types, that a Mat which the program and
\* a buffer both have was handed over, and that the caches are fresh.
THEOREM BuffersCorrect ==
  ASSUME None \notin Mats
  PROVE  I!Spec => []ImageInv
<1>1. ImageInv /\ [I!Next]_(I!vars) => ImageInv'  BY ImageStepInv
<1>. QED  BY <1>1, ImageInitInv, PTL DEF I!Spec

\* What encoded() hands out without encoding decodes to the image, unless the program
\* has written into pixels that it shares with the buffer.
THEOREM CacheFreshAlways ==
  ASSUME None \notin Mats
  PROVE  Spec => []CacheFresh
<1>1. ImageInv /\ [Next]_vars => ImageInv'
  <2>1. [Next]_vars => [I!Next]_(I!vars)  BY DEF Next, vars, image, I!vars
  <2>. QED  BY <2>1, ImageStepInv
<1>2. Init => ImageInv  BY ImageInitInv DEF Init
<1>3. ImageInv => CacheFresh  BY DEF ImageInv, CacheFresh
<1>. QED  BY <1>1, <1>2, <1>3, PTL DEF Spec

-----------------------------------------------------------------------------
\* The parts of the inductive invariant. The files by name, and the assets left.
FilesTyped ==
  /\ release = [n \in G!Names |-> release[n]]
  /\ been = [n \in G!Names |-> been[n]]
  /\ tarball = [n \in G!Names |-> tarball[n]]
  /\ deps = [part \in G!Parts |-> deps[part]]
  /\ assets \in Seq(G!Names)

\* A download has queried the release and is not at its end.
Downloading == pc \notin {"idle", "query"} /\ job # "extract"

AtWork ==
  /\ pc \in {"fetch", "unpack", "unpacking", "record", "recording"} => assets # <<>>
  /\ pc \in {"record", "recording"} => job = "cached" /\ G!Digest(queried[G!Name]) # None
  /\ pc = "recording" => cache = Torn
  /\ orderly /\ pc # "idle" => job = "cached"
  /\ Downloading => G!Range(assets) \subseteq G!Range(G!Chosen(queried))

\* What did not change is as this run knows it, ...
QueriedNow == Downloading => \A n \in G!Names \ changed : queried[n] = release[n]

\* ... the run unpacks that ...
FileIsQueried ==
  Downloading /\ pc \in {"unpack", "unpacking"} /\ G!Name \notin changed =>
    tarball[G!Name] = queried[G!Name]

\* ... and has it installed before it is recorded.
WorkInstalled ==
  pc \in {"record", "recording"} /\ G!Name \notin changed => G!Installed(G!Name, queried[G!Name])

StepsInv == FilesTyped /\ AtWork /\ QueriedNow /\ FileIsQueried /\ WorkInstalled

\* The record, which is in memory while the file is written, ...
Books == IF pc = "recording" THEN caches ELSE IF G!Readable THEN cache ELSE <<>>

\* ... and what it would make a download of these files pass over.
Vouched(n, files) ==
  /\ n = "single" \/ files["single"] = None
  /\ n \in DOMAIN Books /\ Books[n] = G!Digest(files[n])

\* What an orderly use has seen: nothing on the server comes back, ...
Known ==
  /\ \A n \in G!Names : release[n] \in been[n]
  /\ Downloading => \A n \in G!Names : queried[n] \in been[n]
  /\ Downloading => \A n \in G!Names \cap changed : release[n] # queried[n]

\* ... the record is of what was there, one of the pair while there was no single, ...
Booked ==
  \A n \in DOMAIN Books :
    /\ n \in G!Names /\ Books[n] \in been[n] /\ Books[n] # None
    /\ n = "single" \/ None \in been["single"]

\* ... what it would be trusted for is installed ...
VouchedBefore ==
  ~Downloading => \A n \in G!Names : Vouched(n, release) => G!Installed(n, release[n])
VouchedNow ==
  Downloading => \A n \in G!Names \ changed : Vouched(n, queried) => G!Installed(n, queried[n])

\* ... that no later release than the queried one makes the record trusted, ...
VouchedLater ==
  Downloading => \A n \in G!Names : Vouched(n, release) => n \notin changed /\ Vouched(n, queried)

\* ... and only what it would not be trusted for is unpacked.
Unvouched ==
  Downloading /\ pc \in {"fetch", "unpack", "unpacking"} => ~Vouched(G!Name, queried)

VouchingInv == Known /\ Booked /\ VouchedBefore /\ VouchedNow /\ VouchedLater /\ Unvouched

\* The assets behind this run are installed.
Done ==
  Downloading /\ (job = "uncached" \/ orderly) =>
    \A n \in G!Range(G!Chosen(queried)) \ G!Range(assets) :
      n \notin changed => G!Installed(n, queried[n])

DownloadInv == StepsInv /\ (orderly => VouchingInv) /\ Done

-----------------------------------------------------------------------------
LEMMA ChosenNames == \A files : G!Chosen(files) \in Seq(G!Names)
<1>1. <<"single">> \in Seq(G!Names)  BY DEF G!Names
<1>2. <<"devel", "runtime">> \in Seq(G!Names)  BY DEF G!Names
<1>3. <<>> \in Seq(G!Names)  OBVIOUS
<1>. QED  BY <1>1, <1>2, <1>3 DEF G!Chosen

\* The single asset is chosen exactly if there is one.
LEMMA ChosenKind ==
  \A files : \A n \in G!Range(G!Chosen(files)) :
    n \in G!Names /\ (n = "single" <=> files["single"] # None)
BY DEF G!Chosen, G!Range, G!Names

\* The digest of a content is its own, and there is none of no file.
LEMMA DigestIs == /\ \A c : G!Digest(c) # None => G!Digest(c) = c
                  /\ G!Digest(None) = None
BY DEF G!Digest

LEMMA RangeTail ==
  ASSUME NEW S, NEW s \in Seq(S), s # <<>>
  PROVE  /\ G!Range(s) \subseteq G!Range(Tail(s)) \cup {Head(s)} /\ Head(s) \in G!Range(s)
         /\ G!Range(Tail(s)) \subseteq G!Range(s) /\ Tail(s) \in Seq(S) /\ Head(s) \in S
<1>1. ASSUME NEW i \in DOMAIN s
      PROVE  s[i] \in G!Range(Tail(s)) \cup {Head(s)}
  <2>1. CASE i = 1  BY <2>1
  <2>2. CASE i # 1
    <3>1. i - 1 \in DOMAIN Tail(s) /\ Tail(s)[i - 1] = s[i]  BY <2>2
    <3>. QED  BY <3>1 DEF G!Range
  <2>. QED  BY <2>1, <2>2
<1>2. ASSUME NEW i \in DOMAIN Tail(s)
      PROVE  Tail(s)[i] \in G!Range(s)
  <2>1. i + 1 \in DOMAIN s /\ Tail(s)[i] = s[i + 1]  OBVIOUS
  <2>. QED  BY <2>1 DEF G!Range
<1>. QED  BY <1>1, <1>2 DEF G!Range

\* The asset at work is one that the run chose.
LEMMA NameChosen ==
  ASSUME StepsInv, assets # <<>>
  PROVE  /\ G!Name \in G!Names /\ G!Name \in G!Range(assets)
         /\ Downloading => /\ G!Name \in G!Range(G!Chosen(queried))
                           /\ G!Name = "single" <=> queried["single"] # None
<1>1. G!Name \in G!Names /\ G!Name \in G!Range(assets)
  BY RangeTail DEF StepsInv, FilesTyped, G!Name
<1>2. Downloading => G!Name \in G!Range(G!Chosen(queried))  BY <1>1 DEF StepsInv, AtWork
<1>. QED  BY <1>1, <1>2, ChosenKind

\* What is unpacked fills its places and leaves those of the other half alone.
LEMMA PutPuts ==
  ASSUME NEW c, deps' = G!Put(c), deps = [part \in G!Parts |-> deps[part]], G!Name \in G!Names
  PROVE  /\ deps' = [part \in G!Parts |-> deps'[part]]
         /\ \A part \in G!Places(G!Name) : deps'[part] = <<G!Name, c>>
         /\ \A n \in G!Names : \A x :
              n # G!Name /\ n # "single" /\ G!Name # "single" /\ G!Installed(n, x) => G!Installed(n, x)'
<1>1. \A part \in G!Parts : deps'[part] = IF part \in G!Places(G!Name) THEN <<G!Name, c>> ELSE deps[part]
  BY DEF G!Put
<1>2. G!Places(G!Name) \subseteq G!Parts  BY DEF G!Places, G!Parts, G!Names
<1>3. ASSUME NEW n \in G!Names, NEW x, n # G!Name, n # "single", G!Name # "single", G!Installed(n, x)
      PROVE  G!Installed(n, x)'
  <2>1. n \in G!Parts /\ n \notin G!Places(G!Name) /\ G!Places(n) = {n}  BY <1>3 DEF G!Places, G!Parts, G!Names
  <2>. QED  BY <1>1, <1>3, <2>1 DEF G!Installed
<1>. QED  BY <1>1, <1>2, <1>3 DEF G!Put

LEMMA DownloadInitInv == G!Init => DownloadInv
<1> SUFFICES ASSUME G!Init PROVE DownloadInv  OBVIOUS
<1>1. release = [n \in G!Names |-> release[n]] /\ been = [n \in G!Names |-> {release[n]}]
  BY DEF G!Init
<1>2. StepsInv
  BY <1>1 DEF G!Init, G!Nothing, StepsInv, FilesTyped, AtWork, Downloading, QueriedNow, FileIsQueried, WorkInstalled
<1>3. Books = <<>>  BY DEF G!Init, Books, G!Readable
<1>4. VouchingInv
  BY <1>1, <1>3 DEF G!Init, VouchingInv, Known, Booked, VouchedBefore, VouchedNow, VouchedLater,
                    Unvouched, Vouched, Downloading
<1>. QED  BY <1>2, <1>4 DEF G!Init, DownloadInv, Done, Downloading

\* While nothing is unpacked, and the record and the release are left alone.
LEMMA VouchingLeft ==
  ASSUME VouchingInv, Downloading' = Downloading, Books' = Books,
         UNCHANGED <<release, deps, been, changed, queried>>, Unvouched'
  PROVE  VouchingInv'
BY DEF VouchingInv, Known, Booked, VouchedBefore, VouchedNow, VouchedLater, Vouched, G!Installed

-----------------------------------------------------------------------------
LEMMA StartInv ==
  ASSUME DownloadInv, NEW j \in {"cached", "uncached", "extract"}, G!Start(j)
  PROVE  DownloadInv'
<1>1. /\ pc = "idle" /\ pc' = (IF j = "extract" THEN "asset" ELSE "query") /\ job' = j
      /\ assets' \in Seq(G!Names) /\ orderly' = (orderly /\ j = "cached")
      /\ UNCHANGED <<release, tarball, deps, cache, queried, caches, changed, been>>
  BY ChosenNames DEF G!Start, G!Archives, G!Goto, G!disk
<1>2. ~Downloading /\ ~Downloading'  BY <1>1 DEF Downloading
<1>3. StepsInv'
  BY <1>1, <1>2 DEF DownloadInv, StepsInv, FilesTyped, AtWork, QueriedNow, FileIsQueried, WorkInstalled
<1>4. Books' = Books  BY <1>1 DEF Books, G!Readable
<1>5. ASSUME orderly' PROVE VouchingInv'
  <2>1. VouchingInv  BY <1>1, <1>5 DEF DownloadInv
  <2>2. Downloading' = Downloading /\ Unvouched'  BY <1>2 DEF Downloading, Unvouched
  <2>. QED  BY <1>1, <1>4, <2>1, <2>2, VouchingLeft
<1>6. Done'  BY <1>2 DEF Done
<1>. QED  BY <1>3, <1>5, <1>6 DEF DownloadInv

\* What a run that ends leaves, wherever it was.
LEMMA EndInv == ASSUME DownloadInv, G!End PROVE DownloadInv'
<1>1. /\ pc' = "idle" /\ assets' = <<>> /\ changed' = {}
      /\ UNCHANGED <<release, tarball, deps, cache, been, orderly>>
  BY DEF G!End, G!disk
<1>2. ~Downloading'  BY <1>1 DEF Downloading
<1>3. StepsInv'
  BY <1>1, <1>2 DEF DownloadInv, StepsInv, FilesTyped, AtWork, QueriedNow, FileIsQueried, WorkInstalled
<1>4. Books' = Books \/ Books' = <<>>
  BY <1>1 DEF DownloadInv, StepsInv, AtWork, Books, G!Readable
<1>5. ASSUME orderly PROVE VouchingInv'
  <2>1. VouchingInv  BY <1>5 DEF DownloadInv
  <2>2. Known' /\ Booked'  BY <1>1, <1>2, <1>4, <2>1 DEF VouchingInv, Known, Booked
  <2>3. ASSUME NEW n \in G!Names, Vouched(n, release)' PROVE G!Installed(n, release[n])'
    <3>1. Vouched(n, release)  BY <1>1, <1>4, <2>3 DEF Vouched
    <3>2. CASE ~Downloading  BY <1>1, <2>1, <3>1, <3>2 DEF VouchingInv, VouchedBefore, G!Installed
    <3>3. CASE Downloading
      <4>1. n \notin changed /\ Vouched(n, queried)  BY <2>1, <3>1, <3>3 DEF VouchingInv, VouchedLater
      <4>2. queried[n] = release[n]  BY <3>3, <4>1 DEF DownloadInv, StepsInv, QueriedNow
      <4>. QED  BY <1>1, <2>1, <3>3, <4>1, <4>2 DEF VouchingInv, VouchedNow, G!Installed
    <3>. QED  BY <3>2, <3>3
  <2>. QED  BY <1>2, <2>2, <2>3 DEF VouchingInv, VouchedBefore, VouchedNow, VouchedLater, Unvouched
<1>6. Done'  BY <1>2 DEF Done
<1>. QED  BY <1>1, <1>3, <1>5, <1>6 DEF DownloadInv

LEMMA QueryInv == ASSUME DownloadInv, G!Query PROVE DownloadInv'
<1>1. /\ pc = "query" /\ pc' = "asset" /\ queried' = release /\ changed' = {}
      /\ assets' = G!Chosen(release) /\ assets' \in Seq(G!Names)
      /\ UNCHANGED <<release, tarball, deps, cache, job, caches, been, orderly>>
  BY ChosenNames DEF G!Query, G!Goto, G!disk
<1>2. ~Downloading  BY <1>1 DEF Downloading
<1>3. StepsInv'
  BY <1>1 DEF DownloadInv, StepsInv, FilesTyped, AtWork, QueriedNow, FileIsQueried, WorkInstalled
<1>4. Books' = Books  BY <1>1 DEF Books, G!Readable
<1>5. ASSUME orderly PROVE VouchingInv'
  <2>1. Downloading'  BY <1>1, <1>5 DEF DownloadInv, StepsInv, AtWork, Downloading
  <2>. QED
    BY <1>1, <1>2, <1>4, <1>5, <2>1
    DEF DownloadInv, VouchingInv, Known, Booked, VouchedBefore, VouchedNow, VouchedLater, Unvouched,
        Vouched, G!Installed
<1>6. Done'  BY <1>1 DEF Done
<1>. QED  BY <1>1, <1>3, <1>5, <1>6 DEF DownloadInv

\* What is passed over is installed, if use was orderly.
LEMMA UseCachedInv == ASSUME DownloadInv, G!UseCached PROVE DownloadInv'
<1>1. /\ pc = "asset" /\ pc' = "asset" /\ assets # <<>> /\ assets' = Tail(assets)
      /\ job = "cached" /\ job' = job
      /\ UNCHANGED <<release, tarball, deps, cache, queried, caches, changed, been, orderly>>
  BY DEF G!UseCached, G!check_asset_cache, G!disk, G!history
<1>2. Downloading /\ Downloading'  BY <1>1 DEF Downloading
<1>3. /\ assets' \in Seq(G!Names) /\ G!Range(assets') \subseteq G!Range(assets)
      /\ G!Range(assets) \subseteq G!Range(assets') \cup {G!Name}
  BY <1>1, RangeTail DEF DownloadInv, StepsInv, FilesTyped, G!Name
<1>4. StepsInv'
  BY <1>1, <1>2, <1>3 DEF DownloadInv, StepsInv, FilesTyped, AtWork, QueriedNow, FileIsQueried, WorkInstalled
<1>5. Books' = Books  BY <1>1 DEF Books, G!Readable
<1>6. orderly' => VouchingInv'  BY <1>1, <1>2, <1>5, VouchingLeft DEF DownloadInv, Unvouched
<1>7. Done'
  <2>1. SUFFICES ASSUME orderly, NEW n \in G!Range(G!Chosen(queried)) \ G!Range(assets'), n \notin changed
                 PROVE  G!Installed(n, queried[n])'
    BY <1>1, <1>2 DEF Done
  <2>2. CASE n \in G!Range(assets)
    <3>1. n = G!Name  BY <2>1, <2>2, <1>3
    <3>2. Vouched(n, queried)
      BY <1>1, <1>2, <3>1, NameChosen DEF DownloadInv, G!UseCached, G!check_asset_cache, Vouched, Books
    <3>3. n \in G!Names  BY <1>1, <3>1, NameChosen DEF DownloadInv
    <3>. QED  BY <1>1, <1>2, <2>1, <3>2, <3>3 DEF DownloadInv, VouchingInv, VouchedNow, G!Installed
  <2>3. CASE n \notin G!Range(assets)  BY <1>1, <1>2, <2>1, <2>3 DEF DownloadInv, Done, G!Installed
  <2>. QED  BY <2>2, <2>3
<1>. QED  BY <1>1, <1>4, <1>6, <1>7 DEF DownloadInv

\* What is not passed over is not vouched for.
LEMMA NotPassedOver ==
  ASSUME DownloadInv, orderly, Downloading, pc = "asset", ~G!check_asset_cache(G!Name)
  PROVE  ~Vouched(G!Name, queried)
<1>1. job = "cached"  BY DEF DownloadInv, StepsInv, AtWork
<1>2. SUFFICES ASSUME Vouched(G!Name, queried) PROVE FALSE  OBVIOUS
<1>3. G!Name \in DOMAIN Books /\ Books[G!Name] = G!Digest(queried[G!Name])  BY <1>2 DEF Vouched
<1>4. G!Readable /\ Books = cache  BY <1>3 DEF Books
<1>5. G!Digest(queried[G!Name]) # None  BY <1>3 DEF DownloadInv, VouchingInv, Booked
<1>. QED  BY <1>1, <1>3, <1>4, <1>5 DEF G!check_asset_cache

\* A step within the work on an asset that leaves places and record alone.
LEMMA WorkLeft ==
  ASSUME DownloadInv, pc \notin {"idle", "query", "recording"}, pc' \notin {"idle", "query", "recording"},
         UNCHANGED <<release, deps, cache, job, assets, queried, changed, been, orderly>>,
         StepsInv', orderly /\ Downloading /\ pc' \in {"fetch", "unpack", "unpacking"} => ~Vouched(G!Name, queried)
  PROVE  DownloadInv'
<1>1. Books' = Books  BY DEF Books, G!Readable
<1>2. Downloading' = Downloading  BY DEF Downloading
<1>3. orderly => Unvouched'  BY <1>1, <1>2 DEF Unvouched, Vouched, G!Name
<1>4. orderly' => VouchingInv'  BY <1>1, <1>2, <1>3, VouchingLeft DEF DownloadInv
<1>5. Done'  BY <1>2 DEF DownloadInv, Done, G!Installed
<1>. QED  BY <1>4, <1>5 DEF DownloadInv

\* A file is unpacked without a download only if it is the release's.
LEMMA ReuseInv == ASSUME DownloadInv, G!Reuse PROVE DownloadInv'
<1>1. /\ pc = "asset" /\ pc' = "unpack" /\ assets # <<>>
      /\ UNCHANGED <<release, tarball, deps, cache, job, assets, queried, caches, changed, been, orderly>>
  BY DEF G!Reuse, G!Goto, G!disk, G!history
<1>2. job # "extract" => tarball[G!Name] = queried[G!Name] /\ ~G!check_asset_cache(G!Name)
  BY DigestIs DEF G!Reuse, G!check_local_digest
<1>3. Downloading' = Downloading  BY <1>1 DEF Downloading
<1>4. StepsInv'
  <2>1. FilesTyped' /\ AtWork' /\ QueriedNow' /\ WorkInstalled'
    BY <1>1, <1>3 DEF DownloadInv, StepsInv, FilesTyped, AtWork, QueriedNow, WorkInstalled
  <2>2. FileIsQueried'  BY <1>1, <1>2 DEF FileIsQueried, Downloading, G!Name
  <2>. QED  BY <2>1, <2>2 DEF StepsInv
<1>5. orderly /\ Downloading => ~Vouched(G!Name, queried)  BY <1>1, <1>2, NotPassedOver DEF Downloading
<1>. QED  BY <1>1, <1>4, <1>5, WorkLeft

LEMMA FetchInv == ASSUME DownloadInv, G!Fetch PROVE DownloadInv'
<1>1. /\ pc = "asset" /\ pc' = "fetch" /\ assets # <<>>
      /\ tarball' = [tarball EXCEPT ![G!Name] = Torn] /\ ~G!check_asset_cache(G!Name)
      /\ UNCHANGED <<release, deps, cache, job, assets, queried, caches, changed, been, orderly>>
  BY DEF G!Fetch, G!Goto, G!history
<1>2. Downloading' = Downloading  BY <1>1 DEF Downloading
<1>3. StepsInv'
  BY <1>1, <1>2 DEF DownloadInv, StepsInv, FilesTyped, AtWork, QueriedNow, FileIsQueried, WorkInstalled
<1>4. orderly /\ Downloading => ~Vouched(G!Name, queried)  BY <1>1, NotPassedOver
<1>. QED  BY <1>1, <1>3, <1>4, WorkLeft

\* What was downloaded is what was asked for, if that did not change.
LEMMA FetchedInv == ASSUME DownloadInv, G!Fetched PROVE DownloadInv'
<1>1. /\ pc = "fetch" /\ pc' = "unpack" /\ assets # <<>>
      /\ tarball' = [tarball EXCEPT ![G!Name] = release[G!Name]]
      /\ UNCHANGED <<release, deps, cache, job, assets, queried, caches, changed, been, orderly>>
  BY DEF G!Fetched, G!Goto, G!history, DownloadInv, StepsInv, AtWork
<1>2. Downloading' = Downloading  BY <1>1 DEF Downloading
<1>3. G!Name \in G!Names  BY <1>1, NameChosen DEF DownloadInv
<1>4. tarball'[G!Name] = release[G!Name]  BY <1>1, <1>3 DEF DownloadInv, StepsInv, FilesTyped
<1>5. StepsInv'
  <2>1. FilesTyped' /\ AtWork' /\ QueriedNow' /\ WorkInstalled'
    BY <1>1, <1>2 DEF DownloadInv, StepsInv, FilesTyped, AtWork, QueriedNow, WorkInstalled
  <2>2. FileIsQueried'
    BY <1>1, <1>2, <1>3, <1>4 DEF DownloadInv, StepsInv, QueriedNow, FileIsQueried, G!Name
  <2>. QED  BY <2>1, <2>2 DEF StepsInv
<1>6. orderly /\ Downloading => ~Vouched(G!Name, queried)
  BY <1>1 DEF DownloadInv, VouchingInv, Unvouched
<1>. QED  BY <1>1, <1>5, <1>6, WorkLeft

\* What the record is trusted for lies elsewhere than what is unpacked.
LEMMA VouchedElsewhere ==
  ASSUME DownloadInv, orderly, Downloading, pc \in {"unpack", "unpacking"},
         NEW n \in G!Names, Vouched(n, queried)
  PROVE  n # G!Name /\ n # "single" /\ G!Name # "single"
<1>1. assets # <<>> /\ n # G!Name
  BY DEF DownloadInv, StepsInv, AtWork, VouchingInv, Unvouched
<1>2. G!Name = "single" <=> queried["single"] # None  BY <1>1, NameChosen DEF DownloadInv
<1>3. n = "single" => queried["single"] # None
  BY DigestIs DEF DownloadInv, VouchingInv, Booked, Vouched
<1>. QED  BY <1>1, <1>2, <1>3 DEF Vouched

\* Unpacking, begun and finished, touches nothing that is trusted or done.
LEMMA PutLeft ==
  ASSUME DownloadInv, pc \in {"unpack", "unpacking"}, NEW c, deps' = G!Put(c),
         pc' \notin {"idle", "query", "recording"},
         UNCHANGED <<release, cache, job, queried, changed, been, orderly>>, orderly => Unvouched'
  PROVE  /\ orderly' => VouchingInv'
         /\ Downloading /\ (job = "uncached" \/ orderly) =>
              \A n \in G!Range(G!Chosen(queried)) \ G!Range(assets) :
                n \notin changed => G!Installed(n, queried[n])'
<1>1. Books' = Books  BY DEF Books, G!Readable
<1>2. Downloading' = Downloading  BY DEF Downloading
<1>3. assets # <<>> /\ G!Name \in G!Names /\ G!Name \in G!Range(assets)
  BY NameChosen DEF DownloadInv, StepsInv, AtWork
<1>4. \A n \in G!Names : \A x :
        n # G!Name /\ n # "single" /\ G!Name # "single" /\ G!Installed(n, x) => G!Installed(n, x)'
  BY <1>3, PutPuts DEF DownloadInv, StepsInv, FilesTyped
<1>5. ASSUME orderly PROVE VouchingInv'
  <2>1. VouchingInv /\ job = "cached"  BY <1>5 DEF DownloadInv, StepsInv, AtWork
  <2>2. Downloading  BY <2>1 DEF Downloading
  <2>3. Known' /\ Booked' /\ VouchedLater' /\ VouchedBefore'
    BY <1>1, <1>2, <2>1, <2>2 DEF VouchingInv, Known, Booked, VouchedLater, VouchedBefore, Vouched
  <2>4. ASSUME NEW n \in G!Names \ changed, Vouched(n, queried) PROVE G!Installed(n, queried[n])'
    <3>1. G!Installed(n, queried[n])  BY <2>1, <2>2, <2>4 DEF VouchingInv, VouchedNow
    <3>2. n # G!Name /\ n # "single" /\ G!Name # "single"  BY <1>5, <2>2, <2>4, VouchedElsewhere
    <3>3. \A x : G!Installed(n, x) => G!Installed(n, x)'  BY <1>4, <2>4, <3>2
    <3>. QED  BY <3>1, <3>3 DEF G!Installed
  <2>5. VouchedNow'  BY <1>1, <1>2, <2>4 DEF VouchedNow, Vouched, G!Installed
  <2>. QED  BY <1>5, <2>3, <2>5 DEF VouchingInv
<1>6. ASSUME Downloading, job = "uncached" \/ orderly,
             NEW n \in G!Range(G!Chosen(queried)) \ G!Range(assets), n \notin changed
      PROVE  G!Installed(n, queried[n])'
  <2>1. G!Installed(n, queried[n])  BY <1>6 DEF DownloadInv, Done
  <2>2. n \in G!Names /\ n # G!Name /\ n # "single" /\ G!Name # "single"
    BY <1>3, <1>6, NameChosen, ChosenKind DEF DownloadInv, G!Chosen, G!Range
  <2>3. \A x : G!Installed(n, x) => G!Installed(n, x)'  BY <1>4, <2>2
  <2>. QED  BY <2>1, <2>3 DEF G!Installed
<1>. QED  BY <1>5, <1>6

LEMMA UnpackInv == ASSUME DownloadInv, G!Unpack PROVE DownloadInv'
<1>1. /\ pc = "unpack" /\ pc' = "unpacking" /\ assets # <<>> /\ deps' = G!Put(Torn)
      /\ UNCHANGED <<release, tarball, cache, job, assets, queried, caches, changed, been, orderly>>
  BY DEF G!Unpack, G!Goto, G!history, DownloadInv, StepsInv, AtWork
<1>2. Downloading' = Downloading  BY <1>1 DEF Downloading
<1>3. deps' = [part \in G!Parts |-> deps'[part]]
  BY <1>1, NameChosen, PutPuts DEF DownloadInv, StepsInv, FilesTyped
<1>4. StepsInv'
  BY <1>1, <1>2, <1>3 DEF DownloadInv, StepsInv, FilesTyped, AtWork, QueriedNow, FileIsQueried, WorkInstalled, G!Name
<1>5. Books' = Books  BY <1>1 DEF Books, G!Readable
<1>6. ASSUME orderly PROVE Unvouched'
  BY <1>1, <1>2, <1>5, <1>6 DEF DownloadInv, VouchingInv, Unvouched, Vouched, G!Name
<1>7. /\ orderly' => VouchingInv'
      /\ Downloading /\ (job = "uncached" \/ orderly) =>
           \A n \in G!Range(G!Chosen(queried)) \ G!Range(assets) :
             n \notin changed => G!Installed(n, queried[n])'
  BY <1>1, <1>6, PutLeft
<1>8. Done'  BY <1>1, <1>2, <1>7 DEF Done, G!Installed
<1>. QED  BY <1>4, <1>7, <1>8 DEF DownloadInv

LEMMA UnpackedInv == ASSUME DownloadInv, G!Unpacked PROVE DownloadInv'
<1>1. /\ pc = "unpacking" /\ pc' \in {"record", "asset"} /\ assets # <<>>
      /\ deps' = G!Put(tarball[G!Name])
      /\ UNCHANGED <<release, tarball, cache, job, queried, caches, changed, been, orderly>>
  BY DEF G!Unpacked, G!Goto, G!history, DownloadInv, StepsInv, AtWork
<1>2. pc' = "record" => assets' = assets /\ job = "cached" /\ G!Digest(queried[G!Name]) # None
  BY DEF G!Unpacked, G!Goto
<1>3. pc' = "asset" => assets' = Tail(assets)  BY DEF G!Unpacked
<1>4. Downloading' = Downloading  BY <1>1 DEF Downloading
<1>5. G!Name \in G!Names  BY <1>1, NameChosen DEF DownloadInv
<1>6. /\ deps' = [part \in G!Parts |-> deps'[part]]
      /\ \A part \in G!Places(G!Name) : deps'[part] = <<G!Name, tarball[G!Name]>>
  BY <1>1, <1>5, PutPuts DEF DownloadInv, StepsInv, FilesTyped
<1>7. Downloading /\ G!Name \notin changed =>
        \A part \in G!Places(G!Name) : deps'[part] = <<G!Name, queried[G!Name]>>
  <2>1. Downloading /\ G!Name \notin changed => tarball[G!Name] = queried[G!Name]
    BY <1>1 DEF DownloadInv, StepsInv, FileIsQueried
  <2>. QED  BY <1>6, <2>1
<1>8. /\ assets' \in Seq(G!Names) /\ G!Range(assets') \subseteq G!Range(assets)
      /\ pc' = "asset" => G!Range(assets) \subseteq G!Range(assets') \cup {G!Name}
  BY <1>1, <1>2, <1>3, RangeTail DEF DownloadInv, StepsInv, FilesTyped, G!Name
<1>9. Unvouched'  BY <1>1 DEF Unvouched
<1>10. /\ orderly' => VouchingInv'
       /\ Downloading /\ (job = "uncached" \/ orderly) =>
            \A n \in G!Range(G!Chosen(queried)) \ G!Range(assets) :
              n \notin changed => G!Installed(n, queried[n])'
  BY <1>1, <1>9, PutLeft
<1>11. StepsInv'
  <2>1. FilesTyped' /\ QueriedNow' /\ FileIsQueried'
    BY <1>1, <1>4, <1>6, <1>8 DEF DownloadInv, StepsInv, FilesTyped, QueriedNow, FileIsQueried
  <2>2. AtWork'  BY <1>1, <1>2, <1>4, <1>8 DEF DownloadInv, StepsInv, AtWork, G!Name
  <2>3. WorkInstalled'
    <3>1. SUFFICES ASSUME pc' = "record", G!Name \notin changed
                   PROVE  \A part \in G!Places(G!Name) : deps'[part] = <<G!Name, queried[G!Name]>>
      BY <1>1, <1>2 DEF WorkInstalled, G!Name, G!Installed
    <3>. QED  BY <1>1, <1>2, <1>7, <3>1 DEF Downloading
  <2>. QED  BY <2>1, <2>2, <2>3 DEF StepsInv
<1>12. Done'
  <2>1. SUFFICES ASSUME Downloading, job = "uncached" \/ orderly,
                        NEW n \in G!Range(G!Chosen(queried)) \ G!Range(assets'), n \notin changed
                 PROVE  G!Installed(n, queried[n])'
    BY <1>1, <1>4 DEF Done
  <2>2. CASE n \notin G!Range(assets)  BY <1>10, <2>1, <2>2
  <2>3. CASE n \in G!Range(assets)
    <3>1. n = G!Name  BY <1>1, <1>2, <1>8, <2>1, <2>3
    <3>. QED  BY <1>1, <1>7, <2>1, <3>1 DEF G!Installed
  <2>. QED  BY <2>2, <2>3
<1>. QED  BY <1>10, <1>11, <1>12 DEF DownloadInv

\* The record is emptied, and what it was to say of the other assets is kept.
LEMMA RecordInv == ASSUME DownloadInv, G!Record PROVE DownloadInv'
<1>1. /\ pc = "record" /\ pc' = "recording" /\ assets # <<>> /\ cache' = Torn
      /\ UNCHANGED <<release, tarball, deps, job, assets, queried, changed, been, orderly>>
  BY DEF G!Record, G!Goto, G!history, DownloadInv, StepsInv, AtWork
<1>2. job = "cached" /\ G!Digest(queried[G!Name]) # None
  BY <1>1 DEF DownloadInv, StepsInv, AtWork
<1>3. Downloading /\ Downloading'  BY <1>1, <1>2 DEF Downloading
<1>4. /\ G!Name \in G!Names /\ G!Name \in G!Range(G!Chosen(queried))
      /\ G!Name = "single" <=> queried["single"] # None
  BY <1>1, <1>3, NameChosen DEF DownloadInv
<1>5. StepsInv'
  BY <1>1, <1>2, <1>3
  DEF DownloadInv, StepsInv, FilesTyped, AtWork, QueriedNow, FileIsQueried, WorkInstalled, G!Name, G!Installed
<1>6. /\ G!Name \in DOMAIN Books' /\ Books'[G!Name] = G!Digest(queried[G!Name])
      /\ \A n \in DOMAIN Books' : n # G!Name => n \in DOMAIN Books /\ Books'[n] = Books[n]
  <2>1. Books' = [n \in {G!Name} \cup (IF G!Readable THEN DOMAIN cache ELSE {}) |->
                    IF n = G!Name THEN G!Digest(queried[n]) ELSE cache[n]]
    BY <1>1 DEF Books, G!Record
  <2>2. Books = IF G!Readable THEN cache ELSE <<>>  BY <1>1 DEF Books
  <2>. QED  BY <2>1, <2>2
<1>7. ASSUME orderly PROVE VouchingInv'
  <2>1. VouchingInv  BY <1>7 DEF DownloadInv
  <2>2. Known' /\ Unvouched' /\ VouchedBefore'
    BY <1>1, <1>3, <2>1 DEF VouchingInv, Known, Unvouched, VouchedBefore
  <2>3. Booked'
    <3>1. SUFFICES ASSUME NEW n \in DOMAIN Books'
                   PROVE  /\ n \in G!Names /\ Books'[n] \in been[n] /\ Books'[n] # None
                          /\ n = "single" \/ None \in been["single"]
      BY <1>1 DEF Booked
    <3>2. CASE n # G!Name  BY <1>6, <2>1, <3>1, <3>2 DEF VouchingInv, Booked
    <3>3. CASE n = G!Name
      <4>1. Books'[n] = queried[n] /\ Books'[n] # None  BY <1>2, <1>6, <3>3, DigestIs
      <4>2. queried[n] \in been[n] /\ queried["single"] \in been["single"]
        BY <1>3, <1>4, <2>1, <3>3 DEF VouchingInv, Known, G!Names
      <4>. QED  BY <1>4, <3>3, <4>1, <4>2
    <3>. QED  BY <3>2, <3>3
  <2>4. ASSUME NEW n \in G!Names, n # G!Name
        PROVE  /\ Vouched(n, queried)' => Vouched(n, queried)
               /\ Vouched(n, release)' => Vouched(n, release)
               /\ Vouched(n, queried) => G!Digest(queried[n]) = Books[n]
    BY <1>1, <1>6, <2>4 DEF Vouched
  <2>5. VouchedNow'
    <3>1. SUFFICES ASSUME NEW n \in G!Names \ changed, Vouched(n, queried)' PROVE G!Installed(n, queried[n])
      BY <1>1 DEF VouchedNow, G!Installed
    <3>2. CASE n = G!Name  BY <1>1, <3>1, <3>2 DEF DownloadInv, StepsInv, WorkInstalled
    <3>3. CASE n # G!Name  BY <1>3, <2>1, <2>4, <3>1, <3>3 DEF VouchingInv, VouchedNow
    <3>. QED  BY <3>2, <3>3
  <2>6. VouchedLater'
    <3>1. SUFFICES ASSUME NEW n \in G!Names, Vouched(n, release)'
                   PROVE  n \notin changed /\ Vouched(n, queried)'
      BY <1>1 DEF VouchedLater
    <3>2. CASE n = G!Name
      <4>1. G!Digest(release[n]) = G!Digest(queried[n])  BY <1>1, <1>6, <3>1, <3>2 DEF Vouched
      <4>2. release[n] = queried[n]  BY <1>2, <3>2, <4>1, DigestIs
      <4>3. n \notin changed  BY <1>3, <2>1, <3>1, <4>2 DEF VouchingInv, Known
      <4>4. n = "single" \/ queried["single"] = None  BY <1>4, <3>2
      <4>. QED  BY <1>1, <1>6, <3>2, <4>3, <4>4 DEF Vouched
    <3>3. CASE n # G!Name
      <4>1. n \notin changed /\ Vouched(n, queried)
        BY <1>3, <2>1, <2>4, <3>1, <3>3 DEF VouchingInv, VouchedLater
      <4>2. n \in DOMAIN Books' /\ Books'[n] = Books[n]  BY <1>6, <3>1, <3>3 DEF Vouched
      <4>. QED  BY <1>1, <4>1, <4>2 DEF Vouched
    <3>. QED  BY <3>2, <3>3
  <2>. QED  BY <2>2, <2>3, <2>5, <2>6 DEF VouchingInv
<1>8. Done'  BY <1>1, <1>3 DEF DownloadInv, Done, G!Installed
<1>. QED  BY <1>1, <1>5, <1>7, <1>8 DEF DownloadInv

\* The record is what it was to be.
LEMMA RecordedInv == ASSUME DownloadInv, G!Recorded PROVE DownloadInv'
<1>1. /\ pc = "recording" /\ pc' = "asset" /\ assets # <<>> /\ assets' = Tail(assets) /\ cache' = caches
      /\ UNCHANGED <<release, tarball, deps, job, queried, changed, been, orderly>>
  BY DEF G!Recorded, G!Goto, G!history, DownloadInv, StepsInv, AtWork
<1>2. Downloading /\ Downloading'  BY <1>1 DEF Downloading, DownloadInv, StepsInv, AtWork
<1>3. /\ assets' \in Seq(G!Names) /\ G!Range(assets') \subseteq G!Range(assets)
      /\ G!Range(assets) \subseteq G!Range(assets') \cup {G!Name}
  BY <1>1, RangeTail DEF DownloadInv, StepsInv, FilesTyped, G!Name
<1>4. StepsInv'
  BY <1>1, <1>2, <1>3 DEF DownloadInv, StepsInv, FilesTyped, AtWork, QueriedNow, FileIsQueried, WorkInstalled
<1>5. Books' = Books \/ Books' = <<>>  BY <1>1 DEF Books
<1>6. ASSUME orderly PROVE VouchingInv'
  <2>1. VouchingInv  BY <1>6 DEF DownloadInv
  <2>2. CASE Books' = Books  BY <1>1, <1>2, <2>1, <2>2, VouchingLeft DEF Unvouched
  <2>3. CASE Books' = <<>>
    BY <1>1, <1>2, <2>1, <2>3
    DEF VouchingInv, Known, Booked, VouchedBefore, VouchedNow, VouchedLater, Unvouched, Vouched
  <2>. QED  BY <1>5, <2>2, <2>3
<1>7. Done'
  <2>1. SUFFICES ASSUME job = "uncached" \/ orderly,
                        NEW n \in G!Range(G!Chosen(queried)) \ G!Range(assets'), n \notin changed
                 PROVE  G!Installed(n, queried[n])
    BY <1>1, <1>2 DEF Done, G!Installed
  <2>2. CASE n = G!Name  BY <1>1, <2>1, <2>2 DEF DownloadInv, StepsInv, WorkInstalled
  <2>3. CASE n # G!Name  BY <1>2, <1>3, <2>1, <2>3 DEF DownloadInv, Done
  <2>. QED  BY <2>2, <2>3
<1>. QED  BY <1>1, <1>4, <1>6, <1>7 DEF DownloadInv

\* A change vouches for nothing that was not vouched for.
LEMMA ChangeInv == ASSUME DownloadInv, G!Change PROVE DownloadInv'
<1>1. PICK m \in G!Names, c \in Contents \cup {None} :
        /\ release' = [release EXCEPT ![m] = c] /\ changed' = changed \cup {m}
        /\ been' = [been EXCEPT ![m] = @ \cup {c}] /\ orderly' = (orderly /\ c \notin been[m])
  BY DEF G!Change
<1>2. UNCHANGED <<tarball, deps, cache, pc, job, assets, queried, caches>>
  BY DEF G!Change, G!disk, G!run
<1>3. Downloading' = Downloading  BY <1>2 DEF Downloading
<1>4. /\ release' = [n \in G!Names |-> IF n = m THEN c ELSE release[n]]
      /\ been' = [n \in G!Names |-> IF n = m THEN been[n] \cup {c} ELSE been[n]]
  BY <1>1 DEF DownloadInv, StepsInv, FilesTyped
<1>5. StepsInv'
  <2>1. FilesTyped' /\ QueriedNow'
    BY <1>1, <1>2, <1>3, <1>4 DEF DownloadInv, StepsInv, FilesTyped, QueriedNow
  <2>2. AtWork'  BY <1>1, <1>2, <1>3 DEF DownloadInv, StepsInv, AtWork, G!Name
  <2>3. FileIsQueried' /\ WorkInstalled'
    BY <1>1, <1>2, <1>3 DEF DownloadInv, StepsInv, FileIsQueried, WorkInstalled, G!Name, G!Installed
  <2>. QED  BY <2>1, <2>2, <2>3 DEF StepsInv
<1>6. Books' = Books  BY <1>2 DEF Books, G!Readable
<1>7. ASSUME orderly' PROVE VouchingInv'
  <2>1. VouchingInv /\ c \notin been[m]  BY <1>1, <1>7 DEF DownloadInv
  <2>2. Known' /\ Booked'
    <3>1. Known'  BY <1>1, <1>2, <1>3, <1>4, <2>1 DEF VouchingInv, Known
    <3>2. "single" \in G!Names  BY DEF G!Names
    <3>. QED  BY <1>4, <1>6, <2>1, <3>1, <3>2 DEF VouchingInv, Booked
  <2>3. ASSUME NEW n \in G!Names, Vouched(n, release)'
        PROVE  n # m /\ release'[n] = release[n] /\ Vouched(n, release)
    <3>1. n \in DOMAIN Books /\ Books[n] = G!Digest(release'[n])  BY <1>6, <2>3 DEF Vouched
    <3>2. Books[n] \in been[n] /\ Books[n] # None /\ (n = "single" \/ None \in been["single"])
      BY <2>1, <3>1 DEF VouchingInv, Booked
    <3>3. n # m  BY <1>4, <2>1, <2>3, <3>1, <3>2, DigestIs
    <3>4. release'[n] = release[n]  BY <1>4, <2>3, <3>3
    <3>5. n = "single" \/ release["single"] = None
      <4>1. "single" \in G!Names  BY DEF G!Names
      <4>. QED  BY <1>4, <2>1, <2>3, <3>2, <4>1 DEF Vouched
    <3>. QED  BY <3>1, <3>3, <3>4, <3>5 DEF Vouched
  <2>4. VouchedBefore'
    BY <1>2, <1>3, <2>1, <2>3 DEF VouchingInv, VouchedBefore, G!Installed
  <2>5. VouchedNow'
    <3>1. SUFFICES ASSUME Downloading, NEW n \in G!Names \ changed', Vouched(n, queried)'
                   PROVE  G!Installed(n, queried[n])
      BY <1>2, <1>3 DEF VouchedNow, G!Installed
    <3>2. n \notin changed /\ Vouched(n, queried)  BY <1>1, <1>2, <1>6, <3>1 DEF Vouched
    <3>. QED  BY <2>1, <3>1, <3>2 DEF VouchingInv, VouchedNow
  <2>6. VouchedLater'
    <3>1. SUFFICES ASSUME Downloading, NEW n \in G!Names, Vouched(n, release)'
                   PROVE  n \notin changed' /\ Vouched(n, queried)'
      BY <1>3 DEF VouchedLater
    <3>2. n # m /\ Vouched(n, release)  BY <2>3, <3>1
    <3>3. n \notin changed /\ Vouched(n, queried)  BY <2>1, <3>1, <3>2 DEF VouchingInv, VouchedLater
    <3>. QED  BY <1>1, <1>2, <1>6, <3>2, <3>3 DEF Vouched
  <2>7. Unvouched'  BY <1>2, <1>3, <1>6, <2>1 DEF VouchingInv, Unvouched, Vouched, G!Name
  <2>. QED  BY <2>2, <2>4, <2>5, <2>6, <2>7 DEF VouchingInv
<1>8. Done'  BY <1>1, <1>2, <1>3 DEF DownloadInv, Done, G!Installed
<1>. QED  BY <1>5, <1>7, <1>8 DEF DownloadInv

-----------------------------------------------------------------------------
LEMMA StillInv ==
  ASSUME DownloadInv,
         UNCHANGED <<release, tarball, deps, cache, pc, job, assets, queried, caches, changed, been, orderly>>
  PROVE  DownloadInv'
<1>1. Books' = Books /\ Downloading' = Downloading  BY DEF Books, G!Readable, Downloading
<1>2. StepsInv'
  BY <1>1
  DEF DownloadInv, StepsInv, FilesTyped, AtWork, QueriedNow, FileIsQueried, WorkInstalled, G!Name, G!Installed
<1>3. orderly => Unvouched'  BY <1>1 DEF DownloadInv, VouchingInv, Unvouched, Vouched, G!Name
<1>4. orderly' => VouchingInv'  BY <1>1, <1>3, VouchingLeft DEF DownloadInv
<1>5. Done'  BY <1>1 DEF DownloadInv, Done, G!Installed
<1>. QED  BY <1>2, <1>4, <1>5 DEF DownloadInv

LEMMA DownloadStepInv == DownloadInv /\ [G!Next]_(G!vars) => DownloadInv'
<1> SUFFICES ASSUME DownloadInv, [G!Next]_(G!vars) PROVE DownloadInv'  OBVIOUS
<1>1. CASE UNCHANGED G!vars  BY <1>1, StillInv DEF G!vars, G!disk, G!run, G!history
<1>2. CASE \E j \in {"cached", "uncached", "extract"} : G!Start(j)  BY <1>2, StartInv
<1>3. CASE G!Stop \/ G!Finish  BY <1>3, EndInv DEF G!Stop, G!Finish
<1>4. CASE G!RateLimited  BY <1>4, EndInv, StillInv DEF G!RateLimited, G!disk, G!history
<1>5. CASE G!Query  BY <1>5, QueryInv
<1>6. CASE G!UseCached  BY <1>6, UseCachedInv
<1>7. CASE G!Reuse  BY <1>7, ReuseInv
<1>8. CASE G!Fetch  BY <1>8, FetchInv
<1>9. CASE G!Fetched  BY <1>9, FetchedInv
<1>10. CASE G!Unpack  BY <1>10, UnpackInv
<1>11. CASE G!Unpacked  BY <1>11, UnpackedInv
<1>12. CASE G!Record  BY <1>12, RecordInv
<1>13. CASE G!Recorded  BY <1>13, RecordedInv
<1>14. CASE G!Change  BY <1>14, ChangeInv
<1>. QED  BY <1>1, <1>2, <1>3, <1>4, <1>5, <1>6, <1>7, <1>8, <1>9, <1>10, <1>11, <1>12,
             <1>13, <1>14 DEF G!Next

\* The inductive invariant of the tools: what each step of a run has established
\* about the file, the shared directory and the record, for whenever it stops; and
\* of an orderly use, that the record is trusted for nothing that is not installed.
THEOREM DownloadCorrect == G!Spec => []DownloadInv
<1>. QED  BY DownloadInitInv, DownloadStepInv, PTL DEF G!Spec

-----------------------------------------------------------------------------
LEMMA DownloadSteps == [Next]_vars => [G!Next]_(G!vars)
BY DEF Next, vars, download, G!vars, G!disk, G!run, G!history

\* A record that the next run would trust is of what the shared directory has.
LEMMA TrustedInstalled == DownloadInv => TrustedMeansInstalled
<1> SUFFICES ASSUME DownloadInv, orderly, NEW n \in G!Names, G!Trusted(n, release)
             PROVE  G!Installed(n, release[n])
  BY DEF TrustedMeansInstalled, G!TrustedMeansInstalled
<1>1. Books = cache  BY DEF G!Trusted, G!Readable, Books, DownloadInv, StepsInv, AtWork
<1>2. VouchingInv /\ Vouched(n, release)  BY <1>1 DEF G!Trusted, Vouched, DownloadInv
<1>3. CASE ~Downloading  BY <1>2, <1>3 DEF VouchingInv, VouchedBefore
<1>4. CASE Downloading
  <2>1. n \notin changed /\ Vouched(n, queried)  BY <1>2, <1>4 DEF VouchingInv, VouchedLater
  <2>2. queried[n] = release[n]  BY <1>4, <2>1 DEF DownloadInv, StepsInv, QueriedNow
  <2>. QED  BY <1>2, <1>4, <2>1, <2>2 DEF VouchingInv, VouchedNow
<1>. QED  BY <1>3, <1>4

\* However runs are cut short, whatever replaces what in the shared directory, and
\* though the release may change under a download: an orderly use can trust the record.
THEOREM TrustedMeansInstalledAlways == Spec => []TrustedMeansInstalled
<1>1. Init => DownloadInv  BY DownloadInitInv DEF Init
<1>2. DownloadInv /\ [Next]_vars => DownloadInv'  BY DownloadSteps, DownloadStepInv
<1>. QED  BY <1>1, <1>2, TrustedInstalled, PTL DEF Spec

\* A download that comes to its end has installed what did not change meanwhile,
\* without the cache whatever was there before, with it if use was orderly.
THEOREM FinishedMeansInstalledAlways == Spec => FinishedMeansInstalled
<1>1. Init => DownloadInv  BY DownloadInitInv DEF Init
<1>2. DownloadInv /\ [Next]_vars => DownloadInv'  BY DownloadSteps, DownloadStepInv
<1>3. DownloadInv /\ [Next]_vars =>
        [pc = "asset" /\ pc' = "idle" /\ assets = <<>> /\ (job = "uncached" \/ (job = "cached" /\ orderly)) =>
           \A n \in G!Range(G!Chosen(queried)) \ changed : G!Installed(n, queried[n])]_(G!vars)
  BY DEF DownloadInv, Done, Downloading, G!Range
<1>. QED  BY <1>1, <1>2, <1>3, PTL DEF Spec, FinishedMeansInstalled, G!FinishedMeansInstalled

-----------------------------------------------------------------------------
WriteConstants == Cap \in Nat \ {0} /\ Answer \in Nat /\ MaxData \in Nat

\* What is in the pipes fits into them.
WriteInv == left \in Nat /\ in \in 0..Cap /\ owed \in Nat /\ out \in 0..Cap

LEMMA WriteStepInv ==
  ASSUME WriteConstants, WriteInv, [Next]_vars
  PROVE  WriteInv'
<1>1. [W!Next]_(W!vars)  BY DEF Next, vars, write, W!vars
<1>2. CASE UNCHANGED W!vars  BY <1>2 DEF W!vars, WriteInv
<1>3. ASSUME NEW size \in 0..MaxData, W!Write(size) PROVE WriteInv'
  BY <1>3 DEF W!Write, WriteInv, WriteConstants
<1>7. CASE W!WriteRefused  BY <1>2, <1>7 DEF W!WriteRefused
<1>4. CASE W!Flush \/ W!FlushFails \/ W!Written
  BY <1>4 DEF W!Flush, W!FlushFails, W!Written, WriteInv, WriteConstants
<1>5. CASE W!Read \/ W!ReadByte \/ W!ReadReturns
  BY <1>5 DEF W!Read, W!ReadByte, W!ReadReturns, WriteInv, WriteConstants
<1>6. CASE W!ChildReads \/ W!ChildWrites \/ W!ChildExits
  BY <1>6 DEF W!ChildReads, W!ChildWrites, W!ChildExits, WriteInv, WriteConstants
<1>. QED  BY <1>1, <1>2, <1>3, <1>4, <1>5, <1>6, <1>7 DEF W!Next

LEMMA WriteInvAlways == ASSUME WriteConstants PROVE Spec => []WriteInv
<1>1. WriteInv /\ [Next]_vars => WriteInv'  BY WriteStepInv
<1>2. Init => WriteInv  BY DEF Init, W!Init, WriteInv, WriteConstants
<1>. QED  BY <1>1, <1>2, PTL DEF Spec

\* A request that fits does so until write returns: the child takes no more of its
\* own stdout than was allowed for.
FitsUntilWritten == [][at = "write" /\ W!Fits /\ at' = "write" => W!Fits']_vars

\* One byte of request that the child reads costs the answer to it.
LEMMA ReadingFits ==
  ASSUME WriteConstants, WriteInv, W!ChildReads, W!Fits
  PROVE  W!Fits'
<1>. DEFINE must == in + left - Cap
<1>1. left \in Nat /\ in \in Nat /\ out \in Nat /\ owed = 0 /\ Cap \in Nat /\ Answer \in Nat
  BY DEF WriteConstants, WriteInv, W!ChildReads
<1>2. in' = in - 1 /\ owed' = Answer /\ left' = left /\ out' = out  BY DEF W!ChildReads
<1>3. must \in Int /\ in' + left' - Cap = must - 1  BY <1>1, <1>2
<1>4. must > 0 => out + owed + (must - 1) * Answer <= Cap  BY DEF W!Fits
<1>. HIDE DEF must
<1>5. (must - 1) * Answer = Answer + (must - 1 - 1) * Answer  BY <1>1, <1>3
<1>6. (must - 1 - 1) * Answer \in Int  BY <1>1, <1>3
<1>7. must - 1 > 0 => out' + owed' + (must - 1 - 1) * Answer <= Cap  BY <1>1, <1>2, <1>3, <1>4, <1>5, <1>6
<1>. QED  BY <1>3, <1>7 DEF W!Fits

\* A request that fits goes on fitting, whatever the program and the child do.
THEOREM FitsUntilWrittenAlways ==
  ASSUME WriteConstants
  PROVE  Spec => FitsUntilWritten
<1>1. ASSUME WriteInv, [Next]_vars, at = "write", W!Fits, at' = "write"
      PROVE  W!Fits'
  <2>1. [W!Next]_(W!vars)  BY <1>1 DEF Next, vars, write, W!vars
  <2>2. CASE UNCHANGED W!vars  BY <1>1, <2>2 DEF W!vars, W!Fits
  <2>3. CASE W!Flush
    <3>1. in' + left' - Cap = in + left - Cap  BY <1>1, <2>3 DEF W!Flush, WriteInv, WriteConstants
    <3>. QED  BY <1>1, <2>3, <3>1 DEF W!Flush, W!Fits
  <2>4. CASE W!ChildReads  BY <1>1, <2>4, ReadingFits
  <2>5. CASE W!ChildWrites
    <3>1. out' + owed' = out + owed  BY <1>1, <2>5 DEF W!ChildWrites, WriteInv
    <3>. QED  BY <1>1, <2>5, <3>1 DEF W!ChildWrites, W!Fits
  <2>6. CASE W!ChildExits  BY <1>1, <2>6 DEF W!ChildExits, W!Fits
  <2>7. ASSUME NEW size \in 0..MaxData, W!Write(size) PROVE FALSE  BY <1>1, <2>7 DEF W!Write
  <2>8. CASE W!FlushFails \/ W!Written \/ W!Read \/ W!ReadByte \/ W!ReadReturns
    BY <1>1, <2>8 DEF W!FlushFails, W!Written, W!Read, W!ReadByte, W!ReadReturns
  <2>9. CASE W!WriteRefused  BY <2>2, <2>9 DEF W!WriteRefused
  <2>. QED  BY <2>1, <2>2, <2>3, <2>4, <2>5, <2>6, <2>7, <2>8, <2>9 DEF W!Next
<1>2. WriteInv /\ [Next]_vars => [at = "write" /\ W!Fits /\ at' = "write" => W!Fits']_vars
  BY <1>1
<1>. QED  BY <1>2, WriteInvAlways, PTL DEF Spec, FitsUntilWritten

\* The program and a child that runs never wait on each other in a write that fits:
\* there is room in the child's stdin, or the child can read or write.
NeverStuck ==
  at = "write" /\ left > 0 /\ alive /\ W!Fits =>
    in < Cap \/ (owed = 0 /\ in > 0) \/ (owed > 0 /\ out < Cap)

\* NeverStuck holds in every state.
THEOREM NeverStuckAlways ==
  ASSUME WriteConstants
  PROVE  Spec => []NeverStuck
<1>1. ASSUME WriteInv, left > 0, W!Fits, in = Cap, owed > 0 PROVE out < Cap
  <2>1. left \in Nat \ {0} /\ in + left - Cap = left /\ Answer \in Nat /\ Cap \in Nat
    BY <1>1 DEF WriteInv, WriteConstants
  <2>2. out + owed + (left - 1) * Answer <= Cap  BY <1>1, <2>1 DEF W!Fits
  <2>3. (left - 1) * Answer \in Nat  BY <2>1
  <2>. QED  BY <1>1, <2>1, <2>2, <2>3 DEF WriteInv
<1>2. WriteInv => NeverStuck  BY <1>1 DEF WriteInv, NeverStuck, WriteConstants
<1>. QED  BY <1>2, WriteInvAlways, PTL

-----------------------------------------------------------------------------
Dates == Nat \X (1..12) \X (1..31)

\* What the system may answer about an adapter.
Answered(a) ==
  a = None \/ /\ a.memory \in Nat \cup {None} /\ a.software \in BOOLEAN
              /\ a.date \in Dates \cup {None}

GpuConstants == None \notin Nat /\ Gib2 \in Nat /\ DirectML \in Dates /\ DirectML[1] # 0

\* i comes before j in what max_element looks for.
Before(adapters, i, j) ==
  P!Less(adapters[j], adapters[i]) \/ (~P!Less(adapters[i], adapters[j]) /\ i < j)

\* b is the best of the first n adapters.
BestOf(adapters, n, b) ==
  LET available == {i \in 1..n : P!Available(adapters[i])}
  IN  IF available = {} THEN b = None
      ELSE b \in available /\ \A i \in available \ {b} : Before(adapters, b, i)

\* The loop computes something, however many adapters there are.
LEMMA LoopDefined ==
  ASSUME NEW adapters, NEW n \in Nat
  PROVE  \E best : best = [i \in 0..n |->
                            IF i = 0 THEN None ELSE P!Choose(adapters, best[i - 1], i)]
<1>. DEFINE Loop(m, best) ==
              best = [i \in 0..m |-> IF i = 0 THEN None ELSE P!Choose(adapters, best[i - 1], i)]
            none == {m \in Nat : ~\E best : Loop(m, best)}
<1>1. ASSUME NEW m \in none, \A k \in none : m <= k PROVE FALSE
  <2>1. CASE m = 0
    <3>1. Loop(0, [i \in 0..0 |-> None])  OBVIOUS
    <3>. QED  BY <2>1, <3>1
  <2>2. CASE m # 0
    <3>1. m - 1 \in Nat /\ m - 1 \notin none  BY <1>1, <2>2
    <3>2. PICK best : Loop(m - 1, best)  BY <3>1
    <3>. DEFINE more == [i \in 0..m |-> IF i = m THEN P!Choose(adapters, best[m - 1], m)
                                         ELSE best[i]]
    <3>3. Loop(m, more)
      <4>1. ASSUME NEW i \in 0..m
            PROVE  more[i] = IF i = 0 THEN None ELSE P!Choose(adapters, more[i - 1], i)
        BY <2>2, <3>2
      <4>. QED  BY <4>1
    <3>. QED  BY <1>1, <3>3
  <2>. QED  BY <2>1, <2>2
<1>2. none = {}  BY <1>1, LeastOf
<1>. QED  BY <1>2

LEMMA LoopIs ==
  ASSUME NEW adapters, Len(adapters) \in Nat
  PROVE  \E best :
           /\ best[0] = None
           /\ \A i \in 1..Len(adapters) : best[i] = P!Choose(adapters, best[i - 1], i)
           /\ P!perfer_gpu(adapters) = best[Len(adapters)]
<1>. DEFINE Loop(best) == best = [i \in 0..Len(adapters) |->
                            IF i = 0 THEN None ELSE P!Choose(adapters, best[i - 1], i)]
            best == CHOOSE best : Loop(best)
<1>1. Loop(best)  BY LoopDefined
<1>2. P!perfer_gpu(adapters) = best[Len(adapters)]  BY DEF P!perfer_gpu
<1>. HIDE DEF best
<1>. QED  BY <1>1, <1>2

\* One turn of the loop.
LEMMA ChooseBest ==
  ASSUME NEW adapters, NEW n \in Nat \ {0}, None \notin Nat,
         \A i \in 1..n : P!Available(adapters[i]) => adapters[i].memory \in Nat,
         NEW b, BestOf(adapters, n - 1, b)
  PROVE  BestOf(adapters, n, P!Choose(adapters, b, n))
<1>. DEFINE available(m) == {i \in 1..m : P!Available(adapters[i])}
            Key(i) == P!rank(adapters[i].vendor_id)
<1>1. \A i : Key(i) \in {0, 1, 2}  BY DEF P!rank
<1>2. \A i, j : P!Less(adapters[i], adapters[j]) <=>
                  IF Key(i) # Key(j) THEN Key(i) > Key(j)
                  ELSE adapters[i].memory < adapters[j].memory
  BY DEF P!Less
<1>3. \A i \in available(n) : i \in 1..n /\ adapters[i].memory \in Nat  OBVIOUS
<1>4. /\ b \notin available(n - 1) => b = None /\ available(n - 1) = {}
      /\ \A i \in available(n - 1) \ {b} : b \in available(n - 1) /\ Before(adapters, b, i)
  BY DEF BestOf
<1>5. available(n - 1) = available(n) \ {n}  OBVIOUS
<1>. HIDE DEF Key
<1>6. CASE ~P!Available(adapters[n])
  <2>1. P!Choose(adapters, b, n) = b /\ available(n) = available(n - 1)  BY <1>6 DEF P!Choose
  <2>. QED  BY <2>1 DEF BestOf
<1>7. CASE P!Available(adapters[n]) /\ b \notin available(n - 1)
  <2>1. P!Choose(adapters, b, n) = n /\ available(n) = {n}  BY <1>4, <1>5, <1>7 DEF P!Choose
  <2>. QED  BY <2>1 DEF BestOf
<1>8. CASE P!Available(adapters[n]) /\ b \in available(n - 1)
  <2>1. b # None /\ b \in 1..(n - 1) /\ n \in available(n) /\ b \in available(n)  BY <1>8
  <2>. HIDE DEF available
  <2>2. CASE P!Less(adapters[b], adapters[n])
    <3>1. P!Choose(adapters, b, n) = n  BY <1>8, <2>2 DEF P!Choose
    <3>2. ASSUME NEW i \in available(n) \ {n} PROVE P!Less(adapters[i], adapters[n])
      <4>1. i = b \/ Before(adapters, b, i)  BY <1>4, <1>5, <3>2
      <4>2. i = b \/ ~P!Less(adapters[b], adapters[i])
        <5>1. P!Less(adapters[i], adapters[b]) => ~P!Less(adapters[b], adapters[i])
          BY <1>1, <1>2, <1>3, <2>1, <3>2
        <5>. QED  BY <4>1, <5>1 DEF Before
      <4>3. /\ adapters[i].memory \in Nat /\ adapters[b].memory \in Nat
            /\ adapters[n].memory \in Nat
            /\ Key(i) \in {0, 1, 2} /\ Key(b) \in {0, 1, 2} /\ Key(n) \in {0, 1, 2}
        BY <1>1, <1>3, <2>1, <3>2
      <4>4. Key(b) > Key(n) \/ (Key(b) = Key(n) /\ adapters[b].memory < adapters[n].memory)
        BY <1>2, <2>2, <4>3
      <4>5. CASE i = b  BY <2>2, <4>5
      <4>6. CASE ~P!Less(adapters[b], adapters[i])
        <5>1. Key(i) > Key(b) \/ (Key(i) = Key(b) /\ adapters[i].memory <= adapters[b].memory)
          BY <1>2, <4>3, <4>6
        <5>. QED  BY <1>2, <4>3, <4>4, <5>1
      <4>. QED  BY <4>2, <4>5, <4>6
    <3>3. \A i \in available(n) \ {n} : Before(adapters, n, i)  BY <3>2 DEF Before
    <3>. QED  BY <2>1, <3>1, <3>3 DEF BestOf, available
  <2>3. CASE ~P!Less(adapters[b], adapters[n])
    <3>1. P!Choose(adapters, b, n) = b  BY <2>1, <2>3 DEF P!Choose
    <3>2. Before(adapters, b, n)  BY <2>1, <2>3 DEF Before
    <3>3. \A i \in available(n) \ {b} : Before(adapters, b, i)  BY <1>4, <1>5, <3>2
    <3>. QED  BY <2>1, <3>1, <3>3 DEF BestOf, available
  <2>. QED  BY <2>2, <2>3
<1>. QED  BY <1>6, <1>7, <1>8

\* The adapter of a whole list.
LEMMA PicksBest ==
  ASSUME NEW adapters, Len(adapters) \in Nat, None \notin Nat,
         \A i \in 1..Len(adapters) : P!Available(adapters[i]) => adapters[i].memory \in Nat
  PROVE  BestOf(adapters, Len(adapters), P!perfer_gpu(adapters))
<1>. DEFINE n == Len(adapters)
<1>1. PICK best : /\ best[0] = None
                  /\ \A i \in 1..n : best[i] = P!Choose(adapters, best[i - 1], i)
                  /\ P!perfer_gpu(adapters) = best[n]
  BY LoopIs
<1>. DEFINE wrong == {m \in 0..n : ~BestOf(adapters, m, best[m])}
<1>2. ASSUME NEW m \in wrong, \A k \in wrong : m <= k PROVE FALSE
  <2>1. CASE m = 0
    <3>1. BestOf(adapters, 0, None)  BY DEF BestOf
    <3>. QED  BY <1>1, <2>1, <3>1
  <2>2. CASE m # 0
    <3>1. m \in Nat \ {0} /\ m <= n /\ BestOf(adapters, m - 1, best[m - 1])  BY <1>2, <2>2
    <3>2. \A i \in 1..m : P!Available(adapters[i]) => adapters[i].memory \in Nat  BY <3>1
    <3>3. BestOf(adapters, m, P!Choose(adapters, best[m - 1], m))  BY <3>1, <3>2, ChooseBest
    <3>4. best[m] = P!Choose(adapters, best[m - 1], m)  BY <1>1, <3>1
    <3>. QED  BY <3>3, <3>4
  <2>. QED  BY <2>1, <2>2
<1>3. wrong = {}
  <2>1. wrong \subseteq Nat  OBVIOUS
  <2>. HIDE DEF wrong
  <2>. QED  BY <1>2, <2>1, LeastOf
<1>. QED  BY <1>1, <1>3

\* The date checks compare dates.
LEMMA LaterIs ==
  ASSUME GpuConstants, NEW date \in Dates
  PROVE  P!Later(date) <=> ~(P!Days(date) >= P!Days(DirectML))
<1>1. /\ date[1] \in Nat /\ date[2] \in 1..12 /\ date[3] \in 1..31
      /\ DirectML[1] \in Nat /\ DirectML[2] \in 1..12 /\ DirectML[3] \in 1..31
  BY DEF GpuConstants, Dates
<1>2. P!Later(date) <=> \/ date[1] < DirectML[1]
                        \/ date[1] = DirectML[1] /\ date[2] < DirectML[2]
                        \/ date[1] = DirectML[1] /\ date[2] = DirectML[2] /\ date[3] < DirectML[3]
  BY DEF P!Later
<1>3. /\ P!Days(date) = date[1] * 372 + date[2] * 31 + date[3]
      /\ P!Days(DirectML) = DirectML[1] * 372 + DirectML[2] * 31 + DirectML[3]
  BY DEF P!Days
<1>4. \/ date[1] < DirectML[1]
      \/ date[1] = DirectML[1] /\ date[2] < DirectML[2]
      \/ date[1] = DirectML[1] /\ date[2] = DirectML[2] /\ date[3] < DirectML[3]
      <=> ~(date[1] * 372 + date[2] * 31 + date[3]
              >= DirectML[1] * 372 + DirectML[2] * 31 + DirectML[3])
  <2>. DEFINE y == date[1]  m == date[2]  d == date[3]
              z == DirectML[1]  n == DirectML[2]  e == DirectML[3]
  <2>1. y \in Nat /\ m \in 1..12 /\ d \in 1..31 /\ z \in Nat /\ n \in 1..12 /\ e \in 1..31
    BY <1>1
  <2>. HIDE DEF y, m, d, z, n, e
  <2>2. y < z \/ (y = z /\ m < n) \/ (y = z /\ m = n /\ d < e)
          <=> ~(y * 372 + m * 31 + d >= z * 372 + n * 31 + e)
    BY <2>1
  <2>. QED  BY <2>2 DEF y, m, d, z, n, e
<1>. QED  BY <1>2, <1>3, <1>4

\* The checks of the loop leave exactly the usable adapters.
LEMMA AvailableIsUsable ==
  ASSUME GpuConstants, NEW a, Answered(a)
  PROVE  (P!Available(a) <=> P!Usable(a)) /\ (P!Available(a) => a.memory \in Nat)
<1>. SUFFICES ASSUME a # None
              PROVE  (P!Available(a) <=> P!Usable(a)) /\ (P!Available(a) => a.memory \in Nat)
  BY DEF P!Available, P!Usable
<1>1. /\ a.memory \in Nat \cup {None} /\ a.software \in BOOLEAN
      /\ a.date \in Dates \cup {None}
  BY DEF Answered
<1>2. P!Later(P!gpu_driver_date(a)) <=> a.date = None \/ ~(P!Days(a.date) >= P!Days(DirectML))
  <2>1. CASE a.date = None
    <3>1. P!gpu_driver_date(a) = <<0, 0, 0>>  BY <2>1 DEF P!gpu_driver_date, P!Fails
    <3>2. P!Later(<<0, 0, 0>>)  BY DEF P!Later, GpuConstants, Dates
    <3>. QED  BY <2>1, <3>1, <3>2
  <2>2. CASE a.date # None
    <3>1. P!gpu_driver_date(a) = a.date  BY <2>2 DEF P!gpu_driver_date, P!Fails
    <3>. QED  BY <1>1, <2>2, <3>1, LaterIs
  <2>. QED  BY <2>1, <2>2
<1>3. P!is_indirect_display_adapter(a) <=>
        ~(a.filters # None => a.filters \cap {"IndirectKmd"} = {})
  BY DEF P!is_indirect_display_adapter
<1>4. a.memory # None => (a.memory < Gib2 <=> ~(a.memory >= Gib2))
  BY <1>1 DEF GpuConstants
<1>5. P!Available(a) <=> P!Usable(a)
  BY <1>1, <1>2, <1>3, <1>4 DEF P!Available, P!Usable, P!Fails, P!adapter_instance_path
<1>6. P!Available(a) => a.memory \in Nat  BY <1>1 DEF P!Available, P!Fails
<1>. QED  BY <1>5, <1>6

\* However many adapters there are, and whatever the system answers about them,
\* perfer_gpu answers the first of the best usable ones, or none if there is none.
THEOREM PicksBestGpuAlways ==
  ASSUME GpuConstants, NEW S, \A a \in S : Answered(a), NEW adapters \in Seq(S)
  PROVE  P!PicksBestGpu(adapters)
<1>. DEFINE n == Len(adapters)
            b == P!perfer_gpu(adapters)
<1>1. \A i \in 1..n : /\ P!Available(adapters[i]) <=> P!Usable(adapters[i])
                      /\ P!Available(adapters[i]) => adapters[i].memory \in Nat
  <2>1. \A i \in 1..n : Answered(adapters[i])  OBVIOUS
  <2>. QED  BY <2>1, AvailableIsUsable
<1>2. BestOf(adapters, n, b)  BY <1>1, PicksBest DEF GpuConstants
<1>. DEFINE usable == {i \in DOMAIN adapters : P!Usable(adapters[i])}
            Score(i) == CASE adapters[i].vendor_id \in {"NVIDIA", "AMD"} -> 2
                          [] adapters[i].vendor_id = "Intel" -> 1
                          [] OTHER -> 0
            Worse(i, j) == \/ Score(i) < Score(j)
                           \/ /\ Score(i) = Score(j)
                              /\ \/ adapters[i].memory < adapters[j].memory
                                 \/ adapters[i].memory = adapters[j].memory /\ i > j
<1>3. usable = {i \in 1..n : P!Available(adapters[i])}  BY <1>1
<1>4. ASSUME NEW i \in usable, NEW j \in usable \ {i}, Before(adapters, i, j) PROVE Worse(j, i)
  <2>1. adapters[i].memory \in Nat /\ adapters[j].memory \in Nat  BY <1>1
  <2>2. \A k : Score(k) = 2 - P!rank(adapters[k].vendor_id) /\ P!rank(adapters[k].vendor_id) \in {0, 1, 2}
    BY DEF P!rank
  <2>. HIDE DEF Score
  <2>. QED  BY <1>4, <2>1, <2>2 DEF Before, P!Less
<1>5. IF usable = {} THEN b = None ELSE b \in usable /\ \A i \in usable \ {b} : Worse(i, b)
  <2>. HIDE DEF Worse
  <2>. QED  BY <1>2, <1>3, <1>4 DEF BestOf
<1>. QED  BY <1>5 DEF P!PicksBestGpu

\* The adapters that are checked are such.
LEMMA AdaptersAnswered ==
  ASSUME GpuConstants
  PROVE  \A a \in Cards \cup Lacking : Answered(a)
<1>. DEFINE Plain == [vendor_id : {"Intel"}, memory : {2}, software : {FALSE}, device : {"device"},
                      path : {"path"}, date : {DirectML}, filters : {{}}]
<1>1. Card \in Plain  BY DEF Card
<1>2. DirectML \in Dates  BY DEF GpuConstants
<1>3. ASSUME NEW v, NEW m \in {2, 4}, NEW a, a = [Card EXCEPT !.vendor_id = v, !.memory = m]
      PROVE  Answered(a)
  <2>1. a.memory = m /\ a.software = FALSE /\ a.date = DirectML  BY <1>1, <1>3
  <2>2. a.memory \in Nat  BY <2>1
  <2>. QED  BY <1>2, <2>1, <2>2 DEF Answered
<1>4. ASSUME NEW a \in Cards PROVE Answered(a)
  <2>1. PICK v \in {"NVIDIA", "AMD", "Intel", "VMware"}, m \in {2, 4} :
          a = [Card EXCEPT !.vendor_id = v, !.memory = m]
    BY <1>4, SMT DEF Cards
  <2>. QED  BY <1>3, <2>1
<1>5. ASSUME NEW v \in Nat \cup {None}, NEW a, a = [Card EXCEPT !["memory"] = v]
      PROVE  Answered(a)
  <2>1. a.memory = v /\ a.software = FALSE /\ a.date = DirectML  BY <1>1, <1>5
  <2>. QED  BY <1>2, <2>1 DEF Answered
<1>6. \A a \in With("memory", {None, 1}) : Answered(a)  BY <1>5 DEF With
<1>7. ASSUME NEW field \in {"software", "device", "path", "filters"}, NEW v, NEW a,
             a = [Card EXCEPT ![field] = v], field = "software" => v = TRUE
      PROVE  Answered(a)
  <2>1. a.memory = 2 /\ a.software \in BOOLEAN /\ a.date = DirectML  BY <1>1, <1>7
  <2>. QED  BY <1>2, <2>1 DEF Answered
<1>8. \A a \in With("software", {TRUE}) : Answered(a)  BY <1>7 DEF With
<1>9. \A values : /\ \A a \in With("device", values) : Answered(a)
                  /\ \A a \in With("path", values) : Answered(a)
                  /\ \A a \in With("filters", values) : Answered(a)
  BY <1>7 DEF With
<1>10. ASSUME NEW v \in Dates \cup {None}, NEW a, a = [Card EXCEPT !["date"] = v]
      PROVE  Answered(a)
  <2>1. a.memory = 2 /\ a.software = FALSE /\ a.date = v  BY <1>1, <1>10
  <2>2. a.memory \in Nat  BY <2>1
  <2>. QED  BY <1>10, <2>1, <2>2 DEF Answered
<1>11. \A values \in SUBSET (Dates \cup {None}) : \A a \in With("date", values) : Answered(a)
  BY <1>10 DEF With
<1>12. {None, <<2018, 12, 31>>, <<2019, 4, 30>>, <<2019, 5, 20>>, <<2019, 6, 1>>, <<2020, 1, 1>>}
         \in SUBSET (Dates \cup {None})
  BY DEF Dates
<1>13. Answered(None)  BY DEF Answered
<1>. HIDE DEF Plain
<1>. QED  BY <1>4, <1>6, <1>8, <1>9, <1>11, <1>12, <1>13 DEF Lacking

LEMMA AdaptersAreLists ==
  \A l \in Adapters : l \in Seq(Cards \cup Lacking)
<1>1. ASSUME NEW S, NEW k \in Nat, NEW l \in TupleOf(S, k) PROVE l \in Seq(S)
  BY DEF TupleOf
<1>2. ASSUME NEW k \in Nat, NEW l \in TupleOf(Cards, k) PROVE l \in TupleOf(Cards \cup Lacking, k)
  BY DEF TupleOf
<1>3. ASSUME NEW l \in Adapters
      PROVE  \E k \in Nat : l \in TupleOf(Cards \cup Lacking, k)
  <2>1. CASE l \in UNION {TupleOf(Cards \cup Lacking, k) : k \in 0..2}
    <3>1. PICK k \in 0..2 : l \in TupleOf(Cards \cup Lacking, k)  BY <2>1
    <3>. QED  BY <3>1
  <2>2. CASE l \in TupleOf(Cards, 3)  BY <1>2, <2>2
  <2>. QED  BY <1>3, <2>1, <2>2 DEF Adapters
<1>. QED  BY <1>1, <1>3

\* A step leaves the input alone, so what holds of each input holds always.
LEMMA InputStays ==
  ASSUME NEW c, NEW Inputs
  PROVE  (component = c => input \in Inputs) /\ [Next]_vars => (component = c => input \in Inputs)'
  BY DEF Next, vars

\* The adapter chosen is the best one, of the inputs as of any list of adapters.
THEOREM PicksBestGpuHolds ==
  ASSUME GpuConstants
  PROVE  Spec => []PicksBestGpu
<1>. DEFINE Chosen == component = "GpuChoice" => input \in Adapters
<1>1. Init => Chosen  BY DEF Init
<1>2. Chosen /\ [Next]_vars => Chosen'  BY InputStays
<1>3. Chosen => PicksBestGpu
  BY AdaptersAnswered, AdaptersAreLists, PicksBestGpuAlways DEF PicksBestGpu
<1>. QED  BY <1>1, <1>2, <1>3, PTL DEF Spec

-----------------------------------------------------------------------------
\* Conversions: what one character becomes, and how its first byte or unit tells its
\* length; then each loop over a text, by induction over the places it reads; then texts.

\* The scalar values of the standard.
Scalar == {c \in Nat : c <= 1114111 /\ (c < 55296 \/ 57344 <= c)}

Six(c) == 128 + (c % 64)

\* The digits of c.
LEMMA Utf8Is ==
  ASSUME NEW c \in Nat, c <= 1114111
  PROVE  /\ c <= 127 => Utf8(c) = <<c>>
         /\ 128 <= c /\ c <= 2047 => Utf8(c) = <<192 + ((c \div 64) % 32), Six(c)>>
         /\ 2048 <= c /\ c <= 65535 =>
              Utf8(c) = <<224 + ((c \div 4096) % 16), Six(c \div 64), Six(c)>>
         /\ 65536 <= c =>
              Utf8(c) = <<240 + ((c \div 262144) % 8), Six(c \div 4096), Six(c \div 64), Six(c)>>
<1>1. CASE c <= 127
  <2>1. Bytes(c) = 1  BY SMT, <1>1 DEF Bytes
  <2>2. (c \div 1) % 128 = c  BY SMT, <1>1
  <2>. QED  BY SMT, <1>1, <2>1, <2>2 DEF Utf8
<1>2. CASE 128 <= c /\ c <= 2047
  <2>1. Bytes(c) = 2  BY SMT, <1>2 DEF Bytes
  <2>2. (c \div 64) % 128 = (c \div 64) % 32 /\ c \div 1 = c  BY SMT, <1>2
  <2>. QED  BY SMT, <1>2, <2>1, <2>2 DEF Utf8, Six
<1>3. CASE 2048 <= c /\ c <= 65535
  <2>1. Bytes(c) = 3  BY SMT, <1>3 DEF Bytes
  <2>2. (c \div 4096) % 128 = (c \div 4096) % 16 /\ c \div 1 = c  BY SMT, <1>3
  <2>. QED  BY SMT, <1>3, <2>1, <2>2 DEF Utf8, Six
<1>4. CASE 65536 <= c
  <2>1. Bytes(c) = 4  BY SMT, <1>4 DEF Bytes
  <2>2. (c \div 262144) % 128 = (c \div 262144) % 8 /\ c \div 1 = c  BY SMT, <1>4
  <2>. QED  BY SMT, <1>4, <2>1, <2>2 DEF Utf8, Six
<1>. QED  BY SMT, <1>1, <1>2, <1>3, <1>4

LEMMA WritesUtf8 ==
  ASSUME NEW c \in Nat, c <= 1114111
  PROVE  char32_to_utf8(c) = Utf8(c)
<1>1. CASE c <= 127  BY SMT, <1>1, Utf8Is DEF char32_to_utf8
<1>2. CASE 128 <= c /\ c <= 2047
  BY SMT, <1>2, Utf8Is DEF char32_to_utf8, Six, Low, High
<1>3. CASE 2048 <= c /\ c <= 65535
  BY SMT, <1>3, Utf8Is DEF char32_to_utf8, Six, Low, High
<1>4. CASE 65536 <= c
  BY SMT, <1>4, Utf8Is DEF char32_to_utf8, Six, Low, High
<1>. QED  BY SMT, <1>1, <1>2, <1>3, <1>4

\* At i of u begins s.
Begins(u, i, s) == i + Len(s) - 1 <= Len(u) /\ \A j \in 1..Len(s) : u[i + j - 1] = s[j]

LEMMA Digits ==
  ASSUME NEW c \in Nat
  PROVE  (c \div 262144) * 262144 + ((c \div 4096) % 64) * 4096 + ((c \div 64) % 64) * 64
           + (c % 64) = c
<1>1. c = (c \div 64) * 64 + (c % 64)  BY SMT
<1>2. c \div 64 = (c \div 4096) * 64 + ((c \div 64) % 64)  BY SMT
<1>3. c \div 4096 = (c \div 262144) * 64 + ((c \div 4096) % 64)  BY SMT
<1>. QED  BY SMT, <1>1, <1>2, <1>3

LEMMA ReadsUtf8 ==
  ASSUME NEW c \in Nat, c <= 1114111, NEW u \in Seq(Nat), NEW i \in Nat \ {0}, Begins(u, i, Utf8(c))
  PROVE  utf8_to_char32(SubSeq(u, i, Len(u))) = [took |-> Len(Utf8(c)), ch |-> <<c>>]
<1>. DEFINE rest == SubSeq(u, i, Len(u))
<1>1. 1 <= Len(Utf8(c)) /\ Len(Utf8(c)) \in Nat
  <2>1. Bytes(c) \in {1, 2, 3, 4}  BY SMT DEF Bytes
  <2>2. Len(Utf8(c)) = Bytes(c)  BY SMT, <2>1 DEF Utf8
  <2>. QED  BY SMT, <2>1, <2>2
<1>2. i <= Len(u) /\ Len(u) \in Nat
  <2>1. i + Len(Utf8(c)) - 1 <= Len(u) /\ Len(u) \in Nat  BY SMT DEF Begins
  <2>. QED  BY SMT, <1>1, <2>1
<1>3. Len(rest) = Len(u) - i + 1 /\ \A j \in 1..Len(rest) : rest[j] = u[i + j - 1]  BY SMT, <1>2
<1>4. Len(Utf8(c)) <= Len(rest) /\ \A j \in 1..Len(Utf8(c)) : rest[j] = Utf8(c)[j]
  BY SMT, <1>1, <1>2, <1>3 DEF Begins
<1>. HIDE DEF rest
<1> SUFFICES utf8_to_char32(rest) = [took |-> Len(Utf8(c)), ch |-> <<c>>]  BY DEF rest
<1>9. Len(rest) \in Nat /\ Len(Utf8(c)) <= Len(rest)  BY SMT, <1>2, <1>3, <1>4
<1>5. CASE c <= 127
  <2>1. Len(Utf8(c)) = 1 /\ rest[1] = c  BY SMT, <1>4, <1>5, Utf8Is
  <2>2. Following(rest[1]) = 0  BY SMT, <1>5, <2>1 DEF Following
  <2>. QED  BY SMT, <1>9, <2>1, <2>2 DEF utf8_to_char32
<1>6. CASE 128 <= c /\ c <= 2047
  <2>0. Utf8(c) = <<192 + ((c \div 64) % 32), Six(c)>>
    BY SMT, <1>6, Utf8Is
  <2>1. /\ Len(Utf8(c)) = 2
        /\ rest[1] = 192 + ((c \div 64) % 32)
        /\ rest[2] = Six(c)
    BY SMT, <1>4, <2>0
  <2>2. Following(rest[1]) = 1  BY SMT, <1>6, <2>1 DEF Following
  <2>3. Low(rest[1], 32) * 64 + Low(rest[2], 64) = c  BY SMT, <1>6, <2>1 DEF Low, Six
  <2>. QED  BY SMT, <1>9, <2>1, <2>2, <2>3 DEF utf8_to_char32
<1>7. CASE 2048 <= c /\ c <= 65535
  <2>0. Utf8(c) = <<224 + ((c \div 4096) % 16), Six(c \div 64), Six(c)>>
    BY SMT, <1>7, Utf8Is
  <2>1. /\ Len(Utf8(c)) = 3
        /\ rest[1] = 224 + ((c \div 4096) % 16)
        /\ rest[2] = Six(c \div 64)
        /\ rest[3] = Six(c)
    BY SMT, <1>4, <2>0
  <2>2. Following(rest[1]) = 2  BY SMT, <1>7, <2>1 DEF Following
  <2>3. Low(rest[1], 16) * 4096 + Low(rest[2], 64) * 64 + Low(rest[3], 64) = c
    BY SMTT(30), <1>7, <2>1 DEF Low, Six
  <2>. QED  BY SMT, <1>9, <2>1, <2>2, <2>3 DEF utf8_to_char32
<1>8. CASE 65536 <= c
  <2>0. Utf8(c) = <<240 + ((c \div 262144) % 8), Six(c \div 4096), Six(c \div 64), Six(c)>>
    BY SMT, <1>8, Utf8Is
  <2>1. /\ Len(Utf8(c)) = 4
        /\ rest[1] = 240 + ((c \div 262144) % 8)
        /\ rest[2] = Six(c \div 4096)
        /\ rest[3] = Six(c \div 64)
        /\ rest[4] = Six(c)
    BY SMT, <1>4, <2>0
  <2>2. Following(rest[1]) = 3  BY SMT, <1>8, <2>1 DEF Following
  <2>4. /\ Low(rest[1], 16) = c \div 262144 /\ Low(rest[2], 64) = (c \div 4096) % 64
        /\ Low(rest[3], 64) = (c \div 64) % 64 /\ Low(rest[4], 64) = c % 64
    BY SMT, <1>8, <2>1 DEF Low, Six
  <2>3. Low(rest[1], 16) * 262144 + Low(rest[2], 64) * 4096 + Low(rest[3], 64) * 64
          + Low(rest[4], 64) = c
    BY SMT, <2>4, Digits
  <2>. QED  BY SMTT(30), <1>9, <2>1, <2>2, <2>3 DEF utf8_to_char32
<1>. QED  BY SMT, <1>5, <1>6, <1>7, <1>8

LEMMA WritesWide ==
  ASSUME NEW c \in Nat, c <= 1114111, NEW bits
  PROVE  char32_to_wchar(bits, c) = Wide(bits, c)
<1>1. c <= 65535 <=> c < 65536  BY SMT
<1>2. 65536 <= c => (c - 65536) % 1048576 = c - 65536  BY SMT
<1>. QED  BY SMT, <1>1, <1>2 DEF char32_to_wchar, Wide, Low, High

LEMMA ReadsWide ==
  ASSUME NEW c \in Scalar, NEW bits \in {16, 32},
         NEW w \in Seq(Nat), NEW i \in Nat \ {0}, Begins(w, i, Wide(bits, c))
  PROVE  wchar_to_char32(bits, SubSeq(w, i, Len(w))) = [took |-> Len(Wide(bits, c)), ch |-> <<c>>]
<1>. c \in Nat /\ (c < 55296 \/ 57344 <= c) /\ c <= 1114111  BY SMT DEF Scalar
<1>. DEFINE rest == SubSeq(w, i, Len(w))
<1>1. 1 <= Len(Wide(bits, c)) /\ Len(Wide(bits, c)) \in Nat  BY SMT DEF Wide
<1>2. i <= Len(w) /\ Len(w) \in Nat
  <2>1. i + Len(Wide(bits, c)) - 1 <= Len(w) /\ Len(w) \in Nat  BY SMT DEF Begins
  <2>. QED  BY SMT, <1>1, <2>1
<1>3. Len(rest) = Len(w) - i + 1 /\ \A j \in 1..Len(rest) : rest[j] = w[i + j - 1]  BY SMT, <1>2
<1>4. Len(Wide(bits, c)) <= Len(rest) /\ \A j \in 1..Len(Wide(bits, c)) : rest[j] = Wide(bits, c)[j]
  <2>. DEFINE v == Wide(bits, c)
  <2>1. i + Len(v) - 1 <= Len(w) /\ \A j \in 1..Len(v) : w[i + j - 1] = v[j]
    <3>1. Begins(w, i, v)  OBVIOUS
    <3>. HIDE DEF v, rest
    <3>. QED  BY ONLY <3>1 DEF Begins
  <2>2. Len(v) \in Nat  BY <1>1
  <2>. HIDE DEF v, rest
  <2>3. Len(v) <= Len(rest)  BY SMT, <1>2, <1>3, <2>1, <2>2
  <2>4. \A j \in 1..Len(v) : j \in 1..Len(rest)  BY SMT, <1>2, <1>3, <2>2, <2>3
  <2>5. \A j \in 1..Len(v) : rest[j] = v[j]  BY ONLY <1>3, <2>1, <2>4
  <2>. QED  BY <2>3, <2>5 DEF v
<1>. HIDE DEF rest
<1>5. CASE bits = 32 \/ c < 65536
  <2>1. Wide(bits, c) = <<c>>  BY SMT, <1>5 DEF Wide
  <2>2. rest[1] = c /\ Len(Wide(bits, c)) = 1  BY SMT, <1>4, <2>1
  <2>3. bits # 32 => ~IsHigh(rest[1]) /\ ~IsLow(rest[1])
    BY SMT, <1>5, <2>2 DEF IsHigh, IsLow, High
  <2>. QED  BY SMT, <2>2, <2>3 DEF wchar_to_char32, rest
<1>6. CASE bits # 32 /\ 65536 <= c
  <2>1. Wide(bits, c) = <<55296 + ((c - 65536) \div 1024), 56320 + ((c - 65536) % 1024)>>
    BY SMT, <1>6 DEF Wide
  <2>2. /\ rest[1] = 55296 + ((c - 65536) \div 1024) /\ rest[2] = 56320 + ((c - 65536) % 1024)
        /\ Len(Wide(bits, c)) = 2 /\ 2 <= Len(rest) /\ Len(rest) \in Nat
    BY SMT, <1>2, <1>3, <1>4, <2>1
  <2>3. IsHigh(rest[1]) /\ ~IsLow(rest[1]) /\ IsLow(rest[2])
    BY SMT, <1>6, <2>2 DEF IsHigh, IsLow, High
  <2>4. Low(rest[1], 1024) * 1024 + Low(rest[2], 1024) + 65536 = c  BY SMT, <1>6, <2>2 DEF Low
  <2>. QED  BY SMT, <1>6, <2>2, <2>3, <2>4 DEF wchar_to_char32, rest
<1>. QED  BY SMT, <1>5, <1>6

-----------------------------------------------------------------------------
\* Induction over an interval, upwards and downwards.

LEMMA Upwards ==
  ASSUME NEW n \in Nat, NEW S, 0 \in S, \A k \in 0..n : k \in S /\ k < n => k + 1 \in S
  PROVE  \A k \in 0..n : k \in S
<1>. DEFINE none == (0..n) \ S
<1>1. ASSUME NEW k \in none, \A j \in none : k <= j PROVE FALSE
  <2>1. k # 0 /\ k - 1 \in 0..n /\ k - 1 + 1 = k /\ k - 1 < n  BY <1>1
  <2>2. k - 1 \in S  BY <1>1, <2>1
  <2>. QED  BY <1>1, <2>1, <2>2
<1>2. none \in SUBSET Nat  OBVIOUS
<1>. QED  BY <1>1, <1>2, LeastOf

LEMMA Downwards ==
  ASSUME NEW n \in Nat, NEW S, n \in S, \A k \in 0..n : k \in S /\ 0 < k => k - 1 \in S
  PROVE  \A k \in 0..n : k \in S
<1>. DEFINE T == {k \in 0..n : n - k \in S}
<1>1. 0 \in T  OBVIOUS
<1>2. ASSUME NEW k \in 0..n, k \in T, k < n PROVE k + 1 \in T
  <2>1. n - k \in 0..n /\ n - k \in S /\ 0 < n - k  BY <1>2
  <2>2. n - k - 1 \in S  BY <2>1
  <2>. QED  BY <1>2, <2>2
<1>. HIDE DEF T
<1>3. \A k \in 0..n : k \in T  BY <1>1, <1>2, Upwards
<1>4. ASSUME NEW k \in 0..n PROVE k \in S
  <2>1. n - k \in 0..n /\ n - (n - k) = k  OBVIOUS
  <2>2. n - k \in T  BY <1>3, <2>1
  <2>. QED  BY <2>1, <2>2 DEF T
<1>. QED  BY <1>4

-----------------------------------------------------------------------------
\* A loop over the places of a string, that moves on at each turn.

Turns(L, puts, next, from) ==
  from = [i \in 1..(L + 1) |-> IF i > L THEN <<>> ELSE puts[i] \o from[next[i]]]

Loop(L, puts, next, from) ==
  /\ L \in Nat
  /\ puts \in [1..L -> Seq(Nat)]
  /\ next \in [1..L -> 1..(L + 1)] /\ \A i \in 1..L : next[i] > i
  /\ Turns(L, puts, next, from)

\* From lo it moves on by one and writes nothing, up to hi.
Passes(puts, next, lo, hi) == \A i \in lo..(hi - 1) : puts[i] = <<>> /\ next[i] = i + 1

LEMMA TurnsDefined ==
  ASSUME NEW L \in Nat, NEW puts, NEW next \in [1..L -> 1..(L + 1)],
         \A i \in 1..L : next[i] > i
  PROVE  \E from : Turns(L, puts, next, from)
<1>. DEFINE Turn(from, i) == IF i > L THEN <<>> ELSE puts[i] \o from[next[i]]
            Ends(k, from) == \A i \in 1..(L + 1) : k < i => from[i] = Turn(from, i)
            S == {k \in 0..L : \E from : Ends(k, from)}
<1>1. L \in S
  <2>1. Ends(L, [i \in 1..(L + 1) |-> <<>>])  OBVIOUS
  <2>. HIDE DEF Ends
  <2>. QED  BY <2>1
<1>2. ASSUME NEW k \in 0..L, k \in S, 0 < k PROVE k - 1 \in S
  <2>1. PICK from : Ends(k, from)  BY <1>2
  <2>. DEFINE more == [i \in 1..(L + 1) |-> IF i = k THEN puts[k] \o from[next[k]] ELSE from[i]]
  <2>2. ASSUME NEW i \in 1..(L + 1), k - 1 < i PROVE more[i] = Turn(more, i)
    <3>0. i <= L => next[i] \in 1..(L + 1) /\ next[i] # k  BY <1>2, <2>2
    <3>1. i <= L => more[next[i]] = from[next[i]]  BY <3>0
    <3>2. CASE i = k
      <4>1. more[i] = puts[k] \o from[next[k]]  BY <3>2
      <4>. HIDE DEF more
      <4>3. ~(i > L) /\ i <= L  BY <1>2, <3>2
      <4>4. more[next[i]] = from[next[i]]  BY <3>1, <4>3
      <4>2. more[i] = puts[i] \o more[next[i]]  BY Zenon, <3>2, <4>1, <4>4
      <4>. QED  BY <4>2, <4>3
    <3>3. CASE i # k
      <4>1. k < i /\ more[i] = from[i]  BY <3>3, <1>2, <2>2
      <4>2. from[i] = Turn(from, i)  BY <2>1, <4>1
      <4>. HIDE DEF more
      <4>. QED  BY <3>1, <4>1, <4>2
    <3>. QED  BY <3>2, <3>3
  <2>. HIDE DEF more, Turn
  <2>5. Ends(k - 1, more)  BY <2>2
  <2>. HIDE DEF Ends
  <2>. QED  BY <1>2, <2>5
<1>. HIDE DEF S
<1>3. 0 \in S  BY <1>1, <1>2, Downwards
<1>4. PICK from : Ends(0, from)  BY <1>3 DEF S
<1>. DEFINE whole == [i \in 1..(L + 1) |-> from[i]]
<1>5. ASSUME NEW i \in 1..(L + 1) PROVE whole[i] = Turn(whole, i)
  <2>0. 0 < i  OBVIOUS
  <2>. HIDE DEF Turn
  <2>1. from[i] = Turn(from, i)  BY <1>4, <2>0
  <2>. USE DEF Turn
  <2>2. i <= L => next[i] \in 1..(L + 1)  OBVIOUS
  <2>3. i <= L => whole[next[i]] = from[next[i]]  BY <2>2
  <2>4. whole[i] = from[i]  OBVIOUS
  <2>. HIDE DEF whole
  <2>. QED  BY <2>1, <2>3, <2>4
<1>6. whole = [i \in 1..(L + 1) |-> Turn(whole, i)]
  <2>. HIDE DEF Turn
  <2>1. whole = [i \in 1..(L + 1) |-> whole[i]]  OBVIOUS
  <2>. HIDE DEF whole
  <2>. QED  BY <1>5, <2>1
<1>. HIDE DEF whole
<1>. QED  BY <1>6 DEF Turns

LEMMA LoopTyped ==
  ASSUME NEW V, NEW L \in Nat, NEW puts \in [1..L -> Seq(V)], NEW next \in [1..L -> 1..(L + 1)],
         \A i \in 1..L : next[i] > i, NEW from, Turns(L, puts, next, from)
  PROVE  from \in [1..(L + 1) -> Seq(V)]
<1>. DEFINE S == {k \in 0..L : \A i \in 1..(L + 1) : k < i => from[i] \in Seq(V)}
<1>0. \A i \in 1..(L + 1) : from[i] = IF i > L THEN <<>> ELSE puts[i] \o from[next[i]]
  BY DEF Turns
<1>1. L \in S
  <2>1. ASSUME NEW i \in 1..(L + 1), L < i PROVE from[i] \in Seq(V)
    <3>1. i > L  BY <2>1
    <3>2. from[i] = <<>>  BY <1>0, <3>1
    <3>. QED  BY <3>2
  <2>. QED  BY <2>1
<1>2. ASSUME NEW k \in 0..L, k \in S, 0 < k PROVE k - 1 \in S
  <2>1. k \in 1..L /\ k \in 1..(L + 1) /\ ~(k > L)  BY <1>2
  <2>2. next[k] \in 1..(L + 1) /\ k < next[k]  BY <2>1
  <2>3. from[next[k]] \in Seq(V) /\ puts[k] \in Seq(V)  BY <1>2, <2>1, <2>2
  <2>4. from[k] = puts[k] \o from[next[k]]  BY <1>0, <2>1
  <2>5. from[k] \in Seq(V)  BY <2>3, <2>4
  <2>6. ASSUME NEW i \in 1..(L + 1), k - 1 < i PROVE from[i] \in Seq(V)
    <3>1. i = k \/ k < i  BY <1>2, <2>6
    <3>. QED  BY <1>2, <2>5, <3>1
  <2>. QED  BY <1>2, <2>6
<1>. HIDE DEF S
<1>3. 0 \in S  BY <1>1, <1>2, Downwards
<1>4. \A i \in 1..(L + 1) : from[i] \in Seq(V)  BY <1>3 DEF S
<1>. QED  BY <1>4 DEF Turns

\* Where nothing is written and the loop moves on by one.
LEMMA Skips ==
  ASSUME NEW L, NEW puts, NEW next, NEW from, Loop(L, puts, next, from)
  PROVE  \A lo \in 1..(L + 1) : \A hi \in lo..(L + 1) :
           Passes(puts, next, lo, hi) => from[lo] = from[hi]
<1> SUFFICES ASSUME NEW lo \in 1..(L + 1), NEW hi \in lo..(L + 1),
                    \A i \in lo..(hi - 1) : puts[i] = <<>> /\ next[i] = i + 1
             PROVE  from[lo] = from[hi]
  BY DEF Passes
<1>. /\ L \in Nat /\ puts \in [1..L -> Seq(Nat)] /\ next \in [1..L -> 1..(L + 1)]
     /\ (\A i \in 1..L : next[i] > i) /\ Turns(L, puts, next, from)
  BY DEF Loop
<1>. DEFINE n == hi - lo
            S == {k \in 0..n : from[lo] = from[lo + k]}
<1>0. n \in Nat /\ lo + n = hi /\ lo + 0 = lo  OBVIOUS
<1>4. from \in [1..(L + 1) -> Seq(Nat)]
  <2>. DEFINE V == Nat
  <2>1. puts \in [1..L -> Seq(V)]  OBVIOUS
  <2>. HIDE DEF V
  <2>2. from \in [1..(L + 1) -> Seq(V)]  BY <2>1, LoopTyped
  <2>. QED  BY <2>2 DEF V
<1>1. 0 \in S  BY <1>0
<1>2. ASSUME NEW k \in 0..n, k \in S, k < n PROVE k + 1 \in S
  <2>1. lo + k \in lo..(hi - 1) /\ lo + k \in 1..L /\ lo + k \in 1..(L + 1) /\ ~(lo + k > L)  BY <1>2
  <2>2. from[lo + k] = puts[lo + k] \o from[next[lo + k]]  BY <2>1 DEF Turns
  <2>3. puts[lo + k] = <<>> /\ next[lo + k] = lo + (k + 1) /\ next[lo + k] \in 1..(L + 1)  BY <2>1
  <2>4. from[lo + (k + 1)] \in Seq(Nat)  BY <1>4, <2>3
  <2>5. from[lo + k] = from[lo + (k + 1)]  BY <2>2, <2>3, <2>4
  <2>. QED  BY <1>2, <2>5
<1>. HIDE DEF S, n
<1>3. n \in S
  <2>1. \A k \in 0..n : k \in S  BY <1>0, <1>1, <1>2, Upwards
  <2>. QED  BY <1>0, <2>1
<1>. QED  BY <1>0, <1>3 DEF S

-----------------------------------------------------------------------------
\* FlattenSeq goes through the pieces one after the other.

Flats(pieces, flat) ==
  /\ flat[0] = <<>>
  /\ \A k \in 1..Len(pieces) : flat[k] = flat[k - 1] \o pieces[k]

LEMMA FlattenIs ==
  ASSUME NEW pieces \in Seq(Seq(Nat))
  PROVE  \E flat \in [0..Len(pieces) -> Seq(Nat)] :
           Flats(pieces, flat) /\ FlattenSeq(pieces) = flat[Len(pieces)]
<1>. DEFINE n == Len(pieces)
            Turn(f, i) == IF i = 1 THEN pieces[i] ELSE f[i - 1] \o pieces[i]
            Upto(k, f) == \A i \in 1..n : i <= k => f[i] = Turn(f, i)
            S == {k \in 0..n : \E f : Upto(k, f)}
<1>0. n \in Nat /\ \A i \in 1..n : pieces[i] \in Seq(Nat)  OBVIOUS
<1>1. 0 \in S  BY <1>0
<1>. HIDE DEF n
<1>2. ASSUME NEW k \in 0..n, k \in S, k < n PROVE k + 1 \in S
  <2>1. PICK f : Upto(k, f)  BY <1>2
  <2>. DEFINE more == [i \in 1..n |-> IF i = k + 1 THEN Turn(f, i) ELSE f[i]]
  <2>2. ASSUME NEW i \in 1..n, i <= k + 1 PROVE more[i] = Turn(more, i)
    <3>1. ASSUME i # 1 PROVE more[i - 1] = f[i - 1]
      <4>1. i - 1 \in 1..n /\ i - 1 <= k /\ i - 1 # k + 1  BY <1>0, <1>2, <2>2, <3>1
      <4>. QED  BY <2>1, <4>1
    <3>2. more[i] = Turn(f, i)
      <4>1. CASE i = k + 1  BY <4>1
      <4>2. CASE i # k + 1
        <5>1. i <= k /\ more[i] = f[i]  BY <1>2, <2>2, <4>2
        <5>. HIDE DEF more
        <5>. QED  BY <2>1, <5>1
      <4>. QED  BY <4>1, <4>2
    <3>. HIDE DEF more
    <3>3. Turn(f, i) = Turn(more, i)  BY <3>1
    <3>. QED  BY <3>2, <3>3
  <2>. HIDE DEF more, Turn
  <2>3. Upto(k + 1, more)  BY <2>2
  <2>. HIDE DEF Upto
  <2>. QED  BY <1>0, <1>2, <2>3
<1>. HIDE DEF S
<1>3. n \in S
  <2>1. \A k \in 0..n : k \in S  BY <1>0, <1>1, <1>2, Upwards
  <2>. QED  BY <1>0, <2>1
<1>4. PICK f : Upto(n, f)  BY <1>3 DEF S
<1>. DEFINE whole == [i \in 1..n |-> f[i]]
<1>5. ASSUME NEW i \in 1..n PROVE whole[i] = Turn(whole, i)
  <2>1. i <= n  BY <1>0
  <2>2. f[i] = Turn(f, i)  BY <1>4, <2>1
  <2>3. i # 1 => i - 1 \in 1..n  BY <1>0
  <2>4. i # 1 => whole[i - 1] = f[i - 1]  BY <2>3
  <2>5. whole[i] = f[i]  OBVIOUS
  <2>. HIDE DEF whole
  <2>. QED  BY <2>2, <2>4, <2>5
<1>6. whole = [i \in 1..n |-> Turn(whole, i)]
  <2>. HIDE DEF Turn
  <2>1. whole = [i \in 1..n |-> whole[i]]  OBVIOUS
  <2>. HIDE DEF whole
  <2>. QED  BY <1>5, <2>1
<1>. HIDE DEF whole
<1>. DEFINE flatten == CHOOSE g : g = [i \in 1..n |-> Turn(g, i)]
<1>7. flatten = [i \in 1..n |-> Turn(flatten, i)]
  <2>. HIDE DEF Turn
  <2>. QED  BY <1>6
<1>. HIDE DEF flatten
<1>8. FlattenSeq(pieces) = IF n = 0 THEN pieces ELSE flatten[n]  BY DEF FlattenSeq, n, flatten
<1>9. \A k \in 1..n : flatten[k] \in Seq(Nat)
  <2>. DEFINE Q == {k \in 0..n : k # 0 => flatten[k] \in Seq(Nat)}
  <2>1. 0 \in Q  BY <1>0
  <2>2. ASSUME NEW k \in 0..n, k \in Q, k < n PROVE k + 1 \in Q
    <3>1. k + 1 \in 1..n /\ k + 1 \in 0..n /\ k + 1 - 1 = k  BY <1>0, <2>2
    <3>2. flatten[k + 1] = Turn(flatten, k + 1)  BY <1>7, <3>1
    <3>3. flatten[k + 1] = IF k = 0 THEN pieces[k + 1] ELSE flatten[k] \o pieces[k + 1]
      BY <1>0, <3>1, <3>2, <2>2
    <3>4. flatten[k + 1] \in Seq(Nat)  BY <1>0, <2>2, <3>1, <3>3
    <3>. QED  BY <3>1, <3>4
  <2>. HIDE DEF Q
  <2>3. \A k \in 0..n : k \in Q  BY <1>0, <2>1, <2>2, Upwards
  <2>4. ASSUME NEW k \in 1..n PROVE flatten[k] \in Seq(Nat)
    <3>1. k \in 0..n /\ k # 0  BY <1>0
    <3>. QED  BY <2>3, <3>1 DEF Q
  <2>. QED  BY <2>4
<1>. DEFINE flat == [k \in 0..n |-> IF k = 0 THEN <<>> ELSE flatten[k]]
<1>10. flat[0] = <<>> /\ \A k \in 1..n : flat[k] = flatten[k]  BY <1>0
<1>11. flat \in [0..n -> Seq(Nat)]
  <2>1. ASSUME NEW k \in 0..n PROVE (IF k = 0 THEN <<>> ELSE flatten[k]) \in Seq(Nat)
    <3>1. k # 0 => k \in 1..n  BY <1>0
    <3>. QED  BY <1>9, <3>1
  <2>. QED  BY <2>1
<1>. HIDE DEF flat
<1>12. ASSUME NEW k \in 1..n PROVE flat[k] = flat[k - 1] \o pieces[k]
  <2>1. flat[k] = IF k = 1 THEN pieces[k] ELSE flatten[k - 1] \o pieces[k]  BY <1>7, <1>10
  <2>2. CASE k = 1
    <3>1. k - 1 = 0 /\ <<>> \o pieces[k] = pieces[k]  BY <1>0, <2>2
    <3>. QED  BY <1>10, <2>1, <2>2, <3>1
  <2>3. CASE k # 1
    <3>1. k - 1 \in 1..n  BY <1>0, <2>3
    <3>. QED  BY <1>10, <2>1, <2>3, <3>1
  <2>. QED  BY <2>2, <2>3
<1>13. FlattenSeq(pieces) = flat[n]
  <2>1. n = 0 => pieces = <<>>  BY DEF n
  <2>2. n # 0 => n \in 1..n  BY <1>0
  <2>. QED  BY <1>8, <1>10, <2>1, <2>2
<1>14. Flats(pieces, flat)  BY <1>10, <1>12 DEF Flats, n
<1>. QED  BY <1>11, <1>13, <1>14 DEF n

LEMMA ConcatHas ==
  ASSUME NEW s \in Seq(Nat), NEW t \in Seq(Nat), NEW u, u = s \o t
  PROVE  /\ u \in Seq(Nat) /\ Len(u) = Len(s) + Len(t)
         /\ Len(s) \in Nat /\ Len(t) \in Nat /\ Len(u) \in Nat /\ Len(s) <= Len(u)
         /\ \A j \in 1..Len(s) : u[j] = s[j]
         /\ \A j \in 1..Len(t) : u[Len(s) + j] = t[j]
OBVIOUS

LEMMA Associates == \A s, t, u \in Seq(Nat) : (s \o t) \o u = s \o (t \o u)
<1>. DEFINE V == Nat
<1>. HIDE DEF V
<1>1. \A s, t, u \in Seq(V) : (s \o t) \o u = s \o (t \o u)  BY ConcatAssociative
<1>. QED  BY <1>1 DEF V

LEMMA BeginsBehind ==
  ASSUME NEW s \in Seq(Nat), NEW t \in Seq(Nat), NEW u, u = s \o t,
         NEW w \in Seq(Nat), Len(u) <= Len(w), \A j \in 1..Len(u) : w[j] = u[j],
         NEW tail \in Seq(Nat)
  PROVE  Begins(w \o tail, Len(s) + 1, t)
<1>1. /\ u \in Seq(Nat) /\ Len(u) = Len(s) + Len(t) /\ Len(s) \in Nat /\ Len(t) \in Nat
      /\ \A j \in 1..Len(t) : u[Len(s) + j] = t[j]
  BY ConcatHas
<1>. DEFINE v == w \o tail
<1>2. Len(v) \in Nat /\ Len(w) \in Nat /\ Len(w) <= Len(v) /\ \A j \in 1..Len(w) : v[j] = w[j]
  BY ConcatHas
<1>. HIDE DEF v
<1>3. Len(s) + 1 + Len(t) - 1 <= Len(v)  BY <1>1, <1>2
<1>4. ASSUME NEW j \in 1..Len(t) PROVE v[Len(s) + 1 + j - 1] = t[j]
  <2>. DEFINE i == Len(s) + j
  <2>1. i \in 1..Len(u) /\ i \in 1..Len(w) /\ Len(s) + 1 + j - 1 = i  BY <1>1, <1>2
  <2>2. u[i] = t[j]  BY <1>1
  <2>. HIDE DEF i
  <2>3. v[i] = u[i]  BY <1>2, <2>1
  <2>. QED  BY <2>1, <2>2, <2>3
<1>. QED  BY <1>3, <1>4 DEF Begins, v

LEMMA BeginsBoth ==
  ASSUME NEW u \in Seq(Nat), NEW i \in Nat \ {0}, NEW s \in Seq(Nat), NEW t \in Seq(Nat),
         Begins(u, i, s \o t)
  PROVE  Begins(u, i, s) /\ Begins(u, i + Len(s), t)
<1>. DEFINE v == s \o t
<1>1. /\ Len(v) = Len(s) + Len(t) /\ Len(s) \in Nat /\ Len(t) \in Nat
      /\ \A j \in 1..Len(s) : v[j] = s[j]
      /\ \A j \in 1..Len(t) : v[Len(s) + j] = t[j]
  BY ConcatHas
<1>2. Len(u) \in Nat /\ i + Len(v) - 1 <= Len(u) /\ \A j \in 1..Len(v) : u[i + j - 1] = v[j]
  BY DEF Begins
<1>. HIDE DEF v
<1>3. ASSUME NEW j \in 1..Len(s) PROVE u[i + j - 1] = s[j]
  <2>1. j \in 1..Len(v)  BY <1>1
  <2>. QED  BY <1>1, <1>2, <2>1
<1>4. ASSUME NEW j \in 1..Len(t) PROVE u[i + Len(s) + j - 1] = t[j]
  <2>. DEFINE m == Len(s) + j
  <2>1. m \in 1..Len(v) /\ i + Len(s) + j - 1 = i + m - 1  BY <1>1
  <2>2. v[m] = t[j]  BY <1>1
  <2>. HIDE DEF m
  <2>. QED  BY <1>2, <2>1, <2>2
<1>5. i + Len(s) - 1 <= Len(u) /\ i + Len(s) + Len(t) - 1 <= Len(u)  BY <1>1, <1>2
<1>. QED  BY <1>3, <1>4, <1>5 DEF Begins

LEMMA BeginsLast ==
  ASSUME NEW s \in Seq(Nat), NEW t \in Seq(Nat), NEW u, u = s \o t
  PROVE  Begins(u, Len(s) + 1, t) /\ Len(s) + 1 + Len(t) = Len(u) + 1
<1>1. /\ Len(u) = Len(s) + Len(t) /\ Len(s) \in Nat /\ Len(t) \in Nat
      /\ \A j \in 1..Len(t) : u[Len(s) + j] = t[j]
  BY ConcatHas
<1>2. ASSUME NEW j \in 1..Len(t) PROVE u[Len(s) + 1 + j - 1] = t[j]
  <2>1. Len(s) + 1 + j - 1 = Len(s) + j  BY <1>1
  <2>. QED  BY <1>1, <2>1
<1>. QED  BY <1>1, <1>2 DEF Begins

LEMMA FlatHas ==
  ASSUME NEW pieces \in Seq(Seq(Nat)), NEW flat \in [0..Len(pieces) -> Seq(Nat)], Flats(pieces, flat),
         NEW k \in 1..Len(pieces), NEW tail \in Seq(Nat)
  PROVE  Begins(flat[Len(pieces)] \o tail, Len(flat[k - 1]) + 1, pieces[k])
<1>. DEFINE n == Len(pieces)
            Starts(m) == /\ Len(flat[k]) <= Len(flat[m])
                         /\ \A j \in 1..Len(flat[k]) : flat[m][j] = flat[k][j]
            S == {m \in 0..n : k <= m => Starts(m)}
<1>0. n \in Nat /\ k \in 1..n  OBVIOUS
<1>1. \A m \in 1..n : flat[m] = flat[m - 1] \o pieces[m] /\ pieces[m] \in Seq(Nat)
  <2>1. \A m \in 1..n : pieces[m] \in Seq(Nat)  OBVIOUS
  <2>. QED  BY <2>1 DEF Flats
<1>2. \A m \in 0..n : flat[m] \in Seq(Nat)  OBVIOUS
<1>. HIDE DEF n
<1>3. Len(flat[k]) \in Nat  BY <1>0, <1>2
<1>4. 0 \in S  BY <1>0
<1>5. ASSUME NEW m \in 0..n, m \in S, m < n PROVE m + 1 \in S
  <2>. DEFINE next == m + 1
  <2>1. next \in 0..n /\ next \in 1..n /\ next - 1 = m  BY <1>0, <1>5
  <2>2. CASE k <= m
    <3>. HIDE DEF next
    <3>1. flat[next] = flat[m] \o pieces[next] /\ pieces[next] \in Seq(Nat) /\ flat[m] \in Seq(Nat)
      BY <1>1, <1>2, <2>1
    <3>2. /\ Len(flat[next]) \in Nat /\ Len(flat[m]) \in Nat /\ Len(flat[m]) <= Len(flat[next])
          /\ \A j \in 1..Len(flat[m]) : flat[next][j] = flat[m][j]
      <4>. DEFINE s == flat[m]
                  t == pieces[next]
                  u == flat[next]
      <4>1. s \in Seq(Nat) /\ t \in Seq(Nat) /\ u = s \o t  BY <3>1
      <4>. HIDE DEF s, t, u
      <4>2. /\ Len(u) \in Nat /\ Len(s) \in Nat /\ Len(s) <= Len(u)
            /\ \A j \in 1..Len(s) : u[j] = s[j]
        BY <4>1, ConcatHas
      <4>. QED  BY <4>2 DEF s, u
    <3>3. Starts(m)  BY <1>5, <2>2
    <3>4. Starts(next)  BY <1>3, <3>2, <3>3
    <3>. QED  BY <2>1, <3>4 DEF next
  <2>3. CASE k = next
    <3>. HIDE DEF next
    <3>1. Starts(next)  BY <1>3, <2>3
    <3>. QED  BY <2>1, <3>1 DEF next
  <2>4. CASE next < k  BY <1>0, <2>1, <2>4
  <2>5. k <= m \/ k = next \/ next < k  BY <1>0, <1>5
  <2>. QED  BY <2>2, <2>3, <2>4, <2>5
<1>. HIDE DEF S
<1>6. n \in S
  <2>1. \A m \in 0..n : m \in S  BY <1>0, <1>4, <1>5, Upwards
  <2>. QED  BY <1>0, <2>1
<1>7. Starts(n)  BY <1>0, <1>6 DEF S
<1>8. k - 1 \in 0..n /\ n \in 0..n  BY <1>0
<1>9. /\ flat[k] = flat[k - 1] \o pieces[k] /\ pieces[k] \in Seq(Nat)
      /\ flat[k - 1] \in Seq(Nat) /\ flat[n] \in Seq(Nat)
  BY <1>0, <1>1, <1>2, <1>8
<1>. QED  BY <1>7, <1>9, BeginsBehind DEF n

-----------------------------------------------------------------------------
\* What the loop writes, when it comes to the n characters at the places loc[1..n], the
\* next of them behind pos[k], and passes over all others.

Visits(L, puts, next, pieces, pos, loc) ==
  /\ pos \in [0..Len(pieces) -> 1..(L + 1)] /\ pos[0] = 1
  /\ loc \in [1..Len(pieces) -> 1..L]
  /\ \A k \in 1..Len(pieces) :
        /\ pos[k - 1] <= loc[k]
        /\ Passes(puts, next, pos[k - 1], loc[k])
        /\ puts[loc[k]] = pieces[k] /\ next[loc[k]] = pos[k]
  /\ Passes(puts, next, pos[Len(pieces)], L + 1)

LEMMA LoopConverts ==
  ASSUME NEW L, NEW puts, NEW next, NEW from, Loop(L, puts, next, from),
         NEW pieces \in Seq(Seq(Nat)), NEW pos, NEW loc, Visits(L, puts, next, pieces, pos, loc)
  PROVE  from[1] = FlattenSeq(pieces)
<1>11. \A lo \in 1..(L + 1) : \A hi \in lo..(L + 1) :
         Passes(puts, next, lo, hi) => from[lo] = from[hi]
  BY Skips
<1>. /\ L \in Nat /\ puts \in [1..L -> Seq(Nat)] /\ next \in [1..L -> 1..(L + 1)]
     /\ (\A i \in 1..L : next[i] > i) /\ Turns(L, puts, next, from)
  BY DEF Loop
<1>. /\ pos \in [0..Len(pieces) -> 1..(L + 1)] /\ pos[0] = 1
     /\ loc \in [1..Len(pieces) -> 1..L]
     /\ \A k \in 1..Len(pieces) :
           /\ pos[k - 1] <= loc[k]
           /\ Passes(puts, next, pos[k - 1], loc[k])
           /\ puts[loc[k]] = pieces[k] /\ next[loc[k]] = pos[k]
     /\ Passes(puts, next, pos[Len(pieces)], L + 1)
  BY DEF Visits
<1>. DEFINE n == Len(pieces)
<1>0. n \in Nat /\ \A k \in 1..n : pieces[k] \in Seq(Nat)  OBVIOUS
<1>1. PICK flat \in [0..n -> Seq(Nat)] : Flats(pieces, flat) /\ FlattenSeq(pieces) = flat[n]
  BY FlattenIs
<1>2. from \in [1..(L + 1) -> Seq(Nat)]
  <2>. DEFINE V == Nat
  <2>1. puts \in [1..L -> Seq(V)]  OBVIOUS
  <2>. HIDE DEF V
  <2>2. from \in [1..(L + 1) -> Seq(V)]  BY <2>1, LoopTyped
  <2>. QED  BY <2>2 DEF V
<1>3. \A k \in 1..n : flat[k] = flat[k - 1] \o pieces[k]  BY <1>1 DEF Flats
<1>4. \A k \in 0..n : flat[k] \in Seq(Nat) /\ pos[k] \in 1..(L + 1)  BY <1>1
<1>. DEFINE S == {k \in 0..n : from[1] = flat[k] \o from[pos[k]]}
<1>5. 0 \in S
  <2>1. flat[0] = <<>>  BY <1>1 DEF Flats
  <2>2. from[1] \in Seq(Nat)  BY <1>2
  <2>3. from[1] = <<>> \o from[1]  BY <2>2
  <2>4. from[1] = flat[0] \o from[pos[0]]  BY Zenon, <2>1, <2>3
  <2>. QED  BY <1>0, <2>4
<1>6. ASSUME NEW k \in 0..n, k \in S, k < n PROVE k + 1 \in S
  <2>. DEFINE m == k + 1
  <2>1. m \in 0..n /\ m \in 1..n /\ m - 1 = k  BY <1>0, <1>6
  <2>. HIDE DEF m
  <2>2. /\ pos[k] <= loc[m] /\ puts[loc[m]] = pieces[m] /\ next[loc[m]] = pos[m] /\ loc[m] \in 1..L
        /\ Passes(puts, next, pos[k], loc[m])
    BY <2>1
  <2>3. pos[k] \in 1..(L + 1) /\ loc[m] \in pos[k]..(L + 1)  BY <1>4, <2>2
  <2>4. from[pos[k]] = from[loc[m]]  BY <1>11, <2>2, <2>3
  <2>5. from[loc[m]] = pieces[m] \o from[pos[m]]
    <3>1. loc[m] \in 1..(L + 1) /\ ~(loc[m] > L)  BY <2>2
    <3>2. from[loc[m]] = puts[loc[m]] \o from[next[loc[m]]]  BY <3>1 DEF Turns
    <3>. QED  BY <2>2, <3>2
  <2>6. flat[m] = flat[k] \o pieces[m]  BY <1>3, <2>1
  <2>7. flat[k] \in Seq(Nat) /\ pieces[m] \in Seq(Nat) /\ from[pos[m]] \in Seq(Nat)
    BY <1>0, <1>2, <1>4, <2>1
  <2>8. flat[k] \o (pieces[m] \o from[pos[m]]) = (flat[k] \o pieces[m]) \o from[pos[m]]
    BY <2>7, Associates
  <2>9. from[1] = flat[k] \o from[pos[k]]  BY <1>6
  <2>10. from[1] = flat[m] \o from[pos[m]]  BY Zenon, <2>4, <2>5, <2>6, <2>8, <2>9
  <2>. QED  BY <2>1, <2>10 DEF m
<1>. HIDE DEF S
<1>7. n \in S
  <2>1. \A k \in 0..n : k \in S  BY <1>0, <1>5, <1>6, Upwards
  <2>. QED  BY <1>0, <2>1
<1>8. from[1] = flat[n] \o from[pos[n]]  BY <1>7 DEF S
<1>9. from[pos[n]] = <<>>
  <2>1. n \in 0..n /\ pos[n] \in 1..(L + 1)  BY <1>0, <1>4
  <2>. DEFINE e == L + 1
  <2>3. e \in pos[n]..(L + 1) /\ e \in 1..(L + 1) /\ e > L  BY <2>1
  <2>4. Passes(puts, next, pos[n], e)  OBVIOUS
  <2>5. from[e] = <<>>  BY <2>3 DEF Turns
  <2>. HIDE DEF e
  <2>6. from[pos[n]] = from[e]  BY <1>11, <2>1, <2>3, <2>4
  <2>. QED  BY <2>5, <2>6
<1>10. flat[n] \in Seq(Nat) /\ flat[n] \o <<>> = flat[n]
  <2>1. flat[n] \in Seq(Nat)  BY <1>0, <1>4
  <2>. QED  BY <2>1
<1>. QED  BY <1>1, <1>8, <1>9, <1>10

-----------------------------------------------------------------------------
\* to_u16 is such a loop.

Out8(bits, u) == [i \in 1..Len(u) |-> ToWide(bits, utf8_to_char32(SubSeq(u, i, Len(u))))]
Next8(u)      == [i \in 1..Len(u) |-> i + utf8_to_char32(SubSeq(u, i, Len(u))).took]

LEMMA Reads8 ==
  ASSUME NEW rest \in Seq(Nat), rest # <<>>
  PROVE  /\ utf8_to_char32(rest).took \in 1..Len(rest)
         /\ utf8_to_char32(rest).ch = <<>> \/ \E ch \in Nat : utf8_to_char32(rest).ch = <<ch>>
<1>. DEFINE n == Following(rest[1])
            r == utf8_to_char32(rest)
<1>1. Len(rest) \in Nat \ {0} /\ \A i \in 1..Len(rest) : rest[i] \in Nat  BY SMT
<1>2. rest[1] \in Nat  BY SMT, <1>1
<1>3. n \in {-1, 0, 1, 2, 3}  BY SMT, <1>2 DEF Following
<1>. HIDE DEF n
<1>4. CASE n = -1 \/ n >= Len(rest)
  <2>1. r = [took |-> 1, ch |-> <<>>]  BY SMT, <1>4 DEF utf8_to_char32, n
  <2>. QED  BY SMT, <1>1, <2>1
<1>5. CASE ~(n = -1 \/ n >= Len(rest))
  <2>1. n \in {0, 1, 2, 3} /\ n + 1 <= Len(rest)  BY SMT, <1>1, <1>3, <1>5
  <2>2. r.took = n + 1  BY SMT, <1>5 DEF utf8_to_char32, n
  <2>3. /\ n = 0 => r.ch = <<rest[1]>>
        /\ n = 1 => r.ch = <<Low(rest[1], 32) * 64 + Low(rest[2], 64)>>
        /\ n = 2 => r.ch = <<Low(rest[1], 16) * 4096 + Low(rest[2], 64) * 64 + Low(rest[3], 64)>>
        /\ n = 3 => r.ch = <<Low(rest[1], 16) * 262144 + Low(rest[2], 64) * 4096
                              + Low(rest[3], 64) * 64 + Low(rest[4], 64)>>
    BY SMTT(30), <1>5 DEF utf8_to_char32, n
  <2>4. \A i \in 1..Len(rest) : Low(rest[i], 64) \in Nat /\ Low(rest[i], 32) \in Nat /\ Low(rest[i], 16) \in Nat
    BY SMT, <1>1 DEF Low
  <2>5. \A i \in 1..(n + 1) : i \in 1..Len(rest)  BY SMT, <1>1, <2>1
  <2>. HIDE DEF r
  <2>6. \E ch \in Nat : r.ch = <<ch>>
    <3>0. CASE n = 0  BY SMT, <1>2, <2>3, <3>0
    <3>1. CASE n = 1
      <4>. DEFINE ch == Low(rest[1], 32) * 64 + Low(rest[2], 64)
      <4>1. ch \in Nat  BY SMT, <2>4, <2>5, <3>1
      <4>2. r.ch = <<ch>>  BY SMT, <2>3, <3>1
      <4>. HIDE DEF ch
      <4>. QED  BY SMT, <4>1, <4>2
    <3>2. CASE n = 2
      <4>. DEFINE ch == Low(rest[1], 16) * 4096 + Low(rest[2], 64) * 64 + Low(rest[3], 64)
      <4>0. Low(rest[1], 16) \in Nat /\ Low(rest[2], 64) \in Nat /\ Low(rest[3], 64) \in Nat
        BY SMT, <2>4, <2>5, <3>2
      <4>1. ch \in Nat  BY SMT, <4>0
      <4>2. r.ch = <<ch>>  BY SMT, <2>3, <3>2
      <4>. HIDE DEF ch
      <4>. QED  BY SMT, <4>1, <4>2
    <3>3. CASE n = 3
      <4>. DEFINE ch == Low(rest[1], 16) * 262144 + Low(rest[2], 64) * 4096
                          + Low(rest[3], 64) * 64 + Low(rest[4], 64)
      <4>0. /\ Low(rest[1], 16) \in Nat /\ Low(rest[2], 64) \in Nat
            /\ Low(rest[3], 64) \in Nat /\ Low(rest[4], 64) \in Nat
        BY SMT, <2>4, <2>5, <3>3
      <4>1. ch \in Nat  BY SMTT(30), <4>0
      <4>2. r.ch = <<ch>>  BY SMT, <2>3, <3>3
      <4>. HIDE DEF ch
      <4>. QED  BY SMT, <4>1, <4>2
    <3>. QED  BY SMT, <2>1, <3>0, <3>1, <3>2, <3>3
  <2>. QED  BY SMT, <1>1, <2>1, <2>2, <2>6 DEF r
<1>. QED  BY SMT, <1>4, <1>5

LEMMA WritesNat ==
  ASSUME NEW ch \in Nat, NEW bits
  PROVE  char32_to_wchar(bits, ch) \in Seq(Nat) /\ char32_to_utf8(ch) \in Seq(Nat)
<1>1. char32_to_wchar(bits, ch) \in Seq(Nat)
  <2>1. CASE bits = 32 \/ ch <= 65535  BY SMT, <2>1 DEF char32_to_wchar
  <2>2. CASE ~(bits = 32 \/ ch <= 65535)
    <3>. DEFINE delta == Low(ch - 65536, 1048576)
    <3>1. delta \in Nat  BY SMT, <2>2 DEF Low
    <3>2. char32_to_wchar(bits, ch) = <<55296 + High(delta, 1024), 56320 + Low(delta, 1024)>>
      BY SMT, <2>2 DEF char32_to_wchar
    <3>. HIDE DEF delta
    <3>3. 55296 + High(delta, 1024) \in Nat /\ 56320 + Low(delta, 1024) \in Nat
      BY SMT, <3>1 DEF High, Low
    <3>. QED  BY SMT, <3>2, <3>3
  <2>. QED  BY SMT, <2>1, <2>2
<1>2. char32_to_utf8(ch) \in Seq(Nat)
  <2>1. \A p \in {64, 4096, 262144} : High(ch, p) \in Nat  BY SMT DEF High
  <2>2. \A d \in Nat : \A p \in {8, 16, 32, 64} : Low(d, p) \in Nat  BY SMT DEF Low
  <2>. QED  BY SMT, <2>1, <2>2 DEF char32_to_utf8
<1>. QED  BY SMT, <1>1, <1>2

LEMMA Steps8 ==
  ASSUME NEW bits, NEW u \in Seq(Nat)
  PROVE  /\ Out8(bits, u) \in [1..Len(u) -> Seq(Nat)]
         /\ Next8(u) \in [1..Len(u) -> 1..(Len(u) + 1)]
         /\ \A i \in 1..Len(u) : Next8(u)[i] > i
<1>. DEFINE L == Len(u)
            r(i) == utf8_to_char32(SubSeq(u, i, L))
<1>1. ASSUME NEW i \in 1..L
      PROVE  /\ ToWide(bits, r(i)) \in Seq(Nat)
             /\ i + r(i).took \in 1..(L + 1) /\ i + r(i).took > i
  <2>. DEFINE rest == SubSeq(u, i, L)
  <2>1. rest \in Seq(Nat) /\ Len(rest) = L - i + 1  BY SMT
  <2>2. L \in Nat  BY SMT
  <2>. HIDE DEF rest, L
  <2>6. rest # <<>>
    <3>1. Len(rest) # 0  BY SMT, <2>1, <2>2
    <3>. QED  BY SMT, <3>1
  <2>. DEFINE q == utf8_to_char32(rest)
  <2>3. q.took \in 1..Len(rest) /\ (q.ch = <<>> \/ \E ch \in Nat : q.ch = <<ch>>)
    BY SMT, <2>1, <2>6, Reads8
  <2>. HIDE DEF q
  <2>4. ToWide(bits, q) \in Seq(Nat)
    <3>1. CASE q.ch = <<>>  BY SMT, <3>1 DEF ToWide
    <3>2. ASSUME NEW ch \in Nat, q.ch = <<ch>> PROVE ToWide(bits, q) \in Seq(Nat)
      <4>1. q.ch # <<>> /\ q.ch[1] = ch  BY SMT, <3>2
      <4>2. ToWide(bits, q) = char32_to_wchar(bits, ch)  BY SMT, <4>1 DEF ToWide
      <4>. QED  BY SMT, <4>2, WritesNat
    <3>. QED  BY SMT, <2>3, <3>1, <3>2
  <2>5. i + q.took \in 1..(L + 1) /\ i + q.took > i  BY SMT, <2>1, <2>2, <2>3
  <2>. QED  BY SMT, <2>4, <2>5 DEF q, rest
<1>. HIDE DEF r
<1>2. Out8(bits, u) = [i \in 1..L |-> ToWide(bits, r(i))] /\ Next8(u) = [i \in 1..L |-> i + r(i).took]
  BY SMT DEF Out8, Next8, r
<1>3. Out8(bits, u) \in [1..L -> Seq(Nat)]  BY SMT, <1>1, <1>2
<1>4. Next8(u) \in [1..L -> 1..(L + 1)]  BY SMT, <1>1, <1>2
<1>5. \A i \in 1..L : Next8(u)[i] > i  BY SMT, <1>1, <1>2
<1>. QED  BY SMT, <1>3, <1>4, <1>5

LEMMA ToU16Loops ==
  ASSUME NEW bits, NEW u \in Seq(Nat)
  PROVE  \E from : Loop(Len(u), Out8(bits, u), Next8(u), from) /\ to_u16(bits, u) = from[1]
<1>. DEFINE L == Len(u)
            puts == Out8(bits, u)
            next == Next8(u)
            r(i) == utf8_to_char32(SubSeq(u, i, Len(u)))
            Body(f, i) == IF i > Len(u) THEN <<>> ELSE ToWide(bits, r(i)) \o f[i + r(i).took]
            from == CHOOSE f : f = [i \in 1..(Len(u) + 1) |-> Body(f, i)]
<1>1. /\ L \in Nat /\ puts \in [1..L -> Seq(Nat)]
      /\ next \in [1..L -> 1..(L + 1)] /\ \A i \in 1..L : next[i] > i
  BY Steps8
<1>2. to_u16(bits, u) = from[1]  BY SMT DEF to_u16
<1>3. ASSUME NEW f, NEW i \in 1..(L + 1)
      PROVE  Body(f, i) = IF i > L THEN <<>> ELSE puts[i] \o f[next[i]]
  <2>1. CASE i > L  BY SMT, <2>1
  <2>2. CASE ~(i > L)
    <3>1. i \in 1..L  BY SMT, <1>1, <2>2
    <3>2. puts[i] = ToWide(bits, r(i)) /\ next[i] = i + r(i).took  BY SMT, <3>1 DEF Out8, Next8
    <3>. HIDE DEF r, puts, next, L
    <3>. QED  BY SMT, <2>2, <3>2 DEF L
  <2>. QED  BY SMT, <2>1, <2>2
<1>. HIDE DEF r
<1>4. ASSUME NEW f
      PROVE  f = [i \in 1..(L + 1) |-> Body(f, i)] <=> Turns(L, puts, next, f)
  <2>1. [i \in 1..(L + 1) |-> Body(f, i)]
          = [i \in 1..(L + 1) |-> IF i > L THEN <<>> ELSE puts[i] \o f[next[i]]]
    <3>. HIDE DEF Body, puts, next, L
    <3>. QED  BY Zenon, <1>3
  <2>. QED  BY Zenon, <2>1 DEF Turns
<1>. HIDE DEF Body, puts, next
<1>5. \E f : Turns(L, puts, next, f)  BY <1>1, TurnsDefined
<1>6. from = [i \in 1..(L + 1) |-> Body(from, i)]  BY Zenon, <1>4, <1>5
<1>. HIDE DEF from
<1>7. Loop(L, puts, next, from)  BY <1>1, <1>4, <1>6 DEF Loop
<1>. QED  BY <1>2, <1>7 DEF puts, next

-----------------------------------------------------------------------------
\* So is from_u16.

Out16(bits, w)  == [i \in 1..Len(w) |-> ToBytes(wchar_to_char32(bits, SubSeq(w, i, Len(w))))]
Next16(bits, w) == [i \in 1..Len(w) |-> i + wchar_to_char32(bits, SubSeq(w, i, Len(w))).took]

LEMMA Reads16 ==
  ASSUME NEW bits \in {16, 32}, NEW rest \in Seq(Nat), rest # <<>>
  PROVE  /\ wchar_to_char32(bits, rest).took \in 1..Len(rest)
         /\ \/ wchar_to_char32(bits, rest).ch = <<>>
            \/ \E ch \in Nat : wchar_to_char32(bits, rest).ch = <<ch>>
<1>. DEFINE r == wchar_to_char32(bits, rest)
<1>1. Len(rest) \in Nat \ {0} /\ \A i \in 1..Len(rest) : rest[i] \in Nat  BY SMT
<1>2. rest[1] \in Nat  BY SMT, <1>1
<1>3. CASE bits = 32 \/ ~(IsHigh(rest[1]) \/ IsLow(rest[1]))
  <2>1. r = [took |-> 1, ch |-> <<rest[1]>>]  BY SMT, <1>3 DEF wchar_to_char32
  <2>. QED  BY SMT, <1>1, <1>2, <2>1
<1>4. CASE bits = 16 /\ (IsHigh(rest[1]) \/ IsLow(rest[1])) /\ (IsLow(rest[1]) \/ Len(rest) = 1)
  <2>1. r = [took |-> 1, ch |-> <<>>]  BY SMT, <1>4 DEF wchar_to_char32
  <2>. QED  BY SMT, <1>1, <2>1
<1>5. CASE bits = 16 /\ (IsHigh(rest[1]) \/ IsLow(rest[1])) /\ ~(IsLow(rest[1]) \/ Len(rest) = 1)
  <2>. DEFINE ch == Low(rest[1], 1024) * 1024 + Low(rest[2], 1024) + 65536
  <2>1. r = [took |-> 2, ch |-> IF IsLow(rest[2]) THEN <<ch>> ELSE <<>>]
    BY SMT, <1>5 DEF wchar_to_char32
  <2>6. Len(rest) # 1  BY SMT, <1>5
  <2>7. ASSUME NEW n \in Nat \ {0}, n # 1 PROVE 2 \in 1..n  BY SMT, <2>7
  <2>2. 2 \in 1..Len(rest)  BY Zenon, <1>1, <2>6, <2>7
  <2>3. rest[2] \in Nat  BY SMT, <1>1, <2>2
  <2>4. Low(rest[1], 1024) \in Nat /\ Low(rest[2], 1024) \in Nat  BY SMT, <1>2, <2>3 DEF Low
  <2>5. ch \in Nat  BY SMT, <2>4
  <2>. HIDE DEF ch
  <2>. QED  BY SMT, <2>1, <2>2, <2>5
<1>. QED  BY SMT, <1>3, <1>4, <1>5

LEMMA Steps16 ==
  ASSUME NEW bits \in {16, 32}, NEW u \in Seq(Nat)
  PROVE  /\ Out16(bits, u) \in [1..Len(u) -> Seq(Nat)]
         /\ Next16(bits, u) \in [1..Len(u) -> 1..(Len(u) + 1)]
         /\ \A i \in 1..Len(u) : Next16(bits, u)[i] > i
<1>. DEFINE L == Len(u)
            r(i) == wchar_to_char32(bits, SubSeq(u, i, L))
<1>1. ASSUME NEW i \in 1..L
      PROVE  /\ ToBytes(r(i)) \in Seq(Nat)
             /\ i + r(i).took \in 1..(L + 1) /\ i + r(i).took > i
  <2>. DEFINE rest == SubSeq(u, i, L)
  <2>1. rest \in Seq(Nat) /\ Len(rest) = L - i + 1  BY SMT
  <2>2. L \in Nat  BY SMT
  <2>. HIDE DEF rest, L
  <2>6. rest # <<>>
    <3>1. Len(rest) # 0  BY SMT, <2>1, <2>2
    <3>. QED  BY SMT, <3>1
  <2>. DEFINE q == wchar_to_char32(bits, rest)
  <2>3. q.took \in 1..Len(rest) /\ (q.ch = <<>> \/ \E ch \in Nat : q.ch = <<ch>>)
    BY Zenon, <2>1, <2>6, Reads16
  <2>. HIDE DEF q
  <2>4. ToBytes(q) \in Seq(Nat)
    <3>1. CASE q.ch = <<>>  BY SMT, <3>1 DEF ToBytes
    <3>2. ASSUME NEW ch \in Nat, q.ch = <<ch>> PROVE ToBytes(q) \in Seq(Nat)
      <4>1. q.ch # <<>> /\ q.ch[1] = ch  BY SMT, <3>2
      <4>2. ToBytes(q) = char32_to_utf8(ch)  BY SMT, <4>1 DEF ToBytes
      <4>. QED  BY SMT, <4>2, WritesNat
    <3>. QED  BY SMT, <2>3, <3>1, <3>2
  <2>5. i + q.took \in 1..(L + 1) /\ i + q.took > i  BY SMT, <2>1, <2>2, <2>3
  <2>. QED  BY SMT, <2>4, <2>5 DEF q, rest
<1>. HIDE DEF r
<1>2. Out16(bits, u) = [i \in 1..L |-> ToBytes(r(i))] /\ Next16(bits, u) = [i \in 1..L |-> i + r(i).took]
  BY SMT DEF Out16, Next16, r
<1>3. Out16(bits, u) \in [1..L -> Seq(Nat)]  BY SMT, <1>1, <1>2
<1>4. Next16(bits, u) \in [1..L -> 1..(L + 1)]  BY SMT, <1>1, <1>2
<1>5. \A i \in 1..L : Next16(bits, u)[i] > i  BY SMT, <1>1, <1>2
<1>. QED  BY SMT, <1>3, <1>4, <1>5

LEMMA FromU16Loops ==
  ASSUME NEW bits \in {16, 32}, NEW u \in Seq(Nat)
  PROVE  \E from : Loop(Len(u), Out16(bits, u), Next16(bits, u), from) /\ from_u16(bits, u) = from[1]
<1>. DEFINE L == Len(u)
            puts == Out16(bits, u)
            next == Next16(bits, u)
            r(i) == wchar_to_char32(bits, SubSeq(u, i, Len(u)))
            Body(f, i) == IF i > Len(u) THEN <<>> ELSE ToBytes(r(i)) \o f[i + r(i).took]
            from == CHOOSE f : f = [i \in 1..(Len(u) + 1) |-> Body(f, i)]
<1>1. /\ L \in Nat /\ puts \in [1..L -> Seq(Nat)]
      /\ next \in [1..L -> 1..(L + 1)] /\ \A i \in 1..L : next[i] > i
  BY Steps16
<1>2. from_u16(bits, u) = from[1]  BY SMT DEF from_u16
<1>3. ASSUME NEW f, NEW i \in 1..(L + 1)
      PROVE  Body(f, i) = IF i > L THEN <<>> ELSE puts[i] \o f[next[i]]
  <2>1. CASE i > L  BY SMT, <2>1
  <2>2. CASE ~(i > L)
    <3>1. i \in 1..L  BY SMT, <1>1, <2>2
    <3>2. puts[i] = ToBytes(r(i)) /\ next[i] = i + r(i).took  BY SMT, <3>1 DEF Out16, Next16
    <3>. HIDE DEF r, puts, next, L
    <3>. QED  BY SMT, <2>2, <3>2 DEF L
  <2>. QED  BY SMT, <2>1, <2>2
<1>. HIDE DEF r
<1>4. ASSUME NEW f
      PROVE  f = [i \in 1..(L + 1) |-> Body(f, i)] <=> Turns(L, puts, next, f)
  <2>1. [i \in 1..(L + 1) |-> Body(f, i)]
          = [i \in 1..(L + 1) |-> IF i > L THEN <<>> ELSE puts[i] \o f[next[i]]]
    <3>. HIDE DEF Body, puts, next, L
    <3>. QED  BY Zenon, <1>3
  <2>. QED  BY Zenon, <2>1 DEF Turns
<1>. HIDE DEF Body, puts, next
<1>5. \E f : Turns(L, puts, next, f)  BY <1>1, TurnsDefined
<1>6. from = [i \in 1..(L + 1) |-> Body(from, i)]  BY Zenon, <1>4, <1>5
<1>. HIDE DEF from
<1>7. Loop(L, puts, next, from)  BY <1>1, <1>4, <1>6 DEF Loop
<1>. QED  BY <1>2, <1>7 DEF puts, next

-----------------------------------------------------------------------------
\* The texts.

\* The bytes no character begins with, and what is left of a character that is cut off.
Stray  == {b \in Nat : (128 <= b /\ b < 192) \/ (248 <= b /\ b < 256)}
CutOff(part) == \E c \in Scalar : \E m \in 0..(Len(Utf8(c)) - 1) : part = SubSeq(Utf8(c), 1, m)

LEMMA Utf8Shape ==
  ASSUME NEW c \in Scalar
  PROVE  /\ Utf8(c) \in Seq(Nat) /\ Len(Utf8(c)) \in 1..4
         /\ Following(Utf8(c)[1]) = Len(Utf8(c)) - 1
         /\ \A j \in 2..Len(Utf8(c)) : Utf8(c)[j] \in Stray
<1>. c \in Nat /\ c <= 1114111  BY SMT DEF Scalar
<1>0. \A d \in Nat : Six(d) \in Stray
  <2>1. ASSUME NEW d \in Nat PROVE 128 <= 128 + (d % 64) /\ 128 + (d % 64) < 192  BY SMT
  <2>. QED  BY SMT, <2>1 DEF Six, Stray
<1>7. Stray \subseteq Nat  BY SMT DEF Stray
<1>1. CASE c <= 127
  <2>1. Utf8(c) = <<c>>  BY SMT, <1>1, Utf8Is
  <2>2. Following(c) = 0  BY SMT, <1>1 DEF Following
  <2>. QED  BY SMT, <2>1, <2>2
<1>2. CASE 128 <= c /\ c <= 2047
  <2>. DEFINE a == 192 + ((c \div 64) % 32)
              b == Six(c)
  <2>1. Utf8(c) = <<a, b>>  BY SMT, <1>2, Utf8Is
  <2>2. a \in Nat /\ Following(a) = 1  BY SMT, <1>2 DEF Following
  <2>3. b \in Stray  BY SMT, <1>0
  <2>. HIDE DEF a, b
  <2>. QED  BY SMT, <1>7, <2>1, <2>2, <2>3
<1>3. CASE 2048 <= c /\ c <= 65535
  <2>. DEFINE a == 224 + ((c \div 4096) % 16)
              b1 == Six(c \div 64)
              b == Six(c)
  <2>1. Utf8(c) = <<a, b1, b>>  BY SMT, <1>3, Utf8Is
  <2>2. a \in Nat /\ Following(a) = 2  BY SMT, <1>3 DEF Following
  <2>3. c \div 64 \in Nat  BY SMT
  <2>4. b \in Stray /\ b1 \in Stray  BY SMT, <1>0, <2>3
  <2>. HIDE DEF a, b, b1
  <2>. QED  BY SMT, <1>7, <2>1, <2>2, <2>4
<1>4. CASE 65536 <= c
  <2>. DEFINE a == 240 + ((c \div 262144) % 8)
              b2 == Six(c \div 4096)
              b1 == Six(c \div 64)
              b == Six(c)
  <2>1. Utf8(c) = <<a, b2, b1, b>>  BY SMT, <1>4, Utf8Is
  <2>2. a \in Nat /\ Following(a) = 3  BY SMT, <1>4 DEF Following
  <2>3. c \div 64 \in Nat /\ c \div 4096 \in Nat  BY SMT
  <2>4. b \in Stray /\ b1 \in Stray /\ b2 \in Stray  BY SMT, <1>0, <2>3
  <2>. HIDE DEF a, b, b1, b2
  <2>. QED  BY SMT, <1>7, <2>1, <2>2, <2>4
<1>. QED  BY SMT, <1>1, <1>2, <1>3, <1>4

\* A byte that cannot be read is passed over.
LEMMA PassedOver ==
  ASSUME NEW bits, NEW u \in Seq(Nat), NEW i \in 1..Len(u),
         Following(u[i]) = -1 \/ Following(u[i]) >= Len(u) - i + 1
  PROVE  Out8(bits, u)[i] = <<>> /\ Next8(u)[i] = i + 1
<1>. DEFINE rest == SubSeq(u, i, Len(u))
<1>1. Len(rest) = Len(u) - i + 1 /\ rest[1] = u[i]  BY SMT
<1>. HIDE DEF rest
<1>2. utf8_to_char32(rest) = [took |-> 1, ch |-> <<>>]  BY SMT, <1>1 DEF utf8_to_char32
<1>3. ToWide(bits, utf8_to_char32(rest)) = <<>> /\ utf8_to_char32(rest).took = 1
  BY SMT, <1>2 DEF ToWide
<1>. QED  BY SMT, <1>3 DEF Out8, Next8, rest

LEMMA StrayFollowed == \A b \in Stray : Following(b) = -1  BY SMT DEF Stray, Following

LEMMA CharacterRead ==
  ASSUME NEW bits \in {16, 32}, NEW u \in Seq(Nat), NEW i \in Nat \ {0}, NEW c \in Scalar,
         Begins(u, i, Utf8(c))
  PROVE  /\ i \in 1..Len(u) /\ i + Len(Utf8(c)) \in 1..(Len(u) + 1)
         /\ Out8(bits, u)[i] = Wide(bits, c) /\ Next8(u)[i] = i + Len(Utf8(c))
<1>. DEFINE rest == SubSeq(u, i, Len(u))
            m == Len(Utf8(c))
<1>0. c \in Nat /\ c <= 1114111  BY SMT DEF Scalar
<1>1. m \in 1..4  BY Utf8Shape
<1>2. i + m - 1 <= Len(u) /\ Len(u) \in Nat  BY SMT DEF Begins
<1>3. utf8_to_char32(rest) = [took |-> m, ch |-> <<c>>]  BY SMT, <1>0, ReadsUtf8
<1>. HIDE DEF rest, m
<1>4. i \in 1..Len(u) /\ i + m \in 1..(Len(u) + 1)  BY SMT, <1>1, <1>2
<1>5. char32_to_wchar(bits, c) = Wide(bits, c)  BY SMT, <1>0, WritesWide
<1>6. ToWide(bits, utf8_to_char32(rest)) = Wide(bits, c) /\ utf8_to_char32(rest).took = m
  BY SMT, <1>3, <1>5 DEF ToWide
<1>7. /\ Out8(bits, u)[i] = ToWide(bits, utf8_to_char32(rest))
      /\ Next8(u)[i] = i + utf8_to_char32(rest).took
  BY SMT, <1>4 DEF Out8, Next8, rest
<1>8. Out8(bits, u)[i] = Wide(bits, c) /\ Next8(u)[i] = i + m  BY SMT, <1>6, <1>7
<1>. QED  BY SMT, <1>4, <1>8 DEF m

\* Noise, and behind it what is cut off, are passed over.
LEMMA NoisePasses ==
  ASSUME NEW bits, NEW u \in Seq(Nat), NEW i \in Nat \ {0}, NEW noise \in Seq(Stray), Begins(u, i, noise)
  PROVE  /\ i + Len(noise) \in 1..(Len(u) + 1)
         /\ Passes(Out8(bits, u), Next8(u), i, i + Len(noise))
<1>0. Len(noise) \in Nat /\ Len(u) \in Nat /\ i + Len(noise) - 1 <= Len(u)
      /\ \A j \in 1..Len(noise) : noise[j] \in Stray /\ u[i + j - 1] = noise[j]
  BY DEF Begins
<1>1. ASSUME NEW k \in i..(i + Len(noise) - 1) PROVE Out8(bits, u)[k] = <<>> /\ Next8(u)[k] = k + 1
  <2>. DEFINE j == k - i + 1
  <2>1. j \in 1..Len(noise) /\ i + j - 1 = k /\ k \in 1..Len(u)  BY <1>0
  <2>. HIDE DEF j
  <2>2. u[k] \in Stray  BY <1>0, <2>1
  <2>3. Following(u[k]) = -1  BY <2>2, StrayFollowed
  <2>. QED  BY <2>1, <2>3, PassedOver
<1>. QED  BY <1>0, <1>1 DEF Passes

LEMMA CutOffPasses ==
  ASSUME NEW bits, NEW u \in Seq(Nat), NEW i \in Nat \ {0}, NEW part, CutOff(part),
         Begins(u, i, part), i + Len(part) = Len(u) + 1
  PROVE  Passes(Out8(bits, u), Next8(u), i, Len(u) + 1)
<1>0. PICK c \in Scalar : \E m \in 0..(Len(Utf8(c)) - 1) : part = SubSeq(Utf8(c), 1, m)
  BY DEF CutOff
<1>1. PICK m \in 0..(Len(Utf8(c)) - 1) : part = SubSeq(Utf8(c), 1, m)  BY <1>0
<1>2. /\ Utf8(c) \in Seq(Nat) /\ Len(Utf8(c)) \in 1..4
      /\ Following(Utf8(c)[1]) = Len(Utf8(c)) - 1
      /\ \A j \in 2..Len(Utf8(c)) : Utf8(c)[j] \in Stray
  BY Utf8Shape
<1>3. Len(part) = m /\ m \in Nat /\ m <= Len(Utf8(c)) - 1 /\ \A j \in 1..m : part[j] = Utf8(c)[j]
  BY <1>1, <1>2
<1>6. Len(u) \in Nat  OBVIOUS
<1>7. \A j \in 1..Len(part) : u[i + j - 1] = part[j]  BY DEF Begins
<1>4. ASSUME NEW j \in 1..m PROVE u[i + j - 1] = Utf8(c)[j]  BY Zenon, <1>3, <1>7
<1>5. ASSUME NEW k \in i..(Len(u) + 1 - 1) PROVE Out8(bits, u)[k] = <<>> /\ Next8(u)[k] = k + 1
  <2>. DEFINE j == k - i + 1
  <2>1. j \in 1..m /\ i + j - 1 = k /\ k \in 1..Len(u) /\ Len(u) - k + 1 = m - j + 1
    <3>1. i + m = Len(u) + 1 /\ m \in Nat /\ Len(u) \in Nat  BY Zenon, <1>3, <1>6
    <3>2. k \in Nat /\ i <= k /\ k <= Len(u)  BY <3>1
    <3>. QED  BY <3>1, <3>2
  <2>. HIDE DEF j
  <2>2. u[k] = Utf8(c)[j]  BY <1>4, <2>1
  <2>3. CASE j = 1
    <3>1. Following(u[k]) >= Len(u) - k + 1  BY <1>2, <1>3, <2>1, <2>2, <2>3
    <3>. QED  BY <2>1, <3>1, PassedOver
  <2>4. CASE j # 1
    <3>1. j \in 2..Len(Utf8(c))  BY <1>2, <1>3, <2>1, <2>4
    <3>2. Following(u[k]) = -1  BY <1>2, <2>2, <3>1, StrayFollowed
    <3>. QED  BY <2>1, <3>2, PassedOver
  <2>. QED  BY <2>3, <2>4
<1>. QED  BY <1>5 DEF Passes

LEMMA WritesText ==
  ASSUME NEW bits \in {16, 32}, NEW text \in Seq(Scalar), NEW noise \in Seq(Stray), NEW part, CutOff(part)
  PROVE  to_u16(bits, FlattenSeq([k \in DOMAIN text |-> noise \o Utf8(text[k])]) \o noise \o part)
           = FlattenSeq([k \in DOMAIN text |-> Wide(bits, text[k])])
<1>. DEFINE n == Len(text)
            read == [k \in DOMAIN text |-> noise \o Utf8(text[k])]
            written == [k \in DOMAIN text |-> Wide(bits, text[k])]
            tail == noise \o part
<1>0. n \in Nat /\ DOMAIN text = 1..n /\ \A k \in 1..n : text[k] \in Scalar  OBVIOUS
<1>1. noise \in Seq(Nat) /\ part \in Seq(Nat) /\ Len(noise) \in Nat
  <2>1. noise \in Seq(Nat)  BY SMT DEF Stray
  <2>2. PICK c \in Scalar : \E m \in 0..(Len(Utf8(c)) - 1) : part = SubSeq(Utf8(c), 1, m)
    BY DEF CutOff
  <2>3. Utf8(c) \in Seq(Nat) /\ Len(Utf8(c)) \in 1..4  BY Utf8Shape
  <2>4. PICK m \in 0..(Len(Utf8(c)) - 1) : part = SubSeq(Utf8(c), 1, m)  BY <2>2
  <2>5. part \in Seq(Nat)  BY <2>3, <2>4
  <2>. QED  BY <2>1, <2>5
<1>2. ASSUME NEW k \in 1..n
      PROVE  noise \o Utf8(text[k]) \in Seq(Nat) /\ Wide(bits, text[k]) \in Seq(Nat)
  <2>1. text[k] \in Scalar  BY <1>0
  <2>2. Utf8(text[k]) \in Seq(Nat)  BY <2>1, Utf8Shape
  <2>3. text[k] \in Nat /\ text[k] <= 1114111  BY SMT, <2>1 DEF Scalar
  <2>4. Wide(bits, text[k]) \in Seq(Nat)
    <3>1. char32_to_wchar(bits, text[k]) = Wide(bits, text[k])  BY SMT, <2>3, WritesWide
    <3>. QED  BY SMT, <2>3, <3>1, WritesNat
  <2>. QED  BY <1>1, <2>2, <2>4
<1>. HIDE DEF n
<1>3. /\ read \in Seq(Seq(Nat)) /\ Len(read) = n /\ \A k \in 1..n : read[k] = noise \o Utf8(text[k])
      /\ written \in Seq(Seq(Nat)) /\ Len(written) = n /\ \A k \in 1..n : written[k] = Wide(bits, text[k])
  BY <1>0, <1>2
<1>4. tail \in Seq(Nat)  BY <1>1
<1>. HIDE DEF read, written
<1>5. PICK flat \in [0..Len(read) -> Seq(Nat)] : Flats(read, flat) /\ FlattenSeq(read) = flat[Len(read)]
  BY <1>3, FlattenIs
<1>. DEFINE u == flat[n] \o tail
<1>6. FlattenSeq(read) \o noise \o part = u
  <2>1. flat[n] \in Seq(Nat)  BY <1>0, <1>3, <1>5
  <2>2. (flat[n] \o noise) \o part = flat[n] \o (noise \o part)  BY <1>1, <2>1, Associates
  <2>. QED  BY Zenon, <1>3, <1>5, <2>2
<1>7. u \in Seq(Nat) /\ flat[n] \in Seq(Nat)
  <2>1. flat[n] \in Seq(Nat)  BY <1>0, <1>3, <1>5
  <2>. QED  BY <1>4, <2>1
<1>8. PICK from : Loop(Len(u), Out8(bits, u), Next8(u), from) /\ to_u16(bits, u) = from[1]
  BY <1>7, ToU16Loops
<1>9. Begins(u, Len(flat[n]) + 1, tail) /\ Len(flat[n]) + 1 + Len(tail) = Len(u) + 1
  BY ZenonT(30), <1>4, <1>7, BeginsLast
<1>10. ASSUME NEW k \in 1..n PROVE Begins(u, Len(flat[k - 1]) + 1, noise \o Utf8(text[k]))
  BY <1>3, <1>4, <1>5, <1>10, FlatHas
<1>11. \A k \in 1..n : flat[k] = flat[k - 1] \o (noise \o Utf8(text[k]))  BY <1>3, <1>5 DEF Flats
<1>12. flat[0] = <<>> /\ \A k \in 0..n : flat[k] \in Seq(Nat)  BY <1>3, <1>5 DEF Flats
<1>. HIDE DEF u, tail
<1>. DEFINE pos == [k \in 0..n |-> Len(flat[k]) + 1]
            loc == [k \in 1..n |-> Len(flat[k - 1]) + 1 + Len(noise)]
<1>13. ASSUME NEW k \in 1..n
       PROVE  /\ Len(flat[k - 1]) + 1 \in 1..(Len(u) + 1)
              /\ Len(flat[k]) + 1 \in 1..(Len(u) + 1)
              /\ Len(flat[k - 1]) + 1 + Len(noise) \in 1..Len(u)
              /\ Passes(Out8(bits, u), Next8(u), Len(flat[k - 1]) + 1, Len(flat[k - 1]) + 1 + Len(noise))
              /\ Out8(bits, u)[Len(flat[k - 1]) + 1 + Len(noise)] = written[k]
              /\ Next8(u)[Len(flat[k - 1]) + 1 + Len(noise)] = Len(flat[k]) + 1
  <2>. DEFINE c == text[k]
              lo == Len(flat[k - 1]) + 1
              i == lo + Len(noise)
  <2>1. c \in Scalar /\ Utf8(c) \in Seq(Nat) /\ Len(Utf8(c)) \in 1..4  BY <1>0, Utf8Shape
  <2>2. k - 1 \in 0..n  BY <1>0
  <2>3. flat[k - 1] \in Seq(Nat)  BY <1>12, <2>2
  <2>4. lo \in Nat \ {0}  BY <2>3
  <2>5. Begins(u, lo, noise \o Utf8(c))  BY <1>10
  <2>6. i \in Nat \ {0}  BY <1>1, <2>4
  <2>7. Len(flat[k]) + 1 = i + Len(Utf8(c))
    <3>1. flat[k] = flat[k - 1] \o (noise \o Utf8(c))  BY <1>11
    <3>2. Len(noise \o Utf8(c)) = Len(noise) + Len(Utf8(c)) /\ noise \o Utf8(c) \in Seq(Nat)
      BY <1>1, <2>1
    <3>3. Len(flat[k]) = Len(flat[k - 1]) + Len(noise \o Utf8(c))  BY <2>3, <3>1, <3>2, ConcatHas
    <3>4. Len(flat[k - 1]) \in Nat /\ Len(Utf8(c)) \in Nat  BY <2>1, <2>3
    <3>. DEFINE a == Len(flat[k - 1])
                b == Len(noise)
                d == Len(Utf8(c))
    <3>5. Len(flat[k]) = a + (b + d)  BY Zenon, <3>2, <3>3
    <3>6. a \in Nat /\ b \in Nat /\ d \in Nat  BY <1>1, <3>4
    <3>. HIDE DEF a, b, d
    <3>7. a + (b + d) + 1 = a + 1 + b + d  BY <3>6
    <3>. QED  BY Zenon, <3>5, <3>7 DEF a, b, d
  <2>. HIDE DEF c, lo
  <2>8. Begins(u, lo, noise) /\ Begins(u, i, Utf8(c))
    BY <1>1, <1>7, <2>1, <2>4, <2>5, BeginsBoth
  <2>. HIDE DEF i
  <2>9. /\ i \in 1..Len(u) /\ i + Len(Utf8(c)) \in 1..(Len(u) + 1)
        /\ Out8(bits, u)[i] = Wide(bits, c) /\ Next8(u)[i] = i + Len(Utf8(c))
    BY <1>7, <2>1, <2>6, <2>8, CharacterRead
  <2>10. Passes(Out8(bits, u), Next8(u), lo, lo + Len(noise))  BY <1>7, <2>4, <2>8, NoisePasses
  <2>11. lo \in 1..(Len(u) + 1)
    <3>1. lo <= i /\ i <= Len(u) /\ Len(u) \in Nat  BY <1>1, <1>7, <2>4, <2>9 DEF i
    <3>. QED  BY <2>4, <2>6, <3>1
  <2>12. written[k] = Wide(bits, c)  BY <1>3 DEF c
  <2>. QED  BY <2>7, <2>9, <2>10, <2>11, <2>12 DEF lo, i
<1>14. /\ pos \in [0..Len(written) -> 1..(Len(u) + 1)] /\ pos[0] = 1
       /\ loc \in [1..Len(written) -> 1..Len(u)]
  <2>1. ASSUME NEW k \in 0..n PROVE Len(flat[k]) + 1 \in 1..(Len(u) + 1)
    <3>1. Len(u) \in Nat  BY <1>7
    <3>2. CASE k = 0
      <4>1. Len(flat[k]) = 0  BY <1>12, <3>2
      <4>. QED  BY <3>1, <4>1
    <3>3. CASE k # 0
      <4>1. k \in 1..n  BY <1>0, <3>3
      <4>. QED  BY <1>13, <4>1
    <3>. QED  BY <3>2, <3>3
  <2>2. pos \in [0..n -> 1..(Len(u) + 1)]  BY <2>1
  <2>3. pos[0] = 1
    <3>1. Len(flat[0]) + 1 = 1 /\ 0 \in 0..n  BY <1>0, <1>12
    <3>. QED  BY <3>1
  <2>4. loc \in [1..n -> 1..Len(u)]  BY <1>13
  <2>. HIDE DEF pos, loc
  <2>. QED  BY <1>3, <2>2, <2>3, <2>4
<1>15. ASSUME NEW k \in 1..Len(written)
       PROVE  /\ pos[k - 1] <= loc[k]
              /\ Passes(Out8(bits, u), Next8(u), pos[k - 1], loc[k])
              /\ Out8(bits, u)[loc[k]] = written[k] /\ Next8(u)[loc[k]] = pos[k]
  <2>1. k \in 1..n /\ k \in 0..n /\ k - 1 \in 0..n  BY <1>0, <1>3
  <2>2. /\ pos[k - 1] = Len(flat[k - 1]) + 1 /\ pos[k] = Len(flat[k]) + 1
        /\ loc[k] = Len(flat[k - 1]) + 1 + Len(noise)
    BY <2>1
  <2>3. Len(flat[k - 1]) \in Nat  BY <1>12, <2>1
  <2>. HIDE DEF pos, loc
  <2>4. pos[k - 1] <= loc[k]  BY <1>1, <2>2, <2>3
  <2>. QED  BY Zenon, <1>13, <2>1, <2>2, <2>4
<1>16. Passes(Out8(bits, u), Next8(u), pos[Len(written)], Len(u) + 1)
  <2>. DEFINE lo == Len(flat[n]) + 1
              mid == lo + Len(noise)
  <2>1. pos[Len(written)] = lo /\ lo \in Nat \ {0} /\ mid \in Nat \ {0}  BY <1>0, <1>1, <1>3, <1>7
  <2>2. Begins(u, lo, noise \o part) /\ lo + Len(noise \o part) = Len(u) + 1  BY <1>9 DEF tail
  <2>3. Len(noise \o part) = Len(noise) + Len(part) /\ Len(part) \in Nat  BY <1>1
  <2>. HIDE DEF lo
  <2>4. Begins(u, lo, noise) /\ Begins(u, mid, part)  BY <1>1, <1>7, <2>1, <2>2, BeginsBoth
  <2>5. mid + Len(part) = Len(u) + 1 /\ lo <= mid /\ mid <= Len(u) + 1 /\ Len(u) \in Nat
    BY <1>1, <1>7, <2>1, <2>2, <2>3
  <2>6. Passes(Out8(bits, u), Next8(u), lo, mid)  BY <1>7, <2>1, <2>4, NoisePasses
  <2>. HIDE DEF mid
  <2>7. Passes(Out8(bits, u), Next8(u), mid, Len(u) + 1)  BY <1>7, <2>1, <2>4, <2>5, CutOffPasses
  <2>8. Passes(Out8(bits, u), Next8(u), lo, Len(u) + 1)
    <3>1. ASSUME NEW i \in lo..(Len(u) + 1 - 1)
          PROVE  Out8(bits, u)[i] = <<>> /\ Next8(u)[i] = i + 1
      <4>1. i \in lo..(mid - 1) \/ i \in mid..(Len(u) + 1 - 1)  BY <2>1, <2>5
      <4>. QED  BY <2>6, <2>7, <4>1 DEF Passes
    <3>. QED  BY <3>1 DEF Passes
  <2>. QED  BY <2>1, <2>8
<1>17. Visits(Len(u), Out8(bits, u), Next8(u), written, pos, loc)
  <2>. HIDE DEF pos, loc
  <2>. QED  BY <1>14, <1>15, <1>16 DEF Visits
<1>. HIDE DEF pos, loc
<1>18. from[1] = FlattenSeq(written)  BY <1>3, <1>8, <1>17, LoopConverts
<1>. QED  BY <1>6, <1>8, <1>18 DEF read, written

LEMMA WideRead ==
  ASSUME NEW bits \in {16, 32}, NEW u \in Seq(Nat), NEW i \in Nat \ {0}, NEW c \in Scalar,
         Begins(u, i, Wide(bits, c))
  PROVE  /\ i \in 1..Len(u) /\ i + Len(Wide(bits, c)) \in 1..(Len(u) + 1)
         /\ Out16(bits, u)[i] = Utf8(c) /\ Next16(bits, u)[i] = i + Len(Wide(bits, c))
<1>. DEFINE rest == SubSeq(u, i, Len(u))
            m == Len(Wide(bits, c))
<1>0. c \in Nat /\ c <= 1114111 /\ (c < 55296 \/ 57344 <= c)  BY SMT DEF Scalar
<1>1. m \in 1..2  BY SMT DEF Wide
<1>2. i + m - 1 <= Len(u) /\ Len(u) \in Nat  BY SMT DEF Begins
<1>3. wchar_to_char32(bits, rest) = [took |-> m, ch |-> <<c>>]  BY Zenon, ReadsWide
<1>. HIDE DEF rest, m
<1>4. i \in 1..Len(u) /\ i + m \in 1..(Len(u) + 1)  BY SMT, <1>1, <1>2
<1>5. char32_to_utf8(c) = Utf8(c)  BY SMT, <1>0, WritesUtf8
<1>6. ToBytes(wchar_to_char32(bits, rest)) = Utf8(c) /\ wchar_to_char32(bits, rest).took = m
  BY SMT, <1>3, <1>5 DEF ToBytes
<1>7. /\ Out16(bits, u)[i] = ToBytes(wchar_to_char32(bits, rest))
      /\ Next16(bits, u)[i] = i + wchar_to_char32(bits, rest).took
  BY SMT, <1>4 DEF Out16, Next16, rest
<1>8. Out16(bits, u)[i] = Utf8(c) /\ Next16(bits, u)[i] = i + m  BY SMT, <1>6, <1>7
<1>. QED  BY SMT, <1>4, <1>8 DEF m

\* Half a surrogate pair at the end is passed over.
LEMMA HalfPassedOver ==
  ASSUME NEW u \in Seq(Nat), NEW i \in 1..Len(u), i = Len(u), IsHigh(u[i])
  PROVE  Out16(16, u)[i] = <<>> /\ Next16(16, u)[i] = i + 1
<1>. DEFINE rest == SubSeq(u, i, Len(u))
<1>1. Len(rest) = 1 /\ rest[1] = u[i]  BY SMT
<1>. HIDE DEF rest
<1>2. wchar_to_char32(16, rest) = [took |-> 1, ch |-> <<>>]  BY SMT, <1>1 DEF wchar_to_char32
<1>3. ToBytes(wchar_to_char32(16, rest)) = <<>> /\ wchar_to_char32(16, rest).took = 1
  BY SMT, <1>2 DEF ToBytes
<1>. QED  BY SMT, <1>3 DEF Out16, Next16, rest

LEMMA ReadsText ==
  ASSUME NEW bits \in {16, 32}, NEW text \in Seq(Scalar),
         NEW tail, tail = <<>> \/ \E half \in Nat : bits = 16 /\ tail = <<half>> /\ IsHigh(half)
  PROVE  /\ FlattenSeq([k \in DOMAIN text |-> Wide(bits, text[k])]) \in Seq(Nat)
         /\ from_u16(bits, FlattenSeq([k \in DOMAIN text |-> Wide(bits, text[k])]) \o tail)
              = FlattenSeq([k \in DOMAIN text |-> Utf8(text[k])])
<1>. DEFINE n == Len(text)
            read == [k \in DOMAIN text |-> Wide(bits, text[k])]
            written == [k \in DOMAIN text |-> Utf8(text[k])]
<1>0. n \in Nat /\ DOMAIN text = 1..n /\ \A k \in 1..n : text[k] \in Scalar  OBVIOUS
<1>1. tail \in Seq(Nat)
  <2>1. CASE tail = <<>>  BY <2>1
  <2>2. ASSUME NEW half \in Nat, tail = <<half>> PROVE tail \in Seq(Nat)  BY <2>2
  <2>. QED  BY <2>1, <2>2
<1>2. ASSUME NEW k \in 1..n
      PROVE  Utf8(text[k]) \in Seq(Nat) /\ Wide(bits, text[k]) \in Seq(Nat)
  <2>1. text[k] \in Scalar  BY <1>0
  <2>2. Utf8(text[k]) \in Seq(Nat)  BY <2>1, Utf8Shape
  <2>3. text[k] \in Nat /\ text[k] <= 1114111  BY SMT, <2>1 DEF Scalar
  <2>4. Wide(bits, text[k]) \in Seq(Nat)
    <3>1. char32_to_wchar(bits, text[k]) = Wide(bits, text[k])  BY SMT, <2>3, WritesWide
    <3>. QED  BY SMT, <2>3, <3>1, WritesNat
  <2>. QED  BY <2>2, <2>4
<1>. HIDE DEF n
<1>3. /\ read \in Seq(Seq(Nat)) /\ Len(read) = n /\ \A k \in 1..n : read[k] = Wide(bits, text[k])
      /\ written \in Seq(Seq(Nat)) /\ Len(written) = n /\ \A k \in 1..n : written[k] = Utf8(text[k])
  BY <1>0, <1>2
<1>. HIDE DEF read, written
<1>5. PICK flat \in [0..Len(read) -> Seq(Nat)] : Flats(read, flat) /\ FlattenSeq(read) = flat[Len(read)]
  BY <1>3, FlattenIs
<1>. DEFINE u == flat[n] \o tail
<1>6. FlattenSeq(read) \o tail = u  BY Zenon, <1>3, <1>5
<1>7. u \in Seq(Nat) /\ flat[n] \in Seq(Nat)
  <2>1. flat[n] \in Seq(Nat)  BY <1>0, <1>3, <1>5
  <2>. QED  BY <1>1, <2>1
<1>8. PICK from : Loop(Len(u), Out16(bits, u), Next16(bits, u), from) /\ from_u16(bits, u) = from[1]
  BY <1>7, FromU16Loops
<1>9. Begins(u, Len(flat[n]) + 1, tail) /\ Len(flat[n]) + 1 + Len(tail) = Len(u) + 1
  BY <1>1, <1>7, BeginsLast
<1>10. ASSUME NEW k \in 1..n PROVE Begins(u, Len(flat[k - 1]) + 1, Wide(bits, text[k]))
  BY <1>1, <1>3, <1>5, <1>10, FlatHas
<1>11. \A k \in 1..n : flat[k] = flat[k - 1] \o Wide(bits, text[k])  BY <1>3, <1>5 DEF Flats
<1>12. flat[0] = <<>> /\ \A k \in 0..n : flat[k] \in Seq(Nat)  BY <1>3, <1>5 DEF Flats
<1>. HIDE DEF u
<1>20. ASSUME NEW i \in Nat \ {0}, NEW c \in Scalar, Begins(u, i, Wide(bits, c))
       PROVE  /\ i \in 1..Len(u) /\ i + Len(Wide(bits, c)) \in 1..(Len(u) + 1)
              /\ Out16(bits, u)[i] = Utf8(c) /\ Next16(bits, u)[i] = i + Len(Wide(bits, c))
  BY ZenonT(90), <1>7, <1>20, WideRead
<1>. DEFINE pos == [k \in 0..n |-> Len(flat[k]) + 1]
            loc == [k \in 1..n |-> Len(flat[k - 1]) + 1]
<1>13. ASSUME NEW k \in 1..n
       PROVE  /\ Len(flat[k - 1]) + 1 \in 1..Len(u)
              /\ Len(flat[k]) + 1 \in 1..(Len(u) + 1)
              /\ Out16(bits, u)[Len(flat[k - 1]) + 1] = written[k]
              /\ Next16(bits, u)[Len(flat[k - 1]) + 1] = Len(flat[k]) + 1
  <2>. DEFINE c == text[k]
              i == Len(flat[k - 1]) + 1
  <2>1. c \in Scalar /\ Wide(bits, c) \in Seq(Nat) /\ Len(Wide(bits, c)) \in Nat  BY <1>0, <1>2
  <2>2. k - 1 \in 0..n  BY <1>0
  <2>3. flat[k - 1] \in Seq(Nat)  BY <1>12, <2>2
  <2>4. i \in Nat \ {0}  BY <2>3
  <2>5. Begins(u, i, Wide(bits, c))  BY <1>10
  <2>7. Len(flat[k]) + 1 = i + Len(Wide(bits, c))
    <3>1. flat[k] = flat[k - 1] \o Wide(bits, c)  BY <1>11
    <3>3. Len(flat[k]) = Len(flat[k - 1]) + Len(Wide(bits, c))  BY <2>1, <2>3, <3>1, ConcatHas
    <3>. DEFINE a == Len(flat[k - 1])
                d == Len(Wide(bits, c))
    <3>5. Len(flat[k]) = a + d  BY Zenon, <3>3
    <3>6. a \in Nat /\ d \in Nat  BY <2>1, <2>3
    <3>. HIDE DEF a, d
    <3>7. a + d + 1 = a + 1 + d  BY <3>6
    <3>. QED  BY Zenon, <3>5, <3>7 DEF a, d
  <2>. HIDE DEF c, i
  <2>9. /\ i \in 1..Len(u) /\ i + Len(Wide(bits, c)) \in 1..(Len(u) + 1)
        /\ Out16(bits, u)[i] = Utf8(c) /\ Next16(bits, u)[i] = i + Len(Wide(bits, c))
    BY <1>20, <2>1, <2>4, <2>5
  <2>12. written[k] = Utf8(c)  BY <1>3 DEF c
  <2>. QED  BY <2>7, <2>9, <2>12 DEF i
<1>14. /\ pos \in [0..Len(written) -> 1..(Len(u) + 1)] /\ pos[0] = 1
       /\ loc \in [1..Len(written) -> 1..Len(u)]
  <2>1. ASSUME NEW k \in 0..n PROVE Len(flat[k]) + 1 \in 1..(Len(u) + 1)
    <3>1. Len(u) \in Nat  BY <1>7
    <3>2. CASE k = 0
      <4>1. Len(flat[k]) = 0  BY <1>12, <3>2
      <4>. QED  BY <3>1, <4>1
    <3>3. CASE k # 0
      <4>1. k \in 1..n  BY <1>0, <3>3
      <4>. QED  BY <1>13, <4>1
    <3>. QED  BY <3>2, <3>3
  <2>2. pos \in [0..n -> 1..(Len(u) + 1)]  BY <2>1
  <2>3. pos[0] = 1
    <3>1. Len(flat[0]) + 1 = 1 /\ 0 \in 0..n  BY <1>0, <1>12
    <3>. QED  BY <3>1
  <2>4. loc \in [1..n -> 1..Len(u)]  BY <1>13
  <2>. HIDE DEF pos, loc
  <2>. QED  BY <1>3, <2>2, <2>3, <2>4
<1>15. ASSUME NEW k \in 1..Len(written)
       PROVE  /\ pos[k - 1] <= loc[k]
              /\ Passes(Out16(bits, u), Next16(bits, u), pos[k - 1], loc[k])
              /\ Out16(bits, u)[loc[k]] = written[k] /\ Next16(bits, u)[loc[k]] = pos[k]
  <2>1. k \in 1..n /\ k \in 0..n /\ k - 1 \in 0..n  BY <1>0, <1>3
  <2>2. /\ pos[k - 1] = Len(flat[k - 1]) + 1 /\ pos[k] = Len(flat[k]) + 1
        /\ loc[k] = Len(flat[k - 1]) + 1
    BY <2>1
  <2>3. Len(flat[k - 1]) + 1 \in Nat  BY <1>12, <2>1
  <2>. HIDE DEF pos, loc
  <2>4. pos[k - 1] = loc[k] /\ loc[k] \in Nat  BY Zenon, <2>2, <2>3
  <2>5. Passes(Out16(bits, u), Next16(bits, u), pos[k - 1], loc[k])  BY <2>4 DEF Passes
  <2>6. pos[k - 1] <= loc[k]  BY <2>4
  <2>. QED  BY Zenon, <1>13, <2>1, <2>2, <2>5, <2>6
<1>16. Passes(Out16(bits, u), Next16(bits, u), pos[Len(written)], Len(u) + 1)
  <2>. DEFINE lo == Len(flat[n]) + 1
  <2>1. pos[Len(written)] = lo /\ lo \in Nat \ {0} /\ Len(u) \in Nat  BY <1>0, <1>3, <1>7
  <2>2. Begins(u, lo, tail) /\ lo + Len(tail) = Len(u) + 1  BY <1>9
  <2>. HIDE DEF lo
  <2>3. CASE tail = <<>>
    <3>1. lo = Len(u) + 1  BY <2>1, <2>2, <2>3
    <3>. QED  BY <2>1, <3>1 DEF Passes
  <2>4. ASSUME NEW half \in Nat, bits = 16, tail = <<half>>, IsHigh(half)
        PROVE  Passes(Out16(bits, u), Next16(bits, u), lo, Len(u) + 1)
    <3>1. lo = Len(u)  BY <2>1, <2>2, <2>4
    <3>2. lo \in 1..Len(u) /\ u[lo] = half
      <4>1. 1 \in 1..Len(tail) /\ tail[1] = half /\ lo + 1 - 1 = lo  BY <2>1, <2>4
      <4>2. u[lo + 1 - 1] = tail[1]  BY <2>2, <4>1 DEF Begins
      <4>. QED  BY <2>1, <3>1, <4>1, <4>2
    <3>3. Out16(bits, u)[lo] = <<>> /\ Next16(bits, u)[lo] = lo + 1
      BY <1>7, <2>4, <3>1, <3>2, HalfPassedOver
    <3>4. \A i \in lo..(Len(u) + 1 - 1) : i = lo  BY <2>1, <3>1
    <3>. QED  BY <3>3, <3>4 DEF Passes
  <2>. QED  BY <2>1, <2>3, <2>4
<1>17. Visits(Len(u), Out16(bits, u), Next16(bits, u), written, pos, loc)
  <2>. HIDE DEF pos, loc
  <2>. QED  BY <1>14, <1>15, <1>16 DEF Visits
<1>. HIDE DEF pos, loc
<1>18. from[1] = FlattenSeq(written)  BY <1>3, <1>8, <1>17, LoopConverts
<1>19. FlattenSeq(read) \in Seq(Nat)  BY Zenon, <1>3, <1>5, <1>7
<1>. QED  BY <1>6, <1>8, <1>18, <1>19 DEF read, written

\* InvertEachOther (source/Encoding/Encoding.cpp), for every text of scalar values,
\* whatever bytes no character begins with come before each character and behind the
\* last, and whatever character is cut off at the end: to_u16 gives what the standard
\* says of the text, for either wchar_t, from_u16 gives the text back, and drops half a
\* surrogate pair at its end.
THEOREM EncodingsInverseAlways ==
  ASSUME NEW text \in Seq(Scalar), NEW noise \in Seq(Stray), NEW part, CutOff(part)
  PROVE  InvertEachOther(text, noise, part)
<1>. DEFINE wide(bits) == FlattenSeq([i \in DOMAIN text |-> Wide(bits, text[i])])
            utf8 == FlattenSeq([i \in DOMAIN text |-> Utf8(text[i])])
            read == FlattenSeq([i \in DOMAIN text |-> noise \o Utf8(text[i])]) \o noise \o part
<1>1. ASSUME NEW bits \in {16, 32}
      PROVE  /\ to_u16(bits, read) = wide(bits)
             /\ from_u16(bits, wide(bits)) = utf8
             /\ bits = 16 => from_u16(bits, wide(bits) \o <<55296>>) = utf8
  <2>1. to_u16(bits, read) = wide(bits)  BY Zenon, WritesText
  <2>. DEFINE none == <<>>
  <2>2. wide(bits) \in Seq(Nat) /\ from_u16(bits, wide(bits) \o none) = utf8
    BY Zenon, ReadsText
  <2>3. wide(bits) \o none = wide(bits)
    <3>. HIDE DEF wide
    <3>. QED  BY SMT, <2>2
  <2>4. ASSUME bits = 16 PROVE from_u16(bits, wide(bits) \o <<55296>>) = utf8
    <3>. DEFINE half == 55296
    <3>1. half \in Nat /\ IsHigh(half)  BY SMT DEF IsHigh, High
    <3>. HIDE DEF half
    <3>2. from_u16(bits, wide(bits) \o <<half>>) = utf8  BY <2>4, <3>1, ReadsText
    <3>. QED  BY SMT, <3>2 DEF half
  <2>. HIDE DEF wide, utf8, read
  <2>. QED  BY SMT, <2>1, <2>2, <2>3, <2>4
<1>2. InvertEachOther(text, noise, part)
       <=> \A bits \in {16, 32} :
             /\ to_u16(bits, read) = wide(bits)
             /\ from_u16(bits, wide(bits)) = utf8
             /\ bits = 16 => from_u16(bits, wide(bits) \o <<55296>>) = utf8
  BY SMT DEF InvertEachOther
<1>. HIDE DEF wide, utf8, read
<1>. QED  BY SMT, <1>1, <1>2

-----------------------------------------------------------------------------
\* The texts that are checked are such.
LEMMA TextsAreTexts ==
  ASSUME NEW x \in Texts
  PROVE  /\ x[1] \in Seq(Scalar) /\ x[2] \in Seq(Stray) /\ CutOff(x[3])
<1>1. PICK t \in TupleOf(Scalars, 1) \cup TupleOf(Scalars, 2), noise \in Noise, part \in Parts :
        x = <<t, noise, part>>
  BY SMT DEF Texts
<1>2. Scalars \subseteq Scalar  BY SMT DEF Scalars, Scalar
<1>3. t \in Seq(Scalar)
  <2>1. t \in [1..1 -> Scalars] \cup [1..2 -> Scalars]  BY Zenon, <1>1 DEF TupleOf
  <2>2. ASSUME NEW n \in Nat, NEW f \in [1..n -> Scalars] PROVE f \in Seq(Scalar)
    <3>1. f \in [1..n -> Scalar]  BY <1>2
    <3>. QED  BY Zenon, <3>1, SeqDef
  <2>3. 1 \in Nat /\ 2 \in Nat  OBVIOUS
  <2>. QED  BY Zenon, <2>1, <2>2, <2>3
<1>4. noise \in Seq(Stray)
  <2>1. 128 \in Stray /\ 191 \in Stray /\ 255 \in Stray  BY SMT DEF Stray
  <2>2. noise \in {<<>>, <<128>>, <<191, 255>>}  BY SMT DEF Noise
  <2>3. \A a, b \in Stray : <<>> \in Seq(Stray) /\ <<a>> \in Seq(Stray) /\ <<a, b>> \in Seq(Stray)
    BY SMT
  <2>4. CASE noise = <<>>  BY SMT, <2>1, <2>3, <2>4
  <2>5. CASE noise = <<128>>  BY Zenon, <2>1, <2>3, <2>5
  <2>6. CASE noise = <<191, 255>>  BY Zenon, <2>1, <2>3, <2>6
  <2>. QED  BY Zenon, <2>2, <2>4, <2>5, <2>6
<1>5. CutOff(part)
  <2>1. part \in {<<>>, <<194>>, <<224, 160>>, <<240, 144, 128>>}  BY SMT DEF Parts
  <2>2. 128 \in Scalar /\ 2048 \in Scalar /\ 65536 \in Scalar  BY SMT DEF Scalar
  <2>3. Utf8(128) = <<194, 128>>  BY SMT DEF Utf8, Bytes
  <2>4. Utf8(2048) = <<224, 160, 128>>  BY SMT DEF Utf8, Bytes
  <2>5. Utf8(65536) = <<240, 144, 128, 128>>  BY SMT DEF Utf8, Bytes
  <2>6. CASE part = <<>>
    <3>1. part = SubSeq(Utf8(128), 1, 0) /\ 0 \in 0..(Len(Utf8(128)) - 1)  BY SMT, <2>3, <2>6
    <3>. QED  BY SMT, <2>2, <3>1 DEF CutOff
  <2>7. CASE part = <<194>>
    <3>1. part = SubSeq(Utf8(128), 1, 1) /\ 1 \in 0..(Len(Utf8(128)) - 1)  BY SMT, <2>3, <2>7
    <3>. QED  BY SMT, <2>2, <3>1 DEF CutOff
  <2>8. CASE part = <<224, 160>>
    <3>1. part = SubSeq(Utf8(2048), 1, 2) /\ 2 \in 0..(Len(Utf8(2048)) - 1)  BY SMTT(30), <2>4, <2>8
    <3>. QED  BY SMT, <2>2, <3>1 DEF CutOff
  <2>9. CASE part = <<240, 144, 128>>
    <3>. DEFINE c == 65536
                s == Utf8(c)
    <3>5. s[1] = 240 /\ s[2] = 144 /\ s[3] = 128  BY SMT, <2>5
    <3>4. s \in Seq(Nat) /\ Len(s) = 4
      <4>1. s \in Seq(Nat) /\ Len(s) \in 1..4 /\ Following(s[1]) = Len(s) - 1
        <5>1. c \in Scalar  BY <2>2
        <5>. HIDE DEF c
        <5>. QED  BY Zenon, <5>1, Utf8Shape
      <4>2. Following(240) = 3  BY SMT DEF Following
      <4>. HIDE DEF c, s
      <4>3. Following(s[1]) = 3  BY Zenon, <3>5, <4>2
      <4>4. s \in Seq(Nat) /\ Len(s) \in 1..4 /\ Len(s) - 1 = 3  BY Zenon, <4>1, <4>3
      <4>. QED  BY SMT, <4>4
    <3>6. part \in Seq(Nat) /\ Len(part) = 3 /\ part[1] = 240 /\ part[2] = 144 /\ part[3] = 128
      BY SMT, <2>9
    <3>1. /\ s \in Seq(Nat) /\ Len(s) = 4 /\ s[1] = 240 /\ s[2] = 144 /\ s[3] = 128
          /\ part \in Seq(Nat) /\ Len(part) = 3 /\ part[1] = 240 /\ part[2] = 144 /\ part[3] = 128
          /\ c \in Scalar
      BY SMT, <2>2, <3>4, <3>5, <3>6
    <3>. HIDE DEF c, s
    <3>2. part = SubSeq(s, 1, 3)
      <4>1. SubSeq(s, 1, 3) \in Seq(Nat) /\ Len(SubSeq(s, 1, 3)) = 3
            /\ \A i \in 1..3 : SubSeq(s, 1, 3)[i] = s[i]
        BY SMT, <3>1
      <4>2. \A i \in 1..3 : i = 1 \/ i = 2 \/ i = 3  BY SMT
      <4>3. \A i \in 1..3 : part[i] = s[i]  BY SMT, <3>1, <4>2
      <4>. QED  BY SMT, <3>1, <4>1, <4>3
    <3>3. 3 \in 0..(Len(s) - 1)  BY SMT, <3>1
    <3>. QED  BY ZenonT(30), <3>1, <3>2, <3>3 DEF CutOff, s
  <2>. QED  BY SMT, <2>1, <2>6, <2>7, <2>8, <2>9
<1>. QED  BY SMT, <1>1, <1>3, <1>4, <1>5

\* The texts that are checked are converted as the standard says, and back; and so is,
\* by EncodingsInverseAlways, any text of scalar values.
THEOREM EncodingsInverseHolds == Spec => []EncodingsInverse
<1>. DEFINE Given == component = "Encoding" => input \in Texts
<1>1. Init => Given  BY DEF Init
<1>2. Given /\ [Next]_vars => Given'  BY InputStays
<1>3. Given => EncodingsInverse
  BY TextsAreTexts, EncodingsInverseAlways DEF EncodingsInverse
<1>. QED  BY <1>1, <1>2, <1>3, PTL DEF Spec

-----------------------------------------------------------------------------
\* The command line, and first a function of a place that follows from its value before.

\* Each value of f follows from the one before, by step.
Iterated(f, n, x, step) == f = [k \in 0..n |-> IF k = 0 THEN x ELSE step[<<f[k - 1], k>>]]

LEMMA Iterates ==
  ASSUME NEW n \in Nat, NEW X, NEW x \in X, NEW step \in [X \X (1..n) -> X]
  PROVE  \E f \in [0..n -> X] : Iterated(f, n, x, step)
<1>. DEFINE Is(f, k) == f[k] = IF k = 0 THEN x ELSE step[<<f[k - 1], k>>]
            Up(f, k) == \A i \in 0..k : Is(f, i)
            S == {k \in 0..n : \E f \in [0..n -> X] : Up(f, k)}
<1>1. 0 \in S
  <2>. DEFINE f == [k \in 0..n |-> x]
  <2>1. Up(f, 0) /\ f \in [0..n -> X]  OBVIOUS
  <2>. HIDE DEF f
  <2>. QED  BY <2>1
<1>2. ASSUME NEW k \in 0..n, k \in S, k < n PROVE k + 1 \in S
  <2>1. PICK f \in [0..n -> X] : Up(f, k)  BY <1>2
  <2>. DEFINE g == [f EXCEPT ![k + 1] = step[<<f[k], k + 1>>]]
  <2>2. /\ k + 1 \in 0..n /\ k + 1 # 0 /\ (k + 1) - 1 = k /\ k + 1 \in 1..n
        /\ \A i \in 0..(k + 1) : i = k + 1 \/ i \in 0..k
        /\ \A i \in 0..k : i \in 0..n /\ i # k + 1 /\ (i # 0 => i - 1 \in 0..k)
    BY <1>2
  <2>3. g \in [0..n -> X] /\ g[k + 1] = step[<<f[k], k + 1>>] /\ \A i \in 0..k : g[i] = f[i]
    BY <2>2
  <2>. HIDE DEF g
  <2>4. k \in 0..k  BY <1>2
  <2>5. Is(g, k + 1)  BY Zenon, <2>2, <2>3, <2>4
  <2>6. ASSUME NEW i \in 0..k PROVE Is(g, i)
    <3>1. Is(f, i)  BY Zenon, <2>1
    <3>2. CASE i = 0  BY Zenon, <2>3, <3>1, <3>2
    <3>3. CASE i # 0
      <4>1. g[i - 1] = f[i - 1] /\ g[i] = f[i]  BY Zenon, <2>2, <2>3, <3>3
      <4>. QED  BY Zenon, <3>1, <3>3, <4>1
    <3>. QED  BY <3>2, <3>3
  <2>7. Up(g, k + 1)  BY Zenon, <2>2, <2>5, <2>6
  <2>. QED  BY Zenon, <2>2, <2>3, <2>7
<1>. HIDE DEF S
<1>3. n \in S
  <2>1. \A k \in 0..n : k \in S  BY <1>1, <1>2, Upwards
  <2>. QED  BY <2>1
<1>4. PICK f \in [0..n -> X] : Up(f, n)  BY <1>3 DEF S
<1>5. f = [k \in 0..n |-> f[k]]  OBVIOUS
<1>6. f = [k \in 0..n |-> IF k = 0 THEN x ELSE step[<<f[k - 1], k>>]]  BY Zenon, <1>4, <1>5
<1>. QED  BY Zenon, <1>6 DEF Iterated

\* Characters, and what is known in the middle of a line.
Characters(Ch) == {Quote, Slash, Space} \subseteq Ch

States(Ch) == [args : Seq(Seq(Ch)), arg : Seq(Ch), slash : Nat,
               in : BOOLEAN, quoted : BOOLEAN, two : BOOLEAN]

LEMMA TimesTyped ==
  ASSUME NEW Ch, NEW ch \in Ch, NEW n \in Nat
  PROVE  /\ Times(n, ch) \in Seq(Ch) /\ Len(Times(n, ch)) = n
         /\ \A i \in 1..n : Times(n, ch)[i] = ch
BY DEF Times

LEMMA Distinct == Quote # Slash /\ Quote # Space /\ Space # Slash
  BY DEF Quote, Slash, Space

Half(st) == st.arg \o Times(st.slash \div 2, Slash)
Kept(st) == st.arg \o Times(st.slash, Slash)

LEMMA HalfKeptTyped ==
  ASSUME NEW Ch, Characters(Ch), NEW st \in States(Ch)
  PROVE  Half(st) \in Seq(Ch) /\ Kept(st) \in Seq(Ch)
<1>1. st.arg \in Seq(Ch) /\ st.slash \in Nat /\ st.slash \div 2 \in Nat  BY DEF States
<1>2. Slash \in Ch  BY DEF Characters
<1>3. Times(st.slash \div 2, Slash) \in Seq(Ch) /\ Times(st.slash, Slash) \in Seq(Ch)
  BY <1>1, <1>2, TimesTyped
<1>. QED  BY <1>1, <1>3, ConcatProperties DEF Half, Kept

LEMMA Appended == \A X : \A s \in Seq(X), x \in X : Append(s, x) \in Seq(X)
  BY AppendProperties

Fine(Ch, st) ==
  /\ st.args \in Seq(Seq(Ch)) /\ st.arg \in Seq(Ch) /\ st.slash \in Nat
  /\ st.slash + 1 \in Nat /\ 0 \in Nat
  /\ st.in \in BOOLEAN /\ st.quoted \in BOOLEAN /\ st.two \in BOOLEAN
  /\ (~st.quoted) \in BOOLEAN

LEMMA Fields == ASSUME NEW Ch, NEW st \in States(Ch) PROVE Fine(Ch, st)
  BY DEF States, Fine

LEMMA OnSlash ==
  ASSUME NEW Ch, NEW st \in States(Ch), NEW u, u = Split(st, Slash)
  PROVE  /\ u \in States(Ch) /\ u.args = st.args /\ u.arg = st.arg /\ u.slash = st.slash + 1
         /\ u.in = TRUE /\ u.quoted = st.quoted /\ u.two = FALSE
<1>1. u = [st EXCEPT !.slash = @ + 1, !.in = TRUE, !.two = FALSE]  BY Zenon, Distinct DEF Split
<1>2. u = [args |-> st.args, arg |-> st.arg, slash |-> st.slash + 1, in |-> TRUE,
          quoted |-> st.quoted, two |-> FALSE]
  BY <1>1 DEF States
<1>3. u \in States(Ch)
  <2>1. Fine(Ch, st)  BY Fields
  <2>. QED  BY <1>2, <2>1 DEF States, Fine
<1>. QED  BY <1>2, <1>3

LEMMA OnOdd ==
  ASSUME NEW Ch, Characters(Ch), NEW st \in States(Ch), NEW u, u = Split(st, Quote),
         st.slash % 2 = 1
  PROVE  /\ u \in States(Ch) /\ u.args = st.args /\ u.arg = Append(Half(st), Quote)
         /\ u.slash = 0 /\ u.in = TRUE /\ u.quoted = st.quoted /\ u.two = FALSE
<1>1. st.slash % 2 # 0  OBVIOUS
<1>2. u = [st EXCEPT !.slash = 0, !.arg = Append(Half(st), Quote), !.in = TRUE, !.two = FALSE]
  BY Zenon, <1>1, Distinct DEF Split, Half
<1>3. Append(Half(st), Quote) \in Seq(Ch)  BY Zenon, HalfKeptTyped, Appended DEF Characters
<1>4. u = [args |-> st.args, arg |-> Append(Half(st), Quote), slash |-> 0, in |-> TRUE,
          quoted |-> st.quoted, two |-> FALSE]
  BY <1>2 DEF States
<1>5. u \in States(Ch)
  <2>1. Fine(Ch, st)  BY Fields
  <2>. QED  BY <1>3, <1>4, <2>1 DEF States, Fine
<1>. QED  BY <1>4, <1>5

LEMMA OnEven ==
  ASSUME NEW Ch, Characters(Ch), NEW st \in States(Ch), NEW u, u = Split(st, Quote),
         st.slash % 2 = 0, ~(st.two /\ st.slash = 0)
  PROVE  /\ u \in States(Ch) /\ u.args = st.args /\ u.arg = Half(st)
         /\ u.slash = 0 /\ u.in = TRUE /\ u.quoted = ~st.quoted /\ u.two = st.quoted
<1>1. st.slash % 2 # 1  OBVIOUS
<1>2. u = [st EXCEPT !.slash = 0, !.arg = Half(st), !.in = TRUE, !.quoted = ~st.quoted,
                     !.two = st.quoted]
  BY Zenon, <1>1, Distinct DEF Split, Half
<1>3. Half(st) \in Seq(Ch)  BY Zenon, HalfKeptTyped
<1>4. u = [args |-> st.args, arg |-> Half(st), slash |-> 0, in |-> TRUE,
          quoted |-> ~st.quoted, two |-> st.quoted]
  BY <1>2 DEF States
<1>5. u \in States(Ch)
  <2>1. Fine(Ch, st)  BY Fields
  <2>. QED  BY <1>3, <1>4, <2>1 DEF States, Fine
<1>. QED  BY <1>4, <1>5

LEMMA OnTwo ==
  ASSUME NEW Ch, Characters(Ch), NEW st \in States(Ch), NEW u, u = Split(st, Quote),
         st.two /\ st.slash = 0
  PROVE  /\ u \in States(Ch) /\ u.args = st.args /\ u.arg = Append(st.arg, Quote)
         /\ u.slash = 0 /\ u.in = st.in /\ u.quoted = st.quoted /\ u.two = FALSE
<1>1. st.slash % 2 # 1 /\ st.slash % 2 = 0  OBVIOUS
<1>2. u = [st EXCEPT !.arg = Append(st.arg, Quote), !.two = FALSE]
  BY Zenon, <1>1, Distinct DEF Split
<1>3. Append(st.arg, Quote) \in Seq(Ch)
  <2>1. st.arg \in Seq(Ch) /\ Quote \in Ch  BY DEF States, Characters
  <2>. QED  BY Zenon, <2>1, Appended
<1>4. u = [args |-> st.args, arg |-> Append(st.arg, Quote), slash |-> 0, in |-> st.in,
          quoted |-> st.quoted, two |-> FALSE]
  BY <1>2 DEF States
<1>5. u \in States(Ch)
  <2>1. Fine(Ch, st)  BY Fields
  <2>. QED  BY <1>3, <1>4, <2>1 DEF States, Fine
<1>. QED  BY <1>4, <1>5

LEMMA OnBlank ==
  ASSUME NEW st, NEW u, u = Split(st, Space), ~st.quoted
  PROVE  u = Between(IF st.in THEN Append(st.args, Kept(st)) ELSE st.args)
<1>1. u = Between(IF st.in THEN Append(st.args, st.arg \o Times(st.slash, Slash)) ELSE st.args)
  BY Zenon, Distinct DEF Split
<1>. QED  BY Zenon, <1>1 DEF Kept

\* What is known behind a character that is part of an argument.
Got(Ch, u, args, arg, quoted, two) ==
  /\ u \in States(Ch) /\ u.args = args /\ u.arg = arg
  /\ u.slash = 0 /\ u.in = TRUE /\ u.quoted = quoted /\ u.two = two

LEMMA OnOther ==
  ASSUME NEW Ch, Characters(Ch), NEW st \in States(Ch), NEW ch \in Ch,
         ch # Slash, ch # Quote, ~(ch = Space /\ ~st.quoted)
  PROVE  Got(Ch, Split(st, ch), st.args, Append(Kept(st), ch), st.quoted, FALSE)
<1>. DEFINE u == Split(st, ch)
<1>1. u = [st EXCEPT !.slash = 0, !.arg = Append(Kept(st), ch), !.in = TRUE, !.two = FALSE]
  BY Zenon DEF Split, Kept
<1>2. Append(Kept(st), ch) \in Seq(Ch)  BY Zenon, HalfKeptTyped, Appended
<1>. HIDE DEF u
<1>4. u = [args |-> st.args, arg |-> Append(Kept(st), ch), slash |-> 0, in |-> TRUE,
          quoted |-> st.quoted, two |-> FALSE]
  BY <1>1 DEF States
<1>5. u \in States(Ch)
  <2>1. Fine(Ch, st)  BY Fields
  <2>. QED  BY <1>2, <1>4, <2>1 DEF States, Fine
<1>6. Got(Ch, u, st.args, Append(Kept(st), ch), st.quoted, FALSE)  BY <1>4, <1>5 DEF Got
<1>. QED  BY Zenon, <1>6 DEF u

LEMMA BetweenIs ==
  ASSUME NEW Ch, NEW a \in Seq(Seq(Ch)), NEW u, u = Between(a)
  PROVE  /\ u \in States(Ch) /\ u.args = a /\ u.arg = <<>> /\ u.slash = 0
         /\ u.in = FALSE /\ u.quoted = FALSE /\ u.two = FALSE
<1>1. <<>> \in Seq(Ch) /\ 0 \in Nat  OBVIOUS
<1>. QED  BY Zenon, <1>1 DEF Between, States

LEMMA SplitTyped ==
  ASSUME NEW Ch, Characters(Ch), NEW st \in States(Ch), NEW ch \in Ch
  PROVE  Split(st, ch) \in States(Ch)
<1>1. st.args \in Seq(Seq(Ch)) /\ (st.slash % 2 = 0 \/ st.slash % 2 = 1)  BY DEF States
<1>2. CASE ch = Space /\ ~st.quoted
  <2>1. Append(st.args, Kept(st)) \in Seq(Seq(Ch))  BY Zenon, <1>1, HalfKeptTyped, Appended
  <2>. DEFINE a == IF st.in THEN Append(st.args, Kept(st)) ELSE st.args
  <2>2. a \in Seq(Seq(Ch))  BY Zenon, <1>1, <2>1
  <2>3. Split(st, ch) = Between(a)  BY Zenon, <1>2, OnBlank
  <2>. HIDE DEF a
  <2>. QED  BY Zenon, <2>2, <2>3, BetweenIs
<1>3. CASE ch = Slash  BY Zenon, <1>3, OnSlash
<1>4. CASE ch = Quote
  <2>1. CASE st.slash % 2 = 1  BY Zenon, <1>4, <2>1, OnOdd
  <2>2. CASE st.slash % 2 = 0 /\ ~(st.two /\ st.slash = 0)  BY Zenon, <1>4, <2>2, OnEven
  <2>3. CASE st.two /\ st.slash = 0  BY Zenon, <1>4, <2>3, OnTwo
  <2>. QED  BY Zenon, <1>1, <2>1, <2>2, <2>3
<1>5. CASE ch # Slash /\ ch # Quote /\ ~(ch = Space /\ ~st.quoted)
  <2>1. Got(Ch, Split(st, ch), st.args, Append(Kept(st), ch), st.quoted, FALSE)
    BY Zenon, <1>5, OnOther
  <2>. QED  BY Zenon, <2>1 DEF Got
<1>. QED  BY Zenon, <1>2, <1>3, <1>4, <1>5

-----------------------------------------------------------------------------
\* A walk along a part of the line.

LEMMA WalkIs ==
  ASSUME NEW Ch, Characters(Ch), NEW st \in States(Ch), NEW part \in Seq(Ch)
  PROVE  \E acc \in [0..Len(part) -> States(Ch)] :
           /\ acc[0] = st /\ \A k \in 1..Len(part) : acc[k] = Split(acc[k - 1], part[k])
           /\ Walk(st, part) = acc[Len(part)]
<1>. DEFINE n == Len(part)
            X == States(Ch)
            step == [p \in X \X (1..n) |-> Split(p[1], part[p[2]])]
            acc == CHOOSE f : f = [k \in 0..n |-> IF k = 0 THEN st ELSE Split(f[k - 1], part[k])]
<1>1. Walk(st, part) = acc[n]  BY Zenon DEF Walk
<1>2. n \in Nat /\ \A k \in 1..n : part[k] \in Ch  OBVIOUS
<1>. HIDE DEF n
<1>3. step \in [X \X (1..n) -> X]
  <2>1. ASSUME NEW p \in X \X (1..n) PROVE Split(p[1], part[p[2]]) \in X
    <3>1. p[1] \in X /\ p[2] \in 1..n  OBVIOUS
    <3>2. part[p[2]] \in Ch  BY <1>2, <3>1
    <3>. HIDE DEF X
    <3>. QED  BY Zenon, <3>1, <3>2, SplitTyped DEF X
  <2>. HIDE DEF X
  <2>. QED  BY <2>1
<1>4. \A x \in X, k \in 1..n : step[<<x, k>>] = Split(x, part[k])
  <2>. HIDE DEF X
  <2>. QED  OBVIOUS
<1>. HIDE DEF step, X
<1>5. PICK f \in [0..n -> X] : f = [k \in 0..n |-> IF k = 0 THEN st ELSE step[<<f[k - 1], k>>]]
  <2>1. st \in X  BY DEF X
  <2>2. n \in Nat  BY <1>2
  <2>3. \E f \in [0..n -> X] : Iterated(f, n, st, step)  BY <1>3, <2>1, <2>2, Iterates
  <2>. QED  BY Zenon, <2>3 DEF Iterated
<1>6. ASSUME NEW k \in 0..n
      PROVE  f[k] = IF k = 0 THEN st ELSE Split(f[k - 1], part[k])
  <2>1. f[k] = IF k = 0 THEN st ELSE step[<<f[k - 1], k>>]  BY Zenon, <1>5
  <2>2. k # 0 => k \in 1..n /\ k - 1 \in 0..n  BY <1>2
  <2>3. k # 0 => f[k - 1] \in X  BY <2>2
  <2>. QED  BY Zenon, <1>4, <2>1, <2>2, <2>3
<1>7. f = [k \in 0..n |-> f[k]]  OBVIOUS
<1>8. f = [k \in 0..n |-> IF k = 0 THEN st ELSE Split(f[k - 1], part[k])]  BY Zenon, <1>6, <1>7
<1>9. acc = [k \in 0..n |-> IF k = 0 THEN st ELSE Split(acc[k - 1], part[k])]  BY Zenon, <1>8
<1>. HIDE DEF acc
<1>10. \A k \in 0..n : acc[k] = IF k = 0 THEN st ELSE Split(acc[k - 1], part[k])  BY Zenon, <1>9
<1>11. acc[0] = st /\ \A k \in 1..n : acc[k] = Split(acc[k - 1], part[k])
  <2>1. 0 \in 0..n /\ \A k \in 1..n : k \in 0..n /\ k # 0  BY <1>2
  <2>. QED  BY Zenon, <1>10, <2>1
<1>12. \A k \in 0..n : acc[k] \in X
  <2>. DEFINE S == {k \in 0..n : acc[k] \in X}
  <2>1. 0 \in S  BY <1>2, <1>11 DEF X
  <2>2. ASSUME NEW k \in 0..n, k \in S, k < n PROVE k + 1 \in S
    <3>1. k + 1 \in 1..n /\ k + 1 \in 0..n /\ (k + 1) - 1 = k  BY <1>2, <2>2
    <3>2. acc[k + 1] = Split(acc[k], part[k + 1])  BY Zenon, <1>11, <3>1
    <3>3. part[k + 1] \in Ch /\ acc[k] \in X  BY Zenon, <1>2, <2>2, <3>1
    <3>4. acc[k + 1] \in X  BY Zenon, <3>2, <3>3, SplitTyped DEF X
    <3>. QED  BY <3>1, <3>4
  <2>. HIDE DEF S
  <2>3. \A k \in 0..n : k \in S  BY <1>2, <2>1, <2>2, Upwards
  <2>. QED  BY <2>3 DEF S
<1>13. acc \in [0..n -> X]
  <2>1. acc = [k \in 0..n |-> acc[k]]  BY Zenon, <1>9, <1>10
  <2>. QED  BY Zenon, <1>12, <2>1
<1>. QED  BY Zenon, <1>1, <1>11, <1>13 DEF n, X

LEMMA WalkTyped ==
  ASSUME NEW Ch, Characters(Ch), NEW st \in States(Ch), NEW part \in Seq(Ch)
  PROVE  Walk(st, part) \in States(Ch)
<1>1. Len(part) \in 0..Len(part)  OBVIOUS
<1>2. PICK acc \in [0..Len(part) -> States(Ch)] : Walk(st, part) = acc[Len(part)]  BY WalkIs
<1>. QED  BY <1>1, <1>2

\* A walk is known by its steps.
LEMMA WalkAlong ==
  ASSUME NEW Ch, Characters(Ch), NEW st \in States(Ch), NEW part \in Seq(Ch),
         NEW f, f[0] = st, \A k \in 1..Len(part) : f[k] = Split(f[k - 1], part[k])
  PROVE  Walk(st, part) = f[Len(part)]
<1>. DEFINE n == Len(part)
<1>1. PICK acc \in [0..n -> States(Ch)] :
        /\ acc[0] = st /\ \A k \in 1..n : acc[k] = Split(acc[k - 1], part[k])
        /\ Walk(st, part) = acc[n]
  BY WalkIs
<1>2. n \in Nat  OBVIOUS
<1>. HIDE DEF n
<1>. DEFINE S == {k \in 0..n : acc[k] = f[k]}
<1>3. 0 \in S  BY <1>1, <1>2
<1>4. ASSUME NEW k \in 0..n, k \in S, k < n PROVE k + 1 \in S
  <2>1. k + 1 \in 1..n /\ k + 1 \in 0..n /\ (k + 1) - 1 = k  BY <1>2, <1>4
  <2>2. acc[k + 1] = Split(acc[k], part[k + 1])  BY Zenon, <1>1, <2>1
  <2>3. f[k + 1] = Split(f[k], part[k + 1])  BY Zenon, <2>1 DEF n
  <2>4. acc[k] = f[k]  BY <1>4
  <2>5. acc[k + 1] = f[k + 1]  BY Zenon, <2>2, <2>3, <2>4
  <2>. QED  BY <2>1, <2>5
<1>. HIDE DEF S
<1>5. n \in S
  <2>1. \A k \in 0..n : k \in S  BY <1>2, <1>3, <1>4, Upwards
  <2>. QED  BY <1>2, <2>1
<1>. QED  BY Zenon, <1>1, <1>5 DEF S, n

LEMMA Joined ==
  ASSUME NEW X, NEW s \in Seq(X), NEW t \in Seq(X)
  PROVE  /\ s \o t \in Seq(X) /\ Len(s \o t) = Len(s) + Len(t)
         /\ Len(s) \in Nat /\ Len(t) \in Nat /\ Len(s \o t) \in Nat
         /\ \A j \in 1..Len(s) : (s \o t)[j] = s[j]
         /\ \A j \in 1..Len(t) : (s \o t)[Len(s) + j] = t[j]
OBVIOUS

LEMMA WalkJoin ==
  ASSUME NEW Ch, Characters(Ch), NEW st \in States(Ch), NEW s \in Seq(Ch), NEW t \in Seq(Ch)
  PROVE  Walk(st, s \o t) = Walk(Walk(st, s), t)
<1>. DEFINE m == Len(s)
            n == Len(t)
            st2 == Walk(st, s)
            w == s \o t
<1>1. PICK f \in [0..m -> States(Ch)] :
        /\ f[0] = st /\ (\A k \in 1..m : f[k] = Split(f[k - 1], s[k])) /\ st2 = f[m]
  BY WalkIs
<1>2. st2 \in States(Ch)  BY Zenon, WalkTyped
<1>. HIDE DEF st2
<1>3. PICK g \in [0..n -> States(Ch)] :
        /\ g[0] = st2 /\ (\A k \in 1..n : g[k] = Split(g[k - 1], t[k])) /\ Walk(st2, t) = g[n]
  BY SMTT(30), <1>2, WalkIs
<1>5. /\ w \in Seq(Ch) /\ Len(w) = m + n /\ m \in Nat /\ n \in Nat
      /\ \A j \in 1..m : w[j] = s[j]
      /\ \A j \in 1..n : w[m + j] = t[j]
  BY Joined
<1>. HIDE DEF m, n, w
<1>. DEFINE h == [k \in 0..(m + n) |-> IF k <= m THEN f[k] ELSE g[k - m]]
<1>6. h[0] = st /\ h[m + n] = g[n]
  <2>1. h[m + n] = IF n = 0 THEN f[m] ELSE g[n]  BY <1>5
  <2>2. h[0] = f[0]  BY <1>5
  <2>. HIDE DEF h
  <2>. QED  BY Zenon, <1>1, <1>3, <2>1, <2>2
<1>7. ASSUME NEW k \in 1..Len(w) PROVE h[k] = Split(h[k - 1], w[k])
  <2>1. CASE k <= m
    <3>1. k \in 1..m /\ h[k] = f[k] /\ h[k - 1] = f[k - 1]  BY <1>5, <1>7, <2>1
    <3>. HIDE DEF h
    <3>. QED  BY Zenon, <1>1, <1>5, <3>1
  <2>2. CASE ~(k <= m)
    <3>. DEFINE i == k - m
    <3>1. i \in 1..n /\ k = m + i /\ h[k] = g[i]  BY <1>5, <1>7, <2>2
    <3>2. h[k - 1] = g[i - 1]
      <4>1. CASE i = 1
        <5>1. h[k - 1] = f[m]  BY <1>5, <1>7, <4>1
        <5>2. i - 1 = 0  BY <4>1
        <5>. HIDE DEF h, i
        <5>. QED  BY Zenon, <1>3, <1>1, <5>1, <5>2
      <4>2. CASE i # 1  BY <1>5, <1>7, <2>2, <4>2
      <4>. QED  BY <4>1, <4>2
    <3>. HIDE DEF h, i
    <3>3. w[k] = t[i] /\ g[i] = Split(g[i - 1], t[i])  BY Zenon, <1>3, <1>5, <3>1
    <3>. QED  BY Zenon, <3>1, <3>2, <3>3
  <2>. QED  BY <2>1, <2>2
<1>. HIDE DEF h
<1>8. Walk(st, w) = h[Len(w)]  BY Zenon, <1>5, <1>6, <1>7, WalkAlong
<1>. QED  BY Zenon, <1>3, <1>5, <1>6, <1>8 DEF w, st2

LEMMA WalkOne ==
  ASSUME NEW Ch, Characters(Ch), NEW st \in States(Ch), NEW ch \in Ch
  PROVE  Walk(st, <<ch>>) = Split(st, ch)
<1>. DEFINE part == <<ch>>
<1>1. part \in Seq(Ch) /\ Len(part) = 1 /\ part[1] = ch /\ 1 \in 1..1 /\ 1 - 1 = 0  OBVIOUS
<1>. HIDE DEF part
<1>2. PICK acc \in [0..Len(part) -> States(Ch)] :
        /\ acc[0] = st /\ (\A k \in 1..Len(part) : acc[k] = Split(acc[k - 1], part[k]))
        /\ Walk(st, part) = acc[Len(part)]
  BY <1>1, WalkIs
<1>. QED  BY Zenon, <1>1, <1>2 DEF part

LEMMA WalkNone ==
  ASSUME NEW Ch, Characters(Ch), NEW st \in States(Ch)
  PROVE  Walk(st, <<>>) = st
<1>. DEFINE part == <<>>
<1>0. Len(part) = 0  OBVIOUS
<1>1. part \in Seq(Ch)  OBVIOUS
<1>. HIDE DEF part
<1>2. PICK acc \in [0..Len(part) -> States(Ch)] :
        /\ acc[0] = st /\ (\A k \in 1..Len(part) : acc[k] = Split(acc[k - 1], part[k]))
        /\ Walk(st, part) = acc[Len(part)]
  BY <1>1, WalkIs
<1>. QED  BY Zenon, <1>0, <1>2 DEF part

LEMMA WalkAppend ==
  ASSUME NEW Ch, Characters(Ch), NEW st \in States(Ch), NEW s \in Seq(Ch), NEW ch \in Ch
  PROVE  Walk(st, Append(s, ch)) = Split(Walk(st, s), ch)
<1>. DEFINE one == <<ch>>
<1>1. Append(s, ch) = s \o one /\ one \in Seq(Ch)  OBVIOUS
<1>2. Walk(st, s) \in States(Ch)  BY Zenon, WalkTyped
<1>3. Walk(st, s \o one) = Walk(Walk(st, s), one)
  <2>. HIDE DEF one
  <2>. QED  BY <1>1, WalkJoin
<1>4. Walk(Walk(st, s), <<ch>>) = Split(Walk(st, s), ch)  BY <1>2, WalkOne
<1>. QED  BY Zenon, <1>1, <1>3, <1>4

\* u is st with n more backslashes.
Slashes(Ch, st, u, n) ==
  /\ u \in States(Ch) /\ u.args = st.args /\ u.arg = st.arg /\ u.slash = st.slash + n
  /\ u.quoted = st.quoted /\ u.two = FALSE

LEMMA SlashMore ==
  ASSUME NEW Ch, NEW st \in States(Ch), NEW n \in Nat, NEW w, Slashes(Ch, st, w, n),
         NEW u, u = Split(w, Slash)
  PROVE  Slashes(Ch, st, u, n + 1)
<1>1. w \in States(Ch)  BY Zenon DEF Slashes
<1>2. /\ u \in States(Ch) /\ u.args = w.args /\ u.arg = w.arg /\ u.slash = w.slash + 1
      /\ u.in = TRUE /\ u.quoted = w.quoted /\ u.two = FALSE
  BY <1>1, OnSlash
<1>3. st.slash \in Nat /\ w.slash = st.slash + n  BY DEF States, Slashes
<1>4. u.slash = st.slash + (n + 1)  BY <1>2, <1>3
<1>. QED  BY Zenon, <1>2, <1>4 DEF Slashes

\* Over backslashes, ...
LEMMA WalkSlashes ==
  ASSUME NEW Ch, Characters(Ch), NEW st \in States(Ch), NEW n \in Nat, NEW u,
         u = Walk(st, Times(n, Slash)), st.two = FALSE
  PROVE  Slashes(Ch, st, u, n)
<1>. DEFINE run == Times(n, Slash)
<1>1. Slash \in Ch  BY DEF Characters
<1>2. Len(run) = n /\ \A k \in 1..n : run[k] = Slash  BY <1>1, TimesTyped
<1>8. run \in Seq(Ch)  BY <1>1, TimesTyped
<1>. HIDE DEF run
<1>3. PICK acc \in [0..Len(run) -> States(Ch)] :
        /\ acc[0] = st /\ (\A k \in 1..Len(run) : acc[k] = Split(acc[k - 1], run[k]))
        /\ Walk(st, run) = acc[Len(run)]
  BY <1>8, WalkIs
<1>. DEFINE S == {k \in 0..n : Slashes(Ch, st, acc[k], k)}
<1>4. 0 \in S
  <2>1. st.slash \in Nat  BY DEF States
  <2>2. st.slash = st.slash + 0  BY <2>1
  <2>3. Slashes(Ch, st, acc[0], 0)  BY Zenon, <1>3, <2>2 DEF Slashes
  <2>. QED  BY <2>3
<1>5. ASSUME NEW k \in 0..n, k \in S, k < n PROVE k + 1 \in S
  <2>1. k + 1 \in 1..n /\ k + 1 \in 0..n /\ (k + 1) - 1 = k /\ k \in Nat  BY <1>5
  <2>2. acc[k + 1] = Split(acc[k], Slash)  BY Zenon, <1>2, <1>3, <2>1
  <2>3. Slashes(Ch, st, acc[k], k)  BY <1>5
  <2>4. Slashes(Ch, st, acc[k + 1], k + 1)  BY <2>1, <2>2, <2>3, SlashMore
  <2>. QED  BY Zenon, <2>1, <2>4
<1>. HIDE DEF S
<1>6. n \in S
  <2>1. \A k \in 0..n : k \in S  BY <1>4, <1>5, Upwards
  <2>. QED  BY <2>1
<1>7. Slashes(Ch, st, acc[n], n)  BY <1>6 DEF S
<1>. QED  BY Zenon, <1>2, <1>3, <1>7 DEF run

\* u is st with a quote behind m backslashes.
Quoted(Ch, st, m, u) ==
  /\ u \in States(Ch) /\ u.args = st.args /\ u.slash = 0 /\ u.in = TRUE /\ m \in Nat
  /\ m % 2 = 1 => /\ u.arg = Append(st.arg \o Times(m \div 2, Slash), Quote)
                  /\ u.quoted = st.quoted /\ u.two = FALSE
  /\ m % 2 = 0 => /\ u.arg = st.arg \o Times(m \div 2, Slash)
                  /\ u.quoted = ~st.quoted /\ u.two = st.quoted

\* ... and a quote behind them.
LEMMA WalkQuote ==
  ASSUME NEW Ch, Characters(Ch), NEW st \in States(Ch), NEW n \in Nat, st.two = FALSE
  PROVE  Quoted(Ch, st, st.slash + n, Walk(st, Times(n, Slash) \o <<Quote>>))
<1>. DEFINE m == st.slash + n
            u == Walk(st, Times(n, Slash) \o <<Quote>>)
<1>. DEFINE v == Walk(st, Times(n, Slash))
<1>1. Slash \in Ch /\ Quote \in Ch  BY DEF Characters
<1>2. Times(n, Slash) \in Seq(Ch) /\ <<Quote>> \in Seq(Ch)  BY <1>1, TimesTyped
<1>3. /\ v \in States(Ch) /\ v.args = st.args /\ v.arg = st.arg /\ v.slash = st.slash + n
      /\ v.quoted = st.quoted /\ v.two = FALSE
  BY WalkSlashes DEF Slashes
<1>4. u = Split(v, Quote)
  <2>. DEFINE one == <<Quote>>
              run == Times(n, Slash)
  <2>0. run \in Seq(Ch) /\ one \in Seq(Ch) /\ v = Walk(st, run) /\ u = Walk(st, run \o one)
    BY Zenon, <1>2
  <2>. HIDE DEF v, run
  <2>1. u = Walk(v, one)
    <3>. HIDE DEF one
    <3>. QED  BY <2>0, WalkJoin
  <2>2. Walk(v, <<Quote>>) = Split(v, Quote)  BY <1>1, <1>3, WalkOne
  <2>. QED  BY Zenon, <2>1, <2>2
<1>. HIDE DEF v
<1>5. v.slash = m /\ m \in Nat /\ (m % 2 = 0 \/ m % 2 = 1) /\ ~(m % 2 = 0 /\ m % 2 = 1)
  BY <1>3 DEF States
<1>6. Half(v) = st.arg \o Times(m \div 2, Slash)  BY Zenon, <1>3, <1>5 DEF Half
<1>. HIDE DEF u, m
<1>7. ASSUME m % 2 = 1 PROVE Quoted(Ch, st, m, u)
  <2>1. v.slash % 2 = 1  BY Zenon, <1>5, <1>7
  <2>2. /\ u \in States(Ch) /\ u.args = v.args /\ u.arg = Append(Half(v), Quote)
        /\ u.slash = 0 /\ u.in = TRUE /\ u.quoted = v.quoted /\ u.two = FALSE
    BY ZenonT(40), <1>3, <1>4, <2>1, OnOdd
  <2>3. u.args = st.args /\ u.arg = Append(st.arg \o Times(m \div 2, Slash), Quote) /\ u.quoted = st.quoted
    BY Zenon, <1>3, <1>6, <2>2
  <2>. QED  BY Zenon, <1>5, <1>7, <2>2, <2>3 DEF Quoted
<1>8. ASSUME m % 2 = 0 PROVE Quoted(Ch, st, m, u)
  <2>1. v.slash % 2 = 0 /\ ~(v.two /\ v.slash = 0)  BY Zenon, <1>3, <1>5, <1>8
  <2>2. /\ u \in States(Ch) /\ u.args = v.args /\ u.arg = Half(v)
        /\ u.slash = 0 /\ u.in = TRUE /\ u.quoted = ~v.quoted /\ u.two = v.quoted
    BY ZenonT(40), <1>3, <1>4, <2>1, OnEven
  <2>3. u.args = st.args /\ u.arg = st.arg \o Times(m \div 2, Slash) /\ u.quoted = ~st.quoted /\ u.two = st.quoted
    BY Zenon, <1>3, <1>6, <2>2
  <2>. QED  BY Zenon, <1>5, <1>8, <2>2, <2>3 DEF Quoted
<1>. QED  BY Zenon, <1>5, <1>7, <1>8 DEF Quoted, m, u

-----------------------------------------------------------------------------
\* An argument that came out wrong stays wrong.

\* s is no beginning of x.
Strays(s, x) == \E k \in 1..Len(s) : k > Len(x) \/ s[k] # x[k]

Lost(st, j, x) ==
  \/ j <= Len(st.args) /\ st.args[j] # x
  \/ j = Len(st.args) + 1 /\ st.in /\ Strays(st.arg, x)

\* t goes on where s ends.
Extends(X, s, t) == s \in Seq(X) /\ t \in Seq(X) /\ Len(s) <= Len(t) /\ \A k \in 1..Len(s) : t[k] = s[k]

LEMMA StraysOn ==
  ASSUME NEW X, NEW s, NEW t, Extends(X, s, t), NEW x \in Seq(X), Strays(s, x)
  PROVE  Strays(t, x) /\ t # x
<1>1. PICK k \in 1..Len(s) : k > Len(x) \/ s[k] # x[k]  BY DEF Strays
<1>2. k \in 1..Len(t) /\ t[k] = s[k]  BY <1>1 DEF Extends
<1>. QED  BY <1>1, <1>2 DEF Strays

LEMMA Further ==
  ASSUME NEW X, NEW s \in Seq(X), NEW t \in Seq(X), NEW x \in X
  PROVE  Extends(X, s, s) /\ Extends(X, s, s \o t) /\ Extends(X, s, Append(s \o t, x)) /\ Extends(X, s, Append(s, x))
BY DEF Extends

LEMMA ArgExtends ==
  ASSUME NEW Ch, Characters(Ch), NEW st \in States(Ch), NEW ch \in Ch
  PROVE  /\ Extends(Ch, st.arg, Half(st)) /\ Extends(Ch, st.arg, Append(Half(st), ch))
         /\ Extends(Ch, st.arg, Kept(st)) /\ Extends(Ch, st.arg, Append(Kept(st), ch))
         /\ Extends(Ch, st.arg, Append(st.arg, ch)) /\ Extends(Ch, st.arg, st.arg)
<1>1. st.arg \in Seq(Ch) /\ st.slash \in Nat /\ st.slash \div 2 \in Nat  BY DEF States
<1>2. Slash \in Ch  BY DEF Characters
<1>. DEFINE a == Times(st.slash \div 2, Slash)
            b == Times(st.slash, Slash)
<1>3. a \in Seq(Ch) /\ b \in Seq(Ch)  BY <1>1, <1>2, TimesTyped
<1>4. Half(st) = st.arg \o a /\ Kept(st) = st.arg \o b  BY Zenon DEF Half, Kept
<1>. HIDE DEF a, b
<1>. QED  BY <1>1, <1>3, <1>4, Further

LEMMA LostOn ==
  ASSUME NEW Ch, Characters(Ch), NEW st \in States(Ch), NEW u, u.args = st.args,
         Extends(Ch, st.arg, u.arg), st.in => u.in,
         NEW j, NEW x \in Seq(Ch), Lost(st, j, x)
  PROVE  Lost(u, j, x)
<1>1. Strays(st.arg, x) => Strays(u.arg, x)  BY StraysOn
<1>. QED  BY Zenon, <1>1 DEF Lost

LEMMA OtherExtends ==
  ASSUME NEW Ch, Characters(Ch), NEW st \in States(Ch), NEW ch \in Ch,
         ch # Slash, ch # Quote, ~(ch = Space /\ ~st.quoted)
  PROVE  /\ Split(st, ch).args = st.args /\ Extends(Ch, st.arg, Split(st, ch).arg)
         /\ st.in => Split(st, ch).in
<1>1. Extends(Ch, st.arg, Append(Kept(st), ch))  BY Zenon, ArgExtends
<1>2. Got(Ch, Split(st, ch), st.args, Append(Kept(st), ch), st.quoted, FALSE)  BY Zenon, OnOther
<1>. QED  BY Zenon, <1>1, <1>2 DEF Got

LEMMA SplitLost ==
  ASSUME NEW Ch, Characters(Ch), NEW st \in States(Ch), NEW ch \in Ch,
         NEW j \in Nat \ {0}, NEW x \in Seq(Ch), Lost(st, j, x)
  PROVE  Lost(Split(st, ch), j, x)
<1>. DEFINE u == Split(st, ch)
<1>1. st.args \in Seq(Seq(Ch)) /\ (st.slash % 2 = 0 \/ st.slash % 2 = 1)  BY DEF States
<1>2. CASE ch = Space /\ ~st.quoted
  <2>1. u = Between(IF st.in THEN Append(st.args, Kept(st)) ELSE st.args)  BY Zenon, <1>2, OnBlank
  <2>2. u.args = IF st.in THEN Append(st.args, Kept(st)) ELSE st.args  BY <2>1 DEF Between
  <2>. HIDE DEF u
  <2>3. CASE j <= Len(st.args) /\ st.args[j] # x
    <3>1. j <= Len(u.args) /\ u.args[j] = st.args[j]  BY <1>1, <2>2, <2>3
    <3>. QED  BY Zenon, <2>3, <3>1 DEF Lost, u
  <2>4. CASE j = Len(st.args) + 1 /\ st.in /\ Strays(st.arg, x)
    <3>1. u.args = Append(st.args, Kept(st))  BY Zenon, <2>2, <2>4
    <3>2. Extends(Ch, st.arg, Kept(st))  BY ArgExtends
    <3>3. Kept(st) # x  BY <2>4, <3>2, StraysOn
    <3>4. j <= Len(u.args) /\ u.args[j] = Kept(st)  BY <1>1, <2>4, <3>1
    <3>. QED  BY Zenon, <3>3, <3>4 DEF Lost, u
  <2>. QED  BY Zenon, <2>3, <2>4 DEF Lost
<1>3. CASE ~(ch = Space /\ ~st.quoted)
  <2>1. /\ Extends(Ch, st.arg, Half(st)) /\ Extends(Ch, st.arg, Append(Half(st), Quote))
        /\ Extends(Ch, st.arg, Append(Kept(st), ch))
        /\ Extends(Ch, st.arg, Append(st.arg, Quote)) /\ Extends(Ch, st.arg, st.arg)
    <3>1. Quote \in Ch  BY DEF Characters
    <3>. QED  BY Zenon, <3>1, ArgExtends
  <2>2. u.args = st.args /\ Extends(Ch, st.arg, u.arg) /\ (st.in => u.in)
    <3>1. CASE ch = Slash  BY Zenon, <2>1, <3>1, OnSlash
    <3>2. CASE ch = Quote
      <4>1. CASE st.slash % 2 = 1  BY Zenon, <2>1, <3>2, <4>1, OnOdd
      <4>2. CASE st.slash % 2 = 0 /\ ~(st.two /\ st.slash = 0)  BY Zenon, <2>1, <3>2, <4>2, OnEven
      <4>3. CASE st.two /\ st.slash = 0  BY Zenon, <2>1, <3>2, <4>3, OnTwo
      <4>. QED  BY Zenon, <1>1, <4>1, <4>2, <4>3
    <3>3. CASE ch # Slash /\ ch # Quote  BY Zenon, <1>3, <3>3, OtherExtends
    <3>. QED  BY Zenon, <3>1, <3>2, <3>3
  <2>. HIDE DEF u
  <2>3. Lost(u, j, x)  BY <2>2, LostOn
  <2>. QED  BY Zenon, <2>3 DEF u
<1>. QED  BY Zenon, <1>2, <1>3

-----------------------------------------------------------------------------
\* escape_one, character by character.

Notes(Ch) == [slash : Nat, buf : Seq(Ch)]

LEMMA EscapeTyped ==
  ASSUME NEW Ch, Characters(Ch), NEW e \in Notes(Ch), NEW ch \in Ch
  PROVE  Escape(e, ch) \in Notes(Ch)
<1>1. e.slash \in Nat /\ e.slash + 1 \in Nat /\ e.buf \in Seq(Ch)  BY DEF Notes
<1>2. Slash \in Ch /\ Quote \in Ch  BY DEF Characters
<1>. DEFINE run == Times(e.slash + 1, Slash)
            one == <<Quote>>
<1>3. run \in Seq(Ch) /\ one \in Seq(Ch)
  <2>1. run \in Seq(Ch)  BY Zenon, <1>1, <1>2, TimesTyped
  <2>. QED  BY <1>2, <2>1
<1>4. CASE ch = Slash
  <2>1. Escape(e, ch) = [slash |-> e.slash + 1, buf |-> Append(e.buf, Slash)]  BY Zenon, <1>4, Distinct DEF Escape
  <2>2. Append(e.buf, Slash) \in Seq(Ch)  BY Zenon, <1>1, <1>2, Appended
  <2>. QED  BY <1>1, <2>1, <2>2 DEF Notes
<1>5. CASE ch = Quote
  <2>1. Escape(e, ch) = [slash |-> e.slash, buf |-> e.buf \o run \o one]
    BY Zenon, <1>5, Distinct DEF Escape
  <2>. HIDE DEF run, one
  <2>2. e.buf \o run \o one \in Seq(Ch)  BY <1>1, <1>3
  <2>. QED  BY <1>1, <2>1, <2>2 DEF Notes
<1>6. CASE ch # Slash /\ ch # Quote
  <2>1. Escape(e, ch) = [slash |-> 0, buf |-> Append(e.buf, ch)]  BY Zenon, <1>6 DEF Escape
  <2>2. Append(e.buf, ch) \in Seq(Ch)  BY Zenon, <1>1, Appended
  <2>3. 0 \in Nat  OBVIOUS
  <2>. QED  BY <2>1, <2>2, <2>3 DEF Notes
<1>. QED  BY Zenon, <1>4, <1>5, <1>6

\* What escape_one has at the start.
Opening(space) == [slash |-> 0, buf |-> IF space THEN <<Quote>> ELSE <<>>]

\* esc: what it has behind each character of arg.
Escapes(Ch, arg, esc) ==
  /\ esc \in [0..Len(arg) -> Notes(Ch)]
  /\ esc[0] = Opening(Has(arg, {Space}))
  /\ \A k \in 1..Len(arg) : esc[k] = Escape(esc[k - 1], arg[k])

LEMMA EscapeIs ==
  ASSUME NEW Ch, Characters(Ch), NEW arg \in Seq(Ch)
  PROVE  \E esc :
           /\ Escapes(Ch, arg, esc)
           /\ arg # <<>> /\ Has(arg, {Quote, Slash, Space})
              => escape_one(arg) = esc[Len(arg)].buf \o Close(Has(arg, {Space}), esc[Len(arg)].slash)
<1>. DEFINE n == Len(arg)
            X == Notes(Ch)
            space == Has(arg, {Space})
            st == Opening(space)
            step == [p \in X \X (1..n) |-> Escape(p[1], arg[p[2]])]
            esc == CHOOSE f : f = [k \in 0..n |->
                     IF k = 0 THEN [slash |-> 0, buf |-> IF space THEN <<Quote>> ELSE <<>>]
                     ELSE Escape(f[k - 1], arg[k])]
<1>1. arg # <<>> /\ Has(arg, {Quote, Slash, Space})
      => escape_one(arg) = esc[n].buf \o Close(space, esc[n].slash)
  BY Zenon DEF escape_one
<1>2. n \in Nat /\ \A k \in 1..n : arg[k] \in Ch  OBVIOUS
<1>. HIDE DEF n, space
<1>3. step \in [X \X (1..n) -> X]
  <2>1. ASSUME NEW p \in X \X (1..n) PROVE Escape(p[1], arg[p[2]]) \in X
    <3>1. p[1] \in X /\ p[2] \in 1..n  OBVIOUS
    <3>2. arg[p[2]] \in Ch  BY <1>2, <3>1
    <3>. HIDE DEF X
    <3>. QED  BY Zenon, <3>1, <3>2, EscapeTyped DEF X
  <2>. HIDE DEF X
  <2>. QED  BY <2>1
<1>4. \A x \in X, k \in 1..n : step[<<x, k>>] = Escape(x, arg[k])
  <2>. HIDE DEF X
  <2>. QED  OBVIOUS
<1>5. st \in X
  <2>1. Quote \in Ch  BY DEF Characters
  <2>. QED  BY <2>1 DEF Opening, Notes
<1>. HIDE DEF step, X
<1>6. PICK f \in [0..n -> X] : f = [k \in 0..n |-> IF k = 0 THEN st ELSE step[<<f[k - 1], k>>]]
  <2>. HIDE DEF st
  <2>1. n \in Nat  BY <1>2
  <2>2. \E f \in [0..n -> X] : Iterated(f, n, st, step)  BY <1>3, <1>5, <2>1, Iterates
  <2>. QED  BY Zenon, <2>2 DEF Iterated
<1>7. ASSUME NEW k \in 0..n
      PROVE  f[k] = IF k = 0 THEN st ELSE Escape(f[k - 1], arg[k])
  <2>1. f[k] = IF k = 0 THEN st ELSE step[<<f[k - 1], k>>]  BY Zenon, <1>6
  <2>2. k # 0 => k \in 1..n /\ k - 1 \in 0..n  BY <1>2
  <2>3. k # 0 => f[k - 1] \in X  BY <2>2
  <2>. QED  BY Zenon, <1>4, <2>1, <2>2, <2>3
<1>8. f = [k \in 0..n |-> f[k]]  OBVIOUS
<1>9. f = [k \in 0..n |-> IF k = 0 THEN st ELSE Escape(f[k - 1], arg[k])]  BY Zenon, <1>7, <1>8
<1>10. esc = [k \in 0..n |-> IF k = 0 THEN st ELSE Escape(esc[k - 1], arg[k])]
  BY Zenon, <1>9 DEF Opening
<1>. HIDE DEF esc
<1>11. \A k \in 0..n : esc[k] = IF k = 0 THEN st ELSE Escape(esc[k - 1], arg[k])
  BY Zenon, <1>10
<1>12. esc[0] = st /\ \A k \in 1..n : esc[k] = Escape(esc[k - 1], arg[k])
  <2>1. 0 \in 0..n /\ \A k \in 1..n : k \in 0..n /\ k # 0  BY <1>2
  <2>. QED  BY Zenon, <1>11, <2>1
<1>13. \A k \in 0..n : esc[k] \in X
  <2>. HIDE DEF st
  <2>. DEFINE S == {k \in 0..n : esc[k] \in X}
  <2>1. 0 \in S  BY <1>2, <1>5, <1>12
  <2>2. ASSUME NEW k \in 0..n, k \in S, k < n PROVE k + 1 \in S
    <3>1. k + 1 \in 1..n /\ k + 1 \in 0..n /\ (k + 1) - 1 = k  BY <1>2, <2>2
    <3>2. esc[k + 1] = Escape(esc[k], arg[k + 1])  BY Zenon, <1>12, <3>1
    <3>3. arg[k + 1] \in Ch /\ esc[k] \in X  BY Zenon, <1>2, <2>2, <3>1
    <3>4. esc[k + 1] \in X  BY Zenon, <3>2, <3>3, EscapeTyped DEF X
    <3>. QED  BY <3>1, <3>4
  <2>. HIDE DEF S
  <2>3. \A k \in 0..n : k \in S  BY <1>2, <2>1, <2>2, Upwards
  <2>. QED  BY <2>3 DEF S
<1>14. esc \in [0..n -> X]
  <2>1. esc = [k \in 0..n |-> esc[k]]  BY Zenon, <1>10, <1>11
  <2>. QED  BY Zenon, <1>13, <2>1
<1>15. Escapes(Ch, arg, esc)  BY Zenon, <1>12, <1>14 DEF Escapes, n, X, space
<1>. QED  BY Zenon, <1>1, <1>15 DEF n, space

-----------------------------------------------------------------------------
\* An argument between escape_one and the split, one character at a time.

LEMMA PrefixIs ==
  ASSUME NEW X, NEW s \in Seq(X)
  PROVE  /\ SubSeq(s, 1, Len(s)) = s
         /\ \A n \in 0..Len(s) : SubSeq(s, 1, n) \in Seq(X) /\ Len(SubSeq(s, 1, n)) = n
         /\ \A n \in 0..Len(s) : \A k \in 1..n : SubSeq(s, 1, n)[k] = s[k]
OBVIOUS

LEMMA PrefixMore ==
  ASSUME NEW X, NEW s \in Seq(X), NEW n \in 0..Len(s), n < Len(s)
  PROVE  Append(SubSeq(s, 1, n), s[n + 1]) = SubSeq(s, 1, n + 1)
OBVIOUS

\* The first n characters of arg end in r backslashes.
Trails(arg, n, r) ==
  /\ r \in 0..n /\ \A k \in (n - r + 1)..n : arg[k] = Slash
  /\ r < n => arg[n - r] # Slash

LEMMA TrailsRun ==
  ASSUME NEW Ch, Slash \in Ch, NEW arg \in Seq(Ch), NEW n \in 0..Len(arg), NEW r, Trails(arg, n, r)
  PROVE  SubSeq(arg, 1, n - r) \o Times(r, Slash) = SubSeq(arg, 1, n)
<1>. DEFINE s == SubSeq(arg, 1, n - r)
            t == Times(r, Slash)
            u == SubSeq(arg, 1, n)
<1>1. r \in Nat /\ r <= n /\ n \in Nat /\ n - r \in 0..Len(arg)  BY DEF Trails
<1>2. s \in Seq(Ch) /\ Len(s) = n - r /\ \A k \in 1..(n - r) : s[k] = arg[k]  BY <1>1, PrefixIs
<1>3. t \in Seq(Ch) /\ Len(t) = r /\ \A k \in 1..r : t[k] = Slash  BY <1>1, TimesTyped
<1>4. u \in Seq(Ch) /\ Len(u) = n /\ \A k \in 1..n : u[k] = arg[k]  BY <1>1, PrefixIs
<1>. HIDE DEF s, t, u
<1>5. /\ s \o t \in Seq(Ch) /\ Len(s \o t) = n
      /\ \A k \in 1..(n - r) : (s \o t)[k] = arg[k]
      /\ \A k \in 1..r : (s \o t)[n - r + k] = Slash
  BY <1>1, <1>2, <1>3
<1>6. ASSUME NEW k \in 1..n PROVE (s \o t)[k] = u[k]
  <2>1. CASE k <= n - r
    <3>1. k \in 1..(n - r)  BY <1>1, <2>1
    <3>. QED  BY <1>4, <1>5, <3>1
  <2>2. CASE ~(k <= n - r)
    <3>. DEFINE i == k - (n - r)
    <3>1. i \in 1..r /\ k = n - r + i /\ k \in (n - r + 1)..n  BY <1>1, <2>2
    <3>. HIDE DEF i
    <3>2. (s \o t)[k] = Slash  BY <1>5, <3>1
    <3>3. arg[k] = Slash  BY <3>1 DEF Trails
    <3>. QED  BY <1>4, <3>2, <3>3
  <2>. QED  BY <2>1, <2>2
<1>. DEFINE w == s \o t
<1>7. w \in Seq(Ch) /\ Len(w) = Len(u) /\ \A k \in 1..Len(u) : w[k] = u[k]  BY <1>4, <1>5, <1>6
<1>. HIDE DEF w
<1>8. w = u  BY <1>4, <1>7
<1>. QED  BY Zenon, <1>8 DEF w, s, t, u

\* There is a quote at q, and a backslash before it.
Marked(arg, q) == q >= 2 /\ arg[q] = Quote /\ arg[q - 1] = Slash

\* Some backslashes of the first n characters are counted twice, and come before a quote.
Counted(arg, n) ==
  \E i, j \in 1..n : /\ i + 1 < j /\ Marked(arg, i + 1) /\ arg[j] = Quote
                     /\ \A k \in (i + 2)..(j - 1) : arg[k] = Slash

LEMMA CountedMore ==
  ASSUME NEW arg, NEW n \in Nat, NEW r, Trails(arg, n, r)
  PROVE  Counted(arg, n + 1) <=> Counted(arg, n) \/ (arg[n + 1] = Quote /\ Marked(arg, n - r))
<1>1. r \in 0..n /\ (\A k \in (n - r + 1)..n : arg[k] = Slash) /\ (r < n => arg[n - r] # Slash)
  BY DEF Trails
<1>2. ASSUME Counted(arg, n) PROVE Counted(arg, n + 1)
  <2>1. PICK i, j \in 1..n : /\ i + 1 < j /\ Marked(arg, i + 1) /\ arg[j] = Quote
                             /\ \A k \in (i + 2)..(j - 1) : arg[k] = Slash
    BY Zenon, <1>2 DEF Counted
  <2>2. i \in 1..(n + 1) /\ j \in 1..(n + 1)  OBVIOUS
  <2>. QED  BY Zenon, <2>1, <2>2 DEF Counted
<1>3. ASSUME arg[n + 1] = Quote, Marked(arg, n - r) PROVE Counted(arg, n + 1)
  <2>. DEFINE i == n - r - 1
              j == n + 1
  <2>1. /\ i \in 1..(n + 1) /\ j \in 1..(n + 1) /\ i + 1 < j /\ i + 1 = n - r
        /\ \A k \in (i + 2)..(j - 1) : k \in (n - r + 1)..n
    BY <1>1, <1>3 DEF Marked
  <2>2. \A k \in (i + 2)..(j - 1) : arg[k] = Slash  BY Zenon, <1>1, <2>1
  <2>3. Marked(arg, i + 1) /\ arg[j] = Quote  BY Zenon, <1>3, <2>1
  <2>. HIDE DEF i, j
  <2>. QED  BY Zenon, <2>1, <2>2, <2>3 DEF Counted
<1>4. ASSUME Counted(arg, n + 1), ~Counted(arg, n)
      PROVE  arg[n + 1] = Quote /\ Marked(arg, n - r)
  <2>1. PICK i, j \in 1..(n + 1) :
          /\ i + 1 < j /\ Marked(arg, i + 1) /\ arg[j] = Quote
          /\ \A k \in (i + 2)..(j - 1) : arg[k] = Slash
    BY Zenon, <1>4 DEF Counted
  <2>2. j = n + 1
    <3>1. SUFFICES ASSUME j # n + 1 PROVE FALSE  OBVIOUS
    <3>2. i \in 1..n /\ j \in 1..n  BY <2>1, <3>1
    <3>. QED  BY Zenon, <1>4, <2>1, <3>2 DEF Counted
  <2>3. i + 1 = n - r
    <3>1. arg[i + 1] = Quote  BY <2>1 DEF Marked
    <3>2. CASE i + 1 > n - r
      <4>1. i + 1 \in (n - r + 1)..n  BY <1>1, <2>1, <2>2, <3>2
      <4>. QED  BY <1>1, <3>1, <4>1, Distinct
    <3>3. CASE i + 1 < n - r
      <4>1. n - r \in (i + 2)..(j - 1) /\ r < n  BY <1>1, <2>1, <2>2, <3>3
      <4>. QED  BY <1>1, <2>1, <4>1
    <3>. QED  BY <1>1, <3>2, <3>3
  <2>. QED  BY Zenon, <2>1, <2>2, <2>3
<1>. QED  BY Zenon, <1>2, <1>3, <1>4

\* What escape_one counted: more than the trailing backslashes if a quote had some before it.
Noted(Ch, arg, n, r, e) ==
  e \in Notes(Ch) /\ e.slash >= r /\ (e.slash > r <=> Marked(arg, n - r))

\* What the split has read of arg behind done, and holds back the trailing backslashes.
Read(Ch, done, arg, n, r, p) ==
  /\ p \in States(Ch) /\ p.args = done /\ p.arg = SubSeq(arg, 1, n - r) /\ p.slash = r
  /\ n > 0 => p.in = TRUE
  /\ p.quoted = Has(arg, {Space}) /\ p.two = FALSE

LEMMA Trailing ==
  ASSUME NEW arg, NEW n \in Nat, NEW r, Trails(arg, n, r)
  PROVE  /\ arg[n + 1] = Slash => Trails(arg, n + 1, r + 1) /\ (n + 1) - (r + 1) = n - r
         /\ arg[n + 1] # Slash => Trails(arg, n + 1, 0)
<1>1. r \in 0..n /\ (\A k \in (n - r + 1)..n : arg[k] = Slash) /\ (r < n => arg[n - r] # Slash)
  BY DEF Trails
<1>2. ASSUME arg[n + 1] = Slash PROVE Trails(arg, n + 1, r + 1) /\ (n + 1) - (r + 1) = n - r
  <2>1. (n + 1) - (r + 1) = n - r /\ r + 1 \in 0..(n + 1) /\ (r + 1 < n + 1 => r < n)  BY <1>1
  <2>2. ASSUME NEW k \in ((n + 1) - (r + 1) + 1)..(n + 1) PROVE arg[k] = Slash
    <3>1. k = n + 1 \/ k \in (n - r + 1)..n  BY <1>1
    <3>. QED  BY Zenon, <1>1, <1>2, <3>1
  <2>. QED  BY Zenon, <1>1, <2>1, <2>2 DEF Trails
<1>3. ASSUME arg[n + 1] # Slash PROVE Trails(arg, n + 1, 0)  BY <1>3 DEF Trails
<1>. QED  BY Zenon, <1>2, <1>3

LEMMA ReadSlash ==
  ASSUME NEW Ch, Characters(Ch), NEW done, NEW arg \in Seq(Ch), NEW n \in Nat, NEW r \in Nat,
         NEW p, Read(Ch, done, arg, n, r, p), NEW u, u = Split(p, Slash)
  PROVE  Read(Ch, done, arg, n + 1, r + 1, u)
<1>1. p \in States(Ch)  BY Zenon DEF Read
<1>2. /\ u \in States(Ch) /\ u.args = p.args /\ u.arg = p.arg /\ u.slash = p.slash + 1
      /\ u.in = TRUE /\ u.quoted = p.quoted /\ u.two = FALSE
  BY <1>1, OnSlash
<1>3. (n + 1) - (r + 1) = n - r  OBVIOUS
<1>. QED  BY Zenon, <1>2, <1>3 DEF Read

LEMMA NotedSlash ==
  ASSUME NEW Ch, Characters(Ch), NEW arg, NEW n \in Nat, NEW r \in Nat, NEW e, Noted(Ch, arg, n, r, e)
  PROVE  Noted(Ch, arg, n + 1, r + 1, Escape(e, Slash))
<1>. DEFINE f == Escape(e, Slash)
<1>1. f = [slash |-> e.slash + 1, buf |-> Append(e.buf, Slash)]  BY Zenon, Distinct DEF Escape
<1>2. f \in Notes(Ch)
  <2>1. e \in Notes(Ch) /\ Slash \in Ch  BY DEF Noted, Characters
  <2>. QED  BY Zenon, <2>1, EscapeTyped
<1>. HIDE DEF f
<1>3. e.slash \in Nat /\ f.slash = e.slash + 1  BY <1>1 DEF Noted, Notes
<1>4. (n + 1) - (r + 1) = n - r  OBVIOUS
<1>5. f.slash >= r + 1 /\ (f.slash > r + 1 <=> e.slash > r)  BY <1>3 DEF Noted
<1>6. Noted(Ch, arg, n + 1, r + 1, f)  BY Zenon, <1>2, <1>4, <1>5 DEF Noted
<1>. QED  BY Zenon, <1>6 DEF f

\* A character that is neither a quote nor a backslash.
LEMMA ReadOther ==
  ASSUME NEW Ch, Characters(Ch), NEW done, NEW arg \in Seq(Ch), NEW n \in 0..Len(arg), n < Len(arg),
         NEW r, Trails(arg, n, r), NEW p, Read(Ch, done, arg, n, r, p),
         arg[n + 1] # Slash, arg[n + 1] # Quote
  PROVE  Read(Ch, done, arg, n + 1, 0, Split(p, arg[n + 1]))
<1>. DEFINE ch == arg[n + 1]
            u == Split(p, ch)
<1>1. p \in States(Ch) /\ p.args = done /\ p.slash = r /\ p.arg = SubSeq(arg, 1, n - r)
      /\ p.quoted = Has(arg, {Space})
  BY Zenon DEF Read
<1>2. ch \in Ch /\ n + 1 \in DOMAIN arg  OBVIOUS
<1>3. ~(ch = Space /\ ~p.quoted)
  <2>1. ch = Space => Has(arg, {Space})  BY <1>2 DEF Has
  <2>. QED  BY Zenon, <1>1, <2>1
<1>4. Got(Ch, u, p.args, Append(Kept(p), ch), p.quoted, FALSE)
  <2>. HIDE DEF ch
  <2>1. ch # Slash /\ ch # Quote  BY Zenon DEF ch
  <2>. QED  BY Zenon, <1>1, <1>2, <1>3, <2>1, OnOther
<1>5. Kept(p) = SubSeq(arg, 1, n)
  <2>1. Kept(p) = SubSeq(arg, 1, n - r) \o Times(r, Slash)  BY Zenon, <1>1 DEF Kept
  <2>2. Slash \in Ch  BY DEF Characters
  <2>. QED  BY Zenon, <2>1, <2>2, TrailsRun
<1>6. Append(SubSeq(arg, 1, n), ch) = SubSeq(arg, 1, n + 1)  BY Zenon, PrefixMore
<1>7. (n + 1) - 0 = n + 1  OBVIOUS
<1>. HIDE DEF u, ch
<1>8. Append(Kept(p), ch) = SubSeq(arg, 1, (n + 1) - 0)  BY Zenon, <1>5, <1>6, <1>7
<1>9. Read(Ch, done, arg, n + 1, 0, u)  BY Zenon, <1>1, <1>4, <1>8 DEF Got, Read
<1>. QED  BY Zenon, <1>9 DEF u, ch

LEMMA NotedOther ==
  ASSUME NEW Ch, Characters(Ch), NEW arg, NEW n \in Nat, arg[n + 1] \in Ch, NEW r,
         NEW e, Noted(Ch, arg, n, r, e), arg[n + 1] # Slash, arg[n + 1] # Quote
  PROVE  Noted(Ch, arg, n + 1, 0, Escape(e, arg[n + 1]))
<1>. DEFINE ch == arg[n + 1]
            f == Escape(e, ch)
<1>1. f = [slash |-> 0, buf |-> Append(e.buf, ch)]  BY Zenon DEF Escape
<1>2. f \in Notes(Ch)
  <2>1. e \in Notes(Ch)  BY Zenon DEF Noted
  <2>. QED  BY Zenon, <2>1, EscapeTyped
<1>3. (n + 1) - 0 = n + 1 /\ ~Marked(arg, n + 1)  BY DEF Marked
<1>. HIDE DEF f
<1>4. f.slash = 0  BY <1>1
<1>5. f.slash >= 0 /\ ~(f.slash > 0)  BY <1>4
<1>6. Noted(Ch, arg, n + 1, 0, f)  BY Zenon, <1>2, <1>3, <1>5 DEF Noted
<1>. QED  BY Zenon, <1>6 DEF f

\* A quote, with as many backslashes before it as are known to be there.
LEMMA ReadQuote ==
  ASSUME NEW Ch, Characters(Ch), NEW done, NEW arg \in Seq(Ch), NEW n \in 0..Len(arg), n < Len(arg),
         NEW r, Trails(arg, n, r), NEW p, Read(Ch, done, arg, n, r, p), arg[n + 1] = Quote
  PROVE  Read(Ch, done, arg, n + 1, 0, Walk(p, Times(r + 1, Slash) \o <<Quote>>))
<1>. DEFINE u == Walk(p, Times(r + 1, Slash) \o <<Quote>>)
            m == p.slash + (r + 1)
<1>1. p \in States(Ch) /\ p.args = done /\ p.slash = r /\ p.arg = SubSeq(arg, 1, n - r)
      /\ p.quoted = Has(arg, {Space}) /\ p.two = FALSE
  BY Zenon DEF Read
<1>2. r \in Nat /\ r + 1 \in Nat /\ m % 2 = 1 /\ m \div 2 = r  BY <1>1 DEF Trails
<1>3. Quoted(Ch, p, m, u)  BY Zenon, <1>1, <1>2, WalkQuote
<1>4. SubSeq(arg, 1, n - r) \o Times(r, Slash) = SubSeq(arg, 1, n)
  <2>1. Slash \in Ch  BY DEF Characters
  <2>. QED  BY Zenon, <2>1, TrailsRun
<1>5. Append(SubSeq(arg, 1, n), Quote) = SubSeq(arg, 1, n + 1)  BY Zenon, PrefixMore
<1>6. (n + 1) - 0 = n + 1  OBVIOUS
<1>. HIDE DEF u, m
<1>7. u.arg = SubSeq(arg, 1, (n + 1) - 0)  BY Zenon, <1>1, <1>2, <1>3, <1>4, <1>5, <1>6 DEF Quoted
<1>8. Read(Ch, done, arg, n + 1, 0, u)  BY Zenon, <1>1, <1>2, <1>3, <1>7 DEF Quoted, Read
<1>. QED  BY Zenon, <1>8 DEF u

LEMMA NotedQuote ==
  ASSUME NEW Ch, Characters(Ch), NEW arg, NEW n \in Nat, NEW r, Trails(arg, n, r),
         NEW e, Noted(Ch, arg, n, r, e), arg[n + 1] = Quote, ~(e.slash > r)
  PROVE  Noted(Ch, arg, n + 1, 0, Escape(e, Quote)) /\ e.slash = r
<1>. DEFINE f == Escape(e, Quote)
<1>1. f = [slash |-> e.slash, buf |-> e.buf \o Times(e.slash + 1, Slash) \o <<Quote>>]
  BY Zenon, Distinct DEF Escape
<1>2. f \in Notes(Ch)
  <2>1. e \in Notes(Ch) /\ Quote \in Ch  BY DEF Noted, Characters
  <2>. QED  BY Zenon, <2>1, EscapeTyped
<1>3. e.slash = r /\ r \in Nat  BY DEF Noted, Notes, Trails
<1>. HIDE DEF f
<1>4. f.slash = r  BY <1>1, <1>3
<1>5. (n + 1) - 0 = n + 1 /\ f.slash >= 0  BY <1>3, <1>4
<1>6. f.slash > 0 <=> Marked(arg, n + 1)
  <2>1. (n + 1) - 1 = n  OBVIOUS
  <2>2. CASE r = 0
    <3>1. Marked(arg, n + 1) => n >= 1 /\ arg[n] = Slash  BY <2>1 DEF Marked
    <3>2. n >= 1 => arg[n] # Slash  BY <2>2 DEF Trails
    <3>. QED  BY <1>4, <2>2, <3>1, <3>2
  <2>3. CASE r # 0
    <3>1. r > 0 /\ n \in (n - r + 1)..n /\ n + 1 >= 2  BY <1>3, <2>3 DEF Trails
    <3>2. arg[n] = Slash  BY <3>1 DEF Trails
    <3>3. Marked(arg, n + 1)  BY Zenon, <2>1, <3>1, <3>2 DEF Marked
    <3>. QED  BY <1>4, <3>1, <3>3
  <2>. QED  BY <2>2, <2>3
<1>7. Noted(Ch, arg, n + 1, 0, f)  BY Zenon, <1>2, <1>5, <1>6 DEF Noted
<1>. QED  BY Zenon, <1>3, <1>7 DEF f

LEMMA WalkLost ==
  ASSUME NEW Ch, Characters(Ch), NEW st \in States(Ch), NEW part \in Seq(Ch),
         NEW j \in Nat \ {0}, NEW x \in Seq(Ch), Lost(st, j, x)
  PROVE  Lost(Walk(st, part), j, x)
<1>. DEFINE n == Len(part)
<1>1. PICK acc \in [0..n -> States(Ch)] :
        /\ acc[0] = st /\ \A k \in 1..n : acc[k] = Split(acc[k - 1], part[k])
        /\ Walk(st, part) = acc[n]
  BY WalkIs
<1>2. n \in Nat /\ \A k \in 1..n : part[k] \in Ch  OBVIOUS
<1>. HIDE DEF n
<1>. DEFINE S == {k \in 0..n : Lost(acc[k], j, x)}
<1>3. 0 \in S  BY <1>1, <1>2
<1>4. ASSUME NEW k \in 0..n, k \in S, k < n PROVE k + 1 \in S
  <2>1. k + 1 \in 1..n /\ k + 1 \in 0..n /\ (k + 1) - 1 = k  BY <1>2, <1>4
  <2>2. acc[k + 1] = Split(acc[k], part[k + 1])  BY Zenon, <1>1, <2>1
  <2>3. acc[k] \in States(Ch) /\ Lost(acc[k], j, x) /\ part[k + 1] \in Ch  BY <1>2, <1>4, <2>1
  <2>4. Lost(acc[k + 1], j, x)  BY Zenon, <2>2, <2>3, SplitLost
  <2>. QED  BY Zenon, <2>1, <2>4
<1>. HIDE DEF S
<1>5. n \in S
  <2>1. \A k \in 0..n : k \in S  BY <1>2, <1>3, <1>4, Upwards
  <2>. QED  BY <1>2, <2>1
<1>. QED  BY Zenon, <1>1, <1>5 DEF S

\* More backslashes than the argument has, or a longer argument.
LEMMA TooMany ==
  ASSUME NEW Ch, Characters(Ch), NEW arg \in Seq(Ch), NEW n \in 0..Len(arg), NEW r, Trails(arg, n, r),
         NEW h \in Nat, h > r, n < Len(arg) => arg[n + 1] # Slash
  PROVE  Strays(SubSeq(arg, 1, n - r) \o Times(h, Slash), arg)
<1>. DEFINE s == SubSeq(arg, 1, n - r)
            t == Times(h, Slash)
<1>1. r \in Nat /\ r <= n /\ n \in Nat /\ n - r \in 0..Len(arg) /\ r + 1 \in 1..h  BY DEF Trails
<1>2. s \in Seq(Ch) /\ Len(s) = n - r  BY <1>1, PrefixIs
<1>3. t \in Seq(Ch) /\ Len(t) = h /\ \A k \in 1..h : t[k] = Slash
  <2>1. Slash \in Ch  BY DEF Characters
  <2>. QED  BY <2>1, TimesTyped
<1>. HIDE DEF s, t
<1>4. n + 1 \in 1..Len(s \o t) /\ (s \o t)[n + 1] = t[r + 1]  BY <1>1, <1>2, <1>3
<1>5. (s \o t)[n + 1] = Slash  BY <1>1, <1>3, <1>4
<1>6. n + 1 > Len(arg) \/ (s \o t)[n + 1] # arg[n + 1]  BY <1>5
<1>7. Strays(s \o t, arg)  BY Zenon, <1>4, <1>6 DEF Strays
<1>. QED  BY Zenon, <1>7 DEF s, t

LEMMA TooLong ==
  ASSUME NEW Ch, NEW s \in Seq(Ch), NEW arg \in Seq(Ch), Len(s) > Len(arg)
  PROVE  Strays(s, arg)
<1>1. Len(s) \in 1..Len(s)  OBVIOUS
<1>. QED  BY <1>1 DEF Strays

\* A quote, with too many backslashes before it.
LEMMA LostQuote ==
  ASSUME NEW Ch, Characters(Ch), NEW done \in Seq(Seq(Ch)), NEW arg \in Seq(Ch),
         NEW n \in 0..Len(arg), n < Len(arg), NEW r, Trails(arg, n, r),
         NEW p, Read(Ch, done, arg, n, r, p), arg[n + 1] = Quote, NEW k \in Nat, k > r + 1
  PROVE  Lost(Walk(p, Times(k, Slash) \o <<Quote>>), Len(done) + 1, arg)
<1>. DEFINE u == Walk(p, Times(k, Slash) \o <<Quote>>)
            m == p.slash + k
            h == m \div 2
            s == SubSeq(arg, 1, n - r) \o Times(h, Slash)
<1>1. p \in States(Ch) /\ p.args = done /\ p.slash = r /\ p.arg = SubSeq(arg, 1, n - r) /\ p.two = FALSE
  BY Zenon DEF Read
<1>2. r \in Nat /\ m \in Nat /\ h \in Nat /\ h > r /\ (m % 2 = 0 \/ m % 2 = 1)  BY <1>1 DEF Trails
<1>3. Quoted(Ch, p, m, u)  BY Zenon, <1>1, WalkQuote
<1>. HIDE DEF u, m
<1>4. u.arg = s \/ u.arg = Append(s, Quote)  BY Zenon, <1>1, <1>2, <1>3 DEF Quoted
<1>5. Strays(s, arg)
  <2>1. arg[n + 1] # Slash  BY Distinct
  <2>. HIDE DEF h
  <2>. QED  BY Zenon, <1>2, <2>1, TooMany
<1>6. s \in Seq(Ch) /\ Quote \in Ch
  <2>1. SubSeq(arg, 1, n - r) \in Seq(Ch)  BY <1>1 DEF States
  <2>2. Slash \in Ch /\ Quote \in Ch  BY DEF Characters
  <2>3. Times(h, Slash) \in Seq(Ch)  BY Zenon, <1>2, <2>2, TimesTyped
  <2>. QED  BY <2>1, <2>2, <2>3
<1>. HIDE DEF s
<1>7. Strays(u.arg, arg)
  <2>1. Extends(Ch, s, Append(s, Quote))  BY <1>6, Further
  <2>2. Strays(Append(s, Quote), arg)  BY Zenon, <1>5, <2>1, StraysOn
  <2>. QED  BY Zenon, <1>4, <1>5, <2>2
<1>8. u.args = done /\ u.in  BY Zenon, <1>1, <1>3 DEF Quoted
<1>9. Lost(u, Len(done) + 1, arg)  BY Zenon, <1>7, <1>8 DEF Lost
<1>. QED  BY Zenon, <1>9 DEF u

\* The first n characters of arg, behind the arguments done: either backslashes were counted
\* twice and the argument is lost, or what was read is what was written.
Sound(Ch, done, arg, n, e, p) ==
  \/ Counted(arg, n) /\ Lost(p, Len(done) + 1, arg)
  \/ /\ ~Counted(arg, n)
     /\ \E r : Trails(arg, n, r) /\ Noted(Ch, arg, n, r, e) /\ Read(Ch, done, arg, n, r, p)

LEMMA SoundStart ==
  ASSUME NEW Ch, Characters(Ch), NEW done \in Seq(Seq(Ch)), NEW arg \in Seq(Ch),
         NEW e, e = Opening(Has(arg, {Space}))
  PROVE  Sound(Ch, done, arg, 0, e, Walk(Between(done), e.buf))
<1>. DEFINE st == Between(done)
            space == Has(arg, {Space})
            p == Walk(st, e.buf)
<1>1. /\ st \in States(Ch) /\ st.args = done /\ st.arg = <<>> /\ st.slash = 0
      /\ st.in = FALSE /\ st.quoted = FALSE /\ st.two = FALSE
  BY BetweenIs
<1>. HIDE DEF st
<1>2. space \in BOOLEAN  BY DEF Has
<1>3. e.slash = 0 /\ e.buf = IF space THEN <<Quote>> ELSE <<>>  BY DEF Opening
<1>4. e \in Notes(Ch)
  <2>1. Quote \in Ch  BY DEF Characters
  <2>. HIDE DEF space
  <2>. QED  BY <2>1 DEF Opening, Notes, space
<1>5. Quote \in Ch  BY DEF Characters
<1>6. CASE space
  <2>1. p = Split(st, Quote)
    <3>1. p = Walk(st, <<Quote>>)  BY Zenon, <1>3, <1>6
    <3>. HIDE DEF p
    <3>2. Walk(st, <<Quote>>) = Split(st, Quote)  BY <1>1, <1>5, WalkOne
    <3>. QED  BY Zenon, <3>1, <3>2
  <2>2. st.slash % 2 = 0 /\ ~(st.two /\ st.slash = 0) /\ st.slash \div 2 = 0  BY <1>1
  <2>. HIDE DEF p
  <2>3. /\ p \in States(Ch) /\ p.args = st.args /\ p.arg = Half(st)
        /\ p.slash = 0 /\ p.in = TRUE /\ p.quoted = ~st.quoted /\ p.two = st.quoted
    BY Zenon, <1>1, <2>1, <2>2, OnEven
  <2>4. Half(st) = SubSeq(arg, 1, 0 - 0)
    <3>1. Half(st) = <<>> \o Times(0, Slash)  BY Zenon, <1>1, <2>2 DEF Half
    <3>2. Times(0, Slash) = <<>>  BY DEF Times
    <3>3. <<>> \o <<>> = <<>> /\ SubSeq(arg, 1, 0 - 0) = <<>>  OBVIOUS
    <3>. QED  BY Zenon, <3>1, <3>2, <3>3
  <2>. HIDE DEF space
  <2>5. Read(Ch, done, arg, 0, 0, p)  BY <1>1, <1>6, <2>3, <2>4 DEF Read, space
  <2>6. Trails(arg, 0, 0) /\ ~Counted(arg, 0)  BY DEF Trails, Counted
  <2>7. Noted(Ch, arg, 0, 0, e)  BY <1>3, <1>4 DEF Noted, Marked
  <2>. QED  BY Zenon, <2>5, <2>6, <2>7 DEF Sound, p, st
<1>7. CASE ~space
  <2>1. p = st
    <3>1. p = Walk(st, <<>>)  BY Zenon, <1>3, <1>7
    <3>. HIDE DEF p
    <3>2. Walk(st, <<>>) = st  BY <1>1, WalkNone
    <3>. QED  BY Zenon, <3>1, <3>2
  <2>. HIDE DEF p
  <2>4. <<>> = SubSeq(arg, 1, 0 - 0)  OBVIOUS
  <2>. HIDE DEF space
  <2>3. ~(0 > 0) /\ (space = FALSE)  BY <1>2, <1>7
  <2>5. Read(Ch, done, arg, 0, 0, p)  BY Zenon, <1>1, <2>1, <2>3, <2>4 DEF Read, space
  <2>6. Trails(arg, 0, 0) /\ ~Counted(arg, 0)  BY DEF Trails, Counted
  <2>7. Noted(Ch, arg, 0, 0, e)  BY <1>3, <1>4 DEF Noted, Marked
  <2>. QED  BY Zenon, <2>5, <2>6, <2>7 DEF Sound, p, st
<1>. QED  BY Zenon, <1>6, <1>7

LEMMA QuoteBuffer ==
  ASSUME NEW Ch, Characters(Ch), NEW st \in States(Ch), NEW e \in Notes(Ch)
  PROVE  /\ e.slash + 1 \in Nat /\ e.buf \in Seq(Ch)
         /\ Times(e.slash + 1, Slash) \o <<Quote>> \in Seq(Ch)
         /\ Walk(st, Escape(e, Quote).buf) = Walk(Walk(st, e.buf), Times(e.slash + 1, Slash) \o <<Quote>>)
<1>. DEFINE a == e.buf
            b == Times(e.slash + 1, Slash)
            c == <<Quote>>
            t == b \o c
<1>1. e.slash + 1 \in Nat /\ a \in Seq(Ch)  BY DEF Notes
<1>2. b \in Seq(Ch) /\ c \in Seq(Ch)
  <2>1. Slash \in Ch /\ Quote \in Ch  BY DEF Characters
  <2>2. b \in Seq(Ch)  BY Zenon, <1>1, <2>1, TimesTyped
  <2>. QED  BY <2>1, <2>2
<1>3. Escape(e, Quote) = [slash |-> e.slash, buf |-> a \o b \o c]  BY Zenon, Distinct DEF Escape
<1>. HIDE DEF a, b, c
<1>4. Escape(e, Quote).buf = a \o b \o c  BY <1>3
<1>5. a \o b \o c = a \o (b \o c)  BY <1>1, <1>2
<1>6. t \in Seq(Ch)  BY <1>2
<1>. HIDE DEF t
<1>7. Walk(st, a \o t) = Walk(Walk(st, a), t)  BY <1>1, <1>6, WalkJoin
<1>. QED  BY Zenon, <1>1, <1>4, <1>5, <1>6, <1>7 DEF a, b, c, t

LEMMA OtherBuffer ==
  ASSUME NEW Ch, Characters(Ch), NEW st \in States(Ch), NEW e \in Notes(Ch), NEW ch \in Ch, ch # Quote
  PROVE  Walk(st, Escape(e, ch).buf) = Split(Walk(st, e.buf), ch)
<1>. DEFINE a == e.buf
<1>1. a \in Seq(Ch)  BY DEF Notes
<1>2. Escape(e, ch).buf = Append(a, ch)
  <2>1. CASE ch = Slash
    <3>1. Escape(e, ch) = [slash |-> e.slash + 1, buf |-> Append(a, ch)]
      BY Zenon, <2>1, Distinct DEF Escape
    <3>. QED  BY <3>1
  <2>2. CASE ch # Slash
    <3>1. Escape(e, ch) = [slash |-> 0, buf |-> Append(a, ch)]  BY Zenon, <2>2 DEF Escape
    <3>. QED  BY <3>1
  <2>. QED  BY <2>1, <2>2
<1>. HIDE DEF a
<1>3. Walk(st, Append(a, ch)) = Split(Walk(st, a), ch)  BY Zenon, <1>1, WalkAppend
<1>. QED  BY Zenon, <1>2, <1>3 DEF a

LEMMA SoundStep ==
  ASSUME NEW Ch, Characters(Ch), NEW done \in Seq(Seq(Ch)), NEW arg \in Seq(Ch),
         NEW n \in 0..Len(arg), n < Len(arg), NEW e \in Notes(Ch),
         Sound(Ch, done, arg, n, e, Walk(Between(done), e.buf))
  PROVE  Sound(Ch, done, arg, n + 1, Escape(e, arg[n + 1]),
               Walk(Between(done), Escape(e, arg[n + 1]).buf))
<1>. DEFINE st == Between(done)
            p == Walk(st, e.buf)
            ch == arg[n + 1]
            f == Escape(e, ch)
            u == Walk(st, f.buf)
            tail == Times(e.slash + 1, Slash) \o <<Quote>>
<1>1. st \in States(Ch) /\ n \in Nat /\ ch \in Ch /\ n + 1 \in Nat
  <2>1. st \in States(Ch)  BY BetweenIs
  <2>. QED  BY <2>1
<1>. HIDE DEF st
<1>2. p \in States(Ch)
  <2>1. e.buf \in Seq(Ch)  BY DEF Notes
  <2>. QED  BY Zenon, <1>1, <2>1, WalkTyped
<1>3. ch # Quote => u = Split(p, ch)  BY Zenon, <1>1, OtherBuffer
<1>4. /\ e.slash + 1 \in Nat /\ tail \in Seq(Ch)
      /\ ch = Quote => u = Walk(p, tail)
  BY Zenon, <1>1, QuoteBuffer
<1>. HIDE DEF p, f, u
<1>5. CASE Counted(arg, n) /\ Lost(p, Len(done) + 1, arg)
  <2>1. Counted(arg, n + 1)
    <3>1. PICK i, j \in 1..n : /\ i + 1 < j /\ Marked(arg, i + 1) /\ arg[j] = Quote
                               /\ \A k \in (i + 2)..(j - 1) : arg[k] = Slash
      BY Zenon, <1>5 DEF Counted
    <3>2. i \in 1..(n + 1) /\ j \in 1..(n + 1)  BY <1>1
    <3>. QED  BY Zenon, <3>1, <3>2 DEF Counted
  <2>2. Len(done) + 1 \in Nat \ {0}  OBVIOUS
  <2>3. Lost(u, Len(done) + 1, arg)
    <3>1. CASE ch = Quote  BY Zenon, <1>2, <1>4, <1>5, <2>2, <3>1, WalkLost
    <3>2. CASE ch # Quote  BY Zenon, <1>1, <1>2, <1>3, <1>5, <2>2, <3>2, SplitLost
    <3>. QED  BY Zenon, <3>1, <3>2
  <2>. QED  BY Zenon, <2>1, <2>3 DEF Sound, u, st, f
<1>6. CASE /\ ~Counted(arg, n)
           /\ \E r : Trails(arg, n, r) /\ Noted(Ch, arg, n, r, e) /\ Read(Ch, done, arg, n, r, p)
  <2>1. PICK r : Trails(arg, n, r) /\ Noted(Ch, arg, n, r, e) /\ Read(Ch, done, arg, n, r, p)
    BY Zenon, <1>6
  <2>2. r \in Nat  BY <2>1 DEF Trails
  <2>3. Counted(arg, n + 1) <=> ch = Quote /\ Marked(arg, n - r)
    BY Zenon, <1>1, <1>6, <2>1, CountedMore
  <2>4. /\ ch = Slash => Trails(arg, n + 1, r + 1)
        /\ ch # Slash => Trails(arg, n + 1, 0)
    BY Zenon, <1>1, <2>1, Trailing
  <2>5. e.slash > r <=> Marked(arg, n - r)  BY Zenon, <2>1 DEF Noted
  <2>6. CASE ch = Slash
    <3>1. u = Split(p, Slash) /\ f = Escape(e, Slash)  BY Zenon, <1>3, <2>6, Distinct DEF f
    <3>2. Read(Ch, done, arg, n + 1, r + 1, u)  BY Zenon, <1>1, <2>1, <2>2, <3>1, ReadSlash
    <3>3. Noted(Ch, arg, n + 1, r + 1, f)  BY Zenon, <1>1, <2>1, <2>2, <3>1, NotedSlash
    <3>4. ~Counted(arg, n + 1)  BY Zenon, <2>3, <2>6, Distinct
    <3>. QED  BY Zenon, <2>4, <2>6, <3>2, <3>3, <3>4 DEF Sound, u, st, f
  <2>7. CASE ch # Slash /\ ch # Quote
    <3>1. Read(Ch, done, arg, n + 1, 0, u)
      <4>1. Read(Ch, done, arg, n + 1, 0, Split(p, ch))  BY Zenon, <2>1, <2>7, ReadOther
      <4>. QED  BY Zenon, <1>3, <2>7, <4>1
    <3>2. Noted(Ch, arg, n + 1, 0, f)
      <4>1. Noted(Ch, arg, n + 1, 0, Escape(e, ch))  BY Zenon, <1>1, <2>1, <2>7, NotedOther
      <4>. QED  BY Zenon, <4>1 DEF f
    <3>. QED  BY Zenon, <2>3, <2>4, <2>7, <3>1, <3>2 DEF Sound, u, st, f
  <2>8. CASE ch = Quote /\ ~(e.slash > r)
    <3>1. Noted(Ch, arg, n + 1, 0, Escape(e, Quote)) /\ e.slash = r
      BY Zenon, <1>1, <2>1, <2>8, NotedQuote
    <3>2. u = Walk(p, Times(r + 1, Slash) \o <<Quote>>)  BY Zenon, <1>4, <2>8, <3>1
    <3>3. Read(Ch, done, arg, n + 1, 0, u)
      <4>1. Read(Ch, done, arg, n + 1, 0, Walk(p, Times(r + 1, Slash) \o <<Quote>>))
        BY Zenon, <2>1, <2>8, ReadQuote
      <4>. QED  BY Zenon, <3>2, <4>1
    <3>4. ch # Slash /\ f = Escape(e, Quote)  BY Zenon, <2>8, Distinct DEF f
    <3>. QED  BY Zenon, <2>3, <2>4, <2>5, <2>8, <3>1, <3>3, <3>4 DEF Sound, u, st, f
  <2>9. CASE ch = Quote /\ e.slash > r
    <3>. DEFINE k == e.slash + 1
    <3>1. k \in Nat /\ k > r + 1  BY <1>4, <2>2, <2>9 DEF Notes
    <3>. HIDE DEF k
    <3>2. Lost(Walk(p, Times(k, Slash) \o <<Quote>>), Len(done) + 1, arg)
      BY Zenon, <2>1, <2>9, <3>1, LostQuote
    <3>3. Lost(u, Len(done) + 1, arg)  BY Zenon, <1>4, <2>9, <3>2 DEF k
    <3>. QED  BY Zenon, <2>3, <2>5, <2>9, <3>3 DEF Sound, u, st, f
  <2>. QED  BY Zenon, <2>6, <2>7, <2>8, <2>9
<1>7. Sound(Ch, done, arg, n, e, p)  BY Zenon DEF p, st
<1>. QED  BY Zenon, <1>5, <1>6, <1>7 DEF Sound

\* What Recounted says, by places.
LEMMA RecountedIs ==
  ASSUME NEW Ch, NEW arg \in Seq(Ch), NEW n, n = Len(arg), NEW r, Trails(arg, n, r)
  PROVE  Recounted(arg) <=> Counted(arg, n) \/ (Has(arg, {Space}) /\ Marked(arg, n - r))
<1>. DEFINE Rest(i) == SubSeq(arg, i + 2, Len(arg))
            Runs(t) == \A j \in DOMAIN t : t[j] = Slash
            Early(i) == \E j \in DOMAIN Rest(i) : Rest(i)[j] = Quote /\ Runs(SubSeq(Rest(i), 1, j - 1))
            Then(i) == \E j \in 1..n : /\ i + 1 < j /\ arg[j] = Quote
                                       /\ \A k \in (i + 2)..(j - 1) : arg[k] = Slash
            Only(i) == \A k \in (i + 2)..n : arg[k] = Slash
<1>1. n \in Nat /\ DOMAIN arg = 1..n  OBVIOUS
<1>2. Recounted(arg) <=> \E i \in 1..(Len(arg) - 1) :
        arg[i] = Slash /\ arg[i + 1] = Quote /\ (Early(i) \/ (Has(arg, {Space}) /\ Runs(Rest(i))))
  BY Zenon DEF Recounted
<1>3. ASSUME NEW i \in 1..(n - 1) PROVE (Early(i) <=> Then(i)) /\ (Runs(Rest(i)) <=> Only(i))
  <2>. DEFINE t == Rest(i)
              m == n - i - 1
  <2>1. t \in Seq(Ch) /\ Len(t) = m /\ DOMAIN t = 1..m /\ (\A j \in 1..m : t[j] = arg[i + 1 + j]) /\ m \in Nat
    BY <1>1
  <2>. HIDE DEF t
  <2>2. ASSUME NEW j \in 1..m
        PROVE  Runs(SubSeq(t, 1, j - 1)) <=> \A k \in (i + 2)..((i + 1 + j) - 1) : arg[k] = Slash
    <3>. DEFINE s == SubSeq(t, 1, j - 1)
    <3>1. DOMAIN s = 1..(j - 1) /\ \A k \in 1..(j - 1) : s[k] = t[k]  BY <2>1
    <3>. HIDE DEF s
    <3>2. \A k \in 1..(j - 1) : s[k] = arg[i + 1 + k]  BY <2>1, <3>1
    <3>3. ASSUME Runs(s), NEW k \in (i + 2)..((i + 1 + j) - 1) PROVE arg[k] = Slash
      <4>1. k - i - 1 \in 1..(j - 1) /\ i + 1 + (k - i - 1) = k  OBVIOUS
      <4>. QED  BY <3>1, <3>2, <3>3, <4>1
    <3>4. ASSUME \A k \in (i + 2)..((i + 1 + j) - 1) : arg[k] = Slash, NEW k \in 1..(j - 1) PROVE s[k] = Slash
      <4>1. i + 1 + k \in (i + 2)..((i + 1 + j) - 1)  OBVIOUS
      <4>. QED  BY <3>2, <3>4, <4>1
    <3>5. Runs(s) <=> \A k \in (i + 2)..((i + 1 + j) - 1) : arg[k] = Slash  BY Zenon, <3>1, <3>3, <3>4
    <3>. QED  BY Zenon, <3>5 DEF s
  <2>3. ASSUME Early(i) PROVE Then(i)
    <3>1. PICK j \in 1..m : t[j] = Quote /\ Runs(SubSeq(t, 1, j - 1))  BY Zenon, <2>1, <2>3 DEF t
    <3>2. i + 1 + j \in 1..n /\ i + 1 < i + 1 + j /\ arg[i + 1 + j] = Quote  BY <1>1, <2>1, <3>1
    <3>3. \A k \in (i + 2)..((i + 1 + j) - 1) : arg[k] = Slash  BY Zenon, <2>2, <3>1
    <3>. DEFINE l == i + 1 + j
    <3>4. /\ l \in 1..n /\ i + 1 < l /\ arg[l] = Quote
          /\ \A k \in (i + 2)..(l - 1) : arg[k] = Slash
      BY Zenon, <3>2, <3>3
    <3>. HIDE DEF l
    <3>. QED  BY Zenon, <3>4
  <2>4. ASSUME Then(i) PROVE Early(i)
    <3>1. PICK j \in 1..n : /\ i + 1 < j /\ arg[j] = Quote
                            /\ \A k \in (i + 2)..(j - 1) : arg[k] = Slash
      BY Zenon, <2>4
    <3>. DEFINE l == j - i - 1
    <3>2. l \in 1..m /\ i + 1 + l = j /\ (i + 1 + l) - 1 = j - 1  BY <1>1, <3>1
    <3>. HIDE DEF l
    <3>3. t[l] = Quote  BY Zenon, <2>1, <3>1, <3>2
    <3>4. Runs(SubSeq(t, 1, l - 1))  BY Zenon, <2>2, <3>1, <3>2
    <3>. QED  BY Zenon, <2>1, <3>2, <3>3, <3>4 DEF t
  <2>5. Runs(t) <=> Only(i)
    <3>1. ASSUME Runs(t), NEW k \in (i + 2)..n PROVE arg[k] = Slash
      <4>1. k - i - 1 \in 1..m /\ i + 1 + (k - i - 1) = k  BY <1>1
      <4>. QED  BY <2>1, <3>1, <4>1
    <3>2. ASSUME Only(i), NEW k \in 1..m PROVE t[k] = Slash
      <4>1. i + 1 + k \in (i + 2)..n  BY <1>1
      <4>. QED  BY <2>1, <3>2, <4>1
    <3>. QED  BY Zenon, <2>1, <3>1, <3>2
  <2>. QED  BY Zenon, <2>3, <2>4, <2>5 DEF t
<1>. HIDE DEF Early, Then, Runs, Only, Rest
<1>4. ASSUME NEW i \in 1..(n - 1) PROVE Only(i) /\ arg[i + 1] = Quote <=> i + 1 = n - r /\ arg[i + 1] = Quote
  <2>1. r \in 0..n /\ (\A k \in (n - r + 1)..n : arg[k] = Slash) /\ (r < n => arg[n - r] # Slash)
    BY DEF Trails
  <2>2. ASSUME i + 1 = n - r PROVE Only(i)
    <3>1. i + 2 = n - r + 1  BY <1>1, <2>1, <2>2
    <3>. QED  BY Zenon, <2>1, <3>1 DEF Only
  <2>3. ASSUME Only(i), arg[i + 1] = Quote PROVE i + 1 = n - r
    <3>1. CASE i + 1 > n - r
      <4>1. i + 1 \in (n - r + 1)..n  BY <1>1, <2>1, <3>1
      <4>. QED  BY <2>1, <2>3, <4>1, Distinct
    <3>2. CASE i + 1 < n - r
      <4>2. n - r \in (i + 2)..n /\ r < n  BY <1>1, <2>1, <3>2
      <4>3. arg[n - r] = Slash  BY Zenon, <2>3, <4>2 DEF Only
      <4>. QED  BY <2>1, <4>2, <4>3
    <3>. QED  BY <1>1, <2>1, <3>1, <3>2
  <2>. QED  BY Zenon, <2>2, <2>3
<1>5. ASSUME NEW i \in 1..(n - 1) PROVE Marked(arg, i + 1) <=> arg[i] = Slash /\ arg[i + 1] = Quote
  <2>1. i + 1 >= 2 /\ (i + 1) - 1 = i  OBVIOUS
  <2>. QED  BY Zenon, <2>1 DEF Marked
<1>6. ASSUME Recounted(arg) PROVE Counted(arg, n) \/ (Has(arg, {Space}) /\ Marked(arg, n - r))
  <2>1. PICK i \in 1..(n - 1) : /\ arg[i] = Slash /\ arg[i + 1] = Quote
                                /\ Early(i) \/ (Has(arg, {Space}) /\ Runs(Rest(i)))
    BY Zenon, <1>2, <1>6
  <2>2. Marked(arg, i + 1)  BY Zenon, <1>5, <2>1
  <2>3. CASE Then(i)
    <3>1. PICK j \in 1..n : /\ i + 1 < j /\ arg[j] = Quote
                            /\ \A k \in (i + 2)..(j - 1) : arg[k] = Slash
      BY Zenon, <2>3 DEF Then
    <3>2. i \in 1..n  BY <1>1
    <3>. QED  BY Zenon, <2>2, <3>1, <3>2 DEF Counted
  <2>4. CASE Has(arg, {Space}) /\ Only(i)
    <3>1. i + 1 = n - r  BY Zenon, <1>4, <2>1, <2>4
    <3>. QED  BY Zenon, <2>2, <2>4, <3>1
  <2>. QED  BY Zenon, <1>3, <2>1, <2>3, <2>4
<1>7. ASSUME Counted(arg, n) PROVE Recounted(arg)
  <2>1. PICK i, j \in 1..n : /\ i + 1 < j /\ Marked(arg, i + 1) /\ arg[j] = Quote
                             /\ \A k \in (i + 2)..(j - 1) : arg[k] = Slash
    BY Zenon, <1>7 DEF Counted
  <2>2. i \in 1..(n - 1) /\ n = Len(arg)  BY <1>1, <2>1
  <2>3. Then(i)  BY Zenon, <2>1 DEF Then
  <2>. QED  BY Zenon, <1>2, <1>3, <1>5, <2>1, <2>2, <2>3
<1>8. ASSUME Has(arg, {Space}), Marked(arg, n - r) PROVE Recounted(arg)
  <2>. DEFINE i == n - r - 1
  <2>1. i \in 1..(n - 1) /\ i + 1 = n - r  BY <1>1, <1>8 DEF Marked, Trails
  <2>. HIDE DEF i
  <2>2. arg[i] = Slash /\ arg[i + 1] = Quote  BY Zenon, <1>5, <1>8, <2>1
  <2>3. Runs(Rest(i))  BY Zenon, <1>3, <1>4, <2>1, <2>2
  <2>. QED  BY Zenon, <1>2, <1>8, <2>1, <2>2, <2>3
<1>. QED  BY Zenon, <1>6, <1>7, <1>8

\* An argument was read: u is within it, and would end it as arg.
Whole(Ch, done, arg, u) ==
  u \in States(Ch) /\ u.args = done /\ u.in = TRUE /\ u.quoted = FALSE /\ Kept(u) = arg

\* What becomes of an argument.
Result(Ch, done, arg, u) ==
  /\ Recounted(arg) => Lost(u, Len(done) + 1, arg)
  /\ ~Recounted(arg) => Whole(Ch, done, arg, u)

\* The empty one.
LEMMA NoneResult ==
  ASSUME NEW Ch, Characters(Ch), NEW done \in Seq(Seq(Ch))
  PROVE  Result(Ch, done, <<>>, Walk(Between(done), escape_one(<<>>))) /\ escape_one(<<>>) \in Seq(Ch)
<1>. DEFINE st == Between(done)
            one == <<Quote>>
            v == Walk(st, one)
            u == Walk(st, escape_one(<<>>))
<1>1. /\ st \in States(Ch) /\ st.args = done /\ st.arg = <<>> /\ st.slash = 0
      /\ st.in = FALSE /\ st.quoted = FALSE /\ st.two = FALSE
  BY BetweenIs
<1>2. Quote \in Ch  BY DEF Characters
<1>3. one \in Seq(Ch) /\ escape_one(<<>>) = Append(one, Quote)
  <2>1. escape_one(<<>>) = <<Quote, Quote>>  BY Zenon DEF escape_one
  <2>. QED  BY <1>2, <2>1
<1>. HIDE DEF st
<1>4. v = Split(st, Quote)  BY Zenon, <1>1, <1>2, WalkOne
<1>. HIDE DEF one
<1>5. u = Split(v, Quote)  BY ZenonT(40), <1>1, <1>2, <1>3, WalkAppend
<1>6. escape_one(<<>>) \in Seq(Ch)  BY Zenon, <1>2, <1>3, Appended
<1>. HIDE DEF u, v
<1>7. Times(0, Slash) = <<>> /\ <<>> \o <<>> = <<>> /\ 0 \div 2 = 0 /\ 0 % 2 = 0  BY DEF Times
<1>8. /\ v \in States(Ch) /\ v.args = st.args /\ v.arg = Half(st)
      /\ v.slash = 0 /\ v.in = TRUE /\ v.quoted = ~st.quoted /\ v.two = st.quoted
  BY Zenon, <1>1, <1>2, <1>4, <1>7, OnEven
<1>9. Half(st) = <<>>  BY Zenon, <1>1, <1>7 DEF Half
<1>10. /\ u \in States(Ch) /\ u.args = v.args /\ u.arg = Half(v)
       /\ u.slash = 0 /\ u.in = TRUE /\ u.quoted = ~v.quoted /\ u.two = v.quoted
  BY Zenon, <1>1, <1>2, <1>5, <1>7, <1>8, OnEven
<1>11. Half(v) = <<>>  BY Zenon, <1>7, <1>8, <1>9 DEF Half
<1>12. Kept(u) = <<>>  BY Zenon, <1>7, <1>10, <1>11 DEF Kept
<1>13. u.args = done /\ u.quoted = FALSE  BY <1>1, <1>8, <1>10
<1>14. Whole(Ch, done, <<>>, u)  BY Zenon, <1>10, <1>12, <1>13 DEF Whole
<1>15. ~Recounted(<<>>)  BY DEF Recounted
<1>. QED  BY Zenon, <1>6, <1>14, <1>15 DEF Result, u, st

\* Any other one is followed to its end ...
LEMMA SoundAll ==
  ASSUME NEW Ch, Characters(Ch), NEW done \in Seq(Seq(Ch)), NEW arg \in Seq(Ch),
         NEW esc, Escapes(Ch, arg, esc)
  PROVE  /\ esc[Len(arg)] \in Notes(Ch)
         /\ Sound(Ch, done, arg, Len(arg), esc[Len(arg)], Walk(Between(done), esc[Len(arg)].buf))
<1>. DEFINE n == Len(arg)
            Is(k) == Sound(Ch, done, arg, k, esc[k], Walk(Between(done), esc[k].buf))
            S == {k \in 0..n : Is(k)}
<1>1. /\ n \in Nat /\ esc \in [0..n -> Notes(Ch)] /\ esc[0] = Opening(Has(arg, {Space}))
      /\ \A k \in 1..n : esc[k] = Escape(esc[k - 1], arg[k])
  BY DEF Escapes
<1>2. 0 \in S
  <2>1. Is(0)  BY Zenon, <1>1, SoundStart
  <2>. HIDE DEF Is
  <2>. QED  BY <1>1, <2>1
<1>3. ASSUME NEW k \in 0..n, k \in S, k < n PROVE k + 1 \in S
  <2>1. k + 1 \in 1..n /\ k + 1 \in 0..n /\ (k + 1) - 1 = k  BY <1>1, <1>3
  <2>2. esc[k + 1] = Escape(esc[k], arg[k + 1])  BY Zenon, <1>1, <2>1
  <2>3. esc[k] \in Notes(Ch)  BY <1>1
  <2>4. Is(k)
    <3>. HIDE DEF Is
    <3>. QED  BY <1>3
  <2>5. Sound(Ch, done, arg, k + 1, Escape(esc[k], arg[k + 1]),
              Walk(Between(done), Escape(esc[k], arg[k + 1]).buf))
    BY Zenon, <1>3, <2>3, <2>4, SoundStep
  <2>6. Is(k + 1)  BY Zenon, <2>2, <2>5
  <2>. HIDE DEF Is
  <2>. QED  BY <2>1, <2>6
<1>. HIDE DEF S
<1>4. n \in S
  <2>1. \A k \in 0..n : k \in S  BY <1>1, <1>2, <1>3, Upwards
  <2>. QED  BY <1>1, <2>1
<1>5. Is(n)
  <2>. HIDE DEF Is
  <2>. QED  BY <1>4 DEF S
<1>6. esc[n] \in Notes(Ch)
  <2>1. n \in 0..n  BY <1>1
  <2>. HIDE DEF n
  <2>. QED  BY <1>1, <2>1
<1>. QED  BY Zenon, <1>5, <1>6

LEMMA TrailsFor ==
  ASSUME NEW arg, NEW n \in Nat
  PROVE  \E r : Trails(arg, n, r)
<1>. DEFINE S == {r \in 0..n : r = n \/ arg[n - r] # Slash}
<1>1. S \in SUBSET Nat /\ n \in S  OBVIOUS
<1>2. PICK r \in S : \A j \in S : r <= j
  <2>1. S # {}  BY <1>1
  <2>. HIDE DEF S
  <2>. QED  BY <1>1, <2>1, LeastOf
<1>3. r \in 0..n /\ (r < n => arg[n - r] # Slash)  OBVIOUS
<1>4. ASSUME NEW k \in (n - r + 1)..n PROVE arg[k] = Slash
  <2>1. n - k \in 0..n /\ n - k < r /\ n - k # n /\ n - (n - k) = k  BY <1>3
  <2>2. n - k \notin S  BY <1>2, <2>1
  <2>. QED  BY <2>1, <2>2
<1>5. Trails(arg, n, r)  BY Zenon, <1>3, <1>4 DEF Trails
<1>. QED  BY Zenon, <1>5

\* ... and is the result if there is no blank in it.
LEMMA OpenResult ==
  ASSUME NEW Ch, Characters(Ch), NEW done \in Seq(Seq(Ch)), NEW arg \in Seq(Ch), arg # <<>>,
         ~Has(arg, {Space}), NEW e, NEW p, Sound(Ch, done, arg, Len(arg), e, p)
  PROVE  Result(Ch, done, arg, p)
<1>. DEFINE n == Len(arg)
<1>1. n \in Nat /\ n > 0 /\ n \in 0..Len(arg) /\ SubSeq(arg, 1, n) = arg  OBVIOUS
<1>2. CASE Counted(arg, n) /\ Lost(p, Len(done) + 1, arg)
  <2>1. Recounted(arg)
    <3>1. PICK r : Trails(arg, n, r)  BY <1>1, TrailsFor
    <3>. QED  BY Zenon, <1>2, <3>1, RecountedIs
  <2>. QED  BY Zenon, <1>2, <2>1 DEF Result
<1>3. CASE /\ ~Counted(arg, n)
           /\ \E r : Trails(arg, n, r) /\ Noted(Ch, arg, n, r, e) /\ Read(Ch, done, arg, n, r, p)
  <2>1. PICK r : Trails(arg, n, r) /\ Read(Ch, done, arg, n, r, p)  BY Zenon, <1>3
  <2>2. ~Recounted(arg)  BY Zenon, <1>3, <2>1, RecountedIs
  <2>3. SubSeq(arg, 1, n - r) \o Times(r, Slash) = arg
    <3>1. Slash \in Ch  BY DEF Characters
    <3>2. SubSeq(arg, 1, n - r) \o Times(r, Slash) = SubSeq(arg, 1, n)
      BY Zenon, <1>1, <2>1, <3>1, TrailsRun
    <3>. QED  BY Zenon, <1>1, <3>2
  <2>4. Kept(p) = arg  BY Zenon, <2>1, <2>3 DEF Kept, Read
  <2>5. p.quoted = FALSE  BY <2>1 DEF Read, Has
  <2>6. Whole(Ch, done, arg, p)  BY Zenon, <1>1, <2>1, <2>4, <2>5 DEF Whole, Read
  <2>. QED  BY Zenon, <2>2, <2>6 DEF Result
<1>. QED  BY Zenon, <1>2, <1>3 DEF Sound

\* With a blank, it is closed by a quote.
LEMMA CloseResult ==
  ASSUME NEW Ch, Characters(Ch), NEW done \in Seq(Seq(Ch)), NEW arg \in Seq(Ch), arg # <<>>,
         Has(arg, {Space}), NEW e \in Notes(Ch), NEW p \in States(Ch), Sound(Ch, done, arg, Len(arg), e, p)
  PROVE  Result(Ch, done, arg, Walk(p, Close(TRUE, e.slash)))
<1>. DEFINE n == Len(arg)
            tail == Times(e.slash, Slash) \o <<Quote>>
            u == Walk(p, tail)
<1>1. n \in Nat /\ n > 0 /\ n \in 0..Len(arg) /\ SubSeq(arg, 1, n) = arg /\ ~(n < Len(arg))  OBVIOUS
<1>2. Close(TRUE, e.slash) = tail  BY Zenon DEF Close
<1>3. e.slash \in Nat  BY DEF Notes
<1>4. Slash \in Ch /\ Quote \in Ch  BY DEF Characters
<1>5. tail \in Seq(Ch)
  <2>. DEFINE run == Times(e.slash, Slash)
  <2>1. run \in Seq(Ch)  BY Zenon, <1>3, <1>4, TimesTyped
  <2>2. tail = run \o <<Quote>>  BY Zenon
  <2>. HIDE DEF run, tail
  <2>. QED  BY <1>4, <2>1, <2>2
<1>6. CASE Counted(arg, n) /\ Lost(p, Len(done) + 1, arg)
  <2>1. Recounted(arg)
    <3>1. PICK r : Trails(arg, n, r)  BY <1>1, TrailsFor
    <3>. QED  BY Zenon, <1>6, <3>1, RecountedIs
  <2>2. Len(done) + 1 \in Nat \ {0}  OBVIOUS
  <2>. HIDE DEF tail
  <2>3. Lost(u, Len(done) + 1, arg)  BY Zenon, <1>5, <1>6, <2>2, WalkLost
  <2>. QED  BY Zenon, <1>2, <2>1, <2>3 DEF Result
<1>7. CASE /\ ~Counted(arg, n)
           /\ \E r : Trails(arg, n, r) /\ Noted(Ch, arg, n, r, e) /\ Read(Ch, done, arg, n, r, p)
  <2>1. PICK r : Trails(arg, n, r) /\ Noted(Ch, arg, n, r, e) /\ Read(Ch, done, arg, n, r, p)
    BY Zenon, <1>7
  <2>2. p.args = done /\ p.slash = r /\ p.arg = SubSeq(arg, 1, n - r) /\ p.two = FALSE
    BY Zenon, <2>1 DEF Read
  <2>3. p.quoted = TRUE  BY <2>1 DEF Read
  <2>. DEFINE m == p.slash + e.slash
              h == m \div 2
              s == SubSeq(arg, 1, n - r) \o Times(h, Slash)
  <2>4. Quoted(Ch, p, m, u)  BY Zenon, <1>3, <2>2, WalkQuote
  <2>5. r \in Nat /\ m = r + e.slash /\ e.slash >= r /\ (e.slash > r <=> Marked(arg, n - r))
    BY <2>1, <2>2 DEF Trails, Noted
  <2>6. Recounted(arg) <=> e.slash > r  BY Zenon, <1>7, <2>1, <2>5, RecountedIs
  <2>7. SubSeq(arg, 1, n - r) \o Times(r, Slash) = arg
    <3>1. SubSeq(arg, 1, n - r) \o Times(r, Slash) = SubSeq(arg, 1, n)
      BY Zenon, <1>1, <1>4, <2>1, TrailsRun
    <3>. QED  BY Zenon, <1>1, <3>1
  <2>8. h \in Nat /\ m \in Nat  BY <1>3, <2>5
  <2>9. SubSeq(arg, 1, n - r) \in Seq(Ch) /\ Len(SubSeq(arg, 1, n - r)) = n - r /\ r \in 0..n
    <3>1. n - r \in 0..n /\ r \in 0..n  BY <2>1 DEF Trails
    <3>. QED  BY <3>1, PrefixIs
  <2>. HIDE DEF u, tail
  <2>10. CASE e.slash > r
    <3>1. (m % 2 = 0 /\ h > r) \/ (m % 2 = 1 /\ h >= r)
      <4>1. m \in Nat /\ m > r + r /\ r \in Nat  BY <1>3, <2>5, <2>10
      <4>. HIDE DEF m
      <4>. QED  BY <4>1
    <3>12. r \in Nat /\ r <= n /\ h \in Nat  BY <2>5, <2>8, <2>9
    <3>2. s \in Seq(Ch) /\ Len(s) = (n - r) + h
      <4>. HIDE DEF h
      <4>. DEFINE t == Times(h, Slash)
      <4>1. t \in Seq(Ch) /\ Len(t) = h  BY Zenon, <1>4, <2>8, TimesTyped
      <4>. HIDE DEF t
      <4>2. s = SubSeq(arg, 1, n - r) \o t  BY Zenon DEF t
      <4>. QED  BY <2>9, <4>1, <4>2, ConcatProperties
    <3>3. u.arg \in Seq(Ch) /\ Len(u.arg) > Len(arg)
      <4>1. CASE m % 2 = 0 /\ h > r
        <5>1. u.arg = s  BY Zenon, <2>2, <2>4, <4>1 DEF Quoted
        <5>. HIDE DEF h, s, m
        <5>. QED  BY <1>1, <3>12, <3>2, <4>1, <5>1
      <4>2. CASE m % 2 = 1 /\ h >= r
        <5>1. u.arg = Append(s, Quote)  BY Zenon, <2>2, <2>4, <4>2 DEF Quoted
        <5>. HIDE DEF h, s, m
        <5>. QED  BY <1>1, <1>4, <3>12, <3>2, <4>2, <5>1
      <4>. QED  BY Zenon, <3>1, <4>1, <4>2
    <3>4. Strays(u.arg, arg)  BY Zenon, <3>3, TooLong
    <3>5. Lost(u, Len(done) + 1, arg)  BY Zenon, <2>2, <2>4, <3>4 DEF Lost, Quoted
    <3>. QED  BY Zenon, <1>2, <2>6, <2>10, <3>5 DEF Result, u
  <2>11. CASE ~(e.slash > r)
    <3>1. m % 2 = 0 /\ h = r  BY <1>3, <2>5, <2>11
    <3>2. u.arg = SubSeq(arg, 1, n - r) \o Times(h, Slash) /\ u.quoted = ~p.quoted
      BY Zenon, <2>2, <2>4, <3>1 DEF Quoted
    <3>3. u.arg = arg /\ u.quoted = FALSE  BY Zenon, <2>3, <2>7, <3>1, <3>2
    <3>4. Kept(u) = arg
      <4>1. Kept(u) = arg \o Times(0, Slash)  BY Zenon, <2>4, <3>3 DEF Kept, Quoted
      <4>2. Times(0, Slash) = <<>> /\ arg \o <<>> = arg  BY DEF Times
      <4>. QED  BY Zenon, <4>1, <4>2
    <3>5. Whole(Ch, done, arg, u)  BY Zenon, <2>2, <2>4, <3>3, <3>4 DEF Whole, Quoted
    <3>. QED  BY Zenon, <1>2, <2>6, <2>11, <3>5 DEF Result, u
  <2>. QED  BY Zenon, <2>10, <2>11
<1>. QED  BY Zenon, <1>6, <1>7 DEF Sound

LEMMA PlainBuffer ==
  ASSUME NEW Ch, Characters(Ch), NEW arg \in Seq(Ch), ~Has(arg, {Quote, Slash, Space}),
         NEW esc, Escapes(Ch, arg, esc)
  PROVE  esc[Len(arg)].buf = arg
<1>. DEFINE n == Len(arg)
            S == {k \in 0..n : esc[k].buf = SubSeq(arg, 1, k)}
<1>1. /\ n \in Nat /\ esc[0] = Opening(Has(arg, {Space}))
      /\ \A k \in 1..n : esc[k] = Escape(esc[k - 1], arg[k])
  BY DEF Escapes
<1>2. 0 \in S
  <2>1. ~Has(arg, {Space})  BY DEF Has
  <2>2. esc[0] = [slash |-> 0, buf |-> <<>>]  BY Zenon, <1>1, <2>1 DEF Opening
  <2>3. esc[0].buf = <<>> /\ SubSeq(arg, 1, 0) = <<>>  BY <2>2
  <2>4. esc[0].buf = SubSeq(arg, 1, 0)  BY Zenon, <2>3
  <2>5. 0 \in 0..n  BY <1>1
  <2>. QED  BY Zenon, <2>4, <2>5
<1>3. ASSUME NEW k \in 0..n, k \in S, k < n PROVE k + 1 \in S
  <2>1. k + 1 \in 1..n /\ k + 1 \in 0..n /\ (k + 1) - 1 = k  BY <1>1, <1>3
  <2>2. esc[k + 1] = Escape(esc[k], arg[k + 1])  BY Zenon, <1>1, <2>1
  <2>3. arg[k + 1] # Slash /\ arg[k + 1] # Quote  BY <2>1 DEF Has
  <2>4. esc[k + 1] = [slash |-> 0, buf |-> Append(esc[k].buf, arg[k + 1])]
    BY Zenon, <2>2, <2>3 DEF Escape
  <2>5. esc[k].buf = SubSeq(arg, 1, k)  BY <1>3
  <2>6. Append(SubSeq(arg, 1, k), arg[k + 1]) = SubSeq(arg, 1, k + 1)  BY Zenon, <1>3, PrefixMore
  <2>7. esc[k + 1].buf = Append(esc[k].buf, arg[k + 1])  BY <2>4
  <2>8. esc[k + 1].buf = SubSeq(arg, 1, k + 1)  BY Zenon, <2>5, <2>6, <2>7
  <2>. QED  BY <2>1, <2>8
<1>. HIDE DEF S
<1>4. n \in S
  <2>1. \A k \in 0..n : k \in S  BY <1>1, <1>2, <1>3, Upwards
  <2>. QED  BY <1>1, <2>1
<1>5. SubSeq(arg, 1, n) = arg  OBVIOUS
<1>6. esc[n].buf = SubSeq(arg, 1, n)  BY <1>4 DEF S
<1>. QED  BY Zenon, <1>5, <1>6

\* An argument written by escape_one behind others is read as it was, or it was recounted and
\* is lost.
LEMMA OneResult ==
  ASSUME NEW Ch, Characters(Ch), NEW done \in Seq(Seq(Ch)), NEW arg \in Seq(Ch)
  PROVE  /\ Result(Ch, done, arg, Walk(Between(done), escape_one(arg)))
         /\ escape_one(arg) \in Seq(Ch)
<1>1. CASE arg = <<>>  BY Zenon, <1>1, NoneResult
<1>2. CASE arg # <<>>
  <2>. DEFINE n == Len(arg)
              space == Has(arg, {Space})
              st == Between(done)
  <2>1. PICK esc : /\ Escapes(Ch, arg, esc)
                   /\ arg # <<>> /\ Has(arg, {Quote, Slash, Space})
                      => escape_one(arg) = esc[n].buf \o Close(space, esc[n].slash)
    BY Zenon, EscapeIs
  <2>. DEFINE e == esc[n]
              p == Walk(st, e.buf)
              b == e.buf
              c == Close(TRUE, e.slash)
  <2>2. e \in Notes(Ch) /\ Sound(Ch, done, arg, n, e, p)  BY Zenon, <2>1, SoundAll
  <2>3. st \in States(Ch)  BY BetweenIs
  <2>. HIDE DEF st, e
  <2>4. b \in Seq(Ch) /\ e.slash \in Nat  BY <2>2 DEF Notes
  <2>5. p \in States(Ch)  BY Zenon, <2>3, <2>4, WalkTyped
  <2>6. c \in Seq(Ch)
    <3>1. Slash \in Ch /\ Quote \in Ch  BY DEF Characters
    <3>. DEFINE run == Times(e.slash, Slash)
    <3>2. run \in Seq(Ch)  BY Zenon, <2>4, <3>1, TimesTyped
    <3>3. c = run \o <<Quote>>  BY Zenon DEF Close
    <3>. HIDE DEF run, c
    <3>. QED  BY <3>1, <3>2, <3>3
  <2>7. CASE ~space
    <3>1. escape_one(arg) = b
      <4>1. CASE Has(arg, {Quote, Slash, Space})
        <5>1. Close(space, e.slash) = <<>>  BY Zenon, <2>7 DEF Close
        <5>2. escape_one(arg) = b \o <<>>  BY Zenon, <1>2, <2>1, <4>1, <5>1 DEF e
        <5>. HIDE DEF b
        <5>. QED  BY <2>4, <5>2
      <4>2. CASE ~Has(arg, {Quote, Slash, Space})
        <5>1. escape_one(arg) = arg  BY Zenon, <1>2, <4>2 DEF escape_one
        <5>2. b = arg  BY Zenon, <2>1, <4>2, PlainBuffer DEF e
        <5>. QED  BY Zenon, <5>1, <5>2
      <4>. QED  BY Zenon, <4>1, <4>2
    <3>. HIDE DEF p
    <3>2. Result(Ch, done, arg, p)  BY Zenon, <1>2, <2>2, <2>7, OpenResult
    <3>. QED  BY Zenon, <2>4, <3>1, <3>2 DEF p, st
  <2>8. CASE space
    <3>1. Has(arg, {Quote, Slash, Space})  BY <2>8 DEF Has
    <3>2. Close(space, e.slash) = c  BY Zenon, <2>8 DEF Close
    <3>3. escape_one(arg) = b \o c  BY Zenon, <1>2, <2>1, <3>1, <3>2 DEF e
    <3>. HIDE DEF c, p
    <3>4. Walk(st, b \o c) = Walk(p, c)
      <4>. HIDE DEF b
      <4>1. p = Walk(st, b)  BY Zenon DEF p, b
      <4>2. Walk(st, b \o c) = Walk(Walk(st, b), c)  BY <2>3, <2>4, <2>6, WalkJoin
      <4>. QED  BY Zenon, <4>1, <4>2
    <3>5. Result(Ch, done, arg, Walk(p, c))  BY Zenon, <1>2, <2>2, <2>5, <2>8, CloseResult DEF c
    <3>6. b \o c \in Seq(Ch)
      <4>. HIDE DEF b
      <4>. QED  BY <2>4, <2>6
    <3>. QED  BY Zenon, <3>3, <3>4, <3>5, <3>6 DEF st
  <2>. QED  BY Zenon, <2>7, <2>8
<1>. QED  BY Zenon, <1>1, <1>2

-----------------------------------------------------------------------------
\* The whole line.

\* What stands before an argument: a blank, but for the first.
Gap(k) == IF k = 1 THEN <<>> ELSE <<Space>>

LEMMA GapTyped ==
  ASSUME NEW Ch, Characters(Ch), NEW k
  PROVE  Gap(k) \in Seq(Ch)
BY DEF Gap, Characters

LEMMA LineIs ==
  ASSUME NEW Ch, Characters(Ch), NEW all \in Seq(Seq(Ch))
  PROVE  \E res \in [0..Len(all) -> Seq(Ch)] :
           /\ res[0] = <<>>
           /\ \A k \in 1..Len(all) : res[k] = res[k - 1] \o Gap(k) \o escape_one(all[k])
           /\ args_to_cmd(all) = res[Len(all)]
<1>. DEFINE n == Len(all)
            X == Seq(Ch)
            step == [p \in X \X (1..n) |-> p[1] \o Gap(p[2]) \o escape_one(all[p[2]])]
            res == CHOOSE f : f = [k \in 0..n |->
                     IF k = 0 THEN <<>>
                     ELSE f[k - 1] \o (IF k = 1 THEN <<>> ELSE <<Space>>) \o escape_one(all[k])]
<1>1. args_to_cmd(all) = res[n]  BY Zenon DEF args_to_cmd
<1>2. n \in Nat /\ \A k \in 1..n : all[k] \in X  OBVIOUS
<1>. HIDE DEF n
<1>3. ASSUME NEW x \in X, NEW k \in 1..n PROVE x \o Gap(k) \o escape_one(all[k]) \in X
  <2>. DEFINE g == Gap(k)
              e == escape_one(all[k])
  <2>1. <<>> \in Seq(Seq(Ch))  OBVIOUS
  <2>2. all[k] \in Seq(Ch)  BY Zenon, <1>2
  <2>3. e \in Seq(Ch)  BY Zenon, <2>1, <2>2, OneResult
  <2>4. g \in Seq(Ch)  BY Zenon, GapTyped
  <2>. HIDE DEF g, e
  <2>5. x \o g \o e \in Seq(Ch)  BY <2>3, <2>4
  <2>. QED  BY Zenon, <2>5 DEF g, e
<1>4. step \in [X \X (1..n) -> X]
  <2>1. ASSUME NEW p \in X \X (1..n) PROVE p[1] \o Gap(p[2]) \o escape_one(all[p[2]]) \in X
    <3>1. p[1] \in X /\ p[2] \in 1..n  OBVIOUS
    <3>. HIDE DEF X
    <3>. QED  BY Zenon, <1>3, <3>1
  <2>. HIDE DEF X
  <2>. QED  BY <2>1
<1>5. \A x \in X, k \in 1..n : step[<<x, k>>] = x \o Gap(k) \o escape_one(all[k])
  <2>. HIDE DEF X
  <2>. QED  OBVIOUS
<1>6. <<>> \in X  OBVIOUS
<1>. HIDE DEF step, X
<1>7. PICK f \in [0..n -> X] : f = [k \in 0..n |-> IF k = 0 THEN <<>> ELSE step[<<f[k - 1], k>>]]
  <2>1. n \in Nat  BY <1>2
  <2>2. \E f \in [0..n -> X] : Iterated(f, n, <<>>, step)  BY <1>4, <1>6, <2>1, Iterates
  <2>. QED  BY Zenon, <2>2 DEF Iterated
<1>8. ASSUME NEW k \in 0..n
      PROVE  f[k] = IF k = 0 THEN <<>> ELSE f[k - 1] \o Gap(k) \o escape_one(all[k])
  <2>1. f[k] = IF k = 0 THEN <<>> ELSE step[<<f[k - 1], k>>]  BY Zenon, <1>7
  <2>2. k # 0 => k \in 1..n /\ k - 1 \in 0..n  BY <1>2
  <2>3. k # 0 => f[k - 1] \in X  BY <2>2
  <2>. QED  BY Zenon, <1>5, <2>1, <2>2, <2>3
<1>9. f = [k \in 0..n |-> f[k]]  OBVIOUS
<1>10. f = [k \in 0..n |-> IF k = 0 THEN <<>> ELSE f[k - 1] \o Gap(k) \o escape_one(all[k])]
  BY Zenon, <1>8, <1>9
<1>11. res = [k \in 0..n |-> IF k = 0 THEN <<>> ELSE res[k - 1] \o Gap(k) \o escape_one(all[k])]
  BY Zenon, <1>10 DEF Gap
<1>. HIDE DEF res
<1>12. \A k \in 0..n : res[k] = IF k = 0 THEN <<>> ELSE res[k - 1] \o Gap(k) \o escape_one(all[k])
  BY Zenon, <1>11
<1>13. res[0] = <<>> /\ \A k \in 1..n : res[k] = res[k - 1] \o Gap(k) \o escape_one(all[k])
  <2>1. 0 \in 0..n /\ \A k \in 1..n : k \in 0..n /\ k # 0  BY <1>2
  <2>. QED  BY Zenon, <1>12, <2>1
<1>14. \A k \in 0..n : res[k] \in X
  <2>. DEFINE S == {k \in 0..n : res[k] \in X}
  <2>1. 0 \in S  BY <1>2, <1>6, <1>13
  <2>2. ASSUME NEW k \in 0..n, k \in S, k < n PROVE k + 1 \in S
    <3>1. k + 1 \in 1..n /\ k + 1 \in 0..n /\ (k + 1) - 1 = k  BY <1>2, <2>2
    <3>2. res[k + 1] = res[k] \o Gap(k + 1) \o escape_one(all[k + 1])  BY Zenon, <1>13, <3>1
    <3>3. res[k] \in X  BY <2>2
    <3>4. res[k + 1] \in X  BY Zenon, <1>3, <3>1, <3>2, <3>3
    <3>. QED  BY <3>1, <3>4
  <2>. HIDE DEF S
  <2>3. \A k \in 0..n : k \in S  BY <1>2, <2>1, <2>2, Upwards
  <2>. QED  BY <2>3 DEF S
<1>15. res \in [0..n -> X]
  <2>1. res = [k \in 0..n |-> res[k]]  BY Zenon, <1>11, <1>12
  <2>. QED  BY Zenon, <1>14, <2>1
<1>. QED  BY Zenon, <1>1, <1>13, <1>15 DEF n, X

\* Behind the first k arguments: one of them was recounted and is lost, or the last is read.
Line(Ch, all, k, u) ==
  \/ \E j \in 1..k : Recounted(all[j]) /\ Lost(u, j, all[j])
  \/ /\ \A j \in 1..k : ~Recounted(all[j])
     /\ \/ k = 0 /\ u = Between(<<>>)
        \/ k > 0 /\ Whole(Ch, SubSeq(all, 1, k - 1), all[k], u)

\* An argument that is read ends at the blank behind it.
LEMMA Ended ==
  ASSUME NEW Ch, Characters(Ch), NEW all \in Seq(Seq(Ch)), NEW k \in 1..Len(all),
         NEW u, Whole(Ch, SubSeq(all, 1, k - 1), all[k], u)
  PROVE  Split(u, Space) = Between(SubSeq(all, 1, k))
<1>1. u.in = TRUE /\ ~u.quoted /\ Kept(u) = all[k] /\ u.args = SubSeq(all, 1, k - 1)  BY DEF Whole
<1>2. Split(u, Space) = Between(IF u.in THEN Append(u.args, Kept(u)) ELSE u.args)
  BY Zenon, <1>1, OnBlank
<1>3. Append(SubSeq(all, 1, k - 1), all[k]) = SubSeq(all, 1, k)
  <2>1. k - 1 \in 0..Len(all) /\ k - 1 < Len(all) /\ (k - 1) + 1 = k  OBVIOUS
  <2>2. Append(SubSeq(all, 1, k - 1), all[(k - 1) + 1]) = SubSeq(all, 1, (k - 1) + 1)
    BY Zenon, <2>1, PrefixMore
  <2>. QED  BY Zenon, <2>1, <2>2
<1>. QED  BY Zenon, <1>1, <1>2, <1>3

LEMMA LineStep ==
  ASSUME NEW Ch, Characters(Ch), NEW all \in Seq(Seq(Ch)), NEW k \in 0..Len(all), k < Len(all),
         NEW u \in States(Ch), Line(Ch, all, k, u)
  PROVE  Line(Ch, all, k + 1, Walk(Walk(u, Gap(k + 1)), escape_one(all[k + 1])))
<1>. DEFINE arg == all[k + 1]
            v == Walk(u, Gap(k + 1))
            w == Walk(v, escape_one(arg))
            done == SubSeq(all, 1, k)
<1>1. k \in Nat /\ k + 1 \in 1..(k + 1) /\ arg \in Seq(Ch) /\ done \in Seq(Seq(Ch)) /\ Len(done) = k
      /\ \A j \in 1..(k + 1) : j = k + 1 \/ j \in 1..k
  OBVIOUS
<1>. HIDE DEF done
<1>2. Gap(k + 1) \in Seq(Ch) /\ escape_one(arg) \in Seq(Ch)
  BY Zenon, <1>1, GapTyped, OneResult
<1>3. v \in States(Ch)  BY Zenon, <1>2, WalkTyped
<1>4. CASE \E j \in 1..k : Recounted(all[j]) /\ Lost(u, j, all[j])
  <2>1. PICK j \in 1..k : Recounted(all[j]) /\ Lost(u, j, all[j])  BY Zenon, <1>4
  <2>2. j \in Nat \ {0} /\ j \in 1..(k + 1) /\ all[j] \in Seq(Ch)  BY <1>1
  <2>3. Lost(v, j, all[j])  BY Zenon, <1>2, <2>1, <2>2, WalkLost
  <2>. HIDE DEF v
  <2>4. Lost(w, j, all[j])  BY Zenon, <1>2, <1>3, <2>2, <2>3, WalkLost
  <2>. HIDE DEF w
  <2>5. Line(Ch, all, k + 1, w)  BY Zenon, <2>1, <2>2, <2>4 DEF Line
  <2>. QED  BY Zenon, <2>5 DEF w, v
<1>5. CASE /\ \A j \in 1..k : ~Recounted(all[j])
           /\ \/ k = 0 /\ u = Between(<<>>)
              \/ k > 0 /\ Whole(Ch, SubSeq(all, 1, k - 1), all[k], u)
  <2>1. v = Between(done)
    <3>1. CASE k = 0 /\ u = Between(<<>>)
      <4>1. Gap(k + 1) = <<>> /\ done = <<>>
        <5>1. k + 1 = 1  BY <3>1
        <5>2. SubSeq(all, 1, 0) = <<>>  OBVIOUS
        <5>. QED  BY Zenon, <3>1, <5>1, <5>2 DEF Gap, done
      <4>2. Walk(u, <<>>) = u  BY Zenon, WalkNone
      <4>. QED  BY Zenon, <3>1, <4>1, <4>2
    <3>2. CASE k > 0 /\ Whole(Ch, SubSeq(all, 1, k - 1), all[k], u)
      <4>1. k + 1 # 1 /\ k \in 1..Len(all)  BY <1>1, <3>2
      <4>2. v = Walk(u, <<Space>>)  BY Zenon, <4>1 DEF Gap
      <4>3. Walk(u, <<Space>>) = Split(u, Space)
        <5>1. Space \in Ch  BY DEF Characters
        <5>. QED  BY Zenon, <5>1, WalkOne
      <4>4. Split(u, Space) = Between(done)  BY Zenon, <3>2, <4>1, Ended DEF done
      <4>. QED  BY Zenon, <4>2, <4>3, <4>4
    <3>. QED  BY Zenon, <1>5, <3>1, <3>2
  <2>2. Result(Ch, done, arg, w)
    <3>1. Result(Ch, done, arg, Walk(Between(done), escape_one(arg)))  BY Zenon, <1>1, OneResult
    <3>. QED  BY Zenon, <2>1, <3>1
  <2>. HIDE DEF w, v
  <2>3. CASE Recounted(arg)
    <3>1. Lost(w, k + 1, arg)  BY Zenon, <1>1, <2>2, <2>3 DEF Result
    <3>. QED  BY Zenon, <1>1, <2>3, <3>1 DEF Line, w, v
  <2>4. CASE ~Recounted(arg)
    <3>1. Whole(Ch, done, arg, w)  BY Zenon, <2>2, <2>4 DEF Result
    <3>2. k + 1 > 0 /\ (k + 1) - 1 = k  BY <1>1
    <3>3. Whole(Ch, SubSeq(all, 1, (k + 1) - 1), all[k + 1], w)  BY Zenon, <3>1, <3>2 DEF done
    <3>4. \A j \in 1..(k + 1) : ~Recounted(all[j])  BY Zenon, <1>1, <1>5, <2>4
    <3>. QED  BY Zenon, <3>2, <3>3, <3>4 DEF Line, w, v
  <2>. QED  BY Zenon, <2>3, <2>4
<1>. QED  BY Zenon, <1>4, <1>5 DEF Line

LEMMA LineAll ==
  ASSUME NEW Ch, Characters(Ch), NEW all \in Seq(Seq(Ch)), NEW u,
         u = Walk(Between(<<>>), args_to_cmd(all))
  PROVE  u \in States(Ch) /\ Line(Ch, all, Len(all), u)
<1>. DEFINE n == Len(all)
            st == Between(<<>>)
<1>1. n \in Nat /\ st \in States(Ch)
  <2>1. <<>> \in Seq(Seq(Ch))  OBVIOUS
  <2>2. st \in States(Ch)  BY <2>1, BetweenIs
  <2>. QED  BY <2>2
<1>2. PICK res \in [0..n -> Seq(Ch)] :
        /\ res[0] = <<>>
        /\ \A k \in 1..n : res[k] = res[k - 1] \o Gap(k) \o escape_one(all[k])
        /\ args_to_cmd(all) = res[n]
  BY Zenon, LineIs
<1>. DEFINE Is(k) == Walk(st, res[k]) \in States(Ch) /\ Line(Ch, all, k, Walk(st, res[k]))
            S == {k \in 0..n : Is(k)}
<1>3. 0 \in S
  <2>1. Walk(st, res[0]) = st  BY Zenon, <1>1, <1>2, WalkNone
  <2>2. \A j \in 1..0 : ~Recounted(all[j])  OBVIOUS
  <2>3. Line(Ch, all, 0, st)  BY Zenon, <2>2 DEF Line
  <2>4. Is(0)  BY Zenon, <1>1, <2>1, <2>3
  <2>5. 0 \in 0..n  BY <1>1
  <2>. HIDE DEF Is
  <2>. QED  BY Zenon, <2>4, <2>5
<1>4. ASSUME NEW k \in 0..n, k \in S, k < n PROVE k + 1 \in S
  <2>1. k + 1 \in 1..n /\ k + 1 \in 0..n /\ (k + 1) - 1 = k  BY <1>1, <1>4
  <2>. DEFINE a == res[k]
              b == Gap(k + 1)
              c == escape_one(all[k + 1])
              v == Walk(st, a)
  <2>2. res[k + 1] = a \o b \o c  BY Zenon, <1>2, <2>1
  <2>3. Is(k)
    <3>. HIDE DEF Is
    <3>. QED  BY <1>4
  <2>4. a \in Seq(Ch) /\ b \in Seq(Ch) /\ c \in Seq(Ch) /\ a \o b \in Seq(Ch)
    <3>1. <<>> \in Seq(Seq(Ch)) /\ all[k + 1] \in Seq(Ch)  BY <2>1
    <3>2. c \in Seq(Ch)  BY Zenon, <3>1, OneResult
    <3>3. b \in Seq(Ch)  BY Zenon, GapTyped
    <3>4. a \in Seq(Ch)  BY <1>2
    <3>. HIDE DEF a, b, c
    <3>. QED  BY <3>2, <3>3, <3>4
  <2>5. v \in States(Ch) /\ Line(Ch, all, k, v)  BY Zenon, <2>3
  <2>6. Line(Ch, all, k + 1, Walk(Walk(v, b), c)) 
    <3>. HIDE DEF v
    <3>. QED  BY Zenon, <1>4, <2>5, LineStep DEF b, c
  <2>7. Walk(st, a \o b \o c) = Walk(Walk(v, b), c)
    <3>. HIDE DEF st, a, b, c
    <3>1. Walk(st, a \o b) = Walk(v, b)  BY <1>1, <2>4, WalkJoin
    <3>. DEFINE ab == a \o b
    <3>. HIDE DEF ab
    <3>2. ab \in Seq(Ch)  BY Zenon, <2>4 DEF ab
    <3>3. Walk(st, ab \o c) = Walk(Walk(st, ab), c)  BY <1>1, <2>4, <3>2, WalkJoin
    <3>. QED  BY Zenon, <3>1, <3>3 DEF ab
  <2>8. Walk(st, a \o b \o c) \in States(Ch)
    <3>. HIDE DEF st, a, b, c
    <3>1. a \o b \o c \in Seq(Ch)  BY <2>4
    <3>. QED  BY Zenon, <1>1, <3>1, WalkTyped
  <2>9. Is(k + 1)  BY Zenon, <2>2, <2>6, <2>7, <2>8
  <2>. HIDE DEF Is
  <2>. QED  BY Zenon, <2>1, <2>9
<1>. HIDE DEF S
<1>5. n \in S
  <2>1. \A k \in 0..n : k \in S  BY <1>1, <1>3, <1>4, Upwards
  <2>. QED  BY <1>1, <2>1
<1>6. Is(n)
  <2>. HIDE DEF Is
  <2>. QED  BY <1>5 DEF S
<1>. QED  BY Zenon, <1>2, <1>6

\* The blank behind the line shows which of the two it is.
LEMMA LineEnds ==
  ASSUME NEW Ch, Characters(Ch), NEW all \in Seq(Seq(Ch)), all # <<>>
  PROVE  cmd_to_args(args_to_cmd(all)) = all <=> ~\E j \in 1..Len(all) : Recounted(all[j])
<1>. DEFINE n == Len(all)
            u == Walk(Between(<<>>), args_to_cmd(all))
            v == [u EXCEPT !.quoted = FALSE]
            w == Split(v, Space)
<1>1. n \in Nat /\ n > 0 /\ n \in 1..n /\ SubSeq(all, 1, n) = all  OBVIOUS
<1>2. u \in States(Ch) /\ Line(Ch, all, n, u)  BY Zenon, LineAll
<1>3. cmd_to_args(args_to_cmd(all)) = w.args  BY Zenon DEF cmd_to_args
<1>. HIDE DEF u
<1>4. /\ v \in States(Ch) /\ v.args = u.args /\ v.arg = u.arg /\ v.slash = u.slash /\ v.in = u.in
      /\ v.quoted = FALSE
  BY <1>2 DEF States
<1>. HIDE DEF v
<1>5. Space \in Ch  BY DEF Characters
<1>6. ASSUME NEW j \in 1..n, Recounted(all[j]), Lost(u, j, all[j]) PROVE w.args # all
  <2>1. j \in Nat \ {0} /\ all[j] \in Seq(Ch)  OBVIOUS
  <2>2. Lost(v, j, all[j])  BY Zenon, <1>4, <1>6 DEF Lost
  <2>3. Lost(w, j, all[j])  BY Zenon, <1>4, <1>5, <2>1, <2>2, SplitLost
  <2>4. w = Between(IF v.in THEN Append(v.args, Kept(v)) ELSE v.args)
    <3>1. ~v.quoted  BY <1>4
    <3>. QED  BY Zenon, <3>1, OnBlank
  <2>. HIDE DEF w
  <2>5. w.in = FALSE  BY <2>4 DEF Between
  <2>6. w.args[j] # all[j]  BY <2>3, <2>5 DEF Lost
  <2>. QED  BY Zenon, <2>6
<1>7. ASSUME Whole(Ch, SubSeq(all, 1, n - 1), all[n], u) PROVE w.args = all
  <2>1. u.quoted = FALSE  BY Zenon, <1>7 DEF Whole
  <2>2. v = u
    <3>1. v = [u EXCEPT !.quoted = u.quoted]  BY Zenon, <2>1 DEF v
    <3>. QED  BY <1>2, <3>1 DEF States
  <2>3. Split(u, Space) = Between(SubSeq(all, 1, n))  BY Zenon, <1>1, <1>7, Ended
  <2>4. w = Between(all)  BY Zenon, <1>1, <2>2, <2>3
  <2>. HIDE DEF w
  <2>. QED  BY <2>4 DEF Between
<1>. HIDE DEF w
<1>8. CASE \E j \in 1..n : Recounted(all[j]) /\ Lost(u, j, all[j])  BY Zenon, <1>3, <1>6, <1>8
<1>9. CASE (\A j \in 1..n : ~Recounted(all[j])) /\ Whole(Ch, SubSeq(all, 1, n - 1), all[n], u)
  BY Zenon, <1>3, <1>7, <1>9
<1>10. n # 0  BY <1>1
<1>. QED  BY Zenon, <1>2, <1>8, <1>9, <1>10 DEF Line

\* LineSplits (args_to_cmd, source/Platform/PlatformWin32.cpp), for every list of arguments over
\* any characters: the line splits into these arguments if, and only if, escape_one counted the
\* backslashes of none of them twice.
THEOREM ArgumentsSurviveAlways ==
  ASSUME NEW Ch, NEW args \in Seq(Seq(Ch))
  PROVE  LineSplits(args)
<1>. DEFINE X == Ch \union {Quote, Slash, Space, "p"}
            program == <<"p">>
            all == <<program>> \o args
<1>1. Characters(X)  BY DEF Characters
<1>2. args \in Seq(Seq(X))
  <2>1. Seq(Ch) \subseteq Seq(X)  OBVIOUS
  <2>. HIDE DEF X
  <2>. QED  BY <2>1
<1>3. program \in Seq(X) /\ Len(program) = 1  OBVIOUS
<1>. HIDE DEF X, program
<1>4. /\ all \in Seq(Seq(X)) /\ all # <<>> /\ Len(all) = Len(args) + 1 /\ all[1] = program
      /\ \A i \in 1..Len(args) : all[i + 1] = args[i]
  BY <1>2, <1>3
<1>5. ~Recounted(program)  BY <1>3 DEF Recounted
<1>6. DOMAIN args = 1..Len(args) /\ Len(args) \in Nat  OBVIOUS
<1>. HIDE DEF all
<1>7. (\E j \in 1..Len(all) : Recounted(all[j])) <=> \E i \in DOMAIN args : Recounted(args[i])
  <2>1. ASSUME NEW j \in 1..Len(all), Recounted(all[j]) PROVE \E i \in DOMAIN args : Recounted(args[i])
    <3>1. j # 1  BY <1>4, <1>5, <2>1
    <3>2. j - 1 \in 1..Len(args) /\ (j - 1) + 1 = j  BY <1>4, <1>6, <3>1
    <3>3. all[j] = args[j - 1]  BY <1>4, <3>2
    <3>. QED  BY Zenon, <1>6, <2>1, <3>2, <3>3
  <2>2. ASSUME NEW i \in 1..Len(args), Recounted(args[i]) PROVE \E j \in 1..Len(all) : Recounted(all[j])
    <3>1. i + 1 \in 1..Len(all) /\ all[i + 1] = args[i]  BY <1>4, <1>6
    <3>. QED  BY Zenon, <2>2, <3>1
  <2>. QED  BY Zenon, <1>6, <2>1, <2>2
<1>8. cmd_to_args(args_to_cmd(all)) = all <=> ~\E j \in 1..Len(all) : Recounted(all[j])
  BY Zenon, <1>1, <1>4, LineEnds
<1>. QED  BY Zenon, <1>7, <1>8 DEF LineSplits, all, program

\* The lists that are checked are lists of strings.
LEMMA ArgumentsAreLists ==
  ASSUME NEW x \in Arguments
  PROVE  x \in Seq(Seq({Quote, Slash, Space, "a"}))
<1>. DEFINE X == {Quote, Slash, Space, "a"}
<1>1. ASSUME NEW n \in Nat, NEW S, NEW f \in TupleOf(S, n) PROVE f \in Seq(S)
  <2>1. f \in [1..n -> S]  BY DEF TupleOf
  <2>. QED  BY SMT, <2>1
<1>2. ASSUME NEW n \in Nat PROVE Strings(n) \subseteq Seq(X)
  <2>. HIDE DEF X
  <2>1. SUFFICES ASSUME NEW s \in Strings(n) PROVE s \in Seq(X)  OBVIOUS
  <2>2. PICK k \in 0..n : s \in TupleOf(X, k)  BY DEF Strings, X
  <2>3. k \in Nat  OBVIOUS
  <2>. QED  BY Zenon, <1>1, <2>2, <2>3
<1>. HIDE DEF X
<1>3. CASE \E a \in Strings(6) : x = <<a>>
  <2>1. PICK a \in Strings(6) : x = <<a>>  BY <1>3
  <2>2. a \in Seq(X)  BY <1>2
  <2>. QED  BY <2>1, <2>2 DEF X
<1>4. CASE x \in TupleOf(Strings(3), 2)
  <2>1. x \in [1..2 -> Strings(3)]  BY <1>4 DEF TupleOf
  <2>2. x \in [1..2 -> Seq(X)]  BY <1>2, <2>1
  <2>3. x \in Seq(Seq(X))
    <3>. DEFINE Y == Seq(X)
    <3>1. x \in [1..2 -> Y] /\ 2 \in Nat  BY <2>2
    <3>. HIDE DEF Y
    <3>2. x \in Seq(Y)  BY Zenon, <3>1, SeqDef
    <3>. QED  BY Zenon, <3>2 DEF Y
  <2>. QED  BY Zenon, <2>3 DEF X
<1>. QED  BY <1>3, <1>4 DEF Arguments

\* A child that is started with one of the lists that are checked gets these arguments, unless
\* escape_one counted backslashes of one of them twice; and so, by ArgumentsSurviveAlways, does
\* a child that is started with any list.
THEOREM ArgumentsSurviveHolds == Spec => []ArgumentsSurvive
<1>. DEFINE Given == component = "CommandLine" => input \in Arguments
<1>1. Init => Given  BY DEF Init
<1>2. Given /\ [Next]_vars => Given'  BY InputStays
<1>3. Given => ArgumentsSurvive
  BY ArgumentsAreLists, ArgumentsSurviveAlways DEF ArgumentsSurvive
<1>. QED  BY <1>1, <1>2, <1>3, PTL DEF Spec
=============================================================================
