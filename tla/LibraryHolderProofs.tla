------------------------ MODULE LibraryHolderProofs ------------------------
(* Proofs about LibraryHolder: type correctness, the meaning of ref_count_   *)
(* for any clients, and for clients that pair load and unload the safety of  *)
(* the library they hold and the refinement of SharedLibrary.                *)
EXTENDS LibraryHolder, FiniteSetTheorems, TLAPS

-----------------------------------------------------------------------------
\* size_t arithmetic away from its limits is the arithmetic of the naturals.

LEMMA ModSmall ==
  ASSUME NEW m \in Nat, NEW a \in Nat, a < m
  PROVE  a % m = a
  OBVIOUS

LEMMA IncrementSize ==
  ASSUME NEW m \in Nat, NEW a \in Nat, a + 1 < m
  PROVE  (a + 1) % m = a + 1
  BY ModSmall

LEMMA DecrementSize ==
  ASSUME NEW m \in Nat, NEW a \in Nat, a < m, a > 0
  PROVE  (a - 1) % m = a - 1
  BY ModSmall

-----------------------------------------------------------------------------
\* Claims as a finite set: its size, and how one client changes it.

LEMMA ClaimsFinite ==
  /\ IsFiniteSet(Claims)
  /\ Cardinality(Claims) \in Nat
  /\ Cardinality(Clients) \in Nat
  /\ Cardinality(Claims) <= Cardinality(Clients)
  <1>1. Claims \in SUBSET Clients
    BY DEF Claims
  <1> QED
    BY <1>1, HolderAssumption, FS_Subset, FS_CardinalityType

\* A client that is not counted yet leaves room for one more.
LEMMA RoomForOne ==
  ASSUME NEW c \in Clients, c \notin Claims
  PROVE  Cardinality(Claims) < Cardinality(Clients)
  <1>1. Claims \in SUBSET Clients /\ Claims # Clients
    BY DEF Claims
  <1> QED
    BY <1>1, HolderAssumption, FS_Subset, ClaimsFinite

LEMMA ClaimAdded ==
  ASSUME NEW c \in Clients, Claims' = Claims \cup {c}
  PROVE  Cardinality(Claims') = IF c \in Claims THEN Cardinality(Claims)
                                                ELSE Cardinality(Claims) + 1
  BY ClaimsFinite, FS_AddElement

LEMMA ClaimRemoved ==
  ASSUME NEW c \in Clients, c \in Claims, Claims' = Claims \ {c}
  PROVE  Cardinality(Claims') = Cardinality(Claims) - 1
  BY ClaimsFinite, FS_RemoveElement

\* Somebody's claim is counted.
LEMMA ClaimCounted ==
  ASSUME NEW c \in Clients, c \in Claims
  PROVE  Cardinality(Claims) > 0
  BY ClaimsFinite, FS_EmptySet

-----------------------------------------------------------------------------
\* CountInv is inductive, whatever objects is.

LEMMA CountInit == Init => CountInv
  <1> SUFFICES ASSUME Init PROVE CountInv
    OBVIOUS
  <1>1. Claims = {}
    BY DEF Init, Claims
  <1>2. Cardinality(Claims) = 0
    BY <1>1, FS_EmptySet
  <1>3. SizeMod > 0
    BY HolderAssumption, FS_CardinalityType
  <1> QED
    BY <1>2, <1>3, HolderAssumption
    DEF Init, CountInv, TypeOK, MutualExclusion, ClientsInStep,
        CountMatchesModule, CountMatchesClaims, is_loaded

LEMMA ObjectsKept ==
  ASSUME [Next]_vars
  PROVE  objects' = objects
  BY DEF Next, vars

LEMMA TypeNext ==
  ASSUME CountInv, [Next]_vars
  PROVE  TypeOK'
  <1>o. objects' = objects
    BY ObjectsKept
  <1> USE HolderAssumption, <1>o DEF CountInv, TypeOK, library, Goto, Lock, Unlock
  <1>0. \A a \in Int : a % SizeMod \in 0..(SizeMod - 1)
    <2>1. SizeMod \in Nat \ {0}
      BY FS_CardinalityType
    <2> QED
      BY <2>1
  <1>1. ASSUME NEW c \in Clients, NEW lib \in Libs, CallLoad(c, lib)
        PROVE  TypeOK'
    BY <1>1 DEF CallLoad
  <1>2. ASSUME NEW c \in Clients, CallUnload(c) \/ CallGet(c)
        PROVE  TypeOK'
    BY <1>2 DEF CallUnload, CallGet
  <1>3. ASSUME NEW c \in Clients, Load(c)
        PROVE  TypeOK'
    BY <1>0, <1>3
    DEF Load, LoadLock, LoadShared, LoadDifferent, LoadFails, LoadOpens, LoadCounts
  <1>4. ASSUME NEW c \in Clients, Unload(c)
        PROVE  TypeOK'
    BY <1>0, <1>4
    DEF Unload, UnloadLock, UnloadNothing, UnloadCounts, UnloadLast, UnloadCloses
  <1>5. ASSUME NEW c \in Clients, Get(c)
        PROVE  TypeOK'
    BY <1>5 DEF Get, GetLock, GetMissing, GetFound
  <1>6. CASE UNCHANGED vars
    BY <1>6 DEF vars
  <1> QED
    BY <1>1, <1>2, <1>3, <1>4, <1>5, <1>6 DEF Next

\* What every step keeps of the control state: who is inside the mutex.
LEMMA ControlNext ==
  ASSUME CountInv, [Next]_vars
  PROVE  MutualExclusion' /\ ClientsInStep'
  <1> USE HolderAssumption
      DEF CountInv, TypeOK, MutualExclusion, ClientsInStep, library, Goto, Lock, Unlock
  <1>1. ASSUME NEW c \in Clients, NEW lib \in Libs, CallLoad(c, lib)
        PROVE  MutualExclusion' /\ ClientsInStep'
    BY <1>1 DEF CallLoad
  <1>2. ASSUME NEW c \in Clients, CallUnload(c) \/ CallGet(c)
        PROVE  MutualExclusion' /\ ClientsInStep'
    BY <1>2
    DEF CallUnload, CallGet
  <1>3. ASSUME NEW c \in Clients, Load(c)
        PROVE  MutualExclusion' /\ ClientsInStep'
    BY <1>3
    DEF Load, LoadLock, LoadShared, LoadDifferent, LoadFails, LoadOpens, LoadCounts
  <1>4. ASSUME NEW c \in Clients, Unload(c)
        PROVE  MutualExclusion' /\ ClientsInStep'
    BY <1>4
    DEF Unload, UnloadLock, UnloadNothing, UnloadCounts, UnloadLast, UnloadCloses
  <1>5. ASSUME NEW c \in Clients, Get(c)
        PROVE  MutualExclusion' /\ ClientsInStep'
    BY <1>5
    DEF Get, GetLock, GetMissing, GetFound
  <1>6. CASE UNCHANGED vars
    BY <1>6 DEF vars
  <1> QED
    BY <1>1, <1>2, <1>3, <1>4, <1>5, <1>6 DEF Next

\* What every step keeps of the count.
LEMMA CountNext ==
  ASSUME CountInv, [Next]_vars
  PROVE  CountMatchesModule' /\ CountMatchesClaims'
  <1> DEFINE Counted == CountMatchesModule /\ CountMatchesClaims
  <1>o. objects' = objects
    BY ObjectsKept
  <1> USE HolderAssumption, ClaimsFinite, <1>o
      DEF CountInv, TypeOK, MutualExclusion, ClientsInStep, Goto, Lock, Unlock, is_loaded
  <1>1. ASSUME NEW c \in Clients, NEW lib \in Libs, CallLoad(c, lib)
        PROVE  Counted'
    <2>1. Claims' = Claims
      BY <1>1 DEF CallLoad, Claims
    <2> QED
      BY <1>1, <2>1 DEF CallLoad, library, CountMatchesModule, CountMatchesClaims
  <1>2. ASSUME NEW c \in Clients, CallUnload(c)
        PROVE  Counted'
    <2>1. Claims' = Claims \cup {c}
      BY <1>2 DEF CallUnload, Claims
    <2>2. objects = {} => c \in Claims
      BY <1>2 DEF CallUnload, Claims
    <2> QED
      BY <1>2, <2>1, <2>2, ClaimAdded
      DEF CallUnload, library, CountMatchesModule, CountMatchesClaims
  <1>3. ASSUME NEW c \in Clients, CallGet(c) \/ Get(c)
        PROVE  Counted'
    <2>1. Claims' = Claims
      BY <1>3 DEF CallGet, Get, GetLock, GetMissing, GetFound, Claims
    <2> QED
      BY <1>3, <2>1
      DEF CallGet, Get, GetLock, GetMissing, GetFound, library,
          CountMatchesModule, CountMatchesClaims
  <1>4. ASSUME NEW c \in Clients, LoadLock(c) \/ LoadDifferent(c) \/ LoadFails(c)
        PROVE  Counted'
    <2>1. Claims' = Claims
      BY <1>4 DEF LoadLock, LoadDifferent, LoadFails, Claims
    <2> QED
      BY <1>4, <2>1
      DEF LoadLock, LoadDifferent, LoadFails, library, CountMatchesModule, CountMatchesClaims
  <1>5. ASSUME NEW c \in Clients, LoadOpens(c)
        PROVE  Counted'
    <2>1. Claims' = Claims
      BY <1>5 DEF LoadOpens, Claims
    <2>2. ref_count_ = 0
      BY <1>5 DEF LoadOpens, CountMatchesModule
    <2> QED
      BY <1>5, <2>1, <2>2 DEF LoadOpens, CountMatchesModule, CountMatchesClaims
  <1>6. ASSUME NEW c \in Clients, LoadShared(c) \/ LoadCounts(c)
        PROVE  Counted'
    <2>1. c \notin Claims /\ Claims' = Claims \cup {c}
      BY <1>6 DEF LoadShared, LoadCounts, Claims
    <2>2. ref_count_' = ref_count_ + 1
      <3>1. ref_count_ + 1 < SizeMod
        BY <2>1, RoomForOne DEF CountMatchesClaims
      <3> QED
        BY <1>6, <3>1, IncrementSize DEF LoadShared, LoadCounts
    <2>3. CountMatchesClaims'
      BY <2>1, <2>2, ClaimAdded DEF CountMatchesClaims
    <2>4. CountMatchesModule'
      BY <1>6, <2>2 DEF LoadShared, LoadCounts, CountMatchesModule
    <2> QED
      BY <2>3, <2>4
  <1>7. ASSUME NEW c \in Clients, UnloadLock(c) \/ UnloadCloses(c)
        PROVE  Counted'
    <2>1. Claims' = Claims
      BY <1>7 DEF UnloadLock, UnloadCloses, Claims
    <2> QED
      BY <1>7, <2>1
      DEF UnloadLock, UnloadCloses, library, CountMatchesModule, CountMatchesClaims
  <1>8. ASSUME NEW c \in Clients, UnloadNothing(c)
        PROVE  Counted'
    <2>1. c \in Claims /\ Claims' = Claims \ {c}
      BY <1>8 DEF UnloadNothing, Claims
    <2>2. ref_count_ = 0
      BY <1>8 DEF UnloadNothing, CountMatchesModule
    <2>3. CountMatchesClaims'
      BY <1>8, <2>1, <2>2, ClaimRemoved, ClaimCounted
      DEF UnloadNothing, library, CountMatchesClaims
    <2>4. CountMatchesModule'
      BY <1>8 DEF UnloadNothing, library, CountMatchesModule
    <2> QED
      BY <2>3, <2>4
  <1>9. ASSUME NEW c \in Clients, UnloadCounts(c) \/ UnloadLast(c)
        PROVE  Counted'
    <2>1. c \in Claims /\ Claims' = Claims \ {c}
      BY <1>9 DEF UnloadCounts, UnloadLast, Claims
    <2>2. ref_count_ > 0
      BY <1>9 DEF UnloadCounts, UnloadLast, CountMatchesModule
    <2>3. ref_count_' = ref_count_ - 1
      BY <1>9, <2>2, DecrementSize DEF UnloadCounts, UnloadLast
    <2>4. CountMatchesClaims'
      BY <2>1, <2>3, ClaimRemoved DEF CountMatchesClaims
    <2>5. CountMatchesModule'
      BY <1>9, <2>3 DEF UnloadCounts, UnloadLast, CountMatchesModule
    <2> QED
      BY <2>4, <2>5
  <1>10. CASE UNCHANGED vars
    BY <1>10 DEF vars, Claims, CountMatchesModule, CountMatchesClaims
  <1> QED
    BY <1>1, <1>2, <1>3, <1>4, <1>5, <1>6, <1>7, <1>8, <1>9, <1>10
    DEF Next, Load, Unload

THEOREM CountCorrect == Spec => []CountInv
  <1>1. CountInv /\ [Next]_vars => CountInv'
    BY TypeNext, ControlNext, CountNext DEF CountInv
  <1> QED
    BY CountInit, <1>1, PTL DEF Spec

\* Type correctness.
THEOREM TypeCorrect == Spec => []TypeOK
  <1>1. CountInv => TypeOK
    BY DEF CountInv
  <1> QED
    BY CountCorrect, <1>1, PTL

\* The property LoadedIffCounted: whatever loads and unloads are called, even
\* unload_library with nothing loaded, ref_count_ never wraps, and with the
\* mutex free it is positive exactly while the library is loaded.
THEOREM LoadedIffCountedAlways == Spec => []LoadedIffCounted
  <1>1. CountInv => LoadedIffCounted
    BY HolderAssumption
    DEF CountInv, MutualExclusion, CountMatchesModule, LoadedIffCounted
  <1> QED
    BY CountCorrect, <1>1, PTL

-----------------------------------------------------------------------------
\* Clients that pair load_library and unload_library: objects = {}.

\* A library about to be closed, or just opened, is nobody's.
LEMMA NobodyCounted ==
  ASSUME CountInv, objects = {}, ref_count_ = 0
  PROVE  Claims = {}
  BY ClaimsFinite, FS_EmptySet DEF CountInv, CountMatchesClaims

LEMMA HoldersInit == Init => HoldersInv
  BY DEF Init, HoldersInv, NameMatchesModule, HoldersKeepLibrary, HeldFunctionsLive, is_loaded

LEMMA HoldersNext ==
  ASSUME CountInv, HoldersInv, objects = {}, [Next]_vars
  PROVE  HoldersInv'
  <1> USE HolderAssumption
      DEF CountInv, TypeOK, MutualExclusion, ClientsInStep, HoldersInv,
          NameMatchesModule, HoldersKeepLibrary, HeldFunctionsLive,
          Goto, Lock, Unlock, is_loaded
  <1>1. ASSUME NEW c \in Clients, NEW lib \in Libs, CallLoad(c, lib)
        PROVE  HoldersInv'
    BY <1>1 DEF CallLoad, library
  <1>2. ASSUME NEW c \in Clients, CallUnload(c) \/ CallGet(c)
        PROVE  HoldersInv'
    BY <1>2 DEF CallUnload, CallGet, library
  <1>3. ASSUME NEW c \in Clients, LoadLock(c) \/ LoadDifferent(c) \/ LoadFails(c)
        PROVE  HoldersInv'
    BY <1>3 DEF LoadLock, LoadDifferent, LoadFails, library
  <1>4. ASSUME NEW c \in Clients, LoadShared(c)
        PROVE  HoldersInv'
    BY <1>4 DEF LoadShared
  <1>5. ASSUME NEW c \in Clients, LoadOpens(c)
        PROVE  HoldersInv'
    BY <1>5 DEF LoadOpens
  <1>6. ASSUME NEW c \in Clients, LoadCounts(c)
        PROVE  HoldersInv'
    BY <1>6 DEF LoadCounts
  <1>7. ASSUME NEW c \in Clients,
               UnloadLock(c) \/ UnloadNothing(c) \/ UnloadCounts(c) \/ UnloadLast(c)
        PROVE  HoldersInv'
    BY <1>7 DEF UnloadLock, UnloadNothing, UnloadCounts, UnloadLast, library
  <1>8. ASSUME NEW c \in Clients, UnloadCloses(c)
        PROVE  HoldersInv'
    <2>1. \A d \in Clients : hold[d] = NoLib
      BY <1>8, NobodyCounted DEF UnloadCloses, CountMatchesModule, Claims
    <2> QED
      BY <1>8, <2>1 DEF UnloadCloses
  <1>9. ASSUME NEW c \in Clients, Get(c)
        PROVE  HoldersInv'
    BY <1>9 DEF Get, GetLock, GetMissing, GetFound, library
  <1>10. CASE UNCHANGED vars
    BY <1>10 DEF vars
  <1> QED
    BY <1>1, <1>2, <1>3, <1>4, <1>5, <1>6, <1>7, <1>8, <1>9, <1>10
    DEF Next, Load, Unload

THEOREM HoldersCorrect == Spec => [](CountInv /\ (objects = {} => HoldersInv))
  <1>1. CountInv /\ (objects = {} => HoldersInv) /\ [Next]_vars
          => (objects = {} => HoldersInv)'
    <2> SUFFICES ASSUME CountInv, objects = {} => HoldersInv, [Next]_vars, objects' = {}
                 PROVE  HoldersInv'
      OBVIOUS
    <2>1. objects = {}
      BY ObjectsKept
    <2> QED
      BY <2>1, HoldersNext
  <1> QED
    BY CountCorrect, HoldersInit, <1>1, PTL DEF Spec

\* The property PairedHoldersKeepLibrary.
THEOREM HoldersKeepLibraryAlways == Spec => []PairedHoldersKeepLibrary
  <1>1. (objects = {} => HoldersInv) => PairedHoldersKeepLibrary
    BY DEF HoldersInv, PairedHoldersKeepLibrary
  <1> QED
    BY HoldersCorrect, <1>1, PTL

\* The property PairedFunctionsLive.
THEOREM FunctionsLiveAlways == Spec => []PairedFunctionsLive
  <1>1. (objects = {} => HoldersInv) => PairedFunctionsLive
    BY DEF HoldersInv, PairedFunctionsLive
  <1> QED
    BY HoldersCorrect, <1>1, PTL

-----------------------------------------------------------------------------
\* Refinement: the library each step shows to the outside.

LibraryShown == IF Users = {} THEN NoLib ELSE module_

LEMMA SharedStep ==
  ASSUME CountInv, HoldersInv, objects = {}, [Next]_vars
  PROVE  [Shared!Next]_<<Users, LibraryShown>>
  <1>p. objects' = {} /\ PairedUsers = Users /\ PairedUsers' = Users'
    BY ObjectsKept DEF PairedUsers
  <1> USE HolderAssumption, <1>p
      DEF CountInv, TypeOK, MutualExclusion, ClientsInStep, Goto, Lock, Unlock,
          is_loaded, LibraryShown
  <1> DEFINE Quiet == Users' = Users /\ LibraryShown' = LibraryShown
  <1>1. ASSUME NEW c \in Clients, NEW lib \in Libs, CallLoad(c, lib)
        PROVE  Quiet
    BY <1>1 DEF CallLoad, library, Users
  <1>2. ASSUME NEW c \in Clients, CallUnload(c)
        PROVE  Quiet
    BY <1>2 DEF CallUnload, library, Users
  <1>3. ASSUME NEW c \in Clients, CallGet(c) \/ Get(c)
        PROVE  Quiet
    BY <1>3 DEF CallGet, Get, GetLock, GetMissing, GetFound, library, Users
  <1>4. ASSUME NEW c \in Clients, LoadLock(c) \/ LoadDifferent(c) \/ LoadFails(c)
        PROVE  Quiet
    BY <1>4 DEF LoadLock, LoadDifferent, LoadFails, library, Users
  <1>5. ASSUME NEW c \in Clients, LoadOpens(c)
        PROVE  Quiet
    <2>1. Claims = {} /\ Users' = Users
      BY <1>5, NobodyCounted DEF LoadOpens, CountMatchesModule, Users
    <2>2. Users = {}
      BY <1>5, <2>1 DEF LoadOpens, Users, Claims
    <2> QED
      BY <2>1, <2>2
  <1>6. ASSUME NEW c \in Clients, LoadShared(c)
        PROVE  Shared!Acquire(c, want[c])
    <2>1. c \notin Users /\ Users' = Users \cup {c}
      BY <1>6 DEF LoadShared, Users
    <2>2. module_ = want[c] /\ module_' = want[c]
      BY <1>6 DEF LoadShared, HoldersInv, NameMatchesModule
    <2> QED
      BY <2>1, <2>2 DEF Shared!Acquire
  <1>7. ASSUME NEW c \in Clients, LoadCounts(c)
        PROVE  Shared!Acquire(c, want[c])
    <2>1. c \notin Users /\ Users' = Users \cup {c}
      BY <1>7 DEF LoadCounts, Users
    <2>2. Users = {}
      BY <1>7, NobodyCounted DEF LoadCounts, CountMatchesModule, Users, Claims
    <2>3. module_' = want[c]
      BY <1>7 DEF LoadCounts, HoldersInv, NameMatchesModule
    <2> QED
      BY <2>1, <2>2, <2>3 DEF Shared!Acquire
  <1>8. ASSUME NEW c \in Clients, UnloadLock(c) \/ UnloadLast(c)
        PROVE  Quiet
    BY <1>8 DEF UnloadLock, UnloadLast, library, Users
  <1>9. ASSUME NEW c \in Clients, UnloadNothing(c)
        PROVE  FALSE
    <2>1. c \in Claims /\ ref_count_ = 0
      BY <1>9 DEF UnloadNothing, CountMatchesModule, Claims
    <2> QED
      BY <2>1, NobodyCounted
  <1>10. ASSUME NEW c \in Clients, UnloadCounts(c)
         PROVE  Shared!LetGo(c)
    <2>1. c \in Users /\ Users' = Users \ {c}
      BY <1>10 DEF UnloadCounts, Users
    <2>2. Users' # {}
      <3>1. CountMatchesClaims'
        BY CountNext
      <3>2. Cardinality(Claims') > 0
        BY <1>10, <3>1, ClaimsFinite DEF UnloadCounts, CountMatchesClaims
      <3>3. Claims' # {}
        <4> SUFFICES ASSUME Claims' = {} PROVE FALSE
          OBVIOUS
        <4>1. Cardinality(Claims') = 0
          BY FS_EmptySet
        <4> QED
          BY <3>2, <4>1
      <3> QED
        BY <3>3 DEF Claims, Users
    <2> QED
      BY <1>10, <2>1, <2>2 DEF UnloadCounts, Shared!LetGo
  <1>11. ASSUME NEW c \in Clients, UnloadCloses(c)
         PROVE  Shared!LetGo(c)
    <2>1. Claims = {}
      BY <1>11, NobodyCounted DEF UnloadCloses, CountMatchesModule
    <2>2. Users = {c} /\ Users' = {}
      BY <1>11, <2>1 DEF UnloadCloses, Claims, Users
    <2> QED
      BY <2>2 DEF Shared!LetGo
  <1>12. CASE UNCHANGED vars
    BY <1>12 DEF vars, Users
  <1>13. ASSUME NEW c \in Clients, LoadShared(c) \/ LoadCounts(c)
         PROVE  want[c] \in Libs
    BY <1>13 DEF LoadShared, LoadCounts
  <1> QED
    BY <1>1, <1>2, <1>3, <1>4, <1>5, <1>6, <1>7, <1>8, <1>9, <1>10, <1>11, <1>12, <1>13
    DEF Next, Load, Unload, Shared!Next

\* The property ImplementsSharedLibrary: for clients that pair their calls
\* LibraryHolder is a reference-counted library.
THEOREM ImplementsSharedLibraryAlways == Spec => ImplementsSharedLibrary
  <1> DEFINE Shown == IF PairedUsers = {} THEN NoLib ELSE module_
  <1>1. Init => Shared!Init
    BY DEF Init, Users, PairedUsers, Shared!Init
  <1>2. CountInv /\ (objects = {} => HoldersInv) /\ [Next]_vars
          => [Shared!Next]_<<PairedUsers, Shown>>
    <2> SUFFICES ASSUME CountInv, objects = {} => HoldersInv, [Next]_vars
                 PROVE  [Shared!Next]_<<PairedUsers, Shown>>
      OBVIOUS
    <2>1. objects' = objects
      BY ObjectsKept
    <2>2. CASE objects = {}
      <3>1. [Shared!Next]_<<Users, LibraryShown>>
        BY <2>2, SharedStep
      <3>2. PairedUsers = Users /\ PairedUsers' = Users'
        BY <2>1, <2>2 DEF PairedUsers
      <3> QED
        BY <3>1, <3>2 DEF LibraryShown
    <2>3. CASE objects # {}
      <3>1. PairedUsers = {} /\ PairedUsers' = {}
        BY <2>1, <2>3 DEF PairedUsers
      <3> QED
        BY <3>1
    <2> QED
      BY <2>2, <2>3
  <1> QED
    BY <1>1, <1>2, HoldersCorrect, PTL DEF Spec, Shared!Spec, ImplementsSharedLibrary
=============================================================================
