--------------------------- MODULE LibraryHolder ---------------------------
(* LibraryHolder<T> (include/MaaUtils/LibraryHolder.h): one dynamic library  *)
(* shared by all users of a class template instance, counted by the static   *)
(* ref_count_ and guarded by the static mutex_.                              *)
(*                                                                           *)
(* A client is a thread using the class.  Plain clients pair each successful *)
(* load_library with one unload_library.  The clients in objects, which the  *)
(* program chooses once and for all, are instances of a derived class:       *)
(* whatever became of their load, their destructor calls unload_library.     *)
EXTENDS Integers, FiniteSets

CONSTANTS
  Clients,  \* the threads that use the class
  Objects,  \* those of them that may be RAII instances
  Libs,     \* paths passed to load_library
  NoLib,    \* no library
  Nobody,   \* the mutex is free
  SizeMod   \* size_t counts modulo this

ASSUME HolderAssumption ==
  /\ IsFiniteSet(Clients)
  /\ Objects \subseteq Clients
  /\ NoLib \notin Libs
  /\ Nobody \notin Clients
  /\ SizeMod \in Nat /\ Cardinality(Clients) < SizeMod

VARIABLES
  objects,     \* the clients that are RAII instances
  mutex_,      \* the client that holds the mutex, or Nobody
  ref_count_,  \* size_t
  libname_,    \* path of the library loaded last
  module_,     \* the library that is loaded, or NoLib
  pc,          \* where each client is
  want,        \* the libname of each client's load_library
  hold,        \* the library each client has loaded and not yet unloaded
  function     \* the last get_function of each client: "none", "live", "dangling"

vars == <<objects, mutex_, ref_count_, libname_, module_, pc, want, hold, function>>
library == <<ref_count_, libname_, module_>>

Init ==
  /\ objects \in SUBSET Objects
  /\ mutex_ = Nobody
  /\ ref_count_ = 0 /\ libname_ = NoLib /\ module_ = NoLib
  /\ pc = [c \in Clients |-> "idle"]
  /\ want = [c \in Clients |-> NoLib]
  /\ hold = [c \in Clients |-> NoLib]
  /\ function = [c \in Clients |-> "none"]

is_loaded == module_ # NoLib

Goto(c, from, to) == pc[c] = from /\ pc' = [pc EXCEPT ![c] = to]

\* Mutant: no mutex.
Lock_None(c) == mutex_' = c

\* std::unique_lock lock(mutex_), and its destructor.
Lock(c)   == mutex_ = Nobody /\ mutex_' = c
Unlock(c) == mutex_' = Nobody

-----------------------------------------------------------------------------
\* load_library

CallLoad(c, lib) ==
  /\ Goto(c, "idle", "load")
  /\ hold[c] = NoLib
  /\ want' = [want EXCEPT ![c] = lib]
  /\ function' = [function EXCEPT ![c] = "none"]
  /\ UNCHANGED <<mutex_, library, hold>>

LoadLock(c) ==
  /\ Goto(c, "load", "loading")
  /\ Lock(c)
  /\ UNCHANGED <<library, want, hold, function>>

\* Mutant: whatever is loaded is shared.
LoadShared_AnyLibrary(c) ==
  /\ Goto(c, "loading", "idle")
  /\ is_loaded
  /\ ref_count_' = (ref_count_ + 1) % SizeMod
  /\ hold' = [hold EXCEPT ![c] = want[c]]
  /\ Unlock(c)
  /\ UNCHANGED <<libname_, module_, want, function>>

\* Already loaded: one more reference.
LoadShared(c) ==
  /\ Goto(c, "loading", "idle")
  /\ is_loaded /\ libname_ = want[c]
  /\ ref_count_' = (ref_count_ + 1) % SizeMod
  /\ hold' = [hold EXCEPT ![c] = want[c]]
  /\ Unlock(c)
  /\ UNCHANGED <<libname_, module_, want, function>>

\* "Already loaded with different library"
LoadDifferent(c) ==
  /\ Goto(c, "loading", "idle")
  /\ is_loaded /\ libname_ # want[c]
  /\ Unlock(c)
  /\ UNCHANGED <<library, want, hold, function>>

\* "Failed to load library"
LoadFails(c) ==
  /\ Goto(c, "loading", "idle")
  /\ ~is_loaded
  /\ Unlock(c)
  /\ UNCHANGED <<library, want, hold, function>>

\* module_.load succeeds.
LoadOpens(c) ==
  /\ Goto(c, "loading", "counting")
  /\ ~is_loaded
  /\ module_' = want[c]
  /\ UNCHANGED <<mutex_, ref_count_, libname_, want, hold, function>>

LoadCounts(c) ==
  /\ Goto(c, "counting", "idle")
  /\ libname_' = want[c]
  /\ ref_count_' = (ref_count_ + 1) % SizeMod
  /\ hold' = [hold EXCEPT ![c] = want[c]]
  /\ Unlock(c)
  /\ UNCHANGED <<module_, want, function>>

-----------------------------------------------------------------------------
\* unload_library, called by a client that has loaded or by ~LibraryHolder.

CallUnload(c) ==
  /\ Goto(c, "idle", "unload")
  /\ hold[c] # NoLib \/ c \in objects
  /\ hold' = [hold EXCEPT ![c] = NoLib]
  /\ UNCHANGED <<mutex_, library, want, function>>

UnloadLock(c) ==
  /\ Goto(c, "unload", "unloading")
  /\ Lock(c)
  /\ UNCHANGED <<library, want, hold, function>>

\* "LibraryHolder already unloaded"
UnloadNothing(c) ==
  /\ Goto(c, "unloading", "idle")
  /\ ~is_loaded
  /\ Unlock(c)
  /\ UNCHANGED <<library, want, hold, function>>

\* Mutant: decremented with no library loaded.
UnloadCounts_Unchecked(c) ==
  /\ Goto(c, "unloading", "idle")
  /\ ref_count_' = (ref_count_ - 1) % SizeMod
  /\ ref_count_' > 0
  /\ Unlock(c)
  /\ UNCHANGED <<libname_, module_, want, hold, function>>

\* --ref_count_ > 0: "Still has references"
UnloadCounts(c) ==
  /\ Goto(c, "unloading", "idle")
  /\ is_loaded
  /\ ref_count_' = (ref_count_ - 1) % SizeMod
  /\ ref_count_' > 0
  /\ Unlock(c)
  /\ UNCHANGED <<libname_, module_, want, hold, function>>

\* Mutant: --ref_count_ > 1.
UnloadLast_OneLeft(c) ==
  /\ Goto(c, "unloading", "closing")
  /\ is_loaded
  /\ ref_count_' = (ref_count_ - 1) % SizeMod
  /\ ref_count_' <= 1
  /\ UNCHANGED <<mutex_, libname_, module_, want, hold, function>>

UnloadLast(c) ==
  /\ Goto(c, "unloading", "closing")
  /\ is_loaded
  /\ ref_count_' = (ref_count_ - 1) % SizeMod
  /\ ref_count_' = 0
  /\ UNCHANGED <<mutex_, libname_, module_, want, hold, function>>

\* module_.unload(): functions of the library point nowhere from here on.
UnloadCloses(c) ==
  /\ Goto(c, "closing", "idle")
  /\ module_' = NoLib
  /\ function' = [d \in Clients |-> IF function[d] = "live" THEN "dangling"
                                                            ELSE function[d]]
  /\ Unlock(c)
  /\ UNCHANGED <<ref_count_, libname_, want, hold>>

-----------------------------------------------------------------------------
\* get_function

CallGet(c) ==
  /\ Goto(c, "idle", "get")
  /\ UNCHANGED <<mutex_, library, want, hold, function>>

GetLock(c) ==
  /\ Goto(c, "get", "getting")
  /\ Lock(c)
  /\ UNCHANGED <<library, want, hold, function>>

\* Not loaded, or no such symbol: an empty function.
GetMissing(c) ==
  /\ Goto(c, "getting", "idle")
  /\ function' = [function EXCEPT ![c] = "none"]
  /\ Unlock(c)
  /\ UNCHANGED <<library, want, hold>>

GetFound(c) ==
  /\ Goto(c, "getting", "idle")
  /\ is_loaded
  /\ function' = [function EXCEPT ![c] = "live"]
  /\ Unlock(c)
  /\ UNCHANGED <<library, want, hold>>

-----------------------------------------------------------------------------
Load(c) ==
  \/ LoadLock(c) \/ LoadShared(c) \/ LoadDifferent(c) \/ LoadFails(c)
  \/ LoadOpens(c) \/ LoadCounts(c)

Unload(c) ==
  \/ UnloadLock(c) \/ UnloadNothing(c) \/ UnloadCounts(c) \/ UnloadLast(c)
  \/ UnloadCloses(c)

Get(c) == GetLock(c) \/ GetMissing(c) \/ GetFound(c)

Next ==
  /\ UNCHANGED objects
  /\ \E c \in Clients :
       \/ \E lib \in Libs : CallLoad(c, lib)
       \/ CallUnload(c) \/ CallGet(c)
       \/ Load(c) \/ Unload(c) \/ Get(c)

Spec == Init /\ [][Next]_vars

-----------------------------------------------------------------------------
\* Properties.

TypeOK ==
  /\ objects \subseteq Objects
  /\ mutex_ \in Clients \cup {Nobody}
  /\ ref_count_ \in 0..(SizeMod - 1)
  /\ libname_ \in Libs \cup {NoLib}
  /\ module_ \in Libs \cup {NoLib}
  /\ pc \in [Clients -> {"idle", "load", "loading", "counting", "unload",
                         "unloading", "closing", "get", "getting"}]
  /\ want \in [Clients -> Libs \cup {NoLib}]
  /\ hold \in [Clients -> Libs \cup {NoLib}]
  /\ function \in [Clients -> {"none", "live", "dangling"}]

\* Whatever unload_library is called without a load, the count never wraps
\* below zero and no library is left open with no reference: when the mutex is
\* free, the library is loaded exactly when ref_count_ is positive.
LoadedIffCounted == mutex_ = Nobody => (is_loaded <=> ref_count_ > 0)

\* The library a client has loaded stays the one that is loaded until that
\* client unloads it, whatever other clients load, fail to load or unload.
HoldersKeepLibrary ==
  \A c \in Clients : hold[c] # NoLib => module_ = hold[c]

\* A function obtained between load_library and unload_library can be called
\* until unload_library: the library was not closed and reopened in between.
HeldFunctionsLive ==
  \A c \in Clients : hold[c] # NoLib => function[c] # "dangling"

\* The clients that have a reference, or are about to give theirs back.
Users ==
  {c \in Clients : hold[c] # NoLib \/ pc[c] \in {"unload", "unloading", "closing"}}

PairedUsers == IF objects = {} THEN Users ELSE {}

\* The last two, which RAII instances break (~LibraryHolder unloads what it has not
\* loaded), of the clients that pair their calls.
PairedHoldersKeepLibrary == objects = {} => HoldersKeepLibrary
PairedFunctionsLive == objects = {} => HeldFunctionsLive

\* The parts of the inductive invariant.

\* The clients whose reference is, or will have been, counted.
Claims == {c \in Clients : hold[c] # NoLib \/ pc[c] \in {"unload", "unloading"}}

MutualExclusion ==
  \A c \in Clients :
    pc[c] \in {"loading", "counting", "unloading", "closing", "getting"} <=> mutex_ = c

\* Between the two steps of a first load or of a last unload the library is
\* loaded and counted zero times; at any other time the two agree.
CountMatchesModule ==
  IF \E c \in Clients : pc[c] \in {"counting", "closing"}
  THEN is_loaded /\ ref_count_ = 0
  ELSE is_loaded <=> ref_count_ > 0

\* Every reference counted is somebody's, and if all clients pair their calls
\* somebody's reference is always counted.
CountMatchesClaims ==
  /\ ref_count_ <= Cardinality(Claims)
  /\ objects = {} => ref_count_ = Cardinality(Claims)

\* libname_ names the library that is loaded, once it is counted.
NameMatchesModule ==
  /\ \A c \in Clients : pc[c] = "counting" => module_ = want[c]
  /\ is_loaded /\ (\A c \in Clients : pc[c] # "counting") => libname_ = module_

\* A client inside load_library or unload_library holds nothing yet, or any
\* more; it has asked for a library; and its function is not from this session.
ClientsInStep ==
  \A c \in Clients :
    /\ hold[c] # NoLib => pc[c] \in {"idle", "get", "getting"}
    /\ pc[c] \in {"load", "loading", "counting"} =>
         want[c] \in Libs /\ function[c] = "none"

CountInv ==
  /\ TypeOK /\ MutualExclusion /\ ClientsInStep
  /\ CountMatchesModule /\ CountMatchesClaims

HoldersInv ==
  /\ NameMatchesModule
  /\ HoldersKeepLibrary /\ HeldFunctionsLive

\* The class implements the reference-counted library.  While one client has
\* opened the library and not yet counted itself, nobody is a user yet.  Where
\* there are RAII instances nothing is claimed: nobody is a user at all.
Shared ==
  INSTANCE SharedLibrary WITH
    users   <- PairedUsers,
    library <- IF PairedUsers = {} THEN NoLib ELSE module_

\* Every step of load_library, unload_library and get_function is a step of
\* the reference-counted library or invisible to it; in particular the last
\* user, and only the last, unloads it.
ImplementsSharedLibrary == Shared!Spec
=============================================================================
