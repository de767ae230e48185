--------------------------- MODULE SharedLibrary ---------------------------
(* What a reference-counted library promises its users: the first user loads *)
(* it, the others share it, and it is unloaded exactly when the last user    *)
(* lets go.  LibraryHolder implements it.                                    *)
CONSTANTS Clients, Libs, NoLib

VARIABLES users,   \* the clients with a claim on the library
          library  \* the library they share, NoLib when there are none

Init == users = {} /\ library = NoLib

Acquire(c, l) ==
  /\ c \notin users
  /\ library \in {NoLib, l}
  /\ users' = users \cup {c}
  /\ library' = l

LetGo(c) ==
  /\ c \in users
  /\ users' = users \ {c}
  /\ library' = IF users' = {} THEN NoLib ELSE library

Next ==
  \E c \in Clients : LetGo(c) \/ \E l \in Libs : Acquire(c, l)

Spec == Init /\ [][Next]_<<users, library>>
=============================================================================
