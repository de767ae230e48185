------------------------------ MODULE JsonValue ------------------------------
(* json::value, json::array and json::object (include/meojson/common): the   *)
(* values that a user holds in variables, changed by indexing, emplace,      *)
(* erase, the merges and the assignments, copying and moving.                *)
(*                                                                           *)
(* A value is <<"null">> or its _type with what _raw_data holds: a text, the *)
(* members of an array (a sequence) or of an object (a function of keys), or *)
(* NoData where the pointer of that type is missing.                         *)
EXTENDS Integers, Sequences, SequencesExt

CONSTANTS
  Vars,      \* the user's variables
  Keys,
  Leaves,    \* values that are no array and no object
  NoData,
  MaxSize,   \* bound: members of an array
  MaxDepth,  \* bound: nesting
  MaxSteps   \* bound: operations

VARIABLES
  val,       \* the value in each variable
  spoiled,   \* moved from, or assigned to a member of its own
  outcome,   \* of the last operation: "done", "false" or "threw"
  steps

vars == <<val, spoiled, outcome, steps>>

Null == <<"null">>
Containers == {"array", "object"}

ASSUME JsonAssumption ==
  MaxDepth \in Nat /\ \A leaf \in Leaves : leaf[1] \notin Containers

\* Everything value::empty() says is empty.
empty(x) ==
  CASE x[1] = "null" -> TRUE
    [] x[1] = "string" -> x[2] = ""
    [] x[1] \in Containers -> x[2] = <<>>
    [] OTHER -> FALSE

\* Mutant: any other type is converted, too.
As_Any(x, kind) == IF x[1] # kind THEN <<kind, <<>> >> ELSE x

\* as_array() and as_object() where they may change the value: they convert an
\* empty one. If the result is not of the kind, they threw.
As(x, kind) == IF empty(x) THEN <<kind, <<>> >> ELSE x

\* What the defaulted move constructor and move assignment leave behind.
Left(x) ==
  IF x = Null THEN Null ELSE <<x[1], IF x[1] \in Containers THEN NoData ELSE "">>

\* insert_or_assign, and the same at a position.
With(members, k, x) ==
  [i \in DOMAIN members \cup {k} |-> IF i = k THEN x ELSE members[i]]
Without(members, k) == [i \in DOMAIN members \ {k} |-> members[i]]

\* merge_object, and with append_array.
Merge(f, g) == [k \in DOMAIN f \cup DOMAIN g |-> IF k \in DOMAIN g THEN g[k] ELSE f[k]]
Join(kind, f, g) == IF kind = "array" THEN f \o g ELSE Merge(f, g)

\* Mutant: what is appended is always moved.
Rest_Moved(kind, members, move) == <<kind, [k \in DOMAIN members |-> Left(members[k])]>>

\* What is left of the container that another is joined with.
Rest(kind, members, move) ==
  <<kind, [k \in DOMAIN members |-> IF move THEN Left(members[k]) ELSE members[k]]>>

Members(x) == IF x[1] \in Containers /\ x[2] # NoData THEN Range(x[2]) ELSE {}

Below(set) == UNION {Members(y) : y \in set}

\* The values that are nested in x, by depth: to one level more than fits.
Nested(x) ==
  LET level[d \in 0..MaxDepth + 1] ==
        IF d = 0 THEN {x} ELSE Below(level[d - 1])
  IN  level

Whole(x) ==
  LET level == Nested(x)
  IN  \A d \in 0..MaxDepth : \A y \in level[d] : y[1] \in Containers => y[2] # NoData

Fits(x) ==
  /\ Nested(x)[MaxDepth + 1] = {}
  /\ x[1] = "array" /\ Members(x) # {} => Len(x[2]) <= MaxSize

-----------------------------------------------------------------------------
Init ==
  /\ val = [x \in Vars |-> Null]
  /\ spoiled = [x \in Vars |-> FALSE]
  /\ outcome = "done"
  /\ steps = 0

Result(new, what) ==
  /\ steps < MaxSteps /\ steps' = steps + 1
  /\ \A x \in Vars : Fits(new[x])
  /\ val' = new
  /\ outcome' = what

\* An operation on x that came to new, of the kind it needs or not.
Ended(x, kind, now, new) ==
  IF now[1] = kind THEN Result([val EXCEPT ![x] = new], "done")
  ELSE Result(val, "threw")

\* What may be copied into x.
Items(x) == Leaves \cup {val[y] : y \in {y \in Vars \ {x} : ~spoiled[y]}}

\* x[k], which inserts null, and x[k] = item.
Index(x, k) ==
  LET now == As(val[x], "object")
  IN  /\ ~spoiled[x]
      /\ Ended(x, "object", now,
               <<"object", IF k \in DOMAIN now[2] THEN now[2] ELSE With(now[2], k, Null)>>)
      /\ UNCHANGED spoiled

SetKey(x, k, item) ==
  LET now == As(val[x], "object")
  IN  /\ ~spoiled[x]
      /\ Ended(x, "object", now, <<"object", With(now[2], k, item)>>)
      /\ UNCHANGED spoiled

\* x[k] = x: the member takes x's _type before what x holds, the member itself
\* included, is copied. The copy of the member has a type without the data.
SetSelf(x, k) ==
  LET now  == As(val[x], "object")
      copy == IF k \in DOMAIN now[2] /\ now[2][k][1] = "object"
              THEN now[2][k] ELSE <<"object", NoData>>
  IN  /\ ~spoiled[x]
      /\ Ended(x, "object", now,
               <<"object", With(now[2], k, <<"object", With(now[2], k, copy)>>)>>)
      /\ spoiled' = [spoiled EXCEPT ![x] = now[1] = "object" /\ ~Whole(copy)]

\* x[pos] = item, of an array that has pos: there is no creating by position.
SetPos(x, pos, item) ==
  /\ ~spoiled[x]
  /\ val[x][1] = "array" => pos \in DOMAIN val[x][2]
  /\ ~empty(val[x])
  /\ Ended(x, "array", val[x], <<"array", [val[x][2] EXCEPT ![pos] = item]>>)
  /\ UNCHANGED spoiled

\* emplace(item) and emplace(k, item).
Emplace(x, item) ==
  LET now == As(val[x], "array")
  IN  /\ ~spoiled[x]
      /\ Ended(x, "array", now, <<"array", Append(now[2], item)>>)
      /\ UNCHANGED spoiled

EmplaceKey(x, k, item) == SetKey(x, k, item)

\* erase(pos) and erase(k).
Erase(x, kind, k) ==
  LET now == As(val[x], kind)
  IN  /\ ~spoiled[x]
      /\ IF now[1] # kind THEN Result(val, "threw")
         ELSE IF k \notin DOMAIN now[2] THEN Result([val EXCEPT ![x] = now], "false")
         ELSE Result([val EXCEPT ![x] =
                        <<kind, IF kind = "array" THEN RemoveAt(now[2], k)
                                ELSE Without(now[2], k)>>], "done")
      /\ UNCHANGED spoiled

\* x |= y and x += y, or x = x | y and x = x + y, of y.as_object() or y.as_array().
\* Only a const x is not converted; y is, even if x is of another kind.
Combine(x, y, kind, const, move) ==
  LET source == As(val[y], kind)
      target == IF const THEN val[x] ELSE As(val[x], kind)
  IN  /\ x # y /\ ~spoiled[x] /\ ~spoiled[y]
      /\ IF source[1] # kind
         THEN Result(val, "threw") /\ UNCHANGED spoiled
         ELSE IF target[1] # kind
         THEN Result([val EXCEPT ![y] = source], "threw") /\ UNCHANGED spoiled
         ELSE /\ Result([val EXCEPT ![x] = <<kind, Join(kind, target[2], source[2])>>,
                                    ![y] = Rest(kind, source[2], move)], "done")
              /\ spoiled' = [spoiled EXCEPT ![y] = move]

\* clear(), and assignment of a leaf.
Assign(x, leaf) ==
  /\ Result([val EXCEPT ![x] = leaf], "done")
  /\ spoiled' = [spoiled EXCEPT ![x] = FALSE]

\* x = y and x = std::move(y).
Copy(x, y) ==
  /\ x # y /\ ~spoiled[y]
  /\ Result([val EXCEPT ![x] = val[y]], "done")
  /\ spoiled' = [spoiled EXCEPT ![x] = FALSE]

Move(x, y) ==
  /\ x # y /\ ~spoiled[y]
  /\ Result([val EXCEPT ![x] = val[y], ![y] = Left(val[y])], "done")
  /\ spoiled' = [spoiled EXCEPT ![x] = FALSE, ![y] = TRUE]

\* x = x.at(k): copied before the old value goes.
Take(x, kind, k) ==
  /\ ~spoiled[x]
  /\ IF val[x][1] = kind /\ k \in DOMAIN val[x][2]
     THEN Result([val EXCEPT ![x] = val[x][2][k]], "done")
     ELSE Result(val, "threw")
  /\ UNCHANGED spoiled

Next ==
  \E x \in Vars :
    \/ \E k \in Keys : Index(x, k) \/ SetSelf(x, k) \/ Erase(x, "object", k) \/ Take(x, "object", k)
    \/ \E k \in Keys, item \in Items(x) : EmplaceKey(x, k, item)
    \/ \E pos \in 1..MaxSize : Erase(x, "array", pos) \/ Take(x, "array", pos)
    \/ \E pos \in 1..MaxSize, item \in Items(x) : SetPos(x, pos, item)
    \/ \E item \in Items(x) : Emplace(x, item)
    \/ \E leaf \in Leaves : Assign(x, leaf)
    \/ \E y \in Vars : Copy(x, y) \/ Move(x, y)
    \/ \E y \in Vars, kind \in Containers, const \in BOOLEAN, move \in BOOLEAN :
         Combine(x, y, kind, const, move)

Spec == Init /\ [][Next]_vars

-----------------------------------------------------------------------------
\* Properties.

\* A value that is not moved from, nor assigned to a member of its own, is whole
\* to the last member, whatever was moved out of others into it: no use of it
\* meets a missing pointer.
WholeUnlessSpoiled == \A x \in Vars : ~spoiled[x] => Whole(val[x])

\* An operation that throws, or returns false, loses nothing: at most it turns one
\* empty value into another.
FailureLosesNothing ==
  [][outcome' # "done" =>
       \A x \in Vars : val'[x] = val[x] \/ (empty(val[x]) /\ empty(val'[x]))]_vars
=============================================================================
