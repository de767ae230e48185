---------------------------- MODULE JsonConvert ----------------------------
(* What json::value is and converts to and from: the templates is<T>, as<T>, *)
(* get, find and the constructors (include/meojson/common), and the members  *)
(* of a class written and read by MEO_JSONIZATION (reflection/jsonization).  *)
(*                                                                           *)
(* A type is a tuple that begins with its class. A native value is what a    *)
(* variable of that type holds; an operator that may throw returns the set   *)
(* of its results, empty if it throws.                                       *)
EXTENDS JsonValue

CONSTANTS
  Types,   \* types converted to and from
  Reads,   \* for each numeric type, what from_chars or stod makes of a text
  Writes,  \* for each numeric type, what std::to_string makes of a number
  Lower,   \* the names of enumerators, and other strings, in lower case
  Wild     \* what is read behind the end of a vector

Numeric == DOMAIN Reads
Only(set) == CHOOSE n \in set : TRUE
Each(results) == IF {} \in Range(results) THEN {} ELSE {[k \in DOMAIN results |-> Only(results[k])]}

-----------------------------------------------------------------------------
\* An enum has the enumerators that reflection finds within its range, by value.

iequals(a, b) == Lower[a] = Lower[b]
enum_to_string(T, e) == {p[2] : p \in {p \in Range(T[2]) : p[1] = e}}
string_to_enum(T, str) ==
  LET i == SelectInSeq(T[2], LAMBDA p : iequals(p[2], str))
  IN  IF i = 0 THEN {} ELSE {T[2][i][1]}

RECURSIVE Is(_, _), Reading(_, _), MoveReading(_, _), To(_, _), Default(_)

-----------------------------------------------------------------------------
\* MEO_JSONIZATION(x, MEO_OPT y, MEO_KEY("k") z). The tags of a member come before
\* it and are carried in next_state_t; then the state is new.

Fields(args) ==
  FoldLeft(LAMBDA acc, arg :
    CASE arg[1] = "MEO_OPT" -> [acc EXCEPT !.optional = TRUE]
      [] arg[1] = "MEO_KEY" -> [acc EXCEPT !.override = <<arg[2]>>]
      [] OTHER -> [fields   |-> Append(acc.fields,
                     [key      |-> IF acc.override = <<>> THEN arg[1] ELSE acc.override[1],
                      optional |-> acc.optional, type |-> arg[2]]),
                   optional |-> FALSE, override |-> <<>>],
    [fields |-> <<>>, optional |-> FALSE, override |-> <<>>], args).fields

Found(v, k) == v[1] = "object" /\ k \in DOMAIN v[2]

\* dumper: a key that comes twice keeps the last.
Dumped(fields, native) ==
  LET written == Each([i \in DOMAIN fields |-> To(fields[i].type, native[i])])
  IN  {<<"object", FoldLeftDomain(LAMBDA f, i : With(f, fields[i].key, w[i]), <<>>, fields)>> :
         w \in written}

\* Mutant: an optional member is not looked at.
Bad_Optional(field, v) == ~field.optional /\ ~(Found(v, field.key) /\ Is(field.type, v[2][field.key]))

\* The member that checker and loader stop at, and the first such, or 0.
Bad(field, v) ==
  IF Found(v, field.key) THEN ~Is(field.type, v[2][field.key]) ELSE ~field.optional
FirstBad(fields, v) == SelectInSeq(fields, LAMBDA field : Bad(field, v))

Check(fields, v) == FirstBad(fields, v) = 0

\* loader: one member after the other, up to the first that is bad; one that is
\* absent stays as it is.
Load(fields, v, native) ==
  LET bad == FirstBad(fields, v)
      end == IF bad = 0 THEN Len(fields) ELSE bad - 1
  IN  [ok |-> bad = 0, error_key |-> IF bad = 0 THEN "" ELSE fields[bad].key,
       members |-> Each([i \in DOMAIN fields |->
                     IF i <= end /\ Found(v, fields[i].key)
                     THEN Reading(fields[i].type, v[2][fields[i].key]) ELSE {native[i]}])]

-----------------------------------------------------------------------------
\* is<T>. A class of "cv" is cv::Point, cv::Rect or cv::Size, of so many numbers.

IsAll(T, v, kind) == v[1] = kind /\ \A m \in Range(v[2]) : Is(T, m)

Is(T, v) ==
  CASE T[1] = "value"      -> TRUE
    [] T[1] = "struct"     -> Check(Fields(T[2]), v)
    [] T[1] = "cv"         -> IsAll(<<"int">>, v, "array") /\ Len(v[2]) = T[2]
    [] T[1] = "nullable"   -> v = Null \/ Is(T[2], v)
    [] T[1] = "enum"       -> IF v[1] = "string" THEN string_to_enum(T, v[2]) # {} ELSE Is(<<"int">>, v)
    [] T[1] \in Numeric    -> v[1] = "number" /\ v[2] \in DOMAIN Reads[T[1]]
    [] T[1] \in {"vector", "set"} -> IsAll(T[2], v, "array")
    [] T[1] = "fixed"      -> IsAll(T[2], v, "array") /\ Len(v[2]) = T[3]
    [] T[1] = "tuple"      -> /\ v[1] = "array" /\ Len(v[2]) = Len(T[2])
                              /\ \A i \in DOMAIN T[2] : Is(T[2][i], v[2][i])
    [] T[1] = "variant"    -> \E i \in DOMAIN T[2] : Is(T[2][i], v)
    [] T[1] = "map"        -> IsAll(T[2], v, "object")
    [] OTHER               -> v[1] = T[1]

\* Mutant: the alternatives of a variant are tried from the last.
Alternative_Last(T, v) == SelectLastInSeq(T[2], LAMBDA t : Is(t, v))

\* The alternative of a variant that reads v, or 0.
Alternative(T, v) == SelectInSeq(T[2], LAMBDA t : Is(t, v))

\* as_boolean to as_string_view, and as_array and as_object of a const value.
ReadLeaf(T, v) ==
  IF v[1] = "number" /\ T[1] \in Numeric
  THEN {Reads[T[1]][s] : s \in {v[2]} \cap DOMAIN Reads[T[1]]}
  ELSE {x \in {v} : x[1] = T[1]}

ReadEnum(T, v) ==
  IF v[1] = "string" THEN string_to_enum(T, v[2])
  ELSE ReadLeaf(<<"int">>, v)

ReadNullable(T, v) == IF v = Null THEN {<<>>} ELSE {<<n>> : n \in Reading(T, v)}

ReadClass(T, v) == LET l == Load(Fields(T[2]), v, Default(T)) IN IF l.ok THEN l.members ELSE {}

\* array::as, where the sizes must be equal for std::array and tuples, and object::as.
ReadArray(T, v) ==
  IF v[1] # "array" \/ (T[1] = "fixed" /\ Len(v[2]) # T[3]) THEN {}
  ELSE Each([i \in DOMAIN v[2] |-> Reading(T[2], v[2][i])])

ReadTuple(T, v) ==
  IF v[1] # "array" \/ Len(v[2]) # Len(T[2]) THEN {}
  ELSE Each([i \in DOMAIN v[2] |-> Reading(T[2][i], v[2][i])])

ReadMap(T, v) ==
  IF v[1] # "object" THEN {} ELSE Each([k \in DOMAIN v[2] |-> Reading(T[2], v[2][k])])

\* jsonization<cv::Point> and its like: from a vector of any length.
ReadPoint(size, v) ==
  {[i \in 1..size |-> IF i \in DOMAIN n THEN n[i] ELSE Wild] : n \in Reading(<<"vector", <<"int">> >>, v)}

\* as<T>() and the conversion operators.
Reading(T, v) ==
  CASE T[1] = "value"    -> {v}
    [] T[1] = "struct"   -> ReadClass(T, v)
    [] T[1] = "cv"       -> ReadPoint(T[2], v)
    [] T[1] = "nullable" -> ReadNullable(T[2], v)
    [] T[1] = "enum"     -> ReadEnum(T, v)
    [] T[1] \in {"vector", "fixed"} -> ReadArray(T, v)
    [] T[1] = "set"      -> {Range(n) : n \in ReadArray(T, v)}
    [] T[1] = "tuple"    -> ReadTuple(T, v)
    [] T[1] = "variant"  -> LET i == Alternative(T, v)
                            IN  IF i = 0 THEN {} ELSE {<<i, n>> : n \in Reading(T[2][i], v)}
    [] T[1] = "map"      -> ReadMap(T, v)
    [] OTHER             -> ReadLeaf(T, v)

\* static_cast<T>(std::move(v)): an empty v is converted to the container first. Its
\* members are read by as<>, which copies. What is left in v is not looked at again.
MoveReading(T, v) ==
  CASE T[1] \in {"vector", "set", "fixed", "tuple"} -> Reading(T, As(v, "array"))
    [] T[1] = "map" -> Reading(T, As(v, "object"))
    [] T[1] = "nullable" -> IF v = Null THEN {<<>>} ELSE {<<n>> : n \in MoveReading(T[2], v)}
    [] OTHER -> Reading(T, v)

-----------------------------------------------------------------------------
\* The constructors. An enumerator without a name is refused.

ToLeaf(T, n) == IF T[1] \in Numeric THEN {<<"number", Writes[T[1]][n]>>} ELSE {n}
ToEnum(T, n) == {<<"string", s>> : s \in enum_to_string(T, n)}
ToNullable(T, n) == IF n = <<>> THEN {Null} ELSE To(T, n[1])
ToArray(types, n) == {<<"array", w>> : w \in Each([i \in DOMAIN n |-> To(types[i], n[i])])}
ToMap(T, n) == {<<"object", w>> : w \in Each([k \in DOMAIN n |-> To(T, n[k])])}
ToVariant(types, n) == To(types[n[1]], n[2])

To(T, n) ==
  CASE T[1] = "struct"   -> Dumped(Fields(T[2]), n)
    [] T[1] = "cv"       -> ToArray([i \in DOMAIN n |-> <<"int">>], n)
    [] T[1] = "nullable" -> ToNullable(T[2], n)
    [] T[1] = "enum"     -> ToEnum(T, n)
    [] T[1] \in {"vector", "fixed"} -> ToArray([i \in DOMAIN n |-> T[2]], n)
    [] T[1] = "set"      -> To(<<"vector", T[2]>>, SetToSeq(n))
    [] T[1] = "tuple"    -> ToArray(T[2], n)
    [] T[1] = "variant"  -> ToVariant(T[2], n)
    [] T[1] = "map"      -> ToMap(T[2], n)
    [] OTHER             -> ToLeaf(T, n)

\* T {}
Default(T) ==
  CASE T[1] = "struct"     -> [i \in DOMAIN Fields(T[2]) |-> Default(Fields(T[2])[i].type)]
    [] T[1] \in Numeric \cup {"enum"} -> "0"
    [] T[1] = "fixed"      -> [i \in 1..T[3] |-> Default(T[2])]
    [] T[1] = "cv"         -> [i \in 1..T[2] |-> "0"]
    [] T[1] = "tuple"      -> [i \in DOMAIN T[2] |-> Default(T[2][i])]
    [] T[1] = "variant"    -> <<1, Default(T[2][1])>>
    [] T[1] = "set"        -> {}
    [] T[1] = "value"      -> Null
    [] T[1] = "string"     -> <<"string", "">>
    [] T[1] = "boolean"    -> <<"boolean", "false">>
    [] T[1] \in Containers -> <<T[1], <<>> >>
    [] OTHER               -> <<>>

\* get(path..., fallback). A step of the path is a position in an array or a key.
RECURSIVE Get(_, _, _, _)
ValueOr(T, v, fallback) == IF Is(T, v) THEN Only(Reading(T, v)) ELSE fallback
GetAt(T, members, pos, path, fallback) ==
  IF pos \in DOMAIN members THEN Get(T, members[pos], path, fallback) ELSE fallback
GetKey(T, members, key, path, fallback) ==
  IF key \in DOMAIN members THEN Get(T, members[key], path, fallback) ELSE fallback
Get(T, v, path, fallback) ==
  IF path = <<>> THEN ValueOr(T, v, fallback)
  ELSE LET step1 == Head(path)
       IN  IF v[1] # step1[1] THEN fallback
           ELSE IF v[1] = "array" THEN GetAt(T, v[2], step1[2], Tail(path), fallback)
           ELSE GetKey(T, v[2], step1[2], Tail(path), fallback)

-----------------------------------------------------------------------------
\* Properties.

\* Some native values of a type: numbers that std::to_string writes exactly,
\* enumerators that have a name, containers of none, one or two.
RECURSIVE Natives(_), Unambiguous(_)
Product(sets) == FoldLeft(LAMBDA acc, set : {Append(n, m) : n \in acc, m \in set}, {<<>>}, sets)
Natives(T) ==
  CASE T[1] \in Numeric -> {n \in DOMAIN Writes[T[1]] : Reads[T[1]][Writes[T[1]][n]] = n}
    [] T[1] = "enum"     -> {p[1] : p \in Range(T[2])}
    [] T[1] = "struct"   -> Product([i \in DOMAIN Fields(T[2]) |-> Natives(Fields(T[2])[i].type)])
    [] T[1] = "tuple"    -> Product([i \in DOMAIN T[2] |-> Natives(T[2][i])])
    [] T[1] = "fixed"    -> Product([i \in 1..T[3] |-> Natives(T[2])])
    [] T[1] = "cv"       -> Product([i \in 1..T[2] |-> Natives(<<"int">>)])
    [] T[1] = "vector"   -> {<<>>} \cup Product(<<Natives(T[2])>>) \cup Product(<<Natives(T[2]), Natives(T[2])>>)
    [] T[1] = "nullable" -> {<<>>} \cup {<<n>> : n \in Natives(T[2])}
    [] T[1] = "set"      -> SUBSET Natives(T[2])
    [] T[1] = "variant"  -> UNION {{<<i, n>> : n \in Natives(T[2][i])} : i \in DOMAIN T[2]}
    [] T[1] = "map"      -> [Keys -> Natives(T[2])]
    [] T[1] = "value"    -> Leaves \cup {<<"array", <<Null>> >>}
    [] OTHER             -> {v \in Leaves : v[1] = T[1]} \cup ({T[1]} \cap Containers) \X {<<>>}

\* No alternative of a variant reads what a later one writes, no nullable holds
\* what is written null, the keys of a class differ, and the names of an enum in
\* more than case.
Unambiguous(T) ==
  CASE T[1] = "variant" ->
         /\ \A t \in Range(T[2]) : Unambiguous(t)
         /\ \A i, j \in DOMAIN T[2] : i < j =>
              \A n \in Natives(T[2][j]) : \A v \in To(T[2][j], n) : ~Is(T[2][i], v)
    [] T[1] = "nullable" ->
         Unambiguous(T[2]) /\ \A n \in Natives(T[2]) : Null \notin To(T[2], n)
    [] T[1] = "struct" ->
         /\ IsInjective([i \in DOMAIN Fields(T[2]) |-> Fields(T[2])[i].key])
         /\ \A field \in Range(Fields(T[2])) : Unambiguous(field.type)
    [] T[1] = "enum" -> IsInjective([i \in DOMAIN T[2] |-> Lower[T[2][i][2]]])
    [] T[1] = "tuple" -> \A t \in Range(T[2]) : Unambiguous(t)
    [] T[1] \in {"vector", "set", "fixed", "map"} -> Unambiguous(T[2])
    [] OTHER -> TRUE

\* If is<T>() answers true, as<T>() does not throw and reads nothing behind the
\* end, copying or moving; find and get, which rely on it, give the member that
\* as<> of the whole container has there. If as<T>() does not throw, is<T>() is
\* true, except for cv::Point and its like.
ConversionsAgree ==
  \A x \in Vars, T \in Types :
    LET v == val[x]
        n == Reading(T, v)
    IN  ~spoiled[x] =>
          /\ Is(T, v) => Cardinality(n) = 1 /\ MoveReading(T, v) = n
          /\ Is(T, v) /\ T[1] = "cv" => Wild \notin Range(Only(n))
          /\ n # {} /\ T[1] # "cv" => Is(T, v)
          /\ T[1] = "vector" /\ n # {} => \A i \in DOMAIN v[2] :
               Get(T[2], v, <<<<"array", i>>>>, Wild) = Only(n)[i]
          /\ T[1] = "map" /\ n # {} => \A k \in Keys :
               Get(T[2], v, <<<<"object", k>>>>, Wild) =
                 IF k \in DOMAIN v[2] THEN Only(n)[k] ELSE Wild

\* A native value that is written, and read again, is the same, and a class is so
\* even if it is read into one that held anything else, optional members included;
\* for any type that is unambiguous. Whatever value a type is, it is
\* written in a form that the type reads and writes without change.
RoundTrips ==
  /\ steps = 0 => \A T \in Types : Unambiguous(T) =>
       \A n \in Natives(T) : \E v \in To(T, n) :
         /\ Is(T, v) /\ Reading(T, v) = {n}
         /\ T[1] = "struct" => \A before \in Natives(T) : Load(Fields(T[2]), v, before).members = {n}
  /\ \A x \in Vars, T \in Types :
       ~spoiled[x] /\ Is(T, val[x]) /\ (T[1] = "enum" => Unambiguous(T)) =>
       \A n \in Reading(T, val[x]) : \A v \in To(T, n) :
         Is(T, v) /\ To(T, Only(Reading(T, v))) = {v}
=============================================================================
