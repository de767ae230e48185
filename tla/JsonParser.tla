----------------------------- MODULE JsonParser -----------------------------
(* The parser of meojson (include/meojson/parser/parser_impl.hpp): the       *)
(* structure of documents in JSON and in JSONC, against a grammar to compare *)
(* with.                                                                     *)
EXTENDS JsonText

\* A scalar is told from the rest by its first character.
ASSUME ScalarsDiffer ==
  Scalars \cap {"[", "]", "{", "}", ",", ":", "blank", "comment", "stop"} = {}

-----------------------------------------------------------------------------
\* Documents. accept_jsonc is c.

\* What skip_whitespace skips, and what it stops at as at the end.
Blank(c) == IF c THEN {"blank", "comment"} ELSE {"blank"}
Stop(c)  == IF c THEN {"stop"} ELSE {"stop", "comment"}

\* Where skip_whitespace stops, and what it returns.
Skip(i, c) == FirstNotIn(Blank(c), i)
More(i, c) == LET j == Skip(i, c) IN j <= Len(text) /\ text[j] \notin Stop(c)

\* What the three loops of the descent read depends on the rest of the text:
\* rest[i]["value"] is the value at i, rest[i]["elements"] and rest[i]["members"]
\* what follows the bracket or comma at i. keys are those the object has by then.

\* Where a loop has stopped, as skip_whitespace does when it is called again.
Close(i, bracket, value) == IF text[i] = bracket THEN Ok(value, i + 1) ELSE Fail

\* Mutant: a comma may come before the bracket in JSON, too.
Elements_Trailing(rest, i, c) ==
  LET j == Skip(i + 1, c)
      v == rest[j]["value"][{}]
      k == Skip(v.cur, c)
  IN  IF ~More(i + 1, c) THEN Fail
      ELSE IF text[j] = "]" THEN Ok(<<>>, j + 1)
      ELSE IF ~v.ok THEN Fail
      ELSE IF ~More(v.cur, c) THEN Fail
      ELSE IF text[k] = "," THEN Behind(<<v.value>>, rest[k]["elements"][{}])
      ELSE Close(k, "]", <<v.value>>)

\* The loop of parse_array, and its end.
Elements(rest, i, c) ==
  LET j == Skip(i + 1, c)
      v == rest[j]["value"][{}]
      k == Skip(v.cur, c)
  IN  IF ~More(i + 1, c) THEN Fail
      ELSE IF c /\ text[j] = "]" THEN Ok(<<>>, j + 1)
      ELSE IF ~v.ok THEN Fail
      ELSE IF ~More(v.cur, c) THEN Fail
      ELSE IF text[k] = "," THEN Behind(<<v.value>>, rest[k]["elements"][{}])
      ELSE Close(k, "]", <<v.value>>)

Typed(type, r) == IF r.ok THEN Ok(<<type, r.value>>, r.cur) ELSE Fail

ParseArray(rest, i, c) ==
  IF ~More(i + 1, c) THEN Fail
  ELSE LET j == Skip(i + 1, c)
       IN  IF text[j] = "]" THEN Ok(<<"array", <<>> >>, j + 1)
           ELSE Typed("array", Elements(rest, i, c))

With(f, key, value) == [k \in DOMAIN f \cup {key} |-> IF k = key THEN value ELSE f[k]]
Joined(key, value, r) == IF r.ok THEN Ok(With(r.value, key, value), r.cur) ELSE Fail

\* The loop of parse_object, and its end. A key may not come twice.
Members(rest, i, keys, c) ==
  LET j == Skip(i + 1, c)
      k == Skip(j + 1, c)
      v == rest[Skip(k + 1, c)]["value"][{}]
      n == Skip(v.cur, c)
  IN  IF ~More(i + 1, c) THEN Fail
      ELSE IF c /\ text[j] = "}" THEN Ok(<<>>, j + 1)
      ELSE IF ~(text[j] \in Keys /\ More(j + 1, c)) THEN Fail
      ELSE IF ~(text[k] = ":" /\ More(k + 1, c)) THEN Fail
      ELSE IF ~v.ok THEN Fail
      ELSE IF ~More(v.cur, c) \/ text[j] \in keys THEN Fail
      ELSE IF text[n] = "," THEN Joined(text[j], v.value, rest[n]["members"][keys \cup {text[j]}])
      ELSE Close(n, "}", With(<<>>, text[j], v.value))

ParseObject(rest, i, c) ==
  IF ~More(i + 1, c) THEN Fail
  ELSE LET j == Skip(i + 1, c)
       IN  IF text[j] = "}" THEN Ok(<<"object", <<>> >>, j + 1)
           ELSE Typed("object", Members(rest, i, {}, c))

ParseValue(rest, i, c) ==
  CASE text[i] \in Scalars -> Ok(<<text[i]>>, i + 1)
    [] text[i] = "[" -> ParseArray(rest, i, c)
    [] text[i] = "{" -> ParseObject(rest, i, c)
    [] OTHER -> Fail

Descend(rest, i, loop, keys, c) ==
  CASE loop = "value"    -> ParseValue(rest, i, c)
    [] loop = "elements" -> Elements(rest, i, c)
    [] loop = "members"  -> Members(rest, i, keys, c)

ValueAt(i, c) ==
  LET rest[k \in 1..Len(text)] ==
        [loop \in {"value", "elements", "members"} |->
           [keys \in SUBSET Keys |-> Descend(rest, k, loop, keys, c)]]
  IN  rest[i]["value"][{}]

\* parse(): an array or an object, and nothing behind it. The values it returns.
Parsed(c) ==
  IF ~More(1, c) THEN {}
  ELSE LET i == Skip(1, c)
           v == ValueAt(i, c)
       IN  IF text[i] \notin {"[", "{"} \/ ~v.ok THEN {}
           ELSE IF More(v.cur, c) THEN {} ELSE {v.value}

-----------------------------------------------------------------------------
\* The grammars: the set of what u may mean from its a-th lexeme to its b-th, as a
\* value, as a list or as a map, empty if it means nothing. within[a][b] is what
\* shorter stretches mean.

\* One scalar, or brackets around nothing, a list or a map.
Values(u, within, a, b) ==
  LET Inside(kind) == IF a + 1 = b THEN {<<>>} ELSE within[a + 1][b - 1][kind]
  IN  CASE a = b -> {<<x>> : x \in {u[a]} \cap Scalars}
        [] a < b /\ u[a] = "[" /\ u[b] = "]" -> {<<"array", l>> : l \in Inside("list")}
        [] a < b /\ u[a] = "{" /\ u[b] = "}" -> {<<"object", f>> : f \in Inside("map")}
        [] OTHER -> {}

\* What may follow a comma: in JSONC, perhaps nothing.
AfterComma(within, a, b, kind, c) ==
  within[a][b][kind] \cup IF c /\ a > b THEN {<<>>} ELSE {}

Commas(u, a, b) == {k \in a..b : u[k] = ","}

\* One value or more, with commas between.
Lists(u, within, a, b, c) ==
  {<<v>> : v \in Values(u, within, a, b)} \cup
  UNION {{Cons(v, l) : v \in within[a][k - 1]["value"],
                       l \in AfterComma(within, k + 1, b, "list", c)} : k \in Commas(u, a, b)}

\* Likewise for members, whose keys differ.
Maps(u, within, a, b, c) ==
  IF ~(a + 2 <= b /\ u[a] \in Keys /\ u[a + 1] = ":") THEN {}
  ELSE {With(<<>>, u[a], v) : v \in within[a + 2][b]["value"]} \cup
       UNION {{With(f, u[a], v) :
                 v \in within[a + 2][k - 1]["value"],
                 f \in {f \in AfterComma(within, k + 1, b, "map", c) : u[a] \notin DOMAIN f}} :
              k \in Commas(u, a + 2, b)}

Denotes(u, within, a, b, kind, c) ==
  CASE kind = "value" -> Values(u, within, a, b)
    [] kind = "list"  -> Lists(u, within, a, b, c)
    [] kind = "map"   -> Maps(u, within, a, b, c)

Means(u, c) ==
  LET within[a \in 1..(Len(u) + 1)] ==
        [b \in 0..Len(u) |->
           [kind \in {"value", "list", "map"} |-> Denotes(u, within, a, b, kind, c)]]
  IN  within[1][Len(u)]["value"]

\* Blanks, and in JSONC comments, mean nothing; a document is no scalar.
Spoken(t, c) ==
  LET said[k \in 0..Len(t)] ==
        IF k = 0 THEN <<>>
        ELSE IF t[k] \in Blank(c) THEN said[k - 1] ELSE Append(said[k - 1], t[k])
  IN  said[Len(t)]
Document(t, c) == LET u == Spoken(t, c) IN IF Len(u) < 2 THEN {} ELSE Means(u, c)

-----------------------------------------------------------------------------
\* Properties.

\* What comes before a NUL, a stray slash or, in JSON, a comment.
UpToStop(c) == SubSeq(text, 1, FirstNotIn(Lexemes.document \ Stop(c), 1) - 1)

\* The JSON parser accepts what the grammar of JSON does, up to a NUL or a slash,
\* and returns the value it means; over nesting, blanks, commas and equal keys.
\* And so does the JSONC parser, with comments and commas at the end.
DocumentsParsed ==
  subject = "document" => \A c \in BOOLEAN : Parsed(c) = Document(UpToStop(c), c)

\* "After the parsing is complete, there should be no more content other than
\* spaces behind."
NothingBehind == subject = "document" /\ Parsed(FALSE) # {} => Document(text, FALSE) # {}
=============================================================================
