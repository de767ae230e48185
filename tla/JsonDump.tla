------------------------------- MODULE JsonDump -------------------------------
(* What dumps and format write of a value (include/meojson/common), for the  *)
(* parser to read: the text as a sequence of lexemes, and the escapes of a   *)
(* string as bytes.                                                          *)
EXTENDS JsonValue

\* append_escaped_string, of bytes, and what parse_stdstring makes of such a string:
\* the set of its results. Of \\uXXXX only those below 0080 are written.

EscapeLetter == 34 :> 34 @@ 92 :> 92 @@ 8 :> 98 @@ 12 :> 102 @@ 10 :> 110 @@ 13 :> 114 @@ 9 :> 116
hex_digit(n) == IF n < 10 THEN 48 + n ELSE 97 + n - 10

Escaped(ch) ==
  IF ch \in DOMAIN EscapeLetter THEN <<92, EscapeLetter[ch]>>
  ELSE IF ch < 32 THEN <<92, 117, 48, 48, hex_digit(ch \div 16), hex_digit(ch % 16)>>
  ELSE <<ch>>

RECURSIVE Unescaped(_)
Unescaped(rest) ==
  LET Then(ch, n) == {<<ch>> \o s : s \in Unescaped(SubSeq(rest, n + 1, Len(rest)))}
      Hex(ch) == CHOOSE n \in 0..15 : hex_digit(n) = ch
  IN  CASE rest = <<>> -> {}
        [] rest = <<34>> -> {<<>>}
        [] rest # <<>> /\ rest[1] \notin {34, 92} -> IF rest[1] < 32 THEN {} ELSE Then(rest[1], 1)
        [] Len(rest) > 1 /\ rest[1] = 92 /\ rest[2] = 117 -> Then(Hex(rest[5]) * 16 + Hex(rest[6]), 6)
        [] Len(rest) > 1 /\ rest[1] = 92 /\ rest[2] \in Range(EscapeLetter) ->
             Then(CHOOSE ch \in DOMAIN EscapeLetter : EscapeLetter[ch] = rest[2], 2)
        [] OTHER -> {}

\* dumps. Strings stand for themselves, as a lexeme each.

\* Mutant: a comma after every member.
Comma_Last(texts) == FoldLeft(LAMBDA t, s : t \o s \o <<",">>, <<>>, texts)

Comma(texts) == FoldLeft(LAMBDA t, s : IF t = <<>> THEN s ELSE t \o <<",">> \o s, <<>>, texts)

RECURSIVE Dump(_, _)

\* dump_to, and format_to if blanks are put between.
DumpArray(x, blank) ==
  <<"[">> \o blank \o Comma([i \in DOMAIN x[2] |-> blank \o Dump(x[2][i], blank)])
  \o blank \o <<"]">>

DumpObject(x, blank) ==
  LET keys == SetToSeq(DOMAIN x[2])
  IN  <<"{">> \o blank
      \o Comma([i \in DOMAIN keys |->
                  blank \o <<keys[i], ":">> \o blank \o Dump(x[2][keys[i]], blank)])
      \o blank \o <<"}">>

Dump(x, blank) ==
  CASE x = Null -> <<"null">>
    [] x[1] = "array" -> DumpArray(x, blank)
    [] x[1] = "object" -> DumpObject(x, blank)
    [] OTHER -> <<x[2]>>

-----------------------------------------------------------------------------
\* Properties.

\* Reads what dumps wrote. A leaf is one lexeme.
Strings == Keys \cup {x[2] : x \in {x \in Leaves : x[1] = "string"}}
Reader(text) ==
  INSTANCE JsonParser WITH
    Keys <- Strings, Words <- {Dump(x, <<>>)[1] : x \in Leaves} \ Strings,
    Starts <- <<>>, step <- 1, MaxMore <- 0,
    subject <- "document", more <- 0

RECURSIVE Meant(_)
Meant(x) ==
  IF x[1] \in Containers THEN <<x[1], [k \in DOMAIN x[2] |-> Meant(x[2][k])]>> ELSE Dump(x, <<>>)

\* Whatever operations built an array or an object, the parser reads it back from
\* what dumps wrote, with indentation or without, as JSON and as JSONC; and it
\* reads every byte of a string.
DumpParses ==
  /\ steps = 0 => \A ch \in 0..255, next \in {34, 92, 48, 117} :
       Unescaped(Escaped(ch) \o Escaped(next) \o <<34>>) = {<<ch, next>>}
  /\ \A x \in Vars, blank \in {<<>>, <<"blank">>}, c \in BOOLEAN :
       ~spoiled[x] /\ val[x][1] \in Containers =>
         Reader(Dump(val[x], blank))!Parsed(c) = {Meant(val[x])}
=============================================================================
