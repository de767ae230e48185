------------------------------ MODULE JsonText ------------------------------
(* The texts that meojson's parser reads, and what it makes of the strings   *)
(* and numbers in them (include/meojson/parser/parser_impl.hpp): strings     *)
(* with their escapes, read byte by byte or with packed bytes. The parser    *)
(* keeps no state between calls: it is operators on a text, and the          *)
(* behaviours of this module are texts that grow, to compare with what the   *)
(* grammar says of them. JsonParser adds the documents.                      *)
(*                                                                           *)
(* A text is a sequence of lexemes, each standing for any characters of its  *)
(* kind. Reading text[i] past the end is the code's *_cur at _end.           *)
EXTENDS Integers, Sequences, FiniteSets, SequencesExt

CONSTANTS
  Keys,    \* strings
  Words,   \* and null, booleans and numbers
  Starts,  \* the texts to begin with, for each subject
  step,    \* accel_traits::step: bytes looked at together
  MaxMore  \* bound: lexemes added to a start

VARIABLES
  subject,  \* "document", "string" (from after its quote) or "number"
  text,
  more      \* lexemes that may be added

vars == <<subject, text, more>>

Scalars == Keys \cup Words
Lexemes ==
  [document |-> {"[", "]", "{", "}", ",", ":", "blank", "comment",
                 "stop"}    \* a NUL, or a slash that begins no comment
                \cup Scalars,
   string   |-> {"plain", "quote", "control",
                 "escape", "bad escape", "high", "low", "bmp"},  \* \n, \x, \u....
   number   |-> {"-", "+", "0", "1", ".", "e", ","}]

\* parse_number is called at a first character.
ASSUME ParserAssumption ==
  /\ step \in Nat \ {0} /\ MaxMore \in Nat
  /\ \A s \in DOMAIN Starts : s \in DOMAIN Lexemes /\ Starts[s] \subseteq Seq(Lexemes[s])
  /\ "number" \in DOMAIN Starts => <<>> \notin Starts["number"]

Fail == [ok |-> FALSE]
Ok(value, i) == [ok |-> TRUE, value |-> value, cur |-> i]

\* The first position from i on, or the end, whose lexeme is not in set.
FirstNotIn(set, i) ==
  CHOOSE j \in i..(Len(text) + 1) :
    /\ j <= Len(text) => text[j] \notin set
    /\ \A k \in i..(j - 1) : text[k] \in set

-----------------------------------------------------------------------------
\* Strings. With accel, what is plain is skipped step bytes at a time.

\* _end - _cur.
Bytes(i) ==
  LET Of(kind) == Cardinality({k \in i..Len(text) : text[k] \in kind})
  IN  Of({"plain", "quote", "control"}) + 2 * Of({"escape", "bad escape"})
      + 6 * Of({"high", "low", "bmp"})

\* Mutant: the byte found is skipped as well.
AccelSkip_OneMore(i) ==
  LET plain == FirstNotIn({"plain"}, i) - i
      whole == (Bytes(i) \div step) * step
  IN  IF plain < whole THEN i + plain + 1 ELSE i + whole

\* skip_string_literal_with_accel: to the first byte that is not plain, or to
\* where less than step bytes are left.
AccelSkip(i) ==
  LET plain == FirstNotIn({"plain"}, i) - i
      whole == (Bytes(i) \div step) * step
  IN  IF plain < whole THEN i + plain ELSE i + whole

\* What is read after something was appended to the result.
Behind(before, r) == IF r.ok THEN Ok(before \o r.value, r.cur) ELSE Fail

\* Mutant: a string may end, or go on, after half a pair.
Unescape_Unpaired(rest, i, high) ==
  CASE text[i] = "high"   -> rest[i + 1][TRUE]
    [] text[i] = "low"    -> IF high THEN Behind(<<"pair">>, rest[i + 1][FALSE]) ELSE Fail
    [] text[i] = "bmp"    -> Behind(<<"bmp">>, rest[i + 1][high])
    [] text[i] = "escape" -> IF high THEN Fail ELSE Behind(<<"escape">>, rest[i + 1][FALSE])
    [] OTHER -> Fail

\* The escapes. high is pair_high: a first surrogate waits for the second, ...
Unescape(rest, i, high) ==
  CASE text[i] = "high"   -> IF high THEN Fail ELSE rest[i + 1][TRUE]
    [] text[i] = "low"    -> IF high THEN Behind(<<"pair">>, rest[i + 1][FALSE]) ELSE Fail
    [] text[i] = "bmp"    -> Behind(<<"bmp">>, rest[i + 1][high])
    [] text[i] = "escape" -> IF high THEN Fail ELSE Behind(<<"escape">>, rest[i + 1][FALSE])
    [] OTHER -> Fail

\* ... which plain characters may not come between, if it is they that are
\* looked at; what accel skips is appended unseen. A turn of the loop, with the
\* rest of the loop.
Turn(accel, rest, from, high) ==
  LET i == IF accel THEN AccelSkip(from) ELSE from
  IN  IF i > Len(text) THEN Fail
      ELSE Behind(SubSeq(text, from, i - 1),
                  CASE text[i] = "control" -> Fail
                    [] text[i] = "quote" -> IF high THEN Fail ELSE Ok(<<>>, i + 1)
                    [] text[i] = "plain" -> IF high THEN Fail
                                            ELSE Behind(<<"plain">>, rest[i + 1][FALSE])
                    [] OTHER -> Unescape(rest, i, high))

\* parse_stdstring, after the quote.
ParseString(accel) ==
  LET rest[i \in 1..(Len(text) + 1)] == [high \in BOOLEAN |-> Turn(accel, rest, i, high)]
  IN  rest[1][FALSE]

-----------------------------------------------------------------------------
\* Numbers.

Digits == {"0", "1"}

\* skip_digit: at least one digit, and something after the last.
SkipDigit(i) ==
  LET j == FirstNotIn(Digits, i) IN IF j > i /\ j <= Len(text) THEN Ok(<<>>, j) ELSE Fail

\* Mutant: leading zeroes are let through.
LeadingZero_Allowed(i) == FALSE

LeadingZero(i) == i < Len(text) /\ text[i] = "0" /\ text[i + 1] \in Digits

Fraction(i) == IF text[i] = "." THEN SkipDigit(i + 1) ELSE Ok(<<>>, i)

Exponent(i) ==
  IF text[i] # "e" THEN Ok(<<>>, i)
  ELSE IF i + 1 > Len(text) THEN Fail
  ELSE SkipDigit(IF text[i + 1] \in {"+", "-"} THEN i + 2 ELSE i + 1)

ParseNumber ==
  LET first    == IF text[1] = "-" THEN 2 ELSE 1
      whole    == SkipDigit(first)
      fraction == IF whole.ok THEN Fraction(whole.cur) ELSE Fail
  IN  IF LeadingZero(first) \/ ~fraction.ok THEN Fail ELSE Exponent(fraction.cur)

-----------------------------------------------------------------------------
Init ==
  /\ subject \in DOMAIN Starts
  /\ text \in Starts[subject]
  /\ more = MaxMore

Grow ==
  /\ more > 0
  /\ more' = more - 1
  /\ \E lexeme \in Lexemes[subject] : text' = Append(text, lexeme)
  /\ UNCHANGED subject

Next == Grow

Spec == Init /\ [][Next]_vars

-----------------------------------------------------------------------------
\* The grammar.

After(t, k) == SubSeq(t, k + 1, Len(t))

\* The digits of a number, as the comment and the grammar of JSON have it.
IsDigits(t) == t # <<>> /\ ToSet(t) \subseteq Digits
IsWhole(t) == IsDigits(t) /\ (t[1] = "0" => Len(t) = 1)
IsSigned(t) == IsWhole(t) \/ (t # <<>> /\ Head(t) = "-" /\ IsWhole(Tail(t)))
IsFraction(t) == t = <<>> \/ (Head(t) = "." /\ IsDigits(Tail(t)))
IsExponent(t) ==
  \/ t = <<>>
  \/ Head(t) = "e" /\ \/ IsDigits(Tail(t))
                      \/ Len(t) > 2 /\ t[2] \in {"+", "-"} /\ IsDigits(After(t, 2))
IsNumber(t) ==
  \E i \in 0..Len(t), j \in 0..Len(t) :
    /\ i <= j
    /\ IsSigned(SubSeq(t, 1, i)) /\ IsFraction(SubSeq(t, i + 1, j)) /\ IsExponent(After(t, j))

\* What a string says before its quote, if every escape in it is good.
Literal == SubSeq(text, 1, FirstNotIn(Lexemes.string \ {"quote"}, 1) - 1)
Said(lexeme) ==
  CASE lexeme = "high" -> <<>> [] lexeme = "low" -> <<"pair">> [] OTHER -> <<lexeme>>
Decoded ==
  LET said[k \in 0..Len(Literal)] == IF k = 0 THEN <<>> ELSE said[k - 1] \o Said(text[k])
  IN  said[Len(Literal)]
Together ==
  \A i \in 1..(Len(text) + 1) :
    (i <= Len(text) /\ text[i] = "low") <=> (i > 1 /\ text[i - 1] = "high")

-----------------------------------------------------------------------------
\* Properties.

\* Where the two surrogates of a pair come together, a string is accepted if and
\* only if it is ended and free of control characters and bad escapes, and it is
\* decoded alike, byte by byte or in packs wherever the packs fall.
StringsDecoded ==
  subject = "string" /\ Together =>
    \A accel \in BOOLEAN :
      LET s == ParseString(accel)
          good == Len(Literal) < Len(text) /\ ToSet(Literal) \cap {"control", "bad escape"} = {}
      IN  s.ok = good /\ (good => s.value = Decoded /\ s.cur = Len(Literal) + 2)

\* In any string that is accepted the surrogates alternate, first and second, in
\* packs or not: none is left over, though other characters may come between.
SurrogatesMatched ==
  subject = "string" =>
    \A accel \in BOOLEAN :
      ParseString(accel).ok =>
        LET surrogates == {i \in DOMAIN Literal : text[i] \in {"high", "low"}}
            Follows(j, i) == i < j /\ \A k \in surrogates : k <= i \/ j <= k
        IN  /\ \A i \in surrogates :
                 text[i] = "high" => \E j \in surrogates : Follows(j, i) /\ text[j] = "low"
            /\ \A j \in surrogates :
                 text[j] = "low" => \E i \in surrogates : Follows(j, i) /\ text[i] = "high"

\* What stands before a comma is taken as a number if and only if it is one, "without
\* leading zeroes", and taken whole; nothing is read behind the text.
NumbersParsed ==
  subject = "number" /\ text[1] \in Digits \cup {"-"} =>
    LET n == ParseNumber
        comma == FirstNotIn(Lexemes.number \ {","}, 1)
    IN  /\ n.ok => n.cur <= Len(text)
        /\ comma <= Len(text) => ((n.ok /\ n.cur = comma) <=> IsNumber(SubSeq(text, 1, comma - 1)))
=============================================================================
