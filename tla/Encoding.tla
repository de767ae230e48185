------------------------------ MODULE Encoding ------------------------------
(* to_u16 and from_u16 (source/Encoding/Encoding.cpp): UTF-8 to wchar_t and  *)
(* back, where wchar_t has 16 bits, as on Windows, or 32.                    *)
(*                                                                           *)
(* Strings are sequences of numbers. A reader returns how many units it took *)
(* and the char32_t, as a sequence that is empty if it returned false.       *)
EXTENDS Integers, Sequences, SequencesExt

\* The bits of ch below the one that is worth power, and those from it on.
Low(ch, power) == ch % power
High(ch, power) == ch \div power

char32_to_utf8(ch) ==
  CASE ch <= 127 -> <<ch>>
    [] 128 <= ch /\ ch <= 2047 -> <<192 + Low(High(ch, 64), 32), 128 + Low(ch, 64)>>
    [] 2048 <= ch /\ ch <= 65535 ->
         <<224 + Low(High(ch, 4096), 16), 128 + Low(High(ch, 64), 64), 128 + Low(ch, 64)>>
    [] OTHER -> <<240 + Low(High(ch, 262144), 8), 128 + Low(High(ch, 4096), 64),
                  128 + Low(High(ch, 64), 64), 128 + Low(ch, 64)>>

\* The bytes that follow a leading one, if it is one.
Following(leading) ==
  CASE leading < 128 -> 0
    [] 192 <= leading /\ leading < 224 -> 1
    [] 224 <= leading /\ leading < 240 -> 2
    [] 240 <= leading /\ leading < 248 -> 3
    [] OTHER -> -1

\* Six bits of each byte that follows, whatever it is.
utf8_to_char32(rest) ==
  LET n == Following(rest[1])
      Six(i) == Low(rest[i], 64)
  IN  IF n = -1 \/ n >= Len(rest) THEN [took |-> 1, ch |-> <<>>]
      ELSE [took |-> n + 1,
            ch |-> CASE n = 0 -> <<rest[1]>>
                     [] n = 1 -> <<Low(rest[1], 32) * 64 + Six(2)>>
                     [] n = 2 -> <<Low(rest[1], 16) * 4096 + Six(2) * 64 + Six(3)>>
                     [] n = 3 -> <<Low(rest[1], 16) * 262144 + Six(2) * 4096 + Six(3) * 64 + Six(4)>>]

\* Mutant: < in place of <=.
char32_to_wchar_Early(bits, ch) ==
  IF bits = 32 \/ ch < 65535 THEN <<ch>>
  ELSE LET delta == Low(ch - 65536, 1048576)
       IN  <<55296 + High(delta, 1024), 56320 + Low(delta, 1024)>>

char32_to_wchar(bits, ch) ==
  IF bits = 32 \/ ch <= 65535 THEN <<ch>>
  ELSE LET delta == Low(ch - 65536, 1048576)
       IN  <<55296 + High(delta, 1024), 56320 + Low(delta, 1024)>>

IsHigh(unit) == High(unit, 1024) = 54
IsLow(unit)  == High(unit, 1024) = 55

wchar_to_char32(bits, rest) ==
  IF bits = 32 \/ ~(IsHigh(rest[1]) \/ IsLow(rest[1])) THEN [took |-> 1, ch |-> <<rest[1]>>]
  ELSE IF IsLow(rest[1]) \/ Len(rest) = 1 THEN [took |-> 1, ch |-> <<>>]
  ELSE [took |-> 2,
        ch |-> IF IsLow(rest[2])
               THEN <<Low(rest[1], 1024) * 1024 + Low(rest[2], 1024) + 65536>> ELSE <<>>]

\* What is written for what the reader returned.
ToWide(bits, r) == IF r.ch = <<>> THEN <<>> ELSE char32_to_wchar(bits, r.ch[1])
ToBytes(r)      == IF r.ch = <<>> THEN <<>> ELSE char32_to_utf8(r.ch[1])

\* Each from its place i on.
to_u16(bits, u8str) ==
  LET from[i \in 1..(Len(u8str) + 1)] ==
        IF i > Len(u8str) THEN <<>>
        ELSE LET r == utf8_to_char32(SubSeq(u8str, i, Len(u8str)))
             IN  ToWide(bits, r) \o from[i + r.took]
  IN  from[1]

from_u16(bits, u16str) ==
  LET from[i \in 1..(Len(u16str) + 1)] ==
        IF i > Len(u16str) THEN <<>>
        ELSE LET r == wchar_to_char32(bits, SubSeq(u16str, i, Len(u16str)))
             IN  ToBytes(r) \o from[i + r.took]
  IN  from[1]

-----------------------------------------------------------------------------
\* The Unicode standard: the one sequence, of the fewest units, that has the scalar
\* value c.

\* A sequence of n bytes carries c as digits to the base 64, below a mark.
Bytes(c) ==
  CASE c < 128 -> 1 [] 128 <= c /\ c < 2048 -> 2 [] 2048 <= c /\ c < 65536 -> 3 [] OTHER -> 4
Utf8(c) ==
  LET n     == Bytes(c)
      mark  == <<0, 192, 224, 240>>
      power == <<1, 64, 4096, 262144>>
  IN  [i \in 1..n |-> (IF i = 1 THEN mark[n] ELSE 128)
                      + ((c \div power[n - i + 1]) % (IF i = 1 THEN 128 ELSE 64))]

Wide(bits, c) ==
  IF bits = 32 \/ c < 65536 THEN <<c>>
  ELSE <<55296 + ((c - 65536) \div 1024), 56320 + ((c - 65536) % 1024)>>

\* A text of scalar values, with noise: bytes that belong to no character may come
\* between them, and part of one at the end.
Noise == {<<>>, <<128>>, <<191, 255>>}
Parts == {<<>>, <<194>>, <<224, 160>>, <<240, 144, 128>>}

\* Whatever is before it, between it or cut off behind it, the text is converted to
\* what the standard says of it, for either wchar_t, and from it back to itself; half
\* a surrogate pair at its end is dropped.
InvertEachOther(text, noise, part) ==
  \A bits \in {16, 32} :
    LET utf8 == FlattenSeq([i \in DOMAIN text |-> Utf8(text[i])])
        wide == FlattenSeq([i \in DOMAIN text |-> Wide(bits, text[i])])
    IN  /\ to_u16(bits, FlattenSeq([i \in DOMAIN text |-> noise \o Utf8(text[i])]) \o noise \o part) = wide
        /\ from_u16(bits, wide) = utf8
        /\ bits = 16 => from_u16(bits, wide \o <<55296>>) = utf8
=============================================================================
