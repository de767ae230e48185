--------------------------- MODULE JsonTextProofs ---------------------------
(* Proofs about JsonText and JsonParser: numbers, strings and documents are  *)
(* read as the grammar has them, and surrogates are matched, in texts of any *)
(* length.                                                                   *)
EXTENDS JsonParser, WellFoundedInduction, SequenceTheorems, FiniteSetTheorems, TLAPS

-----------------------------------------------------------------------------
\* Texts.

Written ==
  /\ subject \in DOMAIN Lexemes /\ text \in Seq(Lexemes[subject])
  /\ more \in Int
  /\ subject = "number" => text # <<>>

LEMMA WrittenInit == Init => Written
<1>. SUFFICES ASSUME Init PROVE Written  OBVIOUS
<1>1. subject \in DOMAIN Starts /\ text \in Starts[subject] /\ more = MaxMore  BY DEF Init
<1>2. subject \in DOMAIN Lexemes /\ text \in Seq(Lexemes[subject])  BY <1>1, ParserAssumption
<1>3. subject = "number" => text # <<>>  BY <1>1, ParserAssumption
<1>. QED  BY <1>1, <1>2, <1>3, ParserAssumption DEF Written

LEMMA WrittenNext == Written /\ [Next]_vars => Written'
<1>. SUFFICES ASSUME Written, [Next]_vars PROVE Written'  OBVIOUS
<1>1. CASE Grow
  <2>1. PICK lexeme \in Lexemes[subject] : text' = Append(text, lexeme)  BY <1>1 DEF Grow
  <2>2. text' \in Seq(Lexemes[subject]) /\ text' # <<>>  BY <2>1, AppendProperties DEF Written
  <2>3. subject' = subject /\ more' \in Int  BY <1>1 DEF Grow, Written
  <2>. QED  BY <2>2, <2>3 DEF Written
<1>2. CASE UNCHANGED vars  BY <1>2 DEF vars, Written
<1>. QED  BY <1>1, <1>2 DEF Next

LEMMA WrittenAlways == Spec => []Written
  BY WrittenInit, WrittenNext, PTL DEF Spec

\* A set of naturals has a least.
LEMMA LeastOf ==
  ASSUME NEW S \in SUBSET Nat, S # {}
  PROVE  \E i \in S : \A j \in S : i <= j
<1>1. PICK i \in S : \A j \in S : ~ (<<j, i>> \in OpToRel(<, Nat))
  BY NatLessThanWellFounded, WFMin
<1>2. \A j \in S : ~ (j < i)  BY <1>1 DEF OpToRel
<1>. QED  BY <1>2

\* Induction from the end of an interval.
LEMMA Backwards ==
  ASSUME NEW n \in Nat, NEW S, \A k \in 1..n : (\A j \in (k + 1)..n : j \in S) => k \in S
  PROVE  \A k \in 1..n : k \in S
<1>. DEFINE none == {m \in 0..n : m < n /\ n - m \notin S}
<1>1. ASSUME NEW m \in none, \A l \in none : m <= l PROVE FALSE
  <2>1. m \in 0..n /\ m < n /\ n - m \notin S /\ n - m \in 1..n  BY <1>1
  <2>2. ASSUME NEW j \in (n - m + 1)..n PROVE j \in S
    <3>1. n - j \in 0..n /\ n - j < n /\ ~(m <= n - j) /\ n - (n - j) = j  BY <2>1, <2>2
    <3>. QED  BY <1>1, <3>1
  <2>. QED  BY <2>1, <2>2
<1>2. none \in SUBSET Nat  OBVIOUS
<1>. HIDE DEF none
<1>3. none = {}  BY <1>1, <1>2, LeastOf
<1>4. ASSUME NEW k \in 1..n PROVE k \in S
  <2>1. n - k \in 0..n /\ n - k < n /\ n - (n - k) = k  OBVIOUS
  <2>. QED  BY <1>3, <2>1 DEF none
<1>. QED  BY <1>4

\* What FirstNotIn finds, ...
LEMMA FirstIs ==
  ASSUME NEW C, text \in Seq(C), NEW set, NEW i \in 1..(Len(text) + 1)
  PROVE  /\ FirstNotIn(set, i) \in i..(Len(text) + 1)
         /\ FirstNotIn(set, i) <= Len(text) => text[FirstNotIn(set, i)] \notin set
         /\ \A k \in i..(FirstNotIn(set, i) - 1) : text[k] \in set
<1>. DEFINE Out == {j \in i..(Len(text) + 1) : j <= Len(text) => text[j] \notin set}
<1>0. Len(text) \in Nat  OBVIOUS
<1>1. Len(text) + 1 \in Out /\ Out \in SUBSET Nat  BY <1>0
<1>2. PICK j \in Out : \A k \in Out : j <= k  BY <1>1, LeastOf
<1>3. \A k \in i..(j - 1) : text[k] \in set  BY <1>0, <1>2
<1>4. \E n \in i..(Len(text) + 1) :
        /\ n <= Len(text) => text[n] \notin set
        /\ \A k \in i..(n - 1) : text[k] \in set
  BY <1>2, <1>3
<1>. QED  BY <1>4 DEF FirstNotIn

\* ... and there is only one such.
LEMMA FirstAt ==
  ASSUME NEW C, text \in Seq(C), NEW set, NEW i \in 1..(Len(text) + 1),
         NEW j \in i..(Len(text) + 1), j <= Len(text) => text[j] \notin set,
         \A k \in i..(j - 1) : text[k] \in set
  PROVE  FirstNotIn(set, i) = j
<1>. DEFINE n == FirstNotIn(set, i)
<1>0. Len(text) \in Nat  OBVIOUS
<1>1. /\ n \in i..(Len(text) + 1) /\ (n <= Len(text) => text[n] \notin set)
      /\ \A k \in i..(n - 1) : text[k] \in set
  BY FirstIs
<1>. HIDE DEF n
<1>2. ~(n < j)  BY <1>0, <1>1
<1>3. ~(j < n)  BY <1>0, <1>1
<1>. QED  BY <1>0, <1>1, <1>2, <1>3 DEF n

-----------------------------------------------------------------------------
\* Numbers, by their places in the text.

DigitsAt(a, b) == a <= b /\ \A k \in a..b : text[k] \in Digits

\* s is what text has from a to b.
Part(s, a, b) ==
  /\ a \in Nat \ {0} /\ b \in Nat /\ a <= b + 1
  /\ s \in Seq(Lexemes.number) /\ Len(s) = b - a + 1
  /\ \A k \in 1..Len(s) : s[k] = text[a + k - 1]

LEMMA PartOf ==
  ASSUME NEW s, NEW a, NEW b, Part(s, a, b), NEW i \in 1..(Len(s) + 1), NEW j \in 0..Len(s), i <= j + 1
  PROVE  Part(SubSeq(s, i, j), a + i - 1, a + j - 1)
<1>. DEFINE r == SubSeq(s, i, j)
<1>1. /\ a \in Nat \ {0} /\ b \in Nat /\ a <= b + 1 /\ Len(s) \in Nat
      /\ s \in Seq(Lexemes.number) /\ Len(s) = b - a + 1
      /\ \A k \in 1..Len(s) : s[k] = text[a + k - 1]
  BY DEF Part
<1>2. r \in Seq(Lexemes.number) /\ Len(r) = j - i + 1 /\ \A k \in 1..Len(r) : r[k] = s[i + k - 1]
  <2>1. i \in 1..(Len(s) + 1) /\ j \in 0..Len(s) /\ i \in Int /\ j \in Int  BY <1>1
  <2>2. SubSeq(s, i, j) \in Seq(Lexemes.number) /\ Len(SubSeq(s, i, j)) = (IF i <= j THEN j - i + 1 ELSE 0)
        /\ \A k \in 1..(j - i + 1) : SubSeq(s, i, j)[k] = s[i + k - 1]
    <3>1. \A k \in i..j : s[k] \in Lexemes.number  BY <1>1, <2>1
    <3>. DEFINE S == Lexemes.number
    <3>2. \A k \in i..j : s[k] \in S  BY <3>1
    <3>3. i \in Int /\ j \in Int  BY <2>1
    <3>. HIDE DEF r, S
    <3>4. /\ SubSeq(s, i, j) \in Seq(S) /\ Len(SubSeq(s, i, j)) = (IF i <= j THEN j - i + 1 ELSE 0)
          /\ \A k \in 1..(j - i + 1) : SubSeq(s, i, j)[k] = s[i + k - 1]
      BY <3>2, <3>3, SubSeqProperties
    <3>. QED  BY <3>4 DEF S
  <2>3. Len(r) = j - i + 1  BY <2>1, <2>2
  <2>. QED  BY <2>2, <2>3
<1>. HIDE DEF r
<1>3. \A k \in 1..Len(r) : r[k] = text[a + i - 1 + k - 1]
  <2>. TAKE k \in 1..Len(r)
  <2>1. i + k - 1 \in 1..Len(s)  BY <1>1, <1>2
  <2>2. a + (i + k - 1) - 1 = a + i - 1 + k - 1  BY <1>1, <1>2
  <2>. QED  BY <1>1, <1>2, <2>1, <2>2
<1>. QED  BY <1>1, <1>2, <1>3 DEF Part, r

LEMMA PartHead ==
  ASSUME NEW s, NEW a, NEW b, Part(s, a, b)
  PROVE  /\ s = <<>> <=> b = a - 1
         /\ a <= b => Head(s) = text[a] /\ s[1] = text[a] /\ Part(Tail(s), a + 1, b)
<1>1. /\ a \in Nat \ {0} /\ b \in Nat /\ a <= b + 1 /\ Len(s) \in Nat
      /\ s \in Seq(Lexemes.number) /\ Len(s) = b - a + 1
      /\ \A k \in 1..Len(s) : s[k] = text[a + k - 1]
  BY DEF Part
<1>2. s = <<>> <=> b = a - 1  BY <1>1, EmptySeq
<1>3. ASSUME a <= b PROVE Head(s) = text[a] /\ s[1] = text[a] /\ Part(Tail(s), a + 1, b)
  <2>1. 1 \in 1..Len(s) /\ s # <<>>  BY <1>1, <1>2, <1>3
  <2>2. Tail(s) \in Seq(Lexemes.number) /\ Len(Tail(s)) = Len(s) - 1 /\ Head(s) = s[1]
        /\ \A k \in 1..Len(Tail(s)) : Tail(s)[k] = s[k + 1]
    BY <1>1, <2>1, HeadTailProperties
  <2>3. \A k \in 1..Len(Tail(s)) : Tail(s)[k] = text[a + 1 + k - 1]
    <3>. TAKE k \in 1..Len(Tail(s))
    <3>1. k + 1 \in 1..Len(s) /\ a + (k + 1) - 1 = a + 1 + k - 1  BY <1>1, <2>2
    <3>. QED  BY <1>1, <2>2, <3>1
  <2>4. s[1] = text[a]  BY <1>1, <2>1
  <2>. QED  BY <1>1, <1>3, <2>2, <2>3, <2>4 DEF Part
<1>. QED  BY <1>2, <1>3

LEMMA PartDigits ==
  ASSUME NEW s, NEW a, NEW b, Part(s, a, b)
  PROVE  IsDigits(s) <=> DigitsAt(a, b)
<1>1. /\ a \in Nat \ {0} /\ b \in Nat /\ a <= b + 1 /\ Len(s) \in Nat
      /\ s \in Seq(Lexemes.number) /\ Len(s) = b - a + 1
      /\ \A k \in 1..Len(s) : s[k] = text[a + k - 1]
  BY DEF Part
<1>2. s # <<>> <=> a <= b  BY <1>1, EmptySeq
<1>3. ToSet(s) = {s[k] : k \in 1..Len(s)}  BY <1>1 DEF ToSet
<1>4. ASSUME \A k \in a..b : text[k] \in Digits PROVE ToSet(s) \subseteq Digits
  <2>1. \A k \in 1..Len(s) : a + k - 1 \in a..b  BY <1>1
  <2>. QED  BY <1>1, <1>3, <1>4, <2>1
<1>5. ASSUME ToSet(s) \subseteq Digits, NEW k \in a..b PROVE text[k] \in Digits
  <2>1. k - a + 1 \in 1..Len(s) /\ a + (k - a + 1) - 1 = k  BY <1>1
  <2>2. s[k - a + 1] = text[k]  BY <1>1, <2>1
  <2>. QED  BY <1>3, <1>5, <2>1, <2>2
<1>. QED  BY <1>2, <1>4, <1>5 DEF IsDigits, DigitsAt


LEMMA PartSubSeq ==
  ASSUME text \in Seq(Lexemes.number), NEW a \in 1..(Len(text) + 1), NEW b \in 0..Len(text), a <= b + 1
  PROVE  Part(SubSeq(text, a, b), a, b)
<1>1. Len(text) \in Nat  OBVIOUS
<1>2. Part(text, 1, Len(text))  BY <1>1 DEF Part
<1>3. 1 + a - 1 = a /\ 1 + b - 1 = b  BY <1>1
<1>. QED  BY <1>2, <1>3, PartOf

\* The parts of a number, of those places.

First == IF text[1] = "-" THEN 2 ELSE 1

SignedTo(i) == DigitsAt(First, i) /\ (text[First] = "0" => i = First)
FractionTo(i, j) == j = i \/ (i < j /\ text[i + 1] = "." /\ DigitsAt(i + 2, j))
ExponentTo(j, n) ==
  \/ j = n
  \/ j < n /\ text[j + 1] = "e"
     /\ \/ DigitsAt(j + 2, n)
        \/ n - j > 2 /\ text[j + 2] \in {"+", "-"} /\ DigitsAt(j + 3, n)

LEMMA SignedIs ==
  ASSUME NEW s, NEW i, Part(s, 1, i)
  PROVE  IsSigned(s) <=> SignedTo(i)
<1>1. i \in Nat  BY DEF Part
<1>2. "-" \notin Digits  BY DEF Digits
<1>3. ASSUME NEW r, NEW a, Part(r, a, i)
      PROVE  IsWhole(r) <=> DigitsAt(a, i) /\ (text[a] = "0" => i = a)
  <2>1. IsDigits(r) <=> DigitsAt(a, i)  BY <1>3, PartDigits
  <2>2. a \in Nat /\ Len(r) = i - a + 1  BY <1>3 DEF Part
  <2>3. DigitsAt(a, i) => r[1] = text[a]  BY <1>3, PartHead DEF DigitsAt
  <2>4. Len(r) = 1 <=> i = a  BY <1>1, <2>2
  <2>. QED  BY <2>1, <2>3, <2>4 DEF IsWhole
<1>4. CASE 1 <= i /\ text[1] = "-"
  <2>1. s # <<>> /\ Head(s) = "-" /\ Part(Tail(s), 2, i)
    <3>1. i # 1 - 1  BY <1>1, <1>4
    <3>2. s # <<>> /\ Head(s) = "-" /\ Part(Tail(s), 1 + 1, i)  BY <1>4, <3>1, PartHead
    <3>3. 1 + 1 = 2  OBVIOUS
    <3>. QED  BY <3>2, <3>3
  <2>2. IsWhole(Tail(s)) <=> DigitsAt(2, i) /\ (text[2] = "0" => i = 2)  BY <1>3, <2>1
  <2>3. ~DigitsAt(1, i)  BY <1>1, <1>2, <1>4 DEF DigitsAt
  <2>4. ~IsWhole(s)  BY <1>3, <2>3
  <2>. QED  BY <1>4, <2>1, <2>2, <2>4 DEF IsSigned, SignedTo, First
<1>5. CASE 1 <= i /\ text[1] # "-"
  <2>1. s # <<>> /\ Head(s) # "-"
    <3>1. i # 1 - 1  BY <1>1, <1>5
    <3>. QED  BY <1>5, <3>1, PartHead
  <2>2. IsWhole(s) <=> DigitsAt(1, i) /\ (text[1] = "0" => i = 1)  BY <1>3
  <2>. QED  BY <1>5, <2>1, <2>2 DEF IsSigned, SignedTo, First
<1>6. CASE ~(1 <= i)
  <2>0. i = 1 - 1  BY <1>1, <1>6
  <2>1. s = <<>>  BY <2>0, PartHead
  <2>2. ~IsSigned(s)  BY <2>1 DEF IsSigned, IsWhole, IsDigits
  <2>3. First \in {1, 2}  BY DEF First
  <2>. QED  BY <1>1, <1>6, <2>2, <2>3 DEF SignedTo, DigitsAt
<1>. QED  BY <1>4, <1>5, <1>6

LEMMA FractionIs ==
  ASSUME NEW s, NEW i \in Nat, NEW j, Part(s, i + 1, j)
  PROVE  IsFraction(s) <=> FractionTo(i, j)
<1>1. j \in Nat /\ i <= j /\ (s = <<>> <=> j = i)
  <2>1. j \in Nat /\ i + 1 <= j + 1  BY DEF Part
  <2>2. s = <<>> <=> j = (i + 1) - 1  BY PartHead
  <2>. QED  BY <2>1, <2>2
<1>2. ASSUME i < j
      PROVE  Head(s) = text[i + 1] /\ (IsDigits(Tail(s)) <=> DigitsAt(i + 2, j))
  <2>0. i + 1 <= j  BY <1>1, <1>2
  <2>1. Head(s) = text[i + 1] /\ Part(Tail(s), i + 1 + 1, j)  BY <2>0, PartHead
  <2>2. i + 1 + 1 = i + 2  OBVIOUS
  <2>. QED  BY <2>1, <2>2, PartDigits
<1>. QED  BY <1>1, <1>2 DEF IsFraction, FractionTo

LEMMA ExponentIs ==
  ASSUME NEW s, NEW j \in Nat, NEW n, Part(s, j + 1, n)
  PROVE  IsExponent(s) <=> ExponentTo(j, n)
<1>1. n \in Nat /\ j <= n /\ (s = <<>> <=> n = j) /\ Len(s) = n - j
  <2>1. n \in Nat /\ j + 1 <= n + 1 /\ Len(s) = n - (j + 1) + 1  BY DEF Part
  <2>2. s = <<>> <=> n = (j + 1) - 1  BY PartHead
  <2>. QED  BY <2>1, <2>2
<1>2. ASSUME j < n
      PROVE  Head(s) = text[j + 1] /\ (IsDigits(Tail(s)) <=> DigitsAt(j + 2, n))
  <2>0. j + 1 <= n  BY <1>1, <1>2
  <2>1. Head(s) = text[j + 1] /\ Part(Tail(s), j + 1 + 1, n)  BY <2>0, PartHead
  <2>2. j + 1 + 1 = j + 2  OBVIOUS
  <2>. QED  BY <2>1, <2>2, PartDigits
<1>3. ASSUME n - j > 2
      PROVE  s[2] = text[j + 2] /\ (IsDigits(After(s, 2)) <=> DigitsAt(j + 3, n))
  <2>1. 2 \in 1..Len(s) /\ 3 \in 1..(Len(s) + 1) /\ Len(s) \in 0..Len(s) /\ 3 <= Len(s) + 1
    BY <1>1, <1>3
  <2>2. s[2] = text[j + 1 + 2 - 1]  BY <2>1 DEF Part
  <2>3. Part(SubSeq(s, 3, Len(s)), j + 1 + 3 - 1, j + 1 + Len(s) - 1)  BY <2>1, PartOf
  <2>4. j + 1 + 2 - 1 = j + 2 /\ j + 1 + 3 - 1 = j + 3 /\ j + 1 + Len(s) - 1 = n  BY <1>1
  <2>5. After(s, 2) = SubSeq(s, 3, Len(s))  BY DEF After
  <2>. QED  BY <2>2, <2>3, <2>4, <2>5, PartDigits
<1>. QED  BY <1>1, <1>2, <1>3 DEF IsExponent, ExponentTo

LEMMA NumberIs ==
  ASSUME text \in Seq(Lexemes.number), NEW n \in 0..Len(text)
  PROVE  IsNumber(SubSeq(text, 1, n)) <=>
           \E i, j \in 0..n : i <= j /\ SignedTo(i) /\ FractionTo(i, j) /\ ExponentTo(j, n)
<1>. DEFINE t == SubSeq(text, 1, n)
<1>0. Len(text) \in Nat /\ n \in Nat  OBVIOUS
<1>1. Part(t, 1, n)  BY <1>0, PartSubSeq
<1>2. Len(t) = n  BY <1>0, <1>1 DEF Part
<1>. HIDE DEF t
<1>3. ASSUME NEW i \in 0..n, NEW j \in 0..n, i <= j
      PROVE  /\ IsSigned(SubSeq(t, 1, i)) <=> SignedTo(i)
             /\ IsFraction(SubSeq(t, i + 1, j)) <=> FractionTo(i, j)
             /\ IsExponent(After(t, j)) <=> ExponentTo(j, n)
  <2>1. 1 \in 1..(Len(t) + 1) /\ i \in 0..Len(t) /\ j \in 0..Len(t) /\ i \in Nat /\ j \in Nat
        /\ i + 1 \in 1..(Len(t) + 1) /\ j + 1 \in 1..(Len(t) + 1) /\ n \in 0..Len(t)
    BY <1>0, <1>2
  <2>2. Part(SubSeq(t, 1, i), 1 + 1 - 1, 1 + i - 1)  BY <1>1, <2>1, PartOf
  <2>3. Part(SubSeq(t, i + 1, j), 1 + (i + 1) - 1, 1 + j - 1)  BY <1>1, <1>3, <2>1, PartOf
  <2>4. Part(SubSeq(t, j + 1, n), 1 + (j + 1) - 1, 1 + n - 1)  BY <1>1, <2>1, PartOf
  <2>5. 1 + 1 - 1 = 1 /\ 1 + i - 1 = i /\ 1 + (i + 1) - 1 = i + 1 /\ 1 + j - 1 = j
        /\ 1 + (j + 1) - 1 = j + 1 /\ 1 + n - 1 = n
    BY <1>0, <2>1
  <2>6. After(t, j) = SubSeq(t, j + 1, n)  BY <1>2 DEF After
  <2>. QED  BY <2>1, <2>2, <2>3, <2>4, <2>5, <2>6, SignedIs, FractionIs, ExponentIs
<1>. QED  BY <1>2, <1>3 DEF IsNumber, t

\* Digits are skipped to the first character that is none, if there is one.
LEMMA SkipsTo ==
  ASSUME NEW C, text \in Seq(C), NEW i \in 1..(Len(text) + 1), SkipDigit(i).ok
  PROVE  /\ SkipDigit(i).cur \in (i + 1)..Len(text)
         /\ DigitsAt(i, SkipDigit(i).cur - 1) /\ text[SkipDigit(i).cur] \notin Digits
<1>. DEFINE j == FirstNotIn(Digits, i)
<1>0. Len(text) \in Nat  OBVIOUS
<1>1. /\ j \in i..(Len(text) + 1) /\ (j <= Len(text) => text[j] \notin Digits)
      /\ \A k \in i..(j - 1) : text[k] \in Digits
  BY FirstIs
<1>2. SkipDigit(i) = IF j > i /\ j <= Len(text) THEN Ok(<<>>, j) ELSE Fail  BY DEF SkipDigit
<1>. HIDE DEF j
<1>3. j > i /\ j <= Len(text) /\ SkipDigit(i).cur = j  BY <1>2 DEF Ok, Fail
<1>. QED  BY <1>0, <1>1, <1>3 DEF DigitsAt

LEMMA Skipped ==
  ASSUME NEW C, text \in Seq(C), NEW i \in 1..Len(text), NEW m \in 1..(Len(text) - 1),
         DigitsAt(i, m), text[m + 1] \notin Digits
  PROVE  SkipDigit(i).ok /\ SkipDigit(i).cur = m + 1
<1>0. Len(text) \in Nat /\ i <= m /\ \A k \in i..m : text[k] \in Digits  BY DEF DigitsAt
<1>1. i \in 1..(Len(text) + 1) /\ m + 1 \in i..(Len(text) + 1) /\ i..((m + 1) - 1) = i..m  BY <1>0
<1>2. FirstNotIn(Digits, i) = m + 1  BY <1>0, <1>1, FirstAt
<1>3. m + 1 > i /\ m + 1 <= Len(text)  BY <1>0
<1>. QED  BY <1>2, <1>3 DEF SkipDigit, Ok

\* A number that is read ends at n + 1, and what stands before is one.
LEMMA NumberRead ==
  ASSUME text \in Seq(Lexemes.number), text # <<>>, ParseNumber.ok
  PROVE  /\ ParseNumber.cur \in 1..Len(text)
         /\ \E i, j \in 0..(ParseNumber.cur - 1) :
              i <= j /\ SignedTo(i) /\ FractionTo(i, j) /\ ExponentTo(j, ParseNumber.cur - 1)
<1>. DEFINE whole == SkipDigit(First)
            fraction == IF whole.ok THEN Fraction(whole.cur) ELSE Fail
            n == ParseNumber.cur - 1
<1>0. Len(text) \in Nat /\ Len(text) >= 1 /\ First \in 1..(Len(text) + 1) /\ First \in {1, 2}
  <2>1. Len(text) \in Nat /\ Len(text) # 0  BY EmptySeq
  <2>. QED  BY <2>1 DEF First
<1>1. ParseNumber = IF LeadingZero(First) \/ ~fraction.ok THEN Fail ELSE Exponent(fraction.cur)
  BY DEF ParseNumber, First
<1>2. ~LeadingZero(First) /\ fraction.ok /\ ParseNumber = Exponent(fraction.cur)  BY <1>1 DEF Fail
<1>3. whole.ok /\ fraction = Fraction(whole.cur)  BY <1>2 DEF Fail
<1>. DEFINE i == whole.cur - 1
            j == fraction.cur - 1
<1>4. /\ whole.cur \in (First + 1)..Len(text) /\ DigitsAt(First, i)
      /\ text[whole.cur] \notin Digits
  BY <1>0, <1>3, SkipsTo
<1>. HIDE DEF whole, fraction
<1>5. i \in Nat /\ First <= i /\ i < Len(text) /\ i + 1 = whole.cur  BY <1>0, <1>4
<1>6. SignedTo(i)
  <2>1. ASSUME text[First] = "0", i # First PROVE FALSE
    <3>1. First + 1 \in First..i /\ First < Len(text)  BY <1>0, <1>5, <2>1
    <3>2. text[First + 1] \in Digits  BY <1>4, <3>1 DEF DigitsAt
    <3>. QED  BY <1>2, <2>1, <3>1, <3>2 DEF LeadingZero
  <2>. QED  BY <1>4, <2>1 DEF SignedTo
<1>7. fraction.cur \in (i + 1)..Len(text) /\ FractionTo(i, j)
  <2>1. CASE text[i + 1] = "."
    <3>1. fraction = SkipDigit(i + 2) /\ i + 2 \in 1..(Len(text) + 1)
      BY <1>0, <1>3, <1>5, <2>1 DEF Fraction
    <3>2. fraction.cur \in (i + 2 + 1)..Len(text) /\ DigitsAt(i + 2, j)
      BY <1>2, <3>1, SkipsTo
    <3>. QED  BY <1>0, <1>5, <2>1, <3>2 DEF FractionTo
  <2>2. CASE text[i + 1] # "."
    <3>1. fraction = Ok(<<>>, i + 1)  BY <1>3, <1>5, <2>2 DEF Fraction
    <3>2. fraction.cur = i + 1 /\ j = i  BY <1>5, <3>1 DEF Ok
    <3>. QED  BY <1>0, <1>5, <3>2 DEF FractionTo
  <2>. QED  BY <2>1, <2>2
<1>8. j \in Nat /\ i <= j /\ j < Len(text) /\ j + 1 = fraction.cur  BY <1>0, <1>5, <1>7
<1>. HIDE DEF i, j
<1>9. ParseNumber.cur \in (j + 1)..Len(text) /\ ExponentTo(j, n)
  <2>1. CASE text[j + 1] # "e"
    <3>1. ParseNumber = Ok(<<>>, j + 1)  BY <1>2, <1>8, <2>1 DEF Exponent
    <3>2. ParseNumber.cur = j + 1 /\ n = j  BY <1>8, <3>1 DEF Ok
    <3>. QED  BY <1>0, <1>8, <3>2 DEF ExponentTo
  <2>2. CASE text[j + 1] = "e"
    <3>. DEFINE d == IF text[j + 2] \in {"+", "-"} THEN j + 3 ELSE j + 2
    <3>1. j + 1 + 1 = j + 2 /\ j + 1 + 2 = j + 3  BY <1>8
    <3>2. Exponent(j + 1) = IF j + 2 > Len(text) THEN Fail ELSE SkipDigit(d)
      BY <2>2, <3>1 DEF Exponent
    <3>3. j + 2 <= Len(text) /\ ParseNumber = SkipDigit(d)
      BY <1>0, <1>2, <1>8, <3>2 DEF Fail
    <3>4. d \in 1..(Len(text) + 1)  BY <1>0, <1>8, <3>3
    <3>5. ParseNumber.cur \in (d + 1)..Len(text) /\ DigitsAt(d, n)  BY <3>3, <3>4, SkipsTo
    <3>6. ParseNumber.cur \in (j + 1)..Len(text) /\ n \in Nat /\ d <= n
      BY <1>0, <1>8, <3>4, <3>5
    <3>7. CASE text[j + 2] \in {"+", "-"}
      <4>1. n - j > 2  BY <1>8, <3>6, <3>7
      <4>. QED  BY <1>8, <2>2, <3>5, <3>6, <3>7, <4>1 DEF ExponentTo
    <3>8. CASE text[j + 2] \notin {"+", "-"}
      BY <1>8, <2>2, <3>5, <3>6, <3>8 DEF ExponentTo
    <3>. QED  BY <3>7, <3>8
  <2>. QED  BY <2>1, <2>2
<1>10. i \in 0..n /\ j \in 0..n /\ ParseNumber.cur \in 1..Len(text)  BY <1>0, <1>5, <1>8, <1>9
<1>. HIDE DEF n
<1>11. \E a, b \in 0..n : a <= b /\ SignedTo(a) /\ FractionTo(a, b) /\ ExponentTo(b, n)
  BY <1>6, <1>7, <1>8, <1>9, <1>10
<1>. QED  BY <1>10, <1>11 DEF n

NumberText == text \in Seq(Lexemes.number) /\ text # <<>>

LEMMA LenText == ASSUME NumberText PROVE Len(text) \in Nat  BY DEF NumberText

LEMMA NumberSkipped ==
  ASSUME NumberText, NEW i \in 1..Len(text), NEW m \in 1..(Len(text) - 1),
         DigitsAt(i, m), text[m + 1] \notin Digits
  PROVE  SkipDigit(i).ok /\ SkipDigit(i).cur = m + 1
  BY Skipped DEF NumberText

\* A number before a comma is read up to it.
CommaAt(k) == text[k] = ","

LEMMA NumberTaken ==
  ASSUME NumberText, NEW n \in 0..(Len(text) - 1), CommaAt(n + 1),
         NEW i \in 0..n, NEW j \in 0..n,
         i <= j, SignedTo(i), FractionTo(i, j), ExponentTo(j, n)
  PROVE  ParseNumber.ok /\ ParseNumber.cur = n + 1
<1>. DEFINE whole == SkipDigit(First)
            fraction == IF whole.ok THEN Fraction(whole.cur) ELSE Fail
<1>0. Len(text) \in Nat /\ n \in Nat /\ i \in Nat /\ j \in Nat /\ i <= n /\ j <= n /\ n < Len(text)
  <2>1. Len(text) \in Nat  BY LenText
  <2>. QED  BY <2>1
<1>1. ParseNumber = IF LeadingZero(First) \/ ~fraction.ok THEN Fail ELSE Exponent(fraction.cur)
  BY DEF ParseNumber, First
<1>2. First \in {1, 2} /\ DigitsAt(First, i) /\ First <= i /\ (text[First] = "0" => i = First)
  <2>1. First \in {1, 2}  BY DEF First
  <2>. QED  BY <2>1 DEF SignedTo, DigitsAt
<1>3. text[j + 1] \in {",", "e"}  BY <1>0 DEF ExponentTo, CommaAt
<1>4. text[i + 1] \notin Digits /\ (text[i + 1] = "." <=> i < j)
  <2>1. CASE i = j
    <3>0. ~(i < j)  BY <1>0, <2>1
    <3>1. text[i + 1] \in {",", "e"}  BY ONLY <1>3, <2>1
    <3>2. \A x \in {",", "e"} : x \notin Digits /\ x # "."  BY DEF Digits
    <3>. QED  BY <3>0, <3>1, <3>2
  <2>2. CASE i # j  BY <1>0, <2>2 DEF FractionTo, Digits
  <2>. QED  BY <2>1, <2>2
<1>5. whole.ok /\ whole.cur = i + 1
  <2>1. First \in 1..Len(text) /\ i \in 1..(Len(text) - 1)  BY <1>0, <1>2
  <2>. QED  BY <1>2, <1>4, <2>1, NumberSkipped
<1>. HIDE DEF whole
<1>6. ~LeadingZero(First)
  <2>1. ASSUME LeadingZero(First) PROVE FALSE
    <3>1. text[First] = "0" /\ text[First + 1] \in Digits  BY <2>1 DEF LeadingZero
    <3>2. i = First  BY <1>2, <3>1
    <3>. QED  BY <1>4, <3>1, <3>2
  <2>. QED  BY <2>1
<1>7. fraction.ok /\ fraction.cur = j + 1
  <2>1. fraction = Fraction(i + 1)  BY <1>5
  <2>2. CASE i = j
    <3>1. fraction = Ok(<<>>, i + 1)  BY <1>4, <1>0, <2>1, <2>2 DEF Fraction
    <3>. QED  BY <2>2, <3>1 DEF Ok
  <2>3. CASE i # j
    <3>1. i < j /\ text[i + 1] = "." /\ DigitsAt(i + 2, j) /\ i + 1 + 1 = i + 2
      BY <1>0, <2>3 DEF FractionTo
    <3>2. fraction = SkipDigit(i + 2)  BY <2>1, <3>1 DEF Fraction
    <3>3. i + 2 \in 1..Len(text) /\ j \in 1..(Len(text) - 1)  BY <1>0, <3>1 DEF DigitsAt
    <3>4. text[j + 1] \notin Digits  BY <1>3 DEF Digits
    <3>. QED  BY <3>1, <3>2, <3>3, <3>4, NumberSkipped
  <2>. QED  BY <2>2, <2>3
<1>. HIDE DEF fraction
<1>8. ParseNumber = Exponent(j + 1)  BY <1>1, <1>6, <1>7
<1>9. CASE j = n
  <2>1. ParseNumber = Ok(<<>>, j + 1)  BY <1>8, <1>9 DEF Exponent, CommaAt
  <2>. QED  BY <1>9, <2>1 DEF Ok
<1>10. CASE j # n
  <2>. DEFINE d == IF text[j + 2] \in {"+", "-"} THEN j + 3 ELSE j + 2
  <2>1. j < n /\ text[j + 1] = "e" /\ DigitsAt(d, n)
    <3>1. CASE DigitsAt(j + 2, n)
      <4>1. text[j + 2] \in Digits  BY <1>0, <3>1 DEF DigitsAt
      <4>2. d = j + 2  BY <4>1 DEF Digits
      <4>. QED  BY <1>0, <1>10, <3>1, <4>2 DEF ExponentTo
    <3>2. CASE ~DigitsAt(j + 2, n)  BY <1>0, <1>10, <3>2 DEF ExponentTo
    <3>. QED  BY <3>1, <3>2
  <2>2. j + 1 + 1 = j + 2 /\ j + 1 + 2 = j + 3 /\ j + 2 <= Len(text)  BY <1>0, <2>1
  <2>3. Exponent(j + 1) = IF j + 2 > Len(text) THEN Fail ELSE SkipDigit(d)
    BY <2>1, <2>2 DEF Exponent
  <2>4. ParseNumber = SkipDigit(d)  BY <1>0, <1>8, <2>2, <2>3
  <2>5. d \in 1..Len(text) /\ n \in 1..(Len(text) - 1)  BY <1>0, <2>1 DEF DigitsAt
  <2>6. text[n + 1] \notin Digits  BY DEF Digits, CommaAt
  <2>. QED  BY <2>1, <2>4, <2>5, <2>6, NumberSkipped
<1>. QED  BY <1>9, <1>10

\* What parse_number takes before a comma is what the grammar calls a number.
THEOREM NumbersParsedAlways == Spec => []NumbersParsed
<1>1. Written => NumbersParsed
  <2>. SUFFICES ASSUME Written, subject = "number" PROVE NumbersParsed  BY DEF NumbersParsed
  <2>. DEFINE comma == FirstNotIn(Lexemes.number \ {","}, 1)
              n == comma - 1
  <2>1. NumberText  BY DEF Written, NumberText
  <2>2. Len(text) \in Nat /\ 1 \in 1..(Len(text) + 1)
    <3>1. Len(text) \in Nat  BY <2>1, LenText
    <3>. QED  BY <3>1
  <2>3. comma \in 1..(Len(text) + 1) /\ (comma <= Len(text) => CommaAt(comma))
    <3>1. comma \in 1..(Len(text) + 1)
          /\ (comma <= Len(text) => text[comma] \notin Lexemes.number \ {","})
      BY <2>1, <2>2, FirstIs DEF NumberText
    <3>. HIDE DEF comma
    <3>2. comma <= Len(text) => text[comma] \in Lexemes.number
      <4>1. \A k \in 1..Len(text) : text[k] \in Lexemes.number
        BY <2>1, ElementOfSeq DEF NumberText
      <4>0. comma \in 1..(Len(text) + 1)  BY <3>1
      <4>2. comma <= Len(text) => comma \in 1..Len(text)  BY <2>2, <4>0
      <4>. QED  BY <4>1, <4>2
    <3>. QED  BY <3>1, <3>2 DEF CommaAt
  <2>. HIDE DEF comma
  <2>4. ParseNumber.ok => ParseNumber.cur <= Len(text)  BY <2>1, <2>2, NumberRead DEF NumberText
  <2>5. ASSUME comma <= Len(text)
        PROVE  (ParseNumber.ok /\ ParseNumber.cur = comma) <=> IsNumber(SubSeq(text, 1, n))
    <3>1. /\ n \in 0..Len(text) /\ n \in 0..(Len(text) - 1) /\ n + 1 = comma
          /\ CommaAt(n + 1)
      BY <2>2, <2>3, <2>5
    <3>. HIDE DEF n
    <3>2. IsNumber(SubSeq(text, 1, n)) <=>
            \E i, j \in 0..n : i <= j /\ SignedTo(i) /\ FractionTo(i, j) /\ ExponentTo(j, n)
      BY <2>1, <3>1, NumberIs DEF NumberText
    <3>3. ASSUME ParseNumber.ok, ParseNumber.cur = comma
          PROVE  \E i, j \in 0..n : i <= j /\ SignedTo(i) /\ FractionTo(i, j) /\ ExponentTo(j, n)
      BY <2>1, <3>3, NumberRead DEF n, NumberText
    <3>4. ASSUME NEW i \in 0..n, NEW j \in 0..n,
                 i <= j, SignedTo(i), FractionTo(i, j), ExponentTo(j, n)
          PROVE  ParseNumber.ok /\ ParseNumber.cur = comma
      BY <2>1, <3>1, <3>4, NumberTaken
    <3>. QED  BY <3>2, <3>3, <3>4
  <2>. QED  BY <2>4, <2>5 DEF NumbersParsed, comma, n
<1>. QED  BY <1>1, WrittenAlways, PTL

-----------------------------------------------------------------------------
\* Strings: the loop is defined, since each of its turns goes on.

StringText == text \in Seq(Lexemes.string)

End == Len(text) + 1

LEMMA EndIs ==
  ASSUME StringText
  PROVE  End \in Nat \ {0} /\ \A i \in Int : i <= Len(text) <=> i < End
<1>1. Len(text) \in Nat  BY DEF StringText
<1>. QED  BY <1>1 DEF End

SkipTo(accel, from) == IF accel THEN AccelSkip(from) ELSE from

Plain(a, b) == \A k \in a..(b - 1) : text[k] \in {"plain"}

LEMMA BytesNat == \A i \in Nat : StringText => Bytes(i) \in Nat
<1>. SUFFICES ASSUME NEW i \in Nat, StringText PROVE Bytes(i) \in Nat  OBVIOUS
<1>1. Len(text) \in Nat  BY DEF StringText
<1>2. ASSUME NEW kind PROVE Cardinality({k \in i..Len(text) : text[k] \in kind}) \in Nat
  <2>1. IsFiniteSet(i..Len(text))  BY <1>1, FS_Interval
  <2>2. IsFiniteSet({k \in i..Len(text) : text[k] \in kind})  BY <2>1, FS_Subset
  <2>. QED  BY <2>2, FS_CardinalityType
<1>. DEFINE Of(kind) == Cardinality({k \in i..Len(text) : text[k] \in kind})
<1>3. Bytes(i) = Of({"plain", "quote", "control"}) + 2 * Of({"escape", "bad escape"})
                 + 6 * Of({"high", "low", "bmp"})
  BY Zenon DEF Bytes
<1>4. \A kind : Of(kind) \in Nat  BY <1>2
<1>. DEFINE a == Of({"plain", "quote", "control"})
            b == Of({"escape", "bad escape"})
            c == Of({"high", "low", "bmp"})
<1>5. a \in Nat /\ b \in Nat /\ c \in Nat  BY Zenon, <1>4
<1>6. Bytes(i) = a + 2 * b + 6 * c  BY Zenon, <1>3
<1>. HIDE DEF Of, a, b, c
<1>. QED  BY <1>5, <1>6

LEMMA SkipsPlain ==
  ASSUME StringText, NEW accel \in BOOLEAN, NEW from \in 1..End
  PROVE  SkipTo(accel, from) \in from..End /\ Plain(from, SkipTo(accel, from))
<1>0. Len(text) \in Nat /\ End = Len(text) + 1  BY DEF StringText, End
<1>1. CASE ~accel  BY <1>0, <1>1 DEF SkipTo, Plain
<1>2. CASE accel
  <2>. DEFINE first == FirstNotIn({"plain"}, from)
              whole == (Bytes(from) \div step) * step
  <2>1. first \in from..End /\ \A k \in from..(first - 1) : text[k] \in {"plain"}
    <3>1. from \in 1..(Len(text) + 1)  BY <1>0
    <3>. QED  BY <1>0, <3>1, FirstIs DEF StringText
  <2>2. whole \in Nat
    <3>1. Bytes(from) \in Nat /\ step \in Nat \ {0}  BY <1>0, BytesNat, ParserAssumption
    <3>2. Bytes(from) \div step \in Nat  BY <3>1
    <3>. QED  BY <3>1, <3>2
  <2>3. SkipTo(accel, from) = IF first - from < whole THEN from + (first - from) ELSE from + whole
    BY <1>2 DEF SkipTo, AccelSkip
  <2>. HIDE DEF first, whole
  <2>4. SkipTo(accel, from) \in from..first  BY <1>0, <2>1, <2>2, <2>3
  <2>. QED  BY <1>0, <2>1, <2>4 DEF Plain
<1>. QED  BY <1>1, <1>2

\* A turn, from its start and from where it looks.
Looks(rest, i, high) ==
  CASE text[i] = "control" -> Fail
    [] text[i] = "quote" -> IF high THEN Fail ELSE Ok(<<>>, i + 1)
    [] text[i] = "plain" -> IF high THEN Fail ELSE Behind(<<"plain">>, rest[i + 1][FALSE])
    [] OTHER -> Unescape(rest, i, high)

LEMMA TurnIs ==
  ASSUME StringText, NEW accel \in BOOLEAN, NEW from \in 1..End, NEW rest, NEW high \in BOOLEAN
  PROVE  Turn(accel, rest, from, high) =
           IF SkipTo(accel, from) < End
           THEN Behind(SubSeq(text, from, SkipTo(accel, from) - 1), Looks(rest, SkipTo(accel, from), high))
           ELSE Fail
<1>. DEFINE i == SkipTo(accel, from)
<1>1. i \in Int /\ (i > Len(text) <=> ~(i < End))
  <2>1. Len(text) \in Nat /\ End = Len(text) + 1  BY DEF StringText, End
  <2>2. i \in from..End  BY SkipsPlain
  <2>. HIDE DEF i
  <2>. QED  BY <2>1, <2>2
<1>2. Turn(accel, rest, from, high) =
        IF i > Len(text) THEN Fail ELSE Behind(SubSeq(text, from, i - 1), Looks(rest, i, high))
  BY Zenon DEF Turn, SkipTo, Looks
<1>. HIDE DEF i
<1>. QED  BY <1>1, <1>2 DEF i

Row(accel, rest, i) == [high \in BOOLEAN |-> Turn(accel, rest, i, high)]
Rows(accel, rest) == rest = [i \in 1..(Len(text) + 1) |-> Row(accel, rest, i)]

LEMMA RowSame ==
  ASSUME StringText, NEW accel \in BOOLEAN, NEW i \in 1..End, NEW r, NEW s,
         \A j \in (i + 1)..End : r[j] = s[j]
  PROVE  Row(accel, r, i) = Row(accel, s, i)
<1>1. ASSUME NEW high \in BOOLEAN PROVE Turn(accel, r, i, high) = Turn(accel, s, i, high)
  <2>. DEFINE n == SkipTo(accel, i)
  <2>1. n \in i..End  BY SkipsPlain
  <2>2. ASSUME n < End PROVE Looks(r, n, high) = Looks(s, n, high)
    <3>1. n + 1 \in (i + 1)..End  BY <2>1, <2>2, EndIs
    <3>2. r[n + 1] = s[n + 1]  BY <3>1
    <3>. HIDE DEF n
    <3>. QED  BY Zenon, <3>2 DEF Looks, Unescape
  <2>3. \A rest : Turn(accel, rest, i, high) =
                    IF n < End THEN Behind(SubSeq(text, i, n - 1), Looks(rest, n, high)) ELSE Fail
    BY Zenon, TurnIs
  <2>. HIDE DEF n
  <2>4. CASE n < End  BY Zenon, <2>2, <2>3, <2>4
  <2>5. CASE ~(n < End)  BY Zenon, <2>3, <2>5
  <2>. QED  BY <2>4, <2>5
<1>. QED  BY Zenon, <1>1 DEF Row

LEMMA RowsDefined ==
  ASSUME StringText, NEW accel \in BOOLEAN
  PROVE  \E rest : Rows(accel, rest)
<1>. DEFINE Up(k, r) == \A i \in k..End : r[i] = Row(accel, r, i)
            S == {k \in 1..End : \E r : Up(k, r)}
<1>0. End \in Nat \ {0} /\ End = Len(text) + 1  BY EndIs DEF End
<1>1. ASSUME NEW k \in 1..End, \E r : Up(k + 1, r) PROVE k \in S
  <2>1. PICK r : Up(k + 1, r)  BY <1>1
  <2>. DEFINE t == [i \in 1..End |-> IF i = k THEN Row(accel, r, k) ELSE r[i]]
  <2>2. \A j \in (k + 1)..End : t[j] = r[j]  BY <1>0
  <2>3. t[k] = Row(accel, r, k)  OBVIOUS
  <2>. HIDE DEF t
  <2>4. ASSUME NEW i \in k..End PROVE t[i] = Row(accel, t, i)
    <3>1. i \in 1..End /\ \A j \in (i + 1)..End : j \in (k + 1)..End  BY <1>0
    <3>2. Row(accel, t, i) = Row(accel, r, i)  BY <2>2, <3>1, RowSame
    <3>3. CASE i = k  BY <2>3, <3>2, <3>3
    <3>4. CASE i # k
      <4>1. i \in (k + 1)..End  BY <1>0, <3>4
      <4>. QED  BY Zenon, <2>1, <2>2, <3>2, <4>1
    <3>. QED  BY <3>3, <3>4
  <2>. QED  BY Zenon, <2>4
<1>2. ASSUME NEW k \in 1..End, \A j \in (k + 1)..End : j \in S PROVE k \in S
  <2>1. CASE k = End
    <3>1. \A i \in (k + 1)..End : FALSE  BY <1>0, <2>1
    <3>2. \E r : Up(k + 1, r)  BY Zenon, <3>1
    <3>. QED  BY <1>1, <3>2
  <2>2. CASE k # End
    <3>1. k + 1 \in (k + 1)..End /\ k + 1 \in 1..End  BY <1>0, <2>2
    <3>2. k + 1 \in S  BY <1>2, <3>1
    <3>. QED  BY <1>1, <3>2
  <2>. QED  BY <2>1, <2>2
<1>. HIDE DEF S
<1>3. 1 \in S
  <2>1. \A k \in 1..End : k \in S  BY <1>0, <1>2, Backwards
  <2>. QED  BY <1>0, <2>1
<1>4. PICK r : Up(1, r)  BY <1>3 DEF S
<1>. DEFINE t == [i \in 1..End |-> r[i]]
<1>5. ASSUME NEW i \in 1..End PROVE t[i] = Row(accel, t, i)
  <2>1. \A j \in (i + 1)..End : j \in 1..End  BY <1>0
  <2>2. \A j \in (i + 1)..End : t[j] = r[j]  BY <2>1
  <2>3. t[i] = r[i]  OBVIOUS
  <2>. HIDE DEF t
  <2>4. Row(accel, t, i) = Row(accel, r, i)  BY <2>2, RowSame
  <2>. QED  BY Zenon, <1>4, <2>3, <2>4
<1>6. t = [i \in 1..End |-> t[i]]  OBVIOUS
<1>. HIDE DEF t
<1>7. t = [i \in 1..End |-> Row(accel, t, i)]  BY Zenon, <1>5, <1>6
<1>. QED  BY Zenon, <1>0, <1>7 DEF Rows

LEMMA StringRead ==
  ASSUME StringText, NEW accel \in BOOLEAN
  PROVE  \E rest : /\ ParseString(accel) = rest[1][FALSE]
                   /\ \A i \in 1..End : \A high \in BOOLEAN :
                        rest[i][high] = Turn(accel, rest, i, high)
<1>. DEFINE rest == CHOOSE r : r = [i \in 1..(Len(text) + 1) |-> [high \in BOOLEAN |-> Turn(accel, r, i, high)]]
<1>1. ParseString(accel) = rest[1][FALSE]  BY Zenon DEF ParseString
<1>2. \E r : r = [i \in 1..(Len(text) + 1) |-> [high \in BOOLEAN |-> Turn(accel, r, i, high)]]
  BY Zenon, RowsDefined DEF Rows, Row
<1>3. rest = [i \in 1..(Len(text) + 1) |-> [high \in BOOLEAN |-> Turn(accel, rest, i, high)]]
  BY Zenon, <1>2
<1>. HIDE DEF rest
<1>4. \A i \in 1..End : rest[i] = [high \in BOOLEAN |-> Turn(accel, rest, i, high)]
  BY Zenon, <1>3 DEF End
<1>5. \A i \in 1..End : \A high \in BOOLEAN : rest[i][high] = Turn(accel, rest, i, high)
  BY Zenon, <1>4
<1>. QED  BY <1>1, <1>5

-----------------------------------------------------------------------------
\* Surrogates.

LEMMA BehindIs ==
  ASSUME NEW before, NEW r
  PROVE  /\ r.ok => /\ Behind(before, r).ok /\ Behind(before, r).value = before \o r.value
                    /\ Behind(before, r).cur = r.cur
         /\ ~r.ok => ~Behind(before, r).ok
<1>1. CASE r.ok  BY <1>1 DEF Behind, Ok
<1>2. CASE ~r.ok  BY <1>2 DEF Behind, Fail
<1>. QED  BY <1>1, <1>2

LEMMA TextHas ==
  ASSUME StringText, NEW i \in 1..End, i < End
  PROVE  text[i] \in Lexemes.string
<1>1. End \in Nat \ {0} /\ (i <= Len(text) <=> i < End)  BY EndIs
<1>2. i \in 1..Len(text)  BY <1>1
<1>. QED  BY <1>2, ElementOfSeq DEF StringText

Surrogates == {"high", "low"}

\* How a turn of the loop that succeeds goes on at i, with pair_high = g.
GoesOn(i, high, g) ==
  \/ text[i] = "high" /\ ~high /\ g
  \/ text[i] = "low" /\ high /\ ~g
  \/ text[i] \notin Surrogates /\ (g <=> high)

LEMMA LooksGood ==
  ASSUME NEW rest, NEW i, text[i] \in Lexemes.string, NEW high \in BOOLEAN, Looks(rest, i, high).ok
  PROVE  \/ text[i] = "quote" /\ ~high
         \/ text[i] # "quote" /\ \E g \in BOOLEAN : rest[i + 1][g].ok /\ GoesOn(i, high, g)
<1>0. ~Fail.ok  BY DEF Fail
<1>1. text[i] \in {"plain", "quote", "control", "escape", "bad escape", "high", "low", "bmp"}
  BY DEF Lexemes
<1>2. CASE text[i] \in {"control", "bad escape"}
  <2>1. Looks(rest, i, high) = Fail  BY Zenon, <1>2 DEF Looks, Unescape
  <2>. QED  BY <1>0, <2>1
<1>3. CASE text[i] = "quote"
  <2>1. high => Looks(rest, i, high) = Fail  BY Zenon, <1>3 DEF Looks
  <2>. QED  BY Zenon, <1>0, <1>3, <2>1
<1>4. CASE text[i] \in {"plain", "escape"}
  <2>1. ~high
    <3>1. high => Looks(rest, i, high) = Fail  BY Zenon, <1>4 DEF Looks, Unescape
    <3>. QED  BY Zenon, <1>0, <3>1
  <2>2. Looks(rest, i, high) = Behind(<<text[i]>>, rest[i + 1][FALSE])
    BY Zenon, <1>4, <2>1 DEF Looks, Unescape
  <2>3. rest[i + 1][FALSE].ok  BY Zenon, <2>2, BehindIs
  <2>4. GoesOn(i, high, FALSE) /\ text[i] # "quote"  BY Zenon, <1>4, <2>1 DEF GoesOn, Surrogates
  <2>. QED  BY Zenon, <2>3, <2>4
<1>5. CASE text[i] = "bmp"
  <2>1. Looks(rest, i, high) = Behind(<<"bmp">>, rest[i + 1][high])
    BY Zenon, <1>5 DEF Looks, Unescape
  <2>2. rest[i + 1][high].ok  BY Zenon, <2>1, BehindIs
  <2>3. GoesOn(i, high, high) /\ text[i] # "quote"  BY Zenon, <1>5 DEF GoesOn, Surrogates
  <2>. QED  BY Zenon, <2>2, <2>3
<1>6. CASE text[i] = "high"
  <2>1. ~high
    <3>1. high => Looks(rest, i, high) = Fail  BY Zenon, <1>6 DEF Looks, Unescape
    <3>. QED  BY Zenon, <1>0, <3>1
  <2>2. Looks(rest, i, high) = rest[i + 1][TRUE]  BY Zenon, <1>6, <2>1 DEF Looks, Unescape
  <2>3. GoesOn(i, high, TRUE) /\ text[i] # "quote"  BY Zenon, <1>6, <2>1 DEF GoesOn
  <2>. QED  BY Zenon, <2>2, <2>3
<1>7. CASE text[i] = "low"
  <2>1. high
    <3>1. ~high => Looks(rest, i, high) = Fail  BY Zenon, <1>7 DEF Looks, Unescape
    <3>. QED  BY Zenon, <1>0, <3>1
  <2>2. Looks(rest, i, high) = Behind(<<"pair">>, rest[i + 1][FALSE])
    BY Zenon, <1>7, <2>1 DEF Looks, Unescape
  <2>3. rest[i + 1][FALSE].ok  BY Zenon, <2>2, BehindIs
  <2>4. GoesOn(i, high, FALSE) /\ text[i] # "quote"  BY Zenon, <1>7, <2>1 DEF GoesOn
  <2>. QED  BY Zenon, <2>3, <2>4
<1>. QED  BY Zenon, <1>1, <1>2, <1>3, <1>4, <1>5, <1>6, <1>7

LEMMA TurnGood ==
  ASSUME StringText, NEW accel \in BOOLEAN, NEW from \in 1..End, NEW rest, NEW high \in BOOLEAN,
         Turn(accel, rest, from, high).ok
  PROVE  \E i \in from..End :
           /\ i < End /\ Plain(from, i)
           /\ \/ text[i] = "quote" /\ ~high
              \/ text[i] # "quote" /\ \E g \in BOOLEAN : rest[i + 1][g].ok /\ GoesOn(i, high, g)
<1>. DEFINE i == SkipTo(accel, from)
<1>1. i \in from..End /\ Plain(from, i)  BY SkipsPlain
<1>2. Turn(accel, rest, from, high) =
        IF i < End THEN Behind(SubSeq(text, from, i - 1), Looks(rest, i, high)) ELSE Fail
  BY Zenon, TurnIs
<1>. HIDE DEF i
<1>3. i < End
  <2>1. ~Fail.ok  BY DEF Fail
  <2>. QED  BY Zenon, <1>2, <2>1
<1>4. Looks(rest, i, high).ok  BY Zenon, <1>2, <1>3, BehindIs
<1>5. text[i] \in Lexemes.string
  <2>1. i \in 1..End  BY <1>1, EndIs
  <2>. QED  BY <1>3, <2>1, TextHas
<1>. QED  BY Zenon, <1>1, <1>3, <1>4, <1>5, LooksGood

\* The last surrogate before i is the first of a pair.
Pend(i) ==
  \E k \in 1..(i - 1) : text[k] = "high" /\ \A m \in (k + 1)..(i - 1) : text[m] \notin Surrogates

LEMMA PendStays ==
  ASSUME NEW i \in Nat \ {0}, NEW j \in Nat, i <= j, \A k \in i..(j - 1) : text[k] \notin Surrogates
  PROVE  Pend(j) <=> Pend(i)
<1>0. "high" \in Surrogates  BY DEF Surrogates
<1>1. ASSUME Pend(i) PROVE Pend(j)
  <2>1. PICK k \in 1..(i - 1) : text[k] = "high" /\ \A m \in (k + 1)..(i - 1) : text[m] \notin Surrogates
    BY <1>1 DEF Pend
  <2>2. k \in 1..(j - 1) /\ \A m \in (k + 1)..(j - 1) : m \in (k + 1)..(i - 1) \/ m \in i..(j - 1)
    OBVIOUS
  <2>3. \A m \in (k + 1)..(j - 1) : text[m] \notin Surrogates  BY Zenon, <2>1, <2>2
  <2>. QED  BY Zenon, <2>1, <2>2, <2>3 DEF Pend
<1>2. ASSUME Pend(j) PROVE Pend(i)
  <2>1. PICK k \in 1..(j - 1) : text[k] = "high" /\ \A m \in (k + 1)..(j - 1) : text[m] \notin Surrogates
    BY <1>2 DEF Pend
  <2>2. k \notin i..(j - 1)  BY Zenon, <1>0, <2>1
  <2>3. k \in 1..(i - 1) /\ \A m \in (k + 1)..(i - 1) : m \in (k + 1)..(j - 1)  BY <2>2
  <2>. QED  BY Zenon, <2>1, <2>3 DEF Pend
<1>. QED  BY <1>1, <1>2

LEMMA PendNext ==
  ASSUME NEW i \in Nat \ {0}, NEW high \in BOOLEAN, high <=> Pend(i), NEW g \in BOOLEAN, GoesOn(i, high, g)
  PROVE  g <=> Pend(i + 1)
<1>1. CASE text[i] = "high" /\ ~high /\ g
  <2>1. i \in 1..((i + 1) - 1) /\ \A m \in (i + 1)..((i + 1) - 1) : FALSE  OBVIOUS
  <2>2. Pend(i + 1)  BY Zenon, <1>1, <2>1 DEF Pend
  <2>. QED  BY Zenon, <1>1, <2>2
<1>2. CASE text[i] = "low" /\ high /\ ~g
  <2>1. ASSUME Pend(i + 1) PROVE FALSE
    <3>1. PICK k \in 1..((i + 1) - 1) :
            text[k] = "high" /\ \A m \in (k + 1)..((i + 1) - 1) : text[m] \notin Surrogates
      BY <2>1 DEF Pend
    <3>2. k = i \/ i \in (k + 1)..((i + 1) - 1)  OBVIOUS
    <3>3. "low" \in Surrogates /\ "low" # "high"  BY DEF Surrogates
    <3>. QED  BY Zenon, <1>2, <3>1, <3>2, <3>3
  <2>. QED  BY Zenon, <1>2, <2>1
<1>3. CASE text[i] \notin Surrogates /\ (g <=> high)
  <2>1. i + 1 \in Nat /\ i <= i + 1 /\ \A k \in i..((i + 1) - 1) : k = i  OBVIOUS
  <2>2. \A k \in i..((i + 1) - 1) : text[k] \notin Surrogates  BY Zenon, <1>3, <2>1
  <2>3. Pend(i + 1) <=> Pend(i)  BY <2>1, <2>2, PendStays
  <2>. QED  BY Zenon, <1>3, <2>3
<1>. QED  BY Zenon, <1>1, <1>2, <1>3 DEF GoesOn

\* The quote that ends the string.
Quote == FirstNotIn(Lexemes.string \ {"quote"}, 1)

LEMMA QuoteIs ==
  ASSUME StringText
  PROVE  /\ Quote \in 1..End /\ (Quote < End => text[Quote] = "quote")
         /\ \A k \in 1..End : k < Quote => text[k] # "quote"
<1>0. Len(text) \in Nat /\ End = Len(text) + 1  BY DEF StringText, End
<1>1. /\ Quote \in 1..End /\ (Quote <= Len(text) => text[Quote] \notin Lexemes.string \ {"quote"})
      /\ \A k \in 1..(Quote - 1) : text[k] \in Lexemes.string \ {"quote"}
  <2>1. 1 \in 1..(Len(text) + 1)  BY <1>0
  <2>. QED  BY <1>0, <2>1, FirstIs DEF Quote, StringText
<1>2. ASSUME Quote < End PROVE text[Quote] = "quote"
  <2>1. Quote <= Len(text)  BY <1>0, <1>1, <1>2
  <2>2. text[Quote] \in Lexemes.string  BY <1>1, <1>2, TextHas
  <2>. QED  BY Zenon, <1>1, <2>1, <2>2
<1>3. ASSUME NEW k \in 1..End, k < Quote PROVE text[k] # "quote"
  <2>1. k \in 1..(Quote - 1)  BY <1>0, <1>1, <1>3
  <2>. QED  BY Zenon, <1>1, <2>1
<1>. QED  BY <1>1, <1>2, <1>3

\* From i on surrogates alternate up to the quote.
Alternate(i) ==
  /\ Quote < End /\ ~Pend(Quote)
  /\ \A k \in i..(Quote - 1) : (text[k] = "high" => ~Pend(k)) /\ (text[k] = "low" => Pend(k))

LEMMA Alternates ==
  ASSUME StringText, NEW accel \in BOOLEAN, ParseString(accel).ok
  PROVE  Alternate(1)
<1>1. PICK rest : /\ ParseString(accel) = rest[1][FALSE]
                  /\ \A i \in 1..End : \A high \in BOOLEAN :
                       rest[i][high] = Turn(accel, rest, i, high)
  BY StringRead
<1>. DEFINE Claim(i) == \A high \in BOOLEAN :
                          i <= Quote /\ (high <=> Pend(i)) /\ rest[i][high].ok => Alternate(i)
            S == {i \in 1..End : Claim(i)}
<1>0. End \in Nat \ {0} /\ Quote \in 1..End  BY EndIs, QuoteIs
<1>2. ASSUME NEW from \in 1..End, \A j \in (from + 1)..End : j \in S PROVE from \in S
  <2>. SUFFICES ASSUME NEW high \in BOOLEAN, from <= Quote, high <=> Pend(from), rest[from][high].ok
                PROVE  Alternate(from)
    BY Zenon DEF S
  <2>1. Turn(accel, rest, from, high).ok  BY Zenon, <1>1
  <2>2. PICK i \in from..End :
           /\ i < End /\ Plain(from, i)
           /\ \/ text[i] = "quote" /\ ~high
              \/ text[i] # "quote" /\ \E g \in BOOLEAN : rest[i + 1][g].ok /\ GoesOn(i, high, g)
    BY <2>1, TurnGood
  <2>3. \A k \in from..(i - 1) : text[k] \notin Surrogates /\ text[k] \notin {"quote", "high", "low"}
    BY <2>2 DEF Plain, Surrogates
  <2>4. /\ i \in Nat \ {0} /\ i \in 1..End /\ from \in Nat \ {0} /\ from <= i
        /\ (Quote < i => Quote \in from..(i - 1))
    BY <1>0
  <2>5. high <=> Pend(i)  BY <2>3, <2>4, PendStays
  <2>6. i <= Quote
    <3>1. ASSUME Quote < i PROVE FALSE
      <4>1. Quote < End  BY <1>0, <2>2, <2>4, <3>1
      <4>. QED  BY Zenon, <2>3, <2>4, <3>1, <4>1, QuoteIs
    <3>. QED  BY <1>0, <2>4, <3>1
  <2>7. CASE text[i] = "quote" /\ ~high
    <3>1. ~(i < Quote)  BY Zenon, <2>4, <2>7, QuoteIs
    <3>2. Quote = i  BY <1>0, <2>4, <2>6, <3>1
    <3>3. \A k \in from..(Quote - 1) : text[k] \notin {"quote", "high", "low"}  BY <2>3, <3>2
    <3>. QED  BY Zenon, <2>2, <2>5, <2>7, <3>2, <3>3 DEF Alternate
  <2>8. ASSUME text[i] # "quote", NEW g \in BOOLEAN, rest[i + 1][g].ok, GoesOn(i, high, g)
        PROVE  Alternate(from)
    <3>1. i # Quote  BY Zenon, <2>2, <2>8, QuoteIs
    <3>2. i + 1 <= Quote /\ i + 1 \in (from + 1)..End  BY <1>0, <2>2, <2>4, <2>6, <3>1
    <3>3. g <=> Pend(i + 1)  BY <2>4, <2>5, <2>8, PendNext
    <3>4. Alternate(i + 1)  BY Zenon, <1>2, <2>8, <3>2, <3>3 DEF S
    <3>5. (text[i] = "high" => ~Pend(i)) /\ (text[i] = "low" => Pend(i))
      <4>1. "high" \in Surrogates /\ "low" \in Surrogates /\ "high" # "low"  BY DEF Surrogates
      <4>. QED  BY Zenon, <2>5, <2>8, <4>1 DEF GoesOn
    <3>6. \A k \in from..(Quote - 1) : k \in from..(i - 1) \/ k = i \/ k \in (i + 1)..(Quote - 1)
      BY <1>0, <2>4
    <3>7. \A k \in from..(Quote - 1) : (text[k] = "high" => ~Pend(k)) /\ (text[k] = "low" => Pend(k))
      BY Zenon, <2>3, <3>4, <3>5, <3>6 DEF Alternate
    <3>. QED  BY Zenon, <3>4, <3>7 DEF Alternate
  <2>. QED  BY Zenon, <2>2, <2>7, <2>8
<1>. HIDE DEF S
<1>3. \A i \in 1..End : i \in S  BY <1>0, <1>2, Backwards
<1>4. 1 \in S /\ 1 <= Quote  BY <1>0, <1>3
<1>5. ~Pend(1)
  <2>1. \A k \in 1..(1 - 1) : FALSE  OBVIOUS
  <2>. QED  BY Zenon, <2>1 DEF Pend
<1>6. rest[1][FALSE].ok  BY Zenon, <1>1
<1>. QED  BY Zenon, <1>4, <1>5, <1>6 DEF S

LEMMA LiteralIs ==
  ASSUME StringText
  PROVE  /\ Quote \in 1..End /\ Quote - 1 \in Nat
         /\ DOMAIN Literal = 1..(Quote - 1) /\ Len(Literal) = Quote - 1
         /\ \A k \in 1..(Quote - 1) : Literal[k] = text[k] /\ text[k] \in Lexemes.string
<1>0. Len(text) \in Nat /\ End = Len(text) + 1  BY DEF StringText, End
<1>1. Quote \in 1..End  BY QuoteIs
<1>. DEFINE n == Quote - 1
<1>2. Literal = SubSeq(text, 1, n)  BY Zenon DEF Literal, Quote
<1>3. n \in Nat /\ n <= Len(text) /\ 1 \in Int /\ n \in Int  BY <1>0, <1>1
<1>. HIDE DEF n
<1>4. \A k \in 1..n : text[k] \in Lexemes.string
  <2>1. \A k \in 1..n : k \in 1..Len(text)  BY <1>0, <1>3
  <2>. QED  BY <2>1, ElementOfSeq DEF StringText
<1>. DEFINE C == Lexemes.string
<1>5. \A k \in 1..n : text[k] \in C  BY <1>4
<1>. HIDE DEF C
<1>6. /\ Literal \in Seq(C) /\ Len(Literal) = IF 1 <= n THEN n - 1 + 1 ELSE 0
      /\ \A k \in 1..(n - 1 + 1) : Literal[k] = text[1 + k - 1]
  BY <1>2, <1>3, <1>5, SubSeqProperties
<1>7. Len(Literal) = n /\ DOMAIN Literal = 1..Len(Literal)  BY <1>3, <1>6
<1>8. \A k \in 1..n : Literal[k] = text[k]
  <2>1. \A k \in 1..n : k \in 1..(n - 1 + 1) /\ 1 + k - 1 = k  BY <1>3
  <2>. QED  BY <1>6, <2>1
<1>. QED  BY Zenon, <1>1, <1>3, <1>4, <1>7, <1>8 DEF n

\* No half of a pair is left over in a string that parse_stdstring accepts.
THEOREM SurrogatesMatchedAlways == Spec => []SurrogatesMatched
<1>1. Written => SurrogatesMatched
  <2>. SUFFICES ASSUME Written, subject = "string", NEW accel \in BOOLEAN, ParseString(accel).ok
                PROVE  LET surrogates == {i \in DOMAIN Literal : text[i] \in {"high", "low"}}
                           Follows(j, i) == i < j /\ \A k \in surrogates : k <= i \/ j <= k
                       IN  /\ \A i \in surrogates :
                                text[i] = "high" => \E j \in surrogates : Follows(j, i) /\ text[j] = "low"
                           /\ \A j \in surrogates :
                                text[j] = "low" => \E i \in surrogates : Follows(j, i) /\ text[i] = "high"
    BY Zenon DEF SurrogatesMatched
  <2>. DEFINE surrogates == {i \in DOMAIN Literal : text[i] \in {"high", "low"}}
              Follows(j, i) == i < j /\ \A k \in surrogates : k <= i \/ j <= k
  <2>0. StringText  BY Zenon DEF Written, StringText
  <2>1. Quote \in 1..End /\ Quote - 1 \in Nat /\ DOMAIN Literal = 1..(Quote - 1) /\ Quote \in Int
    BY <2>0, LiteralIs, EndIs
  <2>2. /\ ~Pend(Quote)
        /\ \A k \in 1..(Quote - 1) : (text[k] = "high" => ~Pend(k)) /\ (text[k] = "low" => Pend(k))
    BY Zenon, <2>0, Alternates DEF Alternate
  <2>3. \A k \in 1..(Quote - 1) : k \in surrogates <=> text[k] \in Surrogates
    BY Zenon, <2>1 DEF Surrogates
  <2>4. surrogates \in SUBSET (1..(Quote - 1))  BY Zenon, <2>1
  <2>. HIDE DEF surrogates
  <2>5. ASSUME NEW i \in surrogates, text[i] = "high"
        PROVE  \E j \in surrogates : Follows(j, i) /\ text[j] = "low"
    <3>. DEFINE later == {k \in surrogates : i < k}
    <3>1. i \in 1..(Quote - 1)  BY <2>4
    <3>2. later # {}
      <4>1. ASSUME later = {} PROVE FALSE
        <5>1. \A m \in (i + 1)..(Quote - 1) : m \in 1..(Quote - 1) /\ i < m  BY <2>1, <3>1
        <5>2. \A m \in (i + 1)..(Quote - 1) : text[m] \notin Surrogates  BY Zenon, <2>3, <4>1, <5>1
        <5>. QED  BY Zenon, <2>2, <2>5, <3>1, <5>2 DEF Pend
      <4>. QED  BY <4>1
    <3>3. later \in SUBSET Nat
      <4>1. \A k \in 1..(Quote - 1) : k \in Nat  BY <2>1
      <4>. QED  BY Zenon, <2>4, <4>1
    <3>4. PICK j \in later : \A k \in later : j <= k  BY <3>2, <3>3, LeastOf
    <3>5. j \in surrogates /\ i < j /\ j \in 1..(Quote - 1)  BY <2>4, <3>4
    <3>6. Follows(j, i)
      <4>1. ASSUME NEW k \in surrogates PROVE k <= i \/ j <= k
        <5>1. k \in Int /\ i \in Int /\ (i < k => j <= k)  BY <2>1, <2>4, <3>1, <3>4
        <5>. QED  BY <5>1
      <4>. QED  BY <3>5, <4>1
    <3>7. text[j] # "high"
      <4>1. ASSUME text[j] = "high" PROVE FALSE
        <5>1. i \in 1..(j - 1)
              /\ \A m \in (i + 1)..(j - 1) : m \in 1..(Quote - 1) /\ ~(m <= i) /\ ~(j <= m)
          BY <2>1, <3>1, <3>5
        <5>2. \A m \in (i + 1)..(j - 1) : text[m] \notin Surrogates  BY Zenon, <2>3, <3>6, <5>1
        <5>3. Pend(j)  BY Zenon, <2>5, <5>1, <5>2 DEF Pend
        <5>. QED  BY Zenon, <2>2, <3>5, <4>1, <5>3
      <4>. QED  BY <4>1
    <3>8. text[j] = "low"
      <4>1. text[j] \in {"high", "low"}  BY Zenon, <2>3, <3>5 DEF Surrogates
      <4>. QED  BY Zenon, <3>7, <4>1
    <3>. QED  BY Zenon, <3>5, <3>6, <3>8
  <2>6. ASSUME NEW j \in surrogates, text[j] = "low"
        PROVE  \E i \in surrogates : Follows(j, i) /\ text[i] = "high"
    <3>1. j \in 1..(Quote - 1)  BY <2>4
    <3>2. Pend(j)  BY Zenon, <2>2, <2>6, <3>1
    <3>3. PICK i \in 1..(j - 1) : text[i] = "high" /\ \A m \in (i + 1)..(j - 1) : text[m] \notin Surrogates
      BY <3>2 DEF Pend
    <3>4. i \in 1..(Quote - 1) /\ i < j  BY <2>1, <3>1
    <3>5. i \in surrogates
      <4>1. "high" \in Surrogates  BY DEF Surrogates
      <4>. QED  BY Zenon, <2>3, <3>3, <3>4, <4>1
    <3>6. ASSUME NEW k \in surrogates PROVE k <= i \/ j <= k
      <4>1. k \in 1..(Quote - 1)  BY <2>4
      <4>2. text[k] \in Surrogates  BY Zenon, <2>3, <4>1
      <4>3. k \notin (i + 1)..(j - 1)  BY Zenon, <3>3, <4>2
      <4>. QED  BY <2>1, <3>1, <3>4, <4>1, <4>3
    <3>. QED  BY Zenon, <3>3, <3>4, <3>5, <3>6
  <2>. QED  BY Zenon, <2>5, <2>6 DEF surrogates
<1>. QED  BY <1>1, WrittenAlways, PTL

-----------------------------------------------------------------------------
\* What a string says.

Symbols == Lexemes.string \cup {"pair"}

LEMMA EmptyJoins ==
  <<>> \in Seq(Symbols) /\ \A s \in Seq(Symbols) : s \o <<>> = s /\ <<>> \o s = s
<1>. DEFINE C == Symbols
<1>. HIDE DEF C
<1>1. <<>> \in Seq(C) /\ \A s \in Seq(C) : s \o <<>> = s /\ <<>> \o s = s
  BY EmptySeq, ConcatEmptySeq
<1>. QED  BY <1>1 DEF C

LEMMA Joins == \A s, t \in Seq(Symbols) : s \o t \in Seq(Symbols)
<1>. DEFINE C == Symbols
<1>. HIDE DEF C
<1>1. \A s, t \in Seq(C) : s \o t \in Seq(C)  BY ConcatProperties
<1>. QED  BY <1>1 DEF C

LEMMA JoinsAnyhow == \A s, t, u \in Seq(Symbols) : (s \o t) \o u = s \o (t \o u)
<1>. DEFINE C == Symbols
<1>. HIDE DEF C
<1>1. \A s, t, u \in Seq(C) : (s \o t) \o u = s \o (t \o u)  BY ConcatAssociative
<1>. QED  BY <1>1 DEF C

LEMMA JoinsFour ==
  \A s, t, u, v \in Seq(Symbols) :
    /\ s \o (t \o (u \o v)) = ((s \o t) \o u) \o v
    /\ t \o (u \o v) \in Seq(Symbols)
<1>. TAKE s, t, u, v \in Seq(Symbols)
<1>1. u \o v \in Seq(Symbols) /\ s \o t \in Seq(Symbols)  BY Joins
<1>2. s \o (t \o (u \o v)) = (s \o t) \o (u \o v)  BY ONLY <1>1, s \in Seq(Symbols), t \in Seq(Symbols), JoinsAnyhow
<1>3. (s \o t) \o (u \o v) = ((s \o t) \o u) \o v
  <2>. DEFINE b == s \o t
  <2>. HIDE DEF b
  <2>1. b \in Seq(Symbols)  BY <1>1 DEF b
  <2>2. b \o (u \o v) = (b \o u) \o v
    BY ONLY <2>1, u \in Seq(Symbols), v \in Seq(Symbols), JoinsAnyhow
  <2>. QED  BY ONLY <2>2 DEF b
<1>4. t \o (u \o v) \in Seq(Symbols)  BY ONLY <1>1, t \in Seq(Symbols), Joins
<1>. QED  BY ONLY <1>2, <1>3, <1>4

LEMMA SaidTyped == \A x \in Lexemes.string : Said(x) \in Seq(Symbols)
<1>. TAKE x \in Lexemes.string
<1>1. \A y \in Symbols : <<y>> \in Seq(Symbols)  OBVIOUS
<1>2. x \in Symbols /\ "pair" \in Symbols  BY DEF Symbols
<1>. QED  BY Zenon, <1>1, <1>2, EmptyJoins DEF Said

LEMMA Upwards ==
  ASSUME NEW n \in Nat, NEW S, 0 \in S, \A k \in 0..n : k \in S /\ k < n => k + 1 \in S
  PROVE  \A k \in 0..n : k \in S
<1>. DEFINE none == (0..n) \ S
<1>1. ASSUME NEW k \in none, \A j \in none : k <= j PROVE FALSE
  <2>1. k # 0 /\ k - 1 \in 0..n /\ k - 1 + 1 = k /\ k - 1 < n  BY <1>1
  <2>2. k - 1 \in S  BY <1>1, <2>1
  <2>. QED  BY <1>1, <2>1, <2>2
<1>2. none \in SUBSET Nat  OBVIOUS
<1>. QED  BY <1>1, <1>2, LeastOf

\* The prefixes of what a string says.
Saying(said) ==
  /\ said[0] = <<>>
  /\ \A k \in 1..(Quote - 1) : said[k] = said[k - 1] \o Said(text[k])
  /\ \A k \in 0..(Quote - 1) : said[k] \in Seq(Symbols)

LEMMA DecodedIs ==
  ASSUME StringText
  PROVE  \E said : Saying(said) /\ Decoded = said[Quote - 1]
<1>. DEFINE n == Quote - 1
            Is(f, k) == f[k] = IF k = 0 THEN <<>> ELSE f[k - 1] \o Said(text[k])
            Up(f, k) == \A i \in 0..k : Is(f, i)
            S == {k \in 0..n : \E f : Up(f, k)}
<1>0. n \in Nat /\ Len(Literal) = n  BY LiteralIs
<1>. HIDE DEF n
<1>1. 0 \in S
  <2>. DEFINE f == [i \in 0..n |-> <<>>]
  <2>1. Up(f, 0)  BY <1>0
  <2>2. 0 \in 0..n  BY <1>0
  <2>. HIDE DEF f
  <2>. QED  BY Zenon, <2>1, <2>2
<1>2. ASSUME NEW k \in 0..n, k \in S, k < n PROVE k + 1 \in S
  <2>1. PICK f : Up(f, k)  BY <1>2
  <2>. DEFINE g == [i \in 0..n |-> IF i = k + 1 THEN f[k] \o Said(text[k + 1]) ELSE f[i]]
  <2>2. /\ k + 1 \in 0..n /\ k + 1 # 0 /\ (k + 1) - 1 = k
        /\ \A i \in 0..(k + 1) : i = k + 1 \/ i \in 0..k
        /\ \A i \in 0..k : i \in 0..n /\ i # k + 1 /\ (i # 0 => i - 1 \in 0..k)
    BY <1>0, <1>2
  <2>3. g[k + 1] = f[k] \o Said(text[k + 1]) /\ \A i \in 0..k : g[i] = f[i]  BY <2>2
  <2>. HIDE DEF g
  <2>4. k \in 0..k  BY <1>2
  <2>5. Is(g, k + 1)  BY Zenon, <2>2, <2>3, <2>4
  <2>6. ASSUME NEW i \in 0..k PROVE Is(g, i)
    <3>1. Is(f, i)  BY Zenon, <2>1
    <3>2. CASE i = 0  BY Zenon, <2>3, <3>1, <3>2
    <3>3. CASE i # 0
      <4>1. g[i - 1] = f[i - 1] /\ g[i] = f[i]  BY Zenon, <2>2, <2>3, <3>3
      <4>. QED  BY Zenon, <3>1, <3>3, <4>1
    <3>. QED  BY <3>2, <3>3
  <2>7. Up(g, k + 1)  BY Zenon, <2>2, <2>5, <2>6
  <2>. QED  BY Zenon, <2>2, <2>7
<1>. HIDE DEF S
<1>3. n \in S
  <2>1. \A k \in 0..n : k \in S  BY <1>0, <1>1, <1>2, Upwards
  <2>. QED  BY <1>0, <2>1
<1>4. PICK f : Up(f, n)  BY <1>3 DEF S
<1>. DEFINE t == [k \in 0..n |-> f[k]]
<1>5. ASSUME NEW k \in 0..n PROVE t[k] = IF k = 0 THEN <<>> ELSE t[k - 1] \o Said(text[k])
  <2>1. t[k] = f[k] /\ (k # 0 => k - 1 \in 0..n)  BY <1>0
  <2>2. k # 0 => t[k - 1] = f[k - 1]  BY <2>1
  <2>3. Is(f, k)  BY Zenon, <1>4
  <2>. HIDE DEF t
  <2>. QED  BY Zenon, <2>1, <2>2, <2>3
<1>6. t = [k \in 0..n |-> t[k]]  OBVIOUS
<1>. HIDE DEF t
<1>7. t = [k \in 0..n |-> IF k = 0 THEN <<>> ELSE t[k - 1] \o Said(text[k])]
  BY Zenon, <1>5, <1>6
<1>. DEFINE said == CHOOSE h : h = [k \in 0..Len(Literal) |-> IF k = 0 THEN <<>> ELSE h[k - 1] \o Said(text[k])]
<1>8. Decoded = said[n]  BY Zenon, <1>0 DEF Decoded
<1>9. said = [k \in 0..n |-> IF k = 0 THEN <<>> ELSE said[k - 1] \o Said(text[k])]
  BY Zenon, <1>0, <1>7
<1>. HIDE DEF said
<1>10. \A k \in 0..n : said[k] = IF k = 0 THEN <<>> ELSE said[k - 1] \o Said(text[k])
  BY Zenon, <1>9
<1>11. said[0] = <<>>
  <2>1. 0 \in 0..n  BY <1>0
  <2>. QED  BY Zenon, <1>10, <2>1
<1>12. \A k \in 1..n : said[k] = said[k - 1] \o Said(text[k])
  <2>1. \A k \in 1..n : k \in 0..n /\ k # 0  BY <1>0
  <2>. QED  BY Zenon, <1>10, <2>1
<1>13. \A k \in 0..n : said[k] \in Seq(Symbols)
  <2>. DEFINE T == {k \in 0..n : said[k] \in Seq(Symbols)}
  <2>1. 0 \in T
    <3>1. 0 \in 0..n  BY <1>0
    <3>. QED  BY Zenon, <1>11, <3>1, EmptyJoins
  <2>2. ASSUME NEW k \in 0..n, k \in T, k < n PROVE k + 1 \in T
    <3>1. k + 1 \in 1..n /\ k + 1 \in 0..n /\ (k + 1) - 1 = k  BY <1>0, <2>2
    <3>2. said[k + 1] = said[k] \o Said(text[k + 1])  BY Zenon, <1>12, <3>1
    <3>3. text[k + 1] \in Lexemes.string  BY Zenon, <3>1, LiteralIs DEF n
    <3>4. Said(text[k + 1]) \in Seq(Symbols)  BY Zenon, <3>3, SaidTyped
    <3>5. said[k] \in Seq(Symbols)  BY <2>2
    <3>6. said[k + 1] \in Seq(Symbols)  BY Zenon, <3>2, <3>4, <3>5, Joins
    <3>. QED  BY Zenon, <3>1, <3>6
  <2>. HIDE DEF T
  <2>3. \A k \in 0..n : k \in T  BY <1>0, <2>1, <2>2, Upwards
  <2>. QED  BY <2>3 DEF T
<1>. QED  BY Zenon, <1>8, <1>11, <1>12, <1>13 DEF Saying, n

\* What is skipped is said as it is.
LEMMA SaidPlain ==
  ASSUME StringText, NEW said, Saying(said), NEW a \in 1..Quote, NEW b \in a..Quote, Plain(a, b)
  PROVE  said[b - 1] = said[a - 1] \o SubSeq(text, a, b - 1) /\ SubSeq(text, a, b - 1) \in Seq(Symbols)
<1>. DEFINE n == b - a
            Part1(k) == SubSeq(text, a, a + k - 1)
            S == {k \in 0..n : said[a + k - 1] = said[a - 1] \o Part1(k) /\ Part1(k) \in Seq(Symbols)}
<1>0. /\ Quote \in Nat /\ n \in Nat /\ a \in Nat \ {0} /\ b \in Nat /\ a + n - 1 = b - 1
      /\ Len(text) \in Nat /\ b <= Quote /\ Quote <= Len(text) + 1
  BY LiteralIs DEF End, StringText
<1>1. 0 \in S
  <2>1. a + 0 - 1 = a - 1 /\ a - 1 \in Int /\ a \in Int /\ a - 1 < a /\ a - 1 \in 0..(Quote - 1) /\ 0 \in 0..n
    BY <1>0
  <2>2. Part1(0) = <<>>  BY <2>1, SubSeqEmpty
  <2>3. said[a - 1] \in Seq(Symbols)  BY Zenon, <2>1 DEF Saying
  <2>. HIDE DEF Part1
  <2>4. said[a - 1] = said[a - 1] \o Part1(0) /\ Part1(0) \in Seq(Symbols)  BY Zenon, <2>2, <2>3, EmptyJoins
  <2>. QED  BY Zenon, <2>1, <2>4
<1>2. ASSUME NEW k \in 0..n, k \in S, k < n PROVE k + 1 \in S
  <2>. DEFINE i == a + k
  <2>1. /\ i \in 1..(Quote - 1) /\ i \in 1..Len(text) /\ i \in a..(b - 1) /\ a \in 1..Len(text)
        /\ i \in a..Len(text) /\ a + (k + 1) - 1 = i /\ k + 1 \in 0..n /\ a - 1 \in 0..(Quote - 1)
        /\ a + k - 1 = i - 1 /\ a + k = i
    BY <1>0, <1>2
  <2>. HIDE DEF i
  <2>2. SubSeq(text, a, i) = SubSeq(text, a, i - 1) \o <<text[i]>>
    BY <2>1, SubSeqRecursiveSecond DEF StringText
  <2>3. Part1(k + 1) = Part1(k) \o <<text[i]>>  BY Zenon, <2>1, <2>2
  <2>. HIDE DEF Part1
  <2>4. said[i] = said[i - 1] \o <<text[i]>>
    <3>1. text[i] \in {"plain"}  BY <2>1 DEF Plain
    <3>2. Said(text[i]) = <<text[i]>>  BY <3>1 DEF Said
    <3>. QED  BY Zenon, <2>1, <3>2 DEF Saying
  <2>5. <<text[i]>> \in Seq(Symbols)
    <3>1. text[i] \in Lexemes.string  BY Zenon, <2>1, LiteralIs
    <3>2. text[i] \in Symbols  BY Zenon, <3>1 DEF Symbols
    <3>3. \A y \in Symbols : <<y>> \in Seq(Symbols)  OBVIOUS
    <3>. QED  BY Zenon, <3>2, <3>3
  <2>6. said[i - 1] = said[a - 1] \o Part1(k) /\ Part1(k) \in Seq(Symbols)  BY Zenon, <1>2, <2>1
  <2>7. said[a - 1] \in Seq(Symbols)  BY Zenon, <2>1 DEF Saying
  <2>8. said[i] = said[a - 1] \o Part1(k + 1) /\ Part1(k + 1) \in Seq(Symbols)
    <3>1. (said[a - 1] \o Part1(k)) \o <<text[i]>> = said[a - 1] \o (Part1(k) \o <<text[i]>>)
      BY Zenon, <2>5, <2>6, <2>7, JoinsAnyhow
    <3>2. said[i] = (said[a - 1] \o Part1(k)) \o <<text[i]>>  BY Zenon, <2>4, <2>6
    <3>3. Part1(k) \o <<text[i]>> \in Seq(Symbols)  BY Zenon, <2>5, <2>6, Joins
    <3>. QED  BY Zenon, <2>3, <3>1, <3>2, <3>3
  <2>. QED  BY Zenon, <2>1, <2>8
<1>. HIDE DEF S
<1>3. \A k \in 0..n : k \in S  BY <1>0, <1>1, <1>2, Upwards
<1>4. n \in S  BY <1>0, <1>3
<1>. HIDE DEF n
<1>5. said[a + n - 1] = said[a - 1] \o Part1(n) /\ Part1(n) \in Seq(Symbols)  BY <1>4 DEF S
<1>. QED  BY Zenon, <1>0, <1>5

Half(i) == i > 1 /\ text[i - 1] = "high"

Ill == {"control", "bad escape"}
Clean(i) == Quote < End /\ \A k \in i..(Quote - 1) : text[k] \notin Ill

\* What a turn makes of text[i] where a second half comes if and only if it is waited for.
LEMMA LooksOn ==
  ASSUME NEW rest, NEW i, text[i] \in Lexemes.string, NEW high \in BOOLEAN, high <=> text[i] = "low"
  PROVE  /\ text[i] \in Ill => Looks(rest, i, high) = Fail
         /\ text[i] = "quote" => Looks(rest, i, high) = Ok(<<>>, i + 1)
         /\ text[i] = "high" => Looks(rest, i, high) = rest[i + 1][TRUE]
         /\ text[i] \notin Ill \cup {"quote", "high"} =>
              Looks(rest, i, high) = Behind(Said(text[i]), rest[i + 1][FALSE])
<1>1. text[i] \in {"plain", "quote", "control", "escape", "bad escape", "high", "low", "bmp"}
  BY DEF Lexemes
<1>2. text[i] \in Ill => Looks(rest, i, high) = Fail  BY Zenon DEF Ill, Looks, Unescape
<1>3. text[i] = "quote" => Looks(rest, i, high) = Ok(<<>>, i + 1)  BY Zenon DEF Looks
<1>4. text[i] = "high" => Looks(rest, i, high) = rest[i + 1][TRUE]  BY Zenon DEF Looks, Unescape
<1>5. ASSUME text[i] \notin Ill \cup {"quote", "high"}
      PROVE  Looks(rest, i, high) = Behind(Said(text[i]), rest[i + 1][FALSE])
  <2>1. text[i] \in {"plain", "escape", "low", "bmp"}  BY Zenon, <1>1, <1>5 DEF Ill
  <2>2. CASE text[i] = "plain"
    <3>1. Said(text[i]) = <<"plain">>  BY <2>2 DEF Said
    <3>. QED  BY Zenon, <2>2, <3>1 DEF Looks
  <2>3. CASE text[i] = "escape"
    <3>1. Said(text[i]) = <<"escape">>  BY <2>3 DEF Said
    <3>. QED  BY Zenon, <2>3, <3>1 DEF Looks, Unescape
  <2>4. CASE text[i] = "low"
    <3>1. Said(text[i]) = <<"pair">>  BY <2>4 DEF Said
    <3>. QED  BY Zenon, <2>4, <3>1 DEF Looks, Unescape
  <2>5. CASE text[i] = "bmp"
    <3>1. Said(text[i]) = <<"bmp">>  BY <2>5 DEF Said
    <3>2. high = FALSE  BY Zenon, <2>5
    <3>. QED  BY Zenon, <2>5, <3>1, <3>2 DEF Looks, Unescape
  <2>. QED  BY Zenon, <2>1, <2>2, <2>3, <2>4, <2>5
<1>. QED  BY Zenon, <1>2, <1>3, <1>4, <1>5

\* r is what the rest of the string from i on says.
Decodes(r, said, i) ==
  /\ r.value \in Seq(Symbols)
  /\ said[i - 1] \o r.value = said[Quote - 1] /\ r.cur = Quote + 1

LEMMA TurnDecodes ==
  ASSUME StringText, Together, NEW accel \in BOOLEAN, NEW said, Saying(said), NEW rest,
         NEW from \in 1..End, from <= Quote, NEW high \in BOOLEAN, high <=> Half(from),
         \A i \in (from + 1)..End : \A g \in BOOLEAN : i <= Quote /\ (g <=> Half(i)) =>
            (rest[i][g].ok <=> Clean(i)) /\ (rest[i][g].ok => Decodes(rest[i][g], said, i))
  PROVE  LET r == Turn(accel, rest, from, high)
         IN  (r.ok <=> Clean(from)) /\ (r.ok => Decodes(r, said, from))
<1>. DEFINE i == SkipTo(accel, from)
            r == Turn(accel, rest, from, high)
            part == SubSeq(text, from, i - 1)
<1>0. /\ End \in Nat \ {0} /\ Quote \in 1..End /\ (Quote < End => text[Quote] = "quote")
      /\ \A k \in 1..End : k < Quote => text[k] # "quote"
  BY Zenon, EndIs, QuoteIs
<1>1. i \in from..End /\ Plain(from, i)  BY SkipsPlain
<1>2. r = IF i < End THEN Behind(part, Looks(rest, i, high)) ELSE Fail  BY Zenon, TurnIs
<1>. HIDE DEF i, r
<1>3. \A k \in from..(i - 1) : text[k] = "plain"  BY <1>1 DEF Plain
<1>4. \A k \in 1..End : (k < End /\ text[k] = "low") <=> Half(k)
  <2>1. \A k \in 1..End : k \in 1..(Len(text) + 1) /\ (k <= Len(text) <=> k < End)
    <3>1. Len(text) \in Nat /\ End = Len(text) + 1  BY DEF StringText, End
    <3>. QED  BY <3>1
  <2>. QED  BY Zenon, <2>1 DEF Together, Half
<1>5. /\ i \in 1..End /\ i \in Nat /\ from \in 1..End /\ (Quote < i => Quote \in from..(i - 1))
      /\ (i < End => i + 1 \in (from + 1)..End /\ (i + 1) - 1 = i)
      /\ (i # from => from \in from..(i - 1) /\ i - 1 \in from..(i - 1) /\ i > 1)
  BY <1>0, <1>1
<1>6. ASSUME Quote < End PROVE i <= Quote
  <2>1. ~(Quote < i)  BY Zenon, <1>0, <1>3, <1>5, <1>6
  <2>. QED  BY <1>0, <1>5, <2>1
<1>7. ASSUME ~(i < End) PROVE ~r.ok /\ ~Clean(from)
  <2>1. ~r.ok  BY <1>2, <1>7 DEF Fail
  <2>2. ~(Quote < End)
    <3>1. Quote < End => i < End  BY <1>0, <1>5, <1>6
    <3>. QED  BY Zenon, <1>7, <3>1
  <2>. QED  BY Zenon, <2>1, <2>2 DEF Clean
<1>8. ASSUME i < End PROVE (r.ok <=> Clean(from)) /\ (r.ok => Decodes(r, said, from))
  <2>1. text[i] \in Lexemes.string  BY <1>5, <1>8, TextHas
  <2>2. high <=> text[i] = "low"
    <3>1. CASE i = from  BY Zenon, <1>4, <1>5, <1>8, <3>1
    <3>2. CASE i # from
      <4>1. text[from] = "plain" /\ text[i - 1] = "plain"  BY Zenon, <1>3, <1>5, <3>2
      <4>2. ~Half(i) /\ ~Half(from)  BY Zenon, <1>4, <1>5, <4>1 DEF Half
      <4>. QED  BY Zenon, <1>4, <1>5, <1>8, <4>2
    <3>. QED  BY <3>1, <3>2
  <2>3. i <= Quote
    <3>1. CASE Quote < End  BY <1>6, <3>1
    <3>2. CASE ~(Quote < End)  BY <1>0, <1>5, <3>2
    <3>. QED  BY <3>1, <3>2
  <2>4. said[i - 1] = said[from - 1] \o part /\ part \in Seq(Symbols)
    <3>1. from \in 1..Quote /\ i \in from..Quote  BY <1>0, <1>1, <2>3
    <3>. QED  BY Zenon, <1>1, <3>1, SaidPlain
  <2>5. said[from - 1] \in Seq(Symbols)
    <3>1. from - 1 \in 0..(Quote - 1)  BY <1>0
    <3>. QED  BY Zenon, <3>1 DEF Saying
  <2>6. r = Behind(part, Looks(rest, i, high))  BY Zenon, <1>2, <1>8
  <2>. DEFINE looks == Looks(rest, i, high)
  <2>. HIDE DEF part, looks
  <2>10. /\ looks.ok => r.ok /\ r.value = part \o looks.value /\ r.cur = looks.cur
         /\ ~looks.ok => ~r.ok
    <3>1. r = Behind(part, looks)  BY <2>6 DEF looks
    <3>. QED  BY Zenon, <3>1, BehindIs
  <2>7. CASE text[i] \in Ill
    <3>1. ~r.ok
      <4>1. looks = Fail  BY Zenon, <2>1, <2>2, <2>7, LooksOn DEF looks
      <4>2. ~Fail.ok  BY DEF Fail
      <4>. QED  BY Zenon, <2>10, <4>1, <4>2
    <3>2. ASSUME Clean(from) PROVE FALSE
      <4>1. Quote < End /\ \A k \in from..(Quote - 1) : text[k] \notin Ill  BY Zenon, <3>2 DEF Clean
      <4>2. "quote" \notin Ill  BY DEF Ill
      <4>3. i # Quote  BY Zenon, <1>0, <2>7, <4>1, <4>2
      <4>4. i \in from..(Quote - 1)  BY <1>0, <1>1, <2>3, <4>3
      <4>. QED  BY Zenon, <2>7, <4>1, <4>4
    <3>. QED  BY Zenon, <3>1, <3>2
  <2>8. CASE text[i] = "quote"
    <3>1. Quote = i
      <4>1. ~(i < Quote)  BY Zenon, <1>0, <1>5, <2>8
      <4>. QED  BY <1>0, <1>5, <2>3, <4>1
    <3>2. looks = Ok(<<>>, i + 1)  BY Zenon, <2>1, <2>2, <2>8, LooksOn DEF looks
    <3>3. Ok(<<>>, i + 1).ok /\ Ok(<<>>, i + 1).value = <<>> /\ Ok(<<>>, i + 1).cur = i + 1  BY DEF Ok
    <3>4. r.ok /\ r.value = part \o <<>> /\ r.cur = i + 1  BY Zenon, <2>10, <3>2, <3>3
    <3>5. r.value = part  BY Zenon, <2>4, <3>4, EmptyJoins
    <3>6. "plain" \notin Ill  BY DEF Ill
    <3>7. Clean(from)  BY Zenon, <1>3, <1>8, <3>1, <3>6 DEF Clean
    <3>8. Decodes(r, said, from)  BY Zenon, <2>4, <3>1, <3>4, <3>5 DEF Decodes
    <3>. QED  BY Zenon, <3>4, <3>7, <3>8
  <2>9. CASE text[i] \notin Ill \cup {"quote"}
    <3>. DEFINE g == text[i] = "high"
                s == rest[i + 1][g]
    <3>1. i # Quote  BY Zenon, <1>0, <1>8, <2>9
    <3>2. i + 1 <= Quote /\ i \in 1..(Quote - 1)  BY <1>0, <1>5, <2>3, <3>1
    <3>3. g <=> Half(i + 1)
      <4>1. i + 1 > 1 /\ (i + 1) - 1 = i  BY <1>5
      <4>. QED  BY Zenon, <4>1 DEF Half
    <3>4. (s.ok <=> Clean(i + 1)) /\ (s.ok => Decodes(s, said, i + 1))
      <4>1. g \in BOOLEAN  OBVIOUS
      <4>2. i + 1 \in (from + 1)..End  BY <1>5, <1>8
      <4>. QED  BY Zenon, <3>2, <3>3, <4>1, <4>2
    <3>5. Clean(from) <=> Clean(i + 1)
      <4>1. "plain" \notin Ill  BY DEF Ill
      <4>2. /\ \A k \in from..(Quote - 1) : k \in from..(i - 1) \/ k = i \/ k \in (i + 1)..(Quote - 1)
            /\ \A k \in (i + 1)..(Quote - 1) : k \in from..(Quote - 1)
        BY <1>0, <1>1, <1>5
      <4>. QED  BY Zenon, <1>3, <2>9, <4>1, <4>2 DEF Clean
    <3>6. Said(text[i]) \in Seq(Symbols)  BY Zenon, <2>1, SaidTyped
    <3>7. (looks.ok <=> s.ok)
          /\ (s.ok => looks.value = Said(text[i]) \o s.value /\ looks.cur = s.cur)
      <4>1. CASE text[i] = "high"
        <5>1. s = rest[i + 1][TRUE]  BY Zenon, <4>1
        <5>2. looks = rest[i + 1][TRUE]  BY Zenon, <2>1, <2>2, <4>1, LooksOn DEF looks
        <5>3. Said(text[i]) = <<>>  BY <4>1 DEF Said
        <5>. HIDE DEF s
        <5>4. s.ok => s.value \in Seq(Symbols)  BY Zenon, <3>4 DEF Decodes
        <5>5. s.ok => Said(text[i]) \o s.value = s.value  BY Zenon, <5>3, <5>4, EmptyJoins
        <5>. QED  BY Zenon, <5>1, <5>2, <5>5
      <4>2. CASE text[i] # "high"
        <5>1. s = rest[i + 1][FALSE]  BY Zenon, <4>2
        <5>2. looks = Behind(Said(text[i]), rest[i + 1][FALSE])
          BY Zenon, <2>1, <2>2, <2>9, <4>2, LooksOn DEF looks
        <5>3. looks = Behind(Said(text[i]), s)  BY Zenon, <5>1, <5>2
        <5>. HIDE DEF s
        <5>. DEFINE said_ == Said(text[i])
        <5>. HIDE DEF said_
        <5>4. looks = Behind(said_, s)  BY <5>3 DEF said_
        <5>5. /\ s.ok => looks.ok /\ looks.value = said_ \o s.value /\ looks.cur = s.cur
              /\ ~s.ok => ~looks.ok
          BY Zenon, <5>4, BehindIs
        <5>. QED  BY Zenon, <5>5 DEF said_
      <4>. QED  BY <4>1, <4>2
    <3>. HIDE DEF s, g
    <3>8. r.ok <=> s.ok  BY Zenon, <2>10, <3>7
    <3>9. ASSUME s.ok PROVE Decodes(r, said, from)
      <4>1. r.value = part \o (Said(text[i]) \o s.value) /\ r.cur = s.cur
        BY Zenon, <2>10, <3>7, <3>9
      <4>2. s.value \in Seq(Symbols) /\ said[(i + 1) - 1] \o s.value = said[Quote - 1]
            /\ s.cur = Quote + 1
        <5>1. Decodes(s, said, i + 1)  BY <3>4, <3>9
        <5>. QED  BY ONLY <5>1 DEF Decodes
      <4>3. said[(i + 1) - 1] = (said[from - 1] \o part) \o Said(text[i])
        BY Zenon, <1>5, <1>8, <2>4, <3>2 DEF Saying
      <4>4. /\ said[from - 1] \o r.value = said[(i + 1) - 1] \o s.value
            /\ r.value \in Seq(Symbols)
        <5>1. /\ said[from - 1] \o (part \o (Said(text[i]) \o s.value))
                   = ((said[from - 1] \o part) \o Said(text[i])) \o s.value
              /\ part \o (Said(text[i]) \o s.value) \in Seq(Symbols)
          <6>1. /\ said[from - 1] \in Seq(Symbols) /\ part \in Seq(Symbols)
                /\ Said(text[i]) \in Seq(Symbols) /\ s.value \in Seq(Symbols)
            BY ONLY <2>4, <2>5, <3>6, <4>2
          <6>. DEFINE a == said[from - 1]
                      b == Said(text[i])
                      v == s.value
          <6>. HIDE DEF a, b, v
          <6>2. /\ a \in Seq(Symbols) /\ b \in Seq(Symbols) /\ v \in Seq(Symbols)
                /\ part \in Seq(Symbols)
            BY ONLY <6>1 DEF a, b, v
          <6>3. /\ a \o (part \o (b \o v)) = ((a \o part) \o b) \o v
                /\ part \o (b \o v) \in Seq(Symbols)
            <7>1. \A t, u, w \in Seq(Symbols) : /\ a \o (t \o (u \o w)) = ((a \o t) \o u) \o w
                                                /\ t \o (u \o w) \in Seq(Symbols)
              BY ONLY <6>2, JoinsFour, Zenon
            <7>2. \A u, w \in Seq(Symbols) : /\ a \o (part \o (u \o w)) = ((a \o part) \o u) \o w
                                             /\ part \o (u \o w) \in Seq(Symbols)
              BY ONLY <6>2, <7>1, Zenon
            <7>. QED  BY ONLY <6>2, <7>2, Zenon
          <6>. QED  BY ONLY <6>3 DEF a, b, v
        <5>. QED  BY ONLY <4>1, <4>3, <5>1
      <4>. QED  BY Zenon, <4>1, <4>2, <4>4 DEF Decodes
    <3>. QED  BY Zenon, <3>4, <3>5, <3>8, <3>9
  <2>. QED  BY Zenon, <2>7, <2>8, <2>9
<1>. QED  BY Zenon, <1>7, <1>8 DEF r

LEMMA StringDecodes ==
  ASSUME StringText, Together, NEW accel \in BOOLEAN
  PROVE  LET s == ParseString(accel)
         IN  /\ s.ok \in BOOLEAN /\ (s.ok <=> Clean(1))
             /\ s.ok => s.value = Decoded /\ s.cur = Quote + 1
<1>1. PICK rest : /\ ParseString(accel) = rest[1][FALSE]
                  /\ \A i \in 1..End : \A high \in BOOLEAN :
                       rest[i][high] = Turn(accel, rest, i, high)
  BY StringRead
<1>2. PICK said : Saying(said) /\ Decoded = said[Quote - 1]  BY DecodedIs
<1>. DEFINE Claim(i) == \A high \in BOOLEAN : i <= Quote /\ (high <=> Half(i)) =>
              (rest[i][high].ok <=> Clean(i)) /\ (rest[i][high].ok => Decodes(rest[i][high], said, i))
            S == {i \in 1..End : Claim(i)}
<1>0. End \in Nat \ {0} /\ 1 \in 1..End /\ Quote \in 1..End /\ 1 <= Quote  BY EndIs, QuoteIs
<1>3. ASSUME NEW from \in 1..End, \A j \in (from + 1)..End : j \in S PROVE from \in S
  <2>. SUFFICES ASSUME NEW high \in BOOLEAN, from <= Quote, high <=> Half(from)
                PROVE  /\ rest[from][high].ok <=> Clean(from)
                       /\ rest[from][high].ok => Decodes(rest[from][high], said, from)
    BY Zenon DEF S
  <2>1. \A i \in (from + 1)..End : \A g \in BOOLEAN : i <= Quote /\ (g <=> Half(i)) =>
            (rest[i][g].ok <=> Clean(i)) /\ (rest[i][g].ok => Decodes(rest[i][g], said, i))
    BY Zenon, <1>3 DEF S
  <2>2. rest[from][high] = Turn(accel, rest, from, high)  BY Zenon, <1>1
  <2>3. LET r == Turn(accel, rest, from, high)
        IN  (r.ok <=> Clean(from)) /\ (r.ok => Decodes(r, said, from))
    BY <1>2, <2>1, TurnDecodes
  <2>. QED  BY Zenon, <2>2, <2>3
<1>. HIDE DEF S
<1>4. \A i \in 1..End : i \in S  BY <1>0, <1>3, Backwards
<1>5. ~Half(1)  BY DEF Half
<1>. DEFINE s == ParseString(accel)
<1>6. s = rest[1][FALSE]  BY <1>1
<1>7. (s.ok <=> Clean(1)) /\ (s.ok => Decodes(s, said, 1))  BY Zenon, <1>0, <1>4, <1>5, <1>6 DEF S
<1>8. s.ok \in BOOLEAN
  <2>1. s = Turn(accel, rest, 1, FALSE)  BY Zenon, <1>0, <1>1
  <2>2. \A before, r : Behind(before, r).ok \in BOOLEAN  BY DEF Behind, Ok, Fail
  <2>3. Fail.ok \in BOOLEAN  BY DEF Fail
  <2>4. s = IF SkipTo(accel, 1) < End
            THEN Behind(SubSeq(text, 1, SkipTo(accel, 1) - 1), Looks(rest, SkipTo(accel, 1), FALSE))
            ELSE Fail
    BY Zenon, <1>0, <2>1, TurnIs
  <2>. HIDE DEF s
  <2>. QED  BY Zenon, <2>2, <2>3, <2>4
<1>. HIDE DEF s
<1>9. ASSUME s.ok PROVE s.value = Decoded /\ s.cur = Quote + 1
  <2>1. s.value \in Seq(Symbols) /\ said[1 - 1] \o s.value = said[Quote - 1] /\ s.cur = Quote + 1
    BY Zenon, <1>7, <1>9 DEF Decodes
  <2>2. 1 - 1 = 0  OBVIOUS
  <2>3. said[0] = <<>>  BY <1>2 DEF Saying
  <2>4. <<>> \o s.value = s.value  BY <2>1, EmptyJoins
  <2>. QED  BY Zenon, <1>2, <2>1, <2>2, <2>3, <2>4
<1>. QED  BY <1>7, <1>8, <1>9 DEF s

\* A string whose surrogates come in pairs is decoded as it should be, in packs or not.
THEOREM StringsDecodedAlways == Spec => []StringsDecoded
<1>1. Written => StringsDecoded
  <2>. SUFFICES ASSUME Written, subject = "string", Together, NEW accel \in BOOLEAN
                PROVE  LET s == ParseString(accel)
                           good == Len(Literal) < Len(text)
                                   /\ ToSet(Literal) \cap {"control", "bad escape"} = {}
                       IN  s.ok = good /\ (good => s.value = Decoded /\ s.cur = Len(Literal) + 2)
    BY Zenon DEF StringsDecoded
  <2>. DEFINE s == ParseString(accel)
              good == Len(Literal) < Len(text) /\ ToSet(Literal) \cap {"control", "bad escape"} = {}
  <2>0. StringText  BY Zenon DEF Written, StringText
  <2>1. /\ s.ok \in BOOLEAN /\ (s.ok <=> Clean(1))
        /\ s.ok => s.value = Decoded /\ s.cur = Quote + 1
    BY Zenon, <2>0, StringDecodes
  <2>2. /\ Quote \in 1..End /\ Quote - 1 \in Nat
        /\ DOMAIN Literal = 1..(Quote - 1) /\ Len(Literal) = Quote - 1
        /\ \A k \in 1..(Quote - 1) : Literal[k] = text[k]
    BY Zenon, <2>0, LiteralIs
  <2>3. Len(text) \in Nat /\ End = Len(text) + 1  BY <2>0 DEF StringText, End
  <2>4. (Len(Literal) < Len(text) <=> Quote < End) /\ Len(Literal) + 2 = Quote + 1  BY <2>2, <2>3
  <2>5. ToSet(Literal) \cap {"control", "bad escape"} = {} <=> \A k \in 1..(Quote - 1) : text[k] \notin Ill
    <3>1. ToSet(Literal) = {Literal[k] : k \in 1..(Quote - 1)}  BY Zenon, <2>2 DEF ToSet
    <3>2. ToSet(Literal) = {text[k] : k \in 1..(Quote - 1)}  BY Zenon, <2>2, <3>1
    <3>. QED  BY Zenon, <3>2 DEF Ill
  <2>. HIDE DEF s
  <2>6. good <=> Clean(1)  BY Zenon, <2>4, <2>5 DEF Clean
  <2>7. good \in BOOLEAN  OBVIOUS
  <2>. HIDE DEF good
  <2>8. s.ok = good
    <3>1. CASE good  BY <2>1, <2>6, <2>7, <3>1
    <3>2. CASE ~good  BY <2>1, <2>6, <2>7, <3>2
    <3>. QED  BY <3>1, <3>2
  <2>9. good => s.value = Decoded /\ s.cur = Len(Literal) + 2  BY Zenon, <2>1, <2>4, <2>6
  <2>. QED  BY Zenon, <2>8, <2>9 DEF s, good
<1>. QED  BY <1>1, WrittenAlways, PTL

-----------------------------------------------------------------------------
\* Documents.

DocText == text \in Seq(Lexemes.document)

\* Where the text stops, or ends.
Halt(c) == FirstNotIn(Lexemes.document \ Stop(c), 1)

LEMMA HaltIs ==
  ASSUME DocText, NEW c \in BOOLEAN
  PROVE  /\ Len(text) \in Nat /\ Halt(c) \in 1..(Len(text) + 1)
         /\ Halt(c) <= Len(text) => text[Halt(c)] \in Stop(c)
         /\ \A k \in 1..(Halt(c) - 1) : text[k] \in Lexemes.document /\ text[k] \notin Stop(c)
<1>1. Len(text) \in Nat /\ 1 \in 1..(Len(text) + 1)  BY DEF DocText
<1>2. /\ Halt(c) \in 1..(Len(text) + 1)
      /\ Halt(c) <= Len(text) => text[Halt(c)] \notin Lexemes.document \ Stop(c)
      /\ \A k \in 1..(Halt(c) - 1) : text[k] \in Lexemes.document \ Stop(c)
  BY <1>1, FirstIs DEF Halt, DocText
<1>3. \A k \in 1..Len(text) : text[k] \in Lexemes.document  BY ElementOfSeq DEF DocText
<1>4. Halt(c) <= Len(text) => Halt(c) \in 1..Len(text)  BY <1>1, <1>2
<1>. QED  BY Zenon, <1>1, <1>2, <1>3, <1>4

\* Blanks are skipped to the next lexeme, or to where the text stops.
LEMMA SkipIs ==
  ASSUME DocText, NEW c \in BOOLEAN, NEW i \in 1..Halt(c)
  PROVE  /\ Skip(i, c) \in i..Halt(c)
         /\ \A k \in i..(Skip(i, c) - 1) : text[k] \in Blank(c)
         /\ More(i, c) <=> Skip(i, c) < Halt(c)
         /\ Skip(i, c) < Halt(c) => text[Skip(i, c)] \notin Blank(c)
<1>1. /\ Len(text) \in Nat /\ Halt(c) \in 1..(Len(text) + 1)
      /\ Halt(c) <= Len(text) => text[Halt(c)] \in Stop(c)
      /\ \A k \in 1..(Halt(c) - 1) : text[k] \notin Stop(c)
  BY HaltIs
<1>2. i \in 1..(Len(text) + 1)  BY <1>1
<1>3. /\ Skip(i, c) \in i..(Len(text) + 1)
      /\ Skip(i, c) <= Len(text) => text[Skip(i, c)] \notin Blank(c)
      /\ \A k \in i..(Skip(i, c) - 1) : text[k] \in Blank(c)
  BY <1>2, FirstIs DEF Skip, DocText
<1>. DEFINE j == Skip(i, c)
            h == Halt(c)
<1>4. More(i, c) <=> j <= Len(text) /\ text[j] \notin Stop(c)  BY DEF More
<1>. HIDE DEF j, h
<1>5. \A x : x \in Stop(c) => x \notin Blank(c)  BY DEF Stop, Blank
<1>6. j \in i..h
  <2>1. SUFFICES ASSUME h < j PROVE FALSE  BY <1>1, <1>3 DEF j, h
  <2>2. h \in i..(j - 1) /\ h <= Len(text)  BY <1>1, <1>3, <2>1 DEF j, h
  <2>3. text[h] \in Blank(c) /\ text[h] \in Stop(c)  BY <1>1, <1>3, <2>2 DEF j, h
  <2>. QED  BY <1>5, <2>3
<1>7. More(i, c) <=> j < h
  <2>1. CASE j < h
    <3>1. j \in 1..(h - 1) /\ j <= Len(text)  BY <1>1, <1>6, <2>1 DEF h
    <3>. QED  BY <1>1, <1>4, <2>1, <3>1 DEF h
  <2>2. CASE ~(j < h)
    <3>1. j = h  BY <1>1, <1>6, <2>2 DEF h
    <3>. QED  BY <1>1, <1>4, <2>2, <3>1 DEF h
  <2>. QED  BY <2>1, <2>2
<1>8. j < h => j <= Len(text)  BY <1>1, <1>6 DEF h
<1>. QED  BY <1>3, <1>6, <1>7, <1>8 DEF j, h

\* What comes before is what the parser has to make sense of.
LEMMA FrontIs ==
  ASSUME DocText, NEW c \in BOOLEAN
  PROVE  /\ Len(UpToStop(c)) = Halt(c) - 1
         /\ \A k \in 1..(Halt(c) - 1) : UpToStop(c)[k] = text[k]
<1>1. /\ Len(text) \in Nat /\ Halt(c) \in 1..(Len(text) + 1)
      /\ \A k \in 1..(Halt(c) - 1) : text[k] \in Lexemes.document
  BY HaltIs
<1>. DEFINE S == Lexemes.document
            m == Halt(c) - 1
<1>2. m \in Int /\ 1 \in Int /\ \A k \in 1..m : text[k] \in S /\ 1 + k - 1 = k  BY <1>1
<1>3. UpToStop(c) = SubSeq(text, 1, m)  BY DEF UpToStop, Halt
<1>4. (IF 1 <= m THEN m - 1 + 1 ELSE 0) = m /\ m - 1 + 1 = m  BY <1>1
<1>. HIDE DEF S, m
<1>5. /\ Len(SubSeq(text, 1, m)) = (IF 1 <= m THEN m - 1 + 1 ELSE 0)
      /\ \A k \in 1..(m - 1 + 1) : SubSeq(text, 1, m)[k] = text[1 + k - 1]
  BY <1>2, SubSeqProperties
<1>6. \A k \in 1..m : SubSeq(text, 1, m)[k] = text[k]
  <2>. TAKE k \in 1..m
  <2>1. SubSeq(text, 1, m)[k] = text[1 + k - 1] /\ 1 + k - 1 = k  BY <1>2, <1>4, <1>5
  <2>. QED  BY <2>1
<1>7. Len(SubSeq(text, 1, m)) = m  BY <1>4, <1>5
<1>. QED  BY <1>3, <1>6, <1>7 DEF m

\* The prefixes of what is spoken.
Speaking(said, c) ==
  /\ said[0] = <<>>
  /\ \A k \in 1..(Halt(c) - 1) :
       said[k] = IF text[k] \in Blank(c) THEN said[k - 1] ELSE Append(said[k - 1], text[k])
  /\ \A k \in 0..(Halt(c) - 1) : said[k] \in Seq(Lexemes.document)

LEMMA SpokenIs ==
  ASSUME DocText, NEW c \in BOOLEAN
  PROVE  \E said : Speaking(said, c) /\ Spoken(UpToStop(c), c) = said[Halt(c) - 1]
<1>. DEFINE n == Halt(c) - 1
            t == UpToStop(c)
            Next1(f, k) == IF t[k] \in Blank(c) THEN f[k - 1] ELSE Append(f[k - 1], t[k])
            Is(f, k) == f[k] = IF k = 0 THEN <<>> ELSE Next1(f, k)
            Up(f, k) == \A i \in 0..k : Is(f, i)
            S == {k \in 0..n : \E f : Up(f, k)}
<1>0. n \in Nat /\ Len(t) = n /\ \A k \in 1..n : t[k] = text[k]
  <2>1. Len(text) \in Nat /\ Halt(c) \in 1..(Len(text) + 1)  BY HaltIs
  <2>2. n \in Nat  BY <2>1
  <2>. QED  BY <2>2, FrontIs
<1>. HIDE DEF n, t
<1>1. 0 \in S
  <2>. DEFINE f == [i \in 0..n |-> <<>>]
  <2>1. Up(f, 0)
    <3>1. \A i \in 0..0 : i = 0 /\ i \in 0..n  BY <1>0
    <3>2. \A i \in 0..n : f[i] = <<>>  OBVIOUS
    <3>. HIDE DEF f
    <3>. QED  BY Zenon, <3>1, <3>2
  <2>2. 0 \in 0..n  BY <1>0
  <2>. HIDE DEF f
  <2>. QED  BY Zenon, <2>1, <2>2
<1>2. ASSUME NEW k \in 0..n, k \in S, k < n PROVE k + 1 \in S
  <2>1. PICK f : Up(f, k)  BY <1>2
  <2>. DEFINE x == Next1(f, k + 1)
              g == [i \in 0..n |-> IF i = k + 1 THEN x ELSE f[i]]
  <2>2. /\ k + 1 \in 0..n /\ k + 1 # 0 /\ (k + 1) - 1 = k
        /\ \A i \in 0..(k + 1) : i = k + 1 \/ i \in 0..k
        /\ \A i \in 0..k : i \in 0..n /\ i # k + 1 /\ (i # 0 => i - 1 \in 0..k)
    BY <1>0, <1>2
  <2>. HIDE DEF x
  <2>3. g[k + 1] = x /\ \A i \in 0..k : g[i] = f[i]  BY <2>2
  <2>. HIDE DEF g
  <2>4. k \in 0..k  BY <1>2
  <2>5. Is(g, k + 1)
    <3>1. g[(k + 1) - 1] = f[(k + 1) - 1]  BY Zenon, <2>2, <2>3, <2>4
    <3>2. Next1(g, k + 1) = x  BY Zenon, <3>1 DEF x
    <3>. QED  BY Zenon, <2>2, <2>3, <3>2
  <2>6. ASSUME NEW i \in 0..k PROVE Is(g, i)
    <3>1. Is(f, i)  BY Zenon, <2>1
    <3>2. CASE i = 0  BY Zenon, <2>3, <3>1, <3>2
    <3>3. CASE i # 0
      <4>1. g[i - 1] = f[i - 1] /\ g[i] = f[i]  BY Zenon, <2>2, <2>3, <3>3
      <4>. QED  BY Zenon, <3>1, <3>3, <4>1
    <3>. QED  BY <3>2, <3>3
  <2>7. Up(g, k + 1)  BY Zenon, <2>2, <2>5, <2>6
  <2>. QED  BY Zenon, <2>2, <2>7
<1>. HIDE DEF S
<1>3. n \in S
  <2>1. \A k \in 0..n : k \in S  BY <1>0, <1>1, <1>2, Upwards
  <2>. QED  BY <1>0, <2>1
<1>4. PICK f : Up(f, n)  BY <1>3 DEF S
<1>. DEFINE g == [k \in 0..n |-> f[k]]
<1>5. ASSUME NEW k \in 0..n PROVE g[k] = IF k = 0 THEN <<>> ELSE Next1(g, k)
  <2>1. g[k] = f[k] /\ (k # 0 => k - 1 \in 0..n)  BY <1>0
  <2>2. k # 0 => g[k - 1] = f[k - 1]  BY <2>1
  <2>3. Is(f, k)  BY Zenon, <1>4
  <2>. HIDE DEF g
  <2>. QED  BY Zenon, <2>1, <2>2, <2>3
<1>6. g = [k \in 0..n |-> g[k]]  OBVIOUS
<1>. HIDE DEF g
<1>7. g = [k \in 0..n |-> IF k = 0 THEN <<>> ELSE Next1(g, k)]  BY Zenon, <1>5, <1>6
<1>. DEFINE said == CHOOSE h : h = [k \in 0..Len(t) |->
                      IF k = 0 THEN <<>>
                      ELSE IF t[k] \in Blank(c) THEN h[k - 1] ELSE Append(h[k - 1], t[k])]
<1>8. Spoken(t, c) = said[n]  BY Zenon, <1>0 DEF Spoken
<1>9. said = [k \in 0..n |-> IF k = 0 THEN <<>> ELSE Next1(said, k)]  BY Zenon, <1>0, <1>7
<1>. HIDE DEF said
<1>10. \A k \in 0..n : said[k] = IF k = 0 THEN <<>> ELSE Next1(said, k)  BY Zenon, <1>9
<1>11. said[0] = <<>>
  <2>1. 0 \in 0..n  BY <1>0
  <2>. QED  BY Zenon, <1>10, <2>1
<1>12. \A k \in 1..n :
         said[k] = IF text[k] \in Blank(c) THEN said[k - 1] ELSE Append(said[k - 1], text[k])
  <2>1. \A k \in 1..n : k \in 0..n /\ k # 0  BY <1>0
  <2>. QED  BY Zenon, <1>0, <1>10, <2>1
<1>13. \A k \in 0..n : said[k] \in Seq(Lexemes.document)
  <2>. DEFINE L == Lexemes.document
              T == {k \in 0..n : said[k] \in Seq(L)}
  <2>0. \A k \in 1..n : text[k] \in L  BY HaltIs DEF n
  <2>. HIDE DEF L
  <2>1. 0 \in T
    <3>1. 0 \in 0..n /\ <<>> \in Seq(L)  BY <1>0, EmptySeq
    <3>. QED  BY Zenon, <1>11, <3>1
  <2>2. ASSUME NEW k \in 0..n, k \in T, k < n PROVE k + 1 \in T
    <3>1. k + 1 \in 1..n /\ k + 1 \in 0..n /\ (k + 1) - 1 = k  BY <1>0, <2>2
    <3>2. said[k + 1] = said[k] \/ said[k + 1] = Append(said[k], text[k + 1])  BY Zenon, <1>12, <3>1
    <3>3. said[k] \in Seq(L) /\ text[k + 1] \in L  BY <2>0, <2>2, <3>1
    <3>4. said[k + 1] \in Seq(L)  BY <3>2, <3>3, AppendProperties
    <3>. QED  BY Zenon, <3>1, <3>4
  <2>. HIDE DEF T
  <2>3. \A k \in 0..n : k \in T  BY <1>0, <2>1, <2>2, Upwards
  <2>. QED  BY <2>3 DEF T, L
<1>. QED  BY Zenon, <1>8, <1>11, <1>12, <1>13 DEF Speaking, n, t


\* u is what is spoken, and n[i] is how much of it comes before i.
Reading(u, n, c) ==
  /\ Len(u) \in Nat
  /\ n[1] = 0 /\ n[Halt(c)] = Len(u)
  /\ \A i \in 1..Halt(c) : n[i] \in 0..Len(u)
  /\ \A i \in 1..(Halt(c) - 1) :
       IF text[i] \in Blank(c) THEN n[i + 1] = n[i] ELSE n[i + 1] = n[i] + 1 /\ u[n[i + 1]] = text[i]

LEMMA ReadingIs ==
  ASSUME DocText, NEW c \in BOOLEAN
  PROVE  \E n : Reading(Spoken(UpToStop(c), c), n, c)
<1>. DEFINE h == Halt(c) - 1
<1>1. PICK said : Speaking(said, c) /\ Spoken(UpToStop(c), c) = said[h]  BY SpokenIs
<1>2. /\ h \in Nat /\ Halt(c) = h + 1
      /\ \A k \in 1..h : text[k] \in Lexemes.document
  <2>1. Len(text) \in Nat /\ Halt(c) \in 1..(Len(text) + 1)
        /\ \A k \in 1..(Halt(c) - 1) : text[k] \in Lexemes.document
    BY HaltIs
  <2>. QED  BY <2>1
<1>. DEFINE D == Lexemes.document
<1>3. /\ said[0] = <<>>
      /\ \A k \in 1..h : said[k] = IF text[k] \in Blank(c) THEN said[k - 1]
                                   ELSE Append(said[k - 1], text[k])
      /\ \A k \in 0..h : said[k] \in Seq(D)
  BY Zenon, <1>1 DEF Speaking
<1>4. \A k \in 1..h : text[k] \in D  BY <1>2
<1>. HIDE DEF h, D
<1>5. ASSUME NEW k \in 1..h
      PROVE  /\ Len(said[k]) \in Nat /\ Len(said[k - 1]) \in Nat
             /\ text[k] \in Blank(c) => said[k] = said[k - 1]
             /\ text[k] \notin Blank(c) => /\ Len(said[k]) = Len(said[k - 1]) + 1
                                           /\ said[k][Len(said[k])] = text[k]
             /\ \A p \in 1..Len(said[k - 1]) : said[k][p] = said[k - 1][p]
  <2>1. k \in 0..h /\ k - 1 \in 0..h  BY <1>2
  <2>2. said[k] \in Seq(D) /\ said[k - 1] \in Seq(D) /\ text[k] \in D  BY <1>3, <1>4, <2>1
  <2>3. CASE text[k] \in Blank(c)
    <3>1. said[k] = said[k - 1]  BY Zenon, <1>3, <2>3
    <3>. QED  BY <2>2, <2>3, <3>1
  <2>4. CASE text[k] \notin Blank(c)
    <3>1. said[k] = Append(said[k - 1], text[k])  BY Zenon, <1>3, <2>4
    <3>. QED  BY <2>2, <2>4, <3>1, AppendProperties
  <2>. QED  BY <2>3, <2>4
<1>. DEFINE S == {k \in 0..h : \A i \in 1..k :
                    /\ Len(said[i]) <= Len(said[k])
                    /\ text[i] \notin Blank(c) => said[k][Len(said[i])] = text[i]}
<1>6. 0 \in S  BY <1>2
<1>7. ASSUME NEW k \in 0..h, k \in S, k < h PROVE k + 1 \in S
  <2>1. k + 1 \in 1..h /\ k + 1 \in 0..h /\ (k + 1) - 1 = k  BY <1>2, <1>7
  <2>2. /\ Len(said[k + 1]) \in Nat /\ Len(said[k]) \in Nat /\ Len(said[k]) <= Len(said[k + 1])
        /\ \A p \in 1..Len(said[k]) : said[k + 1][p] = said[k][p]
        /\ text[k + 1] \notin Blank(c) => said[k + 1][Len(said[k + 1])] = text[k + 1]
    BY <1>5, <2>1
  <2>3. ASSUME NEW i \in 1..(k + 1)
        PROVE  /\ Len(said[i]) <= Len(said[k + 1])
               /\ text[i] \notin Blank(c) => said[k + 1][Len(said[i])] = text[i]
    <3>1. CASE i = k + 1  BY <2>2, <3>1
    <3>2. CASE i # k + 1
      <4>1. i \in 1..k /\ i \in 1..h  BY <1>2, <1>7, <3>2
      <4>2. /\ Len(said[i]) <= Len(said[k])
            /\ text[i] \notin Blank(c) => said[k][Len(said[i])] = text[i]
        BY <1>7, <4>1
      <4>3. /\ Len(said[i]) \in Nat
            /\ text[i] \notin Blank(c) => Len(said[i]) = Len(said[i - 1]) + 1 /\ Len(said[i - 1]) \in Nat
        BY <1>5, <4>1
      <4>4. text[i] \notin Blank(c) => Len(said[i]) \in 1..Len(said[k])  BY <2>2, <4>2, <4>3
      <4>. QED  BY <2>2, <4>2, <4>3, <4>4
    <3>. QED  BY <3>1, <3>2
  <2>. QED  BY <2>1, <2>3
<1>8. h \in S
  <2>. HIDE DEF S
  <2>1. \A k \in 0..h : k \in S  BY <1>2, <1>6, <1>7, Upwards
  <2>. QED  BY <1>2, <2>1
<1>. DEFINE n == [i \in 1..(h + 1) |-> Len(said[i - 1])]
            u == said[h]
<1>9. Len(u) \in Nat
  <2>1. h \in 0..h  BY <1>2
  <2>. QED  BY <1>3, <2>1
<1>10. n[1] = 0 /\ n[h + 1] = Len(u)
  <2>1. 1 \in 1..(h + 1) /\ h + 1 \in 1..(h + 1) /\ 1 - 1 = 0 /\ (h + 1) - 1 = h  BY <1>2
  <2>. QED  BY <1>3, <2>1, EmptySeq
<1>11. ASSUME NEW i \in 1..(h + 1) PROVE n[i] \in 0..Len(u)
  <2>1. i - 1 = 0 \/ i - 1 \in 1..h  BY <1>2
  <2>2. CASE i - 1 = 0
    <3>1. n[i] = Len(<<>>)  BY <1>3, <2>2
    <3>. QED  BY <1>9, <3>1
  <2>3. CASE i - 1 \in 1..h
    <3>1. Len(said[i - 1]) \in Nat /\ Len(said[i - 1]) <= Len(u)  BY <1>5, <1>8, <2>3
    <3>. QED  BY <1>9, <3>1
  <2>. QED  BY <2>1, <2>2, <2>3
<1>12. ASSUME NEW i \in 1..h
       PROVE  IF text[i] \in Blank(c) THEN n[i + 1] = n[i]
              ELSE n[i + 1] = n[i] + 1 /\ u[n[i + 1]] = text[i]
  <2>1. i \in 1..(h + 1) /\ i + 1 \in 1..(h + 1) /\ (i + 1) - 1 = i  BY <1>2
  <2>2. n[i] = Len(said[i - 1]) /\ n[i + 1] = Len(said[i])  BY <2>1
  <2>3. /\ text[i] \in Blank(c) => said[i] = said[i - 1]
        /\ text[i] \notin Blank(c) => Len(said[i]) = Len(said[i - 1]) + 1
    BY <1>5
  <2>4. text[i] \notin Blank(c) => u[Len(said[i])] = text[i]  BY <1>8
  <2>. HIDE DEF n, u
  <2>. QED  BY <2>2, <2>3, <2>4
<1>. HIDE DEF n, u
<1>13. /\ n[Halt(c)] = Len(u)
       /\ \A i \in 1..Halt(c) : n[i] \in 0..Len(u)
  BY Zenon, <1>2, <1>10, <1>11
<1>14. Reading(u, n, c)
  <2>1. h = Halt(c) - 1  BY DEF h
  <2>2. \A i \in 1..(Halt(c) - 1) :
          IF text[i] \in Blank(c) THEN n[i + 1] = n[i]
          ELSE n[i + 1] = n[i] + 1 /\ u[n[i + 1]] = text[i]
    BY Zenon, <1>12, <2>1
  <2>3. n[1] = 0  BY <1>10
  <2>. QED  BY Zenon, <1>9, <1>13, <2>2, <2>3 DEF Reading
<1>15. u = Spoken(UpToStop(c), c)  BY <1>1 DEF u
<1>. QED  BY Zenon, <1>14, <1>15

\* A place that is no blank: text[i] is the next of u.
Solid(u, n, c, i) ==
  /\ i \in 1..(Halt(c) - 1) /\ i + 1 \in 1..Halt(c)
  /\ n[i] \in 0..(Len(u) - 1) /\ n[i + 1] = n[i] + 1
  /\ text[i] = u[n[i] + 1]

\* There is more exactly if u has more, and it is found at the place skipped to.
LEMMA MoreIs ==
  ASSUME DocText, NEW c \in BOOLEAN, NEW u, NEW n, Reading(u, n, c), NEW i \in 1..Halt(c)
  PROVE  /\ More(i, c) <=> n[i] < Len(u)
         /\ More(i, c) => Solid(u, n, c, Skip(i, c))
         /\ Skip(i, c) \in i..Halt(c) /\ n[Skip(i, c)] = n[i]
<1>. DEFINE h == Halt(c)
            j == Skip(i, c)
<1>1. h \in Nat \ {0}
  <2>1. Len(text) \in Nat /\ h \in 1..(Len(text) + 1)  BY HaltIs
  <2>. QED  BY <2>1
<1>2. /\ j \in i..h
      /\ \A k \in i..(j - 1) : text[k] \in Blank(c)
      /\ More(i, c) <=> j < h
      /\ j < h => text[j] \notin Blank(c)
  BY SkipIs
<1>3. /\ Len(u) \in Nat
      /\ n[h] = Len(u)
      /\ \A k \in 1..h : n[k] \in 0..Len(u)
      /\ \A k \in 1..(h - 1) :
           /\ text[k] \in Blank(c) => n[k + 1] = n[k]
           /\ text[k] \notin Blank(c) => n[k + 1] = n[k] + 1 /\ u[n[k + 1]] = text[k]
  BY Zenon DEF Reading
<1>. HIDE DEF h, j
<1>4. n[j] = n[i]
  <2>. DEFINE S == {d \in 0..(j - i) : n[i + d] = n[i]}
  <2>1. 0 \in S /\ j - i \in Nat  BY <1>1, <1>2 DEF h
  <2>2. ASSUME NEW d \in 0..(j - i), d \in S, d < j - i PROVE d + 1 \in S
    <3>1. i + d \in i..(j - 1) /\ i + d \in 1..(h - 1) /\ i + (d + 1) = (i + d) + 1
          /\ d + 1 \in 0..(j - i)
      BY <1>1, <1>2, <2>2 DEF h
    <3>2. n[i + d] = n[i]  BY <2>2
    <3>3. n[(i + d) + 1] = n[i + d]  BY <1>2, <1>3, <3>1
    <3>. QED  BY <3>1, <3>2, <3>3
  <2>. HIDE DEF S
  <2>3. \A d \in 0..(j - i) : d \in S  BY <2>1, <2>2, Upwards
  <2>4. j - i \in 0..(j - i) /\ i + (j - i) = j  BY <1>1, <1>2, <2>1 DEF h
  <2>5. j - i \in S  BY <2>3, <2>4
  <2>. QED  BY <2>4, <2>5 DEF S
<1>5. ASSUME j < h PROVE Solid(u, n, c, j) /\ n[j] < Len(u)
  <2>1. j \in 1..(h - 1) /\ j + 1 \in 1..h /\ j \in 1..h  BY <1>1, <1>2, <1>5 DEF h
  <2>2. n[j + 1] = n[j] + 1 /\ u[n[j + 1]] = text[j] /\ n[j] \in 0..Len(u) /\ n[j + 1] \in 0..Len(u)
    BY <1>2, <1>3, <1>5, <2>1
  <2>3. n[j] \in 0..(Len(u) - 1)  BY <1>3, <2>2
  <2>. QED  BY <1>3, <2>1, <2>2, <2>3 DEF Solid, h
<1>6. ASSUME ~(j < h) PROVE ~(n[j] < Len(u))
  <2>1. j = h  BY <1>1, <1>2, <1>6 DEF h
  <2>. QED  BY <1>3, <2>1
<1>. QED  BY <1>2, <1>4, <1>5, <1>6 DEF h, j


\* The punctuation, named.
Comma     == ","
Colon     == ":"
ListOpen  == "["
ListClose == "]"
MapOpen   == "{"
MapClose  == "}"

LEMMA PunctuationIs ==
  /\ Comma # ListClose /\ Comma # MapClose /\ ListOpen # MapOpen
  /\ \A x \in {Comma, Colon, ListOpen, ListClose, MapOpen, MapClose} : x \notin Scalars
<1>1. Comma # ListClose /\ Comma # MapClose /\ ListOpen # MapOpen
  BY Zenon DEF Comma, ListClose, MapClose, ListOpen, MapOpen
<1>2. \A x : x \in {"[", "]", "{", "}", ",", ":", "blank", "comment", "stop"} => x \notin Scalars
  BY Zenon, ScalarsDiffer
<1>3. \A x \in {Comma, Colon, ListOpen, ListClose, MapOpen, MapClose} :
        x \in {"[", "]", "{", "}", ",", ":", "blank", "comment", "stop"}
  BY Zenon DEF Comma, Colon, ListOpen, ListClose, MapOpen, MapClose
<1>. QED  BY Zenon, <1>1, <1>2, <1>3

\* The ways to a result: by a record that is good, by another result, by none.
Good(x, value, cur) == x.ok /\ x.value = value /\ x.cur = cur

LEMMA OkIs == ASSUME NEW value, NEW cur PROVE Good(Ok(value, cur), value, cur)
  BY DEF Good, Ok

LEMMA FailIs == ~Fail.ok  BY DEF Fail

CloseGood(x, i, bracket, value) ==
  (x.ok <=> text[i] = bracket) /\ (text[i] = bracket => Good(x, value, i + 1))

LEMMA CloseIs ==
  ASSUME NEW i, NEW bracket, NEW value
  PROVE  CloseGood(Close(i, bracket, value), i, bracket, value)
<1>1. CASE text[i] = bracket  BY <1>1 DEF Close, Ok, CloseGood, Good
<1>2. CASE text[i] # bracket  BY <1>2 DEF Close, Fail, CloseGood
<1>. QED  BY <1>1, <1>2

BehindGood(x, before, r) ==
  (x.ok <=> r.ok) /\ (r.ok => Good(x, before \o r.value, r.cur))

LEMMA BehindGoodIs ==
  ASSUME NEW before, NEW r
  PROVE  BehindGood(Behind(before, r), before, r)
<1>. DEFINE w == before \o r.value
<1>0. Behind(before, r) = IF r.ok THEN Ok(w, r.cur) ELSE Fail  BY DEF Behind
<1>. HIDE DEF w
<1>1. CASE r.ok
  <2>1. Behind(before, r) = Ok(w, r.cur)  BY <1>0, <1>1
  <2>. QED  BY <1>1, <2>1 DEF Ok, Good, BehindGood, w
<1>2. CASE ~r.ok  BY <1>0, <1>2 DEF Fail, BehindGood
<1>. QED  BY <1>1, <1>2

JoinedGood(x, key, value, r) ==
  (x.ok <=> r.ok) /\ (r.ok => Good(x, With(r.value, key, value), r.cur))

LEMMA JoinedIs ==
  ASSUME NEW key, NEW value, NEW r
  PROVE  JoinedGood(Joined(key, value, r), key, value, r)
<1>. DEFINE w == With(r.value, key, value)
<1>0. Joined(key, value, r) = IF r.ok THEN Ok(w, r.cur) ELSE Fail  BY Zenon DEF Joined
<1>. HIDE DEF w
<1>1. CASE r.ok
  <2>1. Good(Joined(key, value, r), w, r.cur)  BY <1>0, <1>1 DEF Ok, Good
  <2>2. Joined(key, value, r).ok  BY <2>1 DEF Good
  <2>. QED  BY Zenon, <1>1, <2>1, <2>2 DEF JoinedGood, w
<1>2. CASE ~r.ok  BY <1>0, <1>2 DEF Fail, JoinedGood
<1>. QED  BY <1>1, <1>2

TypedGood(x, type, r) ==
  (x.ok <=> r.ok) /\ (r.ok => Good(x, <<type, r.value>>, r.cur))

LEMMA TypedIs ==
  ASSUME NEW type, NEW r
  PROVE  TypedGood(Typed(type, r), type, r)
<1>1. CASE r.ok  BY <1>1 DEF Typed, Ok, Good, TypedGood
<1>2. CASE ~r.ok  BY <1>2 DEF Typed, Fail, TypedGood
<1>. QED  BY <1>1, <1>2

\* The loop of parse_array, by how it goes on: v is the element read at j, k where it
\* looks then, and r what follows a comma there.
ListEmpty(i, c, j) == More(i + 1, c) /\ c /\ text[j] = ListClose
ListItem(i, c, j, v) == /\ More(i + 1, c) /\ ~(c /\ text[j] = ListClose)
                        /\ v.ok /\ More(v.cur, c)
ListOne(i, c, j, v, k) == ListItem(i, c, j, v) /\ text[k] = ListClose
ListMore(i, c, j, v, k, r) == ListItem(i, c, j, v) /\ text[k] = Comma /\ r.ok

ListRead(x, i, c, j, v, k, r) ==
  /\ x.ok => ListEmpty(i, c, j) \/ ListOne(i, c, j, v, k) \/ ListMore(i, c, j, v, k, r)
  /\ ListEmpty(i, c, j) => Good(x, <<>>, j + 1)
  /\ ListOne(i, c, j, v, k) => Good(x, <<v.value>>, k + 1)
  /\ ListMore(i, c, j, v, k, r) => Good(x, <<v.value>> \o r.value, r.cur)

ListTurn(i, c, j, v, k, r) ==
  IF ~More(i + 1, c) THEN Fail
  ELSE IF c /\ text[j] = ListClose THEN Ok(<<>>, j + 1)
  ELSE IF ~v.ok THEN Fail
  ELSE IF ~More(v.cur, c) THEN Fail
  ELSE IF text[k] = Comma THEN Behind(<<v.value>>, r)
  ELSE Close(k, ListClose, <<v.value>>)

LEMMA ListTurnIs ==
  ASSUME NEW i, NEW c, NEW j, NEW v, NEW k, NEW r
  PROVE  ListRead(ListTurn(i, c, j, v, k, r), i, c, j, v, k, r)
<1>. DEFINE x == ListTurn(i, c, j, v, k, r)
            cl == Close(k, ListClose, <<v.value>>)
            be == Behind(<<v.value>>, r)
            em == Ok(<<>>, j + 1)
<1>1. x = IF ~More(i + 1, c) THEN Fail
          ELSE IF c /\ text[j] = ListClose THEN em
          ELSE IF ~v.ok THEN Fail
          ELSE IF ~More(v.cur, c) THEN Fail
          ELSE IF text[k] = Comma THEN be
          ELSE cl
  BY Zenon DEF ListTurn
<1>2. CloseGood(cl, k, ListClose, <<v.value>>)  BY Zenon, CloseIs
<1>3. BehindGood(be, <<v.value>>, r)  BY Zenon, BehindGoodIs
<1>4. Good(em, <<>>, j + 1)  BY Zenon, OkIs
<1>. HIDE DEF x, cl, be, em
<1>. DEFINE Item == ListItem(i, c, j, v)
            Empty == ListEmpty(i, c, j)
<1>7. CASE ~Empty /\ ~Item
  <2>1. x = Fail  BY Zenon, <1>1, <1>7 DEF ListEmpty, ListItem
  <2>. HIDE DEF Item, Empty
  <2>. QED  BY Zenon, FailIs, <1>7, <2>1 DEF ListRead, ListOne, ListMore, x, Item, Empty
<1>8. CASE Empty
  <2>1. x = em /\ ~Item  BY Zenon, <1>1, <1>8 DEF ListEmpty, ListItem
  <2>. HIDE DEF Item, Empty
  <2>. QED  BY Zenon, <1>4, <1>8, <2>1 DEF ListRead, ListOne, ListMore, x, Item, Empty
<1>9. CASE Item /\ text[k] = Comma
  <2>1. x = be /\ ~Empty  BY Zenon, <1>1, <1>9 DEF ListEmpty, ListItem
  <2>. HIDE DEF Item, Empty
  <2>. QED  BY Zenon, <1>3, PunctuationIs, <1>9, <2>1
         DEF ListRead, ListOne, ListMore, BehindGood, x, Item, Empty
<1>10. CASE Item /\ text[k] # Comma
  <2>1. x = cl /\ ~Empty  BY Zenon, <1>1, <1>10 DEF ListEmpty, ListItem
  <2>. HIDE DEF Item, Empty
  <2>. QED  BY Zenon, <1>2, <1>10, <2>1 DEF ListRead, ListOne, ListMore, CloseGood, x, Item, Empty
<1>. QED  BY Zenon, <1>7, <1>8, <1>9, <1>10

\* The loop of parse_object: the key is at j, the colon at k.
MapEmpty(i, c, j) == More(i + 1, c) /\ c /\ text[j] = MapClose
MapItem(i, keys, c, j, k, v) ==
  /\ More(i + 1, c) /\ ~(c /\ text[j] = MapClose) /\ text[j] \in Keys /\ text[j] \notin keys
  /\ More(j + 1, c) /\ text[k] = Colon /\ More(k + 1, c)
  /\ v.ok /\ More(v.cur, c)
MapOne(i, keys, c, j, k, v, n) == MapItem(i, keys, c, j, k, v) /\ text[n] = MapClose
MapMore(i, keys, c, j, k, v, n, r) == MapItem(i, keys, c, j, k, v) /\ text[n] = Comma /\ r.ok

MapRead(x, i, keys, c, j, k, v, n, r) ==
  /\ x.ok => \/ MapEmpty(i, c, j)
             \/ MapOne(i, keys, c, j, k, v, n)
             \/ MapMore(i, keys, c, j, k, v, n, r)
  /\ MapEmpty(i, c, j) => Good(x, <<>>, j + 1)
  /\ MapOne(i, keys, c, j, k, v, n) => Good(x, With(<<>>, text[j], v.value), n + 1)
  /\ MapMore(i, keys, c, j, k, v, n, r) => Good(x, With(r.value, text[j], v.value), r.cur)

MapTurn(i, keys, c, j, k, v, n, r) ==
  IF ~More(i + 1, c) THEN Fail
  ELSE IF c /\ text[j] = MapClose THEN Ok(<<>>, j + 1)
  ELSE IF ~(text[j] \in Keys /\ More(j + 1, c)) THEN Fail
  ELSE IF ~(text[k] = Colon /\ More(k + 1, c)) THEN Fail
  ELSE IF ~v.ok THEN Fail
  ELSE IF ~More(v.cur, c) \/ text[j] \in keys THEN Fail
  ELSE IF text[n] = Comma THEN Joined(text[j], v.value, r)
  ELSE Close(n, MapClose, With(<<>>, text[j], v.value))

LEMMA MapTurnIs ==
  ASSUME NEW i, NEW keys, NEW c, NEW j, NEW k, NEW v, NEW n, NEW r
  PROVE  MapRead(MapTurn(i, keys, c, j, k, v, n, r), i, keys, c, j, k, v, n, r)
<1>. DEFINE x == MapTurn(i, keys, c, j, k, v, n, r)
            one == With(<<>>, text[j], v.value)
            cl == Close(n, MapClose, one)
            jo == Joined(text[j], v.value, r)
            em == Ok(<<>>, j + 1)
<1>1. x = IF ~More(i + 1, c) THEN Fail
          ELSE IF c /\ text[j] = MapClose THEN em
          ELSE IF ~(text[j] \in Keys /\ More(j + 1, c)) THEN Fail
          ELSE IF ~(text[k] = Colon /\ More(k + 1, c)) THEN Fail
          ELSE IF ~v.ok THEN Fail
          ELSE IF ~More(v.cur, c) \/ text[j] \in keys THEN Fail
          ELSE IF text[n] = Comma THEN jo
          ELSE cl
  BY Zenon DEF MapTurn
<1>2. CloseGood(cl, n, MapClose, one)  BY Zenon, CloseIs
<1>3. JoinedGood(jo, text[j], v.value, r)  BY Zenon, JoinedIs
<1>4. Good(em, <<>>, j + 1)  BY Zenon, OkIs
<1>. HIDE DEF x, cl, jo, em
<1>. DEFINE Item == MapItem(i, keys, c, j, k, v)
            Empty == MapEmpty(i, c, j)
<1>7. CASE ~Empty /\ ~Item
  <2>1. x = Fail  BY Zenon, <1>1, <1>7 DEF MapEmpty, MapItem
  <2>. HIDE DEF Item, Empty
  <2>. QED  BY Zenon, FailIs, <1>7, <2>1 DEF MapRead, MapOne, MapMore, x, Item, Empty
<1>8. CASE Empty
  <2>1. x = em /\ ~Item  BY Zenon, <1>1, <1>8 DEF MapEmpty, MapItem
  <2>. HIDE DEF Item, Empty
  <2>. QED  BY Zenon, <1>4, <1>8, <2>1 DEF MapRead, MapOne, MapMore, x, Item, Empty
<1>9. CASE Item /\ text[n] = Comma
  <2>1. x = jo /\ ~Empty  BY Zenon, <1>1, <1>9 DEF MapEmpty, MapItem
  <2>. HIDE DEF Item, Empty
  <2>. QED  BY Zenon, <1>3, PunctuationIs, <1>9, <2>1
         DEF MapRead, MapOne, MapMore, JoinedGood, x, Item, Empty
<1>10. CASE Item /\ text[n] # Comma
  <2>1. x = cl /\ ~Empty  BY Zenon, <1>1, <1>10 DEF MapEmpty, MapItem
  <2>. HIDE DEF Item, Empty
  <2>. QED  BY Zenon, <1>2, <1>10, <2>1 DEF MapRead, MapOne, MapMore, CloseGood, x, Item, Empty
<1>. QED  BY Zenon, <1>7, <1>8, <1>9, <1>10

\* A value: a scalar, brackets around nothing, or around what e or m is.
Hollow(i, c, j, opening, closing) ==
  text[i] = opening /\ More(i + 1, c) /\ text[j] = closing
Filled(i, c, j, opening, closing, e) ==
  text[i] = opening /\ More(i + 1, c) /\ text[j] # closing /\ e.ok

BracketsRead(x, i, c, j, opening, closing, type, e) ==
  /\ Hollow(i, c, j, opening, closing) => Good(x, <<type, <<>> >>, j + 1)
  /\ Filled(i, c, j, opening, closing, e) => Good(x, <<type, e.value>>, e.cur)
  /\ x.ok /\ text[i] = opening =>
       Hollow(i, c, j, opening, closing) \/ Filled(i, c, j, opening, closing, e)

Brackets(i, c, j, closing, type, e) ==
  IF ~More(i + 1, c) THEN Fail
  ELSE IF text[j] = closing THEN Ok(<<type, <<>> >>, j + 1) ELSE Typed(type, e)

LEMMA BracketsAre ==
  ASSUME NEW x, NEW i, NEW c, NEW j, NEW opening, NEW closing, NEW type, NEW e,
         text[i] = opening => x = Brackets(i, c, j, closing, type, e)
  PROVE  BracketsRead(x, i, c, j, opening, closing, type, e)
<1>. DEFINE em == Ok(<<type, <<>> >>, j + 1)
            ty == Typed(type, e)
<1>1. Good(em, <<type, <<>> >>, j + 1)  BY Zenon, OkIs
<1>2. TypedGood(ty, type, e)  BY Zenon, TypedIs
<1>5. text[i] = opening =>
        x = IF ~More(i + 1, c) THEN Fail ELSE IF text[j] = closing THEN em ELSE ty
  BY Zenon DEF Brackets
<1>. HIDE DEF em, ty
<1>6. CASE text[i] # opening  BY Zenon, <1>6 DEF BracketsRead, Hollow, Filled
<1>7. CASE text[i] = opening /\ ~More(i + 1, c)
  BY Zenon, <1>5, <1>7, FailIs DEF BracketsRead, Hollow, Filled
<1>8. CASE text[i] = opening /\ More(i + 1, c) /\ text[j] = closing
  <2>1. x = em  BY Zenon, <1>5, <1>8
  <2>. QED  BY Zenon, <1>1, <1>8, <2>1 DEF BracketsRead, Hollow, Filled
<1>9. CASE text[i] = opening /\ More(i + 1, c) /\ text[j] # closing
  <2>1. x = ty  BY Zenon, <1>5, <1>9
  <2>. QED  BY Zenon, <1>2, <1>9, <2>1 DEF BracketsRead, Hollow, Filled, TypedGood
<1>. QED  BY Zenon, <1>6, <1>7, <1>8, <1>9

ValueRead(x, i, c, j, e, m) ==
  /\ text[i] \in Scalars => Good(x, <<text[i]>>, i + 1)
  /\ BracketsRead(x, i, c, j, ListOpen, ListClose, "array", e)
  /\ BracketsRead(x, i, c, j, MapOpen, MapClose, "object", m)
  /\ x.ok => text[i] \in Scalars \/ text[i] = ListOpen \/ text[i] = MapOpen

ValueTurn(i, c, j, e, m) ==
  CASE text[i] \in Scalars -> Ok(<<text[i]>>, i + 1)
    [] text[i] = ListOpen -> Brackets(i, c, j, ListClose, "array", e)
    [] text[i] = MapOpen -> Brackets(i, c, j, MapClose, "object", m)
    [] OTHER -> Fail

LEMMA ValueTurnIs ==
  ASSUME NEW i, NEW c, NEW j, NEW e, NEW m
  PROVE  ValueRead(ValueTurn(i, c, j, e, m), i, c, j, e, m)
<1>. DEFINE x == ValueTurn(i, c, j, e, m)
            sc == Ok(<<text[i]>>, i + 1)
            pa == Brackets(i, c, j, ListClose, "array", e)
            po == Brackets(i, c, j, MapClose, "object", m)
<1>1. x = CASE text[i] \in Scalars -> sc [] text[i] = ListOpen -> pa [] text[i] = MapOpen -> po
            [] OTHER -> Fail
  BY Zenon DEF ValueTurn
<1>2. ListOpen \notin Scalars /\ MapOpen \notin Scalars /\ ListOpen # MapOpen
  <2>1. ListOpen \in {Comma, Colon, ListOpen, ListClose, MapOpen, MapClose}
        /\ MapOpen \in {Comma, Colon, ListOpen, ListClose, MapOpen, MapClose}
    OBVIOUS
  <2>. QED  BY Zenon, <2>1, PunctuationIs
<1>3. Good(sc, <<text[i]>>, i + 1)  BY Zenon, OkIs
<1>. HIDE DEF x, sc, pa, po
<1>7. text[i] = ListOpen => x = pa  BY <1>1, <1>2
<1>8. text[i] = MapOpen => x = po  BY <1>1, <1>2
<1>9. text[i] \in Scalars => x = sc  BY <1>1, <1>2
<1>10. ~(text[i] \in Scalars \/ text[i] = ListOpen \/ text[i] = MapOpen) => x = Fail  BY <1>1
<1>11. BracketsRead(x, i, c, j, ListOpen, ListClose, "array", e)  BY Zenon, <1>7, BracketsAre DEF pa
<1>12. BracketsRead(x, i, c, j, MapOpen, MapClose, "object", m)  BY Zenon, <1>8, BracketsAre DEF po
<1>13. x.ok => text[i] \in Scalars \/ text[i] = ListOpen \/ text[i] = MapOpen
  BY Zenon, FailIs, <1>10
<1>14. text[i] \in Scalars => Good(x, <<text[i]>>, i + 1)  BY Zenon, <1>3, <1>9
<1>. QED  BY Zenon, <1>11, <1>12, <1>13, <1>14 DEF ValueRead, x


\* The descent is defined: each of its loops goes on.
Onward(x, i) == x.ok => x.cur \in (i + 1)..(Len(text) + 1)
Ahead(R, i) ==
  \A j \in (i + 1)..Len(text) : \A keys \in SUBSET Keys :
    /\ Onward(R[j]["value"][keys], j)
    /\ Onward(R[j]["elements"][keys], j)
    /\ Onward(R[j]["members"][keys], j)

LEMMA SkipOn ==
  ASSUME DocText, NEW c \in BOOLEAN, NEW i \in 1..(Len(text) + 1)
  PROVE  Skip(i, c) \in i..(Len(text) + 1) /\ (More(i, c) => Skip(i, c) \in i..Len(text))
<1>1. Skip(i, c) \in i..(Len(text) + 1)  BY FirstIs DEF Skip, DocText
<1>2. More(i, c) => Skip(i, c) <= Len(text)  BY Zenon DEF More
<1>3. Len(text) \in Nat  BY DEF DocText
<1>. QED  BY <1>1, <1>2, <1>3

\* An element: where it is, what it is, where it ends and what follows; and a member.
ItemAt(i, c) == Skip(i + 1, c)
ItemOf(R, i, c) == R[ItemAt(i, c)]["value"][{}]
ItemEnd(R, i, c) == Skip(ItemOf(R, i, c).cur, c)
ItemRest(R, i, c) == R[ItemEnd(R, i, c)]["elements"][{}]

ColonAt(i, c) == Skip(ItemAt(i, c) + 1, c)
MemberAt(i, c) == Skip(ColonAt(i, c) + 1, c)
MemberOf(R, i, c) == R[MemberAt(i, c)]["value"][{}]
MemberEnd(R, i, c) == Skip(MemberOf(R, i, c).cur, c)
MemberRest(R, i, keys, c) == R[MemberEnd(R, i, c)]["members"][keys \cup {text[ItemAt(i, c)]}]

LEMMA ElementsAre ==
  ASSUME NEW R, NEW i, NEW c
  PROVE  Elements(R, i, c) =
           ListTurn(i, c, ItemAt(i, c), ItemOf(R, i, c), ItemEnd(R, i, c), ItemRest(R, i, c))
  BY Zenon DEF Elements, ListTurn, ItemAt, ItemOf, ItemEnd, ItemRest, Comma, ListClose

LEMMA MembersAre ==
  ASSUME NEW R, NEW i, NEW keys, NEW c
  PROVE  Members(R, i, keys, c) =
           MapTurn(i, keys, c, ItemAt(i, c), ColonAt(i, c), MemberOf(R, i, c),
                   MemberEnd(R, i, c), MemberRest(R, i, keys, c))
  BY Zenon DEF Members, MapTurn, ItemAt, ColonAt, MemberAt, MemberOf, MemberEnd, MemberRest,
               Comma, Colon, MapClose

LEMMA ValueIs ==
  ASSUME NEW R, NEW i, NEW c
  PROVE  ParseValue(R, i, c) =
           ValueTurn(i, c, ItemAt(i, c), Elements(R, i, c), Members(R, i, {}, c))
<1>1. ParseArray(R, i, c) = Brackets(i, c, ItemAt(i, c), ListClose, "array", Elements(R, i, c))
  BY Zenon DEF ParseArray, Brackets, ItemAt, ListClose
<1>2. ParseObject(R, i, c) = Brackets(i, c, ItemAt(i, c), MapClose, "object", Members(R, i, {}, c))
  BY Zenon DEF ParseObject, Brackets, ItemAt, MapClose
<1>. QED  BY Zenon, <1>1, <1>2 DEF ParseValue, ValueTurn, ListOpen, MapOpen

LEMMA AheadIs ==
  ASSUME NEW R, NEW i, Ahead(R, i), NEW j \in (i + 1)..Len(text), NEW keys \in SUBSET Keys
  PROVE  /\ Onward(R[j]["value"][keys], j)
         /\ Onward(R[j]["elements"][keys], j)
         /\ Onward(R[j]["members"][keys], j)
  BY Zenon DEF Ahead

\* What the loops look at is further on.
LEMMA ItemOn ==
  ASSUME DocText, NEW c \in BOOLEAN, NEW R, NEW i \in 1..Len(text), Ahead(R, i), More(i + 1, c)
  PROVE  /\ ItemAt(i, c) \in (i + 1)..Len(text)
         /\ ItemOf(R, i, c).ok /\ More(ItemOf(R, i, c).cur, c) =>
              ItemEnd(R, i, c) \in (i + 1)..Len(text) /\ Onward(ItemRest(R, i, c), i)
<1>. DEFINE j == ItemAt(i, c)
            v == ItemOf(R, i, c)
            k == ItemEnd(R, i, c)
            r == ItemRest(R, i, c)
<1>0. Len(text) \in Nat /\ i + 1 \in 1..(Len(text) + 1) /\ {} \in SUBSET Keys  BY DEF DocText
<1>1. j \in (i + 1)..Len(text)  BY <1>0, SkipOn DEF ItemAt
<1>2. Onward(v, j)  BY Zenon, <1>0, <1>1, AheadIs DEF ItemOf
<1>3. k = Skip(v.cur, c) /\ r = R[k]["elements"][{}]  BY Zenon DEF ItemEnd, ItemRest
<1>. HIDE DEF j, v, k, r
<1>4. ASSUME v.ok, More(v.cur, c) PROVE k \in (i + 1)..Len(text) /\ Onward(r, i)
  <2>1. v.cur \in (j + 1)..(Len(text) + 1)  BY <1>2, <1>4 DEF Onward
  <2>2. v.cur \in 1..(Len(text) + 1)  BY <1>0, <1>1, <2>1
  <2>3. k \in v.cur..Len(text)  BY <1>3, <1>4, <2>2, SkipOn
  <2>4. k \in (i + 1)..Len(text)  BY <1>0, <1>1, <2>1, <2>3
  <2>5. Onward(r, k)  BY Zenon, <1>0, <1>3, <2>4, AheadIs
  <2>6. \A x \in (k + 1)..(Len(text) + 1) : x \in (i + 1)..(Len(text) + 1)  BY <1>0, <2>4
  <2>. QED  BY Zenon, <2>4, <2>5, <2>6 DEF Onward
<1>. QED  BY Zenon, <1>1, <1>4 DEF j, v, k, r

LEMMA MemberOn ==
  ASSUME DocText, NEW c \in BOOLEAN, NEW R, NEW i \in 1..Len(text), Ahead(R, i), More(i + 1, c),
         text[ItemAt(i, c)] \in Keys, More(ItemAt(i, c) + 1, c), More(ColonAt(i, c) + 1, c),
         NEW keys \in SUBSET Keys
  PROVE  /\ MemberAt(i, c) \in (i + 1)..Len(text)
         /\ MemberOf(R, i, c).ok /\ More(MemberOf(R, i, c).cur, c) =>
              MemberEnd(R, i, c) \in (i + 1)..Len(text) /\ Onward(MemberRest(R, i, keys, c), i)
<1>. DEFINE j == ItemAt(i, c)
            k == ColonAt(i, c)
            l == MemberAt(i, c)
            v == MemberOf(R, i, c)
            n == MemberEnd(R, i, c)
            r == MemberRest(R, i, keys, c)
<1>0. Len(text) \in Nat /\ i + 1 \in 1..(Len(text) + 1) /\ {} \in SUBSET Keys
  BY DEF DocText
<1>1. j \in (i + 1)..Len(text)  BY <1>0, SkipOn DEF ItemAt
<1>2. j + 1 \in 1..(Len(text) + 1)  BY <1>0, <1>1
<1>3. k \in (j + 1)..Len(text)  BY <1>2, SkipOn DEF ColonAt
<1>4. k + 1 \in 1..(Len(text) + 1)  BY <1>0, <1>1, <1>2, <1>3
<1>5. l \in (k + 1)..Len(text)  BY <1>4, SkipOn DEF MemberAt
<1>6. l \in (i + 1)..Len(text)  BY <1>0, <1>1, <1>3, <1>5
<1>7. Onward(v, l)  BY Zenon, <1>0, <1>6, AheadIs DEF MemberOf
<1>8. n = Skip(v.cur, c) /\ r = R[n]["members"][keys \cup {text[j]}]
  BY Zenon DEF MemberEnd, MemberRest
<1>9. keys \cup {text[j]} \in SUBSET Keys  OBVIOUS
<1>. HIDE DEF j, k, l, v, n, r
<1>10. ASSUME v.ok, More(v.cur, c) PROVE n \in (i + 1)..Len(text) /\ Onward(r, i)
  <2>1. v.cur \in (l + 1)..(Len(text) + 1)  BY <1>7, <1>10 DEF Onward
  <2>2. v.cur \in 1..(Len(text) + 1)  BY <1>0, <1>6, <2>1
  <2>3. n \in v.cur..Len(text)  BY <1>8, <1>10, <2>2, SkipOn
  <2>4. n \in (i + 1)..Len(text)  BY <1>0, <1>6, <2>1, <2>3
  <2>5. Onward(r, n)  BY Zenon, <1>8, <1>9, <2>4, AheadIs
  <2>6. \A x \in (n + 1)..(Len(text) + 1) : x \in (i + 1)..(Len(text) + 1)  BY <1>0, <2>4
  <2>. QED  BY Zenon, <2>4, <2>5, <2>6 DEF Onward
<1>. QED  BY Zenon, <1>6, <1>10 DEF l, v, n, r

\* So they go on, too.
LEMMA LoopsOn ==
  ASSUME DocText, NEW c \in BOOLEAN, NEW R, NEW i \in 1..Len(text), Ahead(R, i),
         NEW keys \in SUBSET Keys
  PROVE  /\ Onward(Elements(R, i, c), i)
         /\ Onward(Members(R, i, keys, c), i)
<1>0. Len(text) \in Nat  BY DEF DocText
<1>. DEFINE e == Elements(R, i, c)
            m == Members(R, i, keys, c)
            j == ItemAt(i, c)
<1>1. \A x \in (i + 1)..Len(text) : x + 1 \in (i + 1)..(Len(text) + 1)  BY <1>0
<1>2. Onward(e, i)
  <2>. DEFINE v == ItemOf(R, i, c)
              k == ItemEnd(R, i, c)
              r == ItemRest(R, i, c)
  <2>1. ListRead(e, i, c, j, v, k, r)  BY Zenon, ElementsAre, ListTurnIs
  <2>2. More(i + 1, c) => j \in (i + 1)..Len(text)  BY ItemOn
  <2>3. ListItem(i, c, j, v) => k \in (i + 1)..Len(text) /\ Onward(r, i)
    BY ItemOn DEF ListItem
  <2>. HIDE DEF e, j, v, k, r
  <2>4. SUFFICES ASSUME e.ok PROVE e.cur \in (i + 1)..(Len(text) + 1)  BY Zenon DEF Onward
  <2>5. CASE ListEmpty(i, c, j)
    <3>1. e.cur = j + 1 /\ More(i + 1, c)  BY Zenon, <2>1, <2>5 DEF ListRead, Good, ListEmpty
    <3>. QED  BY <1>1, <2>2, <3>1
  <2>6. CASE ListOne(i, c, j, v, k)
    <3>1. e.cur = k + 1 /\ ListItem(i, c, j, v)  BY Zenon, <2>1, <2>6 DEF ListRead, Good, ListOne
    <3>. QED  BY <1>1, <2>3, <3>1
  <2>7. CASE ListMore(i, c, j, v, k, r)
    <3>1. e.cur = r.cur /\ ListItem(i, c, j, v) /\ r.ok
      BY Zenon, <2>1, <2>7 DEF ListRead, Good, ListMore
    <3>. QED  BY Zenon, <2>3, <3>1 DEF Onward
  <2>. QED  BY Zenon, <2>1, <2>4, <2>5, <2>6, <2>7 DEF ListRead
<1>3. Onward(m, i)
  <2>. DEFINE k == ColonAt(i, c)
              v == MemberOf(R, i, c)
              n == MemberEnd(R, i, c)
              r == MemberRest(R, i, keys, c)
  <2>1. MapRead(m, i, keys, c, j, k, v, n, r)  BY Zenon, MembersAre, MapTurnIs
  <2>2. More(i + 1, c) => j \in (i + 1)..Len(text)  BY ItemOn
  <2>3. MapItem(i, keys, c, j, k, v) => n \in (i + 1)..Len(text) /\ Onward(r, i)
    BY MemberOn DEF MapItem
  <2>. HIDE DEF m, j, k, v, n, r
  <2>4. SUFFICES ASSUME m.ok PROVE m.cur \in (i + 1)..(Len(text) + 1)  BY Zenon DEF Onward
  <2>5. CASE MapEmpty(i, c, j)
    <3>1. m.cur = j + 1 /\ More(i + 1, c)  BY Zenon, <2>1, <2>5 DEF MapRead, Good, MapEmpty
    <3>. QED  BY <1>1, <2>2, <3>1
  <2>6. CASE MapOne(i, keys, c, j, k, v, n)
    <3>1. m.cur = n + 1 /\ MapItem(i, keys, c, j, k, v)
      BY Zenon, <2>1, <2>6 DEF MapRead, Good, MapOne
    <3>. QED  BY <1>1, <2>3, <3>1
  <2>7. CASE MapMore(i, keys, c, j, k, v, n, r)
    <3>1. m.cur = r.cur /\ MapItem(i, keys, c, j, k, v) /\ r.ok
      BY Zenon, <2>1, <2>7 DEF MapRead, Good, MapMore
    <3>. QED  BY Zenon, <2>3, <3>1 DEF Onward
  <2>. QED  BY Zenon, <2>1, <2>4, <2>5, <2>6, <2>7 DEF MapRead
<1>. QED  BY Zenon, <1>2, <1>3

LEMMA ValueOn ==
  ASSUME DocText, NEW c \in BOOLEAN, NEW R, NEW i \in 1..Len(text), Ahead(R, i)
  PROVE  Onward(ParseValue(R, i, c), i)
<1>0. Len(text) \in Nat /\ {} \in SUBSET Keys  BY DEF DocText
<1>. DEFINE x == ParseValue(R, i, c)
            j == ItemAt(i, c)
            e == Elements(R, i, c)
            m == Members(R, i, {}, c)
<1>1. Onward(e, i) /\ Onward(m, i)  BY <1>0, LoopsOn
<1>2. ValueRead(x, i, c, j, e, m)  BY Zenon, ValueIs, ValueTurnIs
<1>3. More(i + 1, c) => j + 1 \in (i + 1)..(Len(text) + 1)
  <2>1. More(i + 1, c) => j \in (i + 1)..Len(text)  BY ItemOn
  <2>. HIDE DEF j
  <2>. QED  BY <1>0, <2>1
<1>4. i + 1 \in (i + 1)..(Len(text) + 1)  BY <1>0
<1>. HIDE DEF x, j, e, m
<1>5. ASSUME NEW opening, NEW closing, NEW type, NEW y, Onward(y, i), x.ok,
             BracketsRead(x, i, c, j, opening, closing, type, y), text[i] = opening
      PROVE  x.cur \in (i + 1)..(Len(text) + 1)
  <2>1. CASE Hollow(i, c, j, opening, closing)
    BY Zenon, <1>3, <1>5, <2>1 DEF BracketsRead, Hollow, Good
  <2>2. CASE Filled(i, c, j, opening, closing, y)
    BY Zenon, <1>5, <2>2 DEF BracketsRead, Filled, Good, Onward
  <2>. QED  BY Zenon, <1>5, <2>1, <2>2 DEF BracketsRead
<1>6. CASE x.ok /\ text[i] \in Scalars  BY Zenon, <1>2, <1>4, <1>6 DEF ValueRead, Good, Onward, x
<1>7. CASE x.ok /\ text[i] = ListOpen
  <2>1. BracketsRead(x, i, c, j, ListOpen, ListClose, "array", e)  BY Zenon, <1>2 DEF ValueRead
  <2>. QED  BY Zenon, <1>1, <1>5, <1>7, <2>1 DEF Onward, x
<1>8. CASE x.ok /\ text[i] = MapOpen
  <2>1. BracketsRead(x, i, c, j, MapOpen, MapClose, "object", m)  BY Zenon, <1>2 DEF ValueRead
  <2>. QED  BY Zenon, <1>1, <1>5, <1>8, <2>1 DEF Onward, x
<1>. QED  BY Zenon, <1>2, <1>6, <1>7, <1>8 DEF ValueRead, Onward, x


\* The loops depend on the rest of the text alone.
SameThere(reads, c, v, w, k, l, r, s) ==
  (reads => v = w) /\ (reads /\ v.ok /\ More(v.cur, c) => k = l /\ r = s)

Same(x, y) == x = y

LEMMA ListTurnSame ==
  ASSUME NEW i, NEW c, NEW j, NEW v, NEW w, NEW k, NEW l, NEW r, NEW s,
         SameThere(More(i + 1, c), c, v, w, k, l, r, s)
  PROVE  Same(ListTurn(i, c, j, v, k, r), ListTurn(i, c, j, w, l, s))
<1>0. (More(i + 1, c) => v = w) /\ (More(i + 1, c) /\ v.ok /\ More(v.cur, c) => k = l /\ r = s)
  BY DEF SameThere
<1>1. CASE ~More(i + 1, c)  BY Zenon, <1>1 DEF ListTurn, Same
<1>2. CASE More(i + 1, c) /\ ~(v.ok /\ More(v.cur, c))
  <2>1. v = w  BY <1>0, <1>2
  <2>. QED  BY Zenon, <1>2, <2>1 DEF ListTurn, Same
<1>3. CASE More(i + 1, c) /\ v.ok /\ More(v.cur, c)
  <2>1. v = w /\ k = l /\ r = s  BY <1>0, <1>3
  <2>. QED  BY Zenon, <2>1 DEF Same
<1>. QED  BY Zenon, <1>1, <1>2, <1>3

MapReads(i, c, j, k) ==
  More(i + 1, c) /\ text[j] \in Keys /\ More(j + 1, c) /\ More(k + 1, c)

LEMMA MapTurnSame ==
  ASSUME NEW i, NEW keys, NEW c, NEW j, NEW k, NEW v, NEW w, NEW n, NEW l, NEW r, NEW s,
         SameThere(MapReads(i, c, j, k), c, v, w, n, l, r, s)
  PROVE  Same(MapTurn(i, keys, c, j, k, v, n, r), MapTurn(i, keys, c, j, k, w, l, s))
<1>0. /\ MapReads(i, c, j, k) => v = w
      /\ MapReads(i, c, j, k) /\ v.ok /\ More(v.cur, c) => n = l /\ r = s
  BY DEF SameThere
<1>1. CASE ~MapReads(i, c, j, k)
  <2>1. ASSUME NEW y, NEW m, NEW t
        PROVE  MapTurn(i, keys, c, j, k, y, m, t) =
                 IF ~More(i + 1, c) THEN Fail
                 ELSE IF c /\ text[j] = MapClose THEN Ok(<<>>, j + 1)
                 ELSE Fail
    <3>1. CASE ~More(i + 1, c)  BY Zenon, <3>1 DEF MapTurn
    <3>2. CASE More(i + 1, c) /\ ~(text[j] \in Keys /\ More(j + 1, c))
      BY Zenon, <3>2 DEF MapTurn
    <3>3. CASE More(i + 1, c) /\ text[j] \in Keys /\ More(j + 1, c) /\ ~More(k + 1, c)
      BY Zenon, <3>3 DEF MapTurn
    <3>. QED  BY Zenon, <1>1, <3>1, <3>2, <3>3 DEF MapReads
  <2>. QED  BY Zenon, <2>1 DEF Same
<1>2. CASE MapReads(i, c, j, k) /\ ~v.ok
  <2>1. v = w  BY <1>0, <1>2
  <2>. QED  BY Zenon, <1>2, <2>1 DEF MapTurn, Same
<1>3. CASE MapReads(i, c, j, k) /\ v.ok /\ ~More(v.cur, c)
  <2>1. v = w  BY <1>0, <1>3
  <2>. QED  BY Zenon, <1>3, <2>1 DEF MapTurn, Same
<1>4. CASE MapReads(i, c, j, k) /\ v.ok /\ More(v.cur, c)
  <2>1. v = w /\ n = l /\ r = s  BY <1>0, <1>4
  <2>. QED  BY Zenon, <2>1 DEF Same
<1>. QED  BY Zenon, <1>1, <1>2, <1>3, <1>4

DocRow(R, i, c) ==
  [loop \in {"value", "elements", "members"} |->
     [keys \in SUBSET Keys |-> Descend(R, i, loop, keys, c)]]

\* A row of R, if it is row.
IsRow(row, R, i, keys, c) ==
  /\ row["value"][keys] = ParseValue(R, i, c)
  /\ row["elements"][keys] = Elements(R, i, c)
  /\ row["members"][keys] = Members(R, i, keys, c)

LEMMA DocRowIs ==
  ASSUME NEW R, NEW i, NEW c, NEW keys \in SUBSET Keys
  PROVE  IsRow(DocRow(R, i, c), R, i, keys, c)
<1>1. /\ Descend(R, i, "value", keys, c) = ParseValue(R, i, c)
      /\ Descend(R, i, "elements", keys, c) = Elements(R, i, c)
      /\ Descend(R, i, "members", keys, c) = Members(R, i, keys, c)
  BY DEF Descend
<1>2. \A loop \in {"value", "elements", "members"} :
        DocRow(R, i, c)[loop][keys] = Descend(R, i, loop, keys, c)
  BY Zenon DEF DocRow
<1>3. \A loop : loop \in {"value", "elements", "members"} <=>
                  loop = "value" \/ loop = "elements" \/ loop = "members"
  OBVIOUS
<1>. QED  BY Zenon, <1>1, <1>2, <1>3 DEF IsRow

SameLoops(R, S, i, keys, c) ==
  Elements(R, i, c) = Elements(S, i, c) /\ Members(R, i, keys, c) = Members(S, i, keys, c)

LEMMA LoopsSame ==
  ASSUME DocText, NEW c \in BOOLEAN, NEW R, NEW S, NEW i \in 1..Len(text), Ahead(R, i),
         \A j \in (i + 1)..Len(text) : R[j] = S[j], NEW keys \in SUBSET Keys
  PROVE  SameLoops(R, S, i, keys, c)
<1>. DEFINE j == ItemAt(i, c)
            k == ColonAt(i, c)
<1>1. Elements(R, i, c) = Elements(S, i, c)
  <2>. DEFINE v == ItemOf(R, i, c)
              w == ItemOf(S, i, c)
              n == ItemEnd(R, i, c)
              l == ItemEnd(S, i, c)
              r == ItemRest(R, i, c)
              s == ItemRest(S, i, c)
  <2>1. /\ Elements(R, i, c) = ListTurn(i, c, j, v, n, r)
        /\ Elements(S, i, c) = ListTurn(i, c, j, w, l, s)
    BY Zenon, ElementsAre
  <2>2. More(i + 1, c) => v = w
    <3>1. More(i + 1, c) => R[j] = S[j]  BY ItemOn
    <3>. QED  BY Zenon, <3>1 DEF ItemOf
  <2>3. ASSUME More(i + 1, c), v.ok, More(v.cur, c) PROVE n = l /\ r = s
    <3>1. R[n] = S[n]  BY ItemOn, <2>3
    <3>2. n = l  BY Zenon, <2>2, <2>3 DEF ItemEnd
    <3>. QED  BY Zenon, <3>1, <3>2 DEF ItemRest
  <2>. HIDE DEF j, v, w, n, l, r, s
  <2>4. SameThere(More(i + 1, c), c, v, w, n, l, r, s)  BY Zenon, <2>2, <2>3 DEF SameThere
  <2>5. Same(ListTurn(i, c, j, v, n, r), ListTurn(i, c, j, w, l, s))
    BY ONLY <2>4, ListTurnSame, Zenon
  <2>. QED  BY Zenon, <2>1, <2>5 DEF Same
<1>2. Members(R, i, keys, c) = Members(S, i, keys, c)
  <2>. DEFINE v == MemberOf(R, i, c)
              w == MemberOf(S, i, c)
              n == MemberEnd(R, i, c)
              l == MemberEnd(S, i, c)
              r == MemberRest(R, i, keys, c)
              s == MemberRest(S, i, keys, c)
  <2>1. /\ Members(R, i, keys, c) = MapTurn(i, keys, c, j, k, v, n, r)
        /\ Members(S, i, keys, c) = MapTurn(i, keys, c, j, k, w, l, s)
    BY Zenon, MembersAre
  <2>2. ASSUME MapReads(i, c, j, k) PROVE v = w
    <3>1. R[MemberAt(i, c)] = S[MemberAt(i, c)]  BY <2>2, MemberOn DEF MapReads
    <3>. QED  BY Zenon, <3>1 DEF MemberOf
  <2>3. ASSUME MapReads(i, c, j, k), v.ok, More(v.cur, c) PROVE n = l /\ r = s
    <3>1. R[n] = S[n]  BY MemberOn, <2>3 DEF MapReads
    <3>2. n = l  BY Zenon, <2>2, <2>3 DEF MemberEnd
    <3>. QED  BY Zenon, <3>1, <3>2 DEF MemberRest
  <2>. HIDE DEF j, k, v, w, n, l, r, s
  <2>4. SameThere(MapReads(i, c, j, k), c, v, w, n, l, r, s)  BY Zenon, <2>2, <2>3 DEF SameThere
  <2>5. Same(MapTurn(i, keys, c, j, k, v, n, r), MapTurn(i, keys, c, j, k, w, l, s))
    BY ONLY <2>4, MapTurnSame, Zenon
  <2>. QED  BY Zenon, <2>1, <2>5 DEF Same
<1>. QED  BY Zenon, <1>1, <1>2 DEF SameLoops

LEMMA DocRowSame ==
  ASSUME DocText, NEW c \in BOOLEAN, NEW R, NEW S, NEW i \in 1..Len(text), Ahead(R, i),
         \A j \in (i + 1)..Len(text) : R[j] = S[j]
  PROVE  DocRow(R, i, c) = DocRow(S, i, c)
<1>1. {} \in SUBSET Keys  OBVIOUS
<1>2. ASSUME NEW keys \in SUBSET Keys
      PROVE  /\ Elements(R, i, c) = Elements(S, i, c)
             /\ Members(R, i, keys, c) = Members(S, i, keys, c)
  <2>1. SameLoops(R, S, i, keys, c)  BY Zenon, LoopsSame
  <2>. QED  BY Zenon, <2>1 DEF SameLoops
<1>3. ParseValue(R, i, c) = ParseValue(S, i, c)  BY Zenon, <1>1, <1>2, ValueIs
<1>4. ASSUME NEW loop, NEW keys \in SUBSET Keys
      PROVE  Descend(R, i, loop, keys, c) = Descend(S, i, loop, keys, c)
  BY Zenon, <1>2, <1>3 DEF Descend
<1>. QED  BY Zenon, <1>4 DEF DocRow

Rest(R, c) == \A i \in 1..Len(text) : \A keys \in SUBSET Keys : IsRow(R[i], R, i, keys, c)

LEMMA RowsOnward ==
  ASSUME DocText, NEW c \in BOOLEAN
  PROVE  \E R : \A i \in 1..Len(text) : R[i] = DocRow(R, i, c) /\ Ahead(R, i)
<1>. DEFINE e == Len(text) + 1
            Up(k, R) == \A i \in k..Len(text) : R[i] = DocRow(R, i, c) /\ Ahead(R, i)
            S == {k \in 1..e : \E R : Up(k, R)}
<1>0. Len(text) \in Nat /\ e \in Nat \ {0} /\ e = Len(text) + 1  BY DEF DocText
<1>. HIDE DEF e
<1>1. e \in S
  <2>1. \A i \in e..Len(text) : FALSE  BY <1>0
  <2>2. e \in 1..e  BY <1>0
  <2>. QED  BY Zenon, <2>1, <2>2
<1>2. ASSUME NEW k \in 1..Len(text), k + 1 \in S PROVE k \in S
  <2>1. PICK R : Up(k + 1, R)  BY Zenon, <1>2
  <2>2. /\ k \in 1..e /\ k \in 1..Len(text)
        /\ \A i \in (k + 1)..Len(text) : i # k /\ i \in 1..Len(text) /\ i \in k..Len(text)
        /\ \A i \in k..Len(text) : i = k \/ i \in (k + 1)..Len(text)
        /\ \A i \in k..Len(text) : \A j \in (i + 1)..Len(text) : j \in (k + 1)..Len(text)
    BY <1>0
  <2>. DEFINE T == [i \in 1..Len(text) |-> IF i = k THEN DocRow(R, k, c) ELSE R[i]]
  <2>3. T[k] = DocRow(R, k, c) /\ \A i \in (k + 1)..Len(text) : T[i] = R[i]  BY Zenon, <2>2
  <2>. HIDE DEF T
  <2>4. Ahead(R, k)
    <3>1. ASSUME NEW j \in (k + 1)..Len(text), NEW keys \in SUBSET Keys
          PROVE  /\ Onward(R[j]["value"][keys], j)
                 /\ Onward(R[j]["elements"][keys], j)
                 /\ Onward(R[j]["members"][keys], j)
      <4>1. j \in 1..Len(text) /\ R[j] = DocRow(R, j, c) /\ Ahead(R, j)  BY Zenon, <2>1, <2>2
      <4>2. /\ Onward(ParseValue(R, j, c), j)
            /\ Onward(Elements(R, j, c), j)
            /\ Onward(Members(R, j, keys, c), j)
        BY <4>1, ValueOn, LoopsOn
      <4>3. /\ R[j]["value"][keys] = ParseValue(R, j, c)
            /\ R[j]["elements"][keys] = Elements(R, j, c)
            /\ R[j]["members"][keys] = Members(R, j, keys, c)
        <5>1. IsRow(DocRow(R, j, c), R, j, keys, c)  BY DocRowIs
        <5>. QED  BY Zenon, <4>1, <5>1 DEF IsRow
      <4>. QED  BY Zenon, <4>2, <4>3
    <3>. QED  BY Zenon, <3>1 DEF Ahead
  <2>5. ASSUME NEW i \in k..Len(text) PROVE T[i] = DocRow(T, i, c) /\ Ahead(T, i)
    <3>1. i \in 1..Len(text) /\ Ahead(R, i)  BY Zenon, <2>1, <2>2, <2>4
    <3>2. \A j \in (i + 1)..Len(text) : R[j] = T[j]  BY Zenon, <2>2, <2>3
    <3>3. DocRow(R, i, c) = DocRow(T, i, c)  BY <3>1, <3>2, DocRowSame
    <3>4. T[i] = DocRow(R, i, c)  BY Zenon, <2>1, <2>2, <2>3
    <3>5. Ahead(T, i)  BY Zenon, <3>1, <3>2 DEF Ahead
    <3>. QED  BY Zenon, <3>3, <3>4, <3>5
  <2>. QED  BY Zenon, <2>2, <2>5
<1>. HIDE DEF S
<1>3. ASSUME NEW k \in 1..e, \A j \in (k + 1)..e : j \in S PROVE k \in S
  <2>1. CASE k = e  BY <1>1, <2>1
  <2>2. CASE k # e
    <3>1. k \in 1..Len(text) /\ k + 1 \in (k + 1)..e  BY <1>0, <2>2
    <3>. QED  BY <1>2, <1>3, <3>1
  <2>. QED  BY <2>1, <2>2
<1>4. 1 \in S
  <2>1. \A k \in 1..e : k \in S  BY <1>0, <1>3, Backwards
  <2>. QED  BY <1>0, <2>1
<1>. QED  BY Zenon, <1>4 DEF S

LEMMA DocumentRead ==
  ASSUME DocText, NEW c \in BOOLEAN
  PROVE  \E R : Rest(R, c) /\ \A i : ValueAt(i, c) = R[i]["value"][{}]
<1>1. PICK Q : \A i \in 1..Len(text) : Q[i] = DocRow(Q, i, c) /\ Ahead(Q, i)  BY RowsOnward
<1>0. Len(text) \in Nat  BY DEF DocText
<1>. DEFINE T == [i \in 1..Len(text) |-> Q[i]]
<1>2. \A i \in 1..Len(text) : T[i] = Q[i]  BY Zenon
<1>3. T = [i \in 1..Len(text) |-> T[i]]  BY Zenon
<1>. HIDE DEF T
<1>4. ASSUME NEW i \in 1..Len(text) PROVE T[i] = DocRow(T, i, c)
  <2>1. \A j \in (i + 1)..Len(text) : j \in 1..Len(text)  BY <1>0
  <2>2. \A j \in (i + 1)..Len(text) : Q[j] = T[j]  BY Zenon, <1>2, <2>1
  <2>3. DocRow(Q, i, c) = DocRow(T, i, c)  BY <1>1, <2>2, DocRowSame
  <2>. QED  BY Zenon, <1>1, <1>2, <2>3
<1>5. T = [i \in 1..Len(text) |-> DocRow(T, i, c)]  BY Zenon, <1>3, <1>4
<1>. DEFINE R == CHOOSE r : r = [k \in 1..Len(text) |->
                   [loop \in {"value", "elements", "members"} |->
                      [keys \in SUBSET Keys |-> Descend(r, k, loop, keys, c)]]]
<1>6. \A i : ValueAt(i, c) = R[i]["value"][{}]  BY Zenon DEF ValueAt
<1>7. R = [i \in 1..Len(text) |-> DocRow(R, i, c)]  BY Zenon, <1>5 DEF DocRow
<1>. HIDE DEF R
<1>8. \A i \in 1..Len(text) : R[i] = DocRow(R, i, c)  BY Zenon, <1>7
<1>10. Rest(R, c)  BY Zenon, <1>8, DocRowIs DEF Rest
<1>. QED  BY Zenon, <1>6, <1>10


\* The grammar: what a value, a list and a map can be.
Inside(G, a, b, kind) == IF a + 1 = b THEN {<<>>} ELSE G[a + 1][b - 1][kind]

SaysScalar(u, a, b, x) == a = b /\ u[a] \in Scalars /\ x = <<u[a]>>
SaysBrackets(u, G, a, b, x, opening, closing, type, kind) ==
  /\ a < b /\ u[a] = opening /\ u[b] = closing
  /\ \E y \in Inside(G, a, b, kind) : x = <<type, y>>
SaysValue(u, G, a, b, x) ==
  \/ SaysScalar(u, a, b, x)
  \/ SaysBrackets(u, G, a, b, x, ListOpen, ListClose, "array", "list")
  \/ SaysBrackets(u, G, a, b, x, MapOpen, MapClose, "object", "map")

SaysList(u, G, a, b, c, x) ==
  \/ \E v \in Values(u, G, a, b) : x = <<v>>
  \/ \E k \in Commas(u, a, b) : \E v \in G[a][k - 1]["value"] :
       \E l \in AfterComma(G, k + 1, b, "list", c) : x = Cons(v, l)

SaysMap(u, G, a, b, c, x) ==
  /\ a + 2 <= b /\ u[a] \in Keys /\ u[a + 1] = Colon
  /\ \/ \E v \in G[a + 2][b]["value"] : x = With(<<>>, u[a], v)
     \/ \E k \in Commas(u, a + 2, b) : \E v \in G[a + 2][k - 1]["value"] :
          \E f \in AfterComma(G, k + 1, b, "map", c) :
            u[a] \notin DOMAIN f /\ x = With(f, u[a], v)

LEMMA ValuesHas ==
  ASSUME NEW u, NEW G, NEW a \in Int, NEW b \in Int, NEW x
  PROVE  x \in Values(u, G, a, b) <=> SaysValue(u, G, a, b, x)
<1>. DEFINE scalar == {<<y>> : y \in {u[a]} \cap Scalars}
            array == {<<"array", l>> : l \in Inside(G, a, b, "list")}
            object == {<<"object", f>> : f \in Inside(G, a, b, "map")}
<1>1. Values(u, G, a, b) =
        CASE a = b -> scalar
          [] a < b /\ u[a] = ListOpen /\ u[b] = ListClose -> array
          [] a < b /\ u[a] = MapOpen /\ u[b] = MapClose -> object
          [] OTHER -> {}
  BY Zenon DEF Values, Inside, ListOpen, ListClose, MapOpen, MapClose
<1>2. x \in scalar <=> u[a] \in Scalars /\ x = <<u[a]>>  BY Zenon
<1>3. x \in array <=> \E y \in Inside(G, a, b, "list") : x = <<"array", y>>  BY Zenon
<1>4. x \in object <=> \E y \in Inside(G, a, b, "map") : x = <<"object", y>>  BY Zenon
<1>5. a = b => ~(a < b)  OBVIOUS
<1>6. ListOpen # MapOpen  BY Zenon, PunctuationIs
<1>. HIDE DEF scalar, array, object
<1>. DEFINE V == Values(u, G, a, b)
            arrays == a < b /\ u[a] = ListOpen /\ u[b] = ListClose
            objects == a < b /\ u[a] = MapOpen /\ u[b] = MapClose
<1>7. /\ a = b => V = scalar
      /\ arrays => V = array
      /\ objects => V = object
      /\ ~(a = b) /\ ~arrays /\ ~objects => V = {}
  BY <1>1, <1>5, <1>6
<1>8. SaysValue(u, G, a, b, x) <=>
        \/ a = b /\ x \in scalar
        \/ arrays /\ x \in array
        \/ objects /\ x \in object
  BY Zenon, <1>2, <1>3, <1>4 DEF SaysValue, SaysScalar, SaysBrackets
<1>9. ~(a = b /\ arrays) /\ ~(a = b /\ objects) /\ ~(arrays /\ objects)  BY <1>5, <1>6
<1>. HIDE DEF V, arrays, objects
<1>. QED  BY <1>7, <1>8, <1>9 DEF V

LEMMA ListsHas ==
  ASSUME NEW u, NEW G, NEW a, NEW b, NEW c, NEW x
  PROVE  x \in Lists(u, G, a, b, c) <=> SaysList(u, G, a, b, c, x)
  BY DEF Lists, SaysList

LEMMA MapsHas ==
  ASSUME NEW u, NEW G, NEW a, NEW b, NEW c, NEW x
  PROVE  x \in Maps(u, G, a, b, c) <=> SaysMap(u, G, a, b, c, x)
<1>1. CASE a + 2 <= b /\ u[a] \in Keys /\ u[a + 1] = Colon
  BY <1>1 DEF Maps, SaysMap, Colon
<1>2. CASE ~(a + 2 <= b /\ u[a] \in Keys /\ u[a + 1] = Colon)
  <2>1. Maps(u, G, a, b, c) = {}  BY <1>2 DEF Maps, Colon
  <2>. QED  BY Zenon, <1>2, <2>1 DEF SaysMap
<1>. QED  BY Zenon, <1>1, <1>2

\* It is defined: what a stretch means depends on shorter ones.
SameBelow(F, G, u, a, b) ==
  \A p \in 1..(Len(u) + 1) : \A q \in 0..Len(u) : q - p < b - a => F[p][q] = G[p][q]

LEMMA CommasAre ==
  ASSUME NEW u, NEW a, NEW b, NEW k \in Commas(u, a, b)
  PROVE  k \in a..b /\ u[k] = Comma
  BY Zenon DEF Commas, Comma

LEMMA MeaningsSame ==
  ASSUME NEW u, Len(u) \in Nat, NEW c, NEW a \in 1..(Len(u) + 1), NEW b \in 0..Len(u),
         NEW F, NEW G, SameBelow(F, G, u, a, b)
  PROVE  /\ Values(u, F, a, b) = Values(u, G, a, b)
         /\ Lists(u, F, a, b, c) = Lists(u, G, a, b, c)
         /\ Maps(u, F, a, b, c) = Maps(u, G, a, b, c)
<1>0. \A p \in 1..(Len(u) + 1) : \A q \in 0..Len(u) : q - p < b - a => F[p][q] = G[p][q]
  BY DEF SameBelow
<1>1. Values(u, F, a, b) = Values(u, G, a, b)
  <2>1. ASSUME a < b, NEW kind PROVE Inside(F, a, b, kind) = Inside(G, a, b, kind)
    <3>1. CASE a + 1 = b  BY Zenon, <3>1 DEF Inside
    <3>2. CASE a + 1 # b
      <4>1. a + 1 \in 1..(Len(u) + 1) /\ b - 1 \in 0..Len(u) /\ (b - 1) - (a + 1) < b - a
        BY <2>1
      <4>2. F[a + 1][b - 1] = G[a + 1][b - 1]  BY <1>0, <4>1
      <4>. QED  BY Zenon, <3>2, <4>2 DEF Inside
    <3>. QED  BY Zenon, <3>1, <3>2
  <2>2. ASSUME NEW x PROVE SaysValue(u, F, a, b, x) <=> SaysValue(u, G, a, b, x)
    BY Zenon, <2>1 DEF SaysValue, SaysBrackets
  <2>3. \A x : x \in Values(u, F, a, b) <=> x \in Values(u, G, a, b)
    <3>1. a \in Int /\ b \in Int  OBVIOUS
    <3>. QED  BY Zenon, <2>2, <3>1, ValuesHas
  <2>. QED  BY Zenon, <2>3
<1>2. ASSUME NEW k \in a..b PROVE F[a][k - 1] = G[a][k - 1] /\ F[k + 1][b] = G[k + 1][b]
  <2>1. /\ a \in 1..(Len(u) + 1) /\ k - 1 \in 0..Len(u) /\ (k - 1) - a < b - a
        /\ k + 1 \in 1..(Len(u) + 1) /\ b \in 0..Len(u) /\ b - (k + 1) < b - a
    OBVIOUS
  <2>. QED  BY <1>0, <2>1
<1>3. Lists(u, F, a, b, c) = Lists(u, G, a, b, c)
  <2>1. \A k \in Commas(u, a, b) : F[a][k - 1] = G[a][k - 1] /\ F[k + 1][b] = G[k + 1][b]
    BY Zenon, <1>2, CommasAre
  <2>2. \A k \in Commas(u, a, b) :
          AfterComma(F, k + 1, b, "list", c) = AfterComma(G, k + 1, b, "list", c)
    BY Zenon, <2>1 DEF AfterComma
  <2>3. ASSUME NEW x PROVE SaysList(u, F, a, b, c, x) <=> SaysList(u, G, a, b, c, x)
    BY Zenon, <1>1, <2>1, <2>2 DEF SaysList
  <2>. QED  BY Zenon, <2>3, ListsHas
<1>4. Maps(u, F, a, b, c) = Maps(u, G, a, b, c)
  <2>1. ASSUME a + 2 <= b
        PROVE  /\ F[a + 2][b] = G[a + 2][b]
               /\ \A k \in Commas(u, a + 2, b) :
                    F[a + 2][k - 1] = G[a + 2][k - 1] /\ F[k + 1][b] = G[k + 1][b]
    <3>1. a + 2 \in 1..(Len(u) + 1) /\ b - (a + 2) < b - a  BY <2>1
    <3>2. F[a + 2][b] = G[a + 2][b]  BY <1>0, <3>1
    <3>3. ASSUME NEW k \in Commas(u, a + 2, b)
          PROVE  F[a + 2][k - 1] = G[a + 2][k - 1] /\ F[k + 1][b] = G[k + 1][b]
      <4>1. k \in (a + 2)..b  BY Zenon, CommasAre
      <4>2. k \in a..b /\ k - 1 \in 0..Len(u) /\ (k - 1) - (a + 2) < b - a  BY <4>1
      <4>3. F[a + 2][k - 1] = G[a + 2][k - 1]  BY <1>0, <3>1, <4>2
      <4>. QED  BY <1>2, <4>2, <4>3
    <3>. QED  BY Zenon, <3>2, <3>3
  <2>2. ASSUME a + 2 <= b, NEW k \in Commas(u, a + 2, b)
        PROVE  AfterComma(F, k + 1, b, "map", c) = AfterComma(G, k + 1, b, "map", c)
    BY Zenon, <2>1, <2>2 DEF AfterComma
  <2>3. ASSUME NEW x PROVE SaysMap(u, F, a, b, c, x) <=> SaysMap(u, G, a, b, c, x)
    BY Zenon, <2>1, <2>2 DEF SaysMap
  <2>. QED  BY Zenon, <2>3, MapsHas
<1>. QED  BY Zenon, <1>1, <1>3, <1>4

Cell(u, G, a, b, c) == [kind \in {"value", "list", "map"} |-> Denotes(u, G, a, b, kind, c)]

IsCell(cell, u, G, a, b, c) ==
  /\ cell["value"] = Values(u, G, a, b)
  /\ cell["list"] = Lists(u, G, a, b, c)
  /\ cell["map"] = Maps(u, G, a, b, c)

LEMMA CellIs ==
  ASSUME NEW u, NEW G, NEW a, NEW b, NEW c
  PROVE  IsCell(Cell(u, G, a, b, c), u, G, a, b, c)
<1>1. /\ Denotes(u, G, a, b, "value", c) = Values(u, G, a, b)
      /\ Denotes(u, G, a, b, "list", c) = Lists(u, G, a, b, c)
      /\ Denotes(u, G, a, b, "map", c) = Maps(u, G, a, b, c)
  BY DEF Denotes
<1>2. \A kind : kind \in {"value", "list", "map"} <=> kind = "value" \/ kind = "list" \/ kind = "map"
  OBVIOUS
<1>3. \A kind \in {"value", "list", "map"} : Cell(u, G, a, b, c)[kind] = Denotes(u, G, a, b, kind, c)
  BY Zenon DEF Cell
<1>. QED  BY Zenon, <1>1, <1>2, <1>3 DEF IsCell

LEMMA CellSame ==
  ASSUME NEW u, Len(u) \in Nat, NEW c, NEW a \in 1..(Len(u) + 1), NEW b \in 0..Len(u),
         NEW F, NEW G, SameBelow(F, G, u, a, b)
  PROVE  Same(Cell(u, F, a, b, c), Cell(u, G, a, b, c))
<1>1. /\ Values(u, F, a, b) = Values(u, G, a, b)
      /\ Lists(u, F, a, b, c) = Lists(u, G, a, b, c)
      /\ Maps(u, F, a, b, c) = Maps(u, G, a, b, c)
  BY MeaningsSame
<1>2. \A kind : Denotes(u, F, a, b, kind, c) = Denotes(u, G, a, b, kind, c)
  BY Zenon, <1>1 DEF Denotes
<1>. QED  BY Zenon, <1>2 DEF Cell, Same

Grammar(u, G, c) ==
  \A a \in 1..(Len(u) + 1) : \A b \in 0..Len(u) : IsCell(G[a][b], u, G, a, b, c)

LEMMA CellsDefined ==
  ASSUME NEW u, Len(u) \in Nat, NEW c
  PROVE  \E G : \A a \in 1..(Len(u) + 1) : \A b \in 0..Len(u) : G[a][b] = Cell(u, G, a, b, c)
<1>. DEFINE N == Len(u)
            A == 1..(N + 1)
            B == 0..N
            M == N + N + 1
            Up(m, G) == \A a \in A : \A b \in B : b - a + N + 1 < m => G[a][b] = Cell(u, G, a, b, c)
            S == {m \in 0..M : \E G : Up(m, G)}
<1>0. N \in Nat /\ M \in Nat /\ M = N + N + 1  OBVIOUS
<1>. HIDE DEF N, M
<1>00. \A a \in A : \A b \in B : b - a + N + 1 \in Nat /\ b - a + N + 1 < M /\ a \in Int /\ b \in Int
  BY <1>0
<1>1. 0 \in S
  <2>1. \A a \in A : \A b \in B : ~(b - a + N + 1 < 0)  BY <1>0
  <2>2. 0 \in 0..M  BY <1>0
  <2>. QED  BY Zenon, <2>1, <2>2
<1>2. ASSUME NEW m \in 0..M, m \in S, m < M PROVE m + 1 \in S
  <2>1. PICK F : Up(m, F)  BY Zenon, <1>2
  <2>. DEFINE G == [a \in A |-> [b \in B |-> IF b - a + N + 1 < m THEN F[a][b] ELSE Cell(u, F, a, b, c)]]
  <2>2. \A a \in A : \A b \in B :
          G[a][b] = IF b - a + N + 1 < m THEN F[a][b] ELSE Cell(u, F, a, b, c)
    BY Zenon
  <2>. HIDE DEF G
  <2>3. ASSUME NEW a \in A, NEW b \in B, b - a + N + 1 < m + 1
        PROVE  G[a][b] = Cell(u, G, a, b, c)
    <3>1. \A p \in A : \A q \in B : q - p < b - a => q - p + N + 1 < m  BY <1>0, <2>3
    <3>2. SameBelow(F, G, u, a, b)  BY Zenon, <2>2, <3>1 DEF SameBelow, N
    <3>3. Same(Cell(u, F, a, b, c), Cell(u, G, a, b, c))  BY <1>0, <3>2, CellSame DEF N
    <3>4. G[a][b] = Cell(u, F, a, b, c)
      <4>1. CASE b - a + N + 1 < m  BY Zenon, <2>1, <2>2, <4>1
      <4>2. CASE ~(b - a + N + 1 < m)  BY Zenon, <2>2, <4>2
      <4>. QED  BY Zenon, <4>1, <4>2
    <3>. QED  BY Zenon, <3>3, <3>4 DEF Same
  <2>4. m + 1 \in 0..M  BY <1>0, <1>2
  <2>. QED  BY Zenon, <2>3, <2>4
<1>. HIDE DEF S
<1>3. M \in S
  <2>1. \A m \in 0..M : m \in S  BY <1>0, <1>1, <1>2, Upwards
  <2>. QED  BY <1>0, <2>1
<1>4. PICK G : Up(M, G)  BY Zenon, <1>3 DEF S
<1>5. \A a \in A : \A b \in B : G[a][b] = Cell(u, G, a, b, c)  BY Zenon, <1>00, <1>4
<1>. QED  BY Zenon, <1>5 DEF N

LEMMA MeansIs ==
  ASSUME NEW u, Len(u) \in Nat, NEW c
  PROVE  \E G : Grammar(u, G, c) /\ Means(u, c) = G[1][Len(u)]["value"]
<1>1. PICK F : \A a \in 1..(Len(u) + 1) : \A b \in 0..Len(u) : F[a][b] = Cell(u, F, a, b, c)
  BY CellsDefined
<1>. DEFINE T == [a \in 1..(Len(u) + 1) |-> [b \in 0..Len(u) |-> F[a][b]]]
<1>2. \A a \in 1..(Len(u) + 1) : \A b \in 0..Len(u) : T[a][b] = F[a][b]  BY Zenon
<1>3. T = [a \in 1..(Len(u) + 1) |-> [b \in 0..Len(u) |-> T[a][b]]]  BY Zenon, <1>2
<1>. HIDE DEF T
<1>4. ASSUME NEW a \in 1..(Len(u) + 1), NEW b \in 0..Len(u) PROVE T[a][b] = Cell(u, T, a, b, c)
  <2>1. SameBelow(F, T, u, a, b)  BY Zenon, <1>2 DEF SameBelow
  <2>2. Same(Cell(u, F, a, b, c), Cell(u, T, a, b, c))  BY <2>1, CellSame
  <2>. QED  BY Zenon, <1>1, <1>2, <2>2 DEF Same
<1>5. T = [a \in 1..(Len(u) + 1) |-> [b \in 0..Len(u) |-> Cell(u, T, a, b, c)]]  BY Zenon, <1>3, <1>4
<1>. DEFINE G == CHOOSE g : g = [a \in 1..(Len(u) + 1) |-> [b \in 0..Len(u) |->
                   [kind \in {"value", "list", "map"} |-> Denotes(u, g, a, b, kind, c)]]]
<1>6. Means(u, c) = G[1][Len(u)]["value"]  BY Zenon DEF Means
<1>7. G = [a \in 1..(Len(u) + 1) |-> [b \in 0..Len(u) |-> Cell(u, G, a, b, c)]]
  BY Zenon, <1>5 DEF Cell
<1>. HIDE DEF G
<1>8. \A a \in 1..(Len(u) + 1) : \A b \in 0..Len(u) : G[a][b] = Cell(u, G, a, b, c)
  <2>1. \A a \in 1..(Len(u) + 1) : G[a] = [b \in 0..Len(u) |-> Cell(u, G, a, b, c)]
    BY Zenon, <1>7
  <2>. QED  BY Zenon, <2>1
<1>9. Grammar(u, G, c)  BY Zenon, <1>8, CellIs DEF Grammar
<1>. QED  BY Zenon, <1>6, <1>9


\* What begins a value or a list, and a map.
LEMMA CellAt ==
  ASSUME NEW u, NEW G, NEW c, Grammar(u, G, c), NEW a \in 1..(Len(u) + 1), NEW b \in 0..Len(u), NEW x
  PROVE  /\ x \in G[a][b]["value"] <=> SaysValue(u, G, a, b, x)
         /\ x \in G[a][b]["list"] <=> SaysList(u, G, a, b, c, x)
         /\ x \in G[a][b]["map"] <=> SaysMap(u, G, a, b, c, x)
<1>1. IsCell(G[a][b], u, G, a, b, c)  BY Zenon DEF Grammar
<1>2. a \in Int /\ b \in Int  OBVIOUS
<1>3. x \in Values(u, G, a, b) <=> SaysValue(u, G, a, b, x)  BY Zenon, <1>2, ValuesHas
<1>4. x \in Lists(u, G, a, b, c) <=> SaysList(u, G, a, b, c, x)  BY Zenon, ListsHas
<1>5. x \in Maps(u, G, a, b, c) <=> SaysMap(u, G, a, b, c, x)  BY Zenon, MapsHas
<1>. QED  BY Zenon, <1>1, <1>3, <1>4, <1>5 DEF IsCell

Opens(x) == x \in Scalars \/ x = ListOpen \/ x = MapOpen

LEMMA OpensIs ==
  ASSUME NEW x, Opens(x)
  PROVE  x # ListClose /\ x # MapClose
<1>1. ListClose # ListOpen /\ ListClose # MapOpen /\ MapClose # ListOpen /\ MapClose # MapOpen
  BY Zenon DEF ListOpen, ListClose, MapOpen, MapClose
<1>2. /\ ListClose \in {Comma, Colon, ListOpen, ListClose, MapOpen, MapClose}
      /\ MapClose \in {Comma, Colon, ListOpen, ListClose, MapOpen, MapClose}
  OBVIOUS
<1>3. ListClose \notin Scalars /\ MapClose \notin Scalars  BY Zenon, <1>2, PunctuationIs
<1>. QED  BY Zenon, <1>1, <1>3 DEF Opens

LEMMA ValueBegins ==
  ASSUME NEW u, NEW G, NEW c, Grammar(u, G, c), NEW a \in 1..(Len(u) + 1), NEW b \in 0..Len(u),
         NEW x \in G[a][b]["value"]
  PROVE  a <= b /\ Opens(u[a])
<1>1. SaysValue(u, G, a, b, x)  BY Zenon, CellAt
<1>2. a = b \/ a < b  BY Zenon, <1>1 DEF SaysValue, SaysScalar, SaysBrackets
<1>3. Opens(u[a])  BY Zenon, <1>1 DEF SaysValue, SaysScalar, SaysBrackets, Opens
<1>. QED  BY <1>2, <1>3

LEMMA ListBegins ==
  ASSUME NEW u, Len(u) \in Nat, NEW G, NEW c, Grammar(u, G, c), NEW a \in 1..(Len(u) + 1),
         NEW b \in 0..Len(u), NEW x \in G[a][b]["list"]
  PROVE  a <= b /\ Opens(u[a])
<1>1. SaysList(u, G, a, b, c, x)  BY Zenon, CellAt
<1>2. CASE \E v \in Values(u, G, a, b) : x = <<v>>
  <2>1. PICK v \in Values(u, G, a, b) : x = <<v>>  BY Zenon, <1>2
  <2>2. IsCell(G[a][b], u, G, a, b, c)  BY Zenon DEF Grammar
  <2>3. v \in G[a][b]["value"]  BY Zenon, <2>1, <2>2 DEF IsCell
  <2>. QED  BY <2>3, ValueBegins
<1>3. CASE \E k \in Commas(u, a, b) : \E v \in G[a][k - 1]["value"] :
             \E l \in AfterComma(G, k + 1, b, "list", c) : x = Cons(v, l)
  <2>1. PICK k \in Commas(u, a, b) : \E v \in G[a][k - 1]["value"] : TRUE  BY Zenon, <1>3
  <2>2. PICK v \in G[a][k - 1]["value"] : TRUE  BY Zenon, <2>1
  <2>3. k \in a..b  BY Zenon, CommasAre
  <2>4. k - 1 \in 0..Len(u)  BY <2>3
  <2>5. Opens(u[a])  BY <2>2, <2>4, ValueBegins
  <2>. QED  BY <2>3, <2>5
<1>. QED  BY Zenon, <1>1, <1>2, <1>3 DEF SaysList

KeysOpen == \A x \in Keys : x # MapClose /\ x # ListClose

LEMMA KeysOpenIs == KeysOpen
<1>1. \A x \in Keys : Opens(x)  BY Zenon DEF Opens, Scalars
<1>. QED  BY Zenon, <1>1, OpensIs DEF KeysOpen

\* The text, what is spoken in it, how it is read, and what it means.
Setting(u, n, R, G, c) ==
  DocText /\ c \in BOOLEAN /\ Reading(u, n, c) /\ Rest(R, c) /\ Grammar(u, G, c)

Bounds(u, n, c) ==
  /\ Len(u) \in Nat /\ Halt(c) \in Nat \ {0} /\ Halt(c) <= Len(text) + 1 /\ Len(text) \in Nat
  /\ \A p \in 1..Halt(c) : n[p] \in 0..Len(u)

LEMMA BoundsAre ==
  ASSUME NEW u, NEW n, NEW R, NEW G, NEW c, Setting(u, n, R, G, c)
  PROVE  Bounds(u, n, c)
<1>1. DocText /\ c \in BOOLEAN /\ Reading(u, n, c)  BY DEF Setting
<1>2. Len(text) \in Nat /\ Halt(c) \in 1..(Len(text) + 1)  BY <1>1, HaltIs
<1>3. Len(u) \in Nat /\ \A p \in 1..Halt(c) : n[p] \in 0..Len(u)  BY Zenon, <1>1 DEF Reading
<1>4. Halt(c) \in Nat \ {0} /\ Halt(c) <= Len(text) + 1  BY <1>2
<1>. QED  BY Zenon, <1>2, <1>3, <1>4 DEF Bounds

\* j is the next place from p on that is no blank.
Found(u, n, c, p, j) ==
  /\ Solid(u, n, c, j)
  /\ j \in p..(Halt(c) - 1) /\ j + 1 \in 1..Halt(c)
  /\ n[j] = n[p] /\ n[j + 1] = n[p] + 1 /\ n[p] \in 0..(Len(u) - 1)
  /\ text[j] = u[n[p] + 1]

LEMMA NextIs ==
  ASSUME NEW u, NEW n, NEW R, NEW G, NEW c, Setting(u, n, R, G, c), NEW p \in 1..Halt(c)
  PROVE  /\ More(p, c) <=> n[p] < Len(u)
         /\ More(p, c) => Found(u, n, c, p, Skip(p, c))
<1>1. DocText /\ c \in BOOLEAN /\ Reading(u, n, c)  BY DEF Setting
<1>2. /\ More(p, c) <=> n[p] < Len(u)
      /\ More(p, c) => Solid(u, n, c, Skip(p, c))
      /\ Skip(p, c) \in p..Halt(c) /\ n[Skip(p, c)] = n[p]
  BY <1>1, MoreIs
<1>. DEFINE j == Skip(p, c)
<1>3. Halt(c) \in Nat  BY BoundsAre DEF Bounds
<1>4. ASSUME More(p, c) PROVE Found(u, n, c, p, j)
  <2>1. Solid(u, n, c, j) /\ j \in p..Halt(c) /\ n[j] = n[p]  BY <1>2, <1>4
  <2>. HIDE DEF j
  <2>2. /\ j \in 1..(Halt(c) - 1) /\ j + 1 \in 1..Halt(c)
        /\ n[j] \in 0..(Len(u) - 1) /\ n[j + 1] = n[j] + 1
        /\ text[j] = u[n[j] + 1]
    BY Zenon, <2>1 DEF Solid
  <2>3. j \in p..(Halt(c) - 1)  BY <1>3, <2>1, <2>2
  <2>. QED  BY <2>1, <2>2, <2>3 DEF Found
<1>. QED  BY Zenon, <1>2, <1>4

\* The parser and the grammar agree on the value at i, on what follows the bracket or
\* comma at i in a list, and in a map whose keys are not to be among keys.
Got(x, n, v, q) == x.ok /\ x.value = v /\ n[x.cur] = q
Lands(x, u, n, c, i, p) == x.cur \in (i + 1)..Halt(c) /\ n[x.cur] \in p..Len(u)

ValueSound(x, u, n, G, c, i) ==
  x.ok => Lands(x, u, n, c, i, n[i] + 1) /\ x.value \in G[n[i] + 1][n[x.cur]]["value"]
ValueFull(x, u, n, G, c, i) ==
  \A q \in 0..Len(u) : \A v \in G[n[i] + 1][q]["value"] : Got(x, n, v, q)

ListSound(x, u, n, G, c, i) ==
  x.ok => /\ Lands(x, u, n, c, i, n[i] + 2) /\ u[n[x.cur]] = ListClose
          /\ x.value \in AfterComma(G, n[i] + 2, n[x.cur] - 1, "list", c)
ListFull(x, u, n, G, c, i) ==
  \A q \in (n[i] + 2)..Len(u) : u[q] = ListClose =>
    \A l \in AfterComma(G, n[i] + 2, q - 1, "list", c) : Got(x, n, l, q)

Apart(f, keys) == \A k \in DOMAIN f : k \notin keys
MapSound(x, keys, u, n, G, c, i) ==
  x.ok => /\ Lands(x, u, n, c, i, n[i] + 2) /\ u[n[x.cur]] = MapClose
          /\ x.value \in AfterComma(G, n[i] + 2, n[x.cur] - 1, "map", c) /\ Apart(x.value, keys)
MapFull(x, keys, u, n, G, c, i) ==
  \A q \in (n[i] + 2)..Len(u) : u[q] = MapClose =>
    \A f \in AfterComma(G, n[i] + 2, q - 1, "map", c) : Apart(f, keys) => Got(x, n, f, q)

ValueAgrees(u, n, R, G, c, i) ==
  /\ ValueSound(R[i]["value"][{}], u, n, G, c, i)
  /\ ValueFull(R[i]["value"][{}], u, n, G, c, i)
ListAgrees(u, n, R, G, c, i) ==
  /\ ListSound(R[i]["elements"][{}], u, n, G, c, i)
  /\ ListFull(R[i]["elements"][{}], u, n, G, c, i)
MapAgrees(u, n, R, G, c, i) ==
  \A keys \in SUBSET Keys : /\ MapSound(R[i]["members"][keys], keys, u, n, G, c, i)
                            /\ MapFull(R[i]["members"][keys], keys, u, n, G, c, i)
Agrees(u, n, R, G, c, i) ==
  ValueAgrees(u, n, R, G, c, i) /\ ListAgrees(u, n, R, G, c, i) /\ MapAgrees(u, n, R, G, c, i)

\* They agree further on.
Beyond(u, n, R, G, c, i) ==
  \A j \in (i + 1)..(Halt(c) - 1) : Solid(u, n, c, j) => Agrees(u, n, R, G, c, j)

Nothing(c, a, b, x) == c /\ a > b /\ x = <<>>

LEMMA NoneAfterComma ==
  ASSUME NEW G, NEW a, NEW b, NEW kind, NEW c, NEW x
  PROVE  x \in AfterComma(G, a, b, kind, c) <=>
           x \in G[a][b][kind] \/ Nothing(c, a, b, x)
<1>1. CASE c /\ a > b  BY Zenon, <1>1 DEF AfterComma, Nothing
<1>2. CASE ~(c /\ a > b)  BY Zenon, <1>2 DEF AfterComma, Nothing
<1>. QED  BY Zenon, <1>1, <1>2

LEMMA RestIs ==
  ASSUME NEW u, NEW n, NEW R, NEW G, NEW c, Setting(u, n, R, G, c), NEW i \in 1..(Halt(c) - 1),
         NEW keys \in SUBSET Keys
  PROVE  IsRow(R[i], R, i, keys, c)
<1>1. Halt(c) \in Nat /\ Halt(c) <= Len(text) + 1 /\ Len(text) \in Nat  BY BoundsAre DEF Bounds
<1>2. i \in 1..Len(text)  BY <1>1
<1>3. Rest(R, c)  BY DEF Setting
<1>. QED  BY Zenon, <1>2, <1>3 DEF Rest


\* An element that is read, and where it ends.
LEMMA ItemSound ==
  ASSUME NEW u, NEW n, NEW R, NEW G, NEW c, Setting(u, n, R, G, c),
         NEW i, Beyond(u, n, R, G, c, i), NEW j \in (i + 1)..(Halt(c) - 1), i \in 1..(Halt(c) - 1),
         Solid(u, n, c, j), NEW v, v = R[j]["value"][{}], v.ok, More(v.cur, c)
  PROVE  /\ v.value \in G[n[j] + 1][n[v.cur]]["value"]
         /\ Found(u, n, c, v.cur, Skip(v.cur, c))
         /\ n[v.cur] \in (n[j] + 1)..(Len(u) - 1)
         /\ Skip(v.cur, c) \in (i + 1)..(Halt(c) - 1)
<1>. DEFINE h == Halt(c)
            k == Skip(v.cur, c)
<1>1. h \in Nat /\ Len(u) \in Nat /\ \A p \in 1..h : n[p] \in 0..Len(u)  BY BoundsAre DEF Bounds
<1>. HIDE DEF h
<1>2. ValueAgrees(u, n, R, G, c, j)  BY Zenon DEF Beyond, Agrees
<1>3. /\ v.cur \in (j + 1)..h /\ n[v.cur] \in (n[j] + 1)..Len(u)
      /\ v.value \in G[n[j] + 1][n[v.cur]]["value"]
  BY Zenon, <1>2 DEF ValueAgrees, ValueSound, Lands, h
<1>4. v.cur \in 1..h  BY <1>1, <1>3 DEF h
<1>5. Found(u, n, c, v.cur, k)  BY Zenon, <1>4, NextIs DEF h
<1>. HIDE DEF k
<1>6. k \in v.cur..(h - 1) /\ n[v.cur] \in 0..(Len(u) - 1)  BY Zenon, <1>5 DEF Found, h
<1>7. n[j] \in Int  BY DEF Solid
<1>8. n[v.cur] \in (n[j] + 1)..(Len(u) - 1) /\ k \in (i + 1)..(h - 1)
  BY <1>1, <1>3, <1>4, <1>6, <1>7 DEF h
<1>. QED  BY <1>3, <1>5, <1>8 DEF h, k

\* An element that is there is read.
LEMMA ItemFull ==
  ASSUME NEW u, NEW n, NEW R, NEW G, NEW c, Setting(u, n, R, G, c),
         NEW i, Beyond(u, n, R, G, c, i), NEW j \in (i + 1)..(Halt(c) - 1), i \in 1..(Halt(c) - 1),
         Solid(u, n, c, j), NEW v, v = R[j]["value"][{}],
         NEW q \in 0..(Len(u) - 1), NEW w \in G[n[j] + 1][q]["value"]
  PROVE  /\ Got(v, n, w, q)
         /\ More(v.cur, c) /\ Found(u, n, c, v.cur, Skip(v.cur, c))
         /\ Skip(v.cur, c) \in (i + 1)..(Halt(c) - 1)
<1>1. Halt(c) \in Nat /\ Len(u) \in Nat  BY BoundsAre DEF Bounds
<1>2. ValueAgrees(u, n, R, G, c, j)  BY Zenon DEF Beyond, Agrees
<1>3. q \in 0..Len(u) /\ q < Len(u)  BY <1>1
<1>4. Got(v, n, w, q)  BY Zenon, <1>2, <1>3 DEF ValueAgrees, ValueFull
<1>5. v.ok /\ n[v.cur] = q  BY Zenon, <1>4 DEF Got
<1>6. v.cur \in (j + 1)..Halt(c)  BY Zenon, <1>2, <1>5 DEF ValueAgrees, ValueSound, Lands
<1>7. v.cur \in 1..Halt(c)  BY <1>1, <1>6
<1>8. More(v.cur, c)  BY <1>3, <1>5, <1>7, NextIs
<1>9. Skip(v.cur, c) \in (i + 1)..(Halt(c) - 1)  BY <1>5, <1>8, ItemSound
<1>10. Found(u, n, c, v.cur, Skip(v.cur, c))  BY Zenon, <1>7, <1>8, NextIs
<1>. QED  BY Zenon, <1>4, <1>8, <1>9, <1>10

\* What follows a place.
LEMMA ItemFound ==
  ASSUME NEW u, NEW n, NEW R, NEW G, NEW c, Setting(u, n, R, G, c), NEW i, Solid(u, n, c, i)
  PROVE  /\ i \in 1..(Halt(c) - 1) /\ n[i] \in 0..(Len(u) - 1) /\ n[i + 1] = n[i] + 1
         /\ More(i + 1, c) <=> n[i] + 1 < Len(u)
         /\ More(i + 1, c) => /\ Found(u, n, c, i + 1, ItemAt(i, c))
                              /\ ItemAt(i, c) \in (i + 1)..(Halt(c) - 1)
                              /\ n[ItemAt(i, c)] = n[i] + 1 /\ n[ItemAt(i, c) + 1] = n[i] + 2
                              /\ text[ItemAt(i, c)] = u[n[i] + 2]
<1>1. /\ i \in 1..(Halt(c) - 1) /\ i + 1 \in 1..Halt(c) /\ n[i] \in 0..(Len(u) - 1)
      /\ n[i + 1] = n[i] + 1
  BY Zenon DEF Solid
<1>2. /\ More(i + 1, c) <=> n[i + 1] < Len(u)
      /\ More(i + 1, c) => Found(u, n, c, i + 1, ItemAt(i, c))
  BY <1>1, NextIs DEF ItemAt
<1>. DEFINE j == ItemAt(i, c)
<1>. HIDE DEF j
<1>3. ASSUME More(i + 1, c)
      PROVE  /\ j \in (i + 1)..(Halt(c) - 1)
             /\ n[j] = n[i] + 1 /\ n[j + 1] = n[i] + 2 /\ text[j] = u[n[i] + 2]
  <2>1. /\ j \in (i + 1)..(Halt(c) - 1) /\ n[j] = n[i + 1] /\ n[j + 1] = n[i + 1] + 1
        /\ text[j] = u[n[i + 1] + 1]
    BY Zenon, <1>2, <1>3 DEF Found, j
  <2>2. (n[i] + 1) + 1 = n[i] + 2  BY <1>1
  <2>. QED  BY <1>1, <2>1, <2>2
<1>. QED  BY <1>1, <1>2, <1>3 DEF j

\* A comma behind p, of a list or map from z on that ends at s.
CommaBounds(N, a, z, p, s) ==
  /\ p + 1 \in z..(s - 1) /\ (p + 1) - 1 = p /\ (p + 1) + 1 = p + 2
  /\ s - 1 \in 0..N /\ s \in a..N /\ z <= s - 1

LEMMA CommaBoundsAre ==
  ASSUME NEW N \in Nat, NEW a \in 1..(N + 1), NEW z \in Nat, a <= z,
         NEW p \in z..(N - 1), NEW s \in (p + 2)..N
  PROVE  CommaBounds(N, a, z, p, s)
  BY DEF CommaBounds

LEMMA ListSoundIs ==
  ASSUME NEW u, NEW n, NEW R, NEW G, NEW c, Setting(u, n, R, G, c),
         NEW i, Solid(u, n, c, i), Beyond(u, n, R, G, c, i)
  PROVE  ListSound(Elements(R, i, c), u, n, G, c, i)
<1>. DEFINE x == Elements(R, i, c)
            j == ItemAt(i, c)
            v == ItemOf(R, i, c)
            k == ItemEnd(R, i, c)
            r == ItemRest(R, i, c)
            a == n[i] + 2
            h == Halt(c)
<1>0. Grammar(u, G, c) /\ c \in BOOLEAN  BY DEF Setting
<1>1. ListRead(x, i, c, j, v, k, r)  BY Zenon, ElementsAre, ListTurnIs
<1>2. h \in Nat /\ Len(u) \in Nat /\ \A p \in 1..h : n[p] \in 0..Len(u)  BY BoundsAre DEF Bounds
<1>3. /\ i \in 1..(h - 1) /\ n[i] \in 0..(Len(u) - 1)
      /\ More(i + 1, c) <=> n[i] + 1 < Len(u)
      /\ More(i + 1, c) => /\ Found(u, n, c, i + 1, j) /\ j \in (i + 1)..(h - 1)
                           /\ n[j] = n[i] + 1 /\ n[j + 1] = n[i] + 2
                           /\ text[j] = u[n[i] + 2]
  BY ItemFound
<1>4. v = R[j]["value"][{}] /\ k = Skip(v.cur, c) /\ r = R[k]["elements"][{}]
  BY Zenon DEF ItemOf, ItemEnd, ItemRest
<1>. HIDE DEF x, j, v, k, r, h
<1>8. a \in 1..(Len(u) + 1) /\ a = n[i] + 2  BY <1>2, <1>3 DEF a
<1>5. SUFFICES ASSUME x.ok
      PROVE  /\ x.cur \in (i + 1)..h /\ n[x.cur] \in a..Len(u) /\ u[n[x.cur]] = ListClose
             /\ x.value \in AfterComma(G, a, n[x.cur] - 1, "list", c)
  BY Zenon DEF ListSound, Lands, x, h
<1>. HIDE DEF a
<1>6. CASE ListEmpty(i, c, j)
  <2>1. More(i + 1, c) /\ c /\ text[j] = ListClose /\ x.value = <<>> /\ x.cur = j + 1
    BY Zenon, <1>1, <1>6 DEF ListEmpty, ListRead, Good
  <2>2. j \in (i + 1)..(h - 1) /\ n[j + 1] = n[i] + 2 /\ u[n[i] + 2] = ListClose /\ n[i] + 1 < Len(u)
    BY <1>3, <2>1
  <2>3. x.cur \in (i + 1)..h /\ n[x.cur] = a /\ a \in a..Len(u) /\ a > n[x.cur] - 1
    BY <1>2, <1>3, <1>8, <2>1, <2>2
  <2>4. Nothing(c, a, n[x.cur] - 1, x.value)  BY Zenon, <2>1, <2>3 DEF Nothing
  <2>5. x.value \in AfterComma(G, a, n[x.cur] - 1, "list", c)  BY Zenon, <2>4, NoneAfterComma
  <2>. QED  BY Zenon, <1>8, <2>2, <2>3, <2>5
<1>7. ASSUME ListItem(i, c, j, v)
      PROVE  /\ v.value \in G[a][n[v.cur]]["value"]
             /\ Solid(u, n, c, k) /\ k \in (i + 1)..(h - 1) /\ k + 1 \in (i + 1)..h
             /\ n[k] = n[v.cur] /\ n[k + 1] = n[v.cur] + 1 /\ n[k] \in a..(Len(u) - 1)
             /\ text[k] = u[n[k] + 1]
  <2>1. More(i + 1, c) /\ v.ok /\ More(v.cur, c)  BY <1>7 DEF ListItem
  <2>2. Solid(u, n, c, j) /\ j \in (i + 1)..(h - 1) /\ n[j] + 1 = a
    BY <1>3, <1>8, <2>1 DEF Found
  <2>3. /\ v.value \in G[n[j] + 1][n[v.cur]]["value"]
        /\ Found(u, n, c, v.cur, k)
        /\ n[v.cur] \in (n[j] + 1)..(Len(u) - 1)
        /\ k \in (i + 1)..(h - 1)
    BY <1>3, <1>4, <2>1, <2>2, ItemSound DEF h
  <2>4. /\ Solid(u, n, c, k) /\ n[k] = n[v.cur] /\ n[k + 1] = n[v.cur] + 1
        /\ text[k] = u[n[v.cur] + 1]
    BY Zenon, <2>3 DEF Found
  <2>5. k + 1 \in (i + 1)..h  BY <1>2, <1>3, <2>3
  <2>. QED  BY <2>2, <2>3, <2>4, <2>5
<1>9. CASE ListOne(i, c, j, v, k)
  <2>1. ListItem(i, c, j, v) /\ text[k] = ListClose /\ x.value = <<v.value>> /\ x.cur = k + 1
    BY Zenon, <1>1, <1>9 DEF ListOne, ListRead, Good
  <2>2. /\ v.value \in G[a][n[k]]["value"] /\ k + 1 \in (i + 1)..h
        /\ n[k + 1] = n[k] + 1 /\ n[k] \in a..(Len(u) - 1) /\ text[k] = u[n[k] + 1]
    BY Zenon, <1>7, <2>1
  <2>3. /\ x.cur \in (i + 1)..h /\ n[x.cur] = n[k] + 1 /\ n[x.cur] \in a..Len(u)
        /\ u[n[x.cur]] = ListClose /\ n[k] \in 0..Len(u) /\ n[x.cur] - 1 = n[k]
    BY <1>2, <1>8, <2>1, <2>2
  <2>4. v.value \in Values(u, G, a, n[k])
    <3>1. IsCell(G[a][n[k]], u, G, a, n[k], c)  BY Zenon, <1>0, <1>8, <2>3 DEF Grammar
    <3>. QED  BY Zenon, <2>2, <3>1 DEF IsCell
  <2>5. x.value \in G[a][n[k]]["list"]
    <3>1. SaysList(u, G, a, n[k], c, x.value)  BY Zenon, <2>1, <2>4 DEF SaysList
    <3>. QED  BY Zenon, <1>0, <1>8, <2>3, <3>1, CellAt
  <2>6. x.value \in AfterComma(G, a, n[x.cur] - 1, "list", c)  BY Zenon, <2>3, <2>5, NoneAfterComma
  <2>. QED  BY Zenon, <2>3, <2>6
<1>10. CASE ListMore(i, c, j, v, k, r)
  <2>1. ListItem(i, c, j, v) /\ text[k] = Comma /\ r.ok /\ x.value = <<v.value>> \o r.value /\ x.cur = r.cur
    BY Zenon, <1>1, <1>10 DEF ListMore, ListRead, Good
  <2>2. /\ v.value \in G[a][n[k]]["value"] /\ k \in (i + 1)..(h - 1) /\ Solid(u, n, c, k)
        /\ n[k] \in a..(Len(u) - 1) /\ text[k] = u[n[k] + 1]
    BY Zenon, <1>7, <2>1
  <2>3. ListAgrees(u, n, R, G, c, k)  BY Zenon, <2>2 DEF Beyond, Agrees, h
  <2>4. /\ r.cur \in (k + 1)..h /\ n[r.cur] \in (n[k] + 2)..Len(u) /\ u[n[r.cur]] = ListClose
        /\ r.value \in AfterComma(G, n[k] + 2, n[r.cur] - 1, "list", c)
    BY Zenon, <1>4, <2>1, <2>3 DEF ListAgrees, ListSound, Lands, h
  <2>. DEFINE m == n[k] + 1
              b == n[x.cur] - 1
  <2>5. /\ m \in a..b /\ m - 1 = n[k] /\ m + 1 = n[k] + 2 /\ b \in 0..Len(u)
        /\ x.cur \in (i + 1)..h /\ n[x.cur] \in a..Len(u)
    <3>1. n[k] \in a..(Len(u) - 1) /\ n[r.cur] \in (n[k] + 2)..Len(u) /\ x.cur = r.cur
      BY <2>1, <2>2, <2>4
    <3>2. m \in a..b /\ m - 1 = n[k] /\ m + 1 = n[k] + 2 /\ b \in 0..Len(u) /\ n[x.cur] \in a..Len(u)
      <4>1. /\ n[k] \in a..(Len(u) - 1) /\ n[r.cur] \in (n[k] + 2)..Len(u) /\ n[x.cur] = n[r.cur]
            /\ a \in 1..(Len(u) + 1) /\ a \in Nat /\ a <= a /\ Len(u) \in Nat
        <5>1. a \in 1..(Len(u) + 1) /\ Len(u) \in Nat  BY Zenon, <1>2, <1>8
        <5>2. a \in Nat /\ a <= a  BY <5>1
        <5>. QED  BY Zenon, <3>1, <5>1, <5>2
      <4>2. CommaBounds(Len(u), a, a, n[k], n[r.cur])  BY <4>1, CommaBoundsAre
      <4>. QED  BY Zenon, <4>1, <4>2 DEF CommaBounds
    <3>3. x.cur \in (i + 1)..h  BY <1>2, <1>3, <2>1, <2>2, <2>4
    <3>. QED  BY <3>2, <3>3
  <2>6. u[m] = Comma  BY <2>1, <2>2
  <2>7. r.value \in AfterComma(G, m + 1, b, "list", c)  BY Zenon, <2>1, <2>4, <2>5
  <2>8. v.value \in G[a][m - 1]["value"]  BY Zenon, <2>2, <2>5
  <2>. HIDE DEF m
  <2>9. m \in Commas(u, a, b)  BY Zenon, <2>5, <2>6 DEF Commas, Comma
  <2>10. x.value = Cons(v.value, r.value)  BY Zenon, <2>1 DEF Cons
  <2>. HIDE DEF b
  <2>11. SaysList(u, G, a, b, c, x.value)  BY Zenon, <2>7, <2>8, <2>9, <2>10 DEF SaysList
  <2>12. x.value \in G[a][b]["list"]  BY Zenon, <1>0, <1>8, <2>5, <2>11, CellAt
  <2>13. x.value \in AfterComma(G, a, b, "list", c)  BY Zenon, <2>12, NoneAfterComma
  <2>. QED  BY Zenon, <2>1, <2>4, <2>5, <2>13 DEF b
<1>. QED  BY Zenon, <1>1, <1>5, <1>6, <1>9, <1>10 DEF ListRead

LEMMA ListFullIs ==
  ASSUME NEW u, NEW n, NEW R, NEW G, NEW c, Setting(u, n, R, G, c),
         NEW i, Solid(u, n, c, i), Beyond(u, n, R, G, c, i)
  PROVE  ListFull(Elements(R, i, c), u, n, G, c, i)
<1>. DEFINE x == Elements(R, i, c)
            j == ItemAt(i, c)
            v == ItemOf(R, i, c)
            k == ItemEnd(R, i, c)
            r == ItemRest(R, i, c)
            a == n[i] + 2
            h == Halt(c)
<1>0. Grammar(u, G, c) /\ c \in BOOLEAN  BY DEF Setting
<1>1. ListRead(x, i, c, j, v, k, r)  BY Zenon, ElementsAre, ListTurnIs
<1>2. h \in Nat /\ Len(u) \in Nat /\ \A p \in 1..h : n[p] \in 0..Len(u)  BY BoundsAre DEF Bounds
<1>3. /\ i \in 1..(h - 1) /\ n[i] \in 0..(Len(u) - 1)
      /\ More(i + 1, c) <=> n[i] + 1 < Len(u)
      /\ More(i + 1, c) => /\ Found(u, n, c, i + 1, j) /\ j \in (i + 1)..(h - 1)
                           /\ n[j] = n[i] + 1 /\ n[j + 1] = n[i] + 2
                           /\ text[j] = u[n[i] + 2]
  BY ItemFound
<1>4. v = R[j]["value"][{}] /\ k = Skip(v.cur, c) /\ r = R[k]["elements"][{}]
  BY Zenon DEF ItemOf, ItemEnd, ItemRest
<1>. HIDE DEF x, j, v, k, r, h
<1>5. SUFFICES ASSUME NEW q \in a..Len(u), u[q] = ListClose,
                      NEW l \in AfterComma(G, a, q - 1, "list", c)
               PROVE  Got(x, n, l, q)
  BY Zenon DEF ListFull, x
<1>6. More(i + 1, c)  BY <1>2, <1>3
<1>7. /\ Solid(u, n, c, j) /\ j \in (i + 1)..(h - 1) /\ n[j] + 1 = a /\ n[j + 1] = a
      /\ text[j] = u[a]
  BY <1>3, <1>6 DEF Found
<1>. HIDE DEF a
<1>8. a \in 1..(Len(u) + 1) /\ a \in Int /\ q \in Int /\ q - 1 \in 0..(Len(u) - 1) /\ q - 1 \in 0..Len(u)
      /\ a = n[i] + 2 /\ a <= q
  <2>1. n[i] \in 0..(Len(u) - 1) /\ Len(u) \in Nat  BY Zenon, <1>2, <1>3
  <2>2. \A y \in 0..(Len(u) - 1) : \A p \in (y + 2)..Len(u) :
          /\ y + 2 \in 1..(Len(u) + 1) /\ y + 2 \in Int /\ p \in Int /\ p - 1 \in 0..(Len(u) - 1)
          /\ p - 1 \in 0..Len(u) /\ y + 2 <= p
    BY <2>1
  <2>. QED  BY Zenon, <1>5, <2>1, <2>2 DEF a
<1>9. CASE Nothing(c, a, q - 1, l)
  <2>0. l = <<>> /\ c /\ a > q - 1  BY <1>9 DEF Nothing
  <2>1. q = a  BY <1>5, <1>8, <2>0
  <2>2. ListEmpty(i, c, j)  BY <1>5, <1>6, <1>7, <2>0, <2>1 DEF ListEmpty
  <2>3. Good(x, <<>>, j + 1)  BY Zenon, <1>1, <2>2 DEF ListRead
  <2>. QED  BY Zenon, <1>7, <2>0, <2>1, <2>3 DEF Good, Got
<1>10. CASE l \in G[a][q - 1]["list"]
  <2>1. SaysList(u, G, a, q - 1, c, l)  BY Zenon, <1>0, <1>8, <1>10, CellAt
  <2>2. text[j] # ListClose
    <3>1. Opens(u[a])  BY <1>0, <1>2, <1>8, <1>10, ListBegins
    <3>. QED  BY Zenon, <1>7, <3>1, OpensIs
  <2>3. ASSUME NEW p \in 0..(Len(u) - 1), NEW w \in G[a][p]["value"]
        PROVE  /\ ListItem(i, c, j, v) /\ v.value = w
               /\ Solid(u, n, c, k) /\ k \in (i + 1)..(h - 1) /\ n[k] = p /\ n[k + 1] = p + 1
               /\ text[k] = u[p + 1]
    <3>1. w \in G[n[j] + 1][p]["value"]  BY <1>7
    <3>2. /\ Got(v, n, w, p) /\ More(v.cur, c) /\ Found(u, n, c, v.cur, k)
          /\ k \in (i + 1)..(h - 1)
      BY <1>3, <1>4, <1>7, <3>1, ItemFull DEF h
    <3>3. v.ok /\ v.value = w /\ n[v.cur] = p  BY Zenon, <3>2 DEF Got
    <3>4. ListItem(i, c, j, v)  BY Zenon, <1>6, <2>2, <3>2, <3>3 DEF ListItem
    <3>. QED  BY Zenon, <3>2, <3>3, <3>4 DEF Found
  <2>4. CASE \E w \in Values(u, G, a, q - 1) : l = <<w>>
    <3>1. PICK w \in Values(u, G, a, q - 1) : l = <<w>>  BY Zenon, <2>4
    <3>2. w \in G[a][q - 1]["value"]
      <4>1. IsCell(G[a][q - 1], u, G, a, q - 1, c)  BY Zenon, <1>0, <1>8 DEF Grammar
      <4>. QED  BY Zenon, <3>1, <4>1 DEF IsCell
    <3>3. ListItem(i, c, j, v) /\ v.value = w /\ n[k + 1] = (q - 1) + 1 /\ text[k] = u[(q - 1) + 1]
      BY Zenon, <1>8, <2>3, <3>2
    <3>4. (q - 1) + 1 = q  BY <1>8
    <3>5. ListOne(i, c, j, v, k)  BY Zenon, <1>5, <3>3, <3>4 DEF ListOne
    <3>6. Good(x, <<v.value>>, k + 1)  BY Zenon, <1>1, <3>5 DEF ListRead
    <3>. QED  BY Zenon, <3>1, <3>3, <3>4, <3>6 DEF Good, Got
  <2>5. CASE \E m \in Commas(u, a, q - 1) : \E w \in G[a][m - 1]["value"] :
               \E t \in AfterComma(G, m + 1, q - 1, "list", c) : l = Cons(w, t)
    <3>0. PICK m \in Commas(u, a, q - 1) : \E w \in G[a][m - 1]["value"] :
                 \E t \in AfterComma(G, m + 1, q - 1, "list", c) : l = Cons(w, t)
      BY Zenon, <2>5
    <3>1. PICK w \in G[a][m - 1]["value"], t \in AfterComma(G, m + 1, q - 1, "list", c) : l = Cons(w, t)
      BY Zenon, <3>0
    <3>2. m \in a..(q - 1) /\ u[m] = Comma  BY Zenon, CommasAre
    <3>3. m - 1 \in 0..(Len(u) - 1) /\ (m - 1) + 1 = m /\ (m - 1) + 2 = m + 1
          /\ q \in (m + 1)..Len(u)
      BY <1>2, <1>8, <3>2
    <3>4. /\ ListItem(i, c, j, v) /\ v.value = w /\ Solid(u, n, c, k) /\ k \in (i + 1)..(h - 1)
          /\ n[k] = m - 1 /\ text[k] = u[m]
      <4>1. /\ ListItem(i, c, j, v) /\ v.value = w /\ Solid(u, n, c, k) /\ k \in (i + 1)..(h - 1)
            /\ n[k] = m - 1 /\ text[k] = u[(m - 1) + 1]
        BY ONLY <2>3, <3>3, w \in G[a][m - 1]["value"]
      <4>. QED  BY Zenon, <3>3, <4>1
    <3>5. ListAgrees(u, n, R, G, c, k)  BY Zenon, <3>4 DEF Beyond, Agrees, h
    <3>6. n[k] + 2 = m + 1  BY <3>3, <3>4
    <3>7. Got(r, n, t, q)  BY Zenon, <1>4, <1>5, <3>1, <3>3, <3>5, <3>6 DEF ListAgrees, ListFull
    <3>8. ListMore(i, c, j, v, k, r)  BY Zenon, <3>2, <3>4, <3>7 DEF ListMore, Got
    <3>9. Good(x, <<v.value>> \o r.value, r.cur)  BY Zenon, <1>1, <3>8 DEF ListRead
    <3>. QED  BY Zenon, <3>1, <3>4, <3>7, <3>9 DEF Good, Got, Cons
  <2>. QED  BY Zenon, <2>1, <2>4, <2>5 DEF SaysList
<1>. QED  BY Zenon, <1>5, <1>9, <1>10, NoneAfterComma


\* Members: the keys of a map, with one more.
LEMMA ApartWith ==
  ASSUME NEW f, NEW key, NEW value, NEW keys
  PROVE  Apart(With(f, key, value), keys) <=> Apart(f, keys) /\ key \notin keys
<1>1. DOMAIN With(f, key, value) = DOMAIN f \cup {key}  BY Zenon DEF With
<1>. QED  BY <1>1 DEF Apart

LEMMA ApartOne ==
  ASSUME NEW key, NEW value, NEW keys
  PROVE  Apart(With(<<>>, key, value), keys) <=> key \notin keys
<1>1. DOMAIN <<>> = {}  OBVIOUS
<1>2. Apart(<<>>, keys)  BY Zenon, <1>1 DEF Apart
<1>. QED  BY Zenon, <1>2, ApartWith

LEMMA ApartNone == ASSUME NEW keys PROVE Apart(<<>>, keys)
<1>1. DOMAIN <<>> = {}  OBVIOUS
<1>. QED  BY Zenon, <1>1 DEF Apart

LEMMA ApartBoth ==
  ASSUME NEW f, NEW key, NEW keys
  PROVE  Apart(f, keys \cup {key}) <=> Apart(f, keys) /\ key \notin DOMAIN f
  BY DEF Apart

\* What follows a key.
LEMMA MemberFound ==
  ASSUME NEW u, NEW n, NEW R, NEW G, NEW c, Setting(u, n, R, G, c), NEW i, Solid(u, n, c, i),
         More(i + 1, c)
  PROVE  /\ More(ItemAt(i, c) + 1, c) <=> n[i] + 2 < Len(u)
         /\ More(ItemAt(i, c) + 1, c) =>
              /\ text[ColonAt(i, c)] = u[n[i] + 3]
              /\ More(ColonAt(i, c) + 1, c) <=> n[i] + 3 < Len(u)
              /\ More(ColonAt(i, c) + 1, c) =>
                   /\ Solid(u, n, c, MemberAt(i, c))
                   /\ MemberAt(i, c) \in (i + 1)..(Halt(c) - 1)
                   /\ n[MemberAt(i, c)] = n[i] + 3
<1>. DEFINE h == Halt(c)
            j == ItemAt(i, c)
            k == ColonAt(i, c)
            l == MemberAt(i, c)
<1>1. h \in Nat  BY BoundsAre DEF Bounds
<1>2. /\ i \in 1..(h - 1) /\ n[i] \in Int
      /\ Found(u, n, c, i + 1, j) /\ j \in (i + 1)..(h - 1) /\ n[j] = n[i] + 1
  <2>1. n[i] \in 0..(Len(u) - 1) => n[i] \in Int  OBVIOUS
  <2>. QED  BY <2>1, ItemFound
<1>3. Solid(u, n, c, j)  BY Zenon, <1>2 DEF Found
<1>4. k = ItemAt(j, c) /\ l = ItemAt(k, c)  BY Zenon DEF ItemAt, ColonAt, MemberAt
<1>5. /\ More(j + 1, c) <=> n[j] + 1 < Len(u)
      /\ More(j + 1, c) => /\ Found(u, n, c, j + 1, k) /\ k \in (j + 1)..(h - 1)
                           /\ n[k] = n[j] + 1 /\ text[k] = u[n[j] + 2]
  BY <1>3, <1>4, ItemFound
<1>. HIDE DEF h, j, k, l
<1>6. n[j] + 1 = n[i] + 2 /\ n[j] + 2 = n[i] + 3  BY <1>2
<1>7. ASSUME More(j + 1, c)
      PROVE  /\ text[k] = u[n[i] + 3]
             /\ More(k + 1, c) <=> n[i] + 3 < Len(u)
             /\ More(k + 1, c) => /\ Solid(u, n, c, l) /\ l \in (i + 1)..(h - 1)
                                  /\ n[l] = n[i] + 3
  <2>1. /\ Found(u, n, c, j + 1, k) /\ k \in (j + 1)..(h - 1)
        /\ n[k] = n[i] + 2 /\ text[k] = u[n[i] + 3]
    BY Zenon, <1>5, <1>6, <1>7
  <2>2. Solid(u, n, c, k)  BY Zenon, <2>1 DEF Found
  <2>3. /\ More(k + 1, c) <=> n[k] + 1 < Len(u)
        /\ More(k + 1, c) => /\ Found(u, n, c, k + 1, l) /\ l \in (k + 1)..(h - 1)
                             /\ n[l] = n[k] + 1
    BY <1>4, <2>2, ItemFound DEF h
  <2>4. n[k] + 1 = n[i] + 3  BY <1>2, <2>1
  <2>5. \A y \in (k + 1)..(h - 1) : y \in (i + 1)..(h - 1)  BY <1>1, <1>2, <2>1
  <2>6. Found(u, n, c, k + 1, l) => Solid(u, n, c, l)  BY Zenon DEF Found
  <2>. QED  BY Zenon, <2>1, <2>3, <2>4, <2>5, <2>6
<1>. QED  BY Zenon, <1>5, <1>6, <1>7 DEF h, j, k, l

LEMMA MapSoundIs ==
  ASSUME NEW u, NEW n, NEW R, NEW G, NEW c, Setting(u, n, R, G, c),
         NEW i, Solid(u, n, c, i), Beyond(u, n, R, G, c, i), NEW keys \in SUBSET Keys
  PROVE  MapSound(Members(R, i, keys, c), keys, u, n, G, c, i)
<1>. DEFINE x == Members(R, i, keys, c)
            j == ItemAt(i, c)
            k == ColonAt(i, c)
            l == MemberAt(i, c)
            v == MemberOf(R, i, c)
            e == MemberEnd(R, i, c)
            r == MemberRest(R, i, keys, c)
            a == n[i] + 2
            h == Halt(c)
<1>0. Grammar(u, G, c) /\ c \in BOOLEAN  BY DEF Setting
<1>1. MapRead(x, i, keys, c, j, k, v, e, r)  BY Zenon, MembersAre, MapTurnIs
<1>2. h \in Nat /\ Len(u) \in Nat /\ \A p \in 1..h : n[p] \in 0..Len(u)  BY BoundsAre DEF Bounds
<1>3. /\ i \in 1..(h - 1) /\ n[i] \in 0..(Len(u) - 1)
      /\ More(i + 1, c) <=> n[i] + 1 < Len(u)
      /\ More(i + 1, c) => /\ Found(u, n, c, i + 1, j) /\ j \in (i + 1)..(h - 1)
                           /\ n[j] = n[i] + 1 /\ n[j + 1] = n[i] + 2
                           /\ text[j] = u[n[i] + 2]
  BY ItemFound
<1>4. More(i + 1, c) =>
        /\ More(j + 1, c) <=> n[i] + 2 < Len(u)
        /\ More(j + 1, c) => /\ text[k] = u[n[i] + 3]
                             /\ More(k + 1, c) <=> n[i] + 3 < Len(u)
                             /\ More(k + 1, c) => /\ Solid(u, n, c, l) /\ l \in (i + 1)..(h - 1)
                                                  /\ n[l] = n[i] + 3
  BY MemberFound
<1>5. /\ v = R[l]["value"][{}] /\ e = Skip(v.cur, c)
      /\ r = R[e]["members"][keys \cup {text[j]}]
  BY Zenon DEF MemberOf, MemberEnd, MemberRest
<1>. HIDE DEF x, j, k, l, v, e, r, h
<1>6. /\ a \in 1..(Len(u) + 1) /\ a = n[i] + 2 /\ a + 1 = n[i] + 3 /\ a + 2 = (n[i] + 3) + 1
      /\ a + 2 \in Int
  <2>1. n[i] \in 0..(Len(u) - 1) /\ Len(u) \in Nat  BY Zenon, <1>2, <1>3
  <2>2. \A y \in 0..(Len(u) - 1) :
          /\ y + 2 \in 1..(Len(u) + 1) /\ (y + 2) + 1 = y + 3 /\ (y + 2) + 2 = (y + 3) + 1
          /\ (y + 2) + 2 \in Int
    BY <2>1
  <2>. QED  BY Zenon, <2>1, <2>2 DEF a
<1>7. SUFFICES ASSUME x.ok
      PROVE  /\ x.cur \in (i + 1)..h /\ n[x.cur] \in a..Len(u) /\ u[n[x.cur]] = MapClose
             /\ x.value \in AfterComma(G, a, n[x.cur] - 1, "map", c) /\ Apart(x.value, keys)
  BY Zenon DEF MapSound, Lands, x, h
<1>. HIDE DEF a
<1>8. CASE MapEmpty(i, c, j)
  <2>1. More(i + 1, c) /\ c /\ text[j] = MapClose /\ x.value = <<>> /\ x.cur = j + 1
    BY Zenon, <1>1, <1>8 DEF MapEmpty, MapRead, Good
  <2>2. j \in (i + 1)..(h - 1) /\ n[j + 1] = n[i] + 2 /\ u[n[i] + 2] = MapClose /\ n[i] + 1 < Len(u)
    BY <1>3, <2>1
  <2>3. x.cur \in (i + 1)..h /\ n[x.cur] = a /\ a \in a..Len(u) /\ a > n[x.cur] - 1
    <3>1. n[x.cur] = a /\ x.cur = j + 1 /\ a \in 1..(Len(u) + 1) /\ n[i] + 1 < Len(u) /\ a = n[i] + 2
      BY Zenon, <1>6, <2>1, <2>2
    <3>2. h \in Nat /\ Len(u) \in Nat /\ i \in 1..(h - 1) /\ n[i] \in 0..(Len(u) - 1)
          /\ j \in (i + 1)..(h - 1)
      BY Zenon, <1>2, <1>3, <2>2
    <3>3. j + 1 \in (i + 1)..h  BY <3>2
    <3>4. a \in a..Len(u) /\ a > a - 1  BY <3>1, <3>2
    <3>. QED  BY Zenon, <3>1, <3>3, <3>4
  <2>4. Nothing(c, a, n[x.cur] - 1, x.value)  BY Zenon, <2>1, <2>3 DEF Nothing
  <2>5. x.value \in AfterComma(G, a, n[x.cur] - 1, "map", c)  BY Zenon, <2>4, NoneAfterComma
  <2>6. Apart(x.value, keys)  BY Zenon, <2>1, ApartNone
  <2>. QED  BY Zenon, <1>6, <2>2, <2>3, <2>5, <2>6
<1>9. ASSUME MapItem(i, keys, c, j, k, v)
      PROVE  /\ u[a] \in Keys /\ u[a] \notin keys /\ text[j] = u[a] /\ u[a + 1] = Colon
             /\ v.value \in G[a + 2][n[v.cur]]["value"]
             /\ Solid(u, n, c, e) /\ e \in (i + 1)..(h - 1) /\ e + 1 \in (i + 1)..h
             /\ n[e] = n[v.cur] /\ n[e + 1] = n[v.cur] + 1 /\ n[e] \in (a + 2)..(Len(u) - 1)
             /\ text[e] = u[n[e] + 1]
  <2>1. /\ More(i + 1, c) /\ text[j] \in Keys /\ text[j] \notin keys
        /\ More(j + 1, c) /\ text[k] = Colon /\ More(k + 1, c)
        /\ v.ok /\ More(v.cur, c)
    BY <1>9 DEF MapItem
  <2>2. /\ Solid(u, n, c, l) /\ l \in (i + 1)..(h - 1) /\ n[l] + 1 = a + 2
        /\ text[j] = u[a] /\ text[k] = u[a + 1]
    BY Zenon, <1>3, <1>4, <1>6, <2>1
  <2>3. /\ v.value \in G[n[l] + 1][n[v.cur]]["value"]
        /\ Found(u, n, c, v.cur, e)
        /\ n[v.cur] \in (n[l] + 1)..(Len(u) - 1)
        /\ e \in (i + 1)..(h - 1)
    BY <1>3, <1>5, <2>1, <2>2, ItemSound DEF h
  <2>4. /\ Solid(u, n, c, e) /\ n[e] = n[v.cur] /\ n[e + 1] = n[v.cur] + 1
        /\ text[e] = u[n[v.cur] + 1]
    BY Zenon, <2>3 DEF Found
  <2>5. e + 1 \in (i + 1)..h  BY <1>2, <1>3, <2>3
  <2>. QED  BY Zenon, <2>1, <2>2, <2>3, <2>4, <2>5
<1>10. CASE MapOne(i, keys, c, j, k, v, e)
  <2>1. MapItem(i, keys, c, j, k, v) /\ text[e] = MapClose /\ x.cur = e + 1
        /\ x.value = With(<<>>, text[j], v.value)
    BY Zenon, <1>1, <1>10 DEF MapOne, MapRead, Good
  <2>2. /\ u[a] \in Keys /\ u[a] \notin keys /\ text[j] = u[a] /\ u[a + 1] = Colon
        /\ v.value \in G[a + 2][n[e]]["value"] /\ e + 1 \in (i + 1)..h
        /\ n[e + 1] = n[e] + 1 /\ n[e] \in (a + 2)..(Len(u) - 1) /\ text[e] = u[n[e] + 1]
    BY Zenon, <1>9, <2>1
  <2>3. /\ x.cur \in (i + 1)..h /\ n[x.cur] = n[e] + 1 /\ n[x.cur] \in a..Len(u)
        /\ u[n[x.cur]] = MapClose /\ n[e] \in 0..Len(u) /\ n[x.cur] - 1 = n[e] /\ a + 2 <= n[e]
    <3>1. n[e] \in (a + 2)..(Len(u) - 1) /\ a \in 1..(Len(u) + 1) /\ Len(u) \in Nat
      BY Zenon, <1>2, <1>6, <2>2
    <3>2. /\ n[e] + 1 \in a..Len(u) /\ n[e] \in 0..Len(u) /\ (n[e] + 1) - 1 = n[e]
          /\ a + 2 <= n[e]
      BY <3>1
    <3>. QED  BY Zenon, <2>1, <2>2, <3>2
  <2>4. x.value \in G[a][n[e]]["map"]
    <3>1. SaysMap(u, G, a, n[e], c, x.value)  BY Zenon, <2>1, <2>2, <2>3 DEF SaysMap
    <3>. QED  BY Zenon, <1>0, <1>6, <2>3, <3>1, CellAt
  <2>5. x.value \in AfterComma(G, a, n[x.cur] - 1, "map", c)  BY Zenon, <2>3, <2>4, NoneAfterComma
  <2>6. Apart(x.value, keys)
    <3>1. Apart(With(<<>>, u[a], v.value), keys) <=> u[a] \notin keys  BY ONLY ApartOne, Zenon
    <3>. QED  BY Zenon, <2>1, <2>2, <3>1
  <2>. QED  BY Zenon, <2>3, <2>5, <2>6
<1>11. CASE MapMore(i, keys, c, j, k, v, e, r)
  <2>1. MapItem(i, keys, c, j, k, v) /\ text[e] = Comma /\ r.ok /\ x.cur = r.cur
        /\ x.value = With(r.value, text[j], v.value)
    BY Zenon, <1>1, <1>11 DEF MapMore, MapRead, Good
  <2>2. /\ u[a] \in Keys /\ u[a] \notin keys /\ text[j] = u[a] /\ u[a + 1] = Colon
        /\ v.value \in G[a + 2][n[e]]["value"] /\ e \in (i + 1)..(h - 1) /\ Solid(u, n, c, e)
        /\ n[e] \in (a + 2)..(Len(u) - 1) /\ text[e] = u[n[e] + 1]
    BY Zenon, <1>9, <2>1
  <2>3. MapAgrees(u, n, R, G, c, e)  BY Zenon, <2>2 DEF Beyond, Agrees, h
  <2>. DEFINE both == keys \cup {u[a]}
  <2>4. both \in SUBSET Keys  BY <2>2
  <2>. HIDE DEF both
  <2>5. r = R[e]["members"][both]  BY Zenon, <1>5, <2>2 DEF both
  <2>6. /\ r.cur \in (e + 1)..h /\ n[r.cur] \in (n[e] + 2)..Len(u) /\ u[n[r.cur]] = MapClose
        /\ r.value \in AfterComma(G, n[e] + 2, n[r.cur] - 1, "map", c)
        /\ Apart(r.value, both)
    BY Zenon, <2>1, <2>3, <2>4, <2>5 DEF MapAgrees, MapSound, Lands, h
  <2>7. Apart(r.value, keys) /\ u[a] \notin DOMAIN r.value  BY Zenon, <2>6, ApartBoth DEF both
  <2>. DEFINE m == n[e] + 1
              b == n[x.cur] - 1
  <2>8. /\ m \in (a + 2)..b /\ m - 1 = n[e] /\ m + 1 = n[e] + 2 /\ b \in 0..Len(u)
        /\ x.cur \in (i + 1)..h /\ n[x.cur] \in a..Len(u) /\ a + 2 <= b
    <3>1. n[e] \in (a + 2)..(Len(u) - 1) /\ n[r.cur] \in (n[e] + 2)..Len(u) /\ x.cur = r.cur
      BY <2>1, <2>2, <2>6
    <3>2. /\ m \in (a + 2)..b /\ m - 1 = n[e] /\ m + 1 = n[e] + 2 /\ b \in 0..Len(u)
          /\ n[x.cur] \in a..Len(u) /\ a + 2 <= b
      <4>1. /\ n[e] \in (a + 2)..(Len(u) - 1) /\ n[r.cur] \in (n[e] + 2)..Len(u)
            /\ a \in 1..(Len(u) + 1) /\ Len(u) \in Nat /\ n[x.cur] = n[r.cur]
        BY Zenon, <1>2, <1>6, <3>1
      <4>2. /\ n[e] + 1 \in (a + 2)..(n[r.cur] - 1) /\ (n[e] + 1) - 1 = n[e]
            /\ (n[e] + 1) + 1 = n[e] + 2 /\ n[r.cur] - 1 \in 0..Len(u)
            /\ n[r.cur] \in a..Len(u) /\ a + 2 <= n[r.cur] - 1
        <5>1. a + 2 \in Nat /\ a <= a + 2  BY <4>1
        <5>2. CommaBounds(Len(u), a, a + 2, n[e], n[r.cur])  BY <4>1, <5>1, CommaBoundsAre
        <5>. QED  BY Zenon, <5>2 DEF CommaBounds
      <4>. QED  BY Zenon, <4>1, <4>2
    <3>3. x.cur \in (i + 1)..h  BY <1>2, <1>3, <2>1, <2>2, <2>6
    <3>. QED  BY <3>2, <3>3
  <2>9. u[m] = Comma  BY <2>1, <2>2
  <2>10. r.value \in AfterComma(G, m + 1, b, "map", c)  BY Zenon, <2>1, <2>6, <2>8
  <2>11. v.value \in G[a + 2][m - 1]["value"]  BY Zenon, <2>2, <2>8
  <2>. HIDE DEF m
  <2>12. m \in Commas(u, a + 2, b)  BY Zenon, <2>8, <2>9 DEF Commas, Comma
  <2>13. x.value = With(r.value, u[a], v.value)  BY Zenon, <2>1, <2>2
  <2>. HIDE DEF b
  <2>14. SaysMap(u, G, a, b, c, x.value)
    BY Zenon, <2>2, <2>7, <2>8, <2>10, <2>11, <2>12, <2>13 DEF SaysMap
  <2>15. x.value \in G[a][b]["map"]  BY Zenon, <1>0, <1>6, <2>8, <2>14, CellAt
  <2>16. x.value \in AfterComma(G, a, b, "map", c)  BY Zenon, <2>15, NoneAfterComma
  <2>17. Apart(x.value, keys)
    <3>1. Apart(With(r.value, u[a], v.value), keys) <=> Apart(r.value, keys) /\ u[a] \notin keys
      BY ONLY ApartWith
    <3>. QED  BY Zenon, <2>2, <2>7, <2>13, <3>1
  <2>. QED  BY Zenon, <2>1, <2>6, <2>8, <2>16, <2>17 DEF b
<1>. QED  BY Zenon, <1>1, <1>7, <1>8, <1>10, <1>11 DEF MapRead

LEMMA MapFullIs ==
  ASSUME NEW u, NEW n, NEW R, NEW G, NEW c, Setting(u, n, R, G, c),
         NEW i, Solid(u, n, c, i), Beyond(u, n, R, G, c, i), NEW keys \in SUBSET Keys
  PROVE  MapFull(Members(R, i, keys, c), keys, u, n, G, c, i)
<1>. DEFINE x == Members(R, i, keys, c)
            j == ItemAt(i, c)
            k == ColonAt(i, c)
            l == MemberAt(i, c)
            v == MemberOf(R, i, c)
            e == MemberEnd(R, i, c)
            r == MemberRest(R, i, keys, c)
            a == n[i] + 2
            h == Halt(c)
<1>0. Grammar(u, G, c) /\ c \in BOOLEAN  BY DEF Setting
<1>1. MapRead(x, i, keys, c, j, k, v, e, r)  BY Zenon, MembersAre, MapTurnIs
<1>2. h \in Nat /\ Len(u) \in Nat /\ \A p \in 1..h : n[p] \in 0..Len(u)  BY BoundsAre DEF Bounds
<1>3. /\ i \in 1..(h - 1) /\ n[i] \in 0..(Len(u) - 1)
      /\ More(i + 1, c) <=> n[i] + 1 < Len(u)
      /\ More(i + 1, c) => /\ Found(u, n, c, i + 1, j) /\ j \in (i + 1)..(h - 1)
                           /\ n[j] = n[i] + 1 /\ n[j + 1] = n[i] + 2
                           /\ text[j] = u[n[i] + 2]
  BY ItemFound
<1>4. More(i + 1, c) =>
        /\ More(j + 1, c) <=> n[i] + 2 < Len(u)
        /\ More(j + 1, c) => /\ text[k] = u[n[i] + 3]
                             /\ More(k + 1, c) <=> n[i] + 3 < Len(u)
                             /\ More(k + 1, c) => /\ Solid(u, n, c, l) /\ l \in (i + 1)..(h - 1)
                                                  /\ n[l] = n[i] + 3
  BY MemberFound
<1>5. /\ v = R[l]["value"][{}] /\ e = Skip(v.cur, c)
      /\ r = R[e]["members"][keys \cup {text[j]}]
  BY Zenon DEF MemberOf, MemberEnd, MemberRest
<1>. HIDE DEF x, j, k, l, v, e, r, h
<1>6. SUFFICES ASSUME NEW q \in a..Len(u), u[q] = MapClose,
                      NEW f \in AfterComma(G, a, q - 1, "map", c), Apart(f, keys)
               PROVE  Got(x, n, f, q)
  BY Zenon DEF MapFull, x
<1>7. More(i + 1, c)  BY <1>2, <1>3
<1>8. n[j + 1] = a /\ text[j] = u[a]  BY <1>3, <1>7
<1>9. /\ a \in 1..(Len(u) + 1) /\ a \in Int /\ q \in Int /\ q - 1 \in 0..(Len(u) - 1)
      /\ q - 1 \in 0..Len(u) /\ (q - 1) + 1 = q /\ a <= q
      /\ a = n[i] + 2 /\ a + 1 = n[i] + 3 /\ a + 2 = (n[i] + 3) + 1
  <2>1. n[i] \in 0..(Len(u) - 1) /\ Len(u) \in Nat  BY Zenon, <1>2, <1>3
  <2>2. \A y \in 0..(Len(u) - 1) : \A p \in (y + 2)..Len(u) :
          /\ y + 2 \in 1..(Len(u) + 1) /\ y + 2 \in Int /\ p \in Int /\ p - 1 \in 0..(Len(u) - 1)
          /\ p - 1 \in 0..Len(u) /\ (p - 1) + 1 = p /\ y + 2 <= p
          /\ (y + 2) + 1 = y + 3 /\ (y + 2) + 2 = (y + 3) + 1
    BY <2>1
  <2>. QED  BY Zenon, <1>6, <2>1, <2>2 DEF a
<1>. HIDE DEF a
<1>10. CASE Nothing(c, a, q - 1, f)
  <2>0. f = <<>> /\ c /\ a > q - 1  BY <1>10 DEF Nothing
  <2>1. q = a  BY <1>6, <1>9, <2>0
  <2>2. MapEmpty(i, c, j)  BY <1>6, <1>7, <1>8, <2>0, <2>1 DEF MapEmpty
  <2>3. Good(x, <<>>, j + 1)  BY Zenon, <1>1, <2>2 DEF MapRead
  <2>. QED  BY Zenon, <1>8, <2>0, <2>1, <2>3 DEF Good, Got
<1>11. CASE f \in G[a][q - 1]["map"]
  <2>1. SaysMap(u, G, a, q - 1, c, f)  BY Zenon, <1>0, <1>9, <1>11, CellAt
  <2>2. a + 2 <= q - 1 /\ u[a] \in Keys /\ u[a + 1] = Colon  BY Zenon, <2>1 DEF SaysMap
  <2>3. text[j] # MapClose  BY Zenon, <1>8, <2>2, KeysOpenIs DEF KeysOpen
  <2>4. n[i] + 2 < Len(u) /\ n[i] + 3 < Len(u)
    <3>1. /\ n[i] \in 0..(Len(u) - 1) /\ Len(u) \in Nat /\ a = n[i] + 2 /\ q \in a..Len(u)
          /\ a + 2 <= q - 1
      BY Zenon, <1>2, <1>3, <1>9, <2>2
    <3>. QED  BY <3>1
  <2>5. /\ More(j + 1, c) /\ More(k + 1, c) /\ text[k] = Colon
        /\ Solid(u, n, c, l) /\ l \in (i + 1)..(h - 1) /\ n[l] + 1 = a + 2
    BY Zenon, <1>4, <1>7, <1>9, <2>2, <2>4
  <2>6. ASSUME u[a] \notin keys, NEW p \in 0..(Len(u) - 1), NEW w \in G[a + 2][p]["value"]
        PROVE  /\ MapItem(i, keys, c, j, k, v) /\ v.value = w
               /\ Solid(u, n, c, e) /\ e \in (i + 1)..(h - 1) /\ n[e] = p /\ n[e + 1] = p + 1
               /\ text[e] = u[p + 1]
    <3>1. w \in G[n[l] + 1][p]["value"]  BY <2>5
    <3>2. /\ Got(v, n, w, p) /\ More(v.cur, c) /\ Found(u, n, c, v.cur, e)
          /\ e \in (i + 1)..(h - 1)
      BY <1>3, <1>5, <2>5, <3>1, ItemFull DEF h
    <3>3. v.ok /\ v.value = w /\ n[v.cur] = p  BY Zenon, <3>2 DEF Got
    <3>4. MapItem(i, keys, c, j, k, v)
      BY Zenon, <1>7, <1>8, <2>2, <2>3, <2>5, <2>6, <3>2, <3>3 DEF MapItem
    <3>. QED  BY Zenon, <3>2, <3>3, <3>4 DEF Found
  <2>7. CASE \E w \in G[a + 2][q - 1]["value"] : f = With(<<>>, u[a], w)
    <3>1. PICK w \in G[a + 2][q - 1]["value"] : f = With(<<>>, u[a], w)  BY Zenon, <2>7
    <3>2. u[a] \notin keys  BY Zenon, <1>6, <3>1, ApartOne
    <3>3. /\ MapItem(i, keys, c, j, k, v) /\ v.value = w
          /\ n[e + 1] = (q - 1) + 1 /\ text[e] = u[(q - 1) + 1]
      BY Zenon, <1>9, <2>6, <3>2
    <3>4. MapOne(i, keys, c, j, k, v, e)  BY Zenon, <1>6, <1>9, <3>3 DEF MapOne
    <3>5. Good(x, With(<<>>, text[j], v.value), e + 1)  BY Zenon, <1>1, <3>4 DEF MapRead
    <3>. QED  BY Zenon, <1>8, <1>9, <3>1, <3>3, <3>5 DEF Good, Got
  <2>8. CASE \E m \in Commas(u, a + 2, q - 1) : \E w \in G[a + 2][m - 1]["value"] :
               \E t \in AfterComma(G, m + 1, q - 1, "map", c) :
                 u[a] \notin DOMAIN t /\ f = With(t, u[a], w)
    <3>0. PICK m \in Commas(u, a + 2, q - 1) : \E w \in G[a + 2][m - 1]["value"] :
                 \E t \in AfterComma(G, m + 1, q - 1, "map", c) :
                   u[a] \notin DOMAIN t /\ f = With(t, u[a], w)
      BY Zenon, <2>8
    <3>1. PICK w \in G[a + 2][m - 1]["value"], t \in AfterComma(G, m + 1, q - 1, "map", c) :
                 u[a] \notin DOMAIN t /\ f = With(t, u[a], w)
      BY Zenon, <3>0
    <3>2. m \in (a + 2)..(q - 1) /\ u[m] = Comma  BY Zenon, CommasAre
    <3>3. m - 1 \in 0..(Len(u) - 1) /\ (m - 1) + 1 = m /\ (m - 1) + 2 = m + 1
          /\ q \in (m + 1)..Len(u)
      BY <1>2, <1>9, <3>2
    <3>4. u[a] \notin keys /\ Apart(t, keys)  BY Zenon, <1>6, <3>1, ApartWith
    <3>5. /\ MapItem(i, keys, c, j, k, v) /\ v.value = w /\ Solid(u, n, c, e)
          /\ e \in (i + 1)..(h - 1) /\ n[e] = m - 1 /\ text[e] = u[m]
      <4>1. /\ MapItem(i, keys, c, j, k, v) /\ v.value = w /\ Solid(u, n, c, e)
            /\ e \in (i + 1)..(h - 1) /\ n[e] = m - 1 /\ text[e] = u[(m - 1) + 1]
        BY ONLY <2>6, <3>3, <3>4, w \in G[a + 2][m - 1]["value"]
      <4>. QED  BY Zenon, <3>3, <4>1
    <3>6. MapAgrees(u, n, R, G, c, e)  BY Zenon, <3>5 DEF Beyond, Agrees, h
    <3>. DEFINE both == keys \cup {u[a]}
    <3>7. both \in SUBSET Keys  BY <2>2
    <3>8. Apart(t, both)  BY Zenon, <3>1, <3>4, ApartBoth
    <3>. HIDE DEF both
    <3>9. r = R[e]["members"][both]  BY Zenon, <1>5, <1>8 DEF both
    <3>10. n[e] + 2 = m + 1  BY <3>3, <3>5
    <3>11. MapFull(r, both, u, n, G, c, e)  BY Zenon, <3>6, <3>7, <3>9 DEF MapAgrees
    <3>12. Got(r, n, t, q)  BY Zenon, <1>6, <3>1, <3>3, <3>8, <3>10, <3>11 DEF MapFull
    <3>13. MapMore(i, keys, c, j, k, v, e, r)  BY Zenon, <3>2, <3>5, <3>12 DEF MapMore, Got
    <3>14. Good(x, With(r.value, text[j], v.value), r.cur)  BY Zenon, <1>1, <3>13 DEF MapRead
    <3>. QED  BY Zenon, <1>8, <3>1, <3>5, <3>12, <3>14 DEF Good, Got
  <2>. QED  BY Zenon, <2>1, <2>7, <2>8 DEF SaysMap
<1>. QED  BY Zenon, <1>6, <1>10, <1>11, NoneAfterComma


\* Brackets: y is what is read behind the opening one, at p of u.
BodySound(y, u, n, G, c, i, p, closing, kind) ==
  y.ok => /\ Lands(y, u, n, c, i, p) /\ u[n[y.cur]] = closing
          /\ y.value \in AfterComma(G, p, n[y.cur] - 1, kind, c)
BodyFull(y, u, n, G, c, p, closing, kind) ==
  \A q \in p..Len(u) : u[q] = closing =>
    \A l \in AfterComma(G, p, q - 1, kind, c) : Got(y, n, l, q)
BodyBegins(u, G, p, closing, kind) ==
  \A b \in 0..Len(u) : \A l \in G[p][b][kind] : u[p] # closing

LEMMA BracketsSound ==
  ASSUME NEW u, NEW n, NEW R, NEW G, NEW c, Setting(u, n, R, G, c), NEW i, Solid(u, n, c, i),
         NEW a, a = n[i] + 1, NEW opening, NEW closing, NEW type, NEW kind, NEW x, NEW y,
         BracketsRead(x, i, c, ItemAt(i, c), opening, closing, type, y), text[i] = opening,
         BodySound(y, u, n, G, c, i, a + 1, closing, kind), x.ok
  PROVE  /\ Lands(x, u, n, c, i, a)
         /\ SaysBrackets(u, G, a, n[x.cur], x.value, opening, closing, type, kind)
<1>. DEFINE j == ItemAt(i, c)
            h == Halt(c)
<1>1. h \in Nat /\ Len(u) \in Nat  BY BoundsAre DEF Bounds
<1>2. /\ i \in 1..(h - 1) /\ n[i] \in 0..(Len(u) - 1)
      /\ More(i + 1, c) =>
           j \in (i + 1)..(h - 1) /\ n[j + 1] = n[i] + 2 /\ text[j] = u[n[i] + 2] /\ n[i] + 1 < Len(u)
  BY ItemFound
<1>3. u[a] = opening  BY Zenon DEF Solid
<1>. HIDE DEF j, h
<1>4. a \in 1..Len(u) /\ a + 1 = n[i] + 2 /\ (More(i + 1, c) => a + 1 \in a..Len(u))  BY <1>1, <1>2
<1>5. CASE Hollow(i, c, j, opening, closing)
  <2>1. More(i + 1, c) /\ text[j] = closing /\ x.value = <<type, <<>> >> /\ x.cur = j + 1
    BY Zenon, <1>5 DEF BracketsRead, Hollow, Good, j
  <2>2. n[x.cur] = a + 1 /\ u[a + 1] = closing /\ a + 1 \in a..Len(u)  BY Zenon, <1>2, <1>4, <2>1
  <2>3. j \in (i + 1)..(h - 1)  BY Zenon, <1>2, <2>1
  <2>4. j + 1 \in (i + 1)..h  BY <1>1, <1>2, <2>3
  <2>5. a < a + 1  BY <1>4
  <2>6. <<>> \in Inside(G, a, a + 1, kind)  BY Zenon DEF Inside
  <2>7. SaysBrackets(u, G, a, a + 1, x.value, opening, closing, type, kind)
    BY Zenon, <1>3, <2>1, <2>2, <2>5, <2>6 DEF SaysBrackets
  <2>. QED  BY Zenon, <2>1, <2>2, <2>4, <2>7 DEF Lands, h
<1>6. CASE Filled(i, c, j, opening, closing, y)
  <2>1. More(i + 1, c) /\ text[j] # closing /\ y.ok /\ x.value = <<type, y.value>> /\ x.cur = y.cur
    BY Zenon, <1>6 DEF BracketsRead, Filled, Good, j
  <2>. DEFINE b == n[x.cur]
  <2>2. /\ x.cur \in (i + 1)..h /\ b \in (a + 1)..Len(u) /\ u[b] = closing
        /\ y.value \in AfterComma(G, a + 1, b - 1, kind, c)
    BY Zenon, <2>1 DEF BodySound, Lands, h
  <2>3. u[a + 1] # closing  BY Zenon, <1>2, <1>4, <2>1
  <2>. HIDE DEF b
  <2>4. b # a + 1  BY Zenon, <2>2, <2>3
  <2>5. b \in a..Len(u) /\ a < b /\ ~(a + 1 > b - 1)  BY <1>4, <2>2, <2>4
  <2>6. y.value \in G[a + 1][b - 1][kind]  BY Zenon, <2>2, <2>5, NoneAfterComma DEF Nothing
  <2>7. y.value \in Inside(G, a, b, kind)  BY Zenon, <2>4, <2>6 DEF Inside
  <2>8. SaysBrackets(u, G, a, b, x.value, opening, closing, type, kind)
    BY Zenon, <1>3, <2>1, <2>2, <2>5, <2>7 DEF SaysBrackets
  <2>. QED  BY Zenon, <2>2, <2>5, <2>8 DEF Lands, h, b
<1>. QED  BY Zenon, <1>5, <1>6 DEF BracketsRead, j

LEMMA BracketsFull ==
  ASSUME NEW u, NEW n, NEW R, NEW G, NEW c, Setting(u, n, R, G, c), NEW i, Solid(u, n, c, i),
         NEW a, a = n[i] + 1, NEW opening, NEW closing, NEW type, NEW kind, NEW x, NEW y,
         BracketsRead(x, i, c, ItemAt(i, c), opening, closing, type, y),
         BodyFull(y, u, n, G, c, a + 1, closing, kind), BodyBegins(u, G, a + 1, closing, kind),
         NEW q \in 0..Len(u), NEW v, SaysBrackets(u, G, a, q, v, opening, closing, type, kind)
  PROVE  Got(x, n, v, q)
<1>. DEFINE j == ItemAt(i, c)
            h == Halt(c)
<1>1. Len(u) \in Nat  BY BoundsAre DEF Bounds
<1>2. /\ n[i] \in 0..(Len(u) - 1)
      /\ More(i + 1, c) <=> n[i] + 1 < Len(u)
      /\ More(i + 1, c) => n[j + 1] = n[i] + 2 /\ text[j] = u[n[i] + 2]
  BY ItemFound
<1>3. text[i] = u[a]  BY Zenon DEF Solid
<1>. HIDE DEF j
<1>4. PICK w \in Inside(G, a, q, kind) : v = <<type, w>>  BY Zenon DEF SaysBrackets
<1>5. a < q /\ u[a] = opening /\ u[q] = closing  BY Zenon DEF SaysBrackets
<1>6. /\ a \in Int /\ a + 1 = n[i] + 2 /\ n[i] + 1 < Len(u) /\ q \in (a + 1)..Len(u)
      /\ q - 1 \in 0..Len(u)
  BY <1>1, <1>2, <1>5
<1>7. More(i + 1, c) /\ n[j + 1] = a + 1 /\ text[j] = u[a + 1]  BY Zenon, <1>2, <1>6
<1>8. CASE a + 1 = q
  <2>1. w = <<>>  BY Zenon, <1>4, <1>8 DEF Inside
  <2>2. Hollow(i, c, j, opening, closing)  BY Zenon, <1>3, <1>5, <1>7, <1>8 DEF Hollow
  <2>3. Good(x, <<type, <<>> >>, j + 1)  BY Zenon, <2>2 DEF BracketsRead, j
  <2>. QED  BY Zenon, <1>4, <1>7, <1>8, <2>1, <2>3 DEF Good, Got
<1>9. CASE a + 1 # q
  <2>1. w \in G[a + 1][q - 1][kind]  BY Zenon, <1>4, <1>9 DEF Inside
  <2>2. text[j] # closing  BY Zenon, <1>6, <1>7, <2>1 DEF BodyBegins
  <2>3. w \in AfterComma(G, a + 1, q - 1, kind, c)  BY Zenon, <2>1, NoneAfterComma
  <2>4. Got(y, n, w, q)  BY Zenon, <1>5, <1>6, <2>3 DEF BodyFull
  <2>5. Filled(i, c, j, opening, closing, y)
    BY Zenon, <1>3, <1>5, <1>7, <2>2, <2>4 DEF Filled, Got
  <2>6. Good(x, <<type, y.value>>, y.cur)  BY Zenon, <2>5 DEF BracketsRead, j
  <2>. QED  BY Zenon, <1>4, <2>4, <2>6 DEF Good, Got
<1>. QED  BY Zenon, <1>8, <1>9

\* The bodies of the two kinds of brackets.
LEMMA BodiesAre ==
  ASSUME NEW u, NEW n, NEW R, NEW G, NEW c, Setting(u, n, R, G, c),
         NEW i, Solid(u, n, c, i), Beyond(u, n, R, G, c, i), NEW p, p = n[i] + 2
  PROVE  /\ BodySound(Elements(R, i, c), u, n, G, c, i, p, ListClose, "list")
         /\ BodyFull(Elements(R, i, c), u, n, G, c, p, ListClose, "list")
         /\ BodyBegins(u, G, p, ListClose, "list")
         /\ BodySound(Members(R, i, {}, c), u, n, G, c, i, p, MapClose, "map")
         /\ BodyFull(Members(R, i, {}, c), u, n, G, c, p, MapClose, "map")
         /\ BodyBegins(u, G, p, MapClose, "map")
<1>. DEFINE e == Elements(R, i, c)
            m == Members(R, i, {}, c)
<1>0. {} \in SUBSET Keys  OBVIOUS
<1>1. ListSound(e, u, n, G, c, i) /\ ListFull(e, u, n, G, c, i)  BY ListSoundIs, ListFullIs
<1>2. MapSound(m, {}, u, n, G, c, i) /\ MapFull(m, {}, u, n, G, c, i)
  BY <1>0, MapSoundIs, MapFullIs
<1>3. \A f : Apart(f, {})  BY DEF Apart
<1>. HIDE DEF e, m
<1>4. BodySound(e, u, n, G, c, i, p, ListClose, "list")  BY Zenon, <1>1 DEF ListSound, BodySound
<1>5. BodyFull(e, u, n, G, c, p, ListClose, "list")  BY Zenon, <1>1 DEF ListFull, BodyFull
<1>6. BodySound(m, u, n, G, c, i, p, MapClose, "map")  BY Zenon, <1>2 DEF MapSound, BodySound
<1>7. BodyFull(m, u, n, G, c, p, MapClose, "map")  BY Zenon, <1>2, <1>3 DEF MapFull, BodyFull
<1>8. Grammar(u, G, c)  BY DEF Setting
<1>9. Len(u) \in Nat /\ p \in 1..(Len(u) + 1)
  <2>1. Len(u) \in Nat  BY BoundsAre DEF Bounds
  <2>2. n[i] \in 0..(Len(u) - 1)  BY Zenon DEF Solid
  <2>. QED  BY <2>1, <2>2
<1>10. BodyBegins(u, G, p, ListClose, "list")
  <2>1. SUFFICES ASSUME NEW b \in 0..Len(u), NEW l \in G[p][b]["list"] PROVE u[p] # ListClose
    BY Zenon DEF BodyBegins
  <2>2. Opens(u[p])  BY <1>8, <1>9, ListBegins
  <2>. QED  BY Zenon, <2>2, OpensIs
<1>11. BodyBegins(u, G, p, MapClose, "map")
  <2>1. SUFFICES ASSUME NEW b \in 0..Len(u), NEW f \in G[p][b]["map"] PROVE u[p] # MapClose
    BY Zenon DEF BodyBegins
  <2>2. SaysMap(u, G, p, b, c, f)  BY Zenon, <1>8, <1>9, CellAt
  <2>. QED  BY Zenon, <2>2, KeysOpenIs DEF SaysMap, KeysOpen
<1>. QED  BY Zenon, <1>4, <1>5, <1>6, <1>7, <1>10, <1>11 DEF e, m

LEMMA ValueSoundIs ==
  ASSUME NEW u, NEW n, NEW R, NEW G, NEW c, Setting(u, n, R, G, c),
         NEW i, Solid(u, n, c, i), Beyond(u, n, R, G, c, i)
  PROVE  ValueSound(ParseValue(R, i, c), u, n, G, c, i)
<1>. DEFINE x == ParseValue(R, i, c)
            e == Elements(R, i, c)
            m == Members(R, i, {}, c)
            j == ItemAt(i, c)
            a == n[i] + 1
            h == Halt(c)
<1>1. ValueRead(x, i, c, j, e, m)  BY Zenon, ValueIs, ValueTurnIs
<1>2. h \in Nat /\ Len(u) \in Nat /\ \A p \in 1..h : n[p] \in 0..Len(u)  BY BoundsAre DEF Bounds
<1>3. /\ i \in 1..(h - 1) /\ n[i] \in 0..(Len(u) - 1) /\ n[i + 1] = a /\ text[i] = u[a]
  BY Zenon DEF Solid
<1>4. a \in 1..(Len(u) + 1) /\ a \in a..Len(u) /\ a + 1 = n[i] + 2 /\ i + 1 \in (i + 1)..h
  BY <1>2, <1>3
<1>5. /\ BodySound(e, u, n, G, c, i, a + 1, ListClose, "list")
      /\ BodySound(m, u, n, G, c, i, a + 1, MapClose, "map")
  BY <1>4, BodiesAre
<1>6. Grammar(u, G, c)  BY DEF Setting
<1>7. a = n[i] + 1  OBVIOUS
<1>. HIDE DEF x, e, m, j, a, h
<1>8. SUFFICES ASSUME x.ok
      PROVE  Lands(x, u, n, c, i, a) /\ SaysValue(u, G, a, n[x.cur], x.value)
  <2>1. ASSUME Lands(x, u, n, c, i, a), SaysValue(u, G, a, n[x.cur], x.value)
        PROVE  x.value \in G[a][n[x.cur]]["value"]
    <3>1. x.cur \in (i + 1)..h  BY Zenon, <2>1 DEF Lands, h
    <3>2. x.cur \in 1..h  BY <1>2, <1>3, <3>1
    <3>3. n[x.cur] \in 0..Len(u)  BY Zenon, <1>2, <3>2
    <3>. QED  BY Zenon, <1>4, <1>6, <2>1, <3>3, CellAt
  <2>. QED  BY Zenon, <2>1, <1>8 DEF ValueSound, a, x
<1>9. CASE text[i] \in Scalars
  <2>1. x.value = <<text[i]>> /\ x.cur = i + 1  BY Zenon, <1>1, <1>9 DEF ValueRead, Good
  <2>2. SaysScalar(u, a, n[x.cur], x.value)  BY Zenon, <1>3, <1>9, <2>1 DEF SaysScalar
  <2>3. Lands(x, u, n, c, i, a)  BY Zenon, <1>3, <1>4, <2>1 DEF Lands, h
  <2>. QED  BY Zenon, <2>2, <2>3 DEF SaysValue
<1>10. CASE text[i] = ListOpen
  <2>1. BracketsRead(x, i, c, ItemAt(i, c), ListOpen, ListClose, "array", e)
    BY Zenon, <1>1 DEF ValueRead, j
  <2>2. /\ Lands(x, u, n, c, i, a)
        /\ SaysBrackets(u, G, a, n[x.cur], x.value, ListOpen, ListClose, "array", "list")
    BY <1>5, <1>7, <1>8, <1>10, <2>1, BracketsSound
  <2>. QED  BY Zenon, <2>2 DEF SaysValue
<1>11. CASE text[i] = MapOpen
  <2>1. BracketsRead(x, i, c, ItemAt(i, c), MapOpen, MapClose, "object", m)
    BY Zenon, <1>1 DEF ValueRead, j
  <2>2. /\ Lands(x, u, n, c, i, a)
        /\ SaysBrackets(u, G, a, n[x.cur], x.value, MapOpen, MapClose, "object", "map")
    BY <1>5, <1>7, <1>8, <1>11, <2>1, BracketsSound
  <2>. QED  BY Zenon, <2>2 DEF SaysValue
<1>. QED  BY Zenon, <1>1, <1>8, <1>9, <1>10, <1>11 DEF ValueRead

LEMMA ValueFullIs ==
  ASSUME NEW u, NEW n, NEW R, NEW G, NEW c, Setting(u, n, R, G, c),
         NEW i, Solid(u, n, c, i), Beyond(u, n, R, G, c, i)
  PROVE  ValueFull(ParseValue(R, i, c), u, n, G, c, i)
<1>. DEFINE x == ParseValue(R, i, c)
            e == Elements(R, i, c)
            m == Members(R, i, {}, c)
            j == ItemAt(i, c)
            a == n[i] + 1
<1>1. ValueRead(x, i, c, j, e, m)  BY Zenon, ValueIs, ValueTurnIs
<1>2. Len(u) \in Nat  BY BoundsAre DEF Bounds
<1>3. n[i] \in 0..(Len(u) - 1) /\ n[i + 1] = a /\ text[i] = u[a]  BY Zenon DEF Solid
<1>4. a \in 1..(Len(u) + 1) /\ a + 1 = n[i] + 2  BY <1>2, <1>3
<1>5. /\ BodyFull(e, u, n, G, c, a + 1, ListClose, "list")
      /\ BodyBegins(u, G, a + 1, ListClose, "list")
      /\ BodyFull(m, u, n, G, c, a + 1, MapClose, "map")
      /\ BodyBegins(u, G, a + 1, MapClose, "map")
  BY <1>4, BodiesAre
<1>6. Grammar(u, G, c)  BY DEF Setting
<1>7. a = n[i] + 1  OBVIOUS
<1>. HIDE DEF x, e, m, j, a
<1>8. SUFFICES ASSUME NEW q \in 0..Len(u), NEW v \in G[a][q]["value"] PROVE Got(x, n, v, q)
  BY Zenon DEF ValueFull, a, x
<1>9. SaysValue(u, G, a, q, v)  BY Zenon, <1>4, <1>6, CellAt
<1>10. CASE SaysScalar(u, a, q, v)
  <2>1. a = q /\ u[a] \in Scalars /\ v = <<u[a]>>  BY Zenon, <1>10 DEF SaysScalar
  <2>2. Good(x, <<text[i]>>, i + 1)  BY Zenon, <1>1, <1>3, <2>1 DEF ValueRead
  <2>. QED  BY Zenon, <1>3, <2>1, <2>2 DEF Good, Got
<1>11. CASE SaysBrackets(u, G, a, q, v, ListOpen, ListClose, "array", "list")
  <2>1. BracketsRead(x, i, c, ItemAt(i, c), ListOpen, ListClose, "array", e)
    BY Zenon, <1>1 DEF ValueRead, j
  <2>. QED  BY <1>5, <1>7, <1>11, <2>1, BracketsFull
<1>12. CASE SaysBrackets(u, G, a, q, v, MapOpen, MapClose, "object", "map")
  <2>1. BracketsRead(x, i, c, ItemAt(i, c), MapOpen, MapClose, "object", m)
    BY Zenon, <1>1 DEF ValueRead, j
  <2>. QED  BY <1>5, <1>7, <1>12, <2>1, BracketsFull
<1>. QED  BY Zenon, <1>9, <1>10, <1>11, <1>12 DEF SaysValue


\* So they agree on the value at every place.
LEMMA AgreesIs ==
  ASSUME NEW u, NEW n, NEW R, NEW G, NEW c, Setting(u, n, R, G, c),
         NEW i, Solid(u, n, c, i), Beyond(u, n, R, G, c, i)
  PROVE  Agrees(u, n, R, G, c, i)
<1>1. i \in 1..(Halt(c) - 1) /\ {} \in SUBSET Keys  BY DEF Solid
<1>2. /\ R[i]["value"][{}] = ParseValue(R, i, c)
      /\ R[i]["elements"][{}] = Elements(R, i, c)
  <2>1. IsRow(R[i], R, i, {}, c)  BY <1>1, RestIs
  <2>. QED  BY Zenon, <2>1 DEF IsRow
<1>3. ValueSound(ParseValue(R, i, c), u, n, G, c, i) /\ ValueFull(ParseValue(R, i, c), u, n, G, c, i)
  BY ValueSoundIs, ValueFullIs
<1>4. ListSound(Elements(R, i, c), u, n, G, c, i) /\ ListFull(Elements(R, i, c), u, n, G, c, i)
  BY ListSoundIs, ListFullIs
<1>5. ASSUME NEW keys \in SUBSET Keys
      PROVE  /\ MapSound(R[i]["members"][keys], keys, u, n, G, c, i)
             /\ MapFull(R[i]["members"][keys], keys, u, n, G, c, i)
  <2>1. IsRow(R[i], R, i, keys, c)  BY <1>1, RestIs
  <2>2. R[i]["members"][keys] = Members(R, i, keys, c)  BY Zenon, <2>1 DEF IsRow
  <2>3. /\ MapSound(Members(R, i, keys, c), keys, u, n, G, c, i)
        /\ MapFull(Members(R, i, keys, c), keys, u, n, G, c, i)
    BY MapSoundIs, MapFullIs
  <2>. QED  BY Zenon, <2>2, <2>3
<1>6. ValueAgrees(u, n, R, G, c, i)  BY Zenon, <1>2, <1>3 DEF ValueAgrees
<1>7. ListAgrees(u, n, R, G, c, i)  BY Zenon, <1>2, <1>4 DEF ListAgrees
<1>8. MapAgrees(u, n, R, G, c, i)  BY Zenon, <1>5 DEF MapAgrees
<1>. QED  BY Zenon, <1>6, <1>7, <1>8 DEF Agrees

LEMMA AgreesThroughout ==
  ASSUME NEW u, NEW n, NEW R, NEW G, NEW c, Setting(u, n, R, G, c), NEW i, Solid(u, n, c, i)
  PROVE  Agrees(u, n, R, G, c, i)
<1>. DEFINE m == Halt(c) - 1
            S == {k \in 1..m : Solid(u, n, c, k) => Agrees(u, n, R, G, c, k)}
<1>1. m \in Nat  BY BoundsAre DEF Bounds
<1>2. ASSUME NEW k \in 1..m, \A j \in (k + 1)..m : j \in S PROVE k \in S
  <2>1. \A j \in (k + 1)..m : Solid(u, n, c, j) => Agrees(u, n, R, G, c, j)  BY Zenon, <1>2
  <2>2. Beyond(u, n, R, G, c, k)  BY Zenon, <2>1 DEF Beyond
  <2>3. Solid(u, n, c, k) => Agrees(u, n, R, G, c, k)  BY <2>2, AgreesIs
  <2>. QED  BY Zenon, <2>3
<1>3. i \in 1..m  BY Zenon DEF Solid
<1>. HIDE DEF m, S
<1>4. \A k \in 1..m : k \in S  BY <1>1, <1>2, Backwards
<1>. QED  BY Zenon, <1>3, <1>4 DEF S

LEMMA ParsedHas ==
  ASSUME NEW c, NEW i, i = Skip(1, c), NEW v, v = ValueAt(i, c), NEW x
  PROVE  x \in Parsed(c) <=> /\ More(1, c) /\ (text[i] = ListOpen \/ text[i] = MapOpen)
                             /\ v.ok /\ ~More(v.cur, c) /\ x = v.value
<1>. DEFINE P == Parsed(c)
<1>1. P = IF ~More(1, c) THEN {}
          ELSE IF text[i] \notin {ListOpen, MapOpen} \/ ~v.ok THEN {}
          ELSE IF More(v.cur, c) THEN {} ELSE {v.value}
  BY Zenon DEF Parsed, ListOpen, MapOpen
<1>2. text[i] \in {ListOpen, MapOpen} <=> text[i] = ListOpen \/ text[i] = MapOpen  OBVIOUS
<1>. HIDE DEF P
<1>3. CASE /\ More(1, c) /\ (text[i] = ListOpen \/ text[i] = MapOpen)
           /\ v.ok /\ ~More(v.cur, c)
  <2>1. P = {v.value}  BY Zenon, <1>1, <1>2, <1>3
  <2>. QED  BY Zenon, <1>3, <2>1 DEF P
<1>4. CASE ~(/\ More(1, c) /\ (text[i] = ListOpen \/ text[i] = MapOpen)
             /\ v.ok /\ ~More(v.cur, c))
  <2>1. P = {}  BY Zenon, <1>1, <1>2, <1>4
  <2>. QED  BY Zenon, <1>4, <2>1 DEF P
<1>. QED  BY Zenon, <1>3, <1>4

\* The document as a whole.
LEMMA DocumentIs ==
  ASSUME DocText, NEW c \in BOOLEAN
  PROVE  Parsed(c) = Document(UpToStop(c), c)
<1>. DEFINE u == Spoken(UpToStop(c), c)
            i == Skip(1, c)
            v == ValueAt(i, c)
            h == Halt(c)
            N == Len(u)
<1>1. PICK n : Reading(u, n, c)  BY ReadingIs
<1>2. PICK R : Rest(R, c) /\ \A k : ValueAt(k, c) = R[k]["value"][{}]  BY DocumentRead
<1>3. N \in Nat /\ n[1] = 0  BY Zenon, <1>1 DEF Reading
<1>. HIDE DEF u
<1>4. PICK G : Grammar(u, G, c) /\ Means(u, c) = G[1][N]["value"]  BY <1>3, MeansIs
<1>5. Setting(u, n, R, G, c)  BY Zenon, <1>1, <1>2, <1>4 DEF Setting
<1>6. h \in Nat \ {0} /\ \A p \in 1..h : n[p] \in 0..N  BY Zenon, <1>5, BoundsAre DEF Bounds
<1>7. Document(UpToStop(c), c) = IF N < 2 THEN {} ELSE G[1][N]["value"]
  BY Zenon, <1>4 DEF Document, u
<1>8. /\ 1 \in 1..h /\ 0 + 1 = 1 /\ 1 \in 1..(N + 1) /\ N \in 0..N /\ (N >= 2 => 0 < N /\ ~(1 = N))
      /\ ~(N < N) /\ (~(N < 2) => N >= 2) /\ (N >= 2 => ~(N < 2)) /\ ~(1 < 1)
  <2>1. N \in Nat /\ h \in Nat \ {0}  BY Zenon, <1>3, <1>6
  <2>. HIDE DEF N, h
  <2>. QED  BY <2>1
<1>. HIDE DEF i, v, h, N
<1>9. (More(1, c) <=> 0 < N) /\ (More(1, c) => Found(u, n, c, 1, i))
  BY Zenon, <1>3, <1>5, <1>8, NextIs DEF h, i, N
<1>10. ASSUME More(1, c)
       PROVE  /\ ValueSound(v, u, n, G, c, i) /\ ValueFull(v, u, n, G, c, i)
              /\ n[i] = 0 /\ text[i] = u[1] /\ i \in 1..(h - 1)
  <2>1. /\ Solid(u, n, c, i) /\ n[i] = 0 /\ text[i] = u[1] /\ i \in 1..(h - 1)
    BY Zenon, <1>3, <1>8, <1>9, <1>10 DEF Found, h
  <2>2. ValueAgrees(u, n, R, G, c, i)  BY Zenon, <1>5, <2>1, AgreesThroughout DEF Agrees
  <2>3. v = R[i]["value"][{}]  BY Zenon, <1>2 DEF v
  <2>. QED  BY Zenon, <2>1, <2>2, <2>3 DEF ValueAgrees
<1>11. ASSUME More(1, c), v.ok
       PROVE  /\ v.cur \in 1..h /\ n[v.cur] \in 1..N /\ v.value \in G[1][n[v.cur]]["value"]
              /\ More(v.cur, c) <=> n[v.cur] < N
  <2>1. v.cur \in (i + 1)..h /\ n[v.cur] \in 1..N /\ v.value \in G[1][n[v.cur]]["value"]
    BY Zenon, <1>8, <1>10, <1>11 DEF ValueSound, Lands, h, N
  <2>2. v.cur \in 1..h  BY <1>6, <1>10, <1>11, <2>1
  <2>3. More(v.cur, c) <=> n[v.cur] < N  BY Zenon, <1>5, <2>2, NextIs DEF h, N
  <2>. QED  BY Zenon, <2>1, <2>2, <2>3
<1>12. ASSUME NEW x PROVE x \in Parsed(c) <=> N >= 2 /\ x \in G[1][N]["value"]
  <2>1. x \in Parsed(c) <=> /\ More(1, c) /\ (text[i] = ListOpen \/ text[i] = MapOpen)
                            /\ v.ok /\ ~More(v.cur, c) /\ x = v.value
    <3>1. i = Skip(1, c) /\ v = ValueAt(i, c)  BY Zenon DEF i, v
    <3>. QED  BY ONLY <3>1, ParsedHas
  <2>2. ASSUME x \in Parsed(c) PROVE N >= 2 /\ x \in G[1][N]["value"]
    <3>1. /\ More(1, c) /\ (text[i] = ListOpen \/ text[i] = MapOpen)
          /\ v.ok /\ ~More(v.cur, c) /\ x = v.value
      BY Zenon, <2>1, <2>2
    <3>2. n[v.cur] \in 1..N /\ ~(n[v.cur] < N) /\ v.value \in G[1][n[v.cur]]["value"]
      BY Zenon, <1>11, <3>1
    <3>3. n[v.cur] = N /\ N >= 1  BY <1>3, <3>2
    <3>4. x \in G[1][N]["value"]  BY Zenon, <3>1, <3>2, <3>3
    <3>5. ASSUME N = 1 PROVE FALSE
      <4>1. SaysValue(u, G, 1, N, x)  BY Zenon, <1>4, <1>8, <3>4, CellAt DEF N
      <4>2. u[1] \in Scalars
        BY Zenon, <1>8, <3>5, <4>1 DEF SaysValue, SaysScalar, SaysBrackets
      <4>3. u[1] = ListOpen \/ u[1] = MapOpen  BY Zenon, <1>10, <3>1
      <4>4. /\ ListOpen \in {Comma, Colon, ListOpen, ListClose, MapOpen, MapClose}
            /\ MapOpen \in {Comma, Colon, ListOpen, ListClose, MapOpen, MapClose}
        OBVIOUS
      <4>. QED  BY Zenon, <4>2, <4>3, <4>4, PunctuationIs
    <3>6. N >= 2  BY <1>3, <3>3, <3>5
    <3>. QED  BY Zenon, <3>4, <3>6
  <2>3. ASSUME N >= 2, x \in G[1][N]["value"] PROVE x \in Parsed(c)
    <3>1. More(1, c) /\ ~(1 = N)  BY Zenon, <1>8, <1>9, <2>3
    <3>2. Got(v, n, x, N)  BY Zenon, <1>8, <1>10, <2>3, <3>1 DEF ValueFull, N
    <3>3. v.ok /\ v.value = x /\ n[v.cur] = N  BY Zenon, <3>2 DEF Got
    <3>4. ~More(v.cur, c)  BY Zenon, <1>8, <1>11, <3>1, <3>3
    <3>5. SaysValue(u, G, 1, N, x)  BY Zenon, <1>4, <1>8, <2>3, CellAt DEF N
    <3>6. u[1] = ListOpen \/ u[1] = MapOpen
      BY Zenon, <3>1, <3>5 DEF SaysValue, SaysScalar, SaysBrackets
    <3>7. text[i] = ListOpen \/ text[i] = MapOpen  BY Zenon, <1>10, <3>1, <3>6
    <3>. QED  BY Zenon, <2>1, <3>1, <3>3, <3>4, <3>7
  <2>. QED  BY Zenon, <2>2, <2>3
<1>13. \A x : x \in Parsed(c) <=> x \in Document(UpToStop(c), c)
  <2>1. CASE N >= 2  BY Zenon, <1>7, <1>8, <1>12, <2>1
  <2>2. CASE ~(N >= 2)
    <3>1. N < 2  BY Zenon, <1>8, <2>2
    <3>. QED  BY Zenon, <1>7, <1>12, <2>2, <3>1
  <2>. QED  BY Zenon, <2>1, <2>2
<1>. QED  BY Zenon, <1>13

\* The parser returns exactly what the grammar says the text up to a NUL or a slash
\* means, and rejects it where it means nothing; whatever the scalars and the keys,
\* however long the text, however deep the brackets, in JSON and in JSONC.
THEOREM DocumentsParsedAlways == Spec => []DocumentsParsed
<1>1. ASSUME Written PROVE DocumentsParsed
  <2>1. SUFFICES ASSUME subject = "document", NEW c \in BOOLEAN
                 PROVE  Parsed(c) = Document(UpToStop(c), c)
    BY DEF DocumentsParsed
  <2>2. DocText  BY <1>1, <2>1 DEF Written, DocText
  <2>. QED  BY <2>2, DocumentIs
<1>. QED  BY <1>1, WrittenAlways, PTL

=============================================================================
