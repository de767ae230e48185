---------------------------- MODULE CommandLine ----------------------------
(* args_to_cmd and cmd_to_args (source/Platform/PlatformWin32.cpp): the      *)
(* arguments of a Windows process written as one command line, and the line  *)
(* split again by the system.  Strings are sequences of characters.          *)
EXTENDS Integers, Sequences

Quote == "quote"
Slash == "backslash"
Space == " "
Times(n, ch) == [i \in 1..n |-> ch]

Has(s, chars) == \E i \in DOMAIN s : s[i] \in chars

\* Mutant: the backslashes before the closing quote are not doubled.
Close_Plain(space, slash) == IF space THEN <<Quote>> ELSE <<>>

\* What ends an argument with a blank in it.
Close(space, slash) == IF space THEN Times(slash, Slash) \o <<Quote>> ELSE <<>>

\* One character: backslashes are counted up to a quote, or another character, of
\* which only the latter sets the count back.
Escape(acc, ch) ==
  CASE ch = Slash -> [slash |-> acc.slash + 1, buf |-> Append(acc.buf, Slash)]
    [] ch = Quote -> [slash |-> acc.slash, buf |-> acc.buf \o Times(acc.slash + 1, Slash) \o <<Quote>>]
    [] OTHER -> [slash |-> 0, buf |-> Append(acc.buf, ch)]

escape_one(arg) ==
  IF arg = <<>> THEN <<Quote, Quote>>
  ELSE IF ~Has(arg, {Quote, Slash, Space}) THEN arg
  ELSE LET space == Has(arg, {Space})
           acc[n \in 0..Len(arg)] ==
             IF n = 0 THEN [slash |-> 0, buf |-> IF space THEN <<Quote>> ELSE <<>>]
             ELSE Escape(acc[n - 1], arg[n])
       IN  acc[Len(arg)].buf \o Close(space, acc[Len(arg)].slash)

args_to_cmd(args) ==
  LET res[n \in 0..Len(args)] ==
        IF n = 0 THEN <<>>
        ELSE res[n - 1] \o (IF n = 1 THEN <<>> ELSE <<Space>>) \o escape_one(args[n])
  IN  res[Len(args)]

-----------------------------------------------------------------------------
\* CommandLineToArgvW on a line whose first argument, the program, is a plain word:
\* 2n backslashes and a quote make n backslashes and end or begin quoting, 2n+1 make
\* n and a quote; other backslashes stand for themselves.

\* Between two arguments.
Between(args) ==
  [args |-> args, arg |-> <<>>, slash |-> 0, in |-> FALSE, quoted |-> FALSE, two |-> FALSE]

\* in: within an argument. two: the last quote closed, and another is itself a quote.
Split(acc, ch) ==
  LET Kept == acc.arg \o Times(acc.slash, Slash)
      Half == acc.arg \o Times(acc.slash \div 2, Slash)
  IN  CASE ch = Slash -> [acc EXCEPT !.slash = @ + 1, !.in = TRUE, !.two = FALSE]
        [] ch = Quote /\ acc.slash % 2 = 1 ->
             [acc EXCEPT !.slash = 0, !.arg = Append(Half, Quote), !.in = TRUE, !.two = FALSE]
        [] ch = Quote /\ acc.slash % 2 = 0 /\ acc.two /\ acc.slash = 0 ->
             [acc EXCEPT !.arg = Append(acc.arg, Quote), !.two = FALSE]
        [] ch = Quote /\ acc.slash % 2 = 0 /\ ~(acc.two /\ acc.slash = 0) ->
             [acc EXCEPT !.slash = 0, !.arg = Half, !.in = TRUE,
                         !.quoted = ~acc.quoted, !.two = acc.quoted]
        [] ch = Space /\ ~acc.quoted ->
             Between(IF acc.in THEN Append(acc.args, Kept) ELSE acc.args)
        [] OTHER -> [acc EXCEPT !.slash = 0, !.arg = Append(Kept, ch), !.in = TRUE, !.two = FALSE]

\* What is known after a part of the line.
Walk(start, part) ==
  LET acc[n \in 0..Len(part)] == IF n = 0 THEN start ELSE Split(acc[n - 1], part[n])
  IN  acc[Len(part)]

\* A blank behind the line ends the last argument.
cmd_to_args(cmd) == Split([Walk(Between(<<>>), cmd) EXCEPT !.quoted = FALSE], Space).args

-----------------------------------------------------------------------------
\* escape_one goes on counting the backslashes before a quote. It then puts too many
\* before another quote, or before the closing one.
Recounted(arg) ==
  \E i \in 1..(Len(arg) - 1) :
    /\ arg[i] = Slash /\ arg[i + 1] = Quote
    /\ LET tail == SubSeq(arg, i + 2, Len(arg))
           Run(t) == \A j \in DOMAIN t : t[j] = Slash
       IN  \/ \E j \in DOMAIN tail : tail[j] = Quote /\ Run(SubSeq(tail, 1, j - 1))
           \/ Has(arg, {Space}) /\ Run(tail)

\* A program gets the arguments that were written into its command line, empty ones
\* and those with blanks, quotes and backslashes included, and it does so exactly if
\* escape_one has not counted backslashes twice.
LineSplits(args) ==
  LET all == <<<<"p">>>> \o args
  IN  cmd_to_args(args_to_cmd(all)) = all <=> ~\E i \in DOMAIN args : Recounted(args[i])
=============================================================================
