---------------------------- MODULE LoggerProofs ----------------------------
(* Proofs about Logger, for any number of threads, records, flushes, starts  *)
(* and races: what the threads have to do is in order, records are kept, and *)
(* every flush is brought to its end.                                        *)
EXTENDS Logger, SequenceTheorems, FiniteSetTheorems, TLAPS

-----------------------------------------------------------------------------
\* Agendas.

Has(a, op) == \E i \in DOMAIN a : a[i] = op

\* What may wait behind something else: what rotate and open leave half done comes first.
Later == {"count", "note", "flush", "write", "reinit", "close"}

Shaped(a) == a \in Seq(Ops) /\ \A i \in 2..Len(a) : a[i] \in Later

\* What the short agendas of the actions are.
LEMMA ShapedOf ==
  /\ Shaped(<<>>)
  /\ \A a \in Ops : Shaped(<<a>>) /\ Head(<<a>>) = a /\ <<a>> # <<>>
                    /\ \A op : Has(<<a>>, op) <=> op = a
  /\ \A op : ~Has(<<>>, op)
<1>. USE DEF Shaped, Has
<1>1. Shaped(<<>>) /\ \A op : ~Has(<<>>, op)  OBVIOUS
<1>2. ASSUME NEW a \in Ops
      PROVE  Shaped(<<a>>) /\ Head(<<a>>) = a /\ <<a>> # <<>> /\ \A op : Has(<<a>>, op) <=> op = a
  OBVIOUS
<1>. QED  BY <1>1, <1>2

LEMMA ShapedAppend ==
  ASSUME NEW a, Shaped(a), NEW b \in Later
  PROVE  /\ Shaped(Append(a, b))
         /\ a # <<>> => Head(Append(a, b)) = Head(a)
         /\ \A op : Has(Append(a, b), op) <=> Has(a, op) \/ op = b
<1>1. a \in Seq(Ops) /\ b \in Ops /\ Len(a) \in Nat  BY LenProperties DEF Shaped, Later, Ops
<1>2. /\ Append(a, b) \in Seq(Ops) /\ Len(Append(a, b)) = Len(a) + 1
      /\ \A i \in 1..Len(a) : Append(a, b)[i] = a[i]
      /\ Append(a, b)[Len(a) + 1] = b
  BY <1>1, AppendProperties
<1>3. DOMAIN a = 1..Len(a) /\ DOMAIN Append(a, b) = 1..(Len(a) + 1)
  BY <1>1, <1>2, LenProperties
<1>4. Shaped(Append(a, b))  BY <1>1, <1>2 DEF Shaped
<1>5. a # <<>> => Head(Append(a, b)) = Head(a)
  BY <1>1, <1>2, EmptySeq
<1>6. \A op : Has(Append(a, b), op) <=> Has(a, op) \/ op = b
  BY <1>1, <1>2, <1>3 DEF Has
<1>. QED  BY <1>4, <1>5, <1>6

\* The first thing is replaced.
LEMMA Replacing ==
  ASSUME NEW a, Shaped(a), a # <<>>, NEW ops, Shaped(ops)
  PROVE  /\ Shaped(ops \o Tail(a))
         /\ ops # <<>> => ops \o Tail(a) # <<>> /\ Head(ops \o Tail(a)) = Head(ops)
         /\ ops = <<>> /\ ops \o Tail(a) # <<>> => Head(ops \o Tail(a)) \in Later
         /\ \A op : Has(ops \o Tail(a), op) <=> Has(ops, op) \/ Has(Tail(a), op)
         /\ \A op : Has(a, op) <=> op = Head(a) \/ Has(Tail(a), op)
<1>. DEFINE b == Tail(a)
<1>1. /\ a \in Seq(Ops) /\ ops \in Seq(Ops) /\ Len(a) \in Nat \ {0} /\ Len(ops) \in Nat
      /\ DOMAIN a = 1..Len(a) /\ DOMAIN ops = 1..Len(ops)
  BY LenProperties, EmptySeq DEF Shaped
<1>2. b \in Seq(Ops) /\ Len(b) = Len(a) - 1 /\ \A i \in 1..Len(b) : b[i] = a[i + 1]
  BY <1>1, HeadTailProperties
<1>3. \A i \in 1..Len(b) : b[i] \in Later  BY <1>1, <1>2 DEF Shaped
<1>4. DOMAIN b = 1..Len(b)  BY <1>2, LenProperties
<1>. HIDE DEF b
<1>5. /\ ops \o b \in Seq(Ops) /\ Len(ops \o b) = Len(ops) + Len(b)
      /\ \A i \in 1..(Len(ops) + Len(b)) :
           (ops \o b)[i] = IF i <= Len(ops) THEN ops[i] ELSE b[i - Len(ops)]
  BY <1>1, <1>2, ConcatProperties
<1>6. DOMAIN (ops \o b) = 1..(Len(ops) + Len(b))  BY <1>5, LenProperties
<1>7. Shaped(ops \o b)  BY <1>1, <1>2, <1>3, <1>5 DEF Shaped
<1>8. ASSUME ops # <<>> PROVE ops \o b # <<>> /\ Head(ops \o b) = Head(ops)
  <2>1. Len(ops) \in Nat \ {0}  BY <1>1, <1>8, EmptySeq
  <2>. QED  BY <1>1, <1>2, <1>5, <2>1, EmptySeq
<1>9. ASSUME ops = <<>>, ops \o b # <<>> PROVE Head(ops \o b) \in Later
  <2>1. ops \o b = b  BY <1>2, <1>9, ConcatEmptySeq
  <2>. QED  BY <1>2, <1>3, <1>9, <2>1, EmptySeq
<1>10. \A op : Has(ops \o b, op) <=> Has(ops, op) \/ Has(b, op)
  <2>1. ASSUME NEW op, Has(ops \o b, op) PROVE Has(ops, op) \/ Has(b, op)
    <3>1. PICK i \in 1..(Len(ops) + Len(b)) : (ops \o b)[i] = op  BY <1>6, <2>1 DEF Has
    <3>2. CASE i <= Len(ops)  BY <1>1, <1>2, <1>5, <3>1, <3>2 DEF Has
    <3>3. CASE i > Len(ops)
      <4>1. i - Len(ops) \in DOMAIN b /\ b[i - Len(ops)] = op
        BY <1>1, <1>2, <1>4, <1>5, <3>1, <3>3
      <4>. QED  BY <4>1 DEF Has
    <3>. QED  BY <1>1, <1>2, <3>1, <3>2, <3>3
  <2>2. ASSUME NEW op, Has(ops, op) PROVE Has(ops \o b, op)
    BY <1>1, <1>2, <1>5, <1>6, <2>2 DEF Has
  <2>3. ASSUME NEW op, Has(b, op) PROVE Has(ops \o b, op)
    <3>1. PICK i \in 1..Len(b) : b[i] = op  BY <1>4, <2>3 DEF Has
    <3>2. i + Len(ops) \in 1..(Len(ops) + Len(b)) /\ (ops \o b)[i + Len(ops)] = op
      BY <1>1, <1>2, <1>5, <3>1
    <3>. QED  BY <1>6, <3>2 DEF Has
  <2>. QED  BY <2>1, <2>2, <2>3
<1>11. \A op : Has(a, op) <=> op = Head(a) \/ Has(b, op)
  <2>1. ASSUME NEW op, Has(a, op) PROVE op = Head(a) \/ Has(b, op)
    <3>1. PICK i \in 1..Len(a) : a[i] = op  BY <1>1, <2>1 DEF Has
    <3>2. CASE i = 1  BY <1>1, <3>1, <3>2
    <3>3. CASE i # 1
      <4>1. i - 1 \in DOMAIN b /\ b[i - 1] = op  BY <1>1, <1>2, <1>4, <3>1, <3>3
      <4>. QED  BY <4>1 DEF Has
    <3>. QED  BY <3>2, <3>3
  <2>2. Has(a, Head(a))  BY <1>1 DEF Has
  <2>3. ASSUME NEW op, Has(b, op) PROVE Has(a, op)
    <3>1. PICK i \in 1..Len(b) : b[i] = op  BY <1>4, <2>3 DEF Has
    <3>2. i + 1 \in 1..Len(a) /\ a[i + 1] = op  BY <1>1, <1>2, <3>1
    <3>. QED  BY <1>1, <3>2 DEF Has
  <2>. QED  BY <2>1, <2>2, <2>3
<1>. QED  BY <1>7, <1>8, <1>9, <1>10, <1>11 DEF b

LEMMA TwoOf ==
  ASSUME NEW S, NEW a \in S, NEW b \in S
  PROVE  Append(<<a>>, b) = <<a, b>> /\ <<a, b>> # <<>> /\ Head(<<a, b>>) = a
<1>1. <<a>> \in Seq(S) /\ Len(<<a>>) = 1 /\ <<a>>[1] = a  OBVIOUS
<1>2. <<a, b>> \in Seq(S) /\ Len(<<a, b>>) = 2 /\ <<a, b>>[1] = a /\ <<a, b>>[2] = b  OBVIOUS
<1>3. /\ Append(<<a>>, b) \in Seq(S) /\ Len(Append(<<a>>, b)) = 2
      /\ Append(<<a>>, b)[1] = a /\ Append(<<a>>, b)[2] = b
  BY <1>1, AppendProperties
<1>4. \A i \in 1..2 : Append(<<a>>, b)[i] = <<a, b>>[i]  BY <1>2, <1>3
<1>5. Append(<<a>>, b) = <<a, b>>  BY <1>2, <1>3, <1>4, SeqEqual
<1>. QED  BY <1>2, <1>5, EmptySeq

LEMMA ShapedNote ==
  ASSUME NEW a, Shaped(a)
  PROVE  /\ Shaped(a \o Note)
         /\ a # <<>> => a \o Note # <<>> /\ Head(a \o Note) = Head(a)
         /\ \A op : Has(a \o Note, op) <=> Has(a, op) \/ op \in {"count", "note"}
<1>. DEFINE b == Append(a, "count")
            c == Append(b, "note")
<1>1. /\ Shaped(b) /\ (a # <<>> => Head(b) = Head(a))
      /\ \A op : Has(b, op) <=> Has(a, op) \/ op = "count"
  BY ShapedAppend DEF Later
<1>2. a \in Seq(Ops) /\ "count" \in Ops /\ "note" \in Ops  BY DEF Shaped, Ops
<1>3. b \in Seq(Ops) /\ b # <<>> /\ b = a \o <<"count">>
  BY <1>2, AppendProperties, AppendIsConcat
<1>4. c \in Seq(Ops) /\ c # <<>> /\ c = b \o <<"note">>
  <2>. HIDE DEF b
  <2>. QED  BY <1>2, <1>3, AppendProperties, AppendIsConcat
<1>5. c = a \o Note
  <2>1. <<"count">> \in Seq(Ops) /\ <<"note">> \in Seq(Ops)  BY <1>2
  <2>2. (a \o <<"count">>) \o <<"note">> = a \o (<<"count">> \o <<"note">>)
    BY <1>2, <2>1, ConcatAssociative
  <2>3. <<"count">> \o <<"note">> = Note
    <3>1. Append(<<"count">>, "note") = <<"count">> \o <<"note">>
      BY <1>2, <2>1, AppendIsConcat
    <3>2. Append(<<"count">>, "note") = <<"count", "note">>  BY <1>2, TwoOf
    <3>. QED  BY <3>1, <3>2 DEF Note
  <2>. QED  BY <1>3, <1>4, <2>2, <2>3
<1>6. /\ Shaped(c) /\ Head(c) = Head(b)
      /\ \A op : Has(c, op) <=> Has(b, op) \/ op = "note"
  <2>. HIDE DEF b
  <2>1. "note" \in Later  BY DEF Later
  <2>. QED  BY <1>1, <1>3, <2>1, ShapedAppend
<1>. QED  BY <1>1, <1>4, <1>5, <1>6

\* The agendas that the calls and steps begin with.
LEMMA ShapedCalls ==
  /\ Shaped(<<"count", "write">>) /\ Head(<<"count", "write">>) = "count"
  /\ Shaped(<<"cleanup", "reinit">> \o Note)
  /\ <<"cleanup", "reinit">> \o Note # <<>> /\ Head(<<"cleanup", "reinit">> \o Note) = "cleanup"
  /\ Shaped(<<"reset">> \o Note \o <<"flush">>)
  /\ <<"reset">> \o Note \o <<"flush">> # <<>> /\ Head(<<"reset">> \o Note \o <<"flush">>) = "reset"
  /\ Shaped(<<"open trunc">> \o Note)
  /\ <<"open trunc">> \o Note # <<>> /\ Head(<<"open trunc">> \o Note) = "open trunc"
  /\ Shaped(Note \o <<"close">>)
  /\ Note \o <<"close">> # <<>> /\ Head(Note \o <<"close">>) = "count"
  /\ Shaped(<<"open trunc">> \o <<>>)
  /\ <<"open trunc">> \o <<>> # <<>> /\ Head(<<"open trunc">> \o <<>>) = "open trunc"
  /\ \A op : /\ Has(<<"count", "write">>, op) <=> op \in {"count", "write"}
             /\ Has(<<"cleanup", "reinit">> \o Note, op)
                  <=> op \in {"cleanup", "reinit", "count", "note"}
             /\ Has(<<"reset">> \o Note \o <<"flush">>, op)
                  <=> op \in {"reset", "count", "note", "flush"}
             /\ Has(<<"open trunc">> \o Note, op) <=> op \in {"open trunc", "count", "note"}
             /\ Has(<<"open trunc">> \o <<>>, op) <=> op = "open trunc"
             /\ Has(Note \o <<"close">>, op) <=> op \in {"count", "note", "close"}
<1>1. /\ "reset" \in Ops /\ "open trunc" \in Ops /\ "count" \in Ops /\ "cleanup" \in Ops
      /\ "write" \in Later /\ "reinit" \in Later /\ "flush" \in Later
      /\ "note" \in Later /\ "close" \in Later
  BY DEF Ops, Later
<1>2. ASSUME NEW a \in Ops, NEW b \in Later
      PROVE  /\ Shaped(<<a, b>>) /\ Head(<<a, b>>) = a /\ <<a, b>> # <<>>
             /\ \A op : Has(<<a, b>>, op) <=> op \in {a, b}
  <2>1. Shaped(<<a>>) /\ Head(<<a>>) = a /\ \A op : Has(<<a>>, op) <=> op = a  BY ShapedOf
  <2>2. Append(<<a>>, b) = <<a, b>> /\ <<a, b>> # <<>> /\ Head(<<a, b>>) = a
    <3>1. b \in Ops  BY DEF Later, Ops
    <3>. QED  BY <3>1, TwoOf
  <2>3. /\ Shaped(Append(<<a>>, b))
        /\ \A op : Has(Append(<<a>>, b), op) <=> Has(<<a>>, op) \/ op = b
    BY <2>1, ShapedAppend
  <2>. QED  BY <2>1, <2>2, <2>3
<1>3. /\ Shaped(<<"reset">>) /\ Head(<<"reset">>) = "reset"
      /\ \A op : Has(<<"reset">>, op) <=> op = "reset"
  BY <1>1, ShapedOf
<1>4. /\ Shaped(<<"open trunc">>) /\ Head(<<"open trunc">>) = "open trunc" /\ <<"open trunc">> # <<>>
      /\ \A op : Has(<<"open trunc">>, op) <=> op = "open trunc"
  BY <1>1, ShapedOf
<1>5. <<"open trunc">> \o <<>> = <<"open trunc">>  BY <1>4, ConcatEmptySeq DEF Shaped
<1>6. /\ Shaped(<<"reset">> \o Note) /\ <<"reset">> \o Note # <<>> /\ Head(<<"reset">> \o Note) = "reset"
      /\ \A op : Has(<<"reset">> \o Note, op) <=> op \in {"reset", "count", "note"}
  BY <1>3, ShapedNote
<1>7. /\ Shaped(<<"reset">> \o Note \o <<"flush">>)
      /\ <<"reset">> \o Note \o <<"flush">> # <<>> /\ Head(<<"reset">> \o Note \o <<"flush">>) = "reset"
      /\ \A op : Has(<<"reset">> \o Note \o <<"flush">>, op)
                   <=> op \in {"reset", "count", "note", "flush"}
  <2>. DEFINE a == <<"reset">> \o Note
  <2>1. Shaped(a) /\ a # <<>> /\ Head(a) = "reset" /\ \A op : Has(a, op) <=> op \in {"reset", "count", "note"}
    BY <1>6
  <2>. HIDE DEF a
  <2>2. a \in Seq(Ops) /\ "flush" \in Ops  BY <2>1 DEF Shaped, Ops
  <2>3. Append(a, "flush") = a \o <<"flush">> /\ Append(a, "flush") # <<>>
    BY <2>2, AppendIsConcat, AppendProperties
  <2>4. /\ Shaped(Append(a, "flush")) /\ Head(Append(a, "flush")) = Head(a)
        /\ \A op : Has(Append(a, "flush"), op) <=> Has(a, op) \/ op = "flush"
    BY <1>1, <2>1, ShapedAppend
  <2>5. /\ Shaped(a \o <<"flush">>) /\ Head(a \o <<"flush">>) = "reset" /\ a \o <<"flush">> # <<>>
        /\ \A op : Has(a \o <<"flush">>, op) <=> op \in {"reset", "count", "note", "flush"}
    BY <2>1, <2>3, <2>4
  <2>. QED  BY <2>5 DEF a
<1>8. /\ Shaped(<<"open trunc">> \o Note)
      /\ <<"open trunc">> \o Note # <<>> /\ Head(<<"open trunc">> \o Note) = "open trunc"
      /\ \A op : Has(<<"open trunc">> \o Note, op) <=> op \in {"open trunc", "count", "note"}
  BY <1>4, ShapedNote
<1>9. /\ Shaped(<<"cleanup", "reinit">> \o Note)
      /\ <<"cleanup", "reinit">> \o Note # <<>> /\ Head(<<"cleanup", "reinit">> \o Note) = "cleanup"
      /\ \A op : Has(<<"cleanup", "reinit">> \o Note, op)
                   <=> op \in {"cleanup", "reinit", "count", "note"}
  <2>. DEFINE a == <<"cleanup", "reinit">>
  <2>1. /\ Shaped(a) /\ Head(a) = "cleanup" /\ a # <<>>
        /\ \A op : Has(a, op) <=> op \in {"cleanup", "reinit"}
    BY <1>1, <1>2
  <2>. HIDE DEF a
  <2>2. /\ Shaped(a \o Note) /\ a \o Note # <<>> /\ Head(a \o Note) = "cleanup"
        /\ \A op : Has(a \o Note, op) <=> op \in {"cleanup", "reinit", "count", "note"}
    BY <2>1, ShapedNote
  <2>. QED  BY <2>2 DEF a
<1>10. /\ Shaped(<<"count", "write">>) /\ Head(<<"count", "write">>) = "count"
       /\ \A op : Has(<<"count", "write">>, op) <=> op \in {"count", "write"}
  BY <1>1, <1>2
<1>11. /\ Shaped(Note \o <<"close">>)
       /\ Note \o <<"close">> # <<>> /\ Head(Note \o <<"close">>) = "count"
       /\ \A op : Has(Note \o <<"close">>, op) <=> op \in {"count", "note", "close"}
  <2>1. /\ Shaped(Note) /\ Head(Note) = "count" /\ Note # <<>>
        /\ \A op : Has(Note, op) <=> op \in {"count", "note"}
    BY <1>1, <1>2 DEF Note
  <2>2. Note \in Seq(Ops) /\ "close" \in Ops  BY <2>1 DEF Shaped, Ops
  <2>3. Append(Note, "close") = Note \o <<"close">> /\ Append(Note, "close") # <<>>
    BY <2>2, AppendIsConcat, AppendProperties
  <2>4. /\ Shaped(Append(Note, "close")) /\ Head(Append(Note, "close")) = Head(Note)
        /\ \A op : Has(Append(Note, "close"), op) <=> Has(Note, op) \/ op = "close"
    BY <1>1, <2>1, ShapedAppend
  <2>. QED  BY <2>1, <2>3, <2>4
<1>. QED  BY <1>4, <1>5, <1>7, <1>8, <1>9, <1>10, <1>11

Agendas == agenda \in [Threads -> Seq(Ops)] /\ \A t \in Threads : Shaped(agenda[t])

\* What only ever comes first, and so says where a thread is.
Places == Ops \ Later

\* A step of t takes it to this place, or to none, and no other thread anywhere.
Goes(t, place) ==
  \A u \in Threads, p \in Places : Todo(u, p)' <=> IF u = t THEN p = place ELSE Todo(u, p)

LEMMA Becomes ==
  ASSUME Agendas, NEW t \in Threads, NEW a, Shaped(a), agenda' = [agenda EXCEPT ![t] = a]
  PROVE  /\ Agendas'
         /\ agenda'[t] = a /\ \A u \in Threads \ {t} : agenda'[u] = agenda[u]
         /\ a # <<>> => Goes(t, Head(a))
         /\ a = <<>> \/ Head(a) \in Later => Goes(t, "nowhere")
<1>1. a \in Seq(Ops)  BY DEF Shaped
<1>2. agenda'[t] = a /\ \A u \in Threads \ {t} : agenda'[u] = agenda[u]  BY DEF Agendas
<1>3. Agendas'  BY <1>1, <1>2 DEF Agendas
<1>. QED  BY <1>2, <1>3 DEF Goes, Todo, Places, Ops

LEMMA Replaced ==
  ASSUME Agendas, NEW t \in Threads, agenda[t] # <<>>, NEW ops, Shaped(ops), Instead(t, ops)
  PROVE  /\ Agendas'
         /\ \A u \in Threads \ {t} : agenda'[u] = agenda[u]
         /\ ops # <<>> => Goes(t, Head(ops))
         /\ ops = <<>> => Goes(t, "nowhere")
         /\ \A op : Has(agenda'[t], op) => Has(ops, op) \/ Has(agenda[t], op)
         /\ \A op : Has(ops, op) \/ (op # Head(agenda[t]) /\ Has(agenda[t], op)) => Has(agenda'[t], op)
<1>. DEFINE b == ops \o Tail(agenda[t])
<1>1. Shaped(agenda[t])  BY DEF Agendas
<1>2. /\ Shaped(b) /\ (ops # <<>> => b # <<>> /\ Head(b) = Head(ops))
      /\ (ops = <<>> /\ b # <<>> => Head(b) \in Later)
      /\ \A op : Has(b, op) <=> Has(ops, op) \/ Has(Tail(agenda[t]), op)
      /\ \A op : Has(agenda[t], op) <=> op = Head(agenda[t]) \/ Has(Tail(agenda[t]), op)
  BY <1>1, Replacing
<1>3. agenda' = [agenda EXCEPT ![t] = b]  BY DEF Instead, Agendas
<1>. HIDE DEF b
<1>4. /\ Agendas'
      /\ agenda'[t] = b /\ \A u \in Threads \ {t} : agenda'[u] = agenda[u]
      /\ b # <<>> => Goes(t, Head(b))
      /\ b = <<>> \/ Head(b) \in Later => Goes(t, "nowhere")
  BY <1>2, <1>3, Becomes
<1>. QED  BY <1>2, <1>4

-----------------------------------------------------------------------------
\* Where each step takes its thread.

LEMMA CallsGo ==
  ASSUME Agendas, NEW t \in Threads, Log(t) \/ Flush(t)
  PROVE  /\ Agendas' /\ Goes(t, "nowhere")
         /\ \A u \in Threads \ {t} : agenda'[u] = agenda[u]
         /\ \A op : Has(agenda'[t], op) => op \in {"count", "write", "flush"}
         /\ \A op : ~Has(agenda[t], op)
<1>1. Shaped(<<"flush">>) /\ Head(<<"flush">>) = "flush" /\ \A op : Has(<<"flush">>, op) <=> op = "flush"
  BY ShapedOf DEF Ops
<1>2. CASE Log(t)
  <2>. DEFINE a == <<"count", "write">>
  <2>1. /\ Shaped(a) /\ Head(a) \in Later /\ \A op : Has(a, op) <=> op \in {"count", "write"}
    BY ShapedCalls DEF Later
  <2>2. agenda[t] = <<>> /\ agenda' = [agenda EXCEPT ![t] = a]  BY <1>2 DEF Log
  <2>. HIDE DEF a
  <2>3. /\ Agendas' /\ Goes(t, "nowhere")
        /\ agenda'[t] = a /\ \A u \in Threads \ {t} : agenda'[u] = agenda[u]
    BY <2>1, <2>2, Becomes
  <2>. QED  BY <2>1, <2>2, <2>3, ShapedOf
<1>3. CASE Flush(t)
  <2>. DEFINE a == <<"flush">>
  <2>1. /\ Shaped(a) /\ Head(a) \in Later /\ \A op : Has(a, op) <=> op = "flush"
    BY <1>1 DEF Later
  <2>2. agenda[t] = <<>> /\ agenda' = [agenda EXCEPT ![t] = a]  BY <1>3 DEF Flush
  <2>. HIDE DEF a
  <2>3. /\ Agendas' /\ Goes(t, "nowhere")
        /\ agenda'[t] = a /\ \A u \in Threads \ {t} : agenda'[u] = agenda[u]
    BY <2>1, <2>2, Becomes
  <2>. QED  BY <2>1, <2>2, <2>3, ShapedOf
<1>. QED  BY <1>2, <1>3

LEMMA StartGoes ==
  ASSUME Agendas, NEW path, StartLogging(path)
  PROVE  /\ Agendas' /\ Goes(Main, "cleanup")
         /\ \A u \in Threads \ {Main} : agenda'[u] = agenda[u]
         /\ \A op : Has(agenda'[Main], op) <=> op \in {"cleanup", "reinit", "count", "note"}
<1>1. agenda' = [agenda EXCEPT ![Main] = <<"cleanup", "reinit">> \o Note]  BY DEF StartLogging
<1>2. Main \in Threads  BY LoggerAssumption
<1>. QED  BY <1>1, <1>2, ShapedCalls, Becomes

\* The exit finds nobody doing anything.
LEMMA ExitGoes ==
  ASSUME Agendas, Exit
  PROVE  /\ Agendas' /\ Goes(Main, "nowhere")
         /\ \A u \in Threads \ {Main} : agenda'[u] = agenda[u]
         /\ \A op : Has(agenda'[Main], op) <=> op \in {"count", "note", "close"}
         /\ \A t \in Threads : \A op : ~Has(agenda[t], op) /\ ~Todo(t, op)
<1>. DEFINE a == Note \o <<"close">>
<1>1. agenda' = [agenda EXCEPT ![Main] = a] /\ \A t \in Threads : agenda[t] = <<>>  BY DEF Exit
<1>2. Main \in Threads  BY LoggerAssumption
<1>3. /\ Shaped(a) /\ Head(a) \in Later
      /\ \A op : Has(a, op) <=> op \in {"count", "note", "close"}
  BY ShapedCalls DEF Later
<1>. HIDE DEF a
<1>4. /\ Agendas' /\ Goes(Main, "nowhere")
      /\ agenda'[Main] = a /\ \A u \in Threads \ {Main} : agenda'[u] = agenda[u]
  BY <1>1, <1>2, <1>3, Becomes
<1>5. \A t \in Threads : \A op : ~Has(agenda[t], op) /\ ~Todo(t, op)
  BY <1>1, ShapedOf DEF Todo
<1>. QED  BY <1>3, <1>4, <1>5

\* What t does next is replaced.
LEMMA StepReplaces ==
  ASSUME Agendas, NEW t \in Threads, NEW ops,
         ops \in {<<>>, <<"store">>, <<"open append">>, <<"flush rotates">>, <<"reinit rotates">>,
                  <<"reset">> \o Note \o <<"flush">>, <<"open trunc">> \o Note,
                  <<"open trunc">> \o <<>>},
         NEW first, Todo(t, first), Instead(t, ops)
  PROVE  /\ Agendas'
         /\ \A u \in Threads \ {t} : agenda'[u] = agenda[u]
         /\ Goes(t, IF ops = <<>> THEN "nowhere" ELSE Head(ops))
         /\ \A op : Has(agenda'[t], op) => Has(ops, op) \/ Has(agenda[t], op)
         /\ \A op : Has(ops, op) \/ (op # first /\ Has(agenda[t], op)) => Has(agenda'[t], op)
<1>1. Shaped(ops)
  <2>1. "store" \in Ops /\ "open append" \in Ops /\ "flush rotates" \in Ops /\ "reinit rotates" \in Ops
    BY DEF Ops
  <2>2. /\ Shaped(<<>>) /\ Shaped(<<"store">>) /\ Shaped(<<"open append">>)
        /\ Shaped(<<"flush rotates">>) /\ Shaped(<<"reinit rotates">>)
    BY <2>1, ShapedOf
  <2>. QED  BY <2>2, ShapedCalls
<1>2. agenda[t] # <<>> /\ Head(agenda[t]) = first  BY DEF Todo
<1>. QED  BY <1>1, <1>2, Replaced

\* log_count_ is stored: at kMaxCount a flush is due.
LEMMA CountGoes ==
  ASSUME Agendas, NEW t \in Threads, Count(t) \/ CountStores(t)
  PROVE  /\ Agendas' /\ \A u \in Threads \ {t} : agenda'[u] = agenda[u]
         /\ Goes(t, IF log_count_' < kMaxCount THEN "nowhere" ELSE "reset")
         /\ Has(agenda'[t], "write") => Has(agenda[t], "write")
         /\ Reopening(t) => Reopening(t)'
<1>1. PICK first \in {"count", "store"} :
        /\ Todo(t, first)
        /\ IF log_count_' < kMaxCount THEN Instead(t, <<>>)
           ELSE Instead(t, <<"reset">> \o Note \o <<"flush">>)
  BY DEF Count, CountStores, Counted, Done
<1>2. CASE log_count_' < kMaxCount
  <2>1. /\ Agendas' /\ \A u \in Threads \ {t} : agenda'[u] = agenda[u]
        /\ Goes(t, "nowhere")
        /\ \A op : Has(agenda'[t], op) => Has(agenda[t], op)
        /\ \A op : op # first /\ Has(agenda[t], op) => Has(agenda'[t], op)
    BY <1>1, <1>2, StepReplaces, ShapedOf
  <2>2. Reopening(t) => Reopening(t)'  BY <1>1, <2>1 DEF Reopening, Has
  <2>. QED  BY <1>2, <2>1, <2>2
<1>3. CASE ~(log_count_' < kMaxCount)
  <2>. DEFINE ops == <<"reset">> \o Note \o <<"flush">>
  <2>1. /\ Shaped(ops) /\ ops # <<>> /\ Head(ops) = "reset"
        /\ \A op : Has(ops, op) <=> op \in {"reset", "count", "note", "flush"}
    BY ShapedCalls
  <2>2. /\ Agendas' /\ \A u \in Threads \ {t} : agenda'[u] = agenda[u]
        /\ Goes(t, IF ops = <<>> THEN "nowhere" ELSE Head(ops))
        /\ \A op : Has(agenda'[t], op) => Has(ops, op) \/ Has(agenda[t], op)
        /\ \A op : Has(ops, op) \/ (op # first /\ Has(agenda[t], op)) => Has(agenda'[t], op)
    BY <1>1, <1>3, StepReplaces
  <2>. HIDE DEF ops
  <2>3. Reopening(t) => Reopening(t)'  BY <1>1, <2>2 DEF Reopening, Has
  <2>. QED  BY <1>3, <2>1, <2>2, <2>3
<1>. QED  BY <1>2, <1>3

LEMMA LoadGoes ==
  ASSUME Agendas, NEW t \in Threads, CountLoads(t)
  PROVE  /\ Agendas' /\ \A u \in Threads \ {t} : agenda'[u] = agenda[u]
         /\ Goes(t, "store")
         /\ Has(agenda'[t], "write") => Has(agenda[t], "write")
         /\ Reopening(t) => Reopening(t)'
<1>1. Todo(t, "count") /\ Instead(t, <<"store">>)  BY DEF CountLoads
<1>2. "store" \in Ops  BY DEF Ops
<1>3. /\ Agendas' /\ \A u \in Threads \ {t} : agenda'[u] = agenda[u]
      /\ Goes(t, "store")
      /\ \A op : Has(agenda'[t], op) => op = "store" \/ Has(agenda[t], op)
      /\ \A op : op # "count" /\ Has(agenda[t], op) => Has(agenda'[t], op)
  <2>. DEFINE ops == <<"store">>
  <2>1. ops # <<>> /\ Head(ops) = "store" /\ \A op : Has(ops, op) <=> op = "store"
    BY <1>2, ShapedOf
  <2>2. /\ Agendas' /\ \A u \in Threads \ {t} : agenda'[u] = agenda[u]
        /\ Goes(t, IF ops = <<>> THEN "nowhere" ELSE Head(ops))
        /\ \A op : Has(agenda'[t], op) => Has(ops, op) \/ Has(agenda[t], op)
        /\ \A op : Has(ops, op) \/ (op # "count" /\ Has(agenda[t], op)) => Has(agenda'[t], op)
    BY <1>1, StepReplaces
  <2>. HIDE DEF ops
  <2>. QED  BY <2>1, <2>2
<1>4. Reopening(t) => Reopening(t)'  BY <1>3 DEF Reopening, Has
<1>. QED  BY <1>3, <1>4

\* The steps that only finish what they do.
LEMMA DoneGoes ==
  ASSUME Agendas, NEW t \in Threads,
         \/ Reset(t) \/ Write(t) \/ Cleanup(t) \/ OpenNothing(t) \/ Open(t) \/ OpenFails(t)
         \/ Close(t)
  PROVE  /\ Agendas' /\ \A u \in Threads \ {t} : agenda'[u] = agenda[u]
         /\ Goes(t, "nowhere")
         /\ Has(agenda'[t], "write") => Has(agenda[t], "write")
         /\ Reopening(t) /\ ~Opening(t) => Reopening(t)'
<1>1. PICK first \in {"reset", "write", "note", "cleanup", "open append", "open trunc", "close"} :
        Todo(t, first)
  BY DEF Reset, Write, Cleanup, OpenNothing, Open, OpenFails, Opening, Close
<1>2. Instead(t, <<>>)
  BY DEF Reset, Write, Cleanup, OpenNothing, Open, OpenFails, Close, Done
<1>3. /\ Agendas' /\ \A u \in Threads \ {t} : agenda'[u] = agenda[u]
      /\ Goes(t, "nowhere")
      /\ \A op : Has(agenda'[t], op) => Has(agenda[t], op)
      /\ \A op : op # first /\ Has(agenda[t], op) => Has(agenda'[t], op)
  BY <1>1, <1>2, StepReplaces, ShapedOf
<1>4. Reopening(t) /\ ~Opening(t) => Reopening(t)'
  BY <1>1, <1>3 DEF Reopening, Has, Opening
<1>. QED  BY <1>3, <1>4

\* What throws leaves nothing.
LEMMA ThrowsGoes ==
  ASSUME Agendas, NEW t \in Threads, RotateThrows(t) \/ OpenThrows(t)
  PROVE  /\ Agendas' /\ \A u \in Threads \ {t} : agenda'[u] = agenda[u]
         /\ Goes(t, "nowhere")
         /\ ~Has(agenda'[t], "write")
<1>1. agenda' = [agenda EXCEPT ![t] = <<>>]  BY DEF RotateThrows, OpenThrows
<1>2. Shaped(<<>>) /\ ~Has(<<>>, "write")  BY ShapedOf
<1>3. /\ Agendas' /\ Goes(t, "nowhere") /\ agenda'[t] = <<>>
      /\ \A u \in Threads \ {t} : agenda'[u] = agenda[u]
  BY <1>1, <1>2, Becomes
<1>. QED  BY <1>2, <1>3

LEMMA LooksGoes ==
  ASSUME Agendas, NEW t \in Threads, RotateLooks(t)
  PROVE  /\ Agendas' /\ \A u \in Threads \ {t} : agenda'[u] = agenda[u]
         /\ Goes(t, IF Todo(t, "flush") THEN "flush rotates" ELSE "reinit rotates")
         /\ Has(agenda'[t], "write") => Has(agenda[t], "write")
         /\ Reopening(t) => Reopening(t)'
<1>. DEFINE first == IF Todo(t, "flush") THEN "flush" ELSE "reinit"
            place == IF Todo(t, "flush") THEN "flush rotates" ELSE "reinit rotates"
            ops == <<place>>
<1>1. Todo(t, first) /\ Instead(t, ops)
  BY DEF RotateLooks, Flushing
<1>2. place \in Ops  BY DEF Ops
<1>3. ops \in {<<"flush rotates">>, <<"reinit rotates">>}  OBVIOUS
<1>4. ops # <<>> /\ Head(ops) = place /\ \A op : Has(ops, op) <=> op = place
  <2>. HIDE DEF place
  <2>. QED  BY <1>2, ShapedOf
<1>. HIDE DEF first, ops
<1>5. /\ Agendas' /\ \A u \in Threads \ {t} : agenda'[u] = agenda[u]
      /\ Goes(t, IF ops = <<>> THEN "nowhere" ELSE Head(ops))
      /\ \A op : Has(agenda'[t], op) => Has(ops, op) \/ Has(agenda[t], op)
      /\ \A op : Has(ops, op) \/ (op # first /\ Has(agenda[t], op)) => Has(agenda'[t], op)
  BY <1>1, <1>3, StepReplaces
<1>6. Goes(t, place)  BY <1>4, <1>5
<1>7. Reopening(t) => Reopening(t)'
  <2>1. CASE Todo(t, "flush")  BY <1>5, <2>1 DEF first, Reopening, Has
  <2>2. CASE ~Todo(t, "flush")
    <3>1. Has(agenda'[t], "reinit rotates")  BY <1>4, <1>5, <2>2
    <3>. QED  BY <3>1 DEF Reopening, Has
  <2>. QED  BY <2>1, <2>2
<1>. QED  BY <1>4, <1>5, <1>6, <1>7

\* After the closing half of a rotate, or without one, the log is to be opened.
LEMMA RotateGoes ==
  ASSUME Agendas, NEW t \in Threads, RotateNothing(t) \/ RotateKeeps(t) \/ RotateCopies(t)
  PROVE  /\ Agendas' /\ \A u \in Threads \ {t} : agenda'[u] = agenda[u]
         /\ Goes(t, IF RotateCopies(t) THEN "open trunc" ELSE "open append")
         /\ Has(agenda'[t], "write") => Has(agenda[t], "write")
         /\ Reopening(t)'
<1>1. PICK first \in {"flush", "reinit", "flush rotates", "reinit rotates"} : Todo(t, first)
  BY DEF RotateNothing, RotateKeeps, RotateCopies, Flushing, Rotating
<1>2. CASE RotateCopies(t)
  <2>1. PICK ops \in {<<"open trunc">> \o Note, <<"open trunc">> \o <<>>} : Instead(t, ops)
    BY <1>2 DEF RotateCopies
  <2>2. /\ ops # <<>> /\ Head(ops) = "open trunc"
        /\ Has(ops, "open trunc") /\ ~Has(ops, "write")
    BY <2>1, ShapedCalls
  <2>3. /\ Agendas' /\ \A u \in Threads \ {t} : agenda'[u] = agenda[u]
        /\ Goes(t, IF ops = <<>> THEN "nowhere" ELSE Head(ops))
        /\ \A op : Has(agenda'[t], op) => Has(ops, op) \/ Has(agenda[t], op)
        /\ \A op : Has(ops, op) \/ (op # first /\ Has(agenda[t], op)) => Has(agenda'[t], op)
    BY <1>1, <2>1, StepReplaces
  <2>4. Reopening(t)'  BY <2>2, <2>3 DEF Reopening, Has
  <2>. QED  BY <1>2, <2>2, <2>3, <2>4
<1>3. CASE ~RotateCopies(t)
  <2>. DEFINE ops == <<"open append">>
  <2>1. Instead(t, ops)  BY <1>3 DEF RotateNothing, RotateKeeps
  <2>2. /\ ops # <<>> /\ Head(ops) = "open append"
        /\ \A op : Has(ops, op) <=> op = "open append"
    <3>1. "open append" \in Ops  BY DEF Ops
    <3>. QED  BY <3>1, ShapedOf
  <2>3. ops \in {<<"open append">>}  OBVIOUS
  <2>. HIDE DEF ops
  <2>4. /\ Agendas' /\ \A u \in Threads \ {t} : agenda'[u] = agenda[u]
        /\ Goes(t, IF ops = <<>> THEN "nowhere" ELSE Head(ops))
        /\ \A op : Has(agenda'[t], op) => Has(ops, op) \/ Has(agenda[t], op)
        /\ \A op : Has(ops, op) \/ (op # first /\ Has(agenda[t], op)) => Has(agenda'[t], op)
    BY <1>1, <2>1, <2>3, StepReplaces
  <2>5. Reopening(t)'
    <3>1. Has(agenda'[t], "open append")  BY <2>2, <2>4
    <3>. QED  BY <3>1 DEF Reopening, Has
  <2>. QED  BY <1>3, <2>2, <2>4, <2>5
<1>. QED  BY <1>2, <1>3

-----------------------------------------------------------------------------
\* Types.

\* A record is written after it has been made.
Logged == \A t \in Threads : Has(agenda[t], "write") => made[t] # 0

Typed == TypeOK /\ Agendas /\ Logged

LEMMA ThreadTyped ==
  ASSUME Typed, NEW t \in Threads, Log(t) \/ Flush(t) \/ Step(t)
  PROVE  /\ Agendas' /\ \A u \in Threads \ {t} : agenda'[u] = agenda[u]
         /\ Has(agenda'[t], "write") => Has(agenda[t], "write") \/ made'[t] # 0
<1>1. ASSUME Log(t) PROVE made'[t] # 0  BY <1>1 DEF Log, Typed, TypeOK
<1>2. ASSUME Flush(t)
      PROVE  ~Has(agenda'[t], "write")
  <2>1. agenda' = [agenda EXCEPT ![t] = <<"flush">>]  BY <1>2 DEF Flush
  <2>2. "flush" \in Ops  BY DEF Ops
  <2>3. Shaped(<<"flush">>) /\ ~Has(<<"flush">>, "write")  BY <2>2, ShapedOf
  <2>. QED  BY <2>1, <2>3, Becomes DEF Typed
<1>. QED
  BY <1>1, <1>2, CallsGo, CountGoes, LoadGoes, DoneGoes, ThrowsGoes, LooksGoes, RotateGoes
  DEF Typed, Step

LEMMA TypedInit == Init => Typed
<1>. SUFFICES ASSUME Init PROVE Typed  OBVIOUS
<1>1. Agendas /\ Logged  BY ShapedOf DEF Init, Agendas, Logged, Shaped
<1>2. file \in [exists : BOOLEAN, old : BOOLEAN, size : 0..MaxLogSize, records : SUBSET Records]
  <2>1. 0 \in 0..MaxLogSize  BY LoggerAssumption
  <2>2. NoFile \in [exists : BOOLEAN, old : BOOLEAN, size : 0..MaxLogSize, records : SUBSET Records]
    BY <2>1 DEF NoFile
  <2>. QED  BY <2>2 DEF Init
<1>3. \A t \in Threads : \A i \in DOMAIN agenda[t] : agenda[t][i] \in Ops
  BY <1>1, LenProperties, ElementOfSeq DEF Agendas
<1>4. TypeOK
  <2>1. exiting \in BOOLEAN  BY DEF Init
  <2>. QED  BY <1>2, <1>3, <2>1, LoggerAssumption DEF Init, TypeOK
<1>. QED  BY <1>1, <1>4 DEF Typed

Files == [exists : BOOLEAN, old : BOOLEAN, size : 0..MaxLogSize, records : SUBSET Records]

\* What a write leaves.
LEMMA WriteGives ==
  ASSUME Typed, NEW t \in Threads, Write(t)
  PROVE  \E record \in SUBSET Records :
           IF ofs_ = "file"
           THEN /\ file' \in Files /\ file'.exists = file.exists
                /\ file'.records = file.records \cup record
                /\ written' = written \cup record
           ELSE file' = file /\ written' = written
<1>. DEFINE record == IF Todo(t, "write") THEN {<<t, made[t]>>} ELSE {}
<1>1. record \subseteq Records
  <2>1. CASE Todo(t, "write")
    <3>1. Has(agenda[t], "write")  BY <2>1, Replacing DEF Typed, Agendas, Todo
    <3>2. made[t] \in 1..MaxRecords  BY <3>1, LoggerAssumption DEF Typed, TypeOK, Logged
    <3>. QED  BY <3>2 DEF Records
  <2>. QED  BY <2>1
<1>2. /\ ofs_ = "file" =>
           file' = [file EXCEPT !.old = FALSE, !.size = Smaller(@ + 1, MaxLogSize),
                                !.records = @ \cup record]
      /\ written' = IF ofs_ = "file" THEN written \cup record ELSE written
      /\ ofs_ # "file" => file' = file
  BY DEF Write
<1>. HIDE DEF record
<1>3. file \in Files  BY DEF Typed, TypeOK, Files
<1>4. ASSUME ofs_ = "file"
      PROVE  file' = [exists |-> file.exists, old |-> FALSE,
                      size |-> Smaller(file.size + 1, MaxLogSize),
                      records |-> file.records \cup record]
  <2>1. file' = [file EXCEPT !.old = FALSE, !.size = Smaller(@ + 1, MaxLogSize),
                             !.records = @ \cup record]
    BY <1>2, <1>4
  <2>. QED  BY <1>3, <2>1 DEF Files
<1>5. Smaller(file.size + 1, MaxLogSize) \in 0..MaxLogSize
  BY <1>3, LoggerAssumption DEF Smaller, Files
<1>6. file.exists \in BOOLEAN /\ file.records \cup record \subseteq Records
  BY <1>1, <1>3 DEF Files
<1>7. ASSUME ofs_ = "file"
      PROVE  file' \in Files /\ file'.exists = file.exists
             /\ file'.records = file.records \cup record
  <2>. DEFINE size == Smaller(file.size + 1, MaxLogSize)
              records == file.records \cup record
  <2>1. size \in 0..MaxLogSize /\ records \in SUBSET Records  BY <1>5, <1>6
  <2>2. file' = [exists |-> file.exists, old |-> FALSE, size |-> size, records |-> records]
    BY <1>4, <1>7
  <2>. HIDE DEF size, records
  <2>3. file' \in Files /\ file'.exists = file.exists /\ file'.records = records
    BY <1>6, <2>1, <2>2 DEF Files
  <2>. QED  BY <2>3 DEF records
<1>. QED  BY <1>1, <1>2, <1>7

\* The log file as any step leaves it.
LEMMA FileTyped ==
  ASSUME Typed, [Next]_vars
  PROVE  file' \in Files
<1>1. file \in Files  BY DEF Typed, TypeOK, Files
<1>2. NoFile \in Files /\ NewFile \in Files
  <2>1. 0 \in 0..MaxLogSize  BY LoggerAssumption
  <2>2. NoFile \in Files  BY <2>1 DEF NoFile, Files
  <2>3. NewFile \in Files  BY <2>2 DEF NewFile, Files
  <2>. QED  BY <2>2, <2>3
<1>3. ASSUME NEW t \in Threads, Write(t) PROVE file' \in Files
  BY <1>1, <1>3, WriteGives
<1>4. ASSUME NEW t \in Threads, Open(t) PROVE file' \in Files
  BY <1>1, <1>2, <1>4 DEF Open
<1>5. ASSUME NEW i \in Cleaners, CleanerRemoves(i) PROVE file' \in Files
  BY <1>2, <1>5 DEF CleanerRemoves
<1>. QED
  BY <1>1, <1>3, <1>4, <1>5
  DEF Next, vars, Log, Flush, StartLogging, Step, Count, CountLoads, CountStores, Reset,
      RotateNothing, RotateLooks, RotateKeeps, RotateCopies, RotateThrows, OpenNothing,
      OpenFails, OpenThrows, Close, Cleanup, CleanerLooks, Exit

LEMMA TypedNext == Typed /\ [Next]_vars => Typed'
<1>. SUFFICES ASSUME Typed, [Next]_vars PROVE Typed'  OBVIOUS
<1>1. Agendas' /\ Logged'
  <2>1. ASSUME NEW t \in Threads, Log(t) \/ Flush(t) \/ Step(t) PROVE Agendas' /\ Logged'
    <3>1. \A u \in Threads : made[u] # 0 => made'[u] # 0
      <4>1. CASE Log(t)  BY <4>1 DEF Typed, TypeOK, Log
      <4>2. CASE Flush(t) \/ Step(t)
        <5>1. made' = made
          BY <4>2 DEF Flush, Step, Count, CountLoads, CountStores, Reset, Write,
                      RotateNothing, RotateLooks, RotateKeeps, RotateCopies, RotateThrows,
                      OpenNothing, Open, OpenFails, OpenThrows, Close, Cleanup
        <5>. QED  BY <5>1
      <4>. QED  BY <2>1, <4>1, <4>2
    <3>. QED  BY <2>1, <3>1, ThreadTyped DEF Typed, Logged
  <2>2. ASSUME NEW path, StartLogging(path) PROVE Agendas' /\ Logged'
    <3>1. made' = made  BY <2>2 DEF StartLogging
    <3>. QED  BY <2>2, <3>1, StartGoes DEF Typed, Logged
  <2>4. ASSUME Exit PROVE Agendas' /\ Logged'
    <3>1. made' = made  BY <2>4 DEF Exit
    <3>. QED  BY <2>4, <3>1, ExitGoes DEF Typed, Logged
  <2>3. ASSUME UNCHANGED <<agenda, made>> PROVE Agendas' /\ Logged'
    BY <2>3 DEF Typed, Agendas, Logged
  <2>. QED
    BY <2>1, <2>2, <2>3, <2>4 DEF Next, vars, threadVars, CleanerLooks, CleanerRemoves
<1>2. TypeOK'
  <2>1. \A t \in Threads : \A i \in DOMAIN agenda'[t] : agenda'[t][i] \in Ops
    BY <1>1, LenProperties, ElementOfSeq DEF Agendas
  <2>. USE DEF Next, vars, threadVars, historyVars, Log, Flush, StartLogging, Step, Count, CountLoads,
           CountStores, Counted, Reset, Write, RotateNothing, RotateLooks, RotateKeeps,
           RotateCopies, RotateThrows, OpenNothing, Open, OpenFails, OpenThrows, Close, Cleanup,
           CleanerLooks, CleanerRemoves, Exit
  <2>2. log_path_' \in {"none", "set"} /\ ofs_' \in {"closed", "file", "removed", "gone"}
    <3>1. log_path_' \in {log_path_, "none", "set"}  OBVIOUS
    <3>2. ofs_' \in {ofs_, "closed", "file", "removed", "gone"}  OBVIOUS
    <3>3. log_path_ \in {"none", "set"} /\ ofs_ \in {"closed", "file", "removed", "gone"}
      BY DEF Typed, TypeOK
    <3>. HIDE DEF Next, vars
    <3>. QED  BY <3>1, <3>2, <3>3
  <2>3. log_count_' \in Nat
    <3>1. \/ log_count_' \in {log_count_, log_count_ + 1, 0}
          \/ \E t \in Threads : log_count_' = seen[t] + 1
      OBVIOUS
    <3>2. log_count_ \in Nat /\ \A t \in Threads : seen[t] \in Nat  BY DEF Typed, TypeOK
    <3>. HIDE DEF Next, vars
    <3>. QED  BY <3>1, <3>2
  <2>4. seen' \in [Threads -> Nat]
    <3>1. seen' = seen \/ \E t \in Threads, n \in {0, log_count_} : seen' = [seen EXCEPT ![t] = n]
      OBVIOUS
    <3>2. log_count_ \in Nat /\ seen \in [Threads -> Nat]  BY DEF Typed, TypeOK
    <3>. HIDE DEF Next, vars
    <3>. QED  BY <3>1, <3>2
  <2>5. made' \in [Threads -> 0..MaxRecords]
    <3>1. \/ made' = made
          \/ \E t \in Threads : made[t] < MaxRecords /\ made' = [made EXCEPT ![t] = @ + 1]
      OBVIOUS
    <3>2. made \in [Threads -> 0..MaxRecords]  BY DEF Typed, TypeOK
    <3>. HIDE DEF Next, vars
    <3>. QED  BY <3>1, <3>2, LoggerAssumption
  <2>6. starts' \in 0..MaxStarts
    <3>1. starts' = starts \/ (starts < MaxStarts /\ starts' = starts + 1)  OBVIOUS
    <3>. HIDE DEF Next, vars
    <3>. QED  BY <3>1, LoggerAssumption DEF Typed, TypeOK
  <2>7. flushes' \in 0..MaxFlushes
    <3>1. flushes' = flushes \/ (flushes < MaxFlushes /\ flushes' = flushes + 1)  OBVIOUS
    <3>. HIDE DEF Next, vars
    <3>. QED  BY <3>1, LoggerAssumption DEF Typed, TypeOK
  <2>8. races' \in 0..MaxRaces
    <3>1. races' = races \/ (races < MaxRaces /\ races' = races + 1)  OBVIOUS
    <3>. HIDE DEF Next, vars
    <3>. QED  BY <3>1, LoggerAssumption DEF Typed, TypeOK
  <2>9. exiting' \in BOOLEAN
    <3>1. exiting' = exiting \/ exiting' = TRUE  OBVIOUS
    <3>2. exiting \in BOOLEAN  BY DEF Typed, TypeOK
    <3>. HIDE DEF Next, vars
    <3>. QED  BY <3>1, <3>2
  <2>10. cleaner' \in [Cleaners -> {"off", "looks", "removes", "done"}]
    BY DEF Typed, TypeOK
  <2>11. saved' \subseteq Records /\ removed' \subseteq Records
    BY DEF Typed, TypeOK
  <2>12. failed' \subseteq {"copy", "open", "size", "overlap"}
    BY DEF Typed, TypeOK, Overlap
  <2>13. written' \subseteq Records
    <3>1. ASSUME NEW t \in Threads, Write(t) PROVE written' \subseteq Records
      <4>1. written \subseteq Records  BY DEF Typed, TypeOK
      <4>. HIDE DEF Write
      <4>. QED  BY <3>1, <4>1, WriteGives
    <3>2. ASSUME written' = written PROVE written' \subseteq Records
      BY <3>2 DEF Typed, TypeOK
    <3>. HIDE DEF Write
    <3>. QED  BY <3>1, <3>2
  <2>14. file' \in Files  BY FileTyped
  <2>. QED
    BY <2>1, <2>2, <2>3, <2>4, <2>5, <2>6, <2>7, <2>8, <2>9, <2>10, <2>11, <2>12, <2>13, <2>14
    DEF TypeOK, Files
<1>. QED  BY <1>1, <1>2 DEF Typed
-----------------------------------------------------------------------------
\* Records.

\* What is not there has no records, and the log is open only on what is there.
FileThere == (~file.exists => file.records = {}) /\ (ofs_ = "file" => file.exists)

\* Without an overlap, one thread at a time is between its rotate and its open ...
OneOpens == "overlap" \notin failed => \A t, u \in Threads : Opening(t) /\ Opening(u) => t = u

\* ... and the log it is about to empty is closed, its records elsewhere.
Copied ==
  failed \cap {"copy", "overlap"} = {} =>
    \A t \in Threads : Todo(t, "open trunc") =>
      ofs_ = "closed" /\ file.records \subseteq saved \cup removed

Rotated(t) == RotateNothing(t) \/ RotateKeeps(t) \/ RotateCopies(t)

\* The other steps leave the file and what has become of its records alone.
LEMMA Untouched ==
  ASSUME [Next]_vars,
         \A t \in Threads : /\ ~Write(t) /\ ~Rotated(t) /\ ~RotateThrows(t)
                            /\ ~Open(t) /\ ~OpenFails(t) /\ ~OpenThrows(t) /\ ~Close(t),
         \A i \in Cleaners : ~CleanerRemoves(i)
  PROVE  UNCHANGED <<ofs_, file, saved, written, removed, failed>>
BY DEF Rotated, Next, vars, historyVars, Log, Flush, StartLogging, Step, Count, CountLoads,
       CountStores, Counted, Reset, RotateLooks, OpenNothing, Cleanup, CleanerLooks, Exit

\* Only a rotate takes a thread to its open, and one that copies to emptying the file.
LEMMA OnlyRotateOpens ==
  ASSUME Typed, [Next]_vars
  PROVE  \/ \E t \in Threads :
              /\ Rotated(t) /\ failed' = failed \cup Overlap(t) \cup (failed' \cap {"copy"})
              /\ \A u \in Threads : Opening(u)' => u = t \/ Opening(u)
              /\ Todo(t, "open trunc")' => RotateCopies(t)
         \/ \A u \in Threads : /\ Opening(u)' => Opening(u)
                               /\ Todo(u, "open trunc")' => Todo(u, "open trunc")
<1>. "open append" \in Places /\ "open trunc" \in Places  BY DEF Places, Ops, Later
<1>. DEFINE Elsewhere == {"nowhere", "cleanup", "reset", "store", "flush rotates", "reinit rotates"}
<1>1. ASSUME NEW t \in Threads, NEW place \in Elsewhere, Goes(t, place)
      PROVE  \A u \in Threads : /\ Opening(u)' => Opening(u)
                                /\ Todo(u, "open trunc")' => Todo(u, "open trunc")
  BY <1>1 DEF Goes, Opening
<1>2. ASSUME NEW t \in Threads, Rotated(t)
      PROVE  /\ failed' = failed \cup Overlap(t) \cup (failed' \cap {"copy"})
             /\ \A u \in Threads : Opening(u)' => u = t \/ Opening(u)
             /\ Todo(t, "open trunc")' => RotateCopies(t)
  <2>1. failed' = failed \cup Overlap(t) \cup (failed' \cap {"copy"})
    BY <1>2 DEF Rotated, RotateNothing, RotateKeeps, RotateCopies, Overlap
  <2>2. Goes(t, IF RotateCopies(t) THEN "open trunc" ELSE "open append")
    BY <1>2, RotateGoes DEF Rotated, Typed
  <2>. QED  BY <2>1, <2>2 DEF Goes, Opening
<1>3. ASSUME NEW t \in Threads, Log(t) \/ Flush(t) \/ Step(t), ~Rotated(t)
      PROVE  \E place \in Elsewhere : Goes(t, place)
  <2>1. Agendas  BY DEF Typed
  <2>2. CASE Log(t) \/ Flush(t)
    <3>1. Goes(t, "nowhere")  BY <2>1, <2>2, CallsGo
    <3>. QED  BY <3>1
  <2>3. CASE Count(t) \/ CountStores(t)
    <3>. DEFINE place == IF log_count_' < kMaxCount THEN "nowhere" ELSE "reset"
    <3>1. Goes(t, place)  BY <2>1, <2>3, CountGoes
    <3>2. place \in Elsewhere  OBVIOUS
    <3>. HIDE DEF place
    <3>. QED  BY <3>1, <3>2
  <2>4. CASE CountLoads(t)
    <3>1. Goes(t, "store")  BY <2>1, <2>4, LoadGoes
    <3>. QED  BY <3>1
  <2>5. CASE \/ Reset(t) \/ Write(t) \/ Cleanup(t) \/ OpenNothing(t) \/ Open(t) \/ OpenFails(t)
             \/ Close(t)
    <3>1. Goes(t, "nowhere")  BY <2>1, <2>5, DoneGoes
    <3>. QED  BY <3>1
  <2>6. CASE RotateThrows(t) \/ OpenThrows(t)
    <3>1. Goes(t, "nowhere")  BY <2>1, <2>6, ThrowsGoes
    <3>. QED  BY <3>1
  <2>7. CASE RotateLooks(t)
    <3>. DEFINE place == IF Todo(t, "flush") THEN "flush rotates" ELSE "reinit rotates"
    <3>1. Goes(t, place)  BY <2>1, <2>7, LooksGoes
    <3>2. place \in Elsewhere  OBVIOUS
    <3>. HIDE DEF place
    <3>. QED  BY <3>1, <3>2
  <2>. QED  BY <1>3, <2>2, <2>3, <2>4, <2>5, <2>6, <2>7 DEF Step, Rotated
<1>4. ASSUME NEW path, StartLogging(path)
      PROVE  Goes(Main, "cleanup") /\ Main \in Threads /\ "cleanup" \in Elsewhere
  BY <1>4, StartGoes, LoggerAssumption DEF Typed
<1>5. ASSUME agenda' = agenda
      PROVE  \A u \in Threads : /\ Opening(u)' => Opening(u)
                                /\ Todo(u, "open trunc")' => Todo(u, "open trunc")
  BY <1>5 DEF Opening, Todo
<1>6. ASSUME Exit PROVE Goes(Main, "nowhere") /\ Main \in Threads /\ "nowhere" \in Elsewhere
  BY <1>6, ExitGoes, LoggerAssumption DEF Typed
<1>. QED
  BY <1>1, <1>2, <1>3, <1>4, <1>5, <1>6 DEF Next, vars, threadVars, CleanerLooks, CleanerRemoves

\* What has failed stays known.
LEMMA FailedGrows ==
  ASSUME [Next]_vars
  PROVE  failed \subseteq failed'
<1>1. ASSUME NEW t \in Threads,
             \/ Write(t) \/ Rotated(t) \/ RotateThrows(t) \/ Open(t) \/ OpenFails(t)
             \/ OpenThrows(t) \/ Close(t)
      PROVE  failed \subseteq failed'
  <2>1. failed' = failed \/ \E more : failed' = failed \cup more
    BY <1>1 DEF Write, Rotated, RotateNothing, RotateKeeps, RotateCopies, RotateThrows, Open,
                OpenFails, OpenThrows, Close, historyVars
  <2>. QED  BY <2>1
<1>2. ASSUME NEW i \in Cleaners, CleanerRemoves(i) PROVE failed' = failed
  BY <1>2 DEF CleanerRemoves
<1>. QED  BY <1>1, <1>2, Untouched

LEMMA OneOpensNext ==
  ASSUME Typed, OneOpens, [Next]_vars
  PROVE  OneOpens'
<1>1. failed \subseteq failed'  BY FailedGrows
<1>2. ASSUME NEW t \in Threads, failed' = failed \cup Overlap(t) \cup (failed' \cap {"copy"}),
             \A u \in Threads : Opening(u)' => u = t \/ Opening(u)
      PROVE  OneOpens'
  BY <1>2 DEF OneOpens, Overlap
<1>3. ASSUME \A u \in Threads : Opening(u)' => Opening(u)
      PROVE  OneOpens'
  BY <1>1, <1>3 DEF OneOpens
<1>. QED  BY <1>2, <1>3, OnlyRotateOpens

LEMMA FileThereNext ==
  ASSUME Typed, FileThere, [Next]_vars
  PROVE  FileThere'
<1>1. ASSUME NEW t \in Threads, Write(t) PROVE FileThere'
  <2>1. ofs_' = ofs_  BY <1>1 DEF Write
  <2>. QED  BY <1>1, <2>1, WriteGives DEF FileThere
<1>2. ASSUME NEW t \in Threads, Open(t) PROVE FileThere'
  <2>1. NewFile.exists  BY DEF NewFile, NoFile
  <2>. QED  BY <1>2, <2>1 DEF Open, FileThere
<1>3. ASSUME NEW i \in Cleaners, CleanerRemoves(i) PROVE FileThere'
  BY <1>3 DEF CleanerRemoves, FileThere, NoFile
<1>4. ASSUME NEW t \in Threads,
             Rotated(t) \/ RotateThrows(t) \/ OpenFails(t) \/ OpenThrows(t) \/ Close(t)
      PROVE  FileThere'
  BY <1>4 DEF FileThere, Rotated, RotateNothing, RotateKeeps, RotateCopies, RotateThrows,
              OpenFails, OpenThrows, Close
<1>5. ASSUME UNCHANGED <<ofs_, file>> PROVE FileThere'  BY <1>5 DEF FileThere
<1>. QED  BY <1>1, <1>2, <1>3, <1>4, <1>5, Untouched

LEMMA CopiedNext ==
  ASSUME Typed, FileThere, OneOpens, Copied, [Next]_vars
  PROVE  Copied'
<1>. DEFINE Whole == failed \cap {"copy", "overlap"} = {}
            Safe  == file.records \subseteq saved \cup removed
<1>. SUFFICES ASSUME failed' \cap {"copy", "overlap"} = {},
                     NEW u \in Threads, Todo(u, "open trunc")'
              PROVE  ofs_' = "closed" /\ file'.records \subseteq saved' \cup removed'
  BY DEF Copied
<1>1. ASSUME NEW t \in Threads, Rotated(t),
             failed' = failed \cup Overlap(t) \cup (failed' \cap {"copy"}),
             \A v \in Threads : Opening(v)' => v = t \/ Opening(v),
             Todo(t, "open trunc")' => RotateCopies(t)
      PROVE  ofs_' = "closed" /\ file'.records \subseteq saved' \cup removed'
  <2>1. u = t
    <3>1. Overlap(t) = {}  BY <1>1 DEF Overlap
    <3>2. Opening(u)'  BY DEF Opening
    <3>. QED  BY <1>1, <3>1, <3>2 DEF Overlap
  <2>2. RotateCopies(t)  BY <1>1, <2>1
  <2>3. ofs_' = "closed" /\ file' = file /\ saved' = saved \cup file.records
    BY <2>2 DEF RotateCopies
  <2>. QED  BY <2>3
<1>2. ASSUME \A v \in Threads : /\ Opening(v)' => Opening(v)
                                /\ Todo(v, "open trunc")' => Todo(v, "open trunc")
      PROVE  ofs_' = "closed" /\ file'.records \subseteq saved' \cup removed'
  <2>1. Opening(u)' /\ Opening(u) /\ Todo(u, "open trunc")  BY <1>2 DEF Opening
  <2>2. failed \subseteq failed'  BY FailedGrows
  <2>3. ofs_ = "closed" /\ file.records \subseteq saved \cup removed
    BY <2>1, <2>2 DEF Copied
  <2>4. ASSUME NEW t \in Threads, Write(t)
        PROVE  ofs_' = "closed" /\ file'.records \subseteq saved' \cup removed'
    BY <2>3, <2>4 DEF Write
  <2>5. ASSUME NEW t \in Threads, Open(t) PROVE FALSE
    <3>1. Opening(t)  BY <2>5 DEF Open
    <3>2. t = u  BY <2>1, <2>2, <3>1 DEF OneOpens
    <3>3. Goes(t, "nowhere")  BY <2>5, DoneGoes DEF Typed
    <3>4. "open trunc" \in Places  BY DEF Places, Ops, Later
    <3>. QED  BY <3>2, <3>3, <3>4 DEF Goes
  <2>6. ASSUME NEW t \in Threads, RotateThrows(t) \/ OpenFails(t) \/ OpenThrows(t) \/ Close(t)
        PROVE  ofs_' = "closed" /\ file'.records \subseteq saved' \cup removed'
    BY <2>3, <2>6 DEF RotateThrows, OpenFails, OpenThrows, Close, historyVars
  <2>7. ASSUME NEW t \in Threads, Rotated(t)
        PROVE  ofs_' = "closed" /\ file'.records \subseteq saved' \cup removed'
    BY <2>3, <2>7 DEF Rotated, RotateNothing, RotateKeeps, RotateCopies
  <2>8. ASSUME NEW i \in Cleaners, CleanerRemoves(i)
        PROVE  ofs_' = "closed" /\ file'.records \subseteq saved' \cup removed'
    BY <2>3, <2>8 DEF CleanerRemoves, NoFile
  <2>. QED  BY <2>3, <2>4, <2>5, <2>6, <2>7, <2>8, Untouched
<1>. QED  BY <1>1, <1>2, OnlyRotateOpens

LEMMA RecordsKeptNext ==
  ASSUME Typed, FileThere, Copied, RecordsKept, [Next]_vars
  PROVE  RecordsKept'
<1>. SUFFICES ASSUME failed' \cap {"copy", "overlap"} = {}
              PROVE  written' \subseteq file'.records \cup saved' \cup removed'
  BY DEF RecordsKept
<1>1. failed \cap {"copy", "overlap"} = {}  BY FailedGrows
<1>2. written \subseteq file.records \cup saved \cup removed  BY <1>1 DEF RecordsKept
<1>3. ASSUME NEW t \in Threads, Write(t)
      PROVE  written' \subseteq file'.records \cup saved' \cup removed'
  <2>1. saved' = saved /\ removed' = removed  BY <1>3 DEF Write
  <2>. QED  BY <1>2, <1>3, <2>1, WriteGives
<1>4. ASSUME NEW t \in Threads, Open(t)
      PROVE  written' \subseteq file'.records \cup saved' \cup removed'
  <2>1. UNCHANGED <<saved, written, removed>>  BY <1>4 DEF Open, historyVars
  <2>2. CASE Todo(t, "open append") /\ file.exists
    <3>1. file' = file  BY <1>4, <2>2 DEF Open
    <3>. QED  BY <1>2, <2>1, <3>1
  <2>3. CASE ~(Todo(t, "open append") /\ file.exists)
    <3>1. file.records \subseteq saved \cup removed
      BY <1>1, <1>4, <2>3 DEF Open, Opening, FileThere, Copied
    <3>. QED  BY <1>2, <2>1, <3>1
  <2>. QED  BY <2>2, <2>3
<1>5. ASSUME NEW t \in Threads,
             Rotated(t) \/ RotateThrows(t) \/ OpenFails(t) \/ OpenThrows(t) \/ Close(t)
      PROVE  written' \subseteq file'.records \cup saved' \cup removed'
  <2>1. file' = file /\ written' = written /\ removed' = removed
        /\ (saved' = saved \/ saved' = saved \cup file.records)
    BY <1>5 DEF Rotated, RotateNothing, RotateKeeps, RotateCopies, RotateThrows, OpenFails,
                OpenThrows, Close, historyVars
  <2>. QED  BY <1>2, <2>1
<1>6. ASSUME NEW i \in Cleaners, CleanerRemoves(i)
      PROVE  written' \subseteq file'.records \cup saved' \cup removed'
  <2>1. saved' = saved /\ written' = written /\ removed' = removed \cup file.records
    BY <1>6 DEF CleanerRemoves
  <2>. QED  BY <1>2, <2>1
<1>7. ASSUME UNCHANGED <<file, saved, written, removed>>
      PROVE  written' \subseteq file'.records \cup saved' \cup removed'
  BY <1>2, <1>7
<1>. QED  BY <1>3, <1>4, <1>5, <1>6, <1>7, Untouched

-----------------------------------------------------------------------------
\* Flushes.

\* The log is not left closed.
AboutToOpen ==
  log_path_ = "set" /\ ofs_ = "closed" =>
    (\E t \in Threads : Reopening(t)) \/ failed \cap {"open", "size"} # {}

LEMMA AboutToOpenNext ==
  ASSUME Typed, AboutToOpen, [Next]_vars
  PROVE  AboutToOpen'
<1>. SUFFICES ASSUME log_path_' = "set", ofs_' = "closed"
              PROVE  (\E t \in Threads : Reopening(t)') \/ failed' \cap {"open", "size"} # {}
  BY DEF AboutToOpen
<1>1. ASSUME NEW t \in Threads, Rotated(t) PROVE Reopening(t)'
  BY <1>1, RotateGoes DEF Rotated, Typed
<1>2. ASSUME NEW t \in Threads, RotateThrows(t) \/ OpenFails(t) \/ OpenThrows(t)
      PROVE  failed' \cap {"open", "size"} # {}
  BY <1>2 DEF RotateThrows, OpenFails, OpenThrows
<1>3. ASSUME NEW t \in Threads, Open(t) \/ OpenNothing(t) PROVE FALSE
  BY <1>3 DEF Open, OpenNothing
<1>4. ASSUME NEW path, StartLogging(path) PROVE Main \in Threads /\ Reopening(Main)'
  <2>1. Has(agenda'[Main], "reinit")  BY <1>4, StartGoes DEF Typed
  <2>. QED  BY <2>1, LoggerAssumption DEF Reopening, Has
<1>5. ASSUME log_path_ = "set", ofs_ = "closed",
             \A u \in Threads : Reopening(u) => Reopening(u)'
      PROVE  (\E t \in Threads : Reopening(t)') \/ failed' \cap {"open", "size"} # {}
  BY <1>5, FailedGrows DEF AboutToOpen
<1>6. ASSUME NEW t \in Threads,
             \/ Log(t) \/ Flush(t) \/ Count(t) \/ CountLoads(t) \/ CountStores(t) \/ Reset(t)
             \/ Write(t) \/ RotateLooks(t) \/ Close(t) \/ Cleanup(t)
      PROVE  /\ log_path_' = log_path_ /\ ofs_' = ofs_
             /\ \A u \in Threads : Reopening(u) => Reopening(u)'
  <2>1. log_path_' = log_path_ /\ ofs_' = ofs_
    BY <1>6 DEF Log, Flush, Count, CountLoads, CountStores, Reset, Write, RotateLooks, Close, Cleanup
  <2>2. \A u \in Threads \ {t} : agenda'[u] = agenda[u]
    BY <1>6, CallsGo, CountGoes, LoadGoes, DoneGoes, LooksGoes DEF Typed
  <2>3. Reopening(t) => Reopening(t)'
    <3>1. CASE Log(t) \/ Flush(t)
      <4>1. \A op : ~Has(agenda[t], op)  BY <3>1, CallsGo DEF Typed
      <4>. QED  BY <4>1 DEF Reopening, Has
    <3>2. CASE Reset(t) \/ Write(t) \/ Close(t) \/ Cleanup(t)
      <4>1. ~Opening(t)  BY <3>2 DEF Reset, Write, Close, Cleanup, Opening, Todo
      <4>. QED  BY <3>2, <4>1, DoneGoes DEF Typed
    <3>3. CASE Count(t) \/ CountLoads(t) \/ CountStores(t) \/ RotateLooks(t)
      BY <3>3, CountGoes, LoadGoes, LooksGoes DEF Typed
    <3>. QED  BY <1>6, <3>1, <3>2, <3>3
  <2>. QED  BY <2>1, <2>2, <2>3 DEF Reopening
<1>7. ASSUME \/ \E i \in Cleaners : CleanerLooks(i) \/ CleanerRemoves(i)
             \/ UNCHANGED vars
      PROVE  /\ log_path_' = log_path_ /\ ofs_ = "closed"
             /\ \A u \in Threads : Reopening(u) => Reopening(u)'
  BY <1>7 DEF CleanerLooks, CleanerRemoves, vars, threadVars, Reopening
<1>8. ASSUME Exit
      PROVE  log_path_' = log_path_ /\ ofs_' = ofs_ /\ \A u \in Threads : ~Reopening(u)
  <2>1. log_path_' = log_path_ /\ ofs_' = ofs_  BY <1>8 DEF Exit
  <2>2. \A u \in Threads : \A op : ~Has(agenda[u], op)  BY <1>8, ExitGoes DEF Typed
  <2>. QED  BY <2>1, <2>2 DEF Reopening, Has
<1>. QED
  BY <1>1, <1>2, <1>3, <1>4, <1>5, <1>6, <1>7, <1>8 DEF Next, Step, Rotated

\* The threads that have brought the count to kMaxCount and not yet reset it, and
\* the records that the races lost may have left uncounted by a reset.
Resetting == {t \in Threads : Todo(t, "reset")}
Over == races * (Cardinality(Threads) - 1)

CountBound ==
  /\ log_count_ <= kMaxCount - 1 + Cardinality(Resetting) + Over
  /\ \A t \in Threads : Todo(t, "store") => seen[t] <= kMaxCount - 1 + Over

LEMMA Numbers ==
  ASSUME Typed
  PROVE  /\ IsFiniteSet(Resetting) /\ Cardinality(Resetting) \in Nat
         /\ Cardinality(Threads) \in Nat \ {0} /\ Cardinality(Resetting) <= Cardinality(Threads)
         /\ Over \in Nat
<1>1. IsFiniteSet(Threads) /\ Main \in Threads  BY LoggerAssumption
<1>2. Resetting \subseteq Threads  BY DEF Resetting
<1>3. IsFiniteSet(Resetting) /\ Cardinality(Resetting) <= Cardinality(Threads)
  BY <1>1, <1>2, FS_Subset
<1>4. Cardinality(Threads) \in Nat /\ Cardinality(Resetting) \in Nat
  BY <1>1, <1>3, FS_CardinalityType
<1>5. Cardinality(Threads) # 0  BY <1>1, FS_EmptySet
<1>6. races \in Nat  BY LoggerAssumption DEF Typed, TypeOK
<1>. DEFINE others == Cardinality(Threads) - 1
<1>7. others \in Nat  BY <1>4, <1>5
<1>. HIDE DEF others
<1>8. races * others \in Nat  BY <1>6, <1>7
<1>. QED  BY <1>3, <1>4, <1>5, <1>8 DEF Over, others

LEMMA CountBoundNext ==
  ASSUME Typed, CountBound, [Next]_vars
  PROVE  CountBound'
<1>. "reset" \in Places /\ "store" \in Places  BY DEF Places, Ops, Later
<1>1. ASSUME Resetting' = Resetting, races' = races, log_count_' = log_count_,
             \A u \in Threads : Todo(u, "store")' => Todo(u, "store") /\ seen'[u] = seen[u]
      PROVE  CountBound'
  BY <1>1 DEF CountBound, Over
\* An increment, in one step or stored.
<1>2. ASSUME NEW t \in Threads, Count(t) \/ CountStores(t) PROVE CountBound'
  <2>1. races' = races /\ \A u \in Threads \ {t} : seen'[u] = seen[u]
    BY <1>2 DEF Count, CountStores, Typed, TypeOK
  <2>2. Goes(t, IF log_count_' < kMaxCount THEN "nowhere" ELSE "reset")
    BY <1>2, CountGoes DEF Typed
  <2>3. ~Todo(t, "reset")  BY <1>2 DEF Count, CountStores, Todo
  <2>4. log_count_' <= kMaxCount + Cardinality(Resetting) + Over
    BY <1>2, Numbers, LoggerAssumption DEF CountBound, Count, CountStores, Counted, Typed, TypeOK
  <2>5. \A u \in Threads : Todo(u, "store")' => u # t /\ Todo(u, "store")
    BY <2>2 DEF Goes
  <2>6. log_count_' <= kMaxCount - 1 + Cardinality(Resetting') + Over
    <3>1. CASE log_count_' < kMaxCount
      <4>1. Goes(t, "nowhere")  BY <2>2, <3>1
      <4>2. Resetting' = Resetting  BY <2>3, <4>1 DEF Resetting, Goes
      <4>3. log_count_' \in Nat  BY TypedNext DEF Typed, TypeOK
      <4>. QED  BY <3>1, <4>2, <4>3, Numbers, LoggerAssumption
    <3>2. CASE ~(log_count_' < kMaxCount)
      <4>1. Goes(t, "reset")  BY <2>2, <3>2
      <4>2. Resetting' = Resetting \cup {t} /\ t \notin Resetting
        BY <2>3, <4>1 DEF Resetting, Goes
      <4>3. Cardinality(Resetting') = Cardinality(Resetting) + 1
        BY <4>2, Numbers, FS_AddElement
      <4>4. log_count_' \in Nat  BY TypedNext DEF Typed, TypeOK
      <4>. QED  BY <2>4, <4>3, <4>4, Numbers, LoggerAssumption
    <3>. QED  BY <3>1, <3>2
  <2>. QED  BY <2>1, <2>5, <2>6 DEF CountBound, Over
\* The load of one that races: it may see a count that the others are about to reset.
<1>3. ASSUME NEW t \in Threads, CountLoads(t) PROVE CountBound'
  <2>1. /\ races' = races + 1 /\ log_count_' = log_count_ /\ seen' = [seen EXCEPT ![t] = log_count_]
        /\ Todo(t, "count")
    BY <1>3 DEF CountLoads
  <2>2. Goes(t, "store")  BY <1>3, LoadGoes DEF Typed
  <2>3. ~Todo(t, "reset")  BY <2>1 DEF Todo
  <2>4. Resetting' = Resetting  BY <2>2, <2>3 DEF Resetting, Goes
  <2>5. Over' = Over + (Cardinality(Threads) - 1)
    <3>. DEFINE others == Cardinality(Threads) - 1
    <3>1. others \in Nat /\ races \in Nat  BY Numbers, LoggerAssumption DEF Typed, TypeOK
    <3>. HIDE DEF others
    <3>2. (races + 1) * others = races * others + others  BY <3>1
    <3>. QED  BY <2>1, <3>2 DEF Over, others
  <2>6. Cardinality(Resetting) <= Cardinality(Threads) - 1
    <3>1. Resetting \subseteq Threads \ {t}  BY <2>3 DEF Resetting
    <3>2. IsFiniteSet(Threads)  BY LoggerAssumption
    <3>3. IsFiniteSet(Threads \ {t}) /\ Cardinality(Threads \ {t}) = Cardinality(Threads) - 1
      BY <3>2, FS_RemoveElement
    <3>. QED  BY <3>1, <3>3, FS_Subset
  <2>7. log_count_ <= kMaxCount - 1 + Over'
    BY <2>5, <2>6, Numbers, LoggerAssumption DEF CountBound, Typed, TypeOK
  <2>8. ASSUME NEW u \in Threads, Todo(u, "store")' PROVE seen'[u] <= kMaxCount - 1 + Over'
    <3>1. CASE u = t
      <4>1. seen'[u] = log_count_  BY <2>1, <3>1 DEF Typed, TypeOK
      <4>. QED  BY <2>7, <4>1
    <3>2. CASE u # t
      <4>1. Todo(u, "store")  BY <2>2, <2>8, <3>2 DEF Goes
      <4>2. seen \in [Threads -> Nat]  BY DEF Typed, TypeOK
      <4>3. seen'[u] = seen[u] /\ seen[u] \in Nat  BY <2>1, <3>2, <4>2
      <4>4. seen[u] <= kMaxCount - 1 + Over  BY <4>1 DEF CountBound
      <4>5. Over \in Nat /\ Cardinality(Threads) \in Nat \ {0}  BY Numbers
      <4>6. seen[u] <= kMaxCount - 1 + Over'
        BY <2>5, <4>3, <4>4, <4>5, LoggerAssumption
      <4>. QED  BY <4>3, <4>6
    <3>. QED  BY <3>1, <3>2
  <2>9. log_count_' <= kMaxCount - 1 + Cardinality(Resetting') + Over'
    BY <2>1, <2>4, <2>5, <2>7, Numbers, LoggerAssumption DEF Typed, TypeOK
  <2>. QED  BY <2>8, <2>9 DEF CountBound
<1>4. ASSUME NEW t \in Threads, Reset(t) PROVE CountBound'
  <2>1. races' = races /\ seen' = seen /\ log_count_' = 0  BY <1>4 DEF Reset
  <2>2. Goes(t, "nowhere")  BY <1>4, DoneGoes DEF Typed
  <2>3. \A u \in Threads : Todo(u, "store")' => Todo(u, "store")  BY <2>2 DEF Goes
  <2>4. Resetting' \subseteq Resetting  BY <2>2 DEF Resetting, Goes
  <2>5. Cardinality(Resetting') \in Nat  BY <2>4, Numbers, FS_Subset, FS_CardinalityType
  <2>6. log_count_' <= kMaxCount - 1 + Cardinality(Resetting') + Over
    BY <2>1, <2>5, Numbers, LoggerAssumption
  <2>. QED  BY <2>1, <2>3, <2>6 DEF CountBound, Over
\* The steps that do not count.
<1>5. ASSUME NEW t \in Threads, NEW place, Goes(t, place), place \notin {"reset", "store"},
             ~Todo(t, "reset"), races' = races, log_count_' = log_count_, seen' = seen
      PROVE  CountBound'
  <2>1. Resetting' = Resetting  BY <1>5 DEF Resetting, Goes
  <2>2. \A u \in Threads : Todo(u, "store")' => Todo(u, "store")  BY <1>5 DEF Goes
  <2>. QED  BY <1>1, <1>5, <2>1, <2>2
<1>6. ASSUME NEW t \in Threads,
             Log(t) \/ Flush(t) \/ Write(t) \/ Cleanup(t) \/ OpenNothing(t) \/ Open(t)
               \/ OpenFails(t) \/ Close(t) \/ RotateThrows(t) \/ OpenThrows(t) \/ RotateLooks(t)
               \/ Rotated(t)
      PROVE  CountBound'
  <2>1. races' = races /\ log_count_' = log_count_ /\ seen' = seen
    BY <1>6 DEF Log, Flush, Write, Cleanup, OpenNothing, Open, OpenFails, RotateThrows, OpenThrows,
                RotateLooks, Rotated, RotateNothing, RotateKeeps, RotateCopies, Close
  <2>2. ~Todo(t, "reset")
    BY <1>6 DEF Log, Flush, Write, Cleanup, OpenNothing, Open, OpenFails, RotateThrows, OpenThrows,
                RotateLooks, Rotated, RotateNothing, RotateKeeps, RotateCopies, Close, Flushing,
                Rotating, Opening, Todo
  <2>3. CASE Log(t) \/ Flush(t) \/ Write(t) \/ Cleanup(t) \/ OpenNothing(t) \/ Open(t)
             \/ OpenFails(t) \/ Close(t) \/ RotateThrows(t) \/ OpenThrows(t)
    <3>1. Goes(t, "nowhere")  BY <2>3, CallsGo, DoneGoes, ThrowsGoes DEF Typed
    <3>. QED  BY <1>5, <2>1, <2>2, <3>1
  <2>4. CASE RotateLooks(t)
    <3>. DEFINE place == IF Todo(t, "flush") THEN "flush rotates" ELSE "reinit rotates"
    <3>1. Goes(t, place)  BY <2>4, LooksGoes DEF Typed
    <3>2. place \notin {"reset", "store"}  OBVIOUS
    <3>. HIDE DEF place
    <3>. QED  BY <1>5, <2>1, <2>2, <3>1, <3>2
  <2>5. CASE Rotated(t)
    <3>. DEFINE place == IF RotateCopies(t) THEN "open trunc" ELSE "open append"
    <3>1. Goes(t, place)  BY <2>5, RotateGoes DEF Typed, Rotated
    <3>2. place \notin {"reset", "store"}  OBVIOUS
    <3>. HIDE DEF place
    <3>. QED  BY <1>5, <2>1, <2>2, <3>1, <3>2
  <2>. QED  BY <1>6, <2>3, <2>4, <2>5
<1>7. ASSUME NEW path, StartLogging(path) PROVE CountBound'
  <2>1. races' = races /\ log_count_' = log_count_ /\ seen' = seen /\ agenda[Main] = <<>>
    BY <1>7 DEF StartLogging
  <2>2. Goes(Main, "cleanup") /\ Main \in Threads  BY <1>7, StartGoes, LoggerAssumption DEF Typed
  <2>3. ~Todo(Main, "reset")  BY <2>1 DEF Todo
  <2>. QED  BY <1>5, <2>1, <2>2, <2>3
<1>8. ASSUME \/ \E i \in Cleaners : CleanerLooks(i) \/ CleanerRemoves(i)
             \/ UNCHANGED vars
      PROVE  CountBound'
  <2>1. UNCHANGED <<races, log_count_, seen, agenda>>
    BY <1>8 DEF CleanerLooks, CleanerRemoves, vars, threadVars
  <2>. QED  BY <1>1, <2>1 DEF Resetting, Todo
<1>9. ASSUME Exit PROVE CountBound'
  <2>1. races' = races /\ log_count_' = log_count_ /\ seen' = seen  BY <1>9 DEF Exit
  <2>2. Goes(Main, "nowhere") /\ Main \in Threads /\ ~Todo(Main, "reset")
    BY <1>9, ExitGoes, LoggerAssumption DEF Typed
  <2>. QED  BY <1>5, <2>1, <2>2
<1>. QED  BY <1>2, <1>3, <1>4, <1>6, <1>7, <1>8, <1>9 DEF Next, Step, Rotated

-----------------------------------------------------------------------------
\* The inductive invariant.

Inv ==
  /\ Typed
  /\ FileThere
  /\ OneOpens /\ Copied /\ RecordsKept
  /\ AboutToOpen /\ CountBound

LEMMA InvInit == Init => Inv
<1>. SUFFICES ASSUME Init PROVE Inv  OBVIOUS
<1>1. Typed  BY TypedInit
<1>2. \A t \in Threads, op \in Ops : ~Todo(t, op)  BY DEF Init, Todo
<1>3. FileThere
  <2>1. NoFile.records = {}  BY DEF NoFile
  <2>2. file = NoFile \/ file.records = {}  BY DEF Init
  <2>3. ofs_ # "file"  BY DEF Init
  <2>. QED  BY <2>1, <2>2, <2>3 DEF FileThere
<1>4. OneOpens /\ Copied  BY <1>2 DEF OneOpens, Copied, Opening, Ops
<1>5. RecordsKept  BY DEF Init, RecordsKept
<1>6. AboutToOpen  BY DEF Init, AboutToOpen
<1>7. CountBound
  <2>1. log_count_ \in Nat /\ log_count_ <= kMaxCount - 1  BY LoggerAssumption DEF Init
  <2>2. \A t \in Threads : ~Todo(t, "store")  BY <1>2 DEF Ops
  <2>. QED  BY <1>1, <2>1, <2>2, Numbers, LoggerAssumption DEF CountBound
<1>. QED  BY <1>1, <1>3, <1>4, <1>5, <1>6, <1>7 DEF Inv

LEMMA InvNext == Inv /\ [Next]_vars => Inv'
  BY TypedNext, FileThereNext, OneOpensNext, CopiedNext, RecordsKeptNext, AboutToOpenNext,
     CountBoundNext
  DEF Inv

\* However many threads log, flush and start the log, what they have still to do
\* is in order, a log that is to be emptied has been copied, and the rest of the
\* invariant holds.
THEOREM LoggerCorrect == Spec => []Inv
  BY InvInit, InvNext, PTL DEF Spec

\* For any number of threads and sizes, a record that went into the log file is
\* in it, in a backup or was deleted with it, as long as no copy failed and no
\* thread's rotate came between another's rotate and open.
THEOREM RecordsKeptAlways == Spec => []RecordsKept
<1>1. Inv => RecordsKept  BY DEF Inv
<1>. QED  BY <1>1, LoggerCorrect, PTL

\* For any number of threads and sizes, no flush leaves the log closed, and the
\* records of the flushes themselves do not set off further ones.
THEOREM FlushesCompleteAlways == Spec => []FlushesComplete
<1>1. Inv => FlushesComplete
  <2>. SUFFICES ASSUME Inv PROVE FlushesComplete  OBVIOUS
  <2>1. log_count_ <= kMaxCount - 1 + Cardinality(Resetting) + Over  BY DEF Inv, CountBound
  <2>2. log_count_ \in Nat  BY DEF Inv, Typed, TypeOK
  <2>3. log_count_ < kMaxCount + Cardinality(Threads) + Over
    BY <2>1, <2>2, Numbers, LoggerAssumption DEF Inv
  <2>. QED  BY <2>3 DEF Inv, FlushesComplete, AboutToOpen, Over
<1>. QED  BY <1>1, LoggerCorrect, PTL
=============================================================================
