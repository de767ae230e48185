-------------------------- MODULE JsonValueProofs --------------------------
(* Proofs about JsonValue: values stay whole and failures lose nothing, for  *)
(* any variables, keys, leaves and sizes, and however many operations.       *)
EXTENDS JsonValue, WellFoundedInduction, TLAPS

\* A set of naturals has a least.
LEMMA LeastOf ==
  ASSUME NEW S \in SUBSET Nat, S # {}
  PROVE  \E i \in S : \A j \in S : i <= j
<1>1. PICK i \in S : \A j \in S : ~ (<<j, i>> \in OpToRel(<, Nat))
  BY NatLessThanWellFounded, WFMin
<1>2. \A j \in S : ~ (j < i)  BY <1>1 DEF OpToRel
<1>. QED  BY <1>2

-----------------------------------------------------------------------------
\* The levels of a value.

LEMMA LevelsDefined ==
  ASSUME NEW x, NEW n \in Nat
  PROVE  \E level : level = [d \in 0..n |->
                               IF d = 0 THEN {x} ELSE Below(level[d - 1])]
<1>. DEFINE At(level, d) == IF d = 0 THEN {x} ELSE Below(level[d - 1])
            Levels(m, level) == level = [d \in 0..m |-> At(level, d)]
            some == {m \in Nat : \E level : Levels(m, level)}
            none == Nat \ some
<1>1. 0 \in some
  <2>1. Levels(0, [d \in 0..0 |-> {x}])  OBVIOUS
  <2>. QED  BY <2>1
<1>2. ASSUME NEW m \in some PROVE m + 1 \in some
  <2>1. PICK level : Levels(m, level)  OBVIOUS
  <2>. DEFINE more == [d \in 0..m + 1 |-> IF d = m + 1 THEN Below(level[m]) ELSE level[d]]
  <2>2. ASSUME NEW d \in 0..m PROVE level[d] = At(level, d)
    <3>. HIDE DEF At
    <3>. QED  BY <2>1
  <2>3. ASSUME NEW d \in 0..m + 1 PROVE more[d] = At(more, d)
    <3>1. CASE d = 0  BY <2>1, <3>1
    <3>2. CASE d # 0
      <4>1. d - 1 \in 0..m /\ d - 1 # m + 1  BY <3>2
      <4>2. At(more, d) = Below(level[d - 1])  BY <3>2, <4>1
      <4>3. d # m + 1 => level[d] = Below(level[d - 1])  BY <2>2, <3>2
      <4>. QED  BY <4>2, <4>3
    <3>. QED  BY <3>1, <3>2
  <2>4. Levels(m + 1, more)
    <3>. HIDE DEF At
    <3>. QED  BY <2>3
  <2>. HIDE DEF Levels, more
  <2>5. \E other : Levels(m + 1, other)  BY <2>4
  <2>6. m + 1 \in Nat  OBVIOUS
  <2>. QED  BY <2>5, <2>6
<1>. HIDE DEF some
<1>3. ASSUME NEW m \in none, \A k \in none : m <= k PROVE FALSE
  <2>1. m # 0 /\ m \in Nat  BY <1>1, <1>3
  <2>2. m - 1 \in Nat /\ m - 1 \in some  BY <1>3, <2>1
  <2>. QED  BY <1>2, <2>2, <1>3
<1>4. none = {}  BY <1>3, LeastOf
<1>5. n \in some  BY <1>4
<1>. QED  BY <1>5 DEF some

LEMMA NestedIs ==
  ASSUME NEW x
  PROVE  /\ Nested(x)[0] = {x}
         /\ \A d \in 0..MaxDepth : Nested(x)[d + 1] = Below(Nested(x)[d])
<1>. DEFINE At(level, d) == IF d = 0 THEN {x} ELSE Below(level[d - 1])
            Levels(level) == level = [d \in 0..MaxDepth + 1 |-> At(level, d)]
            level == CHOOSE level : Levels(level)
<1>1. MaxDepth \in Nat /\ MaxDepth + 1 \in Nat  BY JsonAssumption
<1>2. \E some : Levels(some)  BY <1>1, LevelsDefined
<1>3. Nested(x) = level  BY DEF Nested
<1>4. Levels(level)
  <2>. HIDE DEF Levels
  <2>. QED  BY <1>2
<1>. HIDE DEF level
<1>5. ASSUME NEW d \in 0..MaxDepth + 1 PROVE level[d] = At(level, d)
  <2>. HIDE DEF At
  <2>. QED  BY <1>4
<1>6. level[0] = {x}  BY <1>1, <1>5
<1>7. ASSUME NEW d \in 0..MaxDepth
      PROVE  level[d + 1] = Below(level[d])
  <2>1. d + 1 \in 0..MaxDepth + 1 /\ d + 1 # 0 /\ d + 1 - 1 = d  BY <1>1
  <2>. QED  BY <1>5, <2>1
<1>. QED  BY <1>3, <1>6, <1>7

\* What is nested in x at some depth is nested in a member of x one level up.
LEMMA NestedInMembers ==
  ASSUME NEW x, NEW d \in 0..MaxDepth
  PROVE  Nested(x)[d + 1] = UNION {Nested(m)[d] : m \in Members(x)}
<1>. DEFINE Holds(e) == Nested(x)[e + 1] = UNION {Nested(m)[e] : m \in Members(x)}
            none == {e \in 0..MaxDepth : ~Holds(e)}
<1>0. MaxDepth \in Nat  BY JsonAssumption
<1>1. ASSUME NEW e \in none, \A k \in none : e <= k PROVE FALSE
  <2>1. CASE e = 0
    <3>0. e \in 0..MaxDepth /\ Nested(x)[e] = {x}  BY <1>1, <2>1, NestedIs
    <3>1. Nested(x)[e + 1] = Below({x})  BY <3>0, NestedIs
    <3>3. Below({x}) = Members(x)  BY DEF Below
    <3>2. \A m : Nested(m)[e] = {m}  BY <2>1, NestedIs
    <3>. QED  BY <1>1, <2>1, <3>1, <3>2, <3>3
  <2>2. CASE e # 0
    <3>1. e - 1 \in 0..MaxDepth /\ e - 1 + 1 = e /\ e \in 0..MaxDepth  BY <1>0, <1>1, <2>2
    <3>2. Holds(e - 1)  BY <1>0, <1>1, <3>1
    <3>3. Nested(x)[e] = UNION {Nested(m)[e - 1] : m \in Members(x)}  BY <3>1, <3>2
    <3>4. Nested(x)[e + 1] = Below(Nested(x)[e])  BY <3>1, NestedIs
    <3>5. \A m : Nested(m)[e] = Below(Nested(m)[e - 1])  BY <3>1, NestedIs
    <3>6. Holds(e)  BY <3>3, <3>4, <3>5 DEF Below
    <3>. QED  BY <1>1, <3>6
  <2>. QED  BY <2>1, <2>2
<1>2. none \in SUBSET Nat  BY <1>0
<1>3. none = {}  BY <1>1, <1>2, LeastOf
<1>. QED  BY <1>3

-----------------------------------------------------------------------------
\* Values that are in order.

IsFunction(f) == f = [k \in DOMAIN f |-> f[k]]

\* The pointer that is missing is no function.
NoDataIsNone == \A f : IsFunction(f) => f # NoData

\* What is in x is of its _type.
Sound(x) ==
  /\ x[1] = "array" => x[2] \in Seq(Range(x[2]))
  /\ x[1] = "object" => IsFunction(x[2])

Deepest(x) == Nested(x)[MaxDepth + 1]

\* x fits, and is sound to the last member.
Fine(x) == Deepest(x) = {} /\ \A d \in 0..MaxDepth : \A y \in Nested(x)[d] : Sound(y)

LEMMA MembersFit ==
  ASSUME NEW x, Deepest(x) = {}, NEW m \in Members(x)
  PROVE  Deepest(m) = {} /\ Nested(m)[MaxDepth] = {}
<1>1. MaxDepth \in 0..MaxDepth  BY JsonAssumption
<1>2. Nested(m)[MaxDepth] = {}  BY <1>1, NestedInMembers DEF Deepest
<1>3. Deepest(m) = Below(Nested(m)[MaxDepth])  BY <1>1, NestedIs DEF Deepest
<1>. QED  BY <1>2, <1>3 DEF Below

LEMMA FineMembers ==
  ASSUME NEW x, Fine(x), NEW m \in Members(x)
  PROVE  Fine(m)
<1>1. Deepest(m) = {} /\ Nested(m)[MaxDepth] = {}  BY MembersFit DEF Fine
<1>2. ASSUME NEW d \in 0..MaxDepth, NEW y \in Nested(m)[d] PROVE Sound(y)
  <2>1. MaxDepth \in Nat /\ d # MaxDepth  BY <1>1, <1>2, JsonAssumption
  <2>2. d + 1 \in 0..MaxDepth  BY <2>1
  <2>3. y \in Nested(x)[d + 1]  BY <1>2, NestedInMembers
  <2>. QED  BY <2>2, <2>3 DEF Fine
<1>. QED  BY <1>1, <1>2 DEF Fine

LEMMA FineFromMembers ==
  ASSUME NEW x, Deepest(x) = {}, Sound(x), \A m \in Members(x) : Fine(m)
  PROVE  Fine(x)
<1>1. ASSUME NEW d \in 0..MaxDepth, NEW y \in Nested(x)[d] PROVE Sound(y)
  <2>0. MaxDepth \in Nat  BY JsonAssumption
  <2>1. CASE d = 0
    <3>1. y = x  BY <1>1, <2>1, NestedIs
    <3>. QED  BY <3>1
  <2>2. CASE d # 0
    <3>1. d - 1 \in 0..MaxDepth /\ d - 1 + 1 = d  BY <2>0, <2>2
    <3>2. Nested(x)[d] = UNION {Nested(m)[d - 1] : m \in Members(x)}
      BY <3>1, NestedInMembers
    <3>3. PICK m \in Members(x) : y \in Nested(m)[d - 1]  BY <1>1, <3>2
    <3>. QED  BY <3>1, <3>3 DEF Fine
  <2>. QED  BY <2>1, <2>2
<1>. QED  BY <1>1 DEF Fine

\* A value without members.
LEMMA FineLeaf ==
  ASSUME NEW x, x[1] \notin Containers
  PROVE  Fine(x)
<1>1. Members(x) = {}  BY DEF Members
<1>2. MaxDepth \in 0..MaxDepth  BY JsonAssumption
<1>3. Deepest(x) = UNION {Nested(m)[MaxDepth] : m \in Members(x)}
  BY <1>2, NestedInMembers DEF Deepest
<1>4. Deepest(x) = {}  BY <1>1, <1>3
<1>5. Sound(x)  BY DEF Sound, Containers
<1>. QED  BY <1>1, <1>4, <1>5, FineFromMembers

LEMMA FineObject ==
  ASSUME NEW f, IsFunction(f), \A k \in DOMAIN f : Fine(f[k]), Deepest(<<"object", f>>) = {}
  PROVE  Fine(<<"object", f>>)
<1>1. Sound(<<"object", f>>)  BY DEF Sound
<1>2. \A m \in Members(<<"object", f>>) : Fine(m)  BY DEF Members, Range
<1>. QED  BY <1>1, <1>2, FineFromMembers

LEMMA FineArray ==
  ASSUME NEW s, s \in Seq(Range(s)), \A k \in DOMAIN s : Fine(s[k]), Deepest(<<"array", s>>) = {}
  PROVE  Fine(<<"array", s>>)
<1>1. Sound(<<"array", s>>)  BY DEF Sound
<1>2. \A m \in Members(<<"array", s>>) : Fine(m)  BY DEF Members, Range
<1>. QED  BY <1>1, <1>2, FineFromMembers

LEMMA SequenceOf ==
  ASSUME NEW S, NEW n \in Nat, NEW t \in [1..n -> S]
  PROVE  t \in Seq(S)
OBVIOUS

LEMMA SequencesAreFunctions ==
  ASSUME NEW s, s \in Seq(Range(s))
  PROVE  IsFunction(s)
BY DEF IsFunction

LEMMA FinePart ==
  ASSUME NoDataIsNone, NEW x, Fine(x), x[1] \in Containers, NEW k \in DOMAIN x[2]
  PROVE  Fine(x[2][k])
<1>1. Sound(x)
  <2>1. 0 \in 0..MaxDepth /\ x \in Nested(x)[0]  BY NestedIs, JsonAssumption
  <2>. QED  BY <2>1 DEF Fine
<1>2. IsFunction(x[2])  BY <1>1, SequencesAreFunctions DEF Sound, Containers
<1>3. x[2] # NoData  BY <1>2 DEF NoDataIsNone
<1>4. x[2][k] \in Members(x)  BY <1>3 DEF Members, Range
<1>. QED  BY <1>4, FineMembers

LEMMA FineAs ==
  ASSUME NEW x, Fine(x), NEW kind \in Containers
  PROVE  Fine(As(x, kind))
<1>1. CASE ~empty(x)  BY <1>1 DEF As
<1>2. CASE empty(x)
  <2>1. As(x, kind) = <<kind, <<>> >>  BY <1>2 DEF As
  <2>2. Members(<<kind, <<>> >>) = {}  BY DEF Members, Range
  <2>3. MaxDepth \in 0..MaxDepth  BY JsonAssumption
  <2>4. Deepest(<<kind, <<>> >>) = UNION {Nested(m)[MaxDepth] : m \in Members(<<kind, <<>> >>)}
    BY <2>3, NestedInMembers DEF Deepest
  <2>5. Deepest(<<kind, <<>> >>) = {}  BY <2>2, <2>4
  <2>6. <<>> \in Seq(Range(<<>>))  OBVIOUS
  <2>7. Sound(<<kind, <<>> >>)  BY <2>6, SequencesAreFunctions DEF Sound
  <2>. QED  BY <2>1, <2>2, <2>5, <2>7, FineFromMembers
<1>. QED  BY <1>1, <1>2

LEMMA FineContent ==
  ASSUME NEW x, Fine(x)
  PROVE  /\ x[1] = "array" => x[2] \in Seq(Range(x[2]))
         /\ x[1] = "object" => IsFunction(x[2])
<1>1. 0 \in 0..MaxDepth /\ x \in Nested(x)[0]  BY NestedIs, JsonAssumption
<1>2. Sound(x)  BY <1>1 DEF Fine
<1>. QED  BY <1>2 DEF Sound

\* An object with a member set.
LEMMA FineWith ==
  ASSUME NoDataIsNone, NEW now, Fine(now), now[1] = "object", NEW k, NEW item, Fine(item),
         Deepest(<<"object", With(now[2], k, item)>>) = {}
  PROVE  Fine(<<"object", With(now[2], k, item)>>)
<1>. DEFINE f == With(now[2], k, item)
<1>1. DOMAIN f = DOMAIN now[2] \cup {k}  BY DEF With
<1>2. \A i \in DOMAIN f : f[i] = IF i = k THEN item ELSE now[2][i]  BY DEF With
<1>3. IsFunction(f)  BY DEF With, IsFunction
<1>. HIDE DEF f
<1>4. \A i \in DOMAIN now[2] : Fine(now[2][i])  BY FinePart DEF Containers
<1>5. \A i \in DOMAIN f : Fine(f[i])  BY <1>1, <1>2, <1>4
<1>. QED  BY <1>3, <1>5, FineObject DEF f

-----------------------------------------------------------------------------
\* Whatever is not spoiled is in order.
ValueInv ==
  /\ DOMAIN val = Vars /\ IsFunction(val)
  /\ spoiled \in [Vars -> BOOLEAN]
  /\ \A x \in Vars : ~spoiled[x] => Fine(val[x])

LEMMA InitValueInv == Init => ValueInv
<1>1. Fine(Null)  BY FineLeaf DEF Null, Containers
<1>. QED  BY <1>1 DEF Init, ValueInv, IsFunction

LEMMA FineItem ==
  ASSUME ValueInv, NEW x \in Vars, NEW item \in Items(x)
  PROVE  Fine(item)
<1>1. CASE item \in Leaves  BY <1>1, JsonAssumption, FineLeaf
<1>2. CASE item \notin Leaves
  <2>1. PICK y \in Vars : ~spoiled[y] /\ item = val[y]  BY <1>2 DEF Items
  <2>. QED  BY <2>1 DEF ValueInv
<1>. QED  BY <1>1, <1>2

LEMMA ResultInv ==
  ASSUME ValueInv, NEW new, NEW what, Result(new, what),
         DOMAIN new = Vars, IsFunction(new), spoiled' \in [Vars -> BOOLEAN],
         \A x \in Vars : ~spoiled'[x] /\ Deepest(new[x]) = {} => Fine(new[x])
  PROVE  ValueInv'
<1>1. val' = new /\ \A x \in Vars : Deepest(new[x]) = {}  BY DEF Result, Fits, Deepest
<1>. QED  BY <1>1 DEF ValueInv

\* Only x changes, to something that is in order if it fits.
LEMMA OneInv ==
  ASSUME ValueInv, NEW x \in Vars, NEW new, NEW what, Result([val EXCEPT ![x] = new], what),
         spoiled' \in [Vars -> BOOLEAN], \A y \in Vars \ {x} : spoiled'[y] = spoiled[y],
         ~spoiled'[x] /\ Deepest(new) = {} => Fine(new)
  PROVE  ValueInv'
<1>. DEFINE all == [val EXCEPT ![x] = new]
<1>1. DOMAIN all = Vars /\ IsFunction(all)  BY DEF ValueInv, IsFunction
<1>2. \A y \in Vars : all[y] = IF y = x THEN new ELSE val[y]  BY DEF ValueInv
<1>. HIDE DEF all
<1>3. \A y \in Vars : ~spoiled'[y] /\ Deepest(all[y]) = {} => Fine(all[y])
  BY <1>2 DEF ValueInv
<1>. QED  BY <1>1, <1>3, ResultInv DEF all

LEMMA SameInv ==
  ASSUME ValueInv, NEW what, Result(val, what), UNCHANGED spoiled
  PROVE  ValueInv'
BY DEF ValueInv, Result

LEMMA EndedInv ==
  ASSUME ValueInv, NEW x \in Vars, NEW kind, NEW now, NEW new, Ended(x, kind, now, new),
         UNCHANGED spoiled,
         now[1] = kind /\ Deepest(new) = {} => Fine(new)
  PROVE  ValueInv'
<1>1. CASE now[1] = kind
  <2>1. Result([val EXCEPT ![x] = new], "done")  BY <1>1 DEF Ended
  <2>. QED  BY <1>1, <2>1, OneInv DEF ValueInv
<1>2. CASE now[1] # kind
  <2>1. Result(val, "threw")  BY <1>2 DEF Ended
  <2>. QED  BY <2>1, SameInv
<1>. QED  BY <1>1, <1>2

LEMMA IndexInv ==
  ASSUME NoDataIsNone, ValueInv, NEW x \in Vars, NEW k, Index(x, k)
  PROVE  ValueInv'
<1>. DEFINE now == As(val[x], "object")
            new == <<"object", IF k \in DOMAIN now[2] THEN now[2] ELSE With(now[2], k, Null)>>
<1>1. Fine(now)  BY FineAs DEF Index, ValueInv, Containers
<1>2. Ended(x, "object", now, new) /\ UNCHANGED spoiled  BY DEF Index
<1>. HIDE DEF now
<1>3. ASSUME now[1] = "object", Deepest(new) = {} PROVE Fine(new)
  <2>1. CASE k \in DOMAIN now[2]
    <3>1. \A i \in DOMAIN now[2] : Fine(now[2][i])  BY <1>1, <1>3, FinePart DEF Containers
    <3>2. new = <<"object", now[2]>>  BY <2>1
    <3>3. IsFunction(now[2])  BY <1>1, <1>3, FineContent
    <3>. QED  BY <1>3, <3>1, <3>2, <3>3, FineObject
  <2>2. CASE k \notin DOMAIN now[2]
    <3>1. Fine(Null)  BY FineLeaf DEF Null, Containers
    <3>2. new = <<"object", With(now[2], k, Null)>>  BY <2>2
    <3>. QED  BY <1>1, <1>3, <3>1, <3>2, FineWith
  <2>. QED  BY <2>1, <2>2
<1>. HIDE DEF new
<1>. QED  BY <1>2, <1>3, EndedInv

LEMMA SetKeyInv ==
  ASSUME NoDataIsNone, ValueInv, NEW x \in Vars, NEW k, NEW item, Fine(item), SetKey(x, k, item)
  PROVE  ValueInv'
<1>. DEFINE now == As(val[x], "object")
            new == <<"object", With(now[2], k, item)>>
<1>1. Fine(now)  BY FineAs DEF SetKey, ValueInv, Containers
<1>2. Ended(x, "object", now, new) /\ UNCHANGED spoiled  BY DEF SetKey
<1>. HIDE DEF now
<1>3. now[1] = "object" /\ Deepest(new) = {} => Fine(new)  BY <1>1, FineWith
<1>. HIDE DEF new
<1>. QED  BY <1>2, <1>3, EndedInv

\* The copy of the member is one without the data, or the member that was there.
LEMMA SetSelfInv ==
  ASSUME NoDataIsNone, ValueInv, NEW x \in Vars, NEW k, SetSelf(x, k)
  PROVE  ValueInv'
<1>. DEFINE now   == As(val[x], "object")
            copy  == IF k \in DOMAIN now[2] /\ now[2][k][1] = "object"
                     THEN now[2][k] ELSE <<"object", NoData>>
            inner == <<"object", With(now[2], k, copy)>>
            new   == <<"object", With(now[2], k, inner)>>
<1>1. Fine(now)  BY FineAs DEF SetSelf, ValueInv, Containers
<1>2. /\ Ended(x, "object", now, new)
      /\ spoiled' = [spoiled EXCEPT ![x] = now[1] = "object" /\ ~Whole(copy)]
  BY DEF SetSelf
<1>. HIDE DEF now
<1>3. ASSUME now[1] = "object", Whole(copy) PROVE Fine(copy)
  <2>1. 0 \in 0..MaxDepth /\ copy \in Nested(copy)[0]  BY NestedIs, JsonAssumption
  <2>2. copy # <<"object", NoData>>  BY <1>3, <2>1 DEF Whole, Containers
  <2>3. k \in DOMAIN now[2] /\ copy = now[2][k]  BY <2>2
  <2>. QED  BY <1>1, <1>3, <2>3, FinePart DEF Containers
<1>. HIDE DEF copy
<1>4. ASSUME now[1] = "object", Whole(copy), Deepest(new) = {} PROVE Fine(new)
  <2>1. inner \in Members(new)
    <3>. DEFINE f == With(now[2], k, inner)
    <3>1. k \in DOMAIN f /\ f[k] = inner /\ IsFunction(f)  BY DEF With, IsFunction
    <3>. HIDE DEF f
    <3>2. f # NoData  BY <3>1 DEF NoDataIsNone
    <3>. QED  BY <3>1, <3>2 DEF Members, Range, Containers, f
  <2>2. Deepest(inner) = {}  BY <1>4, <2>1, MembersFit
  <2>3. Fine(inner)  BY <1>1, <1>3, <1>4, <2>2, FineWith
  <2>. HIDE DEF inner
  <2>. QED  BY <1>1, <1>4, <2>3, FineWith
<1>. HIDE DEF new
<1>5. CASE now[1] = "object"
  <2>1. Result([val EXCEPT ![x] = new], "done")  BY <1>2, <1>5 DEF Ended
  <2>2. /\ spoiled' \in [Vars -> BOOLEAN] /\ \A y \in Vars \ {x} : spoiled'[y] = spoiled[y]
        /\ ~spoiled'[x] => Whole(copy)
    BY <1>2, <1>5 DEF ValueInv
  <2>. QED  BY <1>4, <1>5, <2>1, <2>2, OneInv
<1>6. CASE now[1] # "object"
  <2>1. Result(val, "threw")  BY <1>2, <1>6 DEF Ended
  <2>2. spoiled' = spoiled
    <3>1. ~spoiled[x]  BY DEF SetSelf
    <3>. QED  BY <1>2, <1>6, <3>1 DEF ValueInv
  <2>. QED  BY <2>1, <2>2, SameInv
<1>. QED  BY <1>5, <1>6

LEMMA SetPosInv ==
  ASSUME NoDataIsNone, ValueInv, NEW x \in Vars, NEW pos \in 1..MaxSize, NEW item, Fine(item),
         SetPos(x, pos, item)
  PROVE  ValueInv'
<1>. DEFINE s   == val[x][2]
            new == <<"array", [s EXCEPT ![pos] = item]>>
<1>1. Fine(val[x])  BY DEF SetPos, ValueInv
<1>2. Ended(x, "array", val[x], new) /\ UNCHANGED spoiled /\ (val[x][1] = "array" => pos \in DOMAIN s)
  BY DEF SetPos
<1>3. ASSUME val[x][1] = "array", Deepest(new) = {} PROVE Fine(new)
  <2>. DEFINE t == [s EXCEPT ![pos] = item]
  <2>1. s \in Seq(Range(s)) /\ pos \in DOMAIN s  BY <1>1, <1>2, <1>3, FineContent
  <2>2. \A i \in DOMAIN s : Fine(s[i])  BY <1>1, <1>3, FinePart DEF Containers
  <2>3. DOMAIN t = DOMAIN s /\ \A i \in DOMAIN s : t[i] = IF i = pos THEN item ELSE s[i]  OBVIOUS
  <2>4. t \in Seq(Range(t))
    <3>1. \A i \in DOMAIN s : t[i] \in Range(t)  BY <2>3 DEF Range
    <3>2. DOMAIN s = 1..Len(s) /\ Len(s) \in Nat  BY <2>1
    <3>3. t \in [1..Len(s) -> Range(t)]  BY <3>1, <3>2
    <3>. HIDE DEF t
    <3>. QED  BY <3>2, <3>3, SequenceOf
  <2>. HIDE DEF t
  <2>5. \A i \in DOMAIN t : Fine(t[i])  BY <2>2, <2>3
  <2>. QED  BY <1>3, <2>4, <2>5, FineArray DEF t
<1>. HIDE DEF new
<1>. QED  BY <1>2, <1>3, EndedInv

LEMMA EmplaceInv ==
  ASSUME NoDataIsNone, ValueInv, NEW x \in Vars, NEW item, Fine(item), Emplace(x, item)
  PROVE  ValueInv'
<1>. DEFINE now == As(val[x], "array")
            new == <<"array", Append(now[2], item)>>
<1>1. Fine(now)  BY FineAs DEF Emplace, ValueInv, Containers
<1>2. Ended(x, "array", now, new) /\ UNCHANGED spoiled  BY DEF Emplace
<1>. HIDE DEF now
<1>3. ASSUME now[1] = "array", Deepest(new) = {} PROVE Fine(new)
  <2>. DEFINE s == now[2]
              t == Append(s, item)
  <2>1. s \in Seq(Range(s))  BY <1>1, <1>3, FineContent
  <2>2. \A i \in DOMAIN s : Fine(s[i])  BY <1>1, <1>3, FinePart DEF Containers
  <2>. HIDE DEF s
  <2>3. s \in Seq(Range(s) \cup {item})  BY <2>1
  <2>4. t \in Seq(Range(s) \cup {item}) /\ DOMAIN t = 1..Len(s) + 1 /\ Len(s) \in Nat  BY <2>3
  <2>5. \A i \in DOMAIN t : t[i] = IF i = Len(s) + 1 THEN item ELSE s[i]  BY <2>3
  <2>6. \A i \in DOMAIN t : i # Len(s) + 1 => i \in DOMAIN s  BY <2>3, <2>4
  <2>. HIDE DEF t
  <2>7. \A i \in DOMAIN t : t[i] \in Range(t)  BY DEF Range
  <2>8. t \in Seq(Range(t))  BY <2>4, <2>7
  <2>9. \A i \in DOMAIN t : Fine(t[i])  BY <2>2, <2>5, <2>6
  <2>. QED  BY <1>3, <2>8, <2>9, FineArray DEF t, s
<1>. HIDE DEF new
<1>. QED  BY <1>2, <1>3, EndedInv

\* A sequence that shares its members with a fine array.
LEMMA FineSome ==
  ASSUME NoDataIsNone, NEW now, Fine(now), now[1] = "array",
         NEW t \in Seq(Range(now[2])), Deepest(<<"array", t>>) = {}
  PROVE  Fine(<<"array", t>>)
<1>1. \A i \in DOMAIN t : t[i] \in Range(now[2]) /\ t[i] \in Range(t)  BY DEF Range
<1>2. DOMAIN t = 1..Len(t) /\ Len(t) \in Nat  OBVIOUS
<1>3. t \in [1..Len(t) -> Range(t)]  BY <1>1, <1>2
<1>4. t \in Seq(Range(t))  BY <1>2, <1>3, SequenceOf
<1>5. \A y \in Range(now[2]) : Fine(y)  BY FinePart DEF Range, Containers
<1>. QED  BY <1>1, <1>4, <1>5, FineArray

LEMMA EraseInv ==
  ASSUME NoDataIsNone, ValueInv, NEW x \in Vars, NEW kind \in Containers, NEW k, Erase(x, kind, k),
         kind = "array" => k \in Nat
  PROVE  ValueInv'
<1>. DEFINE now == As(val[x], kind)
            new == <<kind, IF kind = "array" THEN RemoveAt(now[2], k) ELSE Without(now[2], k)>>
<1>1. Fine(now)  BY FineAs DEF Erase, ValueInv
<1>2. /\ UNCHANGED spoiled
      /\ \/ Result(val, "threw")
         \/ now[1] = kind /\ k \notin DOMAIN now[2] /\ Result([val EXCEPT ![x] = now], "false")
         \/ now[1] = kind /\ k \in DOMAIN now[2] /\ Result([val EXCEPT ![x] = new], "done")
  BY DEF Erase
<1>. HIDE DEF now
<1>3. ASSUME now[1] = kind, k \in DOMAIN now[2], Deepest(new) = {} PROVE Fine(new)
  <2>1. CASE kind = "array"
    <3>1. now[2] \in Seq(Range(now[2]))  BY <1>1, <1>3, <2>1, FineContent
    <3>2. RemoveAt(now[2], k) \in Seq(Range(now[2]))
      <4>. DEFINE s == now[2]
      <4>1. s \in Seq(Range(s)) /\ k \in 1..Len(s) /\ Len(s) \in Nat  BY <1>3, <3>1
      <4>. HIDE DEF s
      <4>2. SubSeq(s, 1, k - 1) \in Seq(Range(s))  BY <4>1
      <4>3. SubSeq(s, k + 1, Len(s)) \in Seq(Range(s))  BY <4>1
      <4>. QED  BY <4>2, <4>3 DEF s, RemoveAt
    <3>3. new = <<"array", RemoveAt(now[2], k)>>  BY <2>1
    <3>. QED  BY <1>1, <1>3, <2>1, <3>2, <3>3, FineSome
  <2>2. CASE kind = "object"
    <3>. DEFINE f == Without(now[2], k)
    <3>1. DOMAIN f = DOMAIN now[2] \ {k} /\ \A i \in DOMAIN f : f[i] = now[2][i]  BY DEF Without
    <3>2. IsFunction(f)  BY DEF Without, IsFunction
    <3>3. new = <<"object", f>>  BY <2>2
    <3>. HIDE DEF f
    <3>4. \A i \in DOMAIN f : Fine(f[i])  BY <1>1, <1>3, <2>2, <3>1, FinePart
    <3>. QED  BY <1>3, <3>2, <3>3, <3>4, FineObject
  <2>. QED  BY <2>1, <2>2 DEF Containers
<1>. HIDE DEF new
<1>. QED  BY <1>1, <1>2, <1>3, SameInv, OneInv DEF ValueInv

\* Both containers joined are of the kind.
LEMMA FineJoin ==
  ASSUME NoDataIsNone, NEW kind \in Containers, NEW a, NEW b, Fine(a), Fine(b),
         a[1] = kind, b[1] = kind, Deepest(<<kind, Join(kind, a[2], b[2])>>) = {}
  PROVE  Fine(<<kind, Join(kind, a[2], b[2])>>)
<1>1. CASE kind = "array"
  <2>. DEFINE f == a[2]
              g == b[2]
              t == f \o g
              S == Range(f) \cup Range(g)
  <2>1. f \in Seq(S) /\ g \in Seq(S)
    <3>1. f \in Seq(Range(f)) /\ g \in Seq(Range(g))  BY <1>1, FineContent
    <3>. QED  BY <3>1
  <2>2. \A y \in S : Fine(y)  BY FinePart DEF Range
  <2>3. Join(kind, a[2], b[2]) = t  BY <1>1 DEF Join
  <2>. HIDE DEF f, g, S
  <2>4. t \in Seq(S) /\ DOMAIN t = 1..Len(t) /\ Len(t) \in Nat  BY <2>1
  <2>. HIDE DEF t
  <2>5. \A i \in DOMAIN t : t[i] \in S /\ t[i] \in Range(t)  BY <2>4 DEF Range
  <2>6. t \in Seq(Range(t))
    <3>1. t \in [1..Len(t) -> Range(t)]  BY <2>4, <2>5
    <3>. QED  BY <2>4, <3>1, SequenceOf
  <2>. QED  BY <1>1, <2>2, <2>3, <2>5, <2>6, FineArray
<1>2. CASE kind = "object"
  <2>. DEFINE f == Merge(a[2], b[2])
  <2>1. DOMAIN f = DOMAIN a[2] \cup DOMAIN b[2]  BY DEF Merge
  <2>2. \A k \in DOMAIN f : f[k] = IF k \in DOMAIN b[2] THEN b[2][k] ELSE a[2][k]  BY DEF Merge
  <2>3. IsFunction(f)  BY DEF Merge, IsFunction
  <2>4. Join(kind, a[2], b[2]) = f  BY <1>2 DEF Join
  <2>. HIDE DEF f
  <2>5. \A k \in DOMAIN f : Fine(f[k])
    <3>1. \A k \in DOMAIN a[2] : Fine(a[2][k])  BY FinePart
    <3>2. \A k \in DOMAIN b[2] : Fine(b[2][k])  BY FinePart
    <3>. QED  BY <2>1, <2>2, <3>1, <3>2
  <2>. QED  BY <1>2, <2>3, <2>4, <2>5, FineObject
<1>. QED  BY <1>1, <1>2 DEF Containers

\* x and y change, each to something that is in order if it fits, or y is spoiled.
LEMMA TwoInv ==
  ASSUME ValueInv, NEW x \in Vars, NEW y \in Vars, x # y, NEW a, NEW b, NEW what,
         Result([val EXCEPT ![x] = a, ![y] = b], what),
         spoiled' \in [Vars -> BOOLEAN],
         \A z \in Vars \ {x, y} : spoiled'[z] = spoiled[z],
         Deepest(a) = {} => Fine(a),
         ~spoiled'[y] /\ Deepest(b) = {} => Fine(b)
  PROVE  ValueInv'
<1>. DEFINE all == [val EXCEPT ![x] = a, ![y] = b]
<1>1. DOMAIN all = Vars /\ IsFunction(all)  BY DEF ValueInv, IsFunction
<1>2. \A z \in Vars : all[z] = IF z = y THEN b ELSE IF z = x THEN a ELSE val[z]  BY DEF ValueInv
<1>. HIDE DEF all
<1>3. \A z \in Vars : ~spoiled'[z] /\ Deepest(all[z]) = {} => Fine(all[z])
  BY <1>2 DEF ValueInv
<1>. QED  BY <1>1, <1>3, ResultInv DEF all

LEMMA CombineInv ==
  ASSUME NoDataIsNone, ValueInv, NEW x \in Vars, NEW y \in Vars, NEW kind \in Containers,
         NEW const \in BOOLEAN, NEW move \in BOOLEAN, Combine(x, y, kind, const, move)
  PROVE  ValueInv'
<1>. DEFINE source == As(val[y], kind)
            target == IF const THEN val[x] ELSE As(val[x], kind)
            joined == <<kind, Join(kind, target[2], source[2])>>
            rest   == Rest(kind, source[2], move)
<1>1. x # y /\ Fine(source) /\ Fine(target)  BY FineAs DEF Combine, ValueInv
<1>2. \/ Result(val, "threw") /\ UNCHANGED spoiled
      \/ Result([val EXCEPT ![y] = source], "threw") /\ UNCHANGED spoiled
      \/ /\ source[1] = kind /\ target[1] = kind
         /\ Result([val EXCEPT ![x] = joined, ![y] = rest], "done")
         /\ spoiled' = [spoiled EXCEPT ![y] = move]
  BY DEF Combine
<1>. HIDE DEF source, target
<1>3. CASE Result(val, "threw") /\ UNCHANGED spoiled  BY <1>3, SameInv
<1>4. CASE Result([val EXCEPT ![y] = source], "threw") /\ UNCHANGED spoiled
  BY <1>1, <1>4, OneInv DEF ValueInv
<1>5. CASE /\ source[1] = kind /\ target[1] = kind
           /\ Result([val EXCEPT ![x] = joined, ![y] = rest], "done")
           /\ spoiled' = [spoiled EXCEPT ![y] = move]
  <2>1. Deepest(joined) = {} => Fine(joined)  BY <1>1, <1>5, FineJoin
  <2>2. ASSUME ~move, Deepest(rest) = {} PROVE Fine(rest)
    <3>1. IsFunction(source[2])
      BY <1>1, <1>5, FineContent, SequencesAreFunctions DEF Containers
    <3>2. rest = <<kind, source[2]>>  BY <2>2, <3>1 DEF Rest, IsFunction
    <3>3. \A i \in DOMAIN source[2] : Fine(source[2][i])  BY <1>1, <1>5, FinePart
    <3>4. kind = "array" => source[2] \in Seq(Range(source[2]))  BY <1>1, <1>5, FineContent
    <3>5. kind \in {"array", "object"}  BY DEF Containers
    <3>. HIDE DEF rest
    <3>. QED  BY <2>2, <3>1, <3>2, <3>3, <3>4, <3>5, FineArray, FineObject
  <2>3. /\ spoiled' \in [Vars -> BOOLEAN] /\ spoiled'[y] = move
        /\ \A z \in Vars \ {x, y} : spoiled'[z] = spoiled[z]
    BY <1>5 DEF ValueInv
  <2>. HIDE DEF joined, rest
  <2>. QED  BY <1>1, <1>5, <2>1, <2>2, <2>3, TwoInv
<1>. QED  BY <1>2, <1>3, <1>4, <1>5

LEMMA AssignInv ==
  ASSUME ValueInv, NEW x \in Vars, NEW leaf, Fine(leaf), Assign(x, leaf)
  PROVE  ValueInv'
<1>1. /\ Result([val EXCEPT ![x] = leaf], "done") /\ spoiled' \in [Vars -> BOOLEAN]
      /\ \A y \in Vars \ {x} : spoiled'[y] = spoiled[y]
  BY DEF Assign, ValueInv
<1>. QED  BY <1>1, OneInv

LEMMA CopyInv ==
  ASSUME ValueInv, NEW x \in Vars, NEW y \in Vars, Copy(x, y)
  PROVE  ValueInv'
<1>1. /\ Result([val EXCEPT ![x] = val[y]], "done") /\ spoiled' \in [Vars -> BOOLEAN]
      /\ \A z \in Vars \ {x} : spoiled'[z] = spoiled[z]
  BY DEF Copy, ValueInv
<1>2. Fine(val[y])  BY DEF Copy, ValueInv
<1>. QED  BY <1>1, <1>2, OneInv

LEMMA MoveInv ==
  ASSUME ValueInv, NEW x \in Vars, NEW y \in Vars, Move(x, y)
  PROVE  ValueInv'
<1>1. /\ x # y /\ Result([val EXCEPT ![x] = val[y], ![y] = Left(val[y])], "done")
      /\ spoiled' \in [Vars -> BOOLEAN] /\ spoiled'[y]
      /\ \A z \in Vars \ {x, y} : spoiled'[z] = spoiled[z]
  BY DEF Move, ValueInv
<1>2. Fine(val[y])  BY DEF Move, ValueInv
<1>. QED  BY <1>1, <1>2, TwoInv

LEMMA TakeInv ==
  ASSUME NoDataIsNone, ValueInv, NEW x \in Vars, NEW kind \in Containers, NEW k, Take(x, kind, k)
  PROVE  ValueInv'
<1>1. CASE val[x][1] = kind /\ k \in DOMAIN val[x][2]
  <2>1. Result([val EXCEPT ![x] = val[x][2][k]], "done") /\ UNCHANGED spoiled  BY <1>1 DEF Take
  <2>2. Fine(val[x][2][k])
    <3>1. Fine(val[x])  BY DEF Take, ValueInv
    <3>. QED  BY <1>1, <3>1, FinePart
  <2>. QED  BY <2>1, <2>2, OneInv DEF ValueInv
<1>2. CASE ~(val[x][1] = kind /\ k \in DOMAIN val[x][2])
  <2>1. Result(val, "threw") /\ UNCHANGED spoiled  BY <1>2 DEF Take
  <2>. QED  BY <2>1, SameInv
<1>. QED  BY <1>1, <1>2

LEMMA StepValueInv ==
  ASSUME NoDataIsNone, ValueInv, [Next]_vars
  PROVE  ValueInv'
<1>1. CASE UNCHANGED vars  BY <1>1 DEF vars, ValueInv
<1>2. CASE Next
  <2>0. "array" \in Containers /\ "object" \in Containers  BY DEF Containers
  <2>1. PICK x \in Vars :
          \/ \E k \in Keys : Index(x, k) \/ SetSelf(x, k) \/ Erase(x, "object", k)
                            \/ Take(x, "object", k)
          \/ \E k \in Keys, item \in Items(x) : SetKey(x, k, item)
          \/ \E pos \in 1..MaxSize : Erase(x, "array", pos) \/ Take(x, "array", pos)
          \/ \E pos \in 1..MaxSize, item \in Items(x) : SetPos(x, pos, item)
          \/ \E item \in Items(x) : Emplace(x, item)
          \/ \E leaf \in Leaves : Assign(x, leaf)
          \/ \E y \in Vars : Copy(x, y) \/ Move(x, y)
          \/ \E y \in Vars, kind \in Containers, const \in BOOLEAN, move \in BOOLEAN :
               Combine(x, y, kind, const, move)
    BY <1>2 DEF Next, EmplaceKey
  <2>2. ASSUME NEW k \in Keys, Index(x, k) \/ SetSelf(x, k) PROVE ValueInv'
    BY <2>2, IndexInv, SetSelfInv
  <2>3. ASSUME NEW k \in Keys, Erase(x, "object", k) \/ Take(x, "object", k) PROVE ValueInv'
    BY <2>0, <2>3, EraseInv, TakeInv
  <2>4. ASSUME NEW k \in Keys, NEW item \in Items(x), SetKey(x, k, item) PROVE ValueInv'
    BY <2>4, FineItem, SetKeyInv
  <2>5. ASSUME NEW pos \in 1..MaxSize, Erase(x, "array", pos) \/ Take(x, "array", pos)
        PROVE  ValueInv'
    BY <2>0, <2>5, EraseInv, TakeInv
  <2>6. ASSUME NEW pos \in 1..MaxSize, NEW item \in Items(x), SetPos(x, pos, item)
        PROVE  ValueInv'
    BY <2>6, FineItem, SetPosInv
  <2>7. ASSUME NEW item \in Items(x), Emplace(x, item) PROVE ValueInv'
    BY <2>7, FineItem, EmplaceInv
  <2>8. ASSUME NEW leaf \in Leaves, Assign(x, leaf) PROVE ValueInv'
    BY <2>8, FineLeaf, JsonAssumption, AssignInv
  <2>9. ASSUME NEW y \in Vars, Copy(x, y) \/ Move(x, y) PROVE ValueInv'
    BY <2>9, CopyInv, MoveInv
  <2>10. ASSUME NEW y \in Vars, NEW kind \in Containers, NEW const \in BOOLEAN,
                NEW move \in BOOLEAN, Combine(x, y, kind, const, move)
         PROVE  ValueInv'
    BY <2>10, CombineInv
  <2>. QED  BY <2>1, <2>2, <2>3, <2>4, <2>5, <2>6, <2>7, <2>8, <2>9, <2>10
<1>. QED  BY <1>1, <1>2

\* The inductive invariant: what is in a variable that is not spoiled fits, and is of
\* the type it says it is, to the last member.
THEOREM ValuesInOrder ==
  ASSUME NoDataIsNone
  PROVE  Spec => []ValueInv
<1>1. ValueInv /\ [Next]_vars => ValueInv'  BY StepValueInv
<1>. QED  BY <1>1, InitValueInv, PTL DEF Spec

\* No operation on values that are not spoiled makes one with a missing pointer in it.
THEOREM WholeUnlessSpoiledAlways ==
  ASSUME NoDataIsNone
  PROVE  Spec => []WholeUnlessSpoiled
<1>1. ASSUME NEW x, Fine(x) PROVE Whole(x)
  <2>1. ASSUME NEW d \in 0..MaxDepth, NEW y \in Nested(x)[d], y[1] \in Containers
        PROVE  y[2] # NoData
    <3>1. Sound(y)  BY <1>1, <2>1 DEF Fine
    <3>2. IsFunction(y[2])  BY <2>1, <3>1, SequencesAreFunctions DEF Sound, Containers
    <3>. QED  BY <3>2 DEF NoDataIsNone
  <2>. QED  BY <2>1 DEF Whole
<1>2. ValueInv => WholeUnlessSpoiled  BY <1>1 DEF ValueInv, WholeUnlessSpoiled
<1>. QED  BY <1>2, ValuesInOrder, PTL

-----------------------------------------------------------------------------
\* What an operation changes though it fails.
Kept == \A x \in Vars : val'[x] = val[x] \/ (empty(val[x]) /\ empty(val'[x]))

LEMMA ConvertedKept ==
  ASSUME DOMAIN val = Vars, IsFunction(val), NEW x \in Vars, NEW kind \in Containers,
         val' = [val EXCEPT ![x] = As(val[x], kind)]
  PROVE  Kept
<1>1. empty(<<kind, <<>> >>)  BY DEF empty, Containers
<1>2. As(val[x], kind) = val[x] \/ (empty(val[x]) /\ empty(As(val[x], kind)))  BY <1>1 DEF As
<1>3. \A y \in Vars : val'[y] = IF y = x THEN As(val[x], kind) ELSE val[y]  OBVIOUS
<1>. QED  BY <1>2, <1>3 DEF Kept

LEMMA EndedKept ==
  ASSUME NEW x, NEW kind, NEW now, NEW new, Ended(x, kind, now, new), outcome' # "done"
  PROVE  val' = val
BY DEF Ended, Result

LEMMA StepKept ==
  ASSUME DOMAIN val = Vars, IsFunction(val), Next, outcome' # "done"
  PROVE  Kept
<1>1. val' = val => Kept  BY DEF Kept
<1>2. "array" \in Containers /\ "object" \in Containers  BY DEF Containers
<1>3. ASSUME NEW x, NEW k, NEW item, Index(x, k) \/ SetKey(x, k, item) \/ SetSelf(x, k)
                                     \/ SetPos(x, k, item) \/ Emplace(x, item)
      PROVE  val' = val
  BY <1>3, EndedKept DEF Index, SetKey, SetSelf, SetPos, Emplace
<1>4. ASSUME NEW x \in Vars, NEW kind \in Containers, NEW k, Erase(x, kind, k) PROVE Kept
  <2>1. val' = val \/ val' = [val EXCEPT ![x] = As(val[x], kind)]  BY <1>4 DEF Erase, Result
  <2>. QED  BY <1>1, <2>1, ConvertedKept
<1>5. ASSUME NEW x \in Vars, NEW y \in Vars, NEW kind \in Containers, NEW const, NEW move,
             Combine(x, y, kind, const, move)
      PROVE  Kept
  <2>1. val' = val \/ val' = [val EXCEPT ![y] = As(val[y], kind)]  BY <1>5 DEF Combine, Result
  <2>. QED  BY <1>1, <2>1, ConvertedKept
<1>6. ASSUME NEW x, NEW y, Assign(x, y) \/ Copy(x, y) \/ Move(x, y) PROVE FALSE
  BY <1>6 DEF Assign, Copy, Move, Result
<1>7. ASSUME NEW x, NEW kind, NEW k, Take(x, kind, k) PROVE val' = val
  BY <1>7 DEF Take, Result
<1>. QED  BY <1>1, <1>2, <1>3, <1>4, <1>5, <1>6, <1>7 DEF Next, EmplaceKey

\* An operation that throws, or returns false, changes at most one empty value into
\* another: whatever it had begun to convert.
THEOREM FailureLosesNothingAlways ==
  ASSUME NoDataIsNone
  PROVE  Spec => FailureLosesNothing
<1>1. ValueInv /\ [Next]_vars =>
        [outcome' # "done" =>
           \A x \in Vars : val'[x] = val[x] \/ (empty(val[x]) /\ empty(val'[x]))]_vars
  BY StepKept DEF ValueInv, Kept
<1>. QED  BY <1>1, ValuesInOrder, PTL DEF Spec, FailureLosesNothing
=============================================================================
