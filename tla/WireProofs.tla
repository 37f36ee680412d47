----------------------------- MODULE WireProofs -----------------------------
(***************************************************************************)
(* The theorems of Codec, of Container and of Wire, which composes them.    *)
(***************************************************************************)
EXTENDS Wire, SeqLemmas, FiniteSetTheorems

-----------------------------------------------------------------------------
(***************************************************************************)
(* That the readers of Codec read back what its writers write, for any      *)
(* number of messages and keys, and take none for another kind.             *)
(*                                                                         *)
(* The argument: the place where a reader looks for its i-th item is the     *)
(* width of the types before it (Places), which is where a writer put an     *)
(* item when the items before it have those types (ReadBack); and an item    *)
(* of another type at that place is refused (ReadRefused).                  *)
(***************************************************************************)

TypeNames == {"u64", "scalar", "point"}
Tags == {"number", "c", "s_hat", "m_hat", "challenge", "key", "A", "e", "bbs",
         "commitment", "pk_tilde", "r_key", "k_hat"}
Names == Seq((Tags \X Int) \cup (Tags \X Int \X Int))
Items == [type : TypeNames, name : Names]
AllUnits == Items \X (1 .. 6)

Types(items) == [i \in DOMAIN items |-> items[i].type]

\* The units that items of these types take.
Width(types) ==
  FlattenSeq([i \in DOMAIN types |-> [j \in 1 .. UnitsOf(types[i]) |-> 0]])

WidthOf(types) == Len(Width(types))

LEMMA UnitsFacts ==
  ASSUME NEW x \in Items
  PROVE  /\ Units(x) \in Seq(AllUnits)
         /\ Len(Units(x)) = UnitsOf(x.type)
         /\ Units(x)[1] = <<x, 1>>
         /\ UnitsOf(x.type) \in 1 .. 6
  <1>1. UnitsOf(x.type) \in 1 .. 6
    BY DEF UnitsOf
  <1>2. Units(x) \in [1 .. UnitsOf(x.type) -> AllUnits]
    BY <1>1 DEF Units, AllUnits
  <1> QED BY <1>1, <1>2 DEF Units

\* A sequence mapped over one that is joined or extended.
LEMMA UnitsOfConcat ==
  ASSUME NEW a \in Seq(Items), NEW b \in Seq(Items)
  PROVE  [i \in DOMAIN (a \o b) |-> Units((a \o b)[i])]
           = [i \in DOMAIN a |-> Units(a[i])] \o [i \in DOMAIN b |-> Units(b[i])]
  <1> DEFINE u == [i \in DOMAIN a |-> Units(a[i])]
             v == [i \in DOMAIN b |-> Units(b[i])]
             w == [i \in DOMAIN (a \o b) |-> Units((a \o b)[i])]
             S == Seq(AllUnits)
  <1>1. /\ a \o b \in Seq(Items) /\ Len(a \o b) = Len(a) + Len(b)
        /\ Len(a) \in Nat /\ Len(b) \in Nat
        /\ DOMAIN a = 1 .. Len(a) /\ DOMAIN b = 1 .. Len(b)
        /\ DOMAIN (a \o b) = 1 .. Len(a) + Len(b)
    BY ConcatProperties, LenProperties
  <1>2. /\ u \in Seq(S) /\ Len(u) = Len(a)
        /\ v \in Seq(S) /\ Len(v) = Len(b)
        /\ w \in Seq(S) /\ Len(w) = Len(a) + Len(b)
    BY <1>1, UnitsFacts, ElementOfSeq
  <1>3. \A i \in 1 .. Len(a) + Len(b) :
          (a \o b)[i] = IF i <= Len(a) THEN a[i] ELSE b[i - Len(a)]
    BY ConcatProperties
  <1>4. u \o v \in Seq(S) /\ Len(u \o v) = Len(a) + Len(b)
    <2> HIDE DEF u, v, w, S
    <2> QED BY <1>2, ConcatProperties
  <1>5. \A i \in 1 .. Len(a) + Len(b) :
          (u \o v)[i] = IF i <= Len(a) THEN u[i] ELSE v[i - Len(a)]
    <2> HIDE DEF u, v, w, S
    <2> QED BY <1>2, ConcatProperties
  <1>6. ASSUME NEW i \in 1 .. Len(a) + Len(b) PROVE w[i] = (u \o v)[i]
    <2>1. CASE i <= Len(a)
      <3>1. i \in 1 .. Len(a)
        BY <1>1, <2>1
      <3>2. w[i] = Units(a[i])
        BY <1>1, <1>3, <2>1
      <3>3. u[i] = Units(a[i])
        BY <1>1, <3>1
      <3> HIDE DEF u, v, w
      <3> QED BY <1>5, <2>1, <3>2, <3>3
    <2>2. CASE i > Len(a)
      <3>1. i - Len(a) \in 1 .. Len(b) /\ ~ (i <= Len(a))
        BY <1>1, <2>2
      <3>2. w[i] = Units(b[i - Len(a)])
        BY <1>1, <1>3, <3>1
      <3>3. v[i - Len(a)] = Units(b[i - Len(a)])
        BY <1>1, <3>1
      <3> HIDE DEF u, v, w
      <3> QED BY <1>5, <3>1, <3>2, <3>3
    <2> QED BY <1>1, <2>1, <2>2
  <1> HIDE DEF u, v, w, S
  <1>7. w = u \o v
    BY <1>2, <1>4, <1>6, SeqEqual
  <1> QED BY <1>7 DEF u, v, w

LEMMA MappedUnits ==
  ASSUME NEW a \in Seq(Items)
  PROVE  [i \in DOMAIN a |-> Units(a[i])] \in Seq(Seq(AllUnits))
  BY UnitsFacts, ElementOfSeq, LenProperties, SMTT(30)

LEMMA SerializeType ==
  ASSUME NEW a \in Seq(Items)
  PROVE  serialize(a) \in Seq(AllUnits)
  BY MappedUnits, FlattenType DEF serialize

LEMMA SerializeConcat ==
  ASSUME NEW a \in Seq(Items), NEW b \in Seq(Items)
  PROVE  serialize(a \o b) = serialize(a) \o serialize(b)
  BY MappedUnits, UnitsOfConcat, FlattenConcat DEF serialize

LEMMA SerializeOne ==
  ASSUME NEW x \in Items
  PROVE  serialize(<<x>>) = Units(x)
  <1>1. [i \in DOMAIN <<x>> |-> Units(<<x>>[i])] = <<Units(x)>>
    OBVIOUS
  <1> QED BY <1>1, UnitsFacts, FlattenOne DEF serialize

LEMMA SerializeEmpty == serialize(<<>>) = <<>>
  <1>1. [i \in DOMAIN <<>> |-> Units(<<>>[i])] = <<>>
    OBVIOUS
  <1> QED BY <1>1, FlattenEmpty DEF serialize

-----------------------------------------------------------------------------
(* Widths.                                                                 *)

Zeros(n) == [j \in 1 .. n |-> 0]

LEMMA WidthIsFlatten ==
  ASSUME NEW t \in Seq(TypeNames)
  PROVE  /\ [i \in DOMAIN t |-> [j \in 1 .. UnitsOf(t[i]) |-> 0]] \in Seq(Seq({0}))
         /\ WidthOf(t) \in Nat
  <1> DEFINE z == [i \in DOMAIN t |-> [j \in 1 .. UnitsOf(t[i]) |-> 0]]
  <1>1. \A i \in DOMAIN t : UnitsOf(t[i]) \in Nat
    BY DEF UnitsOf
  <1>2. \A i \in DOMAIN t : z[i] \in Seq({0})
    BY <1>1
  <1>3. z \in Seq(Seq({0}))
    BY <1>2, LenProperties
  <1>4. FlattenSeq(z) \in Seq({0})
    <2> HIDE DEF z
    <2> QED BY <1>3, FlattenType
  <1> QED BY <1>3, <1>4, LenProperties DEF WidthOf, Width

LEMMA WidthEmpty == WidthOf(<<>>) = 0
  <1>1. [i \in DOMAIN <<>> |-> [j \in 1 .. UnitsOf(<<>>[i]) |-> 0]] = <<>>
    OBVIOUS
  <1> QED BY <1>1, FlattenEmpty DEF WidthOf, Width

LEMMA WidthAppend ==
  ASSUME NEW t \in Seq(TypeNames), NEW e \in TypeNames
  PROVE  WidthOf(Append(t, e)) = WidthOf(t) + UnitsOf(e)
  <1> DEFINE z == [i \in DOMAIN t |-> [j \in 1 .. UnitsOf(t[i]) |-> 0]]
             all == Append(t, e)
             y == [i \in DOMAIN all |-> [j \in 1 .. UnitsOf(all[i]) |-> 0]]
             x == [j \in 1 .. UnitsOf(e) |-> 0]
  <1>1. x \in Seq({0}) /\ Len(x) = UnitsOf(e)
    BY DEF UnitsOf
  <1>2. z \in Seq(Seq({0})) /\ Len(z) = Len(t)
    BY WidthIsFlatten, LenProperties
  <1>3. all \in Seq(TypeNames) /\ Len(all) = Len(t) + 1
    BY AppendProperties
  <1>4. y \in Seq(Seq({0})) /\ Len(y) = Len(t) + 1
    <2>1. y \in Seq(Seq({0}))
      <3> HIDE DEF all
      <3> QED BY <1>3, WidthIsFlatten
    <2>2. DOMAIN y = 1 .. Len(t) + 1
      <3> HIDE DEF all
      <3> QED BY <1>3, LenProperties
    <2> HIDE DEF y
    <2>3. Len(y) \in Nat /\ DOMAIN y = 1 .. Len(y) /\ Len(t) \in Nat
      BY <2>1, LenProperties
    <2> QED BY <2>1, <2>2, <2>3
  <1>5. Append(z, x) \in Seq(Seq({0})) /\ Len(Append(z, x)) = Len(t) + 1
    <2> HIDE DEF z, x
    <2> QED BY <1>1, <1>2, AppendProperties
  <1>6. ASSUME NEW i \in 1 .. Len(t) + 1 PROVE y[i] = Append(z, x)[i]
    <2>1. CASE i \in 1 .. Len(t)
      <3>1. y[i] = [j \in 1 .. UnitsOf(t[i]) |-> 0]
        BY <1>3, <2>1, AppendProperties, LenProperties
      <3>2. z[i] = [j \in 1 .. UnitsOf(t[i]) |-> 0]
        BY <2>1, LenProperties
      <3>3. Append(z, x)[i] = z[i]
        <4> HIDE DEF z, x
        <4> QED BY <1>1, <1>2, <2>1, AppendProperties
      <3> QED BY <3>1, <3>2, <3>3
    <2>2. CASE i = Len(t) + 1
      <3>1. y[i] = x
        BY <1>3, <2>2, AppendProperties, LenProperties
      <3>2. Append(z, x)[i] = x
        <4> HIDE DEF z, x
        <4> QED BY <1>1, <1>2, <2>2, AppendProperties
      <3> QED BY <3>1, <3>2
    <2>3. Len(t) \in Nat
      BY LenProperties
    <2>4. i \in 1 .. Len(t) \/ i = Len(t) + 1
      BY <2>3
    <2> QED BY <2>1, <2>2, <2>4
  <1> HIDE DEF y, z, x, all
  <1>7. y = Append(z, x)
    BY <1>4, <1>5, <1>6, SeqEqual
  <1>8. FlattenSeq(y) = FlattenSeq(z) \o x
    BY <1>1, <1>2, <1>7, FlattenAppend
  <1>9. Len(FlattenSeq(y)) = Len(FlattenSeq(z)) + Len(x)
    BY <1>1, <1>2, <1>8, FlattenType, ConcatProperties, ZenonT(40)
  <1> QED BY <1>1, <1>9 DEF WidthOf, Width, y, z, all

LEMMA WidthConcat ==
  ASSUME NEW s \in Seq(TypeNames), NEW t \in Seq(TypeNames)
  PROVE  WidthOf(s \o t) = WidthOf(s) + WidthOf(t)
  <1> DEFINE T == {u \in Seq(TypeNames) : WidthOf(s \o u) = WidthOf(s) + WidthOf(u)}
  <1>1. <<>> \in T
    <2>1. s \o <<>> = s /\ <<>> \in Seq(TypeNames)
      BY EmptySeq, ConcatEmptySeq
    <2>2. WidthOf(s) \in Nat
      BY WidthIsFlatten
    <2> QED BY <2>1, <2>2, WidthEmpty
  <1>2. ASSUME NEW u \in T, NEW e \in TypeNames PROVE Append(u, e) \in T
    <2>1. s \o Append(u, e) = Append(s \o u, e)
      <3>1. Append(u, e) = u \o <<e>> /\ <<e>> \in Seq(TypeNames)
        BY AppendIsConcat
      <3>2. Append(s \o u, e) = (s \o u) \o <<e>>
        BY AppendIsConcat, ConcatProperties
      <3> QED BY <3>1, <3>2, ConcatAssociative
    <2>2. WidthOf(s \o Append(u, e)) = WidthOf(s \o u) + UnitsOf(e)
      BY <2>1, WidthAppend, ConcatProperties
    <2>3. WidthOf(Append(u, e)) = WidthOf(u) + UnitsOf(e)
      BY WidthAppend
    <2>4. /\ WidthOf(s) \in Nat /\ WidthOf(u) \in Nat /\ UnitsOf(e) \in Nat
          /\ Append(u, e) \in Seq(TypeNames)
      BY WidthIsFlatten, AppendProperties DEF UnitsOf
    <2> QED BY <2>2, <2>3, <2>4
  <1>3. T = Seq(TypeNames)
    <2> HIDE DEF T
    <2>1. T \subseteq Seq(TypeNames)
      BY DEF T
    <2> QED BY <1>1, <1>2, <2>1, SequenceInduction
  <1> QED BY <1>3

LEMMA SomeType ==
  ASSUME NEW n \in Nat, NEW e \in TypeNames
  PROVE  /\ Some(n, e) \in Seq(TypeNames)
         /\ Len(Some(n, e)) = n
         /\ DOMAIN Some(n, e) = 1 .. n
  BY DEF Some

LEMMA WidthSome ==
  ASSUME NEW n \in Nat, NEW e \in TypeNames
  PROVE  WidthOf(Some(n, e)) = n * UnitsOf(e)
  <1> DEFINE T == {m \in Nat : WidthOf(Some(m, e)) = m * UnitsOf(e)}
  <1>0. UnitsOf(e) \in Nat
    BY DEF UnitsOf
  <1>1. 0 \in T
    <2>1. Some(0, e) = <<>>
      BY DEF Some
    <2> QED BY <1>0, <2>1, WidthEmpty
  <1>2. ASSUME NEW m \in Nat, m \in T PROVE m + 1 \in T
    <2>1. Some(m + 1, e) = Append(Some(m, e), e)
      <3>1. /\ Append(Some(m, e), e) \in Seq(TypeNames)
            /\ Len(Append(Some(m, e), e)) = m + 1
            /\ \A i \in 1 .. m : Append(Some(m, e), e)[i] = Some(m, e)[i]
            /\ Append(Some(m, e), e)[m + 1] = e
        <4>1. PICK s : s = Some(m, e)
          OBVIOUS
        <4>2. s \in Seq(TypeNames) /\ Len(s) = m
          BY <4>1, SomeType
        <4> QED BY ONLY <4>1, <4>2, e \in TypeNames, AppendProperties
      <3>2. \A i \in 1 .. m + 1 : Some(m + 1, e)[i] = Append(Some(m, e), e)[i]
        BY <3>1 DEF Some
      <3>3. Some(m + 1, e) \in Seq(TypeNames) /\ Len(Some(m + 1, e)) = m + 1
        BY SomeType
      <3> QED BY <3>1, <3>2, <3>3, SeqEqual
    <2>2. WidthOf(Some(m + 1, e)) = WidthOf(Some(m, e)) + UnitsOf(e)
      BY <2>1, SomeType, WidthAppend
    <2>3. m * UnitsOf(e) + UnitsOf(e) = (m + 1) * UnitsOf(e)
      BY <1>0
    <2>4. WidthOf(Some(m, e)) = m * UnitsOf(e)
      BY <1>2
    <2> QED BY <2>2, <2>3, <2>4
  <1>3. Nat \subseteq T
    <2> HIDE DEF T
    <2> QED BY <1>1, <1>2, NumberInduction
  <1> QED BY <1>3

LEMMA TypesFacts ==
  ASSUME NEW a \in Seq(Items)
  PROVE  /\ Types(a) \in Seq(TypeNames)
         /\ Len(Types(a)) = Len(a)
         /\ DOMAIN Types(a) = 1 .. Len(a)
         /\ \A i \in 1 .. Len(a) : Types(a)[i] = a[i].type
  <1>1. ASSUME NEW i \in 1 .. Len(a) PROVE a[i].type \in TypeNames
    <2>1. a[i] \in Items
      BY ElementOfSeq
    <2> QED BY <2>1 DEF Items
  <1> QED BY <1>1, LenProperties DEF Types

LEMMA TypesConcat ==
  ASSUME NEW a \in Seq(Items), NEW b \in Seq(Items)
  PROVE  Types(a \o b) = Types(a) \o Types(b)
  <1>1. /\ a \o b \in Seq(Items) /\ Len(a \o b) = Len(a) + Len(b)
        /\ Len(a) \in Nat /\ Len(b) \in Nat
        /\ \A i \in 1 .. Len(a) + Len(b) :
             (a \o b)[i] = IF i <= Len(a) THEN a[i] ELSE b[i - Len(a)]
    BY ConcatProperties, LenProperties
  <1>2. /\ Types(a) \o Types(b) \in Seq(TypeNames)
        /\ Len(Types(a) \o Types(b)) = Len(a) + Len(b)
        /\ \A i \in 1 .. Len(a) + Len(b) : (Types(a) \o Types(b))[i] =
             IF i <= Len(a) THEN Types(a)[i] ELSE Types(b)[i - Len(a)]
    <2> DEFINE u == Types(a)
               v == Types(b)
    <2>1. u \in Seq(TypeNames) /\ v \in Seq(TypeNames) /\ Len(u) = Len(a) /\ Len(v) = Len(b)
      BY TypesFacts
    <2> HIDE DEF u, v
    <2>2. /\ u \o v \in Seq(TypeNames)
          /\ Len(u \o v) = Len(u) + Len(v)
          /\ \A i \in 1 .. Len(u) + Len(v) : (u \o v)[i] =
               IF i <= Len(u) THEN u[i] ELSE v[i - Len(u)]
      BY <2>1, ConcatProperties
    <2> QED BY <2>1, <2>2 DEF u, v
  <1>3. ASSUME NEW i \in 1 .. Len(a) + Len(b)
        PROVE  Types(a \o b)[i] = (Types(a) \o Types(b))[i]
    <2>1. Types(a \o b)[i] = (a \o b)[i].type
      BY <1>1, TypesFacts
    <2>2. CASE i <= Len(a)
      <3>1. i \in 1 .. Len(a)
        BY <1>1, <2>2
      <3> QED BY <1>1, <1>2, <2>1, <2>2, <3>1, TypesFacts
    <2>3. CASE ~ (i <= Len(a))
      <3>1. i - Len(a) \in 1 .. Len(b)
        BY <1>1, <2>3
      <3> QED BY <1>1, <1>2, <2>1, <2>3, <3>1, TypesFacts
    <2> QED BY <2>2, <2>3
  <1>4. Types(a \o b) \in Seq(TypeNames) /\ Len(Types(a \o b)) = Len(a) + Len(b)
    BY <1>1, TypesFacts
  <1> QED BY <1>2, <1>3, <1>4, SeqEqual

\* Items take the units of their types.
LEMMA SerializeLen ==
  ASSUME NEW a \in Seq(Items)
  PROVE  Len(serialize(a)) = WidthOf(Types(a))
  <1> DEFINE T == {s \in Seq(Items) : Len(serialize(s)) = WidthOf(Types(s))}
  <1>1. <<>> \in T
    <2>1. Types(<<>>) = <<>>
      BY DEF Types
    <2> QED BY <2>1, SerializeEmpty, WidthEmpty, EmptySeq
  <1>2. ASSUME NEW s \in T, NEW x \in Items PROVE Append(s, x) \in T
    <2>1. Append(s, x) = s \o <<x>> /\ <<x>> \in Seq(Items) /\ Append(s, x) \in Seq(Items)
      BY AppendIsConcat, AppendProperties
    <2>2. serialize(Append(s, x)) = serialize(s) \o Units(x)
      BY <2>1, SerializeConcat, SerializeOne
    <2>3. Len(serialize(Append(s, x))) = WidthOf(Types(s)) + UnitsOf(x.type)
      <3>1. /\ serialize(s) \in Seq(AllUnits) /\ Len(serialize(s)) = WidthOf(Types(s))
            /\ Units(x) \in Seq(AllUnits) /\ Len(Units(x)) = UnitsOf(x.type)
        BY SerializeType, UnitsFacts
      <3>2. Len(serialize(s) \o Units(x)) = Len(serialize(s)) + Len(Units(x))
        <4> DEFINE u == serialize(s)
                   v == Units(x)
        <4>1. u \in Seq(AllUnits) /\ v \in Seq(AllUnits)
          BY <3>1
        <4> HIDE DEF u, v
        <4>2. Len(u \o v) = Len(u) + Len(v)
          BY <4>1, ConcatProperties
        <4> QED BY <4>2 DEF u, v
      <3> QED BY <2>2, <3>1, <3>2
    <2>4. Types(Append(s, x)) = Append(Types(s), x.type)
      <3>1. Types(<<x>>) = <<x.type>>
        BY DEF Types
      <3>2. x.type \in TypeNames
        BY DEF Items
      <3>3. Types(Append(s, x)) = Types(s) \o Types(<<x>>)
        BY <2>1, TypesConcat
      <3>4. Types(s) \in Seq(TypeNames)
        BY TypesFacts
      <3>5. Append(Types(s), x.type) = Types(s) \o <<x.type>>
        BY <3>2, <3>4, AppendIsConcat
      <3> QED BY <3>1, <3>3, <3>5
    <2>5. x.type \in TypeNames
      BY DEF Items
    <2>6. WidthOf(Types(Append(s, x))) = WidthOf(Types(s)) + UnitsOf(x.type)
      BY <2>4, <2>5, WidthAppend, TypesFacts
    <2> QED BY <2>1, <2>3, <2>6
  <1>3. T = Seq(Items)
    <2> HIDE DEF T
    <2>1. T \subseteq Seq(Items)
      BY DEF T
    <2> QED BY <1>1, <1>2, <2>1, SequenceInduction
  <1> QED BY <1>3

-----------------------------------------------------------------------------
(* Where a reader looks.                                                   *)

IsPlace(f, at, types) ==
  f = [i \in 1 .. Len(types) + 1 |->
         IF i = 1 THEN at ELSE f[i - 1] + UnitsOf(types[i - 1])]

PlaceOf(at, types, i) == at + WidthOf(SubSeq(types, 1, i - 1))

LEMMA PrefixType ==
  ASSUME NEW S, NEW t \in Seq(S), NEW i \in 0 .. Len(t)
  PROVE  /\ SubSeq(t, 1, i) \in Seq(S)
         /\ Len(SubSeq(t, 1, i)) = i
         /\ \A j \in 1 .. i : SubSeq(t, 1, i)[j] = t[j]
  <1>1. \A j \in 1 .. i : t[j] \in S
    BY ElementOfSeq, LenProperties
  <1>2. i \in Int /\ i - 1 + 1 = i /\ (~ (1 <= i) => i = 0)
    BY LenProperties
  <1> QED BY <1>1, <1>2, SubSeqProperties

LEMMA PrefixAppend ==
  ASSUME NEW S, NEW t \in Seq(S), NEW i \in 1 .. Len(t)
  PROVE  SubSeq(t, 1, i) = Append(SubSeq(t, 1, i - 1), t[i])
  <1>1. i - 1 \in 0 .. Len(t) /\ i \in 0 .. Len(t) /\ t[i] \in S /\ (i - 1) + 1 = i
    BY LenProperties, ElementOfSeq
  <1> DEFINE u == SubSeq(t, 1, i)
             v == SubSeq(t, 1, i - 1)
  <1>2. /\ u \in Seq(S) /\ Len(u) = i /\ \A j \in 1 .. i : u[j] = t[j]
        /\ v \in Seq(S) /\ Len(v) = i - 1 /\ \A j \in 1 .. i - 1 : v[j] = t[j]
    BY <1>1, PrefixType
  <1> HIDE DEF u, v
  <1>3. /\ Append(v, t[i]) \in Seq(S) /\ Len(Append(v, t[i])) = i
        /\ \A j \in 1 .. i - 1 : Append(v, t[i])[j] = v[j]
        /\ Append(v, t[i])[i] = t[i]
    BY <1>1, <1>2, AppendProperties
  <1>4. \A j \in 1 .. i : u[j] = Append(v, t[i])[j]
    BY <1>2, <1>3
  <1>5. u = Append(v, t[i])
    BY <1>2, <1>3, <1>4, SeqEqual
  <1> QED BY <1>5 DEF u, v

LEMMA PlacesExist ==
  ASSUME NEW at \in Int, NEW types \in Seq(TypeNames)
  PROVE  IsPlace([i \in 1 .. Len(types) + 1 |-> PlaceOf(at, types, i)], at, types)
  <1> DEFINE f == [i \in 1 .. Len(types) + 1 |-> PlaceOf(at, types, i)]
  <1>1. ASSUME NEW i \in 1 .. Len(types) + 1
        PROVE  PlaceOf(at, types, i) =
                 IF i = 1 THEN at ELSE f[i - 1] + UnitsOf(types[i - 1])
    <2>1. CASE i = 1
      <3>1. SubSeq(types, 1, i - 1) = <<>>
        <4>1. i - 1 \in Int /\ 1 \in Int /\ i - 1 < 1
          BY <2>1
        <4> QED BY <4>1, SubSeqEmpty
      <3>2. PlaceOf(at, types, i) = at + 0
        BY <3>1, WidthEmpty DEF PlaceOf
      <3> QED BY <2>1, <3>2
    <2>2. CASE i # 1
      <3>1. i - 1 \in 1 .. Len(types) /\ i - 1 \in 1 .. Len(types) + 1 /\ i - 2 \in 0 .. Len(types)
            /\ (i - 1) - 1 = i - 2
        BY <2>2, LenProperties
      <3>2. SubSeq(types, 1, i - 1) = Append(SubSeq(types, 1, i - 2), types[i - 1])
        BY <3>1, PrefixAppend
      <3>3. SubSeq(types, 1, i - 2) \in Seq(TypeNames) /\ types[i - 1] \in TypeNames
        BY <3>1, PrefixType, ElementOfSeq
      <3>4. WidthOf(SubSeq(types, 1, i - 1)) =
              WidthOf(SubSeq(types, 1, i - 2)) + UnitsOf(types[i - 1])
        BY <3>2, <3>3, WidthAppend
      <3>5. f[i - 1] = at + WidthOf(SubSeq(types, 1, i - 2))
        BY <3>1 DEF PlaceOf
      <3>6. /\ WidthOf(SubSeq(types, 1, i - 2)) \in Nat /\ UnitsOf(types[i - 1]) \in Nat
        BY <3>3, WidthIsFlatten DEF UnitsOf
      <3> HIDE DEF f
      <3> QED BY <2>2, <3>4, <3>5, <3>6 DEF PlaceOf
    <2> HIDE DEF f
    <2> QED BY <2>1, <2>2
  <1> QED BY <1>1 DEF IsPlace

LEMMA PlacesUnique ==
  ASSUME NEW f, NEW g, NEW at, NEW types, Len(types) \in Nat,
         IsPlace(f, at, types), IsPlace(g, at, types)
  PROVE  f = g
  <1> DEFINE N == {j \in Nat : j <= Len(types) => f[j + 1] = g[j + 1]}
  <1>1. 0 \in N
    <2>1. 1 \in 1 .. Len(types) + 1 /\ 0 + 1 = 1
      OBVIOUS
    <2> QED BY <2>1 DEF IsPlace
  <1>2. ASSUME NEW j \in Nat, j \in N PROVE j + 1 \in N
    <2> SUFFICES ASSUME j + 1 <= Len(types) PROVE f[(j + 1) + 1] = g[(j + 1) + 1]
      OBVIOUS
    <2>1. (j + 1) + 1 \in 1 .. Len(types) + 1 /\ (j + 1) + 1 # 1 /\ ((j + 1) + 1) - 1 = j + 1
      OBVIOUS
    <2>2. f[j + 1] = g[j + 1]
      BY <1>2
    <2>3. /\ f[(j + 1) + 1] = f[j + 1] + UnitsOf(types[j + 1])
          /\ g[(j + 1) + 1] = g[j + 1] + UnitsOf(types[j + 1])
      BY <2>1 DEF IsPlace
    <2> QED BY <2>2, <2>3
  <1>3. Nat \subseteq N
    <2> HIDE DEF N
    <2> QED BY <1>1, <1>2, NumberInduction
  <1>4. ASSUME NEW i \in 1 .. Len(types) + 1 PROVE f[i] = g[i]
    <2>1. i - 1 \in Nat /\ i - 1 <= Len(types) /\ (i - 1) + 1 = i
      OBVIOUS
    <2> QED BY <1>3, <2>1
  <1>5. /\ f = [i \in 1 .. Len(types) + 1 |-> f[i]]
        /\ g = [i \in 1 .. Len(types) + 1 |-> g[i]]
    BY DEF IsPlace
  <1> QED BY <1>4, <1>5

\* ReadAll with the places put in.
LEMMA ReadAllIs ==
  ASSUME NEW at \in Int, NEW types \in Seq(TypeNames), NEW octets
  PROVE  LET item == [i \in DOMAIN types |->
                        ReadOne(octets, PlaceOf(at, types, i), types[i])]
         IN  ReadAll(octets, at, types) =
               IF \E i \in DOMAIN types : item[i] = {} THEN {}
               ELSE {[i \in DOMAIN types |-> CHOOSE x \in item[i] : TRUE]}
  <1> DEFINE f == [i \in 1 .. Len(types) + 1 |-> PlaceOf(at, types, i)]
             g == CHOOSE h : IsPlace(h, at, types)
  <1>1. IsPlace(f, at, types)
    BY PlacesExist
  <1> HIDE DEF f
  <1>2. IsPlace(g, at, types)
    BY <1>1
  <1>3. g = f
    <2> HIDE DEF g
    <2> QED BY <1>1, <1>2, PlacesUnique, LenProperties
  <1>4. ReadAll(octets, at, types) =
          LET item == [i \in DOMAIN types |-> ReadOne(octets, g[i], types[i])]
          IN  IF \E i \in DOMAIN types : item[i] = {} THEN {}
              ELSE {[i \in DOMAIN types |-> CHOOSE x \in item[i] : TRUE]}
    BY DEF ReadAll, IsPlace
  <1> HIDE DEF g
  <1>5. \A i \in DOMAIN types : f[i] = PlaceOf(at, types, i)
    BY LenProperties DEF f
  <1>6. [i \in DOMAIN types |-> ReadOne(octets, g[i], types[i])] =
          [i \in DOMAIN types |-> ReadOne(octets, PlaceOf(at, types, i), types[i])]
    BY <1>3, <1>5
  <1> DEFINE a == [i \in DOMAIN types |-> ReadOne(octets, g[i], types[i])]
             b == [i \in DOMAIN types |-> ReadOne(octets, PlaceOf(at, types, i), types[i])]
  <1>7. ReadAll(octets, at, types) =
          IF \E i \in DOMAIN types : a[i] = {} THEN {}
          ELSE {[i \in DOMAIN types |-> CHOOSE x \in a[i] : TRUE]}
    BY <1>4
  <1>8. a = b
    BY <1>6
  <1> HIDE DEF a
  <1>9. ReadAll(octets, at, types) =
          IF \E i \in DOMAIN types : b[i] = {} THEN {}
          ELSE {[i \in DOMAIN types |-> CHOOSE x \in b[i] : TRUE]}
    <2> HIDE DEF b
    <2> QED BY <1>7, <1>8
  <1> QED BY <1>9

-----------------------------------------------------------------------------
(* Reading what was written.                                               *)

LEMMA ReadOneAt ==
  ASSUME NEW a \in Seq(AllUnits), NEW b \in Seq(AllUnits),
         NEW x \in Items, x.type \in {"scalar", "point"}
  PROVE  ReadOne((a \o Units(x)) \o b, Len(a) + 1, x.type) = {x}
  <1> DEFINE u == Units(x)
             octets == (a \o u) \o b
             at == Len(a) + 1
             w == UnitsOf(x.type)
  <1>1. /\ u \in Seq(AllUnits) /\ Len(u) = w /\ u[1] = <<x, 1>>
        /\ w = IF x.type = "scalar" THEN 4 ELSE 6
    BY UnitsFacts DEF UnitsOf
  <1> HIDE DEF u
  <1>2. SubSeq(octets, at, Len(a) + w) = u
    BY <1>1, MiddlePart
  <1>3. octets[at] = <<x, 1>>
    <2>0. a \in Seq(AllUnits) /\ u \in Seq(AllUnits)
      BY <1>1
    <2>a. Len(a) \in Nat
      BY LenProperties
    <2>b. Len(a \o u) = Len(a) + Len(u) /\ a \o u \in Seq(AllUnits)
      BY ONLY <2>0, ConcatProperties
    <2>1. Len(a) \in Nat /\ Len(a \o u) = Len(a) + w /\ a \o u \in Seq(AllUnits)
      BY <1>1, <2>a, <2>b
    <2>2. octets[at] = (a \o u)[at]
      BY <1>1, <2>1, ConcatProperties
    <2>3. (a \o u)[at] = u[at - Len(a)]
      BY <1>1, <2>1, ConcatProperties
    <2>4. at - Len(a) = 1
      BY <2>1
    <2> QED BY <1>1, <2>2, <2>3, <2>4
  <1> HIDE DEF octets
  <1>4. Len(a) \in Nat
    BY LenProperties
  <1>5. CASE x.type = "scalar"
    <2>1. SubSeq(octets, at, at + 3) = u
      <3>1. at + 3 = Len(a) + w
        BY <1>1, <1>4, <1>5
      <3> QED BY <1>2, <3>1
    <2>2. ReadOne(octets, at, x.type) = scalar_from_be(octets, at)
      BY <1>5 DEF ReadOne
    <2>3. scalar_from_be(octets, at) = {x}
      BY <1>3, <1>5, <2>1 DEF scalar_from_be, u
    <2> QED BY <2>2, <2>3 DEF octets, u
  <1>6. CASE x.type = "point"
    <2>1. SubSeq(octets, at, at + 5) = u
      <3>1. at + 5 = Len(a) + w
        BY <1>1, <1>4, <1>6
      <3> QED BY <1>2, <3>1
    <2>2. ReadOne(octets, at, x.type) = octets_to_point_e1(octets, at)
      BY <1>6 DEF ReadOne
    <2>3. octets_to_point_e1(octets, at) = {x}
      BY <1>3, <1>6, <2>1 DEF octets_to_point_e1, u
    <2> QED BY <2>2, <2>3 DEF octets, u
  <1> QED BY <1>5, <1>6

\* Items taken apart at the i-th.
LEMMA AroundItem ==
  ASSUME NEW S, NEW s \in Seq(S), NEW i \in 1 .. Len(s)
  PROVE  /\ s = (SubSeq(s, 1, i - 1) \o <<s[i]>>) \o SubSeq(s, i + 1, Len(s))
         /\ SubSeq(s, 1, i - 1) \in Seq(S)
         /\ SubSeq(s, i + 1, Len(s)) \in Seq(S)
         /\ s[i] \in S
  <1>1. /\ Len(s) \in Nat /\ i - 1 \in 0 .. Len(s) /\ i \in 0 .. Len(s)
        /\ i \in i .. Len(s) /\ i \in 1 .. Len(s) /\ s[i] \in S
        /\ 1 \in 1 .. Len(s) + 1 /\ i \in 1 - 1 .. Len(s) /\ Len(s) \in i .. Len(s)
    BY LenProperties, ElementOfSeq
  <1>2. SubSeq(s, 1, i) \o SubSeq(s, i + 1, Len(s)) = SubSeq(s, 1, Len(s))
    BY <1>1, ConcatAdjacentSubSeq
  <1>3. SubSeq(s, 1, Len(s)) = s
    BY SubSeqFull
  <1>4. SubSeq(s, 1, i) = Append(SubSeq(s, 1, i - 1), s[i])
    BY PrefixAppend
  <1>5. SubSeq(s, 1, i - 1) \in Seq(S)
    BY <1>1, PrefixType
  <1>6. SubSeq(s, 1, i) = SubSeq(s, 1, i - 1) \o <<s[i]>>
    BY <1>1, <1>4, <1>5, AppendIsConcat
  <1>7. SubSeq(s, i + 1, Len(s)) \in Seq(S)
    <2>1. \A j \in i + 1 .. Len(s) : s[j] \in S
      BY <1>1, ElementOfSeq
    <2>2. i + 1 \in Int /\ Len(s) \in Int
      BY <1>1
    <2> QED BY <2>1, <2>2, SubSeqProperties
  <1> QED BY <1>1, <1>2, <1>3, <1>5, <1>6, <1>7

LEMMA TypesPrefix ==
  ASSUME NEW s \in Seq(Items), NEW i \in 0 .. Len(s)
  PROVE  Types(SubSeq(s, 1, i)) = SubSeq(Types(s), 1, i)
  <1> DEFINE p == SubSeq(s, 1, i)
             t == Types(s)
             q == SubSeq(t, 1, i)
  <1>1. p \in Seq(Items) /\ Len(p) = i /\ \A j \in 1 .. i : p[j] = s[j]
    BY PrefixType
  <1>2. t \in Seq(TypeNames) /\ Len(t) = Len(s) /\ \A j \in 1 .. Len(s) : t[j] = s[j].type
    BY TypesFacts
  <1> HIDE DEF t
  <1>3. q \in Seq(TypeNames) /\ Len(q) = i /\ \A j \in 1 .. i : q[j] = t[j]
    BY <1>2, PrefixType
  <1> HIDE DEF p, q
  <1>4. /\ Types(p) \in Seq(TypeNames) /\ Len(Types(p)) = i
        /\ \A j \in 1 .. i : Types(p)[j] = p[j].type
    BY <1>1, TypesFacts
  <1>5. \A j \in 1 .. i : j \in 1 .. Len(s)
    BY LenProperties
  <1>6. \A j \in 1 .. i : Types(p)[j] = q[j]
    BY <1>1, <1>2, <1>3, <1>4, <1>5
  <1>7. Types(p) = q
    BY <1>3, <1>4, <1>6, SeqEqual
  <1> QED BY <1>7 DEF p, q, t

\* Strings are put together with Join of SeqLemmas, opaque in what follows.
Strings == Seq(AllUnits)
ItemLists == Seq(Items)

LEMMA PairJoined ==
  ASSUME NEW a, NEW b
  PROVE  Join(<<a>>, <<b>>) = <<a, b>>
  <1> DEFINE S == {a, b}
  <1>1. <<a>> \in Seq(S) /\ <<b>> \in Seq(S) /\ <<a, b>> \in Seq(S)
    OBVIOUS
  <1>2. /\ <<a>> \o <<b>> \in Seq(S) /\ Len(<<a>> \o <<b>>) = 2
        /\ (<<a>> \o <<b>>)[1] = a /\ (<<a>> \o <<b>>)[2] = b
    BY <1>1
  <1>3. \A i \in 1 .. 2 : (<<a>> \o <<b>>)[i] = <<a, b>>[i]
    BY <1>2
  <1>4. Len(<<a, b>>) = 2
    OBVIOUS
  <1>5. <<a>> \o <<b>> = <<a, b>>
    BY <1>1, <1>2, <1>3, <1>4, SeqEqual
  <1> QED BY <1>5 DEF Join

LEMMA JoinFacts ==
  ASSUME NEW a \in Strings, NEW b \in Strings
  PROVE  /\ Join(a, b) \in Strings
         /\ Len(Join(a, b)) = Len(a) + Len(b)
         /\ Len(a) \in Nat /\ Len(b) \in Nat
  BY ConcatProperties DEF Strings, Join

LEMMA JoinAssociate ==
  ASSUME NEW a \in Strings, NEW b \in Strings, NEW c \in Strings
  PROVE  Join(Join(a, b), c) = Join(a, Join(b, c))
  BY ConcatAssociative DEF Strings, Join

LEMMA JoinEmpty ==
  ASSUME NEW a \in Strings
  PROVE  Join(a, <<>>) = a /\ Join(<<>>, a) = a /\ <<>> \in Strings /\ Len(<<>>) = 0
  BY ConcatEmptySeq, EmptySeq DEF Strings, Join

LEMMA ItemsFacts ==
  ASSUME NEW a \in ItemLists, NEW b \in ItemLists
  PROVE  /\ Join(a, b) \in ItemLists
         /\ Len(Join(a, b)) = Len(a) + Len(b)
         /\ Len(a) \in Nat /\ Len(b) \in Nat
  BY ConcatProperties DEF ItemLists, Join

LEMMA SerializeJoin ==
  ASSUME NEW a \in ItemLists, NEW b \in ItemLists
  PROVE  /\ serialize(Join(a, b)) = Join(serialize(a), serialize(b))
         /\ serialize(a) \in Strings /\ serialize(b) \in Strings
  BY SerializeConcat, SerializeType DEF ItemLists, Strings, Join

LEMMA FiveParts ==
  ASSUME NEW a \in Strings, NEW p \in Strings, NEW u \in Strings,
         NEW q \in Strings, NEW b \in Strings
  PROVE  Join(Join(a, Join(Join(p, u), q)), b) = Join(Join(Join(a, p), u), Join(q, b))
  <1>1. Join(a, p) \in Strings /\ Join(p, u) \in Strings
    BY JoinFacts
  <1>2. Join(Join(a, p), u) \in Strings
    BY <1>1, JoinFacts
  <1>3. Join(Join(a, Join(p, u)), q) = Join(a, Join(Join(p, u), q))
    BY <1>1, JoinAssociate
  <1>4. Join(Join(a, p), u) = Join(a, Join(p, u))
    BY JoinAssociate
  <1>5. Join(Join(Join(Join(a, p), u), q), b) = Join(Join(Join(a, p), u), Join(q, b))
    BY <1>2, JoinAssociate
  <1> QED BY <1>3, <1>4, <1>5

\* The units before, of and after the i-th of the items in a string.
LEMMA UnitsAround ==
  ASSUME NEW a \in Strings, NEW items \in ItemLists, NEW b \in Strings,
         NEW i \in 1 .. Len(items)
  PROVE  \E pre \in Strings, post \in Strings :
           /\ Join(Join(a, serialize(items)), b) = Join(Join(pre, Units(items[i])), post)
           /\ Len(pre) = Len(a) + WidthOf(SubSeq(Types(items), 1, i - 1))
  <1> DEFINE p == SubSeq(items, 1, i - 1)
             q == SubSeq(items, i + 1, Len(items))
             x == items[i]
             one == <<x>>
             u == Units(x)
             sp == serialize(p)
             sq == serialize(q)
  <1>1. /\ items = Join(Join(p, one), q) /\ p \in ItemLists /\ q \in ItemLists
        /\ x \in Items /\ one \in ItemLists
    <2>1. items = (p \o one) \o q /\ p \in Seq(Items) /\ q \in Seq(Items) /\ x \in Items
      BY AroundItem DEF ItemLists
    <2>2. Join(Join(p, one), q) = (p \o one) \o q
      BY DEF Join
    <2>3. one \in Seq(Items)
      <3> HIDE DEF p, q, x
      <3> QED BY <2>1
    <2> HIDE DEF p, q, x, one
    <2>4. items = Join(Join(p, one), q)
      BY <2>1, <2>2, Zenon
    <2>5. p \in ItemLists /\ q \in ItemLists /\ x \in Items /\ one \in ItemLists
      BY <2>1, <2>3 DEF ItemLists
    <2> QED BY <2>4, <2>5
  <1>2. Len(sp) = WidthOf(SubSeq(Types(items), 1, i - 1))
    <2>1. Len(sp) = WidthOf(Types(p))
      BY <1>1, SerializeLen DEF ItemLists
    <2>2. i - 1 \in 0 .. Len(items)
      BY LenProperties DEF ItemLists
    <2>3. Types(p) = SubSeq(Types(items), 1, i - 1)
      BY <2>2, TypesPrefix DEF ItemLists
    <2> QED BY <2>1, <2>3
  <1>3. u \in Strings /\ serialize(one) = u
    BY <1>1, UnitsFacts, SerializeOne DEF Strings
  <1> HIDE DEF p, q, x, one, u
  <1>4. serialize(items) = Join(Join(sp, u), sq) /\ sp \in Strings /\ sq \in Strings
    BY <1>1, <1>3, SerializeJoin, ItemsFacts
  <1> HIDE DEF sp, sq
  <1>5. Join(Join(a, serialize(items)), b) = Join(Join(Join(a, sp), u), Join(sq, b))
    BY <1>3, <1>4, FiveParts
  <1>6. /\ Join(a, sp) \in Strings /\ Len(Join(a, sp)) = Len(a) + Len(sp)
        /\ Join(sq, b) \in Strings
    BY <1>4, JoinFacts
  <1> QED BY <1>2, <1>5, <1>6 DEF x, u

\* What is read with the types of the items that are there is those items.
LEMMA ReadBack ==
  ASSUME NEW a \in Strings, NEW items \in ItemLists, NEW b \in Strings,
         \A i \in 1 .. Len(items) : items[i].type \in {"scalar", "point"}
  PROVE  ReadAll(Join(Join(a, serialize(items)), b), Len(a) + 1, Types(items)) = {items}
  <1> DEFINE octets == Join(Join(a, serialize(items)), b)
             at == Len(a) + 1
             types == Types(items)
             item == [i \in DOMAIN types |-> ReadOne(octets, PlaceOf(at, types, i), types[i])]
  <1>1. /\ types \in Seq(TypeNames) /\ DOMAIN types = 1 .. Len(items)
        /\ at \in Int /\ Len(a) \in Nat
        /\ \A i \in 1 .. Len(items) : types[i] = items[i].type /\ items[i] \in Items
    BY TypesFacts, LenProperties, ElementOfSeq DEF Strings, ItemLists
  <1>2. ASSUME NEW i \in 1 .. Len(items)
        PROVE  ReadOne(octets, PlaceOf(at, types, i), types[i]) = {items[i]}
    <2>1. PICK pre \in Strings, post \in Strings :
            /\ octets = Join(Join(pre, Units(items[i])), post)
            /\ Len(pre) = Len(a) + WidthOf(SubSeq(types, 1, i - 1))
      BY UnitsAround
    <2>2. WidthOf(SubSeq(types, 1, i - 1)) \in Nat
      <3>1. i - 1 \in 0 .. Len(types)
        BY <1>1, TypesFacts, LenProperties DEF ItemLists
      <3> HIDE DEF types
      <3> QED BY <1>1, <3>1, PrefixType, WidthIsFlatten
    <2>3. PlaceOf(at, types, i) = Len(pre) + 1
      BY <1>1, <2>1, <2>2 DEF PlaceOf
    <2>4. ReadOne(Join(Join(pre, Units(items[i])), post), Len(pre) + 1, items[i].type)
            = {items[i]}
      BY <1>1, ReadOneAt, ZenonT(40) DEF Strings, Join
    <2> HIDE DEF types, octets
    <2> QED BY <1>1, <2>1, <2>3, <2>4
  <1> HIDE DEF types, octets, at
  <1>3. \A i \in DOMAIN types : item[i] = {items[i]}
    BY <1>1, <1>2
  <1>4. ReadAll(octets, at, types) =
               IF \E i \in DOMAIN types : item[i] = {} THEN {}
               ELSE {[i \in DOMAIN types |-> CHOOSE x \in item[i] : TRUE]}
    <2>1. at \in Int /\ types \in Seq(TypeNames)
      BY <1>1
    <2> QED BY ONLY <2>1, ReadAllIs, ZenonT(40)
  <1> HIDE DEF item
  <1>5. [i \in DOMAIN types |-> CHOOSE x \in item[i] : TRUE] = items
    <2>1. \A i \in DOMAIN types : (CHOOSE x \in item[i] : TRUE) = items[i]
      BY <1>3
    <2>2. items = [i \in 1 .. Len(items) |-> items[i]]
      BY LenProperties DEF ItemLists
    <2> QED BY <1>1, <2>1, <2>2
  <1>6. ~ \E i \in DOMAIN types : item[i] = {}
    BY <1>3
  <1>7. ReadAll(octets, at, types) = {items}
    BY <1>4, <1>5, <1>6
  <1> QED BY <1>7 DEF octets, at, types

\* An item that is refused at its place refuses all of them.
LEMMA ReadRefused ==
  ASSUME NEW octets, NEW at \in Int, NEW types \in Seq(TypeNames),
         NEW n \in 1 .. Len(types),
         ReadOne(octets, PlaceOf(at, types, n), types[n]) = {}
  PROVE  ReadAll(octets, at, types) = {}
  <1> DEFINE item == [i \in DOMAIN types |-> ReadOne(octets, PlaceOf(at, types, i), types[i])]
  <1>1. n \in DOMAIN types
    BY LenProperties
  <1>2. item[n] = {}
    BY <1>1
  <1>3. ReadAll(octets, at, types) =
               IF \E i \in DOMAIN types : item[i] = {} THEN {}
               ELSE {[i \in DOMAIN types |-> CHOOSE x \in item[i] : TRUE]}
    BY ReadAllIs
  <1> HIDE DEF item
  <1> QED BY <1>1, <1>2, <1>3

-----------------------------------------------------------------------------
(* Lists of items and of types, taken apart.                               *)

TypeLists == Seq(TypeNames)

LEMMA ItemsAssociate ==
  ASSUME NEW a \in ItemLists, NEW b \in ItemLists, NEW c \in ItemLists
  PROVE  Join(Join(a, b), c) = Join(a, Join(b, c))
  BY ConcatAssociative DEF ItemLists, Join

LEMMA ItemsEmpty ==
  ASSUME NEW a \in ItemLists
  PROVE  Join(a, <<>>) = a /\ Join(<<>>, a) = a /\ <<>> \in ItemLists /\ Len(<<>>) = 0
  BY ConcatEmptySeq, EmptySeq DEF ItemLists, Join

LEMMA OneItem ==
  ASSUME NEW x \in Items
  PROVE  <<x>> \in ItemLists /\ Len(<<x>>) = 1 /\ serialize(<<x>>) = Units(x)
  BY SerializeOne DEF ItemLists

LEMMA TypesAssociate ==
  ASSUME NEW a \in TypeLists, NEW b \in TypeLists, NEW c \in TypeLists
  PROVE  Join(Join(a, b), c) = Join(a, Join(b, c))
  BY ConcatAssociative DEF TypeLists, Join

LEMMA TypeListsFacts ==
  ASSUME NEW a \in TypeLists, NEW b \in TypeLists
  PROVE  /\ Join(a, b) \in TypeLists
         /\ Len(Join(a, b)) = Len(a) + Len(b)
         /\ WidthOf(Join(a, b)) = WidthOf(a) + WidthOf(b)
         /\ Len(a) \in Nat /\ WidthOf(a) \in Nat /\ WidthOf(b) \in Nat
  <1>1. a \o b \in Seq(TypeNames) /\ Len(a \o b) = Len(a) + Len(b) /\ Len(a) \in Nat
    BY ConcatProperties DEF TypeLists
  <1>2. WidthOf(a \o b) = WidthOf(a) + WidthOf(b)
    BY WidthConcat DEF TypeLists
  <1>3. WidthOf(a) \in Nat /\ WidthOf(b) \in Nat
    BY WidthIsFlatten DEF TypeLists
  <1>4. Join(a, b) = a \o b
    BY DEF Join
  <1> QED BY <1>1, <1>2, <1>3, <1>4, Zenon DEF TypeLists

LEMMA OneType ==
  ASSUME NEW e \in TypeNames
  PROVE  <<e>> \in TypeLists /\ <<e>> = Some(1, e) /\ WidthOf(<<e>>) = UnitsOf(e)
  <1>1. <<e>> = Some(1, e)
    BY DEF Some
  <1>2. WidthOf(Some(1, e)) = 1 * UnitsOf(e)
    BY WidthSome
  <1>3. UnitsOf(e) \in Nat
    BY DEF UnitsOf
  <1> QED BY <1>1, <1>2, <1>3 DEF TypeLists

LEMMA SomeTypes ==
  ASSUME NEW n \in Nat, NEW e \in TypeNames
  PROVE  Some(n, e) \in TypeLists /\ Len(Some(n, e)) = n /\ WidthOf(Some(n, e)) = n * UnitsOf(e)
  BY SomeType, WidthSome DEF TypeLists

LEMMA SomeJoin ==
  ASSUME NEW m \in Nat, NEW n \in Nat, NEW e \in TypeNames
  PROVE  Join(Some(m, e), Some(n, e)) = Some(m + n, e)
  <1>1. /\ Some(m, e) \o Some(n, e) \in Seq(TypeNames)
        /\ Len(Some(m, e) \o Some(n, e)) = m + n
        /\ \A i \in 1 .. m + n : (Some(m, e) \o Some(n, e))[i] = e
    BY DEF Some
  <1>2. /\ Some(m + n, e) \in Seq(TypeNames) /\ Len(Some(m + n, e)) = m + n
        /\ \A i \in 1 .. m + n : Some(m + n, e)[i] = e
    BY DEF Some
  <1> QED BY <1>1, <1>2, SeqEqual DEF Join

LEMMA TypesJoin ==
  ASSUME NEW a \in ItemLists, NEW b \in ItemLists
  PROVE  /\ Types(Join(a, b)) = Join(Types(a), Types(b))
         /\ Types(a) \in TypeLists /\ Types(b) \in TypeLists
  BY TypesConcat, TypesFacts DEF ItemLists, TypeLists, Join

Part(s, i, j) == SubSeq(s, i, j)

LEMMA ItemPart ==
  ASSUME NEW a \in ItemLists, NEW b \in ItemLists, NEW c \in ItemLists,
         NEW s, s = Join(Join(a, b), c)
  PROVE  Part(s, Len(a) + 1, Len(a) + Len(b)) = b
  <1>1. a \in Seq(Items) /\ b \in Seq(Items) /\ c \in Seq(Items) /\ s = (a \o b) \o c
    BY DEF ItemLists, Join
  <1>2. SubSeq((a \o b) \o c, Len(a) + 1, Len(a) + Len(b)) = b
    BY <1>1, MiddlePart
  <1> QED BY <1>1, <1>2 DEF Part

LEMMA ItemFirst ==
  ASSUME NEW a \in ItemLists, NEW b \in ItemLists, NEW s, s = Join(a, b)
  PROVE  Part(s, 1, Len(a)) = a
  <1>1. <<>> \in Seq(Items) /\ Len(<<>>) = 0 /\ a \in Seq(Items) /\ b \in Seq(Items)
    BY EmptySeq DEF ItemLists
  <1>2. SubSeq((<<>> \o a) \o b, Len(<<>>) + 1, Len(<<>>) + Len(a)) = a
    BY <1>1, MiddlePart
  <1>3. <<>> \o a = a /\ Len(a) \in Nat
    BY <1>1, ConcatEmptySeq, LenProperties
  <1> QED BY <1>1, <1>2, <1>3 DEF Part, Join

LEMMA ItemLast ==
  ASSUME NEW a \in ItemLists, NEW b \in ItemLists, NEW s, s = Join(a, b)
  PROVE  Part(s, Len(a) + 1, Len(a) + Len(b)) = b
  <1>1. <<>> \in Seq(Items) /\ a \in Seq(Items) /\ b \in Seq(Items)
    BY EmptySeq DEF ItemLists
  <1>2. SubSeq((a \o b) \o <<>>, Len(a) + 1, Len(a) + Len(b)) = b
    BY <1>1, MiddlePart
  <1>3. (a \o b) \o <<>> = a \o b
    BY <1>1, ConcatEmptySeq, ConcatProperties
  <1> QED BY <1>2, <1>3 DEF Part, Join

LEMMA StringPart ==
  ASSUME NEW a \in Strings, NEW b \in Strings, NEW c \in Strings,
         NEW s, s = Join(Join(a, b), c)
  PROVE  Part(s, Len(a) + 1, Len(a) + Len(b)) = b
  <1>1. a \in Seq(AllUnits) /\ b \in Seq(AllUnits) /\ c \in Seq(AllUnits)
        /\ s = (a \o b) \o c
    BY DEF Strings, Join
  <1>2. SubSeq((a \o b) \o c, Len(a) + 1, Len(a) + Len(b)) = b
    BY <1>1, MiddlePart
  <1> QED BY <1>1, <1>2 DEF Part

LEMMA ItemAt ==
  ASSUME NEW a \in ItemLists, NEW e \in Items, NEW c \in ItemLists
  PROVE  Join(Join(a, <<e>>), c)[Len(a) + 1] = e
  <1>1. a \in Seq(Items) /\ <<e>> \in Seq(Items) /\ c \in Seq(Items)
    BY DEF ItemLists
  <1>2. a \o <<e>> \in Seq(Items) /\ Len(a \o <<e>>) = Len(a) + 1 /\ Len(a) \in Nat /\ Len(c) \in Nat
    BY <1>1, ConcatProperties
  <1>3. ((a \o <<e>>) \o c)[Len(a) + 1] = (a \o <<e>>)[Len(a) + 1]
    BY <1>1, <1>2, ConcatProperties
  <1>4. (a \o <<e>>)[Len(a) + 1] = e
    BY <1>1, <1>2, ConcatProperties
  <1> QED BY <1>3, <1>4 DEF Join

\* A unit of the second of two strings.
LEMMA UnitAt ==
  ASSUME NEW a \in Strings, NEW b \in Strings, NEW i \in 1 .. Len(b)
  PROVE  Join(a, b)[Len(a) + i] = b[i]
  <1>1. a \in Seq(AllUnits) /\ b \in Seq(AllUnits) /\ Len(a) \in Nat /\ Len(b) \in Nat
    BY LenProperties DEF Strings
  <1>2. Len(a) + i \in 1 .. Len(a) + Len(b) /\ ~ (Len(a) + i <= Len(a)) /\ (Len(a) + i) - Len(a) = i
    BY <1>1
  <1>3. (a \o b)[Len(a) + i] = b[(Len(a) + i) - Len(a)]
    BY <1>1, <1>2, ConcatProperties
  <1> QED BY <1>2, <1>3 DEF Join

LEMMA UnitBefore ==
  ASSUME NEW a \in Strings, NEW b \in Strings, NEW i \in 1 .. Len(a)
  PROVE  Join(a, b)[i] = a[i]
  <1>1. a \in Seq(AllUnits) /\ b \in Seq(AllUnits) /\ Len(a) \in Nat /\ Len(b) \in Nat
    BY LenProperties DEF Strings
  <1>2. i \in 1 .. Len(a) + Len(b) /\ i <= Len(a)
    BY <1>1
  <1>3. (a \o b)[i] = a[i]
    BY <1>1, <1>2, ConcatProperties
  <1> QED BY <1>3 DEF Join

-----------------------------------------------------------------------------
(* Counts.                                                                 *)

LEMMA CountItem ==
  ASSUME NEW n \in Int
  PROVE  U64(n) \in Items /\ Units(U64(n)) = <<<<U64(n), 1>>>>
         /\ U64(n).type = "u64" /\ U64(n).name[1][2] = n
  <1>1. <<<<"number", n>>>> \in Names
    <2>1. <<"number", n>> \in Tags \X Int
      BY DEF Tags
    <2> DEFINE x == <<"number", n>>
               S == (Tags \X Int) \cup (Tags \X Int \X Int)
    <2>2. x \in S
      BY <2>1
    <2> HIDE DEF x, S
    <2>3. <<x>> \in Seq(S)
      BY <2>2
    <2> QED BY <2>3 DEF Names, x, S
  <1> QED BY <1>1 DEF U64, Item, Items, TypeNames, Units, UnitsOf

Count(n) == serialize(<<U64(n)>>)

\* The counts a string starts with, read one after the other.
LEMMA CountRead ==
  ASSUME NEW a \in Strings, NEW n \in Int, NEW b \in Strings,
         NEW string, string = Join(Join(a, Count(n)), b)
  PROVE  /\ read_u64(string, Len(a) + 1) = {n}
         /\ string \in Strings
         /\ Len(string) = Len(a) + 1 + Len(b)
  <1> DEFINE u == Count(n)
             v == Join(a, u)
             octets == Join(v, b)
             at == Len(a) + 1
  <1>1. u = <<<<U64(n), 1>>>>
    BY CountItem, OneItem DEF Count
  <1>2. u \in Strings
    BY CountItem, OneItem, UnitsFacts DEF Strings, Count
  <1>3. Len(u) = 1 /\ u[1] = <<U64(n), 1>>
    BY <1>1
  <1> HIDE DEF u
  <1>4. /\ v \in Strings /\ Len(v) = Len(a) + 1
        /\ v[Len(a) + 1] = <<U64(n), 1>>
        /\ Len(a) \in Nat
    <2>1. v \in Strings /\ Len(v) = Len(a) + Len(u) /\ Len(a) \in Nat
      BY <1>2, JoinFacts
    <2>2. 1 \in 1 .. Len(u)
      BY <1>3
    <2>3. v[Len(a) + 1] = u[1]
      BY <1>2, <2>2, UnitAt
    <2> QED BY <1>3, <2>1, <2>3
  <1> HIDE DEF v
  <1>5. octets \in Strings /\ Len(octets) = Len(a) + 1 + Len(b) /\ Len(b) \in Nat
    BY <1>4, JoinFacts, ZenonT(60)
  <1>6. octets[at] = <<U64(n), 1>>
    BY <1>4, UnitBefore
  <1> HIDE DEF octets
  <1>7. read_u64(octets, at) = {n}
    <2>1. octets[at][1] = U64(n) /\ at <= Len(octets)
      BY <1>4, <1>5, <1>6
    <2> QED BY <2>1, CountItem DEF read_u64
  <1> QED BY <1>5, <1>7 DEF octets, v, u

-----------------------------------------------------------------------------
(* Strings that start with counts.                                         *)

CountedTwo(m, k, body) == Join(Join(Count(m), Count(k)), body)
CountedThree(l, n, k, body) == Join(Join(Join(Count(l), Count(n)), Count(k)), body)

LEMMA CountFacts ==
  ASSUME NEW n \in Int
  PROVE  Count(n) \in Strings /\ Len(Count(n)) = 1 /\ <<U64(n)>> \in ItemLists
  <1>1. Count(n) = <<<<U64(n), 1>>>> /\ <<U64(n)>> \in ItemLists
    BY CountItem, OneItem DEF Count
  <1>2. Count(n) \in Strings
    BY <1>1, SerializeJoin DEF Count
  <1> QED BY <1>1, <1>2

LEMMA EmptyString == <<>> \in Strings /\ Len(<<>>) = 0
  BY EmptySeq DEF Strings

\* What a reader makes of the first units of a string.
StartsWithTwo(octets, m, k) == read_u64(octets, 1) = {m} /\ read_u64(octets, 2) = {k}
StartsWithThree(octets, l, n, k) ==
  read_u64(octets, 1) = {l} /\ read_u64(octets, 2) = {n} /\ read_u64(octets, 3) = {k}

LEMMA CountsJoined ==
  ASSUME NEW l \in Int, NEW n \in Int, NEW k \in Int
  PROVE  /\ Join(Join(Count(l), Count(n)), Count(k)) \in Strings
         /\ Len(Join(Join(Count(l), Count(n)), Count(k))) = 3
  <1> DEFINE a == Count(l)
             b == Count(n)
             c == Count(k)
             ab == Join(a, b)
  <1>1. a \in Strings /\ b \in Strings /\ c \in Strings
    BY CountFacts
  <1>2. Len(a) = 1 /\ Len(b) = 1 /\ Len(c) = 1
    BY CountFacts
  <1> HIDE DEF a, b, c
  <1>3. ab \in Strings /\ Len(ab) = Len(a) + Len(b)
    BY <1>1, JoinFacts
  <1> HIDE DEF ab
  <1>4. Join(ab, c) \in Strings /\ Len(Join(ab, c)) = Len(ab) + Len(c)
    BY <1>1, <1>3, JoinFacts
  <1>5. Len(Join(ab, c)) = 3
    BY <1>2, <1>3, <1>4
  <1> QED BY <1>4, <1>5 DEF ab, a, b, c

LEMMA TwoCounts ==
  ASSUME NEW m \in Int, NEW k \in Int, NEW body \in Strings,
         NEW octets, octets = CountedTwo(m, k, body)
  PROVE  /\ octets \in Strings
         /\ Len(octets) = 2 + Len(body)
         /\ StartsWithTwo(octets, m, k)
  <1> DEFINE a == Count(m)
             b == Count(k)
  <1>1. a \in Strings /\ Len(a) = 1 /\ b \in Strings /\ Len(b) = 1
    BY CountFacts
  <1>2. octets = Join(Join(a, b), body) /\ a = Count(m) /\ b = Count(k)
    BY DEF CountedTwo
  <1> HIDE DEF a, b
  <1>3. Join(<<>>, a) = a /\ Join(b, body) \in Strings
    BY <1>1, JoinEmpty, JoinFacts
  <1>4. octets = Join(Join(<<>>, a), Join(b, body))
    BY <1>1, <1>2, <1>3, JoinAssociate
  <1>5. read_u64(octets, Len(<<>>) + 1) = {m}
    BY <1>2, <1>3, <1>4, CountRead, EmptyString
  <1>6. /\ octets \in Strings /\ read_u64(octets, Len(a) + 1) = {k}
        /\ Len(octets) = Len(a) + 1 + Len(body)
    <2>1. octets = Join(Join(a, Count(k)), body) /\ a \in Strings
      BY <1>1, <1>2
    <2> QED BY <2>1, CountRead
  <1>7. Len(body) \in Nat /\ Len(<<>>) + 1 = 1 /\ Len(a) + 1 = 2
    BY <1>1, EmptyString, LenProperties DEF Strings
  <1> QED BY <1>1, <1>5, <1>6, <1>7 DEF StartsWithTwo

LEMMA ThreeCounts ==
  ASSUME NEW l \in Int, NEW n \in Int, NEW k \in Int, NEW body \in Strings,
         NEW octets, octets = CountedThree(l, n, k, body)
  PROVE  /\ octets \in Strings
         /\ Len(octets) = 3 + Len(body)
         /\ StartsWithThree(octets, l, n, k)
  <1> DEFINE a == Count(l)
             b == Count(n)
             c == Count(k)
             ab == Join(a, b)
  <1>1. a \in Strings /\ b \in Strings /\ c \in Strings /\ Len(a) = 1 /\ Len(b) = 1
    BY CountFacts
  <1>2. octets = Join(Join(ab, c), body) /\ c = Count(k)
    BY DEF CountedThree
  <1>3. ab \in Strings /\ Len(ab) = 2 /\ Join(c, body) \in Strings
    <2> HIDE DEF a, b, c
    <2>1. Len(ab) = Len(a) + Len(b) /\ ab \in Strings
      BY <1>1, JoinFacts
    <2>2. Join(c, body) \in Strings
      BY <1>1, JoinFacts
    <2> QED BY <1>1, <2>1, <2>2
  <1>4. CountedTwo(l, n, Join(c, body)) = Join(ab, Join(c, body))
    BY DEF CountedTwo
  <1> HIDE DEF a, b, c, ab
  <1>5. octets = CountedTwo(l, n, Join(c, body))
    BY <1>1, <1>2, <1>3, <1>4, JoinAssociate
  <1>6. read_u64(octets, 1) = {l} /\ read_u64(octets, 2) = {n}
    BY <1>3, <1>5, TwoCounts DEF StartsWithTwo
  <1>7. /\ octets \in Strings /\ read_u64(octets, Len(ab) + 1) = {k}
        /\ Len(octets) = Len(ab) + 1 + Len(body)
    <2>1. octets = Join(Join(ab, Count(k)), body) /\ ab \in Strings
      BY <1>2, <1>3
    <2> QED BY <2>1, CountRead
  <1>8. Len(body) \in Nat /\ Len(ab) + 1 = 3
    BY <1>3, LenProperties DEF Strings
  <1> QED BY <1>3, <1>6, <1>7, <1>8 DEF StartsWithThree

NoCounts(items) == \A i \in 1 .. Len(items) : items[i].type \in {"scalar", "point"}

\* Items read from the place after n units.
LEMMA ReadBackAt ==
  ASSUME NEW a \in Strings, NEW items \in ItemLists, NEW b \in Strings, NoCounts(items)
  PROVE  ReadAll(Join(a, Join(serialize(items), b)), Len(a) + 1, Types(items)) = {items}
  <1>1. serialize(items) \in Strings
    BY SerializeJoin
  <1>2. Join(a, Join(serialize(items), b)) = Join(Join(a, serialize(items)), b)
    BY <1>1, JoinAssociate
  <1> QED BY <1>2, ReadBack DEF NoCounts

LEMMA ReadAfterTwo ==
  ASSUME NEW m \in Int, NEW k \in Int, NEW items \in ItemLists, NEW b \in Strings,
         NoCounts(items)
  PROVE  ReadAll(CountedTwo(m, k, Join(serialize(items), b)), 3, Types(items)) = {items}
  <1>1. Join(Count(m), Count(k)) \in Strings /\ Len(Join(Count(m), Count(k))) = 2
    <2>1. Count(m) \in Strings /\ Count(k) \in Strings /\ Len(Count(m)) = 1 /\ Len(Count(k)) = 1
      BY CountFacts
    <2>2. Len(Join(Count(m), Count(k))) = Len(Count(m)) + Len(Count(k))
      BY <2>1, JoinFacts
    <2> QED BY <2>1, <2>2, JoinFacts
  <1>2. 2 + 1 = 3
    OBVIOUS
  <1> QED BY <1>1, <1>2, ReadBackAt DEF CountedTwo

-----------------------------------------------------------------------------
(* Lists of one type.                                                      *)

PointItems == [type : {"point"}, name : Names]
ScalarItems == [type : {"scalar"}, name : Names]

LEMMA PointList ==
  ASSUME NEW s \in Seq(PointItems)
  PROVE  /\ s \in ItemLists /\ Len(s) \in Nat /\ NoCounts(s)
         /\ Types(s) = Some(Len(s), "point")
  <1>1. \A i \in 1 .. Len(s) : s[i] \in PointItems
    BY ElementOfSeq
  <1>2. \A i \in 1 .. Len(s) : s[i] \in Items /\ s[i].type = "point"
    BY <1>1 DEF PointItems, Items, TypeNames
  <1>3. DOMAIN s = 1 .. Len(s) /\ Len(s) \in Nat
    BY LenProperties
  <1>4. PointItems \subseteq Items
    BY DEF PointItems, Items, TypeNames
  <1>5. s \in ItemLists
    BY <1>4, SeqMonotonic DEF ItemLists
  <1> QED BY <1>2, <1>3, <1>5 DEF Types, Some, NoCounts

LEMMA ScalarList ==
  ASSUME NEW s \in Seq(ScalarItems)
  PROVE  /\ s \in ItemLists /\ Len(s) \in Nat /\ NoCounts(s)
         /\ Types(s) = Some(Len(s), "scalar")
  <1>1. \A i \in 1 .. Len(s) : s[i] \in ScalarItems
    BY ElementOfSeq
  <1>2. \A i \in 1 .. Len(s) : s[i] \in Items /\ s[i].type = "scalar"
    BY <1>1 DEF ScalarItems, Items, TypeNames
  <1>3. DOMAIN s = 1 .. Len(s) /\ Len(s) \in Nat
    BY LenProperties
  <1>4. ScalarItems \subseteq Items
    BY DEF ScalarItems, Items, TypeNames
  <1>5. s \in ItemLists
    BY <1>4, SeqMonotonic DEF ItemLists
  <1> QED BY <1>2, <1>3, <1>5 DEF Types, Some, NoCounts

LEMMA OnePoint ==
  ASSUME NEW x \in PointItems
  PROVE  /\ <<x>> \in ItemLists /\ Len(<<x>>) = 1 /\ NoCounts(<<x>>)
         /\ Types(<<x>>) = Some(1, "point") /\ x \in Items /\ x.type = "point"
  <1>1. <<x>> \in Seq(PointItems) /\ Len(<<x>>) = 1
    OBVIOUS
  <1> QED BY <1>1, PointList DEF PointItems, Items, TypeNames

LEMMA OneScalar ==
  ASSUME NEW x \in ScalarItems
  PROVE  /\ <<x>> \in ItemLists /\ Len(<<x>>) = 1 /\ NoCounts(<<x>>)
         /\ Types(<<x>>) = Some(1, "scalar") /\ x \in Items /\ x.type = "scalar"
  <1>1. <<x>> \in Seq(ScalarItems) /\ Len(<<x>>) = 1
    OBVIOUS
  <1> QED BY <1>1, ScalarList DEF ScalarItems, Items, TypeNames

LEMMA NoCountsJoin ==
  ASSUME NEW a \in ItemLists, NEW b \in ItemLists, NoCounts(a), NoCounts(b)
  PROVE  NoCounts(Join(a, b))
  <1>1. /\ Len(Join(a, b)) = Len(a) + Len(b) /\ Len(a) \in Nat /\ Len(b) \in Nat
        /\ \A i \in 1 .. Len(a) + Len(b) :
             Join(a, b)[i] = IF i <= Len(a) THEN a[i] ELSE b[i - Len(a)]
    BY ConcatProperties, LenProperties DEF ItemLists, Join
  <1>2. ASSUME NEW i \in 1 .. Len(a) + Len(b)
        PROVE  Join(a, b)[i].type \in {"scalar", "point"}
    <2>1. CASE i <= Len(a)
      BY <1>1, <2>1 DEF NoCounts
    <2>2. CASE ~ (i <= Len(a))
      <3>1. i - Len(a) \in 1 .. Len(b)
        BY <1>1, <2>2
      <3> QED BY <1>1, <2>2, <3>1 DEF NoCounts
    <2> QED BY <2>1, <2>2
  <1> QED BY <1>1, <1>2 DEF NoCounts

-----------------------------------------------------------------------------
(* Five lists of items, one after the other.                               *)

Five(a, b, c, d, e) == Join(Join(Join(Join(a, b), c), d), e)

LEMMA PointsAndScalars ==
  ASSUME NEW n \in Nat
  PROVE  /\ Some(n, "point") \in TypeLists /\ WidthOf(Some(n, "point")) = n * 6
         /\ Some(n, "scalar") \in TypeLists /\ WidthOf(Some(n, "scalar")) = n * 4
         /\ Some(1, "point") \in TypeLists /\ WidthOf(Some(1, "point")) = 6
         /\ Some(1, "scalar") \in TypeLists /\ WidthOf(Some(1, "scalar")) = 4
         /\ Len(Some(n, "point")) = n /\ Len(Some(n, "scalar")) = n
  <1>1. /\ "point" \in TypeNames /\ UnitsOf("point") = 6
        /\ "scalar" \in TypeNames /\ UnitsOf("scalar") = 4
        /\ 1 * 6 = 6 /\ 1 * 4 = 4
    BY DEF TypeNames, UnitsOf
  <1>2. \A j \in Nat : /\ Some(j, "point") \in TypeLists
                       /\ WidthOf(Some(j, "point")) = j * UnitsOf("point")
                       /\ Len(Some(j, "point")) = j
    BY <1>1, SomeTypes
  <1>3. \A j \in Nat : /\ Some(j, "scalar") \in TypeLists
                       /\ WidthOf(Some(j, "scalar")) = j * UnitsOf("scalar")
                       /\ Len(Some(j, "scalar")) = j
    BY <1>1, SomeTypes
  <1> QED BY <1>1, <1>2, <1>3

LEMMA FiveItems ==
  ASSUME NEW a \in ItemLists, NEW b \in ItemLists, NEW c \in ItemLists,
         NEW d \in ItemLists, NEW e \in ItemLists,
         NoCounts(a), NoCounts(b), NoCounts(c), NoCounts(d), NoCounts(e)
  PROVE  /\ Five(a, b, c, d, e) \in ItemLists
         /\ NoCounts(Five(a, b, c, d, e))
         /\ serialize(Five(a, b, c, d, e)) \in Strings
         /\ Types(Five(a, b, c, d, e))
              = Five(Types(a), Types(b), Types(c), Types(d), Types(e))
         /\ Len(serialize(Five(a, b, c, d, e)))
              = WidthOf(Types(a)) + WidthOf(Types(b)) + WidthOf(Types(c))
                  + WidthOf(Types(d)) + WidthOf(Types(e))
  <1> DEFINE ab == Join(a, b)
             abc == Join(ab, c)
             abcd == Join(abc, d)
             all == Join(abcd, e)
  <1>1. /\ ab \in ItemLists /\ NoCounts(ab) /\ Types(ab) = Join(Types(a), Types(b))
        /\ WidthOf(Types(ab)) = WidthOf(Types(a)) + WidthOf(Types(b))
    BY ItemsFacts, NoCountsJoin, TypesJoin, TypeListsFacts
  <1> HIDE DEF ab
  <1>2. /\ abc \in ItemLists /\ NoCounts(abc) /\ Types(abc) = Join(Types(ab), Types(c))
        /\ WidthOf(Types(abc)) = WidthOf(Types(ab)) + WidthOf(Types(c))
    BY <1>1, ItemsFacts, NoCountsJoin, TypesJoin, TypeListsFacts
  <1> HIDE DEF abc
  <1>3. /\ abcd \in ItemLists /\ NoCounts(abcd) /\ Types(abcd) = Join(Types(abc), Types(d))
        /\ WidthOf(Types(abcd)) = WidthOf(Types(abc)) + WidthOf(Types(d))
    BY <1>2, ItemsFacts, NoCountsJoin, TypesJoin, TypeListsFacts
  <1> HIDE DEF abcd
  <1>4. /\ all \in ItemLists /\ NoCounts(all) /\ Types(all) = Join(Types(abcd), Types(e))
        /\ WidthOf(Types(all)) = WidthOf(Types(abcd)) + WidthOf(Types(e))
    BY <1>3, ItemsFacts, NoCountsJoin, TypesJoin, TypeListsFacts
  <1>5. Five(a, b, c, d, e) = all
    BY DEF Five, ab, abc, abcd
  <1> HIDE DEF all
  <1>6. serialize(all) \in Strings /\ Len(serialize(all)) = WidthOf(Types(all))
    BY <1>4, SerializeJoin, SerializeLen DEF ItemLists
  <1>7. Types(all) = Five(Types(a), Types(b), Types(c), Types(d), Types(e))
    BY <1>1, <1>2, <1>3, <1>4 DEF Five
  <1> QED BY <1>1, <1>2, <1>3, <1>4, <1>5, <1>6, <1>7

\* Where each of the five is.
LEMMA FivePlaces ==
  ASSUME NEW a \in ItemLists, NEW b \in ItemLists, NEW c \in ItemLists,
         NEW d \in ItemLists, NEW e \in ItemLists,
         NEW s, s = Five(a, b, c, d, e)
  PROVE  /\ s \in ItemLists
         /\ Len(s) = Len(a) + Len(b) + Len(c) + Len(d) + Len(e)
         /\ Part(s, 1, Len(a)) = a
         /\ Part(s, Len(a) + 1, Len(a) + Len(b)) = b
         /\ Part(s, Len(a) + Len(b) + 1, Len(a) + Len(b) + Len(c)) = c
         /\ Part(s, Len(a) + Len(b) + Len(c) + 1, Len(a) + Len(b) + Len(c) + Len(d)) = d
         /\ Part(s, Len(a) + Len(b) + Len(c) + Len(d) + 1,
                    Len(a) + Len(b) + Len(c) + Len(d) + Len(e)) = e
  <1> DEFINE ab == Join(a, b)
             abc == Join(ab, c)
             abcd == Join(abc, d)
             de == Join(d, e)
             cde == Join(c, de)
             bcde == Join(b, cde)
  <1>1. /\ Len(a) \in Nat /\ Len(b) \in Nat /\ Len(c) \in Nat /\ Len(d) \in Nat
        /\ Len(e) \in Nat
        /\ ab \in ItemLists /\ Len(ab) = Len(a) + Len(b)
        /\ de \in ItemLists
    BY ItemsFacts
  <1>2. s = Join(Join(Join(ab, c), d), e)
    BY DEF Five
  <1> HIDE DEF ab, de
  <1>3. abc \in ItemLists /\ Len(abc) = Len(ab) + Len(c) /\ cde \in ItemLists
    BY <1>1, ItemsFacts
  <1>4. Join(Join(abc, d), e) = Join(abc, de)
    BY <1>3, ItemsAssociate DEF de
  <1>5. Join(abc, de) = Join(ab, cde)
    BY <1>1, ItemsAssociate
  <1> HIDE DEF abc, cde
  <1>6. abcd \in ItemLists /\ Len(abcd) = Len(abc) + Len(d) /\ bcde \in ItemLists
    BY <1>3, ItemsFacts
  <1>7. Join(ab, cde) = Join(a, bcde)
    BY <1>3, ItemsAssociate DEF ab
  <1> HIDE DEF abcd, bcde
  <1>8. s = Join(Join(abc, d), e)
    BY <1>2 DEF abc
  <1>9. s = Join(Join(ab, c), de)
    BY <1>4, <1>8 , <1>5 DEF abc
  <1>10. s = Join(Join(a, b), cde)
    BY <1>4, <1>5, <1>8 DEF ab
  <1>11. s = Join(a, bcde)
    BY <1>4, <1>5, <1>7, <1>8
  <1>12. s = Join(abcd, e)
    BY <1>8 DEF abcd
  <1>13. d \in ItemLists /\ e \in ItemLists /\ c \in ItemLists /\ b \in ItemLists
         /\ a \in ItemLists
    OBVIOUS
  <1>14. Part(s, Len(abc) + 1, Len(abc) + Len(d)) = d
    BY ONLY <1>3, <1>8, <1>13, ItemPart
  <1>15. Part(s, Len(ab) + 1, Len(ab) + Len(c)) = c
    BY ONLY <1>1, <1>9, <1>13, ItemPart
  <1>16. Part(s, Len(a) + 1, Len(a) + Len(b)) = b
    BY ONLY <1>3, <1>10, <1>13, ItemPart
  <1>17. Part(s, 1, Len(a)) = a
    BY ONLY <1>6, <1>11, <1>13, ItemFirst
  <1>18. Part(s, Len(abcd) + 1, Len(abcd) + Len(e)) = e
    BY ONLY <1>6, <1>12, <1>13, ItemLast
  <1>21. Len(abc) = Len(a) + Len(b) + Len(c) /\ Len(abcd) = Len(a) + Len(b) + Len(c) + Len(d)
    BY <1>1, <1>3, <1>6
  <1>22. Len(ab) = Len(a) + Len(b) /\ s \in ItemLists /\ Len(s) = Len(abcd) + Len(e)
    <2>1. s \in ItemLists /\ Len(s) = Len(abcd) + Len(e)
      BY ONLY <1>6, <1>12, <1>13, ItemsFacts
    <2> QED BY <1>1, <2>1
  <1> QED BY ONLY <1>14, <1>15, <1>16, <1>17, <1>18, <1>21, <1>22

\* Five lists after another one, joined from the left.
LEMMA FiveAfter ==
  ASSUME NEW h \in ItemLists, NEW a \in ItemLists, NEW b \in ItemLists,
         NEW c \in ItemLists, NEW d \in ItemLists, NEW e \in ItemLists
  PROVE  Join(Join(Join(Join(Join(h, a), b), c), d), e) = Join(h, Five(a, b, c, d, e))
  <1> DEFINE ab == Join(a, b)
             abc == Join(ab, c)
             abcd == Join(abc, d)
  <1>1. ab \in ItemLists /\ Join(Join(h, a), b) = Join(h, ab)
    BY ItemsFacts, ItemsAssociate
  <1>2. Five(a, b, c, d, e) = Join(abcd, e)
    BY DEF Five
  <1> HIDE DEF ab
  <1>3. abc \in ItemLists /\ Join(Join(h, ab), c) = Join(h, abc)
    BY <1>1, ItemsFacts, ItemsAssociate
  <1> HIDE DEF abc
  <1>4. abcd \in ItemLists /\ Join(Join(h, abc), d) = Join(h, abcd)
    BY <1>3, ItemsFacts, ItemsAssociate
  <1> HIDE DEF abcd
  <1>5. Join(Join(h, abcd), e) = Join(h, Join(abcd, e))
    BY <1>4, ItemsAssociate
  <1> QED BY <1>1, <1>2, <1>3, <1>4, <1>5

\* Two numbers and the items after them.
LEMMA CountedItems ==
  ASSUME NEW m \in Int, NEW k \in Int, NEW items \in ItemLists,
         NEW h, h = Join(<<U64(m)>>, <<U64(k)>>)
  PROVE  /\ h \in ItemLists
         /\ serialize(Join(h, items)) = CountedTwo(m, k, serialize(items))
  <1> DEFINE u == <<U64(m)>>
             v == <<U64(k)>>
  <1>1. u \in ItemLists /\ v \in ItemLists /\ Count(m) = serialize(u) /\ Count(k) = serialize(v)
    BY CountFacts DEF Count
  <1>2. h = Join(u, v)
    OBVIOUS
  <1> HIDE DEF u, v
  <1>3. h \in ItemLists /\ serialize(h) = Join(serialize(u), serialize(v))
    BY ONLY <1>1, <1>2, ItemsFacts, SerializeJoin
  <1>4. serialize(Join(h, items)) = Join(serialize(h), serialize(items))
    BY <1>3, SerializeJoin
  <1> QED BY <1>1, <1>3, <1>4 DEF CountedTwo

\* An item found as a part of its own.
LEMMA OnlyItem ==
  ASSUME NEW s \in ItemLists, NEW i \in 1 .. Len(s), NEW x, Part(s, i, i) = <<x>>
  PROVE  s[i] = x
  <1>1. \A j \in i .. i : s[j] \in Items
    BY ElementOfSeq DEF ItemLists
  <1>2. \A j \in 1 .. i - i + 1 : SubSeq(s, i, i)[j] = s[i + j - 1]
    BY <1>1, SubSeqProperties
  <1>3. SubSeq(s, i, i)[1] = s[i]
    BY <1>2
  <1> QED BY <1>3 DEF Part

-----------------------------------------------------------------------------
(* The state of a commitment.                                              *)

CommitmentStates ==
  [c : PointItems, s_hat : ScalarItems, m_hat : Seq(ScalarItems),
   challenge : ScalarItems, keys : Seq(PointItems)]

LEMMA CommitmentFields ==
  ASSUME NEW s \in CommitmentStates
  PROVE  /\ s.c \in PointItems /\ s.s_hat \in ScalarItems /\ s.m_hat \in Seq(ScalarItems)
         /\ s.challenge \in ScalarItems /\ s.keys \in Seq(PointItems)
         /\ s = [c |-> s.c, s_hat |-> s.s_hat, m_hat |-> s.m_hat,
                 challenge |-> s.challenge, keys |-> s.keys]
  BY DEF CommitmentStates

StateItems(s) == Five(<<s.c>>, <<s.s_hat>>, s.m_hat, <<s.challenge>>, s.keys)

StateTypes(m, k) == Join(Join(Some(1, "point"), Some(2 + m, "scalar")), Some(k, "point"))

LEMMA StateItemsFacts ==
  ASSUME NEW s \in CommitmentStates
  PROVE  /\ StateItems(s) \in ItemLists /\ NoCounts(StateItems(s))
         /\ Types(StateItems(s)) = StateTypes(Len(s.m_hat), Len(s.keys))
         /\ serialize(StateItems(s)) \in Strings
         /\ Len(serialize(StateItems(s)))
              = (1 + Len(s.keys)) * 6 + (2 + Len(s.m_hat)) * 4
         /\ Len(s.m_hat) \in Nat /\ Len(s.keys) \in Nat
  <1> DEFINE m == Len(s.m_hat)
             k == Len(s.keys)
             P(n) == Some(n, "point")
             X(n) == Some(n, "scalar")
             a == <<s.c>>
             b == <<s.s_hat>>
             c == s.m_hat
             d == <<s.challenge>>
             e == s.keys
             all == Five(a, b, c, d, e)
  <1>1. /\ a \in ItemLists /\ NoCounts(a) /\ Types(a) = P(1)
        /\ b \in ItemLists /\ NoCounts(b) /\ Types(b) = X(1)
        /\ c \in ItemLists /\ NoCounts(c) /\ Types(c) = X(m) /\ m \in Nat
        /\ d \in ItemLists /\ NoCounts(d) /\ Types(d) = X(1)
        /\ e \in ItemLists /\ NoCounts(e) /\ Types(e) = P(k) /\ k \in Nat
    BY CommitmentFields, OnePoint, OneScalar, PointList, ScalarList
  <1>2. StateItems(s) = all
    BY DEF StateItems
  <1> HIDE DEF a, b, c, d, e, m, k
  <1>3. /\ all \in ItemLists /\ NoCounts(all) /\ serialize(all) \in Strings
        /\ Types(all) = Five(P(1), X(1), X(m), X(1), P(k))
        /\ Len(serialize(all)) = 6 + 4 + m * 4 + 4 + k * 6
    <2>1. /\ WidthOf(P(1)) = 6 /\ WidthOf(X(1)) = 4 /\ WidthOf(X(m)) = m * 4
          /\ WidthOf(P(k)) = k * 6
      BY <1>1, PointsAndScalars
    <2>a. /\ a \in ItemLists /\ b \in ItemLists /\ c \in ItemLists /\ d \in ItemLists
          /\ e \in ItemLists
          /\ NoCounts(a) /\ NoCounts(b) /\ NoCounts(c) /\ NoCounts(d) /\ NoCounts(e)
      BY <1>1
    <2>2. /\ all \in ItemLists /\ NoCounts(all) /\ serialize(all) \in Strings
          /\ Types(all) = Five(Types(a), Types(b), Types(c), Types(d), Types(e))
          /\ Len(serialize(all)) = WidthOf(Types(a)) + WidthOf(Types(b)) + WidthOf(Types(c))
                  + WidthOf(Types(d)) + WidthOf(Types(e))
      BY ONLY <2>a, FiveItems
    <2> HIDE DEF all, P, X
    <2> QED BY <1>1, <2>1, <2>2
  <1> HIDE DEF all
  <1>4. /\ P(1) \in TypeLists /\ X(1) \in TypeLists /\ X(m) \in TypeLists
        /\ P(k) \in TypeLists /\ 1 + m \in Nat
    BY <1>1, PointsAndScalars
  <1>5. X(1 + m) \in TypeLists
    BY <1>4, PointsAndScalars
  <1>6. Join(Join(Join(P(1), X(1)), X(m)), X(1)) = Join(P(1), X(2 + m))
    <2>1. Join(Join(P(1), X(1)), X(m)) = Join(P(1), Join(X(1), X(m)))
      BY <1>4, TypesAssociate
    <2>2. Join(X(1), X(m)) = X(1 + m)
      BY <1>1, SomeJoin DEF TypeNames
    <2>3. Join(Join(P(1), X(1 + m)), X(1)) = Join(P(1), Join(X(1 + m), X(1)))
      BY <1>4, <1>5, TypesAssociate
    <2>4. Join(X(1 + m), X(1)) = X((1 + m) + 1)
      BY <1>4, SomeJoin DEF TypeNames
    <2>5. (1 + m) + 1 = 2 + m
      BY <1>1
    <2> QED BY <2>1, <2>2, <2>3, <2>4, <2>5
  <1>7. Types(all) = StateTypes(m, k)
    BY <1>3, <1>6 DEF StateTypes, Five
  <1>8. 6 + 4 + m * 4 + 4 + k * 6 = (1 + k) * 6 + (2 + m) * 4
    BY <1>1
  <1> QED BY <1>1, <1>2, <1>3, <1>7, <1>8 DEF m, k

\* The units of the whole string.
StateUnits(m, k) == 2 + (1 + k) * 6 + (2 + m) * 4
CommitmentUnits(m, k) == 2 + (1 + k) * 6 + (2 + m) * 4 + k * 8

StateOf(m, k, x) ==
  [c |-> x[1], s_hat |-> x[2], m_hat |-> Part(x, 3, 2 + m), challenge |-> x[3 + m],
   keys |-> Part(x, 4 + m, 3 + m + k)]

\* The reader of states, for a string whose counts are known.
LEMMA StateReader ==
  ASSUME NEW octets, NEW m, NEW k, StartsWithTwo(octets, m, k)
  PROVE  octets_to_commitment_state(octets) =
           IF Len(octets) # StateUnits(m, k) THEN {}
           ELSE {StateOf(m, k, x) : x \in ReadAll(octets, 3, StateTypes(m, k))}
  <1>1. <<"point">> \o Some(2 + m, "scalar") \o Some(k, "point") = StateTypes(m, k)
    BY OneType DEF StateTypes, Join, TypeNames
  <1> DEFINE R(mm, kk) ==
         IF Len(octets) # 2 + (1 + kk) * 6 + (2 + mm) * 4 THEN {}
         ELSE {[c |-> x[1], s_hat |-> x[2], m_hat |-> SubSeq(x, 3, 2 + mm),
                challenge |-> x[3 + mm], keys |-> SubSeq(x, 4 + mm, 3 + mm + kk)] :
                 x \in ReadAll(octets, 3, <<"point">> \o Some(2 + mm, "scalar")
                                            \o Some(kk, "point"))}
  <1>2. octets_to_commitment_state(octets) =
          UNION {UNION {R(mm, kk) : kk \in read_u64(octets, 2)} : mm \in read_u64(octets, 1)}
    BY DEF octets_to_commitment_state, Exactly
  <1>3. R(m, k) = IF Len(octets) # StateUnits(m, k) THEN {}
           ELSE {StateOf(m, k, x) : x \in ReadAll(octets, 3, StateTypes(m, k))}
    BY <1>1 DEF StateOf, Part, StateUnits
  <1> HIDE DEF R
  <1>4. octets_to_commitment_state(octets) = R(m, k)
    BY <1>2 DEF StartsWithTwo
  <1> QED BY <1>3, <1>4

LEMMA StateWritten ==
  ASSUME NEW s \in CommitmentStates
  PROVE  commitment_state_to_octets(s)
           = CountedTwo(Len(s.m_hat), Len(s.keys), serialize(StateItems(s)))
  <1> DEFINE m == Len(s.m_hat)
             k == Len(s.keys)
             h == Join(<<U64(m)>>, <<U64(k)>>)
             a == <<s.c>>
             b == <<s.s_hat>>
             c == s.m_hat
             d == <<s.challenge>>
             e == s.keys
  <1>1. /\ a \in ItemLists /\ b \in ItemLists /\ c \in ItemLists /\ d \in ItemLists
        /\ e \in ItemLists
    BY CommitmentFields, OnePoint, OneScalar, PointList, ScalarList
  <1>2. <<U64(m), U64(k), s.c, s.s_hat>> = Join(Join(h, a), b)
    BY DEF Join
  <1>3. commitment_state_to_octets(s) = serialize(Join(Join(Join(<<U64(m), U64(k), s.c, s.s_hat>>, c), d), e))
    BY DEF commitment_state_to_octets, Join
  <1>4. m \in Int /\ k \in Int /\ StateItems(s) \in ItemLists
    <2>1. m \in Nat /\ k \in Nat /\ StateItems(s) \in ItemLists
      BY ONLY s \in CommitmentStates, StateItemsFacts
    <2> QED BY <2>1
  <1>5. StateItems(s) = Five(a, b, c, d, e)
    BY DEF StateItems
  <1>6. /\ h \in ItemLists
        /\ serialize(Join(h, StateItems(s))) = CountedTwo(m, k, serialize(StateItems(s)))
    BY <1>4, CountedItems
  <1> HIDE DEF a, b, c, d, e, h
  <1>7. Join(Join(Join(Join(Join(h, a), b), c), d), e) = Join(h, Five(a, b, c, d, e))
    BY ONLY <1>1, <1>6, FiveAfter
  <1> QED BY <1>2, <1>3, <1>5, <1>6, <1>7

LEMMA StatePlaces ==
  ASSUME NEW s \in CommitmentStates, NEW m, m = Len(s.m_hat), NEW k, k = Len(s.keys),
         NEW x, x = StateItems(s)
  PROVE  StateOf(m, k, x) = s
  <1> DEFINE a == <<s.c>>
             b == <<s.s_hat>>
             c == s.m_hat
             d == <<s.challenge>>
             e == s.keys
  <1>1. /\ a \in ItemLists /\ b \in ItemLists /\ c \in ItemLists /\ d \in ItemLists
        /\ e \in ItemLists
    BY CommitmentFields, OnePoint, OneScalar, PointList, ScalarList
  <1>2. /\ Len(a) = 1 /\ Len(b) = 1 /\ Len(c) = m /\ Len(d) = 1 /\ Len(e) = k
        /\ m \in Nat /\ k \in Nat
    BY CommitmentFields, PointList, ScalarList
  <1>3. x = Five(a, b, c, d, e)
    BY DEF StateItems
  <1> HIDE DEF a, b, c, d, e
  <1>4. /\ x \in ItemLists
        /\ Len(x) = Len(a) + Len(b) + Len(c) + Len(d) + Len(e)
        /\ Part(x, 1, Len(a)) = a
        /\ Part(x, Len(a) + 1, Len(a) + Len(b)) = b
        /\ Part(x, Len(a) + Len(b) + 1, Len(a) + Len(b) + Len(c)) = c
        /\ Part(x, Len(a) + Len(b) + Len(c) + 1, Len(a) + Len(b) + Len(c) + Len(d)) = d
        /\ Part(x, Len(a) + Len(b) + Len(c) + Len(d) + 1,
                    Len(a) + Len(b) + Len(c) + Len(d) + Len(e)) = e
    BY ONLY <1>1, <1>3, FivePlaces
  <1>5. /\ Part(x, 1, 1) = a /\ Part(x, 2, 2) = b /\ Part(x, 3, 2 + m) = c
        /\ Part(x, 3 + m, 3 + m) = d /\ Part(x, 4 + m, 3 + m + k) = e
        /\ 1 \in 1 .. Len(x) /\ 2 \in 1 .. Len(x) /\ 3 + m \in 1 .. Len(x)
    BY ONLY <1>2, <1>4
  <1>6. x[1] = s.c
    BY <1>4, <1>5, OnlyItem DEF a
  <1>7. x[2] = s.s_hat
    BY <1>4, <1>5, OnlyItem DEF b
  <1>8. x[3 + m] = s.challenge
    BY <1>4, <1>5, OnlyItem DEF d
  <1>9. Part(x, 3, 2 + m) = s.m_hat /\ Part(x, 4 + m, 3 + m + k) = s.keys
    BY <1>5 DEF c, e
  <1> HIDE DEF Part
  <1>10. StateOf(m, k, x) = [c |-> s.c, s_hat |-> s.s_hat, m_hat |-> s.m_hat,
                             challenge |-> s.challenge, keys |-> s.keys]
    BY <1>6, <1>7, <1>8, <1>9 DEF StateOf
  <1> QED BY <1>10, CommitmentFields

\* The state of a commitment is read back as it was written (blind.rs:555-608).
THEOREM CommitmentStateReadBack ==
  ASSUME NEW s \in CommitmentStates
  PROVE  octets_to_commitment_state(commitment_state_to_octets(s)) = {s}
  <1> DEFINE m == Len(s.m_hat)
             k == Len(s.keys)
             x == StateItems(s)
             body == serialize(x)
             octets == CountedTwo(m, k, body)
  <1>1. /\ x \in ItemLists /\ NoCounts(x) /\ Types(x) = StateTypes(m, k)
        /\ body \in Strings /\ Len(body) = (1 + k) * 6 + (2 + m) * 4
        /\ m \in Nat /\ k \in Nat
    BY StateItemsFacts
  <1>2. commitment_state_to_octets(s) = octets
    BY StateWritten
  <1>3. m = Len(s.m_hat) /\ k = Len(s.keys) /\ x = StateItems(s)
    OBVIOUS
  <1> HIDE DEF m, k, x
  <1>4. StateOf(m, k, x) = s
    BY <1>3, StatePlaces
  <1>5. Len(octets) = 2 + Len(body) /\ StartsWithTwo(octets, m, k)
    BY <1>1, TwoCounts
  <1>6. ReadAll(octets, 3, StateTypes(m, k)) = {x}
    <2>1. Join(body, <<>>) = body /\ <<>> \in Strings
      BY <1>1, JoinEmpty
    <2>2. ReadAll(CountedTwo(m, k, Join(serialize(x), <<>>)), 3, Types(x)) = {x}
      BY <1>1, <2>1, ReadAfterTwo
    <2> QED BY <1>1, <2>1, <2>2
  <1> HIDE DEF octets, body
  <1>7. Len(octets) = StateUnits(m, k)
    BY <1>1, <1>5 DEF StateUnits
  <1>8. octets_to_commitment_state(octets) = {StateOf(m, k, y) : y \in {x}}
    BY <1>5, <1>6, <1>7, StateReader
  <1> QED BY <1>2, <1>4, <1>8

-----------------------------------------------------------------------------
(* Device signatures at the end of a string.                               *)

SignatureStrings == {p \in Strings : Len(p) = 8}
SignatureLists == Seq(SignatureStrings)

LEMMA FlattenSignatures ==
  ASSUME NEW g \in SignatureLists
  PROVE  FlattenSeq(g) \in Strings /\ Len(FlattenSeq(g)) = 8 * Len(g) /\ Len(g) \in Nat
  <1>1. g \in Seq({p \in Seq(AllUnits) : Len(p) = 8}) /\ 8 \in Nat
    BY DEF SignatureLists, SignatureStrings, Strings
  <1>2. FlattenSeq(g) \in Seq(AllUnits) /\ Len(FlattenSeq(g)) = 8 * Len(g)
    BY <1>1, FlattenUniform
  <1>3. Len(g) \in Nat
    BY <1>1, LenProperties
  <1> QED BY <1>2, <1>3 DEF Strings

LEMMA FlattenAround ==
  ASSUME NEW g \in SignatureLists, NEW i \in 1 .. Len(g)
  PROVE  \E p \in SignatureLists, q \in SignatureLists :
           /\ FlattenSeq(g) = Join(Join(FlattenSeq(p), g[i]), FlattenSeq(q))
           /\ Len(p) = i - 1
           /\ g[i] \in SignatureStrings
  <1> DEFINE p == SubSeq(g, 1, i - 1)
             q == SubSeq(g, i + 1, Len(g))
             x == g[i]
             one == <<x>>
  <1>1. g = (p \o one) \o q /\ p \in SignatureLists /\ q \in SignatureLists
        /\ x \in SignatureStrings
    BY AroundItem DEF SignatureLists
  <1>2. Len(p) = i - 1
    <2>1. i - 1 \in 0 .. Len(g) /\ g \in Seq(SignatureStrings)
      BY LenProperties DEF SignatureLists
    <2> QED BY <2>1, PrefixType
  <1>3. SignatureStrings \subseteq Seq(AllUnits)
    BY DEF SignatureStrings, Strings
  <1>4. SignatureLists \subseteq Seq(Seq(AllUnits))
    BY <1>3, SeqMonotonic DEF SignatureLists
  <1>5. /\ p \in Seq(Seq(AllUnits)) /\ q \in Seq(Seq(AllUnits)) /\ x \in Seq(AllUnits)
    BY <1>1, <1>3, <1>4
  <1> HIDE DEF p, q, x
  <1>6. one \in Seq(Seq(AllUnits)) /\ FlattenSeq(one) = x
    BY <1>5, FlattenOne
  <1> HIDE DEF one
  <1>7. p \o one \in Seq(Seq(AllUnits))
    BY <1>5, <1>6, ConcatProperties
  <1>8. FlattenSeq(p \o one) = FlattenSeq(p) \o FlattenSeq(one)
    BY <1>5, <1>6, FlattenConcat
  <1>9. FlattenSeq((p \o one) \o q) = FlattenSeq(p \o one) \o FlattenSeq(q)
    BY <1>5, <1>7, FlattenConcat
  <1>10. FlattenSeq(g) = Join(Join(FlattenSeq(p), x), FlattenSeq(q))
    BY <1>1, <1>6, <1>8, <1>9, Zenon DEF Join
  <1> QED BY <1>1, <1>2, <1>10 DEF x

LEMMA LastSignaturesAre ==
  ASSUME NEW a \in Strings, NEW g \in SignatureLists,
         NEW s, s = Join(a, FlattenSeq(g)), NEW n, n = Len(g)
  PROVE  LastSignatures(s, n) = g
  <1>1. /\ FlattenSeq(g) \in Strings /\ Len(FlattenSeq(g)) = 8 * n /\ n \in Nat
    BY FlattenSignatures
  <1>2. Len(s) = Len(a) + 8 * n /\ Len(a) \in Nat /\ s \in Strings
    BY <1>1, JoinFacts
  <1>3. ASSUME NEW i \in 1 .. n
        PROVE  SubSeq(s, Len(s) - 8 * (n - i + 1) + 1, Len(s) - 8 * (n - i + 1) + 8) = g[i]
    <2>1. PICK p \in SignatureLists, q \in SignatureLists :
            /\ FlattenSeq(g) = Join(Join(FlattenSeq(p), g[i]), FlattenSeq(q))
            /\ Len(p) = i - 1
            /\ g[i] \in SignatureStrings
      BY FlattenAround
    <2> DEFINE P == FlattenSeq(p)
               Q == FlattenSeq(q)
               x == g[i]
    <2>2. /\ P \in Strings /\ Len(P) = 8 * (i - 1) /\ Q \in Strings
          /\ x \in Strings /\ Len(x) = 8
      BY <2>1, FlattenSignatures DEF SignatureStrings
    <2>3. s = Join(a, Join(Join(P, x), Q))
      BY <2>1
    <2> HIDE DEF P, Q, x
    <2>4. Join(P, x) \in Strings
      BY <2>2, JoinFacts
    <2>5. Join(a, Join(Join(P, x), Q)) = Join(Join(a, Join(P, x)), Q)
      BY <2>2, <2>4, JoinAssociate
    <2>6. Join(a, Join(P, x)) = Join(Join(a, P), x)
      BY <2>2, JoinAssociate
    <2>7. Join(a, P) \in Strings /\ Len(Join(a, P)) = Len(a) + Len(P)
      BY <2>2, JoinFacts
    <2>8. s = Join(Join(Join(a, P), x), Q)
      BY <2>3, <2>5, <2>6
    <2>9. Part(s, Len(Join(a, P)) + 1, Len(Join(a, P)) + Len(x)) = x
      BY ONLY <2>2, <2>7, <2>8, StringPart
    <2>10. Len(s) - 8 * (n - i + 1) = Len(Join(a, P))
      BY <1>1, <1>2, <2>2, <2>7
    <2> QED BY <2>2, <2>9, <2>10 DEF Part, x
  <1>4. g = [i \in 1 .. n |-> g[i]]
    BY LenProperties DEF SignatureLists
  <1>5. LastSignatures(s, n) = [i \in 1 .. n |->
          SubSeq(s, Len(s) - 8 * (n - i + 1) + 1, Len(s) - 8 * (n - i + 1) + 8)]
    BY DEF LastSignatures
  <1> QED BY <1>3, <1>4, <1>5

-----------------------------------------------------------------------------
(* A commitment.                                                           *)

CommitmentItems(s) == Five(<<s.c>>, s.keys, <<s.s_hat>>, s.m_hat, <<s.challenge>>)

CommitmentTypes(m, k) == Join(Some(1 + k, "point"), Some(2 + m, "scalar"))

CommitmentOf(s, signatures) ==
  [c |-> s.c, keys |-> s.keys, s_hat |-> s.s_hat, m_hat |-> s.m_hat,
   challenge |-> s.challenge, signatures |-> signatures]

LEMMA CommitmentItemsFacts ==
  ASSUME NEW s \in CommitmentStates
  PROVE  /\ CommitmentItems(s) \in ItemLists /\ NoCounts(CommitmentItems(s))
         /\ Types(CommitmentItems(s)) = CommitmentTypes(Len(s.m_hat), Len(s.keys))
         /\ serialize(CommitmentItems(s)) \in Strings
         /\ Len(serialize(CommitmentItems(s)))
              = (1 + Len(s.keys)) * 6 + (2 + Len(s.m_hat)) * 4
         /\ Len(s.m_hat) \in Nat /\ Len(s.keys) \in Nat
  <1> DEFINE m == Len(s.m_hat)
             k == Len(s.keys)
             P(n) == Some(n, "point")
             X(n) == Some(n, "scalar")
             a == <<s.c>>
             b == s.keys
             c == <<s.s_hat>>
             d == s.m_hat
             e == <<s.challenge>>
             all == Five(a, b, c, d, e)
  <1>1. /\ a \in ItemLists /\ NoCounts(a) /\ Types(a) = P(1)
        /\ b \in ItemLists /\ NoCounts(b) /\ Types(b) = P(k) /\ k \in Nat
        /\ c \in ItemLists /\ NoCounts(c) /\ Types(c) = X(1)
        /\ d \in ItemLists /\ NoCounts(d) /\ Types(d) = X(m) /\ m \in Nat
        /\ e \in ItemLists /\ NoCounts(e) /\ Types(e) = X(1)
    BY CommitmentFields, OnePoint, OneScalar, PointList, ScalarList
  <1>2. CommitmentItems(s) = all
    BY DEF CommitmentItems
  <1> HIDE DEF a, b, c, d, e, m, k
  <1>3. /\ all \in ItemLists /\ NoCounts(all) /\ serialize(all) \in Strings
        /\ Types(all) = Five(P(1), P(k), X(1), X(m), X(1))
        /\ Len(serialize(all)) = 6 + k * 6 + 4 + m * 4 + 4
    <2>1. /\ WidthOf(P(1)) = 6 /\ WidthOf(X(1)) = 4 /\ WidthOf(X(m)) = m * 4
          /\ WidthOf(P(k)) = k * 6
      BY <1>1, PointsAndScalars
    <2>2. /\ a \in ItemLists /\ b \in ItemLists /\ c \in ItemLists /\ d \in ItemLists
          /\ e \in ItemLists
          /\ NoCounts(a) /\ NoCounts(b) /\ NoCounts(c) /\ NoCounts(d) /\ NoCounts(e)
      BY <1>1
    <2>3. /\ all \in ItemLists /\ NoCounts(all) /\ serialize(all) \in Strings
          /\ Types(all) = Five(Types(a), Types(b), Types(c), Types(d), Types(e))
          /\ Len(serialize(all)) = WidthOf(Types(a)) + WidthOf(Types(b)) + WidthOf(Types(c))
                  + WidthOf(Types(d)) + WidthOf(Types(e))
      BY ONLY <2>2, FiveItems
    <2> HIDE DEF all, P, X
    <2> QED BY <1>1, <2>1, <2>3
  <1> HIDE DEF all
  <1>4. /\ P(1) \in TypeLists /\ X(1) \in TypeLists /\ X(m) \in TypeLists
        /\ P(k) \in TypeLists /\ 1 + m \in Nat /\ 1 + k \in Nat
    BY <1>1, PointsAndScalars
  <1>5. X(1 + m) \in TypeLists /\ P(1 + k) \in TypeLists
    BY <1>4, PointsAndScalars
  <1>6. Five(P(1), P(k), X(1), X(m), X(1)) = Join(P(1 + k), X(2 + m))
    <2>1. Join(P(1), P(k)) = P(1 + k)
      BY <1>1, SomeJoin DEF TypeNames
    <2>2. Join(Join(P(1 + k), X(1)), X(m)) = Join(P(1 + k), Join(X(1), X(m)))
      BY <1>4, <1>5, TypesAssociate
    <2>3. Join(X(1), X(m)) = X(1 + m)
      BY <1>1, SomeJoin DEF TypeNames
    <2>4. Join(Join(P(1 + k), X(1 + m)), X(1)) = Join(P(1 + k), Join(X(1 + m), X(1)))
      BY <1>4, <1>5, TypesAssociate
    <2>5. Join(X(1 + m), X(1)) = X((1 + m) + 1)
      BY <1>4, SomeJoin DEF TypeNames
    <2>6. (1 + m) + 1 = 2 + m
      BY <1>1
    <2> QED BY <2>1, <2>2, <2>3, <2>4, <2>5, <2>6 DEF Five
  <1>7. Types(all) = CommitmentTypes(m, k)
    BY <1>3, <1>6 DEF CommitmentTypes
  <1>8. 6 + k * 6 + 4 + m * 4 + 4 = (1 + k) * 6 + (2 + m) * 4
    BY <1>1
  <1> QED BY <1>1, <1>2, <1>3, <1>7, <1>8 DEF m, k

CommitmentFrom(m, k, x, octets) ==
  [c |-> x[1], keys |-> Part(x, 2, 1 + k), s_hat |-> x[2 + k],
   m_hat |-> Part(x, 3 + k, 2 + k + m), challenge |-> x[3 + k + m],
   signatures |-> LastSignatures(octets, k)]

\* The reader of commitments, for a string whose counts are known.
LEMMA CommitmentReader ==
  ASSUME NEW octets, NEW m, NEW k, StartsWithTwo(octets, m, k)
  PROVE  octets_to_commitment_with_proof(octets) =
           IF Len(octets) # CommitmentUnits(m, k) THEN {}
           ELSE {CommitmentFrom(m, k, x, octets) :
                   x \in ReadAll(octets, 3, CommitmentTypes(m, k))}
  <1> DEFINE R(mm, kk) ==
         IF Len(octets) # 2 + (1 + kk) * 6 + (2 + mm) * 4 + kk * 8 THEN {}
         ELSE {[c |-> x[1], keys |-> SubSeq(x, 2, 1 + kk), s_hat |-> x[2 + kk],
                m_hat |-> SubSeq(x, 3 + kk, 2 + kk + mm), challenge |-> x[3 + kk + mm],
                signatures |-> LastSignatures(octets, kk)] :
                 x \in ReadAll(octets, 3, Some(1 + kk, "point") \o Some(2 + mm, "scalar"))}
  <1>1. octets_to_commitment_with_proof(octets) =
          UNION {UNION {R(mm, kk) : kk \in read_u64(octets, 2)} : mm \in read_u64(octets, 1)}
    BY DEF octets_to_commitment_with_proof, Exactly
  <1>2. R(m, k) = IF Len(octets) # CommitmentUnits(m, k) THEN {}
           ELSE {CommitmentFrom(m, k, x, octets) :
                   x \in ReadAll(octets, 3, CommitmentTypes(m, k))}
    BY DEF CommitmentFrom, Part, CommitmentTypes, Join, CommitmentUnits
  <1> HIDE DEF R
  <1>3. octets_to_commitment_with_proof(octets) = R(m, k)
    BY <1>1 DEF StartsWithTwo
  <1> QED BY <1>2, <1>3

LEMMA CommitmentWritten ==
  ASSUME NEW s \in CommitmentStates, NEW g \in SignatureLists
  PROVE  commitment_with_proof_to_octets(s, g)
           = CountedTwo(Len(s.m_hat), Len(s.keys),
                        Join(serialize(CommitmentItems(s)), FlattenSeq(g)))
  <1> DEFINE m == Len(s.m_hat)
             k == Len(s.keys)
             h == Join(<<U64(m)>>, <<U64(k)>>)
             a == <<s.c>>
             b == s.keys
             c == <<s.s_hat>>
             d == s.m_hat
             e == <<s.challenge>>
             x == CommitmentItems(s)
             mk == Join(Count(m), Count(k))
             body == serialize(x)
             rest == FlattenSeq(g)
  <1>1. /\ a \in ItemLists /\ b \in ItemLists /\ c \in ItemLists /\ d \in ItemLists
        /\ e \in ItemLists
    BY CommitmentFields, OnePoint, OneScalar, PointList, ScalarList
  <1>2. <<U64(m), U64(k), s.c>> = Join(h, a)
    BY DEF Join
  <1>3. commitment_with_proof_to_octets(s, g) =
          Join(serialize(Join(Join(Join(Join(<<U64(m), U64(k), s.c>>, b), c), d), e)), rest)
    BY DEF commitment_with_proof_to_octets, Join
  <1>4. m \in Int /\ k \in Int /\ x \in ItemLists /\ body \in Strings
    <2>1. m \in Nat /\ k \in Nat /\ x \in ItemLists /\ body \in Strings
      BY ONLY s \in CommitmentStates, CommitmentItemsFacts
    <2> QED BY <2>1
  <1>5. x = Five(a, b, c, d, e)
    BY DEF CommitmentItems
  <1> HIDE DEF x
  <1>6. h \in ItemLists /\ serialize(Join(h, x)) = CountedTwo(m, k, serialize(x))
    BY <1>4, CountedItems
  <1> HIDE DEF a, b, c, d, e, h
  <1>7. Join(Join(Join(Join(Join(h, a), b), c), d), e) = Join(h, Five(a, b, c, d, e))
    BY ONLY <1>1, <1>6, FiveAfter
  <1>8. commitment_with_proof_to_octets(s, g) = Join(CountedTwo(m, k, body), rest)
    BY <1>2, <1>3, <1>5, <1>6, <1>7
  <1>9. rest \in Strings
    BY FlattenSignatures
  <1>10. mk \in Strings
    BY <1>4, CountFacts, JoinFacts
  <1> HIDE DEF body, rest, mk
  <1>11. Join(Join(mk, body), rest) = Join(mk, Join(body, rest))
    BY <1>4, <1>9, <1>10, JoinAssociate
  <1> QED BY <1>8, <1>11 DEF CountedTwo, mk, body, rest, x

LEMMA CommitmentPlaces ==
  ASSUME NEW s \in CommitmentStates, NEW m, m = Len(s.m_hat), NEW k, k = Len(s.keys),
         NEW x, x = CommitmentItems(s), NEW octets
  PROVE  CommitmentFrom(m, k, x, octets) = CommitmentOf(s, LastSignatures(octets, k))
  <1> DEFINE a == <<s.c>>
             b == s.keys
             c == <<s.s_hat>>
             d == s.m_hat
             e == <<s.challenge>>
  <1>1. /\ a \in ItemLists /\ b \in ItemLists /\ c \in ItemLists /\ d \in ItemLists
        /\ e \in ItemLists
    BY CommitmentFields, OnePoint, OneScalar, PointList, ScalarList
  <1>2. /\ Len(a) = 1 /\ Len(b) = k /\ Len(c) = 1 /\ Len(d) = m /\ Len(e) = 1
        /\ m \in Nat /\ k \in Nat
    BY CommitmentFields, PointList, ScalarList
  <1>3. x = Five(a, b, c, d, e)
    BY DEF CommitmentItems
  <1> HIDE DEF a, b, c, d, e
  <1>4. /\ x \in ItemLists
        /\ Len(x) = Len(a) + Len(b) + Len(c) + Len(d) + Len(e)
        /\ Part(x, 1, Len(a)) = a
        /\ Part(x, Len(a) + 1, Len(a) + Len(b)) = b
        /\ Part(x, Len(a) + Len(b) + 1, Len(a) + Len(b) + Len(c)) = c
        /\ Part(x, Len(a) + Len(b) + Len(c) + 1, Len(a) + Len(b) + Len(c) + Len(d)) = d
        /\ Part(x, Len(a) + Len(b) + Len(c) + Len(d) + 1,
                    Len(a) + Len(b) + Len(c) + Len(d) + Len(e)) = e
    BY ONLY <1>1, <1>3, FivePlaces
  <1>5. /\ Part(x, 1, 1) = a /\ Part(x, 2, 1 + k) = b /\ Part(x, 2 + k, 2 + k) = c
        /\ Part(x, 3 + k, 2 + k + m) = d /\ Part(x, 3 + k + m, 3 + k + m) = e
        /\ 1 \in 1 .. Len(x) /\ 2 + k \in 1 .. Len(x) /\ 3 + k + m \in 1 .. Len(x)
    BY ONLY <1>2, <1>4
  <1>6. x[1] = s.c
    BY <1>4, <1>5, OnlyItem DEF a
  <1>7. x[2 + k] = s.s_hat
    BY <1>4, <1>5, OnlyItem, SMTT(30) DEF c
  <1>8. x[3 + k + m] = s.challenge
    BY <1>4, <1>5, OnlyItem, ZenonT(40) DEF e
  <1>9. Part(x, 2, 1 + k) = s.keys /\ Part(x, 3 + k, 2 + k + m) = s.m_hat
    BY <1>5 DEF b, d
  <1> QED BY <1>6, <1>7, <1>8, <1>9 DEF CommitmentFrom, CommitmentOf

\* What the octets of a commitment are: two counts, and as many units as they
\* say.
LEMMA CommitmentOctets ==
  ASSUME NEW s \in CommitmentStates, NEW g \in SignatureLists, Len(g) = Len(s.keys),
         NEW octets, octets = commitment_with_proof_to_octets(s, g),
         NEW m \in Nat, m = Len(s.m_hat), NEW k \in Nat, k = Len(s.keys)
  PROVE  /\ octets \in Strings
         /\ Len(octets) = CommitmentUnits(m, k) /\ StartsWithTwo(octets, m, k)
         /\ ReadAll(octets, 3, CommitmentTypes(m, k)) = {CommitmentItems(s)}
         /\ LastSignatures(octets, k) = g
  <1> DEFINE x == CommitmentItems(s)
             body == serialize(x)
             rest == FlattenSeq(g)
             both == Join(body, rest)
             mk == Join(Count(m), Count(k))
             front == Join(mk, body)
  <1>1. /\ x \in ItemLists /\ NoCounts(x) /\ Types(x) = CommitmentTypes(m, k)
        /\ body \in Strings /\ Len(body) = (1 + k) * 6 + (2 + m) * 4
        /\ m \in Nat /\ k \in Nat
    BY ONLY s \in CommitmentStates, m = Len(s.m_hat), k = Len(s.keys), CommitmentItemsFacts
  <1>2. octets = CountedTwo(m, k, both)
    BY CommitmentWritten
  <1>3. rest \in Strings /\ Len(rest) = 8 * k
    BY FlattenSignatures
  <1>a. m \in Int /\ k \in Int
    BY <1>1
  <1>4. mk \in Strings
    BY <1>a, CountFacts, JoinFacts
  <1> HIDE DEF x, body, rest
  <1>5. both \in Strings /\ Len(both) = Len(body) + Len(rest) /\ front \in Strings
    BY <1>1, <1>3, <1>4, JoinFacts
  <1>6. octets = Join(mk, both)
    BY <1>2 DEF CountedTwo
  <1> HIDE DEF mk
  <1>7. octets = Join(front, rest)
    BY <1>1, <1>3, <1>4, <1>6, JoinAssociate
  <1>8. LastSignatures(octets, k) = g
    BY <1>5, <1>7, LastSignaturesAre DEF rest
  <1>9. ReadAll(octets, 3, CommitmentTypes(m, k)) = {x}
    <2>1. ReadAll(CountedTwo(m, k, Join(serialize(x), rest)), 3, Types(x)) = {x}
      BY <1>1, <1>3, ReadAfterTwo
    <2> QED BY <1>1, <1>2, <2>1 DEF body
  <1> HIDE DEF both, front
  <1>10. octets \in Strings /\ Len(octets) = 2 + Len(both) /\ StartsWithTwo(octets, m, k)
    BY ONLY <1>a, <1>2, <1>5, TwoCounts
  <1>11. Len(octets) = CommitmentUnits(m, k)
    <2>1. Len(body) = (1 + k) * 6 + (2 + m) * 4
      BY <1>1
    <2> QED BY ONLY <1>a, <1>3, <1>5, <1>10, <2>1 DEF CommitmentUnits
  <1> QED BY <1>1, <1>8, <1>9, <1>10, <1>11 DEF x

\* A commitment is read back as it was written, with its device signatures
\* (blind.rs:481-552).
THEOREM CommitmentReadBack ==
  ASSUME NEW s \in CommitmentStates, NEW g \in SignatureLists, Len(g) = Len(s.keys)
  PROVE  octets_to_commitment_with_proof(commitment_with_proof_to_octets(s, g))
           = {CommitmentOf(s, g)}
  <1> SUFFICES ASSUME NEW octets, octets = commitment_with_proof_to_octets(s, g),
                      NEW m \in Nat, m = Len(s.m_hat), NEW k \in Nat, k = Len(s.keys),
                      NEW x, x = CommitmentItems(s)
               PROVE  octets_to_commitment_with_proof(octets) = {CommitmentOf(s, g)}
    BY CommitmentFields, PointList, ScalarList
  <1>1. /\ Len(octets) = CommitmentUnits(m, k) /\ StartsWithTwo(octets, m, k)
        /\ ReadAll(octets, 3, CommitmentTypes(m, k)) = {x}
        /\ LastSignatures(octets, k) = g
    BY CommitmentOctets
  <1>2. CommitmentFrom(m, k, x, octets) = CommitmentOf(s, LastSignatures(octets, k))
    BY CommitmentPlaces
  <1>3. octets_to_commitment_with_proof(octets) = {CommitmentFrom(m, k, y, octets) : y \in {x}}
    BY <1>1, CommitmentReader
  <1> QED BY <1>1, <1>2, <1>3

-----------------------------------------------------------------------------
(* The issuer's signature.                                                 *)

IssuerSignatures == [a : PointItems, e : ScalarItems]

LEMMA SignatureOctets ==
  ASSUME NEW s \in IssuerSignatures, NEW octets, octets = signature_to_octets(s)
  PROVE  /\ octets \in Strings /\ Len(octets) = 10
         /\ octets[1] = <<s.a, 1>>
         /\ octets_to_signature(octets) = {s}
  <1> DEFINE a == <<s.a>>
             e == <<s.e>>
             x == Join(a, e)
             body == serialize(x)
  <1>1. s.a \in PointItems /\ s.e \in ScalarItems /\ s = [a |-> s.a, e |-> s.e]
    BY DEF IssuerSignatures
  <1>2. /\ a \in ItemLists /\ NoCounts(a) /\ Types(a) = Some(1, "point") /\ Len(a) = 1
        /\ e \in ItemLists /\ NoCounts(e) /\ Types(e) = Some(1, "scalar") /\ Len(e) = 1
        /\ s.a \in Items /\ s.a.type = "point"
    BY <1>1, OnePoint, OneScalar
  <1>3. octets = body /\ x[1] = s.a /\ x[2] = s.e
    <2>1. x = <<s.a, s.e>>
      BY PairJoined
    <2> QED BY <2>1 DEF signature_to_octets
  <1>4. serialize(a) = Units(s.a)
    BY <1>2, OneItem
  <1> HIDE DEF a, e
  <1>5. /\ x \in ItemLists /\ NoCounts(x) /\ body = Join(serialize(a), serialize(e))
        /\ serialize(a) \in Strings /\ serialize(e) \in Strings
    BY <1>2, ItemsFacts, NoCountsJoin, SerializeJoin
  <1>6. Types(x) = Join(Some(1, "point"), Some(1, "scalar"))
    BY <1>2, TypesJoin
  <1>7. Types(x) = <<"point", "scalar">>
    <2>1. Some(1, "point") = <<"point">> /\ Some(1, "scalar") = <<"scalar">>
      BY DEF Some
    <2>2. Join(<<"point">>, <<"scalar">>) = <<"point", "scalar">>
      BY PairJoined
    <2> QED BY <1>6, <2>1, <2>2
  <1>8. Len(body) = 10
    <2>1. Len(body) = WidthOf(Types(x))
      BY <1>5, SerializeLen DEF ItemLists
    <2>2. WidthOf(Join(Some(1, "point"), Some(1, "scalar"))) = 6 + 4
      BY PointsAndScalars, TypeListsFacts
    <2> QED BY <1>6, <2>1, <2>2
  <1>9. octets[1] = <<s.a, 1>>
    <2>1. Len(serialize(a)) = 6 /\ serialize(a)[1] = <<s.a, 1>>
      BY <1>2, <1>4, UnitsFacts DEF UnitsOf
    <2>2. body[1] = serialize(a)[1]
      <3>1. 1 \in 1 .. Len(serialize(a))
        BY <2>1
      <3>2. Join(serialize(a), serialize(e))[1] = serialize(a)[1]
        BY ONLY <1>5, <3>1, UnitBefore
      <3> QED BY <1>5, <3>2
    <2> QED BY <1>3, <2>1, <2>2
  <1> HIDE DEF x
  <1>10. body \in Strings
    BY <1>5, SerializeJoin
  <1>11. ReadAll(octets, 1, <<"point", "scalar">>) = {x}
    <2>1. Join(<<>>, Join(body, <<>>)) = body /\ <<>> \in Strings /\ Len(<<>>) + 1 = 1
      BY <1>10, JoinEmpty
    <2>2. ReadAll(Join(<<>>, Join(serialize(x), <<>>)), Len(<<>>) + 1, Types(x)) = {x}
      BY ONLY <1>5, <2>1, ReadBackAt
    <2> QED BY <1>3, <1>7, <2>1, <2>2
  <1>12. octets_to_signature(octets) = {[a |-> y[1], e |-> y[2]] : y \in {x}}
    BY <1>3, <1>8, <1>11 DEF octets_to_signature, Exactly
  <1> QED BY <1>1, <1>3, <1>8, <1>9, <1>10, <1>12

-----------------------------------------------------------------------------
(* BBS proofs.                                                             *)

BbsProofs ==
  {p \in [points : Seq(PointItems), scalars : Seq(ScalarItems)] :
     Len(p.points) = 3 /\ Len(p.scalars) >= 4}

BbsUnits(p) == 18 + 4 * Len(p.scalars)

BbsFrom(x) == [points |-> Part(x, 1, 3), scalars |-> Part(x, 4, Len(x))]

LEMMA BbsFields ==
  ASSUME NEW p \in BbsProofs
  PROVE  /\ p.points \in Seq(PointItems) /\ p.scalars \in Seq(ScalarItems)
         /\ Len(p.points) = 3 /\ Len(p.scalars) >= 4 /\ Len(p.scalars) \in Nat
         /\ p = [points |-> p.points, scalars |-> p.scalars]
  <1>1. p \in [points : Seq(PointItems), scalars : Seq(ScalarItems)]
        /\ Len(p.points) = 3 /\ Len(p.scalars) >= 4
    BY DEF BbsProofs
  <1>2. Len(p.scalars) \in Nat
    BY <1>1, LenProperties
  <1> QED BY <1>1, <1>2

LEMMA BbsReader ==
  ASSUME NEW octets, NEW n \in Nat, n >= 4, Len(octets) = 18 + 4 * n
  PROVE  octets_to_bbs_proof(octets) =
           {BbsFrom(x) :
              x \in ReadAll(octets, 1, Join(Some(3, "point"), Some(n, "scalar")))}
  <1>1. /\ ~ (Len(octets) < Floor) /\ (Len(octets) - Floor) % 4 = 0
        /\ (Len(octets) - 18) \div 4 = n
    BY DEF Floor
  <1> DEFINE q == (Len(octets) - 18) \div 4
  <1>2. octets_to_bbs_proof(octets) =
          {[points |-> SubSeq(x, 1, 3), scalars |-> SubSeq(x, 4, Len(x))] :
             x \in ReadAll(octets, 1, Some(3, "point") \o Some(q, "scalar"))}
    BY <1>1 DEF octets_to_bbs_proof
  <1>3. q = n
    BY <1>1
  <1> HIDE DEF q
  <1> QED BY <1>2, <1>3 DEF Join, BbsFrom, Part

LEMMA BbsOctets ==
  ASSUME NEW p \in BbsProofs, NEW octets, octets = bbs_proof_to_octets(p)
  PROVE  /\ octets \in Strings /\ Len(octets) = BbsUnits(p)
         /\ octets_to_bbs_proof(octets) = {p}
  <1> DEFINE a == p.points
             b == p.scalars
             x == Join(a, b)
             n == Len(b)
             body == serialize(x)
  <1>1. /\ a \in ItemLists /\ NoCounts(a) /\ Types(a) = Some(3, "point") /\ Len(a) = 3
        /\ b \in ItemLists /\ NoCounts(b) /\ Types(b) = Some(n, "scalar")
        /\ n \in Nat /\ n >= 4
    BY BbsFields, PointList, ScalarList
  <1>2. octets = body
    BY DEF bbs_proof_to_octets, Join
  <1>3. n = Len(b) /\ BbsUnits(p) = 18 + 4 * n
    BY DEF BbsUnits
  <1> HIDE DEF a, b, n
  <1>4. x \in ItemLists /\ NoCounts(x) /\ Len(x) = Len(a) + Len(b)
    BY <1>1, ItemsFacts, NoCountsJoin
  <1>5. Types(x) = Join(Some(3, "point"), Some(n, "scalar"))
    BY <1>1, TypesJoin
  <1>6. Part(x, 1, Len(a)) = a /\ Part(x, Len(a) + 1, Len(a) + Len(b)) = b
    <2>1. Part(x, 1, Len(a)) = a
      BY <1>1, ItemFirst
    <2>2. Part(x, Len(a) + 1, Len(a) + Len(b)) = b
      BY <1>1, ItemLast
    <2> QED BY <2>1, <2>2
  <1> HIDE DEF x
  <1>7. BbsFrom(x) = p
    <2>1. Part(x, 1, 3) = p.points
      BY <1>1, <1>6 DEF a
    <2>2. Part(x, 4, Len(x)) = p.scalars
      BY <1>1, <1>4, <1>6 DEF b
    <2> QED BY <2>1, <2>2, BbsFields DEF BbsFrom
  <1>8. body \in Strings
    BY <1>4, SerializeJoin
  <1>9. Len(body) = 18 + 4 * n
    <2>1. Len(body) = WidthOf(Types(x))
      BY <1>4, SerializeLen DEF ItemLists
    <2>2. /\ Some(3, "point") \in TypeLists /\ WidthOf(Some(3, "point")) = 3 * 6
          /\ Some(n, "scalar") \in TypeLists /\ WidthOf(Some(n, "scalar")) = n * 4
      BY <1>1, PointsAndScalars
    <2>3. WidthOf(Join(Some(3, "point"), Some(n, "scalar"))) = 3 * 6 + n * 4
      BY <2>2, TypeListsFacts
    <2> QED BY <1>1, <1>5, <2>1, <2>3
  <1>10. ReadAll(body, 1, Join(Some(3, "point"), Some(n, "scalar"))) = {x}
    <2>1. Join(<<>>, Join(body, <<>>)) = body /\ <<>> \in Strings /\ Len(<<>>) + 1 = 1
      BY <1>8, JoinEmpty
    <2>2. ReadAll(Join(<<>>, Join(serialize(x), <<>>)), Len(<<>>) + 1, Types(x)) = {x}
      BY ONLY <1>4, <2>1, ReadBackAt
    <2> QED BY <1>5, <2>1, <2>2
  <1> HIDE DEF body
  <1>11. octets_to_bbs_proof(body) = {BbsFrom(y) : y \in {x}}
    BY <1>1, <1>9, <1>10, BbsReader
  <1> QED BY <1>2, <1>3, <1>7, <1>8, <1>9, <1>11

-----------------------------------------------------------------------------
(* The state of a proof, and a proof.                                      *)

ProofStates ==
  {s \in [bbs_proof : BbsProofs, commitments : Seq(PointItems), s_hat : Seq(ScalarItems),
          challenge : ScalarItems, keys : Seq(PointItems), r_key : Seq(ScalarItems)] :
     Len(s.s_hat) = Len(s.commitments) /\ Len(s.r_key) = Len(s.keys)}

LEMMA ProofStateFields ==
  ASSUME NEW s \in ProofStates
  PROVE  /\ s.bbs_proof \in BbsProofs
         /\ s.commitments \in Seq(PointItems) /\ s.s_hat \in Seq(ScalarItems)
         /\ s.challenge \in ScalarItems
         /\ s.keys \in Seq(PointItems) /\ s.r_key \in Seq(ScalarItems)
         /\ Len(s.s_hat) = Len(s.commitments) /\ Len(s.r_key) = Len(s.keys)
  BY DEF ProofStates

LEMMA ProofStateItems ==
  ASSUME NEW s \in ProofStates
  PROVE  /\ s.commitments \in ItemLists /\ NoCounts(s.commitments)
         /\ s.s_hat \in ItemLists /\ NoCounts(s.s_hat)
         /\ <<s.challenge>> \in ItemLists /\ NoCounts(<<s.challenge>>)
         /\ Len(<<s.challenge>>) = 1
         /\ s.keys \in ItemLists /\ NoCounts(s.keys)
         /\ s.r_key \in ItemLists /\ NoCounts(s.r_key)
         /\ Len(s.commitments) \in Nat /\ Len(s.keys) \in Nat
  BY ProofStateFields, OneScalar, PointList, ScalarList

LEMMA ProofStateTypes ==
  ASSUME NEW s \in ProofStates
  PROVE  /\ Types(s.commitments) = Some(Len(s.commitments), "point")
         /\ Types(s.s_hat) = Some(Len(s.commitments), "scalar")
         /\ Types(<<s.challenge>>) = Some(1, "scalar")
         /\ Types(s.keys) = Some(Len(s.keys), "point")
         /\ Types(s.r_key) = Some(Len(s.keys), "scalar")
  BY ProofStateFields, OneScalar, PointList, ScalarList

\* What a state starts with and a proof keeps: all before the challenge.
FrontOf(s) ==
  CountedThree(8 * BbsUnits(s.bbs_proof), Len(s.commitments), Len(s.keys),
    Join(bbs_proof_to_octets(s.bbs_proof), serialize(Join(s.commitments, s.s_hat))))

Tail3(s) == Join(Join(<<s.challenge>>, s.keys), s.r_key)

FrontUnits(s) == 3 + BbsUnits(s.bbs_proof) + Len(s.commitments) * 10

LEMMA FrontFacts ==
  ASSUME NEW s \in ProofStates
  PROVE  /\ FrontOf(s) \in Strings /\ Len(FrontOf(s)) = FrontUnits(s)
         /\ BbsUnits(s.bbs_proof) \in Nat
  <1> DEFINE u == BbsUnits(s.bbs_proof)
             n == Len(s.commitments)
             k == Len(s.keys)
             bbs == bbs_proof_to_octets(s.bbs_proof)
             x == Join(s.commitments, s.s_hat)
             body == Join(bbs, serialize(x))
             l == 8 * u
  <1>1. bbs \in Strings /\ Len(bbs) = u
    BY ProofStateFields, BbsOctets
  <1>2. u \in Nat
    BY ProofStateFields, BbsFields DEF BbsUnits
  <1>3. x \in ItemLists /\ n \in Nat /\ k \in Nat /\ k \in Int /\ n \in Int
    <2>1. s.commitments \in ItemLists /\ s.s_hat \in ItemLists /\ n \in Nat /\ k \in Nat
      BY ProofStateItems
    <2>2. x \in ItemLists
      BY <2>1, ItemsFacts
    <2> QED BY <2>1, <2>2
  <1>4. Types(x) = Join(Some(n, "point"), Some(n, "scalar"))
    BY ProofStateItems, ProofStateTypes, TypesJoin
  <1>5. l \in Int
    BY <1>2
  <1>6. FrontOf(s) = CountedThree(l, n, k, body)
    BY DEF FrontOf
  <1>7. FrontUnits(s) = 3 + u + n * 10
    BY DEF FrontUnits
  <1> HIDE DEF u, n, k, bbs, x, l
  <1>8. serialize(x) \in Strings /\ Len(serialize(x)) = n * 10
    <2>1. serialize(x) \in Strings /\ Len(serialize(x)) = WidthOf(Types(x))
      BY <1>3, SerializeJoin, SerializeLen DEF ItemLists
    <2>2. /\ Some(n, "point") \in TypeLists /\ WidthOf(Some(n, "point")) = n * 6
          /\ Some(n, "scalar") \in TypeLists /\ WidthOf(Some(n, "scalar")) = n * 4
      BY <1>3, PointsAndScalars
    <2>3. WidthOf(Join(Some(n, "point"), Some(n, "scalar"))) = n * 6 + n * 4
      BY <2>2, TypeListsFacts
    <2> QED BY <1>3, <1>4, <2>1, <2>3
  <1>9. body \in Strings /\ Len(body) = Len(bbs) + Len(serialize(x))
    BY <1>1, <1>8, JoinFacts
  <1> HIDE DEF body
  <1>10. FrontOf(s) \in Strings /\ Len(FrontOf(s)) = 3 + Len(body)
    BY <1>3, <1>5, <1>6, <1>9, ThreeCounts
  <1>11. Len(FrontOf(s)) = 3 + u + n * 10
    BY <1>1, <1>2, <1>3, <1>8, <1>9, <1>10
  <1> QED BY <1>2, <1>7, <1>10, <1>11 DEF u

\* Whatever follows it, what a proof starts with is read as its counts.
LEMMA FrontThen ==
  ASSUME NEW s \in ProofStates, NEW rest \in Strings,
         NEW octets, octets = Join(FrontOf(s), rest)
  PROVE  /\ octets \in Strings
         /\ Len(octets) = FrontUnits(s) + Len(rest)
         /\ StartsWithThree(octets, 8 * BbsUnits(s.bbs_proof), Len(s.commitments),
                            Len(s.keys))
  <1> DEFINE l == 8 * BbsUnits(s.bbs_proof)
             n == Len(s.commitments)
             k == Len(s.keys)
             body == Join(bbs_proof_to_octets(s.bbs_proof),
                          serialize(Join(s.commitments, s.s_hat)))
             counts == Join(Join(Count(l), Count(n)), Count(k))
  <1>1. BbsUnits(s.bbs_proof) \in Nat /\ FrontOf(s) \in Strings /\ Len(FrontOf(s)) = FrontUnits(s)
    BY FrontFacts
  <1>2. n \in Nat /\ k \in Nat /\ s.commitments \in ItemLists /\ s.s_hat \in ItemLists
    BY ProofStateItems
  <1>3. body \in Strings
    <2>1. bbs_proof_to_octets(s.bbs_proof) \in Strings
      BY ProofStateFields, BbsOctets
    <2>2. serialize(Join(s.commitments, s.s_hat)) \in Strings
      BY <1>2, ItemsFacts, SerializeJoin
    <2> QED BY <2>1, <2>2, JoinFacts
  <1>4. l \in Int /\ n \in Int /\ k \in Int
    BY <1>1, <1>2
  <1>5. FrontOf(s) = Join(counts, body)
    BY DEF FrontOf, CountedThree
  <1>6. CountedThree(l, n, k, Join(body, rest)) = Join(counts, Join(body, rest))
    BY DEF CountedThree
  <1> HIDE DEF l, n, k, body
  <1>7. counts \in Strings
    BY <1>4, CountsJoined
  <1> HIDE DEF counts
  <1>8. octets = CountedThree(l, n, k, Join(body, rest))
    BY <1>3, <1>5, <1>6, <1>7, JoinAssociate
  <1>9. Join(body, rest) \in Strings
    BY <1>3, JoinFacts
  <1>10. StartsWithThree(octets, l, n, k)
    BY <1>4, <1>8, <1>9, ThreeCounts
  <1>11. octets \in Strings /\ Len(octets) = Len(FrontOf(s)) + Len(rest)
    BY <1>1, JoinFacts
  <1> QED BY <1>1, <1>10, <1>11 DEF l, n, k

LEMMA TailFacts ==
  ASSUME NEW s \in ProofStates, NEW k, k = Len(s.keys)
  PROVE  /\ Tail3(s) \in ItemLists /\ NoCounts(Tail3(s))
         /\ Types(Tail3(s)) = StateTail(k)
         /\ serialize(Tail3(s)) \in Strings
         /\ Len(serialize(Tail3(s))) = 4 + k * 10
  <1> DEFINE a == <<s.challenge>>
             b == s.keys
             c == s.r_key
             ab == Join(a, b)
  <1>1. a \in ItemLists /\ NoCounts(a) /\ b \in ItemLists /\ NoCounts(b) /\ c \in ItemLists
        /\ NoCounts(c) /\ k \in Nat
    BY ProofStateItems
  <1>2. Types(a) = Some(1, "scalar") /\ Types(b) = Some(k, "point") /\ Types(c) = Some(k, "scalar")
    BY ProofStateTypes
  <1>3. Tail3(s) = Join(ab, c)
    BY DEF Tail3
  <1> HIDE DEF a, b, c
  <1>4. ab \in ItemLists /\ NoCounts(ab) /\ Types(ab) = Join(Types(a), Types(b))
    BY <1>1, ItemsFacts, NoCountsJoin, TypesJoin
  <1> HIDE DEF ab
  <1>5. Tail3(s) \in ItemLists /\ NoCounts(Tail3(s)) /\ Types(Tail3(s)) = Join(Types(ab), Types(c))
    BY <1>1, <1>3, <1>4, ItemsFacts, NoCountsJoin, TypesJoin
  <1>6. Types(Tail3(s)) = Join(Join(Some(1, "scalar"), Some(k, "point")), Some(k, "scalar"))
    BY <1>2, <1>4, <1>5
  <1>7. <<"scalar">> = Some(1, "scalar")
    BY OneType DEF TypeNames
  <1>8. StateTail(k) = Join(Join(Some(1, "scalar"), Some(k, "point")), Some(k, "scalar"))
    BY <1>7 DEF StateTail, Join
  <1>9. serialize(Tail3(s)) \in Strings /\ Len(serialize(Tail3(s))) = WidthOf(Types(Tail3(s)))
    BY <1>5, SerializeJoin, SerializeLen DEF ItemLists
  <1>10. WidthOf(Types(Tail3(s))) = 4 + k * 10
    <2>1. /\ Some(1, "scalar") \in TypeLists /\ WidthOf(Some(1, "scalar")) = 4
          /\ Some(k, "point") \in TypeLists /\ WidthOf(Some(k, "point")) = k * 6
          /\ Some(k, "scalar") \in TypeLists /\ WidthOf(Some(k, "scalar")) = k * 4
      BY <1>1, PointsAndScalars
    <2> DEFINE x == Some(1, "scalar")
               y == Some(k, "point")
               z == Some(k, "scalar")
               xy == Join(x, y)
    <2>2. x \in TypeLists /\ y \in TypeLists /\ z \in TypeLists
      BY <2>1
    <2>3. WidthOf(x) = 4 /\ WidthOf(y) = k * 6 /\ WidthOf(z) = k * 4
      BY <2>1
    <2>4. Types(Tail3(s)) = Join(xy, z)
      BY <1>6
    <2> HIDE DEF x, y, z
    <2>5. xy \in TypeLists /\ WidthOf(xy) = WidthOf(x) + WidthOf(y)
      BY <2>2, TypeListsFacts
    <2> HIDE DEF xy
    <2>6. WidthOf(Join(xy, z)) = WidthOf(xy) + WidthOf(z)
      BY <2>2, <2>5, TypeListsFacts
    <2> QED BY <1>1, <2>3, <2>4, <2>5, <2>6
  <1> QED BY <1>5, <1>6, <1>8, <1>9, <1>10

LEMMA ProofStateWritten ==
  ASSUME NEW s \in ProofStates
  PROVE  proof_gen_state_to_octets(s) = Join(FrontOf(s), serialize(Tail3(s)))
  <1> DEFINE u == BbsUnits(s.bbs_proof)
             n == Len(s.commitments)
             k == Len(s.keys)
             l == 8 * u
             bbs == bbs_proof_to_octets(s.bbs_proof)
             a == s.commitments
             b == s.s_hat
             c == <<s.challenge>>
             d == s.keys
             e == s.r_key
             ab == Join(a, b)
             cde == Tail3(s)
             counts == Join(Join(Count(l), Count(n)), Count(k))
  <1>1. bbs \in Strings /\ Len(bbs) = u
    BY ProofStateFields, BbsOctets
  <1>2. a \in ItemLists /\ b \in ItemLists /\ c \in ItemLists /\ d \in ItemLists /\ e \in ItemLists
        /\ n \in Nat /\ k \in Nat
    BY ProofStateItems
  <1>3. u \in Nat
    BY FrontFacts
  <1>4. l \in Int /\ n \in Int /\ k \in Int
    BY <1>2, <1>3
  <1>5. proof_gen_state_to_octets(s)
          = Join(Join(proof_prefix(Len(bbs), n, k), bbs), serialize(Five(a, b, c, d, e)))
    BY DEF proof_gen_state_to_octets, Five, Join
  <1>6. proof_prefix(Len(bbs), n, k) = serialize(<<U64(l), U64(n), U64(k)>>)
    BY <1>1 DEF proof_prefix
  <1>7. FrontOf(s) = Join(counts, Join(bbs, serialize(ab)))
    BY DEF FrontOf, CountedThree
  <1>8. cde = Join(Join(c, d), e)
    BY DEF Tail3
  <1> HIDE DEF u, n, k, l, bbs, a, b, c, d, e, ab, cde
  <1>9. serialize(<<U64(l), U64(n), U64(k)>>) = counts
    <2> DEFINE p == <<U64(l)>>
               q == <<U64(n)>>
               r == <<U64(k)>>
               pq == Join(p, q)
    <2>1. p \in ItemLists /\ q \in ItemLists /\ r \in ItemLists
          /\ Count(l) = serialize(p) /\ Count(n) = serialize(q) /\ Count(k) = serialize(r)
      BY <1>4, CountFacts DEF Count
    <2>2. <<U64(l), U64(n), U64(k)>> = Join(pq, r)
      BY DEF Join
    <2> HIDE DEF p, q, r
    <2>3. pq \in ItemLists /\ serialize(pq) = Join(serialize(p), serialize(q))
      BY <2>1, ItemsFacts, SerializeJoin
    <2> HIDE DEF pq
    <2>4. serialize(Join(pq, r)) = Join(serialize(pq), serialize(r))
      BY <2>1, <2>3, SerializeJoin
    <2> QED BY <2>1, <2>2, <2>3, <2>4
  <1>10. Five(a, b, c, d, e) = Join(ab, cde) /\ ab \in ItemLists /\ cde \in ItemLists
    <2>1. ab \in ItemLists /\ Join(c, d) \in ItemLists
      BY <1>2, ItemsFacts DEF ab
    <2>2. Join(Join(ab, c), d) = Join(ab, Join(c, d))
      BY <1>2, <2>1, ItemsAssociate
    <2>3. Join(Join(ab, Join(c, d)), e) = Join(ab, Join(Join(c, d), e))
      BY <1>2, <2>1, ItemsAssociate
    <2>4. cde \in ItemLists
      BY <1>2, <1>8, <2>1, ItemsFacts
    <2> QED BY <1>8, <2>1, <2>2, <2>3, <2>4 DEF Five, ab
  <1>11. /\ serialize(Join(ab, cde)) = Join(serialize(ab), serialize(cde))
         /\ serialize(ab) \in Strings /\ serialize(cde) \in Strings
    BY <1>10, SerializeJoin
  <1>12. counts \in Strings
    BY <1>4, CountsJoined
  <1> DEFINE sab == serialize(ab)
             scde == serialize(cde)
  <1>13. proof_gen_state_to_octets(s) = Join(Join(counts, bbs), Join(sab, scde))
    BY <1>5, <1>6, <1>9, <1>10, <1>11
  <1>14. sab \in Strings /\ scde \in Strings
    BY <1>11
  <1>15. FrontOf(s) = Join(counts, Join(bbs, sab))
    BY <1>7
  <1> HIDE DEF sab, scde, counts
  <1>16. Join(Join(counts, bbs), Join(sab, scde)) = Join(Join(Join(counts, bbs), sab), scde)
    <2>1. Join(counts, bbs) \in Strings
      BY <1>1, <1>12, JoinFacts
    <2> QED BY <1>14, <2>1, JoinAssociate
  <1>17. Join(Join(counts, bbs), sab) = Join(counts, Join(bbs, sab))
    BY <1>1, <1>12, <1>14, JoinAssociate
  <1> QED BY <1>13, <1>15, <1>16, <1>17 DEF scde, cde

\* The units of a state, and of a proof: 8 octets each.
GenStateOctets(l, n, k) == 24 + l + 8 * ((n + k) * 6 + (1 + n + k) * 4)
ProofOctets(l, n, k) == 24 + l + 8 * (n * (6 + 4) + k * (6 + 8))

GenStateFrom(octets, k, x) ==
  [incomplete_proof |-> Part(octets, 1, Len(octets) - k * 10 - 4),
   challenge |-> x[1], keys |-> Part(x, 2, 1 + k), r_key |-> Part(x, 2 + k, 1 + 2 * k)]

\* The reader of states, for a string whose counts are known.
LEMMA GenStateReader ==
  ASSUME NEW octets, NEW l, NEW n, NEW k, StartsWithThree(octets, l, n, k)
  PROVE  octets_to_proof_gen_state(octets) =
           IF 8 * Len(octets) # GenStateOctets(l, n, k) THEN {}
           ELSE {GenStateFrom(octets, k, x) :
                   x \in ReadAll(octets, Len(octets) - k * 10 - 4 + 1, StateTail(k))}
  <1> DEFINE R(ll, nn, kk) ==
         LET end == Len(octets) - kk * (6 + 4) - 4
         IN  IF ~ Exactly(8 * Len(octets), 24 + ll + 8 * ((nn + kk) * 6 + (1 + nn + kk) * 4))
             THEN {}
             ELSE {[incomplete_proof |-> SubSeq(octets, 1, end),
                    challenge |-> x[1], keys |-> SubSeq(x, 2, 1 + kk),
                    r_key |-> SubSeq(x, 2 + kk, 1 + 2 * kk)] :
                     x \in ReadAll(octets, end + 1, StateTail(kk))}
  <1>1. octets_to_proof_gen_state(octets) =
          UNION {UNION {UNION {R(ll, nn, kk) : kk \in read_u64(octets, 3)} :
                        nn \in read_u64(octets, 2)} : ll \in read_u64(octets, 1)}
    BY DEF octets_to_proof_gen_state
  <1>2. R(l, n, k) = IF 8 * Len(octets) # GenStateOctets(l, n, k) THEN {}
           ELSE {GenStateFrom(octets, k, x) :
                   x \in ReadAll(octets, Len(octets) - k * 10 - 4 + 1, StateTail(k))}
    <2>1. 6 + 4 = 10
      OBVIOUS
    <2> QED BY <2>1 DEF GenStateFrom, Part, GenStateOctets, Exactly
  <1> HIDE DEF R
  <1>3. octets_to_proof_gen_state(octets) = R(l, n, k)
    BY <1>1 DEF StartsWithThree
  <1> QED BY <1>2, <1>3

ProofTypes(n, k) == Join(Join(Some(n, "point"), Some(n, "scalar")), Some(k, "point"))

ProofFrom(p, n, k, x, octets) ==
  [bbs_proof |-> p, commitments |-> Part(x, 1, n), s_hat |-> Part(x, n + 1, 2 * n),
   keys |-> Part(x, 2 * n + 1, 2 * n + k), signatures |-> LastSignatures(octets, k)]

\* The reader of proofs, for a string whose counts are known.
LEMMA ProofReader ==
  ASSUME NEW octets, NEW l, NEW n, NEW k, StartsWithThree(octets, l, n, k)
  PROVE  octets_to_blind_proof(octets) =
           IF 8 * Len(octets) # ProofOctets(l, n, k) THEN {}
           ELSE UNION {{ProofFrom(p, n, k, x, octets) :
                          x \in ReadAll(octets, 4 + (l \div 8), ProofTypes(n, k))} :
                       p \in octets_to_bbs_proof(Part(octets, 4, 3 + (l \div 8)))}
  <1> DEFINE R(ll, nn, kk) ==
         LET units == ll \div 8
         IN  IF ~ Exactly(8 * Len(octets), 24 + ll + 8 * (nn * (6 + 4) + kk * (6 + 8)))
             THEN {}
             ELSE UNION {{[bbs_proof |-> p, commitments |-> SubSeq(x, 1, nn),
                      s_hat |-> SubSeq(x, nn + 1, 2 * nn),
                      keys |-> SubSeq(x, 2 * nn + 1, 2 * nn + kk),
                      signatures |-> LastSignatures(octets, kk)] :
               x \in ReadAll(octets, 4 + units, Some(nn, "point") \o
                               Some(nn, "scalar") \o Some(kk, "point"))} :
               p \in octets_to_bbs_proof(SubSeq(octets, 4, 3 + units))}
  <1>1. octets_to_blind_proof(octets) =
          UNION {UNION {UNION {R(ll, nn, kk) : kk \in read_u64(octets, 3)} :
                        nn \in read_u64(octets, 2)} : ll \in read_u64(octets, 1)}
    BY DEF octets_to_blind_proof
  <1>2. R(l, n, k) = IF 8 * Len(octets) # ProofOctets(l, n, k) THEN {}
           ELSE UNION {{ProofFrom(p, n, k, x, octets) :
                          x \in ReadAll(octets, 4 + (l \div 8), ProofTypes(n, k))} :
                       p \in octets_to_bbs_proof(Part(octets, 4, 3 + (l \div 8)))}
    BY DEF ProofFrom, Part, ProofOctets, ProofTypes, Join, Exactly
  <1> HIDE DEF R
  <1>3. octets_to_blind_proof(octets) = R(l, n, k)
    BY <1>1 DEF StartsWithThree
  <1> QED BY <1>2, <1>3

\* The octets of a state, and what is read of them.
IncompleteProof(s) ==
  [incomplete_proof |-> FrontOf(s), challenge |-> s.challenge, keys |-> s.keys,
   r_key |-> s.r_key]

LEMMA TailPlaces ==
  ASSUME NEW s \in ProofStates, NEW k \in Nat, k = Len(s.keys), NEW x, x = Tail3(s)
  PROVE  /\ x[1] = s.challenge /\ Part(x, 2, 1 + k) = s.keys
         /\ Part(x, 2 + k, 1 + 2 * k) = s.r_key
  <1> DEFINE a == <<s.challenge>>
             b == s.keys
             c == s.r_key
             ab == Join(a, b)
             bc == Join(b, c)
  <1>1. /\ a \in ItemLists /\ b \in ItemLists /\ c \in ItemLists
        /\ Len(a) = 1 /\ Len(b) = k /\ Len(c) = k
    BY ProofStateItems, ProofStateFields
  <1>2. x = Join(ab, c)
    BY DEF Tail3
  <1> HIDE DEF a, b, c
  <1>3. ab \in ItemLists /\ Len(ab) = Len(a) + Len(b) /\ bc \in ItemLists
    BY <1>1, ItemsFacts
  <1>4. x = Join(a, bc)
    BY <1>1, <1>2, ItemsAssociate
  <1>5. x = Join(Join(a, b), c)
    BY <1>2
  <1> HIDE DEF ab, bc
  <1>6. Part(x, 1, Len(a)) = a
    BY ONLY <1>1, <1>3, <1>4, ItemFirst
  <1>7. Part(x, Len(a) + 1, Len(a) + Len(b)) = b
    BY ONLY <1>1, <1>5, ItemPart
  <1>8. Part(x, Len(ab) + 1, Len(ab) + Len(c)) = c
    BY ONLY <1>1, <1>2, <1>3, ItemLast
  <1>9. x \in ItemLists /\ Len(x) = Len(ab) + Len(c)
    BY ONLY <1>1, <1>2, <1>3, ItemsFacts
  <1>10. /\ Part(x, 1, 1) = a /\ Part(x, 2, 1 + k) = b /\ Part(x, 2 + k, 1 + 2 * k) = c
         /\ 1 \in 1 .. Len(x)
    BY ONLY <1>1, <1>3, <1>6, <1>7, <1>8, <1>9, k \in Nat
  <1>11. x[1] = s.challenge
    BY <1>9, <1>10, OnlyItem DEF a
  <1> QED BY <1>10, <1>11 DEF b, c

LEMMA GenStateOctetsFacts ==
  ASSUME NEW s \in ProofStates, NEW octets, octets = proof_gen_state_to_octets(s)
  PROVE  /\ octets \in Strings
         /\ Len(octets) = FrontUnits(s) + 4 + Len(s.keys) * 10
         /\ StartsWithThree(octets, 8 * BbsUnits(s.bbs_proof), Len(s.commitments),
                            Len(s.keys))
         /\ octets_to_proof_gen_state(octets) = {IncompleteProof(s)}
  <1> DEFINE u == BbsUnits(s.bbs_proof)
             l == 8 * u
             n == Len(s.commitments)
             k == Len(s.keys)
             x == Tail3(s)
             rest == serialize(x)
             front == FrontOf(s)
  <1>1. u \in Nat /\ n \in Nat /\ k \in Nat
    BY FrontFacts, ProofStateItems
  <1>2. /\ x \in ItemLists /\ NoCounts(x) /\ Types(x) = StateTail(k)
        /\ rest \in Strings /\ Len(rest) = 4 + k * 10
    BY TailFacts
  <1>3. front \in Strings /\ Len(front) = FrontUnits(s)
    BY FrontFacts
  <1>4. octets = Join(front, rest)
    BY ProofStateWritten
  <1>5. FrontUnits(s) = 3 + u + n * 10
    BY DEF FrontUnits
  <1>6. /\ octets \in Strings /\ Len(octets) = FrontUnits(s) + Len(rest)
        /\ StartsWithThree(octets, l, n, k)
    BY <1>2, <1>4, FrontThen
  <1>7. x[1] = s.challenge /\ Part(x, 2, 1 + k) = s.keys /\ Part(x, 2 + k, 1 + 2 * k) = s.r_key
    BY <1>1, TailPlaces
  <1>8. l = 8 * u
    OBVIOUS
  <1> HIDE DEF u, l, n, k, x, front
  <1>9. 8 * Len(octets) = GenStateOctets(l, n, k)
    BY <1>1, <1>2, <1>5, <1>6, <1>8 DEF GenStateOctets
  <1>10. Len(octets) - k * 10 - 4 = Len(front)
    BY <1>1, <1>2, <1>3, <1>5, <1>6
  <1>11. ReadAll(octets, Len(front) + 1, StateTail(k)) = {x}
    <2>1. Join(rest, <<>>) = rest /\ <<>> \in Strings
      BY <1>2, JoinEmpty
    <2>2. ReadAll(Join(front, Join(serialize(x), <<>>)), Len(front) + 1, Types(x)) = {x}
      BY ONLY <1>2, <1>3, <2>1, ReadBackAt
    <2> QED BY <1>2, <1>4, <2>1, <2>2
  <1>12. Part(octets, 1, Len(front)) = front
    <2>1. <<>> \in Strings /\ Join(Join(<<>>, front), rest) = Join(front, rest)
      BY <1>3, JoinEmpty
    <2>2. Part(octets, Len(<<>>) + 1, Len(<<>>) + Len(front)) = front
      BY <1>2, <1>3, <1>4, <2>1, StringPart
    <2>3. Len(<<>>) + 1 = 1 /\ Len(<<>>) + Len(front) = Len(front)
      BY <1>3, JoinFacts
    <2> QED BY <2>2, <2>3
  <1> HIDE DEF rest
  <1>13. octets_to_proof_gen_state(octets) = {GenStateFrom(octets, k, y) :
           y \in ReadAll(octets, Len(octets) - k * 10 - 4 + 1, StateTail(k))}
    BY <1>6, <1>9, GenStateReader
  <1>14. octets_to_proof_gen_state(octets) = {GenStateFrom(octets, k, x)}
    BY <1>10, <1>11, <1>13
  <1>15. GenStateFrom(octets, k, x) = IncompleteProof(s)
    BY <1>7, <1>10, <1>12 DEF GenStateFrom, IncompleteProof, front
  <1>16. Len(octets) = FrontUnits(s) + 4 + k * 10
    BY <1>1, <1>2, <1>5, <1>6
  <1> QED BY <1>6, <1>14, <1>15, <1>16 DEF u, l, n, k

\* The octets of a proof.
ProofString(s, g) == Join(FrontOf(s), Join(serialize(s.keys), FlattenSeq(g)))

BlindProof(s, g) ==
  [bbs_proof |-> s.bbs_proof, commitments |-> s.commitments, s_hat |-> s.s_hat,
   keys |-> s.keys, signatures |-> g]

LEMMA FrontParts ==
  ASSUME NEW s \in ProofStates
  PROVE  \E counts \in Strings :
           /\ Len(counts) = 3
           /\ FrontOf(s) = Join(Join(counts, bbs_proof_to_octets(s.bbs_proof)),
                              serialize(Join(s.commitments, s.s_hat)))
  <1> DEFINE l == 8 * BbsUnits(s.bbs_proof)
             n == Len(s.commitments)
             k == Len(s.keys)
             bbs == bbs_proof_to_octets(s.bbs_proof)
             x == serialize(Join(s.commitments, s.s_hat))
             counts == Join(Join(Count(l), Count(n)), Count(k))
  <1>1. BbsUnits(s.bbs_proof) \in Nat /\ n \in Nat /\ k \in Nat
    BY FrontFacts, ProofStateItems
  <1>2. l \in Int /\ n \in Int /\ k \in Int
    BY <1>1
  <1>3. bbs \in Strings
    BY ProofStateFields, BbsOctets
  <1>4. x \in Strings
    <2>1. Join(s.commitments, s.s_hat) \in ItemLists
      BY ProofStateItems, ItemsFacts
    <2> QED BY <2>1, SerializeJoin
  <1>5. FrontOf(s) = Join(counts, Join(bbs, x))
    BY DEF FrontOf, CountedThree
  <1> HIDE DEF l, n, k, bbs, x
  <1>6. counts \in Strings /\ Len(counts) = 3
    BY <1>2, CountsJoined
  <1> HIDE DEF counts
  <1>7. FrontOf(s) = Join(Join(counts, bbs), x)
    BY <1>3, <1>4, <1>5, <1>6, JoinAssociate
  <1> QED BY <1>6, <1>7 DEF bbs, x

LEMMA ProofItems ==
  ASSUME NEW s \in ProofStates, NEW n \in Nat, n = Len(s.commitments),
         NEW k \in Nat, k = Len(s.keys),
         NEW x, x = Join(Join(s.commitments, s.s_hat), s.keys)
  PROVE  /\ x \in ItemLists /\ NoCounts(x) /\ Types(x) = ProofTypes(n, k)
         /\ serialize(x)
              = Join(serialize(Join(s.commitments, s.s_hat)), serialize(s.keys))
         /\ serialize(Join(s.commitments, s.s_hat)) \in Strings
         /\ serialize(s.keys) \in Strings /\ Len(serialize(s.keys)) = k * 6
         /\ \A octets : ProofFrom(s.bbs_proof, n, k, x, octets)
                          = BlindProof(s, LastSignatures(octets, k))
  <1> DEFINE a == s.commitments
             b == s.s_hat
             c == s.keys
             ab == Join(a, b)
             bc == Join(b, c)
  <1>1. /\ a \in ItemLists /\ b \in ItemLists /\ c \in ItemLists
        /\ NoCounts(a) /\ NoCounts(b) /\ NoCounts(c)
    BY ProofStateItems
  <1>2. Len(a) = n /\ Len(b) = n /\ Len(c) = k
    BY ProofStateFields
  <1>3. Types(a) = Some(n, "point") /\ Types(b) = Some(n, "scalar") /\ Types(c) = Some(k, "point")
    BY ProofStateTypes
  <1>4. x = Join(Join(a, b), c)
    OBVIOUS
  <1> HIDE DEF a, b, c
  <1>5. ab \in ItemLists /\ NoCounts(ab) /\ Len(ab) = Len(a) + Len(b) /\ bc \in ItemLists
    BY <1>1, ItemsFacts, NoCountsJoin
  <1>6. Types(ab) = Join(Types(a), Types(b))
    BY <1>1, TypesJoin
  <1>7. x = Join(a, bc)
    BY <1>1, <1>4, ItemsAssociate
  <1>8. x = Join(ab, c)
    BY <1>4
  <1> HIDE DEF ab, bc
  <1>9. x \in ItemLists /\ NoCounts(x)
    BY <1>1, <1>5, <1>8, ItemsFacts, NoCountsJoin
  <1>10. Types(x) = Join(Types(ab), Types(c))
    BY <1>1, <1>5, <1>8, TypesJoin
  <1>11. Types(x) = ProofTypes(n, k)
    BY <1>3, <1>6, <1>10 DEF ProofTypes
  <1>12. /\ serialize(x) = Join(serialize(ab), serialize(c))
         /\ serialize(ab) \in Strings /\ serialize(c) \in Strings
    BY <1>1, <1>5, <1>8, SerializeJoin
  <1>13. Len(serialize(c)) = k * 6
    <2>1. Len(serialize(c)) = WidthOf(Types(c))
      BY <1>1, SerializeLen DEF ItemLists
    <2> QED BY <1>3, <2>1, PointsAndScalars
  <1>14. Part(x, 1, Len(a)) = a
    BY ONLY <1>1, <1>5, <1>7, ItemFirst
  <1>15. Part(x, Len(a) + 1, Len(a) + Len(b)) = b
    BY ONLY <1>1, <1>4, ItemPart
  <1>16. Part(x, Len(ab) + 1, Len(ab) + Len(c)) = c
    BY ONLY <1>1, <1>5, <1>8, ItemLast
  <1>17. Part(x, 1, n) = a /\ Part(x, n + 1, 2 * n) = b /\ Part(x, 2 * n + 1, 2 * n + k) = c
    BY ONLY <1>2, <1>5, <1>14, <1>15, <1>16, n \in Nat, k \in Nat
  <1>18. ASSUME NEW octets
         PROVE  ProofFrom(s.bbs_proof, n, k, x, octets)
                  = BlindProof(s, LastSignatures(octets, k))
    BY <1>17 DEF a, b, c, ProofFrom, BlindProof
  <1> QED BY <1>9, <1>11, <1>12, <1>13, <1>18 DEF a, b, c, ab

\* A proof is read back as what its state had, and its device signatures.
LEMMA ProofStringFacts ==
  ASSUME NEW s \in ProofStates, NEW g \in SignatureLists, Len(g) = Len(s.keys),
         NEW octets, octets = ProofString(s, g)
  PROVE  /\ octets \in Strings
         /\ Len(octets) = FrontUnits(s) + Len(s.keys) * 14
         /\ StartsWithThree(octets, 8 * BbsUnits(s.bbs_proof), Len(s.commitments),
                            Len(s.keys))
         /\ octets_to_blind_proof(octets) = {BlindProof(s, g)}
  <1> DEFINE u == BbsUnits(s.bbs_proof)
             l == 8 * u
             n == Len(s.commitments)
             k == Len(s.keys)
             bbs == bbs_proof_to_octets(s.bbs_proof)
             x == Join(Join(s.commitments, s.s_hat), s.keys)
             head == serialize(Join(s.commitments, s.s_hat))
             keys == serialize(s.keys)
             sigs == FlattenSeq(g)
             front == FrontOf(s)
             rest == Join(keys, sigs)
  <1>1. u \in Nat /\ n \in Nat /\ k \in Nat
    BY FrontFacts, ProofStateItems
  <1>2. /\ x \in ItemLists /\ NoCounts(x) /\ Types(x) = ProofTypes(n, k)
        /\ serialize(x) = Join(head, keys)
        /\ head \in Strings /\ keys \in Strings /\ Len(keys) = k * 6
    BY <1>1, ProofItems
  <1>3. ProofFrom(s.bbs_proof, n, k, x, octets) = BlindProof(s, LastSignatures(octets, k))
    <2>1. /\ n \in Nat /\ n = Len(s.commitments) /\ k \in Nat /\ k = Len(s.keys)
          /\ x = Join(Join(s.commitments, s.s_hat), s.keys)
      BY <1>1
    <2> HIDE DEF n, k, x
    <2> QED BY <2>1, ProofItems
  <1>4. sigs \in Strings /\ Len(sigs) = 8 * k
    BY FlattenSignatures
  <1>5. bbs \in Strings /\ Len(bbs) = u /\ octets_to_bbs_proof(bbs) = {s.bbs_proof}
    BY ProofStateFields, BbsOctets
  <1>6. PICK counts \in Strings : Len(counts) = 3 /\ front = Join(Join(counts, bbs), head)
    BY FrontParts
  <1>7. octets = Join(front, rest)
    BY DEF ProofString
  <1>8. front \in Strings /\ Len(front) = FrontUnits(s) /\ FrontUnits(s) = 3 + u + n * 10
    BY FrontFacts DEF FrontUnits
  <1>9. l = 8 * u
    OBVIOUS
  <1>10. ASSUME NEW rrr \in Strings, octets = Join(front, rrr)
         PROVE  /\ octets \in Strings /\ Len(octets) = FrontUnits(s) + Len(rrr)
                /\ StartsWithThree(octets, l, n, k)
    BY <1>10, FrontThen
  <1>11. g \in SignatureLists /\ Len(g) = k
    OBVIOUS
  <1> HIDE DEF u, l, n, k, bbs, x, head, keys, front
  <1>12. rest \in Strings /\ Len(rest) = Len(keys) + Len(sigs)
    BY <1>2, <1>4, JoinFacts
  <1>13. Join(front, keys) \in Strings /\ octets = Join(Join(front, keys), sigs)
    BY <1>2, <1>4, <1>7, <1>8, JoinFacts, JoinAssociate
  <1>14. LastSignatures(octets, k) = g
    BY <1>11, <1>13, LastSignaturesAre
  <1> HIDE DEF sigs, rest
  <1>15. octets \in Strings /\ Len(octets) = FrontUnits(s) + Len(rest)
         /\ StartsWithThree(octets, l, n, k)
    BY <1>7, <1>10, <1>12
  <1>16. Len(octets) = FrontUnits(s) + k * 14
    BY <1>1, <1>2, <1>4, <1>8, <1>12, <1>15
  <1>17. 8 * Len(octets) = ProofOctets(l, n, k)
    BY <1>1, <1>8, <1>9, <1>16 DEF ProofOctets
  <1>18. l \div 8 = u
    BY <1>1, <1>9
  <1> DEFINE cb == Join(counts, bbs)
  <1>19. cb \in Strings /\ Len(cb) = 3 + u
    BY <1>5, <1>6, JoinFacts
  <1>20. Join(head, rest) \in Strings /\ octets = Join(cb, Join(head, rest))
    <2>1. front = Join(cb, head)
      BY <1>6
    <2> HIDE DEF cb
    <2>2. Join(Join(cb, head), rest) = Join(cb, Join(head, rest))
      BY <1>2, <1>12, <1>19, JoinAssociate
    <2> QED BY <1>2, <1>7, <1>12, <2>1, <2>2, JoinFacts
  <1>21. Part(octets, 4, 3 + u) = bbs
    <2>1. octets = Join(Join(counts, bbs), Join(head, rest))
      BY <1>20
    <2>2. Part(octets, Len(counts) + 1, Len(counts) + Len(bbs)) = bbs
      BY ONLY <1>5, <1>6, <1>20, <2>1, counts \in Strings, StringPart
    <2>3. Len(counts) + 1 = 4 /\ Len(counts) + Len(bbs) = 3 + u
      BY <1>5, <1>6
    <2> QED BY <2>2, <2>3
  <1> HIDE DEF cb
  <1>22. Join(head, rest) = Join(serialize(x), sigs)
    BY <1>2, <1>4, JoinAssociate DEF rest
  <1>23. ReadAll(octets, 4 + u, ProofTypes(n, k)) = {x}
    <2>1. ReadAll(Join(cb, Join(serialize(x), sigs)), Len(cb) + 1, Types(x)) = {x}
      BY ONLY <1>2, <1>4, <1>19, ReadBackAt
    <2>2. Len(cb) + 1 = 4 + u
      BY <1>1, <1>19
    <2> QED BY <1>2, <1>20, <1>22, <2>1, <2>2
  <1>24. octets_to_blind_proof(octets) =
            UNION {{ProofFrom(p, n, k, y, octets) :
                          y \in ReadAll(octets, 4 + u, ProofTypes(n, k))} :
                       p \in octets_to_bbs_proof(Part(octets, 4, 3 + u))}
    <2> DEFINE W(q) == UNION {{ProofFrom(p, n, k, y, octets) :
                          y \in ReadAll(octets, 4 + q, ProofTypes(n, k))} :
                       p \in octets_to_bbs_proof(Part(octets, 4, 3 + q))}
    <2>1. octets_to_blind_proof(octets) = W(l \div 8)
      BY <1>15, <1>17, ProofReader
    <2> HIDE DEF W
    <2>2. octets_to_blind_proof(octets) = W(u)
      BY <1>18, <2>1
    <2> QED BY <2>2 DEF W
  <1> DEFINE V(p) == {ProofFrom(p, n, k, y, octets) :
                        y \in ReadAll(octets, 4 + u, ProofTypes(n, k))}
  <1>25. octets_to_blind_proof(octets) = {ProofFrom(s.bbs_proof, n, k, x, octets)}
    <2>1. octets_to_blind_proof(octets) = UNION {V(p) : p \in {s.bbs_proof}}
      BY <1>5, <1>21, <1>24
    <2>2. V(s.bbs_proof) = {ProofFrom(s.bbs_proof, n, k, x, octets)}
      BY <1>23
    <2> HIDE DEF V
    <2> QED BY <2>1, <2>2
  <1>26. ProofFrom(s.bbs_proof, n, k, x, octets) = BlindProof(s, g)
    BY <1>3, <1>14
  <1> QED BY <1>15, <1>16, <1>25, <1>26 DEF u, l, n, k

-----------------------------------------------------------------------------
(* What is refused.                                                        *)

\* A number is no point, and a point no number.
LEMMA CountIsNoPoint ==
  ASSUME NEW octets, NEW at, read_u64(octets, at) # {}
  PROVE  octets_to_point_e1(octets, at) = {}
  <1>1. octets[at][1].type = "u64"
    BY DEF read_u64
  <1> QED BY <1>1 DEF octets_to_point_e1

LEMMA PointIsNoCount ==
  ASSUME NEW octets, NEW at, NEW x, x.type = "point", octets[at] = <<x, 1>>
  PROVE  read_u64(octets, at) = {} /\ scalar_from_be(octets, at) = {}
  <1>1. octets[at][1] = x /\ octets[at][1].type = "point"
    OBVIOUS
  <1> QED BY <1>1 DEF read_u64, scalar_from_be

LEMMA ScalarIsNoPoint ==
  ASSUME NEW octets, NEW at, NEW x, x.type = "scalar", octets[at] = <<x, 1>>
  PROVE  octets_to_point_e1(octets, at) = {}
  <1>1. octets[at][1] = x
    OBVIOUS
  <1> QED BY <1>1 DEF octets_to_point_e1

\* What has no first count, or no third one, is refused by who needs it.
LEMMA NoFirstCount ==
  ASSUME NEW octets, read_u64(octets, 1) = {}
  PROVE  /\ octets_to_commitment_state(octets) = {}
         /\ octets_to_commitment_with_proof(octets) = {}
         /\ octets_to_proof_gen_state(octets) = {}
         /\ octets_to_blind_proof(octets) = {}
  BY DEF octets_to_commitment_state, octets_to_commitment_with_proof,
         octets_to_proof_gen_state, octets_to_blind_proof

LEMMA NoSecondCount ==
  ASSUME NEW octets, read_u64(octets, 2) = {}
  PROVE  /\ octets_to_commitment_state(octets) = {}
         /\ octets_to_commitment_with_proof(octets) = {}
         /\ octets_to_proof_gen_state(octets) = {}
         /\ octets_to_blind_proof(octets) = {}
  BY DEF octets_to_commitment_state, octets_to_commitment_with_proof,
         octets_to_proof_gen_state, octets_to_blind_proof

LEMMA NoThirdCount ==
  ASSUME NEW octets, read_u64(octets, 3) = {}
  PROVE  octets_to_proof_gen_state(octets) = {} /\ octets_to_blind_proof(octets) = {}
  BY DEF octets_to_proof_gen_state, octets_to_blind_proof

\* The first item of those that are read.
LEMMA FirstRefused ==
  ASSUME NEW octets, NEW at \in Int, NEW types \in Seq(TypeNames), Len(types) >= 1,
         ReadOne(octets, at, types[1]) = {}
  PROVE  ReadAll(octets, at, types) = {}
  <1>1. 1 \in 1 .. Len(types)
    BY LenProperties
  <1>2. SubSeq(types, 1, 1 - 1) = <<>>
    <2>1. 1 - 1 \in Int /\ 1 \in Int /\ 1 - 1 < 1
      OBVIOUS
    <2> QED BY <2>1, SubSeqEmpty
  <1>3. PlaceOf(at, types, 1) = at
    <2>1. PlaceOf(at, types, 1) = at + WidthOf(SubSeq(types, 1, 1 - 1))
      BY DEF PlaceOf
    <2>2. WidthOf(SubSeq(types, 1, 1 - 1)) = 0
      BY <1>2, WidthEmpty
    <2> QED BY <2>1, <2>2
  <1> QED BY <1>1, <1>3, ReadRefused

LEMMA JoinFirst ==
  ASSUME NEW a \in TypeLists, NEW b \in TypeLists, Len(a) >= 1
  PROVE  Join(a, b)[1] = a[1] /\ Len(Join(a, b)) >= 1
  <1>1. a \in Seq(TypeNames) /\ b \in Seq(TypeNames) /\ Len(a) \in Nat /\ Len(b) \in Nat
    BY LenProperties DEF TypeLists
  <1>2. 1 \in 1 .. Len(a) + Len(b) /\ 1 <= Len(a)
    BY <1>1
  <1>3. (a \o b)[1] = a[1] /\ Len(a \o b) = Len(a) + Len(b)
    BY <1>1, <1>2, ConcatProperties
  <1> QED BY <1>1, <1>3 DEF Join

LEMMA CommitmentStartsWithPoint ==
  ASSUME NEW m \in Nat, NEW k \in Nat
  PROVE  /\ StateTypes(m, k) \in Seq(TypeNames) /\ Len(StateTypes(m, k)) >= 1
         /\ StateTypes(m, k)[1] = "point"
         /\ CommitmentTypes(m, k) \in Seq(TypeNames) /\ Len(CommitmentTypes(m, k)) >= 1
         /\ CommitmentTypes(m, k)[1] = "point"
  <1> DEFINE a == Some(1, "point")
             b == Some(2 + m, "scalar")
             c == Some(k, "point")
             d == Some(1 + k, "point")
  <1>1. /\ a \in TypeLists /\ Len(a) >= 1 /\ b \in TypeLists /\ c \in TypeLists
        /\ d \in TypeLists /\ Len(d) >= 1
    <2>1. 1 \in Nat /\ 2 + m \in Nat /\ 1 + k \in Nat /\ "point" \in TypeNames /\ "scalar" \in TypeNames
      BY DEF TypeNames
    <2> QED BY <2>1, SomeTypes
  <1>2. a[1] = "point" /\ d[1] = "point"
    BY DEF Some
  <1>3. StateTypes(m, k) = Join(Join(a, b), c) /\ CommitmentTypes(m, k) = Join(d, b)
    BY DEF StateTypes, CommitmentTypes
  <1> HIDE DEF a, b, c, d
  <1>4. Join(a, b) \in TypeLists /\ Join(a, b)[1] = "point" /\ Len(Join(a, b)) >= 1
    BY <1>1, <1>2, TypeListsFacts, JoinFirst
  <1>5. /\ Join(Join(a, b), c) \in TypeLists /\ Join(Join(a, b), c)[1] = "point"
        /\ Len(Join(Join(a, b), c)) >= 1
    BY <1>1, <1>4, TypeListsFacts, JoinFirst
  <1>6. Join(d, b) \in TypeLists /\ Join(d, b)[1] = "point" /\ Len(Join(d, b)) >= 1
    BY <1>1, <1>2, TypeListsFacts, JoinFirst
  <1> QED BY <1>3, <1>5, <1>6 DEF TypeLists

\* A string that starts with two counts is no signature, and with three counts
\* no commitment.
LEMMA CountedIsNoSignature ==
  ASSUME NEW octets, read_u64(octets, 1) # {}
  PROVE  octets_to_signature(octets) = {}
  <1>1. <<"point", "scalar">> \in Seq(TypeNames) /\ Len(<<"point", "scalar">>) >= 1
        /\ <<"point", "scalar">>[1] = "point"
    BY DEF TypeNames
  <1>2. ReadOne(octets, 1, "point") = {}
    BY CountIsNoPoint DEF ReadOne
  <1> DEFINE t == <<"point", "scalar">>
  <1>3. t \in Seq(TypeNames) /\ Len(t) >= 1 /\ t[1] = "point"
    BY <1>1
  <1>4. octets_to_signature(octets) = IF Len(octets) # 10 THEN {}
          ELSE {[a |-> x[1], e |-> x[2]] : x \in ReadAll(octets, 1, t)}
    BY DEF octets_to_signature, Exactly
  <1> HIDE DEF t
  <1>5. ReadAll(octets, 1, t) = {}
    BY <1>2, <1>3, FirstRefused
  <1> QED BY <1>4, <1>5

LEMMA ThreeCountsAreNoCommitment ==
  ASSUME NEW octets, NEW l \in Nat, NEW n \in Nat, NEW k, StartsWithThree(octets, l, n, k)
  PROVE  /\ octets_to_commitment_state(octets) = {}
         /\ octets_to_commitment_with_proof(octets) = {}
         /\ octets_to_signature(octets) = {}
  <1>1. StartsWithTwo(octets, l, n) /\ read_u64(octets, 3) # {} /\ read_u64(octets, 1) # {}
    BY DEF StartsWithThree, StartsWithTwo
  <1>2. ReadOne(octets, 3, "point") = {}
    BY <1>1, CountIsNoPoint DEF ReadOne
  <1> DEFINE t == StateTypes(l, n)
             c == CommitmentTypes(l, n)
  <1>3. t \in Seq(TypeNames) /\ Len(t) >= 1 /\ t[1] = "point"
        /\ c \in Seq(TypeNames) /\ Len(c) >= 1 /\ c[1] = "point"
    BY CommitmentStartsWithPoint
  <1>4. octets_to_commitment_state(octets) =
           IF Len(octets) # StateUnits(l, n) THEN {}
           ELSE {StateOf(l, n, x) : x \in ReadAll(octets, 3, t)}
    BY <1>1, StateReader
  <1>5. octets_to_commitment_with_proof(octets) =
           IF Len(octets) # CommitmentUnits(l, n) THEN {}
           ELSE {CommitmentFrom(l, n, x, octets) : x \in ReadAll(octets, 3, c)}
    BY <1>1, CommitmentReader
  <1> HIDE DEF t, c
  <1>6. ReadAll(octets, 3, t) = {} /\ ReadAll(octets, 3, c) = {}
    BY <1>2, <1>3, FirstRefused
  <1> QED BY <1>1, <1>4, <1>5, <1>6, CountedIsNoSignature

\* The first unit after a part of a string is that of the first item there.
FirstAfter(octets, a, x) == octets[Len(a) + 1] = <<x, 1>>

LEMMA ItemAfter ==
  ASSUME NEW a \in Strings, NEW x \in Items, NEW items \in ItemLists, NEW b \in Strings,
         NEW y, y = Join(<<x>>, items),
         NEW octets, octets = Join(a, Join(serialize(y), b))
  PROVE  FirstAfter(octets, a, x)
  <1> DEFINE u == Units(x)
             v == serialize(items)
             r == Join(v, b)
             w == Join(u, r)
  <1>1. <<x>> \in ItemLists /\ serialize(<<x>>) = u
    BY OneItem
  <1>2. v \in Strings /\ u \in Strings /\ serialize(y) = Join(u, v)
    BY <1>1, SerializeJoin
  <1>3. Len(u) >= 1 /\ u[1] = <<x, 1>> /\ Len(u) \in Nat
    <2>1. Len(u) = UnitsOf(x.type) /\ u[1] = <<x, 1>> /\ UnitsOf(x.type) \in 1 .. 6
      BY UnitsFacts
    <2> QED BY <2>1
  <1> HIDE DEF u, v
  <1>4. r \in Strings /\ Len(r) \in Nat
    BY <1>2, JoinFacts
  <1>5. Join(serialize(y), b) = w
    BY <1>2, JoinAssociate
  <1> HIDE DEF r
  <1>6. w \in Strings /\ Len(w) = Len(u) + Len(r)
    BY <1>2, <1>4, JoinFacts
  <1>7. 1 \in 1 .. Len(u) /\ 1 \in 1 .. Len(w)
    BY <1>3, <1>4, <1>6
  <1>8. w[1] = u[1]
    BY <1>2, <1>4, <1>7, UnitBefore
  <1> HIDE DEF w
  <1>9. Join(a, w)[Len(a) + 1] = w[1]
    BY <1>6, <1>7, UnitAt
  <1> QED BY <1>3, <1>5, <1>8, <1>9 DEF FirstAfter

\* What stands where the part that a state and a proof share ends.
LEMMA AfterFront ==
  ASSUME NEW s \in ProofStates, NEW x \in Items, NEW items \in ItemLists, NEW b \in Strings,
         NEW y, y = Join(<<x>>, items),
         NEW octets, octets = Join(FrontOf(s), Join(serialize(y), b))
  PROVE  octets[FrontUnits(s) + 1] = <<x, 1>>
  <1> DEFINE a == FrontOf(s)
  <1>1. a \in Strings /\ Len(a) = FrontUnits(s) /\ octets = Join(a, Join(serialize(y), b))
    BY FrontFacts
  <1> HIDE DEF a
  <1>2. FirstAfter(octets, a, x)
    BY <1>1, ItemAfter
  <1> QED BY <1>1, <1>2 DEF FirstAfter

\* A state: the challenge, of a scalar's type.
LEMMA ChallengeAfterFront ==
  ASSUME NEW s \in ProofStates, NEW octets, octets = proof_gen_state_to_octets(s)
  PROVE  octets[FrontUnits(s) + 1] = <<s.challenge, 1>>
  <1>1. <<s.challenge>> \in ItemLists /\ s.keys \in ItemLists /\ s.r_key \in ItemLists
    BY ProofStateItems
  <1>2. s.challenge \in Items
    BY ProofStateFields, OneScalar
  <1> DEFINE rest == Join(s.keys, s.r_key)
             c == <<s.challenge>>
  <1>3. rest \in ItemLists /\ Tail3(s) = Join(<<s.challenge>>, rest)
    <2>1. c \in ItemLists /\ Tail3(s) = Join(Join(c, s.keys), s.r_key)
      BY <1>1 DEF Tail3
    <2> HIDE DEF c
    <2>2. Join(Join(c, s.keys), s.r_key) = Join(c, Join(s.keys, s.r_key))
      BY <1>1, <2>1, ItemsAssociate
    <2>3. rest \in ItemLists
      BY <1>1, ItemsFacts
    <2> QED BY <2>1, <2>2, <2>3 DEF c
  <1>4. serialize(Tail3(s)) \in Strings
    BY TailFacts
  <1>5. octets = Join(FrontOf(s), Join(serialize(Tail3(s)), <<>>)) /\ <<>> \in Strings
    BY <1>4, ProofStateWritten, JoinEmpty
  <1> HIDE DEF rest
  <1> QED BY <1>2, <1>3, <1>5, AfterFront

\* A list that is not empty, as its first item and the others.
LEMMA FirstAndOthers ==
  ASSUME NEW s \in Seq(PointItems), Len(s) >= 1
  PROVE  \E rest \in ItemLists : s = Join(<<s[1]>>, rest) /\ s[1] \in PointItems
  <1>1. 1 \in 1 .. Len(s) /\ Len(s) \in Nat
    BY LenProperties
  <1>2. /\ s = (SubSeq(s, 1, 1 - 1) \o <<s[1]>>) \o SubSeq(s, 1 + 1, Len(s))
        /\ SubSeq(s, 1 + 1, Len(s)) \in Seq(PointItems)
        /\ s[1] \in PointItems
    BY <1>1, AroundItem
  <1>3. SubSeq(s, 1, 1 - 1) = <<>>
    <2>1. 1 - 1 \in Int /\ 1 \in Int /\ 1 - 1 < 1
      OBVIOUS
    <2> QED BY <2>1, SubSeqEmpty
  <1> DEFINE rest == SubSeq(s, 1 + 1, Len(s))
  <1>4. rest \in ItemLists
    BY <1>2, PointList
  <1>5. <<>> \o <<s[1]>> = <<s[1]>>
    <2>1. <<s[1]>> \in Seq(PointItems)
      BY <1>2
    <2> QED BY <2>1, ConcatEmptySeq
  <1>6. s = <<s[1]>> \o rest
    BY <1>2, <1>3, <1>5
  <1> HIDE DEF rest
  <1> QED BY <1>2, <1>4, <1>6 DEF Join

\* A proof with keys: the first key, of a point's type.
LEMMA KeyAfterFront ==
  ASSUME NEW s \in ProofStates, NEW g \in SignatureLists, Len(s.keys) >= 1,
         NEW octets, octets = ProofString(s, g)
  PROVE  octets[FrontUnits(s) + 1] = <<s.keys[1], 1>> /\ s.keys[1].type = "point"
  <1>1. s.keys \in Seq(PointItems)
    BY ProofStateFields
  <1>2. PICK rest \in ItemLists : s.keys = Join(<<s.keys[1]>>, rest) /\ s.keys[1] \in PointItems
    BY <1>1, FirstAndOthers
  <1> DEFINE y == s.keys
  <1>3. s.keys[1] \in Items /\ s.keys[1].type = "point"
    BY <1>2, OnePoint
  <1>4. FlattenSeq(g) \in Strings
    BY FlattenSignatures
  <1>5. octets = Join(FrontOf(s), Join(serialize(y), FlattenSeq(g)))
    BY DEF ProofString
  <1>6. y = Join(<<s.keys[1]>>, rest)
    BY <1>2
  <1> DEFINE x == s.keys[1]
  <1>7. octets[FrontUnits(s) + 1] = <<x, 1>>
    <2> HIDE DEF x, y
    <2> QED BY <1>2, <1>3, <1>4, <1>5, <1>6, AfterFront DEF x
  <1> QED BY <1>3, <1>7

LEMMA TypeFirst ==
  ASSUME NEW a \in TypeLists, NEW b \in TypeLists, NEW s, s = Join(a, b)
  PROVE  Part(s, 1, Len(a)) = a
  <1>1. <<>> \in Seq(TypeNames) /\ Len(<<>>) = 0 /\ a \in Seq(TypeNames) /\ b \in Seq(TypeNames)
    BY EmptySeq DEF TypeLists
  <1>2. SubSeq((<<>> \o a) \o b, Len(<<>>) + 1, Len(<<>>) + Len(a)) = a
    BY <1>1, MiddlePart
  <1>3. <<>> \o a = a /\ Len(a) \in Nat
    BY <1>1, ConcatEmptySeq, LenProperties
  <1> QED BY <1>1, <1>2, <1>3 DEF Part, Join

LEMMA TypeAfter ==
  ASSUME NEW a \in TypeLists, NEW b \in TypeLists, Len(b) >= 1, NEW s, s = Join(a, b)
  PROVE  s[Len(a) + 1] = b[1] /\ Len(a) + 1 \in 1 .. Len(s)
  <1>1. a \in Seq(TypeNames) /\ b \in Seq(TypeNames) /\ Len(a) \in Nat /\ Len(b) \in Nat
    BY LenProperties DEF TypeLists
  <1>2. Len(a) + 1 \in 1 .. Len(a) + Len(b) /\ ~ (Len(a) + 1 <= Len(a)) /\ (Len(a) + 1) - Len(a) = 1
    BY <1>1
  <1>3. /\ (a \o b)[Len(a) + 1] = b[(Len(a) + 1) - Len(a)]
        /\ Len(a \o b) = Len(a) + Len(b)
    BY <1>1, <1>2, ConcatProperties
  <1> QED BY <1>2, <1>3 DEF Join

\* Where a reader of proofs looks for the first key.
KeyAt(at, n, k) ==
  /\ 2 * n + 1 \in 1 .. Len(ProofTypes(n, k))
  /\ ProofTypes(n, k)[2 * n + 1] = "point"
  /\ PlaceOf(at, ProofTypes(n, k), 2 * n + 1) = at + n * 10

LEMMA KeyPlace ==
  ASSUME NEW at \in Int, NEW n \in Nat, NEW k \in Nat, k >= 1
  PROVE  KeyAt(at, n, k)
  <1> DEFINE a == Some(n, "point")
             b == Some(n, "scalar")
             c == Some(k, "point")
             ab == Join(a, b)
             t == Join(ab, c)
  <1>1. /\ a \in TypeLists /\ WidthOf(a) = n * 6 /\ Len(a) = n
        /\ b \in TypeLists /\ WidthOf(b) = n * 4 /\ Len(b) = n
    BY PointsAndScalars
  <1>2. c \in TypeLists /\ Len(c) = k
    BY PointsAndScalars
  <1>3. c[1] = "point"
    BY DEF Some
  <1>4. ProofTypes(n, k) = t
    BY DEF ProofTypes
  <1> HIDE DEF a, b, c
  <1>5. ab \in TypeLists /\ Len(ab) = Len(a) + Len(b) /\ WidthOf(ab) = WidthOf(a) + WidthOf(b)
    BY <1>1, TypeListsFacts
  <1> HIDE DEF ab
  <1>6. Part(t, 1, Len(ab)) = ab
    BY <1>2, <1>5, TypeFirst
  <1>7. t[Len(ab) + 1] = c[1] /\ Len(ab) + 1 \in 1 .. Len(t)
    BY <1>2, <1>5, TypeAfter
  <1> HIDE DEF t
  <1>8. Len(ab) = 2 * n /\ WidthOf(ab) = n * 10
    BY <1>1, <1>5
  <1>9. (2 * n + 1) - 1 = 2 * n
    OBVIOUS
  <1>10. PlaceOf(at, t, 2 * n + 1) = at + n * 10
    <2>1. PlaceOf(at, t, 2 * n + 1) = at + WidthOf(Part(t, 1, (2 * n + 1) - 1))
      BY DEF PlaceOf, Part
    <2> QED BY <2>1, <1>6, <1>8, <1>9
  <1> QED BY <1>3, <1>4, <1>7, <1>8, <1>10 DEF KeyAt

LEMMA ProofTypesType ==
  ASSUME NEW n \in Nat, NEW k \in Nat
  PROVE  ProofTypes(n, k) \in Seq(TypeNames)
  <1> DEFINE a == Some(n, "point")
             b == Some(n, "scalar")
             c == Some(k, "point")
  <1>1. a \in TypeLists /\ b \in TypeLists /\ c \in TypeLists
    BY PointsAndScalars
  <1>2. ProofTypes(n, k) = Join(Join(a, b), c)
    BY DEF ProofTypes
  <1> HIDE DEF a, b, c
  <1> QED BY <1>1, <1>2, TypeListsFacts DEF TypeLists

\* For one key a state and a proof are as long as each other, and for any
\* other number they are not.
LEMMA LengthsAgree ==
  ASSUME NEW n \in Nat, NEW k \in Nat, NEW b \in Nat
  PROVE  /\ 8 * (3 + b + n * 10 + 4 + k * 10) = ProofOctets(8 * b, n, k) => k = 1
         /\ 8 * (3 + b + n * 10 + k * 14) = GenStateOctets(8 * b, n, k) => k = 1
         /\ (8 * b) \div 8 = b
  BY DEF ProofOctets, GenStateOctets

LEMMA StateIsNoProof ==
  ASSUME NEW s \in ProofStates, NEW octets, octets = proof_gen_state_to_octets(s)
  PROVE  octets_to_blind_proof(octets) = {}
  <1> DEFINE n == Len(s.commitments)
             k == Len(s.keys)
             b == BbsUnits(s.bbs_proof)
             at == 4 + b
  <1>1. /\ n \in Nat /\ k \in Nat /\ b \in Nat
        /\ FrontUnits(s) = 3 + b + n * 10
    BY ProofStateItems, FrontFacts DEF FrontUnits
  <1>2. Len(octets) = FrontUnits(s) + 4 + k * 10 /\ StartsWithThree(octets, 8 * b, n, k)
    BY GenStateOctetsFacts
  <1>3. octets[FrontUnits(s) + 1] = <<s.challenge, 1>> /\ s.challenge.type = "scalar"
    BY ChallengeAfterFront, ProofStateFields, OneScalar
  <1> HIDE DEF n, k, b
  <1>4. octets_to_blind_proof(octets) =
           IF 8 * Len(octets) # ProofOctets(8 * b, n, k) THEN {}
           ELSE UNION {{ProofFrom(p, n, k, x, octets) :
                          x \in ReadAll(octets, 4 + ((8 * b) \div 8), ProofTypes(n, k))} :
                       p \in octets_to_bbs_proof(Part(octets, 4, 3 + ((8 * b) \div 8)))}
    BY <1>2, ProofReader
  <1>5. CASE 8 * Len(octets) # ProofOctets(8 * b, n, k)
    BY <1>4, <1>5
  <1>6. CASE 8 * Len(octets) = ProofOctets(8 * b, n, k)
    <2>1. k = 1 /\ (8 * b) \div 8 = b
      BY <1>1, <1>2, <1>6, LengthsAgree
    <2>2. at \in Int /\ at + n * 10 = FrontUnits(s) + 1
      BY <1>1
    <2>3. octets_to_point_e1(octets, at + n * 10) = {}
      BY <1>3, <2>2, ScalarIsNoPoint
    <2> HIDE DEF at
    <2>4. KeyAt(at, n, k)
      BY <1>1, <2>1, <2>2, KeyPlace
    <2> DEFINE t == ProofTypes(n, k)
               i == 2 * n + 1
    <2>5. t \in Seq(TypeNames)
      BY <1>1, ProofTypesType
    <2>6. i \in 1 .. Len(t) /\ t[i] = "point" /\ PlaceOf(at, t, i) = at + n * 10
      BY <2>4 DEF KeyAt
    <2> HIDE DEF t, i
    <2>7. ReadOne(octets, PlaceOf(at, t, i), t[i]) = {}
      BY <2>3, <2>6 DEF ReadOne
    <2>8. ReadAll(octets, at, t) = {}
      BY <2>2, <2>5, <2>6, <2>7, ReadRefused
    <2>9. ReadAll(octets, 4 + ((8 * b) \div 8), ProofTypes(n, k)) = {}
      BY <2>1, <2>8 DEF at, t
    <2> QED BY <1>4, <2>9
  <1> QED BY <1>5, <1>6

LEMMA ProofIsNoState ==
  ASSUME NEW s \in ProofStates, NEW g \in SignatureLists, Len(g) = Len(s.keys),
         NEW octets, octets = ProofString(s, g)
  PROVE  octets_to_proof_gen_state(octets) = {}
  <1> DEFINE n == Len(s.commitments)
             k == Len(s.keys)
             b == BbsUnits(s.bbs_proof)
             at == Len(octets) - k * 10 - 4 + 1
  <1>1. /\ n \in Nat /\ k \in Nat /\ b \in Nat
        /\ FrontUnits(s) = 3 + b + n * 10
    BY ProofStateItems, FrontFacts DEF FrontUnits
  <1>2. Len(octets) = FrontUnits(s) + k * 14 /\ StartsWithThree(octets, 8 * b, n, k)
    BY ProofStringFacts
  <1>3. k >= 1 => octets[FrontUnits(s) + 1] = <<s.keys[1], 1>> /\ s.keys[1].type = "point"
    BY KeyAfterFront
  <1> HIDE DEF n, k, b
  <1>4. octets_to_proof_gen_state(octets) =
           IF 8 * Len(octets) # GenStateOctets(8 * b, n, k) THEN {}
           ELSE {GenStateFrom(octets, k, x) :
                   x \in ReadAll(octets, Len(octets) - k * 10 - 4 + 1, StateTail(k))}
    BY <1>2, GenStateReader
  <1>5. CASE 8 * Len(octets) # GenStateOctets(8 * b, n, k)
    BY <1>4, <1>5
  <1>6. CASE 8 * Len(octets) = GenStateOctets(8 * b, n, k)
    <2>1. k = 1
      BY <1>1, <1>2, <1>6, LengthsAgree
    <2>2. at \in Int /\ at = FrontUnits(s) + 1
      BY <1>1, <1>2, <2>1
    <2>3. scalar_from_be(octets, at) = {}
      BY <1>3, <2>1, <2>2, PointIsNoCount
    <2> DEFINE a == <<"scalar">>
               p == Some(k, "point")
               r == Some(k, "scalar")
               t == Join(Join(a, p), r)
    <2>4. a \in TypeLists /\ Len(a) >= 1 /\ a[1] = "scalar"
      BY OneType DEF TypeNames
    <2>5. p \in TypeLists /\ r \in TypeLists
      BY <1>1, PointsAndScalars
    <2>6. StateTail(k) = t
      BY DEF StateTail, Join
    <2> HIDE DEF a, p, r
    <2>7. Join(a, p) \in TypeLists /\ Len(Join(a, p)) >= 1 /\ Join(a, p)[1] = "scalar"
      BY <2>4, <2>5, TypeListsFacts, JoinFirst
    <2>8. t \in TypeLists /\ Len(t) >= 1 /\ t[1] = "scalar"
      BY <2>5, <2>7, TypeListsFacts, JoinFirst
    <2> HIDE DEF t
    <2>9. ReadOne(octets, at, t[1]) = {}
      BY <2>3, <2>8 DEF ReadOne
    <2> HIDE DEF at
    <2>10. ReadAll(octets, at, t) = {}
      BY <2>2, <2>8, <2>9, FirstRefused DEF TypeLists
    <2>11. ReadAll(octets, Len(octets) - k * 10 - 4 + 1, StateTail(k)) = {}
      BY <2>6, <2>10 DEF at
    <2> QED BY <1>4, <2>11
  <1> QED BY <1>5, <1>6

\* What a holder without keys finishes is its state.
LEMMA KeylessSame ==
  ASSUME NEW s \in CommitmentStates, s.keys = <<>>
  PROVE  commitment_with_proof_to_octets(s, <<>>) = commitment_state_to_octets(s)
  <1> DEFINE a == <<s.c>>
             b == <<s.s_hat>>
             c == s.m_hat
             d == <<s.challenge>>
             e == s.keys
  <1>1. /\ a \in ItemLists /\ b \in ItemLists /\ c \in ItemLists /\ d \in ItemLists
        /\ e \in ItemLists
    BY CommitmentFields, OnePoint, OneScalar, PointList, ScalarList
  <1>2. CommitmentItems(s) = Five(a, e, b, c, d) /\ StateItems(s) = Five(a, b, c, d, e)
    BY DEF CommitmentItems, StateItems
  <1>3. e = <<>>
    OBVIOUS
  <1> HIDE DEF a, b, c, d, e
  <1>4. Join(a, e) = a
    BY <1>1, <1>3, ItemsEmpty
  <1> DEFINE abcd == Join(Join(Join(a, b), c), d)
  <1>5. abcd \in ItemLists
    <2>1. Join(a, b) \in ItemLists
      BY <1>1, ItemsFacts
    <2>2. Join(Join(a, b), c) \in ItemLists
      BY <1>1, <2>1, ItemsFacts
    <2> QED BY <1>1, <2>2, ItemsFacts
  <1>6. Five(a, b, c, d, e) = Join(abcd, e) /\ Five(a, e, b, c, d) = abcd
    BY <1>4 DEF Five
  <1> HIDE DEF abcd
  <1>7. Join(abcd, e) = abcd
    BY <1>3, <1>5, ItemsEmpty
  <1>8. CommitmentItems(s) = StateItems(s)
    BY <1>2, <1>6, <1>7
  <1> DEFINE x == serialize(StateItems(s))
             g == <<>>
  <1>9. g \in SignatureLists /\ FlattenSeq(g) = <<>>
    BY EmptySeq, FlattenEmpty DEF SignatureLists
  <1>10. x \in Strings
    BY StateItemsFacts
  <1>11. Join(x, <<>>) = x
    BY <1>10, JoinEmpty
  <1>12. commitment_with_proof_to_octets(s, g)
           = CountedTwo(Len(s.m_hat), Len(s.keys), Join(x, FlattenSeq(g)))
    <2>1. commitment_with_proof_to_octets(s, g)
           = CountedTwo(Len(s.m_hat), Len(s.keys),
                        Join(serialize(CommitmentItems(s)), FlattenSeq(g)))
      BY <1>9, CommitmentWritten
    <2> QED BY <1>8, <2>1
  <1>13. commitment_state_to_octets(s) = CountedTwo(Len(s.m_hat), Len(s.keys), x)
    BY StateWritten
  <1> HIDE DEF x
  <1> QED BY <1>9, <1>11, <1>12, <1>13

BeginsWith(s, a) == \E rest \in ItemLists : s = Join(a, rest)

LEMMA FiveFirst ==
  ASSUME NEW a \in ItemLists, NEW b \in ItemLists, NEW c \in ItemLists,
         NEW d \in ItemLists, NEW e \in ItemLists, NEW s, s = Five(a, b, c, d, e)
  PROVE  BeginsWith(s, a)
  <1> DEFINE cd == Join(b, c)
             de == Join(cd, d)
             rest == Join(de, e)
  <1>1. Join(Join(a, b), c) = Join(a, cd) /\ cd \in ItemLists
    BY ItemsAssociate, ItemsFacts
  <1>2. Join(Join(Join(a, b), c), d) = Join(Join(a, cd), d)
    BY <1>1
  <1> HIDE DEF cd
  <1>3. Join(Join(a, cd), d) = Join(a, de) /\ de \in ItemLists
    BY <1>1, ItemsAssociate, ItemsFacts
  <1>4. Five(a, b, c, d, e) = Join(Join(a, de), e)
    BY <1>2, <1>3 DEF Five
  <1> HIDE DEF de
  <1>5. Join(Join(a, de), e) = Join(a, rest) /\ rest \in ItemLists
    BY <1>3, ItemsAssociate, ItemsFacts
  <1> QED BY <1>4, <1>5 DEF BeginsWith

\* After its counts both strings of a commit have the commitment, a point.
LEMMA ThirdUnit ==
  ASSUME NEW m \in Int, NEW k \in Int, NEW x \in Items, NEW items \in ItemLists,
         NEW b \in Strings, NEW y, y = Join(<<x>>, items),
         NEW octets, octets = CountedTwo(m, k, Join(serialize(y), b))
  PROVE  octets[3] = <<x, 1>>
  <1> DEFINE a == Join(Count(m), Count(k))
  <1>1. a \in Strings /\ Len(a) = 2
    <2>1. Count(m) \in Strings /\ Len(Count(m)) = 1 /\ Count(k) \in Strings /\ Len(Count(k)) = 1
      BY CountFacts
    <2>2. a \in Strings /\ Len(a) = Len(Count(m)) + Len(Count(k))
      BY <2>1, JoinFacts
    <2> QED BY <2>1, <2>2
  <1>2. octets = Join(a, Join(serialize(y), b))
    BY DEF CountedTwo
  <1> HIDE DEF a
  <1>3. FirstAfter(octets, a, x)
    BY <1>1, <1>2, ItemAfter
  <1> QED BY <1>1, <1>3 DEF FirstAfter

\* The octets of a state: where they end, what stands third, and who reads them.
LEMMA CommitmentStateOctets ==
  ASSUME NEW s \in CommitmentStates, NEW octets, octets = commitment_state_to_octets(s),
         NEW m \in Nat, m = Len(s.m_hat), NEW k \in Nat, k = Len(s.keys)
  PROVE  /\ octets \in Strings /\ Len(octets) = StateUnits(m, k)
         /\ StartsWithTwo(octets, m, k)
         /\ octets[3] = <<s.c, 1>> /\ s.c.type = "point"
         /\ octets_to_commitment_state(octets) = {s}
  <1> DEFINE x == StateItems(s)
             body == serialize(x)
             c == <<s.c>>
  <1>1. x \in ItemLists /\ body \in Strings /\ Len(body) = (1 + k) * 6 + (2 + m) * 4
    BY StateItemsFacts
  <1>2. octets = CountedTwo(m, k, body)
    BY StateWritten
  <1>3. s.c \in Items /\ s.c.type = "point" /\ c \in ItemLists
    BY CommitmentFields, OnePoint
  <1>4. PICK rest \in ItemLists : x = Join(c, rest)
    <2> DEFINE h == <<s.s_hat>>
               n == s.m_hat
               d == <<s.challenge>>
               e == s.keys
    <2>1. h \in ItemLists /\ n \in ItemLists /\ d \in ItemLists /\ e \in ItemLists
      BY CommitmentFields, OneScalar, PointList, ScalarList
    <2>2. x = Five(c, h, n, d, e)
      BY DEF StateItems
    <2> HIDE DEF c, h, n, d, e, x
    <2>3. c \in ItemLists
      BY <1>3
    <2>4. BeginsWith(x, c)
      BY <2>1, <2>2, <2>3, FiveFirst
    <2> QED BY <2>4 DEF BeginsWith
  <1> HIDE DEF x
  <1>5. body = Join(body, <<>>) /\ <<>> \in Strings
    BY <1>1, JoinEmpty
  <1>6. octets = CountedTwo(m, k, Join(serialize(x), <<>>))
    BY <1>2, <1>5
  <1>7. octets[3] = <<s.c, 1>>
    BY <1>3, <1>4, <1>5, <1>6, ThirdUnit, SMTT(30)
  <1> HIDE DEF body
  <1>8. octets \in Strings /\ Len(octets) = 2 + Len(body) /\ StartsWithTwo(octets, m, k)
    <2>1. m \in Int /\ k \in Int /\ body \in Strings
      BY <1>1
    <2> QED BY ONLY <2>1, <1>2, TwoCounts
  <1>9. Len(octets) = StateUnits(m, k)
    <2>1. Len(octets) = 2 + Len(body) /\ Len(body) = (1 + k) * 6 + (2 + m) * 4
      BY <1>1, <1>8
    <2> QED BY ONLY <2>1, m \in Nat, k \in Nat DEF StateUnits
  <1> QED BY <1>3, <1>7, <1>8, <1>9, CommitmentStateReadBack

LEMMA CommitmentThird ==
  ASSUME NEW s \in CommitmentStates, NEW g \in SignatureLists,
         NEW octets, octets = commitment_with_proof_to_octets(s, g)
  PROVE  octets[3] = <<s.c, 1>> /\ s.c.type = "point"
  <1> DEFINE x == CommitmentItems(s)
             c == <<s.c>>
             m == Len(s.m_hat)
             k == Len(s.keys)
             b == FlattenSeq(g)
  <1>1. m \in Int /\ k \in Int /\ b \in Strings
    BY CommitmentItemsFacts, FlattenSignatures
  <1>2. octets = CountedTwo(m, k, Join(serialize(x), b))
    BY CommitmentWritten
  <1>3. s.c \in Items /\ s.c.type = "point" /\ c \in ItemLists
    BY CommitmentFields, OnePoint
  <1>4. PICK rest \in ItemLists : x = Join(c, rest)
    <2> DEFINE h == <<s.s_hat>>
               n == s.m_hat
               d == <<s.challenge>>
               e == s.keys
    <2>1. h \in ItemLists /\ n \in ItemLists /\ d \in ItemLists /\ e \in ItemLists
      BY CommitmentFields, OneScalar, PointList, ScalarList
    <2>2. x = Five(c, e, h, n, d)
      BY DEF CommitmentItems
    <2> HIDE DEF c, h, n, d, e, x
    <2>3. c \in ItemLists
      BY <1>3
    <2>4. BeginsWith(x, c)
      BY <2>1, <2>2, <2>3, FiveFirst
    <2> QED BY <2>4 DEF BeginsWith
  <1> HIDE DEF x, m, k, b
  <1> QED BY <1>1, <1>2, <1>3, <1>4, ThirdUnit

\* The readers of what has three counts refuse what has a point third.
LEMMA PointThird ==
  ASSUME NEW octets, NEW x, x.type = "point", octets[3] = <<x, 1>>
  PROVE  octets_to_proof_gen_state(octets) = {} /\ octets_to_blind_proof(octets) = {}
  BY PointIsNoCount, NoThirdCount

\* With keys the strings of a commit are of different lengths.
LEMMA KeysTellApart ==
  ASSUME NEW m \in Nat, NEW k \in Nat
  PROVE  StateUnits(m, k) = CommitmentUnits(m, k) <=> k = 0
  BY DEF StateUnits, CommitmentUnits

LEMMA SignatureIsNothingElse ==
  ASSUME NEW s \in IssuerSignatures, NEW octets, octets = signature_to_octets(s)
  PROVE  /\ octets_to_commitment_state(octets) = {}
         /\ octets_to_commitment_with_proof(octets) = {}
         /\ octets_to_proof_gen_state(octets) = {}
         /\ octets_to_blind_proof(octets) = {}
  <1>1. octets[1] = <<s.a, 1>> /\ s.a.type = "point"
    BY SignatureOctets, OnePoint DEF IssuerSignatures
  <1> QED BY <1>1, PointIsNoCount, NoFirstCount

-----------------------------------------------------------------------------
(* A string cut short, or with more after it, has the counts of the whole, *)
(* or none where they are missing, and not its length: its reader refuses  *)
(* it.                                                                     *)

CountKept(c, octets, at) == read_u64(c, at) = {} \/ read_u64(c, at) = read_u64(octets, at)

OtherEnd(c, octets) ==
  /\ CountKept(c, octets, 1) /\ CountKept(c, octets, 2) /\ CountKept(c, octets, 3)
  /\ Len(c) # Len(octets)
  /\ Len(c) \in Nat /\ Len(octets) \in Nat

LEMMA CutHasOtherEnd ==
  ASSUME NEW octets \in Strings, NEW n \in 0 .. Len(octets) - 1,
         NEW c, c = SubSeq(octets, 1, n)
  PROVE  OtherEnd(c, octets)
  <1>1. octets \in Seq(AllUnits) /\ Len(octets) \in Nat
    BY LenProperties DEF Strings
  <1>2. n \in 0 .. Len(octets) /\ n \in Nat /\ n # Len(octets)
    BY <1>1
  <1>3. Len(c) = n /\ \A j \in 1 .. n : c[j] = octets[j]
    BY <1>1, <1>2, PrefixType
  <1>4. ASSUME NEW at \in 1 .. 3 PROVE CountKept(c, octets, at)
    <2>1. CASE at <= n
      <3>1. at \in 1 .. n /\ at <= Len(c) /\ at <= Len(octets)
        BY <1>1, <1>2, <1>3, <2>1
      <3>2. c[at] = octets[at]
        BY <1>3, <3>1
      <3> QED BY <3>1, <3>2 DEF CountKept, read_u64
    <2>2. CASE ~ (at <= n)
      BY <1>3, <2>2 DEF CountKept, read_u64
    <2> QED BY <2>1, <2>2
  <1>5. Len(c) # Len(octets) /\ Len(c) \in Nat
    BY <1>2, <1>3
  <1> QED BY <1>1, <1>4, <1>5 DEF OtherEnd

LEMMA JoinedHasOtherEnd ==
  ASSUME NEW octets \in Strings, NEW more \in Strings, Len(octets) >= 3, Len(more) >= 1,
         NEW c, c = octets \o more
  PROVE  OtherEnd(c, octets)
  <1>1. c = Join(octets, more)
    BY DEF Join
  <1>2. Len(c) = Len(octets) + Len(more) /\ Len(octets) \in Nat /\ Len(more) \in Nat
    BY <1>1, JoinFacts
  <1>3. ASSUME NEW at \in 1 .. 3 PROVE CountKept(c, octets, at)
    <2>1. at \in 1 .. Len(octets) /\ at <= Len(octets) /\ at <= Len(c)
      BY <1>2
    <2>2. c[at] = octets[at]
      BY <1>1, <2>1, UnitBefore
    <2> QED BY <2>1, <2>2 DEF CountKept, read_u64
  <1>4. Len(c) # Len(octets) /\ Len(c) \in Nat
    BY <1>2
  <1> QED BY <1>2, <1>3, <1>4 DEF OtherEnd

LEMMA CommitmentStateEnds ==
  ASSUME NEW octets, NEW m, NEW k, StartsWithTwo(octets, m, k),
         octets_to_commitment_state(octets) # {}, NEW c, OtherEnd(c, octets)
  PROVE  octets_to_commitment_state(c) = {}
  <1>1. Len(octets) = StateUnits(m, k)
    BY StateReader
  <1>2. CASE read_u64(c, 1) = {} \/ read_u64(c, 2) = {}
    BY <1>2, NoFirstCount, NoSecondCount
  <1>3. CASE read_u64(c, 1) # {} /\ read_u64(c, 2) # {}
    <2>1. StartsWithTwo(c, m, k)
      BY <1>3 DEF OtherEnd, CountKept, StartsWithTwo
    <2>2. Len(c) # StateUnits(m, k)
      BY <1>1 DEF OtherEnd
    <2> QED BY <2>1, <2>2, StateReader
  <1> QED BY <1>2, <1>3

LEMMA CommitmentEnds ==
  ASSUME NEW octets, NEW m, NEW k, StartsWithTwo(octets, m, k),
         octets_to_commitment_with_proof(octets) # {}, NEW c, OtherEnd(c, octets)
  PROVE  octets_to_commitment_with_proof(c) = {}
  <1>1. Len(octets) = CommitmentUnits(m, k)
    BY CommitmentReader
  <1>2. CASE read_u64(c, 1) = {} \/ read_u64(c, 2) = {}
    BY <1>2, NoFirstCount, NoSecondCount
  <1>3. CASE read_u64(c, 1) # {} /\ read_u64(c, 2) # {}
    <2>1. StartsWithTwo(c, m, k)
      BY <1>3 DEF OtherEnd, CountKept, StartsWithTwo
    <2>2. Len(c) # CommitmentUnits(m, k)
      BY <1>1 DEF OtherEnd
    <2> QED BY <2>1, <2>2, CommitmentReader
  <1> QED BY <1>2, <1>3

LEMMA SignatureEnds ==
  ASSUME NEW octets, octets_to_signature(octets) # {}, NEW c, OtherEnd(c, octets)
  PROVE  octets_to_signature(c) = {}
  BY DEF octets_to_signature, Exactly, OtherEnd

LEMMA ThreeKept ==
  ASSUME NEW octets, NEW l, NEW n, NEW k, StartsWithThree(octets, l, n, k),
         NEW c, OtherEnd(c, octets),
         read_u64(c, 1) # {}, read_u64(c, 2) # {}, read_u64(c, 3) # {}
  PROVE  StartsWithThree(c, l, n, k) /\ 8 * Len(c) # 8 * Len(octets)
  <1>1. StartsWithThree(c, l, n, k)
    BY DEF OtherEnd, CountKept, StartsWithThree
  <1>2. Len(c) \in Nat /\ Len(octets) \in Nat /\ Len(c) # Len(octets)
    BY DEF OtherEnd
  <1> QED BY <1>1, <1>2

LEMMA ProofStateEnds ==
  ASSUME NEW octets, NEW l, NEW n, NEW k, StartsWithThree(octets, l, n, k),
         octets_to_proof_gen_state(octets) # {}, NEW c, OtherEnd(c, octets)
  PROVE  octets_to_proof_gen_state(c) = {}
  <1>1. 8 * Len(octets) = GenStateOctets(l, n, k)
    BY GenStateReader
  <1>2. CASE read_u64(c, 1) = {} \/ read_u64(c, 2) = {} \/ read_u64(c, 3) = {}
    BY <1>2, NoFirstCount, NoSecondCount, NoThirdCount
  <1>3. CASE read_u64(c, 1) # {} /\ read_u64(c, 2) # {} /\ read_u64(c, 3) # {}
    <2>1. StartsWithThree(c, l, n, k) /\ 8 * Len(c) # GenStateOctets(l, n, k)
      BY <1>1, <1>3, ThreeKept
    <2> QED BY <2>1, GenStateReader
  <1> QED BY <1>2, <1>3

LEMMA ProofEnds ==
  ASSUME NEW octets, NEW l, NEW n, NEW k, StartsWithThree(octets, l, n, k),
         octets_to_blind_proof(octets) # {}, NEW c, OtherEnd(c, octets)
  PROVE  octets_to_blind_proof(c) = {}
  <1>1. 8 * Len(octets) = ProofOctets(l, n, k)
    BY ProofReader
  <1>2. CASE read_u64(c, 1) = {} \/ read_u64(c, 2) = {} \/ read_u64(c, 3) = {}
    BY <1>2, NoFirstCount, NoSecondCount, NoThirdCount
  <1>3. CASE read_u64(c, 1) # {} /\ read_u64(c, 2) # {} /\ read_u64(c, 3) # {}
    <2>1. StartsWithThree(c, l, n, k) /\ 8 * Len(c) # ProofOctets(l, n, k)
      BY <1>1, <1>3, ThreeKept
    <2> QED BY <2>1, ProofReader
  <1> QED BY <1>2, <1>3

-----------------------------------------------------------------------------
(* The carry.  What is read of octets that agree with those of a carry as   *)
(* far as both go is the same, until they end.                             *)

SlotValues == {<<>>} \cup {<<b>> : b \in Octets}
Gots == Seq(Octets \cup SlotValues)

Common(data, full) ==
  /\ data \in Octets /\ full \in Octets
  /\ \A i \in 1 .. Len(data) : i <= Len(full) => data[i] = full[i]

\* A cursor after a part of the whole, or stopped where the octets end.
Stands(cur, a, got) == cur = [ok |-> TRUE, pos |-> Len(a), got |-> got]
Stopped(cur) == \E pos, got : cur = [ok |-> FALSE, pos |-> pos, got |-> got]
CursorAt(cur, data, full, a, got) ==
  \/ Stopped(cur) /\ Len(data) < Len(full)
  \/ Stands(cur, a, got) /\ Len(a) <= Len(data)

LEMMA StopsFrom ==
  ASSUME NEW ok, NEW pos, NEW got
  PROVE  Stopped([[ok |-> ok, pos |-> pos, got |-> got] EXCEPT !.ok = FALSE])
  <1>1. [[ok |-> ok, pos |-> pos, got |-> got] EXCEPT !.ok = FALSE]
          = [ok |-> FALSE, pos |-> pos, got |-> got]
    <2> DEFINE rec == [ok |-> ok, pos |-> pos, got |-> got]
               new == [rec EXCEPT !.ok = FALSE]
    <2>1. rec \in [ok : {ok}, pos : {pos}, got : {got}]
      OBVIOUS
    <2>2. rec.pos = pos /\ rec.got = got
      OBVIOUS
    <2> HIDE DEF rec
    <2>3. new \in [ok : {FALSE}, pos : {pos}, got : {got}]
      BY <2>1
    <2> HIDE DEF new
    <2>4. new = [ok |-> new.ok, pos |-> new.pos, got |-> new.got]
      BY <2>3
    <2>5. new.ok = FALSE /\ new.pos = pos /\ new.got = got
      BY <2>3
    <2> QED BY <2>4, <2>5 DEF new, rec
  <1> QED BY <1>1 DEF Stopped

LEMMA StoppedStays ==
  ASSUME NEW cur, Stopped(cur)
  PROVE  cur.ok = FALSE /\ Stopped([cur EXCEPT !.ok = FALSE])
  <1>1. PICK pos, got : cur = [ok |-> FALSE, pos |-> pos, got |-> got]
    BY DEF Stopped
  <1> QED BY <1>1, StopsFrom

LEMMA StandsStops ==
  ASSUME NEW cur, NEW a, NEW got, Stands(cur, a, got)
  PROVE  /\ cur.ok = TRUE /\ cur.pos = Len(a) /\ cur.got = got
         /\ Stopped([cur EXCEPT !.ok = FALSE])
  <1>1. cur = [ok |-> TRUE, pos |-> Len(a), got |-> got]
    BY DEF Stands
  <1> QED BY <1>1, StopsFrom

LEMMA SamePart ==
  ASSUME NEW data, NEW full, Common(data, full),
         NEW a \in Octets, NEW b \in Octets, NEW c \in Octets,
         full = Join(Join(a, b), c), Len(a) + Len(b) <= Len(data)
  PROVE  SubSeq(data, Len(a) + 1, Len(a) + Len(b)) = b
  <1> DEFINE m == Len(a) + 1
             n == Len(a) + Len(b)
             t == SubSeq(data, m, n)
  <1>0. Len(a) \in Nat /\ Len(b) \in Nat /\ Len(c) \in Nat /\ Len(data) \in Nat
        /\ data \in Seq(Int) /\ b \in Seq(Int)
    BY OctetsJoined, LenProperties DEF Common, Octets
  <1>10. Join(a, b) \in Octets /\ Len(Join(a, b)) = n
    BY OctetsJoined
  <1>11. Len(full) = n + Len(c)
    BY <1>10, OctetsJoined
  <1>1. /\ Len(a) \in Nat /\ Len(b) \in Nat /\ Len(c) \in Nat
        /\ Join(a, b) \in Octets /\ Len(Join(a, b)) = n
        /\ Len(full) = n + Len(c) /\ Len(data) \in Nat
        /\ data \in Seq(Int) /\ b \in Seq(Int)
    BY <1>0, <1>10, <1>11
  <1>2. ASSUME NEW i \in 1 .. Len(b) PROVE data[Len(a) + i] = b[i]
    <2>1. Len(a) + i \in 1 .. Len(data) /\ Len(a) + i \in 1 .. n /\ Len(a) + i <= Len(full)
      BY <1>1, SMTT(30)
    <2>2. data[Len(a) + i] = full[Len(a) + i]
      BY <2>1 DEF Common
    <2>3. full[Len(a) + i] = Join(a, b)[Len(a) + i]
      BY <1>1, <2>1, OctetBefore
    <2>4. Join(a, b)[Len(a) + i] = b[i]
      BY OctetAt
    <2> QED BY <2>2, <2>3, <2>4
  <1>3. \A i \in m .. n : data[i] \in Int
    <2>1. \A i \in m .. n : i \in 1 .. Len(data)
      BY <1>1
    <2> QED BY <1>1, <2>1, ElementOfSeq
  <1>4. m \in Int /\ n \in Int /\ n - m + 1 = Len(b)
    BY <1>1
  <1>5. \A i \in Int : m + i - 1 = Len(a) + i
    BY <1>1
  <1>6. Len(b) = IF m <= n THEN n - m + 1 ELSE 0
    BY <1>1
  <1> HIDE DEF m, n
  <1>7. /\ t \in Seq(Int)
        /\ Len(t) = IF m <= n THEN n - m + 1 ELSE 0
        /\ \A i \in 1 .. n - m + 1 : t[i] = data[m + i - 1]
    BY <1>3, <1>4, SubSeqProperties
  <1>8. \A i \in 1 .. Len(b) : t[i] = b[i]
    <2> SUFFICES ASSUME NEW i \in 1 .. Len(b) PROVE t[i] = b[i]
      OBVIOUS
    <2>1. i \in 1 .. n - m + 1 /\ i \in Int
      BY <1>4
    <2>2. t[i] = data[m + i - 1]
      BY <1>7, <2>1
    <2>3. m + i - 1 = Len(a) + i
      BY <1>5, <2>1
    <2> QED BY <1>2, <2>2, <2>3
  <1> HIDE DEF t
  <1>9. t = b
    BY <1>1, <1>6, <1>7, <1>8, SeqEqual
  <1> QED BY <1>9 DEF t, m, n

LEMMA TakeReads ==
  ASSUME NEW data, NEW full, Common(data, full),
         NEW a \in Octets, NEW b \in Octets, NEW c \in Octets,
         full = Join(Join(a, b), c), NEW n, n = Len(b),
         NEW cur, NEW got, CursorAt(cur, data, full, a, got)
  PROVE  CursorAt(take(data, cur, n), data, full, Join(a, b), Append(got, b))
  <1>1. /\ Len(a) \in Nat /\ Len(b) \in Nat /\ Len(c) \in Nat /\ Len(data) \in Nat
        /\ Len(Join(a, b)) = Len(a) + Len(b)
        /\ Len(full) = Len(a) + Len(b) + Len(c)
    <2>1. Join(a, b) \in Octets /\ Len(Join(a, b)) = Len(a) + Len(b)
      BY OctetsJoined
    <2> QED BY <2>1, OctetsJoined, LenProperties DEF Common, Octets
  <1>2. CASE Stopped(cur) /\ Len(data) < Len(full)
    <2>1. ~cur.ok
      BY <1>2, StoppedStays
    <2>2. take(data, cur, n) = [cur EXCEPT !.ok = FALSE]
      BY <2>1 DEF take
    <2>3. Stopped([cur EXCEPT !.ok = FALSE])
      BY <1>2, StoppedStays
    <2> QED BY <1>2, <2>2, <2>3 DEF CursorAt
  <1>3. CASE Stands(cur, a, got) /\ Len(a) <= Len(data)
    <2>1. cur.ok = TRUE /\ cur.pos = Len(a) /\ cur.got = got
      BY <1>3, StandsStops
    <2>2. CASE Len(a) + Len(b) <= Len(data)
      <3>1. SubSeq(data, Len(a) + 1, Len(a) + Len(b)) = b
        BY <2>2, SamePart
      <3>2. take(data, cur, n) = [ok |-> TRUE, pos |-> Len(a) + Len(b), got |-> Append(got, b)]
        BY <2>1, <2>2, <3>1 DEF take
      <3>3. Stands(take(data, cur, n), Join(a, b), Append(got, b))
        BY <1>1, <3>2 DEF Stands
      <3> QED BY <1>1, <2>2, <3>3 DEF CursorAt
    <2>3. CASE ~(Len(a) + Len(b) <= Len(data))
      <3>1. take(data, cur, n) = [cur EXCEPT !.ok = FALSE]
        BY <2>1, <2>3 DEF take
      <3>2. Stopped([cur EXCEPT !.ok = FALSE])
        BY <1>3, StandsStops
      <3>3. Len(data) < Len(full)
        BY <1>1, <2>3
      <3> QED BY <3>1, <3>2, <3>3 DEF CursorAt
    <2> QED BY <2>2, <2>3
  <1> QED BY <1>2, <1>3 DEF CursorAt

LEMMA GotReplaced ==
  ASSUME NEW ok, NEW pos, NEW got, NEW g
  PROVE  [[ok |-> ok, pos |-> pos, got |-> got] EXCEPT !.got = g]
           = [ok |-> ok, pos |-> pos, got |-> g]
  <1> DEFINE rec == [ok |-> ok, pos |-> pos, got |-> got]
             new == [rec EXCEPT !.got = g]
  <1>1. rec \in [ok : {ok}, pos : {pos}, got : {got}]
    OBVIOUS
  <1> HIDE DEF rec
  <1>2. new \in [ok : {ok}, pos : {pos}, got : {g}]
    BY <1>1
  <1> HIDE DEF new
  <1>3. new = [ok |-> new.ok, pos |-> new.pos, got |-> new.got]
    BY <1>2
  <1>4. new.ok = ok /\ new.pos = pos /\ new.got = g
    BY <1>2
  <1> QED BY <1>3, <1>4 DEF new, rec

LEMMA StandsReplaced ==
  ASSUME NEW cur, NEW a, NEW got, Stands(cur, a, got), NEW g
  PROVE  Stands([cur EXCEPT !.got = g], a, g)
  BY GotReplaced DEF Stands

LEMMA LastAppended ==
  ASSUME NEW got \in Gots, NEW b \in Octets \cup SlotValues
  PROVE  /\ Append(got, b) \in Gots
         /\ Last(Append(got, b)) = b
  BY AppendProperties, LenProperties DEF Last, Gots

LEMMA NumberOfLength ==
  ASSUME NEW n \in Nat
  PROVE  u32(n) \in Octets /\ Len(u32(n)) = 4 /\ Number(u32(n)) = n
  <1> DEFINE d == n \div 256
             e == n % 256
  <1>1. d \in Int /\ e \in Int /\ d * 256 + e = n
    OBVIOUS
  <1>2. u32(n) = <<0, 0, d, e>>
    BY DEF u32
  <1> HIDE DEF d, e
  <1>3. <<0, 0, d, e>> \in Seq(Int) /\ Len(<<0, 0, d, e>>) = 4
    BY <1>1
  <1>4. Number(<<0, 0, d, e>>) = d * 256 + e
    BY <1>1 DEF Number
  <1> QED BY <1>1, <1>2, <1>3, <1>4 DEF Octets

LEMMA PutOctets ==
  ASSUME NEW b \in Octets
  PROVE  /\ Len(b) \in Nat /\ u32(Len(b)) \in Octets
         /\ put(b) = Join(u32(Len(b)), b) /\ put(b) \in Octets
  <1>1. Len(b) \in Nat
    BY LenProperties DEF Octets
  <1>2. u32(Len(b)) \in Octets
    BY <1>1, NumberOfLength
  <1>3. put(b) = Join(u32(Len(b)), b)
    BY DEF put, Join
  <1> QED BY <1>1, <1>2, <1>3, OctetsJoined

LEMMA BlobReads ==
  ASSUME NEW data, NEW full, Common(data, full),
         NEW a \in Octets, NEW b \in Octets, NEW c \in Octets,
         full = Join(Join(a, put(b)), c),
         NEW cur, NEW got \in Gots, CursorAt(cur, data, full, a, got)
  PROVE  CursorAt(blob(data, cur), data, full, Join(a, put(b)), Append(got, b))
  <1> DEFINE u == u32(Len(b))
             l == take(data, cur, 4)
  <1>1. Len(b) \in Nat /\ u \in Octets /\ put(b) = Join(u, b) /\ put(b) \in Octets
    BY PutOctets
  <1>2. Len(u) = 4 /\ Number(u) = Len(b)
    BY <1>1, NumberOfLength
  <1> HIDE DEF u, l
  <1>3. /\ Join(u, Join(b, c)) = Join(Join(u, b), c) /\ Join(b, c) \in Octets
        /\ Join(a, u) \in Octets
        /\ Join(a, Join(u, b)) = Join(Join(a, u), b)
    BY <1>1, OctetsAssociate, OctetsJoined
  <1>4. full = Join(Join(a, u), Join(b, c))
    <2>1. Join(Join(Join(a, u), b), c) = Join(Join(a, u), Join(b, c))
      BY <1>3, OctetsAssociate
    <2> QED BY <1>1, <1>3, <2>1
  <1>5. CursorAt(l, data, full, Join(a, u), Append(got, u))
    <2>1. 4 = Len(u)
      BY <1>2
    <2>2. \A n : n = Len(u) => CursorAt(take(data, cur, n), data, full, Join(a, u), Append(got, u))
      BY <1>1, <1>3, <1>4, TakeReads
    <2> QED BY <2>1, <2>2 DEF l
  <1>6. CASE Stopped(l) /\ Len(data) < Len(full)
    <2>1. blob(data, cur) = l
      BY <1>6, StoppedStays DEF blob, l
    <2> QED BY <1>6, <2>1 DEF CursorAt
  <1>7. CASE Stands(l, Join(a, u), Append(got, u)) /\ Len(Join(a, u)) <= Len(data)
    <2>1. l.ok = TRUE /\ l.got = Append(got, u)
      BY <1>7, StandsStops
    <2>2. Last(l.got) = u
      BY <1>1, <2>1, LastAppended
    <2>3. cur.got = got
      <3>1. CASE Stopped(cur)
        <4>1. l = [cur EXCEPT !.ok = FALSE]
          BY <3>1, StoppedStays DEF take, l
        <4>2. l.ok = FALSE
          BY <3>1, <4>1, StoppedStays
        <4> QED BY <2>1, <4>2
      <3>2. CASE Stands(cur, a, got)
        BY <3>2, StandsStops
      <3> QED BY <3>1, <3>2 DEF CursorAt
    <2> DEFINE k == [l EXCEPT !.got = cur.got]
    <2>4. Stands(k, Join(a, u), got)
      BY <1>7, <2>3, StandsReplaced
    <2>5. blob(data, cur) = take(data, k, Len(b))
      BY <1>2, <2>1, <2>2 DEF blob, l
    <2> HIDE DEF k
    <2>6. CursorAt(k, data, full, Join(a, u), got)
      BY <1>7, <2>4 DEF CursorAt
    <2>7. full = Join(Join(Join(a, u), b), c)
      BY <1>1, <1>3
    <2>8. CursorAt(take(data, k, Len(b)), data, full, Join(Join(a, u), b), Append(got, b))
      BY <1>3, <2>6, <2>7, TakeReads
    <2> QED BY <1>1, <1>3, <2>5, <2>8
  <1> QED BY <1>5, <1>6, <1>7 DEF CursorAt

LEMMA SlotReads ==
  ASSUME NEW data, NEW full, Common(data, full),
         NEW a \in Octets, NEW p \in SlotValues, NEW c \in Octets,
         full = Join(Join(a, Slot(p)), c),
         NEW cur, NEW got \in Gots, CursorAt(cur, data, full, a, got)
  PROVE  /\ Slot(p) \in Octets
         /\ CursorAt(ReadSlot(data, cur), data, full, Join(a, Slot(p)), Append(got, p))
  <1> DEFINE t == take(data, cur, 1)
             some == blob(data, [t EXCEPT !.got = cur.got])
  <1>1. t.ok = TRUE => cur.got = got
    <2>1. CASE Stopped(cur)
      <3>1. t = [cur EXCEPT !.ok = FALSE]
        BY <2>1, StoppedStays DEF take
      <3>2. t.ok = FALSE
        <4> HIDE DEF t
        <4>1. PICK pos, g : cur = [ok |-> FALSE, pos |-> pos, got |-> g]
          BY <2>1 DEF Stopped
        <4> QED BY <3>1, <4>1
      <3> QED BY <3>2
    <2>2. CASE Stands(cur, a, got)
      BY <2>2, StandsStops
    <2> QED BY <2>1, <2>2 DEF CursorAt
  <1>2. ReadSlot(data, cur) =
          IF ~t.ok THEN t
          ELSE IF Last(t.got) = <<0>> THEN [t EXCEPT !.got = Append(cur.got, <<>>)]
          ELSE IF Last(t.got) = <<1>> /\ some.ok
               THEN [some EXCEPT !.got = Append(cur.got, <<Last(some.got)>>)]
          ELSE [t EXCEPT !.ok = FALSE]
    BY DEF ReadSlot, Disclosed
  <1>3. /\ <<0>> \in Octets /\ Len(<<0>>) = 1 /\ <<1>> \in Octets /\ Len(<<1>>) = 1
        /\ <<0>> # <<1>>
    BY DEF Octets
  <1>4. CASE p = <<>>
    <2>1. Slot(p) = <<0>>
      BY <1>4 DEF Slot
    <2>2. CursorAt(t, data, full, Join(a, <<0>>), Append(got, <<0>>))
      <3>1. \A n, b : b \in Octets /\ n = Len(b) /\ full = Join(Join(a, b), c)
                  => CursorAt(take(data, cur, n), data, full, Join(a, b), Append(got, b))
        BY TakeReads
      <3> HIDE DEF t
      <3>2. CursorAt(take(data, cur, 1), data, full, Join(a, <<0>>), Append(got, <<0>>))
        BY <1>3, <2>1, <3>1
      <3> QED BY <3>2 DEF t
    <2> HIDE DEF t, some
    <2>3. CASE Stopped(t) /\ Len(data) < Len(full)
      <3>1. ReadSlot(data, cur) = t
        BY <1>2, <2>3, StoppedStays
      <3> QED BY <1>3, <2>1, <2>3, <3>1 DEF CursorAt
    <2>4. CASE Stands(t, Join(a, <<0>>), Append(got, <<0>>)) /\ Len(Join(a, <<0>>)) <= Len(data)
      <3>1. t.ok = TRUE /\ t.got = Append(got, <<0>>)
        BY <2>4, StandsStops
      <3>2. Last(t.got) = <<0>>
        BY <1>3, <3>1, LastAppended
      <3>3. ReadSlot(data, cur) = [t EXCEPT !.got = Append(got, <<>>)]
        BY <1>1, <1>2, <3>1, <3>2
      <3>4. Stands([t EXCEPT !.got = Append(got, <<>>)], Join(a, <<0>>), Append(got, <<>>))
        BY <2>4, StandsReplaced
      <3> QED BY <1>3, <1>4, <2>1, <2>4, <3>3, <3>4 DEF CursorAt
    <2> QED BY <2>2, <2>3, <2>4 DEF CursorAt
  <1>5. CASE p # <<>>
    <2>1. PICK b \in Octets : p = <<b>>
      BY <1>5 DEF SlotValues
    <2>2. /\ Slot(p) = Join(<<1>>, put(b)) /\ put(b) \in Octets /\ Slot(p) \in Octets
          /\ Join(put(b), c) \in Octets
      <3>1. p # <<>> /\ p[1] = b
        BY <2>1
      <3>2. Slot(p) = Join(<<1>>, put(b))
        BY <3>1 DEF Slot, Join
      <3>3. put(b) \in Octets
        BY PutOctets
      <3> HIDE DEF t, some
      <3>4. \A z \in Octets : Join(z, put(b)) \in Octets /\ Join(put(b), c) \in Octets
        BY <3>3, OctetsJoined
      <3> QED BY <1>3, <3>2, <3>3, <3>4
    <2> DEFINE one == <<1>>
    <2>3. one \in Octets /\ Len(one) = 1 /\ one # <<0>> /\ Slot(p) = Join(one, put(b))
      BY <1>3, <2>2
    <2>4. ReadSlot(data, cur) =
          IF ~t.ok THEN t
          ELSE IF Last(t.got) = <<0>> THEN [t EXCEPT !.got = Append(cur.got, <<>>)]
          ELSE IF Last(t.got) = one /\ some.ok
               THEN [some EXCEPT !.got = Append(cur.got, <<Last(some.got)>>)]
          ELSE [t EXCEPT !.ok = FALSE]
      BY <1>2
    <2> HIDE DEF one
    <2>5. /\ Join(a, one) \in Octets
          /\ Join(a, Slot(p)) = Join(Join(a, one), put(b))
          /\ Join(Join(Join(a, one), put(b)), c) = Join(Join(a, one), Join(put(b), c))
      BY <2>2, <2>3, OctetsAssociate, OctetsJoined, SMTT(30)
    <2>6. CursorAt(t, data, full, Join(a, one), Append(got, one))
      <3>1. full = Join(Join(a, one), Join(put(b), c))
        BY <2>5
      <3>2. \A n : n = Len(one) => CursorAt(take(data, cur, n), data, full, Join(a, one), Append(got, one))
        BY <2>2, <2>3, <3>1, TakeReads
      <3> QED BY <2>3, <3>2
    <2> HIDE DEF t
    <2>7. CASE Stopped(t) /\ Len(data) < Len(full)
      <3>1. ReadSlot(data, cur) = t
        BY <2>4, <2>7, StoppedStays
      <3> QED BY <2>2, <2>7, <3>1 DEF CursorAt
    <2>8. CASE Stands(t, Join(a, one), Append(got, one)) /\ Len(Join(a, one)) <= Len(data)
      <3>1. t.ok = TRUE /\ t.got = Append(got, one) /\ cur.got = got
        BY <1>1, <2>8, StandsStops
      <3>2. Last(t.got) = one
        BY <2>3, <3>1, LastAppended
      <3> DEFINE k == [t EXCEPT !.got = got]
      <3>3. Stands(k, Join(a, one), got)
        BY <2>8, StandsReplaced
      <3>4. some = blob(data, k)
        BY <3>1
      <3> HIDE DEF k, some
      <3>5. CursorAt(k, data, full, Join(a, one), got)
        BY <2>8, <3>3 DEF CursorAt
      <3>6. CursorAt(some, data, full, Join(a, Slot(p)), Append(got, b))
        <4>1. full = Join(Join(Join(a, one), put(b)), c)
          BY <2>5
        <4> QED BY <2>5, <3>4, <3>5, <4>1, BlobReads
      <3>7. CASE Stopped(some) /\ Len(data) < Len(full)
        <4>1. ReadSlot(data, cur) = [t EXCEPT !.ok = FALSE]
          <5>1. some.ok = FALSE
            BY <3>7, StoppedStays
          <5> QED BY <2>3, <2>4, <3>1, <3>2, <5>1
        <4>2. Stopped([t EXCEPT !.ok = FALSE])
          BY <2>8, StandsStops
        <4> QED BY <2>2, <3>7, <4>1, <4>2 DEF CursorAt
      <3>8. CASE /\ Stands(some, Join(a, Slot(p)), Append(got, b))
                 /\ Len(Join(a, Slot(p))) <= Len(data)
        <4>1. some.ok = TRUE /\ some.got = Append(got, b)
          BY <3>8, StandsStops
        <4>2. Last(some.got) = b
          BY <4>1, LastAppended
        <4>3. ReadSlot(data, cur) = [some EXCEPT !.got = Append(got, <<b>>)]
          BY <2>3, <2>4, <3>1, <3>2, <4>1, <4>2
        <4>4. Stands([some EXCEPT !.got = Append(got, <<b>>)], Join(a, Slot(p)), Append(got, <<b>>))
          BY <3>8, StandsReplaced
        <4> QED BY <2>1, <2>2, <3>8, <4>3, <4>4 DEF CursorAt
      <3> QED BY <3>6, <3>7, <3>8 DEF CursorAt
    <2> QED BY <2>6, <2>7, <2>8 DEF CursorAt
  <1> QED BY <1>4, <1>5

-----------------------------------------------------------------------------
(* The slots of a carry.                                                   *)

Body(ps) == FlattenSeq([i \in DOMAIN ps |-> Slot(ps[i])])

SlotLists == Seq(SlotValues)

LEMMA SlotType ==
  ASSUME NEW p \in SlotValues
  PROVE  Slot(p) \in Octets
  <1>1. CASE p = <<>>
    BY <1>1 DEF Slot, Octets
  <1>2. CASE p # <<>>
    <2>1. PICK b \in Octets : p = <<b>>
      BY <1>2 DEF SlotValues
    <2>2. put(b) \in Octets /\ p[1] = b
      BY <2>1, PutOctets
    <2>3. Slot(p) = Join(<<1>>, put(b))
      BY <1>2, <2>2 DEF Slot, Join
    <2>4. <<1>> \in Octets
      BY DEF Octets
    <2> QED BY <2>2, <2>3, <2>4, OctetsJoined
  <1> QED BY <1>1, <1>2

LEMMA BodyType ==
  ASSUME NEW ps \in SlotLists
  PROVE  /\ [i \in DOMAIN ps |-> Slot(ps[i])] \in Seq(Octets)
         /\ Body(ps) \in Octets
  <1>1. Len(ps) \in Nat /\ DOMAIN ps = 1 .. Len(ps)
    BY LenProperties DEF SlotLists
  <1>2. \A i \in DOMAIN ps : ps[i] \in SlotValues
    BY <1>1, ElementOfSeq DEF SlotLists
  <1>3. [i \in DOMAIN ps |-> Slot(ps[i])] \in Seq(Octets)
    BY <1>1, <1>2, SlotType
  <1>4. Body(ps) \in Seq(Int)
    BY <1>3, FlattenType DEF Octets, Body
  <1> QED BY <1>3, <1>4 DEF Octets

LEMMA BodyEmpty == Body(<<>>) = <<>>
  <1>1. [i \in DOMAIN <<>> |-> Slot((<<>>)[i])] = <<>>
    OBVIOUS
  <1> QED BY <1>1, FlattenEmpty DEF Body

LEMMA BodyAppend ==
  ASSUME NEW ps \in SlotLists, NEW p \in SlotValues
  PROVE  /\ Append(ps, p) \in SlotLists
         /\ Len(Append(ps, p)) = Len(ps) + 1
         /\ Body(Append(ps, p)) = Join(Body(ps), Slot(p))
  <1> DEFINE all == Append(ps, p)
             f == [i \in DOMAIN ps |-> Slot(ps[i])]
             g == [i \in DOMAIN all |-> Slot(all[i])]
  <1>1. /\ all \in SlotLists /\ Len(all) = Len(ps) + 1 /\ Len(ps) \in Nat
        /\ DOMAIN ps = 1 .. Len(ps) /\ DOMAIN all = 1 .. Len(ps) + 1
        /\ \A i \in 1 .. Len(ps) : all[i] = ps[i]
        /\ all[Len(ps) + 1] = p
    BY AppendProperties, LenProperties DEF SlotLists
  <1>2. f \in Seq(Octets) /\ g \in Seq(Octets) /\ Slot(p) \in Octets
    BY <1>1, BodyType, SlotType
  <1>3. Len(f) = Len(ps) /\ Len(g) = Len(ps) + 1
    BY <1>1
  <1>4. /\ \A i \in 1 .. Len(ps) : g[i] = f[i]
        /\ g[Len(ps) + 1] = Slot(p)
    BY <1>1
  <1> HIDE DEF f, g, all
  <1> DEFINE h == Append(f, Slot(p))
  <1>5. /\ h \in Seq(Octets) /\ Len(h) = Len(ps) + 1
        /\ \A i \in 1 .. Len(ps) : h[i] = f[i]
        /\ h[Len(ps) + 1] = Slot(p)
    BY <1>2, <1>3, AppendProperties
  <1> HIDE DEF h
  <1>6. \A i \in 1 .. Len(ps) + 1 : g[i] = h[i]
    BY <1>1, <1>4, <1>5
  <1>7. g = h
    BY <1>2, <1>3, <1>5, <1>6, SeqEqual
  <1>8. FlattenSeq(g) = FlattenSeq(f) \o Slot(p)
    BY <1>2, <1>7, FlattenAppend DEF h, Octets
  <1> QED BY <1>1, <1>8 DEF Body, Join, f, g, all

\* What the recursive function in carry_decode is.
IsLoop(f, data, x, n) ==
  f = [i \in 0 .. n |-> IF i = 0 THEN x ELSE ReadSlot(data, f[i - 1])]

LEMMA LoopExists ==
  ASSUME NEW data, NEW x, NEW n \in Nat
  PROVE  \E f : IsLoop(f, data, x, n)
  <1> DEFINE N == {k \in Nat : \E f : IsLoop(f, data, x, k)}
  <1>1. 0 \in N
    <2> DEFINE g == [i \in 0 .. 0 |-> x]
    <2>1. g = [i \in 0 .. 0 |-> IF i = 0 THEN x ELSE ReadSlot(data, g[i - 1])]
      OBVIOUS
    <2>2. IsLoop(g, data, x, 0)
      BY <2>1 DEF IsLoop
    <2> QED BY <2>2
  <1>2. ASSUME NEW k \in Nat, k \in N PROVE k + 1 \in N
    <2>1. PICK f : IsLoop(f, data, x, k)
      BY <1>2
    <2> DEFINE g == [i \in 0 .. k + 1 |->
                      IF i <= k THEN f[i] ELSE ReadSlot(data, f[i - 1])]
    <2>2. ASSUME NEW i \in 0 .. k + 1
          PROVE  g[i] = IF i = 0 THEN x ELSE ReadSlot(data, g[i - 1])
      <3>1. CASE i <= k
        <4>1. i \in 0 .. k /\ (i # 0 => i - 1 \in 0 .. k)
          BY <3>1
        <4>2. f[i] = IF i = 0 THEN x ELSE ReadSlot(data, f[i - 1])
          BY <2>1, <4>1 DEF IsLoop
        <4> QED BY <4>1, <4>2
      <3>2. CASE i > k
        <4>1. i = k + 1 /\ i # 0 /\ i - 1 \in 0 .. k
          BY <3>2
        <4> QED BY <4>1
      <3> QED BY <3>1, <3>2
    <2>3. IsLoop(g, data, x, k + 1)
      BY <2>2 DEF IsLoop
    <2> QED BY <2>3
  <1>3. Nat \subseteq N
    <2> HIDE DEF N
    <2> QED BY <1>1, <1>2, NumberInduction
  <1> QED BY <1>3

LoopStarts(f, x) == \A k \in Nat : k = 0 => f[k] = x

LEMMA LoopSteps ==
  ASSUME NEW data, NEW x, NEW n \in Nat, NEW f, IsLoop(f, data, x, n)
  PROVE  /\ LoopStarts(f, x)
         /\ \A k \in Nat : k < n => f[k + 1] = ReadSlot(data, f[k])
  <1>1. \A k \in Nat : k = 0 => f[k] = x
    <2>1. \A i \in 0 .. n : f[i] = IF i = 0 THEN x ELSE ReadSlot(data, f[i - 1])
      BY DEF IsLoop
    <2>2. \A i \in 0 .. n : i = 0 => f[i] = x
      BY <2>1
    <2>3. \A i \in Nat : i = 0 => i \in 0 .. n
      OBVIOUS
    <2> QED BY <2>2, <2>3
  <1>2. ASSUME NEW k \in Nat, k < n PROVE f[k + 1] = ReadSlot(data, f[k])
    <2>1. k + 1 \in 0 .. n /\ k + 1 # 0 /\ (k + 1) - 1 = k
      BY <1>2
    <2>2. f[k + 1] = ReadSlot(data, f[(k + 1) - 1])
      BY <2>1 DEF IsLoop
    <2> QED BY <2>1, <2>2
  <1> QED BY <1>1, <1>2 DEF LoopStarts

LEMMA SlotsRead ==
  ASSUME NEW data, NEW full, Common(data, full), NEW head \in Octets,
         NEW x, NEW got \in Gots, CursorAt(x, data, full, head, got),
         NEW n \in Nat, NEW f, IsLoop(f, data, x, n),
         NEW ps \in SlotLists, NEW c \in Octets,
         full = Join(Join(head, Body(ps)), c), Len(ps) <= n
  PROVE  /\ Join(head, Body(ps)) \in Octets /\ got \o ps \in Gots
         /\ CursorAt(f[Len(ps)], data, full, Join(head, Body(ps)), got \o ps)
  <1> DEFINE Read(s) == CursorAt(f[Len(s)], data, full, Join(head, Body(s)), got \o s)
             T == {s \in SlotLists :
                     /\ got \o s \in Gots
                     /\ \A d \in Octets :
                          full = Join(Join(head, Body(s)), d) /\ Len(s) <= n => Read(s)}
  <1>1. <<>> \in T
    <2>1. Body(<<>>) = <<>> /\ Join(head, <<>>) = head /\ got \o <<>> = got /\ Len(<<>>) = 0
      BY BodyEmpty, OctetsEmpty, ConcatEmptySeq DEF Gots
    <2>2. f[Len(<<>>)] = x
      <3>0. LoopStarts(f, x)
        BY LoopSteps
      <3>1. \A k \in Nat : k = 0 => f[k] = x
        BY <3>0 DEF LoopStarts
      <3>2. Len(<<>>) \in Nat /\ Len(<<>>) = 0
        OBVIOUS
      <3> QED BY <3>1, <3>2
    <2>3. Read(<<>>)
      BY <2>1, <2>2
    <2>4. <<>> \in SlotLists
      BY EmptySeq DEF SlotLists
    <2> HIDE DEF Read
    <2> QED BY <2>1, <2>3, <2>4
  <1>2. ASSUME NEW s \in T, NEW p \in SlotValues PROVE Append(s, p) \in T
    <2>1. /\ s \in SlotLists /\ got \o s \in Gots
          /\ \A d \in Octets : full = Join(Join(head, Body(s)), d) /\ Len(s) <= n => Read(s)
      BY <1>2
    <2> HIDE DEF Read
    <2>2. /\ Append(s, p) \in SlotLists /\ Len(Append(s, p)) = Len(s) + 1
          /\ Body(Append(s, p)) = Join(Body(s), Slot(p))
          /\ Body(s) \in Octets /\ Slot(p) \in Octets
      BY <2>1, BodyAppend, BodyType, SlotType
    <2>3. got \o Append(s, p) = Append(got \o s, p) /\ Append(got \o s, p) \in Gots
      <3>1. got \in Seq(Octets \cup SlotValues) /\ s \in Seq(Octets \cup SlotValues)
            /\ p \in Octets \cup SlotValues
        BY <2>1, SeqMonotonic DEF Gots, SlotLists
      <3>2. got \o Append(s, p) = Append(got \o s, p)
        BY <3>1
      <3> QED BY <2>1, <3>2, LastAppended
    <2>4. ASSUME NEW d \in Octets, full = Join(Join(head, Body(Append(s, p))), d),
                 Len(Append(s, p)) <= n
          PROVE  Read(Append(s, p))
      <3> DEFINE a == Join(head, Body(s))
      <3>1. a \in Octets /\ Join(Slot(p), d) \in Octets
        BY <2>2, OctetsJoined
      <3>2. Join(head, Join(Body(s), Slot(p))) = Join(a, Slot(p))
        BY <2>2, OctetsAssociate
      <3> HIDE DEF a
      <3>3. full = Join(Join(a, Slot(p)), d)
        BY <2>2, <2>4, <3>2
      <3>4. full = Join(a, Join(Slot(p), d))
        BY <2>2, <3>1, <3>3, OctetsAssociate
      <3>5. Len(s) \in Nat /\ Len(s) < n
        <4>1. Len(s) \in Nat
          BY <2>1, LenProperties DEF SlotLists
        <4> QED BY <2>2, <2>4, <4>1
      <3>6. Read(s)
        BY <2>1, <3>1, <3>4, <3>5 DEF a
      <3>7. CursorAt(f[Len(s)], data, full, a, got \o s)
        BY <3>6 DEF Read, a
      <3>8. CursorAt(ReadSlot(data, f[Len(s)]), data, full, Join(a, Slot(p)), Append(got \o s, p))
        <4> DEFINE g == got \o s
        <4>1. g \in Gots /\ CursorAt(f[Len(s)], data, full, a, g)
          BY <2>1, <3>7
        <4> HIDE DEF g
        <4>2. CursorAt(ReadSlot(data, f[Len(s)]), data, full, Join(a, Slot(p)), Append(g, p))
          BY <3>1, <3>3, <4>1, SlotReads
        <4> QED BY <4>2 DEF g
      <3>9. f[Len(s) + 1] = ReadSlot(data, f[Len(s)])
        BY <3>5, LoopSteps
      <3> QED BY <2>2, <2>3, <3>2, <3>8, <3>9 DEF Read
    <2> QED BY <2>2, <2>3, <2>4
  <1>3. T = SlotLists
    <2>1. T \subseteq Seq(SlotValues)
      BY DEF SlotLists
    <2> HIDE DEF T
    <2> QED BY <1>1, <1>2, <2>1, SequenceInduction DEF SlotLists
  <1>4. ps \in T
    BY <1>3
  <1>5. Read(ps) /\ got \o ps \in Gots
    BY <1>4
  <1>6. Join(head, Body(ps)) \in Octets
    <2> HIDE DEF Read, T
    <2>1. Body(ps) \in Octets
      BY BodyType
    <2> QED BY <2>1, OctetsJoined
  <1> QED BY <1>5, <1>6

LEMMA LoopDefined ==
  ASSUME NEW data, NEW x, NEW n \in Nat
  PROVE  IsLoop(CHOOSE f : IsLoop(f, data, x, n), data, x, n)
  BY LoopExists

-----------------------------------------------------------------------------
(* A carry: what present_init encodes, and what is read of its octets.     *)

Carries ==
  [inner : Octets, presentation_header : Octets, issuer_header : Octets,
   payloads : SlotLists]

Heads(c) == Join(Join(put(c.inner), put(c.presentation_header)), put(c.issuer_header))
Start(c) == Join(Heads(c), u32(Len(c.payloads)))
Three(c) == <<c.inner, c.presentation_header, c.issuer_header>>

LEMMA CarryFields ==
  ASSUME NEW c \in Carries
  PROVE  /\ c.inner \in Octets /\ c.presentation_header \in Octets
         /\ c.issuer_header \in Octets /\ c.payloads \in SlotLists
         /\ put(c.inner) \in Octets /\ put(c.presentation_header) \in Octets
         /\ put(c.issuer_header) \in Octets
         /\ Len(c.payloads) \in Nat /\ u32(Len(c.payloads)) \in Octets
         /\ Body(c.payloads) \in Octets
         /\ Join(put(c.inner), put(c.presentation_header)) \in Octets
         /\ Heads(c) \in Octets /\ Start(c) \in Octets
  <1>1. /\ c.inner \in Octets /\ c.presentation_header \in Octets
        /\ c.issuer_header \in Octets /\ c.payloads \in SlotLists
    BY DEF Carries
  <1>2. /\ put(c.inner) \in Octets /\ put(c.presentation_header) \in Octets
        /\ put(c.issuer_header) \in Octets
    BY <1>1, PutOctets
  <1>3. Len(c.payloads) \in Nat
    BY <1>1, LenProperties DEF SlotLists
  <1>4. u32(Len(c.payloads)) \in Octets
    BY <1>3, NumberOfLength
  <1>5. Body(c.payloads) \in Octets
    BY <1>1, BodyType
  <1>6. Join(put(c.inner), put(c.presentation_header)) \in Octets
    BY <1>2, OctetsJoined
  <1>7. Heads(c) \in Octets
    BY <1>2, <1>6, OctetsJoined DEF Heads
  <1>8. Start(c) \in Octets
    BY <1>4, <1>7, OctetsJoined DEF Start
  <1> QED BY <1>1, <1>2, <1>3, <1>4, <1>5, <1>6, <1>7, <1>8

LEMMA CarryOctets ==
  ASSUME NEW c \in Carries
  PROVE  carry_encode(c) = Join(Start(c), Body(c.payloads))
  BY DEF carry_encode, Start, Heads, Body, Join

\* What is read before the slots.
ReadHeads(data) == blob(data, blob(data, blob(data, [ok |-> TRUE, pos |-> 0, got |-> <<>>])))
ReadCount(data) == take(data, ReadHeads(data), 4)

LEMMA HeadsRead ==
  ASSUME NEW c \in Carries, NEW data, NEW full, full = carry_encode(c), Common(data, full)
  PROVE  /\ CursorAt(ReadHeads(data), data, full, Heads(c), Three(c))
         /\ Three(c) \in Gots
  <1> DEFINE i == c.inner
             p == c.presentation_header
             h == c.issuer_header
             u == u32(Len(c.payloads))
             r == Body(c.payloads)
             zero == [ok |-> TRUE, pos |-> 0, got |-> <<>>]
  <1>1. /\ i \in Octets /\ p \in Octets /\ h \in Octets /\ u \in Octets /\ r \in Octets
        /\ put(i) \in Octets /\ put(p) \in Octets /\ put(h) \in Octets
        /\ full = Join(Join(Join(Join(put(i), put(p)), put(h)), u), r)
        /\ Heads(c) = Join(Join(put(i), put(p)), put(h))
    BY CarryFields, CarryOctets DEF Start, Heads
  <1>2. CursorAt(zero, data, full, <<>>, <<>>)
    <2>1. Len(data) \in Nat /\ Len(<<>>) = 0
      BY LenProperties DEF Common, Octets
    <2>2. Stands(zero, <<>>, <<>>)
      BY <2>1 DEF Stands
    <2> HIDE DEF zero
    <2> QED BY <2>1, <2>2 DEF CursorAt
  <1>3. ReadHeads(data) = blob(data, blob(data, blob(data, zero)))
    BY DEF ReadHeads
  <1>4. /\ <<>> \in Gots /\ <<i>> \in Gots /\ <<i, p>> \in Gots /\ <<i, p, h>> \in Gots
        /\ Append(<<>>, i) = <<i>> /\ Append(<<i>>, p) = <<i, p>>
        /\ Append(<<i, p>>, h) = <<i, p, h>>
    <2>1. <<>> \in Gots
      BY EmptySeq DEF Gots
    <2>2. Append(<<>>, i) = <<i>>
      OBVIOUS
    <2>3. Append(<<i>>, p) = <<i, p>>
      BY <1>1, AppendTwo
    <2>4. Append(<<i, p>>, h) = <<i, p, h>>
      BY <1>1, AppendThree
    <2>5. i \in Octets \cup SlotValues /\ p \in Octets \cup SlotValues
          /\ h \in Octets \cup SlotValues
      BY <1>1
    <2> HIDE DEF i, p, h
    <2>6. \A g \in Gots, b \in Octets \cup SlotValues : Append(g, b) \in Gots
      BY LastAppended
    <2>7. <<i>> \in Gots
      BY <2>1, <2>2, <2>5, <2>6
    <2>8. <<i, p>> \in Gots
      BY <2>3, <2>5, <2>6, <2>7
    <2>9. <<i, p, h>> \in Gots
      BY <2>4, <2>5, <2>6, <2>8
    <2> QED BY <2>1, <2>2, <2>3, <2>4, <2>7, <2>8, <2>9
  <1>5. Three(c) = <<i, p, h>>
    BY DEF Three
  <1> HIDE DEF i, p, h, u, r, zero
  <1> DEFINE A == put(i)
             B == put(p)
             C == put(h)
  <1>6. A \in Octets /\ B \in Octets /\ C \in Octets
    BY <1>1
  <1>7. full = Join(Join(Join(Join(A, B), C), u), r) /\ Heads(c) = Join(Join(A, B), C)
    BY <1>1
  <1> HIDE DEF A, B, C
  <1> DEFINE AB == Join(A, B)
             ABC == Join(AB, C)
             ur == Join(u, r)
             Cur == Join(C, ur)
             BCur == Join(B, Cur)
  <1>8. /\ AB \in Octets /\ ur \in Octets
    BY <1>1, <1>6, OctetsJoined
  <1>9. ABC \in Octets /\ Cur \in Octets
    BY <1>6, <1>8, OctetsJoined
  <1>10. BCur \in Octets
    BY <1>6, <1>9, OctetsJoined
  <1>11. full = Join(ABC, ur)
    BY <1>1, <1>7, <1>9, OctetsAssociate
  <1>12. full = Join(AB, Cur)
    <2> HIDE DEF AB, ur
    <2> QED BY <1>6, <1>8, <1>11, OctetsAssociate
  <1>13. full = Join(A, BCur)
    <2> HIDE DEF Cur
    <2> QED BY <1>6, <1>9, <1>12, OctetsAssociate
  <1>14. Join(<<>>, A) = A /\ <<>> \in Octets
    BY <1>6, OctetsEmpty
  <1> DEFINE e == <<>>
             e1 == <<i>>
             e2 == <<i, p>>
             e3 == <<i, p, h>>
  <1>15. /\ e \in Gots /\ e1 \in Gots /\ e2 \in Gots /\ e3 \in Gots
         /\ Append(e, i) = e1 /\ Append(e1, p) = e2 /\ Append(e2, h) = e3
    BY <1>4
  <1>16. CursorAt(zero, data, full, e, e) /\ e \in Octets /\ Join(e, A) = A
    BY <1>2, <1>14
  <1> HIDE DEF e, e1, e2, e3, AB, ABC, ur, Cur, BCur
  <1>17. CursorAt(blob(data, zero), data, full, A, e1)
    <2>1. full = Join(Join(e, put(i)), BCur)
      BY <1>13, <1>16 DEF A
    <2>2. CursorAt(blob(data, zero), data, full, Join(e, put(i)), Append(e, i))
      BY <1>1, <1>10, <1>15, <1>16, <2>1, BlobReads
    <2> QED BY <1>15, <1>16, <2>2 DEF A
  <1>18. CursorAt(blob(data, blob(data, zero)), data, full, AB, e2)
    <2> DEFINE x == blob(data, zero)
    <2> HIDE DEF x
    <2>1. full = Join(Join(A, put(p)), Cur)
      BY <1>12 DEF AB, B
    <2>2. CursorAt(x, data, full, A, e1)
      BY <1>17 DEF x
    <2>3. CursorAt(blob(data, x), data, full, Join(A, put(p)), Append(e1, p))
      BY <1>1, <1>6, <1>9, <1>15, <2>1, <2>2, BlobReads
    <2> QED BY <1>15, <2>3 DEF AB, B, x
  <1>19. CursorAt(blob(data, blob(data, blob(data, zero))), data, full, ABC, e3)
    <2> DEFINE x == blob(data, blob(data, zero))
    <2> HIDE DEF x
    <2>1. full = Join(Join(AB, put(h)), ur)
      BY <1>11 DEF ABC, C
    <2>2. CursorAt(x, data, full, AB, e2)
      BY <1>18 DEF x
    <2>3. CursorAt(blob(data, x), data, full, Join(AB, put(h)), Append(e2, h))
      BY <1>1, <1>8, <1>15, <2>1, <2>2, BlobReads
    <2> QED BY <1>15, <2>3 DEF ABC, C, x
  <1>20. Heads(c) = ABC
    BY <1>7 DEF AB, ABC
  <1>21. Three(c) = e3
    BY <1>5 DEF e3
  <1> QED BY <1>3, <1>15, <1>19, <1>20, <1>21

\* What makes the cursor after the count, and the slots, of some octets.
Loop(data, x, n) == CHOOSE f : IsLoop(f, data, x, n)
CountOf(data) == IF ReadCount(data).ok THEN Number(Last(ReadCount(data).got)) ELSE 0
FirstSlot(data) == [ReadCount(data) EXCEPT !.got = ReadHeads(data).got]
SlotsOf(data) == Loop(data, FirstSlot(data), CountOf(data))
CarryOf(got) ==
  [inner |-> got[1], presentation_header |-> got[2], issuer_header |-> got[3],
   payloads |-> SubSeq(got, 4, Len(got))]

LEMMA CarryDecodes ==
  ASSUME NEW data
  PROVE  carry_decode(data) =
           IF ~ReadCount(data).ok \/ CountOf(data) > MaxMessages THEN {}
           ELSE IF \/ ~SlotsOf(data)[CountOf(data)].ok
                   \/ SlotsOf(data)[CountOf(data)].pos # Len(data) THEN {}
           ELSE {CarryOf(SlotsOf(data)[CountOf(data)].got)}
  BY DEF carry_decode, ReadCount, ReadHeads, CountOf, FirstSlot, SlotsOf, Loop, IsLoop, CarryOf

LEMMA JoinedAt ==
  ASSUME NEW S, NEW a \in Seq(S), NEW b \in Seq(S), NEW c, c = Join(a, b)
  PROVE  /\ c \in Seq(S) /\ Len(c) = Len(a) + Len(b)
         /\ \A i \in 1 .. Len(a) : c[i] = a[i]
  <1>1. Len(a) \in Nat /\ Len(b) \in Nat
    BY LenProperties
  <1>2. Len(c) = Len(a) + Len(b)
    BY ConcatProperties DEF Join
  <1>3. c \in Seq(S)
    BY ConcatProperties DEF Join
  <1>4. \A i \in 1 .. Len(a) : c[i] = a[i]
    BY <1>1, ConcatProperties DEF Join
  <1> QED BY <1>2, <1>3, <1>4

LEMMA LastPart ==
  ASSUME NEW S, NEW a \in Seq(S), NEW b \in Seq(S), NEW c, c = Join(a, b)
  PROVE  SubSeq(c, Len(a) + 1, Len(a) + Len(b)) = b
  <1>1. <<>> \in Seq(S)
    BY EmptySeq
  <1>2. c \in Seq(S)
    BY JoinedAt
  <1>3. (a \o b) \o <<>> = c
    BY <1>2, ConcatEmptySeq DEF Join
  <1> DEFINE e == <<>>
  <1>4. e \in Seq(S) /\ (a \o b) \o e = c
    BY <1>1, <1>3
  <1> HIDE DEF e
  <1>5. SubSeq((a \o b) \o e, Len(a) + 1, Len(a) + Len(b)) = b
    BY <1>4, MiddlePart
  <1> QED BY <1>4, <1>5

LEMMA CarryOfParts ==
  ASSUME NEW c \in Carries, NEW got, got = Three(c) \o c.payloads
  PROVE  CarryOf(got) = c
  <1> DEFINE S == Octets \cup SlotValues
             t == Three(c)
             ps == c.payloads
             n == Len(got)
             q == SubSeq(got, 4, n)
  <1>1. /\ c.inner \in S /\ c.presentation_header \in S /\ c.issuer_header \in S
        /\ ps \in Seq(S) /\ Len(ps) \in Nat
    <2>1. ps \in Seq(SlotValues)
      BY CarryFields DEF SlotLists
    <2> HIDE DEF ps
    <2>2. ps \in Seq(S) /\ Len(ps) \in Nat
      BY <2>1, SeqMonotonic, LenProperties
    <2> QED BY <2>2, CarryFields
  <1>2. /\ t \in Seq(S) /\ Len(t) = 3
        /\ t[1] = c.inner /\ t[2] = c.presentation_header /\ t[3] = c.issuer_header
    <2> DEFINE x == c.inner
               y == c.presentation_header
               z == c.issuer_header
    <2>1. t = <<x, y, z>> /\ x \in S /\ y \in S /\ z \in S
      BY <1>1 DEF Three
    <2> HIDE DEF x, y, z, t, S
    <2>2. <<x, y, z>> \in Seq(S) /\ Len(<<x, y, z>>) = 3
      BY <2>1
    <2> QED BY <2>1, <2>2 DEF x, y, z
  <1> HIDE DEF S, t, ps
  <1>3. got = Join(t, ps)
    BY DEF t, ps, Join
  <1>4. n = Len(t) + Len(ps) /\ n = 3 + Len(ps)
    <2>1. t \in Seq(S) /\ ps \in Seq(S)
      BY <1>1, <1>2
    <2>2. Len(Join(t, ps)) = Len(t) + Len(ps)
      BY ONLY <2>1, JoinedAt
    <2>3. n = Len(t) + Len(ps)
      BY <1>3, <2>2
    <2> QED BY <1>1, <1>2, <2>3
  <1>5. got[1] = t[1] /\ got[2] = t[2] /\ got[3] = t[3]
    <2>1. \A i \in 1 .. Len(t) : got[i] = t[i]
      <3>1. t \in Seq(S) /\ ps \in Seq(S)
        BY <1>1, <1>2
      <3>2. \A i \in 1 .. Len(t) : Join(t, ps)[i] = t[i]
        BY ONLY <3>1, JoinedAt
      <3> QED BY <1>3, <3>2
    <2>2. \A i \in 1 .. 3 : got[i] = t[i]
      BY <1>2, <2>1
    <2>3. 1 \in 1 .. 3 /\ 2 \in 1 .. 3 /\ 3 \in 1 .. 3
      OBVIOUS
    <2> QED BY <2>2, <2>3
  <1>7. q = ps
    <2>1. SubSeq(got, Len(t) + 1, Len(t) + Len(ps)) = ps
      BY <1>1, <1>2, <1>3, LastPart
    <2>2. Len(t) + 1 = 4 /\ Len(t) + Len(ps) = n
      BY <1>2, <1>4
    <2> QED BY <2>1, <2>2
  <1>8. CarryOf(got) = [inner |-> c.inner, presentation_header |-> c.presentation_header,
                        issuer_header |-> c.issuer_header, payloads |-> c.payloads]
    <2>1. CarryOf(got) = [inner |-> got[1], presentation_header |-> got[2],
                          issuer_header |-> got[3], payloads |-> q]
      BY DEF CarryOf
    <2>2. got[1] = c.inner /\ got[2] = c.presentation_header /\ got[3] = c.issuer_header
      BY <1>2, <1>5
    <2> HIDE DEF q
    <2> QED BY <1>7, <2>1, <2>2 DEF ps
  <1> QED BY <1>8 DEF Carries

\* Of octets that agree with a carry's as far as both go.
LEMMA CarryReads ==
  ASSUME NEW c \in Carries, NEW data, NEW full, full = carry_encode(c), Common(data, full)
  PROVE  /\ Len(data) # Len(full) => carry_decode(data) = {}
         /\ carry_decode(data) \subseteq {c}
         /\ Len(data) = Len(full) /\ Len(c.payloads) <= MaxMessages => carry_decode(data) = {c}
  <1> DEFINE heads == ReadHeads(data)
             l == ReadCount(data)
             n == Len(c.payloads)
             u == u32(n)
             r == Body(c.payloads)
             H == Heads(c)
             got == Three(c)
             x == FirstSlot(data)
  <1>1. /\ n \in Nat /\ u \in Octets /\ r \in Octets /\ H \in Octets /\ Join(H, u) \in Octets
        /\ c.payloads \in SlotLists /\ Start(c) = Join(H, u)
    BY CarryFields DEF Start
  <1>2. full = Join(Join(H, u), r)
    BY CarryOctets DEF Start
  <1>3. CursorAt(heads, data, full, H, got) /\ got \in Gots
    BY HeadsRead
  <1>4. Len(u) = 4 /\ Number(u) = n
    BY <1>1, NumberOfLength
  <1>5. l = take(data, heads, 4) /\ x = [l EXCEPT !.got = heads.got]
    BY DEF ReadCount, FirstSlot
  <1>6. /\ CountOf(data) = IF l.ok THEN Number(Last(l.got)) ELSE 0
        /\ SlotsOf(data) = Loop(data, x, CountOf(data))
    BY DEF CountOf, SlotsOf
  <1>7. carry_decode(data) =
           IF ~l.ok \/ CountOf(data) > MaxMessages THEN {}
           ELSE IF \/ ~SlotsOf(data)[CountOf(data)].ok
                   \/ SlotsOf(data)[CountOf(data)].pos # Len(data) THEN {}
           ELSE {CarryOf(SlotsOf(data)[CountOf(data)].got)}
    BY CarryDecodes
  <1> HIDE DEF heads, l, u, r, H, got, x, n
  <1>8. CursorAt(l, data, full, Join(H, u), Append(got, u))
    <2>1. \A k : k = Len(u) => CursorAt(take(data, heads, k), data, full, Join(H, u), Append(got, u))
      BY <1>1, <1>2, <1>3, TakeReads
    <2> QED BY <1>4, <1>5, <2>1
  <1>9. CASE Stopped(l) /\ Len(data) < Len(full)
    <2>1. carry_decode(data) = {}
      BY <1>7, <1>9, StoppedStays
    <2>2. Len(data) # Len(full)
      <3>1. Len(data) \in Nat /\ Len(full) \in Nat
        BY LenProperties DEF Common, Octets
      <3> QED BY <1>9, <3>1
    <2> QED BY <2>1, <2>2
  <1>10. CASE Stands(l, Join(H, u), Append(got, u)) /\ Len(Join(H, u)) <= Len(data)
    <2>1. l.ok = TRUE /\ l.got = Append(got, u)
      BY <1>10, StandsStops
    <2>2. Last(l.got) = u
      BY <1>1, <1>3, <2>1, LastAppended
    <2>3. CountOf(data) = n
      BY <1>4, <1>6, <2>1, <2>2
    <2>4. heads.got = got
      <3>1. CASE Stopped(heads)
        <4>1. l = [heads EXCEPT !.ok = FALSE]
          BY <1>5, <3>1, StoppedStays DEF take
        <4>2. Stopped(l)
          BY <3>1, <4>1, StoppedStays
        <4>3. l.ok = FALSE
          BY <4>2, StoppedStays
        <4> QED BY <2>1, <4>3
      <3>2. CASE Stands(heads, H, got)
        BY <3>2, StandsStops
      <3> QED BY <1>3, <3>1, <3>2 DEF CursorAt
    <2>5. CursorAt(x, data, full, Join(H, u), got)
      <3>1. Stands([l EXCEPT !.got = got], Join(H, u), got)
        BY <1>10, StandsReplaced
      <3> QED BY <1>5, <1>10, <2>4, <3>1 DEF CursorAt
    <2> DEFINE f == SlotsOf(data)
    <2>6. IsLoop(f, data, x, n)
      BY <1>1, <1>6, <2>3, LoopDefined DEF Loop
    <2> HIDE DEF f
    <2> DEFINE ps == c.payloads
               all == got \o ps
    <2>7. CursorAt(f[n], data, full, full, all)
      <3>1. /\ full = Join(Join(Join(H, u), Body(ps)), <<>>)
            /\ full = Join(Join(H, u), Body(ps))
            /\ <<>> \in Octets
        <4>1. Join(Join(H, u), r) \in Octets /\ r = Body(ps)
          BY <1>1, OctetsJoined DEF r
        <4> HIDE DEF ps
        <4> QED BY <1>2, <4>1, OctetsEmpty
      <3>2. ps \in SlotLists /\ Len(ps) = n /\ Len(ps) <= n
        BY <1>1 DEF n
      <3> HIDE DEF ps
      <3> DEFINE e == <<>>
      <3>3. e \in Octets /\ full = Join(Join(Join(H, u), Body(ps)), e)
        BY <3>1
      <3> HIDE DEF e
      <3>4. CursorAt(f[Len(ps)], data, full, Join(Join(H, u), Body(ps)), got \o ps)
        BY <1>1, <1>3, <2>5, <2>6, <3>2, <3>3, SlotsRead
      <3> QED BY <3>1, <3>2, <3>4
    <2>8. CarryOf(all) = c
      BY CarryOfParts DEF got
    <2> HIDE DEF all
    <2>9. carry_decode(data) =
           IF n > MaxMessages THEN {}
           ELSE IF ~f[n].ok \/ f[n].pos # Len(data) THEN {} ELSE {CarryOf(f[n].got)}
      BY <1>7, <2>1, <2>3 DEF f
    <2>10. Len(data) \in Nat /\ Len(full) \in Nat
      BY LenProperties DEF Common, Octets
    <2>11. CASE Stopped(f[n]) /\ Len(data) < Len(full)
      <3>1. carry_decode(data) = {}
        BY <2>9, <2>11, StoppedStays
      <3> QED BY <2>10, <2>11, <3>1
    <2>12. CASE Stands(f[n], full, all) /\ Len(full) <= Len(data)
      <3>1. f[n].ok = TRUE /\ f[n].pos = Len(full) /\ f[n].got = all
        BY <2>12, StandsStops
      <3>2. carry_decode(data) =
              IF n > MaxMessages THEN {} ELSE IF Len(full) # Len(data) THEN {} ELSE {c}
        BY <2>8, <2>9, <3>1
      <3>3. n <= MaxMessages => ~ (n > MaxMessages)
        <4>1. n \in Nat
          BY <1>1, Zenon
        <4>2. MaxMessages \in Nat
          BY ONLY CodecAssumption, SMTT(40) DEF CodecAssumption
        <4>3. \A a, b \in Nat : a <= b => ~ (a > b)
          BY ONLY TRUE
        <4> QED BY <4>1, <4>2, <4>3, Zenon
      <3> QED BY <3>2, <3>3 DEF n
    <2> QED BY <2>7, <2>11, <2>12 DEF CursorAt
  <1> QED BY <1>8, <1>9, <1>10 DEF CursorAt

\* Present_finalize reads of a carry what present_init put into it, up to the
\* most messages a reader allows (flow.rs:339-404).
THEOREM CarryReadBack ==
  ASSUME NEW c \in Carries, Len(c.payloads) <= MaxMessages
  PROVE  carry_decode(carry_encode(c)) = {c}
  <1> DEFINE full == carry_encode(c)
  <1>1. full \in Octets
    BY CarryFields, CarryOctets, OctetsJoined
  <1> HIDE DEF full
  <1>2. Common(full, full)
    BY <1>1 DEF Common
  <1>3. Len(full) = Len(full) /\ Len(c.payloads) <= MaxMessages => carry_decode(full) = {c}
    BY <1>2, CarryReads DEF full
  <1> QED BY <1>3 DEF full

\* A carry cut anywhere, or with anything after it, is refused by
\* PresentCarry::decode (flow.rs:375-404).
THEOREM CarryEnds ==
  ASSUME NEW c \in Carries, NEW data, Common(data, carry_encode(c)),
         Len(data) # Len(carry_encode(c))
  PROVE  carry_decode(data) = {}
  BY CarryReads

-----------------------------------------------------------------------------
(***************************************************************************)
(* Proofs about the text of a container: base64url, groups of values, and   *)
(* the containers themselves are read as they were written.                *)
(***************************************************************************)

(* Base64url: three octets make four characters.                           *)

LEMMA CharacterCount ==
  ASSUME NEW n \in Nat, NEW m, m = (8 * n + 5) \div 6
  PROVE  m \in Nat /\ (6 * m) \div 8 = n /\ m % 4 # 1 /\ (n # 0 => m >= 2) /\ (n = 0 => m = 0)
  OBVIOUS

NextOf(s, at) == IF at < Len(s) THEN s[at + 1] ELSE 0

LEMMA EncodedDigit ==
  ASSUME NEW s, NEW i \in Nat, NEW at \in Nat, NEW off \in 0 .. 7, 6 * (i - 1) = 8 * (at - 1) + off
  PROVE  Digit(s, 8, 6, i) = ((s[at] * 2 ^ 8 + NextOf(s, at)) \div 2 ^ (10 - off)) % 2 ^ 6
  <1> DEFINE bit == 6 * (i - 1)
  <1>1. bit \div 8 + 1 = at /\ bit % 8 = off /\ 2 * 8 - 6 - off = 10 - off
    OBVIOUS
  <1>2. Digit(s, 8, 6, i) = ((s[bit \div 8 + 1] * 2 ^ 8 + NextOf(s, bit \div 8 + 1))
                               \div 2 ^ (2 * 8 - 6 - (bit % 8))) % 2 ^ 6
    BY DEF Digit, NextOf
  <1> HIDE DEF bit
  <1> QED BY <1>1, <1>2

LEMMA DecodedDigit ==
  ASSUME NEW s, NEW i \in Nat, NEW at \in Nat, NEW off \in 0 .. 5, 8 * (i - 1) = 6 * (at - 1) + off
  PROVE  Digit(s, 6, 8, i) = ((s[at] * 2 ^ 6 + NextOf(s, at)) \div 2 ^ (4 - off)) % 2 ^ 8
  <1> DEFINE bit == 8 * (i - 1)
  <1>1. bit \div 6 + 1 = at /\ bit % 6 = off /\ 2 * 6 - 8 - off = 4 - off
    OBVIOUS
  <1>2. Digit(s, 6, 8, i) = ((s[bit \div 6 + 1] * 2 ^ 6 + NextOf(s, bit \div 6 + 1))
                               \div 2 ^ (2 * 6 - 8 - (bit % 6))) % 2 ^ 8
    BY DEF Digit, NextOf
  <1> HIDE DEF bit
  <1> QED BY <1>1, <1>2

LEMMA Powers ==
  /\ 2 ^ 0 = 1 /\ 2 ^ 2 = 4 /\ 2 ^ 4 = 16 /\ 2 ^ 6 = 64 /\ 2 ^ 8 = 256 /\ 2 ^ 10 = 1024
  OBVIOUS

\* The four characters of three octets.
LEMMA FourDigits ==
  ASSUME NEW s, NEW q \in Nat
  PROVE  /\ Digit(s, 8, 6, 4 * q + 1)
              = ((s[3 * q + 1] * 256 + NextOf(s, 3 * q + 1)) \div 1024) % 64
         /\ Digit(s, 8, 6, 4 * q + 2)
              = ((s[3 * q + 1] * 256 + NextOf(s, 3 * q + 1)) \div 16) % 64
         /\ Digit(s, 8, 6, 4 * q + 3)
              = ((s[3 * q + 2] * 256 + NextOf(s, 3 * q + 2)) \div 64) % 64
         /\ Digit(s, 8, 6, 4 * q + 4)
              = ((s[3 * q + 3] * 256 + NextOf(s, 3 * q + 3)) \div 256) % 64
  <1>1. ASSUME NEW r \in 0 .. 3, NEW b \in 1 .. 3, NEW off \in 0 .. 7, 6 * r = 8 * (b - 1) + off
        PROVE  Digit(s, 8, 6, 4 * q + (r + 1))
                 = ((s[3 * q + b] * 2 ^ 8 + NextOf(s, 3 * q + b)) \div 2 ^ (10 - off)) % 2 ^ 6
    <2> DEFINE i == 4 * q + (r + 1)
               at == 3 * q + b
    <2>1. i \in Nat /\ at \in Nat /\ 6 * (i - 1) = 8 * (at - 1) + off
      BY <1>1
    <2> HIDE DEF i, at
    <2>2. Digit(s, 8, 6, i) = ((s[at] * 2 ^ 8 + NextOf(s, at)) \div 2 ^ (10 - off)) % 2 ^ 6
      BY <2>1, EncodedDigit, ZenonT(40)
    <2> QED BY <2>2 DEF i, at
  <1>2. Digit(s, 8, 6, 4 * q + 1)
          = ((s[3 * q + 1] * 256 + NextOf(s, 3 * q + 1)) \div 1024) % 64
    <2>1. 0 + 1 = 1 /\ 10 - 0 = 10 /\ 6 * 0 = 8 * (1 - 1) + 0
      OBVIOUS
    <2> QED BY <1>1, <2>1, Powers
  <1>3. Digit(s, 8, 6, 4 * q + 2)
          = ((s[3 * q + 1] * 256 + NextOf(s, 3 * q + 1)) \div 16) % 64
    <2>1. 1 + 1 = 2 /\ 10 - 6 = 4 /\ 6 * 1 = 8 * (1 - 1) + 6
      OBVIOUS
    <2> QED BY <1>1, <2>1, Powers
  <1>4. Digit(s, 8, 6, 4 * q + 3)
          = ((s[3 * q + 2] * 256 + NextOf(s, 3 * q + 2)) \div 64) % 64
    <2>1. 2 + 1 = 3 /\ 10 - 4 = 6 /\ 6 * 2 = 8 * (2 - 1) + 4
      OBVIOUS
    <2> QED BY <1>1, <2>1, Powers
  <1>5. Digit(s, 8, 6, 4 * q + 4)
          = ((s[3 * q + 3] * 256 + NextOf(s, 3 * q + 3)) \div 256) % 64
    <2>1. 3 + 1 = 4 /\ 10 - 2 = 8 /\ 6 * 3 = 8 * (3 - 1) + 2
      OBVIOUS
    <2> QED BY <1>1, <2>1, Powers
  <1> QED BY <1>2, <1>3, <1>4, <1>5

\* The three octets of four characters.
LEMMA ThreeDigits ==
  ASSUME NEW t, NEW q \in Nat
  PROVE  /\ Digit(t, 6, 8, 3 * q + 1)
              = ((t[4 * q + 1] * 64 + NextOf(t, 4 * q + 1)) \div 16) % 256
         /\ Digit(t, 6, 8, 3 * q + 2)
              = ((t[4 * q + 2] * 64 + NextOf(t, 4 * q + 2)) \div 4) % 256
         /\ Digit(t, 6, 8, 3 * q + 3)
              = ((t[4 * q + 3] * 64 + NextOf(t, 4 * q + 3)) \div 1) % 256
  <1>1. ASSUME NEW r \in 0 .. 2, NEW b \in 1 .. 3, NEW off \in 0 .. 5, 8 * r = 6 * (b - 1) + off
        PROVE  Digit(t, 6, 8, 3 * q + (r + 1))
                 = ((t[4 * q + b] * 2 ^ 6 + NextOf(t, 4 * q + b)) \div 2 ^ (4 - off)) % 2 ^ 8
    <2> DEFINE i == 3 * q + (r + 1)
               at == 4 * q + b
    <2>1. i \in Nat /\ at \in Nat /\ 8 * (i - 1) = 6 * (at - 1) + off
      BY <1>1
    <2> HIDE DEF i, at
    <2>2. Digit(t, 6, 8, i) = ((t[at] * 2 ^ 6 + NextOf(t, at)) \div 2 ^ (4 - off)) % 2 ^ 8
      BY <2>1, DecodedDigit
    <2> QED BY <2>2 DEF i, at
  <1>2. Digit(t, 6, 8, 3 * q + 1)
          = ((t[4 * q + 1] * 64 + NextOf(t, 4 * q + 1)) \div 16) % 256
    <2>1. 0 + 1 = 1 /\ 4 - 0 = 4 /\ 8 * 0 = 6 * (1 - 1) + 0
      OBVIOUS
    <2> QED BY <1>1, <2>1, Powers
  <1>3. Digit(t, 6, 8, 3 * q + 2)
          = ((t[4 * q + 2] * 64 + NextOf(t, 4 * q + 2)) \div 4) % 256
    <2>1. 1 + 1 = 2 /\ 4 - 2 = 2 /\ 8 * 1 = 6 * (2 - 1) + 2
      OBVIOUS
    <2> QED BY <1>1, <2>1, Powers
  <1>4. Digit(t, 6, 8, 3 * q + 3)
          = ((t[4 * q + 3] * 64 + NextOf(t, 4 * q + 3)) \div 1) % 256
    <2>1. 2 + 1 = 3 /\ 4 - 4 = 0 /\ 8 * 2 = 6 * (3 - 1) + 4
      OBVIOUS
    <2> QED BY <1>1, <2>1, Powers
  <1> QED BY <1>2, <1>3, <1>4

Byte == 0 .. 255
Sextet == 0 .. 63
ByteStrings == Seq(Byte)
Characters == Seq(Sextet)

LEMMA ByteAt ==
  ASSUME NEW s \in ByteStrings
  PROVE  /\ Len(s) \in Nat /\ DOMAIN s = 1 .. Len(s)
         /\ \A i \in 1 .. Len(s) : s[i] \in Byte /\ NextOf(s, i) \in Byte
  <1>1. Len(s) \in Nat /\ DOMAIN s = 1 .. Len(s)
    BY LenProperties DEF ByteStrings
  <1>2. \A i \in 1 .. Len(s) : s[i] \in Byte
    BY ElementOfSeq DEF ByteStrings
  <1>3. \A i \in 1 .. Len(s) : i < Len(s) => i + 1 \in 1 .. Len(s)
    BY <1>1
  <1>4. 0 \in Byte
    BY DEF Byte
  <1>5. \A i \in 1 .. Len(s) : NextOf(s, i) \in Byte
    BY <1>2, <1>3, <1>4 DEF NextOf
  <1> QED BY <1>1, <1>2, <1>5

\* The same, by name: the characters of two octets that follow one another,
\* and the octets of two characters.
Char1(a, b) == ((a * 256 + b) \div 1024) % 64
Char2(a, b) == ((a * 256 + b) \div 16) % 64
Char3(a, b) == ((a * 256 + b) \div 64) % 64
Char4(a, b) == ((a * 256 + b) \div 256) % 64
Octet1(e, f) == ((e * 64 + f) \div 16) % 256
Octet2(e, f) == ((e * 64 + f) \div 4) % 256
Octet3(e, f) == ((e * 64 + f) \div 1) % 256
Encoded(s, i) == Digit(s, 8, 6, i)
Decoded(t, i) == Digit(t, 6, 8, i)

LEMMA CharTypes ==
  ASSUME NEW a \in Byte, NEW b \in Byte
  PROVE  /\ Char1(a, b) \in Sextet /\ Char2(a, b) \in Sextet
         /\ Char3(a, b) \in Sextet /\ Char4(a, b) \in Sextet
  BY DEF Char1, Char2, Char3, Char4, Byte, Sextet

LEMMA FirstOfThree ==
  ASSUME NEW d \in Byte, NEW x \in Byte, NEW e, e = Char1(d, x), NEW f, f = Char2(d, x)
  PROVE  Octet1(e, f) = d
  <1> DEFINE h == d \div 4
             l == d % 4
             k == x \div 16
  <1>1. h \in 0 .. 63 /\ l \in 0 .. 3 /\ d = 4 * h + l /\ k \in 0 .. 15
    BY DEF Byte
  <1>2. e = h
    BY DEF Byte, Char1
  <1>3. f = 16 * l + k
    BY DEF Byte, Char2
  <1> HIDE DEF h, l, k
  <1>4. e * 64 + f = 16 * d + k
    BY <1>1, <1>2, <1>3 DEF Byte
  <1>5. (16 * d + k) \div 16 = d
    BY <1>1
  <1>6. d % 256 = d
    BY DEF Byte
  <1> QED BY <1>4, <1>5, <1>6 DEF Octet1

LEMMA SecondOfThree ==
  ASSUME NEW d \in Byte, NEW x \in Byte, NEW c \in Byte,
         NEW e, e = Char2(c, d), NEW f, f = Char3(d, x)
  PROVE  Octet2(e, f) = d
  <1> DEFINE h == d \div 16
             l == d % 16
             g == c % 4
             k == x \div 64
  <1>1. h \in 0 .. 15 /\ l \in 0 .. 15 /\ d = 16 * h + l /\ g \in 0 .. 3 /\ k \in 0 .. 3
    BY DEF Byte
  <1>2. e = 16 * g + h
    BY DEF Byte, Char2
  <1>3. f = 4 * l + k
    BY DEF Byte, Char3
  <1> HIDE DEF h, l, g, k
  <1>4. e * 64 + f = 4 * (256 * g + d) + k
    BY <1>1, <1>2, <1>3 DEF Byte
  <1>5. (4 * (256 * g + d) + k) \div 4 = 256 * g + d
    BY <1>1
  <1>6. (256 * g + d) % 256 = d
    BY <1>1 DEF Byte
  <1> QED BY <1>4, <1>5, <1>6 DEF Octet2

LEMMA ThirdOfThree ==
  ASSUME NEW d \in Byte, NEW x \in Byte, NEW c \in Byte,
         NEW e, e = Char3(c, d), NEW f, f = Char4(d, x)
  PROVE  Octet3(e, f) = d
  <1> DEFINE h == d \div 64
             l == d % 64
             g == c % 16
  <1>1. h \in 0 .. 3 /\ l \in 0 .. 63 /\ d = 64 * h + l /\ g \in 0 .. 15
    BY DEF Byte
  <1>2. e = 4 * g + h
    BY DEF Byte, Char3
  <1>3. f = l
    BY DEF Byte, Char4
  <1> HIDE DEF h, l, g
  <1>4. (e * 64 + f) \div 1 = 256 * g + d
    <2>1. e * 64 + f = 256 * g + d
      <3>1. e * 64 = 256 * g + 64 * h
        BY <1>1, <1>2
      <3> QED BY <1>1, <1>3, <3>1 DEF Byte
    <2>2. 256 * g + d \in Int
      BY <1>1 DEF Byte
    <2>3. \A v \in Int : v \div 1 = v
      OBVIOUS
    <2> QED BY <2>1, <2>2, <2>3
  <1>6. (256 * g + d) % 256 = d
    BY <1>1 DEF Byte
  <1> QED BY <1>4, <1>6 DEF Octet3

LEMMA OctetOfChars ==
  ASSUME NEW d \in Byte, NEW x \in Byte, NEW c \in Byte
  PROVE  /\ Octet1(Char1(d, x), Char2(d, x)) = d
         /\ Octet2(Char2(c, d), Char3(d, x)) = d
         /\ Octet3(Char3(c, d), Char4(d, x)) = d
  <1>1. \A e, f : e = Char1(d, x) /\ f = Char2(d, x) => Octet1(e, f) = d
    BY FirstOfThree
  <1>2. \A e, f : e = Char2(c, d) /\ f = Char3(d, x) => Octet2(e, f) = d
    BY SecondOfThree
  <1>3. \A e, f : e = Char3(c, d) /\ f = Char4(d, x) => Octet3(e, f) = d
    BY ThirdOfThree
  <1> QED BY <1>1, <1>2, <1>3

LEMMA FourChars ==
  ASSUME NEW s, NEW q \in Nat, NEW a, NEW b, NEW c, a = 3 * q + 1, b = 3 * q + 2, c = 3 * q + 3,
         NEW i
  PROVE  /\ i = 4 * q + 1 => Encoded(s, i) = Char1(s[a], NextOf(s, a))
         /\ i = 4 * q + 2 => Encoded(s, i) = Char2(s[a], NextOf(s, a))
         /\ i = 4 * q + 3 => Encoded(s, i) = Char3(s[b], NextOf(s, b))
         /\ i = 4 * q + 4 => Encoded(s, i) = Char4(s[c], NextOf(s, c))
  <1>1. Digit(s, 8, 6, 4 * q + 1)
              = ((s[3 * q + 1] * 256 + NextOf(s, 3 * q + 1)) \div 1024) % 64
    BY FourDigits
  <1>2. Digit(s, 8, 6, 4 * q + 2)
              = ((s[3 * q + 1] * 256 + NextOf(s, 3 * q + 1)) \div 16) % 64
    BY FourDigits
  <1>3. Digit(s, 8, 6, 4 * q + 3)
              = ((s[3 * q + 2] * 256 + NextOf(s, 3 * q + 2)) \div 64) % 64
    BY FourDigits
  <1>4. Digit(s, 8, 6, 4 * q + 4)
              = ((s[3 * q + 3] * 256 + NextOf(s, 3 * q + 3)) \div 256) % 64
    BY FourDigits
  <1>5. i = 4 * q + 1 => Encoded(s, i) = Char1(s[a], NextOf(s, a))
    BY <1>1 DEF Encoded, Char1
  <1>6. i = 4 * q + 2 => Encoded(s, i) = Char2(s[a], NextOf(s, a))
    BY <1>2 DEF Encoded, Char2
  <1>7. i = 4 * q + 3 => Encoded(s, i) = Char3(s[b], NextOf(s, b))
    BY <1>3 DEF Encoded, Char3
  <1>8. i = 4 * q + 4 => Encoded(s, i) = Char4(s[c], NextOf(s, c))
    BY <1>4 DEF Encoded, Char4
  <1> QED BY <1>5, <1>6, <1>7, <1>8

LEMMA ThreeOctets ==
  ASSUME NEW t, NEW q \in Nat, NEW a, NEW b, NEW c, a = 4 * q + 1, b = 4 * q + 2, c = 4 * q + 3,
         NEW i
  PROVE  /\ i = 3 * q + 1 => Decoded(t, i) = Octet1(t[a], NextOf(t, a))
         /\ i = 3 * q + 2 => Decoded(t, i) = Octet2(t[b], NextOf(t, b))
         /\ i = 3 * q + 3 => Decoded(t, i) = Octet3(t[c], NextOf(t, c))
  <1>1. Digit(t, 6, 8, 3 * q + 1)
              = ((t[4 * q + 1] * 64 + NextOf(t, 4 * q + 1)) \div 16) % 256
    BY ThreeDigits
  <1>2. Digit(t, 6, 8, 3 * q + 2)
              = ((t[4 * q + 2] * 64 + NextOf(t, 4 * q + 2)) \div 4) % 256
    BY ThreeDigits
  <1>3. Digit(t, 6, 8, 3 * q + 3)
              = ((t[4 * q + 3] * 64 + NextOf(t, 4 * q + 3)) \div 1) % 256
    BY ThreeDigits
  <1>4. i = 3 * q + 1 => Decoded(t, i) = Octet1(t[a], NextOf(t, a))
    BY <1>1 DEF Decoded, Octet1
  <1>5. i = 3 * q + 2 => Decoded(t, i) = Octet2(t[b], NextOf(t, b))
    BY <1>2 DEF Decoded, Octet2
  <1>6. i = 3 * q + 3 => Decoded(t, i) = Octet3(t[c], NextOf(t, c))
    BY <1>3 DEF Decoded, Octet3
  <1> QED BY <1>4, <1>5, <1>6

InFours(i, q) == i = 4 * q + 1 \/ i = 4 * q + 2 \/ i = 4 * q + 3 \/ i = 4 * q + 4
InThrees(i, q) == i = 3 * q + 1 \/ i = 3 * q + 2 \/ i = 3 * q + 3

LEMMA FourthOf ==
  ASSUME NEW i \in Nat, i >= 1
  PROVE  \E q \in Nat : InFours(i, q)
  <1>1. (i - 1) \div 4 \in Nat /\ (i - 1) % 4 \in 0 .. 3
        /\ i = 4 * ((i - 1) \div 4) + ((i - 1) % 4) + 1
    OBVIOUS
  <1> DEFINE q == (i - 1) \div 4
             r == (i - 1) % 4
  <1>2. q \in Nat /\ r \in 0 .. 3 /\ i = 4 * q + r + 1
    BY <1>1
  <1> HIDE DEF q, r
  <1>3. InFours(i, q)
    BY <1>2 DEF InFours
  <1> QED BY <1>2, <1>3

LEMMA ThirdOf ==
  ASSUME NEW i \in Nat, i >= 1
  PROVE  \E q \in Nat : InThrees(i, q)
  <1>1. (i - 1) \div 3 \in Nat /\ (i - 1) % 3 \in 0 .. 2
        /\ i = 3 * ((i - 1) \div 3) + ((i - 1) % 3) + 1
    OBVIOUS
  <1> DEFINE q == (i - 1) \div 3
             r == (i - 1) % 3
  <1>2. q \in Nat /\ r \in 0 .. 2 /\ i = 3 * q + r + 1
    BY <1>1
  <1> HIDE DEF q, r
  <1>3. InThrees(i, q)
    BY <1>2 DEF InThrees
  <1> QED BY <1>2, <1>3

LEMMA EncodedType ==
  ASSUME NEW s \in ByteStrings, NEW n, n = Len(s), NEW m, m = (8 * n + 5) \div 6,
         NEW i \in 1 .. m
  PROVE  Encoded(s, i) \in Sextet
  <1>1. n \in Nat /\ m \in Nat
    BY ByteAt, CharacterCount
  <1>2. i \in Nat /\ i >= 1 /\ i <= m /\ 6 * m <= 8 * n + 5
    BY <1>1
  <1>3. PICK q \in Nat : InFours(i, q)
    BY <1>2, FourthOf
  <1> DEFINE a == 3 * q + 1
             b == 3 * q + 2
             c == 3 * q + 3
  <1>4. /\ i = 4 * q + 1 => Encoded(s, i) = Char1(s[a], NextOf(s, a))
        /\ i = 4 * q + 2 => Encoded(s, i) = Char2(s[a], NextOf(s, a))
        /\ i = 4 * q + 3 => Encoded(s, i) = Char3(s[b], NextOf(s, b))
        /\ i = 4 * q + 4 => Encoded(s, i) = Char4(s[c], NextOf(s, c))
    BY FourChars, SMTT(30)
  <1>5. /\ i = 4 * q + 1 => a \in 1 .. n
        /\ i = 4 * q + 2 => a \in 1 .. n
        /\ i = 4 * q + 3 => b \in 1 .. n
        /\ i = 4 * q + 4 => c \in 1 .. n
    BY <1>1, <1>2
  <1> HIDE DEF a, b, c
  <1>6. \A k \in 1 .. n : s[k] \in Byte /\ NextOf(s, k) \in Byte
    BY ByteAt
  <1>7. \A k \in 1 .. n : /\ Char1(s[k], NextOf(s, k)) \in Sextet
                          /\ Char2(s[k], NextOf(s, k)) \in Sextet
                          /\ Char3(s[k], NextOf(s, k)) \in Sextet
                          /\ Char4(s[k], NextOf(s, k)) \in Sextet
    BY <1>6, CharTypes
  <1>8. CASE i = 4 * q + 1
    BY <1>4, <1>5, <1>7, <1>8
  <1>9. CASE i = 4 * q + 2
    BY <1>4, <1>5, <1>7, <1>9
  <1>10. CASE i = 4 * q + 3
    BY <1>4, <1>5, <1>7, <1>10
  <1>11. CASE i = 4 * q + 4
    BY <1>4, <1>5, <1>7, <1>11
  <1> QED BY <1>3, <1>8, <1>9, <1>10, <1>11 DEF InFours

LEMMA EncodeType ==
  ASSUME NEW s \in ByteStrings, NEW n, n = Len(s), NEW m, m = (8 * n + 5) \div 6
  PROVE  /\ n \in Nat /\ m \in Nat
         /\ b64_encode(s) \in Characters /\ Len(b64_encode(s)) = m
         /\ \A i \in 1 .. m : b64_encode(s)[i] = Encoded(s, i)
  <1>1. n \in Nat /\ m \in Nat
    BY ByteAt, CharacterCount
  <1>2. b64_encode(s) = [i \in 1 .. m |-> Digit(s, 8, 6, i)]
    BY DEF b64_encode
  <1>3. \A i \in 1 .. m : Digit(s, 8, 6, i) \in Sextet
    BY EncodedType DEF Encoded
  <1>4. [i \in 1 .. m |-> Digit(s, 8, 6, i)] \in Seq(Sextet)
    BY <1>1, <1>3
  <1>5. Len([i \in 1 .. m |-> Digit(s, 8, 6, i)]) = m
    BY <1>1
  <1> QED BY <1>1, <1>2, <1>4, <1>5 DEF Characters, Encoded

LEMMA CharacterText ==
  ASSUME NEW t \in Characters
  PROVE  /\ Len(t) \in Nat /\ DOMAIN t = 1 .. Len(t) /\ t \in Octets
         /\ \A i \in 1 .. Len(t) : t[i] \in Sextet
         /\ ToSet(t) \cap {Tilde, Dot} = {}
         /\ t \in Unmarked(Tilde) /\ t \in Unmarked(Dot)
  <1>1. Len(t) \in Nat /\ DOMAIN t = 1 .. Len(t) /\ \A i \in 1 .. Len(t) : t[i] \in Sextet
    BY LenProperties, ElementOfSeq DEF Characters
  <1>2. ToSet(t) \cap {Tilde, Dot} = {}
    <2>1. \A i \in DOMAIN t : t[i] # 64 /\ t[i] # 65
      <3>1. \A v \in Sextet : v # 64 /\ v # 65
        BY DEF Sextet
      <3> QED BY <1>1, <3>1
    <2> QED BY <2>1 DEF ToSet, Tilde, Dot
  <1>3. Sextet \subseteq Int /\ Sextet \subseteq Int \ {Tilde} /\ Sextet \subseteq Int \ {Dot}
    BY DEF Tilde, Dot, Sextet
  <1>4. t \in Seq(Int)
    BY <1>3, SeqMonotonic DEF Characters
  <1>5. t \in Seq(Int \ {Tilde})
    BY <1>3, SeqMonotonic DEF Characters
  <1>6. t \in Seq(Int \ {Dot})
    BY <1>3, SeqMonotonic DEF Characters
  <1> QED BY <1>1, <1>2, <1>4, <1>5, <1>6 DEF Octets, Unmarked

\* The octets a character text decodes to are those it was encoded from.
IsEncoding(t, s) ==
  /\ Len(t) = (8 * Len(s) + 5) \div 6
  /\ \A k \in 1 .. Len(t) : t[k] = Encoded(s, k)
DecodesTo(t, s) == \A i \in 1 .. Len(s) : Decoded(t, i) = s[i]

LEMMA DecodedEncoded ==
  ASSUME NEW s \in ByteStrings, NEW t, IsEncoding(t, s)
  PROVE  DecodesTo(t, s)
  <1> DEFINE n == Len(s)
             m == Len(t)
  <1>0. m = (8 * n + 5) \div 6 /\ \A k \in 1 .. m : t[k] = Encoded(s, k)
    BY DEF IsEncoding
  <1> SUFFICES ASSUME NEW i \in 1 .. n PROVE Decoded(t, i) = s[i]
    BY DEF DecodesTo
  <1> HIDE DEF n, m
  <1>1. n \in Nat /\ m \in Nat
    BY <1>0, ByteAt, CharacterCount DEF n
  <1>2. i \in Nat /\ i >= 1 /\ i <= n /\ 6 * m >= 8 * n
    BY <1>0, <1>1
  <1>3. PICK q \in Nat : InThrees(i, q)
    BY <1>2, ThirdOf
  <1> DEFINE a == 3 * q + 1
             b == 3 * q + 2
             c == 3 * q + 3
             w == 4 * q + 1
             x == 4 * q + 2
             y == 4 * q + 3
             z == 4 * q + 4
  <1>4. /\ w = 4 * q + 1 => Encoded(s, w) = Char1(s[a], NextOf(s, a))
        /\ x = 4 * q + 2 => Encoded(s, x) = Char2(s[a], NextOf(s, a))
        /\ y = 4 * q + 3 => Encoded(s, y) = Char3(s[b], NextOf(s, b))
        /\ z = 4 * q + 4 => Encoded(s, z) = Char4(s[c], NextOf(s, c))
    <2>1. \A k : /\ k = 4 * q + 1 => Encoded(s, k) = Char1(s[a], NextOf(s, a))
                 /\ k = 4 * q + 2 => Encoded(s, k) = Char2(s[a], NextOf(s, a))
                 /\ k = 4 * q + 3 => Encoded(s, k) = Char3(s[b], NextOf(s, b))
                 /\ k = 4 * q + 4 => Encoded(s, k) = Char4(s[c], NextOf(s, c))
      BY FourChars
    <2> HIDE DEF a, b, c
    <2> QED BY <2>1
  <1>5. /\ i = 3 * q + 1 => Decoded(t, i) = Octet1(t[w], NextOf(t, w))
        /\ i = 3 * q + 2 => Decoded(t, i) = Octet2(t[x], NextOf(t, x))
        /\ i = 3 * q + 3 => Decoded(t, i) = Octet3(t[y], NextOf(t, y))
    <2>1. w = 4 * q + 1 /\ x = 4 * q + 2 /\ y = 4 * q + 3
      OBVIOUS
    <2> HIDE DEF w, x, y
    <2>2. \A k : /\ k = 3 * q + 1 => Decoded(t, k) = Octet1(t[w], NextOf(t, w))
                 /\ k = 3 * q + 2 => Decoded(t, k) = Octet2(t[x], NextOf(t, x))
                 /\ k = 3 * q + 3 => Decoded(t, k) = Octet3(t[y], NextOf(t, y))
      BY ONLY <2>1, q \in Nat, ThreeOctets
    <2> QED BY <2>2
  <1>6. /\ i = 3 * q + 1 => a \in 1 .. n /\ w \in 1 .. m - 1 /\ w + 1 = x /\ i = a
        /\ i = 3 * q + 2 => /\ a \in 1 .. n - 1 /\ b \in 1 .. n /\ x \in 1 .. m - 1
                            /\ x + 1 = y /\ a + 1 = b /\ i = b
        /\ i = 3 * q + 3 => /\ b \in 1 .. n - 1 /\ c \in 1 .. n /\ y \in 1 .. m - 1
                            /\ y + 1 = z /\ b + 1 = c /\ i = c
    BY <1>1, <1>2
  <1>7. Encoded(s, w) = Char1(s[a], NextOf(s, a)) /\ Encoded(s, x) = Char2(s[a], NextOf(s, a))
        /\ Encoded(s, y) = Char3(s[b], NextOf(s, b)) /\ Encoded(s, z) = Char4(s[c], NextOf(s, c))
    BY <1>4
  <1> HIDE DEF a, b, c, w, x, y, z
  <1>8. \A k \in 1 .. n : s[k] \in Byte /\ NextOf(s, k) \in Byte
    BY ByteAt DEF n
  <1>9. \A k \in 1 .. n - 1 : NextOf(s, k) = s[k + 1] /\ k \in 1 .. n
    BY <1>1 DEF NextOf, n
  <1>10. \A k \in 1 .. m - 1 : t[k] = Encoded(s, k) /\ NextOf(t, k) = Encoded(s, k + 1)
    <2>1. \A k \in 1 .. m - 1 : k \in 1 .. m /\ k + 1 \in 1 .. m /\ k < m
      BY <1>1
    <2> QED BY <1>0, <2>1 DEF NextOf, m
  <1>11. CASE i = 3 * q + 1
    <2>1. a \in 1 .. n /\ w \in 1 .. m - 1 /\ w + 1 = x /\ i = a
      BY <1>6, <1>11
    <2>2. t[w] = Encoded(s, w) /\ NextOf(t, w) = Encoded(s, x)
      BY <1>10, <2>1
    <2>3. s[a] \in Byte /\ NextOf(s, a) \in Byte
      BY <1>8, <2>1
    <2> DEFINE d == s[a]
               v == NextOf(s, a)
    <2>4. Decoded(t, i) = Octet1(Char1(d, v), Char2(d, v))
      BY <1>5, <1>7, <1>11, <2>2
    <2>5. d \in Byte /\ v \in Byte
      BY <2>3
    <2> HIDE DEF d, v
    <2>6. Octet1(Char1(d, v), Char2(d, v)) = d
      BY <2>5, OctetOfChars
    <2> QED BY <2>1, <2>4, <2>6 DEF d
  <1>12. CASE i = 3 * q + 2
    <2>1. /\ a \in 1 .. n - 1 /\ b \in 1 .. n /\ x \in 1 .. m - 1
          /\ x + 1 = y /\ a + 1 = b /\ i = b
      BY <1>6, <1>12
    <2>2. t[x] = Encoded(s, x) /\ NextOf(t, x) = Encoded(s, y)
      BY <1>10, <2>1
    <2>3. /\ s[b] \in Byte /\ NextOf(s, b) \in Byte
          /\ s[a] \in Byte /\ NextOf(s, a) = s[b]
      BY <1>8, <1>9, <2>1
    <2> DEFINE e == s[a]
               d == s[b]
               v == NextOf(s, b)
    <2>4. Decoded(t, i) = Octet2(Char2(e, d), Char3(d, v))
      BY <1>5, <1>7, <1>12, <2>2, <2>3
    <2>5. d \in Byte /\ v \in Byte /\ e \in Byte
      BY <2>3
    <2> HIDE DEF d, v, e
    <2>6. Octet2(Char2(e, d), Char3(d, v)) = d
      BY <2>5, OctetOfChars
    <2> QED BY <2>1, <2>4, <2>6 DEF d
  <1>13. CASE i = 3 * q + 3
    <2>1. /\ b \in 1 .. n - 1 /\ c \in 1 .. n /\ y \in 1 .. m - 1
          /\ y + 1 = z /\ b + 1 = c /\ i = c
      BY <1>6, <1>13
    <2>2. t[y] = Encoded(s, y) /\ NextOf(t, y) = Encoded(s, z)
      BY <1>10, <2>1
    <2>3. /\ s[c] \in Byte /\ NextOf(s, c) \in Byte
          /\ s[b] \in Byte /\ NextOf(s, b) = s[c]
      BY <1>8, <1>9, <2>1
    <2> DEFINE e == s[b]
               d == s[c]
               v == NextOf(s, c)
    <2>4. Decoded(t, i) = Octet3(Char3(e, d), Char4(d, v))
      BY <1>5, <1>7, <1>13, <2>2, <2>3
    <2>5. d \in Byte /\ v \in Byte /\ e \in Byte
      BY <2>3
    <2> HIDE DEF d, v, e
    <2>6. Octet3(Char3(e, d), Char4(d, v)) = d
      BY <2>5, OctetOfChars
    <2> QED BY <2>1, <2>4, <2>6 DEF d
  <1> QED BY <1>3, <1>11, <1>12, <1>13 DEF InThrees

\* What b64_decode makes of what b64_encode wrote is the octet string
\* (jwp.rs:415-458).
THEOREM Base64ReadBack ==
  ASSUME NEW s \in ByteStrings
  PROVE  b64_decode(b64_encode(s)) = {s}
  <1> DEFINE n == Len(s)
             m == (8 * n + 5) \div 6
             t == b64_encode(s)
             r == [i \in 1 .. n |-> Digit(t, 6, 8, i)]
  <1>1. /\ n \in Nat /\ m \in Nat /\ (6 * m) \div 8 = n /\ m % 4 # 1 /\ 6 * m <= 8 * n + 5
        /\ 6 * m >= 8 * n
    <2>1. n \in Nat
      BY ByteAt
    <2> HIDE DEF n
    <2> QED BY <2>1, CharacterCount
  <1>2. t \in Characters /\ Len(t) = m /\ \A i \in 1 .. m : t[i] = Encoded(s, i)
    BY EncodeType
  <1>3. ToSet(t) \cap {Tilde, Dot} = {}
    BY <1>2, CharacterText
  <1> HIDE DEF t, m
  <1>4. b64_decode(t) = {r}
    BY <1>1, <1>2, <1>3 DEF b64_decode
  <1>5. \A i \in 1 .. n : Digit(t, 6, 8, i) = s[i]
    <2>1. IsEncoding(t, s)
      BY <1>2 DEF IsEncoding, m
    <2>2. DecodesTo(t, s)
      BY <2>1, DecodedEncoded
    <2> QED BY <2>2 DEF DecodesTo, Decoded
  <1>6. s = [i \in 1 .. n |-> s[i]]
    BY DEF ByteStrings
  <1>7. r = s
    BY <1>5, <1>6
  <1> QED BY <1>4, <1>7 DEF t

LEMMA SameDecoded ==
  ASSUME NEW c, NEW t, Len(c) \in Nat, Len(t) \in Nat, Len(c) <= Len(t),
         \A k \in 1 .. Len(c) : c[k] = t[k],
         NEW i \in Nat, i >= 1, 8 * i <= 6 * Len(c)
  PROVE  Decoded(c, i) = Decoded(t, i)
  <1> DEFINE bit == 8 * (i - 1)
             at == bit \div 6 + 1
  <1>1. at \in 1 .. Len(c) /\ at + 1 \in 1 .. Len(c) /\ at < Len(c) /\ at < Len(t)
    OBVIOUS
  <1>2. \A u : Decoded(u, i) = ((u[at] * 2 ^ 6 + NextOf(u, at)) \div 2 ^ (2 * 6 - 8 - (bit % 6))) % 2 ^ 8
    BY DEF Decoded, Digit, NextOf
  <1> HIDE DEF bit, at
  <1>3. c[at] = t[at] /\ NextOf(c, at) = NextOf(t, at)
    BY <1>1 DEF NextOf
  <1> QED BY <1>2, <1>3

\* Of characters cut short b64_decode makes what starts the octet string: an
\* octet at least is missing, and no other is changed (jwp.rs:431-458).
THEOREM Base64Cut ==
  ASSUME NEW s \in ByteStrings, NEW c \in Octets, NEW rest \in Octets,
         b64_encode(s) = Join(c, rest), rest # <<>>,
         NEW y \in b64_decode(c)
  PROVE  IsStrictPrefix(y, s)
  <1> DEFINE n == Len(s)
             t == b64_encode(s)
             m == Len(t)
             M == Len(c)
             k == (6 * M) \div 8
  <1>1. /\ n \in Nat /\ m \in Nat /\ m = (8 * n + 5) \div 6
        /\ t \in Characters /\ IsEncoding(t, s)
    <2>1. n \in Nat
      BY ByteAt
    <2>2. (8 * n + 5) \div 6 \in Nat
      BY <2>1
    <2>3. t \in Characters /\ m = (8 * n + 5) \div 6
          /\ \A i \in 1 .. (8 * n + 5) \div 6 : t[i] = Encoded(s, i)
      BY EncodeType, ZenonT(40)
    <2>4. IsEncoding(t, s)
      BY <2>3 DEF IsEncoding
    <2> QED BY <2>1, <2>2, <2>3, <2>4
  <1>2. DecodesTo(t, s)
    BY <1>1, DecodedEncoded
  <1>3. M \in Nat /\ Len(rest) \in Nat /\ Len(rest) # 0 /\ m = M + Len(rest)
    <2>1. Len(Join(c, rest)) = M + Len(rest) /\ M \in Nat /\ Len(rest) \in Nat
      BY OctetsJoined
    <2>2. Len(rest) # 0
      BY EmptySeq DEF Octets
    <2> QED BY <2>1, <2>2
  <1>4. \A i \in 1 .. M : c[i] = t[i]
    BY OctetsHalves
  <1>5. y = [i \in 1 .. k |-> Decoded(c, i)]
    BY DEF b64_decode, Decoded
  <1> HIDE DEF t, n, m, M
  <1>6. k \in Nat /\ k < n /\ \A i \in 1 .. k : i \in Nat /\ i >= 1 /\ 8 * i <= 6 * M
    BY <1>1, <1>3
  <1> HIDE DEF k
  <1>7. \A i \in 1 .. k : y[i] = s[i] /\ i \in 1 .. n
    <2> SUFFICES ASSUME NEW i \in 1 .. k PROVE y[i] = s[i] /\ i \in 1 .. n
      OBVIOUS
    <2>1. i \in 1 .. n /\ i \in Nat /\ i >= 1 /\ 8 * i <= 6 * M
      BY <1>1, <1>6
    <2>2. Decoded(c, i) = Decoded(t, i)
      <3>1. Len(c) \in Nat /\ Len(t) \in Nat /\ Len(c) <= Len(t) /\ 8 * i <= 6 * Len(c)
            /\ \A j \in 1 .. Len(c) : c[j] = t[j]
        BY <1>1, <1>3, <1>4, <2>1 DEF M, m
      <3> QED BY ONLY <2>1, <3>1, SameDecoded
    <2>3. Decoded(t, i) = s[i]
      BY <1>2, <2>1 DEF DecodesTo, n
    <2> QED BY <1>5, <2>1, <2>2, <2>3
  <1>8. y \in ByteStrings /\ Len(y) = k
    <2>1. \A i \in 1 .. n : s[i] \in Byte
      BY ByteAt DEF n
    <2>2. \A i \in 1 .. k : Decoded(c, i) \in Byte
      BY <1>5, <1>7, <2>1
    <2> QED BY <1>5, <1>6, <2>2 DEF ByteStrings
  <1> DEFINE a == SubSeq(y, 1, Len(y))
             b == SubSeq(s, 1, Len(y))
  <1>9. /\ a \in ByteStrings /\ Len(a) = k /\ \A i \in 1 .. k : a[i] = y[i]
        /\ b \in ByteStrings /\ Len(b) = k /\ \A i \in 1 .. k : b[i] = s[i]
    <2>1. Len(y) = k /\ k \in 0 .. Len(y) /\ k \in 0 .. Len(s) /\ y \in Seq(Byte) /\ s \in Seq(Byte)
      BY <1>1, <1>6, <1>8 DEF ByteStrings, n
    <2> QED BY <2>1, PrefixType DEF ByteStrings
  <1> HIDE DEF a, b
  <1>10. a = b
    <2>1. \A i \in 1 .. Len(a) : a[i] = b[i]
      BY <1>7, <1>9
    <2> QED BY <1>9, <2>1, SeqEqual DEF ByteStrings
  <1>11. Len(y) <= Len(s) /\ y # s
    BY <1>1, <1>6, <1>8 DEF n
  <1> QED BY <1>10, <1>11 DEF IsStrictPrefix, IsPrefix, a, b

-----------------------------------------------------------------------------
(* Groups.                                                                 *)

Members == {<<>>} \cup {<<b>> : b \in ByteStrings}
Groups == Seq(Members)

\* A part of a group, read.
ReadMember(part) ==
  IF part = <<>> THEN {<<>>}
  ELSE IF part = <<Underscore>> THEN {<<<<>>>>}
  ELSE {<<octets>> : octets \in b64_decode(part)}

LEMMA EncodeLong ==
  ASSUME NEW b \in ByteStrings, b # <<>>
  PROVE  /\ b64_encode(b) \in Characters
         /\ b64_encode(b) # <<>> /\ b64_encode(b) # <<Underscore>>
  <1> DEFINE n == Len(b)
             m == (8 * n + 5) \div 6
  <1>1. b64_encode(b) \in Characters /\ Len(b64_encode(b)) = m
    BY EncodeType
  <1>2. n \in Nat /\ n # 0
    BY ByteAt, EmptySeq DEF ByteStrings
  <1>3. m >= 2
    <2> HIDE DEF n
    <2> QED BY <1>2, CharacterCount
  <1>4. Len(<<>>) = 0 /\ Len(<<Underscore>>) = 1
    OBVIOUS
  <1> HIDE DEF m
  <1>5. ~ (0 >= 2) /\ ~ (1 >= 2)
    OBVIOUS
  <1> QED BY <1>1, <1>3, <1>4, <1>5

LEMMA MemberReadBack ==
  ASSUME NEW v \in Members
  PROVE  /\ GroupMember(v) \in Characters
         /\ ReadMember(GroupMember(v)) = {v}
  <1>1. CASE v = <<>>
    <2>1. GroupMember(v) = <<>>
      BY <1>1 DEF GroupMember
    <2>2. <<>> \in Characters
      BY EmptySeq DEF Characters
    <2> QED BY <1>1, <2>1, <2>2 DEF ReadMember
  <1>2. CASE v # <<>>
    <2>1. PICK b \in ByteStrings : v = <<b>>
      BY <1>2 DEF Members
    <2>2. v[1] = b
      BY <2>1
    <2>3. CASE b = <<>>
      <3>1. GroupMember(v) = <<Underscore>>
        BY <1>2, <2>2, <2>3 DEF GroupMember
      <3>2. <<Underscore>> \in Characters /\ <<Underscore>> # <<>>
        BY DEF Characters, Underscore, Sextet
      <3>3. ReadMember(<<Underscore>>) = {<<<<>>>>}
        BY <3>2 DEF ReadMember
      <3> QED BY <2>1, <2>3, <3>1, <3>2, <3>3
    <2>4. CASE b # <<>>
      <3> DEFINE t == b64_encode(b)
      <3>1. GroupMember(v) = t
        BY <1>2, <2>2, <2>4 DEF GroupMember
      <3>2. t \in Characters /\ t # <<>> /\ t # <<Underscore>>
        BY <2>4, EncodeLong
      <3>3. b64_decode(t) = {b}
        BY Base64ReadBack
      <3> HIDE DEF t
      <3>4. ReadMember(t) = {<<b>>}
        BY <3>2, <3>3 DEF ReadMember
      <3> QED BY <2>1, <3>1, <3>2, <3>4
    <2> QED BY <2>3, <2>4
  <1> QED BY <1>1, <1>2

TextsOf(values) == [i \in DOMAIN values |-> GroupMember(values[i])]

LEMMA GroupTexts ==
  ASSUME NEW values \in Groups
  PROVE  /\ TextsOf(values) \in UnmarkedLists(Tilde)
         /\ TextsOf(values) \in UnmarkedLists(Dot)
         /\ Len(TextsOf(values)) = Len(values) /\ Len(values) \in Nat
         /\ DOMAIN values = 1 .. Len(values)
         /\ DOMAIN TextsOf(values) = 1 .. Len(values)
         /\ \A i \in 1 .. Len(values) : ReadMember(TextsOf(values)[i]) = {values[i]}
  <1>1. /\ Len(values) \in Nat /\ DOMAIN values = 1 .. Len(values)
        /\ \A i \in 1 .. Len(values) : values[i] \in Members
    BY LenProperties, ElementOfSeq DEF Groups
  <1>2. \A i \in 1 .. Len(values) : /\ GroupMember(values[i]) \in Characters
                                    /\ ReadMember(GroupMember(values[i])) = {values[i]}
    BY <1>1, MemberReadBack
  <1>3. \A i \in 1 .. Len(values) : /\ GroupMember(values[i]) \in Unmarked(Tilde)
                                    /\ GroupMember(values[i]) \in Unmarked(Dot)
    BY <1>2, CharacterText
  <1>4. TextsOf(values) = [i \in 1 .. Len(values) |-> GroupMember(values[i])]
    BY <1>1 DEF TextsOf
  <1>5. TextsOf(values) \in Seq(Unmarked(Tilde)) /\ TextsOf(values) \in Seq(Unmarked(Dot))
    BY <1>1, <1>3, <1>4
  <1>6. Len(TextsOf(values)) = Len(values) /\ DOMAIN TextsOf(values) = 1 .. Len(values)
    BY <1>1, <1>4
  <1>7. \A i \in 1 .. Len(values) : ReadMember(TextsOf(values)[i]) = {values[i]}
    BY <1>2, <1>4
  <1> QED BY <1>1, <1>5, <1>6, <1>7 DEF UnmarkedLists

LEMMA DecodeGroup ==
  ASSUME NEW text, NEW parts, parts = SplitBy(text, Tilde)
  PROVE  decode_group(text) = All([i \in DOMAIN parts |-> ReadMember(parts[i])])
  BY DEF decode_group, ReadMember

\* A group that is not empty is read as it was written (jwp.rs:463-483).
THEOREM GroupReadBack ==
  ASSUME NEW values \in Groups, values # <<>>
  PROVE  decode_group(encode_group(values)) = {values}
  <1> DEFINE p == TextsOf(values)
             n == Len(values)
             reads == [i \in DOMAIN p |-> ReadMember(p[i])]
  <1>1. /\ p \in UnmarkedLists(Tilde) /\ Len(p) = n /\ n \in Nat
        /\ DOMAIN values = 1 .. n /\ DOMAIN p = 1 .. n
        /\ \A i \in 1 .. n : ReadMember(p[i]) = {values[i]}
    BY GroupTexts
  <1>2. p # <<>>
    <2>1. n # 0
      BY EmptySeq DEF Groups
    <2>2. Len(<<>>) = 0
      OBVIOUS
    <2> QED BY <1>1, <2>1, <2>2
  <1>3. encode_group(values) = JoinedBy(p, Tilde)
    BY DEF encode_group, TextsOf
  <1>4. Tilde \in Int
    BY DEF Tilde
  <1> HIDE DEF p
  <1>5. SplitBy(encode_group(values), Tilde) = p
    BY <1>1, <1>2, <1>3, <1>4, SplitJoined
  <1>6. decode_group(encode_group(values)) = All(reads)
    BY <1>5, DecodeGroup
  <1>7. reads = [i \in 1 .. n |-> {values[i]}]
    BY <1>1
  <1>8. All([i \in 1 .. n |-> {values[i]}]) = {[i \in 1 .. n |-> values[i]]}
    <2> DEFINE f == [i \in 1 .. n |-> {values[i]}]
    <2>1. DOMAIN f = 1 .. n /\ \A i \in 1 .. n : f[i] # {} /\ (CHOOSE x \in f[i] : TRUE) = values[i]
      OBVIOUS
    <2> HIDE DEF f
    <2>2. [i \in DOMAIN f |-> CHOOSE x \in f[i] : TRUE] = [i \in 1 .. n |-> values[i]]
      BY <2>1
    <2>3. All(f) = {[i \in DOMAIN f |-> CHOOSE x \in f[i] : TRUE]}
      BY <2>1 DEF All
    <2> QED BY <2>2, <2>3 DEF f
  <1>9. values = [i \in 1 .. n |-> values[i]]
    BY DEF Groups
  <1> QED BY <1>6, <1>7, <1>8, <1>9

\* The text of a group has no dots.
LEMMA GroupText ==
  ASSUME NEW values \in Groups
  PROVE  encode_group(values) \in Unmarked(Dot)
  <1> DEFINE p == TextsOf(values)
             S == Int \ {Dot}
             w == WithMarks(p, Tilde)
             u == <<Tilde>>
  <1>1. p \in Seq(Seq(S)) /\ p \in PartLists
    <2>1. p \in UnmarkedLists(Dot)
      BY GroupTexts
    <2> HIDE DEF p
    <2> QED BY <2>1, UnmarkedParts DEF UnmarkedLists, Unmarked
  <1>2. u \in Seq(S) /\ Tilde \in Int
    BY DEF Tilde, Dot
  <1>3. Len(p) \in Nat /\ DOMAIN p = 1 .. Len(p) /\ \A i \in 1 .. Len(p) : p[i] \in Seq(S)
    <2> HIDE DEF p
    <2> QED BY <1>1, LenProperties, ElementOfSeq
  <1> HIDE DEF p, u, S
  <1>4. \A i \in 1 .. Len(p) : Join(u, p[i]) \in Seq(S)
    BY <1>2, <1>3, ConcatProperties DEF Join
  <1>5. w = [i \in 1 .. Len(p) |-> IF i = 1 THEN p[i] ELSE Join(u, p[i])]
    BY <1>3 DEF WithMarks, u
  <1>6. w \in Seq(Seq(S))
    BY <1>3, <1>4, <1>5
  <1> HIDE DEF w
  <1>7. FlattenSeq(w) \in Seq(S)
    BY <1>6, FlattenType
  <1>8. encode_group(values) = JoinedBy(p, Tilde)
    BY DEF encode_group, TextsOf, p
  <1>9. JoinedBy(p, Tilde) = FlattenSeq(w)
    BY <1>1, <1>2, WithMarksType DEF w
  <1> QED BY <1>7, <1>8, <1>9 DEF Unmarked, S

LEMMA OneMember ==
  ASSUME NEW b \in ByteStrings, NEW values, values = <<<<b>>>>
  PROVE  /\ values \in Groups /\ values # <<>> /\ Len(values) = 1 /\ values[1] = <<b>>
         /\ encode_group(values) = GroupMember(<<b>>)
         /\ OnlyMember({values}) = {b}
  <1> DEFINE v == <<b>>
  <1>1. v \in Members /\ v # <<>> /\ v[1] = b
    BY DEF Members
  <1>2. values = <<v>>
    OBVIOUS
  <1> HIDE DEF v
  <1>3. values \in Groups /\ values # <<>> /\ Len(values) = 1 /\ values[1] = v
    BY <1>1, <1>2 DEF Groups
  <1>4. encode_group(values) = GroupMember(v)
    <2>1. TextsOf(values) = <<GroupMember(v)>>
      BY <1>2, <1>3 DEF TextsOf
    <2>2. GroupMember(v) \in Octets /\ Tilde \in Int
      BY <1>1, MemberReadBack, CharacterText DEF Tilde
    <2> DEFINE e == <<>>
               g == GroupMember(v)
    <2>3. e \in PartLists /\ Append(e, g) = <<g>>
      BY EmptySeq DEF PartLists
    <2> HIDE DEF g
    <2>4. JoinedBy(Append(e, g), Tilde) = g
      <3>1. e = <<>>
        OBVIOUS
      <3> HIDE DEF e
      <3> QED BY <2>2, <2>3, <3>1, JoinedAppend DEF g
    <2> QED BY <2>1, <2>3, <2>4 DEF encode_group, TextsOf, g
  <1>5. OnlyMember({values}) = {b}
    BY <1>1, <1>3 DEF OnlyMember
  <1> QED BY <1>3, <1>4, <1>5 DEF v

\* Of the characters of a signature or proof cut short, what is read starts it
\* and is shorter.
LEMMA EndCut ==
  ASSUME NEW b \in ByteStrings, NEW values, values = <<<<b>>>>,
         NEW c \in Octets, NEW rest \in Octets, rest # <<>>,
         encode_group(values) = Join(c, rest), NEW y \in OnlyMember(decode_group(c))
  PROVE  IsStrictPrefix(y, b)
  <1> DEFINE v == <<b>>
             e == <<>>
             u == <<Underscore>>
  <1>0. v # <<>> /\ v[1] = b /\ v \in Members
    BY DEF Members
  <1>1. GroupMember(v) = Join(c, rest) /\ GroupMember(v) \in Unmarked(Tilde)
    BY <1>0, OneMember, MemberReadBack, CharacterText
  <1> HIDE DEF v, e, u
  <1>2. c \in Unmarked(Tilde)
    BY <1>1, UnmarkedPrefix
  <1>3. SplitBy(c, Tilde) = <<c>>
    <2>1. /\ e \in PartLists /\ e \in Octets /\ SplitBy(e, Tilde) = Append(e, e)
          /\ \A a \in Octets : Join(e, a) = a /\ Append(e, a) = <<a>>
      <3>1. Append(<<>>, <<>>) = <<<<>>>> /\ \A a \in Octets : Append(<<>>, a) = <<a>>
        OBVIOUS
      <3>2. <<>> \in PartLists /\ <<>> \in Octets
        BY EmptySeq DEF PartLists, Octets
      <3>3. \A a \in Octets : Join(<<>>, a) = a
        BY OctetsEmpty
      <3> QED BY <3>1, <3>2, <3>3, SplitNothing DEF e
    <2>2. SplitBy(Join(e, c), Tilde) = Append(e, Join(e, c))
      BY <1>2, <2>1, SplitExtend
    <2> QED BY <2>1, <2>2
  <1>4. PICK h \in All(<<ReadMember(c)>>) : Len(h) = 1 /\ h[1] # <<>> /\ y = h[1][1]
    <2> DEFINE parts == <<c>>
    <2>1. parts = SplitBy(c, Tilde) /\ DOMAIN parts = {1} /\ parts[1] = c
      BY <1>3
    <2> HIDE DEF parts
    <2>2. decode_group(c) = All([i \in DOMAIN parts |-> ReadMember(parts[i])])
      BY <2>1, DecodeGroup
    <2>3. [i \in DOMAIN parts |-> ReadMember(parts[i])] = <<ReadMember(c)>>
      <3>1. [i \in {1} |-> ReadMember(parts[i])] = [i \in {1} |-> ReadMember(c)]
        BY <2>1
      <3>2. [i \in {1} |-> ReadMember(c)] = <<ReadMember(c)>>
        OBVIOUS
      <3> QED BY <2>1, <3>1, <3>2
    <2>4. y \in OnlyMember(All(<<ReadMember(c)>>))
      BY <2>2, <2>3
    <2> QED BY <2>4 DEF OnlyMember
  <1>5. h[1] \in ReadMember(c)
    <2> DEFINE reads == <<ReadMember(c)>>
    <2>1. DOMAIN reads = {1} /\ reads[1] = ReadMember(c)
      OBVIOUS
    <2> HIDE DEF reads
    <2>2. h \in All(reads)
      BY <1>4 DEF reads
    <2>3. reads[1] # {} /\ h = [i \in DOMAIN reads |-> CHOOSE x \in reads[i] : TRUE]
      BY <2>1, <2>2 DEF All
    <2>4. h[1] = CHOOSE x \in reads[1] : TRUE
      BY <2>1, <2>3
    <2> QED BY <2>1, <2>3, <2>4
  <1>6. c # <<>>
    BY <1>4, <1>5 DEF ReadMember
  <1>7. Len(c) \in Nat /\ Len(c) >= 1 /\ Len(rest) \in Nat /\ Len(rest) >= 1
        /\ Len(Join(c, rest)) = Len(c) + Len(rest)
    <2>1. Len(c) \in Nat /\ Len(rest) \in Nat /\ Len(Join(c, rest)) = Len(c) + Len(rest)
      BY OctetsJoined
    <2>2. Len(c) # 0 /\ Len(rest) # 0
      BY <1>6, EmptySeq DEF Octets
    <2> QED BY <2>1, <2>2
  <1>8. b # <<>>
    <2> SUFFICES ASSUME b = <<>> PROVE FALSE
      OBVIOUS
    <2>1. GroupMember(v) = u
      BY <1>0 DEF GroupMember, u
    <2>2. Len(u) = 1
      BY DEF u
    <2>3. Len(Join(c, rest)) = 1
      BY <1>1, <2>1, <2>2
    <2>4. \A m, n \in Nat : m >= 1 /\ n >= 1 => m + n # 1
      OBVIOUS
    <2>5. Len(c) + Len(rest) # 1
      BY <1>7, <2>4
    <2> QED BY <1>7, <2>3, <2>5
  <1>9. b64_encode(b) = Join(c, rest)
    BY <1>0, <1>1, <1>8 DEF GroupMember
  <1>10. CASE c = u
    <2>1. h[1] = <<<<>>>>
      BY <1>5, <1>6, <1>10 DEF ReadMember, u
    <2>2. y = <<>>
      BY <1>4, <2>1
    <2>3. IsStrictPrefix(<<>>, b)
      <3>1. Len(b) \in Nat
        BY ByteAt
      <3>2. SubSeq(<<>>, 1, Len(<<>>)) = SubSeq(b, 1, Len(<<>>))
        <4>1. Len(<<>>) = 0
          OBVIOUS
        <4>2. SubSeq(<<>>, 1, 0) = <<>> /\ SubSeq(b, 1, 0) = <<>>
          OBVIOUS
        <4> QED BY <4>1, <4>2
      <3>3. Len(<<>>) <= Len(b)
        BY <3>1
      <3> QED BY <1>8, <3>2, <3>3 DEF IsStrictPrefix, IsPrefix
    <2> QED BY <2>2, <2>3
  <1>11. CASE c # u
    <2>1. PICK octets \in b64_decode(c) : h[1] = <<octets>>
      BY <1>5, <1>6, <1>11 DEF ReadMember, u
    <2>2. y = octets
      BY <1>4, <2>1
    <2>3. IsStrictPrefix(octets, b)
      BY <1>9, Base64Cut
    <2> QED BY <2>2, <2>3
  <1> QED BY <1>10, <1>11

-----------------------------------------------------------------------------
(* The containers.                                                         *)

IssuedJwps ==
  [issuer_header : ByteStrings, payloads : Seq(ByteStrings) \ {<<>>},
   signature : ByteStrings]

PresentedJwps ==
  [presentation_header : ByteStrings, issuer_header : ByteStrings,
   payloads : Groups \ {<<>>}, proof : ByteStrings]

\* A container: the parts before the last one, and that of a signature or proof.
IsContainer(text, front, last) ==
  /\ front \in UnmarkedLists(Dot) /\ last \in Unmarked(Dot)
  /\ text = JoinedBy(Append(front, last), Dot)

\* The parts of a text.
PartsAre(parts, front, last) ==
  /\ Len(parts) = Len(front) + 1
  /\ parts[Len(front) + 1] = last
  /\ \A i \in 1 .. Len(front) : parts[i] = front[i]

\* The parts but for the rest of the last one.
EndIsCut(parts, front, last, rest) ==
  \E c \in Octets : last = Join(c, rest) /\ PartsAre(parts, front, c)

LEMMA UnmarkedEnd ==
  ASSUME NEW mark, NEW q \in UnmarkedLists(mark), NEW b \in Unmarked(mark)
  PROVE  /\ Append(q, b) \in UnmarkedLists(mark)
         /\ Len(Append(q, b)) = Len(q) + 1 /\ Len(q) \in Nat
         /\ Append(q, b)[Len(q) + 1] = b
         /\ \A i \in 1 .. Len(q) : Append(q, b)[i] = q[i]
  BY AppendProperties, LenProperties DEF UnmarkedLists

LEMMA ContainerParts ==
  ASSUME NEW text, NEW front, NEW last, IsContainer(text, front, last)
  PROVE  /\ text \in Octets /\ Len(front) \in Nat
         /\ PartsAre(SplitBy(text, Dot), front, last)
  <1> DEFINE p == Append(front, last)
  <1>1. front \in UnmarkedLists(Dot) /\ last \in Unmarked(Dot) /\ Dot \in Int
    BY DEF IsContainer, Dot
  <1>2. /\ p \in UnmarkedLists(Dot) /\ Len(p) = Len(front) + 1 /\ Len(front) \in Nat
        /\ p[Len(front) + 1] = last /\ \A i \in 1 .. Len(front) : p[i] = front[i]
    BY <1>1, UnmarkedEnd
  <1>3. text = JoinedBy(p, Dot)
    BY DEF IsContainer
  <1> HIDE DEF p
  <1>4. p # <<>>
    <2>1. Len(<<>>) = 0 /\ Len(front) + 1 # 0
      BY <1>2
    <2> QED BY <1>2, <2>1
  <1>5. SplitBy(text, Dot) = p
    BY <1>1, <1>2, <1>3, <1>4, SplitJoined
  <1>6. text \in Octets
    <2>1. p \in PartLists
      BY <1>2, UnmarkedParts
    <2> QED BY <1>1, <1>3, <2>1, JoinedType
  <1> QED BY <1>2, <1>5, <1>6 DEF p, PartsAre

\* Two containers in one text: more than four parts.
LEMMA TwoContainers ==
  ASSUME NEW s, NEW f, NEW a, IsContainer(s, f, a), Len(f) >= 2,
         NEW t, NEW g, NEW b, IsContainer(t, g, b), Len(g) >= 2
  PROVE  Len(SplitBy(Join(s, t), Dot)) >= 5
  <1>1. /\ s \in Octets /\ t \in Octets /\ Len(f) \in Nat /\ Len(g) \in Nat
        /\ Len(SplitBy(s, Dot)) = Len(f) + 1 /\ Len(SplitBy(t, Dot)) = Len(g) + 1
    BY ContainerParts DEF PartsAre
  <1>2. Len(SplitBy(Join(s, t), Dot)) = Len(SplitBy(s, Dot)) + Len(SplitBy(t, Dot)) - 1
    BY <1>1, SplitCount
  <1>3. Len(SplitBy(Join(s, t), Dot)) = (Len(f) + 1) + (Len(g) + 1) - 1
    BY <1>1, <1>2
  <1> HIDE DEF Join
  <1> QED BY <1>1, <1>3

\* What starts a container and has as many parts ends in the last one.
LEMMA ContainerCut ==
  ASSUME NEW text, NEW front, NEW last, IsContainer(text, front, last),
         NEW cut \in Octets, NEW rest \in Octets, text = Join(cut, rest),
         Len(SplitBy(cut, Dot)) = Len(front) + 1
  PROVE  EndIsCut(SplitBy(cut, Dot), front, last, rest)
  <1>1. /\ front \in UnmarkedLists(Dot) /\ last \in Unmarked(Dot) /\ Dot \in Int
        /\ JoinedBy(Append(front, last), Dot) = Join(cut, rest)
    BY DEF IsContainer, Dot
  <1>2. PICK c \in Unmarked(Dot) : last = Join(c, rest) /\ SplitBy(cut, Dot) = Append(front, c)
    BY <1>1, CutOfJoined
  <1>3. c \in Octets
    BY UnmarkedOctets
  <1>4. /\ Append(front, c)[Len(front) + 1] = c
        /\ \A i \in 1 .. Len(front) : Append(front, c)[i] = front[i]
    BY <1>1, UnmarkedEnd
  <1>5. PartsAre(SplitBy(cut, Dot), front, c)
    BY <1>2, <1>4 DEF PartsAre
  <1> QED BY <1>2, <1>3, <1>5 DEF EndIsCut

\* The last part of a container is read as what it was made of, or as what
\* starts it when its end is missing.
LEMMA EndReadBack ==
  ASSUME NEW b \in ByteStrings, NEW values, values = <<<<b>>>>
  PROVE  /\ encode_group(values) \in Unmarked(Dot)
         /\ OnlyMember(decode_group(encode_group(values))) = {b}
  <1>1. values \in Groups /\ values # <<>> /\ OnlyMember({values}) = {b}
    BY OneMember
  <1> QED BY <1>1, GroupText, GroupReadBack

LEMMA HeaderReadBack ==
  ASSUME NEW b \in ByteStrings
  PROVE  b64_encode(b) \in Unmarked(Dot) /\ b64_decode(b64_encode(b)) = {b}
  <1>1. b64_encode(b) \in Characters
    BY EncodeType
  <1> QED BY <1>1, CharacterText, Base64ReadBack

-----------------------------------------------------------------------------
(* Issued JWPs.                                                            *)

Slots(payloads) == [i \in DOMAIN payloads |-> <<payloads[i]>>]

IssuedFront(j) == <<b64_encode(j.issuer_header), encode_group(Slots(j.payloads))>>
IssuedLast(j) == encode_group(<<<<j.signature>>>>)

\* What is read of the three parts.
IssuedOf(headers, groups, signatures) ==
  {[issuer_header |-> header, signature |-> signature,
    payloads |-> [i \in DOMAIN group |-> group[i][1]]] :
     header \in headers, group \in {g \in groups : \A i \in DOMAIN g : g[i] # <<>>},
     signature \in signatures}

LEMMA SlotsFull ==
  ASSUME NEW payloads \in Seq(ByteStrings) \ {<<>>}
  PROVE  /\ Slots(payloads) \in Groups /\ Slots(payloads) # <<>>
         /\ \A i \in DOMAIN Slots(payloads) : Slots(payloads)[i] # <<>>
         /\ [i \in DOMAIN Slots(payloads) |-> Slots(payloads)[i][1]] = payloads
  <1> DEFINE n == Len(payloads)
             g == Slots(payloads)
  <1>1. /\ n \in Nat /\ n # 0 /\ DOMAIN payloads = 1 .. n
        /\ \A i \in 1 .. n : payloads[i] \in ByteStrings
    <2>1. n \in Nat /\ DOMAIN payloads = 1 .. n /\ \A i \in 1 .. n : payloads[i] \in ByteStrings
      BY LenProperties, ElementOfSeq
    <2>2. n # 0
      BY EmptySeq
    <2> QED BY <2>1, <2>2
  <1>2. \A i \in 1 .. n : <<payloads[i]>> \in Members /\ <<payloads[i]>> # <<>>
    BY <1>1 DEF Members
  <1>3. g = [i \in 1 .. n |-> <<payloads[i]>>]
    BY <1>1 DEF Slots
  <1>4. payloads = [i \in 1 .. n |-> payloads[i]]
    OBVIOUS
  <1> HIDE DEF n, g
  <1>5. g \in Groups /\ Len(g) = n /\ DOMAIN g = 1 .. n
    BY <1>1, <1>2, <1>3 DEF Groups
  <1>6. g # <<>>
    <2>1. Len(<<>>) = 0
      OBVIOUS
    <2> QED BY <1>1, <1>5, <2>1
  <1>7. \A i \in DOMAIN g : g[i] # <<>> /\ g[i][1] = payloads[i]
    BY <1>2, <1>3, <1>5
  <1>8. [i \in DOMAIN g |-> g[i][1]] = payloads
    BY <1>4, <1>5, <1>7
  <1> QED BY <1>5, <1>6, <1>7, <1>8 DEF g

LEMMA IssuedRead ==
  ASSUME NEW text, NEW parts, parts = SplitBy(text, Dot)
  PROVE  issued_decode(text)
           = IF Len(parts) # 3 THEN {}
             ELSE IssuedOf(b64_decode(parts[1]), decode_group(parts[2]),
                           OnlyMember(decode_group(parts[3])))
  BY DEF issued_decode, IssuedOf

LEMMA IssuedParts ==
  ASSUME NEW j \in IssuedJwps
  PROVE  /\ IsContainer(issued_encode(j), IssuedFront(j), IssuedLast(j))
         /\ Len(IssuedFront(j)) = 2
         /\ b64_decode(IssuedFront(j)[1]) = {j.issuer_header}
         /\ decode_group(IssuedFront(j)[2]) = {Slots(j.payloads)}
         /\ OnlyMember(decode_group(IssuedLast(j))) = {j.signature}
  <1> DEFINE h == b64_encode(j.issuer_header)
             g == encode_group(Slots(j.payloads))
             e == IssuedLast(j)
             f == <<h, g>>
  <1>1. /\ j.issuer_header \in ByteStrings /\ j.signature \in ByteStrings
        /\ j.payloads \in Seq(ByteStrings) \ {<<>>}
    BY DEF IssuedJwps
  <1>2. h \in Unmarked(Dot) /\ b64_decode(h) = {j.issuer_header}
    BY <1>1, HeaderReadBack
  <1>3. g \in Unmarked(Dot) /\ decode_group(g) = {Slots(j.payloads)}
    <2>1. Slots(j.payloads) \in Groups /\ Slots(j.payloads) # <<>>
      BY <1>1, SlotsFull
    <2> QED BY <2>1, GroupText, GroupReadBack
  <1>4. e \in Unmarked(Dot) /\ OnlyMember(decode_group(e)) = {j.signature}
    BY <1>1, EndReadBack DEF IssuedLast
  <1>5. issued_encode(j) = JoinedBy(<<h, g, e>>, Dot)
    BY DEF issued_encode, IssuedLast, Slots
  <1>6. IssuedFront(j) = f
    BY DEF IssuedFront
  <1> HIDE DEF h, g, e
  <1>7. f \in UnmarkedLists(Dot) /\ Append(f, e) = <<h, g, e>> /\ Len(f) = 2
        /\ f[1] = h /\ f[2] = g
    <2>1. f \in Seq(Unmarked(Dot))
      <3> DEFINE U == Unmarked(Dot)
      <3> HIDE DEF U
      <3>1. h \in U /\ g \in U
        BY <1>2, <1>3 DEF U
      <3>2. f \in Seq(U)
        BY <3>1
      <3> QED BY <3>2 DEF U
    <2>2. Append(f, e) = <<h, g, e>>
      BY <1>2, <1>3, <1>4, AppendThree
    <2>3. Len(f) = 2 /\ f[1] = h /\ f[2] = g
      OBVIOUS
    <2> QED BY <2>1, <2>2, <2>3 DEF UnmarkedLists
  <1> QED BY <1>2, <1>3, <1>4, <1>5, <1>6, <1>7 DEF IsContainer, e

LEMMA OneIssued ==
  ASSUME NEW j \in IssuedJwps, NEW S, NEW header, header = j.issuer_header,
         NEW slots, slots = Slots(j.payloads)
  PROVE  IssuedOf({header}, {slots}, S)
           = {[issuer_header |-> j.issuer_header, signature |-> s,
               payloads |-> j.payloads] : s \in S}
  <1>1. /\ \A i \in DOMAIN slots : slots[i] # <<>>
        /\ [i \in DOMAIN slots |-> slots[i][1]] = j.payloads
    <2>1. j.payloads \in Seq(ByteStrings) \ {<<>>}
      BY DEF IssuedJwps
    <2> QED BY <2>1, SlotsFull
  <1>2. {g \in {slots} : \A i \in DOMAIN g : g[i] # <<>>} = {slots}
    BY <1>1
  <1> DEFINE payloads(group) == [i \in DOMAIN group |-> group[i][1]]
             read(h, p, s) == [issuer_header |-> h, signature |-> s, payloads |-> p]
  <1>3. payloads(slots) = j.payloads
    BY <1>1
  <1>4. IssuedOf({header}, {slots}, S)
          = {read(h, payloads(group), s) : h \in {header}, group \in {slots}, s \in S}
    <2> DEFINE full == {g \in {slots} : \A i \in DOMAIN g : g[i] # <<>>}
    <2>1. IssuedOf({header}, {slots}, S)
            = {read(h, payloads(group), s) : h \in {header}, group \in full, s \in S}
      BY DEF IssuedOf
    <2>2. full = {slots}
      BY <1>2
    <2> HIDE DEF read, payloads, full
    <2> QED BY <2>1, <2>2
  <1> HIDE DEF payloads, read
  <1>5. {read(h, payloads(group), s) : h \in {header}, group \in {slots}, s \in S}
          = {read(header, payloads(slots), s) : s \in S}
    OBVIOUS
  <1>6. IssuedOf({header}, {slots}, S) = {read(j.issuer_header, j.payloads, s) : s \in S}
    BY <1>3, <1>4, <1>5
  <1> QED BY <1>6 DEF read

\* A credential is read back from its text as it was put in (jwp.rs:463-537).
THEOREM IssuedReadBack ==
  ASSUME NEW j \in IssuedJwps
  PROVE  issued_decode(issued_encode(j)) = {j}
  <1> DEFINE text == issued_encode(j)
             parts == SplitBy(text, Dot)
             f == IssuedFront(j)
             e == IssuedLast(j)
  <1>1. IsContainer(text, f, e) /\ Len(f) = 2
    BY IssuedParts
  <1>2. Len(parts) = 3 /\ parts[1] = f[1] /\ parts[2] = f[2] /\ parts[3] = e
    <2>1. PartsAre(parts, f, e)
      BY <1>1, ContainerParts
    <2> HIDE DEF parts, f, e
    <2> QED BY <1>1, <2>1 DEF PartsAre
  <1>3. /\ b64_decode(f[1]) = {j.issuer_header}
        /\ decode_group(f[2]) = {Slots(j.payloads)}
        /\ OnlyMember(decode_group(e)) = {j.signature}
    BY IssuedParts
  <1> HIDE DEF text, f, e
  <1>4. issued_decode(text) = IssuedOf({j.issuer_header}, {Slots(j.payloads)}, {j.signature})
    <2>1. issued_decode(text) = IssuedOf(b64_decode(parts[1]), decode_group(parts[2]),
                                         OnlyMember(decode_group(parts[3])))
      BY <1>2, IssuedRead
    <2> HIDE DEF parts
    <2> QED BY <1>2, <1>3, <2>1
  <1>5. issued_decode(text) = {[issuer_header |-> j.issuer_header, signature |-> s,
                               payloads |-> j.payloads] : s \in {j.signature}}
    BY <1>4, OneIssued
  <1>6. j = [issuer_header |-> j.issuer_header, signature |-> j.signature,
             payloads |-> j.payloads]
    BY DEF IssuedJwps
  <1> QED BY <1>5, <1>6 DEF text

\* Of the text of a credential that is cut short, at most the end of the
\* signature is missing when IssuedJwp::decode reads it at all (jwp.rs:508-538).
THEOREM IssuedCut ==
  ASSUME NEW j \in IssuedJwps, NEW cut \in Octets, NEW rest \in Octets, rest # <<>>,
         issued_encode(j) = Join(cut, rest), NEW r \in issued_decode(cut)
  PROVE  /\ IsStrictPrefix(r.signature, j.signature)
         /\ j = [r EXCEPT !.signature = j.signature]
  <1> DEFINE parts == SplitBy(cut, Dot)
             f == IssuedFront(j)
             e == IssuedLast(j)
  <1>1. /\ IsContainer(issued_encode(j), f, e) /\ Len(f) = 2
        /\ b64_decode(f[1]) = {j.issuer_header}
        /\ decode_group(f[2]) = {Slots(j.payloads)}
    BY IssuedParts
  <1>2. Len(parts) = 3
    BY IssuedRead
  <1> HIDE DEF f, e
  <1>3. PICK c \in Octets :
          /\ e = Join(c, rest) /\ parts[3] = c
          /\ parts[1] = f[1] /\ parts[2] = f[2]
    <2>1. Len(parts) = Len(f) + 1
      BY <1>1, <1>2
    <2>2. EndIsCut(parts, f, e, rest)
      BY <1>1, <2>1, ContainerCut
    <2>3. Len(f) + 1 = 3 /\ 1 \in 1 .. Len(f) /\ 2 \in 1 .. Len(f)
      BY <1>1
    <2> HIDE DEF parts
    <2> QED BY <2>2, <2>3 DEF EndIsCut, PartsAre
  <1>4. r \in IssuedOf({j.issuer_header}, {Slots(j.payloads)}, OnlyMember(decode_group(c)))
    <2>1. r \in IssuedOf(b64_decode(parts[1]), decode_group(parts[2]),
                         OnlyMember(decode_group(parts[3])))
      BY <1>2, IssuedRead
    <2> HIDE DEF parts
    <2> QED BY <1>1, <1>3, <2>1
  <1>5. PICK s \in OnlyMember(decode_group(c)) :
          r = [issuer_header |-> j.issuer_header, signature |-> s, payloads |-> j.payloads]
    <2> DEFINE S == OnlyMember(decode_group(c))
    <2> HIDE DEF S
    <2>1. IssuedOf({j.issuer_header}, {Slots(j.payloads)}, S)
           = {[issuer_header |-> j.issuer_header, signature |-> s,
               payloads |-> j.payloads] : s \in S}
      BY OneIssued
    <2> QED BY <1>4, <2>1 DEF S
  <1>6. IsStrictPrefix(s, j.signature)
    <2>1. j.signature \in ByteStrings
      BY DEF IssuedJwps
    <2>2. encode_group(<<<<j.signature>>>>) = Join(c, rest)
      BY <1>3 DEF e, IssuedLast
    <2> QED BY <2>1, <2>2, EndCut
  <1>7. j = [issuer_header |-> j.issuer_header, signature |-> j.signature,
             payloads |-> j.payloads]
    BY DEF IssuedJwps
  <1> QED BY <1>5, <1>6, <1>7

-----------------------------------------------------------------------------
(* Presented JWPs.                                                         *)

PresentedFront(j) ==
  <<b64_encode(j.presentation_header), b64_encode(j.issuer_header),
    encode_group(j.payloads)>>
PresentedLast(j) == encode_group(<<<<j.proof>>>>)

\* What is read of the four parts.
PresentedOf(presentations, headers, groups, proofs) ==
  {[presentation_header |-> presentation, issuer_header |-> header,
    payloads |-> group, proof |-> proof] :
     presentation \in presentations, header \in headers, group \in groups,
     proof \in proofs}

LEMMA PresentedRead ==
  ASSUME NEW text, NEW parts, parts = SplitBy(text, Dot)
  PROVE  presented_decode(text)
           = IF Len(parts) # 4 THEN {}
             ELSE PresentedOf(b64_decode(parts[1]), b64_decode(parts[2]),
                              decode_group(parts[3]),
                              OnlyMember(decode_group(parts[4])))
  BY DEF presented_decode, PresentedOf

LEMMA PresentedParts ==
  ASSUME NEW j \in PresentedJwps
  PROVE  /\ IsContainer(presented_encode(j), PresentedFront(j), PresentedLast(j))
         /\ Len(PresentedFront(j)) = 3
         /\ b64_decode(PresentedFront(j)[1]) = {j.presentation_header}
         /\ b64_decode(PresentedFront(j)[2]) = {j.issuer_header}
         /\ decode_group(PresentedFront(j)[3]) = {j.payloads}
         /\ OnlyMember(decode_group(PresentedLast(j))) = {j.proof}
  <1> DEFINE p == b64_encode(j.presentation_header)
             h == b64_encode(j.issuer_header)
             g == encode_group(j.payloads)
             e == PresentedLast(j)
             f == <<p, h, g>>
  <1>1. /\ j.presentation_header \in ByteStrings /\ j.issuer_header \in ByteStrings
        /\ j.proof \in ByteStrings /\ j.payloads \in Groups /\ j.payloads # <<>>
    BY DEF PresentedJwps
  <1>2. /\ p \in Unmarked(Dot) /\ b64_decode(p) = {j.presentation_header}
        /\ h \in Unmarked(Dot) /\ b64_decode(h) = {j.issuer_header}
    BY <1>1, HeaderReadBack
  <1>3. g \in Unmarked(Dot) /\ decode_group(g) = {j.payloads}
    BY <1>1, GroupText, GroupReadBack
  <1>4. e \in Unmarked(Dot) /\ OnlyMember(decode_group(e)) = {j.proof}
    BY <1>1, EndReadBack DEF PresentedLast
  <1>5. presented_encode(j) = JoinedBy(<<p, h, g, e>>, Dot)
    BY DEF presented_encode, PresentedLast
  <1>6. PresentedFront(j) = f
    BY DEF PresentedFront
  <1> HIDE DEF p, h, g, e
  <1>7. /\ f \in UnmarkedLists(Dot) /\ Append(f, e) = <<p, h, g, e>> /\ Len(f) = 3
        /\ f[1] = p /\ f[2] = h /\ f[3] = g
    <2>1. f \in Seq(Unmarked(Dot))
      <3> DEFINE U == Unmarked(Dot)
      <3> HIDE DEF U
      <3>1. p \in U /\ h \in U /\ g \in U
        BY <1>2, <1>3 DEF U
      <3>2. f \in Seq(U)
        BY <3>1
      <3> QED BY <3>2 DEF U
    <2>2. Append(f, e) = <<p, h, g, e>>
      BY <1>2, <1>3, <1>4, AppendFour
    <2>3. Len(f) = 3 /\ f[1] = p /\ f[2] = h /\ f[3] = g
      OBVIOUS
    <2> QED BY <2>1, <2>2, <2>3 DEF UnmarkedLists
  <1> QED BY <1>2, <1>3, <1>4, <1>5, <1>6, <1>7 DEF IsContainer, e

LEMMA OnePresented ==
  ASSUME NEW j, NEW S
  PROVE  PresentedOf({j.presentation_header}, {j.issuer_header}, {j.payloads}, S)
           = {[presentation_header |-> j.presentation_header,
               issuer_header |-> j.issuer_header, payloads |-> j.payloads,
               proof |-> s] : s \in S}
  <1> DEFINE read(w, x, y, z) == [presentation_header |-> w, issuer_header |-> x,
                                  payloads |-> y, proof |-> z]
             p == j.presentation_header
             h == j.issuer_header
             g == j.payloads
             all == {read(w, x, y, z) : w \in {p}, x \in {h}, y \in {g}, z \in S}
  <1>1. PresentedOf({p}, {h}, {g}, S) = all
    BY DEF PresentedOf
  <1> HIDE DEF read, p, h, g
  <1>2. all = {read(p, h, g, s) : s \in S}
    OBVIOUS
  <1> HIDE DEF all
  <1>3. PresentedOf({p}, {h}, {g}, S) = {read(p, h, g, s) : s \in S}
    BY <1>1, <1>2
  <1> QED BY <1>3 DEF read, p, h, g

\* A presentation is read back from its text as it was put in: a value that is
\* empty as empty, one that is withheld as withheld (jwp.rs:572-612).
THEOREM PresentedReadBack ==
  ASSUME NEW j \in PresentedJwps
  PROVE  presented_decode(presented_encode(j)) = {j}
  <1> DEFINE text == presented_encode(j)
             parts == SplitBy(text, Dot)
             f == PresentedFront(j)
             e == PresentedLast(j)
  <1>1. IsContainer(text, f, e) /\ Len(f) = 3
    BY PresentedParts
  <1>2. /\ Len(parts) = 4 /\ parts[1] = f[1] /\ parts[2] = f[2] /\ parts[3] = f[3]
        /\ parts[4] = e
    <2>1. PartsAre(parts, f, e)
      BY <1>1, ContainerParts
    <2> HIDE DEF parts, f, e
    <2> QED BY <1>1, <2>1 DEF PartsAre
  <1>3. /\ b64_decode(f[1]) = {j.presentation_header}
        /\ b64_decode(f[2]) = {j.issuer_header}
        /\ decode_group(f[3]) = {j.payloads}
        /\ OnlyMember(decode_group(e)) = {j.proof}
    BY PresentedParts
  <1> HIDE DEF text, f, e
  <1>4. presented_decode(text)
          = PresentedOf({j.presentation_header}, {j.issuer_header}, {j.payloads}, {j.proof})
    <2>1. presented_decode(text)
            = PresentedOf(b64_decode(parts[1]), b64_decode(parts[2]),
                          decode_group(parts[3]), OnlyMember(decode_group(parts[4])))
      BY <1>2, PresentedRead
    <2> HIDE DEF parts
    <2> QED BY <1>2, <1>3, <2>1
  <1>5. presented_decode(text)
          = {[presentation_header |-> j.presentation_header,
              issuer_header |-> j.issuer_header, payloads |-> j.payloads,
              proof |-> s] : s \in {j.proof}}
    BY <1>4, OnePresented
  <1>6. j = [presentation_header |-> j.presentation_header,
             issuer_header |-> j.issuer_header, payloads |-> j.payloads,
             proof |-> j.proof]
    BY DEF PresentedJwps
  <1> QED BY <1>5, <1>6 DEF text

\* Of the text of a presentation that is cut short, at most the end of the proof
\* is missing when PresentedJwp::decode reads it at all (jwp.rs:582-612).
THEOREM PresentedCut ==
  ASSUME NEW j \in PresentedJwps, NEW cut \in Octets, NEW rest \in Octets, rest # <<>>,
         presented_encode(j) = Join(cut, rest), NEW r \in presented_decode(cut)
  PROVE  /\ IsStrictPrefix(r.proof, j.proof)
         /\ j = [r EXCEPT !.proof = j.proof]
  <1> DEFINE parts == SplitBy(cut, Dot)
             f == PresentedFront(j)
             e == PresentedLast(j)
  <1>1. /\ IsContainer(presented_encode(j), f, e) /\ Len(f) = 3
        /\ b64_decode(f[1]) = {j.presentation_header}
        /\ b64_decode(f[2]) = {j.issuer_header}
        /\ decode_group(f[3]) = {j.payloads}
    BY PresentedParts
  <1>2. Len(parts) = 4
    BY PresentedRead
  <1> HIDE DEF f, e
  <1>3. PICK c \in Octets :
          /\ e = Join(c, rest) /\ parts[4] = c
          /\ parts[1] = f[1] /\ parts[2] = f[2] /\ parts[3] = f[3]
    <2>1. Len(parts) = Len(f) + 1
      BY <1>1, <1>2
    <2>2. EndIsCut(parts, f, e, rest)
      BY <1>1, <2>1, ContainerCut
    <2>3. Len(f) + 1 = 4 /\ 1 \in 1 .. Len(f) /\ 2 \in 1 .. Len(f) /\ 3 \in 1 .. Len(f)
      BY <1>1
    <2> HIDE DEF parts
    <2> QED BY <2>2, <2>3 DEF EndIsCut, PartsAre
  <1> DEFINE S == OnlyMember(decode_group(c))
  <1>4. r \in PresentedOf({j.presentation_header}, {j.issuer_header}, {j.payloads}, S)
    <2>1. r \in PresentedOf(b64_decode(parts[1]), b64_decode(parts[2]),
                            decode_group(parts[3]), OnlyMember(decode_group(parts[4])))
      BY <1>2, PresentedRead
    <2> HIDE DEF parts
    <2> QED BY <1>1, <1>3, <2>1
  <1> HIDE DEF S
  <1>5. PICK s \in S :
          r = [presentation_header |-> j.presentation_header,
               issuer_header |-> j.issuer_header, payloads |-> j.payloads, proof |-> s]
    BY <1>4, OnePresented
  <1>6. IsStrictPrefix(s, j.proof)
    <2>1. j.proof \in ByteStrings
      BY DEF PresentedJwps
    <2>2. encode_group(<<<<j.proof>>>>) = Join(c, rest)
      BY <1>3 DEF e, PresentedLast
    <2> QED BY <2>1, <2>2, EndCut DEF S
  <1>7. j = [presentation_header |-> j.presentation_header,
             issuer_header |-> j.issuer_header, payloads |-> j.payloads,
             proof |-> j.proof]
    BY DEF PresentedJwps
  <1> QED BY <1>5, <1>6, <1>7

-----------------------------------------------------------------------------
(* Credentials and presentations.                                          *)

\* A credential has three parts and a presentation four: neither decode reads
\* what the other's encode wrote (jwp.rs:508-518, 582-593).
THEOREM NeitherForTheOther ==
  /\ \A i \in IssuedJwps : presented_decode(issued_encode(i)) = {}
  /\ \A p \in PresentedJwps : issued_decode(presented_encode(p)) = {}
  <1>1. ASSUME NEW i \in IssuedJwps PROVE Len(SplitBy(issued_encode(i), Dot)) = 3
    <2>1. Len(SplitBy(issued_encode(i), Dot)) = Len(IssuedFront(i)) + 1
      BY IssuedParts, ContainerParts DEF PartsAre
    <2>2. Len(IssuedFront(i)) = 2
      BY IssuedParts
    <2>3. 2 + 1 = 3
      OBVIOUS
    <2> QED BY <2>1, <2>2, <2>3
  <1>2. ASSUME NEW p \in PresentedJwps PROVE Len(SplitBy(presented_encode(p), Dot)) = 4
    <2>1. Len(SplitBy(presented_encode(p), Dot)) = Len(PresentedFront(p)) + 1
      BY PresentedParts, ContainerParts DEF PartsAre
    <2>2. Len(PresentedFront(p)) = 3
      BY PresentedParts
    <2>3. 3 + 1 = 4
      OBVIOUS
    <2> QED BY <2>1, <2>2, <2>3
  <1> QED BY <1>1, <1>2, IssuedRead, PresentedRead

\* The text of a credential or of a presentation.
IsText(text) ==
  \/ \E j \in IssuedJwps : text = issued_encode(j)
  \/ \E j \in PresentedJwps : text = presented_encode(j)

LEMMA TextParts ==
  ASSUME NEW text, IsText(text)
  PROVE  \E front, last : IsContainer(text, front, last) /\ Len(front) >= 2
  <1>0. 2 >= 2 /\ 3 >= 2
    OBVIOUS
  <1>1. ASSUME NEW j \in IssuedJwps, text = issued_encode(j)
        PROVE  \E front, last : IsContainer(text, front, last) /\ Len(front) >= 2
    <2>1. IsContainer(text, IssuedFront(j), IssuedLast(j)) /\ Len(IssuedFront(j)) = 2
      BY <1>1, IssuedParts
    <2> QED BY <1>0, <2>1
  <1>2. ASSUME NEW j \in PresentedJwps, text = presented_encode(j)
        PROVE  \E front, last : IsContainer(text, front, last) /\ Len(front) >= 2
    <2>1. IsContainer(text, PresentedFront(j), PresentedLast(j)) /\ Len(PresentedFront(j)) = 3
      BY <1>2, PresentedParts
    <2> QED BY <1>0, <2>1
  <1> QED BY <1>1, <1>2 DEF IsText

\* Of two texts in one, of either kind, neither decode reads anything: there are
\* five parts at least (jwp.rs:508-518, 582-593).
THEOREM TwoTextsRefused ==
  ASSUME NEW s, IsText(s), NEW t, IsText(t)
  PROVE  issued_decode(Join(s, t)) = {} /\ presented_decode(Join(s, t)) = {}
  <1>1. PICK f, a : IsContainer(s, f, a) /\ Len(f) >= 2
    BY TextParts
  <1>2. PICK g, b : IsContainer(t, g, b) /\ Len(g) >= 2
    BY TextParts
  <1>3. Len(SplitBy(Join(s, t), Dot)) >= 5
    BY <1>1, <1>2, TwoContainers
  <1>4. ~ (3 >= 5) /\ ~ (4 >= 5)
    OBVIOUS
  <1>5. Len(SplitBy(Join(s, t), Dot)) # 3 /\ Len(SplitBy(Join(s, t), Dot)) # 4
    BY <1>3, <1>4
  <1> QED BY <1>5, IssuedRead, PresentedRead

-----------------------------------------------------------------------------
(***************************************************************************)
(* What holds of the strings whatever their caller mixes up, for any number  *)
(* of sessions, keys, messages, headers and payloads; and that a device      *)
(* gives up signing only after MaxAttempts different nonces.               *)
(*                                                                         *)
(* Of the strings: each that was made is what one of the writers makes of a  *)
(* value, and what was finished is made of the value of an init in its own   *)
(* session (StringsInv).  The lemmas above say what each reader makes of     *)
(* what each writer wrote, of a string cut short and of two in one.  So what *)
(* a call accepts is what was meant, and the invariant is kept; and the      *)
(* properties of Wire follow from it.                                      *)
(*                                                                         *)
(* Of the nonces: those refused so far are those of the attempts made, and   *)
(* no two attempts draw the same one, from a source of either kind.  So      *)
(* there are as many of them as attempts, and the last attempt leaves        *)
(* MaxAttempts.                                                            *)
(***************************************************************************)

Statuses == {"idle", "trying", "signed", "exhausted", "no_randomness"}

\* The nonce of attempt a of a call that signs from a source.
NonceOf(source, a) == calculate(for_attempt(source, a), a)

\* A call of sign: idle or returned, or with one refused nonce per attempt.
CallInv(c) ==
  /\ c.status \in Statuses
  /\ c.source = [kind |-> c.source.kind, retry |-> 0]
  /\ c.attempt \in 0 .. MaxAttempts
  /\ IsFiniteSet(c.refused)
  /\ Cardinality(c.refused) = c.attempt
  /\ \A x \in c.refused : \E a \in 0 .. c.attempt - 1 : x = NonceOf(c.source, a)
  /\ c.status \in {"idle", "signed", "no_randomness"} => c.refused = {}
  /\ c.status = "exhausted" => c.attempt = MaxAttempts

SigningInv ==
  /\ signing \in [Requests -> {signing[r] : r \in Requests}]
  /\ \A r \in Requests : CallInv(signing[r])

\* Two attempts of one call draw different nonces.
LEMMA NoncesDiffer ==
  ASSUME NEW source, source = [kind |-> source.kind, retry |-> 0],
         NEW a \in Nat, NEW b \in Nat, a # b
  PROVE  NonceOf(source, a) # NonceOf(source, b)
  <1>1. CASE source.kind = "system"
    BY <1>1 DEF NonceOf, calculate, for_attempt
  <1>2. CASE source.kind # "system"
    <2>1. ASSUME NEW n \in Nat
          PROVE  for_attempt(source, n) = [kind |-> source.kind, retry |-> n]
      BY <1>2 DEF for_attempt
    <2>2. ASSUME NEW n \in Nat
          PROVE  NonceOf(source, n) = <<[kind |-> source.kind, retry |-> n], 0>>
      BY <1>2, <2>1 DEF NonceOf, calculate
    <2> QED BY <2>2
  <1> QED BY <1>1, <1>2

\* A call that was not made, one that began and one that returned.
LEMMA EmptyIsCall ==
  ASSUME NEW status \in Statuses \ {"exhausted"}, NEW kind
  PROVE  CallInv(Call(status, 0, {}, [kind |-> kind, retry |-> 0]))
  <1>1. IsFiniteSet({}) /\ Cardinality({}) = 0
    BY FS_EmptySet
  <1> QED BY <1>1, SchnorrAssumption DEF CallInv, Call, Statuses

\* A step that changes one call to one that keeps the invariant keeps it.
LEMMA OneCall ==
  ASSUME SigningInv, NEW r \in Requests, NEW c, CallInv(c),
         signing' = [signing EXCEPT ![r] = c]
  PROVE  SigningInv'
  <1>1. signing' = [q \in Requests |-> IF q = r THEN c ELSE signing[q]]
    BY DEF SigningInv
  <1>2. \A q \in Requests : CallInv(signing'[q])
    BY <1>1 DEF SigningInv
  <1>3. \A q \in Requests : CallInv(signing[q])'
    BY <1>2 DEF CallInv, NonceOf, calculate, for_attempt, Statuses
  <1> QED BY <1>1, <1>3 DEF SigningInv

LEMMA InitSigning == ASSUME Init PROVE SigningInv
  <1>1. signing = [r \in Requests |-> Idle]
    BY DEF Init, SchnorrInit
  <1>2. CallInv(Idle)
    BY EmptyIsCall DEF Idle, Ended, Statuses
  <1> QED BY <1>1, <1>2 DEF SigningInv

\* sign begins with no attempt made.
LEMMA SignKeeps ==
  ASSUME SigningInv, NEW r \in Requests, NEW kind \in Sources, Sign(r, kind)
  PROVE  SigningInv'
  BY EmptyIsCall, OneCall DEF Sign, Statuses

\* A nonce refused is one that was not, and is counted.
LEMMA RetryKeeps ==
  ASSUME SigningInv, NEW r \in Requests, Retry(r)
  PROVE  SigningInv'
  <1> DEFINE c == signing[r]
             x == NonceOf(c.source, c.attempt)
             new == Call("trying", c.attempt + 1, c.refused \cup {x}, c.source)
  <1>1. CallInv(c) /\ c.status = "trying" /\ c.attempt < MaxAttempts
    BY DEF SigningInv, Retry, Trying
  <1>2. signing' = [signing EXCEPT ![r] = new]
    BY DEF Retry, NextAttempt, Drawn, NonceOf
  <1>3. c.attempt \in Nat /\ c.attempt + 1 \in 0 .. MaxAttempts
    BY <1>1, SchnorrAssumption DEF CallInv
  <1>4. x \notin c.refused
    <2>1. ASSUME NEW a \in 0 .. c.attempt - 1
          PROVE  NonceOf(c.source, a) # x
      BY <1>1, <1>3, NoncesDiffer DEF CallInv
    <2> QED BY <1>1, <2>1 DEF CallInv
  <1>5. /\ IsFiniteSet(c.refused \cup {x})
        /\ Cardinality(c.refused \cup {x}) = c.attempt + 1
    BY <1>1, <1>4, FS_AddElement DEF CallInv
  <1>6. \A y \in c.refused \cup {x} : \E a \in 0 .. (c.attempt + 1) - 1 : y = NonceOf(c.source, a)
    BY <1>1, <1>3 DEF CallInv
  <1>7. CallInv(new)
    <2> HIDE DEF x
    <2> QED BY <1>1, <1>3, <1>5, <1>6 DEF CallInv, Statuses, Call
  <1> HIDE DEF new
  <1> QED BY <1>2, <1>7, OneCall

LEMMA AttemptKeeps ==
  ASSUME SigningInv, NEW r \in Requests, Attempt(r)
  PROVE  SigningInv'
  <1>1. CASE Succeed(r) \/ FailToDraw(r)
    <2>1. CallInv(Ended("signed")) /\ CallInv(Ended("no_randomness"))
      BY EmptyIsCall DEF Ended, Statuses
    <2> QED BY <1>1, <2>1, OneCall DEF Succeed, FailToDraw
  <1>2. CASE Retry(r)
    BY <1>2, RetryKeeps
  <1>3. CASE GiveUp(r)
    <2> DEFINE c == signing[r]
               new == Call("exhausted", c.attempt, c.refused, c.source)
    <2>1. CallInv(c) /\ c.status = "trying" /\ c.attempt >= MaxAttempts
      BY <1>3 DEF SigningInv, GiveUp
    <2>2. signing' = [signing EXCEPT ![r] = new]
      BY <1>3 DEF GiveUp
    <2>3. CallInv(new)
      BY <2>1, SchnorrAssumption DEF CallInv, Statuses, Call
    <2> HIDE DEF new
    <2> QED BY <2>2, <2>3, OneCall
  <1> QED BY <1>1, <1>2, <1>3 DEF Attempt

\* Making a string leaves the signers alone.
LEMMA StepKeeps == ASSUME SigningInv, [Next]_vars PROVE SigningInv'
  <1>1. CASE UNCHANGED signing
    BY <1>1 DEF SigningInv, CallInv, NonceOf, calculate, for_attempt, Statuses
  <1>2. CASE \E x \in made, i \in 1 .. MaxKeys, kind \in Sources : DeviceSign(x, i, kind)
    <2>1. PICK x \in made, i \in 1 .. MaxKeys, kind \in Sources : DeviceSign(x, i, kind)
      BY <1>2
    <2>2. CASE <<x.session, i>> \in Requests
      BY <2>1, <2>2, SignKeeps DEF DeviceSign
    <2>3. CASE <<x.session, i>> \notin Requests
      <3>1. signing' = signing
        BY <2>1, <2>3 DEF DeviceSign, Sign, SigningInv
      <3> QED BY <1>1, <3>1
    <2> QED BY <2>2, <2>3
  <1>3. CASE \E r \in Requests : Continue(r)
    BY <1>3, AttemptKeeps DEF Continue
  <1>4. ASSUME NEW new, Make(new) \/ Draw(new) PROVE UNCHANGED signing
    BY <1>4 DEF Make, Draw
  <1>5. ASSUME NEW x, NEW session, NEW n, NEW shape, NEW header, NEW payloads,
               NEW committed, NEW disclose, NEW keys,
               \/ CommitInit(shape) \/ BlindSign(x) \/ JwpIssue(x, header, payloads)
               \/ ProofGenInit(x, shape)
               \/ PresentInit(x, header, committed, disclose, keys)
               \/ CommitFinalize(x, session, n) \/ ProofGenFinalize(x, session, n)
               \/ PresentFinalize(x, session, n)
        PROVE  UNCHANGED signing
    <2>1. CASE CommitInit(shape)
      BY <1>4, <2>1 DEF CommitInit
    <2>2. CASE BlindSign(x) \/ JwpIssue(x, header, payloads)
      BY <1>4, <2>2 DEF BlindSign, JwpIssue
    <2>3. CASE ProofGenInit(x, shape)
      BY <1>4, <2>3 DEF ProofGenInit
    <2>4. CASE PresentInit(x, header, committed, disclose, keys)
      BY <1>4, <2>4 DEF PresentInit
    <2>5. CASE CommitFinalize(x, session, n) \/ ProofGenFinalize(x, session, n)
      BY <1>4, <2>5 DEF CommitFinalize, ProofGenFinalize
    <2>6. CASE PresentFinalize(x, session, n)
      BY <1>4, <2>6 DEF PresentFinalize
    <2> QED BY <1>5, <2>1, <2>2, <2>3, <2>4, <2>5, <2>6
  <1>6. CASE UNCHANGED vars
    BY <1>1, <1>6 DEF vars
  <1> QED
    BY <1>1, <1>2, <1>3, <1>5, <1>6 DEF Next

\* In every reachable state a call of sign that gave up had MaxAttempts
\* different nonces refused: neither a source that repeats itself nor a string
\* made meanwhile costs it an attempt (keybind.rs:199-221, suite.rs:46-70).
THEOREM SignFailsOnlyAfterAllNonces == Spec => []FailsOnlyAfterAllNonces
  <1>1. Init => SigningInv
    BY InitSigning
  <1>2. SigningInv /\ [Next]_vars => SigningInv'
    BY StepKeeps
  <1>3. SigningInv => FailsOnlyAfterAllNonces
    BY DEF SigningInv, CallInv, FailsOnlyAfterAllNonces
  <1> QED BY <1>1, <1>2, <1>3, PTL DEF Spec

-----------------------------------------------------------------------------
(* The strings.  Below: what is drawn has the types the codecs are proved   *)
(* for; the invariant of the strings made; that each step keeps it; what it *)
(* says of the readers.                                                    *)

LEMMA NameType ==
  ASSUME NEW what \in Tags, NEW s \in Int, NEW i \in Int
  PROVE  <<<<what, s, i>>>> \in Names
  BY DEF Names

LEMMA DrawnOne ==
  ASSUME NEW what \in Tags, NEW s \in Int, NEW i \in Int
  PROVE  /\ Scalar(<<<<what, s, i>>>>) \in ScalarItems
         /\ G1(<<<<what, s, i>>>>) \in PointItems
  BY NameType DEF Scalar, G1, Item, ScalarItems, PointItems

LEMMA DrawnList ==
  ASSUME NEW what \in Tags, NEW s \in Int, NEW n \in Nat
  PROVE  /\ Scalars(what, s, n) \in Seq(ScalarItems) /\ Len(Scalars(what, s, n)) = n
         /\ Points(what, s, n) \in Seq(PointItems) /\ Len(Points(what, s, n)) = n
  <1>1. \A i \in 1 .. n : Scalar(Name(what, s, i)) \in ScalarItems
                            /\ G1(Name(what, s, i)) \in PointItems
    BY DrawnOne DEF Name
  <1>2. /\ Scalars(what, s, n) \in [1 .. n -> ScalarItems]
        /\ Points(what, s, n) \in [1 .. n -> PointItems]
    BY <1>1 DEF Scalars, Points
  <1> HIDE DEF Scalars, Points
  <1>3. ASSUME NEW S, NEW f \in [1 .. n -> S] PROVE f \in Seq(S) /\ Len(f) = n
    OBVIOUS
  <1> QED BY <1>2, <1>3

\* The state commit_init makes in session s.
DrawnState(shape, s) ==
  [c |-> G1(<<<<"c", s, 0>>>>), s_hat |-> Scalar(<<<<"s_hat", s, 0>>>>),
   m_hat |-> Scalars("m_hat", s, shape.messages),
   challenge |-> Scalar(<<<<"challenge", s, 0>>>>),
   keys |-> Points("key", s, shape.keys)]

LEMMA DrawnStateType ==
  ASSUME NEW s \in Nat, NEW shape \in CommitShapes
  PROVE  DrawnState(shape, s) \in CommitmentStates
  <1>1. shape.messages \in Nat /\ shape.keys \in Nat
    BY WireAssumption
  <1>2. "c" \in Tags /\ "s_hat" \in Tags /\ "m_hat" \in Tags /\ "challenge" \in Tags /\ "key" \in Tags
    BY DEF Tags
  <1>3. G1(<<<<"c", s, 0>>>>) \in PointItems
    BY <1>2, DrawnOne
  <1>4. Scalar(<<<<"s_hat", s, 0>>>>) \in ScalarItems
    BY <1>2, DrawnOne
  <1>5. Scalar(<<<<"challenge", s, 0>>>>) \in ScalarItems
    BY <1>2, DrawnOne
  <1>6. Scalars("m_hat", s, shape.messages) \in Seq(ScalarItems)
    BY <1>1, <1>2, DrawnList
  <1>7. Points("key", s, shape.keys) \in Seq(PointItems)
    BY <1>1, <1>2, DrawnList
  <1> QED BY <1>3, <1>4, <1>5, <1>6, <1>7 DEF DrawnState, CommitmentStates

\* The signature an issuer makes in session s.
DrawnSignature(s) == [a |-> G1(<<<<"A", s, 0>>>>), e |-> Scalar(<<<<"e", s, 0>>>>)]

LEMMA DrawnSignatureType ==
  ASSUME NEW s \in Nat
  PROVE  DrawnSignature(s) \in IssuerSignatures
  <1>1. "A" \in Tags /\ "e" \in Tags
    BY DEF Tags
  <1>2. G1(<<<<"A", s, 0>>>>) \in PointItems
    BY <1>1, DrawnOne
  <1>3. Scalar(<<<<"e", s, 0>>>>) \in ScalarItems
    BY <1>1, DrawnOne
  <1> QED BY <1>2, <1>3 DEF DrawnSignature, IssuerSignatures

LEMMA ProofStateType ==
  ASSUME NEW s \in Nat, NEW shape \in ProofShapes
  PROVE  /\ ProofState(shape, s) \in ProofStates
         /\ Len(ProofState(shape, s).bbs_proof.scalars)
              = 5 + shape.hidden + shape.committed + shape.keys
         /\ Len(ProofState(shape, s).keys) = shape.keys
         /\ shape.hidden \in Nat /\ shape.committed \in Nat /\ shape.disclosed \in Nat
         /\ shape.keys \in Nat
  <1>1. /\ shape.hidden \in Nat /\ shape.committed \in Nat /\ shape.disclosed \in Nat
        /\ shape.keys \in Nat
    BY WireAssumption
  <1> DEFINE n == 3 + (shape.hidden + shape.committed + 1 + shape.keys) + 1
             p == Points("bbs", s, 3)
             q == Scalars("bbs", s, n)
             c == Points("commitment", s, shape.committed)
             h == Scalars("s_hat", s, shape.committed)
             e == Scalar(<<<<"challenge", s, 0>>>>)
             k == Points("pk_tilde", s, shape.keys)
             r == Scalars("r_key", s, shape.keys)
             x == ProofState(shape, s)
  <1>2. n \in Nat /\ n >= 4 /\ n = 5 + shape.hidden + shape.committed + shape.keys /\ 3 \in Nat
    BY <1>1
  <1>3. /\ "bbs" \in Tags /\ "commitment" \in Tags /\ "s_hat" \in Tags /\ "challenge" \in Tags
        /\ "pk_tilde" \in Tags /\ "r_key" \in Tags
    BY DEF Tags
  <1>4. x = [bbs_proof |-> [points |-> p, scalars |-> q], commitments |-> c, s_hat |-> h,
             challenge |-> e, keys |-> k, r_key |-> r]
    BY DEF ProofState
  <1> HIDE DEF n, x
  <1>5. p \in Seq(PointItems) /\ Len(p) = 3
    <2>1. \A m \in Nat : Points("bbs", s, m) \in Seq(PointItems) /\ Len(Points("bbs", s, m)) = m
      BY <1>3, DrawnList
    <2> QED BY <1>2, <2>1
  <1>6. q \in Seq(ScalarItems) /\ Len(q) = n
    BY <1>2, <1>3, DrawnList
  <1>7. c \in Seq(PointItems) /\ Len(c) = shape.committed
    BY <1>1, <1>3, DrawnList
  <1>8. h \in Seq(ScalarItems) /\ Len(h) = shape.committed
    BY <1>1, <1>3, DrawnList
  <1>9. e \in ScalarItems
    BY <1>3, DrawnOne
  <1>10. k \in Seq(PointItems) /\ Len(k) = shape.keys
    BY <1>1, <1>3, DrawnList
  <1>11. r \in Seq(ScalarItems) /\ Len(r) = shape.keys
    BY <1>1, <1>3, DrawnList
  <1> HIDE DEF p, q, c, h, e, k, r
  <1>12. [points |-> p, scalars |-> q] \in BbsProofs
    BY <1>2, <1>5, <1>6 DEF BbsProofs
  <1>13. x \in ProofStates
    BY <1>4, <1>7, <1>8, <1>9, <1>10, <1>11, <1>12 DEF ProofStates
  <1> QED BY <1>1, <1>2, <1>4, <1>6, <1>10, <1>13 DEF x

-----------------------------------------------------------------------------
(* Device signatures: two scalars each.                                    *)

LEMMA TwoScalars ==
  ASSUME NEW x \in ScalarItems, NEW y \in ScalarItems,
         NEW octets, octets = serialize(<<x, y>>)
  PROVE  /\ octets \in SignatureStrings
         /\ ReadAll(octets, 1, <<"scalar", "scalar">>) = {<<x, y>>}
  <1> DEFINE a == <<x>>
             e == <<y>>
             z == Join(a, e)
             body == serialize(z)
  <1>1. /\ a \in ItemLists /\ NoCounts(a) /\ Types(a) = Some(1, "scalar")
        /\ e \in ItemLists /\ NoCounts(e) /\ Types(e) = Some(1, "scalar")
    BY OneScalar
  <1>2. z = <<x, y>>
    BY PairJoined
  <1> HIDE DEF a, e
  <1>3. z \in ItemLists /\ NoCounts(z)
    BY <1>1, ItemsFacts, NoCountsJoin
  <1>4. Types(z) = Join(Some(1, "scalar"), Some(1, "scalar"))
    BY <1>1, TypesJoin
  <1>5. Types(z) = <<"scalar", "scalar">>
    <2>1. Some(1, "scalar") = <<"scalar">>
      BY DEF Some
    <2>2. Join(<<"scalar">>, <<"scalar">>) = <<"scalar", "scalar">>
      BY PairJoined
    <2> QED BY <1>4, <2>1, <2>2
  <1>6. octets = body
    BY <1>2
  <1> HIDE DEF z
  <1>7. body \in Strings
    BY <1>3, SerializeJoin
  <1>8. Len(body) = 8
    <2>1. Len(body) = WidthOf(Types(z))
      BY <1>3, SerializeLen DEF ItemLists
    <2>2. WidthOf(Join(Some(1, "scalar"), Some(1, "scalar"))) = 4 + 4
      BY PointsAndScalars, TypeListsFacts
    <2> QED BY <1>4, <2>1, <2>2
  <1>9. ReadAll(octets, 1, <<"scalar", "scalar">>) = {z}
    <2>1. Join(<<>>, Join(body, <<>>)) = body /\ <<>> \in Strings /\ Len(<<>>) + 1 = 1
      BY <1>7, JoinEmpty
    <2>2. ReadAll(Join(<<>>, Join(serialize(z), <<>>)), Len(<<>>) + 1, Types(z)) = {z}
      BY ONLY <1>3, <2>1, ReadBackAt
    <2> QED BY <1>5, <1>6, <2>1, <2>2
  <1> QED BY <1>2, <1>6, <1>7, <1>8, <1>9 DEF SignatureStrings

\* A device signature adapted: one scalar changed, the other as it was.
LEMMA AdaptsOne ==
  ASSUME NEW x \in ScalarItems, NEW y \in ScalarItems, NEW r \in ScalarItems
  PROVE  /\ adapt_sig(serialize(<<x, y>>), r) = {serialize(<<Adapted(x, r), y>>)}
         /\ Adapted(x, r) \in ScalarItems
         /\ serialize(<<Adapted(x, r), y>>) \in SignatureStrings
  <1> DEFINE s == serialize(<<x, y>>)
             p == <<x, y>>
  <1>1. s \in SignatureStrings /\ ReadAll(s, 1, <<"scalar", "scalar">>) = {p}
    BY TwoScalars
  <1>2. Len(s) = 8
    BY <1>1 DEF SignatureStrings
  <1>3. Adapted(x, r) \in ScalarItems
    <2>1. x.name \in Names /\ r.name \in Names
      BY DEF ScalarItems
    <2>2. x.name \o r.name \in Names
      <3>1. \A S : \A a \in Seq(S), b \in Seq(S) : a \o b \in Seq(S)
        OBVIOUS
      <3> QED BY <2>1, <3>1 DEF Names
    <2> QED BY <2>2 DEF Adapted, Scalar, Item, ScalarItems
  <1> HIDE DEF s
  <1>4. adapt_sig(s, r) = {serialize(<<Adapted(z[1], r), z[2]>>) : z \in {p}}
    BY <1>1, <1>2 DEF adapt_sig
  <1>5. p[1] = x /\ p[2] = y
    OBVIOUS
  <1> HIDE DEF p
  <1>6. adapt_sig(s, r) = {serialize(<<Adapted(x, r), y>>)}
    BY <1>4, <1>5
  <1> QED BY <1>3, <1>6, TwoScalars DEF s

-----------------------------------------------------------------------------
(* The invariant of the strings.  Each is what one of the writers makes of  *)
(* a value; what was finished, of the value of an init in its own session;   *)
(* and no session has two commitment states.                               *)

AnswerLists == Seq(Int \X Int)

AdaptedSignatures(answers, r_key) ==
  [i \in DOMAIN answers |->
     serialize(<<Adapted(Response(answers[i]), r_key[i]), Hash(answers[i])>>)]

IsStateString(x) ==
  /\ x.value \in CommitmentStates
  /\ x.octets = commitment_state_to_octets(x.value)

IsCommitmentOf(x, s) ==
  /\ s.kind = "commitment state" /\ s.session = x.session
  /\ x.value.answers \in AnswerLists /\ Len(x.value.answers) = Len(s.value.keys)
  /\ x.octets = commitment_with_proof_to_octets(s.value, Signatures(x.value.answers))

IsSignatureString(x) ==
  /\ x.value \in IssuerSignatures
  /\ x.octets = signature_to_octets(x.value)

\* abar, bbar, d have no messages; ehat, r1hat, r3hat, the prover blind and the
\* challenge are the five scalars that stand for none.
IsProofState(x) ==
  /\ x.value \in ProofStates
  /\ x.octets = proof_gen_state_to_octets(x.value)
  /\ x.messages \in Nat /\ x.disclosed \in 0 .. x.messages
  /\ Len(x.value.bbs_proof.scalars) = 5 + (x.messages - x.disclosed) + Len(x.value.keys)

\* The octets that were finished of a proof state with the answers given.
FinishedOf(octets, answers, s) ==
  /\ s.kind = "proof state"
  /\ answers \in AnswerLists /\ Len(answers) = Len(s.value.keys)
  /\ octets = ProofString(s.value, AdaptedSignatures(answers, s.value.r_key))

IsProofOf(x, s) == s.session = x.session /\ FinishedOf(x.octets, x.value.answers, s)

\* Which of the messages are not withheld.
Shown(payloads) == {i \in DOMAIN payloads : payloads[i] # <<>>}

IsIssued(x) ==
  /\ x.value.jwp \in IssuedJwps
  /\ x.octets = issued_encode(x.value.jwp)

\* A carry and the state that was put into it: of one session, and as many
\* messages and disclosed ones in one as in the other.
IsCarryOf(x, s) ==
  /\ s.kind = "proof state" /\ s.session = x.session
  /\ x.value \in Carries /\ x.octets = carry_encode(x.value)
  /\ x.session \in Byte /\ x.value.inner = <<x.session>>
  /\ x.value.presentation_header \in ByteStrings
  /\ x.value.issuer_header \in ByteStrings
  /\ x.value.payloads \in Groups \ {<<>>}
  /\ s.messages = Len(x.value.payloads)
  /\ s.disclosed = Cardinality(Shown(x.value.payloads))

PresentedOfCarry(c, n, answers) ==
  [presentation_header |-> c.value.presentation_header,
   issuer_header |-> c.value.issuer_header,
   payloads |-> c.value.payloads,
   proof |-> ProofNumber(n, answers)]

IsPresentedOf(x, c, s) ==
  /\ c.kind = "carry" /\ c.session = x.session /\ IsCarryOf(c, s)
  /\ FinishedOf(x.value.proof, x.value.answers, s)
  /\ ProofNumber(s.session, x.value.answers) \in ByteStrings
  /\ x.octets = presented_encode(PresentedOfCarry(c, s.session, x.value.answers))

Kinds == BlindKinds \cup {"issued", "carry", "presentation"}

StringOK(x, m) ==
  /\ x.kind \in Kinds
  /\ x.kind = "commitment state" => IsStateString(x)
  /\ x.kind = "commitment" => \E s \in m : IsCommitmentOf(x, s)
  /\ x.kind = "signature" => IsSignatureString(x)
  /\ x.kind = "proof state" => IsProofState(x)
  /\ x.kind = "proof" => \E s \in m : IsProofOf(x, s)
  /\ x.kind = "issued" => IsIssued(x)
  /\ x.kind = "carry" => \E s \in m : IsCarryOf(x, s)
  /\ x.kind = "presentation" => \E c \in m, s \in m : IsPresentedOf(x, c, s)

\* What a session begins with, once.
States == {"commitment state", "proof state"}

SessionsOf(m) == {x.session : x \in m}

OneStateEach(m) ==
  \A s, t \in m :
    s.kind \in States /\ t.kind = s.kind /\ s.session = t.session => s = t

StringsInv(m) ==
  /\ IsFiniteSet(m)
  /\ SessionsOf(m) \subseteq 1 .. Cardinality(SessionsOf(m))
  /\ OneStateEach(m)
  /\ \A x \in m : StringOK(x, m)

LEMMA StringGrows ==
  ASSUME NEW m, NEW n, m \subseteq n, NEW x, StringOK(x, m)
  PROVE  StringOK(x, n)
  BY DEF StringOK

LEMMA SessionsFinite ==
  ASSUME NEW m, IsFiniteSet(m)
  PROVE  IsFiniteSet(SessionsOf(m)) /\ Cardinality(SessionsOf(m)) \in Nat
  <1> DEFINE f == [x \in m |-> x.session]
  <1>1. f \in Surjection(m, SessionsOf(m))
    BY DEF Surjection, SessionsOf
  <1>2. IsFiniteSet(SessionsOf(m))
    BY <1>1, FS_Surjection
  <1> QED BY <1>2, FS_CardinalityType

\* A string made of another, in its session.
LEMMA AddSame ==
  ASSUME NEW m, StringsInv(m), NEW x, x.session \in SessionsOf(m),
         x.kind \notin States, StringOK(x, m)
  PROVE  StringsInv(m \cup {x})
  <1> DEFINE n == m \cup {x}
  <1>1. IsFiniteSet(n)
    BY FS_AddElement DEF StringsInv
  <1>2. SessionsOf(n) = SessionsOf(m)
    BY DEF SessionsOf
  <1>3. OneStateEach(n)
    BY DEF StringsInv, OneStateEach
  <1>4. \A y \in n : StringOK(y, n)
    <2>1. m \subseteq n /\ \A y \in n : StringOK(y, m)
      BY DEF StringsInv
    <2> QED BY <2>1, StringGrows
  <1> HIDE DEF n
  <1>5. SessionsOf(m) \subseteq 1 .. Cardinality(SessionsOf(m))
    BY DEF StringsInv
  <1> QED BY <1>1, <1>2, <1>3, <1>4, <1>5 DEF StringsInv, n

\* What a call draws is of a session that has nothing yet.
LEMMA AddFresh ==
  ASSUME NEW m, StringsInv(m), NEW new, IsFiniteSet(new), new # {},
         \A x \in new : x.session = Cardinality(SessionsOf(m)) + 1,
         OneStateEach(new), \A x \in new : StringOK(x, m \cup new)
  PROVE  StringsInv(m \cup new)
  <1> DEFINE n == m \cup new
             c == Cardinality(SessionsOf(m))
  <1>1. IsFiniteSet(n)
    BY FS_Union DEF StringsInv
  <1>2. c \in Nat /\ IsFiniteSet(SessionsOf(m)) /\ SessionsOf(m) \subseteq 1 .. c
    BY SessionsFinite DEF StringsInv
  <1>3. SessionsOf(n) = SessionsOf(m) \cup {c + 1}
    BY DEF SessionsOf
  <1>4. c + 1 \notin SessionsOf(m)
    BY <1>2
  <1> HIDE DEF n, c
  <1>5. Cardinality(SessionsOf(n)) = c + 1
    BY <1>2, <1>3, <1>4, FS_AddElement DEF c
  <1>6. SessionsOf(n) \subseteq 1 .. Cardinality(SessionsOf(n))
    BY <1>2, <1>3, <1>5
  <1>7. OneStateEach(n)
    <2>1. \A x \in m : x.session \in SessionsOf(m)
      BY DEF SessionsOf
    <2>2. \A x \in new : x.session = c + 1
      BY DEF c
    <2>3. OneStateEach(m)
      BY DEF StringsInv
    <2> QED BY <1>4, <2>1, <2>2, <2>3 DEF n, OneStateEach
  <1>8. \A y \in n : StringOK(y, n)
    <2>1. m \subseteq n /\ (\A y \in m : StringOK(y, m)) /\ \A y \in new : StringOK(y, n)
      BY DEF StringsInv, n
    <2>2. n = m \cup new
      BY DEF n
    <2> QED BY <2>1, <2>2, StringGrows
  <1> QED BY <1>1, <1>6, <1>7, <1>8 DEF StringsInv, n

-----------------------------------------------------------------------------
(* Answers, as device signatures and adapted ones.                         *)

LEMMA AnswerType ==
  ASSUME NEW r \in Int \X Int
  PROVE  Response(r) \in ScalarItems /\ Hash(r) \in ScalarItems
  <1>1. "k_hat" \in Tags /\ "c" \in Tags /\ r[1] \in Int /\ r[2] \in Int
    BY DEF Tags
  <1> QED BY <1>1, DrawnOne DEF Response, Hash

LEMMA SignaturesType ==
  ASSUME NEW answers \in AnswerLists
  PROVE  Signatures(answers) \in SignatureLists /\ Len(Signatures(answers)) = Len(answers)
  <1> DEFINE n == Len(answers)
             g(i) == serialize(<<Response(answers[i]), Hash(answers[i])>>)
             f == [i \in 1 .. n |-> g(i)]
  <1>1. n \in Nat /\ DOMAIN answers = 1 .. n /\ \A i \in 1 .. n : answers[i] \in Int \X Int
    BY DEF AnswerLists
  <1>2. \A i \in 1 .. n : g(i) \in SignatureStrings
    <2>1. TAKE i \in 1 .. n
    <2>2. Response(answers[i]) \in ScalarItems /\ Hash(answers[i]) \in ScalarItems
      BY <1>1, AnswerType
    <2> QED BY <2>2, TwoScalars
  <1>3. Signatures(answers) = f
    BY <1>1 DEF Signatures
  <1> HIDE DEF g, n
  <1>4. f \in [1 .. n -> SignatureStrings]
    BY <1>2
  <1> HIDE DEF f
  <1>5. f \in Seq(SignatureStrings) /\ Len(f) = n
    BY <1>1, <1>4
  <1> QED BY <1>3, <1>5 DEF SignatureLists, n

LEMMA AdaptedType ==
  ASSUME NEW answers \in AnswerLists, NEW r_key \in Seq(ScalarItems),
         Len(answers) = Len(r_key)
  PROVE  /\ AdaptedSignatures(answers, r_key) \in SignatureLists
         /\ Len(AdaptedSignatures(answers, r_key)) = Len(answers)
         /\ \A i \in DOMAIN answers :
              adapt_sig(Signatures(answers)[i], r_key[i])
                = {AdaptedSignatures(answers, r_key)[i]}
  <1> DEFINE n == Len(answers)
             h(i) == serialize(<<Response(answers[i]), Hash(answers[i])>>)
             g(i) == serialize(<<Adapted(Response(answers[i]), r_key[i]), Hash(answers[i])>>)
             f == [i \in 1 .. n |-> g(i)]
  <1>1. /\ n \in Nat /\ DOMAIN answers = 1 .. n /\ \A i \in 1 .. n : answers[i] \in Int \X Int
        /\ \A i \in 1 .. n : r_key[i] \in ScalarItems
    BY DEF AnswerLists
  <1>2. \A i \in 1 .. n : g(i) \in SignatureStrings /\ adapt_sig(h(i), r_key[i]) = {g(i)}
    <2>1. TAKE i \in 1 .. n
    <2>2. Response(answers[i]) \in ScalarItems /\ Hash(answers[i]) \in ScalarItems
      BY <1>1, AnswerType
    <2>3. r_key[i] \in ScalarItems
      BY <1>1
    <2> QED BY <2>2, <2>3, AdaptsOne
  <1>3. AdaptedSignatures(answers, r_key) = f
    BY <1>1 DEF AdaptedSignatures
  <1>4. \A i \in 1 .. n : Signatures(answers)[i] = h(i) /\ f[i] = g(i)
    BY <1>1 DEF Signatures
  <1> HIDE DEF g, h, n
  <1>5. f \in [1 .. n -> SignatureStrings]
    BY <1>2
  <1> HIDE DEF f
  <1>6. f \in Seq(SignatureStrings) /\ Len(f) = n
    BY <1>1, <1>5
  <1>7. \A i \in 1 .. n : adapt_sig(Signatures(answers)[i], r_key[i]) = {f[i]}
    BY <1>2, <1>4
  <1> QED BY <1>1, <1>3, <1>6, <1>7 DEF SignatureLists, n

LEMMA AnswersType ==
  ASSUME NEW session \in Int, NEW n \in Nat
  PROVE  Answers(session, n) \in AnswerLists /\ Len(Answers(session, n)) = n
  BY DEF Answers, AnswerLists

-----------------------------------------------------------------------------
(* What each reader makes of each string.                                  *)

KeylessState(x, m) ==
  \E s \in m : s.kind = "commitment state" /\ s.session = x.session /\ s.value.keys = <<>>

LEMMA NoKeys ==
  ASSUME NEW S, NEW s \in Seq(S)
  PROVE  Len(s) = 0 <=> s = <<>>
  BY EmptySeq

LEMMA StateStringRead ==
  ASSUME NEW x, IsStateString(x)
  PROVE  /\ octets_to_commitment_state(x.octets) = {x.value}
         /\ octets_to_commitment_with_proof(x.octets) # {} <=> x.value.keys = <<>>
         /\ octets_to_signature(x.octets) = {}
         /\ octets_to_proof_gen_state(x.octets) = {}
         /\ octets_to_blind_proof(x.octets) = {}
         /\ x.octets \in Strings /\ Len(x.octets) >= 3
  <1> DEFINE s == x.value
             o == x.octets
             m == Len(s.m_hat)
             k == Len(s.keys)
  <1>1. s \in CommitmentStates /\ o = commitment_state_to_octets(s)
    BY DEF IsStateString
  <1>2. m \in Nat /\ k \in Nat /\ s.keys \in Seq(PointItems)
    BY <1>1, StateItemsFacts, CommitmentFields
  <1> HIDE DEF s, o
  <1>3. k = 0 <=> s.keys = <<>>
    BY <1>2, NoKeys
  <1>4. m = Len(s.m_hat) /\ k = Len(s.keys)
    OBVIOUS
  <1> HIDE DEF m, k
  <1>5. /\ o \in Strings /\ Len(o) = StateUnits(m, k) /\ StartsWithTwo(o, m, k)
        /\ o[3] = <<s.c, 1>> /\ s.c.type = "point"
        /\ octets_to_commitment_state(o) = {s}
    BY <1>1, <1>2, <1>4, CommitmentStateOctets
  <1>6. octets_to_proof_gen_state(o) = {} /\ octets_to_blind_proof(o) = {}
    BY <1>5, PointThird
  <1>7. octets_to_signature(o) = {}
    BY <1>5, CountedIsNoSignature DEF StartsWithTwo
  <1>8. ASSUME k # 0 PROVE octets_to_commitment_with_proof(o) = {}
    <2>1. StateUnits(m, k) # CommitmentUnits(m, k)
      BY <1>2, <1>8, KeysTellApart
    <2> QED BY <1>5, <2>1, CommitmentReader
  <1>9. ASSUME s.keys = <<>> PROVE octets_to_commitment_with_proof(o) # {}
    <2> DEFINE g == <<>>
    <2>1. g \in SignatureLists /\ Len(g) = Len(s.keys)
      BY <1>9, EmptySeq DEF SignatureLists
    <2>2. commitment_with_proof_to_octets(s, g) = o
      BY <1>1, <1>9, KeylessSame
    <2> HIDE DEF g
    <2>3. octets_to_commitment_with_proof(commitment_with_proof_to_octets(s, g))
            = {CommitmentOf(s, g)}
      BY <1>1, <2>1, CommitmentReadBack
    <2> QED BY <2>2, <2>3
  <1>10. Len(o) >= 3
    BY <1>2, <1>5 DEF StateUnits
  <1>11. x.octets = o /\ x.value = s
    BY DEF o, s
  <1> QED BY <1>3, <1>5, <1>6, <1>7, <1>8, <1>9, <1>10, <1>11

LEMMA CommitmentStringRead ==
  ASSUME NEW x, NEW s, IsStateString(s), IsCommitmentOf(x, s)
  PROVE  /\ octets_to_commitment_with_proof(x.octets)
              = {CommitmentOf(s.value, Signatures(x.value.answers))}
         /\ octets_to_commitment_state(x.octets)
              = IF s.value.keys = <<>> THEN {s.value} ELSE {}
         /\ octets_to_signature(x.octets) = {}
         /\ octets_to_proof_gen_state(x.octets) = {}
         /\ octets_to_blind_proof(x.octets) = {}
         /\ x.octets \in Strings /\ Len(x.octets) >= 3
  <1> DEFINE v == s.value
             o == x.octets
             g == Signatures(x.value.answers)
             m == Len(v.m_hat)
             k == Len(v.keys)
  <1>1. /\ v \in CommitmentStates /\ x.value.answers \in AnswerLists
        /\ Len(x.value.answers) = k
        /\ o = commitment_with_proof_to_octets(v, g)
    BY DEF IsStateString, IsCommitmentOf
  <1>2. g \in SignatureLists /\ Len(g) = Len(v.keys)
    BY <1>1, SignaturesType
  <1>3. m \in Nat /\ k \in Nat /\ v.keys \in Seq(PointItems)
    BY <1>1, StateItemsFacts, CommitmentFields
  <1> HIDE DEF v, o, g
  <1>4. k = 0 <=> v.keys = <<>>
    BY <1>3, NoKeys
  <1>5. m = Len(v.m_hat) /\ k = Len(v.keys)
    OBVIOUS
  <1> HIDE DEF m, k
  <1>6. /\ o \in Strings /\ Len(o) = CommitmentUnits(m, k) /\ StartsWithTwo(o, m, k)
    BY <1>1, <1>2, <1>3, <1>5, CommitmentOctets
  <1>7. o[3] = <<v.c, 1>> /\ v.c.type = "point"
    BY <1>1, <1>2, CommitmentThird
  <1>8. octets_to_proof_gen_state(o) = {} /\ octets_to_blind_proof(o) = {}
    BY <1>7, PointThird
  <1>9. octets_to_signature(o) = {}
    BY <1>6, CountedIsNoSignature DEF StartsWithTwo
  <1>10. octets_to_commitment_with_proof(o) = {CommitmentOf(v, g)}
    BY <1>1, <1>2, CommitmentReadBack
  <1>11. ASSUME v.keys # <<>> PROVE octets_to_commitment_state(o) = {}
    <2>1. StateUnits(m, k) # CommitmentUnits(m, k)
      BY <1>3, <1>4, <1>11, KeysTellApart
    <2> QED BY <1>6, <2>1, StateReader
  <1>12. ASSUME v.keys = <<>> PROVE octets_to_commitment_state(o) = {v}
    <2>1. g = <<>>
      <3>1. g \in Seq(SignatureStrings) /\ Len(g) = 0
        BY <1>2, <1>4, <1>5, <1>12 DEF SignatureLists
      <3> QED BY <3>1, NoKeys
    <2>2. commitment_with_proof_to_octets(v, <<>>) = commitment_state_to_octets(v)
      BY <1>1, <1>12, KeylessSame
    <2> QED BY <1>1, <2>1, <2>2, CommitmentStateReadBack
  <1>13. Len(o) >= 3
    BY <1>3, <1>6 DEF CommitmentUnits
  <1>14. x.octets = o /\ s.value = v /\ Signatures(x.value.answers) = g
    BY DEF o, v, g
  <1> QED BY <1>6, <1>8, <1>9, <1>10, <1>11, <1>12, <1>13, <1>14

LEMMA SignatureStringRead ==
  ASSUME NEW x, IsSignatureString(x)
  PROVE  /\ octets_to_signature(x.octets) = {x.value}
         /\ octets_to_commitment_state(x.octets) = {}
         /\ octets_to_commitment_with_proof(x.octets) = {}
         /\ octets_to_proof_gen_state(x.octets) = {}
         /\ octets_to_blind_proof(x.octets) = {}
         /\ x.octets \in Strings /\ Len(x.octets) >= 3
  <1> DEFINE v == x.value
             o == x.octets
  <1>1. v \in IssuerSignatures /\ o = signature_to_octets(v)
    BY DEF IsSignatureString
  <1> HIDE DEF v, o
  <1>2. o \in Strings /\ Len(o) = 10 /\ octets_to_signature(o) = {v}
    BY <1>1, SignatureOctets
  <1>3. /\ octets_to_commitment_state(o) = {}
        /\ octets_to_commitment_with_proof(o) = {}
        /\ octets_to_proof_gen_state(o) = {}
        /\ octets_to_blind_proof(o) = {}
    BY <1>1, SignatureIsNothingElse
  <1>4. Len(o) >= 3
    BY <1>2
  <1> QED BY <1>2, <1>3, <1>4 DEF v, o

LEMMA ProofStateRead ==
  ASSUME NEW x, IsProofState(x)
  PROVE  /\ octets_to_proof_gen_state(x.octets) = {IncompleteProof(x.value)}
         /\ octets_to_commitment_state(x.octets) = {}
         /\ octets_to_commitment_with_proof(x.octets) = {}
         /\ octets_to_signature(x.octets) = {}
         /\ octets_to_blind_proof(x.octets) = {}
         /\ x.octets \in Strings /\ Len(x.octets) >= 3
         /\ \E l \in Nat, n \in Nat, k \in Nat : StartsWithThree(x.octets, l, n, k)
  <1> DEFINE v == x.value
             o == x.octets
             n == Len(v.commitments)
             k == Len(v.keys)
             b == BbsUnits(v.bbs_proof)
             l == 8 * b
  <1>1. v \in ProofStates /\ o = proof_gen_state_to_octets(v)
    BY DEF IsProofState
  <1> HIDE DEF v, o
  <1>2. /\ n \in Nat /\ k \in Nat /\ b \in Nat
        /\ FrontUnits(v) = 3 + b + n * 10
    BY <1>1, ProofStateItems, FrontFacts DEF FrontUnits
  <1>3. /\ o \in Strings /\ octets_to_proof_gen_state(o) = {IncompleteProof(v)}
        /\ Len(o) = FrontUnits(v) + 4 + k * 10
        /\ StartsWithThree(o, l, n, k)
    BY <1>1, GenStateOctetsFacts
  <1>4. l \in Nat
    BY <1>2
  <1> HIDE DEF n, k, b, l
  <1>5. /\ octets_to_commitment_state(o) = {}
        /\ octets_to_commitment_with_proof(o) = {}
        /\ octets_to_signature(o) = {}
    BY <1>2, <1>3, <1>4, ThreeCountsAreNoCommitment
  <1>6. octets_to_blind_proof(o) = {}
    BY <1>1, StateIsNoProof
  <1>7. Len(o) >= 3
    BY <1>2, <1>3
  <1> QED BY <1>2, <1>3, <1>4, <1>5, <1>6, <1>7 DEF v, o

LEMMA FinishedRead ==
  ASSUME NEW o, NEW answers, NEW s, IsProofState(s), FinishedOf(o, answers, s)
  PROVE  /\ octets_to_blind_proof(o)
              = {BlindProof(s.value, AdaptedSignatures(answers, s.value.r_key))}
         /\ octets_to_commitment_state(o) = {}
         /\ octets_to_commitment_with_proof(o) = {}
         /\ octets_to_signature(o) = {}
         /\ octets_to_proof_gen_state(o) = {}
         /\ o \in Strings /\ Len(o) >= 3
         /\ StartsWithThree(o, 8 * BbsUnits(s.value.bbs_proof), Len(s.value.commitments),
                            Len(s.value.keys))
         /\ \E l \in Nat, n \in Nat, k \in Nat : StartsWithThree(o, l, n, k)
  <1> DEFINE v == s.value
             g == AdaptedSignatures(answers, v.r_key)
             n == Len(v.commitments)
             k == Len(v.keys)
             b == BbsUnits(v.bbs_proof)
             l == 8 * b
  <1>1. /\ v \in ProofStates /\ answers \in AnswerLists /\ Len(answers) = Len(v.keys)
        /\ o = ProofString(v, g)
    BY DEF IsProofState, FinishedOf
  <1>2. v.r_key \in Seq(ScalarItems) /\ Len(answers) = Len(v.r_key)
    BY <1>1, ProofStateFields
  <1>3. g \in SignatureLists /\ Len(g) = Len(v.keys)
    BY <1>1, <1>2, AdaptedType
  <1> HIDE DEF v, g
  <1>4. /\ n \in Nat /\ k \in Nat /\ b \in Nat
        /\ FrontUnits(v) = 3 + b + n * 10
    BY <1>1, ProofStateItems, FrontFacts DEF FrontUnits
  <1>5. /\ o \in Strings /\ octets_to_blind_proof(o) = {BlindProof(v, g)}
        /\ Len(o) = FrontUnits(v) + k * 14
        /\ StartsWithThree(o, l, n, k)
    BY <1>1, <1>3, ProofStringFacts
  <1>6. l \in Nat
    BY <1>4
  <1>7. StartsWithThree(o, 8 * BbsUnits(s.value.bbs_proof), Len(s.value.commitments),
                        Len(s.value.keys))
    BY <1>5 DEF v
  <1> HIDE DEF n, k, b, l
  <1>8. /\ octets_to_commitment_state(o) = {}
        /\ octets_to_commitment_with_proof(o) = {}
        /\ octets_to_signature(o) = {}
    BY <1>4, <1>5, <1>6, ThreeCountsAreNoCommitment
  <1>9. octets_to_proof_gen_state(o) = {}
    BY <1>1, <1>3, ProofIsNoState
  <1>10. Len(o) >= 3
    BY <1>4, <1>5
  <1>11. s.value = v /\ AdaptedSignatures(answers, s.value.r_key) = g
    BY DEF v, g
  <1>12. \E a \in Nat, c \in Nat, d \in Nat : StartsWithThree(o, a, c, d)
    BY <1>4, <1>5, <1>6
  <1> QED BY <1>5, <1>7, <1>8, <1>9, <1>10, <1>11, <1>12

-----------------------------------------------------------------------------
(* Each step keeps the invariant.                                          *)

LEMMA SessionType ==
  ASSUME StringsInv(made)
  PROVE  Session = Cardinality(SessionsOf(made)) + 1 /\ Session \in Nat
  <1>1. Cardinality(SessionsOf(made)) \in Nat
    BY SessionsFinite DEF StringsInv
  <1> QED BY <1>1 DEF Session, SessionsOf

\* A call that draws one string.
LEMMA DrawKeeps ==
  ASSUME StringsInv(made), NEW x, x.session = Session, Draw({x}), StringOK(x, made \cup {x})
  PROVE  StringsInv(made')
  <1>1. made' = made \cup {x}
    BY DEF Draw, Make
  <1>2. IsFiniteSet({x}) /\ {x} # {} /\ OneStateEach({x})
    BY FS_Singleton DEF OneStateEach
  <1>3. x.session = Cardinality(SessionsOf(made)) + 1
    BY SessionType
  <1> DEFINE new == {x}
  <1>4. /\ \A y \in new : y.session = Cardinality(SessionsOf(made)) + 1
        /\ \A y \in new : StringOK(y, made \cup new)
    BY <1>3
  <1> HIDE DEF new
  <1>5. StringsInv(made \cup new)
    BY <1>2, <1>4, AddFresh DEF new
  <1> QED BY <1>1, <1>5 DEF new

LEMMA CommitInitKeeps ==
  ASSUME StringsInv(made), NEW shape \in CommitShapes, CommitInit(shape)
  PROVE  StringsInv(made')
  <1> DEFINE v == DrawnState(shape, Session)
             x == [kind |-> "commitment state", session |-> Session, value |-> v,
                   octets |-> commitment_state_to_octets(v)]
  <1>1. Draw({x})
    BY DEF CommitInit, DrawnState
  <1>2. v \in CommitmentStates
    BY SessionType, DrawnStateType
  <1> HIDE DEF v
  <1>3. x.session = Session /\ x.kind = "commitment state" /\ IsStateString(x)
    BY <1>2 DEF IsStateString
  <1> HIDE DEF x
  <1>4. StringOK(x, made \cup {x})
    BY <1>3 DEF StringOK, Kinds, BlindKinds
  <1> QED BY <1>1, <1>3, <1>4, DrawKeeps

LEMMA BlindSignKeeps ==
  ASSUME StringsInv(made), NEW x, BlindSign(x)
  PROVE  StringsInv(made')
  <1> DEFINE v == DrawnSignature(Session)
             y == [kind |-> "signature", session |-> Session, value |-> v,
                   octets |-> signature_to_octets(v)]
  <1>1. Draw({y})
    BY DEF BlindSign, DrawnSignature
  <1>2. v \in IssuerSignatures
    BY SessionType, DrawnSignatureType
  <1> HIDE DEF v
  <1>3. y.session = Session /\ y.kind = "signature" /\ IsSignatureString(y)
    BY <1>2 DEF IsSignatureString
  <1> HIDE DEF y
  <1>4. StringOK(y, made \cup {y})
    BY <1>3 DEF StringOK, Kinds, BlindKinds
  <1> QED BY <1>1, <1>3, <1>4, DrawKeeps

LEMMA SessionByte ==
  ASSUME StringsInv(made), Session <= MaxSessions
  PROVE  Session \in Byte /\ <<Session>> \in ByteStrings
  <1>1. Session \in Nat /\ MaxSessions \in Nat /\ MaxSessions <= 255
    BY SessionType, WireAssumption
  <1>2. Session \in Byte
    BY <1>1 DEF Byte
  <1> DEFINE n == Session
  <1> HIDE DEF n
  <1>3. n \in Byte => <<n>> \in ByteStrings
    BY DEF ByteStrings
  <1> QED BY <1>2, <1>3 DEF n

LEMMA JwpIssueKeeps ==
  ASSUME StringsInv(made), NEW x, NEW header \in ByteStrings, NEW payloads \in Payloads,
         JwpIssue(x, header, payloads)
  PROVE  StringsInv(made')
  <1> DEFINE jwp == [issuer_header |-> header, payloads |-> payloads, signature |-> <<Session>>]
  <1>1. PICK commitment :
          Draw({[kind |-> "issued", session |-> Session, octets |-> issued_encode(jwp),
                 value |-> [jwp |-> jwp,
                            signature |-> signature_to_octets(DrawnSignature(Session)),
                            num_messages |-> Len(payloads) + Len(commitment.m_hat)]]})
    BY DEF JwpIssue, DrawnSignature
  <1> DEFINE v == [jwp |-> jwp, signature |-> signature_to_octets(DrawnSignature(Session)),
                   num_messages |-> Len(payloads) + Len(commitment.m_hat)]
             y == [kind |-> "issued", session |-> Session, octets |-> issued_encode(jwp),
                   value |-> v]
  <1>2. Draw({y})
    BY <1>1
  <1>3. jwp \in IssuedJwps
    <2>1. Session <= MaxSessions
      BY <1>2 DEF Draw
    <2>2. <<Session>> \in ByteStrings
      BY <2>1, SessionByte
    <2>3. payloads \in Seq(ByteStrings) \ {<<>>}
      <3>1. payloads \in Seq(Seq(0 .. 255)) /\ payloads # <<>>
        BY WireAssumption
      <3> QED BY <3>1 DEF ByteStrings, Byte
    <2> QED BY <2>2, <2>3 DEF IssuedJwps
  <1> HIDE DEF jwp
  <1>4. y.session = Session /\ y.kind = "issued" /\ IsIssued(y)
    BY <1>3 DEF IsIssued
  <1> HIDE DEF y
  <1>5. StringOK(y, made \cup {y})
    BY <1>4 DEF StringOK, Kinds, BlindKinds
  <1> QED BY <1>2, <1>4, <1>5, DrawKeeps

\* The state of a proof, as either of the calls that begin one makes it.
LEMMA StateStringOK ==
  ASSUME NEW s \in Nat, NEW shape \in ProofShapes, NEW m
  PROVE  /\ StringOK(StateString(shape, s), m)
         /\ StateString(shape, s).session = s
         /\ StateString(shape, s).kind = "proof state"
  <1> DEFINE v == ProofState(shape, s)
             x == StateString(shape, s)
  <1>1. /\ v \in ProofStates
        /\ Len(v.bbs_proof.scalars) = 5 + shape.hidden + shape.committed + shape.keys
        /\ Len(v.keys) = shape.keys
        /\ shape.hidden \in Nat /\ shape.committed \in Nat /\ shape.disclosed \in Nat
        /\ shape.keys \in Nat
    BY ProofStateType
  <1> HIDE DEF v
  <1>2. /\ x.kind = "proof state" /\ x.session = s /\ x.value = v
        /\ x.messages = shape.hidden + shape.committed + shape.disclosed
        /\ x.disclosed = shape.disclosed /\ x.octets = proof_gen_state_to_octets(v)
    BY DEF StateString, v
  <1> HIDE DEF x
  <1> DEFINE h == shape.hidden
             c == shape.committed
             d == shape.disclosed
             k == shape.keys
             l == Len(v.bbs_proof.scalars)
  <1>3. /\ h \in Nat /\ c \in Nat /\ d \in Nat /\ k \in Nat
        /\ x.messages = h + c + d /\ x.disclosed = d /\ l = 5 + h + c + k /\ Len(v.keys) = k
    BY <1>1, <1>2
  <1> HIDE DEF h, c, d, k, l
  <1>4. /\ x.messages \in Nat /\ x.disclosed \in 0 .. x.messages
        /\ l = 5 + (x.messages - x.disclosed) + Len(v.keys)
    BY ONLY <1>3
  <1>5. IsProofState(x)
    BY <1>1, <1>2, <1>4 DEF IsProofState, l
  <1>6. StringOK(x, m)
    BY <1>2, <1>5 DEF StringOK, Kinds, BlindKinds
  <1> QED BY <1>2, <1>6 DEF x

LEMMA ProofGenInitKeeps ==
  ASSUME StringsInv(made), NEW x, NEW shape \in ProofShapes, ProofGenInit(x, shape)
  PROVE  StringsInv(made')
  <1> DEFINE y == StateString(shape, Session)
  <1>1. Draw({y})
    BY DEF ProofGenInit
  <1>2. y.session = Session /\ StringOK(y, made \cup {y})
    BY SessionType, StateStringOK
  <1> HIDE DEF y
  <1> QED BY <1>1, <1>2, DrawKeeps

\* The slots of a carry: as many as there are messages, and shown those that
\* are disclosed.
SlotsFor(messages, disclose) ==
  [i \in DOMAIN messages |-> IF i \in disclose THEN <<messages[i]>> ELSE <<>>]

LEMMA SlotsForMessages ==
  ASSUME NEW messages \in Seq(ByteStrings) \ {<<>>}, NEW disclose,
         disclose \subseteq DOMAIN messages
  PROVE  /\ SlotsFor(messages, disclose) \in Groups \ {<<>>}
         /\ Len(SlotsFor(messages, disclose)) = Len(messages) /\ Len(messages) \in Nat
         /\ Shown(SlotsFor(messages, disclose)) = disclose
  <1> DEFINE n == Len(messages)
             g == SlotsFor(messages, disclose)
  <1>1. /\ n \in Nat /\ n # 0 /\ DOMAIN messages = 1 .. n
        /\ \A i \in 1 .. n : messages[i] \in ByteStrings
    <2>1. n \in Nat /\ DOMAIN messages = 1 .. n /\ \A i \in 1 .. n : messages[i] \in ByteStrings
      BY LenProperties, ElementOfSeq
    <2>2. n # 0
      BY EmptySeq
    <2> QED BY <2>1, <2>2
  <1>2. \A i \in 1 .. n : /\ <<messages[i]>> \in Members /\ <<messages[i]>> # <<>>
                          /\ <<>> \in Members
    BY <1>1 DEF Members
  <1>3. g = [i \in 1 .. n |-> IF i \in disclose THEN <<messages[i]>> ELSE <<>>]
    BY <1>1 DEF SlotsFor
  <1>4. disclose \subseteq 1 .. n
    BY <1>1
  <1> HIDE DEF n, g
  <1>5. g \in Groups /\ Len(g) = n /\ DOMAIN g = 1 .. n
    BY <1>1, <1>2, <1>3 DEF Groups
  <1>6. g # <<>>
    <2>1. Len(<<>>) = 0
      OBVIOUS
    <2> QED BY <1>1, <1>5, <2>1
  <1>7. \A i \in 1 .. n : g[i] # <<>> <=> i \in disclose
    BY <1>2, <1>3
  <1>8. Shown(g) = disclose
    BY <1>4, <1>5, <1>7 DEF Shown
  <1> QED BY <1>1, <1>5, <1>6, <1>8 DEF g, n

LEMMA GroupsAreSlots ==
  ASSUME NEW g \in Groups
  PROVE  g \in SlotLists
  <1>1. ByteStrings \subseteq Octets
    <2>1. Byte \subseteq Int
      BY DEF Byte
    <2> QED BY <2>1, SeqMonotonic DEF ByteStrings, Octets
  <1>2. Members \subseteq SlotValues
    BY <1>1 DEF Members, SlotValues
  <1> QED BY <1>2, SeqMonotonic DEF Groups, SlotLists

LEMMA BytesAreOctets ==
  ASSUME NEW b \in ByteStrings
  PROVE  b \in Octets
  <1>1. Byte \subseteq Int
    BY DEF Byte
  <1> QED BY <1>1, SeqMonotonic DEF ByteStrings, Octets

\* A credential, read from its text.
LEMMA IssuedFound ==
  ASSUME StringsInv(made), NEW x \in made, x.kind = "issued", NEW j \in issued_decode(x.octets)
  PROVE  j = x.value.jwp /\ j \in IssuedJwps
  <1>1. x.value.jwp \in IssuedJwps /\ x.octets = issued_encode(x.value.jwp)
    BY DEF StringsInv, StringOK, IsIssued
  <1> QED BY <1>1, IssuedReadBack

LEMMA CarryMade ==
  ASSUME StringsInv(made), NEW header \in ByteStrings, NEW issuer_header \in ByteStrings,
         NEW messages \in Seq(ByteStrings) \ {<<>>}, NEW disclose,
         disclose \subseteq DOMAIN messages, NEW shape \in ProofShapes,
         shape.hidden = Len(messages) - Cardinality(disclose), shape.committed = 0,
         shape.disclosed = Cardinality(disclose), Session <= MaxSessions,
         NEW carry, carry = [inner |-> <<Session>>, presentation_header |-> header,
                             issuer_header |-> issuer_header,
                             payloads |-> SlotsFor(messages, disclose)],
         NEW z, z = [kind |-> "carry", session |-> Session, value |-> carry,
                     octets |-> carry_encode(carry)]
  PROVE  IsCarryOf(z, StateString(shape, Session))
  <1> DEFINE s == StateString(shape, Session)
             g == SlotsFor(messages, disclose)
             b == <<Session>>
  <1>1. /\ s.kind = "proof state" /\ s.session = Session
        /\ s.messages = shape.hidden + shape.committed + shape.disclosed
        /\ s.disclosed = shape.disclosed
    BY DEF StateString
  <1>2. /\ g \in Groups \ {<<>>} /\ Len(g) = Len(messages) /\ Len(messages) \in Nat
        /\ Shown(g) = disclose
    BY SlotsForMessages
  <1>3. Session \in Byte /\ b \in ByteStrings
    BY SessionByte
  <1>4. shape.disclosed \in Nat /\ shape.hidden \in Nat
    BY WireAssumption
  <1> HIDE DEF s, g, b
  <1>5. /\ carry.inner = b /\ carry.presentation_header = header
        /\ carry.issuer_header = issuer_header /\ carry.payloads = g
        /\ carry \in Carries
    <2>1. carry = [inner |-> b, presentation_header |-> header,
                   issuer_header |-> issuer_header, payloads |-> g]
      BY DEF b, g
    <2>2. b \in Octets /\ header \in Octets /\ issuer_header \in Octets /\ g \in SlotLists
      BY <1>2, <1>3, BytesAreOctets, GroupsAreSlots
    <2> QED BY <2>1, <2>2 DEF Carries
  <1>6. s.messages = Len(g)
    <2> DEFINE m == Len(messages)
               d == Cardinality(disclose)
    <2>1. m \in Nat /\ d \in Nat /\ shape.hidden = m - d /\ shape.committed = 0 /\ shape.disclosed = d
      BY <1>2, <1>4
    <2> HIDE DEF m, d
    <2>2. shape.hidden + shape.committed + shape.disclosed = m
      BY <2>1
    <2> QED BY <1>1, <1>2, <2>2 DEF m
  <1>7. s.disclosed = Cardinality(Shown(g))
    BY <1>1, <1>2
  <1>8. /\ z.kind = "carry" /\ z.session = Session /\ z.value = carry
        /\ z.octets = carry_encode(carry)
    OBVIOUS
  <1>9. IsCarryOf(z, s)
    BY <1>1, <1>2, <1>3, <1>5, <1>6, <1>7, <1>8 DEF IsCarryOf, b
  <1> QED BY <1>9 DEF s

\* What was asked of a carry: the messages of the credential with the committed
\* ones, of which the disclosed are put in.
LEMMA PresentInitDraws ==
  ASSUME StringsInv(made), NEW x \in made, x.kind = "issued",
         NEW header \in ByteStrings, NEW committed \in Committed, NEW disclose, NEW keys,
         PresentInit(x, header, committed, disclose, keys)
  PROVE  \E shape \in ProofShapes : \E z :
           /\ z.session = Session /\ z.kind = "carry"
           /\ IsCarryOf(z, StateString(shape, Session))
           /\ Draw({StateString(shape, Session), z})
  <1>1. PICK issued \in issued_decode(x.octets) :
        \E messages \in all_messages(x, issued, committed) :
          LET s == Session
              shape == [hidden |-> Len(messages) - Cardinality(disclose), committed |-> 0,
                        disclosed |-> Cardinality(disclose), keys |-> keys]
              carry == [inner |-> <<s>>, presentation_header |-> header,
                        issuer_header |-> issued.issuer_header,
                        payloads |-> SlotsFor(messages, disclose)]
          IN  /\ disclose \subseteq DOMAIN messages
              /\ shape \in ProofShapes
              /\ Draw({StateString(shape, s),
                       [kind |-> "carry", session |-> s, value |-> carry,
                        octets |-> carry_encode(carry)]})
    BY Zenon DEF PresentInit, SlotsFor
  <1>2. PICK messages \in all_messages(x, issued, committed) :
          LET s == Session
              shape == [hidden |-> Len(messages) - Cardinality(disclose), committed |-> 0,
                        disclosed |-> Cardinality(disclose), keys |-> keys]
              carry == [inner |-> <<s>>, presentation_header |-> header,
                        issuer_header |-> issued.issuer_header,
                        payloads |-> SlotsFor(messages, disclose)]
          IN  /\ disclose \subseteq DOMAIN messages
              /\ shape \in ProofShapes
              /\ Draw({StateString(shape, s),
                       [kind |-> "carry", session |-> s, value |-> carry,
                        octets |-> carry_encode(carry)]})
    BY <1>1
  <1> DEFINE shape == [hidden |-> Len(messages) - Cardinality(disclose), committed |-> 0,
                       disclosed |-> Cardinality(disclose), keys |-> keys]
             carry == [inner |-> <<Session>>, presentation_header |-> header,
                       issuer_header |-> issued.issuer_header,
                       payloads |-> SlotsFor(messages, disclose)]
             z == [kind |-> "carry", session |-> Session, value |-> carry,
                   octets |-> carry_encode(carry)]
  <1>3. /\ disclose \subseteq DOMAIN messages /\ shape \in ProofShapes
        /\ Draw({StateString(shape, Session), z})
    BY <1>2
  <1>4. Session <= MaxSessions
    BY <1>3 DEF Draw
  <1>5. issued.issuer_header \in ByteStrings /\ issued.payloads \in Seq(ByteStrings) \ {<<>>}
    BY IssuedFound DEF IssuedJwps
  <1>6. messages \in Seq(ByteStrings) \ {<<>>}
    <2>1. messages = issued.payloads \o committed
      BY DEF all_messages
    <2>2. committed \in Seq(ByteStrings)
      BY WireAssumption DEF ByteStrings, Byte
    <2>3. /\ messages \in Seq(ByteStrings)
          /\ Len(messages) = Len(issued.payloads) + Len(committed)
          /\ Len(issued.payloads) \in Nat /\ Len(committed) \in Nat
      BY <1>5, <2>1, <2>2, ConcatProperties, LenProperties
    <2>4. Len(issued.payloads) # 0
      BY <1>5, EmptySeq
    <2>5. Len(messages) # 0 /\ Len(<<>>) = 0
      BY <2>3, <2>4
    <2> QED BY <2>3, <2>5
  <1>7. /\ shape.hidden = Len(messages) - Cardinality(disclose) /\ shape.committed = 0
        /\ shape.disclosed = Cardinality(disclose)
    OBVIOUS
  <1>8. z.session = Session /\ z.kind = "carry"
    OBVIOUS
  <1> HIDE DEF shape
  <1>9. IsCarryOf(z, StateString(shape, Session))
    BY <1>3, <1>4, <1>5, <1>6, <1>7, CarryMade
  <1> HIDE DEF z
  <1> QED BY <1>3, <1>8, <1>9

LEMMA PresentInitKeeps ==
  ASSUME StringsInv(made), NEW x \in made, x.kind = "issued",
         NEW header \in ByteStrings, NEW committed \in Committed, NEW disclose, NEW keys,
         PresentInit(x, header, committed, disclose, keys)
  PROVE  StringsInv(made')
  <1>a. PICK shape \in ProofShapes :
          \E z : /\ z.session = Session /\ z.kind = "carry"
                /\ IsCarryOf(z, StateString(shape, Session))
                /\ Draw({StateString(shape, Session), z})
    BY PresentInitDraws
  <1>1. PICK z :
          /\ z.session = Session /\ z.kind = "carry"
          /\ IsCarryOf(z, StateString(shape, Session))
          /\ Draw({StateString(shape, Session), z})
    BY <1>a
  <1> DEFINE y == StateString(shape, Session)
             new == {y, z}
  <1>2. made' = made \cup new
    BY <1>1 DEF Draw, Make
  <1>3. y.session = Session /\ y.kind = "proof state" /\ StringOK(y, made \cup new)
    BY SessionType, StateStringOK
  <1>4. z.session = Session /\ z.kind = "carry" /\ IsCarryOf(z, y)
    BY <1>1
  <1> HIDE DEF y
  <1>5. StringOK(z, made \cup new)
    BY <1>4 DEF StringOK, Kinds, BlindKinds
  <1>6. IsFiniteSet(new) /\ new # {}
    <2>1. IsFiniteSet({y})
      BY FS_Singleton
    <2>2. IsFiniteSet({y} \cup {z})
      BY <2>1, FS_AddElement
    <2>3. new = {y} \cup {z}
      OBVIOUS
    <2> QED BY <2>2, <2>3
  <1>7. OneStateEach(new)
    BY <1>3, <1>4 DEF OneStateEach, States
  <1>8. /\ \A a \in new : a.session = Cardinality(SessionsOf(made)) + 1
        /\ \A a \in new : StringOK(a, made \cup new)
    BY <1>3, <1>4, <1>5, SessionType
  <1> HIDE DEF new
  <1> QED BY <1>2, <1>6, <1>7, <1>8, AddFresh

\* What a reader of commitment states accepts is the state of the session.
LEMMA StateFound ==
  ASSUME StringsInv(made), NEW x \in Blind, NEW v \in octets_to_commitment_state(x.octets)
  PROVE  \E s \in made : /\ s.kind = "commitment state" /\ s.session = x.session
                         /\ s.value = v /\ IsStateString(s)
  <1>1. x \in made /\ x.kind \in BlindKinds /\ StringOK(x, made)
    BY DEF Blind, Of, StringsInv, StringOK, Kinds
  <1>2. CASE x.kind = "commitment state"
    BY <1>1, <1>2, StateStringRead DEF StringOK
  <1>3. CASE x.kind = "commitment"
    <2>1. PICK s \in made : IsCommitmentOf(x, s)
      BY <1>1, <1>3 DEF StringOK
    <2>2. s.kind = "commitment state" /\ s.session = x.session
      BY <2>1 DEF IsCommitmentOf
    <2>3. IsStateString(s)
      BY <2>2 DEF StringsInv, StringOK
    <2>4. octets_to_commitment_state(x.octets) = IF s.value.keys = <<>> THEN {s.value} ELSE {}
      BY <2>1, <2>3, CommitmentStringRead
    <2> QED BY <2>2, <2>3, <2>4
  <1>4. CASE x.kind = "signature"
    BY <1>1, <1>4, SignatureStringRead DEF StringOK
  <1>5. CASE x.kind = "proof state"
    BY <1>1, <1>5, ProofStateRead DEF StringOK
  <1>6. CASE x.kind = "proof"
    <2>1. PICK s \in made : IsProofOf(x, s)
      BY <1>1, <1>6 DEF StringOK
    <2>2. FinishedOf(x.octets, x.value.answers, s) /\ s.kind = "proof state"
      BY <2>1 DEF IsProofOf, FinishedOf
    <2>3. IsProofState(s)
      BY <2>2 DEF StringsInv, StringOK
    <2> QED BY <2>2, <2>3, FinishedRead
  <1> QED BY <1>1, <1>2, <1>3, <1>4, <1>5, <1>6 DEF BlindKinds

LEMMA CommitFinalizeKeeps ==
  ASSUME StringsInv(made), NEW x \in Blind, NEW session \in Int, NEW n \in Nat,
         CommitFinalize(x, session, n)
  PROVE  StringsInv(made')
  <1> DEFINE answers == Answers(session, n)
  <1>1. PICK v \in octets_to_commitment_state(x.octets) :
          /\ n = Len(v.keys)
          /\ Make({[kind |-> "commitment", session |-> x.session,
                    value |-> [answers |-> answers],
                    octets |-> commitment_with_proof_to_octets(v, Signatures(answers))]})
    BY DEF CommitFinalize
  <1>2. answers \in AnswerLists /\ Len(answers) = n
    BY AnswersType
  <1>3. PICK s \in made : /\ s.kind = "commitment state" /\ s.session = x.session
                          /\ s.value = v /\ IsStateString(s)
    BY StateFound
  <1> HIDE DEF answers
  <1> DEFINE y == [kind |-> "commitment", session |-> x.session,
                   value |-> [answers |-> answers],
                   octets |-> commitment_with_proof_to_octets(v, Signatures(answers))]
  <1>4. made' = made \cup {y}
    BY <1>1 DEF Make
  <1>5. y.kind = "commitment" /\ y.session \in SessionsOf(made)
    BY DEF SessionsOf, Blind
  <1>6. IsCommitmentOf(y, s)
    BY <1>1, <1>2, <1>3 DEF IsCommitmentOf
  <1> HIDE DEF y
  <1>7. StringOK(y, made)
    BY <1>5, <1>6 DEF StringOK, Kinds, BlindKinds
  <1> QED BY <1>4, <1>5, <1>7, AddSame DEF States

\* What a reader of proof states accepts is a proof state, as it was made.
LEMMA ProofStateFound ==
  ASSUME StringsInv(made), NEW x \in Blind, NEW v \in octets_to_proof_gen_state(x.octets)
  PROVE  x \in made /\ x.kind = "proof state" /\ IsProofState(x)
  <1>1. x \in made /\ x.kind \in BlindKinds /\ StringOK(x, made)
    BY DEF Blind, Of, StringsInv, StringOK, Kinds
  <1>2. CASE x.kind = "commitment state"
    BY <1>1, <1>2, StateStringRead DEF StringOK
  <1>3. CASE x.kind = "commitment"
    <2>1. PICK s \in made : IsCommitmentOf(x, s)
      BY <1>1, <1>3 DEF StringOK
    <2>2. IsStateString(s)
      BY <2>1 DEF IsCommitmentOf, StringsInv, StringOK
    <2> QED BY <2>1, <2>2, CommitmentStringRead
  <1>4. CASE x.kind = "signature"
    BY <1>1, <1>4, SignatureStringRead DEF StringOK
  <1>5. CASE x.kind = "proof state"
    BY <1>1, <1>5 DEF StringOK
  <1>6. CASE x.kind = "proof"
    <2>1. PICK s \in made : IsProofOf(x, s)
      BY <1>1, <1>6 DEF StringOK
    <2>2. FinishedOf(x.octets, x.value.answers, s) /\ s.kind = "proof state"
      BY <2>1 DEF IsProofOf, FinishedOf
    <2>3. IsProofState(s)
      BY <2>2 DEF StringsInv, StringOK
    <2> QED BY <2>2, <2>3, FinishedRead
  <1> QED BY <1>1, <1>2, <1>3, <1>4, <1>5, <1>6 DEF BlindKinds

\* Finishing the octets of a state gives the proof of that state.
LEMMA FinalizeGives ==
  ASSUME NEW s, s.kind = "proof state", IsProofState(s), NEW answers \in AnswerLists,
         NEW proof \in blind_proof_gen_finalize(s.octets, answers)
  PROVE  FinishedOf(proof, answers, s)
  <1> DEFINE v == s.value
             st == IncompleteProof(v)
             adapted == [i \in DOMAIN answers |->
                           adapt_sig(Signatures(answers)[i], st.r_key[i])]
             g == AdaptedSignatures(answers, v.r_key)
             chosen == [i \in DOMAIN adapted |-> CHOOSE a \in adapted[i] : TRUE]
  <1>1. v \in ProofStates /\ octets_to_proof_gen_state(s.octets) = {st}
    BY ProofStateRead DEF IsProofState
  <1>2. /\ st.keys = v.keys /\ st.r_key = v.r_key /\ st.incomplete_proof = FrontOf(v)
        /\ v.r_key \in Seq(ScalarItems) /\ Len(v.r_key) = Len(v.keys)
    BY <1>1, ProofStateFields DEF IncompleteProof
  <1> HIDE DEF v, st
  <1>3. Len(answers) = Len(st.keys) /\ proof = st.incomplete_proof \o serialize(st.keys) \o FlattenSeq(chosen)
    <2> DEFINE F(state) ==
                 IF Len(answers) # Len(state.keys) THEN {}
                 ELSE LET each == [i \in DOMAIN answers |->
                                     adapt_sig(Signatures(answers)[i], state.r_key[i])]
                      IN  IF \E i \in DOMAIN each : each[i] = {} THEN {}
                          ELSE {state.incomplete_proof \o serialize(state.keys)
                                  \o FlattenSeq([i \in DOMAIN each |->
                                                   CHOOSE a \in each[i] : TRUE])}
    <2>1. proof \in UNION {F(state) : state \in octets_to_proof_gen_state(s.octets)}
      BY DEF blind_proof_gen_finalize
    <2>2. proof \in F(st)
      <3> HIDE DEF F
      <3> QED BY <1>1, <2>1
    <2> QED BY <2>2
  <1>4. Len(answers) = Len(v.r_key)
    BY <1>2, <1>3
  <1>5. /\ g \in SignatureLists
        /\ \A i \in DOMAIN answers : adapt_sig(Signatures(answers)[i], v.r_key[i]) = {g[i]}
    BY <1>2, <1>4, AdaptedType
  <1>6. DOMAIN g = DOMAIN answers
    BY DEF AdaptedSignatures
  <1>7. g = [i \in DOMAIN g |-> g[i]]
    BY DEF AdaptedSignatures
  <1> HIDE DEF g
  <1>8. DOMAIN adapted = DOMAIN answers /\ \A i \in DOMAIN answers : adapted[i] = {g[i]}
    BY <1>2, <1>5
  <1> HIDE DEF adapted
  <1>9. chosen = [i \in DOMAIN answers |-> g[i]]
    BY <1>8
  <1>10. chosen = g
    BY <1>6, <1>7, <1>9
  <1> HIDE DEF chosen
  <1> DEFINE a == FrontOf(v)
             b == serialize(v.keys)
             c == FlattenSeq(g)
  <1>11. proof = Join(Join(a, b), c)
    BY <1>2, <1>3, <1>10 DEF Join
  <1>12. a \in Strings /\ b \in Strings /\ c \in Strings
    <2>1. v.keys \in ItemLists
      BY <1>1, ProofStateItems
    <2>2. b \in Strings
      BY <2>1, SerializeJoin
    <2> QED BY <1>1, <1>5, <2>2, FrontFacts, FlattenSignatures
  <1>13. ProofString(v, g) = Join(a, Join(b, c))
    BY DEF ProofString
  <1> HIDE DEF a, b, c
  <1>14. proof = ProofString(v, g)
    BY <1>11, <1>12, <1>13, JoinAssociate
  <1> QED BY <1>2, <1>3, <1>14 DEF FinishedOf, g, v

LEMMA ProofGenFinalizeKeeps ==
  ASSUME StringsInv(made), NEW x \in Blind, NEW session \in Int, NEW n \in Nat,
         ProofGenFinalize(x, session, n)
  PROVE  StringsInv(made')
  <1> DEFINE answers == Answers(session, n)
  <1>1. PICK proof \in blind_proof_gen_finalize(x.octets, answers) :
          Make({[kind |-> "proof", session |-> x.session, octets |-> proof,
                 value |-> [answers |-> answers]]})
    BY DEF ProofGenFinalize
  <1>2. answers \in AnswerLists
    BY AnswersType
  <1> HIDE DEF answers
  <1>3. \E v : v \in octets_to_proof_gen_state(x.octets)
    BY DEF blind_proof_gen_finalize
  <1>4. x \in made /\ x.kind = "proof state" /\ IsProofState(x)
    BY <1>3, ProofStateFound
  <1>5. FinishedOf(proof, answers, x)
    BY <1>2, <1>4, FinalizeGives
  <1> DEFINE y == [kind |-> "proof", session |-> x.session, octets |-> proof,
                   value |-> [answers |-> answers]]
  <1>6. made' = made \cup {y}
    BY <1>1 DEF Make
  <1>7. y.kind = "proof" /\ y.session \in SessionsOf(made)
    BY <1>4 DEF SessionsOf
  <1>8. IsProofOf(y, x)
    BY <1>5 DEF IsProofOf
  <1> HIDE DEF y
  <1>9. StringOK(y, made)
    BY <1>4, <1>7, <1>8 DEF StringOK, Kinds, BlindKinds
  <1> QED BY <1>6, <1>7, <1>9, AddSame DEF States

LEMMA NumberType ==
  ASSUME NEW session \in Byte, NEW other \in 1 .. MaxSessions, NEW n \in Nat
  PROVE  ProofNumber(session, Answers(other, n)) \in ByteStrings
  <1> DEFINE a == Answers(other, n)
             t == [i \in DOMAIN a |-> a[i][1]]
             h == <<session>>
  <1>1. other \in Byte
    BY WireAssumption DEF Byte
  <1>2. a = [i \in 1 .. n |-> <<other, i>>] /\ DOMAIN a = 1 .. n
    BY DEF Answers
  <1>3. t = [i \in 1 .. n |-> other]
    BY <1>2
  <1>4. t \in Seq(Byte) /\ h \in Seq(Byte)
    BY <1>1, <1>3
  <1> HIDE DEF t, h
  <1>5. h \o t \in Seq(Byte)
    BY <1>4, ConcatProperties
  <1> QED BY <1>5 DEF ProofNumber, ByteStrings, t, h

LEMMA PresentFinalizeKeeps ==
  ASSUME StringsInv(made), NEW x \in made, x.kind = "carry",
         NEW session \in 1 .. MaxSessions, session \in Int, NEW n \in Nat,
         PresentFinalize(x, session, n)
  PROVE  StringsInv(made')
  <1> DEFINE answers == Answers(session, n)
  <1>1. PICK carried \in carry_decode(x.octets), s \in Of("proof state") :
          /\ carried.inner = <<s.session>>
          /\ \E proof \in blind_proof_gen_finalize(s.octets, answers) :
               Make({[kind |-> "presentation", session |-> x.session,
                      value |-> [answers |-> answers, proof |-> proof],
                      octets |-> presented_encode(
                        [presentation_header |-> carried.presentation_header,
                         issuer_header |-> carried.issuer_header,
                         payloads |-> carried.payloads,
                         proof |-> ProofNumber(s.session, answers)])]})
    BY Zenon DEF PresentFinalize
  <1>2. PICK t \in made : IsCarryOf(x, t)
    BY DEF StringsInv, StringOK
  <1>3. carried = x.value
    <2>1. x.value \in Carries /\ x.octets = carry_encode(x.value)
      BY <1>2 DEF IsCarryOf
    <2>2. carry_encode(x.value) \in Octets
      BY <2>1, CarryFields, CarryOctets, OctetsJoined
    <2>3. Common(x.octets, x.octets)
      BY <2>1, <2>2 DEF Common
    <2>4. carry_decode(x.octets) \subseteq {x.value}
      BY <2>1, <2>3, CarryReads
    <2> QED BY <2>4
  <1>4. s \in made /\ s.kind = "proof state" /\ IsProofState(s)
    BY DEF Of, StringsInv, StringOK
  <1>5. s = t
    <2>1. t.kind = "proof state" /\ t.session = x.session /\ x.value.inner = <<x.session>>
      BY <1>2 DEF IsCarryOf
    <2>2. <<x.session>> = <<s.session>>
      BY <1>1, <1>3, <2>1
    <2>3. x.session = s.session
      BY <2>2
    <2> QED BY <1>4, <2>1, <2>3 DEF StringsInv, OneStateEach, States
  <1>6. PICK proof \in blind_proof_gen_finalize(s.octets, answers) :
          Make({[kind |-> "presentation", session |-> x.session,
                 value |-> [answers |-> answers, proof |-> proof],
                 octets |-> presented_encode(PresentedOfCarry(x, s.session, answers))]})
    BY <1>1, <1>3, Zenon DEF PresentedOfCarry
  <1>7. answers \in AnswerLists
    BY AnswersType
  <1>8. ProofNumber(s.session, answers) \in ByteStrings
    <2>1. s.session \in Byte
      BY <1>2, <1>5 DEF IsCarryOf
    <2> QED BY <2>1, NumberType
  <1> HIDE DEF answers
  <1>9. FinishedOf(proof, answers, s)
    BY <1>4, <1>7, FinalizeGives
  <1> DEFINE y == [kind |-> "presentation", session |-> x.session,
                   value |-> [answers |-> answers, proof |-> proof],
                   octets |-> presented_encode(PresentedOfCarry(x, s.session, answers))]
  <1>10. made' = made \cup {y}
    BY <1>6 DEF Make
  <1>11. y.kind = "presentation" /\ y.session \in SessionsOf(made)
    BY DEF SessionsOf
  <1>12. IsPresentedOf(y, x, s)
    BY <1>2, <1>5, <1>8, <1>9 DEF IsPresentedOf
  <1> HIDE DEF y
  <1>13. StringOK(y, made)
    BY <1>4, <1>11, <1>12 DEF StringOK, Kinds, BlindKinds
  <1> QED BY <1>10, <1>11, <1>13, AddSame DEF States

LEMMA InitStrings == ASSUME Init PROVE StringsInv(made)
  BY FS_EmptySet DEF Init, StringsInv, SessionsOf, OneStateEach

LEMMA StringsStep == ASSUME StringsInv(made), [Next]_vars PROVE StringsInv(made')
  <1>1. CASE UNCHANGED made
    BY <1>1
  <1>2. CASE \E x \in made, i \in 1 .. MaxKeys, kind \in Sources : DeviceSign(x, i, kind)
    BY <1>1, <1>2 DEF DeviceSign
  <1>3. CASE \E r \in Requests : Continue(r)
    BY <1>1, <1>3 DEF Continue
  <1>4. CASE \E shape \in CommitShapes : CommitInit(shape)
    BY <1>4, CommitInitKeeps
  <1>5. CASE \E x \in Blind : BlindSign(x)
    BY <1>5, BlindSignKeeps
  <1>6. CASE \E x \in Blind, headers \in Headers, payloads \in Payloads :
               JwpIssue(x, headers[2], payloads)
    <2>1. PICK x \in Blind, headers \in Headers, payloads \in Payloads :
                 JwpIssue(x, headers[2], payloads)
      BY <1>6
    <2>2. headers[2] \in ByteStrings
      BY WireAssumption DEF ByteStrings, Byte
    <2> QED BY <2>1, <2>2, JwpIssueKeeps
  <1>7. CASE \E x \in Blind, shape \in ProofShapes : ProofGenInit(x, shape)
    BY <1>7, ProofGenInitKeeps
  <1>8. CASE \E x \in Of("issued"), headers \in Headers, committed \in Committed :
             \E disclose \in SUBSET (1 .. x.value.num_messages), keys \in 0 .. MaxKeys :
               PresentInit(x, headers[1], committed, disclose, keys)
    <2>1. PICK x \in Of("issued"), headers \in Headers, committed \in Committed :
             \E disclose \in SUBSET (1 .. x.value.num_messages), keys \in 0 .. MaxKeys :
               PresentInit(x, headers[1], committed, disclose, keys)
      BY <1>8
    <2>2. headers[1] \in ByteStrings
      BY WireAssumption DEF ByteStrings, Byte
    <2>3. x \in made /\ x.kind = "issued"
      BY DEF Of
    <2> QED BY <2>1, <2>2, <2>3, PresentInitKeeps
  <1>9. ASSUME NEW session \in 1 .. MaxSessions, NEW n \in 0 .. MaxKeys,
               \/ \E x \in Blind : CommitFinalize(x, session, n)
               \/ \E x \in Blind : ProofGenFinalize(x, session, n)
               \/ \E x \in Of("carry") : PresentFinalize(x, session, n)
        PROVE  StringsInv(made')
    <2>1. session \in Int /\ n \in Nat /\ Of("carry") \subseteq made
      BY DEF Of
    <2>2. \A x \in Of("carry") : x \in made /\ x.kind = "carry"
      BY DEF Of
    <2> QED BY <1>9, <2>1, <2>2, CommitFinalizeKeeps, ProofGenFinalizeKeeps, PresentFinalizeKeeps
  <1>10. CASE UNCHANGED vars
    BY <1>1, <1>10 DEF vars
  <1> QED
    BY <1>2, <1>3, <1>4, <1>5, <1>6, <1>7, <1>8, <1>9, <1>10 DEF Next

\* The invariant of the strings: whatever a caller hands to the next call, of
\* another session, a finished string for a state or an old one for a new one,
\* each string that was made is what a writer makes of a value, and what was
\* finished stands for an init of its own session (blind.rs:193-210, 805-826,
\* flow.rs:227-259).
THEOREM StringsAreWritten == Spec => []StringsInv(made)
  <1>1. Init => StringsInv(made)
    BY InitStrings
  <1>2. StringsInv(made) /\ [Next]_vars => StringsInv(made)'
    <2> SUFFICES ASSUME StringsInv(made), [Next]_vars PROVE StringsInv(made)'
      OBVIOUS
    <2>1. StringsInv(made')
      BY StringsStep
    <2>2. StringsInv(made)' <=> StringsInv(made')
      BY DEF StringsInv, StringOK, IsStateString, IsCommitmentOf, IsSignatureString,
             IsProofState, IsProofOf, FinishedOf, SessionsOf, OneStateEach,
             IsIssued, IsCarryOf, IsPresentedOf
    <2> QED BY <2>1, <2>2
  <1> QED BY <1>1, <1>2, PTL DEF Spec

-----------------------------------------------------------------------------
(* What the invariant says of the strings.                                 *)

LEMMA ReadAsIs ==
  ASSUME NEW octets
  PROVE  /\ ReadAs("commitment state", octets) <=> octets_to_commitment_state(octets) # {}
         /\ ReadAs("commitment", octets) <=> octets_to_commitment_with_proof(octets) # {}
         /\ ReadAs("signature", octets) <=> octets_to_signature(octets) # {}
         /\ ReadAs("proof state", octets) <=> octets_to_proof_gen_state(octets) # {}
         /\ ReadAs("proof", octets) <=> octets_to_blind_proof(octets) # {}
  BY DEF ReadAs

\* The kinds a string is read as besides its own.
AlsoReadAs(x, kind, m) ==
  /\ \/ x.kind = "commitment state" /\ kind = "commitment"
     \/ x.kind = "commitment" /\ kind = "commitment state"
  /\ KeylessState(x, m)

LEMMA ReadsOf ==
  ASSUME NEW m, StringsInv(m), NEW x \in m, x.kind \in BlindKinds, NEW kind \in BlindKinds
  PROVE  /\ ReadAs(kind, x.octets) <=> kind = x.kind \/ AlsoReadAs(x, kind, m)
         /\ x.octets \in Strings /\ Len(x.octets) >= 3
  <1>1. StringOK(x, m)
    BY DEF StringsInv
  <1>2. CASE x.kind = "commitment state"
    <2>1. IsStateString(x)
      BY <1>1, <1>2 DEF StringOK
    <2>2. KeylessState(x, m) <=> x.value.keys = <<>>
      BY <1>2 DEF KeylessState, StringsInv, OneStateEach, States
    <2> QED BY <1>2, <2>1, <2>2, StateStringRead, ReadAsIs DEF BlindKinds, AlsoReadAs
  <1>3. CASE x.kind = "commitment"
    <2>1. PICK s \in m : IsCommitmentOf(x, s)
      BY <1>1, <1>3 DEF StringOK
    <2>2. s.kind = "commitment state" /\ s.session = x.session
      BY <2>1 DEF IsCommitmentOf
    <2>3. IsStateString(s)
      BY <2>2 DEF StringsInv, StringOK
    <2>4. KeylessState(x, m) <=> s.value.keys = <<>>
      BY <2>2 DEF KeylessState, StringsInv, OneStateEach, States
    <2>5. octets_to_commitment_state(x.octets) # {} <=> s.value.keys = <<>>
      BY <2>1, <2>3, CommitmentStringRead
    <2>6. /\ octets_to_commitment_with_proof(x.octets) # {}
          /\ octets_to_signature(x.octets) = {}
          /\ octets_to_proof_gen_state(x.octets) = {}
          /\ octets_to_blind_proof(x.octets) = {}
          /\ x.octets \in Strings /\ Len(x.octets) >= 3
      BY <2>1, <2>3, CommitmentStringRead
    <2> QED BY <1>3, <2>4, <2>5, <2>6, ReadAsIs DEF BlindKinds, AlsoReadAs
  <1>4. CASE x.kind = "signature"
    <2>1. IsSignatureString(x)
      BY <1>1, <1>4 DEF StringOK
    <2> QED BY <1>4, <2>1, SignatureStringRead, ReadAsIs DEF BlindKinds, AlsoReadAs
  <1>5. CASE x.kind = "proof state"
    <2>1. IsProofState(x)
      BY <1>1, <1>5 DEF StringOK
    <2> QED BY <1>5, <2>1, ProofStateRead, ReadAsIs DEF BlindKinds, AlsoReadAs
  <1>6. CASE x.kind = "proof"
    <2>1. PICK s \in m : IsProofOf(x, s)
      BY <1>1, <1>6 DEF StringOK
    <2>2. FinishedOf(x.octets, x.value.answers, s) /\ s.kind = "proof state"
      BY <2>1 DEF IsProofOf, FinishedOf
    <2>3. IsProofState(s)
      BY <2>2 DEF StringsInv, StringOK
    <2> DEFINE o == x.octets
               a == x.value.answers
    <2>4. FinishedOf(o, a, s)
      BY <2>2
    <2>5. x.octets = o
      OBVIOUS
    <2> HIDE DEF o, a
    <2>6. octets_to_blind_proof(o) # {}
      BY <2>3, <2>4, FinishedRead
    <2>7. /\ octets_to_commitment_state(o) = {}
          /\ octets_to_commitment_with_proof(o) = {}
          /\ octets_to_signature(o) = {}
          /\ octets_to_proof_gen_state(o) = {}
          /\ o \in Strings /\ Len(o) >= 3
      BY <2>3, <2>4, FinishedRead
    <2> QED BY <1>6, <2>5, <2>6, <2>7, ReadAsIs DEF BlindKinds, AlsoReadAs
  <1> QED BY <1>2, <1>3, <1>4, <1>5, <1>6 DEF BlindKinds

LEMMA BlindIs ==
  ASSUME StringsInv(made), NEW x \in Blind
  PROVE  x \in made /\ x.kind \in BlindKinds
  BY DEF Blind, Of, StringsInv, StringOK, Kinds

LEMMA ReadsKept == ASSUME StringsInv(made) PROVE EachReadAsItself
  <1> SUFFICES ASSUME NEW x \in Blind, NEW kind \in BlindKinds
               PROVE  ReadAs(kind, x.octets) <=>
                         \/ kind = x.kind
                         \/ /\ {x.kind, kind} = {"commitment state", "commitment"}
                            /\ \E s \in Of("commitment state") :
                                 s.session = x.session /\ s.value.keys = <<>>
    BY DEF EachReadAsItself
  <1>1. x \in made /\ x.kind \in BlindKinds
    BY BlindIs
  <1>2. ReadAs(kind, x.octets) <=> kind = x.kind \/ AlsoReadAs(x, kind, made)
    BY <1>1, ReadsOf
  <1>3. KeylessState(x, made) <=> \E s \in Of("commitment state") :
                                    s.session = x.session /\ s.value.keys = <<>>
    BY DEF KeylessState, Of
  <1>4. {x.kind, kind} = {"commitment state", "commitment"}
          <=> \/ x.kind = "commitment state" /\ kind = "commitment"
              \/ x.kind = "commitment" /\ kind = "commitment state"
    OBVIOUS
  <1> QED BY <1>2, <1>3, <1>4 DEF AlsoReadAs

\* Whatever strings are made, and of whatever shapes, each is read as what it
\* is and as nothing else, but for the commitment of a holder without keys: no
\* call takes a string for another kind (blind.rs:481-608, 927-973, 1175-1231,
\* bbs.rs:88-120).
THEOREM StringsReadAsThemselves == Spec => []EachReadAsItself
  BY StringsAreWritten, ReadsKept, PTL

LEMMA OtherEndRefused ==
  ASSUME NEW m, StringsInv(m), NEW x \in m, x.kind \in BlindKinds,
         NEW c, OtherEnd(c, x.octets)
  PROVE  ~ReadAs(x.kind, c)
  <1>1. StringOK(x, m)
    BY DEF StringsInv
  <1>2. ReadAs(x.kind, x.octets)
    BY ReadsOf
  <1>3. CASE x.kind = "commitment state"
    <2>1. x.value \in CommitmentStates /\ x.octets = commitment_state_to_octets(x.value)
      BY <1>1, <1>3 DEF StringOK, IsStateString
    <2>2. \E a \in Nat, b \in Nat : StartsWithTwo(x.octets, a, b)
      <3> DEFINE v == x.value
                 p == Len(v.m_hat)
                 q == Len(v.keys)
                 o == x.octets
      <3>1. p \in Nat /\ q \in Nat
        BY <2>1, StateItemsFacts
      <3>2. /\ v \in CommitmentStates /\ p = Len(v.m_hat) /\ q = Len(v.keys)
            /\ o = commitment_state_to_octets(v)
        BY <2>1
      <3> HIDE DEF v, p, q, o
      <3>3. StartsWithTwo(o, p, q)
        BY <3>1, <3>2, CommitmentStateOctets
      <3>4. x.octets = o
        BY DEF o
      <3> QED BY <3>1, <3>3, <3>4
    <2> QED BY <1>2, <1>3, <2>2, CommitmentStateEnds, ReadAsIs
  <1>4. CASE x.kind = "commitment"
    <2>1. PICK s \in m : IsCommitmentOf(x, s)
      BY <1>1, <1>4 DEF StringOK
    <2> DEFINE v == s.value
               g == Signatures(x.value.answers)
    <2>2. /\ v \in CommitmentStates /\ x.value.answers \in AnswerLists
          /\ Len(x.value.answers) = Len(v.keys)
          /\ x.octets = commitment_with_proof_to_octets(v, g)
      BY <2>1 DEF IsCommitmentOf, StringsInv, StringOK, IsStateString
    <2>3. g \in SignatureLists /\ Len(g) = Len(v.keys)
      BY <2>2, SignaturesType
    <2> HIDE DEF v, g
    <2>4. \E a \in Nat, b \in Nat : StartsWithTwo(x.octets, a, b)
      <3> DEFINE p == Len(v.m_hat)
                 q == Len(v.keys)
                 o == x.octets
      <3>1. p \in Nat /\ q \in Nat
        BY <2>2, StateItemsFacts
      <3>2. p = Len(v.m_hat) /\ q = Len(v.keys) /\ o = commitment_with_proof_to_octets(v, g)
        BY <2>2
      <3> HIDE DEF p, q, o
      <3>3. StartsWithTwo(o, p, q)
        BY <2>2, <2>3, <3>1, <3>2, CommitmentOctets
      <3>4. x.octets = o
        BY DEF o
      <3> QED BY <3>1, <3>3, <3>4
    <2> QED BY <1>2, <1>4, <2>4, CommitmentEnds, ReadAsIs
  <1>5. CASE x.kind = "signature"
    BY <1>2, <1>5, SignatureEnds, ReadAsIs
  <1>6. CASE x.kind = "proof state"
    <2>1. \E l \in Nat, n \in Nat, k \in Nat : StartsWithThree(x.octets, l, n, k)
      BY <1>1, <1>6, ProofStateRead DEF StringOK
    <2> QED BY <1>2, <1>6, <2>1, ProofStateEnds, ReadAsIs
  <1>7. CASE x.kind = "proof"
    <2>1. PICK s \in m : IsProofOf(x, s)
      BY <1>1, <1>7 DEF StringOK
    <2>2. FinishedOf(x.octets, x.value.answers, s) /\ s.kind = "proof state"
      BY <2>1 DEF IsProofOf, FinishedOf
    <2>3. IsProofState(s)
      BY <2>2 DEF StringsInv, StringOK
    <2>4. \E l \in Nat, n \in Nat, k \in Nat : StartsWithThree(x.octets, l, n, k)
      BY <2>2, <2>3, FinishedRead
    <2> QED BY <1>2, <1>7, <2>4, ProofEnds, ReadAsIs
  <1> QED BY <1>3, <1>4, <1>5, <1>6, <1>7 DEF BlindKinds

\* The part of CutIsRefused that is about the strings of the blind layer.
LEMMA BlindCutRefused ==
  ASSUME StringsInv(made), NEW x \in Blind,
         NEW octets \in {SubSeq(x.octets, 1, n) : n \in 0 .. Len(x.octets) - 1}
                          \cup {x.octets \o y.octets : y \in Blind}
  PROVE  ~ReadAs(x.kind, octets)
  <1>1. x \in made /\ x.kind \in BlindKinds
    BY BlindIs
  <1>2. x.octets \in Strings /\ Len(x.octets) >= 3
    BY <1>1, ReadsOf
  <1>3. CASE octets \in {SubSeq(x.octets, 1, n) : n \in 0 .. Len(x.octets) - 1}
    <2>1. PICK n \in 0 .. Len(x.octets) - 1 : octets = SubSeq(x.octets, 1, n)
      BY <1>3
    <2>2. OtherEnd(octets, x.octets)
      BY <1>2, <2>1, CutHasOtherEnd
    <2> QED BY <1>1, <2>2, OtherEndRefused
  <1>4. CASE octets \in {x.octets \o y.octets : y \in Blind}
    <2>1. PICK y \in Blind : octets = x.octets \o y.octets
      BY <1>4
    <2>2. y \in made /\ y.kind \in BlindKinds
      BY BlindIs
    <2>3. y.octets \in Strings /\ Len(y.octets) >= 3 /\ Len(y.octets) \in Nat
      BY <2>2, ReadsOf, LenProperties DEF Strings
    <2>4. Len(y.octets) >= 1
      BY <2>3
    <2>5. OtherEnd(octets, x.octets)
      BY <1>2, <2>1, <2>3, <2>4, JoinedHasOtherEnd
    <2> QED BY <1>1, <2>5, OtherEndRefused
  <1> QED BY <1>3, <1>4

\* The counts of a proof are those of its state, and its length the number of
\* messages it hides.
LEMMA FinishedCounted ==
  ASSUME NEW o, NEW answers, NEW s, IsProofState(s), FinishedOf(o, answers, s)
  PROVE  message_count(o, s.disclosed) = {s.messages}
  <1> DEFINE b == BbsUnits(s.value.bbs_proof)
             n == Len(s.value.commitments)
             k == Len(s.value.keys)
             l == 8 * b
             d == s.disclosed
             t == s.messages
             q == Len(s.value.bbs_proof.scalars)
  <1>1. read_u64(o, 1) = {l} /\ read_u64(o, 3) = {k}
    BY FinishedRead DEF StartsWithThree
  <1>2. /\ k \in Nat /\ t \in Nat /\ d \in 0 .. t /\ q = 5 + (t - d) + k
    BY ProofStateItems DEF IsProofState
  <1>3. b = 18 + 4 * q
    BY DEF BbsUnits
  <1> HIDE DEF b, n, k, d, t, q
  <1>4. l >= ProofFloor /\ (l - ProofFloor) = 32 * (t - d + 1 + k)
    BY <1>2, <1>3 DEF ProofFloor
  <1> DEFINE w == t - d + 1 + k
  <1>5. w \in Nat /\ t = w + d - (1 + k) /\ 1 + k <= w + d
    BY <1>2
  <1>6. l - ProofFloor = 32 * w
    BY <1>4
  <1> HIDE DEF w, l
  <1>7. (l - ProofFloor) % 32 = 0 /\ (l - ProofFloor) \div 32 = w
    BY <1>5, <1>6
  <1> HIDE DEF ProofFloor
  <1>8. {x \in read_u64(o, 1) : x >= ProofFloor /\ (x - ProofFloor) % 32 = 0} = {l}
    BY <1>1, <1>4, <1>7
  <1>9. message_count(o, d) =
          LET proof_msgs_no == (l - ProofFloor) \div 32 + d
          IN  {proof_msgs_no - (1 + x) : x \in {y \in read_u64(o, 3) : 1 + y <= proof_msgs_no}}
    <2> DEFINE F(len) == LET proof_msgs_no == (len - ProofFloor) \div 32 + d
                         IN  {proof_msgs_no - (1 + x) :
                                x \in {y \in read_u64(o, 3) : 1 + y <= proof_msgs_no}}
    <2>1. message_count(o, d) = UNION {F(len) : len \in {x \in read_u64(o, 1) :
                                     x >= ProofFloor /\ (x - ProofFloor) % 32 = 0}}
      BY DEF message_count
    <2>2. message_count(o, d) = F(l)
      <3> HIDE DEF F
      <3> QED BY <1>8, <2>1
    <2> QED BY <2>2
  <1>10. {y \in read_u64(o, 3) : 1 + y <= w + d} = {k}
    BY <1>1, <1>5
  <1>11. message_count(o, d) = {(w + d) - (1 + k)}
    BY <1>7, <1>9, <1>10
  <1>12. (w + d) - (1 + k) = t
    BY <1>2, <1>5
  <1> QED BY <1>11, <1>12 DEF t, d

-----------------------------------------------------------------------------
(* What was finished is what one init made.                                *)

LEMMA ProofOfState ==
  ASSUME NEW p, NEW o, NEW s, IsProofState(s), s.session = p.session,
         FinishedOf(o, p.value.answers, s)
  PROVE  ProofOf(p, o, s)
  <1> DEFINE a == p.value.answers
             g == AdaptedSignatures(a, s.value.r_key)
  <1>1. FinishedOf(o, a, s)
    OBVIOUS
  <1>2. g = [i \in DOMAIN a |->
               LET r == a[i]
               IN  serialize(<<Adapted(Response(r), s.value.r_key[i]), Hash(r)>>)]
    BY Zenon DEF AdaptedSignatures
  <1>3. Len(a) = Len(s.value.keys)
    BY <1>1 DEF FinishedOf
  <1> HIDE DEF a
  <1>4. octets_to_blind_proof(o) = {BlindProof(s.value, g)}
    BY <1>1, FinishedRead
  <1> HIDE DEF g
  <1>5. octets_to_blind_proof(o) =
          {[bbs_proof |-> s.value.bbs_proof, commitments |-> s.value.commitments,
            s_hat |-> s.value.s_hat, keys |-> s.value.keys, signatures |-> g]}
    BY <1>4 DEF BlindProof
  <1> QED BY <1>2, <1>3, <1>5, Zenon DEF ProofOf, a

LEMMA CarryIsOne ==
  ASSUME StringsInv(made), NEW p \in made, p.kind = "presentation"
  PROVE  \E c \in made, s \in made :
           /\ IsPresentedOf(p, c, s) /\ c.kind = "carry" /\ c.session = s.session
           /\ s.kind = "proof state" /\ IsProofState(s) /\ s.session = p.session
           /\ PresentedOfCarry(c, s.session, p.value.answers) \in PresentedJwps
           /\ presented_decode(p.octets)
                = {PresentedOfCarry(c, s.session, p.value.answers)}
  <1>1. PICK c \in made, s \in made : IsPresentedOf(p, c, s)
    BY DEF StringsInv, StringOK
  <1>2. /\ c.kind = "carry" /\ c.session = p.session /\ s.session = c.session
        /\ s.kind = "proof state" /\ IsProofState(s)
    BY <1>1 DEF IsPresentedOf, IsCarryOf, StringsInv, StringOK
  <1> DEFINE j == PresentedOfCarry(c, s.session, p.value.answers)
  <1>3. j \in PresentedJwps
    BY <1>1 DEF IsPresentedOf, IsCarryOf, PresentedOfCarry, PresentedJwps
  <1>4. p.octets = presented_encode(j)
    BY <1>1 DEF IsPresentedOf
  <1> HIDE DEF j
  <1>5. presented_decode(p.octets) = {j}
    BY <1>3, <1>4, PresentedReadBack
  <1> QED BY <1>1, <1>2, <1>3, <1>5 DEF j

LEMMA FinishedKept == ASSUME StringsInv(made) PROVE FinishedIsOneInit
  <1>1. ASSUME NEW p \in Of("commitment")
        PROVE  \E s \in Of("commitment state") :
                 /\ s.session = p.session
                 /\ Len(p.value.answers) = Len(s.value.keys)
                 /\ octets_to_commitment_with_proof(p.octets) =
                      {[c |-> s.value.c, keys |-> s.value.keys, s_hat |-> s.value.s_hat,
                        m_hat |-> s.value.m_hat, challenge |-> s.value.challenge,
                        signatures |-> Signatures(p.value.answers)]}
    <2>1. PICK s \in made : IsCommitmentOf(p, s)
      BY DEF Of, StringsInv, StringOK
    <2>2. /\ s \in Of("commitment state") /\ s.session = p.session
          /\ Len(p.value.answers) = Len(s.value.keys)
      BY <2>1 DEF IsCommitmentOf, Of
    <2>3. IsStateString(s)
      BY <2>2 DEF Of, StringsInv, StringOK
    <2>4. octets_to_commitment_with_proof(p.octets)
            = {CommitmentOf(s.value, Signatures(p.value.answers))}
      BY <2>1, <2>3, CommitmentStringRead
    <2> QED BY <2>2, <2>4, Zenon DEF CommitmentOf
  <1>2. ASSUME NEW p \in Of("proof")
        PROVE  \E s \in Of("proof state") : ProofOf(p, p.octets, s)
    <2>1. PICK s \in made : IsProofOf(p, s)
      BY DEF Of, StringsInv, StringOK
    <2>2. s \in Of("proof state") /\ IsProofState(s)
      BY <2>1 DEF IsProofOf, FinishedOf, Of, StringsInv, StringOK
    <2> QED BY <2>1, <2>2, ProofOfState DEF IsProofOf
  <1>3. ASSUME NEW p \in Of("presentation")
        PROVE  \E s \in Of("proof state"), c \in Of("carry") :
                 /\ ProofOf(p, p.value.proof, s)
                 /\ c.session = s.session
                 /\ presented_decode(p.octets) =
                      {[presentation_header |-> c.value.presentation_header,
                        issuer_header |-> c.value.issuer_header,
                        payloads |-> c.value.payloads,
                        proof |-> ProofNumber(s.session, p.value.answers)]}
    <2>1. p \in made /\ p.kind = "presentation"
      BY DEF Of
    <2>2. PICK c \in made, s \in made :
           /\ IsPresentedOf(p, c, s) /\ c.kind = "carry" /\ c.session = s.session
           /\ s.kind = "proof state" /\ IsProofState(s) /\ s.session = p.session
           /\ PresentedOfCarry(c, s.session, p.value.answers) \in PresentedJwps
           /\ presented_decode(p.octets)
                = {PresentedOfCarry(c, s.session, p.value.answers)}
      BY <2>1, CarryIsOne
    <2>3. c \in Of("carry") /\ s \in Of("proof state")
      BY <2>2 DEF Of
    <2>4. ProofOf(p, p.value.proof, s)
      BY <2>2, ProofOfState DEF IsPresentedOf
    <2> QED BY <2>2, <2>3, <2>4, Zenon DEF PresentedOfCarry
  <1> QED BY <1>1, <1>2, <1>3, Zenon DEF FinishedIsOneInit

\* Whatever strings are handed to a finalize, and whatever was made before, what
\* it makes is what one init made, field for field, with the answers of this
\* call, each adapted with the randomizer of its place (blind.rs:193-210,
\* 805-826, flow.rs:247-259).
THEOREM FinishedStringsAreOneInits == Spec => []FinishedIsOneInit
  BY StringsAreWritten, FinishedKept, PTL

-----------------------------------------------------------------------------
(* The number of messages.                                                 *)

LEMMA CountsKept == ASSUME StringsInv(made) PROVE MessagesCounted
  <1>1. ASSUME NEW p \in Of("proof")
        PROVE  \E s \in Of("proof state") :
                 s.session = p.session /\ message_count(p.octets, s.disclosed) = {s.messages}
    <2>1. PICK s \in made : IsProofOf(p, s)
      BY DEF Of, StringsInv, StringOK
    <2>2. s \in Of("proof state") /\ IsProofState(s) /\ s.session = p.session
          /\ FinishedOf(p.octets, p.value.answers, s)
      BY <2>1 DEF IsProofOf, FinishedOf, Of, StringsInv, StringOK
    <2>3. message_count(p.octets, s.disclosed) = {s.messages}
      BY <2>2, FinishedCounted
    <2> QED BY <2>2, <2>3
  <1>2. ASSUME NEW p \in Of("presentation"), NEW presented \in presented_decode(p.octets)
        PROVE  message_count(p.value.proof, Cardinality(Shown(presented.payloads)))
                 = {Len(presented.payloads)}
    <2>1. p \in made /\ p.kind = "presentation"
      BY DEF Of
    <2>2. PICK c \in made, s \in made :
           /\ IsPresentedOf(p, c, s) /\ c.kind = "carry" /\ c.session = s.session
           /\ s.kind = "proof state" /\ IsProofState(s) /\ s.session = p.session
           /\ PresentedOfCarry(c, s.session, p.value.answers) \in PresentedJwps
           /\ presented_decode(p.octets)
                = {PresentedOfCarry(c, s.session, p.value.answers)}
      BY <2>1, CarryIsOne
    <2>3. presented.payloads = c.value.payloads
      <3>1. presented = PresentedOfCarry(c, s.session, p.value.answers)
        BY <2>2
      <3> QED BY <3>1 DEF PresentedOfCarry
    <2>4. /\ s.messages = Len(c.value.payloads)
          /\ s.disclosed = Cardinality(Shown(c.value.payloads))
          /\ FinishedOf(p.value.proof, p.value.answers, s)
      BY <2>2 DEF IsPresentedOf, IsCarryOf
    <2>5. message_count(p.value.proof, s.disclosed) = {s.messages}
      BY <2>2, <2>4, FinishedCounted
    <2> QED BY <2>3, <2>4, <2>5
  <1> QED BY <1>1, <1>2, Zenon DEF MessagesCounted, Shown

\* However many messages a credential has, and whichever are hidden, committed
\* or disclosed: the number a relying party takes from the length of the proof
\* is the number the holder had, and in a presentation that of its slots
\* (blind.rs:1003-1027, flow.rs:227-239).
THEOREM MessagesAreCounted == Spec => []MessagesCounted
  BY StringsAreWritten, CountsKept, PTL

-----------------------------------------------------------------------------
(* Strings that are cut, and texts.                                        *)

LEMMA CarryFound ==
  ASSUME StringsInv(made), NEW x \in Of("carry")
  PROVE  /\ x.value \in Carries /\ x.octets = carry_encode(x.value)
         /\ x.octets \in Octets /\ Len(x.octets) \in Nat /\ Len(x.octets) >= 1
  <1>1. PICK s \in made : IsCarryOf(x, s)
    BY DEF Of, StringsInv, StringOK
  <1>2. x.value \in Carries /\ x.octets = carry_encode(x.value)
    BY <1>1 DEF IsCarryOf
  <1> DEFINE c == x.value
             h == Heads(c)
             u == u32(Len(c.payloads))
             b == Body(c.payloads)
  <1>3. h \in Octets /\ u \in Octets /\ b \in Octets /\ Len(c.payloads) \in Nat
    BY <1>2, CarryFields
  <1>4. x.octets = Join(Join(h, u), b)
    BY <1>2, CarryOctets DEF Start
  <1>5. Len(u) = 4
    BY <1>3, NumberOfLength
  <1> HIDE DEF h, u, b
  <1>6. Join(h, u) \in Octets /\ Len(Join(h, u)) = Len(h) + Len(u) /\ Len(h) \in Nat
    BY <1>3, OctetsJoined
  <1>7. /\ Join(Join(h, u), b) \in Octets
        /\ Len(Join(Join(h, u), b)) = Len(Join(h, u)) + Len(b) /\ Len(b) \in Nat
    BY <1>3, <1>6, OctetsJoined
  <1> QED BY <1>2, <1>4, <1>5, <1>6, <1>7

LEMMA JoinedCommon ==
  ASSUME NEW a \in Octets, NEW b \in Octets, Len(b) >= 1
  PROVE  Common(Join(a, b), a) /\ Len(Join(a, b)) # Len(a)
  <1> DEFINE j == Join(a, b)
  <1>1. /\ j \in Octets /\ Len(j) = Len(a) + Len(b) /\ Len(a) \in Nat /\ Len(b) \in Nat
        /\ \A i \in 1 .. Len(a) : j[i] = a[i]
    BY OctetsJoined, OctetsHalves
  <1> HIDE DEF j
  <1>2. \A i \in 1 .. Len(j) : i <= Len(a) => j[i] = a[i]
    BY <1>1
  <1>3. Len(j) # Len(a)
    BY <1>1
  <1> QED BY <1>1, <1>2, <1>3 DEF Common, j

LEMMA CarryCutRefused ==
  ASSUME StringsInv(made), NEW x \in Of("carry"),
         NEW octets \in {SubSeq(x.octets, 1, n) : n \in 0 .. Len(x.octets) - 1}
                          \cup {x.octets \o y.octets : y \in Of("carry")}
  PROVE  carry_decode(octets) = {}
  <1> DEFINE full == x.octets
  <1>1. /\ x.value \in Carries /\ full = carry_encode(x.value)
        /\ full \in Octets /\ Len(full) \in Nat
    BY CarryFound
  <1>2. Common(octets, full) /\ Len(octets) # Len(full)
    <2>1. CASE octets \in {SubSeq(x.octets, 1, n) : n \in 0 .. Len(x.octets) - 1}
      <3>1. PICK n \in 0 .. Len(full) - 1 : octets = SubSeq(full, 1, n)
        BY <2>1
      <3>2. n \in 0 .. Len(full) /\ n \in Nat /\ n # Len(full)
        BY <1>1
      <3>3. octets \in Octets /\ Len(octets) = n /\ \A i \in 1 .. n : octets[i] = full[i]
        BY <1>1, <3>1, <3>2, PrefixType DEF Octets
      <3> QED BY <1>1, <3>2, <3>3 DEF Common
    <2>2. CASE octets \in {x.octets \o y.octets : y \in Of("carry")}
      <3>1. PICK y \in Of("carry") : octets = Join(full, y.octets)
        BY <2>2 DEF Join
      <3>2. y.octets \in Octets /\ Len(y.octets) \in Nat /\ Len(y.octets) >= 1
        BY CarryFound
      <3> HIDE DEF full
      <3> QED BY <1>1, <3>1, <3>2, JoinedCommon
    <2> QED BY <2>1, <2>2
  <1> HIDE DEF full
  <1>3. Common(octets, carry_encode(x.value)) /\ Len(octets) # Len(carry_encode(x.value))
    BY <1>1, <1>2
  <1> QED BY <1>1, <1>3, CarryEnds

LEMMA CutsKept == ASSUME StringsInv(made) PROVE CutIsRefused
  <1>1. \A x \in Blind : x.kind # "carry"
    BY BlindIs DEF BlindKinds
  <1>2. \A x \in Of("carry") : x.kind = "carry"
    BY DEF Of
  <1>3. ASSUME NEW x \in Blind,
               NEW octets \in {SubSeq(x.octets, 1, n) : n \in 0 .. Len(x.octets) - 1}
                                \cup {x.octets \o y.octets : y \in Blind}
        PROVE  ~ReadAs(x.kind, octets)
    BY BlindCutRefused
  <1>4. ASSUME NEW x \in Of("carry"),
               NEW octets \in {SubSeq(x.octets, 1, n) : n \in 0 .. Len(x.octets) - 1}
                                \cup {x.octets \o y.octets : y \in Of("carry")}
        PROVE  carry_decode(octets) = {}
    BY CarryCutRefused
  <1> QED BY <1>1, <1>2, <1>3, <1>4, Zenon DEF CutIsRefused

\* No string that is cut, and no two in one, are taken for one that was made:
\* by the counts it starts with each says where it ends (blind.rs:491-500,
\* 562-574, 937-946, 1188-1197, flow.rs:374-404).
THEOREM CutsAreRefused == Spec => []CutIsRefused
  BY StringsAreWritten, CutsKept, PTL

\* What is issued or presented is the text of a credential or a presentation.
LEMMA IssuedIsText ==
  ASSUME StringsInv(made), NEW x \in Of("issued")
  PROVE  /\ x.kind = "issued" /\ x.value.jwp \in IssuedJwps
         /\ x.octets = issued_encode(x.value.jwp)
         /\ IsText(x.octets)
  BY DEF Of, StringsInv, StringOK, IsIssued, IsText

LEMMA PresentedIsText ==
  ASSUME StringsInv(made), NEW x \in Of("presentation")
  PROVE  /\ x.kind = "presentation"
         /\ \E j \in PresentedJwps : x.octets = presented_encode(j)
         /\ IsText(x.octets)
  <1>1. x \in made /\ x.kind = "presentation"
    BY DEF Of
  <1>2. PICK c \in made, s \in made : IsPresentedOf(x, c, s)
    BY <1>1 DEF StringsInv, StringOK
  <1>3. \E j \in PresentedJwps : x.octets = presented_encode(j)
    <2> DEFINE j == PresentedOfCarry(c, s.session, x.value.answers)
    <2>1. j \in PresentedJwps
      BY <1>2 DEF IsPresentedOf, IsCarryOf, PresentedOfCarry, PresentedJwps
    <2>2. x.octets = presented_encode(j)
      BY <1>2 DEF IsPresentedOf
    <2> HIDE DEF j
    <2> QED BY <2>1, <2>2
  <1> QED BY <1>1, <1>3 DEF IsText

LEMMA TextIsOctets ==
  ASSUME NEW text, IsText(text)
  PROVE  text \in Octets /\ Len(text) \in Nat
  <1>1. PICK front, last : IsContainer(text, front, last) /\ Len(front) >= 2
    BY TextParts
  <1>2. text \in Octets
    BY <1>1, ContainerParts
  <1> QED BY <1>2, OctetsJoined

\* A text cut short and what is missing.
IsCutOf(cut, text) ==
  \E rest \in Octets : cut \in Octets /\ rest # <<>> /\ text = Join(cut, rest)

LEMMA TextHalves ==
  ASSUME NEW text \in Octets, NEW n \in 0 .. Len(text) - 1, NEW cut, cut = SubSeq(text, 1, n)
  PROVE  IsCutOf(cut, text)
  <1> DEFINE l == Len(text)
             r == SubSeq(text, n + 1, l)
  <1>1. l \in Nat
    BY OctetsEmpty, OctetsJoined
  <1>2. n \in Nat /\ n \in 0 .. l /\ n < l /\ l \in 0 .. l
    BY <1>1
  <1>3. /\ cut \in Octets /\ Len(cut) = n /\ \A i \in 1 .. n : cut[i] = text[i]
    BY <1>2, PrefixType DEF Octets
  <1>4. /\ r \in Octets /\ Len(r) = l - n /\ \A i \in 1 .. l - n : r[i] = text[n + i]
    <2>1. text \in Seq(Int) /\ n + 1 \in 1 .. l + 1 /\ l \in n .. l
      BY <1>2 DEF Octets
    <2>2. r \in Seq(Int) /\ Len(r) = IF n + 1 <= l THEN l - (n + 1) + 1 ELSE 0
      BY <2>1, <1>2, SubSeqProperties
    <2>3. \A i \in 1 .. l - (n + 1) + 1 : r[i] = text[(n + 1) + i - 1]
      BY <2>1, <1>2, SubSeqProperties
    <2> HIDE DEF r, l
    <2>4. n + 1 <= l /\ l - (n + 1) + 1 = l - n
      BY <1>2
    <2>5. \A i \in 1 .. l - n : i \in 1 .. l - (n + 1) + 1 /\ (n + 1) + i - 1 = n + i
      BY <1>2
    <2>6. \A i \in 1 .. l - n : r[i] = text[n + i]
      BY <2>3, <2>5
    <2> QED BY <2>2, <2>4, <2>6 DEF Octets
  <1> HIDE DEF r
  <1>5. Join(cut, r) \in Octets /\ Len(Join(cut, r)) = l
    <2>1. cut \in Octets /\ r \in Octets
      BY <1>3, <1>4
    <2>2. Join(cut, r) \in Octets /\ Len(Join(cut, r)) = Len(cut) + Len(r)
      BY ONLY <2>1, OctetsJoined
    <2>3. Len(cut) + Len(r) = l
      BY <1>2, <1>3, <1>4
    <2> QED BY <2>2, <2>3
  <1>6. \A i \in 1 .. l : Join(cut, r)[i] = text[i]
    <2> SUFFICES ASSUME NEW i \in 1 .. l PROVE Join(cut, r)[i] = text[i]
      OBVIOUS
    <2>0. /\ \A k \in 1 .. Len(cut) : Join(cut, r)[k] = cut[k]
          /\ \A k \in 1 .. Len(r) : Join(cut, r)[Len(cut) + k] = r[k]
      <3>1. cut \in Octets /\ r \in Octets
        BY <1>3, <1>4
      <3> QED BY ONLY <3>1, OctetsHalves
    <2>1. CASE i <= n
      <3>1. i \in 1 .. n
        BY <1>1, <2>1
      <3> QED BY <1>3, <2>0, <3>1
    <2>2. CASE i > n
      <3> DEFINE k == i - n
      <3>1. k \in 1 .. l - n /\ i = n + k
        BY <1>2, <2>2
      <3> HIDE DEF k
      <3>2. Join(cut, r)[n + k] = r[k]
        BY <1>3, <1>4, <2>0, <3>1
      <3> QED BY <1>4, <3>1, <3>2
    <2> QED BY <1>2, <2>1, <2>2
  <1>7. text = Join(cut, r)
    BY <1>5, <1>6, OctetsEqual
  <1>8. r # <<>>
    <2>1. Len(<<>>) = 0 /\ l - n # 0
      BY <1>2
    <2> QED BY <1>4, <2>1
  <1> QED BY <1>3, <1>4, <1>7, <1>8 DEF IsCutOf

LEMMA TextsKept == ASSUME StringsInv(made) PROVE TextReadAsItself
  <1>1. ASSUME NEW x \in Of("issued")
        PROVE  issued_decode(x.octets) = {x.value.jwp} /\ presented_decode(x.octets) = {}
    BY IssuedIsText, IssuedReadBack, NeitherForTheOther
  <1>2. ASSUME NEW x \in Of("presentation")
        PROVE  issued_decode(x.octets) = {}
    BY PresentedIsText, NeitherForTheOther
  <1>3. ASSUME NEW x \in Of("issued") \cup Of("presentation"),
               NEW y \in Of("issued") \cup Of("presentation")
        PROVE  /\ issued_decode(x.octets \o y.octets) = {}
               /\ presented_decode(x.octets \o y.octets) = {}
    <2>1. IsText(x.octets) /\ IsText(y.octets)
      BY IssuedIsText, PresentedIsText
    <2>2. issued_decode(Join(x.octets, y.octets)) = {} /\ presented_decode(Join(x.octets, y.octets)) = {}
      BY <2>1, TwoTextsRefused
    <2> QED BY <2>2 DEF Join
  <1>4. ASSUME NEW x \in Of("issued"), NEW n \in 0 .. Len(x.octets) - 1,
               NEW cut \in issued_decode(SubSeq(x.octets, 1, n)),
               NEW whole \in issued_decode(x.octets)
        PROVE  /\ IsStrictPrefix(cut.signature, whole.signature)
               /\ whole = [cut EXCEPT !.signature = whole.signature]
    <2> DEFINE c == SubSeq(x.octets, 1, n)
    <2>1. whole = x.value.jwp /\ whole \in IssuedJwps /\ x.octets = issued_encode(whole)
      BY <1>1, IssuedIsText
    <2>2. PICK rest \in Octets : c \in Octets /\ rest # <<>> /\ x.octets = Join(c, rest)
      <3>1. x.octets \in Octets
        BY IssuedIsText, TextIsOctets
      <3>2. IsCutOf(c, x.octets)
        BY <3>1, TextHalves
      <3> HIDE DEF c
      <3> QED BY <3>2 DEF IsCutOf
    <2> HIDE DEF c
    <2>3. cut \in issued_decode(c) /\ issued_encode(whole) = Join(c, rest)
      BY <2>1, <2>2 DEF c
    <2> QED BY <2>1, <2>2, <2>3, IssuedCut
  <1>5. ASSUME NEW x \in Of("presentation"), NEW n \in 0 .. Len(x.octets) - 1,
               NEW cut \in presented_decode(SubSeq(x.octets, 1, n)),
               NEW whole \in presented_decode(x.octets)
        PROVE  /\ IsStrictPrefix(cut.proof, whole.proof)
               /\ whole = [cut EXCEPT !.proof = whole.proof]
    <2> DEFINE c == SubSeq(x.octets, 1, n)
    <2>1. PICK j \in PresentedJwps : x.octets = presented_encode(j)
      BY PresentedIsText
    <2>2. whole = j
      BY <2>1, PresentedReadBack
    <2>3. PICK rest \in Octets : c \in Octets /\ rest # <<>> /\ x.octets = Join(c, rest)
      <3>1. x.octets \in Octets
        BY PresentedIsText, TextIsOctets
      <3>2. IsCutOf(c, x.octets)
        BY <3>1, TextHalves
      <3> HIDE DEF c
      <3> QED BY <3>2 DEF IsCutOf
    <2> HIDE DEF c
    <2>4. cut \in presented_decode(c) /\ presented_encode(whole) = Join(c, rest)
      BY <2>1, <2>2, <2>3 DEF c
    <2> QED BY <2>2, <2>3, <2>4, PresentedCut
  <1>6. /\ \A x \in Of("issued") : x.kind = "issued"
        /\ \A x \in Of("presentation") : x.kind # "issued"
    BY DEF Of
  <1>7. ASSUME NEW x \in Of("issued") \cup Of("presentation"),
               NEW n \in 0 .. Len(x.octets) - 1
        PROVE  LET Read(text) == IF x.kind = "issued" THEN issued_decode(text)
                                 ELSE presented_decode(text)
                   end == IF x.kind = "issued" THEN "signature" ELSE "proof"
               IN  \A cut \in Read(SubSeq(x.octets, 1, n)) :
                   \A whole \in Read(x.octets) :
                     /\ IsStrictPrefix(cut[end], whole[end])
                     /\ whole = [cut EXCEPT ![end] = whole[end]]
    <2>1. CASE x \in Of("issued")
      <3>1. x.kind = "issued"
        BY <1>6, <2>1
      <3>2. ASSUME NEW cut \in issued_decode(SubSeq(x.octets, 1, n)),
                   NEW whole \in issued_decode(x.octets)
            PROVE  /\ IsStrictPrefix(cut["signature"], whole["signature"])
                   /\ whole = [cut EXCEPT !["signature"] = whole["signature"]]
        BY <1>4, <2>1, SMTT(30)
      <3> QED BY <3>1, <3>2, Zenon
    <2>2. CASE x \in Of("presentation")
      <3>1. x.kind # "issued"
        BY <1>6, <2>2
      <3>2. ASSUME NEW cut \in presented_decode(SubSeq(x.octets, 1, n)),
                   NEW whole \in presented_decode(x.octets)
            PROVE  /\ IsStrictPrefix(cut["proof"], whole["proof"])
                   /\ whole = [cut EXCEPT !["proof"] = whole["proof"]]
        BY <1>5, <2>2, SMTT(30)
      <3> QED BY <3>1, <3>2, Zenon
    <2> QED BY <2>1, <2>2
  <1> QED BY <1>1, <1>2, <1>3, <1>7, Zenon DEF TextReadAsItself

\* Whatever is issued and presented: each text is read back as it was put in and
\* never as the other kind, two in one are refused, and of one cut short at most
\* the end of the signature or proof is missing (jwp.rs:463-537, 572-612).
THEOREM TextsReadAsThemselves == Spec => []TextReadAsItself
  BY StringsAreWritten, TextsKept, PTL
=============================================================================
