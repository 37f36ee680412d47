------------------------------ MODULE JwpProofs ------------------------------
(***************************************************************************)
(* Proofs about Jwp, for all claims documents: sorting, escaping and        *)
(* splitting of pointers, how pointers are placed in a map, and what a      *)
(* header says when it parses.                                             *)
(***************************************************************************)
EXTENDS Jwp, SeqLemmas, FiniteSetTheorems

-----------------------------------------------------------------------------
(* Sorting.  The order is a set of pairs R; S is enumerated along it.       *)

TotalOn(R, S) ==
  /\ \A a, b \in S : <<a, b>> \in R \/ <<b, a>> \in R
  /\ \A a, b, c \in S : <<a, b>> \in R /\ <<b, c>> \in R => <<a, c>> \in R

Along(s, R) == \A i, j \in DOMAIN s : i < j => <<s[i], s[j]>> \in R

LEMMA Enumerated ==
  ASSUME NEW S, IsFiniteSet(S), NEW s \in SetToSeqs(S)
  PROVE  /\ s \in Seq(S) /\ Len(s) = Cardinality(S) /\ Len(s) \in Nat
         /\ DOMAIN s = 1 .. Len(s)
         /\ \A i, j \in 1 .. Len(s) : s[i] = s[j] => i = j
         /\ \A x \in S : \E i \in 1 .. Len(s) : s[i] = x
         /\ ToSet(s) = S
  <1> DEFINE n == Cardinality(S)
             D == 1 .. n
  <1>1. n \in Nat
    BY FS_CardinalityType
  <1>2. s \in [D -> S] /\ \A i, j \in D : i # j => s[i] # s[j]
    BY DEF SetToSeqs
  <1>3. s \in Seq(S) /\ Len(s) = n /\ DOMAIN s = D
    BY <1>1, <1>2
  <1>4. s \in Injection(D, S)
    BY <1>2 DEF Injection, IsInjective
  <1>5. Cardinality(D) = n /\ IsFiniteSet(D)
    BY <1>1, FS_Interval
  <1>6. s \in Surjection(D, S)
    BY <1>4, <1>5, FS_Injection
  <1>7. \A x \in S : \E i \in D : s[i] = x
    BY <1>6 DEF Surjection
  <1>8. ToSet(s) = S
    BY <1>2, <1>3, <1>7 DEF ToSet
  <1> QED BY <1>1, <1>2, <1>3, <1>7, <1>8

LEMMA LargestExists ==
  ASSUME NEW S, IsFiniteSet(S), S # {}, NEW R, TotalOn(R, S)
  PROVE  \E m \in S : \A x \in S : <<x, m>> \in R
  <1> DEFINE N == {n \in Nat : \A T \in SUBSET S : Cardinality(T) = n + 1 =>
                                 \E m \in T : \A x \in T : <<x, m>> \in R}
  <1>1. 0 \in N
    <2> SUFFICES ASSUME NEW T \in SUBSET S, Cardinality(T) = 0 + 1
                 PROVE  \E m \in T : \A x \in T : <<x, m>> \in R
      OBVIOUS
    <2>1. IsFiniteSet(T) /\ Cardinality(T) = 1
      BY FS_Subset
    <2>2. PICK m : T = {m}
      BY <2>1, FS_Singleton
    <2>3. m \in S /\ <<m, m>> \in R
      BY <2>2 DEF TotalOn
    <2> QED BY <2>2, <2>3
  <1>2. ASSUME NEW n \in Nat, n \in N PROVE n + 1 \in N
    <2> SUFFICES ASSUME NEW T \in SUBSET S, Cardinality(T) = (n + 1) + 1
                 PROVE  \E m \in T : \A x \in T : <<x, m>> \in R
      OBVIOUS
    <2>1. IsFiniteSet(T) /\ T # {}
      BY FS_Subset, FS_EmptySet
    <2>2. PICK y : y \in T
      BY <2>1
    <2> DEFINE U == T \ {y}
    <2>3. Cardinality(U) = n + 1 /\ U \in SUBSET S
      <3>1. Cardinality(U) = Cardinality(T) - 1
        BY <2>1, <2>2, FS_RemoveElement
      <3>2. ((n + 1) + 1) - 1 = n + 1
        OBVIOUS
      <3> QED BY <3>1, <3>2
    <2>4. PICK m \in U : \A x \in U : <<x, m>> \in R
      BY <1>2, <2>3
    <2>5. CASE <<y, m>> \in R
      <3>1. m \in T /\ \A x \in T : <<x, m>> \in R
        BY <2>4, <2>5
      <3> QED BY <3>1
    <2>6. CASE <<y, m>> \notin R
      <3>1. <<m, y>> \in R /\ <<y, y>> \in R
        BY <2>2, <2>4, <2>6 DEF TotalOn
      <3>2. \A x \in U : <<x, y>> \in R
        BY <2>2, <2>4, <3>1 DEF TotalOn
      <3> QED BY <2>2, <3>1, <3>2
    <2> QED BY <2>5, <2>6
  <1>3. Nat \subseteq N
    <2> HIDE DEF N
    <2> QED BY <1>1, <1>2, NumberInduction
  <1>4. Cardinality(S) \in Nat /\ Cardinality(S) # 0
    BY FS_CardinalityType, FS_EmptySet
  <1>5. Cardinality(S) - 1 \in N /\ Cardinality(S) = (Cardinality(S) - 1) + 1
    BY <1>3, <1>4
  <1> QED BY <1>5

LEMMA AlongExists ==
  ASSUME NEW S, IsFiniteSet(S), NEW R, TotalOn(R, S)
  PROVE  \E s \in SetToSeqs(S) : Along(s, R)
  <1> DEFINE N == {n \in Nat : \A T \in SUBSET S : Cardinality(T) = n =>
                                 \E s \in SetToSeqs(T) : Along(s, R)}
  <1>1. 0 \in N
    <2> SUFFICES ASSUME NEW T \in SUBSET S, Cardinality(T) = 0
                 PROVE  \E s \in SetToSeqs(T) : Along(s, R)
      OBVIOUS
    <2>1. T = {}
      BY FS_Subset, FS_EmptySet
    <2> DEFINE s == [i \in 1 .. 0 |-> i]
    <2>2. s \in SetToSeqs(T) /\ Along(s, R)
      BY <2>1, FS_EmptySet DEF SetToSeqs, Along
    <2> QED BY <2>2
  <1>2. ASSUME NEW n \in Nat, n \in N PROVE n + 1 \in N
    <2> SUFFICES ASSUME NEW T \in SUBSET S, Cardinality(T) = n + 1
                 PROVE  \E s \in SetToSeqs(T) : Along(s, R)
      OBVIOUS
    <2>1. IsFiniteSet(T) /\ T # {} /\ TotalOn(R, T)
      BY FS_Subset, FS_EmptySet DEF TotalOn
    <2>2. PICK m \in T : \A x \in T : <<x, m>> \in R
      BY <2>1, LargestExists
    <2> DEFINE U == T \ {m}
    <2>3. Cardinality(U) = n /\ U \in SUBSET S /\ IsFiniteSet(U)
      BY <2>1, <2>2, FS_RemoveElement
    <2>4. PICK s \in SetToSeqs(U) : Along(s, R)
      BY <1>2, <2>3
    <2>5. /\ Len(s) = n /\ DOMAIN s = 1 .. n
          /\ \A i, j \in 1 .. n : s[i] = s[j] => i = j
          /\ \A i \in 1 .. n : s[i] \in U
      <3>1. s \in Seq(U)
        BY <2>3, Enumerated
      <3> QED BY <2>3, <3>1, Enumerated, ElementOfSeq
    <2> DEFINE t == [i \in 1 .. n + 1 |-> IF i = n + 1 THEN m ELSE s[i]]
    <2>6. \A i \in 1 .. n + 1 : i = n + 1 \/ i \in 1 .. n
      OBVIOUS
    <2>7. t \in [1 .. n + 1 -> T] /\ \A i, j \in 1 .. n + 1 : i # j => t[i] # t[j]
      <3> HIDE DEF U
      <3>1. \A x \in U : x \in T /\ x # m
        BY DEF U
      <3>2. ASSUME NEW i \in 1 .. n + 1, NEW j \in 1 .. n + 1, t[i] = t[j] PROVE i = j
        BY <2>5, <2>6, <3>1, <3>2
      <3> QED BY <2>5, <2>6, <3>1, <3>2
    <2>8. Along(t, R)
      <3>1. ASSUME NEW i \in 1 .. n + 1, NEW j \in 1 .. n + 1, i < j PROVE <<t[i], t[j]>> \in R
        <4>1. i \in 1 .. n /\ t[i] = s[i] /\ t[i] \in T
          BY <2>5, <3>1
        <4>2. CASE j = n + 1
          BY <2>2, <4>1, <4>2
        <4>3. CASE j # n + 1
          <5>1. j \in 1 .. n /\ t[j] = s[j]
            BY <2>6, <4>3
          <5> QED BY <2>4, <2>5, <3>1, <4>1, <5>1 DEF Along
        <4> QED BY <4>2, <4>3
      <3> QED BY <3>1 DEF Along
    <2>9. t \in SetToSeqs(T)
      BY <2>7 DEF SetToSeqs
    <2> QED BY <2>8, <2>9
  <1>3. Nat \subseteq N
    <2> HIDE DEF N
    <2> QED BY <1>1, <1>2, NumberInduction
  <1>4. Cardinality(S) \in N
    BY <1>3, FS_CardinalityType
  <1> QED BY <1>4

LEMMA PrefixMeans ==
  ASSUME NEW S, NEW s \in Seq(S), NEW t \in Seq(S)
  PROVE  IsPrefix(s, t) <=> Len(s) <= Len(t) /\ \A i \in 1 .. Len(s) : s[i] = t[i]
  <1> DEFINE n == Len(s)
             u == SubSeq(s, 1, n)
             v == SubSeq(t, 1, n)
  <1>1. n \in Nat /\ Len(t) \in Nat
    BY LenProperties
  <1>2. Len(u) = n /\ u \in Seq(S) /\ \A i \in 1 .. n : u[i] = s[i]
    BY <1>1
  <1>3. ASSUME n <= Len(t)
        PROVE  Len(v) = n /\ v \in Seq(S) /\ \A i \in 1 .. n : v[i] = t[i]
    BY <1>1, <1>3
  <1>4. IsPrefix(s, t) <=> n <= Len(t) /\ u = v
    BY DEF IsPrefix
  <1> HIDE DEF u, v
  <1>5. ASSUME n <= Len(t), \A i \in 1 .. n : s[i] = t[i] PROVE u = v
    BY <1>2, <1>3, <1>5, SeqEqual
  <1>6. ASSUME n <= Len(t), u = v PROVE \A i \in 1 .. n : s[i] = t[i]
    <2>1. \A i \in 1 .. n : u[i] = s[i] /\ v[i] = t[i]
      BY <1>2, <1>3, <1>6
    <2> QED BY <1>6, <2>1
  <1> QED BY <1>4, <1>5, <1>6

-----------------------------------------------------------------------------
(* Strings are totally ordered.                                            *)

\* The two ways a string can come before another, place by place.
LessAt(s, t, i) ==
  /\ i \in 1 .. Len(s) /\ i \in 1 .. Len(t) /\ s[i] < t[i]
  /\ \A j \in 1 .. (i - 1) : s[j] = t[j]
Shorter(s, t) == Len(s) < Len(t) /\ \A i \in 1 .. Len(s) : s[i] = t[i]

LEMMA LessMeans ==
  ASSUME NEW s \in Name, NEW t \in Name
  PROVE  StringLess(s, t) <=> Shorter(s, t) \/ \E i \in Nat : LessAt(s, t, i)
  <1>1. /\ Len(s) \in Nat /\ Len(t) \in Nat
        /\ DOMAIN s = 1 .. Len(s) /\ DOMAIN t = 1 .. Len(t)
    BY LenProperties DEF Name
  <1>2. IsPrefix(s, t) <=> Len(s) <= Len(t) /\ \A i \in 1 .. Len(s) : s[i] = t[i]
    BY PrefixMeans DEF Name
  <1>3. ASSUME Len(s) = Len(t), \A i \in 1 .. Len(s) : s[i] = t[i] PROVE s = t
    BY <1>3, SeqEqual DEF Name
  <1>4. IsStrictPrefix(s, t) <=> Shorter(s, t)
    <2>1. ASSUME IsPrefix(s, t), s # t PROVE Shorter(s, t)
      <3>1. Len(s) <= Len(t) /\ \A i \in 1 .. Len(s) : s[i] = t[i]
        BY <1>2, <2>1
      <3>2. Len(s) # Len(t)
        BY <1>3, <2>1, <3>1
      <3>3. Len(s) < Len(t)
        <4>1. Len(s) \in Nat /\ Len(t) \in Nat /\ Len(s) <= Len(t) /\ Len(s) # Len(t)
          BY <1>1, <3>1, <3>2
        <4> QED BY ONLY <4>1
      <3> QED BY <3>1, <3>3 DEF Shorter
    <2>2. ASSUME Shorter(s, t) PROVE IsPrefix(s, t) /\ s # t
      <3>1. Len(s) < Len(t) /\ \A i \in 1 .. Len(s) : s[i] = t[i]
        BY <2>2 DEF Shorter
      <3>2. Len(s) <= Len(t) /\ Len(s) # Len(t)
        <4>1. Len(s) \in Nat /\ Len(t) \in Nat /\ Len(s) < Len(t)
          BY <1>1, <3>1
        <4> QED BY ONLY <4>1
      <3> QED BY <1>2, <3>1, <3>2
    <2> QED BY <2>1, <2>2 DEF IsStrictPrefix
  <1>5. (\E i \in DOMAIN s \cap DOMAIN t : s[i] < t[i] /\ \A j \in 1 .. (i - 1) : s[j] = t[j])
          <=> \E i \in Nat : LessAt(s, t, i)
    BY <1>1 DEF LessAt
  <1> QED BY <1>4, <1>5 DEF StringLess

LEMMA LessOrMore ==
  ASSUME NEW s \in Name, NEW t \in Name
  PROVE  s = t \/ StringLess(s, t) \/ StringLess(t, s)
  <1>1. /\ Len(s) \in Nat /\ Len(t) \in Nat
        /\ \A i \in 1 .. Len(s) : s[i] \in Nat
        /\ \A i \in 1 .. Len(t) : t[i] \in Nat
    BY LenProperties, ElementOfSeq DEF Name
  <1> DEFINE T == {i \in Nat : i \in 1 .. Len(s) /\ i \in 1 .. Len(t) /\ s[i] # t[i]}
  <1>2. CASE T = {}
    <2>1. \A i \in 1 .. Len(s) : i <= Len(t) => s[i] = t[i]
      BY <1>1, <1>2
    <2>2. CASE Len(s) < Len(t)
      <3>1. Shorter(s, t)
        BY <1>1, <2>1, <2>2 DEF Shorter
      <3> QED BY <3>1, LessMeans
    <2>3. CASE Len(t) < Len(s)
      <3>1. Shorter(t, s)
        BY <1>1, <2>1, <2>3 DEF Shorter
      <3> QED BY <3>1, LessMeans
    <2>4. CASE Len(s) = Len(t)
      <3>1. \A i \in 1 .. Len(s) : s[i] = t[i]
        BY <1>1, <2>1, <2>4
      <3> QED BY <2>4, <3>1, SeqEqual DEF Name
    <2> QED BY <1>1, <2>2, <2>3, <2>4
  <1>3. CASE T # {}
    <2>1. PICK i \in T : \A j \in T : i <= j
      <3> HIDE DEF T
      <3>1. T \subseteq Nat
        BY DEF T
      <3> QED BY <1>3, <3>1, LeastNumber
    <2>2. i \in Nat /\ i \in 1 .. Len(s) /\ i \in 1 .. Len(t) /\ s[i] # t[i]
      OBVIOUS
    <2>3. \A j \in 1 .. (i - 1) : s[j] = t[j]
      BY <1>1, <2>1, <2>2
    <2>4. s[i] < t[i] \/ t[i] < s[i]
      BY <1>1, <2>2
    <2>5. LessAt(s, t, i) \/ LessAt(t, s, i)
      BY <2>2, <2>3, <2>4 DEF LessAt
    <2> QED BY <2>2, <2>5, LessMeans
  <1> QED BY <1>2, <1>3

LEMMA LessThrough ==
  ASSUME NEW s \in Name, NEW t \in Name, NEW u \in Name,
         StringLess(s, t), StringLess(t, u)
  PROVE  StringLess(s, u)
  <1>1. /\ Len(s) \in Nat /\ Len(t) \in Nat /\ Len(u) \in Nat
        /\ \A i \in 1 .. Len(s) : s[i] \in Nat
        /\ \A i \in 1 .. Len(t) : t[i] \in Nat
        /\ \A i \in 1 .. Len(u) : u[i] \in Nat
    BY LenProperties, ElementOfSeq DEF Name
  <1>2. Shorter(s, t) \/ \E i \in Nat : LessAt(s, t, i)
    BY LessMeans
  <1>3. Shorter(t, u) \/ \E i \in Nat : LessAt(t, u, i)
    BY LessMeans
  <1>4. CASE Shorter(s, t) /\ Shorter(t, u)
    <2>1. Shorter(s, u)
      BY <1>1, <1>4 DEF Shorter
    <2> QED BY <2>1, LessMeans
  <1>5. ASSUME NEW i \in Nat, LessAt(s, t, i), Shorter(t, u) PROVE StringLess(s, u)
    <2>1. LessAt(s, u, i)
      BY <1>1, <1>5 DEF LessAt, Shorter
    <2> QED BY <2>1, LessMeans
  <1>6. ASSUME Shorter(s, t), NEW i \in Nat, LessAt(t, u, i) PROVE StringLess(s, u)
    <2>1. CASE i <= Len(s)
      <3>1. LessAt(s, u, i)
        BY <1>1, <1>6, <2>1 DEF LessAt, Shorter
      <3> QED BY <3>1, LessMeans
    <2>2. CASE Len(s) < i
      <3>1. Shorter(s, u)
        BY <1>1, <1>6, <2>2 DEF LessAt, Shorter
      <3> QED BY <3>1, LessMeans
    <2> QED BY <1>1, <2>1, <2>2
  <1>7. ASSUME NEW i \in Nat, LessAt(s, t, i), NEW k \in Nat, LessAt(t, u, k)
        PROVE  StringLess(s, u)
    <2>1. CASE i <= k
      <3>1. LessAt(s, u, i)
        BY <1>1, <1>7, <2>1 DEF LessAt
      <3> QED BY <3>1, LessMeans
    <2>2. CASE k < i
      <3>1. LessAt(s, u, k)
        BY <1>1, <1>7, <2>2 DEF LessAt
      <3> QED BY <3>1, LessMeans
    <2> QED BY <2>1, <2>2
  <1> QED BY <1>2, <1>3, <1>4, <1>5, <1>6, <1>7

\* Sorting yields each string once.
LEMMA SortedIs ==
  ASSUME NEW S \in SUBSET Name, IsFiniteSet(S)
  PROVE  /\ Sorted(S) \in SetToSeqs(S)
         /\ \A i, j \in DOMAIN Sorted(S) : i < j => StringLess(Sorted(S)[i], Sorted(S)[j])
  <1> DEFINE R == {p \in S \X S : p[1] = p[2] \/ StringLess(p[1], p[2])}
  <1>0. \A a, b \in S : <<a, b>> \in R <=> a = b \/ StringLess(a, b)
    OBVIOUS
  <1> HIDE DEF R
  <1>1. TotalOn(R, S)
    BY <1>0, LessOrMore, LessThrough DEF TotalOn
  <1>2. PICK s \in SetToSeqs(S) : Along(s, R)
    BY <1>1, AlongExists
  <1>3. \A i, j \in DOMAIN s : i < j => StringLess(s[i], s[j])
    <2>1. /\ DOMAIN s = 1 .. Len(s) /\ Len(s) \in Nat
          /\ \A i, j \in 1 .. Len(s) : s[i] = s[j] => i = j
          /\ s \in Seq(S)
      BY Enumerated
    <2>2. \A i \in 1 .. Len(s) : s[i] \in S
      BY <2>1, ElementOfSeq
    <2>3. ASSUME NEW i \in 1 .. Len(s), NEW j \in 1 .. Len(s), i < j
          PROVE  StringLess(s[i], s[j])
      <3>1. i # j /\ s[i] # s[j]
        BY <2>1, <2>3
      <3>2. <<s[i], s[j]>> \in R
        BY <1>2, <2>1, <2>3 DEF Along
      <3> QED BY <1>0, <2>2, <3>1, <3>2
    <2> QED BY <2>1, <2>3
  <1> QED BY <1>3 DEF Sorted

LEMMA ByIndexIs ==
  ASSUME NEW S \in SUBSET Entry, IsFiniteSet(S)
  PROVE  /\ ByIndex(S) \in SetToSeqs(S)
         /\ \A i, j \in DOMAIN ByIndex(S) : i < j => ByIndex(S)[i].index <= ByIndex(S)[j].index
  <1> DEFINE R == {p \in S \X S : p[1].index <= p[2].index}
  <1>0. \A a, b \in S : <<a, b>> \in R <=> a.index <= b.index
    OBVIOUS
  <1> HIDE DEF R
  <1>1. \A a \in S : a.index \in Nat
    BY DEF Entry
  <1>2. TotalOn(R, S)
    BY <1>0, <1>1 DEF TotalOn
  <1>3. PICK s \in SetToSeqs(S) : Along(s, R)
    BY <1>2, AlongExists
  <1>4. \A i, j \in DOMAIN s : i < j => s[i].index <= s[j].index
    <2>1. DOMAIN s = 1 .. Len(s) /\ Len(s) \in Nat /\ s \in Seq(S)
      BY Enumerated
    <2>2. \A i \in 1 .. Len(s) : s[i] \in S
      BY <2>1, ElementOfSeq
    <2> QED BY <1>0, <1>3, <2>1, <2>2 DEF Along
  <1> QED BY <1>4 DEF ByIndex

-----------------------------------------------------------------------------
(* Spelling a text character by character, and Escape as such a spelling.   *)

Spelled(code, name) == FlattenSeq([i \in DOMAIN name |-> code[name[i]]])

Codes == [Nat -> Name]

LEMMA SpelledType ==
  ASSUME NEW code \in Codes, NEW name \in Name
  PROVE  /\ [i \in DOMAIN name |-> code[name[i]]] \in Seq(Name)
         /\ Spelled(code, name) \in Name
  <1> DEFINE t == [i \in DOMAIN name |-> code[name[i]]]
  <1>1. \A i \in DOMAIN name : code[name[i]] \in Name
    BY ElementOfSeq, LenProperties DEF Name, Codes
  <1>2. DOMAIN name = 1 .. Len(name) /\ Len(name) \in Nat
    BY LenProperties DEF Name
  <1> HIDE DEF Name
  <1>3. t \in Seq(Name)
    BY <1>1, <1>2
  <1> HIDE DEF t
  <1>4. FlattenSeq(t) \in Name
    BY <1>3, FlattenType DEF Name
  <1> QED BY <1>3, <1>4 DEF t, Spelled

LEMMA SpelledNothing ==
  ASSUME NEW code
  PROVE  Spelled(code, <<>>) = <<>>
  <1>1. [i \in DOMAIN <<>> |-> code[(<<>>)[i]]] = <<>>
    OBVIOUS
  <1> QED BY <1>1, FlattenEmpty DEF Spelled

LEMMA SpelledAppend ==
  ASSUME NEW code \in Codes, NEW name \in Name, NEW c \in Nat
  PROVE  /\ Append(name, c) \in Name
         /\ Spelled(code, Append(name, c)) = Join(Spelled(code, name), code[c])
  <1> DEFINE all == Append(name, c)
             s == [i \in DOMAIN name |-> code[name[i]]]
             t == [i \in DOMAIN all |-> code[all[i]]]
             x == code[c]
             u == Append(s, x)
             n == Len(name)
  <1>1. all \in Name
    BY AppendProperties DEF Name
  <1>2. /\ n \in Nat /\ DOMAIN name = 1 .. n /\ Len(all) = n + 1 /\ DOMAIN all = 1 .. n + 1
        /\ all[n + 1] = c /\ \A i \in 1 .. n : all[i] = name[i]
    BY AppendProperties, LenProperties DEF Name
  <1>3. s \in Seq(Name) /\ t \in Seq(Name) /\ x \in Name
    BY <1>1, SpelledType DEF Codes
  <1> HIDE DEF all
  <1>4. Len(s) = n /\ Len(t) = n + 1 /\ \A i \in 1 .. n : t[i] = s[i]
    BY <1>2
  <1>5. t[n + 1] = x
    BY <1>2
  <1> HIDE DEF s, t, x
  <1>6. u \in Seq(Name) /\ Len(u) = n + 1 /\ u[n + 1] = x /\ \A i \in 1 .. n : u[i] = s[i]
    BY <1>3, <1>4, AppendProperties
  <1>7. t = u
    <2>1. \A i \in 1 .. n + 1 : i = n + 1 \/ i \in 1 .. n
      BY <1>2
    <2> HIDE DEF u
    <2>2. \A i \in 1 .. n + 1 : t[i] = u[i]
      BY <1>4, <1>5, <1>6, <2>1
    <2> QED BY <1>3, <1>4, <1>6, <2>2, SeqEqual
  <1>8. FlattenSeq(u) = FlattenSeq(s) \o x
    BY <1>3, FlattenAppend DEF Name
  <1> QED BY <1>1, <1>7, <1>8 DEF Spelled, Join, s, t, x, all

Escaped == [c \in Nat |-> CASE c = TILDE -> <<TILDE, ZERO>>
                            [] c = SLASH -> <<TILDE, ONE>>
                            [] OTHER -> <<c>>]

\* What the first replacement of Unescape leaves.
HalfEscaped == [c \in Nat |-> IF c = TILDE THEN <<TILDE, ZERO>> ELSE <<c>>]

LEMMA CodesFacts ==
  /\ Escaped \in Codes /\ HalfEscaped \in Codes
  /\ Escaped[TILDE] = <<TILDE, ZERO>> /\ Escaped[SLASH] = <<TILDE, ONE>>
  /\ HalfEscaped[TILDE] = <<TILDE, ZERO>> /\ HalfEscaped[SLASH] = <<SLASH>>
  /\ \A c \in Nat \ {TILDE, SLASH} : Escaped[c] = <<c>> /\ HalfEscaped[c] = <<c>>
  <1>1. \A c \in Nat : <<c>> \in Name /\ <<TILDE, ZERO>> \in Name /\ <<TILDE, ONE>> \in Name
    BY DEF Name, TILDE, ZERO, ONE
  <1>2. TILDE \in Nat /\ SLASH \in Nat /\ TILDE # SLASH
    BY DEF TILDE, SLASH
  <1> QED BY <1>1, <1>2, Zenon DEF Escaped, HalfEscaped, Codes

LEMMA EscapeIs ==
  ASSUME NEW name \in Name
  PROVE  Escape(name) = Spelled(Escaped, name)
  <1>1. \A i \in DOMAIN name : name[i] \in Nat
    BY ElementOfSeq, LenProperties DEF Name
  <1>2. \A i \in DOMAIN name :
          (CASE name[i] = TILDE -> <<TILDE, ZERO>>
             [] name[i] = SLASH -> <<TILDE, ONE>>
             [] OTHER -> <<name[i]>>) = Escaped[name[i]]
    BY <1>1 DEF Escaped
  <1> QED BY <1>2, Zenon DEF Escape, Spelled

-----------------------------------------------------------------------------
(* Unescape undoes Escape.                                                 *)

\* What becomes of character i when the pairs <<c, d>> of s are replaced.
PieceAt(s, c, d, e, i) ==
  IF i \in DOMAIN s /\ i + 1 \in DOMAIN s /\ s[i] = c /\ s[i + 1] = d THEN <<e>>
  ELSE IF i - 1 \in DOMAIN s /\ (i - 1) + 1 \in DOMAIN s /\ s[i - 1] = c /\ s[(i - 1) + 1] = d THEN <<>>
  ELSE <<s[i]>>

Pieces(s, c, d, e) == [i \in DOMAIN s |-> PieceAt(s, c, d, e, i)]

EndsIn(s, c) == s # <<>> /\ s[Len(s)] = c

LEMMA ReplaceIs ==
  ASSUME NEW s \in Name, NEW c, NEW d, NEW e \in Nat
  PROVE  /\ ReplacePair(s, c, d, e) = FlattenSeq(Pieces(s, c, d, e))
         /\ Pieces(s, c, d, e) \in Seq(Name) /\ Len(Pieces(s, c, d, e)) = Len(s)
         /\ ReplacePair(s, c, d, e) \in Name
  <1> DEFINE t == Pieces(s, c, d, e)
  <1>1. /\ DOMAIN s = 1 .. Len(s) /\ Len(s) \in Nat
        /\ \A i \in 1 .. Len(s) : s[i] \in Nat
    BY LenProperties, ElementOfSeq DEF Name
  <1>2. \A x \in Nat : <<x>> \in Name
    BY DEF Name
  <1>3. <<>> \in Name
    BY DEF Name
  <1>4. \A i \in DOMAIN s : PieceAt(s, c, d, e, i) \in Name
    BY <1>1, <1>2, <1>3 DEF PieceAt
  <1> HIDE DEF Name
  <1>5. t \in Seq(Name) /\ Len(t) = Len(s)
    <2>1. t = [i \in 1 .. Len(s) |-> PieceAt(s, c, d, e, i)]
      BY <1>1 DEF Pieces
    <2> QED BY <1>1, <1>4, <2>1
  <1>6. ReplacePair(s, c, d, e) = FlattenSeq(t)
    BY Zenon DEF ReplacePair, Pieces, PieceAt
  <1>7. FlattenSeq(t) \in Name
    BY <1>5, FlattenType DEF Name
  <1> QED BY <1>5, <1>6, <1>7

LEMMA AppendedTo ==
  ASSUME NEW S, NEW s \in Seq(S), NEW x \in S
  PROVE  /\ Append(s, x) \in Seq(S) /\ Len(Append(s, x)) = Len(s) + 1 /\ Len(s) \in Nat
         /\ DOMAIN Append(s, x) = 1 .. Len(s) + 1 /\ DOMAIN s = 1 .. Len(s)
         /\ Append(s, x)[Len(s) + 1] = x
         /\ \A i \in 1 .. Len(s) : Append(s, x)[i] = s[i]
  BY AppendProperties, LenProperties

LEMMA NextIn ==
  ASSUME NEW n \in Nat, NEW i \in 1 .. n, i # n
  PROVE  i + 1 \in 1 .. n /\ i + 1 \in 1 .. n + 1 /\ i + 1 \in 1 .. n + 2
  OBVIOUS

\* A character that does not complete the pair stays.
LEMMA ReplaceOne ==
  ASSUME NEW s \in Name, NEW c, NEW d, NEW e \in Nat, NEW x \in Nat,
         ~ (EndsIn(s, c) /\ x = d)
  PROVE  ReplacePair(Append(s, x), c, d, e) = Append(ReplacePair(s, c, d, e), x)
  <1> DEFINE all == Append(s, x)
             n == Len(s)
             p == Pieces(s, c, d, e)
             q == Pieces(all, c, d, e)
             r == Append(p, <<x>>)
  <1>1. /\ all \in Name /\ Len(all) = n + 1 /\ n \in Nat /\ DOMAIN all = 1 .. n + 1 /\ DOMAIN s = 1 .. n
        /\ all[n + 1] = x /\ \A i \in 1 .. n : all[i] = s[i]
    BY AppendedTo DEF Name
  <1>2. n # 0 => ~ (all[n] = c /\ all[n + 1] = d)
    <2>1. n # 0 => s # <<>> /\ n \in 1 .. n
      BY <1>1
    <2> QED BY <1>1, <2>1 DEF EndsIn
  <1>3. p \in Seq(Name) /\ q \in Seq(Name) /\ Len(p) = n /\ Len(q) = n + 1
    <2>1. p \in Seq(Name) /\ Len(p) = n
      BY ReplaceIs, Zenon
    <2>2. q \in Seq(Name) /\ Len(q) = Len(all)
      BY <1>1, ReplaceIs, Zenon
    <2> QED BY <1>1, <2>1, <2>2
  <1>4. <<x>> \in Name
    BY DEF Name
  <1>5. r \in Seq(Name) /\ Len(r) = n + 1 /\ r[n + 1] = <<x>> /\ \A i \in 1 .. n : r[i] = p[i]
    BY <1>3, <1>4, AppendedTo
  <1> HIDE DEF all
  <1>6. ASSUME NEW i \in 1 .. n PROVE PieceAt(all, c, d, e, i) = PieceAt(s, c, d, e, i)
    <2>1. all[i] = s[i] /\ i \in DOMAIN s /\ i \in DOMAIN all
      BY <1>1
    <2>2. (i + 1 \in DOMAIN all /\ all[i] = c /\ all[i + 1] = d)
            <=> (i + 1 \in DOMAIN s /\ s[i] = c /\ s[i + 1] = d)
      <3>1. CASE i = n
        <4>1. n # 0 /\ i + 1 \notin DOMAIN s
          BY <1>1, <3>1
        <4> QED BY <1>2, <3>1, <4>1
      <3>2. CASE i # n
        <4>1. i + 1 \in 1 .. n /\ i + 1 \in DOMAIN s /\ i + 1 \in DOMAIN all
          BY <1>1, <3>2, NextIn
        <4> QED BY <1>1, <2>1, <4>1
      <3> QED BY <3>1, <3>2
    <2>3. (i - 1) + 1 = i /\ (i - 1 \in DOMAIN all <=> i - 1 \in DOMAIN s)
            /\ (i - 1 \in DOMAIN s => all[i - 1] = s[i - 1])
      BY <1>1
    <2> QED BY <2>1, <2>2, <2>3 DEF PieceAt
  <1>7. PieceAt(all, c, d, e, n + 1) = <<x>>
    <2>1. (n + 1) + 1 \notin DOMAIN all /\ (n + 1) - 1 = n /\ (n \in DOMAIN all => n # 0)
      BY <1>1
    <2> QED BY <1>1, <1>2, <2>1 DEF PieceAt
  <1>8. /\ \A i \in 1 .. n : q[i] = p[i]
        /\ q[n + 1] = <<x>>
    <2>1. \A i \in 1 .. n : i \in DOMAIN all /\ i \in DOMAIN s
      BY <1>1
    <2>2. n + 1 \in DOMAIN all
      BY <1>1
    <2> QED BY <1>6, <1>7, <2>1, <2>2 DEF Pieces
  <1> HIDE DEF p, q, r
  <1>9. q = r
    <2>1. \A i \in 1 .. n + 1 : i = n + 1 \/ i \in 1 .. n
      BY <1>1
    <2>2. \A i \in 1 .. n + 1 : q[i] = r[i]
      BY <1>5, <1>8, <2>1
    <2> QED BY <1>3, <1>5, <2>2, SeqEqual
  <1>10. FlattenSeq(r) = FlattenSeq(p) \o <<x>>
    BY <1>3, <1>4, FlattenAppend DEF Name, r
  <1>11. FlattenSeq(p) = ReplacePair(s, c, d, e) /\ ReplacePair(s, c, d, e) \in Name
    BY ReplaceIs DEF p
  <1>12. ReplacePair(all, c, d, e) = FlattenSeq(q)
    BY <1>1, ReplaceIs DEF q
  <1>13. \A t \in Name : t \o <<x>> = Append(t, x)
    BY DEF Name
  <1> QED BY <1>9, <1>10, <1>11, <1>12, <1>13 DEF all

\* A pair is replaced.
LEMMA ReplaceTwo ==
  ASSUME NEW s \in Name, NEW c \in Nat, NEW d \in Nat, NEW e \in Nat, c # d
  PROVE  ReplacePair(Append(Append(s, c), d), c, d, e) = Append(ReplacePair(s, c, d, e), e)
  <1> DEFINE mid == Append(s, c)
             all == Append(mid, d)
             n == Len(s)
             p == Pieces(s, c, d, e)
             q == Pieces(all, c, d, e)
             r == Append(p, <<e>>)
             u == Append(r, <<>>)
  <1>1. /\ mid \in Name /\ Len(mid) = n + 1 /\ n \in Nat /\ DOMAIN s = 1 .. n
        /\ mid[n + 1] = c /\ \A i \in 1 .. n : mid[i] = s[i]
    BY AppendedTo DEF Name
  <1> HIDE DEF mid
  <1>2. /\ all \in Name /\ Len(all) = n + 2 /\ DOMAIN all = 1 .. n + 2
        /\ all[n + 2] = d /\ all[n + 1] = c /\ \A i \in 1 .. n : all[i] = s[i]
    <2>1. /\ all \in Name /\ Len(all) = (n + 1) + 1 /\ DOMAIN all = 1 .. (n + 1) + 1
          /\ all[(n + 1) + 1] = d /\ \A i \in 1 .. n + 1 : all[i] = mid[i]
      BY <1>1, AppendedTo DEF Name
    <2>2. (n + 1) + 1 = n + 2 /\ n + 1 \in 1 .. n + 1 /\ \A i \in 1 .. n : i \in 1 .. n + 1
      BY <1>1
    <2> QED BY <1>1, <2>1, <2>2
  <1>3. p \in Seq(Name) /\ q \in Seq(Name) /\ Len(p) = n /\ Len(q) = n + 2
    <2> HIDE DEF p, q, all
    <2>1. p \in Seq(Name) /\ Len(p) = n
      BY ReplaceIs DEF p
    <2>2. q \in Seq(Name) /\ Len(q) = Len(all)
      BY <1>2, ReplaceIs DEF q
    <2> QED BY <1>2, <2>1, <2>2
  <1>4. <<e>> \in Name /\ <<>> \in Name
    BY DEF Name
  <1>5. r \in Seq(Name) /\ Len(r) = n + 1 /\ r[n + 1] = <<e>> /\ \A i \in 1 .. n : r[i] = p[i]
    BY <1>3, <1>4, AppendedTo
  <1> HIDE DEF all, r
  <1>6. u \in Seq(Name) /\ Len(u) = n + 2 /\ u[n + 2] = <<>> /\ u[n + 1] = <<e>>
        /\ \A i \in 1 .. n : u[i] = p[i]
    <2>1. /\ u \in Seq(Name) /\ Len(u) = (n + 1) + 1
          /\ u[(n + 1) + 1] = <<>> /\ \A i \in 1 .. n + 1 : u[i] = r[i]
      BY <1>4, <1>5, AppendedTo
    <2>2. (n + 1) + 1 = n + 2 /\ n + 1 \in 1 .. n + 1 /\ \A i \in 1 .. n : i \in 1 .. n + 1
      BY <1>1
    <2> QED BY <1>5, <2>1, <2>2
  <1>7. ASSUME NEW i \in 1 .. n PROVE PieceAt(all, c, d, e, i) = PieceAt(s, c, d, e, i)
    <2>1. all[i] = s[i] /\ i \in DOMAIN s /\ i \in DOMAIN all
      BY <1>1, <1>2
    <2>2. (i + 1 \in DOMAIN all /\ all[i] = c /\ all[i + 1] = d)
            <=> (i + 1 \in DOMAIN s /\ s[i] = c /\ s[i + 1] = d)
      <3>1. CASE i = n
        <4>1. i + 1 \notin DOMAIN s /\ all[i + 1] = c
          BY <1>1, <1>2, <3>1
        <4> QED BY <4>1
      <3>2. CASE i # n
        <4>1. i + 1 \in 1 .. n /\ i + 1 \in DOMAIN s /\ i + 1 \in DOMAIN all
          BY <1>1, <1>2, <3>2, NextIn
        <4> QED BY <1>2, <2>1, <4>1
      <3> QED BY <3>1, <3>2
    <2>3. (i - 1) + 1 = i /\ (i - 1 \in DOMAIN all <=> i - 1 \in DOMAIN s)
            /\ (i - 1 \in DOMAIN s => all[i - 1] = s[i - 1])
      BY <1>1, <1>2
    <2> QED BY <2>1, <2>2, <2>3 DEF PieceAt
  <1>8. PieceAt(all, c, d, e, n + 1) = <<e>>
    <2>1. n + 1 \in DOMAIN all /\ (n + 1) + 1 \in DOMAIN all /\ (n + 1) + 1 = n + 2
      BY <1>1, <1>2
    <2> QED BY <1>2, <2>1 DEF PieceAt
  <1>9. PieceAt(all, c, d, e, n + 2) = <<>>
    <2>1. /\ (n + 2) + 1 \notin DOMAIN all /\ (n + 2) - 1 = n + 1
          /\ n + 1 \in DOMAIN all /\ (n + 1) + 1 \in DOMAIN all /\ (n + 1) + 1 = n + 2
      BY <1>1, <1>2
    <2> QED BY <1>2, <2>1 DEF PieceAt
  <1>10. q[n + 1] = <<e>> /\ q[n + 2] = <<>> /\ \A i \in 1 .. n : q[i] = p[i]
    <2>1. \A i \in 1 .. n : i \in DOMAIN all /\ i \in DOMAIN s
      BY <1>1, <1>2
    <2>2. n + 1 \in DOMAIN all /\ n + 2 \in DOMAIN all
      BY <1>1, <1>2
    <2> QED BY <1>7, <1>8, <1>9, <2>1, <2>2 DEF Pieces
  <1> HIDE DEF p, q, u
  <1>11. q = u
    <2>1. \A i \in 1 .. n + 2 : i = n + 1 \/ i = n + 2 \/ i \in 1 .. n
      BY <1>1
    <2>2. \A i \in 1 .. n + 2 : q[i] = u[i]
      BY <1>6, <1>10, <2>1
    <2> QED BY <1>3, <1>6, <2>2, SeqEqual
  <1>12. FlattenSeq(r) = FlattenSeq(p) \o <<e>>
    BY <1>3, <1>4, FlattenAppend DEF Name, r
  <1>13. FlattenSeq(u) = FlattenSeq(r) \o <<>>
    BY <1>4, <1>5, FlattenAppend DEF Name, u
  <1>14. FlattenSeq(p) = ReplacePair(s, c, d, e) /\ ReplacePair(s, c, d, e) \in Name
    BY ReplaceIs DEF p
  <1>15. ReplacePair(all, c, d, e) = FlattenSeq(q)
    BY <1>2, ReplaceIs DEF q
  <1>16. \A t \in Name : (t \o <<e>>) \o <<>> = Append(t, e)
    BY DEF Name
  <1> QED BY <1>11, <1>12, <1>13, <1>14, <1>15, <1>16 DEF all, mid

LEMMA NotEmpty ==
  ASSUME NEW name \in Name, NEW c \in Nat
  PROVE  Append(name, c) # <<>>
  <1>1. Len(Append(name, c)) = Len(name) + 1 /\ Len(name) \in Nat
    BY AppendedTo DEF Name
  <1>2. Len(<<>>) = 0
    OBVIOUS
  <1> QED BY <1>1, <1>2

LEMMA EndOf ==
  ASSUME NEW name \in Name, NEW c \in Nat, NEW d
  PROVE  EndsIn(Append(name, c), d) <=> c = d
  <1>1. /\ Len(Append(name, c)) = Len(name) + 1 /\ Len(name) \in Nat
        /\ Append(name, c)[Len(name) + 1] = c
    BY AppendedTo DEF Name
  <1> QED BY <1>1, NotEmpty DEF EndsIn

LEMMA NameSlots ==
  /\ <<>> \in Name /\ \A c : ~ EndsIn(<<>>, c)
  /\ \A s \in Name, c \in Nat : Append(s, c) \in Name
  /\ \A s \in Name, c \in Nat : Join(s, <<c>>) = Append(s, c)
  /\ \A s \in Name, c, d \in Nat : Join(s, <<c, d>>) = Append(Append(s, c), d)
  <1>1. <<>> \in Name /\ \A c : ~ EndsIn(<<>>, c)
    BY DEF Name, EndsIn
  <1>2. \A s \in Name, c \in Nat : Append(s, c) \in Name /\ Join(s, <<c>>) = Append(s, c)
    BY DEF Name, Join
  <1>3. ASSUME NEW s \in Name, NEW c \in Nat, NEW d \in Nat
        PROVE  Join(s, <<c, d>>) = Append(Append(s, c), d)
    <2> DEFINE x == <<c>>
               y == <<c, d>>
    <2>1. y = Append(x, d) /\ x \in Name
      BY AppendTwo DEF Name
    <2>2. s \in Octets /\ x \in Octets
      BY <2>1, SeqMonotonic DEF Name, Octets
    <2> HIDE DEF x, y
    <2>3. Join(s, y) = Append(Join(s, x), d)
      BY <2>1, <2>2, JoinAppend
    <2> QED BY <1>2, <2>3 DEF x, y
  <1> QED BY <1>1, <1>2, <1>3

LEMMA AppendName ==
  ASSUME NEW s \in Name, NEW c \in Nat
  PROVE  Append(s, c) \in Name
  BY NameSlots, Zenon

LEMMA JoinOne ==
  ASSUME NEW s \in Name, NEW x, NEW c \in Nat, x = <<c>>
  PROVE  Join(s, x) = Append(s, c) /\ Append(s, c) \in Name
  BY NameSlots, Zenon

LEMMA JoinTwo ==
  ASSUME NEW s \in Name, NEW x, NEW c \in Nat, NEW d \in Nat, x = <<c, d>>
  PROVE  /\ Join(s, x) = Append(Append(s, c), d)
         /\ Append(s, c) \in Name /\ Append(Append(s, c), d) \in Name
  BY NameSlots, Zenon

\* The replacements of Unescape find what Escape wrote and nothing else: a
\* tilde that Escape wrote is never the last character of what it wrote.
LEMMA EscapeSteps ==
  ASSUME NEW name \in Name
  PROVE  /\ Escape(name) \in Name /\ ~ EndsIn(Escape(name), TILDE)
         /\ Spelled(HalfEscaped, name) \in Name /\ ~ EndsIn(Spelled(HalfEscaped, name), TILDE)
         /\ ReplacePair(Escape(name), TILDE, ONE, SLASH) = Spelled(HalfEscaped, name)
         /\ ReplacePair(Spelled(HalfEscaped, name), TILDE, ZERO, TILDE) = name
  <1> DEFINE E(n) == Spelled(Escaped, n)
             H(n) == Spelled(HalfEscaped, n)
             First(n) == ReplacePair(n, TILDE, ONE, SLASH)
             Second(n) == ReplacePair(n, TILDE, ZERO, TILDE)
             Good(n) == /\ E(n) \in Name /\ ~ EndsIn(E(n), TILDE)
                        /\ H(n) \in Name /\ ~ EndsIn(H(n), TILDE)
                        /\ First(E(n)) = H(n) /\ Second(H(n)) = n
             T == {n \in Name : Good(n)}
  <1>0. /\ TILDE \in Nat /\ SLASH \in Nat /\ ZERO \in Nat /\ ONE \in Nat
        /\ TILDE # SLASH /\ TILDE # ZERO /\ TILDE # ONE /\ SLASH # ZERO /\ SLASH # ONE /\ ZERO # ONE
    BY DEF TILDE, SLASH, ZERO, ONE
  <1>1. \A n \in Name : E(n) \in Name /\ H(n) \in Name /\ First(E(n)) \in Name /\ Second(H(n)) \in Name
    BY <1>0, SpelledType, CodesFacts, ReplaceIs
  <1>2. <<>> \in T
    <2>1. \A c, d, e : ReplacePair(<<>>, c, d, e) = <<>>
      <3>1. \A c, d, e : Pieces(<<>>, c, d, e) = <<>>
        BY DEF Pieces
      <3>2. \A c, d : \A e \in Nat : ReplacePair(<<>>, c, d, e) = <<>>
        BY <3>1, ReplaceIs, NameSlots, FlattenEmpty
      <3>3. DOMAIN <<>> = {}
        OBVIOUS
      <3>4. \A c, d, e : ReplacePair(<<>>, c, d, e) = FlattenSeq(Pieces(<<>>, c, d, e))
        BY Zenon DEF ReplacePair, Pieces, PieceAt
      <3> QED BY <3>1, <3>4, FlattenEmpty
    <2>2. E(<<>>) = <<>> /\ H(<<>>) = <<>>
      BY SpelledNothing
    <2> QED BY <2>1, <2>2, NameSlots
  <1>3. ASSUME NEW n \in T, NEW c \in Nat PROVE Append(n, c) \in T
    <2> DEFINE m == Append(n, c)
    <2>1. n \in Name /\ Good(n)
      OBVIOUS
    <2>2. m \in Name /\ E(m) = Join(E(n), Escaped[c]) /\ H(m) = Join(H(n), HalfEscaped[c])
      BY <2>1, SpelledAppend, CodesFacts
    <2> HIDE DEF E, H, First, Second, m
    <2>3. CASE c = TILDE
      <3>1. /\ E(m) = Append(Append(E(n), TILDE), ZERO) /\ H(m) = Append(Append(H(n), TILDE), ZERO)
        <4>1. Escaped[c] = <<TILDE, ZERO>> /\ HalfEscaped[c] = <<TILDE, ZERO>>
          BY <2>3, CodesFacts
        <4>2. /\ Join(E(n), Escaped[c]) = Append(Append(E(n), TILDE), ZERO)
              /\ Join(H(n), HalfEscaped[c]) = Append(Append(H(n), TILDE), ZERO)
          BY <1>0, <2>1, <4>1, JoinTwo
        <4> QED BY <2>2, <4>2
      <3>2. ~ EndsIn(E(m), TILDE) /\ ~ EndsIn(H(m), TILDE) /\ E(m) \in Name /\ H(m) \in Name
        <4>1. /\ Append(E(n), TILDE) \in Name /\ Append(H(n), TILDE) \in Name
              /\ Append(H(n), SLASH) \in Name
          BY <1>0, <2>1, NameSlots
        <4>2. E(m) \in Name /\ H(m) \in Name
          BY <1>0, <2>1, <3>1, <4>1, AppendName
        <4> QED BY <1>0, <2>1, <3>1, <4>1, <4>2, EndOf
      <3>3. First(E(m)) = Append(First(Append(E(n), TILDE)), ZERO)
        <4>1. Append(E(n), TILDE) \in Name
          BY <1>0, <2>1, NameSlots
        <4> QED BY <1>0, <3>1, <4>1, ReplaceOne DEF First
      <3>4. First(Append(E(n), TILDE)) = Append(First(E(n)), TILDE)
        BY <1>0, <2>1, ReplaceOne DEF First
      <3>5. Second(H(m)) = Append(Second(H(n)), TILDE)
        BY <1>0, <2>1, <3>1, ReplaceTwo DEF Second
      <3>6. First(E(m)) = H(m) /\ Second(H(m)) = m
        BY <2>1, <2>3, <3>1, <3>3, <3>4, <3>5 DEF m
      <3> QED BY <2>2, <3>2, <3>6 DEF m
    <2>4. CASE c = SLASH
      <3>1. /\ E(m) = Append(Append(E(n), TILDE), ONE) /\ H(m) = Append(H(n), SLASH)
        <4>1. Escaped[c] = <<TILDE, ONE>> /\ HalfEscaped[c] = <<SLASH>>
          BY <2>4, CodesFacts
        <4>2. /\ Join(E(n), Escaped[c]) = Append(Append(E(n), TILDE), ONE)
              /\ Join(H(n), HalfEscaped[c]) = Append(H(n), SLASH)
          BY <1>0, <2>1, <4>1, JoinTwo, JoinOne
        <4> QED BY <2>2, <4>2
      <3>2. ~ EndsIn(E(m), TILDE) /\ ~ EndsIn(H(m), TILDE) /\ E(m) \in Name /\ H(m) \in Name
        <4>1. /\ Append(E(n), TILDE) \in Name /\ Append(H(n), TILDE) \in Name
              /\ Append(H(n), SLASH) \in Name
          BY <1>0, <2>1, NameSlots
        <4>2. E(m) \in Name /\ H(m) \in Name
          BY <1>0, <2>1, <3>1, <4>1, AppendName
        <4> QED BY <1>0, <2>1, <3>1, <4>1, <4>2, EndOf
      <3>3. First(E(m)) = Append(First(E(n)), SLASH)
        BY <1>0, <2>1, <3>1, ReplaceTwo DEF First
      <3>4. Second(H(m)) = Append(Second(H(n)), SLASH)
        BY <1>0, <2>1, <3>1, ReplaceOne DEF Second
      <3>5. First(E(m)) = H(m) /\ Second(H(m)) = m
        BY <2>1, <2>4, <3>1, <3>3, <3>4 DEF m
      <3> QED BY <2>2, <3>2, <3>5 DEF m
    <2>5. CASE c # TILDE /\ c # SLASH
      <3>1. /\ E(m) = Append(E(n), c) /\ H(m) = Append(H(n), c)
        <4>1. Escaped[c] = <<c>> /\ HalfEscaped[c] = <<c>>
          BY <2>5, CodesFacts
        <4>2. Join(E(n), Escaped[c]) = Append(E(n), c) /\ Join(H(n), HalfEscaped[c]) = Append(H(n), c)
          BY <2>1, <4>1, JoinOne
        <4> QED BY <2>2, <4>2
      <3>2. ~ EndsIn(E(m), TILDE) /\ ~ EndsIn(H(m), TILDE) /\ E(m) \in Name /\ H(m) \in Name
        <4>1. E(m) \in Name /\ H(m) \in Name
          BY <2>1, <3>1, NameSlots
        <4> QED BY <1>0, <2>1, <2>5, <3>1, <4>1, EndOf
      <3>3. First(E(m)) = Append(First(E(n)), c)
        BY <1>0, <2>1, <3>1, ReplaceOne DEF First
      <3>4. Second(H(m)) = Append(Second(H(n)), c)
        BY <1>0, <2>1, <3>1, ReplaceOne DEF Second
      <3>5. First(E(m)) = H(m) /\ Second(H(m)) = m
        BY <2>1, <2>5, <3>1, <3>3, <3>4 DEF m
      <3> QED BY <2>2, <3>2, <3>5 DEF m
    <2> QED BY <2>3, <2>4, <2>5
  <1>4. T = Name
    <2> HIDE DEF T
    <2>1. T \subseteq Seq(Nat)
      BY DEF T, Name
    <2> QED BY <1>2, <1>3, <2>1, SequenceInduction DEF Name
  <1>5. Good(name)
    BY <1>4
  <1> QED BY <1>5, EscapeIs

LEMMA EscapeUndone ==
  ASSUME NEW name \in Name
  PROVE  Unescape(Escape(name)) = name
  BY EscapeSteps, Zenon DEF Unescape

\* What Escape writes has no slash, and is empty for the empty name only.
LEMMA EscapeUnmarked ==
  ASSUME NEW name \in Name
  PROVE  /\ Escape(name) \in Unmarked(SLASH)
         /\ name # <<>> => Escape(name) # <<>>
         /\ ToSet(name) \cap {SLASH, TILDE} = {} => Escape(name) = name
  <1> DEFINE E(n) == Spelled(Escaped, n)
             T == {n \in Name : /\ E(n) \in Unmarked(SLASH)
                                /\ n # <<>> => E(n) # <<>>
                                /\ (\A i \in 1 .. Len(n) : n[i] \notin {SLASH, TILDE}) => E(n) = n}
  <1>0. /\ TILDE \in Nat /\ SLASH \in Nat /\ ZERO \in Nat /\ ONE \in Nat
        /\ TILDE # SLASH /\ SLASH # ZERO /\ SLASH # ONE
    BY DEF TILDE, SLASH, ZERO, ONE
  <1>1. <<>> \in T
    <2>1. E(<<>>) = <<>>
      BY SpelledNothing
    <2>2. <<>> \in Unmarked(SLASH)
      BY DEF Unmarked
    <2> QED BY <2>1, <2>2, NameSlots
  <1>2. ASSUME NEW n \in T, NEW c \in Nat PROVE Append(n, c) \in T
    <2> DEFINE m == Append(n, c)
    <2>1. n \in Name /\ E(n) \in Unmarked(SLASH)
      OBVIOUS
    <2>2. m \in Name /\ E(m) = Join(E(n), Escaped[c]) /\ E(n) \in Name
      BY <2>1, SpelledAppend, SpelledType, CodesFacts
    <2>3. /\ Len(m) = Len(n) + 1 /\ Len(n) \in Nat /\ m[Len(n) + 1] = c
          /\ \A i \in 1 .. Len(n) : m[i] = n[i]
      BY <2>1, AppendedTo DEF Name
    <2>4. ASSUME \A i \in 1 .. Len(m) : m[i] \notin {SLASH, TILDE}
          PROVE  E(n) = n /\ c \notin {SLASH, TILDE}
      <3>1. c \notin {SLASH, TILDE}
        <4>1. Len(n) + 1 \in 1 .. Len(m)
          BY <2>3
        <4> QED BY <2>3, <2>4, <4>1
      <3>2. \A i \in 1 .. Len(n) : n[i] \notin {SLASH, TILDE}
        <4>1. \A i \in 1 .. Len(n) : i \in 1 .. Len(m)
          BY <2>3
        <4> QED BY <2>3, <2>4, <4>1
      <3> QED BY <3>1, <3>2
    <2> HIDE DEF E, m
    <2>5. CASE c = TILDE \/ c = SLASH
      <3>1. PICK d \in {ZERO, ONE} : E(m) = Append(Append(E(n), TILDE), d)
        <4>1. PICK d \in {ZERO, ONE} : Escaped[c] = <<TILDE, d>>
          BY <2>5, CodesFacts
        <4>2. Join(E(n), Escaped[c]) = Append(Append(E(n), TILDE), d)
          BY <1>0, <2>2, <4>1, JoinTwo
        <4> QED BY <2>2, <4>2
      <3>2. E(m) \in Unmarked(SLASH)
        BY <1>0, <2>1, <3>1, UnmarkedAppend
      <3>3. E(m) # <<>>
        <4>1. Append(E(n), TILDE) \in Name
          BY <1>0, <2>2, NameSlots
        <4>2. d \in Nat
          BY <1>0
        <4>3. Append(Append(E(n), TILDE), d) # <<>>
          BY <4>1, <4>2, NotEmpty
        <4> QED BY <3>1, <4>3
      <3> QED BY <2>2, <2>4, <2>5, <3>2, <3>3 DEF m
    <2>6. CASE c # TILDE /\ c # SLASH
      <3>1. E(m) = Append(E(n), c)
        <4>1. Escaped[c] = <<c>>
          BY <2>6, CodesFacts
        <4>2. Join(E(n), Escaped[c]) = Append(E(n), c)
          BY <2>2, <4>1, JoinOne
        <4> QED BY <2>2, <4>2
      <3>2. E(m) \in Unmarked(SLASH)
        BY <1>0, <2>1, <2>6, <3>1, UnmarkedAppend
      <3>3. E(m) # <<>>
        BY <2>2, <3>1, NotEmpty
      <3>4. (\A i \in 1 .. Len(m) : m[i] \notin {SLASH, TILDE}) => E(m) = m
        BY <2>4, <3>1 DEF m
      <3> QED BY <2>2, <3>2, <3>3, <3>4 DEF m
    <2> QED BY <2>5, <2>6
  <1>3. T = Name
    <2> HIDE DEF T
    <2>1. T \subseteq Seq(Nat)
      BY DEF T, Name
    <2> QED BY <1>1, <1>2, <2>1, SequenceInduction DEF Name
  <1>4. name \in T
    BY <1>3
  <1>5. ToSet(name) \cap {SLASH, TILDE} = {} => \A i \in 1 .. Len(name) : name[i] \notin {SLASH, TILDE}
    <2>1. DOMAIN name = 1 .. Len(name)
      BY LenProperties DEF Name
    <2> QED BY <2>1 DEF ToSet
  <1> HIDE DEF E
  <1>6. E(name) \in Unmarked(SLASH) /\ (name # <<>> => E(name) # <<>>)
        /\ ((\A i \in 1 .. Len(name) : name[i] \notin {SLASH, TILDE}) => E(name) = name)
    BY <1>4
  <1>7. Escape(name) = E(name)
    BY EscapeIs DEF E
  <1> QED BY <1>5, <1>6, <1>7

-----------------------------------------------------------------------------
(* Pointers.  The names of a path are escaped, joined by slashes, and begin  *)
(* with one.                                                               *)

Escapes(path) == [k \in DOMAIN path |-> Escape(path[k])]

Slashed(path) == [k \in DOMAIN path |-> Join(<<SLASH>>, Escape(path[k]))]

LEMMA NameOctets ==
  /\ Name \subseteq Octets /\ Path \subseteq PartLists
  /\ SLASH \in Nat /\ SLASH \in Int /\ <<SLASH>> \in Name /\ <<SLASH>> \in Octets
  <1>1. Name \subseteq Octets
    BY SeqMonotonic DEF Name, Octets
  <1>2. Path \subseteq PartLists
    BY <1>1, SeqMonotonic DEF Path, PartLists
  <1>3. SLASH \in Nat /\ SLASH \in Int /\ <<SLASH>> \in Name
    BY DEF SLASH, Name
  <1> QED BY <1>1, <1>2, <1>3

LEMMA NamesJoined ==
  ASSUME NEW a \in Name, NEW b \in Name
  PROVE  Join(a, b) \in Name
  BY ConcatProperties DEF Name, Join

LEMMA PathSlots ==
  ASSUME NEW path \in Path
  PROVE  /\ DOMAIN path = 1 .. Len(path) /\ Len(path) \in Nat
         /\ \A k \in 1 .. Len(path) : path[k] \in Name
  BY LenProperties, ElementOfSeq DEF Path

LEMMA EscapesType ==
  ASSUME NEW path \in Path
  PROVE  /\ Escapes(path) \in Path /\ Len(Escapes(path)) = Len(path)
         /\ Escapes(path) \in UnmarkedLists(SLASH)
         /\ \A k \in 1 .. Len(path) : Escapes(path)[k] = Escape(path[k])
         /\ Escapes(path) = <<>> => path = <<>>
  <1>1. DOMAIN path = 1 .. Len(path) /\ Len(path) \in Nat /\ \A k \in 1 .. Len(path) : path[k] \in Name
    BY PathSlots
  <1>2. \A k \in 1 .. Len(path) : Escape(path[k]) \in Name /\ Escape(path[k]) \in Unmarked(SLASH)
    BY <1>1, EscapeSteps, EscapeUnmarked
  <1> DEFINE e == [k \in 1 .. Len(path) |-> Escape(path[k])]
  <1>3. Escapes(path) = e
    BY <1>1 DEF Escapes
  <1> HIDE DEF Path
  <1>4. e \in Seq(Name) /\ e \in Seq(Unmarked(SLASH)) /\ Len(e) = Len(path)
    BY <1>1, <1>2
  <1>5. \A k \in 1 .. Len(path) : e[k] = Escape(path[k])
    OBVIOUS
  <1> HIDE DEF e
  <1>6. e = <<>> => path = <<>>
    <2>1. e = <<>> => Len(path) = 0
      BY <1>4
    <2> QED BY <2>1, EmptySeq DEF Path
  <1> QED BY <1>3, <1>4, <1>5, <1>6 DEF Path, UnmarkedLists

LEMMA SlashedType ==
  ASSUME NEW path \in Path
  PROVE  /\ Slashed(path) \in Seq(Name) /\ Len(Slashed(path)) = Len(path)
         /\ \A k \in 1 .. Len(path) : Slashed(path)[k] = Join(<<SLASH>>, Escape(path[k]))
         /\ path # <<>> => PointerTo(path) = FlattenSeq(Slashed(path))
  <1>1. DOMAIN path = 1 .. Len(path) /\ Len(path) \in Nat /\ \A k \in 1 .. Len(path) : path[k] \in Name
    BY PathSlots
  <1>2. \A k \in 1 .. Len(path) : Join(<<SLASH>>, Escape(path[k])) \in Name
    BY <1>1, EscapeSteps, NameOctets, NamesJoined
  <1> DEFINE e == [k \in 1 .. Len(path) |-> Join(<<SLASH>>, Escape(path[k]))]
  <1>3. Slashed(path) = e
    BY <1>1 DEF Slashed
  <1>4. e \in Seq(Name) /\ Len(e) = Len(path)
    BY <1>1, <1>2
  <1>5. path # <<>> => PointerTo(path) = FlattenSeq(Slashed(path))
    BY Zenon DEF PointerTo, Slashed, Join
  <1> QED BY <1>3, <1>4, <1>5

\* Both are extended name by name.
LEMMA PathAppend ==
  ASSUME NEW path \in Path, NEW name \in Name
  PROVE  /\ Append(path, name) \in Path /\ Append(path, name) # <<>>
         /\ Escapes(Append(path, name)) = Append(Escapes(path), Escape(name))
         /\ Slashed(Append(path, name)) = Append(Slashed(path), Join(<<SLASH>>, Escape(name)))
  <1> DEFINE all == Append(path, name)
             n == Len(path)
             x == Escape(name)
             y == Join(<<SLASH>>, x)
             e == Append(Escapes(path), x)
             s == Append(Slashed(path), y)
  <1>1. /\ all \in Path /\ Len(all) = n + 1 /\ n \in Nat /\ all[n + 1] = name
        /\ \A i \in 1 .. n : all[i] = path[i]
    BY AppendedTo DEF Path
  <1>2. all # <<>>
    <2>1. Len(<<>>) = 0
      OBVIOUS
    <2> QED BY <1>1, <2>1
  <1>3. x \in Name /\ y \in Name
    BY EscapeSteps, NameOctets, NamesJoined
  <1>4. /\ Escapes(path) \in Seq(Name) /\ Len(Escapes(path)) = n
        /\ \A k \in 1 .. n : Escapes(path)[k] = Escape(path[k])
    BY EscapesType DEF Path
  <1>5. /\ Slashed(path) \in Seq(Name) /\ Len(Slashed(path)) = n
        /\ \A k \in 1 .. n : Slashed(path)[k] = Join(<<SLASH>>, Escape(path[k]))
    BY SlashedType
  <1> HIDE DEF all
  <1>6. /\ Escapes(all) \in Seq(Name) /\ Len(Escapes(all)) = n + 1
        /\ \A k \in 1 .. n + 1 : Escapes(all)[k] = Escape(all[k])
    <2>1. Escapes(all) \in Path
      BY <1>1, EscapesType
    <2> QED BY <1>1, <2>1, EscapesType DEF Path
  <1>7. /\ Slashed(all) \in Seq(Name) /\ Len(Slashed(all)) = n + 1
        /\ \A k \in 1 .. n + 1 : Slashed(all)[k] = Join(<<SLASH>>, Escape(all[k]))
    BY <1>1, SlashedType
  <1>8. \A k \in 1 .. n + 1 : k = n + 1 \/ k \in 1 .. n
    BY <1>1
  <1> HIDE DEF x, y
  <1>9. e \in Seq(Name) /\ Len(e) = n + 1 /\ e[n + 1] = x /\ \A k \in 1 .. n : e[k] = Escapes(path)[k]
    BY <1>3, <1>4, AppendedTo
  <1>10. s \in Seq(Name) /\ Len(s) = n + 1 /\ s[n + 1] = y /\ \A k \in 1 .. n : s[k] = Slashed(path)[k]
    BY <1>3, <1>5, AppendedTo
  <1> HIDE DEF e, s
  <1>11. Escapes(all) = e
    <2>1. \A k \in 1 .. n + 1 : Escapes(all)[k] = e[k]
      BY <1>1, <1>4, <1>6, <1>8, <1>9 DEF x
    <2> QED BY <1>6, <1>9, <2>1, SeqEqual
  <1>12. Slashed(all) = s
    <2>1. \A k \in 1 .. n + 1 : Slashed(all)[k] = s[k]
      BY <1>1, <1>5, <1>7, <1>8, <1>10 DEF x, y
    <2> QED BY <1>7, <1>10, <2>1, SeqEqual
  <1> QED BY <1>1, <1>2, <1>11, <1>12 DEF all, e, s, x, y

LEMMA PointerIs ==
  ASSUME NEW path \in Path, path # <<>>
  PROVE  PointerTo(path) = Join(<<SLASH>>, JoinedBy(Escapes(path), SLASH))
  <1> DEFINE m == <<SLASH>>
             J(p) == JoinedBy(Escapes(p), SLASH)
             F(p) == FlattenSeq(Slashed(p))
             T == {p \in Path : p # <<>> => F(p) = Join(m, J(p))}
  <1>1. <<>> \in T
    BY EmptySeq DEF Path
  <1>2. ASSUME NEW p \in T, NEW n \in Name PROVE Append(p, n) \in T
    <2> DEFINE all == Append(p, n)
               x == Escape(n)
    <2>1. p \in Path /\ (p # <<>> => F(p) = Join(m, J(p)))
      OBVIOUS
    <2>2. /\ all \in Path /\ Escapes(all) = Append(Escapes(p), x)
          /\ Slashed(all) = Append(Slashed(p), Join(m, x))
      BY <2>1, PathAppend
    <2>3. x \in Name /\ m \in Name /\ Join(m, x) \in Name /\ Slashed(p) \in Seq(Name)
      BY <2>1, EscapeSteps, NameOctets, NamesJoined, SlashedType
    <2>4. x \in Octets /\ m \in Octets /\ Escapes(p) \in PartLists /\ J(p) \in Octets /\ SLASH \in Int
      BY <2>1, <2>3, NameOctets, EscapesType, JoinedType
    <2> HIDE DEF all, x, m
    <2>5. F(all) = Join(F(p), Join(m, x))
      BY <2>2, <2>3, FlattenAppend DEF Name, Join
    <2>6. J(all) = IF Escapes(p) = <<>> THEN x ELSE Join(Append(J(p), SLASH), x)
      BY <2>2, <2>4, JoinedAppend
    <2>7. CASE p = <<>>
      <3>1. Escapes(p) = <<>> /\ Slashed(p) = <<>>
        BY <2>7 DEF Escapes, Slashed
      <3>2. F(p) = <<>> /\ J(all) = x
        BY <2>6, <3>1, FlattenEmpty
      <3>3. Join(<<>>, Join(m, x)) = Join(m, x)
        BY <2>4, OctetsJoined, OctetsEmpty
      <3> QED BY <2>2, <2>5, <3>2, <3>3 DEF all
    <2>8. CASE p # <<>>
      <3>1. J(all) = Join(Append(J(p), SLASH), x)
        BY <2>1, <2>6, <2>8, EscapesType
      <3>2. Append(J(p), SLASH) = Join(J(p), m)
        <4>1. J(p) \in Seq(Int)
          BY <2>4 DEF Octets
        <4> HIDE DEF J
        <4>2. Append(J(p), SLASH) = J(p) \o <<SLASH>>
          BY <2>4, <4>1
        <4> QED BY <4>2 DEF Join, m
      <3>3. F(p) = Join(m, J(p))
        BY <2>1, <2>8
      <3> HIDE DEF F, J
      <3>4. Join(Join(m, J(p)), Join(m, x)) = Join(m, Join(J(p), Join(m, x)))
        BY <2>4, OctetsJoined, OctetsAssociate
      <3>5. Join(J(p), Join(m, x)) = Join(Join(J(p), m), x)
        BY <2>4, OctetsAssociate
      <3>6. F(all) = Join(m, J(all))
        BY <2>5, <3>1, <3>2, <3>3, <3>4, <3>5
      <3> QED BY <2>2, <3>6 DEF all, F, J
    <2> QED BY <2>7, <2>8
  <1>3. T = Path
    <2> HIDE DEF T
    <2>1. T \subseteq Seq(Name)
      BY DEF T, Path
    <2> QED BY <1>1, <1>2, <2>1, SequenceInduction DEF Path
  <1>4. F(path) = Join(m, J(path))
    BY <1>3
  <1> QED BY <1>4, SlashedType

LEMMA PointerType ==
  ASSUME NEW path \in Path
  PROVE  PointerTo(path) \in Name
  <1>1. CASE path = <<>>
    BY <1>1, NameOctets DEF PointerTo
  <1>2. CASE path # <<>>
    BY <1>2, SlashedType, FlattenType DEF Name
  <1> QED BY <1>1, <1>2

LEMMA JoinCancel ==
  ASSUME NEW a \in Octets, NEW b \in Octets, NEW c \in Octets, Join(c, a) = Join(c, b)
  PROVE  a = b
  <1>1. Len(a) \in Nat /\ Len(b) \in Nat /\ Len(c) \in Nat /\ Len(c) + Len(a) = Len(c) + Len(b)
    <2>1. Len(Join(c, a)) = Len(c) + Len(a) /\ Len(Join(c, b)) = Len(c) + Len(b)
      BY OctetsJoined
    <2> QED BY <2>1, OctetsJoined
  <1>2. Len(a) = Len(b)
    BY ONLY <1>1
  <1>3. \A i \in 1 .. Len(a) : a[i] = b[i]
    <2>1. /\ \A i \in 1 .. Len(a) : Join(c, a)[Len(c) + i] = a[i]
          /\ \A i \in 1 .. Len(b) : Join(c, b)[Len(c) + i] = b[i]
      BY OctetsHalves
    <2> QED BY <1>2, <2>1
  <1> QED BY <1>2, <1>3, OctetsEqual

LEMMA EscapesInjective ==
  ASSUME NEW p \in Path, NEW q \in Path, Escapes(p) = Escapes(q)
  PROVE  p = q
  <1>1. Len(p) = Len(q)
    BY EscapesType
  <1>2. \A k \in 1 .. Len(p) : p[k] = q[k]
    <2> SUFFICES ASSUME NEW k \in 1 .. Len(p) PROVE p[k] = q[k]
      OBVIOUS
    <2>1. Escape(p[k]) = Escape(q[k]) /\ p[k] \in Name /\ q[k] \in Name
      BY <1>1, EscapesType, PathSlots
    <2> QED BY <2>1, EscapeUndone
  <1> QED BY <1>1, <1>2, SeqEqual DEF Path

\* Two paths that are not empty have two pointers.
LEMMA PointerInjective ==
  ASSUME NEW p \in Path, NEW q \in Path, p # <<>>, q # <<>>, PointerTo(p) = PointerTo(q)
  PROVE  p = q
  <1> DEFINE J(x) == JoinedBy(Escapes(x), SLASH)
  <1>1. /\ Escapes(p) \in UnmarkedLists(SLASH) /\ Escapes(p) # <<>> /\ Escapes(p) \in PartLists
        /\ Escapes(q) \in UnmarkedLists(SLASH) /\ Escapes(q) # <<>> /\ Escapes(q) \in PartLists
    BY EscapesType, NameOctets
  <1>2. J(p) \in Octets /\ J(q) \in Octets
    BY <1>1, JoinedType, NameOctets
  <1>3. Join(<<SLASH>>, J(p)) = Join(<<SLASH>>, J(q))
    BY PointerIs
  <1>4. J(p) = J(q)
    <2> HIDE DEF J
    <2> QED BY <1>2, <1>3, NameOctets, JoinCancel
  <1>5. Escapes(p) = Escapes(q)
    BY <1>1, <1>4, NameOctets, SplitJoined
  <1> QED BY <1>5, EscapesInjective

PrefixFree(paths) == \A p, q \in paths : IsPrefix(p, q) => p = q

\* The paths of a map have two pointers each: the empty one is alone.
LEMMA PointersDiffer ==
  ASSUME NEW paths \in SUBSET Path, PrefixFree(paths),
         NEW p \in paths, NEW q \in paths, PointerTo(p) = PointerTo(q)
  PROVE  p = q
  <1>1. \A x \in Path : IsPrefix(<<>>, x)
    <2>1. \A x \in Path : Len(<<>>) <= Len(x) /\ \A i \in 1 .. Len(<<>>) : (<<>>)[i] = x[i]
      BY PathSlots
    <2>2. <<>> \in Seq(Name)
      BY EmptySeq
    <2> QED BY <2>1, <2>2, PrefixMeans DEF Path
  <1>2. p \in Path /\ q \in Path
    OBVIOUS
  <1>3. CASE p = <<>>
    BY <1>1, <1>2, <1>3, Zenon DEF PrefixFree
  <1>4. CASE q = <<>>
    BY <1>1, <1>2, <1>4, Zenon DEF PrefixFree
  <1>5. CASE p # <<>> /\ q # <<>>
    BY <1>2, <1>5, PointerInjective
  <1> QED BY <1>3, <1>4, <1>5

-----------------------------------------------------------------------------
(* Reading a pointer again.                                                *)

\* The path under which a pointer is put into a map.
StoredPath(pointer) ==
  IF pointer = <<SLASH>> THEN <<>>
  ELSE [k \in DOMAIN Parts(TrimmedLeft(pointer)) |->
          Escape(Unescape(Parts(TrimmedLeft(pointer))[k]))]

LEMMA TrimmedType ==
  ASSUME NEW s \in Name
  PROVE  TrimmedLeft(s) \in Name
  <1> DEFINE keep == {i \in DOMAIN s : s[i] # SLASH}
             first == CHOOSE i \in keep : \A j \in keep : i <= j
  <1>1. DOMAIN s = 1 .. Len(s) /\ Len(s) \in Nat
    BY LenProperties DEF Name
  <1>2. CASE keep = {}
    BY <1>2, NameSlots DEF TrimmedLeft
  <1>3. CASE keep # {}
    <2>1. first \in keep
      <3>1. keep \subseteq Nat
        BY <1>1
      <3> HIDE DEF keep
      <3> QED BY <1>3, <3>1, LeastNumber
    <2>2. SubSeq(s, first, Len(s)) \in Name
      <3>1. first \in 1 .. Len(s)
        BY <1>1, <2>1
      <3> HIDE DEF first
      <3> QED BY <1>1, <3>1, SubSeqProperties DEF Name
    <2> QED BY <1>3, <2>2 DEF TrimmedLeft
  <1> QED BY <1>2, <1>3

LEMMA PartsType ==
  ASSUME NEW s \in Name
  PROVE  Parts(s) \in Path
  <1> DEFINE P(t) == SplitBy(t, SLASH)
             T == {t \in Name : P(t) \in Path}
  <1>1. <<>> \in T
    <2>1. P(<<>>) = <<<<>>>>
      BY SplitNothing
    <2>2. <<>> \in Name
      BY NameSlots
    <2>3. \A n \in Name : <<n>> \in Path
      BY DEF Path
    <2> HIDE DEF P
    <2>4. P(<<>>) \in Path
      BY <2>1, <2>2, <2>3
    <2> QED BY <2>2, <2>4 DEF P
  <1>2. ASSUME NEW t \in T, NEW c \in Nat PROVE Append(t, c) \in T
    <2>1. t \in Name /\ P(t) \in Path /\ t \in Octets /\ c \in Int
      BY NameOctets
    <2>2. P(Append(t, c)) = Step(P(t), c, SLASH)
      BY <2>1, SplitAppend
    <2>3. Append(t, c) \in Name
      BY <2>1, AppendName
    <2> HIDE DEF P
    <2>4. Step(P(t), c, SLASH) \in Path
      <3>1. CASE c = SLASH
        <4>1. Step(P(t), c, SLASH) = Append(P(t), <<>>)
          BY <3>1, StepMark
        <4> QED BY <2>1, <4>1, NameSlots, AppendedTo DEF Path
      <3>2. CASE c # SLASH
        <4> DEFINE p == P(t)
                   n == Len(p)
        <4>1. Step(p, c, SLASH) = [p EXCEPT ![n] = Append(p[n], c)]
          BY <3>2 DEF Step
        <4>2. p \in Seq(Name) /\ DOMAIN p = 1 .. n /\ n \in Nat /\ \A k \in 1 .. n : p[k] \in Name
          BY <2>1, PathSlots DEF Path
        <4> HIDE DEF p
        <4>3. \A k \in 1 .. n : Append(p[k], c) \in Name
          BY <4>2, AppendName
        <4> DEFINE q == [p EXCEPT ![n] = Append(p[n], c)]
        <4>4. q = [k \in 1 .. n |-> IF k = n THEN Append(p[n], c) ELSE p[k]]
          BY <4>2
        <4>5. q \in [1 .. n -> Name]
          BY <4>2, <4>3, <4>4
        <4>6. q \in Seq(Name)
          BY <4>2, <4>5, SeqDef
        <4> QED BY <4>1, <4>6 DEF p, Path
      <3> QED BY <3>1, <3>2
    <2> QED BY <2>2, <2>3, <2>4 DEF P
  <1>3. T = Name
    <2> HIDE DEF T
    <2>1. T \subseteq Seq(Nat)
      BY DEF T, Name
    <2> QED BY <1>1, <1>2, <2>1, SequenceInduction DEF Name
  <1> QED BY <1>3 DEF Parts

LEMMA StoredType ==
  ASSUME NEW pointer \in Name
  PROVE  StoredPath(pointer) \in Path
  <1>1. CASE pointer = <<SLASH>>
    BY <1>1, EmptySeq DEF StoredPath, Path
  <1>2. CASE pointer # <<SLASH>>
    <2> DEFINE parts == Parts(TrimmedLeft(pointer))
               n == Len(parts)
    <2>1. parts \in Path
      BY TrimmedType, PartsType
    <2> HIDE DEF parts
    <2>2. DOMAIN parts = 1 .. n /\ n \in Nat /\ \A k \in 1 .. n : parts[k] \in Name
      BY <2>1, PathSlots
    <2>3. \A k \in 1 .. n : Escape(Unescape(parts[k])) \in Name
      <3>1. TILDE \in Nat /\ SLASH \in Nat
        BY DEF TILDE, SLASH
      <3>2. \A x \in Name : Unescape(x) \in Name
        BY <3>1, ReplaceIs DEF Unescape
      <3> QED BY <2>2, <3>2, EscapeSteps
    <2>4. [k \in 1 .. n |-> Escape(Unescape(parts[k]))] \in Seq(Name)
      <3> HIDE DEF n
      <3>1. [k \in 1 .. n |-> Escape(Unescape(parts[k]))] \in [1 .. n -> Name]
        BY <2>3
      <3> QED BY <2>2, <3>1, SeqDef
    <2> QED BY <1>2, <2>2, <2>4 DEF StoredPath, Path, parts
  <1> QED BY <1>1, <1>2

\* What stands between the slashes begins with no slash when the first name
\* is not empty.
LEMMA JoinedFirst ==
  ASSUME NEW path \in Path, path # <<>>, path[1] # <<>>
  PROVE  /\ JoinedBy(Escapes(path), SLASH) # <<>>
         /\ JoinedBy(Escapes(path), SLASH)[1] # SLASH
  <1> DEFINE J(p) == JoinedBy(Escapes(p), SLASH)
             T == {p \in Path : p # <<>> /\ p[1] # <<>> =>
                                  J(p) \in Octets /\ Len(J(p)) >= 1 /\ J(p)[1] # SLASH}
  <1>1. <<>> \in T
    BY EmptySeq DEF Path
  <1>2. ASSUME NEW p \in T, NEW n \in Name PROVE Append(p, n) \in T
    <2> DEFINE all == Append(p, n)
               x == Escape(n)
    <2>1. p \in Path /\ (p # <<>> /\ p[1] # <<>> => Len(J(p)) >= 1 /\ J(p)[1] # SLASH)
      OBVIOUS
    <2>2. all \in Path /\ Escapes(all) = Append(Escapes(p), x)
      BY <2>1, PathAppend
    <2>3. /\ x \in Octets /\ Escapes(p) \in PartLists /\ J(p) \in Octets /\ SLASH \in Int
          /\ Escapes(all) \in PartLists /\ J(all) \in Octets
      BY <2>1, <2>2, EscapeSteps, NameOctets, EscapesType, JoinedType
    <2>4. /\ Len(p) \in Nat /\ all[Len(p) + 1] = n /\ \A i \in 1 .. Len(p) : all[i] = p[i]
      BY <2>1, AppendedTo DEF Path
    <2> HIDE DEF all, x
    <2>5. J(all) = IF Escapes(p) = <<>> THEN x ELSE Join(Append(J(p), SLASH), x)
      BY <2>2, <2>3, JoinedAppend
    <2> SUFFICES ASSUME all[1] # <<>> PROVE Len(J(all)) >= 1 /\ J(all)[1] # SLASH
      BY <2>2, <2>3 DEF all
    <2>6. CASE p = <<>>
      <3>1. Escapes(p) = <<>> /\ Len(p) = 0
        BY <2>6 DEF Escapes
      <3>2. J(all) = x /\ n # <<>>
        BY <2>4, <2>5, <3>1
      <3>3. x # <<>> /\ x \in Seq(Int \ {SLASH})
        BY <3>2, EscapeUnmarked DEF x, Unmarked
      <3>4. Len(x) \in Nat /\ Len(x) # 0
        BY <3>3, EmptySeq, LenProperties
      <3>5. Len(x) >= 1 /\ x[1] # SLASH
        BY <3>3, <3>4, ElementOfSeq
      <3> QED BY <3>2, <3>5
    <2>7. CASE p # <<>>
      <3>1. Len(p) # 0
        BY <2>1, <2>7, EmptySeq DEF Path
      <3>2. p[1] # <<>>
        <4>1. 1 \in 1 .. Len(p)
          BY <2>4, <3>1
        <4> QED BY <2>4, <4>1
      <3>3. J(all) = Join(Append(J(p), SLASH), x)
        BY <2>1, <2>5, <2>7, EscapesType
      <3>4. Len(J(p)) >= 1 /\ J(p)[1] # SLASH
        BY <2>1, <2>7, <3>2
      <3> DEFINE a == Append(J(p), SLASH)
      <3> HIDE DEF J
      <3>5. a \in Octets /\ Len(a) = Len(J(p)) + 1 /\ Len(J(p)) \in Nat /\ a[1] = J(p)[1]
        <4>1. 1 \in 1 .. Len(J(p))
          BY <2>3, <3>4, LenProperties DEF Octets
        <4> QED BY <2>3, <4>1, AppendedTo DEF Octets
      <3> HIDE DEF a
      <3>6. Len(Join(a, x)) = Len(a) + Len(x) /\ Len(a) \in Nat /\ Len(x) \in Nat
        BY <2>3, <3>5, OctetsJoined
      <3>7. Join(a, x)[1] = a[1]
        <4>1. 1 \in 1 .. Len(a)
          BY <3>4, <3>5
        <4> QED BY <2>3, <3>5, <4>1, OctetsHalves
      <3> QED BY <3>3, <3>4, <3>5, <3>6, <3>7 DEF a
    <2> QED BY <2>6, <2>7
  <1>3. T = Path
    <2> HIDE DEF T
    <2>1. T \subseteq Seq(Name)
      BY DEF T, Path
    <2> QED BY <1>1, <1>2, <2>1, SequenceInduction DEF Path
  <1>4. Len(J(path)) >= 1 /\ J(path)[1] # SLASH
    BY <1>3
  <1>5. Len(<<>>) = 0
    OBVIOUS
  <1> QED BY <1>4, <1>5

LEMMA TrimmedJoined ==
  ASSUME NEW b \in Octets, b # <<>>, b[1] # SLASH
  PROVE  TrimmedLeft(Join(<<SLASH>>, b)) = b
  <1> DEFINE m == <<SLASH>>
             s == Join(m, b)
             keep == {i \in DOMAIN s : s[i] # SLASH}
  <1>1. m \in Octets /\ Len(m) = 1 /\ m[1] = SLASH
    BY NameOctets
  <1> HIDE DEF m
  <1>2. s \in Octets /\ Len(s) = 1 + Len(b) /\ Len(b) \in Nat /\ Len(b) # 0
    <2>1. Len(b) # 0
      BY EmptySeq DEF Octets
    <2> QED BY <1>1, <2>1, OctetsJoined
  <1>3. s[1] = SLASH /\ \A i \in 1 .. Len(b) : s[1 + i] = b[i]
    <2>1. 1 \in 1 .. Len(m)
      BY <1>1
    <2>2. /\ \A i \in 1 .. Len(m) : s[i] = m[i]
          /\ \A i \in 1 .. Len(b) : s[Len(m) + i] = b[i]
      BY <1>1, OctetsHalves
    <2> HIDE DEF s
    <2> QED BY <1>1, <2>1, <2>2
  <1> HIDE DEF s
  <1>4. DOMAIN s = 1 .. 1 + Len(b)
    BY <1>2, LenProperties DEF Octets
  <1>5. 2 \in keep /\ \A i \in keep : 2 <= i
    <2>1. 1 \in 1 .. Len(b) /\ 2 \in 1 .. 1 + Len(b) /\ 1 + 1 = 2
      BY <1>2
    <2>2. s[2] # SLASH
      BY <1>3, <2>1
    <2>3. \A i \in 1 .. 1 + Len(b) : i = 1 \/ 2 <= i
      BY <1>2
    <2> QED BY <1>3, <1>4, <2>1, <2>2, <2>3
  <1>6. \A i \in keep : i \in Int
    BY <1>2, <1>4
  <1> HIDE DEF keep
  <1>7. (CHOOSE i \in keep : \A j \in keep : i <= j) = 2
    <2>1. \A i \in keep : (\A j \in keep : i <= j) => i = 2
      BY <1>5, <1>6
    <2> QED BY <1>5, <2>1
  <1>8. TrimmedLeft(s) = SubSeq(s, 2, Len(s))
    BY <1>5, <1>7, Zenon DEF TrimmedLeft, keep
  <1>9. SubSeq(s, 2, Len(s)) = b
    <2> DEFINE u == SubSeq(s, 2, Len(s))
    <2>1. u \in Seq(Int) /\ Len(u) = Len(b) /\ \A i \in 1 .. Len(b) : u[i] = s[1 + i]
      BY <1>2 DEF Octets
    <2> HIDE DEF u
    <2>2. \A i \in 1 .. Len(u) : u[i] = b[i]
      BY <1>3, <2>1
    <2>3. u = b
      BY <2>1, <2>2, OctetsEqual DEF Octets
    <2> QED BY <2>3 DEF u
  <1> QED BY <1>8, <1>9 DEF s, m

LEMMA StoredNamed ==
  ASSUME NEW path \in Path, path # <<>>, path[1] # <<>>
  PROVE  StoredPath(PointerTo(path)) = Escapes(path)
  <1> DEFINE b == JoinedBy(Escapes(path), SLASH)
             e == Escapes(path)
             n == Len(path)
  <1>1. /\ e \in UnmarkedLists(SLASH) /\ e # <<>> /\ e \in PartLists /\ e \in Path /\ Len(e) = n
        /\ \A k \in 1 .. n : e[k] = Escape(path[k])
    BY EscapesType, NameOctets
  <1>2. b \in Octets /\ b # <<>> /\ b[1] # SLASH
    BY <1>1, JoinedType, NameOctets, JoinedFirst
  <1>3. PointerTo(path) = Join(<<SLASH>>, b)
    BY PointerIs
  <1>4. Parts(b) = e
    BY <1>1, NameOctets, SplitJoined DEF Parts
  <1> HIDE DEF b, e
  <1>5. TrimmedLeft(PointerTo(path)) = b
    BY <1>2, <1>3, TrimmedJoined
  <1>6. PointerTo(path) # <<SLASH>>
    <2>1. Len(Join(<<SLASH>>, b)) = Len(<<SLASH>>) + Len(b) /\ Len(b) \in Nat
      BY <1>2, NameOctets, OctetsJoined
    <2>2. Len(b) # 0
      BY <1>2, EmptySeq DEF Octets
    <2>3. Len(<<SLASH>>) = 1
      OBVIOUS
    <2>4. Len(Join(<<SLASH>>, b)) # 1
      <3>1. Len(Join(<<SLASH>>, b)) = 1 + Len(b)
        BY <2>1, <2>3, Zenon
      <3>2. \A k \in Nat : k # 0 => 1 + k # 1
        OBVIOUS
      <3> QED BY <2>1, <2>2, <3>1, <3>2, Zenon
    <2> QED BY <1>3, <2>3, <2>4
  <1>7. DOMAIN e = 1 .. n /\ DOMAIN path = 1 .. n /\ \A k \in 1 .. n : path[k] \in Name
    BY <1>1, PathSlots
  <1>8. \A k \in 1 .. n : Escape(Unescape(e[k])) = Escape(path[k])
    BY <1>1, <1>7, EscapeUndone
  <1>9. StoredPath(PointerTo(path)) = [k \in DOMAIN e |-> Escape(Unescape(e[k]))]
    BY <1>4, <1>5, <1>6, Zenon DEF StoredPath
  <1>10. [k \in DOMAIN e |-> Escape(Unescape(e[k]))] = [k \in DOMAIN path |-> Escape(path[k])]
    BY <1>7, <1>8
  <1> QED BY <1>9, <1>10 DEF e, Escapes

-----------------------------------------------------------------------------
(* Placing pointers.  PlaceAll is a recursive function: the lemmas first     *)
(* give its steps, then what every map it yields satisfies.                *)

PlaceStep(maps, pointers, first_index, m) ==
  UNION {insert_at_pointer(map, pointers[m], first_index + m - 1) : map \in maps}

IsPlaced(f, pointers, first_index, n) ==
  f = [m \in 0 .. n |-> IF m = 0 THEN {{}} ELSE PlaceStep(f[m - 1], pointers, first_index, m)]

LEMMA PlacedExists ==
  ASSUME NEW pointers, NEW first_index, NEW n \in Nat
  PROVE  \E f : IsPlaced(f, pointers, first_index, n)
  <1> DEFINE N == {k \in Nat : \E f : IsPlaced(f, pointers, first_index, k)}
             S(maps, m) == PlaceStep(maps, pointers, first_index, m)
  <1> HIDE DEF S
  <1>1. 0 \in N
    <2> DEFINE g == [m \in 0 .. 0 |-> {{}}]
    <2>1. g = [m \in 0 .. 0 |-> IF m = 0 THEN {{}} ELSE S(g[m - 1], m)]
      OBVIOUS
    <2>2. IsPlaced(g, pointers, first_index, 0)
      BY <2>1 DEF IsPlaced, S
    <2> QED BY <2>2
  <1>2. ASSUME NEW k \in Nat, k \in N PROVE k + 1 \in N
    <2>1. PICK f : f = [m \in 0 .. k |-> IF m = 0 THEN {{}} ELSE S(f[m - 1], m)]
      BY <1>2 DEF IsPlaced, S
    <2> DEFINE g == [m \in 0 .. k + 1 |-> IF m = k + 1 THEN S(f[k], k + 1) ELSE f[m]]
               h == [m \in 0 .. k + 1 |-> IF m = 0 THEN {{}} ELSE S(g[m - 1], m)]
    <2>2. /\ \A m \in 0 .. k : m \in 0 .. k + 1 /\ m # k + 1
          /\ \A m \in 0 .. k + 1 : m = 0 \/ m \in 1 .. k + 1
          /\ \A m \in 1 .. k + 1 : m - 1 \in 0 .. k /\ m - 1 \in 0 .. k + 1 /\ m - 1 # k + 1 /\ m # 0
          /\ \A m \in 1 .. k + 1 : m = k + 1 \/ m \in 0 .. k
          /\ (k + 1) - 1 = k /\ 0 \in 0 .. k /\ 0 \in 0 .. k + 1
      OBVIOUS
    <2>3. \A m \in 0 .. k : g[m] = f[m]
      BY <2>2
    <2>4. g[k + 1] = S(f[k], k + 1)
      OBVIOUS
    <2>5. f[0] = {{}} /\ \A m \in 0 .. k : m # 0 => f[m] = S(f[m - 1], m)
      BY <2>1, <2>2
    <2> HIDE DEF N
    <2>6. ASSUME NEW m \in 0 .. k + 1
          PROVE  g[m] = IF m = 0 THEN {{}} ELSE S(g[m - 1], m)
      <3>1. CASE m = 0
        BY <2>2, <2>3, <2>5, <3>1
      <3>2. CASE m = k + 1
        BY <2>2, <2>3, <2>4, <3>2
      <3>3. CASE m # 0 /\ m # k + 1
        <4>1. m \in 0 .. k /\ m \in 1 .. k + 1
          BY <3>3
        <4> QED BY <2>2, <2>3, <2>5, <3>3, <4>1
      <3> QED BY <3>1, <3>2, <3>3
    <2>7. g = h
      <3>1. \A m \in 0 .. k + 1 : g[m] = h[m]
        BY <2>6
      <3> QED BY <3>1
    <2>8. IsPlaced(g, pointers, first_index, k + 1)
      BY <2>7 DEF IsPlaced, S
    <2> QED BY <2>8 DEF N
  <1>3. Nat \subseteq N
    <2> HIDE DEF N
    <2> QED BY <1>1, <1>2, NumberInduction
  <1> QED BY <1>3

LEMMA PlaceAllSteps ==
  ASSUME NEW pointers, NEW first_index, Len(pointers) \in Nat
  PROVE  \E f : /\ f[0] = {{}}
                /\ \A m \in 1 .. Len(pointers) : f[m] = PlaceStep(f[m - 1], pointers, first_index, m)
                /\ PlaceAll(pointers, first_index) = f[Len(pointers)]
  <1> DEFINE n == Len(pointers)
             f == CHOOSE g : IsPlaced(g, pointers, first_index, n)
  <1>1. IsPlaced(f, pointers, first_index, n)
    BY PlacedExists
  <1>2. PlaceAll(pointers, first_index) = f[n]
    BY DEF PlaceAll, IsPlaced, PlaceStep
  <1> HIDE DEF f
  <1>3. f[0] = {{}}
    BY <1>1 DEF IsPlaced
  <1>4. \A m \in 1 .. n : f[m] = PlaceStep(f[m - 1], pointers, first_index, m)
    <2>1. \A m \in 1 .. n : m \in 0 .. n /\ m # 0
      OBVIOUS
    <2> QED BY <1>1, <2>1 DEF IsPlaced
  <1> QED BY <1>2, <1>3, <1>4

Put(map, path, index) ==
  {leaf \in map : ~IsPrefix(path, leaf.path)} \cup {[path |-> path, index |-> index]}

LEMMA InsertIs ==
  ASSUME NEW map, NEW pointer, NEW index
  PROVE  insert_at_pointer(map, pointer, index)
           = IF \E leaf \in map : IsStrictPrefix(leaf.path, StoredPath(pointer)) THEN {}
             ELSE {Put(map, StoredPath(pointer), index)}
  BY Zenon DEF insert_at_pointer, StoredPath, Put

\* What each map satisfies after m pointers: no leaf lies on the way to
\* another, the indices are those given so far, and the last one is there.
Apart(map) == \A l, k \in map : IsPrefix(l.path, k.path) => l = k

Filled(map, first_index, m) ==
  /\ map \in SUBSET Leaf /\ IsFiniteSet(map) /\ Apart(map)
  /\ \A leaf \in map : leaf.index \in first_index .. (first_index + m - 1)
  /\ m > 0 => \E leaf \in map : leaf.index = first_index + m - 1

LEMMA PutFilled ==
  ASSUME NEW first_index \in Nat, NEW m \in Nat \ {0}, NEW map, Filled(map, first_index, m - 1),
         NEW path \in Path, ~ \E leaf \in map : IsStrictPrefix(leaf.path, path)
  PROVE  Filled(Put(map, path, first_index + m - 1), first_index, m)
  <1> DEFINE i == first_index + m - 1
             new == [path |-> path, index |-> i]
             kept == {leaf \in map : ~IsPrefix(path, leaf.path)}
             put == Put(map, path, i)
  <1>1. i \in Nat /\ i \in first_index .. i
    OBVIOUS
  <1>2. put = kept \cup {new} /\ kept \subseteq map
    BY DEF Put
  <1>3. new \in Leaf /\ new.index = i /\ new.path = path
    BY <1>1 DEF Leaf
  <1>4. put \in SUBSET Leaf
    BY <1>2, <1>3 DEF Filled
  <1>5. IsFiniteSet(put)
    <2>1. IsFiniteSet(kept)
      BY <1>2, FS_Subset DEF Filled
    <2> HIDE DEF kept, new, put
    <2> QED BY <1>2, <2>1, FS_AddElement
  <1>6. Apart(put)
    <2> SUFFICES ASSUME NEW l \in put, NEW k \in put, IsPrefix(l.path, k.path) PROVE l = k
      BY DEF Apart
    <2>1. CASE l \in kept /\ k \in kept
      BY <1>2, <2>1 DEF Filled, Apart
    <2>2. CASE l = new /\ k \in kept
      BY <1>3, <2>2
    <2>3. CASE l \in kept /\ k = new
      <3>1. IsPrefix(l.path, path) /\ l \in map
        BY <1>2, <1>3, <2>3
      <3>2. l.path = path
        BY <3>1 DEF IsStrictPrefix
      <3>3. IsPrefix(path, path)
        BY PrefixMeans, LenProperties DEF Path
      <3> QED BY <2>3, <3>2, <3>3
    <2> HIDE DEF new, kept
    <2> QED BY <1>2, <2>1, <2>2, <2>3
  <1>7. \A leaf \in put : leaf.index \in first_index .. i
    <2>1. \A leaf \in map : leaf.index \in first_index .. i
      <3>1. \A k \in first_index .. (first_index + (m - 1) - 1) : k \in first_index .. i
        OBVIOUS
      <3> QED BY <3>1 DEF Filled
    <2> HIDE DEF i, new, kept
    <2> QED BY <1>1, <1>2, <1>3, <2>1
  <1>8. \E leaf \in put : leaf.index = i
    BY <1>2, <1>3
  <1> HIDE DEF put
  <1> QED BY <1>4, <1>5, <1>6, <1>7, <1>8 DEF Filled, put

LEMMA PlacedFilled ==
  ASSUME NEW pointers \in Seq(Name), NEW first_index \in Nat,
         NEW map \in PlaceAll(pointers, first_index)
  PROVE  Filled(map, first_index, Len(pointers))
  <1> DEFINE n == Len(pointers)
  <1>1. n \in Nat /\ \A m \in 1 .. n : pointers[m] \in Name
    BY LenProperties, ElementOfSeq
  <1>2. PICK f : /\ f[0] = {{}}
                 /\ \A m \in 1 .. n : f[m] = PlaceStep(f[m - 1], pointers, first_index, m)
                 /\ PlaceAll(pointers, first_index) = f[n]
    BY <1>1, PlaceAllSteps
  <1> DEFINE N == {m \in Nat : m <= n => \A x \in f[m] : Filled(x, first_index, m)}
  <1>3. 0 \in N
    <2>1. Filled({}, first_index, 0)
      BY FS_EmptySet DEF Filled, Apart
    <2> QED BY <1>2, <2>1
  <1>4. ASSUME NEW m \in Nat, m \in N PROVE m + 1 \in N
    <2> SUFFICES ASSUME m + 1 <= n, NEW x \in f[m + 1] PROVE Filled(x, first_index, m + 1)
      OBVIOUS
    <2> DEFINE j == m + 1
    <2>1. j \in 1 .. n /\ j - 1 = m /\ j \in Nat \ {0} /\ m <= n
      BY <1>1
    <2>2. x \in PlaceStep(f[m], pointers, first_index, j)
      BY <1>2, <2>1
    <2> HIDE DEF j
    <2>3. PICK y \in f[m] : x \in insert_at_pointer(y, pointers[j], first_index + j - 1)
      BY <2>2 DEF PlaceStep
    <2> DEFINE path == StoredPath(pointers[j])
    <2>4. path \in Path
      BY <1>1, <2>1, StoredType
    <2> HIDE DEF path
    <2>5. /\ ~ \E leaf \in y : IsStrictPrefix(leaf.path, path)
          /\ x = Put(y, path, first_index + j - 1)
      BY <2>3, InsertIs DEF path
    <2>6. Filled(y, first_index, j - 1)
      BY <1>4, <2>1, <2>3
    <2> HIDE DEF N
    <2>7. Filled(x, first_index, j)
      BY <2>1, <2>4, <2>5, <2>6, PutFilled
    <2> QED BY <2>7 DEF j
  <1>5. Nat \subseteq N
    <2> HIDE DEF N
    <2> QED BY <1>3, <1>4, NumberInduction
  <1> QED BY <1>1, <1>2, <1>5

LEMMA EscapesPrefix ==
  ASSUME NEW p \in Path, NEW q \in Path, IsPrefix(Escapes(p), Escapes(q))
  PROVE  IsPrefix(p, q)
  <1>1. /\ Len(p) \in Nat /\ \A k \in 1 .. Len(p) : p[k] \in Name
        /\ Len(q) \in Nat /\ \A k \in 1 .. Len(q) : q[k] \in Name
    BY PathSlots
  <1>2. /\ Escapes(p) \in Path /\ Len(Escapes(p)) = Len(p) /\ \A k \in 1 .. Len(p) : Escapes(p)[k] = Escape(p[k])
        /\ Escapes(q) \in Path /\ Len(Escapes(q)) = Len(q) /\ \A k \in 1 .. Len(q) : Escapes(q)[k] = Escape(q[k])
    BY EscapesType
  <1>3. Len(p) <= Len(q) /\ \A k \in 1 .. Len(p) : Escapes(p)[k] = Escapes(q)[k]
    BY <1>2, PrefixMeans DEF Path
  <1>4. \A k \in 1 .. Len(p) : p[k] = q[k]
    <2> SUFFICES ASSUME NEW k \in 1 .. Len(p) PROVE p[k] = q[k]
      OBVIOUS
    <2>1. k \in 1 .. Len(q)
      BY <1>1, <1>3
    <2>2. Escape(p[k]) = Escape(q[k]) /\ p[k] \in Name /\ q[k] \in Name
      BY <1>1, <1>2, <1>3, <2>1
    <2> QED BY <2>2, EscapeUndone
  <1> QED BY <1>3, <1>4, PrefixMeans DEF Path

LeafOf(path, index) == [path |-> Escapes(path), index |-> index]

Placement(paths, first_index, n) == {LeafOf(paths[i], first_index + i - 1) : i \in 1 .. n}

\* Pointers of a document without empty names, in any order: each is placed
\* under its own names, and none is refused or replaced.
LEMMA PlacedNamed ==
  ASSUME NEW paths \in Seq(Path), NEW n \in Nat, Len(paths) = n, NEW first_index \in Nat,
         \A i \in 1 .. n : paths[i] # <<>> /\ paths[i][1] # <<>>,
         \A i, j \in 1 .. n : IsPrefix(paths[i], paths[j]) => i = j,
         NEW pointers \in Seq(Name), Len(pointers) = n,
         \A i \in 1 .. n : pointers[i] = PointerTo(paths[i])
  PROVE  PlaceAll(pointers, first_index) = {Placement(paths, first_index, n)}
  <1> DEFINE L(i) == LeafOf(paths[i], first_index + i - 1)
             M(m) == {L(i) : i \in 1 .. m}
  <1>1. PICK f : /\ f[0] = {{}}
                 /\ \A m \in 1 .. n : f[m] = PlaceStep(f[m - 1], pointers, first_index, m)
                 /\ PlaceAll(pointers, first_index) = f[n]
    <2>1. PICK f : /\ f[0] = {{}}
                   /\ \A m \in 1 .. Len(pointers) :
                        f[m] = PlaceStep(f[m - 1], pointers, first_index, m)
                   /\ PlaceAll(pointers, first_index) = f[Len(pointers)]
      <3>1. Len(pointers) \in Nat
        OBVIOUS
      <3> QED BY <3>1, PlaceAllSteps, Zenon
    <2> QED BY <2>1
  <1> DEFINE N == {m \in Nat : m <= n => f[m] = {M(m)}}
  <1>2. 0 \in N
    <2>1. M(0) = {}
      OBVIOUS
    <2> QED BY <1>1, <2>1
  <1>3. ASSUME NEW m \in Nat, m \in N PROVE m + 1 \in N
    <2> SUFFICES ASSUME m + 1 <= n PROVE f[m + 1] = {M(m + 1)}
      OBVIOUS
    <2> DEFINE j == m + 1
               i0 == first_index + j - 1
               path == Escapes(paths[j])
    <2>1. j \in 1 .. n /\ j - 1 = m /\ m <= n /\ \A i \in 1 .. m : i \in 1 .. n /\ i # j
      OBVIOUS
    <2>2. f[m] = {M(m)} /\ f[j] = PlaceStep(f[m], pointers, first_index, j)
      BY <1>1, <1>3, <2>1
    <2>3. \A i \in 1 .. n : paths[i] \in Path
      BY ElementOfSeq
    <2>4. StoredPath(pointers[j]) = path
      BY <2>1, <2>3, StoredNamed
    <2>5. ASSUME NEW i \in 1 .. m
          PROVE  ~ IsPrefix(Escapes(paths[i]), path) /\ ~ IsPrefix(path, Escapes(paths[i]))
      BY <2>1, <2>3, EscapesPrefix
    <2>6. \A i \in 1 .. m : L(i).path = Escapes(paths[i])
      BY DEF LeafOf
    <2>7. L(j) = [path |-> path, index |-> i0]
      BY DEF LeafOf
    <2> HIDE DEF L, path, i0
    <2>8. ~ \E leaf \in M(m) : IsStrictPrefix(leaf.path, path)
      BY <2>5, <2>6 DEF IsStrictPrefix
    <2>9. \A leaf \in M(m) : ~ IsPrefix(path, leaf.path)
      BY <2>5, <2>6
    <2>10. M(j) = M(m) \cup {L(j)}
      <3>1. \A i : i \in 1 .. j <=> i \in 1 .. m \/ i = j
        OBVIOUS
      <3> HIDE DEF j
      <3> QED BY <3>1
    <2> HIDE DEF M, N, j
    <2>11. Put(M(m), path, i0) = M(j)
      BY <2>7, <2>9, <2>10 DEF Put
    <2>12. insert_at_pointer(M(m), pointers[j], i0) = {M(j)}
      BY <2>4, <2>8, <2>11, InsertIs
    <2>13. f[j] = insert_at_pointer(M(m), pointers[j], i0)
      BY <2>2 DEF PlaceStep, i0
    <2> QED BY <2>12, <2>13 DEF j
  <1>4. Nat \subseteq N
    <2> HIDE DEF N
    <2> QED BY <1>2, <1>3, NumberInduction
  <1>5. f[n] = {M(n)}
    BY <1>4
  <1> QED BY <1>1, <1>5 DEF Placement

-----------------------------------------------------------------------------
(* What a header says when it parses.                                      *)

Entries(map) == {[pointer |-> PointerTo(leaf.path), index |-> leaf.index] : leaf \in map}

LEMMA EntriesIs ==
  ASSUME NEW map \in SUBSET Leaf, IsFiniteSet(map), Apart(map)
  PROVE  /\ Entries(map) \in SUBSET Entry /\ IsFiniteSet(Entries(map))
         /\ \A e, g \in Entries(map) : e.pointer = g.pointer => e = g
         /\ {e.index : e \in Entries(map)} = {leaf.index : leaf \in map}
  <1> DEFINE En(leaf) == [pointer |-> PointerTo(leaf.path), index |-> leaf.index]
             E == Entries(map)
  <1>0. E = {En(leaf) : leaf \in map}
    BY DEF Entries
  <1>1. \A leaf \in map : leaf.path \in Path /\ leaf.index \in Nat
    BY DEF Leaf
  <1>2. \A leaf \in map : /\ En(leaf) \in Entry
                          /\ En(leaf).pointer = PointerTo(leaf.path)
                          /\ En(leaf).index = leaf.index
    BY <1>1, PointerType DEF Entry
  <1>3. IsFiniteSet(E)
    <2> DEFINE f == [leaf \in map |-> En(leaf)]
    <2> HIDE DEF En
    <2>1. f \in Surjection(map, E)
      BY <1>0 DEF Surjection
    <2> QED BY <2>1, FS_Surjection
  <1>4. ASSUME NEW l \in map, NEW k \in map, En(l).pointer = En(k).pointer
        PROVE  l = k
    <2> DEFINE paths == {leaf.path : leaf \in map}
    <2>1. paths \in SUBSET Path
      BY <1>1
    <2>2. PrefixFree(paths)
      BY DEF Apart, PrefixFree
    <2>3. l.path \in paths /\ k.path \in paths /\ PointerTo(l.path) = PointerTo(k.path)
      BY <1>2, <1>4
    <2> HIDE DEF paths
    <2>4. l.path = k.path
      BY <2>1, <2>2, <2>3, PointersDiffer
    <2>5. IsPrefix(l.path, k.path)
      BY <1>1, <2>4, PrefixMeans, LenProperties DEF Path
    <2> QED BY <2>5 DEF Apart
  <1> HIDE DEF En, E
  <1>5. \A e, g \in E : e.pointer = g.pointer => e = g
    BY <1>0, <1>4
  <1>6. {e.index : e \in E} = {leaf.index : leaf \in map}
    BY <1>0, <1>2
  <1>7. E \in SUBSET Entry
    BY <1>0, <1>2
  <1> QED BY <1>3, <1>5, <1>6, <1>7 DEF E

\* n growing numbers in a range of n are all of it, in order.
Grows(s, n, a) ==
  /\ \A i \in 1 .. n : s[i] \in a .. a + n - 1
  /\ \A i, j \in 1 .. n : i < j => s[i] < s[j]

LEMMA Consecutive ==
  ASSUME NEW n \in Nat, NEW a \in Int, NEW s, Grows(s, n, a)
  PROVE  \A i \in 1 .. n : s[i] = a + i - 1
  <1> USE DEF Grows
  <1> DEFINE Up == {m \in Nat : m + 1 <= n => s[m + 1] >= a + m}
             Down == {m \in Nat : m + 1 <= n => s[n - m] <= a + n - 1 - m}
  <1>1. 0 \in Up
    <2>1. 1 <= n => 1 \in 1 .. n
      OBVIOUS
    <2> QED BY <2>1
  <1>2. ASSUME NEW m \in Nat, m \in Up PROVE m + 1 \in Up
    <2> SUFFICES ASSUME (m + 1) + 1 <= n PROVE s[(m + 1) + 1] >= a + (m + 1)
      OBVIOUS
    <2>1. m + 1 \in 1 .. n /\ (m + 1) + 1 \in 1 .. n /\ m + 1 < (m + 1) + 1
      OBVIOUS
    <2>2. s[m + 1] < s[(m + 1) + 1] /\ s[m + 1] >= a + m /\ s[m + 1] \in Int /\ s[(m + 1) + 1] \in Int
      BY <1>2, <2>1
    <2> QED BY <2>2
  <1>3. 0 \in Down
    <2>1. 1 <= n => n \in 1 .. n /\ n - 0 = n
      OBVIOUS
    <2> QED BY <2>1
  <1>4. ASSUME NEW m \in Nat, m \in Down PROVE m + 1 \in Down
    <2> SUFFICES ASSUME (m + 1) + 1 <= n PROVE s[n - (m + 1)] <= a + n - 1 - (m + 1)
      OBVIOUS
    <2>1. n - m \in 1 .. n /\ n - (m + 1) \in 1 .. n /\ n - (m + 1) < n - m
      OBVIOUS
    <2>2. s[n - (m + 1)] < s[n - m] /\ s[n - m] <= a + n - 1 - m /\ s[n - m] \in Int /\ s[n - (m + 1)] \in Int
      BY <1>4, <2>1
    <2> QED BY <2>2
  <1>5. Nat \subseteq Up /\ Nat \subseteq Down
    <2> HIDE DEF Up, Down
    <2> QED BY <1>1, <1>2, <1>3, <1>4, NumberInduction
  <1> TAKE i \in 1 .. n
  <1>6. i - 1 \in Up /\ n - i \in Down /\ (i - 1) + 1 = i /\ n - (n - i) = i /\ i <= n /\ (n - i) + 1 <= n
    BY <1>5
  <1>7. s[i] >= a + (i - 1) /\ s[i] <= a + n - 1 - (n - i)
    BY <1>6
  <1>8. s[i] \in Int
    OBVIOUS
  <1> QED BY <1>7, <1>8

Numbered(issuer, holder, a, b) ==
  /\ ByIndex(issuer) \in Seq(Entry) /\ ToSet(ByIndex(issuer)) = issuer /\ Len(ByIndex(issuer)) = a
  /\ ByIndex(holder) \in Seq(Entry) /\ ToSet(ByIndex(holder)) = holder /\ Len(ByIndex(holder)) = b
  /\ \A i \in 1 .. a : ByIndex(issuer)[i] \in issuer /\ ByIndex(issuer)[i].index = i - 1
  /\ \A i \in 1 .. b : ByIndex(holder)[i] \in holder /\ ByIndex(holder)[i].index = a + i - 1
  /\ {e.index : e \in issuer \cup holder} = 0 .. a + b - 1 /\ a + b > 0

\* Maps that cover 0 .. n - 1 with n leaves, the issuer's the low half, list
\* the messages in order.
LEMMA ParsedHalves ==
  ASSUME NEW issuer \in SUBSET Entry, NEW holder \in SUBSET Entry,
         IsFiniteSet(issuer), IsFiniteSet(holder), MapsOK(issuer, holder),
         NEW a \in Nat, NEW b \in Nat, a = Cardinality(issuer), b = Cardinality(holder)
  PROVE  Numbered(issuer, holder, a, b)
  <1> DEFINE s == ByIndex(issuer)
             t == ByIndex(holder)
             n == a + b
  <1>1. /\ s \in SetToSeqs(issuer) /\ \A i, j \in DOMAIN s : i < j => s[i].index <= s[j].index
        /\ t \in SetToSeqs(holder) /\ \A i, j \in DOMAIN t : i < j => t[i].index <= t[j].index
    BY ByIndexIs
  <1> HIDE DEF s, t
  <1>2. /\ s \in Seq(issuer) /\ Len(s) = a /\ DOMAIN s = 1 .. a /\ ToSet(s) = issuer
        /\ \A x \in issuer : \E i \in 1 .. a : s[i] = x
    BY <1>1, Enumerated
  <1>3. /\ t \in Seq(holder) /\ Len(t) = b /\ DOMAIN t = 1 .. b /\ ToSet(t) = holder
        /\ \A x \in holder : \E i \in 1 .. b : t[i] = x
    BY <1>1, Enumerated
  <1>4. /\ {e.index : e \in issuer \cup holder} = 0 .. n - 1 /\ n > 0
        /\ \A e \in issuer : e.index < a
    BY DEF MapsOK, CoverOnce
  <1>5. /\ \A i \in 1 .. a : s[i] \in issuer
        /\ \A i \in 1 .. b : t[i] \in holder
    BY <1>2, <1>3, ElementOfSeq
  <1>6. \A e \in issuer \cup holder : e.index \in 0 .. n - 1
    BY <1>4
  <1> DEFINE D == 1 .. n
             R == 0 .. n - 1
             g == [i \in D |-> IF i <= a THEN s[i].index ELSE t[i - a].index]
  <1>7. /\ \A i \in 1 .. a : i \in D /\ i <= a
        /\ \A i \in 1 .. b : a + i \in D /\ ~ (a + i <= a) /\ (a + i) - a = i
        /\ \A i \in D : i \in 1 .. a \/ (~ (i <= a) /\ i - a \in 1 .. b)
    OBVIOUS
  <1>8. /\ \A i \in 1 .. a : g[i] = s[i].index
        /\ \A i \in 1 .. b : g[a + i] = t[i].index
    BY <1>7
  <1>9. g \in [D -> R]
    <2>1. \A i \in D : g[i] \in R
      BY <1>5, <1>6, <1>7
    <2> QED BY <2>1
  <1>10. \A k \in R : \E i \in D : g[i] = k
    <2> SUFFICES ASSUME NEW k \in R PROVE \E i \in D : g[i] = k
      OBVIOUS
    <2> HIDE DEF g, D
    <2>1. PICK e \in issuer \cup holder : e.index = k
      BY <1>4
    <2>2. CASE e \in issuer
      <3>1. PICK i \in 1 .. a : s[i] = e
        BY <1>2, <2>2
      <3> QED BY <1>7, <1>8, <2>1, <3>1
    <2>3. CASE e \in holder
      <3>1. PICK i \in 1 .. b : t[i] = e
        BY <1>3, <2>3
      <3> QED BY <1>7, <1>8, <2>1, <3>1
    <2> QED BY <2>2, <2>3
  <1>11. \A i, j \in D : g[i] = g[j] => i = j
    <2> HIDE DEF g
    <2>1. g \in Surjection(D, R)
      BY <1>9, <1>10 DEF Surjection
    <2>2. IsFiniteSet(D) /\ Cardinality(D) = n /\ Cardinality(R) = n
      <3>1. IsFiniteSet(D) /\ Cardinality(D) = n
        BY <1>4, FS_Interval
      <3>2. Cardinality(R) = n
        BY <1>4, FS_Interval
      <3> QED BY <3>1, <3>2
    <2> HIDE DEF D, R
    <2>3. g \in Injection(D, R)
      BY <2>1, <2>2, FS_SurjSameCardinalityImpliesInj
    <2>4. DOMAIN g = D
      BY <1>9
    <2> QED BY <2>3, <2>4 DEF Injection, IsInjective
  <1>12. \A i \in D : g[i] \in Int
    <2>1. \A i \in D : g[i] \in R
      BY <1>9
    <2> QED BY <2>1
  <1> HIDE DEF g
  <1>13. \A i \in 1 .. a : g[i] = 0 + i - 1
    <2>1. \A i \in 1 .. a : g[i] \in 0 .. 0 + a - 1
      <3>1. \A i \in 1 .. a : g[i] \in R /\ g[i] < a
        BY <1>4, <1>5, <1>7, <1>8, <1>9
      <3> QED BY <3>1
    <2>2. ASSUME NEW i \in 1 .. a, NEW j \in 1 .. a, i < j PROVE g[i] < g[j]
      <3>1. g[i] <= g[j]
        <4>1. s[i].index <= s[j].index
          BY <1>1, <1>2, <2>2
        <4> QED BY <1>8, <4>1
      <3>2. g[i] # g[j] /\ g[i] \in Int /\ g[j] \in Int
        BY <1>7, <1>11, <1>12, <2>2
      <3> QED BY <3>1, <3>2
    <2> HIDE DEF D, R
    <2>3. Grows(g, a, 0)
      BY <2>1, <2>2 DEF Grows
    <2> QED BY <2>3, Consecutive
  <1>14. \A i \in 1 .. b : t[i].index = a + i - 1
    <2> DEFINE h == [i \in 1 .. b |-> t[i].index]
    <2>1. ASSUME NEW i \in 1 .. b PROVE h[i] = g[a + i] /\ h[i] \in a .. a + b - 1
      <3>1. h[i] = g[a + i] /\ a + i \in D /\ g[a + i] \in R
        BY <1>7, <1>8, <1>9
      <3>2. CASE g[a + i] < a
        <4> DEFINE k == g[a + i] + 1
        <4>1. k \in 1 .. a /\ k \in D /\ k # a + i /\ 0 + k - 1 = g[a + i]
          BY <3>1, <3>2
        <4>2. g[k] = g[a + i]
          BY <1>13, <4>1
        <4> QED BY <1>11, <3>1, <4>1, <4>2
      <3> QED BY <3>1, <3>2
    <2>2. ASSUME NEW i \in 1 .. b, NEW j \in 1 .. b, i < j PROVE h[i] < h[j]
      <3>1. h[i] <= h[j]
        BY <1>1, <1>3, <2>2
      <3>2. a + i \in D /\ a + j \in D /\ a + i # a + j
        BY <2>2
      <3>3. h[i] # h[j]
        BY <1>11, <2>1, <3>2
      <3>4. h[i] \in Int /\ h[j] \in Int
        <4>1. h[i] \in a .. a + b - 1 /\ h[j] \in a .. a + b - 1
          BY <2>1
        <4> QED BY <4>1
      <3> HIDE DEF h
      <3> QED BY <3>1, <3>3, <3>4
    <2>3. \A i \in 1 .. b : h[i] = t[i].index
      OBVIOUS
    <2> HIDE DEF h
    <2>4. \A i \in 1 .. b : h[i] = a + i - 1
      <3>1. Grows(h, b, a)
        BY <2>1, <2>2 DEF Grows
      <3> QED BY <3>1, Consecutive
    <2> QED BY <2>3, <2>4
  <1>15. \A i \in 1 .. a : s[i].index = i - 1
    BY <1>8, <1>13
  <1>16. s \in Seq(Entry) /\ t \in Seq(Entry)
    BY <1>2, <1>3, SeqMonotonic
  <1>17. /\ s \in Seq(Entry) /\ ToSet(s) = issuer /\ Len(s) = a
         /\ t \in Seq(Entry) /\ ToSet(t) = holder /\ Len(t) = b
    BY <1>2, <1>3, <1>16
  <1>18. \A i \in 1 .. a : s[i] \in issuer /\ s[i].index = i - 1
    BY <1>5, <1>15
  <1>19. \A i \in 1 .. b : t[i] \in holder /\ t[i].index = a + i - 1
    BY <1>5, <1>14
  <1>20. {e.index : e \in issuer \cup holder} = 0 .. a + b - 1 /\ a + b > 0
    BY <1>4
  <1> HIDE DEF n
  <1> QED BY <1>17, <1>18, <1>19, <1>20, Zenon DEF s, t, Numbered

-----------------------------------------------------------------------------
(* The documents and what the two parties make of them.                    *)

LEMMA LeavesOf ==
  ASSUME NEW doc, IsDocument(doc)
  PROVE  /\ collect_leaves(doc) \in SUBSET Name /\ IsFiniteSet(collect_leaves(doc))
         /\ Cardinality(collect_leaves(doc)) = Cardinality(doc) /\ Cardinality(doc) \in Nat
         /\ doc = {} <=> collect_leaves(doc) = {}
         /\ doc = {} <=> Cardinality(doc) = 0
  <1> DEFINE L == collect_leaves(doc)
             f == [path \in doc |-> PointerTo(path)]
  <1>1. IsFiniteSet(doc) /\ doc \in SUBSET Path /\ PrefixFree(doc)
    BY DEF IsDocument, PrefixFree
  <1>2. L = {PointerTo(path) : path \in doc}
    BY DEF collect_leaves
  <1>3. L \in SUBSET Name
    BY <1>1, <1>2, PointerType
  <1> HIDE DEF L
  <1>4. f \in [doc -> L] /\ \A x \in L : \E path \in doc : f[path] = x
    BY <1>2
  <1>5. \A p, q \in doc : f[p] = f[q] => p = q
    BY <1>1, PointersDiffer
  <1> HIDE DEF f
  <1>6. f \in Surjection(doc, L) /\ f \in Injection(doc, L)
    BY <1>4, <1>5 DEF Surjection, Injection, IsInjective
  <1>7. IsFiniteSet(L) /\ Cardinality(L) = Cardinality(doc)
    BY <1>1, <1>6, FS_Surjection
  <1>8. Cardinality(doc) \in Nat
    BY <1>1, FS_CardinalityType
  <1>9. doc = {} <=> Cardinality(doc) = 0
    BY <1>1, FS_EmptySet
  <1>10. doc = {} <=> L = {}
    BY <1>2
  <1> QED BY <1>3, <1>7, <1>8, <1>9, <1>10 DEF L

LEMMA CommittedIs ==
  ASSUME NEW doc, IsDocument(doc)
  PROVE  ToSet(committed_messages(doc)) = collect_leaves(doc)
  <1>1. CASE doc = {}
    <2>1. committed_messages(doc) = <<>> /\ collect_leaves(doc) = {}
      BY <1>1 DEF committed_messages, collect_leaves
    <2>2. ToSet(<<>>) = {}
      BY DEF ToSet
    <2> QED BY <2>1, <2>2
  <1>2. CASE doc # {}
    <2>1. committed_messages(doc) = Sorted(collect_leaves(doc))
      BY <1>2 DEF committed_messages
    <2>2. Sorted(collect_leaves(doc)) \in SetToSeqs(collect_leaves(doc))
      BY LeavesOf, SortedIs
    <2> QED BY <2>1, <2>2, LeavesOf, Enumerated
  <1> QED BY <1>1, <1>2

\* Either map of a document is made from its leaves in string order.
LEMMA SortedLeaves ==
  ASSUME NEW doc, IsDocument(doc)
  PROVE  /\ Sorted(collect_leaves(doc)) \in Seq(Name)
         /\ Len(Sorted(collect_leaves(doc))) = Cardinality(doc)
  <1>1. /\ collect_leaves(doc) \in SUBSET Name /\ IsFiniteSet(collect_leaves(doc))
        /\ Cardinality(collect_leaves(doc)) = Cardinality(doc)
    BY LeavesOf
  <1>2. Sorted(collect_leaves(doc)) \in SetToSeqs(collect_leaves(doc))
    BY <1>1, SortedIs
  <1>3. /\ Sorted(collect_leaves(doc)) \in Seq(collect_leaves(doc))
        /\ Len(Sorted(collect_leaves(doc))) = Cardinality(doc)
    BY <1>1, <1>2, Enumerated
  <1> QED BY <1>1, <1>3, SeqMonotonic

\* What JwpIssue may put in the header.
HolderMaps(a) == IF given = <<>> THEN {{}} ELSE build_cmap_from_pointers(given, a)

Issued ==
  {[cmap |-> cmap, hcmap |-> hcmap] :
     cmap \in build_cmap(claims, 0), hcmap \in HolderMaps(Cardinality(claims))}

\* The documents and the list that a request carries.
Asked ==
  /\ claims \in IssuerDocs /\ committed \in HolderDocs
  /\ given \in SetToSeqs(collect_leaves(committed))

LEMMA AskedFacts ==
  ASSUME JwpAssumption, Asked
  PROVE  /\ IsDocument(claims) /\ IsDocument(committed)
         /\ Cardinality(claims) \in Nat /\ Cardinality(committed) \in Nat
         /\ given \in Seq(collect_leaves(committed)) /\ Len(given) = Cardinality(committed)
         /\ ToSet(given) = collect_leaves(committed)
         /\ given = <<>> <=> committed = {}
  <1>1. IsDocument(claims) /\ IsDocument(committed)
    BY DEF JwpAssumption, Asked
  <1>2. Cardinality(claims) \in Nat
    BY <1>1, LeavesOf
  <1>3. /\ IsFiniteSet(collect_leaves(committed)) /\ Cardinality(committed) \in Nat
        /\ Cardinality(collect_leaves(committed)) = Cardinality(committed)
        /\ committed = {} <=> Cardinality(committed) = 0
    BY <1>1, LeavesOf
  <1>4. given \in SetToSeqs(collect_leaves(committed))
    BY DEF Asked
  <1>5. /\ given \in Seq(collect_leaves(committed)) /\ Len(given) = Cardinality(committed)
        /\ ToSet(given) = collect_leaves(committed)
    BY <1>3, <1>4, Enumerated
  <1>6. given = <<>> <=> Len(given) = 0
    BY <1>5, EmptySeq
  <1> QED BY <1>1, <1>2, <1>3, <1>5, <1>6

\* When the wallet's pointers are taken, they are placed in the order in which
\* the wallet numbered them, whatever order the request lists them in.
LEMMA HolderMapsIs ==
  ASSUME JwpAssumption, Asked, NEW a
  PROVE  /\ committed = {} => HolderMaps(a) = {{}}
         /\ committed # {} =>
              HolderMaps(a) = IF \/ Cardinality(committed) > MAX_MESSAGES
                                 \/ \E i \in DOMAIN given : ~IsPrefix(<<SLASH>>, given[i])
                              THEN {} ELSE PlaceAll(Sorted(collect_leaves(committed)), a)
  <1>1. committed = {} => HolderMaps(a) = {{}}
    BY AskedFacts DEF HolderMaps
  <1>2. ASSUME committed # {}
        PROVE  HolderMaps(a) = IF \/ Cardinality(committed) > MAX_MESSAGES
                                  \/ \E i \in DOMAIN given : ~IsPrefix(<<SLASH>>, given[i])
                               THEN {} ELSE PlaceAll(Sorted(collect_leaves(committed)), a)
    <2>1. /\ given # <<>> /\ Len(given) = Cardinality(committed)
          /\ ToSet(given) = collect_leaves(committed)
      BY <1>2, AskedFacts
    <2>2. Cardinality(ToSet(given)) = Len(given)
      BY <2>1, AskedFacts, LeavesOf
    <2> QED BY <2>1, <2>2, Zenon DEF HolderMaps, build_cmap_from_pointers
  <1> QED BY <1>1, <1>2

HeaderOK(h) ==
  /\ h \in Header
  /\ Filled(h.cmap, 0, Cardinality(claims))
  /\ Filled(h.hcmap, Cardinality(claims), Cardinality(committed))

LEMMA IssuedIs ==
  ASSUME JwpAssumption, Asked, NEW h \in Issued
  PROVE  HeaderOK(h)
  <1> DEFINE a == Cardinality(claims)
             b == Cardinality(committed)
  <1>1. /\ IsDocument(claims) /\ IsDocument(committed) /\ a \in Nat /\ b \in Nat
    BY AskedFacts
  <1>2. PICK cmap \in build_cmap(claims, 0), hcmap \in HolderMaps(a) :
          h = [cmap |-> cmap, hcmap |-> hcmap]
    BY DEF Issued
  <1>3. Filled(cmap, 0, a)
    <2>1. cmap \in PlaceAll(Sorted(collect_leaves(claims)), 0)
      BY <1>2 DEF build_cmap
    <2>2. Filled(cmap, 0, Len(Sorted(collect_leaves(claims))))
      BY <1>1, <2>1, SortedLeaves, PlacedFilled
    <2> QED BY <1>1, <2>2, SortedLeaves
  <1>4. Filled(hcmap, a, b)
    <2>1. CASE committed = {}
      <3>1. hcmap = {}
        BY <1>2, <2>1, HolderMapsIs
      <3>2. b = 0
        BY <1>1, <2>1, LeavesOf
      <3> HIDE DEF a, b
      <3>3. Filled({}, a, 0)
        BY FS_EmptySet DEF Filled, Apart
      <3> QED BY <3>1, <3>2, <3>3
    <2>2. CASE committed # {}
      <3>1. hcmap \in PlaceAll(Sorted(collect_leaves(committed)), a)
        BY <1>2, <2>2, HolderMapsIs
      <3>2. Filled(hcmap, a, Len(Sorted(collect_leaves(committed))))
        BY <1>1, <3>1, SortedLeaves, PlacedFilled
      <3> QED BY <1>1, <3>2, SortedLeaves
    <2> QED BY <2>1, <2>2
  <1>5. h \in Header /\ h.cmap = cmap /\ h.hcmap = hcmap
    BY <1>2, <1>3, <1>4 DEF Header, Filled
  <1> QED BY <1>3, <1>4, <1>5 DEF HeaderOK

\* What parse returns, if it returns anything.
LEMMA ParseIs ==
  ASSUME NEW h, NEW n, NEW v \in issued_header(h, n)
  PROVE  /\ v = [issuer_claims |-> ByIndex(Entries(h.cmap)), holder_claims |-> ByIndex(Entries(h.hcmap))]
         /\ MapsOK(Entries(h.cmap), Entries(h.hcmap))
         /\ Len(v.issuer_claims) = n
  <1>1. v \in parse(h) /\ Len(v.issuer_claims) = n
    BY DEF issued_header
  <1>2. PICK m \in walk_cmap(h.cmap) \X walk_cmap(h.hcmap) :
          /\ MapsOK(m[1], m[2])
          /\ v = [issuer_claims |-> ByIndex(m[1]), holder_claims |-> ByIndex(m[2])]
    BY <1>1 DEF parse
  <1>3. \A map : \A x \in walk_cmap(map) : x = Entries(map)
    BY Zenon DEF walk_cmap, Entries
  <1>4. m[1] \in walk_cmap(h.cmap) /\ m[2] \in walk_cmap(h.hcmap)
    BY <1>2
  <1>5. m[1] = Entries(h.cmap) /\ m[2] = Entries(h.hcmap)
    BY <1>3, <1>4
  <1> QED BY <1>1, <1>2, <1>5

\* The two halves of a header that parses, message by message.
Halves(v, h, a, b) ==
  /\ v = [issuer_claims |-> ByIndex(Entries(h.cmap)), holder_claims |-> ByIndex(Entries(h.hcmap))]
  /\ v.issuer_claims \in Seq(Entry) /\ Len(v.issuer_claims) = a
  /\ ToSet(v.issuer_claims) = Entries(h.cmap)
  /\ v.holder_claims \in Seq(Entry) /\ Len(v.holder_claims) = b
  /\ ToSet(v.holder_claims) = Entries(h.hcmap)
  /\ \A i \in 1 .. a : v.issuer_claims[i] \in Entries(h.cmap) /\ v.issuer_claims[i].index = i - 1
  /\ \A i \in 1 .. b : v.holder_claims[i] \in Entries(h.hcmap) /\ v.holder_claims[i].index = a + i - 1
  /\ \A e, g \in Entries(h.cmap) : e.pointer = g.pointer => e = g
  /\ \A e, g \in Entries(h.hcmap) : e.pointer = g.pointer => e = g

LEMMA ParsedIs ==
  ASSUME JwpAssumption, Asked, NEW h, HeaderOK(h), NEW v \in issued_header(h, Cardinality(claims))
  PROVE  Halves(v, h, Cardinality(claims), Cardinality(committed))
  <1> DEFINE a == Cardinality(claims)
             b == Cardinality(committed)
             E == Entries(h.cmap)
             F == Entries(h.hcmap)
             k == Cardinality(F)
  <1>1. a \in Nat /\ b \in Nat
    BY AskedFacts
  <1>2. /\ v = [issuer_claims |-> ByIndex(E), holder_claims |-> ByIndex(F)]
        /\ MapsOK(E, F) /\ Len(v.issuer_claims) = a
    BY ParseIs
  <1>3. Filled(h.cmap, 0, a) /\ Filled(h.hcmap, a, b)
    BY DEF HeaderOK
  <1>4. /\ E \in SUBSET Entry /\ IsFiniteSet(E)
        /\ \A e, g \in E : e.pointer = g.pointer => e = g
        /\ {e.index : e \in E} = {leaf.index : leaf \in h.cmap}
    BY <1>3, EntriesIs DEF Filled
  <1>5. /\ F \in SUBSET Entry /\ IsFiniteSet(F)
        /\ \A e, g \in F : e.pointer = g.pointer => e = g
        /\ {e.index : e \in F} = {leaf.index : leaf \in h.hcmap}
    BY <1>3, EntriesIs DEF Filled
  <1> HIDE DEF a, b, E, F
  <1>6. Cardinality(E) = a
    <2>1. ByIndex(E) \in SetToSeqs(E)
      BY <1>4, ByIndexIs
    <2>2. Len(ByIndex(E)) = Cardinality(E)
      BY <1>4, <2>1, Enumerated
    <2>3. v.issuer_claims = ByIndex(E)
      BY <1>2
    <2> QED BY <1>2, <2>2, <2>3
  <1>7. k \in Nat
    BY <1>5, FS_CardinalityType
  <1> HIDE DEF k
  <1>8. /\ ByIndex(E) \in Seq(Entry) /\ ToSet(ByIndex(E)) = E /\ Len(ByIndex(E)) = a
        /\ ByIndex(F) \in Seq(Entry) /\ ToSet(ByIndex(F)) = F /\ Len(ByIndex(F)) = k
        /\ \A i \in 1 .. a : ByIndex(E)[i] \in E /\ ByIndex(E)[i].index = i - 1
        /\ \A i \in 1 .. k : ByIndex(F)[i] \in F /\ ByIndex(F)[i].index = a + i - 1
        /\ {e.index : e \in E \cup F} = 0 .. a + k - 1 /\ a + k > 0
    <2>1. a = Cardinality(E) /\ k = Cardinality(F)
      BY <1>6 DEF k
    <2>2. Numbered(E, F, a, k)
      BY <1>1, <1>2, <1>4, <1>5, <1>7, <2>1, ParsedHalves
    <2> QED BY <2>2, Zenon DEF Numbered
  <1>9. k = b
    <2> DEFINE I == {leaf.index : leaf \in h.cmap}
               J == {leaf.index : leaf \in h.hcmap}
    <2>1. I \cup J = 0 .. a + k - 1
      <3>1. {e.index : e \in E \cup F} = {e.index : e \in E} \cup {e.index : e \in F}
        OBVIOUS
      <3> QED BY <1>4, <1>5, <1>8, <3>1
    <2>2. \A i \in I : i \in 0 .. (0 + a - 1)
      BY <1>3 DEF Filled
    <2>3. \A i \in J : i \in a .. (a + b - 1)
      BY <1>3 DEF Filled
    <2>4. b > 0 => a + b - 1 \in J
      BY <1>3 DEF Filled
    <2> HIDE DEF I, J
    <2>5. a + k - 1 \in I \cup J
      BY <1>1, <1>7, <1>8, <2>1
    <2>6. k <= b
      BY <1>1, <1>7, <2>2, <2>3, <2>5
    <2>7. b > 0 => a + b - 1 <= a + k - 1
      BY <1>1, <1>7, <2>1, <2>4
    <2> QED BY <1>1, <1>7, <2>6, <2>7
  <1>10. v.issuer_claims = ByIndex(E) /\ v.holder_claims = ByIndex(F)
    BY <1>2
  <1>11. /\ \A i \in 1 .. a : ByIndex(E)[i] \in E /\ ByIndex(E)[i].index = i - 1
         /\ \A i \in 1 .. b : ByIndex(F)[i] \in F /\ ByIndex(F)[i].index = a + i - 1
    BY <1>8, <1>9
  <1>12. /\ ByIndex(E) \in Seq(Entry) /\ ToSet(ByIndex(E)) = E /\ Len(ByIndex(E)) = a
         /\ ByIndex(F) \in Seq(Entry) /\ ToSet(ByIndex(F)) = F /\ Len(ByIndex(F)) = b
    BY <1>8, <1>9
  <1>13. \A e, g \in E : e.pointer = g.pointer => e = g
    BY <1>4
  <1>14. \A e, g \in F : e.pointer = g.pointer => e = g
    BY <1>5
  <1> QED BY <1>2, <1>10, <1>11, <1>12, <1>13, <1>14, Zenon DEF Halves, a, b, E, F

-----------------------------------------------------------------------------
(* The invariant: the header is one that JwpIssue makes of the documents,    *)
(* and the view is what parse makes of that header.                        *)

Views == IF header \in {NotYet, Refused} THEN {}
         ELSE Returned(issued_header(header, Cardinality(claims)))

JInv ==
  /\ Asked
  /\ header \in {NotYet} \cup Returned(Issued)
  /\ view \in {NotYet} \cup Views

LEMMA JwpInit == ASSUME JwpAssumption, Init PROVE JInv
  <1>1. IsDocument(committed)
    BY DEF JwpAssumption, Init
  <1>2. given \in SetToSeqs(collect_leaves(committed))
    BY <1>1, CommittedIs DEF Init
  <1> QED BY <1>2 DEF Init, JInv, Asked

LEMMA JwpStep == ASSUME JwpAssumption, JInv, [Next]_vars PROVE JInv'
  <1>1. CASE JwpIssue
    <2>1. view = NotYet
      <3>1. header = NotYet
        BY <1>1 DEF JwpIssue
      <3> QED BY <3>1 DEF JInv, Views
    <2>2. header' \in Returned(Issued)
      BY <1>1 DEF JwpIssue, Issued, HolderMaps
    <2>3. UNCHANGED <<claims, committed, given, view>>
      BY <1>1 DEF JwpIssue
    <2>4. Asked' /\ Issued' = Issued
      BY <2>3 DEF JInv, Asked, Issued, HolderMaps
    <2> QED BY <2>1, <2>2, <2>3, <2>4 DEF JInv
  <1>2. CASE Parse
    <2>1. UNCHANGED <<claims, committed, given, header>>
      BY <1>2 DEF Parse
    <2>2. Asked' /\ Issued' = Issued /\ Views' = Views
      BY <2>1 DEF JInv, Asked, Issued, HolderMaps, Views
    <2>3. view' \in Views
      BY <1>2 DEF Parse, Views
    <2>4. header' \in {NotYet} \cup Returned(Issued')
      BY <2>1, <2>2 DEF JInv
    <2> QED BY <2>2, <2>3, <2>4 DEF JInv
  <1>3. CASE UNCHANGED vars
    <2>1. UNCHANGED <<claims, committed, given, header, view>>
      BY <1>3 DEF vars
    <2>2. Asked' /\ Issued' = Issued /\ Views' = Views
      BY <2>1 DEF JInv, Asked, Issued, HolderMaps, Views
    <2> QED BY <2>1, <2>2 DEF JInv
  <1> QED BY <1>1, <1>2, <1>3 DEF Next

\* A header that was issued, and a header that parsed.
LEMMA JwpStates ==
  ASSUME JwpAssumption, JInv
  PROVE  /\ header \notin {NotYet, Refused} => header \in Issued /\ HeaderOK(header)
         /\ Parsed => /\ header \in Issued /\ HeaderOK(header)
                      /\ view \in issued_header(header, Cardinality(claims))
                      /\ Halves(view, header, Cardinality(claims), Cardinality(committed))
  <1>1. Asked
    BY DEF JInv
  <1>2. ASSUME header \notin {NotYet, Refused} PROVE header \in Issued /\ HeaderOK(header)
    <2>1. header \in Issued
      BY <1>2 DEF JInv, Returned
    <2> QED BY <1>1, <2>1, IssuedIs
  <1>3. ASSUME Parsed
        PROVE  /\ header \notin {NotYet, Refused}
               /\ view \in issued_header(header, Cardinality(claims))
    BY <1>3 DEF JInv, Parsed, Views, Returned
  <1> QED BY <1>1, <1>2, <1>3, ParsedIs

-----------------------------------------------------------------------------
(* What follows for the wallet that reads a header.                        *)

InTwo(w, s, t, a, b) ==
  /\ DOMAIN w = 1 .. a + b /\ Len(w) = a + b
  /\ \A i \in 1 .. a : i \in 1 .. a + b /\ w[i] = s[i]
  /\ \A i \in 1 .. b : a + i \in 1 .. a + b /\ w[a + i] = t[i]
  /\ \A i \in 1 .. a + b : i \in 1 .. a \/ \E j \in 1 .. b : i = a + j
  /\ ToSet(w) = ToSet(s) \cup ToSet(t)

LEMMA WholeIs ==
  ASSUME NEW S, NEW s \in Seq(S), NEW t \in Seq(S), NEW a \in Nat, NEW b \in Nat,
         a = Len(s), b = Len(t)
  PROVE  InTwo(s \o t, s, t, a, b)
  <1> DEFINE w == s \o t
  <1>1. /\ w \in Seq(S) /\ Len(w) = a + b /\ DOMAIN w = 1 .. a + b
        /\ \A i \in 1 .. a + b : w[i] = IF i <= a THEN s[i] ELSE t[i - a]
    BY ConcatProperties, LenProperties
  <1> HIDE DEF w
  <1>2. /\ \A i \in 1 .. a : i \in 1 .. a + b /\ i <= a
        /\ \A i \in 1 .. b : a + i \in 1 .. a + b /\ ~ (a + i <= a) /\ (a + i) - a = i
    OBVIOUS
  <1>3. \A i \in 1 .. a + b : i \in 1 .. a \/ (i - a \in 1 .. b /\ i = a + (i - a))
    OBVIOUS
  <1>4. /\ \A i \in 1 .. a : i \in 1 .. a + b /\ w[i] = s[i]
        /\ \A i \in 1 .. b : a + i \in 1 .. a + b /\ w[a + i] = t[i]
    <2>1. ASSUME NEW i \in 1 .. a PROVE w[i] = s[i]
      <3>1. i \in 1 .. a + b /\ i <= a
        BY <1>2
      <3> QED BY <1>1, <3>1, Zenon
    <2>2. ASSUME NEW i \in 1 .. b PROVE w[a + i] = t[i]
      <3>1. a + i \in 1 .. a + b /\ ~ (a + i <= a) /\ (a + i) - a = i
        BY <1>2
      <3>2. w[a + i] = t[(a + i) - a]
        BY <1>1, <3>1, Zenon
      <3> QED BY <3>1, <3>2, Zenon
    <2> QED BY <1>2, <2>1, <2>2
  <1>5. \A i \in 1 .. a + b : i \in 1 .. a \/ \E j \in 1 .. b : i = a + j
    BY <1>3
  <1>6. ToSet(w) = ToSet(s) \cup ToSet(t)
    <2>1. DOMAIN s = 1 .. a /\ DOMAIN t = 1 .. b
      BY LenProperties
    <2>2. /\ \A x : x \in ToSet(w) <=> \E i \in 1 .. a + b : w[i] = x
          /\ \A x : x \in ToSet(s) <=> \E i \in 1 .. a : s[i] = x
          /\ \A x : x \in ToSet(t) <=> \E i \in 1 .. b : t[i] = x
      BY <1>1, <2>1 DEF ToSet
    <2>3. ASSUME NEW x PROVE (\E i \in 1 .. a + b : w[i] = x)
                              <=> (\E i \in 1 .. a : s[i] = x) \/ (\E i \in 1 .. b : t[i] = x)
      <3> DEFINE D == 1 .. a + b
                 A == 1 .. a
                 B == 1 .. b
      <3>1. /\ \A i \in A : i \in D /\ w[i] = s[i]
            /\ \A i \in B : a + i \in D /\ w[a + i] = t[i]
            /\ \A i \in D : i \in A \/ \E j \in B : i = a + j
        BY <1>4, <1>5
      <3> HIDE DEF D, A, B
      <3>2. (\E i \in D : w[i] = x) <=> (\E i \in A : s[i] = x) \/ (\E i \in B : t[i] = x)
        <4>1. ASSUME NEW i \in D, w[i] = x PROVE (\E k \in A : s[k] = x) \/ (\E k \in B : t[k] = x)
          <5>1. CASE i \in A
            BY <3>1, <4>1, <5>1
          <5>2. ASSUME NEW j \in B, i = a + j PROVE t[j] = x
            BY <3>1, <4>1, <5>2
          <5> QED BY <3>1, <5>1, <5>2
        <4>2. ASSUME NEW i \in A, s[i] = x PROVE \E k \in D : w[k] = x
          BY <3>1, <4>2
        <4>3. ASSUME NEW i \in B, t[i] = x PROVE \E k \in D : w[k] = x
          BY <3>1, <4>3
        <4> QED BY <4>1, <4>2, <4>3
      <3> QED BY <3>2 DEF D, A, B
    <2>4. \A x : x \in ToSet(w) <=> x \in ToSet(s) \/ x \in ToSet(t)
      BY <2>2, <2>3, Zenon
    <2> QED BY <2>4
  <1>7. InTwo(w, s, t, a, b)
    BY <1>1, <1>4, <1>5, <1>6, Zenon DEF InTwo
  <1> QED BY <1>7 DEF w

LEMMA CommittedLength ==
  ASSUME NEW doc, IsDocument(doc)
  PROVE  committed_messages(doc) \in Seq(Name) /\ Len(committed_messages(doc)) = Cardinality(doc)
  <1>1. CASE doc = {}
    <2>1. committed_messages(doc) = <<>> /\ Cardinality(doc) = 0
      BY <1>1, LeavesOf DEF committed_messages
    <2>2. Len(<<>>) = 0
      OBVIOUS
    <2> QED BY <2>1, <2>2, EmptySeq
  <1>2. CASE doc # {}
    BY <1>2, SortedLeaves DEF committed_messages
  <1> QED BY <1>1, <1>2

\* The message vector has as many slots as the documents have leaves.
LEMMA SignedSlots ==
  ASSUME JwpAssumption, Asked
  PROVE  DOMAIN SignedPointers = 1 .. Cardinality(claims) + Cardinality(committed)
  <1>1. /\ Sorted(collect_leaves(claims)) \in Seq(Name)
        /\ Len(Sorted(collect_leaves(claims))) = Cardinality(claims)
        /\ committed_messages(committed) \in Seq(Name)
        /\ Len(committed_messages(committed)) = Cardinality(committed)
        /\ Cardinality(claims) \in Nat /\ Cardinality(committed) \in Nat
    BY AskedFacts, SortedLeaves, CommittedLength
  <1> DEFINE s == Sorted(collect_leaves(claims))
             t == committed_messages(committed)
  <1> HIDE DEF s, t
  <1>2. InTwo(s \o t, s, t, Cardinality(claims), Cardinality(committed))
    BY <1>1, WholeIs DEF s, t
  <1>3. SignedPointers = s \o t
    BY DEF SignedPointers, s, t
  <1> QED BY <1>2, <1>3, Zenon DEF InTwo

Whole == view.issuer_claims \o view.holder_claims

\* The issuer's messages and the holder's, one after the other.
Listed(w, issuer, holder, a, b) ==
  /\ DOMAIN w = 1 .. a + b
  /\ \A i \in 1 .. a + b : w[i].index = i - 1
  /\ \A i \in 1 .. a : i \in 1 .. a + b /\ w[i] \in issuer
  /\ \A i \in 1 .. b : a + i \in 1 .. a + b /\ w[a + i] \in holder
  /\ \A i \in 1 .. a + b : i \in 1 .. a \/ \E j \in 1 .. b : i = a + j
  /\ ToSet(w) = issuer \cup holder

LEMMA WholeView ==
  ASSUME NEW h, NEW a \in Nat, NEW b \in Nat, Halves(view, h, a, b)
  PROVE  Listed(Whole, Entries(h.cmap), Entries(h.hcmap), a, b)
  <1> DEFINE s == view.issuer_claims
             t == view.holder_claims
  <1>1. /\ s \in Seq(Entry) /\ Len(s) = a /\ ToSet(s) = Entries(h.cmap)
        /\ t \in Seq(Entry) /\ Len(t) = b /\ ToSet(t) = Entries(h.hcmap)
        /\ \A i \in 1 .. a : s[i] \in Entries(h.cmap) /\ s[i].index = i - 1
        /\ \A i \in 1 .. b : t[i] \in Entries(h.hcmap) /\ t[i].index = a + i - 1
    BY Zenon DEF Halves
  <1> HIDE DEF s, t
  <1> DEFINE w == s \o t
  <1>2. InTwo(w, s, t, a, b)
    BY <1>1, WholeIs
  <1> HIDE DEF w
  <1>3. /\ DOMAIN w = 1 .. a + b
        /\ \A i \in 1 .. a : i \in 1 .. a + b /\ w[i] = s[i]
        /\ \A i \in 1 .. b : a + i \in 1 .. a + b /\ w[a + i] = t[i]
        /\ \A i \in 1 .. a + b : i \in 1 .. a \/ \E j \in 1 .. b : i = a + j
        /\ ToSet(w) = ToSet(s) \cup ToSet(t)
    BY <1>2, Zenon DEF InTwo
  <1>4. Whole = w
    BY DEF Whole, w, s, t
  <1>5. \A i \in 1 .. a + b : w[i].index = i - 1
    <2> SUFFICES ASSUME NEW i \in 1 .. a + b PROVE w[i].index = i - 1
      OBVIOUS
    <2>1. CASE i \in 1 .. a
      BY <1>1, <1>3, <2>1
    <2>2. ASSUME NEW j \in 1 .. b, i = a + j PROVE w[i].index = i - 1
      <3>1. w[i] = t[j] /\ t[j].index = a + j - 1
        BY <1>1, <1>3, <2>2
      <3> QED BY <2>2, <3>1
    <2> QED BY <1>3, <2>1, <2>2
  <1>6. /\ \A i \in 1 .. a : w[i] \in Entries(h.cmap)
        /\ \A i \in 1 .. b : w[a + i] \in Entries(h.hcmap)
    BY <1>1, <1>3
  <1>7. ToSet(w) = Entries(h.cmap) \cup Entries(h.hcmap)
    BY <1>1, <1>3
  <1> QED BY <1>3, <1>4, <1>5, <1>6, <1>7, Zenon DEF Listed

LEMMA TypeOKHolds == ASSUME JwpAssumption, JInv PROVE TypeOK
  <1> DEFINE a == Cardinality(claims)
             b == Cardinality(committed)
  <1>1. Asked
    BY DEF JInv
  <1>2. given \in Seq({PointerTo(path) : path \in committed})
    BY <1>1, AskedFacts DEF collect_leaves
  <1>3. header \in Header \cup {NotYet, Refused}
    BY JwpStates DEF HeaderOK
  <1>4. ASSUME Parsed
        PROVE  /\ view \in View
               /\ \A e \in ToSet(view.issuer_claims \o view.holder_claims) :
                    e.index < Len(view.issuer_claims) + Len(view.holder_claims)
    <2>1. Halves(view, header, a, b) /\ a \in Nat /\ b \in Nat
      BY <1>1, <1>4, JwpStates, AskedFacts
    <2> HIDE DEF a, b
    <2>2. /\ view = [issuer_claims |-> ByIndex(Entries(header.cmap)), holder_claims |-> ByIndex(Entries(header.hcmap))]
          /\ view.issuer_claims \in Seq(Entry) /\ view.holder_claims \in Seq(Entry)
          /\ Len(view.issuer_claims) = a /\ Len(view.holder_claims) = b
      BY <2>1, Zenon DEF Halves
    <2>3. view \in View
      BY <2>2 DEF View
    <2>4. DOMAIN Whole = 1 .. a + b /\ \A i \in 1 .. a + b : Whole[i].index = i - 1
      <3>1. Listed(Whole, Entries(header.cmap), Entries(header.hcmap), a, b)
        BY <2>1, WholeView
      <3> QED BY <3>1, Zenon DEF Listed
    <2>5. \A e \in ToSet(Whole) : e.index < a + b
      <3>1. \A e \in ToSet(Whole) : \E i \in 1 .. a + b : e = Whole[i]
        BY <2>4 DEF ToSet
      <3>2. \A i \in 1 .. a + b : i - 1 < a + b
        BY <2>1
      <3> QED BY <2>4, <3>1, <3>2
    <2> QED BY <2>2, <2>3, <2>5 DEF Whole
  <1>5. view \in View \cup {NotYet, Refused}
    BY <1>4 DEF Parsed
  <1>6. view \in View => Parsed
    BY DEF JwpAssumption, Parsed
  <1>7. claims \in IssuerDocs /\ committed \in HolderDocs
    BY <1>1 DEF Asked
  <1> QED BY <1>2, <1>3, <1>4, <1>5, <1>6, <1>7 DEF TypeOK

LEMMA EveryMessageNamedHolds == ASSUME JwpAssumption, JInv PROVE EveryMessageNamed
  <1> DEFINE a == Cardinality(claims)
             b == Cardinality(committed)
  <1> SUFFICES ASSUME Parsed
               PROVE  /\ Len(view.issuer_claims) = a /\ Len(view.holder_claims) = b
                      /\ \A i \in DOMAIN SignedPointers : Whole[i].index = i - 1
                      /\ IsInjective([i \in DOMAIN view.issuer_claims |-> view.issuer_claims[i].pointer])
                      /\ IsInjective([i \in DOMAIN view.holder_claims |-> view.holder_claims[i].pointer])
    BY DEF EveryMessageNamed, Whole
  <1>1. Halves(view, header, a, b) /\ a \in Nat /\ b \in Nat /\ DOMAIN SignedPointers = 1 .. a + b
    BY JwpStates, AskedFacts, SignedSlots DEF JInv
  <1> HIDE DEF a, b
  <1> DEFINE s == view.issuer_claims
             t == view.holder_claims
  <1>2. /\ s \in Seq(Entry) /\ Len(s) = a /\ t \in Seq(Entry) /\ Len(t) = b
        /\ \A i \in 1 .. a : s[i] \in Entries(header.cmap) /\ s[i].index = i - 1
        /\ \A i \in 1 .. b : t[i] \in Entries(header.hcmap) /\ t[i].index = a + i - 1
        /\ \A e, g \in Entries(header.cmap) : e.pointer = g.pointer => e = g
        /\ \A e, g \in Entries(header.hcmap) : e.pointer = g.pointer => e = g
    BY <1>1, Zenon DEF Halves
  <1>3. \A i \in 1 .. a + b : Whole[i].index = i - 1
    <2>1. Listed(Whole, Entries(header.cmap), Entries(header.hcmap), a, b)
      BY <1>1, WholeView
    <2> QED BY <2>1, Zenon DEF Listed
  <1> HIDE DEF s, t
  <1>4. DOMAIN s = 1 .. a /\ DOMAIN t = 1 .. b
    BY <1>2, LenProperties
  <1>5. \A i, j \in 1 .. a : s[i].pointer = s[j].pointer => i = j
    <2> SUFFICES ASSUME NEW i \in 1 .. a, NEW j \in 1 .. a, s[i].pointer = s[j].pointer PROVE i = j
      OBVIOUS
    <2>1. s[i].index = i - 1 /\ s[j].index = j - 1 /\ s[i] = s[j]
      BY <1>2
    <2> QED BY <2>1
  <1>6. \A i, j \in 1 .. b : t[i].pointer = t[j].pointer => i = j
    <2> SUFFICES ASSUME NEW i \in 1 .. b, NEW j \in 1 .. b, t[i].pointer = t[j].pointer PROVE i = j
      OBVIOUS
    <2>1. t[i].index = a + i - 1 /\ t[j].index = a + j - 1 /\ t[i] = t[j]
      BY <1>2
    <2>2. a + i - 1 = a + j - 1
      BY <2>1
    <2> QED BY <1>1, <2>2
  <1>7. IsInjective([i \in DOMAIN s |-> s[i].pointer])
    BY <1>4, <1>5 DEF IsInjective
  <1>8. IsInjective([i \in DOMAIN t |-> t[i].pointer])
    BY <1>4, <1>6 DEF IsInjective
  <1> QED BY <1>1, <1>2, <1>3, <1>7, <1>8 DEF s, t

LEMMA DisclosesRequestedHolds == ASSUME JwpAssumption, JInv PROVE DisclosesRequested
  <1> DEFINE a == Cardinality(claims)
             b == Cardinality(committed)
             E == Entries(header.cmap)
             F == Entries(header.hcmap)
  <1> SUFFICES ASSUME Parsed, NEW e \in ToSet(Whole)
               PROVE  \/ index_of(view, e.pointer) = e.index
                      \/ /\ e \in ToSet(view.holder_claims)
                         /\ [pointer |-> e.pointer, index |-> index_of(view, e.pointer)]
                              \in ToSet(view.issuer_claims)
    BY Zenon DEF DisclosesRequested, Whole
  <1>1. Halves(view, header, a, b) /\ a \in Nat /\ b \in Nat
    BY JwpStates, AskedFacts DEF JInv
  <1> HIDE DEF a, b, E, F
  <1>2. /\ ToSet(view.issuer_claims) = E /\ ToSet(view.holder_claims) = F
        /\ \A x, y \in E : x.pointer = y.pointer => x = y
        /\ \A x, y \in F : x.pointer = y.pointer => x = y
    BY <1>1, Zenon DEF Halves, E, F
  <1>3. /\ DOMAIN Whole = 1 .. a + b
        /\ \A i \in 1 .. a : i \in 1 .. a + b /\ Whole[i] \in E
        /\ \A i \in 1 .. b : a + i \in 1 .. a + b /\ Whole[a + i] \in F
        /\ \A i \in 1 .. a + b : i \in 1 .. a \/ \E j \in 1 .. b : i = a + j
        /\ ToSet(Whole) = E \cup F
    <2>1. Listed(Whole, E, F, a, b)
      BY <1>1, WholeView DEF E, F
    <2> QED BY <2>1, Zenon DEF Listed
  <1> DEFINE Is(i) == /\ Whole[i].pointer = e.pointer
                      /\ \A j \in 1 .. (i - 1) : Whole[j].pointer # e.pointer
             k == CHOOSE i \in DOMAIN Whole : Is(i)
  <1>4. index_of(view, e.pointer) = Whole[k].index
    BY Zenon DEF index_of, Whole
  <1>5. k \in 1 .. a + b /\ Is(k)
    <2> DEFINE T == {i \in Nat : i \in 1 .. a + b /\ Whole[i].pointer = e.pointer}
    <2>1. T \subseteq Nat /\ T # {}
      <3>1. PICK i \in 1 .. a + b : Whole[i] = e
        BY <1>3 DEF ToSet
      <3>2. i \in T
        BY <3>1
      <3> QED BY <3>2
    <2>2. PICK i \in T : \A j \in T : i <= j
      <3> HIDE DEF T
      <3> QED BY <2>1, LeastNumber
    <2>3. i \in DOMAIN Whole /\ Is(i)
      <3>1. i \in 1 .. a + b /\ Whole[i].pointer = e.pointer
        BY <2>2
      <3>2. ASSUME NEW j \in 1 .. (i - 1) PROVE Whole[j].pointer # e.pointer
        <4>1. j \in Nat /\ j \in 1 .. a + b /\ ~ (i <= j)
          BY <1>1, <3>1
        <4> QED BY <2>2, <4>1
      <3> QED BY <1>3, <3>1, <3>2
    <2> HIDE DEF Is
    <2>4. k \in DOMAIN Whole /\ Is(k)
      BY <2>3, Zenon
    <2> QED BY <1>3, <2>4
  <1> DEFINE f == Whole[k]
  <1>6. f.pointer = e.pointer /\ (f \in E \/ f \in F)
    BY <1>3, <1>5
  <1>7. CASE e \in E
    <2>1. PICK i \in 1 .. a : Whole[i] = e
      <3>1. PICK i \in 1 .. a : view.issuer_claims[i] = e
        <4>1. ToSet(view.issuer_claims) = E /\ DOMAIN view.issuer_claims = 1 .. a
          <5>1. view.issuer_claims \in Seq(Entry) /\ Len(view.issuer_claims) = a
            BY <1>1, Zenon DEF Halves
          <5> QED BY <1>2, <5>1, LenProperties
        <4> QED BY <1>7, <4>1 DEF ToSet
      <3>2. Whole[i] = view.issuer_claims[i]
        <4>1. /\ view.issuer_claims \in Seq(Entry) /\ Len(view.issuer_claims) = a
              /\ view.holder_claims \in Seq(Entry) /\ Len(view.holder_claims) = b
          BY <1>1, Zenon DEF Halves
        <4> DEFINE s == view.issuer_claims
                   t == view.holder_claims
        <4>2. InTwo(s \o t, s, t, a, b)
          BY <1>1, <4>1, WholeIs
        <4>3. \A x \in 1 .. a : (s \o t)[x] = s[x]
          BY <4>2, Zenon DEF InTwo
        <4> QED BY <4>3, Zenon DEF Whole
      <3> QED BY <3>1, <3>2
    <2>2. k \in 1 .. a
      <3>1. ~ (i \in 1 .. (k - 1))
        BY <1>5, <2>1
      <3> QED BY <1>1, <1>5, <2>1, <3>1
    <2>3. f \in E
      BY <1>3, <2>2
    <2>4. f = e
      BY <1>2, <1>6, <1>7, <2>3
    <2> QED BY <1>4, <2>4
  <1>8. CASE e \notin E
    <2>1. e \in F
      BY <1>3, <1>8
    <2>2. CASE f \in F
      <3>1. f = e
        BY <1>2, <1>6, <2>1, <2>2
      <3> QED BY <1>4, <3>1
    <2>3. CASE f \in E
      <3>1. PICK leaf \in header.cmap : f = [pointer |-> PointerTo(leaf.path), index |-> leaf.index]
        BY <2>3 DEF E, Entries
      <3> HIDE DEF f
      <3>2. f = [pointer |-> f.pointer, index |-> f.index]
        BY <3>1
      <3>3. [pointer |-> e.pointer, index |-> index_of(view, e.pointer)] = f
        BY <1>4, <1>6, <3>2 DEF f
      <3> QED BY <1>2, <2>1, <2>3, <3>3
    <2> QED BY <1>6, <2>2, <2>3
  <1> QED BY <1>7, <1>8

-----------------------------------------------------------------------------
(* Documents without empty names.                                          *)

PathsOf(doc) ==
  [i \in 1 .. Cardinality(doc) |->
     CHOOSE path \in doc : PointerTo(path) = Sorted(collect_leaves(doc))[i]]

NamedMap(doc, first_index) ==
  {LeafOf(PathsOf(doc)[i], first_index + i - 1) : i \in 1 .. Cardinality(doc)}

LEMMA PathsOfIs ==
  ASSUME NEW doc, IsDocument(doc), NEW n, n = Cardinality(doc)
  PROVE  /\ n \in Nat /\ PathsOf(doc) \in Seq(Path) /\ Len(PathsOf(doc)) = n
         /\ \A i \in 1 .. n : /\ PathsOf(doc)[i] \in doc /\ PathsOf(doc)[i] \in Path
                              /\ Sorted(collect_leaves(doc))[i] = PointerTo(PathsOf(doc)[i])
         /\ \A i, j \in 1 .. n : IsPrefix(PathsOf(doc)[i], PathsOf(doc)[j]) => i = j
  <1> DEFINE S == collect_leaves(doc)
             s == Sorted(S)
             P(i) == CHOOSE path \in doc : PointerTo(path) = s[i]
             p == PathsOf(doc)
  <1>1. S \in SUBSET Name /\ IsFiniteSet(S) /\ Cardinality(S) = n /\ n \in Nat
    BY LeavesOf
  <1>2. s \in SetToSeqs(S)
    BY <1>1, SortedIs
  <1>3. S = {PointerTo(path) : path \in doc}
    BY DEF collect_leaves
  <1>4. doc \subseteq Path
    BY DEF IsDocument
  <1> HIDE DEF S, s
  <1>5. s \in Seq(S) /\ Len(s) = n /\ \A i, j \in 1 .. n : s[i] = s[j] => i = j
    BY <1>1, <1>2, Enumerated
  <1>6. \A i \in 1 .. n : s[i] \in S
    BY <1>5, ElementOfSeq
  <1>7. \A i \in 1 .. n : P(i) \in doc /\ PointerTo(P(i)) = s[i]
    BY <1>3, <1>6
  <1>8. p = [i \in 1 .. n |-> P(i)]
    BY DEF PathsOf, s, S
  <1> HIDE DEF P, p
  <1>9. p \in Seq(doc) /\ Len(p) = n /\ \A i \in 1 .. n : p[i] = P(i)
    BY <1>1, <1>7, <1>8
  <1>10. \A i, j \in 1 .. n : IsPrefix(p[i], p[j]) => i = j
    BY <1>5, <1>7, <1>9 DEF IsDocument
  <1>11. \A i \in 1 .. n : p[i] \in doc /\ p[i] \in Path /\ s[i] = PointerTo(p[i])
    BY <1>4, <1>7, <1>9
  <1>12. p \in Seq(Path)
    BY <1>4, <1>9, SeqMonotonic
  <1> QED BY <1>1, <1>9, <1>10, <1>11, <1>12 DEF p, s, S

LEMMA NamedPlaced ==
  ASSUME NEW doc, IsDocument(doc), Named(doc), NEW first_index \in Nat
  PROVE  PlaceAll(Sorted(collect_leaves(doc)), first_index) = {NamedMap(doc, first_index)}
  <1> DEFINE n == Cardinality(doc)
             p == PathsOf(doc)
             s == Sorted(collect_leaves(doc))
  <1>1. /\ n \in Nat /\ p \in Seq(Path) /\ Len(p) = n
        /\ \A i \in 1 .. n : p[i] \in doc /\ p[i] \in Path /\ s[i] = PointerTo(p[i])
        /\ \A i, j \in 1 .. n : IsPrefix(p[i], p[j]) => i = j
    BY PathsOfIs
  <1>2. s \in Seq(Name) /\ Len(s) = n
    BY SortedLeaves
  <1> HIDE DEF n, p, s
  <1>3. \A i \in 1 .. n : p[i] # <<>> /\ p[i][1] # <<>>
    <2> SUFFICES ASSUME NEW i \in 1 .. n PROVE p[i] # <<>> /\ p[i][1] # <<>>
      OBVIOUS
    <2>1. p[i] \in doc /\ p[i] \in Path /\ p[i] # <<>>
      BY <1>1 DEF IsDocument
    <2>2. DOMAIN p[i] = 1 .. Len(p[i]) /\ Len(p[i]) \in Nat /\ Len(p[i]) # 0
      BY <2>1, PathSlots, EmptySeq DEF Path
    <2>3. 1 \in DOMAIN p[i]
      BY <2>2
    <2> QED BY <2>1, <2>3 DEF Named
  <1>4. PlaceAll(s, first_index) = {Placement(p, first_index, n)}
    BY <1>1, <1>2, <1>3, PlacedNamed
  <1> QED BY <1>4, Zenon DEF NamedMap, Placement, n, p, s

SlotOf(path, index) == [pointer |-> PointerTo(Escapes(path)), index |-> index]

\* Its entries: one per number of its range.
LEMMA NamedEntries ==
  ASSUME NEW doc, IsDocument(doc), NEW first_index \in Nat, NEW n, n = Cardinality(doc)
  PROVE  /\ Entries(NamedMap(doc, first_index))
              = {SlotOf(PathsOf(doc)[i], first_index + i - 1) : i \in 1 .. n}
         /\ IsFiniteSet(Entries(NamedMap(doc, first_index)))
         /\ Cardinality(Entries(NamedMap(doc, first_index))) = n
         /\ {e.index : e \in Entries(NamedMap(doc, first_index))} = first_index .. first_index + n - 1
         /\ {leaf.index : leaf \in NamedMap(doc, first_index)} = first_index .. first_index + n - 1
  <1> DEFINE L(i) == LeafOf(PathsOf(doc)[i], first_index + i - 1)
             E(i) == SlotOf(PathsOf(doc)[i], first_index + i - 1)
             D == 1 .. n
             M == NamedMap(doc, first_index)
             S == Entries(M)
             R == first_index .. first_index + n - 1
             f == [i \in D |-> E(i)]
  <1>1. n \in Nat
    BY PathsOfIs
  <1>2. M = {L(i) : i \in D}
    BY DEF NamedMap
  <1>3. \A i \in D : /\ [pointer |-> PointerTo(L(i).path), index |-> L(i).index] = E(i)
                     /\ E(i).index = first_index + i - 1 /\ L(i).index = first_index + i - 1
    BY DEF LeafOf, SlotOf
  <1>4. \A k : k \in R <=> \E i \in D : k = first_index + i - 1
    <2>1. ASSUME NEW k \in R PROVE \E i \in D : k = first_index + i - 1
      <3>1. k - first_index + 1 \in D /\ k = first_index + (k - first_index + 1) - 1
        BY <1>1
      <3> QED BY <3>1
    <2>2. \A i \in D : first_index + i - 1 \in R
      BY <1>1
    <2> QED BY <2>1, <2>2
  <1>5. \A i, j \in D : first_index + i - 1 = first_index + j - 1 => i = j
    BY <1>1
  <1>6. IsFiniteSet(D) /\ Cardinality(D) = n
    BY <1>1, FS_Interval
  <1> HIDE DEF L, E, D, M, R
  <1>7. S = {E(i) : i \in D}
    BY <1>2, <1>3 DEF Entries
  <1> HIDE DEF S
  <1>8. {e.index : e \in S} = R
    BY <1>3, <1>4, <1>7
  <1>9. {leaf.index : leaf \in M} = R
    BY <1>2, <1>3, <1>4
  <1>10. f \in Surjection(D, S) /\ f \in Injection(D, S)
    <2>1. f \in [D -> S] /\ \A x \in S : \E i \in D : f[i] = x
      BY <1>7
    <2>2. \A i, j \in D : f[i] = f[j] => i = j
      BY <1>3, <1>5
    <2> HIDE DEF f
    <2> QED BY <2>1, <2>2 DEF Surjection, Injection, IsInjective
  <1> HIDE DEF f
  <1>11. IsFiniteSet(S) /\ Cardinality(S) = n
    BY <1>6, <1>10, FS_Surjection
  <1> QED BY <1>7, <1>8, <1>9, <1>11, Zenon DEF E, D, M, S, R

LEMMA StartsWithSlash ==
  ASSUME NEW path \in Path
  PROVE  IsPrefix(<<SLASH>>, PointerTo(path))
  <1> DEFINE m == <<SLASH>>
  <1>1. m \in Name /\ m \in Octets /\ Len(m) = 1 /\ PointerTo(path) \in Name
    BY NameOctets, PointerType
  <1> HIDE DEF m
  <1>2. 1 <= Len(PointerTo(path)) /\ PointerTo(path)[1] = m[1]
    <2>1. CASE path = <<>>
      <3>1. PointerTo(path) = m
        BY <2>1 DEF PointerTo, m
      <3> QED BY <1>1, <3>1
    <2>2. CASE path # <<>>
      <3> DEFINE b == JoinedBy(Escapes(path), SLASH)
      <3>1. b \in Octets
        BY EscapesType, NameOctets, JoinedType
      <3>2. PointerTo(path) = Join(m, b)
        BY <2>2, PointerIs DEF m
      <3> HIDE DEF b
      <3>3. Len(Join(m, b)) = Len(m) + Len(b) /\ Len(b) \in Nat
        BY <1>1, <3>1, OctetsJoined
      <3>4. \A i \in 1 .. Len(m) : Join(m, b)[i] = m[i]
        BY <1>1, <3>1, OctetsHalves
      <3>5. 1 \in 1 .. Len(m)
        BY <1>1
      <3>6. 1 <= Len(m) + Len(b)
        BY <1>1, <3>3
      <3> QED BY <3>2, <3>3, <3>4, <3>5, <3>6
    <2> QED BY <2>1, <2>2
  <1>3. \A i \in 1 .. Len(m) : m[i] = PointerTo(path)[i]
    <2>1. \A i \in 1 .. Len(m) : i = 1
      BY <1>1
    <2> QED BY <1>2, <2>1
  <1>4. IsPrefix(m, PointerTo(path))
    BY <1>1, <1>2, <1>3, PrefixMeans DEF Name
  <1> QED BY <1>4 DEF m

\* The header of two documents without empty names.
LEMMA NamedIssued ==
  ASSUME JwpAssumption, Asked, Named(claims), Named(committed)
  PROVE  /\ \A h \in Issued : h = [cmap |-> NamedMap(claims, 0),
                                   hcmap |-> NamedMap(committed, Cardinality(claims))]
         /\ claims # {} /\ Cardinality(claims) + Cardinality(committed) <= MAX_MESSAGES
              => Issued # {}
  <1> DEFINE a == Cardinality(claims)
             b == Cardinality(committed)
             M == NamedMap(claims, 0)
             H == NamedMap(committed, a)
  <1>1. IsDocument(claims) /\ IsDocument(committed) /\ a \in Nat /\ b \in Nat /\ MAX_MESSAGES \in Nat
    BY AskedFacts DEF JwpAssumption
  <1>2. build_cmap(claims, 0) = IF claims = {} \/ a > MAX_MESSAGES THEN {} ELSE {M}
    <2>1. PlaceAll(Sorted(collect_leaves(claims)), 0) = {M}
      BY <1>1, NamedPlaced
    <2> HIDE DEF M
    <2> QED BY <2>1, Zenon DEF build_cmap
  <1>3. HolderMaps(a) = IF b > MAX_MESSAGES THEN {} ELSE {H}
    <2>1. CASE committed = {}
      <3>1. b = 0 /\ HolderMaps(a) = {{}}
        BY <1>1, <2>1, LeavesOf, HolderMapsIs
      <3>2. H = {}
        <4>1. 1 .. Cardinality(committed) = {}
          BY <3>1
        <4> QED BY <4>1 DEF NamedMap
      <3>3. ~ (b > MAX_MESSAGES)
        BY <1>1, <3>1
      <3> QED BY <3>1, <3>2, <3>3
    <2>2. CASE committed # {}
      <3>1. PlaceAll(Sorted(collect_leaves(committed)), a) = {H}
        BY <1>1, NamedPlaced
      <3>2. \A i \in DOMAIN given : IsPrefix(<<SLASH>>, given[i])
        <4> SUFFICES ASSUME NEW i \in DOMAIN given PROVE IsPrefix(<<SLASH>>, given[i])
          OBVIOUS
        <4>1. given[i] \in collect_leaves(committed)
          <5>1. ToSet(given) = collect_leaves(committed)
            BY AskedFacts
          <5> QED BY <5>1 DEF ToSet
        <4>2. PICK path \in committed : given[i] = PointerTo(path)
          BY <4>1 DEF collect_leaves
        <4>3. path \in Path
          BY <1>1 DEF IsDocument
        <4> QED BY <4>2, <4>3, StartsWithSlash
      <3>3. HolderMaps(a) = IF \/ b > MAX_MESSAGES
                               \/ \E i \in DOMAIN given : ~IsPrefix(<<SLASH>>, given[i])
                            THEN {} ELSE PlaceAll(Sorted(collect_leaves(committed)), a)
        BY <2>2, HolderMapsIs
      <3> HIDE DEF H, a, b
      <3> QED BY <3>1, <3>2, <3>3, Zenon
    <2> QED BY <2>1, <2>2
  <1>4. \A h \in Issued : h = [cmap |-> M, hcmap |-> H]
    <2>1. \A x \in build_cmap(claims, 0) : x = M
      BY <1>2
    <2>2. \A x \in HolderMaps(a) : x = H
      BY <1>3
    <2> HIDE DEF M, H
    <2> QED BY <2>1, <2>2 DEF Issued
  <1>5. ASSUME claims # {}, a + b <= MAX_MESSAGES PROVE Issued # {}
    <2>1. ~ (a > MAX_MESSAGES) /\ ~ (b > MAX_MESSAGES)
      BY <1>1, <1>5
    <2>2. M \in build_cmap(claims, 0) /\ H \in HolderMaps(a)
      BY <1>2, <1>3, <1>5, <2>1
    <2> HIDE DEF M, H
    <2>3. [cmap |-> M, hcmap |-> H] \in Issued
      BY <2>2 DEF Issued
    <2> QED BY <2>3
  <1> QED BY <1>4, <1>5

\* That header parses.
LEMMA NamedParses ==
  ASSUME JwpAssumption, Asked, Named(claims), Named(committed), claims # {},
         Cardinality(claims) + Cardinality(committed) <= MAX_MESSAGES, NEW h \in Issued
  PROVE  issued_header(h, Cardinality(claims)) # {}
  <1> DEFINE a == Cardinality(claims)
             b == Cardinality(committed)
             E == Entries(h.cmap)
             F == Entries(h.hcmap)
  <1>1. /\ IsDocument(claims) /\ IsDocument(committed) /\ a \in Nat /\ b \in Nat
        /\ MAX_MESSAGES \in Nat /\ a # 0
    BY AskedFacts, LeavesOf DEF JwpAssumption
  <1>2. h.cmap = NamedMap(claims, 0) /\ h.hcmap = NamedMap(committed, a)
    <2>1. h = [cmap |-> NamedMap(claims, 0), hcmap |-> NamedMap(committed, a)]
      BY NamedIssued
    <2> QED BY <2>1
  <1>3. /\ IsFiniteSet(E) /\ Cardinality(E) = a
        /\ {e.index : e \in E} = 0 .. 0 + a - 1
        /\ {leaf.index : leaf \in h.cmap} = 0 .. 0 + a - 1
    <2> HIDE DEF a
    <2>1. a = Cardinality(claims)
      BY DEF a
    <2> QED BY <1>1, <1>2, <2>1, NamedEntries
  <1>4. /\ IsFiniteSet(F) /\ Cardinality(F) = b
        /\ {e.index : e \in F} = a .. a + b - 1
        /\ {leaf.index : leaf \in h.hcmap} = a .. a + b - 1
    <2> HIDE DEF a, b
    <2>1. b = Cardinality(committed)
      BY DEF b
    <2> QED BY <1>1, <1>2, <2>1, NamedEntries
  <1>5. a + b <= MAX_MESSAGES
    OBVIOUS
  <1>6. HeaderOK(h)
    BY IssuedIs
  <1>7. E \in SUBSET Entry
    BY <1>6, EntriesIs DEF HeaderOK, Filled
  <1> HIDE DEF a, b, E, F
  <1>8. MapsOK(E, F)
    <2>1. {e.index : e \in E \cup F} = 0 .. a + b - 1
      <3>1. {e.index : e \in E \cup F} = (0 .. 0 + a - 1) \cup (a .. a + b - 1)
        <4>1. {e.index : e \in E \cup F} = {e.index : e \in E} \cup {e.index : e \in F}
          OBVIOUS
        <4> QED BY <1>3, <1>4, <4>1
      <3>2. (0 .. 0 + a - 1) \cup (a .. a + b - 1) = 0 .. a + b - 1
        BY <1>1
      <3> QED BY <3>1, <3>2
    <2>2. \A e \in E : e.index < a
      <3>1. \A e \in E : e.index \in 0 .. 0 + a - 1
        BY <1>3
      <3>2. \A i \in 0 .. 0 + a - 1 : i < a
        BY <1>1
      <3> QED BY <3>1, <3>2
    <2>3. a + b > 0
      BY <1>1
    <2> DEFINE I == {e.index : e \in E \cup F}
               k == a + b
    <2> HIDE DEF I, k
    <2>4. CoverOnce(I, k)
      <3>1. I = 0 .. k - 1 /\ k > 0 /\ k <= MAX_MESSAGES
        <4>1. a + b - 1 = k - 1
          BY <1>1 DEF k
        <4>2. I = 0 .. k - 1
          BY <2>1, <4>1, Zenon DEF I
        <4> QED BY <1>5, <2>3, <4>2 DEF k
      <3> QED BY <3>1 DEF CoverOnce
    <2>5. Cardinality(E) = a /\ Cardinality(F) = b
      BY <1>3, <1>4
    <2> QED BY <2>2, <2>4, <2>5, Zenon DEF MapsOK, I, k
  <1>9. E \in walk_cmap(h.cmap) /\ F \in walk_cmap(h.hcmap)
    <2>1. \A i \in 0 .. 0 + a - 1 : ~ (i >= MAX_MESSAGES)
      BY <1>1, <1>5
    <2>2. \A i \in a .. a + b - 1 : ~ (i >= MAX_MESSAGES)
      BY <1>1, <1>5
    <2>3. ~ \E leaf \in h.cmap : leaf.index >= MAX_MESSAGES
      BY <1>3, <2>1
    <2>4. ~ \E leaf \in h.hcmap : leaf.index >= MAX_MESSAGES
      BY <1>4, <2>2
    <2>5. walk_cmap(h.cmap) = {E} /\ walk_cmap(h.hcmap) = {F}
      BY <2>3, <2>4, Zenon DEF walk_cmap, E, F, Entries
    <2> QED BY <2>5
  <1> DEFINE v == [issuer_claims |-> ByIndex(E), holder_claims |-> ByIndex(F)]
  <1>10. v \in parse(h)
    <2> DEFINE m == <<E, F>>
    <2>1. m \in walk_cmap(h.cmap) \X walk_cmap(h.hcmap) /\ m[1] = E /\ m[2] = F
      BY <1>9
    <2> HIDE DEF m
    <2> QED BY <1>8, <2>1 DEF parse
  <1>11. Len(v.issuer_claims) = a
    <2>1. ByIndex(E) \in SetToSeqs(E)
      BY <1>3, <1>7, ByIndexIs
    <2>2. Len(ByIndex(E)) = Cardinality(E)
      BY <1>3, <2>1, Enumerated
    <2> QED BY <1>3, <2>2
  <1> HIDE DEF v
  <1>12. v \in issued_header(h, a)
    BY <1>10, <1>11 DEF issued_header
  <1> QED BY <1>12 DEF a

LEMMA NamedIsIssuedHolds == ASSUME JwpAssumption, JInv PROVE NamedIsIssued
  <1> SUFFICES ASSUME claims # {}, Named(claims), Named(committed),
                      Cardinality(claims) + Cardinality(committed) <= MAX_MESSAGES
               PROVE  header # Refused /\ view # Refused
    BY DEF NamedIsIssued
  <1>1. Asked
    BY DEF JInv
  <1>2. Issued # {}
    BY <1>1, NamedIssued
  <1>3. \A h \in Issued : h \in Header
    BY <1>1, IssuedIs DEF HeaderOK
  <1>4. NotYet # Refused /\ \A x \in Header \cup View : x # Refused
    BY DEF JwpAssumption
  <1>5. header # Refused
    BY <1>2, <1>3, <1>4 DEF JInv, Returned
  <1>6. view # Refused
    <2>1. CASE header = NotYet
      BY <1>4, <2>1 DEF JInv, Views
    <2>2. CASE header # NotYet
      <3>1. header \in Issued /\ HeaderOK(header)
        BY <1>5, <2>2, JwpStates
      <3>2. issued_header(header, Cardinality(claims)) # {}
        BY <1>1, <3>1, NamedParses
      <3>3. Views = issued_header(header, Cardinality(claims))
        BY <1>5, <2>2, <3>2 DEF Views, Returned
      <3>4. ASSUME NEW v \in Views PROVE v # Refused
        <4>1. Halves(v, header, Cardinality(claims), Cardinality(committed))
          BY <1>1, <3>1, <3>3, <3>4, ParsedIs
        <4>2. v \in View
          <5>1. /\ v = [issuer_claims |-> ByIndex(Entries(header.cmap)), holder_claims |-> ByIndex(Entries(header.hcmap))]
                /\ v.issuer_claims \in Seq(Entry) /\ v.holder_claims \in Seq(Entry)
            BY <4>1, Zenon DEF Halves
          <5> QED BY <5>1 DEF View
        <4> QED BY <1>4, <4>2
      <3> QED BY <1>4, <3>4 DEF JInv
    <2> QED BY <2>1, <2>2
  <1> QED BY <1>5, <1>6

LEMMA PlainNamed ==
  ASSUME NEW doc, IsDocument(doc), Plain(doc)
  PROVE  Named(doc) /\ \A path \in doc : Escapes(path) = path
  <1>1. Named(doc)
    BY DEF Plain, Named
  <1>2. ASSUME NEW path \in doc PROVE Escapes(path) = path
    <2>1. path \in Path
      BY DEF IsDocument
    <2>2. DOMAIN path = 1 .. Len(path) /\ \A k \in 1 .. Len(path) : path[k] \in Name
      BY <2>1, PathSlots
    <2>3. \A k \in 1 .. Len(path) : Escape(path[k]) = path[k]
      BY <2>2, EscapeUnmarked DEF Plain
    <2>4. /\ Escapes(path) \in Seq(Name) /\ Len(Escapes(path)) = Len(path)
          /\ \A k \in 1 .. Len(path) : Escapes(path)[k] = Escape(path[k])
      BY <2>1, EscapesType DEF Path
    <2>5. path \in Seq(Name) /\ \A k \in 1 .. Len(path) : Escapes(path)[k] = path[k]
      BY <2>1, <2>3, <2>4 DEF Path
    <2> QED BY <2>4, <2>5, SeqEqual
  <1> QED BY <1>1, <1>2

\* The entry with number i is the i-th pointer in string order.
LEMMA PlainSlot ==
  ASSUME NEW doc, IsDocument(doc), Plain(doc), NEW first_index \in Nat, NEW n, n = Cardinality(doc),
         NEW e \in Entries(NamedMap(doc, first_index)), NEW i \in 1 .. n, e.index = first_index + i - 1
  PROVE  e.pointer = Sorted(collect_leaves(doc))[i]
  <1>1. n \in Nat
    BY PathsOfIs
  <1>2. PICK j \in 1 .. n : e = SlotOf(PathsOf(doc)[j], first_index + j - 1)
    <2>1. Entries(NamedMap(doc, first_index))
            = {SlotOf(PathsOf(doc)[j], first_index + j - 1) : j \in 1 .. n}
      BY NamedEntries
    <2> QED BY <2>1
  <1>3. e.index = first_index + j - 1 /\ e.pointer = PointerTo(Escapes(PathsOf(doc)[j]))
    BY <1>2 DEF SlotOf
  <1>4. j = i
    BY <1>1, <1>3
  <1>5. PathsOf(doc)[j] \in doc /\ Sorted(collect_leaves(doc))[j] = PointerTo(PathsOf(doc)[j])
    BY PathsOfIs
  <1>6. Escapes(PathsOf(doc)[j]) = PathsOf(doc)[j]
    BY <1>5, PlainNamed
  <1> QED BY <1>3, <1>4, <1>5, <1>6

LEMMA SlotsAgreeHolds == ASSUME JwpAssumption, JInv PROVE SlotsAgree
  <1> DEFINE a == Cardinality(claims)
             b == Cardinality(committed)
             E == Entries(header.cmap)
             F == Entries(header.hcmap)
             s == Sorted(collect_leaves(claims))
             t == committed_messages(committed)
  <1> SUFFICES ASSUME Parsed, Plain(claims), Plain(committed)
               PROVE  [i \in DOMAIN SignedPointers |-> Whole[i].pointer] = SignedPointers
    BY DEF SlotsAgree, Whole
  <1>1. /\ Asked /\ IsDocument(claims) /\ IsDocument(committed) /\ a \in Nat /\ b \in Nat
    BY AskedFacts DEF JInv
  <1>2. header \in Issued /\ Halves(view, header, a, b)
    BY JwpStates
  <1>3. header.cmap = NamedMap(claims, 0) /\ header.hcmap = NamedMap(committed, a)
    <2>1. header = [cmap |-> NamedMap(claims, 0), hcmap |-> NamedMap(committed, a)]
      BY <1>1, <1>2, PlainNamed, NamedIssued
    <2> QED BY <2>1
  <1>4. Listed(Whole, E, F, a, b)
    BY <1>1, <1>2, WholeView
  <1>5. /\ s \in Seq(Name) /\ Len(s) = a /\ t \in Seq(Name) /\ Len(t) = b
    BY <1>1, SortedLeaves, CommittedLength
  <1>6. committed # {} => t = Sorted(collect_leaves(committed))
    BY DEF committed_messages
  <1>7. b # 0 => committed # {}
    BY <1>1, LeavesOf
  <1>8. SignedPointers = s \o t
    BY DEF SignedPointers
  <1> HIDE DEF s, t
  <1>9. InTwo(s \o t, s, t, a, b) /\ SignedPointers \in Seq(Name)
    <2>1. InTwo(s \o t, s, t, a, b)
      <3> HIDE DEF a, b
      <3> QED BY <1>1, <1>5, WholeIs
    <2>2. s \o t \in Seq(Name)
      BY <1>5, ConcatProperties
    <2> QED BY <1>8, <2>1, <2>2
  <1> HIDE DEF a, b, E, F
  <1>10. ASSUME NEW i \in 1 .. a PROVE Whole[i].pointer = SignedPointers[i]
    <2>1. Whole[i] \in E /\ Whole[i].index = i - 1 /\ (s \o t)[i] = s[i] /\ i \in 1 .. a + b
      <3>1. i \in 1 .. a + b /\ Whole[i] \in E
        BY <1>4, Zenon DEF Listed
      <3>2. Whole[i].index = i - 1
        BY <1>4, <3>1, Zenon DEF Listed
      <3>3. (s \o t)[i] = s[i]
        BY <1>9, Zenon DEF InTwo
      <3> QED BY <3>1, <3>2, <3>3
    <2>2. Whole[i].index = 0 + i - 1
      BY <1>1, <2>1
    <2>3. Whole[i] \in Entries(NamedMap(claims, 0)) /\ a = Cardinality(claims)
      BY <1>3, <2>1 DEF E, a
    <2>4. Whole[i].pointer = s[i]
      BY <1>1, <2>2, <2>3, PlainSlot DEF s
    <2> QED BY <1>8, <2>1, <2>4
  <1>11. ASSUME NEW j \in 1 .. b PROVE Whole[a + j].pointer = SignedPointers[a + j]
    <2>1. Whole[a + j] \in F /\ Whole[a + j].index = a + j - 1 /\ (s \o t)[a + j] = t[j]
      <3>1. a + j \in 1 .. a + b /\ Whole[a + j] \in F
        BY <1>4, Zenon DEF Listed
      <3>2. Whole[a + j].index = (a + j) - 1
        BY <1>4, <3>1, Zenon DEF Listed
      <3>3. (s \o t)[a + j] = t[j]
        BY <1>9, Zenon DEF InTwo
      <3>4. (a + j) - 1 = a + j - 1
        BY <1>1
      <3> QED BY <3>1, <3>2, <3>3, <3>4, Zenon
    <2>2. Whole[a + j] \in Entries(NamedMap(committed, a)) /\ b = Cardinality(committed)
      BY <1>3, <2>1 DEF F, b
    <2>3. committed # {}
      BY <1>1, <1>7
    <2>4. Whole[a + j].pointer = Sorted(collect_leaves(committed))[j]
      BY <1>1, <2>1, <2>2, PlainSlot
    <2> QED BY <1>6, <1>8, <2>1, <2>3, <2>4
  <1>12. DOMAIN SignedPointers = 1 .. a + b
    BY <1>8, <1>9, Zenon DEF InTwo
  <1>13. \A i \in 1 .. a + b : Whole[i].pointer = SignedPointers[i]
    <2> SUFFICES ASSUME NEW i \in 1 .. a + b PROVE Whole[i].pointer = SignedPointers[i]
      OBVIOUS
    <2>1. i \in 1 .. a \/ \E j \in 1 .. b : i = a + j
      BY <1>4, Zenon DEF Listed
    <2> QED BY <1>10, <1>11, <2>1
  <1>14. SignedPointers = [i \in DOMAIN SignedPointers |-> SignedPointers[i]]
    BY <1>9
  <1> QED BY <1>12, <1>13, <1>14, Zenon

-----------------------------------------------------------------------------
(* The theorems.                                                           *)

\* The invariant holds throughout.
LEMMA JwpAlways == Spec => []JInv
  <1>1. Init => JInv
    BY JwpAssumption, JwpInit
  <1>2. JInv /\ [Next]_vars => JInv'
    BY JwpAssumption, JwpStep
  <1> QED BY <1>1, <1>2, PTL DEF Spec

\* Whatever the documents, the header and what is read from it have their
\* types, and every index that is read is below the number of messages
\* (jwp.rs:106-139, 201-289).
THEOREM JwpTypes == Spec => []TypeOK
  <1>1. JInv => TypeOK
    BY JwpAssumption, TypeOKHolds
  <1> QED BY <1>1, JwpAlways, PTL

\* Whatever the documents and the names in them: a header that parses names
\* every signed message once, and no two claims of one half alike; a name that
\* was replaced by another leaves a gap that parse sees (jwp.rs:201-289,
\* 388-411).
THEOREM EveryMessageIsNamed == Spec => []EveryMessageNamed
  <1>1. JInv => EveryMessageNamed
    BY JwpAssumption, EveryMessageNamedHolds
  <1> QED BY <1>1, JwpAlways, PTL

\* Whatever the documents: the claim that a name of the header asks for is the
\* one that is disclosed, the issuer's before the holder's (jwp.rs:179-186).
THEOREM RequestedIsDisclosed == Spec => []DisclosesRequested
  <1>1. JInv => DisclosesRequested
    BY JwpAssumption, DisclosesRequestedHolds
  <1> QED BY <1>1, JwpAlways, PTL

\* All documents without an empty name that fit together are issued, and the
\* header parses: escaping is undone before a name is stored, so no two names
\* collide (jwp.rs:295-411).
THEOREM NamedDocumentsAreIssued == Spec => []NamedIsIssued
  <1>1. JInv => NamedIsIssued
    BY JwpAssumption, NamedIsIssuedHolds
  <1> QED BY <1>1, JwpAlways, PTL

\* For all documents of plain names, in whatever order the request lists the
\* wallet's pointers: the header gives each message the name under which its
\* author put it there (jwp.rs:295-384, go_ffi.rs:204-240).
THEOREM SlotsAlwaysAgree == Spec => []SlotsAgree
  <1>1. JInv => SlotsAgree
    BY JwpAssumption, SlotsAgreeHolds
  <1> QED BY <1>1, JwpAlways, PTL
=============================================================================
