------------------------------ MODULE SeqLemmas ------------------------------
(***************************************************************************)
(* Induction without operator parameters, what FlattenSeq computes, and     *)
(* texts split at their marks and joined again.                            *)
(*                                                                         *)
(* The induction theorems of the library take a predicate as an operator,   *)
(* which the provers cannot instantiate.  The same principle about a SET of  *)
(* numbers, or of sequences, is first-order: a property P is proved by       *)
(* naming the set of those that have P.  All of it rests on WFMin: a         *)
(* non-empty set of naturals has a least element.                          *)
(***************************************************************************)
EXTENDS Split, SequenceTheorems, WellFoundedInduction, TLAPS

LEMMA LeastNumber ==
  ASSUME NEW T, T \subseteq Nat, T # {}
  PROVE  \E n \in T : \A m \in T : n <= m
  <1> DEFINE R == OpToRel(<, Nat)
  <1>1. IsWellFoundedOn(R, Nat)
    BY NatLessThanWellFounded
  <1>2. ASSUME NEW m \in Nat, NEW n \in Nat, m < n PROVE <<m, n>> \in R
    BY <1>2 DEF OpToRel
  <1> HIDE DEF R
  <1>3. PICK n \in T : \A m \in T : ~ (<<m, n>> \in R)
    BY <1>1, WFMin
  <1>4. ASSUME NEW m \in T PROVE n <= m
    <2>1. m \in Nat /\ n \in Nat
      OBVIOUS
    <2>2. ~ (m < n)
      BY <1>2, <1>3, <2>1
    <2> QED BY <2>1, <2>2
  <1> QED BY <1>4

LEMMA NumberInduction ==
  ASSUME NEW T, 0 \in T, \A n \in Nat : n \in T => n + 1 \in T
  PROVE  Nat \subseteq T
  <1> SUFFICES ASSUME ~ (Nat \subseteq T) PROVE FALSE
    OBVIOUS
  <1>1. PICK n \in Nat \ T : \A m \in Nat \ T : n <= m
    BY LeastNumber
  <1>2. n # 0 /\ n - 1 \in Nat
    OBVIOUS
  <1>3. n - 1 \in T
    BY <1>1, <1>2
  <1>4. (n - 1) + 1 = n
    OBVIOUS
  <1> QED BY <1>2, <1>3, <1>4

LEMMA SequenceInduction ==
  ASSUME NEW S, NEW T, T \subseteq Seq(S), <<>> \in T,
         \A s \in T, e \in S : Append(s, e) \in T
  PROVE  T = Seq(S)
  <1> DEFINE N == {n \in Nat : \A s \in Seq(S) : Len(s) = n => s \in T}
  <1>1. 0 \in N
    BY EmptySeq
  <1>2. ASSUME NEW n \in Nat, n \in N PROVE n + 1 \in N
    <2> SUFFICES ASSUME NEW s \in Seq(S), Len(s) = n + 1 PROVE s \in T
      OBVIOUS
    <2>1. PICK t \in Seq(S), e \in S : s = Append(t, e)
      <3>1. s # <<>>
        OBVIOUS
      <3> QED BY <3>1, SequenceEmptyOrAppend
    <2>2. Len(t) = n
      BY <2>1
    <2> QED BY <1>2, <2>1, <2>2
  <1>3. Nat \subseteq N
    <2> HIDE DEF N
    <2> QED BY <1>1, <1>2, NumberInduction
  <1> QED BY <1>3, LenProperties

-----------------------------------------------------------------------------
(* FlattenSeq.                                                             *)

\* What the recursive function in FlattenSeq is, up to place k.
IsFlatten(f, seqs, k) ==
  f = [i \in 1 .. k |-> IF i = 1 THEN seqs[i] ELSE f[i - 1] \o seqs[i]]

LEMMA FlattenExists ==
  ASSUME NEW seqs, NEW n \in Nat
  PROVE  \E f : IsFlatten(f, seqs, n)
  <1> DEFINE N == {k \in Nat : \E f : IsFlatten(f, seqs, k)}
  <1>1. 0 \in N
    <2>1. IsFlatten([i \in 1 .. 0 |-> 0], seqs, 0)
      BY DEF IsFlatten
    <2> QED BY <2>1
  <1>2. ASSUME NEW k \in Nat, k \in N PROVE k + 1 \in N
    <2>1. PICK f : IsFlatten(f, seqs, k)
      BY <1>2
    <2> DEFINE g == [i \in 1 .. k + 1 |->
                      IF i <= k THEN f[i]
                      ELSE IF i = 1 THEN seqs[i] ELSE f[i - 1] \o seqs[i]]
    <2>2. ASSUME NEW i \in 1 .. k + 1
          PROVE  g[i] = IF i = 1 THEN seqs[i] ELSE g[i - 1] \o seqs[i]
      <3>1. CASE i <= k
        <4>1. i \in 1 .. k /\ (i # 1 => i - 1 \in 1 .. k)
          BY <3>1
        <4>2. f[i] = IF i = 1 THEN seqs[i] ELSE f[i - 1] \o seqs[i]
          BY <2>1, <4>1 DEF IsFlatten
        <4> QED BY <4>1, <4>2
      <3>2. CASE i > k
        <4>1. i = k + 1 /\ (i # 1 => i - 1 \in 1 .. k)
          BY <3>2
        <4> QED BY <4>1
      <3> QED BY <3>1, <3>2
    <2>3. IsFlatten(g, seqs, k + 1)
      BY <2>2 DEF IsFlatten
    <2> QED BY <2>3
  <1>3. Nat \subseteq N
    <2> HIDE DEF N
    <2> QED BY <1>1, <1>2, NumberInduction
  <1> QED BY <1>3

\* Two of them agree as far as both go and the sequences are the same.
LEMMA FlattenUnique ==
  ASSUME NEW s, NEW t, NEW f, NEW g, NEW m \in Nat, NEW n \in Nat,
         IsFlatten(f, s, m), IsFlatten(g, t, n),
         NEW k \in Nat, k # 0, k <= m, k <= n, \A i \in 1 .. k : s[i] = t[i]
  PROVE  f[k] = g[k]
  <1> DEFINE N == {j \in Nat : j <= k /\ j >= 1 => f[j] = g[j]}
  <1>1. 0 \in N
    OBVIOUS
  <1>2. ASSUME NEW j \in Nat, j \in N PROVE j + 1 \in N
    <2> SUFFICES ASSUME j + 1 <= k PROVE f[j + 1] = g[j + 1]
      OBVIOUS
    <2>1. j + 1 \in 1 .. m /\ j + 1 \in 1 .. n /\ s[j + 1] = t[j + 1]
      OBVIOUS
    <2>2. /\ f[j + 1] = IF j + 1 = 1 THEN s[j + 1] ELSE f[(j + 1) - 1] \o s[j + 1]
          /\ g[j + 1] = IF j + 1 = 1 THEN t[j + 1] ELSE g[(j + 1) - 1] \o t[j + 1]
      BY <2>1 DEF IsFlatten
    <2>3. (j + 1) - 1 = j
      OBVIOUS
    <2>4. j # 0 => f[j] = g[j]
      BY <1>2
    <2> QED BY <2>1, <2>2, <2>3, <2>4
  <1>3. Nat \subseteq N
    <2> HIDE DEF N
    <2> QED BY <1>1, <1>2, NumberInduction
  <1> QED BY <1>3

LEMMA FlattenValue ==
  ASSUME NEW seqs, NEW n \in Nat, Len(seqs) = n, n # 0,
         NEW f, IsFlatten(f, seqs, n)
  PROVE  FlattenSeq(seqs) = f[n]
  <1> DEFINE g == CHOOSE h : IsFlatten(h, seqs, n)
  <1>1. IsFlatten(g, seqs, n)
    BY FlattenExists
  <1>2. FlattenSeq(seqs) = g[n]
    BY DEF FlattenSeq, IsFlatten
  <1> HIDE DEF g
  <1>3. g[n] = f[n]
    BY <1>1, FlattenUnique
  <1> QED BY <1>2, <1>3

LEMMA FlattenEmpty == FlattenSeq(<<>>) = <<>>
  BY DEF FlattenSeq

LEMMA FlattenAppend ==
  ASSUME NEW S, NEW seqs \in Seq(Seq(S)), NEW x \in Seq(S)
  PROVE  FlattenSeq(Append(seqs, x)) = FlattenSeq(seqs) \o x
  <1> DEFINE n == Len(seqs)
             all == Append(seqs, x)
  <1>1. /\ n \in Nat /\ Len(all) = n + 1 /\ all[n + 1] = x
        /\ \A i \in 1 .. n : seqs[i] = all[i]
        /\ n + 1 \in Nat /\ n + 1 # 0 /\ n <= n /\ n <= n + 1 /\ n + 1 \in 1 .. n + 1
    BY AppendProperties, LenProperties
  <1>a. FlattenSeq(Append(seqs, x)) = FlattenSeq(all)
    OBVIOUS
  <1>b. n = 0 => seqs = <<>>
    BY EmptySeq
  <1> HIDE DEF n, all
  <1>2. PICK f : IsFlatten(f, all, n + 1)
    BY <1>1, FlattenExists
  <1>3. FlattenSeq(all) = f[n + 1]
    BY <1>1, <1>2, FlattenValue
  <1>4. f[n + 1] = IF n + 1 = 1 THEN x ELSE f[(n + 1) - 1] \o x
    BY <1>1, <1>2 DEF IsFlatten
  <1>5. CASE n = 0
    <2>1. FlattenSeq(seqs) = <<>>
      BY <1>b, <1>5, FlattenEmpty
    <2>2. <<>> \o x = x
      BY ConcatEmptySeq
    <2>3. f[n + 1] = x
      BY <1>4, <1>5
    <2> QED BY <1>a, <1>3, <2>1, <2>2, <2>3
  <1>6. CASE n # 0
    <2>1. PICK g : IsFlatten(g, seqs, n)
      BY <1>1, FlattenExists
    <2>2. FlattenSeq(seqs) = g[n]
      BY <1>1, <1>6, <2>1, FlattenValue DEF n
    <2>3. n \in 1 .. n
      BY <1>1, <1>6
    <2>4. g[n] = f[n]
      BY ONLY <1>1, <1>2, <1>6, <2>1, FlattenUnique
    <2>5. f[n + 1] = f[n] \o x
      <3>1. (n + 1) - 1 = n /\ n + 1 # 1
        BY <1>1, <1>6
      <3> QED BY <1>4, <3>1
    <2> QED BY <1>a, <1>3, <2>2, <2>4, <2>5
  <1> QED BY <1>5, <1>6

LEMMA FlattenType ==
  ASSUME NEW S, NEW seqs \in Seq(Seq(S))
  PROVE  FlattenSeq(seqs) \in Seq(S)
  <1> DEFINE T == {s \in Seq(Seq(S)) : FlattenSeq(s) \in Seq(S)}
  <1>1. <<>> \in T
    BY EmptySeq, FlattenEmpty
  <1>2. ASSUME NEW s \in T, NEW x \in Seq(S) PROVE Append(s, x) \in T
    BY FlattenAppend, AppendProperties, ConcatProperties
  <1>3. T = Seq(Seq(S))
    <2> HIDE DEF T
    <2>1. T \subseteq Seq(Seq(S))
      BY DEF T
    <2> QED BY <1>1, <1>2, <2>1, SequenceInduction
  <1> QED BY <1>3

LEMMA FlattenOne ==
  ASSUME NEW S, NEW x \in Seq(S)
  PROVE  FlattenSeq(<<x>>) = x
  <1>1. <<x>> = Append(<<>>, x) /\ <<>> \in Seq(Seq(S))
    OBVIOUS
  <1>2. FlattenSeq(<<x>>) = <<>> \o x
    BY <1>1, FlattenAppend, FlattenEmpty
  <1> QED BY <1>2, ConcatEmptySeq

LEMMA FlattenConcat ==
  ASSUME NEW S, NEW s \in Seq(Seq(S)), NEW t \in Seq(Seq(S))
  PROVE  FlattenSeq(s \o t) = FlattenSeq(s) \o FlattenSeq(t)
  <1> DEFINE T == {u \in Seq(Seq(S)) :
                     FlattenSeq(s \o u) = FlattenSeq(s) \o FlattenSeq(u)}
  <1>1. <<>> \in T
    BY EmptySeq, FlattenEmpty, FlattenType, ConcatEmptySeq
  <1>2. ASSUME NEW u \in T, NEW x \in Seq(S) PROVE Append(u, x) \in T
    <2>1. s \o Append(u, x) = Append(s \o u, x)
      <3>1. Append(u, x) = u \o <<x>> /\ <<x>> \in Seq(Seq(S))
        BY AppendIsConcat
      <3>2. Append(s \o u, x) = (s \o u) \o <<x>>
        BY AppendIsConcat, ConcatProperties
      <3> QED BY <3>1, <3>2, ConcatAssociative
    <2>2. FlattenSeq(s \o Append(u, x)) = (FlattenSeq(s) \o FlattenSeq(u)) \o x
      <3>1. s \o u \in Seq(Seq(S))
        BY ConcatProperties
      <3>2. FlattenSeq(Append(s \o u, x)) = FlattenSeq(s \o u) \o x
        BY <3>1, FlattenAppend
      <3> QED BY <2>1, <3>2
    <2>3. FlattenSeq(Append(u, x)) = FlattenSeq(u) \o x
      BY FlattenAppend
    <2>4. /\ FlattenSeq(s) \in Seq(S) /\ FlattenSeq(u) \in Seq(S)
          /\ Append(u, x) \in Seq(Seq(S))
      BY FlattenType, AppendProperties
    <2>5. (FlattenSeq(s) \o FlattenSeq(u)) \o x = FlattenSeq(s) \o (FlattenSeq(u) \o x)
      <3> HIDE DEF T
      <3>1. x \in Seq(S)
        OBVIOUS
      <3> QED BY ONLY <2>4, <3>1, ConcatAssociative
    <2>6. FlattenSeq(s \o Append(u, x)) = FlattenSeq(s) \o FlattenSeq(Append(u, x))
      BY <2>2, <2>3, <2>5
    <2> QED BY <2>4, <2>6
  <1>3. T = Seq(Seq(S))
    <2> HIDE DEF T
    <2>1. T \subseteq Seq(Seq(S))
      BY DEF T
    <2> QED BY <1>1, <1>2, <2>1, SequenceInduction
  <1> QED BY <1>3

\* Pieces of one length w.
LEMMA FlattenUniform ==
  ASSUME NEW S, NEW w \in Nat, NEW seqs \in Seq({p \in Seq(S) : Len(p) = w})
  PROVE  /\ FlattenSeq(seqs) \in Seq(S)
         /\ Len(FlattenSeq(seqs)) = w * Len(seqs)
  <1> DEFINE P == {p \in Seq(S) : Len(p) = w}
             T == {s \in Seq(P) : Len(FlattenSeq(s)) = w * Len(s)}
  <1>0. Seq(P) \subseteq Seq(Seq(S))
    BY SeqMonotonic
  <1>1. <<>> \in T
    BY EmptySeq, FlattenEmpty
  <1>2. ASSUME NEW s \in T, NEW x \in P PROVE Append(s, x) \in T
    <2>1. Append(s, x) \in Seq(P) /\ Len(Append(s, x)) = Len(s) + 1 /\ Len(s) \in Nat
      BY AppendProperties, LenProperties
    <2>2. FlattenSeq(Append(s, x)) = FlattenSeq(s) \o x /\ FlattenSeq(s) \in Seq(S)
      BY <1>0, FlattenAppend, FlattenType
    <2>3. Len(FlattenSeq(Append(s, x))) = w * Len(s) + w
      <3>1. Len(FlattenSeq(s)) = w * Len(s) /\ x \in Seq(S) /\ Len(x) = w
        OBVIOUS
      <3> QED BY <2>2, <3>1, ConcatProperties
    <2>4. w * Len(s) + w = w * (Len(s) + 1)
      BY <2>1
    <2> QED BY <2>1, <2>3, <2>4
  <1>3. T = Seq(P)
    <2> HIDE DEF T
    <2>1. T \subseteq Seq(P)
      BY DEF T
    <2> QED BY <1>1, <1>2, <2>1, SequenceInduction
  <1> QED BY <1>0, <1>3, FlattenType

-----------------------------------------------------------------------------
(* Parts of sequences.                                                     *)

LEMMA MiddlePart ==
  ASSUME NEW S, NEW a \in Seq(S), NEW b \in Seq(S), NEW c \in Seq(S)
  PROVE  SubSeq((a \o b) \o c, Len(a) + 1, Len(a) + Len(b)) = b
  <1> DEFINE s == (a \o b) \o c
             m == Len(a) + 1
             n == Len(a) + Len(b)
             t == SubSeq(s, m, n)
  <1>1. /\ Len(a) \in Nat /\ Len(b) \in Nat /\ Len(c) \in Nat
        /\ a \o b \in Seq(S) /\ Len(a \o b) = Len(a) + Len(b)
        /\ s \in Seq(S) /\ Len(s) = Len(a) + Len(b) + Len(c)
    BY ConcatProperties
  <1>2. ASSUME NEW i \in 1 .. Len(b) PROVE s[Len(a) + i] = b[i]
    <2>1. s[Len(a) + i] = (a \o b)[Len(a) + i]
      BY <1>1, ConcatProperties
    <2>2. (a \o b)[Len(a) + i] = b[(Len(a) + i) - Len(a)]
      BY <1>1, ConcatProperties
    <2>3. (Len(a) + i) - Len(a) = i
      BY <1>1
    <2> QED BY <2>1, <2>2, <2>3
  <1>3. \A i \in m .. n : s[i] \in S
    BY <1>1, ElementOfSeq
  <1>4. m \in Int /\ n \in Int /\ n - m + 1 = Len(b)
    BY <1>1
  <1>5. \A i \in Int : m + i - 1 = Len(a) + i
    BY <1>1
  <1>6. Len(b) = IF m <= n THEN n - m + 1 ELSE 0
    BY <1>1
  <1> HIDE DEF m, n, s
  <1>7. /\ t \in Seq(S)
        /\ Len(t) = IF m <= n THEN n - m + 1 ELSE 0
        /\ \A i \in 1 .. n - m + 1 : t[i] = s[m + i - 1]
    BY <1>3, <1>4, SubSeqProperties
  <1> HIDE DEF t
  <1>8. ASSUME NEW i \in 1 .. Len(b) PROVE t[i] = b[i]
    <2>1. i \in 1 .. n - m + 1 /\ i \in Int
      BY <1>4
    <2>2. t[i] = s[m + i - 1]
      BY <1>7, <2>1
    <2>3. m + i - 1 = Len(a) + i
      BY <1>5, <2>1
    <2> QED BY <1>2, <2>2, <2>3
  <1>9. t = b
    BY <1>6, <1>7, <1>8, SeqEqual
  <1> QED BY <1>9 DEF t, s, m, n

LEMMA AppendTwo ==
  ASSUME NEW S, NEW x \in S, NEW y \in S
  PROVE  Append(<<x>>, y) = <<x, y>>
  <1> DEFINE s == <<x>>
             t == <<x, y>>
             u == Append(s, y)
  <1>1. s \in Seq(S) /\ Len(s) = 1 /\ s[1] = x /\ t \in Seq(S) /\ Len(t) = 2 /\ t[1] = x /\ t[2] = y
    OBVIOUS
  <1> HIDE DEF s, t
  <1>2. u \in Seq(S) /\ Len(u) = 2 /\ u[1] = x /\ u[2] = y
    <2>1. u \in Seq(S) /\ Len(u) = Len(s) + 1 /\ u[Len(s) + 1] = y
          /\ \A i \in 1 .. Len(s) : u[i] = s[i]
      <3>1. s \in Seq(S)
        BY <1>1
      <3>2. u \in Seq(S)
        BY <3>1, AppendProperties
      <3>3. Len(u) = Len(s) + 1
        BY <3>1, AppendProperties
      <3>4. \A i \in 1 .. Len(s) : u[i] = s[i]
        BY <3>1, AppendProperties
      <3>5. u[Len(s) + 1] = y
        BY <3>1, AppendProperties
      <3> QED BY <3>2, <3>3, <3>4, <3>5
    <2> HIDE DEF u
    <2>2. Len(s) + 1 = 2 /\ 1 \in 1 .. Len(s)
      BY <1>1
    <2>3. u[1] = s[1]
      BY <2>1, <2>2
    <2> QED BY <1>1, <2>1, <2>2, <2>3
  <1> HIDE DEF u
  <1>3. \A i \in 1 .. 2 : u[i] = t[i]
    BY <1>1, <1>2
  <1>4. u = t
    BY <1>1, <1>2, <1>3, SeqEqual
  <1> QED BY <1>4 DEF u, s, t

LEMMA AppendThree ==
  ASSUME NEW S, NEW x \in S, NEW y \in S, NEW z \in S
  PROVE  Append(<<x, y>>, z) = <<x, y, z>>
  <1> DEFINE s == <<x, y>>
             t == <<x, y, z>>
             u == Append(s, z)
  <1>1. s \in Seq(S) /\ Len(s) = 2 /\ s[1] = x /\ s[2] = y /\ t \in Seq(S) /\ Len(t) = 3 /\ t[1] = x /\ t[2] = y /\ t[3] = z
    OBVIOUS
  <1> HIDE DEF s, t
  <1>2. u \in Seq(S) /\ Len(u) = 3 /\ u[1] = x /\ u[2] = y /\ u[3] = z
    <2>1. u \in Seq(S) /\ Len(u) = Len(s) + 1 /\ u[Len(s) + 1] = z
          /\ \A i \in 1 .. Len(s) : u[i] = s[i]
      <3>1. s \in Seq(S)
        BY <1>1
      <3>2. u \in Seq(S)
        BY <3>1, AppendProperties
      <3>3. Len(u) = Len(s) + 1
        BY <3>1, AppendProperties
      <3>4. \A i \in 1 .. Len(s) : u[i] = s[i]
        BY <3>1, AppendProperties
      <3>5. u[Len(s) + 1] = z
        BY <3>1, AppendProperties
      <3> QED BY <3>2, <3>3, <3>4, <3>5
    <2> HIDE DEF u
    <2>2. Len(s) + 1 = 3 /\ 1 \in 1 .. Len(s) /\ 2 \in 1 .. Len(s)
      BY <1>1
    <2>3. u[1] = s[1] /\ u[2] = s[2]
      BY <2>1, <2>2
    <2> QED BY <1>1, <2>1, <2>2, <2>3
  <1> HIDE DEF u
  <1>3. \A i \in 1 .. 3 : u[i] = t[i]
    BY <1>1, <1>2
  <1>4. u = t
    BY <1>1, <1>2, <1>3, SeqEqual
  <1> QED BY <1>4 DEF u, s, t

LEMMA AppendFour ==
  ASSUME NEW S, NEW w \in S, NEW x \in S, NEW y \in S, NEW z \in S
  PROVE  Append(<<w, x, y>>, z) = <<w, x, y, z>>
  <1> DEFINE s == <<w, x, y>>
             t == <<w, x, y, z>>
             u == Append(s, z)
  <1>1. /\ s \in Seq(S) /\ Len(s) = 3 /\ s[1] = w /\ s[2] = x /\ s[3] = y
        /\ t \in Seq(S) /\ Len(t) = 4 /\ t[1] = w /\ t[2] = x /\ t[3] = y /\ t[4] = z
    OBVIOUS
  <1> HIDE DEF s, t
  <1>2. u \in Seq(S) /\ Len(u) = 4 /\ u[1] = w /\ u[2] = x /\ u[3] = y /\ u[4] = z
    <2>0. s \in Seq(S)
      BY <1>1
    <2>1. u \in Seq(S)
      BY <2>0, AppendProperties
    <2>2. Len(u) = Len(s) + 1
      BY <2>0, AppendProperties
    <2>3. \A i \in 1 .. Len(s) : u[i] = s[i]
      BY <2>0, AppendProperties
    <2>4. u[Len(s) + 1] = z
      BY <2>0, AppendProperties
    <2> HIDE DEF u
    <2>5. Len(s) + 1 = 4 /\ 1 \in 1 .. Len(s) /\ 2 \in 1 .. Len(s) /\ 3 \in 1 .. Len(s)
      BY <1>1
    <2>6. u[1] = s[1] /\ u[2] = s[2] /\ u[3] = s[3]
      BY <2>3, <2>5
    <2> QED BY <1>1, <2>1, <2>2, <2>4, <2>5, <2>6
  <1> HIDE DEF u
  <1>3. \A i \in 1 .. 4 : u[i] = t[i]
    BY <1>1, <1>2
  <1>4. u = t
    BY <1>1, <1>2, <1>3, SeqEqual
  <1> QED BY <1>4 DEF u, s, t

-----------------------------------------------------------------------------
(* Texts: sequences of numbers, one after the other.                       *)

\* Concatenation, opaque in proofs about many parts: the provers unfold \o
\* place by place.
Join(a, b) == a \o b

Octets == Seq(Int)

LEMMA OctetsJoined ==
  ASSUME NEW a \in Octets, NEW b \in Octets
  PROVE  /\ Join(a, b) \in Octets
         /\ Len(Join(a, b)) = Len(a) + Len(b)
         /\ Len(a) \in Nat /\ Len(b) \in Nat
  BY ConcatProperties, LenProperties DEF Octets, Join

LEMMA OctetsAssociate ==
  ASSUME NEW a \in Octets, NEW b \in Octets, NEW c \in Octets
  PROVE  Join(Join(a, b), c) = Join(a, Join(b, c))
  BY ConcatAssociative DEF Octets, Join

LEMMA OctetsEmpty ==
  ASSUME NEW a \in Octets
  PROVE  Join(a, <<>>) = a /\ Join(<<>>, a) = a /\ <<>> \in Octets
  BY ConcatEmptySeq, EmptySeq DEF Octets, Join

LEMMA OctetAt ==
  ASSUME NEW a \in Octets, NEW b \in Octets, NEW i \in 1 .. Len(b)
  PROVE  Join(a, b)[Len(a) + i] = b[i]
  <1>1. a \in Seq(Int) /\ b \in Seq(Int) /\ Len(a) \in Nat /\ Len(b) \in Nat
    BY LenProperties DEF Octets
  <1>2. Len(a) + i \in 1 .. Len(a) + Len(b) /\ ~ (Len(a) + i <= Len(a)) /\ (Len(a) + i) - Len(a) = i
    BY <1>1
  <1>3. (a \o b)[Len(a) + i] = b[(Len(a) + i) - Len(a)]
    BY <1>1, <1>2, ConcatProperties
  <1> QED BY <1>2, <1>3 DEF Join

LEMMA OctetBefore ==
  ASSUME NEW a \in Octets, NEW b \in Octets, NEW i \in 1 .. Len(a)
  PROVE  Join(a, b)[i] = a[i]
  <1>1. a \in Seq(Int) /\ b \in Seq(Int) /\ Len(a) \in Nat /\ Len(b) \in Nat
    BY LenProperties DEF Octets
  <1>2. i \in 1 .. Len(a) + Len(b) /\ i <= Len(a)
    BY <1>1
  <1> QED BY <1>1, <1>2, ConcatProperties DEF Join

-----------------------------------------------------------------------------
(* Splitting.                                                              *)

\* One character more.
Step(parts, c, mark) ==
  IF c = mark THEN Append(parts, <<>>)
  ELSE [parts EXCEPT ![Len(parts)] = Append(@, c)]

\* What the recursive function in SplitBy is.
IsSplit(f, text, mark, n) ==
  f = [i \in 0 .. n |-> IF i = 0 THEN <<<<>>>>
                        ELSE IF text[i] = mark THEN Append(f[i - 1], <<>>)
                        ELSE LET parts == f[i - 1]
                             IN  [parts EXCEPT ![Len(parts)] = Append(@, text[i])]]

LEMMA SplitSteps ==
  ASSUME NEW f, NEW text, NEW mark, NEW n \in Nat
  PROVE  IsSplit(f, text, mark, n)
           <=> f = [i \in 0 .. n |-> IF i = 0 THEN <<<<>>>>
                                     ELSE Step(f[i - 1], text[i], mark)]
  <1>1. \A i : (IF text[i] = mark THEN Append(f[i - 1], <<>>)
                ELSE LET parts == f[i - 1]
                     IN  [parts EXCEPT ![Len(parts)] = Append(@, text[i])])
               = Step(f[i - 1], text[i], mark)
    BY Zenon DEF Step
  <1> HIDE DEF Step
  <1> QED BY <1>1, Zenon DEF IsSplit

LEMMA SplitExists ==
  ASSUME NEW text, NEW mark, NEW n \in Nat
  PROVE  \E f : IsSplit(f, text, mark, n)
  <1> DEFINE nothing == <<<<>>>>
             N == {k \in Nat : \E f : f = [i \in 0 .. k |-> IF i = 0 THEN nothing
                                     ELSE Step(f[i - 1], text[i], mark)]}
  <1> HIDE DEF nothing
  <1>1. 0 \in N
    <2> DEFINE g == [i \in 0 .. 0 |-> nothing]
    <2>1. g = [i \in 0 .. 0 |-> IF i = 0 THEN nothing ELSE Step(g[i - 1], text[i], mark)]
      OBVIOUS
    <2> QED BY <2>1
  <1>2. ASSUME NEW k \in Nat, k \in N PROVE k + 1 \in N
    <2>1. PICK f : f = [i \in 0 .. k |-> IF i = 0 THEN nothing
                                     ELSE Step(f[i - 1], text[i], mark)]
      BY <1>2
    <2> DEFINE g == [i \in 0 .. k + 1 |->
                      IF i <= k THEN f[i] ELSE Step(f[i - 1], text[i], mark)]
    <2>2. ASSUME NEW i \in 0 .. k + 1
          PROVE  g[i] = IF i = 0 THEN nothing ELSE Step(g[i - 1], text[i], mark)
      <3>1. CASE i <= k
        <4>1. i \in 0 .. k /\ (i # 0 => i - 1 \in 0 .. k)
          BY <3>1
        <4>2. f[i] = IF i = 0 THEN nothing ELSE Step(f[i - 1], text[i], mark)
          BY <2>1, <4>1
        <4> QED BY <4>1, <4>2
      <3>2. CASE i > k
        <4>1. i = k + 1 /\ i # 0 /\ i - 1 \in 0 .. k
          BY <3>2
        <4> QED BY <4>1
      <3> QED BY <3>1, <3>2
    <2>3. g = [i \in 0 .. k + 1 |-> IF i = 0 THEN nothing ELSE Step(g[i - 1], text[i], mark)]
      BY <2>2
    <2> HIDE DEF g
    <2>4. \E h : h = [i \in 0 .. k + 1 |-> IF i = 0 THEN nothing
                                           ELSE Step(h[i - 1], text[i], mark)]
      BY <2>3
    <2> QED BY <2>4
  <1>3. Nat \subseteq N
    <2> HIDE DEF N
    <2> QED BY <1>1, <1>2, NumberInduction
  <1>4. PICK f : f = [i \in 0 .. n |-> IF i = 0 THEN nothing
                                     ELSE Step(f[i - 1], text[i], mark)]
    BY <1>3
  <1> QED BY <1>4, SplitSteps DEF nothing

LEMMA SplitUnique ==
  ASSUME NEW s, NEW t, NEW mark, NEW f, NEW g, NEW m \in Nat, NEW n \in Nat,
         IsSplit(f, s, mark, m), IsSplit(g, t, mark, n),
         NEW k \in Nat, k <= m, k <= n, \A i \in 1 .. k : s[i] = t[i]
  PROVE  f[k] = g[k]
  <1> DEFINE nothing == <<<<>>>>
             N == {j \in Nat : j <= k => f[j] = g[j]}
  <1>0. /\ f = [i \in 0 .. m |-> IF i = 0 THEN nothing ELSE Step(f[i - 1], s[i], mark)]
        /\ g = [i \in 0 .. n |-> IF i = 0 THEN nothing ELSE Step(g[i - 1], t[i], mark)]
    BY SplitSteps
  <1> HIDE DEF nothing
  <1>1. 0 \in N
    <2>1. 0 \in 0 .. m /\ 0 \in 0 .. n
      OBVIOUS
    <2> QED BY <1>0, <2>1
  <1>2. ASSUME NEW j \in Nat, j \in N PROVE j + 1 \in N
    <2> SUFFICES ASSUME j + 1 <= k PROVE f[j + 1] = g[j + 1]
      OBVIOUS
    <2>1. j + 1 \in 0 .. m /\ j + 1 \in 0 .. n /\ j + 1 # 0 /\ s[j + 1] = t[j + 1]
          /\ (j + 1) - 1 = j
      OBVIOUS
    <2>2. /\ f[j + 1] = Step(f[(j + 1) - 1], s[j + 1], mark)
          /\ g[j + 1] = Step(g[(j + 1) - 1], t[j + 1], mark)
      BY <1>0, <2>1
    <2>3. f[j] = g[j]
      BY <1>2
    <2> QED BY <2>1, <2>2, <2>3
  <1>3. Nat \subseteq N
    <2> HIDE DEF N
    <2> QED BY <1>1, <1>2, NumberInduction
  <1> QED BY <1>3

LEMMA SplitValue ==
  ASSUME NEW text, NEW mark, NEW n \in Nat, Len(text) = n,
         NEW f, IsSplit(f, text, mark, n)
  PROVE  SplitBy(text, mark) = f[n]
  <1> DEFINE g == CHOOSE h : IsSplit(h, text, mark, n)
  <1>1. IsSplit(g, text, mark, n)
    BY SplitExists
  <1>2. SplitBy(text, mark) = g[n]
    BY DEF SplitBy, IsSplit
  <1> HIDE DEF g
  <1>3. g[n] = f[n]
    BY <1>1, SplitUnique
  <1> QED BY <1>2, <1>3

LEMMA SplitNothing ==
  ASSUME NEW mark
  PROVE  SplitBy(<<>>, mark) = <<<<>>>>
  <1> DEFINE e == <<>>
             nothing == <<<<>>>>
  <1>1. Len(e) = 0
    OBVIOUS
  <1> HIDE DEF e, nothing
  <1>2. PICK f : IsSplit(f, e, mark, 0)
    BY SplitExists
  <1>3. f = [i \in 0 .. 0 |-> IF i = 0 THEN nothing ELSE Step(f[i - 1], e[i], mark)]
    BY <1>2, SplitSteps DEF nothing
  <1>4. f[0] = nothing
    BY <1>3
  <1>5. SplitBy(e, mark) = f[0]
    BY <1>1, <1>2, SplitValue
  <1> QED BY <1>4, <1>5 DEF e, nothing

LEMMA SplitAppend ==
  ASSUME NEW text \in Octets, NEW c \in Int, NEW mark
  PROVE  SplitBy(Append(text, c), mark) = Step(SplitBy(text, mark), c, mark)
  <1> DEFINE n == Len(text)
             all == Append(text, c)
             nothing == <<<<>>>>
  <1>1. /\ n \in Nat /\ Len(all) = n + 1 /\ all[n + 1] = c
        /\ \A i \in 1 .. n : text[i] = all[i]
    BY AppendProperties, LenProperties DEF Octets
  <1> HIDE DEF all
  <1>2. PICK f : IsSplit(f, text, mark, n)
    BY <1>1, SplitExists
  <1>3. PICK g : IsSplit(g, all, mark, n + 1)
    <2>1. n + 1 \in Nat
      BY <1>1
    <2> QED BY <2>1, SplitExists
  <1>4. f[n] = g[n]
    <2>1. n <= n /\ n <= n + 1 /\ n + 1 \in Nat
      BY <1>1
    <2> HIDE DEF n
    <2> QED BY <1>1, <1>2, <1>3, <2>1, SplitUnique
  <1>5. g = [i \in 0 .. n + 1 |-> IF i = 0 THEN nothing ELSE Step(g[i - 1], all[i], mark)]
    BY <1>1, <1>3, SplitSteps
  <1>6. g[n + 1] = Step(g[n], c, mark)
    <2> HIDE DEF nothing
    <2>1. n + 1 \in 0 .. n + 1 /\ n + 1 # 0 /\ (n + 1) - 1 = n
      BY <1>1
    <2> HIDE DEF n
    <2>2. g[n + 1] = Step(g[(n + 1) - 1], all[n + 1], mark)
      BY <1>5, <2>1
    <2> QED BY <1>1, <2>1, <2>2
  <1>7. SplitBy(text, mark) = f[n] /\ SplitBy(all, mark) = g[n + 1]
    <2>1. n + 1 \in Nat /\ Len(text) = n
      BY <1>1
    <2> HIDE DEF n
    <2> QED BY <1>1, <1>2, <1>3, <2>1, SplitValue
  <1> QED BY <1>4, <1>6, <1>7 DEF all

\* Parts: all before the last one, and the last one.
PartLists == Seq(Octets)

LEMMA PartsEnd ==
  ASSUME NEW q \in PartLists, NEW b \in Octets
  PROVE  /\ Append(q, b) \in PartLists
         /\ Len(Append(q, b)) = Len(q) + 1 /\ Len(q) \in Nat
         /\ Append(q, b)[Len(q) + 1] = b
         /\ \A i \in 1 .. Len(q) : Append(q, b)[i] = q[i]
  BY AppendProperties, LenProperties DEF PartLists

LEMMA PartsEqual ==
  ASSUME NEW p \in PartLists, NEW q \in PartLists, Len(p) = Len(q),
         \A i \in 1 .. Len(p) : p[i] = q[i]
  PROVE  p = q
  BY SeqEqual DEF PartLists

LEMMA StepMark ==
  ASSUME NEW parts, NEW mark, NEW c, c = mark
  PROVE  Step(parts, c, mark) = Append(parts, <<>>)
  BY DEF Step

LEMMA StepOther ==
  ASSUME NEW q \in PartLists, NEW b \in Octets, NEW c \in Int, NEW mark, c # mark
  PROVE  /\ Append(b, c) \in Octets
         /\ Step(Append(q, b), c, mark) = Append(q, Append(b, c))
  <1> DEFINE p == Append(q, b)
             n == Len(q) + 1
             x == Append(b, c)
             r == Append(q, x)
             s == [p EXCEPT ![n] = x]
  <1>1. x \in Octets
    BY AppendProperties DEF Octets
  <1>2. /\ p \in PartLists /\ Len(p) = n /\ p[n] = b /\ n \in Nat
        /\ \A i \in 1 .. Len(q) : p[i] = q[i]
    BY PartsEnd
  <1>3. /\ r \in PartLists /\ Len(r) = n /\ r[n] = x
        /\ \A i \in 1 .. Len(q) : r[i] = q[i]
    BY <1>1, PartsEnd
  <1>4. Step(p, c, mark) = s
    <2> HIDE DEF p
    <2> QED BY <1>2 DEF Step
  <1>5. n \in 1 .. n /\ Len(q) \in Nat /\ \A i \in 1 .. n : i = n \/ i \in 1 .. Len(q)
    <2>1. Len(q) \in Nat
      BY PartsEnd
    <2> QED BY <2>1
  <1> HIDE DEF p, r, n, x
  <1>6. s \in PartLists /\ Len(s) = n
    BY <1>1, <1>2, <1>5 DEF PartLists
  <1>7. \A i \in 1 .. n : s[i] = IF i = n THEN x ELSE p[i]
    BY <1>2 DEF PartLists
  <1> HIDE DEF s
  <1>8. \A i \in 1 .. n : s[i] = r[i]
    BY <1>2, <1>3, <1>5, <1>7
  <1>9. s = r
    BY <1>3, <1>6, <1>8, PartsEqual
  <1> QED BY <1>1, <1>4, <1>9 DEF p, r, x

\* A text always makes a part at least.
LEMMA SplitShape ==
  ASSUME NEW text \in Octets, NEW mark
  PROVE  \E q \in PartLists, b \in Octets : SplitBy(text, mark) = Append(q, b)
  <1> DEFINE T == {t \in Octets : \E q \in PartLists, b \in Octets : SplitBy(t, mark) = Append(q, b)}
  <1>1. <<>> \in T
    <2>1. <<>> \in PartLists /\ <<>> \in Octets /\ Append(<<>>, <<>>) = <<<<>>>>
      BY EmptySeq DEF PartLists, Octets
    <2>2. SplitBy(<<>>, mark) = Append(<<>>, <<>>)
      BY <2>1, SplitNothing
    <2> QED BY <2>1, <2>2
  <1>2. ASSUME NEW t \in T, NEW c \in Int PROVE Append(t, c) \in T
    <2>1. t \in Octets /\ Append(t, c) \in Octets
      <3>1. t \in Octets
        BY <1>2
      <3> QED BY <3>1, AppendProperties DEF Octets
    <2>2. PICK q \in PartLists, b \in Octets : SplitBy(t, mark) = Append(q, b)
      BY <1>2
    <2>3. SplitBy(Append(t, c), mark) = Step(Append(q, b), c, mark)
      <3>1. SplitBy(Append(t, c), mark) = Step(SplitBy(t, mark), c, mark)
        BY <2>1, SplitAppend
      <3> QED BY <2>2, <3>1
    <2>4. CASE c = mark
      <3>1. SplitBy(Append(t, c), mark) = Append(Append(q, b), <<>>)
        BY <2>3, <2>4, StepMark
      <3>2. Append(q, b) \in PartLists /\ <<>> \in Octets
        BY PartsEnd, EmptySeq DEF Octets
      <3> QED BY <2>1, <3>1, <3>2
    <2>5. CASE c # mark
      <3>1. Append(b, c) \in Octets /\ SplitBy(Append(t, c), mark) = Append(q, Append(b, c))
        BY <2>3, <2>5, StepOther
      <3> QED BY <2>1, <3>1
    <2> QED BY <2>4, <2>5
  <1>3. T = Octets
    <2>1. T \subseteq Seq(Int)
      BY DEF Octets
    <2> HIDE DEF T
    <2> QED BY <1>1, <1>2, <2>1, SequenceInduction DEF Octets
  <1> QED BY <1>3

LEMMA SplitType ==
  ASSUME NEW text \in Octets, NEW mark
  PROVE  /\ SplitBy(text, mark) \in PartLists
         /\ Len(SplitBy(text, mark)) \in Nat /\ Len(SplitBy(text, mark)) >= 1
  <1>1. PICK q \in PartLists, b \in Octets : SplitBy(text, mark) = Append(q, b)
    BY SplitShape
  <1>2. /\ Append(q, b) \in PartLists /\ Len(Append(q, b)) = Len(q) + 1 /\ Len(q) \in Nat
    BY PartsEnd
  <1> QED BY <1>1, <1>2

\* Characters that are no marks.
Unmarked(mark) == Seq(Int \ {mark})

LEMMA UnmarkedAppend ==
  ASSUME NEW mark, NEW u \in Unmarked(mark), NEW c \in Int \ {mark}
  PROVE  u \in Octets /\ Append(u, c) \in Unmarked(mark) /\ c \in Int /\ c # mark
  <1>1. u \in Seq(Int)
    BY SeqMonotonic DEF Unmarked
  <1> QED BY <1>1, AppendProperties DEF Octets, Unmarked

LEMMA JoinAppend ==
  ASSUME NEW t \in Octets, NEW u \in Octets, NEW c \in Int
  PROVE  Join(t, Append(u, c)) = Append(Join(t, u), c)
  BY DEF Octets, Join

\* What is no mark goes to the last part.
LEMMA SplitExtend ==
  ASSUME NEW text \in Octets, NEW mark, NEW q \in PartLists, NEW b \in Octets,
         SplitBy(text, mark) = Append(q, b), NEW u \in Unmarked(mark)
  PROVE  /\ u \in Octets /\ Join(b, u) \in Octets
         /\ SplitBy(Join(text, u), mark) = Append(q, Join(b, u))
  <1> DEFINE T == {v \in Unmarked(mark) :
                     v \in Octets /\ SplitBy(Join(text, v), mark) = Append(q, Join(b, v))}
  <1>1. <<>> \in T
    <2>1. <<>> \in Unmarked(mark)
      BY EmptySeq DEF Unmarked
    <2>2. Join(text, <<>>) = text /\ Join(b, <<>>) = b /\ <<>> \in Octets
      BY OctetsEmpty
    <2> QED BY <2>1, <2>2
  <1>2. ASSUME NEW v \in T, NEW c \in Int \ {mark} PROVE Append(v, c) \in T
    <2>1. v \in Unmarked(mark) /\ SplitBy(Join(text, v), mark) = Append(q, Join(b, v))
      BY <1>2
    <2>2. v \in Octets /\ Append(v, c) \in Unmarked(mark) /\ c \in Int /\ c # mark
      BY <2>1, UnmarkedAppend
    <2>3. Join(text, v) \in Octets /\ Join(b, v) \in Octets
      BY <2>2, OctetsJoined
    <2>4. /\ Join(text, Append(v, c)) = Append(Join(text, v), c)
          /\ Join(b, Append(v, c)) = Append(Join(b, v), c)
      BY <2>2, JoinAppend
    <2>5. Append(v, c) \in Octets
      BY <2>2, AppendProperties DEF Octets
    <2>6. SplitBy(Append(Join(text, v), c), mark) = Step(Append(q, Join(b, v)), c, mark)
      <3>1. SplitBy(Append(Join(text, v), c), mark) = Step(SplitBy(Join(text, v), mark), c, mark)
        BY <2>2, <2>3, SplitAppend
      <3> QED BY <2>1, <3>1
    <2>7. Step(Append(q, Join(b, v)), c, mark) = Append(q, Append(Join(b, v), c))
      BY <2>2, <2>3, StepOther
    <2> QED BY <2>2, <2>4, <2>5, <2>6, <2>7
  <1>3. T = Unmarked(mark)
    <2>1. T \subseteq Seq(Int \ {mark})
      BY DEF Unmarked
    <2> HIDE DEF T
    <2> QED BY <1>1, <1>2, <2>1, SequenceInduction DEF Unmarked
  <1>4. u \in T
    BY <1>3
  <1>5. u \in Octets
    BY <1>4
  <1> QED BY <1>4, <1>5, OctetsJoined

\* Of two texts in one, the last part of the first and the first of the second
\* are one part.
LEMMA SplitCount ==
  ASSUME NEW text \in Octets, NEW mark, NEW u \in Octets
  PROVE  Len(SplitBy(Join(text, u), mark)) = Len(SplitBy(text, mark)) + Len(SplitBy(u, mark)) - 1
  <1> DEFINE n(t) == Len(SplitBy(t, mark))
             T == {v \in Octets : n(Join(text, v)) = n(text) + n(v) - 1}
  <1>0. \A t \in Octets : n(t) \in Nat
    BY SplitType
  <1>1. <<>> \in T
    <2>1. Join(text, <<>>) = text /\ <<>> \in Octets
      BY OctetsEmpty
    <2>2. n(<<>>) = 1
      BY SplitNothing
    <2> HIDE DEF n
    <2>3. n(text) = n(text) + 1 - 1
      BY <1>0
    <2> QED BY <2>1, <2>2, <2>3
  <1>2. ASSUME NEW v \in T, NEW c \in Int PROVE Append(v, c) \in T
    <2>1. v \in Octets /\ n(Join(text, v)) = n(text) + n(v) - 1
      BY <1>2
    <2>2. Join(text, v) \in Octets /\ Join(text, Append(v, c)) = Append(Join(text, v), c)
      BY <2>1, OctetsJoined, JoinAppend
    <2>3. Append(v, c) \in Octets
      BY <2>1, AppendProperties DEF Octets
    <2>4. ASSUME NEW t \in Octets
          PROVE  n(Append(t, c)) = IF c = mark THEN n(t) + 1 ELSE n(t)
      <3>1. PICK q \in PartLists, b \in Octets : SplitBy(t, mark) = Append(q, b)
        BY SplitShape
      <3>2. SplitBy(Append(t, c), mark) = Step(Append(q, b), c, mark)
        <4>1. SplitBy(Append(t, c), mark) = Step(SplitBy(t, mark), c, mark)
          BY ONLY t \in Octets, c \in Int, SplitAppend
        <4> QED BY ONLY <3>1, <4>1, Zenon
      <3>3. Append(q, b) \in PartLists /\ Len(Append(q, b)) = Len(q) + 1
        BY PartsEnd
      <3>4. CASE c = mark
        <4>1. SplitBy(Append(t, c), mark) = Append(Append(q, b), <<>>)
          BY <3>2, <3>4, StepMark
        <4>2. <<>> \in Octets
          BY EmptySeq DEF Octets
        <4> DEFINE p == Append(q, b)
                   e == <<>>
        <4>3. p \in PartLists /\ e \in Octets
          BY <3>3, <4>2
        <4> HIDE DEF p, e
        <4>4. Len(Append(p, e)) = Len(p) + 1
          BY <4>3, PartsEnd
        <4> QED BY <3>1, <3>4, <4>1, <4>4 DEF p, e
      <3>5. CASE c # mark
        <4>1. Append(b, c) \in Octets /\ SplitBy(Append(t, c), mark) = Append(q, Append(b, c))
          BY <3>2, <3>5, StepOther
        <4>2. Len(Append(q, Append(b, c))) = Len(q) + 1
          BY <4>1, PartsEnd
        <4> QED BY <3>1, <3>3, <3>5, <4>1, <4>2
      <3> QED BY <3>4, <3>5
    <2> HIDE DEF n
    <2>5. n(Append(v, c)) = (IF c = mark THEN n(v) + 1 ELSE n(v))
          /\ n(Append(Join(text, v), c)) = (IF c = mark THEN n(Join(text, v)) + 1 ELSE n(Join(text, v)))
      BY <2>1, <2>2, <2>4
    <2>6. n(v) \in Nat /\ n(text) \in Nat
      BY <1>0, <2>1
    <2>7. n(Join(text, Append(v, c))) = n(Append(Join(text, v), c))
      BY <2>2
    <2>8. n(Join(text, Append(v, c))) = n(text) + n(Append(v, c)) - 1
      BY <2>1, <2>5, <2>6, <2>7
    <2> QED BY <2>3, <2>8
  <1>3. T = Octets
    <2>1. T \subseteq Seq(Int)
      BY DEF Octets
    <2> HIDE DEF T
    <2> QED BY <1>1, <1>2, <2>1, SequenceInduction DEF Octets
  <1> QED BY <1>3

-----------------------------------------------------------------------------
(* Joining.                                                                *)

WithMarks(parts, mark) ==
  [i \in DOMAIN parts |-> IF i = 1 THEN parts[i] ELSE Join(<<mark>>, parts[i])]

LEMMA MarkOctets ==
  ASSUME NEW mark \in Int
  PROVE  /\ <<mark>> \in Octets /\ Len(<<mark>>) = 1 /\ Append(<<>>, mark) = <<mark>>
  BY DEF Octets

LEMMA WithMarksType ==
  ASSUME NEW mark \in Int, NEW parts \in PartLists
  PROVE  /\ WithMarks(parts, mark) \in Seq(Octets)
         /\ Len(WithMarks(parts, mark)) = Len(parts) /\ Len(parts) \in Nat
         /\ JoinedBy(parts, mark) = FlattenSeq(WithMarks(parts, mark))
  <1> DEFINE m == <<mark>>
  <1>1. Len(parts) \in Nat /\ DOMAIN parts = 1 .. Len(parts)
        /\ \A i \in 1 .. Len(parts) : parts[i] \in Octets
    BY LenProperties, ElementOfSeq DEF PartLists
  <1>2. m \in Octets
    BY MarkOctets
  <1>3. JoinedBy(parts, mark) = FlattenSeq(WithMarks(parts, mark))
    BY DEF JoinedBy, WithMarks, Join
  <1> HIDE DEF m
  <1>4. \A i \in 1 .. Len(parts) : Join(m, parts[i]) \in Octets
    BY <1>1, <1>2, OctetsJoined
  <1>5. WithMarks(parts, mark) = [i \in 1 .. Len(parts) |-> IF i = 1 THEN parts[i] ELSE Join(m, parts[i])]
    BY <1>1 DEF WithMarks, m
  <1>6. WithMarks(parts, mark) \in Seq(Octets) /\ Len(WithMarks(parts, mark)) = Len(parts)
    BY <1>1, <1>4, <1>5
  <1> QED BY <1>1, <1>3, <1>6

LEMMA JoinedType ==
  ASSUME NEW mark \in Int, NEW parts \in PartLists
  PROVE  JoinedBy(parts, mark) \in Octets
  BY WithMarksType, FlattenType DEF Octets

LEMMA JoinedNone ==
  ASSUME NEW mark
  PROVE  JoinedBy(<<>>, mark) = <<>>
  <1>1. [i \in DOMAIN <<>> |-> IF i = 1 THEN (<<>>)[i] ELSE <<mark>> \o (<<>>)[i]] = <<>>
    OBVIOUS
  <1> QED BY <1>1, FlattenEmpty DEF JoinedBy

LEMMA JoinedAppend ==
  ASSUME NEW mark \in Int, NEW parts \in PartLists, NEW b \in Octets
  PROVE  JoinedBy(Append(parts, b), mark)
           = IF parts = <<>> THEN b ELSE Join(Append(JoinedBy(parts, mark), mark), b)
  <1> DEFINE n == Len(parts)
             all == Append(parts, b)
             f == WithMarks(parts, mark)
             g == WithMarks(all, mark)
             x == IF n = 0 THEN b ELSE Join(<<mark>>, b)
             h == Append(f, x)
  <1>1. /\ all \in PartLists /\ Len(all) = n + 1 /\ n \in Nat /\ all[n + 1] = b
        /\ \A i \in 1 .. n : all[i] = parts[i]
    BY PartsEnd
  <1>2. /\ f \in Seq(Octets) /\ Len(f) = n /\ JoinedBy(parts, mark) = FlattenSeq(f)
    BY WithMarksType
  <1>3. /\ g \in Seq(Octets) /\ Len(g) = n + 1 /\ JoinedBy(all, mark) = FlattenSeq(g)
    BY <1>1, WithMarksType
  <1>4. x \in Octets
    BY MarkOctets, OctetsJoined
  <1>5. DOMAIN parts = 1 .. n /\ DOMAIN all = 1 .. n + 1
    <2>1. parts \in Seq(Octets) /\ all \in Seq(Octets)
      BY <1>1 DEF PartLists
    <2> HIDE DEF all
    <2> QED BY <1>1, <2>1, LenProperties
  <1>6. g[n + 1] = x
    <2>1. n + 1 \in DOMAIN all /\ (n + 1 = 1 <=> n = 0)
      BY <1>1, <1>5
    <2> HIDE DEF all, n
    <2>2. g[n + 1] = IF n + 1 = 1 THEN all[n + 1] ELSE Join(<<mark>>, all[n + 1])
      BY <2>1 DEF WithMarks
    <2> QED BY <1>1, <2>1, <2>2
  <1>7. \A i \in 1 .. n : g[i] = f[i]
    <2>1. \A i \in 1 .. n : i \in DOMAIN all /\ i \in DOMAIN parts
      BY <1>1, <1>5
    <2> HIDE DEF all, n
    <2> QED BY <1>1, <2>1 DEF WithMarks
  <1> HIDE DEF all, f, g, x
  <1>8. h \in Seq(Octets) /\ Len(h) = n + 1 /\ h[n + 1] = x /\ \A i \in 1 .. n : h[i] = f[i]
    BY <1>2, <1>4, AppendProperties
  <1> HIDE DEF h
  <1>9. \A i \in 1 .. n + 1 : g[i] = h[i]
    <2>1. \A i \in 1 .. n + 1 : i = n + 1 \/ i \in 1 .. n
      BY <1>1
    <2> HIDE DEF n
    <2> QED BY <1>6, <1>7, <1>8, <2>1
  <1>10. g = h
    <2> HIDE DEF n
    <2> QED BY <1>3, <1>8, <1>9, SeqEqual
  <1>11. FlattenSeq(g) = Join(FlattenSeq(f), x)
    BY <1>2, <1>4, <1>10, FlattenAppend DEF h, Octets, Join
  <1>12. parts = <<>> <=> n = 0
    BY EmptySeq DEF PartLists
  <1>13. CASE n = 0
    <2>1. JoinedBy(parts, mark) = <<>> /\ x = b
      BY <1>12, <1>13, JoinedNone DEF x
    <2>2. Join(<<>>, b) = b
      BY OctetsEmpty
    <2> QED BY <1>2, <1>3, <1>11, <1>12, <1>13, <2>1, <2>2 DEF all
  <1>14. CASE n # 0
    <2> DEFINE m == <<mark>>
               j == JoinedBy(parts, mark)
    <2>1. j \in Octets /\ m \in Octets
      BY JoinedType, MarkOctets
    <2>2. Append(j, mark) = Join(j, m)
      <3> HIDE DEF j
      <3> QED BY <2>1, AppendIsConcat DEF Join, Octets, m
    <2>3. x = Join(m, b)
      BY <1>14 DEF x, m
    <2> HIDE DEF m, j
    <2>4. Join(j, Join(m, b)) = Join(Join(j, m), b)
      BY <2>1, OctetsAssociate
    <2>5. JoinedBy(all, mark) = Join(j, x)
      BY <1>2, <1>3, <1>11 DEF j
    <2> QED BY <1>12, <1>14, <2>2, <2>3, <2>4, <2>5 DEF j, all
  <1> QED BY <1>13, <1>14

\* The same the other way round.
UnmarkedLists(mark) == Seq(Unmarked(mark))

LEMMA UnmarkedParts ==
  ASSUME NEW mark, NEW parts \in UnmarkedLists(mark)
  PROVE  parts \in PartLists
  <1>1. Unmarked(mark) \subseteq Octets
    <2>1. Int \ {mark} \subseteq Int
      OBVIOUS
    <2> QED BY <2>1, SeqMonotonic DEF Unmarked, Octets
  <1> QED BY <1>1, SeqMonotonic DEF UnmarkedLists, PartLists

\* Splitting gives the parts that were joined, if there were any.
LEMMA SplitJoined ==
  ASSUME NEW mark \in Int, NEW parts \in UnmarkedLists(mark), parts # <<>>
  PROVE  SplitBy(JoinedBy(parts, mark), mark) = parts
  <1> DEFINE T == {p \in UnmarkedLists(mark) :
                     p # <<>> => SplitBy(JoinedBy(p, mark), mark) = p}
  <1>1. <<>> \in T
    BY EmptySeq DEF UnmarkedLists
  <1>2. ASSUME NEW p \in T, NEW b \in Unmarked(mark) PROVE Append(p, b) \in T
    <2>1. p \in UnmarkedLists(mark) /\ (p # <<>> => SplitBy(JoinedBy(p, mark), mark) = p)
      BY <1>2
    <2>2. Append(p, b) \in UnmarkedLists(mark)
      BY <2>1, AppendProperties DEF UnmarkedLists
    <2>3. p \in PartLists /\ b \in Octets
      <3>1. Int \ {mark} \subseteq Int
        OBVIOUS
      <3>2. b \in Octets
        BY <3>1, SeqMonotonic DEF Unmarked, Octets
      <3> QED BY <2>1, <3>2, UnmarkedParts
    <2>4. <<>> \in PartLists /\ <<>> \in Octets
      BY EmptySeq DEF PartLists, Octets
    <2> DEFINE e == <<>>
    <2>5. e \in PartLists /\ e \in Octets /\ Join(e, b) = b
      BY <2>3, <2>4, OctetsEmpty
    <2>6. CASE p = <<>>
      <3>1. JoinedBy(Append(p, b), mark) = b
        BY <2>3, <2>6, JoinedAppend
      <3>2. SplitBy(e, mark) = Append(e, e)
        <4>1. Append(<<>>, <<>>) = <<<<>>>>
          OBVIOUS
        <4> QED BY <4>1, SplitNothing
      <3> HIDE DEF e
      <3>3. SplitBy(Join(e, b), mark) = Append(e, Join(e, b))
        BY <2>5, <3>2, SplitExtend
      <3>4. SplitBy(JoinedBy(Append(p, b), mark), mark) = Append(p, b)
        BY <2>5, <2>6, <3>1, <3>3 DEF e
      <3> QED BY <2>2, <3>4
    <2>7. CASE p # <<>>
      <3> DEFINE j == JoinedBy(p, mark)
                 jm == Append(j, mark)
      <3>1. j \in Octets /\ SplitBy(j, mark) = p
        BY <2>1, <2>3, <2>7, JoinedType
      <3>2. JoinedBy(Append(p, b), mark) = Join(jm, b)
        BY <2>3, <2>7, JoinedAppend
      <3> HIDE DEF j, e
      <3>3. jm \in Octets
        BY <3>1, AppendProperties DEF Octets
      <3>4. SplitBy(jm, mark) = Step(p, mark, mark)
        BY <3>1, SplitAppend
      <3>5. Step(p, mark, mark) = Append(p, e)
        BY StepMark DEF e
      <3> HIDE DEF jm
      <3>6. SplitBy(Join(jm, b), mark) = Append(p, Join(e, b))
        BY <2>3, <2>5, <3>3, <3>4, <3>5, SplitExtend
      <3>7. SplitBy(JoinedBy(Append(p, b), mark), mark) = Append(p, b)
        BY <2>5, <3>2, <3>6
      <3> QED BY <2>2, <3>7
    <2> QED BY <2>6, <2>7
  <1>3. T = UnmarkedLists(mark)
    <2>1. T \subseteq Seq(Unmarked(mark))
      BY DEF UnmarkedLists
    <2> HIDE DEF T
    <2> QED BY <1>1, <1>2, <2>1, SequenceInduction DEF UnmarkedLists
  <1> QED BY <1>3

-----------------------------------------------------------------------------
(* Cutting.                                                                *)

LEMMA OctetsEqual ==
  ASSUME NEW a \in Octets, NEW b \in Octets, Len(a) = Len(b),
         \A i \in 1 .. Len(a) : a[i] = b[i]
  PROVE  a = b
  BY SeqEqual DEF Octets

LEMMA OctetsHalves ==
  ASSUME NEW a \in Octets, NEW b \in Octets
  PROVE  /\ \A i \in 1 .. Len(a) : Join(a, b)[i] = a[i]
         /\ \A i \in 1 .. Len(b) : Join(a, b)[Len(a) + i] = b[i]
  BY OctetAt, OctetBefore

\* Of two ways to cut the same octets, the shorter first part starts the other.
LEMMA ShorterFirst ==
  ASSUME NEW x \in Octets, NEW y \in Octets, NEW u \in Octets, NEW v \in Octets,
         Join(x, y) = Join(u, v), Len(x) <= Len(u)
  PROVE  \E c \in Octets : u = Join(x, c) /\ y = Join(c, v)
  <1> DEFINE n == Len(x)
             k == Len(u) - Len(x)
             c == [i \in 1 .. k |-> u[n + i]]
             w == Join(u, v)
  <1>1. /\ n \in Nat /\ Len(u) \in Nat /\ Len(y) \in Nat /\ Len(v) \in Nat
        /\ Len(w) = Len(u) + Len(v) /\ Len(w) = n + Len(y)
    BY OctetsJoined
  <1>2. k \in Nat /\ Len(u) = n + k /\ Len(y) = k + Len(v)
    BY <1>1
  <1> HIDE DEF k
  <1>3. c \in Octets /\ Len(c) = k
    <2>1. \A i \in 1 .. k : n + i \in 1 .. Len(u)
      BY <1>1, <1>2
    <2>2. \A i \in 1 .. Len(u) : u[i] \in Int
      BY ElementOfSeq DEF Octets
    <2> QED BY <1>2, <2>1, <2>2 DEF Octets
  <1>4. \A i \in 1 .. k : c[i] = u[n + i]
    OBVIOUS
  <1> HIDE DEF c
  <1>5. /\ \A i \in 1 .. n : w[i] = x[i]
        /\ \A i \in 1 .. Len(y) : w[n + i] = y[i]
        /\ \A i \in 1 .. Len(u) : w[i] = u[i]
        /\ \A i \in 1 .. Len(v) : w[Len(u) + i] = v[i]
    BY OctetsHalves, SMTT(30)
  <1> HIDE DEF w, n
  <1> DEFINE xc == Join(x, c)
             cv == Join(c, v)
  <1>6. /\ xc \in Octets /\ Len(xc) = n + k
        /\ \A i \in 1 .. n : xc[i] = x[i]
        /\ \A i \in 1 .. k : xc[n + i] = c[i]
    BY <1>3, OctetsHalves, OctetsJoined DEF n
  <1>7. /\ cv \in Octets /\ Len(cv) = k + Len(v)
        /\ \A i \in 1 .. k : cv[i] = c[i]
        /\ \A i \in 1 .. Len(v) : cv[k + i] = v[i]
    BY <1>3, OctetsHalves, OctetsJoined
  <1> HIDE DEF xc, cv
  <1>8. u = xc
    <2>1. ASSUME NEW i \in 1 .. Len(u) PROVE u[i] = xc[i]
      <3>1. CASE i <= n
        <4>1. i \in 1 .. n
          BY <1>1, <1>2, <3>1
        <4> QED BY <1>5, <1>6, <4>1
      <3>2. CASE ~(i <= n)
        <4> DEFINE j == i - n
        <4>1. j \in 1 .. k /\ i = n + j
          BY <1>1, <1>2, <3>2
        <4> HIDE DEF j
        <4> QED BY <1>4, <1>6, <4>1
      <3> QED BY <3>1, <3>2
    <2> QED BY <1>2, <1>6, <2>1, OctetsEqual
  <1>9. y = cv
    <2>1. ASSUME NEW i \in 1 .. Len(y) PROVE y[i] = cv[i]
      <3>1. y[i] = w[n + i]
        BY <1>5
      <3>2. CASE i <= k
        <4>1. i \in 1 .. k /\ n + i \in 1 .. Len(u)
          BY <1>1, <1>2, <3>2
        <4>2. w[n + i] = u[n + i]
          BY <1>5, <4>1
        <4> QED BY <1>4, <1>7, <3>1, <4>1, <4>2
      <3>3. CASE ~(i <= k)
        <4> DEFINE j == i - k
        <4>1. j \in 1 .. Len(v) /\ i = k + j /\ n + i = Len(u) + j
          BY <1>1, <1>2, <3>3
        <4> HIDE DEF j
        <4>2. w[n + i] = v[j]
          BY <1>5, <4>1
        <4> QED BY <1>7, <3>1, <4>1, <4>2
      <3> QED BY <3>2, <3>3
    <2> QED BY <1>2, <1>7, <2>1, OctetsEqual
  <1> QED BY <1>3, <1>8, <1>9 DEF xc, cv

LEMMA LastOne ==
  ASSUME NEW d \in Octets, d # <<>>
  PROVE  \E e \in Octets, c \in Int : d = Append(e, c)
  <1> DEFINE T == {t \in Octets : t # <<>> => \E e \in Octets, c \in Int : t = Append(e, c)}
  <1>1. <<>> \in T
    BY EmptySeq DEF Octets
  <1>2. ASSUME NEW t \in T, NEW c \in Int PROVE Append(t, c) \in T
    <2>1. t \in Octets
      BY <1>2
    <2>2. Append(t, c) \in Octets
      BY <2>1, AppendProperties DEF Octets
    <2> QED BY <2>1, <2>2
  <1>3. T = Octets
    <2>1. T \subseteq Seq(Int)
      BY DEF Octets
    <2> HIDE DEF T
    <2> QED BY <1>1, <1>2, <2>1, SequenceInduction DEF Octets
  <1> QED BY <1>3

LEMMA UnmarkedPrefix ==
  ASSUME NEW mark, NEW c \in Octets, NEW d \in Octets, Join(c, d) \in Unmarked(mark)
  PROVE  c \in Unmarked(mark)
  <1>1. \A i \in 1 .. Len(Join(c, d)) : Join(c, d)[i] \in Int \ {mark}
    BY ElementOfSeq DEF Unmarked
  <1>2. Len(Join(c, d)) = Len(c) + Len(d) /\ Len(c) \in Nat /\ Len(d) \in Nat
    BY OctetsJoined
  <1>3. \A i \in 1 .. Len(c) : i \in 1 .. Len(Join(c, d))
    BY <1>2
  <1>4. \A i \in 1 .. Len(c) : Join(c, d)[i] = c[i]
    BY OctetsHalves
  <1>5. \A i \in 1 .. Len(c) : c[i] \in Int \ {mark}
    BY <1>1, <1>3, <1>4
  <1>6. c = [i \in 1 .. Len(c) |-> c[i]]
    BY LenProperties DEF Octets
  <1> QED BY <1>2, <1>5, <1>6 DEF Unmarked

LEMMA UnmarkedOctets ==
  ASSUME NEW mark, NEW c \in Unmarked(mark)
  PROVE  c \in Octets
  <1>1. Int \ {mark} \subseteq Int
    OBVIOUS
  <1> QED BY <1>1, SeqMonotonic DEF Unmarked, Octets

\* A text of as many parts as the whole that starts the whole: only of the last
\* part an end can be missing.
LEMMA CutOfJoined ==
  ASSUME NEW mark \in Int, NEW front \in UnmarkedLists(mark), NEW b \in Unmarked(mark),
         NEW cut \in Octets, NEW rest \in Octets,
         JoinedBy(Append(front, b), mark) = Join(cut, rest),
         Len(SplitBy(cut, mark)) = Len(front) + 1
  PROVE  \E c \in Unmarked(mark) : b = Join(c, rest) /\ SplitBy(cut, mark) = Append(front, c)
  <1> DEFINE e == <<>>
  <1>1. front \in PartLists /\ b \in Octets
    BY UnmarkedParts, UnmarkedOctets
  <1>2. /\ e \in PartLists /\ e \in Octets /\ SplitBy(e, mark) = Append(e, e)
        /\ \A a \in Octets : Join(e, a) = a
    <2>1. Append(<<>>, <<>>) = <<<<>>>>
      OBVIOUS
    <2>2. <<>> \in PartLists
      BY EmptySeq DEF PartLists
    <2>3. \A a \in Octets : Join(<<>>, a) = a
      BY OctetsEmpty
    <2>4. <<>> \in Octets
      BY EmptySeq DEF Octets
    <2> QED BY <2>1, <2>2, <2>3, <2>4, SplitNothing
  <1>3. CASE front = <<>>
    <2>1. b = Join(cut, rest)
      BY <1>1, <1>3, JoinedAppend
    <2>2. cut \in Unmarked(mark)
      BY <2>1, UnmarkedPrefix
    <2> HIDE DEF e
    <2>3. SplitBy(Join(e, cut), mark) = Append(e, Join(e, cut))
      BY <1>2, <2>2, SplitExtend
    <2>4. SplitBy(cut, mark) = Append(front, cut)
      BY <1>2, <1>3, <2>3 DEF e
    <2> QED BY <2>1, <2>2, <2>4
  <1>4. CASE front # <<>>
    <2> DEFINE j == JoinedBy(front, mark)
               jm == Append(j, mark)
    <2>1. j \in Octets /\ SplitBy(j, mark) = front
      BY <1>1, <1>4, JoinedType, SplitJoined
    <2>2. Join(jm, b) = Join(cut, rest)
      BY <1>1, <1>4, JoinedAppend
    <2> HIDE DEF j, e
    <2>3. jm \in Octets
      BY <2>1, AppendProperties DEF Octets
    <2>4. SplitBy(jm, mark) = Append(front, e)
      <3>1. SplitBy(jm, mark) = Step(front, mark, mark)
        BY <2>1, SplitAppend
      <3>2. Step(front, mark, mark) = Append(front, e)
        BY StepMark DEF e
      <3> QED BY <3>1, <3>2
    <2>5. Len(SplitBy(jm, mark)) = Len(front) + 1 /\ Len(front) \in Nat
      BY <1>1, <1>2, <2>4, PartsEnd
    <2>6. Len(jm) \in Nat /\ Len(cut) \in Nat
      BY <2>3, OctetsJoined
    <2>7. CASE Len(jm) <= Len(cut)
      <3> HIDE DEF jm
      <3>1. PICK c \in Octets : cut = Join(jm, c) /\ b = Join(c, rest)
        BY <1>1, <2>2, <2>3, <2>7, ShorterFirst
      <3>2. c \in Unmarked(mark)
        BY <3>1, UnmarkedPrefix
      <3>3. SplitBy(Join(jm, c), mark) = Append(front, Join(e, c))
        <4>1. /\ e \in Octets /\ front \in PartLists /\ jm \in Octets
              /\ SplitBy(jm, mark) = Append(front, e)
          BY <1>1, <1>2, <2>3, <2>4
        <4> QED BY ONLY <3>2, <4>1, SplitExtend
      <3>4. SplitBy(cut, mark) = Append(front, c)
        BY <1>2, <3>1, <3>3
      <3> QED BY <3>1, <3>2, <3>4
    <2>8. CASE Len(cut) <= Len(jm) /\ Len(cut) # Len(jm)
      <3> HIDE DEF jm
      <3>1. PICK d \in Octets : jm = Join(cut, d)
        BY <1>1, <2>2, <2>3, <2>8, ShorterFirst
      <3>2. d # <<>>
        <4>1. Len(jm) = Len(cut) + Len(d)
          BY <3>1, OctetsJoined
        <4> QED BY <2>6, <2>8, <4>1
      <3>3. PICK f \in Octets, x \in Int : d = Append(f, x)
        BY <3>2, LastOne
      <3> DEFINE cf == Join(cut, f)
      <3>4. jm = Append(cf, x) /\ cf \in Octets
        <4>1. cut \in Octets
          BY <1>1
        <4>2. Join(cut, Append(f, x)) = Append(Join(cut, f), x)
          BY ONLY <3>3, <4>1, JoinAppend
        <4>3. Join(cut, f) \in Octets
          BY ONLY <3>3, <4>1, OctetsJoined
        <4> QED BY ONLY <3>1, <3>3, <4>2, <4>3, Zenon DEF cf
      <3> HIDE DEF cf
      <3>5. j = cf
        <4>1. Append(cf, x) = Append(j, mark)
          BY <3>4 DEF jm
        <4>2. /\ Len(Append(cf, x)) = Len(cf) + 1 /\ Len(Append(j, mark)) = Len(j) + 1
              /\ \A i \in 1 .. Len(cf) : Append(cf, x)[i] = cf[i]
              /\ \A i \in 1 .. Len(j) : Append(j, mark)[i] = j[i]
          BY <2>1, <3>4, AppendProperties DEF Octets
        <4>3. Len(cf) \in Nat /\ Len(j) \in Nat
          BY <2>1, <3>4, LenProperties DEF Octets
        <4>4. Len(cf) = Len(j)
          BY <4>1, <4>2, <4>3
        <4>5. \A i \in 1 .. Len(j) : j[i] = cf[i]
          BY <4>1, <4>2, <4>4
        <4> QED BY <2>1, <3>4, <4>4, <4>5, OctetsEqual
      <3>6. Len(front) = Len(SplitBy(cut, mark)) + Len(SplitBy(f, mark)) - 1
        <4>1. Len(SplitBy(Join(cut, f), mark)) = Len(SplitBy(cut, mark)) + Len(SplitBy(f, mark)) - 1
          BY SplitCount
        <4> QED BY <2>1, <3>5, <4>1 DEF cf
      <3>7. Len(SplitBy(f, mark)) \in Nat /\ Len(SplitBy(f, mark)) >= 1
        BY SplitType
      <3>8. FALSE
        BY <2>5, <3>6, <3>7
      <3> QED BY <3>8
    <2> QED BY <2>6, <2>7, <2>8
  <1> QED BY <1>3, <1>4
=============================================================================
