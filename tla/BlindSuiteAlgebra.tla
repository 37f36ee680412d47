------------------------- MODULE BlindSuiteAlgebra -------------------------
(***************************************************************************)
(* The algebra of BlindSuite: scalars, points, sums of products, the basis, *)
(* index sets and the oracle.                                              *)
(***************************************************************************)
EXTENDS BlindSuite, SeqLemmas, FiniteSetTheorems

-----------------------------------------------------------------------------
(* Arithmetic modulo q.                                                    *)

LEMMA OrderType == q \in Nat /\ q > 1
  BY BlindSuiteAssumption DEF BlindSuiteAssumption

LEMMA OrderIsPrime == \A d \in 2 .. (q - 1) : q % d # 0
  BY BlindSuiteAssumption DEF BlindSuiteAssumption

LEMMA ScalarType == \A x \in Scalar : x \in Int /\ 0 <= x /\ x < q
  BY OrderType DEF Scalar

LEMMA ToScalar == ASSUME NEW x \in Int, 0 <= x, x < q PROVE x \in Scalar
  BY OrderType DEF Scalar

\* With variables for the remainders, which the solver need not know as such.
LEMMA Multiples ==
  ASSUME NEW m \in Int, NEW j \in Int, NEW k \in Int, NEW v \in Int, NEW w \in Int, NEW r \in Int
  PROVE  /\ v = j * m + r /\ w = k * m + r => v = w + (j - k) * m
         /\ v = w + j * m /\ w = k * m + r => v = (j + k) * m + r
  OBVIOUS

LEMMA Remainder ==
  ASSUME NEW x \in Int
  PROVE  x % q \in Scalar /\ x % q \in Int /\ \E k \in Int : x = k * q + (x % q)
  <1>1. q \in Int /\ q > 0
    BY OrderType
  <1>2. x = (x \div q) * q + (x % q) /\ x \div q \in Int /\ x % q >= 0 /\ x % q < q /\ x % q \in Int
    BY <1>1
  <1>3. x % q \in Scalar
    BY <1>1, <1>2, ToScalar
  <1> QED BY <1>2, <1>3

LEMMA OneRemainder ==
  ASSUME NEW x \in Int, NEW k \in Int, NEW r \in Scalar, x = k * q + r
  PROVE  x % q = r
  <1>1. q \in Int /\ q > 0 /\ r \in Int /\ 0 <= r /\ r < q
    BY OrderType DEF Scalar
  <1>2. PICK m \in Int : x = m * q + (x % q)
    BY Remainder
  <1>3. x % q \in Int /\ 0 <= x % q /\ x % q < q
    BY <1>1, Remainder DEF Scalar
  <1>4. (k - m) * q = (x % q) - r
    BY ONLY <1>1, <1>2, <1>3, k \in Int, m \in Int, x = k * q + r
  <1>5. k - m = 0
    <2>1. ASSUME k - m >= 1 PROVE FALSE
      <3>1. (k - m) * q >= q
        BY ONLY <2>1, <1>1, k \in Int, m \in Int
      <3> QED BY ONLY <3>1, <1>4, <1>1, <1>3
    <2>2. ASSUME k - m <= -1 PROVE FALSE
      <3>1. (k - m) * q <= -q
        BY ONLY <2>2, <1>1, k \in Int, m \in Int
      <3> QED BY ONLY <3>1, <1>4, <1>1, <1>3
    <2> QED BY <2>1, <2>2
  <1>6. (k - m) * q = 0
    BY <1>1, <1>5
  <1> QED BY <1>4, <1>6, <1>3, <1>1

\* x and y have the same remainder.
Cong(x, y) == \E k \in Int : x = y + k * q

LEMMA CongSame ==
  ASSUME NEW x \in Int, NEW y \in Int
  PROVE  Cong(x, y) <=> x % q = y % q
  <1>0. q \in Int
    BY OrderType
  <1>1. q \in Int /\ x % q \in Scalar /\ y % q \in Scalar /\ x % q \in Int /\ y % q \in Int
    BY <1>0, Remainder, Zenon
  <1>2. PICK k \in Int : x = k * q + (x % q)
    BY Remainder
  <1>3. PICK m \in Int : y = m * q + (y % q)
    BY Remainder
  <1>4. ASSUME x % q = y % q PROVE Cong(x, y)
    <2>1. k - m \in Int /\ x = y + (k - m) * q
      BY <1>1, <1>2, <1>3, <1>4, Multiples
    <2> QED BY <2>1 DEF Cong
  <1>5. ASSUME Cong(x, y) PROVE x % q = y % q
    <2>1. PICK j \in Int : x = y + j * q
      BY <1>5 DEF Cong
    <2>2. j + m \in Int /\ x = (j + m) * q + (y % q)
      BY <1>1, <1>3, <2>1, Multiples
    <2> QED BY <1>1, <2>2, OneRemainder
  <1> QED BY <1>4, <1>5

LEMMA CongRefl == ASSUME NEW x \in Int PROVE Cong(x, x)
  BY CongSame

LEMMA CongSym == ASSUME NEW x \in Int, NEW y \in Int, Cong(x, y) PROVE Cong(y, x)
  BY CongSame

LEMMA CongTrans ==
  ASSUME NEW x \in Int, NEW y \in Int, NEW z \in Int, Cong(x, y), Cong(y, z)
  PROVE  Cong(x, z)
  BY CongSame

LEMMA CongMod == ASSUME NEW x \in Int PROVE Cong(x % q, x) /\ Cong(x, x % q)
  <1>1. x % q \in Int
    BY Remainder, OrderType DEF Scalar
  <1>2. PICK k \in Int : x = k * q + (x % q)
    BY Remainder
  <1>3. q \in Int
    BY OrderType
  <1>4. Cong(x, x % q)
    <2>1. x = (x % q) + k * q
      BY <1>1, <1>2, <1>3
    <2> QED BY <2>1 DEF Cong
  <1> QED BY <1>1, <1>4, CongSym

LEMMA CongAdd ==
  ASSUME NEW x \in Int, NEW y \in Int, NEW v \in Int, NEW w \in Int, Cong(x, v), Cong(y, w)
  PROVE  Cong(x + y, v + w)
  <1>1. PICK k \in Int : x = v + k * q
    BY DEF Cong
  <1>2. PICK m \in Int : y = w + m * q
    BY DEF Cong
  <1>3. q \in Int
    BY OrderType
  <1>4. k + m \in Int /\ x + y = (v + w) + (k + m) * q
    BY ONLY <1>1, <1>2, <1>3, k \in Int, m \in Int, v \in Int, w \in Int
  <1> QED BY <1>4 DEF Cong

LEMMA CongMul ==
  ASSUME NEW x \in Int, NEW y \in Int, NEW v \in Int, NEW w \in Int, Cong(x, v), Cong(y, w)
  PROVE  Cong(x * y, v * w)
  <1>1. PICK k \in Int : x = v + k * q
    BY DEF Cong
  <1>2. PICK m \in Int : y = w + m * q
    BY DEF Cong
  <1>3. q \in Int
    BY OrderType
  <1> DEFINE j == v * m + k * w + k * m * q
  <1>4. j \in Int /\ x * y = v * w + j * q
    BY ONLY <1>1, <1>2, <1>3, k \in Int, m \in Int, v \in Int, w \in Int
  <1> QED BY <1>4 DEF Cong

LEMMA ScalarMod == ASSUME NEW x \in Scalar PROVE x % q = x
  <1>1. q \in Int /\ x \in Int
    BY OrderType, ScalarType
  <1>2. PICK k \in Int : k = 0
    OBVIOUS
  <1>3. x = k * q + x
    BY <1>1, <1>2
  <1> QED BY <1>1, <1>3, OneRemainder

LEMMA CongScalar ==
  ASSUME NEW x \in Scalar, NEW y \in Scalar, Cong(x, y)
  PROVE  x = y
  <1>1. PICK k \in Int : x = y + k * q
    BY DEF Cong
  <1>2. q \in Int /\ x \in Int /\ y \in Int
    BY OrderType, ScalarType
  <1>3. x = k * q + y
    BY <1>1, <1>2
  <1>4. x % q = y
    BY <1>2, <1>3, OneRemainder
  <1> QED BY <1>4, ScalarMod

\* q is prime: what is not zero has an inverse.  The least without one would
\* leave a smaller one, the remainder of q.
LEMMA InverseExists ==
  ASSUME NEW s \in 1 .. (q - 1)
  PROVE  \E t \in Scalar : (s * t) % q = 1
  <1> DEFINE T == {v \in 1 .. (q - 1) : \A u \in Int : ~ Cong(v * u, 1)}
  <1>0. q \in Int /\ q > 1
    BY OrderType
  <1>1. T = {}
    <2> SUFFICES ASSUME T # {} PROVE FALSE
      OBVIOUS
    <2>1. T \subseteq Nat
      BY <1>0
    <2>2. PICK v \in T : \A w \in T : v <= w
      <3> HIDE DEF T
      <3> QED BY <2>1, LeastNumber
    <2>3. v \in Int /\ 1 <= v /\ v < q
      BY <1>0
    <2>4. v # 1
      <3>1. ASSUME v = 1 PROVE FALSE
        <4>1. v * 1 = 1 /\ Cong(1, 1)
          BY <3>1, CongRefl
        <4> QED BY <4>1
      <3> QED BY <3>1
    <2>5. q % v # 0
      <3>1. v \in 2 .. (q - 1)
        BY <2>3, <2>4, <1>0
      <3> QED BY <3>1, OrderIsPrime, Zenon
    <2>6. PICK r \in Int : r = q % v
      BY <1>0, <2>3
    <2>7. PICK k \in Int : k = q \div v
      BY <1>0, <2>3
    <2>8. q = v * k + r /\ 0 <= r /\ r < v
      BY <1>0, <2>3, <2>6, <2>7
    <2>9. r \in 1 .. (q - 1) /\ ~ (v <= r)
      BY <1>0, <2>3, <2>5, <2>6, <2>8
    <2>10. PICK u \in Int : Cong(r * u, 1)
      BY <2>2, <2>9
    <2>11. PICK m \in Int : r * u = 1 + m * q
      BY <2>10 DEF Cong
    <2>12. v * (-(k * u)) = 1 + (m - u) * q
      BY ONLY <2>8, <2>11, <1>0, <2>3, r \in Int, k \in Int, u \in Int, m \in Int
    <2>13. Cong(v * (-(k * u)), 1) /\ -(k * u) \in Int
      <3>1. m - u \in Int /\ -(k * u) \in Int
        OBVIOUS
      <3> QED BY <2>12, <3>1 DEF Cong
    <2> QED BY <2>13
  <1>2. PICK u \in Int : Cong(s * u, 1)
    BY <1>1
  <1>3. s \in Int
    BY <1>0
  <1>4. u % q \in Scalar /\ u % q \in Int
    BY Remainder
  <1>5. Cong(s * (u % q), s * u)
    BY <1>3, <1>4, CongMod, CongRefl, CongMul
  <1>6. Cong(s * (u % q), 1)
    BY <1>2, <1>3, <1>4, <1>5, CongTrans
  <1>7. (s * (u % q)) % q = 1 % q
    BY <1>3, <1>4, <1>6, CongSame
  <1>8. 1 % q = 1
    BY <1>0, ToScalar, ScalarMod
  <1>9. PICK t \in Scalar : t = u % q
    BY <1>4
  <1>10. (s * t) % q = 1
    BY <1>7, <1>8, <1>9
  <1> QED BY <1>10

LEMMA InvertType ==
  ASSUME NEW s \in 1 .. (q - 1)
  PROVE  Invert(s) \in Scalar /\ Invert(s) \in Int /\ Cong(s * Invert(s), 1)
  <1>0. \E t \in Scalar : (s * t) % q = 1
    BY InverseExists
  <1>1. Invert(s) \in Scalar /\ (s * Invert(s)) % q = 1
    BY <1>0, Zenon DEF Invert
  <1>2. q \in Int /\ q > 1 /\ s \in Int /\ Invert(s) \in Int
    BY <1>1, OrderType, ScalarType
  <1>3. 1 % q = 1
    BY <1>2, ToScalar, ScalarMod
  <1>4. s * Invert(s) \in Int
    BY <1>2
  <1> QED BY <1>1, <1>2, <1>3, <1>4, CongSame

\* A product of scalars that are not zero is not zero.
LEMMA NoZeroDivisors ==
  ASSUME NEW s \in 1 .. (q - 1), NEW t \in Int, Cong(s * t, 0)
  PROVE  Cong(t, 0)
  <1> DEFINE i == Invert(s)
  <1>1. i \in Int /\ Cong(s * i, 1)
    BY InvertType
  <1>2. s \in Int
    BY OrderType
  <1> HIDE DEF i
  <1>3. Cong((s * i) * t, 1 * t)
    BY <1>1, <1>2, CongMul, CongRefl
  <1>4. Cong((s * t) * i, 0 * i)
    <2>1. s * t \in Int /\ Cong(i, i)
      BY <1>1, <1>2, CongRefl
    <2> QED BY <1>1, <2>1, CongMul
  <1>5. (s * i) * t = (s * t) * i /\ 1 * t = t /\ 0 * i = 0
    BY <1>1, <1>2
  <1>6. Cong((s * t) * i, t) /\ Cong((s * t) * i, 0) /\ (s * t) * i \in Int
    BY <1>1, <1>2, <1>3, <1>4, <1>5
  <1>7. Cong(t, (s * t) * i)
    BY <1>6, CongSym
  <1> QED BY <1>6, <1>7, CongTrans

-----------------------------------------------------------------------------
(* Points.                                                                 *)

Fields == {"issuer", "committed", "keys"}

LEMMA ShapeType == \A s \in Shapes, f \in Fields : s[f] \in Nat
  BY BlindSuiteAssumption DEF BlindSuiteAssumption, Fields

\* Of finitely many shapes, one is the largest.
LEMMA SizesBounded ==
  ASSUME NEW f \in Fields
  PROVE  \E n \in Nat : \A s \in Shapes : s[f] <= n
  <1>1. IsFiniteSet(Shapes)
    BY BlindSuiteAssumption DEF BlindSuiteAssumption
  <1>2. Cardinality(Shapes) \in Nat /\ ExistsBijection(1 .. Cardinality(Shapes), Shapes)
    BY <1>1, FS_CardinalityType
  <1>3. PICK c \in Nat : c = Cardinality(Shapes)
    BY <1>2
  <1>4. PICK e \in [1 .. c -> Shapes] : \A s \in Shapes : \E i \in 1 .. c : e[i] = s
    BY <1>2, <1>3 DEF ExistsBijection, Bijection, Surjection
  <1> DEFINE N == {m \in Nat : \E n \in Nat : \A i \in 1 .. c : i <= m => e[i][f] <= n}
  <1>5. 0 \in N
    <2>1. \A i \in 1 .. c : i <= 0 => e[i][f] <= 0
      OBVIOUS
    <2> QED BY <2>1
  <1>6. ASSUME NEW m \in Nat, m \in N PROVE m + 1 \in N
    <2>1. PICK n \in Nat : \A i \in 1 .. c : i <= m => e[i][f] <= n
      BY <1>6
    <2>2. CASE m + 1 \in 1 .. c
      <3>1. e[m + 1][f] \in Nat
        BY <2>2, ShapeType
      <3>2. PICK v \in Nat : v = e[m + 1][f]
        BY <3>1
      <3>3. ASSUME NEW i \in 1 .. c, i <= m + 1 PROVE e[i][f] <= n + v
        <4>1. CASE i = m + 1
          BY <4>1, <3>2
        <4>2. CASE i # m + 1
          <5>1. e[i][f] <= n /\ e[i][f] \in Nat
            BY <4>2, <3>3, <2>1, ShapeType
          <5> QED BY <5>1
        <4> QED BY <4>1, <4>2
      <3>4. PICK w \in Nat : w = n + v
        BY <3>2
      <3>5. \A i \in 1 .. c : i <= m + 1 => e[i][f] <= w
        BY <3>3, <3>4
      <3> QED BY <3>5, SMTT(40)
    <2>3. CASE m + 1 \notin 1 .. c
      <3>1. \A i \in 1 .. c : i <= m + 1 => e[i][f] <= n
        BY <2>1, <2>3
      <3> QED BY <3>1, SMTT(40)
    <2> QED BY <2>2, <2>3
  <1>7. c \in N
    <2> HIDE DEF N
    <2> QED BY <1>5, <1>6, NumberInduction
  <1>8. PICK n \in Nat : \A i \in 1 .. c : i <= c => e[i][f] <= n
    BY <1>7
  <1>9. \A s \in Shapes : s[f] <= n
    BY <1>4, <1>8
  <1> QED BY <1>9

LEMMA LargestType ==
  ASSUME NEW f \in Fields
  PROVE  Largest(f) \in Nat /\ \A s \in Shapes : s[f] <= Largest(f)
  <1> DEFINE sizes == {s[f] : s \in Shapes}
             T == {n \in Nat : \A s \in Shapes : s[f] <= n}
  <1>1. T # {} /\ T \subseteq Nat
    BY SizesBounded
  <1>2. PICK n \in T : \A m \in T : n <= m
    <2> HIDE DEF T
    <2> QED BY <1>1, LeastNumber
  <1>3. \E s \in Shapes : s[f] = n
    <2> SUFFICES ASSUME \A s \in Shapes : s[f] # n PROVE FALSE
      OBVIOUS
    <2>1. PICK s \in Shapes : TRUE
      BY BlindSuiteAssumption DEF BlindSuiteAssumption
    <2>2. n \in Nat /\ s[f] \in Nat /\ s[f] <= n /\ s[f] # n
      BY ShapeType
    <2>3. n - 1 \in Nat
      BY <2>2
    <2>4. \A t \in Shapes : t[f] <= n - 1
      BY <2>2, ShapeType
    <2> QED BY <1>2, <2>2, <2>3, <2>4
  <1>4. n \in sizes /\ \A m \in sizes : m <= n
    BY <1>3
  <1>5. sizes \subseteq Nat
    BY ShapeType
  <1>6. Largest(f) = CHOOSE k \in sizes : \A m \in sizes : m <= k
    BY DEF Largest
  <1>7. Largest(f) \in sizes /\ \A m \in sizes : m <= Largest(f)
    <2> HIDE DEF sizes
    <2> QED BY <1>4, <1>6
  <1> QED BY <1>5, <1>7

\* x is one of the elements of s.
Has(s, x) == \E b \in 1 .. Len(s) : s[b] = x

LEMMA HasConcat ==
  ASSUME NEW S, NEW s \in Seq(S), NEW t \in Seq(S), NEW x, Has(s, x) \/ Has(t, x)
  PROVE  Has(s \o t, x)
  <1>1. Len(s) \in Nat /\ Len(t) \in Nat /\ Len(s \o t) = Len(s) + Len(t)
    BY ConcatProperties
  <1>2. ASSUME NEW b \in 1 .. Len(s), s[b] = x PROVE Has(s \o t, x)
    <2>1. (s \o t)[b] = x /\ b \in 1 .. Len(s \o t)
      BY <1>1, <1>2, ConcatProperties
    <2> QED BY <2>1 DEF Has
  <1>3. ASSUME NEW b \in 1 .. Len(t), t[b] = x PROVE Has(s \o t, x)
    <2>1. PICK c \in Int : c = Len(s) + b
      BY <1>1
    <2>2. c \in 1 .. Len(s \o t) /\ c > Len(s) /\ c - Len(s) = b
      BY <1>1, <2>1
    <2>3. (s \o t)[c] = t[c - Len(s)]
      BY <1>1, <2>2, ConcatProperties
    <2>4. (s \o t)[c] = x
      BY <1>3, <2>2, <2>3
    <2> QED BY <2>2, <2>4 DEF Has
  <1> QED BY <1>2, <1>3 DEF Has

Family(g, size) == [i \in 1 .. size |-> <<g, i>>]
Names == {"P1", "Q1", "H", "Q2", "J", "HK", "Y0", "Y1"}

\* How many generators there are of each name.
SizeOf(g) == CASE g \in {"H", "J"} -> Largest("issuer") + Largest("committed")
               [] g = "HK" -> Largest("keys")
               [] OTHER -> 1

LEMMA SizeType == ASSUME NEW g \in Names PROVE SizeOf(g) \in Nat
  <1>1. Largest("issuer") + Largest("committed") \in Nat /\ Largest("keys") \in Nat
    BY LargestType DEF Fields
  <1> QED BY <1>1 DEF SizeOf, Names

LEMMA FamilyType ==
  ASSUME NEW g \in Names, NEW n \in Nat
  PROVE  /\ Family(g, n) \in Seq(Names \X Nat)
         /\ \A i \in 1 .. n : Has(Family(g, n), <<g, i>>)
  <1>1. Family(g, n) \in [1 .. n -> Names \X Nat]
    BY DEF Family
  <1>2. Family(g, n) \in Seq(Names \X Nat) /\ Len(Family(g, n)) = n
    BY <1>1
  <1>3. \A i \in 1 .. n : Has(Family(g, n), <<g, i>>)
    BY <1>2 DEF Has, Family
  <1> QED BY <1>2, <1>3

LEMMA BasisType ==
  /\ Basis \in Seq(Names \X Nat)
  /\ Dim \in Nat
  /\ \A g \in Names : \A i \in 1 .. SizeOf(g) : Has(Basis, <<g, i>>)
  <1> DEFINE S == Names \X Nat
             F(g) == Family(g, SizeOf(g))
  <1>1. ASSUME NEW g \in Names
        PROVE  F(g) \in Seq(S) /\ \A i \in 1 .. SizeOf(g) : Has(F(g), <<g, i>>)
    BY SizeType, FamilyType
  <1>2. Basis = ((((((F("P1") \o F("Q1")) \o F("H")) \o F("Q2")) \o F("J")) \o F("HK")) \o F("Y0")) \o F("Y1")
    BY DEF Basis, Family, SizeOf
  <1>3. /\ "P1" \in Names /\ "Q1" \in Names /\ "H" \in Names /\ "Q2" \in Names /\ "J" \in Names
        /\ "HK" \in Names /\ "Y0" \in Names /\ "Y1" \in Names
    BY DEF Names
  <1> HIDE DEF F, S
  <1> DEFINE c2 == F("P1") \o F("Q1")
             c3 == c2 \o F("H")
             c4 == c3 \o F("Q2")
             c5 == c4 \o F("J")
             c6 == c5 \o F("HK")
             c7 == c6 \o F("Y0")
             c8 == c7 \o F("Y1")
  <1>4. ASSUME NEW a \in Seq(S), NEW b \in Seq(S)
        PROVE  a \o b \in Seq(S) /\ \A x : Has(a, x) \/ Has(b, x) => Has(a \o b, x)
    BY HasConcat, ConcatProperties
  <1>5. Basis = c8
    BY <1>2
  <1>6. c2 \in Seq(S) /\ \A x : Has(F("P1"), x) \/ Has(F("Q1"), x) => Has(c2, x)
    BY <1>1, <1>3, <1>4
  <1> HIDE DEF c2
  <1>7. c3 \in Seq(S) /\ \A x : Has(c2, x) \/ Has(F("H"), x) => Has(c3, x)
    BY <1>1, <1>3, <1>4, <1>6
  <1> HIDE DEF c3
  <1>8. c4 \in Seq(S) /\ \A x : Has(c3, x) \/ Has(F("Q2"), x) => Has(c4, x)
    BY <1>1, <1>3, <1>4, <1>7
  <1> HIDE DEF c4
  <1>9. c5 \in Seq(S) /\ \A x : Has(c4, x) \/ Has(F("J"), x) => Has(c5, x)
    BY <1>1, <1>3, <1>4, <1>8
  <1> HIDE DEF c5
  <1>10. c6 \in Seq(S) /\ \A x : Has(c5, x) \/ Has(F("HK"), x) => Has(c6, x)
    BY <1>1, <1>3, <1>4, <1>9
  <1> HIDE DEF c6
  <1>11. c7 \in Seq(S) /\ \A x : Has(c6, x) \/ Has(F("Y0"), x) => Has(c7, x)
    BY <1>1, <1>3, <1>4, <1>10
  <1> HIDE DEF c7
  <1>12. c8 \in Seq(S) /\ \A x : Has(c7, x) \/ Has(F("Y1"), x) => Has(c8, x)
    BY <1>1, <1>3, <1>4, <1>11
  <1> HIDE DEF c8
  <1>13. ASSUME NEW g \in Names, NEW i \in 1 .. SizeOf(g) PROVE Has(c8, <<g, i>>)
    <2>1. Has(F(g), <<g, i>>)
      BY <1>1
    <2>2. g \in {"P1", "Q1", "H", "Q2", "J", "HK", "Y0", "Y1"}
      BY DEF Names
    <2> QED BY <2>1, <2>2, <1>6, <1>7, <1>8, <1>9, <1>10, <1>11, <1>12
  <1>14. c8 \in Seq(S) => Len(c8) \in Nat
    BY LenProperties
  <1> QED BY <1>5, <1>12, <1>13, <1>14 DEF Dim, S

LEMMA BasisHas ==
  ASSUME NEW g \in Names, NEW i \in 1 .. SizeOf(g)
  PROVE  \E b \in 1 .. Dim : Basis[b] = <<g, i>>
  BY BasisType DEF Has, Dim

LEMMA CoefficientsSame ==
  ASSUME NEW f \in [1 .. Dim -> Int]
  PROVE  Coefficients(f) = f
  <1>1. Dim \in Nat
    BY BasisType
  <1>2. f \in Seq(Int) /\ Len(f) = Dim
    BY <1>1
  <1>3. SubSeq(f, 1, Dim) = f
    BY <1>1, <1>2
  <1> QED BY <1>3 DEF Coefficients

LEMMA PointType == ASSUME NEW x \in Point, NEW b \in 1 .. Dim PROVE x[b] \in Scalar /\ x[b] \in Int
  BY ScalarType DEF Point

LEMMA Remainders ==
  ASSUME NEW f \in [1 .. Dim -> Int]
  PROVE  Coefficients([b \in 1 .. Dim |-> f[b] % q]) \in Point
         /\ \A b \in 1 .. Dim : Coefficients([c \in 1 .. Dim |-> f[c] % q])[b] = f[b] % q
  <1> DEFINE g == [b \in 1 .. Dim |-> f[b] % q]
  <1>1. ASSUME NEW b \in 1 .. Dim PROVE f[b] % q \in Scalar /\ f[b] % q \in Int
    <2>1. PICK v \in Int : v = f[b]
      OBVIOUS
    <2> QED BY <2>1, Remainder
  <1>2. g \in [1 .. Dim -> Int] /\ g \in Point
    BY <1>1 DEF Point
  <1>3. Coefficients(g) = g
    BY <1>2, CoefficientsSame
  <1> QED BY <1>2, <1>3

LEMMA PlusAt ==
  ASSUME NEW x \in Point, NEW y \in Point
  PROVE  Plus(x, y) \in Point /\ \A b \in 1 .. Dim : Plus(x, y)[b] = (x[b] + y[b]) % q
  <1> DEFINE f == [b \in 1 .. Dim |-> x[b] + y[b]]
  <1>1. f \in [1 .. Dim -> Int]
    BY PointType
  <1>2. Plus(x, y) = Coefficients([b \in 1 .. Dim |-> f[b] % q])
    BY DEF Plus
  <1>3. \A b \in 1 .. Dim : f[b] = x[b] + y[b]
    OBVIOUS
  <1> HIDE DEF f
  <1> QED BY <1>1, <1>2, <1>3, Remainders

LEMMA TimesAt ==
  ASSUME NEW x \in Point, NEW s \in Int
  PROVE  Times(x, s) \in Point /\ \A b \in 1 .. Dim : Times(x, s)[b] = (x[b] * s) % q
  <1> DEFINE f == [b \in 1 .. Dim |-> x[b] * s]
  <1>1. f \in [1 .. Dim -> Int]
    BY PointType
  <1>2. Times(x, s) = Coefficients([b \in 1 .. Dim |-> f[b] % q])
    BY DEF Times
  <1>3. \A b \in 1 .. Dim : f[b] = x[b] * s
    OBVIOUS
  <1> HIDE DEF f
  <1> QED BY <1>1, <1>2, <1>3, Remainders

LEMMA IdentityAt == Identity \in Point /\ \A b \in 1 .. Dim : Identity[b] = 0
  <1> DEFINE f == [b \in 1 .. Dim |-> 0]
  <1>1. 0 \in Scalar
    BY OrderType, ToScalar
  <1>2. f \in [1 .. Dim -> Int] /\ f \in Point
    BY <1>1 DEF Point
  <1>3. Coefficients(f) = f
    BY <1>2, CoefficientsSame
  <1>4. Identity = Coefficients(f)
    BY DEF Identity
  <1> QED BY <1>2, <1>3, <1>4

LEMMA GeneratorAt ==
  ASSUME NEW g, NEW i
  PROVE  /\ Generator(g, i) \in Point
         /\ \A b \in 1 .. Dim : Generator(g, i)[b] = IF Basis[b] = <<g, i>> THEN 1 ELSE 0
  <1> DEFINE f == [b \in 1 .. Dim |-> IF Basis[b] = <<g, i>> THEN 1 ELSE 0]
  <1>1. 0 \in Scalar /\ 1 \in Scalar
    BY OrderType, ToScalar
  <1>2. f \in [1 .. Dim -> Int] /\ f \in Point
    BY <1>1 DEF Point
  <1>3. Coefficients(f) = f
    BY <1>2, CoefficientsSame
  <1>4. Generator(g, i) = Coefficients(f)
    BY DEF Generator
  <1> QED BY <1>2, <1>3, <1>4

LEMMA PointsEqual ==
  ASSUME NEW x \in Point, NEW y \in Point, \A b \in 1 .. Dim : Cong(x[b], y[b])
  PROVE  x = y
  <1>1. ASSUME NEW b \in 1 .. Dim PROVE x[b] = y[b]
    BY PointType, CongScalar
  <1>2. x \in [1 .. Dim -> Scalar] /\ y \in [1 .. Dim -> Scalar]
    BY DEF Point
  <1>3. x = [b \in 1 .. Dim |-> x[b]] /\ y = [b \in 1 .. Dim |-> y[b]]
    BY <1>2
  <1>4. [b \in 1 .. Dim |-> x[b]] = [b \in 1 .. Dim |-> y[b]]
    BY <1>1
  <1> QED BY <1>3, <1>4, Zenon

LEMMA PlusCong ==
  ASSUME NEW x \in Point, NEW y \in Point, NEW b \in 1 .. Dim
  PROVE  Plus(x, y)[b] \in Int /\ x[b] + y[b] \in Int /\ Cong(Plus(x, y)[b], x[b] + y[b])
  <1>1. x[b] + y[b] \in Int /\ Plus(x, y) \in Point /\ Plus(x, y)[b] = (x[b] + y[b]) % q
    BY PointType, PlusAt
  <1>2. PICK v \in Int : v = x[b] + y[b]
    BY <1>1
  <1> QED BY <1>1, <1>2, CongMod, PointType

LEMMA TimesCong ==
  ASSUME NEW x \in Point, NEW s \in Int, NEW b \in 1 .. Dim
  PROVE  Times(x, s)[b] \in Int /\ x[b] * s \in Int /\ Cong(Times(x, s)[b], x[b] * s)
  <1>1. x[b] * s \in Int /\ Times(x, s) \in Point /\ Times(x, s)[b] = (x[b] * s) % q
    BY PointType, TimesAt
  <1>2. PICK v \in Int : v = x[b] * s
    BY <1>1
  <1> QED BY <1>1, <1>2, CongMod, PointType

LEMMA PlusCommutes ==
  ASSUME NEW x \in Point, NEW y \in Point
  PROVE  Plus(x, y) = Plus(y, x)
  <1>1. ASSUME NEW b \in 1 .. Dim PROVE Cong(Plus(x, y)[b], Plus(y, x)[b])
    <2>1. x[b] + y[b] = y[b] + x[b]
      BY PointType
    <2> QED BY <2>1, PlusCong, CongSym, CongTrans
  <1> QED BY <1>1, PlusAt, PointsEqual

LEMMA PlusAssociates ==
  ASSUME NEW x \in Point, NEW y \in Point, NEW z \in Point
  PROVE  Plus(Plus(x, y), z) = Plus(x, Plus(y, z))
  <1>1. Plus(x, y) \in Point /\ Plus(y, z) \in Point
    BY PlusAt
  <1>2. ASSUME NEW b \in 1 .. Dim PROVE Cong(Plus(Plus(x, y), z)[b], Plus(x, Plus(y, z))[b])
    <2>1. x[b] \in Int /\ y[b] \in Int /\ z[b] \in Int
      BY PointType
    <2>2. PICK l \in Int : l = Plus(Plus(x, y), z)[b]
      BY <1>1, PlusCong
    <2>3. PICK r \in Int : r = Plus(x, Plus(y, z))[b]
      BY <1>1, PlusCong
    <2>4. PICK m \in Int : m = Plus(x, y)[b]
      BY PlusCong
    <2>5. PICK n \in Int : n = Plus(y, z)[b]
      BY PlusCong
    <2>6. Cong(l, m + z[b]) /\ Cong(m, x[b] + y[b]) /\ Cong(r, x[b] + n) /\ Cong(n, y[b] + z[b])
      BY <1>1, <2>2, <2>3, <2>4, <2>5, PlusCong
    <2>7. PICK v \in Int : v = (x[b] + y[b]) + z[b]
      BY <2>1
    <2>8. Cong(l, v)
      <3>1. Cong(m + z[b], v)
        <4>1. x[b] + y[b] \in Int /\ Cong(z[b], z[b])
          BY <2>1, CongRefl
        <4> QED BY <2>1, <2>6, <2>7, <4>1, CongAdd
      <3> QED BY <2>1, <2>6, <3>1, CongTrans
    <2>9. Cong(r, v)
      <3>1. x[b] + (y[b] + z[b]) = v
        BY <2>1, <2>7
      <3>2. Cong(x[b] + n, v)
        <4>1. y[b] + z[b] \in Int /\ Cong(x[b], x[b])
          BY <2>1, CongRefl
        <4> QED BY <2>1, <2>6, <3>1, <4>1, CongAdd
      <3> QED BY <2>1, <2>6, <3>2, CongTrans
    <2> QED BY <2>2, <2>3, <2>8, <2>9, CongSym, CongTrans
  <1> QED BY <1>1, <1>2, PlusAt, PointsEqual

LEMMA PlusIdentity ==
  ASSUME NEW x \in Point
  PROVE  Plus(x, Identity) = x /\ Plus(Identity, x) = x
  <1>1. ASSUME NEW b \in 1 .. Dim PROVE Cong(Plus(x, Identity)[b], x[b])
    <2>1. x[b] + Identity[b] = x[b]
      BY PointType, IdentityAt
    <2> QED BY <2>1, IdentityAt, PlusCong
  <1>2. Plus(x, Identity) = x
    BY <1>1, IdentityAt, PlusAt, PointsEqual
  <1> QED BY <1>2, IdentityAt, PlusCommutes

\* A scalar may be reduced or not.
LEMMA TimesReduced ==
  ASSUME NEW x \in Point, NEW s \in Int, NEW t \in Int, Cong(s, t)
  PROVE  Times(x, s) = Times(x, t)
  <1>1. ASSUME NEW b \in 1 .. Dim PROVE Cong(Times(x, s)[b], Times(x, t)[b])
    <2>1. x[b] \in Int
      BY PointType
    <2>2. Cong(x[b] * s, x[b] * t)
      BY <2>1, CongMul, CongRefl
    <2>3. Cong(x[b] * t, Times(x, t)[b])
      BY TimesCong, CongSym
    <2>4. Cong(Times(x, s)[b], x[b] * t)
      BY <2>2, TimesCong, CongTrans
    <2> QED BY <2>3, <2>4, TimesCong, CongTrans
  <1> QED BY <1>1, TimesAt, PointsEqual

LEMMA TimesPlus ==
  ASSUME NEW x \in Point, NEW y \in Point, NEW s \in Int
  PROVE  Times(Plus(x, y), s) = Plus(Times(x, s), Times(y, s))
  <1>1. Plus(x, y) \in Point /\ Times(x, s) \in Point /\ Times(y, s) \in Point
    BY PlusAt, TimesAt
  <1>2. ASSUME NEW b \in 1 .. Dim PROVE Cong(Times(Plus(x, y), s)[b], Plus(Times(x, s), Times(y, s))[b])
    <2>1. x[b] \in Int /\ y[b] \in Int
      BY PointType
    <2>2. PICK l \in Int : l = Times(Plus(x, y), s)[b]
      BY <1>1, TimesCong
    <2>3. PICK r \in Int : r = Plus(Times(x, s), Times(y, s))[b]
      BY <1>1, PlusCong
    <2>4. PICK m \in Int : m = Plus(x, y)[b]
      BY PlusCong
    <2>5. PICK n \in Int : n = Times(x, s)[b]
      BY TimesCong
    <2>6. PICK k \in Int : k = Times(y, s)[b]
      BY TimesCong
    <2>7. Cong(l, m * s) /\ Cong(m, x[b] + y[b]) /\ Cong(r, n + k) /\ Cong(n, x[b] * s) /\ Cong(k, y[b] * s)
      BY <1>1, <2>2, <2>3, <2>4, <2>5, <2>6, PlusCong, TimesCong
    <2>8. PICK v \in Int : v = (x[b] + y[b]) * s
      BY <2>1
    <2>9. Cong(l, v)
      <3>1. Cong(m * s, v)
        <4>1. x[b] + y[b] \in Int /\ Cong(s, s)
          BY <2>1, CongRefl
        <4> QED BY <2>1, <2>7, <2>8, <4>1, CongMul
      <3> QED BY <2>7, <3>1, CongTrans
    <2>10. Cong(r, v)
      <3>1. x[b] * s + y[b] * s = v /\ x[b] * s \in Int /\ y[b] * s \in Int
        BY <2>1, <2>8
      <3>2. Cong(n + k, v)
        BY <2>7, <3>1, CongAdd
      <3> QED BY <2>7, <3>2, CongTrans
    <2> QED BY <2>2, <2>3, <2>9, <2>10, CongSym, CongTrans
  <1> QED BY <1>1, <1>2, PlusAt, TimesAt, PointsEqual

LEMMA TimesSum ==
  ASSUME NEW x \in Point, NEW s \in Int, NEW t \in Int
  PROVE  Times(x, s + t) = Plus(Times(x, s), Times(x, t))
  <1>1. s + t \in Int /\ Times(x, s) \in Point /\ Times(x, t) \in Point /\ Times(x, s + t) \in Point
    BY TimesAt
  <1>2. ASSUME NEW b \in 1 .. Dim PROVE Cong(Times(x, s + t)[b], Plus(Times(x, s), Times(x, t))[b])
    <2>1. x[b] \in Int
      BY PointType
    <2>2. PICK l \in Int : l = Times(x, s + t)[b]
      BY <1>1, TimesCong
    <2>3. PICK r \in Int : r = Plus(Times(x, s), Times(x, t))[b]
      BY <1>1, PlusCong
    <2>4. PICK n \in Int : n = Times(x, s)[b]
      BY TimesCong
    <2>5. PICK k \in Int : k = Times(x, t)[b]
      BY TimesCong
    <2>6. Cong(l, x[b] * (s + t)) /\ Cong(r, n + k) /\ Cong(n, x[b] * s) /\ Cong(k, x[b] * t)
      BY <1>1, <2>2, <2>3, <2>4, <2>5, PlusCong, TimesCong
    <2>7. x[b] * s + x[b] * t = x[b] * (s + t) /\ x[b] * s \in Int /\ x[b] * t \in Int
      BY <2>1
    <2>8. Cong(n + k, x[b] * (s + t))
      BY <2>6, <2>7, CongAdd
    <2>9. PICK v \in Int : v = x[b] * (s + t)
      BY <2>7
    <2>10. Cong(l, v) /\ Cong(r, v)
      BY <2>6, <2>8, <2>9, CongTrans
    <2> QED BY <2>2, <2>3, <2>10, CongSym, CongTrans
  <1> QED BY <1>1, <1>2, PlusAt, PointsEqual

LEMMA TimesTwice ==
  ASSUME NEW x \in Point, NEW s \in Int, NEW t \in Int
  PROVE  Times(Times(x, s), t) = Times(x, s * t)
  <1>1. s * t \in Int /\ Times(x, s) \in Point /\ Times(x, s * t) \in Point
    BY TimesAt
  <1>2. ASSUME NEW b \in 1 .. Dim PROVE Cong(Times(Times(x, s), t)[b], Times(x, s * t)[b])
    <2>1. x[b] \in Int
      BY PointType
    <2>2. PICK l \in Int : l = Times(Times(x, s), t)[b]
      BY <1>1, TimesCong
    <2>3. PICK r \in Int : r = Times(x, s * t)[b]
      BY <1>1, TimesCong
    <2>4. PICK n \in Int : n = Times(x, s)[b]
      BY TimesCong
    <2>5. PICK v \in Int : v = x[b] * (s * t)
      BY <2>1
    <2>6. Cong(l, n * t) /\ Cong(n, x[b] * s) /\ Cong(r, v)
      BY <1>1, <2>2, <2>3, <2>4, <2>5, TimesCong
    <2>7. (x[b] * s) * t = v /\ x[b] * s \in Int
      BY <2>1, <2>5
    <2>8. Cong(n * t, v)
      BY <2>6, <2>7, CongMul, CongRefl
    <2>9. Cong(l, v)
      BY <2>6, <2>8, CongTrans
    <2> QED BY <2>2, <2>3, <2>6, <2>9, CongSym, CongTrans
  <1> QED BY <1>1, <1>2, TimesAt, PointsEqual

LEMMA TimesOne == ASSUME NEW x \in Point PROVE Times(x, 1) = x
  <1>1. ASSUME NEW b \in 1 .. Dim PROVE Cong(Times(x, 1)[b], x[b])
    <2>1. x[b] * 1 = x[b]
      BY PointType
    <2> QED BY <2>1, TimesCong
  <1> QED BY <1>1, TimesAt, PointsEqual

LEMMA TimesZero == ASSUME NEW x \in Point PROVE Times(x, 0) = Identity
  <1>1. ASSUME NEW b \in 1 .. Dim PROVE Cong(Times(x, 0)[b], Identity[b])
    <2>1. x[b] * 0 = Identity[b]
      BY PointType, IdentityAt
    <2> QED BY <2>1, TimesCong
  <1> QED BY <1>1, TimesAt, IdentityAt, PointsEqual

LEMMA TimesIdentity == ASSUME NEW s \in Int PROVE Times(Identity, s) = Identity
  <1>1. ASSUME NEW b \in 1 .. Dim PROVE Cong(Times(Identity, s)[b], Identity[b])
    <2>1. Identity[b] * s = Identity[b]
      BY IdentityAt
    <2> QED BY <2>1, IdentityAt, TimesCong
  <1> QED BY <1>1, TimesAt, IdentityAt, PointsEqual

-----------------------------------------------------------------------------
(* Sums of points.                                                         *)

IsSum(f, ps, n) == f = [k \in 0 .. n |-> IF k = 0 THEN Identity ELSE Plus(f[k - 1], ps[k])]

\* The sum of the first n.
SumTo(ps, n) == (CHOOSE f : IsSum(f, ps, n))[n]

LEMMA SumIsSumTo == ASSUME NEW ps PROVE sum_points(ps) = SumTo(ps, Len(ps))
  BY DEF sum_points, Once, SumTo, IsSum

LEMMA SumExists ==
  ASSUME NEW ps, NEW n \in Nat
  PROVE  \E f : IsSum(f, ps, n)
  <1> DEFINE N == {k \in Nat : \E f : IsSum(f, ps, k)}
  <1>1. 0 \in N
    <2> DEFINE f == [k \in 0 .. 0 |-> Identity]
    <2>1. f = [k \in 0 .. 0 |-> IF k = 0 THEN Identity ELSE Plus(f[k - 1], ps[k])]
      OBVIOUS
    <2> QED BY <2>1 DEF IsSum
  <1>2. ASSUME NEW k \in Nat, k \in N PROVE k + 1 \in N
    <2>1. PICK f : IsSum(f, ps, k)
      BY <1>2
    <2> DEFINE g == [i \in 0 .. k + 1 |-> IF i <= k THEN f[i] ELSE Plus(f[k], ps[i])]
    <2>2. ASSUME NEW i \in 0 .. k + 1
          PROVE  g[i] = IF i = 0 THEN Identity ELSE Plus(g[i - 1], ps[i])
      <3>1. CASE i <= k
        <4>1. i \in 0 .. k /\ (i # 0 => i - 1 \in 0 .. k)
          BY <3>1
        <4>2. f[i] = IF i = 0 THEN Identity ELSE Plus(f[i - 1], ps[i])
          BY <2>1, <4>1 DEF IsSum
        <4> QED BY <4>1, <4>2
      <3>2. CASE i > k
        <4>1. i = k + 1 /\ i - 1 = k /\ i # 0 /\ k \in 0 .. k + 1 /\ ~ (i <= k)
          BY <3>2
        <4> QED BY <4>1
      <3> QED BY <3>1, <3>2
    <2>3. IsSum(g, ps, k + 1)
      BY <2>2 DEF IsSum
    <2> QED BY <2>3
  <1>3. Nat \subseteq N
    <2> HIDE DEF N
    <2> QED BY <1>1, <1>2, NumberInduction
  <1> QED BY <1>3

LEMMA SumUnique ==
  ASSUME NEW ps, NEW rs, NEW f, NEW g, NEW m \in Nat, NEW n \in Nat,
         IsSum(f, ps, m), IsSum(g, rs, n),
         NEW k \in Nat, k <= m, k <= n, \A i \in 1 .. k : ps[i] = rs[i]
  PROVE  f[k] = g[k]
  <1> DEFINE N == {j \in Nat : j <= k => f[j] = g[j]}
  <1>1. 0 \in N
    <2>1. 0 \in 0 .. m /\ 0 \in 0 .. n
      OBVIOUS
    <2> QED BY <2>1 DEF IsSum
  <1>2. ASSUME NEW j \in Nat, j \in N PROVE j + 1 \in N
    <2> SUFFICES ASSUME j + 1 <= k PROVE f[j + 1] = g[j + 1]
      OBVIOUS
    <2>1. j + 1 \in 0 .. m /\ j + 1 \in 0 .. n /\ ps[j + 1] = rs[j + 1] /\ j + 1 # 0 /\ (j + 1) - 1 = j
      OBVIOUS
    <2>2. /\ f[j + 1] = Plus(f[(j + 1) - 1], ps[j + 1])
          /\ g[j + 1] = Plus(g[(j + 1) - 1], rs[j + 1])
      BY <2>1 DEF IsSum
    <2>3. f[j] = g[j]
      BY <1>2
    <2> QED BY <2>1, <2>2, <2>3
  <1>3. Nat \subseteq N
    <2> HIDE DEF N
    <2> QED BY <1>1, <1>2, NumberInduction
  <1> QED BY <1>3

LEMMA SumToNone == ASSUME NEW ps PROVE SumTo(ps, 0) = Identity
  <1> DEFINE f == CHOOSE f : IsSum(f, ps, 0)
  <1>1. IsSum(f, ps, 0)
    BY SumExists
  <1>2. SumTo(ps, 0) = f[0]
    BY DEF SumTo
  <1> HIDE DEF f
  <1> QED BY <1>1, <1>2 DEF IsSum

LEMMA SumToSame ==
  ASSUME NEW ps, NEW rs, NEW n \in Nat, \A i \in 1 .. n : ps[i] = rs[i]
  PROVE  SumTo(ps, n) = SumTo(rs, n)
  <1> DEFINE f == CHOOSE f : IsSum(f, ps, n)
             g == CHOOSE g : IsSum(g, rs, n)
  <1>1. IsSum(f, ps, n) /\ IsSum(g, rs, n)
    BY SumExists
  <1>2. SumTo(ps, n) = f[n] /\ SumTo(rs, n) = g[n]
    BY DEF SumTo
  <1> HIDE DEF f, g
  <1>a. n <= n
    OBVIOUS
  <1>3. f[n] = g[n]
    BY ONLY <1>1, <1>a, n \in Nat, \A i \in 1 .. n : ps[i] = rs[i], SumUnique
  <1> QED BY <1>2, <1>3

LEMMA SumToNext ==
  ASSUME NEW ps, NEW n \in Nat
  PROVE  SumTo(ps, n + 1) = Plus(SumTo(ps, n), ps[n + 1])
  <1> DEFINE f == CHOOSE f : IsSum(f, ps, n)
             g == CHOOSE g : IsSum(g, ps, n + 1)
  <1>1. IsSum(f, ps, n) /\ IsSum(g, ps, n + 1)
    BY SumExists
  <1>2. SumTo(ps, n) = f[n] /\ SumTo(ps, n + 1) = g[n + 1]
    BY DEF SumTo
  <1> HIDE DEF f, g
  <1>a. n <= n /\ n <= n + 1 /\ n + 1 \in Nat /\ \A i \in 1 .. n : ps[i] = ps[i]
    OBVIOUS
  <1>b. PICK m \in Nat : m = n + 1
    BY <1>a
  <1>3. f[n] = g[n]
    <2>1. IsSum(g, ps, m) /\ n <= m
      BY <1>1, <1>a, <1>b
    <2> QED BY ONLY <1>1, <1>a, <2>1, n \in Nat, m \in Nat, SumUnique
  <1>4. n + 1 \in 0 .. n + 1 /\ n + 1 # 0 /\ (n + 1) - 1 = n
    OBVIOUS
  <1>5. g[n + 1] = Plus(g[(n + 1) - 1], ps[n + 1])
    BY <1>1, <1>4 DEF IsSum
  <1> QED BY <1>2, <1>3, <1>4, <1>5

LEMMA SumToType ==
  ASSUME NEW ps, NEW n \in Nat, \A i \in 1 .. n : ps[i] \in Point
  PROVE  SumTo(ps, n) \in Point
  <1> DEFINE N == {k \in Nat : k <= n => SumTo(ps, k) \in Point}
  <1>1. 0 \in N
    BY SumToNone, IdentityAt
  <1>2. ASSUME NEW k \in Nat, k \in N PROVE k + 1 \in N
    <2> SUFFICES ASSUME k + 1 <= n PROVE SumTo(ps, k + 1) \in Point
      OBVIOUS
    <2>1. SumTo(ps, k) \in Point /\ ps[k + 1] \in Point
      BY <1>2
    <2> QED BY <2>1, SumToNext, PlusAt
  <1>3. Nat \subseteq N
    <2> HIDE DEF N
    <2> QED BY <1>1, <1>2, NumberInduction
  <1> QED BY <1>3

\* After its first m points, ts goes on with those of rs.
GoesOn(ts, m, rs, n) == \A i \in 1 .. n : rs[i] \in Point /\ ts[m + i] = rs[i]

LEMMA SumToJoined ==
  ASSUME NEW ps, NEW rs, NEW ts, NEW m \in Nat, NEW n \in Nat, NEW l,
         GoesOn(ts, 0, ps, m), GoesOn(ts, m, rs, n), l = m + n
  PROVE  SumTo(ts, l) = Plus(SumTo(ps, m), SumTo(rs, n))
  <1>p. /\ \A i \in 1 .. m : ps[i] \in Point /\ ts[i] = ps[i]
        /\ \A i \in 1 .. n : rs[i] \in Point /\ ts[m + i] = rs[i]
    <2>1. \A i \in 1 .. m : 0 + i = i
      OBVIOUS
    <2> QED BY <2>1 DEF GoesOn
  <1> DEFINE N == {k \in Nat : k <= n => SumTo(ts, m + k) = Plus(SumTo(ps, m), SumTo(rs, k))}
  <1>0. SumTo(ps, m) \in Point /\ SumTo(ts, m) = SumTo(ps, m)
    BY <1>p, SumToType, SumToSame
  <1>1. 0 \in N
    <2>1. m + 0 = m
      OBVIOUS
    <2> QED BY <1>0, <2>1, SumToNone, PlusIdentity
  <1>2. ASSUME NEW k \in Nat, k \in N PROVE k + 1 \in N
    <2> SUFFICES ASSUME k + 1 <= n
                 PROVE  SumTo(ts, m + (k + 1)) = Plus(SumTo(ps, m), SumTo(rs, k + 1))
      OBVIOUS
    <2>1. SumTo(ts, m + k) = Plus(SumTo(ps, m), SumTo(rs, k))
      BY <1>2
    <2>2. m + (k + 1) = (m + k) + 1 /\ m + k \in Nat /\ k + 1 \in 1 .. n
      OBVIOUS
    <2>3. SumTo(ts, m + (k + 1)) = Plus(SumTo(ts, m + k), ts[m + (k + 1)])
      BY <2>2, SumToNext
    <2>4. ts[m + (k + 1)] = rs[k + 1] /\ rs[k + 1] \in Point
      BY <1>p, <2>2
    <2>5. SumTo(rs, k) \in Point
      BY <1>p, SumToType
    <2>6. SumTo(rs, k + 1) = Plus(SumTo(rs, k), rs[k + 1])
      BY SumToNext
    <2> QED BY <1>0, <2>1, <2>3, <2>4, <2>5, <2>6, PlusAssociates
  <1>3. Nat \subseteq N
    <2> HIDE DEF N
    <2> QED BY <1>1, <1>2, NumberInduction
  <1> QED BY <1>3

LEMMA PlusFour ==
  ASSUME NEW w \in Point, NEW x \in Point, NEW y \in Point, NEW z \in Point
  PROVE  Plus(Plus(w, x), Plus(y, z)) = Plus(Plus(w, y), Plus(x, z))
  <1>1. Plus(y, z) \in Point /\ Plus(x, z) \in Point /\ Plus(x, y) \in Point
    BY PlusAt
  <1>2. Plus(Plus(w, x), Plus(y, z)) = Plus(w, Plus(x, Plus(y, z)))
    BY <1>1, PlusAssociates
  <1>3. Plus(Plus(w, y), Plus(x, z)) = Plus(w, Plus(y, Plus(x, z)))
    BY <1>1, PlusAssociates
  <1>4. Plus(x, Plus(y, z)) = Plus(Plus(x, y), z) /\ Plus(y, Plus(x, z)) = Plus(Plus(y, x), z)
    BY PlusAssociates
  <1>5. Plus(x, y) = Plus(y, x)
    BY PlusCommutes
  <1> QED BY <1>2, <1>3, <1>4, <1>5

LEMMA SumToPlus ==
  ASSUME NEW ps, NEW rs, NEW ts, NEW n \in Nat,
         \A i \in 1 .. n : ps[i] \in Point /\ rs[i] \in Point /\ ts[i] = Plus(ps[i], rs[i])
  PROVE  SumTo(ts, n) = Plus(SumTo(ps, n), SumTo(rs, n))
  <1> DEFINE N == {k \in Nat : k <= n => SumTo(ts, k) = Plus(SumTo(ps, k), SumTo(rs, k))}
  <1>1. 0 \in N
    BY SumToNone, PlusIdentity, IdentityAt
  <1>2. ASSUME NEW k \in Nat, k \in N PROVE k + 1 \in N
    <2> SUFFICES ASSUME k + 1 <= n
                 PROVE  SumTo(ts, k + 1) = Plus(SumTo(ps, k + 1), SumTo(rs, k + 1))
      OBVIOUS
    <2>1. SumTo(ts, k) = Plus(SumTo(ps, k), SumTo(rs, k))
      BY <1>2
    <2>2. /\ ps[k + 1] \in Point /\ rs[k + 1] \in Point
          /\ ts[k + 1] = Plus(ps[k + 1], rs[k + 1])
      OBVIOUS
    <2>3. SumTo(ps, k) \in Point /\ SumTo(rs, k) \in Point
      BY SumToType
    <2>4. /\ SumTo(ts, k + 1) = Plus(SumTo(ts, k), ts[k + 1])
          /\ SumTo(ps, k + 1) = Plus(SumTo(ps, k), ps[k + 1])
          /\ SumTo(rs, k + 1) = Plus(SumTo(rs, k), rs[k + 1])
      BY SumToNext
    <2> QED BY <2>1, <2>2, <2>3, <2>4, PlusFour
  <1>3. Nat \subseteq N
    <2> HIDE DEF N
    <2> QED BY <1>1, <1>2, NumberInduction
  <1> QED BY <1>3

LEMMA SumToTimes ==
  ASSUME NEW ps, NEW ts, NEW n \in Nat, NEW c \in Int,
         \A i \in 1 .. n : ps[i] \in Point /\ ts[i] = Times(ps[i], c)
  PROVE  SumTo(ts, n) = Times(SumTo(ps, n), c)
  <1> DEFINE N == {k \in Nat : k <= n => SumTo(ts, k) = Times(SumTo(ps, k), c)}
  <1>1. 0 \in N
    BY SumToNone, TimesIdentity
  <1>2. ASSUME NEW k \in Nat, k \in N PROVE k + 1 \in N
    <2> SUFFICES ASSUME k + 1 <= n
                 PROVE  SumTo(ts, k + 1) = Times(SumTo(ps, k + 1), c)
      OBVIOUS
    <2>1. SumTo(ts, k) = Times(SumTo(ps, k), c)
      BY <1>2
    <2>2. ps[k + 1] \in Point /\ ts[k + 1] = Times(ps[k + 1], c)
      OBVIOUS
    <2>3. SumTo(ps, k) \in Point
      BY SumToType
    <2>4. /\ SumTo(ts, k + 1) = Plus(SumTo(ts, k), ts[k + 1])
          /\ SumTo(ps, k + 1) = Plus(SumTo(ps, k), ps[k + 1])
      BY SumToNext
    <2> QED BY <2>1, <2>2, <2>3, <2>4, TimesPlus
  <1>3. Nat \subseteq N
    <2> HIDE DEF N
    <2> QED BY <1>1, <1>2, NumberInduction
  <1> QED BY <1>3

\* At a coordinate where at most the j-th is not zero.
OnlyAt(ts, n, j, b, v) == \A i \in 1 .. n : ts[i] \in Point /\ ts[i][b] = IF i = j THEN v ELSE 0

LEMMA SumToAt ==
  ASSUME NEW ts, NEW n \in Nat, NEW j \in Int, NEW b \in 1 .. Dim, NEW v \in Scalar, OnlyAt(ts, n, j, b, v)
  PROVE  SumTo(ts, n)[b] = IF j \in 1 .. n THEN v ELSE 0
  <1>p. \A i \in 1 .. n : ts[i] \in Point /\ ts[i][b] = IF i = j THEN v ELSE 0
    BY DEF OnlyAt
  <1> DEFINE at(k) == IF j \in 1 .. k THEN v ELSE 0
             N == {k \in Nat : k <= n => SumTo(ts, k)[b] = at(k)}
  <1>0. v \in Int /\ 0 \in Scalar
    BY ScalarType, ToScalar, OrderType
  <1>1. 0 \in N
    BY SumToNone, IdentityAt
  <1>2. ASSUME NEW k \in Nat, k \in N PROVE k + 1 \in N
    <2> SUFFICES ASSUME k + 1 <= n PROVE SumTo(ts, k + 1)[b] = at(k + 1)
      OBVIOUS
    <2>1. SumTo(ts, k)[b] = at(k)
      BY <1>2
    <2>2. ts[k + 1] \in Point /\ ts[k + 1][b] = IF k + 1 = j THEN v ELSE 0
      BY <1>p
    <2>3. SumTo(ts, k) \in Point
      BY <1>p, SumToType
    <2>4. SumTo(ts, k + 1)[b] = (SumTo(ts, k)[b] + ts[k + 1][b]) % q
      BY <2>2, <2>3, SumToNext, PlusAt
    <2>5. at(k) + ts[k + 1][b] = at(k + 1) /\ at(k + 1) \in Scalar
      <3>1. CASE j = k + 1
        <4>1. ~ (j \in 1 .. k) /\ j \in 1 .. k + 1
          BY <3>1
        <4> QED BY <3>1, <4>1, <2>2, <1>0
      <3>2. CASE j # k + 1
        <4>1. j \in 1 .. k <=> j \in 1 .. k + 1
          BY <3>2
        <4> QED BY <3>2, <4>1, <2>2, <1>0
      <3> QED BY <3>1, <3>2
    <2>6. at(k + 1) % q = at(k + 1)
      <3> HIDE DEF at
      <3> QED BY <2>5, ScalarMod
    <2> HIDE DEF at
    <2> QED BY <2>1, <2>4, <2>5, <2>6
  <1>3. Nat \subseteq N
    <2> HIDE DEF N
    <2> QED BY <1>1, <1>2, NumberInduction
  <1> QED BY <1>3

-----------------------------------------------------------------------------
(* Sums of products.                                                       *)

\* Of the first n.
Products(ps, ss, n) == [i \in 1 .. n |-> Times(ps[i], ss[i])]
ProdTo(ps, ss, n) == SumTo(Products(ps, ss, n), n)

LEMMA SumprodIsProdTo ==
  ASSUME NEW S, NEW ps \in Seq(S), NEW ss
  PROVE  sumprod(ps, ss) = ProdTo(ps, ss, Len(ps))
  <1> DEFINE n == Len(ps)
             ts == Products(ps, ss, n)
  <1>1. DOMAIN ps = 1 .. n /\ n \in Nat
    OBVIOUS
  <1>2. sumprod(ps, ss) = sum_points([i \in DOMAIN ps |-> Times(ps[i], ss[i])])
    BY DEF sumprod, Once
  <1>3. [i \in DOMAIN ps |-> Times(ps[i], ss[i])] = ts
    BY <1>1 DEF Products
  <1>4. Len(ts) = n
    <2>1. ts \in [1 .. n -> {Times(ps[i], ss[i]) : i \in 1 .. n}]
      BY DEF Products
    <2> HIDE DEF ts
    <2>2. ts \in Seq({Times(ps[i], ss[i]) : i \in 1 .. n})
      BY <1>1, <2>1
    <2> QED BY <1>1, <2>1, <2>2
  <1>5. sum_points(ts) = SumTo(ts, n)
    BY <1>4, SumIsSumTo
  <1> QED BY <1>2, <1>3, <1>5 DEF ProdTo

LEMMA ProductsType ==
  ASSUME NEW ps, NEW ss, NEW n \in Nat, \A i \in 1 .. n : ps[i] \in Point /\ ss[i] \in Int
  PROVE  /\ \A i \in 1 .. n : Products(ps, ss, n)[i] = Times(ps[i], ss[i])
         /\ \A i \in 1 .. n : Products(ps, ss, n)[i] \in Point
         /\ ProdTo(ps, ss, n) \in Point
  <1>1. ASSUME NEW i \in 1 .. n
        PROVE  Products(ps, ss, n)[i] = Times(ps[i], ss[i]) /\ Products(ps, ss, n)[i] \in Point
    <2>1. Products(ps, ss, n)[i] = Times(ps[i], ss[i])
      BY DEF Products
    <2>2. PICK s \in Int : s = ss[i]
      OBVIOUS
    <2> QED BY <2>1, <2>2, TimesAt
  <1>2. \A i \in 1 .. n : Products(ps, ss, n)[i] \in Point
    BY <1>1
  <1>3. SumTo(Products(ps, ss, n), n) \in Point
    BY <1>2, SumToType
  <1> QED BY <1>1, <1>3 DEF ProdTo

LEMMA ProdToNone == ASSUME NEW ps, NEW ss PROVE ProdTo(ps, ss, 0) = Identity
  BY SumToNone DEF ProdTo

LEMMA ProdToSame ==
  ASSUME NEW ps, NEW ss, NEW rs, NEW ts, NEW n \in Nat,
         \A i \in 1 .. n : ps[i] = rs[i] /\ ss[i] = ts[i]
  PROVE  ProdTo(ps, ss, n) = ProdTo(rs, ts, n)
  <1>1. \A i \in 1 .. n : Products(ps, ss, n)[i] = Products(rs, ts, n)[i]
    BY DEF Products
  <1> QED BY <1>1, SumToSame DEF ProdTo

\* After m points and scalars, p and s go on with the n of pa and sa.
PairsGoOn(p, s, m, pa, sa, n) ==
  \A i \in 1 .. n : pa[i] \in Point /\ sa[i] \in Int /\ p[m + i] = pa[i] /\ s[m + i] = sa[i]

LEMMA ProdToJoined ==
  ASSUME NEW m \in Nat, NEW n \in Nat, NEW pa, NEW sa, NEW pb, NEW sb, NEW p, NEW s, NEW l,
         PairsGoOn(p, s, 0, pa, sa, m), PairsGoOn(p, s, m, pb, sb, n), l = m + n
  PROVE  ProdTo(p, s, l) = Plus(ProdTo(pa, sa, m), ProdTo(pb, sb, n))
  <1>p. /\ \A i \in 1 .. m : pa[i] \in Point /\ sa[i] \in Int /\ p[i] = pa[i] /\ s[i] = sa[i]
        /\ \A i \in 1 .. n : pb[i] \in Point /\ sb[i] \in Int /\ p[m + i] = pb[i] /\ s[m + i] = sb[i]
    <2>1. \A i \in 1 .. m : 0 + i = i
      OBVIOUS
    <2> QED BY <2>1 DEF PairsGoOn
  <1> DEFINE x == Products(pa, sa, m)
             y == Products(pb, sb, n)
             z == Products(p, s, l)
  <1>1. ASSUME NEW i \in 1 .. m PROVE x[i] \in Point /\ z[0 + i] = x[i]
    <2>1. x[i] = Times(pa[i], sa[i]) /\ x[i] \in Point
      BY <1>p, ProductsType
    <2>2. i \in 1 .. l /\ 0 + i = i
      OBVIOUS
    <2>3. z[i] = Times(p[i], s[i])
      BY <2>2 DEF Products
    <2> QED BY <1>p, <2>1, <2>2, <2>3
  <1>2. ASSUME NEW i \in 1 .. n PROVE y[i] \in Point /\ z[m + i] = y[i]
    <2>1. y[i] = Times(pb[i], sb[i]) /\ y[i] \in Point
      BY <1>p, ProductsType
    <2>2. m + i \in 1 .. l
      OBVIOUS
    <2>3. z[m + i] = Times(p[m + i], s[m + i])
      BY <2>2 DEF Products
    <2> QED BY <1>p, <2>1, <2>3
  <1> HIDE DEF x, y, z
  <1>3. GoesOn(z, 0, x, m) /\ GoesOn(z, m, y, n)
    BY <1>1, <1>2 DEF GoesOn
  <1>4. SumTo(z, l) = Plus(SumTo(x, m), SumTo(y, n))
    BY ONLY <1>3, m \in Nat, n \in Nat, l = m + n, SumToJoined
  <1> QED BY <1>4 DEF ProdTo, x, y, z

\* The equation of every Schnorr proof: answers t + m * c to the challenge c.
Answered(ps, hs, ts, ms, c, n) ==
  \A i \in 1 .. n : /\ ps[i] \in Point /\ hs[i] \in Int /\ ts[i] \in Int /\ ms[i] \in Int
                    /\ Cong(hs[i], ts[i] + ms[i] * c)

LEMMA ProdToAnswers ==
  ASSUME NEW n \in Nat, NEW c \in Int, NEW ps, NEW hs, NEW ts, NEW ms, Answered(ps, hs, ts, ms, c, n)
  PROVE  ProdTo(ps, hs, n) = Plus(ProdTo(ps, ts, n), Times(ProdTo(ps, ms, n), c))
  <1>p. \A i \in 1 .. n : /\ ps[i] \in Point /\ hs[i] \in Int /\ ts[i] \in Int /\ ms[i] \in Int
                          /\ Cong(hs[i], ts[i] + ms[i] * c)
    BY DEF Answered
  <1> DEFINE x == Products(ps, ts, n)
             y == Products(ps, ms, n)
             z == Products(ps, hs, n)
             w == [i \in 1 .. n |-> Times(y[i], c)]
  <1>1. ASSUME NEW i \in 1 .. n
        PROVE  /\ x[i] \in Point /\ y[i] \in Point /\ w[i] \in Point
               /\ w[i] = Times(y[i], c) /\ z[i] = Plus(x[i], w[i])
    <2>1. x[i] \in Point /\ y[i] \in Point /\ x[i] = Times(ps[i], ts[i]) /\ y[i] = Times(ps[i], ms[i])
      BY <1>p, ProductsType
    <2>2. w[i] = Times(y[i], c) /\ w[i] \in Point
      <3>1. w[i] = Times(y[i], c)
        OBVIOUS
      <3> QED BY <2>1, <3>1, TimesAt
    <2>3. PICK h \in Int : h = hs[i]
      BY <1>p
    <2>4. PICK t \in Int : t = ts[i]
      BY <1>p
    <2>5. PICK m \in Int : m = ms[i]
      BY <1>p
    <2>6. m * c \in Int /\ t + m * c \in Int /\ Cong(h, t + m * c) /\ ps[i] \in Point
      BY <1>p, <2>3, <2>4, <2>5
    <2>7. Times(ps[i], h) = Times(ps[i], t + m * c)
      BY <2>6, TimesReduced
    <2>8. Times(ps[i], t + m * c) = Plus(Times(ps[i], t), Times(ps[i], m * c))
      BY <2>6, TimesSum
    <2>9. Times(ps[i], m * c) = Times(Times(ps[i], m), c)
      BY <2>6, TimesTwice
    <2>10. z[i] = Times(ps[i], h)
      BY <2>3 DEF Products
    <2> QED BY <2>1, <2>2, <2>4, <2>5, <2>7, <2>8, <2>9, <2>10, Zenon
  <1> HIDE DEF x, y, z, w
  <1>2. SumTo(z, n) = Plus(SumTo(x, n), SumTo(w, n))
    BY <1>1, SumToPlus
  <1>3. SumTo(w, n) = Times(SumTo(y, n), c)
    BY <1>1, SumToTimes
  <1> QED BY <1>2, <1>3 DEF ProdTo, x, y, z

\* The same with the sum already known, and the challenge subtracted.
LEMMA AnswersCancel ==
  ASSUME NEW x \in Point, NEW y \in Point, NEW c \in Int, NEW d \in Int, Cong(d, -c)
  PROVE  Plus(Plus(x, Times(y, c)), Times(y, d)) = x
  <1>1. Times(y, c) \in Point /\ Times(y, d) \in Point /\ c + d \in Int
    BY TimesAt
  <1>2. Plus(Plus(x, Times(y, c)), Times(y, d)) = Plus(x, Plus(Times(y, c), Times(y, d)))
    BY <1>1, PlusAssociates
  <1>3. Plus(Times(y, c), Times(y, d)) = Times(y, c + d)
    BY TimesSum
  <1>4. Cong(c + d, 0)
    <2>1. PICK e \in Int : e = -c
      OBVIOUS
    <2>2. Cong(c, c) /\ Cong(d, e) /\ c + e = 0
      BY <2>1, CongRefl
    <2> QED BY <2>2, CongAdd
  <1>5. Times(y, c + d) = Times(y, 0)
    BY <1>1, <1>4, TimesReduced
  <1> QED BY <1>2, <1>3, <1>5, TimesZero, PlusIdentity

-----------------------------------------------------------------------------
(* The same of sequences.                                                  *)

LEMMA SumprodType ==
  ASSUME NEW ps \in Seq(Point), NEW ss \in Seq(Int), Len(ss) >= Len(ps)
  PROVE  sumprod(ps, ss) \in Point /\ sumprod(ps, ss) = ProdTo(ps, ss, Len(ps))
  <1>1. Len(ps) \in Nat /\ \A i \in 1 .. Len(ps) : ps[i] \in Point /\ ss[i] \in Int
    OBVIOUS
  <1> QED BY <1>1, SumprodIsProdTo, ProductsType

LEMMA SumprodNone == ASSUME NEW ss PROVE sumprod(<<>>, ss) = Identity
  <1>1. <<>> \in Seq(Point) /\ Len(<<>>) = 0
    OBVIOUS
  <1> QED BY <1>1, SumprodIsProdTo, ProdToNone

LEMMA SumprodOne ==
  ASSUME NEW p \in Point, NEW s \in Int
  PROVE  sumprod(<<p>>, <<s>>) = Times(p, s)
  <1>1. <<p>> \in Seq(Point) /\ Len(<<p>>) = 1 /\ <<p>>[1] = p /\ <<s>>[1] = s
    OBVIOUS
  <1>2. sumprod(<<p>>, <<s>>) = ProdTo(<<p>>, <<s>>, 1)
    BY <1>1, SumprodIsProdTo
  <1> DEFINE x == Products(<<p>>, <<s>>, 1)
  <1>3. x[1] = Times(p, s)
    BY DEF Products
  <1>4. PICK k \in Nat : k = 0
    OBVIOUS
  <1>5. SumTo(x, k + 1) = Plus(SumTo(x, k), x[k + 1])
    BY SumToNext
  <1>6. SumTo(x, k) = Identity /\ k + 1 = 1
    BY <1>4, SumToNone
  <1>7. Plus(Identity, Times(p, s)) = Times(p, s)
    BY TimesAt, PlusIdentity
  <1> QED BY <1>2, <1>3, <1>5, <1>6, <1>7 DEF ProdTo

LEMMA SumprodJoined ==
  ASSUME NEW pa \in Seq(Point), NEW pb \in Seq(Point), NEW sa \in Seq(Int), NEW sb \in Seq(Int),
         Len(sa) = Len(pa), Len(sb) = Len(pb)
  PROVE  /\ pa \o pb \in Seq(Point) /\ sa \o sb \in Seq(Int)
         /\ Len(pa \o pb) = Len(pa) + Len(pb) /\ Len(sa \o sb) = Len(pa) + Len(pb)
         /\ sumprod(pa \o pb, sa \o sb) = Plus(sumprod(pa, sa), sumprod(pb, sb))
  <1>1. PICK p \in Seq(Point) : p = pa \o pb
    BY ConcatProperties
  <1>2. PICK s \in Seq(Int) : s = sa \o sb
    BY ConcatProperties
  <1>3. PICK m \in Nat : m = Len(pa)
    OBVIOUS
  <1>4. PICK n \in Nat : n = Len(pb)
    OBVIOUS
  <1>5. PICK l \in Nat : l = m + n
    OBVIOUS
  <1>6. Len(p) = l /\ Len(s) = l
    <2>1. Len(pa \o pb) = Len(pa) + Len(pb) /\ Len(sa \o sb) = Len(sa) + Len(sb)
      BY ConcatProperties
    <2> QED BY <2>1, <1>1, <1>2, <1>3, <1>4, <1>5
  <1>7. \A i \in 1 .. m : pa[i] \in Point /\ sa[i] \in Int /\ p[i] = pa[i] /\ s[i] = sa[i]
    BY <1>1, <1>2, <1>3
  <1>8. ASSUME NEW i \in 1 .. n
        PROVE  pb[i] \in Point /\ sb[i] \in Int /\ p[m + i] = pb[i] /\ s[m + i] = sb[i]
    <2>1. PICK j \in Int : j = m + i
      OBVIOUS
    <2>2. j \in 1 .. Len(pa) + Len(pb) /\ j > Len(pa) /\ j - Len(pa) = i /\ Len(sa) = Len(pa) /\ Len(sb) = Len(pb)
      BY <1>3, <1>4, <2>1
    <2>3. (pa \o pb)[j] = pb[i] /\ (sa \o sb)[j] = sb[i]
      BY <2>2, ConcatProperties
    <2>4. pb[i] \in Point /\ sb[i] \in Int
      BY <1>4
    <2> QED BY <1>1, <1>2, <2>1, <2>3, <2>4
  <1>9. ProdTo(p, s, l) = Plus(ProdTo(pa, sa, m), ProdTo(pb, sb, n))
    <2>1. \A i \in 1 .. m : 0 + i = i
      OBVIOUS
    <2>2. PairsGoOn(p, s, 0, pa, sa, m)
      BY <1>7, <2>1 DEF PairsGoOn
    <2>3. PairsGoOn(p, s, m, pb, sb, n)
      BY <1>8 DEF PairsGoOn
    <2> QED BY ONLY <1>5, <2>2, <2>3, m \in Nat, n \in Nat, ProdToJoined
  <1>10. sumprod(p, s) = ProdTo(p, s, l)
    BY <1>6, SumprodIsProdTo
  <1>11. sumprod(pa, sa) = ProdTo(pa, sa, m) /\ sumprod(pb, sb) = ProdTo(pb, sb, n)
    BY <1>3, <1>4, SumprodIsProdTo
  <1> QED BY <1>1, <1>2, <1>3, <1>4, <1>5, <1>6, <1>9, <1>10, <1>11, Zenon

LEMMA SumprodAnswers ==
  ASSUME NEW c \in Int, NEW ps \in Seq(Point), NEW hs \in Seq(Int), NEW ts \in Seq(Int), NEW ms \in Seq(Int),
         Len(hs) = Len(ps), Len(ts) = Len(ps), Len(ms) = Len(ps),
         \A i \in 1 .. Len(ps) : Cong(hs[i], ts[i] + ms[i] * c)
  PROVE  sumprod(ps, hs) = Plus(sumprod(ps, ts), Times(sumprod(ps, ms), c))
  <1>1. PICK n \in Nat : n = Len(ps)
    OBVIOUS
  <1>2. Answered(ps, hs, ts, ms, c, n)
    BY <1>1 DEF Answered
  <1>3. ProdTo(ps, hs, n) = Plus(ProdTo(ps, ts, n), Times(ProdTo(ps, ms, n), c))
    BY <1>2, ProdToAnswers
  <1> QED BY <1>1, <1>3, SumprodIsProdTo

LEMMA SumprodZeros ==
  ASSUME NEW ps \in Seq(Point), NEW ss, \A i \in 1 .. Len(ps) : ss[i] = 0
  PROVE  sumprod(ps, ss) = Identity
  <1>1. PICK n \in Nat : n = Len(ps)
    OBVIOUS
  <1> DEFINE x == Products(ps, ss, n)
             N == {k \in Nat : k <= n => SumTo(x, k) = Identity}
  <1>2. ASSUME NEW i \in 1 .. n PROVE x[i] = Identity
    <2>1. ps[i] \in Point /\ ss[i] = 0
      BY <1>1
    <2>2. x[i] = Times(ps[i], ss[i])
      BY DEF Products
    <2> QED BY <2>1, <2>2, TimesZero
  <1> HIDE DEF x
  <1>3. 0 \in N
    BY SumToNone
  <1>4. ASSUME NEW k \in Nat, k \in N PROVE k + 1 \in N
    <2> SUFFICES ASSUME k + 1 <= n PROVE SumTo(x, k + 1) = Identity
      OBVIOUS
    <2>1. SumTo(x, k) = Identity /\ x[k + 1] = Identity
      BY <1>2, <1>4
    <2>2. SumTo(x, k + 1) = Plus(SumTo(x, k), x[k + 1])
      BY SumToNext
    <2> QED BY <2>1, <2>2, IdentityAt, PlusIdentity
  <1>5. Nat \subseteq N
    <2> HIDE DEF N
    <2> QED BY <1>3, <1>4, NumberInduction
  <1>6. SumTo(x, n) = Identity
    BY <1>5
  <1> QED BY <1>1, <1>6, SumprodIsProdTo DEF ProdTo, x

LEMMA SumPointsType ==
  ASSUME NEW ps \in Seq(Point)
  PROVE  sum_points(ps) \in Point /\ sum_points(ps) = SumTo(ps, Len(ps))
  <1>1. Len(ps) \in Nat /\ \A i \in 1 .. Len(ps) : ps[i] \in Point
    OBVIOUS
  <1> QED BY <1>1, SumIsSumTo, SumToType

-----------------------------------------------------------------------------
(* The generators, and that nothing relates them.                          *)

Points(g, n) == [i \in 1 .. n |-> Generator(g, i)]

LEMMA PointsType ==
  ASSUME NEW g, NEW n \in Nat
  PROVE  Points(g, n) \in Seq(Point) /\ Len(Points(g, n)) = n
         /\ \A i \in 1 .. n : Points(g, n)[i] = Generator(g, i)
  <1>1. Points(g, n) \in [1 .. n -> Point] /\ \A i \in 1 .. n : Points(g, n)[i] = Generator(g, i)
    BY GeneratorAt DEF Points
  <1> HIDE DEF Points
  <1>2. Points(g, n) \in Seq(Point) /\ Len(Points(g, n)) = n
    BY <1>1
  <1> QED BY <1>1, <1>2

\* A family after a generator of its own, as both kinds of messages have.
Headed(h, g, n) == <<Generator(h, 1)>> \o Points(g, n)

LEMMA HeadedType ==
  ASSUME NEW h, NEW g, NEW n \in Nat, NEW s, s = Headed(h, g, n)
  PROVE  /\ s \in Seq(Point) /\ Len(s) = n + 1 /\ s[1] = Generator(h, 1)
         /\ \A i \in 1 .. n : s[i + 1] = Generator(g, i)
  <1>1. PICK a \in Seq(Point) : a = <<Generator(h, 1)>>
    <2>1. PICK w \in Point : w = Generator(h, 1)
      BY GeneratorAt
    <2>2. <<w>> \in Seq(Point)
      OBVIOUS
    <2> QED BY <2>1, <2>2
  <1>2. PICK p \in Seq(Point) : p = Points(g, n)
    BY PointsType
  <1>3. Len(a) = 1 /\ a[1] = Generator(h, 1) /\ Len(p) = n /\ \A i \in 1 .. n : p[i] = Generator(g, i)
    BY <1>1, <1>2, PointsType
  <1>4. s = a \o p
    BY <1>1, <1>2 DEF Headed
  <1>5. s \in Seq(Point) /\ Len(s) = Len(a) + Len(p)
    BY <1>4, ConcatProperties
  <1>6. s[1] = a[1]
    BY <1>3, <1>4, ConcatProperties
  <1>7. ASSUME NEW i \in 1 .. n PROVE s[i + 1] = Generator(g, i)
    <2>1. PICK j \in Int : j = i + 1
      OBVIOUS
    <2>2. j \in 1 .. Len(a) + Len(p) /\ j > Len(a) /\ j - Len(a) = i
      BY <1>3, <2>1
    <2>3. s[j] = p[j - Len(a)]
      BY <1>4, <2>2, ConcatProperties
    <2> QED BY <1>3, <2>1, <2>2, <2>3
  <1> QED BY <1>3, <1>5, <1>6, <1>7

\* The generators headed by h: the first is h's own, the others are numbered by g.
IsHeaded(s, h, g, n) == /\ s \in Seq(Point) /\ Len(s) = n + 1 /\ s[1] = Generator(h, 1)
                        /\ \A i \in 1 .. n : s[i + 1] = Generator(g, i)

LEMMA HeadedIs ==
  ASSUME NEW h, NEW g, NEW n \in Nat
  PROVE  IsHeaded(Headed(h, g, n), h, g, n)
  <1>1. PICK s : s = Headed(h, g, n)
    OBVIOUS
  <1>2. /\ s \in Seq(Point) /\ Len(s) = n + 1 /\ s[1] = Generator(h, 1)
        /\ \A i \in 1 .. n : s[i + 1] = Generator(g, i)
    BY <1>1, HeadedType
  <1> QED BY <1>1, <1>2, Zenon DEF IsHeaded

LEMMA CreateIs ==
  ASSUME NEW n \in Nat
  PROVE  /\ create_generators(n + 1) = Headed("Q1", "H", n)
         /\ blind_generators(n + 1) = Headed("Q2", "J", n)
         /\ keybind_generators(n) = Points("HK", n)
  <1>1. (n + 1) - 1 = n
    OBVIOUS
  <1>2. /\ create_generators(n + 1) = <<Generator("Q1", 1)>> \o [i \in 1 .. ((n + 1) - 1) |-> Generator("H", i)]
        /\ blind_generators(n + 1) = <<Generator("Q2", 1)>> \o [i \in 1 .. ((n + 1) - 1) |-> Generator("J", i)]
    BY DEF create_generators, blind_generators
  <1> QED BY <1>1, <1>2, Zenon DEF keybind_generators, Points, Headed

\* The element of a concatenation at a place of the second part.
LEMMA SecondPart ==
  ASSUME NEW S, NEW a \in Seq(S), NEW b \in Seq(S), NEW m \in Nat, Len(a) = m, NEW i \in 1 .. Len(b)
  PROVE  (a \o b)[m + i] = b[i]
  <1>1. PICK j \in Int : j = m + i
    OBVIOUS
  <1>2. j \in 1 .. Len(a) + Len(b) /\ j > Len(a) /\ j - Len(a) = i
    BY <1>1
  <1>3. (a \o b)[j] = b[j - Len(a)]
    BY <1>2, ConcatProperties
  <1> QED BY <1>1, <1>2, <1>3

LEMMA FirstPart ==
  ASSUME NEW S, NEW a \in Seq(S), NEW b \in Seq(S), NEW i \in 1 .. Len(a)
  PROVE  (a \o b)[i] = a[i]
  BY ConcatProperties

\* The generators of l messages, n of them the issuer's.
Messages(n, l) == create_generators(n + 1) \o blind_generators(l - n + 1)

LEMMA MessagesType ==
  ASSUME NEW l \in Nat, NEW n \in 0 .. l
  PROVE  /\ Messages(n, l) \in Seq(Point) /\ Len(Messages(n, l)) = l + 2
         /\ Messages(n, l)[1] = Generator("Q1", 1)
         /\ \A i \in 1 .. n : Messages(n, l)[i + 1] = Generator("H", i)
         /\ Messages(n, l)[n + 2] = Generator("Q2", 1)
         /\ \A i \in n + 1 .. l : Messages(n, l)[i + 2] = Generator("J", i - n)
  <1>1. PICK m \in Nat : m = l - n
    OBVIOUS
  <1>2. PICK c \in Seq(Point) : /\ c = create_generators(n + 1) /\ Len(c) = n + 1 /\ c[1] = Generator("Q1", 1)
                                /\ \A i \in 1 .. n : c[i + 1] = Generator("H", i)
    <2>1. n \in Nat /\ create_generators(n + 1) = Headed("Q1", "H", n)
      BY CreateIs
    <2> QED BY <2>1, HeadedType
  <1>3. PICK d \in Seq(Point) : /\ d = blind_generators(m + 1) /\ Len(d) = m + 1 /\ d[1] = Generator("Q2", 1)
                                /\ \A i \in 1 .. m : d[i + 1] = Generator("J", i)
    <2>1. blind_generators(m + 1) = Headed("Q2", "J", m)
      BY CreateIs
    <2> QED BY <2>1, HeadedType
  <1>4. PICK k \in Nat : k = n + 1
    OBVIOUS
  <1>5. Messages(n, l) = c \o d
    BY <1>1, <1>2, <1>3 DEF Messages
  <1>6. c \o d \in Seq(Point) /\ Len(c \o d) = k + (m + 1)
    <2>1. c \o d \in Seq(Point) /\ Len(c \o d) = Len(c) + Len(d)
      BY ConcatProperties
    <2> QED BY <2>1, <1>2, <1>3, <1>4
  <1>7. (c \o d)[1] = Generator("Q1", 1)
    <2>1. 1 \in 1 .. Len(c)
      BY <1>2
    <2> QED BY <1>2, <2>1, FirstPart
  <1>8. ASSUME NEW i \in 1 .. n PROVE (c \o d)[i + 1] = Generator("H", i)
    <2>1. PICK j \in 1 .. Len(c) : j = i + 1
      BY <1>2
    <2> QED BY <1>2, <2>1, FirstPart
  <1>9. ASSUME NEW i \in 1 .. m + 1 PROVE (c \o d)[k + i] = d[i]
    <2>1. i \in 1 .. Len(d) /\ Len(c) = k
      BY <1>2, <1>3, <1>4
    <2> QED BY <2>1, SecondPart
  <1>10. (c \o d)[n + 2] = Generator("Q2", 1)
    <2>1. n + 2 = k + 1 /\ 1 \in 1 .. m + 1
      BY <1>4
    <2> QED BY <1>3, <1>9, <2>1
  <1>11. ASSUME NEW i \in n + 1 .. l PROVE (c \o d)[i + 2] = Generator("J", i - n)
    <2>1. PICK j \in 1 .. m : j = i - n
      BY <1>1
    <2>2. PICK h \in 1 .. m + 1 : h = j + 1
      OBVIOUS
    <2>3. i + 2 = k + h
      BY <1>4, <2>1, <2>2
    <2> QED BY <1>3, <1>9, <2>1, <2>2, <2>3
  <1>12. k + (m + 1) = l + 2
    BY <1>1, <1>4
  <1> QED BY <1>5, <1>6, <1>7, <1>8, <1>10, <1>11, <1>12

LEMMA GeneratorsType ==
  ASSUME NEW l \in Nat, NEW n \in 0 .. l, NEW k \in Nat
  PROVE  /\ all_generators(n, l, k) = Messages(n, l) \o Points("HK", k)
         /\ all_generators(n, l, k) \in Seq(Point) /\ Len(all_generators(n, l, k)) = (l + 2) + k
         /\ \A i \in 1 .. l + 2 : all_generators(n, l, k)[i] = Messages(n, l)[i]
         /\ \A i \in 1 .. k : all_generators(n, l, k)[l + 2 + i] = Generator("HK", i)
         /\ SubSeq(all_generators(n, l, k), 1, l + 2) = Messages(n, l)
  <1>1. PICK m \in Seq(Point) : m = Messages(n, l) /\ Len(m) = l + 2
    BY MessagesType
  <1>2. PICK p \in Seq(Point) : p = Points("HK", k) /\ Len(p) = k /\ \A i \in 1 .. k : p[i] = Generator("HK", i)
    BY PointsType
  <1>3. PICK g \in Seq(Point) : g = m \o p
    BY ConcatProperties
  <1>4. all_generators(n, l, k) = g
    BY <1>1, <1>2, <1>3, CreateIs DEF all_generators, Messages
  <1>5. PICK t \in Nat : t = l + 2
    OBVIOUS
  <1>6. Len(g) = t + k /\ \A i \in 1 .. t : g[i] = m[i]
    <2>1. Len(m \o p) = Len(m) + Len(p)
      BY ConcatProperties
    <2>2. \A i \in 1 .. Len(m) : (m \o p)[i] = m[i]
      BY FirstPart
    <2> QED BY <2>1, <2>2, <1>1, <1>2, <1>3, <1>5
  <1>7. ASSUME NEW i \in 1 .. k PROVE g[t + i] = Generator("HK", i)
    <2>1. (m \o p)[t + i] = p[i]
      BY <1>1, <1>2, <1>5, SecondPart
    <2> QED BY <1>2, <1>3, <2>1
  <1>8. SubSeq(g, 1, t) = m
    <2>1. SubSeq(g, 1, t) \in Seq(Point) /\ Len(SubSeq(g, 1, t)) = t /\ \A i \in 1 .. t : SubSeq(g, 1, t)[i] = g[i]
      BY <1>6
    <2> HIDE <1>3
    <2>2. PICK r \in Seq(Point) : r = SubSeq(g, 1, t)
      BY <2>1
    <2>3. Len(r) = Len(m) /\ \A i \in 1 .. Len(m) : r[i] = m[i]
      BY <1>1, <1>5, <1>6, <2>1, <2>2
    <2> QED BY <2>2, <2>3
  <1> QED BY <1>1, <1>2, <1>3, <1>4, <1>5, <1>6, <1>7, <1>8

\* The points of B, but for the keys.
Base(n, l) == <<P1>> \o Messages(n, l)

BaseName(n, p) ==
  IF p = 1 THEN <<"P1", 1>> ELSE IF p = 2 THEN <<"Q1", 1>> ELSE IF p <= n + 2 THEN <<"H", p - 2>>
  ELSE IF p = n + 3 THEN <<"Q2", 1>> ELSE <<"J", p - n - 3>>

Named(name) == Generator(name[1], name[2])

LEMMA BaseType ==
  ASSUME NEW l \in Nat, NEW n \in 0 .. l
  PROVE  /\ Base(n, l) \in Seq(Point) /\ Len(Base(n, l)) = l + 3
         /\ \A p \in 1 .. l + 3 : Base(n, l)[p] = Named(BaseName(n, p))
  <1>1. PICK w \in Point : w = P1
    BY GeneratorAt DEF P1
  <1>2. PICK a \in Seq(Point) : a = <<w>> /\ Len(a) = 1 /\ a[1] = w
    <2>1. <<w>> \in Seq(Point) /\ Len(<<w>>) = 1 /\ <<w>>[1] = w
      OBVIOUS
    <2> QED BY <2>1
  <1>3. PICK m \in Seq(Point) : m = Messages(n, l) /\ Len(m) = l + 2
    BY MessagesType
  <1>4. Base(n, l) = a \o m
    BY <1>1, <1>2, <1>3 DEF Base
  <1>5. a \o m \in Seq(Point) /\ Len(a \o m) = l + 3
    <2>1. a \o m \in Seq(Point) /\ Len(a \o m) = Len(a) + Len(m)
      BY ConcatProperties
    <2> QED BY <2>1, <1>2, <1>3
  <1>6. PICK u \in Seq(Point) : u = a \o m
    BY <1>5
  <1>7. u[1] = P1
    <2>1. 1 \in 1 .. Len(a)
      BY <1>2
    <2>2. (a \o m)[1] = a[1]
      BY <2>1, FirstPart
    <2> QED BY <1>1, <1>2, <1>6, <2>2
  <1>8. ASSUME NEW p \in 2 .. l + 3 PROVE u[p] = m[p - 1]
    <2>1. p \in 1 .. Len(a) + Len(m) /\ p > Len(a) /\ p - Len(a) = p - 1
      BY <1>2, <1>3
    <2>2. (a \o m)[p] = m[p - Len(a)]
      BY <2>1, ConcatProperties
    <2> QED BY <1>6, <2>1, <2>2
  <1>9. ASSUME NEW p \in 1 .. l + 3 PROVE u[p] = Named(BaseName(n, p))
    <2>1. CASE p = 1
      <3>1. BaseName(n, p) = <<"P1", 1>>
        BY <2>1 DEF BaseName
      <3> QED BY <3>1, <2>1, <1>7 DEF Named, P1
    <2>2. CASE p = 2
      <3>1. BaseName(n, p) = <<"Q1", 1>>
        BY <2>2 DEF BaseName
      <3>2. m[1] = Generator("Q1", 1)
        BY <1>3, MessagesType
      <3>3. u[p] = m[p - 1] /\ p - 1 = 1
        BY <2>2, <1>8
      <3> QED BY <3>1, <3>2, <3>3 DEF Named
    <2>3. CASE p > 2 /\ p <= n + 2
      <3>1. BaseName(n, p) = <<"H", p - 2>>
        BY <2>3 DEF BaseName
      <3>2. PICK i \in 1 .. n : i = p - 2
        BY <2>3
      <3>3. m[i + 1] = Generator("H", i)
        BY <1>3, MessagesType
      <3>4. u[p] = m[p - 1] /\ p - 1 = i + 1
        BY <2>3, <3>2, <1>8
      <3> QED BY <3>1, <3>2, <3>3, <3>4 DEF Named
    <2>4. CASE p = n + 3
      <3>1. BaseName(n, p) = <<"Q2", 1>>
        BY <2>4 DEF BaseName
      <3>2. m[n + 2] = Generator("Q2", 1)
        BY <1>3, MessagesType
      <3>3. u[p] = m[p - 1] /\ p - 1 = n + 2
        BY <2>4, <1>8
      <3> QED BY <3>1, <3>2, <3>3 DEF Named
    <2>5. CASE p > n + 3
      <3>1. BaseName(n, p) = <<"J", p - n - 3>>
        BY <2>5 DEF BaseName
      <3>2. PICK i \in n + 1 .. l : i = p - 3
        BY <2>5
      <3>3. m[i + 2] = Generator("J", i - n)
        BY <1>3, MessagesType
      <3>4. u[p] = m[p - 1] /\ p - 1 = i + 2
        BY <2>5, <3>2, <1>8
      <3>5. i - n = p - n - 3
        BY <3>2
      <3> QED BY <3>1, <3>3, <3>4, <3>5 DEF Named
    <2>6. p = 1 \/ p = 2 \/ (p > 2 /\ p <= n + 2) \/ p = n + 3 \/ p > n + 3
      OBVIOUS
    <2> QED BY ONLY <2>1, <2>2, <2>3, <2>4, <2>5, <2>6
  <1> QED BY <1>4, <1>5, <1>6, <1>9

LEMMA BaseNames ==
  ASSUME NEW l \in Nat, NEW n \in 0 .. l, l <= Largest("issuer") + Largest("committed"), NEW p \in 1 .. l + 3
  PROVE  /\ \E b \in 1 .. Dim : Basis[b] = BaseName(n, p)
         /\ \A r \in 1 .. l + 3 : r # p => BaseName(n, r) # BaseName(n, p)
         /\ \A i : BaseName(n, p) # <<"HK", i>>
  <1>1. \A i : BaseName(n, p) # <<"HK", i>>
    BY DEF BaseName
  <1>2. \A r \in 1 .. l + 3 : r # p => BaseName(n, r) # BaseName(n, p)
    BY DEF BaseName
  <1>3. \E g \in Names : \E i \in 1 .. SizeOf(g) : BaseName(n, p) = <<g, i>>
    <2>1. CASE p \in {1, 2} \/ p = n + 3
      BY <2>1 DEF BaseName, Names, SizeOf
    <2>2. CASE p > 2 /\ p <= n + 2
      <3>1. BaseName(n, p) = <<"H", p - 2>> /\ "H" \in Names /\ SizeOf("H") = Largest("issuer") + Largest("committed")
        BY <2>2 DEF BaseName, Names, SizeOf
      <3>2. Largest("issuer") + Largest("committed") \in Nat
        BY LargestType DEF Fields
      <3>3. p - 2 \in 1 .. SizeOf("H")
        BY <2>2, <3>1, <3>2
      <3> QED BY <3>1, <3>3
    <2>3. CASE p > n + 3
      <3>1. BaseName(n, p) = <<"J", p - n - 3>> /\ "J" \in Names /\ SizeOf("J") = Largest("issuer") + Largest("committed")
        BY <2>3 DEF BaseName, Names, SizeOf
      <3>2. Largest("issuer") + Largest("committed") \in Nat
        BY LargestType DEF Fields
      <3>3. p - n - 3 \in 1 .. SizeOf("J")
        BY <2>3, <3>1, <3>2
      <3> QED BY <3>1, <3>3
    <2> QED BY <2>1, <2>2, <2>3
  <1>4. \E b \in 1 .. Dim : Basis[b] = BaseName(n, p)
    BY <1>3, BasisHas
  <1> QED BY <1>1, <1>2, <1>3, <1>4

\* A coordinate of no device key.
Keyless(b) == \A i : Generator("HK", i)[b] = 0

LEMMA BaseCoordinate ==
  ASSUME NEW l \in Nat, NEW n \in 0 .. l, l <= Largest("issuer") + Largest("committed"), NEW j \in 1 .. l + 3
  PROVE  \E b \in 1 .. Dim :
           Keyless(b) /\ \A p \in 1 .. l + 3 : Base(n, l)[p][b] = IF p = j THEN 1 ELSE 0
  <1>1. PICK b \in 1 .. Dim : Basis[b] = BaseName(n, j)
    BY BaseNames
  <1>2. Keyless(b)
    <2>1. \A i : Basis[b] # <<"HK", i>>
      BY <1>1, BaseNames
    <2> QED BY <2>1, GeneratorAt DEF Keyless
  <1>3. ASSUME NEW p \in 1 .. l + 3 PROVE Base(n, l)[p][b] = IF p = j THEN 1 ELSE 0
    <2>1. Base(n, l)[p] = Named(BaseName(n, p))
      BY BaseType
    <2>2. BaseName(n, p) = <<BaseName(n, p)[1], BaseName(n, p)[2]>>
      BY DEF BaseName
    <2>3. Named(BaseName(n, p))[b] = IF Basis[b] = BaseName(n, p) THEN 1 ELSE 0
      <3> DEFINE name == BaseName(n, p)
      <3> HIDE DEF name
      <3>1. Generator(name[1], name[2])[b] = IF Basis[b] = <<name[1], name[2]>> THEN 1 ELSE 0
        BY GeneratorAt
      <3> QED BY <2>2, <3>1, Zenon DEF Named, name
    <2>4. Basis[b] = BaseName(n, p) <=> p = j
      BY <1>1, BaseNames
    <2> QED BY <2>1, <2>3, <2>4
  <1> QED BY <1>2, <1>3

\* At a coordinate that only the j-th point has.
Alone(ps, j, b) == \A i \in 1 .. Len(ps) : ps[i][b] = IF i = j THEN 1 ELSE 0

LEMMA CoefficientAt ==
  ASSUME NEW ps \in Seq(Point), NEW ss \in Seq(Int), Len(ss) = Len(ps), NEW j \in 1 .. Len(ps), NEW b \in 1 .. Dim,
         Alone(ps, j, b)
  PROVE  sumprod(ps, ss)[b] = ss[j] % q
  <1>p. \A i \in 1 .. Len(ps) : ps[i][b] = IF i = j THEN 1 ELSE 0
    BY DEF Alone
  <1>1. PICK n \in Nat : n = Len(ps)
    OBVIOUS
  <1> DEFINE x == Products(ps, ss, n)
  <1>2. \A i \in 1 .. n : ps[i] \in Point /\ ss[i] \in Int
    BY <1>1
  <1>3. PICK v \in Scalar : v = ss[j] % q
    <2>1. PICK w \in Int : w = ss[j]
      BY <1>1
    <2> QED BY <2>1, Remainder
  <1>4. ASSUME NEW i \in 1 .. n PROVE x[i] \in Point /\ x[i][b] = IF i = j THEN v ELSE 0
    <2>1. PICK s \in Int : s = ss[i]
      BY <1>2
    <2>2. x[i] = Times(ps[i], s) /\ x[i] \in Point
      BY <1>2, <2>1, ProductsType
    <2>3. x[i][b] = (ps[i][b] * s) % q
      <3>1. PICK w \in Point : w = ps[i]
        BY <1>2
      <3>2. Times(w, s)[b] = (w[b] * s) % q
        BY TimesAt
      <3> QED BY <2>2, <3>1, <3>2, Zenon
    <2>4. CASE i = j
      <3>1. ps[i][b] * s = s
        BY <2>4, <1>1, <1>p
      <3> QED BY <2>1, <2>2, <2>3, <2>4, <3>1, <1>3
    <2>5. CASE i # j
      <3>1. ps[i][b] = 0
        BY <2>5, <1>1, <1>p
      <3>2. PICK z \in Int : z = ps[i][b] * s
        BY <3>1
      <3>3. z = 0
        BY <3>1, <3>2
      <3>4. z % q = 0
        BY <3>3, ScalarMod, ToScalar, OrderType
      <3> QED BY <2>2, <2>3, <2>5, <3>2, <3>4
    <2> QED BY <2>4, <2>5
  <1> HIDE DEF x
  <1>5. SumTo(x, n)[b] = IF j \in 1 .. n THEN v ELSE 0
    <2>1. j \in Int /\ OnlyAt(x, n, j, b, v)
      BY <1>4 DEF OnlyAt
    <2> QED BY <2>1, SumToAt
  <1>6. sumprod(ps, ss) = SumTo(x, n)
    BY <1>1, SumprodIsProdTo DEF ProdTo, x
  <1> QED BY <1>1, <1>3, <1>5, <1>6

\* A sum of device keys.
Keyed(x) == x \in Point /\ \A b \in 1 .. Dim : Keyless(b) => x[b] = 0

\* B has its scalars one by one: what two of them agree on.
LEMMA BaseUnique ==
  ASSUME NEW l \in Nat, NEW n \in 0 .. l, l <= Largest("issuer") + Largest("committed"),
         NEW ss \in Seq(Int), NEW ts \in Seq(Int), Len(ss) = l + 3, Len(ts) = l + 3, NEW x, NEW y, Keyed(x), Keyed(y),
         Plus(sumprod(Base(n, l), ss), x) = Plus(sumprod(Base(n, l), ts), y), NEW j \in 1 .. l + 3
  PROVE  Cong(ss[j], ts[j])
  <1>1. PICK ps \in Seq(Point) : ps = Base(n, l) /\ Len(ps) = l + 3
    BY BaseType
  <1>2. PICK b \in 1 .. Dim : Keyless(b) /\ \A p \in 1 .. l + 3 : ps[p][b] = IF p = j THEN 1 ELSE 0
    BY <1>1, BaseCoordinate, ZenonT(60)
  <1>3. ASSUME NEW rs \in Seq(Int), Len(rs) = l + 3, NEW z, Keyed(z)
        PROVE  Plus(sumprod(ps, rs), z)[b] = rs[j] % q
    <2>1. sumprod(ps, rs)[b] = rs[j] % q /\ sumprod(ps, rs) \in Point
      <3>1. Len(rs) = Len(ps) /\ j \in 1 .. Len(ps) /\ Len(rs) >= Len(ps)
        BY <1>1, <1>3
      <3>2. Alone(ps, j, b)
        BY <1>1, <1>2 DEF Alone
      <3> QED BY <3>1, <3>2, <1>3, CoefficientAt, SumprodType
    <2>2. z \in Point /\ z[b] = 0
      BY <1>2, <1>3 DEF Keyed
    <2>3. Plus(sumprod(ps, rs), z)[b] = (sumprod(ps, rs)[b] + z[b]) % q
      BY <2>1, <2>2, PlusAt
    <2>4. rs[j] % q \in Scalar /\ rs[j] % q \in Int
      <3>1. PICK w \in Int : w = rs[j]
        BY <1>3
      <3> QED BY <3>1, Remainder
    <2>5. PICK v \in Scalar : v = rs[j] % q /\ v \in Int
      BY <2>4
    <2>6. v + 0 = v /\ v % q = v
      BY <2>5, ScalarMod
    <2> QED BY <2>1, <2>2, <2>3, <2>5, <2>6
  <1>4. ss[j] % q = ts[j] % q
    BY <1>1, <1>3
  <1>5. ss[j] \in Int /\ ts[j] \in Int
    OBVIOUS
  <1> QED BY <1>4, <1>5, CongSame

-----------------------------------------------------------------------------
(* The case at hand.                                                       *)

Case == shape \in Shapes /\ stream \in Streams

LEMMA ShapeAt ==
  ASSUME Case
  PROVE  /\ shape.issuer \in Nat /\ shape.committed \in Nat /\ shape.keys \in Nat
         /\ shape.issuer + shape.committed <= Largest("issuer") + Largest("committed")
         /\ shape.keys <= Largest("keys")
  <1>1. shape \in Shapes /\ "issuer" \in Fields /\ "committed" \in Fields /\ "keys" \in Fields
    BY DEF Case, Fields
  <1>2. shape.issuer \in Nat /\ shape.committed \in Nat /\ shape.keys \in Nat
    BY <1>1, BlindSuiteAssumption DEF BlindSuiteAssumption
  <1>3. /\ Largest("issuer") \in Nat /\ shape.issuer <= Largest("issuer")
        /\ Largest("committed") \in Nat /\ shape.committed <= Largest("committed")
        /\ Largest("keys") \in Nat /\ shape.keys <= Largest("keys")
    BY <1>1, LargestType
  <1> QED BY <1>2, <1>3

NotZero == 1 .. (q - 1)

LEMMA NotZeroIsScalar == \A x \in NotZero : x \in Scalar /\ x \in Int /\ x # 0
  BY OrderType DEF Scalar, NotZero

LEMMA StreamAt ==
  ASSUME Case
  PROVE  /\ stream \in Seq(NotZero) /\ Len(stream) \in Nat
         /\ 28 + 3 * shape.issuer + 4 * shape.committed + 4 * shape.keys <= Len(stream)
         /\ 28 + shape.issuer + shape.committed + shape.keys <= Len(stream)
  <1>1. Streams \subseteq Seq(1 .. (q - 1)) /\ Needed(shape) <= Len(stream) /\ stream \in Streams
    BY BlindSuiteAssumption DEF BlindSuiteAssumption, Case
  <1>2. stream \in Seq(NotZero)
    BY <1>1 DEF NotZero
  <1>3. Len(stream) \in Nat
    BY <1>2
  <1>4. PICK a \in Nat : a = shape.issuer
    BY ShapeAt
  <1>5. PICK c \in Nat : c = shape.committed
    BY ShapeAt
  <1>6. PICK k \in Nat : k = shape.keys
    BY ShapeAt
  <1>7. PICK l \in Nat : l = Len(stream)
    BY <1>3
  <1>8. 28 + 3 * a + 4 * c + 4 * k <= l
    BY <1>1, <1>4, <1>5, <1>6, <1>7 DEF Needed
  <1>9. 28 + a + c + k <= l
    BY ONLY <1>8, a \in Nat, c \in Nat, k \in Nat, l \in Nat
  <1> QED BY <1>2, <1>3, <1>4, <1>5, <1>6, <1>7, <1>8, <1>9

LEMMA ScalarsDrawn ==
  ASSUME Case
  PROVE  /\ IssuerKey \in NotZero
         /\ \A i \in Positions : DeviceKey(i) \in NotZero
         /\ \A i \in 1 .. shape.issuer + shape.committed : MessageScalar(i) \in NotZero
  <1>1. PICK l \in Nat : l = Len(stream)
    BY StreamAt
  <1>2. PICK a \in Nat : a = shape.issuer
    BY ShapeAt
  <1>3. PICK c \in Nat : c = shape.committed
    BY ShapeAt
  <1>4. PICK k \in Nat : k = shape.keys
    BY ShapeAt
  <1>5. 28 + a + c + k <= l
    BY <1>1, <1>2, <1>3, <1>4, StreamAt
  <1>6. \A i \in 1 .. l : stream[i] \in NotZero
    BY <1>1, StreamAt
  <1>7. 1 \in 1 .. l
    BY ONLY <1>5, a \in Nat, c \in Nat, k \in Nat, l \in Nat
  <1>8. ASSUME NEW i \in Positions PROVE DeviceKey(i) \in NotZero
    <2>1. i \in 1 .. k
      BY <1>4 DEF Positions
    <2>2. 1 + i \in 1 .. l
      BY ONLY <1>5, <2>1, a \in Nat, c \in Nat, k \in Nat, l \in Nat
    <2> QED BY <1>6, <2>2 DEF DeviceKey
  <1>9. ASSUME NEW i \in 1 .. shape.issuer + shape.committed PROVE MessageScalar(i) \in NotZero
    <2>1. i \in 1 .. a + c
      BY <1>2, <1>3
    <2>2. 10 + i \in 1 .. l
      BY ONLY <1>5, <2>1, a \in Nat, c \in Nat, k \in Nat, l \in Nat
    <2> QED BY <1>6, <2>2 DEF MessageScalar
  <1> QED BY <1>6, <1>7, <1>8, <1>9 DEF IssuerKey

LEMMA calculateType ==
  ASSUME Case, drawn \in Nat, NEW count \in Nat
  PROVE  calculate(count) \in Seq(NotZero) /\ Len(calculate(count)) = count
  <1>1. PICK k \in Nat : k = Len(stream)
    BY StreamAt
  <1>2. k > 0
    <2>1. PICK a \in Nat : a = shape.issuer + shape.committed + shape.keys
      BY ShapeAt
    <2>2. 28 + shape.issuer + shape.committed + shape.keys = 28 + a
      BY <2>1, ShapeAt
    <2> QED BY <1>1, <2>2, StreamAt
  <1>3. ASSUME NEW i \in 1 .. count
        PROVE  stream[((drawn + i - 1) % Len(stream)) + 1] \in NotZero
    <2>1. PICK v \in Int : v = drawn + i - 1
      OBVIOUS
    <2>2. v % k \in 0 .. k - 1
      BY <1>2
    <2>3. PICK w \in 0 .. k - 1 : w = v % k
      BY <2>2
    <2>4. w + 1 \in 1 .. k
      BY <2>3
    <2>5. stream[w + 1] \in NotZero
      BY <1>1, <2>4, StreamAt
    <2> QED BY <2>1, <1>1, <2>3, <2>5
  <1>4. calculate(count) \in [1 .. count -> NotZero]
    BY <1>3 DEF calculate
  <1>5. PICK f \in [1 .. count -> NotZero] : f = calculate(count)
    BY <1>4
  <1>6. f \in Seq(NotZero) /\ Len(f) = count
    OBVIOUS
  <1> QED BY <1>5, <1>6

LEMMA DevicePointType ==
  ASSUME Case, NEW i \in Positions
  PROVE  Keyed(DevicePoint(i))
  <1>1. PICK s \in Int : s = DeviceKey(i)
    BY ScalarsDrawn, NotZeroIsScalar
  <1>2. PICK w \in Point : w = Generator("HK", i)
    BY GeneratorAt
  <1>3. Times(w, s) \in Point /\ \A b \in 1 .. Dim : Times(w, s)[b] = (w[b] * s) % q
    BY TimesAt
  <1>4. ASSUME NEW b \in 1 .. Dim, Keyless(b) PROVE Times(w, s)[b] = 0
    <2>1. w[b] = 0
      BY <1>2, <1>4 DEF Keyless
    <2>2. PICK z \in Int : z = w[b] * s
      BY <2>1
    <2>3. z = 0
      BY <2>1, <2>2
    <2>4. z % q = 0
      BY <2>3, ScalarMod, ToScalar, OrderType
    <2> QED BY <1>3, <2>2, <2>4
  <1> QED BY <1>1, <1>2, <1>3, <1>4 DEF Keyed, DevicePoint

LEMMA KeyedPlus == ASSUME NEW x, NEW y, Keyed(x), Keyed(y) PROVE Keyed(Plus(x, y))
  <1>1. x \in Point /\ y \in Point /\ Plus(x, y) \in Point
    BY PlusAt DEF Keyed
  <1>2. ASSUME NEW b \in 1 .. Dim, Keyless(b) PROVE Plus(x, y)[b] = 0
    <2>1. x[b] = 0 /\ y[b] = 0
      BY <1>2 DEF Keyed
    <2>2. Plus(x, y)[b] = (x[b] + y[b]) % q
      BY <1>1, PlusAt
    <2>3. PICK z \in Int : z = x[b] + y[b]
      BY <2>1
    <2>4. z = 0
      BY <2>1, <2>3
    <2>5. z % q = 0
      BY <2>4, ScalarMod, ToScalar, OrderType
    <2> QED BY <2>2, <2>3, <2>5
  <1> QED BY <1>1, <1>2 DEF Keyed

LEMMA KeyedSum ==
  ASSUME NEW ps \in Seq(Point), \A i \in 1 .. Len(ps) : Keyed(ps[i])
  PROVE  Keyed(sum_points(ps))
  <1> DEFINE N == {k \in Nat : k <= Len(ps) => Keyed(SumTo(ps, k))}
  <1>1. 0 \in N
    BY SumToNone, IdentityAt DEF Keyed
  <1>2. ASSUME NEW k \in Nat, k \in N PROVE k + 1 \in N
    <2> SUFFICES ASSUME k + 1 <= Len(ps) PROVE Keyed(SumTo(ps, k + 1))
      OBVIOUS
    <2>1. Keyed(SumTo(ps, k)) /\ Keyed(ps[k + 1])
      BY <1>2
    <2> QED BY <2>1, SumToNext, KeyedPlus
  <1>3. Nat \subseteq N
    <2> HIDE DEF N
    <2> QED BY <1>1, <1>2, NumberInduction
  <1>4. Len(ps) \in N
    <2>1. Len(ps) \in Nat
      OBVIOUS
    <2> HIDE DEF N
    <2> QED BY <1>3, <2>1
  <1> QED BY <1>4, SumIsSumTo

\* The order of the keys does not matter: their sum read backwards.
LEMMA SumReversed ==
  ASSUME NEW ps, NEW rs, NEW n \in Nat, \A i \in 1 .. n : ps[i] \in Point /\ rs[i] = ps[n - i + 1]
  PROVE  SumTo(rs, n) = SumTo(ps, n)
  <1> DEFINE N == {k \in Nat : k <= n => Plus(SumTo(ps, n - k), SumTo(rs, k)) = SumTo(ps, n)}
  <1>0. \A k \in Nat : k <= n => SumTo(ps, k) \in Point
    <2> SUFFICES ASSUME NEW k \in Nat, k <= n PROVE SumTo(ps, k) \in Point
      OBVIOUS
    <2>1. \A i \in 1 .. k : ps[i] \in Point
      OBVIOUS
    <2> QED BY <2>1, SumToType
  <1>1. 0 \in N
    <2>1. n - 0 = n /\ SumTo(ps, n) \in Point /\ SumTo(rs, 0) = Identity
      BY <1>0, SumToNone
    <2> QED BY <2>1, PlusIdentity
  <1>2. ASSUME NEW k \in Nat, k \in N PROVE k + 1 \in N
    <2> SUFFICES ASSUME k + 1 <= n PROVE Plus(SumTo(ps, n - (k + 1)), SumTo(rs, k + 1)) = SumTo(ps, n)
      OBVIOUS
    <2>1. PICK j \in Nat : j = n - (k + 1)
      OBVIOUS
    <2>2. j + 1 = n - k /\ j + 1 \in 1 .. n /\ k + 1 \in 1 .. n /\ n - (k + 1) + 1 = j + 1 /\ j <= n /\ k <= n
      BY <2>1
    <2>3. rs[k + 1] = ps[j + 1] /\ ps[j + 1] \in Point
      BY <2>2
    <2>4. SumTo(ps, j + 1) = Plus(SumTo(ps, j), ps[j + 1]) /\ SumTo(rs, k + 1) = Plus(SumTo(rs, k), rs[k + 1])
      BY SumToNext
    <2>5. Plus(SumTo(ps, j + 1), SumTo(rs, k)) = SumTo(ps, n)
      BY <1>2, <2>2
    <2>6. \A i \in 1 .. k : rs[i] \in Point
      <3> SUFFICES ASSUME NEW i \in 1 .. k PROVE rs[i] \in Point
        OBVIOUS
      <3>1. PICK h \in 1 .. n : h = n - i + 1
        BY <2>2
      <3>2. rs[i] = ps[h] /\ ps[h] \in Point
        BY <2>2, <3>1
      <3> QED BY <3>2
    <2>7. PICK x \in Point : x = SumTo(ps, j)
      BY <1>0, <2>2
    <2>8. PICK y \in Point : y = SumTo(rs, k)
      BY <2>6, SumToType
    <2>9. PICK p \in Point : p = ps[j + 1]
      BY <2>3
    <2>10. Plus(Plus(x, p), y) = Plus(x, Plus(p, y)) /\ Plus(p, y) = Plus(y, p)
      BY PlusAssociates, PlusCommutes
    <2> QED BY <2>1, <2>3, <2>4, <2>5, <2>7, <2>8, <2>9, <2>10
  <1>3. Nat \subseteq N
    <2> HIDE DEF N
    <2> QED BY <1>1, <1>2, NumberInduction
  <1>4. Plus(SumTo(ps, n - n), SumTo(rs, n)) = SumTo(ps, n)
    BY <1>3
  <1>5. n - n = 0 /\ SumTo(ps, 0) = Identity
    BY SumToNone
  <1>6. SumTo(rs, n) \in Point
    <2> SUFFICES ASSUME NEW i \in 1 .. n PROVE rs[i] \in Point
      BY SumToType
    <2>1. PICK h \in 1 .. n : h = n - i + 1
      OBVIOUS
    <2> QED BY <2>1
  <1> QED BY <1>4, <1>5, <1>6, PlusIdentity

-----------------------------------------------------------------------------
(* The scalars of B.                                                       *)

\* Arguments with the right number of messages.
ArgsType(args) ==
  /\ args.messages \in Seq(Scalar) /\ Len(args.messages) = shape.issuer + shape.committed
  /\ args.issuer_no \in 0 .. shape.issuer + shape.committed
  /\ args.keys \in Seq(Positions)
  /\ args.blind \in Scalar

LEMMA proof_scalarsType ==
  ASSUME NEW l \in Nat, NEW args, args.messages \in Seq(Scalar), Len(args.messages) = l,
         args.issuer_no \in 0 .. l, args.blind \in Scalar
  PROVE  /\ proof_scalars(args) \in Seq(Scalar) /\ Len(proof_scalars(args)) = l + 1
         /\ \A i \in 1 .. l : i <= args.issuer_no => proof_scalars(args)[i] = args.messages[i]
         /\ proof_scalars(args)[args.issuer_no + 1] = args.blind
         /\ \A i \in 1 .. l : i > args.issuer_no => proof_scalars(args)[i + 1] = args.messages[i]
  <1>1. PICK m \in Seq(Scalar) : m = args.messages /\ Len(m) = l
    OBVIOUS
  <1>2. PICK n \in 0 .. l : n = args.issuer_no
    OBVIOUS
  <1>3. PICK b \in Scalar : b = args.blind
    OBVIOUS
  <1>4. PICK x \in Seq(Scalar) : x = SubSeq(m, 1, n) /\ Len(x) = n /\ \A i \in 1 .. n : x[i] = m[i]
    <2>1. SubSeq(m, 1, n) \in Seq(Scalar) /\ Len(SubSeq(m, 1, n)) = n /\ \A i \in 1 .. n : SubSeq(m, 1, n)[i] = m[i]
      BY <1>1
    <2> QED BY <2>1
  <1>5. PICK y \in Seq(Scalar) : /\ y = SubSeq(m, n + 1, l) /\ Len(y) = l - n
                                 /\ \A i \in 1 .. l - n : y[i] = m[n + i]
    <2>1. /\ SubSeq(m, n + 1, l) \in Seq(Scalar) /\ Len(SubSeq(m, n + 1, l)) = l - n
          /\ \A i \in 1 .. l - n : SubSeq(m, n + 1, l)[i] = m[n + i]
      BY <1>1
    <2> QED BY <2>1
  <1>6. PICK c \in Seq(Scalar) : c = <<b>> /\ Len(c) = 1 /\ c[1] = b
    <2>1. <<b>> \in Seq(Scalar) /\ Len(<<b>>) = 1 /\ <<b>>[1] = b
      OBVIOUS
    <2> QED BY <2>1
  <1>7. PICK d \in Seq(Scalar) : /\ d = x \o c /\ Len(d) = n + 1
                                 /\ (\A i \in 1 .. n : d[i] = m[i]) /\ d[n + 1] = b
    <2>1. x \o c \in Seq(Scalar) /\ Len(x \o c) = Len(x) + Len(c)
      BY ConcatProperties
    <2>2. \A i \in 1 .. Len(x) : (x \o c)[i] = x[i]
      BY FirstPart
    <2>3. n \in Nat /\ 1 \in 1 .. Len(c)
      BY <1>6
    <2>4. (x \o c)[n + 1] = c[1]
      BY <1>4, <2>3, SecondPart
    <2> QED BY <2>1, <2>2, <2>4, <1>4, <1>6
  <1>8. PICK k \in Nat : k = n + 1
    OBVIOUS
  <1>9. PICK e \in Seq(Scalar) : /\ e = d \o y /\ Len(e) = l + 1
                                 /\ (\A i \in 1 .. k : e[i] = d[i])
                                 /\ \A i \in 1 .. l - n : e[k + i] = y[i]
    <2>1. d \o y \in Seq(Scalar) /\ Len(d \o y) = Len(d) + Len(y)
      BY ConcatProperties
    <2>2. \A i \in 1 .. Len(d) : (d \o y)[i] = d[i]
      BY FirstPart
    <2>3. ASSUME NEW i \in 1 .. l - n PROVE (d \o y)[k + i] = y[i]
      <3>1. Len(d) = k /\ i \in 1 .. Len(y)
        BY <1>5, <1>7, <1>8
      <3> QED BY <3>1, SecondPart
    <2>4. Len(d) + Len(y) = l + 1 /\ Len(d) = k
      BY <1>5, <1>7, <1>8
    <2> QED BY <2>1, <2>2, <2>3, <2>4
  <1>10. proof_scalars(args) = e
    BY <1>1, <1>2, <1>3, <1>4, <1>5, <1>6, <1>7, <1>9 DEF proof_scalars
  <1>11. ASSUME NEW i \in 1 .. l, i > n PROVE e[i + 1] = m[i]
    <2>1. PICK j \in 1 .. l - n : j = i - n
      BY <1>11
    <2>2. e[k + j] = y[j] /\ y[j] = m[n + j]
      BY <1>5, <1>9
    <2>3. k + j = i + 1 /\ n + j = i
      BY <1>8, <2>1
    <2> QED BY <2>2, <2>3
  <1>12. ASSUME NEW i \in 1 .. l, i <= n PROVE e[i] = m[i]
    <2>1. i \in 1 .. k /\ i \in 1 .. n
      BY <1>8, <1>12
    <2> QED BY <1>7, <1>9, <2>1
  <1>13. e[n + 1] = b
    <2>1. n + 1 \in 1 .. k
      BY <1>8
    <2> QED BY <1>7, <1>9, <2>1
  <1> HIDE <1>4, <1>5, <1>7
  <1> QED BY <1>1, <1>2, <1>3, <1>9, <1>10, <1>11, <1>12, <1>13

WithDomain(dom, ss) == <<1, dom>> \o ss

LEMMA WithDomainType ==
  ASSUME NEW dom \in Int, NEW ss \in Seq(Int)
  PROVE  /\ WithDomain(dom, ss) \in Seq(Int) /\ Len(WithDomain(dom, ss)) = Len(ss) + 2
         /\ WithDomain(dom, ss)[1] = 1 /\ WithDomain(dom, ss)[2] = dom
         /\ \A i \in 1 .. Len(ss) : WithDomain(dom, ss)[2 + i] = ss[i]
  <1>1. PICK a \in Seq(Int) : a = <<1, dom>> /\ Len(a) = 2 /\ a[1] = 1 /\ a[2] = dom
    <2>1. <<1, dom>> \in Seq(Int) /\ Len(<<1, dom>>) = 2 /\ <<1, dom>>[1] = 1 /\ <<1, dom>>[2] = dom
      OBVIOUS
    <2> QED BY <2>1
  <1>2. WithDomain(dom, ss) = a \o ss
    BY <1>1 DEF WithDomain
  <1>3. PICK w \in Seq(Int) : w = a \o ss /\ Len(w) = Len(ss) + 2
    <2>1. a \o ss \in Seq(Int) /\ Len(a \o ss) = Len(a) + Len(ss) /\ Len(ss) \in Nat
      BY ConcatProperties
    <2>2. Len(a) + Len(ss) = Len(ss) + 2
      BY <1>1, <2>1
    <2> QED BY <2>1, <2>2
  <1>4. w[1] = 1 /\ w[2] = dom
    <2>1. 1 \in 1 .. Len(a) /\ 2 \in 1 .. Len(a)
      BY <1>1
    <2>2. (a \o ss)[1] = a[1] /\ (a \o ss)[2] = a[2]
      BY <2>1, FirstPart
    <2> QED BY <1>1, <1>3, <2>2
  <1>5. PICK two \in Nat : two = 2
    OBVIOUS
  <1>6. \A i \in 1 .. Len(ss) : (a \o ss)[two + i] = ss[i]
    BY <1>1, <1>5, SecondPart
  <1> QED BY <1>2, <1>3, <1>4, <1>5, <1>6

\* B, but for the keys, of the scalars of l messages.
Messaged(n, l, dom, ss) == sumprod(Base(n, l), WithDomain(dom, ss))

LEMMA MessagedType ==
  ASSUME NEW l \in Nat, NEW n \in 0 .. l, NEW dom \in Int, NEW ss \in Seq(Int), Len(ss) = l + 1
  PROVE  Messaged(n, l, dom, ss) \in Point
  <1>1. PICK w \in Seq(Int) : w = WithDomain(dom, ss) /\ Len(w) = l + 3
    BY WithDomainType
  <1>2. PICK b \in Seq(Point) : b = Base(n, l) /\ Len(b) = l + 3
    BY BaseType
  <1> QED BY <1>1, <1>2, SumprodType DEF Messaged

LEMMA compute_bIs ==
  ASSUME NEW l \in Nat, NEW n \in 0 .. l, NEW k \in Nat, NEW dom \in Int, NEW ss \in Seq(Int), Len(ss) = l + 1
  PROVE  compute_b(all_generators(n, l, k), ss, dom) = Messaged(n, l, dom, ss)
  <1>1. Len(ss) + 1 = l + 2
    OBVIOUS
  <1>2. SubSeq(all_generators(n, l, k), 1, l + 2) = Messages(n, l)
    BY GeneratorsType
  <1> QED BY <1>1, <1>2, Zenon DEF compute_b, Messaged, Base, WithDomain

\* What the prover computes, with the keys as messages that are zero.
LEMMA compute_bOfZeros ==
  ASSUME NEW l \in Nat, NEW n \in 0 .. l, NEW k \in Nat, NEW dom \in Int, NEW ss \in Seq(Int), Len(ss) = l + 1,
         NEW zs \in Seq(Int), Len(zs) = k, \A i \in 1 .. k : zs[i] = 0
  PROVE  compute_b(all_generators(n, l, k), ss \o zs, dom) = Messaged(n, l, dom, ss)
  <1>1. PICK g \in Seq(Point) : g = all_generators(n, l, k) /\ g = Messages(n, l) \o Points("HK", k) /\ Len(g) = (l + 2) + k
    BY GeneratorsType, ZenonT(60)
  <1>2. PICK t \in Seq(Int) : t = ss \o zs /\ Len(t) = (l + 1) + k
    <2>1. ss \o zs \in Seq(Int) /\ Len(ss \o zs) = Len(ss) + Len(zs)
      BY ConcatProperties
    <2> QED BY <2>1
  <1>3. SubSeq(g, 1, Len(t) + 1) = g
    <2>1. Len(t) + 1 = Len(g)
      BY <1>1, <1>2
    <2>2. SubSeq(g, 1, Len(g)) = g
      OBVIOUS
    <2> QED BY <2>1, <2>2
  <1>4. PICK w \in Point : w = P1
    BY GeneratorAt DEF P1
  <1>5. PICK p \in Seq(Point) : p = <<P1>> /\ p = <<w>>
    <2>1. <<w>> \in Seq(Point)
      OBVIOUS
    <2> QED BY <2>1, <1>4
  <1>6. PICK m \in Seq(Point) : m = Messages(n, l)
    BY MessagesType
  <1>7. PICK h \in Seq(Point) : h = Points("HK", k) /\ Len(h) = k
    BY PointsType
  <1>8. <<P1>> \o g = Base(n, l) \o h
    <2>1. (p \o m) \o h = p \o (m \o h)
      BY ONLY <1>5, <1>6, <1>7
    <2> QED BY <1>1, <1>5, <1>6, <1>7, <2>1, Zenon DEF Base
  <1>9. PICK d \in Seq(Int) : d = <<1, dom>>
    <2>1. <<1, dom>> \in Seq(Int)
      OBVIOUS
    <2> QED BY <2>1
  <1>10. <<1, dom>> \o t = WithDomain(dom, ss) \o zs
    <2>1. (d \o ss) \o zs = d \o (ss \o zs)
      <3>1. d \in Octets /\ ss \in Octets /\ zs \in Octets
        BY DEF Octets
      <3>2. Join(Join(d, ss), zs) = Join(d, Join(ss, zs))
        BY <3>1, OctetsAssociate
      <3> QED BY ONLY <3>2, Zenon DEF Join
    <2> QED BY <1>2, <1>9, <2>1, Zenon DEF WithDomain
  <1>11. PICK b \in Seq(Point) : b = Base(n, l) /\ Len(b) = l + 3
    BY BaseType
  <1>12. PICK v \in Seq(Int) : v = WithDomain(dom, ss) /\ Len(v) = l + 3
    BY WithDomainType
  <1>13. sumprod(b \o h, v \o zs) = Plus(sumprod(b, v), sumprod(h, zs))
    <2>1. Len(v) = Len(b) /\ Len(zs) = Len(h)
      BY <1>7, <1>11, <1>12
    <2> QED BY ONLY <2>1, b \in Seq(Point), h \in Seq(Point), v \in Seq(Int), zs \in Seq(Int), SumprodJoined
  <1>14. sumprod(h, zs) = Identity
    BY <1>7, SumprodZeros
  <1>15. sumprod(b, v) \in Point
    BY <1>11, <1>12, SumprodType
  <1>16. compute_b(g, t, dom) = sumprod(b \o h, v \o zs)
    BY <1>3, <1>8, <1>10, <1>11, <1>12, Zenon DEF compute_b
  <1> QED BY <1>1, <1>2, <1>11, <1>12, <1>13, <1>14, <1>15, <1>16, PlusIdentity DEF Messaged

\* B, and the keys with it.
Full(args, dom) == Plus(compute_b(GeneratorsOf(args), proof_scalars(args), dom), sum_points(KeyPoints(args)))

LEMMA ArgsIs ==
  ASSUME Case, NEW args, ArgsType(args)
  PROVE  \E l \in Nat : /\ l = shape.issuer + shape.committed /\ Len(args.messages) = l
                        /\ args.issuer_no \in 0 .. l /\ args.messages \in Seq(Scalar)
                        /\ l <= Largest("issuer") + Largest("committed")
                        /\ proof_scalars(args) \in Seq(Scalar) /\ proof_scalars(args) \in Seq(Int)
                        /\ Len(proof_scalars(args)) = l + 1
  <1>1. PICK l \in Nat : l = shape.issuer + shape.committed
    BY ShapeAt
  <1>2. /\ Len(args.messages) = l /\ args.issuer_no \in 0 .. l /\ args.messages \in Seq(Scalar) /\ args.blind \in Scalar
        /\ l <= Largest("issuer") + Largest("committed")
    BY <1>1, ShapeAt DEF ArgsType
  <1>3. proof_scalars(args) \in Seq(Scalar) /\ Len(proof_scalars(args)) = l + 1
    BY <1>2, proof_scalarsType
  <1>4. PICK s \in Seq(Scalar) : s = proof_scalars(args)
    BY <1>3
  <1>5. s \in Seq(Int)
    BY ScalarType
  <1> QED BY <1>1, <1>2, <1>3, <1>4, <1>5

LEMMA KeysType ==
  ASSUME Case, NEW args, ArgsType(args)
  PROVE  /\ Len(args.keys) \in Nat /\ \A i \in 1 .. Len(args.keys) : args.keys[i] \in Positions
         /\ KeyPoints(args) \in Seq(Point) /\ Len(KeyPoints(args)) = Len(args.keys)
         /\ \A i \in 1 .. Len(args.keys) : KeyPoints(args)[i] = DevicePoint(args.keys[i])
         /\ Keyed(sum_points(KeyPoints(args)))
  <1>1. PICK ks \in Seq(Positions) : ks = args.keys
    BY DEF ArgsType
  <1>2. PICK n \in Nat : n = Len(ks)
    OBVIOUS
  <1>3. DOMAIN ks = 1 .. n /\ \A i \in 1 .. n : ks[i] \in Positions
    BY <1>2
  <1>4. \A i \in 1 .. n : Keyed(DevicePoint(ks[i]))
    BY <1>3, DevicePointType
  <1>5. KeyPoints(args) = [i \in 1 .. n |-> DevicePoint(ks[i])]
    BY <1>1, <1>3 DEF KeyPoints
  <1>6. [i \in 1 .. n |-> DevicePoint(ks[i])] \in [1 .. n -> Point]
    BY <1>4 DEF Keyed
  <1>7. PICK f \in [1 .. n -> Point] : f = KeyPoints(args)
    BY <1>5, <1>6
  <1>8. f \in Seq(Point) /\ Len(f) = n
    OBVIOUS
  <1>9. \A i \in 1 .. n : f[i] = DevicePoint(ks[i])
    BY <1>5, <1>7
  <1>10. Keyed(sum_points(f))
    BY <1>4, <1>8, <1>9, KeyedSum
  <1> QED BY <1>1, <1>2, <1>3, <1>7, <1>8, <1>9, <1>10

LEMMA FullIs ==
  ASSUME Case, NEW args, ArgsType(args), NEW dom \in Int
  PROVE  /\ Full(args, dom) \in Point
         /\ Full(args, dom) = Plus(Messaged(args.issuer_no, shape.issuer + shape.committed, dom, proof_scalars(args)),
                                   sum_points(KeyPoints(args)))
         /\ \E b \in 1 .. Dim : Full(args, dom)[b] = 1
  <1>1. PICK l \in Nat : /\ l = shape.issuer + shape.committed /\ Len(args.messages) = l
                         /\ args.issuer_no \in 0 .. l
                         /\ l <= Largest("issuer") + Largest("committed")
                         /\ proof_scalars(args) \in Seq(Int)
                         /\ Len(proof_scalars(args)) = l + 1
    BY ArgsIs
  <1>2. PICK k \in Nat : k = Len(args.keys)
    BY KeysType
  <1>3. PICK ss \in Seq(Int) : ss = proof_scalars(args) /\ Len(ss) = l + 1
    BY <1>1
  <1>4. PICK n \in 0 .. l : n = args.issuer_no
    BY <1>1
  <1>5. compute_b(all_generators(n, l, k), ss, dom) = Messaged(n, l, dom, ss) /\ Messaged(n, l, dom, ss) \in Point
    BY <1>3, compute_bIs, MessagedType
  <1>6. GeneratorsOf(args) = all_generators(n, l, k)
    BY <1>1, <1>2, <1>4 DEF GeneratorsOf
  <1>7. PICK x : x = sum_points(KeyPoints(args)) /\ Keyed(x)
    BY KeysType
  <1>8. Full(args, dom) = Plus(Messaged(n, l, dom, ss), x)
    BY <1>3, <1>5, <1>6, <1>7 DEF Full
  <1>9. Plus(Messaged(n, l, dom, ss), x) \in Point
    BY <1>5, <1>7, PlusAt DEF Keyed
  <1>10. PICK j \in 1 .. l + 3 : j = 1
    OBVIOUS
  <1>11. PICK b \in 1 .. Dim : Keyless(b) /\ \A p \in 1 .. l + 3 : Base(n, l)[p][b] = IF p = j THEN 1 ELSE 0
    BY <1>1, BaseCoordinate
  <1>12. Messaged(n, l, dom, ss)[b] = 1
    <2>1. PICK w \in Seq(Int) : w = WithDomain(dom, ss) /\ Len(w) = l + 3 /\ w[1] = 1
      BY <1>3, WithDomainType
    <2>2. PICK ps \in Seq(Point) : ps = Base(n, l) /\ Len(ps) = l + 3
      BY BaseType
    <2>3. Alone(ps, j, b)
      BY <1>11, <2>2 DEF Alone
    <2>4. sumprod(ps, w)[b] = w[j] % q
      BY <2>1, <2>2, <2>3, CoefficientAt
    <2>5. 1 % q = 1
      BY ScalarMod, ToScalar, OrderType
    <2> QED BY <1>10, <2>1, <2>2, <2>4, <2>5 DEF Messaged
  <1>13. Plus(Messaged(n, l, dom, ss), x)[b] = 1
    <2>1. x[b] = 0 /\ x \in Point
      BY <1>7, <1>11 DEF Keyed
    <2>2. Plus(Messaged(n, l, dom, ss), x)[b] = (Messaged(n, l, dom, ss)[b] + x[b]) % q
      BY <1>5, <2>1, PlusAt
    <2>3. Messaged(n, l, dom, ss)[b] + x[b] = 1
      BY <1>12, <2>1
    <2>4. 1 % q = 1
      BY ScalarMod, ToScalar, OrderType
    <2> QED BY <2>2, <2>3, <2>4
  <1> QED BY <1>1, <1>3, <1>4, <1>7, <1>8, <1>9, <1>13

\* Two calls that agree on B agree on all that B covers.
LEMMA FullUnique ==
  ASSUME Case, NEW args, ArgsType(args), NEW other, ArgsType(other), args.issuer_no = other.issuer_no,
         NEW dom \in Scalar, NEW dom2 \in Scalar, Full(args, dom) = Full(other, dom2)
  PROVE  dom = dom2 /\ args.messages = other.messages /\ args.blind = other.blind
  <1>1. PICK l \in Nat : l = shape.issuer + shape.committed
    BY ShapeAt
  <1>2. PICK n \in 0 .. l : n = args.issuer_no
    BY <1>1 DEF ArgsType
  <1>3. PICK ss \in Seq(Scalar) : ss = proof_scalars(args) /\ Len(ss) = l + 1 /\ ss \in Seq(Int)
    BY <1>1, ArgsIs
  <1>4. PICK ts \in Seq(Scalar) : ts = proof_scalars(other) /\ Len(ts) = l + 1 /\ ts \in Seq(Int)
    BY <1>1, ArgsIs
  <1>5. l <= Largest("issuer") + Largest("committed")
    BY <1>1, ShapeAt
  <1>6. PICK x : x = sum_points(KeyPoints(args)) /\ Keyed(x)
    BY KeysType
  <1>7. PICK y : y = sum_points(KeyPoints(other)) /\ Keyed(y)
    BY KeysType
  <1>8. dom \in Int /\ dom2 \in Int
    BY ScalarType
  <1>9. PICK v \in Seq(Int) : /\ v = WithDomain(dom, ss) /\ Len(v) = l + 3 /\ v[2] = dom
                              /\ \A i \in 1 .. l + 1 : v[2 + i] = ss[i]
    <2>1. PICK u \in Seq(Int) : u = ss /\ Len(u) = l + 1
      BY <1>3
    <2>2. /\ WithDomain(dom, u) \in Seq(Int) /\ Len(WithDomain(dom, u)) = Len(u) + 2 /\ WithDomain(dom, u)[2] = dom
          /\ \A i \in 1 .. Len(u) : WithDomain(dom, u)[2 + i] = u[i]
      BY <1>8, WithDomainType
    <2>3. Len(u) + 2 = l + 3
      BY <2>1
    <2> QED BY <2>1, <2>2, <2>3
  <1>10. PICK w \in Seq(Int) : /\ w = WithDomain(dom2, ts) /\ Len(w) = l + 3 /\ w[2] = dom2
                               /\ \A i \in 1 .. l + 1 : w[2 + i] = ts[i]
    <2>1. PICK u \in Seq(Int) : u = ts /\ Len(u) = l + 1
      BY <1>4
    <2>2. /\ WithDomain(dom2, u) \in Seq(Int) /\ Len(WithDomain(dom2, u)) = Len(u) + 2 /\ WithDomain(dom2, u)[2] = dom2
          /\ \A i \in 1 .. Len(u) : WithDomain(dom2, u)[2 + i] = u[i]
      BY <1>8, WithDomainType
    <2>3. Len(u) + 2 = l + 3
      BY <2>1
    <2> QED BY <2>1, <2>2, <2>3
  <1>11. Plus(sumprod(Base(n, l), v), x) = Plus(sumprod(Base(n, l), w), y)
    <2>1. Full(args, dom) = Plus(Messaged(n, l, dom, ss), x)
      BY <1>1, <1>2, <1>3, <1>6, <1>8, FullIs
    <2>2. Full(other, dom2) = Plus(Messaged(n, l, dom2, ts), y)
      BY <1>1, <1>2, <1>4, <1>7, <1>8, FullIs
    <2> QED BY <1>9, <1>10, <2>1, <2>2 DEF Messaged
  <1>12. ASSUME NEW j \in 1 .. l + 3 PROVE Cong(v[j], w[j])
    BY <1>5, <1>6, <1>7, <1>9, <1>10, <1>11, BaseUnique
  <1>13. dom = dom2
    <2>1. 2 \in 1 .. l + 3
      OBVIOUS
    <2> QED BY <1>9, <1>10, <1>12, <2>1, CongScalar
  <1>14. ASSUME NEW i \in 1 .. l + 1 PROVE ss[i] = ts[i]
    <2>1. PICK j \in 1 .. l + 3 : j = 2 + i
      OBVIOUS
    <2>2. Cong(v[j], w[j]) /\ v[j] = ss[i] /\ w[j] = ts[i]
      BY <1>9, <1>10, <1>12, <2>1
    <2>3. ss[i] \in Scalar /\ ts[i] \in Scalar
      BY <1>3, <1>4
    <2> QED BY <2>2, <2>3, CongScalar
  <1>15. PICK m \in Seq(Scalar) : m = args.messages /\ Len(m) = l
    BY <1>1 DEF ArgsType
  <1>16. PICK o \in Seq(Scalar) : o = other.messages /\ Len(o) = l
    BY <1>1 DEF ArgsType
  <1>17. /\ \A i \in 1 .. l : i <= n => ss[i] = m[i] /\ ts[i] = o[i]
         /\ ss[n + 1] = args.blind /\ ts[n + 1] = other.blind
         /\ \A i \in 1 .. l : i > n => ss[i + 1] = m[i] /\ ts[i + 1] = o[i]
    BY <1>1, <1>2, <1>3, <1>4, <1>15, <1>16, proof_scalarsType DEF ArgsType
  <1>18. args.blind = other.blind
    <2>1. n + 1 \in 1 .. l + 1
      OBVIOUS
    <2> QED BY <1>14, <1>17, <2>1
  <1>19. ASSUME NEW i \in 1 .. l PROVE m[i] = o[i]
    <2>1. i \in 1 .. l + 1 /\ i + 1 \in 1 .. l + 1
      OBVIOUS
    <2> QED BY <1>14, <1>17, <2>1
  <1>20. m = o
    BY <1>15, <1>16, <1>19
  <1> QED BY <1>13, <1>15, <1>16, <1>18, <1>20

LEMMA GeneratorsDiffer ==
  ASSUME NEW g \in Names, NEW i \in 1 .. SizeOf(g), NEW h, NEW j, Generator(g, i) = Generator(h, j)
  PROVE  <<g, i>> = <<h, j>>
  <1>1. PICK b \in 1 .. Dim : Basis[b] = <<g, i>>
    BY BasisHas
  <1>2. Generator(g, i)[b] = 1
    BY <1>1, GeneratorAt
  <1>3. Generator(h, j)[b] = IF Basis[b] = <<h, j>> THEN 1 ELSE 0
    BY GeneratorAt
  <1>4. Basis[b] = <<h, j>>
    <2>1. CASE Basis[b] = <<h, j>>
      BY <2>1
    <2>2. CASE Basis[b] # <<h, j>>
      <3>1. Generator(h, j)[b] = 0
        BY <1>3, <2>2
      <3> QED BY <1>2, <3>1
    <2> QED BY <2>1, <2>2
  <1> QED BY <1>1, <1>4

\* The generators show where the messages are split, and how many keys there are.
LEMMA SplitShows ==
  ASSUME NEW l \in Nat, NEW n \in 0 .. l, NEW m \in 0 .. l, NEW k \in Nat, NEW h \in Nat,
         all_generators(n, l, k) = all_generators(m, l, h)
  PROVE  ~ (n < m)
  <1> SUFFICES ASSUME n < m PROVE FALSE
    OBVIOUS
  <1>1. PICK p \in 1 .. l + 2 : p = n + 2
    OBVIOUS
  <1>2. PICK i \in 1 .. m : i = n + 1 /\ i + 1 = p
    BY <1>1
  <1>3. Messages(n, l)[n + 2] = Generator("Q2", 1) /\ Messages(m, l)[i + 1] = Generator("H", i)
    BY MessagesType
  <1>4. all_generators(n, l, k)[p] = Messages(n, l)[p] /\ all_generators(m, l, h)[p] = Messages(m, l)[p]
    BY GeneratorsType
  <1>5. Generator("Q2", 1) = Generator("H", i)
    BY <1>1, <1>2, <1>3, <1>4
  <1>6. "Q2" \in Names /\ 1 \in 1 .. SizeOf("Q2")
    BY DEF Names, SizeOf
  <1>7. <<"Q2", 1>> = <<"H", i>>
    BY <1>5, <1>6, GeneratorsDiffer
  <1> QED BY <1>7

LEMMA GeneratorsUnique ==
  ASSUME NEW l \in Nat, NEW n \in 0 .. l, NEW m \in 0 .. l, NEW k \in Nat, NEW h \in Nat,
         all_generators(n, l, k) = all_generators(m, l, h)
  PROVE  n = m /\ k = h
  <1>1. ~ (n < m)
    BY SplitShows
  <1>2. ~ (m < n)
    BY SplitShows
  <1>3. Len(all_generators(n, l, k)) = (l + 2) + k /\ Len(all_generators(m, l, h)) = (l + 2) + h
    BY GeneratorsType
  <1>4. k = h
    BY <1>3
  <1> QED BY <1>1, <1>2, <1>4

\* The keys in order, and in the reverse order, have the same sum.
LEMMA KeysReversed ==
  ASSUME Case, NEW args, ArgsType(args), NEW other, ArgsType(other),
         args.keys = [i \in 1 .. shape.keys |-> i], other.keys = Reverse(args.keys)
  PROVE  /\ Len(other.keys) = shape.keys /\ ToSet(other.keys) = Positions
         /\ sum_points(KeyPoints(other)) = sum_points(KeyPoints(args))
  <1>1. PICK k \in Nat : k = shape.keys
    BY ShapeAt
  <1>2. args.keys = [i \in 1 .. k |-> i] /\ [i \in 1 .. k |-> i] \in Seq(1 .. k) /\ Len([i \in 1 .. k |-> i]) = k
    BY <1>1
  <1>3. Len(args.keys) = k /\ \A i \in 1 .. k : args.keys[i] = i
    BY <1>2
  <1>4. other.keys = [i \in 1 .. k |-> args.keys[(k - i) + 1]]
    BY <1>3 DEF Reverse
  <1>5. PICK f \in [1 .. k -> 1 .. k] : f = other.keys /\ \A i \in 1 .. k : f[i] = (k - i) + 1
    <2>1. \A i \in 1 .. k : (k - i) + 1 \in 1 .. k /\ args.keys[(k - i) + 1] = (k - i) + 1
      BY <1>3
    <2>2. other.keys = [i \in 1 .. k |-> (k - i) + 1]
      BY <1>4, <2>1
    <2>3. [i \in 1 .. k |-> (k - i) + 1] \in [1 .. k -> 1 .. k]
      BY <2>1
    <2> QED BY <2>2, <2>3
  <1>6. f \in Seq(1 .. k) /\ Len(f) = k
    OBVIOUS
  <1>7. ToSet(f) = 1 .. k
    <2>1. ToSet(f) = {f[i] : i \in 1 .. k}
      BY DEF ToSet
    <2>2. ASSUME NEW j \in 1 .. k PROVE j \in {f[i] : i \in 1 .. k}
      <3>1. PICK i \in 1 .. k : i = (k - j) + 1
        OBVIOUS
      <3>2. f[i] = j
        BY <1>5, <3>1
      <3> QED BY <3>2
    <2> QED BY <2>1, <2>2
  <1>8. PICK p \in Seq(Point) : p = KeyPoints(args) /\ Len(p) = k /\ \A i \in 1 .. k : p[i] = DevicePoint(i)
    <2>1. /\ KeyPoints(args) \in Seq(Point) /\ Len(KeyPoints(args)) = Len(args.keys)
          /\ \A i \in 1 .. Len(args.keys) : KeyPoints(args)[i] = DevicePoint(args.keys[i])
      BY KeysType
    <2> QED BY <1>3, <2>1, ZenonT(60)
  <1>9. PICK r \in Seq(Point) : r = KeyPoints(other) /\ Len(r) = k /\ \A i \in 1 .. k : r[i] = DevicePoint(f[i])
    BY <1>5, <1>6, KeysType, ZenonT(60)
  <1>10. ASSUME NEW i \in 1 .. k PROVE p[i] \in Point /\ r[i] = p[k - i + 1]
    <2>1. PICK j \in 1 .. k : j = k - i + 1 /\ j = (k - i) + 1
      OBVIOUS
    <2>2. r[i] = DevicePoint(j) /\ p[j] = DevicePoint(j)
      BY <1>5, <1>8, <1>9, <2>1
    <2>3. p[i] \in Point
      BY <1>8
    <2> QED BY <2>1, <2>2, <2>3
  <1>11. SumTo(r, k) = SumTo(p, k)
    BY <1>10, SumReversed
  <1>12. sum_points(r) = SumTo(r, k) /\ sum_points(p) = SumTo(p, k)
    BY <1>8, <1>9, SumIsSumTo
  <1> QED BY <1>1, <1>5, <1>6, <1>7, <1>8, <1>9, <1>11, <1>12 DEF Positions

-----------------------------------------------------------------------------
(* The indices that a set chooses.                                         *)

IsIndexes(f, l, S) ==
  f = [n \in 0 .. l |-> IF n = 0 THEN <<>> ELSE IF n \in S THEN Append(f[n - 1], n) ELSE f[n - 1]]

LEMMA IndexesExist ==
  ASSUME NEW S, NEW l \in Nat
  PROVE  \E f : IsIndexes(f, l, S)
  <1> DEFINE N == {k \in Nat : \E f : IsIndexes(f, k, S)}
  <1>1. 0 \in N
    <2> DEFINE f == [k \in 0 .. 0 |-> <<>>]
    <2>1. f = [n \in 0 .. 0 |-> IF n = 0 THEN <<>> ELSE IF n \in S THEN Append(f[n - 1], n) ELSE f[n - 1]]
      OBVIOUS
    <2> QED BY <2>1 DEF IsIndexes
  <1>2. ASSUME NEW k \in Nat, k \in N PROVE k + 1 \in N
    <2>1. PICK f : IsIndexes(f, k, S)
      BY <1>2
    <2> DEFINE next == IF k + 1 \in S THEN Append(f[k], k + 1) ELSE f[k]
               g == [i \in 0 .. k + 1 |-> IF i <= k THEN f[i] ELSE next]
    <2>2. ASSUME NEW i \in 0 .. k + 1
          PROVE  g[i] = IF i = 0 THEN <<>> ELSE IF i \in S THEN Append(g[i - 1], i) ELSE g[i - 1]
      <3> HIDE DEF next
      <3>1. CASE i <= k
        <4>1. i \in 0 .. k /\ (i # 0 => i - 1 \in 0 .. k)
          BY <3>1
        <4>2. f[i] = IF i = 0 THEN <<>> ELSE IF i \in S THEN Append(f[i - 1], i) ELSE f[i - 1]
          BY <2>1, <4>1 DEF IsIndexes
        <4>3. g[i] = f[i] /\ (i # 0 => g[i - 1] = f[i - 1])
          BY <4>1
        <4> HIDE DEF g
        <4> QED BY <4>1, <4>2, <4>3
      <3>2. CASE i > k
        <4>1. i = k + 1 /\ i - 1 = k /\ i # 0 /\ k \in 0 .. k + 1 /\ ~ (i <= k)
          BY <3>2
        <4>2. g[i] = next /\ g[i - 1] = f[k]
          BY <4>1
        <4> HIDE DEF g
        <4> QED BY <4>1, <4>2 DEF next
      <3> QED BY <3>1, <3>2
    <2>3. IsIndexes(g, k + 1, S)
      <3>1. g = [i \in 0 .. k + 1 |-> g[i]]
        OBVIOUS
      <3> HIDE DEF g
      <3> QED BY <2>2, <3>1 DEF IsIndexes
    <2> QED BY <2>3
  <1>3. Nat \subseteq N
    <2> HIDE DEF N
    <2> QED BY <1>1, <1>2, NumberInduction
  <1> QED BY <1>3

LEMMA IndexesUnique ==
  ASSUME NEW S, NEW l \in Nat, NEW m \in Nat, l <= m, NEW f, NEW g, IsIndexes(f, l, S), IsIndexes(g, m, S)
  PROVE  f[l] = g[l]
  <1> DEFINE N == {k \in Nat : k <= l => f[k] = g[k]}
  <1>1. 0 \in N
    BY DEF IsIndexes
  <1>2. ASSUME NEW k \in Nat, k \in N PROVE k + 1 \in N
    <2> SUFFICES ASSUME k + 1 <= l PROVE f[k + 1] = g[k + 1]
      OBVIOUS
    <2>1. k + 1 \in 0 .. l /\ k + 1 \in 0 .. m /\ k + 1 # 0 /\ (k + 1) - 1 = k
      OBVIOUS
    <2>2. /\ f[k + 1] = IF k + 1 \in S THEN Append(f[k], k + 1) ELSE f[k]
          /\ g[k + 1] = IF k + 1 \in S THEN Append(g[k], k + 1) ELSE g[k]
      BY <2>1 DEF IsIndexes
    <2>3. f[k] = g[k]
      BY <1>2
    <2> QED BY <2>2, <2>3
  <1>3. Nat \subseteq N
    <2> HIDE DEF N
    <2> QED BY <1>1, <1>2, NumberInduction
  <1> QED BY <1>3

LEMMA IndexesIs ==
  ASSUME NEW S, NEW l \in Nat
  PROVE  \E f : IsIndexes(f, l, S) /\ IndexesIn(l, S) = f[l]
  <1> DEFINE f == CHOOSE f : IsIndexes(f, l, S)
  <1>1. IsIndexes(f, l, S)
    BY IndexesExist
  <1>2. IndexesIn(l, S) = f[l]
    BY DEF IndexesIn, IsIndexes
  <1> QED BY <1>1, <1>2

LEMMA IndexesNone == ASSUME NEW S PROVE IndexesIn(0, S) = <<>>
  <1>1. PICK f : IsIndexes(f, 0, S) /\ IndexesIn(0, S) = f[0]
    BY IndexesIs
  <1> QED BY <1>1 DEF IsIndexes

LEMMA IndexesNext ==
  ASSUME NEW S, NEW n \in Nat
  PROVE  IndexesIn(n + 1, S) = IF n + 1 \in S THEN Append(IndexesIn(n, S), n + 1) ELSE IndexesIn(n, S)
  <1>1. PICK m \in Nat : m = n + 1
    OBVIOUS
  <1>2. PICK f : IsIndexes(f, n, S) /\ IndexesIn(n, S) = f[n]
    BY IndexesIs
  <1>3. PICK g : IsIndexes(g, m, S) /\ IndexesIn(m, S) = g[m]
    BY IndexesIs
  <1>4. n <= m
    BY <1>1
  <1>5. f[n] = g[n]
    BY ONLY <1>2, <1>3, <1>4, n \in Nat, m \in Nat, IndexesUnique
  <1>6. m \in 0 .. m /\ m # 0 /\ m - 1 = n
    BY <1>1
  <1>7. g[m] = IF m \in S THEN Append(g[n], m) ELSE g[n]
    BY <1>3, <1>6 DEF IsIndexes
  <1> QED BY <1>1, <1>2, <1>3, <1>5, <1>7

\* They are the chosen ones, each once.
Indexing(s, n, S) ==
  /\ s \in Seq(Nat) /\ Len(s) \in Nat
  /\ \A i \in 1 .. Len(s) : s[i] \in S /\ s[i] \in 1 .. n
  /\ \A x \in 1 .. n : x \in S => \E i \in 1 .. Len(s) : s[i] = x
  /\ \A i, j \in 1 .. Len(s) : s[i] = s[j] => i = j

LEMMA IndexesType ==
  ASSUME NEW S, NEW n \in Nat
  PROVE  Indexing(IndexesIn(n, S), n, S)
  <1> DEFINE N == {k \in Nat : Indexing(IndexesIn(k, S), k, S)}
  <1>1. 0 \in N
    <2>1. IndexesIn(0, S) = <<>> /\ <<>> \in Seq(Nat) /\ Len(<<>>) = 0
      BY IndexesNone
    <2>2. PICK s \in Seq(Nat) : s = IndexesIn(0, S) /\ Len(s) = 0
      BY <2>1
    <2>3. Indexing(s, 0, S)
      BY ONLY <2>2 DEF Indexing
    <2> QED BY <2>2, <2>3
  <1>2. ASSUME NEW k \in Nat, k \in N PROVE k + 1 \in N
    <2>1. PICK s \in Seq(Nat) : s = IndexesIn(k, S) /\ Indexing(s, k, S)
      BY <1>2 DEF Indexing
    <2>2. PICK m \in Nat : m = k + 1
      OBVIOUS
    <2>3. IndexesIn(m, S) = IF m \in S THEN Append(s, m) ELSE s
      BY <2>1, <2>2, IndexesNext
    <2>4. CASE m \in S
      <3>1. PICK t \in Seq(Nat) : t = Append(s, m)
        BY AppendProperties
      <3>2. PICK h \in Nat : h = Len(s)
        OBVIOUS
      <3>3. Len(t) = h + 1 /\ t[h + 1] = m /\ \A i \in 1 .. h : t[i] = s[i]
        BY <3>1, <3>2, AppendProperties
      <3>4. \A i \in 1 .. h : t[i] \in S /\ t[i] \in 1 .. k
        BY <2>1, <3>2, <3>3 DEF Indexing
      <3>5. \A i \in 1 .. h + 1 : i \in 1 .. h \/ i = h + 1
        OBVIOUS
      <3>6. \A i \in 1 .. h + 1 : t[i] \in S /\ t[i] \in 1 .. m
        BY <2>2, <2>4, <3>3, <3>4, <3>5
      <3>7. ASSUME NEW x \in 1 .. m, x \in S PROVE \E i \in 1 .. h + 1 : t[i] = x
        <4>1. CASE x = m
          BY <4>1, <3>3
        <4>2. CASE x # m
          <5>1. x \in 1 .. k
            BY <4>2, <2>2
          <5>2. PICK i \in 1 .. h : s[i] = x
            BY <5>1, <3>7, <2>1, <3>2 DEF Indexing
          <5> QED BY <5>2, <3>3
        <4> QED BY <4>1, <4>2
      <3>8. ASSUME NEW i \in 1 .. h + 1, NEW j \in 1 .. h + 1, t[i] = t[j] PROVE i = j
        <4>1. CASE i \in 1 .. h /\ j \in 1 .. h
          <5>1. s[i] = s[j]
            BY <4>1, <3>3, <3>8
          <5> QED BY <4>1, <5>1, <2>1, <3>2 DEF Indexing
        <4>2. CASE i \in 1 .. h /\ j = h + 1
          <5>1. t[i] \in 1 .. k /\ t[j] = m
            BY <4>2, <3>3, <3>4
          <5> QED BY <5>1, <3>8, <2>2
        <4>3. CASE i = h + 1 /\ j \in 1 .. h
          <5>1. PICK a \in 1 .. k : a = t[j]
            BY <4>3, <3>4
          <5>2. a = m
            BY <4>3, <5>1, <3>3, <3>8
          <5> QED BY ONLY <5>2, a \in 1 .. k, <2>2
        <4> QED BY <3>5, <4>1, <4>2, <4>3
      <3>9. Indexing(t, m, S)
        BY <3>3, <3>6, <3>7, <3>8 DEF Indexing
      <3> QED BY <2>2, <2>3, <2>4, <3>1, <3>9
    <2>5. CASE m \notin S
      <3>1. Indexing(s, m, S)
        <4>1. \A x \in 1 .. m : x \in S => x \in 1 .. k
          BY <2>2, <2>5
        <4>2. \A x \in 1 .. k : x \in 1 .. m
          BY <2>2
        <4> QED BY <2>1, <4>1, <4>2 DEF Indexing
      <3> QED BY <2>2, <2>3, <2>5, <3>1
    <2> QED BY <2>4, <2>5
  <1>3. Nat \subseteq N
    <2> HIDE DEF N
    <2> QED BY <1>1, <1>2, NumberInduction
  <1> QED BY <1>3

LEMMA IndexesSame ==
  ASSUME NEW S, NEW T, NEW n \in Nat, \A x \in 1 .. n : x \in S <=> x \in T
  PROVE  IndexesIn(n, S) = IndexesIn(n, T)
  <1> DEFINE N == {k \in Nat : k <= n => IndexesIn(k, S) = IndexesIn(k, T)}
  <1>1. 0 \in N
    BY IndexesNone
  <1>2. ASSUME NEW k \in Nat, k \in N PROVE k + 1 \in N
    <2> SUFFICES ASSUME k + 1 <= n PROVE IndexesIn(k + 1, S) = IndexesIn(k + 1, T)
      OBVIOUS
    <2>1. k + 1 \in S <=> k + 1 \in T
      OBVIOUS
    <2>2. IndexesIn(k, S) = IndexesIn(k, T)
      BY <1>2
    <2> QED BY <2>1, <2>2, IndexesNext
  <1>3. Nat \subseteq N
    <2> HIDE DEF N
    <2> QED BY <1>1, <1>2, NumberInduction
  <1> QED BY <1>3

Pick(x, s) == [i \in 1 .. Len(s) |-> x[s[i]]]
PickSum(x, s) == SumTo(Pick(x, s), Len(s))

LEMMA PickSumType ==
  ASSUME NEW x, NEW n \in Nat, NEW S, \A i \in 1 .. n : x[i] \in Point
  PROVE  PickSum(x, IndexesIn(n, S)) \in Point
  <1>1. PICK s : s = IndexesIn(n, S) /\ Indexing(s, n, S)
    BY IndexesType
  <1>2. \A i \in 1 .. Len(s) : Pick(x, s)[i] \in Point
    BY <1>1 DEF Pick, Indexing
  <1>3. Len(s) \in Nat
    BY <1>1 DEF Indexing
  <1> QED BY <1>1, <1>2, <1>3, SumToType DEF PickSum

LEMMA PickSumAppend ==
  ASSUME NEW x, NEW s \in Seq(Nat), NEW m \in Nat
  PROVE  PickSum(x, Append(s, m)) = Plus(PickSum(x, s), x[m])
  <1>1. PICK h \in Nat : h = Len(s)
    OBVIOUS
  <1>2. PICK t : t = Append(s, m)
    OBVIOUS
  <1>3. Len(t) = h + 1 /\ t[h + 1] = m /\ \A i \in 1 .. h : t[i] = s[i]
    BY <1>1, <1>2, AppendProperties
  <1> DEFINE y == Pick(x, t)
             z == Pick(x, s)
  <1>4. ASSUME NEW i \in 1 .. h PROVE y[i] = z[i]
    <2>1. i \in 1 .. h + 1
      OBVIOUS
    <2>2. y[i] = x[t[i]]
      BY <1>3, <2>1 DEF Pick
    <2>3. z[i] = x[s[i]]
      BY <1>1 DEF Pick
    <2> QED BY <1>3, <2>2, <2>3
  <1>5. y[h + 1] = x[m]
    <2>1. h + 1 \in 1 .. Len(t)
      BY <1>3
    <2> QED BY <1>3, <2>1 DEF Pick
  <1> HIDE DEF y, z
  <1>6. SumTo(y, h) = SumTo(z, h)
    BY <1>4, SumToSame
  <1>7. SumTo(y, h + 1) = Plus(SumTo(y, h), y[h + 1])
    BY SumToNext
  <1> QED BY <1>1, <1>2, <1>3, <1>5, <1>6, <1>7 DEF PickSum, y, z

LEMMA PickSumNone == ASSUME NEW x PROVE PickSum(x, <<>>) = Identity
  <1>1. Len(<<>>) = 0
    OBVIOUS
  <1> QED BY <1>1, SumToNone DEF PickSum

LEMMA PickSumNext ==
  ASSUME NEW x, NEW S, NEW n \in Nat
  PROVE  PickSum(x, IndexesIn(n + 1, S))
           = IF n + 1 \in S THEN Plus(PickSum(x, IndexesIn(n, S)), x[n + 1]) ELSE PickSum(x, IndexesIn(n, S))
  <1>1. PICK s \in Seq(Nat) : s = IndexesIn(n, S)
    BY IndexesType DEF Indexing
  <1>2. PICK m \in Nat : m = n + 1
    OBVIOUS
  <1>3. IndexesIn(m, S) = IF m \in S THEN Append(s, m) ELSE s
    BY <1>1, <1>2, IndexesNext
  <1>4. PickSum(x, Append(s, m)) = Plus(PickSum(x, s), x[m])
    BY PickSumAppend
  <1> QED BY <1>1, <1>2, <1>3, <1>4

\* One more index, one more point.
LEMMA InsertSum ==
  ASSUME NEW x, NEW S, NEW n \in Nat, NEW j \in 1 .. n, j \notin S, \A i \in 1 .. n : x[i] \in Point
  PROVE  PickSum(x, IndexesIn(n, S \cup {j})) = Plus(PickSum(x, IndexesIn(n, S)), x[j])
  <1> DEFINE T == S \cup {j}
             a(k) == PickSum(x, IndexesIn(k, S))
             b(k) == PickSum(x, IndexesIn(k, T))
             N == {k \in Nat : k <= n => b(k) = IF j <= k THEN Plus(a(k), x[j]) ELSE a(k)}
  <1>1. 0 \in N
    <2>1. a(0) = b(0) /\ ~ (j <= 0)
      BY IndexesNone
    <2> HIDE DEF a, b
    <2> QED BY <2>1
  <1>2. ASSUME NEW k \in Nat, k \in N PROVE k + 1 \in N
    <2> SUFFICES ASSUME k + 1 <= n PROVE b(k + 1) = IF j <= k + 1 THEN Plus(a(k + 1), x[j]) ELSE a(k + 1)
      OBVIOUS
    <2>0. PICK m \in Nat : m = k + 1
      OBVIOUS
    <2>1. /\ a(m) = IF m \in S THEN Plus(a(k), x[m]) ELSE a(k)
          /\ b(m) = IF m \in T THEN Plus(b(k), x[m]) ELSE b(k)
      BY <2>0, PickSumNext
    <2>2. b(k) = IF j <= k THEN Plus(a(k), x[j]) ELSE a(k)
      BY <1>2
    <2>3. PICK p \in Point : p = a(k)
      <3>1. \A i \in 1 .. k : x[i] \in Point
        OBVIOUS
      <3> QED BY <3>1, PickSumType
    <2>4. PICK u \in Point : u = x[j]
      OBVIOUS
    <2>5. PICK v \in Point : v = x[m]
      BY <2>0
    <2>6. Plus(Plus(p, u), v) = Plus(Plus(p, v), u)
      <3>1. Plus(u, v) = Plus(v, u)
        BY PlusCommutes
      <3>2. Plus(Plus(p, u), v) = Plus(p, Plus(u, v)) /\ Plus(Plus(p, v), u) = Plus(p, Plus(v, u))
        BY PlusAssociates
      <3> QED BY <3>1, <3>2
    <2> HIDE DEF a, b
    <2>7. CASE j <= k
      <3>1. j <= m /\ j # m /\ (m \in T <=> m \in S)
        BY <2>0, <2>7
      <3> QED BY <2>0, <2>1, <2>2, <2>3, <2>4, <2>5, <2>6, <2>7, <3>1
    <2>8. CASE j = m
      <3>1. ~ (j <= k) /\ j <= m /\ m \in T /\ m \notin S
        BY <2>0, <2>8
      <3> QED BY <2>0, <2>1, <2>2, <2>8, <3>1
    <2>9. CASE j > m
      <3>1. ~ (j <= k) /\ ~ (j <= m) /\ (m \in T <=> m \in S)
        BY <2>0, <2>9
      <3> QED BY <2>0, <2>1, <2>2, <3>1
    <2> QED BY <2>0, <2>7, <2>8, <2>9
  <1>3. Nat \subseteq N
    <2> HIDE DEF N
    <2> QED BY <1>1, <1>2, NumberInduction
  <1>4. n \in N /\ n <= n /\ j <= n
    BY <1>3
  <1>5. b(n) = Plus(a(n), x[j])
    <2> HIDE DEF a, b
    <2> QED BY <1>4
  <1> QED BY <1>5

LEMMA AllSum ==
  ASSUME NEW x, NEW n \in Nat
  PROVE  PickSum(x, IndexesIn(n, 1 .. n)) = SumTo(x, n)
  <1> DEFINE a(k) == PickSum(x, IndexesIn(k, 1 .. n))
             N == {k \in Nat : k <= n => a(k) = SumTo(x, k)}
  <1>1. 0 \in N
    BY IndexesNone, PickSumNone, SumToNone
  <1>2. ASSUME NEW k \in Nat, k \in N PROVE k + 1 \in N
    <2> SUFFICES ASSUME k + 1 <= n PROVE a(k + 1) = SumTo(x, k + 1)
      OBVIOUS
    <2>1. k + 1 \in 1 .. n
      OBVIOUS
    <2>2. a(k + 1) = Plus(a(k), x[k + 1])
      BY <2>1, PickSumNext
    <2>3. SumTo(x, k + 1) = Plus(SumTo(x, k), x[k + 1])
      BY SumToNext
    <2>4. a(k) = SumTo(x, k)
      BY <1>2
    <2> HIDE DEF a
    <2> QED BY <2>2, <2>3, <2>4
  <1>3. Nat \subseteq N
    <2> HIDE DEF N
    <2> QED BY <1>1, <1>2, NumberInduction
  <1> QED BY <1>3

\* What the first k of d leave of n.
Rest(n, d, k) == (1 .. n) \ {d[i] : i \in 1 .. k}

NotBefore(d, k, m) == \A i \in 1 .. k : d[i] # d[m]

LEMMA RestNext ==
  ASSUME NEW n \in Nat, NEW d, NEW k \in Nat, NEW m \in Nat, m = k + 1,
         d[m] \in 1 .. n, NotBefore(d, k, m)
  PROVE  d[m] \notin Rest(n, d, m) /\ Rest(n, d, k) = Rest(n, d, m) \cup {d[m]}
  <1>1. \A i \in 1 .. m : i \in 1 .. k \/ i = m
    OBVIOUS
  <1>2. m \in 1 .. m /\ \A i \in 1 .. k : i \in 1 .. m
    OBVIOUS
  <1>3. {d[i] : i \in 1 .. m} = {d[i] : i \in 1 .. k} \cup {d[m]}
    BY <1>1, <1>2
  <1>4. d[m] \notin {d[i] : i \in 1 .. k}
    BY DEF NotBefore
  <1> QED BY <1>3, <1>4 DEF Rest

\* A sum in two parts: the indices of d, and all the others in order.
LEMMA Partition ==
  ASSUME NEW x, NEW n \in Nat, \A i \in 1 .. n : x[i] \in Point, NEW d, NEW h \in Nat,
         \A i \in 1 .. h : d[i] \in 1 .. n, \A i, j \in 1 .. h : d[i] = d[j] => i = j
  PROVE  Plus(SumTo([i \in 1 .. h |-> x[d[i]]], h), PickSum(x, IndexesIn(n, Rest(n, d, h))))
           = SumTo(x, n)
  <1> DEFINE y == [i \in 1 .. h |-> x[d[i]]]
             R(k) == Rest(n, d, k)
             N == {k \in Nat : k <= h => Plus(SumTo(y, k), PickSum(x, IndexesIn(n, R(k)))) = SumTo(x, n)}
  <1>1. 0 \in N
    <2>1. R(0) = 1 .. n
      BY DEF Rest
    <2>2. PickSum(x, IndexesIn(n, 1 .. n)) = SumTo(x, n)
      BY AllSum
    <2>3. SumTo(x, n) \in Point /\ SumTo(y, 0) = Identity
      BY SumToType, SumToNone
    <2> QED BY <2>1, <2>2, <2>3, PlusIdentity
  <1>2. ASSUME NEW k \in Nat, k \in N PROVE k + 1 \in N
    <2> SUFFICES ASSUME k + 1 <= h PROVE Plus(SumTo(y, k + 1), PickSum(x, IndexesIn(n, R(k + 1)))) = SumTo(x, n)
      OBVIOUS
    <2>1. PICK m \in 1 .. h : m = k + 1
      OBVIOUS
    <2>2. PICK e \in 1 .. n : e = d[m]
      OBVIOUS
    <2>3. y[m] = x[e] /\ \A i \in 1 .. k : y[i] \in Point
      BY <2>2
    <2>4. e \notin R(m) /\ R(k) = R(m) \cup {e}
      <3>1. NotBefore(d, k, m)
        BY <2>1 DEF NotBefore
      <3>2. m \in Nat /\ d[m] \in 1 .. n
        BY <2>2
      <3> HIDE DEF R
      <3>3. d[m] \notin Rest(n, d, m) /\ Rest(n, d, k) = Rest(n, d, m) \cup {d[m]}
        BY <2>1, <3>1, <3>2, RestNext
      <3> QED BY <2>2, <3>3 DEF R
    <2>5. PickSum(x, IndexesIn(n, R(m) \cup {e})) = Plus(PickSum(x, IndexesIn(n, R(m))), x[e])
      <3> HIDE DEF R
      <3> QED BY <2>4, InsertSum
    <2>6. PICK p \in Point : p = PickSum(x, IndexesIn(n, R(m)))
      <3> HIDE DEF R
      <3> QED BY PickSumType
    <2>7. PICK u \in Point : u = x[e]
      BY <2>2
    <2>8. PICK s \in Point : s = SumTo(y, k)
      <3> HIDE DEF y
      <3> QED BY <2>3, SumToType
    <2>9. SumTo(y, k + 1) = Plus(SumTo(y, k), y[k + 1])
      BY SumToNext
    <2>10. Plus(s, Plus(p, u)) = SumTo(x, n)
      <3>1. Plus(SumTo(y, k), PickSum(x, IndexesIn(n, R(k)))) = SumTo(x, n)
        BY <1>2
      <3> HIDE DEF R, y, N
      <3>2. Plus(s, PickSum(x, IndexesIn(n, R(k)))) = SumTo(x, n)
        BY <2>8, <3>1
      <3>3. PickSum(x, IndexesIn(n, R(k))) = Plus(p, u)
        BY ONLY <2>4, <2>5, <2>6, <2>7
      <3> QED BY <3>2, <3>3
    <2>11. Plus(s, Plus(p, u)) = Plus(Plus(s, u), p)
      <3>1. Plus(p, u) = Plus(u, p)
        BY PlusCommutes
      <3> QED BY <3>1, PlusAssociates
    <2> HIDE DEF R, y
    <2> QED BY <2>1, <2>3, <2>6, <2>7, <2>8, <2>9, <2>10, <2>11
  <1>3. Nat \subseteq N
    <2> HIDE DEF N
    <2> QED BY <1>1, <1>2, NumberInduction
  <1> QED BY <1>3

LEMMA InsertLength ==
  ASSUME NEW S, NEW n \in Nat, NEW j \in 1 .. n, j \notin S
  PROVE  Len(IndexesIn(n, S \cup {j})) = Len(IndexesIn(n, S)) + 1
  <1> DEFINE T == S \cup {j}
             a(k) == Len(IndexesIn(k, S))
             b(k) == Len(IndexesIn(k, T))
             N == {k \in Nat : k <= n => b(k) = IF j <= k THEN a(k) + 1 ELSE a(k)}
  <1>0. ASSUME NEW U, NEW k \in Nat
        PROVE  /\ Len(IndexesIn(k, U)) \in Nat
               /\ Len(IndexesIn(k + 1, U)) = IF k + 1 \in U THEN Len(IndexesIn(k, U)) + 1 ELSE Len(IndexesIn(k, U))
    <2>1. PICK s \in Seq(Nat) : s = IndexesIn(k, U)
      BY IndexesType DEF Indexing
    <2>2. Len(s) \in Nat /\ Len(Append(s, k + 1)) = Len(s) + 1
      BY AppendProperties
    <2> QED BY <2>1, <2>2, IndexesNext
  <1>1. 0 \in N
    <2>1. a(0) = b(0) /\ ~ (j <= 0)
      BY IndexesNone
    <2> HIDE DEF a, b
    <2> QED BY <2>1
  <1>2. ASSUME NEW k \in Nat, k \in N PROVE k + 1 \in N
    <2> SUFFICES ASSUME k + 1 <= n PROVE b(k + 1) = IF j <= k + 1 THEN a(k + 1) + 1 ELSE a(k + 1)
      OBVIOUS
    <2>0. PICK m \in Nat : m = k + 1
      OBVIOUS
    <2>1. /\ a(m) = IF m \in S THEN a(k) + 1 ELSE a(k)
          /\ b(m) = IF m \in T THEN b(k) + 1 ELSE b(k)
          /\ a(k) \in Nat
      BY <1>0, <2>0
    <2>2. b(k) = IF j <= k THEN a(k) + 1 ELSE a(k)
      BY <1>2
    <2> HIDE DEF a, b
    <2>7. CASE j <= k
      <3>1. j <= m /\ j # m /\ (m \in T <=> m \in S)
        BY <2>0, <2>7
      <3> QED BY <2>0, <2>1, <2>2, <2>7, <3>1
    <2>8. CASE j = m
      <3>1. ~ (j <= k) /\ j <= m /\ m \in T /\ m \notin S
        BY <2>0, <2>8
      <3> QED BY <2>0, <2>1, <2>2, <2>8, <3>1
    <2>9. CASE j > m
      <3>1. ~ (j <= k) /\ ~ (j <= m) /\ (m \in T <=> m \in S)
        BY <2>0, <2>9
      <3> QED BY <2>0, <2>1, <2>2, <3>1
    <2> QED BY <2>0, <2>7, <2>8, <2>9
  <1>3. Nat \subseteq N
    <2> HIDE DEF N
    <2> QED BY <1>1, <1>2, NumberInduction
  <1>4. n \in N
    <2> HIDE DEF N
    <2> QED BY <1>3
  <1>5. b(n) = a(n) + 1
    <2>1. n <= n => b(n) = IF j <= n THEN a(n) + 1 ELSE a(n)
      BY <1>4
    <2> HIDE DEF a, b, N
    <2> QED BY <2>1
  <1> QED BY <1>5

LEMMA AllLength == ASSUME NEW n \in Nat PROVE Len(IndexesIn(n, 1 .. n)) = n
  <1> DEFINE N == {k \in Nat : k <= n => Len(IndexesIn(k, 1 .. n)) = k}
  <1>1. 0 \in N
    BY IndexesNone
  <1>2. ASSUME NEW k \in Nat, k \in N PROVE k + 1 \in N
    <2> SUFFICES ASSUME k + 1 <= n PROVE Len(IndexesIn(k + 1, 1 .. n)) = k + 1
      OBVIOUS
    <2>1. PICK s \in Seq(Nat) : s = IndexesIn(k, 1 .. n)
      BY IndexesType DEF Indexing
    <2>2. k + 1 \in 1 .. n
      OBVIOUS
    <2>3. IndexesIn(k + 1, 1 .. n) = Append(s, k + 1)
      BY <2>1, <2>2, IndexesNext
    <2>4. Len(Append(s, k + 1)) = Len(s) + 1
      BY AppendProperties
    <2> QED BY <1>2, <2>1, <2>3, <2>4
  <1>3. Nat \subseteq N
    <2> HIDE DEF N
    <2> QED BY <1>1, <1>2, NumberInduction
  <1> QED BY <1>3

\* The indices of d and the others are all.
LEMMA PartitionLength ==
  ASSUME NEW n \in Nat, NEW d, NEW h \in Nat,
         \A i \in 1 .. h : d[i] \in 1 .. n, \A i, j \in 1 .. h : d[i] = d[j] => i = j
  PROVE  h + Len(IndexesIn(n, Rest(n, d, h))) = n
  <1> DEFINE R(k) == Rest(n, d, k)
             N == {k \in Nat : k <= h => k + Len(IndexesIn(n, R(k))) = n}
  <1>1. 0 \in N
    <2>1. R(0) = 1 .. n
      BY DEF Rest
    <2>2. Len(IndexesIn(n, 1 .. n)) = n
      BY AllLength
    <2>3. 0 + Len(IndexesIn(n, R(0))) = n
      <3> HIDE DEF R
      <3> QED BY <2>1, <2>2
    <2> QED BY <2>3
  <1>2. ASSUME NEW k \in Nat, k \in N PROVE k + 1 \in N
    <2> SUFFICES ASSUME k + 1 <= h PROVE (k + 1) + Len(IndexesIn(n, R(k + 1))) = n
      OBVIOUS
    <2>0. k + Len(IndexesIn(n, R(k))) = n
      BY <1>2
    <2>1. PICK m \in 1 .. h : m = k + 1
      OBVIOUS
    <2>2. PICK e \in 1 .. n : e = d[m]
      OBVIOUS
    <2>3. e \notin R(m) /\ R(k) = R(m) \cup {e}
      <3>1. NotBefore(d, k, m)
        BY <2>1 DEF NotBefore
      <3>2. m \in Nat /\ d[m] \in 1 .. n
        BY <2>2
      <3> HIDE DEF R
      <3>3. d[m] \notin Rest(n, d, m) /\ Rest(n, d, k) = Rest(n, d, m) \cup {d[m]}
        BY <2>1, <3>1, <3>2, RestNext
      <3> QED BY <2>2, <3>3 DEF R
    <2> HIDE DEF R, N
    <2>4. Len(IndexesIn(n, R(m) \cup {e})) = Len(IndexesIn(n, R(m))) + 1
      BY <2>3, InsertLength
    <2>5. Len(IndexesIn(n, R(m))) \in Nat
      BY IndexesType DEF Indexing
    <2> QED BY <2>0, <2>1, <2>3, <2>4, <2>5
  <1>3. Nat \subseteq N
    <2> HIDE DEF N
    <2> QED BY <1>1, <1>2, NumberInduction
  <1> QED BY <1>3

Following(l, k) == [i \in 1 .. k |-> l + i]

LEMMA FollowingType ==
  ASSUME NEW l \in Nat, NEW k \in Nat
  PROVE  /\ Following(l, k) \in Seq(Nat) /\ Len(Following(l, k)) = k
         /\ \A i \in 1 .. k : Following(l, k)[i] = l + i
  <1>1. Following(l, k) \in [1 .. k -> Nat] /\ \A i \in 1 .. k : Following(l, k)[i] = l + i
    BY DEF Following
  <1>2. PICK f \in [1 .. k -> Nat] : f = Following(l, k)
    BY <1>1
  <1>3. f \in Seq(Nat) /\ Len(f) = k
    OBVIOUS
  <1> QED BY <1>1, <1>2, <1>3

LEMMA FollowingNext ==
  ASSUME NEW l \in Nat, NEW k \in Nat
  PROVE  Following(l, k + 1) = Append(Following(l, k), l + (k + 1))
  <1>1. PICK f \in Seq(Nat) : f = Following(l, k) /\ Len(f) = k /\ \A i \in 1 .. k : f[i] = l + i
    BY FollowingType
  <1>2. PICK m \in Nat : m = k + 1
    OBVIOUS
  <1>3. PICK g \in Seq(Nat) : g = Following(l, m) /\ Len(g) = m /\ \A i \in 1 .. m : g[i] = l + i
    BY FollowingType
  <1>4. PICK e \in Nat : e = l + (k + 1)
    OBVIOUS
  <1>5. PICK h \in Seq(Nat) : h = Append(f, e)
    BY AppendProperties
  <1>6. Len(h) = m /\ h[m] = e /\ \A i \in 1 .. k : h[i] = f[i]
    BY <1>1, <1>2, <1>5, AppendProperties
  <1>7. ASSUME NEW i \in 1 .. m PROVE g[i] = h[i]
    <2>1. CASE i = m
      BY <2>1, <1>2, <1>3, <1>4, <1>6
    <2>2. CASE i # m
      <3>1. i \in 1 .. k
        BY <2>2, <1>2
      <3> QED BY <3>1, <1>1, <1>3, <1>6
    <2> QED BY <2>1, <2>2
  <1>8. g = h
    BY <1>3, <1>6, <1>7
  <1> QED BY <1>1, <1>2, <1>3, <1>4, <1>5, <1>8

\* s and then t, with e after it.
With(t, e) == Append(t, e)

LEMMA WithIsJoin ==
  ASSUME NEW t \in Octets, NEW e \in Int
  PROVE  With(t, e) = Join(t, <<e>>) /\ With(t, e) \in Octets
  <1>1. Append(t, e) = t \o <<e>>
    BY DEF Octets
  <1>2. Append(t, e) \in Seq(Int)
    BY AppendProperties DEF Octets
  <1> QED BY <1>1, <1>2 DEF With, Join, Octets

LEMMA AppendConcat ==
  ASSUME NEW s \in Octets, NEW t \in Octets, NEW e \in Int
  PROVE  With(Join(s, t), e) = Join(s, With(t, e))
  <1>1. Join(s, t) \in Octets
    BY OctetsJoined
  <1>2. With(Join(s, t), e) = Join(Join(s, t), <<e>>)
    BY <1>1, WithIsJoin
  <1>3. With(t, e) = Join(t, <<e>>)
    BY WithIsJoin
  <1>4. <<e>> \in Octets
    BY DEF Octets
  <1>5. Join(Join(s, t), <<e>>) = Join(s, Join(t, <<e>>))
    BY <1>4, OctetsAssociate
  <1> QED BY <1>2, <1>3, <1>5, Zenon

\* Indices past all of D are never left out.
LEMMA WithoutMore ==
  ASSUME NEW l \in Nat, NEW k \in Nat, NEW D, D \subseteq 1 .. l
  PROVE  IndexesIn(l + k, (1 .. (l + k)) \ D) = IndexesIn(l, (1 .. l) \ D) \o Following(l, k)
  <1> DEFINE S == (1 .. (l + k)) \ D
             a == IndexesIn(l, S)
             N == {j \in Nat : j <= k => IndexesIn(l + j, S) = a \o Following(l, j)}
  <1>a. PICK s \in Seq(Nat) : s = a
    BY IndexesType DEF Indexing
  <1>1. 0 \in N
    <2>1. l + 0 = l
      OBVIOUS
    <2>2. PICK f \in Seq(Nat) : f = Following(l, 0) /\ Len(f) = 0
      BY FollowingType
    <2>3. f = <<>>
      BY <2>2
    <2>4. s \o <<>> = s
      OBVIOUS
    <2> HIDE DEF a, S
    <2>5. IndexesIn(l + 0, S) = a \o Following(l, 0)
      BY <1>a, <2>1, <2>2, <2>3, <2>4 DEF a
    <2> QED BY <2>5
  <1>2. ASSUME NEW j \in Nat, j \in N PROVE j + 1 \in N
    <2> HIDE DEF a, S
    <2> SUFFICES ASSUME j + 1 <= k PROVE IndexesIn(l + (j + 1), S) = a \o Following(l, j + 1)
      BY SMTT(30)
    <2>0. j <= k
      OBVIOUS
    <2>1. IndexesIn(l + j, S) = a \o Following(l, j)
      BY <1>2, <2>0
    <2>2. PICK m \in Nat : m = l + j
      OBVIOUS
    <2>3. m + 1 = l + (j + 1) /\ m + 1 \in S
      BY <2>2 DEF S
    <2> HIDE DEF N
    <2>4. IndexesIn(m + 1, S) = Append(IndexesIn(m, S), m + 1)
      BY <2>3, IndexesNext
    <2>5. PICK e \in Nat : e = l + (j + 1)
      OBVIOUS
    <2>6. PICK f \in Seq(Nat) : f = Following(l, j)
      BY FollowingType
    <2>7. With(Join(s, f), e) = Join(s, With(f, e))
      <3>1. s \in Octets /\ f \in Octets /\ e \in Int
        BY DEF Octets
      <3> QED BY <3>1, AppendConcat
    <2>8. Following(l, j + 1) = Append(f, e)
      BY <2>5, <2>6, FollowingNext
    <2>9. IndexesIn(l + (j + 1), S) = Append(IndexesIn(m, S), e)
      BY <2>3, <2>4, <2>5
    <2>10. IndexesIn(m, S) = s \o f
      BY ONLY <1>a, <2>1, <2>2, <2>6
    <2> QED BY <1>a, <2>7, <2>8, <2>9, <2>10, Zenon DEF With, Join
  <1>3. Nat \subseteq N
    <2> HIDE DEF N
    <2> QED BY <1>1, <1>2, NumberInduction
  <1>4. IndexesIn(l + k, S) = a \o Following(l, k)
    <2>1. k \in N /\ k <= k
      <3> HIDE DEF N
      <3> QED BY <1>3
    <2> QED BY <2>1
  <1>5. a = IndexesIn(l, (1 .. l) \ D)
    <2>1. \A x \in 1 .. l : x \in S <=> x \in (1 .. l) \ D
      OBVIOUS
    <2> HIDE DEF S
    <2> QED BY <2>1, IndexesSame
  <1> QED BY <1>4, <1>5

-----------------------------------------------------------------------------
(* The oracle.                                                             *)

\* The inputs hashed so far, each once, no more than there are answers for.
Oracle(o) ==
  /\ \E S : o \in Seq(S)
  /\ Len(o) \in Nat
  /\ \A i, j \in 1 .. Len(o) : o[i] = o[j] => i = j

Enough(o) == Oracle(o) /\ Len(o) <= Len(Answers)

\* p knows all that o knows.
Extends(o, p) == Len(o) <= Len(p) /\ \A i \in 1 .. Len(o) : p[i] = o[i]

\* x was hashed, to y.
Knows(o, x, y) == x \in ToSet(o) /\ hash_to_scalar(o, x) = y

LEMMA OracleElements ==
  ASSUME NEW o, Oracle(o)
  PROVE  DOMAIN o = 1 .. Len(o) /\ ToSet(o) = {o[i] : i \in 1 .. Len(o)}
  <1>1. PICK S : o \in Seq(S)
    BY DEF Oracle
  <1>2. DOMAIN o = 1 .. Len(o)
    BY <1>1
  <1> QED BY <1>2 DEF ToSet

LEMMA NothingAsked == Oracle(<<>>) /\ Len(<<>>) = 0
  <1>1. <<>> \in Seq({}) /\ Len(<<>>) = 0
    OBVIOUS
  <1> QED BY <1>1 DEF Oracle

LEMMA AskType ==
  ASSUME NEW o, Oracle(o), NEW x
  PROVE  /\ Oracle(Ask(o, x)) /\ Extends(o, Ask(o, x))
         /\ x \in ToSet(Ask(o, x))
         /\ Len(Ask(o, x)) <= Len(o) + 1
  <1>1. CASE x \in ToSet(o)
    BY <1>1 DEF Ask, Extends, Oracle
  <1>2. CASE x \notin ToSet(o)
    <2>1. PICK S : o \in Seq(S)
      BY DEF Oracle
    <2> DEFINE T == S \cup {x}
    <2>2. o \in Seq(T) /\ x \in T
      <3>1. \A i \in 1 .. Len(o) : o[i] \in T
        BY <2>1
      <3> QED BY <2>1, <3>1
    <2> HIDE DEF T
    <2>3. PICK p \in Seq(T) : p = Append(o, x)
      BY <2>2, AppendProperties
    <2>4. PICK h \in Nat : h = Len(o)
      BY DEF Oracle
    <2>5. Len(p) = h + 1 /\ p[h + 1] = x /\ \A i \in 1 .. h : p[i] = o[i]
      BY <2>2, <2>3, <2>4, AppendProperties
    <2>6. \A i \in 1 .. h + 1 : i \in 1 .. h \/ i = h + 1
      OBVIOUS
    <2>7. \A i \in 1 .. h : o[i] # x
      BY <1>2, <2>4, OracleElements
    <2>8. ASSUME NEW i \in 1 .. h + 1, NEW j \in 1 .. h + 1, p[i] = p[j] PROVE i = j
      <3>1. CASE i \in 1 .. h /\ j \in 1 .. h
        BY <3>1, <2>4, <2>5, <2>8 DEF Oracle
      <3>2. CASE i = h + 1 \/ j = h + 1
        BY <3>2, <2>5, <2>6, <2>7, <2>8
      <3> QED BY <2>6, <3>1, <3>2
    <2>9. Oracle(p)
      BY <2>5, <2>8 DEF Oracle
    <2>10. h + 1 \in 1 .. h + 1 /\ h <= h + 1
      OBVIOUS
    <2>11. x \in ToSet(p)
      BY <2>5, <2>9, <2>10, OracleElements
    <2>12. Extends(o, p) /\ Len(p) <= Len(o) + 1
      BY <2>4, <2>5 DEF Extends
    <2>13. Ask(o, x) = p
      BY <1>2, <2>3 DEF Ask
    <2> QED BY <2>9, <2>11, <2>12, <2>13
  <1> QED BY <1>1, <1>2

LEMMA ExtendsAsked ==
  ASSUME NEW o, Oracle(o), NEW p, Oracle(p), Extends(o, p), NEW x \in ToSet(o)
  PROVE  x \in ToSet(p)
  <1>1. PICK i \in 1 .. Len(o) : o[i] = x
    BY OracleElements
  <1>2. i \in 1 .. Len(p) /\ p[i] = x
    BY <1>1 DEF Extends, Oracle
  <1> QED BY <1>2, OracleElements

LEMMA ExtendsTrans ==
  ASSUME NEW o, Oracle(o), NEW p, Oracle(p), NEW r, Oracle(r), Extends(o, p), Extends(p, r)
  PROVE  Extends(o, r)
  BY DEF Extends, Oracle

LEMMA HashAt ==
  ASSUME NEW o, Oracle(o), NEW i \in 1 .. Len(o)
  PROVE  hash_to_scalar(o, o[i]) = Answers[i] /\ o[i] \in ToSet(o)
  <1>1. DOMAIN o = 1 .. Len(o) /\ o[i] \in ToSet(o)
    BY OracleElements
  <1> DEFINE j == CHOOSE j \in DOMAIN o : o[j] = o[i]
  <1>2. j \in 1 .. Len(o) /\ o[j] = o[i]
    BY <1>1
  <1>3. j = i
    <2> HIDE DEF j
    <2> QED BY <1>2 DEF Oracle
  <1> QED BY <1>1, <1>3 DEF hash_to_scalar

LEMMA KnowsAt ==
  ASSUME NEW o, Oracle(o), NEW x, NEW y
  PROVE  Knows(o, x, y) <=> \E i \in 1 .. Len(o) : o[i] = x /\ Answers[i] = y
  <1>1. ASSUME Knows(o, x, y) PROVE \E i \in 1 .. Len(o) : o[i] = x /\ Answers[i] = y
    <2>1. PICK i \in 1 .. Len(o) : o[i] = x
      BY <1>1, OracleElements DEF Knows
    <2>2. hash_to_scalar(o, x) = Answers[i]
      BY <2>1, HashAt
    <2> QED BY <1>1, <2>1, <2>2 DEF Knows
  <1>2. ASSUME NEW i \in 1 .. Len(o), o[i] = x, Answers[i] = y PROVE Knows(o, x, y)
    BY <1>2, HashAt DEF Knows
  <1> QED BY <1>1, <1>2

\* What is known stays known.
LEMMA KnowsKept ==
  ASSUME NEW o, Oracle(o), NEW p, Oracle(p), Extends(o, p), NEW x, NEW y, Knows(o, x, y)
  PROVE  Knows(p, x, y)
  <1>1. PICK i \in 1 .. Len(o) : o[i] = x /\ Answers[i] = y
    BY KnowsAt
  <1>2. i \in 1 .. Len(p) /\ p[i] = x
    BY <1>1 DEF Extends, Oracle
  <1> QED BY <1>1, <1>2, KnowsAt

Answer == 2 .. (q - 1)

LEMMA AnswersType ==
  /\ Answers \in Seq(Answer) /\ Len(Answers) \in Nat
  /\ \A i \in 1 .. Len(Answers) : Answers[i] \in Answer
  /\ \A i, j \in 1 .. Len(Answers) : Answers[i] = Answers[j] => i = j
  /\ \A a \in Answer : a \in Scalar /\ a \in Int /\ a # 0 /\ a # 1 /\ a \in NotZero
  <1>1. Answers \in Seq(2 .. (q - 1)) /\ IsInjective(Answers)
    BY BlindSuiteAssumption
  <1>2. Answers \in Seq(Answer)
    BY <1>1 DEF Answer
  <1>3. Len(Answers) \in Nat /\ \A i \in 1 .. Len(Answers) : Answers[i] \in Answer
    BY <1>2
  <1>4. DOMAIN Answers = 1 .. Len(Answers)
    BY <1>2
  <1>5. \A i, j \in 1 .. Len(Answers) : Answers[i] = Answers[j] => i = j
    BY <1>1, <1>4 DEF IsInjective
  <1>6. \A a \in Answer : a \in Scalar /\ a \in Int /\ a # 0 /\ a # 1 /\ a \in NotZero
    BY OrderType DEF Answer, Scalar, NotZero
  <1> QED BY <1>2, <1>3, <1>5, <1>6

\* An answer that is known is that of no other input, asked or not.
LEMMA KnowsOnly ==
  ASSUME NEW o, Enough(o), NEW x, NEW y, Knows(o, x, y), NEW z, hash_to_scalar(o, z) = y
  PROVE  z = x
  <1>1. PICK i \in 1 .. Len(o) : o[i] = x /\ Answers[i] = y
    BY KnowsAt DEF Enough
  <1>2. i \in 1 .. Len(Answers)
    BY AnswersType DEF Enough, Oracle
  <1>3. y # 1
    BY <1>1, <1>2, AnswersType
  <1>4. z \in ToSet(o)
    BY <1>3 DEF hash_to_scalar
  <1>5. Knows(o, z, y)
    BY <1>4 DEF Knows
  <1>6. PICK j \in 1 .. Len(o) : o[j] = z /\ Answers[j] = y
    BY <1>5, KnowsAt DEF Enough
  <1>7. j \in 1 .. Len(Answers)
    BY AnswersType DEF Enough, Oracle
  <1>8. i = j
    BY <1>1, <1>2, <1>6, <1>7, AnswersType
  <1> QED BY <1>1, <1>6, <1>8

LEMMA HashType ==
  ASSUME NEW o, Enough(o), NEW x
  PROVE  /\ hash_to_scalar(o, x) \in Scalar /\ hash_to_scalar(o, x) \in Int
         /\ x \in ToSet(o) => hash_to_scalar(o, x) \in Answer /\ Knows(o, x, hash_to_scalar(o, x))
  <1>1. CASE x \in ToSet(o)
    <2>1. Knows(o, x, hash_to_scalar(o, x))
      BY <1>1 DEF Knows
    <2>2. PICK i \in 1 .. Len(o) : o[i] = x /\ Answers[i] = hash_to_scalar(o, x)
      BY <2>1, KnowsAt DEF Enough
    <2>3. i \in 1 .. Len(Answers)
      BY AnswersType DEF Enough, Oracle
    <2> QED BY <2>1, <2>2, <2>3, AnswersType
  <1>2. CASE x \notin ToSet(o)
    BY <1>2, OrderType DEF hash_to_scalar, Scalar
  <1> QED BY <1>1, <1>2

LEMMA KnowsType ==
  ASSUME NEW o, Enough(o), NEW x, NEW y, Knows(o, x, y)
  PROVE  y \in Answer /\ y \in Scalar /\ y \in Int /\ y # 0
  BY HashType, AnswersType DEF Knows

IsAsking(f, o, ins) == f = [n \in 0 .. Len(ins) |-> IF n = 0 THEN o ELSE Ask(f[n - 1], ins[n])]

LEMMA AskingExists ==
  ASSUME NEW o, NEW ins, NEW l \in Nat
  PROVE  \E f : f = [n \in 0 .. l |-> IF n = 0 THEN o ELSE Ask(f[n - 1], ins[n])]
  <1> DEFINE Is(f, k) == f = [n \in 0 .. k |-> IF n = 0 THEN o ELSE Ask(f[n - 1], ins[n])]
             N == {k \in Nat : \E f : Is(f, k)}
  <1>1. 0 \in N
    <2> DEFINE f == [n \in 0 .. 0 |-> o]
    <2>1. Is(f, 0)
      OBVIOUS
    <2> HIDE DEF Is
    <2> QED BY <2>1
  <1>2. ASSUME NEW k \in Nat, k \in N PROVE k + 1 \in N
    <2>1. PICK f : Is(f, k)
      BY <1>2
    <2> DEFINE next == Ask(f[k], ins[k + 1])
               g == [i \in 0 .. k + 1 |-> IF i <= k THEN f[i] ELSE next]
    <2>2. ASSUME NEW i \in 0 .. k + 1
          PROVE  g[i] = IF i = 0 THEN o ELSE Ask(g[i - 1], ins[i])
      <3> HIDE DEF next
      <3>1. CASE i <= k
        <4>1. i \in 0 .. k /\ (i # 0 => i - 1 \in 0 .. k)
          BY <3>1
        <4>2. f[i] = IF i = 0 THEN o ELSE Ask(f[i - 1], ins[i])
          BY <2>1, <4>1
        <4>3. g[i] = f[i] /\ (i # 0 => g[i - 1] = f[i - 1])
          BY <4>1
        <4> HIDE DEF g
        <4> QED BY <4>1, <4>2, <4>3
      <3>2. CASE i > k
        <4>1. i = k + 1 /\ i - 1 = k /\ i # 0 /\ k \in 0 .. k + 1 /\ ~ (i <= k)
          BY <3>2
        <4>2. g[i] = next /\ g[i - 1] = f[k]
          BY <4>1
        <4> HIDE DEF g
        <4> QED BY <4>1, <4>2 DEF next
      <3> QED BY <3>1, <3>2
    <2>3. Is(g, k + 1)
      <3>1. g = [i \in 0 .. k + 1 |-> g[i]]
        OBVIOUS
      <3> HIDE DEF g
      <3> QED BY <2>2, <3>1
    <2> HIDE DEF Is
    <2> QED BY <2>3
  <1>3. Nat \subseteq N
    <2> HIDE DEF N
    <2> QED BY <1>1, <1>2, NumberInduction
  <1> QED BY <1>3

\* Asking several inputs: each is known after, and nothing is forgotten.
LEMMA AskAllType ==
  ASSUME NEW o, Oracle(o), NEW ins, Len(ins) \in Nat
  PROVE  /\ Oracle(AskAll(o, ins)) /\ Extends(o, AskAll(o, ins))
         /\ Len(AskAll(o, ins)) <= Len(o) + Len(ins)
         /\ \A i \in 1 .. Len(ins) : ins[i] \in ToSet(AskAll(o, ins))
  <1> DEFINE f == CHOOSE f : IsAsking(f, o, ins)
             l == Len(ins)
             Good(p, k) == /\ Oracle(p) /\ Extends(o, p)
                           /\ Len(p) <= Len(o) + k
                           /\ \A i \in 1 .. k : ins[i] \in ToSet(p)
             N == {k \in Nat : k <= l => Good(f[k], k)}
  <1>1. IsAsking(f, o, ins)
    BY AskingExists, SMTT(40) DEF IsAsking
  <1>2. AskAll(o, ins) = f[l]
    BY DEF AskAll, IsAsking
  <1>3. \A k \in 0 .. l : f[k] = IF k = 0 THEN o ELSE Ask(f[k - 1], ins[k])
    BY <1>1 DEF IsAsking
  <1> HIDE DEF f
  <1>4. 0 \in N
    <2>1. f[0] = o
      BY <1>3
    <2>2. Good(o, 0)
      BY DEF Extends, Oracle
    <2> HIDE DEF Good
    <2> QED BY <2>1, <2>2
  <1>5. ASSUME NEW k \in Nat, k \in N PROVE k + 1 \in N
    <2> SUFFICES ASSUME k + 1 <= l PROVE Good(f[k + 1], k + 1)
      <3> HIDE DEF Good, l
      <3> QED BY SMTT(30)
    <2>1. PICK m \in 1 .. l : m = k + 1
      OBVIOUS
    <2>2. PICK p : p = f[k]
      OBVIOUS
    <2>3. Good(p, k)
      <3> HIDE DEF Good
      <3> QED BY <1>5, <2>2
    <2>4. f[m] = Ask(p, ins[m])
      BY <1>3, <2>1, <2>2
    <2>5. PICK r : r = Ask(p, ins[m])
      OBVIOUS
    <2>6. Oracle(r) /\ Extends(p, r) /\ ins[m] \in ToSet(r) /\ Len(r) <= Len(p) + 1
      BY <2>3, <2>5, AskType
    <2>7. Extends(o, r)
      BY <2>3, <2>6, ExtendsTrans
    <2>8. \A i \in 1 .. k : ins[i] \in ToSet(r)
      BY <2>3, <2>6, ExtendsAsked
    <2>9. Len(r) <= Len(o) + m
      BY <2>1, <2>3, <2>6 DEF Oracle
    <2>10. \A i \in 1 .. m : i \in 1 .. k \/ i = m
      BY <2>1
    <2>11. Good(r, m)
      BY <2>6, <2>7, <2>8, <2>9, <2>10
    <2> HIDE DEF Good
    <2> QED BY <2>1, <2>4, <2>5, <2>11
  <1>6. Nat \subseteq N
    <2> HIDE DEF N
    <2> QED BY <1>4, <1>5, NumberInduction
  <1>7. Good(f[l], l)
    <2>1. l \in N
      <3> HIDE DEF N
      <3> QED BY <1>6
    <2> HIDE DEF Good
    <2> QED BY <2>1
  <1> QED BY <1>2, <1>7

LEMMA AskOne ==
  ASSUME NEW o, Oracle(o), NEW x
  PROVE  /\ Oracle(AskAll(o, <<x>>)) /\ Extends(o, AskAll(o, <<x>>))
         /\ Len(AskAll(o, <<x>>)) <= Len(o) + 1
         /\ Knows(AskAll(o, <<x>>), x, hash_to_scalar(AskAll(o, <<x>>), x))
  <1>1. PICK ins : ins = <<x>>
    OBVIOUS
  <1>2. Len(ins) = 1 /\ ins[1] = x
    BY <1>1
  <1>3. ins[1] \in ToSet(AskAll(o, ins))
    <2>1. Len(ins) \in Nat /\ 1 \in 1 .. Len(ins)
      BY <1>2
    <2> QED BY <2>1, AskAllType, Zenon
  <1> QED BY <1>1, <1>2, <1>3, AskAllType DEF Knows

LEMMA AskTwo ==
  ASSUME NEW o, Oracle(o), NEW x, NEW y, NEW p, p = AskAll(o, <<x, y>>)
  PROVE  /\ Oracle(p) /\ Extends(o, p)
         /\ Len(p) <= Len(o) + 2
         /\ Knows(p, x, hash_to_scalar(p, x)) /\ Knows(p, y, hash_to_scalar(p, y))
  <1>1. PICK ins : ins = <<x, y>>
    OBVIOUS
  <1>2. Len(ins) = 2 /\ ins[1] = x /\ ins[2] = y
    BY <1>1
  <1>3. ins[1] \in ToSet(p) /\ ins[2] \in ToSet(p)
    <2>1. Len(ins) \in Nat /\ 1 \in 1 .. Len(ins) /\ 2 \in 1 .. Len(ins)
      BY <1>2
    <2> QED BY <1>1, <2>1, AskAllType, Zenon
  <1> QED BY <1>1, <1>2, <1>3, AskAllType DEF Knows

-----------------------------------------------------------------------------
(* The inductive invariant: how each result came about.                    *)

\* The generators of a commitment as core_commit_init reads them.
JsQ2(m) == Points("J", m) \o <<Generator("Q2", 1)>>
Opening(m, messages, blind) == sumprod(JsQ2(m), messages \o <<blind>>)
CommitGens(m, k) == blind_generators(m + 1) \o keybind_generators(k)

LEMMA JsQ2Type ==
  ASSUME NEW m \in Nat, NEW k \in Nat
  PROVE  /\ JsQ2(m) \in Seq(Point) /\ Len(JsQ2(m)) = m + 1
         /\ SubSeq(CommitGens(m, k), 2, m + 1) = Points("J", m)
         /\ CommitGens(m, k)[1] = Generator("Q2", 1)
         /\ \A i \in 1 .. k : CommitGens(m, k)[m + 1 + i] = Generator("HK", i)
  <1>1. PICK a \in Seq(Point) : a = blind_generators(m + 1) /\ Len(a) = m + 1 /\ a[1] = Generator("Q2", 1)
                                /\ \A i \in 1 .. m : a[i + 1] = Generator("J", i)
    <2>1. PICK a : a = Headed("Q2", "J", m)
      OBVIOUS
    <2>2. a = blind_generators(m + 1)
      BY <2>1, CreateIs
    <2> QED BY <2>1, <2>2, HeadedType
  <1>2. PICK b \in Seq(Point) : b = keybind_generators(k) /\ Len(b) = k /\ \A i \in 1 .. k : b[i] = Generator("HK", i)
    BY CreateIs, PointsType
  <1>3. PICK c \in Seq(Point) : c = a \o b
    BY ConcatProperties
  <1>4. CommitGens(m, k) = c
    BY <1>1, <1>2, <1>3 DEF CommitGens
  <1>5. Len(c) = (m + 1) + k
    <2>1. Len(a \o b) = Len(a) + Len(b)
      BY ConcatProperties
    <2> QED BY <2>1, <1>1, <1>2, <1>3
  <1>6. ASSUME NEW i \in 1 .. m + 1 PROVE c[i] = a[i]
    BY <1>1, <1>3, FirstPart
  <1>7. ASSUME NEW i \in 1 .. k PROVE c[m + 1 + i] = Generator("HK", i)
    <2>1. PICK h \in Nat : h = m + 1
      OBVIOUS
    <2>2. (a \o b)[h + i] = b[i]
      BY <1>1, <1>2, <2>1, SecondPart
    <2> QED BY <1>2, <1>3, <2>1, <2>2
  <1>8. PICK js \in Seq(Point) : js = Points("J", m) /\ Len(js) = m /\ \A i \in 1 .. m : js[i] = Generator("J", i)
    BY PointsType
  <1>9. SubSeq(c, 2, m + 1) = js
    <2>1. PICK s \in Seq(Point) : s = SubSeq(c, 2, m + 1) /\ Len(s) = m /\ \A i \in 1 .. m : s[i] = c[i + 1]
      <3>1. PICK h \in Nat : h = m + 1
        OBVIOUS
      <3>2. h <= Len(c)
        BY <1>5, <3>1
      <3>3. /\ SubSeq(c, 2, h) \in Seq(Point)
            /\ Len(SubSeq(c, 2, h)) = IF 2 <= h THEN h - 2 + 1 ELSE 0
            /\ \A i \in 1 .. h - 2 + 1 : SubSeq(c, 2, h)[i] = c[2 + i - 1]
        <4>1. \A i \in 2 .. h : i \in 1 .. Len(c)
          BY <3>2
        <4> QED BY <4>1, SubSeqProperties
      <3>4. \A i \in 1 .. m : i \in 1 .. h - 2 + 1 /\ 2 + i - 1 = i + 1
        BY <3>1
      <3>5. m = IF 2 <= h THEN h - 2 + 1 ELSE 0
        BY <3>1
      <3>6. PICK s \in Seq(Point) : s = SubSeq(c, 2, h)
        BY <3>3
      <3>7. Len(s) = m
        BY ONLY <3>3, <3>5, <3>6
      <3>8. \A i \in 1 .. m : s[i] = c[i + 1]
        BY <3>3, <3>4, <3>6
      <3> QED BY <3>1, <3>6, <3>7, <3>8
    <2>2. \A i \in 1 .. m : s[i] = js[i]
      <3>1. \A i \in 1 .. m : i + 1 \in 1 .. m + 1
        OBVIOUS
      <3> QED BY <1>1, <1>6, <1>8, <2>1, <3>1
    <2>3. s = js
      BY <1>8, <2>1, <2>2
    <2> QED BY <2>1, <2>3
  <1>10. JsQ2(m) \in Seq(Point) /\ Len(JsQ2(m)) = m + 1
    <2>1. PICK w \in Point : w = Generator("Q2", 1)
      BY GeneratorAt
    <2>2. <<w>> \in Seq(Point) /\ Len(<<w>>) = 1
      OBVIOUS
    <2>3. js \o <<w>> \in Seq(Point) /\ Len(js \o <<w>>) = Len(js) + Len(<<w>>)
      BY <2>2, ConcatProperties
    <2> QED BY <1>8, <2>1, <2>2, <2>3 DEF JsQ2
  <1>11. c[1] = a[1]
    <2>1. 1 \in 1 .. m + 1
      OBVIOUS
    <2> QED BY <1>6, <2>1
  <1> QED BY <1>1, <1>4, <1>7, <1>8, <1>9, <1>10, <1>11

\* What commit_init returned, for messages and keys, o knowing the challenge.
Opened(m, k, messages, keys, cm, o) ==
  /\ cm.randoms \in Seq(NotZero) /\ Len(cm.randoms) = m + 2
  /\ cm.secret_prover_blind = cm.randoms[1]
  /\ cm.c = Opening(m, messages, cm.randoms[1])
  /\ cm.s_hat = (cm.randoms[2] + cm.randoms[1] * cm.challenge) % q
  /\ cm.m_hat = [i \in 1 .. m |-> (cm.randoms[2 + i] + messages[i] * cm.challenge) % q]
  /\ Knows(o, BlindInput(cm.c, Opening(m, SubSeq(cm.randoms, 3, m + 2), cm.randoms[2]), CommitGens(m, k), keys),
           cm.challenge)

\* Each position was answered by its signer, under a nonce of its own.
DeviceAnswers(k, st, signers, nonces, messages, sigs, o) ==
  /\ Len(sigs) = k /\ DOMAIN sigs = 1 .. k
  /\ \A i \in 1 .. k : /\ nonces[i] \in NotZero
                       /\ sigs[i].s = (nonces[i] + st[1 + signers[i]] * sigs[i].c) % q
                       /\ Knows(o, NonceInput(signers[i], nonces[i], messages[i]), sigs[i].c)

LEMMA DeviceAnswersKept ==
  ASSUME NEW k, NEW st, NEW signers, NEW nonces, NEW messages, NEW sigs, NEW o, NEW p,
         DeviceAnswers(k, st, signers, nonces, messages, sigs, o), Oracle(o), Oracle(p), Extends(o, p)
  PROVE  DeviceAnswers(k, st, signers, nonces, messages, sigs, p)
  BY KnowsKept DEF DeviceAnswers

LEMMA SignType ==
  ASSUME Case, drawn \in Nat, Oracle(asked), NEW k \in Nat, NEW signers \in [1 .. k -> Positions], NEW messages
  PROVE  /\ Oracle(Sign(signers, messages).oracle) /\ Extends(asked, Sign(signers, messages).oracle)
         /\ Len(Sign(signers, messages).oracle) <= Len(asked) + k
         /\ DeviceAnswers(k, stream, signers, Sign(signers, messages).nonces, messages,
                          Sign(signers, messages).sigs, Sign(signers, messages).oracle)
  <1>1. Len(signers) = k
    OBVIOUS
  <1>2. PICK nonces \in Seq(NotZero) : nonces = calculate(k) /\ Len(nonces) = k
    BY calculateType
  <1>3. PICK ins : ins = [i \in 1 .. k |-> NonceInput(signers[i], nonces[i], messages[i])]
    OBVIOUS
  <1>4. Len(ins) = k /\ \A i \in 1 .. k : ins[i] = NonceInput(signers[i], nonces[i], messages[i])
    BY <1>3
  <1>5. PICK o : o = AskAll(asked, ins)
    OBVIOUS
  <1>6. Oracle(o) /\ Extends(asked, o) /\ Len(o) <= Len(asked) + k /\ \A i \in 1 .. k : ins[i] \in ToSet(o)
    BY <1>4, <1>5, AskAllType
  <1>7. PICK sigs : sigs = [i \in 1 .. k |-> sign(o, signers[i], nonces[i], messages[i])]
    OBVIOUS
  <1>8. Sign(signers, messages) = [oracle |-> o, nonces |-> nonces, sigs |-> sigs]
    BY <1>1, <1>2, <1>3, <1>5, <1>7, Zenon DEF Sign
  <1>9. Len(sigs) = k /\ DOMAIN sigs = 1 .. k
    BY <1>7
  <1>10. ASSUME NEW i \in 1 .. k
         PROVE  /\ nonces[i] \in NotZero
                /\ sigs[i].s = (nonces[i] + stream[1 + signers[i]] * sigs[i].c) % q
                /\ Knows(o, NonceInput(signers[i], nonces[i], messages[i]), sigs[i].c)
    <2>1. nonces[i] \in NotZero
      BY <1>2
    <2>2. sigs[i] = sign(o, signers[i], nonces[i], messages[i])
      BY <1>7
    <2>3. PICK c : c = hash_to_scalar(o, NonceInput(signers[i], nonces[i], messages[i]))
      OBVIOUS
    <2>4. Knows(o, NonceInput(signers[i], nonces[i], messages[i]), c)
      BY <1>4, <1>6, <2>3 DEF Knows
    <2>5. sigs[i] = [s |-> (nonces[i] + stream[1 + signers[i]] * c) % q, c |-> c]
      BY <2>2, <2>3, Zenon DEF sign, DeviceKey
    <2>6. sigs[i].c = c /\ sigs[i].s = (nonces[i] + stream[1 + signers[i]] * c) % q
      BY <2>5
    <2> QED BY <2>1, <2>4, <2>6
  <1>11. DeviceAnswers(k, stream, signers, nonces, messages, sigs, o)
    BY <1>9, <1>10 DEF DeviceAnswers
  <1> QED BY <1>6, <1>8, <1>11

LEMMA RandomsMiddle ==
  ASSUME NEW m \in Nat, NEW h \in Nat, NEW n \in Nat, NEW T, NEW r \in Seq(T), h + m <= Len(r), n = h + m
  PROVE  /\ SubSeq(r, h + 1, n) \in Seq(T) /\ Len(SubSeq(r, h + 1, n)) = m
         /\ \A i \in 1 .. m : SubSeq(r, h + 1, n)[i] = r[h + i]
  <1>1. PICK f \in Nat : f = h + 1
    OBVIOUS
  <1>2. /\ SubSeq(r, f, n) \in Seq(T)
        /\ Len(SubSeq(r, f, n)) = IF f <= n THEN n - f + 1 ELSE 0
        /\ \A i \in 1 .. n - f + 1 : SubSeq(r, f, n)[i] = r[f + i - 1]
    <2>1. \A i \in f .. n : i \in 1 .. Len(r)
      BY <1>1
    <2> QED BY <2>1, SubSeqProperties
  <1>3. \A i \in 1 .. m : i \in 1 .. n - f + 1 /\ f + i - 1 = h + i
    BY <1>1
  <1>4. m = IF f <= n THEN n - f + 1 ELSE 0
    BY <1>1
  <1>5. PICK s \in Seq(T) : s = SubSeq(r, f, n)
    BY <1>2
  <1>6. Len(s) = m
    BY ONLY <1>2, <1>4, <1>5
  <1>7. \A i \in 1 .. m : s[i] = r[h + i]
    BY <1>2, <1>3, <1>5
  <1> QED BY <1>1, <1>5, <1>6, <1>7

LEMMA CommitInitIs ==
  ASSUME Case, drawn \in Nat, Oracle(asked), CommitInit
  PROVE  /\ Opened(shape.committed, shape.keys, Committed, Fresh, commit', asked')
         /\ Oracle(asked') /\ Extends(asked, asked') /\ Len(asked') <= Len(asked) + 1
         /\ drawn' = drawn + shape.committed + 2
         /\ commit' # NotYet
  <1>1. PICK m \in Nat : m = shape.committed
    BY ShapeAt
  <1>2. PICK k \in Nat : k = shape.keys
    BY ShapeAt
  <1>3. PICK r \in Seq(NotZero) : r = calculate(m + 2) /\ Len(r) = m + 2
    BY calculateType
  <1>4. PICK ms : ms = Committed
    OBVIOUS
  <1>5. PICK mt : mt = SubSeq(r, 3, m + 2)
    OBVIOUS
  <1>6. \A i \in 1 .. m : mt[i] = r[2 + i]
    <2>1. PICK n \in Nat : n = m + 2
      OBVIOUS
    <2>2. n = 2 + m /\ 2 + m <= Len(r)
      BY <1>3, <2>1
    <2>3. \A i \in 1 .. m : SubSeq(r, 2 + 1, n)[i] = r[2 + i]
      BY <2>2, RandomsMiddle
    <2>4. 2 + 1 = 3
      OBVIOUS
    <2> QED BY <1>5, <2>1, <2>3, <2>4
  <1>7. CommitGenerators = CommitGens(m, k)
    BY <1>1, <1>2 DEF CommitGenerators, CommitGens
  <1>8. SubSeq(CommitGenerators, 2, m + 1) \o <<CommitGenerators[1]>> = JsQ2(m)
    BY <1>7, JsQ2Type, Zenon DEF JsQ2
  <1>9. PICK c : c = Opening(m, ms, r[1])
    OBVIOUS
  <1>10. PICK x : x = BlindInput(c, Opening(m, mt, r[2]), CommitGens(m, k), Fresh)
    OBVIOUS
  <1>11. PICK o : o = AskAll(asked, <<x>>)
    OBVIOUS
  <1>12. PICK h : h = hash_to_scalar(o, x)
    OBVIOUS
  <1>13. /\ asked' = o
         /\ drawn' = drawn + m + 2
         /\ commit' = [c |-> c, randoms |-> r, secret_prover_blind |-> r[1], challenge |-> h,
                       s_hat |-> (r[2] + r[1] * h) % q,
                       m_hat |-> [i \in 1 .. m |-> (mt[i] + ms[i] * h) % q]]
    <2> DEFINE js == SubSeq(CommitGenerators, 2, shape.committed + 1) \o <<CommitGenerators[1]>>
               rs == calculate(shape.committed + 2)
               t == SubSeq(rs, 3, shape.committed + 2)
               cc == sumprod(js, Committed \o <<rs[1]>>)
               cbar == sumprod(js, t \o <<rs[2]>>)
               input == BlindInput(cc, cbar, CommitGenerators, Fresh)
               hh == hash_to_scalar(AskAll(asked, <<input>>), input)
    <2>1. /\ asked' = AskAll(asked, <<input>>)
          /\ drawn' = drawn + shape.committed + 2
          /\ commit' = [c |-> cc, randoms |-> rs, secret_prover_blind |-> rs[1], challenge |-> hh,
                        s_hat |-> (rs[2] + rs[1] * hh) % q,
                        m_hat |-> [i \in 1 .. shape.committed |-> (t[i] + Committed[i] * hh) % q]]
      BY Zenon DEF CommitInit
    <2>2. js = JsQ2(m) /\ rs = r
      BY <1>1, <1>3, <1>8, Zenon
    <2> HIDE DEF js, rs
    <2>3. t = mt
      BY <1>1, <1>5, <2>2, Zenon
    <2>4. cc = c
      BY <1>4, <1>9, <2>2, Zenon DEF Opening
    <2> HIDE DEF t
    <2>5. cbar = Opening(m, mt, r[2])
      BY <2>2, <2>3, Zenon DEF Opening
    <2> HIDE DEF cc, cbar
    <2>6. input = x
      BY <1>7, <1>10, <2>4, <2>5, Zenon
    <2> HIDE DEF input
    <2>7. hh = h
      BY <1>11, <1>12, <2>6, Zenon
    <2> HIDE DEF hh
    <2> QED BY <1>1, <1>4, <1>11, <2>1, <2>2, <2>3, <2>4, <2>6, <2>7, Zenon
  <1>14. Oracle(o) /\ Extends(asked, o) /\ Len(o) <= Len(asked) + 1 /\ Knows(o, x, h)
    BY <1>11, <1>12, AskOne
  <1>15. [i \in 1 .. m |-> (mt[i] + ms[i] * h) % q] = [i \in 1 .. m |-> (r[2 + i] + ms[i] * h) % q]
    BY <1>6
  <1>16. Opened(m, k, ms, Fresh, commit', o)
    <2>1. PICK cm : cm = commit'
      OBVIOUS
    <2>2. /\ cm.c = c /\ cm.randoms = r /\ cm.secret_prover_blind = r[1] /\ cm.challenge = h
          /\ cm.s_hat = (r[2] + r[1] * h) % q
          /\ cm.m_hat = [i \in 1 .. m |-> (r[2 + i] + ms[i] * h) % q]
      BY <1>13, <1>15, <2>1
    <2>3. Opened(m, k, ms, Fresh, cm, o)
      BY <1>3, <1>5, <1>9, <1>10, <1>14, <2>2, Zenon DEF Opened
    <2> QED BY <2>1, <2>3
  <1>17. commit' # NotYet
    BY <1>13 DEF NotYet
  <1> QED BY <1>1, <1>2, <1>4, <1>13, <1>14, <1>16, <1>17

\* What commit_finalize returned, of the commitment cm.
Requested(k, st, keys, cm, rq, o) ==
  /\ rq.c = cm.c /\ rq.keys = keys /\ rq.s_hat = cm.s_hat /\ rq.m_hat = cm.m_hat /\ rq.challenge = cm.challenge
  /\ rq.signers \in [1 .. k -> 1 .. k]
  /\ DeviceAnswers(k, st, rq.signers, rq.nonces, [i \in 1 .. k |-> <<cm.challenge>>], rq.sigs, o)

LEMMA CommitFinalizeIs ==
  ASSUME Case, drawn \in Nat, Oracle(asked), NEW signers \in [Positions -> Positions], CommitFinalize(signers)
  PROVE  /\ Oracle(asked') /\ Extends(asked, asked') /\ Len(asked') <= Len(asked) + shape.keys
         /\ drawn' = drawn + shape.keys
         /\ request' # NotYet
         /\ request' # Refused => Requested(shape.keys, stream, Fresh, commit, request', asked')
  <1>1. PICK k \in Nat : k = shape.keys
    BY ShapeAt
  <1>2. signers \in [1 .. k -> Positions] /\ Positions = 1 .. k
    BY <1>1 DEF Positions
  <1> DEFINE answers == Sign(signers, [i \in 1 .. shape.keys |-> <<commit.challenge>>])
  <1>3. PICK ms : ms = [i \in 1 .. k |-> <<commit.challenge>>]
    OBVIOUS
  <1>4. PICK a : a = answers
    OBVIOUS
  <1>5. a = Sign(signers, ms)
    BY <1>1, <1>3, <1>4, Zenon
  <1>6. /\ Oracle(a.oracle) /\ Extends(asked, a.oracle) /\ Len(a.oracle) <= Len(asked) + k
        /\ DeviceAnswers(k, stream, signers, a.nonces, ms, a.sigs, a.oracle)
    BY <1>2, <1>5, SignType
  <1>7. /\ asked' = a.oracle
        /\ drawn' = drawn + k
        /\ \/ request' = Refused
           \/ request' = [c |-> commit.c, keys |-> Fresh, s_hat |-> commit.s_hat,
                          m_hat |-> commit.m_hat, challenge |-> commit.challenge,
                          sigs |-> a.sigs, signers |-> signers, nonces |-> a.nonces]
    BY <1>1, <1>4, Zenon DEF CommitFinalize
  <1> HIDE DEF answers
  <1>8. CASE request' = Refused
    <2>1. request' # NotYet
      BY <1>8 DEF NotYet, Refused
    <2> QED BY <1>1, <1>6, <1>7, <1>8, <2>1
  <1>9. ASSUME request' = [c |-> commit.c, keys |-> Fresh, s_hat |-> commit.s_hat,
                           m_hat |-> commit.m_hat, challenge |-> commit.challenge,
                           sigs |-> a.sigs, signers |-> signers, nonces |-> a.nonces]
        PROVE  request' # NotYet /\ Requested(k, stream, Fresh, commit, request', asked')
    <2>1. PICK rq : rq = request'
      OBVIOUS
    <2>2. /\ rq.c = commit.c /\ rq.keys = Fresh /\ rq.s_hat = commit.s_hat /\ rq.m_hat = commit.m_hat
          /\ rq.challenge = commit.challenge
          /\ rq.sigs = a.sigs /\ rq.signers = signers /\ rq.nonces = a.nonces
      BY <1>9, <2>1
    <2>3. Requested(k, stream, Fresh, commit, rq, a.oracle)
      BY <1>2, <1>3, <1>6, <2>2, Zenon DEF Requested
    <2>4. request' # NotYet
      BY <1>9 DEF NotYet
    <2> QED BY <1>7, <2>1, <2>3, <2>4
  <1> QED BY <1>1, <1>6, <1>7, <1>8, <1>9

-----------------------------------------------------------------------------
(* The answers of devices.                                                 *)

LEMMA KeyCoordinate ==
  ASSUME Case, NEW i \in Positions
  PROVE  \E b \in 1 .. Dim : \A j \in Positions : Generator("HK", j)[b] = IF j = i THEN 1 ELSE 0
  <1>1. i \in 1 .. SizeOf("HK")
    <2>1. SizeOf("HK") = Largest("keys") /\ Largest("keys") \in Int
      BY LargestType DEF SizeOf, Fields
    <2> QED BY <2>1, ShapeAt DEF Positions
  <1>2. "HK" \in Names
    BY DEF Names
  <1>3. PICK b \in 1 .. Dim : Basis[b] = <<"HK", i>>
    BY <1>1, <1>2, BasisHas
  <1>4. \A j \in Positions : Generator("HK", j)[b] = IF j = i THEN 1 ELSE 0
    BY <1>3, GeneratorAt
  <1> QED BY <1>4

\* Both sides of a device's equation at a coordinate.
LEMMA EquationAt ==
  ASSUME Case, NEW i \in Positions, NEW k \in Positions, NEW g \in Positions, NEW nonce \in Int,
         NEW c \in Int, NEW s \in Int, NEW b \in 1 .. Dim
  PROVE  /\ Plus(Times(Generator("HK", i), s), Times(DevicePoint(k), Minus(0, c))) \in Point
         /\ Times(Generator("HK", g), nonce) \in Point
         /\ Cong(Plus(Times(Generator("HK", i), s), Times(DevicePoint(k), Minus(0, c)))[b],
                 Generator("HK", i)[b] * s + (Generator("HK", k)[b] * DeviceKey(k)) * (-c))
         /\ Cong(Times(Generator("HK", g), nonce)[b], Generator("HK", g)[b] * nonce)
  <1>a. PICK u \in Int : u = Generator("HK", i)[b]
    BY GeneratorAt
  <1>b. PICK v \in Int : v = Generator("HK", k)[b]
    BY GeneratorAt
  <1>c. PICK w \in Int : w = Generator("HK", g)[b]
    BY GeneratorAt
  <1>1. PICK d \in Int : d = DeviceKey(k)
    BY ScalarsDrawn, NotZeroIsScalar
  <1>2. PICK x \in Point : x = Generator("HK", i)
    BY GeneratorAt
  <1>3. PICK y \in Point : y = Generator("HK", k)
    BY GeneratorAt
  <1>4. PICK z \in Point : z = Generator("HK", g)
    BY GeneratorAt
  <1>5. PICK t \in Int : t = Minus(0, c) /\ Cong(t, -c)
    <2>1. -c \in Int /\ 0 - c = -c
      OBVIOUS
    <2>2. (-c) % q \in Int /\ Cong((-c) % q, -c)
      BY <2>1, CongMod, Remainder
    <2> QED BY <2>1, <2>2 DEF Minus
  <1>6. PICK yd \in Point : yd = Times(y, d) /\ Cong(yd[b], v * d)
    BY <1>b, <1>3, TimesAt, TimesCong
  <1>7. DevicePoint(k) = yd
    BY <1>1, <1>3, <1>6 DEF DevicePoint
  <1>8. PICK xs \in Point : xs = Times(x, s) /\ Cong(xs[b], u * s) /\ xs[b] \in Int
    <2>1. PICK p \in Point : p = Times(x, s)
      BY TimesAt
    <2>2. p[b] \in Int /\ Cong(p[b], x[b] * s)
      BY <2>1, TimesCong, Zenon
    <2>3. x[b] = u
      BY <1>a, <1>2
    <2>4. Cong(p[b], u * s)
      BY <2>2, <2>3, Zenon
    <2> QED BY <2>1, <2>2, <2>4, Zenon
  <1>9. PICK yt \in Point : yt = Times(yd, t) /\ Cong(yt[b], yd[b] * t) /\ yt[b] \in Int
    <2>1. PICK p \in Point : p = Times(yd, t)
      BY TimesAt
    <2>2. p[b] \in Int /\ Cong(p[b], yd[b] * t)
      BY <2>1, TimesCong, Zenon
    <2> QED BY <2>1, <2>2, Zenon
  <1>10. Plus(xs, yt) \in Point /\ Plus(xs, yt)[b] \in Int /\ Cong(Plus(xs, yt)[b], xs[b] + yt[b])
    BY PlusAt, PlusCong
  <1>11. PICK e \in Int : e = v * d
    OBVIOUS
  <1>12. PICK f \in Int : f = u * s
    OBVIOUS
  <1>13. PICK h \in Int : h = e * (-c)
    OBVIOUS
  <1>14. yd[b] \in Int
    BY PointType
  <1>15. PICK r \in Int : r = yd[b] * t
    BY <1>14
  <1>16. -c \in Int
    OBVIOUS
  <1>17. Cong(r, h)
    BY <1>5, <1>6, <1>11, <1>13, <1>14, <1>15, <1>16, CongMul
  <1>18. Cong(yt[b], h)
    BY <1>9, <1>15, <1>17, CongTrans
  <1>19. Cong(xs[b] + yt[b], f + h)
    BY <1>8, <1>9, <1>12, <1>18, CongAdd
  <1>20. Cong(Plus(xs, yt)[b], f + h)
    <2>1. xs[b] + yt[b] \in Int /\ f + h \in Int
      BY <1>8, <1>9
    <2> QED BY <1>10, <1>19, <2>1, CongTrans
  <1>21. Times(z, nonce) \in Point /\ Cong(Times(z, nonce)[b], w * nonce)
    BY <1>c, <1>4, TimesAt, TimesCong
  <1> QED BY <1>a, <1>b, <1>c, <1>1, <1>2, <1>4, <1>5, <1>7, <1>8, <1>9, <1>10, <1>11, <1>12, <1>13, <1>20, <1>21

\* The equation that schnorr_verify checks of the answer s of device g under a
\* nonce, at position i for the key of device k.
LEMMA DeviceEquation ==
  ASSUME Case, NEW i \in Positions, NEW k \in Positions, NEW g \in Positions, NEW nonce \in NotZero,
         NEW c \in Answer, NEW s \in Scalar, s = (nonce + DeviceKey(g) * c) % q
  PROVE  Plus(Times(Generator("HK", i), s), Times(DevicePoint(k), Minus(0, c))) = Times(Generator("HK", g), nonce)
           <=> g = k /\ (k = i \/ s = 0)
  <1> DEFINE left == Plus(Times(Generator("HK", i), s), Times(DevicePoint(k), Minus(0, c)))
             right == Times(Generator("HK", g), nonce)
  <1>0. c \in Int /\ s \in Int /\ nonce \in Int /\ c \in NotZero
    BY AnswersType, NotZeroIsScalar, ScalarType
  <1>1. PICK dk \in NotZero : dk = DeviceKey(k)
    BY ScalarsDrawn
  <1>2. PICK dg \in NotZero : dg = DeviceKey(g)
    BY ScalarsDrawn
  <1>3. dk \in Int /\ dg \in Int
    BY NotZeroIsScalar
  <1>4. PICK m \in Int : m = dg * c
    BY <1>0, <1>3
  <1>5. Cong(s, nonce + m)
    <2>1. nonce + m \in Int
      BY <1>0
    <2> QED BY <1>0, <1>2, <1>4, <2>1, CongMod
  <1>6. PICK n \in Int : n = dk * (-c)
    BY <1>0, <1>3
  <1>7. left \in Point /\ right \in Point
    <2>1. \E b \in 1 .. Dim : TRUE
      BY KeyCoordinate
    <2>2. PICK b \in 1 .. Dim : TRUE
      BY <2>1
    <2> QED BY <1>0, <2>2, EquationAt
  <1>8. ASSUME NEW b \in 1 .. Dim, NEW u \in {0, 1}, u = Generator("HK", i)[b],
               NEW v \in {0, 1}, v = Generator("HK", k)[b], NEW w \in {0, 1}, w = Generator("HK", g)[b]
        PROVE  Cong(left[b], u * s + v * n) /\ Cong(right[b], w * nonce)
    <2>1. u \in Int /\ v \in Int /\ w \in Int
      OBVIOUS
    <2>2. Cong(left[b], u * s + (v * dk) * (-c)) /\ Cong(right[b], w * nonce)
      <3>1. /\ Cong(left[b], Generator("HK", i)[b] * s + (Generator("HK", k)[b] * DeviceKey(k)) * (-c))
            /\ Cong(right[b], Generator("HK", g)[b] * nonce)
        BY <1>0, EquationAt
      <3> HIDE DEF left, right
      <3> QED BY <1>1, <1>8, <3>1, Zenon
    <2>3. (v * dk) * (-c) = v * n
      <3>1. CASE v = 0
        BY <3>1, <1>3, <1>0
      <3>2. CASE v = 1
        BY <3>2, <1>3, <1>6, <1>0
      <3> QED BY <3>1, <3>2
    <2> QED BY <2>2, <2>3
  <1> HIDE DEF left, right
  <1>9. ASSUME NEW j \in Positions, left = right
        PROVE  Cong((IF i = j THEN s ELSE 0) + (IF k = j THEN n ELSE 0), IF g = j THEN nonce ELSE 0)
    <2>1. PICK b \in 1 .. Dim : \A h \in Positions : Generator("HK", h)[b] = IF h = j THEN 1 ELSE 0
      BY KeyCoordinate
    <2>2. PICK u \in {0, 1} : u = Generator("HK", i)[b] /\ u = IF i = j THEN 1 ELSE 0
      BY <2>1
    <2>3. PICK v \in {0, 1} : v = Generator("HK", k)[b] /\ v = IF k = j THEN 1 ELSE 0
      BY <2>1
    <2>4. PICK w \in {0, 1} : w = Generator("HK", g)[b] /\ w = IF g = j THEN 1 ELSE 0
      BY <2>1
    <2>5. Cong(left[b], u * s + v * n) /\ Cong(right[b], w * nonce)
      BY <1>8, <2>2, <2>3, <2>4
    <2>6. PICK x \in Int : x = left[b]
      BY <1>7, PointType
    <2>7. PICK y \in Int : y = u * s + v * n /\ y = (IF i = j THEN s ELSE 0) + (IF k = j THEN n ELSE 0)
      BY <1>0, <2>2, <2>3
    <2>8. PICK z \in Int : z = w * nonce /\ z = IF g = j THEN nonce ELSE 0
      BY <1>0, <2>4
    <2>9. Cong(x, y) /\ Cong(x, z)
      BY <1>9, <2>5, <2>6, <2>7, <2>8
    <2>10. Cong(y, z)
      BY <2>9, CongSym, CongTrans
    <2> QED BY <2>7, <2>8, <2>10
  <1>10. nonce \in Scalar /\ ~ Cong(0, nonce) /\ ~ Cong(n, 0)
    <2>1. nonce \in Scalar /\ 0 \in Scalar /\ nonce # 0
      BY NotZeroIsScalar, OrderType DEF Scalar
    <2>2. ~ Cong(0, nonce)
      BY <2>1, CongScalar
    <2>3. ASSUME Cong(n, 0) PROVE FALSE
      <3>1. dk \in 1 .. (q - 1)
        BY DEF NotZero
      <3>2. -c \in Int /\ Cong(dk * (-c), 0)
        BY <1>0, <1>6, <2>3
      <3>3. Cong(-c, 0)
        BY <3>1, <3>2, NoZeroDivisors
      <3>4. Cong(c, 0)
        <4>1. PICK a \in Int : -c = 0 + a * q
          BY <3>3 DEF Cong
        <4>2. PICK e \in Int : e = -a
          OBVIOUS
        <4>3. c = 0 + e * q
          BY <1>0, <4>1, <4>2, OrderType
        <4> QED BY <4>3 DEF Cong
      <3>5. c \in Scalar /\ c # 0
        BY AnswersType
      <3> QED BY <2>1, <3>4, <3>5, CongScalar
    <2> QED BY <2>1, <2>2, <2>3
  <1>11. ASSUME left = right PROVE g = k /\ (k = i \/ s = 0)
    <2>1. g = k
      <3> SUFFICES ASSUME g # k PROVE FALSE
        OBVIOUS
      <3>1. Cong((IF i = k THEN s ELSE 0) + n, 0)
        BY <1>9, <1>11
      <3>2. Cong((IF i = g THEN s ELSE 0) + 0, nonce)
        BY <1>9, <1>11
      <3>3. CASE i = k
        <4>1. (IF i = g THEN s ELSE 0) + 0 = 0
          BY <3>3
        <4> QED BY <3>2, <4>1, <1>10
      <3>4. CASE i # k
        <4>1. (IF i = k THEN s ELSE 0) + n = n
          BY <3>4
        <4> QED BY <3>1, <4>1, <1>10
      <3> QED BY <3>3, <3>4
    <2>2. k = i \/ s = 0
      <3> SUFFICES ASSUME k # i PROVE s = 0
        OBVIOUS
      <3>1. Cong(s + 0, 0)
        BY <1>9, <1>11, <2>1
      <3>2. s + 0 = s
        BY <1>0
      <3>3. 0 \in Scalar
        BY OrderType DEF Scalar
      <3> QED BY <3>1, <3>2, <3>3, CongScalar
    <2> QED BY <2>1, <2>2
  <1>12. ASSUME g = k, k = i \/ s = 0 PROVE left = right
    <2>1. ASSUME NEW b \in 1 .. Dim PROVE Cong(left[b], right[b])
      <3>1. PICK u \in {0, 1} : u = Generator("HK", i)[b]
        BY GeneratorAt
      <3>2. PICK v \in {0, 1} : v = Generator("HK", k)[b]
        BY GeneratorAt
      <3>3. Cong(left[b], u * s + v * n) /\ Cong(right[b], v * nonce)
        BY <1>8, <1>12, <3>1, <3>2
      <3>4. PICK x \in Int : x = left[b]
        BY <1>7, PointType
      <3>5. PICK y \in Int : y = right[b]
        BY <1>7, PointType
      <3>6. PICK z \in Int : z = u * s + v * n
        BY <1>0
      <3>7. PICK t \in Int : t = v * nonce
        BY <1>0
      <3>8. Cong(z, t)
        <4>1. n = -m
          BY <1>0, <1>1, <1>2, <1>3, <1>4, <1>6, <1>12
        <4>2. PICK a \in Int : s = nonce + m + a * q
          BY <1>5 DEF Cong
        <4>3. CASE v = 0
          <5>1. z = 0 /\ t = 0
            <6>1. CASE k = i
              BY <6>1, <4>3, <3>1, <3>2, <3>6, <3>7, <1>0
            <6>2. CASE s = 0
              BY <6>2, <4>3, <3>1, <3>6, <3>7, <1>0
            <6> QED BY <1>12, <6>1, <6>2
          <5> QED BY <5>1, CongRefl
        <4>4. CASE v = 1
          <5>1. z = s - m /\ t = nonce
            <6>1. CASE k = i
              BY <6>1, <4>1, <4>4, <3>1, <3>2, <3>6, <3>7, <1>0
            <6>2. CASE s = 0
              BY <6>2, <4>1, <4>4, <3>1, <3>6, <3>7, <1>0
            <6> QED BY <1>12, <6>1, <6>2
          <5>2. PICK p \in Int : p = a * q
            BY OrderType
          <5>3. z = t + p
            BY <5>1, <5>2, <4>2, <1>0
          <5> QED BY <5>2, <5>3 DEF Cong
        <4> QED BY <4>3, <4>4
      <3> QED BY <3>3, <3>4, <3>5, <3>6, <3>7, <3>8, CongSym, CongTrans
    <2> QED BY <1>7, <2>1, PointsEqual
  <1> QED BY <1>11, <1>12 DEF left, right

-----------------------------------------------------------------------------
(* Sequences with an element or two more.                                  *)

\* Opaque in proofs: the provers unfold \o place by place.
Put(s, e) == s \o <<e>>

LEMMA PutType ==
  ASSUME NEW S, NEW s \in Seq(S), NEW e \in S
  PROVE  /\ Put(s, e) \in Seq(S) /\ Len(Put(s, e)) = Len(s) + 1
         /\ (\A i \in 1 .. Len(s) : Put(s, e)[i] = s[i]) /\ Put(s, e)[Len(s) + 1] = e
  <1>1. PICK t \in Seq(S) : t = <<e>> /\ Len(t) = 1 /\ t[1] = e
    <2>1. <<e>> \in Seq(S)
      OBVIOUS
    <2>2. Len(<<e>>) = 1 /\ <<e>>[1] = e
      OBVIOUS
    <2> QED BY <2>1, <2>2
  <1>2. s \o t \in Seq(S) /\ Len(s \o t) = Len(s) + Len(t)
    BY ConcatProperties
  <1>3. \A i \in 1 .. Len(s) : (s \o t)[i] = s[i]
    BY FirstPart
  <1>4. (s \o t)[Len(s) + 1] = t[1]
    <2>1. 1 \in 1 .. Len(t) /\ Len(s) \in Nat
      BY <1>1
    <2> QED BY <2>1, SecondPart
  <1> QED BY <1>1, <1>2, <1>3, <1>4 DEF Put

PutBoth(s, e, f) == s \o <<e, f>>

LEMMA PutTwo ==
  ASSUME NEW S, NEW s \in Seq(S), NEW e \in S, NEW f \in S
  PROVE  PutBoth(s, e, f) = Put(Put(s, e), f)
  <1>1. PICK u \in Seq(S) : u = Put(s, e)
    BY PutType
  <1>2. Len(u) = Len(s) + 1 /\ (\A i \in 1 .. Len(s) : u[i] = s[i]) /\ u[Len(s) + 1] = e
    BY <1>1, PutType, ZenonT(60)
  <1>3. PICK v \in Seq(S) : v = Put(u, f)
    BY PutType
  <1>4. Len(v) = Len(u) + 1 /\ (\A i \in 1 .. Len(u) : v[i] = u[i]) /\ v[Len(u) + 1] = f
    BY <1>3, PutType, ZenonT(60)
  <1>5. PICK t \in Seq(S) : t = <<e, f>> /\ Len(t) = 2 /\ t[1] = e /\ t[2] = f
    <2>1. <<e, f>> \in Seq(S)
      OBVIOUS
    <2>2. Len(<<e, f>>) = 2 /\ <<e, f>>[1] = e /\ <<e, f>>[2] = f
      OBVIOUS
    <2> QED BY <2>1, <2>2
  <1>6. s \o t \in Seq(S) /\ Len(s \o t) = Len(s) + Len(t)
    BY ConcatProperties
  <1>7. \A i \in 1 .. Len(s) : (s \o t)[i] = s[i]
    BY FirstPart
  <1>m. PICK m \in Nat : m = Len(s)
    OBVIOUS
  <1>8. (s \o t)[m + 1] = t[1] /\ (s \o t)[m + 2] = t[2]
    <2>1. 1 \in 1 .. Len(t) /\ 2 \in 1 .. Len(t)
      BY <1>5
    <2> QED BY <1>m, <2>1, SecondPart
  <1>9. PICK w \in Seq(S) : w = s \o t
    BY <1>6
  <1>10. Len(w) = m + 2 /\ Len(v) = m + 2 /\ Len(u) = m + 1
    BY <1>m, <1>2, <1>4, <1>5, <1>6, <1>9
  <1>11. \A i \in 1 .. m + 2 : i \in 1 .. m \/ i = m + 1 \/ i = m + 2
    OBVIOUS
  <1>12. w[m + 1] = e /\ w[m + 2] = f /\ \A i \in 1 .. m : w[i] = s[i]
    BY <1>m, <1>5, <1>7, <1>8, <1>9
  <1>13. v[m + 2] = f
    BY <1>4, <1>10
  <1>14. v[m + 1] = e
    <2>1. m + 1 \in 1 .. Len(u)
      BY <1>10
    <2> QED BY <1>m, <1>2, <1>4, <2>1
  <1>15. \A i \in 1 .. m : v[i] = s[i]
    <2>1. \A i \in 1 .. m : i \in 1 .. Len(u)
      BY <1>10
    <2> QED BY <1>m, <1>2, <1>4, <2>1
  <1>16. \A i \in 1 .. m + 2 : v[i] = w[i]
    BY <1>11, <1>12, <1>13, <1>14, <1>15
  <1>17. v = w
    BY <1>4, <1>9, <1>10, <1>16
  <1> QED BY <1>1, <1>3, <1>5, <1>9, <1>17, Zenon DEF PutBoth

\* Of scalars and of points, which saves the provers the search for S.
LEMMA PutInt ==
  ASSUME NEW s \in Seq(Int), NEW e \in Int
  PROVE  /\ Put(s, e) \in Seq(Int) /\ Len(Put(s, e)) = Len(s) + 1
         /\ (\A i \in 1 .. Len(s) : Put(s, e)[i] = s[i]) /\ Put(s, e)[Len(s) + 1] = e
  BY PutType

LEMMA PutTwoInt ==
  ASSUME NEW s \in Seq(Int), NEW e \in Int, NEW f \in Int
  PROVE  PutBoth(s, e, f) = Put(Put(s, e), f)
  BY PutTwo

LEMMA PutTwoPoint ==
  ASSUME NEW s \in Seq(Point), NEW e \in Point, NEW f \in Point
  PROVE  PutBoth(s, e, f) = Put(Put(s, e), f)
  BY PutTwo

\* The hash finds only the answer of device k, made for position i (or zero).
LEMMA SchnorrExact ==
  ASSUME Case, NEW o, Enough(o), NEW i \in Positions, NEW k \in Positions, NEW g \in Positions,
         NEW nonce \in NotZero, NEW c, NEW s, s = (nonce + DeviceKey(g) * c) % q, NEW message,
         Knows(o, NonceInput(g, nonce, message), c)
  PROVE  hash_to_scalar(o, <<"schnorr", Plus(Times(Generator("HK", i), s), Times(DevicePoint(k), Minus(0, c))), message>>)
           = c
         <=> g = k /\ (k = i \/ s = 0)
  <1>1. c \in Answer /\ c \in Int
    BY KnowsType
  <1>2. s \in Scalar
    <2>1. PICK x \in Int : x = nonce + DeviceKey(g) * c
      BY <1>1, ScalarsDrawn, NotZeroIsScalar
    <2> QED BY <2>1, Remainder
  <1>3. PICK x : x = Plus(Times(Generator("HK", i), s), Times(DevicePoint(k), Minus(0, c)))
    OBVIOUS
  <1>4. PICK y : y = Times(Generator("HK", g), nonce)
    OBVIOUS
  <1>5. x = y <=> g = k /\ (k = i \/ s = 0)
    BY <1>1, <1>2, <1>3, <1>4, DeviceEquation
  <1>6. Knows(o, <<"schnorr", y, message>>, c)
    BY <1>4, Zenon DEF NonceInput
  <1>7. ASSUME hash_to_scalar(o, <<"schnorr", x, message>>) = c PROVE x = y
    <2>1. <<"schnorr", x, message>> = <<"schnorr", y, message>>
      BY <1>6, <1>7, KnowsOnly
    <2> QED BY <2>1
  <1>8. ASSUME x = y PROVE hash_to_scalar(o, <<"schnorr", x, message>>) = c
    BY <1>6, <1>8, Zenon DEF Knows
  <1> QED BY <1>3, <1>5, <1>7, <1>8

\* Adapted to the randomised key, an answer is checked like the plain one.
LEMMA RandomisedCancels ==
  ASSUME NEW x \in Point, NEW p \in Point, NEW s \in Int, NEW c \in Int, NEW r \in Int
  PROVE  Plus(Times(x, (s + c * r) % q), Times(Plus(p, Times(x, r)), Minus(0, c)))
           = Plus(Times(x, s), Times(p, Minus(0, c)))
  <1>1. PICK t \in Int : t = Minus(0, c) /\ Cong(t, -c)
    <2>1. -c \in Int /\ 0 - c = -c
      OBVIOUS
    <2>2. (-c) % q \in Int /\ Cong((-c) % q, -c)
      BY <2>1, CongMod, Remainder
    <2> QED BY <2>1, <2>2 DEF Minus
  <1>2. PICK e \in Int : e = c * r
    OBVIOUS
  <1>3. PICK v \in Int : v = s + e
    OBVIOUS
  <1>4. PICK f \in Int : f = r * t
    OBVIOUS
  <1>5. Times(x, v % q) = Times(x, v)
    BY CongMod, Remainder, TimesReduced
  <1>6. Times(x, v) = Plus(Times(x, s), Times(x, e))
    BY <1>3, TimesSum
  <1>7. PICK y \in Point : y = Times(x, r)
    BY TimesAt
  <1>8. Times(Plus(p, y), t) = Plus(Times(p, t), Times(y, t))
    BY TimesPlus
  <1>9. Times(y, t) = Times(x, f)
    BY <1>4, <1>7, TimesTwice
  <1>10. PICK a \in Point : a = Times(x, s)
    BY TimesAt
  <1>11. PICK b \in Point : b = Times(x, e)
    BY TimesAt
  <1>12. PICK d \in Point : d = Times(p, t)
    BY TimesAt
  <1>13. PICK g \in Point : g = Times(x, f)
    BY TimesAt
  <1>14. Plus(Plus(a, b), Plus(d, g)) = Plus(Plus(a, d), Plus(b, g))
    BY PlusFour
  <1>15. Plus(b, g) = Identity
    <2>1. PICK h \in Int : h = e + f
      OBVIOUS
    <2>2. Times(x, h) = Plus(b, g)
      BY <1>11, <1>13, <2>1, TimesSum
    <2>3. Cong(h, 0)
      <3>1. PICK n \in Int : t = -c + n * q
        BY <1>1 DEF Cong
      <3>2. PICK m \in Int : m = r * n
        OBVIOUS
      <3>3. h = 0 + m * q
        <4>1. PICK w \in Int : w = n * q
          BY OrderType
        <4>2. f = r * (-c) + r * w
          BY <1>4, <3>1, <4>1
        <4>3. r * w = m * q
          <5>1. r * (n * q) = (r * n) * q
            BY OrderType
          <5> QED BY <3>2, <4>1, <5>1
        <4>4. r * (-c) = -e
          BY <1>2
        <4>5. m * q \in Int
          BY OrderType
        <4> QED BY <2>1, <4>2, <4>3, <4>4, <4>5
      <3> QED BY <3>3 DEF Cong
    <2>4. Times(x, h) = Times(x, 0)
      BY <2>3, TimesReduced
    <2> QED BY <2>2, <2>4, TimesZero
  <1>16. PICK w \in Point : w = Plus(a, d)
    BY PlusAt
  <1>17. Plus(w, Identity) = w
    BY PlusIdentity
  <1> QED BY <1>1, <1>2, <1>3, <1>5, <1>6, <1>7, <1>8, <1>9, <1>10, <1>11, <1>12, <1>13, <1>14, <1>15, <1>16, <1>17, Zenon

-----------------------------------------------------------------------------
(* Parts of B, and sums that cancel.                                       *)

LEMMA InvertCancels ==
  ASSUME NEW x \in Point, NEW w \in NotZero
  PROVE  /\ Times(Times(x, Invert(w)), w) = x
         /\ Times(Times(x, w), Invert(w)) = x
  <1>1. w \in 1 .. (q - 1) /\ w \in Int
    BY NotZeroIsScalar DEF NotZero
  <1>2. PICK v \in Int : v = Invert(w) /\ Cong(w * v, 1)
    BY <1>1, InvertType
  <1>3. Times(Times(x, v), w) = Times(x, v * w) /\ Times(Times(x, w), v) = Times(x, w * v)
    BY <1>1, TimesTwice
  <1>4. v * w = w * v
    BY <1>1
  <1>5. Times(x, w * v) = Times(x, 1)
    <2>1. PICK u \in Int : u = w * v
      BY <1>1
    <2>2. Cong(u, 1)
      BY <1>2, <2>1
    <2>3. Times(x, u) = Times(x, 1)
      BY <2>2, TimesReduced
    <2> QED BY <2>1, <2>3
  <1> QED BY <1>2, <1>3, <1>4, <1>5, TimesOne, Zenon

\* The slots of the chosen messages among the scalars of B.
Slots(s, c, l, n) ==
  /\ s \in Seq(Nat) /\ Len(s) = Len(c) /\ Len(s) \in Nat
  /\ DOMAIN s = 1 .. Len(c) /\ DOMAIN c = 1 .. Len(c)
  /\ \A i \in 1 .. Len(c) : /\ c[i] \in 1 .. l /\ s[i] = proof_index(c[i], n)
                            /\ s[i] \in 1 .. l + 1 /\ s[i] # n + 1
  /\ \A i, j \in 1 .. Len(c) : s[i] = s[j] => i = j

\* The points under which scalars are hidden.
PointsAt(generators, slots) == [i \in DOMAIN slots |-> generators[slots[i] + 1]]

LEMMA MinusType ==
  ASSUME NEW x \in Int
  PROVE  Minus(0, x) \in Scalar /\ Minus(0, x) \in Int /\ Cong(Minus(0, x), -x)
  <1>1. PICK y \in Int : y = 0 - x /\ y = -x
    OBVIOUS
  <1>2. y % q \in Scalar /\ y % q \in Int /\ Cong(y % q, y)
    BY Remainder, CongMod
  <1> QED BY <1>1, <1>2 DEF Minus

LEMMA PlusSwap ==
  ASSUME NEW x \in Point, NEW y \in Point, NEW z \in Point
  PROVE  Plus(Plus(x, y), z) = Plus(Plus(x, z), y)
  <1>1. Plus(Plus(x, y), z) = Plus(x, Plus(y, z))
    BY PlusAssociates
  <1>2. Plus(Plus(x, z), y) = Plus(x, Plus(z, y))
    BY PlusAssociates
  <1>3. Plus(y, z) = Plus(z, y)
    BY PlusCommutes
  <1> QED BY <1>1, <1>2, <1>3

\* With the slots, and the points, of k keys at the end.
KeySlots(U, l, k) == U \o Following(l, k)
KeyedPoints(ps, k) == ps \o Points("HK", k)

\* The keys follow the messages, each under its own generator.
LEMMA PointsAtType ==
  ASSUME NEW l \in Nat, NEW n \in 0 .. l, NEW k \in Nat, NEW U, NEW S, Indexing(U, l + 1, S)
  PROVE  /\ PointsAt(all_generators(n, l, k), U) \in Seq(Point)
         /\ Len(PointsAt(all_generators(n, l, k), U)) = Len(U)
         /\ \A i \in 1 .. Len(U) : PointsAt(all_generators(n, l, k), U)[i] = all_generators(n, l, k)[U[i] + 1]
         /\ PointsAt(all_generators(n, l, k), KeySlots(U, l + 1, k))
              = KeyedPoints(PointsAt(all_generators(n, l, k), U), k)
  <1>1. PICK g \in Seq(Point) : g = all_generators(n, l, k) /\ Len(g) = (l + 2) + k
                                /\ \A i \in 1 .. k : g[l + 2 + i] = Generator("HK", i)
    BY GeneratorsType
  <1>2. PICK u \in Nat : u = Len(U) /\ U \in Seq(Nat) /\ DOMAIN U = 1 .. u /\ \A i \in 1 .. u : U[i] \in 1 .. l + 1
    <2>1. U \in Seq(Nat) /\ Len(U) \in Nat /\ \A i \in 1 .. Len(U) : U[i] \in 1 .. l + 1
      BY DEF Indexing
    <2> QED BY <2>1
  <1>3. PICK f : f = PointsAt(g, U)
    OBVIOUS
  <1>4. f = [i \in 1 .. u |-> g[U[i] + 1]]
    BY <1>2, <1>3, Zenon DEF PointsAt
  <1>5. \A j \in 1 .. (l + 2) + k : g[j] \in Point
    BY ONLY <1>1, g \in Seq(Point)
  <1>6. \A i \in 1 .. u : U[i] + 1 \in 1 .. (l + 2) + k
    BY <1>2
  <1>7. f \in [1 .. u -> Point]
    BY <1>4, <1>5, <1>6, Zenon
  <1>8. f \in Seq(Point) /\ Len(f) = u
    BY ONLY <1>7, u \in Nat
  <1>9. \A i \in 1 .. u : f[i] = g[U[i] + 1]
    BY <1>4
  <1>10. PICK w : w = U \o Following(l + 1, k)
    OBVIOUS
  <1>11. PICK h \in Seq(Nat) : h = Following(l + 1, k) /\ Len(h) = k /\ \A i \in 1 .. k : h[i] = l + 1 + i
    <2>1. l + 1 \in Nat
      OBVIOUS
    <2>2. /\ Following(l + 1, k) \in Seq(Nat) /\ Len(Following(l + 1, k)) = k
          /\ \A i \in 1 .. k : Following(l + 1, k)[i] = l + 1 + i
      BY <2>1, FollowingType
    <2> QED BY <2>2, Zenon
  <1>12. /\ w \in Seq(Nat) /\ Len(w) = u + k /\ DOMAIN w = 1 .. u + k
         /\ \A i \in 1 .. u : w[i] = U[i]
         /\ \A i \in 1 .. k : w[u + i] = l + 1 + i
    <2>4. U \o h \in Seq(Nat) /\ Len(U \o h) = Len(U) + Len(h)
      BY <1>2, <1>11, ConcatProperties
    <2>1. w \in Seq(Nat) /\ Len(w) = u + k
      BY <1>2, <1>10, <1>11, <2>4, Zenon
    <2>5. DOMAIN w = 1 .. u + k
      BY <2>1
    <2>2. \A i \in 1 .. u : w[i] = U[i]
      BY <1>2, <1>10, <1>11, FirstPart
    <2>3. \A i \in 1 .. k : w[u + i] = h[i]
      BY <1>2, <1>10, <1>11, SecondPart
    <2> QED BY <1>11, <2>1, <2>2, <2>3, <2>5, Zenon
  <1>13. PICK r : r = PointsAt(g, w)
    OBVIOUS
  <1>14. r = [i \in 1 .. u + k |-> g[w[i] + 1]]
    BY <1>12, <1>13, Zenon DEF PointsAt
  <1>15. PICK p \in Seq(Point) : p = Points("HK", k) /\ Len(p) = k /\ \A i \in 1 .. k : p[i] = Generator("HK", i)
    BY PointsType
  <1>16. PICK t : t = f \o p
    OBVIOUS
  <1>17. t \in Seq(Point) /\ Len(t) = u + k
    <2>1. f \o p \in Seq(Point) /\ Len(f \o p) = Len(f) + Len(p)
      BY <1>8, <1>15, ConcatProperties
    <2> QED BY <1>8, <1>15, <1>16, <2>1, Zenon
  <1>18. \A i \in 1 .. u : t[i] = f[i]
    BY <1>8, <1>16, FirstPart
  <1>19. \A i \in 1 .. k : t[u + i] = p[i]
    BY <1>8, <1>15, <1>16, SecondPart
  <1>20. ASSUME NEW i \in 1 .. u + k PROVE r[i] = t[i]
    <2>1. r[i] = g[w[i] + 1]
      BY <1>14
    <2>2. CASE i <= u
      <3>1. i \in 1 .. u
        BY <2>2
      <3> QED BY <1>9, <1>12, <1>18, <2>1, <3>1, Zenon
    <2>3. CASE i > u
      <3>1. PICK j \in 1 .. k : i = u + j
        <4>1. i - u \in 1 .. k /\ i = u + (i - u)
          BY <2>3
        <4> QED BY <4>1
      <3>4. w[i] = l + 1 + j
        BY <1>12, <3>1, Zenon
      <3>5. (l + 1 + j) + 1 = l + 2 + j
        OBVIOUS
      <3>2. w[i] + 1 = l + 2 + j
        BY <3>4, <3>5, Zenon
      <3>3. g[l + 2 + j] = p[j]
        BY <1>1, <1>15
      <3> QED BY <1>19, <2>1, <3>1, <3>2, <3>3, Zenon
    <2> QED BY <2>2, <2>3
  <1>21. r = t
    <2>1. t = [i \in 1 .. u + k |-> t[i]]
      BY ONLY <1>17, u \in Nat, k \in Nat
    <2> QED BY <1>14, <1>20, <2>1
  <1> QED BY <1>1, <1>2, <1>3, <1>8, <1>9, <1>10, <1>13, <1>15, <1>16, <1>21, Zenon DEF KeySlots, KeyedPoints

\* The points at slots of a proof: those at its undisclosed indexes, then the keys' own.
PointsWell(l, n, k, U) == /\ PointsAt(all_generators(n, l, k), U) \in Seq(Point)
                          /\ Len(PointsAt(all_generators(n, l, k), U)) = Len(U)
                          /\ PointsAt(all_generators(n, l, k), KeySlots(U, l + 1, k))
                               = KeyedPoints(PointsAt(all_generators(n, l, k), U), k)

LEMMA PointsAtWell ==
  ASSUME NEW l \in Nat, NEW n \in 0 .. l, NEW k \in Nat, NEW U, NEW S, Indexing(U, l + 1, S)
  PROVE  PointsWell(l, n, k, U)
  BY PointsAtType DEF PointsWell

LEMMA MinusCong ==
  ASSUME NEW x \in Int, NEW y \in Int
  PROVE  Minus(x, y) \in Scalar /\ Minus(x, y) \in Int /\ Cong(Minus(x, y), x - y)
  <1>1. PICK z \in Int : z = x - y
    OBVIOUS
  <1>2. z % q \in Scalar /\ z % q \in Int /\ Cong(z % q, z)
    BY Remainder, CongMod
  <1> QED BY <1>1, <1>2 DEF Minus

LEMMA TimesOpposite ==
  ASSUME NEW x \in Point, NEW s \in Int
  PROVE  Plus(Times(x, s), Times(x, -s)) = Identity
  <1>1. PICK t \in Int : t = -s
    OBVIOUS
  <1>2. s + t = 0
    BY <1>1
  <1>3. Times(x, s + t) = Plus(Times(x, s), Times(x, t))
    BY TimesSum
  <1>4. Times(x, s + t) = Identity
    BY <1>2, TimesZero
  <1> QED BY <1>1, <1>3, <1>4

Opposite(x, y) == Plus(x, y) = Identity

\* With two sums that cancel.
LEMMA CancelsTwice ==
  ASSUME NEW a \in Point, NEW a2 \in Point, NEW b \in Point, NEW b2 \in Point, NEW y \in Point, NEW z \in Point,
         Opposite(a, a2), Opposite(b, b2)
  PROVE  Plus(Plus(Plus(a, b), Plus(y, b2)), Plus(z, a2)) = Plus(y, z)
  <1>1. Plus(a, b) = Plus(b, a) /\ Plus(y, b2) = Plus(b2, y) /\ Plus(y, a) = Plus(a, y)
    BY PlusCommutes
  <1>2. Plus(a, y) \in Point /\ Plus(y, a) \in Point /\ Plus(y, z) \in Point
    BY PlusAt
  <1>3. Plus(Plus(b, a), Plus(b2, y)) = Plus(Plus(b, b2), Plus(a, y))
    BY PlusFour
  <1>4. Plus(Plus(b, b2), Plus(a, y)) = Plus(a, y)
    BY <1>2, PlusIdentity DEF Opposite
  <1>5. Plus(Plus(y, a), Plus(z, a2)) = Plus(Plus(y, z), Plus(a, a2))
    BY PlusFour
  <1>6. Plus(Plus(y, z), Plus(a, a2)) = Plus(y, z)
    BY <1>2, PlusIdentity DEF Opposite
  <1> QED BY <1>1, <1>3, <1>4, <1>5, <1>6, Zenon

FourCancel(a, b, c, n, y, s) == Plus(Plus(Plus(a, Plus(y, n)), Plus(s, b)), c) = Plus(y, s)

\* With one sum of four that cancels.
LEMMA CancelsFour ==
  ASSUME NEW a \in Point, NEW b \in Point, NEW c \in Point, NEW n \in Point, NEW y \in Point, NEW s \in Point,
         Opposite(Plus(Plus(a, b), c), n)
  PROVE  FourCancel(a, b, c, n, y, s)
  <1>1. Plus(a, Plus(y, n)) = Plus(y, Plus(a, n))
    <2>1. Plus(Plus(a, y), n) = Plus(a, Plus(y, n)) /\ Plus(Plus(y, a), n) = Plus(y, Plus(a, n))
      BY PlusAssociates
    <2>2. Plus(a, y) = Plus(y, a)
      BY PlusCommutes
    <2> QED BY <2>1, <2>2
  <1>2. Plus(a, n) \in Point /\ Plus(y, s) \in Point /\ Plus(a, b) \in Point
    BY PlusAt
  <1>3. Plus(Plus(y, Plus(a, n)), Plus(s, b)) = Plus(Plus(y, s), Plus(Plus(a, n), b))
    BY <1>2, PlusFour
  <1>4. Plus(Plus(a, n), b) = Plus(Plus(a, b), n)
    BY PlusSwap
  <1>5. Plus(Plus(a, b), n) \in Point
    BY <1>2, PlusAt
  <1>6. Plus(Plus(Plus(y, s), Plus(Plus(a, b), n)), c) = Plus(Plus(y, s), Plus(Plus(Plus(a, b), n), c))
    BY <1>2, <1>5, PlusAssociates
  <1>7. Plus(Plus(Plus(a, b), n), c) = Identity
    <2>1. Plus(Plus(Plus(a, b), n), c) = Plus(Plus(Plus(a, b), c), n)
      BY <1>2, PlusSwap
    <2> QED BY <2>1, Zenon DEF Opposite
  <1>8. Plus(Plus(y, s), Identity) = Plus(y, s)
    BY <1>2, PlusIdentity
  <1> QED BY <1>1, <1>3, <1>4, <1>6, <1>7, <1>8, Zenon DEF FourCancel

LEMMA SumprodTwo ==
  ASSUME NEW x \in Point, NEW y \in Point, NEW s \in Int, NEW t \in Int
  PROVE  sumprod(<<x, y>>, <<s, t>>) = Plus(Times(x, s), Times(y, t))
  <1>1. PICK ps : ps = <<x, y>>
    OBVIOUS
  <1>2. PICK ss : ss = <<s, t>>
    OBVIOUS
  <1>3. ps \in Seq(Point) /\ Len(ps) = 2 /\ ps[1] = x /\ ps[2] = y
    BY <1>1
  <1>4. ss[1] = s /\ ss[2] = t
    BY <1>2
  <1>5. PICK P : P = Products(ps, ss, 2)
    OBVIOUS
  <1>6. P[1] = Times(x, s) /\ P[2] = Times(y, t)
    <2>1. 1 \in 1 .. 2 /\ 2 \in 1 .. 2
      OBVIOUS
    <2>2. P[1] = Times(ps[1], ss[1]) /\ P[2] = Times(ps[2], ss[2])
      BY <1>5, <2>1, Zenon DEF Products
    <2> QED BY <1>3, <1>4, <2>2, Zenon
  <1>7. sumprod(ps, ss) = SumTo(P, 2)
    <2>1. sumprod(ps, ss) = ProdTo(ps, ss, Len(ps))
      BY <1>3, SumprodIsProdTo
    <2> QED BY <1>3, <1>5, <2>1, Zenon DEF ProdTo
  <1>8. SumTo(P, 2) = Plus(Times(x, s), Times(y, t))
    <2>1. SumTo(P, 0 + 1) = Plus(SumTo(P, 0), P[0 + 1]) /\ SumTo(P, 1 + 1) = Plus(SumTo(P, 1), P[1 + 1])
      BY SumToNext
    <2>2. 0 + 1 = 1 /\ 1 + 1 = 2
      OBVIOUS
    <2>3. Plus(Identity, Times(x, s)) = Times(x, s)
      BY TimesAt, PlusIdentity
    <2> QED BY <1>6, <2>1, <2>2, <2>3, SumToNone, Zenon
  <1> QED BY <1>1, <1>2, <1>7, <1>8, Zenon

LEMMA SumprodOfThree ==
  ASSUME NEW ps \in Seq(Point), Len(ps) = 3, NEW ss, ss[1] \in Int, ss[2] \in Int, ss[3] \in Int
  PROVE  sumprod(ps, ss) = Plus(Plus(Times(ps[1], ss[1]), Times(ps[2], ss[2])), Times(ps[3], ss[3]))
  <1>1. ps[1] \in Point /\ ps[2] \in Point /\ ps[3] \in Point
    <2>1. \A i \in 1 .. Len(ps) : ps[i] \in Point
      BY ONLY ps \in Seq(Point)
    <2>2. 1 \in 1 .. Len(ps) /\ 2 \in 1 .. Len(ps) /\ 3 \in 1 .. Len(ps)
      BY ONLY Len(ps) = 3
    <2> QED BY <2>1, <2>2, Zenon
  <1>2. PICK P : P = Products(ps, ss, 3)
    OBVIOUS
  <1>3. P[1] = Times(ps[1], ss[1]) /\ P[2] = Times(ps[2], ss[2]) /\ P[3] = Times(ps[3], ss[3])
    <2>1. 1 \in 1 .. 3 /\ 2 \in 1 .. 3 /\ 3 \in 1 .. 3
      OBVIOUS
    <2> QED BY <1>2, <2>1, Zenon DEF Products
  <1>4. sumprod(ps, ss) = SumTo(P, 3)
    <2>1. sumprod(ps, ss) = ProdTo(ps, ss, Len(ps))
      BY SumprodIsProdTo
    <2> QED BY <1>2, <2>1, Zenon DEF ProdTo
  <1>5. /\ SumTo(P, 0 + 1) = Plus(SumTo(P, 0), P[0 + 1]) /\ SumTo(P, 1 + 1) = Plus(SumTo(P, 1), P[1 + 1])
        /\ SumTo(P, 2 + 1) = Plus(SumTo(P, 2), P[2 + 1])
    BY SumToNext
  <1>6. 0 + 1 = 1 /\ 1 + 1 = 2 /\ 2 + 1 = 3
    OBVIOUS
  <1>7. Plus(Identity, Times(ps[1], ss[1])) = Times(ps[1], ss[1])
    BY <1>1, TimesAt, PlusIdentity
  <1> QED BY <1>3, <1>4, <1>5, <1>6, <1>7, SumToNone, Zenon

LEMMA SumprodThree ==
  ASSUME NEW x \in Point, NEW y \in Point, NEW z \in Point, NEW s \in Int, NEW t \in Int, NEW u \in Int
  PROVE  sumprod(<<x, y, z>>, <<s, t, u>>) = Plus(Plus(Times(x, s), Times(y, t)), Times(z, u))
  <1>1. PICK ps : ps = <<x, y, z>>
    OBVIOUS
  <1>2. PICK ss : ss = <<s, t, u>>
    OBVIOUS
  <1>3. ps \in Seq(Point) /\ Len(ps) = 3 /\ ps[1] = x /\ ps[2] = y /\ ps[3] = z
    BY <1>1
  <1>4. ss[1] = s /\ ss[2] = t /\ ss[3] = u
    BY <1>2
  <1>5. ss[1] \in Int /\ ss[2] \in Int /\ ss[3] \in Int
    BY <1>4
  <1>6. sumprod(ps, ss) = Plus(Plus(Times(ps[1], ss[1]), Times(ps[2], ss[2])), Times(ps[3], ss[3]))
    BY ONLY <1>3, <1>5, SumprodOfThree
  <1> QED BY <1>1, <1>2, <1>3, <1>4, <1>6, Zenon

\* C commits to m with the opening s; its proof, recomputed from the responses.
Commits(C, x, y, s, m) == C = sumprod(<<x, y>>, <<s, m>>)
Recommits(C, x, y, sh, mh, c, a, b) ==
  sumprod(<<x, y>> \o <<C>>, <<sh, mh, Minus(0, c)>>) = sumprod(<<x, y>>, <<a, b>>)

LEMMA CommitmentSame ==
  ASSUME NEW x \in Point, NEW y \in Point, NEW s \in Int, NEW m \in Int, NEW a \in Int, NEW b \in Int, NEW c \in Int,
         NEW sh \in Int, NEW mh \in Int, Cong(sh, a + s * c), Cong(mh, b + m * c), NEW C, Commits(C, x, y, s, m)
  PROVE  C \in Point /\ Recommits(C, x, y, sh, mh, c, a, b)
  <1>1. PICK ps \in Seq(Point) : ps = <<x, y>> /\ Len(ps) = 2 /\ ps[1] = x /\ ps[2] = y
    <2>1. PICK ps : ps = <<x, y>>
      OBVIOUS
    <2>2. ps \in Seq(Point) /\ Len(ps) = 2 /\ ps[1] = x /\ ps[2] = y
      BY ONLY <2>1, x \in Point, y \in Point
    <2> QED BY <2>1, <2>2, Zenon
  <1>2. PICK hs \in Seq(Int) : hs = <<sh, mh>> /\ Len(hs) = 2 /\ hs[1] = sh /\ hs[2] = mh
    <2>1. PICK hs : hs = <<sh, mh>>
      OBVIOUS
    <2>2. hs \in Seq(Int) /\ Len(hs) = 2 /\ hs[1] = sh /\ hs[2] = mh
      BY ONLY <2>1, sh \in Int, mh \in Int
    <2> QED BY <2>1, <2>2, Zenon
  <1>3. PICK ts \in Seq(Int) : ts = <<a, b>> /\ Len(ts) = 2 /\ ts[1] = a /\ ts[2] = b
    <2>1. PICK ts : ts = <<a, b>>
      OBVIOUS
    <2>2. ts \in Seq(Int) /\ Len(ts) = 2 /\ ts[1] = a /\ ts[2] = b
      BY ONLY <2>1, a \in Int, b \in Int
    <2> QED BY <2>1, <2>2, Zenon
  <1>4. PICK ms \in Seq(Int) : ms = <<s, m>> /\ Len(ms) = 2 /\ ms[1] = s /\ ms[2] = m
    <2>1. PICK ms : ms = <<s, m>>
      OBVIOUS
    <2>2. ms \in Seq(Int) /\ Len(ms) = 2 /\ ms[1] = s /\ ms[2] = m
      BY ONLY <2>1, s \in Int, m \in Int
    <2> QED BY <2>1, <2>2, Zenon
  <1>5. C = sumprod(ps, ms)
    BY <1>1, <1>4, Zenon DEF Commits
  <1>6. C \in Point /\ sumprod(ps, ts) \in Point
    <2>1. Len(ms) >= Len(ps) /\ Len(ts) >= Len(ps)
      BY <1>1, <1>3, <1>4
    <2>2. sumprod(ps, ms) \in Point /\ sumprod(ps, ts) \in Point
      BY <2>1, SumprodType
    <2> QED BY <1>5, <2>2, Zenon
  <1>7. sumprod(ps, hs) = Plus(sumprod(ps, ts), Times(C, c))
    <2>1. \A i \in 1 .. Len(ps) : Cong(hs[i], ts[i] + ms[i] * c)
      <3>1. \A i \in 1 .. Len(ps) : i = 1 \/ i = 2
        BY <1>1
      <3> QED BY <1>2, <1>3, <1>4, <3>1, Zenon
    <2>2. Len(hs) = Len(ps) /\ Len(ts) = Len(ps) /\ Len(ms) = Len(ps)
      BY <1>1, <1>2, <1>3, <1>4
    <2>3. sumprod(ps, hs) = Plus(sumprod(ps, ts), Times(sumprod(ps, ms), c))
      BY ONLY <2>1, <2>2, SumprodAnswers, ps \in Seq(Point), hs \in Seq(Int), ts \in Seq(Int), ms \in Seq(Int), c \in Int
    <2> QED BY <1>5, <2>3, Zenon
  <1>8. PICK n \in Int : n = Minus(0, c) /\ Cong(n, -c)
    BY MinusType
  <1>9. PICK qs \in Seq(Point) : qs = Put(ps, C) /\ Len(qs) = 3 /\ qs[1] = x /\ qs[2] = y /\ qs[3] = C
    <2>1. /\ Put(ps, C) \in Seq(Point) /\ Len(Put(ps, C)) = Len(ps) + 1
          /\ (\A i \in 1 .. Len(ps) : Put(ps, C)[i] = ps[i]) /\ Put(ps, C)[Len(ps) + 1] = C
      BY <1>6, PutType
    <2>2. Len(ps) + 1 = 3 /\ 1 \in 1 .. Len(ps) /\ 2 \in 1 .. Len(ps)
      BY <1>1
    <2> QED BY <1>1, <2>1, <2>2, Zenon
  <1>10. PICK ss : ss = <<sh, mh, n>> /\ ss[1] = sh /\ ss[2] = mh /\ ss[3] = n
    <2>1. PICK ss : ss = <<sh, mh, n>>
      OBVIOUS
    <2>2. ss[1] = sh /\ ss[2] = mh /\ ss[3] = n
      BY ONLY <2>1
    <2> QED BY <2>1, <2>2, Zenon
  <1>11. sumprod(qs, ss) = Plus(Plus(Times(x, sh), Times(y, mh)), Times(C, n))
    <2>1. ss[1] \in Int /\ ss[2] \in Int /\ ss[3] \in Int
      BY <1>10
    <2>2. sumprod(qs, ss) = Plus(Plus(Times(qs[1], ss[1]), Times(qs[2], ss[2])), Times(qs[3], ss[3]))
      BY <1>9, <2>1, SumprodOfThree
    <2> QED BY <1>9, <1>10, <2>2, Zenon
  <1>12. sumprod(<<x, y>>, <<sh, mh>>) = Plus(Times(x, sh), Times(y, mh))
    BY SumprodTwo
  <1>13. Plus(Plus(sumprod(ps, ts), Times(C, c)), Times(C, n)) = sumprod(ps, ts)
    BY <1>6, <1>8, AnswersCancel
  <1>14. sumprod(qs, ss) = sumprod(ps, ts)
    BY <1>1, <1>2, <1>7, <1>11, <1>12, <1>13, Zenon
  <1> QED BY <1>1, <1>3, <1>6, <1>8, <1>9, <1>10, <1>14, Zenon DEF Recommits, Put

\* What the verifier knows of B: the domain, and the scalars at D.
Known(G, dom, D, ms) == sumprod(<<P1, G[1]>> \o PointsAt(G, D), <<1, dom>> \o ms)

LEMMA PairedWith ==
  ASSUME NEW x \in Point, NEW y \in Point, NEW a \in Int, NEW b \in Int, NEW ps \in Seq(Point), NEW ss \in Seq(Int),
         Len(ss) = Len(ps)
  PROVE  /\ sumprod(<<x, y>> \o ps, <<a, b>> \o ss) \in Point
         /\ sumprod(<<x, y>> \o ps, <<a, b>> \o ss) = Plus(Plus(Times(x, a), Times(y, b)), sumprod(ps, ss))
  <1>1. PICK pa \in Seq(Point) : pa = <<x, y>> /\ Len(pa) = 2
    <2>1. <<x, y>> \in Seq(Point) /\ Len(<<x, y>>) = 2
      OBVIOUS
    <2> QED BY <2>1
  <1>2. PICK sa \in Seq(Int) : sa = <<a, b>> /\ Len(sa) = 2
    <2>1. <<a, b>> \in Seq(Int) /\ Len(<<a, b>>) = 2
      OBVIOUS
    <2> QED BY <2>1
  <1>3. Len(sa) = Len(pa)
    BY <1>1, <1>2
  <1>4. sumprod(pa \o ps, sa \o ss) = Plus(sumprod(pa, sa), sumprod(ps, ss))
    BY ONLY <1>3, Len(ss) = Len(ps), SumprodJoined, pa \in Seq(Point), sa \in Seq(Int), ps \in Seq(Point), ss \in Seq(Int)
  <1>5. sumprod(pa, sa) = Plus(Times(x, a), Times(y, b))
    BY <1>1, <1>2, SumprodTwo, Zenon
  <1>6. sumprod(ps, ss) \in Point
    <2>1. Len(ss) >= Len(ps)
      OBVIOUS
    <2> QED BY <2>1, SumprodType
  <1>7. Plus(Plus(Times(x, a), Times(y, b)), sumprod(ps, ss)) \in Point
    BY <1>6, TimesAt, PlusAt
  <1> QED BY <1>1, <1>2, <1>4, <1>5, <1>7, Zenon

\* The products of all scalars but the domain's.
Term(G, ss, l) == [j \in 1 .. l + 1 |-> Times(G[j + 1], ss[j])]

LEMMA MessagedTerms ==
  ASSUME NEW l \in Nat, NEW n \in 0 .. l, NEW k \in Nat, NEW dom \in Int, NEW ss \in Seq(Int), Len(ss) = l + 1
  PROVE  /\ \A j \in 1 .. l + 1 : Term(all_generators(n, l, k), ss, l)[j] \in Point
         /\ Messaged(n, l, dom, ss)
              = Plus(Plus(Times(P1, 1), Times(all_generators(n, l, k)[1], dom)),
                     SumTo(Term(all_generators(n, l, k), ss, l), l + 1))
  <1>1. PICK G \in Seq(Point) : G = all_generators(n, l, k) /\ Len(G) = (l + 2) + k
    BY GeneratorsType
  <1>2. PICK M \in Seq(Point) : M = Messages(n, l) /\ Len(M) = l + 2
    BY MessagesType
  <1>3. \A i \in 1 .. l + 2 : M[i] = G[i]
    BY <1>1, <1>2, GeneratorsType
  <1>4. \A j \in 1 .. l + 2 : G[j] \in Point
    BY ONLY <1>1, G \in Seq(Point), l \in Nat, k \in Nat
  <1>5. PICK b \in Seq(Point) : b = Base(n, l) /\ Len(b) = l + 3
    BY BaseType
  <1>6. PICK w \in Seq(Int) : /\ w = WithDomain(dom, ss) /\ Len(w) = l + 3 /\ w[1] = 1 /\ w[2] = dom
                              /\ \A i \in 1 .. l + 1 : w[2 + i] = ss[i]
    <2>1. Len(ss) + 2 = l + 3
      OBVIOUS
    <2>2. PICK w \in Seq(Int) : w = WithDomain(dom, ss) /\ Len(w) = Len(ss) + 2
      BY WithDomainType
    <2>3. /\ WithDomain(dom, ss)[1] = 1 /\ WithDomain(dom, ss)[2] = dom
          /\ \A i \in 1 .. Len(ss) : WithDomain(dom, ss)[2 + i] = ss[i]
      BY WithDomainType
    <2> QED BY <2>1, <2>2, <2>3, Zenon
  <1>7. P1 \in Point
    BY GeneratorAt DEF P1
  <1>8. b[1] = P1 /\ \A i \in 1 .. l + 2 : b[1 + i] = M[i]
    <2>1. PICK h \in Seq(Point) : h = <<P1>> /\ Len(h) = 1 /\ h[1] = P1
      <3>1. <<P1>> \in Seq(Point) /\ Len(<<P1>>) = 1 /\ <<P1>>[1] = P1
        BY <1>7
      <3> QED BY <3>1
    <2>2. b = h \o M
      BY <1>2, <1>5, <2>1, Zenon DEF Base
    <2>3. \A i \in 1 .. l + 2 : (h \o M)[1 + i] = M[i]
      BY ONLY <1>2, <2>1, SecondPart, h \in Seq(Point), M \in Seq(Point), l \in Nat
    <2>4. (h \o M)[1] = h[1]
      BY ONLY <2>1, FirstPart, h \in Seq(Point), M \in Seq(Point)
    <2> QED BY <2>1, <2>2, <2>3, <2>4, Zenon
  <1>9. PICK pa : pa = <<P1, G[1]>>
    OBVIOUS
  <1>10. PICK sa : sa = <<1, dom>>
    OBVIOUS
  <1>11. pa \in Seq(Point) /\ Len(pa) = 2 /\ pa[1] = P1 /\ pa[2] = G[1] /\ sa[1] = 1 /\ sa[2] = dom
    <2>1. G[1] \in Point
      BY <1>4
    <2> QED BY ONLY <1>7, <1>9, <1>10, <2>1
  <1>12. PICK pb : pb = [j \in 1 .. l + 1 |-> G[j + 1]]
    OBVIOUS
  <1>13. \A j \in 1 .. l + 1 : /\ pb[j] = G[j + 1] /\ pb[j] \in Point /\ ss[j] \in Int
                               /\ b[2 + j] = pb[j] /\ w[2 + j] = ss[j]
    <2>1. TAKE j \in 1 .. l + 1
    <2>2. j + 1 \in 1 .. l + 2 /\ 2 + j = 1 + (j + 1)
      OBVIOUS
    <2>3. pb[j] = G[j + 1]
      BY <1>12, Zenon
    <2>4. G[j + 1] \in Point
      BY <1>4, <2>2
    <2>5. b[1 + (j + 1)] = M[j + 1] /\ M[j + 1] = G[j + 1]
      BY <1>3, <1>8, <2>2, Zenon
    <2>6. ss[j] \in Int
      BY ONLY Len(ss) = l + 1, ss \in Seq(Int), j \in 1 .. l + 1, l \in Nat
    <2> QED BY <1>6, <2>2, <2>3, <2>4, <2>5, <2>6, Zenon
  <1>14. PairsGoOn(b, w, 0, pa, sa, 2)
    <2>1. G[1] \in Point /\ M[1] = G[1]
      BY <1>3, <1>4
    <2>2. b[1] = P1 /\ b[2] = G[1]
      <3>1. 1 \in 1 .. l + 2 /\ 1 + 1 = 2
        OBVIOUS
      <3> QED BY <1>8, <2>1, <3>1, Zenon
    <2>3. ASSUME NEW i \in 1 .. 2
          PROVE  pa[i] \in Point /\ sa[i] \in Int /\ b[0 + i] = pa[i] /\ w[0 + i] = sa[i]
      <3>1. CASE i = 1
        BY ONLY <1>6, <1>7, <1>11, <2>2, <3>1
      <3>2. CASE i = 2
        BY ONLY <1>6, <1>11, <2>1, <2>2, <3>2, dom \in Int
      <3> QED BY <3>1, <3>2
    <2> QED BY <2>3, Zenon DEF PairsGoOn
  <1>15. PairsGoOn(b, w, 2, pb, ss, l + 1)
    BY <1>13, Zenon DEF PairsGoOn
  <1>16. ProdTo(b, w, l + 3) = Plus(ProdTo(pa, sa, 2), ProdTo(pb, ss, l + 1))
    <2>1. l + 3 = 2 + (l + 1) /\ l + 1 \in Nat /\ 2 \in Nat
      OBVIOUS
    <2> QED BY <1>14, <1>15, <2>1, ProdToJoined
  <1>17. ProdTo(pa, sa, 2) = Plus(Times(P1, 1), Times(G[1], dom))
    <2>1. sumprod(pa, sa) = ProdTo(pa, sa, 2)
      <3>1. sumprod(pa, sa) = ProdTo(pa, sa, Len(pa))
        BY ONLY <1>11, SumprodIsProdTo
      <3> QED BY <1>11, <3>1, Zenon
    <2>2. sumprod(<<P1, G[1]>>, <<1, dom>>) = Plus(Times(P1, 1), Times(G[1], dom))
      <3>1. G[1] \in Point /\ 1 \in Int
        BY <1>4
      <3> QED BY <1>7, <3>1, SumprodTwo
    <2> QED BY <1>9, <1>10, <2>1, <2>2, Zenon
  <1>18. ProdTo(pb, ss, l + 1) = SumTo(Term(G, ss, l), l + 1)
    <2>1. \A j \in 1 .. l + 1 : Products(pb, ss, l + 1)[j] = Term(G, ss, l)[j]
      BY <1>13, Zenon DEF Products, Term
    <2>2. SumTo(Products(pb, ss, l + 1), l + 1) = SumTo(Term(G, ss, l), l + 1)
      <3>1. l + 1 \in Nat
        OBVIOUS
      <3> QED BY <2>1, <3>1, SumToSame
    <2> QED BY <2>2, Zenon DEF ProdTo
  <1>19. Messaged(n, l, dom, ss) = ProdTo(b, w, l + 3)
    <2>1. sumprod(b, w) = ProdTo(b, w, Len(b))
      BY ONLY SumprodIsProdTo, b \in Seq(Point)
    <2> QED BY <1>5, <1>6, <2>1, Zenon DEF Messaged
  <1>20. \A j \in 1 .. l + 1 : Term(G, ss, l)[j] \in Point
    <2>1. TAKE j \in 1 .. l + 1
    <2>2. Times(pb[j], ss[j]) \in Point
      BY <1>13, TimesAt
    <2> QED BY <1>13, <2>2, Zenon DEF Term
  <1> QED BY <1>1, <1>16, <1>17, <1>18, <1>19, <1>20, Zenon

InSlots(U, l) == U \in Seq(Nat) /\ \A i \in 1 .. Len(U) : U[i] \in 1 .. l + 1
TermsAt(G, ss, l, U) == SumTo([i \in 1 .. Len(U) |-> Term(G, ss, l)[U[i]]], Len(U))
SlotSummed(G, ss, l, U) ==
  /\ PointsAt(G, U) \in Seq(Point) /\ Len(PointsAt(G, U)) = Len(U)
  /\ Select(ss, U) \in Seq(Int) /\ Len(Select(ss, U)) = Len(U)
  /\ sumprod(PointsAt(G, U), Select(ss, U)) = TermsAt(G, ss, l, U)

\* The sum over some slots: the terms of those slots.
LEMMA SlotSum ==
  ASSUME NEW l \in Nat, NEW n \in 0 .. l, NEW k \in Nat, NEW ss \in Seq(Int), Len(ss) = l + 1,
         NEW U, InSlots(U, l)
  PROVE  SlotSummed(all_generators(n, l, k), ss, l, U)
  <1>1. PICK G \in Seq(Point) : G = all_generators(n, l, k) /\ Len(G) = (l + 2) + k
    BY GeneratorsType
  <1>2. PICK u \in Nat : u = Len(U) /\ DOMAIN U = 1 .. u
    <2>1. U \in Seq(Nat)
      BY Zenon DEF InSlots
    <2> QED BY ONLY <2>1
  <1>3. \A i \in 1 .. u : U[i] \in 1 .. l + 1
    BY <1>2, Zenon DEF InSlots
  <1>4. ASSUME NEW i \in 1 .. u
        PROVE  G[U[i] + 1] \in Point /\ ss[U[i]] \in Int /\ Term(G, ss, l)[U[i]] = Times(G[U[i] + 1], ss[U[i]])
    <2>1. PICK j \in 1 .. l + 1 : j = U[i]
      BY <1>3
    <2>2. G[j + 1] \in Point
      BY ONLY <1>1, l \in Nat, k \in Nat, j \in 1 .. l + 1, G \in Seq(Point)
    <2>3. ss[j] \in Int
      BY ONLY Len(ss) = l + 1, l \in Nat, j \in 1 .. l + 1, ss \in Seq(Int)
    <2>4. Term(G, ss, l)[j] = Times(G[j + 1], ss[j])
      BY Zenon DEF Term
    <2> QED BY <2>1, <2>2, <2>3, <2>4, Zenon
  <1>5. PICK ps : ps = PointsAt(G, U)
    OBVIOUS
  <1>6. PICK cs : cs = Select(ss, U)
    OBVIOUS
  <1>7. ps = [i \in 1 .. u |-> G[U[i] + 1]] /\ cs = [i \in 1 .. u |-> ss[U[i]]]
    BY <1>2, <1>5, <1>6, Zenon DEF PointsAt, Select
  <1>8. ps \in [1 .. u -> Point] /\ cs \in [1 .. u -> Int]
    BY <1>4, <1>7, Zenon
  <1>9. ps \in Seq(Point) /\ Len(ps) = u /\ cs \in Seq(Int) /\ Len(cs) = u
    BY ONLY <1>8, u \in Nat
  <1>10. sumprod(ps, cs) = SumTo(Products(ps, cs, u), u)
    <2>1. sumprod(ps, cs) = ProdTo(ps, cs, Len(ps))
      BY ONLY <1>9, SumprodIsProdTo
    <2> QED BY <1>9, <2>1, Zenon DEF ProdTo
  <1>11. SumTo(Products(ps, cs, u), u) = SumTo([i \in 1 .. u |-> Term(G, ss, l)[U[i]]], u)
    <2>1. PICK t : t = [i \in 1 .. u |-> Term(G, ss, l)[U[i]]]
      OBVIOUS
    <2>2. \A i \in 1 .. u : Products(ps, cs, u)[i] = t[i]
      BY <1>4, <1>7, <2>1, Zenon DEF Products
    <2>3. SumTo(Products(ps, cs, u), u) = SumTo(t, u)
      BY <2>2, SumToSame
    <2> QED BY <2>1, <2>3, Zenon
  <1> QED BY <1>1, <1>2, <1>5, <1>6, <1>9, <1>10, <1>11, Zenon DEF TermsAt, SlotSummed

\* U is what D leaves of the slots; B is the part of D and the part of U.
RestOf(U, l, D) == U = IndexesIn(l + 1, Rest(l + 1, D, Len(D)))
Parted(G, n, l, dom, ss, D, U) ==
  /\ Known(G, dom, D, Select(ss, D)) \in Point
  /\ sumprod(PointsAt(G, U), Select(ss, U)) \in Point
  /\ Messaged(n, l, dom, ss) = Plus(Known(G, dom, D, Select(ss, D)), sumprod(PointsAt(G, U), Select(ss, U)))


\* B is what the verifier knows of it, and what the hidden scalars add.
LEMMA PartedB ==
  ASSUME NEW l \in Nat, NEW n \in 0 .. l, NEW k \in Nat, NEW dom \in Int, NEW ss \in Seq(Int), Len(ss) = l + 1,
         NEW D, NEW e, Slots(D, e, l, n), NEW U, RestOf(U, l, D)
  PROVE  Parted(all_generators(n, l, k), n, l, dom, ss, D, U)
  <1>0. U = IndexesIn(l + 1, Rest(l + 1, D, Len(D)))
    BY Zenon DEF RestOf
  <1>1. PICK G \in Seq(Point) : G = all_generators(n, l, k) /\ Len(G) = (l + 2) + k
    BY GeneratorsType
  <1>2. PICK h \in Nat : h = Len(D) /\ h = Len(e)
    BY Zenon DEF Slots
  <1>3. D \in Seq(Nat) /\ \A i \in 1 .. h : D[i] \in 1 .. l + 1
    BY <1>2, Zenon DEF Slots
  <1>4. \A i, j \in 1 .. h : D[i] = D[j] => i = j
    BY <1>2, Zenon DEF Slots
  <1>5. l + 1 \in Nat
    OBVIOUS
  <1>6. Indexing(U, l + 1, Rest(l + 1, D, h))
    BY <1>0, <1>2, <1>5, IndexesType, Zenon
  <1>7. InSlots(U, l) /\ InSlots(D, l)
    BY <1>2, <1>3, <1>6, Zenon DEF Indexing, InSlots
  <1>a. /\ PointsAt(G, D) \in Seq(Point) /\ Len(PointsAt(G, D)) = Len(D)
        /\ Select(ss, D) \in Seq(Int) /\ Len(Select(ss, D)) = Len(D)
        /\ sumprod(PointsAt(G, D), Select(ss, D)) = TermsAt(G, ss, l, D)
    <2>1. SlotSummed(all_generators(n, l, k), ss, l, D)
      BY <1>7, SlotSum
    <2> QED BY <1>1, <2>1, Zenon DEF SlotSummed
  <1>b. /\ PointsAt(G, U) \in Seq(Point) /\ Len(PointsAt(G, U)) = Len(U)
        /\ Select(ss, U) \in Seq(Int) /\ Len(Select(ss, U)) = Len(U)
        /\ sumprod(PointsAt(G, U), Select(ss, U)) = TermsAt(G, ss, l, U)
    <2>1. SlotSummed(all_generators(n, l, k), ss, l, U)
      BY <1>7, SlotSum
    <2> QED BY <1>1, <2>1, Zenon DEF SlotSummed
  <1>8. PICK x : x = Term(G, ss, l)
    OBVIOUS
  <1>9. \A j \in 1 .. l + 1 : x[j] \in Point
    BY <1>1, <1>8, MessagedTerms, Zenon
  <1>10. Plus(SumTo([i \in 1 .. h |-> x[D[i]]], h), PickSum(x, U)) = SumTo(x, l + 1)
    <2>1. Plus(SumTo([i \in 1 .. h |-> x[D[i]]], h), PickSum(x, IndexesIn(l + 1, Rest(l + 1, D, h)))) = SumTo(x, l + 1)
      BY ONLY <1>3, <1>4, <1>5, <1>9, Partition, h \in Nat
    <2> QED BY <1>0, <1>2, <2>1, Zenon
  <1>11. PICK pd \in Seq(Point) : pd = PointsAt(G, D) /\ Len(pd) = h
    BY <1>a, <1>2, Zenon
  <1>12. PICK sd \in Seq(Int) : sd = Select(ss, D) /\ Len(sd) = h
    BY <1>a, <1>2, Zenon
  <1>13. sumprod(pd, sd) = SumTo([i \in 1 .. h |-> x[D[i]]], h)
    BY <1>a, <1>2, <1>8, <1>11, <1>12, Zenon DEF TermsAt
  <1>14. PICK pu \in Seq(Point) : pu = PointsAt(G, U) /\ Len(pu) = Len(U)
    BY <1>b, Zenon
  <1>15. PICK su \in Seq(Int) : su = Select(ss, U) /\ Len(su) = Len(U)
    BY <1>b, Zenon
  <1>16. sumprod(pu, su) = PickSum(x, U)
    BY <1>b, <1>8, <1>14, <1>15, Zenon DEF PickSum, Pick, TermsAt
  <1>17. P1 \in Point /\ G[1] \in Point
    <2>1. G[1] \in Point
      BY ONLY <1>1, G \in Seq(Point), l \in Nat, k \in Nat
    <2> QED BY <2>1, GeneratorAt DEF P1
  <1>18. PICK y \in Point : y = Plus(Times(P1, 1), Times(G[1], dom))
    <2>1. Times(P1, 1) \in Point /\ Times(G[1], dom) \in Point
      <3>1. 1 \in Int
        OBVIOUS
      <3> QED BY ONLY <1>17, <3>1, dom \in Int, TimesAt
    <2> QED BY <2>1, PlusAt
  <1>19. sumprod(pd, sd) \in Point /\ sumprod(pu, su) \in Point
    <2>1. Len(sd) >= Len(pd) /\ Len(su) >= Len(pu)
      BY <1>11, <1>12, <1>14, <1>15
    <2> QED BY <2>1, SumprodType
  <1>20. Known(G, dom, D, sd) = Plus(y, sumprod(pd, sd))
    <2>1. Len(sd) = Len(pd) /\ 1 \in Int
      BY <1>11, <1>12
    <2>2. sumprod(<<P1, G[1]>> \o pd, <<1, dom>> \o sd) = Plus(Plus(Times(P1, 1), Times(G[1], dom)), sumprod(pd, sd))
      BY <1>17, <2>1, PairedWith
    <2> QED BY <1>11, <1>18, <2>2, Zenon DEF Known
  <1>21. Messaged(n, l, dom, ss) = Plus(y, SumTo(x, l + 1))
    BY <1>1, <1>8, <1>18, MessagedTerms, Zenon
  <1>22. Plus(Plus(y, sumprod(pd, sd)), sumprod(pu, su)) = Plus(y, Plus(sumprod(pd, sd), sumprod(pu, su)))
    BY <1>19, PlusAssociates
  <1>23. Known(G, dom, D, sd) \in Point
    BY <1>19, <1>20, PlusAt
  <1> QED BY <1>1, <1>10, <1>12, <1>13, <1>14, <1>15, <1>16, <1>19, <1>20, <1>21, <1>22, <1>23, Zenon DEF Parted

\* B in three parts, and D of it.
ThreeParts(F, bv, Hk, T, d, r2) == F = Plus(Plus(bv, Hk), T) /\ d = Times(F, r2)
SecondSame(bv, Hk, T, S, d, c, r5, rh) ==
  Plus(Plus(Plus(Times(bv, c), Times(d, rh)), Plus(S, Times(Hk, c))), Times(T, c)) = Plus(Times(d, r5), S)


\* T2 comes out as the prover had it.
LEMMA T2Same ==
  ASSUME NEW bv \in Point, NEW Hk \in Point, NEW T \in Point, NEW S \in Point, NEW F \in Point, NEW d \in Point,
         NEW c \in Int, NEW r2 \in NotZero, NEW r5 \in Int, NEW rh \in Int, ThreeParts(F, bv, Hk, T, d, r2),
         Cong(rh, r5 - Invert(r2) * c)
  PROVE  SecondSame(bv, Hk, T, S, d, c, r5, rh)
  <1>1. PICK v \in Int : v = Invert(r2)
    BY InvertType DEF NotZero
  <1>2. r2 \in Int
    BY NotZeroIsScalar
  <1>3. PICK c2 \in Int : c2 = -c
    OBVIOUS
  <1>4. PICK w \in Int : w = v * c2
    OBVIOUS
  <1>5. Times(d, rh) = Plus(Times(d, r5), Times(d, w))
    <2>1. r5 - v * c = r5 + w
      <3>1. v * (-c) = -(v * c)
        BY ONLY v \in Int, c \in Int
      <3>2. w = -(v * c)
        BY <1>3, <1>4, <3>1
      <3> QED BY <3>2
    <2>2. Cong(rh, r5 + w)
      BY <1>1, <2>1, Zenon
    <2>3. r5 + w \in Int
      OBVIOUS
    <2>4. Times(d, rh) = Times(d, r5 + w)
      BY <2>2, <2>3, TimesReduced
    <2> QED BY <2>4, TimesSum
  <1>6. Times(d, w) = Times(F, c2)
    <2>1. Times(d, v) = F
      BY <1>1, InvertCancels, Zenon DEF ThreeParts
    <2>2. Times(Times(d, v), c2) = Times(d, v * c2)
      BY TimesTwice
    <2> QED BY <1>4, <2>1, <2>2, Zenon
  <1>7. PICK a \in Point, b \in Point, t \in Point, n \in Point, y \in Point :
          a = Times(bv, c) /\ b = Times(Hk, c) /\ t = Times(T, c) /\ n = Times(F, c2) /\ y = Times(d, r5)
    BY TimesAt
  <1>8. Opposite(Plus(Plus(a, b), t), n)
    <2>1. PICK x \in Point : x = Plus(bv, Hk)
      BY PlusAt
    <2>2. Times(Plus(x, T), c) = Plus(Times(x, c), t)
      BY <1>7, TimesPlus
    <2>3. Times(Plus(bv, Hk), c) = Plus(a, b)
      BY <1>7, TimesPlus
    <2>4. Plus(Plus(a, b), t) = Times(F, c)
      BY <2>1, <2>2, <2>3, Zenon DEF ThreeParts
    <2>5. Plus(Times(F, c), Times(F, c2)) = Identity
      BY <1>3, TimesOpposite
    <2> QED BY <1>7, <2>4, <2>5, Zenon DEF Opposite
  <1>9. FourCancel(a, b, t, n, y, S)
    BY ONLY <1>8, CancelsFour, a \in Point, b \in Point, t \in Point, n \in Point, y \in Point, S \in Point
  <1> QED BY <1>5, <1>6, <1>7, <1>9, Zenon DEF FourCancel, SecondSame

\* An element of an index sequence has one place in it, and keeps it when keys
\* follow.
Extended(w, U, l, k) ==
  /\ w \in Seq(Nat) /\ Len(w) = Len(U) + k
  /\ \A i \in 1 .. Len(U) : w[i] = U[i]
  /\ \A i \in 1 .. k : w[Len(U) + i] = l + i

LEMMA KeySlotsAt ==
  ASSUME NEW l \in Nat, NEW k \in Nat, NEW U, NEW S, Indexing(U, l, S)
  PROVE  Extended(KeySlots(U, l, k), U, l, k)
  <1>1. U \in Seq(Nat)
    BY Zenon DEF Indexing
  <1>2. PICK h \in Seq(Nat) : h = Following(l, k) /\ Len(h) = k /\ \A i \in 1 .. k : h[i] = l + i
    BY FollowingType, Zenon
  <1>3. U \o h \in Seq(Nat) /\ Len(U \o h) = Len(U) + Len(h)
    BY <1>1, <1>2, ConcatProperties
  <1>4. PICK w : w = U \o h
    OBVIOUS
  <1>5. \A i \in 1 .. Len(U) : w[i] = U[i]
    BY <1>1, <1>2, <1>4, FirstPart
  <1>6. \A i \in 1 .. k : w[Len(U) + i] = h[i]
    BY <1>1, <1>2, <1>4, SecondPart
  <1> QED BY <1>2, <1>3, <1>4, <1>5, <1>6, Zenon DEF KeySlots, Extended

LEMMA PositionAt ==
  ASSUME NEW s, NEW j \in DOMAIN s, \A i \in DOMAIN s : s[i] = s[j] => i = j
  PROVE  PositionOf(s[j], s) = j
  <1>1. \E i \in DOMAIN s : s[i] = s[j]
    OBVIOUS
  <1>2. PositionOf(s[j], s) \in DOMAIN s /\ s[PositionOf(s[j], s)] = s[j]
    BY <1>1, Zenon DEF PositionOf
  <1> QED BY <1>2, Zenon

LEMMA PositionKept ==
  ASSUME NEW l \in Nat, NEW k \in Nat, NEW U, NEW S, Indexing(U, l, S), NEW j \in 1 .. Len(U)
  PROVE  PositionOf(U[j], U) = j /\ PositionOf(U[j], KeySlots(U, l, k)) = j
  <1>1. PICK u \in Nat : u = Len(U)
    BY Zenon DEF Indexing
  <1>2. /\ U \in Seq(Nat) /\ \A i \in 1 .. u : U[i] \in 1 .. l
        /\ \A i, m \in 1 .. u : U[i] = U[m] => i = m
    BY <1>1, Zenon DEF Indexing
  <1>3. DOMAIN U = 1 .. u
    BY ONLY <1>1, <1>2
  <1>4. PositionOf(U[j], U) = j
    BY <1>1, <1>2, <1>3, PositionAt, Zenon
  <1>5. PICK w \in Seq(Nat) : /\ w = KeySlots(U, l, k) /\ Len(w) = u + k /\ \A i \in 1 .. u : w[i] = U[i]
                              /\ \A i \in 1 .. k : w[u + i] = l + i
    <2>1. Extended(KeySlots(U, l, k), U, l, k)
      BY KeySlotsAt
    <2> QED BY <1>1, <2>1, Zenon DEF Extended
  <1>6. DOMAIN w = 1 .. u + k
    BY ONLY <1>5, w \in Seq(Nat)
  <1>7. j \in 1 .. u
    BY <1>1, Zenon
  <1>8. w[j] = U[j]
    BY <1>5, <1>7, Zenon
  <1>9. ASSUME NEW i \in 1 .. u + k, w[i] = w[j] PROVE i = j
    <2>1. CASE i \in 1 .. u
      <3>1. U[i] = U[j]
        BY <1>5, <1>8, <1>9, <2>1, Zenon
      <3> QED BY <1>2, <1>7, <2>1, <3>1, Zenon
    <2>2. CASE ~ (i \in 1 .. u)
      <3>1. PICK m \in 1 .. k : i = u + m
        <4>1. i - u \in 1 .. k /\ i = u + (i - u)
          BY ONLY <2>2, i \in 1 .. u + k, u \in Nat, k \in Nat
        <4> QED BY <4>1, Zenon
      <3>2. w[i] = l + m
        BY <1>5, <3>1, Zenon
      <3>3. U[j] \in 1 .. l
        BY <1>2, <1>7, Zenon
      <3>4. l + m = U[j]
        BY <1>8, <1>9, <3>2, Zenon
      <3> QED BY ONLY <3>3, <3>4, l \in Nat, k \in Nat, m \in 1 .. k
    <2> QED BY <2>1, <2>2
  <1>10. j \in DOMAIN w
    BY ONLY <1>6, <1>7, u \in Nat, k \in Nat
  <1>11. PositionOf(w[j], w) = j
    <2>1. \A i \in DOMAIN w : w[i] = w[j] => i = j
      BY <1>6, <1>9, Zenon
    <2> QED BY <1>10, <2>1, PositionAt, Zenon
  <1> QED BY <1>4, <1>5, <1>8, <1>11, Zenon
=============================================================================
