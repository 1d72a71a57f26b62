----------------------------- MODULE NumberFacts -----------------------------
(***************************************************************************)
(* Facts about numbers that several proofs need: induction, least and      *)
(* greatest numbers, powers of two, and remainders.                        *)
(***************************************************************************)
EXTENDS Integers, FiniteSets, FiniteSetsExt, TLAPS, FiniteSetTheorems, WellFoundedInduction

\* Numbers from 0 on are all the natural numbers.
LEMMA Induction ==
  ASSUME NEW T, 0 \in T, \A n \in Nat : n \in T => n + 1 \in T
  PROVE  Nat \subseteq T
<1> DEFINE R == {ss \in Nat \X Nat : ss[1] < ss[2]}
           B == Nat \ T
<1>1. IsWellFoundedOn(R, Nat)
  BY NatLessThanWellFounded DEF OpToRel
<1>2. \A x, y \in Nat : x < y => <<x, y>> \in R
  OBVIOUS
<1> HIDE DEF R
<1>3. SUFFICES ASSUME B # {} PROVE FALSE
  OBVIOUS
<1>4. \E x \in B : \A y \in B : ~(<<y, x>> \in R)
  BY <1>1, <1>3, WFMin
<1>5. PICK x \in B : \A y \in B : ~(<<y, x>> \in R)
  BY <1>4
<1>6. x \in Nat \ {0} /\ x - 1 \in Nat /\ x - 1 < x
  BY <1>5
<1>7. x - 1 \in T
  BY <1>2, <1>5, <1>6
<1>8. x \in T
  <2>1. (x - 1) + 1 \in T
    BY <1>6, <1>7
  <2> QED
    BY <2>1, <1>6
<1> QED
  BY <1>5, <1>8

\* Sets of numbers have a least and a bounded one a greatest number.
LEMMA NatMin ==
  ASSUME NEW S, S \subseteq Nat, S # {}
  PROVE  Min(S) \in S /\ \A y \in S : Min(S) <= y
<1> DEFINE T == {n \in Nat : \A m \in S : n <= m}
<1>1. SUFFICES \E x \in S : \A y \in S : x <= y
  BY DEF Min
<1>2. 0 \in T
  OBVIOUS
<1>3. PICK s \in S : TRUE
  OBVIOUS
<1>4. s + 1 \notin T
  BY <1>3
<1>5. PICK n \in Nat : n \in T /\ n + 1 \notin T
  <2>1. Nat \subseteq T => FALSE
    <3>1. s + 1 \in Nat
      BY <1>3
    <3> QED
      BY <3>1, <1>4
  <2> HIDE DEF T
  <2> QED
    BY <1>2, <2>1, Induction
<1>6. PICK m \in S : m < n + 1
  BY <1>5
<1> QED
  BY <1>5, <1>6

\* A set of numbers below a bound has a greatest.
LEMMA NatMax ==
  ASSUME NEW S, S \subseteq Nat, S # {}, NEW b \in Nat, \A x \in S : x <= b
  PROVE  Max(S) \in S /\ \A y \in S : y <= Max(S)
<1> DEFINE T == {n \in Nat : \E m \in S : n <= m}
<1>1. SUFFICES \E x \in S : \A y \in S : y <= x
  BY DEF Max
<1>2. 0 \in T
  <2>1. \E m \in S : 0 <= m
    <3>1. PICK m \in S : TRUE
      OBVIOUS
    <3> QED
      BY <3>1
  <2> QED
    BY <2>1
<1>4. b + 1 \notin T
  <2>1. \A m \in S : ~(b + 1 <= m)
    OBVIOUS
  <2> QED
    BY <2>1
<1>5. PICK n \in Nat : n \in T /\ n + 1 \notin T
  <2>1. Nat \subseteq T => FALSE
    <3>1. b + 1 \in Nat
      OBVIOUS
    <3> QED
      BY <3>1, <1>4
  <2> HIDE DEF T
  <2> QED
    BY <1>2, <2>1, Induction
<1>6. PICK m \in S : n <= m
  BY <1>5
<1> QED
  BY <1>5, <1>6

\* Powers of two, from the number of subsets of a set.
LEMMA PowerOfTwo ==
  ASSUME NEW n \in Nat
  PROVE  2^n \in Nat /\ 2^n >= 1 /\ 2^(n + 1) = 2 * 2^n
<1> DEFINE S == 1..n
           T == 1..(n + 1)
           Old == SUBSET S
           New == {A \cup {n + 1} : A \in SUBSET S}
           f == [A \in Old |-> A \cup {n + 1}]
<1>1. /\ IsFiniteSet(S) /\ Cardinality(S) = n
      /\ IsFiniteSet(T) /\ Cardinality(T) = n + 1
  BY FS_Interval
<1>2. /\ IsFiniteSet(Old) /\ Cardinality(Old) = 2^n
      /\ IsFiniteSet(SUBSET T) /\ Cardinality(SUBSET T) = 2^(n + 1)
  BY <1>1, FS_SUBSET
<1>3. 2^n \in Nat
  BY <1>2, FS_CardinalityType
<1>4. {} \in Old
  OBVIOUS
<1>5. 2^n # 0
  BY <1>2, <1>4, FS_EmptySet
<1>6. f \in Bijection(Old, New)
  <2>1. f \in [Old -> New]
    OBVIOUS
  <2>2. ASSUME NEW A \in Old, NEW B \in Old, f[A] = f[B]
        PROVE  A = B
    <3>1. n + 1 \notin A /\ n + 1 \notin B
      OBVIOUS
    <3>2. A \cup {n + 1} = B \cup {n + 1}
      BY <2>2
    <3> QED
      BY <3>1, <3>2
  <2>3. \A C \in New : \E A \in Old : f[A] = C
    OBVIOUS
  <2> QED
    BY <2>1, <2>2, <2>3, Zenon DEF Bijection, Injection, Surjection, IsInjective
<1>7. IsFiniteSet(New) /\ Cardinality(New) = 2^n
  <2>1. ExistsBijection(Old, New)
    BY <1>6 DEF ExistsBijection
  <2> QED
    BY <1>2, <2>1, FS_Bijection
<1>8. SUBSET T = Old \cup New
  <2>1. ASSUME NEW A \in SUBSET T
        PROVE  A \in Old \cup New
    <3>1. CASE n + 1 \in A
      <4>1. A \ {n + 1} \in SUBSET S /\ A = (A \ {n + 1}) \cup {n + 1}
        BY <3>1
      <4> QED
        BY <4>1
    <3>2. CASE n + 1 \notin A
      BY <3>2
    <3> QED
      BY <3>1, <3>2
  <2>2. \A A \in Old : A \in SUBSET T
    OBVIOUS
  <2>3. \A A \in New : A \in SUBSET T
    OBVIOUS
  <2> HIDE DEF T, Old, New
  <2> QED
    BY <2>1, <2>2, <2>3
<1>9. Old \cap New = {}
  <2>1. \A A \in Old : n + 1 \notin A
    OBVIOUS
  <2>2. \A A \in New : n + 1 \in A
    OBVIOUS
  <2> QED
    BY <2>1, <2>2
<1> HIDE DEF S, T, Old, New, f
<1>10. Cardinality(Old \cup New) = 2^n + 2^n - 0
  <2>1. Cardinality(Old \cup New) = Cardinality(Old) + Cardinality(New) - Cardinality(Old \cap New)
    BY <1>2, <1>7, FS_Union
  <2> QED
    BY <2>1, <1>2, <1>7, <1>9, FS_EmptySet
<1>11. 2^(n + 1) = 2^n + 2^n
  <2>1. Cardinality(Old \cup New) = 2^(n + 1)
    BY <1>2, <1>8
  <2> HIDE DEF Old
  <2>2. \A p \in Nat : p + p - 0 = p + p
    OBVIOUS
  <2> QED
    BY <2>1, <2>2, <1>3, <1>10
<1> QED
  BY <1>3, <1>5, <1>11

-----------------------------------------------------------------------------
\* A number is a multiple of another and a remainder,
LEMMA Division ==
  ASSUME NEW m \in Nat \ {0}, NEW x \in Int
  PROVE  /\ x \div m \in Int /\ x % m \in 0..(m - 1)
         /\ x = m * (x \div m) + (x % m)
<1>1. x \div m \in Int /\ x % m \in 0..(m - 1)
  OBVIOUS
<1>2. x % m = x - m * (x \div m)
  BY SMTT(30)
<1> QED
  BY <1>1, <1>2, SMTT(30)

\* of which there is one only.
LEMMA Remainder ==
  ASSUME NEW m \in Nat \ {0}, NEW q \in Int, NEW r \in 0..(m - 1)
  PROVE  (m * q + r) % m = r
OBVIOUS

\* Multiples do not change a remainder.
LEMMA SameRemainder ==
  ASSUME NEW m \in Nat \ {0}, NEW x \in Int, NEW q \in Int
  PROVE  (x + m * q) % m = x % m
<1> DEFINE d == x \div m
           r == x % m
<1>1. d \in Int /\ r \in 0..(m - 1) /\ x = m * d + r
  BY Division
<1> HIDE DEF d
<1>2. x + m * q = m * (d + q) + r
  <2> HIDE DEF r
  <2> QED
    BY <1>1
<1>3. d + q \in Int
  BY <1>1
<1>4. (m * (d + q) + r) % m = r
  <2> HIDE DEF r
  <2> QED
    BY <1>1, <1>3, Remainder
<1> QED
  BY <1>2, <1>4

-----------------------------------------------------------------------------
\* Powers and quotients.
LEMMA PowerPositive ==
  ASSUME NEW a \in Nat
  PROVE  2^a \in Nat \ {0}
BY PowerOfTwo

LEMMA PowerSum ==
  ASSUME NEW a \in Nat, NEW b \in Nat
  PROVE  2^(a + b) = 2^a * 2^b
<1> DEFINE T == {x \in Nat : 2^(a + x) = 2^a * 2^x}
<1>1. 0 \in T
  <2>1. 2^0 = 1 /\ a + 0 = a /\ 2^a \in Nat
    BY PowerOfTwo
  <2> QED
    BY <2>1
<1>2. ASSUME NEW x \in Nat, x \in T
      PROVE  x + 1 \in T
  <2>1. 2^(x + 1) = 2 * 2^x /\ 2^x \in Nat /\ 2^a \in Nat
    BY PowerOfTwo
  <2>2. 2^((a + x) + 1) = 2 * 2^(a + x)
    BY PowerOfTwo
  <2>3. (a + x) + 1 = a + (x + 1)
    OBVIOUS
  <2>4. 2^(a + x) = 2^a * 2^x
    BY <1>2
  <2> DEFINE p == 2^a
             q == 2^x
  <2>5. 2 * (p * q) = p * (2 * q)
    <3>1. p \in Nat /\ q \in Nat
      BY <2>1
    <3> HIDE DEF p, q
    <3> QED
      BY <3>1
  <2>6. 2^(a + (x + 1)) = 2^a * 2^(x + 1)
    BY <2>1, <2>2, <2>3, <2>4, <2>5
  <2> QED
    BY <2>6
<1> HIDE DEF T
<1>3. Nat \subseteq T
  BY <1>1, <1>2, Induction
<1>4. b \in T
  BY <1>3
<1> QED
  BY <1>4 DEF T

LEMMA Quotient ==
  ASSUME NEW n \in Nat, NEW m \in Nat \ {0}
  PROVE  n \div m \in Nat /\ m * (n \div m) <= n /\ n < m * (n \div m) + m
<1> DEFINE q == n \div m
           r == n % m
<1>1. q \in Int /\ r \in 0..(m - 1) /\ n = m * q + r
  BY Division
<1> HIDE DEF q, r
<1>2. m * q \in Int
  BY <1>1
<1>3. q >= 0
  <2>1. SUFFICES ASSUME q <= -1 PROVE FALSE
    BY <1>1
  <2>2. m * q <= -m
    BY <1>1, <2>1
  <2> QED
    BY <1>1, <1>2, <2>2
<1> QED
  BY <1>1, <1>2, <1>3 DEF q

\* The quotient is the one number that leaves a remainder.
LEMMA QuotientIs ==
  ASSUME NEW n \in Nat, NEW m \in Nat \ {0}, NEW q \in Nat, m * q <= n, n < m * q + m
  PROVE  n \div m = q
<1> DEFINE d == n \div m
<1>1. d \in Nat /\ m * d <= n /\ n < m * d + m
  BY Quotient
<1> HIDE DEF d
<1>2. m * (d - q) < m /\ m * (q - d) < m
  <2>1. m * (d - q) = m * d - m * q /\ m * (q - d) = m * q - m * d
    BY <1>1
  <2>2. m * d \in Int /\ m * q \in Int
    BY <1>1
  <2> QED
    BY <1>1, <2>1, <2>2
<1>3. ~(d - q >= 1)
  <2>1. SUFFICES ASSUME d - q >= 1 PROVE FALSE
    OBVIOUS
  <2>2. m * (d - q) >= m
    BY <1>1, <2>1
  <2> QED
    BY <1>1, <1>2, <2>2
<1>4. ~(q - d >= 1)
  <2>1. SUFFICES ASSUME q - d >= 1 PROVE FALSE
    OBVIOUS
  <2>2. m * (q - d) >= m
    BY <1>1, <2>1
  <2> QED
    BY <1>1, <1>2, <2>2
<1>5. d = q
  BY <1>1, <1>3, <1>4
<1> QED
  BY <1>5 DEF d

\* A quotient taken apart.
LEMMA QuotientTwice ==
  ASSUME NEW n \in Nat, NEW a \in Nat \ {0}, NEW b \in Nat \ {0}
  PROVE  (n \div a) \div b = n \div (a * b)
<1> DEFINE q == n \div a
           d == q \div b
           u == b * d
<1>1. q \in Nat /\ a * q <= n /\ n < a * q + a
  BY Quotient
<1> HIDE DEF q
<1>2. d \in Nat /\ b * d <= q /\ q < b * d + b
  BY <1>1, Quotient
<1> HIDE DEF d
<1>3. u \in Nat /\ u <= q /\ q + 1 <= u + b
  <2>1. u \in Nat /\ u <= q /\ q < u + b
    BY <1>2
  <2> HIDE DEF u
  <2> QED
    BY <1>1, <2>1
<1>4. (a * b) * d = a * u /\ a * b \in Nat \ {0}
  BY <1>2
<1> HIDE DEF u
<1>5. a * u <= a * q
  BY <1>1, <1>3
<1>6. a * (q + 1) <= a * (u + b)
  BY <1>1, <1>3
<1>7. a * (q + 1) = a * q + a /\ a * (u + b) = a * u + a * b
  BY <1>1, <1>3
<1>8. a * u \in Nat /\ a * q \in Nat /\ a * b \in Nat
  BY <1>1, <1>3
<1> DEFINE ab == a * b
<1>9. ab * d <= n /\ n < ab * d + ab
  BY <1>1, <1>4, <1>5, <1>6, <1>7, <1>8
<1>10. ab \in Nat \ {0}
  BY <1>4
<1> HIDE DEF ab
<1>11. n \div ab = d
  BY <1>2, <1>9, <1>10, QuotientIs
<1> QED
  BY <1>11 DEF ab, d, q
=============================================================================
