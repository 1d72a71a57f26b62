----------------------------- MODULE BcDec_proofs -----------------------------
(***************************************************************************)
(* What bcdec makes of mangled dumps, for words and digits of every width, *)
(* every set of dumps and every size of the reader's buffer.               *)
(***************************************************************************)
EXTENDS BcDec, NumberFacts, SequenceTheorems

-----------------------------------------------------------------------------
(* Digits, words, and the weights of digits.                               *)

LEMMA UnitType ==
  ASSUME NEW k \in Nat
  PROVE  Unit(k) \in Nat \ {0}
<1>1. DigitBits * k \in Nat
  BY NumberAssumption
<1> QED
  BY <1>1, PowerPositive DEF Unit

LEMMA UnitSum ==
  ASSUME NEW a \in Nat, NEW b \in Nat
  PROVE  Unit(a + b) = Unit(a) * Unit(b)
<1> DEFINE da == DigitBits * a
           db == DigitBits * b
<1>1. da \in Nat /\ db \in Nat /\ DigitBits * (a + b) = da + db
  BY NumberAssumption
<1>2. Unit(a + b) = 2^(da + db) /\ Unit(a) = 2^da /\ Unit(b) = 2^db
  BY <1>1 DEF Unit
<1> HIDE DEF da, db
<1> QED
  BY <1>1, <1>2, PowerSum

LEMMA HalfFacts ==
  /\ Half \in Nat /\ Half >= 8 /\ Half % 2 = 0 /\ Half = Unit(1) /\ Unit(0) = 1
  /\ \E h \in Nat : Half = 2 * h
<1>1. DigitBits - 3 \in Nat /\ DigitBits = 3 + (DigitBits - 3) /\ DigitBits \in Nat
  BY NumberAssumption
<1>2. Half = 2^3 * 2^(DigitBits - 3)
  BY <1>1, PowerSum DEF Half
<1>3. 2^(DigitBits - 3) \in Nat \ {0}
  BY <1>1, PowerPositive
<1>4. 2^0 = 1 /\ 2^1 = 2 /\ 2^2 = 4 /\ 2^3 = 8
  <2>1. 2^0 = 1
    BY PowerOfTwo
  <2>2. 2^(0 + 1) = 2 * 2^0 /\ 2^(1 + 1) = 2 * 2^1 /\ 2^(2 + 1) = 2 * 2^2
    BY PowerOfTwo
  <2> QED
    BY <2>1, <2>2
<1> DEFINE h == 2^(DigitBits - 3)
<1>5. Half = 8 * h /\ h \in Nat \ {0}
  BY <1>2, <1>3, <1>4
<1> HIDE DEF h
<1>6. Half \in Nat /\ Half >= 8 /\ Half % 2 = 0 /\ 4 * h \in Nat /\ Half = 2 * (4 * h)
  BY <1>5
<1>7. Half = Unit(1)
  BY <1>1 DEF Half, Unit
<1>8. Unit(0) = 1
  <2>1. DigitBits * 0 = 0
    BY <1>1
  <2> QED
    BY <1>4, <2>1 DEF Unit
<1> QED
  BY <1>6, <1>7, <1>8

LEMMA UnitNext ==
  ASSUME NEW k \in Nat
  PROVE  Unit(k + 1) = Unit(k) * Half
BY UnitSum, HalfFacts

LEMMA UnitGrows ==
  ASSUME NEW a \in Nat, NEW b \in Nat, a <= b
  PROVE  Unit(a) <= Unit(b)
<1>1. b - a \in Nat /\ b = a + (b - a)
  OBVIOUS
<1>2. Unit(b) = Unit(a) * Unit(b - a)
  BY <1>1, UnitSum
<1>3. Unit(a) \in Nat \ {0} /\ Unit(b - a) \in Nat \ {0}
  BY <1>1, UnitType
<1> DEFINE u == Unit(a)
           w == Unit(b - a)
<1>4. u * w >= u
  <2> HIDE DEF u, w
  <2>0. u \in Nat \ {0} /\ w \in Nat \ {0}
    BY <1>3 DEF u, w
  <2>1. u * w = u + u * (w - 1) /\ w - 1 \in Nat
    BY <2>0
  <2>2. u * (w - 1) \in Nat
    BY <2>0, <2>1
  <2> QED
    BY <2>0, <2>1, <2>2
<1> QED
  BY <1>2, <1>4

\* A word is what fits in the digits but the last, and some bits of that one,
\* in which there is room for one bit more.
LEMMA WordFacts ==
  \E l \in Nat \ {0} :
    /\ Low = 2 * l /\ Word = 4 * (l * Unit(UlebMax - 1))
    /\ Top = 2 * (l * Unit(UlebMax - 1)) /\ Word \div 4 = l * Unit(UlebMax - 1)
    /\ 2 * Word <= Unit(UlebMax)
<1> DEFINE b == DigitBits * (UlebMax - 1)
           e == WordBits - 2 - b
           l == 2^e
           u == Unit(UlebMax - 1)
<1>1. UlebMax \in Nat /\ UlebMax - 1 \in Nat /\ WordBits \in Nat
  BY NumberAssumption
<1>2. b \in Nat /\ b + 2 <= WordBits
  BY <1>1, NumberAssumption
<1>3. e \in Nat /\ WordBits = 2 + (e + b)
  <2> HIDE DEF b
  <2> QED
    BY <1>1, <1>2
<1>4. u = 2^b
  BY DEF Unit
<1> HIDE DEF b, e
<1>5. l \in Nat \ {0} /\ u \in Nat \ {0}
  BY <1>2, <1>3, <1>4, PowerPositive
<1>6. Word = 2^2 * 2^(e + b) /\ 2^(e + b) = l * u
  <2>1. e + b \in Nat /\ 2 \in Nat
    BY <1>2, <1>3
  <2>2. 2^(2 + (e + b)) = 2^2 * 2^(e + b)
    BY <2>1, PowerSum
  <2>3. 2^(e + b) = 2^e * 2^b
    BY <1>2, <1>3, PowerSum
  <2> QED
    BY <1>3, <1>4, <2>2, <2>3 DEF Word
<1>7. 2^2 = 4
  <2>1. 2^0 = 1
    BY PowerOfTwo
  <2>2. 2^(0 + 1) = 2 * 2^0 /\ 2^(1 + 1) = 2 * 2^1
    BY PowerOfTwo
  <2> QED
    BY <2>1, <2>2
<1> DEFINE q == l * u
<1>8. Word = 4 * q /\ q \in Nat \ {0}
  BY <1>5, <1>6, <1>7
<1>9. Low = 2 * l
  <2>1. (2 * u) * (2 * l) = 4 * q /\ 2 * u \in Nat \ {0} /\ 2 * l \in Nat
    BY <1>5
  <2>2. Word \in Nat
    <3> HIDE DEF q
    <3> QED
      BY <1>8
  <2> DEFINE m == 2 * u
             d == 2 * l
  <2>3. m * d = Word /\ m \in Nat \ {0} /\ d \in Nat
    BY <2>1, <1>8
  <2> HIDE DEF m, d, l
  <2>4. Word \div m = d
    BY <2>2, <2>3, QuotientIs
  <2> QED
    BY <2>4 DEF Low, m, d
<1>10. Top = 2 * q /\ Word \div 4 = q
  <2> HIDE DEF q
  <2> QED
    BY <1>8 DEF Top
<1>11. 2 * Word <= Unit(UlebMax)
  <2>1. DigitBits * UlebMax \in Nat /\ WordBits + 1 <= DigitBits * UlebMax
    BY <1>1, NumberAssumption
  <2> DEFINE dm == DigitBits * UlebMax
             r == dm - (WordBits + 1)
  <2>2. r \in Nat /\ dm = (WordBits + 1) + r /\ WordBits + 1 \in Nat
    <3> HIDE DEF dm
    <3> QED
      BY <1>1, <2>1 DEF dm
  <2>3. Unit(UlebMax) = 2^dm
    BY DEF Unit
  <2> HIDE DEF dm, r
  <2>4. 2^dm = 2^(WordBits + 1) * 2^r /\ 2^(WordBits + 1) = 2 * Word
    BY <1>1, <2>2, PowerSum, PowerOfTwo DEF Word
  <2>5. 2^r \in Nat \ {0}
    BY <2>2, PowerPositive
  <2> DEFINE w == 2 * Word
             f == 2^r
  <2>6. w \in Nat /\ f \in Nat \ {0} /\ Unit(UlebMax) = w * f
    <3>1. w \in Nat
      <4> HIDE DEF q
      <4> QED
        BY <1>8
    <3> QED
      BY <2>3, <2>4, <2>5, <3>1
  <2> HIDE DEF w, f
  <2>7. w * f = w + w * (f - 1) /\ w * (f - 1) \in Nat
    BY <2>6
  <2>8. w <= Unit(UlebMax)
    <3> DEFINE x == w * (f - 1)
    <3>1. x \in Nat /\ Unit(UlebMax) = w + x
      BY <2>6, <2>7
    <3> HIDE DEF x
    <3> QED
      BY <3>1, <2>6
  <2> QED
    BY <2>8 DEF w
<1> QED
  BY <1>5, <1>8, <1>9, <1>10, <1>11

LEMMA WordType == Word \in Nat /\ Word >= 32
<1>1. PICK l \in Nat \ {0} : Word = 4 * (l * Unit(UlebMax - 1))
  BY WordFacts
<1>2. UlebMax - 1 \in Nat /\ 1 <= UlebMax - 1 /\ 1 \in Nat
  BY NumberAssumption
<1>3. Unit(UlebMax - 1) \in Nat \ {0} /\ Unit(UlebMax - 1) >= 8
  BY <1>2, UnitType, UnitGrows, HalfFacts
<1> DEFINE u == Unit(UlebMax - 1)
           q == l * u
<1> HIDE DEF u
<1>4. q \in Nat /\ q >= 8
  <2>1. u \in Nat /\ u >= 8 /\ l \in Nat /\ l - 1 \in Nat
    BY <1>1, <1>3 DEF u
  <2>2. q = u + u * (l - 1) /\ u * (l - 1) \in Nat
    BY <2>1
  <2> DEFINE r == u * (l - 1)
  <2> HIDE DEF q, r
  <2>3. q = u + r /\ r \in Nat
    BY <2>2 DEF r
  <2> QED
    BY <2>1, <2>3
<1>5. Word = 4 * q
  BY <1>1 DEF u
<1> HIDE DEF q
<1> QED
  BY <1>4, <1>5

-----------------------------------------------------------------------------
(* What is read from a file: numbers.                                      *)

\* Digits that end where the number has no more make the number.
LEMMA DigitsAre ==
  ASSUME NEW s, Len(s) \in Nat, NEW i \in Nat, NEW x \in Nat, NEW m \in Nat \ {0},
         x < 2 * Word, x < Unit(m), i + m <= Len(s),
         \A k \in 0..(m - 1) :
           /\ At(s, i + k) \in Nat /\ At(s, i + k) % Half = (x \div Unit(k)) % Half
           /\ (At(s, i + k) < Half <=> k = m - 1)
  PROVE  LastDigit(s, i) = i + (m - 1) /\ Digits(s, i) = x
<1> DEFINE M == LastDigit(s, i) + 1 - i
           Step(g, k) == ((At(s, i + M - k) % Half) + Half * g[k - 1]) % (2 * Word)
           f == CHOOSE f : f = [k \in 0..M |-> IF k = 0 THEN 0 ELSE Step(f, k)]
           g == [k \in 0..m |-> x \div Unit(m - k)]
<1>1. LastDigit(s, i) = i + (m - 1)
  <2> DEFINE Q(j) == At(s, j) < Half /\ \A k \in i..(j - 1) : At(s, k) >= Half
             J == i + (m - 1)
  <2>1. J \in i..(i + Len(s))
    OBVIOUS
  <2>2. \A k \in i..(J - 1) : At(s, k) \in Nat /\ At(s, k) >= Half
    <3> TAKE k \in i..(J - 1)
    <3>1. k - i \in 0..(m - 1) /\ i + (k - i) = k /\ k - i # m - 1
      OBVIOUS
    <3>2. At(s, i + (k - i)) \in Nat /\ ~(At(s, i + (k - i)) < Half)
      BY <3>1
    <3>3. At(s, k) \in Nat /\ ~(At(s, k) < Half)
      BY <3>1, <3>2
    <3> QED
      BY <3>3, HalfFacts
  <2>3. At(s, J) \in Nat /\ At(s, J) < Half
    <3>1. m - 1 \in 0..(m - 1)
      OBVIOUS
    <3> QED
      BY <3>1
  <2>4. Q(J)
    BY <2>2, <2>3
  <2>5. LastDigit(s, i) = CHOOSE j \in i..(i + Len(s)) : Q(j)
    BY DEF LastDigit
  <2> DEFINE L == LastDigit(s, i)
  <2>6. L \in i..(i + Len(s)) /\ Q(L)
    BY <2>1, <2>4, <2>5
  <2> HIDE DEF L
  <2>7. ~(L < J)
    BY <2>2, <2>6, HalfFacts
  <2>8. ~(J < L)
    BY <2>1, <2>3, <2>6, HalfFacts
  <2>9. J \in Int /\ L \in Int
    BY <2>1, <2>6
  <2> HIDE DEF J
  <2>10. L = J
    BY <2>7, <2>8, <2>9
  <2> QED
    BY <2>10 DEF L, J
<1>2. M = m
  BY <1>1
<1>3. ASSUME NEW k \in 1..m
      PROVE  Step(g, k) = x \div Unit(m - k)
  <2> DEFINE a == m - k
             y == x \div Unit(a)
  <2>1. a \in 0..(m - 1) /\ a \in Nat /\ i + M - k = i + a /\ k - 1 \in 0..m
        /\ m - (k - 1) = a + 1
    BY <1>2
  <2>2. At(s, i + M - k) % Half = y % Half
    BY <2>1
  <2>3. g[k - 1] = y \div Half
    <3>1. g[k - 1] = x \div Unit(a + 1)
      BY <2>1
    <3>2. Unit(a) \in Nat \ {0} /\ Half \in Nat \ {0}
      BY <2>1, UnitType, HalfFacts
    <3>3. (x \div Unit(a)) \div Half = x \div (Unit(a) * Half)
      BY <3>2, QuotientTwice
    <3> QED
      BY <2>1, <3>1, <3>3, UnitNext
  <2>4. y \in Nat /\ y <= x
    <3>1. Unit(a) \in Nat \ {0}
      BY <2>1, UnitType
    <3>2. y \in Nat /\ Unit(a) * y <= x
      BY <3>1, Quotient
    <3> DEFINE u == Unit(a)
    <3> HIDE DEF u, y
    <3>3. u \in Nat /\ u - 1 \in Nat /\ y \in Nat
      BY SMTT(20), <3>1, <3>2 DEF u
    <3>4. u * y = y + (u - 1) * y /\ (u - 1) * y \in Nat
      BY <3>3
    <3> DEFINE r == (u - 1) * y
    <3>5. u * y = y + r /\ r \in Nat /\ u * y <= x
      BY <3>2, <3>4 DEF u
    <3> HIDE DEF r
    <3> QED
      BY <3>3, <3>5
  <2> HIDE DEF y
  <2>5. (y % Half) + Half * (y \div Half) = y
    <3>1. Half \in Nat \ {0}
      BY HalfFacts
    <3>2. y \in Int
      BY <2>4
    <3>3. y = Half * (y \div Half) + (y % Half) /\ y \div Half \in Int /\ y % Half \in 0..(Half - 1)
      BY <3>1, <3>2, Division
    <3>4. y % Half \in Int
      BY <3>1, <3>3
    <3> QED
      BY <3>1, <3>2, <3>3, <3>4
  <2>6. y % (2 * Word) = y
    <3> DEFINE w == 2 * Word
    <3>1. w \in Nat \ {0} /\ y < w /\ y \in Nat
      BY <2>4, WordType
    <3> HIDE DEF w
    <3>2. y % w = y
      BY <3>1
    <3> QED
      BY <3>2 DEF w
  <2> QED
    BY <2>2, <2>3, <2>5, <2>6 DEF y
<1>4. g = [k \in 0..M |-> IF k = 0 THEN 0 ELSE Step(g, k)]
  <2>1. g[0] = 0
    <3>1. 0 \in 0..m /\ m - 0 = m
      OBVIOUS
    <3>2. g[0] = x \div Unit(m)
      BY <3>1
    <3>3. Unit(m) \in Nat \ {0}
      BY UnitType
    <3>4. x \div Unit(m) = 0
      BY <3>3, QuotientIs
    <3> QED
      BY <3>2, <3>4
  <2> HIDE DEF Step
  <2>2. \A k \in 0..m : g[k] = IF k = 0 THEN 0 ELSE Step(g, k)
    <3> TAKE k \in 0..m
    <3>1. CASE k = 0
      BY <2>1, <3>1
    <3>2. CASE k # 0
      <4>1. k \in 1..m
        BY <3>2
      <4> QED
        BY <1>3, <3>2, <4>1
    <3> QED
      BY <3>1, <3>2
  <2>3. g = [k \in 0..m |-> g[k]]
    OBVIOUS
  <2> HIDE DEF g
  <2> QED
    BY <1>2, <2>2, <2>3
<1>5. f = [k \in 0..M |-> IF k = 0 THEN 0 ELSE Step(f, k)]
  <2> HIDE DEF Step, g, M
  <2> QED
    BY <1>4
<1>6. Digits(s, i) = f[M]
  BY DEF Digits
<1> HIDE DEF f
<1>7. f[m] = g[m]
  <2> DEFINE T == {k \in Nat : k <= m => f[k] = g[k]}
  <2>1. 0 \in T
    <3>1. 0 \in 0..M
      BY <1>2
    <3> HIDE DEF Step, M, g
    <3>2. f[0] = 0 /\ g[0] = 0
      BY <1>4, <1>5, <3>1
    <3> QED
      BY <3>2
  <2>2. ASSUME NEW k \in Nat, k \in T
        PROVE  k + 1 \in T
    <3>1. SUFFICES ASSUME k + 1 <= m PROVE f[k + 1] = g[k + 1]
      OBVIOUS
    <3>2. f[k] = g[k] /\ k + 1 \in 0..M /\ k + 1 # 0 /\ (k + 1) - 1 = k
      BY SMTT(20), <1>2, <2>2, <3>1
    <3>3. f[k + 1] = Step(f, k + 1) /\ g[k + 1] = Step(g, k + 1)
      <4> HIDE DEF Step, g, M
      <4> QED
        BY <1>4, <1>5, <3>2
    <3>4. Step(f, k + 1) = Step(g, k + 1)
      <4> HIDE DEF g, M
      <4> QED
        BY <3>2
    <3> QED
      BY <3>3, <3>4
  <2> HIDE DEF T
  <2>3. m \in T
    BY <2>1, <2>2, Induction
  <2> QED
    BY <2>3 DEF T
<1>8. g[m] = x
  <2>1. m \in 0..m /\ m - m = 0
    OBVIOUS
  <2>2. g[m] = x \div Unit(0)
    BY <2>1
  <2> QED
    BY <2>2, HalfFacts
<1> QED
  BY <1>1, <1>2, <1>6, <1>7, <1>8

\* The bytes x are in s from offset i on.
Here(s, i, x) == i + Len(x) <= Len(s) /\ \A k \in 1..Len(x) : s[i + k] = x[k]

LEMMA HereAt ==
  ASSUME NEW s, Len(s) \in Nat, NEW i \in Nat, NEW x, Len(x) \in Nat, Here(s, i, x),
         NEW k \in 1..Len(x)
  PROVE  At(s, i + (k - 1)) = x[k]
<1>1. i + (k - 1) < Len(s) /\ (i + (k - 1)) + 1 = i + k
  BY DEF Here
<1> QED
  BY <1>1 DEF At, Here

\* A number has as many digits as it needs.
LEMMA UlebLength ==
  ASSUME NEW x \in Nat, x < 2 * Word
  PROVE  \E m \in 1..UlebMax :
           /\ x < Unit(m) /\ \A d \in 1..(m - 1) : Unit(d) <= x
           /\ UlebBytes(x) =
                [k \in 1..m |-> ((x \div Unit(k - 1)) % Half) + (IF k < m THEN Half ELSE 0)]
<1> DEFINE D == {d \in 1..UlebMax : x < Unit(d)}
<1>1. UlebMax \in D /\ UlebMax \in Nat
  <2>1. UlebMax \in Nat /\ UlebMax \in 1..UlebMax
    BY NumberAssumption
  <2>2. Unit(UlebMax) \in Nat
    BY <2>1, UnitType
  <2>3. x < Unit(UlebMax)
    BY <2>2, WordFacts, WordType
  <2> QED
    BY <2>1, <2>3
<1>2. D \subseteq Nat /\ D # {}
  BY <1>1
<1> DEFINE m == Min(D)
<1>3. m \in D /\ \A y \in D : m <= y
  BY <1>2, NatMin
<1>4. UlebBytes(x) = [k \in 1..m |-> ((x \div Unit(k - 1)) % Half) + (IF k < m THEN Half ELSE 0)]
  BY DEF UlebBytes
<1> HIDE DEF m
<1>5. ASSUME NEW d \in 1..(m - 1)
      PROVE  Unit(d) <= x
  <2>1. d \in 1..UlebMax /\ d \in Nat /\ ~(m <= d)
    BY <1>1, <1>3
  <2>2. ~(x < Unit(d))
    BY <1>3, <2>1
  <2>3. Unit(d) \in Nat
    BY <2>1, UnitType
  <2> QED
    BY <2>2, <2>3
<1> QED
  BY <1>3, <1>4, <1>5

\* A digit, and what is added to it when it is not the last one.
LEMMA Digit ==
  ASSUME NEW y \in Nat
  PROVE  /\ y % Half \in Nat /\ y % Half < Half
         /\ y % Half \in Byte /\ (y % Half) + Half \in Byte /\ 0 \in Byte
         /\ ((y % Half) + Half) % Half = y % Half /\ (y % Half) % Half = y % Half
<1> DEFINE r == y % Half
<1>1. r \in 0..(Half - 1)
  BY HalfFacts
<1> HIDE DEF r
<1>2. (r + Half) % Half = r /\ r % Half = r
  <2>1. Half \in Nat \ {0} /\ 1 \in Int
    BY HalfFacts
  <2>2. (Half * 1 + r) % Half = r /\ (Half * 0 + r) % Half = r
    BY <1>1, <2>1, Remainder
  <2>3. Half * 1 + r = r + Half /\ Half * 0 + r = r
    BY <1>1, <2>1
  <2> QED
    BY <2>2, <2>3
<1> QED
  BY <1>1, <1>2, HalfFacts DEF r, Byte

LEMMA UlebBytesType ==
  ASSUME NEW x \in Nat, x < 2 * Word
  PROVE  /\ UlebBytes(x) \in Seq(Byte) /\ Len(UlebBytes(x)) \in 1..UlebMax
         /\ (x # 0 => UlebBytes(x)[1] # 0) /\ (x = 0 => UlebBytes(x) = <<0>>)
<1>1. PICK m \in 1..UlebMax :
        /\ x < Unit(m) /\ \A d \in 1..(m - 1) : Unit(d) <= x
        /\ UlebBytes(x) =
             [k \in 1..m |-> ((x \div Unit(k - 1)) % Half) + (IF k < m THEN Half ELSE 0)]
  BY UlebLength
<1> DEFINE b(k) == ((x \div Unit(k - 1)) % Half) + (IF k < m THEN Half ELSE 0)
<1>2. m \in Nat \ {0}
  BY <1>1, NumberAssumption
<1>3. ASSUME NEW k \in 1..m
      PROVE  b(k) \in Byte /\ (k < m => b(k) # 0)
  <2>1. Unit(k - 1) \in Nat \ {0}
    BY <1>2, UnitType
  <2>2. x \div Unit(k - 1) \in Nat
    BY <2>1, Quotient
  <2> DEFINE y == x \div Unit(k - 1)
  <2> HIDE DEF y
  <2>3. y \in Nat /\ b(k) = (y % Half) + (IF k < m THEN Half ELSE 0)
    BY <2>2 DEF y
  <2>4. y % Half \in Nat /\ y % Half \in Byte /\ (y % Half) + Half \in Byte
    BY <2>3, Digit
  <2>5. CASE k < m
    <3>1. b(k) = (y % Half) + Half
      BY <2>3, <2>5
    <3> HIDE DEF b
    <3> QED
      BY <2>4, <3>1, HalfFacts
  <2>6. CASE ~(k < m)
    <3>1. b(k) = (y % Half) + 0 /\ (y % Half) + 0 = y % Half
      BY <2>3, <2>4, <2>6
    <3> HIDE DEF b
    <3> QED
      BY <2>4, <2>6, <3>1
  <2> QED
    BY <2>5, <2>6
<1>4. UlebBytes(x) = [k \in 1..m |-> b(k)]
  BY <1>1
<1>5. UlebBytes(x) \in Seq(Byte) /\ Len(UlebBytes(x)) = m /\ UlebBytes(x)[1] = b(1)
  <2> HIDE DEF b
  <2> QED
    BY <1>2, <1>3, <1>4
<1>6. x = 0 => m = 1
  <2>1. SUFFICES ASSUME x = 0, m # 1 PROVE FALSE
    OBVIOUS
  <2>2. 1 \in 1..(m - 1)
    BY <1>2, <2>1
  <2> QED
    BY <1>1, <2>1, <2>2, HalfFacts
<1>7. m = 1 => b(1) = x
  <2>1. SUFFICES ASSUME m = 1 PROVE b(1) = x
    OBVIOUS
  <2>2. x < Half /\ Half \in Nat \ {0}
    BY <1>1, <2>1, HalfFacts
  <2>3. x \div Unit(1 - 1) = x
    <3>1. Unit(1 - 1) = 1
      BY HalfFacts
    <3> QED
      BY <3>1
  <2>4. x % Half = x
    BY <2>2
  <2> QED
    BY <2>1, <2>3, <2>4
<1>8. x # 0 => b(1) # 0
  BY <1>2, <1>3, <1>7
<1>9. x = 0 => UlebBytes(x) = <<0>>
  <2>1. SUFFICES ASSUME x = 0 PROVE UlebBytes(x) = <<0>>
    OBVIOUS
  <2>2. UlebBytes(x) = [k \in 1..1 |-> b(k)] /\ b(1) = 0
    BY <1>4, <1>6, <1>7, <2>1
  <2> HIDE DEF b
  <2> QED
    BY <2>2
<1> QED
  BY <1>1, <1>5, <1>8, <1>9

\* The digits of a number are read as it was written.
LEMMA DigitsRead ==
  ASSUME NEW s, Len(s) \in Nat, NEW i \in Nat, NEW x \in Nat, x < 2 * Word,
         Here(s, i, UlebBytes(x))
  PROVE  LastDigit(s, i) + 1 = i + Len(UlebBytes(x)) /\ Digits(s, i) = x
<1>1. PICK m \in 1..UlebMax :
        /\ x < Unit(m) /\ \A d \in 1..(m - 1) : Unit(d) <= x
        /\ UlebBytes(x) =
             [k \in 1..m |-> ((x \div Unit(k - 1)) % Half) + (IF k < m THEN Half ELSE 0)]
  BY UlebLength
<1> DEFINE b(k) == ((x \div Unit(k - 1)) % Half) + (IF k < m THEN Half ELSE 0)
<1>2. m \in Nat \ {0}
  BY <1>1, NumberAssumption
<1>3. UlebBytes(x) = [k \in 1..m |-> b(k)]
  BY <1>1
<1>4. Len(UlebBytes(x)) = m /\ \A k \in 1..m : UlebBytes(x)[k] = b(k)
  <2> HIDE DEF b
  <2> QED
    BY <1>2, <1>3
<1>5. i + m <= Len(s)
  BY <1>4 DEF Here
<1>6. ASSUME NEW k \in 0..(m - 1)
      PROVE  /\ At(s, i + k) \in Nat /\ At(s, i + k) % Half = (x \div Unit(k)) % Half
             /\ (At(s, i + k) < Half <=> k = m - 1)
  <2>1. k + 1 \in 1..m /\ (k + 1) - 1 = k /\ k \in Nat
    BY <1>2
  <2>2. At(s, i + k) = b(k + 1)
    <3>1. At(s, i + ((k + 1) - 1)) = UlebBytes(x)[k + 1]
      <4> DEFINE u == UlebBytes(x)
                 kk == k + 1
      <4>1. Len(u) \in Nat /\ kk \in 1..Len(u) /\ Here(s, i, u)
        BY <1>2, <1>4, <2>1
      <4> HIDE DEF u, kk, b
      <4>2. At(s, i + (kk - 1)) = u[kk]
        BY <4>1, HereAt
      <4> QED
        BY <4>2 DEF u, kk
    <3> HIDE DEF b
    <3> QED
      BY <1>4, <2>1, <3>1
  <2>3. Unit(k) \in Nat \ {0}
    BY <2>1, UnitType
  <2>4. x \div Unit(k) \in Nat
    BY <2>3, Quotient
  <2> DEFINE y == x \div Unit(k)
  <2>5. At(s, i + k) = (y % Half) + (IF k + 1 < m THEN Half ELSE 0)
    BY <2>1, <2>2
  <2> HIDE DEF y
  <2>6. y \in Nat
    BY <2>4 DEF y
  <2>7. CASE k = m - 1
    <3>1. At(s, i + k) = (y % Half) + 0 /\ y % Half \in Nat
      BY <1>2, <2>5, <2>6, <2>7, Digit
    <3>2. At(s, i + k) = y % Half
      BY <3>1
    <3> QED
      BY <2>6, <2>7, <3>2, Digit DEF y
  <2>8. CASE k # m - 1
    <3>1. At(s, i + k) = (y % Half) + Half /\ y % Half \in Nat
      BY <1>2, <2>5, <2>6, <2>8, Digit
    <3>2. At(s, i + k) \in Nat /\ ~(At(s, i + k) < Half)
      BY <3>1, HalfFacts
    <3> QED
      BY <2>6, <2>8, <3>1, <3>2, Digit DEF y
  <2> QED
    BY <2>7, <2>8
<1>7. LastDigit(s, i) = i + (m - 1) /\ Digits(s, i) = x
  BY <1>1, <1>2, <1>5, <1>6, DigitsAre
<1> QED
  BY <1>2, <1>4, <1>7

LEMMA UlebRead ==
  ASSUME NEW s, Len(s) \in Nat, NEW i \in Nat, NEW x \in Nat, x < Word,
         Here(s, i, UlebBytes(x))
  PROVE  Uleb(s, i).v = x /\ Uleb(s, i).to = i + Len(UlebBytes(x))
<1>1. x < 2 * Word /\ x % Word = x
  BY WordType
<1>2. LastDigit(s, i) + 1 = i + Len(UlebBytes(x)) /\ Digits(s, i) = x
  BY <1>1, DigitsRead
<1> QED
  BY <1>1, <1>2 DEF Uleb

LEMMA QuotientLess ==
  ASSUME NEW x \in Nat, NEW u \in Nat \ {0}, NEW z \in Nat, u * z <= x
  PROVE  (x - u * z) \div u = (x \div u) - z /\ (x \div u) - z \in Nat
<1> DEFINE q == x \div u
           w == u * z
           v == u * q
<1>1. q \in Nat /\ v <= x /\ x < v + u
  BY Quotient
<1> HIDE DEF q
<1>2. w \in Nat /\ v \in Nat /\ w <= x
  BY <1>1
<1>3. q - z \in Nat
  <2>1. SUFFICES ASSUME q + 1 <= z PROVE FALSE
    BY <1>1
  <2>2. u * (q + 1) <= w
    BY <1>1, <2>1
  <2>3. u * (q + 1) = v + u
    BY <1>1
  <2> HIDE DEF v, w
  <2> QED
    BY <1>1, <1>2, <2>2, <2>3
<1>4. u * (q - z) = v - w
  BY <1>1, <1>3
<1>5. x - w \in Nat
  <2> HIDE DEF w
  <2> QED
    BY <1>2
<1>6. v - w <= x - w /\ x - w < (v - w) + u
  <2> HIDE DEF v, w
  <2> QED
    BY <1>1, <1>2
<1> HIDE DEF v, w
<1>7. (x - w) \div u = q - z
  BY <1>3, <1>4, <1>5, <1>6, QuotientIs
<1> QED
  BY <1>3, <1>7 DEF q, w

\* A number of as many digits as there can be.
LEMMA LongUleb ==
  ASSUME NEW x \in Nat, x < 2 * Word, Unit(UlebMax - 1) <= x
  PROVE  UlebBytes(x) =
           [k \in 1..UlebMax |->
              ((x \div Unit(k - 1)) % Half) + (IF k < UlebMax THEN Half ELSE 0)]
<1>1. PICK m \in 1..UlebMax :
        /\ x < Unit(m) /\ \A d \in 1..(m - 1) : Unit(d) <= x
        /\ UlebBytes(x) =
             [k \in 1..m |-> ((x \div Unit(k - 1)) % Half) + (IF k < m THEN Half ELSE 0)]
  BY UlebLength
<1>2. m = UlebMax
  <2>1. SUFFICES ASSUME m # UlebMax PROVE FALSE
    OBVIOUS
  <2>2. m \in Nat /\ UlebMax - 1 \in Nat /\ m <= UlebMax - 1
    BY <2>1, NumberAssumption
  <2>3. Unit(m) <= Unit(UlebMax - 1) /\ Unit(m) \in Nat /\ Unit(UlebMax - 1) \in Nat
    BY <2>2, UnitGrows, UnitType
  <2> QED
    BY <1>1, <2>3
<1> QED
  BY <1>1, <1>2

\* The 33 bits of a number constant are written as if words had room for them.
LEMMA Uleb33Is ==
  ASSUME NEW x \in 0..(Word - 1), NEW bit \in {0, 1}
  PROVE  Uleb33Bytes(x, bit) = UlebBytes(2 * x + bit) /\ 2 * x + bit \in Nat /\ 2 * x + bit < 2 * Word
<1> DEFINE U == Unit(UlebMax - 1)
           N == 2 * x + bit
           shifted == (2 * x) % Word
           X == bit + (IF x >= Top /\ shifted < Top THEN shifted + Top ELSE shifted)
<1>1. PICK l \in Nat \ {0} :
        /\ Low = 2 * l /\ Word = 4 * (l * Unit(UlebMax - 1))
        /\ Top = 2 * (l * Unit(UlebMax - 1)) /\ Word \div 4 = l * Unit(UlebMax - 1)
        /\ 2 * Word <= Unit(UlebMax)
  BY WordFacts
<1>2. UlebMax - 1 \in Nat /\ UlebMax \in Nat /\ UlebMax = (UlebMax - 1) + 1 /\ UlebMax >= 2
  BY NumberAssumption
<1>3. U \in Nat \ {0} /\ U * Half = Unit(UlebMax)
  BY <1>2, UnitType, UnitNext
<1> DEFINE q == l * U
<1>4. q \in Nat \ {0} /\ Word = 4 * q /\ Top = 2 * q /\ Word \div 4 = q /\ Top = U * Low /\ U <= q
  <2>1. Word = 4 * q /\ Top = 2 * q /\ Word \div 4 = q
    BY <1>1
  <2> HIDE DEF U
  <2>2. q \in Nat \ {0} /\ 2 * q = U * (2 * l)
    BY <1>3
  <2>3. U <= q
    BY <1>3
  <2> QED
    BY <1>1, <2>1, <2>2, <2>3
<1>5. N \in Nat /\ N < 2 * Word
  BY WordType
<1>6. CASE x < Top
  <2>1. shifted = 2 * x
    <3>1. 2 * x < Word /\ 2 * x \in Nat
      <4> HIDE DEF q
      <4> QED
        BY <1>4, <1>6
    <3> QED
      BY <3>1, WordType
  <2>2. X = N
    <3> HIDE DEF shifted, q
    <3> QED
      BY <1>4, <1>6, <2>1
  <2>3. Uleb33Bytes(x, bit) = UlebBytes(X)
    BY <1>6 DEF Uleb33Bytes
  <2> QED
    BY <1>5, <2>2, <2>3
<1>7. CASE ~(x < Top)
  <2>1. shifted = 2 * x - Word /\ shifted \in Nat
    <3> DEFINE y == 2 * x - Word
    <3> HIDE DEF q
    <3>1. y \in 0..(Word - 1) /\ 2 * x = Word * 1 + y /\ Word \in Nat \ {0}
      BY <1>4, <1>7
    <3> HIDE DEF y
    <3>2. (Word * 1 + y) % Word = y
      BY <3>1, Remainder
    <3> QED
      BY <3>1, <3>2 DEF y
  <2>2. PICK e \in {1, 2} : X = N - e * Top
    <3> HIDE DEF q, shifted
    <3>1. CASE shifted < Top
      <4>1. X = N - 1 * Top
        BY <1>4, <1>7, <2>1, <3>1
      <4> QED
        BY <4>1
    <3>2. CASE ~(shifted < Top)
      <4>1. X = N - 2 * Top
        BY <1>4, <1>7, <2>1, <3>2
      <4> QED
        BY <4>1
    <3> QED
      BY <3>1, <3>2
  <2>3. X \in Nat /\ X >= Top /\ X < 2 * Word
    <3>1. X >= Top
      <4> HIDE DEF q, shifted
      <4> QED
        BY <1>4, <1>7, <2>1
    <3> HIDE DEF q, X
    <3> QED
      BY <1>4, <1>5, <2>2, <3>1
  <2> HIDE DEF shifted
  <2>4. U <= X /\ U <= N
    <3> HIDE DEF q, X, U, N
    <3> QED
      BY <1>3, <1>4, <1>5, <2>2, <2>3
  <2>5. x >= Top /\ Uleb33Bytes(x, bit) =
          [UlebBytes(X) EXCEPT ![Len(UlebBytes(X))] = PatchedDigit(@, x)]
    <3>1. x >= Top
      <4> HIDE DEF q
      <4> QED
        BY <1>4, <1>7
    <3> QED
      BY <1>7, <3>1 DEF Uleb33Bytes, shifted
  <2> HIDE DEF X
  <2> DEFINE B(y, k) == ((y \div Unit(k - 1)) % Half) + (IF k < UlebMax THEN Half ELSE 0)
  <2>6. UlebBytes(X) = [k \in 1..UlebMax |-> B(X, k)]
    BY <2>3, <2>4, LongUleb
  <2>7. UlebBytes(N) = [k \in 1..UlebMax |-> B(N, k)]
    BY <1>5, <2>4, LongUleb
  <2>8. ASSUME NEW k \in 1..(UlebMax - 1)
        PROVE  B(X, k) = B(N, k)
    <3> DEFINE u == Unit(k - 1)
               w == Unit(UlebMax - 1 - k)
    <3>1. k \in Nat /\ k - 1 \in Nat /\ UlebMax - 1 - k \in Nat /\ k = (k - 1) + 1
          /\ UlebMax - 1 = k + (UlebMax - 1 - k)
      BY <1>2
    <3>2. u \in Nat \ {0} /\ w \in Nat \ {0}
      BY <3>1, UnitType
    <3>3. U = (u * Half) * w
      <4>1. U = Unit(k) * w
        BY <3>1, UnitSum
      <4>2. Unit(k) = u * Half
        BY <3>1, UnitNext
      <4> QED
        BY <4>1, <4>2
    <3> HIDE DEF u, w, U
    <3> DEFINE a == w * Low
               z == e * (Half * a)
    <3>4. Low \in Nat /\ Half \in Nat \ {0}
      BY <1>1, HalfFacts
    <3>5. a \in Nat /\ Top = u * (Half * a)
      <4>1. a \in Nat
        BY <3>2, <3>4
      <4>2. ((u * Half) * w) * Low = u * (Half * (w * Low))
        BY <3>2, <3>4
      <4> QED
        BY <1>4, <3>3, <4>1, <4>2
    <3> HIDE DEF a
    <3>6. z \in Nat /\ e * Top = u * z /\ z = Half * (e * a) /\ e * a \in Int
      BY <3>2, <3>4, <3>5
    <3> HIDE DEF z, N
    <3>7. u * z <= N /\ X = N - u * z
      <4> DEFINE t == u * z
      <4>1. t = e * Top /\ t \in Nat
        BY <3>2, <3>6
      <4> HIDE DEF t
      <4> QED
        BY <1>5, <2>2, <2>3, <4>1 DEF t
    <3>8. X \div u = (N \div u) - z
      BY <1>5, <3>2, <3>6, <3>7, QuotientLess
    <3>9. N \div u \in Nat
      BY <1>5, <3>2, Quotient
    <3> DEFINE y == N \div u
               ea == e * a
    <3>10. (X \div u) % Half = y % Half
      <4>1. X \div u = y + Half * (-ea) /\ y \in Int /\ -ea \in Int
        <5> HIDE DEF y
        <5> QED
          BY <3>4, <3>6, <3>8, <3>9 DEF y
      <4> HIDE DEF y, ea
      <4> QED
        BY <3>4, <4>1, SameRemainder
    <3> QED
      BY <3>10 DEF u
  <2>9. PatchedDigit(B(X, UlebMax), x) = B(N, UlebMax)
    <3> DEFINE y == N \div U
               d == X \div U
               h == x \div (Word \div 4)
    <3>1. y \in Nat /\ y < Half /\ U * y <= N /\ N < U * y + U
      <4>1. y \in Nat /\ U * y <= N /\ N < U * y + U
        BY <1>3, <1>5, Quotient
      <4>2. N < U * Half
        <5> DEFINE t == U * Half
        <5>1. t \in Nat /\ 2 * Word <= t
          BY <1>1, <1>2, <1>3, UnitType
        <5> HIDE DEF t, N
        <5> QED
          BY <1>5, <5>1, WordType DEF t
      <4>3. ~(Half <= y)
        <5>1. SUFFICES ASSUME Half <= y PROVE FALSE
          OBVIOUS
        <5> HIDE DEF U, y, N
        <5>2. U * Half <= U * y
          BY <1>3, <4>1, <5>1, HalfFacts
        <5>3. U * y \in Nat /\ U * Half \in Nat
          BY <1>3, <4>1, HalfFacts
        <5> DEFINE s1 == U * y
                   s2 == U * Half
        <5>4. s2 <= s1 /\ s1 \in Nat /\ s2 \in Nat /\ s1 <= N /\ N < s2
          BY <4>1, <4>2, <5>2, <5>3
        <5> HIDE DEF s1, s2
        <5> QED
          BY <1>5, <5>4
      <4> HIDE DEF y, N, U
      <4> QED
        BY <4>1, <4>3, HalfFacts
    <3>2. d = y - e * Low /\ d \in Nat
      <4> DEFINE z == e * Low
      <4>1. z \in Nat /\ U * z = e * Top
        <5> HIDE DEF U
        <5>1. Low \in Nat
          BY <1>1
        <5>2. U * (e * Low) = e * (U * Low)
          BY <1>3, <5>1
        <5> QED
          BY <1>4, <5>1, <5>2
      <4> HIDE DEF z, U, N
      <4>2. U * z <= N /\ X = N - U * z
        <5> DEFINE t == U * z
        <5>1. t = e * Top /\ t \in Nat
          BY <1>3, <4>1
        <5> HIDE DEF t
        <5> QED
          BY <1>5, <2>2, <2>3, <5>1 DEF t
      <4>3. d = y - z /\ d \in Nat
        <5>1. N \in Nat /\ U \in Nat \ {0}
          BY <1>3, <1>5
        <5>2. (N - U * z) \div U = (N \div U) - z /\ (N \div U) - z \in Nat
          BY <4>1, <4>2, <5>1, QuotientLess
        <5> QED
          BY <4>2, <5>2
      <4> QED
        BY <4>3 DEF z
    <3>3. d % Half = d
      <4>1. d <= y
        <5> HIDE DEF d, y
        <5> QED
          BY <1>1, <3>1, <3>2
      <4>2. d < Half /\ d \in Nat /\ Half \in Nat \ {0}
        <5> HIDE DEF d, y
        <5> QED
          BY <3>1, <3>2, <4>1, HalfFacts
      <4> HIDE DEF d
      <4> QED
        BY <4>2
    <3>4. B(X, UlebMax) = d
      <4>1. B(X, UlebMax) = (d % Half) + 0
        BY <1>2
      <4> HIDE DEF d
      <4> QED
        BY <3>2, <3>3, <4>1
    <3>5. B(N, UlebMax) = y
      <4>1. B(N, UlebMax) = (y % Half) + 0
        BY <1>2
      <4> HIDE DEF y
      <4>2. y % Half = y
        BY <3>1, HalfFacts
      <4> QED
        BY <3>1, <4>1, <4>2
    <3>6. h = y \div Low
      <4>1. h = x \div q
        BY <1>4
      <4>2. N \div 2 = x
        <5>1. 2 * x <= N /\ N < 2 * x + 2 /\ x \in Nat /\ N \in Nat
          OBVIOUS
        <5> HIDE DEF N
        <5> QED
          BY <5>1, QuotientIs
      <4>3. (N \div 2) \div q = N \div (2 * q)
        <5> HIDE DEF N, q, y, d, h, B
        <5>1. N \in Nat /\ 2 \in Nat \ {0} /\ q \in Nat \ {0}
          BY <1>4, <1>5
        <5> QED
          BY <5>1, QuotientTwice
      <4>4. (N \div U) \div Low = N \div (U * Low)
        <5>1. Low \in Nat \ {0}
          BY <1>1
        <5> HIDE DEF N, U
        <5> QED
          BY <1>3, <1>5, <5>1, QuotientTwice
      <4>5. 2 * q = U * Low
        BY <1>4
      <4> HIDE DEF q, N, U
      <4> QED
        BY <4>1, <4>2, <4>3, <4>4, <4>5
    <3>7. d % Low = y % Low /\ Low \in Nat \ {0}
      <4>1. Low \in Nat \ {0}
        BY <1>1
      <4>2. d = y + Low * (-e) /\ y \in Int /\ -e \in Int
        <5> HIDE DEF d, y
        <5> QED
          BY <3>1, <3>2, <4>1
      <4> HIDE DEF d, y
      <4> QED
        BY <4>1, <4>2, SameRemainder
    <3>8. (y % Low) + Low * (y \div Low) = y
      <4> HIDE DEF y
      <4>1. y \in Int
        BY <3>1
      <4>2. y = Low * (y \div Low) + (y % Low) /\ y \div Low \in Int /\ y % Low \in 0..(Low - 1)
        BY <3>7, <4>1, Division
      <4> DEFINE a == y \div Low
                 b == y % Low
                 t == Low * a
      <4>3. t \in Int /\ b \in Int /\ y = t + b
        BY <3>7, <4>2
      <4> HIDE DEF t, b, a
      <4>4. b + t = y
        BY <4>3
      <4> QED
        BY <4>4 DEF t, b, a
    <3>9. PatchedDigit(d, x) = (d % Low) + Low * h
      BY DEF PatchedDigit
    <3> HIDE DEF d, y, h, B
    <3> QED
      BY <3>4, <3>5, <3>6, <3>7, <3>8, <3>9
  <2> HIDE DEF B
  <2>10. [UlebBytes(X) EXCEPT ![Len(UlebBytes(X))] = PatchedDigit(@, x)] = UlebBytes(N)
    <3>1. Len(UlebBytes(X)) = UlebMax /\ UlebMax \in 1..UlebMax /\ UlebMax - 1 \in Nat
      BY <1>2, <2>6
    <3>2. \A k \in 1..UlebMax : k # UlebMax => B(X, k) = B(N, k)
      BY <1>2, <2>8
    <3> DEFINE f == UlebBytes(X)
               g == UlebBytes(N)
    <3>3. f = [k \in 1..UlebMax |-> B(X, k)] /\ g = [k \in 1..UlebMax |-> B(N, k)]
      BY <2>6, <2>7
    <3> HIDE DEF f, g
    <3>4. [f EXCEPT ![UlebMax] = PatchedDigit(f[UlebMax], x)]
            = [k \in 1..UlebMax |-> IF k = UlebMax THEN PatchedDigit(f[UlebMax], x) ELSE f[k]]
      BY <3>3
    <3>5. f[UlebMax] = B(X, UlebMax)
      BY <3>1, <3>3
    <3>6. [f EXCEPT ![UlebMax] = PatchedDigit(f[UlebMax], x)] = g
      BY <2>9, <3>1, <3>2, <3>3, <3>4, <3>5
    <3> QED
      BY <3>1, <3>6 DEF f, g
  <2> QED
    BY <1>5, <2>5, <2>10
<1> QED
  BY <1>6, <1>7

-----------------------------------------------------------------------------
(* Sequences of bytes one after the other, and lists of items.             *)

LEMMA HereJoined ==
  ASSUME NEW s, Len(s) \in Nat, NEW i \in Nat, NEW S, NEW x \in Seq(S), NEW y \in Seq(S),
         Here(s, i, x \o y)
  PROVE  Here(s, i, x) /\ Here(s, i + Len(x), y)
<1>1. x \o y \in Seq(S) /\ Len(x \o y) = Len(x) + Len(y) /\ Len(x) \in Nat /\ Len(y) \in Nat
  OBVIOUS
<1>2. \A k \in 1..Len(x) : (x \o y)[k] = x[k]
  OBVIOUS
<1>3. \A k \in 1..Len(y) : (x \o y)[Len(x) + k] = y[k]
  OBVIOUS
<1> DEFINE z == x \o y
           lx == Len(x)
           ly == Len(y)
<1>4. i + (lx + ly) <= Len(s) /\ \A k \in 1..(lx + ly) : s[i + k] = z[k]
  BY <1>1 DEF Here
<1>5. Here(s, i, x)
  <2>1. i + lx <= Len(s)
    <3> HIDE DEF z, lx, ly
    <3> QED
      BY <1>1, <1>4 DEF lx, ly
  <2>2. \A k \in 1..lx : s[i + k] = x[k]
    <3> TAKE k \in 1..lx
    <3>1. k \in 1..(lx + ly) /\ z[k] = x[k]
      BY <1>1, <1>2
    <3> HIDE DEF z, lx, ly
    <3> QED
      BY <1>4, <3>1
  <2> QED
    BY <2>1, <2>2 DEF Here
<1>6. Here(s, i + lx, y)
  <2>1. (i + lx) + ly <= Len(s)
    <3> HIDE DEF z, lx, ly
    <3> QED
      BY <1>1, <1>4 DEF lx, ly
  <2>2. \A k \in 1..ly : s[(i + lx) + k] = y[k]
    <3> TAKE k \in 1..ly
    <3>1. lx + k \in 1..(lx + ly) /\ z[lx + k] = y[k] /\ (i + lx) + k = i + (lx + k)
      BY <1>1, <1>3
    <3> HIDE DEF z, lx, ly
    <3> QED
      BY <1>4, <3>1
  <2> QED
    BY <2>1, <2>2 DEF Here
<1> QED
  BY <1>5, <1>6

LEMMA HereBlock ==
  ASSUME NEW s, Len(s) \in Nat, NEW i \in Nat, NEW S, NEW x \in Seq(S), Here(s, i, x)
  PROVE  Block(s, i, Len(x)).v = x /\ Block(s, i, Len(x)).to = i + Len(x)
<1>1. Len(x) \in Nat /\ x = [k \in 1..Len(x) |-> x[k]]
  OBVIOUS
<1>2. \A k \in 1..Len(x) : At(s, i + k - 1) = x[k]
  <2> TAKE k \in 1..Len(x)
  <2>1. At(s, i + (k - 1)) = x[k]
    BY <1>1, HereAt
  <2>2. i + (k - 1) = i + k - 1
    BY <1>1
  <2> QED
    BY <2>1, <2>2
<1> QED
  BY <1>1, <1>2 DEF Block

\* Where sequences begin and end that are stored one after the other from i on.
Places(i, ss) ==
  CHOOSE pos \in [0..Len(ss) -> Nat] :
    pos[0] = i /\ \A k \in 1..Len(ss) : pos[k] = pos[k - 1] + Len(ss[k])

LEMMA PlacesFit ==
  ASSUME NEW ss, Len(ss) \in Nat, \A k \in 1..Len(ss) : Len(ss[k]) \in Nat, NEW i \in Nat
  PROVE  /\ Places(i, ss) \in [0..Len(ss) -> Nat] /\ Places(i, ss)[0] = i
         /\ \A k \in 1..Len(ss) : Places(i, ss)[k] = Places(i, ss)[k - 1] + Len(ss[k])
<1> DEFINE Q(m, pos) == pos[0] = i /\ \A k \in 1..m : pos[k] = pos[k - 1] + Len(ss[k])
           T == {m \in Nat : m <= Len(ss) => \E pos \in [0..m -> Nat] : Q(m, pos)}
<1>1. 0 \in T
  <2>1. [k \in 0..0 |-> i] \in [0..0 -> Nat] /\ Q(0, [k \in 0..0 |-> i])
    OBVIOUS
  <2> HIDE DEF Q
  <2> QED
    BY <2>1
<1>2. ASSUME NEW m \in Nat, m \in T
      PROVE  m + 1 \in T
  <2>1. SUFFICES ASSUME m + 1 <= Len(ss) PROVE \E pos \in [0..(m + 1) -> Nat] : Q(m + 1, pos)
    <3> HIDE DEF Q
    <3> QED
      OBVIOUS
  <2>2. PICK pos \in [0..m -> Nat] : Q(m, pos)
    BY SMTT(20), <1>2, <2>1
  <2> DEFINE new == [k \in 0..(m + 1) |-> IF k = m + 1 THEN pos[m] + Len(ss[m + 1]) ELSE pos[k]]
  <2>3. m + 1 \in 1..Len(ss) /\ Len(ss[m + 1]) \in Nat /\ pos[m] \in Nat
    BY <2>1
  <2>4. new \in [0..(m + 1) -> Nat]
    BY <2>3
  <2>5. new[0] = i
    BY <2>2
  <2>6. \A k \in 1..(m + 1) : new[k] = new[k - 1] + Len(ss[k])
    <3> TAKE k \in 1..(m + 1)
    <3>1. CASE k = m + 1
      <4>1. k \in 0..(m + 1) /\ k - 1 \in 0..(m + 1) /\ k - 1 = m /\ m # m + 1
        BY <3>1
      <4> QED
        BY <3>1, <4>1
    <3>2. CASE k # m + 1
      <4>1. k \in 1..m /\ k \in 0..(m + 1) /\ k - 1 \in 0..(m + 1) /\ k - 1 # m + 1
        BY <3>2
      <4> QED
        BY <2>2, <3>2, <4>1
    <3> QED
      BY <3>1, <3>2
  <2> HIDE DEF new
  <2> QED
    BY <2>4, <2>5, <2>6
<1> HIDE DEF T
<1>3. Len(ss) \in T
  BY <1>1, <1>2, Induction
<1>4. \E pos \in [0..Len(ss) -> Nat] : Q(Len(ss), pos)
  BY <1>3 DEF T
<1> QED
  BY <1>4 DEF Places

LEMMA PlacesGrow ==
  ASSUME NEW ss, Len(ss) \in Nat, \A k \in 1..Len(ss) : Len(ss[k]) \in Nat, NEW i \in Nat,
         NEW k \in 0..Len(ss)
  PROVE  Places(i, ss)[k] <= Places(i, ss)[Len(ss)] /\ i <= Places(i, ss)[k]
<1> DEFINE pos == Places(i, ss)
<1>1. /\ pos \in [0..Len(ss) -> Nat] /\ pos[0] = i
      /\ \A j \in 1..Len(ss) : pos[j] = pos[j - 1] + Len(ss[j])
  BY PlacesFit
<1> HIDE DEF pos
<1> DEFINE T == {m \in Nat : m <= Len(ss) => \A j \in 0..m : pos[j] <= pos[m]}
<1>2. 0 \in T
  BY <1>1
<1>3. ASSUME NEW m \in Nat, m \in T
      PROVE  m + 1 \in T
  <2>1. SUFFICES ASSUME m + 1 <= Len(ss), NEW j \in 0..(m + 1) PROVE pos[j] <= pos[m + 1]
    OBVIOUS
  <2>2. pos[m + 1] = pos[m] + Len(ss[m + 1]) /\ Len(ss[m + 1]) \in Nat /\ pos[m] \in Nat
    <3>1. m + 1 \in 1..Len(ss) /\ (m + 1) - 1 = m /\ m \in 0..Len(ss)
      BY <2>1
    <3> QED
      BY <1>1, <3>1
  <2>3. CASE j = m + 1
    BY <2>2, <2>3
  <2>4. CASE j # m + 1
    <3>1. j \in 0..m /\ j \in 0..Len(ss)
      BY <2>1, <2>4
    <3>3. pos[j] \in Nat
      BY <1>1, <3>1
    <3>2. pos[j] <= pos[m]
      BY <1>3, <2>1, <3>1
    <3> QED
      BY <2>2, <3>1, <3>2, <3>3
  <2> QED
    BY <2>3, <2>4
<1> HIDE DEF T
<1>4. Len(ss) \in T /\ k \in T
  BY <1>2, <1>3, Induction
<1>5. pos[k] <= pos[Len(ss)] /\ pos[0] <= pos[k]
  BY <1>4 DEF T
<1> QED
  BY <1>1, <1>5 DEF pos

LEMMA Flattened ==
  ASSUME NEW S, NEW ss \in Seq(Seq(S)), NEW i \in Nat
  PROVE  /\ FlattenSeq(ss) \in Seq(S)
         /\ Places(i, ss)[Len(ss)] = i + Len(FlattenSeq(ss))
         /\ \A s : Len(s) \in Nat /\ Here(s, i, FlattenSeq(ss)) =>
              \A k \in 1..Len(ss) : Here(s, Places(i, ss)[k - 1], ss[k])
<1> DEFINE len == Len(ss)
           pos == Places(i, ss)
           Joined(f, k) == IF k = 1 THEN ss[k] ELSE f[k - 1] \o ss[k]
           f == CHOOSE f : f = [k \in 1..len |-> Joined(f, k)]
<1>1. len \in Nat /\ \A k \in 1..len : ss[k] \in Seq(S) /\ Len(ss[k]) \in Nat
  OBVIOUS
<1>2. /\ pos \in [0..len -> Nat] /\ pos[0] = i
      /\ \A k \in 1..len : pos[k] = pos[k - 1] + Len(ss[k])
  BY <1>1, PlacesFit
<1> HIDE DEF pos
<1>3. CASE len = 0
  <2>1. FlattenSeq(ss) = <<>> /\ ss = <<>>
    BY <1>3 DEF FlattenSeq
  <2> QED
    BY <1>2, <1>3, <2>1 DEF pos
<1>4. CASE len # 0
  <2>1. f = [k \in 1..len |-> Joined(f, k)]
    <3> DEFINE Exists(m) == \E g : g = [k \in 1..m |-> Joined(g, k)]
               T == {m \in Nat : m <= len => Exists(m)}
    <3>1. 0 \in T
      <4>1. <<>> = [k \in 1..0 |-> Joined(<<>>, k)]
        OBVIOUS
      <4> QED
        BY <4>1
    <3>2. ASSUME NEW m \in Nat, m \in T
          PROVE  m + 1 \in T
      <4>1. SUFFICES ASSUME m + 1 <= len PROVE Exists(m + 1)
        <5> HIDE DEF Exists
        <5> QED
          OBVIOUS
      <4>2. PICK g : g = [k \in 1..m |-> Joined(g, k)]
        <5>1. Exists(m)
          <6> HIDE DEF Exists
          <6> QED
            BY <1>1, <3>2, <4>1
        <5> HIDE DEF Joined
        <5> QED
          BY <5>1
      <4> DEFINE new == [k \in 1..(m + 1) |-> IF k = m + 1 THEN Joined(g, k) ELSE g[k]]
      <4>3. ASSUME NEW k \in 1..(m + 1)
            PROVE  new[k] = Joined(new, k)
        <5>1. k = 1 \/ (k - 1 \in 1..(m + 1) /\ k - 1 # m + 1 /\ new[k - 1] = g[k - 1])
          OBVIOUS
        <5>2. Joined(new, k) = Joined(g, k)
          BY <5>1
        <5>3. CASE k = m + 1
          BY <5>2, <5>3
        <5>4. CASE k # m + 1
          <6>1. k \in 1..m
            BY <5>4
          <6>2. g[k] = Joined(g, k)
            <7> HIDE DEF Joined
            <7> QED
              BY <4>2, <6>1
          <6> QED
            BY <5>2, <5>4, <6>2
        <5> QED
          BY <5>3, <5>4
      <4>4. new = [k \in 1..(m + 1) |-> new[k]]
        OBVIOUS
      <4>5. new = [k \in 1..(m + 1) |-> Joined(new, k)]
        <5> HIDE DEF new, Joined
        <5> QED
          BY <4>3, <4>4
      <4> HIDE DEF new
      <4> QED
        BY <4>5
    <3> HIDE DEF T
    <3>3. len \in T
      BY <1>1, <3>1, <3>2, Induction
    <3>4. Exists(len)
      <4> HIDE DEF Exists
      <4> QED
        BY <1>1, <3>3 DEF T
    <3> HIDE DEF Joined
    <3> QED
      BY <3>4
  <2>2. FlattenSeq(ss) = f[len]
    BY <1>4 DEF FlattenSeq
  <2> HIDE DEF f
  <2> DEFINE Good(k) ==
               /\ f[k] \in Seq(S) /\ pos[k] = i + Len(f[k])
               /\ \A s : Len(s) \in Nat /\ Here(s, i, f[k]) =>
                    \A j \in 1..k : Here(s, pos[j - 1], ss[j])
             T == {m \in Nat : 1 <= m /\ m <= len => Good(m)}
  <2>3. 0 \in T
    OBVIOUS
  <2>4. ASSUME NEW m \in Nat, m \in T
        PROVE  m + 1 \in T
    <3>1. SUFFICES ASSUME m + 1 <= len PROVE Good(m + 1)
      OBVIOUS
    <3>2. m + 1 \in 1..len /\ (m + 1) - 1 = m /\ m \in 0..len
      BY <3>1
    <3>3. f[m + 1] = Joined(f, m + 1) /\ pos[m + 1] = pos[m] + Len(ss[m + 1])
          /\ ss[m + 1] \in Seq(S) /\ pos[m] \in Nat
      <4> HIDE DEF Joined, len
      <4> QED
        BY <1>1, <1>2, <2>1, <3>2
    <3> DEFINE y == ss[m + 1]
    <3>4. CASE m = 0
      <4>1. f[m + 1] = y /\ pos[m] = i
        BY <1>2, <3>2, <3>3, <3>4
      <4>2. \A s : Len(s) \in Nat /\ Here(s, i, f[m + 1]) =>
              \A j \in 1..(m + 1) : Here(s, pos[j - 1], ss[j])
        <5> TAKE s
        <5>1. SUFFICES ASSUME Here(s, i, f[m + 1]), NEW j \in 1..(m + 1)
                       PROVE  Here(s, pos[j - 1], ss[j])
          OBVIOUS
        <5>2. j = m + 1 /\ j - 1 = m
          BY <3>4
        <5> QED
          BY <4>1, <5>1, <5>2
      <4> QED
        BY <3>3, <4>1, <4>2
    <3>5. CASE m # 0
      <4> DEFINE x == f[m]
      <4>1. f[m + 1] = x \o y /\ Good(m)
        <5>1. f[m + 1] = x \o y
          <6>1. m + 1 # 1
            BY <3>5
          <6> QED
            BY <3>2, <3>3, <6>1
        <5>2. 1 <= m /\ m <= len
          BY <1>1, <3>1, <3>5
        <5> HIDE DEF Good
        <5> QED
          BY <2>4, <5>1, <5>2
      <4>2. x \in Seq(S) /\ y \in Seq(S) /\ pos[m] = i + Len(x)
        BY <3>3, <4>1
      <4>3. x \o y \in Seq(S) /\ Len(x \o y) = Len(x) + Len(y) /\ Len(x) \in Nat /\ Len(y) \in Nat
        <5> HIDE DEF x, y
        <5> QED
          BY <4>2
      <4>4. pos[m + 1] = i + Len(f[m + 1])
        <5> DEFINE lx == Len(x)
                   ly == Len(y)
        <5>1. Len(f[m + 1]) = lx + ly /\ lx \in Nat /\ ly \in Nat /\ pos[m] = i + lx
              /\ pos[m + 1] = pos[m] + ly
          <6> HIDE DEF x
          <6> QED
            BY <3>3, <4>1, <4>2, <4>3
        <5> HIDE DEF lx, ly, Good, T
        <5> QED
          BY <5>1
      <4>5. \A s : Len(s) \in Nat /\ Here(s, i, f[m + 1]) =>
              \A j \in 1..(m + 1) : Here(s, pos[j - 1], ss[j])
        <5> TAKE s
        <5>1. SUFFICES ASSUME Len(s) \in Nat, Here(s, i, f[m + 1]), NEW j \in 1..(m + 1)
                       PROVE  Here(s, pos[j - 1], ss[j])
          OBVIOUS
        <5>2. Here(s, i, x) /\ Here(s, i + Len(x), y)
          <6>1. Here(s, i, x \o y)
            BY <4>1, <5>1
          <6> HIDE DEF x, y
          <6> QED
            BY <4>2, <5>1, <6>1, HereJoined
        <5>3. CASE j = m + 1
          <6>1. j - 1 = m
            BY <5>3
          <6> QED
            BY <4>2, <5>2, <5>3, <6>1
        <5>4. CASE j # m + 1
          <6>1. j \in 1..m
            BY <5>4
          <6> QED
            BY <4>1, <5>1, <5>2, <6>1
        <5> QED
          BY <5>3, <5>4
      <4> HIDE DEF x, y
      <4> QED
        BY <4>1, <4>3, <4>4, <4>5
    <3> QED
      BY <3>4, <3>5
  <2> HIDE DEF T
  <2>5. len \in T
    BY <1>1, <2>3, <2>4, Induction
  <2>6. Good(len)
    BY <1>1, <1>4, <2>5 DEF T
  <2> QED
    BY <2>2, <2>6 DEF pos
<1> QED
  BY <1>3, <1>4

\* Items val that lie one after the other, from pos[0] to pos[m].
Chain(item, pos, val, m) ==
  \A k \in 1..m : item[pos[k - 1]].to = pos[k] /\ item[pos[k - 1]].v = val[k]

LEMMA ListIs ==
  ASSUME NEW item, NEW i \in Nat, NEW m \in Nat, NEW pos, pos[0] = i,
         NEW val, Chain(item, pos, val, m)
  PROVE  List(item, i, m).v = [k \in 1..m |-> val[k]] /\ List(item, i, m).to = pos[m]
<1> DEFINE Step(g, k) == IF k = 0 THEN i ELSE item[g[k - 1]].to
           to == CHOOSE to : to = [k \in 0..m |-> Step(to, k)]
           g == [k \in 0..m |-> pos[k]]
<1>0. \A k \in 1..m : item[pos[k - 1]].to = pos[k] /\ item[pos[k - 1]].v = val[k]
  BY DEF Chain
<1>1. g = [k \in 0..m |-> Step(g, k)]
  <2>1. ASSUME NEW k \in 0..m
        PROVE  pos[k] = Step(g, k)
    <3>1. CASE k = 0
      BY <3>1
    <3>2. CASE k # 0
      <4>1. k \in 1..m /\ k - 1 \in 0..m
        BY <3>2
      <4> QED
        BY <1>0, <3>2, <4>1
    <3> QED
      BY <3>1, <3>2
  <2> HIDE DEF Step
  <2> QED
    BY <2>1
<1>2. to = [k \in 0..m |-> Step(to, k)]
  <2> HIDE DEF Step, g
  <2> QED
    BY <1>1
<1>3. List(item, i, m) = [v |-> [k \in 1..m |-> item[to[k - 1]].v], to |-> to[m]]
  BY DEF List
<1> HIDE DEF to
<1> DEFINE T == {k \in Nat : k <= m => to[k] = pos[k]}
<1>4. 0 \in T
  BY <1>2
<1>5. ASSUME NEW k \in Nat, k \in T
      PROVE  k + 1 \in T
  <2>1. SUFFICES ASSUME k + 1 <= m PROVE to[k + 1] = pos[k + 1]
    OBVIOUS
  <2>2. k + 1 \in 1..m /\ k + 1 \in 0..m /\ (k + 1) - 1 = k /\ k + 1 # 0 /\ to[k] = pos[k]
    BY <1>5, <2>1
  <2>3. to[k + 1] = item[to[k]].to
    BY <1>2, <2>2
  <2>4. item[pos[(k + 1) - 1]].to = pos[k + 1]
    BY <1>0, <2>2
  <2> QED
    BY <2>2, <2>3, <2>4
<1> HIDE DEF T
<1>6. \A k \in 0..m : to[k] = pos[k]
  <2>1. Nat \subseteq T
    BY <1>4, <1>5, Induction
  <2> QED
    BY <2>1 DEF T
<1>7. \A k \in 1..m : item[to[k - 1]].v = val[k]
  <2> TAKE k \in 1..m
  <2>1. k - 1 \in 0..m
    OBVIOUS
  <2> QED
    BY <1>0, <1>6, <2>1
<1> QED
  BY <1>3, <1>6, <1>7

-----------------------------------------------------------------------------
(* What is read from a file: constants.                                    *)

LEMMA Uleb33Read ==
  ASSUME NEW s, Len(s) \in Nat, NEW i \in Nat, NEW x \in 0..(Word - 1), NEW bit \in {0, 1},
         Here(s, i, Uleb33Bytes(x, bit))
  PROVE  /\ Uleb33(s, i).v = x /\ Uleb33(s, i).to = i + Len(Uleb33Bytes(x, bit))
         /\ At(s, i) % 2 = bit
<1> DEFINE N == 2 * x + bit
<1>1. Uleb33Bytes(x, bit) = UlebBytes(N) /\ N \in Nat /\ N < 2 * Word
  BY Uleb33Is
<1>2. N \div 2 = x
  <2>1. 2 * x <= N /\ N < 2 * x + 2 /\ x \in Nat /\ N \in Nat
    OBVIOUS
  <2> HIDE DEF N
  <2> QED
    BY <2>1, QuotientIs
<1>3. N % 2 = bit
  <2>1. (2 * x + bit) % 2 = bit
    <3>1. x \in Int /\ bit \in 0..(2 - 1) /\ 2 \in Nat \ {0}
      BY WordType
    <3> QED
      BY <3>1, Remainder
  <2> QED
    BY <2>1
<1> HIDE DEF N
<1>4. LastDigit(s, i) + 1 = i + Len(UlebBytes(N)) /\ Digits(s, i) = N
  BY <1>1, DigitsRead
<1>5. x % Word = x
  BY WordType
<1>6. At(s, i) % 2 = bit
  <2>1. PICK m \in 1..UlebMax :
          UlebBytes(N) = [k \in 1..m |-> ((N \div Unit(k - 1)) % Half) + (IF k < m THEN Half ELSE 0)]
    BY <1>1, UlebLength
  <2>2. 1 \in 1..m /\ 1 - 1 = 0
    BY NumberAssumption
  <2>3. Len(UlebBytes(N)) = m /\ m \in Nat
    BY <2>1, NumberAssumption
  <2>4. UlebBytes(N)[1] = ((N \div Unit(0)) % Half) + (IF 1 < m THEN Half ELSE 0)
    BY <2>1, <2>2
  <2>5. At(s, i) = UlebBytes(N)[1]
    <3> DEFINE u == UlebBytes(N)
    <3>1. Len(u) \in Nat /\ 1 \in 1..Len(u) /\ Here(s, i, u) /\ i + (1 - 1) = i
      BY <1>1, <2>2, <2>3
    <3> HIDE DEF u
    <3> QED
      BY <3>1, HereAt DEF u
  <2>6. N \div Unit(0) = N
    BY <1>1, HalfFacts
  <2> DEFINE r == N % Half
             d == N \div Half
  <2>7. r \in Nat /\ d \in Int /\ N = Half * d + r
    <3>1. Half \in Nat \ {0} /\ N \in Int
      BY <1>1, HalfFacts
    <3>2. r \in 0..(Half - 1) /\ d \in Int /\ N = Half * d + r
      BY <3>1, Division
    <3> QED
      BY <3>1, <3>2
  <2>8. PICK h \in Nat : Half = 2 * h
    BY HalfFacts
  <2> HIDE DEF r, d
  <2>9. r % 2 = bit
    <3> DEFINE hd == h * d
    <3>1. Half * d = 2 * hd /\ hd \in Int
      BY <2>7, <2>8
    <3> HIDE DEF hd
    <3>2. (r + 2 * hd) % 2 = r % 2
      BY <2>7, <3>1, SameRemainder
    <3>3. r + 2 * hd = N
      BY <2>7, <3>1
    <3> QED
      BY <1>3, <3>2, <3>3
  <2>10. (r + Half) % 2 = bit
    BY <2>7, <2>8, <2>9, SameRemainder
  <2> QED
    BY <2>4, <2>5, <2>6, <2>7, <2>9, <2>10 DEF r
<1> QED
  BY <1>1, <1>2, <1>4, <1>5, <1>6 DEF Uleb33

LEMMA WordBytesType ==
  ASSUME NEW x \in 0..(Word - 1)
  PROVE  /\ x \in Nat /\ x < Word /\ x < 2 * Word
         /\ UlebBytes(x) \in Seq(Byte) /\ Len(UlebBytes(x)) \in Nat /\ Len(UlebBytes(x)) >= 1
         /\ Len(UlebBytes(x)) <= UlebMax
         /\ \A bit \in {0, 1} :
              Uleb33Bytes(x, bit) \in Seq(Byte) /\ Len(Uleb33Bytes(x, bit)) \in Nat
<1>1. x \in Nat /\ x < Word /\ x < 2 * Word
  BY WordType
<1>2. UlebBytes(x) \in Seq(Byte) /\ Len(UlebBytes(x)) \in 1..UlebMax
  BY <1>1, UlebBytesType
<1>3. ASSUME NEW bit \in {0, 1}
      PROVE  Uleb33Bytes(x, bit) \in Seq(Byte) /\ Len(Uleb33Bytes(x, bit)) \in Nat
  <2>1. Uleb33Bytes(x, bit) = UlebBytes(2 * x + bit) /\ 2 * x + bit \in Nat /\ 2 * x + bit < 2 * Word
    BY Uleb33Is
  <2> QED
    BY <2>1, UlebBytesType
<1>4. Len(UlebBytes(x)) \in Nat /\ Len(UlebBytes(x)) >= 1 /\ Len(UlebBytes(x)) <= UlebMax
  BY <1>2, NumberAssumption
<1> QED
  BY <1>1, <1>2, <1>3, <1>4

\* bcread_knum_mod
LEMMA KNumRead ==
  ASSUME NEW s, Len(s) \in Nat, NEW i \in Nat, NEW o, IsNumber(o), Here(s, i, KNumBytes(o))
  PROVE  KNum(s, i).v = o /\ KNum(s, i).to = i + Len(KNumBytes(o))
<1>1. o[1] = "num" /\ o = Number(o[2], o[3]) /\ o[2] \in 0..(Word - 1) /\ o[3] \in 0..(Word - 1)
  BY DEF IsNumber
<1>2. CASE IsInt(o)
  <2>1. o[3] = IntHi /\ KNumBytes(o) = Uleb33Bytes(o[2], 0)
    BY <1>2 DEF IsInt, KNumBytes
  <2>2. /\ Uleb33(s, i).v = o[2] /\ Uleb33(s, i).to = i + Len(Uleb33Bytes(o[2], 0))
        /\ At(s, i) % 2 = 0
    BY <1>1, <2>1, Uleb33Read
  <2>3. KNum(s, i) = [v |-> Number(Uleb33(s, i).v, IntHi), to |-> Uleb33(s, i).to]
    BY <2>2 DEF KNum
  <2> QED
    BY <1>1, <2>1, <2>2, <2>3
<1>3. CASE ~IsInt(o)
  <2> DEFINE x == Uleb33Bytes(o[2], 1)
             y == UlebBytes(o[3])
  <2>1. KNumBytes(o) = x \o y
    BY <1>3 DEF KNumBytes
  <2>2. x \in Seq(Byte) /\ y \in Seq(Byte) /\ Len(x) \in Nat /\ Len(y) \in Nat
        /\ o[3] \in Nat /\ o[3] < Word
    BY <1>1, WordBytesType
  <2>3. Len(x \o y) = Len(x) + Len(y) /\ Here(s, i, x) /\ Here(s, i + Len(x), y)
    <3> HIDE DEF x, y
    <3> QED
      BY <2>1, <2>2, HereJoined
  <2>4. Uleb33(s, i).v = o[2] /\ Uleb33(s, i).to = i + Len(x) /\ At(s, i) % 2 = 1
    BY <1>1, <2>3, Uleb33Read
  <2>5. Uleb(s, i + Len(x)).v = o[3] /\ Uleb(s, i + Len(x)).to = (i + Len(x)) + Len(y)
    <3> DEFINE j == i + Len(x)
    <3>1. j \in Nat /\ Here(s, j, UlebBytes(o[3]))
      BY <2>2, <2>3
    <3> HIDE DEF j
    <3>2. Uleb(s, j).v = o[3] /\ Uleb(s, j).to = j + Len(UlebBytes(o[3]))
      BY <2>2, <3>1, UlebRead
    <3> QED
      BY <3>2 DEF j
  <2>6. KNum(s, i) = [v |-> Number(Uleb33(s, i).v, Uleb(s, Uleb33(s, i).to).v),
                      to |-> Uleb(s, Uleb33(s, i).to).to]
    BY <2>4 DEF KNum
  <2>7. KNum(s, i).v = o
    BY <1>1, <2>4, <2>5, <2>6
  <2>8. KNum(s, i).to = i + Len(KNumBytes(o))
    <3>1. KNum(s, i).to = (i + Len(x)) + Len(y)
      BY <2>4, <2>5, <2>6
    <3> HIDE DEF x, y
    <3> QED
      BY <2>1, <2>2, <2>3, <3>1
  <2> QED
    BY <2>7, <2>8
<1> QED
  BY <1>2, <1>3

LEMMA KNumType ==
  ASSUME NEW o, IsNumber(o)
  PROVE  KNumBytes(o) \in Seq(Byte)
<1>1. o[2] \in 0..(Word - 1) /\ o[3] \in 0..(Word - 1)
  BY DEF IsNumber
<1>2. /\ Uleb33Bytes(o[2], 0) \in Seq(Byte) /\ Uleb33Bytes(o[2], 1) \in Seq(Byte)
      /\ UlebBytes(o[3]) \in Seq(Byte)
  BY <1>1, WordBytesType
<1>3. Uleb33Bytes(o[2], 1) \o UlebBytes(o[3]) \in Seq(Byte)
  <2> DEFINE x == Uleb33Bytes(o[2], 1)
             y == UlebBytes(o[3])
  <2>1. x \in Seq(Byte) /\ y \in Seq(Byte)
    BY <1>2
  <2> HIDE DEF x, y
  <2>2. x \o y \in Seq(Byte)
    BY <2>1
  <2> QED
    BY <2>2 DEF x, y
<1> QED
  BY <1>2, <1>3 DEF KNumBytes

\* A number after other bytes,
LEMMA UlebNext ==
  ASSUME NEW s, Len(s) \in Nat, NEW i \in Nat, NEW x \in Seq(Byte), NEW a \in 0..(Word - 1),
         Here(s, i, x \o UlebBytes(a))
  PROVE  /\ Here(s, i, x) /\ i + Len(x) \in Nat
         /\ Uleb(s, i + Len(x)).v = a
         /\ Uleb(s, i + Len(x)).to = i + Len(x \o UlebBytes(a))
<1> DEFINE y == UlebBytes(a)
           j == i + Len(x)
<1>1. a \in Nat /\ a < Word /\ y \in Seq(Byte) /\ Len(y) \in Nat
  BY WordBytesType
<1>2. Here(s, i, x) /\ Here(s, j, y) /\ j \in Nat /\ i + Len(x \o y) = j + Len(y)
  <2> HIDE DEF y
  <2>1. Here(s, i, x) /\ Here(s, i + Len(x), y)
    BY <1>1, HereJoined DEF y
  <2>2. Len(x \o y) = Len(x) + Len(y) /\ Len(x) \in Nat
    BY <1>1
  <2> QED
    BY <1>1, <2>1, <2>2
<1> HIDE DEF j
<1>3. Uleb(s, j).v = a /\ Uleb(s, j).to = j + Len(UlebBytes(a))
  BY <1>1, <1>2, UlebRead
<1> QED
  BY <1>2, <1>3 DEF j

\* and a block after other bytes.
LEMMA BlockNext ==
  ASSUME NEW s, Len(s) \in Nat, NEW i \in Nat, NEW x \in Seq(Byte), NEW y \in Seq(Byte),
         Here(s, i, x \o y)
  PROVE  /\ Here(s, i, x) /\ i + Len(x) \in Nat
         /\ Block(s, i + Len(x), Len(y)).v = y
         /\ Block(s, i + Len(x), Len(y)).to = i + Len(x \o y)
<1> DEFINE j == i + Len(x)
<1>1. Here(s, i, x) /\ Here(s, j, y) /\ j \in Nat /\ i + Len(x \o y) = j + Len(y)
  <2>1. Here(s, i, x) /\ Here(s, i + Len(x), y)
    BY HereJoined
  <2>2. Len(x \o y) = Len(x) + Len(y) /\ Len(x) \in Nat /\ Len(y) \in Nat
    OBVIOUS
  <2> QED
    BY <2>1, <2>2
<1> HIDE DEF j
<1>2. Block(s, j, Len(y)).v = y /\ Block(s, j, Len(y)).to = j + Len(y)
  BY <1>1, HereBlock
<1> QED
  BY <1>1, <1>2 DEF j

LEMMA Codes ==
  /\ KTAB_NIL \in 0..(Word - 1) /\ KTAB_INT \in 0..(Word - 1) /\ KTAB_NUM \in 0..(Word - 1)
  /\ KGC_TAB \in 0..(Word - 1) /\ KGC_CHILD \in 0..(Word - 1)
BY WordType DEF KTAB_NIL, KTAB_INT, KTAB_NUM, KGC_TAB, KGC_CHILD

LEMMA ConcatType ==
  ASSUME NEW S, NEW x \in Seq(S), NEW y \in Seq(S)
  PROVE  x \o y \in Seq(S) /\ Len(x \o y) = Len(x) + Len(y) /\ Len(x) \in Nat /\ Len(y) \in Nat
OBVIOUS

\* bcread_ktabk
LEMMA KTabKRead ==
  ASSUME NEW o, IsValue(o), NEW narrow \in BOOLEAN
  PROVE  /\ KTabKBytes(o, narrow) \in Seq(Byte)
         /\ \A s : \A i \in Nat :
              Len(s) \in Nat /\ Here(s, i, KTabKBytes(o, narrow)) =>
                /\ KTabK(s, i).v = o
                /\ KTabK(s, i).to = i + Len(KTabKBytes(o, narrow))
<1>1. CASE IsString(o)
  <2> DEFINE tag == KTAB_STR + Len(o[2])
             x == UlebBytes(tag)
             y == o[2]
  <2>1. o[1] = "str" /\ o = <<"str", y>> /\ y \in Seq(Byte) /\ KGC_STR + Len(y) < Word
    BY <1>1 DEF IsString
  <2>2. tag \in 0..(Word - 1) /\ tag >= KTAB_STR /\ tag - KTAB_STR = Len(y)
    <3> HIDE DEF y
    <3>1. Len(y) \in Nat
      BY <2>1
    <3> QED
      BY <2>1, <3>1, WordType DEF y, KTAB_STR, KGC_STR
  <2>3. KTabKBytes(o, narrow) = x \o y
    BY <2>1 DEF KTabKBytes, IsInt
  <2>4. x \in Seq(Byte)
    <3> HIDE DEF tag
    <3> QED
      BY <2>2, WordBytesType
  <2>5. ASSUME NEW s, NEW i \in Nat, Len(s) \in Nat, Here(s, i, x \o y)
        PROVE  KTabK(s, i).v = o /\ KTabK(s, i).to = i + Len(x \o y)
    <3>1. Uleb(s, i).v = tag /\ Uleb(s, i).to = i + Len(x)
      <4> HIDE DEF tag, y
      <4>1. Here(s, i, UlebBytes(tag))
        <5> HIDE DEF x
        <5> QED
          BY <2>1, <2>4, <2>5, HereJoined DEF x
      <4> QED
        BY <2>2, <2>5, <4>1, UlebRead, WordBytesType
    <3>2. Block(s, i + Len(x), Len(y)).v = y /\ Block(s, i + Len(x), Len(y)).to = i + Len(x \o y)
      <4> HIDE DEF x, y
      <4> QED
        BY <2>1, <2>4, <2>5, BlockNext
    <3> HIDE DEF tag, x, y
    <3>3. KTabK(s, i) = [v |-> <<"str", Block(s, i + Len(x), Len(y)).v>>,
                         to |-> Block(s, i + Len(x), Len(y)).to]
      <4> DEFINE tp == Uleb(s, i)
      <4>1. tp.v >= KTAB_STR /\ ~(tp.v = KTAB_INT) /\ ~(tp.v = KTAB_NUM) /\ ~(tp.v < KTAB_INT)
        BY <2>2, <3>1 DEF KTAB_STR, KTAB_INT, KTAB_NUM
      <4>2. Block(s, tp.to, tp.v - KTAB_STR) = Block(s, i + Len(x), Len(y))
        BY <2>2, <3>1
      <4> HIDE DEF tp
      <4> QED
        BY <4>1, <4>2 DEF KTabK, tp
    <3> QED
      BY <2>1, <3>2, <3>3
  <2>6. x \o y \in Seq(Byte)
    <3> HIDE DEF x, y
    <3> QED
      BY <2>1, <2>4
  <2> QED
    BY <2>3, <2>5, <2>6
<1>2. CASE IsPrimitive(o)
  <2>1. o[1] = "pri" /\ o = <<"pri", o[2]>> /\ o[2] \in 0..2 /\ KTAB_NIL + o[2] = o[2]
    BY <1>2 DEF IsPrimitive, KTAB_NIL, KTAB_INT
  <2>2. KTabKBytes(o, narrow) = UlebBytes(o[2])
    BY <2>1 DEF KTabKBytes, IsInt
  <2>3. o[2] \in 0..(Word - 1)
    BY <2>1, WordType
  <2>4. ASSUME NEW s, NEW i \in Nat, Len(s) \in Nat, Here(s, i, UlebBytes(o[2]))
        PROVE  KTabK(s, i).v = o /\ KTabK(s, i).to = i + Len(UlebBytes(o[2]))
    <3> DEFINE tp == Uleb(s, i)
    <3>1. tp.v = o[2] /\ tp.to = i + Len(UlebBytes(o[2]))
      BY <2>3, <2>4, UlebRead, WordBytesType
    <3>2. ~(tp.v >= KTAB_STR) /\ ~(tp.v = KTAB_INT) /\ ~(tp.v = KTAB_NUM) /\ tp.v < KTAB_INT
      BY <2>1, <3>1 DEF KTAB_STR, KTAB_INT, KTAB_NUM
    <3>3. KTabK(s, i) = [v |-> <<"pri", tp.v>>, to |-> tp.to]
      <4> HIDE DEF tp
      <4> QED
        BY <3>2 DEF KTabK, tp
    <3> HIDE DEF tp
    <3> QED
      BY <2>1, <3>1, <3>3
  <2>5. UlebBytes(o[2]) \in Seq(Byte)
    BY <2>3, WordBytesType
  <2> QED
    BY <2>2, <2>4, <2>5
<1>3. CASE IsNumber(o) /\ IsInt(o) /\ narrow
  <2> DEFINE x == UlebBytes(KTAB_INT)
             y == UlebBytes(o[2])
  <2>1. /\ o[1] = "num" /\ o = Number(o[2], IntHi) /\ o[2] \in 0..(Word - 1)
        /\ KTabKBytes(o, narrow) = x \o y
    BY <1>3 DEF IsNumber, IsInt, KTabKBytes
  <2>2. x \in Seq(Byte) /\ y \in Seq(Byte)
    BY <2>1, Codes, WordBytesType
  <2>3. ASSUME NEW s, NEW i \in Nat, Len(s) \in Nat, Here(s, i, x \o y)
        PROVE  KTabK(s, i).v = o /\ KTabK(s, i).to = i + Len(x \o y)
    <3>1. Here(s, i, x) /\ Uleb(s, i + Len(x)).v = o[2] /\ Uleb(s, i + Len(x)).to = i + Len(x \o y)
      <4> HIDE DEF x
      <4> QED
        BY <2>1, <2>2, <2>3, UlebNext
    <3>2. Uleb(s, i).v = KTAB_INT /\ Uleb(s, i).to = i + Len(x)
      BY <2>3, <3>1, Codes, WordBytesType, UlebRead
    <3> HIDE DEF x, y
    <3>3. KTabK(s, i) = [v |-> Number(Uleb(s, i + Len(x)).v, IntHi), to |-> Uleb(s, i + Len(x)).to]
      BY <3>2 DEF KTabK, KTAB_INT, KTAB_STR, KTAB_NUM
    <3> QED
      BY <2>1, <3>1, <3>3
  <2>4. x \o y \in Seq(Byte)
    <3> HIDE DEF x, y
    <3> QED
      BY <2>2
  <2> QED
    BY <2>1, <2>3, <2>4
<1>4. CASE IsNumber(o) /\ ~(IsInt(o) /\ narrow)
  <2> DEFINE x == UlebBytes(KTAB_NUM)
             y == UlebBytes(o[2])
             z == UlebBytes(o[3])
  <2>1. /\ o[1] = "num" /\ o = Number(o[2], o[3])
        /\ o[2] \in 0..(Word - 1) /\ o[3] \in 0..(Word - 1)
        /\ KTabKBytes(o, narrow) = (x \o y) \o z
    BY <1>4 DEF IsNumber, IsInt, KTabKBytes
  <2>2. x \in Seq(Byte) /\ y \in Seq(Byte) /\ z \in Seq(Byte)
    BY <2>1, Codes, WordBytesType
  <2>3. x \o y \in Seq(Byte) /\ (x \o y) \o z \in Seq(Byte)
    <3> HIDE DEF x, y, z
    <3> QED
      BY <2>2
  <2>4. ASSUME NEW s, NEW i \in Nat, Len(s) \in Nat, Here(s, i, (x \o y) \o z)
        PROVE  KTabK(s, i).v = o /\ KTabK(s, i).to = i + Len((x \o y) \o z)
    <3>1. /\ Here(s, i, x \o y) /\ Uleb(s, i + Len(x \o y)).v = o[3]
          /\ Uleb(s, i + Len(x \o y)).to = i + Len((x \o y) \o z)
      <4> DEFINE w == x \o y
                 hi == o[3]
      <4>1. w \in Seq(Byte) /\ hi \in 0..(Word - 1) /\ Here(s, i, w \o UlebBytes(hi))
            /\ Len(s) \in Nat
        BY <2>1, <2>3, <2>4
      <4> HIDE DEF w, hi
      <4>2. /\ Here(s, i, w) /\ Uleb(s, i + Len(w)).v = hi
            /\ Uleb(s, i + Len(w)).to = i + Len(w \o UlebBytes(hi))
        BY <4>1, UlebNext
      <4> QED
        BY <4>2 DEF w, hi
    <3>2. Here(s, i, x) /\ Uleb(s, i + Len(x)).v = o[2] /\ Uleb(s, i + Len(x)).to = i + Len(x \o y)
      <4> DEFINE lo == o[2]
      <4>1. x \in Seq(Byte) /\ lo \in 0..(Word - 1) /\ Here(s, i, x \o UlebBytes(lo))
            /\ Len(s) \in Nat
        BY <2>1, <2>2, <2>4, <3>1
      <4> HIDE DEF x, lo
      <4>2. /\ Here(s, i, x) /\ Uleb(s, i + Len(x)).v = lo
            /\ Uleb(s, i + Len(x)).to = i + Len(x \o UlebBytes(lo))
        BY <4>1, UlebNext
      <4> QED
        BY <4>2 DEF x, lo
    <3>3. Uleb(s, i).v = KTAB_NUM /\ Uleb(s, i).to = i + Len(x)
      BY <2>4, <3>2, Codes, WordBytesType, UlebRead
    <3> HIDE DEF x, y, z
    <3>4. KTabK(s, i) = [v |-> Number(Uleb(s, i + Len(x)).v, Uleb(s, i + Len(x \o y)).v),
                         to |-> Uleb(s, i + Len(x \o y)).to]
      BY <3>2, <3>3 DEF KTabK, KTAB_INT, KTAB_STR, KTAB_NUM
    <3> QED
      BY <2>1, <3>1, <3>2, <3>4
  <2> QED
    BY <2>1, <2>3, <2>4
<1> QED
  BY <1>1, <1>2, <1>3, <1>4 DEF IsValue

\* A sequence of length m in which every element of D is once.
EachOnce(keys, m, D) ==
  /\ \A j \in 1..m : keys[j] \in D
  /\ \A j \in 1..m, k \in 1..m : keys[j] = keys[k] => j = k
  /\ \A k \in D : \E j \in 1..m : keys[j] = k

\* The keys of a table in any order.
LEMMA KeysInOrder ==
  ASSUME NEW D, IsFiniteSet(D)
  PROVE  /\ Cardinality(D) \in Nat /\ \E keys : keys \in SetToSeqs(D)
         /\ \A keys \in SetToSeqs(D) :
              /\ keys \in Seq(D) /\ Len(keys) = Cardinality(D)
              /\ EachOnce(keys, Len(keys), D)
<1> DEFINE m == Cardinality(D)
<1>1. PICK z \in Nat : ExistsBijection(1..z, D)
  BY FS_NatBijection
<1>2. m = z /\ m \in Nat
  BY <1>1, FS_CountingElements
<1>3. PICK f : f \in Bijection(1..m, D)
  BY <1>1, <1>2 DEF ExistsBijection
<1>4. f \in SetToSeqs(D)
  <2>1. f \in [1..m -> D] /\ \A j, k \in 1..m : f[j] = f[k] => j = k
    BY <1>3 DEF Bijection, Injection, IsInjective
  <2> QED
    BY <2>1 DEF SetToSeqs
<1>5. ASSUME NEW keys \in SetToSeqs(D)
      PROVE  keys \in Seq(D) /\ Len(keys) = m /\ EachOnce(keys, Len(keys), D)
  <2>1. keys \in [1..m -> D] /\ \A j, k \in 1..m : j # k => keys[j] # keys[k]
    BY DEF SetToSeqs
  <2>2. keys \in Seq(D) /\ Len(keys) = m
    BY <1>2, <2>1
  <2>3. keys \in Injection(1..m, D)
    BY <2>1 DEF Injection, IsInjective
  <2>4. IsFiniteSet(1..m) /\ Cardinality(1..m) = m
    BY <1>2, FS_Interval
  <2>5. keys \in Surjection(1..m, D)
    BY <2>3, <2>4, FS_Injection
  <2>6. \A k \in D : \E j \in 1..m : keys[j] = k
    BY <2>5 DEF Surjection
  <2> QED
    BY <2>1, <2>2, <2>6 DEF EachOnce
<1> QED
  BY <1>2, <1>4, <1>5

LEMMA AssignedIs ==
  ASSUME NEW D, NEW f, f = [k \in D |-> f[k]], NEW m \in Nat,
         NEW keys, EachOnce(keys, m, D),
         NEW kv, Len(kv) = 2 * m,
         \A j \in 1..m : kv[2 * j - 1] = keys[j] /\ kv[2 * j] = f[keys[j]]
  PROVE  Assigned(kv) = f
<1> DEFINE place(k) == {j \in 1..m : kv[2 * j - 1] = k}
<1>1. Len(kv) \div 2 = m
  <2>1. 2 * m <= 2 * m /\ 2 * m < 2 * m + 2 /\ 2 * m \in Nat /\ 2 \in Nat \ {0}
    OBVIOUS
  <2>2. (2 * m) \div 2 = m
    BY <2>1, QuotientIs
  <2> QED
    BY <2>2
<1>2. {kv[2 * j - 1] : j \in 1..m} = D
  BY DEF EachOnce
<1>3. Assigned(kv) = [k \in D |-> kv[2 * Max(place(k))]]
  BY <1>1, <1>2 DEF Assigned
<1>4. ASSUME NEW k \in D
      PROVE  kv[2 * Max(place(k))] = f[k]
  <2>1. PICK j \in 1..m : keys[j] = k
    BY DEF EachOnce
  <2>2. place(k) = {j}
    BY <2>1 DEF EachOnce
  <2>3. Max({j}) = j
    <3>1. j \in {j} /\ \A y \in {j} : j >= y
      OBVIOUS
    <3> QED
      BY <3>1 DEF Max
  <2> QED
    BY <2>1, <2>2, <2>3
<1> QED
  BY <1>3, <1>4

LEMMA SeqIs ==
  ASSUME NEW S, NEW m \in Nat, NEW f \in [1..m -> S]
  PROVE  f \in Seq(S) /\ Len(f) = m /\ DOMAIN f = 1..m
OBVIOUS

LEMMA SubSeqIs ==
  ASSUME NEW m \in Nat, NEW v, v = [k \in 1..m |-> v[k]],
         NEW a \in 1..(m + 1), NEW b \in 0..m, a <= b + 1
  PROVE  /\ Len(SubSeq(v, a, b)) = b - a + 1
         /\ SubSeq(v, a, b) = [k \in 1..(b - a + 1) |-> v[a + k - 1]]
<1> DEFINE S == {v[k] : k \in 1..m}
           w == SubSeq(v, a, b)
           len == b - a + 1
<1>1. v \in [1..m -> S]
  OBVIOUS
<1>2. v \in Seq(S) /\ Len(v) = m
  <2> HIDE DEF S
  <2> QED
    BY <1>1, SeqIs
<1> HIDE DEF S
<1>3. /\ w \in Seq(S) /\ Len(w) = IF a <= b THEN b - a + 1 ELSE 0
      /\ \A k \in 1..(b - a + 1) : w[k] = v[a + k - 1]
  BY SMTT(20), <1>2, SubSeqProperties
<1>4. Len(w) = len /\ len \in Nat
  BY <1>3
<1>5. w = [k \in 1..Len(w) |-> w[k]]
  BY SMTT(20), <1>3
<1> HIDE DEF w
<1> QED
  BY <1>3, <1>4, <1>5 DEF w

\* Pairs of items that lie one after the other.
Pairs(item, pos, mid, first, second, m) ==
  \A j \in 1..m : /\ item[pos[j - 1]].to = mid[j] /\ item[pos[j - 1]].v = first[j]
                  /\ item[mid[j]].to = pos[j] /\ item[mid[j]].v = second[j]

\* What is read of na single items and nh pairs.
Holds(kv, to, a, first, second, na, nh) ==
  /\ kv.to = to /\ kv.v = [k \in 1..(na + 2 * nh) |-> kv.v[k]]
  /\ \A j \in 1..na : kv.v[j] = a[j]
  /\ \A j \in 1..nh : kv.v[na + 2 * j - 1] = first[j] /\ kv.v[na + 2 * j] = second[j]

\* A list of single items, and then of pairs.
LEMMA SinglesAndPairs ==
  ASSUME NEW item, NEW na \in Nat, NEW nh \in Nat, NEW PA, NEW PB, NEW mid,
         NEW a, NEW first, NEW second,
         PA[0] \in Nat, PA[na] = PB[0], Chain(item, PA, a, na),
         Pairs(item, PB, mid, first, second, nh)
  PROVE  Holds(List(item, PA[0], na + 2 * nh), PB[nh], a, first, second, na, nh)
<1> DEFINE m == na + 2 * nh
           pos == [k \in 0..m |->
                     IF k <= na THEN PA[k]
                     ELSE IF (k - na) % 2 = 0 THEN PB[(k - na) \div 2]
                     ELSE mid[(k - na + 1) \div 2]]
           val == [k \in 1..m |->
                     IF k <= na THEN a[k]
                     ELSE IF (k - na) % 2 = 0 THEN second[(k - na) \div 2]
                     ELSE first[(k - na + 1) \div 2]]
<1>1. pos[0] = PA[0]
  OBVIOUS
<1>2. pos[m] = PB[nh]
  <2>1. m \in 0..m /\ m - na = 2 * nh /\ (2 * nh) % 2 = 0 /\ (2 * nh) \div 2 = nh
    OBVIOUS
  <2>2. CASE nh = 0
    <3>1. pos[m] = PA[na]
      BY <2>1, <2>2
    <3> QED
      BY <2>2, <3>1
  <2>3. CASE nh # 0
    <3>1. ~(m <= na)
      BY <2>3
    <3> QED
      BY <2>1, <3>1
  <2> QED
    BY <2>2, <2>3
<1>3. ASSUME NEW j \in 1..nh
      PROVE  /\ pos[na + 2 * j - 1] = mid[j] /\ pos[na + 2 * j] = PB[j]
             /\ pos[(na + 2 * j - 1) - 1] = PB[j - 1]
             /\ val[na + 2 * j - 1] = first[j] /\ val[na + 2 * j] = second[j]
  <2>1. /\ na + 2 * j - 1 \in 1..m /\ na + 2 * j \in 1..m
        /\ na + 2 * j - 1 \in 0..m /\ na + 2 * j \in 0..m
        /\ (na + 2 * j - 1) - 1 \in 0..m
        /\ ~(na + 2 * j - 1 <= na) /\ ~(na + 2 * j <= na) /\ j \in Nat
    OBVIOUS
  <2>2. (na + 2 * j) - na = 2 * j /\ (2 * j) % 2 = 0 /\ (2 * j) \div 2 = j
    OBVIOUS
  <2>3. (na + 2 * j - 1) - na = 2 * j - 1 /\ (2 * j - 1) % 2 = 1
        /\ (na + 2 * j - 1) - na + 1 = 2 * j
    OBVIOUS
  <2>4. ((na + 2 * j - 1) - 1) - na = 2 * (j - 1) /\ (2 * (j - 1)) % 2 = 0
        /\ (2 * (j - 1)) \div 2 = j - 1
    OBVIOUS
  <2>5. pos[na + 2 * j - 1] = mid[j] /\ val[na + 2 * j - 1] = first[j]
    <3> HIDE DEF m
    <3> QED
      BY <2>1, <2>2, <2>3
  <2>6. pos[na + 2 * j] = PB[j] /\ val[na + 2 * j] = second[j]
    <3> HIDE DEF m
    <3> QED
      BY <2>1, <2>2
  <2>7. pos[(na + 2 * j - 1) - 1] = PB[j - 1]
    <3>1. CASE j = 1
      <4>1. (na + 2 * j - 1) - 1 = na /\ na \in 0..m
        BY <3>1
      <4>2. pos[na] = PA[na]
        BY <4>1
      <4> QED
        BY <3>1, <4>1, <4>2
    <3>2. CASE j # 1
      <4>1. ~((na + 2 * j - 1) - 1 <= na)
        BY <3>2
      <4> HIDE DEF m
      <4> QED
        BY <2>1, <2>4, <4>1
    <3> QED
      BY <3>1, <3>2
  <2> HIDE DEF pos, val
  <2> QED
    BY <2>5, <2>6, <2>7
<1>4. \A j \in 1..na : pos[j] = PA[j] /\ pos[j - 1] = PA[j - 1] /\ val[j] = a[j]
  OBVIOUS
<1> HIDE DEF pos, val
<1>5. ASSUME NEW k \in 1..m
      PROVE  item[pos[k - 1]].to = pos[k] /\ item[pos[k - 1]].v = val[k]
  <2>1. CASE k <= na
    <3>1. k \in 1..na
      BY <2>1
    <3> QED
      BY <1>4, <3>1 DEF Chain
  <2>2. CASE ~(k <= na)
    <3> DEFINE h == k - na
    <3>1. h \in 1..(2 * nh) /\ k = na + h
      BY <2>2
    <3> HIDE DEF h
    <3>2. PICK j \in 1..nh : h = 2 * j - 1 \/ h = 2 * j
      <4>1. h = 2 * (h \div 2) + (h % 2) /\ h % 2 \in 0..1 /\ h \div 2 \in Int
        BY <3>1
      <4>2. CASE h % 2 = 0
        <5>1. h \div 2 \in 1..nh /\ h = 2 * (h \div 2)
          BY <3>1, <4>1, <4>2
        <5> QED
          BY <5>1
      <4>3. CASE h % 2 = 1
        <5>1. (h \div 2) + 1 \in 1..nh /\ h = 2 * ((h \div 2) + 1) - 1
          BY <3>1, <4>1, <4>3
        <5> QED
          BY <5>1
      <4> QED
        BY <4>1, <4>2, <4>3
    <3>3. CASE h = 2 * j - 1
      <4>1. k = na + 2 * j - 1
        BY <3>1, <3>3
      <4> QED
        BY <1>3, <4>1 DEF Pairs
    <3>4. CASE h = 2 * j
      <4>1. k = na + 2 * j /\ k - 1 = na + 2 * j - 1
        BY <3>1, <3>4
      <4> QED
        BY ZenonT(40), <1>3, <4>1 DEF Pairs
    <3> QED
      BY <3>2, <3>3, <3>4
  <2> QED
    BY <2>1, <2>2
<1> DEFINE kv == List(item, PA[0], m)
<1>6. kv.v = [k \in 1..m |-> val[k]] /\ kv.to = PB[nh]
  <2>1. m \in Nat
    OBVIOUS
  <2> DEFINE i == PA[0]
  <2>2. i \in Nat /\ pos[0] = i
    BY <1>1
  <2> HIDE DEF m, i
  <2>3. Chain(item, pos, val, m)
    BY <1>5 DEF Chain
  <2>4. List(item, i, m).v = [k \in 1..m |-> val[k]] /\ List(item, i, m).to = pos[m]
    BY <2>1, <2>2, <2>3, ListIs
  <2> QED
    BY <1>2, <2>4 DEF i, m
<1> HIDE DEF kv
<1>7. \A j \in 1..na : j \in 1..m
  OBVIOUS
<1>8. \A j \in 1..nh : na + 2 * j - 1 \in 1..m /\ na + 2 * j \in 1..m
  OBVIOUS
<1>9. /\ kv.to = PB[nh] /\ kv.v = [k \in 1..m |-> kv.v[k]]
      /\ \A j \in 1..na : kv.v[j] = a[j]
      /\ \A j \in 1..nh : kv.v[na + 2 * j - 1] = first[j] /\ kv.v[na + 2 * j] = second[j]
  <2> HIDE DEF m
  <2> QED
    BY ZenonT(40), <1>3, <1>4, <1>6, <1>7, <1>8
<1> QED
  BY <1>9 DEF Holds, kv

\* bcread_ktab
LEMMA KTabRead ==
  ASSUME NEW t, IsTable(t), NEW keys \in Orders(t)
  PROVE  /\ KTabBytes(t, keys) \in Seq(Byte)
         /\ \A s : \A i \in Nat :
              Len(s) \in Nat /\ Here(s, i, KTabBytes(t, keys)) =>
                /\ KTab(s, i).v = t
                /\ KTab(s, i).to = i + Len(KTabBytes(t, keys))
<1> DEFINE a == t[2]
           f == t[3]
           D == DOMAIN f
           na == Len(a)
           nh == Len(keys)
<1>1. /\ t = <<"tab", a, f>> /\ a \in Seq(Range(a)) /\ na < Word
      /\ \A j \in DOMAIN a : IsValue(a[j])
      /\ (a # <<>> => Last(a) # Nil)
      /\ IsFiniteSet(D) /\ Cardinality(D) < Word
      /\ f = [k \in D |-> f[k]]
      /\ \A k \in D : IsValue(k) /\ IsValue(f[k]) /\ f[k] # Nil
  BY DEF IsTable
<1>2. Orders(t) = SetToSeqs(D)
  <2>1. {k \in D : f[k] # Nil} = D
    BY <1>1
  <2> QED
    BY <2>1 DEF Orders
<1>3. keys \in Seq(D) /\ nh = Cardinality(D) /\ nh \in Nat /\ EachOnce(keys, nh, D)
  BY <1>1, <1>2, KeysInOrder
<1>4. na \in Nat /\ DOMAIN a = 1..na /\ a = [k \in 1..na |-> a[k]] /\ \A j \in 1..nh : keys[j] \in D
  BY <1>1, <1>3
<1>5. Max({0} \cup {j \in 1..na : a[j] # Nil}) = na
  <2> DEFINE S == {0} \cup {j \in 1..na : a[j] # Nil}
  <2>1. na \in S
    <3>1. na = 0 \/ (na \in 1..na /\ a # <<>>)
      BY <1>1, <1>4
    <3> QED
      BY <1>1, <3>1 DEF Last
  <2>2. \A y \in S : na >= y
    BY <1>4
  <2>3. S \subseteq Nat
    BY <1>4
  <2> HIDE DEF S
  <2>4. Max(S) \in S /\ \A y \in S : Max(S) >= y
    BY <2>1, <2>2 DEF Max
  <2>5. Max(S) \in Nat /\ Max(S) >= na /\ na >= Max(S)
    BY <2>1, <2>2, <2>3, <2>4
  <2> QED
    BY <1>4, <2>5 DEF S
<1> DEFINE x == UlebBytes(na)
           y == UlebBytes(nh)
           A == [j \in 1..na |-> KTabKBytes(a[j], TRUE)]
           key(j) == KTabKBytes(keys[j], FALSE)
           value(j) == KTabKBytes(f[keys[j]], TRUE)
           B == [j \in 1..nh |-> key(j) \o value(j)]
           fa == FlattenSeq(A)
           fb == FlattenSeq(B)
<1>6. KTabBytes(t, keys) = ((x \o y) \o fa) \o fb
  BY <1>5 DEF KTabBytes
<1>7. A \in Seq(Seq(Byte)) /\ Len(A) = na
  <2>1. A \in [1..na -> Seq(Byte)]
    BY <1>1, <1>4, KTabKRead
  <2> HIDE DEF A, na
  <2> QED
    BY <1>4, <2>1, SeqIs
<1>8. \A j \in 1..nh : key(j) \in Seq(Byte) /\ value(j) \in Seq(Byte)
  BY <1>1, <1>4, KTabKRead
<1>9. B \in Seq(Seq(Byte)) /\ Len(B) = nh
  <2>1. \A j \in 1..nh : key(j) \o value(j) \in Seq(Byte)
    <3> HIDE DEF key, value
    <3> QED
      BY <1>8
  <2>2. B \in [1..nh -> Seq(Byte)]
    <3> HIDE DEF key, value, nh
    <3> QED
      BY <2>1
  <2> HIDE DEF B, nh
  <2> QED
    BY <1>3, <2>2, SeqIs
<1>10. x \in Seq(Byte) /\ y \in Seq(Byte) /\ na \in 0..(Word - 1) /\ nh \in 0..(Word - 1)
  <2>1. na \in 0..(Word - 1) /\ nh \in 0..(Word - 1)
    BY <1>1, <1>3, <1>4, WordType
  <2> HIDE DEF na, nh
  <2> QED
    BY <2>1, WordBytesType
<1>11. fa \in Seq(Byte) /\ fb \in Seq(Byte)
  <2>1. 0 \in Nat
    OBVIOUS
  <2> HIDE DEF A, B
  <2> QED
    BY <1>7, <1>9, <2>1, Flattened
<1>12. x \o y \in Seq(Byte) /\ (x \o y) \o fa \in Seq(Byte) /\ ((x \o y) \o fa) \o fb \in Seq(Byte)
  <2> HIDE DEF x, y, fa, fb
  <2> QED
    BY <1>10, <1>11, ConcatType
<1>13. ASSUME NEW s, NEW i \in Nat, Len(s) \in Nat, Here(s, i, KTabBytes(t, keys))
       PROVE  KTab(s, i).v = t /\ KTab(s, i).to = i + Len(KTabBytes(t, keys))
  <2> DEFINE ia == i + Len(x \o y)
             ib == i + Len((x \o y) \o fa)
             end == i + Len(((x \o y) \o fa) \o fb)
             PA == Places(ia, A)
             PB == Places(ib, B)
  <2>1. Here(s, i, x \o y) /\ Here(s, ia, fa) /\ Here(s, ib, fb) /\ ia \in Nat /\ ib \in Nat
        /\ ib = ia + Len(fa) /\ end = ib + Len(fb)
    <3> DEFINE w == x \o y
               wa == w \o fa
    <3>1. w \in Seq(Byte) /\ wa \in Seq(Byte) /\ Here(s, i, wa \o fb) /\ fa \in Seq(Byte)
          /\ fb \in Seq(Byte)
      BY <1>6, <1>11, <1>12, <1>13
    <3> HIDE DEF w, fa, fb, wa
    <3>2. Here(s, i, wa) /\ Here(s, i + Len(wa), fb)
      BY <1>13, <3>1, HereJoined
    <3>3. Here(s, i, w) /\ Here(s, i + Len(w), fa)
      BY <1>13, <3>1, <3>2, HereJoined DEF wa
    <3>4. Len(wa) = Len(w) + Len(fa) /\ Len(w) \in Nat /\ Len(fa) \in Nat
          /\ Len(wa \o fb) = Len(wa) + Len(fb) /\ Len(wa) \in Nat /\ Len(fb) \in Nat
      <4>1. wa = w \o fa
        BY DEF wa
      <4> QED
        BY <3>1, <4>1, ConcatType
    <3>5. i + Len(w) \in Nat /\ i + Len(wa) \in Nat /\ i + Len(wa) = (i + Len(w)) + Len(fa)
          /\ i + Len(wa \o fb) = (i + Len(wa)) + Len(fb)
      BY <3>4
    <3> QED
      BY <3>2, <3>3, <3>5 DEF w, wa
  <2>2. /\ Uleb(s, i).v = na /\ Uleb(s, i).to = i + Len(x)
        /\ Uleb(s, i + Len(x)).v = nh /\ Uleb(s, i + Len(x)).to = ia
    <3> HIDE DEF na, nh
    <3>1. /\ Here(s, i, x) /\ Uleb(s, i + Len(x)).v = nh
          /\ Uleb(s, i + Len(x)).to = i + Len(x \o UlebBytes(nh))
      <4>1. Here(s, i, x \o UlebBytes(nh))
        BY <2>1
      <4> HIDE DEF x
      <4> QED
        BY <1>10, <1>13, <4>1, UlebNext
    <3>2. Uleb(s, i).v = na /\ Uleb(s, i).to = i + Len(x)
      BY <1>10, <1>13, <3>1, UlebRead, WordBytesType
    <3> QED
      BY <3>1, <3>2
  <2>3. /\ PA[0] = ia /\ PA[na] = ib
        /\ \A j \in 1..na : /\ PA[j] = PA[j - 1] + Len(A[j]) /\ PA[j - 1] \in Nat
                            /\ Here(s, PA[j - 1], A[j])
    <3> HIDE DEF A, na, ia, ib
    <3>1. Len(A) \in Nat /\ \A j \in 1..Len(A) : Len(A[j]) \in Nat
      BY <1>7
    <3>2. /\ PA \in [0..Len(A) -> Nat] /\ PA[0] = ia
          /\ \A k \in 1..Len(A) : PA[k] = PA[k - 1] + Len(A[k])
      BY <2>1, <3>1, PlacesFit
    <3>3. /\ PA[Len(A)] = ia + Len(fa)
          /\ \A k \in 1..Len(A) : Here(s, PA[k - 1], A[k])
      BY <1>7, <1>13, <2>1, Flattened
    <3>4. \A j \in 1..Len(A) : j - 1 \in 0..Len(A)
      BY <3>1
    <3> HIDE DEF PA
    <3> QED
      BY <1>7, <2>1, <3>2, <3>3, <3>4
  <2>4. /\ PB[0] = ib /\ PB[nh] = end
        /\ \A j \in 1..nh : /\ PB[j] = PB[j - 1] + Len(B[j]) /\ PB[j - 1] \in Nat
                            /\ Here(s, PB[j - 1], B[j])
    <3> HIDE DEF B, nh, ia, ib, end
    <3>1. Len(B) \in Nat /\ \A j \in 1..Len(B) : Len(B[j]) \in Nat
      BY <1>9
    <3>2. /\ PB \in [0..Len(B) -> Nat] /\ PB[0] = ib
          /\ \A k \in 1..Len(B) : PB[k] = PB[k - 1] + Len(B[k])
      BY <2>1, <3>1, PlacesFit
    <3>3. /\ PB[Len(B)] = ib + Len(fb)
          /\ \A k \in 1..Len(B) : Here(s, PB[k - 1], B[k])
      BY <1>9, <1>13, <2>1, Flattened
    <3>4. \A j \in 1..Len(B) : j - 1 \in 0..Len(B)
      BY <3>1
    <3> HIDE DEF PB
    <3> QED
      BY <1>9, <2>1, <3>2, <3>3, <3>4
  <2> HIDE DEF PA, PB, ia, ib, end
  <2> DEFINE item == [j \in Nat |-> KTabK(s, j)]
             mid == [j \in 1..nh |-> PB[j - 1] + Len(key(j))]
             second == [j \in 1..nh |-> f[keys[j]]]
  <2>5. \A j \in 1..na : item[PA[j - 1]].to = PA[j] /\ item[PA[j - 1]].v = a[j]
    <3> TAKE j \in 1..na
    <3> DEFINE q == PA[j - 1]
               o == a[j]
    <3>1. Here(s, q, KTabKBytes(o, TRUE)) /\ q \in Nat
          /\ PA[j] = q + Len(KTabKBytes(o, TRUE)) /\ IsValue(o) /\ Len(s) \in Nat /\ TRUE \in BOOLEAN
      BY <1>1, <1>4, <1>13, <2>3
    <3> HIDE DEF q, o
    <3>2. KTabK(s, q).v = o /\ KTabK(s, q).to = q + Len(KTabKBytes(o, TRUE))
      BY ZenonT(40), <3>1, KTabKRead
    <3>3. item[q] = KTabK(s, q)
      BY <3>1
    <3> HIDE DEF item
    <3> QED
      BY <3>1, <3>2, <3>3 DEF q, o
  <2>6. \A j \in 1..nh : /\ item[PB[j - 1]].to = mid[j] /\ item[PB[j - 1]].v = keys[j]
                         /\ item[mid[j]].to = PB[j] /\ item[mid[j]].v = second[j]
    <3> TAKE j \in 1..nh
    <3> DEFINE q == PB[j - 1]
               k == keys[j]
               o == f[k]
               x1 == KTabKBytes(k, FALSE)
               x2 == KTabKBytes(o, TRUE)
               r == q + Len(x1)
    <3>1. /\ PB[j] = q + Len(x1 \o x2) /\ q \in Nat /\ Here(s, q, x1 \o x2)
          /\ x1 \in Seq(Byte) /\ x2 \in Seq(Byte) /\ IsValue(k) /\ IsValue(o) /\ Len(s) \in Nat
      <4>1. PB[j] = q + Len(x1 \o x2) /\ q \in Nat /\ Here(s, q, x1 \o x2)
        BY <2>4
      <4>2. x1 \in Seq(Byte) /\ x2 \in Seq(Byte)
        BY <1>8
      <4>3. IsValue(k) /\ IsValue(o)
        BY <1>1, <1>4
      <4> QED
        BY <1>13, <4>1, <4>2, <4>3
    <3>2. mid[j] = r /\ second[j] = o
      OBVIOUS
    <3> HIDE DEF q, k, o
    <3>3. Here(s, q, x1) /\ Here(s, r, x2) /\ r \in Nat /\ PB[j] = r + Len(x2)
      <4> HIDE DEF x1, x2
      <4>1. Here(s, q, x1) /\ Here(s, q + Len(x1), x2)
        BY <3>1, HereJoined
      <4>2. Len(x1 \o x2) = Len(x1) + Len(x2) /\ Len(x1) \in Nat /\ Len(x2) \in Nat
        BY <3>1, ConcatType
      <4> QED
        BY <3>1, <4>1, <4>2
    <3> HIDE DEF r
    <3>4. KTabK(s, q).v = k /\ KTabK(s, q).to = q + Len(x1)
      BY ZenonT(40), <3>1, <3>3, KTabKRead
    <3>5. KTabK(s, r).v = o /\ KTabK(s, r).to = r + Len(x2)
      BY ZenonT(40), <3>1, <3>3, KTabKRead
    <3>6. item[q] = KTabK(s, q) /\ item[r] = KTabK(s, r)
      BY <3>1, <3>3
    <3> HIDE DEF item, mid, second, x1, x2
    <3>7. item[q].to = r /\ item[q].v = k /\ item[r].to = PB[j] /\ item[r].v = o
      BY <3>3, <3>4, <3>5, <3>6 DEF r
    <3> QED
      BY <3>2, <3>7 DEF q, k, o
  <2>7. \A j \in 1..nh : second[j] = f[keys[j]]
    OBVIOUS
  <2> HIDE DEF item, mid, second
  <2> DEFINE kv == List(item, ia, na + 2 * nh)
             v == kv.v
             w == SubSeq(v, na + 1, Len(v))
  <2>8. /\ kv.to = end /\ v = [k \in 1..(na + 2 * nh) |-> v[k]]
        /\ \A j \in 1..na : v[j] = a[j]
        /\ \A j \in 1..nh : v[na + 2 * j - 1] = keys[j] /\ v[na + 2 * j] = second[j]
    <3>1. na \in Nat /\ nh \in Nat /\ PA[0] \in Nat /\ PA[na] = PB[0] /\ PA[0] = ia /\ PB[nh] = end
      BY <1>3, <1>4, <2>1, <2>3, <2>4
    <3>3. Chain(item, PA, a, na) /\ Pairs(item, PB, mid, keys, second, nh)
      BY <2>5, <2>6 DEF Chain, Pairs
    <3> HIDE DEF na, nh, a, x, y, A, B, key, value, fa, fb, f, D
    <3>4. kv = List(item, PA[0], na + 2 * nh)
      BY <3>1
    <3> HIDE DEF kv
    <3> HIDE DEF v, w
    <3>2. Holds(List(item, PA[0], na + 2 * nh), PB[nh], a, keys, second, na, nh)
      BY <3>1, <3>3, SinglesAndPairs
    <3>5. Holds(kv, PB[nh], a, keys, second, na, nh)
      BY <3>2, <3>4
    <3> QED
      BY <3>1, <3>5 DEF Holds, v
  <2>9. KTab(s, i) = [v |-> <<"tab", SubSeq(kv.v, 1, na),
                              Assigned(SubSeq(kv.v, na + 1, Len(kv.v)))>>,
                      to |-> kv.to]
    <3> HIDE DEF na, nh, kv
    <3> QED
      BY <2>2 DEF KTab, kv, item
  <2> HIDE DEF kv
  <2>10. Len(v) = na + 2 * nh
    <3>1. na + 2 * nh \in Nat
      BY <1>3, <1>4
    <3> HIDE DEF na, nh, v
    <3> QED
      BY <2>8, <3>1
  <2> HIDE DEF v
  <2>11. SubSeq(v, 1, na) = a
    <3> HIDE DEF na, nh, a
    <3>1. /\ na + 2 * nh \in Nat /\ 1 \in 1..(na + 2 * nh + 1) /\ na \in 0..(na + 2 * nh)
          /\ 1 <= na + 1 /\ na - 1 + 1 = na /\ \A k \in 1..na : 1 + k - 1 = k
      BY <1>3, <1>4
    <3>2. SubSeq(v, 1, na) = [k \in 1..(na - 1 + 1) |-> v[1 + k - 1]]
      BY <2>8, <3>1, SubSeqIs
    <3>3. \A k \in 1..na : v[1 + k - 1] = a[k]
      BY <2>8, <3>1
    <3>4. SubSeq(v, 1, na) = [k \in 1..na |-> a[k]]
      BY <3>1, <3>2, <3>3
    <3> QED
      BY <1>4, <3>4
  <2>12. Len(w) = 2 * nh /\ \A k \in 1..(2 * nh) : w[k] = v[na + k]
    <3> HIDE DEF na, nh, a
    <3> DEFINE m == na + 2 * nh
    <3>1. /\ m \in Nat /\ na + 1 \in 1..(m + 1) /\ m \in 0..m /\ na + 1 <= m + 1
          /\ m - (na + 1) + 1 = 2 * nh /\ \A k \in 1..(2 * nh) : (na + 1) + k - 1 = na + k
      BY SMTT(20), <1>3, <1>4
    <3>2. v = [k \in 1..m |-> v[k]] /\ Len(v) = m
      BY <2>8, <2>10
    <3> HIDE DEF m
    <3>3. /\ Len(w) = m - (na + 1) + 1
          /\ w = [k \in 1..(m - (na + 1) + 1) |-> v[(na + 1) + k - 1]]
      BY SMTT(20), <3>1, <3>2, SubSeqIs
    <3> HIDE DEF w
    <3> QED
      BY <3>1, <3>3
  <2> HIDE DEF w
  <2>13. Assigned(w) = f
    <3> HIDE DEF na, nh
    <3>1. \A j \in 1..nh : w[2 * j - 1] = keys[j] /\ w[2 * j] = f[keys[j]]
      <4> TAKE j \in 1..nh
      <4>1. 2 * j - 1 \in 1..(2 * nh) /\ 2 * j \in 1..(2 * nh)
            /\ na + (2 * j - 1) = na + 2 * j - 1
        BY <1>3, <1>4
      <4> QED
        BY <2>7, <2>8, <2>12, <4>1
    <3>2. f = [k \in D |-> f[k]] /\ \A j \in 1..nh : keys[j] \in D
      BY <1>1, <1>4
    <3>3. nh \in Nat /\ Len(w) = 2 * nh /\ EachOnce(keys, nh, D)
      BY <1>3, <2>12
    <3> HIDE DEF f, D
    <3> QED
      BY SMTT(20), <3>1, <3>2, <3>3, AssignedIs
  <2>14. KTab(s, i).v = <<"tab", a, f>> /\ KTab(s, i).to = end
    <3>1. KTab(s, i) = [v |-> <<"tab", SubSeq(v, 1, na), Assigned(w)>>, to |-> kv.to]
      BY <2>9 DEF v, w
    <3>2. kv.to = end
      BY <2>8
    <3> HIDE DEF na, a, f
    <3>3. KTab(s, i) = [v |-> <<"tab", a, f>>, to |-> end]
      BY <2>11, <2>13, <3>1, <3>2
    <3> QED
      BY <3>3
  <2> QED
    BY <1>1, <1>6, <2>14 DEF end
<1> QED
  BY <1>6, <1>12, <1>13

-----------------------------------------------------------------------------
(* What is read from a file: instructions, strings, and constants.         *)

\* Complements and exclusive ors come undone.
LEMMA Undone ==
  /\ \A a \in Byte : Complement(a) \in Byte /\ Complement(Complement(a)) = a
  /\ \A i \in Nat : i % (2 * Half) \in Byte
  /\ \A a, b \in Byte : BitXor(a, b) \in Byte /\ BitXor(BitXor(a, b), b) = a
<1>1. Half \in Nat /\ Half >= 8
  BY HalfFacts
<1> DEFINE h == Half
<1>2. h \in Nat /\ h >= 8 /\ Byte = 0..(2 * h - 1)
  BY <1>1 DEF Byte
<1>3. \A a \in Byte : Complement(a) = 2 * h - 1 - a
  BY DEF Complement
<1> HIDE DEF h
<1>4. \A a \in Byte : 2 * h - 1 - a \in Byte /\ 2 * h - 1 - (2 * h - 1 - a) = a
  BY <1>2
<1>5. \A i \in Nat : i % (2 * h) \in Byte
  BY <1>2
<1>6. \A a, b \in Byte : BitXor(a, b) \in Byte /\ BitXor(BitXor(a, b), b) = a
  BY XorAssumption
<1> QED
  BY <1>3, <1>4, <1>5, <1>6 DEF h

\* An opcode is one byte, and is got back from what seals it.
LEMMA SealedOp ==
  ASSUME NEW x \in 0..(Modulus - 1)
  PROVE  SealOp(x) \in Byte /\ OpenOp(SealOp(x)) = x
<1>1. \E o \in 0..(Modulus - 1) : OpenOp(o) = x
  BY CipherAssumption
<1>2. SealOp(x) \in 0..(Modulus - 1) /\ OpenOp(SealOp(x)) = x
  BY <1>1 DEF SealOp
<1>3. Modulus \in 1..(2 * Half) /\ Half \in Nat
  BY CipherAssumption, HalfFacts
<1> QED
  BY <1>2, <1>3 DEF Byte

\* The reader opens the instructions of a dump.
LEMMA OpenSealedIns ==
  ASSUME NEW ins \in (0..(Modulus - 1)) \X Byte \X Byte \X Byte, NEW i \in Nat
  PROVE  /\ SealIns(ins, i) \in Seq(Byte) /\ Len(SealIns(ins, i)) = 4
         /\ OpenIns(SealIns(ins, i), i) = ins
<1> DEFINE o == SealOp(ins[1])
           x == BitXor(i % (2 * Half), o)
           a == BitXor(ins[2], x)
           b == BitXor(ins[3], i % (2 * Half))
           e == Complement(ins[4])
<1>1. /\ ins = <<ins[1], ins[2], ins[3], ins[4]>> /\ ins[1] \in 0..(Modulus - 1)
      /\ ins[2] \in Byte /\ ins[3] \in Byte /\ ins[4] \in Byte
  OBVIOUS
<1>2. SealIns(ins, i) = <<o, a, b, e>>
  BY DEF SealIns
<1>3. o \in Byte /\ OpenOp(o) = ins[1]
  BY <1>1, SealedOp
<1> HIDE DEF o
<1>4. i % (2 * Half) \in Byte /\ x \in Byte
  BY <1>3, Undone
<1>5. /\ a \in Byte /\ BitXor(a, x) = ins[2]
  <2> HIDE DEF x
  <2> QED
    BY <1>1, <1>4, Undone
<1>6. b \in Byte /\ BitXor(b, i % (2 * Half)) = ins[3]
  BY <1>1, <1>4, Undone
<1>7. e \in Byte /\ Complement(e) = ins[4]
  BY <1>1, Undone
<1>8. OpenIns(<<o, a, b, e>>, i) = <<OpenOp(o), BitXor(a, x), BitXor(b, i % (2 * Half)), Complement(e)>>
  <2> HIDE DEF a, b, e
  <2> QED
    BY DEF OpenIns
<1> HIDE DEF a, b, e
<1> QED
  BY <1>1, <1>2, <1>3, <1>5, <1>6, <1>7, <1>8

\* The reader opens the strings of a dump.
LEMMA OpenSealedStr ==
  ASSUME NEW s \in Seq(Byte)
  PROVE  SealStr(s) \in Seq(Byte) /\ Len(SealStr(s)) = Len(s) /\ OpenStr(SealStr(s)) = s
<1> DEFINE m == Len(s)
           q == SealStr(s)
<1>1. m \in Nat /\ DOMAIN s = 1..m /\ s = [k \in 1..m |-> s[k]] /\ \A k \in 1..m : s[k] \in Byte
  OBVIOUS
<1>2. q = [k \in 1..m |-> BitXor(Complement(s[k]), (k - 1) % (2 * Half))]
  BY <1>1 DEF SealStr
<1>3. ASSUME NEW k \in 1..m
      PROVE  /\ BitXor(Complement(s[k]), (k - 1) % (2 * Half)) \in Byte
             /\ Complement(BitXor(BitXor(Complement(s[k]), (k - 1) % (2 * Half)),
                                  (k - 1) % (2 * Half))) = s[k]
  <2>1. k - 1 \in Nat /\ s[k] \in Byte
    BY <1>1, <1>3
  <2>2. (k - 1) % (2 * Half) \in Byte /\ Complement(s[k]) \in Byte
        /\ Complement(Complement(s[k])) = s[k]
    BY <2>1, Undone
  <2> QED
    BY <2>2, Undone
<1> HIDE DEF q
<1>4. q \in [1..m -> Byte]
  BY <1>2, <1>3
<1>5. q \in Seq(Byte) /\ Len(q) = m /\ DOMAIN q = 1..m
  <2> HIDE DEF m
  <2> QED
    BY <1>1, <1>4, SeqIs
<1>6. OpenStr(q) = [k \in 1..m |-> s[k]]
  <2>1. \A k \in 1..m : Complement(BitXor(q[k], (k - 1) % (2 * Half))) = s[k]
    BY <1>2, <1>3
  <2> QED
    BY <1>5, <2>1 DEF OpenStr
<1> QED
  BY <1>1, <1>5, <1>6 DEF q

\* A table of a prototype has its keys in some order.
LEMMA KeysExist ==
  ASSUME NEW t, IsTable(t)
  PROVE  (CHOOSE keys \in Orders(t) : TRUE) \in Orders(t)
<1> DEFINE D == DOMAIN t[3]
<1>1. IsFiniteSet(D) /\ \A k \in D : t[3][k] # Nil
  BY DEF IsTable
<1>2. {k \in D : t[3][k] # Nil} = D
  BY <1>1
<1>3. Orders(t) = SetToSeqs(D)
  BY <1>2 DEF Orders
<1>4. \E keys : keys \in SetToSeqs(D)
  BY <1>1, KeysInOrder
<1> QED
  BY <1>3, <1>4

\* What the reader finds where a constant lies.
Found(s, i, k, to) ==
  LET tp == Uleb(s, i)
      str == Block(s, tp.to, tp.v - KGC_STR)
      tab == KTab(s, tp.to)
  IN  \/ IsString(k) /\ tp.v >= KGC_STR /\ <<"str", OpenStr(str.v)>> = k /\ str.to = to
      \/ IsTable(k) /\ tp.v = KGC_TAB /\ tab.v = k /\ tab.to = to
      \/ k[1] = "child" /\ tp.v = KGC_CHILD /\ tp.to = to

IsConstant(k) == IsString(k) \/ IsTable(k) \/ k[1] = "child"

LEMMA StringRead ==
  ASSUME NEW y \in Seq(Byte), KGC_STR + Len(y) < Word
  PROVE  LET x == UlebBytes(KGC_STR + Len(y)) \o y
         IN  /\ x \in Seq(Byte)
             /\ \A s : \A i \in Nat :
                  Len(s) \in Nat /\ Here(s, i, x) =>
                    /\ Uleb(s, i).v = KGC_STR + Len(y)
                    /\ Block(s, Uleb(s, i).to, Len(y)).v = y
                    /\ Block(s, Uleb(s, i).to, Len(y)).to = i + Len(x)
<1> DEFINE a == KGC_STR + Len(y)
<1>1. a \in 0..(Word - 1) /\ a \in Nat /\ a < Word
  BY WordType DEF KGC_STR
<1> HIDE DEF a
<1>2. UlebBytes(a) \in Seq(Byte)
  BY <1>1, WordBytesType
<1>3. UlebBytes(a) \o y \in Seq(Byte)
  BY <1>2, ConcatType
<1>4. ASSUME NEW s, NEW i \in Nat, Len(s) \in Nat, Here(s, i, UlebBytes(a) \o y)
      PROVE  /\ Uleb(s, i).v = a
             /\ Block(s, Uleb(s, i).to, Len(y)).v = y
             /\ Block(s, Uleb(s, i).to, Len(y)).to = i + Len(UlebBytes(a) \o y)
  <2>1. /\ Here(s, i, UlebBytes(a))
        /\ Block(s, i + Len(UlebBytes(a)), Len(y)).v = y
        /\ Block(s, i + Len(UlebBytes(a)), Len(y)).to = i + Len(UlebBytes(a) \o y)
    BY <1>2, <1>4, BlockNext
  <2>2. Uleb(s, i).v = a /\ Uleb(s, i).to = i + Len(UlebBytes(a))
    BY <1>1, <1>4, <2>1, UlebRead
  <2> QED
    BY <2>1, <2>2
<1> QED
  BY <1>3, <1>4 DEF a

\* What the reader of plain dumps finds at i if constant k is there.
StockFound(s, i, k, to) ==
  LET tp == Uleb(s, i)
      str == Block(s, tp.to, tp.v - KGC_STR)
      tab == KTab(s, tp.to)
  IN  \/ IsString(k) /\ tp.v >= KGC_STR /\ <<"str", str.v>> = k /\ str.to = to
      \/ IsTable(k) /\ tp.v = KGC_TAB /\ tab.v = k /\ tab.to = to
      \/ k[1] = "child" /\ tp.v = KGC_CHILD /\ tp.to = to

LEMMA KgcRead ==
  ASSUME NEW k, IsConstant(k), NEW keys, IsTable(k) => keys[k] \in Orders(k)
  PROVE  /\ KgcBytes(k, keys) \in Seq(Byte)
         /\ \A s : \A i \in Nat :
              Len(s) \in Nat /\ Here(s, i, KgcBytes(k, keys)) =>
                StockFound(s, i, k, i + Len(KgcBytes(k, keys)))
<1>1. CASE IsString(k)
  <2> DEFINE y == k[2]
             x == UlebBytes(KGC_STR + Len(y)) \o y
  <2>1. k = <<"str", y>> /\ k[1] = "str" /\ y \in Seq(Byte) /\ KGC_STR + Len(y) < Word
    BY <1>1 DEF IsString
  <2>2. KgcBytes(k, keys) = x
    BY <2>1 DEF KgcBytes
  <2> HIDE DEF y
  <2>3. /\ x \in Seq(Byte)
        /\ \A s : \A i \in Nat : Len(s) \in Nat /\ Here(s, i, x) =>
             /\ Uleb(s, i).v = KGC_STR + Len(y)
             /\ Block(s, Uleb(s, i).to, Len(y)).v = y
             /\ Block(s, Uleb(s, i).to, Len(y)).to = i + Len(x)
    BY <2>1, StringRead
  <2> HIDE DEF x
  <2>4. ASSUME NEW s, NEW i \in Nat, Len(s) \in Nat, Here(s, i, x)
        PROVE  StockFound(s, i, k, i + Len(x))
    <3>1. /\ Uleb(s, i).v = KGC_STR + Len(y)
          /\ Block(s, Uleb(s, i).to, Len(y)).v = y
          /\ Block(s, Uleb(s, i).to, Len(y)).to = i + Len(x)
      BY <2>3, <2>4
    <3>2. Uleb(s, i).v >= KGC_STR /\ Uleb(s, i).v - KGC_STR = Len(y)
      BY <2>1, <3>1 DEF KGC_STR
    <3> QED
      BY <1>1, <2>1, <3>1, <3>2 DEF StockFound
  <2> QED
    BY <2>2, <2>3, <2>4
<1>2. CASE IsTable(k)
  <2> DEFINE x == UlebBytes(KGC_TAB)
             y == KTabBytes(k, keys[k])
  <2>1. k[1] = "tab"
    BY <1>2 DEF IsTable
  <2>2. KgcBytes(k, keys) = x \o y
    BY <2>1 DEF KgcBytes
  <2>3. /\ y \in Seq(Byte)
        /\ \A s : \A i \in Nat : Len(s) \in Nat /\ Here(s, i, y) =>
             KTab(s, i).v = k /\ KTab(s, i).to = i + Len(y)
    BY <1>2, KTabRead
  <2>4. x \in Seq(Byte) /\ KGC_TAB \in Nat /\ KGC_TAB < Word
    BY Codes, WordBytesType
  <2> HIDE DEF y
  <2>5. ASSUME NEW s, NEW i \in Nat, Len(s) \in Nat, Here(s, i, x \o y)
        PROVE  /\ Uleb(s, i).v = KGC_TAB
               /\ KTab(s, Uleb(s, i).to).v = k
               /\ KTab(s, Uleb(s, i).to).to = i + Len(x \o y)
    <3>1. Uleb(s, i).v = KGC_TAB /\ Uleb(s, i).to = i + Len(x) /\ Here(s, i + Len(x), y)
      <4>1. Here(s, i, UlebBytes(KGC_TAB)) /\ Here(s, i + Len(x), y)
        BY <2>3, <2>4, <2>5, HereJoined
      <4> QED
        BY <2>4, <2>5, <4>1, UlebRead
    <3> HIDE DEF x
    <3>2. Len(x \o y) = Len(x) + Len(y) /\ Len(x) \in Nat /\ Len(y) \in Nat
      BY <2>3, <2>4, ConcatType
    <3>3. i + Len(x) \in Nat /\ (i + Len(x)) + Len(y) = i + Len(x \o y)
      BY <3>2
    <3> QED
      BY <2>3, <2>5, <3>1, <3>3
  <2>6. x \o y \in Seq(Byte)
    <3> HIDE DEF x
    <3> QED
      BY <2>3, <2>4, ConcatType
  <2> HIDE DEF x
  <2> QED
    BY <1>2, <2>2, <2>5, <2>6 DEF StockFound
<1>3. CASE k[1] = "child"
  <2>1. KgcBytes(k, keys) = UlebBytes(KGC_CHILD)
    BY <1>3 DEF KgcBytes
  <2>2. UlebBytes(KGC_CHILD) \in Seq(Byte) /\ KGC_CHILD \in Nat /\ KGC_CHILD < Word
    BY Codes, WordBytesType
  <2>3. ASSUME NEW s, NEW i \in Nat, Len(s) \in Nat, Here(s, i, UlebBytes(KGC_CHILD))
        PROVE  Uleb(s, i).v = KGC_CHILD /\ Uleb(s, i).to = i + Len(UlebBytes(KGC_CHILD))
    BY <2>2, <2>3, UlebRead
  <2> QED
    BY <1>3, <2>1, <2>2, <2>3 DEF StockFound
<1> QED
  BY <1>1, <1>2, <1>3 DEF IsConstant

\* bcread_kgc_mod
LEMMA ConstantRead ==
  ASSUME NEW k, IsConstant(k)
  PROVE  /\ MangledConstant(k) \in Seq(Byte)
         /\ \A s : \A i \in Nat :
              Len(s) \in Nat /\ Here(s, i, MangledConstant(k)) =>
                Found(s, i, k, i + Len(MangledConstant(k)))
<1>1. CASE k[1] = "str"
  <2> DEFINE x == k[2]
             y == SealStr(x)
             z == UlebBytes(KGC_STR + Len(y)) \o y
  <2>1. IsString(k) /\ k = <<"str", x>> /\ x \in Seq(Byte) /\ KGC_STR + Len(x) < Word
    BY <1>1 DEF IsConstant, IsString, IsTable
  <2>2. MangledConstant(k) = UlebBytes(KGC_STR + Len(x)) \o y
    BY <1>1 DEF MangledConstant
  <2> HIDE DEF x
  <2>3. y \in Seq(Byte) /\ Len(y) = Len(x) /\ OpenStr(y) = x
    BY <2>1, OpenSealedStr
  <2> HIDE DEF y
  <2>4. /\ z \in Seq(Byte)
        /\ \A s : \A i \in Nat : Len(s) \in Nat /\ Here(s, i, z) =>
             /\ Uleb(s, i).v = KGC_STR + Len(y)
             /\ Block(s, Uleb(s, i).to, Len(y)).v = y
             /\ Block(s, Uleb(s, i).to, Len(y)).to = i + Len(z)
    BY <2>1, <2>3, StringRead
  <2>5. MangledConstant(k) = z
    BY <2>2, <2>3
  <2> HIDE DEF z
  <2>6. ASSUME NEW s, NEW i \in Nat, Len(s) \in Nat, Here(s, i, z)
        PROVE  Found(s, i, k, i + Len(z))
    <3>1. /\ Uleb(s, i).v = KGC_STR + Len(y)
          /\ Block(s, Uleb(s, i).to, Len(y)).v = y
          /\ Block(s, Uleb(s, i).to, Len(y)).to = i + Len(z)
      BY <2>4, <2>6
    <3>2. Uleb(s, i).v >= KGC_STR /\ Uleb(s, i).v - KGC_STR = Len(y)
      BY <2>3, <3>1 DEF KGC_STR
    <3> QED
      BY <2>1, <2>3, <3>1, <3>2 DEF Found
  <2> QED
    BY <2>4, <2>5, <2>6
<1>2. CASE k[1] # "str"
  <2> DEFINE keys == [t \in {k} |-> CHOOSE ks \in Orders(t) : TRUE]
  <2>1. MangledConstant(k) = KgcBytes(k, keys)
    BY <1>2 DEF MangledConstant
  <2>2. keys[k] = CHOOSE ks \in Orders(k) : TRUE
    OBVIOUS
  <2>3. IsTable(k) => keys[k] \in Orders(k)
    BY <2>2, KeysExist
  <2> HIDE DEF keys
  <2>4. /\ KgcBytes(k, keys) \in Seq(Byte)
        /\ \A s : \A i \in Nat :
             Len(s) \in Nat /\ Here(s, i, KgcBytes(k, keys)) =>
               StockFound(s, i, k, i + Len(KgcBytes(k, keys)))
    BY <2>3, KgcRead
  <2>5. ASSUME NEW s, NEW i, NEW to, StockFound(s, i, k, to) PROVE Found(s, i, k, to)
    BY <1>2, <2>5 DEF StockFound, Found, IsString
  <2> QED
    BY <2>1, <2>4, <2>5
<1> QED
  BY <1>1, <1>2

-----------------------------------------------------------------------------
(* What is read from a file: prototypes.                                   *)

LEMMA HalfIsWord == Half \in 0..(Word - 1) /\ 0 \in 0..(Word - 1) /\ 1 \in 0..(Word - 1)
<1> DEFINE u == Unit(UlebMax - 1)
<1>1. PICK l \in Nat \ {0} : Word = 4 * (l * u)
  BY WordFacts
<1>2. UlebMax - 1 \in Nat /\ 1 \in Nat /\ 1 <= UlebMax - 1
  BY NumberAssumption
<1>3. Half <= u /\ u \in Nat /\ Half \in Nat
  BY <1>2, UnitGrows, UnitType, HalfFacts
<1> HIDE DEF u
<1> DEFINE r == l - 1
           q == r * u
<1>4. r \in Nat /\ q \in Nat /\ l * u = q + u
  <2>1. r \in Nat /\ l = r + 1
    OBVIOUS
  <2> HIDE DEF r
  <2>2. (r + 1) * u = q + u /\ q \in Nat
    BY <1>3, <2>1
  <2> HIDE DEF q
  <2> QED
    BY <2>1, <2>2
<1> HIDE DEF q
<1>5. Word >= 4 * Half
  BY <1>1, <1>3, <1>4
<1> QED
  BY <1>3, <1>5, WordType

\* Single bytes and numbers, one after the other.
LEMMA ByteAt ==
  ASSUME NEW s, Len(s) \in Nat, NEW i \in Nat, NEW x \in Seq(Byte), NEW b \in Byte,
         Here(s, i, x \o <<b>>)
  PROVE  /\ Here(s, i, x) /\ i + Len(x) \in Nat /\ x \o <<b>> \in Seq(Byte)
         /\ At(s, i + Len(x)) = b /\ i + Len(x \o <<b>>) = (i + Len(x)) + 1
<1>1. <<b>> \in Seq(Byte) /\ Len(<<b>>) = 1
  OBVIOUS
<1> DEFINE y == <<b>>
<1> HIDE DEF y
<1>4. y \in Seq(Byte) /\ Here(s, i, x \o y) /\ Len(x) \in Nat
  BY <1>1 DEF y
<1>5. Here(s, i, x) /\ Here(s, i + Len(x), y) /\ i + Len(x) \in Nat
  BY <1>4, HereJoined
<1>2. Here(s, i, x) /\ Here(s, i + Len(x), <<b>>) /\ i + Len(x) \in Nat
  BY <1>5 DEF y
<1>3. At(s, (i + Len(x)) + (1 - 1)) = <<b>>[1]
  BY <1>1, <1>2, HereAt
<1> QED
  BY <1>1, <1>2, <1>3

\* What the reader finds where the header of a prototype lies.
SizesFound(s, i, t, fl, dbg, to) ==
  LET key == BitXor(At(s, i), Mask)
      numbc == Uleb(s, i + 3)
      numkn == Uleb(s, numbc.to)
      numkgc == Uleb(s, numkn.to + 1)
      sizedbg == IF Has(fl, F_STRIP) THEN [v |-> 0, to |-> numkgc.to] ELSE Uleb(s, numkgc.to)
      line == IF sizedbg.v = 0 THEN sizedbg ELSE Uleb(s, Uleb(s, sizedbg.to).to)
  IN  /\ key = t.framesize /\ BitXor(At(s, i + 1), key) = t.flags
      /\ BitXor(At(s, i + 2), key) = t.numparams
      /\ numbc.v = Len(t.code) + key /\ numkn.v = Len(t.knum) + key
      /\ BitXor(At(s, numkn.to), key) = Len(t.uv) /\ numkgc.v = Len(t.kgc) + key
      /\ sizedbg.v = dbg /\ line.to = to

IsDebug(fl, dbg) == dbg \in 0..(Word - 1) /\ (Has(fl, F_STRIP) => dbg = 0)

LEMMA SizesRead ==
  ASSUME NEW t, IsProto(t), NEW fl, NEW dbg, IsDebug(fl, dbg)
  PROVE  /\ MangledSizes(t, fl, dbg) \in Seq(Byte) /\ Len(MangledSizes(t, fl, dbg)) >= 7
         /\ \A s : \A i \in Nat :
              Len(s) \in Nat /\ Here(s, i, MangledSizes(t, fl, dbg)) =>
                SizesFound(s, i, t, fl, dbg, i + Len(MangledSizes(t, fl, dbg)))
<1> DEFINE key == t.framesize
           nbc == Len(t.code) + key
           nkn == Len(t.knum) + key
           nkg == Len(t.kgc) + key
           a == BitXor(key, Mask)
           b == BitXor(t.flags, key)
           e == BitXor(t.numparams, key)
           u == BitXor(Len(t.uv), key)
           x1 == <<a, b, e>>
           x2 == x1 \o UlebBytes(nbc)
           x3 == x2 \o UlebBytes(nkn)
           x4 == x3 \o <<u>>
           x5 == x4 \o UlebBytes(nkg)
           D == IF Has(fl, F_STRIP) THEN <<>>
                ELSE IF dbg = 0 THEN UlebBytes(0)
                ELSE UlebBytes(dbg) \o UlebBytes(Half) \o UlebBytes(1)
<1>1. MangledSizes(t, fl, dbg) = x5 \o D
  BY DEF MangledSizes
<1>2. /\ a \in Byte /\ b \in Byte /\ e \in Byte /\ u \in Byte
      /\ BitXor(a, Mask) = key /\ BitXor(b, key) = t.flags /\ BitXor(e, key) = t.numparams
      /\ BitXor(u, key) = Len(t.uv)
  BY XorAssumption DEF IsProto
<1>3. nbc \in 0..(Word - 1) /\ nkn \in 0..(Word - 1) /\ nkg \in 0..(Word - 1)
  <2>1. Len(t.code) \in Nat /\ Len(t.knum) \in Nat /\ Len(t.kgc) \in Nat /\ key \in Nat
    BY SMTT(20), HalfFacts DEF IsProto, Byte
  <2>2. nbc < Word /\ nkn < Word /\ nkg < Word
    BY DEF IsProto
  <2> QED
    BY SMTT(20), <2>1, <2>2, WordType
<1> HIDE DEF key, nbc, nkn, nkg, a, b, e, u
<1>4. x1 \in Seq(Byte) /\ Len(x1) = 3
  BY <1>2
<1>5. /\ UlebBytes(nbc) \in Seq(Byte) /\ UlebBytes(nkn) \in Seq(Byte) /\ UlebBytes(nkg) \in Seq(Byte)
      /\ Len(UlebBytes(nbc)) >= 1 /\ Len(UlebBytes(nkn)) >= 1 /\ Len(UlebBytes(nkg)) >= 1
  BY <1>3, WordBytesType
<1>6. <<u>> \in Seq(Byte) /\ Len(<<u>>) = 1
  BY <1>2
<1>7. x2 \in Seq(Byte) /\ Len(x2) = Len(x1) + Len(UlebBytes(nbc))
  <2> HIDE DEF x1
  <2> QED
    BY <1>4, <1>5, ConcatType
<1>8. x3 \in Seq(Byte) /\ Len(x3) = Len(x2) + Len(UlebBytes(nkn))
  <2> HIDE DEF x2
  <2> QED
    BY <1>5, <1>7, ConcatType
<1>9. x4 \in Seq(Byte) /\ Len(x4) = Len(x3) + Len(<<u>>)
  <2> HIDE DEF x3
  <2> QED
    BY <1>6, <1>8, ConcatType
<1>10. x5 \in Seq(Byte) /\ Len(x5) = Len(x4) + Len(UlebBytes(nkg))
  <2> HIDE DEF x4
  <2> QED
    BY <1>5, <1>9, ConcatType
<1>11. /\ dbg \in 0..(Word - 1)
       /\ UlebBytes(0) \in Seq(Byte) /\ UlebBytes(dbg) \in Seq(Byte)
       /\ UlebBytes(Half) \in Seq(Byte) /\ UlebBytes(1) \in Seq(Byte)
  BY HalfIsWord, WordBytesType DEF IsDebug
<1> DEFINE d1 == UlebBytes(dbg)
           d2 == d1 \o UlebBytes(Half)
           d3 == d2 \o UlebBytes(1)
<1>12. d2 \in Seq(Byte) /\ d3 \in Seq(Byte)
  <2>1. d2 \in Seq(Byte)
    BY <1>11, ConcatType
  <2> HIDE DEF d2
  <2> QED
    BY <1>11, <2>1, ConcatType
<1>13. D \in Seq(Byte)
  <2> HIDE DEF d2
  <2> QED
    BY <1>11, <1>12
<1>19. d1 \in Seq(Byte)
  BY <1>11
<1> HIDE DEF x1, x2, x3, x4, x5, D, d1, d2, d3
<1>14. x5 \o D \in Seq(Byte) /\ Len(x5 \o D) = Len(x5) + Len(D)
  BY <1>10, <1>13, ConcatType
<1>15. Len(x5 \o D) >= 7
  <2>1. Len(x5) \in Nat /\ Len(D) \in Nat /\ Len(x4) \in Nat /\ Len(x3) \in Nat /\ Len(x2) \in Nat
        /\ Len(UlebBytes(nbc)) \in Nat /\ Len(UlebBytes(nkn)) \in Nat /\ Len(UlebBytes(nkg)) \in Nat
    BY <1>5, <1>7, <1>8, <1>9, <1>10, <1>13, SMTT(30)
  <2> QED
    BY <1>4, <1>5, <1>6, <1>7, <1>8, <1>9, <1>10, <1>14, <2>1
<1>16. ASSUME NEW s, NEW i \in Nat, Len(s) \in Nat, Here(s, i, x5 \o D)
       PROVE  SizesFound(s, i, t, fl, dbg, i + Len(x5 \o D))
  <2>1. Here(s, i, x5) /\ Here(s, i + Len(x5), D) /\ i + Len(x5) \in Nat
    <3>1. x5 \in Seq(Byte) /\ Len(x5) \in Nat
      BY <1>10
    <3> QED
      BY <3>1, <1>13, <1>16, HereJoined
  <2>2. /\ Here(s, i, x4) /\ Uleb(s, i + Len(x4)).v = nkg
        /\ Uleb(s, i + Len(x4)).to = i + Len(x5)
    <3>1. Here(s, i, x4 \o UlebBytes(nkg))
      BY <2>1 DEF x5
    <3>2. x4 \in Seq(Byte) /\ nkg \in 0..(Word - 1) /\ Len(s) \in Nat
      BY <1>3, <1>9, <1>16
    <3>3. /\ Here(s, i, x4) /\ Uleb(s, i + Len(x4)).v = nkg
          /\ Uleb(s, i + Len(x4)).to = i + Len(x4 \o UlebBytes(nkg))
      BY <3>1, <3>2, UlebNext
    <3> QED
      BY <3>3 DEF x5
  <2>3. /\ Here(s, i, x3) /\ At(s, i + Len(x3)) = u /\ i + Len(x4) = (i + Len(x3)) + 1
    <3>1. Here(s, i, x3 \o <<u>>)
      BY <2>2 DEF x4
    <3>2. x3 \in Seq(Byte) /\ u \in Byte /\ Len(s) \in Nat
      BY <1>2, <1>8, <1>16
    <3>3. /\ Here(s, i, x3) /\ At(s, i + Len(x3)) = u
          /\ i + Len(x3 \o <<u>>) = (i + Len(x3)) + 1
      BY <3>1, <3>2, ByteAt
    <3> QED
      BY <3>3 DEF x4
  <2>4. /\ Here(s, i, x2) /\ Uleb(s, i + Len(x2)).v = nkn
        /\ Uleb(s, i + Len(x2)).to = i + Len(x3)
    <3>1. Here(s, i, x2 \o UlebBytes(nkn))
      BY <2>3 DEF x3
    <3>2. x2 \in Seq(Byte) /\ nkn \in 0..(Word - 1) /\ Len(s) \in Nat
      BY <1>3, <1>7, <1>16
    <3>3. /\ Here(s, i, x2) /\ Uleb(s, i + Len(x2)).v = nkn
          /\ Uleb(s, i + Len(x2)).to = i + Len(x2 \o UlebBytes(nkn))
      BY <3>1, <3>2, UlebNext
    <3> QED
      BY <3>3 DEF x3
  <2>5. /\ Here(s, i, x1) /\ Uleb(s, i + Len(x1)).v = nbc
        /\ Uleb(s, i + Len(x1)).to = i + Len(x2)
    <3>1. Here(s, i, x1 \o UlebBytes(nbc))
      BY <2>4 DEF x2
    <3>2. x1 \in Seq(Byte) /\ nbc \in 0..(Word - 1) /\ Len(s) \in Nat
      BY <1>3, <1>4, <1>16
    <3>3. /\ Here(s, i, x1) /\ Uleb(s, i + Len(x1)).v = nbc
          /\ Uleb(s, i + Len(x1)).to = i + Len(x1 \o UlebBytes(nbc))
      BY <3>1, <3>2, UlebNext
    <3> QED
      BY <3>3 DEF x2
  <2>6. At(s, i) = a /\ At(s, i + 1) = b /\ At(s, i + 2) = e
    <3>1. At(s, i + (1 - 1)) = x1[1] /\ At(s, i + (2 - 1)) = x1[2] /\ At(s, i + (3 - 1)) = x1[3]
      <4>1. 1 \in 1..Len(x1) /\ 2 \in 1..Len(x1) /\ 3 \in 1..Len(x1) /\ Len(x1) \in Nat
        BY <1>4
      <4> QED
        BY <1>16, <2>5, <4>1, HereAt
    <3>2. x1[1] = a /\ x1[2] = b /\ x1[3] = e
      BY DEF x1
    <3> QED
      BY <3>1, <3>2
  <2> DEFINE sizedbg == IF Has(fl, F_STRIP) THEN [v |-> 0, to |-> i + Len(x5)]
                        ELSE Uleb(s, i + Len(x5))
             line == IF sizedbg.v = 0 THEN sizedbg ELSE Uleb(s, Uleb(s, sizedbg.to).to)
  <2> DEFINE g == i + Len(x5)
  <2>7. sizedbg.v = dbg /\ line.to = g + Len(D)
    <3>1. CASE Has(fl, F_STRIP)
      <4>1. D = <<>> /\ dbg = 0 /\ Len(D) = 0
        BY <3>1 DEF D, IsDebug
      <4> QED
        BY <2>1, <3>1, <4>1
    <3>2. CASE ~Has(fl, F_STRIP) /\ dbg = 0
      <4>1. D = UlebBytes(0)
        BY <3>2 DEF D
      <4>2. 0 \in Nat /\ 0 < Word /\ Here(s, g, UlebBytes(0)) /\ g \in Nat
        BY <2>1, <4>1, WordType
      <4> HIDE DEF g
      <4>3. Uleb(s, g).v = 0 /\ Uleb(s, g).to = g + Len(UlebBytes(0))
        BY <1>16, <4>2, UlebRead
      <4> QED
        BY <3>2, <4>1, <4>3 DEF g
    <3>3. CASE ~Has(fl, F_STRIP) /\ dbg # 0
      <4>1. D = d3
        BY <3>3 DEF D, d3, d2, d1
      <4>2. g \in Nat /\ Here(s, g, d3)
        BY <2>1, <4>1
      <4> HIDE DEF g
      <4>3. Here(s, g, d2) /\ Uleb(s, g + Len(d2)).to = g + Len(d3)
        <5>1. Here(s, g, d2 \o UlebBytes(1))
          BY <4>2 DEF d3
        <5>2. d2 \in Seq(Byte) /\ 1 \in 0..(Word - 1) /\ Len(s) \in Nat
          BY <1>12, <1>16, HalfIsWord
        <5>3. Here(s, g, d2) /\ Uleb(s, g + Len(d2)).to = g + Len(d2 \o UlebBytes(1))
          BY <4>2, <5>1, <5>2, UlebNext
        <5> QED
          BY <5>3 DEF d3
      <4>4. Here(s, g, d1) /\ Uleb(s, g + Len(d1)).to = g + Len(d2)
        <5>1. Here(s, g, d1 \o UlebBytes(Half))
          BY <4>3 DEF d2
        <5>2. d1 \in Seq(Byte) /\ Half \in 0..(Word - 1) /\ Len(s) \in Nat
          BY <1>19, <1>16, HalfIsWord
        <5>3. Here(s, g, d1) /\ Uleb(s, g + Len(d1)).to = g + Len(d1 \o UlebBytes(Half))
          BY <4>2, <5>1, <5>2, UlebNext
        <5> QED
          BY <5>3 DEF d2
      <4>5. Uleb(s, g).v = dbg /\ Uleb(s, g).to = g + Len(d1)
        <5>1. dbg \in Nat /\ dbg < Word
          BY <1>11, WordType
        <5> QED
          BY <1>16, <4>2, <4>4, <5>1, UlebRead DEF d1
      <4>6. sizedbg = Uleb(s, g)
        BY <3>3 DEF g
      <4> HIDE DEF sizedbg
      <4> QED
        BY <3>3, <4>1, <4>3, <4>4, <4>5, <4>6
    <3> QED
      BY <3>1, <3>2, <3>3
  <2>8. g + Len(D) = i + Len(x5 \o D)
    <3>1. Len(x5) \in Nat /\ Len(D) \in Nat
      BY <1>10, <1>13
    <3> QED
      BY <1>14, <3>1
  <2>9. i + 3 = i + Len(x1)
    BY <1>4
  <2> HIDE DEF sizedbg, line, g
  <2>10. /\ nbc = Len(t.code) + key /\ nkn = Len(t.knum) + key /\ nkg = Len(t.kgc) + key
         /\ key = t.framesize
    BY DEF nbc, nkn, nkg, key
  <2>11. /\ Uleb(s, i + 3) = Uleb(s, i + Len(x1))
         /\ Uleb(s, Uleb(s, i + 3).to) = Uleb(s, i + Len(x2))
         /\ Uleb(s, Uleb(s, i + 3).to).to = i + Len(x3)
         /\ Uleb(s, Uleb(s, Uleb(s, i + 3).to).to + 1) = Uleb(s, i + Len(x4))
         /\ Uleb(s, Uleb(s, Uleb(s, i + 3).to).to + 1).to = i + Len(x5)
    BY <2>2, <2>3, <2>4, <2>5, <2>9
  <2>12. /\ BitXor(At(s, i), Mask) = key /\ BitXor(At(s, i + 1), key) = t.flags
         /\ BitXor(At(s, i + 2), key) = t.numparams /\ BitXor(At(s, i + Len(x3)), key) = Len(t.uv)
    BY <1>2, <2>3, <2>6
  <2> HIDE DEF key, nbc, nkn, nkg
  <2> QED
    BY <2>2, <2>4, <2>5, <2>7, <2>8, <2>10, <2>11, <2>12 DEF SizesFound, sizedbg, line
<1> QED
  BY <1>1, <1>14, <1>15, <1>16

\* Every item is read where its bytes ss[k] are.
Reads(item, s, ss, val) ==
  \A k \in 1..Len(ss) : \A j \in Nat :
    Here(s, j, ss[k]) => item[j].v = val[k] /\ item[j].to = j + Len(ss[k])

LEMMA ListRead ==
  ASSUME NEW s, Len(s) \in Nat, NEW i \in Nat, NEW ss \in Seq(Seq(Byte)),
         Here(s, i, FlattenSeq(ss)), NEW item, NEW val, Reads(item, s, ss, val)
  PROVE  /\ List(item, i, Len(ss)).v = [k \in 1..Len(ss) |-> val[k]]
         /\ List(item, i, Len(ss)).to = i + Len(FlattenSeq(ss))
<1> DEFINE m == Len(ss)
           pos == Places(i, ss)
<1>1. m \in Nat /\ \A k \in 1..Len(ss) : Len(ss[k]) \in Nat
  OBVIOUS
<1>2. /\ pos \in [0..m -> Nat] /\ pos[0] = i
      /\ \A k \in 1..m : pos[k] = pos[k - 1] + Len(ss[k])
  BY <1>1, PlacesFit
<1>3. pos[m] = i + Len(FlattenSeq(ss)) /\ \A k \in 1..m : Here(s, pos[k - 1], ss[k])
  BY Flattened
<1> HIDE DEF pos
<1>4. Chain(item, pos, val, m)
  <2>1. ASSUME NEW k \in 1..m
        PROVE  item[pos[k - 1]].to = pos[k] /\ item[pos[k - 1]].v = val[k]
    <3>1. k - 1 \in 0..m
      BY <1>1, <2>1
    <3>2. pos[k - 1] \in Nat
      BY <1>2, <3>1
    <3> QED
      BY <1>2, <1>3, <2>1, <3>2 DEF Reads
  <2> QED
    BY <2>1 DEF Chain
<1>5. List(item, i, m).v = [k \in 1..m |-> val[k]] /\ List(item, i, m).to = pos[m]
  <2> HIDE DEF m
  <2> QED
    BY SMTT(20), <1>1, <1>2, <1>4, ListIs
<1> QED
  BY <1>3, <1>5

\* The bytes of an item, in either order.
LEMMA OrderType ==
  ASSUME NEW fl, NEW x \in Seq(Byte)
  PROVE  InOrder(fl, x) \in Seq(Byte) /\ Len(InOrder(fl, x)) = Len(x)
<1> DEFINE m == Len(x)
<1>1. m \in Nat /\ \A k \in 1..m : x[k] \in Byte
  OBVIOUS
<1>2. \A k \in 1..m : m - k + 1 \in 1..m
  BY <1>1
<1>3. Reverse(x) = [k \in 1..m |-> x[(m - k) + 1]]
  BY DEF Reverse
<1> HIDE DEF m
<1>4. Reverse(x) \in [1..m -> Byte]
  BY <1>1, <1>2, <1>3
<1>5. Reverse(x) \in Seq(Byte) /\ Len(Reverse(x)) = m
  BY <1>1, <1>4, SeqIs
<1> QED
  BY <1>5 DEF InOrder, m

\* The items of a prototype.
UvItems(s) == [j \in Nat |-> UvRef(s, j)]
InsItems(s) == [j \in Nat |-> Ins(s, j)]
KNumItems(s) == [j \in Nat |-> KNum(s, j)]

\* bcread_uv_mod
LEMMA UvsRead ==
  ASSUME NEW t, IsProto(t), NEW fl
  PROVE  /\ MangledUvs(t, fl) \in Seq(Byte)
         /\ \A s : \A i \in Nat :
              Len(s) \in Nat /\ Here(s, i, MangledUvs(t, fl)) =>
                /\ List(UvItems(s), i, Len(t.uv)).v =
                     [k \in 1..Len(t.uv) |-> InOrder(fl, t.uv[k])]
                /\ List(UvItems(s), i, Len(t.uv)).to =
                     i + Len(MangledUvs(t, fl))
<1> DEFINE m == Len(t.uv)
           ss == [k \in 1..m |-> InOrder(fl, t.uv[k])]
<1>1. m \in Nat /\ DOMAIN t.uv = 1..m /\ \A k \in 1..m : t.uv[k] \in Byte \X Byte
  BY DEF IsProto
<1>2. \A k \in 1..m : t.uv[k] \in Seq(Byte) /\ Len(t.uv[k]) = 2
  <2> TAKE k \in 1..m
  <2>1. t.uv[k] = <<t.uv[k][1], t.uv[k][2]>> /\ t.uv[k][1] \in Byte /\ t.uv[k][2] \in Byte
    BY <1>1
  <2>2. <<t.uv[k][1], t.uv[k][2]>> \in Seq(Byte) /\ Len(<<t.uv[k][1], t.uv[k][2]>>) = 2
    BY <2>1
  <2> QED
    BY <2>1, <2>2
<1>3. MangledUvs(t, fl) = FlattenSeq(ss)
  BY <1>1 DEF MangledUvs
<1>4. \A k \in 1..m : InOrder(fl, t.uv[k]) \in Seq(Byte) /\ Len(InOrder(fl, t.uv[k])) = 2
  BY <1>2, OrderType
<1>5. ss \in [1..m -> Seq(Byte)] /\ \A k \in 1..m : Len(ss[k]) = 2 /\ ss[k] \in Seq(Byte)
  BY <1>4
<1> DEFINE val == [k \in 1..m |-> InOrder(fl, t.uv[k])]
<1>6. \A k \in 1..m : val[k] = ss[k]
  OBVIOUS
<1>12. ss = val
  OBVIOUS
<1> HIDE DEF m, ss, val
<1>7. ss \in Seq(Seq(Byte)) /\ Len(ss) = m
  BY <1>1, <1>5, SeqIs
<1>8. FlattenSeq(ss) \in Seq(Byte)
  <2>1. 0 \in Nat
    OBVIOUS
  <2> QED
    BY <1>7, <2>1, Flattened
<1>9. ASSUME NEW s, NEW i \in Nat, Len(s) \in Nat, Here(s, i, FlattenSeq(ss))
      PROVE  /\ List(UvItems(s), i, Len(ss)).v = [k \in 1..Len(ss) |-> val[k]]
             /\ List(UvItems(s), i, Len(ss)).to = i + Len(FlattenSeq(ss))
  <2> DEFINE item == UvItems(s)
  <2>1. Reads(item, s, ss, val)
    <3>1. ASSUME NEW k \in 1..Len(ss), NEW j \in Nat, Here(s, j, ss[k])
          PROVE  item[j].v = val[k] /\ item[j].to = j + Len(ss[k])
      <4> DEFINE x == ss[k]
      <4>1. x \in Seq(Byte) /\ Len(x) = 2 /\ val[k] = x /\ Here(s, j, x) /\ Len(s) \in Nat
        BY <1>5, <1>9, <1>6, <1>7, <3>1
      <4> HIDE DEF x
      <4>4. x \in Seq(Byte) /\ Here(s, j, x) /\ Len(s) \in Nat
        BY <4>1
      <4>2. Block(s, j, Len(x)).v = x /\ Block(s, j, Len(x)).to = j + Len(x)
        BY <4>4, HereBlock
      <4>3. item[j] = Block(s, j, Len(x))
        BY <4>1 DEF UvRef, UvItems
      <4> HIDE DEF item
      <4> QED
        BY <4>1, <4>2, <4>3 DEF x
    <3> HIDE DEF item
    <3> QED
      BY <3>1 DEF Reads
  <2> HIDE DEF item
  <2>2. /\ List(item, i, Len(ss)).v = [k \in 1..Len(ss) |-> val[k]]
        /\ List(item, i, Len(ss)).to = i + Len(FlattenSeq(ss))
    BY <1>7, <1>9, <2>1, ListRead
  <2> QED
    BY <2>2 DEF item
<1>10. [k \in 1..m |-> val[k]] = ss
  BY <1>12, <1>5
<1>11. ss = [k \in 1..Len(t.uv) |-> InOrder(fl, t.uv[k])]
  BY DEF ss, m
<1> QED
  BY <1>3, <1>7, <1>8, <1>9, <1>10, <1>11 DEF m

\* The code of a prototype, still sealed.
LEMMA CodeRead ==
  ASSUME NEW t, IsProto(t), NEW fl
  PROVE  /\ MangledCode(t, fl) \in Seq(Byte)
         /\ \A s : \A i \in Nat :
              Len(s) \in Nat /\ Here(s, i, MangledCode(t, fl)) =>
                /\ List(InsItems(s), i, Len(t.code)).v =
                     [k \in 1..Len(t.code) |-> InOrder(fl, SealIns(t.code[k], k - 1))]
                /\ List(InsItems(s), i, Len(t.code)).to =
                     i + Len(MangledCode(t, fl))
<1> DEFINE m == Len(t.code)
           ss == [k \in 1..m |-> InOrder(fl, SealIns(t.code[k], k - 1))]
<1>1. /\ m \in Nat /\ DOMAIN t.code = 1..m
      /\ \A k \in 1..m : t.code[k] \in (0..(Modulus - 1)) \X Byte \X Byte \X Byte
  BY DEF IsProto
<1>2. \A k \in 1..m : SealIns(t.code[k], k - 1) \in Seq(Byte) /\ Len(SealIns(t.code[k], k - 1)) = 4
  <2> TAKE k \in 1..m
  <2>1. k - 1 \in Nat
    BY <1>1
  <2> QED
    BY <1>1, <2>1, OpenSealedIns
<1>3. MangledCode(t, fl) = FlattenSeq(ss)
  BY <1>1 DEF MangledCode
<1>4. \A k \in 1..m : /\ InOrder(fl, SealIns(t.code[k], k - 1)) \in Seq(Byte)
                      /\ Len(InOrder(fl, SealIns(t.code[k], k - 1))) = 4
  BY <1>2, OrderType
<1>5. ss \in [1..m -> Seq(Byte)] /\ \A k \in 1..m : Len(ss[k]) = 4 /\ ss[k] \in Seq(Byte)
  BY <1>4
<1> HIDE DEF m, ss
<1>7. ss \in Seq(Seq(Byte)) /\ Len(ss) = m
  BY <1>1, <1>5, SeqIs
<1>8. FlattenSeq(ss) \in Seq(Byte)
  <2>1. 0 \in Nat
    OBVIOUS
  <2> QED
    BY <1>7, <2>1, Flattened
<1>9. ASSUME NEW s, NEW i \in Nat, Len(s) \in Nat, Here(s, i, FlattenSeq(ss))
      PROVE  /\ List(InsItems(s), i, Len(ss)).v = [k \in 1..Len(ss) |-> ss[k]]
             /\ List(InsItems(s), i, Len(ss)).to = i + Len(FlattenSeq(ss))
  <2> DEFINE item == InsItems(s)
  <2>1. Reads(item, s, ss, ss)
    <3>1. ASSUME NEW k \in 1..Len(ss), NEW j \in Nat, Here(s, j, ss[k])
          PROVE  item[j].v = ss[k] /\ item[j].to = j + Len(ss[k])
      <4> DEFINE x == ss[k]
      <4>1. x \in Seq(Byte) /\ Len(x) = 4 /\ Here(s, j, x) /\ Len(s) \in Nat
        BY <1>5, <1>9, <1>7, <3>1
      <4> HIDE DEF x
      <4>4. x \in Seq(Byte) /\ Here(s, j, x) /\ Len(s) \in Nat
        BY <4>1
      <4>2. Block(s, j, Len(x)).v = x /\ Block(s, j, Len(x)).to = j + Len(x)
        BY <4>4, HereBlock
      <4>3. item[j] = Block(s, j, Len(x))
        BY <4>1 DEF Ins, InsItems
      <4> HIDE DEF item
      <4> QED
        BY <4>1, <4>2, <4>3 DEF x
    <3> HIDE DEF item
    <3> QED
      BY <3>1 DEF Reads
  <2> HIDE DEF item
  <2>2. /\ List(item, i, Len(ss)).v = [k \in 1..Len(ss) |-> ss[k]]
        /\ List(item, i, Len(ss)).to = i + Len(FlattenSeq(ss))
    BY <1>7, <1>9, <2>1, ListRead
  <2> QED
    BY <2>2 DEF item
<1>10. [k \in 1..m |-> ss[k]] = ss
  BY <1>5
<1>11. ss = [k \in 1..Len(t.code) |-> InOrder(fl, SealIns(t.code[k], k - 1))]
  BY DEF ss, m
<1> QED
  BY <1>3, <1>7, <1>8, <1>9, <1>10, <1>11 DEF m

\* bcread_knum_mod
LEMMA NumbersRead ==
  ASSUME NEW t, IsProto(t)
  PROVE  /\ MangledNumbers(t) \in Seq(Byte)
         /\ \A s : \A i \in Nat :
              Len(s) \in Nat /\ Here(s, i, MangledNumbers(t)) =>
                /\ List(KNumItems(s), i, Len(t.knum)).v = t.knum
                /\ List(KNumItems(s), i, Len(t.knum)).to = i + Len(MangledNumbers(t))
<1> DEFINE m == Len(t.knum)
           val == t.knum
           ss == [k \in 1..m |-> KNumBytes(val[k])]
<1>1. /\ m \in Nat /\ DOMAIN val = 1..m /\ val = [k \in 1..m |-> val[k]]
      /\ \A k \in 1..m : IsNumber(val[k])
  BY DEF IsProto
<1>3. MangledNumbers(t) = FlattenSeq(ss)
  BY <1>1 DEF MangledNumbers
<1> HIDE DEF val
<1>5. ss \in [1..m -> Seq(Byte)]
  BY <1>1, KNumType
<1>6. \A k \in 1..m : ss[k] = KNumBytes(val[k])
  OBVIOUS
<1> HIDE DEF m, ss
<1>7. ss \in Seq(Seq(Byte)) /\ Len(ss) = m
  BY <1>1, <1>5, SeqIs
<1>8. FlattenSeq(ss) \in Seq(Byte)
  <2>1. 0 \in Nat
    OBVIOUS
  <2> QED
    BY <1>7, <2>1, Flattened
<1>9. ASSUME NEW s, NEW i \in Nat, Len(s) \in Nat, Here(s, i, FlattenSeq(ss))
      PROVE  /\ List(KNumItems(s), i, Len(ss)).v = [k \in 1..Len(ss) |-> val[k]]
             /\ List(KNumItems(s), i, Len(ss)).to = i + Len(FlattenSeq(ss))
  <2> DEFINE item == KNumItems(s)
  <2>1. Reads(item, s, ss, val)
    <3>1. ASSUME NEW k \in 1..Len(ss), NEW j \in Nat, Here(s, j, ss[k])
          PROVE  item[j].v = val[k] /\ item[j].to = j + Len(ss[k])
      <4> DEFINE o == val[k]
      <4>1. IsNumber(o) /\ Here(s, j, KNumBytes(o)) /\ ss[k] = KNumBytes(o) /\ Len(s) \in Nat
        BY <1>1, <1>6, <1>7, <1>9, <3>1
      <4> HIDE DEF o
      <4>2. KNum(s, j).v = o /\ KNum(s, j).to = j + Len(KNumBytes(o))
        BY <4>1, KNumRead
      <4>3. item[j] = KNum(s, j)
        BY DEF KNumItems
      <4> HIDE DEF item
      <4> QED
        BY <4>1, <4>2, <4>3 DEF o
    <3> HIDE DEF item
    <3> QED
      BY <3>1 DEF Reads
  <2> HIDE DEF item
  <2>2. /\ List(item, i, Len(ss)).v = [k \in 1..Len(ss) |-> val[k]]
        /\ List(item, i, Len(ss)).to = i + Len(FlattenSeq(ss))
    BY <1>7, <1>9, <2>1, ListRead
  <2> QED
    BY <2>2 DEF item
<1> QED
  BY <1>1, <1>3, <1>7, <1>8, <1>9 DEF m, val

\* The places of constants.
LEMMA ConstantsRead ==
  ASSUME NEW t, IsProto(t)
  PROVE  LET ss == [k \in 1..Len(t.kgc) |-> MangledConstant(t.kgc[k])]
         IN  /\ MangledConstants(t) = FlattenSeq(ss) /\ MangledConstants(t) \in Seq(Byte)
             /\ ss \in Seq(Seq(Byte)) /\ Len(ss) = Len(t.kgc) /\ Len(t.kgc) \in Nat
             /\ \A k \in 1..Len(t.kgc) : IsConstant(t.kgc[k])
<1> DEFINE m == Len(t.kgc)
           val == t.kgc
           ss == [k \in 1..m |-> MangledConstant(val[k])]
<1>1. m \in Nat /\ DOMAIN val = 1..m /\ \A k \in 1..m : IsConstant(val[k])
  BY DEF IsProto, IsConstant
<1>3. MangledConstants(t) = FlattenSeq(ss)
  BY <1>1 DEF MangledConstants
<1>5. ss \in [1..m -> Seq(Byte)]
  <2> HIDE DEF val
  <2> QED
    BY <1>1, ConstantRead
<1> HIDE DEF ss, m
<1>7. ss \in Seq(Seq(Byte)) /\ Len(ss) = m
  BY <1>1, <1>5, SeqIs
<1>8. FlattenSeq(ss) \in Seq(Byte)
  <2>1. 0 \in Nat
    OBVIOUS
  <2> QED
    BY <1>7, <2>1, Flattened
<1> QED
  BY <1>1, <1>3, <1>7, <1>8 DEF ss, m

\* Where the parts of a prototype begin that begins at i.
AtUvs(i, t, fl, dbg) == i + Len(MangledSizes(t, fl, dbg))
AtCode(i, t, fl, dbg) == AtUvs(i, t, fl, dbg) + Len(MangledUvs(t, fl))
AtNumbers(i, t, fl, dbg) == AtCode(i, t, fl, dbg) + Len(MangledCode(t, fl))
AtConstants(i, t, fl, dbg) == AtNumbers(i, t, fl, dbg) + Len(MangledNumbers(t))
AtDebug(i, t, fl, dbg) == AtConstants(i, t, fl, dbg) + Len(MangledConstants(t))

BodyLies(s, i, t, fl, dbg) ==
  /\ Here(s, i, MangledSizes(t, fl, dbg))
  /\ Here(s, AtUvs(i, t, fl, dbg), MangledUvs(t, fl))
  /\ Here(s, AtCode(i, t, fl, dbg), MangledCode(t, fl))
  /\ Here(s, AtNumbers(i, t, fl, dbg), MangledNumbers(t))
  /\ Here(s, AtConstants(i, t, fl, dbg), MangledConstants(t))

\* A prototype without its length.
LEMMA BodyRead ==
  ASSUME NEW t, IsProto(t), NEW fl, NEW dbg, IsDebug(fl, dbg)
  PROVE  /\ MangledBody(t, fl, dbg) \in Seq(Byte) /\ Len(MangledBody(t, fl, dbg)) >= 7
         /\ \A i \in Nat :
              /\ AtUvs(i, t, fl, dbg) \in Nat /\ AtCode(i, t, fl, dbg) \in Nat
              /\ AtNumbers(i, t, fl, dbg) \in Nat /\ AtConstants(i, t, fl, dbg) \in Nat
              /\ AtDebug(i, t, fl, dbg) \in Nat
              /\ AtDebug(i, t, fl, dbg) + dbg = i + Len(MangledBody(t, fl, dbg))
              /\ AtNumbers(i, t, fl, dbg) <= AtConstants(i, t, fl, dbg)
              /\ AtConstants(i, t, fl, dbg) <= AtDebug(i, t, fl, dbg)
         /\ \A s : \A i \in Nat :
              Len(s) \in Nat /\ Here(s, i, MangledBody(t, fl, dbg)) => BodyLies(s, i, t, fl, dbg)
<1> DEFINE x == MangledSizes(t, fl, dbg)
           u == MangledUvs(t, fl)
           c1 == MangledCode(t, fl)
           k1 == MangledNumbers(t)
           g1 == MangledConstants(t)
           h1 == IF Has(fl, F_STRIP) THEN <<>> ELSE [j \in 1..dbg |-> 1]
           y1 == x \o u
           y2 == y1 \o c1
           y3 == y2 \o k1
           y4 == y3 \o g1
           y5 == y4 \o h1
<1>1. MangledBody(t, fl, dbg) = y5
  BY DEF MangledBody
<1>2. h1 \in Seq(Byte) /\ Len(h1) = dbg /\ dbg \in Nat
  <2>1. 1 \in Byte /\ dbg \in Nat /\ (Has(fl, F_STRIP) => dbg = 0)
    BY HalfFacts, WordType DEF IsDebug, Byte
  <2>2. [j \in 1..dbg |-> 1] \in [1..dbg -> Byte]
    BY <2>1
  <2>3. [j \in 1..dbg |-> 1] \in Seq(Byte) /\ Len([j \in 1..dbg |-> 1]) = dbg
    BY <2>1, <2>2, SeqIs
  <2> QED
    BY <2>1, <2>3
<1>3. x \in Seq(Byte) /\ Len(x) >= 7
  BY SizesRead
<1>4. u \in Seq(Byte) /\ c1 \in Seq(Byte) /\ k1 \in Seq(Byte) /\ g1 \in Seq(Byte)
  <2>1. u \in Seq(Byte)
    BY UvsRead
  <2>2. c1 \in Seq(Byte)
    BY CodeRead
  <2>3. k1 \in Seq(Byte)
    BY NumbersRead
  <2>4. g1 \in Seq(Byte)
    BY ConstantsRead
  <2> QED
    BY <2>1, <2>2, <2>3, <2>4
<1> HIDE DEF x, u, c1, k1, g1, h1
<1>5. y1 \in Seq(Byte) /\ Len(y1) = Len(x) + Len(u) /\ Len(x) \in Nat /\ Len(u) \in Nat
  BY <1>3, <1>4, ConcatType
<1> HIDE DEF y1
<1>6. y2 \in Seq(Byte) /\ Len(y2) = Len(y1) + Len(c1) /\ Len(c1) \in Nat
  BY <1>4, <1>5, ConcatType
<1> HIDE DEF y2
<1>7. y3 \in Seq(Byte) /\ Len(y3) = Len(y2) + Len(k1) /\ Len(k1) \in Nat
  BY <1>4, <1>6, ConcatType
<1> HIDE DEF y3
<1>8. y4 \in Seq(Byte) /\ Len(y4) = Len(y3) + Len(g1) /\ Len(g1) \in Nat
  BY <1>4, <1>7, ConcatType
<1> HIDE DEF y4
<1>9. y5 \in Seq(Byte) /\ Len(y5) = Len(y4) + dbg
  BY <1>2, <1>8, ConcatType
<1> HIDE DEF y5
<1>10. \A i \in Nat :
         /\ AtUvs(i, t, fl, dbg) = i + Len(x) /\ AtCode(i, t, fl, dbg) = i + Len(y1)
         /\ AtNumbers(i, t, fl, dbg) = i + Len(y2) /\ AtConstants(i, t, fl, dbg) = i + Len(y3)
         /\ AtDebug(i, t, fl, dbg) = i + Len(y4)
         /\ Len(x) \in Nat /\ Len(y1) \in Nat /\ Len(y2) \in Nat /\ Len(y3) \in Nat /\ Len(y4) \in Nat
  <2> TAKE i \in Nat
  <2>1. AtUvs(i, t, fl, dbg) = i + Len(x)
    BY DEF AtUvs, x
  <2>2. AtCode(i, t, fl, dbg) = (i + Len(x)) + Len(u)
    BY <2>1 DEF AtCode, u
  <2>3. AtNumbers(i, t, fl, dbg) = AtCode(i, t, fl, dbg) + Len(c1)
    BY DEF AtNumbers, c1
  <2>4. AtConstants(i, t, fl, dbg) = AtNumbers(i, t, fl, dbg) + Len(k1)
    BY DEF AtConstants, k1
  <2>5. AtDebug(i, t, fl, dbg) = AtConstants(i, t, fl, dbg) + Len(g1)
    BY DEF AtDebug, g1
  <2> QED
    BY <2>1, <2>2, <2>3, <2>4, <2>5, <1>5, <1>6, <1>7, <1>8
<1>11. Len(y5) >= 7
  BY <1>2, <1>3, <1>5, <1>6, <1>7, <1>8, <1>9
<1>12. ASSUME NEW i \in Nat
       PROVE  /\ AtUvs(i, t, fl, dbg) \in Nat /\ AtCode(i, t, fl, dbg) \in Nat
              /\ AtNumbers(i, t, fl, dbg) \in Nat /\ AtConstants(i, t, fl, dbg) \in Nat
              /\ AtDebug(i, t, fl, dbg) \in Nat
              /\ AtDebug(i, t, fl, dbg) + dbg = i + Len(y5)
              /\ AtNumbers(i, t, fl, dbg) <= AtConstants(i, t, fl, dbg)
              /\ AtConstants(i, t, fl, dbg) <= AtDebug(i, t, fl, dbg)
  <2>1. /\ AtUvs(i, t, fl, dbg) = i + Len(x) /\ AtCode(i, t, fl, dbg) = i + Len(y1)
        /\ AtNumbers(i, t, fl, dbg) = i + Len(y2) /\ AtConstants(i, t, fl, dbg) = i + Len(y3)
        /\ AtDebug(i, t, fl, dbg) = i + Len(y4)
        /\ Len(x) \in Nat /\ Len(y1) \in Nat /\ Len(y2) \in Nat /\ Len(y3) \in Nat /\ Len(y4) \in Nat
    BY <1>10, <1>12
  <2>2. Len(y3) = Len(y2) + Len(k1) /\ Len(y4) = Len(y3) + Len(g1) /\ Len(y5) = Len(y4) + dbg
        /\ Len(k1) \in Nat /\ Len(g1) \in Nat /\ dbg \in Nat
    BY <1>2, <1>7, <1>8, <1>9
  <2> QED
    BY SMTT(20), <2>1, <2>2
<1>13. ASSUME NEW s, NEW i \in Nat, Len(s) \in Nat, Here(s, i, y5)
       PROVE  BodyLies(s, i, t, fl, dbg)
  <2>1. Here(s, i, y4)
    BY <1>2, <1>8, <1>13, HereJoined DEF y5
  <2>2. Here(s, i, y3) /\ Here(s, i + Len(y3), g1)
    BY <1>4, <1>7, <1>13, <2>1, HereJoined DEF y4
  <2>3. Here(s, i, y2) /\ Here(s, i + Len(y2), k1)
    BY <1>4, <1>6, <1>13, <2>2, HereJoined DEF y3
  <2>4. Here(s, i, y1) /\ Here(s, i + Len(y1), c1)
    BY <1>4, <1>5, <1>13, <2>3, HereJoined DEF y2
  <2>5. Here(s, i, x) /\ Here(s, i + Len(x), u)
    BY <1>3, <1>4, <1>13, <2>4, HereJoined DEF y1
  <2>6. /\ AtUvs(i, t, fl, dbg) = i + Len(x) /\ AtCode(i, t, fl, dbg) = i + Len(y1)
        /\ AtNumbers(i, t, fl, dbg) = i + Len(y2) /\ AtConstants(i, t, fl, dbg) = i + Len(y3)
    BY <1>10, <1>13
  <2> QED
    BY <2>2, <2>3, <2>4, <2>5, <2>6 DEF BodyLies, x, u, c1, k1, g1
<1> QED
  BY <1>1, <1>9, <1>11, <1>12, <1>13

\* A prototype and its length.
LEMMA ProtoRead ==
  ASSUME NEW t, IsProto(t), NEW fl, NEW dbg, IsDebug(fl, dbg),
         Len(MangledBody(t, fl, dbg)) < Word
  PROVE  LET x == MangledProto(t, fl, dbg)
             y == MangledBody(t, fl, dbg)
             m == Len(x) - Len(y)
         IN  /\ x \in Seq(Byte) /\ y \in Seq(Byte) /\ Len(x) \in Nat /\ Len(x) >= 8
             /\ Len(y) \in Nat /\ Len(y) # 0 /\ m \in 1..UlebMax /\ Len(x) = m + Len(y)
             /\ \A s : \A i \in Nat :
                  Len(s) \in Nat /\ Here(s, i, x) =>
                    /\ At(s, i) # 0 /\ Uleb(s, i).v = Len(y) /\ Uleb(s, i).to = i + m
                    /\ Here(s, i + m, y) /\ i + m \in Nat
<1> DEFINE y == MangledBody(t, fl, dbg)
           l == Len(y)
           z == UlebBytes(l)
           x == z \o y
<1>1. MangledProto(t, fl, dbg) = x
  BY DEF MangledProto
<1>2. y \in Seq(Byte) /\ l \in Nat /\ l >= 7 /\ l < Word /\ l < 2 * Word
  <2>1. y \in Seq(Byte) /\ l >= 7 /\ l < Word
    BY BodyRead
  <2> QED
    BY <2>1, WordType
<1> HIDE DEF y
<1>3. z \in Seq(Byte) /\ Len(z) \in 1..UlebMax /\ z[1] # 0 /\ Len(z) \in Nat /\ 1 \in 1..Len(z)
  <2> HIDE DEF l
  <2>1. z \in Seq(Byte) /\ Len(z) \in 1..UlebMax /\ z[1] # 0
    BY <1>2, UlebBytesType
  <2> HIDE DEF z
  <2> QED
    BY <2>1, NumberAssumption
<1>4. x \in Seq(Byte) /\ Len(x) = Len(z) + l
  <2> HIDE DEF z
  <2> QED
    BY <1>2, <1>3, ConcatType
<1>5. ASSUME NEW s, NEW i \in Nat, Len(s) \in Nat, Here(s, i, x)
      PROVE  /\ At(s, i) # 0 /\ Uleb(s, i).v = l /\ Uleb(s, i).to = i + Len(z)
             /\ Here(s, i + Len(z), y) /\ i + Len(z) \in Nat
  <2> DEFINE zz == z
  <2>1. zz = UlebBytes(l) /\ zz \in Seq(Byte) /\ Here(s, i, zz \o y)
    BY <1>3, <1>5
  <2> HIDE DEF zz
  <2>2. Here(s, i, zz) /\ Here(s, i + Len(zz), y)
    BY <1>2, <1>5, <2>1, HereJoined
  <2>3. At(s, i + (1 - 1)) = zz[1]
    BY <1>3, <1>5, <2>2, HereAt DEF zz
  <2>4. Uleb(s, i).v = l /\ Uleb(s, i).to = i + Len(UlebBytes(l))
    <3> HIDE DEF l
    <3> QED
      BY <1>2, <1>5, <2>1, <2>2, UlebRead
  <2> QED
    BY <1>3, <2>1, <2>2, <2>3, <2>4
<1> HIDE DEF z, l
<1>6. /\ Len(x) \in Nat /\ Len(x) >= 8 /\ l # 0 /\ Len(x) - l = Len(z)
  <2> HIDE DEF x
  <2> QED
    BY <1>2, <1>3, <1>4
<1> HIDE DEF x
<1> QED
  BY <1>1, <1>2, <1>3, <1>4, <1>5, <1>6 DEF l, y

LEMMA TailIs ==
  ASSUME NEW S, NEW x \in Seq(S), Len(x) = 4
  PROVE  Tail(x) = [k \in 1..3 |-> x[k + 1]]
<1> DEFINE y == Tail(x)
<1>1. x # <<>>
  BY EmptySeq
<1>2. y \in Seq(S) /\ Len(y) = 3 /\ \A k \in 1..Len(y) : y[k] = x[k + 1]
  BY <1>1, HeadTailProperties
<1> HIDE DEF y
<1>3. y = [k \in 1..3 |-> x[k + 1]]
  BY <1>2
<1> QED
  BY <1>3 DEF y

\* The header of a dump.
HeaderFound(s, d) ==
  LET f == Uleb(s, 4)
      name == IF Has(f.v, F_STRIP) THEN [v |-> 0, to |-> f.to] ELSE Uleb(s, f.to)
  IN  /\ At(s, 0) = Magic[1] /\ SubSeq(s, 1, 4) = Magic /\ Block(s, 1, 3).v = Tail(Magic)
      /\ f.v = d.flags /\ name.v \in Nat /\ name.to \in Nat /\ name.to <= 1 + HeaderWant
      /\ name.to + name.v = Len(MangledHeader(d))

LEMMA HeaderRead ==
  ASSUME NEW d \in Dumps
  PROVE  /\ MangledHeader(d) \in Seq(Byte) /\ Len(MangledHeader(d)) >= 4
         /\ \A s \in Seq(Byte) : Here(s, 0, MangledHeader(d)) => HeaderFound(s, d)
<1> DEFINE fl == d.flags
           nm == d.name
           f == UlebBytes(fl)
           l == UlebBytes(Len(nm))
           D == IF Has(fl, F_STRIP) THEN <<>> ELSE l \o nm
           x == Magic \o f
           h == x \o D
<1>1. MangledHeader(d) = h
  BY DEF MangledHeader
<1>2. fl \in 0..7 /\ nm \in Seq(Byte) /\ Len(nm) < Word
  BY DumpAssumption DEF F_KNOWN, F_BE, F_STRIP, F_FFI
<1> HIDE DEF fl, nm
<1>3. /\ fl \in 0..(Word - 1) /\ Len(nm) \in 0..(Word - 1) /\ fl <= F_KNOWN
      /\ fl \in Nat /\ fl < Word /\ Len(nm) \in Nat
  BY <1>2, WordType DEF F_KNOWN, F_BE, F_STRIP, F_FFI
<1>4. f \in Seq(Byte) /\ l \in Seq(Byte) /\ Len(f) <= UlebMax /\ Len(l) <= UlebMax
      /\ Len(f) \in Nat /\ Len(l) \in Nat
  BY <1>3, WordBytesType
<1> DEFINE ln == l \o nm
<1>5. ln \in Seq(Byte) /\ Len(ln) = Len(l) + Len(nm)
  <2> HIDE DEF l
  <2> QED
    BY <1>2, <1>4, ConcatType
<1> HIDE DEF ln
<1>6. D = (IF Has(fl, F_STRIP) THEN <<>> ELSE ln)
  BY DEF ln
<1> HIDE DEF D
<1>7. D \in Seq(Byte)
  BY <1>5, <1>6
<1>8. Magic \in Seq(Byte) /\ Len(Magic) = 4
  BY MagicAssumption
<1>9. x \in Seq(Byte) /\ Len(x) = 4 + Len(f)
  <2> HIDE DEF f
  <2> QED
    BY <1>4, <1>8, ConcatType
<1> HIDE DEF x
<1>10. h \in Seq(Byte) /\ Len(h) = Len(x) + Len(D) /\ Len(D) \in Nat
  BY <1>7, <1>9, ConcatType
<1>11. Len(h) >= 4
  <2> HIDE DEF h, f
  <2> QED
    BY <1>4, <1>9, <1>10
<1>12. ASSUME NEW s \in Seq(Byte), Here(s, 0, h)
       PROVE  HeaderFound(s, d)
  <2>1. Len(s) \in Nat /\ 0 \in Nat
    OBVIOUS
  <2>2. Here(s, 0, x) /\ Here(s, 0 + Len(x), D)
    BY <1>7, <1>9, <1>12, <2>1, HereJoined
  <2>3. Here(s, 0, Magic) /\ Uleb(s, 0 + Len(Magic)).v = fl
        /\ Uleb(s, 0 + Len(Magic)).to = 0 + Len(Magic \o UlebBytes(fl))
    <3>1. Here(s, 0, Magic \o UlebBytes(fl))
      BY <2>2 DEF x
    <3>2. Magic \in Seq(Byte) /\ fl \in 0..(Word - 1)
      BY <1>3, <1>8
    <3> QED
      BY <2>1, <3>1, <3>2, UlebNext
  <2>4. Uleb(s, 4).v = fl /\ Uleb(s, 4).to = Len(x)
    <3>1. Len(Magic \o UlebBytes(fl)) = Len(x)
      BY DEF x
    <3> QED
      BY <1>4, <1>8, <1>9, <2>3, <3>1
  <2>5. 4 <= Len(s) /\ \A k \in 1..4 : s[k] = Magic[k]
    <3>1. 0 + Len(Magic) <= Len(s) /\ \A k \in 1..Len(Magic) : s[0 + k] = Magic[k]
      BY <2>3 DEF Here
    <3>2. 4 <= Len(s) /\ \A k \in 1..4 : s[0 + k] = Magic[k]
      BY <1>8, <2>1, <3>1
    <3>3. \A k \in 1..4 : 0 + k = k
      OBVIOUS
    <3> QED
      BY <3>2, <3>3
  <2>6. Magic = [k \in 1..4 |-> Magic[k]]
    BY <1>8
  <2>7. SubSeq(s, 1, 4) = Magic
    <3>1. SubSeq(s, 1, 4) = [k \in 1..4 |-> s[k]]
      <4> DEFINE m == Len(s)
      <4>1. m \in Nat /\ s = [k \in 1..m |-> s[k]] /\ 1 \in 1..(m + 1) /\ 4 \in 0..m /\ 1 <= 4 + 1
        BY <2>1, <2>5
      <4> HIDE DEF m
      <4>2. SubSeq(s, 1, 4) = [k \in 1..(4 - 1 + 1) |-> s[1 + k - 1]]
        BY <4>1, SubSeqIs
      <4>3. 4 - 1 + 1 = 4 /\ \A k \in 1..4 : s[1 + k - 1] = s[k]
        OBVIOUS
      <4> QED
        BY <4>2, <4>3
    <3> QED
      BY <2>5, <2>6, <3>1
  <2>8. At(s, 0) = Magic[1]
    BY <2>1, <2>5 DEF At
  <2>9. Block(s, 1, 3).v = Tail(Magic)
    <3>1. Tail(Magic) = [k \in 1..3 |-> Magic[k + 1]]
      BY <1>8, TailIs
    <3>2. \A k \in 1..3 : At(s, 1 + k - 1) = s[k + 1] /\ k + 1 \in 1..4
      BY <2>1, <2>5 DEF At
    <3>3. \A k \in 1..3 : At(s, 1 + k - 1) = Magic[k + 1]
      BY <2>5, <3>2
    <3>4. Block(s, 1, 3).v = [k \in 1..3 |-> At(s, 1 + k - 1)]
      BY DEF Block
    <3> QED
      BY <3>1, <3>3, <3>4
  <2> DEFINE g == Len(x)
             name == IF Has(fl, F_STRIP) THEN [v |-> 0, to |-> g] ELSE Uleb(s, g)
  <2>10. name.v \in Nat /\ name.to \in Nat /\ name.to <= g + UlebMax /\ name.to + name.v = Len(h)
    <3>1. g \in Nat /\ Len(h) = g + Len(D) /\ UlebMax \in Nat
      BY <1>9, <1>10, NumberAssumption
    <3> HIDE DEF h
    <3>2. CASE Has(fl, F_STRIP)
      <4>1. D = <<>> /\ Len(D) = 0
        BY <1>6, <3>2
      <4> HIDE DEF g
      <4> QED
        BY <3>1, <3>2, <4>1
    <3>3. CASE ~Has(fl, F_STRIP)
      <4>1. D = ln
        BY <1>6, <3>3
      <4>2. Here(s, g, ln)
        BY <1>9, <2>2, <4>1
      <4>3. Here(s, g, l)
        <5> HIDE DEF l, g
        <5> QED
          BY <1>2, <1>4, <2>1, <3>1, <4>2, HereJoined DEF ln
      <4>4. Uleb(s, g).v = Len(nm) /\ Uleb(s, g).to = g + Len(l)
        <5>1. Len(nm) < Word /\ Here(s, g, UlebBytes(Len(nm)))
          BY <1>2, <4>3
        <5> HIDE DEF g
        <5> QED
          BY <1>3, <2>1, <3>1, <5>1, UlebRead
      <4>5. /\ Len(ln) = Len(l) + Len(nm) /\ Len(D) = Len(ln) /\ Len(nm) \in Nat
            /\ Len(l) \in Nat /\ Len(l) <= UlebMax
        BY <1>3, <1>4, <1>5, <4>1
      <4>6. name = Uleb(s, g)
        BY <3>3
      <4> HIDE DEF g, l, name
      <4>7. name.v = Len(nm) /\ name.to = g + Len(l)
        BY <4>4, <4>6
      <4> QED
        BY <3>1, <4>5, <4>7
    <3> QED
      BY <3>2, <3>3
  <2>11. g + UlebMax <= 1 + HeaderWant
    BY <1>4, <1>9, NumberAssumption DEF HeaderWant
  <2>12. name.to <= 1 + HeaderWant
    <3>1. g \in Nat /\ UlebMax \in Nat
      BY <1>9, NumberAssumption
    <3> HIDE DEF name, g
    <3> QED
      BY <2>10, <2>11, <3>1, NumberAssumption DEF HeaderWant
  <2>13. name = IF Has(Uleb(s, 4).v, F_STRIP) THEN [v |-> 0, to |-> Uleb(s, 4).to]
                ELSE Uleb(s, Uleb(s, 4).to)
    BY <2>4
  <2> HIDE DEF name, g
  <2> QED
    BY <1>1, <2>4, <2>7, <2>8, <2>9, <2>10, <2>12, <2>13 DEF HeaderFound, fl
<1> QED
  BY <1>1, <1>10, <1>11, <1>12

\* The prototypes of a dump, and where they begin and end.
Bytes(d) == [k \in 1..Len(d.protos) |-> MangledProto(d.protos[k], d.flags, d.dbg)]
Starts(d) == Places(Len(MangledHeader(d)), Bytes(d))

LEMMA DumpFacts ==
  ASSUME NEW d \in Dumps
  PROVE  /\ Len(d.protos) \in Nat
         /\ \A k \in 1..Len(d.protos) :
              /\ IsProto(d.protos[k]) /\ IsDebug(d.flags, d.dbg)
              /\ Len(MangledBody(d.protos[k], d.flags, d.dbg)) < Word
<1> QED
  BY DumpAssumption DEF IsDebug

LEMMA DumpRead ==
  ASSUME NEW d \in Dumps
  PROVE  LET s == d.bytes
             m == Len(d.protos)
         IN  /\ s \in Seq(Byte) /\ Len(s) \in Nat /\ HeaderFound(s, d)
             /\ Starts(d) \in [0..m -> Nat] /\ Starts(d)[0] = Len(MangledHeader(d))
             /\ Starts(d)[0] \in Nat /\ Starts(d)[0] < Len(s)
             /\ \A k \in 1..m : /\ Starts(d)[k] = Starts(d)[k - 1] + Len(Bytes(d)[k])
                                /\ Here(s, Starts(d)[k - 1], Bytes(d)[k])
                                /\ Starts(d)[k - 1] \in Nat /\ Starts(d)[k] < Len(s)
             /\ Starts(d)[m] + 1 = Len(s) /\ At(s, Starts(d)[m]) = 0
<1> DEFINE m == Len(d.protos)
           ss == Bytes(d)
           h == MangledHeader(d)
           f == FlattenSeq(ss)
           x == h \o f
           e == <<0>>
           s == d.bytes
           i == Len(h)
           pos == Starts(d)
<1>1. s = x \o e
  <2>1. Mangled(d) = s
    BY DumpAssumption
  <2>2. DOMAIN d.protos = 1..m
    BY DumpAssumption
  <2> QED
    BY <2>1, <2>2 DEF Mangled, Bytes
<1>2. m \in Nat /\ ss = [k \in 1..m |-> MangledProto(d.protos[k], d.flags, d.dbg)]
  BY DumpFacts DEF Bytes
<1>3. h \in Seq(Byte) /\ i \in Nat /\ i >= 4
  BY HeaderRead
<1> HIDE DEF s, h, ss
<1>4. ss \in Seq(Seq(Byte)) /\ Len(ss) = m
  <2>1. ss \in [1..m -> Seq(Byte)]
    BY <1>2, DumpFacts, ProtoRead
  <2> HIDE DEF m
  <2> QED
    BY <1>2, <2>1, SeqIs
<1>5. f \in Seq(Byte)
  <2>1. 0 \in Nat
    OBVIOUS
  <2> QED
    BY <1>4, <2>1, Flattened
<1>6. pos[Len(ss)] = i + Len(f) /\ pos = Places(i, ss)
  BY <1>3, <1>4, Flattened DEF Starts, ss, h
<1> HIDE DEF f
<1>7. x \in Seq(Byte) /\ Len(x) = i + Len(f) /\ Len(f) \in Nat
  BY <1>3, <1>5, ConcatType
<1>8. e \in Seq(Byte) /\ Len(e) = 1 /\ e[1] = 0 /\ 1 \in 1..Len(e)
  BY HalfFacts DEF Byte
<1> HIDE DEF x, e
<1>9. s \in Seq(Byte) /\ Len(s) = Len(x) + 1 /\ Len(x) \in Nat
  <2>1. e \in Seq(Byte)
    BY <1>8
  <2>2. x \o e \in Seq(Byte) /\ Len(x \o e) = Len(x) + Len(e) /\ Len(x) \in Nat
    BY <1>7, <2>1, ConcatType
  <2> QED
    BY <1>1, <1>8, <2>2
<1>10. Here(s, 0, s)
  <2>1. Len(s) \in Nat
    BY <1>9
  <2> HIDE DEF s
  <2> QED
    BY <2>1 DEF Here
<1>11. Here(s, 0, x) /\ Here(s, 0 + Len(x), e)
  <2>1. Here(s, 0, x \o e) /\ 0 \in Nat /\ Len(s) \in Nat
    BY <1>1, <1>9, <1>10
  <2> HIDE DEF s
  <2> QED
    BY <1>7, <1>8, <2>1, HereJoined
<1>12. Here(s, 0, h) /\ Here(s, 0 + i, f)
  <2>1. Here(s, 0, h \o f) /\ 0 \in Nat /\ Len(s) \in Nat
    BY <1>9, <1>11 DEF x
  <2> QED
    BY <1>3, <1>5, <2>1, HereJoined
<1>13. At(s, Len(x)) = 0
  <2>1. At(s, (0 + Len(x)) + (1 - 1)) = e[1]
    <3>1. 0 + Len(x) \in Nat /\ Len(s) \in Nat /\ Len(e) \in Nat
      BY <1>8, <1>9
    <3> QED
      BY <1>8, <1>11, <3>1, HereAt
  <2>2. (0 + Len(x)) + (1 - 1) = Len(x)
    BY <1>9
  <2> QED
    BY <1>8, <2>1, <2>2
<1>14. HeaderFound(s, d)
  BY <1>9, <1>12, HeaderRead DEF h
<1>15. /\ pos \in [0..m -> Nat] /\ pos[0] = i
       /\ \A k \in 1..m : pos[k] = pos[k - 1] + Len(ss[k]) /\ pos[k] <= pos[m] /\ i <= pos[m]
  <2>1. Len(ss) \in Nat /\ \A k \in 1..Len(ss) : Len(ss[k]) \in Nat
    BY <1>4
  <2>2. /\ pos \in [0..Len(ss) -> Nat] /\ pos[0] = i
        /\ \A k \in 1..Len(ss) : pos[k] = pos[k - 1] + Len(ss[k])
    BY <1>3, <1>6, <2>1, PlacesFit
  <2>3. \A k \in 0..Len(ss) : pos[k] <= pos[Len(ss)]
    BY <1>3, <1>6, <2>1, PlacesGrow
  <2>4. 0 \in 0..Len(ss) /\ \A k \in 1..Len(ss) : k \in 0..Len(ss)
    BY <2>1
  <2> QED
    BY <1>4, <2>2, <2>3, <2>4
<1>16. \A k \in 1..m : Here(s, pos[k - 1], ss[k])
  <2>1. Here(s, i, f) /\ Len(s) \in Nat
    BY <1>3, <1>9, <1>12
  <2> QED
    BY <1>3, <1>4, <1>6, <2>1, Flattened DEF f
<1> HIDE DEF pos, m
<1>17. pos[m] = Len(x)
  BY <1>4, <1>6, <1>7
<1>18. i < Len(s) /\ \A k \in 1..m : pos[k - 1] \in Nat /\ pos[k] < Len(s)
  <2>1. \A k \in 1..m : k - 1 \in 0..m /\ k \in 0..m
    BY <1>2
  <2>2. pos[m] \in Nat /\ pos[m] < Len(s)
    BY <1>9, <1>17
  <2>3. i < Len(s)
    BY <1>3, <1>7, <1>9
  <2> QED
    BY <1>15, <2>1, <2>2, <2>3, <1>9
<1> QED
  BY <1>3, <1>9, <1>13, <1>14, <1>15, <1>16, <1>17, <1>18 DEF pos, m, s, ss, h

-----------------------------------------------------------------------------
(* The reader on its way through a dump: windows, requests and the stack.  *)

\* At least what was called for is delivered, or all that there is.
LEMMA DeliveredFits ==
  ASSUME chunk \in Chunks, Len(file) \in Nat, NEW k \in Nat
  PROVE  /\ Delivered(k) \in Nat /\ Delivered(k) <= Len(file)
         /\ Delivered(k) = Len(file) \/ Delivered(k) >= k
         /\ k = 1 => Delivered(k) = Len(file) \/ Delivered(k) >= 4
<1> DEFINE m == chunk
           q == (k + m - 1) \div m
           l == Len(file)
           r == m * q
<1>1. m \in Nat /\ m >= 4
  BY ChunkAssumption
<1>2. q \in Nat /\ r <= k + m - 1 /\ k + m - 1 < r + m
  <2>1. k + m - 1 \in Nat /\ m \in Nat \ {0}
    BY <1>1
  <2> QED
    BY <2>1, Quotient
<1>3. k = 1 => q = 1
  <2>1. SUFFICES ASSUME k = 1 PROVE q = 1
    OBVIOUS
  <2>2. k + m - 1 = m /\ m \in Nat \ {0} /\ m * 1 = m /\ m * 1 <= m /\ m < m * 1 + m
    BY <1>1, <2>1
  <2>3. m \div m = 1
    <3> HIDE DEF m
    <3> QED
      BY <2>2, QuotientIs
  <2> QED
    BY <2>2, <2>3
<1>4. k = 1 => r = m
  BY <1>1, <1>3
<1>5. r \in Nat /\ r >= k
  BY <1>1, <1>2
<1>6. Delivered(k) = Min({l, r})
  BY DEF Delivered
<1> HIDE DEF r, m, l
<1>7. Min({l, r}) \in {l, r} /\ Min({l, r}) <= l /\ Min({l, r}) <= r
  <2>1. l \in Nat
    BY DEF l
  <2>2. {l, r} \subseteq Nat /\ {l, r} # {}
    BY <1>5, <2>1
  <2>3. Min({l, r}) \in {l, r} /\ \A y \in {l, r} : Min({l, r}) <= y
    BY <2>2, NatMin
  <2> QED
    BY <2>3
<1>8. l = Len(file) /\ l \in Nat
  BY DEF l
<1> QED
  BY <1>1, <1>4, <1>5, <1>6, <1>7, <1>8

\* What holds of the window.
Window ==
  /\ Len(file) \in Nat /\ chunk \in Chunks /\ p \in Nat /\ pe \in Nat /\ c \in Int
  /\ pe <= Len(file) /\ (c < 0 => pe = Len(file))

\* Nothing is refused that the file has, or of which less will do.
LEMMA RequestFits ==
  ASSUME Window, NEW len \in Nat, NEW need \in BOOLEAN, NEW skip, NEW next,
         Request(len, need, skip, next), p + len <= Len(file) \/ (~need /\ c >= 0)
  PROVE  /\ at' = next /\ p' = p + skip /\ pe' \in Nat /\ c' \in Int
         /\ pe' <= Len(file) /\ (c' < 0 => pe' = Len(file))
         /\ p + len <= pe' \/ pe' = Len(file)
<1>1. /\ Len(file) \in Nat /\ chunk \in Chunks /\ p \in Nat /\ pe \in Nat /\ c \in Int
      /\ pe <= Len(file) /\ (c < 0 => pe = Len(file))
  BY DEF Window
<1> DEFINE k == p + len
<1>2. k \in Nat
  BY <1>1
<1>3. /\ Delivered(k) \in Nat /\ Delivered(k) <= Len(file)
      /\ Delivered(k) = Len(file) \/ Delivered(k) >= k
  BY <1>1, <1>2, DeliveredFits
<1> HIDE DEF k
<1>4. CASE k <= pe /\ p' = p + skip /\ at' = next /\ UNCHANGED <<pe, c>>
  BY <1>1, <1>2, <1>4 DEF k
<1>5. CASE k > pe /\ (c < 0 \/ (need /\ k > Len(file)))
  <2>1. k <= Len(file) \/ (~need /\ c >= 0)
    BY DEF k
  <2> QED
    BY <1>1, <1>2, <1>5, <2>1
<1>6. CASE k > pe /\ c >= 0 /\ pe' = Delivered(k) /\ c' = (IF k > Len(file) THEN -1 ELSE c)
           /\ p' = p + skip /\ at' = next
  BY <1>1, <1>2, <1>3, <1>6 DEF k
<1> QED
  BY <1>4, <1>5, <1>6 DEF Request, k

-----------------------------------------------------------------------------
\* Sequences as stacks.
LEMMA PushIs ==
  ASSUME NEW m \in Nat, NEW s, s = [i \in 1..m |-> s[i]], NEW x
  PROVE  /\ Len(Append(s, x)) = m + 1
         /\ Append(s, x) = [i \in 1..(m + 1) |-> Append(s, x)[i]]
         /\ Append(s, x)[m + 1] = x /\ \A i \in 1..m : Append(s, x)[i] = s[i]
         /\ Last(Append(s, x)) = x
<1> DEFINE S == {s[i] : i \in 1..m} \cup {x}
           y == Append(s, x)
<1>1. s \in [1..m -> S]
  OBVIOUS
<1> HIDE DEF S
<1>2. s \in Seq(S) /\ Len(s) = m
  BY <1>1, SeqIs
<1>3. x \in S
  BY DEF S
<1>4. y \in Seq(S) /\ Len(y) = m + 1 /\ y[m + 1] = x /\ \A i \in 1..m : y[i] = s[i]
  BY <1>2, <1>3
<1> HIDE DEF y
<1>5. y = [i \in 1..(m + 1) |-> y[i]]
  BY <1>4
<1>6. Last(y) = x
  BY <1>4 DEF Last
<1> QED
  BY <1>4, <1>5, <1>6 DEF y

LEMMA PopIs ==
  ASSUME NEW m \in Nat, NEW s, s = [i \in 1..m |-> s[i]], m # 0
  PROVE  /\ Len(s) = m /\ Len(Front(s)) = m - 1 /\ Last(s) = s[m]
         /\ Front(s) = [i \in 1..(m - 1) |-> s[i]]
<1>1. Len(s) = m
  <2> DEFINE S == {s[i] : i \in 1..m}
  <2>1. s \in [1..m -> S]
    OBVIOUS
  <2> HIDE DEF S
  <2> QED
    BY <2>1, SeqIs
<1>2. /\ m \in Nat /\ 1 \in 1..(m + 1) /\ m - 1 \in 0..m /\ 1 <= (m - 1) + 1
      /\ (m - 1) - 1 + 1 = m - 1
  OBVIOUS
<1> DEFINE b == m - 1
<1>3. b \in 0..m /\ 1 <= b + 1 /\ b - 1 + 1 = b /\ \A i \in 1..b : 1 + i - 1 = i
  BY <1>2
<1>4. Front(s) = SubSeq(s, 1, b)
  BY <1>1 DEF Front
<1> HIDE DEF b
<1>5. Len(SubSeq(s, 1, b)) = b - 1 + 1 /\ SubSeq(s, 1, b) = [i \in 1..(b - 1 + 1) |-> s[1 + i - 1]]
  BY <1>2, <1>3, SubSeqIs
<1>6. SubSeq(s, 1, b) = [i \in 1..b |-> s[i]]
  BY <1>3, <1>5
<1> QED
  BY <1>1, <1>3, <1>4, <1>5, <1>6 DEF b, Last

-----------------------------------------------------------------------------
\* Children among the first constants.
LEMMA ChildrenCount ==
  ASSUME NEW t, Len(t.kgc) \in Nat
  PROVE  /\ Children(t, 0) = 0
         /\ \A j \in 0..Len(t.kgc) :
              Children(t, j) \in Nat /\ Children(t, j) <= Children(t, Len(t.kgc))
         /\ \A j \in 1..Len(t.kgc) :
              Children(t, j) = Children(t, j - 1) + (IF t.kgc[j][1] = "child" THEN 1 ELSE 0)
<1> DEFINE C(j) == {i \in 1..j : t.kgc[i][1] = "child"}
<1>1. \A j : Children(t, j) = Cardinality(C(j))
  BY DEF Children
<1>2. \A j \in Nat : IsFiniteSet(C(j))
  <2> TAKE j \in Nat
  <2>1. C(j) \subseteq 1..j /\ IsFiniteSet(1..j)
    BY SMTT(20), FS_Interval
  <2> HIDE DEF C
  <2> QED
    BY <2>1, FS_Subset
<1>3. C(0) = {}
  OBVIOUS
<1>4. ASSUME NEW j \in 0..Len(t.kgc)
      PROVE  Children(t, j) \in Nat /\ Children(t, j) <= Children(t, Len(t.kgc))
  <2>1. j \in Nat /\ C(j) \subseteq C(Len(t.kgc))
    OBVIOUS
  <2> HIDE DEF C
  <2> QED
    BY <1>1, <1>2, <2>1, FS_Subset, FS_CardinalityType
<1>5. ASSUME NEW j \in 1..Len(t.kgc)
      PROVE  Children(t, j) = Children(t, j - 1) + (IF t.kgc[j][1] = "child" THEN 1 ELSE 0)
  <2>1. j - 1 \in Nat /\ j \notin C(j - 1)
    OBVIOUS
  <2>2. C(j) = (IF t.kgc[j][1] = "child" THEN C(j - 1) \cup {j} ELSE C(j - 1))
    OBVIOUS
  <2>3. Cardinality(C(j - 1) \cup {j}) = Cardinality(C(j - 1)) + 1
    <3> HIDE DEF C
    <3> QED
      BY <1>2, <2>1, FS_AddElement
  <2>4. Cardinality(C(j - 1)) \in Nat
    <3> HIDE DEF C
    <3> QED
      BY <1>2, <2>1, FS_CardinalityType
  <2>5. Children(t, j) = Cardinality(C(j)) /\ Children(t, j - 1) = Cardinality(C(j - 1))
    BY <1>1
  <2> HIDE DEF C
  <2>6. CASE t.kgc[j][1] = "child"
    BY <2>2, <2>3, <2>5, <2>6
  <2>7. CASE t.kgc[j][1] # "child"
    BY <2>2, <2>4, <2>5, <2>7
  <2> QED
    BY <2>6, <2>7
<1>6. Children(t, 0) = 0
  BY <1>1, <1>3, FS_EmptySet
<1> QED
  BY <1>4, <1>5, <1>6

-----------------------------------------------------------------------------
(* The inductive invariant: how far the reader of a dump has come.         *)

Plain(d) == ~Has(d.flags, F_BE)

Body(d, k) == MangledBody(d.protos[k], d.flags, d.dbg)
BodyAt(d, k) == Starts(d)[k] - Len(Body(d, k))

\* Where the constants of the kth prototype are.
ConstantPlaces(d, k) ==
  LET t == d.protos[k]
  IN  Places(AtConstants(BodyAt(d, k), t, d.flags, d.dbg),
             [j \in 1..Len(t.kgc) |-> MangledConstant(t.kgc[j])])

\* Above the chunk name, the first r of the prototypes without a parent that
\* there are after k prototypes.
OnStack(d, k, r) ==
  /\ r \in Nat /\ Len(stack) = 1 + r
  /\ stack = [i \in 1..(1 + r) |-> stack[i]]
  /\ Plain(d) => \A i \in 1..r : stack[1 + i] = <<"proto", d.orphans[k][i]>>
AllOnStack(d, k) == OnStack(d, k, Len(d.orphans[k]))

\* What was read of a prototype before its constants.
Shape(q) ==
  [flags |-> q.flags, numparams |-> q.numparams, framesize |-> q.framesize, uv |-> q.uv,
   code |-> q.code, knum |-> q.knum, kgc |-> q.kgc, numkn |-> q.numkn, sizedbg |-> q.sizedbg]
Begun(d, k) ==
  LET t == d.protos[k]
  IN  /\ pt = Shape(pt) /\ pt.numkn = Len(t.knum) /\ pt.sizedbg = d.dbg
      /\ Plain(d) =>
           /\ pt.flags = t.flags /\ pt.numparams = t.numparams
           /\ pt.framesize = t.framesize /\ pt.uv = t.uv /\ pt.code = t.code

\* Before the prototypes.
AtHeader(d) ==
  \/ /\ at = "setup" /\ p = 0 /\ stack = <<ChunkName>>
  \/ /\ at = "want header" /\ p = 1 /\ c >= 0 /\ AllOnStack(d, 0)
  \/ /\ at = "header" /\ p = 1 /\ AllOnStack(d, 0)
     /\ 1 + HeaderWant <= pe \/ pe = Len(file)
  \/ /\ at = "name" /\ AllOnStack(d, 0)
     /\ flags = d.flags /\ n \in Nat /\ p + n = Starts(d)[0]

\* After k prototypes.
Between(d, k) ==
  /\ flags = d.flags /\ AllOnStack(d, k) /\ p = Starts(d)[k]
  /\ \/ at = "protos"
     \/ at = "length" /\ (p + UlebMax <= pe \/ pe = Len(file))

\* In the kth prototype, when j of its constants were read.
Within(d, k, j) ==
  LET t == d.protos[k]
      i == BodyAt(d, k)
  IN  /\ flags = d.flags /\ OnStack(d, k - 1, Len(d.orphans[k - 1]) - Children(t, j))
      /\ \/ at = "need" /\ j = 0 /\ p = i /\ n = Len(Body(d, k))
         \/ at = "proto" /\ j = 0 /\ p = i /\ limit = Starts(d)[k] /\ limit <= pe
         \/ /\ at = "knum" /\ j = 0 /\ p = AtNumbers(i, t, d.flags, d.dbg) /\ n = Len(t.kgc)
            /\ limit = Starts(d)[k] /\ limit <= pe /\ Begun(d, k) /\ pt.kgc = <<>>
         \/ /\ at = "kgc" /\ p = ConstantPlaces(d, k)[j] /\ n = Len(t.kgc) - j
            /\ limit = Starts(d)[k] /\ limit <= pe /\ Begun(d, k)
            /\ Len(pt.kgc) = j /\ pt.kgc = [l \in 1..j |-> pt.kgc[l]]
            /\ Plain(d) => pt.knum = t.knum /\ \A l \in 1..j : pt.kgc[l] = t.kgc[l]

Reading(d) ==
  /\ Window
  /\ at # "setup" => oldtop = 1
  /\ \/ AtHeader(d)
     \/ \E k \in 0..Len(d.protos) : Between(d, k)
     \/ \E k \in 1..Len(d.protos) : \E j \in 0..Len(d.protos[k].kgc) : Within(d, k, j)
     \/ at \in {"finish", "loaded"} /\ AllOnStack(d, Len(d.protos))

Inv ==
  /\ chunk \in Chunks
  /\ step = "next" => stack = <<>>
  /\ step = "load" => \A d \in Dumps : file = d.bytes => Reading(d)

-----------------------------------------------------------------------------
(* Every step of the reader keeps the invariant.                           *)

LEMMA StackStays ==
  ASSUME NEW d, NEW k, NEW r, OnStack(d, k, r), stack' = stack
  PROVE  OnStack(d, k, r)'
BY DEF OnStack, Plain

\* What is known of a dump that is read.
LEMMA FileFacts ==
  ASSUME NEW d \in Dumps, file = d.bytes
  PROVE  /\ file \in Seq(Byte) /\ Len(file) \in Nat /\ HeaderFound(file, d)
         /\ Len(d.protos) \in Nat
         /\ Starts(d) \in [0..Len(d.protos) -> Nat]
         /\ Starts(d)[0] = Len(MangledHeader(d)) /\ Starts(d)[0] \in Nat
         /\ Starts(d)[0] < Len(file)
         /\ Starts(d)[Len(d.protos)] + 1 = Len(file) /\ At(file, Starts(d)[Len(d.protos)]) = 0
<1>1. Len(d.protos) \in Nat
  BY DumpFacts
<1> QED
  BY <1>1, DumpRead

\* Where a prototype lies in a dump that is read.
LEMMA ProtoFacts ==
  ASSUME NEW d \in Dumps, file = d.bytes, NEW k \in 1..Len(d.protos)
  PROVE  LET t == d.protos[k]
             q == Starts(d)[k - 1]
             i == BodyAt(d, k)
         IN  /\ IsProto(t) /\ IsDebug(d.flags, d.dbg) /\ k \in Nat /\ k - 1 \in 0..Len(d.protos)
             /\ q \in Nat /\ At(file, q) # 0 /\ Uleb(file, q).v = Len(Body(d, k))
             /\ Uleb(file, q).to = i /\ i \in Nat /\ i <= q + UlebMax /\ q + 9 <= Len(file)
             /\ Len(Body(d, k)) \in Nat /\ Len(Body(d, k)) # 0
             /\ i + Len(Body(d, k)) = Starts(d)[k] /\ Starts(d)[k] < Len(file)
             /\ Starts(d)[k] \in Nat
             /\ Here(file, i, Body(d, k))
<1> DEFINE t == d.protos[k]
           q == Starts(d)[k - 1]
           x == MangledProto(t, d.flags, d.dbg)
           y == MangledBody(t, d.flags, d.dbg)
           m == Len(x) - Len(y)
           s == file
<1>1. IsProto(t) /\ IsDebug(d.flags, d.dbg) /\ Len(MangledBody(t, d.flags, d.dbg)) < Word
      /\ Len(d.protos) \in Nat
  BY DumpFacts
<1>2. Body(d, k) = y
  BY DEF Body
<1> HIDE DEF t
<1>3. /\ Len(x) \in Nat /\ Len(x) >= 8
      /\ Len(y) \in Nat /\ Len(y) # 0 /\ m \in 1..UlebMax /\ Len(x) = m + Len(y)
      /\ \A j \in Nat :
           Len(s) \in Nat /\ Here(s, j, x) =>
             /\ At(s, j) # 0 /\ Uleb(s, j).v = Len(y) /\ Uleb(s, j).to = j + m
             /\ Here(s, j + m, y) /\ j + m \in Nat
  <2>1. /\ Len(x) \in Nat /\ Len(x) >= 8
        /\ Len(y) \in Nat /\ Len(y) # 0 /\ m \in 1..UlebMax /\ Len(x) = m + Len(y)
    BY <1>1, ProtoRead
  <2>2. ASSUME NEW j \in Nat, Len(s) \in Nat, Here(s, j, x)
        PROVE  /\ At(s, j) # 0 /\ Uleb(s, j).v = Len(y) /\ Uleb(s, j).to = j + m
               /\ Here(s, j + m, y) /\ j + m \in Nat
    <3> HIDE DEF s
    <3> QED
      BY <1>1, <2>2, ProtoRead
  <2> QED
    BY <2>1, <2>2
<1>4. Bytes(d)[k] = x
  BY DEF Bytes, t
<1> HIDE DEF x, y
<1>5. /\ Starts(d)[k] = q + Len(x) /\ Here(s, q, x) /\ q \in Nat /\ Starts(d)[k] < Len(s)
      /\ Len(s) \in Nat
  BY <1>4, DumpRead
<1> HIDE DEF m, q, s
<1>6. /\ At(s, q) # 0 /\ Uleb(s, q).v = Len(y) /\ Uleb(s, q).to = q + m
      /\ Here(s, q + m, y) /\ q + m \in Nat
  BY <1>3, <1>5
<1>7. BodyAt(d, k) = q + m /\ Starts(d)[k] \in Nat /\ (q + m) + Len(y) = Starts(d)[k]
      /\ q + m <= q + UlebMax /\ q + 9 <= Len(s)
  <2>1. BodyAt(d, k) = Starts(d)[k] - Len(y)
    BY <1>2 DEF BodyAt
  <2>2. UlebMax \in Nat
    BY NumberAssumption
  <2> QED
    BY <1>3, <1>5, <2>1, <2>2
<1>8. k \in Nat /\ k - 1 \in 0..Len(d.protos)
  BY <1>1
<1> QED
  BY <1>1, <1>2, <1>3, <1>5, <1>6, <1>7, <1>8 DEF q, s, t

\* No prototype is there before the first.
LEMMA NoOrphans ==
  ASSUME NEW d \in Dumps
  PROVE  d.orphans[0] = <<>> /\ Len(d.orphans[0]) = 0
<1>1. d.orphans[0] = <<>>
  BY DumpAssumption DEF InPostOrder
<1> QED
  BY <1>1

LEMMA SetupStep ==
  ASSUME NEW d \in Dumps, file = d.bytes, Window, AtHeader(d), Setup
  PROVE  Window' /\ oldtop' = 1 /\ AtHeader(d)'
<1>1. stack = <<ChunkName>> /\ at = "setup"
  BY Zenon DEF Setup, AtHeader
<1>2. file \in Seq(Byte) /\ Len(file) \in Nat /\ HeaderFound(file, d) /\ chunk \in Chunks
  BY FileFacts DEF Window
<1>3. /\ Delivered(1) \in Nat /\ Delivered(1) <= Len(file)
      /\ Delivered(1) = Len(file) \/ Delivered(1) >= 4
  BY <1>2, DeliveredFits
<1>4. Len(file) >= 4 /\ file # <<>>
  <2>1. Len(MangledHeader(d)) >= 4 /\ Starts(d)[0] = Len(MangledHeader(d))
        /\ Starts(d)[0] \in Nat /\ Starts(d)[0] < Len(file)
    BY HeaderRead, FileFacts
  <2>2. Len(file) >= 4
    BY <1>2, <2>1
  <2> QED
    BY <1>2, <2>2, EmptySeq
<1>5. At(file, 0) = Magic[1] /\ SubSeq(file, 1, 4) = Magic /\ Magic[1] # Esc
  BY <1>2, MagicAssumption DEF HeaderFound
<1>6. at' = "want header" /\ p' = 1 /\ c' = 0 /\ pe' = Delivered(1)
      /\ UNCHANGED <<file, chunk, stack>> /\ oldtop' = Len(stack)
  BY <1>1, <1>2, <1>3, <1>4, <1>5, Zenon DEF Setup
<1>7. Window'
  <2>1. p' \in Nat /\ c' \in Int /\ ~(c' < 0)
    <3>1. p' = 1 /\ c' = 0
      BY <1>6, Zenon
    <3> QED
      BY <3>1
  <2>2. Len(file') \in Nat /\ chunk' \in Chunks /\ pe' \in Nat /\ pe' <= Len(file')
    BY <1>2, <1>3, <1>6, Zenon
  <2> QED
    BY <2>1, <2>2 DEF Window
<1>8. oldtop' = 1
  BY <1>1, <1>6, Zenon
<1>9. OnStack(d, 0, 0)'
  <2>1. stack' = <<ChunkName>>
    BY <1>1, <1>6, Zenon
  <2>2. Len(stack') = 1 + 0 /\ stack' = [i \in 1..(1 + 0) |-> stack'[i]] /\ 1..0 = {} /\ 0 \in Nat
    BY <2>1
  <2> QED
    BY <2>2 DEF OnStack
<1>10. AllOnStack(d, 0)'
  BY <1>9, NoOrphans DEF AllOnStack
<1>11. at' = "want header" /\ p' = 1 /\ c' >= 0
  <2>1. c' = 0 /\ at' = "want header" /\ p' = 1
    BY <1>6, Zenon
  <2>2. c' >= 0
    <3>1. c' = 0
      BY <2>1, Zenon
    <3> QED
      BY <3>1
  <2> QED
    BY <2>1, <2>2, Zenon
<1> QED
  BY <1>7, <1>8, <1>10, <1>11, Zenon DEF AtHeader

LEMMA WantHeaderStep ==
  ASSUME NEW d \in Dumps, file = d.bytes, Window, AtHeader(d), oldtop = 1, WantHeader
  PROVE  Window' /\ oldtop' = 1 /\ AtHeader(d)'
<1>1. at = "want header" /\ p = 1 /\ c >= 0 /\ AllOnStack(d, 0)
  BY Zenon DEF WantHeader, AtHeader
<1>2. /\ Request(HeaderWant, FALSE, 0, "header")
      /\ UNCHANGED <<file, chunk, stack, oldtop>>
  BY Zenon DEF WantHeader
<1>3. HeaderWant \in Nat /\ FALSE \in BOOLEAN
  BY NumberAssumption DEF HeaderWant
<1>4. /\ at' = "header" /\ p' = p + 0 /\ pe' \in Nat /\ c' \in Int
      /\ pe' <= Len(file) /\ (c' < 0 => pe' = Len(file))
      /\ p + HeaderWant <= pe' \/ pe' = Len(file)
  BY <1>1, <1>2, <1>3, RequestFits, Zenon
<1>7. p' = 1
  <2>1. p = 1 /\ p' = p + 0
    BY <1>1, <1>4, Zenon
  <2> QED
    BY <2>1
<1>5. Window'
  <2>1. p' \in Nat
    BY <1>7
  <2> QED
    BY <1>2, <1>4, <2>1 DEF Window
<1>6. AllOnStack(d, 0)'
  BY <1>1, <1>2, StackStays, Zenon DEF AllOnStack
<1>8. 1 + HeaderWant <= pe' \/ pe' = Len(file')
  <2>1. p = 1 /\ file' = file /\ (p + HeaderWant <= pe' \/ pe' = Len(file))
    BY <1>1, <1>2, <1>4, Zenon
  <2> QED
    BY <2>1
<1>9. at' = "header" /\ oldtop' = 1
  BY <1>2, <1>4
<1> QED
  BY <1>5, <1>6, <1>7, <1>8, <1>9, Zenon DEF AtHeader

LEMMA ReadHeaderStep ==
  ASSUME NEW d \in Dumps, file = d.bytes, Window, AtHeader(d), oldtop = 1, ReadHeader
  PROVE  Window' /\ oldtop' = 1 /\ AtHeader(d)'
<1>1. /\ at = "header" /\ p = 1 /\ AllOnStack(d, 0)
      /\ 1 + HeaderWant <= pe \/ pe = Len(file)
  BY DEF ReadHeader, AtHeader
<1>2. /\ HeaderFound(file, d) /\ Len(file) \in Nat /\ pe \in Nat
      /\ Starts(d)[0] = Len(MangledHeader(d)) /\ Starts(d)[0] < Len(file)
      /\ HeaderWant \in Nat /\ Starts(d)[0] \in Nat
  BY FileFacts, NumberAssumption DEF Window, HeaderWant
<1> DEFINE f == Uleb(file, 4)
           name == IF Has(f.v, F_STRIP) THEN [v |-> 0, to |-> f.to] ELSE Uleb(file, f.to)
<1>3. /\ Block(file, 1, 3).v = Tail(Magic) /\ f.v = d.flags /\ name.v \in Nat /\ name.to \in Nat
      /\ name.to <= 1 + HeaderWant /\ name.to + name.v = Starts(d)[0]
  BY <1>2 DEF HeaderFound
<1>4. f.v <= F_KNOWN
  BY <1>3, DumpAssumption DEF F_KNOWN, F_BE, F_STRIP, F_FFI
<1>5. p + 3 = 4
  BY <1>1
<1>6. /\ IF Block(file, p, 3).v = Tail(Magic) /\ f.v <= F_KNOWN
           THEN Goto(name.to, "refused", "name") /\ flags' = f.v /\ n' = name.v
           ELSE at' = "refused" /\ UNCHANGED <<p, flags, n>>
      /\ UNCHANGED <<file, chunk, pe, c, stack, oldtop>>
  BY <1>5 DEF ReadHeader
<1> HIDE DEF f, name
<1>7. Goto(name.to, "refused", "name") /\ flags' = f.v /\ n' = name.v
  BY <1>1, <1>3, <1>4, <1>6
<1>8. ~(name.to > pe)
  BY <1>1, <1>2, <1>3
<1>9. p' = name.to /\ at' = "name"
  BY <1>7, <1>8 DEF Goto
<1>10. Window'
  BY <1>3, <1>6, <1>9 DEF Window
<1>11. AllOnStack(d, 0)'
  BY <1>1, <1>6, StackStays DEF AllOnStack
<1> QED
  BY <1>3, <1>6, <1>7, <1>9, <1>10, <1>11, Zenon DEF AtHeader

LEMMA SkipNameStep ==
  ASSUME NEW d \in Dumps, file = d.bytes, Window, AtHeader(d), oldtop = 1, SkipName
  PROVE  Window' /\ oldtop' = 1 /\ Between(d, 0)'
<1>1. at = "name" /\ AllOnStack(d, 0) /\ flags = d.flags /\ n \in Nat /\ p + n = Starts(d)[0]
  BY DEF SkipName, AtHeader
<1>2. /\ Request(n, TRUE, n, "protos")
      /\ UNCHANGED <<file, chunk, flags, stack, oldtop>>
  BY DEF SkipName
<1>3. p + n <= Len(file) /\ TRUE \in BOOLEAN
  BY <1>1, FileFacts
<1>4. /\ at' = "protos" /\ p' = p + n /\ pe' \in Nat /\ c' \in Int
      /\ pe' <= Len(file) /\ (c' < 0 => pe' = Len(file))
  BY <1>1, <1>2, <1>3, RequestFits
<1>5. Window'
  BY <1>1, <1>2, <1>4 DEF Window
<1>6. AllOnStack(d, 0)'
  BY <1>1, <1>2, StackStays DEF AllOnStack
<1> QED
  BY <1>1, <1>2, <1>4, <1>5, <1>6 DEF Between

\* After all prototypes there is a zero byte, and nothing else is one.
LEMMA EndIs ==
  ASSUME NEW d \in Dumps, file = d.bytes, NEW k \in 0..Len(d.protos), p = Starts(d)[k]
  PROVE  /\ k = Len(d.protos) => p + 1 = Len(file) /\ At(file, p) = 0
         /\ k # Len(d.protos) => /\ k + 1 \in 1..Len(d.protos) /\ (k + 1) - 1 = k
                                 /\ At(file, p) # 0 /\ p + 9 <= Len(file)
<1>1. CASE k = Len(d.protos)
  BY <1>1, FileFacts
<1>2. CASE k # Len(d.protos)
  <2>1. Len(d.protos) \in Nat
    BY DumpFacts
  <2>2. k + 1 \in 1..Len(d.protos) /\ (k + 1) - 1 = k
    BY <1>2, <2>1
  <2> DEFINE l == k + 1
  <2> HIDE DEF l
  <2>3. l \in 1..Len(d.protos) /\ l - 1 = k
    BY <2>2 DEF l
  <2>4. At(file, Starts(d)[l - 1]) # 0 /\ Starts(d)[l - 1] + 9 <= Len(file)
    BY <2>3, ProtoFacts
  <2> QED
    BY <1>2, <2>2, <2>3, <2>4
<1> QED
  BY <1>1, <1>2

LEMMA EndMarkStep ==
  ASSUME NEW d \in Dumps, file = d.bytes, Window, oldtop = 1,
         NEW k \in 0..Len(d.protos), Between(d, k), EndMark
  PROVE  Window' /\ oldtop' = 1 /\ at' = "finish" /\ AllOnStack(d, Len(d.protos))'
<1>1. AllOnStack(d, k) /\ p = Starts(d)[k]
  BY DEF Between
<1>2. /\ p < pe /\ At(file, p) = 0 /\ p' = p + 1
      /\ at' = IF pe > p + 1 THEN "refused" ELSE "finish"
      /\ UNCHANGED <<file, chunk, pe, c, stack, oldtop>>
  BY DEF EndMark, AtEndMark
<1>3. k = Len(d.protos) /\ p + 1 = Len(file)
  BY <1>1, <1>2, EndIs
<1>4. pe <= Len(file) /\ pe \in Nat /\ p \in Nat
  BY DEF Window
<1>5. ~(pe > p + 1) /\ p + 1 \in Nat
  BY <1>3, <1>4
<1>6. at' = "finish"
  BY <1>2, <1>5
<1>7. Window'
  BY <1>2, <1>5 DEF Window
<1>8. AllOnStack(d, k)'
  BY <1>1, <1>2, StackStays DEF AllOnStack
<1>9. oldtop' = 1
  BY <1>2
<1> QED
  BY <1>3, <1>6, <1>7, <1>8, <1>9

LEMMA WantLengthStep ==
  ASSUME NEW d \in Dumps, file = d.bytes, Window, oldtop = 1,
         NEW k \in 0..Len(d.protos), Between(d, k), WantLength
  PROVE  Window' /\ oldtop' = 1 /\ Between(d, k)'
<1>1. flags = d.flags /\ AllOnStack(d, k) /\ p = Starts(d)[k]
  BY DEF Between
<1>2. /\ ~(p < pe /\ At(file, p) = 0) /\ Request(UlebMax, FALSE, 0, "length")
      /\ UNCHANGED <<file, chunk, flags, stack, oldtop>>
  BY DEF WantLength, AtEndMark
<1>3. /\ UlebMax \in Nat /\ UlebMax <= 8 /\ FALSE \in BOOLEAN
      /\ Len(file) \in Nat /\ pe \in Nat /\ p \in Nat /\ c \in Int /\ (c < 0 => pe = Len(file))
  BY NumberAssumption DEF Window
<1>4. p + UlebMax <= Len(file) \/ (~FALSE /\ c >= 0)
  <2>1. CASE k = Len(d.protos)
    <3>1. p + 1 = Len(file) /\ At(file, p) = 0
      BY <1>1, <2>1, EndIs
    <3>2. ~(p < pe)
      BY <1>2, <3>1
    <3> QED
      BY <1>3, <3>1, <3>2
  <2>2. CASE k # Len(d.protos)
    <3>1. p + 9 <= Len(file)
      BY <1>1, <2>2, EndIs
    <3> QED
      BY <1>3, <3>1
  <2> QED
    BY <2>1, <2>2
<1>5. /\ at' = "length" /\ p' = p + 0 /\ pe' \in Nat /\ c' \in Int
      /\ pe' <= Len(file) /\ (c' < 0 => pe' = Len(file))
      /\ p + UlebMax <= pe' \/ pe' = Len(file)
  BY <1>2, <1>3, <1>4, RequestFits
<1>6. p' = p
  <2>1. p' = p + 0 /\ p \in Nat
    BY <1>3, <1>5
  <2> QED
    BY <2>1
<1>7. Window'
  BY <1>2, <1>5, <1>6 DEF Window
<1>8. AllOnStack(d, k)'
  BY <1>1, <1>2, StackStays DEF AllOnStack
<1>9. oldtop' = 1 /\ at' = "length" /\ flags' = d.flags /\ p' = Starts(d)[k]
  BY <1>1, <1>2, <1>5, <1>6
<1>10. p' + UlebMax <= pe' \/ pe' = Len(file')
  BY <1>2, <1>5, <1>6
<1> QED
  BY <1>7, <1>8, <1>9, <1>10, Zenon DEF Between

LEMMA ReadLengthStep ==
  ASSUME NEW d \in Dumps, file = d.bytes, Window, oldtop = 1,
         NEW k \in 0..Len(d.protos), Between(d, k), ReadLength
  PROVE  /\ Window' /\ oldtop' = 1
         /\ \/ at' = "finish" /\ AllOnStack(d, Len(d.protos))'
            \/ \E l \in 1..Len(d.protos) : \E j \in 0..Len(d.protos[l].kgc) : Within(d, l, j)'
<1>1. /\ flags = d.flags /\ AllOnStack(d, k) /\ p = Starts(d)[k]
      /\ p + UlebMax <= pe \/ pe = Len(file)
  BY DEF Between, ReadLength
<1> DEFINE len == Uleb(file, p)
<1>2. /\ n' = len.v
      /\ IF len.v = 0 THEN p' = len.to /\ at' = IF pe = len.to THEN "finish" ELSE "refused"
         ELSE Goto(len.to, "refused", "need")
      /\ UNCHANGED <<file, chunk, pe, c, flags, stack, oldtop>>
  BY DEF ReadLength
<1>3. /\ UlebMax \in Nat /\ UlebMax >= 2 /\ p \in Nat /\ pe \in Nat /\ Len(file) \in Nat
  BY NumberAssumption DEF Window
<1>4. AllOnStack(d, k)'
  BY <1>1, <1>2, StackStays DEF AllOnStack
<1>5. oldtop' = 1
  BY <1>2
<1>6. CASE k = Len(d.protos)
  <2>1. p + 1 = Len(file) /\ At(file, p) = 0
    BY <1>1, <1>6, EndIs
  <2>2. len.v = 0 /\ len.to = p + 1
    <3>1. Here(file, p, <<0>>)
      <4>1. Len(<<0>>) = 1 /\ file[p + 1] = 0
        BY <1>3, <2>1 DEF At
      <4> DEFINE y == <<0>>
      <4>2. y[1] = 0 /\ Len(y) = 1
        OBVIOUS
      <4> HIDE DEF y
      <4>3. Here(file, p, y)
        BY <1>3, <2>1, <4>1, <4>2 DEF Here
      <4> QED
        BY <4>3 DEF y
    <3>2. 0 \in Nat /\ 0 < Word /\ 0 < 2 * Word
      BY WordType
    <3>3. UlebBytes(0) = <<0>>
      BY <3>2, UlebBytesType
    <3>4. Here(file, p, UlebBytes(0))
      BY <3>1, <3>3
    <3>5. len.v = 0 /\ len.to = p + Len(UlebBytes(0))
      BY <1>3, <3>2, <3>4, UlebRead
    <3>6. Len(UlebBytes(0)) = 1
      BY <3>3
    <3> HIDE DEF len
    <3> QED
      BY <3>5, <3>6
  <2> HIDE DEF len
  <2>3. pe = len.to
    <3>1. len.to = Len(file)
      BY <2>1, <2>2
    <3>2. pe <= Len(file) /\ (p + UlebMax <= pe \/ pe = Len(file))
      BY <1>1 DEF Window
    <3>3. pe = Len(file)
      BY <1>3, <2>1, <3>2
    <3> QED
      BY <3>1, <3>3
  <2>4. p' = len.to /\ at' = "finish"
    BY <1>2, <2>2, <2>3
  <2>5. p' \in Nat
    BY <1>3, <2>2, <2>4
  <2>6. Window'
    BY <1>2, <2>5 DEF Window
  <2> QED
    BY <1>4, <1>5, <1>6, <2>4, <2>6
<1>7. CASE k # Len(d.protos)
  <2> DEFINE l == k + 1
             t == d.protos[l]
             i == BodyAt(d, l)
  <2>1. l \in 1..Len(d.protos) /\ l - 1 = k
    BY <1>1, <1>7, EndIs
  <2> HIDE DEF l
  <2>2. /\ len.v = Len(Body(d, l)) /\ len.to = i /\ i \in Nat /\ i <= p + UlebMax
        /\ p + 9 <= Len(file) /\ Len(Body(d, l)) # 0 /\ IsProto(t) /\ UlebMax <= 8
    <3>1. /\ IsProto(d.protos[l])
          /\ Uleb(file, Starts(d)[l - 1]).v = Len(Body(d, l))
          /\ Uleb(file, Starts(d)[l - 1]).to = BodyAt(d, l) /\ BodyAt(d, l) \in Nat
          /\ BodyAt(d, l) <= Starts(d)[l - 1] + UlebMax /\ Starts(d)[l - 1] + 9 <= Len(file)
          /\ Len(Body(d, l)) # 0
      BY <2>1, ProtoFacts
    <3>2. Starts(d)[l - 1] = p
      BY <1>1, <2>1
    <3>3. UlebMax <= 8
      BY NumberAssumption
    <3> QED
      BY <3>1, <3>2, <3>3
  <2> HIDE DEF len, i, t
  <2>3. ~(len.to > pe)
    BY SMTT(20), <1>1, <1>3, <2>2
  <2>4. p' = i /\ at' = "need" /\ n' = Len(Body(d, l))
    BY <1>2, <2>2, <2>3 DEF Goto
  <2>5. Window'
    BY <1>2, <2>2, <2>4 DEF Window
  <2>6. Children(t, 0) = 0 /\ Len(t.kgc) \in Nat /\ 0 \in 0..Len(t.kgc)
    <3>1. Len(t.kgc) \in Nat
      BY <2>2 DEF IsProto
    <3> QED
      BY <3>1, ChildrenCount
  <2>7. OnStack(d, l - 1, Len(d.orphans[l - 1]) - Children(t, 0))'
    <3>1. OnStack(d, k, Len(d.orphans[k]))' /\ Len(d.orphans[k]) \in Nat
      BY <1>4 DEF AllOnStack, OnStack
    <3>2. Len(d.orphans[k]) - Children(t, 0) = Len(d.orphans[k])
      BY <2>6, <3>1
    <3> QED
      BY <2>1, <3>1, <3>2
  <2>8. Within(d, l, 0)'
    <3>1. flags' = d.flags
      BY <1>1, <1>2
    <3> QED
      BY <2>4, <2>7, <3>1, Zenon DEF Within, t, i
  <2> QED
    BY <1>5, <2>1, <2>5, <2>6, <2>8 DEF t
<1> QED
  BY <1>6, <1>7

LEMMA NeedProtoStep ==
  ASSUME NEW d \in Dumps, file = d.bytes, Window, oldtop = 1,
         NEW k \in 1..Len(d.protos), NEW j \in 0..Len(d.protos[k].kgc), Within(d, k, j), NeedProto
  PROVE  Window' /\ oldtop' = 1 /\ Within(d, k, j)'
<1> DEFINE t == d.protos[k]
           i == BodyAt(d, k)
           r == Len(d.orphans[k - 1]) - Children(t, j)
<1>1. at = "need" /\ flags = d.flags /\ OnStack(d, k - 1, r) /\ j = 0 /\ p = i /\ n = Len(Body(d, k))
  BY DEF Within, NeedProto
<1>2. /\ Request(n, TRUE, 0, "proto") /\ limit' = p + n
      /\ UNCHANGED <<file, chunk, flags, n, stack, oldtop>>
  BY DEF NeedProto
<1>3. /\ n \in Nat /\ p + n = Starts(d)[k] /\ p + n <= Len(file) /\ TRUE \in BOOLEAN /\ p \in Nat
  BY <1>1, ProtoFacts, FileFacts
<1>4. /\ at' = "proto" /\ p' = p + 0 /\ pe' \in Nat /\ c' \in Int
      /\ pe' <= Len(file) /\ (c' < 0 => pe' = Len(file))
      /\ p + n <= pe' \/ pe' = Len(file)
  BY <1>2, <1>3, RequestFits
<1>5. p' = p
  <2>1. p' = p + 0 /\ p \in Nat
    BY <1>3, <1>4
  <2> QED
    BY <2>1
<1>6. Window'
  <2>1. p' \in Nat
    BY <1>3, <1>5
  <2> QED
    BY <1>2, <1>4, <2>1 DEF Window
<1> HIDE DEF r
<1>7. OnStack(d, k - 1, r)'
  BY <1>1, <1>2, StackStays
<1>8. limit' = Starts(d)[k] /\ limit' <= pe'
  <2>1. limit' = p + n
    BY <1>2
  <2>2. p + n <= pe'
    BY <1>3, <1>4
  <2> QED
    BY <1>3, <2>1, <2>2
<1>9. flags' = d.flags /\ p' = i /\ at' = "proto" /\ j = 0 /\ oldtop' = 1
  BY <1>1, <1>2, <1>4, <1>5
<1> QED
  BY <1>6, <1>7, <1>8, <1>9, Zenon DEF Within, r

\* The references to upvalues and the code as they lie in a dump, and opened.
SealedAs(t, fl, uv, bc) ==
  /\ uv = [k \in 1..Len(t.uv) |-> InOrder(fl, t.uv[k])]
  /\ bc = [k \in 1..Len(t.code) |-> InOrder(fl, SealIns(t.code[k], k - 1))]
OpenedAs(t, uv, bc) ==
  /\ [k \in DOMAIN uv |-> uv[k]] = t.uv
  /\ [k \in DOMAIN bc |-> OpenIns(bc[k], k - 1)] = t.code

LEMMA SeqSelf ==
  ASSUME NEW S, NEW x \in Seq(S)
  PROVE  x = [k \in 1..Len(x) |-> x[k]]
<1>1. x \in [1..Len(x) -> S]
  OBVIOUS
<1> QED
  BY <1>1

LEMMA OpenedProto ==
  ASSUME NEW t, IsProto(t), NEW fl, ~Has(fl, F_BE),
         NEW uv, NEW bc, SealedAs(t, fl, uv, bc)
  PROVE  OpenedAs(t, uv, bc)
<1> DEFINE S == (0..(Modulus - 1)) \X Byte \X Byte \X Byte
<1>1. t.uv \in Seq(Byte \X Byte) /\ t.code \in Seq(S)
  BY DEF IsProto
<1>2. [k \in DOMAIN uv |-> uv[k]] = t.uv
  <2>1. uv = [k \in 1..Len(t.uv) |-> t.uv[k]]
    BY DEF InOrder, SealedAs
  <2>2. t.uv = [k \in 1..Len(t.uv) |-> t.uv[k]]
    BY <1>1, SeqSelf
  <2> QED
    BY <2>1, <2>2
<1>3. bc = [k \in 1..Len(t.code) |-> SealIns(t.code[k], k - 1)]
  BY DEF InOrder, SealedAs
<1>4. ASSUME NEW k \in 1..Len(t.code)
      PROVE  OpenIns(SealIns(t.code[k], k - 1), k - 1) = t.code[k]
  <2>1. k - 1 \in Nat /\ t.code[k] \in S
    BY <1>1
  <2> QED
    BY <2>1, OpenSealedIns
<1>5. DOMAIN bc = 1..Len(t.code)
  BY <1>3
<1>6. \A k \in 1..Len(t.code) : OpenIns(bc[k], k - 1) = t.code[k]
  BY <1>3, <1>4
<1>7. [k \in DOMAIN bc |-> OpenIns(bc[k], k - 1)] = [k \in 1..Len(t.code) |-> t.code[k]]
  BY <1>5, <1>6
<1>8. t.code = [k \in 1..Len(t.code) |-> t.code[k]]
  BY <1>1, SeqSelf
<1> QED
  BY <1>2, <1>7, <1>8 DEF OpenedAs

\* Where the parts of a prototype lie that is read.
LEMMA PartFacts ==
  ASSUME NEW d \in Dumps, file = d.bytes, NEW k \in 1..Len(d.protos)
  PROVE  LET t == d.protos[k]
             i == BodyAt(d, k)
         IN  /\ IsProto(t) /\ i \in Nat /\ BodyLies(file, i, t, d.flags, d.dbg)
             /\ IsDebug(d.flags, d.dbg)
             /\ AtUvs(i, t, d.flags, d.dbg) \in Nat /\ AtCode(i, t, d.flags, d.dbg) \in Nat
             /\ AtNumbers(i, t, d.flags, d.dbg) <= AtConstants(i, t, d.flags, d.dbg)
             /\ AtNumbers(i, t, d.flags, d.dbg) \in Nat /\ AtConstants(i, t, d.flags, d.dbg) \in Nat
             /\ AtDebug(i, t, d.flags, d.dbg) \in Nat /\ d.dbg \in Nat
             /\ AtConstants(i, t, d.flags, d.dbg) <= AtDebug(i, t, d.flags, d.dbg)
             /\ AtDebug(i, t, d.flags, d.dbg) + d.dbg = Starts(d)[k]
             /\ Starts(d)[k] \in Nat /\ Len(file) \in Nat
<1> DEFINE t == d.protos[k]
           i == BodyAt(d, k)
<1>1. /\ IsProto(t) /\ IsDebug(d.flags, d.dbg) /\ i \in Nat /\ Len(file) \in Nat
      /\ Here(file, i, MangledBody(t, d.flags, d.dbg))
      /\ i + Len(MangledBody(t, d.flags, d.dbg)) = Starts(d)[k] /\ Starts(d)[k] \in Nat
  BY ProtoFacts, FileFacts DEF Body
<1> HIDE DEF t, i
<1>2. /\ BodyLies(file, i, t, d.flags, d.dbg)
      /\ AtUvs(i, t, d.flags, d.dbg) \in Nat /\ AtCode(i, t, d.flags, d.dbg) \in Nat
      /\ AtNumbers(i, t, d.flags, d.dbg) <= AtConstants(i, t, d.flags, d.dbg)
      /\ AtNumbers(i, t, d.flags, d.dbg) \in Nat /\ AtConstants(i, t, d.flags, d.dbg) \in Nat
      /\ AtDebug(i, t, d.flags, d.dbg) \in Nat
      /\ AtDebug(i, t, d.flags, d.dbg) + d.dbg = i + Len(MangledBody(t, d.flags, d.dbg))
      /\ AtConstants(i, t, d.flags, d.dbg) <= AtDebug(i, t, d.flags, d.dbg)
  BY <1>1, BodyRead
<1>3. d.dbg \in Nat
  <2>1. d.dbg \in 0..(Word - 1) /\ Word \in Nat
    BY <1>1, WordType DEF IsDebug
  <2> QED
    BY <2>1
<1> QED
  BY <1>1, <1>2, <1>3 DEF t, i

LEMMA ReadProtoStep ==
  ASSUME NEW d \in Dumps, file = d.bytes, Window, oldtop = 1,
         NEW k \in 1..Len(d.protos), NEW j \in 0..Len(d.protos[k].kgc), Within(d, k, j), ReadProto
  PROVE  Window' /\ oldtop' = 1 /\ Within(d, k, j)'
<1> DEFINE t == d.protos[k]
           i == BodyAt(d, k)
           r == Len(d.orphans[k - 1]) - Children(t, j)
           key == BitXor(At(file, p), Mask)
           numbc == Uleb(file, p + 3)
           numkn == Uleb(file, numbc.to)
           numkgc == Uleb(file, numkn.to + 1)
           dbg == IF Has(flags, F_STRIP) THEN [v |-> 0, to |-> numkgc.to]
                  ELSE Uleb(file, numkgc.to)
           line == IF dbg.v = 0 THEN dbg ELSE Uleb(file, Uleb(file, dbg.to).to)
           uv == List(UvItems(file), line.to, BitXor(At(file, numkn.to), key))
           bc == List(InsItems(file), uv.to, numbc.v - key)
<1>1. /\ at = "proto" /\ flags = d.flags /\ OnStack(d, k - 1, r) /\ j = 0 /\ p = i
      /\ limit = Starts(d)[k] /\ limit <= pe
  BY Zenon DEF Within, ReadProto
<1>2. /\ IF key > numbc.v \/ key > numkn.v \/ key > numkgc.v
           THEN at' = "wild" /\ UNCHANGED <<p, pt, n>>
           ELSE /\ Goto(bc.to, "wild", "knum")
                /\ pt' = [flags |-> BitXor(At(file, p + 1), key),
                          numparams |-> BitXor(At(file, p + 2), key),
                          framesize |-> key,
                          uv |-> [q \in DOMAIN uv.v |->
                             IF Has(flags, F_BE) THEN Reverse(uv.v[q]) ELSE uv.v[q]],
                          code |-> [q \in DOMAIN bc.v |->
                             OpenIns(IF Has(flags, F_BE) THEN ByteSwap(bc.v[q]) ELSE bc.v[q],
                                     q - 1)],
                          knum |-> <<>>, kgc |-> <<>>,
                          numkn |-> numkn.v - key, sizedbg |-> dbg.v]
                /\ n' = numkgc.v - key
      /\ UNCHANGED <<file, chunk, pe, c, flags, limit, stack, oldtop>>
  BY Zenon DEF ReadProto, UvItems, InsItems
<1>3. /\ IsProto(t) /\ IsDebug(d.flags, d.dbg) /\ i \in Nat /\ Len(file) \in Nat
      /\ BodyLies(file, i, t, d.flags, d.dbg)
  BY PartFacts
<1>4. /\ AtUvs(i, t, d.flags, d.dbg) \in Nat /\ AtCode(i, t, d.flags, d.dbg) \in Nat
      /\ AtNumbers(i, t, d.flags, d.dbg) \in Nat /\ AtConstants(i, t, d.flags, d.dbg) \in Nat
      /\ AtDebug(i, t, d.flags, d.dbg) \in Nat /\ d.dbg \in Nat /\ Starts(d)[k] \in Nat
      /\ AtDebug(i, t, d.flags, d.dbg) + d.dbg = Starts(d)[k]
      /\ AtNumbers(i, t, d.flags, d.dbg) <= AtConstants(i, t, d.flags, d.dbg)
      /\ AtConstants(i, t, d.flags, d.dbg) <= AtDebug(i, t, d.flags, d.dbg)
  BY PartFacts
<1> HIDE DEF i
<1>5. SizesFound(file, i, t, d.flags, d.dbg, AtUvs(i, t, d.flags, d.dbg))
  <2>1. Here(file, i, MangledSizes(t, d.flags, d.dbg))
    BY <1>3 DEF BodyLies
  <2> HIDE DEF t
  <2> QED
    BY <1>3, <2>1, SizesRead DEF AtUvs
<1>6. /\ key = t.framesize /\ BitXor(At(file, p + 1), key) = t.flags
      /\ BitXor(At(file, p + 2), key) = t.numparams
      /\ numbc.v = Len(t.code) + key /\ numkn.v = Len(t.knum) + key
      /\ BitXor(At(file, numkn.to), key) = Len(t.uv) /\ numkgc.v = Len(t.kgc) + key
      /\ dbg.v = d.dbg /\ line.to = AtUvs(i, t, d.flags, d.dbg)
  BY <1>1, <1>5, Zenon DEF SizesFound
<1>7. /\ key \in Nat /\ Len(t.code) \in Nat /\ Len(t.knum) \in Nat /\ Len(t.kgc) \in Nat
  <2>1. /\ t.code \in Seq((0..(Modulus - 1)) \X Byte \X Byte \X Byte)
        /\ t.knum \in Seq(Range(t.knum)) /\ t.kgc \in Seq(Range(t.kgc)) /\ t.framesize \in Byte
    <3> HIDE DEF t
    <3> QED
      BY <1>3 DEF IsProto
  <2>2. key \in Byte
    BY <1>6, <2>1
  <2> HIDE DEF key, t
  <2>3. key \in Nat
    BY <2>2 DEF Byte
  <2> QED
    BY <2>1, <2>3, SMTT(30)
<1> DEFINE uvs == List(UvItems(file), AtUvs(i, t, d.flags, d.dbg), Len(t.uv))
           ins == List(InsItems(file), AtCode(i, t, d.flags, d.dbg), Len(t.code))
<1>8. /\ uvs.v = [q \in 1..Len(t.uv) |-> InOrder(d.flags, t.uv[q])]
      /\ uvs.to = AtCode(i, t, d.flags, d.dbg)
  <2>1. Here(file, AtUvs(i, t, d.flags, d.dbg), MangledUvs(t, d.flags))
    BY <1>3 DEF BodyLies
  <2> DEFINE x == AtUvs(i, t, d.flags, d.dbg)
  <2> HIDE DEF t, x
  <2>2. /\ List(UvItems(file), x, Len(t.uv)).v = [q \in 1..Len(t.uv) |-> InOrder(d.flags, t.uv[q])]
        /\ List(UvItems(file), x, Len(t.uv)).to = x + Len(MangledUvs(t, d.flags))
    BY SMTT(20), <1>3, <1>4, <2>1, UvsRead DEF x
  <2> QED
    BY <2>2 DEF x, AtCode
<1>9. /\ ins.v = [q \in 1..Len(t.code) |-> InOrder(d.flags, SealIns(t.code[q], q - 1))]
      /\ ins.to = AtNumbers(i, t, d.flags, d.dbg)
  <2>1. Here(file, AtCode(i, t, d.flags, d.dbg), MangledCode(t, d.flags))
    BY <1>3 DEF BodyLies
  <2> DEFINE x == AtCode(i, t, d.flags, d.dbg)
  <2> HIDE DEF t, x
  <2>2. /\ List(InsItems(file), x, Len(t.code)).v =
             [q \in 1..Len(t.code) |-> InOrder(d.flags, SealIns(t.code[q], q - 1))]
        /\ List(InsItems(file), x, Len(t.code)).to = x + Len(MangledCode(t, d.flags))
    BY SMTT(20), <1>3, <1>4, <2>1, CodeRead DEF x
  <2> QED
    BY <2>2 DEF x, AtNumbers
<1> HIDE DEF key, numbc, numkn, numkgc, dbg, line
<1>10. numbc.v - key = Len(t.code) /\ numkn.v - key = Len(t.knum) /\ numkgc.v - key = Len(t.kgc)
       /\ ~(key > numbc.v \/ key > numkn.v \/ key > numkgc.v)
  <2>1. /\ numbc.v = Len(t.code) + key /\ numkn.v = Len(t.knum) + key
        /\ numkgc.v = Len(t.kgc) + key
    BY <1>6
  <2> HIDE DEF t, uv, bc, uvs, ins
  <2> QED
    BY SMTT(20), <1>7, <2>1
<1>11. uv = uvs /\ bc = ins
  <2>1. uv = uvs
    BY <1>6
  <2> QED
    BY <1>8, <1>10, <2>1
<1> HIDE DEF uv, bc, uvs, ins
<1>12. /\ bc.to = AtNumbers(i, t, d.flags, d.dbg) /\ bc.to \in Nat /\ ~(bc.to > pe)
  <2>1. bc.to <= limit
    BY <1>1, <1>4, <1>9, <1>11
  <2>2. pe \in Nat
    BY DEF Window
  <2>3. bc.to = AtNumbers(i, t, d.flags, d.dbg) /\ bc.to \in Nat /\ limit \in Nat
    BY <1>1, <1>4, <1>9, <1>11, ProtoFacts
  <2> QED
    BY <1>1, <2>1, <2>2, <2>3
<1>13. Goto(bc.to, "wild", "knum") /\ n' = Len(t.kgc)
  BY <1>2, <1>10
<1>14. p' = AtNumbers(i, t, d.flags, d.dbg) /\ at' = "knum"
  BY <1>12, <1>13 DEF Goto
<1>15. Window'
  <2>1. p' \in Nat
    BY <1>4, <1>14
  <2> QED
    BY <1>2, <2>1 DEF Window
<1>16. OnStack(d, k - 1, r)'
  <2> HIDE DEF r
  <2> QED
    BY <1>1, <1>2, StackStays
<1>17. Begun(d, k)' /\ pt'.kgc = <<>>
  <2> DEFINE u == [q \in DOMAIN uv.v |->
                     IF Has(flags, F_BE) THEN Reverse(uv.v[q]) ELSE uv.v[q]]
             e == [q \in DOMAIN bc.v |->
                     OpenIns(IF Has(flags, F_BE) THEN ByteSwap(bc.v[q]) ELSE bc.v[q], q - 1)]
  <2>1. pt' = [flags |-> t.flags, numparams |-> t.numparams, framesize |-> t.framesize,
               uv |-> u, code |-> e, knum |-> <<>>, kgc |-> <<>>,
               numkn |-> Len(t.knum), sizedbg |-> d.dbg]
    BY <1>2, <1>6, <1>10
  <2>2. Plain(d) => u = t.uv /\ e = t.code
    <3>1. SUFFICES ASSUME ~Has(d.flags, F_BE) PROVE u = t.uv /\ e = t.code
      BY DEF Plain
    <3>2. u = [q \in DOMAIN uv.v |-> uv.v[q]] /\ e = [q \in DOMAIN bc.v |-> OpenIns(bc.v[q], q - 1)]
      BY <1>1, <3>1
    <3> HIDE DEF u, e
    <3>3. /\ uv.v = [q \in 1..Len(t.uv) |-> InOrder(d.flags, t.uv[q])]
          /\ bc.v = [q \in 1..Len(t.code) |-> InOrder(d.flags, SealIns(t.code[q], q - 1))]
      BY <1>8, <1>9, <1>11
    <3> DEFINE uvv == uv.v
               bcv == bc.v
    <3> HIDE DEF t, uvv, bcv
    <3>4. OpenedAs(t, uvv, bcv)
      <4>1. SealedAs(t, d.flags, uvv, bcv)
        BY <3>3 DEF uvv, bcv, SealedAs
      <4> QED
        BY <1>3, <3>1, <4>1, OpenedProto
    <3> QED
      BY <3>2, <3>4 DEF uvv, bcv, OpenedAs
  <2> HIDE DEF u, e
  <2>3. pt' = Shape(pt')
    BY <2>1 DEF Shape
  <2>4. pt'.numkn = Len(t.knum) /\ pt'.sizedbg = d.dbg /\ pt'.kgc = <<>> /\ pt'.uv = u
        /\ pt'.code = e /\ pt'.flags = t.flags /\ pt'.numparams = t.numparams
        /\ pt'.framesize = t.framesize
    BY <2>1
  <2>5. Begun(d, k)'
    BY <2>2, <2>3, <2>4 DEF Begun, Plain
  <2> QED
    BY <2>4, <2>5
<1>18. flags' = d.flags /\ limit' = Starts(d)[k] /\ limit' <= pe' /\ oldtop' = 1
  BY <1>1, <1>2
<1> QED
  <2>1. p' = AtNumbers(BodyAt(d, k), t, d.flags, d.dbg)
    BY <1>14 DEF i
  <2> QED
    BY <1>1, <1>13, <1>14, <1>15, <1>16, <1>17, <1>18, <2>1, Zenon DEF Within, r

\* Where its constants lie.
LEMMA ConstantFacts ==
  ASSUME NEW d \in Dumps, file = d.bytes, NEW k \in 1..Len(d.protos)
  PROVE  LET t == d.protos[k]
             m == Len(t.kgc)
             pos == ConstantPlaces(d, k)
         IN  /\ m \in Nat /\ pos \in [0..m -> Nat]
             /\ pos[0] = AtConstants(BodyAt(d, k), t, d.flags, d.dbg)
             /\ pos[m] + d.dbg = Starts(d)[k]
             /\ \A j \in 0..m : pos[j] <= Starts(d)[k]
             /\ \A j \in 1..m : IsConstant(t.kgc[j]) /\ Found(file, pos[j - 1], t.kgc[j], pos[j])
<1> DEFINE t == d.protos[k]
           m == Len(t.kgc)
           i == AtConstants(BodyAt(d, k), t, d.flags, d.dbg)
           ss == [j \in 1..m |-> MangledConstant(t.kgc[j])]
           pos == ConstantPlaces(d, k)
           z == AtDebug(BodyAt(d, k), t, d.flags, d.dbg)
<1>1. /\ IsProto(t) /\ i \in Nat /\ z \in Nat /\ d.dbg \in Nat /\ z + d.dbg = Starts(d)[k]
      /\ Starts(d)[k] \in Nat /\ Len(file) \in Nat
      /\ BodyLies(file, BodyAt(d, k), t, d.flags, d.dbg)
  BY PartFacts
<1>2. Here(file, i, MangledConstants(t)) /\ z = i + Len(MangledConstants(t))
  BY <1>1 DEF BodyLies, AtDebug
<1>3. pos = Places(i, ss)
  BY DEF ConstantPlaces
<1> HIDE DEF t, z, i, pos
<1>4. /\ MangledConstants(t) = FlattenSeq(ss) /\ ss \in Seq(Seq(Byte)) /\ Len(ss) = m /\ m \in Nat
      /\ \A j \in 1..m : IsConstant(t.kgc[j])
  BY <1>1, ConstantsRead
<1>5. \A j \in 1..m : ss[j] = MangledConstant(t.kgc[j])
  OBVIOUS
<1> HIDE DEF ss, m
<1>6. Len(ss) \in Nat /\ \A j \in 1..Len(ss) : Len(ss[j]) \in Nat
  BY <1>4
<1>7. /\ pos \in [0..m -> Nat] /\ pos[0] = i
      /\ \A j \in 1..m : pos[j] = pos[j - 1] + Len(ss[j])
  BY <1>1, <1>3, <1>4, <1>6, PlacesFit
<1>8. pos[m] = z /\ \A j \in 1..m : Here(file, pos[j - 1], ss[j])
  <2>1. Here(file, i, FlattenSeq(ss))
    BY <1>2, <1>4
  <2>2. /\ Places(i, ss)[Len(ss)] = i + Len(FlattenSeq(ss))
        /\ \A j \in 1..Len(ss) : Here(file, Places(i, ss)[j - 1], ss[j])
    BY <1>1, <1>4, <2>1, Flattened
  <2> QED
    BY <1>2, <1>3, <1>4, <2>2
<1>9. ASSUME NEW j \in 0..m
      PROVE  pos[j] <= Starts(d)[k]
  <2>1. Places(i, ss)[j] <= Places(i, ss)[Len(ss)]
    BY <1>1, <1>4, <1>6, PlacesGrow
  <2>2. pos[j] \in Nat
    BY <1>7
  <2>3. pos[j] <= z
    BY <1>3, <1>4, <1>8, <2>1
  <2> QED
    BY <1>1, <2>2, <2>3
<1>10. ASSUME NEW j \in 1..m
       PROVE  Found(file, pos[j - 1], t.kgc[j], pos[j])
  <2> DEFINE x == t.kgc[j]
             q == pos[j - 1]
  <2>1. j - 1 \in 0..m
    BY <1>4
  <2>2. q \in Nat
    BY <1>7, <2>1
  <2>3. IsConstant(x) /\ Here(file, q, MangledConstant(x))
    BY <1>4, <1>5, <1>8
  <2>4. pos[j] = q + Len(MangledConstant(x))
    BY <1>5, <1>7
  <2> HIDE DEF x, q
  <2>5. Found(file, q, x, q + Len(MangledConstant(x)))
    BY <1>1, <2>2, <2>3, ConstantRead
  <2> QED
    BY <2>4, <2>5 DEF x, q
<1>11. pos[m] + d.dbg = Starts(d)[k]
  BY <1>1, <1>8
<1> QED
  BY <1>4, <1>7, <1>9, <1>10, <1>11 DEF t, m, i, pos

LEMMA ReadNumbersStep ==
  ASSUME NEW d \in Dumps, file = d.bytes, Window, oldtop = 1,
         NEW k \in 1..Len(d.protos), NEW j \in 0..Len(d.protos[k].kgc), Within(d, k, j), ReadNumbers
  PROVE  Window' /\ oldtop' = 1 /\ Within(d, k, j)'
<1> DEFINE t == d.protos[k]
           i == BodyAt(d, k)
           r == Len(d.orphans[k - 1]) - Children(t, j)
           x == AtNumbers(i, t, d.flags, d.dbg)
           ks == List(KNumItems(file), x, Len(t.knum))
<1>1. /\ at = "knum" /\ flags = d.flags /\ OnStack(d, k - 1, r) /\ j = 0 /\ p = x
      /\ n = Len(t.kgc) /\ limit = Starts(d)[k] /\ limit <= pe /\ Begun(d, k) /\ pt.kgc = <<>>
  BY DEF Within, ReadNumbers
<1>2. pt = Shape(pt) /\ pt.numkn = Len(t.knum)
  BY <1>1 DEF Begun
<1>3. /\ Goto(ks.to, "wild", "kgc") /\ pt' = [pt EXCEPT !.knum = ks.v]
      /\ UNCHANGED <<file, chunk, pe, c, flags, n, limit, stack, oldtop>>
  BY <1>1, <1>2 DEF ReadNumbers, KNumItems
<1>4. /\ IsProto(t) /\ x \in Nat /\ Len(file) \in Nat /\ Here(file, x, MangledNumbers(t))
      /\ Starts(d)[k] \in Nat
  BY PartFacts DEF BodyLies
<1>5. /\ ConstantPlaces(d, k)[0] = x + Len(MangledNumbers(t)) /\ ConstantPlaces(d, k)[0] \in Nat
      /\ ConstantPlaces(d, k)[0] <= Starts(d)[k] /\ Len(t.kgc) \in Nat
  <2>1. ConstantPlaces(d, k)[0] = AtConstants(i, t, d.flags, d.dbg) /\ Len(t.kgc) \in Nat
        /\ ConstantPlaces(d, k) \in [0..Len(t.kgc) -> Nat]
        /\ \A l \in 0..Len(t.kgc) : ConstantPlaces(d, k)[l] <= Starts(d)[k]
    BY ConstantFacts
  <2>2. 0 \in 0..Len(t.kgc)
    BY <2>1
  <2> QED
    BY <2>1, <2>2 DEF AtConstants
<1>6. ks.v = t.knum /\ ks.to = ConstantPlaces(d, k)[0]
  <2> HIDE DEF t, x
  <2> QED
    BY <1>4, <1>5, NumbersRead
<1> HIDE DEF ks
<1>7. ~(ks.to > pe)
  <2>1. pe \in Nat
    BY DEF Window
  <2> QED
    BY <1>1, <1>4, <1>5, <1>6, <2>1
<1>8. p' = ConstantPlaces(d, k)[0] /\ at' = "kgc"
  BY <1>3, <1>6, <1>7 DEF Goto
<1>9. Window'
  <2>1. p' \in Nat
    BY <1>5, <1>8
  <2> QED
    BY <1>3, <2>1 DEF Window
<1>10. OnStack(d, k - 1, r)'
  <2> HIDE DEF r
  <2> QED
    BY <1>1, <1>3, StackStays
<1>11. /\ pt' = Shape(pt') /\ pt'.knum = t.knum /\ pt'.kgc = <<>>
       /\ pt'.flags = pt.flags /\ pt'.numparams = pt.numparams /\ pt'.framesize = pt.framesize
       /\ pt'.uv = pt.uv /\ pt'.code = pt.code
       /\ pt'.numkn = pt.numkn /\ pt'.sizedbg = pt.sizedbg
  <2>1. pt' = [Shape(pt) EXCEPT !.knum = t.knum]
    BY <1>2, <1>3, <1>6
  <2> HIDE DEF t
  <2> QED
    BY <1>1, <2>1 DEF Shape
<1>12. Begun(d, k)'
  BY <1>1, <1>11 DEF Begun, Plain
<1>13. Len(pt'.kgc) = j /\ pt'.kgc = [l \in 1..j |-> pt'.kgc[l]]
  BY <1>1, <1>11
<1>14. Plain(d)' => pt'.knum = t.knum /\ \A l \in 1..j : pt'.kgc[l] = t.kgc[l]
  <2>1. 1..j = {}
    BY <1>1
  <2> QED
    BY <1>11, <2>1
<1>15. flags' = d.flags /\ limit' = Starts(d)[k] /\ limit' <= pe' /\ oldtop' = 1
       /\ n' = Len(t.kgc) - j /\ p' = ConstantPlaces(d, k)[j]
  BY <1>1, <1>3, <1>5, <1>8, SMTT(30)
<1> QED
  BY <1>8, <1>9, <1>10, <1>12, <1>13, <1>14, <1>15, Zenon DEF Within, r, Plain

\* The prototypes that a prototype takes its children from.
LEMMA OrphanFacts ==
  ASSUME NEW d \in Dumps, NEW k \in 1..Len(d.protos)
  PROVE  LET t == d.protos[k]
             o == d.orphans[k - 1]
             m == Len(t.kgc)
         IN  /\ o \in Seq(Range(d.protos)) /\ Len(o) \in Nat /\ m \in Nat
             /\ Children(t, m) \in Nat /\ Children(t, m) <= Len(o)
             /\ \A j \in 0..m : Children(t, j) \in Nat /\ Children(t, j) <= Children(t, m)
             /\ \A j \in 1..m :
                  /\ Children(t, j) = Children(t, j - 1) + (IF t.kgc[j][1] = "child" THEN 1 ELSE 0)
                  /\ t.kgc[j][1] = "child" =>
                       t.kgc[j] = <<"child", o[Len(o) + 1 - Children(t, j)]>>
             /\ d.orphans[k] = Append(SubSeq(o, 1, Len(o) - Children(t, m)), t)
<1> DEFINE t == d.protos[k]
           o == d.orphans[k - 1]
           m == Len(t.kgc)
<1>1. d.protos \in Seq(Range(d.protos)) /\ InPostOrder(d)
  BY DumpAssumption
<1>2. k \in DOMAIN d.protos
  BY <1>1
<1>3. /\ o \in Seq(Range(d.protos)) /\ HasChildren(t, o)
      /\ d.orphans[k] = Append(SubSeq(o, 1, Len(o) - Children(t, Len(t.kgc))), t)
  BY <1>1, <1>2 DEF InPostOrder
<1>4. IsProto(t)
  BY DumpFacts
<1> HIDE DEF t, o
<1>5. t.kgc \in Seq(Range(t.kgc)) /\ m \in Nat /\ DOMAIN t.kgc = 1..m
  BY <1>4 DEF IsProto
<1>6. /\ \A j \in 0..m : Children(t, j) \in Nat /\ Children(t, j) <= Children(t, m)
      /\ \A j \in 1..m :
           Children(t, j) = Children(t, j - 1) + (IF t.kgc[j][1] = "child" THEN 1 ELSE 0)
  BY <1>5, ChildrenCount
<1>7. m \in 0..m
  BY <1>5
<1>8. /\ Children(t, m) <= Len(o)
      /\ \A j \in 1..m :
           t.kgc[j][1] = "child" => t.kgc[j] = <<"child", o[Len(o) + 1 - Children(t, j)]>>
  BY <1>3, <1>5 DEF HasChildren
<1>9. Len(o) \in Nat
  BY <1>3
<1> QED
  BY <1>3, <1>5, <1>6, <1>7, <1>8, <1>9, ZenonT(30) DEF t, o

\* One more constant was read.
LEMMA ConstantStep ==
  ASSUME NEW d \in Dumps, file = d.bytes, Window,
         NEW k \in 1..Len(d.protos), NEW j \in Nat, j + 1 \in 1..Len(d.protos[k].kgc),
         Within(d, k, j), at = "kgc",
         NEW x, Plain(d) => x = d.protos[k].kgc[j + 1],
         Constant(x, ConstantPlaces(d, k)[j + 1]),
         UNCHANGED <<file, chunk, pe, c, flags, limit, oldtop>>,
         OnStack(d, k - 1, Len(d.orphans[k - 1]) - Children(d.protos[k], j + 1))'
  PROVE  Window' /\ Within(d, k, j + 1)'
<1> DEFINE t == d.protos[k]
           l == j + 1
           to == ConstantPlaces(d, k)[l]
<1>1. /\ flags = d.flags /\ n = Len(t.kgc) - j /\ limit = Starts(d)[k] /\ limit <= pe
      /\ Begun(d, k) /\ Len(pt.kgc) = j /\ pt.kgc = [q \in 1..j |-> pt.kgc[q]]
      /\ Plain(d) => pt.knum = t.knum /\ \A q \in 1..j : pt.kgc[q] = t.kgc[q]
  BY DEF Within
<1>2. to \in Nat /\ to <= Starts(d)[k] /\ Len(t.kgc) \in Nat /\ Starts(d)[k] \in Nat /\ l \in 1..Len(t.kgc)
  <2>1. /\ Len(t.kgc) \in Nat /\ ConstantPlaces(d, k) \in [0..Len(t.kgc) -> Nat]
        /\ \A q \in 0..Len(t.kgc) : ConstantPlaces(d, k)[q] <= Starts(d)[k]
    BY ConstantFacts
  <2>2. Starts(d)[k] \in Nat
    BY ProtoFacts
  <2>3. l \in 0..Len(t.kgc)
    BY <2>1
  <2> QED
    BY <2>1, <2>2, <2>3
<1>3. /\ Goto(to, "wild", "kgc") /\ pt' = [pt EXCEPT !.kgc = Append(@, x)] /\ n' = n - 1
  BY DEF Constant
<1> HIDE DEF to
<1>4. ~(to > pe)
  <2>1. pe \in Nat
    BY DEF Window
  <2> QED
    BY <1>1, <1>2, <2>1
<1>5. p' = to /\ at' = "kgc"
  BY <1>3, <1>4 DEF Goto
<1>6. Window'
  BY <1>2, <1>5 DEF Window
<1>7. n' = Len(t.kgc) - l
  <2>1. n' = (Len(t.kgc) - j) - 1
    BY <1>1, <1>3
  <2> QED
    BY <1>2, <2>1
<1> DEFINE y == Append(pt.kgc, x)
<1>8. /\ Len(y) = l /\ y = [q \in 1..l |-> y[q]] /\ y[l] = x
      /\ \A q \in 1..j : y[q] = pt.kgc[q]
  <2> DEFINE s == pt.kgc
  <2>1. s = [q \in 1..j |-> s[q]]
    BY <1>1
  <2> HIDE DEF s
  <2>2. /\ Len(Append(s, x)) = j + 1
        /\ Append(s, x) = [q \in 1..(j + 1) |-> Append(s, x)[q]]
        /\ Append(s, x)[j + 1] = x /\ \A q \in 1..j : Append(s, x)[q] = s[q]
    BY <2>1, PushIs
  <2> QED
    BY <2>2 DEF s
<1> HIDE DEF y
<1>9. /\ pt' = Shape(pt') /\ pt'.knum = pt.knum /\ pt'.kgc = y
      /\ pt'.flags = pt.flags /\ pt'.numparams = pt.numparams /\ pt'.framesize = pt.framesize
      /\ pt'.uv = pt.uv /\ pt'.code = pt.code
      /\ pt'.numkn = pt.numkn /\ pt'.sizedbg = pt.sizedbg
  <2>1. pt = Shape(pt) /\ pt' = [pt EXCEPT !.kgc = y]
    BY <1>1, <1>3 DEF Begun, y
  <2>2. pt' = [Shape(pt) EXCEPT !.kgc = y]
    BY <2>1
  <2> QED
    BY <2>2 DEF Shape
<1>10. Begun(d, k)'
  BY <1>1, <1>9 DEF Begun, Plain
<1>11. Len(pt'.kgc) = l /\ pt'.kgc = [q \in 1..l |-> pt'.kgc[q]]
  BY <1>8, <1>9
<1>12. Plain(d) => pt'.knum = t.knum /\ \A q \in 1..l : pt'.kgc[q] = t.kgc[q]
  <2>1. SUFFICES ASSUME Plain(d), NEW q \in 1..l PROVE pt'.knum = t.knum /\ pt'.kgc[q] = t.kgc[q]
    BY <1>1, <1>9
  <2>2. q = l \/ q \in 1..j
    BY <1>2
  <2> QED
    BY <1>1, <1>8, <1>9, <2>1, <2>2
<1>13. flags' = d.flags /\ limit' = Starts(d)[k] /\ limit' <= pe'
  BY <1>1
<1>14. /\ at' = "kgc" /\ p' = ConstantPlaces(d, k)[j + 1] /\ n' = Len(t.kgc) - (j + 1)
       /\ limit' = Starts(d)[k] /\ limit' <= pe' /\ Begun(d, k)'
       /\ Len(pt'.kgc) = j + 1 /\ pt'.kgc = [q \in 1..(j + 1) |-> pt'.kgc[q]]
       /\ Plain(d)' => pt'.knum = t.knum /\ \A q \in 1..(j + 1) : pt'.kgc[q] = t.kgc[q]
  BY <1>5, <1>7, <1>10, <1>11, <1>12, <1>13 DEF to, Plain
<1> HIDE DEF l
<1> QED
  BY <1>6, <1>13, <1>14, Zenon DEF Within

\* A constant that was not read yet.
LEMMA NextConstant ==
  ASSUME NEW d \in Dumps, file = d.bytes, NEW k \in 1..Len(d.protos),
         NEW j \in 0..Len(d.protos[k].kgc), Within(d, k, j), at = "kgc", n > 0
  PROVE  /\ j \in Nat /\ j + 1 \in 1..Len(d.protos[k].kgc) /\ (j + 1) - 1 = j
         /\ IsConstant(d.protos[k].kgc[j + 1])
         /\ Found(file, p, d.protos[k].kgc[j + 1], ConstantPlaces(d, k)[j + 1])
<1> DEFINE m == Len(d.protos[k].kgc)
<1>1. p = ConstantPlaces(d, k)[j] /\ n = m - j
  BY DEF Within
<1>2. m \in Nat
  BY OrphanFacts
<1>3. j \in Nat /\ j + 1 \in 1..m /\ (j + 1) - 1 = j
  <2> HIDE DEF m
  <2> QED
    BY <1>1, <1>2
<1> DEFINE l == j + 1
<1> HIDE DEF l
<1>4. l \in 1..m /\ l - 1 = j
  BY <1>3 DEF l
<1>5. IsConstant(d.protos[k].kgc[l])
      /\ Found(file, ConstantPlaces(d, k)[l - 1], d.protos[k].kgc[l], ConstantPlaces(d, k)[l])
  BY <1>4, ConstantFacts
<1> QED
  BY <1>1, <1>3, <1>4, <1>5 DEF l

LEMMA ReadConstantStep ==
  ASSUME NEW d \in Dumps, file = d.bytes, Window, oldtop = 1,
         NEW k \in 1..Len(d.protos), NEW j \in 0..Len(d.protos[k].kgc), Within(d, k, j),
         ReadConstant
  PROVE  Window' /\ oldtop' = 1 /\ j + 1 \in 0..Len(d.protos[k].kgc) /\ Within(d, k, j + 1)'
<1> DEFINE t == d.protos[k]
           o == d.orphans[k - 1]
           l == j + 1
           x == t.kgc[l]
           to == ConstantPlaces(d, k)[l]
           r == Len(o) - Children(t, j)
           tp == Uleb(file, p)
           str == Block(file, tp.to, tp.v - KGC_STR)
           tab == KTab(file, tp.to)
<1>1. at = "kgc" /\ n > 0
  BY DEF ReadConstant
<1>2. OnStack(d, k - 1, r)
  BY DEF Within
<1>3. /\ \/ /\ tp.v >= KGC_STR
            /\ Constant(<<"str", OpenStr(str.v)>>, str.to)
            /\ UNCHANGED stack
         \/ /\ tp.v = KGC_TAB
            /\ Constant(tab.v, tab.to)
            /\ UNCHANGED stack
         \/ /\ tp.v = KGC_CHILD /\ Len(stack) > oldtop
            /\ Constant(<<"child", Last(stack)[2]>>, tp.to)
            /\ stack' = Front(stack)
         \/ tp.v = KGC_CHILD /\ Len(stack) <= oldtop
      /\ UNCHANGED <<file, chunk, pe, c, flags, limit, oldtop>>
  BY DEF ReadConstant, Popped
<1>4. j \in Nat /\ l \in 1..Len(t.kgc) /\ l - 1 = j /\ IsConstant(x) /\ Found(file, p, x, to)
  BY <1>1, NextConstant
<1>5. /\ \/ IsString(x) /\ tp.v >= KGC_STR /\ <<"str", OpenStr(str.v)>> = x /\ str.to = to
         \/ IsTable(x) /\ tp.v = KGC_TAB /\ tab.v = x /\ tab.to = to
         \/ x[1] = "child" /\ tp.v = KGC_CHILD /\ tp.to = to
      /\ KGC_CHILD = 0 /\ KGC_TAB = 1 /\ KGC_STR = 5
  BY <1>4 DEF Found, KGC_CHILD, KGC_TAB, KGC_STR
<1> HIDE DEF l
<1>6. /\ Len(o) \in Nat /\ Children(t, j) \in Nat /\ Children(t, l) \in Nat
      /\ Children(t, l) <= Len(o)
      /\ Children(t, l) = Children(t, j) + (IF x[1] = "child" THEN 1 ELSE 0)
      /\ x[1] = "child" => x = <<"child", o[Len(o) + 1 - Children(t, l)]>>
  <2>1. /\ Len(o) \in Nat /\ Len(t.kgc) \in Nat
        /\ Children(t, Len(t.kgc)) \in Nat /\ Children(t, Len(t.kgc)) <= Len(o)
        /\ \A q \in 0..Len(t.kgc) :
             Children(t, q) \in Nat /\ Children(t, q) <= Children(t, Len(t.kgc))
        /\ \A q \in 1..Len(t.kgc) :
             /\ Children(t, q) = Children(t, q - 1) + (IF t.kgc[q][1] = "child" THEN 1 ELSE 0)
             /\ t.kgc[q][1] = "child" => t.kgc[q] = <<"child", o[Len(o) + 1 - Children(t, q)]>>
    BY OrphanFacts
  <2> HIDE DEF t, o
  <2>2. l \in 0..Len(t.kgc) /\ j \in 0..Len(t.kgc)
    BY <1>4, <2>1
  <2>3. /\ Children(t, l) \in Nat /\ Children(t, j) \in Nat
        /\ Children(t, l) <= Children(t, Len(t.kgc))
    BY <2>1, <2>2
  <2>4. /\ Children(t, l) = Children(t, l - 1) + (IF t.kgc[l][1] = "child" THEN 1 ELSE 0)
        /\ t.kgc[l][1] = "child" => t.kgc[l] = <<"child", o[Len(o) + 1 - Children(t, l)]>>
    BY <1>4, <2>1
  <2>5. Children(t, l) <= Len(o)
    BY <2>1, <2>3
  <2> QED
    BY <1>4, <2>1, <2>3, <2>4, <2>5
<1> HIDE DEF t, o, x, to, str, tab, tp
<1>7. \E v : /\ Constant(v, to) /\ (Plain(d) => v = x)
             /\ OnStack(d, k - 1, Len(o) - Children(t, l))'
  <2>1. CASE x[1] # "child"
    <3>1. Children(t, l) = Children(t, j)
      BY <1>6, <2>1
    <3>2. Constant(x, to) /\ stack' = stack
      BY <1>3, <1>5, <2>1
    <3>3. OnStack(d, k - 1, r)'
      <4> HIDE DEF r
      <4> QED
        BY <1>2, <3>2, StackStays
    <3> QED
      BY <3>1, <3>2, <3>3
  <2>2. CASE x[1] = "child"
    <3>1. tp.v = KGC_CHILD /\ tp.to = to
      <4>1. ~IsString(x) /\ ~IsTable(x)
        BY <2>2 DEF IsString, IsTable
      <4> QED
        BY <1>5, <4>1
    <3>2. /\ Children(t, l) = Children(t, j) + 1 /\ x = <<"child", o[Len(o) + 1 - Children(t, l)]>>
      BY <1>6, <2>2
    <3>3. /\ r \in Nat /\ r # 0 /\ Len(o) - Children(t, l) = r - 1
          /\ Len(o) + 1 - Children(t, l) = r
      BY SMTT(20), <1>6, <3>2
    <3> HIDE DEF r
    <3>4. /\ Len(stack) = 1 + r /\ stack = [i \in 1..(1 + r) |-> stack[i]]
          /\ Plain(d) => \A i \in 1..r : stack[1 + i] = <<"proto", o[i]>>
      BY <1>2 DEF OnStack, o
    <3>5. Constant(<<"child", Last(stack)[2]>>, to) /\ stack' = Front(stack)
      <4>1. Len(stack) > oldtop
        BY <3>3, <3>4
      <4> QED
        BY <1>3, <1>5, <3>1, <4>1
    <3>6. /\ Len(Front(stack)) = (1 + r) - 1 /\ Last(stack) = stack[1 + r]
          /\ Front(stack) = [i \in 1..((1 + r) - 1) |-> stack[i]]
      <4>1. 1 + r \in Nat /\ 1 + r # 0
        BY <3>3
      <4> DEFINE m == 1 + r
      <4> HIDE DEF m
      <4>2. m \in Nat /\ m # 0 /\ stack = [i \in 1..m |-> stack[i]]
        BY <3>4, <4>1 DEF m
      <4>3. /\ Len(Front(stack)) = m - 1 /\ Last(stack) = stack[m]
            /\ Front(stack) = [i \in 1..(m - 1) |-> stack[i]]
        BY <4>2, PopIs
      <4> QED
        BY <4>3 DEF m
    <3>7. Plain(d) => <<"child", Last(stack)[2]>> = x
      <4>1. SUFFICES ASSUME Plain(d) PROVE <<"child", Last(stack)[2]>> = x
        OBVIOUS
      <4>2. stack[1 + r] = <<"proto", o[r]>>
        <5>1. r \in 1..r
          BY <3>3
        <5>2. \A i \in 1..r : stack[1 + i] = <<"proto", o[i]>>
          BY <3>4, <4>1
        <5> QED
          BY <5>1, <5>2
      <4>3. Last(stack)[2] = o[r]
        BY <3>6, <4>2
      <4> QED
        BY <3>2, <3>3, <4>3
    <3>8. OnStack(d, k - 1, r - 1)'
      <4>1. r - 1 \in Nat /\ 1 + (r - 1) = (1 + r) - 1
        BY <3>3
      <4>2. Len(stack') = 1 + (r - 1)
        BY <3>5, <3>6, <4>1
      <4>3. stack' = [i \in 1..(1 + (r - 1)) |-> stack[i]]
        BY <3>5, <3>6, <4>1
      <4>4. \A i \in 1..(1 + (r - 1)) : stack'[i] = stack[i]
        BY <4>3
      <4>5. stack' = [i \in 1..(1 + (r - 1)) |-> stack'[i]]
        BY <4>3
      <4>6. ASSUME Plain(d), NEW i \in 1..(r - 1) PROVE stack'[1 + i] = <<"proto", o[i]>>
        <5>1. i \in 1..r /\ 1 + i \in 1..(1 + (r - 1))
          BY <3>3
        <5>2. stack[1 + i] = <<"proto", o[i]>>
          BY <3>4, <4>6, <5>1
        <5> QED
          BY <4>4, <5>1, <5>2
      <4> QED
        BY <4>1, <4>2, <4>5, <4>6 DEF OnStack, Plain, o
    <3> QED
      BY <3>3, <3>5, <3>7, <3>8
  <2> QED
    BY <2>1, <2>2
<1>8. PICK v : /\ Constant(v, to) /\ (Plain(d) => v = x)
               /\ OnStack(d, k - 1, Len(o) - Children(t, l))'
  BY <1>7
<1>9. Window' /\ Within(d, k, j + 1)'
  <2>1. /\ Constant(v, ConstantPlaces(d, k)[j + 1]) /\ (Plain(d) => v = d.protos[k].kgc[j + 1])
        /\ OnStack(d, k - 1, Len(d.orphans[k - 1]) - Children(d.protos[k], j + 1))'
    BY <1>8 DEF l, o, t, x, to
  <2>2. UNCHANGED <<file, chunk, pe, c, flags, limit, oldtop>>
    BY <1>3
  <2>3. j \in Nat /\ j + 1 \in 1..Len(d.protos[k].kgc)
    BY <1>4 DEF l, t
  <2> QED
    BY <1>1, <2>1, <2>2, <2>3, ConstantStep
<1>10. l \in 0..Len(t.kgc)
  <2>1. Len(t.kgc) \in Nat
    BY OrphanFacts DEF t
  <2> QED
    BY <1>4, <2>1
<1>11. oldtop' = 1
  BY <1>3
<1> QED
  BY <1>9, <1>10, <1>11 DEF l, t

\* The code for the other constants is never reached.
LEMMA NoCdata ==
  ASSUME NEW d \in Dumps, file = d.bytes,
         NEW k \in 1..Len(d.protos), NEW j \in 0..Len(d.protos[k].kgc), Within(d, k, j),
         ReadCdata
  PROVE  FALSE
<1>1. at = "kgc" /\ n > 0 /\ Uleb(file, p).v \in (KGC_TAB + 1)..(KGC_STR - 1)
  BY DEF ReadCdata
<1>2. Found(file, p, d.protos[k].kgc[j + 1], ConstantPlaces(d, k)[j + 1])
  BY <1>1, NextConstant
<1>3. Uleb(file, p).v >= KGC_STR \/ Uleb(file, p).v = KGC_TAB \/ Uleb(file, p).v = KGC_CHILD
  BY <1>2 DEF Found
<1> QED
  BY <1>1, <1>3 DEF KGC_STR, KGC_TAB, KGC_CHILD

\* A prototype goes on the stack in the place of its children.
LEMMA PushProtoStep ==
  ASSUME NEW d \in Dumps, file = d.bytes, Window, oldtop = 1,
         NEW k \in 1..Len(d.protos), NEW j \in 0..Len(d.protos[k].kgc), Within(d, k, j),
         PushProto
  PROVE  Window' /\ oldtop' = 1 /\ Between(d, k)'
<1> DEFINE t == d.protos[k]
           o == d.orphans[k - 1]
           m == Len(t.kgc)
           r == Len(o) - Children(t, m)
           q == Proto(pt)
<1>1. at = "kgc" /\ n = 0
  BY DEF PushProto
<1>2. /\ flags = d.flags /\ OnStack(d, k - 1, Len(o) - Children(t, j))
      /\ p = ConstantPlaces(d, k)[j] /\ n = m - j
      /\ limit = Starts(d)[k] /\ Begun(d, k) /\ Len(pt.kgc) = j
      /\ pt.kgc = [l \in 1..j |-> pt.kgc[l]]
      /\ Plain(d) => pt.knum = t.knum /\ \A l \in 1..j : pt.kgc[l] = t.kgc[l]
  BY <1>1 DEF Within
<1>3. /\ o \in Seq(Range(d.protos)) /\ Len(o) \in Nat /\ m \in Nat
      /\ Children(t, m) \in Nat /\ Children(t, m) <= Len(o)
      /\ d.orphans[k] = Append(SubSeq(o, 1, r), t)
  BY OrphanFacts
<1>4. j = m
  <2> HIDE DEF m
  <2> QED
    BY <1>1, <1>2, <1>3
<1>5. p + pt.sizedbg = limit
  <2>1. pt.sizedbg = d.dbg
    BY <1>2 DEF Begun
  <2>2. ConstantPlaces(d, k)[m] + d.dbg = Starts(d)[k]
    BY ConstantFacts
  <2> QED
    BY <1>2, <1>4, <2>1, <2>2
<1>6. /\ p' = limit /\ at' = "protos" /\ stack' = Append(stack, <<"proto", q>>)
      /\ UNCHANGED <<file, chunk, pe, c, flags, oldtop>>
  BY <1>5 DEF PushProto
<1>7. p' = Starts(d)[k] /\ Starts(d)[k] \in Nat
  BY <1>2, <1>6, ProtoFacts
<1>8. Window'
  BY <1>6, <1>7 DEF Window
<1>9. Plain(d) => q = t
  <2>1. SUFFICES ASSUME Plain(d) PROVE q = t
    OBVIOUS
  <2>2. IsProto(t)
    BY ProtoFacts
  <2>3. pt.flags = t.flags /\ pt.numparams = t.numparams /\ pt.framesize = t.framesize
        /\ pt.uv = t.uv /\ pt.code = t.code
    BY <1>2, <2>1 DEF Begun
  <2>4. pt.knum = t.knum /\ \A l \in 1..m : pt.kgc[l] = t.kgc[l]
    BY <1>2, <1>4, <2>1
  <2>5. pt.kgc = t.kgc
    <3>1. t.kgc \in Seq(Range(t.kgc))
      BY <2>2 DEF IsProto
    <3> DEFINE x == t.kgc
               y == pt.kgc
    <3>2. x \in Seq(Range(x)) /\ m = Len(x) /\ y = [l \in 1..m |-> y[l]]
          /\ \A l \in 1..m : y[l] = x[l]
      BY <1>2, <1>4, <2>4, <3>1
    <3> HIDE DEF x, y, m
    <3>3. x = [l \in 1..Len(x) |-> x[l]]
      BY <3>2, SeqSelf
    <3>4. x = y
      BY <3>2, <3>3
    <3> QED
      BY <3>4 DEF x, y
  <2>6. t = Proto(t)
    BY <2>2 DEF IsProto
  <2> HIDE DEF t
  <2> QED
    BY <2>3, <2>4, <2>5, <2>6 DEF Proto
<1>10. OnStack(d, k - 1, r) /\ r \in Nat /\ r <= Len(o)
  BY <1>2, <1>3, <1>4
<1> HIDE DEF q, t, o, m, r
<1>11. /\ Len(d.orphans[k]) = r + 1 /\ d.orphans[k][r + 1] = t
       /\ \A i \in 1..r : d.orphans[k][i] = o[i]
  <2> DEFINE s == SubSeq(o, 1, r)
             S == Range(d.protos) \cup {t}
  <2>1. o \in Seq(S)
    <3>1. o \in [1..Len(o) -> Range(d.protos)]
      BY <1>3
    <3> QED
      BY <1>3, <3>1
  <2> HIDE DEF S
  <2>2. s \in Seq(S) /\ Len(s) = r /\ \A i \in 1..r : s[i] = o[i]
    BY <1>3, <1>10, <2>1
  <2> HIDE DEF s
  <2>3. s = [i \in 1..r |-> s[i]]
    BY <2>2, SeqSelf
  <2>4. /\ Len(Append(s, t)) = r + 1 /\ Append(s, t)[r + 1] = t
        /\ \A i \in 1..r : Append(s, t)[i] = s[i]
    BY <1>10, <2>3, PushIs
  <2>5. d.orphans[k] = Append(s, t)
    BY <1>3 DEF s
  <2> QED
    BY <2>2, <2>4, <2>5
<1>12. /\ Len(stack) = 1 + r /\ stack = [i \in 1..(1 + r) |-> stack[i]]
       /\ Plain(d) => \A i \in 1..r : stack[1 + i] = <<"proto", o[i]>>
  BY <1>10 DEF OnStack, o
<1>13. /\ Len(stack') = 1 + (r + 1) /\ stack' = [i \in 1..(1 + (r + 1)) |-> stack'[i]]
       /\ stack'[1 + (r + 1)] = <<"proto", q>> /\ \A i \in 1..(1 + r) : stack'[i] = stack[i]
  <2> DEFINE u == 1 + r
             x == <<"proto", q>>
  <2>1. u \in Nat /\ stack = [i \in 1..u |-> stack[i]] /\ u + 1 = 1 + (r + 1)
    BY <1>10, <1>12
  <2> HIDE DEF u, x
  <2>2. /\ Len(Append(stack, x)) = u + 1
        /\ Append(stack, x) = [i \in 1..(u + 1) |-> Append(stack, x)[i]]
        /\ Append(stack, x)[u + 1] = x /\ \A i \in 1..u : Append(stack, x)[i] = stack[i]
    BY <2>1, PushIs
  <2>3. stack' = Append(stack, x)
    BY <1>6 DEF x
  <2>4. /\ Len(stack') = u + 1 /\ stack' = [i \in 1..(u + 1) |-> stack'[i]]
        /\ stack'[u + 1] = x /\ \A i \in 1..u : stack'[i] = stack[i]
    BY <2>2, <2>3
  <2>5. /\ Len(stack') = 1 + (r + 1) /\ stack' = [i \in 1..(1 + (r + 1)) |-> stack'[i]]
        /\ stack'[1 + (r + 1)] = x /\ \A i \in 1..u : stack'[i] = stack[i]
    BY <2>1, <2>4
  <2> QED
    BY <2>5 DEF u, x
<1>14. OnStack(d, k, r + 1)'
  <2>1. ASSUME Plain(d), NEW i \in 1..(r + 1)
        PROVE  stack'[1 + i] = <<"proto", d.orphans[k][i]>>
    <3>1. CASE i = r + 1
      BY <1>9, <1>11, <1>13, <2>1, <3>1
    <3>2. CASE i # r + 1
      <4>1. i \in 1..r /\ 1 + i \in 1..(1 + r)
        BY <1>10, <3>2
      <4>2. stack'[1 + i] = stack[1 + i] /\ stack[1 + i] = <<"proto", o[i]>>
        BY <1>12, <1>13, <2>1, <4>1
      <4> QED
        BY <1>11, <4>1, <4>2
    <3> QED
      BY <3>1, <3>2
  <2>2. r + 1 \in Nat
    BY <1>10
  <2> QED
    BY <1>13, <2>1, <2>2 DEF OnStack, Plain
<1>15. AllOnStack(d, k)'
  BY <1>11, <1>14 DEF AllOnStack
<1>16. flags' = d.flags /\ oldtop' = 1
  BY <1>2, <1>6
<1> QED
  BY <1>6, <1>7, <1>8, <1>15, <1>16, Zenon DEF Between

\* The one prototype that is left is the one that was dumped.
LEMMA LastOnStack ==
  ASSUME NEW d \in Dumps, AllOnStack(d, Len(d.protos))
  PROVE  Len(stack) = 2 /\ (Plain(d) => Last(stack) = <<"proto", d.tree>>)
<1>1. d.orphans[Len(d.protos)] = <<d.tree>>
  BY DumpAssumption DEF InPostOrder
<1>2. Len(d.orphans[Len(d.protos)]) = 1 /\ d.orphans[Len(d.protos)][1] = d.tree
  BY <1>1
<1>3. OnStack(d, Len(d.protos), 1)
  BY <1>2 DEF AllOnStack
<1>4. Len(stack) = 2 /\ (Plain(d) => stack[2] = <<"proto", d.tree>>)
  <2>1. Len(stack) = 1 + 1 /\ (Plain(d) => stack[1 + 1] = <<"proto", d.orphans[Len(d.protos)][1]>>)
    BY <1>3 DEF OnStack
  <2> QED
    BY <1>2, <2>1
<1> QED
  BY <1>4 DEF Last

LEMMA FinishStep ==
  ASSUME NEW d \in Dumps, Window, oldtop = 1, AllOnStack(d, Len(d.protos)), Finish
  PROVE  Window' /\ oldtop' = 1 /\ at' = "loaded" /\ AllOnStack(d, Len(d.protos))'
<1>1. /\ at' = IF Len(stack) - 1 = oldtop THEN "loaded" ELSE "refused"
      /\ UNCHANGED <<file, chunk, window, stack, oldtop>>
  BY DEF Finish
<1>2. Len(stack) - 1 = oldtop
  <2>1. Len(stack) = 2
    BY LastOnStack
  <2> QED
    BY <2>1
<1>3. Window'
  BY <1>1 DEF Window, window
<1>4. AllOnStack(d, Len(d.protos))'
  BY <1>1, StackStays DEF AllOnStack
<1>5. at' = "loaded"
  BY <1>1, <1>2
<1>6. oldtop' = 1
  BY <1>1
<1> QED
  BY <1>3, <1>4, <1>5, <1>6

\* The reader of a dump, whatever it does next.
LEMMA HeaderPart ==
  ASSUME NEW d \in Dumps, file = d.bytes, Window, at # "setup" => oldtop = 1, AtHeader(d),
         ReadNext
  PROVE  Reading(d)'
<1>1. at \in {"setup", "want header", "header", "name"}
  BY Zenon DEF AtHeader
<1>2. Setup \/ (at # "setup" /\ (WantHeader \/ ReadHeader \/ SkipName))
  BY <1>1, Zenon DEF ReadNext, ParseText, EndMark, WantLength, ReadLength, NeedProto, ReadProto,
              ReadNumbers, ReadConstant, ReadCdata, PushProto, Finish, Setup, WantHeader,
              ReadHeader, SkipName
<1>3. \/ Window' /\ oldtop' = 1 /\ AtHeader(d)'
      \/ Window' /\ oldtop' = 1 /\ Between(d, 0)'
  BY <1>2, SetupStep, WantHeaderStep, ReadHeaderStep, SkipNameStep
<1>4. 0 \in 0..Len(d.protos)
  <2>1. Len(d.protos) \in Nat
    BY DumpFacts
  <2> QED
    BY <2>1
<1>5. UNCHANGED file
  BY <1>2, Zenon DEF Setup, WantHeader, ReadHeader, SkipName
<1> QED
  BY <1>3, <1>4, <1>5, Zenon DEF Reading

LEMMA BetweenPart ==
  ASSUME NEW d \in Dumps, file = d.bytes, Window, oldtop = 1,
         NEW k \in 0..Len(d.protos), Between(d, k), ReadNext
  PROVE  Reading(d)'
<1>1. at \in {"protos", "length"}
  BY DEF Between
<1>2. EndMark \/ WantLength \/ ReadLength
  BY <1>1, Zenon DEF ReadNext, ParseText, EndMark, WantLength, ReadLength, NeedProto, ReadProto,
              ReadNumbers, ReadConstant, ReadCdata, PushProto, Finish, Setup, WantHeader,
              ReadHeader, SkipName
<1>3. UNCHANGED file
  BY <1>2 DEF EndMark, WantLength, ReadLength
<1>4. CASE EndMark
  <2>1. Window' /\ oldtop' = 1 /\ at' = "finish" /\ AllOnStack(d, Len(d.protos))'
    BY <1>4, EndMarkStep
  <2>2. at' \in {"finish", "loaded"}
    BY <2>1
  <2> QED
    BY <1>3, <2>1, <2>2, Zenon DEF Reading
<1>5. CASE WantLength
  <2>1. Window' /\ oldtop' = 1 /\ Between(d, k)'
    BY <1>5, WantLengthStep
  <2> QED
    BY <1>3, <2>1, Zenon DEF Reading
<1>6. CASE ReadLength
  <2>1. /\ Window' /\ oldtop' = 1
        /\ \/ at' = "finish" /\ AllOnStack(d, Len(d.protos))'
           \/ \E l \in 1..Len(d.protos) : \E j \in 0..Len(d.protos[l].kgc) : Within(d, l, j)'
    BY <1>6, ReadLengthStep
  <2>2. at' = "finish" => at' \in {"finish", "loaded"}
    OBVIOUS
  <2> QED
    BY <1>3, <2>1, <2>2, Zenon DEF Reading
<1> QED
  BY <1>2, <1>4, <1>5, <1>6

LEMMA WithinPart ==
  ASSUME NEW d \in Dumps, file = d.bytes, Window, oldtop = 1,
         NEW k \in 1..Len(d.protos), NEW j \in 0..Len(d.protos[k].kgc), Within(d, k, j), ReadNext
  PROVE  Reading(d)'
<1>1. at \in {"need", "proto", "knum", "kgc"}
  BY DEF Within
<1>2. \/ NeedProto \/ ReadProto \/ ReadNumbers \/ ReadConstant \/ ReadCdata \/ PushProto
  BY <1>1, Zenon DEF ReadNext, ParseText, EndMark, WantLength, ReadLength, NeedProto, ReadProto,
              ReadNumbers, ReadConstant, ReadCdata, PushProto, Finish, Setup, WantHeader,
              ReadHeader, SkipName
<1>3. UNCHANGED file
  BY <1>2, Zenon DEF NeedProto, ReadProto, ReadNumbers, ReadConstant, ReadCdata, PushProto
<1>4. CASE NeedProto \/ ReadProto \/ ReadNumbers
  <2>1. Window' /\ oldtop' = 1 /\ Within(d, k, j)'
    BY <1>4, NeedProtoStep, ReadProtoStep, ReadNumbersStep
  <2> QED
    BY <1>3, <2>1, Zenon DEF Reading
<1>5. CASE ReadConstant
  <2>1. Window' /\ oldtop' = 1 /\ j + 1 \in 0..Len(d.protos[k].kgc) /\ Within(d, k, j + 1)'
    BY <1>5, ReadConstantStep
  <2> QED
    BY <1>3, <2>1, Zenon DEF Reading
<1>6. CASE PushProto
  <2>1. Window' /\ oldtop' = 1 /\ Between(d, k)'
    BY <1>6, PushProtoStep
  <2>2. k \in 0..Len(d.protos)
    <3>1. Len(d.protos) \in Nat
      BY DumpFacts
    <3> QED
      BY <3>1
  <2> QED
    BY <1>3, <2>1, <2>2, Zenon DEF Reading
<1> QED
  BY <1>2, <1>4, <1>5, <1>6, NoCdata

LEMMA EndPart ==
  ASSUME NEW d \in Dumps, Window, oldtop = 1, at \in {"finish", "loaded"},
         AllOnStack(d, Len(d.protos)), ReadNext
  PROVE  Reading(d)' /\ UNCHANGED file
<1>1. Finish
  BY Zenon DEF ReadNext, ParseText, EndMark, WantLength, ReadLength, NeedProto, ReadProto,
              ReadNumbers, ReadConstant, ReadCdata, PushProto, Finish, Setup, WantHeader,
              ReadHeader, SkipName
<1>2. Window' /\ oldtop' = 1 /\ at' = "loaded" /\ AllOnStack(d, Len(d.protos))'
  BY <1>1, FinishStep
<1>3. UNCHANGED file
  BY <1>1 DEF Finish
<1>4. at' \in {"finish", "loaded"}
  BY <1>2
<1> QED
  BY <1>2, <1>3, <1>4, Zenon DEF Reading

LEMMA ReadingGoesOn ==
  ASSUME NEW d \in Dumps, file = d.bytes, Reading(d), ReadNext
  PROVE  Reading(d)'
<1>1. Window /\ (at # "setup" => oldtop = 1)
  BY DEF Reading
<1>2. CASE AtHeader(d)
  BY <1>1, <1>2, HeaderPart
<1>3. CASE \E k \in 0..Len(d.protos) : Between(d, k)
  <2>1. PICK k \in 0..Len(d.protos) : Between(d, k)
    BY <1>3
  <2>2. oldtop = 1
    BY <1>1, <2>1 DEF Between
  <2> QED
    BY <1>1, <2>1, <2>2, BetweenPart
<1>4. CASE \E k \in 1..Len(d.protos) : \E j \in 0..Len(d.protos[k].kgc) : Within(d, k, j)
  <2>1. PICK k \in 1..Len(d.protos) : \E j \in 0..Len(d.protos[k].kgc) : Within(d, k, j)
    BY <1>4
  <2>2. PICK j \in 0..Len(d.protos[k].kgc) : Within(d, k, j)
    BY <2>1
  <2>3. oldtop = 1
    BY <1>1, <2>2 DEF Within
  <2> QED
    BY <1>1, <2>2, <2>3, WithinPart
<1>5. CASE at \in {"finish", "loaded"} /\ AllOnStack(d, Len(d.protos))
  <2>1. oldtop = 1
    BY <1>1, <1>5
  <2> QED
    BY <1>1, <1>5, <2>1, EndPart
<1> QED
  BY <1>2, <1>3, <1>4, <1>5 DEF Reading

-----------------------------------------------------------------------------
(* The tool keeps it.                                                      *)

LEMMA InvInit == Init => Inv
<1> SUFFICES ASSUME Init PROVE Inv
  OBVIOUS
<1>1. chunk \in Chunks /\ stack = <<>> /\ step = "next"
  BY DEF Init, ReadInit
<1> QED
  BY <1>1 DEF Inv

LEMMA OpenStep ==
  ASSUME Inv, Open
  PROVE  Inv'
<1>1. step = "next" /\ stack = <<>> /\ chunk \in Chunks /\ chunk' = chunk
  BY DEF Open, Inv, Start
<1>2. PICK name \in todo :
        /\ Start(files[name])
        /\ stack' = Append(stack, IF files[name] = Missing THEN Err ELSE ChunkName)
        /\ step' = IF files[name] = Missing THEN "check" ELSE "load"
  BY DEF Open
<1>3. step' # "next"
  BY <1>2
<1>4. ASSUME step' = "load", NEW d \in Dumps, file' = d.bytes
      PROVE  Reading(d)'
  <2>1. files[name] # Missing
    BY <1>2, <1>4
  <2>2. stack' = <<ChunkName>>
    BY <1>1, <1>2, <2>1
  <2>3. at' = "setup" /\ p' = 0 /\ pe' = 0 /\ c' = 0
    BY <1>2 DEF Start
  <2>4. Len(file') \in Nat
    BY <1>4, DumpRead
  <2>5. Window'
    <3>1. p' \in Nat /\ pe' \in Nat /\ c' \in Int /\ pe' <= Len(file') /\ ~(c' < 0)
      <4>1. p' = 0 /\ pe' = 0 /\ c' = 0
        BY <2>3
      <4> QED
        BY <2>4, <4>1
    <3> QED
      BY <1>1, <2>4, <3>1 DEF Window
  <2>6. AtHeader(d)'
    BY <2>2, <2>3, Zenon DEF AtHeader
  <2>7. at' = "setup"
    BY <2>3
  <2> QED
    BY <2>5, <2>6, <2>7, Zenon DEF Reading
<1> QED
  BY <1>1, <1>3, <1>4, Zenon DEF Inv

LEMMA ReadStep ==
  ASSUME Inv, Read
  PROVE  Inv'
<1>1. step = "load" /\ ReadNext /\ step' = step
  BY DEF Read
<1>2. UNCHANGED <<file, chunk>>
  BY <1>1, Zenon DEF ReadNext, ParseText, EndMark, WantLength, ReadLength, NeedProto, ReadProto,
              ReadNumbers, ReadConstant, ReadCdata, PushProto, Finish, Setup, WantHeader,
              ReadHeader, SkipName
<1>3. ASSUME NEW d \in Dumps, file' = d.bytes
      PROVE  Reading(d)'
  <2>1. file = d.bytes
    BY <1>2, <1>3
  <2>2. Reading(d)
    BY <1>1, <2>1 DEF Inv
  <2> QED
    BY <1>1, <2>1, <2>2, ReadingGoesOn
<1>4. chunk' \in Chunks /\ step' # "next"
  BY <1>1, <1>2 DEF Inv
<1> QED
  BY <1>3, <1>4, Zenon DEF Inv

LEMMA InvNext == Inv /\ [Next]_vars => Inv'
<1> SUFFICES ASSUME Inv, [Next]_vars PROVE Inv'
  OBVIOUS
<1>1. chunk \in Chunks
  BY DEF Inv
<1>2. CASE Open
  BY <1>2, OpenStep
<1>3. CASE Read
  BY <1>3, ReadStep
<1>4. CASE Return
  <2>1. step' = "check" /\ chunk' = chunk
    BY <1>4 DEF Return
  <2> QED
    BY <1>1, <2>1 DEF Inv
<1>5. CASE CheckFunction
  <2>1. step' \in {"dump", "panic"} /\ chunk' = chunk
    BY <1>5 DEF CheckFunction
  <2> QED
    BY <1>1, <2>1 DEF Inv
<1>6. CASE Write
  <2>1. step' = "dump" /\ chunk' = chunk
    BY <1>6 DEF Write, readVars
  <2> QED
    BY <1>1, <2>1 DEF Inv
<1>7. CASE Save
  <2>1. step' = "next" /\ chunk' = chunk /\ stack' = <<>>
    BY <1>7 DEF Save, Settop
  <2> QED
    BY <1>1, <2>1 DEF Inv
<1>8. CASE Exit
  <2>1. step' = "done" /\ chunk' = chunk
    BY <1>8 DEF Exit, readVars
  <2> QED
    BY <1>1, <2>1 DEF Inv
<1>9. CASE UNCHANGED vars
  <2>1. UNCHANGED <<file, chunk, p, pe, c, at, flags, n, limit, pt, stack, oldtop, step>>
    BY <1>9 DEF vars, readVars, window
  <2>2. ASSUME NEW d PROVE Reading(d)' <=> Reading(d)
    BY <2>1 DEF Reading, Window, AtHeader, Between, Within, AllOnStack, OnStack, Begun, Plain
  <2>3. /\ chunk' \in Chunks
        /\ step' = "next" => stack' = <<>>
        /\ step' = "load" => \A d \in Dumps : file' = d.bytes => Reading(d)'
    BY <2>1, <2>2 DEF Inv
  <2> QED
    BY <2>3 DEF Inv
<1> QED
  BY <1>2, <1>3, <1>4, <1>5, <1>6, <1>7, <1>8, <1>9 DEF Next, Stay

-----------------------------------------------------------------------------
(* What it is good for.                                                    *)

LEMMA InvAccepts == Inv => DumpsAreAccepted
<1> SUFFICES ASSUME Inv, step = "load", at \in {"refused", "wild", "text"},
                    NEW d \in Dumps, file = d.bytes
             PROVE  FALSE
  BY DEF DumpsAreAccepted, IsDump
<1>1. Reading(d)
  BY DEF Inv
<1> QED
  BY <1>1, Zenon DEF Reading, AtHeader, Between, Within

\* The state in which a dump has been loaded as what it was made from.
LoadedAs(d) == Len(stack) = oldtop + 1 /\ Last(stack) = <<"proto", d.tree>>

\* The dumps whose bytes are in the order of the machine that reads them are.
PlainAreLoaded ==
    step = "load" /\ at = "loaded"
      => \A d \in Dumps : file = d.bytes /\ ~Has(d.flags, F_BE) => LoadedAs(d)

LEMMA InvLoads == Inv => PlainAreLoaded
<1> SUFFICES ASSUME Inv, step = "load", at = "loaded",
                    NEW d \in Dumps, file = d.bytes, ~Has(d.flags, F_BE)
             PROVE  LoadedAs(d)
  BY DEF PlainAreLoaded
<1>1. Reading(d) /\ Plain(d)
  BY DEF Inv, Plain
<1>2. AllOnStack(d, Len(d.protos)) /\ oldtop = 1
  BY <1>1 DEF Reading, AtHeader, Between, Within
<1>3. Len(stack) = 2 /\ (Plain(d) => Last(stack) = <<"proto", d.tree>>)
  BY <1>2, LastOnStack
<1>4. Last(stack) = <<"proto", d.tree>>
  BY <1>1, <1>3
<1>5. Len(stack) = oldtop + 1
  <2>1. oldtop = 1 /\ Len(stack) = 2
    BY <1>2, <1>3
  <2> QED
    BY <2>1
<1> QED
  BY <1>4, <1>5 DEF LoadedAs

\* A dump is read to its end, wherever the chunks of the file end
\* (lj_bcread_mod, bcread_need and bcread_want in lj_bcread.c): for every set
\* of dumps, every directory and every size of the reader's buffer.
THEOREM EveryDumpAccepted == Spec => []DumpsAreAccepted
<1>1. Init => Inv
  BY InvInit
<1>2. Inv /\ [Next]_vars => Inv'
  BY InvNext
<1>3. Inv => DumpsAreAccepted
  BY InvAccepts
<1> QED
  BY <1>1, <1>2, <1>3, PTL DEF Spec

\* What is loaded from a dump is what the dump was made from, if its bytes are
\* in the order of the machine that reads them (bcread_proto_mod, bcread_kgc_mod
\* and bcread_knum_mod in lj_bcread.c), whatever other dumps are about.
THEOREM PlainDumpsAreLoaded == Spec => []PlainAreLoaded
<1>1. Init => Inv
  BY InvInit
<1>2. Inv /\ [Next]_vars => Inv'
  BY InvNext
<1>3. Inv => PlainAreLoaded
  BY InvLoads
<1> QED
  BY <1>1, <1>2, <1>3, PTL DEF Spec

\* Hence all are loaded where none is in the other order, in which instructions
\* are lost (_byteswap_ulong in compat.c).
THEOREM EveryDumpLoaded ==
  ASSUME \A d \in Dumps : ~Has(d.flags, F_BE)
  PROVE  Spec => []LoadedIsDumped
<1>1. PlainAreLoaded => LoadedIsDumped
  BY DEF PlainAreLoaded, LoadedAs, LoadedIsDumped, IsDump
<1> QED
  BY <1>1, PlainDumpsAreLoaded, PTL
=============================================================================
