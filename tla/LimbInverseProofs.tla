------------------------- MODULE LimbInverseProofs --------------------------
(* The limbs of bn_inverse compute what AlmostInverse computes on numbers,   *)
(* for every width and number of limbs and every prime.                      *)
(*                                                                           *)
(* A combo holds two numbers, one from its lowest word up and one from its   *)
(* highest word down, that share its words; len1 says where they meet.  Each *)
(* loop over words (the comparison, the subtraction, the addition with its   *)
(* carry, the shift, the trailing zeros, the division by a power of two, the *)
(* conversions from and to limbs) is shown to do to these numbers what the   *)
(* step of AlmostInverse does.  The words are digits, and a number is their  *)
(* Worth, a sum over places: the lemmas go by induction on the place.        *)
(*                                                                           *)
(* The inductive invariant LInv is that of AlmostInverse for these numbers,  *)
(* with two parts of its own.  Shape says which words and bits are not zero: *)
(* bn_inverse looks for the last bit of a word without asking whether there  *)
(* is one.  Growth bounds the second numbers by 2^k, as the comments of the  *)
(* loop do: the first ones are halved whenever the second ones are doubled.  *)
EXTENDS LimbInverse, TLAPS

G == INSTANCE BytesProofs WITH UintWidth <- 1, SizeWidth <- 1

(* The widths with which the general lemmas are used here.                   *)
LEMMA OneIsAWidth == 1 \in Nat \ {0} /\ 1 \in Nat \ {0}
OBVIOUS

(* Induction over a set of numbers, which needs no operator as parameter.    *)
LEMMA Induct ==
  ASSUME NEW S, 0 \in S, \A n \in Nat : n \in S => n + 1 \in S
  PROVE  Nat \subseteq S
BY OneIsAWidth, G!NatInduct, Zenon

IsIteration(f, base, Step) ==
  f[0] = base /\ \A n \in Nat : f[n + 1] = Step[<<f[n], n>>]

(* A step taken again and again from a first value.                          *)
LEMMA Iteration ==
  ASSUME NEW V, NEW base \in V, NEW Step \in [V \X Nat -> V]
  PROVE  \E f \in [Nat -> V] : IsIteration(f, base, Step)
<1> DEFINE Later == [p \in V \X Nat |-> IF p[2] = 0 THEN p[1] ELSE Step[<<p[1], p[2] - 1>>]]
<1>1. Later \in [V \X Nat -> V]
  OBVIOUS
<1>2. \A a \in V, n \in Nat : Later[<<a, n + 1>>] = Step[<<a, n>>]
  OBVIOUS
<1> HIDE DEF Later
<1>3. PICK f \in [Nat -> V] : G!Iterates(f, Nat \ {0}, base, Later)
  BY <1>1, OneIsAWidth, G!NatRecursion, Zenon
<1>4. f[0] = base /\ \A n \in Nat \ {0} : f[n] = Later[<<f[n - 1], n>>]
  BY <1>3 DEF G!Iterates
<1>5. ASSUME NEW n \in Nat PROVE f[n + 1] = Step[<<f[n], n>>]
  <2>1. n + 1 \in Nat \ {0} /\ (n + 1) - 1 = n /\ f[n] \in V
    OBVIOUS
  <2>2. f[n + 1] = Later[<<f[(n + 1) - 1], n + 1>>]
    BY <1>4, <2>1
  <2>3. Later[<<f[n], n + 1>>] = Step[<<f[n], n>>]
    BY <1>2, <2>1
  <2> QED BY <2>1, <2>2, <2>3
<1> QED BY <1>4, <1>5 DEF IsIteration

-----------------------------------------------------------------------------
(* Powers of two.                                                            *)

(* The first powers, and the next one.                                       *)
LEMMA TwoTo ==
  /\ 2^0 = 1 /\ 2^1 = 2
  /\ \A n \in Nat : 2^n \in Nat \ {0} /\ 2^(n + 1) = 2 * 2^n
<1>1. /\ 2^0 = 1
      /\ \A n \in Nat : 2^n \in Nat \ {0} /\ 2^(n + 1) = 2 * 2^n
  BY OneIsAWidth, G!PowerOfTwo
<1>2. 2^(0 + 1) = 2 * 2^0 /\ 0 + 1 = 1
  BY <1>1
<1>3. 2^1 = 2
  BY <1>1, <1>2
<1> QED BY <1>1, <1>3

(* A sum of exponents is a product of powers.                                *)
LEMMA TwoToSum ==
  ASSUME NEW a \in Nat, NEW b \in Nat
  PROVE  2^(a + b) = 2^a * 2^b
<1> DEFINE S == {n \in Nat : 2^(a + n) = 2^a * 2^n}
<1>1. 0 \in S
  <2>1. a + 0 = a /\ 2^a \in Nat /\ 2^0 = 1
    BY TwoTo
  <2> QED BY <2>1
<1>2. \A n \in Nat : n \in S => n + 1 \in S
  <2> SUFFICES ASSUME NEW n \in Nat, 2^(a + n) = 2^a * 2^n
               PROVE  2^(a + (n + 1)) = 2^a * 2^(n + 1)
    OBVIOUS
  <2>1. ASSUME NEW x \in Nat, NEW y \in Nat
        PROVE  2 * (x * y) = x * (2 * y)
    OBVIOUS
  <2>2. 2^(n + 1) = 2 * 2^n /\ 2^n \in Nat /\ 2^a \in Nat
    BY TwoTo
  <2>3. 2^(a + (n + 1)) = 2 * 2^(a + n)
    BY TwoTo, a + (n + 1) = (a + n) + 1, a + n \in Nat
  <2>4. 2 * (2^a * 2^n) = 2^a * (2 * 2^n)
    BY <2>1, <2>2
  <2> QED BY <2>2, <2>3, <2>4, Zenon
<1> HIDE DEF S
<1>3. Nat \subseteq S
  BY <1>1, <1>2, Induct
<1> QED BY <1>3 DEF S

(* The smaller power divides the greater one.                                *)
LEMMA TwoToOrder ==
  ASSUME NEW a \in Nat, NEW b \in Nat, a <= b
  PROVE  2^b = 2^a * 2^(b - a) /\ b - a \in Nat /\ 2^a <= 2^b
<1>1. b - a \in Nat /\ a + (b - a) = b
  OBVIOUS
<1>2. 2^b = 2^a * 2^(b - a)
  BY <1>1, TwoToSum
<1>3. 2^a \in Nat \ {0} /\ 2^(b - a) \in Nat \ {0}
  BY <1>1, TwoTo
<1>4. ASSUME NEW x \in Nat \ {0}, NEW y \in Nat \ {0} PROVE x <= x * y
  OBVIOUS
<1> QED BY <1>1, <1>2, <1>3, <1>4

(* A greater power is at least twice as large.                               *)
LEMMA TwoToGrows ==
  ASSUME NEW a \in Nat, NEW b \in Nat, a < b
  PROVE  2 * 2^a <= 2^b
<1>1. a + 1 \in Nat /\ a + 1 <= b
  OBVIOUS
<1> QED BY <1>1, TwoToOrder, TwoTo

(* A power exceeds its exponent.                                             *)
LEMMA TwoToExceeds ==
  ASSUME NEW n \in Nat
  PROVE  n < 2^n
<1> DEFINE S == {k \in Nat : k < 2^k}
<1>1. 0 \in S
  BY TwoTo
<1>2. \A k \in Nat : k \in S => k + 1 \in S
  BY TwoTo
<1> HIDE DEF S
<1> QED BY <1>1, <1>2, Induct DEF S

(* The powers of a power of two.                                             *)
LEMMA TwoToTimes ==
  ASSUME NEW a \in Nat, NEW n \in Nat
  PROVE  a * n \in Nat /\ 2^(a * (n + 1)) = 2^a * 2^(a * n)
<1>1. ASSUME NEW x \in Nat, NEW y \in Nat PROVE x * y \in Nat /\ x * (y + 1) = x + x * y
  OBVIOUS
<1>2. a * n \in Nat /\ a * (n + 1) = a + a * n
  BY <1>1
<1> QED BY <1>2, TwoToSum

-----------------------------------------------------------------------------
(* Numbers in digits, the lowest first.                                      *)

IsPowers(q, B) ==
  /\ B \in Nat /\ B > 1
  /\ q \in [Nat -> Nat \ {0}]
  /\ q[0] = 1
  /\ \A n \in Nat : q[n + 1] = B * q[n]

PowersOfTwo(e) == [n \in Nat |-> 2^(e * n)]

(* They are the powers of 2^e.                                               *)
LEMMA PowersOfTwoAre ==
  ASSUME NEW e \in Nat \ {0}
  PROVE  IsPowers(PowersOfTwo(e), 2^e) /\ \A n \in Nat : PowersOfTwo(e)[n] = 2^(e * n)
<1> DEFINE q == PowersOfTwo(e)
<1>1. \A n \in Nat : q[n] = 2^(e * n)
  BY DEF PowersOfTwo
<1>2. ASSUME NEW n \in Nat PROVE q[n] \in Nat \ {0} /\ q[n + 1] = 2^e * q[n]
  <2>1. e * n \in Nat /\ 2^(e * (n + 1)) = 2^e * 2^(e * n)
    BY TwoToTimes
  <2>2. q[n] = 2^(e * n) /\ q[n + 1] = 2^(e * (n + 1))
    BY <1>1
  <2>3. 2^(e * n) \in Nat \ {0}
    BY <2>1, TwoTo
  <2> QED BY <2>1, <2>2, <2>3
<1>3. q[0] = 1
  <2>1. e * 0 = 0
    OBVIOUS
  <2> QED BY <1>1, <2>1, TwoTo
<1>4. q \in [Nat -> Nat \ {0}]
  <2>1. q = [n \in Nat |-> q[n]]
    BY DEF PowersOfTwo
  <2> HIDE DEF q
  <2> QED BY <1>2, <2>1
<1>5. 2^e \in Nat /\ 2^e > 1
  BY TwoToExceeds, TwoTo
<1> HIDE DEF q
<1>6. IsPowers(q, 2^e)
  BY <1>2, <1>3, <1>4, <1>5 DEF IsPowers
<1> QED BY <1>1, <1>6 DEF q

(* g[n] is what the n lowest digits of f are worth.                          *)
Sums(q, f, g) ==
  g \in [Nat -> Int] /\ g[0] = 0 /\ \A n \in Nat : g[n + 1] = g[n] + f[n] * q[n]

Worth(q, f) == CHOOSE g : Sums(q, f, g)

(* There is one such sum.                                                    *)
LEMMA WorthIs ==
  ASSUME NEW q \in [Nat -> Int], NEW f \in [Nat -> Int]
  PROVE  Sums(q, f, Worth(q, f))
<1> DEFINE Step == [p \in Int \X Nat |-> p[1] + f[p[2]] * q[p[2]]]
<1>1. Step \in [Int \X Nat -> Int]
  OBVIOUS
<1>2. \A a \in Int, n \in Nat : Step[<<a, n>>] = a + f[n] * q[n]
  OBVIOUS
<1> HIDE DEF Step
<1>3. 0 \in Int
  OBVIOUS
<1>4. PICK g \in [Nat -> Int] : IsIteration(g, 0, Step)
  BY <1>1, <1>3, Iteration, Zenon
<1>5. ASSUME NEW n \in Nat PROVE g[n + 1] = g[n] + f[n] * q[n]
  <2>1. g[n] \in Int
    OBVIOUS
  <2> QED BY <2>1, <1>2, <1>4 DEF IsIteration
<1>6. Sums(q, f, g)
  BY <1>4, <1>5 DEF Sums, IsIteration
<1> QED BY <1>6 DEF Worth

(* The sum, digit by digit.                                                  *)
LEMMA WorthStep ==
  ASSUME NEW B, NEW q, IsPowers(q, B), NEW f \in [Nat -> Int]
  PROVE  /\ Worth(q, f)[0] = 0
         /\ \A n \in Nat : /\ Worth(q, f)[n] \in Int
                           /\ Worth(q, f)[n + 1] = Worth(q, f)[n] + f[n] * q[n]
<1>1. q \in [Nat -> Int]
  BY DEF IsPowers
<1> QED BY <1>1, WorthIs DEF Sums

(* The sum as a recurrence.                                                  *)
Adds(w, q, f) ==
  w[0] = 0 /\ \A n \in Nat : w[n] \in Int /\ w[n + 1] = w[n] + f[n] * q[n]

(* Worth is one.                                                             *)
LEMMA WorthAdds ==
  ASSUME NEW B, NEW q, IsPowers(q, B), NEW f \in [Nat -> Int]
  PROVE  Adds(Worth(q, f), q, f)
BY WorthStep DEF Adds

(* Digits of the same value.                                                 *)
LEMMA WorthSame ==
  ASSUME NEW B, NEW q, IsPowers(q, B), NEW f \in [Nat -> Int], NEW h \in [Nat -> Int],
         NEW n \in Nat, \A i \in 0..n - 1 : f[i] = h[i]
  PROVE  Worth(q, f)[n] = Worth(q, h)[n]
<1> DEFINE S == {m \in Nat : m <= n => Worth(q, f)[m] = Worth(q, h)[m]}
<1>1. 0 \in S
  BY WorthStep
<1>2. ASSUME NEW m \in Nat, m \in S PROVE m + 1 \in S
  <2> SUFFICES ASSUME m + 1 <= n PROVE Worth(q, f)[m + 1] = Worth(q, h)[m + 1]
    OBVIOUS
  <2>1. m \in 0..n - 1 /\ m <= n
    OBVIOUS
  <2>2. f[m] = h[m] /\ Worth(q, f)[m] = Worth(q, h)[m]
    BY <1>2, <2>1
  <2>3. Worth(q, f)[m + 1] = Worth(q, f)[m] + f[m] * q[m]
    BY WorthStep
  <2>4. Worth(q, h)[m + 1] = Worth(q, h)[m] + h[m] * q[m]
    BY WorthStep
  <2> QED BY <2>2, <2>3, <2>4
<1> HIDE DEF S
<1>3. n \in S
  BY <1>1, <1>2, Induct
<1> QED BY <1>3 DEF S

(* Zeros at the top are worth nothing.                                       *)
LEMMA WorthBeyond ==
  ASSUME NEW B, NEW q, IsPowers(q, B), NEW f \in [Nat -> Int],
         NEW m \in Nat, NEW n \in Nat, m <= n, \A i \in m..n - 1 : f[i] = 0
  PROVE  Worth(q, f)[n] = Worth(q, f)[m]
<1> DEFINE S == {k \in Nat : m + k <= n => Worth(q, f)[m + k] = Worth(q, f)[m]}
<1>1. Adds(Worth(q, f), q, f)
  BY WorthAdds
<1>2. 0 \in S
  BY m + 0 = m
<1>3. ASSUME NEW k \in Nat, k \in S PROVE k + 1 \in S
  <2> SUFFICES ASSUME m + (k + 1) <= n PROVE Worth(q, f)[m + (k + 1)] = Worth(q, f)[m]
    OBVIOUS
  <2>1. m + k \in m..n - 1 /\ m + k <= n /\ m + k \in Nat /\ m + (k + 1) = (m + k) + 1
    OBVIOUS
  <2>2. Worth(q, f)[m + k] = Worth(q, f)[m] /\ f[m + k] = 0
    BY <1>3, <2>1
  <2>3. Worth(q, f)[(m + k) + 1] = Worth(q, f)[m + k] + f[m + k] * q[m + k]
    BY <2>1, <1>1 DEF Adds
  <2>4. q[m + k] \in Nat /\ Worth(q, f)[m] \in Int
    BY <2>1, <1>1 DEF IsPowers, Adds
  <2>5. f[m + k] * q[m + k] = 0
    BY <2>2, <2>4
  <2> QED BY <2>1, <2>2, <2>3, <2>4, <2>5
<1> HIDE DEF S
<1>4. n - m \in S
  <2>1. n - m \in Nat
    OBVIOUS
  <2> QED BY <1>2, <1>3, <2>1, Induct
<1> QED BY <1>4, m + (n - m) = n DEF S

(* A product grows with each of its factors.                                 *)
LEMMA TimesOrder ==
  ASSUME NEW a \in Nat, NEW b \in Nat, NEW p \in Nat, a <= b
  PROVE  a * p <= b * p
BY SMT

(* What is below a place stays below the next one with a digit more.         *)
LEMMA StepBound ==
  ASSUME NEW B \in Nat, NEW w \in Nat, NEW p \in Nat, NEW d \in Nat, w < p, d < B
  PROVE  w + d * p \in Nat /\ w + d * p < B * p
<1>1. (d + 1) * p <= B * p
  BY d + 1 \in Nat, d + 1 <= B, TimesOrder
<1>2. (d + 1) * p = d * p + p /\ d * p \in Nat
  OBVIOUS
<1> QED BY <1>1, <1>2

(* n digits are worth less than the n-th power.                              *)
LEMMA WorthBounds ==
  ASSUME NEW B, NEW q, IsPowers(q, B), NEW f \in [Nat -> 0..B - 1], NEW n \in Nat
  PROVE  Worth(q, f)[n] \in Nat /\ Worth(q, f)[n] < q[n]
<1> DEFINE S == {m \in Nat : Worth(q, f)[m] \in Nat /\ Worth(q, f)[m] < q[m]}
<1>1. B \in Nat /\ q[0] = 1 /\ f \in [Nat -> Int]
      /\ \A m \in Nat : q[m] \in Nat /\ q[m + 1] = B * q[m]
  BY DEF IsPowers
<1>2. Adds(Worth(q, f), q, f)
  BY <1>1, WorthAdds
<1>3. 0 \in S
  BY <1>1, <1>2 DEF Adds
<1>4. ASSUME NEW m \in Nat, m \in S PROVE m + 1 \in S
  <2> DEFINE w == Worth(q, f)[m]
             p == q[m]
             d == f[m]
  <2>1. w \in Nat /\ w < p /\ p \in Nat /\ d \in Nat /\ d < B
    BY <1>1, <1>4
  <2>2. Worth(q, f)[m + 1] = w + d * p /\ q[m + 1] = B * p
    BY <1>1, <1>2 DEF Adds
  <2> HIDE DEF w, p, d
  <2>3. w + d * p \in Nat /\ w + d * p < B * p
    BY <1>1, <2>1, StepBound
  <2> QED BY <2>2, <2>3
<1> HIDE DEF S
<1>5. n \in S
  BY <1>3, <1>4, Induct
<1> QED BY <1>5 DEF S

(* A digit that is not zero.                                                 *)
LEMMA WorthAtLeast ==
  ASSUME NEW B, NEW q, IsPowers(q, B), NEW f \in [Nat -> 0..B - 1], NEW n \in Nat, f[n] # 0
  PROVE  q[n] <= Worth(q, f)[n + 1]
<1>1. f \in [Nat -> Int] /\ q[n] \in Nat /\ f[n] \in Nat \ {0}
  BY DEF IsPowers
<1>2. Worth(q, f)[n] \in Nat
  BY WorthBounds
<1>3. Worth(q, f)[n + 1] = Worth(q, f)[n] + f[n] * q[n]
  BY <1>1, WorthStep
<1>4. ASSUME NEW d \in Nat \ {0}, NEW p \in Nat PROVE p <= d * p
  OBVIOUS
<1>5. f[n] * q[n] \in Nat
  BY <1>1
<1> QED BY <1>1, <1>2, <1>3, <1>4, <1>5

(* The i-th digits are the highest of n that differ, and h has the smaller.  *)
Below(h, f, i, n) == i < n /\ h[i] < f[i] /\ \A m \in i + 1..n - 1 : f[m] = h[m]

(* The highest digit that differs decides.                                   *)
LEMMA WorthCompare ==
  ASSUME NEW B, NEW q, IsPowers(q, B),
         NEW f \in [Nat -> 0..B - 1], NEW h \in [Nat -> 0..B - 1],
         NEW n \in Nat, NEW i \in Nat, Below(h, f, i, n)
  PROVE  Worth(q, h)[n] < Worth(q, f)[n]
<1> SUFFICES ASSUME i < n, h[i] < f[i], \A m \in i + 1..n - 1 : f[m] = h[m]
             PROVE  Worth(q, h)[n] < Worth(q, f)[n]
  BY DEF Below
<1>1. B \in Nat /\ \A m \in Nat : q[m] \in Nat
  BY DEF IsPowers
<1>2. f \in [Nat -> Int] /\ h \in [Nat -> Int]
  BY <1>1
<1>3. \A m \in Nat : Worth(q, f)[m] \in Nat
  BY WorthBounds
<1>4. \A m \in Nat : Worth(q, h)[m] \in Nat
  BY WorthBounds
<1>5. /\ f \in [Nat -> Int] /\ h \in [Nat -> Int]
      /\ \A m \in Nat : q[m] \in Nat /\ Worth(q, f)[m] \in Nat /\ Worth(q, h)[m] \in Nat
  BY <1>1, <1>2, <1>3, <1>4
<1> DEFINE S == {k \in Nat : i + 1 + k <= n => Worth(q, h)[i + 1 + k] < Worth(q, f)[i + 1 + k]}
<1>6. Adds(Worth(q, f), q, f) /\ Adds(Worth(q, h), q, h)
  BY <1>5, WorthAdds
<1>7. 0 \in S
  <2>1. Worth(q, f)[i + 1] = Worth(q, f)[i] + f[i] * q[i]
    BY <1>6 DEF Adds
  <2>2. Worth(q, h)[i + 1] = Worth(q, h)[i] + h[i] * q[i]
    BY <1>6 DEF Adds
  <2>3. Worth(q, h)[i] < q[i]
    BY WorthBounds
  <2>4. ASSUME NEW a \in Nat, NEW b \in Nat, NEW p \in Nat, b < a PROVE b * p + p <= a * p
    <3>1. (b + 1) * p <= a * p
      BY <2>4, b + 1 \in Nat, b + 1 <= a, TimesOrder
    <3>2. (b + 1) * p = b * p + p
      OBVIOUS
    <3> QED BY <3>1, <3>2
  <2>5. f[i] \in Nat /\ h[i] \in Nat /\ q[i] \in Nat
    BY <1>5
  <2>6. h[i] * q[i] + q[i] <= f[i] * q[i] /\ h[i] * q[i] \in Nat /\ f[i] * q[i] \in Nat
    BY <2>4, <2>5
  <2>7. Worth(q, f)[i] \in Nat /\ Worth(q, h)[i] \in Nat
    BY <1>5
  <2>8. Worth(q, h)[i + 1] < Worth(q, f)[i + 1]
    BY <2>1, <2>2, <2>3, <2>5, <2>6, <2>7
  <2>9. i + 1 + 0 = i + 1
    OBVIOUS
  <2> QED BY <2>8, <2>9
<1>8. ASSUME NEW k \in Nat, k \in S PROVE k + 1 \in S
  <2> SUFFICES ASSUME i + 1 + (k + 1) <= n
               PROVE  Worth(q, h)[i + 1 + (k + 1)] < Worth(q, f)[i + 1 + (k + 1)]
    OBVIOUS
  <2> DEFINE m == i + 1 + k
  <2>1. m \in Nat /\ m \in i + 1..n - 1 /\ i + 1 + (k + 1) = m + 1 /\ m <= n
    OBVIOUS
  <2>2. Worth(q, h)[m] < Worth(q, f)[m]
    BY <1>8, <2>1
  <2> HIDE DEF m
  <2>3. f[m] = h[m]
    BY <2>1
  <2>4. Worth(q, f)[m + 1] = Worth(q, f)[m] + f[m] * q[m]
    BY <1>6, <2>1 DEF Adds
  <2>5. Worth(q, h)[m + 1] = Worth(q, h)[m] + h[m] * q[m]
    BY <1>6, <2>1 DEF Adds
  <2>6. Worth(q, f)[m] \in Nat /\ Worth(q, h)[m] \in Nat
    BY <1>5, <2>1
  <2>7. h[m] * q[m] \in Int
    BY <1>5, <2>1
  <2>8. ASSUME NEW x \in Int, NEW y \in Int, NEW z \in Int, x < y PROVE x + z < y + z
    BY <2>8
  <2>9. Worth(q, h)[m + 1] < Worth(q, f)[m + 1]
    BY <2>2, <2>3, <2>4, <2>5, <2>6, <2>7, <2>8
  <2> QED BY <2>1, <2>9
<1>9. n - (i + 1) \in Nat /\ i + 1 + (n - (i + 1)) = n
  OBVIOUS
<1> HIDE DEF S
<1>10. n - (i + 1) \in S
  BY <1>7, <1>8, <1>9, Induct
<1>11. i + 1 + (n - (i + 1)) <= n
  OBVIOUS
<1> QED BY <1>9, <1>10, <1>11 DEF S

(* The k lowest digits of f are zero, the others are those of h.             *)
Shifted(f, h, k) ==
  (\A i \in 0..k - 1 : f[i] = 0) /\ (\A i \in Nat : f[i + k] = h[i])

(* Digits moved up by k places are worth the k-th power as often.            *)
LEMMA WorthShift ==
  ASSUME NEW B, NEW q, IsPowers(q, B),
         NEW f \in [Nat -> Int], NEW h \in [Nat -> Int], NEW k \in Nat, Shifted(f, h, k),
         NEW n \in Nat
  PROVE  Worth(q, f)[n + k] = q[k] * Worth(q, h)[n]
<1> USE DEF Shifted
<1>1. q[0] = 1 /\ B \in Nat /\ \A m \in Nat : q[m] \in Nat /\ q[m + 1] = B * q[m]
  BY DEF IsPowers
<1>2. Worth(q, f)[k] = 0
  BY WorthBeyond, WorthStep, 0 <= k
<1>3. \A m \in Nat : q[m + k] = q[m] * q[k]
  <2> DEFINE S == {m \in Nat : q[m + k] = q[m] * q[k]}
  <2>1. 0 \in S
    BY <1>1, 0 + k = k
  <2>2. ASSUME NEW m \in Nat, m \in S PROVE m + 1 \in S
    <3>1. (m + 1) + k = (m + k) + 1 /\ m + k \in Nat
      OBVIOUS
    <3>2. q[(m + k) + 1] = B * q[m + k] /\ q[m + 1] = B * q[m]
      BY <1>1, <3>1
    <3>3. q[m + k] = q[m] * q[k]
      BY <2>2
    <3>4. ASSUME NEW x \in Nat, NEW y \in Nat PROVE B * (x * y) = (B * x) * y
      BY <1>1
    <3>5. B * (q[m] * q[k]) = (B * q[m]) * q[k]
      BY <1>1, <3>4
    <3> QED BY <3>1, <3>2, <3>3, <3>5
  <2> HIDE DEF S
  <2>3. Nat \subseteq S
    BY <2>1, <2>2, Induct
  <2> QED BY <2>3 DEF S
<1> DEFINE S == {m \in Nat : Worth(q, f)[m + k] = q[k] * Worth(q, h)[m]}
<1>4. Adds(Worth(q, h), q, h)
  BY WorthAdds
<1>5. 0 \in S
  <2>1. Worth(q, h)[0] = 0 /\ q[k] \in Nat
    BY <1>1, <1>4 DEF Adds
  <2>2. q[k] * Worth(q, h)[0] = 0
    BY <2>1
  <2> QED BY <1>2, <2>2, 0 + k = k
<1>6. ASSUME NEW m \in Nat, m \in S PROVE m + 1 \in S
  <2>1. (m + 1) + k = (m + k) + 1 /\ m + k \in Nat
    OBVIOUS
  <2>2. Worth(q, f)[(m + k) + 1] = Worth(q, f)[m + k] + f[m + k] * q[m + k]
    BY <2>1, WorthStep
  <2>3. Worth(q, h)[m + 1] = Worth(q, h)[m] + h[m] * q[m]
    BY WorthStep
  <2>4. Worth(q, f)[m + k] = q[k] * Worth(q, h)[m] /\ f[m + k] = h[m] /\ q[m + k] = q[m] * q[k]
    BY <1>3, <1>6
  <2>5. ASSUME NEW a \in Int, NEW d \in Int, NEW x \in Nat, NEW y \in Nat
        PROVE  y * a + d * (x * y) = y * (a + d * x)
    OBVIOUS
  <2>6. h[m] \in Int /\ Worth(q, h)[m] \in Int /\ q[m] \in Nat /\ q[k] \in Nat
    BY <1>1, WorthStep
  <2>7. q[k] * Worth(q, h)[m] + h[m] * (q[m] * q[k]) = q[k] * (Worth(q, h)[m] + h[m] * q[m])
    BY <2>5, <2>6
  <2> QED BY <2>1, <2>2, <2>3, <2>4, <2>7
<1> HIDE DEF S
<1>7. n \in S
  BY <1>5, <1>6, Induct
<1> QED BY <1>7 DEF S

(* A loop with carries c that computes k * z from x * a + y * b.             *)
Carried(B, c, k, z, x, a, y, b, n) ==
  \A i \in 0..n - 1 : k * z[i] + B * c[i + 1] = x * a[i] + y * b[i] + c[i]

(* Digit by digit, what is carried out of the last one makes it good.        *)
LEMMA WorthCarry ==
  ASSUME NEW B, NEW q, IsPowers(q, B),
         NEW z \in [Nat -> Int], NEW a \in [Nat -> Int], NEW b \in [Nat -> Int],
         NEW c \in [Nat -> Int], NEW k \in Int, NEW x \in Int, NEW y \in Int, NEW n \in Nat,
         Carried(B, c, k, z, x, a, y, b, n)
  PROVE  k * Worth(q, z)[n] + q[n] * c[n] = x * Worth(q, a)[n] + y * Worth(q, b)[n] + c[0]
<1>1. q[0] = 1 /\ B \in Int /\ \A m \in Nat : q[m] \in Int /\ q[m + 1] = B * q[m]
  BY DEF IsPowers
<1> DEFINE Holds(m) ==
             k * Worth(q, z)[m] + q[m] * c[m] = x * Worth(q, a)[m] + y * Worth(q, b)[m] + c[0]
           S == {m \in Nat : m <= n => Holds(m)}
<1>2. 0 \in S
  <2>1. Worth(q, z)[0] = 0 /\ Worth(q, a)[0] = 0 /\ Worth(q, b)[0] = 0 /\ c[0] \in Int
    BY WorthStep
  <2> QED BY <1>1, <2>1
<1>3. ASSUME NEW m \in Nat, m \in S PROVE m + 1 \in S
  <2> SUFFICES ASSUME m + 1 <= n PROVE Holds(m + 1)
    OBVIOUS
  <2>1. m \in 0..n - 1 /\ m <= n
    OBVIOUS
  <2>2. Holds(m) /\ k * z[m] + B * c[m + 1] = x * a[m] + y * b[m] + c[m]
    BY <1>3, <2>1 DEF Carried
  <2>3. Worth(q, z)[m] \in Int /\ Worth(q, z)[m + 1] = Worth(q, z)[m] + z[m] * q[m]
    BY WorthStep
  <2>4. Worth(q, a)[m] \in Int /\ Worth(q, a)[m + 1] = Worth(q, a)[m] + a[m] * q[m]
    BY WorthStep
  <2>5. Worth(q, b)[m] \in Int /\ Worth(q, b)[m + 1] = Worth(q, b)[m] + b[m] * q[m]
    BY WorthStep
  <2> DEFINE zs == Worth(q, z)[m]
             xs == Worth(q, a)[m]
             ys == Worth(q, b)[m]
             zm == z[m]
             am == a[m]
             bm == b[m]
             cm == c[m]
             cn == c[m + 1]
             p == q[m]
             first == c[0]
  <2>6. p \in Int /\ zm \in Int /\ am \in Int /\ bm \in Int
    BY <1>1
  <2>7. cm \in Int /\ cn \in Int /\ first \in Int
    BY m + 1 \in Nat
  <2>8. zs \in Int /\ xs \in Int /\ ys \in Int
    BY <2>3, <2>4, <2>5
  <2>9. k * zs + p * cm = x * xs + y * ys + first /\ k * zm + B * cn = x * am + y * bm + cm
    BY <2>2
  <2>10. q[m + 1] = B * p
    BY <1>1
  <2> HIDE DEF zs, xs, ys, zm, am, bm, cm, cn, p, first
  <2>11. k * (zs + zm * p) + (B * p) * cn = x * (xs + am * p) + y * (ys + bm * p) + first
    <3>1. B \in Int
      BY <1>1
    <3>2. p * (k * zm + B * cn) = p * (x * am + y * bm + cm)
      BY <2>9
    <3>3. p * (k * zm + B * cn) = k * (zm * p) + (B * p) * cn
      BY <3>1, <2>6, <2>7
    <3>4. p * (x * am + y * bm + cm) = x * (am * p) + y * (bm * p) + p * cm
      BY <2>6, <2>7
    <3>5. k * (zs + zm * p) = k * zs + k * (zm * p)
      BY <2>6, <2>8
    <3>6. x * (xs + am * p) = x * xs + x * (am * p) /\ y * (ys + bm * p) = y * ys + y * (bm * p)
      BY <2>6, <2>8
    <3>7. /\ k * (zm * p) \in Int /\ (B * p) * cn \in Int /\ x * (am * p) \in Int
          /\ y * (bm * p) \in Int /\ p * cm \in Int
          /\ k * zs \in Int /\ x * xs \in Int /\ y * ys \in Int
      BY <3>1, <2>6, <2>7, <2>8
    <3>8. k * (zm * p) + (B * p) * cn = x * (am * p) + y * (bm * p) + p * cm
      BY <3>2, <3>3, <3>4
    <3> QED BY <2>7, <2>9, <3>5, <3>6, <3>7, <3>8
  <2> QED BY <2>3, <2>4, <2>5, <2>10, <2>11 DEF zs, xs, ys, zm, am, bm, cm, cn, p, first
<1> HIDE DEF S
<1>4. n \in S
  BY <1>2, <1>3, Induct
<1> QED BY <1>4 DEF S

-----------------------------------------------------------------------------
(* Words and their bits.                                                     *)

(* The widths.                                                               *)
LEMMA WidthsAre ==
  /\ W \in Nat /\ L \in Nat /\ L >= 1 /\ W >= 2 * L /\ W >= 2
  /\ W + 2 \in Nat \ {0} /\ W \in Nat \ {0}
BY WidthAssumption DEF T

(* A word has two bits more than a limb.                                     *)
LEMMA WordIs ==
  /\ Word = 2^(W + 2) /\ Word \in Nat /\ Word >= 16
  /\ Limb = 2^W /\ Limb \in Nat /\ Limb >= 4 /\ Word = 4 * Limb
  /\ Dword = Word * Word
<1>1. 2^2 = 4
  BY TwoTo, 1 + 1 = 2, 1 \in Nat
<1>2. 2^(W + 2) = 2^W * 4 /\ 2^W \in Nat
  BY <1>1, WidthsAre, TwoToSum, TwoTo, 2 \in Nat
<1>3. 2^W >= 4
  BY <1>1, WidthsAre, TwoToOrder, 2 \in Nat
<1>4. Dword = 2^(W + 2) * 2^(W + 2)
  <2>1. 2 * W + 4 = (W + 2) + (W + 2) /\ W + 2 \in Nat
    BY WidthsAre
  <2> QED BY <2>1, TwoToSum DEF Dword
<1> QED BY <1>2, <1>3, <1>4 DEF Word, Limb

(* The quotient and the remainder.                                           *)
LEMMA RemainderIs ==
  ASSUME NEW x \in Nat, NEW d \in Nat \ {0}
  PROVE  x % d \in Nat /\ x % d < d /\ x \div d \in Nat /\ x = d * (x \div d) + (x % d)
BY OneIsAWidth, G!DivMod

(* The lowest n bits and the others.                                         *)
LEMMA ShrIs ==
  ASSUME NEW x \in Nat, NEW n \in Nat
  PROVE  /\ Shr(x, n) \in Nat /\ x % 2^n \in Nat /\ x % 2^n < 2^n
         /\ x = 2^n * Shr(x, n) + (x % 2^n)
<1>1. 2^n \in Nat \ {0}
  BY TwoTo
<1> QED BY <1>1, RemainderIs DEF Shr

(* There is one quotient and one remainder.                                  *)
LEMMA DivIs ==
  ASSUME NEW x \in Nat, NEW d \in Nat \ {0}, NEW h \in Int, NEW l \in Nat, l < d, x = d * h + l
  PROVE  x \div d = h /\ x % d = l
<1>1. l \in 0..d - 1
  OBVIOUS
<1> QED BY <1>1, OneIsAWidth, G!DivUnique

(* What a word keeps of a number.                                            *)
LEMMA U32Is ==
  ASSUME NEW x \in Nat
  PROVE  /\ U32(x) \in 0..Word - 1 /\ x \div Word \in Nat
         /\ x = Word * (x \div Word) + U32(x)
         /\ x < Word => U32(x) = x
<1>1. Word \in Nat \ {0}
  BY WordIs
<1>2. /\ x % Word \in Nat /\ x % Word < Word /\ x \div Word \in Nat
      /\ x = Word * (x \div Word) + (x % Word)
  BY <1>1, RemainderIs
<1>3. x < Word => x % Word = x
  BY <1>1, DivIs, 0 \in Int, Word * 0 = 0
<1> QED BY <1>1, <1>2, <1>3 DEF U32

(* A common factor does not change the order.                                *)
LEMMA TimesLess ==
  ASSUME NEW a \in Nat, NEW b \in Nat, NEW p \in Nat \ {0}
  PROVE  a * p < b * p <=> a < b
<1>1. a >= b => b * p <= a * p
  BY TimesOrder
<1>2. a < b => (a + 1) * p <= b * p
  BY TimesOrder, a + 1 \in Nat
<1>3. (a + 1) * p = a * p + p
  OBVIOUS
<1>4. a * p \in Nat /\ b * p \in Nat
  OBVIOUS
<1> QED BY <1>1, <1>2, <1>3, <1>4

(* What has few bits has few of them left.                                   *)
LEMMA ShrBound ==
  ASSUME NEW x \in Nat, NEW n \in Nat, NEW m \in Nat, x < 2^(m + n)
  PROVE  Shr(x, n) < 2^m
<1>1. x = 2^n * Shr(x, n) + (x % 2^n) /\ Shr(x, n) \in Nat /\ x % 2^n \in Nat
  BY ShrIs
<1>2. 2^(m + n) = 2^m * 2^n /\ 2^m \in Nat /\ 2^n \in Nat \ {0}
  BY TwoToSum, TwoTo
<1>3. ASSUME NEW y \in Nat, NEW p \in Nat, NEW l \in Nat, NEW h \in Nat \ {0}, h * y + l < p * h
      PROVE  y < p
  <2>1. y * h < p * h
    <3>1. h * y = y * h /\ y * h \in Nat /\ p * h \in Nat
      OBVIOUS
    <3> QED BY <1>3, <3>1
  <2> QED BY <2>1, TimesLess
<1> DEFINE y == Shr(x, n)
           l == x % 2^n
           p == 2^m
           h == 2^n
<1>4. y \in Nat /\ l \in Nat /\ p \in Nat /\ h \in Nat \ {0} /\ h * y + l < p * h
  BY <1>1, <1>2
<1> HIDE DEF y, l, p, h
<1>5. y < p
  BY <1>3, <1>4
<1> QED BY <1>5 DEF y, p

(* A shift to the left: what leaves the word at the top, and what stays.     *)
LEMMA ShlIs ==
  ASSUME NEW x \in 0..Word - 1, NEW j \in Nat, NEW m \in Nat, m + j = W + 2
  PROVE  /\ Shl(x, j) = 2^j * (x % 2^m)
         /\ Shl(x, j) \in Nat /\ Shl(x, j) + 2^j <= Word
         /\ x * 2^j = Word * Shr(x, m) + Shl(x, j)
         /\ Shr(x, m) \in Nat /\ Shr(x, m) < 2^j
<1> DEFINE P == 2^j
           Q == 2^m
           h == Shr(x, m)
           l == x % Q
<1>1. Word = Q * P /\ P \in Nat \ {0} /\ Q \in Nat \ {0} /\ Word \in Nat
  BY TwoToSum, TwoTo, WordIs
<1>2. x \in Nat /\ x < Q * P
  BY <1>1
<1>3. h \in Nat /\ l \in Nat /\ l < Q /\ x = Q * h + l
  BY <1>2, ShrIs
<1>4. h < P
  <2>1. j + m = m + j /\ x < 2^(j + m)
    BY <1>1, <1>2, TwoToSum
  <2> QED BY <2>1, <1>2, ShrBound
<1>5. Shl(x, j) = (x * P) % Word
  BY DEF Shl, U32
<1> HIDE DEF P, Q, h, l
<1>6. x * P = Word * h + P * l
  <2>1. x * P = (Q * h + l) * P
    BY <1>3
  <2>2. (Q * h + l) * P = (Q * P) * h + P * l
    BY <1>1, <1>3
  <2> QED BY <2>1, <2>2, <1>1
<1>7. P * l \in Nat /\ P * l + P <= Word
  <2>1. (l + 1) * P <= Q * P
    BY <1>1, <1>3, TimesOrder, l + 1 \in Nat, l + 1 <= Q
  <2>2. (l + 1) * P = P * l + P /\ P * l \in Nat
    BY <1>1, <1>3
  <2> QED BY <2>1, <2>2, <1>1
<1>8. (x * P) % Word = P * l
  <2>1. x * P \in Nat /\ Word \in Nat \ {0} /\ P * l < Word
    <3>1. x * P \in Nat
      BY <1>1, <1>2
    <3>2. P * l < Word
      BY <1>1, <1>7
    <3> QED BY <3>1, <3>2, WordIs
  <2>2. h \in Int
    BY <1>3
  <2> HIDE DEF Shl
  <2> QED BY <2>1, <2>2, <1>6, <1>7, DivIs
<1>9. Shl(x, j) = P * l
  BY <1>5, <1>8
<1>10. P * l \in Nat /\ P * l + P <= Word
  BY <1>7
<1> QED BY <1>3, <1>4, <1>6, <1>9, <1>10 DEF P, Q, h, l

-----------------------------------------------------------------------------
(* The two numbers of a register as digits, the lowest first.                *)

WordPowers == PowersOfTwo(W + 2)

LowWords(c)  == [i \in Nat |-> IF i < c.len1 THEN c.a[i] ELSE 0]
HighWords(c) == [i \in Nat |-> IF i + c.len1 <= L THEN c.a[L - i] ELSE 0]

(* They are the powers of a word.                                            *)
LEMMA WordPowersAre ==
  /\ IsPowers(WordPowers, Word)
  /\ \A n \in Nat : WordPowers[n] = 2^((W + 2) * n) /\ WordPowers[n] \in Nat \ {0}
<1>1. W + 2 \in Nat \ {0} /\ 2^(W + 2) = Word
  BY WidthsAre, WordIs
<1>2. IsPowers(WordPowers, Word)
  BY <1>1, PowersOfTwoAre DEF WordPowers
<1>3. \A n \in Nat : WordPowers[n] = 2^((W + 2) * n)
  BY <1>1, PowersOfTwoAre DEF WordPowers
<1> QED BY <1>2, <1>3 DEF IsPowers

(* The sums of First and Second are those of Worth.                          *)
LEMMA SumsUnique ==
  ASSUME NEW f \in [Nat -> Int], NEW N \in Nat, NEW g,
         \A n \in 0..N : g[n] = IF n = 0 THEN 0
                                ELSE g[n - 1] + f[n - 1] * 2^((W + 2) * (n - 1))
  PROVE  \A n \in 0..N : g[n] = Worth(WordPowers, f)[n]
<1> DEFINE S == {n \in Nat : n <= N => g[n] = Worth(WordPowers, f)[n]}
<1>1. 0 \in S
  BY WordPowersAre, WorthStep
<1>2. ASSUME NEW n \in Nat, n \in S PROVE n + 1 \in S
  <2> SUFFICES ASSUME n + 1 <= N PROVE g[n + 1] = Worth(WordPowers, f)[n + 1]
    OBVIOUS
  <2>1. n + 1 \in 0..N /\ n + 1 # 0 /\ (n + 1) - 1 = n /\ n <= N
    OBVIOUS
  <2>2. g[n + 1] = g[n] + f[n] * 2^((W + 2) * n)
    BY <2>1
  <2>3. g[n] = Worth(WordPowers, f)[n] /\ 2^((W + 2) * n) = WordPowers[n]
    BY <1>2, <2>1, WordPowersAre
  <2>4. Worth(WordPowers, f)[n + 1] = Worth(WordPowers, f)[n] + f[n] * WordPowers[n]
    BY WordPowersAre, WorthStep
  <2> QED BY <2>2, <2>3, <2>4
<1> HIDE DEF S
<1>3. Nat \subseteq S
  BY <1>1, <1>2, Induct
<1> QED BY <1>3 DEF S

(* What a register is made of.                                               *)
LEMMA ComboIs ==
  ASSUME NEW c \in Combo
  PROVE  /\ c.a \in [Limbs -> 0..Word - 1] /\ c.len1 \in 0..L /\ c.len1 \in Nat
         /\ \A i \in Limbs : c.a[i] \in 0..Word - 1
         /\ c = [a |-> c.a, len1 |-> c.len1]
<1>1. L \in Nat
  BY WidthsAre
<1> QED BY <1>1 DEF Combo

(* The digits of the first number are words.                                 *)
LEMMA LowWordsAre ==
  ASSUME NEW c \in Combo
  PROVE  /\ LowWords(c) \in [Nat -> 0..Word - 1] /\ LowWords(c) \in [Nat -> Int]
         /\ \A i \in Nat : LowWords(c)[i] = IF i < c.len1 THEN c.a[i] ELSE 0
<1>1. \A i \in Nat : LowWords(c)[i] = IF i < c.len1 THEN c.a[i] ELSE 0
  BY DEF LowWords
<1>2. Word \in Nat /\ Word >= 1
  BY WordIs
<1>3. ASSUME NEW i \in Nat PROVE LowWords(c)[i] \in 0..Word - 1
  <2>1. CASE i < c.len1
    <3>1. i \in Limbs
      BY <2>1, ComboIs, WidthsAre DEF Limbs
    <3> QED BY <3>1, <2>1, <1>1, ComboIs
  <2>2. CASE ~(i < c.len1)
    BY <2>2, <1>1, <1>2
  <2> QED BY <2>1, <2>2
<1>4. LowWords(c) = [i \in Nat |-> LowWords(c)[i]]
  BY DEF LowWords
<1>5. LowWords(c) \in [Nat -> 0..Word - 1]
  BY <1>3, <1>4
<1>6. LowWords(c) \in [Nat -> Int]
  BY <1>3, <1>4, <1>2
<1> QED BY <1>1, <1>5, <1>6

(* So are those of the second one.                                           *)
LEMMA HighWordsAre ==
  ASSUME NEW c \in Combo
  PROVE  /\ HighWords(c) \in [Nat -> 0..Word - 1] /\ HighWords(c) \in [Nat -> Int]
         /\ \A i \in Nat : HighWords(c)[i] = IF i + c.len1 <= L THEN c.a[L - i] ELSE 0
<1>1. \A i \in Nat : HighWords(c)[i] = IF i + c.len1 <= L THEN c.a[L - i] ELSE 0
  BY DEF HighWords
<1>2. Word \in Nat /\ Word >= 1
  BY WordIs
<1>3. ASSUME NEW i \in Nat PROVE HighWords(c)[i] \in 0..Word - 1
  <2>1. CASE i + c.len1 <= L
    <3>1. L - i \in Limbs
      BY <2>1, ComboIs, WidthsAre DEF Limbs
    <3> QED BY <3>1, <2>1, <1>1, ComboIs
  <2>2. CASE ~(i + c.len1 <= L)
    BY <2>2, <1>1, <1>2
  <2> QED BY <2>1, <2>2
<1>4. HighWords(c) = [i \in Nat |-> HighWords(c)[i]]
  BY DEF HighWords
<1>5. HighWords(c) \in [Nat -> 0..Word - 1]
  BY <1>3, <1>4
<1>6. HighWords(c) \in [Nat -> Int]
  BY <1>3, <1>4, <1>2
<1> QED BY <1>1, <1>5, <1>6

(* First and Second are what they are worth.                                 *)
LEMMA FirstIs ==
  ASSUME NEW c \in Combo
  PROVE  /\ First(c) \in Nat /\ First(c) < WordPowers[c.len1]
         /\ \A n \in Nat : n >= c.len1 => Worth(WordPowers, LowWords(c))[n] = First(c)
<1> DEFINE all == [i \in Nat |-> IF i <= L THEN c.a[i] ELSE 0]
           Fix(g) == g = [n \in 0..L + 1 |-> IF n = 0 THEN 0
                            ELSE g[n - 1] + c.a[n - 1] * 2^((W + 2) * (n - 1))]
           w == Worth(WordPowers, all)
           wn == [n \in 0..L + 1 |-> w[n]]
<1>1. L \in Nat /\ c.len1 \in 0..L /\ c.len1 \in Nat
  BY WidthsAre, ComboIs
<1>2. \A i \in Limbs : c.a[i] \in Int
  <2>1. Word \in Nat
    BY WordIs
  <2> QED BY <2>1, ComboIs
<1>3. \A i \in 0..L : all[i] = c.a[i]
  BY <1>1
<1>4. all \in [Nat -> Int]
  BY <1>2, <1>1 DEF Limbs
<1> HIDE DEF all
<1>5. Fix(wn)
  <2>1. ASSUME NEW n \in 0..L + 1
        PROVE  wn[n] = IF n = 0 THEN 0 ELSE wn[n - 1] + c.a[n - 1] * 2^((W + 2) * (n - 1))
    <3>1. wn[n] = w[n]
      OBVIOUS
    <3>2. CASE n = 0
      BY <3>1, <3>2, <1>4, WordPowersAre, WorthStep
    <3>3. CASE n # 0
      <4>1. n - 1 \in Nat /\ n - 1 \in 0..L + 1 /\ n - 1 \in 0..L /\ (n - 1) + 1 = n
        BY <3>3, <1>1
      <4>2. w[(n - 1) + 1] = w[n - 1] + all[n - 1] * WordPowers[n - 1]
        BY <4>1, <1>4, WordPowersAre, WorthStep
      <4>3. wn[n - 1] = w[n - 1] /\ all[n - 1] = c.a[n - 1]
        BY <4>1, <1>3
      <4>4. WordPowers[n - 1] = 2^((W + 2) * (n - 1))
        BY <4>1, WordPowersAre
      <4> QED BY <3>1, <3>3, <4>1, <4>2, <4>3, <4>4
    <3> QED BY <3>2, <3>3
  <2> QED BY <2>1
<1> DEFINE h == CHOOSE g : Fix(g)
<1>6. Fix(h)
  <2> HIDE DEF Fix, wn
  <2> QED BY <1>5
<1>7. First(c) = h[c.len1]
  BY DEF First
<1> HIDE DEF h, wn, w
<1>8. \A n \in 0..L + 1 : h[n] = IF n = 0 THEN 0 ELSE h[n - 1] + all[n - 1] * 2^((W + 2) * (n - 1))
  <2> TAKE n \in 0..L + 1
  <2>1. h[n] = IF n = 0 THEN 0 ELSE h[n - 1] + c.a[n - 1] * 2^((W + 2) * (n - 1))
    BY <1>6
  <2>2. n # 0 => all[n - 1] = c.a[n - 1]
    BY <1>1, <1>3
  <2> QED BY <2>1, <2>2
<1>9. h[c.len1] = Worth(WordPowers, all)[c.len1]
  <2>1. L + 1 \in Nat /\ c.len1 \in 0..L + 1
    BY <1>1
  <2>2. \A n \in 0..L + 1 : h[n] = Worth(WordPowers, all)[n]
    BY <2>1, <1>4, <1>8, SumsUnique
  <2> QED BY <2>1, <2>2
<1>10. LowWords(c) \in [Nat -> Int]
  BY LowWordsAre
<1>11. Worth(WordPowers, LowWords(c))[c.len1] = Worth(WordPowers, all)[c.len1]
  <2>1. \A i \in 0..c.len1 - 1 : LowWords(c)[i] = all[i]
    BY <1>1, <1>3, LowWordsAre
  <2> QED BY <2>1, <1>1, <1>4, <1>10, WorthSame, WordPowersAre
<1>12. ASSUME NEW n \in Nat, n >= c.len1
       PROVE  Worth(WordPowers, LowWords(c))[n] = Worth(WordPowers, LowWords(c))[c.len1]
  <2>1. \A i \in c.len1..n - 1 : LowWords(c)[i] = 0
    BY <1>1, LowWordsAre
  <2> QED BY <2>1, <1>1, <1>10, <1>12, WorthBeyond, WordPowersAre
<1>13. First(c) \in Nat /\ First(c) < WordPowers[c.len1]
  BY <1>1, <1>7, <1>9, <1>11, LowWordsAre, WorthBounds, WordPowersAre
<1> QED BY <1>7, <1>9, <1>11, <1>12, <1>13

(* The second number fills the words above the first.                        *)
LEMMA SecondIs ==
  ASSUME NEW c \in Combo
  PROVE  /\ Second(c) \in Nat /\ Second(c) < WordPowers[L + 1 - c.len1]
         /\ \A n \in Nat : n + c.len1 >= L + 1 => Worth(WordPowers, HighWords(c))[n] = Second(c)
<1> DEFINE all == [i \in Nat |-> IF i <= L THEN c.a[L - i] ELSE 0]
           Fix(g) == g = [n \in 0..L + 1 |-> IF n = 0 THEN 0
                            ELSE g[n - 1] + c.a[L + 1 - n] * 2^((W + 2) * (n - 1))]
           w == Worth(WordPowers, all)
           wn == [n \in 0..L + 1 |-> w[n]]
           m == L + 1 - c.len1
<1>1. L \in Nat /\ c.len1 \in 0..L /\ c.len1 \in Nat /\ m \in Nat /\ m \in 0..L + 1
  BY WidthsAre, ComboIs
<1>2. \A i \in Limbs : c.a[i] \in Int
  <2>1. Word \in Nat
    BY WordIs
  <2> QED BY <2>1, ComboIs
<1>3. \A i \in 0..L : all[i] = c.a[L - i]
  BY <1>1
<1>4. all \in [Nat -> Int]
  <2>1. ASSUME NEW i \in Nat, i <= L PROVE L - i \in Limbs
    BY <1>1, <2>1 DEF Limbs
  <2> QED BY <1>2, <2>1
<1> HIDE DEF all
<1>5. Fix(wn)
  <2>1. ASSUME NEW n \in 0..L + 1
        PROVE  wn[n] = IF n = 0 THEN 0 ELSE wn[n - 1] + c.a[L + 1 - n] * 2^((W + 2) * (n - 1))
    <3>1. wn[n] = w[n]
      OBVIOUS
    <3>2. CASE n = 0
      BY <3>1, <3>2, <1>4, WordPowersAre, WorthStep
    <3>3. CASE n # 0
      <4>1. /\ n - 1 \in Nat /\ n - 1 \in 0..L + 1 /\ n - 1 \in 0..L /\ (n - 1) + 1 = n
            /\ L - (n - 1) = L + 1 - n
        BY <3>3, <1>1
      <4>2. w[(n - 1) + 1] = w[n - 1] + all[n - 1] * WordPowers[n - 1]
        BY <4>1, <1>4, WordPowersAre, WorthStep
      <4>3. wn[n - 1] = w[n - 1] /\ all[n - 1] = c.a[L + 1 - n]
        BY <4>1, <1>3
      <4>4. WordPowers[n - 1] = 2^((W + 2) * (n - 1))
        BY <4>1, WordPowersAre
      <4> QED BY <3>1, <3>3, <4>1, <4>2, <4>3, <4>4
    <3> QED BY <3>2, <3>3
  <2> QED BY <2>1
<1> DEFINE h == CHOOSE g : Fix(g)
<1>6. Fix(h)
  <2> HIDE DEF Fix, wn
  <2> QED BY <1>5
<1>7. Second(c) = h[m]
  BY DEF Second
<1> HIDE DEF h, wn, w
<1>8. \A n \in 0..L + 1 : h[n] = IF n = 0 THEN 0 ELSE h[n - 1] + all[n - 1] * 2^((W + 2) * (n - 1))
  <2> TAKE n \in 0..L + 1
  <2>1. h[n] = IF n = 0 THEN 0 ELSE h[n - 1] + c.a[L + 1 - n] * 2^((W + 2) * (n - 1))
    BY <1>6
  <2>2. n # 0 => all[n - 1] = c.a[L + 1 - n]
    <3> SUFFICES ASSUME n # 0 PROVE all[n - 1] = c.a[L + 1 - n]
      OBVIOUS
    <3>1. n - 1 \in 0..L /\ L - (n - 1) = L + 1 - n
      BY <1>1
    <3> QED BY <3>1, <1>3
  <2> QED BY <2>1, <2>2
<1>9. h[m] = Worth(WordPowers, all)[m]
  <2>1. L + 1 \in Nat
    BY <1>1
  <2> QED BY <2>1, <1>1, <1>4, <1>8, SumsUnique
<1>10. HighWords(c) \in [Nat -> Int]
  BY HighWordsAre
<1>11. Worth(WordPowers, HighWords(c))[m] = Worth(WordPowers, all)[m]
  <2>1. \A i \in 0..m - 1 : HighWords(c)[i] = all[i]
    BY <1>1, <1>3, HighWordsAre
  <2> HIDE DEF m
  <2> QED BY <2>1, <1>1, <1>4, <1>10, WorthSame, WordPowersAre
<1>12. ASSUME NEW n \in Nat, n + c.len1 >= L + 1
       PROVE  Worth(WordPowers, HighWords(c))[n] = Worth(WordPowers, HighWords(c))[m]
  <2>1. m <= n /\ \A i \in m..n - 1 : HighWords(c)[i] = 0
    BY <1>1, <1>12, HighWordsAre
  <2> HIDE DEF m
  <2> QED BY <2>1, <1>1, <1>10, <1>12, WorthBeyond, WordPowersAre
<1>13. Second(c) \in Nat /\ Second(c) < WordPowers[m]
  <2> HIDE DEF m
  <2> QED BY <1>1, <1>7, <1>9, <1>11, HighWordsAre, WorthBounds, WordPowersAre
<1> QED BY <1>7, <1>9, <1>11, <1>12, <1>13

-----------------------------------------------------------------------------
(* Halve.                                                                    *)

(* A set of numbers has a least one.                                         *)
LEMMA Least ==
  ASSUME NEW S \in SUBSET Nat, S # {}
  PROVE  \E n \in S : \A m \in S : n <= m
BY OneIsAWidth, G!NatLeast, Zenon

(* A sum of exponents, for any powers.                                       *)
LEMMA PowersSum ==
  ASSUME NEW B, NEW q, IsPowers(q, B), NEW k \in Nat, NEW n \in Nat
  PROVE  q[n + k] = q[n] * q[k]
<1>1. q[0] = 1 /\ B \in Nat /\ \A m \in Nat : q[m] \in Nat /\ q[m + 1] = B * q[m]
  BY DEF IsPowers
<1> DEFINE S == {m \in Nat : q[m + k] = q[m] * q[k]}
<1>2. 0 \in S
  BY <1>1, 0 + k = k
<1>3. ASSUME NEW m \in Nat, m \in S PROVE m + 1 \in S
  <2>1. (m + 1) + k = (m + k) + 1 /\ m + k \in Nat
    OBVIOUS
  <2>2. q[(m + k) + 1] = B * q[m + k] /\ q[m + 1] = B * q[m]
    BY <1>1, <2>1
  <2>3. q[m + k] = q[m] * q[k]
    BY <1>3
  <2>4. ASSUME NEW x \in Nat, NEW y \in Nat PROVE B * (x * y) = (B * x) * y
    BY <1>1
  <2>5. B * (q[m] * q[k]) = (B * q[m]) * q[k]
    BY <1>1, <2>4
  <2> QED BY <2>1, <2>2, <2>3, <2>5
<1> HIDE DEF S
<1>4. Nat \subseteq S
  BY <1>2, <1>3, Induct
<1> QED BY <1>4 DEF S

(* A factor leaves room for the other one.                                   *)
LEMMA Room ==
  ASSUME NEW m \in Nat, NEW n \in Nat, n <= m, NEW x \in Nat, NEW y \in Nat,
         WordPowers[n] <= x, x * y < WordPowers[m]
  PROVE  y < WordPowers[m - n]
<1>1. m - n \in Nat /\ (m - n) + n = m
  OBVIOUS
<1>2. WordPowers[m] = WordPowers[m - n] * WordPowers[n]
  BY <1>1, WordPowersAre, PowersSum
<1> DEFINE p == WordPowers[n]
           d == WordPowers[m - n]
<1>3. p \in Nat \ {0} /\ d \in Nat /\ p <= x /\ x * y < d * p
  BY <1>1, <1>2, WordPowersAre
<1> HIDE DEF p, d
<1>4. p * y <= x * y
  BY <1>3, TimesOrder
<1>5. p * y = y * p /\ y * p \in Nat /\ x * y \in Nat /\ d * p \in Nat
  BY <1>3
<1>6. y * p < d * p
  BY <1>3, <1>4, <1>5
<1>7. y < d
  BY <1>3, <1>6, TimesLess
<1> QED BY <1>7 DEF d

TopIsNotZero(c) == c.len1 >= 1 /\ c.a[c.len1 - 1] # 0

(* A number that is not zero has a word that is not.                         *)
LEMMA NotZero ==
  ASSUME NEW c \in Combo, First(c) # 0
  PROVE  \E n \in Limbs : c.a[n] # 0 /\ n < c.len1
<1> SUFFICES ASSUME \A n \in Limbs : n < c.len1 => c.a[n] = 0 PROVE First(c) = 0
  OBVIOUS
<1>1. c.len1 \in Nat /\ c.len1 \in 0..L /\ L \in Nat
  BY ComboIs, WidthsAre
<1>2. \A i \in 0..c.len1 - 1 : LowWords(c)[i] = 0
  BY <1>1, LowWordsAre DEF Limbs
<1>3. Worth(WordPowers, LowWords(c))[c.len1] = Worth(WordPowers, LowWords(c))[0]
  <2>1. 0 \in Nat /\ 0 <= c.len1
    BY <1>1
  <2> QED BY <2>1, <1>1, <1>2, LowWordsAre, WorthBeyond, WordPowersAre
<1>4. Worth(WordPowers, LowWords(c))[0] = 0
  BY LowWordsAre, WorthStep, WordPowersAre
<1> QED BY <1>1, <1>3, <1>4, FirstIs

(* A number whose highest word is not zero is at least that word's place.    *)
LEMMA TopCounts ==
  ASSUME NEW c \in Combo, TopIsNotZero(c)
  PROVE  WordPowers[c.len1 - 1] <= First(c)
<1>1. c.len1 \in Nat /\ c.len1 - 1 \in Nat /\ (c.len1 - 1) + 1 = c.len1 /\ c.a[c.len1 - 1] # 0
  BY ComboIs DEF TopIsNotZero
<1>2. LowWords(c)[c.len1 - 1] # 0
  BY <1>1, LowWordsAre
<1>3. WordPowers[c.len1 - 1] <= Worth(WordPowers, LowWords(c))[(c.len1 - 1) + 1]
  BY <1>1, <1>2, LowWordsAre, WorthAtLeast, WordPowersAre
<1> QED BY <1>1, <1>3, FirstIs

SameNumbers(c, d) == First(c) = First(d) /\ Second(c) = Second(d)

(* Registers of the same digits hold the same numbers.                       *)
LEMMA SameWords ==
  ASSUME NEW c \in Combo, NEW d \in Combo,
         \A i \in Nat : LowWords(c)[i] = LowWords(d)[i],
         \A i \in Nat : HighWords(c)[i] = HighWords(d)[i]
  PROVE  SameNumbers(c, d)
<1>1. LowWords(c) = LowWords(d) /\ HighWords(c) = HighWords(d)
  <2>1. /\ LowWords(c) \in [Nat -> Int] /\ LowWords(d) \in [Nat -> Int]
        /\ HighWords(c) \in [Nat -> Int] /\ HighWords(d) \in [Nat -> Int]
    BY LowWordsAre, HighWordsAre
  <2> QED BY <2>1
<1>2. /\ c.len1 \in Nat /\ d.len1 \in Nat /\ L + 1 \in Nat
      /\ c.len1 <= L + 1 /\ d.len1 <= L + 1
  BY ComboIs, WidthsAre
<1>3. /\ First(c) = Worth(WordPowers, LowWords(c))[L + 1]
      /\ First(d) = Worth(WordPowers, LowWords(d))[L + 1]
  BY <1>2, FirstIs
<1>4. /\ Second(c) = Worth(WordPowers, HighWords(c))[L + 1]
      /\ Second(d) = Worth(WordPowers, HighWords(d))[L + 1]
  <2>1. L + 1 + c.len1 >= L + 1 /\ L + 1 + d.len1 >= L + 1
    BY <1>2, WidthsAre
  <2> QED BY <2>1, <1>2, SecondIs
<1> QED BY <1>1, <1>3, <1>4 DEF SameNumbers

(* Trim drops zeros at the top of the first number, and nothing else.        *)
LEMMA TrimIs ==
  ASSUME NEW c \in Combo, First(c) # 0
  PROVE  /\ Trim(c) \in Combo /\ TopIsNotZero(Trim(c)) /\ SameNumbers(Trim(c), c)
<1>1. c.len1 \in Nat /\ c.len1 \in 0..L /\ L \in Nat
  BY ComboIs, WidthsAre
<1> DEFINE P(n) == c.a[n - 1] # 0 /\ \A i \in n..c.len1 - 1 : c.a[i] = 0
           S == {n \in Nat : n <= c.len1 /\ \A i \in n..c.len1 - 1 : c.a[i] = 0}
<1>2. PICK n \in S : \A m \in S : n <= m
  <2>1. c.len1 \in S
    BY <1>1
  <2>2. S \in SUBSET Nat
    OBVIOUS
  <2> HIDE DEF S
  <2> QED BY <2>1, <2>2, Least
<1>3. n # 0
  <2>1. PICK m \in Limbs : c.a[m] # 0 /\ m < c.len1
    BY NotZero
  <2>2. n = 0 => m \in n..c.len1 - 1
    BY <2>1, <1>1 DEF Limbs
  <2> QED BY <2>1, <2>2, <1>2
<1>4. n \in 1..c.len1 /\ P(n)
  <2>1. n \in 1..c.len1 /\ \A i \in n..c.len1 - 1 : c.a[i] = 0
    BY <1>1, <1>2, <1>3
  <2>2. c.a[n - 1] # 0
    <3> SUFFICES ASSUME c.a[n - 1] = 0 PROVE FALSE
      OBVIOUS
    <3>1. n - 1 \in Nat /\ n - 1 <= c.len1
      BY <2>1, <1>1
    <3>2. ASSUME NEW i \in n - 1..c.len1 - 1 PROVE c.a[i] = 0
      <4>1. i = n - 1 \/ i \in n..c.len1 - 1
        BY <2>1, <1>1
      <4> QED BY <4>1, <2>1
    <3>3. n - 1 \in S
      BY <3>1, <3>2
    <3> QED BY <3>3, <1>2, <2>1, <1>1
  <2> QED BY <2>1, <2>2
<1> DEFINE k == CHOOSE m \in 1..c.len1 : P(m)
<1>5. k \in 1..c.len1 /\ P(k)
  <2> HIDE DEF P
  <2> QED BY <1>4
<1>6. Trim(c) = [c EXCEPT !.len1 = k]
  BY DEF Trim
<1> HIDE DEF k
<1>7. Trim(c) = [a |-> c.a, len1 |-> k]
  BY <1>6, ComboIs
<1>8. k \in 0..L /\ k \in Nat
  BY <1>1, <1>5
<1>9. Trim(c) \in Combo /\ Trim(c).a = c.a /\ Trim(c).len1 = k
  BY <1>7, <1>8, ComboIs DEF Combo
<1>10. TopIsNotZero(Trim(c))
  BY <1>5, <1>9, <1>1 DEF TopIsNotZero
<1>11. \A i \in Nat : LowWords(Trim(c))[i] = LowWords(c)[i]
  <2> TAKE i \in Nat
  <2>1. LowWords(Trim(c))[i] = IF i < k THEN c.a[i] ELSE 0
    BY <1>9, LowWordsAre
  <2>2. LowWords(c)[i] = IF i < c.len1 THEN c.a[i] ELSE 0
    BY LowWordsAre
  <2>3. ~(i < k) /\ i < c.len1 => c.a[i] = 0
    BY <1>5, <1>1, <1>8
  <2> QED BY <2>1, <2>2, <2>3, <1>5, <1>1
<1>12. \A i \in Nat : HighWords(Trim(c))[i] = HighWords(c)[i]
  <2> TAKE i \in Nat
  <2>1. HighWords(Trim(c))[i] = IF i + k <= L THEN c.a[L - i] ELSE 0
    BY <1>9, HighWordsAre
  <2>2. HighWords(c)[i] = IF i + c.len1 <= L THEN c.a[L - i] ELSE 0
    BY HighWordsAre
  <2>3. i + k <= L /\ ~(i + c.len1 <= L) => c.a[L - i] = 0
    <3> SUFFICES ASSUME i + k <= L, ~(i + c.len1 <= L) PROVE L - i \in k..c.len1 - 1
      BY <1>5
    <3> QED BY <1>1, <1>8
  <2>4. i + c.len1 <= L => i + k <= L
    BY <1>1, <1>5
  <2> QED BY <2>1, <2>2, <2>3, <2>4
<1>13. SameNumbers(Trim(c), c)
  BY <1>9, <1>11, <1>12, SameWords
<1> QED BY <1>9, <1>10, <1>13

(* The words that DropWords drops are zero, and the next is not.             *)
LEMMA ZeroWordsAre ==
  ASSUME NEW c \in Combo, TopIsNotZero(c)
  PROVE  /\ ZeroWords(c) \in Nat /\ ZeroWords(c) < c.len1 /\ c.a[ZeroWords(c)] # 0
         /\ \A i \in 0..ZeroWords(c) - 1 : c.a[i] = 0
<1>1. /\ c.len1 \in Nat /\ c.len1 \in 0..L /\ L \in Nat /\ c.len1 >= 1
      /\ c.a[c.len1 - 1] # 0
  BY ComboIs, WidthsAre DEF TopIsNotZero
<1> DEFINE P(n) == c.a[n] # 0 /\ \A i \in 0..n - 1 : c.a[i] = 0
           S == {n \in Nat : n <= L /\ c.a[n] # 0}
<1>2. PICK n \in S : \A m \in S : n <= m
  <2>1. c.len1 - 1 \in S
    BY <1>1
  <2>2. S \in SUBSET Nat
    OBVIOUS
  <2> HIDE DEF S
  <2> QED BY <2>1, <2>2, Least
<1>3. n \in Limbs /\ P(n)
  <2>1. n \in Nat /\ n <= L /\ c.a[n] # 0
    BY <1>2
  <2>2. ASSUME NEW i \in 0..n - 1 PROVE c.a[i] = 0
    <3> SUFFICES ASSUME c.a[i] # 0 PROVE FALSE
      OBVIOUS
    <3>1. i \in S /\ i < n
      BY <2>1, <1>1
    <3> QED BY <3>1, <1>2, <2>1
  <2> QED BY <2>1, <2>2, <1>1 DEF Limbs
<1> DEFINE k == CHOOSE m \in Limbs : P(m)
<1>4. k \in Limbs /\ P(k)
  <2> HIDE DEF P
  <2> QED BY <1>3
<1>5. ZeroWords(c) = k
  BY DEF ZeroWords
<1> HIDE DEF k
<1>6. k \in Nat /\ k <= L
  BY <1>4, <1>1 DEF Limbs
<1>7. k < c.len1
  <2> SUFFICES ASSUME ~(k < c.len1) PROVE FALSE
    OBVIOUS
  <2>1. c.len1 - 1 \in 0..k - 1
    BY <1>1, <1>6
  <2> QED BY <2>1, <1>1, <1>4
<1> QED BY <1>4, <1>5, <1>6, <1>7

(* The words that are zero move from the first number to the second one.     *)
LEMMA DropWordsIs ==
  ASSUME NEW c \in Combo, TopIsNotZero(c)
  PROVE  LET d == DropWords(c)
             n == ZeroWords(c)
         IN  /\ d \in Combo /\ TopIsNotZero(d) /\ d.a[0] # 0
             /\ First(c) = WordPowers[n] * First(d)
             /\ Second(d) = WordPowers[n] * Second(c)
<1> DEFINE d == DropWords(c)
           n == ZeroWords(c)
           b == [i \in Limbs |-> IF i + n > L THEN 0 ELSE c.a[i + n]]
<1>1. /\ n \in Nat /\ n < c.len1 /\ c.a[n] # 0 /\ \A i \in 0..n - 1 : c.a[i] = 0
      /\ c.len1 \in Nat /\ c.len1 <= L /\ L \in Nat /\ c.a[c.len1 - 1] # 0
  BY ZeroWordsAre, ComboIs, WidthsAre DEF TopIsNotZero
<1>2. d = [a |-> b, len1 |-> c.len1 - n]
  BY DEF DropWords
<1> HIDE DEF d, n
<1>3. \A i \in Limbs : b[i] = IF i + n > L THEN 0 ELSE c.a[i + n]
  OBVIOUS
<1>4. \A i \in Limbs : b[i] \in 0..Word - 1
  <2> TAKE i \in Limbs
  <2>1. CASE i + n > L
    BY <2>1, <1>3, WordIs
  <2>2. CASE ~(i + n > L)
    <3>1. i + n \in Limbs
      BY <2>2, <1>1 DEF Limbs
    <3> QED BY <2>2, <3>1, <1>3, ComboIs
  <2> QED BY <2>1, <2>2
<1>5. b \in [Limbs -> 0..Word - 1]
  BY <1>4
<1> HIDE DEF b
<1>6. c.len1 - n \in 0..L /\ c.len1 - n \in Nat
  BY <1>1
<1>7. d \in Combo /\ d.a = b /\ d.len1 = c.len1 - n
  BY <1>2, <1>5, <1>6 DEF Combo
<1>8. d.a[0] # 0
  <2>1. 0 \in Limbs /\ 0 + n = n /\ ~(0 + n > L)
    BY <1>1 DEF Limbs
  <2>2. b[0] = c.a[n]
    BY <2>1, <1>3
  <2> QED BY <2>2, <1>1, <1>7
<1>9. TopIsNotZero(d)
  <2>1. (c.len1 - n) - 1 \in Limbs /\ ((c.len1 - n) - 1) + n = c.len1 - 1 /\ c.len1 - 1 <= L
    BY <1>1 DEF Limbs
  <2>2. b[(c.len1 - n) - 1] = c.a[c.len1 - 1]
    BY <2>1, <1>3, <1>1
  <2>3. c.len1 - n >= 1
    BY <1>1
  <2> QED BY <2>2, <2>3, <1>1, <1>7 DEF TopIsNotZero
<1>10. \A i \in Nat : LowWords(c)[i + n] = LowWords(d)[i]
  <2> TAKE i \in Nat
  <2>1. LowWords(d)[i] = IF i < c.len1 - n THEN b[i] ELSE 0
    BY <1>7, LowWordsAre
  <2>2. i + n \in Nat
    BY <1>1
  <2>3. LowWords(c)[i + n] = IF i + n < c.len1 THEN c.a[i + n] ELSE 0
    BY <2>2, LowWordsAre
  <2>4. i < c.len1 - n <=> i + n < c.len1
    BY <1>1
  <2>5. i + n < c.len1 => b[i] = c.a[i + n]
    <3> SUFFICES ASSUME i + n < c.len1 PROVE b[i] = c.a[i + n]
      OBVIOUS
    <3>1. i \in Limbs /\ ~(i + n > L)
      BY <1>1 DEF Limbs
    <3> QED BY <3>1, <1>3
  <2> QED BY <2>1, <2>3, <2>4, <2>5
<1>11. \A i \in 0..n - 1 : LowWords(c)[i] = 0
  <2> TAKE i \in 0..n - 1
  <2>1. i \in Nat /\ c.a[i] = 0
    BY <1>1
  <2> QED BY <2>1, LowWordsAre
<1>12. First(c) = WordPowers[n] * First(d)
  <2>1. Worth(WordPowers, LowWords(c))[L + n] = WordPowers[n] * Worth(WordPowers, LowWords(d))[L]
    <3> DEFINE f == LowWords(c)
               h == LowWords(d)
    <3>1. f \in [Nat -> Int] /\ h \in [Nat -> Int]
      BY <1>7, LowWordsAre
    <3>2. Shifted(f, h, n)
      BY <1>10, <1>11 DEF Shifted
    <3>3. n \in Nat /\ L \in Nat /\ IsPowers(WordPowers, Word)
      BY <1>1, WordPowersAre
    <3> HIDE DEF f, h
    <3>4. Worth(WordPowers, f)[L + n] = WordPowers[n] * Worth(WordPowers, h)[L]
      BY <3>1, <3>2, <3>3, WorthShift
    <3> QED BY <3>4 DEF f, h
  <2>2. L + n \in Nat /\ L + n >= c.len1 /\ L >= c.len1 - n
    BY <1>1
  <2> QED BY <2>1, <2>2, <1>1, <1>7, FirstIs
<1>13. \A i \in Nat : HighWords(d)[i + n] = HighWords(c)[i]
  <2> TAKE i \in Nat
  <2>1. i + n \in Nat
    BY <1>1
  <2>2. HighWords(d)[i + n] = IF i + n + (c.len1 - n) <= L THEN b[L - (i + n)] ELSE 0
    BY <2>1, <1>7, HighWordsAre
  <2>3. HighWords(c)[i] = IF i + c.len1 <= L THEN c.a[L - i] ELSE 0
    BY HighWordsAre
  <2>4. i + n + (c.len1 - n) <= L <=> i + c.len1 <= L
    BY <1>1
  <2>5. i + c.len1 <= L => b[L - (i + n)] = c.a[L - i]
    <3> SUFFICES ASSUME i + c.len1 <= L PROVE b[L - (i + n)] = c.a[L - i]
      OBVIOUS
    <3>1. L - (i + n) \in Limbs /\ (L - (i + n)) + n = L - i /\ ~(L - i > L)
      BY <1>1 DEF Limbs
    <3> QED BY <3>1, <1>3
  <2> QED BY <2>2, <2>3, <2>4, <2>5
<1>14. \A i \in 0..n - 1 : HighWords(d)[i] = 0
  <2> TAKE i \in 0..n - 1
  <2>1. i \in Nat /\ HighWords(d)[i] = IF i + (c.len1 - n) <= L THEN b[L - i] ELSE 0
    BY <1>1, <1>7, HighWordsAre
  <2>2. L - i \in Limbs /\ (L - i) + n > L
    BY <1>1 DEF Limbs
  <2>3. b[L - i] = 0
    BY <2>2, <1>3
  <2> QED BY <2>1, <2>3
<1>15. Second(d) = WordPowers[n] * Second(c)
  <2>1. L + 1 \in Nat /\ L + 1 + n \in Nat
    BY <1>1
  <2>2. Worth(WordPowers, HighWords(d))[L + 1 + n]
        = WordPowers[n] * Worth(WordPowers, HighWords(c))[L + 1]
    <3> DEFINE f == HighWords(d)
               h == HighWords(c)
               m == L + 1
    <3>1. f \in [Nat -> Int] /\ h \in [Nat -> Int]
      BY <1>7, HighWordsAre
    <3>2. Shifted(f, h, n)
      BY <1>13, <1>14 DEF Shifted
    <3>3. n \in Nat /\ m \in Nat /\ IsPowers(WordPowers, Word)
      BY <1>1, WordPowersAre
    <3> HIDE DEF f, h, m
    <3>4. Worth(WordPowers, f)[m + n] = WordPowers[n] * Worth(WordPowers, h)[m]
      BY <3>1, <3>2, <3>3, WorthShift
    <3> QED BY <3>4 DEF f, h, m
  <2>3. L + 1 + n + (c.len1 - n) >= L + 1 /\ L + 1 + c.len1 >= L + 1
    BY <1>1
  <2> QED BY <2>1, <2>2, <2>3, <1>1, <1>7, SecondIs
<1> QED BY <1>7, <1>8, <1>9, <1>12, <1>15 DEF d, n

(* The bits that DropBits drops are zero, and the next is not.               *)
LEMMA ZeroBitsAre ==
  ASSUME NEW c \in Combo, c.a[0] # 0
  PROVE  /\ ZeroBits(c) \in Nat /\ ZeroBits(c) <= W + 1
         /\ c.a[0] % 2^ZeroBits(c) = 0 /\ c.a[0] % 2^(ZeroBits(c) + 1) # 0
<1> DEFINE x == c.a[0]
           P(j) == x % 2^j = 0 /\ x % 2^(j + 1) # 0
           S == {j \in Nat : x % 2^j # 0}
<1>1. x \in Nat /\ x < 2^(W + 2) /\ x # 0 /\ W \in Nat
  <2>1. 0 \in Limbs
    BY WidthsAre DEF Limbs
  <2>2. x \in 0..Word - 1
    BY <2>1, ComboIs
  <2> QED BY <2>2, WordIs, WidthsAre
<1> HIDE DEF x
<1>2. PICK m \in S : \A n \in S : m <= n
  <2>1. x % 2^(W + 2) = x
    <3>1. 2^(W + 2) \in Nat \ {0} /\ x = 2^(W + 2) * 0 + x
      BY <1>1, TwoTo
    <3> QED BY <3>1, <1>1, DivIs
  <2>2. W + 2 \in S
    BY <2>1, <1>1
  <2>3. S \in SUBSET Nat
    OBVIOUS
  <2> HIDE DEF S
  <2> QED BY <2>2, <2>3, Least
<1>3. m # 0
  <2>1. x % 1 = 0
    BY <1>1
  <2> QED BY <2>1, <1>2, TwoTo
<1>4. m <= W + 2
  <2>1. x % 2^(W + 2) = x
    <3>1. 2^(W + 2) \in Nat \ {0} /\ x = 2^(W + 2) * 0 + x
      BY <1>1, TwoTo
    <3> QED BY <3>1, <1>1, DivIs
  <2>2. W + 2 \in S
    BY <2>1, <1>1
  <2> QED BY <2>2, <1>2
<1>5. m - 1 \in 0..W + 1 /\ P(m - 1)
  <2>1. m - 1 \in Nat /\ m - 1 <= W + 1 /\ (m - 1) + 1 = m
    BY <1>1, <1>2, <1>3, <1>4
  <2>2. m - 1 \notin S
    BY <1>2, <2>1
  <2> QED BY <2>1, <2>2, <1>2, <1>1
<1> DEFINE k == CHOOSE j \in 0..W + 1 : P(j)
<1>6. k \in 0..W + 1 /\ P(k)
  <2> HIDE DEF P
  <2> QED BY <1>5
<1>7. ZeroBits(c) = k
  BY DEF ZeroBits, x
<1> HIDE DEF k
<1> QED BY <1>1, <1>6, <1>7 DEF x

(* Zero stays zero.                                                          *)
LEMMA ZeroShifts ==
  ASSUME NEW j \in Nat
  PROVE  Shr(0, j) = 0 /\ Shl(0, j) = 0 /\ 0 % 2^j = 0
<1>1. 2^j \in Nat \ {0} /\ Word \in Nat \ {0}
  BY TwoTo, WordIs
<1>2. \A d \in Nat \ {0} : 0 \div d = 0 /\ 0 % d = 0
  OBVIOUS
<1>3. 0 * 2^j = 0
  BY <1>1
<1> QED BY <1>1, <1>2, <1>3 DEF Shr, Shl, U32

(* What DropBits is made of, when j bits are dropped and m stay.             *)
RightWord(c, j, m, i) ==
  Shr(c.a[i], j) + (IF i + 1 < c.len1 THEN Shl(c.a[i + 1], m) ELSE 0)

LeftWord(c, j, m, x, i) == Shl(x, j) + (IF i < L THEN Shr(c.a[i + 1], m) ELSE 0)

(* The words of a register are words.                                        *)
LEMMA WordOfRegister ==
  ASSUME NEW c \in Combo, NEW i \in Nat, i <= L
  PROVE  c.a[i] \in Nat /\ c.a[i] \in 0..Word - 1 /\ c.a[i] < Word
<1>1. i \in Limbs /\ Word \in Nat
  BY WidthsAre, WordIs DEF Limbs
<1> QED BY <1>1, ComboIs

(* The bits that stay and those that come do not overlap.                    *)
LEMMA ShiftedWord ==
  ASSUME NEW x \in 0..Word - 1, NEW y \in 0..Word - 1,
         NEW j \in Nat, NEW m \in Nat, m + j = W + 2
  PROVE  Shr(x, j) + Shl(y, m) \in 0..Word - 1 /\ Shr(x, j) \in Nat
<1>1. x \in Nat /\ x < 2^(m + j)
  BY WordIs
<1>2. Shr(x, j) < 2^m /\ Shr(x, j) \in Nat
  BY <1>1, ShrBound, ShrIs
<1>3. Shl(y, m) \in Nat /\ Shl(y, m) + 2^m <= Word
  <2>1. j + m = W + 2
    BY WidthsAre
  <2> QED BY <2>1, ShlIs
<1>4. Word \in Nat /\ 2^m \in Nat
  BY WordIs, TwoTo
<1> QED BY <1>2, <1>3, <1>4

(* A word of the first number after DropBits.                                *)
LEMMA RightWordIs ==
  ASSUME NEW c \in Combo, NEW j \in Nat, NEW m \in Nat, m + j = W + 2,
         NEW i \in Nat, i < c.len1
  PROVE  /\ RightWord(c, j, m, i) \in 0..Word - 1
         /\ RightWord(c, j, m, i) = Shr(LowWords(c)[i], j) + Shl(LowWords(c)[i + 1], m)
<1>1. c.len1 \in Nat /\ c.len1 <= L /\ L \in Nat
  BY ComboIs, WidthsAre
<1>2. LowWords(c)[i] = c.a[i]
  BY LowWordsAre
<1>3. LowWords(c)[i + 1] = IF i + 1 < c.len1 THEN c.a[i + 1] ELSE 0
  BY LowWordsAre, i + 1 \in Nat
<1>4. RightWord(c, j, m, i) = Shr(LowWords(c)[i], j) + Shl(LowWords(c)[i + 1], m)
  BY <1>2, <1>3, ZeroShifts DEF RightWord
<1>5. LowWords(c)[i] \in 0..Word - 1 /\ LowWords(c)[i + 1] \in 0..Word - 1
  BY LowWordsAre, i + 1 \in Nat
<1> QED BY <1>4, <1>5, ShiftedWord

(* A word of the second number after DropBits.                               *)
LEMMA LeftWordIs ==
  ASSUME NEW c \in Combo, NEW j \in Nat, NEW m \in Nat, m + j = W + 2,
         NEW i \in Nat, i <= L, NEW x \in 0..Word - 1
  PROVE  LeftWord(c, j, m, x, i) \in 0..Word - 1
<1>1. CASE i < L
  <2>1. i + 1 \in Nat /\ i + 1 <= L
    BY <1>1, WidthsAre
  <2>2. c.a[i + 1] \in 0..Word - 1
    BY <2>1, WordOfRegister
  <2>3. j + m = W + 2
    BY WidthsAre
  <2>4. Shr(c.a[i + 1], m) + Shl(x, j) \in 0..Word - 1
    BY <2>2, <2>3, ShiftedWord
  <2>5. Shr(c.a[i + 1], m) \in Nat /\ Shl(x, j) \in Nat
    BY <2>2, <2>3, ShiftedWord, ShlIs
  <2> QED BY <1>1, <2>4, <2>5 DEF LeftWord
<1>2. CASE ~(i < L)
  <2>1. Shl(x, j) \in Nat /\ Shl(x, j) + 2^j <= Word /\ 2^j \in Nat \ {0} /\ Word \in Nat
    BY ShlIs, TwoTo, WordIs
  <2> QED BY <1>2, <2>1 DEF LeftWord
<1> QED BY <1>1, <1>2

(* DropBits, word by word.                                                   *)
LEMMA DropBitsUnfold ==
  ASSUME NEW c \in Combo, TopIsNotZero(c), c.a[0] # 0,
         NEW j, j = ZeroBits(c), j # 0, NEW m, m = W + 2 - j,
         NEW top, top = c.len1 - 1
  PROVE  LET d == DropBits(c)
             empty == RightWord(c, j, m, top) = 0
         IN  /\ d \in Combo
             /\ d.len1 = IF empty THEN top ELSE c.len1
             /\ \A i \in Limbs :
                  d.a[i] = IF i < top \/ (i = top /\ ~empty) THEN RightWord(c, j, m, i)
                           ELSE LeftWord(c, j, m, IF i = top THEN 0 ELSE c.a[i], i)
<1> DEFINE empty == RightWord(c, j, m, top) = 0
           word(i) == IF i < top \/ (i = top /\ ~empty) THEN RightWord(c, j, m, i)
                      ELSE LeftWord(c, j, m, IF i = top THEN 0 ELSE c.a[i], i)
           b == [i \in Limbs |-> word(i)]
           k == IF empty THEN top ELSE c.len1
<1>1. /\ c.len1 \in Nat /\ c.len1 <= L /\ L \in Nat /\ c.len1 >= 1 /\ top \in Nat /\ top < c.len1
      /\ j \in Nat /\ m \in Nat /\ m + j = W + 2
  BY ComboIs, WidthsAre, ZeroBitsAre DEF TopIsNotZero
<1>2. DropBits(c) = [a |-> b, len1 |-> k]
  BY DEF DropBits, RightWord, LeftWord
<1>3. \A i \in Limbs : word(i) \in 0..Word - 1
  <2> TAKE i \in Limbs
  <2>1. i \in Nat /\ i <= L
    BY <1>1 DEF Limbs
  <2>2. i <= top => i < c.len1
    BY <1>1, <2>1
  <2>3. i <= top => RightWord(c, j, m, i) \in 0..Word - 1
    BY <1>1, <2>1, <2>2, RightWordIs
  <2>4. 0 \in 0..Word - 1 /\ c.a[i] \in 0..Word - 1
    BY <2>1, WordOfRegister, WordIs
  <2>5. \A x \in 0..Word - 1 : LeftWord(c, j, m, x, i) \in 0..Word - 1
    BY <1>1, <2>1, LeftWordIs
  <2>6. LeftWord(c, j, m, IF i = top THEN 0 ELSE c.a[i], i) \in 0..Word - 1
    BY <2>4, <2>5
  <2>7. i < top \/ (i = top /\ ~empty) => i <= top
    BY <2>1, <1>1
  <2> QED BY <2>3, <2>6, <2>7
<1> HIDE DEF word
<1>4. b \in [Limbs -> 0..Word - 1] /\ \A i \in Limbs : b[i] = word(i)
  BY <1>3
<1> HIDE DEF b
<1>5. k \in 0..L
  BY <1>1
<1>6. DropBits(c) \in Combo /\ DropBits(c).a = b /\ DropBits(c).len1 = k
  BY <1>2, <1>4, <1>5 DEF Combo
<1> QED BY <1>4, <1>6 DEF word

(* The lowest bit that stays is 1.                                           *)
LEMMA OddAfterwards ==
  ASSUME NEW x \in 0..Word - 1, NEW y \in 0..Word - 1, NEW j \in Nat, NEW m \in Nat \ {0},
         m + j = W + 2, x % 2^j = 0, x % 2^(j + 1) # 0
  PROVE  (Shr(x, j) + Shl(y, m)) % 2 = 1
<1>1. x \in Nat
  BY WordIs
<1>2. x \in Nat /\ x = 2^j * Shr(x, j) + (x % 2^j) /\ Shr(x, j) \in Nat
  BY <1>1, ShrIs
<1> DEFINE h == Shr(x, j)
           p == 2^j
<1>3. h % 2 # 0
  <2> SUFFICES ASSUME h % 2 = 0 PROVE FALSE
    OBVIOUS
  <2>1. PICK k \in Nat : h = 2 * k
    <3>1. h \in Nat
      BY <1>2
    <3> HIDE DEF h
    <3> QED BY <3>1
  <2>2. p \in Nat \ {0} /\ 2^(j + 1) = 2 * p /\ x = p * h
    BY <1>2, TwoTo
  <2>3. p * (2 * k) = (2 * p) * k
    BY <2>2
  <2> HIDE DEF p, h
  <2>4. x = (2 * p) * k + 0
    BY <2>1, <2>2, <2>3
  <2>5. x % (2 * p) = 0
    <3> DEFINE d == 2 * p
    <3>1. d \in Nat \ {0} /\ x = d * k + 0 /\ k \in Int /\ 0 \in Nat /\ 0 < d
      BY <2>2, <2>4
    <3> HIDE DEF d
    <3>2. x % d = 0
      BY <1>1, <3>1, DivIs
    <3> QED BY <3>2 DEF d
  <2> QED BY <2>2, <2>5
<1>4. PICK k \in Nat : Shl(y, m) = 2 * k
  <2>1. j + m = W + 2 /\ m - 1 \in Nat /\ (m - 1) + 1 = m
    BY WidthsAre
  <2>2. Shl(y, m) = 2^m * (y % 2^j) /\ y \in Nat
    BY <2>1, ShlIs, WordIs
  <2>3. 2^m = 2 * 2^(m - 1) /\ 2^(m - 1) \in Nat /\ y % 2^j \in Nat
    BY <2>1, <2>2, TwoTo, ShrIs
  <2>4. ASSUME NEW a \in Nat, NEW b \in Nat PROVE (2 * a) * b = 2 * (a * b) /\ a * b \in Nat
    OBVIOUS
  <2> DEFINE a == 2^(m - 1)
             b == y % 2^j
  <2>5. a \in Nat /\ b \in Nat /\ Shl(y, m) = (2 * a) * b
    BY <2>2, <2>3
  <2> HIDE DEF a, b
  <2> QED BY <2>4, <2>5
<1>5. h \in Nat
  BY <1>2
<1> HIDE DEF h
<1>6. (h + 2 * k) % 2 = 1
  BY <1>3, <1>5
<1> QED BY <1>4, <1>6 DEF h

(* What DropBitsUnfold says of d.                                            *)
Dropped(c, d, j, m, top, empty) ==
  /\ c \in Combo /\ d \in Combo /\ TopIsNotZero(c) /\ c.a[0] # 0
  /\ j \in Nat \ {0} /\ m \in Nat \ {0} /\ m + j = W + 2
  /\ c.a[0] % 2^j = 0 /\ c.a[0] % 2^(j + 1) # 0
  /\ top \in Nat /\ c.len1 = top + 1 /\ c.len1 <= L
  /\ (empty <=> RightWord(c, j, m, top) = 0)
  /\ d.len1 = IF empty THEN top ELSE c.len1
  /\ \A i \in Limbs :
       d.a[i] = IF i < top \/ (i = top /\ ~empty) THEN RightWord(c, j, m, i)
                ELSE LeftWord(c, j, m, IF i = top THEN 0 ELSE c.a[i], i)

(* DropBits does that.                                                       *)
LEMMA DroppedIs ==
  ASSUME NEW c \in Combo, TopIsNotZero(c), c.a[0] # 0, ZeroBits(c) # 0
  PROVE  LET j == ZeroBits(c)
             m == W + 2 - j
             top == c.len1 - 1
         IN  Dropped(c, DropBits(c), j, m, top, RightWord(c, j, m, top) = 0)
<1> DEFINE j == ZeroBits(c)
           m == W + 2 - j
           top == c.len1 - 1
<1>1. /\ j \in Nat \ {0} /\ j <= W + 1 /\ c.a[0] % 2^j = 0 /\ c.a[0] % 2^(j + 1) # 0
  BY ZeroBitsAre
<1>2. m \in Nat \ {0} /\ m + j = W + 2
  <2> HIDE DEF j
  <2> QED BY <1>1, WidthsAre
<1>3. c.len1 \in Nat /\ c.len1 <= L /\ c.len1 >= 1
  BY ComboIs, WidthsAre DEF TopIsNotZero
<1>4. top \in Nat /\ c.len1 = top + 1
  BY <1>3
<1>5. j = ZeroBits(c) /\ m = W + 2 - j /\ top = c.len1 - 1
  OBVIOUS
<1> HIDE DEF j, m, top
<1>6. /\ DropBits(c) \in Combo
      /\ DropBits(c).len1 = IF RightWord(c, j, m, top) = 0 THEN top ELSE c.len1
      /\ \A i \in Limbs :
           DropBits(c).a[i] = IF i < top \/ (i = top /\ ~(RightWord(c, j, m, top) = 0))
                              THEN RightWord(c, j, m, i)
                              ELSE LeftWord(c, j, m, IF i = top THEN 0 ELSE c.a[i], i)
  BY <1>1, <1>5, DropBitsUnfold
<1>7. Dropped(c, DropBits(c), j, m, top, RightWord(c, j, m, top) = 0)
  BY <1>1, <1>2, <1>3, <1>4, <1>6 DEF Dropped
<1> QED BY <1>7, <1>5

(* The first number keeps a highest word, and is odd.                        *)
LEMMA DroppedEnds ==
  ASSUME NEW c, NEW d, NEW j, NEW m, NEW top, NEW empty, Dropped(c, d, j, m, top, empty)
  PROVE  TopIsNotZero(d) /\ d.a[0] % 2 = 1
<1>1. /\ c \in Combo /\ d \in Combo /\ TopIsNotZero(c) /\ c.a[0] # 0
      /\ j \in Nat \ {0} /\ m \in Nat \ {0} /\ m + j = W + 2
      /\ c.a[0] % 2^j = 0 /\ c.a[0] % 2^(j + 1) # 0
      /\ top \in Nat /\ c.len1 = top + 1 /\ c.len1 <= L
      /\ (empty <=> RightWord(c, j, m, top) = 0)
      /\ d.len1 = IF empty THEN top ELSE c.len1
      /\ L \in Nat
  BY WidthsAre DEF Dropped
<1>2. \A i \in 0..top : i < top \/ ~empty => d.a[i] = RightWord(c, j, m, i)
  <2> TAKE i \in 0..top
  <2>1. i \in Limbs /\ (i < top \/ i = top)
    BY <1>1 DEF Limbs
  <2> QED BY <2>1 DEF Dropped
<1>3. \A i \in 0..top :
        /\ RightWord(c, j, m, i) = Shr(c.a[i], j) + Shl(LowWords(c)[i + 1], m)
        /\ c.a[i] \in 0..Word - 1 /\ LowWords(c)[i + 1] \in 0..Word - 1
        /\ Shr(c.a[i], j) \in Nat /\ Shl(LowWords(c)[i + 1], m) \in Nat
  <2> TAKE i \in 0..top
  <2>1. i \in Nat /\ i < c.len1 /\ i + 1 \in Nat /\ i <= L
    BY <1>1
  <2>2. LowWords(c)[i] = c.a[i] /\ LowWords(c)[i + 1] \in 0..Word - 1
    BY <1>1, <2>1, LowWordsAre
  <2>3. RightWord(c, j, m, i) = Shr(LowWords(c)[i], j) + Shl(LowWords(c)[i + 1], m)
    BY <1>1, <2>1, RightWordIs
  <2>4. c.a[i] \in 0..Word - 1
    BY <1>1, <2>1, WordOfRegister
  <2>5. j + m = W + 2
    BY <1>1, WidthsAre
  <2>6. Shr(c.a[i], j) \in Nat /\ Shl(LowWords(c)[i + 1], m) \in Nat
    BY <1>1, <2>2, <2>4, <2>5, ShiftedWord, ShlIs
  <2> QED BY <2>2, <2>3, <2>4, <2>6
<1>4. c.a[top] # 0 /\ c.a[top] \in 0..Word - 1
  BY <1>1, <1>3 DEF TopIsNotZero
<1>5. ASSUME empty, top = 0 PROVE FALSE
  <2>1. Shr(c.a[0], j) + Shl(LowWords(c)[0 + 1], m) = 0
    <3>1. RightWord(c, j, m, 0) = 0
      BY <1>1, <1>5
    <3>2. 0 \in 0..top
      BY <1>1
    <3> QED BY <3>1, <3>2, <1>3
  <2>2. Shr(c.a[0], j) = 0
    BY <2>1, <1>3, <1>1
  <2>3. c.a[0] \in Nat /\ c.a[0] = 2^j * Shr(c.a[0], j) + (c.a[0] % 2^j)
    BY <1>1, ShrIs, WordOfRegister, 0 <= L
  <2>4. 2^j \in Nat
    BY <1>1, TwoTo
  <2> QED BY <1>1, <2>2, <2>3, <2>4
<1>6. TopIsNotZero(d)
  <2>1. CASE ~empty
    <3>1. d.a[top] = RightWord(c, j, m, top)
      BY <1>1, <1>2, <2>1
    <3>2. d.len1 - 1 = top /\ d.len1 >= 1 /\ RightWord(c, j, m, top) # 0
      BY <1>1, <2>1
    <3> QED BY <3>1, <3>2 DEF TopIsNotZero
  <2>2. CASE empty
    <3>1. top - 1 \in 0..top /\ top - 1 < top /\ (top - 1) + 1 = top /\ top \in 0..top
      BY <1>1, <1>5, <2>2
    <3>2. d.a[top - 1] = Shr(c.a[top - 1], j) + Shl(LowWords(c)[top], m)
      BY <1>2, <1>3, <3>1
    <3>3. LowWords(c)[top] = c.a[top]
      BY <1>1, LowWordsAre
    <3>4. Shr(c.a[top], j) = 0
      <4>1. RightWord(c, j, m, top) = 0
        BY <1>1, <2>2
      <4>2. Shr(c.a[top], j) + Shl(LowWords(c)[top + 1], m) = 0
        BY <4>1, <1>3, <3>1
      <4> QED BY <4>2, <1>3, <3>1
    <3>5. j + m = W + 2 /\ c.a[top] \in Nat
      BY <1>1, <1>4, WidthsAre, WordIs
    <3>6. Shl(c.a[top], m) = 2^m * (c.a[top] % 2^j)
      BY <1>1, <1>4, <3>5, ShlIs
    <3>7. c.a[top] = 2^j * 0 + (c.a[top] % 2^j) /\ 2^j \in Nat
      BY <1>1, <3>4, <3>5, ShrIs, TwoTo
    <3>8. c.a[top] % 2^j = c.a[top]
      <4> DEFINE x == c.a[top] % 2^j
                 p == 2^j
      <4>1. c.a[top] = p * 0 + x /\ p \in Nat /\ c.a[top] \in Nat /\ x \in Nat
        BY <3>7, <3>5, <1>1, ShrIs
      <4>2. x = c.a[top] % 2^j
        OBVIOUS
      <4> HIDE DEF x, p
      <4> QED BY <4>1, <4>2
    <3>9. 2^m * c.a[top] # 0
      <4>1. 2^m \in Nat \ {0} /\ c.a[top] \in Nat \ {0}
        BY <1>1, <1>4, <3>5, TwoTo
      <4>2. ASSUME NEW x \in Nat \ {0}, NEW y \in Nat \ {0} PROVE x * y # 0
        OBVIOUS
      <4> QED BY <4>1, <4>2
    <3>10. Shl(LowWords(c)[top], m) # 0
      BY <3>3, <3>6, <3>8, <3>9
    <3>11. d.a[top - 1] # 0
      <4>1. Shr(c.a[top - 1], j) \in Nat /\ Shl(LowWords(c)[(top - 1) + 1], m) \in Nat
        BY <1>3, <3>1
      <4> QED BY <3>1, <3>2, <3>10, <4>1
    <3> QED BY <3>1, <3>11, <1>1, <2>2 DEF TopIsNotZero
  <2> QED BY <2>1, <2>2
<1>7. d.a[0] % 2 = 1
  <2>1. 0 \in 0..top /\ (0 < top \/ ~empty)
    BY <1>1, <1>5
  <2>2. d.a[0] = Shr(c.a[0], j) + Shl(LowWords(c)[0 + 1], m)
    BY <1>2, <1>3, <2>1
  <2>3. c.a[0] \in 0..Word - 1 /\ LowWords(c)[0 + 1] \in 0..Word - 1
    BY <1>3, <2>1
  <2> QED BY <1>1, <2>2, <2>3, OddAfterwards
<1> QED BY <1>6, <1>7

(* The first number is divided by 2^j.                                       *)
LEMMA DroppedFirst ==
  ASSUME NEW c, NEW d, NEW j, NEW m, NEW top, NEW empty, Dropped(c, d, j, m, top, empty)
  PROVE  First(c) = 2^j * First(d)
<1>1. /\ c \in Combo /\ d \in Combo
      /\ j \in Nat \ {0} /\ m \in Nat \ {0} /\ m + j = W + 2
      /\ c.a[0] % 2^j = 0
      /\ top \in Nat /\ c.len1 = top + 1 /\ c.len1 <= L
      /\ (empty <=> RightWord(c, j, m, top) = 0)
      /\ d.len1 = IF empty THEN top ELSE c.len1
      /\ L \in Nat /\ j \in Nat /\ m \in Nat
  BY WidthsAre DEF Dropped
<1> DEFINE f == LowWords(c)
           h == LowWords(d)
           carry == [i \in Nat |-> -(f[i] % 2^j)]
<1>2. /\ f \in [Nat -> Int] /\ h \in [Nat -> Int]
      /\ \A i \in Nat : f[i] \in 0..Word - 1 /\ f[i] \in Nat
  <2>1. Word \in Nat
    BY WordIs
  <2> QED BY <1>1, <2>1, LowWordsAre
<1>3. /\ \A i \in Nat : f[i] = IF i < c.len1 THEN c.a[i] ELSE 0
      /\ \A i \in Nat : h[i] = IF i < d.len1 THEN d.a[i] ELSE 0
  BY <1>1, LowWordsAre
<1> HIDE DEF f, h
<1>4. \A i \in Nat : f[i] % 2^j \in Nat
  BY <1>1, <1>2, ShrIs
<1>5. carry \in [Nat -> Int] /\ \A i \in Nat : carry[i] = -(f[i] % 2^j)
  BY <1>4
<1> HIDE DEF carry
<1>6. \A i \in Nat : h[i] = Shr(f[i], j) + Shl(f[i + 1], m)
  <2> TAKE i \in Nat
  <2>1. i + 1 \in Nat
    OBVIOUS
  <2>2. CASE i < c.len1
    <3>1. i \in Limbs /\ i <= top
      BY <2>2, <1>1 DEF Limbs
    <3>2. RightWord(c, j, m, i) = Shr(f[i], j) + Shl(f[i + 1], m)
      BY <1>1, <2>2, RightWordIs DEF f
    <3>3. CASE i < top \/ ~empty
      <4>1. d.a[i] = RightWord(c, j, m, i) /\ i < d.len1
        BY <1>1, <3>1, <3>3 DEF Dropped
      <4> QED BY <4>1, <3>2, <1>3
    <3>4. CASE i = top /\ empty
      <4>1. RightWord(c, j, m, i) = 0 /\ h[i] = 0
        BY <1>1, <1>3, <3>4
      <4> QED BY <4>1, <3>2
    <3> QED BY <3>1, <3>3, <3>4, <1>1
  <2>3. CASE ~(i < c.len1)
    <3>1. f[i] = 0 /\ f[i + 1] = 0 /\ h[i] = 0
      BY <1>1, <1>3, <2>1, <2>3
    <3> QED BY <3>1, <1>1, ZeroShifts
  <2> QED BY <2>2, <2>3
<1>7. \A i \in Nat : 2^j * h[i] + Word * carry[i + 1] = 1 * f[i] + 0 * f[i] + carry[i]
  <2> TAKE i \in Nat
  <2>1. i + 1 \in Nat
    OBVIOUS
  <2> DEFINE x == f[i]
             y == f[i + 1]
             p == 2^j
             b == 2^m
  <2>2. x \in Nat /\ y \in Nat /\ y \in 0..Word - 1 /\ p \in Nat /\ b \in Nat
    BY <2>1, <1>1, <1>2, TwoTo
  <2>3. x = p * Shr(x, j) + (x % p) /\ Shr(x, j) \in Nat /\ x % p \in Nat
    BY <1>1, <2>2, ShrIs
  <2>4. Shl(y, m) = b * (y % p) /\ y % p \in Nat
    <3>1. j + m = W + 2
      BY <1>1, WidthsAre
    <3>2. Shl(y, m) = b * (y % p)
      BY <3>1, <1>1, <2>2, ShlIs
    <3> QED BY <3>2, <1>1, <2>2, ShrIs
  <2>5. Word = b * p
    BY <1>1, WordIs, TwoToSum
  <2>6. h[i] = Shr(x, j) + b * (y % p) /\ carry[i] = -(x % p) /\ carry[i + 1] = -(y % p)
    BY <1>5, <1>6, <2>1, <2>4
  <2> DEFINE sx == Shr(x, j)
             xl == x % p
             yl == y % p
  <2>7. sx \in Nat /\ xl \in Nat /\ yl \in Nat /\ x = p * sx + xl
    BY <2>3, <2>4
  <2> HIDE DEF sx, xl, yl, x, y, p, b
  <2>8. p * (sx + b * yl) = p * sx + (b * p) * yl
    BY <2>2, <2>7
  <2>9. (b * p) * (-yl) = -((b * p) * yl)
    BY <2>2, <2>7
  <2>10. p * sx \in Nat /\ (b * p) * yl \in Nat
    BY <2>2, <2>7
  <2>11. p * (sx + b * yl) + (b * p) * (-yl) = 1 * x + 0 * x + (-xl)
    BY <2>2, <2>7, <2>8, <2>9, <2>10
  <2>12. h[i] = sx + b * yl /\ carry[i] = -xl /\ carry[i + 1] = -yl
    BY <2>6 DEF sx, xl, yl
  <2> QED BY <2>5, <2>11, <2>12 DEF x, p
<1>8. 2^j * Worth(WordPowers, h)[L + 1] + WordPowers[L + 1] * carry[L + 1]
        = 1 * Worth(WordPowers, f)[L + 1] + 0 * Worth(WordPowers, f)[L + 1] + carry[0]
  <2> DEFINE n == L + 1
             p == 2^j
  <2>1. n \in Nat /\ p \in Int /\ 1 \in Int /\ 0 \in Int
    BY <1>1, TwoTo
  <2>2. Carried(Word, carry, p, h, 1, f, 0, f, n)
    BY <1>7 DEF Carried
  <2> HIDE DEF n, p
  <2>3. p * Worth(WordPowers, h)[n] + WordPowers[n] * carry[n]
          = 1 * Worth(WordPowers, f)[n] + 0 * Worth(WordPowers, f)[n] + carry[0]
    BY <1>2, <1>5, <2>1, <2>2, WordPowersAre, WorthCarry
  <2> QED BY <2>3 DEF n, p
<1>9. carry[0] = 0 /\ carry[L + 1] = 0
  <2>1. f[0] = c.a[0] /\ f[L + 1] = 0 /\ L + 1 \in Nat
    BY <1>1, <1>3
  <2>2. f[0] % 2^j = 0 /\ f[L + 1] % 2^j = 0
    BY <2>1, <1>1, ZeroShifts
  <2> QED BY <2>1, <2>2, <1>5
<1>10. Worth(WordPowers, f)[L + 1] = First(c) /\ Worth(WordPowers, h)[L + 1] = First(d)
  <2>1. L + 1 \in Nat /\ L + 1 >= c.len1 /\ L + 1 >= d.len1
    BY <1>1
  <2> QED BY <2>1, <1>1, FirstIs DEF f, h
<1>11. First(c) \in Nat /\ First(d) \in Nat /\ WordPowers[L + 1] \in Nat /\ 2^j \in Nat
  BY <1>1, FirstIs, WordPowersAre, TwoTo, L + 1 \in Nat
<1>12. 2^j * First(d) + WordPowers[L + 1] * 0 = 1 * First(c) + 0 * First(c) + 0
  BY <1>8, <1>9, <1>10
<1> QED BY <1>11, <1>12

(* The words of the second number after DropBits.                            *)
LEMMA DroppedHigh ==
  ASSUME NEW c, NEW d, NEW j, NEW m, NEW top, NEW empty, Dropped(c, d, j, m, top, empty),
         NEW i \in Nat, i + d.len1 <= L
  PROVE  HighWords(d)[i] = Shl(HighWords(c)[i], j)
                           + (IF i = 0 THEN 0 ELSE Shr(HighWords(c)[i - 1], m))
<1>1. /\ c \in Combo /\ d \in Combo
      /\ j \in Nat /\ m \in Nat
      /\ top \in Nat /\ c.len1 = top + 1 /\ c.len1 <= L /\ c.len1 \in Nat
      /\ d.len1 = (IF empty THEN top ELSE c.len1) /\ d.len1 \in Nat
      /\ L \in Nat
  <2>1. /\ c \in Combo /\ d \in Combo
        /\ j \in Nat /\ m \in Nat
        /\ top \in Nat /\ c.len1 = top + 1 /\ c.len1 <= L
        /\ d.len1 = (IF empty THEN top ELSE c.len1)
    BY DEF Dropped
  <2> QED BY <2>1, WidthsAre, ComboIs
<1> DEFINE n == L - i
<1>2. n \in Limbs /\ n >= d.len1 /\ n \in Nat /\ n <= L /\ n = L - i
  BY <1>1 DEF Limbs
<1>3. n >= top /\ (n = top => empty)
  BY <1>1, <1>2
<1>4. /\ HighWords(d)[i] = d.a[n]
      /\ HighWords(c)[i] = IF n = top THEN 0 ELSE c.a[n]
  <2>1. HighWords(d)[i] = d.a[n]
    BY <1>1, HighWordsAre
  <2>2. HighWords(c)[i] = IF i + c.len1 <= L THEN c.a[n] ELSE 0
    BY <1>1, HighWordsAre
  <2>3. i + c.len1 <= L <=> n # top
    BY <1>1, <1>2, <1>3
  <2> QED BY <2>1, <2>2, <2>3
<1>5. d.a[n] = LeftWord(c, j, m, IF n = top THEN 0 ELSE c.a[n], n)
  <2>1. ~(n < top \/ (n = top /\ ~empty))
    BY <1>1, <1>2, <1>3
  <2>2. d.a[n] = IF n < top \/ (n = top /\ ~empty) THEN RightWord(c, j, m, n)
                 ELSE LeftWord(c, j, m, IF n = top THEN 0 ELSE c.a[n], n)
    BY <1>2 DEF Dropped
  <2> QED BY <2>1, <2>2
<1>6. d.a[n] = Shl(HighWords(c)[i], j) + (IF n < L THEN Shr(c.a[n + 1], m) ELSE 0)
  BY <1>4, <1>5 DEF LeftWord
<1>7. n < L <=> i # 0
  BY <1>1, <1>2
<1>8. i # 0 => HighWords(c)[i - 1] = c.a[n + 1]
  <2> SUFFICES ASSUME i # 0 PROVE HighWords(c)[i - 1] = c.a[n + 1]
    OBVIOUS
  <2>1. i - 1 \in Nat /\ (i - 1) + c.len1 <= L /\ L - (i - 1) = n + 1
    BY <1>1, <1>2, <1>3
  <2> QED BY <1>1, <2>1, HighWordsAre
<1> QED BY <1>4, <1>6, <1>7, <1>8

(* What is carried out of a number that fits is 0.                           *)
LEMMA NoCarry ==
  ASSUME NEW w \in Nat, NEW p \in Nat, NEW x \in Nat, NEW y \in Nat, w + p * x = y, y < p
  PROVE  w = y
<1>1. CASE x = 0
  BY <1>1
<1>2. CASE x # 0
  <2>1. x - 1 \in Nat /\ p * (x - 1) \in Nat
    BY <1>2
  <2>2. p * x = p * (x - 1) + p
    BY <2>1
  <2> QED BY <2>1, <2>2
<1> QED BY <1>1, <1>2

(* The second number has grown by as much as the first one has lost, if its  *)
(* words leave room for it.                                                  *)
LEMMA DroppedSecond ==
  ASSUME NEW c, NEW d, NEW j, NEW m, NEW top, NEW empty, Dropped(c, d, j, m, top, empty),
         First(c) * Second(c) < WordPowers[L]
  PROVE  Second(d) = 2^j * Second(c)
<1>1. /\ c \in Combo /\ d \in Combo
      /\ j \in Nat /\ m \in Nat /\ m + j = W + 2
      /\ top \in Nat /\ c.len1 = top + 1 /\ c.len1 <= L /\ c.len1 \in Nat
      /\ d.len1 = (IF empty THEN top ELSE c.len1) /\ d.len1 \in Nat
      /\ L \in Nat
  <2>1. /\ c \in Combo /\ d \in Combo
        /\ j \in Nat /\ m \in Nat /\ m + j = W + 2
        /\ top \in Nat /\ c.len1 = top + 1 /\ c.len1 <= L
        /\ d.len1 = (IF empty THEN top ELSE c.len1)
    BY DEF Dropped
  <2> QED BY <2>1, WidthsAre, ComboIs
<1>2. TopIsNotZero(d) /\ First(c) = 2^j * First(d)
  BY DroppedEnds, DroppedFirst
<1> DEFINE f == HighWords(c)
           h == HighWords(d)
           carry == [i \in Nat |-> IF i = 0 THEN 0 ELSE Shr(f[i - 1], m)]
           p == 2^j
           n == L + 1 - d.len1
<1>3. /\ f \in [Nat -> Int] /\ h \in [Nat -> Int] /\ h \in [Nat -> 0..Word - 1]
      /\ \A i \in Nat : f[i] \in 0..Word - 1 /\ f[i] \in Nat
  <2>1. Word \in Nat
    BY WordIs
  <2> QED BY <1>1, <2>1, HighWordsAre
<1>4. \A i \in Nat : i + d.len1 <= L =>
        h[i] = Shl(f[i], j) + (IF i = 0 THEN 0 ELSE Shr(f[i - 1], m))
  BY DroppedHigh
<1>5. n \in Nat /\ n = L - (d.len1 - 1) /\ d.len1 - 1 \in Nat /\ d.len1 - 1 <= L /\ p \in Nat
  BY <1>1, <1>2, TwoTo DEF TopIsNotZero
<1>6. n + d.len1 >= L + 1 /\ n + c.len1 >= L + 1 /\ \A i \in 0..n - 1 : i + d.len1 <= L
  BY <1>1
<1>7. Worth(WordPowers, f)[n] = Second(c) /\ Worth(WordPowers, h)[n] = Second(d)
  BY <1>1, <1>5, <1>6, SecondIs
<1>8. First(c) \in Nat /\ First(d) \in Nat /\ Second(c) \in Nat /\ Second(d) \in Nat
  BY <1>1, FirstIs, SecondIs
<1> HIDE DEF f, h, p, n
<1>9. carry \in [Nat -> Int] /\ \A i \in Nat : carry[i] \in Nat
  <2> SUFFICES ASSUME NEW i \in Nat PROVE (IF i = 0 THEN 0 ELSE Shr(f[i - 1], m)) \in Nat
    OBVIOUS
  <2>1. CASE i = 0
    BY <2>1
  <2>2. CASE i # 0
    <3>1. i - 1 \in Nat
      BY <2>2
    <3> QED BY <3>1, <2>2, <1>1, <1>3, ShrIs
  <2> QED BY <2>1, <2>2
<1>10. carry[0] = 0 /\ \A i \in Nat : carry[i + 1] = Shr(f[i], m)
  OBVIOUS
<1>11. \A i \in Nat : i + d.len1 <= L => h[i] = Shl(f[i], j) + carry[i]
  BY <1>4
<1> HIDE DEF carry
<1>12. Carried(Word, carry, 1, h, p, f, 0, f, n)
  <2> SUFFICES ASSUME NEW i \in 0..n - 1
               PROVE  1 * h[i] + Word * carry[i + 1] = p * f[i] + 0 * f[i] + carry[i]
    BY DEF Carried
  <2>1. i \in Nat /\ i + d.len1 <= L
    BY <1>5, <1>6
  <2>2. h[i] = Shl(f[i], j) + carry[i] /\ carry[i + 1] = Shr(f[i], m) /\ carry[i] \in Nat
    BY <1>9, <1>10, <1>11, <2>1
  <2>3. f[i] * 2^j = Word * Shr(f[i], m) + Shl(f[i], j) /\ Shl(f[i], j) \in Nat
    <3> DEFINE o == f[i]
    <3>1. o \in 0..Word - 1 /\ j \in Nat /\ m \in Nat /\ m + j = W + 2
      BY <1>1, <1>3, <2>1
    <3> HIDE DEF o
    <3>2. o * 2^j = Word * Shr(o, m) + Shl(o, j) /\ Shl(o, j) \in Nat
      BY <3>1, ShlIs
    <3> QED BY <3>2 DEF o
  <2>4. f[i] \in Nat /\ Shr(f[i], m) \in Nat /\ Word \in Nat
    BY <1>1, <1>3, <2>1, ShrIs, WordIs
  <2> DEFINE x == f[i]
             y == Shr(x, m)
             z == Shl(x, j)
  <2>5. /\ x * p = Word * y + z /\ h[i] = z + carry[i] /\ carry[i + 1] = y /\ z \in Nat
        /\ y \in Nat /\ x \in Nat
    BY <2>2, <2>3, <2>4 DEF p
  <2> HIDE DEF x, y, z
  <2>6. 1 * h[i] + Word * carry[i + 1] = p * x + 0 * x + carry[i]
    BY <2>2, <2>4, <2>5, <1>5
  <2> QED BY <2>6 DEF x
<1>13. 1 * Worth(WordPowers, h)[n] + WordPowers[n] * carry[n]
         = p * Worth(WordPowers, f)[n] + 0 * Worth(WordPowers, f)[n] + carry[0]
  <2>1. p \in Int /\ 1 \in Int /\ 0 \in Int
    BY <1>5
  <2>2. IsPowers(WordPowers, Word)
    BY WordPowersAre
  <2>3. f \in [Nat -> Int] /\ h \in [Nat -> Int] /\ carry \in [Nat -> Int] /\ n \in Nat
    BY <1>3, <1>5, <1>9
  <2> QED BY <1>12, <2>1, <2>2, <2>3, WorthCarry
<1> DEFINE y == p * Second(c)
<1>14. Second(d) + WordPowers[n] * carry[n] = y /\ y \in Nat /\ WordPowers[n] \in Nat
  BY <1>5, <1>7, <1>8, <1>10, <1>13, WordPowersAre
<1>15. y < WordPowers[n]
  <2>1. WordPowers[d.len1 - 1] <= First(d)
    BY <1>1, <1>2, TopCounts
  <2>2. First(d) * y = First(c) * Second(c)
    <3> DEFINE a == First(c)
               b == First(d)
               e == Second(c)
    <3>1. a \in Nat /\ b \in Nat /\ e \in Nat /\ a = p * b
      BY <1>2, <1>8 DEF p
    <3> HIDE DEF a, b, e
    <3>2. b * (p * e) = (p * b) * e
      BY <3>1, <1>5
    <3>3. b * (p * e) = a * e
      BY <3>1, <3>2
    <3> QED BY <3>3 DEF a, b, e
  <2>3. First(d) * y < WordPowers[L]
    BY <2>2
  <2> HIDE DEF y
  <2> QED BY <2>1, <2>3, <1>1, <1>5, <1>8, <1>14, Room
<1> HIDE DEF y
<1>16. Second(d) = y
  BY <1>5, <1>8, <1>9, <1>14, <1>15, NoCarry
<1> QED BY <1>16 DEF y, p

(* The lowest digit tells whether a number is odd.                           *)
LEMMA WorthParity ==
  ASSUME NEW f \in [Nat -> Int], NEW n \in Nat
  PROVE  \E m \in Int : Worth(WordPowers, f)[n + 1] = f[0] + 2 * m
<1> DEFINE q == WordPowers
           S == {k \in Nat : \E m \in Int : Worth(q, f)[k + 1] = f[0] + 2 * m}
<1>1. f[0] \in Int
  OBVIOUS
<1>2. /\ Worth(q, f)[0] = 0 /\ q[0] = 1
      /\ \A k \in Nat : /\ Worth(q, f)[k] \in Int
                        /\ Worth(q, f)[k + 1] = Worth(q, f)[k] + f[k] * q[k]
  <2>1. IsPowers(q, Word)
    BY WordPowersAre
  <2>2. q[0] = 1
    BY <2>1 DEF IsPowers
  <2> HIDE DEF q
  <2> QED BY <2>1, <2>2, WorthStep
<1>3. \A k \in Nat : q[k] \in Nat /\ q[k + 1] = Word * q[k]
  BY WordPowersAre DEF IsPowers
<1>4. PICK b \in Nat : Word = 2 * b
  <2>1. 2 * Limb \in Nat /\ Word = 2 * (2 * Limb)
    BY WordIs
  <2> QED BY <2>1
<1> HIDE DEF q
<1>5. 0 \in S
  <2>1. Worth(q, f)[0 + 1] = f[0] + 2 * 0
    BY <1>1, <1>2
  <2>2. \E m \in Int : Worth(q, f)[0 + 1] = f[0] + 2 * m
    BY <2>1, 0 \in Int
  <2> QED BY <2>2
<1>6. \A k \in Nat : k \in S => k + 1 \in S
  <2> SUFFICES ASSUME NEW k \in Nat, k \in S PROVE k + 1 \in S
    OBVIOUS
  <2>1. PICK m \in Int : Worth(q, f)[k + 1] = f[0] + 2 * m
    OBVIOUS
  <2> DEFINE x == f[k + 1]
             y == q[k]
  <2>2. x \in Int /\ y \in Int
    BY <1>1, <1>3
  <2>3. Worth(q, f)[(k + 1) + 1] = Worth(q, f)[k + 1] + x * ((2 * b) * y)
    <3>1. k + 1 \in Nat
      OBVIOUS
    <3>2. Worth(q, f)[(k + 1) + 1] = Worth(q, f)[k + 1] + f[k + 1] * q[k + 1]
      BY <3>1, <1>2
    <3>3. q[k + 1] = (2 * b) * q[k]
      BY <1>3, <1>4
    <3> QED BY <3>2, <3>3
  <2> HIDE DEF x, y
  <2>4. x * ((2 * b) * y) = 2 * (x * (b * y)) /\ x * (b * y) \in Int
    BY <2>2
  <2> DEFINE z == x * (b * y)
  <2>5. z \in Int /\ Worth(q, f)[(k + 1) + 1] = (f[0] + 2 * m) + 2 * z
    BY <2>1, <2>3, <2>4
  <2> HIDE DEF z
  <2>6. Worth(q, f)[(k + 1) + 1] = f[0] + 2 * (m + z) /\ m + z \in Int
    BY <2>5, <1>1
  <2> QED BY <2>6
<1>7. n \in S
  <2> HIDE DEF S
  <2> QED BY <1>5, <1>6, Induct
<1> QED BY <1>7 DEF q

(* The first number is as odd as its lowest word.                            *)
LEMMA FirstParity ==
  ASSUME NEW c \in Combo, c.len1 >= 1
  PROVE  First(c) % 2 = c.a[0] % 2
<1> DEFINE f == LowWords(c)
<1>1. L \in Nat /\ 0 \in Nat /\ c.len1 \in Nat /\ c.len1 <= L /\ 0 \in Limbs
  BY WidthsAre, ComboIs DEF Limbs
<1>2. f \in [Nat -> Int] /\ f[0] = c.a[0] /\ f[0] \in Int /\ c.a[0] \in Nat
  BY <1>1, LowWordsAre, WordOfRegister
<1>3. First(c) = Worth(WordPowers, f)[L + 1]
  BY <1>1, FirstIs
<1> HIDE DEF f
<1>4. PICK m \in Int : Worth(WordPowers, f)[L + 1] = f[0] + 2 * m
  BY <1>1, <1>2, WorthParity
<1> QED BY <1>2, <1>3, <1>4

(* The even bits below the lowest that is not zero.                          *)
LEMMA DropBitsIs ==
  ASSUME NEW c \in Combo, TopIsNotZero(c), c.a[0] # 0, First(c) * Second(c) < WordPowers[L]
  PROVE  LET d == DropBits(c)
             j == ZeroBits(c)
         IN  /\ j \in Nat /\ d \in Combo /\ TopIsNotZero(d) /\ d.a[0] % 2 = 1
             /\ First(c) = 2^j * First(d)
             /\ Second(d) = 2^j * Second(c)
<1>1. CASE ZeroBits(c) = 0
  <2>1. DropBits(c) = c
    BY <1>1 DEF DropBits
  <2>2. 2^0 = 1 /\ 2^(0 + 1) = 2
    BY TwoTo
  <2>3. c.a[0] % 2 # 0 /\ c.a[0] \in Nat
    <3>1. 0 \in Nat /\ 0 <= L
      BY WidthsAre
    <3>2. c.a[0] % 2^(ZeroBits(c) + 1) # 0
      BY ZeroBitsAre
    <3> QED BY <1>1, <2>2, <3>1, <3>2, WordOfRegister
  <2>4. First(c) \in Nat /\ Second(c) \in Nat
    BY FirstIs, SecondIs
  <2> QED BY <1>1, <2>1, <2>2, <2>3, <2>4
<1>2. CASE ZeroBits(c) # 0
  <2> DEFINE d == DropBits(c)
             j == ZeroBits(c)
             m == W + 2 - j
             top == c.len1 - 1
             empty == RightWord(c, j, m, top) = 0
  <2>1. Dropped(c, d, j, m, top, empty)
    BY <1>2, DroppedIs
  <2>2. d \in Combo /\ j \in Nat
    BY <2>1 DEF Dropped
  <2> HIDE DEF d, j, m, top, empty
  <2>3. /\ TopIsNotZero(d) /\ d.a[0] % 2 = 1 /\ First(c) = 2^j * First(d)
        /\ Second(d) = 2^j * Second(c)
    BY <2>1, DroppedEnds, DroppedFirst, DroppedSecond
  <2> QED BY <2>2, <2>3 DEF d, j
<1> QED BY <1>1, <1>2

(* What the registers are made of.                                           *)
LEMMA RegistersAre ==
  ASSUME NEW st0 \in Registers
  PROVE  /\ st0.us \in Combo /\ st0.vr \in Combo /\ st0.k \in Nat
         /\ st0.even \in {"us", "vr"} /\ Other(st0.even) \in {"us", "vr"}
         /\ Other(st0.even) # st0.even
         /\ st0[st0.even] \in Combo /\ st0[Other(st0.even)] \in Combo
         /\ st0 = [us |-> st0.us, vr |-> st0.vr, k |-> st0.k, even |-> st0.even]
         /\ DOMAIN st0 = {"us", "vr", "k", "even"}
BY DEF Registers, Other

(* L words hold as many bits as the limbs.                                   *)
LEMMA BitsAre ==
  Bits \in Nat /\ WordPowers[L] = 2^Bits
<1>1. W \in Nat /\ L \in Nat
  BY WidthsAre
<1>2. (W + 2) * L = L * W + 2 * L /\ L * W \in Nat
  BY <1>1
<1> QED BY <1>1, <1>2, WordPowersAre DEF Bits, T

(* What is left of one number and added to the other by a turn of the loop:  *)
(* a power of two, of which k counts the exponent.                           *)
Halved(c, d, e) ==
  /\ e \in 0..Bits
  /\ d \in Combo /\ TopIsNotZero(d) /\ d.a[0] % 2 = 1 /\ First(d) % 2 = 1
  /\ First(c) = 2^e * First(d)
  /\ Second(d) = 2^e * Second(c)

(* Halve makes the even number odd and the other one greater by as much.     *)
LEMMA HalveIs ==
  ASSUME NEW st0 \in Registers, First(st0[st0.even]) # 0,
         First(st0[st0.even]) * Second(st0[st0.even]) < WordPowers[L]
  PROVE  \E e \in Nat :
            /\ Halve(st0) \in Registers
            /\ Halve(st0).even = st0.even /\ Halve(st0).k = st0.k + e
            /\ Halve(st0)[Other(st0.even)] = st0[Other(st0.even)]
            /\ Halved(st0[st0.even], Halve(st0)[st0.even], e)
<1> DEFINE c == st0[st0.even]
           t == Trim(c)
           w == DropWords(t)
           d == DropBits(w)
           n == ZeroWords(t)
           j == ZeroBits(w)
           e == (W + 2) * n + j
<1>1. c \in Combo /\ First(c) \in Nat /\ Second(c) \in Nat
  BY RegistersAre, FirstIs, SecondIs
<1>2. t \in Combo /\ TopIsNotZero(t) /\ First(t) = First(c) /\ Second(t) = Second(c)
  BY <1>1, TrimIs DEF SameNumbers
<1> HIDE DEF c, t
<1>3. /\ w \in Combo /\ TopIsNotZero(w) /\ w.a[0] # 0 /\ n \in Nat
      /\ First(t) = WordPowers[n] * First(w)
      /\ Second(w) = WordPowers[n] * Second(t)
  BY <1>2, DropWordsIs, ZeroWordsAre
<1> HIDE DEF w, n
<1>4. WordPowers[n] = 2^((W + 2) * n) /\ WordPowers[n] \in Nat /\ (W + 2) * n \in Nat
  BY <1>3, WordPowersAre, WidthsAre
<1>5. First(w) \in Nat /\ Second(w) \in Nat
  BY <1>3, FirstIs, SecondIs
<1>6. First(w) * Second(w) < WordPowers[L]
  <2> DEFINE p == WordPowers[n]
             x == First(w)
             y == Second(c)
  <2>1. x \in Nat /\ y \in Nat /\ p \in Nat /\ First(c) = p * x /\ Second(w) = p * y
    BY <1>1, <1>2, <1>3, <1>4, <1>5
  <2>2. (p * x) * y < WordPowers[L]
    BY <2>1 DEF c
  <2> HIDE DEF p, x, y
  <2>3. x * (p * y) = (p * x) * y
    BY <2>1
  <2>4. x * (p * y) < WordPowers[L]
    BY <2>2, <2>3
  <2> QED BY <2>1, <2>4 DEF x
<1>7. /\ j \in Nat /\ d \in Combo /\ TopIsNotZero(d) /\ d.a[0] % 2 = 1
      /\ First(w) = 2^j * First(d)
      /\ Second(d) = 2^j * Second(w)
  BY <1>3, <1>6, DropBitsIs
<1> HIDE DEF d, j
<1>8. First(d) \in Nat /\ First(d) % 2 = 1 /\ First(d) # 0
  <2>1. First(d) \in Nat /\ d.len1 >= 1
    BY <1>7, FirstIs DEF TopIsNotZero
  <2>2. First(d) % 2 = 1
    BY <1>7, <2>1, FirstParity
  <2> QED BY <2>1, <2>2
<1>9. e \in Nat /\ 2^e = WordPowers[n] * 2^j /\ 2^j \in Nat /\ 2^e \in Nat
  <2>1. 2^(((W + 2) * n) + j) = 2^((W + 2) * n) * 2^j
    BY <1>4, <1>7, TwoToSum
  <2> QED BY <2>1, <1>4, <1>7, TwoTo
<1> HIDE DEF e
<1>10. First(c) = 2^e * First(d) /\ Second(d) = 2^e * Second(c)
  <2> DEFINE p == WordPowers[n]
             q == 2^j
             x == First(d)
             y == Second(c)
  <2>1. /\ p \in Nat /\ q \in Nat /\ x \in Nat /\ y \in Nat /\ 2^e = p * q
        /\ First(c) = p * (q * x) /\ Second(d) = q * (p * y)
    BY <1>1, <1>2, <1>3, <1>4, <1>7, <1>8, <1>9
  <2> HIDE DEF p, q, x, y
  <2>2. p * (q * x) = (p * q) * x /\ q * (p * y) = (p * q) * y
    BY <2>1
  <2> QED BY <2>1, <2>2 DEF x, y
<1>11. e <= Bits
  <2> DEFINE x == First(d)
             p == 2^e
  <2>1. p <= p * x
    <3>1. x \in Nat \ {0} /\ p \in Nat
      BY <1>8, <1>9
    <3> HIDE DEF x, p
    <3>2. x - 1 \in Nat /\ p * (x - 1) \in Nat /\ p * x = p * (x - 1) + p
      BY <3>1
    <3> QED BY <3>1, <3>2
  <2>2. First(c) < WordPowers[c.len1] /\ c.len1 \in Nat /\ c.len1 <= L /\ L \in Nat
    BY <1>1, FirstIs, ComboIs, WidthsAre
  <2>3. WordPowers[c.len1] <= WordPowers[L] /\ WordPowers[c.len1] \in Nat /\ WordPowers[L] \in Nat
    <3>1. WordPowers[L] = WordPowers[L - c.len1] * WordPowers[c.len1]
      <4>1. L - c.len1 \in Nat /\ (L - c.len1) + c.len1 = L
        BY <2>2
      <4>2. WordPowers[(L - c.len1) + c.len1] = WordPowers[L - c.len1] * WordPowers[c.len1]
        <5>1. IsPowers(WordPowers, Word)
          BY WordPowersAre
        <5> DEFINE a == L - c.len1
                   b == c.len1
        <5>2. a \in Nat /\ b \in Nat
          BY <2>2, <4>1
        <5> HIDE DEF a, b
        <5>3. WordPowers[a + b] = WordPowers[a] * WordPowers[b]
          BY <5>1, <5>2, PowersSum
        <5> QED BY <5>3 DEF a, b
      <4> QED BY <4>1, <4>2
    <3> DEFINE a == WordPowers[L - c.len1]
               b == WordPowers[c.len1]
    <3>2. L - c.len1 \in Nat
      BY <2>2
    <3>3. a \in Nat \ {0} /\ b \in Nat /\ WordPowers[L] = a * b
      BY <2>2, <3>1, <3>2, WordPowersAre
    <3> HIDE DEF a, b
    <3>4. a - 1 \in Nat /\ (a - 1) * b \in Nat /\ a * b = (a - 1) * b + b
      BY <3>3
    <3> QED BY <3>3, <3>4 DEF b
  <2>4. p < 2^Bits
    <3>1. First(c) = p * x /\ First(c) \in Nat
      BY <1>1, <1>10
    <3>2. p * x < 2^Bits
      BY <2>2, <2>3, <3>1, BitsAre, <1>1
    <3>3. p * x \in Nat /\ 2^Bits \in Nat /\ p \in Nat
      BY <3>1, <1>1, <1>9, BitsAre, TwoTo
    <3> QED BY <2>1, <3>2, <3>3
  <2> SUFFICES ASSUME ~(e <= Bits) PROVE FALSE
    OBVIOUS
  <2>5. 2^Bits <= p /\ 2^Bits \in Nat /\ p \in Nat
    <3>1. Bits \in Nat /\ e \in Nat /\ Bits <= e
      BY <1>9, BitsAre
    <3> QED BY <3>1, <1>9, TwoToOrder, TwoTo
  <2> QED BY <2>4, <2>5
<1>12. Halved(c, d, e)
  BY <1>7, <1>8, <1>9, <1>10, <1>11, BitsAre DEF Halved
<1>13. Halve(st0) = [st0 EXCEPT ![st0.even] = d, !.k = @ + (W + 2) * n + j]
  BY DEF Halve, d, w, t, n, j, c
<1>14. st0.k + (W + 2) * n + j = st0.k + e /\ st0.k + e \in Nat
  BY <1>4, <1>7, <1>9, RegistersAre DEF e
<1>15. /\ Halve(st0) \in Registers
       /\ Halve(st0).even = st0.even /\ Halve(st0).k = st0.k + e
       /\ Halve(st0)[Other(st0.even)] = st0[Other(st0.even)]
       /\ Halve(st0)[st0.even] = d
  BY <1>7, <1>13, <1>14, RegistersAre DEF Registers, Other
<1> QED BY <1>9, <1>12, <1>15 DEF c

-----------------------------------------------------------------------------
(* The comparison.                                                           *)

(* More words are worth more.                                                *)
LEMMA WordPowersGrow ==
  ASSUME NEW m \in Nat, NEW n \in Nat, m <= n
  PROVE  WordPowers[m] <= WordPowers[n] /\ WordPowers[m] \in Nat /\ WordPowers[n] \in Nat
<1>1. W + 2 \in Nat
  BY WidthsAre
<1>2. m * (W + 2) <= n * (W + 2)
  BY <1>1, TimesOrder
<1>3. /\ (W + 2) * m = m * (W + 2) /\ (W + 2) * n = n * (W + 2) /\ (W + 2) * m \in Nat
      /\ (W + 2) * n \in Nat
  BY <1>1
<1> DEFINE a == (W + 2) * m
           b == (W + 2) * n
<1>4. a \in Nat /\ b \in Nat /\ a <= b /\ WordPowers[m] = 2^a /\ WordPowers[n] = 2^b
  BY <1>2, <1>3, WordPowersAre
<1> HIDE DEF a, b
<1> QED BY <1>4, TwoToOrder, TwoTo

(* A number of more words is greater.                                        *)
LEMMA LongerIsGreater ==
  ASSUME NEW c \in Combo, NEW d \in Combo, TopIsNotZero(d), c.len1 < d.len1
  PROVE  First(c) < First(d)
<1>1. c.len1 \in Nat /\ d.len1 \in Nat
  BY ComboIs
<1>2. First(c) \in Nat /\ First(d) \in Nat /\ First(c) < WordPowers[c.len1]
  BY FirstIs
<1>3. WordPowers[d.len1 - 1] <= First(d)
  BY TopCounts
<1>4. WordPowers[c.len1] <= WordPowers[d.len1 - 1] /\ WordPowers[c.len1] \in Nat
      /\ WordPowers[d.len1 - 1] \in Nat
  <2>1. d.len1 - 1 \in Nat /\ c.len1 <= d.len1 - 1
    BY <1>1
  <2> QED BY <1>1, <2>1, WordPowersGrow
<1> QED BY <1>2, <1>3, <1>4

(* Of two numbers of as many words the highest that differs decides.         *)
LEMMA HighestDecides ==
  ASSUME NEW c \in Combo, NEW d \in Combo, c.len1 = d.len1,
         NEW i \in 0..c.len1 - 1, \A m \in i + 1..c.len1 - 1 : c.a[m] = d.a[m], c.a[i] < d.a[i]
  PROVE  First(c) < First(d)
<1> DEFINE f == LowWords(d)
           h == LowWords(c)
           n == c.len1
<1>1. n \in Nat /\ i \in Nat /\ i < n
  BY ComboIs
<1>2. /\ f \in [Nat -> 0..Word - 1] /\ h \in [Nat -> 0..Word - 1]
      /\ \A x \in Nat : x < n => f[x] = d.a[x] /\ h[x] = c.a[x]
  BY LowWordsAre
<1>3. Worth(WordPowers, h)[n] = First(c) /\ Worth(WordPowers, f)[n] = First(d)
  BY <1>1, FirstIs
<1>4. Below(h, f, i, n)
  BY <1>1, <1>2 DEF Below
<1> HIDE DEF f, h, n
<1>5. IsPowers(WordPowers, Word)
  BY WordPowersAre
<1>6. Worth(WordPowers, h)[n] < Worth(WordPowers, f)[n]
  BY <1>1, <1>2, <1>4, <1>5, WorthCompare
<1> QED BY <1>3, <1>6

(* A set of numbers below a bound has a highest one.                         *)
LEMMA Highest ==
  ASSUME NEW S \in SUBSET Nat, S # {}, NEW n \in Nat, \A m \in S : m <= n
  PROVE  \E x \in S : \A m \in S : m <= x
<1> DEFINE B == {b \in Nat : \A m \in S : m <= b}
<1>1. B # {} /\ B \in SUBSET Nat
  BY n \in B
<1>2. PICK b \in B : \A y \in B : b <= y
  <2> HIDE DEF B
  <2> QED BY <1>1, Least
<1>3. SUFFICES ASSUME b \notin S PROVE FALSE
  BY <1>2
<1>4. PICK e \in S : TRUE
  OBVIOUS
<1>5. b \in Nat /\ e <= b /\ e \in Nat /\ e # b
  BY <1>3, <1>4
<1>6. b - 1 \in Nat /\ \A m \in S : m <= b - 1
  BY <1>3, <1>5
<1>7. b - 1 \in B
  BY <1>6
<1> QED BY <1>2, <1>5, <1>7

(* The comparison of the loop is right.                                      *)
LEMMA CompareIs ==
  ASSUME NEW st0 \in Registers, TopIsNotZero(st0.us), TopIsNotZero(st0.vr)
  PROVE  /\ Finished(st0) <=> First(st0.us) = First(st0.vr)
         /\ ~Finished(st0) => (Greater(st0) <=> First(st0.us) > First(st0.vr))
<1> DEFINE c == st0.us
           d == st0.vr
           S == {i \in 0..c.len1 - 1 : c.a[i] # d.a[i]}
<1>1. /\ c \in Combo /\ d \in Combo /\ c.len1 \in Nat /\ d.len1 \in Nat
      /\ c.len1 <= L /\ L \in Nat /\ d.len1 <= L
  BY RegistersAre, ComboIs, WidthsAre
<1>2. First(c) \in Nat /\ First(d) \in Nat
  BY <1>1, FirstIs
<1>3. Differ(st0) = S
  BY DEF Differ
<1>4. CASE c.len1 # d.len1
  <2>1. ~Finished(st0) /\ (Greater(st0) <=> c.len1 > d.len1)
    BY <1>4 DEF Finished, Greater
  <2>2. CASE c.len1 < d.len1
    <3>1. First(c) < First(d)
      BY <1>1, <2>2, LongerIsGreater
    <3> QED BY <2>1, <2>2, <3>1, <1>1, <1>2
  <2>3. CASE d.len1 < c.len1
    <3>1. First(d) < First(c)
      BY <1>1, <2>3, LongerIsGreater
    <3> QED BY <2>1, <2>3, <3>1, <1>1, <1>2
  <2> QED BY <1>1, <1>4, <2>2, <2>3
<1>5. CASE c.len1 = d.len1 /\ S = {}
  <2>1. Finished(st0)
    BY <1>3, <1>5 DEF Finished
  <2>2. First(c) = First(d)
    <3> DEFINE f == LowWords(c)
               h == LowWords(d)
               n == c.len1
    <3>1. f \in [Nat -> Int] /\ h \in [Nat -> Int] /\ n \in Nat
      BY <1>1, LowWordsAre
    <3>2. \A i \in 0..n - 1 : f[i] = h[i]
      <4> TAKE i \in 0..n - 1
      <4>1. i \in Nat /\ i < c.len1 /\ i < d.len1 /\ c.a[i] = d.a[i]
        BY <1>1, <1>5
      <4> QED BY <4>1, <1>1, LowWordsAre
    <3>3. Worth(WordPowers, f)[n] = First(c) /\ Worth(WordPowers, h)[n] = First(d)
      BY <1>1, <1>5, FirstIs
    <3>4. IsPowers(WordPowers, Word)
      BY WordPowersAre
    <3> HIDE DEF f, h, n
    <3>5. Worth(WordPowers, f)[n] = Worth(WordPowers, h)[n]
      BY <3>1, <3>2, <3>4, WorthSame
    <3> QED BY <3>3, <3>5
  <2> QED BY <2>1, <2>2
<1>6. CASE c.len1 = d.len1 /\ S # {}
  <2>1. ~Finished(st0)
    BY <1>3, <1>6 DEF Finished
  <2> DEFINE i == CHOOSE n \in S : \A m \in S : m <= n
  <2>2. i \in S /\ \A m \in S : m <= i
    <3>1. S \in SUBSET Nat /\ \A m \in S : m <= c.len1
      BY <1>1
    <3>2. \E x \in S : \A m \in S : m <= x
      <4> HIDE DEF S
      <4> QED BY <1>1, <1>6, <3>1, Highest
    <3> QED BY <3>2
  <2>3. Greater(st0) <=> c.a[i] > d.a[i]
    BY <1>3, <1>6 DEF Greater
  <2> HIDE DEF i
  <2>4. i \in 0..c.len1 - 1 /\ c.a[i] # d.a[i] /\ i \in Nat /\ i <= L
    BY <2>2, <1>1
  <2>5. \A m \in i + 1..c.len1 - 1 : c.a[m] = d.a[m]
    <3> SUFFICES ASSUME NEW m \in i + 1..c.len1 - 1, c.a[m] # d.a[m] PROVE FALSE
      OBVIOUS
    <3>1. m \in S /\ m > i
      BY <2>4, <1>1
    <3> QED BY <2>2, <2>4, <3>1
  <2>6. c.a[i] \in Nat /\ d.a[i] \in Nat
    BY <1>1, <2>4, WordOfRegister
  <2>7. CASE c.a[i] < d.a[i]
    <3>1. First(c) < First(d)
      BY <1>1, <1>6, <2>4, <2>5, <2>7, HighestDecides
    <3> QED BY <2>1, <2>3, <2>6, <2>7, <3>1, <1>2
  <2>8. CASE d.a[i] < c.a[i]
    <3>1. i \in 0..d.len1 - 1 /\ \A m \in i + 1..d.len1 - 1 : d.a[m] = c.a[m]
      BY <1>6, <2>4, <2>5
    <3>2. First(d) < First(c)
      BY <1>1, <1>6, <2>8, <3>1, HighestDecides
    <3> QED BY <2>1, <2>3, <2>6, <2>8, <3>2, <1>2
  <2> QED BY <2>4, <2>6, <2>7, <2>8
<1> QED BY <1>4, <1>5, <1>6

-----------------------------------------------------------------------------
(* Subtract.                                                                 *)

(* A recursive function that takes every value from the one before.          *)
Recurses(g, V, base, Step, N) ==
  /\ g = [i \in 0..N |-> IF i = 0 THEN base ELSE Step[<<g[i - 1], i - 1>>]]
  /\ g \in [0..N -> V]

(* There is one.                                                             *)
LEMMA Recursive ==
  ASSUME NEW V, NEW base \in V, NEW Step \in [V \X Nat -> V], NEW N \in Nat
  PROVE  \E g : Recurses(g, V, base, Step, N)
<1>1. PICK f \in [Nat -> V] : IsIteration(f, base, Step)
  BY Iteration
<1>2. f[0] = base /\ \A n \in Nat : f[n + 1] = Step[<<f[n], n>>]
  BY <1>1 DEF IsIteration
<1> DEFINE g == [i \in 0..N |-> f[i]]
<1>3. \A i \in 0..N : g[i] = IF i = 0 THEN base ELSE Step[<<g[i - 1], i - 1>>]
  <2> TAKE i \in 0..N
  <2>1. CASE i = 0
    BY <2>1, <1>2
  <2>2. CASE i # 0
    <3>1. i - 1 \in Nat /\ i - 1 \in 0..N /\ (i - 1) + 1 = i
      BY <2>2
    <3> QED BY <3>1, <2>2, <1>2
  <2> QED BY <2>1, <2>2
<1>4. g \in [0..N -> V] /\ g = [i \in 0..N |-> g[i]]
  OBVIOUS
<1> HIDE DEF g
<1>5. g = [i \in 0..N |-> IF i = 0 THEN base ELSE Step[<<g[i - 1], i - 1>>]]
  BY <1>3, <1>4
<1>6. Recurses(g, V, base, Step, N)
  BY <1>4, <1>5 DEF Recurses
<1> QED BY <1>6

(* What the borrow of the first loop is, for c - d.                          *)
IsBorrow(b, c, d) ==
  b = [i \in 0..c.len1 |->
         IF i = 0 THEN 1
         ELSE Shr(b[i - 1] + Word - 1 + c.a[i - 1]
                  - (IF i <= d.len1 THEN d.a[i - 1] ELSE 0), W + 2)]

(* One word of a difference.                                                 *)
LEMMA BorrowStep ==
  ASSUME NEW x \in {0, 1}, NEW y \in 0..Word - 1, NEW z \in 0..Word - 1
  PROVE  /\ x + Word - 1 + y - z \in Nat
         /\ Shr(x + Word - 1 + y - z, W + 2) \in {0, 1}
         /\ U32(x + Word - 1 + y - z) \in 0..Word - 1
         /\ U32(x + Word - 1 + y - z) + Word * Shr(x + Word - 1 + y - z, W + 2)
              = x + Word - 1 + y - z
<1> DEFINE n == x + Word - 1 + y - z
           e == Shr(n, W + 2)
<1>1. Word \in Nat /\ Word = 2^(W + 2) /\ W + 2 \in Nat
  BY WordIs, WidthsAre
<1>2. n \in Nat /\ n < 2 * Word /\ n = x + Word - 1 + y - z
  BY <1>1
<1> HIDE DEF n
<1>3. e \in Nat /\ n = Word * e + U32(n) /\ U32(n) \in 0..Word - 1
  BY <1>1, <1>2, U32Is DEF Shr
<1> HIDE DEF e
<1>4. e < 2
  <2> SUFFICES ASSUME ~(e < 2) PROVE FALSE
    OBVIOUS
  <2>1. e - 2 \in Nat /\ Word * (e - 2) \in Nat /\ Word * e = Word * (e - 2) + 2 * Word
    BY <1>1, <1>3
  <2> QED BY <2>1, <1>1, <1>2, <1>3
<1>5. e \in {0, 1}
  BY <1>3, <1>4
<1>6. U32(n) + Word * e = n
  BY <1>1, <1>2, <1>3
<1> QED BY <1>2, <1>3, <1>5, <1>6 DEF e, n

(* The first loop of the subtraction computes one.                           *)
LEMMA BorrowExists ==
  ASSUME NEW c \in Combo, NEW d \in Combo
  PROVE  \E b : IsBorrow(b, c, d)
<1> DEFINE f == LowWords(c)
           h == LowWords(d)
           Step == [z \in {0, 1} \X Nat |-> Shr(z[1] + Word - 1 + f[z[2]] - h[z[2]], W + 2)]
<1>1. /\ c.len1 \in Nat /\ d.len1 \in Nat
      /\ \A i \in Nat : f[i] \in 0..Word - 1 /\ h[i] \in 0..Word - 1
  BY LowWordsAre, ComboIs
<1>2. /\ \A i \in Nat : f[i] = IF i < c.len1 THEN c.a[i] ELSE 0
      /\ \A i \in Nat : h[i] = IF i < d.len1 THEN d.a[i] ELSE 0
  BY LowWordsAre
<1> HIDE DEF f, h
<1>3. Step \in [{0, 1} \X Nat -> {0, 1}]
  <2> SUFFICES ASSUME NEW z \in {0, 1} \X Nat
               PROVE  Shr(z[1] + Word - 1 + f[z[2]] - h[z[2]], W + 2) \in {0, 1}
    OBVIOUS
  <2>1. z[1] \in {0, 1} /\ z[2] \in Nat /\ f[z[2]] \in 0..Word - 1 /\ h[z[2]] \in 0..Word - 1
    BY <1>1
  <2> QED BY <2>1, BorrowStep
<1>4. \A x \in {0, 1}, n \in Nat : Step[<<x, n>>] = Shr(x + Word - 1 + f[n] - h[n], W + 2)
  OBVIOUS
<1> HIDE DEF Step
<1>5. PICK b : Recurses(b, {0, 1}, 1, Step, c.len1)
  BY <1>1, <1>3, Recursive
<1>6. /\ b = [i \in 0..c.len1 |-> IF i = 0 THEN 1 ELSE Step[<<b[i - 1], i - 1>>]]
      /\ b \in [0..c.len1 -> {0, 1}]
  BY <1>5 DEF Recurses
<1>7. \A i \in 0..c.len1 :
        i # 0 => Step[<<b[i - 1], i - 1>>]
                   = Shr(b[i - 1] + Word - 1 + c.a[i - 1]
                         - (IF i <= d.len1 THEN d.a[i - 1] ELSE 0), W + 2)
  <2> SUFFICES ASSUME NEW i \in 0..c.len1, i # 0
               PROVE  Step[<<b[i - 1], i - 1>>]
                        = Shr(b[i - 1] + Word - 1 + c.a[i - 1]
                              - (IF i <= d.len1 THEN d.a[i - 1] ELSE 0), W + 2)
    OBVIOUS
  <2>1. i - 1 \in Nat /\ i - 1 \in 0..c.len1 /\ i - 1 < c.len1 /\ (i - 1 < d.len1 <=> i <= d.len1)
    BY <1>1
  <2>2. b[i - 1] \in {0, 1} /\ f[i - 1] = c.a[i - 1]
        /\ h[i - 1] = IF i <= d.len1 THEN d.a[i - 1] ELSE 0
    BY <1>2, <1>6, <2>1
  <2>3. Step[<<b[i - 1], i - 1>>] = Shr(b[i - 1] + Word - 1 + f[i - 1] - h[i - 1], W + 2)
    BY <1>4, <2>1, <2>2
  <2> QED BY <2>2, <2>3
<1>8. IsBorrow(b, c, d)
  BY <1>6, <1>7 DEF IsBorrow
<1> QED BY <1>8

(* It is 0 or 1 all along.                                                   *)
LEMMA BorrowIs ==
  ASSUME NEW c \in Combo, NEW d \in Combo, NEW b, IsBorrow(b, c, d)
  PROVE  /\ b[0] = 1
         /\ \A n \in Nat : n <= c.len1 => b[n] \in {0, 1}
         /\ \A n \in Nat : n < c.len1 =>
              b[n + 1] = Shr(b[n] + Word - 1 + LowWords(c)[n] - LowWords(d)[n], W + 2)
<1> DEFINE f == LowWords(c)
           h == LowWords(d)
<1>1. /\ c.len1 \in Nat /\ d.len1 \in Nat
      /\ \A i \in Nat : f[i] \in 0..Word - 1 /\ h[i] \in 0..Word - 1
  BY LowWordsAre, ComboIs
<1>2. /\ \A i \in Nat : f[i] = IF i < c.len1 THEN c.a[i] ELSE 0
      /\ \A i \in Nat : h[i] = IF i < d.len1 THEN d.a[i] ELSE 0
  BY LowWordsAre
<1> HIDE DEF f, h
<1>3. \A i \in 0..c.len1 :
        b[i] = IF i = 0 THEN 1
               ELSE Shr(b[i - 1] + Word - 1 + c.a[i - 1]
                        - (IF i <= d.len1 THEN d.a[i - 1] ELSE 0), W + 2)
  BY DEF IsBorrow
<1>4. \A n \in Nat : n < c.len1 => b[n + 1] = Shr(b[n] + Word - 1 + f[n] - h[n], W + 2)
  <2> SUFFICES ASSUME NEW n \in Nat, n < c.len1
               PROVE  b[n + 1] = Shr(b[n] + Word - 1 + f[n] - h[n], W + 2)
    OBVIOUS
  <2> DEFINE i == n + 1
  <2>1. i \in 0..c.len1 /\ i # 0 /\ i - 1 = n /\ (n < d.len1 <=> i <= d.len1)
    BY <1>1
  <2> HIDE DEF i
  <2>2. b[i] = Shr(b[n] + Word - 1 + c.a[n] - (IF i <= d.len1 THEN d.a[n] ELSE 0), W + 2)
    BY <1>3, <2>1
  <2>3. f[n] = c.a[n] /\ h[n] = IF i <= d.len1 THEN d.a[n] ELSE 0
    BY <1>2, <2>1
  <2> QED BY <2>2, <2>3 DEF i
<1>5. b[0] = 1
  BY <1>1, <1>3
<1> DEFINE S == {n \in Nat : n <= c.len1 => b[n] \in {0, 1}}
<1>6. 0 \in S
  BY <1>5
<1>7. \A n \in Nat : n \in S => n + 1 \in S
  <2> SUFFICES ASSUME NEW n \in Nat, n \in S, n + 1 <= c.len1 PROVE b[n + 1] \in {0, 1}
    OBVIOUS
  <2>1. n < c.len1 /\ b[n] \in {0, 1} /\ f[n] \in 0..Word - 1 /\ h[n] \in 0..Word - 1
    BY <1>1
  <2> QED BY <2>1, <1>4, BorrowStep
<1>8. Nat \subseteq S
  <2> HIDE DEF S
  <2> QED BY <1>6, <1>7, Induct
<1>9. \A n \in Nat : n <= c.len1 => b[n] \in {0, 1}
  BY <1>8
<1> QED BY <1>4, <1>5, <1>9 DEF f, h

(* The greater register without the smaller number.                          *)
Lessened(c, d, b) ==
  [a    |-> [i \in Limbs |->
              IF i >= c.len1 THEN c.a[i]
              ELSE U32(b[i] + Word - 1 + c.a[i] - (IF i < d.len1 THEN d.a[i] ELSE 0))],
   len1 |-> c.len1]

(* It holds the difference, and the second number as before.                 *)
LEMMA LessenedIs ==
  ASSUME NEW c \in Combo, NEW d \in Combo, NEW b, IsBorrow(b, c, d),
         d.len1 <= c.len1, First(d) < First(c)
  PROVE  /\ Lessened(c, d, b) \in Combo
         /\ First(Lessened(c, d, b)) = First(c) - First(d)
         /\ Second(Lessened(c, d, b)) = Second(c)
<1> DEFINE z == Lessened(c, d, b)
           f == LowWords(c)
           h == LowWords(d)
           n == c.len1
           term(i) == b[i] + Word - 1 + f[i] - h[i]
<1>1. /\ n \in Nat /\ d.len1 \in Nat /\ n <= L /\ L \in Nat /\ n \in 0..L
      /\ f \in [Nat -> Int] /\ h \in [Nat -> Int]
      /\ \A i \in Nat : f[i] \in 0..Word - 1 /\ h[i] \in 0..Word - 1
      /\ \A i \in Limbs : c.a[i] \in 0..Word - 1
  BY LowWordsAre, ComboIs, WidthsAre
<1>2. /\ \A i \in Nat : f[i] = IF i < n THEN c.a[i] ELSE 0
      /\ \A i \in Nat : h[i] = IF i < d.len1 THEN d.a[i] ELSE 0
  BY LowWordsAre
<1>3. /\ b[0] = 1
      /\ \A i \in Nat : i <= n => b[i] \in {0, 1}
      /\ \A i \in Nat : i < n => b[i + 1] = Shr(term(i), W + 2)
  BY BorrowIs
<1>4. z.len1 = n /\ z = [a |-> z.a, len1 |-> z.len1] /\ z.a = [i \in Limbs |-> z.a[i]]
  BY DEF Lessened
<1>5. \A i \in Limbs : z.a[i] = IF i >= n THEN c.a[i]
                        ELSE U32(b[i] + Word - 1 + c.a[i] - (IF i < d.len1 THEN d.a[i] ELSE 0))
  BY DEF Lessened
<1> HIDE DEF z, f, h, n
<1>6. \A i \in Nat : i < n =>
        /\ i \in Limbs /\ z.a[i] = U32(term(i))
        /\ U32(term(i)) \in 0..Word - 1
        /\ U32(term(i)) + Word * b[i + 1] = b[i] + Word - 1 + f[i] - h[i]
  <2> SUFFICES ASSUME NEW i \in Nat, i < n
               PROVE  /\ i \in Limbs /\ z.a[i] = U32(term(i))
                      /\ U32(term(i)) \in 0..Word - 1
                      /\ U32(term(i)) + Word * b[i + 1] = b[i] + Word - 1 + f[i] - h[i]
    OBVIOUS
  <2>1. i \in Limbs /\ ~(i >= n)
    BY <1>1 DEF Limbs
  <2>2. f[i] = c.a[i] /\ h[i] = IF i < d.len1 THEN d.a[i] ELSE 0
    BY <1>2
  <2>3. z.a[i] = U32(term(i))
    BY <1>5, <2>1, <2>2
  <2>4. b[i] \in {0, 1} /\ f[i] \in 0..Word - 1 /\ h[i] \in 0..Word - 1
        /\ b[i + 1] = Shr(term(i), W + 2)
    BY <1>1, <1>3
  <2>5. U32(term(i)) \in 0..Word - 1
        /\ U32(term(i)) + Word * Shr(term(i), W + 2) = b[i] + Word - 1 + f[i] - h[i]
    BY <2>4, BorrowStep
  <2> QED BY <2>1, <2>3, <2>4, <2>5
<1>7. z \in Combo
  <2>1. \A i \in Limbs : z.a[i] \in 0..Word - 1
    <3> TAKE i \in Limbs
    <3>1. CASE i >= n
      BY <3>1, <1>1, <1>5
    <3>2. CASE ~(i >= n)
      <4>1. i \in Nat /\ i < n
        BY <3>2, <1>1 DEF Limbs
      <4> QED BY <4>1, <1>6
    <3> QED BY <3>1, <3>2
  <2>2. z.a \in [Limbs -> 0..Word - 1]
    BY <1>4, <2>1
  <2> QED BY <1>1, <1>4, <2>2 DEF Combo
<1> DEFINE g == LowWords(z)
           carry == [i \in Nat |-> IF i <= n THEN b[i] - 1 ELSE 0]
<1>8. g \in [Nat -> Int] /\ \A i \in Nat : g[i] = IF i < n THEN z.a[i] ELSE 0
  BY <1>4, <1>7, LowWordsAre
<1>9. carry \in [Nat -> Int] /\ carry[0] = 0 /\ carry[n] \in {-1, 0}
      /\ \A i \in Nat : i <= n => carry[i] = b[i] - 1
  <2>1. \A i \in Nat : i <= n => b[i] - 1 \in Int
    BY <1>3
  <2>2. n \in Nat /\ b[n] \in {0, 1} /\ 0 <= n /\ n <= n
    BY <1>1, <1>3
  <2> QED BY <2>1, <2>2, <1>3
<1>10. Worth(WordPowers, g)[n] = First(z)
  BY <1>1, <1>4, <1>7, FirstIs
<1>11. Worth(WordPowers, f)[n] = First(c) /\ Worth(WordPowers, h)[n] = First(d)
  BY <1>1, FirstIs DEF n, f, h
<1>12. First(z) \in Nat /\ First(z) < WordPowers[n] /\ First(c) \in Nat /\ First(d) \in Nat
  BY <1>4, <1>7, FirstIs
<1> HIDE DEF g, carry
<1>13. Carried(Word, carry, 1, g, 1, f, -1, h, n)
  <2> SUFFICES ASSUME NEW i \in 0..n - 1
               PROVE  1 * g[i] + Word * carry[i + 1] = 1 * f[i] + (-1) * h[i] + carry[i]
    BY DEF Carried
  <2>1. i \in Nat /\ i < n /\ i <= n /\ i + 1 <= n /\ i + 1 \in Nat
    BY <1>1
  <2> DEFINE x == U32(term(i))
             y == f[i]
             w == h[i]
             b0 == b[i]
             b1 == b[i + 1]
  <2>2. /\ g[i] = x /\ x \in Nat /\ x + Word * b1 = b0 + Word - 1 + y - w
        /\ carry[i] = b0 - 1 /\ carry[i + 1] = b1 - 1
        /\ y \in Int /\ w \in Int /\ b0 \in {0, 1} /\ b1 \in {0, 1} /\ Word \in Nat
    <3>1. x \in 0..Word - 1 /\ x + Word * b1 = b0 + Word - 1 + y - w /\ z.a[i] = x
      BY <2>1, <1>6
    <3>2. g[i] = x
      BY <2>1, <1>8, <3>1
    <3>3. carry[i] = b0 - 1 /\ carry[i + 1] = b1 - 1
      BY <2>1, <1>9
    <3>4. y \in Int /\ w \in Int
      BY <2>1, <1>1
    <3>5. b0 \in {0, 1} /\ b1 \in {0, 1}
      BY <2>1, <1>3
    <3>6. Word \in Nat
      BY WordIs
    <3> QED BY <3>1, <3>2, <3>3, <3>4, <3>5, <3>6
  <2> HIDE DEF x, y, w, b0, b1
  <2>3. Word * (b1 - 1) = Word * b1 - Word
    BY <2>2
  <2>4. 1 * x + Word * (b1 - 1) = 1 * y + (-1) * w + (b0 - 1)
    BY <2>2, <2>3
  <2> QED BY <2>2, <2>4 DEF y, w
<1>14. 1 * Worth(WordPowers, g)[n] + WordPowers[n] * carry[n]
         = 1 * Worth(WordPowers, f)[n] + (-1) * Worth(WordPowers, h)[n] + carry[0]
  <2>1. IsPowers(WordPowers, Word) /\ 1 \in Int /\ -1 \in Int
    BY WordPowersAre
  <2>2. f \in [Nat -> Int] /\ h \in [Nat -> Int] /\ g \in [Nat -> Int] /\ carry \in [Nat -> Int]
    BY <1>1, <1>8, <1>9
  <2> QED BY <1>1, <1>13, <2>1, <2>2, WorthCarry
<1>15. First(z) = First(c) - First(d)
  <2>1. First(z) + WordPowers[n] * carry[n] = First(c) - First(d) /\ WordPowers[n] \in Nat
    BY <1>1, <1>9, <1>10, <1>11, <1>12, <1>14, WordPowersAre
  <2>2. CASE carry[n] = 0
    BY <2>1, <2>2, <1>12
  <2>3. CASE carry[n] = -1
    BY <2>1, <2>3, <1>12
  <2> QED BY <1>9, <2>2, <2>3
<1>16. Second(z) = Second(c)
  <2> DEFINE p == HighWords(z)
             q == HighWords(c)
             m == L + 1 - n
  <2>1. m \in Nat /\ m + n >= L + 1
    BY <1>1
  <2>2. p \in [Nat -> Int] /\ q \in [Nat -> Int]
    BY <1>7, HighWordsAre
  <2>3. \A i \in 0..m - 1 : p[i] = q[i]
    <3> TAKE i \in 0..m - 1
    <3>1. i \in Nat /\ i + n <= L /\ L - i \in Limbs /\ L - i >= n
      BY <1>1 DEF Limbs
    <3>2. p[i] = z.a[L - i] /\ q[i] = c.a[L - i]
      BY <3>1, <1>4, <1>7, HighWordsAre DEF n
    <3> QED BY <3>1, <3>2, <1>5
  <2>4. Worth(WordPowers, p)[m] = Second(z) /\ Worth(WordPowers, q)[m] = Second(c)
    BY <2>1, <1>4, <1>7, SecondIs DEF n
  <2>5. IsPowers(WordPowers, Word)
    BY WordPowersAre
  <2> HIDE DEF p, q, m
  <2>6. Worth(WordPowers, p)[m] = Worth(WordPowers, q)[m]
    BY <2>1, <2>2, <2>3, <2>5, WorthSame
  <2> QED BY <2>4, <2>6
<1> QED BY <1>7, <1>15, <1>16 DEF z

(* What the carry of the second loop is, for d + c.                          *)
IsCarry(k, c, d) ==
  k = [i \in d.len1..L + 1 |->
         IF i = L + 1 THEN 0
         ELSE Shr(k[i + 1] + (IF i >= c.len1 THEN c.a[i] ELSE 0) + d.a[i], W + 2)]

(* One word of a sum.                                                        *)
LEMMA CarryStep ==
  ASSUME NEW x \in {0, 1}, NEW y \in 0..Word - 1, NEW z \in 0..Word - 1
  PROVE  /\ x + y + z \in Nat
         /\ Shr(x + y + z, W + 2) \in {0, 1}
         /\ U32(x + y + z) \in 0..Word - 1
         /\ U32(x + y + z) + Word * Shr(x + y + z, W + 2) = x + y + z
<1> DEFINE n == x + y + z
           e == Shr(n, W + 2)
<1>1. Word \in Nat /\ Word = 2^(W + 2) /\ W + 2 \in Nat
  BY WordIs, WidthsAre
<1>2. n \in Nat /\ n < 2 * Word /\ n = x + y + z
  BY <1>1
<1> HIDE DEF n
<1>3. e \in Nat /\ n = Word * e + U32(n) /\ U32(n) \in 0..Word - 1
  BY <1>1, <1>2, U32Is DEF Shr
<1> HIDE DEF e
<1>4. e < 2
  <2> SUFFICES ASSUME ~(e < 2) PROVE FALSE
    OBVIOUS
  <2>1. e - 2 \in Nat /\ Word * (e - 2) \in Nat /\ Word * e = Word * (e - 2) + 2 * Word
    BY <1>1, <1>3
  <2> QED BY <2>1, <1>1, <1>2, <1>3
<1>5. e \in {0, 1}
  BY <1>3, <1>4
<1>6. U32(n) + Word * e = n
  BY <1>1, <1>2, <1>3
<1> QED BY <1>2, <1>3, <1>5, <1>6 DEF e, n

(* The second loop computes one.                                             *)
LEMMA CarryExists ==
  ASSUME NEW c \in Combo, NEW d \in Combo
  PROVE  \E k : IsCarry(k, c, d)
<1> DEFINE f == HighWords(c)
           h == HighWords(d)
           Step == [z \in {0, 1} \X Nat |-> Shr(z[1] + f[z[2]] + h[z[2]], W + 2)]
<1>1. /\ c.len1 \in Nat /\ d.len1 \in Nat /\ L \in Nat /\ d.len1 <= L
      /\ \A i \in Nat : f[i] \in 0..Word - 1 /\ h[i] \in 0..Word - 1
  BY HighWordsAre, ComboIs, WidthsAre
<1>2. /\ \A i \in Nat : f[i] = IF i + c.len1 <= L THEN c.a[L - i] ELSE 0
      /\ \A i \in Nat : h[i] = IF i + d.len1 <= L THEN d.a[L - i] ELSE 0
  BY HighWordsAre
<1> HIDE DEF f, h
<1>3. Step \in [{0, 1} \X Nat -> {0, 1}]
  <2> SUFFICES ASSUME NEW z \in {0, 1} \X Nat
               PROVE  Shr(z[1] + f[z[2]] + h[z[2]], W + 2) \in {0, 1}
    OBVIOUS
  <2>1. z[1] \in {0, 1} /\ z[2] \in Nat /\ f[z[2]] \in 0..Word - 1 /\ h[z[2]] \in 0..Word - 1
    BY <1>1
  <2> QED BY <2>1, CarryStep
<1>4. \A x \in {0, 1}, n \in Nat : Step[<<x, n>>] = Shr(x + f[n] + h[n], W + 2)
  OBVIOUS
<1> HIDE DEF Step
<1>5. PICK b \in [Nat -> {0, 1}] : IsIteration(b, 0, Step)
  BY <1>3, Iteration
<1>6. b[0] = 0 /\ \A n \in Nat : b[n + 1] = Shr(b[n] + f[n] + h[n], W + 2)
  BY <1>4, <1>5 DEF IsIteration
<1> DEFINE k == [i \in d.len1..L + 1 |-> b[L + 1 - i]]
<1>7. \A i \in d.len1..L + 1 :
        k[i] = IF i = L + 1 THEN 0
               ELSE Shr(k[i + 1] + (IF i >= c.len1 THEN c.a[i] ELSE 0) + d.a[i], W + 2)
  <2> TAKE i \in d.len1..L + 1
  <2>1. CASE i = L + 1
    <3>1. L + 1 - i = 0
      BY <2>1, <1>1
    <3> QED BY <2>1, <3>1, <1>6
  <2>2. CASE i # L + 1
    <3> DEFINE n == L - i
    <3>1. /\ n \in Nat /\ L + 1 - i = n + 1 /\ L + 1 - (i + 1) = n /\ L - n = i
          /\ i + 1 \in d.len1..L + 1
          /\ (n + c.len1 <= L <=> i >= c.len1) /\ n + d.len1 <= L
      BY <2>2, <1>1
    <3> HIDE DEF n
    <3>2. k[i] = b[n + 1] /\ k[i + 1] = b[n]
      BY <3>1
    <3>3. f[n] = (IF i >= c.len1 THEN c.a[i] ELSE 0) /\ h[n] = d.a[i]
      BY <3>1, <1>2
    <3>4. b[n + 1] = Shr(b[n] + f[n] + h[n], W + 2)
      BY <3>1, <1>6
    <3> HIDE DEF k
    <3> QED BY <2>2, <3>2, <3>3, <3>4
  <2> QED BY <2>1, <2>2
<1>8. k = [i \in d.len1..L + 1 |-> k[i]]
  OBVIOUS
<1> HIDE DEF k
<1>9. IsCarry(k, c, d)
  BY <1>7, <1>8 DEF IsCarry
<1> QED BY <1>9

(* It is 0 or 1 all along.                                                   *)
LEMMA CarryIs ==
  ASSUME NEW c \in Combo, NEW d \in Combo, NEW k, IsCarry(k, c, d)
  PROVE  /\ k[L + 1] = 0
         /\ \A n \in Nat : n + d.len1 <= L + 1 => k[L + 1 - n] \in {0, 1}
         /\ \A n \in Nat : n + d.len1 <= L =>
              k[L - n] = Shr(k[L + 1 - n] + HighWords(c)[n] + HighWords(d)[n], W + 2)
<1> DEFINE f == HighWords(c)
           h == HighWords(d)
<1>1. /\ c.len1 \in Nat /\ d.len1 \in Nat /\ L \in Nat /\ d.len1 <= L
      /\ \A i \in Nat : f[i] \in 0..Word - 1 /\ h[i] \in 0..Word - 1
  BY HighWordsAre, ComboIs, WidthsAre
<1>2. /\ \A i \in Nat : f[i] = IF i + c.len1 <= L THEN c.a[L - i] ELSE 0
      /\ \A i \in Nat : h[i] = IF i + d.len1 <= L THEN d.a[L - i] ELSE 0
  BY HighWordsAre
<1> HIDE DEF f, h
<1>3. \A i \in d.len1..L + 1 :
        k[i] = IF i = L + 1 THEN 0
               ELSE Shr(k[i + 1] + (IF i >= c.len1 THEN c.a[i] ELSE 0) + d.a[i], W + 2)
  BY DEF IsCarry
<1>4. \A n \in Nat : n + d.len1 <= L => k[L - n] = Shr(k[L + 1 - n] + f[n] + h[n], W + 2)
  <2> SUFFICES ASSUME NEW n \in Nat, n + d.len1 <= L
               PROVE  k[L - n] = Shr(k[L + 1 - n] + f[n] + h[n], W + 2)
    OBVIOUS
  <2> DEFINE i == L - n
  <2>1. /\ i \in d.len1..L + 1 /\ i # L + 1 /\ L + 1 - n = i + 1
        /\ (n + c.len1 <= L <=> i >= c.len1)
    BY <1>1
  <2>2. f[n] = (IF i >= c.len1 THEN c.a[i] ELSE 0) /\ h[n] = d.a[i]
    BY <2>1, <1>2
  <2> HIDE DEF i
  <2>3. k[i] = Shr(k[i + 1] + f[n] + h[n], W + 2)
    BY <2>1, <2>2, <1>3
  <2> QED BY <2>1, <2>3 DEF i
<1>5. k[L + 1] = 0
  BY <1>1, <1>3
<1> DEFINE S == {n \in Nat : n + d.len1 <= L + 1 => k[L + 1 - n] \in {0, 1}}
<1>6. 0 \in S
  <2>1. L + 1 - 0 = L + 1
    BY <1>1
  <2> QED BY <2>1, <1>5
<1>7. \A n \in Nat : n \in S => n + 1 \in S
  <2> SUFFICES ASSUME NEW n \in Nat, n \in S, (n + 1) + d.len1 <= L + 1
               PROVE  k[L + 1 - (n + 1)] \in {0, 1}
    OBVIOUS
  <2>1. n + d.len1 <= L /\ n + d.len1 <= L + 1 /\ L + 1 - (n + 1) = L - n
    BY <1>1
  <2> DEFINE x == k[L + 1 - n]
             y == f[n]
             z == h[n]
  <2>2. x \in {0, 1} /\ y \in 0..Word - 1 /\ z \in 0..Word - 1
    BY <1>1, <2>1
  <2>3. k[L - n] = Shr(x + y + z, W + 2)
    BY <1>4, <2>1
  <2> HIDE DEF x, y, z
  <2>4. Shr(x + y + z, W + 2) \in {0, 1}
    BY <2>2, CarryStep
  <2> QED BY <2>1, <2>3, <2>4
<1>8. Nat \subseteq S
  <2> HIDE DEF S
  <2> QED BY <1>6, <1>7, Induct
<1>9. \A n \in Nat : n + d.len1 <= L + 1 => k[L + 1 - n] \in {0, 1}
  BY <1>8
<1> QED BY <1>4, <1>5, <1>9 DEF f, h

(* The smaller one's register with the sum of the second numbers.            *)
Enlarged(c, d, k) ==
  [a    |-> [i \in Limbs |->
              IF i < d.len1 THEN d.a[i]
              ELSE U32(k[i + 1] + (IF i >= c.len1 THEN c.a[i] ELSE 0) + d.a[i])],
   len1 |-> d.len1]

(* It holds the sum, if its words leave room for it.                         *)
LEMMA EnlargedIs ==
  ASSUME NEW c \in Combo, NEW d \in Combo, NEW k, IsCarry(k, c, d),
         d.len1 <= c.len1, Second(c) + Second(d) < WordPowers[L + 1 - d.len1]
  PROVE  /\ Enlarged(c, d, k) \in Combo
         /\ First(Enlarged(c, d, k)) = First(d)
         /\ Second(Enlarged(c, d, k)) = Second(c) + Second(d)
<1> DEFINE z == Enlarged(c, d, k)
           f == HighWords(c)
           h == HighWords(d)
           n == d.len1
           m == L + 1 - n
           term(i) == k[L + 1 - i] + f[i] + h[i]
<1>1. /\ n \in Nat /\ c.len1 \in Nat /\ n <= L /\ L \in Nat /\ n \in 0..L
      /\ f \in [Nat -> Int] /\ h \in [Nat -> Int]
      /\ \A i \in Nat : f[i] \in 0..Word - 1 /\ h[i] \in 0..Word - 1
      /\ \A i \in Limbs : d.a[i] \in 0..Word - 1
  BY HighWordsAre, ComboIs, WidthsAre
<1>2. /\ \A i \in Nat : f[i] = IF i + c.len1 <= L THEN c.a[L - i] ELSE 0
      /\ \A i \in Nat : h[i] = IF i + n <= L THEN d.a[L - i] ELSE 0
  BY HighWordsAre
<1>3. /\ k[L + 1] = 0
      /\ \A i \in Nat : i + n <= L + 1 => k[L + 1 - i] \in {0, 1}
      /\ \A i \in Nat : i + n <= L => k[L - i] = Shr(term(i), W + 2)
  BY CarryIs
<1>4. z.len1 = n /\ z = [a |-> z.a, len1 |-> z.len1] /\ z.a = [i \in Limbs |-> z.a[i]]
  BY DEF Enlarged
<1>5. \A i \in Limbs : z.a[i] = IF i < n THEN d.a[i]
                        ELSE U32(k[i + 1] + (IF i >= c.len1 THEN c.a[i] ELSE 0) + d.a[i])
  BY DEF Enlarged
<1> HIDE DEF z, f, h, n
<1>6. \A i \in Nat : i + n <= L =>
        /\ L - i \in Limbs /\ z.a[L - i] = U32(term(i))
        /\ U32(term(i)) \in 0..Word - 1
        /\ U32(term(i)) + Word * k[L - i] = k[L + 1 - i] + f[i] + h[i]
  <2> SUFFICES ASSUME NEW i \in Nat, i + n <= L
               PROVE  /\ L - i \in Limbs /\ z.a[L - i] = U32(term(i))
                      /\ U32(term(i)) \in 0..Word - 1
                      /\ U32(term(i)) + Word * k[L - i] = k[L + 1 - i] + f[i] + h[i]
    OBVIOUS
  <2> DEFINE l == L - i
  <2>1. /\ l \in Limbs /\ ~(l < n) /\ L + 1 - i = l + 1 /\ (i + c.len1 <= L <=> l >= c.len1)
        /\ i + n <= L + 1
    BY <1>1 DEF Limbs
  <2>2. f[i] = (IF l >= c.len1 THEN c.a[l] ELSE 0) /\ h[i] = d.a[l]
    BY <1>2, <2>1
  <2> HIDE DEF l
  <2>3. z.a[l] = U32(k[l + 1] + f[i] + h[i])
    BY <1>5, <2>1, <2>2
  <2>4. k[L + 1 - i] \in {0, 1} /\ f[i] \in 0..Word - 1 /\ h[i] \in 0..Word - 1
        /\ k[L - i] = Shr(term(i), W + 2)
    BY <1>1, <1>3, <2>1
  <2>5. U32(term(i)) \in 0..Word - 1
        /\ U32(term(i)) + Word * Shr(term(i), W + 2) = k[L + 1 - i] + f[i] + h[i]
    <3> DEFINE x == k[L + 1 - i]
               y == f[i]
               w == h[i]
    <3>1. x \in {0, 1} /\ y \in 0..Word - 1 /\ w \in 0..Word - 1 /\ term(i) = x + y + w
      BY <2>4
    <3> HIDE DEF x, y, w, term
    <3>2. /\ U32(x + y + w) \in 0..Word - 1
          /\ U32(x + y + w) + Word * Shr(x + y + w, W + 2) = x + y + w
      BY <3>1, CarryStep
    <3>3. /\ U32(term(i)) \in 0..Word - 1
          /\ U32(term(i)) + Word * Shr(term(i), W + 2) = x + y + w
      BY <3>1, <3>2
    <3> QED BY <3>3 DEF x, y, w
  <2>6. z.a[l] = U32(term(i))
    BY <2>1, <2>3
  <2> QED BY <2>1, <2>4, <2>5, <2>6 DEF l
<1>7. z \in Combo
  <2>1. \A i \in Limbs : z.a[i] \in 0..Word - 1
    <3> TAKE i \in Limbs
    <3>1. CASE i < n
      BY <3>1, <1>1, <1>5
    <3>2. CASE ~(i < n)
      <4>1. L - i \in Nat /\ (L - i) + n <= L /\ L - (L - i) = i
        BY <3>2, <1>1 DEF Limbs
      <4> DEFINE j == L - i
      <4>2. j \in Nat /\ j + n <= L /\ L - j = i
        BY <4>1
      <4> HIDE DEF j
      <4> QED BY <4>2, <1>6
    <3> QED BY <3>1, <3>2
  <2>2. z.a \in [Limbs -> 0..Word - 1]
    BY <1>4, <2>1
  <2> QED BY <1>1, <1>4, <2>2 DEF Combo
<1> DEFINE g == HighWords(z)
           carry == [i \in Nat |-> IF i <= m THEN k[L + 1 - i] ELSE 0]
<1>8. m \in Nat /\ m = L + 1 - n
  BY <1>1
<1>9. g \in [Nat -> Int] /\ g \in [Nat -> 0..Word - 1]
      /\ \A i \in Nat : g[i] = IF i + n <= L THEN z.a[L - i] ELSE 0
  BY <1>4, <1>7, HighWordsAre
<1>10. carry \in [Nat -> Int] /\ carry[0] = 0 /\ carry[m] \in Nat
      /\ \A i \in Nat : i <= m => carry[i] = k[L + 1 - i]
  <2>1. \A i \in Nat : i <= m => k[L + 1 - i] \in {0, 1}
    <3> TAKE i \in Nat
    <3>1. i <= m => i + n <= L + 1
      BY <1>1
    <3> QED BY <3>1, <1>3
  <2>2. \A i \in Nat : carry[i] \in Int
    BY <2>1
  <2>3. carry[0] = 0
    <3>1. 0 <= m /\ L + 1 - 0 = L + 1
      BY <1>1, <1>8
    <3>2. carry[0] = k[L + 1 - 0]
      BY <3>1
    <3> QED BY <3>1, <3>2, <1>3
  <2>4. carry[m] \in Nat
    <3>1. m <= m
      BY <1>8
    <3> HIDE DEF m
    <3> QED BY <2>1, <3>1, <1>8
  <2> QED BY <2>2, <2>3, <2>4
<1>11. Worth(WordPowers, g)[m] = Second(z)
  BY <1>1, <1>4, <1>7, <1>8, SecondIs
<1>12. Worth(WordPowers, f)[m] = Second(c) /\ Worth(WordPowers, h)[m] = Second(d)
  <2>1. m + c.len1 >= L + 1 /\ m + d.len1 >= L + 1
    BY <1>1, <1>8 DEF n
  <2> QED BY <2>1, <1>8, SecondIs DEF f, h
<1>13. Second(z) \in Nat /\ Second(c) \in Nat /\ Second(d) \in Nat
  BY <1>7, SecondIs
<1> HIDE DEF g, carry, m
<1>14. Carried(Word, carry, 1, g, 1, f, 1, h, m)
  <2> SUFFICES ASSUME NEW i \in 0..m - 1
               PROVE  1 * g[i] + Word * carry[i + 1] = 1 * f[i] + 1 * h[i] + carry[i]
    BY DEF Carried
  <2>1. i \in Nat /\ i <= m /\ i + 1 <= m /\ i + 1 \in Nat /\ i + n <= L /\ L + 1 - (i + 1) = L - i
    BY <1>1, <1>8
  <2> DEFINE x == U32(term(i))
  <2>2. g[i] = x /\ x \in 0..Word - 1 /\ x + Word * k[L - i] = k[L + 1 - i] + f[i] + h[i]
    BY <2>1, <1>6, <1>9
  <2>3. carry[i] = k[L + 1 - i] /\ carry[i + 1] = k[L - i]
    BY <2>1, <1>10
  <2> HIDE DEF x
  <2>4. g[i] + Word * carry[i + 1] = carry[i] + f[i] + h[i]
    BY <2>2, <2>3
  <2>5. g[i] \in Int /\ carry[i] \in Int /\ carry[i + 1] \in Int /\ f[i] \in Int /\ h[i] \in Int
        /\ Word \in Nat
    BY <2>1, <1>1, <1>9, <1>10, WordIs
  <2> QED BY <2>4, <2>5
<1>15. 1 * Worth(WordPowers, g)[m] + WordPowers[m] * carry[m]
         = 1 * Worth(WordPowers, f)[m] + 1 * Worth(WordPowers, h)[m] + carry[0]
  <2>1. IsPowers(WordPowers, Word) /\ 1 \in Int
    BY WordPowersAre
  <2>2. f \in [Nat -> Int] /\ h \in [Nat -> Int] /\ g \in [Nat -> Int] /\ carry \in [Nat -> Int]
    BY <1>1, <1>9, <1>10
  <2> QED BY <1>8, <1>14, <2>1, <2>2, WorthCarry
<1>16. Second(z) = Second(c) + Second(d)
  <2> DEFINE y == Second(c) + Second(d)
  <2>1. Second(z) + WordPowers[m] * carry[m] = y /\ WordPowers[m] \in Nat /\ y \in Nat
    BY <1>8, <1>10, <1>11, <1>12, <1>13, <1>15, WordPowersAre
  <2>2. y < WordPowers[m]
    BY <1>8 DEF n
  <2> HIDE DEF y
  <2>3. Second(z) = y
    BY <1>10, <1>13, <2>1, <2>2, NoCarry
  <2> QED BY <2>3 DEF y
<1>17. First(z) = First(d)
  <2> DEFINE p == LowWords(z)
             q == LowWords(d)
  <2>1. p \in [Nat -> Int] /\ q \in [Nat -> Int]
    BY <1>7, LowWordsAre
  <2>2. \A i \in 0..n - 1 : p[i] = q[i]
    <3> TAKE i \in 0..n - 1
    <3>1. i \in Nat /\ i < n /\ i \in Limbs
      BY <1>1 DEF Limbs
    <3>2. p[i] = z.a[i] /\ q[i] = d.a[i]
      BY <3>1, <1>4, <1>7, LowWordsAre DEF n
    <3> QED BY <3>1, <3>2, <1>5
  <2>3. Worth(WordPowers, p)[n] = First(z) /\ Worth(WordPowers, q)[n] = First(d)
    BY <1>1, <1>4, <1>7, FirstIs DEF n
  <2>4. IsPowers(WordPowers, Word)
    BY WordPowersAre
  <2> HIDE DEF p, q
  <2>5. n \in Nat
    BY <1>1
  <2>6. Worth(WordPowers, p)[n] = Worth(WordPowers, q)[n]
    BY <2>1, <2>2, <2>4, <2>5, WorthSame
  <2> QED BY <2>3, <2>6
<1> QED BY <1>7, <1>16, <1>17 DEF z

(* t is what Subtract makes of st0 with that borrow and that carry.          *)
Subtraction(st0, t, name, b, k) ==
  /\ IsBorrow(b, st0[name], st0[Other(name)])
  /\ IsCarry(k, st0[name], st0[Other(name)])
  /\ t = [st0 EXCEPT ![name] = Lessened(st0[name], st0[Other(name)], b),
                     ![Other(name)] = Enlarged(st0[name], st0[Other(name)], k),
                     !.even = name]

(* There is one of each.                                                     *)
LEMMA SubtractUnfold ==
  ASSUME NEW st0 \in Registers, NEW name, name = IF Greater(st0) THEN "us" ELSE "vr"
  PROVE  \E b, k : Subtraction(st0, Subtract(st0), name, b, k)
<1> DEFINE c == st0[name]
           d == st0[Other(name)]
           b == CHOOSE g : IsBorrow(g, c, d)
           k == CHOOSE g : IsCarry(g, c, d)
<1>1. name \in {"us", "vr"} /\ Other(name) \in {"us", "vr"} /\ Other(name) # name
      /\ c \in Combo /\ d \in Combo
  BY RegistersAre DEF Other
<1>2. IsBorrow(b, c, d) /\ IsCarry(k, c, d)
  BY <1>1, BorrowExists, CarryExists
<1> DEFINE x == [i \in Limbs |->
                   IF i >= c.len1 THEN c.a[i]
                   ELSE U32(b[i] + Word - 1 + c.a[i] - (IF i < d.len1 THEN d.a[i] ELSE 0))]
           y == [i \in Limbs |->
                   IF i < d.len1 THEN d.a[i]
                   ELSE U32(k[i + 1] + (IF i >= c.len1 THEN c.a[i] ELSE 0) + d.a[i])]
<1>3. Subtract(st0) = [st0 EXCEPT ![name].a = x, ![Other(name)].a = y, !.even = name]
  BY DEF Subtract, IsBorrow, IsCarry
<1>4. /\ Lessened(c, d, b) = [a |-> x, len1 |-> c.len1]
      /\ Enlarged(c, d, k) = [a |-> y, len1 |-> d.len1]
  BY DEF Lessened, Enlarged
<1>5. c = [a |-> c.a, len1 |-> c.len1] /\ d = [a |-> d.a, len1 |-> d.len1]
  BY <1>1, ComboIs
<1> HIDE DEF x, y, b, k
<1>6. [c EXCEPT !.a = x] = [a |-> x, len1 |-> c.len1]
      /\ [d EXCEPT !.a = y] = [a |-> y, len1 |-> d.len1]
  <2> HIDE DEF c, d
  <2> QED BY <1>5
<1> DEFINE new(p, q) == [st0 EXCEPT ![name] = p, ![Other(name)] = q, !.even = name]
<1>7. [st0 EXCEPT ![name].a = x, ![Other(name)].a = y, !.even = name]
        = new([c EXCEPT !.a = x], [d EXCEPT !.a = y])
  BY <1>1, RegistersAre
<1>8. Subtract(st0) = new([c EXCEPT !.a = x], [d EXCEPT !.a = y])
  BY <1>3, <1>7
<1>9. [c EXCEPT !.a = x] = Lessened(c, d, b) /\ [d EXCEPT !.a = y] = Enlarged(c, d, k)
  BY <1>4, <1>6
<1>10. Subtract(st0) = new(Lessened(c, d, b), Enlarged(c, d, k))
  <2> DEFINE p == [c EXCEPT !.a = x]
             q == [d EXCEPT !.a = y]
  <2>1. Subtract(st0) = new(p, q) /\ p = Lessened(c, d, b) /\ q = Enlarged(c, d, k)
    BY <1>8, <1>9
  <2> HIDE DEF new, p, q
  <2> QED BY <2>1
<1>11. Subtraction(st0, Subtract(st0), name, b, k)
  BY <1>2, <1>10 DEF Subtraction
<1> QED BY <1>11

(* The smaller of the two first numbers is taken from the greater one, and   *)
(* the second number of the greater added to that of the smaller.            *)
Subtracted(c, d, c1, d1) ==
  /\ First(d) < First(c)
  /\ c1 \in Combo /\ d1 \in Combo
  /\ First(c1) = First(c) - First(d) /\ Second(c1) = Second(c)
  /\ First(d1) = First(d) /\ Second(d1) = Second(c) + Second(d)
  /\ TopIsNotZero(d1) /\ d1.a[0] = d.a[0]

(* Subtract does that, while both products are below 2^Bits.                 *)
LEMMA SubtractIs ==
  ASSUME NEW st0 \in Registers, TopIsNotZero(st0.us), TopIsNotZero(st0.vr), ~Finished(st0),
         First(st0.us) * Second(st0.us) + First(st0.vr) * Second(st0.vr) < WordPowers[L],
         NEW name, name = IF First(st0.us) > First(st0.vr) THEN "us" ELSE "vr"
  PROVE  /\ Subtract(st0) \in Registers
         /\ Subtract(st0).even = name /\ Subtract(st0).k = st0.k
         /\ Subtracted(st0[name], st0[Other(name)],
                       Subtract(st0)[name], Subtract(st0)[Other(name)])
<1> DEFINE c == st0[name]
           d == st0[Other(name)]
<1>1. name \in {"us", "vr"} /\ Other(name) \in {"us", "vr"} /\ Other(name) # name
      /\ c \in Combo /\ d \in Combo /\ TopIsNotZero(c) /\ TopIsNotZero(d)
  BY RegistersAre DEF Other
<1>2. /\ First(c) \in Nat /\ Second(c) \in Nat /\ First(d) \in Nat /\ Second(d) \in Nat
      /\ c.len1 \in Nat /\ d.len1 \in Nat /\ d.len1 <= L /\ L \in Nat
  BY <1>1, FirstIs, SecondIs, ComboIs, WidthsAre
<1>3. name = IF Greater(st0) THEN "us" ELSE "vr"
  BY CompareIs
<1>4. First(d) < First(c)
  <2>1. First(st0.us) # First(st0.vr)
    BY CompareIs
  <2>2. First(st0.us) \in Nat /\ First(st0.vr) \in Nat
    BY RegistersAre, FirstIs
  <2> QED BY <2>1, <2>2 DEF Other
<1>5. d.len1 <= c.len1
  <2> SUFFICES ASSUME ~(d.len1 <= c.len1) PROVE FALSE
    OBVIOUS
  <2>1. First(c) < First(d)
    BY <1>1, <1>2, LongerIsGreater
  <2> QED BY <2>1, <1>2, <1>4
<1>6. First(c) * Second(c) + First(d) * Second(d) < WordPowers[L]
  <2>1. CASE name = "us"
    BY <2>1 DEF Other
  <2>2. CASE name = "vr"
    <3> DEFINE x == First(st0.us) * Second(st0.us)
               y == First(st0.vr) * Second(st0.vr)
    <3>1. /\ First(st0.us) \in Nat /\ Second(st0.us) \in Nat
          /\ First(st0.vr) \in Nat /\ Second(st0.vr) \in Nat
      BY RegistersAre, FirstIs, SecondIs
    <3>2. x \in Nat /\ y \in Nat /\ x + y < WordPowers[L]
      BY <3>1
    <3>3. First(c) * Second(c) = y /\ First(d) * Second(d) = x
      BY <2>2 DEF Other
    <3> HIDE DEF x, y
    <3> QED BY <3>2, <3>3
  <2> QED BY <1>1, <2>1, <2>2
<1> HIDE DEF c, d
<1>7. Second(c) + Second(d) < WordPowers[L + 1 - d.len1]
  <2> DEFINE x == First(d)
             e == First(c)
             y == Second(c) + Second(d)
             m == d.len1 - 1
  <2>1. m \in Nat /\ m <= L /\ L + 1 - d.len1 = L - m
    BY <1>1, <1>2 DEF TopIsNotZero
  <2>2. WordPowers[m] <= x
    BY <1>1, TopCounts
  <2>3. x * y <= First(c) * Second(c) + First(d) * Second(d)
    <3> DEFINE p == Second(c)
               q == Second(d)
    <3>1. x \in Nat /\ e \in Nat /\ p \in Nat /\ q \in Nat /\ x <= e
      BY <1>2, <1>4
    <3> HIDE DEF x, e, p, q
    <3>2. x * p <= e * p /\ x * p \in Nat /\ e * p \in Nat /\ x * q \in Nat
      BY <3>1, TimesOrder
    <3>3. x * (p + q) = x * p + x * q
      BY <3>1
    <3>4. x * (p + q) <= e * p + x * q
      BY <3>2, <3>3
    <3> QED BY <3>4 DEF x, e, p, q
  <2>4. x \in Nat /\ y \in Nat
    BY <1>2
  <2>5. WordPowers[L] \in Nat
    BY <1>2, WordPowersAre
  <2>6. First(c) * Second(c) + First(d) * Second(d) \in Nat
    BY <1>2
  <2> HIDE DEF x, y, m
  <2>7. x * y \in Nat
    BY <2>4
  <2>8. x * y < WordPowers[L]
    BY <2>3, <2>5, <2>6, <2>7, <1>6
  <2>9. y < WordPowers[L - m]
    BY <2>1, <2>2, <2>4, <2>8, <1>2, Room
  <2> QED BY <2>1, <2>9 DEF y
<1>8. PICK b, k : Subtraction(st0, Subtract(st0), name, b, k)
  BY <1>3, SubtractUnfold
<1>9. IsBorrow(b, c, d) /\ IsCarry(k, c, d)
  BY <1>8 DEF Subtraction, c, d
<1> DEFINE c1 == Lessened(c, d, b)
           d1 == Enlarged(c, d, k)
<1>10. c1 \in Combo /\ First(c1) = First(c) - First(d) /\ Second(c1) = Second(c)
  BY <1>1, <1>4, <1>5, <1>9, LessenedIs
<1>11. d1 \in Combo /\ First(d1) = First(d) /\ Second(d1) = Second(c) + Second(d)
  BY <1>1, <1>5, <1>7, <1>9, EnlargedIs
<1>12. TopIsNotZero(d1) /\ d1.a[0] = d.a[0]
  <2>1. d.len1 >= 1 /\ d.a[d.len1 - 1] # 0 /\ d.len1 - 1 \in Limbs /\ 0 \in Limbs
        /\ d.len1 - 1 < d.len1 /\ 0 < d.len1
    BY <1>1, <1>2 DEF TopIsNotZero, Limbs
  <2>2. d1.len1 = d.len1 /\ \A i \in Limbs : i < d.len1 => d1.a[i] = d.a[i]
    BY DEF Enlarged
  <2> HIDE DEF d1
  <2> QED BY <2>1, <2>2 DEF TopIsNotZero
<1>13. Subtract(st0) = [st0 EXCEPT ![name] = c1, ![Other(name)] = d1, !.even = name]
  BY <1>8 DEF Subtraction, c, d
<1> HIDE DEF c1, d1
<1>14. /\ Subtract(st0) \in Registers
       /\ Subtract(st0).even = name /\ Subtract(st0).k = st0.k
       /\ Subtract(st0)[name] = c1 /\ Subtract(st0)[Other(name)] = d1
  BY <1>1, <1>10, <1>11, <1>13, RegistersAre DEF Registers, Other
<1>15. Subtracted(c, d, c1, d1)
  BY <1>4, <1>10, <1>11, <1>12 DEF Subtracted
<1> QED BY <1>14, <1>15 DEF c, d

-----------------------------------------------------------------------------
(* Numbers in limbs, and the same numbers in words.                          *)

LimbPowers == PowersOfTwo(W)
LimbsOf(a) == [i \in Nat |-> IF i <= L THEN a[i] ELSE 0]
WordsOf(w) == [i \in Nat |-> IF i < L THEN w[i] ELSE 0]

(* The powers of a limb.                                                     *)
LEMMA LimbPowersAre ==
  /\ IsPowers(LimbPowers, Limb)
  /\ \A n \in Nat : LimbPowers[n] = 2^(W * n) /\ LimbPowers[n] \in Nat \ {0}
<1>1. IsPowers(LimbPowers, 2^W) /\ \A n \in Nat : LimbPowers[n] = 2^(W * n)
  BY WidthsAre, PowersOfTwoAre DEF LimbPowers
<1>2. Limb = 2^W
  BY WordIs
<1> QED BY <1>1, <1>2 DEF IsPowers

(* The digits of a number in limbs.                                          *)
LEMMA LimbsOfAre ==
  ASSUME NEW a \in [Limbs -> Nat]
  PROVE  /\ LimbsOf(a) \in [Nat -> Int]
         /\ \A i \in Nat : LimbsOf(a)[i] \in Nat
         /\ \A i \in Limbs : LimbsOf(a)[i] = a[i]
BY WidthsAre DEF LimbsOf, Limbs

(* Value adds one limb after the other.                                      *)
LEMMA ValueIs ==
  ASSUME NEW a \in [Limbs -> Nat]
  PROVE  Value(a) \in Int /\ Value(a) = Worth(LimbPowers, LimbsOf(a))[L + 1]
<1> DEFINE f == LimbsOf(a)
           Fix(g) == g = [i \in Limbs |-> (IF i = 0 THEN 0 ELSE g[i - 1]) + a[i] * 2^(W * i)]
           w == Worth(LimbPowers, f)
           wn == [i \in Limbs |-> w[i + 1]]
<1>1. L \in Nat /\ Limbs = 0..L
  BY WidthsAre DEF Limbs
<1>2. f \in [Nat -> Int] /\ \A i \in Limbs : f[i] = a[i]
  BY LimbsOfAre
<1> HIDE DEF f
<1>3. /\ w[0] = 0
      /\ \A n \in Nat : w[n] \in Int /\ w[n + 1] = w[n] + f[n] * 2^(W * n)
  BY <1>2, LimbPowersAre, WorthStep
<1> HIDE DEF w
<1>4. Fix(wn)
  <2>1. ASSUME NEW i \in Limbs
        PROVE  wn[i] = (IF i = 0 THEN 0 ELSE wn[i - 1]) + a[i] * 2^(W * i)
    <3>1. i \in Nat /\ wn[i] = w[i + 1] /\ w[i + 1] = w[i] + a[i] * 2^(W * i)
      BY <1>1, <1>2, <1>3
    <3>2. w[i] = IF i = 0 THEN 0 ELSE wn[i - 1]
      <4>1. CASE i = 0
        BY <4>1, <1>3
      <4>2. CASE i # 0
        <5>1. i - 1 \in Limbs /\ (i - 1) + 1 = i
          BY <4>2, <1>1
        <5> QED BY <5>1, <4>2
      <4> QED BY <4>1, <4>2
    <3> QED BY <3>1, <3>2
  <2> QED BY <2>1
<1> DEFINE h == CHOOSE g : Fix(g)
<1>5. Fix(h)
  <2> HIDE DEF Fix, wn
  <2> QED BY <1>4
<1>6. Value(a) = h[L]
  BY DEF Value
<1> HIDE DEF h, wn
<1>7. \A i \in Limbs : h[i] = (IF i = 0 THEN 0 ELSE h[i - 1]) + a[i] * 2^(W * i)
  BY <1>5
<1> DEFINE S == {n \in Nat : n <= L => h[n] = w[n + 1]}
<1>8. 0 \in S
  <2>1. 0 \in Limbs
    BY <1>1
  <2>2. h[0] = 0 + a[0] * 2^(W * 0)
    BY <2>1, <1>7
  <2>3. w[0 + 1] = 0 + a[0] * 2^(W * 0)
    BY <2>1, <1>2, <1>3
  <2> QED BY <2>2, <2>3
<1>9. \A n \in Nat : n \in S => n + 1 \in S
  <2> SUFFICES ASSUME NEW n \in Nat, n \in S, n + 1 <= L PROVE h[n + 1] = w[(n + 1) + 1]
    OBVIOUS
  <2>1. n + 1 \in Limbs /\ n + 1 # 0 /\ (n + 1) - 1 = n /\ n <= L
    BY <1>1
  <2>2. h[n + 1] = h[n] + a[n + 1] * 2^(W * (n + 1))
    BY <2>1, <1>7
  <2>3. w[(n + 1) + 1] = w[n + 1] + a[n + 1] * 2^(W * (n + 1))
    BY <2>1, <1>2, <1>3
  <2> QED BY <2>1, <2>2, <2>3
<1>10. h[L] = w[L + 1]
  <2>1. L \in S
    <3> HIDE DEF S
    <3> QED BY <1>1, <1>8, <1>9, Induct
  <2> QED BY <2>1, <1>1
<1>11. w[L + 1] \in Int
  BY <1>1, <1>3
<1> QED BY <1>6, <1>10, <1>11 DEF w, f

(* Digits f to the powers q and digits g to the powers p, of which h[i] is   *)
(* what the first i of f are ahead.                                          *)
Regrouping(q, f, p, g, h, n) ==
  h[0] = 0 /\ \A i \in 0..n - 1 : f[i] * q[i] + h[i] * p[i] = g[i] * p[i] + h[i + 1] * p[i + 1]

(* They are worth the same but for what is ahead at the end.                 *)
LEMMA Regroup ==
  ASSUME NEW B, NEW C, NEW q, NEW p, IsPowers(q, B), IsPowers(p, C),
         NEW f \in [Nat -> Int], NEW g \in [Nat -> Int], NEW h \in [Nat -> Int],
         NEW n \in Nat, Regrouping(q, f, p, g, h, n)
  PROVE  Worth(q, f)[n] = Worth(p, g)[n] + h[n] * p[n]
<1> DEFINE v1 == Worth(q, f)
           v2 == Worth(p, g)
           S == {k \in Nat : k <= n => v1[k] = v2[k] + h[k] * p[k]}
<1>1. /\ v1[0] = 0 /\ v2[0] = 0
      /\ \A k \in Nat : /\ v1[k] \in Int /\ v1[k + 1] = v1[k] + f[k] * q[k]
                        /\ v2[k] \in Int /\ v2[k + 1] = v2[k] + g[k] * p[k]
  BY WorthStep
<1>2. \A k \in Nat : q[k] \in Nat /\ p[k] \in Nat
  BY DEF IsPowers
<1>3. h[0] = 0
      /\ \A i \in 0..n - 1 : f[i] * q[i] + h[i] * p[i] = g[i] * p[i] + h[i + 1] * p[i + 1]
  BY DEF Regrouping
<1> HIDE DEF v1, v2
<1>4. 0 \in S
  <2>1. p[0] \in Nat /\ h[0] * p[0] = 0
    BY <1>2, <1>3
  <2>2. v1[0] = v2[0] + h[0] * p[0]
    BY <1>1, <2>1
  <2> QED BY <2>2
<1>5. \A k \in Nat : k \in S => k + 1 \in S
  <2> SUFFICES ASSUME NEW k \in Nat, k \in S, k + 1 <= n
               PROVE  v1[k + 1] = v2[k + 1] + h[k + 1] * p[k + 1]
    OBVIOUS
  <2>1. k \in 0..n - 1 /\ k <= n /\ k + 1 \in Nat
    OBVIOUS
  <2> DEFINE x == f[k] * q[k]
             y == h[k] * p[k]
             z == g[k] * p[k]
             t == h[k + 1] * p[k + 1]
  <2>2. x + y = z + t
    BY <2>1, <1>3
  <2>3. v1[k + 1] = v1[k] + x /\ v2[k + 1] = v2[k] + z /\ v1[k] = v2[k] + y
    BY <2>1, <1>1
  <2>4. x \in Int /\ y \in Int /\ z \in Int /\ t \in Int
    <3>1. f[k] \in Int /\ q[k] \in Int /\ h[k] \in Int /\ p[k] \in Int /\ g[k] \in Int
          /\ h[k + 1] \in Int /\ p[k + 1] \in Int
      BY <1>2, <2>1
    <3> QED BY <3>1
  <2>5. v1[k] \in Int /\ v2[k] \in Int
    BY <1>1
  <2> HIDE DEF x, y, z, t
  <2>6. v1[k + 1] = v2[k + 1] + t
    BY <2>2, <2>3, <2>4, <2>5
  <2> QED BY <2>6 DEF t
<1>6. n \in S
  <2> HIDE DEF S
  <2> QED BY <1>4, <1>5, Induct
<1> QED BY <1>6 DEF v1, v2

(* How a limb lies in its words.                                             *)
LEMMA LimbWidths ==
  ASSUME NEW i \in Nat, i < L
  PROVE  LET e == 2^(2 * i)
             p == 2^(W - 2 * i)
         IN  /\ 2 * i \in Nat /\ W - 2 * i \in Nat /\ 2 * i + 2 \in Nat
             /\ (W - 2 * i) + (2 * i + 2) = W + 2
             /\ e \in Nat \ {0} /\ p \in Nat \ {0}
             /\ Limb = p * e
             /\ 2^(2 * i + 2) = 4 * e
             /\ WordPowers[i] = LimbPowers[i] * e
             /\ LimbPowers[i + 1] = Limb * LimbPowers[i]
             /\ LimbPowers[i] \in Nat
<1> DEFINE a == 2 * i
           b == W - 2 * i
<1>1. /\ a \in Nat /\ b \in Nat /\ a + b = W /\ b + (a + 2) = W + 2 /\ a + 1 \in Nat
      /\ W \in Nat /\ a + 2 \in Nat
  BY WidthsAre
<1>2. W * i \in Nat /\ (W + 2) * i = W * i + a
  BY <1>1
<1> HIDE DEF a, b
<1>3. 2^a \in Nat \ {0} /\ 2^b \in Nat \ {0} /\ 2^(a + 1) = 2 * 2^a
  BY <1>1, TwoTo
<1>4. 2^(a + 2) = 4 * 2^a
  <2>1. 2^((a + 1) + 1) = 2 * 2^(a + 1) /\ (a + 1) + 1 = a + 2
    BY <1>1, TwoTo
  <2> QED BY <2>1, <1>3
<1>5. Limb = 2^b * 2^a
  <2>1. 2^(b + a) = 2^b * 2^a /\ b + a = W
    BY <1>1, TwoToSum
  <2> QED BY <2>1, WordIs
<1>6. WordPowers[i] = LimbPowers[i] * 2^a
  <2> DEFINE x == W * i
  <2>1. x \in Nat /\ (W + 2) * i = x + a
    BY <1>2
  <2>2. WordPowers[i] = 2^((W + 2) * i) /\ LimbPowers[i] = 2^x
    BY WordPowersAre, LimbPowersAre
  <2> HIDE DEF x
  <2>3. 2^(x + a) = 2^x * 2^a
    BY <2>1, <1>1, TwoToSum
  <2> QED BY <2>1, <2>2, <2>3
<1>7. LimbPowers[i + 1] = Limb * LimbPowers[i] /\ LimbPowers[i] \in Nat
  BY LimbPowersAre DEF IsPowers
<1> QED BY <1>1, <1>3, <1>4, <1>5, <1>6, <1>7 DEF a, b

(* A word and what is behind of one limb are the limb and what is ahead.     *)
LEMMA WordIsOfLimbs ==
  ASSUME NEW i \in Nat, i < L, NEW x \in Nat, NEW y \in Nat, x < Limb, y < Limb
  PROVE  LET z == U32(Shr(x, 2 * i) + Shl(y, W - 2 * i))
         IN  /\ z \in 0..Word - 1
             /\ z * WordPowers[i] + (x % 2^(2 * i)) * LimbPowers[i]
                  = x * LimbPowers[i] + (y % 2^(2 * i + 2)) * LimbPowers[i + 1]
<1> DEFINE e == 2^(2 * i)
           p == 2^(W - 2 * i)
           q == LimbPowers[i]
           a == Shr(x, 2 * i)
           h == x % e
           g == y % 2^(2 * i + 2)
           b == Shl(y, W - 2 * i)
<1>1. /\ 2 * i \in Nat /\ W - 2 * i \in Nat /\ 2 * i + 2 \in Nat
      /\ (2 * i + 2) + (W - 2 * i) = W + 2
      /\ e \in Nat \ {0} /\ p \in Nat \ {0} /\ Limb = p * e
      /\ WordPowers[i] = q * e /\ LimbPowers[i + 1] = Limb * q /\ q \in Nat
  BY LimbWidths, WidthsAre
<1>2. a \in Nat /\ h \in Nat /\ x = e * a + h
  BY <1>1, ShrIs
<1>3. a < p
  <2>1. (2 * i) + (W - 2 * i) = W /\ Limb = 2^W
    BY <1>1, WordIs, WidthsAre
  <2>2. x < 2^((W - 2 * i) + (2 * i))
    BY <2>1, <1>1
  <2> QED BY <1>1, <2>2, ShrBound
<1>4. b = p * g /\ b \in Nat /\ b + p <= Word /\ g \in Nat
  <2>1. y \in 0..Word - 1
    BY WordIs
  <2>2. b = p * (y % 2^(2 * i + 2)) /\ b \in Nat /\ b + p <= Word
    BY <1>1, <2>1, ShlIs
  <2>3. y % 2^(2 * i + 2) \in Nat
    BY <1>1, ShrIs
  <2> QED BY <2>2, <2>3
<1> HIDE DEF e, p, q, a, h, g, b
<1>5. U32(a + b) = a + b /\ a + b \in 0..Word - 1
  <2>1. a + b \in Nat /\ a + b < Word
    BY <1>1, <1>2, <1>3, <1>4, WordIs
  <2> QED BY <2>1, U32Is, WordIs
<1>6. (a + b) * (q * e) + h * q = x * q + g * (Limb * q)
  <2>1. (a + p * g) * (q * e) = (e * a) * q + g * ((p * e) * q)
    BY <1>1, <1>2, <1>4
  <2>2. x * q = (e * a) * q + h * q
    BY <1>1, <1>2
  <2> DEFINE l == (e * a) * q
             m == h * q
             n == g * (Limb * q)
  <2>3. l \in Int /\ m \in Int /\ n \in Int
    BY <1>1, <1>2, <1>4, WordIs
  <2>4. (a + b) * (q * e) = l + n
    BY <2>1, <1>1, <1>4
  <2> HIDE DEF l, m, n
  <2>5. (a + b) * (q * e) + m = x * q + n
    BY <2>2, <2>3, <2>4 DEF l, m
  <2> QED BY <2>5 DEF m, n
<1> QED BY <1>1, <1>5, <1>6 DEF a, b, h, e, g, q

(* Words keeps the value of a number that fits.                              *)
LEMMA WordsAre ==
  ASSUME NEW x \in [Limbs -> Nat], \A i \in Limbs : x[i] < Limb, x[L] < 2^T
  PROVE  /\ Words(x) \in [0..L - 1 -> 0..Word - 1]
         /\ WordsOf(Words(x)) \in [Nat -> Int]
         /\ Worth(WordPowers, WordsOf(Words(x)))[L] = Value(x)
<1> DEFINE z == Words(x)
           f == WordsOf(z)
           g == LimbsOf(x)
           h == [i \in Nat |-> g[i] % 2^(2 * i)]
<1>1. L \in Nat /\ Limbs = 0..L /\ L \in Limbs
  BY WidthsAre DEF Limbs
<1>2. /\ g \in [Nat -> Int]
      /\ \A i \in Nat : g[i] \in Nat
      /\ \A i \in Limbs : g[i] = x[i] /\ g[i] < Limb
  BY LimbsOfAre
<1>3. \A i \in 0..L - 1 : z[i] = U32(Shr(g[i], 2 * i) + Shl(g[i + 1], W - 2 * i))
  <2> TAKE i \in 0..L - 1
  <2>1. i \in Limbs /\ i + 1 \in Limbs
    BY <1>1
  <2> QED BY <2>1, <1>2 DEF Words
<1>4. z = [i \in 0..L - 1 |-> z[i]]
  BY DEF Words
<1> HIDE DEF z, g
<1>5. \A i \in 0..L - 1 :
        /\ z[i] \in 0..Word - 1
        /\ z[i] * WordPowers[i] + (g[i] % 2^(2 * i)) * LimbPowers[i]
             = g[i] * LimbPowers[i] + (g[i + 1] % 2^(2 * i + 2)) * LimbPowers[i + 1]
  <2> TAKE i \in 0..L - 1
  <2>1. i \in Nat /\ i < L /\ i \in Limbs /\ i + 1 \in Limbs /\ i + 1 \in Nat
    BY <1>1
  <2>2. g[i] \in Nat /\ g[i + 1] \in Nat /\ g[i] < Limb /\ g[i + 1] < Limb
    BY <2>1, <1>2
  <2> QED BY <1>3, <2>1, <2>2, WordIsOfLimbs
<1>6. z \in [0..L - 1 -> 0..Word - 1]
  BY <1>4, <1>5
<1>7. f \in [Nat -> Int] /\ \A i \in 0..L - 1 : f[i] = z[i]
  BY <1>1, <1>6 DEF WordsOf
<1>8. h \in [Nat -> Int] /\ \A i \in Nat : h[i] = g[i] % 2^(2 * i)
  <2> SUFFICES ASSUME NEW i \in Nat PROVE g[i] % 2^(2 * i) \in Int
    OBVIOUS
  <2>1. 2 * i \in Nat
    OBVIOUS
  <2> QED BY <2>1, <1>2, ShrIs
<1> HIDE DEF f, h
<1>9. Regrouping(WordPowers, f, LimbPowers, g, h, L)
  <2>1. h[0] = 0
    <3>1. 2 * 0 = 0 /\ 2^0 = 1
      BY TwoTo
    <3>2. g[0] \in Nat
      BY <1>2
    <3>3. h[0] = g[0] % 2^(2 * 0)
      BY <1>8
    <3>4. h[0] = g[0] % 1
      BY <3>1, <3>3
    <3> HIDE DEF h, g
    <3> QED BY <3>2, <3>4
  <2>2. ASSUME NEW i \in 0..L - 1
        PROVE  f[i] * WordPowers[i] + h[i] * LimbPowers[i]
                 = g[i] * LimbPowers[i] + h[i + 1] * LimbPowers[i + 1]
    <3>1. i \in Nat /\ i + 1 \in Nat /\ 2 * (i + 1) = 2 * i + 2
      OBVIOUS
    <3>2. h[i] = g[i] % 2^(2 * i) /\ h[i + 1] = g[i + 1] % 2^(2 * i + 2) /\ f[i] = z[i]
      BY <3>1, <1>7, <1>8
    <3> QED BY <3>2, <1>5
  <2> QED BY <2>1, <2>2 DEF Regrouping
<1>10. Worth(WordPowers, f)[L] = Worth(LimbPowers, g)[L] + h[L] * LimbPowers[L]
  <2>1. IsPowers(WordPowers, Word) /\ IsPowers(LimbPowers, Limb)
    BY WordPowersAre, LimbPowersAre
  <2>2. g \in [Nat -> Int] /\ f \in [Nat -> Int] /\ h \in [Nat -> Int] /\ L \in Nat
    BY <1>1, <1>2, <1>7, <1>8
  <2> QED BY <1>9, <2>1, <2>2, Regroup
<1>11. h[L] = g[L]
  <2>1. g[L] \in Nat /\ g[L] < 2^(2 * L) /\ 2 * L \in Nat
    BY <1>1, <1>2 DEF T
  <2>2. 2^(2 * L) \in Nat \ {0}
    BY <2>1, TwoTo
  <2>3. g[L] % 2^(2 * L) = g[L]
    <3> DEFINE a == g[L]
               b == 2^(2 * L)
    <3>1. a \in Nat /\ b \in Nat \ {0} /\ a < b
      BY <2>1, <2>2
    <3> HIDE DEF a, b
    <3>2. a % b = a
      BY <3>1
    <3> QED BY <3>2 DEF a, b
  <2> QED BY <2>3, <1>1, <1>8
<1>12. Worth(LimbPowers, g)[L + 1] = Worth(LimbPowers, g)[L] + g[L] * LimbPowers[L]
  <2>1. IsPowers(LimbPowers, Limb)
    BY LimbPowersAre
  <2>2. Adds(Worth(LimbPowers, g), LimbPowers, g)
    BY <2>1, <1>2, WorthAdds
  <2> QED BY <2>2, <1>1 DEF Adds
<1>13. Value(x) = Worth(LimbPowers, g)[L + 1]
  BY ValueIs DEF g
<1>14. Worth(WordPowers, f)[L] = Value(x)
  BY <1>10, <1>11, <1>12, <1>13
<1> QED BY <1>6, <1>7, <1>14 DEF z, f

(* How a word lies in its limbs.                                             *)
LEMMA LimbIsOfWords ==
  ASSUME NEW i \in Nat, i < L, NEW s0 \in 0..Word - 1
  PROVE  LET z == Low(Shl(s0, 2 * i))
             h == Shr(s0, W - 2 * i)
         IN  /\ z \in Nat /\ z + 2^(2 * i) <= Limb /\ 2^(2 * i) \in Nat
             /\ h \in Nat /\ h < 2^(2 * (i + 1))
             /\ s0 * WordPowers[i] = z * LimbPowers[i] + h * LimbPowers[i + 1]
<1> DEFINE e == 2^(2 * i)
           p == 2^(W - 2 * i)
           q == LimbPowers[i]
           h == Shr(s0, W - 2 * i)
           l == s0 % p
           y == s0 * e
           k == y \div Word
<1>1. /\ 2 * i \in Nat /\ W - 2 * i \in Nat /\ 2 * i + 2 \in Nat
      /\ (2 * i + 2) + (W - 2 * i) = W + 2
      /\ e \in Nat \ {0} /\ p \in Nat \ {0} /\ Limb = p * e
      /\ WordPowers[i] = q * e /\ LimbPowers[i + 1] = Limb * q /\ q \in Nat
  BY LimbWidths, WidthsAre
<1>2. s0 \in Nat /\ Word \in Nat /\ Limb \in Nat \ {0} /\ Word = 4 * Limb /\ s0 < Word
  BY WordIs
<1>3. h \in Nat /\ l \in Nat /\ l < p /\ s0 = p * h + l
  BY <1>1, <1>2, ShrIs
<1>4. h < 2^(2 * (i + 1))
  <2>1. s0 < 2^((2 * i + 2) + (W - 2 * i))
    BY <1>1, <1>2, WordIs
  <2>2. 2 * (i + 1) = 2 * i + 2
    OBVIOUS
  <2> QED BY <1>1, <1>2, <2>1, <2>2, ShrBound
<1>5. Shl(s0, 2 * i) = U32(y)
  BY DEF Shl
<1> HIDE DEF e, p, q, h, l
<1>6. y \in Nat /\ y = Limb * h + e * l /\ e * l \in Nat
  <2>1. (p * h + l) * e = (p * e) * h + e * l
    BY <1>1, <1>3
  <2> QED BY <2>1, <1>1, <1>2, <1>3
<1>7. e * l + e <= Limb /\ e * l < Limb
  <2>1. (l + 1) * e <= p * e
    BY <1>1, <1>3, TimesOrder
  <2>2. (l + 1) * e = e * l + e
    BY <1>1, <1>3
  <2> QED BY <2>1, <2>2, <1>1, <1>6
<1> HIDE DEF y
<1>8. U32(y) \in Nat /\ y = Word * k + U32(y) /\ k \in Nat
  <2>1. y \in Nat
    BY <1>6
  <2>2. U32(y) \in 0..Word - 1 /\ y \div Word \in Nat /\ y = Word * (y \div Word) + U32(y)
    BY <2>1, U32Is
  <2> QED BY <2>2, <1>2
<1> HIDE DEF k
<1>9. U32(y) = Limb * (h - 4 * k) + e * l
  <2>1. Limb * (h - 4 * k) = Limb * h - (4 * Limb) * k
    BY <1>2, <1>3, <1>8
  <2> DEFINE m == Limb * h
             n == (4 * Limb) * k
             x == Limb * (h - 4 * k)
             w == e * l
             z == U32(y)
  <2>2. m \in Int /\ n \in Int /\ w \in Int /\ z \in Int /\ x = m - n /\ y = m + w /\ y = n + z
    BY <2>1, <1>2, <1>3, <1>6, <1>8
  <2> HIDE DEF m, n, x, w, z
  <2>3. z = x + w
    BY <2>2
  <2> QED BY <2>3 DEF x, w, z
<1>10. U32(y) % Limb = e * l
  <2> DEFINE x == U32(y)
             m == h - 4 * k
             w == e * l
  <2>1. x \in Nat /\ m \in Int /\ w \in Nat /\ w < Limb /\ x = Limb * m + w
    BY <1>3, <1>6, <1>7, <1>8, <1>9
  <2> HIDE DEF x, m, w
  <2>2. x % Limb = w
    BY <2>1, <1>2, DivIs
  <2> QED BY <2>2 DEF x, w
<1>11. Low(Shl(s0, 2 * i)) = e * l
  BY <1>5, <1>10 DEF Low
<1>12. s0 * (q * e) = (e * l) * q + h * (Limb * q)
  <2>1. (p * h + l) * (q * e) = (e * l) * q + h * ((p * e) * q)
    BY <1>1, <1>3
  <2> QED BY <2>1, <1>1, <1>3
<1>13. s0 * WordPowers[i] = (e * l) * q + h * LimbPowers[i + 1]
  BY <1>1, <1>12
<1> QED BY <1>1, <1>3, <1>4, <1>6, <1>7, <1>11, <1>13 DEF e, q, h

(* Store keeps the value of s, in limbs that are normalized.                 *)
LEMMA StoreIs ==
  ASSUME NEW st0 \in Registers, st0.us.len1 = 1
  PROVE  /\ Store(st0) \in bignum256
         /\ \A i \in Limbs : Store(st0)[i] < Limb
         /\ Value(Store(st0)) = Second(st0.us)
<1> DEFINE c == st0.us
           f == HighWords(c)
           x == Store(st0)
           g == LimbsOf(x)
           h == [i \in Nat |-> IF i = 0 THEN 0
                               ELSE IF i <= L THEN Shr(f[i - 1], W - 2 * (i - 1)) ELSE 0]
<1>1. /\ L \in Nat /\ L >= 1 /\ Limbs = 0..L /\ L \in Limbs
      /\ c \in Combo /\ c.len1 = 1
  BY WidthsAre, RegistersAre DEF Limbs
<1>2. /\ f \in [Nat -> Int] /\ \A i \in Nat : f[i] \in 0..Word - 1
      /\ \A i \in 0..L - 1 : f[i] = c.a[L - i]
  <2>1. f \in [Nat -> Int] /\ f \in [Nat -> 0..Word - 1]
        /\ \A i \in Nat : f[i] = IF i + c.len1 <= L THEN c.a[L - i] ELSE 0
    BY <1>1, HighWordsAre
  <2>2. \A i \in 0..L - 1 : f[i] = c.a[L - i]
    <3> TAKE i \in 0..L - 1
    <3>1. i \in Nat /\ i + c.len1 <= L
      BY <1>1
    <3> QED BY <2>1, <3>1
  <2> QED BY <2>1, <2>2
<1> HIDE DEF f
<1>3. \A i \in 0..L - 1 :
        LET z == Low(Shl(f[i], 2 * i))
        IN  /\ z \in Nat /\ z + 2^(2 * i) <= Limb /\ 2^(2 * i) \in Nat
            /\ h[i + 1] \in Nat /\ h[i + 1] < 2^(2 * (i + 1))
            /\ f[i] * WordPowers[i] = z * LimbPowers[i] + h[i + 1] * LimbPowers[i + 1]
  <2> TAKE i \in 0..L - 1
  <2>1. i \in Nat /\ i < L /\ i + 1 # 0 /\ i + 1 <= L /\ (i + 1) - 1 = i /\ i + 1 \in Nat
    BY <1>1
  <2>2. h[i + 1] = Shr(f[i], W - 2 * i)
    BY <2>1
  <2>3. f[i] \in 0..Word - 1
    BY <2>1, <1>2
  <2> HIDE DEF h
  <2> QED BY <2>1, <2>2, <2>3, LimbIsOfWords
<1>4. h[0] = 0 /\ \A i \in Nat : i > L => h[i] = 0
  BY <1>1
<1>5. \A i \in Limbs : x[i] = IF i = L THEN h[L] ELSE Low(Shl(f[i], 2 * i)) + h[i]
  <2> TAKE i \in Limbs
  <2>1. h[i] = IF i = 0 THEN 0 ELSE Shr(c.a[L - (i - 1)], W - 2 * (i - 1))
    <3>1. i \in Nat /\ i <= L
      BY <1>1
    <3>2. i # 0 => i - 1 \in 0..L - 1
      BY <1>1
    <3> QED BY <3>1, <3>2, <1>2
  <2>2. CASE i = L
    BY <2>1, <2>2 DEF Store
  <2>3. CASE i # L
    <3>1. i \in 0..L - 1
      BY <2>3, <1>1
    <3>2. f[i] = c.a[L - i]
      BY <3>1, <1>2
    <3>3. x[i] = Low(Shl(c.a[L - i], 2 * i))
                  + (IF i = 0 THEN 0 ELSE Shr(c.a[L - (i - 1)], W - 2 * (i - 1)))
      BY <2>3 DEF Store
    <3> HIDE DEF h, x
    <3> QED BY <2>1, <2>3, <3>2, <3>3
  <2> QED BY <2>2, <2>3
<1>6. x = [i \in Limbs |-> x[i]]
  BY DEF Store
<1> HIDE DEF h, x
<1>7. \A i \in 0..L : h[i] \in Nat /\ h[i] < 2^(2 * i) /\ h[i] \in Int
  <2> TAKE i \in 0..L
  <2>1. CASE i = 0
    <3>1. 2^(2 * i) = 1
      BY <2>1, TwoTo
    <3> QED BY <3>1, <2>1, <1>4
  <2>2. CASE i # 0
    <3>1. i - 1 \in 0..L - 1 /\ (i - 1) + 1 = i
      BY <2>2, <1>1
    <3>2. h[(i - 1) + 1] \in Nat /\ h[(i - 1) + 1] < 2^(2 * ((i - 1) + 1))
      BY <3>1, <1>3
    <3> QED BY <3>1, <3>2
  <2> QED BY <2>1, <2>2
<1>8. \A i \in Limbs : x[i] \in Nat /\ x[i] < Limb
  <2> TAKE i \in Limbs
  <2>1. CASE i = L
    <3>1. x[i] = h[L] /\ h[L] \in Nat /\ h[L] < 2^(2 * L)
      BY <2>1, <1>1, <1>5, <1>7
    <3>2. 2^(2 * L) <= Limb /\ 2^(2 * L) \in Nat /\ Limb \in Nat
      <4>1. 2 * L \in Nat /\ W \in Nat /\ 2 * L <= W
        BY WidthsAre
      <4> QED BY <4>1, TwoToOrder, TwoTo, WordIs
    <3> QED BY <3>1, <3>2
  <2>2. CASE i # L
    <3>1. i \in 0..L - 1 /\ i \in 0..L
      BY <2>2, <1>1
    <3> DEFINE z == Low(Shl(f[i], 2 * i))
               e == 2^(2 * i)
    <3>2. x[i] = z + h[i] /\ z \in Nat /\ e \in Nat /\ z + e <= Limb /\ h[i] \in Nat /\ h[i] < e
      BY <3>1, <2>2, <1>3, <1>5, <1>7
    <3>3. Limb \in Nat
      BY WordIs
    <3> HIDE DEF z, e
    <3> QED BY <3>2, <3>3
  <2> QED BY <2>1, <2>2
<1>9. x \in [Limbs -> Nat] /\ x \in bignum256
  <2>1. \A i \in Limbs : x[i] \in 0..Word - 1
    BY <1>8, WordIs
  <2> QED BY <2>1, <1>6, <1>8 DEF bignum256
<1>10. g \in [Nat -> Int] /\ \A i \in Limbs : g[i] = x[i]
  BY <1>9, LimbsOfAre
<1>11. Value(x) = Worth(LimbPowers, g)[L + 1]
  BY <1>9, ValueIs
<1> HIDE DEF g
<1>12. h \in [Nat -> Int]
  <2>1. \A i \in Nat : h[i] \in Int
    <3> TAKE i \in Nat
    <3>1. CASE i <= L
      BY <3>1, <1>1, <1>7
    <3>2. CASE i > L
      BY <3>2, <1>4
    <3> QED BY <3>1, <3>2, <1>1
  <2> QED BY <2>1 DEF h
<1>13. Regrouping(WordPowers, f, LimbPowers, g, h, L)
  <2>1. ASSUME NEW i \in 0..L - 1
        PROVE  f[i] * WordPowers[i] + h[i] * LimbPowers[i]
                 = g[i] * LimbPowers[i] + h[i + 1] * LimbPowers[i + 1]
    <3> DEFINE z == Low(Shl(f[i], 2 * i))
               a == h[i]
               b == h[i + 1]
               p == LimbPowers[i]
               q == LimbPowers[i + 1]
               y == f[i] * WordPowers[i]
    <3>1. i \in Limbs /\ i # L /\ i \in 0..L /\ i \in Nat /\ i + 1 \in Nat
      BY <1>1
    <3>2. g[i] = z + a
      BY <3>1, <1>5, <1>10
    <3>3. y = z * p + b * q /\ z \in Nat /\ a \in Nat /\ b \in Nat
      BY <3>1, <1>3, <1>7
    <3>4. p \in Nat /\ q \in Nat
      BY <3>1, LimbPowersAre
    <3> HIDE DEF z, a, b, p, q, y
    <3>5. (z + a) * p = z * p + a * p
      BY <3>3, <3>4
    <3> DEFINE k == z * p
               l == a * p
               m == b * q
    <3>6. k \in Int /\ l \in Int /\ m \in Int /\ y = k + m /\ (z + a) * p = k + l
      BY <3>3, <3>4, <3>5
    <3> HIDE DEF k, l, m
    <3>7. y + l = (z + a) * p + m
      BY <3>6
    <3> QED BY <3>2, <3>7 DEF y, l, m, a, b, p, q
  <2> QED BY <2>1, <1>4 DEF Regrouping
<1>14. Worth(WordPowers, f)[L] = Worth(LimbPowers, g)[L] + h[L] * LimbPowers[L]
  <2>1. IsPowers(WordPowers, Word) /\ IsPowers(LimbPowers, Limb)
    BY WordPowersAre, LimbPowersAre
  <2>2. g \in [Nat -> Int] /\ f \in [Nat -> Int] /\ h \in [Nat -> Int] /\ L \in Nat
    BY <1>1, <1>2, <1>10, <1>12
  <2> QED BY <1>13, <2>1, <2>2, Regroup
<1>15. Worth(LimbPowers, g)[L + 1] = Worth(LimbPowers, g)[L] + h[L] * LimbPowers[L]
  <2>1. g[L] = h[L]
    BY <1>1, <1>5, <1>10
  <2>2. Worth(LimbPowers, g)[L + 1] = Worth(LimbPowers, g)[L] + g[L] * LimbPowers[L]
    <3>1. IsPowers(LimbPowers, Limb) /\ g \in [Nat -> Int] /\ L \in Nat
      BY <1>1, <1>10, LimbPowersAre
    <3> QED BY <3>1, WorthStep
  <2> QED BY <2>1, <2>2
<1>16. Worth(WordPowers, f)[L] = Second(c)
  <2>1. L + c.len1 >= L + 1
    BY <1>1
  <2> QED BY <2>1, <1>1, SecondIs DEF f
<1> QED BY <1>8, <1>9, <1>11, <1>14, <1>15, <1>16 DEF c, x

-----------------------------------------------------------------------------
(* Divide.                                                                   *)

(* What a word keeps of a number that may be negative.                       *)
LEMMA U32IsOfInt ==
  ASSUME NEW x \in Int
  PROVE  /\ U32(x) \in 0..Word - 1 /\ U32(x) \in Nat
         /\ \E k \in Int : x = Word * k + U32(x)
<1>1. Word \in Nat \ {0}
  BY WordIs
<1>2. x % Word \in 0..Word - 1 /\ x \div Word \in Int /\ x = Word * (x \div Word) + (x % Word)
  BY <1>1
<1> DEFINE k == x \div Word
<1>3. U32(x) \in 0..Word - 1 /\ k \in Int /\ x = Word * k + U32(x)
  BY <1>2 DEF U32
<1>4. U32(x) \in Nat
  BY <1>1, <1>3
<1> HIDE DEF k
<1> QED BY <1>3, <1>4

(* One turn of the loop of NegativeInverse.                                  *)
Turn == [z \in [amone : 0..Word - 1, inverse : 0..Word - 1] \X Nat |->
           [amone   |-> U32(z[1].amone * z[1].amone),
            inverse |-> U32(z[1].inverse * (U32(z[1].amone * z[1].amone) + 1))]]

(* What holds behind n turns.                                                *)
Turned(p0, n, amone, inverse) ==
  /\ amone \in 0..Word - 1 /\ inverse \in 0..Word - 1
  /\ \E m \in Int : inverse * p0 = amone * amone - 1 + Word * m
  /\ \E e \in Int : amone = 2^(n + 1) * e

(* It holds at the start.                                                    *)
LEMMA FirstTurn ==
  ASSUME NEW p0 \in 0..Word - 1, p0 % 2 = 1
  PROVE  Turned(p0, 0, p0 - 1, U32(p0 - 2))
<1>1. Word \in Nat /\ p0 \in Nat /\ p0 - 1 \in 0..Word - 1 /\ p0 - 2 \in Int
  BY WordIs
<1>2. PICK e \in Int : p0 - 1 = 2 * e
  BY <1>1
<1>3. 2^(0 + 1) = 2
  BY TwoTo
<1>4. PICK k \in Int : p0 - 2 = Word * k + U32(p0 - 2)
  BY <1>1, U32IsOfInt
<1> DEFINE i == U32(p0 - 2)
<1>5. i \in 0..Word - 1 /\ i \in Nat /\ i = (p0 - 2) - Word * k
  <2>1. i \in 0..Word - 1 /\ i \in Nat
    BY <1>1, U32IsOfInt
  <2>2. Word * k \in Int
    BY <1>1
  <2> QED BY <2>1, <2>2, <1>1, <1>4
<1> HIDE DEF i
<1>6. i * p0 = (p0 - 1) * (p0 - 1) - 1 + Word * (-(k * p0)) /\ -(k * p0) \in Int
  <2>1. ((p0 - 2) - Word * k) * p0 = (p0 - 2) * p0 - Word * (k * p0)
    BY <1>1
  <2>2. (p0 - 2) * p0 = (p0 - 1) * (p0 - 1) - 1
    BY <1>1
  <2>3. Word * (-(k * p0)) = -(Word * (k * p0))
    BY <1>1
  <2>4. (p0 - 1) * (p0 - 1) \in Int /\ Word * (k * p0) \in Int
    BY <1>1
  <2> QED BY <2>1, <2>2, <2>3, <2>4, <1>1, <1>5
<1>7. \E m \in Int : i * p0 = (p0 - 1) * (p0 - 1) - 1 + Word * m
  BY <1>6
<1>8. \E x \in Int : p0 - 1 = 2^(0 + 1) * x
  BY <1>2, <1>3
<1> QED BY <1>1, <1>5, <1>7, <1>8 DEF Turned, i

(* It holds behind the next turn: the square has twice as many zeros.        *)
LEMMA NextTurn ==
  ASSUME NEW p0 \in 0..Word - 1, NEW n \in Nat, n <= W,
         NEW amone, NEW inverse, Turned(p0, n, amone, inverse),
         NEW square, square = U32(amone * amone)
  PROVE  Turned(p0, n + 1, square, U32(inverse * (square + 1)))
<1>1. /\ Word \in Nat /\ p0 \in Nat /\ amone \in Nat /\ inverse \in Nat /\ amone * amone \in Nat
  BY WordIs DEF Turned
<1>2. PICK m \in Int : inverse * p0 = amone * amone - 1 + Word * m
  BY DEF Turned
<1>3. PICK e \in Int : amone = 2^(n + 1) * e
  BY DEF Turned
<1>4. PICK q \in Int : amone * amone = Word * q + square
  <2> DEFINE y == amone * amone
  <2>1. y \in Int /\ square = U32(y)
    BY <1>1
  <2> HIDE DEF y
  <2>2. \E q \in Int : y = Word * q + square
    BY <2>1, U32IsOfInt
  <2> QED BY <2>2 DEF y
<1>5. square \in 0..Word - 1 /\ square \in Nat
  BY <1>1, U32IsOfInt
<1> DEFINE i == U32(inverse * (square + 1))
<1>6. i \in 0..Word - 1 /\ i \in Nat /\ inverse * (square + 1) \in Int
  <2>1. inverse * (square + 1) \in Int
    BY <1>1, <1>5
  <2> QED BY <2>1, U32IsOfInt
<1>7. PICK k \in Int : inverse * (square + 1) = Word * k + i
  BY <1>6, U32IsOfInt
<1> HIDE DEF i
<1>8. \E x \in Int : i * p0 = square * square - 1 + Word * x
  <2> DEFINE x == (q + m) * (square + 1) - k * p0
  <2>1. x \in Int
    BY <1>1, <1>5
  <2>2. i * p0 = (inverse * (square + 1)) * p0 - Word * (k * p0)
    <3>1. (Word * k + i) * p0 = Word * (k * p0) + i * p0
      BY <1>1, <1>6
    <3> DEFINE a == (inverse * (square + 1)) * p0
               b == Word * (k * p0)
               c == i * p0
    <3>2. a = b + c /\ a \in Int /\ b \in Int /\ c \in Int
      BY <1>1, <1>5, <1>6, <1>7, <3>1
    <3> HIDE DEF a, b, c
    <3>3. c = a - b
      BY <3>2
    <3> QED BY <3>3 DEF a, b, c
  <2>3. (inverse * (square + 1)) * p0 = (inverse * p0) * (square + 1)
    BY <1>1, <1>5
  <2>4. inverse * p0 = square - 1 + Word * (q + m)
    <3>1. Word * (q + m) = Word * q + Word * m /\ Word * q \in Int /\ Word * m \in Int
      BY <1>1
    <3> DEFINE a == Word * q
               b == Word * m
               c == amone * amone
               d == inverse * p0
    <3>2. /\ a \in Int /\ b \in Int /\ c \in Int /\ Word * (q + m) = a + b
          /\ d = c - 1 + b /\ c = a + square /\ square \in Int
      BY <3>1, <1>1, <1>2, <1>4, <1>5
    <3> HIDE DEF a, b, c, d
    <3>3. d = square - 1 + (a + b)
      BY <3>2
    <3> QED BY <3>2, <3>3 DEF d
  <2>5. (square - 1 + Word * (q + m)) * (square + 1)
          = square * square - 1 + Word * ((q + m) * (square + 1))
    <3> DEFINE a == q + m
    <3>1. a \in Int
      OBVIOUS
    <3> HIDE DEF a
    <3>2. (square - 1 + Word * a) * (square + 1)
            = (square - 1) * (square + 1) + (Word * a) * (square + 1)
      BY <1>1, <1>5, <3>1
    <3>3. (square - 1) * (square + 1) = square * square - 1
      BY <1>5
    <3>4. (Word * a) * (square + 1) = Word * (a * (square + 1))
      BY <1>1, <1>5, <3>1
    <3>5. (square - 1 + Word * a) * (square + 1) = square * square - 1 + Word * (a * (square + 1))
      BY <3>2, <3>3, <3>4
    <3> QED BY <3>5 DEF a
  <2>6. Word * x = Word * ((q + m) * (square + 1)) - Word * (k * p0)
    <3> DEFINE a == (q + m) * (square + 1)
               b == k * p0
    <3>1. a \in Int /\ b \in Int
      BY <1>1, <1>5
    <3> HIDE DEF a, b
    <3>2. Word * (a - b) = Word * a - Word * b
      BY <1>1, <3>1
    <3> QED BY <3>2 DEF a, b
  <2>7. i * p0 = (square * square - 1 + Word * ((q + m) * (square + 1))) - Word * (k * p0)
    <3>1. (inverse * p0) * (square + 1) = square * square - 1 + Word * ((q + m) * (square + 1))
      <4> DEFINE a == inverse * p0
                 b == square - 1 + Word * (q + m)
                 c == square + 1
      <4>1. a = b
        BY <2>4
      <4> HIDE DEF a, b, c
      <4>2. a * c = b * c
        BY <4>1
      <4> QED BY <4>2, <2>5 DEF a, b, c
    <3> DEFINE a == (inverse * (square + 1)) * p0
               b == (inverse * p0) * (square + 1)
               c == Word * (k * p0)
               d == square * square - 1 + Word * ((q + m) * (square + 1))
               f == i * p0
    <3>2. f = a - c /\ a = b /\ b = d
      BY <3>1, <2>2, <2>3
    <3> HIDE DEF a, b, c, d, f
    <3>3. f = d - c
      BY <3>2
    <3> QED BY <3>3 DEF c, d, f
  <2> DEFINE a == Word * ((q + m) * (square + 1))
             b == Word * (k * p0)
             c == square * square
             w == Word * x
  <2>8. a \in Int /\ b \in Int /\ c \in Int /\ w = a - b /\ i * p0 = (c - 1 + a) - b
    BY <1>1, <1>5, <2>6, <2>7
  <2> HIDE DEF a, b, c, w
  <2>9. i * p0 = c - 1 + w
    BY <2>8
  <2> QED BY <2>1, <2>9 DEF c, w
<1>9. \E x \in Int : square = 2^((n + 1) + 1) * x
  <2>1. /\ n + 1 \in Nat /\ W - n \in Nat /\ 2^(n + 1) \in Nat /\ 2^((n + 1) + 1) = 2 * 2^(n + 1)
        /\ 2^n \in Nat /\ 2^(n + 1) = 2 * 2^n /\ 2^(W - n) \in Nat
        /\ W + 2 = ((n + 1) + 1) + (W - n)
        /\ (n + 1) + 1 \in Nat
    BY TwoTo, WidthsAre
  <2>2. Word = 2^((n + 1) + 1) * 2^(W - n)
    BY <2>1, TwoToSum, WordIs
  <2> DEFINE a == 2^((n + 1) + 1)
             b == 2^(n + 1)
             c == 2^(W - n)
             d == 2^n
             x == d * (e * e) * 1 - c * q
  <2>3. a \in Nat /\ b \in Nat /\ c \in Nat /\ d \in Nat /\ a = 2 * b /\ b = 2 * d /\ Word = a * c
        /\ amone = b * e
    BY <1>3, <2>1, <2>2
  <2> HIDE DEF a, b, c, d
  <2>4. (b * e) * (b * e) = a * (d * (e * e))
    <3>1. (b * e) * (b * e) = b * (b * (e * e))
      BY <2>3
    <3>2. b * (2 * d * (e * e)) = (2 * b) * (d * (e * e))
      BY <2>3
    <3> QED BY <2>3, <3>1, <3>2
  <2>5. Word * q = a * (c * q)
    BY <2>3
  <2>6. square = a * (d * (e * e)) - a * (c * q)
    <3>1. Word * q \in Int
      BY <1>1
    <3>2. square = amone * amone - Word * q
      BY <1>1, <1>4, <1>5, <3>1
    <3> QED BY <3>2, <2>3, <2>4, <2>5
  <2> DEFINE y == d * (e * e)
             z == c * q
  <2>7. y \in Int /\ z \in Int /\ square = a * y - a * z
    BY <2>3, <2>6
  <2> HIDE DEF y, z
  <2>8. square = a * (y - z) /\ y - z \in Int
    BY <2>3, <2>7
  <2> QED BY <2>8 DEF a
<1> QED BY <1>5, <1>6, <1>8, <1>9 DEF Turned, i

(* The turns of NegativeInverse, one after the other.                        *)
AreTurns(t, p0) ==
  t = [n \in 0..W + 1 |->
         IF n = 0 THEN [amone |-> p0 - 1, inverse |-> U32(p0 - 2)]
         ELSE LET before == t[n - 1]
                  square == U32(before.amone * before.amone)
              IN  [amone |-> square, inverse |-> U32(before.inverse * (square + 1))]]

(* The recursion of NegativeInverse is well founded.                         *)
LEMMA TurnsExist ==
  ASSUME NEW p0 \in 0..Word - 1, p0 % 2 = 1
  PROVE  \E t : AreTurns(t, p0)
<1> DEFINE V == [amone : 0..Word - 1, inverse : 0..Word - 1]
           base == [amone |-> p0 - 1, inverse |-> U32(p0 - 2)]
<1>1. Word \in Nat /\ W + 1 \in Nat
  BY WordIs, WidthsAre
<1>2. base \in V
  <2>1. p0 - 1 \in 0..Word - 1 /\ p0 - 2 \in Int
    BY <1>1
  <2>2. U32(p0 - 2) \in 0..Word - 1
    BY <2>1, U32IsOfInt
  <2> QED BY <2>1, <2>2
<1>3. Turn \in [V \X Nat -> V]
  <2> SUFFICES ASSUME NEW z \in V \X Nat
               PROVE  [amone   |-> U32(z[1].amone * z[1].amone),
                       inverse |-> U32(z[1].inverse * (U32(z[1].amone * z[1].amone) + 1))] \in V
    BY DEF Turn
  <2> DEFINE a == z[1].amone
             i == z[1].inverse
             b == U32(a * a)
  <2>1. a \in Int /\ i \in Int
    BY <1>1
  <2> HIDE DEF a, i
  <2>2. a * a \in Int
    BY <2>1
  <2>3. b \in 0..Word - 1 /\ b \in Int
    BY <2>2, U32IsOfInt
  <2> HIDE DEF b
  <2>4. i * (b + 1) \in Int
    BY <2>1, <2>3
  <2>5. U32(i * (b + 1)) \in 0..Word - 1
    BY <2>4, U32IsOfInt
  <2>6. [amone |-> b, inverse |-> U32(i * (b + 1))] \in V
    BY <2>3, <2>5
  <2> QED BY <2>6 DEF a, b, i
<1>4. \A x \in V, n \in Nat :
        Turn[<<x, n>>] = LET square == U32(x.amone * x.amone)
                         IN  [amone |-> square, inverse |-> U32(x.inverse * (square + 1))]
  BY DEF Turn
<1> HIDE DEF V, base
<1>5. PICK t : Recurses(t, V, base, Turn, W + 1)
  BY <1>1, <1>2, <1>3, Recursive
<1>6. /\ t = [i \in 0..W + 1 |-> IF i = 0 THEN base ELSE Turn[<<t[i - 1], i - 1>>]]
      /\ t \in [0..W + 1 -> V]
  BY <1>5 DEF Recurses
<1>7. ASSUME NEW n \in 0..W + 1, n # 0
      PROVE  Turn[<<t[n - 1], n - 1>>]
               = LET before == t[n - 1]
                     square == U32(before.amone * before.amone)
                 IN  [amone |-> square, inverse |-> U32(before.inverse * (square + 1))]
  <2>1. n - 1 \in 0..W + 1 /\ n - 1 \in Nat
    BY <1>1, <1>7
  <2>2. t[n - 1] \in V
    BY <1>6, <2>1
  <2> QED BY <1>4, <2>1, <2>2
<1>8. AreTurns(t, p0)
  BY <1>6, <1>7 DEF AreTurns, base
<1> QED BY <1>8

(* The last turn leaves no bit of amone.                                     *)
LEMMA TurnsAre ==
  ASSUME NEW p0 \in 0..Word - 1, p0 % 2 = 1, NEW t, AreTurns(t, p0)
  PROVE  /\ \A n \in 0..W + 1 : Turned(p0, n, t[n].amone, t[n].inverse)
         /\ t[W + 1].amone = 0
<1>1. Word \in Nat /\ W \in Nat
  BY WordIs, WidthsAre
<1>2. t[0].amone = p0 - 1 /\ t[0].inverse = U32(p0 - 2)
  <2>1. 0 \in 0..W + 1
    BY <1>1
  <2>2. t[0] = [amone |-> p0 - 1, inverse |-> U32(p0 - 2)]
    BY <2>1 DEF AreTurns
  <2> QED BY <2>2
<1>3. \A n \in Nat : n <= W =>
        /\ t[n + 1].amone = U32(t[n].amone * t[n].amone)
        /\ t[n + 1].inverse = U32(t[n].inverse * (U32(t[n].amone * t[n].amone) + 1))
  <2> SUFFICES ASSUME NEW n \in Nat, n <= W
               PROVE  /\ t[n + 1].amone = U32(t[n].amone * t[n].amone)
                      /\ t[n + 1].inverse = U32(t[n].inverse * (U32(t[n].amone * t[n].amone) + 1))
    OBVIOUS
  <2>1. n + 1 \in 0..W + 1 /\ n + 1 # 0 /\ (n + 1) - 1 = n
    BY <1>1
  <2>2. t[n + 1] = LET before == t[n]
                       square == U32(before.amone * before.amone)
                   IN  [amone |-> square, inverse |-> U32(before.inverse * (square + 1))]
    <3> DEFINE k == n + 1
    <3>1. k \in 0..W + 1 /\ k # 0 /\ k - 1 = n
      BY <2>1
    <3> HIDE DEF k
    <3>2. t[k] = LET before == t[k - 1]
                     square == U32(before.amone * before.amone)
                 IN  [amone |-> square, inverse |-> U32(before.inverse * (square + 1))]
      BY <3>1 DEF AreTurns
    <3> QED BY <3>1, <3>2 DEF k
  <2> QED BY <2>2
<1> DEFINE S == {n \in Nat : n <= W + 1 => Turned(p0, n, t[n].amone, t[n].inverse)}
<1>4. 0 \in S
  BY <1>2, FirstTurn
<1>5. \A n \in Nat : n \in S => n + 1 \in S
  <2> SUFFICES ASSUME NEW n \in Nat, n \in S, n + 1 <= W + 1
               PROVE  Turned(p0, n + 1, t[n + 1].amone, t[n + 1].inverse)
    OBVIOUS
  <2>1. n <= W /\ Turned(p0, n, t[n].amone, t[n].inverse)
    BY <1>1
  <2> DEFINE x == U32(t[n].amone * t[n].amone)
  <2>2. t[n + 1].amone = x /\ t[n + 1].inverse = U32(t[n].inverse * (x + 1))
    BY <1>3, <2>1
  <2>3. Turned(p0, n + 1, x, U32(t[n].inverse * (x + 1)))
    BY <2>1, NextTurn
  <2> HIDE DEF x
  <2> QED BY <2>2, <2>3
<1>6. \A n \in 0..W + 1 : Turned(p0, n, t[n].amone, t[n].inverse)
  <2>1. Nat \subseteq S
    <3> HIDE DEF S
    <3> QED BY <1>4, <1>5, Induct
  <2> QED BY <2>1
<1>7. t[W + 1].amone = 0
  <2>1. Turned(p0, W + 1, t[W + 1].amone, t[W + 1].inverse)
    BY <1>1, <1>6
  <2>2. PICK e \in Int : t[W + 1].amone = 2^((W + 1) + 1) * e
    BY <2>1 DEF Turned
  <2>3. 2^((W + 1) + 1) = Word /\ t[W + 1].amone \in 0..Word - 1
    <3>1. (W + 1) + 1 = W + 2
      BY <1>1
    <3> QED BY <3>1, <2>1, WordIs DEF Turned
  <2> DEFINE a == t[W + 1].amone
  <2>4. a \in 0..Word - 1 /\ a = Word * e
    BY <2>2, <2>3
  <2> HIDE DEF a
  <2>5. e < 1
    <3> SUFFICES ASSUME e >= 1 PROVE FALSE
      OBVIOUS
    <3>1. e - 1 \in Nat /\ Word * (e - 1) \in Nat /\ Word * e = Word * (e - 1) + Word
      BY <1>1
    <3> QED BY <3>1, <2>4, <1>1
  <2>6. e > -1
    <3> SUFFICES ASSUME e <= -1 PROVE FALSE
      OBVIOUS
    <3>1. -e - 1 \in Nat /\ Word * (-e - 1) \in Nat /\ Word * e = -(Word * (-e - 1)) - Word
      BY <1>1
    <3>2. Word >= 16
      BY WordIs
    <3> QED BY <3>1, <3>2, <2>4, <1>1
  <2>7. e = 0
    BY <2>5, <2>6
  <2>8. a = 0
    BY <2>4, <2>7, <1>1
  <2> QED BY <2>8 DEF a
<1> QED BY <1>6, <1>7

(* What the loop ends with.                                                  *)
LEMMA NegativeInverseIs ==
  ASSUME NEW p0 \in 0..Word - 1, p0 % 2 = 1
  PROVE  /\ NegativeInverse(p0) \in 0..Word - 1
         /\ \E m \in Int : NegativeInverse(p0) * p0 = Word * m - 1
<1> DEFINE t == CHOOSE g : AreTurns(g, p0)
           S == {n \in 0..W + 1 : t[n].amone = 0}
           last == CHOOSE n \in 0..W + 1 : /\ t[n].amone = 0
                                           /\ \A m \in 0..n - 1 : t[m].amone # 0
<1>1. AreTurns(t, p0)
  BY TurnsExist
<1>2. NegativeInverse(p0) = t[last].inverse
  BY DEF NegativeInverse, AreTurns
<1> HIDE DEF t
<1>3. W \in Nat /\ Word \in Nat
  BY WidthsAre, WordIs
<1>4. last \in 0..W + 1 /\ t[last].amone = 0
  <2>1. S \in SUBSET Nat /\ W + 1 \in S
    BY <1>1, <1>3, TurnsAre
  <2>2. PICK n \in S : \A m \in S : n <= m
    <3> HIDE DEF S
    <3> QED BY <2>1, Least
  <2>3. n \in 0..W + 1 /\ t[n].amone = 0
    OBVIOUS
  <2>4. \A m \in 0..n - 1 : t[m].amone # 0
    <3> SUFFICES ASSUME NEW m \in 0..n - 1, t[m].amone = 0 PROVE FALSE
      OBVIOUS
    <3>1. m \in 0..W + 1 /\ m < n
      BY <1>3, <2>3
    <3>2. m \in S
      BY <3>1
    <3> QED BY <2>2, <2>3, <3>1, <3>2
  <2>5. \E k \in 0..W + 1 : t[k].amone = 0 /\ \A m \in 0..k - 1 : t[m].amone # 0
    BY <2>3, <2>4
  <2> QED BY <2>5
<1> HIDE DEF last
<1>5. Turned(p0, last, 0, t[last].inverse)
  BY <1>1, <1>4, TurnsAre
<1> DEFINE i == t[last].inverse
<1>6. i \in 0..Word - 1 /\ \E m \in Int : i * p0 = 0 * 0 - 1 + Word * m
  BY <1>5 DEF Turned
<1> HIDE DEF i
<1>7. PICK m \in Int : i * p0 = 0 * 0 - 1 + Word * m
  BY <1>6
<1>8. i * p0 = Word * m - 1
  <2>1. Word * m \in Int
    BY <1>3
  <2> QED BY <2>1, <1>7
<1> QED BY <1>2, <1>6, <1>8 DEF i

(* What a double word keeps of a number.                                     *)
LEMMA U64Is ==
  ASSUME NEW x \in Nat
  PROVE  U64(x) \in Nat /\ (x < Word * Word => U64(x) = x)
<1>1. Word \in Nat /\ Word >= 16 /\ Dword = Word * Word
  BY WordIs
<1>2. Word * Word \in Nat \ {0}
  <2>1. Word * Word >= Word
    <3>1. Word - 1 \in Nat /\ (Word - 1) * Word \in Nat /\ Word * Word = (Word - 1) * Word + Word
      BY <1>1
    <3> QED BY <3>1, <1>1
  <2> QED BY <2>1, <1>1
<1> DEFINE d == Word * Word
<1>3. d \in Nat \ {0} /\ U64(x) = x % d
  BY <1>1, <1>2 DEF U64
<1> HIDE DEF d
<1>4. x % d \in Nat /\ (x < d => x % d = x)
  BY <1>3
<1> QED BY <1>3, <1>4 DEF d

(* One word of s plus the multiple of the prime.                             *)
LEMMA TermIs ==
  ASSUME NEW a \in 0..Word - 1, NEW b \in 0..Word - 1, NEW bits \in 0..W + 2,
         NEW factor \in 0..2^bits - 1
  PROVE  LET x == a + b * factor
             y == x * 2^(W + 2 - bits)
         IN  /\ x \in Nat /\ y \in Nat /\ U64(x) = x /\ U64(y) = y
             /\ y <= (Word - 1) * Word
             /\ 2^bits \in Nat \ {0} /\ 2^bits * y = Word * x
<1> DEFINE up == W + 2 - bits
           p == 2^bits
           q == 2^up
           x == a + b * factor
<1>1. bits \in Nat /\ up \in Nat /\ up + bits = W + 2 /\ Word \in Nat /\ Word >= 16
  BY WidthsAre, WordIs
<1> HIDE DEF up
<1>2. p \in Nat \ {0} /\ q \in Nat \ {0}
  BY <1>1, TwoTo
<1>3. Word = q * p
  BY <1>1, TwoToSum, WordIs
<1>4. factor \in Nat /\ factor <= p - 1 /\ a \in Nat /\ b \in Nat /\ a <= Word - 1 /\ b <= Word - 1
      /\ p - 1 \in Nat /\ Word - 1 \in Nat
  BY <1>1, <1>2
<1> HIDE DEF p, q
<1>5. x \in Nat /\ x <= (Word - 1) * p
  <2> DEFINE n == Word - 1
             m == p - 1
  <2>1. n \in Nat /\ m \in Nat /\ factor <= m /\ a <= n /\ b <= n /\ p = m + 1
    BY <1>2, <1>4
  <2> HIDE DEF n, m
  <2>2. b * factor <= n * factor /\ factor * n <= m * n
    BY <1>4, <2>1, TimesOrder
  <2>3. /\ n * factor = factor * n /\ n * (m + 1) = m * n + n /\ b * factor \in Nat
        /\ factor * n \in Nat
        /\ m * n \in Nat
    BY <1>4, <2>1
  <2>4. a + b * factor <= n * (m + 1)
    BY <1>4, <2>1, <2>2, <2>3
  <2>5. a + b * factor <= n * p
    BY <2>1, <2>4
  <2> QED BY <1>4, <2>3, <2>5 DEF n
<1> HIDE DEF x
<1>6. x * q <= (Word - 1) * Word /\ x * q \in Nat
  <2> DEFINE n == Word - 1
             z == n * p
  <2>1. n \in Nat /\ z \in Nat /\ x <= z
    BY <1>2, <1>4, <1>5
  <2>2. x * q <= z * q
    <3> HIDE DEF z
    <3> QED BY <2>1, <1>2, <1>5, TimesOrder
  <2>3. z * q = n * (q * p)
    <3> HIDE DEF n
    <3> QED BY <2>1, <1>2
  <2> QED BY <2>2, <2>3, <1>2, <1>3, <1>5
<1>7. (Word - 1) * Word < Word * Word /\ (Word - 1) * Word \in Nat /\ Word * Word \in Nat
  <2>1. Word * Word = (Word - 1) * Word + Word /\ (Word - 1) * Word \in Nat
    BY <1>1, <1>4
  <2> QED BY <2>1, <1>1
<1>8. x <= x * q
  <2>1. q - 1 \in Nat /\ x * (q - 1) \in Nat /\ x * q = x * (q - 1) + x
    BY <1>2, <1>5
  <2> QED BY <2>1, <1>5
<1>9. x * q < Word * Word /\ x < Word * Word
  BY <1>5, <1>6, <1>7, <1>8
<1>10. U64(x) = x /\ U64(x * q) = x * q
  <2> DEFINE y == x * q
  <2>1. y \in Nat /\ y < Word * Word
    BY <1>6, <1>9
  <2> HIDE DEF y
  <2>2. U64(y) = y
    BY <2>1, U64Is
  <2>3. U64(x) = x
    BY <1>5, <1>9, U64Is
  <2> QED BY <2>2, <2>3 DEF y
<1>11. p * (x * q) = Word * x
  BY <1>2, <1>3, <1>5
<1> QED BY <1>2, <1>5, <1>6, <1>10, <1>11 DEF x, p, q, up

(* What is carried from one word to the next.                                *)
LEMMA TempStep ==
  ASSUME NEW z \in 0..Word - 1, NEW y \in Nat, y <= (Word - 1) * Word
  PROVE  /\ U64(z + y) = z + y /\ z + y \in Nat
         /\ Shr(z + y, W + 2) \in 0..Word - 1
         /\ U32(z + y) + Word * Shr(z + y, W + 2) = z + y
         /\ U32(z + y) \in 0..Word - 1
<1> DEFINE x == z + y
           h == Shr(x, W + 2)
<1>1. Word \in Nat /\ Word >= 16 /\ Word = 2^(W + 2) /\ W + 2 \in Nat
  BY WordIs, WidthsAre
<1>2. Word * Word = (Word - 1) * Word + Word /\ (Word - 1) * Word \in Nat
  BY <1>1
<1>3. x \in Nat /\ x < Word * Word
  BY <1>1, <1>2
<1> HIDE DEF x
<1>4. U64(x) = x
  BY <1>3, U64Is
<1>5. U32(x) \in 0..Word - 1 /\ h \in Nat /\ x = Word * h + U32(x)
  BY <1>1, <1>3, U32Is DEF Shr
<1> HIDE DEF h
<1>6. h < Word
  <2> SUFFICES ASSUME h >= Word PROVE FALSE
    BY <1>1, <1>5
  <2>1. h - Word \in Nat /\ Word * (h - Word) \in Nat /\ Word * h = Word * (h - Word) + Word * Word
    BY <1>1, <1>5
  <2> QED BY <2>1, <1>3, <1>5, <1>1
<1>7. h \in 0..Word - 1 /\ U32(x) + Word * h = x
  <2>1. Word * h \in Nat
    BY <1>1, <1>5
  <2> QED BY <2>1, <1>1, <1>5, <1>6
<1> QED BY <1>3, <1>4, <1>5, <1>7 DEF x, h

(* The arithmetic of FactorIs, word being q times p.                         *)
Ending(p, q, word, i, s0, p0, x, e, factor, m, k) ==
  /\ p \in Nat /\ q \in Nat /\ word \in Nat /\ i \in Nat /\ s0 \in Nat /\ p0 \in Nat
  /\ x \in Nat /\ e \in Nat /\ factor \in Nat /\ m \in Int /\ k \in Int
  /\ word = q * p /\ i * p0 = word * m - 1 /\ i * s0 = word * k + x /\ x = p * e + factor

(* The multiple by that factor ends in as many zero bits.                    *)
LEMMA MultipleEnds ==
  ASSUME NEW p, NEW q, NEW word, NEW i, NEW s0, NEW p0, NEW x, NEW e, NEW factor, NEW m, NEW k,
         Ending(p, q, word, i, s0, p0, x, e, factor, m, k)
  PROVE  \E j \in Int : s0 + p0 * factor = p * j
<1> USE DEF Ending
<1> DEFINE n == q * (m * s0 - p0 * k) - p0 * e
<1>1. n \in Int
  OBVIOUS
<1>2. p0 * x = p * (p0 * e) + p0 * factor
  <2>1. p0 * (p * e + factor) = p * (p0 * e) + p0 * factor
    OBVIOUS
  <2> QED BY <2>1
<1>3. p0 * (i * s0) = word * (p0 * k) + p0 * x
  <2>1. p0 * (word * k + x) = word * (p0 * k) + p0 * x
    OBVIOUS
  <2> QED BY <2>1
<1>4. p0 * (i * s0) = word * (m * s0) - s0
  <2>1. p0 * (i * s0) = (i * p0) * s0
    OBVIOUS
  <2>2. (word * m - 1) * s0 = word * (m * s0) - s0
    OBVIOUS
  <2> QED BY <2>1, <2>2
<1>5. p * n = word * (m * s0) - word * (p0 * k) - p * (p0 * e)
  <2> DEFINE a == m * s0
             b == p0 * k
             c == p0 * e
  <2>1. a \in Int /\ b \in Int /\ c \in Int
    OBVIOUS
  <2> HIDE DEF a, b, c
  <2>2. p * (q * (a - b) - c) = (q * p) * a - (q * p) * b - p * c
    BY <2>1
  <2>3. p * (q * (a - b) - c) = word * a - word * b - p * c
    BY <2>2
  <2> QED BY <2>3 DEF a, b, c
<1> DEFINE a == p * (p0 * e)
           b == word * (p0 * k)
           c == word * (m * s0)
           d == p0 * factor
           f == p0 * x
           g == p0 * (i * s0)
           h == p * n
<1>6. /\ a \in Int /\ b \in Int /\ c \in Int /\ d \in Int /\ f \in Int /\ g \in Int
      /\ f = a + d /\ g = b + f /\ g = c - s0 /\ h = c - b - a
  <2>1. a \in Int /\ b \in Int /\ c \in Int /\ d \in Int /\ f \in Int /\ g \in Int
    OBVIOUS
  <2> QED BY <2>1, <1>2, <1>3, <1>4, <1>5
<1> HIDE DEF a, b, c, d, f, g, h
<1>7. s0 + d = h
  BY <1>6
<1> QED BY <1>1, <1>7 DEF d, h

(* The multiple of the prime ends in the zeros it should.                    *)
IsFactor(p0, s0, bits, factor) ==
  /\ p0 \in 0..Word - 1 /\ p0 % 2 = 1 /\ s0 \in 0..Word - 1 /\ bits \in 0..W + 2
  /\ factor = U32(NegativeInverse(p0) * s0) % 2^bits

(* The factor of Divide is of that kind.                                     *)
LEMMA FactorIs ==
  ASSUME NEW p0, NEW s0, NEW bits, NEW factor, IsFactor(p0, s0, bits, factor)
  PROVE  /\ factor \in 0..2^bits - 1
         /\ \E m \in Int : s0 + p0 * factor = 2^bits * m
<1> DEFINE up == W + 2 - bits
           p == 2^bits
           q == 2^up
           i == NegativeInverse(p0)
           y == i * s0
           x == U32(y)
           e == x \div p
<1>1. bits \in Nat /\ up \in Nat /\ up + bits = W + 2 /\ Word \in Nat
  <2>1. bits \in 0..W + 2
    BY DEF IsFactor
  <2> QED BY <2>1, WidthsAre, WordIs
<1>2. factor = x % p
  BY DEF IsFactor
<1>3. /\ p0 \in 0..Word - 1 /\ p0 % 2 = 1 /\ s0 \in 0..Word - 1
  BY DEF IsFactor
<1> HIDE DEF up
<1>4. p \in Nat \ {0} /\ q \in Nat \ {0}
  BY <1>1, TwoTo
<1>5. Word = q * p
  BY <1>1, TwoToSum, WordIs
<1>6. i \in 0..Word - 1 /\ \E m \in Int : i * p0 = Word * m - 1
  BY <1>3, NegativeInverseIs
<1> HIDE DEF i, p, q
<1>7. i \in Nat /\ s0 \in Nat /\ p0 \in Nat /\ y \in Int
  BY <1>1, <1>6, <1>3
<1> HIDE DEF y
<1>8. x \in Nat /\ \E k \in Int : y = Word * k + x
  BY <1>7, U32IsOfInt
<1> HIDE DEF x
<1>9. factor \in Nat /\ factor < p /\ e \in Nat /\ x = p * e + factor
  BY <1>2, <1>4, <1>8, RemainderIs
<1> HIDE DEF e
<1>10. PICK m \in Int : i * p0 = Word * m - 1
  BY <1>6
<1>11. PICK k \in Int : y = Word * k + x
  BY <1>8
<1>12. i * s0 = Word * k + x
  BY <1>11 DEF y
<1>13. Ending(p, q, Word, i, s0, p0, x, e, factor, m, k)
  BY <1>1, <1>4, <1>5, <1>7, <1>8, <1>9, <1>10, <1>12 DEF Ending
<1>14. \E j \in Int : s0 + p0 * factor = p * j
  BY <1>13, MultipleEnds
<1>15. factor \in 0..p - 1
  BY <1>9, <1>4
<1> QED BY <1>14, <1>15 DEF p

(* What one step of the division starts from: the words w of the prime and a *)
(* factor whose multiple of them ends in the zeros it should.                *)
Division(c, w, bits, factor) ==
  /\ c \in Combo /\ c.len1 = 1 /\ w \in [0..L - 1 -> 0..Word - 1]
  /\ bits \in 1..W + 2 /\ factor \in 0..2^bits - 1
  /\ \E m \in Int : c.a[L - 0] + w[0] * factor = 2^bits * m

IsTemp(t, c, w, bits, factor) ==
  t = [i \in 0..L - 1 |->
         IF i = 0 THEN Shr(U64(c.a[L - 0] + w[0] * factor), bits)
         ELSE Shr(U64(t[i - 1] + U64((c.a[L - i] + w[i] * factor) * 2^(W + 2 - bits))), W + 2)]

TermOf(c, w, bits, factor, i) == U64((c.a[L - i] + w[i] * factor) * 2^(W + 2 - bits))

(* The term does not exceed a double word.                                   *)
LEMMA TermOfIs ==
  ASSUME NEW c, NEW w, NEW bits, NEW factor, Division(c, w, bits, factor), NEW i \in 0..L - 1
  PROVE  LET x == c.a[L - i] + w[i] * factor
             y == TermOf(c, w, bits, factor, i)
         IN  /\ x \in Nat /\ y \in Nat /\ U64(x) = x /\ y <= (Word - 1) * Word
             /\ 2^bits \in Nat \ {0} /\ 2^bits * y = Word * x
<1>1. /\ L - i \in Limbs /\ bits \in 0..W + 2
  BY WidthsAre DEF Limbs, Division
<1>2. c.a[L - i] \in 0..Word - 1 /\ w[i] \in 0..Word - 1
  BY <1>1, ComboIs DEF Division
<1>3. factor \in 0..2^bits - 1
  BY DEF Division
<1> DEFINE a == c.a[L - i]
           b == w[i]
<1>4. a \in 0..Word - 1 /\ b \in 0..Word - 1
  BY <1>2
<1> HIDE DEF a, b
<1> DEFINE x == a + b * factor
           y == x * 2^(W + 2 - bits)
<1>5. /\ x \in Nat /\ y \in Nat /\ U64(x) = x /\ U64(y) = y
      /\ y <= (Word - 1) * Word
      /\ 2^bits \in Nat \ {0} /\ 2^bits * y = Word * x
  BY <1>1, <1>3, <1>4, TermIs
<1>6. TermOf(c, w, bits, factor, i) = U64(y)
  BY DEF TermOf, a, b
<1> HIDE DEF y
<1> QED BY <1>5, <1>6 DEF a, b

(* There is one.                                                             *)
LEMMA TempExists ==
  ASSUME NEW c, NEW w, NEW bits, NEW factor, Division(c, w, bits, factor)
  PROVE  \E t : IsTemp(t, c, w, bits, factor)
<1> DEFINE y(i) == TermOf(c, w, bits, factor, i)
           Step == [z \in Nat \X Nat |->
                      IF z[2] + 1 <= L - 1 THEN Shr(U64(z[1] + y(z[2] + 1)), W + 2) ELSE 0]
           base == Shr(U64(c.a[L - 0] + w[0] * factor), bits)
<1>1. L - 1 \in Nat /\ L \in Nat /\ W + 2 \in Nat /\ 0 \in 0..L - 1 /\ L - 0 = L /\ bits \in Nat
  BY WidthsAre DEF Division
<1>2. \A i \in 0..L - 1 : y(i) \in Nat
  BY TermOfIs
<1>3. base \in Nat
  <2>1. c.a[L - 0] + w[0] * factor \in Nat
    BY <1>1, TermOfIs
  <2> DEFINE x == c.a[L - 0] + w[0] * factor
  <2>2. x \in Nat
    BY <2>1, <1>1
  <2> HIDE DEF x
  <2>3. Shr(U64(x), bits) \in Nat
    BY <2>2, <1>1, U64Is, ShrIs
  <2> QED BY <2>3 DEF x
<1> HIDE DEF y, base
<1>4. Step \in [Nat \X Nat -> Nat]
  <2> SUFFICES ASSUME NEW z \in Nat \X Nat, z[2] + 1 <= L - 1
               PROVE  Shr(U64(z[1] + y(z[2] + 1)), W + 2) \in Nat
    OBVIOUS
  <2> DEFINE x == z[1] + y(z[2] + 1)
  <2>1. z[2] + 1 \in 0..L - 1
    BY <1>1
  <2>2. x \in Nat
    BY <2>1, <1>2
  <2> HIDE DEF x
  <2>3. Shr(U64(x), W + 2) \in Nat
    BY <2>2, <1>1, U64Is, ShrIs
  <2> QED BY <2>3 DEF x
<1>5. \A x \in Nat, n \in Nat : n + 1 <= L - 1 => Step[<<x, n>>] = Shr(U64(x + y(n + 1)), W + 2)
  OBVIOUS
<1> HIDE DEF Step
<1>6. PICK t : Recurses(t, Nat, base, Step, L - 1)
  BY <1>1, <1>3, <1>4, Recursive
<1>7. /\ t = [i \in 0..L - 1 |-> IF i = 0 THEN base ELSE Step[<<t[i - 1], i - 1>>]]
      /\ t \in [0..L - 1 -> Nat]
  BY <1>6 DEF Recurses
<1>8. \A i \in 0..L - 1 : i # 0 => Step[<<t[i - 1], i - 1>>] = Shr(U64(t[i - 1] + y(i)), W + 2)
  <2> SUFFICES ASSUME NEW i \in 0..L - 1, i # 0
               PROVE  Step[<<t[i - 1], i - 1>>] = Shr(U64(t[i - 1] + y(i)), W + 2)
    OBVIOUS
  <2>1. i - 1 \in Nat /\ i - 1 \in 0..L - 1 /\ (i - 1) + 1 = i /\ i <= L - 1
    BY <1>1
  <2>2. t[i - 1] \in Nat
    BY <1>7, <2>1
  <2> DEFINE n == i - 1
             x == t[i - 1]
  <2>3. n \in Nat /\ x \in Nat /\ n + 1 = i
    BY <2>1, <2>2
  <2> HIDE DEF n, x
  <2>4. Step[<<x, n>>] = Shr(U64(x + y(i)), W + 2)
    BY <1>5, <2>3, <2>1
  <2> QED BY <2>4 DEF n, x
<1>9. t = [i \in 0..L - 1 |-> IF i = 0 THEN base ELSE Shr(U64(t[i - 1] + y(i)), W + 2)]
  BY <1>7, <1>8
<1>10. IsTemp(t, c, w, bits, factor)
  BY <1>9 DEF IsTemp, base, y, TermOf
<1> QED BY <1>10

(* What is carried out of the n-th word, and what stays in the word before.  *)
LEMMA TempIs ==
  ASSUME NEW c, NEW w, NEW bits, NEW factor, Division(c, w, bits, factor),
         NEW t, IsTemp(t, c, w, bits, factor)
  PROVE  /\ \A n \in 0..L - 1 : t[n] \in 0..Word - 1
         /\ 2^bits * t[0] = c.a[L - 0] + w[0] * factor
         /\ \A n \in Nat : n + 1 < L =>
              LET z == t[n] + TermOf(c, w, bits, factor, n + 1)
              IN  U32(z) \in 0..Word - 1 /\ U32(z) + Word * t[n + 1] = z
<1> DEFINE y(i) == TermOf(c, w, bits, factor, i)
           p == 2^bits
           x == c.a[L - 0] + w[0] * factor
<1>1. /\ L - 1 \in Nat /\ L \in Nat /\ W + 2 \in Nat /\ 0 \in 0..L - 1 /\ L - 0 = L
      /\ bits \in Nat /\ bits <= W + 2 /\ L \in Limbs
      /\ Word \in Nat /\ Word >= 16
  <2>1. bits \in 1..W + 2
    BY DEF Division
  <2> QED BY <2>1, WidthsAre, WordIs DEF Limbs
<1>2. p \in Nat \ {0}
  BY <1>1, TwoTo
<1>3. \A i \in 0..L - 1 : y(i) \in Nat /\ y(i) <= (Word - 1) * Word
  BY TermOfIs
<1>4. x \in Nat /\ U64(x) = x
  <2>1. c.a[L - 0] + w[0] * factor \in Nat
        /\ U64(c.a[L - 0] + w[0] * factor) = c.a[L - 0] + w[0] * factor
    BY <1>1, TermOfIs
  <2> QED BY <2>1, <1>1
<1>5. /\ t[0] = Shr(U64(x), bits)
      /\ \A i \in 0..L - 1 : i # 0 => t[i] = Shr(U64(t[i - 1] + y(i)), W + 2)
  BY <1>1 DEF IsTemp, TermOf
<1>6. p * t[0] = x /\ t[0] \in 0..Word - 1
  <2>1. PICK m \in Int : x = p * m
    BY DEF Division
  <2>2. x <= (Word - 1) * p
    <3> DEFINE a == c.a[L - 0]
               b == w[0]
               n == Word - 1
               l == p - 1
    <3>1. a \in 0..Word - 1 /\ b \in 0..Word - 1 /\ factor \in 0..l
      BY <1>1, ComboIs DEF Division
    <3>2. a \in Nat /\ b \in Nat /\ factor \in Nat /\ a <= n /\ b <= n /\ factor <= l
          /\ n \in Nat /\ l \in Nat /\ p = l + 1
      <4> HIDE DEF a, b, p
      <4> QED BY <3>1, <1>1, <1>2
    <3>3. x = a + b * factor
      OBVIOUS
    <3> HIDE DEF a, b, n, l, x, p
    <3>4. b * factor <= n * factor /\ factor * n <= l * n
      BY <3>2, TimesOrder
    <3>5. n * factor = factor * n /\ n * (l + 1) = l * n + n /\ b * factor \in Nat
          /\ factor * n \in Nat /\ l * n \in Nat
      BY <3>2
    <3>6. x <= n * (l + 1)
      BY <3>2, <3>3, <3>4, <3>5
    <3> QED BY <3>2, <3>6 DEF n
  <2> HIDE DEF x, p
  <2>3. x = p * m + 0 /\ 0 \in Nat /\ 0 < p /\ p * m \in Int
    BY <2>1, <1>2
  <2>4. x \div p = m
    BY <2>3, <1>2, <1>4, DivIs
  <2>5. Shr(x, bits) = m
    BY <2>4 DEF Shr, p
  <2>6. t[0] = m
    BY <2>5, <1>4, <1>5
  <2>7. m >= 0
    <3> SUFFICES ASSUME m <= -1 PROVE FALSE
      OBVIOUS
    <3>1. -1 - m \in Nat
      OBVIOUS
    <3>2. p * (-1 - m) \in Nat /\ p * (-1 - m) = -p - p * m
      BY <3>1, <1>2
    <3> QED BY <3>2, <2>1, <1>4, <1>2
  <2>8. m <= Word - 1
    <3> SUFFICES ASSUME m >= Word PROVE FALSE
      BY <1>1
    <3>1. m - Word \in Nat
      BY <1>1
    <3>2. p * (m - Word) \in Nat /\ p * m = p * (m - Word) + p * Word
          /\ (Word - 1) * p = p * Word - p /\ p * Word \in Nat
      BY <3>1, <1>1, <1>2
    <3> QED BY <3>2, <2>1, <2>2, <1>2, <1>4
  <2> QED BY <2>1, <2>6, <2>7, <2>8
<1> HIDE DEF x, p, y
<1>7. ASSUME NEW n \in Nat, n + 1 < L, t[n] \in 0..Word - 1
      PROVE  /\ t[n + 1] \in 0..Word - 1
             /\ U32(t[n] + y(n + 1)) \in 0..Word - 1
             /\ U32(t[n] + y(n + 1)) + Word * t[n + 1] = t[n] + y(n + 1)
  <2> DEFINE z == t[n]
             e == y(n + 1)
  <2>1. n + 1 \in 0..L - 1 /\ n + 1 # 0 /\ (n + 1) - 1 = n
    BY <1>1, <1>7
  <2>2. t[n + 1] = Shr(U64(z + e), W + 2)
    BY <1>5, <2>1
  <2>3. z \in 0..Word - 1 /\ e \in Nat /\ e <= (Word - 1) * Word
    BY <1>3, <1>7, <2>1
  <2> HIDE DEF z, e
  <2>4. /\ U64(z + e) = z + e /\ Shr(z + e, W + 2) \in 0..Word - 1
        /\ U32(z + e) + Word * Shr(z + e, W + 2) = z + e
        /\ U32(z + e) \in 0..Word - 1
    BY <2>3, TempStep
  <2> QED BY <2>2, <2>4 DEF z, e
<1>8. \A n \in Nat : n < L => t[n] \in 0..Word - 1
  <2> DEFINE S == {n \in Nat : n < L => t[n] \in 0..Word - 1}
  <2>1. 0 \in S
    BY <1>6
  <2>2. \A n \in Nat : n \in S => n + 1 \in S
    <3> SUFFICES ASSUME NEW n \in Nat, n \in S, n + 1 < L
                 PROVE  t[n + 1] \in 0..Word - 1
      OBVIOUS
    <3>1. t[n] \in 0..Word - 1
      BY <1>1
    <3> QED BY <3>1, <1>7
  <2> HIDE DEF S
  <2>3. Nat \subseteq S
    BY <2>1, <2>2, Induct
  <2> QED BY <2>3 DEF S
<1>9. \A n \in 0..L - 1 : t[n] \in 0..Word - 1
  BY <1>1, <1>8
<1>10. ASSUME NEW n \in Nat, n + 1 < L
       PROVE  LET z == t[n] + TermOf(c, w, bits, factor, n + 1)
              IN  U32(z) \in 0..Word - 1 /\ U32(z) + Word * t[n + 1] = z
  <2>1. t[n] \in 0..Word - 1
    BY <1>1, <1>8, <1>10
  <2> QED BY <2>1, <1>7, <1>10 DEF y
<1> QED BY <1>6, <1>9, <1>10 DEF x, p

(* The register behind one step.                                             *)
Divided(c, w, bits, factor, t) ==
  [c EXCEPT !.a = [n \in Limbs |->
     IF n = 0 THEN @[0]
     ELSE U32(IF L - n = L - 1 THEN t[L - n]
              ELSE t[L - n] + TermOf(c, w, bits, factor, L - n + 1))]]

(* The carries of WorthCarry.                                                *)
CarryOf(c, w, bits, factor, t) ==
  [i \in Nat |-> IF i < L THEN 2^bits * t[i] - (c.a[L - i] + w[i] * factor) ELSE 0]

(* It is a register, with its first number as before.                        *)
LEMMA DividedIs ==
  ASSUME NEW c, NEW w, NEW bits, NEW factor, Division(c, w, bits, factor),
         NEW t, IsTemp(t, c, w, bits, factor), NEW d, d = Divided(c, w, bits, factor, t)
  PROVE  /\ d \in Combo /\ d.len1 = 1 /\ d.a[0] = c.a[0]
         /\ \A i \in 0..L - 1 :
              d.a[L - i] = U32(IF i = L - 1 THEN t[i]
                               ELSE t[i] + TermOf(c, w, bits, factor, i + 1))
<1>1. L - 1 \in Nat /\ L \in Nat /\ Word \in Nat /\ Word >= 16 /\ 0 \in Limbs
  BY WidthsAre, WordIs DEF Limbs
<1>2. c \in Combo /\ c.len1 = 1 /\ c = [a |-> c.a, len1 |-> 1] /\ c.a[0] \in 0..Word - 1
  BY <1>1, ComboIs DEF Division
<1>3. \A n \in 0..L - 1 : t[n] \in 0..Word - 1
  BY TempIs
<1> DEFINE z(i) == IF i = L - 1 THEN t[i] ELSE t[i] + TermOf(c, w, bits, factor, i + 1)
<1>4. \A i \in 0..L - 1 : U32(z(i)) \in 0..Word - 1
  <2> SUFFICES ASSUME NEW i \in 0..L - 1 PROVE U32(z(i)) \in 0..Word - 1
    OBVIOUS
  <2>1. CASE i = L - 1
    <3>1. t[i] \in Nat
      BY <1>1, <1>3
    <3>2. U32(t[i]) \in 0..Word - 1
      BY <3>1, U32Is
    <3> QED BY <2>1, <3>2
  <2>2. CASE i # L - 1
    <3>1. i \in Nat /\ i + 1 < L
      BY <1>1, <2>2
    <3>2. U32(t[i] + TermOf(c, w, bits, factor, i + 1)) \in 0..Word - 1
      BY <3>1, TempIs
    <3> QED BY <2>2, <3>2
  <2> QED BY <2>1, <2>2
<1> DEFINE f == [n \in Limbs |-> IF n = 0 THEN c.a[0] ELSE U32(z(L - n))]
<1>5. d = [a |-> f, len1 |-> 1]
  BY <1>2 DEF Divided
<1>6. f \in [Limbs -> 0..Word - 1]
  <2> HIDE DEF z
  <2> SUFFICES ASSUME NEW n \in Limbs, n # 0 PROVE U32(z(L - n)) \in 0..Word - 1
    BY <1>2
  <2>1. L - n \in 0..L - 1
    BY <1>1 DEF Limbs
  <2> QED BY <2>1, <1>4
<1>7. ASSUME NEW i \in 0..L - 1
      PROVE  d.a[L - i] = U32(z(i))
  <2> HIDE DEF z
  <2>1. L - i \in Limbs /\ L - i # 0 /\ L - (L - i) = i
    BY <1>1 DEF Limbs
  <2> QED BY <2>1, <1>5
<1>8. d \in Combo
  <2> HIDE DEF f
  <2>1. 1 \in 0..L
    BY <1>1
  <2> QED BY <1>5, <1>6, <2>1 DEF Combo
<1>9. d.len1 = 1 /\ d.a[0] = c.a[0]
  BY <1>1, <1>5
<1> QED BY <1>7, <1>8, <1>9

(* The second number: s plus the multiple of the prime, without the zeros.   *)
LEMMA DividedSecond ==
  ASSUME NEW c, NEW w, NEW bits, NEW factor, Division(c, w, bits, factor),
         NEW t, IsTemp(t, c, w, bits, factor), NEW d, d = Divided(c, w, bits, factor, t),
         WordsOf(w) \in [Nat -> Int]
  PROVE  2^bits * Second(d) = Second(c) + factor * Worth(WordPowers, WordsOf(w))[L]
<1> DEFINE p == 2^bits
           z == HighWords(d)
           x == HighWords(c)
           y == WordsOf(w)
           k == CarryOf(c, w, bits, factor, t)
<1>1. L - 1 \in Nat /\ L \in Nat /\ Word \in Nat /\ Word >= 16 /\ 0 \in Limbs /\ 0 \in 0..L - 1
      /\ L - 0 = L
  BY WidthsAre, WordIs DEF Limbs
<1>2. bits \in Nat /\ factor \in 0..p - 1
  <2>1. bits \in 1..W + 2 /\ factor \in 0..p - 1
    BY DEF Division
  <2> QED BY <2>1, WidthsAre
<1>3. p \in Nat \ {0}
  BY <1>2, TwoTo
<1>4. factor \in Nat
  <2> HIDE DEF p
  <2> QED BY <1>2, <1>3
<1>5. /\ c \in Combo /\ c.len1 = 1 /\ d \in Combo /\ d.len1 = 1
      /\ z \in [Nat -> Int] /\ x \in [Nat -> Int]
  <2>1. c \in Combo /\ c.len1 = 1
    BY DEF Division
  <2>2. d \in Combo /\ d.len1 = 1
    BY DividedIs
  <2> QED BY <2>1, <2>2, HighWordsAre
<1>6. \A i \in 0..L - 1 : /\ x[i] = c.a[L - i] /\ z[i] = d.a[L - i] /\ y[i] = w[i]
                          /\ x[i] \in Nat /\ z[i] \in Nat /\ y[i] \in Nat
                          /\ t[i] \in Nat
  <2> SUFFICES ASSUME NEW i \in 0..L - 1
               PROVE  /\ x[i] = c.a[L - i] /\ z[i] = d.a[L - i] /\ y[i] = w[i]
                      /\ x[i] \in Nat /\ z[i] \in Nat /\ y[i] \in Nat
                      /\ t[i] \in Nat
    OBVIOUS
  <2>1. i \in Nat /\ i + 1 <= L /\ i < L /\ L - i \in Limbs
    BY <1>1 DEF Limbs
  <2>2. x[i] = c.a[L - i] /\ z[i] = d.a[L - i]
    BY <2>1, <1>5, HighWordsAre
  <2>3. c.a[L - i] \in 0..Word - 1 /\ d.a[L - i] \in 0..Word - 1 /\ w[i] \in 0..Word - 1
    BY <1>5, <2>1, ComboIs DEF Division
  <2>4. y[i] = w[i]
    BY <2>1 DEF WordsOf
  <2>5. t[i] \in 0..Word - 1
    BY TempIs
  <2> QED BY <1>1, <2>2, <2>3, <2>4, <2>5
<1>7. k \in [Nat -> Int] /\ k[L] = 0 /\ k[0] = 0
      /\ \A i \in 0..L - 1 : k[i] = p * t[i] - (x[i] + y[i] * factor)
  <2>1. \A i \in 0..L - 1 : k[i] = p * t[i] - (x[i] + y[i] * factor)
    <3> SUFFICES ASSUME NEW i \in 0..L - 1
                 PROVE  k[i] = p * t[i] - (x[i] + y[i] * factor)
      OBVIOUS
    <3>1. i \in Nat /\ i < L
      BY <1>1
    <3>2. k[i] = p * t[i] - (c.a[L - i] + w[i] * factor)
      BY <3>1 DEF CarryOf
    <3>3. x[i] = c.a[L - i] /\ y[i] = w[i]
      BY <1>6
    <3> QED BY <3>2, <3>3
  <2>2. k[L] = 0
    BY <1>1 DEF CarryOf
  <2>3. k \in [Nat -> Int]
    <3> SUFFICES ASSUME NEW i \in Nat, i < L
                 PROVE  p * t[i] - (c.a[L - i] + w[i] * factor) \in Int
      BY DEF CarryOf
    <3>1. i \in 0..L - 1
      BY <1>1
    <3>2. t[i] \in Int /\ c.a[L - i] \in Int /\ w[i] \in Int
      BY <3>1, <1>6
    <3> DEFINE m == t[i]
               n == c.a[L - i]
               o == w[i]
    <3> HIDE DEF m, n, o, p
    <3>3. p * m - (n + o * factor) \in Int
      BY <3>2, <1>3, <1>4 DEF m, n, o
    <3> QED BY <3>3 DEF m, n, o, p
  <2>4. k[0] = 0
    <3>1. p * t[0] = c.a[L - 0] + w[0] * factor
      BY TempIs
    <3>2. p * t[0] = c.a[L - 0] + w[0] * factor
      BY <3>1, <1>1
    <3>3. k[0] = p * t[0] - (c.a[L - 0] + w[0] * factor)
      BY <1>1 DEF CarryOf
    <3>4. p * t[0] \in Int
      <4> HIDE DEF p
      <4> QED BY <1>1, <1>3, <1>6
    <3> DEFINE m == p * t[0]
    <3>5. m \in Int /\ k[0] = m - m
      BY <3>2, <3>3, <3>4
    <3> HIDE DEF m, k
    <3> QED BY <3>5
  <2> QED BY <2>1, <2>2, <2>3, <2>4
<1>8. Carried(Word, k, p, z, 1, x, factor, y, L)
  <2> SUFFICES ASSUME NEW i \in 0..L - 1
               PROVE  p * z[i] + Word * k[i + 1] = 1 * x[i] + factor * y[i] + k[i]
    BY DEF Carried
  <2>1. i \in Nat /\ i < L
    BY <1>1
  <2> DEFINE m == t[i]
             a == x[i]
             b == y[i]
             e == z[i]
             g == k[i]
  <2>2. m \in Nat /\ a \in Nat /\ b \in Nat /\ e \in Nat
    BY <1>6
  <2>3. g = p * m - (a + b * factor)
    BY <1>7
  <2>4. e = U32(IF i = L - 1 THEN t[i] ELSE t[i] + TermOf(c, w, bits, factor, i + 1))
    BY <1>6, DividedIs
  <2>5. CASE i = L - 1
    <3>1. i + 1 = L
      BY <1>1, <2>5
    <3>2. k[i + 1] = 0
      BY <3>1, <1>7
    <3>3. e = m
      <4>1. m \in 0..Word - 1
        BY TempIs
      <4>2. m \in Nat /\ m < Word
        BY <4>1, <1>1
      <4>3. e = U32(m)
        BY <2>4, <2>5
      <4> HIDE DEF m
      <4> QED BY <4>2, <4>3, U32Is
    <3> HIDE DEF m, a, b, e, g, p, x, y, z, k
    <3>4. p * e + Word * 0 = 1 * a + factor * b + g
      BY <1>1, <1>3, <1>4, <2>2, <2>3, <3>3
    <3> QED BY <3>2, <3>4 DEF a, b, e, g
  <2>6. CASE i # L - 1
    <3> DEFINE j == i + 1
               h == TermOf(c, w, bits, factor, j)
               a1 == x[j]
               b1 == y[j]
               m1 == t[j]
               g1 == k[j]
    <3>1. j \in 0..L - 1 /\ j \in Nat /\ j < L
      BY <1>1, <2>6
    <3>2. /\ g1 = p * m1 - (a1 + b1 * factor) /\ m1 \in Nat /\ a1 \in Nat /\ b1 \in Nat
      <4> HIDE DEF j
      <4> QED BY <3>1, <1>6, <1>7
    <3>3. p * h = Word * (a1 + b1 * factor) /\ h \in Nat
      <4> HIDE DEF j
      <4>1. x[j] = c.a[L - j] /\ y[j] = w[j]
        BY <3>1, <1>6
      <4>2. p * h = Word * (c.a[L - j] + w[j] * factor) /\ h \in Nat
        BY <3>1, TermOfIs
      <4> QED BY <4>1, <4>2
    <3>4. e = U32(m + h) /\ U32(m + h) + Word * m1 = m + h
      <4>1. e = U32(m + h)
        BY <2>4, <2>6
      <4>2. U32(m + h) + Word * m1 = m + h
        BY <2>1, <3>1, TempIs
      <4> QED BY <4>1, <4>2
    <3>5. e + Word * m1 = m + h
      BY <3>4
    <3> HIDE DEF m, a, b, e, g, p, x, y, z, k, j, h, a1, b1, m1, g1
    <3>6. p * e + Word * g1 = 1 * a + factor * b + g
      <4> DEFINE q == a1 + b1 * factor
                 o == a + b * factor
      <4>1. q \in Nat /\ o \in Nat /\ 1 * a + factor * b = o
        BY <1>4, <2>2, <3>2
      <4>2. g1 = p * m1 - q /\ p * h = Word * q /\ g = p * m - o
        BY <2>3, <3>2, <3>3
      <4> HIDE DEF q, o
      <4>3. p * (e + Word * m1) = p * (m + h)
        BY <3>5
      <4>4. p * e + Word * (p * m1) = p * m + Word * q
        <5>1. p * (e + Word * m1) = p * e + Word * (p * m1)
          BY <1>1, <1>3, <2>2, <3>2
        <5>2. p * (m + h) = p * m + p * h
          BY <1>3, <2>2, <3>3
        <5> QED BY <5>1, <5>2, <4>2, <4>3
      <4>5. Word * g1 = Word * (p * m1) - Word * q
        BY <4>1, <4>2, <1>1, <1>3, <3>2
      <4> DEFINE A == p * e
                 B == Word * (p * m1)
                 C == p * m
                 D == Word * q
                 E == Word * g1
      <4>6. A \in Int /\ B \in Int /\ C \in Int /\ D \in Int /\ E \in Int /\ g \in Int
            /\ A + B = C + D /\ E = B - D /\ g = C - o
        BY <1>1, <1>3, <2>2, <3>2, <4>1, <4>2, <4>4, <4>5
      <4> HIDE DEF A, B, C, D, E
      <4>7. A + E = o + g
        BY <4>1, <4>6
      <4>8. 1 * a + factor * b + g = o + g
        BY <4>1
      <4> QED BY <4>7, <4>8 DEF A, E
    <3>7. p * z[i] + Word * k[i + 1] = 1 * x[i] + factor * y[i] + k[i]
      BY <3>6 DEF a, b, e, g, g1, j
    <3> QED BY <3>7
  <2> QED BY <2>5, <2>6
<1>9. IsPowers(WordPowers, Word)
  BY WordPowersAre
<1>10. /\ p \in Int /\ factor \in Int /\ 1 \in Int /\ y \in [Nat -> Int] /\ L \in Nat
  BY <1>1, <1>3, <1>4
<1>11. /\ Worth(WordPowers, z)[L] = Second(d) /\ Worth(WordPowers, x)[L] = Second(c)
       /\ Second(d) \in Nat /\ Second(c) \in Nat
  BY <1>1, <1>5, SecondIs
<1>12. Worth(WordPowers, y)[L] \in Int /\ WordPowers[L] \in Nat
  BY <1>9, <1>10, WorthStep, WordPowersAre
<1> HIDE DEF p, x, y, z, k
<1>13. k \in [Nat -> Int] /\ x \in [Nat -> Int] /\ z \in [Nat -> Int]
  BY <1>5, <1>7
<1>14. p * Worth(WordPowers, z)[L] + WordPowers[L] * k[L]
         = 1 * Worth(WordPowers, x)[L] + factor * Worth(WordPowers, y)[L] + k[0]
  BY <1>8, <1>9, <1>10, <1>13, WorthCarry
<1>15. p * Second(d) = Second(c) + factor * Worth(WordPowers, y)[L]
  <2> DEFINE A == p * Second(d)
             B == factor * Worth(WordPowers, y)[L]
             C == Second(c)
  <2>1. A \in Int /\ B \in Int /\ C \in Int /\ A + WordPowers[L] * 0 = 1 * C + B + 0
    BY <1>3, <1>4, <1>7, <1>11, <1>12, <1>14
  <2> HIDE DEF A, B, C
  <2>2. A = C + B
    BY <2>1, <1>12
  <2> QED BY <2>2 DEF A, B, C
<1> QED BY <1>15 DEF p, y

(* A step of the division, for a prime n.                                    *)
DivideStep(st0, st1, n, bits, factor) ==
  /\ bits \in 1..W + 2 /\ bits <= st0.k /\ factor \in 0..2^bits - 1
  /\ st1 \in Registers /\ st1.k = st0.k - bits /\ st1.vr = st0.vr /\ st1.even = st0.even
  /\ st1.us.len1 = 1 /\ First(st1.us) = First(st0.us)
  /\ 2^bits * Second(st1.us) = Second(st0.us) + factor * n

(* A first number of one word is that word.                                  *)
LEMMA FirstOfOneWord ==
  ASSUME NEW c \in Combo, c.len1 = 1
  PROVE  First(c) = c.a[0]
<1>1. Worth(WordPowers, LowWords(c))[1] = First(c)
  BY FirstIs
<1>2. LowWords(c) \in [Nat -> Int] /\ LowWords(c)[0] = c.a[0] /\ c.a[0] \in Nat
  <2>1. c.a[0] \in 0..Word - 1
    BY ComboIs, WidthsAre DEF Limbs
  <2> QED BY <2>1, LowWordsAre, WordIs
<1>3. IsPowers(WordPowers, Word) /\ WordPowers[0] = 1
  BY WordPowersAre DEF IsPowers
<1> DEFINE f == LowWords(c)
<1> HIDE DEF f
<1>4. f \in [Nat -> Int] /\ IsPowers(WordPowers, Word) /\ 0 \in Nat
  BY <1>2, <1>3 DEF f
<1>5. Worth(WordPowers, f)[0] = 0
  BY <1>4, WorthStep
<1>6. Worth(WordPowers, f)[0 + 1] = Worth(WordPowers, f)[0] + f[0] * WordPowers[0]
  BY <1>4, WorthStep
<1> QED BY <1>1, <1>2, <1>3, <1>5, <1>6 DEF f

(* The lowest word of an odd number is odd.                                  *)
LEMMA LowestWordOdd ==
  ASSUME NEW pn \in [Limbs -> Nat], \A i \in Limbs : pn[i] < Limb, pn[L] < 2^T,
         Value(pn) % 2 = 1
  PROVE  Words(pn)[0] % 2 = 1 /\ Words(pn)[0] \in 0..Word - 1
<1> DEFINE f == WordsOf(Words(pn))
<1>1. /\ Words(pn) \in [0..L - 1 -> 0..Word - 1] /\ f \in [Nat -> Int]
      /\ Worth(WordPowers, f)[L] = Value(pn)
  BY WordsAre
<1>2. L \in Nat /\ L - 1 \in Nat /\ (L - 1) + 1 = L /\ 0 \in 0..L - 1 /\ 0 < L
  BY WidthsAre
<1>3. f[0] = Words(pn)[0] /\ Words(pn)[0] \in 0..Word - 1
  BY <1>1, <1>2 DEF WordsOf
<1>4. f[0] \in Nat
  BY <1>3, WordIs
<1> DEFINE n == L - 1
<1> HIDE DEF f, n
<1>5. n \in Nat /\ n + 1 = L
  BY <1>2 DEF n
<1>6. PICK m \in Int : Worth(WordPowers, f)[n + 1] = f[0] + 2 * m
  BY <1>1, <1>5, WorthParity
<1>7. Value(pn) = f[0] + 2 * m
  BY <1>1, <1>5, <1>6
<1>8. f[0] % 2 = 1
  BY <1>4, <1>7
<1> QED BY <1>3, <1>8

(* The words, the bits and the factor that Divide computes.                  *)
DivisionOf(st0, pn, w, bits, factor) ==
  /\ w = Words(pn)
  /\ bits = IF st0.k >= W + 2 THEN W + 2 ELSE st0.k
  /\ factor = U32(NegativeInverse(w[0]) * st0.us.a[L - 0]) % 2^bits
  /\ Division(st0.us, w, bits, factor)

(* What it makes of them.                                                    *)
Divides(st0, st1, w, bits, factor, t) ==
  /\ IsTemp(t, st0.us, w, bits, factor)
  /\ st1 = [st0 EXCEPT !.us = Divided(st0.us, w, bits, factor, t), !.k = st0.k - bits]

(* Divide does that.                                                         *)
LEMMA DivideUnfold ==
  ASSUME NEW st0 \in Registers, NEW pn, NEW w, NEW bits, NEW factor,
         DivisionOf(st0, pn, w, bits, factor)
  PROVE  \E t : Divides(st0, Divide(st0, pn), w, bits, factor, t)
<1> DEFINE t == CHOOSE g : IsTemp(g, st0.us, w, bits, factor)
           f == [n \in Limbs |->
                  IF n = 0 THEN st0.us.a[0]
                  ELSE U32(IF L - n = L - 1 THEN t[L - n]
                           ELSE t[L - n] + TermOf(st0.us, w, bits, factor, L - n + 1))]
<1>1. IsTemp(t, st0.us, w, bits, factor)
  BY TempExists DEF DivisionOf
<1>2. Divide(st0, pn) = [st0 EXCEPT !.us.a = f, !.k = st0.k - bits]
  BY DEF Divide, IsTemp, TermOf, DivisionOf
<1>3. Divided(st0.us, w, bits, factor, t) = [st0.us EXCEPT !.a = f]
  BY DEF Divided
<1> HIDE DEF t, f
<1>4. [st0 EXCEPT !.us.a = f, !.k = st0.k - bits]
        = [st0 EXCEPT !.us = [st0.us EXCEPT !.a = f], !.k = st0.k - bits]
  BY RegistersAre
<1>5. Divide(st0, pn) = [st0 EXCEPT !.us = Divided(st0.us, w, bits, factor, t),
                                    !.k = st0.k - bits]
  BY <1>2, <1>3, <1>4
<1>6. Divides(st0, Divide(st0, pn), w, bits, factor, t)
  BY <1>1, <1>5 DEF Divides
<1> QED BY <1>6

(* Divide makes such a step.                                                 *)
LEMMA DivideIs ==
  ASSUME NEW st0 \in Registers, st0.us.len1 = 1, st0.k # 0,
         NEW pn \in [Limbs -> Nat], \A i \in Limbs : pn[i] < Limb, pn[L] < 2^T,
         Value(pn) % 2 = 1
  PROVE  \E bits, factor \in Nat : DivideStep(st0, Divide(st0, pn), Value(pn), bits, factor)
<1> DEFINE w == Words(pn)
           bits == IF st0.k >= W + 2 THEN W + 2 ELSE st0.k
           s0 == st0.us.a[L - 0]
           factor == U32(NegativeInverse(w[0]) * s0) % 2^bits
<1>1. /\ st0.us \in Combo /\ st0.vr \in Combo /\ st0.k \in Nat /\ st0.even \in {"us", "vr"}
      /\ st0 = [us |-> st0.us, vr |-> st0.vr, k |-> st0.k, even |-> st0.even]
  BY RegistersAre
<1>2. W + 2 \in Nat \ {0} /\ L \in Nat /\ L - 0 \in Limbs /\ 0 \in Limbs
  BY WidthsAre DEF Limbs
<1>3. bits \in 1..W + 2 /\ bits <= st0.k /\ bits \in 0..W + 2 /\ bits \in Nat
  BY <1>1, <1>2
<1>4. s0 \in 0..Word - 1
  BY <1>1, <1>2, ComboIs
<1>5. /\ w \in [0..L - 1 -> 0..Word - 1] /\ WordsOf(w) \in [Nat -> Int]
      /\ Worth(WordPowers, WordsOf(w))[L] = Value(pn)
  BY WordsAre
<1>6. w[0] % 2 = 1 /\ w[0] \in 0..Word - 1
  BY LowestWordOdd
<1>7. factor = U32(NegativeInverse(w[0]) * s0) % 2^bits
  OBVIOUS
<1> HIDE DEF w, bits, factor
<1>8. factor \in 0..2^bits - 1 /\ \E m \in Int : s0 + w[0] * factor = 2^bits * m
  <2> DEFINE p0 == w[0]
  <2>1. p0 % 2 = 1 /\ p0 \in 0..Word - 1 /\ factor = U32(NegativeInverse(p0) * s0) % 2^bits
    BY <1>6, <1>7
  <2> HIDE DEF p0, s0
  <2>2. factor \in 0..2^bits - 1 /\ \E m \in Int : s0 + p0 * factor = 2^bits * m
    <3>1. IsFactor(p0, s0, bits, factor)
      BY <2>1, <1>3, <1>4 DEF IsFactor
    <3> QED BY <3>1, FactorIs
  <2> QED BY <2>2 DEF p0
<1>9. Division(st0.us, w, bits, factor)
  BY <1>1, <1>3, <1>5, <1>8 DEF Division
<1>10. PICK t : Divides(st0, Divide(st0, pn), w, bits, factor, t)
  <2>1. w = Words(pn) /\ bits = IF st0.k >= W + 2 THEN W + 2 ELSE st0.k
    BY DEF w, bits
  <2>2. DivisionOf(st0, pn, w, bits, factor)
    BY <2>1, <1>7, <1>9 DEF DivisionOf
  <2> QED BY <2>2, DivideUnfold
<1>11. /\ IsTemp(t, st0.us, w, bits, factor)
       /\ Divide(st0, pn) = [st0 EXCEPT !.us = Divided(st0.us, w, bits, factor, t),
                                        !.k = st0.k - bits]
  BY <1>10 DEF Divides
<1> DEFINE d == Divided(st0.us, w, bits, factor, t)
<1>12. d \in Combo /\ d.len1 = 1 /\ d.a[0] = st0.us.a[0]
  BY <1>9, <1>11, DividedIs
<1>13. 2^bits * Second(d) = Second(st0.us) + factor * Value(pn)
  BY <1>5, <1>9, <1>11, DividedSecond
<1>14. First(d) = First(st0.us)
  BY <1>1, <1>12, FirstOfOneWord
<1> HIDE DEF d
<1>15. Divide(st0, pn) = [us |-> d, vr |-> st0.vr, k |-> st0.k - bits, even |-> st0.even]
  <2>1. Divide(st0, pn) = [st0 EXCEPT !.us = d, !.k = st0.k - bits]
    BY <1>11 DEF d
  <2> QED BY <2>1, <1>1
<1>16. st0.k - bits \in Nat
  BY <1>1, <1>3
<1>17. factor \in Nat
  <2>1. 2^bits \in Nat
    BY <1>3, TwoTo
  <2> QED BY <2>1, <1>8
<1>18. Divide(st0, pn) \in Registers
  BY <1>1, <1>12, <1>15, <1>16 DEF Registers
<1>19. DivideStep(st0, Divide(st0, pn), Value(pn), bits, factor)
  BY <1>3, <1>8, <1>12, <1>13, <1>14, <1>15, <1>18 DEF DivideStep
<1> QED BY <1>3, <1>17, <1>19

-----------------------------------------------------------------------------
(* Load.                                                                     *)

(* Numbers in limbs that Words takes as they are.                            *)
Normal(a) == a \in [Limbs -> Nat] /\ (\A i \in Limbs : a[i] < Limb) /\ a[L] < 2^T

(* The top limb has T bits.                                                  *)
LEMMA LimbsAre ==
  /\ L \in Nat /\ Limbs = 0..L /\ 0 \in Limbs /\ L \in Limbs /\ L + 1 \in Nat
  /\ T \in Nat /\ W * L \in Nat /\ Bits = T + W * L /\ 2^T \in Nat /\ 2^T <= Limb
  /\ LimbPowers[L] = 2^(W * L) /\ LimbPowers[L] \in Nat \ {0} /\ 2^Bits = 2^T * LimbPowers[L]
<1>1. L \in Nat /\ W \in Nat /\ Limbs = 0..L /\ 0 \in Limbs /\ L \in Limbs /\ L + 1 \in Nat
      /\ T \in Nat /\ T <= W
  BY WidthsAre DEF Limbs, T
<1>2. W * L \in Nat /\ L * W = W * L
  BY <1>1
<1>3. Bits = T + W * L
  BY <1>1, <1>2 DEF Bits
<1>4. 2^T \in Nat /\ 2^T <= Limb
  BY <1>1, TwoTo, TwoToOrder, WordIs
<1>5. LimbPowers[L] = 2^(W * L) /\ LimbPowers[L] \in Nat \ {0}
  BY <1>1, LimbPowersAre
<1>6. 2^Bits = 2^T * LimbPowers[L]
  BY <1>1, <1>2, <1>3, <1>5, TwoToSum
<1> QED BY <1>1, <1>2, <1>3, <1>4, <1>5, <1>6

(* They are normalized numbers below 2^Bits.                                 *)
LEMMA NormalIs ==
  ASSUME NEW a, Normal(a)
  PROVE  /\ a \in [Limbs -> Nat] /\ a \in bignum256
         /\ LimbsOf(a) \in [Nat -> Int] /\ LimbsOf(a) \in [Nat -> 0..Limb - 1]
         /\ \A i \in Limbs : LimbsOf(a)[i] = a[i] /\ a[i] \in 0..Limb - 1 /\ a[i] \in Nat
         /\ Worth(LimbPowers, LimbsOf(a))[L + 1] = Value(a)
         /\ Value(a) \in Nat /\ Value(a) < 2^Bits
<1>1. a \in [Limbs -> Nat] /\ (\A i \in Limbs : a[i] < Limb) /\ a[L] < 2^T
  BY DEF Normal
<1>2. Word \in Nat /\ Limb \in Nat /\ Limb >= 4 /\ Word = 4 * Limb
  BY WordIs
<1>3. a \in bignum256
  BY <1>1, <1>2 DEF bignum256
<1>4. /\ LimbsOf(a) \in [Nat -> Int]
      /\ \A i \in Nat : LimbsOf(a)[i] \in Nat
      /\ \A i \in Limbs : LimbsOf(a)[i] = a[i]
  BY <1>1, LimbsOfAre
<1>5. \A i \in Limbs : a[i] \in 0..Limb - 1 /\ a[i] \in Nat
  BY <1>1, <1>2
<1>6. LimbsOf(a) \in [Nat -> 0..Limb - 1]
  BY <1>2, <1>5, LimbsAre DEF LimbsOf
<1>7. Worth(LimbPowers, LimbsOf(a))[L + 1] = Value(a)
  BY <1>1, ValueIs
<1> DEFINE f == LimbsOf(a)
<1> HIDE DEF f
<1>8. IsPowers(LimbPowers, Limb) /\ f \in [Nat -> 0..Limb - 1] /\ f \in [Nat -> Int]
      /\ L + 1 \in Nat /\ L \in Nat
  BY <1>4, <1>6, LimbPowersAre, LimbsAre DEF f
<1>9. /\ Worth(LimbPowers, f)[L + 1] \in Nat /\ Worth(LimbPowers, f)[L] \in Nat
      /\ Worth(LimbPowers, f)[L] < LimbPowers[L]
  BY <1>8, WorthBounds
<1>10. Worth(LimbPowers, f)[L + 1] = Worth(LimbPowers, f)[L] + f[L] * LimbPowers[L]
  BY <1>8, WorthStep
<1>11. f[L] \in Nat /\ f[L] < 2^T
  BY <1>1, <1>4, LimbsAre DEF f
<1>12. Worth(LimbPowers, f)[L] + f[L] * LimbPowers[L] < 2^T * LimbPowers[L]
  BY <1>9, <1>11, LimbsAre, StepBound
<1>13. Value(a) \in Nat /\ Value(a) < 2^Bits
  BY <1>7, <1>9, <1>10, <1>12, LimbsAre DEF f
<1> QED BY <1>1, <1>3, <1>4, <1>5, <1>6, <1>7, <1>13

(* What is below 2^Bits fits the top limb.                                   *)
LEMMA TopFits ==
  ASSUME NEW a \in [Limbs -> Nat], \A i \in Limbs : a[i] < Limb, Value(a) < 2^Bits
  PROVE  Normal(a)
<1> DEFINE f == LimbsOf(a)
<1>1. /\ f \in [Nat -> Int] /\ \A i \in Nat : f[i] \in Nat
      /\ \A i \in Limbs : f[i] = a[i]
  BY LimbsOfAre
<1>2. Worth(LimbPowers, f)[L + 1] = Value(a)
  BY ValueIs
<1>3. f \in [Nat -> 0..Limb - 1]
  <2>1. \A i \in Limbs : a[i] \in 0..Limb - 1
    BY WordIs
  <2>2. \A i \in Nat : (IF i <= L THEN a[i] ELSE 0) \in 0..Limb - 1
    <3> TAKE i \in Nat
    <3>1. CASE i <= L
      <4>1. i \in Limbs
        BY <3>1, LimbsAre
      <4> QED BY <3>1, <4>1, <2>1
    <3>2. CASE ~(i <= L)
      BY <3>2, WordIs
    <3> QED BY <3>1, <3>2
  <2> QED BY <2>2 DEF LimbsOf
<1> HIDE DEF f
<1>4. IsPowers(LimbPowers, Limb) /\ L + 1 \in Nat /\ L \in Nat
  BY LimbPowersAre, LimbsAre
<1>5. /\ Worth(LimbPowers, f)[L] \in Nat
  BY <1>3, <1>4, WorthBounds
<1>6. Worth(LimbPowers, f)[L + 1] = Worth(LimbPowers, f)[L] + f[L] * LimbPowers[L]
  BY <1>1, <1>4, WorthStep
<1> DEFINE w == Worth(LimbPowers, f)[L]
           x == f[L]
           q == LimbPowers[L]
           b == 2^T
<1>7. w \in Nat /\ x \in Nat /\ q \in Nat \ {0} /\ b \in Nat /\ w + x * q < b * q /\ x = a[L]
  BY <1>1, <1>2, <1>5, <1>6, LimbsAre
<1>8. x < b
  <2> HIDE DEF w, x, q, b
  <2>1. x * q \in Nat /\ b * q \in Nat
    BY <1>7
  <2>2. x * q < b * q
    BY <1>7, <2>1
  <2> QED BY <1>7, <2>2, TimesLess
<1> QED BY <1>7, <1>8 DEF Normal

(* A quotient divided again.                                                 *)
LEMMA ShrAgain ==
  ASSUME NEW n \in Nat, NEW m \in Nat
  PROVE  Shr(n, W * m) = Limb * Shr(n, W * (m + 1)) + Low(Shr(n, W * m))
<1> DEFINE q == 2^(W * m)
           h == Shr(n, W * m)
           l == n % q
           g == h \div Limb
           d == h % Limb
<1>1. W * m \in Nat /\ W * (m + 1) \in Nat /\ 2^(W * (m + 1)) = Limb * q /\ Limb \in Nat \ {0}
  <2>1. W \in Nat /\ Limb = 2^W /\ Limb \in Nat \ {0} /\ m + 1 \in Nat
    BY WidthsAre, WordIs
  <2>2. W * m \in Nat /\ 2^(W * (m + 1)) = 2^W * 2^(W * m)
    BY <2>1, TwoToTimes
  <2>3. W * (m + 1) \in Nat
    BY <2>1
  <2> QED BY <2>1, <2>2, <2>3
<1>2. q \in Nat \ {0}
  BY <1>1, TwoTo
<1>3. h \in Nat /\ l \in Nat /\ l < q /\ n = q * h + l
  BY <1>1, ShrIs
<1> HIDE DEF q, h, l
<1>4. g \in Nat /\ d \in Nat /\ d < Limb /\ h = Limb * g + d
  BY <1>1, <1>3, RemainderIs
<1> HIDE DEF g, d
<1> DEFINE p == Limb * q
           e == l + d * q
<1>5. p \in Nat \ {0} /\ e \in Nat /\ e < p
  <2>1. l + d * q \in Nat /\ l + d * q < Limb * q
    BY <1>1, <1>2, <1>3, <1>4, StepBound
  <2> QED BY <2>1, <1>1, <1>2
<1>6. n = p * g + e
  <2>1. q * (Limb * g + d) = (Limb * q) * g + d * q
    BY <1>1, <1>2, <1>4
  <2>2. n = q * (Limb * g + d) + l
    BY <1>3, <1>4
  <2> DEFINE x == (Limb * q) * g
             y == d * q
  <2>3. x \in Int /\ y \in Int /\ n = x + y + l
    BY <2>1, <2>2, <1>1, <1>2, <1>4
  <2> HIDE DEF x, y
  <2>4. n = x + (l + y)
    BY <2>3, <1>3
  <2> QED BY <2>4 DEF x, y
<1> HIDE DEF p, e
<1>7. n \div p = g
  BY <1>4, <1>5, <1>6, DivIs
<1>8. Shr(n, W * (m + 1)) = g
  BY <1>1, <1>7 DEF Shr, p
<1>9. h = Limb * g + d
  BY <1>4
<1> QED BY <1>8, <1>9 DEF h, d, Low

(* Of makes them.                                                            *)
LEMMA OfIs ==
  ASSUME NEW n \in Nat, n < 2^Bits
  PROVE  Normal(Of(n)) /\ Value(Of(n)) = n
<1> DEFINE a == Of(n)
           c == [i \in Nat |-> Shr(n, W * i)]
<1>1. \A i \in Nat : W * i \in Nat /\ c[i] \in Nat /\ c[i] = Limb * c[i + 1] + Low(c[i])
                     /\ Low(c[i]) \in Nat /\ Low(c[i]) < Limb
  <2> TAKE i \in Nat
  <2>1. W * i \in Nat /\ i + 1 \in Nat
    BY WidthsAre
  <2>2. Shr(n, W * i) \in Nat
    BY <2>1, ShrIs
  <2>3. Low(Shr(n, W * i)) \in Nat /\ Low(Shr(n, W * i)) < Limb
    BY <2>2, WordIs, RemainderIs DEF Low
  <2> QED BY <2>1, <2>2, <2>3, ShrAgain
<1>2. \A i \in Limbs : a[i] = IF i = L THEN c[L] ELSE Low(c[i])
  BY LimbsAre DEF Of
<1>3. c[0] = n
  <2>1. W * 0 = 0 /\ 2^0 = 1 /\ n \div 1 = n
    BY WidthsAre, TwoTo
  <2> QED BY <2>1 DEF Shr
<1>4. c[L] < 2^T
  <2>1. n < 2^(T + W * L)
    BY LimbsAre
  <2> QED BY <2>1, LimbsAre, ShrBound
<1>5. a \in [Limbs -> Nat] /\ \A i \in Limbs : a[i] < Limb
  <2>1. a = [i \in Limbs |-> a[i]]
    BY DEF Of
  <2> HIDE DEF a, c
  <2>2. \A i \in Limbs : a[i] \in Nat /\ a[i] < Limb
    <3> SUFFICES ASSUME NEW i \in Limbs PROVE a[i] \in Nat /\ a[i] < Limb
      OBVIOUS
    <3>1. i \in Nat
      BY LimbsAre
    <3>2. c[L] \in Nat /\ c[L] < Limb
      <4>1. c[L] \in Nat /\ c[L] < 2^T
        BY <1>1, <1>4, LimbsAre
      <4>2. 2^T \in Nat /\ 2^T <= Limb /\ Limb \in Nat
        BY LimbsAre, WordIs
      <4> DEFINE x == c[L]
                 y == 2^T
      <4>3. x \in Nat /\ y \in Nat /\ x < y /\ y <= Limb
        BY <4>1, <4>2
      <4> HIDE DEF x, y
      <4>4. x \in Nat /\ x < Limb
        BY <4>2, <4>3
      <4> QED BY <4>4 DEF x
    <3> QED BY <3>1, <3>2, <1>1, <1>2
  <2> QED BY <2>1, <2>2
<1>6. a[L] = c[L]
  BY <1>2, LimbsAre
<1>7. Normal(a)
  BY <1>4, <1>5, <1>6 DEF Normal
<1> DEFINE f == LimbsOf(a)
<1>8. /\ f \in [Nat -> Int] /\ \A i \in Limbs : f[i] = a[i]
      /\ Worth(LimbPowers, f)[L + 1] = Value(a)
  BY <1>7, NormalIs
<1>9. c \in [Nat -> Int]
  <2> SUFFICES ASSUME NEW i \in Nat PROVE Shr(n, W * i) \in Int
    OBVIOUS
  <2>1. c[i] \in Nat
    BY <1>1
  <2> QED BY <2>1
<1> HIDE DEF a, c, f
<1> DEFINE one == 1
           none == 0
<1>10. Carried(Limb, c, one, f, none, f, none, f, L)
  <2> SUFFICES ASSUME NEW i \in 0..L - 1
               PROVE  one * f[i] + Limb * c[i + 1] = none * f[i] + none * f[i] + c[i]
    BY DEF Carried
  <2>1. i \in Nat /\ i \in Limbs /\ i # L
    BY LimbsAre
  <2>2. f[i] = Low(c[i])
    BY <1>2, <1>8, <2>1
  <2>3. f[i] \in Nat /\ c[i] \in Nat /\ c[i + 1] \in Nat /\ Limb \in Nat
        /\ c[i] = Limb * c[i + 1] + f[i]
    BY <1>1, <2>1, <2>2, WordIs
  <2> QED BY <2>3
<1>11. IsPowers(LimbPowers, Limb) /\ one \in Int /\ none \in Int /\ L \in Nat
  BY LimbPowersAre, LimbsAre
<1>12. Worth(LimbPowers, f)[L] \in Int
       /\ Worth(LimbPowers, f)[L + 1] = Worth(LimbPowers, f)[L] + f[L] * LimbPowers[L]
  BY <1>8, <1>11, WorthStep
<1> HIDE DEF one, none
<1>13. one * Worth(LimbPowers, f)[L] + LimbPowers[L] * c[L]
         = none * Worth(LimbPowers, f)[L] + none * Worth(LimbPowers, f)[L] + c[0]
  BY <1>8, <1>9, <1>10, <1>11, WorthCarry
<1>14. f[L] = c[L] /\ c[L] \in Nat
  BY <1>1, <1>6, <1>8, LimbsAre
<1>15. Value(a) = n
  <2> DEFINE w == Worth(LimbPowers, f)[L]
             x == c[L]
             q == LimbPowers[L]
  <2>1. /\ w \in Int /\ x \in Nat /\ q \in Nat /\ Value(a) = w + x * q
        /\ 1 * w + q * x = 0 * w + 0 * w + n
    BY <1>3, <1>8, <1>12, <1>13, <1>14, LimbsAre DEF one, none
  <2> HIDE DEF w, x, q
  <2>2. q * x = x * q /\ x * q \in Nat
    BY <2>1
  <2> QED BY <2>1, <2>2
<1> QED BY <1>7, <1>15 DEF a

(* bn_is_less compares them.                                                 *)
LEMMA LessWhenBelow ==
  ASSUME NEW a, NEW b, Normal(a), Normal(b), NEW i \in Limbs, a[i] < b[i],
         \A j \in i + 1..L : a[j] = b[j]
  PROVE  Value(a) < Value(b)
<1> DEFINE h == LimbsOf(a)
           f == LimbsOf(b)
           n == L + 1
<1>1. /\ h \in [Nat -> 0..Limb - 1] /\ f \in [Nat -> 0..Limb - 1]
      /\ \A j \in Limbs : h[j] = a[j] /\ f[j] = b[j]
      /\ Worth(LimbPowers, h)[n] = Value(a) /\ Worth(LimbPowers, f)[n] = Value(b)
  BY NormalIs
<1> HIDE DEF h, f
<1>2. Below(h, f, i, n)
  <2>1. i < L + 1 /\ i \in Nat
    BY LimbsAre
  <2>2. \A j \in i + 1..n - 1 : j \in Limbs /\ j \in i + 1..L
    BY <2>1, LimbsAre
  <2>3. \A j \in i + 1..n - 1 : f[j] = h[j]
    BY <2>2, <1>1
  <2> QED BY <2>1, <2>3, <1>1 DEF Below
<1>3. IsPowers(LimbPowers, Limb) /\ n \in Nat /\ i \in Nat
  BY LimbPowersAre, LimbsAre
<1> HIDE DEF n
<1>4. Worth(LimbPowers, h)[n] < Worth(LimbPowers, f)[n]
  BY <1>1, <1>2, <1>3, WorthCompare
<1> QED BY <1>1, <1>4

(* It decides which one is smaller.                                          *)
LEMMA IsLessIs ==
  ASSUME NEW a, NEW b, Normal(a), Normal(b)
  PROVE  bn_is_less(a, b) <=> Value(a) < Value(b)
<1>1. Value(a) \in Nat /\ Value(b) \in Nat
  BY NormalIs
<1>2. ASSUME bn_is_less(a, b)
      PROVE  Value(a) < Value(b)
  BY <1>2, LessWhenBelow DEF bn_is_less
<1>3. ASSUME ~bn_is_less(a, b)
      PROVE  Value(a) >= Value(b)
  <2> DEFINE S == {i \in Limbs : a[i] # b[i]}
  <2>1. CASE S = {}
    <3>1. a = b
      BY <2>1, NormalIs
    <3> QED BY <3>1, <1>1
  <2>2. CASE S # {}
    <3>1. S \in SUBSET Nat /\ \A m \in S : m <= L
      BY LimbsAre
    <3>2. PICK i \in S : \A m \in S : m <= i
      <4> HIDE DEF S
      <4> QED BY <3>1, <2>2, LimbsAre, Highest
    <3>3. i \in Limbs /\ a[i] # b[i] /\ i \in Nat /\ a[i] \in Nat /\ b[i] \in Nat
      BY LimbsAre, NormalIs
    <3>4. \A j \in i + 1..L : a[j] = b[j] /\ b[j] = a[j]
      <4> SUFFICES ASSUME NEW j \in i + 1..L, a[j] # b[j] PROVE FALSE
        OBVIOUS
      <4>1. j \in Limbs /\ j > i
        BY <3>3, LimbsAre
      <4> QED BY <4>1, <3>2, <3>3
    <3>5. b[i] < a[i]
      <4> SUFFICES ASSUME a[i] < b[i] PROVE FALSE
        BY <3>3
      <4> QED BY <3>3, <3>4, <1>3 DEF bn_is_less
    <3>6. Value(b) < Value(a)
      BY <3>3, <3>4, <3>5, LessWhenBelow
    <3> QED BY <3>6, <1>1
  <2> QED BY <2>1, <2>2
<1> QED BY <1>1, <1>2, <1>3

(* The carries of a sum of the terms f, the last ones modulo M.              *)
CarrySequence(g, f, first, M) ==
  g = [i \in 0..L |->
         IF i = 0 THEN <<(first + f[0]) % M>>
         ELSE Append(g[i - 1], (Shr(g[i - 1][i], W) + f[i]) % M)]

AreCarries(c, f, first, M) ==
  /\ c \in [0..L -> Nat]
  /\ c[0] = (first + f[0]) % M
  /\ \A i \in 1..L : c[i] = (Shr(c[i - 1], W) + f[i]) % M

(* There is one.                                                             *)
LEMMA CarriesExist ==
  ASSUME NEW f \in [0..L -> Int], NEW first \in Int, NEW M \in Nat \ {0}
  PROVE  \E c : AreCarries(c, f, first, M)
<1> DEFINE base == (first + f[0]) % M
           Step == [z \in Nat \X Nat |->
                      IF z[2] + 1 <= L THEN (Shr(z[1], W) + f[z[2] + 1]) % M ELSE 0]
<1>1. L \in Nat /\ W \in Nat
  BY WidthsAre
<1>2. \A x \in Int : x % M \in Nat
  OBVIOUS
<1>3. base \in Nat
  <2>1. 0 \in 0..L
    BY <1>1
  <2>2. first + f[0] \in Int
    BY <2>1
  <2> QED BY <2>2, <1>2
<1>4. \A x \in Nat, n \in Nat : n + 1 <= L => (Shr(x, W) + f[n + 1]) % M \in Nat
  <2> SUFFICES ASSUME NEW x \in Nat, NEW n \in Nat, n + 1 <= L
               PROVE  (Shr(x, W) + f[n + 1]) % M \in Nat
    OBVIOUS
  <2>1. n + 1 \in 0..L
    BY <1>1
  <2>2. Shr(x, W) \in Nat /\ f[n + 1] \in Int
    BY <1>1, <2>1, ShrIs
  <2>3. Shr(x, W) + f[n + 1] \in Int
    BY <2>2
  <2> QED BY <2>3, <1>2
<1>5. Step \in [Nat \X Nat -> Nat]
  BY <1>4
<1>6. \A x \in Nat, n \in Nat :
        n + 1 <= L => Step[<<x, n>>] = (Shr(x, W) + f[n + 1]) % M
  OBVIOUS
<1> HIDE DEF Step, base
<1>7. PICK c : Recurses(c, Nat, base, Step, L)
  BY <1>1, <1>3, <1>5, Recursive
<1>8. /\ c = [i \in 0..L |-> IF i = 0 THEN base ELSE Step[<<c[i - 1], i - 1>>]]
      /\ c \in [0..L -> Nat]
  BY <1>7 DEF Recurses
<1>9. c[0] = base
  BY <1>1, <1>8
<1>10. ASSUME NEW i \in 1..L
       PROVE  c[i] = (Shr(c[i - 1], W) + f[i]) % M
  <2> DEFINE n == i - 1
             x == c[n]
  <2>1. n \in Nat /\ n + 1 = i /\ n \in 0..L /\ i \in 0..L /\ i # 0 /\ i <= L
    BY <1>1
  <2>2. x \in Nat
    BY <1>8, <2>1
  <2>3. c[i] = Step[<<x, n>>]
    BY <1>8, <2>1
  <2> HIDE DEF n, x
  <2>4. Step[<<x, n>>] = (Shr(x, W) + f[i]) % M
    BY <1>6, <2>1, <2>2
  <2> QED BY <2>3, <2>4 DEF x, n
<1>11. AreCarries(c, f, first, M)
  BY <1>8, <1>9, <1>10 DEF AreCarries, base
<1> QED BY <1>11

(* The first n + 1 carries as a sequence.                                    *)
FirstCarries(c, n) == [j \in 1..n + 1 |-> c[j - 1]]

(* They are as long as the limbs they belong to.                             *)
LEMMA FirstCarriesAre ==
  ASSUME NEW c \in [0..L -> Nat]
  PROVE  /\ FirstCarries(c, 0) = <<c[0]>>
         /\ \A n \in 0..L : /\ FirstCarries(c, n) \in Seq(Nat)
                            /\ \A i \in 0..n : FirstCarries(c, n)[i + 1] = c[i]
         /\ \A n \in 1..L : FirstCarries(c, n) = Append(FirstCarries(c, n - 1), c[n])
<1>1. L \in Nat
  BY WidthsAre
<1>2. \A n \in 0..L : /\ FirstCarries(c, n) \in Seq(Nat) /\ Len(FirstCarries(c, n)) = n + 1
                      /\ \A i \in 0..n : FirstCarries(c, n)[i + 1] = c[i]
  <2> SUFFICES ASSUME NEW n \in 0..L
               PROVE  /\ FirstCarries(c, n) \in Seq(Nat) /\ Len(FirstCarries(c, n)) = n + 1
                      /\ \A i \in 0..n : FirstCarries(c, n)[i + 1] = c[i]
    OBVIOUS
  <2>1. n + 1 \in Nat /\ \A j \in 1..n + 1 : j - 1 \in 0..L
    BY <1>1
  <2>2. FirstCarries(c, n) \in [1..n + 1 -> Nat]
    BY <2>1 DEF FirstCarries
  <2>3. \A i \in 0..n : i + 1 \in 1..n + 1 /\ (i + 1) - 1 = i
    BY <1>1
  <2> QED BY <2>1, <2>2, <2>3 DEF FirstCarries
<1>3. FirstCarries(c, 0) = <<c[0]>>
  <2>1. 0 \in 0..L /\ 0 \in 0..0
    BY <1>1
  <2> DEFINE q == FirstCarries(c, 0)
  <2>2. q \in Seq(Nat) /\ Len(q) = 0 + 1 /\ q[0 + 1] = c[0]
    BY <2>1, <1>2
  <2> HIDE DEF q
  <2>3. q \in Seq(Nat) /\ Len(q) = 1 /\ q[1] = c[0]
    BY <2>2
  <2>4. FirstCarries(c, 0) \in Seq(Nat) /\ Len(FirstCarries(c, 0)) = 1
        /\ FirstCarries(c, 0)[1] = c[0]
    BY <2>3 DEF q
  <2> QED BY <2>4
<1>4. ASSUME NEW n \in 1..L
      PROVE  FirstCarries(c, n) = Append(FirstCarries(c, n - 1), c[n])
  <2> DEFINE p == FirstCarries(c, n - 1)
             q == FirstCarries(c, n)
             o == Append(p, c[n])
  <2>1. n - 1 \in 0..L /\ n \in 0..L /\ (n - 1) + 1 = n /\ n \in Nat
    BY <1>1
  <2>2. /\ p \in Seq(Nat) /\ Len(p) = n /\ q \in Seq(Nat) /\ Len(q) = n + 1
        /\ \A i \in 0..n - 1 : p[i + 1] = c[i]
        /\ \A i \in 0..n : q[i + 1] = c[i]
    <3>1. /\ p \in Seq(Nat) /\ Len(p) = (n - 1) + 1 /\ \A i \in 0..n - 1 : p[i + 1] = c[i]
      BY <1>2, <2>1
    <3> QED BY <1>2, <2>1, <3>1
  <2> HIDE DEF p, q
  <2>3. o \in Seq(Nat) /\ Len(o) = n + 1 /\ o[n + 1] = c[n]
        /\ \A j \in 1..n : o[j] = p[j]
    BY <2>1, <2>2
  <2> HIDE DEF o
  <2>4. \A j \in 1..n + 1 : q[j] = o[j]
    <3> SUFFICES ASSUME NEW j \in 1..n + 1 PROVE q[j] = o[j]
      OBVIOUS
    <3> DEFINE i == j - 1
    <3>1. i \in 0..n /\ i + 1 = j
      BY <2>1
    <3>2. CASE i = n
      BY <3>1, <3>2, <2>2, <2>3
    <3>3. CASE i # n
      <4>1. i \in 0..n - 1 /\ j \in 1..n
        BY <3>1, <3>3, <2>1
      <4> QED BY <4>1, <3>1, <2>2, <2>3
    <3> QED BY <3>2, <3>3
  <2>5. q = o
    BY <2>1, <2>2, <2>3, <2>4
  <2> QED BY <2>5 DEF p, q, o
<1> QED BY <1>2, <1>3, <1>4

(* The loops of bn_fast_mod and of the subtraction compute one.              *)
LEMMA CarrySequenceExists ==
  ASSUME NEW f \in [0..L -> Int], NEW first \in Int, NEW M \in Nat \ {0}
  PROVE  \E g : CarrySequence(g, f, first, M)
<1>1. PICK c : AreCarries(c, f, first, M)
  BY CarriesExist
<1> DEFINE g == [i \in 0..L |-> FirstCarries(c, i)]
<1>2. L \in Nat /\ c \in [0..L -> Nat] /\ c[0] = (first + f[0]) % M
      /\ \A i \in 1..L : c[i] = (Shr(c[i - 1], W) + f[i]) % M
  BY <1>1, WidthsAre DEF AreCarries
<1>3. ASSUME NEW i \in 0..L
      PROVE  g[i] = IF i = 0 THEN <<(first + f[0]) % M>>
                    ELSE Append(g[i - 1], (Shr(g[i - 1][i], W) + f[i]) % M)
  <2>1. CASE i = 0
    <3>1. g[0] = FirstCarries(c, 0)
      BY <1>2
    <3>2. g[0] = <<(first + f[0]) % M>>
      BY <3>1, <1>2, FirstCarriesAre
    <3> QED BY <2>1, <3>2
  <2>2. CASE i # 0
    <3>1. i \in 1..L /\ i - 1 \in 0..L /\ i - 1 \in 0..i - 1 /\ (i - 1) + 1 = i
      BY <1>2, <2>2
    <3>2. g[i] = FirstCarries(c, i) /\ g[i - 1] = FirstCarries(c, i - 1)
      BY <3>1
    <3>3. g[i] = Append(g[i - 1], c[i])
      BY <3>1, <3>2, <1>2, FirstCarriesAre
    <3>4. g[i - 1][(i - 1) + 1] = c[i - 1]
      BY <3>1, <3>2, <1>2, FirstCarriesAre
    <3>5. g[i - 1][i] = c[i - 1]
      BY <3>1, <3>4
    <3> HIDE DEF g
    <3>6. c[i] = (Shr(g[i - 1][i], W) + f[i]) % M
      BY <3>1, <3>5, <1>2
    <3> QED BY <2>2, <3>3, <3>6
  <2> QED BY <2>1, <2>2
<1>4. g = [i \in 0..L |-> IF i = 0 THEN <<(first + f[0]) % M>>
                          ELSE Append(g[i - 1], (Shr(g[i - 1][i], W) + f[i]) % M)]
  BY <1>3
<1>5. CarrySequence(g, f, first, M)
  BY <1>4 DEF CarrySequence
<1> QED BY <1>5

(* Its elements, one by one.                                                 *)
LEMMA CarrySequenceIs ==
  ASSUME NEW f \in [0..L -> Int], NEW first \in Int, NEW M \in Nat \ {0},
         NEW g, CarrySequence(g, f, first, M)
  PROVE  \E c : AreCarries(c, f, first, M) /\ g[L] = FirstCarries(c, L)
<1>1. PICK c : AreCarries(c, f, first, M)
  BY CarriesExist
<1>2. L \in Nat /\ c \in [0..L -> Nat] /\ c[0] = (first + f[0]) % M
      /\ \A i \in 1..L : c[i] = (Shr(c[i - 1], W) + f[i]) % M
  BY <1>1, WidthsAre DEF AreCarries
<1>3. \A i \in 0..L : g[i] = IF i = 0 THEN <<(first + f[0]) % M>>
                             ELSE Append(g[i - 1], (Shr(g[i - 1][i], W) + f[i]) % M)
  BY DEF CarrySequence
<1> DEFINE S == {n \in Nat : n <= L => g[n] = FirstCarries(c, n)}
<1>4. 0 \in S
  <2>1. 0 \in 0..L
    BY <1>2
  <2>2. g[0] = <<(first + f[0]) % M>>
    BY <2>1, <1>3
  <2>3. g[0] = FirstCarries(c, 0)
    BY <2>2, <1>2, FirstCarriesAre
  <2> QED BY <2>3
<1>5. ASSUME NEW n \in Nat, n \in S
      PROVE  n + 1 \in S
  <2> SUFFICES ASSUME n + 1 <= L PROVE g[n + 1] = FirstCarries(c, n + 1)
    OBVIOUS
  <2> DEFINE i == n + 1
  <2>1. i \in 0..L /\ i \in 1..L /\ i # 0 /\ i - 1 = n /\ n \in 0..L /\ n \in 0..n
    BY <1>2
  <2>2. g[n] = FirstCarries(c, n)
    BY <1>2, <1>5
  <2>3. g[n][n + 1] = c[n]
    <3>1. \A j \in 0..n : FirstCarries(c, n)[j + 1] = c[j]
      BY <2>1, <1>2, FirstCarriesAre
    <3>2. n \in 0..n
      OBVIOUS
    <3>3. FirstCarries(c, n)[n + 1] = c[n]
      BY <3>1, <3>2
    <3> QED BY <3>3, <2>2
  <2> HIDE DEF i
  <2>4. g[i] = Append(g[n], (Shr(g[n][i], W) + f[i]) % M)
    BY <1>3, <2>1
  <2>5. g[n][i] = c[n]
    BY <2>3 DEF i
  <2>6. c[i] = (Shr(c[n], W) + f[i]) % M
    BY <1>2, <2>1
  <2>7. g[i] = Append(FirstCarries(c, n), c[i])
    BY <2>2, <2>4, <2>5, <2>6
  <2>8. FirstCarries(c, i) = Append(FirstCarries(c, n), c[i])
    BY <1>2, <2>1, FirstCarriesAre
  <2> QED BY <2>7, <2>8 DEF i
<1> HIDE DEF S
<1>6. Nat \subseteq S
  BY <1>4, <1>5, Induct
<1>7. g[L] = FirstCarries(c, L)
  BY <1>2, <1>6 DEF S
<1> QED BY <1>1, <1>7

(* What the loops of Bignum make of them: a number of their low bits.        *)
LEMMA MaskedIs ==
  ASSUME NEW c \in [0..L -> Nat]
  PROVE  Masked[FirstCarries(c, L)] = [i \in Limbs |-> Low(c[i])]
<1>1. L \in Nat /\ L \in 0..L /\ Limbs = 0..L
  BY LimbsAre
<1> DEFINE q == FirstCarries(c, L)
<1>2. q \in Seq(Nat) /\ \A i \in 0..L : q[i + 1] = c[i]
  BY <1>1, FirstCarriesAre
<1> HIDE DEF q
<1>3. Masked[q] = [i \in Limbs |-> Low(q[i + 1])]
  BY <1>2 DEF Masked
<1>4. [i \in Limbs |-> Low(q[i + 1])] = [i \in Limbs |-> Low(c[i])]
  BY <1>1, <1>2
<1> QED BY <1>3, <1>4 DEF q

(* The terms of FastMod.                                                     *)
FastTerms(a, p) ==
  [i \in 0..L |-> 2^(2 * W + 1) - (IF i = 0 THEN 0 ELSE 2^(W + 1)) + a[i] - p[i] * coef(a[L])]

(* bn_fast_mod adds up terms of this kind.                                   *)
LEMMA FastModUnfold ==
  ASSUME NEW a \in bignum256, NEW p \in bignum256, FastTerms(a, p) \in [0..L -> Int]
  PROVE  \E g : CarrySequence(g, FastTerms(a, p), 0, Dword)
                /\ FastMod(a, p) = Masked[g[L]]
<1> DEFINE Fix(g) ==
             g = [i \in 0..L |->
                    IF i = 0
                    THEN <<U64(0 + (2^(2 * W + 1) - (IF 0 = 0 THEN 0 ELSE 2^(W + 1))
                                    + a[0] - p[0] * coef(a[L])))>>
                    ELSE LET done == g[i - 1]
                         IN  Append(done, U64(Shr(done[i], W)
                                    + (2^(2 * W + 1) - (IF i = 0 THEN 0 ELSE 2^(W + 1))
                                       + a[i] - p[i] * coef(a[L]))))]
           g == CHOOSE h : Fix(h)
           f == FastTerms(a, p)
<1>1. \A i \in 0..L : f[i] = 2^(2 * W + 1) - (IF i = 0 THEN 0 ELSE 2^(W + 1))
                              + a[i] - p[i] * coef(a[L])
  BY DEF FastTerms
<1>2. 0 \in 0..L
  BY LimbsAre
<1>3. f[0] = 2^(2 * W + 1) - (IF 0 = 0 THEN 0 ELSE 2^(W + 1)) + a[0] - p[0] * coef(a[L])
  BY <1>1, <1>2
<1> HIDE DEF f
<1>4. ASSUME NEW h, CarrySequence(h, f, 0, Dword)
      PROVE  Fix(h)
  BY <1>1, <1>3, <1>4 DEF CarrySequence, U64
<1>5. ASSUME NEW h, Fix(h)
      PROVE  CarrySequence(h, f, 0, Dword)
  BY <1>1, <1>3, <1>5 DEF CarrySequence, U64
<1>6. \E h : CarrySequence(h, f, 0, Dword)
  <2>1. Dword \in Nat \ {0}
    BY WordIs
  <2> QED BY <2>1, CarrySequenceExists DEF f
<1>7. \E h : Fix(h)
  BY <1>4, <1>6
<1> HIDE DEF Fix
<1>8. Fix(g)
  BY <1>7
<1>9. CarrySequence(g, f, 0, Dword)
  BY <1>5, <1>8
<1>10. FastMod(a, p) = Masked[g[L]]
  BY DEF FastMod, Carries, g, Fix
<1> QED BY <1>9, <1>10 DEF f

(* The constants that keep the carries of bn_fast_mod above zero.            *)
LEMMA CarryConstants ==
  LET m == 2^(2 * W + 1)
      k == 2^(W + 1)
  IN  /\ m \in Nat /\ k \in Nat /\ m = Limb * k
      /\ Limb \in Nat \ {0} /\ Dword \in Nat \ {0} /\ m + Limb <= Dword
<1> DEFINE m == 2^(2 * W + 1)
           k == 2^(W + 1)
<1>1. W \in Nat /\ Limb = 2^W /\ Limb \in Nat /\ Limb >= 4 /\ Word = 4 * Limb /\ Word \in Nat
      /\ Dword = Word * Word
  BY WidthsAre, WordIs
<1>2. 2 * W + 1 = W + (W + 1) /\ W + 1 \in Nat /\ 2 * W + 1 \in Nat
  BY <1>1
<1>3. k \in Nat /\ k = 2 * Limb
  BY <1>1, TwoTo
<1>4. m = Limb * k
  BY <1>1, <1>2, TwoToSum
<1>5. m \in Nat
  BY <1>1, <1>3, <1>4
<1> HIDE DEF m, k
<1>6. (4 * Limb) * (4 * Limb) = 16 * (Limb * Limb) /\ Limb * (2 * Limb) = 2 * (Limb * Limb)
      /\ Limb * Limb \in Nat
  BY <1>1
<1>7. Limb <= Limb * Limb
  <2>1. Limb - 1 \in Nat /\ Limb * (Limb - 1) \in Nat /\ Limb * Limb = Limb * (Limb - 1) + Limb
    BY <1>1
  <2> QED BY <2>1, <1>1
<1>8. Dword = 16 * (Limb * Limb) /\ m = 2 * (Limb * Limb)
  BY <1>1, <1>3, <1>4, <1>6
<1>9. Dword \in Nat \ {0} /\ m + Limb <= Dword
  BY <1>1, <1>6, <1>7, <1>8
<1> QED BY <1>1, <1>3, <1>4, <1>5, <1>9 DEF m, k

(* What is below 2^Bits has nothing above the bits of the top limb: nothing  *)
(* is subtracted, and bn_fast_mod changes nothing.                           *)
LEMMA FastModIs ==
  ASSUME NEW a, Normal(a), NEW p \in bignum256
  PROVE  FastMod(a, p) = a
<1> DEFINE m == 2^(2 * W + 1)
           k == 2^(W + 1)
           f == FastTerms(a, p)
<1>1. /\ m \in Nat /\ k \in Nat /\ m = Limb * k
      /\ Limb \in Nat \ {0} /\ Dword \in Nat \ {0} /\ m + Limb <= Dword
  BY CarryConstants
<1>2. L \in Nat /\ Limbs = 0..L /\ 0 \in Limbs /\ L \in Limbs
  BY LimbsAre
<1>3. a \in bignum256 /\ \A i \in Limbs : a[i] \in Nat /\ a[i] < Limb
  BY NormalIs DEF Normal
<1>4. coef(a[L]) = 0
  <2> DEFINE x == a[L]
             b == 2^T
  <2>1. x \in Nat /\ b \in Nat /\ x < b
    BY <1>2, <1>3, LimbsAre DEF Normal
  <2> HIDE DEF x, b
  <2>2. x \div b = 0
    BY <2>1
  <2> QED BY <2>2 DEF coef, Shr, x, b
<1>5. \A i \in 0..L : f[i] = m - (IF i = 0 THEN 0 ELSE k) + a[i]
  <2> TAKE i \in 0..L
  <2>1. f[i] = m - (IF i = 0 THEN 0 ELSE k) + a[i] - p[i] * coef(a[L])
    BY DEF FastTerms
  <2>2. p[i] \in Int /\ a[i] \in Int
    <3>1. p \in [Limbs -> 0..Word - 1] /\ a \in [Limbs -> 0..Word - 1] /\ i \in Limbs
      BY <1>2, <1>3 DEF bignum256
    <3>2. p[i] \in 0..Word - 1 /\ a[i] \in 0..Word - 1
      BY <3>1
    <3> QED BY <3>2, WordIs
  <2> DEFINE y == p[i]
             x == m - (IF i = 0 THEN 0 ELSE k) + a[i]
  <2>3. y \in Int /\ x \in Int
    <3> HIDE DEF m, k
    <3> QED BY <2>2, <1>1
  <2>4. f[i] = x - y * 0
    <3>1. m - (IF i = 0 THEN 0 ELSE k) + a[i] - p[i] * coef(a[L])
            = m - (IF i = 0 THEN 0 ELSE k) + a[i] - p[i] * 0
      BY <1>4
    <3>2. m - (IF i = 0 THEN 0 ELSE k) + a[i] - p[i] * 0 = x
      <4> HIDE DEF m, k
      <4> QED BY <2>2, <1>1
    <3>3. y * 0 = 0 /\ x - 0 = x
      <4> HIDE DEF x, y
      <4> QED BY <2>3
    <3> HIDE DEF x, y
    <3> QED BY <2>1, <3>1, <3>2, <3>3
  <2> HIDE DEF x, y, f
  <2>5. f[i] = x
    BY <2>3, <2>4
  <2> QED BY <2>5 DEF x
<1>6. f \in [0..L -> Int]
  <2>1. f = [i \in 0..L |-> f[i]]
    BY DEF FastTerms
  <2> HIDE DEF f, m, k
  <2>2. \A i \in 0..L : f[i] \in Int
    BY <1>1, <1>2, <1>3, <1>5
  <2> QED BY <2>1, <2>2
<1>7. PICK g : CarrySequence(g, f, 0, Dword) /\ FastMod(a, p) = Masked[g[L]]
  BY <1>3, <1>6, FastModUnfold
<1> HIDE DEF f, m, k
<1>8. PICK c : AreCarries(c, f, 0, Dword) /\ g[L] = FirstCarries(c, L)
  BY <1>1, <1>6, <1>7, CarrySequenceIs
<1>9. /\ c \in [0..L -> Nat]
      /\ c[0] = (0 + f[0]) % Dword
      /\ \A i \in 1..L : c[i] = (Shr(c[i - 1], W) + f[i]) % Dword
  BY <1>8 DEF AreCarries
<1>10. \A x \in Nat : x < Limb => /\ (m + x) % Dword = m + x
                                  /\ Low(m + x) = x /\ Shr(m + x, W) = k
  <2> SUFFICES ASSUME NEW x \in Nat, x < Limb
               PROVE  (m + x) % Dword = m + x /\ Low(m + x) = x /\ Shr(m + x, W) = k
    OBVIOUS
  <2>1. m + x \in Nat /\ m + x < Dword
    BY <1>1
  <2>2. (m + x) % Dword = m + x
    BY <2>1, <1>1
  <2>3. m + x = Limb * k + x
    BY <1>1
  <2>4. (m + x) \div Limb = k /\ (m + x) % Limb = x
    BY <2>1, <2>3, <1>1, DivIs
  <2> QED BY <2>2, <2>4 DEF Low, Shr, Limb
<1>11. ASSUME NEW n \in 0..L
       PROVE  c[n] = m + a[n]
  <2> DEFINE S == {i \in Nat : i <= L => c[i] = m + a[i]}
  <2>1. 0 \in S
    <3>1. c[0] = (0 + f[0]) % Dword /\ f[0] = m - 0 + a[0] /\ a[0] \in Nat /\ a[0] < Limb
      BY <1>2, <1>3, <1>5, <1>9
    <3>2. 0 + f[0] = m + a[0]
      BY <3>1, <1>1
    <3>3. c[0] = m + a[0]
      BY <3>1, <3>2, <1>10
    <3> QED BY <3>3
  <2>2. ASSUME NEW i \in Nat, i \in S
        PROVE  i + 1 \in S
    <3> SUFFICES ASSUME i + 1 <= L PROVE c[i + 1] = m + a[i + 1]
      OBVIOUS
    <3> DEFINE j == i + 1
    <3>1. j \in 1..L /\ j \in 0..L /\ j # 0 /\ j - 1 = i /\ i \in 0..L
      BY <1>2
    <3>2. c[i] = m + a[i]
      BY <2>2, <1>2
    <3> HIDE DEF j
    <3>3. Shr(c[i], W) = k
      <4>1. a[i] \in Nat /\ a[i] < Limb
        BY <1>2, <1>3, <3>1
      <4> QED BY <3>2, <4>1, <1>10
    <3>4. c[j] = (Shr(c[i], W) + f[j]) % Dword
      BY <1>9, <3>1
    <3>5. f[j] = m - k + a[j] /\ a[j] \in Nat /\ a[j] < Limb
      BY <1>2, <1>3, <1>5, <3>1
    <3>6. k + f[j] = m + a[j]
      BY <3>5, <1>1
    <3>7. c[j] = (m + a[j]) % Dword
      BY <3>3, <3>4, <3>6
    <3>8. c[j] = m + a[j]
      BY <3>5, <3>7, <1>10
    <3> QED BY <3>8 DEF j
  <2> HIDE DEF S
  <2>3. Nat \subseteq S
    BY <2>1, <2>2, Induct
  <2> QED BY <2>3, <1>2 DEF S
<1>12. FastMod(a, p) = [i \in Limbs |-> Low(c[i])]
  BY <1>7, <1>8, <1>9, MaskedIs
<1>13. \A i \in Limbs : Low(c[i]) = a[i]
  BY <1>2, <1>3, <1>10, <1>11
<1>14. [i \in Limbs |-> Low(c[i])] = [i \in Limbs |-> a[i]]
  BY <1>13
<1>15. a = [i \in Limbs |-> a[i]]
  BY <1>3 DEF bignum256
<1> QED BY <1>12, <1>14, <1>15

(* The terms of a difference.                                                *)
DifferenceTerms(a, b) == [i \in 0..L |-> Limb - 1 + a[i] - b[i]]

(* The subtraction adds them up with a carry of 1.                           *)
LEMMA DifferenceUnfold ==
  ASSUME NEW a, NEW b, DifferenceTerms(a, b) \in [0..L -> Int]
  PROVE  \E g : CarrySequence(g, DifferenceTerms(a, b), 1, Word)
                /\ Minus(a, b) = Masked[g[L]]
<1> DEFINE Fix(g) ==
             g = [i \in 0..L |->
                    IF i = 0
                    THEN <<U32(1 + (Limb - 1 + a[0] - b[0]))>>
                    ELSE LET done == g[i - 1]
                         IN  Append(done, U32(Shr(done[i], W) + (Limb - 1 + a[i] - b[i])))]
           g == CHOOSE h : Fix(h)
           f == DifferenceTerms(a, b)
<1>1. \A i \in 0..L : f[i] = Limb - 1 + a[i] - b[i]
  BY DEF DifferenceTerms
<1>2. 0 \in 0..L
  BY LimbsAre
<1>3. f[0] = Limb - 1 + a[0] - b[0]
  BY <1>1, <1>2
<1> HIDE DEF f
<1>4. ASSUME NEW h, CarrySequence(h, f, 1, Word)
      PROVE  Fix(h)
  BY <1>1, <1>3, <1>4 DEF CarrySequence, U32
<1>5. ASSUME NEW h, Fix(h)
      PROVE  CarrySequence(h, f, 1, Word)
  BY <1>1, <1>3, <1>5 DEF CarrySequence, U32
<1>6. \E h : CarrySequence(h, f, 1, Word)
  <2>1. Word \in Nat \ {0} /\ 1 \in Int
    BY WordIs
  <2> QED BY <2>1, CarrySequenceExists DEF f
<1>7. \E h : Fix(h)
  BY <1>4, <1>6
<1> HIDE DEF Fix
<1>8. Fix(g)
  BY <1>7
<1>9. CarrySequence(g, f, 1, Word)
  BY <1>5, <1>8
<1>10. Minus(a, b) = Masked[g[L]]
  BY DEF Minus, Sum, Carries, g, Fix
<1> QED BY <1>9, <1>10 DEF f

(* One limb of a difference.                                                 *)
LimbDifference(k, x, y, e, z) ==
  /\ k \in {0, 1} /\ x \in 0..Limb - 1 /\ y \in 0..Limb - 1
  /\ e = k + (Limb - 1 + x - y) /\ z = e % Word

(* It leaves a limb and a carry.                                             *)
LEMMA DifferenceStep ==
  ASSUME NEW k, NEW x, NEW y, NEW e, NEW z, LimbDifference(k, x, y, e, z)
  PROVE  /\ Low(z) \in 0..Limb - 1 /\ Shr(z, W) \in {0, 1}
         /\ Low(z) + Limb * Shr(z, W) = e
<1>1. Word \in Nat /\ Limb \in Nat /\ Limb >= 4 /\ Word = 4 * Limb
  BY WordIs
<1>2. e \in Nat /\ e < 2 * Limb
  BY <1>1 DEF LimbDifference
<1>3. z = e
  BY <1>1, <1>2 DEF LimbDifference
<1>4. e \div Limb \in Nat /\ e % Limb \in Nat /\ e % Limb < Limb
      /\ e = Limb * (e \div Limb) + (e % Limb)
  BY <1>1, <1>2, RemainderIs
<1> DEFINE h == e \div Limb
           l == e % Limb
<1>5. h \in Nat /\ l \in Nat /\ l < Limb /\ e = Limb * h + l
  BY <1>4
<1>6. Shr(z, W) = h /\ Low(z) = l
  BY <1>3 DEF Shr, Low, Limb
<1> HIDE DEF h, l
<1>7. h \in {0, 1}
  <2> SUFFICES ASSUME h >= 2 PROVE FALSE
    BY <1>5
  <2>1. h - 2 \in Nat /\ Limb * (h - 2) \in Nat /\ Limb * h = Limb * (h - 2) + Limb * 2
    BY <1>1, <1>5
  <2> QED BY <2>1, <1>1, <1>2, <1>5
<1>8. Low(z) \in 0..Limb - 1 /\ Shr(z, W) \in {0, 1} /\ Low(z) + Limb * Shr(z, W) = e
  <2>1. Limb * h \in Nat
    BY <1>1, <1>5
  <2>2. l + Limb * h = e /\ l \in 0..Limb - 1
    BY <2>1, <1>1, <1>5
  <2> QED BY <2>2, <1>6, <1>7
<1> QED BY <1>8

(* How much the limbs below i are ahead.                                     *)
Ahead(c) == [i \in Nat |-> IF i = 0 THEN 0 ELSE IF i <= L + 1 THEN Shr(c[i - 1], W) - 1 ELSE 0]

(* The subtraction is one, when it does not go below 0.                      *)
LEMMA DifferenceIs ==
  ASSUME NEW a, NEW b, Normal(a), Normal(b), Value(b) <= Value(a)
  PROVE  Normal(Minus(a, b)) /\ Value(Minus(a, b)) = Value(a) - Value(b)
<1> DEFINE f == DifferenceTerms(a, b)
           d == Minus(a, b)
<1>1. L \in Nat /\ Limbs = 0..L /\ 0 \in Limbs /\ L \in Limbs /\ L + 1 \in Nat /\ W \in Nat
  BY LimbsAre, WidthsAre
<1>2. Word \in Nat \ {0} /\ Limb \in Nat /\ Limb >= 4 /\ Word = 4 * Limb
  BY WordIs
<1>3. \A i \in Limbs : a[i] \in 0..Limb - 1 /\ b[i] \in 0..Limb - 1
  BY NormalIs
<1>4. \A i \in 0..L : f[i] = Limb - 1 + a[i] - b[i]
  BY DEF DifferenceTerms
<1>5. f \in [0..L -> Int]
  <2>1. f = [i \in 0..L |-> f[i]]
    BY DEF DifferenceTerms
  <2> HIDE DEF f
  <2>2. \A i \in 0..L : f[i] \in Int
    <3> TAKE i \in 0..L
    <3> DEFINE x == a[i]
               y == b[i]
    <3>1. x \in Int /\ y \in Int /\ f[i] = Limb - 1 + x - y
      BY <1>1, <1>2, <1>3, <1>4
    <3> HIDE DEF f, x, y
    <3> QED BY <1>2, <3>1
  <2> QED BY <2>1, <2>2
<1>6. PICK g : CarrySequence(g, f, 1, Word) /\ d = Masked[g[L]]
  BY <1>5, DifferenceUnfold
<1> HIDE DEF f
<1>7. PICK c : AreCarries(c, f, 1, Word) /\ g[L] = FirstCarries(c, L)
  <2>1. 1 \in Int
    OBVIOUS
  <2> QED BY <2>1, <1>2, <1>5, <1>6, CarrySequenceIs
<1>8. /\ c \in [0..L -> Nat]
      /\ c[0] = (1 + f[0]) % Word
      /\ \A i \in 1..L : c[i] = (Shr(c[i - 1], W) + f[i]) % Word
  BY <1>7 DEF AreCarries
<1>9. d = [i \in Limbs |-> Low(c[i])]
  BY <1>6, <1>7, <1>8, MaskedIs
<1> HIDE DEF d
<1> DEFINE o == Ahead(c)
           in(i) == IF i = 0 THEN 1 ELSE Shr(c[i - 1], W)
<1>10. \A i \in 0..L : c[i] = (in(i) + f[i]) % Word
  BY <1>1, <1>8
<1>11. ASSUME NEW i \in 0..L, in(i) \in {0, 1}
       PROVE  /\ Low(c[i]) \in 0..Limb - 1 /\ Shr(c[i], W) \in {0, 1}
              /\ Low(c[i]) + Limb * Shr(c[i], W) = in(i) + f[i]
  <2> DEFINE k == in(i)
             x == a[i]
             y == b[i]
  <2>1. k \in {0, 1} /\ x \in 0..Limb - 1 /\ y \in 0..Limb - 1
    BY <1>1, <1>3, <1>11
  <2>2. c[i] = (k + f[i]) % Word /\ f[i] = Limb - 1 + x - y
    BY <1>4, <1>10
  <2> DEFINE e == k + f[i]
             j == c[i]
  <2>3. e = k + (Limb - 1 + x - y) /\ j = e % Word
    BY <2>2
  <2> HIDE DEF k, x, y, e, j
  <2>4. /\ Low(j) \in 0..Limb - 1 /\ Shr(j, W) \in {0, 1}
        /\ Low(j) + Limb * Shr(j, W) = e
    <3>1. LimbDifference(k, x, y, e, j)
      BY <2>1, <2>3 DEF LimbDifference
    <3> QED BY <3>1, DifferenceStep
  <2> QED BY <2>4 DEF k, e, j
<1>12. \A i \in 0..L : in(i) \in {0, 1}
  <2> DEFINE S == {i \in Nat : i <= L => in(i) \in {0, 1}}
  <2>1. 0 \in S
    OBVIOUS
  <2>2. ASSUME NEW i \in Nat, i \in S
        PROVE  i + 1 \in S
    <3> SUFFICES ASSUME i + 1 <= L PROVE in(i + 1) \in {0, 1}
      BY DEF S
    <3>1. i \in 0..L /\ i + 1 # 0 /\ (i + 1) - 1 = i
      BY <1>1
    <3>2. in(i) \in {0, 1}
      BY <2>2, <1>1, <3>1
    <3>3. Shr(c[i], W) \in {0, 1}
      BY <3>1, <3>2, <1>11
    <3>4. in(i + 1) = Shr(c[i], W)
      BY <3>1
    <3> QED BY <3>3, <3>4
  <2> HIDE DEF S
  <2>3. Nat \subseteq S
    BY <2>1, <2>2, Induct
  <2> QED BY <2>3, <1>1 DEF S
<1>13. \A i \in 0..L : /\ o[i] = in(i) - 1 /\ o[i + 1] = Shr(c[i], W) - 1
                       /\ o[i] \in {0, -1} /\ o[i + 1] \in {0, -1}
  <2> SUFFICES ASSUME NEW i \in 0..L
               PROVE  /\ o[i] = in(i) - 1 /\ o[i + 1] = Shr(c[i], W) - 1
                      /\ o[i] \in {0, -1} /\ o[i + 1] \in {0, -1}
    OBVIOUS
  <2>1. i \in Nat /\ i <= L + 1 /\ i + 1 \in Nat /\ i + 1 # 0 /\ i + 1 <= L + 1 /\ (i + 1) - 1 = i
    BY <1>1
  <2>2. o[i] = in(i) - 1
    BY <2>1 DEF Ahead
  <2>3. o[i + 1] = Shr(c[i], W) - 1
    BY <2>1 DEF Ahead
  <2>4. in(i) \in {0, 1} /\ Shr(c[i], W) \in {0, 1}
    BY <1>11, <1>12
  <2> HIDE DEF in, o
  <2> QED BY <2>2, <2>3, <2>4
<1>14. o \in [Nat -> Int]
  <2>1. ASSUME NEW i \in Nat
        PROVE  (IF i = 0 THEN 0 ELSE IF i <= L + 1 THEN Shr(c[i - 1], W) - 1 ELSE 0) \in Int
    <3>1. CASE i = 0 \/ i > L + 1
      BY <3>1, <1>1
    <3>2. CASE i # 0 /\ i <= L + 1
      <4>1. i - 1 \in 0..L
        BY <3>2, <1>1
      <4>2. Shr(c[i - 1], W) \in {0, 1}
        BY <4>1, <1>11, <1>12
      <4>3. Shr(c[i - 1], W) - 1 \in Int
        BY <4>2
      <4> QED BY <3>2, <4>3
    <3> QED BY <3>1, <3>2, <1>1
  <2> QED BY <2>1 DEF Ahead
<1>15. o[0] = 0
  BY DEF Ahead
<1> HIDE DEF o
<1>16. /\ d \in [Limbs -> Nat]
       /\ \A i \in Limbs : d[i] < Limb /\ d[i] = Low(c[i]) /\ d[i] \in 0..Limb - 1
  <2>1. \A i \in Limbs : d[i] = Low(c[i]) /\ Low(c[i]) \in 0..Limb - 1
    BY <1>1, <1>9, <1>11, <1>12
  <2>2. \A i \in Limbs : d[i] \in Nat /\ d[i] < Limb
    BY <2>1, <1>2
  <2> QED BY <1>9, <2>1, <2>2
<1> DEFINE z == LimbsOf(d)
           x == LimbsOf(a)
           y == LimbsOf(b)
           n == L + 1
           one == 1
           minus == -1
<1>17. /\ z \in [Nat -> Int] /\ x \in [Nat -> Int] /\ y \in [Nat -> Int]
       /\ \A i \in Limbs : z[i] = d[i] /\ x[i] = a[i] /\ y[i] = b[i]
       /\ Worth(LimbPowers, z)[n] = Value(d) /\ Worth(LimbPowers, x)[n] = Value(a)
       /\ Worth(LimbPowers, y)[n] = Value(b) /\ Value(a) \in Nat /\ Value(b) \in Nat
       /\ Value(a) < 2^Bits
  BY <1>16, LimbsOfAre, ValueIs, NormalIs
<1>18. z \in [Nat -> 0..Limb - 1]
  <2>1. ASSUME NEW i \in Nat
        PROVE  (IF i <= L THEN d[i] ELSE 0) \in 0..Limb - 1
    <3>1. CASE i <= L
      <4>1. i \in Limbs
        BY <3>1, <1>1
      <4> QED BY <3>1, <4>1, <1>16
    <3>2. CASE ~(i <= L)
      BY <3>2, <1>2
    <3> QED BY <3>1, <3>2
  <2> QED BY <2>1 DEF LimbsOf
<1> HIDE DEF z, x, y, in
<1>19. Carried(Limb, o, one, z, one, x, minus, y, n)
  <2> SUFFICES ASSUME NEW i \in 0..n - 1
               PROVE  one * z[i] + Limb * o[i + 1] = one * x[i] + minus * y[i] + o[i]
    BY DEF Carried
  <2>1. i \in 0..L /\ i \in Limbs
    BY <1>1
  <2> DEFINE h == Shr(c[i], W)
             k == in(i)
             l == z[i]
             A == x[i]
             B == y[i]
             P == o[i]
             Q == o[i + 1]
  <2>2. /\ l = Low(c[i]) /\ h \in {0, 1} /\ l + Limb * h = k + f[i] /\ k \in {0, 1}
        /\ l \in 0..Limb - 1
    BY <2>1, <1>11, <1>12, <1>16, <1>17
  <2>3. P = k - 1 /\ Q = h - 1 /\ f[i] = Limb - 1 + A - B
        /\ A \in 0..Limb - 1 /\ B \in 0..Limb - 1
    BY <2>1, <1>3, <1>4, <1>13, <1>17
  <2> HIDE DEF h, k, l, A, B, P, Q
  <2>4. one * l + Limb * Q = one * A + minus * B + P
    <3>1. CASE h = 0
      BY <3>1, <2>2, <2>3, <1>2
    <3>2. CASE h = 1
      BY <3>2, <2>2, <2>3, <1>2
    <3> QED BY <3>1, <3>2, <2>2
  <2> QED BY <2>4 DEF l, A, B, P, Q
<1>20. IsPowers(LimbPowers, Limb) /\ one \in Int /\ minus \in Int /\ n \in Nat
  BY <1>1, LimbPowersAre
<1>21. Worth(LimbPowers, z)[n] \in Nat /\ Worth(LimbPowers, z)[n] < LimbPowers[n]
  BY <1>18, <1>20, WorthBounds
<1>22. LimbPowers[n] \in Nat /\ o[n] \in {0, -1}
  BY <1>1, <1>13, LimbPowersAre
<1> HIDE DEF n, one, minus
<1>23. one * Worth(LimbPowers, z)[n] + LimbPowers[n] * o[n]
         = one * Worth(LimbPowers, x)[n] + minus * Worth(LimbPowers, y)[n] + o[0]
  BY <1>14, <1>17, <1>19, <1>20, WorthCarry
<1> DEFINE V == Value(d)
           A == Value(a)
           B == Value(b)
           q == LimbPowers[n]
           h == o[n]
<1>24. V \in Nat /\ V < q /\ A \in Nat /\ B \in Nat /\ B <= A /\ q \in Nat /\ h \in {0, -1}
       /\ 1 * V + q * h = 1 * A + -1 * B + 0
  BY <1>15, <1>17, <1>21, <1>22, <1>23 DEF one, minus
<1> HIDE DEF V, A, B, q, h
<1>25. V = A - B
  <2>1. CASE h = 0
    BY <2>1, <1>24
  <2>2. CASE h = -1
    BY <2>2, <1>24
  <2> QED BY <2>1, <2>2, <1>24
<1>26. Value(d) = Value(a) - Value(b)
  BY <1>25 DEF V, A, B
<1>27. Value(d) < 2^Bits
  <2>1. 2^Bits \in Nat
    BY BitsAre, WordPowersAre, <1>1
  <2> QED BY <2>1, <1>17, <1>26
<1>28. Normal(d)
  BY <1>16, <1>27, TopFits
<1> QED BY <1>26, <1>28 DEF d

(* Mod, of what is below twice the prime.                                    *)
LEMMA ModIs ==
  ASSUME NEW a, NEW p, Normal(a), Normal(p), Value(a) < 2 * Value(p)
  PROVE  Normal(Mod(a, p)) /\ Value(Mod(a, p)) = Value(a) % Value(p)
<1>1. Value(a) \in Nat /\ Value(p) \in Nat
  BY NormalIs
<1>2. CASE bn_is_less(a, p)
  <2>1. Mod(a, p) = a /\ Value(a) < Value(p)
    BY <1>2, IsLessIs DEF Mod, bn_cmov
  <2>2. Value(a) % Value(p) = Value(a)
    BY <2>1, <1>1
  <2> QED BY <2>1, <2>2
<1>3. CASE ~bn_is_less(a, p)
  <2>1. Mod(a, p) = Minus(a, p) /\ Value(p) <= Value(a)
    BY <1>1, <1>3, IsLessIs DEF Mod, bn_cmov
  <2>2. Normal(Mod(a, p)) /\ Value(Mod(a, p)) = Value(a) - Value(p)
    BY <2>1, DifferenceIs
  <2> DEFINE x == Value(a)
             d == Value(p)
  <2>3. /\ x \in Nat /\ d \in Nat \ {0} /\ 1 \in Int /\ x - d \in Nat /\ x - d < d
        /\ x = d * 1 + (x - d)
    BY <1>1, <2>1
  <2> HIDE DEF x, d
  <2>4. x % d = x - d
    BY <2>3, DivIs
  <2> QED BY <2>2, <2>4 DEF x, d
<1> QED BY <1>2, <1>3

-----------------------------------------------------------------------------
(* The prime.                                                                *)
LEMMA PrimeIs ==
  /\ Prime \in Nat /\ Prime > 1 /\ Prime % 2 = 1
  /\ 2^Bits \in Nat /\ Prime < 2^Bits /\ 2^Bits < 2 * Prime
  /\ WordPowers[L - 1] \in Nat /\ WordPowers[L - 1] < Prime
  /\ \A d \in 2..Prime - 1 : Prime % d # 0
<1> DEFINE b == 2^Bits
           e == Bits - W - 2
           y == 2^e
<1>1. L - 1 \in Nat /\ W \in Nat /\ Bits \in Nat /\ W + 2 \in Nat /\ Word >= 16 /\ Word \in Nat
      /\ (L - 1) + 1 = L
  BY WidthsAre, WordIs, BitsAre
<1>2. Bits = (W + 2) * (L - 1) + (W + 2) /\ (W + 2) * (L - 1) \in Nat
  <2> DEFINE o == L - 1
  <2>1. o \in Nat /\ L = o + 1 /\ Bits = L * W + 2 * L
    BY <1>1 DEF Bits, T
  <2> HIDE DEF o
  <2>2. (o + 1) * W + 2 * (o + 1) = (W + 2) * o + (W + 2) /\ (W + 2) * o \in Nat
    BY <2>1, <1>1
  <2> QED BY <2>1, <2>2 DEF o
<1>3. e \in Nat /\ e < Bits /\ e = (W + 2) * (L - 1)
  <2> DEFINE x == (W + 2) * (L - 1)
  <2>1. x \in Nat /\ Bits = x + (W + 2)
    BY <1>2
  <2> HIDE DEF x
  <2>2. e = x /\ x < Bits
    BY <2>1, <1>1
  <2> QED BY <2>1, <2>2 DEF x
<1>4. y \in Nat \ {0} /\ b \in Nat \ {0} /\ WordPowers[L - 1] = y
  BY <1>1, <1>3, TwoTo, WordPowersAre
<1>5. 2 * y <= b
  BY <1>1, <1>3, TwoToGrows
<1>6. /\ Prime \in b - y + 1..b - 1 /\ Prime % 2 = 1
      /\ \A d \in 2..Prime - 1 : Prime % d # 0
  BY LimbInverseAssumption
<1> HIDE DEF b, y
<1>7. Prime \in Nat /\ Prime < b /\ b < 2 * Prime /\ y < Prime /\ Prime > 1
  BY <1>4, <1>5, <1>6
<1> QED BY <1>4, <1>6, <1>7 DEF b, y

(* It has no factors.                                                        *)
LEMMA PrimeDivisors ==
  ASSUME NEW a \in Nat, NEW b \in Nat, a * b = Prime
  PROVE  a = 1 \/ a = Prime
<1>1. Prime \in Nat /\ Prime > 1 /\ \A d \in 2..Prime - 1 : Prime % d # 0
  BY PrimeIs
<1>2. SUFFICES ASSUME a # 1, a # Prime PROVE FALSE
  OBVIOUS
<1>3. a # 0 /\ b # 0
  BY <1>1
<1>4. a <= Prime
  <2>1. b - 1 \in Nat /\ a * (b - 1) \in Nat /\ a * b = a * (b - 1) + a
    BY <1>3
  <2> QED BY <2>1
<1>5. a \in 2..Prime - 1
  BY <1>1, <1>2, <1>3, <1>4
<1>6. Prime = a * b + 0 /\ a \in Nat \ {0} /\ b \in Int /\ 0 \in Nat /\ 0 < a
  BY <1>1, <1>3
<1>7. Prime % a = 0
  BY <1>1, <1>6, DivIs
<1> QED BY <1>1, <1>5, <1>7

(* It has none in common with a power of two.                                *)
LEMMA OddIsCoprime ==
  ASSUME NEW n \in Nat
  PROVE  \E a, b \in Int : a * 2^n + b * Prime = 1
<1> DEFINE S == {j \in Nat : \E a, b \in Int : a * 2^j + b * Prime = 1}
<1>1. Prime \in Nat /\ Prime % 2 = 1
  BY PrimeIs
<1>2. PICK m \in Nat : Prime = 2 * m + 1
  <2>1. Prime \div 2 \in Nat /\ Prime = 2 * (Prime \div 2) + 1
    BY <1>1
  <2> QED BY <2>1
<1>3. 0 \in S
  <2>1. 1 * 2^0 + 0 * Prime = 1
    BY <1>1, TwoTo
  <2>2. 1 \in Int /\ 0 \in Int
    OBVIOUS
  <2> QED BY <2>1, <2>2
<1>4. ASSUME NEW j \in Nat, j \in S
      PROVE  j + 1 \in S
  <2>1. PICK a, b \in Int : a * 2^j + b * Prime = 1
    BY <1>4
  <2> DEFINE p == 2^j
             c == -(a * m)
             d == a * p + b
  <2>2. p \in Nat /\ 2^(j + 1) = 2 * p
    BY TwoTo
  <2>3. a * p + b * Prime = 1
    BY <2>1
  <2> HIDE DEF p
  <2>4. c \in Int /\ d \in Int
    BY <2>2
  <2>5. c * (2 * p) + d * Prime = 1
    <3>1. c * (2 * p) = -((a * p) * (2 * m))
      BY <1>2, <2>2
    <3>2. d * Prime = (a * p) * (2 * m + 1) + b * Prime
      BY <1>1, <1>2, <2>2
    <3> DEFINE x == a * p
               y == b * Prime
               z == x * (2 * m)
               w == c * (2 * p)
               o == d * Prime
    <3>3. x \in Int /\ y \in Int /\ z \in Int /\ x + y = 1 /\ w = -z /\ o = x * (2 * m + 1) + y
      BY <3>1, <3>2, <1>1, <1>2, <2>2, <2>3
    <3> HIDE DEF w, o, y
    <3>4. x * (2 * m + 1) = z + x
      <4> HIDE DEF x
      <4> QED BY <3>3, <1>2
    <3> HIDE DEF x, z
    <3>5. w + o = 1
      BY <3>3, <3>4
    <3> QED BY <3>5 DEF w, o
  <2>6. c * 2^(j + 1) + d * Prime = 1
    BY <2>2, <2>5
  <2> HIDE DEF c, d
  <2>7. \E y, z \in Int : y * 2^(j + 1) + z * Prime = 1
    BY <2>4, <2>6
  <2>8. j + 1 \in Nat
    OBVIOUS
  <2> QED BY <2>7, <2>8 DEF S
<1> HIDE DEF S
<1>5. Nat \subseteq S
  BY <1>3, <1>4, Induct
<1> QED BY <1>5 DEF S

-----------------------------------------------------------------------------
(* Numbers of the same words are the same.                                   *)
Agree(f, h, n) ==
  /\ f \in [Nat -> Int] /\ h \in [Nat -> Int] /\ n \in Nat
  /\ \A i \in 0..n - 1 : f[i] = h[i]

(* They are worth the same.                                                  *)
LEMMA AgreeWorth ==
  ASSUME NEW f, NEW h, NEW n, Agree(f, h, n)
  PROVE  Worth(WordPowers, f)[n] = Worth(WordPowers, h)[n]
<1> DEFINE x == Worth(WordPowers, f)
           y == Worth(WordPowers, h)
           S == {m \in Nat : m <= n => x[m] = y[m]}
<1>1. f \in [Nat -> Int] /\ h \in [Nat -> Int] /\ n \in Nat /\ \A i \in 0..n - 1 : f[i] = h[i]
  BY DEF Agree
<1>2. IsPowers(WordPowers, Word)
  BY WordPowersAre
<1>3. x[0] = 0 /\ \A m \in Nat : x[m + 1] = x[m] + f[m] * WordPowers[m]
  BY <1>1, <1>2, WorthStep
<1>4. y[0] = 0 /\ \A m \in Nat : y[m + 1] = y[m] + h[m] * WordPowers[m]
  BY <1>1, <1>2, WorthStep
<1> HIDE DEF x, y
<1>5. 0 \in S
  BY <1>3, <1>4
<1>6. ASSUME NEW m \in Nat, m \in S PROVE m + 1 \in S
  <2> SUFFICES ASSUME m + 1 <= n PROVE x[m + 1] = y[m + 1]
    OBVIOUS
  <2>1. m \in 0..n - 1 /\ m <= n
    BY <1>1
  <2>2. f[m] = h[m] /\ x[m] = y[m]
    BY <1>1, <1>6, <2>1
  <2> QED BY <2>2, <1>3, <1>4
<1> HIDE DEF S
<1>7. n \in S
  BY <1>1, <1>5, <1>6, Induct
<1> QED BY <1>1, <1>7 DEF S, x, y

(* A register with a number of L words and a last one.                       *)
LoadedWith(w, last) ==
  [a |-> [i \in Limbs |-> IF i = L THEN last ELSE w[i]], len1 |-> L]

IsLoaded(c, w, last) ==
  /\ c \in Combo /\ c.len1 = L
  /\ First(c) = Worth(WordPowers, WordsOf(w))[L] /\ Second(c) = last
  /\ \A i \in 0..L - 1 : c.a[i] = w[i]

(* Its first number is that of the words, its second one the last.           *)
LEMMA LoadedIs ==
  ASSUME NEW w \in [0..L - 1 -> 0..Word - 1], NEW last \in Nat, last < 2,
         WordsOf(w) \in [Nat -> Int]
  PROVE  IsLoaded(LoadedWith(w, last), w, last)
<1> DEFINE c == LoadedWith(w, last)
<1>1. L \in Nat /\ L - 1 \in Nat /\ Limbs = 0..L /\ L \in Limbs /\ L \in 0..L
  BY LimbsAre, WidthsAre
<1>2. Word \in Nat /\ Word >= 16
  BY WordIs
<1> DEFINE f == [i \in Limbs |-> IF i = L THEN last ELSE w[i]]
<1>3. f \in [Limbs -> 0..Word - 1]
  <2>1. ASSUME NEW i \in Limbs
        PROVE  (IF i = L THEN last ELSE w[i]) \in 0..Word - 1
    <3>1. CASE i = L
      BY <3>1, <1>2
    <3>2. CASE i # L
      <4>1. i \in 0..L - 1
        BY <3>2, <1>1
      <4>2. w[i] \in 0..Word - 1
        BY <4>1
      <4> QED BY <3>2, <4>2
    <3> QED BY <3>1, <3>2
  <2> QED BY <2>1
<1>4. c.a = f /\ c.len1 = L /\ c = [a |-> f, len1 |-> L]
  BY DEF LoadedWith
<1> HIDE DEF c
<1>5. \A i \in 0..L - 1 : f[i] = w[i]
  BY <1>1
<1>6. f[L] = last
  BY <1>1
<1> HIDE DEF f
<1>7. c \in Combo
  BY <1>1, <1>3, <1>4 DEF Combo
<1>8. First(c) = Worth(WordPowers, WordsOf(w))[L]
  <2> DEFINE x == LowWords(c)
             y == WordsOf(w)
  <2>1. x \in [Nat -> Int] /\ \A i \in Nat : x[i] = IF i < L THEN c.a[i] ELSE 0
    BY <1>4, <1>7, LowWordsAre
  <2>2. \A i \in 0..L - 1 : x[i] = y[i]
    <3> SUFFICES ASSUME NEW i \in 0..L - 1 PROVE x[i] = y[i]
      OBVIOUS
    <3>1. i \in Nat /\ i < L
      BY <1>1
    <3>2. x[i] = f[i]
      BY <2>1, <3>1, <1>4
    <3>3. y[i] = w[i]
      BY <3>1 DEF WordsOf
    <3> QED BY <3>2, <3>3, <1>5
  <2>3. Worth(WordPowers, x)[L] = First(c)
    BY <1>1, <1>4, <1>7, FirstIs
  <2>4. IsPowers(WordPowers, Word) /\ y \in [Nat -> Int] /\ L \in Nat
    BY <1>1, WordPowersAre
  <2> DEFINE m == L
  <2> HIDE DEF x, y
  <2>5. x \in [Nat -> Int]
    BY <2>1
  <2>6. m \in Nat /\ \A i \in 0..m - 1 : x[i] = y[i]
    BY <2>2, <1>1
  <2> HIDE DEF m
  <2>7. Worth(WordPowers, x)[m] = Worth(WordPowers, y)[m]
    <3>1. Agree(x, y, m)
      BY <2>4, <2>5, <2>6 DEF Agree
    <3> QED BY <3>1, AgreeWorth
  <2> QED BY <2>3, <2>7 DEF y, m
<1>9. Second(c) = last
  <2> DEFINE x == HighWords(c)
  <2>1. x \in [Nat -> Int] /\ \A i \in Nat : x[i] = IF i + L <= L THEN c.a[L - i] ELSE 0
    BY <1>4, <1>7, HighWordsAre
  <2>2. x[0] = last
    <3>1. 0 + L <= L /\ L - 0 = L
      BY <1>1
    <3>2. x[0] = c.a[L - 0]
      <4> HIDE DEF x
      <4> QED BY <2>1, <3>1
    <3> QED BY <3>1, <3>2, <1>4, <1>6
  <2>3. Worth(WordPowers, x)[1] = Second(c)
    <3>1. 1 \in Nat /\ 1 + c.len1 >= L + 1
      BY <1>1, <1>4
    <3> QED BY <3>1, <1>7, SecondIs
  <2> HIDE DEF x
  <2>4. IsPowers(WordPowers, Word) /\ x \in [Nat -> Int] /\ 0 \in Nat
    BY <2>1, WordPowersAre
  <2>5. Worth(WordPowers, x)[0] = 0
    BY <2>4, WorthStep
  <2>6. Worth(WordPowers, x)[0 + 1] = Worth(WordPowers, x)[0] + x[0] * WordPowers[0]
    BY <2>4, WorthStep
  <2>7. WordPowers[0] = 1
    BY <2>4 DEF IsPowers
  <2> QED BY <2>2, <2>3, <2>5, <2>6, <2>7
<1>10. \A i \in 0..L - 1 : c.a[i] = w[i]
  BY <1>4, <1>5
<1> QED BY <1>4, <1>7, <1>8, <1>9, <1>10 DEF IsLoaded, c

(* What the loop starts with.                                                *)
Loaded(st0, n) ==
  /\ st0 \in Registers /\ st0.k = 0 /\ st0.even = "vr"
  /\ First(st0.us) = Prime /\ Second(st0.us) = 1
  /\ First(st0.vr) = n % Prime /\ Second(st0.vr) = 0
  /\ TopIsNotZero(st0.us) /\ st0.us.a[0] % 2 = 1

(* The prime in limbs.                                                       *)
LEMMA PrimeInLimbs ==
  Normal(prime) /\ Value(prime) = Prime
BY PrimeIs, OfIs DEF prime

(* Load makes it, for any number of Bits bits.                               *)
LEMMA LoadIs ==
  ASSUME NEW n \in Nat, n < 2^Bits
  PROVE  Loaded(Load(Of(n), prime), n)
<1> DEFINE partly == FastMod(Of(n), prime)
           reduced == Mod(partly, prime)
           wp == Words(prime)
           wr == Words(reduced)
           cu == LoadedWith(wp, 1)
           cv == LoadedWith(wr, 0)
<1>1. Load(Of(n), prime) = [us |-> cu, vr |-> cv, k |-> 0, even |-> "vr"]
  BY DEF Load, LoadedWith
<1>2. Normal(prime) /\ Value(prime) = Prime /\ prime \in bignum256
  BY PrimeInLimbs, NormalIs
<1>3. partly = Of(n) /\ Normal(partly) /\ Value(partly) = n
  BY <1>2, OfIs, FastModIs
<1> HIDE DEF partly
<1>4. Normal(reduced) /\ Value(reduced) = n % Prime
  <2>1. Value(partly) < 2 * Value(prime)
    BY <1>2, <1>3, PrimeIs
  <2> QED BY <2>1, <1>2, <1>3, ModIs
<1> HIDE DEF reduced
<1>5. /\ wp \in [0..L - 1 -> 0..Word - 1] /\ WordsOf(wp) \in [Nat -> Int]
      /\ Worth(WordPowers, WordsOf(wp))[L] = Prime
  BY <1>2, WordsAre DEF Normal
<1>6. /\ wr \in [0..L - 1 -> 0..Word - 1] /\ WordsOf(wr) \in [Nat -> Int]
      /\ Worth(WordPowers, WordsOf(wr))[L] = n % Prime
  BY <1>4, WordsAre DEF Normal
<1>7. wp[0] % 2 = 1
  <2>1. /\ prime \in [Limbs -> Nat] /\ (\A i \in Limbs : prime[i] < Limb) /\ prime[L] < 2^T
        /\ Value(prime) % 2 = 1
    BY <1>2, PrimeIs DEF Normal
  <2> QED BY <2>1, LowestWordOdd
<1> HIDE DEF wp, wr
<1>8. /\ cu \in Combo /\ cu.len1 = L /\ First(cu) = Prime /\ Second(cu) = 1
      /\ \A i \in 0..L - 1 : cu.a[i] = wp[i]
  <2>1. IsLoaded(cu, wp, 1)
    BY <1>5, LoadedIs
  <2> HIDE DEF cu
  <2> QED BY <2>1, <1>5 DEF IsLoaded
<1>9. /\ cv \in Combo /\ First(cv) = n % Prime /\ Second(cv) = 0
  <2>1. IsLoaded(cv, wr, 0)
    BY <1>6, LoadedIs
  <2> HIDE DEF cv
  <2> QED BY <2>1, <1>6 DEF IsLoaded
<1> HIDE DEF cu, cv
<1>10. L - 1 \in 0..L - 1 /\ 0 \in 0..L - 1 /\ L - 1 \in Nat /\ (L - 1) + 1 = L /\ L >= 1
  BY WidthsAre
<1>11. cu.a[0] % 2 = 1
  BY <1>7, <1>8, <1>10
<1>12. TopIsNotZero(cu)
  <2> SUFFICES ASSUME cu.a[L - 1] = 0 PROVE FALSE
    BY <1>8, <1>10 DEF TopIsNotZero
  <2> DEFINE o == L - 1
             f == LowWords(cu)
  <2>1. f \in [Nat -> Int] /\ f \in [Nat -> 0..Word - 1] /\ f[o] = 0
    <3>1. o \in Nat /\ o < L
      BY <1>10
    <3> QED BY <3>1, <1>8, LowWordsAre
  <2>2. Worth(WordPowers, f)[L] = Prime
    BY <1>8, <1>10, FirstIs
  <2>3. IsPowers(WordPowers, Word) /\ o \in Nat /\ o + 1 = L
    BY <1>10, WordPowersAre
  <2> HIDE DEF o, f
  <2>4. Worth(WordPowers, f)[o + 1] = Worth(WordPowers, f)[o] + f[o] * WordPowers[o]
    BY <2>1, <2>3, WorthStep
  <2>5. Worth(WordPowers, f)[o] \in Nat /\ Worth(WordPowers, f)[o] < WordPowers[o]
    BY <2>1, <2>3, WorthBounds
  <2>6. WordPowers[o] \in Nat /\ WordPowers[o] < Prime
    BY PrimeIs DEF o
  <2> QED BY <2>1, <2>2, <2>3, <2>4, <2>5, <2>6, PrimeIs
<1>13. Load(Of(n), prime) \in Registers
  BY <1>1, <1>8, <1>9 DEF Registers
<1> QED BY <1>1, <1>8, <1>9, <1>11, <1>12, <1>13 DEF Loaded

-----------------------------------------------------------------------------
(* The machine, and the algorithm on the numbers of its registers.           *)
A == INSTANCE AlmostInverseProofs WITH
       prime <- Prime, Inputs <- {n % Prime : n \in Inputs}, Factors <- {2^j : j \in 0..Bits},
       x <- Reduced, power <- 2^st.k,
       phase <- IF pc \in {"halve", "compare"} THEN "loop" ELSE pc

(* Which words of the registers are not zero, and which bits.                *)
Shape ==
  /\ pc = "halve" => /\ TopIsNotZero(st[Other(st.even)])
                     /\ st[Other(st.even)].a[0] % 2 = 1
  /\ pc = "compare" => /\ TopIsNotZero(st.us) /\ TopIsNotZero(st.vr)
                       /\ st.us.a[0] % 2 = 1 /\ st.vr.a[0] % 2 = 1
  /\ pc = "divide" => st.us.len1 = 1
  /\ pc = "done" => Value(out) = s

(* How far the second numbers have grown: only as far as the first ones have *)
(* been halved, or will be at once.                                          *)
Growth ==
  /\ pc = "halve" => /\ Second(st[st.even]) <= 2^st.k
                     /\ \/ Second(st[Other(st.even)]) <= 2^st.k
                        \/ /\ First(st[st.even]) % 2 = 0
                           /\ Second(st[Other(st.even)]) <= 2 * 2^st.k
  /\ pc = "compare" => s <= 2^st.k /\ r <= 2^st.k

LInv == TypeOK /\ A!IInv /\ Shape /\ Growth

(* An input is not 0 modulo the prime.                                       *)
LEMMA InputIs ==
  ASSUME NEW n \in Inputs
  PROVE  n \in Nat /\ n < 2^Bits /\ n % Prime \in 1..Prime - 1
<1> DEFINE b == 2^Bits
<1>1. Prime \in Nat /\ Prime > 1 /\ b \in Nat /\ b < 2 * Prime
  BY PrimeIs
<1>2. n \in 1..b - 1 /\ n # Prime
  BY DEF Inputs
<1> HIDE DEF b
<1>3. n \in Nat /\ n < b /\ n > 0
  BY <1>1, <1>2
<1>4. n % Prime \in 1..Prime - 1
  <2>1. CASE n < Prime
    <3>1. n = Prime * 0 + n /\ 0 \in Int /\ Prime \in Nat \ {0}
      BY <1>1, <1>3
    <3>2. n % Prime = n
      BY <1>3, <2>1, <3>1, DivIs
    <3> QED BY <3>2, <1>1, <1>3, <2>1
  <2>2. CASE n > Prime
    <3>1. n = Prime * 1 + (n - Prime) /\ 1 \in Int /\ Prime \in Nat \ {0} /\ n - Prime \in Nat
          /\ n - Prime < Prime
      BY <1>1, <1>3, <2>2
    <3>2. n % Prime = n - Prime
      BY <1>3, <3>1, DivIs
    <3> QED BY <3>2, <3>1, <1>1, <1>3, <2>2
  <2> QED BY <2>1, <2>2, <1>1, <1>2, <1>3
<1> QED BY <1>3, <1>4 DEF b

(* What the algorithm assumes.                                               *)
LEMMA AlgorithmInput == A!InputAssumption
<1>1. Prime \in Nat /\ Prime > 1
  BY PrimeIs
<1>2. {n % Prime : n \in Inputs} \subseteq 1..Prime - 1
  BY InputIs
<1>3. {2^j : j \in 0..Bits} \subseteq Nat \ {0}
  BY TwoTo, BitsAre
<1>4. \A d \in {2^j : j \in 0..Bits} : \E a, b \in Int : a * d + b * Prime = 1
  <2> SUFFICES ASSUME NEW j \in 0..Bits PROVE \E a, b \in Int : a * 2^j + b * Prime = 1
    OBVIOUS
  <2>1. j \in Nat
    BY BitsAre
  <2> QED BY <2>1, OddIsCoprime
<1> QED BY <1>1, <1>2, <1>3, <1>4 DEF A!InputAssumption

(* What the invariants say of the loop.                                      *)
LEMMA LoopFacts ==
  ASSUME LInv, pc \in {"halve", "compare"}
  PROVE  /\ u \in Nat \ {0} /\ v \in Nat \ {0} /\ r \in Nat /\ s \in Nat \ {0}
         /\ u * s + v * r = Prime
         /\ (r = 0 => u = Prime /\ v < u)
         /\ u * s + v * r < WordPowers[L] /\ u * s < WordPowers[L] /\ v * r < WordPowers[L]
         /\ st \in Registers
<1>1. /\ u \in Nat \ {0} /\ v \in Nat \ {0} /\ r \in Nat /\ s \in Nat
      /\ u * s + v * r = Prime /\ s > 0
      /\ (r = 0 => u = Prime /\ v < u)
  BY DEF LInv, A!IInv, A!TypeInv, A!LoopInv
<1>2. Prime \in Nat /\ WordPowers[L] \in Nat /\ Prime < WordPowers[L]
  BY PrimeIs, BitsAre
<1>3. u * s \in Nat /\ v * r \in Nat
  BY <1>1
<1>4. st \in Registers
  BY DEF LInv, TypeOK
<1> HIDE DEF u, v, r, s, WordPowers
<1> QED BY <1>1, <1>2, <1>3, <1>4

(* They hold at the start, which is one of the algorithm.                    *)
LEMMA InitIs ==
  ASSUME Init
  PROVE  LInv /\ A!Init
<1>1. input \in Inputs /\ st = Load(Of(input), prime) /\ pc = "halve" /\ out = bn_zero
  BY DEF Init
<1>2. input \in Nat /\ input < 2^Bits
  BY <1>1, InputIs
<1>3. Loaded(st, input)
  BY <1>1, <1>2, LoadIs
<1>4. /\ st \in Registers /\ st.k = 0 /\ st.even = "vr"
      /\ u = Prime /\ s = 1 /\ v = Reduced /\ r = 0
      /\ TopIsNotZero(st.us) /\ st.us.a[0] % 2 = 1
  BY <1>3 DEF Loaded, u, v, r, s, Reduced
<1>5. bn_zero \in bignum256
  BY WordIs DEF bn_zero, bignum256
<1>6. A!Init
  <2>1. Reduced \in {n % Prime : n \in Inputs}
    BY <1>1 DEF Reduced
  <2>2. 2^st.k = 1
    BY <1>4, TwoTo
  <2> QED BY <1>1, <1>4, <2>1, <2>2 DEF A!Init
<1>7. A!IInv
  BY <1>6, AlgorithmInput, A!InitEstablishes
<1>8. TypeOK
  BY <1>1, <1>4, <1>5 DEF TypeOK
<1>9. Other(st.even) = "us"
  BY <1>4 DEF Other
<1>10. Shape
  BY <1>1, <1>4, <1>9 DEF Shape
<1>11. Growth
  <2>1. Second(st[st.even]) = 0 /\ Second(st[Other(st.even)]) = 1 /\ 2^st.k = 1
    BY <1>4, <1>9, TwoTo DEF r, s
  <2> QED BY <1>1, <2>1 DEF Growth
<1> QED BY <1>6, <1>7, <1>8, <1>10, <1>11 DEF LInv

(* A power of two that the algorithm may take.                               *)
LEMMA PowerIsFactor ==
  ASSUME NEW e \in 0..Bits
  PROVE  2^e \in {2^j : j \in 0..Bits}
OBVIOUS

(* What HalveIs says of the machine.                                         *)
Halving(e) ==
  /\ e \in 0..Bits /\ st' \in Registers /\ st'.even = st.even /\ st'.k = st.k + e
  /\ st'[Other(st.even)] = st[Other(st.even)]
  /\ Halved(st[st.even], st'[st.even], e)

(* A turn halves by some power of two.                                       *)
LEMMA HalvingExists ==
  ASSUME LInv, HalveEven
  PROVE  \E e \in Nat : Halving(e)
<1>1. /\ u \in Nat \ {0} /\ v \in Nat \ {0} /\ u * s < WordPowers[L] /\ v * r < WordPowers[L]
      /\ st \in Registers /\ st' = Halve(st)
  BY LoopFacts DEF HalveEven
<1>2. st.even = "us" \/ st.even = "vr"
  BY <1>1, RegistersAre
<1>3. First(st[st.even]) # 0 /\ First(st[st.even]) * Second(st[st.even]) < WordPowers[L]
  <2>1. CASE st.even = "us"
    BY <1>1, <2>1 DEF u, s
  <2>2. CASE st.even = "vr"
    BY <1>1, <2>2 DEF v, r
  <2> QED BY <1>2, <2>1, <2>2
<1>4. PICK e \in Nat :
            /\ Halve(st) \in Registers
            /\ Halve(st).even = st.even /\ Halve(st).k = st.k + e
            /\ Halve(st)[Other(st.even)] = st[Other(st.even)]
            /\ Halved(st[st.even], Halve(st)[st.even], e)
  BY <1>1, <1>3, HalveIs
<1>5. Halving(e)
  BY <1>1, <1>4 DEF Halving, Halved
<1> QED BY <1>5

(* It is a step of the algorithm.                                            *)
LEMMA HalveImplements ==
  ASSUME LInv, HalveEven
  PROVE  A!Next
<1>1. PICK e \in Nat : Halving(e)
  BY HalvingExists
<1>2. /\ st \in Registers /\ st.k \in Nat /\ st.even \in {"us", "vr"} /\ pc = "halve"
      /\ pc' = "compare"
      /\ input' = input
  BY RegistersAre DEF LInv, TypeOK, HalveEven
<1>3. /\ e \in 0..Bits /\ st' \in Registers /\ st'.even = st.even /\ st'.k = st.k + e
      /\ st'[Other(st.even)] = st[Other(st.even)]
      /\ st'[st.even] \in Combo
      /\ First(st[st.even]) = 2^e * First(st'[st.even])
      /\ Second(st'[st.even]) = 2^e * Second(st[st.even])
  BY <1>1 DEF Halving, Halved
<1>4. 2^st'.k = 2^e * 2^st.k
  <2>1. e \in Nat /\ st.k + e = e + st.k
    BY <1>2
  <2>2. 2^(e + st.k) = 2^e * 2^st.k
    BY <1>2, <2>1, TwoToSum
  <2> QED BY <1>3, <2>1, <2>2
<1>5. Reduced' = Reduced
  BY <1>2 DEF Reduced
<1>6. 2^e \in {2^j : j \in 0..Bits}
  BY <1>3, PowerIsFactor
<1> DEFINE d == 2^e
<1>7. CASE st.even = "vr"
  <2>1. Other(st.even) = "us"
    BY <1>7 DEF Other
  <2>2. v = d * v' /\ r' = d * r /\ u' = u /\ s' = s
    BY <1>3, <1>7, <2>1 DEF u, v, r, s
  <2>3. v' \in Nat
    BY <1>3, <1>7, FirstIs DEF v
  <2> HIDE DEF d
  <2>4. A!HalveV(d)
    BY <1>2, <1>4, <1>5, <2>2, <2>3 DEF A!HalveV, d
  <2> QED BY <1>6, <2>4 DEF A!Next, d
<1>8. CASE st.even = "us"
  <2>1. Other(st.even) = "vr"
    BY <1>8 DEF Other
  <2>2. u = d * u' /\ s' = d * s /\ v' = v /\ r' = r
    BY <1>3, <1>8, <2>1 DEF u, v, r, s
  <2>3. u' \in Nat
    BY <1>3, <1>8, FirstIs DEF u
  <2> HIDE DEF d
  <2>4. A!HalveU(d)
    BY <1>2, <1>4, <1>5, <2>2, <2>3 DEF A!HalveU, d
  <2> QED BY <1>6, <2>4 DEF A!Next, d
<1> QED BY <1>2, <1>7, <1>8

(* It leaves the registers in shape.                                         *)
LEMMA HalveKeeps ==
  ASSUME LInv, HalveEven
  PROVE  TypeOK' /\ Shape' /\ Growth'
<1>1. PICK e \in Nat : Halving(e)
  BY HalvingExists
<1>2. /\ st \in Registers /\ st.k \in Nat /\ st.even \in {"us", "vr"} /\ pc = "halve"
      /\ pc' = "compare"
      /\ input' = input /\ out' = out
  BY RegistersAre DEF LInv, TypeOK, HalveEven
<1>3. /\ st' \in Registers /\ st'.even = st.even /\ st'.k = st.k + e
      /\ st'[Other(st.even)] = st[Other(st.even)]
      /\ TopIsNotZero(st'[st.even]) /\ st'[st.even].a[0] % 2 = 1
      /\ First(st'[st.even]) % 2 = 1
      /\ First(st[st.even]) = 2^e * First(st'[st.even])
      /\ Second(st'[st.even]) = 2^e * Second(st[st.even])
  BY <1>1 DEF Halving, Halved
<1>4. TopIsNotZero(st[Other(st.even)]) /\ st[Other(st.even)].a[0] % 2 = 1
  BY <1>2 DEF LInv, Shape
<1>5. TypeOK'
  BY <1>2, <1>3 DEF LInv, TypeOK
<1>6. \/ st.even = "us" /\ Other(st.even) = "vr"
      \/ st.even = "vr" /\ Other(st.even) = "us"
  BY <1>2 DEF Other
<1>7. Shape'
  <2>1. /\ TopIsNotZero(st'.us) /\ TopIsNotZero(st'.vr)
        /\ st'.us.a[0] % 2 = 1 /\ st'.vr.a[0] % 2 = 1
    BY <1>3, <1>4, <1>6
  <2> QED BY <1>2, <2>1 DEF Shape
<1>8. Growth'
  <2> DEFINE a  == Second(st[st.even])
             b  == Second(st[Other(st.even)])
             a1 == Second(st'[st.even])
             b1 == Second(st'[Other(st.even)])
             c  == First(st[st.even])
             c1 == First(st'[st.even])
             p  == 2^st.k
             q  == 2^st'.k
             d  == 2^e
  <2>1. a \in Nat /\ b \in Nat /\ c1 \in Nat
    BY <1>2, <1>3, RegistersAre, SecondIs, FirstIs
  <2>2. p \in Nat \ {0} /\ d \in Nat \ {0} /\ q = d * p
    <3>1. p \in Nat \ {0} /\ d \in Nat \ {0}
      BY <1>2, TwoTo
    <3>2. 2^(e + st.k) = d * p /\ e + st.k = st.k + e
      BY <1>2, TwoToSum
    <3> QED BY <1>3, <3>1, <3>2
  <2>3. a <= p /\ (b <= p \/ (c % 2 = 0 /\ b <= 2 * p))
    BY <1>2 DEF LInv, Growth
  <2>4. a1 = d * a /\ b1 = b /\ c = d * c1 /\ c1 % 2 = 1
    BY <1>3
  <2>5. d = 1 \/ d >= 2
    BY <2>2
  <2> HIDE DEF a, b, a1, b1, c, c1, p, q, d
  <2>6. a1 <= q
    <3>1. d * (p - a) >= 0 /\ d * (p - a) = d * p - d * a
      BY <2>1, <2>2, <2>3
    <3> QED BY <3>1, <2>1, <2>2, <2>4
  <2>7. b1 <= q
    <3>1. CASE d = 1
      <4>1. q = p /\ c = c1
        BY <2>1, <2>2, <2>4, <3>1
      <4> QED BY <2>3, <2>4, <4>1
    <3>2. CASE d >= 2
      <4>1. (d - 2) * p >= 0 /\ (d - 2) * p = d * p - 2 * p
        BY <2>2, <3>2
      <4> QED BY <2>1, <2>2, <2>3, <2>4, <4>1
    <3> QED BY <2>5, <3>1, <3>2
  <2>8. s' <= 2^st'.k /\ r' <= 2^st'.k
    <3>1. CASE st.even = "us" /\ Other(st.even) = "vr"
      BY <2>6, <2>7, <3>1 DEF a1, b1, q, r, s
    <3>2. CASE st.even = "vr" /\ Other(st.even) = "us"
      BY <2>6, <2>7, <3>2 DEF a1, b1, q, r, s
    <3> QED BY <1>6, <3>1, <3>2
  <2> QED BY <1>2, <2>8 DEF Growth
<1> QED BY <1>5, <1>7, <1>8

(* What SubtractIs says of the machine.                                      *)
Subtracting(name, other) ==
  /\ \/ name = "us" /\ other = "vr"
     \/ name = "vr" /\ other = "us"
  /\ st' \in Registers /\ st'.even = name /\ st'.k = st.k
  /\ Subtracted(st[name], st[other], st'[name], st'[other])

(* A turn subtracts the smaller number from the greater one.                 *)
LEMMA SubtractingExists ==
  ASSUME LInv, SubtractSmaller
  PROVE  \E name, other : Subtracting(name, other)
<1>1. u * s + v * r < WordPowers[L] /\ st \in Registers /\ st' = Subtract(st) /\ ~Finished(st)
  BY LoopFacts DEF SubtractSmaller
<1>2. TopIsNotZero(st.us) /\ TopIsNotZero(st.vr)
  BY DEF SubtractSmaller, LInv, Shape
<1>3. First(st.us) * Second(st.us) + First(st.vr) * Second(st.vr) < WordPowers[L]
  BY <1>1 DEF u, v, r, s
<1> DEFINE name == IF First(st.us) > First(st.vr) THEN "us" ELSE "vr"
<1>4. /\ Subtract(st) \in Registers
      /\ Subtract(st).even = name /\ Subtract(st).k = st.k
      /\ Subtracted(st[name], st[Other(name)], Subtract(st)[name], Subtract(st)[Other(name)])
  BY <1>1, <1>2, <1>3, SubtractIs
<1>5. \/ name = "us" /\ Other(name) = "vr"
      \/ name = "vr" /\ Other(name) = "us"
  BY DEF Other
<1> HIDE DEF name
<1>6. Subtracting(name, Other(name))
  BY <1>1, <1>4, <1>5 DEF Subtracting
<1> QED BY <1>6

(* It is a step of the algorithm.                                            *)
LEMMA SubtractImplements ==
  ASSUME LInv, SubtractSmaller
  PROVE  A!Next
<1>1. PICK name, other : Subtracting(name, other)
  BY SubtractingExists
<1>2. st \in Registers /\ pc = "compare" /\ pc' = "halve" /\ input' = input
  BY DEF LInv, TypeOK, SubtractSmaller
<1>3. Reduced' = Reduced /\ 2^st'.k = 2^st.k
  BY <1>1, <1>2 DEF Reduced, Subtracting
<1>4. /\ First(st[other]) < First(st[name])
      /\ First(st'[name]) = First(st[name]) - First(st[other])
      /\ Second(st'[name]) = Second(st[name])
      /\ First(st'[other]) = First(st[other])
      /\ Second(st'[other]) = Second(st[name]) + Second(st[other])
  BY <1>1 DEF Subtracting, Subtracted
<1>5. u \in Nat /\ v \in Nat /\ r \in Nat /\ s \in Nat
  BY <1>2, LoopFacts
<1>6. CASE name = "us" /\ other = "vr"
  <2>1. v < u /\ u' = u - v /\ s' = s /\ v' = v /\ r' = s + r
    BY <1>4, <1>6 DEF u, v, r, s
  <2>2. u > v /\ r' = r + s
    BY <2>1, <1>5
  <2>3. A!SubtractV
    BY <1>2, <1>3, <2>1, <2>2 DEF A!SubtractV
  <2> QED BY <2>3 DEF A!Next
<1>7. CASE name = "vr" /\ other = "us"
  <2>1. u < v /\ v' = v - u /\ r' = r /\ u' = u /\ s' = r + s
    BY <1>4, <1>7 DEF u, v, r, s
  <2>2. v > u /\ s' = s + r
    BY <2>1, <1>5
  <2>3. A!SubtractU
    BY <1>2, <1>3, <2>1, <2>2 DEF A!SubtractU
  <2> QED BY <2>3 DEF A!Next
<1> QED BY <1>1, <1>6, <1>7 DEF Subtracting

(* It leaves the registers in shape, and a difference of odd numbers even.   *)
LEMMA SubtractKeeps ==
  ASSUME LInv, SubtractSmaller
  PROVE  TypeOK' /\ Shape' /\ Growth'
<1>1. PICK name, other : Subtracting(name, other)
  BY SubtractingExists
<1>2. /\ st \in Registers /\ st.k \in Nat /\ pc = "compare" /\ pc' = "halve"
      /\ input' = input /\ out' = out
  BY RegistersAre DEF LInv, TypeOK, SubtractSmaller
<1>3. /\ st' \in Registers /\ st'.even = name /\ st'.k = st.k
      /\ First(st'[name]) = First(st[name]) - First(st[other])
      /\ Second(st'[name]) = Second(st[name])
      /\ Second(st'[other]) = Second(st[name]) + Second(st[other])
      /\ TopIsNotZero(st'[other]) /\ st'[other].a[0] = st[other].a[0]
  BY <1>1 DEF Subtracting, Subtracted
<1>4. \/ name = "us" /\ other = "vr"
      \/ name = "vr" /\ other = "us"
  BY <1>1 DEF Subtracting
<1>5. /\ TopIsNotZero(st[name]) /\ TopIsNotZero(st[other])
      /\ st[name].a[0] % 2 = 1 /\ st[other].a[0] % 2 = 1
      /\ Second(st[name]) <= 2^st.k /\ Second(st[other]) <= 2^st.k
      /\ st[name] \in Combo /\ st[other] \in Combo
  <2>1. /\ TopIsNotZero(st.us) /\ TopIsNotZero(st.vr)
        /\ st.us.a[0] % 2 = 1 /\ st.vr.a[0] % 2 = 1
        /\ Second(st.us) <= 2^st.k /\ Second(st.vr) <= 2^st.k
        /\ st.us \in Combo /\ st.vr \in Combo
    BY <1>2, RegistersAre DEF LInv, Shape, Growth, r, s
  <2>2. CASE name = "us" /\ other = "vr"
    BY <2>1, <2>2
  <2>3. CASE name = "vr" /\ other = "us"
    BY <2>1, <2>3
  <2> QED BY <1>4, <2>2, <2>3
<1>6. Other(st'.even) = other
  BY <1>3, <1>4 DEF Other
<1>7. TypeOK'
  BY <1>2, <1>3 DEF LInv, TypeOK
<1>8. Shape'
  BY <1>2, <1>3, <1>5, <1>6 DEF Shape
<1>9. Growth'
  <2> DEFINE a == First(st[name])
             b == First(st[other])
             c == Second(st[name])
             d == Second(st[other])
             p == 2^st.k
  <2>1. a \in Nat /\ b \in Nat /\ c \in Nat /\ d \in Nat /\ p \in Nat
    BY <1>2, <1>5, FirstIs, SecondIs, TwoTo
  <2>2. a % 2 = 1 /\ b % 2 = 1
    <3>1. st[name].len1 >= 1 /\ st[other].len1 >= 1
      BY <1>5 DEF TopIsNotZero
    <3> QED BY <3>1, <1>5, FirstParity
  <2>3. c <= p /\ d <= p
    BY <1>5
  <2> HIDE DEF a, b, c, d, p
  <2>4. (a - b) % 2 = 0
    BY <2>1, <2>2
  <2>5. c + d <= 2 * p
    BY <2>1, <2>3
  <2>6. /\ First(st'[name]) % 2 = 0 /\ Second(st'[name]) <= 2^st'.k
        /\ Second(st'[other]) <= 2 * 2^st'.k
    BY <1>3, <2>3, <2>4, <2>5 DEF a, b, c, d, p
  <2> QED BY <1>2, <1>3, <1>6, <2>6 DEF Growth
<1> QED BY <1>7, <1>8, <1>9

(* Equal numbers that divide the prime are 1.                                *)
LEMMA LeavesAtOne ==
  ASSUME LInv, LeaveLoop
  PROVE  u = 1 /\ v = 1
<1>1. /\ u \in Nat \ {0} /\ v \in Nat /\ r \in Nat /\ s \in Nat \ {0}
      /\ u * s + v * r = Prime
      /\ (r = 0 => u = Prime /\ v < u)
  BY LoopFacts DEF LeaveLoop
<1>2. u = v
  <2>1. st \in Registers /\ TopIsNotZero(st.us) /\ TopIsNotZero(st.vr) /\ Finished(st)
    BY DEF LInv, TypeOK, Shape, LeaveLoop
  <2>2. First(st.us) = First(st.vr)
    BY <2>1, CompareIs
  <2> QED BY <2>2 DEF u, v
<1>3. Prime \in Nat /\ Prime > 1
  BY PrimeIs
<1> HIDE DEF u, v, r, s
<1>4. u * (s + r) = Prime /\ s + r \in Nat
  BY <1>1, <1>2
<1>5. u = 1 \/ u = Prime
  BY <1>1, <1>4, PrimeDivisors
<1>6. u # Prime
  <2> SUFFICES ASSUME u = Prime PROVE FALSE
    OBVIOUS
  <2>1. Prime * (s + r) = Prime
    BY <1>4
  <2>2. s + r = 1
    <3> DEFINE z == s + r
    <3>1. z \in Nat /\ Prime * z = Prime
      BY <1>4, <2>1
    <3> HIDE DEF z
    <3>2. Prime * (z - 1) = 0
      BY <1>3, <3>1
    <3>3. z - 1 = 0
      BY <1>3, <3>1, <3>2
    <3> QED BY <3>1, <3>3 DEF z
  <2>3. r = 0
    BY <1>1, <2>2
  <2> QED BY <1>1, <1>2, <2>3
<1> QED BY <1>2, <1>5, <1>6

(* Then the algorithm finishes, too.                                         *)
LEMMA LeaveImplements ==
  ASSUME LInv, LeaveLoop
  PROVE  A!Next
<1>1. u = 1 /\ v = 1
  BY LeavesAtOne
<1>2. pc = "compare" /\ pc' = "divide" /\ input' = input /\ st' = st
  BY DEF LeaveLoop
<1>3. Reduced' = Reduced /\ u' = u /\ v' = v /\ r' = r /\ s' = s /\ 2^st'.k = 2^st.k
  BY <1>2 DEF Reduced, u, v, r, s
<1>4. A!Finish
  BY <1>1, <1>2, <1>3 DEF A!Finish
<1> QED BY <1>4 DEF A!Next

(* A number that is 1 takes one word.                                        *)
LEMMA LeaveKeeps ==
  ASSUME LInv, LeaveLoop
  PROVE  TypeOK' /\ Shape' /\ Growth'
<1>1. First(st.us) = 1
  BY LeavesAtOne DEF u
<1>2. pc = "compare" /\ pc' = "divide" /\ input' = input /\ st' = st /\ out' = out
  BY DEF LeaveLoop
<1>3. st \in Registers /\ TopIsNotZero(st.us) /\ st.us \in Combo
  BY <1>2, RegistersAre DEF LInv, TypeOK, Shape
<1>4. st.us.len1 = 1
  <2> DEFINE n == st.us.len1
  <2>1. n \in Nat /\ n >= 1
    BY <1>3, ComboIs DEF TopIsNotZero
  <2>2. WordPowers[n - 1] <= 1
    BY <1>1, <1>3, TopCounts
  <2> HIDE DEF n
  <2>3. CASE n > 1
    <3>1. n - 1 \in Nat /\ 1 \in Nat /\ 1 <= n - 1
      BY <2>1, <2>3
    <3>2. WordPowers[1] <= WordPowers[n - 1] /\ WordPowers[n - 1] \in Nat /\ WordPowers[1] \in Nat
      BY <3>1, WordPowersGrow
    <3>3. WordPowers[1] = Word /\ Word >= 16 /\ Word \in Nat
      <4>1. WordPowers[1] = 2^((W + 2) * 1) /\ (W + 2) * 1 = W + 2
        BY WidthsAre, WordPowersAre
      <4> QED BY <4>1, WordIs
    <3> QED BY <2>2, <3>2, <3>3
  <2> QED BY <2>1, <2>3 DEF n
<1>5. TypeOK'
  BY <1>2 DEF LInv, TypeOK
<1>6. Shape' /\ Growth'
  BY <1>2, <1>4 DEF Shape, Growth
<1> QED BY <1>5, <1>6

(* What DivideIs says of the machine.                                        *)
LEMMA DividingExists ==
  ASSUME LInv, DivideByWord
  PROVE  \E bits, factor \in Nat : DivideStep(st, st', Prime, bits, factor)
<1>1. st \in Registers /\ st.us.len1 = 1 /\ st.k # 0 /\ st' = Divide(st, prime)
  BY RegistersAre DEF LInv, TypeOK, Shape, DivideByWord
<1>2. Normal(prime) /\ Value(prime) = Prime /\ Prime % 2 = 1
  BY PrimeInLimbs, PrimeIs
<1>3. /\ prime \in [Limbs -> Nat] /\ (\A i \in Limbs : prime[i] < Limb) /\ prime[L] < 2^T
      /\ Value(prime) % 2 = 1
  BY <1>2 DEF Normal
<1> HIDE DEF prime
<1>4. \E bits, factor \in Nat : DivideStep(st, Divide(st, prime), Value(prime), bits, factor)
  BY <1>1, <1>3, DivideIs
<1> QED BY <1>1, <1>2, <1>4

(* It is a step of the algorithm.                                            *)
LEMMA DivideImplements ==
  ASSUME LInv, DivideByWord
  PROVE  A!Next
<1>1. PICK bits \in Nat, factor \in Nat : DivideStep(st, st', Prime, bits, factor)
  BY DividingExists
<1>2. /\ pc = "divide" /\ pc' = "divide" /\ input' = input
      /\ st \in Registers /\ st.k \in Nat
  BY RegistersAre DEF DivideByWord, LInv, TypeOK
<1>3. /\ bits \in 1..W + 2 /\ bits <= st.k /\ factor \in 0..2^bits - 1
      /\ st' \in Registers /\ st'.k = st.k - bits /\ st'.vr = st.vr
      /\ First(st'.us) = First(st.us)
      /\ 2^bits * Second(st'.us) = Second(st.us) + factor * Prime
  BY <1>1 DEF DivideStep
<1>4. Reduced' = Reduced /\ u' = u /\ v' = v /\ r' = r
  BY <1>2, <1>3 DEF Reduced, u, v, r
<1>5. s' \in Nat /\ s + factor * Prime = 2^bits * s'
  BY <1>3, RegistersAre, SecondIs DEF s
<1>6. 2^st'.k \in Nat /\ 2^st.k = 2^bits * 2^st'.k
  <2>1. 2^st.k = 2^bits * 2^(st.k - bits) /\ st.k - bits \in Nat
    BY <1>2, <1>3, TwoToOrder
  <2> QED BY <1>3, <2>1, TwoTo
<1>7. 2^bits \in {2^j : j \in 0..Bits}
  <2>1. bits \in 0..Bits
    <3>1. Bits = L * W + 2 * L /\ L \in Nat /\ L >= 1 /\ W \in Nat
      BY WidthsAre DEF Bits, T
    <3>2. L * W >= W
      <4>1. (L - 1) * W >= 0 /\ (L - 1) * W = L * W - W /\ L * W \in Nat
        BY <3>1
      <4> QED BY <4>1, <3>1
    <3>3. L * W \in Nat
      BY <3>1
    <3>4. bits \in Nat /\ bits <= W + 2
      BY <1>3, <3>1
    <3> HIDE DEF Bits
    <3> QED BY <3>1, <3>2, <3>3, <3>4
  <2> QED BY <2>1, PowerIsFactor
<1> DEFINE d == 2^bits
<1>8. factor \in 0..d - 1 /\ s + factor * Prime = d * s' /\ 2^st.k = d * 2^st'.k
  BY <1>3, <1>5, <1>6
<1> HIDE DEF d
<1>9. A!Divide(d, factor)
  BY <1>2, <1>4, <1>5, <1>6, <1>8 DEF A!Divide
<1>10. d \in {2^j : j \in 0..Bits}
  BY <1>7 DEF d
<1> QED BY <1>8, <1>9, <1>10 DEF A!Next

(* It leaves the registers in shape.                                         *)
LEMMA DivideKeeps ==
  ASSUME LInv, DivideByWord
  PROVE  TypeOK' /\ Shape' /\ Growth'
<1>1. PICK bits \in Nat, factor \in Nat : DivideStep(st, st', Prime, bits, factor)
  BY DividingExists
<1>2. pc = "divide" /\ pc' = "divide" /\ input' = input /\ out' = out
  BY DEF DivideByWord
<1>3. st' \in Registers /\ st'.us.len1 = 1
  BY <1>1 DEF DivideStep
<1>4. TypeOK'
  BY <1>2, <1>3 DEF LInv, TypeOK
<1>5. Shape' /\ Growth'
  BY <1>2, <1>3 DEF Shape, Growth
<1> QED BY <1>4, <1>5

(* The algorithm returns, too.                                               *)
LEMMA ReturnImplements ==
  ASSUME LInv, ReturnStored
  PROVE  A!Next
<1>1. pc = "divide" /\ pc' = "done" /\ input' = input /\ st' = st /\ st.k = 0
  BY DEF ReturnStored
<1>2. Reduced' = Reduced /\ u' = u /\ v' = v /\ r' = r /\ s' = s /\ 2^st'.k = 2^st.k
      /\ 2^st.k = 1
  BY <1>1, TwoTo DEF Reduced, u, v, r, s
<1>3. A!Return
  BY <1>1, <1>2 DEF A!Return
<1> QED BY <1>3 DEF A!Next

(* The result is the number that s is.                                       *)
LEMMA ReturnKeeps ==
  ASSUME LInv, ReturnStored
  PROVE  TypeOK' /\ Shape' /\ Growth'
<1>1. pc = "divide" /\ pc' = "done" /\ input' = input /\ st' = st /\ out' = Store(st)
  BY DEF ReturnStored
<1>2. st \in Registers /\ st.us.len1 = 1
  BY <1>1 DEF LInv, TypeOK, Shape
<1>3. Store(st) \in bignum256 /\ Value(Store(st)) = Second(st.us)
  BY <1>2, StoreIs
<1>4. TypeOK'
  BY <1>1, <1>3 DEF LInv, TypeOK
<1>5. Shape' /\ Growth'
  BY <1>1, <1>3 DEF Shape, Growth, s
<1> QED BY <1>4, <1>5

(* A step of nothing is one of nothing.                                      *)
LEMMA StutterKeeps ==
  ASSUME LInv, UNCHANGED vars
  PROVE  TypeOK' /\ Shape' /\ Growth' /\ UNCHANGED A!vars
<1>1. input' = input /\ st' = st /\ pc' = pc /\ out' = out
  BY DEF vars
<1>2. u' = u /\ v' = v /\ r' = r /\ s' = s /\ Reduced' = Reduced /\ 2^st'.k = 2^st.k
  BY <1>1 DEF u, v, r, s, Reduced
<1>3. UNCHANGED A!vars
  BY <1>1, <1>2 DEF A!vars
<1>4. TypeOK'
  BY <1>1 DEF LInv, TypeOK
<1>5. Shape' /\ Growth'
  BY <1>1, <1>2 DEF LInv, Shape, Growth
<1> QED BY <1>3, <1>4, <1>5

(* Every step is one of the algorithm.                                       *)
LEMMA StepImplements ==
  ASSUME LInv, [Next]_vars
  PROVE  [A!Next]_A!vars /\ TypeOK' /\ Shape' /\ Growth'
<1>1. CASE HalveEven
  BY <1>1, HalveImplements, HalveKeeps
<1>2. CASE SubtractSmaller
  BY <1>2, SubtractImplements, SubtractKeeps
<1>3. CASE LeaveLoop
  BY <1>3, LeaveImplements, LeaveKeeps
<1>4. CASE DivideByWord
  BY <1>4, DivideImplements, DivideKeeps
<1>5. CASE ReturnStored
  BY <1>5, ReturnImplements, ReturnKeeps
<1>6. CASE UNCHANGED vars
  BY <1>6, StutterKeeps
<1> QED BY <1>1, <1>2, <1>3, <1>4, <1>5, <1>6 DEF Next

(* The invariant is inductive.                                               *)
LEMMA LInvInductive ==
  ASSUME LInv, [Next]_vars
  PROVE  LInv'
<1>1. [A!Next]_A!vars /\ TypeOK' /\ Shape' /\ Growth'
  BY StepImplements
<1>2. A!IInv
  BY DEF LInv
<1>3. A!IInv'
  BY <1>1, <1>2, AlgorithmInput, A!Inductive
<1> QED BY <1>1, <1>3 DEF LInv

(* So it holds all the time.                                                 *)
LEMMA LInvHolds == Spec => []LInv
<1>1. Init => LInv
  BY InitIs
<1>2. LInv /\ [Next]_vars => LInv'
  BY LInvInductive
<1> QED BY <1>1, <1>2, PTL DEF Spec

(* What the comments of the loop say follows from it.                        *)
LEMMA LoopInvariantFollows ==
  ASSUME LInv
  PROVE  LoopInvariant
<1> SUFFICES ASSUME pc \in {"halve", "compare"}
             PROVE  /\ u * s + v * r = Prime
                    /\ (Reduced * s - v * 2^st.k) % Prime = 0
                    /\ (Reduced * r + u * 2^st.k) % Prime = 0
                    /\ (IF pc = "halve" THEN 2 * 2^st.k ELSE 2^st.k) >= s
                    /\ Odd(st[Other(st.even)].a)
  BY DEF LoopInvariant
<1>1. /\ u \in Nat /\ v \in Nat /\ r \in Nat /\ s \in Nat /\ st \in Registers
      /\ u * s + v * r = Prime
  BY LoopFacts
<1>2. st.k \in Nat /\ 2^st.k \in Nat
  BY <1>1, RegistersAre, TwoTo
<1>3. Reduced \in Nat /\ Prime \in Nat \ {0}
  BY PrimeIs DEF LInv, A!IInv, A!TypeInv
<1>4. (Reduced * s - v * 2^st.k) % Prime = 0
  <2>1. A!Multiple(Reduced * s - v * 2^st.k)
    BY DEF LInv, A!IInv, A!ResultInv
  <2>2. Reduced * s - v * 2^st.k \in Int
    BY <1>1, <1>2, <1>3
  <2> QED BY <1>3, <2>1, <2>2, A!MultipleIsCongruent
<1>5. (Reduced * r + u * 2^st.k) % Prime = 0
  <2>1. A!Multiple(Reduced * r + u * 2^st.k)
    BY DEF LInv, A!IInv, A!LoopInv
  <2>2. Reduced * r + u * 2^st.k \in Int
    BY <1>1, <1>2, <1>3
  <2> QED BY <1>3, <2>1, <2>2, A!MultipleIsCongruent
<1>6. \/ st.even = "us" /\ Other(st.even) = "vr"
      \/ st.even = "vr" /\ Other(st.even) = "us"
  BY <1>1, RegistersAre DEF Other
<1>7. (IF pc = "halve" THEN 2 * 2^st.k ELSE 2^st.k) >= s
  <2> DEFINE p == 2^st.k
  <2>1. pc = "compare" => s <= p
    BY DEF LInv, Growth
  <2>2. pc = "halve" => s <= 2 * p
    <3> SUFFICES ASSUME pc = "halve" PROVE s <= 2 * p
      OBVIOUS
    <3>1. /\ Second(st[st.even]) <= p
          /\ Second(st[Other(st.even)]) <= p \/ Second(st[Other(st.even)]) <= 2 * p
      BY DEF LInv, Growth
    <3>2. s <= p \/ s <= 2 * p
      BY <1>6, <3>1 DEF s
    <3> HIDE DEF p, s
    <3>3. p \in Nat /\ s \in Nat
      BY <1>1, <1>2 DEF p
    <3> QED BY <3>2, <3>3
  <2>3. p \in Nat
    BY <1>2
  <2> HIDE DEF p, s
  <2>4. (IF pc = "halve" THEN 2 * p ELSE p) >= s
    BY <1>1, <2>1, <2>2, <2>3
  <2> QED BY <2>4 DEF p
<1>8. Odd(st[Other(st.even)].a)
  <2>1. pc = "halve" => st[Other(st.even)].a[0] % 2 = 1
    BY DEF LInv, Shape
  <2>2. pc = "compare" => st.us.a[0] % 2 = 1 /\ st.vr.a[0] % 2 = 1
    BY DEF LInv, Shape
  <2>3. st[Other(st.even)].a[0] % 2 = 1
    BY <1>6, <2>1, <2>2
  <2> QED BY <2>3 DEF Odd
<1> QED BY <1>1, <1>4, <1>5, <1>7, <1>8

(* So does what the function returns.                                        *)
LEMMA ReturnsInverseFollows ==
  ASSUME LInv
  PROVE  ReturnsInverse
<1> SUFFICES ASSUME pc = "done"
             PROVE  Value(out) \in 1..Prime - 1 /\ (Reduced * Value(out)) % Prime = 1
  BY DEF ReturnsInverse
<1> DEFINE n == Value(out)
<1>1. n = s
  BY DEF LInv, Shape
<1>2. A!IInv /\ A!IsInverse
  BY AlgorithmInput, A!InvariantSuffices DEF LInv
<1>3. Reduced \in Nat /\ s \in Nat /\ Prime \in Nat /\ Prime > 1
  BY <1>2, PrimeIs DEF A!IInv, A!TypeInv
<1>4. A!Congruent(Reduced * s, 1) /\ s \in 0..Prime - 1
  BY <1>2 DEF A!IsInverse
<1>5. (Reduced * s - 1) % Prime = 0
  BY <1>4 DEF A!Congruent
<1> HIDE DEF n, s
<1> DEFINE m == Reduced * s
<1>6. m \in Nat /\ (m - 1) % Prime = 0
  BY <1>3, <1>5
<1>7. s = 0 => m = 0
  BY <1>3
<1> HIDE DEF m
<1>8. m # 0 /\ m % Prime = 1
  <2>1. PICK q \in Int : m - 1 = Prime * q
    <3> DEFINE y == m - 1
    <3>1. y \in Int /\ y % Prime = 0
      BY <1>6
    <3> HIDE DEF y
    <3>2. y \div Prime \in Int /\ y = Prime * (y \div Prime)
      BY <1>3, <3>1
    <3> QED BY <3>2 DEF y
  <2>2. m # 0
    <3> SUFFICES ASSUME m = 0 PROVE FALSE
      OBVIOUS
    <3>1. Prime * (-q) = 1 /\ -q \in Int
      BY <1>3, <2>1
    <3> DEFINE z == -q
    <3>2. z \in Int /\ Prime * z = 1
      BY <3>1
    <3> HIDE DEF z
    <3>3. z >= 1
      BY <1>3, <3>2
    <3>4. Prime * (z - 1) >= 0 /\ Prime * (z - 1) = Prime * z - Prime
      BY <1>3, <3>2, <3>3
    <3> QED BY <1>3, <3>2, <3>4
  <2>3. m = Prime * q + 1 /\ 1 \in Nat /\ 1 < Prime /\ Prime \in Nat \ {0}
    BY <1>3, <1>6, <2>1
  <2> QED BY <1>6, <2>2, <2>3, DivIs
<1> QED BY <1>1, <1>3, <1>4, <1>7, <1>8 DEF m, n

-----------------------------------------------------------------------------
(* The registers keep to their words, and out to its limbs, whatever the     *)
(* number of limbs, their width, the prime and the number inverted.          *)
THEOREM LimbsTyped == Spec => []TypeOK
<1>1. LInv => TypeOK
  BY DEF LInv
<1> QED BY <1>1, LInvHolds, PTL

(* The comments of the loop of bn_inverse hold of its limbs at every turn.   *)
THEOREM LoopInvariantHolds == Spec => []LoopInvariant
<1>1. LInv => LoopInvariant
  BY LoopInvariantFollows
<1> QED BY <1>1, LInvHolds, PTL

(* What bn_inverse returns is the inverse, below the prime.                  *)
THEOREM InverseReturned == Spec => []ReturnsInverse
<1>1. LInv => ReturnsInverse
  BY ReturnsInverseFollows
<1> QED BY <1>1, LInvHolds, PTL

(* The same definitions, of the algorithm the machine refers to.             *)
LEMMA AlgorithmInit ==
  ASSUME A!Init
  PROVE  Algorithm!Init
BY DEF A!Init, Algorithm!Init

(* Its steps are the same.                                                   *)
LEMMA AlgorithmStep ==
  ASSUME [A!Next]_A!vars
  PROVE  [Algorithm!Next]_Algorithm!vars
<1>1. A!vars' = A!vars => Algorithm!vars' = Algorithm!vars
  BY DEF A!vars, Algorithm!vars
<1>2. A!Next => Algorithm!Next
  BY DEF A!Next, A!SubtractV, A!SubtractU, A!Finish, A!Return, A!HalveV, A!HalveU, A!Divide,
         A!vars, Algorithm!Next, Algorithm!SubtractV, Algorithm!SubtractU, Algorithm!Finish,
         Algorithm!Return, Algorithm!HalveV, Algorithm!HalveU, Algorithm!Divide
<1> QED BY <1>1, <1>2

(* Every step of the limbs is a step of the algorithm on numbers.            *)
THEOREM AlgorithmImplemented == Spec => ImplementsAlgorithm
<1>1. Init => Algorithm!Init
  BY InitIs, AlgorithmInit
<1>2. LInv /\ [Next]_vars => [Algorithm!Next]_Algorithm!vars
  BY StepImplements, AlgorithmStep
<1> QED BY <1>1, <1>2, LInvHolds, PTL DEF Spec, ImplementsAlgorithm, Algorithm!Spec
=============================================================================
