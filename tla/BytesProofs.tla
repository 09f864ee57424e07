---------------------------- MODULE BytesProofs ----------------------------
(* What the conversions of Bytes do, for all numbers and byte arrays.        *)
(*                                                                           *)
(* The library states induction and recursion with an operator as parameter, *)
(* which the provers cannot instantiate.  Here the parameter is a set, or a  *)
(* function: the numbers of which something holds, the step of a recursive   *)
(* definition as a function of what is computed so far and of the argument.  *)
EXTENDS Bytes, SequencesExt, FiniteSetTheorems, SequenceTheorems, TLAPS

-----------------------------------------------------------------------------
(* Induction and recursion.                                                  *)

(* A set of natural numbers has a least one.                                 *)
LEMMA NatLeast ==
  ASSUME NEW T \in SUBSET Nat, T # {}
  PROVE  \E n \in T : \A m \in T : n <= m
<1> DEFINE F == {0..n : n \in T}
<1>1. IsWellFoundedOn(StrictSubsetOrdering(Nat), FiniteSubsetsOf(Nat))
  BY FS_StrictSubsetOrderingWellFounded
<1>2. F \subseteq FiniteSubsetsOf(Nat) /\ F # {}
  <2>1. \A n \in T : 0..n \in SUBSET Nat /\ IsFiniteSet(0..n)
    BY FS_Interval
  <2> QED BY <2>1 DEF FiniteSubsetsOf
<1>3. PICK X \in F : \A Y \in F : ~ (<<Y, X>> \in StrictSubsetOrdering(Nat))
  <2> HIDE DEF F
  <2> QED BY <1>1, <1>2, WFMin
<1>4. PICK n \in T : X = 0..n
  BY <1>3
<1>5. ASSUME NEW m \in T PROVE n <= m
  <2> SUFFICES ASSUME m < n PROVE FALSE
    OBVIOUS
  <2>1. 0..m \in F
    OBVIOUS
  <2>2. 0..m \subseteq 0..n /\ 0..n \subseteq Nat
    OBVIOUS
  <2>3. n \in 0..n /\ n \notin 0..m
    OBVIOUS
  <2>4. 0..m # 0..n
    BY <2>3
  <2>5. <<0..m, 0..n>> \in StrictSubsetOrdering(Nat)
    BY <2>2, <2>4 DEF StrictSubsetOrdering
  <2> QED BY <1>3, <1>4, <2>1, <2>5
<1> QED BY <1>5

(* Induction over the numbers that a set has.                                *)
LEMMA NatInduct ==
  ASSUME NEW S, 0 \in S, \A n \in Nat : n \in S => n + 1 \in S
  PROVE  Nat \subseteq S
<1> DEFINE T == Nat \ S
<1> SUFFICES ASSUME T # {} PROVE FALSE
  OBVIOUS
<1>1. PICK n \in T : \A m \in T : n <= m
  <2>1. T \in SUBSET Nat
    OBVIOUS
  <2> HIDE DEF T
  <2> QED BY <2>1, NatLeast
<1>2. n # 0
  OBVIOUS
<1>3. n - 1 \in Nat /\ n - 1 \in S
  BY <1>1, <1>2
<1>4. (n - 1) + 1 = n
  OBVIOUS
<1> QED BY <1>3, <1>4

(* Step needs of a function only its values of smaller rank.                 *)
Descends(S, V, rank, Step) ==
  \A g, h \in [S -> V], x \in S :
    (\A y \in S : rank[y] < rank[x] => g[y] = h[y]) => Step[<<g, x>>] = Step[<<h, x>>]

(* f is what Step defines recursively.                                       *)
Solves(f, S, Step) == \A x \in S : f[x] = Step[<<f, x>>]

(* There is a function that is defined recursively along a rank.             *)
LEMMA Recursion ==
  ASSUME NEW S, NEW V, V # {}, NEW rank \in [S -> Nat],
         NEW Step \in [[S -> V] \X S -> V], Descends(S, V, rank, Step)
  PROVE  \E f \in [S -> V] : Solves(f, S, Step)
<1> USE DEF Descends, Solves
<1> DEFINE Upto(g, n) == \A x \in S : rank[x] < n => g[x] = Step[<<g, x>>]
           Reached == {n \in Nat : \E g \in [S -> V] : Upto(g, n)}
<1>1. Nat \subseteq Reached
  <2>1. 0 \in Reached
    <3> PICK v \in V : TRUE
      OBVIOUS
    <3>1. [x \in S |-> v] \in [S -> V] /\ Upto([x \in S |-> v], 0)
      OBVIOUS
    <3> QED BY <3>1, Zenon
  <2>2. ASSUME NEW n \in Nat, n \in Reached PROVE n + 1 \in Reached
    <3>1. PICK g \in [S -> V] : Upto(g, n)
      BY <2>2
    <3> DEFINE h == [x \in S |-> Step[<<g, x>>]]
    <3>2. h \in [S -> V]
      OBVIOUS
    <3>3. ASSUME NEW x \in S, rank[x] < n + 1 PROVE h[x] = Step[<<h, x>>]
      <4>1. \A y \in S : rank[y] < rank[x] => g[y] = h[y]
        BY <3>1, <3>3
      <4>2. Step[<<g, x>>] = Step[<<h, x>>]
        <5> HIDE DEF h
        <5> QED BY <4>1, <3>2
      <4> QED BY <4>2
    <3>4. Upto(h, n + 1)
      BY <3>3
    <3>5. \E g1 \in [S -> V] : Upto(g1, n + 1)
      <4> HIDE DEF h, Upto
      <4> QED BY <3>2, <3>4
    <3> QED BY <3>5
  <2> HIDE DEF Reached
  <2> QED BY <2>1, <2>2, NatInduct
<1>2. \A n \in Nat : \E g \in [S -> V] : Upto(g, n)
  BY <1>1
<1>3. ASSUME NEW g \in [S -> V], NEW h \in [S -> V], NEW n \in Nat, NEW k \in Nat,
             n <= k, Upto(g, n), Upto(h, k)
      PROVE  \A x \in S : rank[x] < n => g[x] = h[x]
  <2> DEFINE Agreed == {m \in Nat : m <= n => \A x \in S : rank[x] < m => g[x] = h[x]}
  <2>1. 0 \in Agreed
    OBVIOUS
  <2>2. ASSUME NEW m \in Nat, m \in Agreed PROVE m + 1 \in Agreed
    <3> SUFFICES ASSUME m + 1 <= n, NEW x \in S, rank[x] < m + 1 PROVE g[x] = h[x]
      OBVIOUS
    <3>1. \A y \in S : rank[y] < rank[x] => g[y] = h[y]
      BY <2>2
    <3>2. Step[<<g, x>>] = Step[<<h, x>>]
      BY <3>1
    <3> QED BY <3>2, <1>3
  <2>3. Nat \subseteq Agreed
    <3> HIDE DEF Agreed
    <3> QED BY <2>1, <2>2, NatInduct
  <2> QED BY <2>3
<1> DEFINE G(n) == CHOOSE g \in [S -> V] : Upto(g, n)
<1>4. \A n \in Nat : G(n) \in [S -> V] /\ Upto(G(n), n)
  <2> HIDE DEF Upto
  <2> QED BY <1>2
<1> DEFINE f == [x \in S |-> G(rank[x] + 1)[x]]
<1>5. f \in [S -> V]
  <2> HIDE DEF G
  <2> QED BY <1>4
<1>6. ASSUME NEW x \in S PROVE f[x] = Step[<<f, x>>]
  <2> DEFINE g == G(rank[x] + 1)
  <2>1. g \in [S -> V] /\ Upto(g, rank[x] + 1)
    <3> HIDE DEF G, Upto
    <3> QED BY <1>4
  <2>2. ASSUME NEW y \in S, rank[y] < rank[x] PROVE f[y] = g[y]
    <3> DEFINE h == G(rank[y] + 1)
    <3>1. h \in [S -> V] /\ Upto(h, rank[y] + 1)
      <4>1. rank[y] + 1 \in Nat
        OBVIOUS
      <4> HIDE DEF G, Upto
      <4> QED BY <1>4, <4>1
    <3>2. f[y] = h[y]
      OBVIOUS
    <3> HIDE DEF G, f
    <3>3. h[y] = g[y]
      <4> HIDE DEF g, h, Upto
      <4>1. rank[x] + 1 \in Nat /\ rank[y] + 1 \in Nat /\ rank[y] + 1 <= rank[x] + 1 /\ rank[y] < rank[y] + 1
        BY <2>2
      <4> QED BY <1>3, <2>1, <3>1, <4>1
    <3> QED BY <3>2, <3>3
  <2>3. f[x] = g[x]
    OBVIOUS
  <2> HIDE DEF f, G, g
  <2>4. g[x] = Step[<<g, x>>]
    BY <2>1
  <2>5. Step[<<f, x>>] = Step[<<g, x>>]
    BY <2>2, <2>1, <1>5
  <2> QED BY <2>3, <2>4, <2>5
<1> QED BY <1>5, <1>6

(* f has one value after the other, each from the one before.                *)
Iterates(f, S, base, Step) ==
  f[0] = base /\ \A n \in S : f[n] = Step[<<f[n - 1], n>>]

(* There is such an f.                                                       *)
LEMMA NatRecursion ==
  ASSUME NEW V, NEW base \in V, NEW Step \in [V \X Nat -> V]
  PROVE  \E f \in [Nat -> V] : Iterates(f, Nat \ {0}, base, Step)
<1> DEFINE rank == [n \in Nat |-> n]
           S == [p \in [Nat -> V] \X Nat |-> IF p[2] = 0 THEN base ELSE Step[<<p[1][p[2] - 1], p[2]>>]]
<1>1. S \in [[Nat -> V] \X Nat -> V]
  OBVIOUS
<1>2. \A g \in [Nat -> V], x \in Nat : S[<<g, x>>] = IF x = 0 THEN base ELSE Step[<<g[x - 1], x>>]
  OBVIOUS
<1>3. rank \in [Nat -> Nat] /\ \A n \in Nat : rank[n] = n
  OBVIOUS
<1> HIDE DEF S, rank
<1>4. Descends(Nat, V, rank, S)
  <2> SUFFICES ASSUME NEW g \in [Nat -> V], NEW h \in [Nat -> V], NEW x \in Nat,
                      \A y \in Nat : rank[y] < rank[x] => g[y] = h[y]
               PROVE  S[<<g, x>>] = S[<<h, x>>]
    BY DEF Descends
  <2>1. x # 0 => g[x - 1] = h[x - 1]
    BY <1>3
  <2> QED BY <2>1, <1>2
<1>5. V # {}
  OBVIOUS
<1>6. PICK f \in [Nat -> V] : Solves(f, Nat, S)
  BY <1>1, <1>3, <1>4, <1>5, Recursion
<1>7. \A x \in Nat : f[x] = IF x = 0 THEN base ELSE Step[<<f[x - 1], x>>]
  BY <1>6, <1>2 DEF Solves
<1>8. f[0] = base
  BY <1>7
<1>9. \A n \in Nat \ {0} : f[n] = Step[<<f[n - 1], n>>]
  BY <1>7
<1> QED BY <1>8, <1>9 DEF Iterates

-----------------------------------------------------------------------------
(* Numbers.                                                                  *)

(* The powers of two, which the provers know nothing of, count subsets.      *)
LEMMA PowerIsNumberOfSubsets ==
  ASSUME NEW n \in Nat
  PROVE  /\ IsFiniteSet(SUBSET (1..n))
         /\ Cardinality(SUBSET (1..n)) = 2^n
<1>1. IsFiniteSet(1..n) /\ Cardinality(1..n) = n
  BY FS_Interval
<1> QED BY <1>1, FS_SUBSET

(* The powers of two, from one to the next.                                  *)
LEMMA PowerOfTwo ==
  /\ 2^0 = 1
  /\ \A n \in Nat : 2^n \in Nat \ {0} /\ 2^(n + 1) = 2 * 2^n
<1>1. 2^0 = 1
  OBVIOUS
<1>2. ASSUME NEW n \in Nat PROVE 2^n \in Nat \ {0}
  <2>1. Cardinality(SUBSET (1..n)) \in Nat
    BY PowerIsNumberOfSubsets, FS_CardinalityType
  <2>2. Cardinality(SUBSET (1..n)) # 0
    <3>1. {} \in SUBSET (1..n)
      OBVIOUS
    <3> QED BY <3>1, PowerIsNumberOfSubsets, FS_EmptySet
  <2> QED BY <2>1, <2>2, PowerIsNumberOfSubsets
<1>3. ASSUME NEW n \in Nat PROVE 2^(n + 1) = 2 * 2^n
  <2> DEFINE A == SUBSET (1..n)
             B == {T \cup {n + 1} : T \in A}
             f == [T \in A |-> T \cup {n + 1}]
  <2>1. SUBSET (1..n + 1) = A \cup B
    <3>1. ASSUME NEW T \in SUBSET (1..n + 1) PROVE T \in A \cup B
      <4>1. CASE n + 1 \in T
        <5>1. T \ {n + 1} \in A /\ T = (T \ {n + 1}) \cup {n + 1}
          BY <4>1
        <5> QED BY <5>1
      <4>2. CASE n + 1 \notin T
        BY <4>2
      <4> QED BY <4>1, <4>2
    <3>2. A \subseteq SUBSET (1..n + 1)
      OBVIOUS
    <3>3. \A T \in A : T \cup {n + 1} \in SUBSET (1..n + 1)
      OBVIOUS
    <3>4. B \subseteq SUBSET (1..n + 1)
      BY <3>3, Zenon
    <3> HIDE DEF A, B
    <3> QED BY <3>1, <3>2, <3>4
  <2>2. A \cap B = {}
    OBVIOUS
  <2>3. IsFiniteSet(A) /\ Cardinality(A) = 2^n
    BY PowerIsNumberOfSubsets
  <2>4. f \in Bijection(A, B)
    <3>1. f \in [A -> B] /\ \A b \in B : \E a \in A : f[a] = b
      OBVIOUS
    <3>2. ASSUME NEW S \in A, NEW T \in A, f[S] = f[T] PROVE S = T
      <4>1. n + 1 \notin S /\ n + 1 \notin T /\ S \cup {n + 1} = T \cup {n + 1}
        BY <3>2
      <4> QED BY <4>1
    <3> HIDE DEF A, B, f
    <3> QED BY <3>1, <3>2 DEF Bijection, Injection, Surjection, IsInjective
  <2>5. IsFiniteSet(B) /\ Cardinality(B) = 2^n
    <3> HIDE DEF A, B, f
    <3> QED BY <2>3, <2>4, FS_Bijection DEF ExistsBijection
  <2>6. Cardinality(A \cup B) = 2^n + 2^n
    <3> HIDE DEF A, B, f
    <3>1. Cardinality(A \cap B) = 0
      BY <2>2, FS_EmptySet
    <3> QED BY <2>3, <2>5, <3>1, <1>2, FS_Union
  <2>7. Cardinality(SUBSET (1..n + 1)) = 2^(n + 1)
    BY PowerIsNumberOfSubsets, n + 1 \in Nat
  <2>8. 2^n \in Nat
    BY <1>2
  <2> HIDE DEF A, B, f
  <2>9. 2^n + 2^n = 2 * 2^n
    BY <2>8
  <2> QED BY <2>1, <2>6, <2>7, <2>9, Zenon
<1> QED BY <1>1, <1>2, <1>3

(* Multiplication keeps the order.                                           *)
LEMMA ProductOrder ==
  ASSUME NEW a \in Int, NEW b \in Int, NEW d \in Nat, a <= b
  PROVE  d * a <= d * b
BY SMT

(* Quotient and remainder.                                                   *)
LEMMA DivMod ==
  ASSUME NEW a \in Nat, NEW d \in Nat \ {0}
  PROVE  a \div d \in Nat /\ a % d \in 0..d - 1 /\ a = d * (a \div d) + (a % d)
BY SMT

(* There is one quotient and one remainder.                                  *)
LEMMA DivUnique ==
  ASSUME NEW a \in Nat, NEW d \in Nat \ {0}, NEW q \in Int, NEW r \in 0..d-1, a = d * q + r
  PROVE  a \div d = q /\ a % d = r
<1>1. a \div d \in Nat /\ a % d \in 0..d - 1 /\ a = d * (a \div d) + (a % d)
  BY DivMod
<1> DEFINE p == a \div d
           s == a % d
<1> HIDE DEF p, s
<1>2. p \in Nat /\ s \in 0..d-1 /\ d * p + s = d * q + r
  BY <1>1 DEF p, s
<1>3. ~ (p < q)
  <2> SUFFICES ASSUME p + 1 <= q PROVE FALSE
    BY <1>2
  <2>1. d * (p + 1) <= d * q
    BY <1>2, ProductOrder
  <2>2. d * (p + 1) = d * p + d
    BY <1>2
  <2> QED BY <2>1, <2>2, <1>2
<1>4. ~ (q < p)
  <2> SUFFICES ASSUME q + 1 <= p PROVE FALSE
    BY <1>2
  <2>1. d * (q + 1) <= d * p
    BY <1>2, ProductOrder
  <2>2. d * (q + 1) = d * q + d
    BY <1>2
  <2> QED BY <2>1, <2>2, <1>2
<1>5. p = q
  BY <1>2, <1>3, <1>4
<1>6. s = r
  BY <1>2, <1>5
<1> QED BY <1>5, <1>6 DEF p, s

(* Dividing twice is dividing by the product.                                *)
LEMMA DivDiv ==
  ASSUME NEW a \in Nat, NEW d \in Nat \ {0}, NEW e \in Nat \ {0}
  PROVE  (a \div d) \div e = a \div (e * d)
<1> DEFINE q == a \div d
           r == a % d
           p == q \div e
           s == q % e
<1>1. q \in Nat /\ r \in 0..d - 1 /\ a = d * q + r
  BY DivMod
<1>2. p \in Nat /\ s \in 0..e - 1 /\ q = e * p + s
  <2> HIDE DEF q
  <2> QED BY DivMod, <1>1
<1> HIDE DEF q, r, p, s
<1>3. a = (e * d) * p + (d * s + r)
  <2>1. d * (e * p + s) = (e * d) * p + d * s
    BY <1>2
  <2> QED BY <1>1, <1>2, <2>1
<1>4. d * s + r \in 0..e * d - 1
  <2>1. d * s <= d * (e - 1)
    BY <1>2, ProductOrder
  <2>2. d * (e - 1) = e * d - d
    OBVIOUS
  <2>3. d * s \in Nat
    BY <1>2
  <2> QED BY <2>1, <2>2, <2>3, <1>1
<1>5. e * d \in Nat \ {0}
  BY SMT
<1>6. a \div (e * d) = p
  BY <1>3, <1>4, <1>5, <1>2, DivUnique
<1> QED BY <1>6 DEF p, q

(* The powers of 256, from one to the next.                                  *)
LEMMA SpanStep ==
  /\ Span(0) = 1
  /\ \A n \in Nat : Span(n) \in Nat \ {0} /\ Span(n + 1) = 256 * Span(n)
<1>1. Span(0) = 1
  BY PowerOfTwo DEF Span
<1>2. ASSUME NEW n \in Nat PROVE Span(n) \in Nat \ {0}
  BY PowerOfTwo, 8 * n \in Nat DEF Span
<1>3. ASSUME NEW n \in Nat PROVE Span(n + 1) = 256 * Span(n)
  <2> DEFINE P(k) == 2^(8 * n + k)
  <2>1. \A k \in Nat : P(k) \in Nat /\ P(k + 1) = 2 * P(k)
    <3> TAKE k \in Nat
    <3>1. 8 * n + k \in Nat /\ (8 * n + k) + 1 = 8 * n + (k + 1)
      OBVIOUS
    <3> QED BY <3>1, PowerOfTwo
  <2>2. P(0) = Span(n) /\ P(8) = Span(n + 1)
    <3>1. 8 * n + 0 = 8 * n /\ 8 * n + 8 = 8 * (n + 1)
      OBVIOUS
    <3> QED BY <3>1 DEF Span
  <2> HIDE DEF P
  <2>3. P(1) = 2 * P(0) /\ P(2) = 2 * P(1) /\ P(3) = 2 * P(2) /\ P(4) = 2 * P(3)
    BY <2>1, P(0 + 1) = 2 * P(0), P(1 + 1) = 2 * P(1), P(2 + 1) = 2 * P(2), P(3 + 1) = 2 * P(3)
  <2>4. P(5) = 2 * P(4) /\ P(6) = 2 * P(5) /\ P(7) = 2 * P(6) /\ P(8) = 2 * P(7)
    BY <2>1, P(4 + 1) = 2 * P(4), P(5 + 1) = 2 * P(5), P(6 + 1) = 2 * P(6), P(7 + 1) = 2 * P(7)
  <2>5. P(0) \in Nat
    BY <2>1
  <2> QED BY <2>2, <2>3, <2>4, <2>5
<1> QED BY <1>1, <1>2, <1>3

(* More bytes, more numbers.                                                 *)
LEMMA SpanOrder ==
  ASSUME NEW m \in Nat, NEW n \in Nat, m <= n
  PROVE  Span(m) <= Span(n)
<1> DEFINE S == {k \in Nat : Span(m) <= Span(m + k)}
<1>1. 0 \in S
  BY m + 0 = m, SpanStep
<1>2. ASSUME NEW k \in Nat, k \in S PROVE k + 1 \in S
  <2>1. Span(m + (k + 1)) = 256 * Span(m + k)
    BY SpanStep, m + k \in Nat, m + (k + 1) = (m + k) + 1
  <2>2. Span(m + k) \in Nat /\ Span(m) \in Nat
    BY SpanStep, m + k \in Nat
  <2> QED BY <2>1, <2>2, <1>2
<1>3. n - m \in S
  <2>1. n - m \in Nat
    OBVIOUS
  <2> HIDE DEF S
  <2> QED BY <1>1, <1>2, <2>1, NatInduct
<1> QED BY <1>3, m + (n - m) = n

(* The same for a sequence of so many values.                                *)
LEMMA BoundedRecursion ==
  ASSUME NEW V, NEW base \in V, NEW N \in Nat, NEW Step \in [V \X Nat -> V]
  PROVE  \E f \in [0..N -> V] : Iterates(f, 1..N, base, Step)
<1>1. PICK g \in [Nat -> V] : Iterates(g, Nat \ {0}, base, Step)
  BY NatRecursion
<1> DEFINE f == [n \in 0..N |-> g[n]]
<1>2. f \in [0..N -> V] /\ f[0] = base
  BY <1>1 DEF Iterates
<1>3. ASSUME NEW n \in 1..N PROVE f[n] = Step[<<f[n - 1], n>>]
  <2>1. n \in Nat \ {0} /\ n - 1 \in 0..N /\ n \in 0..N
    OBVIOUS
  <2>2. g[n] = Step[<<g[n - 1], n>>]
    BY <1>1, <2>1 DEF Iterates
  <2> QED BY <2>1, <2>2
<1> HIDE DEF f
<1> QED BY <1>2, <1>3 DEF Iterates

-----------------------------------------------------------------------------
(* Digits and bytes.                                                         *)

(* The value of the first i digits of v, for every i.                        *)
PartialValues(u, base, v) ==
  /\ u \in [0..Len(v) -> Nat]
  /\ u[0] = 0
  /\ \A i \in 1..Len(v) : u[i] = base * u[i - 1] + v[i]

(* Digits takes one digit after the other.                                   *)
LEMMA DigitsUnfold ==
  ASSUME NEW base \in Nat, NEW v \in Seq(Nat)
  PROVE  \E u : PartialValues(u, base, v) /\ Digits(base, v) = u[Len(v)]
<1> DEFINE Fix(g) == g = [i \in 0..Len(v) |-> IF i = 0 THEN 0 ELSE base * g[i - 1] + v[i]]
<1> DEFINE Step == [p \in Nat \X Nat |-> base * p[1] + (IF p[2] \in 1..Len(v) THEN v[p[2]] ELSE 0)]
<1>1. Len(v) \in Nat /\ v \in [1..Len(v) -> Nat]
  OBVIOUS
<1>2. Step \in [Nat \X Nat -> Nat]
  BY <1>1
<1>3. \A a \in Nat, i \in 1..Len(v) : Step[<<a, i>>] = base * a + v[i]
  BY <1>1
<1> HIDE DEF Step
<1>4. PICK f \in [0..Len(v) -> Nat] : Iterates(f, 1..Len(v), 0, Step)
  BY <1>1, <1>2, BoundedRecursion
<1>5. f[0] = 0 /\ \A n \in 1..Len(v) : f[n] = Step[<<f[n - 1], n>>]
  BY <1>4 DEF Iterates
<1>6. Fix(f)
  <2>1. ASSUME NEW i \in 0..Len(v)
        PROVE  f[i] = IF i = 0 THEN 0 ELSE base * f[i - 1] + v[i]
    <3>1. CASE i = 0
      BY <3>1, <1>5
    <3>2. CASE i # 0
      <4>1. i \in 1..Len(v) /\ i - 1 \in 0..Len(v) /\ f[i - 1] \in Nat
        BY <3>2, <1>1
      <4> QED BY <4>1, <1>3, <1>5
    <3> QED BY <3>1, <3>2
  <2> QED BY <2>1
<1> DEFINE u == CHOOSE g : Fix(g)
<1>7. Fix(u)
  <2> HIDE DEF Fix
  <2> QED BY <1>6
<1>8. Digits(base, v) = u[Len(v)]
  BY DEF Digits
<1> HIDE DEF u
<1>9. \A i \in 0..Len(v) : u[i] = IF i = 0 THEN 0 ELSE base * u[i - 1] + v[i]
  BY <1>7
<1>10. \A i \in 0..Len(v) : u[i] \in Nat
  <2> DEFINE S == {k \in Nat : k <= Len(v) => u[k] \in Nat}
  <2>1. 0 \in S
    BY <1>9, <1>1
  <2>2. ASSUME NEW k \in Nat, k \in S PROVE k + 1 \in S
    <3> SUFFICES ASSUME k + 1 <= Len(v) PROVE u[k + 1] \in Nat
      OBVIOUS
    <3>1. k + 1 \in 0..Len(v) /\ k + 1 # 0 /\ (k + 1) - 1 = k /\ k + 1 \in 1..Len(v)
      BY <1>1
    <3>2. u[k + 1] = base * u[k] + v[k + 1]
      BY <3>1, <1>9
    <3> QED BY <3>1, <3>2, <2>2, <1>1
  <2> HIDE DEF S
  <2>3. Nat \subseteq S
    BY <2>1, <2>2, NatInduct
  <2> QED BY <2>3, <1>1 DEF S
<1>11. u \in [0..Len(v) -> Nat]
  <2>1. u = [i \in 0..Len(v) |-> u[i]]
    BY <1>7
  <2> HIDE DEF Fix
  <2> QED BY <2>1, <1>10
<1>12. PartialValues(u, base, v)
  <2>1. u[0] = 0
    BY <1>9, <1>1
  <2>2. \A i \in 1..Len(v) : u[i] = base * u[i - 1] + v[i]
    BY <1>9, <1>1
  <2> QED BY <1>11, <2>1, <2>2 DEF PartialValues
<1> QED BY <1>12, <1>8

(* What a byte array is.                                                     *)
LEMMA ByteSequence ==
  ASSUME NEW v \in Seq(Byte)
  PROVE  /\ v \in Seq(Nat) /\ Len(v) \in Nat /\ DOMAIN v = 1..Len(v)
         /\ \A i \in 1..Len(v) : v[i] \in Byte /\ v[i] \in 0..255
<1>1. Byte \subseteq Nat
  BY DEF Byte
<1>2. v \in Seq(Nat)
  BY <1>1, SeqMonotonic
<1>3. Len(v) \in Nat /\ DOMAIN v = 1..Len(v) /\ \A i \in 1..Len(v) : v[i] \in Byte
  BY LenProperties, ElementOfSeq
<1> QED BY <1>2, <1>3 DEF Byte

(* Only one function has the values of all prefixes.                         *)
LEMMA DigitsAre ==
  ASSUME NEW base \in Nat, NEW v \in Seq(Nat), NEW u, PartialValues(u, base, v)
  PROVE  Digits(base, v) = u[Len(v)] /\ Digits(base, v) \in Nat
<1>1. PICK w : PartialValues(w, base, v) /\ Digits(base, v) = w[Len(v)]
  BY DigitsUnfold
<1>2. Len(v) \in Nat
  OBVIOUS
<1> DEFINE S == {k \in Nat : k <= Len(v) => u[k] = w[k]}
<1>3. 0 \in S
  BY <1>1 DEF PartialValues
<1>4. ASSUME NEW k \in Nat, k \in S PROVE k + 1 \in S
  <2> SUFFICES ASSUME k + 1 <= Len(v) PROVE u[k + 1] = w[k + 1]
    OBVIOUS
  <2>1. k + 1 \in 1..Len(v) /\ (k + 1) - 1 = k /\ u[k] = w[k]
    BY <1>2, <1>4
  <2>2. u[k + 1] = base * u[k] + v[k + 1] /\ w[k + 1] = base * w[k] + v[k + 1]
    BY <1>1, <2>1 DEF PartialValues
  <2> QED BY <2>1, <2>2
<1> HIDE DEF S
<1>5. Len(v) \in S
  BY <1>2, <1>3, <1>4, NatInduct
<1>6. u[Len(v)] = w[Len(v)]
  BY <1>2, <1>5 DEF S
<1>7. u[Len(v)] \in Nat
  BY <1>2 DEF PartialValues
<1> QED BY <1>1, <1>6, <1>7

(* A byte array stands for a number with so many bytes, and, if it does not  *)
(* start with a zero, with no fewer.                                         *)
LEMMA NumberBounds ==
  ASSUME NEW v \in Seq(Byte)
  PROVE  /\ Number(v) \in 0..Span(Len(v)) - 1
         /\ v # <<>> /\ v[1] # 0 => Span(Len(v) - 1) <= Number(v)
<1>1. v \in Seq(Nat) /\ Len(v) \in Nat /\ \A i \in 1..Len(v) : v[i] \in 0..255
  BY ByteSequence
<1>2. PICK u : PartialValues(u, 256, v) /\ Number(v) = u[Len(v)]
  BY <1>1, DigitsUnfold DEF Number
<1> DEFINE S == {k \in Nat : k <= Len(v) =>
                     /\ u[k] < Span(k)
                     /\ k > 0 /\ v[1] # 0 => Span(k - 1) <= u[k]}
<1>3. 0 \in S
  BY <1>2, SpanStep DEF PartialValues
<1>4. ASSUME NEW k \in Nat, k \in S PROVE k + 1 \in S
  <2> SUFFICES ASSUME k + 1 <= Len(v)
               PROVE  /\ u[k + 1] < Span(k + 1)
                      /\ v[1] # 0 => Span(k) <= u[k + 1]
    OBVIOUS
  <2>1. k + 1 \in 1..Len(v) /\ (k + 1) - 1 = k /\ k \in 0..Len(v)
    BY <1>1
  <2>2. u[k + 1] = 256 * u[k] + v[k + 1] /\ u[k] \in Nat /\ v[k + 1] \in 0..255
    BY <1>1, <1>2, <2>1 DEF PartialValues
  <2>3. Span(k) \in Nat /\ Span(k + 1) = 256 * Span(k) /\ u[k] < Span(k)
    BY SpanStep, <1>4, <2>1
  <2>4. u[k + 1] < Span(k + 1)
    <3>1. PICK b \in 0..255 : b = v[k + 1]
      BY <2>2
    <3>2. u[k + 1] = 256 * u[k] + b /\ u[k] \in Nat
      BY <2>2, <3>1
    <3> QED BY ONLY <3>2, <2>3
  <2>5. ASSUME v[1] # 0 PROVE Span(k) <= u[k + 1]
    <3>1. CASE k = 0
      <4>1. u[0] = 0 /\ Span(0) = 1 /\ v[1] \in 0..255
        BY <1>2, <2>2, <3>1, SpanStep DEF PartialValues
      <4> QED BY <1>1, <2>1, <2>2, <2>5, <3>1, <4>1
    <3>2. CASE k # 0
      <4>1. k - 1 \in Nat /\ (k - 1) + 1 = k
        BY <3>2
      <4>2. Span(k) = 256 * Span(k - 1) /\ Span(k - 1) \in Nat
        BY SpanStep, <4>1
      <4>3. Span(k - 1) <= u[k]
        BY <1>1, <1>4, <2>1, <2>5, <3>2
      <4> QED BY <1>1, <2>1, <2>2, <4>2, <4>3
    <3> QED BY <3>1, <3>2
  <2> QED BY <2>4, <2>5
<1> HIDE DEF S
<1>5. Len(v) \in S
  BY <1>1, <1>3, <1>4, NatInduct
<1>6. u[Len(v)] \in Nat /\ Span(Len(v)) \in Nat
  <2>1. u[Len(v)] \in Nat
    BY <1>1, <1>2 DEF PartialValues
  <2> QED BY <1>1, <2>1, SpanStep
<1> QED BY <1>1, <1>2, <1>5, <1>6 DEF S

(* Leading zeros count nothing.                                              *)
LEMMA DigitsWithoutZeros ==
  ASSUME NEW base \in Nat, NEW v \in Seq(Nat), NEW k \in 1..Len(v) + 1,
         \A j \in 1..k - 1 : v[j] = 0
  PROVE  Digits(base, SubSeq(v, k, Len(v))) = Digits(base, v)
<1>1. v \in Seq(Nat) /\ Len(v) \in Nat /\ k \in Nat
  OBVIOUS
<1>2. PICK u : PartialValues(u, base, v) /\ Digits(base, v) = u[Len(v)]
  BY <1>1, DigitsUnfold
<1> DEFINE t == SubSeq(v, k, Len(v))
           w == [i \in 0..Len(t) |-> u[k - 1 + i]]
<1>3. t \in Seq(Nat) /\ Len(t) = Len(v) - k + 1 /\ \A i \in 1..Len(t) : t[i] = v[k - 1 + i]
  BY <1>1
<1>4. u[k - 1] = 0
  <2> DEFINE S == {j \in Nat : j <= k - 1 => u[j] = 0}
  <2>1. 0 \in S
    BY <1>2 DEF PartialValues
  <2>2. ASSUME NEW j \in Nat, j \in S PROVE j + 1 \in S
    <3> SUFFICES ASSUME j + 1 <= k - 1 PROVE u[j + 1] = 0
      OBVIOUS
    <3>1. j + 1 \in 1..Len(v) /\ j + 1 \in 1..k - 1 /\ (j + 1) - 1 = j /\ u[j] = 0
      BY <1>1, <2>2
    <3> QED BY <3>1, <1>2 DEF PartialValues
  <2> HIDE DEF S
  <2>3. k - 1 \in S
    <3>1. k - 1 \in Nat
      BY <1>1
    <3> QED BY <3>1, <2>1, <2>2, NatInduct
  <2> QED BY <1>1, <2>3 DEF S
<1> HIDE DEF t
<1>5. PartialValues(w, base, t)
  <2>1. w \in [0..Len(t) -> Nat]
    BY <1>1, <1>2, <1>3 DEF PartialValues
  <2>2. w[0] = 0
    BY <1>1, <1>3, <1>4
  <2>3. ASSUME NEW i \in 1..Len(t) PROVE w[i] = base * w[i - 1] + t[i]
    <3>1. k - 1 + i \in 1..Len(v) /\ (k - 1 + i) - 1 = k - 1 + (i - 1) /\ i - 1 \in 0..Len(t) /\ i \in 0..Len(t)
      BY <1>1, <1>3
    <3>2. u[k - 1 + i] = base * u[k - 1 + (i - 1)] + v[k - 1 + i]
      BY <1>2, <3>1 DEF PartialValues
    <3> QED BY <3>1, <3>2, <1>3
  <2> QED BY <2>1, <2>2, <2>3 DEF PartialValues
<1>6. Digits(base, t) = w[Len(t)]
  <2> HIDE DEF w
  <2> QED BY <1>3, <1>5, DigitsAre
<1>7. Len(t) \in 0..Len(t) /\ k - 1 + Len(t) = Len(v)
  BY <1>1, <1>3
<1> QED BY <1>2, <1>6, <1>7 DEF t

(* Where v has its first byte other than zero.                               *)
FirstNonzero(v, k) ==
  /\ \A j \in 1..k - 1 : v[j] = 0
  /\ k <= Len(v) => v[k] # 0

(* truncate drops the zeros before the first byte other than zero.           *)
LEMMA TruncateIs ==
  ASSUME NEW v \in Seq(Nat)
  PROVE  \E k \in 1..Len(v) + 1 :
            FirstNonzero(v, k) /\ truncate(v) = SubSeq(v, k, Len(v))
<1>1. Len(v) \in Nat
  OBVIOUS
<1>2. \E k \in 1..Len(v) + 1 : FirstNonzero(v, k)
  <2> DEFINE T == {k \in 1..Len(v) + 1 : k <= Len(v) => v[k] # 0}
  <2>1. T \in SUBSET Nat /\ T # {}
    <3>1. Len(v) + 1 \in T
      BY <1>1
    <3> QED BY <3>1
  <2>2. PICK k \in T : \A m \in T : k <= m
    <3> HIDE DEF T
    <3> QED BY <2>1, NatLeast
  <2>3. ASSUME NEW j \in 1..k - 1 PROVE v[j] = 0
    <3>1. j \in 1..Len(v) /\ j \notin T
      BY <1>1, <2>2
    <3> QED BY <3>1
  <2> QED BY <2>2, <2>3 DEF FirstNonzero
<1> DEFINE first == CHOOSE i \in 1..Len(v) + 1 : FirstNonzero(v, i)
<1>3. first \in 1..Len(v) + 1 /\ FirstNonzero(v, first)
  BY <1>2
<1>4. truncate(v) = SubSeq(v, first, Len(v))
  BY DEF truncate, FirstNonzero
<1> HIDE DEF first
<1> QED BY <1>3, <1>4

(* What is left has no leading zero, and stands for the same number.         *)
LEMMA TruncatedDigits ==
  ASSUME NEW base \in Nat, NEW D \in SUBSET Nat, NEW v \in Seq(D)
  PROVE  /\ truncate(v) \in Seq(D)
         /\ Len(truncate(v)) <= Len(v)
         /\ truncate(v) = <<>> \/ truncate(v)[1] # 0
         /\ Digits(base, truncate(v)) = Digits(base, v)
<1>1. v \in Seq(Nat)
  BY SeqMonotonic
<1>2. PICK k \in 1..Len(v) + 1 : FirstNonzero(v, k) /\ truncate(v) = SubSeq(v, k, Len(v))
  BY <1>1, TruncateIs
<1> DEFINE t == SubSeq(v, k, Len(v))
<1>3. t \in Seq(D) /\ Len(t) = Len(v) - k + 1
  OBVIOUS
<1>4. t = <<>> \/ t[1] # 0
  BY <1>2, <1>3 DEF FirstNonzero
<1>5. Digits(base, t) = Digits(base, v)
  BY <1>1, <1>2, DigitsWithoutZeros DEF FirstNonzero
<1> QED BY <1>2, <1>3, <1>4, <1>5

(* The same of bytes.                                                        *)
LEMMA TruncateProperties ==
  ASSUME NEW v \in Seq(Byte)
  PROVE  /\ truncate(v) \in Seq(Byte)
         /\ Len(truncate(v)) <= Len(v)
         /\ truncate(v) = <<>> \/ truncate(v)[1] # 0
         /\ Number(truncate(v)) = Number(v)
<1>1. 256 \in Nat /\ Byte \in SUBSET Nat
  BY DEF Byte
<1> QED BY <1>1, TruncatedDigits DEF Number

(* A number with so many bytes keeps no more of them.                        *)
LEMMA TruncateLength ==
  ASSUME NEW v \in Seq(Byte), NEW n \in Nat, Number(v) < Span(n)
  PROVE  Len(truncate(v)) <= n
<1> DEFINE t == truncate(v)
<1>1. t \in Seq(Byte) /\ Number(t) = Number(v) /\ (t = <<>> \/ t[1] # 0)
  BY TruncateProperties
<1> HIDE DEF t
<1>2. CASE t = <<>>
  BY <1>2 DEF t
<1>3. CASE t # <<>>
  <2>1. Len(t) \in Nat \ {0} /\ Len(t) - 1 \in Nat
    BY <1>1, <1>3
  <2>2. Span(Len(t) - 1) <= Number(v) /\ Number(v) \in Nat
    BY <1>1, <1>3, NumberBounds
  <2>3. ASSUME n <= Len(t) - 1 PROVE FALSE
    <3>1. Span(n) <= Span(Len(t) - 1)
      BY <2>1, <2>3, SpanOrder
    <3>2. Span(n) \in Nat /\ Span(Len(t) - 1) \in Nat
      BY <2>1, SpanStep
    <3> QED BY <2>2, <3>1, <3>2
  <2> QED BY <2>1, <2>3 DEF t
<1> QED BY <1>2, <1>3

-----------------------------------------------------------------------------
(* Powers and digits.                                                        *)

(* p are the powers of base.                                                 *)
Powers(p, base) ==
  /\ p \in [Nat -> Nat \ {0}]
  /\ p[0] = 1
  /\ \A n \in Nat : p[n + 1] = base * p[n]

(* A number divided by falling powers leaves its digits.                     *)
LEMMA PlacesAre ==
  ASSUME NEW base \in Nat \ {0}, NEW p, Powers(p, base),
         NEW width \in Nat, NEW v \in Nat, v < p[width],
         NEW b \in Seq(Nat), Len(b) = width,
         \A i \in 1..width : b[i] = (v \div p[width - i]) % base
  PROVE  Digits(base, b) = v
<1> DEFINE u == [i \in 0..width |-> v \div p[width - i]]
<1>1. \A i \in 0..width : p[width - i] \in Nat \ {0} /\ v \div p[width - i] \in Nat
  <2> TAKE i \in 0..width
  <2>1. p[width - i] \in Nat \ {0}
    BY width - i \in Nat DEF Powers
  <2> QED BY <2>1, DivMod
<1>2. u \in [0..width -> Nat]
  BY <1>1
<1>3. u[0] = 0
  <2>1. v \div p[width] = 0
    <3>1. p[width] \in Nat \ {0}
      BY DEF Powers
    <3>2. v \in 0..p[width] - 1 /\ v = p[width] * 0 + v
      BY <3>1
    <3> QED BY <3>1, <3>2, DivUnique
  <2> QED BY <2>1, width - 0 = width
<1>4. ASSUME NEW i \in 1..width PROVE u[i] = base * u[i - 1] + b[i]
  <2> DEFINE q == v \div p[width - i]
  <2>1. q \in Nat
    BY <1>1
  <2>2. p[width - (i - 1)] = base * p[width - i] /\ p[width - i] \in Nat \ {0}
    BY width - i \in Nat, width - (i - 1) = (width - i) + 1 DEF Powers
  <2>3. q \div base = v \div p[width - (i - 1)]
    BY <2>2, DivDiv
  <2> HIDE DEF q
  <2>4. q = base * (q \div base) + (q % base)
    BY <2>1, DivMod
  <2>5. u[i] = q /\ u[i - 1] = q \div base /\ b[i] = q % base
    BY <2>3 DEF q
  <2> QED BY <2>4, <2>5
<1> HIDE DEF u
<1>5. PartialValues(u, base, b)
  BY <1>2, <1>3, <1>4 DEF PartialValues
<1>6. Digits(base, b) = u[width]
  BY <1>5, DigitsAre
<1>7. u[width] = v
  <2>1. v \div 1 = v
    OBVIOUS
  <2> QED BY <2>1, width - width = 0 DEF u, Powers
<1> QED BY <1>6, <1>7

(* One digit more.                                                           *)
LEMMA BoundedStep ==
  ASSUME NEW base \in Nat \ {0}, NEW u \in Nat, NEW p \in Nat, u < p, NEW d \in 0..base - 1
  PROVE  base * u + d < base * p
<1>1. u + 1 \in Int /\ p \in Int /\ u + 1 <= p
  OBVIOUS
<1>2. base * (u + 1) <= base * p
  BY <1>1, ProductOrder
<1>3. base * (u + 1) = base * u + base /\ base * u \in Nat /\ base * p \in Nat
  OBVIOUS
<1> DEFINE a == base * u
           m == base * p
<1>4. a \in Nat /\ m \in Nat /\ a + base <= m
  BY <1>2, <1>3
<1> HIDE DEF a, m
<1>5. a + d < m
  BY <1>4
<1> QED BY <1>5 DEF a, m

(* So many digits are less than the power of as many.                        *)
LEMMA DigitsBound ==
  ASSUME NEW base \in Nat \ {0}, NEW p, Powers(p, base),
         NEW v \in Seq(0..base - 1)
  PROVE  Digits(base, v) \in Nat /\ Digits(base, v) < p[Len(v)]
<1>1. v \in Seq(Nat) /\ Len(v) \in Nat
  <2>1. 0..base - 1 \subseteq Nat
    OBVIOUS
  <2> QED BY <2>1, SeqMonotonic
<1>2. PICK u : PartialValues(u, base, v) /\ Digits(base, v) = u[Len(v)]
  BY <1>1, DigitsUnfold
<1> DEFINE S == {k \in Nat : k <= Len(v) => u[k] < p[k]}
<1>3. 0 \in S
  BY <1>2 DEF PartialValues, Powers
<1>4. ASSUME NEW k \in Nat, k \in S PROVE k + 1 \in S
  <2> SUFFICES ASSUME k + 1 <= Len(v) PROVE u[k + 1] < p[k + 1]
    OBVIOUS
  <2>1. k + 1 \in 1..Len(v) /\ (k + 1) - 1 = k /\ k \in 0..Len(v)
    BY <1>1
  <2>2. u[k + 1] = base * u[k] + v[k + 1] /\ u[k] \in Nat /\ v[k + 1] \in 0..base - 1
    <3>1. v[k + 1] \in 0..base - 1
      BY <2>1, ElementOfSeq
    <3> QED BY <1>2, <2>1, <3>1 DEF PartialValues
  <2>3. p[k] \in Nat /\ p[k + 1] = base * p[k] /\ u[k] < p[k]
    BY <1>4, <2>1 DEF Powers
  <2> QED BY <2>2, <2>3, BoundedStep
<1> HIDE DEF S
<1>5. Len(v) \in S
  BY <1>1, <1>3, <1>4, NatInduct
<1>6. u[Len(v)] \in Nat
  BY <1>1, <1>2 DEF PartialValues
<1> QED BY <1>1, <1>2, <1>5, <1>6 DEF S

(* Powers grow.                                                              *)
LEMMA PowersGrow ==
  ASSUME NEW base \in Nat \ {0}, NEW p, Powers(p, base),
         NEW m \in Nat, NEW n \in Nat, m <= n
  PROVE  p[m] <= p[n]
<1> DEFINE S == {k \in Nat : p[m] <= p[m + k]}
<1>1. 0 \in S
  BY m + 0 = m DEF Powers
<1>2. ASSUME NEW k \in Nat, k \in S PROVE k + 1 \in S
  <2>1. p[m + (k + 1)] = base * p[m + k] /\ p[m + k] \in Nat /\ p[m] \in Nat
    BY m + k \in Nat, m + (k + 1) = (m + k) + 1 DEF Powers
  <2>2. p[m + k] * 1 <= p[m + k] * base
    BY <2>1, ProductOrder
  <2>3. p[m + k] * base = base * p[m + k] /\ base * p[m + k] \in Nat
    BY <2>1
  <2> QED BY <1>2, <2>1, <2>2, <2>3
<1>3. n - m \in S
  <2>1. n - m \in Nat
    OBVIOUS
  <2> HIDE DEF S
  <2> QED BY <1>1, <1>2, <2>1, NatInduct
<1> QED BY <1>3, m + (n - m) = n

(* What the digits from a + 1 to a + n add to the value of those before.     *)
LEMMA PartOfDigits ==
  ASSUME NEW base \in Nat \ {0}, NEW p, Powers(p, base),
         NEW v \in Seq(Nat), NEW u, PartialValues(u, base, v),
         NEW a \in Nat, NEW n \in Nat, a + n <= Len(v)
  PROVE  u[a + n] = p[n] * u[a] + Digits(base, SubSeq(v, a + 1, a + n))
<1> DEFINE t == SubSeq(v, a + 1, a + n)
<1>1. Len(v) \in Nat /\ a \in 0..Len(v)
  OBVIOUS
<1>2. t \in Seq(Nat) /\ Len(t) = n /\ \A i \in 1..n : t[i] = v[a + i]
  BY <1>1
<1>3. u[a] \in Nat
  BY <1>1 DEF PartialValues
<1> HIDE DEF t
<1>4. PICK w : PartialValues(w, base, t) /\ Digits(base, t) = w[Len(t)]
  BY <1>2, DigitsUnfold
<1> DEFINE S == {k \in Nat : k <= n => u[a + k] = p[k] * u[a] + w[k]}
<1>5. 0 \in S
  <2>1. 1 * u[a] + 0 = u[a]
    BY <1>3
  <2> QED BY <1>4, <2>1, a + 0 = a DEF PartialValues, Powers
<1>6. ASSUME NEW k \in Nat, k \in S PROVE k + 1 \in S
  <2> SUFFICES ASSUME k + 1 <= n PROVE u[a + (k + 1)] = p[k + 1] * u[a] + w[k + 1]
    OBVIOUS
  <2>1. /\ k + 1 \in 1..n /\ (k + 1) - 1 = k /\ k \in 0..n
        /\ a + (k + 1) \in 1..Len(v) /\ (a + (k + 1)) - 1 = a + k
    BY <1>1
  <2>2. u[a + (k + 1)] = base * u[a + k] + v[a + (k + 1)]
    BY <2>1 DEF PartialValues
  <2>3. w[k + 1] = base * w[k] + t[k + 1] /\ t[k + 1] = v[a + (k + 1)] /\ w[k] \in Nat
    BY <1>2, <1>4, <2>1 DEF PartialValues
  <2>4. u[a + k] = p[k] * u[a] + w[k]
    BY <1>6, <2>1
  <2>5. p[k + 1] = base * p[k] /\ p[k] \in Nat
    BY DEF Powers
  <2>6. t[k + 1] \in Nat
    BY <1>2, <2>1, ElementOfSeq
  <2>7. /\ base * (p[k] * u[a] + w[k]) = (base * p[k]) * u[a] + base * w[k]
        /\ (base * p[k]) * u[a] \in Nat /\ base * w[k] \in Nat
    <3>1. base \in Nat /\ p[k] \in Nat /\ u[a] \in Nat /\ w[k] \in Nat
      BY <1>3, <2>3, <2>5
    <3> DEFINE b == base
               q == p[k]
               x == u[a]
               y == w[k]
    <3>2. b \in Nat /\ q \in Nat /\ x \in Nat /\ y \in Nat
      BY <3>1
    <3> HIDE DEF b, q, x, y
    <3>3. b * (q * x + y) = (b * q) * x + b * y /\ (b * q) * x \in Nat /\ b * y \in Nat
      BY ONLY <3>2
    <3> QED BY <3>3 DEF b, q, x, y
  <2> DEFINE x == (base * p[k]) * u[a]
             y == base * w[k]
  <2>9. /\ u[a + (k + 1)] = (x + y) + t[k + 1] /\ w[k + 1] = y + t[k + 1]
        /\ p[k + 1] * u[a] = x /\ x \in Nat /\ y \in Nat
    BY <2>2, <2>3, <2>4, <2>5, <2>7
  <2> HIDE DEF x, y
  <2> QED BY <2>6, <2>9
<1> HIDE DEF S
<1>7. n \in S
  BY <1>5, <1>6, NatInduct
<1> QED BY <1>2, <1>4, <1>7 DEF S, t

(* Digits z are taken together by the width, from the end: the first cut[k]  *)
(* of them make the first k digits of w.                                     *)
Groups(cut, width, base, z, w) ==
  /\ cut \in [0..Len(w) -> 0..Len(z)]
  /\ cut[0] = 0 /\ cut[Len(w)] = Len(z)
  /\ \A k \in 1..Len(w) :
        /\ cut[k - 1] <= cut[k]
        /\ k > 1 => cut[k] = cut[k - 1] + width
        /\ Digits(base, SubSeq(z, cut[k - 1] + 1, cut[k])) = w[k]

(* They are digits to a power of the base.                                   *)
LEMMA Regrouped ==
  ASSUME NEW base \in Nat \ {0}, NEW p, Powers(p, base),
         NEW z \in Seq(Nat), NEW w \in Seq(Nat), NEW width \in Nat,
         NEW cut, Groups(cut, width, base, z, w)
  PROVE  Digits(p[width], w) = Digits(base, z)
<1> USE DEF Groups
<1>1. PICK u : PartialValues(u, base, z) /\ Digits(base, z) = u[Len(z)]
  BY DigitsUnfold
<1>2. Len(w) \in Nat /\ Len(z) \in Nat
  OBVIOUS
<1> DEFINE g == [k \in 0..Len(w) |-> u[cut[k]]]
<1>3. g \in [0..Len(w) -> Nat]
  <2>1. \A i \in 0..Len(z) : u[i] \in Nat
    BY <1>1 DEF PartialValues
  <2> QED BY <2>1
<1>4. g[0] = 0
  BY <1>1, <1>2 DEF PartialValues
<1>5. ASSUME NEW k \in 1..Len(w) PROVE g[k] = p[width] * g[k - 1] + w[k]
  <2> DEFINE a == cut[k - 1]
             n == cut[k] - cut[k - 1]
  <2>1. k - 1 \in 0..Len(w) /\ k \in 0..Len(w)
    BY <1>2
  <2>2. cut[k - 1] \in 0..Len(z) /\ cut[k] \in 0..Len(z) /\ cut[k - 1] <= cut[k]
    BY <2>1
  <2>3. a \in Nat /\ n \in Nat /\ a + n = cut[k] /\ a + n <= Len(z)
    BY <1>2, <2>2
  <2>4. Digits(base, SubSeq(z, a + 1, a + n)) = w[k]
    BY <2>3
  <2>5. g[k] = u[a + n] /\ g[k - 1] = u[a] /\ g[k - 1] \in Nat
    BY <1>3, <2>1, <2>3
  <2>6. n = width \/ g[k - 1] = 0
    <3>1. k > 1 \/ k - 1 = 0
      BY <1>2
    <3>2. k > 1 => n = width
      BY <2>2
    <3>3. CASE k - 1 = 0
      BY <1>4, <3>3
    <3> HIDE DEF g, n
    <3> QED BY <3>1, <3>2, <3>3
  <2>7. p[n] \in Nat /\ p[width] \in Nat
    <3> HIDE DEF a, n
    <3> QED BY <2>3 DEF Powers
  <2> HIDE DEF g, a, n
  <2>8. g[k] = p[n] * g[k - 1] + w[k]
    BY <1>1, <2>3, <2>4, <2>5, PartOfDigits
  <2>9. p[n] * g[k - 1] = p[width] * g[k - 1]
    <3>1. p[n] * 0 = 0 /\ p[width] * 0 = 0
      BY <2>7
    <3> QED BY <2>6, <3>1
  <2> QED BY <2>8, <2>9
<1> HIDE DEF g
<1>6. PartialValues(g, p[width], w)
  BY <1>3, <1>4, <1>5 DEF PartialValues
<1>7. p[width] \in Nat
  BY DEF Powers
<1>8. Digits(p[width], w) = g[Len(w)]
  BY <1>6, <1>7, DigitsAre
<1> QED BY <1>1, <1>2, <1>8 DEF g

(* The powers of 256.                                                        *)
LEMMA SpansArePowers ==
  Powers([n \in Nat |-> Span(n)], 256)
BY SpanStep DEF Powers

(* BigEndian writes a number that has no more bytes as it is.                *)
LEMMA BigEndianProperties ==
  ASSUME NEW v \in Nat, NEW width \in Nat
  PROVE  /\ BigEndian(v, width) \in Seq(Byte)
         /\ Len(BigEndian(v, width)) = width
         /\ v < Span(width) => Number(BigEndian(v, width)) = v
<1> DEFINE b == BigEndian(v, width)
           p == [n \in Nat |-> Span(n)]
<1>1. Powers(p, 256) /\ p[width] = Span(width)
  BY SpansArePowers
<1>2. \A i \in 1..width : Span(width - i) \in Nat \ {0} /\ p[width - i] = Span(width - i)
  <2> TAKE i \in 1..width
  <2>1. width - i \in Nat
    OBVIOUS
  <2> QED BY <2>1, SpanStep
<1> HIDE DEF p
<1>3. b = [i \in 1..width |-> (v \div Span(width - i)) % 256]
  BY DEF BigEndian
<1> HIDE DEF b
<1>4. b \in Seq(Byte) /\ Len(b) = width
  <2>1. ASSUME NEW i \in 1..width PROVE (v \div Span(width - i)) % 256 \in 0..255
    <3>1. v \div Span(width - i) \in Nat
      BY <1>2, DivMod
    <3> QED BY <3>1
  <2>2. b \in [1..width -> Byte]
    BY <1>3, <2>1 DEF Byte
  <2> QED BY <2>2, <1>3
<1>5. ASSUME v < Span(width) PROVE Number(b) = v
  <2>1. b \in Seq(Nat) /\ 256 \in Nat \ {0} /\ v < p[width]
    BY <1>1, <1>4, <1>5, ByteSequence
  <2>2. \A i \in 1..width : b[i] = (v \div p[width - i]) % 256
    BY <1>2, <1>3
  <2> QED BY <1>1, <1>4, <2>1, <2>2, PlacesAre DEF Number
<1> QED BY <1>4, <1>5 DEF b

(* The first k of the byte arrays s behind each other, for every k.          *)
Joined(u, s) ==
  /\ u \in [1..Len(s) -> Seq(Byte)]
  /\ u[1] = s[1]
  /\ \A i \in 2..Len(s) : u[i] = u[i - 1] \o s[i]

(* FlattenSeq joins one after the other.                                     *)
LEMMA FlattenUnfolds ==
  ASSUME NEW s \in Seq(Seq(Byte)), s # <<>>
  PROVE  \E u : Joined(u, s) /\ FlattenSeq(s) = u[Len(s)]
<1> DEFINE N == Len(s)
           V == Seq(Byte)
           Fix(g) == g = [i \in 1..N |-> IF i = 1 THEN s[i] ELSE g[i - 1] \o s[i]]
           Step == [p \in V \X Nat |-> IF p[2] \in 1..N THEN p[1] \o s[p[2]] ELSE p[1]]
<1>1. N \in Nat \ {0}
  BY EmptySeq
<1>2. \A i \in 1..N : s[i] \in V
  BY ElementOfSeq
<1>3. Step \in [V \X Nat -> V]
  <2>1. ASSUME NEW p \in V \X Nat PROVE (IF p[2] \in 1..N THEN p[1] \o s[p[2]] ELSE p[1]) \in V
    <3>1. p[1] \in V
      OBVIOUS
    <3>2. CASE p[2] \in 1..N
      <4>1. s[p[2]] \in V
        BY <1>2, <3>2
      <4> QED BY <3>1, <3>2, <4>1, ConcatProperties
    <3> QED BY <3>1, <3>2
  <2> HIDE DEF V, N
  <2> QED BY <2>1
<1>4. \A a \in V, i \in 1..N : Step[<<a, i>>] = a \o s[i]
  <2> TAKE a \in V, i \in 1..N
  <2>1. <<a, i>> \in V \X Nat
    BY <1>1
  <2>2. Step[<<a, i>>] = IF <<a, i>>[2] \in 1..N THEN <<a, i>>[1] \o s[<<a, i>>[2]] ELSE <<a, i>>[1]
    <3> HIDE DEF V, N
    <3> QED BY <2>1
  <2> HIDE DEF Step, V, N
  <2> QED BY <2>2
<1>5. <<>> \in V
  BY EmptySeq
<1> HIDE DEF Step, V, N
<1>6. PICK f \in [0..N -> V] : Iterates(f, 1..N, <<>>, Step)
  BY <1>1, <1>3, <1>5, BoundedRecursion
<1>7. f[0] = <<>> /\ \A i \in 1..N : f[i] = Step[<<f[i - 1], i>>]
  BY <1>6 DEF Iterates
<1>8. \A i \in 1..N : f[i] = f[i - 1] \o s[i]
  <2> TAKE i \in 1..N
  <2>1. i - 1 \in 0..N
    BY <1>1
  <2> QED BY <1>4, <1>7, <2>1
<1> DEFINE g == [i \in 1..N |-> f[i]]
<1>9. Fix(g)
  <2>1. ASSUME NEW i \in 1..N PROVE g[i] = IF i = 1 THEN s[i] ELSE g[i - 1] \o s[i]
    <3>1. CASE i = 1
      <4>1. f[1] = <<>> \o s[1]
        BY <1>7, <1>8, <3>1, 1 - 1 = 0
      <4>2. s[1] \in Seq(Byte)
        BY <1>2, <3>1 DEF V
      <4>3. f[1] = s[1]
        BY <4>1, <4>2, ConcatEmptySeq
      <4> QED BY <3>1, <4>3
    <3>2. CASE i # 1
      <4>1. i - 1 \in 1..N
        BY <1>1, <3>2
      <4> QED BY <1>8, <3>2, <4>1
    <3> QED BY <3>1, <3>2
  <2> HIDE DEF g
  <2>2. g = [i \in 1..N |-> g[i]]
    BY DEF g
  <2> QED BY <2>1, <2>2
<1> DEFINE u == CHOOSE h : Fix(h)
<1>10. Fix(u)
  <2> HIDE DEF Fix
  <2> QED BY <1>9
<1>11. FlattenSeq(s) = u[N]
  BY <1>1 DEF FlattenSeq, N
<1> HIDE DEF u
<1>12. u = [i \in 1..N |-> IF i = 1 THEN s[i] ELSE u[i - 1] \o s[i]]
  BY <1>10
<1> HIDE DEF Fix
<1>13. \A i \in 1..N : u[i] = IF i = 1 THEN s[i] ELSE u[i - 1] \o s[i]
  BY <1>12
<1>14. \A i \in 1..N : u[i] \in V
  <2> DEFINE T == {k \in Nat : k + 1 <= N => u[k + 1] \in V}
  <2>1. 0 \in T
    <3>1. 1 \in 1..N /\ 0 + 1 = 1
      BY <1>1
    <3>2. u[1] = s[1] /\ s[1] \in V
      BY <1>2, <1>13, <3>1
    <3> QED BY <3>1, <3>2
  <2>2. ASSUME NEW k \in Nat, k \in T PROVE k + 1 \in T
    <3> SUFFICES ASSUME (k + 1) + 1 <= N PROVE u[(k + 1) + 1] \in V
      OBVIOUS
    <3>1. k + 1 + 1 <= N /\ N \in Nat
      BY <1>1
    <3>2. (k + 1) + 1 \in 1..N /\ (k + 1) + 1 # 1 /\ ((k + 1) + 1) - 1 = k + 1 /\ k + 1 <= N
      BY <3>1
    <3>3. u[(k + 1) + 1] = u[k + 1] \o s[(k + 1) + 1] /\ u[k + 1] \in V /\ s[(k + 1) + 1] \in V
      BY <1>2, <1>13, <2>2, <3>2
    <3> QED BY <3>3, ConcatProperties DEF V
  <2>3. Nat \subseteq T
    <3> HIDE DEF T
    <3> QED BY <2>1, <2>2, NatInduct
  <2> TAKE i \in 1..N
  <2>4. i - 1 \in Nat /\ (i - 1) + 1 = i /\ i <= N
    BY <1>1
  <2>5. i - 1 \in T
    <3> HIDE DEF T
    <3> QED BY <2>3, <2>4
  <2> QED BY <2>4, <2>5
<1>15. u \in [1..N -> V]
  BY <1>12, <1>14
<1>16. Joined(u, s)
  <2>1. u[1] = s[1]
    BY <1>1, <1>13
  <2>2. ASSUME NEW i \in 2..N PROVE u[i] = u[i - 1] \o s[i]
    <3>1. i \in 1..N /\ i # 1
      BY <1>1
    <3> QED BY <1>13, <3>1
  <2> QED BY <1>15, <2>1, <2>2 DEF Joined, N, V
<1> QED BY <1>11, <1>16 DEF N
=============================================================================
