------------------------ MODULE AlmostInverseProofs -------------------------
(* That the loop of bn_inverse returns the inverse, for every prime and      *)
(* every input.                                                              *)
EXTENDS AlmostInverse, TLAPS

Multiple(n) == \E q \in Int : n = q * prime

TypeInv ==
  /\ x \in 1..prime - 1
  /\ u \in Nat \ {0} /\ v \in Nat \ {0}
  /\ r \in Nat /\ s \in Nat
  /\ power \in Nat \ {0}
  /\ phase \in {"loop", "divide", "done"}

LoopInv ==
  phase = "loop" =>
    /\ u * s + v * r = prime
    /\ s > 0
    /\ Multiple(x * r + u * power)
    /\ r = 0 => u = prime /\ v < u

ResultInv ==
  /\ Multiple(x * s - v * power)
  /\ phase # "loop" => v = 1 /\ s < prime
  /\ phase = "done" => power = 1

IInv == TypeInv /\ LoopInv /\ ResultInv

-----------------------------------------------------------------------------
(* Facts about products that the steps need.                                 *)

LEMMA Factor ==
  ASSUME NEW d \in Nat \ {0}, NEW n \in Nat, d * n > 0
  PROVE  n > 0 /\ n <= d * n
<1>1. n = 0 => d * n = 0
  OBVIOUS
<1>2. n > 0 => (d - 1) * n >= 0
  OBVIOUS
<1>3. d * n = (d - 1) * n + n
  OBVIOUS
<1> QED
  BY <1>1, <1>2, <1>3

LEMMA Cancel ==
  ASSUME NEW d \in Nat \ {0}, NEW m \in Int, NEW n \in Int, d * m < d * n
  PROVE  m < n
<1>1. m >= n => d * (m - n) >= 0
  OBVIOUS
<1>2. d * (m - n) = d * m - d * n
  OBVIOUS
<1> QED
  BY <1>1, <1>2

LEMMA Reorder ==
  ASSUME NEW a \in Int, NEW b \in Int, NEW c \in Int
  PROVE  (b * a) * c = a * (b * c) /\ a * (b * c) = b * (a * c)
OBVIOUS

-----------------------------------------------------------------------------
(* Multiples of the prime: sums, products, and quotients by a factor that    *)
(* has nothing in common with it.                                            *)

LEMMA MultipleSum ==
  ASSUME prime \in Nat, NEW m \in Int, NEW n \in Int, Multiple(m), Multiple(n)
  PROVE  Multiple(m + n) /\ Multiple(m - n)
<1>1. PICK p \in Int : m = p * prime
  BY DEF Multiple
<1>2. PICK q \in Int : n = q * prime
  BY DEF Multiple
<1>3. m + n = (p + q) * prime /\ m - n = (p - q) * prime
  BY <1>1, <1>2
<1>4. p + q \in Int /\ p - q \in Int
  OBVIOUS
<1> QED
  BY <1>3, <1>4, Zenon DEF Multiple

LEMMA MultipleProduct ==
  ASSUME prime \in Nat, NEW m \in Int, NEW n \in Int, Multiple(n)
  PROVE  Multiple(m * n)
<1>1. PICK q \in Int : n = q * prime
  BY DEF Multiple
<1>2. m * n = (m * q) * prime
  BY <1>1
<1> QED
  BY <1>2 DEF Multiple

LEMMA MultipleQuotient ==
  ASSUME InputAssumption, NEW d \in Factors, NEW n \in Int, Multiple(d * n)
  PROVE  Multiple(n)
<1>1. PICK a \in Int, b \in Int : a * d + b * prime = 1
  BY DEF InputAssumption
<1>2. PICK q \in Int : d * n = q * prime
  BY DEF Multiple
<1>3. d \in Int /\ prime \in Int
  BY DEF InputAssumption
<1>4. n = (a * d + b * prime) * n
  BY <1>1
<1>5. (a * d + b * prime) * n = a * (d * n) + (b * n) * prime
  BY <1>3
<1>6. a * (q * prime) + (b * n) * prime = (a * q + b * n) * prime
  BY <1>3
<1> QED
  BY <1>2, <1>4, <1>5, <1>6 DEF Multiple

LEMMA CoprimeDivisor ==
  ASSUME InputAssumption, NEW d \in Factors, NEW n \in Nat, prime = d * n
  PROVE  d = 1
<1>1. PICK a \in Int, b \in Int : a * d + b * prime = 1
  BY DEF InputAssumption
<1>2. d \in Nat \ {0}
  BY DEF InputAssumption
<1>3. a * d + b * (d * n) = d * (a + b * n)
  BY <1>2
<1>4. d * (a + b * n) = 1
  BY <1>1, <1>3
<1>5. \A c \in Int : d * c = 1 => d = 1
  BY <1>2
<1> QED
  BY <1>4, <1>5

-----------------------------------------------------------------------------

LEMMA InitEstablishes ==
  ASSUME InputAssumption, Init
  PROVE  IInv
<1>1. Multiple(x * 0 + prime * 1)
  <2>1. x * 0 + prime * 1 = 1 * prime
    BY DEF InputAssumption, Init
  <2> QED
    BY <2>1 DEF Multiple
<1>2. Multiple(x * 1 - x * 1)
  <2>1. x * 1 - x * 1 = 0 * prime
    BY DEF InputAssumption, Init
  <2> QED
    BY <2>1 DEF Multiple
<1> QED
  BY <1>1, <1>2 DEF InputAssumption, Init, IInv, TypeInv, LoopInv, ResultInv

LEMMA HalveVStep ==
  ASSUME InputAssumption, IInv, NEW d \in Factors, HalveV(d)
  PROVE  IInv'
<1> USE DEF HalveV
<1>1. d \in Nat \ {0} /\ prime \in Nat
  BY DEF InputAssumption
<1>2. v' \in Nat \ {0} /\ v' <= v
  <2>1. v' \in Nat /\ v = d * v'
    OBVIOUS
  <2>2. d * v' > 0
    BY <2>1 DEF IInv, TypeInv
  <2>3. v' > 0 /\ v' <= d * v'
    BY <1>1, <2>1, <2>2, Factor
  <2> QED
    BY <2>1, <2>3
<1>3. TypeInv'
  BY <1>1, <1>2 DEF IInv, TypeInv
<1>4. LoopInv'
  <2>1. u * s + v' * (d * r) = prime
    <3>1. (d * v') * r = v' * (d * r)
      BY <1>1, <1>2, Reorder DEF IInv, TypeInv
    <3> QED
      BY <3>1 DEF IInv, LoopInv
  <2>2. Multiple(d * (x * r + u * power))
    <3>1. d \in Int /\ x * r + u * power \in Int
      BY <1>1 DEF IInv, TypeInv
    <3> QED
      BY <1>1, <3>1, MultipleProduct DEF IInv, LoopInv
  <2>3. d * (x * r + u * power) = x * (d * r) + u * (d * power)
    BY <1>1 DEF IInv, TypeInv
  <2>4. d * r = 0 => r = 0
    BY <1>1 DEF IInv, TypeInv
  <2> QED
    BY <1>2, <2>1, <2>2, <2>3, <2>4 DEF IInv, TypeInv, LoopInv, Multiple
<1>5. ResultInv'
  <2>1. v * power = v' * (d * power)
    BY <1>1, <1>2 DEF IInv, TypeInv
  <2> QED
    BY <2>1 DEF IInv, ResultInv, Multiple
<1> QED
  BY <1>3, <1>4, <1>5 DEF IInv

LEMMA HalveUStep ==
  ASSUME InputAssumption, IInv, NEW d \in Factors, HalveU(d)
  PROVE  IInv'
<1> USE DEF HalveU
<1>1. d \in Nat \ {0} /\ prime \in Nat
  BY DEF InputAssumption
<1>2. u' \in Nat \ {0}
  <2>1. u' \in Nat /\ u = d * u'
    OBVIOUS
  <2>2. d * u' > 0
    BY <2>1 DEF IInv, TypeInv
  <2>3. u' > 0 /\ u' <= d * u'
    BY <1>1, <2>1, <2>2, Factor
  <2> QED
    BY <2>1, <2>3
<1>3. TypeInv'
  BY <1>1, <1>2 DEF IInv, TypeInv
<1>4. LoopInv'
  <2>1. u' * (d * s) + v * r = prime
    <3>1. (d * u') * s = u' * (d * s)
      BY <1>1, <1>2, Reorder DEF IInv, TypeInv
    <3> QED
      BY <3>1 DEF IInv, LoopInv
  <2>2. u * power = u' * (d * power)
    BY <1>1, <1>2 DEF IInv, TypeInv
  <2>3. d * s > 0
    BY <1>1 DEF IInv, TypeInv, LoopInv
  <2>4. r = 0 => u' = u
    <3>1. SUFFICES ASSUME r = 0 PROVE u' = u
      OBVIOUS
    <3>2. prime = d * u'
      BY <3>1 DEF IInv, LoopInv
    <3>3. d = 1
      BY <1>2, <3>2, CoprimeDivisor
    <3>4. \A n \in Nat : 1 * n = n
      BY Z3
    <3>5. u = 1 * u'
      BY <3>3
    <3> QED
      BY <1>2, <3>4, <3>5, Zenon
  <2> QED
    BY <2>1, <2>2, <2>3, <2>4 DEF IInv, TypeInv, LoopInv, Multiple
<1>5. ResultInv'
  <2>1. Multiple(d * (x * s - v * power))
    <3>1. d \in Int /\ x * s - v * power \in Int
      BY <1>1 DEF IInv, TypeInv
    <3> QED
      BY <1>1, <3>1, MultipleProduct DEF IInv, ResultInv
  <2>2. d * (x * s - v * power) = x * (d * s) - v * (d * power)
    BY <1>1 DEF IInv, TypeInv
  <2> QED
    BY <2>1, <2>2 DEF IInv, TypeInv, ResultInv, Multiple
<1> QED
  BY <1>3, <1>4, <1>5 DEF IInv

LEMMA SubtractVStep ==
  ASSUME InputAssumption, IInv, SubtractV
  PROVE  IInv'
<1> USE DEF SubtractV
<1>1. TypeInv'
  BY DEF IInv, TypeInv
<1>2. LoopInv'
  <2>1. u' * s + v * r' = prime
    <3>1. (u - v) * s + v * (r + s) = u * s + v * r
      BY DEF IInv, TypeInv
    <3> QED
      BY <3>1 DEF IInv, LoopInv
  <2>2. Multiple((x * r + u * power) + (x * s - v * power))
    BY MultipleSum DEF InputAssumption, IInv, TypeInv, LoopInv, ResultInv
  <2>3. (x * r + u * power) + (x * s - v * power) = x * (r + s) + (u - v) * power
    BY DEF IInv, TypeInv
  <2>4. r' # 0
    BY DEF IInv, TypeInv, LoopInv
  <2> QED
    BY <2>1, <2>2, <2>3, <2>4 DEF IInv, TypeInv, LoopInv, Multiple
<1>3. ResultInv'
  BY DEF IInv, ResultInv, Multiple
<1> QED
  BY <1>1, <1>2, <1>3 DEF IInv

LEMMA SubtractUStep ==
  ASSUME InputAssumption, IInv, SubtractU
  PROVE  IInv'
<1> USE DEF SubtractU
<1>1. TypeInv'
  BY DEF IInv, TypeInv
<1>2. LoopInv'
  <2>1. u * s' + v' * r = prime
    <3>1. u * (s + r) + (v - u) * r = u * s + v * r
      BY DEF IInv, TypeInv
    <3> QED
      BY <3>1 DEF IInv, LoopInv
  <2> QED
    BY <2>1 DEF IInv, TypeInv, LoopInv, Multiple
<1>3. ResultInv'
  <2>1. Multiple((x * r + u * power) + (x * s - v * power))
    BY MultipleSum DEF InputAssumption, IInv, TypeInv, LoopInv, ResultInv
  <2>2. (x * r + u * power) + (x * s - v * power) = x * (s + r) - (v - u) * power
    BY DEF IInv, TypeInv
  <2> QED
    BY <2>1, <2>2 DEF IInv, TypeInv, ResultInv, Multiple
<1> QED
  BY <1>1, <1>2, <1>3 DEF IInv

(* At the end of the loop s + r is the prime, and r is not zero.             *)
LEMMA FinishStep ==
  ASSUME InputAssumption, IInv, Finish
  PROVE  IInv'
<1>1. s + r = prime /\ r # 0
  BY DEF Finish, InputAssumption, IInv, TypeInv, LoopInv
<1> QED
  BY <1>1 DEF Finish, InputAssumption, IInv, TypeInv, LoopInv, ResultInv, Multiple

LEMMA DivideStep ==
  ASSUME InputAssumption, IInv, NEW d \in Factors, NEW factor \in 0..d - 1, Divide(d, factor)
  PROVE  IInv'
<1> USE DEF Divide
<1>1. d \in Nat \ {0} /\ prime \in Nat \ {0} /\ factor \in Nat
  BY DEF InputAssumption
<1>2. power' \in Nat \ {0}
  <2>1. power' \in Nat /\ power = d * power'
    OBVIOUS
  <2>2. d * power' > 0
    BY <2>1 DEF IInv, TypeInv
  <2>3. power' > 0 /\ power' <= d * power'
    BY <1>1, <2>1, <2>2, Factor
  <2> QED
    BY <2>1, <2>3
<1>3. TypeInv'
  BY <1>1, <1>2 DEF IInv, TypeInv
<1>4. LoopInv'
  BY DEF LoopInv
<1>5. Multiple(x * s' - power')
  <2>1. Multiple((x * s - power) + (x * factor) * prime)
    <3>1. Multiple((x * factor) * prime)
      BY <1>1 DEF Multiple, IInv, TypeInv
    <3> QED
      BY <1>1, <3>1, MultipleSum DEF IInv, TypeInv, ResultInv
  <2>2. d * (x * s' - power') = (x * s - power) + (x * factor) * prime
    <3>1. d * (x * s' - power') = x * (d * s') - d * power'
      BY <1>1, <1>2 DEF IInv, TypeInv
    <3>2. x * (s + factor * prime) - power = (x * s - power) + (x * factor) * prime
      BY <1>1 DEF IInv, TypeInv
    <3> QED
      BY <3>1, <3>2
  <2> QED
    BY <1>2, <1>3, <2>1, <2>2, MultipleQuotient DEF TypeInv
<1>6. s' < prime
  <2>1. d * s' < d * prime
    <3>1. factor * prime <= (d - 1) * prime
      BY <1>1
    <3>2. (d - 1) * prime = d * prime - prime
      BY <1>1
    <3>3. s < prime
      BY DEF IInv, ResultInv
    <3>4. d * prime \in Int /\ factor * prime \in Int /\ (d - 1) * prime \in Int
      BY <1>1
    <3>5. s + factor * prime < d * prime
      BY <1>1, <3>1, <3>2, <3>3, <3>4 DEF IInv, TypeInv
    <3> QED
      BY <3>5
  <2>2. s' \in Int /\ prime \in Int
    BY <1>1
  <2> QED
    BY <1>1, <2>1, <2>2, Cancel
<1>7. ResultInv'
  BY <1>2, <1>5, <1>6 DEF IInv, ResultInv, Multiple
<1> QED
  BY <1>3, <1>4, <1>7 DEF IInv

LEMMA ReturnStep ==
  ASSUME IInv, Return
  PROVE  IInv'
BY DEF Return, IInv, TypeInv, LoopInv, ResultInv, Multiple

LEMMA StutterStep ==
  ASSUME IInv, UNCHANGED vars
  PROVE  IInv'
BY DEF vars, IInv, TypeInv, LoopInv, ResultInv, Multiple

LEMMA Inductive ==
  ASSUME InputAssumption, IInv, [Next]_vars
  PROVE  IInv'
BY HalveVStep, HalveUStep, SubtractVStep, SubtractUStep, FinishStep, DivideStep, ReturnStep,
   StutterStep DEF Next

LEMMA MultipleIsCongruent ==
  ASSUME prime \in Nat \ {0}, NEW n \in Int, Multiple(n)
  PROVE  n % prime = 0
<1>1. PICK q \in Int : n = q * prime
  BY DEF Multiple
<1> QED
  BY <1>1

LEMMA InvariantSuffices ==
  ASSUME InputAssumption, IInv
  PROVE  IsInverse
<1>1. SUFFICES ASSUME phase = "done" PROVE Congruent(x * s, 1) /\ s \in 0..prime - 1
  BY DEF IsInverse
<1>2. Multiple(x * s - 1)
  BY <1>1 DEF IInv, TypeInv, ResultInv
<1>3. (x * s - 1) % prime = 0
  BY <1>2, MultipleIsCongruent DEF InputAssumption, IInv, TypeInv
<1> QED
  BY <1>1, <1>3 DEF Congruent, InputAssumption, IInv, TypeInv, ResultInv

(* Whatever powers of two the loop takes out, and in which order it          *)
(* subtracts, what bn_inverse returns is the inverse, below the prime.       *)
THEOREM InverseIsRight ==
  ASSUME InputAssumption
  PROVE  Spec => []IsInverse
<1>1. Init => IInv
  BY InitEstablishes
<1>2. IInv /\ [Next]_vars => IInv'
  BY Inductive
<1>3. IInv => IsInverse
  BY InvariantSuffices
<1> QED
  BY <1>1, <1>2, <1>3, PTL DEF Spec

(* At every turn of the loop the two registers hold factors of two products  *)
(* whose sum is the prime: neither outgrows its words.                       *)
THEOREM RegistersFit ==
  ASSUME InputAssumption
  PROVE  Spec => [](phase = "loop" => Bezout)
<1>1. Init => IInv
  BY InitEstablishes
<1>2. IInv /\ [Next]_vars => IInv'
  BY Inductive
<1>3. IInv => (phase = "loop" => Bezout)
  BY DEF IInv, LoopInv, Bezout
<1> QED
  BY <1>1, <1>2, <1>3, PTL DEF Spec
=============================================================================
