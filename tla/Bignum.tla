------------------------------- MODULE Bignum -------------------------------
(***************************************************************************)
(* cryptography/bignum.c: numbers of L + 1 limbs of W bits, the lowest     *)
(* first.  In the code W = 30 and L = 8; the other widths follow from them *)
(* as they do there, and a word, which is both a uint32_t and one of the L *)
(* words of a number in bytes, has W + 2 bits.  x | y and x & y of the     *)
(* code join and split bits that do not overlap.  The functions of the  *)
(* code are functions, which evaluate their arguments once.                *)
(***************************************************************************)
EXTENDS Integers, Sequences

CONSTANTS W, L

T     == 2 * L              \* bits of the top limb: 16
Bits  == L * W + T          \* 256
Limb  == 2^W
Word  == 2^(W + 2)
Dword == 2^(2 * W + 4)

ASSUME WidthAssumption == W \in Nat /\ L \in Nat \ {0} /\ W >= T

Limbs == 0..L
bignum256 == [Limbs -> 0..Word - 1]

U32(x) == x % Word
U64(x) == x % Dword
Low(x) == x % Limb
Shl(x, n) == U32(x * 2^n)
Shr(x, n) == x \div 2^n

(* The loop of every sum: a carry, to which a term is added for each limb,   *)
(* and whose low bits are the limb of the result.  wrap is the type of the   *)
(* carry, n the last limb.                                                   *)
Carries(n, first, term(_), wrap(_)) ==
    LET upTo[i \in 0..n] ==
          IF i = 0 THEN <<wrap(first + term(0))>>
          ELSE LET done == upTo[i - 1]
               IN  Append(done, wrap(Shr(done[i], W) + term(i)))
    IN  upTo[n]

Masked[carry \in Seq(Nat)] == [i \in Limbs |-> Low(carry[i + 1])]

(* The top limb as it is.                                                    *)
TopKept[carry \in Seq(Nat)] == [i \in Limbs |-> IF i = L THEN carry[L + 1] ELSE Low(carry[i + 1])]

Sum(first, term(_)) == Masked[Carries(L, first, term, U32)]

-----------------------------------------------------------------------------
(* What a number is worth and which numbers are in range: the reference.     *)

Value(a) ==
    LET upTo[i \in Limbs] == (IF i = 0 THEN 0 ELSE upTo[i - 1]) + a[i] * 2^(W * i)
    IN  upTo[L]

Normalized(a) == \A i \in Limbs : a[i] < Limb

Of(n) == [i \in Limbs |-> IF i = L THEN Shr(n, W * L) ELSE Low(Shr(n, W * i))]

-----------------------------------------------------------------------------
(* Conversions.  A number in bytes is its L words, the highest first.        *)

bn_read_be(in) ==
    LET limb(i) == in[L - i]
        temp(i) == IF i = 0 THEN 0 ELSE Shr(limb(i - 1), W - 2 * (i - 1))
    IN  [i \in Limbs |-> IF i = L THEN temp(L) ELSE Low(temp(i) + Shl(limb(i), 2 * i))]

bn_write_be(a) ==
    [n \in 1..L |-> U32(Shl(a[L - n + 1], W - 2 * (L - n)) + Shr(a[L - n], 2 * (L - n)))]

Backwards(s) == [n \in 1..L |-> s[L + 1 - n]]

bn_read_le(in) == bn_read_be(Backwards(in))
bn_write_le(a) == Backwards(bn_write_be(a))

bn_zero == [i \in Limbs |-> 0]
bn_one  == [i \in Limbs |-> IF i = 0 THEN 1 ELSE 0]

-----------------------------------------------------------------------------
(* Comparisons.                                                              *)

bn_is_zero(a)     == \A i \in Limbs : a[i] = 0
bn_is_equal(a, b) == \A i \in Limbs : a[i] = b[i]

(* One bit for each limb, the highest limb's first, in two words that are    *)
(* compared in the end.                                                      *)
bn_is_less(a, b) ==
    \E i \in Limbs : a[i] < b[i] /\ \A j \in i + 1..L : a[j] = b[j]

bn_cmov(cond, truecase, falsecase) == IF cond THEN truecase ELSE falsecase

Odd(a) == a[0] % 2 = 1

-----------------------------------------------------------------------------
(* Sums and shifts.                                                          *)

bn_add[a, b \in bignum256]            == Sum(0, LAMBDA i : a[i] + b[i])
bn_addi[a \in bignum256, n \in Nat]   == Sum(n, LAMBDA i : a[i])
bn_normalize(a)                       == bn_addi[a, 0]
Minus(a, b)                           == Sum(1, LAMBDA i : Limb - 1 + a[i] - b[i])
bn_subtract[a, b \in bignum256]       == Minus(a, b)

\* A broken twin of the next definition: the prime is added once.
KeptPositiveByOne(p) == p

(* A limb of the multiple of the prime that keeps a difference positive.     *)
KeptPositive(p) == 2 * p

bn_subtractmod[a, b, prime \in bignum256] ==
    Sum(1, LAMBDA i : Limb - 1 + a[i] + KeptPositive(prime[i]) - b[i])

(* The lowest limb may wrap around; adding the prime brings it back.         *)
bn_subi[a \in bignum256, n \in Nat, prime \in bignum256] ==
    bn_add[[a EXCEPT ![0] = U32(@ - n)], prime]

\* A broken twin of the next definition: the bit that moves on stays, too.
DoubledWhole(limb) == 2 * limb

Doubled(limb) == Low(2 * limb)

bn_lshift[a \in bignum256] ==
    [i \in Limbs |-> Doubled(a[i]) + (IF i = 0 THEN 0 ELSE Shr(a[i - 1] % Limb, W - 1))]

bn_rshift[a \in bignum256] ==
    [i \in Limbs |-> Shr(a[i], 1) + (IF i = L THEN 0 ELSE (a[i + 1] % 2) * 2^(W - 1))]

(* Half of x, or of x + prime if x is odd; tmp1 is the carry.                *)
bn_mult_half[x, prime \in bignum256] ==
    LET tmp2(i) == x[i] + (IF Odd(x) THEN prime[i] ELSE 0)
        term(i) == IF i = L THEN 0 ELSE (tmp2(i + 1) % 2) * 2^(W - 1)
    IN  TopKept[Carries(L, 0, LAMBDA i : Shr(tmp2(i), 1) + term(i), U32)]

-----------------------------------------------------------------------------
(* Reduction.  coef estimates the quotient from the bits above the top       *)
(* limb's; the borrows are kept positive by constants whose sum is zero.     *)

\* A broken twin of the next definition: one bit is left out.
coefTooLow(top) == Shr(top, T + 1)

coef(top) == Shr(top, T)

FastMod(x, prime) ==
    Masked[Carries(L, 0, LAMBDA i : 2^(2 * W + 1) - (IF i = 0 THEN 0 ELSE 2^(W + 1))
                                      + x[i] - prime[i] * coef(x[L]), U64)]

bn_fast_mod[x, prime \in bignum256] == FastMod(x, prime)

bn_addmod[a, b, prime \in bignum256] == bn_fast_mod[[i \in Limbs |-> U32(a[i] + b[i])], prime]

bn_mult_k[x \in bignum256, k \in Nat, prime \in bignum256] ==
    bn_fast_mod[[i \in Limbs |-> U32(k * x[i])], prime]

Mod(x, prime) == bn_cmov(bn_is_less(x, prime), x, Minus(x, prime))

bn_mod[x, prime \in bignum256] == Mod(x, prime)

(* The product: 2 * L + 2 limbs.                                             *)
Product == [0..2 * L + 1 -> Nat]

ProductLimbs[carry \in Seq(Nat)] ==
    [i \in 0..2 * L + 1 |-> IF i <= 2 * L THEN Low(carry[i + 1]) ELSE U32(Shr(carry[2 * L + 1], W))]

bn_multiply_long[k, x \in bignum256] ==
    LET first(i) == IF i > L THEN i - L ELSE 0
        term(i)  == LET from[j \in 0..L + 1] ==
                          IF j > L \/ j > i THEN 0 ELSE k[j] * x[i - j] + from[j + 1]
                    IN  from[first(i)]
    IN  ProductLimbs[Carries(2 * L, 0, term, U64)]

bn_multiply_reduce_step[res \in Product, prime \in bignum256, i \in Nat] ==
    LET estimate == U32(Shr(res[i], T) + Shl(res[i + 1], W - T))
        term(j) == 2^(2 * W + 1) - (IF j = 0 THEN 0 ELSE 2^(W + 1)) + res[i - L + j]
                     - (IF j > L THEN 0 ELSE prime[j] * estimate)
        carry   == Carries(L + 1, 0, term, U64)
    IN  [n \in 0..2 * L + 1 |-> IF n \in i - L..i + 1 THEN Low(carry[n - i + L + 1]) ELSE res[n]]

(* From the top limb down to limb i, that is L in the end.                   *)
Reducing[res \in Product, prime \in bignum256, i \in L..2 * L + 1] ==
    IF i > 2 * L THEN res ELSE bn_multiply_reduce_step[Reducing[res, prime, i + 1], prime, i]

bn_multiply_reduce[res \in Product] == [i \in Limbs |-> res[i]]

bn_multiply[k, x, prime \in bignum256] ==
    bn_multiply_reduce[Reducing[bn_multiply_long[k, x], prime, L]]

(* x^((prime + 1) / 4), from the lowest bit of the exponent on; the top      *)
(* limb's bits end the loop.                                                 *)
Powers[p \in bignum256, prime \in bignum256, i \in 0..L + 1, j \in 0..W, power, res \in bignum256] ==
    IF i > L \/ (i = L /\ Shr(p[i], j) = 0) THEN res
    ELSE IF j = W THEN Powers[p, prime, i + 1, 0, power, res]
    ELSE Powers[p, prime, i, j + 1, bn_multiply[power, power, prime],
                IF Shr(p[i], j) % 2 = 1 THEN bn_multiply[power, res, prime] ELSE res]

bn_sqrt[x, prime \in bignum256] ==
    bn_mod[Powers[bn_rshift[bn_rshift[bn_addi[prime, 1]]], prime, 0, 0, x, bn_one], prime]
=============================================================================
