---------------------------- MODULE FieldNumbers ----------------------------
(***************************************************************************)
(* Long computations with the functions of cryptography/bignum.c: two      *)
(* numbers on which any function is called whose comment allows it, in any *)
(* order.  Beside the limbs goes what they stand for modulo the prime.     *)
(* The functions leave numbers above the prime, and how far above decides  *)
(* what may be called next.                                                *)
(***************************************************************************)
EXTENDS BignumInverse, Residues

CONSTANTS
  Prime,      \* the modulus, a prime number, 3 modulo 4
  Starts,     \* the numbers a computation starts from
  MaxCalls    \* bound on the calls of a computation

ASSUME FieldAssumption ==
  /\ Prime \in 2^Bits - 2^(Bits - W - 2) + 1..2^Bits - 1
  /\ Prime % 4 = 3
  /\ Starts \subseteq 0..2^Bits - 1
  /\ MaxCalls \in Nat

VARIABLES
  x, y,       \* the numbers, in limbs
  rx, ry,     \* the residues they stand for
  limit,      \* what the last function promised: x < limit * Prime, or 0 for no promise
  calls

vars == <<x, y, rx, ry, limit, calls>>

prime == Of(Prime)

(* Both factors of bn_multiply must be smaller than MaxFactor * prime (180): *)
(* with it their product stays below 2^(W * (L + 1) + 1) * prime.            *)
MaxFactor == CHOOSE n \in 1..2^(W - T + 1) : n * n < 2^(W - T + 1) /\ (n + 1) * (n + 1) >= 2^(W - T + 1)

Fits(n) == n < 2^(W * (L + 1))

Init ==
  /\ \E m, n \in Starts : /\ x = Of(m) /\ rx = m % Prime
                          /\ y = Of(n) /\ ry = n % Prime
  /\ limit = 0
  /\ calls = 0

Result(number, residue, promise) ==
  /\ calls < MaxCalls /\ calls' = calls + 1
  /\ x' = number /\ rx' = residue /\ limit' = promise
  /\ UNCHANGED <<y, ry>>

Multiply ==
  /\ Value(x) < MaxFactor * Prime /\ Value(y) < MaxFactor * Prime
  /\ Result(bn_multiply[y, x, prime], Times(rx, ry, Prime), 2)

MultiplyBy(k) == Result(bn_mult_k[x, k, prime], (k * rx) % Prime, 2)

Add ==
  /\ Fits(Value(x) + Value(y))
  /\ Result(bn_add[x, y], (rx + ry) % Prime, 0)

AddMod == Result(bn_addmod[x, y, prime], (rx + ry) % Prime, 2)

SubtractMod ==
  /\ Value(y) < 2 * Prime
  /\ Fits(Value(x) + 2 * Prime)
  /\ Result(bn_subtractmod[x, y, prime], (rx - ry) % Prime, 0)

Difference ==
  /\ Value(x) > Value(y)
  /\ Result(bn_subtract[x, y], (rx - ry) % Prime, 0)

(* The caller's small number is at most the prime's lowest limb.             *)
SubtractSmall(n) ==
  /\ n <= prime[0]
  /\ Fits(Value(x) + Prime)
  /\ Result(bn_subi[x, n, prime], (rx - n) % Prime, 0)

(* A partly reduced number stays partly reduced.                             *)
HalveIt ==
  Result(bn_mult_half[x, prime], Times(rx, (Prime + 1) \div 2, Prime),
         IF Value(x) < 2 * Prime THEN 2 ELSE 0)

DoubleIt ==
  /\ Fits(2 * Value(x))
  /\ Result(bn_lshift[x], (2 * rx) % Prime, 0)

ReducePartly == Result(bn_fast_mod[x, prime], rx, 2)

Reduce ==
  /\ Value(x) < 2 * Prime
  /\ Result(bn_mod[x, prime], rx, 1)

Invert ==
  /\ rx # 0
  /\ Result(bn_inverse[x, prime], Inverted(rx, Prime), 1)

(* The root of a square; of another number, the root of its negative.        *)
SquareRoot ==
  /\ Value(x) < MaxFactor * Prime
  /\ Result(bn_sqrt[x, prime], Power(rx, (Prime + 1) \div 4, Prime), 1)

(* Only a reduced number fits into its words.                                *)
WriteAndRead ==
  /\ Value(x) < Prime
  /\ \/ Result(bn_read_be(bn_write_be(x)), rx, 1)
     \/ Result(bn_read_le(bn_write_le(x)), rx, 1)

Swap ==
  /\ calls < MaxCalls /\ calls' = calls + 1
  /\ x' = y /\ y' = x /\ rx' = ry /\ ry' = rx /\ limit' = 0

Next ==
  \/ Multiply \/ Add \/ AddMod \/ SubtractMod \/ Difference
  \/ \E k \in 0..4 : MultiplyBy(k)
  \/ \E n \in {1, 3} : SubtractSmall(n)
  \/ HalveIt \/ DoubleIt \/ ReducePartly \/ Reduce
  \/ Invert \/ SquareRoot \/ WriteAndRead \/ Swap

Spec == Init /\ [][Next]_vars

-----------------------------------------------------------------------------

TypeOK ==
  /\ x \in bignum256 /\ y \in bignum256
  /\ rx \in 0..Prime - 1 /\ ry \in 0..Prime - 1
  /\ limit \in 0..2
  /\ calls \in 0..MaxCalls

(* No carry or borrow is lost, however the calls follow one another: the     *)
(* limbs stay below 2^W and stand for the number they should.                *)
ResidueKept == Normalized(x) /\ Value(x) % Prime = rx

(* What a comment promises of a result holds for every argument it allows:   *)
(* "partly reduced" is below twice the prime, "reduced" below the prime.     *)
ReducedAsPromised == limit # 0 => Value(x) < limit * Prime
=============================================================================
