---------------------------- MODULE AlmostInverse ----------------------------
(***************************************************************************)
(* What the comments of bn_inverse (cryptography/bignum.c) promise of its  *)
(* loop, on numbers: the almost inverse of Schroeppel et al.  power is     *)
(* 2^k.  Nothing here needs the prime to be one or the factors to be       *)
(* powers of two: they only must not share a factor.                       *)
(***************************************************************************)
EXTENDS Integers

CONSTANTS
  prime,
  Inputs,       \* the numbers to invert
  Factors       \* what a step may divide by: the powers of two

InputAssumption ==
  /\ prime \in Nat /\ prime > 1
  /\ Inputs \subseteq 1..prime - 1
  /\ Factors \subseteq Nat \ {0}
  /\ \A d \in Factors : \E a, b \in Int : a * d + b * prime = 1

VARIABLES
  x,            \* the number to invert
  u, v, r, s,   \* x * s = v * power and x * r = - u * power, modulo the prime
  power,
  phase         \* "loop", "divide", or "done" with the inverse in s

vars == <<x, u, v, r, s, power, phase>>

Init ==
  /\ x \in Inputs
  /\ u = prime /\ v = x
  /\ r = 0 /\ s = 1
  /\ power = 1
  /\ phase = "loop"

(* A common factor of one number and the power goes to the other register.   *)
HalveV(d) ==
  /\ phase = "loop"
  /\ v' \in Nat /\ v = d * v'
  /\ r' = d * r
  /\ power' = d * power
  /\ UNCHANGED <<x, u, s, phase>>

HalveU(d) ==
  /\ phase = "loop"
  /\ u' \in Nat /\ u = d * u'
  /\ s' = d * s
  /\ power' = d * power
  /\ UNCHANGED <<x, v, r, phase>>

SubtractV ==
  /\ phase = "loop"
  /\ u > v
  /\ u' = u - v
  /\ r' = r + s
  /\ UNCHANGED <<x, v, s, power, phase>>

SubtractU ==
  /\ phase = "loop"
  /\ v > u
  /\ v' = v - u
  /\ s' = s + r
  /\ UNCHANGED <<x, u, r, power, phase>>

Finish ==
  /\ phase = "loop"
  /\ u = 1 /\ v = 1
  /\ phase' = "divide"
  /\ UNCHANGED <<x, u, v, r, s, power>>

(* The multiple of the prime that makes s divisible by d.                    *)
Divide(d, factor) ==
  /\ phase = "divide"
  /\ factor \in 0..d - 1
  /\ s' \in Nat /\ s + factor * prime = d * s'
  /\ power' \in Nat /\ power = d * power'
  /\ UNCHANGED <<x, u, v, r, phase>>

Return ==
  /\ phase = "divide"
  /\ power = 1
  /\ phase' = "done"
  /\ UNCHANGED <<x, u, v, r, s, power>>

Next ==
  \/ SubtractV \/ SubtractU \/ Finish \/ Return
  \/ \E d \in Factors : HalveV(d) \/ HalveU(d)
  \/ \E d \in Factors : \E factor \in 0..d - 1 : Divide(d, factor)

Spec == Init /\ [][Next]_vars

-----------------------------------------------------------------------------
(* The loop's invariants, as the comments state them.                        *)

Bezout == u * s + v * r = prime

Congruent(a, b) == (a - b) % prime = 0

(* What the function returns.                                                *)
IsInverse == phase = "done" => Congruent(x * s, 1) /\ s \in 0..prime - 1
=============================================================================
