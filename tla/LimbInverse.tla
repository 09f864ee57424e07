---------------------------- MODULE LimbInverse -----------------------------
(***************************************************************************)
(* bn_inverse as a machine: one action for each part of its loop and for   *)
(* each step of the division behind it.  It implements AlmostInverse.      *)
(***************************************************************************)
EXTENDS BignumInverse

CONSTANT Prime      \* the modulus, a prime number

ASSUME LimbInverseAssumption ==
  /\ Prime \in 2^Bits - 2^(Bits - W - 2) + 1..2^Bits - 1
  /\ Prime % 2 = 1
  /\ \A d \in 2..Prime - 1 : Prime % d # 0

(* What is inverted: every number of up to Bits bits that is not 0 modulo    *)
(* the prime.                                                                *)
Inputs == {n \in 1..2^Bits - 1 : n # Prime}

VARIABLES
  input,      \* the number behind the argument
  st,         \* us, vr, k, even
  pc,         \* "halve", "compare", "divide" or "done"
  out         \* the result

vars == <<input, st, pc, out>>

prime == Of(Prime)

Init ==
  /\ input \in Inputs
  /\ st = Load(Of(input), prime)
  /\ pc = "halve"
  /\ out = bn_zero

HalveEven ==
  /\ pc = "halve"
  /\ st' = Halve(st)
  /\ pc' = "compare"
  /\ UNCHANGED <<input, out>>

SubtractSmaller ==
  /\ pc = "compare"
  /\ ~Finished(st)
  /\ st' = Subtract(st)
  /\ pc' = "halve"
  /\ UNCHANGED <<input, out>>

LeaveLoop ==
  /\ pc = "compare"
  /\ Finished(st)
  /\ pc' = "divide"
  /\ UNCHANGED <<input, st, out>>

\* A broken twin of the next definition: the last bits are left.
DivideByWholeWord ==
  /\ pc = "divide"
  /\ st.k >= W + 2
  /\ st' = Divide(st, prime)
  /\ UNCHANGED <<input, pc, out>>

DivideByWord ==
  /\ pc = "divide"
  /\ st.k > 0
  /\ st' = Divide(st, prime)
  /\ UNCHANGED <<input, pc, out>>

ReturnStored ==
  /\ pc = "divide"
  /\ st.k = 0
  /\ out' = Store(st)
  /\ pc' = "done"
  /\ UNCHANGED <<input, st>>

Next == HalveEven \/ SubtractSmaller \/ LeaveLoop \/ DivideByWord \/ ReturnStored

Spec == Init /\ [][Next]_vars

FairSpec == Spec /\ WF_vars(Next)

-----------------------------------------------------------------------------

u == First(st.us)
v == First(st.vr)
r == Second(st.vr)
s == Second(st.us)

Reduced == input % Prime

TypeOK ==
  /\ input \in Inputs
  /\ st \in Registers
  /\ pc \in {"halve", "compare", "divide", "done"}
  /\ out \in bignum256

(* The comments of the loop: u * s + v * r is the prime all the time, so     *)
(* that both numbers of a register fit beside each other, and s and r are    *)
(* the almost inverses of v and u.  A carry lost between the two halves of a *)
(* register, or a length that is not adjusted, breaks it.                    *)
LoopInvariant ==
  pc \in {"halve", "compare"} =>
    /\ u * s + v * r = Prime
    /\ (Reduced * s - v * 2^st.k) % Prime = 0
    /\ (Reduced * r + u * 2^st.k) % Prime = 0
    /\ (IF pc = "halve" THEN 2 * 2^st.k ELSE 2^st.k) >= s
    /\ Odd(st[Other(st.even)].a)

(* Every step of the limbs is a step of the algorithm on numbers.            *)
Algorithm ==
  INSTANCE AlmostInverse WITH
    prime <- Prime, Inputs <- {n % Prime : n \in Inputs}, Factors <- {2^j : j \in 0..Bits},
    x <- Reduced, power <- 2^st.k,
    phase <- IF pc \in {"halve", "compare"} THEN "loop" ELSE pc

ImplementsAlgorithm == Algorithm!Spec

(* The number that comes back is the inverse, below the prime.               *)
ReturnsInverse ==
  pc = "done" => Value(out) \in 1..Prime - 1 /\ (Reduced * Value(out)) % Prime = 1

(* The loops end: the input is not zero.                                     *)
Returns == <>(pc = "done")
=============================================================================
