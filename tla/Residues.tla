------------------------------ MODULE Residues ------------------------------
(* The reference for the big numbers and the curve: arithmetic modulo p and  *)
(* the group of the curve y^2 = x^3 + a * x + b, on plain numbers below      *)
(* 2^24, so that no step leaves the integers of the checker.                 *)
EXTENDS Integers

Times(m, n, p) ==
    LET upTo[k \in Nat] == IF k = 0 THEN 0
                           ELSE (((64 * upTo[k \div 64]) % p) + m * (k % 64)) % p
    IN  upTo[n]

Power(m, n, p) ==
    LET upTo[e \in Nat] ==
          IF e = 0 THEN 1
          ELSE LET half   == upTo[e \div 2]
                   square == Times(half, half, p)
               IN  IF e % 2 = 0 THEN square ELSE Times(m, square, p)
    IN  upTo[n]

Inverted(m, p) == Power(m, p - 2, p)

(* The point at infinity is no pair of coordinates.                          *)
Zero == <<>>

PointSum(P, Q, a, p) ==
    LET slope == IF P = Q
                 THEN Times((3 * Times(P[1], P[1], p) + a) % p, Inverted((2 * P[2]) % p, p), p)
                 ELSE Times((Q[2] - P[2]) % p, Inverted((Q[1] - P[1]) % p, p), p)
        x == (Times(slope, slope, p) - P[1] - Q[1]) % p
        y == (Times(slope, (P[1] - x) % p, p) - P[2]) % p
    IN  IF P = Zero THEN Q
        ELSE IF Q = Zero THEN P
        ELSE IF P[1] = Q[1] /\ (P[2] + Q[2]) % p = 0 THEN Zero
        ELSE <<x, y>>

PointMultiple(k, P, a, p) ==
    LET upTo[n \in Nat] ==
          IF n = 0 THEN Zero
          ELSE LET half   == upTo[n \div 2]
                   double == PointSum(half, half, a, p)
               IN  IF n % 2 = 0 THEN double ELSE PointSum(P, double, a, p)
    IN  upTo[k]
=============================================================================
