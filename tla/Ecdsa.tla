-------------------------------- MODULE Ecdsa --------------------------------
(***************************************************************************)
(* cryptography/ecdsa.c over the limbs of Bignum.  A curve is a record of  *)
(* prime, order, order_half, b and G, in limbs, and of the small number a, *)
(* which is not positive.  Keys and signatures in bytes are records of     *)
(* words.  Random numbers, which blind the computations, are parameters.   *)
(***************************************************************************)
EXTENDS BignumInverse

curve_point          == [x : bignum256, y : bignum256]
jacobian_curve_point == [x : bignum256, y : bignum256, z : bignum256]
ecdsa_curve == [prime : bignum256, order : bignum256, order_half : bignum256, a : Int,
                b : bignum256, G : curve_point]

Infinity == [x |-> bn_zero, y |-> bn_zero]

Reduce(n, prime) == bn_mod[bn_fast_mod[n, prime], prime]

-----------------------------------------------------------------------------
(* Points with two coordinates.                                              *)

point_is_infinity(p) == bn_is_zero(p.x) /\ bn_is_zero(p.y)
point_is_equal(p, q) == bn_is_equal(p.x, q.x) /\ bn_is_equal(p.y, q.y)

point_is_negative_of(p, q) ==
    bn_is_equal(p.x, q.x) /\ ~bn_is_zero(p.y) /\ ~bn_is_equal(p.y, q.y)

(* The third point on the line through p, with the slope lambda, mirrored;   *)
(* sum is the sum of the other two points' x.                                *)
ThirdX[lambda, sum, prime \in bignum256] ==
    Reduce(bn_subtractmod[bn_multiply[lambda, lambda, prime], sum, prime], prime)

ThirdAt[p \in curve_point, lambda, prime, xr \in bignum256] ==
    [x |-> xr,
     y |-> Reduce(bn_subtractmod[bn_multiply[lambda, bn_subtractmod[p.x, xr, prime], prime],
                                 p.y, prime], prime)]

Third[p \in curve_point, lambda, sum, prime \in bignum256] ==
    ThirdAt[p, lambda, prime, ThirdX[lambda, sum, prime]]

point_double[c \in ecdsa_curve, p \in curve_point] ==
    IF point_is_infinity(p) \/ bn_is_zero(p.y) THEN Infinity
    ELSE Third[p, bn_multiply[bn_inverse[bn_mult_k[p.y, 2, c.prime], c.prime],
                              bn_subi[bn_mult_k[bn_multiply[p.x, p.x, c.prime], 3, c.prime], -c.a, c.prime],
                              c.prime],
               bn_lshift[p.x], c.prime]

point_add[c \in ecdsa_curve, p1, p2 \in curve_point] ==
    IF point_is_infinity(p1) THEN p2
    ELSE IF point_is_infinity(p2) THEN p1
    ELSE IF point_is_equal(p1, p2) THEN point_double[c, p2]
    ELSE IF point_is_negative_of(p1, p2) THEN Infinity
    ELSE Third[p1, bn_multiply[bn_inverse[bn_subtractmod[p2.x, p1.x, c.prime], c.prime],
                               bn_subtractmod[p2.y, p1.y, c.prime], c.prime],
               bn_addmod[p1.x, p2.x, c.prime], c.prime]

-----------------------------------------------------------------------------
(* Points in Jacobian coordinates: x / z^2 and y / z^3.                      *)

(* x * z^2 and y * z^3.                                                      *)
Scaled[p \in curve_point, z, square, prime \in bignum256] ==
    [x |-> bn_multiply[p.x, square, prime],
     y |-> bn_multiply[p.y, bn_multiply[z, square, prime], prime]]

ScaledBy(p, z, prime) == Scaled[p, z, bn_multiply[z, z, prime], prime]

curve_to_jacobian[p \in curve_point, z, prime \in bignum256] ==
    LET q == ScaledBy(p, z, prime) IN [x |-> q.x, y |-> q.y, z |-> z]

Divided[jp \in jacobian_curve_point, inv, prime \in bignum256] ==
    ScaledBy([x |-> jp.x, y |-> jp.y], inv, prime)

Modulo[p \in curve_point, prime \in bignum256] ==
    [x |-> bn_mod[p.x, prime], y |-> bn_mod[p.y, prime]]

jacobian_to_curve[jp \in jacobian_curve_point, prime \in bignum256] ==
    Modulo[Divided[jp, bn_inverse[jp.z, prime], prime], prime]

conditional_negate[cond \in BOOLEAN, a, prime \in bignum256] ==
    IF cond THEN Sum(1, LAMBDA i : Limb - 1 + 2 * prime[i] - a[i]) ELSE a

(* The line through two points is that of slope r / h, up to a factor; with  *)
(* the sums of their x and y.                                                *)
Line == [r : bignum256, h : bignum256, xz : bignum256, yz : bignum256]

(* 3 x^2 + a z^4; only that a is left out if it is zero.                     *)
TangentSlope[c \in ecdsa_curve, x, zz \in bignum256] ==
    LET square == bn_mult_k[bn_multiply[x, x, c.prime], 3, c.prime]
    IN  IF c.a = 0 THEN square
        ELSE bn_subtractmod[square, bn_mult_k[bn_multiply[zz, zz, c.prime], -c.a, c.prime], c.prime]

(* q is the first point, brought to the z of p2.  The two are equal if their *)
(* x are: h0 is then a multiple of the prime that bn_fast_mod brings to the  *)
(* prime itself, never to zero.                                              *)
LineThrough[c \in ecdsa_curve, q \in curve_point, p2 \in jacobian_curve_point, h0, yz \in bignum256] ==
    LET is_doubling == bn_is_equal(h0, c.prime)
    IN  [r  |-> IF is_doubling THEN TangentSlope[c, p2.x, bn_multiply[p2.z, p2.z, c.prime]]
                ELSE bn_subtractmod[q.y, p2.y, c.prime],
         h  |-> bn_cmov(is_doubling, yz, h0),
         xz |-> bn_add[q.x, p2.x],
         yz |-> yz]

JacobianAt[c \in ecdsa_curve, t \in Line, z, hsqx, hcby, x3 \in bignum256] ==
    [x |-> x3,
     y |-> bn_fast_mod[bn_mult_half[
             bn_subtractmod[
               bn_multiply[t.r, bn_subtractmod[bn_subtractmod[hsqx, x3, c.prime], x3, c.prime], c.prime],
               hcby, c.prime], c.prime], c.prime],
     z |-> bn_multiply[t.h, z, c.prime]]

JacobianX[c \in ecdsa_curve, r, hsqx \in bignum256] ==
    bn_fast_mod[bn_subtractmod[bn_multiply[r, r, c.prime], hsqx, c.prime], c.prime]

JacobianThird[c \in ecdsa_curve, t \in Line, z, hsqx, hcby \in bignum256] ==
    JacobianAt[c, t, z, hsqx, hcby, JacobianX[c, t.r, hsqx]]

AlongLine[c \in ecdsa_curve, t \in Line, z, hh \in bignum256] ==
    JacobianThird[c, t, z, bn_multiply[t.xz, hh, c.prime],
                  bn_multiply[t.yz, bn_multiply[hh, t.h, c.prime], c.prime]]

Along[c \in ecdsa_curve, t \in Line, z \in bignum256] ==
    AlongLine[c, t, z, bn_multiply[t.h, t.h, c.prime]]

JacobianSum[c \in ecdsa_curve, q \in curve_point, p2 \in jacobian_curve_point] ==
    Along[c, LineThrough[c, q, p2, bn_fast_mod[bn_subtractmod[q.x, p2.x, c.prime], c.prime],
                         bn_add[q.y, p2.y]],
          p2.z]

point_jacobian_add[p1 \in curve_point, p2 \in jacobian_curve_point, c \in ecdsa_curve] ==
    JacobianSum[c, ScaledBy(p1, p2.z, c.prime), p2]

(* Half of 3 x^2 + a z^4.                                                    *)
HalfSlope[c \in ecdsa_curve, x, zz \in bignum256] ==
    bn_mult_half[bn_subtractmod[bn_mult_k[bn_multiply[x, x, c.prime], 3, c.prime],
                                bn_mult_k[bn_multiply[zz, zz, c.prime], -c.a, c.prime], c.prime],
                 c.prime]

DoubleAt[c \in ecdsa_curve, p \in jacobian_curve_point, m, ysq, xysq, x3 \in bignum256] ==
    [x |-> x3,
     y |-> bn_fast_mod[bn_subtractmod[bn_multiply[m, bn_subtractmod[xysq, x3, c.prime], c.prime],
                                      bn_multiply[ysq, ysq, c.prime], c.prime], c.prime],
     z |-> bn_multiply[p.y, p.z, c.prime]]

DoubleAlong[c \in ecdsa_curve, p \in jacobian_curve_point, m, ysq, xysq \in bignum256] ==
    DoubleAt[c, p, m, ysq, xysq, JacobianX[c, m, bn_fast_mod[bn_lshift[xysq], c.prime]]]

DoubleWith[c \in ecdsa_curve, p \in jacobian_curve_point, ysq \in bignum256] ==
    DoubleAlong[c, p, HalfSlope[c, p.x, bn_multiply[p.z, p.z, c.prime]], ysq,
                bn_multiply[p.x, ysq, c.prime]]

point_jacobian_double[p \in jacobian_curve_point, c \in ecdsa_curve] ==
    DoubleWith[c, p, bn_multiply[p.y, p.y, c.prime]]

-----------------------------------------------------------------------------
(* k * p: Digits digits of four bits, all of them odd and between -15 and 15.*)

Digits == Bits \div 4

\* A broken twin of the next definition: one is subtracted, not the order.
SubtrahendOne(c, k, i) == IF Odd(k) \/ i > 0 THEN 0 ELSE 1

Subtrahend(c, k, i) == IF Odd(k) THEN 0 ELSE c.order[i]

(* k + 2^256, or k - order + 2^256 if k is even.                             *)
MakeOdd[c \in ecdsa_curve, k \in bignum256] ==
    TopKept[Carries(L, 1, LAMBDA i : (IF i = L THEN 2^T ELSE Limb) - 1 + k[i] - Subtrahend(c, k, i), U32)]

(* Five bits of a from bit 4 * i on: the digit and, above it, its sign.      *)
Window(a, i) ==
    LET limb  == (4 * i) \div W
        shift == (4 * i) % W
    IN  (Shr(a[limb], shift) + (IF limb < L THEN a[limb + 1] * 2^(W - shift) ELSE 0)) % 32

Digit(a, i) ==
    LET bits == Window(a, i)
    IN  [negative |-> bits < 16, half |-> (IF bits < 16 THEN 15 - bits ELSE bits - 16) \div 2]

(* p, 3 * p, ..., 15 * p.                                                    *)
Multiples[c \in ecdsa_curve, pmult \in Seq(curve_point), twice \in curve_point] ==
    IF Len(pmult) = 8 THEN pmult
    ELSE Multiples[c, Append(pmult, point_add[c, pmult[Len(pmult)], twice]), twice]

(* The point is doubled four times, and the next digit's multiple of p added;*)
(* if the sign changes from the last digit to this one, so does the point's. *)
Doublings[c \in ecdsa_curve, jp \in jacobian_curve_point, n \in 0..4] ==
    IF n = 0 THEN jp ELSE Doublings[c, point_jacobian_double[jp, c], n - 1]

Turned[c \in ecdsa_curve, jp \in jacobian_curve_point, turn \in BOOLEAN] ==
    [jp EXCEPT !.z = conditional_negate[turn, @, c.prime]]

(* The digits below i.                                                       *)
DigitsBelow[c \in ecdsa_curve, a \in bignum256, pmult \in Seq(curve_point), i \in 0..Digits - 1, jp \in jacobian_curve_point] ==
    LET digit(n) == Digit(a, n)
    IN  IF i = 0 THEN Turned[c, jp, digit(0).negative]
        ELSE DigitsBelow[c, a, pmult, i - 1,
               point_jacobian_add[pmult[digit(i - 1).half + 1],
                 Turned[c, Doublings[c, jp, 4], digit(i).negative # digit(i - 1).negative], c]]

WithDigits[c \in ecdsa_curve, a \in bignum256, pmult \in Seq(curve_point), noise \in bignum256] ==
    DigitsBelow[c, a, pmult, Digits - 1,
                curve_to_jacobian[pmult[Digit(a, Digits - 1).half + 1], noise, c.prime]]

point_multiply[c \in ecdsa_curve, k \in bignum256, p \in curve_point, noise \in bignum256] ==
    IF bn_is_zero(k) THEN Infinity
    ELSE jacobian_to_curve[
           WithDigits[c, MakeOdd[c, k], Multiples[c, <<p>>, point_double[c, p]], noise], c.prime]

scalar_multiply(c, k, noise) == point_multiply[c, k, c.G, noise]

-----------------------------------------------------------------------------
(* Keys.                                                                     *)

Pub65(p) == [form |-> 4, x |-> bn_write_be(p.x), y |-> bn_write_be(p.y)]

Pub33(p) == [form |-> 2 + (p.y[0] % 2), x |-> bn_write_be(p.x)]

ecdsa_get_public_key65(c, priv_key, noise) ==
    Pub65(scalar_multiply(c, bn_read_be(priv_key), noise))

ecdsa_get_public_key33(c, priv_key, noise) ==
    Pub33(scalar_multiply(c, bn_read_be(priv_key), noise))

(* x^3 + a x: the value of b is added in different ways.                     *)
Cubic[c \in ecdsa_curve, x \in bignum256] ==
    bn_multiply[x, bn_subi[bn_multiply[x, x, c.prime], -c.a, c.prime], c.prime]

OfParity[odd \in BOOLEAN, y, prime \in bignum256] ==
    IF odd # Odd(y) THEN bn_subtract[prime, y] ELSE y

(* The y of the given parity; no root, no point: nothing is checked here.    *)
uncompress_coords[c \in ecdsa_curve, odd \in BOOLEAN, x \in bignum256] ==
    OfParity[odd, bn_sqrt[bn_add[Cubic[c, x], c.b], c.prime], c.prime]

ecdsa_validate_pubkey[c \in ecdsa_curve, pub \in curve_point] ==
    /\ ~point_is_infinity(pub)
    /\ bn_is_less(pub.x, c.prime) /\ bn_is_less(pub.y, c.prime)
    /\ bn_is_equal(bn_mod[bn_addmod[Cubic[c, pub.x], c.b, c.prime], c.prime],
                   bn_mod[bn_multiply[pub.y, pub.y, c.prime], c.prime])

Uncompressed[c \in ecdsa_curve, odd \in BOOLEAN, x \in bignum256] ==
    [x |-> x, y |-> uncompress_coords[c, odd, x]]

ReadPoint(c, pub_key) ==
    IF pub_key.form = 4 THEN [x |-> bn_read_be(pub_key.x), y |-> bn_read_be(pub_key.y)]
    ELSE Uncompressed[c, pub_key.form = 3, bn_read_be(pub_key.x)]

ecdsa_read_pubkey(c, pub_key) ==
    pub_key.form \in {2, 3, 4} /\ ecdsa_validate_pubkey[c, ReadPoint(c, pub_key)]

-----------------------------------------------------------------------------
(* Signatures.                                                               *)

Again == [again |-> TRUE]

\* A broken twin of the next definition: r may be zero.
UnusableButForR(r, s) == bn_is_zero(s)

(* What no signature is made from.                                           *)
Unusable(r, s) == bn_is_zero(r) \/ bn_is_zero(s)

\* A broken twin of the next definition: the lower s keeps the parity.
RecoveryByteUnturned(odd, wraps, high) == (IF odd THEN 1 ELSE 0) + (IF wraps THEN 2 ELSE 0)

(* Which of the points with r is meant: its y, and whether x was cut.        *)
RecoveryByte(odd, wraps, high) ==
    (IF odd # high THEN 1 ELSE 0) + (IF wraps THEN 2 ELSE 0)

(* r is the x of k * G, cut to the order; s the sum over k, where the        *)
(* inverse is taken of k times a random number.                              *)
SignatureOf[c \in ecdsa_curve, r, s \in bignum256, odd, wraps, high \in BOOLEAN] ==
    IF Unusable(r, s) THEN Again
    ELSE [again |-> FALSE,
          r |-> bn_write_be(r),
          s |-> bn_write_be(IF high THEN bn_subtract[c.order, s] ELSE s),
          by |-> RecoveryByte(odd, wraps, high)]

WithS[c \in ecdsa_curve, r, s \in bignum256, odd, wraps \in BOOLEAN] ==
    SignatureOf[c, r, s, odd, wraps, bn_is_less(c.order_half, s)]

SumOverNonce[c \in ecdsa_curve, priv, z, k, r, randk \in bignum256] ==
    bn_mod[bn_multiply[randk,
             bn_multiply[bn_inverse[bn_multiply[randk, k, c.order], c.order],
                         bn_add[bn_multiply[r, priv, c.order], z], c.order], c.order], c.order]

WithR[c \in ecdsa_curve, priv, z, k, randk, r \in bignum256, odd, wraps \in BOOLEAN] ==
    WithS[c, r, SumOverNonce[c, priv, z, k, r, randk], odd, wraps]

WithPoint[c \in ecdsa_curve, priv, z, k, randk \in bignum256, R \in curve_point] ==
    IF bn_is_less(R.x, c.order) THEN WithR[c, priv, z, k, randk, R.x, Odd(R.y), FALSE]
    ELSE WithR[c, priv, z, k, randk, bn_subtract[R.x, c.order], Odd(R.y), TRUE]

InRange(c, n) == bn_is_less(n, c.order) /\ ~bn_is_zero(n)

(* One turn of the loop of ecdsa_sign_digest, with the nonce k.              *)
SignWith(c, priv_key, digest, k, noise, randk) ==
    IF ~InRange(c, k) THEN Again
    ELSE WithPoint[c, bn_read_be(priv_key), bn_read_be(digest), k, randk, scalar_multiply(c, k, noise)]

Ratio[m, inv, order \in bignum256] == bn_mod[bn_multiply[m, inv, order], order]

(* 0, or what is wrong with the signature.                                   *)
Checked[c \in ecdsa_curve, Q \in curve_point, r, z, u, noise \in bignum256] ==
    IF bn_is_zero(z) THEN 3
    ELSE IF bn_is_equal(bn_mod[point_add[c, point_multiply[c, u, Q, noise],
                                            scalar_multiply(c, z, noise)].x, c.order], r)
         THEN 0 ELSE 5

CheckedWith[c \in ecdsa_curve, Q \in curve_point, r, digest, inv, noise \in bignum256] ==
    Checked[c, Q, r, Ratio[digest, inv, c.order], Ratio[r, inv, c.order], noise]

ecdsa_verify_digest(c, pub_key, sig, digest, noise) ==
    IF ~ecdsa_read_pubkey(c, pub_key) THEN 1
    ELSE IF ~InRange(c, bn_read_be(sig.r)) \/ ~InRange(c, bn_read_be(sig.s)) THEN 2
    ELSE CheckedWith[c, ReadPoint(c, pub_key), bn_read_be(sig.r), bn_read_be(digest),
                     bn_inverse[bn_read_be(sig.s), c.order], noise]

NotRecovered == [form |-> 0]

(* (s * R - digest * G) / r, for the point R with the x of the signature.    *)
RecoveredFrom[c \in ecdsa_curve, cp \in curve_point, r, s, e, noise \in bignum256] ==
    IF ~ecdsa_validate_pubkey[c, cp] THEN NotRecovered
    ELSE Pub65(point_multiply[c, bn_inverse[r, c.order],
                 point_add[c, scalar_multiply(c, e, noise), point_multiply[c, s, cp, noise]], noise])

ecdsa_recover_pub_from_sig(c, sig, digest, recid, noise) ==
    LET r == bn_read_be(sig.r)
        x == IF recid \div 2 = 1 THEN bn_add[r, c.order] ELSE r
    IN  IF ~InRange(c, r) \/ ~InRange(c, bn_read_be(sig.s)) THEN NotRecovered
        ELSE IF recid \div 2 = 1 /\ ~bn_is_less(x, c.prime) THEN NotRecovered
        ELSE RecoveredFrom[c, Uncompressed[c, recid % 2 = 1, x], r, bn_read_be(sig.s),
               Reduce(bn_subtractmod[c.order, bn_read_be(digest), c.order], c.order), noise]
=============================================================================
