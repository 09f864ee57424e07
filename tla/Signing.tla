------------------------------- MODULE Signing -------------------------------
(***************************************************************************)
(* A key pair and a signature, through every function of                   *)
(* cryptography/ecdsa.c that the library or its peers use.  The nonces are *)
(* what the deterministic generator may give; the numbers that blind a     *)
(* multiplication or the inversion of a nonce may be any.                  *)
(***************************************************************************)
EXTENDS Ecdsa, Residues

CONSTANTS
  Prime, Order, A, B, BaseX, BaseY,   \* the curve and its base point, numbers
  Keys, Digests, Nonces,              \* numbers of up to Bits bits
  Noise,                              \* random numbers in 1..Prime - 1
  MaxTurns                            \* bound on the turns of the signing loop

InRangeOfReduction(n) == n \in 2^Bits - 2^(Bits - W - 2) + 1..2^Bits - 1 /\ n % 2 = 1

ASSUME SigningAssumption ==
  /\ InRangeOfReduction(Prime) /\ InRangeOfReduction(Order) /\ Order < Prime
  /\ Prime % 4 = 3
  /\ A \in -3..0
  /\ Keys \subseteq 1..Order - 1
  /\ Digests \subseteq 0..2^Bits - 1 /\ Nonces \subseteq 0..2^Bits - 1
  /\ Noise \subseteq 1..Order - 1
  /\ MaxTurns \in Nat

In(n) == bn_write_be(Of(n))       \* a number in bytes

VARIABLES
  curve,        \* the constants of secp256k1.c, for this curve
  key, digest,
  pub, short,   \* the public key, in both forms
  sig,          \* what ecdsa_sign_digest left, or nothing yet
  turns,        \* of its loop
  checked,      \* what ecdsa_verify_digest returned for either form
  found,        \* the public keys that were recovered
  pc

vars == <<curve, key, digest, pub, short, sig, turns, checked, found, pc>>

None == [form |-> 0]

Init ==
  /\ curve = [prime |-> Of(Prime), order |-> Of(Order), order_half |-> Of(Order \div 2),
              a |-> A, b |-> Of(B), G |-> [x |-> Of(BaseX), y |-> Of(BaseY)]]
  /\ key \in Keys /\ digest \in Digests
  /\ pub = None /\ short = None
  /\ sig = Again
  /\ turns = 0
  /\ checked = {} /\ found = {}
  /\ pc = "key"

DeriveKey(noise) ==
  /\ pc = "key"
  /\ pub' = ecdsa_get_public_key65(curve, In(key), Of(noise))
  /\ short' = ecdsa_get_public_key33(curve, In(key), Of(noise))
  /\ pc' = "sign"
  /\ UNCHANGED <<curve, key, digest, sig, turns, checked, found>>

Sign(k, noise, randk) ==
  /\ pc = "sign"
  /\ turns < MaxTurns
  /\ turns' = turns + 1
  /\ sig' = SignWith(curve, In(key), In(digest), Of(k), Of(noise), Of(randk))
  /\ pc' = IF sig'.again THEN "sign" ELSE "signed"
  /\ UNCHANGED <<curve, key, digest, pub, short, checked, found>>

(* Too many turns: -1 is returned.                                           *)
GiveUp ==
  /\ pc = "sign"
  /\ turns = MaxTurns
  /\ pc' = "failed"
  /\ UNCHANGED <<curve, key, digest, pub, short, sig, turns, checked, found>>

Verify(noise) ==
  /\ pc = "signed"
  /\ pc' = "checked"
  /\ checked' = {ecdsa_verify_digest(curve, form, sig, In(digest), Of(noise)) : form \in {pub, short}}
  /\ UNCHANGED <<curve, key, digest, pub, short, sig, turns, found>>

Recover(noise) ==
  /\ pc = "checked"
  /\ pc' = "done"
  /\ found' = {ecdsa_recover_pub_from_sig(curve, sig, In(digest), sig.by, Of(noise))}
  /\ UNCHANGED <<curve, key, digest, pub, short, sig, turns, checked>>

Next ==
  \/ \E noise \in Noise : DeriveKey(noise) \/ Verify(noise) \/ Recover(noise)
  \/ \E k \in Nonces, noise \in Noise, randk \in Noise : Sign(k, noise, randk)
  \/ GiveUp

Spec == Init /\ [][Next]_vars

-----------------------------------------------------------------------------
Number(words) == Value(bn_read_be(words))

(* The window method of point_multiply, with its signed odd digits and       *)
(* blinded Jacobian points, gives key * G; and the short form of the key     *)
(* stands for the same point.                                                *)
PublicKeyIsTheMultiple ==
  pc # "key" =>
    LET point == <<Number(pub.x), Number(pub.y)>>
    IN  /\ point = PointMultiple(key, <<BaseX, BaseY>>, A, Prime)
        /\ ecdsa_read_pubkey(curve, short)
        /\ Pub65(ReadPoint(curve, short)) = pub

(* A nonce out of range, or one for which r or s is zero, never ends up in a *)
(* signature, and s is the lower of the two that would do.                   *)
SignatureInRange ==
  ~sig.again => /\ Number(sig.r) \in 1..Order - 1
                /\ Number(sig.s) \in 1..Order \div 2

(* Whoever checks a signature accepts it, unless the digest is a multiple of *)
(* the order, and whoever recovers the signer from it and its recovery byte  *)
(* finds the key: also when x was cut to the order and s was turned around.  *)
SignatureBelongsToKey ==
  /\ checked \subseteq {IF digest % Order = 0 THEN 3 ELSE 0}
  /\ found \subseteq {pub}
=============================================================================
