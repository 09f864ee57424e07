---------------------------- MODULE BignumInverse ----------------------------
(***************************************************************************)
(* The fast bn_inverse of cryptography/bignum.c.  Two registers of L + 1   *)
(* words hold two numbers each: the first in the words below len1, the     *)
(* lowest word first, the second in the rest, the highest word first.  us  *)
(* holds u and s, vr holds v and r.                                        *)
(***************************************************************************)
EXTENDS Bignum

Combo     == [a : [Limbs -> 0..Word - 1], len1 : 0..L]
Registers == [us : Combo, vr : Combo, k : Nat, even : {"us", "vr"}]

Other(name) == IF name = "us" THEN "vr" ELSE "us"

(* The two numbers of a register: what the algorithm computes with.          *)
First(c) ==
    LET upTo[n \in 0..L + 1] == IF n = 0 THEN 0 ELSE upTo[n - 1] + c.a[n - 1] * 2^((W + 2) * (n - 1))
    IN  upTo[c.len1]

Second(c) ==
    LET upTo[n \in 0..L + 1] == IF n = 0 THEN 0 ELSE upTo[n - 1] + c.a[L + 1 - n] * 2^((W + 2) * (n - 1))
    IN  upTo[L + 1 - c.len1]

(* The words of a normalized number below 2^Bits.                            *)
Words(x) ==
    [i \in 0..L - 1 |->
       U32(Shr(x[i], 2 * i) + Shl(x[i + 1], W - 2 * i))]

(* The registers at the start of the loop, x being reduced to the prime.     *)
Load(x, prime) ==
    LET partly  == FastMod(x, prime)
        reduced == Mod(partly, prime)
        combo(words, last) == [a |-> [i \in Limbs |-> IF i = L THEN last ELSE words[i]],
                               len1 |-> L]
    IN  [us |-> combo(Words(prime), 1), vr |-> combo(Words(reduced), 0), k |-> 0,
         even |-> "vr"]

-----------------------------------------------------------------------------
(* One turn of the loop.  First the even number is halved until it is odd,   *)
(* and the other number of its register doubled as often: by whole words,    *)
(* then by j bits.                                                           *)

Trim(c) ==
    [c EXCEPT !.len1 = CHOOSE n \in 1..c.len1 : /\ c.a[n - 1] # 0
                                                /\ \A i \in n..c.len1 - 1 : c.a[i] = 0]

ZeroWords(c) == CHOOSE n \in Limbs : c.a[n] # 0 /\ \A i \in 0..n - 1 : c.a[i] = 0

DropWords(c) ==
    LET n == ZeroWords(c)
    IN  [a    |-> [i \in Limbs |-> IF i + n > L THEN 0 ELSE c.a[i + n]],
         len1 |-> c.len1 - n]

ZeroBits(c) == CHOOSE j \in 0..W + 1 : c.a[0] % 2^j = 0 /\ c.a[0] % 2^(j + 1) # 0

DropBits(c) ==
    LET j     == ZeroBits(c)
        above == W + 2 - j
        right(i) == Shr(c.a[i], j) + (IF i + 1 < c.len1 THEN Shl(c.a[i + 1], above) ELSE 0)
        left(x, i) == Shl(x, j) + (IF i < L THEN Shr(c.a[i + 1], above) ELSE 0)
        top   == c.len1 - 1
        empty == right(top) = 0
    IN  IF j = 0 THEN c
        ELSE [a    |-> [i \in Limbs |-> IF i < top \/ (i = top /\ ~empty) THEN right(i)
                                        ELSE left(IF i = top THEN 0 ELSE c.a[i], i)],
              len1 |-> IF empty THEN top ELSE c.len1]

\* A broken twin of the next definition: whole words are not counted.
HalveUncounted(st) ==
    LET shifted == DropWords(Trim(st[st.even]))
    IN  [st EXCEPT ![st.even] = DropBits(shifted), !.k = @ + ZeroBits(shifted)]

Halve(st) ==
    LET trimmed == Trim(st[st.even])
        shifted == DropWords(trimmed)
    IN  [st EXCEPT ![st.even] = DropBits(shifted),
                   !.k = @ + (W + 2) * ZeroWords(trimmed) + ZeroBits(shifted)]

(* Then u and v are compared; equal, they are 1.                             *)
Differ(st) == {i \in 0..st.us.len1 - 1 : st.us.a[i] # st.vr.a[i]}

Finished(st) == st.us.len1 = st.vr.len1 /\ Differ(st) = {}

Greater(st) ==
    IF st.us.len1 # st.vr.len1 THEN st.us.len1 > st.vr.len1
    ELSE LET i == CHOOSE n \in Differ(st) : \A m \in Differ(st) : m <= n
         IN  st.us.a[i] > st.vr.a[i]

(* The smaller one is subtracted from the greater one, and the second number *)
(* of the greater's register added to the smaller's.                         *)
Subtract(st) ==
    LET name == IF Greater(st) THEN "us" ELSE "vr"
        even == st[name]
        odd  == st[Other(name)]
        borrow[i \in 0..even.len1] ==
          IF i = 0 THEN 1
          ELSE Shr(borrow[i - 1] + Word - 1 + even.a[i - 1]
                   - (IF i <= odd.len1 THEN odd.a[i - 1] ELSE 0), W + 2)
        carry[i \in odd.len1..L + 1] ==
          IF i = L + 1 THEN 0
          ELSE Shr(carry[i + 1] + (IF i >= even.len1 THEN even.a[i] ELSE 0) + odd.a[i], W + 2)
    IN  [st EXCEPT
           ![name].a = [i \in Limbs |->
              IF i >= even.len1 THEN even.a[i]
              ELSE U32(borrow[i] + Word - 1 + even.a[i] - (IF i < odd.len1 THEN odd.a[i] ELSE 0))],
           ![Other(name)].a = [i \in Limbs |->
              IF i < odd.len1 THEN odd.a[i]
              ELSE U32(carry[i + 1] + (IF i >= even.len1 THEN even.a[i] ELSE 0) + odd.a[i])],
           !.even = name]

-----------------------------------------------------------------------------
(* s / 2^k.                                                                  *)

\* A broken twin of the next definition: the first guess is the answer.
NegativeInverseGuessed(p0) == U32(p0 - 2)

(* -1 / prime modulo a word, from its lowest word.  That word is odd, amone  *)
(* is even and has more zeros at its end after every turn: the loop ends     *)
(* within W + 1 turns.                                                       *)
NegativeInverse(p0) ==
    LET turn[n \in 0..W + 1] ==
          IF n = 0 THEN [amone |-> p0 - 1, inverse |-> U32(p0 - 2)]
          ELSE LET before == turn[n - 1]
                   square == U32(before.amone * before.amone)
               IN  [amone |-> square, inverse |-> U32(before.inverse * (square + 1))]
        last == CHOOSE n \in 0..W + 1 : /\ turn[n].amone = 0
                                        /\ \A m \in 0..n - 1 : turn[m].amone # 0
    IN  turn[last].inverse

\* A broken twin of the next definition: every step takes a whole word.
DivideWholeWords(st, prime) ==
    LET pp      == Words(prime)
        s(i)    == st.us.a[L - i]
        bits    == W + 2
        factor  == U32(NegativeInverse(pp[0]) * s(0)) % 2^bits
        term(i) == U64((s(i) + pp[i] * factor) * 2^(W + 2 - bits))
        temp[i \in 0..L - 1] ==
          IF i = 0 THEN Shr(U64(s(0) + pp[0] * factor), bits)
          ELSE Shr(U64(temp[i - 1] + term(i)), W + 2)
        word(i) == U32(IF i = L - 1 THEN temp[i] ELSE temp[i] + term(i + 1))
    IN  [st EXCEPT !.us.a = [n \in Limbs |-> IF n = 0 THEN @[0] ELSE word(L - n)],
                   !.k = @ - bits]

(* One step: s plus the multiple of the prime that ends in zeros, without    *)
(* the zeros: a word of them, or the last k bits.                            *)
Divide(st, prime) ==
    LET pp      == Words(prime)
        s(i)    == st.us.a[L - i]
        bits    == IF st.k >= W + 2 THEN W + 2 ELSE st.k
        factor  == U32(NegativeInverse(pp[0]) * s(0)) % 2^bits
        term(i) == U64((s(i) + pp[i] * factor) * 2^(W + 2 - bits))
        temp[i \in 0..L - 1] ==
          IF i = 0 THEN Shr(U64(s(0) + pp[0] * factor), bits)
          ELSE Shr(U64(temp[i - 1] + term(i)), W + 2)
        word(i) == U32(IF i = L - 1 THEN temp[i] ELSE temp[i] + term(i + 1))
    IN  [st EXCEPT !.us.a = [n \in Limbs |-> IF n = 0 THEN @[0] ELSE word(L - n)],
                   !.k = @ - bits]

Store(st) ==
    LET s(i)    == st.us.a[L - i]
        temp(i) == IF i = 0 THEN 0 ELSE Shr(s(i - 1), W - 2 * (i - 1))
    IN  [i \in Limbs |-> IF i = L THEN temp(L) ELSE Low(Shl(s(i), 2 * i)) + temp(i)]

-----------------------------------------------------------------------------
(* The whole function, for x that is not 0 modulo the prime.                 *)
Loop[st \in Registers] ==
    LET halved == Halve(st)
    IN  IF Finished(halved) THEN halved ELSE Loop[Subtract(halved)]

DivideAll[st \in Registers, prime \in bignum256] ==
    IF st.k = 0 THEN st ELSE DivideAll[Divide(st, prime), prime]

bn_inverse[x, prime \in bignum256] == Store(DivideAll[Loop[Load(x, prime)], prime])
=============================================================================
