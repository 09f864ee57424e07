-------------------------------- MODULE Sha2 --------------------------------
(***************************************************************************)
(* cryptography/sha2.c on a little-endian machine, and cryptography/hmac.c *)
(* over its SHA-256 and SHA-512.  A hash h is a record of its name, the    *)
(* bits of a word and the number of rounds; a context holds the words of   *)
(* its state, the bytes of its buffer as they are in memory and the bits   *)
(* it was given, one counter for the two of SHA-512: a message of 2^61     *)
(* bytes is out of reach.                                                  *)
(***************************************************************************)
EXTENDS Words

CONSTANTS
  K(_, _),          \* the constant words of the rounds
  InitialState(_)   \* the initial hash values

sha1   == [name |-> "sha1",   bits |-> 32, rounds |-> 80]
sha256 == [name |-> "sha256", bits |-> 32, rounds |-> 64]
sha512 == [name |-> "sha512", bits |-> 64, rounds |-> 80]
Hashes == {sha1, sha256, sha512}

Context == [state : Seq(Word), buffer : Seq(Byte), bitcount : Nat]

BytesOfWord(h) == h.bits \div 8
BlockLength(h) == 16 * BytesOfWord(h)
ShortBlockLength(h) == BlockLength(h) - 2 * BytesOfWord(h)

-----------------------------------------------------------------------------
(* The logical functions.                                                    *)

Plus(h, words) == SumW[h.bits, words]

Xor3(x, y, z) == XorW[XorW[x, y], z]

Ch(x, y, z)  == XorW[x \cap y, z \ x]
Maj(x, y, z) == Xor3(x \cap y, x \cap z, y \cap z)

Rotations(h, x, i, j, k) == Xor3(Rotr(h.bits, i, x), Rotr(h.bits, j, x), Rotr(h.bits, k, x))
Shifted(h, x, i, j, k)   == Xor3(Rotr(h.bits, i, x), Rotr(h.bits, j, x), ShrW(k, x))

Sigma0(h, x) == IF h = sha512 THEN Rotations(h, x, 28, 34, 39) ELSE Rotations(h, x, 2, 13, 22)
Sigma1(h, x) == IF h = sha512 THEN Rotations(h, x, 14, 18, 41) ELSE Rotations(h, x, 6, 11, 25)
sigma0(h, x) == IF h = sha512 THEN Shifted(h, x, 1, 8, 7)      ELSE Shifted(h, x, 7, 18, 3)
sigma1(h, x) == IF h = sha512 THEN Shifted(h, x, 19, 61, 6)    ELSE Shifted(h, x, 17, 19, 10)

-----------------------------------------------------------------------------
(* The compression: the registers a, b, ... and the last sixteen words of    *)
(* the message schedule, in a ring.                                          *)

Working == [reg : Seq(Word), ring : Seq(Word)]

At(st, j) == st.ring[(j % 16) + 1]

(* The next word of the schedule: of the block, or made from the ring.       *)
NextWord(h, st, data, j) ==
    IF j < 16 THEN data[j + 1]
    ELSE IF h = sha1
    THEN Rotl[32, 1, XorW[XorW[At(st, j + 13), At(st, j + 8)], XorW[At(st, j + 2), At(st, j)]]]
    ELSE Plus(h, <<At(st, j), sigma1(h, At(st, j + 14)), At(st, j + 9), sigma0(h, At(st, j + 1))>>)

Round1(st, word, j) ==
    LET a == st.reg[1]  b == st.reg[2]  c == st.reg[3]  d == st.reg[4]
        f == IF j < 20 THEN Ch(b, c, d)
             ELSE IF j \in 40..59 THEN Maj(b, c, d)
             ELSE Xor3(b, c, d)
    IN  <<Plus(sha1, <<Rotl[32, 5, a], f, st.reg[5], K(sha1, j), word>>), a, Rotl[32, 30, b], c, d>>

Round2(h, st, word, j) ==
    LET a == st.reg[1]  b == st.reg[2]  c == st.reg[3]  d == st.reg[4]
        e == st.reg[5]  f == st.reg[6]  g == st.reg[7]
        T1 == Plus(h, <<st.reg[8], Sigma1(h, e), Ch(e, f, g), K(h, j), word>>)
        T2 == PlusW[h.bits, Sigma0(h, a), Maj(a, b, c)]
    IN  <<PlusW[h.bits, T1, T2], a, b, c, PlusW[h.bits, d, T1], e, f, g>>

Turn[h \in Hashes, st \in Working, data \in Seq(Word), j \in Nat] ==
    LET word == NextWord(h, st, data, j)
    IN  [reg  |-> IF h = sha1 THEN Round1(st, word, j) ELSE Round2(h, st, word, j),
         ring |-> IF j < 16 THEN Append(st.ring, word) ELSE [st.ring EXCEPT ![(j % 16) + 1] = word]]

Transform[h \in Hashes, state_in \in Seq(Word), data \in Seq(Word)] ==
    LET upTo[j \in 0..h.rounds] == IF j = 0 THEN [reg |-> state_in, ring |-> <<>>]
                                   ELSE Turn[h, upTo[j - 1], data, j - 1]
        last == upTo[h.rounds].reg
    IN  [i \in DOMAIN state_in |-> PlusW[h.bits, state_in[i], last[i]]]

-----------------------------------------------------------------------------
(* The buffer: bytes are copied into it, its words are turned to host order  *)
(* in place, and the transformation reads them in that order.                *)

Copied(buffer, at, data) ==
    [i \in DOMAIN buffer |-> IF i - at \in DOMAIN data THEN data[i - at] ELSE buffer[i]]

(* REVERSE32 or REVERSE64 of the first words.                                *)
Reversed(h, buffer, words) ==
    LET size == BytesOfWord(h)
    IN  [i \in DOMAIN buffer |->
           IF i > words * size THEN buffer[i]
           ELSE buffer[2 * size * ((i - 1) \div size) + size + 1 - i]]

(* A word in memory, the lowest byte first.                                  *)
HostWords(h, buffer) ==
    LET size == BytesOfWord(h)
    IN  [j \in 1..16 |-> BytesWord(SubSeq(buffer, (j - 1) * size + 1, j * size))]

Transformed[h \in Hashes, ctx \in Context] ==
    LET host == Reversed(h, ctx.buffer, 16)
    IN  [ctx EXCEPT !.buffer = host, !.state = Transform[h, ctx.state, HostWords(h, host)]]

-----------------------------------------------------------------------------
(* Contexts.                                                                 *)

Init2(h) == [state |-> InitialState(h), buffer |-> [i \in 1..BlockLength(h) |-> {}], bitcount |-> 0]

Used(h, ctx) == (ctx.bitcount \div 8) % BlockLength(h)

\* A broken twin of the next definition: it counts before it looks where to store.
StoredBehindCount(h, ctx, data) ==
    LET counted == [ctx EXCEPT !.bitcount = @ + 8 * Len(data)]
    IN  [counted EXCEPT !.buffer = Copied(@, Used(h, counted), data)]

Stored(h, ctx, data) ==
    [ctx EXCEPT !.buffer = Copied(@, Used(h, ctx), data), !.bitcount = @ + 8 * Len(data)]

Update[h \in Hashes, ctx \in Context, data \in Seq(Byte)] ==
    LET block     == BlockLength(h)
        used      == Used(h, ctx)
        freespace == IF used > 0 THEN block - used ELSE 0
        filled    == IF used > 0 THEN Transformed[h, Stored(h, ctx, SubSeq(data, 1, freespace))]
                     ELSE ctx
        blocks    == (Len(data) - freespace) \div block
        upTo[n \in 0..blocks] ==
          IF n = 0 THEN filled
          ELSE LET at == freespace + (n - 1) * block
               IN  Transformed[h, Stored(h, upTo[n - 1], SubSeq(data, at + 1, at + block))]
    IN  IF Len(data) < freespace \/ data = <<>> THEN Stored(h, ctx, data)
        ELSE Stored(h, upTo[blocks], SubSeq(data, freespace + blocks * block + 1, Len(data)))

(* memzero of everything behind the first bytes, up to a length.             *)
ZeroedFrom(buffer, used, length) ==
    [i \in DOMAIN buffer |-> IF i \in used + 1..length THEN {} ELSE buffer[i]]

(* The padding: a one, zeros, and the bit count in the last two words; a     *)
(* block more if the one leaves no room for them.                            *)
Marked(h, ctx) == [ctx EXCEPT !.buffer[Used(h, ctx) + 1] = {7}]

Filled[h \in Hashes, ctx \in Context, used \in Nat] ==
    IF used > ShortBlockLength(h)
    THEN [Transformed[h, [ctx EXCEPT !.buffer = ZeroedFrom(@, used, BlockLength(h))]]
            EXCEPT !.buffer = ZeroedFrom(@, 0, ShortBlockLength(h))]
    ELSE [ctx EXCEPT !.buffer = ZeroedFrom(@, used, ShortBlockLength(h))]

Counted(h, buffer, bitcount) ==
    ZeroedFrom(Copied(Reversed(h, buffer, 14), ShortBlockLength(h) + BytesOfWord(h),
                      WordBytes(WordOf(bitcount), BytesOfWord(h))),
               ShortBlockLength(h), ShortBlockLength(h) + BytesOfWord(h))

LastBlock[h \in Hashes, ctx \in Context] ==
    Transform[h, ctx.state, HostWords(h, Counted(h, ctx.buffer, ctx.bitcount))]

\* A broken twin of the next definition: the mark is not counted as used.
sha2_LastOverMark(h, ctx) == LastBlock[h, Filled[h, Marked(h, ctx), Used(h, ctx)]]

sha2_Last(h, ctx) == LastBlock[h, Filled[h, Marked(h, ctx), Used(h, ctx) + 1]]

(* The digest.  Nothing of the context is left.                              *)
Digest[h \in Hashes, state \in Seq(Word)] ==
    Reversed(h, FlattenSeq([i \in DOMAIN state |-> WordBytes(state[i], BytesOfWord(h))]), Len(state))

Final[h \in Hashes, ctx \in Context] == Digest[h, sha2_Last(h, ctx)]

Raw(h, data) == Final[h, Update[h, Init2(h), data]]

-----------------------------------------------------------------------------
(* cryptography/hmac.c.                                                      *)

HmacContext == [ctx : Context, o_key_pad : Seq(Byte)]

ipad == {1, 2, 4, 5}    \* 0x36
opad == {2, 3, 4, 6}    \* 0x5c

XorByte(x, y) == (x \ y) \cup (y \ x)

Pad[block \in Seq(Byte), with \in Byte] == [i \in DOMAIN block |-> XorByte(block[i], with)]

ZeroFilled[h \in Hashes, bytes \in Seq(Byte)] ==
    [i \in 1..BlockLength(h) |-> IF i \in DOMAIN bytes THEN bytes[i] ELSE {}]

(* A key fills a block; one that is longer is hashed before.                 *)
KeyBlock(h, key) == ZeroFilled[h, IF Len(key) > BlockLength(h) THEN Raw(h, key) ELSE key]

hmac_Init(h, key) ==
    LET padded[block \in Seq(Byte)] ==
          [ctx |-> Update[h, Init2(h), Pad[block, ipad]], o_key_pad |-> Pad[block, opad]]
    IN  padded[KeyBlock(h, key)]

hmac_Update(h, hctx, msg) == [hctx EXCEPT !.ctx = Update[h, @, msg]]

hmac_Final(h, hctx) ==
    Final[h, Update[h, Update[h, Init2(h), hctx.o_key_pad], Final[h, hctx.ctx]]]

hmac(h, key, msg) == hmac_Final(h, hmac_Update(h, hmac_Init(h, key), msg))

(* The two digests of a key that are the states behind its pads.             *)
hmac_prepare(h, key) ==
    LET all(byte) == UNION {{8 * i + k : k \in byte} : i \in 0..BytesOfWord(h) - 1}
        state[words \in Seq(Word)] == Transform[h, InitialState(h), words]
        padded[words \in Seq(Word), with \in Word] == [j \in 1..16 |-> XorW[words[j], with]]
        digests[words \in Seq(Word)] ==
          [opad_digest |-> state[padded[words, all(opad)]],
           ipad_digest |-> state[padded[padded[words, all(opad)], XorW[all(opad), all(ipad)]]]]
    IN  digests[HostWords(h, Reversed(h, KeyBlock(h, key), 16))]
=============================================================================
