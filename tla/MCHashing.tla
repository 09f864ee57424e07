------------------------------ MODULE MCHashing ------------------------------
(* The constant words of SHA-1 and SHA-2 are any words: theirs are not       *)
(* needed to tell a right schedule, padding or order of bytes from a wrong   *)
(* one.                                                                      *)
EXTENDS Hashing

Irregular(bits, n) ==
    LET m == n % 31 IN {k \in 0..bits - 1 : (5 * k * k + m * (k + 3) + m * m) % 31 < 14}

RoundWords == [bits \in {32, 64} |-> [j \in 0..79 |-> Irregular(bits, 3 * j + 1)]]
ManyBytes  == [n \in 1..600 |-> Irregular(8, n * n + 2 * n)]

RoundWord(h, j) == RoundWords[h.bits][j]
InitialWords(h) == [i \in 1..(IF h = sha1 THEN 5 ELSE 8) |-> Irregular(h.bits, 5 * i)]
PatternByte(n)  == ManyBytes[n]

(* Around the ends of a block and of what the padding leaves of it.          *)
AroundBlocks(k) ==
    CASE k.family = "sha2" -> LET b == BlockLength(k.hash)
                                 IN  {0, 1, ShortBlockLength(k.hash) - 1, b - 1, b + 1}
      [] k.family = "sha3" -> LET b == (1600 - 2 * k.bits) \div 8 IN {1, b - 1, b + 1}
      [] k.family = "hmac" -> {1, ShortBlockLength(k.hash) - 1}

AnyKey(n) == [i \in 1..n |-> Irregular(8, 4 * i + 1)]

(* Keys of less than a block, of a whole one and of more.                    *)
AllKinds ==
    {[family |-> "sha2", hash |-> h] : h \in Hashes}
      \cup {[family |-> "sha3", bits |-> 256, mark |-> {0}], [family |-> "sha3", bits |-> 512, mark |-> {1, 2}]}
      \cup {[family |-> "hmac", hash |-> sha256, key |-> AnyKey(n)] : n \in {32, 65}}
      \cup {[family |-> "hmac", hash |-> sha512, key |-> AnyKey(128)]}
=============================================================================
